-------------------------------- MODULE Store --------------------------------
(***************************************************************************)
(* The PostgreSQL database the broker keeps its state in (db/models.py),   *)
(* as committed rows and the row locks of the transactions under way.      *)
(* Transactions run at READ COMMITTED, PostgreSQL's default: a statement   *)
(* reads the rows committed when it starts, an UPDATE, DELETE or upsert    *)
(* waits for the transaction that holds the row it wants and then looks at *)
(* the row again, and locks are held until the transaction ends.           *)
(*                                                                         *)
(* A table is a function from its primary key.  An effect and an audit row *)
(* are written by exactly one call, so the call stands for the random      *)
(* effect_id and audit_id they get.                                        *)
(***************************************************************************)
EXTENDS Domain

CONSTANTS
    Calls,          \* call_tool invocations, each with its own transaction
    ApprovalIds,    \* the approval ids that new_id can draw, never reused
    Subjects,       \* verified subjects
    Accounts,
    MaxInt4,        \* largest value an Integer column takes, 2^31 - 1
    WindowSeconds,  \* WINDOW_SECONDS, 60 in the code
    MaxTime,        \* bound: the clock stops here
    Unissued,       \* approval id not drawn yet
    Wiped,          \* approval row deleted by a reset
    Free,           \* lock held by nobody
    Resetter        \* the reset transaction

VARIABLES
    clock,          \* wall clock, seconds
    approval,       \* table approval
    effect,         \* table irreversible_effect
    audit,          \* table audit_event
    counter,        \* table rate_limit_counter; 0 means no row
    rowLock,        \* holder of each approval row's lock
    bucketLock      \* holder of each counter row's lock

tables == <<approval, effect, audit, counter>>
locks  == <<rowLock, bucketLock>>

\* The fixed window a moment falls in (ratelimit.window_start).
WindowStart_Sliding(moment) == moment
WindowStart(moment) == moment - (moment % WindowSeconds)

Tools   == DOMAIN TOOL_SCOPES
Buckets == Subjects \X Tools \X {WindowStart(t) : t \in 0..MaxTime}
Owners  == Calls \cup {Resetter, Free}

\* ck_approval_amount_positive and the Integer column bound the amount.
Approval ==
    [ subject : Subjects, tool : IRREVERSIBLE_TOOLS, account : Accounts,
      amount : 1..MaxInt4, expires_at : Nat, consumed_at : Nat \cup {None} ]

IrreversibleEffect ==
    [ approval_id : ApprovalIds, subject : Subjects, tool : IRREVERSIBLE_TOOLS,
      account : Accounts, amount : 1..MaxInt4 ]

AuditEvent ==
    [ subject : Subjects \cup {None}, decision : Decisions,
      reason : DENIAL_REASONS \cup {None},
      approval_id : ApprovalIds \cup {None}, effect_id : Calls \cup {None} ]

ASSUME StoreAssumption ==
    /\ MaxInt4 \in Nat \ {0}
    /\ MaxTime \in Nat
    /\ WindowSeconds \in Nat \ {0}
    /\ None \notin Calls \cup ApprovalIds \cup Subjects
    /\ None \notin IrreversibleEffect \cup AuditEvent
    /\ {Unissued, Wiped} \cap Approval = {}
    /\ Unissued # Wiped
    /\ Resetter # Free
    /\ {Resetter, Free} \cap Calls = {}

StoreTypeOK ==
    /\ clock \in 0..MaxTime
    /\ approval \in [ApprovalIds -> Approval \cup {Unissued, Wiped}]
    /\ effect \in [Calls -> IrreversibleEffect \cup {None}]
    /\ audit \in [Calls -> AuditEvent \cup {None}]
    /\ counter \in [Buckets -> Nat]
    /\ rowLock \in [ApprovalIds -> Owners]
    /\ bucketLock \in [Buckets -> Owners]

\* A database migrated to head, before anyone has used it.
StoreInit ==
    /\ clock = 0
    /\ approval = [a \in ApprovalIds |-> Unissued]
    /\ effect = [c \in Calls |-> None]
    /\ audit = [c \in Calls |-> None]
    /\ counter = [b \in Buckets |-> 0]
    /\ rowLock = [a \in ApprovalIds |-> Free]
    /\ bucketLock = [b \in Buckets |-> Free]

\* The approval ids that have a committed row.
ApprovalRows == {a \in ApprovalIds : approval[a] \notin {Unissued, Wiped}}

\* The calls whose effect is committed.
Effects == {c \in Calls : effect[c] # None}

\* The end of a transaction gives back every lock it held.
Released(lock, owner) ==
    [k \in DOMAIN lock |-> IF lock[k] = owner THEN Free ELSE lock[k]]

\* Time passes.
Tick ==
    /\ clock < MaxTime
    /\ clock' = clock + 1
    /\ UNCHANGED <<tables, locks>>
==============================================================================
