------------------------------- MODULE Console -------------------------------
(***************************************************************************)
(* The console API's two writers (app.py): a human grants an approval, an  *)
(* operator resets the demonstration.  The reset is one transaction of     *)
(* four DELETEs, each of which sees the rows committed when it starts and  *)
(* waits for those a call holds.                                           *)
(***************************************************************************)
EXTENDS Approvals

CONSTANTS
    GrantBodies,    \* what a human posts: [subject, account, amount, ttl_seconds]
    Credentials,    \* what can be presented in the Authorization header
    ApproverToken,  \* approver_token, None when unset
    AdminResetToken, \* admin_reset_token, None when unset
    MaxResets       \* bound: resets attempted

VARIABLES
    resetPc,        \* the statement the reset runs next
    resetTodo,      \* rows its current DELETE has still to lock
    doomedEffects,  \* effects its first DELETE saw
    doomedAudits,   \* audit rows its second DELETE saw
    resets          \* resets attempted so far

resetVars == <<resetPc, resetTodo, doomedEffects, doomedAudits, resets>>

ASSUME ConsoleAssumption ==
    /\ MaxResets \in Nat
    /\ \A body \in GrantBodies : /\ body.subject \in Subjects
                                 /\ body.account \in Accounts
                                 /\ body.amount \in Nat \ {0}
                                 /\ body.ttl_seconds \in Nat \ {0}

ResetStates ==
    {"idle", "audit", "approvals", "lockApprovals", "counters", "lockCounters"}

ConsoleTypeOK ==
    /\ resetPc \in ResetStates
    /\ resetTodo \subseteq ApprovalIds \cup Buckets
    /\ doomedEffects \subseteq Calls
    /\ doomedAudits \subseteq Calls
    /\ resets \in 0..MaxResets

ConsoleInit ==
    /\ resetPc = "idle"
    /\ resetTodo = {}
    /\ doomedEffects = {}
    /\ doomedAudits = {}
    /\ resets = 0

\* Any bearer will do, once the route is enabled.
MayGrant_AnyBearer(presented) == ApproverToken # None /\ presented # None

\* _require_approver_token: unset disables the route.
MayGrant(presented) == ApproverToken # None /\ presented = ApproverToken

\* POST /api/v1/approvals.  The tool is always issue_credit; an amount the
\* column cannot hold is an error and writes nothing.
Grant(presented, body, a) ==
    /\ MayGrant(presented)
    /\ approval[a] = Unissued
    /\ body.amount <= MaxInt4
    /\ approval' = [approval EXCEPT ![a] =
           NewApproval(body.subject, "issue_credit", body.account, body.amount,
                       body.ttl_seconds, clock)]
    /\ UNCHANGED <<clock, effect, audit, counter, locks>>

-----------------------------------------------------------------------------
\* _require_reset_token.
MayReset(presented) == AdminResetToken # None /\ presented = AdminResetToken

\* POST /admin/reset: DELETE FROM irreversible_effect.
ResetEffects(presented) ==
    /\ MayReset(presented)
    /\ resetPc = "idle"
    /\ resets < MaxResets
    /\ resets' = resets + 1
    /\ doomedEffects' = Effects
    /\ resetPc' = "audit"
    /\ UNCHANGED <<clock, tables, locks, resetTodo, doomedAudits>>

\* DELETE FROM audit_event.
ResetAudit ==
    /\ resetPc = "audit"
    /\ doomedAudits' = {c \in Calls : audit[c] # None}
    /\ resetPc' = "approvals"
    /\ UNCHANGED <<clock, tables, locks, resetTodo, doomedEffects, resets>>

\* DELETE FROM approval: the rows it sees ...
ResetApprovals ==
    /\ resetPc = "approvals"
    /\ resetTodo' = ApprovalRows
    /\ resetPc' = "lockApprovals"
    /\ UNCHANGED <<clock, tables, locks, doomedEffects, doomedAudits, resets>>

\* ... are locked one by one, each waiting for the call that is consuming it.
ResetLockApproval(a) ==
    /\ resetPc = "lockApprovals"
    /\ a \in resetTodo
    /\ rowLock[a] = Free
    /\ rowLock' = [rowLock EXCEPT ![a] = Resetter]
    /\ resetTodo' = resetTodo \ {a}
    /\ UNCHANGED <<clock, tables, bucketLock, resetPc, doomedEffects, doomedAudits, resets>>

\* The transaction rolls back: a failed statement, a lost connection, or the
\* deadlock detector.
ResetAbort ==
    /\ resetPc' = "idle"
    /\ resetTodo' = {}
    /\ doomedEffects' = {}
    /\ doomedAudits' = {}
    /\ rowLock' = Released(rowLock, Resetter)
    /\ bucketLock' = Released(bucketLock, Resetter)
    /\ UNCHANGED <<clock, tables, resets>>

\* Effects that would be left naming a deleted approval.
Orphans ==
    {c \in Effects \ doomedEffects : rowLock[effect[c].approval_id] = Resetter}

\* The DELETE without the foreign key's check.
ResetForeignKey_NotChecked ==
    /\ resetPc = "lockApprovals"
    /\ resetTodo = {}
    /\ resetPc' = "counters"
    /\ UNCHANGED <<clock, tables, locks, resetTodo, doomedEffects, doomedAudits, resets>>

\* The foreign key is checked when the DELETE of the approvals ends: an
\* effect committed after the first DELETE started fails the whole reset.
ResetForeignKey ==
    /\ resetPc = "lockApprovals"
    /\ resetTodo = {}
    /\ \/ Orphans # {} /\ ResetAbort
       \/ /\ Orphans = {}
          /\ resetPc' = "counters"
          /\ UNCHANGED <<clock, tables, locks, resetTodo, doomedEffects, doomedAudits, resets>>

\* DELETE FROM rate_limit_counter: the rows it sees, then their locks.
ResetCounters ==
    /\ resetPc = "counters"
    /\ resetTodo' = {b \in Buckets : counter[b] > 0}
    /\ resetPc' = "lockCounters"
    /\ UNCHANGED <<clock, tables, locks, doomedEffects, doomedAudits, resets>>

ResetLockCounter(b) ==
    /\ resetPc = "lockCounters"
    /\ b \in resetTodo
    /\ bucketLock[b] = Free
    /\ bucketLock' = [bucketLock EXCEPT ![b] = Resetter]
    /\ resetTodo' = resetTodo \ {b}
    /\ UNCHANGED <<clock, tables, rowLock, resetPc, doomedEffects, doomedAudits, resets>>

\* COMMIT.
ResetCommit ==
    /\ resetPc = "lockCounters"
    /\ resetTodo = {}
    /\ effect' = [c \in Calls |-> IF c \in doomedEffects THEN None ELSE effect[c]]
    /\ audit' = [c \in Calls |-> IF c \in doomedAudits THEN None ELSE audit[c]]
    /\ approval' = [a \in ApprovalIds |->
                      IF rowLock[a] = Resetter THEN Wiped ELSE approval[a]]
    /\ counter' = [b \in Buckets |-> IF bucketLock[b] = Resetter THEN 0 ELSE counter[b]]
    /\ rowLock' = Released(rowLock, Resetter)
    /\ bucketLock' = Released(bucketLock, Resetter)
    /\ resetPc' = "idle"
    /\ doomedEffects' = {}
    /\ doomedAudits' = {}
    /\ UNCHANGED <<clock, resetTodo, resets>>

ResetBegins == \E presented \in Credentials : ResetEffects(presented)

ResetFail == resetPc # "idle" /\ ResetAbort

ResetStep ==
    \/ ResetAudit
    \/ ResetApprovals
    \/ \E a \in ApprovalIds : ResetLockApproval(a)
    \/ ResetForeignKey
    \/ ResetCounters
    \/ \E b \in Buckets : ResetLockCounter(b)
    \/ ResetCommit
==============================================================================
