------------------------------- MODULE Effects -------------------------------
(***************************************************************************)
(* call_tool (effects.py): the one path from a bearer token to an          *)
(* irreversible effect.  Each call runs one database transaction; a step   *)
(* here is one statement of it, so everything other transactions commit    *)
(* between two awaits may be seen by the next step.                        *)
(*                                                                         *)
(*   idle -> quota -> lookup -> consume -> insert -> commit -> returned    *)
(*                                                                         *)
(* Statements that only this transaction can see (the effect and the audit *)
(* row before COMMIT) stay in outcome until Commit writes them.  A call    *)
(* that raises rolls back and ends in "raised"; one whose COMMIT took      *)
(* place but whose answer never arrived ends in "lost".                    *)
(***************************************************************************)
EXTENDS Authz, Approvals

CONSTANTS
    Requests,       \* what callers send: [token, tool, account, amount]
    Policy,         \* HARDENED in production
    ThisServer,     \* resource_server_url, the audience tokens must name
    Limit           \* rate_limit_per_minute; 0 disables the ceiling

VARIABLES
    pc,             \* where each call is
    req,            \* its request
    moment,         \* the time it read when it began
    used,           \* its position in its rate-limit bucket; 0: none claimed
    found,          \* the approval its lookup returned
    outcome         \* what it decided, written by its commit

callVars == <<pc, req, moment, used, found, outcome>>

Outcome ==
    [ decision : Decisions, reason : DENIAL_REASONS \cup {None},
      approval_id : ApprovalIds \cup {None}, effect_id : Calls \cup {None} ]

ASSUME EffectsAssumption ==
    /\ None \notin Outcome
    /\ Limit \in Nat
    /\ Policy \in {HARDENED, NAIVE}
    /\ None \notin Requests
    /\ \A r \in Requests : /\ r.token.sub \in Subjects
                           /\ r.account \in Accounts
                           /\ r.amount \in Int
                           /\ r.token.exp \in Int
                           /\ DOMAIN r.token.act = 1..Len(r.token.act)
                           /\ Len(r.token.act) \in Nat

Active  == {"quota", "lookup", "consume", "insert", "commit"}
Ended   == {"returned", "raised", "lost"}

EffectsTypeOK ==
    /\ pc \in [Calls -> {"idle"} \cup Active \cup Ended]
    /\ req \in [Calls -> Requests \cup {None}]
    /\ moment \in [Calls -> 0..MaxTime]
    /\ used \in [Calls -> Nat]
    /\ found \in [Calls -> ApprovalIds \cup {None}]
    /\ outcome \in [Calls -> Outcome \cup {None}]

EffectsInit ==
    /\ pc = [c \in Calls |-> "idle"]
    /\ req = [c \in Calls |-> None]
    /\ moment = [c \in Calls |-> 0]
    /\ used = [c \in Calls |-> 0]
    /\ found = [c \in Calls |-> None]
    /\ outcome = [c \in Calls |-> None]

-----------------------------------------------------------------------------
Denied(reason) ==
    [decision |-> "denied", reason |-> reason, approval_id |-> None, effect_id |-> None]
DeniedFor(reason, a) == [Denied(reason) EXCEPT !.approval_id = a]
Allowed ==
    [decision |-> "allowed", reason |-> None, approval_id |-> None, effect_id |-> None]
AllowedBy(a, c) == [Allowed EXCEPT !.approval_id = a, !.effect_id = c]

\* Token and policy are judged once, at the moment the call began.
VerdictOn(r, now) ==
    Authorize(Policy, VerifyToken(r.token, now), r.tool, ThisServer, now)
Verdict(c) == VerdictOn(req[c], moment[c])

Subject(c) == req[c].token.sub
Bucket(c)  == <<Subject(c), req[c].tool, WindowStart(moment[c])>>

InInt4(n) == -MaxInt4 - 1 <= n /\ n <= MaxInt4

GoTo(c, label) ==
    /\ pc' = [pc EXCEPT ![c] = label]
    /\ UNCHANGED outcome

\* The call has its answer: record it and commit.
Decide(c, answer) ==
    /\ pc' = [pc EXCEPT ![c] = "commit"]
    /\ outcome' = [outcome EXCEPT ![c] = answer]

\* Past the ceiling: scope alone authorises a reversible tool.
Route(c, tool) ==
    \/ tool \notin IRREVERSIBLE_TOOLS /\ Decide(c, Allowed)
    \/ tool \in IRREVERSIBLE_TOOLS /\ GoTo(c, "lookup")

\* A call arrives: verify_token and authorize run without touching the
\* database, and only an allowed call goes on to claim quota.
CallTool(c, r) ==
    /\ pc[c] = "idle"
    /\ req' = [req EXCEPT ![c] = r]
    /\ moment' = [moment EXCEPT ![c] = clock]
    /\ LET verdict == VerdictOn(r, clock) IN
         \/ verdict.decision = "denied" /\ Decide(c, Denied(verdict.reason))
         \/ verdict.decision = "allowed" /\ Limit = 0 /\ Route(c, r.tool)
         \/ verdict.decision = "allowed" /\ Limit > 0 /\ GoTo(c, "quota")
    /\ UNCHANGED <<clock, tables, locks, used, found>>

\* Two callers read the same count: the upsert split into a read and a write.
ConsumeQuota_ReadThenWrite(c) ==
    /\ pc[c] = "quota"
    /\ used' = [used EXCEPT ![c] = counter[Bucket(c)] + 1]
    /\ IF counter[Bucket(c)] + 1 > Limit
       THEN Decide(c, Denied("rate_limited"))
       ELSE Route(c, req[c].tool)
    /\ UNCHANGED <<clock, tables, locks, req, moment, found>>

\* The counter committed by a session of its own, before the call's outcome.
ConsumeQuota_OwnTransaction(c) ==
    /\ pc[c] = "quota"
    /\ bucketLock[Bucket(c)] = Free
    /\ counter' = [counter EXCEPT ![Bucket(c)] = @ + 1]
    /\ used' = [used EXCEPT ![c] = counter[Bucket(c)] + 1]
    /\ IF counter[Bucket(c)] + 1 > Limit
       THEN Decide(c, Denied("rate_limited"))
       ELSE Route(c, req[c].tool)
    /\ UNCHANGED <<clock, approval, effect, audit, locks, req, moment, found>>

\* consume_quota: the upsert waits for whoever holds the bucket's row, and
\* the call keeps it until it commits or rolls back.
ConsumeQuota(c) ==
    /\ pc[c] = "quota"
    /\ bucketLock[Bucket(c)] = Free
    /\ bucketLock' = [bucketLock EXCEPT ![Bucket(c)] = c]
    /\ used' = [used EXCEPT ![c] = counter[Bucket(c)] + 1]
    /\ IF counter[Bucket(c)] + 1 > Limit
       THEN Decide(c, Denied("rate_limited"))
       ELSE Route(c, req[c].tool)
    /\ UNCHANGED <<clock, tables, rowLock, req, moment, found>>

\* An exception leaves the transaction's context: everything is rolled back,
\* the audit row with it.
Raise_KeepsLocks(c) ==
    /\ pc' = [pc EXCEPT ![c] = "raised"]
    /\ outcome' = [outcome EXCEPT ![c] = None]
    /\ used' = [used EXCEPT ![c] = 0]
    /\ found' = [found EXCEPT ![c] = None]
    /\ UNCHANGED <<clock, tables, locks, req, moment>>

Raise(c) ==
    /\ pc' = [pc EXCEPT ![c] = "raised"]
    /\ outcome' = [outcome EXCEPT ![c] = None]
    /\ used' = [used EXCEPT ![c] = 0]
    /\ found' = [found EXCEPT ![c] = None]
    /\ rowLock' = Released(rowLock, c)
    /\ bucketLock' = Released(bucketLock, c)
    /\ UNCHANGED <<clock, tables, req, moment>>

\* find_matching_approval.  An amount the Integer column cannot hold is an
\* error of the driver, not a refusal.
Lookup(c) ==
    /\ pc[c] = "lookup"
    /\ \/ /\ ~InInt4(req[c].amount)
          /\ Raise(c)
       \/ /\ InInt4(req[c].amount)
          /\ LET lookup == FindMatchingApproval(Subject(c), req[c].tool, req[c].account,
                                                req[c].amount, moment[c])
             IN  \/ /\ \E a \in lookup.approvals : found' = [found EXCEPT ![c] = a]
                    /\ GoTo(c, "consume")
                 \/ /\ lookup.approvals = {}
                    /\ Decide(c, Denied(IF lookup.expired THEN "approval_expired"
                                                          ELSE "approval_required"))
                    /\ UNCHANGED found
          /\ UNCHANGED <<clock, tables, locks, req, moment, used>>
-----------------------------------------------------------------------------
\* A busy row is taken for a spent one (FOR UPDATE SKIP LOCKED).
Consume_SkipsLockedRow(c) ==
    /\ pc[c] = "consume"
    /\ LET a == found[c] IN
         \/ /\ Consumable(a)
            /\ rowLock[a] = Free
            /\ rowLock' = [rowLock EXCEPT ![a] = c]
            /\ GoTo(c, "insert")
         \/ /\ ~Consumable(a) \/ rowLock[a] # Free
            /\ Decide(c, DeniedFor("approval_already_consumed", a))
            /\ UNCHANGED rowLock
    /\ UNCHANGED <<clock, tables, bucketLock, req, moment, used, found>>

\* The approval consumed by a session of its own, before the effect.
Consume_OwnTransaction(c) ==
    /\ pc[c] = "consume"
    /\ LET a == found[c] IN
         \/ /\ Consumable(a)
            /\ rowLock[a] = Free
            /\ approval' = [approval EXCEPT ![a].consumed_at = moment[c]]
            /\ GoTo(c, "insert")
         \/ /\ ~Consumable(a)
            /\ Decide(c, DeniedFor("approval_already_consumed", a))
            /\ UNCHANGED approval
    /\ UNCHANGED <<clock, effect, audit, counter, locks, req, moment, used, found>>

\* consume_approval: the UPDATE waits for a transaction that holds the row,
\* and matches nothing when that one consumed or deleted it.  Expiry is not
\* looked at again.
Consume(c) ==
    /\ pc[c] = "consume"
    /\ LET a == found[c] IN
         \/ /\ Consumable(a)
            /\ rowLock[a] = Free
            /\ rowLock' = [rowLock EXCEPT ![a] = c]
            /\ GoTo(c, "insert")
         \/ /\ ~Consumable(a)
            /\ Decide(c, DeniedFor("approval_already_consumed", a))
            /\ UNCHANGED rowLock
    /\ UNCHANGED <<clock, tables, bucketLock, req, moment, used, found>>

\* approval_id is UNIQUE in irreversible_effect.
EffectNaming(a) == {c \in Effects : effect[c].approval_id = a}

\* The effect is inserted in the transaction that consumed its approval; a
\* second effect for one approval would be an IntegrityError.
InsertEffect(c) ==
    /\ pc[c] = "insert"
    /\ IF EffectNaming(found[c]) # {}
       THEN Raise(c)
       ELSE /\ Decide(c, AllowedBy(found[c], c))
            /\ UNCHANGED <<clock, tables, locks, req, moment, used, found>>

\* What the transaction has written when it commits.
EffectOf(c) ==
    [ approval_id |-> found[c], subject |-> Subject(c), tool |-> req[c].tool,
      account |-> req[c].account, amount |-> req[c].amount ]
AuditOf(c) ==
    [ subject |-> Verdict(c).subject, decision |-> outcome[c].decision,
      reason |-> outcome[c].reason, approval_id |-> outcome[c].approval_id,
      effect_id |-> outcome[c].effect_id ]

WritesEffect(c) == outcome[c].effect_id # None

\* The consumption is left out of the transaction that writes the effect.
Apply_ForgetsConsumption(c) ==
    /\ pc[c] = "commit"
    /\ UNCHANGED approval
    /\ effect' = IF WritesEffect(c) THEN [effect EXCEPT ![c] = EffectOf(c)] ELSE effect
    /\ audit' = [audit EXCEPT ![c] = AuditOf(c)]
    /\ counter' = IF used[c] > 0 THEN [counter EXCEPT ![Bucket(c)] = used[c]] ELSE counter
    /\ rowLock' = Released(rowLock, c)
    /\ bucketLock' = Released(bucketLock, c)
    /\ UNCHANGED <<clock, req, moment, used, found, outcome>>

\* COMMIT: the consumption, the effect, the audit row and the claimed quota
\* become visible together.
Apply(c) ==
    /\ pc[c] = "commit"
    /\ approval' = IF WritesEffect(c)
                   THEN [approval EXCEPT ![found[c]].consumed_at = moment[c]] ELSE approval
    /\ effect' = IF WritesEffect(c) THEN [effect EXCEPT ![c] = EffectOf(c)] ELSE effect
    /\ audit' = [audit EXCEPT ![c] = AuditOf(c)]
    /\ counter' = IF used[c] > 0 THEN [counter EXCEPT ![Bucket(c)] = used[c]] ELSE counter
    /\ rowLock' = Released(rowLock, c)
    /\ bucketLock' = Released(bucketLock, c)
    /\ UNCHANGED <<clock, req, moment, used, found, outcome>>

Commit(c) ==
    /\ Apply(c)
    /\ pc' = [pc EXCEPT ![c] = "returned"]

\* The commit took place and the caller never learns of it.
CommitReplyLost(c) ==
    /\ Apply(c)
    /\ pc' = [pc EXCEPT ![c] = "lost"]

\* Before the commit the connection can drop, the request be cancelled, the
\* process die or the server abort the transaction.
Fail(c) ==
    /\ pc[c] \in Active
    /\ Raise(c)

\* What a call does when nothing goes wrong.
Step(c) == ConsumeQuota(c) \/ Lookup(c) \/ Consume(c) \/ InsertEffect(c) \/ Commit(c)
==============================================================================
