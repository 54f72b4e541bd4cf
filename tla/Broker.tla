-------------------------------- MODULE Broker --------------------------------
(***************************************************************************)
(* The broker: concurrent tool calls, a human granting approvals and an    *)
(* operator resetting the demonstration, over one database.                *)
(***************************************************************************)
EXTENDS Effects, Console

vars == <<clock, tables, locks, callVars, resetVars>>

Init == StoreInit /\ EffectsInit /\ ConsoleInit

TypeOK == StoreTypeOK /\ EffectsTypeOK /\ ConsoleTypeOK

\* The one cycle of waits there can be.  A call takes its bucket's row and
\* then its approval's, the reset takes the approvals' and then the buckets'.
Deadlocked(c) ==
    /\ pc[c] = "consume"
    /\ Consumable(found[c])
    /\ rowLock[found[c]] = Resetter
    /\ resetPc = "lockCounters"
    /\ \E b \in resetTodo : bucketLock[b] = c

\* PostgreSQL's deadlock detector aborts one of the two transactions.
DeadlockDetector(c) ==
    /\ Deadlocked(c)
    /\ \/ Fail(c) /\ UNCHANGED resetVars
       \/ ResetFail /\ UNCHANGED callVars

CallStep(c) ==
    /\ \/ \E r \in Requests : CallTool(c, r)
       \/ Step(c)
       \/ CommitReplyLost(c)
       \/ Fail(c)
    /\ UNCHANGED resetVars

GrantStep ==
    /\ \E presented \in Credentials, body \in GrantBodies, a \in ApprovalIds :
         Grant(presented, body, a)
    /\ UNCHANGED <<callVars, resetVars>>

OperatorStep ==
    /\ ResetBegins \/ ResetStep \/ ResetFail
    /\ UNCHANGED callVars

Time == Tick /\ UNCHANGED <<callVars, resetVars>>

\* Every call has ended and no reset is under way.
Finished ==
    /\ \A c \in Calls : pc[c] \in Ended
    /\ resetPc = "idle"
    /\ UNCHANGED vars

Next ==
    \/ \E c \in Calls : CallStep(c) \/ DeadlockDetector(c)
    \/ GrantStep
    \/ OperatorStep
    \/ Time
    \/ Finished

Spec == Init /\ [][Next]_vars

-----------------------------------------------------------------------------
(***************************************************************************)
(* What must hold, whatever the interleaving.                              *)
(***************************************************************************)

\* A consumed approval has paid for exactly one irreversible effect and an
\* unconsumed one for none, however many calls raced for it, whichever of
\* them died on the way (effects.py: consumption and effect share one
\* transaction; approvals.py: "spend an approval, at most once, ever").
OneApprovalOneEffect ==
    \A a \in ApprovalRows :
        Cardinality(EffectNaming(a)) = IF approval[a].consumed_at = None THEN 0 ELSE 1

\* Every effect is within an approval the database still holds: same subject,
\* tool, account and amount, and the moment it was consumed at is before it
\* expired (approvals.py: every column of the lookup is a binding).
EffectWithinApproval ==
    \A c \in Effects :
        LET e == effect[c]
            a == approval[e.approval_id]
        IN  /\ e.approval_id \in ApprovalRows
            /\ <<e.subject, e.tool, e.account, e.amount>>
                 = <<a.subject, a.tool, a.account, a.amount>>
            /\ a.consumed_at = moment[c]
            /\ moment[c] < a.expires_at

\* The UNIQUE constraint is a backstop that is never reached: a call that won
\* the conditional UPDATE never meets another effect for its approval
\* (the comment at the IntegrityError handler of call_tool).
BackstopUnreached ==
    \A c \in Calls : pc[c] = "insert" => EffectNaming(found[c]) = {}

\* Nobody loses a race that nobody won: a call is told that the approval was
\* already consumed only if another call's effect was paid with it, or a
\* reset deleted it, even when the rival rolled back after taking the row.
LosersHaveAWinner ==
    \A c \in Calls :
        (outcome[c] # None /\ outcome[c].reason = "approval_already_consumed") =>
            LET a == outcome[c].approval_id
            IN  approval[a] = Wiped \/ \E d \in Effects \ {c} : effect[d].approval_id = a

\* The call was told that nobody approved what it asked, or that the approval's
\* time was over, and a is an unspent approval of just that, in time for it.
Overlooked(c, a) ==
    /\ outcome[c] # None
    /\ outcome[c].reason \in {"approval_required", "approval_expired"}
    /\ a \in Matching(Subject(c), req[c].tool, req[c].account, req[c].amount)
    /\ moment[c] < approval[a].expires_at

\* Nobody is told that it lacks an approval while one stands that could pay: a
\* rival that has taken the row may yet die and leave it unspent, so the row
\* counts until the rival commits.  The only approval a refused call can turn
\* out to have overlooked is one granted after its refusal (approvals.py:
\* find_matching_approval returns every unconsumed approval that is in time).
NoApprovalIsOverlooked ==
    [][\A c \in Calls, a \in ApprovalIds :
         Overlooked(c, a)' => Overlooked(c, a) \/ approval[a] = Unissued]_vars

\* The token behind an effect held credit:issue in its leaf and in every link
\* of its chain, was signed by a key of the issuer it names, was addressed to
\* this server and had not expired when the call began.
EffectAuthorised ==
    \A c \in Effects :
        LET t == req[c].token
        IN  /\ "credit:issue" \in Scopes(t.scope)
            /\ \A i \in DOMAIN t.act :
                  t.act[i].well_formed /\ "credit:issue" \in Scopes(t.act[i].scope)
            /\ t.key = JwksByIssuer[t.iss][t.kid]
            /\ ThisServer \in t.aud.names
            /\ moment[c] < t.exp
            /\ effect[c].subject = t.sub

\* The audit trail and the effects agree, one to one: an effect has an
\* allowed row that names it, its approval and its subject, and no row names
\* an effect that is not there. A reset may forget both, never one of them.
EffectsAudited ==
    \A c \in Calls :
        /\ c \in Effects <=> audit[c] # None /\ audit[c].effect_id # None
        /\ c \in Effects =>
             /\ audit[c].effect_id = c
             /\ audit[c].decision = "allowed"
             /\ audit[c].approval_id = effect[c].approval_id
             /\ audit[c].subject = effect[c].subject

\* The calls that hold a position in a bucket and were let through.
LetThrough(b) ==
    {c \in Calls : /\ used[c] > 0
                   /\ Bucket(c) = b
                   /\ outcome[c] # None => outcome[c].reason # "rate_limited"}

\* The calls whose committed transaction claimed a unit of the bucket.
Charged(b) == {c \in Calls : pc[c] \in {"returned", "lost"} /\ used[c] > 0 /\ Bucket(c) = b}

\* However many calls race, no fixed window lets more than the limit through
\* (ratelimit.py: "at most limit per fixed window").
AtMostLimitPerWindow ==
    Limit > 0 => \A b \in Buckets : Cardinality(LetThrough(b)) <= Limit

\* The counter is exactly the committed claims: a call that rolled back spent
\* no quota and no committed call went uncounted (ratelimit.py, consume_quota:
\* "a rolled-back call does not spend quota it never used").
CounterIsCommittedClaims ==
    \A b \in Buckets : counter[b] = Cardinality(Charged(b))

\* A call is rate limited only when the limit's worth of calls were let
\* through, and committed, in its window.
RateLimitedOnlyPastCeiling ==
    \A c \in Calls :
        (outcome[c] # None /\ outcome[c].reason = "rate_limited") =>
            Cardinality(Charged(Bucket(c)) \cap LetThrough(Bucket(c))) = Limit

\* In any stretch of a window's length, aligned or not, one subject gets at
\* most twice the limit through to one tool (ratelimit.py: "the true worst
\* case across an arbitrary 60 seconds is twice the limit").
AtMostTwiceLimit ==
    Limit > 0 =>
        \A s \in Subjects, tool \in Tools, t \in 0..MaxTime :
            Cardinality({c \in Calls : \E w \in {WindowStart(u) : u \in 0..MaxTime} :
                                          /\ c \in LetThrough(<<s, tool, w>>)
                                          /\ t <= moment[c]
                                          /\ moment[c] < t + WindowSeconds}) <= 2 * Limit

\* What the prose says: "Only calls that were going to be allowed are counted"
\* (docs/threat-model.md:400). A call refused by the ceiling itself aside, a
\* committed claim belongs to an allowed call.
OnlyAllowedCallsAreCharged ==
    \A c \in Calls :
        (pc[c] = "returned" /\ used[c] > 0 /\ outcome[c].reason # "rate_limited") =>
            outcome[c].decision = "allowed"

\* A reset that starts ends, committed or rolled back.
EveryResetEnds == resetPc # "idle" ~> resetPc = "idle"

\* The abstract ledger this is an implementation of.
Ledger ==
    INSTANCE ApprovalLedger WITH
        Nobody  <- None,
        status  <- [a \in ApprovalIds |->
                      IF approval[a] = Unissued THEN "unissued"
                      ELSE IF approval[a] = Wiped THEN "wiped"
                      ELSE IF approval[a].consumed_at = None THEN "pending" ELSE "spent"],
        paidFor <- [a \in ApprovalIds |->
                      IF EffectNaming(a) = {} THEN None ELSE CHOOSE c \in EffectNaming(a) : TRUE]

\* The broker implements the ledger: consuming an approval and writing its
\* effect are one event, no approval is ever un-spent or spent again, and a
\* reset takes an approval and its effect together.
ImplementsLedger == Ledger!LedgerSpec
=============================================================================
