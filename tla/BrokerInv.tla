------------------------------ MODULE BrokerInv ------------------------------
(***************************************************************************)
(* The inductive invariant behind the broker's safety theorems: what ties  *)
(* a call's program counter to the rows it holds, the rows a reset holds   *)
(* to what it is about to delete, and the effects to the approvals that    *)
(* paid for them.                                                          *)
(***************************************************************************)
EXTENDS Broker

\* The call has an answer that carries an effect.
Won(c) == outcome[c] # None /\ outcome[c].effect_id # None

\* The call holds, or is about to commit, a consumption.
Holding(c) == pc[c] = "insert" \/ (pc[c] = "commit" /\ Won(c))

\* Approval a is, or was before a reset, bound to exactly what c asked for,
\* and had not expired when c began.
BoundTo(a, c) ==
    /\ a \in ApprovalIds
    /\ approval[a] # Unissued
    /\ approval[a] # Wiped =>
         /\ approval[a].subject = Subject(c)
         /\ approval[a].tool = req[c].tool
         /\ approval[a].account = req[c].account
         /\ approval[a].amount = req[c].amount
         /\ moment[c] < approval[a].expires_at

\* A call keeps its request, and what it may hold follows its program counter.
CallOK(c) ==
    /\ pc[c] # "idle" => req[c] \in Requests
    /\ pc[c] \in {"commit", "returned", "lost"} <=> outcome[c] # None
    /\ pc[c] \in {"idle", "quota", "raised"} => used[c] = 0
    /\ (pc[c] \in {"quota", "lookup", "consume", "insert"} \/ used[c] > 0 \/ Won(c)) =>
         Verdict(c).decision = "allowed"
    /\ (pc[c] \in {"lookup", "consume", "insert"} \/ Won(c)) =>
         req[c].tool \in IRREVERSIBLE_TOOLS
    /\ (pc[c] \in {"consume", "insert"} \/ Won(c)) => BoundTo(found[c], c)
    /\ Won(c) => outcome[c] = AllowedBy(found[c], c)
    /\ (outcome[c] # None /\ outcome[c].reason = "approval_already_consumed") =>
         LET a == outcome[c].approval_id
         IN  a \in ApprovalIds /\ approval[a] # Unissued /\ ~Consumable(a)

CallsOK == \A c \in Calls : CallOK(c)

\* Row locks are held by the call about to consume the row, or by a reset.
LocksOK ==
    /\ \A c \in Calls : Holding(c) => rowLock[found[c]] = c /\ Consumable(found[c])
    /\ \A a \in ApprovalIds :
         /\ rowLock[a] \in Calls => Holding(rowLock[a]) /\ found[rowLock[a]] = a
         /\ rowLock[a] = Resetter =>
              a \in ApprovalRows /\ resetPc \in {"lockApprovals", "counters", "lockCounters"}

\* A reset is about to lock approvals, and to delete effects, that are there;
\* once its foreign key check has passed, exactly the effects whose approval it
\* has locked.
ResetOK ==
    /\ doomedEffects \subseteq Effects
    /\ resetPc = "idle" => doomedEffects = {}
    /\ resetPc = "lockApprovals" => resetTodo \subseteq ApprovalRows
    /\ resetPc = "lockApprovals" =>
         \A c \in doomedEffects : \/ effect[c].approval_id \in resetTodo
                                  \/ rowLock[effect[c].approval_id] = Resetter
    /\ resetPc \in {"counters", "lockCounters"} =>
         \A c \in Effects :
            rowLock[effect[c].approval_id] = Resetter <=> c \in doomedEffects

\* Effects and consumed approvals pair up.
LedgerOK ==
    /\ \A c \in Effects :
         /\ pc[c] \in {"returned", "lost"}
         /\ Won(c)
         /\ effect[c] = EffectOf(c)
         /\ found[c] \in ApprovalRows
         /\ approval[found[c]].consumed_at = moment[c]
    /\ \A c, d \in Effects : effect[c].approval_id = effect[d].approval_id => c = d
    /\ \A a \in ApprovalRows :
         approval[a].consumed_at # None => \E c \in Effects : effect[c].approval_id = a

IInv == TypeOK /\ CallsOK /\ LocksOK /\ ResetOK /\ LedgerOK

Committed(c) == pc[c] \in {"returned", "lost"}

\* A call's audit row is the one its commit wrote, and of a call that wrote an
\* effect too the one is there as long as the other.  What a reset's second
\* DELETE saw includes what its first one saw; an effect committed in between
\* names an approval the reset is about to lock, or has locked, so that the
\* foreign key stops it.
AuditOK ==
    /\ \A c \in Calls :
         /\ audit[c] # None => Committed(c) /\ audit[c] = AuditOf(c)
         /\ Committed(c) /\ Won(c) => (c \in Effects <=> audit[c] # None)
    /\ resetPc \in {"idle", "audit"} => doomedAudits = {}
    /\ resetPc \notin {"idle", "audit"} =>
         /\ doomedEffects \subseteq doomedAudits
         /\ \A c \in doomedAudits : audit[c] # None
    /\ resetPc = "lockApprovals" =>
         \A c \in doomedAudits \cap Effects : \/ effect[c].approval_id \in resetTodo
                                              \/ rowLock[effect[c].approval_id] = Resetter
    /\ resetPc \in {"counters", "lockCounters"} => doomedAudits \cap Effects \subseteq doomedEffects

\* A call that has claimed a unit and not yet ended holds its bucket's row,
\* which counts all the units before its own.
ClaimOK(c) ==
    /\ used[c] > 0 => Bucket(c) \in Buckets
    /\ used[c] > 0 /\ pc[c] \in Active => /\ bucketLock[Bucket(c)] = c
                                         /\ used[c] = counter[Bucket(c)] + 1
    /\ used[c] > Limit <=> outcome[c] # None /\ outcome[c].reason = "rate_limited"

ClaimsOK == \A c \in Calls : ClaimOK(c)

\* The committed calls of a bucket have the positions 1, 2, ... up to its count,
\* each one of them.
PositionsOK(b) ==
    /\ \A c \in Charged(b) : used[c] \in 1..counter[b]
    /\ \A c, d \in Charged(b) : used[c] = used[d] => c = d
    /\ \A n \in 1..counter[b] : \E c \in Charged(b) : used[c] = n

\* A reset takes a counter away and leaves the calls it counted, so the
\* positions are known until the first reset.
CounterOK ==
    /\ ClaimsOK
    /\ \A b \in Buckets : bucketLock[b] = Resetter => resetPc = "lockCounters"
    /\ resets = 0 => resetPc = "idle" /\ \A b \in Buckets : PositionsOK(b)

FullInv == IInv /\ AuditOK /\ CounterOK
==============================================================================
