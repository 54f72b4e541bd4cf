----------------------------- MODULE BrokerProofs -----------------------------
(***************************************************************************)
(* IInv of BrokerInv is inductive, and the broker's safety properties for  *)
(* every number of calls, approvals, tokens, amounts and resets follow     *)
(* from it; then the rate limit's, for every limit and window: CounterOK   *)
(* of BrokerInv is inductive, and the committed calls of a bucket have the *)
(* positions 1, 2, ... up to its count.                                    *)
(***************************************************************************)
EXTENDS BrokerInv, FiniteSetTheorems, WellFoundedInduction, TLAPS

-----------------------------------------------------------------------------
(* The decision.                                                           *)

\* Whatever the token, authorize answers with a decision, a reason of the
\* closed set or none, and a subject that was verified or none.
LEMMA VerdictTypes ==
    ASSUME NEW r \in Requests, NEW now
    PROVE  /\ VerdictOn(r, now).decision \in Decisions
           /\ VerdictOn(r, now).reason \in DENIAL_REASONS \cup {None}
           /\ VerdictOn(r, now).subject \in Subjects \cup {None}
<1> DEFINE R == DENIAL_REASONS \cup {None}
           v == VerifyToken(r.token, now)
<1>1. Chain(r.token).failure \in R
  BY DEF Chain, DENIAL_REASONS
<1>2. JwtDecodeFailure(r.token, now) \in R
  BY DEF JwtDecodeFailure, DENIAL_REASONS
<1>3. NoCandidateKey(r.token) \in R
  BY DEF NoCandidateKey, DENIAL_REASONS
<1>4. "token_malformed" \in R
  BY DEF DENIAL_REASONS
<1>5. VerificationFailure(r.token, now) \in R
  BY <1>1, <1>2, <1>3, <1>4, Zenon DEF VerificationFailure
<1>6. v.failure \in R /\ v.claims.subject \in Subjects
  BY <1>5, EffectsAssumption DEF VerifyToken
<1>7. Refusal(Policy, v.claims, r.tool, ThisServer, now) \in R
  BY DEF Refusal, DENIAL_REASONS
<1> HIDE DEF R, v
<1>8. QED
  BY <1>6, <1>7 DEF VerdictOn, Authorize, Decisions, R, v

-----------------------------------------------------------------------------
(* What other transactions may do to a call's approval.                    *)

\* Nothing of call d changes.
SameCall(d) ==
    /\ pc'[d] = pc[d]
    /\ req'[d] = req[d]
    /\ moment'[d] = moment[d]
    /\ used'[d] = used[d]
    /\ found'[d] = found[d]
    /\ outcome'[d] = outcome[d]

\* An approval is left alone, issued, wiped or consumed, and never un-consumed.
Advances(a) ==
    \/ approval'[a] = approval[a]
    \/ approval[a] = Unissued
    \/ approval'[a] = Wiped
    \/ /\ approval[a] \in Approval
       /\ \E t \in Nat : approval'[a] = [approval[a] EXCEPT !.consumed_at = t]

\* A call stays bound to the approval it found while the approval advances.
LEMMA BoundToKept ==
    ASSUME NEW c \in Calls, NEW a, TypeOK, BoundTo(a, c), Advances(a),
           req'[c] = req[c], moment'[c] = moment[c]
    PROVE  BoundTo(a, c)'
<1>1. a \in ApprovalIds /\ approval[a] # Unissued
  BY DEF BoundTo
<1>2. Unissued # Wiped /\ Unissued \notin Approval /\ Wiped \notin Approval
  BY StoreAssumption
<1>3. CASE approval'[a] = approval[a]
  BY <1>1, <1>3 DEF BoundTo, Subject
<1>4. CASE approval'[a] = Wiped
  BY <1>1, <1>2, <1>4 DEF BoundTo
<1>5. CASE /\ approval[a] \in Approval
           /\ \E t \in Nat : approval'[a] = [approval[a] EXCEPT !.consumed_at = t]
  <2>1. PICK t \in Nat : approval'[a] = [approval[a] EXCEPT !.consumed_at = t]
    BY <1>5
  <2>2. /\ approval'[a] \in Approval
        /\ approval'[a].subject = approval[a].subject
        /\ approval'[a].tool = approval[a].tool
        /\ approval'[a].account = approval[a].account
        /\ approval'[a].amount = approval[a].amount
        /\ approval'[a].expires_at = approval[a].expires_at
    BY <1>5, <2>1 DEF Approval
  <2>3. QED
    BY <1>1, <1>2, <1>5, <2>2 DEF BoundTo, Subject
<1>6. QED
  BY <1>1, <1>3, <1>4, <1>5 DEF Advances

\* An approval that cannot be consumed never can be again.
LEMMA SpentStaysSpent ==
    ASSUME NEW a \in ApprovalIds, TypeOK, Advances(a),
           approval[a] # Unissued, ~Consumable(a)
    PROVE  approval'[a] # Unissued /\ ~Consumable(a)'
<1>1. Unissued # Wiped /\ Unissued \notin Approval /\ None \notin Nat
  BY StoreAssumption, NoneAssumption
<1>2. CASE approval'[a] = approval[a]
  BY <1>2 DEF Consumable, ApprovalRows
<1>3. CASE approval'[a] = Wiped
  BY <1>1, <1>3 DEF Consumable, ApprovalRows
<1>4. CASE /\ approval[a] \in Approval
           /\ \E t \in Nat : approval'[a] = [approval[a] EXCEPT !.consumed_at = t]
  <2>1. PICK t \in Nat : approval'[a] = [approval[a] EXCEPT !.consumed_at = t]
    BY <1>4
  <2>2. approval'[a] \in Approval /\ approval'[a].consumed_at = t
    BY <1>4, <2>1 DEF Approval
  <2>3. QED
    BY <1>1, <2>1, <2>2 DEF Consumable
<1>5. QED
  BY <1>2, <1>3, <1>4 DEF Advances

\* A step of somebody else leaves what is known of a call in place.
LEMMA CallOKKept ==
    ASSUME NEW c \in Calls, TypeOK, CallOK(c), SameCall(c),
           \A a \in ApprovalIds : Advances(a)
    PROVE  CallOK(c)'
<1>1. (pc[c] \in {"consume", "insert"} \/ Won(c)) => BoundTo(found[c], c)'
  BY BoundToKept DEF CallOK, SameCall, BoundTo
<1>2. \A a \in ApprovalIds : (approval[a] # Unissued /\ ~Consumable(a)) =>
                               (approval'[a] # Unissued /\ ~Consumable(a)')
  BY SpentStaysSpent
<1>3. Verdict(c)' = Verdict(c) /\ Won(c)' = Won(c)
  BY DEF SameCall, Verdict, Won
<1>4. QED
  BY <1>1, <1>2, <1>3 DEF CallOK, SameCall

\* Only call c moves.
OnlyCall(c) == \A d \in Calls \ {c} : SameCall(d)

\* A step that leaves the effects, and the approvals already issued, alone.
LEMMA LedgerKept ==
    ASSUME TypeOK, LedgerOK, effect' = effect,
           \A d \in Effects : SameCall(d),
           \A a \in ApprovalRows : approval'[a] = approval[a],
           \A a \in ApprovalRows' \ ApprovalRows : approval'[a].consumed_at = None
    PROVE  LedgerOK'
<1>1. Effects' = Effects
  BY DEF Effects
<1>2. \A c \in Effects : /\ c \in Calls
                         /\ Won(c)' = Won(c)
                         /\ EffectOf(c)' = EffectOf(c)
  BY DEF Effects, Won, EffectOf, Subject, SameCall
<1>3. \A a \in ApprovalRows : a \in ApprovalRows'
  BY DEF ApprovalRows
<1>4. \A c \in Effects : /\ pc'[c] \in {"returned", "lost"}
                         /\ Won(c)'
                         /\ effect'[c] = EffectOf(c)'
                         /\ found'[c] \in ApprovalRows'
                         /\ approval'[found'[c]].consumed_at = moment'[c]
  BY <1>2, <1>3 DEF LedgerOK, SameCall
<1>5. \A a \in ApprovalRows' :
        approval'[a].consumed_at # None => \E c \in Effects : effect'[c].approval_id = a
  BY DEF LedgerOK
<1>6. QED
  BY <1>1, <1>4, <1>5 DEF LedgerOK

LEMMA RowsKept ==
    ASSUME approval' = approval
    PROVE  ApprovalRows' = ApprovalRows
BY DEF ApprovalRows

\* A step that leaves the effects and the reset alone, and gives no row to the
\* reset nor takes one from it.
LEMMA ResetKept ==
    ASSUME TypeOK, ResetOK, effect' = effect, UNCHANGED resetVars,
           ApprovalRows \subseteq ApprovalRows',
           \A a \in ApprovalIds : rowLock'[a] = Resetter <=> rowLock[a] = Resetter
    PROVE  ResetOK'
<1>1. Effects' = Effects
  BY DEF Effects
<1>2. \A c \in Effects : effect[c].approval_id \in ApprovalIds
  BY DEF TypeOK, StoreTypeOK, Effects, IrreversibleEffect
<1>3. QED
  BY <1>1, <1>2 DEF ResetOK, resetVars

\* A call that holds no approval's row, before or after its step, and writes
\* no table disturbs nothing but what is known of itself.
LEMMA QuietStep ==
    ASSUME IInv, NEW c \in Calls, OnlyCall(c), TypeOK', CallOK(c)',
           ~Holding(c), ~Holding(c)', pc[c] \notin {"returned", "lost"},
           UNCHANGED <<approval, effect, rowLock, resetVars>>
    PROVE  IInv'
<1>1. \A d \in Calls \ {c} : CallOK(d)'
  <2>1. \A a \in ApprovalIds : Advances(a)
    BY DEF Advances
  <2>2. QED
    BY <2>1, CallOKKept DEF OnlyCall, IInv, CallsOK
<1>2. CallsOK'
  BY <1>1 DEF CallsOK
<1>3. LocksOK'
  <2>1. \A d \in Calls \ {c} : Holding(d)' = Holding(d) /\ found'[d] = found[d]
    BY DEF OnlyCall, SameCall, Holding, Won
  <2>2. ApprovalRows' = ApprovalRows /\ \A a \in ApprovalIds : Consumable(a)' = Consumable(a)
    BY DEF ApprovalRows, Consumable
  <2>3. \A d \in Calls : Holding(d) => found[d] \in ApprovalIds
    BY DEF IInv, LocksOK, Consumable, ApprovalRows
  <2>4. \A d \in Calls : Holding(d)' => /\ rowLock'[found'[d]] = d
                                        /\ Consumable(found[d])
                                        /\ found'[d] = found[d]
    BY <2>1 DEF IInv, LocksOK
  <2>5. \A d \in Calls : Holding(d)' => rowLock'[found'[d]] = d /\ Consumable(found[d])'
    BY <2>1, <2>4 DEF Consumable, ApprovalRows
  <2>6. \A a \in ApprovalIds : rowLock'[a] \in Calls =>
                                  Holding(rowLock[a])' /\ found'[rowLock'[a]] = a
    BY <2>1 DEF IInv, LocksOK, Holding, Won
  <2>7. QED
    BY <2>2, <2>5, <2>6 DEF IInv, LocksOK, resetVars
<1>4. ResetOK'
  BY ResetKept, RowsKept DEF IInv
<1>5. LedgerOK'
  <2>1. \A d \in Effects : SameCall(d)
    BY DEF OnlyCall, IInv, LedgerOK, Effects
  <2>2. ApprovalRows' = ApprovalRows
    BY DEF ApprovalRows
  <2>3. QED
    BY <2>1, <2>2, LedgerKept DEF IInv
<1>6. QED
  BY <1>2, <1>3, <1>4, <1>5 DEF IInv

-----------------------------------------------------------------------------
(* The steps of a call.                                                    *)

\* Call c has decided not to write an effect, or goes on undecided.
Progress(c) ==
    /\ pc' \in [Calls -> {"idle"} \cup Active \cup Ended]
    /\ outcome' \in [Calls -> Outcome \cup {None}]
    /\ \A d \in Calls \ {c} : pc'[d] = pc[d] /\ outcome'[d] = outcome[d]
    /\ \/ /\ pc'[c] = "commit"
          /\ outcome'[c] # None
          /\ outcome'[c].effect_id = None
          /\ outcome'[c].reason # "approval_already_consumed"
       \/ /\ pc'[c] \in {"quota", "lookup", "consume"}
          /\ outcome'[c] = None

LEMMA DecideProgress ==
    ASSUME TypeOK, NEW c \in Calls, NEW answer \in Outcome, Decide(c, answer),
           answer.effect_id = None, answer.reason # "approval_already_consumed"
    PROVE  Progress(c) /\ pc'[c] = "commit"
BY EffectsAssumption DEF TypeOK, EffectsTypeOK, Decide, Progress, Active

LEMMA GoToProgress ==
    ASSUME TypeOK, NEW c \in Calls, outcome[c] = None,
           NEW label \in {"quota", "lookup", "consume"}, GoTo(c, label)
    PROVE  Progress(c) /\ pc'[c] = label
BY DEF TypeOK, EffectsTypeOK, GoTo, Progress, Active

\* A reversible tool's call is allowed at once, another looks for an approval.
LEMMA RouteProgress ==
    ASSUME TypeOK, NEW c \in Calls, outcome[c] = None, NEW tool, Route(c, tool)
    PROVE  /\ Progress(c)
           /\ pc'[c] \in {"commit", "lookup"}
           /\ pc'[c] = "lookup" => tool \in IRREVERSIBLE_TOOLS
<1>1. CASE tool \notin IRREVERSIBLE_TOOLS /\ Decide(c, Allowed)
  <2>1. /\ Allowed \in Outcome
        /\ Allowed.effect_id = None
        /\ Allowed.reason # "approval_already_consumed"
    BY NoneAssumption DEF Allowed, Outcome, Decisions, DENIAL_REASONS
  <2>2. QED
    BY <1>1, <2>1, DecideProgress
<1>2. CASE tool \in IRREVERSIBLE_TOOLS /\ GoTo(c, "lookup")
  BY <1>2, GoToProgress
<1>3. QED
  BY <1>1, <1>2 DEF Route

\* A refusal is an answer without an effect.
LEMMA RefusalIsOutcome ==
    ASSUME NEW reason \in DENIAL_REASONS \cup {None}
    PROVE  /\ Denied(reason) \in Outcome
           /\ Denied(reason).effect_id = None
           /\ Denied(reason).reason = reason
BY DEF Denied, Outcome, Decisions

\* What verify_token or authorize refuses is never a spent approval, nor a
\* ceiling.
LEMMA VerdictIsOfTheToken ==
    ASSUME NEW r \in Requests, NEW now
    PROVE  VerdictOn(r, now).reason \notin {"approval_already_consumed", "rate_limited"}
<1> DEFINE v == VerifyToken(r.token, now)
           later == {"approval_already_consumed", "rate_limited"}
<1>1. Chain(r.token).failure \notin later
  BY NoneAssumption DEF Chain, DENIAL_REASONS
<1>2. JwtDecodeFailure(r.token, now) \notin later
  BY NoneAssumption DEF JwtDecodeFailure, DENIAL_REASONS
<1>3. NoCandidateKey(r.token) \notin later
  BY NoneAssumption DEF NoCandidateKey, DENIAL_REASONS
<1>4. v.failure \notin later
  BY <1>1, <1>2, <1>3 DEF VerifyToken, VerificationFailure
<1>5. Refusal(Policy, v.claims, r.tool, ThisServer, now) \notin later
  BY NoneAssumption DEF Refusal, DENIAL_REASONS
<1>6. None \notin later
  BY NoneAssumption DEF DENIAL_REASONS
<1> HIDE DEF v
<1>7. QED
  BY <1>4, <1>5, <1>6 DEF VerdictOn, Authorize, v

\* Only a known tool is allowed.
LEMMA VerdictAllowedTool ==
    ASSUME NEW r \in Requests, NEW now, VerdictOn(r, now).decision = "allowed"
    PROVE  r.tool \in Tools
<1> DEFINE v == VerifyToken(r.token, now)
<1>1. v.failure = None /\ Refusal(Policy, v.claims, r.tool, ThisServer, now) = None
  BY DEF VerdictOn, Authorize
<1>2. QED
  BY <1>1, NoneAssumption DEF Refusal, Tools, DENIAL_REASONS

\* A call that ends holds no row any more, and takes none from others.
LEMMA ReleasedLocks ==
    ASSUME TypeOK, LocksOK, NEW c \in Calls, OnlyCall(c), ~Holding(c)',
           \A a \in ApprovalIds : rowLock'[a] = IF rowLock[a] = c THEN Free ELSE rowLock[a],
           \A a \in ApprovalIds : rowLock[a] # c => approval'[a] = approval[a],
           resetPc' = resetPc
    PROVE  LocksOK'
<1>1. c # Resetter /\ c # Free /\ Free \notin Calls /\ Resetter \notin Calls /\ Free # Resetter
  BY StoreAssumption
<1>2. \A d \in Calls \ {c} : Holding(d)' = Holding(d) /\ found'[d] = found[d]
  BY DEF OnlyCall, SameCall, Holding, Won
<1>3. \A d \in Calls : Holding(d) => found[d] \in ApprovalIds
  BY DEF LocksOK, Consumable, ApprovalRows
<1>4. ASSUME NEW d \in Calls, Holding(d)'
      PROVE  (rowLock[found[d]] = d /\ Consumable(found[d]))'
  <2>1. /\ d # c
        /\ Holding(d)
        /\ found'[d] = found[d]
        /\ found[d] \in ApprovalIds
        /\ rowLock[found[d]] = d
        /\ Consumable(found[d])
    BY <1>2, <1>3, <1>4 DEF LocksOK
  <2>2. approval'[found[d]] = approval[found[d]] /\ rowLock'[found[d]] = d
    BY <2>1
  <2>3. QED
    BY <2>1, <2>2 DEF Consumable, ApprovalRows
<1>5. ASSUME NEW a \in ApprovalIds
      PROVE  /\ rowLock'[a] \in Calls => Holding(rowLock[a])' /\ found'[rowLock'[a]] = a
             /\ rowLock'[a] = Resetter =>
                  a \in ApprovalRows' /\ resetPc' \in {"lockApprovals", "counters", "lockCounters"}
  BY <1>1, <1>2 DEF LocksOK, ApprovalRows
<1>6. QED
  BY <1>4, <1>5 DEF LocksOK

LEMMA CallToolKeeps ==
    ASSUME IInv, NEW c \in Calls, NEW r \in Requests, CallTool(c, r), UNCHANGED resetVars
    PROVE  IInv'
<1> DEFINE verdict == VerdictOn(r, clock)
<1>1. /\ TypeOK
      /\ pc[c] = "idle"
      /\ outcome[c] = None
      /\ used[c] = 0
      /\ \A d \in Calls : CallOK(d)
  BY DEF IInv, CallsOK, CallTool, CallOK
<1>2. /\ verdict.decision \in Decisions
      /\ verdict.reason \in DENIAL_REASONS \cup {None}
      /\ verdict.reason # "approval_already_consumed"
  BY VerdictTypes, VerdictIsOfTheToken
<1> HIDE DEF verdict
<1>3. /\ Progress(c)
      /\ pc'[c] # "commit" => verdict.decision = "allowed"
      /\ pc'[c] = "lookup" => r.tool \in IRREVERSIBLE_TOOLS
      /\ pc'[c] # "consume"
  <2>1. CASE verdict.decision = "denied" /\ Decide(c, Denied(verdict.reason))
    BY <1>1, <1>2, <2>1, RefusalIsOutcome, DecideProgress
  <2>2. CASE verdict.decision = "allowed" /\ Limit = 0 /\ Route(c, r.tool)
    BY <1>1, <2>2, RouteProgress
  <2>3. CASE verdict.decision = "allowed" /\ Limit > 0 /\ GoTo(c, "quota")
    BY <1>1, <2>3, GoToProgress
  <2>4. QED
    BY <2>1, <2>2, <2>3 DEF CallTool, verdict
<1>4. /\ req' = [req EXCEPT ![c] = r]
      /\ moment' = [moment EXCEPT ![c] = clock]
      /\ UNCHANGED <<clock, approval, effect, audit, counter, rowLock, bucketLock, used, found>>
  BY DEF CallTool, tables, locks
<1>5. TypeOK'
  BY <1>1, <1>3, <1>4
  DEF TypeOK, StoreTypeOK, EffectsTypeOK, ConsoleTypeOK, Progress, resetVars
<1>6. OnlyCall(c) /\ req'[c] = r /\ moment'[c] = clock
  BY <1>1, <1>3, <1>4 DEF OnlyCall, SameCall, Progress, TypeOK, EffectsTypeOK
<1>7. Verdict(c)' = verdict
  BY <1>6 DEF Verdict, verdict
<1>8. CallOK(c)'
  BY <1>1, <1>3, <1>4, <1>6, <1>7 DEF CallOK, Progress, Won
<1>9. ~Holding(c) /\ ~Holding(c)'
  BY <1>1, <1>3 DEF Holding, Won, Progress
<1>10. QED
  BY <1>1, <1>4, <1>5, <1>6, <1>8, <1>9, QuietStep

LEMMA ConsumeQuotaKeeps ==
    ASSUME IInv, NEW c \in Calls, ConsumeQuota(c), UNCHANGED resetVars
    PROVE  IInv'
<1>1. /\ TypeOK
      /\ pc[c] = "quota"
      /\ outcome[c] = None
      /\ \A d \in Calls : CallOK(d)
      /\ Verdict(c).decision = "allowed"
      /\ req[c] \in Requests
  BY DEF IInv, CallsOK, ConsumeQuota, CallOK
<1>2. /\ Progress(c)
      /\ pc'[c] \in {"commit", "lookup"}
      /\ pc'[c] = "lookup" => req[c].tool \in IRREVERSIBLE_TOOLS
  <2>1. CASE Decide(c, Denied("rate_limited"))
    <3>1. "rate_limited" \in DENIAL_REASONS
      BY DEF DENIAL_REASONS
    <3>2. QED
      BY <1>1, <2>1, <3>1, RefusalIsOutcome, DecideProgress
  <2>2. CASE Route(c, req[c].tool)
    BY <1>1, <2>2, RouteProgress
  <2>3. QED
    BY <2>1, <2>2 DEF ConsumeQuota
<1>3. /\ bucketLock' = [bucketLock EXCEPT ![Bucket(c)] = c]
      /\ used' = [used EXCEPT ![c] = counter[Bucket(c)] + 1]
      /\ UNCHANGED <<clock, approval, effect, audit, counter, rowLock, req, moment, found>>
  BY DEF ConsumeQuota, tables
<1>4. counter[Bucket(c)] \in Nat
  <2>1. req[c].tool \in Tools
    BY <1>1, VerdictAllowedTool DEF Verdict
  <2>2. QED
    BY <1>1, <2>1, EffectsAssumption
    DEF TypeOK, StoreTypeOK, EffectsTypeOK, Bucket, Buckets, Subject
<1>5. TypeOK'
  <2>1. StoreTypeOK'
    BY <1>1, <1>3 DEF TypeOK, StoreTypeOK, Owners
  <2>2. used' \in [Calls -> Nat]
    BY <1>1, <1>3, <1>4 DEF TypeOK, EffectsTypeOK
  <2>3. EffectsTypeOK'
    BY <1>1, <1>2, <1>3, <2>2 DEF TypeOK, EffectsTypeOK, Progress
  <2>4. QED
    BY <1>1, <2>1, <2>3 DEF TypeOK, ConsoleTypeOK, resetVars
<1>6. OnlyCall(c)
  BY <1>1, <1>2, <1>3 DEF OnlyCall, SameCall, Progress, TypeOK, EffectsTypeOK
<1>7. Verdict(c)' = Verdict(c)
  BY <1>3 DEF Verdict
<1>8. CallOK(c)'
  BY <1>1, <1>2, <1>3, <1>7 DEF CallOK, Progress, Won
<1>9. ~Holding(c) /\ ~Holding(c)'
  BY <1>1, <1>2 DEF Holding, Won, Progress
<1>10. QED
  BY <1>1, <1>3, <1>5, <1>6, <1>8, <1>9, QuietStep

\* A rolled-back call holds nothing and has written nothing.
LEMMA RaiseKeeps ==
    ASSUME IInv, NEW c \in Calls, pc[c] \in Active, Raise(c), UNCHANGED resetVars
    PROVE  IInv'
<1>1. /\ TypeOK
      /\ \A d \in Calls : CallOK(d)
      /\ c # Resetter
      /\ c # Free
  BY StoreAssumption DEF IInv, CallsOK
<1>2. /\ pc' = [pc EXCEPT ![c] = "raised"]
      /\ outcome' = [outcome EXCEPT ![c] = None]
      /\ used' = [used EXCEPT ![c] = 0]
      /\ found' = [found EXCEPT ![c] = None]
      /\ rowLock' = Released(rowLock, c)
      /\ bucketLock' = Released(bucketLock, c)
      /\ UNCHANGED <<clock, approval, effect, audit, counter, req, moment>>
  BY DEF Raise, tables
<1>3. TypeOK'
  BY <1>1, <1>2
  DEF TypeOK, StoreTypeOK, EffectsTypeOK, ConsoleTypeOK, resetVars, Owners, Released, Ended
<1>4. OnlyCall(c) /\ pc'[c] = "raised" /\ outcome'[c] = None /\ used'[c] = 0
  BY <1>1, <1>2 DEF OnlyCall, SameCall, TypeOK, EffectsTypeOK
<1>5. CallsOK'
  <2>1. CallOK(c)'
    BY <1>1, <1>2, <1>4 DEF CallOK, Won, Active
  <2>2. \A a \in ApprovalIds : Advances(a)
    BY <1>2 DEF Advances
  <2>3. \A d \in Calls \ {c} : CallOK(d)'
    BY <1>1, <1>4, <2>2, CallOKKept DEF OnlyCall
  <2>4. QED
    BY <2>1, <2>3 DEF CallsOK
<1>6. \A a \in ApprovalIds : rowLock'[a] = IF rowLock[a] = c THEN Free ELSE rowLock[a]
  BY <1>1, <1>2 DEF Released, TypeOK, StoreTypeOK
<1>7. LocksOK'
  <2>1. ~Holding(c)'
    BY <1>4 DEF Holding
  <2>2. QED
    BY <1>1, <1>2, <1>4, <1>6, <2>1, ReleasedLocks DEF IInv, resetVars
<1>8. ResetOK'
  <2>1. \A a \in ApprovalIds : rowLock'[a] = Resetter <=> rowLock[a] = Resetter
    BY <1>1, <1>6, StoreAssumption
  <2>2. QED
    BY <1>1, <1>2, <2>1, ResetKept, RowsKept DEF IInv
<1>9. LedgerOK'
  <2>1. \A d \in Effects : SameCall(d)
    BY <1>4 DEF OnlyCall, IInv, LedgerOK, Effects, Active
  <2>2. ApprovalRows' = ApprovalRows
    BY <1>2 DEF ApprovalRows
  <2>3. QED
    BY <1>2, <2>1, <2>2, LedgerKept DEF IInv
<1>10. QED
  BY <1>3, <1>5, <1>7, <1>8, <1>9 DEF IInv

\* What the lookup returns is live and bound to the act.
LEMMA FoundIsBound ==
    ASSUME NEW c \in Calls, TypeOK, req[c] \in Requests,
           NEW a \in FindMatchingApproval(Subject(c), req[c].tool, req[c].account,
                                          req[c].amount, moment[c]).approvals
    PROVE  BoundTo(a, c)
<1>1. a \in LatestLive(Matching(Subject(c), req[c].tool, req[c].account, req[c].amount),
                       moment[c])
  BY DEF FindMatchingApproval
<1>2. /\ a \in Matching(Subject(c), req[c].tool, req[c].account, req[c].amount)
      /\ approval[a].expires_at > moment[c]
  BY <1>1 DEF LatestLive
<1>3. a \in ApprovalIds /\ approval[a] \in Approval
  BY <1>2 DEF Matching, ApprovalRows, TypeOK, StoreTypeOK
<1>4. moment[c] < approval[a].expires_at
  BY <1>2, <1>3 DEF TypeOK, EffectsTypeOK, Approval
<1>5. QED
  BY <1>2, <1>3, <1>4 DEF BoundTo, Matching, ApprovalRows

LEMMA LookupKeeps ==
    ASSUME IInv, NEW c \in Calls, Lookup(c), UNCHANGED resetVars
    PROVE  IInv'
<1>1. /\ TypeOK
      /\ pc[c] = "lookup"
      /\ outcome[c] = None
      /\ ~Won(c)
      /\ \A d \in Calls : CallOK(d)
      /\ Verdict(c).decision = "allowed"
      /\ req[c].tool \in IRREVERSIBLE_TOOLS
      /\ req[c] \in Requests
  BY DEF IInv, CallsOK, Lookup, CallOK, Won
<1>2. CASE Raise(c)
  BY <1>1, <1>2, RaiseKeeps DEF Active
<1>3. CASE ~Raise(c)
  <2> DEFINE lookup == FindMatchingApproval(Subject(c), req[c].tool, req[c].account,
                                            req[c].amount, moment[c])
  <2>1. /\ UNCHANGED <<clock, approval, effect, audit, counter, rowLock, bucketLock,
                       req, moment, used>>
        /\ \/ /\ \E a \in lookup.approvals : found' = [found EXCEPT ![c] = a]
              /\ GoTo(c, "consume")
           \/ /\ Decide(c, Denied(IF lookup.expired THEN "approval_expired"
                                                    ELSE "approval_required"))
              /\ UNCHANGED found
    BY <1>3 DEF Lookup, tables, locks
  <2> HIDE DEF lookup
  <2>2. /\ Progress(c)
        /\ pc'[c] \in {"commit", "consume"}
        /\ pc'[c] = "consume" => BoundTo(found'[c], c)
        /\ found' \in [Calls -> ApprovalIds \cup {None}]
        /\ \A d \in Calls \ {c} : found'[d] = found[d]
    <3>1. CASE /\ \E a \in lookup.approvals : found' = [found EXCEPT ![c] = a]
               /\ GoTo(c, "consume")
      <4>1. PICK a \in lookup.approvals : found' = [found EXCEPT ![c] = a]
        BY <3>1
      <4>2. BoundTo(a, c)
        BY <1>1, FoundIsBound DEF lookup
      <4>3. a \in ApprovalIds
        BY <4>2 DEF BoundTo
      <4>4. Progress(c) /\ pc'[c] = "consume"
        BY <1>1, <3>1, GoToProgress
      <4>5. found'[c] = a
        BY <1>1, <4>1 DEF TypeOK, EffectsTypeOK
      <4>6. QED
        BY <1>1, <4>1, <4>2, <4>3, <4>4, <4>5 DEF TypeOK, EffectsTypeOK
    <3>2. CASE /\ Decide(c, Denied(IF lookup.expired THEN "approval_expired"
                                                     ELSE "approval_required"))
               /\ UNCHANGED found
      <4> DEFINE reason == IF lookup.expired THEN "approval_expired" ELSE "approval_required"
      <4>1. reason \in DENIAL_REASONS /\ reason # "approval_already_consumed"
        BY DEF DENIAL_REASONS
      <4> HIDE DEF reason
      <4>2. Progress(c) /\ pc'[c] = "commit"
        BY <1>1, <3>2, <4>1, RefusalIsOutcome, DecideProgress DEF reason
      <4>3. QED
        BY <1>1, <3>2, <4>2 DEF TypeOK, EffectsTypeOK
    <3>3. QED
      BY <2>1, <3>1, <3>2
  <2>3. TypeOK'
    BY <1>1, <2>1, <2>2
    DEF TypeOK, StoreTypeOK, EffectsTypeOK, ConsoleTypeOK, Progress, resetVars
  <2>4. OnlyCall(c)
    BY <1>1, <2>1, <2>2 DEF OnlyCall, SameCall, Progress, TypeOK, EffectsTypeOK
  <2>5. Verdict(c)' = Verdict(c) /\ ~Won(c)'
    BY <2>1, <2>2 DEF Verdict, Progress, Won
  <2>6. pc'[c] = "consume" => BoundTo(found[c], c)'
    BY <2>1, <2>2 DEF BoundTo, Subject
  <2>7. CallOK(c)'
    BY <1>1, <2>1, <2>2, <2>5, <2>6 DEF CallOK, Progress
  <2>8. ~Holding(c) /\ ~Holding(c)'
    BY <1>1, <2>2, <2>5 DEF Holding
  <2>9. QED
    BY <1>1, <2>1, <2>3, <2>4, <2>7, <2>8, QuietStep
<1>4. QED
  BY <1>2, <1>3

\* The call takes its approval's row, or learns that the approval is spent.
LEMMA ConsumeKeeps ==
    ASSUME IInv, NEW c \in Calls, Consume(c), UNCHANGED resetVars
    PROVE  IInv'
<1> DEFINE a == found[c]
<1>1. /\ TypeOK
      /\ pc[c] = "consume"
      /\ outcome[c] = None
      /\ ~Won(c)
      /\ ~Holding(c)
      /\ \A d \in Calls : CallOK(d)
      /\ Verdict(c).decision = "allowed"
      /\ req[c].tool \in IRREVERSIBLE_TOOLS
      /\ req[c] \in Requests
      /\ BoundTo(a, c)
      /\ a \in ApprovalIds
  BY DEF IInv, CallsOK, Consume, CallOK, Won, BoundTo, Holding
<1>2. UNCHANGED <<clock, approval, effect, audit, counter, bucketLock, req, moment, used, found>>
  BY DEF Consume, tables
<1>3. \A d \in Calls \ {c} : pc'[d] = pc[d] /\ outcome'[d] = outcome[d]
  BY <1>1 DEF Consume, GoTo, Decide, TypeOK, EffectsTypeOK
<1>4. OnlyCall(c)
  BY <1>2, <1>3 DEF OnlyCall, SameCall
<1>5. Verdict(c)' = Verdict(c) /\ (BoundTo(a, c)' <=> BoundTo(a, c))
  BY <1>2 DEF Verdict, BoundTo, Subject
<1>6. CASE ~Consumable(a)
  <2> DEFINE answer == DeniedFor("approval_already_consumed", a)
  <2>1. Decide(c, answer) /\ UNCHANGED rowLock
    BY <1>6 DEF Consume
  <2>2. /\ answer \in Outcome
        /\ answer.effect_id = None
        /\ answer.approval_id = a
    BY <1>1 DEF DeniedFor, Denied, Outcome, DENIAL_REASONS, Decisions
  <2> HIDE DEF answer
  <2>3. pc'[c] = "commit" /\ outcome'[c] = answer /\ answer # None
    BY <1>1, <2>1, <2>2, EffectsAssumption DEF Decide, TypeOK, EffectsTypeOK
  <2>4. TypeOK'
    BY <1>1, <1>2, <2>1, <2>2
    DEF TypeOK, StoreTypeOK, EffectsTypeOK, ConsoleTypeOK, Decide, resetVars, Active
  <2>5. ~Won(c)' /\ ~Holding(c)'
    BY <2>2, <2>3 DEF Won, Holding
  <2>6. approval'[a] # Unissued /\ ~Consumable(a)'
    BY <1>1, <1>2, <1>6 DEF BoundTo, Consumable, ApprovalRows
  <2>7. CallOK(c)'
    BY <1>1, <1>2, <1>5, <2>2, <2>3, <2>5, <2>6 DEF CallOK
  <2>8. QED
    BY <1>1, <1>2, <1>4, <2>1, <2>4, <2>5, <2>7, QuietStep
<1>7. CASE Consumable(a)
  <2>1. /\ rowLock[a] = Free
        /\ rowLock' = [rowLock EXCEPT ![a] = c]
        /\ pc' = [pc EXCEPT ![c] = "insert"]
        /\ outcome' = outcome
    BY <1>7 DEF Consume, GoTo
  <2>2. /\ pc'[c] = "insert"
        /\ Holding(c)'
        /\ \A b \in ApprovalIds : rowLock'[b] = IF b = a THEN c ELSE rowLock[b]
    BY <1>1, <2>1 DEF TypeOK, EffectsTypeOK, StoreTypeOK, Holding
  <2>3. TypeOK'
    BY <1>1, <1>2, <2>1
    DEF TypeOK, StoreTypeOK, EffectsTypeOK, ConsoleTypeOK, resetVars, Active, Owners
  <2>4. CallsOK'
    <3>1. CallOK(c)'
      BY <1>1, <1>2, <1>5, <2>1, <2>2 DEF CallOK, Won
    <3>2. \A b \in ApprovalIds : Advances(b)
      BY <1>2 DEF Advances
    <3>3. QED
      BY <1>1, <1>4, <3>1, <3>2, CallOKKept DEF OnlyCall, CallsOK
  <2>5. LocksOK'
    <3>1. \A d \in Calls \ {c} : Holding(d)' = Holding(d) /\ found'[d] = found[d]
      BY <1>4 DEF OnlyCall, SameCall, Holding, Won
    <3>2. \A b \in ApprovalIds : Consumable(b)' = Consumable(b)
      BY <1>2 DEF Consumable, ApprovalRows
    <3>3. /\ c # Resetter
          /\ Free \notin Calls
          /\ Free # Resetter
      BY StoreAssumption
    <3>4. \A d \in Calls \ {c} : Holding(d) => /\ found[d] \in ApprovalIds
                                               /\ found[d] # a
                                               /\ rowLock[found[d]] = d
                                               /\ Consumable(found[d])
      BY <2>1, <3>3 DEF IInv, LocksOK, Consumable, ApprovalRows
    <3>5. \A d \in Calls : Holding(d)' => (rowLock[found[d]] = d /\ Consumable(found[d]))'
      <4>1. (rowLock[found[c]] = c /\ Consumable(found[c]))'
        BY <1>1, <1>2, <1>7, <2>2 DEF Consumable, ApprovalRows
      <4>2. ASSUME NEW d \in Calls \ {c}, Holding(d)'
            PROVE  (rowLock[found[d]] = d /\ Consumable(found[d]))'
        BY <1>2, <2>2, <3>1, <3>4, <4>2 DEF Consumable, ApprovalRows
      <4>3. QED
        BY <4>1, <4>2
    <3>6. \A b \in ApprovalIds : rowLock'[b] \in Calls =>
                                   (Holding(rowLock[b]) /\ found[rowLock[b]] = b)'
      <4>1. ASSUME NEW b \in ApprovalIds, b = a
            PROVE  (Holding(rowLock[b]) /\ found[rowLock[b]] = b)'
        BY <1>2, <2>2, <4>1 DEF Holding, Won
      <4>2. ASSUME NEW b \in ApprovalIds \ {a}, rowLock[b] \in Calls
            PROVE  (Holding(rowLock[b]) /\ found[rowLock[b]] = b)'
        <5>1. Holding(rowLock[b]) /\ found[rowLock[b]] = b /\ rowLock[b] # c
          BY <1>1, <4>2 DEF IInv, LocksOK
        <5>2. QED
          BY <1>2, <2>2, <3>1, <4>2, <5>1
      <4>3. \A b \in ApprovalIds : b # a => rowLock'[b] = rowLock[b]
        BY <2>2
      <4>4. QED
        BY <4>1, <4>2, <4>3
    <3>7. \A b \in ApprovalIds : rowLock'[b] = Resetter =>
            b \in ApprovalRows' /\ resetPc' \in {"lockApprovals", "counters", "lockCounters"}
      BY <1>2, <2>2, <3>3 DEF IInv, LocksOK, ApprovalRows, resetVars
    <3>8. QED
      BY <3>5, <3>6, <3>7 DEF LocksOK
  <2>6. ResetOK'
    <3>1. \A b \in ApprovalIds : rowLock'[b] = Resetter <=> rowLock[b] = Resetter
      BY <2>1, <2>2, StoreAssumption
    <3>2. QED
      BY <1>1, <1>2, <3>1, ResetKept, RowsKept DEF IInv
  <2>7. LedgerOK'
    <3>1. \A d \in Effects : SameCall(d)
      BY <1>1, <1>4 DEF OnlyCall, IInv, LedgerOK, Effects
    <3>2. ApprovalRows' = ApprovalRows
      BY <1>2 DEF ApprovalRows
    <3>3. QED
      BY <1>1, <1>2, <3>1, <3>2, LedgerKept DEF IInv
  <2>8. QED
    BY <2>3, <2>4, <2>5, <2>6, <2>7 DEF IInv
<1>8. QED
  BY <1>6, <1>7

\* An effect names the approval its call found, which a committed row records
\* as consumed.
LEMMA EffectNamesFound ==
    ASSUME IInv, NEW d \in Effects
    PROVE  /\ effect[d].approval_id = found[d]
           /\ effect[d].approval_id \in ApprovalRows
           /\ approval[found[d]].consumed_at = moment[d]
           /\ moment[d] # None
<1>1. d \in Calls /\ moment[d] \in 0..MaxTime
  BY DEF Effects, IInv, TypeOK, EffectsTypeOK
<1>2. moment[d] # None
  BY <1>1, NoneAssumption
<1>3. /\ effect[d] = EffectOf(d)
      /\ found[d] \in ApprovalRows
      /\ approval[found[d]].consumed_at = moment[d]
  BY DEF IInv, LedgerOK
<1>4. effect[d].approval_id = found[d]
  BY <1>3 DEF EffectOf
<1>5. QED
  BY <1>2, <1>3, <1>4

\* An approval about to be spent has no effect yet: the winner of the
\* conditional UPDATE never meets the UNIQUE constraint.
LEMMA HeldIsUnspent ==
    ASSUME IInv, NEW c \in Calls, Holding(c)
    PROVE  EffectNaming(found[c]) = {}
<1>1. Consumable(found[c])
  BY DEF IInv, LocksOK
<1>2. QED
  BY <1>1, EffectNamesFound DEF Consumable, EffectNaming

LEMMA InsertEffectKeeps ==
    ASSUME IInv, NEW c \in Calls, InsertEffect(c), UNCHANGED resetVars
    PROVE  IInv'
<1>1. /\ TypeOK
      /\ pc[c] = "insert"
      /\ Holding(c)
      /\ \A d \in Calls : CallOK(d)
      /\ Verdict(c).decision = "allowed"
      /\ req[c].tool \in IRREVERSIBLE_TOOLS
      /\ req[c] \in Requests
      /\ BoundTo(found[c], c)
      /\ found[c] \in ApprovalIds
  BY DEF IInv, CallsOK, InsertEffect, CallOK, BoundTo, Holding
<1>2. EffectNaming(found[c]) = {}
  BY <1>1, HeldIsUnspent
<1> DEFINE answer == AllowedBy(found[c], c)
<1>3. /\ Decide(c, answer)
      /\ UNCHANGED <<clock, approval, effect, audit, counter, rowLock, bucketLock,
                     req, moment, used, found>>
  BY <1>2 DEF InsertEffect, tables, locks
<1>4. /\ answer \in Outcome
      /\ answer.effect_id = c
      /\ answer.effect_id # None
      /\ answer.reason = None
  BY <1>1, StoreAssumption DEF AllowedBy, Allowed, Outcome, Decisions
<1>5. /\ pc'[c] = "commit"
      /\ outcome'[c] = answer
      /\ answer # None
      /\ Won(c)'
      /\ Holding(c)'
  BY <1>1, <1>3, <1>4, EffectsAssumption
  DEF Decide, TypeOK, EffectsTypeOK, Won, Holding
<1>6. TypeOK'
  BY <1>1, <1>3, <1>4
  DEF TypeOK, StoreTypeOK, EffectsTypeOK, ConsoleTypeOK, Decide, resetVars, Active
<1>7. OnlyCall(c)
  BY <1>1, <1>3 DEF OnlyCall, SameCall, Decide, TypeOK, EffectsTypeOK
<1>8. CallsOK'
  <2>1. Verdict(c)' = Verdict(c) /\ (BoundTo(found[c], c)' <=> BoundTo(found[c], c))
    BY <1>3 DEF Verdict, BoundTo, Subject
  <2>2. None # "approval_already_consumed"
    BY NoneAssumption DEF DENIAL_REASONS
  <2>3. answer' = answer
    BY <1>3 DEF AllowedBy
  <2> HIDE DEF answer
  <2>4. outcome'[c] = AllowedBy(found[c], c)'
    BY <1>5, <2>3 DEF answer
  <2>5. CallOK(c)'
    BY <1>1, <1>3, <1>4, <1>5, <2>1, <2>2, <2>4 DEF CallOK
  <2>6. \A a \in ApprovalIds : Advances(a)
    BY <1>3 DEF Advances
  <2>7. QED
    BY <1>1, <1>7, <2>5, <2>6, CallOKKept DEF OnlyCall, CallsOK
<1>9. LocksOK'
  <2>1. \A d \in Calls : Holding(d)' = Holding(d)
    BY <1>1, <1>5, <1>7 DEF OnlyCall, SameCall, Holding, Won
  <2>2. found' = found /\ rowLock' = rowLock /\ approval' = approval /\ resetPc' = resetPc
    BY <1>3 DEF resetVars
  <2>3. QED
    BY <2>1, <2>2 DEF IInv, LocksOK, Consumable, ApprovalRows
<1>10. ResetOK'
  BY <1>1, <1>3, ResetKept, RowsKept DEF IInv
<1>11. LedgerOK'
  <2>1. \A d \in Effects : SameCall(d)
    BY <1>1, <1>7 DEF OnlyCall, IInv, LedgerOK, Effects
  <2>2. ApprovalRows' = ApprovalRows
    BY <1>3 DEF ApprovalRows
  <2>3. QED
    BY <1>1, <1>3, <2>1, <2>2, LedgerKept DEF IInv
<1>12. QED
  BY <1>6, <1>8, <1>9, <1>10, <1>11 DEF IInv

\* A call that is about to commit an effect holds the row of an approval for
\* just that act, which nobody has consumed.
LEMMA WinnerHolds ==
    ASSUME IInv, NEW c \in Calls, pc[c] = "commit", Won(c)
    PROVE  /\ Holding(c)
           /\ found[c] \in ApprovalIds
           /\ approval[found[c]] \in Approval
           /\ approval[found[c]].consumed_at = None
           /\ rowLock[found[c]] = c
           /\ BoundTo(found[c], c)
           /\ req[c].tool \in IRREVERSIBLE_TOOLS
           /\ EffectOf(c) \in IrreversibleEffect
<1> DEFINE a == found[c]
<1>1. /\ TypeOK
      /\ CallOK(c)
      /\ req[c] \in Requests
  BY DEF IInv, CallsOK, CallOK
<1>2. Holding(c)
  BY DEF Holding
<1>3. rowLock[a] = c /\ a \in ApprovalRows /\ approval[a].consumed_at = None
  BY <1>2 DEF IInv, LocksOK, Consumable
<1>4. a \in ApprovalIds /\ approval[a] \in Approval
  BY <1>1, <1>3 DEF ApprovalRows, TypeOK, StoreTypeOK
<1>5. BoundTo(a, c) /\ req[c].tool \in IRREVERSIBLE_TOOLS
  BY <1>1 DEF CallOK
<1>6. req[c].amount \in 1..MaxInt4 /\ req[c].account \in Accounts /\ Subject(c) \in Subjects
  BY <1>1, <1>3, <1>4, <1>5, EffectsAssumption DEF BoundTo, Approval, ApprovalRows, Subject
<1>7. EffectOf(c) \in IrreversibleEffect
  BY <1>4, <1>5, <1>6 DEF EffectOf, IrreversibleEffect
<1>8. QED
  BY <1>2, <1>3, <1>4, <1>5, <1>7

\* COMMIT, whether or not the caller learns of it.
LEMMA ApplyKeeps ==
    ASSUME IInv, NEW c \in Calls, Apply(c), NEW label \in {"returned", "lost"},
           pc' = [pc EXCEPT ![c] = label], UNCHANGED resetVars
    PROVE  IInv'
<1> DEFINE a == found[c]
<1>1. /\ TypeOK
      /\ pc[c] = "commit"
      /\ outcome[c] \in Outcome
      /\ outcome[c] # None
      /\ WritesEffect(c) <=> Won(c)
      /\ \A d \in Calls : CallOK(d)
      /\ req[c] \in Requests
  BY DEF IInv, CallsOK, Apply, CallOK, Won, WritesEffect, TypeOK, EffectsTypeOK
<1>2. c # Resetter /\ c # Free /\ c # None
  BY StoreAssumption
<1>3. /\ UNCHANGED <<clock, req, moment, used, found, outcome>>
      /\ rowLock' = Released(rowLock, c)
      /\ bucketLock' = Released(bucketLock, c)
      /\ audit' = [audit EXCEPT ![c] = AuditOf(c)]
      /\ counter' = IF used[c] > 0 THEN [counter EXCEPT ![Bucket(c)] = used[c]] ELSE counter
      /\ approval' = IF Won(c) THEN [approval EXCEPT ![a].consumed_at = moment[c]] ELSE approval
      /\ effect' = IF Won(c) THEN [effect EXCEPT ![c] = EffectOf(c)] ELSE effect
  BY <1>1 DEF Apply
<1>4. Won(c) => /\ Holding(c)
                /\ a \in ApprovalIds
                /\ approval[a] \in Approval
                /\ approval[a].consumed_at = None
                /\ rowLock[a] = c
                /\ BoundTo(a, c)
                /\ req[c].tool \in IRREVERSIBLE_TOOLS
                /\ EffectOf(c) \in IrreversibleEffect
  BY <1>1, WinnerHolds
<1>5. moment[c] \in Nat /\ moment[c] # None
  BY <1>1, NoneAssumption DEF TypeOK, EffectsTypeOK
<1>6. /\ \A b \in ApprovalIds : b # a => approval'[b] = approval[b]
      /\ ~Won(c) => approval' = approval
      /\ Won(c) => /\ approval'[a] = [approval[a] EXCEPT !.consumed_at = moment[c]]
                   /\ approval'[a] \in Approval
                   /\ approval'[a].consumed_at = moment[c]
  BY <1>1, <1>3, <1>4, <1>5 DEF TypeOK, StoreTypeOK, Approval
<1>7. /\ \A d \in Calls : d # c => effect'[d] = effect[d]
      /\ ~Won(c) => effect' = effect
      /\ Won(c) => effect'[c] = EffectOf(c) /\ effect'[c] # None
  BY <1>1, <1>3, <1>4, StoreAssumption DEF TypeOK, StoreTypeOK
<1>8. \A b \in ApprovalIds : Advances(b)
  BY <1>4, <1>5, <1>6 DEF Advances
<1>9. OnlyCall(c) /\ pc'[c] = label
  BY <1>1, <1>3 DEF OnlyCall, SameCall, TypeOK, EffectsTypeOK
<1>10. \A b \in ApprovalIds : rowLock'[b] = IF rowLock[b] = c THEN Free ELSE rowLock[b]
  BY <1>1, <1>3 DEF Released, TypeOK, StoreTypeOK
<1>11. c \notin Effects
  BY <1>1 DEF IInv, LedgerOK
<1>12. ApprovalRows' = ApprovalRows
  BY <1>4, <1>6, StoreAssumption DEF ApprovalRows
<1>13. TypeOK'
  <2>1. approval' \in [ApprovalIds -> Approval \cup {Unissued, Wiped}]
    BY <1>1, <1>3, <1>4, <1>6 DEF TypeOK, StoreTypeOK
  <2>2. effect' \in [Calls -> IrreversibleEffect \cup {None}]
    BY <1>1, <1>3, <1>4 DEF TypeOK, StoreTypeOK
  <2>3. AuditOf(c) \in AuditEvent
    <3>1. Verdict(c).subject \in Subjects \cup {None}
      BY <1>1, VerdictTypes DEF Verdict
    <3>2. QED
      BY <1>1, <3>1 DEF AuditOf, AuditEvent, Outcome
  <2>4. audit' \in [Calls -> AuditEvent \cup {None}]
    BY <1>1, <1>3, <2>3 DEF TypeOK, StoreTypeOK
  <2>5. counter' \in [Buckets -> Nat]
    BY <1>1, <1>3 DEF TypeOK, StoreTypeOK, EffectsTypeOK
  <2>6. /\ rowLock' \in [ApprovalIds -> Owners]
        /\ bucketLock' \in [Buckets -> Owners]
    BY <1>1, <1>3 DEF TypeOK, StoreTypeOK, Released, Owners
  <2>7. StoreTypeOK'
    BY <1>1, <1>3, <2>1, <2>2, <2>4, <2>5, <2>6 DEF TypeOK, StoreTypeOK
  <2>8. EffectsTypeOK'
    BY <1>1, <1>3 DEF TypeOK, EffectsTypeOK, Ended
  <2>9. QED
    BY <1>1, <2>7, <2>8 DEF TypeOK, ConsoleTypeOK, resetVars
<1>14. CallsOK'
  <2>1. Won(c) => BoundTo(found[c], c)'
    BY <1>1, <1>3, <1>4, <1>8, BoundToKept DEF BoundTo
  <2>2. \A b \in ApprovalIds : (approval[b] # Unissued /\ ~Consumable(b)) =>
                                 (approval'[b] # Unissued /\ ~Consumable(b)')
    BY <1>1, <1>8, SpentStaysSpent
  <2>3. Verdict(c)' = Verdict(c) /\ Won(c)' = Won(c)
    BY <1>3 DEF Verdict, Won
  <2>4. AllowedBy(found[c], c)' = AllowedBy(found[c], c)
    BY <1>3 DEF AllowedBy
  <2>5. CallOK(c)'
    BY <1>1, <1>3, <1>9, <2>1, <2>2, <2>3, <2>4 DEF CallOK
  <2>6. QED
    BY <1>1, <1>8, <1>9, <2>5, CallOKKept DEF OnlyCall, CallsOK
<1>15. LocksOK'
  <2>1. ~Holding(c)'
    BY <1>9 DEF Holding
  <2>2. \A b \in ApprovalIds : rowLock[b] # c => approval'[b] = approval[b]
    BY <1>4, <1>6
  <2>3. QED
    BY <1>1, <1>9, <1>10, <2>1, <2>2, ReleasedLocks DEF IInv, resetVars
<1>16. ResetOK'
  <2>1. \A b \in ApprovalIds : rowLock'[b] = Resetter <=> rowLock[b] = Resetter
    BY <1>2, <1>10, StoreAssumption
  <2>2. CASE ~Won(c)
    BY <1>1, <1>7, <1>12, <2>1, <2>2, ResetKept DEF IInv
  <2>3. CASE Won(c)
    <3>1. Effects' = Effects \cup {c}
      BY <1>7, <2>3 DEF Effects
    <3>2. \A d \in Effects : effect'[d] = effect[d] /\ effect[d].approval_id \in ApprovalIds
      BY <1>1, <1>7, <1>11 DEF Effects, TypeOK, StoreTypeOK, IrreversibleEffect
    <3>3. rowLock'[effect'[c].approval_id] # Resetter
      BY <1>2, <1>4, <1>7, <2>1, <2>3 DEF EffectOf
    <3>4. QED
      BY <1>11, <1>12, <2>1, <3>1, <3>2, <3>3 DEF IInv, ResetOK, resetVars
  <2>4. QED
    BY <2>2, <2>3
<1>17. LedgerOK'
  <2>1. \A d \in Effects : SameCall(d)
    BY <1>9, <1>11 DEF OnlyCall, Effects
  <2>2. CASE ~Won(c)
    BY <1>1, <1>6, <1>7, <1>12, <2>1, <2>2, LedgerKept DEF IInv
  <2>3. CASE Won(c)
    <3>1. Effects' = Effects \cup {c}
      BY <1>7, <2>3 DEF Effects
    <3>2. EffectNaming(a) = {}
      BY <1>4, <2>3, HeldIsUnspent
    <3>3. \A d \in Effects : /\ effect'[d] = effect[d]
                             /\ effect[d].approval_id = found[d]
                             /\ found[d] # a
      <4>1. ASSUME NEW d \in Effects
            PROVE  effect'[d] = effect[d] /\ effect[d].approval_id = found[d]
        <5>1. effect[d] = EffectOf(d) /\ d \in Calls /\ d # c
          BY <1>11 DEF IInv, LedgerOK, Effects
        <5>2. QED
          BY <1>7, <5>1 DEF EffectOf
      <4>2. QED
        BY <3>2, <4>1 DEF EffectNaming
    <3>4. \A d \in Calls : EffectOf(d)' = EffectOf(d) /\ Won(d)' = Won(d)
      BY <1>3 DEF EffectOf, Subject, Won
    <3>5. \A d \in Effects' : /\ pc'[d] \in {"returned", "lost"}
                              /\ Won(d)'
                              /\ effect'[d] = EffectOf(d)'
                              /\ found'[d] \in ApprovalRows'
                              /\ approval'[found'[d]].consumed_at = moment'[d]
      <4>1. ASSUME NEW d \in Effects
            PROVE  /\ pc'[d] \in {"returned", "lost"}
                   /\ Won(d)'
                   /\ effect'[d] = EffectOf(d)'
                   /\ found'[d] \in ApprovalRows'
                   /\ approval'[found'[d]].consumed_at = moment'[d]
        BY <1>3, <1>6, <2>1, <1>12, <3>3, <3>4
        DEF SameCall, IInv, LedgerOK, Effects, ApprovalRows
      <4>2. /\ pc'[c] \in {"returned", "lost"}
            /\ Won(c)'
            /\ effect'[c] = EffectOf(c)'
            /\ found'[c] \in ApprovalRows'
            /\ approval'[found'[c]].consumed_at = moment'[c]
        BY <1>3, <1>4, <1>6, <1>7, <1>9, <2>3, <1>12, <3>4, StoreAssumption DEF ApprovalRows
      <4>3. QED
        BY <3>1, <4>1, <4>2
    <3>6. effect'[c].approval_id = a
      BY <1>7, <2>3 DEF EffectOf
    <3>7. \A d, e \in Effects' : effect'[d].approval_id = effect'[e].approval_id => d = e
      BY <3>1, <3>3, <3>6 DEF IInv, LedgerOK
    <3>8. \A b \in ApprovalRows' :
            approval'[b].consumed_at # None => \E d \in Effects' : effect'[d].approval_id = b
      BY <1>6, <3>1, <1>12, <3>3, <3>6 DEF IInv, LedgerOK, ApprovalRows
    <3>9. QED
      BY <3>5, <3>7, <3>8 DEF LedgerOK
  <2>4. QED
    BY <2>2, <2>3
<1>18. QED
  BY <1>13, <1>14, <1>15, <1>16, <1>17 DEF IInv

\* Whatever a call does.
LEMMA CallStepKeeps ==
    ASSUME IInv, NEW c \in Calls, CallStep(c)
    PROVE  IInv'
<1>1. ASSUME NEW r \in Requests, CallTool(c, r) PROVE IInv'
  BY <1>1, CallToolKeeps DEF CallStep
<1>2. CASE ConsumeQuota(c)
  BY <1>2, ConsumeQuotaKeeps DEF CallStep
<1>3. CASE Lookup(c)
  BY <1>3, LookupKeeps DEF CallStep
<1>4. CASE Consume(c)
  BY <1>4, ConsumeKeeps DEF CallStep
<1>5. CASE InsertEffect(c)
  BY <1>5, InsertEffectKeeps DEF CallStep
<1>6. CASE Commit(c)
  BY <1>6, ApplyKeeps DEF CallStep, Commit
<1>7. CASE CommitReplyLost(c)
  BY <1>7, ApplyKeeps DEF CallStep, CommitReplyLost
<1>8. CASE Fail(c)
  BY <1>8, RaiseKeeps DEF CallStep, Fail
<1>9. QED
  BY <1>1, <1>2, <1>3, <1>4, <1>5, <1>6, <1>7, <1>8 DEF CallStep, Step

-----------------------------------------------------------------------------
(* The steps of the console.                                               *)

\* A console step keeps what is known of the calls when it only issues or
\* wipes approvals.
LEMMA ConsoleKeepsCalls ==
    ASSUME TypeOK, CallsOK, UNCHANGED callVars, \A a \in ApprovalIds : Advances(a)
    PROVE  CallsOK'
<1>1. \A d \in Calls : SameCall(d)
  BY DEF callVars, SameCall
<1>2. QED
  BY <1>1, CallOKKept DEF CallsOK

\* ... and what the calls hold, when it lets go of their rows and approvals.
LEMMA ConsoleKeepsLocks ==
    ASSUME TypeOK, LocksOK, UNCHANGED callVars,
           \A a \in ApprovalIds : rowLock[a] \in Calls =>
                approval'[a] = approval[a] /\ rowLock'[a] = rowLock[a],
           \A a \in ApprovalIds : rowLock'[a] \in Calls => rowLock'[a] = rowLock[a],
           \A a \in ApprovalIds : rowLock'[a] = Resetter =>
                a \in ApprovalRows' /\ resetPc' \in {"lockApprovals", "counters", "lockCounters"}
    PROVE  LocksOK'
<1>1. found' = found /\ \A d \in Calls : Holding(d)' = Holding(d)
  BY DEF callVars, Holding, Won
<1>2. ASSUME NEW d \in Calls, Holding(d)'
      PROVE  (rowLock[found[d]] = d /\ Consumable(found[d]))'
  <2>1. Holding(d) /\ rowLock[found[d]] = d /\ Consumable(found[d]) /\ found[d] \in ApprovalIds
    BY <1>1, <1>2 DEF LocksOK, Consumable, ApprovalRows
  <2>2. QED
    BY <1>1, <2>1 DEF Consumable, ApprovalRows
<1>3. ASSUME NEW a \in ApprovalIds, rowLock'[a] \in Calls
      PROVE  (Holding(rowLock[a]) /\ found[rowLock[a]] = a)'
  <2>1. rowLock'[a] = rowLock[a] /\ Holding(rowLock[a]) /\ found[rowLock[a]] = a
    BY <1>3 DEF LocksOK
  <2>2. QED
    BY <1>1, <1>3, <2>1
<1>4. QED
  BY <1>2, <1>3 DEF LocksOK

\* What the route inserts is a row of the table, not consumed.
LEMMA GrantedIsARow ==
    ASSUME TypeOK, NEW body \in GrantBodies, body.amount <= MaxInt4
    PROVE  LET row == NewApproval(body.subject, "issue_credit", body.account, body.amount,
                                  body.ttl_seconds, clock)
           IN  row \in Approval /\ row.consumed_at = None
<1>1. /\ body.amount \in 1..MaxInt4
      /\ body.subject \in Subjects
      /\ body.account \in Accounts
  BY ConsoleAssumption, StoreAssumption
<1>2. clock + body.ttl_seconds \in Nat
  BY ConsoleAssumption, StoreAssumption DEF TypeOK, StoreTypeOK
<1>3. "issue_credit" \in IRREVERSIBLE_TOOLS
  BY DEF IRREVERSIBLE_TOOLS
<1>4. QED
  BY <1>1, <1>2, <1>3 DEF NewApproval, Approval

\* A human grants an approval nobody has found yet.
LEMMA GrantKeeps ==
    ASSUME IInv, NEW presented \in Credentials, NEW body \in GrantBodies,
           NEW a \in ApprovalIds, Grant(presented, body, a), UNCHANGED <<callVars, resetVars>>
    PROVE  IInv'
<1> DEFINE row == NewApproval(body.subject, "issue_credit", body.account, body.amount,
                              body.ttl_seconds, clock)
<1>1. /\ TypeOK
      /\ CallsOK
      /\ body.amount <= MaxInt4
      /\ approval[a] = Unissued
      /\ approval' = [approval EXCEPT ![a] = row]
      /\ UNCHANGED <<clock, effect, audit, counter, rowLock, bucketLock>>
      /\ UNCHANGED callVars
      /\ UNCHANGED resetVars
  BY DEF IInv, Grant, locks
<1>2. row \in Approval /\ row.consumed_at = None
  BY <1>1, GrantedIsARow
<1> HIDE DEF row
<1>3. \A b \in ApprovalIds : approval'[b] = IF b = a THEN row ELSE approval[b]
  BY <1>1 DEF TypeOK, StoreTypeOK
<1>4. a \notin ApprovalRows /\ ApprovalRows' = ApprovalRows \cup {a}
  BY <1>1, <1>2, <1>3, StoreAssumption DEF ApprovalRows
<1>5. TypeOK'
  BY <1>1, <1>2
  DEF TypeOK, StoreTypeOK, EffectsTypeOK, ConsoleTypeOK, callVars, resetVars
<1>6. CallsOK'
  <2>1. \A b \in ApprovalIds : Advances(b)
    BY <1>1, <1>3 DEF Advances
  <2>2. QED
    BY <1>1, <2>1, ConsoleKeepsCalls
<1>7. LocksOK'
  <2>1. \A b \in ApprovalIds : rowLock[b] \in Calls => b # a
    BY <1>4 DEF IInv, LocksOK, Consumable
  <2>2. resetPc' = resetPc
    BY <1>1 DEF resetVars
  <2>3. QED
    BY <1>1, <1>3, <1>4, <2>1, <2>2, ConsoleKeepsLocks DEF IInv, LocksOK
<1>8. ResetOK'
  BY <1>1, <1>4, ResetKept DEF IInv
<1>9. LedgerOK'
  <2>1. \A d \in Effects : SameCall(d)
    BY <1>1 DEF callVars, SameCall
  <2>2. \A b \in ApprovalRows : approval'[b] = approval[b]
    BY <1>3, <1>4 DEF ApprovalRows
  <2>3. \A b \in ApprovalRows' \ ApprovalRows : approval'[b].consumed_at = None
    BY <1>2, <1>3, <1>4
  <2>4. QED
    BY <1>1, <2>1, <2>2, <2>3, LedgerKept DEF IInv
<1>10. QED
  BY <1>5, <1>6, <1>7, <1>8, <1>9 DEF IInv

\* A step that changes neither the calls, the approvals, the effects nor the
\* rows held, apart from the clock and the reset's own variables.
LEMMA ConsoleQuiet ==
    ASSUME IInv, TypeOK', ResetOK', UNCHANGED callVars,
           UNCHANGED <<approval, effect, rowLock>>,
           \A a \in ApprovalIds : rowLock[a] = Resetter =>
                resetPc' \in {"lockApprovals", "counters", "lockCounters"}
    PROVE  IInv'
<1>1. ApprovalRows' = ApprovalRows
  BY DEF ApprovalRows
<1>2. CallsOK'
  BY ConsoleKeepsCalls DEF IInv, Advances
<1>3. LocksOK'
  BY <1>1, ConsoleKeepsLocks DEF IInv, LocksOK
<1>4. LedgerOK'
  BY <1>1, LedgerKept DEF IInv, callVars, SameCall
<1>5. QED
  BY <1>2, <1>3, <1>4 DEF IInv

\* Each statement of the reset but its commit and its roll-back.
LEMMA ResetStatementKeeps ==
    ASSUME IInv, UNCHANGED callVars,
           \/ ResetBegins
           \/ ResetAudit
           \/ ResetApprovals
           \/ ResetForeignKey /\ Orphans = {}
           \/ ResetCounters
           \/ \E b \in Buckets : ResetLockCounter(b)
    PROVE  IInv'
<1>1. TypeOK /\ ResetOK /\ ConsoleTypeOK /\ UNCHANGED <<clock, approval, effect, audit, counter, rowLock>>
  BY DEF IInv, TypeOK, ResetBegins, ResetEffects, ResetAudit, ResetApprovals, ResetForeignKey, ResetCounters,
         ResetLockCounter, ResetAbort, tables, locks
<1>2. Effects' = Effects
  BY <1>1 DEF Effects
<1>3. \A a \in ApprovalIds : rowLock[a] = Resetter =>
        resetPc \in {"lockApprovals", "counters", "lockCounters"}
  BY DEF IInv, LocksOK
<1>4. Effects \subseteq Calls /\ \A d \in Effects : effect[d].approval_id \in ApprovalIds
  BY <1>1 DEF Effects, TypeOK, StoreTypeOK, IrreversibleEffect
<1>5. CASE ResetBegins
  <2>1. TypeOK'
    BY <1>1, <1>4, <1>5, ConsoleAssumption
    DEF ResetBegins, ResetEffects, locks, callVars, TypeOK, StoreTypeOK, EffectsTypeOK, ConsoleTypeOK,
        ResetStates
  <2>2. ResetOK'
    BY <1>2, <1>5 DEF ResetBegins, ResetEffects, ResetOK
  <2>3. \A a \in ApprovalIds : rowLock[a] # Resetter
    BY <1>3, <1>5 DEF ResetBegins, ResetEffects
  <2>4. QED
    BY <1>1, <2>1, <2>2, <2>3, ConsoleQuiet
<1>6. CASE ResetAudit
  <2>1. TypeOK'
    BY <1>1, <1>6
    DEF ResetAudit, locks, callVars, TypeOK, StoreTypeOK, EffectsTypeOK, ConsoleTypeOK,
        ResetStates
  <2>2. ResetOK'
    BY <1>1, <1>2, <1>6 DEF ResetAudit, ResetOK
  <2>3. \A a \in ApprovalIds : rowLock[a] # Resetter
    BY <1>3, <1>6 DEF ResetAudit
  <2>4. QED
    BY <1>1, <2>1, <2>2, <2>3, ConsoleQuiet
<1>7. CASE ResetApprovals
  <2>1. TypeOK'
    BY <1>1, <1>7
    DEF ResetApprovals, ApprovalRows, locks, callVars, TypeOK, StoreTypeOK, EffectsTypeOK,
        ConsoleTypeOK, ResetStates
  <2>2. \A d \in Effects : effect[d].approval_id \in ApprovalRows
    BY EffectNamesFound
  <2>3. ResetOK'
    BY <1>1, <1>2, <1>7, <2>2, RowsKept DEF ResetApprovals, ResetOK
  <2>4. QED
    BY <1>1, <1>7, <2>1, <2>3, ConsoleQuiet DEF ResetApprovals
<1>8. CASE ResetForeignKey /\ Orphans = {}
  <2>1. /\ resetPc = "lockApprovals"
        /\ resetTodo = {}
        /\ resetPc' = "counters"
        /\ UNCHANGED <<locks, resetTodo, doomedEffects, doomedAudits, resets>>
    BY <1>8 DEF ResetForeignKey
  <2>2. TypeOK'
    BY <1>1, <2>1
    DEF locks, callVars, TypeOK, StoreTypeOK, EffectsTypeOK, ConsoleTypeOK, ResetStates
  <2>3. \A d \in Effects : rowLock[effect[d].approval_id] = Resetter <=> d \in doomedEffects
    BY <1>1, <1>8, <2>1 DEF Orphans, ResetOK
  <2>4. ResetOK'
    BY <1>1, <1>2, <2>1, <2>3 DEF ResetOK
  <2>5. QED
    BY <1>1, <2>1, <2>2, <2>4, ConsoleQuiet
<1>9. CASE ResetCounters
  <2>1. TypeOK'
    BY <1>1, <1>9
    DEF ResetCounters, locks, callVars, TypeOK, StoreTypeOK, EffectsTypeOK, ConsoleTypeOK,
        ResetStates
  <2>2. ResetOK'
    BY <1>1, <1>2, <1>9 DEF ResetCounters, ResetOK
  <2>3. QED
    BY <1>1, <1>9, <2>1, <2>2, ConsoleQuiet DEF ResetCounters
<1>10. CASE \E b \in Buckets : ResetLockCounter(b)
  <2>1. PICK b \in Buckets : ResetLockCounter(b)
    BY <1>10
  <2>2. TypeOK'
    BY <1>1, <2>1
    DEF ResetLockCounter, callVars, TypeOK, StoreTypeOK, EffectsTypeOK, ConsoleTypeOK, Owners
  <2>3. ResetOK'
    BY <1>1, <1>2, <2>1 DEF ResetLockCounter, ResetOK
  <2>4. QED
    BY <1>1, <2>1, <2>2, <2>3, ConsoleQuiet DEF ResetLockCounter
<1>11. QED
  BY <1>5, <1>6, <1>7, <1>8, <1>9, <1>10

\* The reset takes an approval's row no call holds.
LEMMA ResetLockApprovalKeeps ==
    ASSUME IInv, NEW a \in ApprovalIds, ResetLockApproval(a), UNCHANGED callVars
    PROVE  IInv'
<1>1. /\ TypeOK
      /\ resetPc = "lockApprovals"
      /\ a \in resetTodo
      /\ rowLock[a] = Free
      /\ rowLock' = [rowLock EXCEPT ![a] = Resetter]
      /\ resetTodo' = resetTodo \ {a}
      /\ UNCHANGED <<clock, approval, effect, audit, counter, bucketLock>>
      /\ UNCHANGED <<resetPc, doomedEffects, doomedAudits, resets>>
  BY DEF IInv, ResetLockApproval, tables
<1>2. /\ \A b \in ApprovalIds : rowLock'[b] = IF b = a THEN Resetter ELSE rowLock[b]
      /\ ApprovalRows' = ApprovalRows
      /\ Effects' = Effects
  BY <1>1 DEF TypeOK, StoreTypeOK, ApprovalRows, Effects
<1>3. TypeOK'
  BY <1>1 DEF TypeOK, StoreTypeOK, EffectsTypeOK, ConsoleTypeOK, callVars, Owners
<1>4. CallsOK'
  BY <1>1, ConsoleKeepsCalls DEF IInv, Advances
<1>5. LocksOK'
  <2>1. Free \notin Calls /\ Resetter \notin Calls
    BY StoreAssumption
  <2>2. a \in ApprovalRows
    BY <1>1 DEF IInv, ResetOK
  <2>3. QED
    BY <1>1, <1>2, <2>1, <2>2, ConsoleKeepsLocks DEF IInv, LocksOK
<1>6. ResetOK'
  <2>1. \A d \in Effects : effect[d].approval_id \in ApprovalIds
    BY EffectNamesFound DEF ApprovalRows
  <2>2. QED
    BY <1>1, <1>2, <2>1 DEF IInv, ResetOK
<1>7. LedgerOK'
  BY <1>1, <1>2, LedgerKept DEF IInv, callVars, SameCall
<1>8. QED
  BY <1>3, <1>4, <1>5, <1>6, <1>7 DEF IInv

\* A reset that rolls back lets go of every row it took.
LEMMA ResetAbortKeeps ==
    ASSUME IInv, ResetAbort, UNCHANGED callVars
    PROVE  IInv'
<1>1. /\ TypeOK
      /\ resetPc' = "idle"
      /\ resetTodo' = {}
      /\ doomedEffects' = {}
      /\ doomedAudits' = {}
      /\ rowLock' = Released(rowLock, Resetter)
      /\ bucketLock' = Released(bucketLock, Resetter)
      /\ UNCHANGED <<clock, approval, effect, audit, counter, resets>>
  BY DEF IInv, ResetAbort, tables
<1>2. /\ \A b \in ApprovalIds :
           rowLock'[b] = IF rowLock[b] = Resetter THEN Free ELSE rowLock[b]
      /\ ApprovalRows' = ApprovalRows
  BY <1>1 DEF TypeOK, StoreTypeOK, ApprovalRows, Released
<1>3. TypeOK'
  BY <1>1
  DEF TypeOK, StoreTypeOK, EffectsTypeOK, ConsoleTypeOK, callVars, Owners, Released, ResetStates
<1>4. CallsOK'
  BY <1>1, ConsoleKeepsCalls DEF IInv, Advances
<1>5. LocksOK'
  BY <1>1, <1>2, StoreAssumption, ConsoleKeepsLocks DEF IInv
<1>6. ResetOK'
  BY <1>1 DEF ResetOK
<1>7. LedgerOK'
  BY <1>1, <1>2, LedgerKept DEF IInv, callVars, SameCall
<1>8. QED
  BY <1>3, <1>4, <1>5, <1>6, <1>7 DEF IInv

\* The reset commits: the approvals it holds go, and with them exactly the
\* effects they paid for.
LEMMA ResetCommitKeeps ==
    ASSUME IInv, ResetCommit, UNCHANGED callVars
    PROVE  IInv'
<1>1. /\ TypeOK
      /\ resetPc = "lockCounters"
      /\ resetTodo = {}
      /\ effect' = [c \in Calls |-> IF c \in doomedEffects THEN None ELSE effect[c]]
      /\ audit' = [c \in Calls |-> IF c \in doomedAudits THEN None ELSE audit[c]]
      /\ approval' = [a \in ApprovalIds |->
                        IF rowLock[a] = Resetter THEN Wiped ELSE approval[a]]
      /\ counter' = [b \in Buckets |-> IF bucketLock[b] = Resetter THEN 0 ELSE counter[b]]
      /\ rowLock' = Released(rowLock, Resetter)
      /\ bucketLock' = Released(bucketLock, Resetter)
      /\ resetPc' = "idle"
      /\ doomedEffects' = {}
      /\ doomedAudits' = {}
      /\ UNCHANGED <<clock, resetTodo, resets>>
  BY DEF IInv, ResetCommit
<1>2. \A b \in ApprovalIds :
        rowLock'[b] = IF rowLock[b] = Resetter THEN Free ELSE rowLock[b]
  BY <1>1 DEF TypeOK, StoreTypeOK, Released
<1>3. ApprovalRows' = {b \in ApprovalRows : rowLock[b] # Resetter}
  BY <1>1 DEF ApprovalRows
<1>4. Effects' = Effects \ doomedEffects
  BY <1>1 DEF Effects
<1>5. \A d \in Effects : rowLock[effect[d].approval_id] = Resetter <=> d \in doomedEffects
  BY <1>1 DEF IInv, ResetOK
<1>6. TypeOK'
  <2>1. StoreTypeOK'
    BY <1>1 DEF TypeOK, StoreTypeOK, Released, Owners
  <2>2. EffectsTypeOK' /\ ConsoleTypeOK'
    BY <1>1 DEF TypeOK, EffectsTypeOK, ConsoleTypeOK, callVars, ResetStates
  <2>3. QED
    BY <2>1, <2>2 DEF TypeOK
<1>7. CallsOK'
  <2>1. \A b \in ApprovalIds : Advances(b)
    BY <1>1 DEF Advances
  <2>2. QED
    BY <1>1, <2>1, ConsoleKeepsCalls DEF IInv
<1>8. LocksOK'
  <2>1. Free \notin Calls /\ Resetter \notin Calls /\ Free # Resetter
    BY StoreAssumption
  <2>2. QED
    BY <1>1, <1>2, <2>1, ConsoleKeepsLocks DEF IInv
<1>9. ResetOK'
  BY <1>1 DEF ResetOK
<1>10. LedgerOK'
  <2>1. \A d \in Effects' : d \in Effects /\ effect'[d] = effect[d]
    BY <1>1, <1>4 DEF Effects
  <2>2. \A d \in Calls : EffectOf(d)' = EffectOf(d) /\ Won(d)' = Won(d)
    BY DEF callVars, EffectOf, Subject, Won
  <2>3. ASSUME NEW d \in Effects'
        PROVE  /\ pc'[d] \in {"returned", "lost"}
               /\ Won(d)'
               /\ effect'[d] = EffectOf(d)'
               /\ found'[d] \in ApprovalRows'
               /\ approval'[found'[d]].consumed_at = moment'[d]
    <3>1. d \in Effects /\ d \in Calls /\ effect'[d] = effect[d] /\ d \notin doomedEffects
      BY <1>4, <2>1 DEF Effects
    <3>2. found[d] \in ApprovalRows /\ rowLock[found[d]] # Resetter
      BY <1>5, <3>1, EffectNamesFound
    <3>3. approval'[found[d]] = approval[found[d]] /\ found[d] \in ApprovalRows'
      BY <1>1, <1>3, <3>2 DEF ApprovalRows
    <3>4. QED
      BY <2>2, <3>1, <3>3 DEF IInv, LedgerOK, callVars
  <2>4. \A c, d \in Effects' : effect'[c].approval_id = effect'[d].approval_id => c = d
    BY <2>1 DEF IInv, LedgerOK
  <2>5. ASSUME NEW b \in ApprovalRows', approval'[b].consumed_at # None
        PROVE  \E d \in Effects' : effect'[d].approval_id = b
    <3>1. b \in ApprovalRows /\ rowLock[b] # Resetter /\ approval'[b] = approval[b]
      BY <1>1, <1>3 DEF ApprovalRows
    <3>2. PICK d \in Effects : effect[d].approval_id = b
      BY <2>5, <3>1 DEF IInv, LedgerOK
    <3>3. d \in Effects'
      BY <1>4, <1>5, <3>1, <3>2
    <3>4. QED
      BY <2>1, <3>2, <3>3
  <2>6. QED
    BY <2>3, <2>4, <2>5 DEF LedgerOK
<1>11. QED
  BY <1>6, <1>7, <1>8, <1>9, <1>10 DEF IInv

\* Whatever the operator's reset does.
LEMMA OperatorStepKeeps ==
    ASSUME IInv, OperatorStep
    PROVE  IInv'
<1>1. CASE \/ ResetBegins
           \/ ResetAudit
           \/ ResetApprovals
           \/ ResetForeignKey /\ Orphans = {}
           \/ ResetCounters
           \/ \E b \in Buckets : ResetLockCounter(b)
  BY <1>1, ResetStatementKeeps DEF OperatorStep
<1>2. CASE \E a \in ApprovalIds : ResetLockApproval(a)
  BY <1>2, ResetLockApprovalKeeps DEF OperatorStep
<1>3. CASE ResetFail \/ (ResetForeignKey /\ Orphans # {})
  <2>1. ResetAbort
    BY <1>3 DEF ResetFail, ResetForeignKey
  <2>2. QED
    BY <2>1, ResetAbortKeeps DEF OperatorStep
<1>4. CASE ResetCommit
  BY <1>4, ResetCommitKeeps DEF OperatorStep
<1>5. QED
  BY <1>1, <1>2, <1>3, <1>4 DEF OperatorStep, ResetStep

-----------------------------------------------------------------------------
(* The invariant is inductive.                                             *)

LEMMA IInvInit == Init => IInv
<1>1. SUFFICES ASSUME Init PROVE IInv
  OBVIOUS
<1>2. StoreTypeOK
  BY <1>1, StoreAssumption DEF Init, StoreInit, StoreTypeOK, Owners
<1>3. EffectsTypeOK
  BY <1>1, StoreAssumption DEF Init, EffectsInit, EffectsTypeOK
<1>4. ConsoleTypeOK
  BY <1>1, ConsoleAssumption DEF Init, ConsoleInit, ConsoleTypeOK, ResetStates
<1>5. Effects = {} /\ ApprovalRows = {}
  BY <1>1 DEF Init, StoreInit, Effects, ApprovalRows
<1>6. CallsOK
  BY <1>1 DEF Init, EffectsInit, CallsOK, CallOK, Won
<1>7. LocksOK
  BY <1>1, StoreAssumption DEF Init, StoreInit, EffectsInit, LocksOK, Holding
<1>8. ResetOK
  BY <1>1, <1>5 DEF Init, ConsoleInit, ResetOK
<1>9. LedgerOK
  BY <1>5 DEF LedgerOK
<1>10. QED
  BY <1>2, <1>3, <1>4, <1>6, <1>7, <1>8, <1>9 DEF IInv, TypeOK

\* Nothing happens, or only time passes.
LEMMA TimeKeeps ==
    ASSUME IInv, UNCHANGED <<tables, locks, callVars, resetVars>>, clock' \in 0..MaxTime
    PROVE  IInv'
<1>1. TypeOK /\ ResetOK /\ LocksOK
  BY DEF IInv
<1>2. TypeOK'
  BY <1>1
  DEF TypeOK, StoreTypeOK, EffectsTypeOK, ConsoleTypeOK, tables, locks, callVars, resetVars
<1>3. ResetOK'
  BY <1>1, ResetKept, RowsKept DEF tables, locks
<1>4. QED
  BY <1>1, <1>2, <1>3, ConsoleQuiet DEF LocksOK, tables, locks, resetVars

LEMMA IInvNext ==
    ASSUME IInv, [Next]_vars
    PROVE  IInv'
<1>1. ASSUME NEW c \in Calls, CallStep(c) PROVE IInv'
  BY <1>1, CallStepKeeps
<1>2. ASSUME NEW c \in Calls, DeadlockDetector(c) PROVE IInv'
  <2>1. CASE Fail(c) /\ UNCHANGED resetVars
    BY <2>1, RaiseKeeps DEF Fail
  <2>2. CASE ResetFail /\ UNCHANGED callVars
    BY <2>2, ResetAbortKeeps DEF ResetFail
  <2>3. QED
    BY <1>2, <2>1, <2>2 DEF DeadlockDetector
<1>3. CASE GrantStep
  BY <1>3, GrantKeeps DEF GrantStep
<1>4. CASE OperatorStep
  BY <1>4, OperatorStepKeeps
<1>5. CASE Time
  <2>1. clock' \in 0..MaxTime
    BY <1>5, StoreAssumption DEF Time, Tick, IInv, TypeOK, StoreTypeOK
  <2>2. QED
    BY <1>5, <2>1, TimeKeeps DEF Time, Tick
<1>6. CASE UNCHANGED vars
  BY <1>6, TimeKeeps DEF vars, IInv, TypeOK, StoreTypeOK
<1>7. CASE Finished
  BY <1>6, <1>7 DEF Finished
<1>8. QED
  BY <1>1, <1>2, <1>3, <1>4, <1>5, <1>6, <1>7 DEF Next

\* The broker's inductive invariant.
THEOREM BrokerInvariant == Spec => []IInv
<1>1. Init => IInv
  BY IInvInit
<1>2. IInv /\ [Next]_vars => IInv'
  BY IInvNext
<1>3. QED
  BY <1>1, <1>2, PTL DEF Spec
-----------------------------------------------------------------------------
(* What follows from the invariant.                                        *)

\* Every variable keeps its type: no statement of a call or of a reset ever
\* writes a row the schema of db/models.py could not hold.
THEOREM BrokerTypes == Spec => []TypeOK
<1>1. IInv => TypeOK
  BY DEF IInv
<1>2. QED
  BY <1>1, BrokerInvariant, PTL

-----------------------------------------------------------------------------
LEMMA OneEffect ==
    ASSUME IInv, NEW a \in ApprovalRows
    PROVE  Cardinality(EffectNaming(a)) = IF approval[a].consumed_at = None THEN 0 ELSE 1
<1>1. CASE approval[a].consumed_at = None
  <2>1. EffectNaming(a) = {}
    BY <1>1, EffectNamesFound DEF EffectNaming
  <2>2. QED
    BY <1>1, <2>1, FS_EmptySet
<1>2. CASE approval[a].consumed_at # None
  <2>1. PICK c \in Effects : effect[c].approval_id = a
    BY <1>2 DEF IInv, LedgerOK
  <2>2. EffectNaming(a) = {c}
    BY <2>1 DEF EffectNaming, IInv, LedgerOK
  <2>3. Cardinality({c}) = 1
    BY FS_Singleton
  <2>4. QED
    BY <1>2, <2>2, <2>3
<1>3. QED
  BY <1>1, <1>2

\* A consumed approval has paid for exactly one irreversible effect, an
\* unconsumed one for none (the transaction of call_tool).
THEOREM ApprovalsPayOnce == Spec => []OneApprovalOneEffect
<1>1. IInv => OneApprovalOneEffect
  BY OneEffect DEF OneApprovalOneEffect
<1>2. QED
  BY <1>1, BrokerInvariant, PTL

\* Every effect is covered by a stored approval for exactly that act, consumed
\* before it expired, as the call that wrote it saw the time (the lookup of
\* find_matching_approval).
THEOREM EffectsAreCovered == Spec => []EffectWithinApproval
<1>1. ASSUME IInv, NEW c \in Effects
      PROVE  LET e == effect[c]
                 a == approval[e.approval_id]
             IN  /\ e.approval_id \in ApprovalRows
                 /\ <<e.subject, e.tool, e.account, e.amount>>
                      = <<a.subject, a.tool, a.account, a.amount>>
                 /\ a.consumed_at = moment[c]
                 /\ moment[c] < a.expires_at
  <2>1. /\ effect[c].approval_id = found[c]
        /\ found[c] \in ApprovalRows
        /\ approval[found[c]].consumed_at = moment[c]
    BY <1>1, EffectNamesFound
  <2>2. effect[c] = EffectOf(c) /\ Won(c) /\ c \in Calls
    BY <1>1 DEF IInv, LedgerOK, Effects
  <2>3. BoundTo(found[c], c)
    BY <1>1, <2>2 DEF IInv, CallsOK, CallOK
  <2>4. /\ effect[c].subject = approval[found[c]].subject
        /\ effect[c].tool = approval[found[c]].tool
        /\ effect[c].account = approval[found[c]].account
        /\ effect[c].amount = approval[found[c]].amount
        /\ moment[c] < approval[found[c]].expires_at
    BY <2>1, <2>2, <2>3 DEF BoundTo, EffectOf, ApprovalRows
  <2>5. QED
    BY <2>1, <2>4
<1>2. IInv => EffectWithinApproval
  BY <1>1 DEF EffectWithinApproval
<1>3. QED
  BY <1>2, BrokerInvariant, PTL

\* The call that won the conditional UPDATE of consume_approval never meets
\* the UNIQUE constraint of irreversible_effect.
THEOREM UniqueIsABackstop == Spec => []BackstopUnreached
<1>1. IInv => BackstopUnreached
  BY HeldIsUnspent DEF BackstopUnreached, Holding
<1>2. QED
  BY <1>1, BrokerInvariant, PTL

\* A call is refused as having lost a race only when somebody won it, or the
\* approval is gone (consume_approval's row count, after waiting for the rival).
THEOREM LosersLoseToAWinner == Spec => []LosersHaveAWinner
<1>1. ASSUME IInv, NEW c \in Calls, outcome[c] # None,
             outcome[c].reason = "approval_already_consumed"
      PROVE  LET a == outcome[c].approval_id
             IN  approval[a] = Wiped \/ \E d \in Effects \ {c} : effect[d].approval_id = a
  <2> DEFINE a == outcome[c].approval_id
  <2>1. CallOK(c)
    BY <1>1 DEF IInv, CallsOK
  <2>2. a \in ApprovalIds /\ approval[a] # Unissued /\ ~Consumable(a)
    BY <1>1, <2>1 DEF CallOK
  <2>3. c \notin Effects
    <3>1. None # "approval_already_consumed"
      BY NoneAssumption DEF DENIAL_REASONS
    <3>2. ~Won(c)
      BY <1>1, <2>1, <3>1 DEF CallOK, AllowedBy, Allowed
    <3>3. QED
      BY <1>1, <3>2 DEF IInv, LedgerOK
  <2>4. CASE a \in ApprovalRows
    <3>1. approval[a].consumed_at # None
      BY <2>2, <2>4 DEF Consumable
    <3>2. PICK d \in Effects : effect[d].approval_id = a
      BY <1>1, <2>4, <3>1 DEF IInv, LedgerOK
    <3>3. QED
      BY <2>3, <3>2
  <2>5. CASE a \notin ApprovalRows
    BY <2>2, <2>5 DEF ApprovalRows
  <2>6. QED
    BY <2>4, <2>5
<1>2. IInv => LosersHaveAWinner
  BY <1>1 DEF LosersHaveAWinner
<1>3. QED
  BY <1>2, BrokerInvariant, PTL

-----------------------------------------------------------------------------
\* What authorize has established of a token it let through to issue_credit.
LEMMA AllowedToken ==
    ASSUME Policy = HARDENED, NEW r \in Requests, NEW now \in Nat,
           VerdictOn(r, now).decision = "allowed", r.tool = "issue_credit"
    PROVE  LET t == r.token
           IN  /\ "credit:issue" \in Scopes(t.scope)
               /\ \A i \in DOMAIN t.act :
                     t.act[i].well_formed /\ "credit:issue" \in Scopes(t.act[i].scope)
               /\ t.key = JwksByIssuer[t.iss][t.kid]
               /\ ThisServer \in t.aud.names
               /\ now < t.exp
<1> DEFINE t == r.token
           v == VerifyToken(t, now)
<1>1. v.failure = None /\ Refusal(Policy, v.claims, r.tool, ThisServer, now) = None
  BY DEF VerdictOn, Authorize
<1>2. /\ NoCandidateKey(t) = None
      /\ JwtDecodeFailure(t, now) = None
      /\ Chain(t).failure = None
  BY <1>1, NoneAssumption DEF VerifyToken, VerificationFailure, DENIAL_REASONS
<1>3. t.key = JwksByIssuer[t.iss][t.kid]
  BY <1>2, NoneAssumption DEF JwtDecodeFailure, DENIAL_REASONS
<1>4. \A i \in DOMAIN t.act : t.act[i].well_formed
  BY <1>2, NoneAssumption DEF Chain, DENIAL_REASONS
<1>5. /\ r.tool \in DOMAIN TOOL_SCOPES
      /\ ~(v.claims.expires_at <= now)
      /\ ThisServer \in v.claims.audience
      /\ TOOL_SCOPES[r.tool] \in EffectiveScopes(v.claims, TRUE)
  BY <1>1, NoneAssumption DEF Refusal, DENIAL_REASONS, HARDENED
<1>6. TOOL_SCOPES[r.tool] = "credit:issue"
  BY DEF TOOL_SCOPES
<1>7. /\ "credit:issue" \in v.claims.scopes
      /\ \A i \in DOMAIN v.claims.chain : "credit:issue" \in v.claims.chain[i].scopes
  BY <1>5, <1>6 DEF EffectiveScopes
<1>8. /\ v.claims.scopes = Scopes(t.scope)
      /\ v.claims.audience = t.aud.names
      /\ v.claims.expires_at = t.exp
      /\ v.claims.chain = Chain(t).links
  BY DEF VerifyToken
<1>9. ASSUME NEW i \in DOMAIN t.act
      PROVE  "credit:issue" \in Scopes(t.act[i].scope)
  <2> DEFINE j == Len(t.act) + 1 - i
  <2>1. DOMAIN t.act = 1..Len(t.act) /\ Len(t.act) \in Nat
    BY EffectsAssumption
  <2>2. j \in DOMAIN t.act /\ Len(t.act) + 1 - j = i
    BY <2>1
  <2> HIDE DEF j
  <2>3. j \in DOMAIN Chain(t).links /\ Chain(t).links[j].scopes = Scopes(t.act[i].scope)
    BY <2>2 DEF Chain
  <2>4. QED
    BY <1>7, <1>8, <2>3
<1>10. now < t.exp
  BY <1>5, <1>8, EffectsAssumption
<1>11. QED
  BY <1>3, <1>4, <1>5, <1>7, <1>8, <1>9, <1>10

\* Under the hardened policy no effect exists whose token did not hold
\* credit:issue in its leaf and in every link of its delegation chain, was not
\* signed by a key of its issuer, addressed to this server and live when the
\* call began (authorize, the first step of call_tool).
THEOREM EffectsAreAuthorised ==
    ASSUME Policy = HARDENED
    PROVE  Spec => []EffectAuthorised
<1>1. ASSUME IInv, NEW c \in Effects
      PROVE  LET t == req[c].token
             IN  /\ "credit:issue" \in Scopes(t.scope)
                 /\ \A i \in DOMAIN t.act :
                       t.act[i].well_formed /\ "credit:issue" \in Scopes(t.act[i].scope)
                 /\ t.key = JwksByIssuer[t.iss][t.kid]
                 /\ ThisServer \in t.aud.names
                 /\ moment[c] < t.exp
                 /\ effect[c].subject = t.sub
  <2>1. /\ effect[c] = EffectOf(c)
        /\ Won(c)
        /\ c \in Calls
        /\ pc[c] # "idle"
        /\ CallOK(c)
        /\ moment[c] \in Nat
    BY <1>1 DEF IInv, LedgerOK, Effects, CallsOK, TypeOK, EffectsTypeOK
  <2>2. /\ req[c] \in Requests
        /\ VerdictOn(req[c], moment[c]).decision = "allowed"
        /\ req[c].tool = "issue_credit"
    BY <2>1 DEF CallOK, Verdict, IRREVERSIBLE_TOOLS
  <2>3. effect[c].subject = req[c].token.sub
    BY <2>1 DEF EffectOf, Subject
  <2>4. QED
    BY <2>1, <2>2, <2>3, AllowedToken
<1>2. IInv => EffectAuthorised
  BY <1>1 DEF EffectAuthorised
<1>3. QED
  BY <1>2, BrokerInvariant, PTL
-----------------------------------------------------------------------------
(* What the steps do to the calls, the approvals, the effects and the      *)
(* reset: for the invariants that rest on IInv.                            *)

\* Every statement of a call but its commit: the tables stay as they are, no
\* other call moves, and the reset's rows stay the reset's.
LEMMA BeforeCommit ==
    ASSUME IInv, NEW c \in Calls,
           \/ \E r \in Requests : CallTool(c, r)
           \/ ConsumeQuota(c)
           \/ Lookup(c)
           \/ Consume(c)
           \/ InsertEffect(c)
           \/ Fail(c)
    PROVE  /\ OnlyCall(c)
           /\ ~Committed(c) /\ ~Committed(c)'
           /\ UNCHANGED <<approval, effect, audit, counter>>
           /\ \A a \in ApprovalIds : rowLock'[a] = Resetter <=> rowLock[a] = Resetter
<1>1. /\ pc \in [Calls -> {"idle"} \cup Active \cup Ended]
      /\ req \in [Calls -> Requests \cup {None}]
      /\ moment \in [Calls -> 0..MaxTime]
      /\ used \in [Calls -> Nat]
      /\ found \in [Calls -> ApprovalIds \cup {None}]
      /\ outcome \in [Calls -> Outcome \cup {None}]
      /\ rowLock \in [ApprovalIds -> Owners]
  BY DEF IInv, TypeOK, EffectsTypeOK, StoreTypeOK
<1>2. c # Resetter /\ Free # Resetter
  BY StoreAssumption
<1>3. ASSUME Raise(c), pc[c] \in Active
      PROVE  /\ OnlyCall(c)
             /\ ~Committed(c) /\ ~Committed(c)'
             /\ UNCHANGED <<approval, effect, audit, counter>>
             /\ \A a \in ApprovalIds : rowLock'[a] = Resetter <=> rowLock[a] = Resetter
  BY <1>1, <1>2, <1>3 DEF Raise, OnlyCall, SameCall, Committed, tables, Released, Active
<1>4. ASSUME NEW r \in Requests, CallTool(c, r)
      PROVE  /\ OnlyCall(c)
             /\ ~Committed(c) /\ ~Committed(c)'
             /\ UNCHANGED <<approval, effect, audit, counter, rowLock>>
  BY <1>1, <1>4
  DEF CallTool, Route, Decide, GoTo, OnlyCall, SameCall, Committed, tables, locks
<1>5. CASE ConsumeQuota(c)
  BY <1>1, <1>5
  DEF ConsumeQuota, Route, Decide, GoTo, OnlyCall, SameCall, Committed, tables
<1>6. CASE Lookup(c)
  <2>1. CASE Raise(c)
    BY <1>3, <1>6, <2>1 DEF Lookup, Active
  <2>2. CASE ~Raise(c)
    BY <1>1, <1>6, <2>2
    DEF Lookup, Decide, GoTo, OnlyCall, SameCall, Committed, tables, locks
  <2>3. QED
    BY <2>1, <2>2
<1>7. CASE Consume(c)
  <2>1. OnlyCall(c) /\ ~Committed(c) /\ ~Committed(c)' /\ UNCHANGED tables
    BY <1>1, <1>7 DEF Consume, Decide, GoTo, OnlyCall, SameCall, Committed
  <2>2. \A a \in ApprovalIds : rowLock'[a] = Resetter <=> rowLock[a] = Resetter
    BY <1>1, <1>2, <1>7 DEF Consume
  <2>3. QED
    BY <2>1, <2>2 DEF tables
<1>8. CASE InsertEffect(c)
  <2>1. CASE Raise(c)
    BY <1>3, <1>8, <2>1 DEF InsertEffect, Active
  <2>2. CASE ~Raise(c)
    BY <1>1, <1>8, <2>2
    DEF InsertEffect, Decide, OnlyCall, SameCall, Committed, tables, locks
  <2>3. QED
    BY <2>1, <2>2
<1>9. CASE Fail(c)
  BY <1>3, <1>9 DEF Fail
<1>10. QED
  BY <1>4, <1>5, <1>6, <1>7, <1>8, <1>9

\* COMMIT, told or not: a call that won writes its effect and consumes its
\* approval, any call writes its audit row, and nobody else is disturbed.
LEMMA AtCommit ==
    ASSUME IInv, NEW c \in Calls, Commit(c) \/ CommitReplyLost(c)
    PROVE  /\ Apply(c)
           /\ OnlyCall(c)
           /\ pc[c] = "commit" /\ Committed(c)'
           /\ UNCHANGED <<req, moment, used, found, outcome>>
           /\ \A d \in Calls : audit'[d] = IF d = c THEN AuditOf(c) ELSE audit[d]
           /\ \A d \in Calls : effect'[d] = IF d = c /\ Won(c) THEN EffectOf(c) ELSE effect[d]
           /\ \A a \in ApprovalIds :
                approval'[a] = IF Won(c) /\ a = found[c]
                               THEN [approval[a] EXCEPT !.consumed_at = moment[c]]
                               ELSE approval[a]
           /\ \A a \in ApprovalIds : rowLock'[a] = Resetter <=> rowLock[a] = Resetter
           /\ c \notin Effects
<1>1. /\ pc \in [Calls -> {"idle"} \cup Active \cup Ended]
      /\ approval \in [ApprovalIds -> Approval \cup {Unissued, Wiped}]
      /\ effect \in [Calls -> IrreversibleEffect \cup {None}]
      /\ audit \in [Calls -> AuditEvent \cup {None}]
      /\ rowLock \in [ApprovalIds -> Owners]
  BY DEF IInv, TypeOK, EffectsTypeOK, StoreTypeOK
<1>2. c # Resetter /\ Free # Resetter
  BY StoreAssumption
<1>3. Apply(c) /\ pc[c] = "commit"
  BY DEF Commit, CommitReplyLost, Apply
<1>4. OnlyCall(c) /\ Committed(c)' /\ UNCHANGED <<req, moment, used, found, outcome>>
  BY <1>1 DEF Commit, CommitReplyLost, Apply, OnlyCall, SameCall, Committed
<1>5. WritesEffect(c) <=> Won(c)
  BY <1>3 DEF WritesEffect, Won, IInv, CallsOK, CallOK
<1>6. /\ \A d \in Calls : audit'[d] = IF d = c THEN AuditOf(c) ELSE audit[d]
      /\ \A d \in Calls : effect'[d] = IF d = c /\ Won(c) THEN EffectOf(c) ELSE effect[d]
      /\ \A a \in ApprovalIds :
           approval'[a] = IF Won(c) /\ a = found[c]
                          THEN [approval[a] EXCEPT !.consumed_at = moment[c]]
                          ELSE approval[a]
  BY <1>1, <1>3, <1>5 DEF Apply
<1>7. \A a \in ApprovalIds : rowLock'[a] = Resetter <=> rowLock[a] = Resetter
  BY <1>1, <1>2, <1>3 DEF Apply, Released
<1>8. c \notin Effects
  BY <1>3 DEF IInv, LedgerOK
<1>9. QED
  BY <1>3, <1>4, <1>6, <1>7, <1>8

\* A call's steps are those of BeforeCommit and those of AtCommit.
LEMMA CallSteps ==
    ASSUME NEW c \in Calls, CallStep(c)
    PROVE  /\ UNCHANGED resetVars
           /\ \/ \E r \in Requests : CallTool(c, r)
              \/ ConsumeQuota(c)
              \/ Lookup(c)
              \/ Consume(c)
              \/ InsertEffect(c)
              \/ Fail(c)
              \/ Commit(c) \/ CommitReplyLost(c)
BY DEF CallStep, Step

\* Every statement of the reset but its commit writes no table and takes no row
\* from anybody.
LEMMA BeforeResetCommit ==
    ASSUME ResetBegins \/ (ResetStep /\ ~ResetCommit) \/ ResetFail
    PROVE  UNCHANGED <<clock, tables>>
BY DEF ResetBegins, ResetEffects, ResetStep, ResetAudit, ResetApprovals, ResetLockApproval,
       ResetForeignKey, ResetAbort, ResetCounters, ResetLockCounter, ResetFail

\* The steps of the broker, the deadlock detector's among those of its victim.
LEMMA NextCases ==
    ASSUME [Next]_vars
    PROVE  \/ \E c \in Calls : CallStep(c)
           \/ GrantStep
           \/ OperatorStep
           \/ UNCHANGED <<tables, locks, callVars, resetVars>>
<1>1. ASSUME NEW c \in Calls, DeadlockDetector(c)
      PROVE  CallStep(c) \/ OperatorStep
  BY <1>1 DEF DeadlockDetector, CallStep, OperatorStep
<1>2. CASE Time \/ Finished \/ UNCHANGED vars
  BY <1>2 DEF Time, Tick, Finished, vars
<1>3. QED
  BY <1>1, <1>2 DEF Next

\* Whatever is done, an approval is left alone, issued, wiped or consumed.
LEMMA ApprovalsAdvance ==
    ASSUME IInv, [Next]_vars
    PROVE  \A a \in ApprovalIds : Advances(a)
<1>. SUFFICES ASSUME NEW a \in ApprovalIds PROVE Advances(a)
  OBVIOUS
<1>1. approval \in [ApprovalIds -> Approval \cup {Unissued, Wiped}]
  BY DEF IInv, TypeOK, StoreTypeOK
<1>2. ASSUME NEW c \in Calls, CallStep(c) PROVE Advances(a)
  <2>1. CASE Commit(c) \/ CommitReplyLost(c)
    <3>1. CASE Won(c) /\ a = found[c]
      <4>1. approval[a] \in Approval /\ moment[c] \in Nat
        <5>1. approval[a] \in Approval
          BY <2>1, <3>1, AtCommit, WinnerHolds
        <5>2. moment[c] \in 0..MaxTime
          BY DEF IInv, TypeOK, EffectsTypeOK
        <5>. QED  BY <5>1, <5>2, StoreAssumption
      <4>2. approval'[a] = [approval[a] EXCEPT !.consumed_at = moment[c]]
        BY <2>1, <3>1, AtCommit
      <4>. QED  BY <4>1, <4>2 DEF Advances
    <3>2. CASE ~(Won(c) /\ a = found[c])
      <4>1. approval'[a] = approval[a]
        BY <2>1, <3>2, AtCommit
      <4>. QED  BY <4>1 DEF Advances
    <3>. QED  BY <3>1, <3>2
  <2>2. CASE ~(Commit(c) \/ CommitReplyLost(c))
    <3>1. approval' = approval
      BY <1>2, <2>2, CallSteps, BeforeCommit
    <3>. QED  BY <3>1 DEF Advances
  <2>. QED  BY <2>1, <2>2
<1>3. CASE GrantStep
  <2>1. approval'[a] = approval[a] \/ approval[a] = Unissued
    BY <1>1, <1>3 DEF GrantStep, Grant
  <2>. QED  BY <2>1 DEF Advances
<1>4. CASE OperatorStep
  <2>1. CASE ResetCommit
    BY <1>1, <2>1 DEF ResetCommit, Advances
  <2>2. CASE ~ResetCommit
    BY <1>4, <2>2, BeforeResetCommit DEF OperatorStep, tables, Advances
  <2>. QED  BY <2>1, <2>2
<1>5. CASE UNCHANGED <<tables, locks, callVars, resetVars>>
  BY <1>5 DEF tables, Advances
<1>. QED  BY <1>2, <1>3, <1>4, <1>5, NextCases

-----------------------------------------------------------------------------
(* No approval is overlooked.                                              *)

\* A set of naturals that is not empty has a least element.
LEMMA LeastNatural ==
    ASSUME NEW S, S \subseteq Nat, S # {}
    PROVE  \E n \in S : \A m \in S : n <= m
<1> DEFINE Smaller == {pair \in Nat \X Nat : pair[1] < pair[2]}
<1>1. IsWellFoundedOn(Smaller, Nat)
  BY NatLessThanWellFounded, Zenon DEF OpToRel
<1>2. PICK n \in S : \A m \in S : ~ (<<m, n>> \in Smaller)
  BY <1>1, WFMin, Zenon
<1>3. ASSUME NEW m \in S PROVE n <= m
  <2>1. <<m, n>> \in Nat \X Nat /\ <<m, n>>[1] = m /\ <<m, n>>[2] = n
    OBVIOUS
  <2>2. ~ (m < n)
    BY <1>2, <2>1
  <2>3. QED
    BY <2>1, <2>2
<1>4. QED
  BY <1>3

\* Of finitely many rows one expires last: a smallest set without one would
\* have one more than a set that has.
ExpiresLast(a, rows, f) == a \in rows /\ \A b \in rows : f[b] <= f[a]

LEMMA OneExpiresLast ==
    ASSUME NEW rows, IsFiniteSet(rows), rows # {}, NEW f, \A a \in rows : f[a] \in Int
    PROVE  \E a \in rows : ExpiresLast(a, rows, f)
<1> DEFINE Bad == {s \in SUBSET rows : s # {} /\ ~ \E a \in s : ExpiresLast(a, s, f)}
           Sizes == {Cardinality(s) : s \in Bad}
<1>1. ASSUME Bad # {} PROVE FALSE
  <2>1. \A s \in SUBSET rows : IsFiniteSet(s) /\ Cardinality(s) \in Nat
    BY FS_Subset, FS_CardinalityType
  <2>2. Sizes \subseteq Nat /\ Sizes # {}
    BY <1>1, <2>1
  <2>3. PICK n \in Sizes : \A m \in Sizes : n <= m
    BY <2>2, LeastNatural
  <2>4. PICK s \in Bad : Cardinality(s) = n
    BY <2>3
  <2>5. PICK x \in s : TRUE
    BY <2>4
  <2> DEFINE rest == s \ {x}
  <2>6. rest \in SUBSET rows /\ Cardinality(rest) = n - 1 /\ n \in Nat
    BY <2>1, <2>2, <2>4, <2>5, FS_RemoveElement
  <2>7. rest \notin Bad
    BY <2>3, <2>6
  <2>8. CASE rest = {}
    <3>1. s = {x}
      BY <2>5, <2>8
    <3>2. ExpiresLast(x, s, f)
      BY <2>4, <3>1 DEF ExpiresLast
    <3>3. QED
      BY <2>4, <2>5, <3>2
  <2>9. CASE rest # {}
    <3>1. PICK y \in rest : ExpiresLast(y, rest, f)
      BY <2>6, <2>7, <2>9
    <3>2. f[x] \in Int /\ f[y] \in Int /\ \A b \in s : f[b] \in Int
      BY <2>4, <2>5, <3>1
    <3>3. ExpiresLast(x, s, f) \/ ExpiresLast(y, s, f)
      BY <2>5, <3>1, <3>2 DEF ExpiresLast
    <3>4. QED
      BY <2>4, <2>5, <3>1, <3>3
  <2>10. QED
    BY <2>8, <2>9
<1>2. QED
  BY <1>1

\* The lookup comes back with nothing only when nothing is in time.
LEMMA NothingFound ==
    ASSUME TypeOK, IsFiniteSet(ApprovalIds), NEW t \in Nat,
           NEW subject, NEW tool, NEW account, NEW amount,
           FindMatchingApproval(subject, tool, account, amount, t).approvals = {},
           NEW a \in Matching(subject, tool, account, amount)
    PROVE  approval[a].expires_at <= t
<1> DEFINE rows == Matching(subject, tool, account, amount)
           f == [b \in rows |-> approval[b].expires_at]
<1>1. /\ \A b \in rows : approval[b].expires_at \in Nat
      /\ rows \subseteq ApprovalIds
  BY DEF Matching, ApprovalRows, TypeOK, StoreTypeOK, Approval
<1>2. IsFiniteSet(rows) /\ rows # {} /\ \A b \in rows : f[b] \in Int
  BY <1>1, FS_Subset
<1>3. PICK b \in rows : ExpiresLast(b, rows, f)
  <2> HIDE DEF rows, f
  <2>1. QED
    BY <1>2, OneExpiresLast
<1>4. \A d \in rows : approval[d].expires_at <= approval[b].expires_at
  BY <1>3 DEF ExpiresLast
<1>5. b \notin LatestLive(rows, t)
  BY DEF FindMatchingApproval
<1>6. ~ (approval[b].expires_at > t)
  BY <1>3, <1>4, <1>5 DEF LatestLive
<1>7. QED
  BY <1>1, <1>3, <1>4, <1>6

\* Only its lookup tells a call that it has no approval, or none in time.
Lacking == {"approval_required", "approval_expired"}

LEMMA VerdictIsNotOfApprovals ==
    ASSUME NEW r \in Requests, NEW now
    PROVE  VerdictOn(r, now).reason \notin Lacking
<1> DEFINE v == VerifyToken(r.token, now)
<1>1. Chain(r.token).failure \notin Lacking
  BY NoneAssumption DEF Chain, DENIAL_REASONS, Lacking
<1>2. JwtDecodeFailure(r.token, now) \notin Lacking
  BY NoneAssumption DEF JwtDecodeFailure, DENIAL_REASONS, Lacking
<1>3. NoCandidateKey(r.token) \notin Lacking
  BY NoneAssumption DEF NoCandidateKey, DENIAL_REASONS, Lacking
<1>4. v.failure \notin Lacking
  BY <1>1, <1>2, <1>3 DEF VerifyToken, VerificationFailure, Lacking
<1>5. Refusal(Policy, v.claims, r.tool, ThisServer, now) \notin Lacking
  BY NoneAssumption DEF Refusal, DENIAL_REASONS, Lacking
<1>6. None \notin Lacking
  BY NoneAssumption DEF DENIAL_REASONS, Lacking
<1> HIDE DEF v
<1>7. QED
  BY <1>4, <1>5, <1>6 DEF VerdictOn, Authorize, v

LEMMA OnlyLookupTells ==
    ASSUME IInv, NEW c \in Calls, CallStep(c), ~Lookup(c),
           outcome'[c] # None, outcome'[c].reason \in Lacking
    PROVE  outcome'[c] = outcome[c] /\ req'[c] = req[c] /\ moment'[c] = moment[c]
<1>1. /\ pc \in [Calls -> {"idle"} \cup Active \cup Ended]
      /\ req \in [Calls -> Requests \cup {None}]
      /\ moment \in [Calls -> 0..MaxTime]
      /\ outcome \in [Calls -> Outcome \cup {None}]
  BY DEF IInv, TypeOK, EffectsTypeOK
<1>2. None \notin Lacking
  BY NoneAssumption DEF DENIAL_REASONS, Lacking
<1>3. ASSUME NEW answer, Decide(c, answer), answer.reason \notin Lacking
      PROVE  FALSE
  BY <1>1, <1>3 DEF Decide
<1>4. ASSUME NEW label, GoTo(c, label), outcome[c] = None
      PROVE  FALSE
  BY <1>4 DEF GoTo
<1>5. ASSUME Raise(c) PROVE FALSE
  BY <1>1, <1>5 DEF Raise
<1>6. Allowed.reason \notin Lacking /\ \A a : AllowedBy(a, c).reason \notin Lacking
  BY <1>2 DEF Allowed, AllowedBy
<1>7. /\ Denied("rate_limited").reason \notin Lacking
      /\ \A a : DeniedFor("approval_already_consumed", a).reason \notin Lacking
  BY DEF Denied, DeniedFor, Lacking
<1>8. pc[c] \in {"idle", "quota", "consume", "insert"} => outcome[c] = None
  BY DEF IInv, CallsOK, CallOK
<1>9. ASSUME NEW tool, Route(c, tool), outcome[c] = None PROVE FALSE
  BY <1>3, <1>4, <1>6, <1>9 DEF Route
<1>10. CASE Commit(c) \/ CommitReplyLost(c)
  BY <1>10 DEF Commit, CommitReplyLost, Apply
<1>11. ASSUME NEW r \in Requests, CallTool(c, r) PROVE FALSE
  <2>1. Denied(VerdictOn(r, clock).reason).reason \notin Lacking
    BY VerdictIsNotOfApprovals DEF Denied
  <2>2. QED
    BY <1>3, <1>4, <1>8, <1>9, <1>11, <2>1 DEF CallTool
<1>12. CASE ConsumeQuota(c)
  BY <1>3, <1>7, <1>8, <1>9, <1>12 DEF ConsumeQuota
<1>13. CASE Consume(c)
  BY <1>3, <1>4, <1>7, <1>8, <1>13 DEF Consume
<1>14. CASE InsertEffect(c)
  BY <1>3, <1>5, <1>6, <1>14 DEF InsertEffect
<1>15. CASE Fail(c)
  BY <1>5, <1>15 DEF Fail
<1>16. QED
  BY <1>10, <1>11, <1>12, <1>13, <1>14, <1>15, CallSteps

\* Nobody is told that it lacks an approval while one stands that could pay,
\* whoever holds its row and rolls back later; only what is granted after a
\* refusal can have been missed by it (find_matching_approval).
THEOREM ApprovalsAreNotOverlooked ==
    ASSUME IsFiniteSet(ApprovalIds)
    PROVE  Spec => NoApprovalIsOverlooked
<1>1. ASSUME IInv, [Next]_vars, NEW c \in Calls, NEW a \in ApprovalIds,
             Overlooked(c, a)', approval[a] # Unissued
      PROVE  Overlooked(c, a)
  <2>1. TypeOK /\ approval \in [ApprovalIds -> Approval \cup {Unissued, Wiped}]
    BY <1>1 DEF IInv, TypeOK, StoreTypeOK
  <2>2. approval'[a] \notin {Unissued, Wiped} /\ approval'[a].consumed_at = None
    BY <1>1 DEF Overlooked, Matching, ApprovalRows
  <2>3. approval'[a] = approval[a]
    <3>1. ASSUME NEW t \in Nat, approval[a] \in Approval,
                 approval'[a] = [approval[a] EXCEPT !.consumed_at = t]
          PROVE  FALSE
      BY <2>2, <3>1, NoneAssumption DEF Approval
    <3>2. QED
      BY <1>1, <2>2, <3>1, ApprovalsAdvance DEF Advances
  <2>4. ASSUME outcome'[c] = outcome[c], req'[c] = req[c], moment'[c] = moment[c]
        PROVE  Overlooked(c, a)
    BY <1>1, <2>3, <2>4 DEF Overlooked, Matching, ApprovalRows, Subject
  <2>5. ASSUME NEW d \in Calls, CallStep(d)
        PROVE  Overlooked(c, a)
    <3>1. CASE d = c /\ Lookup(c)
      <4>1. /\ req' = req /\ moment' = moment
            /\ pc[c] = "lookup" /\ outcome[c] = None
        BY <1>1, <3>1 DEF Lookup, Raise, IInv, CallsOK, CallOK
      <4>2. outcome'[c] # None
        BY <1>1 DEF Overlooked
      <4>3. FindMatchingApproval(Subject(c), req[c].tool, req[c].account, req[c].amount,
                                 moment[c]).approvals = {}
        BY <2>1, <3>1, <4>1, <4>2 DEF Lookup, Raise, GoTo, TypeOK, EffectsTypeOK
      <4>4. /\ a \in Matching(Subject(c), req[c].tool, req[c].account, req[c].amount)
            /\ moment[c] < approval[a].expires_at
        BY <1>1, <2>3, <4>1 DEF Overlooked, Matching, ApprovalRows, Subject
      <4>5. moment[c] \in Nat /\ approval[a].expires_at \in Nat
        BY <2>1, <2>2, <2>3, StoreAssumption DEF TypeOK, EffectsTypeOK, Approval
      <4>6. approval[a].expires_at <= moment[c]
        BY <2>1, <4>3, <4>4, <4>5, NothingFound
      <4>7. QED
        BY <4>4, <4>5, <4>6
    <3>2. CASE d = c /\ ~Lookup(c)
      <4>1. outcome'[c] # None /\ outcome'[c].reason \in Lacking
        BY <1>1 DEF Overlooked, Lacking
      <4>2. QED
        BY <1>1, <2>4, <2>5, <3>2, <4>1, OnlyLookupTells
    <3>3. CASE d # c
      <4>1. SameCall(c)
        BY <1>1, <2>5, <3>3, CallSteps, BeforeCommit, AtCommit DEF OnlyCall
      <4>2. QED
        BY <2>4, <4>1 DEF SameCall
    <3>4. QED
      BY <3>1, <3>2, <3>3
  <2>6. CASE UNCHANGED callVars
    BY <2>4, <2>6 DEF callVars
  <2>7. QED
    BY <1>1, <2>5, <2>6, NextCases DEF GrantStep, OperatorStep
<1>2. ASSUME IInv, [Next]_vars
      PROVE  \A c \in Calls, a \in ApprovalIds :
               Overlooked(c, a)' => Overlooked(c, a) \/ approval[a] = Unissued
  BY <1>1, <1>2
<1>3. QED
  BY <1>2, BrokerInvariant, PTL DEF Spec, NoApprovalIsOverlooked

-----------------------------------------------------------------------------
(* The audit trail.                                                        *)

\* What a call that keeps its request and its answer writes is the same.
LEMMA SameAudit ==
    ASSUME NEW d, req'[d] = req[d], moment'[d] = moment[d], outcome'[d] = outcome[d]
    PROVE  AuditOf(d)' = AuditOf(d) /\ Won(d)' = Won(d)
BY DEF AuditOf, Verdict, Won

LEMMA EffectsPointAtIds ==
    ASSUME IInv
    PROVE  Effects \subseteq Calls /\ \A d \in Effects : effect[d].approval_id \in ApprovalIds
BY DEF IInv, TypeOK, StoreTypeOK, Effects, IrreversibleEffect

LEMMA AuditBeforeCommit ==
    ASSUME IInv, AuditOK, NEW c \in Calls, UNCHANGED resetVars,
           \/ \E r \in Requests : CallTool(c, r)
           \/ ConsumeQuota(c)
           \/ Lookup(c)
           \/ Consume(c)
           \/ InsertEffect(c)
           \/ Fail(c)
    PROVE  AuditOK'
<1>1. /\ OnlyCall(c)
      /\ ~Committed(c) /\ ~Committed(c)'
      /\ UNCHANGED <<approval, effect, audit, counter>>
      /\ \A a \in ApprovalIds : rowLock'[a] = Resetter <=> rowLock[a] = Resetter
  BY BeforeCommit
<1>2. Effects' = Effects
  BY <1>1 DEF Effects
<1>3. ASSUME NEW d \in Calls
      PROVE  /\ audit'[d] # None => Committed(d)' /\ audit'[d] = AuditOf(d)'
             /\ Committed(d)' /\ Won(d)' => (d \in Effects' <=> audit'[d] # None)
  <2>1. CASE d = c
    BY <1>1, <2>1 DEF AuditOK
  <2>2. CASE d # c
    <3>1. SameCall(d)
      BY <1>1, <2>2 DEF OnlyCall
    <3>2. Committed(d)' = Committed(d) /\ AuditOf(d)' = AuditOf(d) /\ Won(d)' = Won(d)
      BY <3>1, SameAudit DEF SameCall, Committed
    <3>3. QED
      BY <1>1, <1>2, <3>2 DEF AuditOK
  <2>3. QED
    BY <2>1, <2>2
<1>4. QED
  BY <1>1, <1>2, <1>3, EffectsPointAtIds DEF AuditOK, resetVars

\* The row a call writes is a row.
LEMMA AuditIsARow ==
    ASSUME IInv, NEW c \in Calls, outcome[c] # None, pc[c] # "idle"
    PROVE  AuditOf(c) # None
<1>1. req[c] \in Requests /\ outcome[c] \in Outcome
  BY DEF IInv, CallsOK, CallOK, TypeOK, EffectsTypeOK
<1>2. Verdict(c).subject \in Subjects \cup {None}
  BY <1>1, VerdictTypes DEF Verdict
<1>3. AuditOf(c) \in AuditEvent
  BY <1>1, <1>2 DEF AuditOf, AuditEvent, Outcome
<1>4. QED
  BY <1>3, StoreAssumption

LEMMA AuditAtCommit ==
    ASSUME IInv, AuditOK, NEW c \in Calls, UNCHANGED resetVars, Commit(c) \/ CommitReplyLost(c)
    PROVE  AuditOK'
<1>1. /\ OnlyCall(c)
      /\ pc[c] = "commit" /\ Committed(c)'
      /\ UNCHANGED <<req, moment, used, found, outcome>>
      /\ \A d \in Calls : audit'[d] = IF d = c THEN AuditOf(c) ELSE audit[d]
      /\ \A d \in Calls : effect'[d] = IF d = c /\ Won(c) THEN EffectOf(c) ELSE effect[d]
      /\ \A a \in ApprovalIds : rowLock'[a] = Resetter <=> rowLock[a] = Resetter
      /\ c \notin Effects
  BY AtCommit
<1>2. outcome[c] # None
  BY <1>1 DEF IInv, CallsOK, CallOK
<1>3. AuditOf(c) # None
  BY <1>1, <1>2, AuditIsARow
<1>4. \A d \in Calls : AuditOf(d)' = AuditOf(d) /\ Won(d)' = Won(d)
  BY <1>1, SameAudit
<1>5. audit[c] = None
  BY <1>1 DEF AuditOK, Committed
<1>6. \A d \in Calls \ {c} : Committed(d)' = Committed(d) /\ (d \in Effects' <=> d \in Effects)
  BY <1>1 DEF OnlyCall, SameCall, Committed, Effects
<1>7. Won(c) => c \in Effects'
  <2>1. Won(c) => EffectOf(c) # None
    BY <1>1, WinnerHolds, StoreAssumption
  <2>2. QED
    BY <1>1, <2>1 DEF Effects
<1>8. ASSUME NEW d \in Calls
      PROVE  /\ audit'[d] # None => Committed(d)' /\ audit'[d] = AuditOf(d)'
             /\ Committed(d)' /\ Won(d)' => (d \in Effects' <=> audit'[d] # None)
  <2>1. CASE d = c
    BY <1>1, <1>3, <1>4, <1>7, <2>1
  <2>2. CASE d # c
    BY <1>1, <1>4, <1>6, <2>2 DEF AuditOK
  <2>3. QED
    BY <2>1, <2>2
<1>9. c \notin doomedAudits
  BY <1>5 DEF AuditOK
<1>10. \A d \in doomedAudits : /\ audit'[d] # None
                               /\ d \in Effects' => d \in Effects /\ effect'[d] = effect[d]
  <2>1. doomedAudits \subseteq Calls
    BY DEF IInv, TypeOK, ConsoleTypeOK
  <2>2. \A d \in doomedAudits : audit[d] # None
    BY DEF AuditOK
  <2>3. QED
    BY <1>1, <1>6, <1>9, <2>1, <2>2
<1>11. QED
  BY <1>1, <1>8, <1>10, EffectsPointAtIds DEF AuditOK, resetVars

\* The first statements of a reset look, and lock, and write nothing.
LEMMA AuditBeforeResetCommit ==
    ASSUME IInv, AuditOK, UNCHANGED callVars,
           ResetBegins \/ (ResetStep /\ ~ResetCommit) \/ ResetFail
    PROVE  AuditOK'
<1>1. UNCHANGED <<approval, effect, audit>>
  BY BeforeResetCommit DEF tables
<1>2. Effects' = Effects
  BY <1>1 DEF Effects
<1>3. \A d \in Calls : /\ Committed(d)' = Committed(d)
                       /\ AuditOf(d)' = AuditOf(d)
                       /\ Won(d)' = Won(d)
  BY SameAudit DEF callVars, Committed
<1>4. \A d \in Calls : /\ audit'[d] # None => Committed(d)' /\ audit'[d] = AuditOf(d)'
                       /\ Committed(d)' /\ Won(d)' => (d \in Effects' <=> audit'[d] # None)
  BY <1>1, <1>2, <1>3 DEF AuditOK
<1>5. CASE ResetBegins
  BY <1>4, <1>5 DEF AuditOK, ResetBegins, ResetEffects
<1>6. CASE ResetAudit
  <2>1. \A d \in doomedEffects : d \in Calls /\ audit[d] # None
    BY DEF IInv, ResetOK, LedgerOK, AuditOK, Committed, Effects
  <2>2. QED
    BY <1>1, <1>4, <1>6, <2>1 DEF AuditOK, ResetAudit
<1>7. CASE ResetApprovals
  <2>1. \A d \in Effects : effect[d].approval_id \in ApprovalRows
    BY EffectNamesFound
  <2>2. QED
    BY <1>1, <1>2, <1>4, <1>7, <2>1 DEF AuditOK, ResetApprovals
<1>8. CASE \E a \in ApprovalIds : ResetLockApproval(a)
  <2>1. PICK a \in ApprovalIds : ResetLockApproval(a)
    BY <1>8
  <2>2. rowLock \in [ApprovalIds -> Owners]
    BY DEF IInv, TypeOK, StoreTypeOK
  <2>3. \A d \in Effects : (\/ effect[d].approval_id \in resetTodo
                            \/ rowLock[effect[d].approval_id] = Resetter) =>
                           (\/ effect[d].approval_id \in resetTodo'
                            \/ rowLock'[effect[d].approval_id] = Resetter)
    BY <2>1, <2>2, EffectsPointAtIds DEF ResetLockApproval
  <2>4. QED
    BY <1>1, <1>2, <1>4, <2>1, <2>3 DEF AuditOK, ResetLockApproval
<1>9. CASE ResetForeignKey /\ Orphans = {}
  <2>1. doomedAudits \cap Effects \subseteq doomedEffects
    BY <1>9 DEF AuditOK, ResetForeignKey, Orphans, ResetAbort
  <2>2. CASE ResetAbort
    BY <1>4, <2>2 DEF AuditOK, ResetAbort
  <2>3. CASE ~ResetAbort
    BY <1>1, <1>2, <1>4, <1>9, <2>1, <2>3 DEF AuditOK, ResetForeignKey
  <2>4. QED
    BY <2>2, <2>3
<1>10. CASE ResetFail \/ (ResetForeignKey /\ Orphans # {})
  BY <1>4, <1>10 DEF AuditOK, ResetFail, ResetForeignKey, ResetAbort
<1>11. CASE ResetCounters \/ \E b \in Buckets : ResetLockCounter(b)
  BY <1>1, <1>2, <1>4, <1>11 DEF AuditOK, ResetCounters, ResetLockCounter
<1>12. QED
  BY <1>5, <1>6, <1>7, <1>8, <1>9, <1>10, <1>11 DEF ResetStep

LEMMA AuditAtResetCommit ==
    ASSUME IInv, AuditOK, UNCHANGED callVars, ResetCommit
    PROVE  AuditOK'
<1>1. /\ resetPc = "lockCounters" /\ resetPc' = "idle" /\ doomedAudits' = {}
      /\ \A d \in Calls : audit'[d] = IF d \in doomedAudits THEN None ELSE audit[d]
      /\ Effects' = Effects \ doomedEffects
  BY DEF ResetCommit, Effects
<1>2. /\ doomedEffects \subseteq doomedAudits
      /\ doomedAudits \cap Effects \subseteq doomedEffects
      /\ \A d \in doomedAudits : audit[d] # None
  BY <1>1 DEF AuditOK
<1>3. \A d \in Calls : /\ Committed(d)' = Committed(d)
                       /\ AuditOf(d)' = AuditOf(d)
                       /\ Won(d)' = Won(d)
  BY SameAudit DEF callVars, Committed
<1>4. \A d \in Calls : /\ audit'[d] # None => Committed(d)' /\ audit'[d] = AuditOf(d)'
                       /\ Committed(d)' /\ Won(d)' => (d \in Effects' <=> audit'[d] # None)
  BY <1>1, <1>2, <1>3 DEF AuditOK
<1>5. QED
  BY <1>1, <1>4 DEF AuditOK

\* A step that leaves the calls, the effects, the trail and the locks alone.
LEMMA AuditElsewhere ==
    ASSUME IInv, AuditOK, UNCHANGED <<callVars, resetVars, effect, audit, rowLock>>
    PROVE  AuditOK'
<1>1. Effects' = Effects
  BY DEF Effects
<1>2. \A d \in Calls : /\ Committed(d)' = Committed(d)
                       /\ AuditOf(d)' = AuditOf(d)
                       /\ Won(d)' = Won(d)
  BY SameAudit DEF callVars, Committed
<1>3. QED
  BY <1>1, <1>2 DEF AuditOK, resetVars

LEMMA AuditInit == Init => AuditOK
BY DEF Init, StoreInit, EffectsInit, ConsoleInit, AuditOK, Committed

LEMMA AuditNext ==
    ASSUME IInv, AuditOK, [Next]_vars
    PROVE  AuditOK'
<1>1. ASSUME NEW c \in Calls, CallStep(c)
      PROVE  AuditOK'
  BY <1>1, CallSteps, AuditBeforeCommit, AuditAtCommit
<1>2. CASE OperatorStep
  BY <1>2, AuditBeforeResetCommit, AuditAtResetCommit DEF OperatorStep, ResetStep
<1>3. CASE GrantStep
  BY <1>3, AuditElsewhere DEF GrantStep, Grant, locks
<1>4. CASE UNCHANGED <<tables, locks, callVars, resetVars>>
  BY <1>4, AuditElsewhere DEF tables, locks
<1>5. QED
  BY <1>1, <1>2, <1>3, <1>4, NextCases

\* An allowed verdict is about the subject of the token.
LEMMA VerdictAllowedSubject ==
    ASSUME NEW r, NEW now, VerdictOn(r, now).decision = "allowed"
    PROVE  VerdictOn(r, now).subject = r.token.sub
<1> DEFINE v == VerifyToken(r.token, now)
<1>1. v.failure = None
  BY DEF VerdictOn, Authorize
<1>2. v.claims.subject = r.token.sub
  BY DEF VerifyToken
<1> HIDE DEF v
<1>3. QED
  BY <1>1, <1>2 DEF VerdictOn, Authorize, v

LEMMA EffectHasItsRow ==
    ASSUME IInv, AuditOK, NEW c \in Calls
    PROVE  /\ c \in Effects <=> audit[c] # None /\ audit[c].effect_id # None
           /\ c \in Effects =>
                /\ audit[c].effect_id = c
                /\ audit[c].decision = "allowed"
                /\ audit[c].approval_id = effect[c].approval_id
                /\ audit[c].subject = effect[c].subject
<1>1. ASSUME audit[c] # None, audit[c].effect_id # None
      PROVE  c \in Effects
  <2>1. Committed(c) /\ audit[c] = AuditOf(c)
    BY <1>1 DEF AuditOK
  <2>2. outcome[c] # None
    BY <2>1 DEF Committed, IInv, CallsOK, CallOK
  <2>3. Won(c)
    BY <1>1, <2>1, <2>2 DEF AuditOf, Won
  <2>4. QED
    BY <1>1, <2>1, <2>3 DEF AuditOK
<1>2. ASSUME c \in Effects
      PROVE  /\ audit[c] # None /\ audit[c].effect_id # None
             /\ audit[c].effect_id = c
             /\ audit[c].decision = "allowed"
             /\ audit[c].approval_id = effect[c].approval_id
             /\ audit[c].subject = effect[c].subject
  <2>1. Committed(c) /\ Won(c) /\ effect[c] = EffectOf(c)
    BY <1>2 DEF IInv, LedgerOK, Committed
  <2>2. audit[c] # None /\ audit[c] = AuditOf(c)
    BY <1>2, <2>1 DEF AuditOK
  <2>3. outcome[c] = AllowedBy(found[c], c) /\ Verdict(c).decision = "allowed"
    BY <2>1 DEF IInv, CallsOK, CallOK
  <2>4. /\ outcome[c].effect_id = c
        /\ outcome[c].decision = "allowed"
        /\ outcome[c].approval_id = found[c]
    BY <2>3 DEF AllowedBy, Allowed
  <2>5. Verdict(c).subject = Subject(c)
    BY <2>3, VerdictAllowedSubject DEF Verdict, Subject
  <2>6. c # None
    BY StoreAssumption
  <2>7. QED
    BY <2>1, <2>2, <2>4, <2>5, <2>6 DEF AuditOf, EffectOf
<1>3. QED
  BY <1>1, <1>2

\* The audit trail and the effects agree, one to one, whatever races, fails
\* midway or is reset (the row and the effect share call_tool's transaction,
\* and reset deletes the two tables in an order the foreign key makes safe).
THEOREM TrailMatchesEffects == Spec => []EffectsAudited
<1>1. Init => AuditOK
  BY AuditInit
<1>2. IInv /\ AuditOK /\ [Next]_vars => AuditOK'
  BY AuditNext
<1>3. IInv /\ AuditOK => EffectsAudited
  BY EffectHasItsRow DEF EffectsAudited
<1>4. QED
  BY <1>1, <1>2, <1>3, BrokerInvariant, PTL DEF Spec

-----------------------------------------------------------------------------
(* The abstract ledger.                                                    *)

\* The two variables of the ledger, as the broker's tables show them.
StatusOf(a) ==
    IF approval[a] = Unissued THEN "unissued"
    ELSE IF approval[a] = Wiped THEN "wiped"
    ELSE IF approval[a].consumed_at = None THEN "pending" ELSE "spent"
Sole(S) == IF S = {} THEN None ELSE CHOOSE c \in S : TRUE
PayerOf(a) == Sole(EffectNaming(a))

StatusBar == [a \in ApprovalIds |-> StatusOf(a)]
PayerBar  == [a \in ApprovalIds |-> PayerOf(a)]

\* The ledger's actions, in those terms.
LEMMA LedgerBars ==
    /\ UNCHANGED Ledger!ledgerVars <=> UNCHANGED <<StatusBar, PayerBar>>
    /\ Ledger!LedgerInit <=>
         /\ StatusBar = [a \in ApprovalIds |-> "unissued"]
         /\ PayerBar = [a \in ApprovalIds |-> None]
BY DEF Ledger!ledgerVars, Ledger!LedgerInit, StatusBar, PayerBar, StatusOf, PayerOf, Sole

LEMMA IssueBars ==
    ASSUME NEW a
    PROVE  Ledger!Issue(a) <=>
             /\ StatusBar[a] = "unissued"
             /\ StatusBar' = [StatusBar EXCEPT ![a] = "pending"]
             /\ UNCHANGED PayerBar
BY DEF Ledger!Issue, StatusBar, PayerBar, StatusOf, PayerOf, Sole

LEMMA SpendBars ==
    ASSUME NEW a, NEW c
    PROVE  Ledger!Spend(a, c) <=>
             /\ StatusBar[a] = "pending"
             /\ \A b \in ApprovalIds : PayerBar[b] # c
             /\ StatusBar' = [StatusBar EXCEPT ![a] = "spent"]
             /\ PayerBar' = [PayerBar EXCEPT ![a] = c]
BY DEF Ledger!Spend, StatusBar, PayerBar, StatusOf, PayerOf, Sole

LEMMA WipeBars ==
    ASSUME NEW gone
    PROVE  Ledger!Wipe(gone) <=>
             /\ \A a \in gone : StatusBar[a] \in {"pending", "spent"}
             /\ StatusBar' = [a \in ApprovalIds |-> IF a \in gone THEN "wiped" ELSE StatusBar[a]]
             /\ PayerBar' = [a \in ApprovalIds |-> IF a \in gone THEN None ELSE PayerBar[a]]
BY DEF Ledger!Wipe, StatusBar, PayerBar, StatusOf, PayerOf, Sole

LEMMA LedgerStutters ==
    ASSUME UNCHANGED <<approval, effect>>
    PROVE  UNCHANGED Ledger!ledgerVars
<1>1. Effects' = Effects
  BY DEF Effects
<1>2. \A a \in ApprovalIds : StatusOf(a)' = StatusOf(a) /\ EffectNaming(a)' = EffectNaming(a)
  BY <1>1 DEF StatusOf, EffectNaming
<1>3. StatusBar' = StatusBar /\ PayerBar' = PayerBar
  BY <1>2 DEF StatusBar, PayerBar, PayerOf
<1>4. QED
  BY <1>3, LedgerBars

\* The one element of a set is the one CHOOSE returns.
LEMMA TheOne ==
    ASSUME NEW c
    PROVE  Sole({c}) = c
BY DEF Sole

\* A grant issues.
LEMMA LedgerIssues ==
    ASSUME IInv, NEW presented \in Credentials, NEW body \in GrantBodies,
           NEW a \in ApprovalIds, Grant(presented, body, a)
    PROVE  Ledger!Issue(a)
<1> DEFINE row == NewApproval(body.subject, "issue_credit", body.account, body.amount,
                              body.ttl_seconds, clock)
<1>1. row \in Approval /\ row.consumed_at = None
  BY GrantedIsARow DEF IInv, Grant
<1> HIDE DEF row
<1>2. /\ approval[a] = Unissued
      /\ \A b \in ApprovalIds : approval'[b] = IF b = a THEN row ELSE approval[b]
      /\ effect' = effect
  BY DEF IInv, TypeOK, StoreTypeOK, Grant, row
<1>3. row # Unissued /\ row # Wiped
  BY <1>1, StoreAssumption
<1>4. \A b \in ApprovalIds : EffectNaming(b)' = EffectNaming(b)
  BY <1>2 DEF EffectNaming, Effects
<1>5. \A b \in ApprovalIds : /\ PayerOf(b)' = PayerOf(b)
                             /\ StatusOf(b)' = IF b = a THEN "pending" ELSE StatusOf(b)
  BY <1>1, <1>2, <1>3, <1>4 DEF PayerOf, StatusOf
<1>6. StatusOf(a) = "unissued"
  BY <1>2 DEF StatusOf
<1>7. QED
  BY <1>5, <1>6, IssueBars DEF StatusBar, PayerBar

\* The commit of a call that won spends the approval it found.
LEMMA LedgerSpends ==
    ASSUME IInv, NEW c \in Calls, Commit(c) \/ CommitReplyLost(c), Won(c),
           NEW a, a = found[c]
    PROVE  Ledger!Spend(a, c)
<1>1. /\ pc[c] = "commit"
      /\ \A d \in Calls : effect'[d] = IF d = c THEN EffectOf(c) ELSE effect[d]
      /\ \A b \in ApprovalIds : b # a => approval'[b] = approval[b]
      /\ approval'[a] = [approval[a] EXCEPT !.consumed_at = moment[c]]
      /\ c \notin Effects
  <2>1. /\ pc[c] = "commit"
        /\ c \notin Effects
        /\ \A d \in Calls : effect'[d] = IF d = c THEN EffectOf(c) ELSE effect[d]
        /\ \A b \in ApprovalIds :
             approval'[b] = IF b = a THEN [approval[b] EXCEPT !.consumed_at = moment[c]]
                            ELSE approval[b]
    BY AtCommit
  <2>2. a \in ApprovalIds
    BY <2>1, WinnerHolds
  <2>3. \A b \in ApprovalIds : b # a => approval'[b] = approval[b]
    BY <2>1
  <2>4. approval'[a] = [approval[a] EXCEPT !.consumed_at = moment[c]]
    BY <2>1, <2>2
  <2>5. QED
    BY <2>1, <2>3, <2>4
<1>2. /\ Holding(c)
      /\ a \in ApprovalIds
      /\ approval[a] \in Approval
      /\ approval[a].consumed_at = None
      /\ EffectOf(c) # None
  BY <1>1, WinnerHolds, StoreAssumption
<1>3. moment[c] \in Nat /\ moment[c] # None
  BY NoneAssumption DEF IInv, TypeOK, EffectsTypeOK
<1>4. approval'[a] \in Approval /\ approval'[a].consumed_at = moment[c]
  BY <1>1, <1>2, <1>3 DEF Approval
<1>5. StatusOf(a) = "pending" /\ StatusOf(a)' = "spent"
  BY <1>2, <1>3, <1>4, StoreAssumption DEF StatusOf
<1>6. Effects' = Effects \cup {c} /\ EffectOf(c).approval_id = a
  BY <1>1, <1>2 DEF Effects, EffectOf
<1>7. EffectNaming(a) = {}
  BY <1>2, HeldIsUnspent
<1>8. EffectNaming(a)' = {c} /\ \A b \in ApprovalIds \ {a} : EffectNaming(b)' = EffectNaming(b)
  BY <1>1, <1>6, <1>7 DEF EffectNaming, Effects
<1>9. PayerOf(a)' = c
  BY <1>8, TheOne DEF PayerOf
<1>10. \A b \in ApprovalIds \ {a} : StatusOf(b)' = StatusOf(b) /\ PayerOf(b)' = PayerOf(b)
  BY <1>1, <1>8 DEF StatusOf, PayerOf
<1>11. \A b \in ApprovalIds : PayerOf(b) # c
  BY <1>1, StoreAssumption DEF PayerOf, Sole, EffectNaming
<1>12. QED
  BY <1>2, <1>5, <1>9, <1>10, <1>11, SpendBars DEF StatusBar, PayerBar

\* The commit of a reset wipes the approvals it holds, and what they paid for.
LEMMA LedgerWipes ==
    ASSUME IInv, ResetCommit, NEW gone, gone = {a \in ApprovalIds : rowLock[a] = Resetter}
    PROVE  Ledger!Wipe(gone)
<1>1. gone \subseteq ApprovalRows
  BY DEF IInv, LocksOK
<1>2. /\ resetPc = "lockCounters"
      /\ \A a \in ApprovalIds : approval'[a] = IF a \in gone THEN Wiped ELSE approval[a]
      /\ \A d \in Calls : effect'[d] = IF d \in doomedEffects THEN None ELSE effect[d]
  BY DEF ResetCommit
<1>3. /\ Effects' = Effects \ doomedEffects
      /\ \A d \in Effects' : effect'[d] = effect[d]
  BY <1>2 DEF Effects
<1>4. \A d \in Effects : /\ effect[d].approval_id \in ApprovalIds
                         /\ d \in doomedEffects <=> effect[d].approval_id \in gone
  BY <1>2, EffectsPointAtIds DEF IInv, ResetOK
<1>5. ASSUME NEW a \in ApprovalIds
      PROVE  EffectNaming(a)' = IF a \in gone THEN {} ELSE EffectNaming(a)
  BY <1>3, <1>4 DEF EffectNaming
<1>6. \A a \in gone : StatusOf(a) \in {"pending", "spent"}
  BY <1>1 DEF StatusOf, ApprovalRows
<1>7. \A a \in ApprovalIds : /\ StatusOf(a)' = IF a \in gone THEN "wiped" ELSE StatusOf(a)
                             /\ PayerOf(a)' = IF a \in gone THEN None ELSE PayerOf(a)
  <2>1. Sole({}) = None
    BY DEF Sole
  <2>2. \A a \in ApprovalIds : StatusOf(a)' = IF a \in gone THEN "wiped" ELSE StatusOf(a)
    BY <1>2, StoreAssumption DEF StatusOf
  <2>3. QED
    BY <1>5, <2>1, <2>2 DEF PayerOf
<1>8. gone \subseteq ApprovalIds
  OBVIOUS
<1>9. QED
  BY <1>6, <1>7, <1>8, WipeBars DEF StatusBar, PayerBar

LEMMA LedgerStarts == Init => Ledger!LedgerInit
BY LedgerBars
DEF Init, StoreInit, EffectNaming, Effects, StatusBar, PayerBar, StatusOf, PayerOf, Sole

LEMMA LedgerSteps ==
    ASSUME IInv, [Next]_vars
    PROVE  [Ledger!LedgerNext]_(Ledger!ledgerVars)
<1>1. ASSUME NEW c \in Calls, CallStep(c)
      PROVE  [Ledger!LedgerNext]_(Ledger!ledgerVars)
  <2>1. CASE Commit(c) \/ CommitReplyLost(c)
    <3>1. CASE Won(c)
      <4>1. PICK a \in ApprovalIds : a = found[c]
        BY <2>1, <3>1, AtCommit, WinnerHolds
      <4>2. QED
        BY <2>1, <3>1, <4>1, LedgerSpends DEF Ledger!LedgerNext
    <3>2. CASE ~Won(c)
      <4>1. UNCHANGED <<approval, effect>>
        BY <2>1, <3>2, AtCommit DEF Apply, WritesEffect, Won, IInv, CallsOK, CallOK
      <4>2. QED
        BY <4>1, LedgerStutters
    <3>3. QED
      BY <3>1, <3>2
  <2>2. CASE ~(Commit(c) \/ CommitReplyLost(c))
    <3>1. UNCHANGED <<approval, effect>>
      BY <1>1, <2>2, CallSteps, BeforeCommit
    <3>2. QED
      BY <3>1, LedgerStutters
  <2>3. QED
    BY <2>1, <2>2
<1>2. CASE GrantStep
  BY <1>2, LedgerIssues DEF GrantStep, Ledger!LedgerNext
<1>3. CASE OperatorStep
  <2>1. CASE ResetCommit
    <3>1. PICK gone \in SUBSET ApprovalIds :
                 gone = {a \in ApprovalIds : rowLock[a] = Resetter}
      OBVIOUS
    <3>2. QED
      BY <2>1, <3>1, LedgerWipes DEF Ledger!LedgerNext
  <2>2. CASE ~ResetCommit
    <3>1. UNCHANGED <<approval, effect>>
      BY <1>3, <2>2, BeforeResetCommit DEF OperatorStep, tables
    <3>2. QED
      BY <3>1, LedgerStutters
  <2>3. QED
    BY <2>1, <2>2
<1>4. CASE UNCHANGED <<tables, locks, callVars, resetVars>>
  BY <1>4, LedgerStutters DEF tables
<1>5. QED
  BY <1>1, <1>2, <1>3, <1>4, NextCases

\* The broker implements the ledger: consuming an approval and writing its
\* effect are one event, no approval is un-spent or spent twice, and a reset
\* takes an approval and its effect together.
THEOREM BrokerImplementsLedger == Spec => ImplementsLedger
<1>1. Init => Ledger!LedgerInit
  BY LedgerStarts
<1>2. IInv /\ [Next]_vars => [Ledger!LedgerNext]_(Ledger!ledgerVars)
  BY LedgerSteps
<1>3. QED
  BY <1>1, <1>2, BrokerInvariant, PTL DEF Spec, ImplementsLedger, Ledger!LedgerSpec

-----------------------------------------------------------------------------
(* The claims of the calls.                                                *)

LEMMA Types ==
    ASSUME IInv
    PROVE  /\ pc \in [Calls -> {"idle"} \cup Active \cup Ended]
           /\ req \in [Calls -> Requests \cup {None}]
           /\ moment \in [Calls -> 0..MaxTime]
           /\ used \in [Calls -> Nat]
           /\ found \in [Calls -> ApprovalIds \cup {None}]
           /\ outcome \in [Calls -> Outcome \cup {None}]
           /\ counter \in [Buckets -> Nat]
           /\ bucketLock \in [Buckets -> Owners]
           /\ resets \in Nat
           /\ Limit \in Nat
BY ConsoleAssumption, EffectsAssumption
DEF IInv, TypeOK, StoreTypeOK, EffectsTypeOK, ConsoleTypeOK

\* A call that was let in has a bucket.
LEMMA BucketKnown ==
    ASSUME IInv, NEW c \in Calls, req[c] \in Requests, Verdict(c).decision = "allowed"
    PROVE  Bucket(c) \in Buckets
<1>1. Subject(c) \in Subjects /\ req[c].tool \in Tools /\ moment[c] \in 0..MaxTime
  BY Types, VerdictAllowedTool, EffectsAssumption DEF Verdict, Subject
<1>2. WindowStart(moment[c]) \in {WindowStart(t) : t \in 0..MaxTime}
  BY <1>1
<1> HIDE DEF WindowStart
<1>3. QED
  BY <1>1, <1>2 DEF Bucket, Buckets

\* A claim is not disturbed by a step of somebody else that leaves its bucket
\* alone.
LEMMA ClaimKept ==
    ASSUME NEW d \in Calls, ClaimOK(d), SameCall(d),
           (used[d] > 0 /\ pc[d] \in Active) =>
               /\ bucketLock'[Bucket(d)] = bucketLock[Bucket(d)]
               /\ counter'[Bucket(d)] = counter[Bucket(d)]
    PROVE  ClaimOK(d)'
<1>1. Bucket(d)' = Bucket(d) /\ Buckets' = Buckets
  BY DEF SameCall, Bucket, Subject, Buckets
<1>2. QED
  BY <1>1 DEF ClaimOK, SameCall

\* What is known of a bucket stays known while its committed claims, and its
\* counter, are left alone.
LEMMA PositionsKept ==
    ASSUME NEW b \in Buckets, PositionsOK(b), Charged(b)' = Charged(b),
           \A c \in Charged(b) : used'[c] = used[c],
           counter'[b] = counter[b]
    PROVE  PositionsOK(b)'
BY DEF PositionsOK

\* A call that has not committed, before or after its step, is not charged.
LEMMA ChargedKept ==
    ASSUME NEW c \in Calls, OnlyCall(c), ~Committed(c), ~Committed(c)', NEW b
    PROVE  Charged(b)' = Charged(b) /\ \A d \in Charged(b) : used'[d] = used[d]
<1>1. \A d \in Calls \ {c} : /\ Bucket(d)' = Bucket(d)
                             /\ pc'[d] = pc[d]
                             /\ used'[d] = used[d]
  BY DEF OnlyCall, SameCall, Bucket, Subject
<1>2. c \notin Charged(b) /\ c \notin Charged(b)'
  BY DEF Charged, Committed
<1>3. Charged(b)' = Charged(b)
  BY <1>1, <1>2 DEF Charged
<1>4. QED
  BY <1>1, <1>2 DEF Charged

\* A statement that leaves the counters and their locks alone: the call claims
\* nothing, and is not refused by the ceiling.
LEMMA CeilingQuiet ==
    ASSUME IInv, CounterOK, NEW c \in Calls, OnlyCall(c), ~Committed(c), ~Committed(c)',
           UNCHANGED <<counter, bucketLock, resetVars>>,
           used'[c] = used[c], used[c] <= Limit,
           used[c] = 0 \/ (Bucket(c)' = Bucket(c) /\ pc[c] \in Active),
           outcome'[c] # None => outcome'[c].reason # "rate_limited"
    PROVE  CounterOK'
<1>1. \A d \in Calls : ClaimOK(d)'
  <2>1. \A d \in Calls \ {c} : ClaimOK(d)'
    BY ClaimKept DEF OnlyCall, CounterOK, ClaimsOK
  <2>2. ClaimOK(c)'
    <3>1. used[c] \in Nat /\ Limit \in Nat
      BY Types
    <3>2. ClaimOK(c)
      BY DEF CounterOK, ClaimsOK
    <3>3. CASE used[c] = 0
      BY <3>1, <3>3 DEF ClaimOK
    <3>4. CASE used[c] # 0 /\ Bucket(c)' = Bucket(c) /\ pc[c] \in Active
      BY <3>1, <3>2, <3>4 DEF ClaimOK, Buckets
    <3>5. QED
      BY <3>3, <3>4
  <2>3. QED
    BY <2>1, <2>2
<1>2. \A b \in Buckets : PositionsOK(b) => PositionsOK(b)'
  BY ChargedKept, PositionsKept
<1>3. Buckets' = Buckets
  BY DEF Buckets
<1>4. QED
  BY <1>1, <1>2, <1>3 DEF CounterOK, ClaimsOK, resetVars

\* A transaction that rolls back gives its claim back.
LEMMA CeilingRaise ==
    ASSUME IInv, CounterOK, NEW c \in Calls, pc[c] \in Active, Raise(c), UNCHANGED resetVars
    PROVE  CounterOK'
<1>1. /\ OnlyCall(c) /\ ~Committed(c) /\ ~Committed(c)'
      /\ used'[c] = 0 /\ outcome'[c] = None /\ pc'[c] = "raised"
  BY Types DEF Raise, OnlyCall, SameCall, Committed, Active
<1>2. /\ counter' = counter
      /\ \A b \in Buckets : bucketLock'[b] = IF bucketLock[b] = c THEN Free ELSE bucketLock[b]
  BY Types DEF Raise, tables, Released
<1>3. \A d \in Calls \ {c} : ClaimOK(d)'
  <2>1. ASSUME NEW d \in Calls \ {c}, used[d] > 0, pc[d] \in Active
        PROVE  bucketLock'[Bucket(d)] = bucketLock[Bucket(d)]
    BY <1>2, <2>1 DEF CounterOK, ClaimsOK, ClaimOK
  <2>2. QED
    BY <1>1, <1>2, <2>1, ClaimKept DEF OnlyCall, CounterOK, ClaimsOK
<1>4. ClaimOK(c)'
  BY <1>1, Types DEF ClaimOK, Active
<1>5. \A b \in Buckets : PositionsOK(b) => PositionsOK(b)'
  BY <1>1, <1>2, ChargedKept, PositionsKept
<1>6. \A b \in Buckets : bucketLock'[b] = Resetter => bucketLock[b] = Resetter
  BY <1>2, StoreAssumption
<1>7. Buckets' = Buckets
  BY DEF Buckets
<1>8. QED
  BY <1>3, <1>4, <1>5, <1>6, <1>7 DEF CounterOK, ClaimsOK, resetVars

\* The upsert: the call takes the bucket's row and the position after the
\* committed ones, and is refused exactly when that is past the limit.
LEMMA CeilingClaim ==
    ASSUME IInv, CounterOK, NEW c \in Calls, ConsumeQuota(c), UNCHANGED resetVars
    PROVE  CounterOK'
<1> DEFINE b == Bucket(c)
           n == counter[b] + 1
<1>1. /\ pc[c] = "quota" /\ bucketLock[b] = Free
      /\ used[c] = 0 /\ outcome[c] = None
      /\ req[c] \in Requests /\ Verdict(c).decision = "allowed"
  BY DEF ConsumeQuota, IInv, CallsOK, CallOK
<1>2. b \in Buckets
  BY <1>1, BucketKnown
<1>3. n \in Nat /\ n > 0 /\ Limit \in Nat
  BY <1>2, Types
<1>4. /\ OnlyCall(c) /\ ~Committed(c) /\ ~Committed(c)' /\ counter' = counter
  BY BeforeCommit
<1>5. /\ Bucket(c)' = b
      /\ used'[c] = n
      /\ \A d \in Buckets : bucketLock'[d] = IF d = b THEN c ELSE bucketLock[d]
  BY <1>2, Types DEF ConsumeQuota, Bucket, Subject
<1>6. /\ pc'[c] \in Active
      /\ n > Limit <=> outcome'[c] # None /\ outcome'[c].reason = "rate_limited"
  <2>1. CASE n > Limit
    <3>1. /\ pc'[c] = "commit"
          /\ outcome'[c] = Denied("rate_limited")
      BY <2>1, Types DEF ConsumeQuota, Decide
    <3>2. Denied("rate_limited") # None /\ Denied("rate_limited").reason = "rate_limited"
      BY RefusalIsOutcome, EffectsAssumption DEF DENIAL_REASONS
    <3>3. QED
      BY <2>1, <3>1, <3>2 DEF Active
  <2>2. CASE ~(n > Limit)
    <3>1. Route(c, req[c].tool)
      BY <2>2 DEF ConsumeQuota
    <3>2. \/ pc'[c] = "commit" /\ outcome'[c] = Allowed
          \/ pc'[c] = "lookup" /\ outcome'[c] = None
      BY <1>1, <3>1, Types DEF Route, Decide, GoTo
    <3>3. Allowed.reason # "rate_limited"
      BY NoneAssumption DEF Allowed, DENIAL_REASONS
    <3>4. QED
      BY <2>2, <3>2, <3>3 DEF Active
  <2>3. QED
    BY <2>1, <2>2
<1> HIDE DEF b, n
<1>7. ClaimOK(c)'
  <2>1. Buckets' = Buckets
    BY DEF Buckets
  <2>2. bucketLock'[b] = c /\ n = counter'[b] + 1
    BY <1>2, <1>4, <1>5 DEF n
  <2>3. QED
    BY <1>2, <1>3, <1>5, <1>6, <2>1, <2>2 DEF ClaimOK
<1>8. \A d \in Calls \ {c} : ClaimOK(d)'
  <2>1. ASSUME NEW d \in Calls \ {c}, used[d] > 0, pc[d] \in Active
        PROVE  bucketLock'[Bucket(d)] = bucketLock[Bucket(d)]
    <3>1. Bucket(d) \in Buckets /\ bucketLock[Bucket(d)] = d
      BY <2>1 DEF CounterOK, ClaimsOK, ClaimOK
    <3>2. Bucket(d) # b
      BY <1>1, <3>1, StoreAssumption DEF b
    <3>3. QED
      BY <1>5, <3>1, <3>2
  <2>2. QED
    BY <1>4, <2>1, ClaimKept DEF OnlyCall, CounterOK, ClaimsOK
<1>9. \A d \in Buckets : PositionsOK(d) => PositionsOK(d)'
  BY <1>4, ChargedKept, PositionsKept
<1>10. \A d \in Buckets : bucketLock'[d] = Resetter => bucketLock[d] = Resetter
  BY <1>5, StoreAssumption
<1>11. Buckets' = Buckets
  BY DEF Buckets
<1>12. QED
  BY <1>7, <1>8, <1>9, <1>10, <1>11 DEF CounterOK, ClaimsOK, resetVars

\* The commit: the call's position is the bucket's new count.
LEMMA CeilingCommit ==
    ASSUME IInv, CounterOK, NEW c \in Calls, Commit(c) \/ CommitReplyLost(c), UNCHANGED resetVars
    PROVE  CounterOK'
<1>1. /\ OnlyCall(c)
      /\ pc[c] = "commit" /\ pc'[c] \in {"returned", "lost"}
      /\ UNCHANGED <<req, moment, used, found, outcome>>
  BY AtCommit DEF Committed
<1>2. \A d \in Calls : Bucket(d)' = Bucket(d)
  BY <1>1 DEF Bucket, Subject
<1>3. /\ used[c] \in Nat
      /\ used[c] > 0 => /\ Bucket(c) \in Buckets
                        /\ bucketLock[Bucket(c)] = c
                        /\ used[c] = counter[Bucket(c)] + 1
  BY <1>1, Types DEF CounterOK, ClaimsOK, ClaimOK, Active
<1>4. \A b \in Buckets :
        counter'[b] = IF used[c] > 0 /\ b = Bucket(c) THEN used[c] ELSE counter[b]
  BY Types, AtCommit DEF Apply
<1>5. \A b \in Buckets : bucketLock'[b] = IF bucketLock[b] = c THEN Free ELSE bucketLock[b]
  BY Types, AtCommit DEF Apply, Released
<1>6. ASSUME NEW d \in Calls \ {c}, used[d] > 0, pc[d] \in Active
      PROVE  /\ bucketLock'[Bucket(d)] = bucketLock[Bucket(d)]
             /\ counter'[Bucket(d)] = counter[Bucket(d)]
  <2>1. Bucket(d) \in Buckets /\ bucketLock[Bucket(d)] = d
    BY <1>6 DEF CounterOK, ClaimsOK, ClaimOK
  <2>2. QED
    BY <1>3, <1>4, <1>5, <2>1
<1>7. \A d \in Calls \ {c} : ClaimOK(d)'
  BY <1>1, <1>6, ClaimKept DEF OnlyCall, CounterOK, ClaimsOK
<1>8. ClaimOK(c)'
  <2>1. ClaimOK(c) /\ Buckets' = Buckets
    BY DEF CounterOK, ClaimsOK, Buckets
  <2>2. QED
    BY <1>1, <1>2, <2>1 DEF ClaimOK, Active
<1>9. ASSUME NEW b \in Buckets, PositionsOK(b)
      PROVE  PositionsOK(b)'
  <2>1. /\ c \notin Charged(b)
        /\ Charged(b)' = IF used[c] > 0 /\ b = Bucket(c) THEN Charged(b) \cup {c} ELSE Charged(b)
    BY <1>1, <1>2 DEF OnlyCall, SameCall, Charged
  <2>2. CASE ~(used[c] > 0 /\ b = Bucket(c))
    BY <1>1, <1>4, <1>9, <2>1, <2>2, PositionsKept
  <2>3. CASE used[c] > 0 /\ b = Bucket(c)
    <3>1. /\ counter[b] \in Nat /\ counter'[b] = counter[b] + 1 /\ used[c] = counter[b] + 1
          /\ Charged(b)' = Charged(b) \cup {c}
          /\ used' = used
      BY <1>1, <1>3, <1>4, <2>1, <2>3, Types
    <3>2. \A d \in Charged(b)' : used'[d] \in 1..counter'[b]
      BY <1>9, <3>1 DEF PositionsOK
    <3>3. \A d, e \in Charged(b)' : used'[d] = used'[e] => d = e
      <4>1. \A d \in Charged(b) : used[d] \in 1..counter[b]
        BY <1>9 DEF PositionsOK
      <4>2. \A d \in Charged(b) : used[d] # used[c]
        BY <3>1, <4>1
      <4>3. \A d, e \in Charged(b) : used[d] = used[e] => d = e
        BY <1>9 DEF PositionsOK
      <4>4. QED
        BY <3>1, <4>2, <4>3
    <3>4. \A n \in 1..counter'[b] : \E d \in Charged(b)' : used'[d] = n
      BY <1>9, <3>1 DEF PositionsOK
    <3>5. QED
      BY <3>2, <3>3, <3>4 DEF PositionsOK
  <2>4. QED
    BY <2>2, <2>3
<1>10. \A b \in Buckets : bucketLock'[b] = Resetter => bucketLock[b] = Resetter
  BY <1>5, StoreAssumption
<1>11. Buckets' = Buckets
  BY DEF Buckets
<1>12. QED
  BY <1>7, <1>8, <1>9, <1>10, <1>11 DEF CounterOK, ClaimsOK, resetVars

LEMMA CeilingCallStep ==
    ASSUME IInv, CounterOK, NEW c \in Calls, CallStep(c)
    PROVE  CounterOK'
<1>1. UNCHANGED resetVars
  BY CallSteps
<1>2. Limit \in Nat /\ used[c] \in Nat /\ ClaimOK(c) /\ CallOK(c)
  BY Types DEF IInv, CallsOK, CounterOK, ClaimsOK
<1>3. ASSUME NEW r \in Requests, CallTool(c, r)
      PROVE  CounterOK'
  <2>1. /\ OnlyCall(c) /\ ~Committed(c) /\ ~Committed(c)'
        /\ UNCHANGED <<counter, bucketLock>>
    BY <1>3, BeforeCommit DEF CallTool, locks
  <2>2. pc[c] = "idle" /\ used[c] = 0 /\ used'[c] = 0 /\ outcome[c] = None
    BY <1>2, <1>3 DEF CallTool, CallOK
  <2>3. outcome'[c] # None => outcome'[c].reason # "rate_limited"
    <3>1. \/ outcome'[c] = Denied(VerdictOn(r, clock).reason)
          \/ outcome'[c] = Allowed
          \/ outcome'[c] = None
      BY <1>3, <2>2, Types DEF CallTool, Decide, Route, GoTo
    <3>2. Denied(VerdictOn(r, clock).reason).reason # "rate_limited"
      BY VerdictTypes, VerdictIsOfTheToken, RefusalIsOutcome
    <3>3. Allowed.reason # "rate_limited"
      BY NoneAssumption DEF Allowed, DENIAL_REASONS
    <3>4. QED
      BY <3>1, <3>2, <3>3
  <2>4. QED
    BY <1>1, <1>2, <2>1, <2>2, <2>3, CeilingQuiet
<1>4. CASE Lookup(c) \/ Consume(c) \/ InsertEffect(c)
  <2>1. /\ OnlyCall(c) /\ ~Committed(c) /\ ~Committed(c)' /\ counter' = counter
    BY <1>4, BeforeCommit
  <2>2. pc[c] \in Active
    BY <1>4 DEF Lookup, Consume, InsertEffect, Active
  <2>3. CASE Raise(c)
    BY <1>1, <2>2, <2>3, CeilingRaise
  <2>4. CASE ~Raise(c)
    <3>1. UNCHANGED <<bucketLock, req, moment, used>>
      BY <1>4, <2>4 DEF Lookup, Consume, InsertEffect, locks
    <3>2. outcome[c] = None
      BY <1>2, <1>4 DEF Lookup, Consume, InsertEffect, CallOK
    <3>3. used[c] <= Limit
      BY <1>2, <3>2 DEF ClaimOK
    <3>4. \/ outcome'[c] = None
          \/ \E reason \in DENIAL_REASONS \ {"rate_limited"} : outcome'[c] = Denied(reason)
          \/ outcome'[c] = DeniedFor("approval_already_consumed", found[c])
          \/ outcome'[c] = AllowedBy(found[c], c)
      BY <1>4, <2>4, <3>2, Types
      DEF Lookup, Consume, InsertEffect, Decide, GoTo, DENIAL_REASONS
    <3>5. /\ DeniedFor("approval_already_consumed", found[c]).reason # "rate_limited"
          /\ AllowedBy(found[c], c).reason # "rate_limited"
          /\ \A reason \in DENIAL_REASONS \ {"rate_limited"} : Denied(reason).reason # "rate_limited"
      BY NoneAssumption DEF DeniedFor, Denied, AllowedBy, Allowed, DENIAL_REASONS
    <3>6. Bucket(c)' = Bucket(c)
      BY <3>1 DEF Bucket, Subject
    <3>7. QED
      BY <1>1, <2>1, <2>2, <3>1, <3>3, <3>4, <3>5, <3>6, CeilingQuiet
  <2>5. QED
    BY <2>3, <2>4
<1>5. CASE ConsumeQuota(c)
  BY <1>1, <1>5, CeilingClaim
<1>6. CASE Fail(c)
  BY <1>1, <1>6, CeilingRaise DEF Fail
<1>7. CASE Commit(c) \/ CommitReplyLost(c)
  BY <1>1, <1>7, CeilingCommit
<1>8. QED
  BY <1>3, <1>4, <1>5, <1>6, <1>7, CallSteps

-----------------------------------------------------------------------------
(* The reset.                                                              *)

\* A step that moves no call, and leaves the rows the calls hold, and their
\* counters, alone.
LEMMA ClaimsLeftAlone ==
    ASSUME ClaimsOK, UNCHANGED callVars,
           \A b \in Buckets : bucketLock[b] \in Calls => /\ bucketLock'[b] = bucketLock[b]
                                                         /\ counter'[b] = counter[b]
    PROVE  ClaimsOK'
<1>1. \A d \in Calls : SameCall(d)
  BY DEF callVars, SameCall
<1>2. ASSUME NEW d \in Calls, used[d] > 0, pc[d] \in Active
      PROVE  /\ bucketLock'[Bucket(d)] = bucketLock[Bucket(d)]
             /\ counter'[Bucket(d)] = counter[Bucket(d)]
  BY <1>2 DEF ClaimsOK, ClaimOK
<1>3. QED
  BY <1>1, <1>2, ClaimKept DEF ClaimsOK

\* The reset takes a counter's row when nobody holds it, and every statement of
\* it is after the first reset began.
LEMMA CeilingReset ==
    ASSUME IInv, CounterOK, OperatorStep
    PROVE  CounterOK'
<1>1. /\ Free # Resetter /\ Free \notin Calls /\ Resetter \notin Calls
      /\ resets \in Nat
      /\ \A b \in Buckets : bucketLock[b] = Resetter => resetPc = "lockCounters"
      /\ resets = 0 => resetPc = "idle"
      /\ ClaimsOK
      /\ UNCHANGED callVars
  BY StoreAssumption, Types DEF CounterOK, OperatorStep
<1>2. resets' # 0
  BY <1>1
  DEF OperatorStep, ResetBegins, ResetEffects, ResetStep, ResetAudit, ResetApprovals,
      ResetLockApproval, ResetForeignKey, ResetAbort, ResetCounters, ResetLockCounter,
      ResetCommit, ResetFail
<1>3. CASE ResetAbort \/ ResetCommit
  <2>1. \A b \in Buckets : bucketLock'[b] = IF bucketLock[b] = Resetter THEN Free ELSE bucketLock[b]
    BY <1>3, Types DEF ResetAbort, ResetCommit, Released
  <2>2. \A b \in Buckets : bucketLock[b] \in Calls => counter'[b] = counter[b]
    BY <1>1, <1>3 DEF ResetAbort, ResetCommit, tables
  <2>3. ClaimsOK'
    BY <1>1, <2>1, <2>2, ClaimsLeftAlone
  <2>4. Buckets' = Buckets
    BY DEF Buckets
  <2>5. QED
    BY <1>1, <1>2, <2>1, <2>3, <2>4 DEF CounterOK
<1>4. CASE \E b \in Buckets : ResetLockCounter(b)
  <2>1. PICK b \in Buckets : ResetLockCounter(b)
    BY <1>4
  <2>2. /\ bucketLock[b] = Free /\ counter' = counter
        /\ resetPc = "lockCounters" /\ resetPc' = "lockCounters"
        /\ \A d \in Buckets : bucketLock'[d] = IF d = b THEN Resetter ELSE bucketLock[d]
    BY <2>1, Types DEF ResetLockCounter, tables
  <2>3. ClaimsOK'
    BY <1>1, <2>2, ClaimsLeftAlone
  <2>4. QED
    BY <1>2, <2>2, <2>3 DEF CounterOK
<1>5. CASE \/ ResetBegins
           \/ ResetAudit
           \/ ResetApprovals
           \/ \E a \in ApprovalIds : ResetLockApproval(a)
           \/ ResetForeignKey /\ ~ResetAbort
           \/ ResetCounters
  <2>1. bucketLock' = bucketLock /\ counter' = counter /\ resetPc # "lockCounters"
    BY <1>5
    DEF ResetBegins, ResetEffects, ResetAudit, ResetApprovals, ResetLockApproval,
        ResetForeignKey, ResetCounters, tables, locks
  <2>2. ClaimsOK'
    BY <1>1, <2>1, ClaimsLeftAlone
  <2>3. Buckets' = Buckets
    BY DEF Buckets
  <2>4. QED
    BY <1>1, <1>2, <2>1, <2>2, <2>3 DEF CounterOK
<1>6. QED
  BY <1>3, <1>4, <1>5 DEF OperatorStep, ResetStep, ResetFail

\* A step that moves neither the calls, the counters nor the reset.
LEMMA CeilingElsewhere ==
    ASSUME CounterOK, UNCHANGED <<callVars, resetVars, counter, bucketLock>>
    PROVE  CounterOK'
<1>1. ClaimsOK'
  BY ClaimsLeftAlone DEF CounterOK
<1>2. Buckets' = Buckets /\ \A b : Charged(b)' = Charged(b)
  BY DEF Buckets, Charged, Bucket, Subject, callVars
<1>3. \A b \in Buckets : PositionsOK(b) => PositionsOK(b)'
  BY <1>2, PositionsKept DEF callVars
<1>4. QED
  BY <1>1, <1>2, <1>3 DEF CounterOK, resetVars

LEMMA CeilingInit == Init => CounterOK
<1>1. SUFFICES ASSUME Init PROVE CounterOK
  OBVIOUS
<1>2. \A c \in Calls : ClaimOK(c)
  BY <1>1, EffectsAssumption DEF Init, EffectsInit, ClaimOK
<1>3. ASSUME NEW b \in Buckets
      PROVE  PositionsOK(b)
  <2>1. counter[b] = 0 /\ Charged(b) = {}
    BY <1>1, <1>3 DEF Init, StoreInit, EffectsInit, Charged
  <2>2. QED
    BY <2>1 DEF PositionsOK
<1>4. QED
  BY <1>1, <1>2, <1>3, StoreAssumption DEF Init, StoreInit, ConsoleInit, CounterOK, ClaimsOK

LEMMA CeilingNext ==
    ASSUME IInv, CounterOK, [Next]_vars
    PROVE  CounterOK'
<1>1. CASE GrantStep
  BY <1>1, CeilingElsewhere DEF GrantStep, Grant, locks
<1>2. CASE UNCHANGED <<tables, locks, callVars, resetVars>>
  BY <1>2, CeilingElsewhere DEF tables, locks
<1>3. QED
  BY <1>1, <1>2, NextCases, CeilingCallStep, CeilingReset

-----------------------------------------------------------------------------
(* Counting.                                                               *)

\* A set whose elements have the positions 1..n, each its own and each taken,
\* has n elements.
LEMMA CountOnto ==
    ASSUME NEW S, NEW n \in Nat, NEW f \in [S -> 1..n],
           \A c, d \in S : f[c] = f[d] => c = d,
           \A i \in 1..n : \E c \in S : f[c] = i
    PROVE  IsFiniteSet(S) /\ Cardinality(S) = n
<1>1. f \in Injection(S, 1..n)
  BY DEF Injection, IsInjective
<1>2. f \in Surjection(S, 1..n)
  BY DEF Surjection
<1>3. IsFiniteSet(1..n) /\ Cardinality(1..n) = n
  BY FS_Interval
<1>4. QED
  BY <1>1, <1>2, <1>3, FS_Injection

\* A set whose elements have distinct positions in 1..n has at most n elements.
LEMMA CountInto ==
    ASSUME NEW S, NEW n \in Nat, NEW f \in [S -> 1..n],
           \A c, d \in S : f[c] = f[d] => c = d
    PROVE  IsFiniteSet(S) /\ Cardinality(S) <= n
<1>1. f \in Injection(S, 1..n)
  BY DEF Injection, IsInjective
<1>2. IsFiniteSet(1..n) /\ Cardinality(1..n) = n
  BY FS_Interval
<1>3. QED
  BY <1>1, <1>2, FS_Injection

\* Until the first reset, the committed claims of a bucket are as many as its
\* counter says.
LEMMA CountCharged ==
    ASSUME IInv, CounterOK, resets = 0, NEW b \in Buckets
    PROVE  counter[b] = Cardinality(Charged(b))
<1>1. PositionsOK(b) /\ counter[b] \in Nat
  BY Types DEF CounterOK
<1> DEFINE f == [c \in Charged(b) |-> used[c]]
<1>2. f \in [Charged(b) -> 1..counter[b]]
  BY <1>1 DEF PositionsOK
<1>3. /\ \A c, d \in Charged(b) : f[c] = f[d] => c = d
      /\ \A n \in 1..counter[b] : \E c \in Charged(b) : f[c] = n
  BY <1>1 DEF PositionsOK
<1> HIDE DEF f
<1>4. QED
  BY <1>1, <1>2, <1>3, CountOnto

\* Let through is: with a position within the limit.
LEMMA LetThroughIs ==
    ASSUME IInv, CounterOK, NEW b
    PROVE  LetThrough(b) = {c \in Calls : used[c] \in 1..Limit /\ Bucket(c) = b}
<1>1. \A c \in Calls : used[c] \in Nat /\ Limit \in Nat /\ ClaimOK(c)
  BY Types DEF CounterOK, ClaimsOK
<1>2. QED
  BY <1>1 DEF LetThrough, ClaimOK

\* Until the first reset, no two calls of a bucket have the same position,
\* whether they have committed or not.
LEMMA PositionsDiffer ==
    ASSUME IInv, CounterOK, resets = 0, NEW c \in Calls, NEW d \in Calls,
           used[c] > 0, used[c] = used[d], Bucket(c) = Bucket(d)
    PROVE  c = d
<1> DEFINE b == Bucket(c)
<1>1. /\ used[c] \in Nat
      /\ ClaimOK(c) /\ ClaimOK(d) /\ CallOK(c) /\ CallOK(d)
      /\ b \in Buckets
  BY Types DEF IInv, CallsOK, CounterOK, ClaimsOK, ClaimOK
<1>2. PositionsOK(b) /\ counter[b] \in Nat
  BY <1>1, Types DEF CounterOK
<1>3. /\ pc[c] \in Active \/ c \in Charged(b)
      /\ pc[d] \in Active \/ d \in Charged(b)
  BY <1>1, Types DEF CallOK, Charged, Active, Ended
<1>4. \A e \in Charged(b) : used[e] <= counter[b]
  BY <1>2 DEF PositionsOK
<1>5. CASE pc[c] \in Active /\ pc[d] \in Active
  BY <1>1, <1>5 DEF ClaimOK
<1>6. CASE c \in Charged(b) /\ d \in Charged(b)
  BY <1>2, <1>6 DEF PositionsOK
<1>7. CASE pc[c] \in Active /\ d \in Charged(b)
  BY <1>1, <1>2, <1>4, <1>7 DEF ClaimOK
<1>8. CASE c \in Charged(b) /\ pc[d] \in Active
  BY <1>1, <1>2, <1>4, <1>8 DEF ClaimOK
<1>9. QED
  BY <1>3, <1>5, <1>6, <1>7, <1>8

LEMMA CountLetThrough ==
    ASSUME IInv, CounterOK, resets = 0, NEW b
    PROVE  IsFiniteSet(LetThrough(b)) /\ Cardinality(LetThrough(b)) <= Limit
<1> DEFINE S == LetThrough(b)
           f == [c \in S |-> used[c]]
<1>1. S = {c \in Calls : used[c] \in 1..Limit /\ Bucket(c) = b}
  BY LetThroughIs
<1> HIDE DEF S
<1>2. f \in [S -> 1..Limit]
  BY <1>1
<1>3. \A c, d \in S : f[c] = f[d] => c = d
  BY <1>1, Types, PositionsDiffer
<1> HIDE DEF f
<1>4. IsFiniteSet(S) /\ Cardinality(S) <= Limit
  BY <1>2, <1>3, Types, CountInto
<1>5. QED
  BY <1>4 DEF S

\* A call that was refused by the ceiling came after a limit's worth of calls
\* that were let through and have committed.
LEMMA CountAhead ==
    ASSUME IInv, CounterOK, resets = 0, NEW c \in Calls,
           outcome[c] # None, outcome[c].reason = "rate_limited"
    PROVE  Cardinality(Charged(Bucket(c)) \cap LetThrough(Bucket(c))) = Limit
<1> DEFINE b == Bucket(c)
           S == Charged(b) \cap LetThrough(b)
           f == [d \in S |-> used[d]]
<1>1. used[c] \in Nat /\ Limit \in Nat /\ used[c] > Limit /\ used[c] > 0
  BY Types DEF CounterOK, ClaimsOK, ClaimOK
<1>2. b \in Buckets
  BY <1>1 DEF CounterOK, ClaimsOK, ClaimOK
<1>3. PositionsOK(b) /\ counter[b] \in Nat
  BY <1>2, Types DEF CounterOK
<1>4. counter[b] >= Limit
  <2>1. CASE pc[c] \in Active
    <3>1. used[c] = counter[b] + 1
      BY <1>1, <2>1 DEF CounterOK, ClaimsOK, ClaimOK
    <3>2. QED
      BY <1>1, <1>3, <3>1
  <2>2. CASE c \in Charged(b)
    BY <1>1, <1>3, <2>2 DEF PositionsOK
  <2>3. QED
    BY <1>1, <2>1, <2>2, Types DEF IInv, CallsOK, CallOK, Charged, Active, Ended
<1>5. S = {d \in Charged(b) : used[d] <= Limit}
  <2>1. LetThrough(b) = {d \in Calls : used[d] \in 1..Limit /\ Bucket(d) = b}
    BY LetThroughIs
  <2>2. \A d \in Charged(b) : d \in Calls /\ used[d] \in Nat /\ used[d] > 0 /\ Bucket(d) = b
    BY Types DEF Charged
  <2>3. QED
    BY <1>1, <2>1, <2>2
<1> HIDE DEF S, b
<1>6. f \in [S -> 1..Limit]
  BY <1>1, <1>3, <1>5 DEF PositionsOK
<1>7. /\ \A d, e \in S : f[d] = f[e] => d = e
      /\ \A n \in 1..Limit : \E d \in S : f[d] = n
  BY <1>1, <1>3, <1>4, <1>5 DEF PositionsOK
<1> HIDE DEF f
<1>8. Cardinality(S) = Limit
  BY <1>1, <1>6, <1>7, CountOnto
<1>9. QED
  BY <1>8 DEF S, b

-----------------------------------------------------------------------------
(* Windows.                                                                *)

\* A moment within a window's length of t is in t's window or in the next.
LEMMA TwoWindows ==
    ASSUME NEW t \in Nat, NEW m \in Nat, t <= m, m < t + WindowSeconds
    PROVE  WindowStart(m) \in {WindowStart(t), WindowStart(t) + WindowSeconds}
<1> DEFINE W == WindowSeconds
           p == t \div W
           q == m \div W
<1>1. W \in Nat \ {0}
  BY StoreAssumption
<1> HIDE DEF W
<1>2. /\ p \in Int /\ q \in Int
      /\ t % W \in 0..(W - 1) /\ m % W \in 0..(W - 1)
      /\ t = W * p + (t % W) /\ m = W * q + (m % W)
  BY <1>1
<1> HIDE DEF p, q
<1>3. WindowStart(t) = W * p /\ WindowStart(m) = W * q
  <2>1. W * p \in Int /\ W * q \in Int /\ t % W \in Int /\ m % W \in Int
    BY <1>1, <1>2
  <2>2. WindowStart(t) = t - (t % W) /\ WindowStart(m) = m - (m % W)
    BY DEF WindowStart, W
  <2>3. QED
    BY <1>2, <2>1, <2>2
<1>4. ~(q < p)
  <2>1. SUFFICES ASSUME q < p PROVE FALSE
    OBVIOUS
  <2>2. W * q + W <= W * p
    BY <1>1, <1>2, <2>1
  <2>3. W * p \in Int /\ W * q \in Int
    BY <1>1, <1>2
  <2>4. QED
    BY <1>1, <1>2, <2>2, <2>3
<1>5. ~(p + 1 < q)
  <2>1. SUFFICES ASSUME p + 1 < q PROVE FALSE
    OBVIOUS
  <2>2. W * (p + 1) + W <= W * q /\ W * (p + 1) = W * p + W
    BY <1>1, <1>2, <2>1
  <2>3. W * p \in Int /\ W * q \in Int
    BY <1>1, <1>2
  <2>4. QED
    BY <1>1, <1>2, <2>2, <2>3 DEF W
<1>6. q = p \/ q = p + 1
  BY <1>2, <1>4, <1>5
<1>7. W * (p + 1) = W * p + W
  BY <1>1, <1>2
<1>8. QED
  BY <1>3, <1>6, <1>7 DEF W

LEMMA CountAnyStretch ==
    ASSUME IInv, CounterOK, resets = 0, NEW s, NEW tool, NEW t \in Nat
    PROVE  Cardinality({c \in Calls : \E w \in {WindowStart(u) : u \in 0..MaxTime} :
                                         /\ c \in LetThrough(<<s, tool, w>>)
                                         /\ t <= moment[c]
                                         /\ moment[c] < t + WindowSeconds}) <= 2 * Limit
<1> DEFINE S == {c \in Calls : \E w \in {WindowStart(u) : u \in 0..MaxTime} :
                                 /\ c \in LetThrough(<<s, tool, w>>)
                                 /\ t <= moment[c]
                                 /\ moment[c] < t + WindowSeconds}
           A == LetThrough(<<s, tool, WindowStart(t)>>)
           B == LetThrough(<<s, tool, WindowStart(t) + WindowSeconds>>)
<1>1. S \subseteq A \cup B
  <2>1. SUFFICES ASSUME NEW c \in S PROVE c \in A \cup B
    OBVIOUS
  <2>2. PICK w : /\ c \in LetThrough(<<s, tool, w>>)
                 /\ t <= moment[c]
                 /\ moment[c] < t + WindowSeconds
    OBVIOUS
  <2>3. c \in Calls /\ Bucket(c) = <<s, tool, w>>
    BY <2>2 DEF LetThrough
  <2>4. w = WindowStart(moment[c])
    BY <2>3 DEF Bucket
  <2>5. moment[c] \in Nat
    BY <2>3, Types, StoreAssumption
  <2>6. w \in {WindowStart(t), WindowStart(t) + WindowSeconds}
    BY <2>2, <2>4, <2>5, TwoWindows
  <2>7. QED
    BY <2>2, <2>6
<1>2. /\ IsFiniteSet(A) /\ Cardinality(A) <= Limit
      /\ IsFiniteSet(B) /\ Cardinality(B) <= Limit
  BY CountLetThrough
<1> HIDE DEF S, A, B
<1>3. /\ IsFiniteSet(A \cup B)
      /\ Cardinality(A \cup B) = Cardinality(A) + Cardinality(B) - Cardinality(A \cap B)
      /\ Cardinality(A) \in Nat /\ Cardinality(B) \in Nat /\ Cardinality(A \cap B) \in Nat
  BY <1>2, FS_Union, FS_CardinalityType, FS_Intersection
<1>4. IsFiniteSet(S) /\ Cardinality(S) <= Cardinality(A \cup B) /\ Cardinality(S) \in Nat
  BY <1>1, <1>3, FS_Subset, FS_CardinalityType
<1>5. Limit \in Nat
  BY Types
<1>6. Cardinality(S) <= 2 * Limit
  BY <1>2, <1>3, <1>4, <1>5
<1>7. QED
  BY <1>6 DEF S

-----------------------------------------------------------------------------
\* What a call holds of a bucket, and what its counter says, agree at every
\* step: the inductive invariant behind the properties of the rate limit.
THEOREM CounterInvariant == Spec => []CounterOK
<1>1. Init => CounterOK
  BY CeilingInit
<1>2. IInv /\ CounterOK /\ [Next]_vars => CounterOK'
  BY CeilingNext
<1>3. QED
  BY <1>1, <1>2, BrokerInvariant, PTL DEF Spec

\* Everything that is invariant of the broker, in one piece.
THEOREM FullInvariant == Spec => []FullInv
<1>1. Init => AuditOK
  BY AuditInit
<1>2. IInv /\ AuditOK /\ [Next]_vars => AuditOK'
  BY AuditNext
<1>3. IInv /\ AuditOK /\ CounterOK => FullInv
  BY DEF FullInv
<1>4. QED
  BY <1>1, <1>2, <1>3, BrokerInvariant, CounterInvariant, PTL DEF Spec

\* However many calls race, no fixed window lets more than the limit through,
\* until an operator's reset deletes its counter (consume_quota's upsert).
THEOREM WindowKeepsItsLimit == Spec => [](resets = 0 => AtMostLimitPerWindow)
<1>1. IInv /\ CounterOK => (resets = 0 => AtMostLimitPerWindow)
  BY CountLetThrough DEF AtMostLimitPerWindow
<1>2. QED
  BY <1>1, BrokerInvariant, CounterInvariant, PTL

\* The counter is exactly the committed claims: a call that rolled back spent
\* nothing and no committed call went uncounted, until a reset deletes the row
\* (the claim shares call_tool's transaction).
THEOREM CounterCountsCommits == Spec => [](resets = 0 => CounterIsCommittedClaims)
<1>1. IInv /\ CounterOK => (resets = 0 => CounterIsCommittedClaims)
  BY CountCharged DEF CounterIsCommittedClaims
<1>2. QED
  BY <1>1, BrokerInvariant, CounterInvariant, PTL

\* A call is rate limited only when a limit's worth of calls, all committed,
\* were let through in its window: no rival that later rolls back can make
\* another call be refused (the upsert waits for the row's holder).
THEOREM OnlyFullWindowsRefuse == Spec => [](resets = 0 => RateLimitedOnlyPastCeiling)
<1>1. IInv /\ CounterOK => (resets = 0 => RateLimitedOnlyPastCeiling)
  BY CountAhead DEF RateLimitedOnlyPastCeiling
<1>2. QED
  BY <1>1, BrokerInvariant, CounterInvariant, PTL

\* In any stretch of a window's length one subject gets at most twice the limit
\* through to one tool (window_start aligns the windows, so that a stretch
\* meets two of them at most).
THEOREM AnyStretchTwiceLimit == Spec => [](resets = 0 => AtMostTwiceLimit)
<1>1. \A t \in 0..MaxTime : t \in Nat
  BY StoreAssumption
<1>2. IInv /\ CounterOK => (resets = 0 => AtMostTwiceLimit)
  BY <1>1, CountAnyStretch DEF AtMostTwiceLimit
<1>3. QED
  BY <1>2, BrokerInvariant, CounterInvariant, PTL
===============================================================================
