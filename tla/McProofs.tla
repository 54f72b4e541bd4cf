------------------------------- MODULE McProofs -------------------------------
(***************************************************************************)
(* The MCP server implements the broker, so every theorem about the broker *)
(* is one about the server; its two doors agree; what read_approval and    *)
(* the console tell of an approval can be relied on; and the marks of the  *)
(* audit screen are true: for every set of requests, tokens and moments.   *)
(***************************************************************************)
EXTENDS ConsoleReads, BrokerProofs

\* A request past the transport's door carries a token that passed there, and
\* a call_tool invocation is the one its message asks for, made no earlier.
RequestOK(c) ==
    /\ stage[c] # "idle" => /\ message[c] \in Messages
                            /\ verified[c] \in Nat
                            /\ verified[c] <= clock
    /\ stage[c] \in {"accepted", "called", "reading", "answered"} =>
         TransportRefusal(message[c].token, verified[c]) = None
    /\ pc[c] # "idle" <=> stage[c] = "called"
    /\ pc[c] # "idle" => /\ req[c] = CallOf(message[c])
                         /\ message[c].tool \in Tools
                         /\ moment[c] \in Nat
                         /\ verified[c] <= moment[c]

\* The trail holds, of a request, the row of the door that refused or judged it.
TrailOK(c) ==
    /\ refused[c] # None =>
         /\ stage[c] \in {"refused", "broken"}
         /\ refused[c] = TransportRefusal(message[c].token, verified[c])
    /\ audit[c] # None => pc[c] # "idle" /\ audit[c].subject = Verdict(c).subject
    /\ answer[c] # None => stage[c] = "answered"

McInv == clock \in Nat /\ \A c \in Calls : RequestOK(c) /\ TrailOK(c)

-----------------------------------------------------------------------------
(* Steps that are the broker's own.                                        *)

\* What a step of the broker does to a request that has, or has not, become a
\* call: the call keeps its request and its moment, and its audit row is its
\* verdict's.
BrokerKeeps(c) ==
    /\ pc'[c] = "idle" <=> pc[c] = "idle"
    /\ req'[c] = req[c]
    /\ moment'[c] = moment[c]
    /\ audit'[c] \in {audit[c], None} \/ (pc[c] # "idle" /\ audit'[c] = AuditOf(c))

LEMMA CallGoesOnKeeps ==
    ASSUME TypeOK, NEW c \in Calls, NEW d \in Calls,
           Step(c) \/ CommitReplyLost(c) \/ Fail(c)
    PROVE  BrokerKeeps(d) /\ clock' = clock
<1>1. /\ pc \in [Calls -> {"idle"} \cup Active \cup Ended]
      /\ audit \in [Calls -> AuditEvent \cup {None}]
  BY DEF TypeOK, EffectsTypeOK, StoreTypeOK
<1>2. ASSUME Raise(c), pc[c] # "idle" PROVE BrokerKeeps(d) /\ clock' = clock
  BY <1>1, <1>2 DEF Raise, BrokerKeeps, tables
<1>3. CASE ConsumeQuota(c)
  BY <1>1, <1>3 DEF ConsumeQuota, Route, Decide, GoTo, BrokerKeeps, tables
<1>4. CASE Lookup(c)
  <2>1. CASE Raise(c) /\ pc[c] = "lookup"
    BY <1>2, <2>1
  <2>2. CASE ~Raise(c)
    BY <1>1, <1>4, <2>2 DEF Lookup, Decide, GoTo, BrokerKeeps, tables
  <2>3. QED
    BY <1>4, <2>1, <2>2 DEF Lookup
<1>5. CASE Consume(c)
  BY <1>1, <1>5 DEF Consume, Decide, GoTo, BrokerKeeps, tables
<1>6. CASE InsertEffect(c)
  <2>1. CASE Raise(c) /\ pc[c] = "insert"
    BY <1>2, <2>1
  <2>2. CASE ~Raise(c)
    BY <1>1, <1>6, <2>2 DEF InsertEffect, Decide, BrokerKeeps, tables
  <2>3. QED
    BY <1>6, <2>1, <2>2 DEF InsertEffect
<1>7. CASE Commit(c) \/ CommitReplyLost(c)
  BY <1>1, <1>7 DEF Commit, CommitReplyLost, Apply, BrokerKeeps
<1>8. CASE Fail(c)
  BY <1>1, <1>2, <1>8 DEF Fail, Active
<1>9. QED
  BY <1>3, <1>4, <1>5, <1>6, <1>7, <1>8 DEF Step

LEMMA ResetKeeps ==
    ASSUME TypeOK, ResetBegins \/ ResetStep \/ ResetFail, UNCHANGED callVars
    PROVE  (\A d \in Calls : BrokerKeeps(d)) /\ clock' = clock
<1>1. \A d \in Calls : pc'[d] = pc[d] /\ req'[d] = req[d] /\ moment'[d] = moment[d]
  BY DEF callVars
<1>2. audit \in [Calls -> AuditEvent \cup {None}]
  BY DEF TypeOK, StoreTypeOK
<1>3. CASE ResetBegins \/ ResetFail
  BY <1>1, <1>3 DEF ResetBegins, ResetEffects, ResetFail, ResetAbort, BrokerKeeps, tables
<1>4. CASE ResetStep
  <2>1. CASE ResetCommit
    BY <1>1, <1>2, <2>1 DEF ResetCommit, BrokerKeeps
  <2>2. CASE ~ResetCommit
    BY <1>1, <1>4, <2>2 DEF ResetStep, ResetAudit, ResetApprovals, ResetLockApproval,
         ResetForeignKey, ResetAbort, ResetCounters, ResetLockCounter, BrokerKeeps, tables
  <2>3. QED
    BY <2>1, <2>2
<1>5. QED
  BY <1>3, <1>4

\* A broker step that leaves the requests and the transport's rows alone, or
\* forgets some of these, keeps what is known of every request.
LEMMA KeptByBroker ==
    ASSUME McInv, clock' \in Nat, clock <= clock',
           \A d \in Calls : BrokerKeeps(d),
           UNCHANGED requestVars,
           \A d \in Calls : refused'[d] \in {refused[d], None}
    PROVE  McInv'
<1>1. ASSUME NEW d \in Calls PROVE RequestOK(d)'
  BY <1>1 DEF McInv, RequestOK, BrokerKeeps, requestVars, TransportRefusal
<1>2. ASSUME NEW d \in Calls PROVE TrailOK(d)'
  <2>1. TrailOK(d) /\ BrokerKeeps(d) /\ refused'[d] \in {refused[d], None}
    BY <1>2 DEF McInv
  <2>2. Verdict(d)' = Verdict(d)
    BY <2>1 DEF BrokerKeeps, Verdict
  <2>3. AuditOf(d).subject = Verdict(d).subject
    BY DEF AuditOf
  <2>4. audit'[d] # None => pc'[d] # "idle" /\ audit'[d].subject = Verdict(d)'.subject
    BY <2>1, <2>2, <2>3 DEF TrailOK, BrokerKeeps
  <2>5. QED
    BY <2>1, <2>4 DEF TrailOK, requestVars, TransportRefusal
<1>3. QED
  BY <1>1, <1>2 DEF McInv

-----------------------------------------------------------------------------
(* The server's own steps.                                                 *)

LEMMA McInitInv == McInit => McInv
  BY DEF McInit, Init, StoreInit, EffectsInit, McInv, RequestOK, TrailOK

\* Only request c changes, and none of the broker's variables.
LEMMA OwnStepKeeps ==
    ASSUME McInv, NEW c \in Calls, UNCHANGED vars,
           \A d \in Calls \ {c} : /\ stage'[d] = stage[d]
                                  /\ message'[d] = message[d]
                                  /\ verified'[d] = verified[d]
                                  /\ answer'[d] = answer[d]
                                  /\ refused'[d] = refused[d],
           RequestOK(c)', TrailOK(c)'
    PROVE  McInv'
<1>1. /\ clock' = clock
      /\ \A d \in Calls : pc'[d] = pc[d] /\ req'[d] = req[d] /\ moment'[d] = moment[d]
      /\ \A d \in Calls : audit'[d] = audit[d]
  BY DEF vars, tables, callVars
<1>2. ASSUME NEW d \in Calls \ {c} PROVE RequestOK(d)' /\ TrailOK(d)'
  BY <1>1, <1>2 DEF McInv, RequestOK, TrailOK, TransportRefusal, Verdict
<1>3. QED
  BY <1>1, <1>2 DEF McInv

LEMMA OwnSteps ==
    ASSUME McTypeOK, McInv, NEW c \in Calls,
           \/ \E m \in Messages : VerifyBearer(c, m)
           \/ RecordTransportRefusal(c)
           \/ PingOrRequestApproval(c)
           \/ GetApproval(c)
           \/ ReadApproval(c)
           \/ RequestBreaks(c)
    PROVE  McInv' /\ UNCHANGED vars
<1>1. /\ stage \in [Calls -> {"idle", "refusing", "refused", "accepted", "called", "reading",
                              "answered", "broken"}]
      /\ message \in [Calls -> Messages \cup {None}]
      /\ verified \in [Calls -> 0..MaxTime]
      /\ row \in [Calls -> Approval \cup {Unissued, Wiped, None}]
      /\ answer \in [Calls -> Answer \cup {None}]
      /\ refused \in [Calls -> TransportRow \cup {None}]
  BY DEF McTypeOK
<1>2. RequestOK(c) /\ TrailOK(c) /\ clock \in Nat
  BY DEF McInv
<1>3. UNCHANGED vars
  BY DEF VerifyBearer, RecordTransportRefusal, PingOrRequestApproval, GetApproval, ReadApproval,
         RequestBreaks
<1>4. /\ clock' = clock
      /\ pc' = pc /\ req' = req /\ moment' = moment /\ audit' = audit
  BY <1>3 DEF vars, tables, callVars
<1>5. \A d \in Calls \ {c} : /\ stage'[d] = stage[d]
                             /\ message'[d] = message[d]
                             /\ verified'[d] = verified[d]
                             /\ answer'[d] = answer[d]
                             /\ refused'[d] = refused[d]
  BY <1>1 DEF VerifyBearer, RecordTransportRefusal, PingOrRequestApproval, GetApproval,
              ReadApproval, RequestBreaks, MoveTo, Reply, trailVars
<1>6. RequestOK(c)' /\ TrailOK(c)'
  <2>1. ASSUME NEW m \in Messages, VerifyBearer(c, m) PROVE RequestOK(c)' /\ TrailOK(c)'
    <3>1. /\ message'[c] = m
          /\ verified'[c] = clock
          /\ stage'[c] = IF TransportRefusal(m.token, clock) = None THEN "accepted" ELSE "refusing"
          /\ refused'[c] = refused[c] /\ answer'[c] = answer[c]
      BY <1>1, <2>1 DEF VerifyBearer, MoveTo, trailVars
    <3>2. pc[c] = "idle" /\ refused[c] = None /\ answer[c] = None /\ audit[c] = None
      BY <1>2, <2>1 DEF VerifyBearer, RequestOK, TrailOK
    <3>3. QED
      BY <1>2, <1>4, <3>1, <3>2 DEF RequestOK, TrailOK, TransportRefusal
  <2>2. CASE RecordTransportRefusal(c) \/ RequestBreaks(c)
    <3>1. /\ stage[c] \in {"refusing", "accepted", "reading"}
          /\ stage'[c] \in {"refused", "broken"}
          /\ message' = message /\ verified' = verified /\ answer' = answer
          /\ \/ refused'[c] = refused[c]
             \/ /\ stage[c] = "refusing"
                /\ refused'[c] = TransportRefusal(message[c].token, verified[c])
      BY <1>1, <2>2 DEF RecordTransportRefusal, RequestBreaks, MoveTo
    <3>2. pc[c] = "idle" /\ refused[c] = None /\ answer[c] = None /\ audit[c] = None
      BY <1>2, <3>1 DEF RequestOK, TrailOK
    <3>3. RequestOK(c)'
      BY <1>2, <1>4, <3>1, <3>2 DEF RequestOK, TransportRefusal
    <3>4. TrailOK(c)'
      BY <1>4, <3>1, <3>2 DEF TrailOK, TransportRefusal
    <3>5. QED
      BY <3>3, <3>4
  <2>3. CASE PingOrRequestApproval(c) \/ ReadApproval(c)
    BY <1>1, <1>2, <1>4, <2>3 DEF PingOrRequestApproval, ReadApproval, Reply, MoveTo, RequestOK,
                                  TrailOK, TransportRefusal, trailVars
  <2>4. CASE GetApproval(c)
    BY <1>1, <1>2, <1>4, <2>4 DEF GetApproval, MoveTo, RequestOK, TrailOK,
                                  TransportRefusal, trailVars
  <2>5. QED
    BY <2>1, <2>2, <2>3, <2>4
<1>7. QED
  BY <1>3, <1>5, <1>6, OwnStepKeeps

\* The three tools that delegate: the message's own call, made by the broker.
LEMMA HandOver ==
    ASSUME McTypeOK, McInv, NEW c \in Calls, HandToCallTool(c)
    PROVE  /\ McInv'
           /\ CallOf(message[c]) \in Requests
           /\ CallTool(c, CallOf(message[c]))
           /\ UNCHANGED resetVars
<1>1. /\ stage \in [Calls -> {"idle", "refusing", "refused", "accepted", "called", "reading",
                              "answered", "broken"}]
      /\ pc \in [Calls -> {"idle"} \cup Active \cup Ended]
      /\ req \in [Calls -> Requests \cup {None}]
      /\ moment \in [Calls -> 0..MaxTime]
  BY DEF McTypeOK, TypeOK, EffectsTypeOK
<1>2. /\ stage[c] = "accepted"
      /\ message[c].tool \in Tools
      /\ CallTool(c, CallOf(message[c]))
      /\ stage' = [stage EXCEPT ![c] = "called"]
      /\ UNCHANGED <<resetVars, message, verified, row, answer, trailVars>>
  BY DEF HandToCallTool, MoveTo
<1>3. message[c] \in Messages /\ CallOf(message[c]) \in Requests
  BY <1>2, McAssumption DEF McInv, RequestOK
<1>4. /\ req' = [req EXCEPT ![c] = CallOf(message[c])]
      /\ moment' = [moment EXCEPT ![c] = clock]
      /\ pc'[c] # "idle"
      /\ \A d \in Calls \ {c} : pc'[d] = pc[d]
      /\ clock' = clock /\ audit' = audit
  BY <1>1, <1>2 DEF CallTool, Route, Decide, GoTo, tables
<1>5. \A d \in Calls \ {c} : req'[d] = req[d] /\ moment'[d] = moment[d] /\ stage'[d] = stage[d]
  BY <1>1, <1>2, <1>4
<1>6. req'[c] = CallOf(message[c]) /\ moment'[c] = clock /\ stage'[c] = "called"
  BY <1>1, <1>2, <1>4
<1>7. ASSUME NEW d \in Calls \ {c} PROVE RequestOK(d)' /\ TrailOK(d)'
  BY <1>2, <1>4, <1>5, <1>7 DEF McInv, RequestOK, TrailOK, TransportRefusal, Verdict, trailVars
<1>8. RequestOK(c)' /\ TrailOK(c)'
  BY <1>2, <1>4, <1>6 DEF McInv, RequestOK, TrailOK, TransportRefusal, trailVars
<1>9. QED
  BY <1>2, <1>3, <1>4, <1>7, <1>8 DEF McInv

-----------------------------------------------------------------------------
(* Types.                                                                  *)

LEMMA McInitTypes == McInit => McTypeOK
<1> SUFFICES ASSUME McInit PROVE McTypeOK
  OBVIOUS
<1>1. TypeOK
  BY IInvInit DEF McInit, IInv
<1>2. 0 \in 0..MaxTime
  BY StoreAssumption
<1>3. QED
  BY <1>1, <1>2 DEF McInit, McTypeOK

\* What verify_token makes of a posted token.
LEMMA JudgedTypes ==
    ASSUME NEW m \in Messages, NEW now
    PROVE  /\ VerifyToken(m.token, now).failure \in DENIAL_REASONS \cup {None}
           /\ VerifyToken(m.token, now).claims.subject = m.token.sub
           /\ VerifyToken(m.token, now).claims.audience = m.token.aud.names
           /\ VerifyToken(m.token, now).claims.expires_at = m.token.exp
           /\ m.token.sub \in Subjects
<1> DEFINE R == DENIAL_REASONS \cup {None}
<1>1. Chain(m.token).failure \in R
  BY DEF Chain, DENIAL_REASONS
<1>2. JwtDecodeFailure(m.token, now) \in R
  BY DEF JwtDecodeFailure, DENIAL_REASONS
<1>3. NoCandidateKey(m.token) \in R
  BY DEF NoCandidateKey, DENIAL_REASONS
<1>4. "token_malformed" \in R
  BY DEF DENIAL_REASONS
<1>5. VerificationFailure(m.token, now) \in R
  BY <1>1, <1>2, <1>3, <1>4, Zenon DEF VerificationFailure
<1>6. QED
  BY <1>5, McAssumption DEF VerifyToken

LEMMA RefusalTypes ==
    ASSUME NEW m \in Messages, NEW now
    PROVE  TransportRefusal(m.token, now) \in TransportRow \cup {None}
<1> DEFINE judged == VerifyToken(m.token, now)
<1>1. judged.failure \in DENIAL_REASONS \cup {None} /\ judged.claims.subject \in Subjects
  BY JudgedTypes
<1>2. "audience_mismatch" \in DENIAL_REASONS
  BY DEF DENIAL_REASONS
<1> HIDE DEF judged
<1>3. QED
  BY <1>1, <1>2 DEF TransportRefusal, TransportRow, judged

LEMMA McTypesNext ==
    ASSUME McTypeOK, McInv, TypeOK', McNext
    PROVE  McTypeOK'
<1>1. /\ stage \in [Calls -> {"idle", "refusing", "refused", "accepted", "called", "reading",
                              "answered", "broken"}]
      /\ message \in [Calls -> Messages \cup {None}]
      /\ verified \in [Calls -> 0..MaxTime]
      /\ row \in [Calls -> Approval \cup {Unissued, Wiped, None}]
      /\ answer \in [Calls -> Answer \cup {None}]
      /\ refused \in [Calls -> TransportRow \cup {None}]
      /\ doomedRefusals \subseteq Calls
      /\ clock \in 0..MaxTime
      /\ approval \in [ApprovalIds -> Approval \cup {Unissued, Wiped}]
  BY DEF McTypeOK, TypeOK, StoreTypeOK
<1>2. ASSUME NEW c \in Calls, NEW m \in Messages, VerifyBearer(c, m) PROVE McTypeOK'
  BY <1>1, <1>2 DEF VerifyBearer, MoveTo, trailVars, McTypeOK
<1>3. ASSUME NEW c \in Calls, RecordTransportRefusal(c) \/ RequestBreaks(c) PROVE McTypeOK'
  <2>1. message[c] \in Messages
    BY <1>3 DEF RecordTransportRefusal, RequestBreaks, McInv, RequestOK
  <2>2. TransportRefusal(message[c].token, verified[c]) \in TransportRow \cup {None}
    BY <2>1, RefusalTypes
  <2>3. QED
    BY <1>1, <1>3, <2>2 DEF RecordTransportRefusal, RequestBreaks, MoveTo, McTypeOK
<1>4. ASSUME NEW c \in Calls, HandToCallTool(c) PROVE McTypeOK'
  BY <1>1, <1>4 DEF HandToCallTool, MoveTo, trailVars, McTypeOK
<1>5. ASSUME NEW c \in Calls, stage[c] # "idle"
      PROVE  AccessToken(message[c].token).subject \in Subjects
  BY <1>5, McAssumption DEF McInv, RequestOK, AccessToken, VerifyToken
<1>6. ASSUME NEW c \in Calls, PingOrRequestApproval(c) PROVE McTypeOK'
  <2>1. AccessToken(message[c].token).subject \in Subjects
    BY <1>5, <1>6 DEF PingOrRequestApproval
  <2>2. QED
    BY <1>1, <1>6, <2>1 DEF PingOrRequestApproval, Reply, MoveTo, trailVars, McTypeOK, Answer
<1>7. ASSUME NEW c \in Calls, ReadApproval(c) PROVE McTypeOK'
  <2>1. AccessToken(message[c].token).subject \in Subjects
    BY <1>5, <1>7 DEF ReadApproval
  <2>2. StateOf(row[c], AccessToken(message[c].token).subject, clock)
          \in {"not_found", "pending", "expired", "consumed"}
    BY DEF StateOf
  <2>3. QED
    BY <1>1, <1>7, <2>1, <2>2 DEF ReadApproval, Reply, MoveTo, trailVars, McTypeOK, Answer
<1>8. ASSUME NEW c \in Calls, GetApproval(c) PROVE McTypeOK'
  <2>1. message[c].approval_id \in ApprovalIds
    BY <1>8, McAssumption DEF GetApproval, McInv, RequestOK
  <2>2. QED
    BY <1>1, <1>8, <2>1 DEF GetApproval, MoveTo, trailVars, McTypeOK
<1>9. ASSUME UNCHANGED requestVars, doomedRefusals' \subseteq Calls,
             refused' \in [Calls -> TransportRow \cup {None}]
      PROVE  McTypeOK'
  BY <1>1, <1>9 DEF requestVars, McTypeOK
<1>10. CASE \/ \E c \in Calls : CallGoesOn(c) \/ DeadlockBroken(c)
            \/ ResetSeesRefusals
            \/ ResetForgetsRefusals
            \/ ResetGoesOn
            \/ GrantStep /\ UNCHANGED <<requestVars, trailVars>>
            \/ Time /\ UNCHANGED <<requestVars, trailVars>>
            \/ McFinished
  <2>1. /\ UNCHANGED requestVars
        /\ doomedRefusals' \subseteq Calls
        /\ refused' \in [Calls -> TransportRow \cup {None}]
    BY <1>1, <1>10 DEF CallGoesOn, DeadlockBroken, ResetSeesRefusals, ResetForgetsRefusals,
         ResetGoesOn, McFinished, mcVars, trailVars
  <2>2. QED
    BY <1>9, <2>1
<1>11. QED
  BY <1>2, <1>3, <1>4, <1>6, <1>7, <1>8, <1>10 DEF McNext, RequestStep

-----------------------------------------------------------------------------
(* Every step of the server keeps what is known, and is a step of Broker.  *)

J == IInv /\ McTypeOK /\ McInv

LEMMA StepOfServer ==
    ASSUME J, [McNext]_mcVars
    PROVE  McInv' /\ [Next]_vars
<1>1. McTypeOK /\ McInv /\ TypeOK
  BY DEF J, McTypeOK
<1>2. CASE UNCHANGED mcVars
  BY <1>1, <1>2 DEF mcVars, vars, tables, callVars, requestVars, trailVars, McInv, RequestOK,
       TrailOK, TransportRefusal, Verdict
<1>3. ASSUME NEW c \in Calls,
             (\E m \in Messages : VerifyBearer(c, m)) \/ RequestStep(c) \/ RequestBreaks(c)
      PROVE  McInv' /\ [Next]_vars
  <2>1. CASE HandToCallTool(c)
    <3>1. /\ McInv'
          /\ CallOf(message[c]) \in Requests
          /\ CallTool(c, CallOf(message[c]))
          /\ UNCHANGED resetVars
      BY <1>1, <2>1, HandOver
    <3>2. CallStep(c)
      BY <3>1 DEF CallStep
    <3>3. QED
      BY <3>1, <3>2 DEF Next
  <2>2. CASE ~HandToCallTool(c)
    BY <1>1, <1>3, <2>2, OwnSteps DEF RequestStep
  <2>3. QED
    BY <2>1, <2>2
<1>4. ASSUME NEW c \in Calls, CallGoesOn(c) PROVE McInv' /\ [Next]_vars
  <2>1. McInv'
    BY <1>1, <1>4, CallGoesOnKeeps, KeptByBroker DEF CallGoesOn, trailVars, McInv
  <2>2. CallStep(c)
    BY <1>4 DEF CallGoesOn, CallStep
  <2>3. QED
    BY <2>1, <2>2 DEF Next
<1>5. ASSUME NEW c \in Calls, DeadlockBroken(c) PROVE McInv' /\ [Next]_vars
  <2>1. DeadlockDetector(c) /\ UNCHANGED <<requestVars, refused>>
    BY <1>5 DEF DeadlockBroken
  <2>2. McInv'
    BY <1>1, <2>1, CallGoesOnKeeps, ResetKeeps, KeptByBroker DEF DeadlockDetector, McInv
  <2>3. QED
    BY <2>1, <2>2 DEF Next
<1>6. CASE ResetSeesRefusals \/ ResetForgetsRefusals \/ ResetGoesOn
  <2>1. /\ ResetBegins \/ ResetStep \/ ResetFail
        /\ UNCHANGED <<callVars, requestVars>>
        /\ \A d \in Calls : refused'[d] \in {refused[d], None}
    BY <1>6 DEF ResetSeesRefusals, ResetForgetsRefusals, ResetGoesOn, ResetStep
  <2>2. (\A d \in Calls : BrokerKeeps(d)) /\ clock' = clock
    BY <1>1, <2>1, ResetKeeps
  <2>3. McInv'
    BY <1>1, <2>1, <2>2, KeptByBroker DEF McInv
  <2>4. OperatorStep
    BY <2>1 DEF OperatorStep
  <2>5. QED
    BY <2>3, <2>4 DEF Next
<1>7. CASE (GrantStep \/ Time) /\ UNCHANGED <<requestVars, trailVars>>
  <2>1. /\ UNCHANGED callVars
        /\ audit' = audit
        /\ clock' \in Nat /\ clock <= clock'
        /\ refused' = refused
    BY <1>1, <1>7 DEF GrantStep, Grant, Time, Tick, tables, trailVars, McInv
  <2>2. \A d \in Calls : BrokerKeeps(d)
    BY <2>1 DEF BrokerKeeps, callVars
  <2>3. McInv'
    BY <1>1, <1>7, <2>1, <2>2, KeptByBroker
  <2>4. QED
    BY <1>7, <2>3 DEF Next
<1>8. CASE McFinished
  BY <1>2, <1>8 DEF McFinished
<1>9. QED
  BY <1>2, <1>3, <1>4, <1>5, <1>6, <1>7, <1>8 DEF McNext

LEMMA ServerInvariant == McSpec => []J /\ [][Next]_vars
<1>1. McInit => J
  BY McInitInv, McInitTypes, IInvInit DEF McInit, J
<1>2. J /\ [McNext]_mcVars => J' /\ [Next]_vars
  <2> SUFFICES ASSUME J, [McNext]_mcVars PROVE J' /\ [Next]_vars
    OBVIOUS
  <2>1. McInv' /\ [Next]_vars
    BY StepOfServer
  <2>2. IInv'
    BY <2>1, IInvNext DEF J
  <2>3. McTypeOK'
    <3>1. CASE McNext
      BY <2>2, <3>1, McTypesNext DEF J, IInv
    <3>2. CASE UNCHANGED mcVars
      BY <2>2, <3>2 DEF J, IInv, McTypeOK, mcVars, requestVars, trailVars
    <3>3. QED
      BY <3>1, <3>2
  <2>4. QED
    BY <2>1, <2>2, <2>3 DEF J
<1>3. QED
  BY <1>1, <1>2, PTL DEF McSpec

\* The MCP server is an implementation of the broker: what is proved of Broker
\* holds of everything an agent can reach over HTTP (create_server).
THEOREM ServerImplementsBroker == McSpec => ImplementsBroker
<1>1. McInit => Init
  BY DEF McInit
<1>2. QED
  BY <1>1, ServerInvariant, PTL DEF McSpec, ImplementsBroker, Spec

\* In particular: over HTTP too an approval pays once, for exactly what was
\* approved, only under a token that was authorised for it, with a row in the
\* trail; and who is told that it was spent lost to somebody.
THEOREM ServedEffects ==
    McSpec => []( /\ OneApprovalOneEffect
                  /\ EffectWithinApproval
                  /\ EffectAuthorised
                  /\ LosersHaveAWinner
                  /\ EffectsAudited )
<1>1. Policy = HARDENED
  BY McAssumption
<1>2. Spec => []EffectAuthorised
  BY <1>1, EffectsAreAuthorised
<1>3. QED
  BY <1>2, ServerImplementsBroker, ApprovalsPayOnce, EffectsAreCovered, LosersLoseToAWinner,
     TrailMatchesEffects, PTL DEF ImplementsBroker

\* Over HTTP too no window lets more than the limit through before an operator
\* resets the counters, and no call is refused before its window is full.
THEOREM ServedCeilings ==
    McSpec => [](resets = 0 => AtMostLimitPerWindow /\ RateLimitedOnlyPastCeiling)
<1>1. McSpec => Spec
  BY ServerImplementsBroker DEF ImplementsBroker
<1>2. QED
  BY <1>1, WindowKeepsItsLimit, OnlyFullWindowsRefuse, PTL

-----------------------------------------------------------------------------
(* The two doors.                                                          *)

LEMMA PassedTheDoor ==
    ASSUME NEW m \in Messages, NEW now, TransportRefusal(m.token, now) = None
    PROVE  /\ VerifyToken(m.token, now).failure = None
           /\ ThisServer \in m.token.aud.names
<1> DEFINE judged == VerifyToken(m.token, now)
<1>1. /\ judged.failure \in DENIAL_REASONS \cup {None}
      /\ judged.claims.subject \in Subjects
      /\ judged.claims.audience = m.token.aud.names
  BY JudgedTypes
<1>2. \A r \in DENIAL_REASONS, s \in Subjects \cup {None} : [reason |-> r, subject |-> s] # None
  BY McAssumption DEF TransportRow
<1>3. "audience_mismatch" \in DENIAL_REASONS
  BY DEF DENIAL_REASONS
<1> HIDE DEF judged
<1>4. QED
  BY <1>1, <1>2, <1>3 DEF TransportRefusal, judged

\* Between two doors a token can only grow old.
LEMMA TokensOnlyAge ==
    ASSUME NEW m \in Messages, NEW t \in Nat, NEW u \in Nat, t <= u,
           VerifyToken(m.token, t).failure = None
    PROVE  /\ VerifyToken(m.token, u).failure \in {None, "token_expired"}
           /\ VerifyToken(m.token, u).failure = "token_expired" => m.token.exp <= u
           /\ t < m.token.exp
<1>1. /\ NoCandidateKey(m.token) = None
      /\ JwtDecodeFailure(m.token, t) = None
      /\ m.token.aud.shape \in {"text", "list"}
      /\ Chain(m.token).failure = None
  BY NoneAssumption DEF VerifyToken, VerificationFailure, DENIAL_REASONS
<1>2. m.token.iat \in Int /\ m.token.exp \in Int
  BY McAssumption
<1>3. /\ ~(m.token.alg \notin ALGORITHMS)
      /\ m.token.key = JwksByIssuer[m.token.iss][m.token.kid]
      /\ m.token.missing = {}
      /\ m.token.iat <= t
      /\ t < m.token.exp
  BY <1>1, <1>2, NoneAssumption DEF JwtDecodeFailure, DENIAL_REASONS
<1>4. JwtDecodeFailure(m.token, u) = IF m.token.exp <= u THEN "token_expired" ELSE None
  BY <1>2, <1>3 DEF JwtDecodeFailure
<1>5. VerificationFailure(m.token, u) = JwtDecodeFailure(m.token, u)
  BY <1>1, <1>4 DEF VerificationFailure
<1>6. QED
  BY <1>3, <1>4, <1>5, NoneAssumption DEF VerifyToken, DENIAL_REASONS

\* What is known of a request that has become a call.
LEMMA CalledRequest ==
    ASSUME J, NEW c \in Calls, pc[c] # "idle"
    PROVE  LET m == message[c]
           IN  /\ m \in Messages
               /\ verified[c] \in 0..MaxTime /\ moment[c] \in 0..MaxTime
               /\ verified[c] <= moment[c]
               /\ ThisServer \in m.token.aud.names
               /\ VerifyToken(m.token, verified[c]).failure = None
               /\ VerifyToken(m.token, moment[c]).failure \in {None, "token_expired"}
               /\ VerifyToken(m.token, moment[c]).failure = "token_expired" =>
                    m.token.exp <= moment[c]
               /\ verified[c] < m.token.exp
               /\ Verdict(c) = Authorize(HARDENED, VerifyToken(m.token, moment[c]), m.tool,
                                         ThisServer, moment[c])
               /\ m.tool \in Tools
<1>1. RequestOK(c) /\ stage[c] = "called"
  BY DEF J, McInv, RequestOK
<1>2. /\ message[c] \in Messages
      /\ TransportRefusal(message[c].token, verified[c]) = None
      /\ verified[c] <= moment[c]
      /\ message[c].tool \in Tools
      /\ req[c] = CallOf(message[c])
  BY <1>1 DEF RequestOK
<1>3. verified[c] \in 0..MaxTime /\ moment[c] \in 0..MaxTime /\ MaxTime \in Nat
  BY StoreAssumption DEF J, McTypeOK, TypeOK, EffectsTypeOK
<1>4. verified[c] \in Nat /\ moment[c] \in Nat
  BY <1>3
<1>5. Verdict(c) = Authorize(HARDENED, VerifyToken(message[c].token, moment[c]),
                             message[c].tool, ThisServer, moment[c])
  BY <1>2, McAssumption DEF Verdict, VerdictOn, CallOf
<1>6. QED
  BY <1>2, <1>3, <1>4, <1>5, PassedTheDoor, TokensOnlyAge

\* What the transport let through, call_tool never refuses for anything but age
\* or a scope the chain does not carry (BrokerTokenVerifier.verify_token and
\* the second verify_token inside call_tool).
THEOREM TheDoorsAgree == McSpec => []DoorsAgree
<1>1. ASSUME J, NEW c \in Calls, pc[c] # "idle"
      PROVE  /\ Verdict(c).reason \in {None, "token_expired", "insufficient_effective_scope"}
             /\ Verdict(c).reason = "token_expired" =>
                  verified[c] < message[c].token.exp /\ message[c].token.exp <= moment[c]
  <2> DEFINE m == message[c]
             judged == VerifyToken(m.token, moment[c])
  <2>1. /\ m \in Messages
        /\ m.tool \in DOMAIN TOOL_SCOPES
        /\ ThisServer \in m.token.aud.names
        /\ judged.failure \in {None, "token_expired"}
        /\ judged.failure = "token_expired" => m.token.exp <= moment[c]
        /\ verified[c] < m.token.exp
        /\ Verdict(c) = Authorize(HARDENED, judged, m.tool, ThisServer, moment[c])
    BY <1>1, CalledRequest DEF Tools
  <2>2. judged.claims.audience = m.token.aud.names /\ judged.claims.expires_at = m.token.exp
    BY <2>1, JudgedTypes
  <2>3. /\ Refusal(HARDENED, judged.claims, m.tool, ThisServer, moment[c])
             \in {None, "token_expired", "insufficient_effective_scope"}
        /\ Refusal(HARDENED, judged.claims, m.tool, ThisServer, moment[c]) = "token_expired" =>
             m.token.exp <= moment[c]
    BY <2>1, <2>2, NoneAssumption DEF Refusal, DENIAL_REASONS
  <2> HIDE DEF m, judged
  <2>4. Verdict(c).reason = IF judged.failure # None THEN judged.failure
                 ELSE Refusal(HARDENED, judged.claims, m.tool, ThisServer, moment[c])
    BY <2>1 DEF Authorize
  <2>5. QED
    BY <2>1, <2>3, <2>4 DEF m
<1>2. J => DoorsAgree
  BY <1>1 DEF DoorsAgree
<1>3. QED
  BY <1>2, ServerInvariant, PTL

\* The access token reports the authority the decision is made on, never more
\* (the scopes BrokerTokenVerifier puts there, and effective_scopes in
\* authorize).
THEOREM AccessTokensAreHonest == McSpec => []ScopesReportedAreScopesDecided
<1>1. ASSUME J, NEW c \in Calls, pc[c] # "idle", Verdict(c).subject # None
      PROVE  /\ AccessToken(message[c].token).scopes = Verdict(c).effective_scopes
             /\ AccessToken(message[c].token).subject = Verdict(c).subject
  <2> DEFINE m == message[c]
             judged == VerifyToken(m.token, moment[c])
  <2>1. /\ m.tool \in DOMAIN TOOL_SCOPES
        /\ Verdict(c) = Authorize(HARDENED, judged, m.tool, ThisServer, moment[c])
    BY <1>1, CalledRequest DEF Tools
  <2>2. judged.claims = VerifyToken(m.token, 0).claims
    BY DEF VerifyToken
  <2> HIDE DEF m, judged
  <2>3. judged.failure = None
    BY <1>1, <2>1 DEF Authorize
  <2>4. /\ Verdict(c).effective_scopes = EffectiveScopes(judged.claims, TRUE)
        /\ Verdict(c).subject = judged.claims.subject
    BY <2>1, <2>3 DEF Authorize, HARDENED
  <2>5. QED
    BY <2>2, <2>4 DEF AccessToken, m
<1>2. J => ScopesReportedAreScopesDecided
  BY <1>1 DEF ScopesReportedAreScopesDecided
<1>3. QED
  BY <1>2, ServerInvariant, PTL

\* No tool answers and no call begins for a token that did not authenticate or
\* is addressed to another server (the audience check of verify_token, which
\* also covers the tools that never reach authorize).
THEOREM StrangersGetNothing == McSpec => []NothingForStrangers
<1>1. ASSUME J, NEW c \in Calls, answer[c] # None \/ pc[c] # "idle"
      PROVE  Authentic(message[c].token) /\ ThisServer \in message[c].token.aud.names
  <2>1. RequestOK(c) /\ TrailOK(c) /\ verified[c] \in 0..MaxTime
    BY <1>1 DEF J, McInv, McTypeOK
  <2>2. stage[c] \in {"called", "answered"}
    BY <1>1, <2>1 DEF RequestOK, TrailOK
  <2>3. message[c] \in Messages /\ TransportRefusal(message[c].token, verified[c]) = None
    BY <2>1, <2>2 DEF RequestOK
  <2>4. QED
    BY <2>1, <2>3, PassedTheDoor DEF Authentic
<1>2. J => NothingForStrangers
  BY <1>1 DEF NothingForStrangers
<1>3. QED
  BY <1>2, ServerInvariant, PTL

\* Whichever door wrote the row, the trail names a subject only when its token
\* authenticated (the two _audit calls of verify_token, and call_tool's _record).
THEOREM TheTrailNamesNoImpostor == McSpec => []AuditSubjectsAreVerified
<1>1. ASSUME J, NEW c \in Calls, refused[c] # None, refused[c].subject # None
      PROVE  Authentic(message[c].token)
  <2>1. RequestOK(c) /\ TrailOK(c) /\ verified[c] \in 0..MaxTime
    BY <1>1 DEF J, McInv, McTypeOK
  <2>2. refused[c] = TransportRefusal(message[c].token, verified[c])
    BY <1>1, <2>1 DEF TrailOK
  <2>3. VerifyToken(message[c].token, verified[c]).failure = None
    BY <1>1, <2>2 DEF TransportRefusal
  <2>4. QED
    BY <2>1, <2>3 DEF Authentic
<1>2. ASSUME J, NEW c \in Calls, audit[c] # None, audit[c].subject # None
      PROVE  Authentic(message[c].token)
  <2>1. pc[c] # "idle" /\ Verdict(c).subject # None
    BY <1>2 DEF J, McInv, TrailOK
  <2>2. /\ moment[c] \in 0..MaxTime
        /\ Verdict(c) = Authorize(HARDENED, VerifyToken(message[c].token, moment[c]),
                                  message[c].tool, ThisServer, moment[c])
    BY <1>2, <2>1, CalledRequest
  <2>3. VerifyToken(message[c].token, moment[c]).failure = None
    BY <2>1, <2>2 DEF Authorize
  <2>4. QED
    BY <2>2, <2>3 DEF Authentic
<1>3. J => AuditSubjectsAreVerified
  BY <1>1, <1>2 DEF AuditSubjectsAreVerified
<1>4. QED
  BY <1>3, ServerInvariant, PTL

\* A request the transport refused and recorded never runs, is never answered
\* and is in the trail only once.
THEOREM RefusedIsFinal == McSpec => []RefusedOnceAndForAll
<1>1. J => RefusedOnceAndForAll
  BY DEF J, McInv, RequestOK, TrailOK, RefusedOnceAndForAll
<1>2. QED
  BY <1>1, ServerInvariant, PTL

-----------------------------------------------------------------------------
(* What read_approval tells an agent.                                      *)

\* The approval a request asks about, and whether it holds, or has answered
\* from, a row of it.
Asked(c) == message[c].approval_id
Seen(c) == stage[c] = "reading" \/ (answer[c] # None /\ message[c].tool = "read_approval")
ShownRow(c) == Seen(c) /\ row[c] \notin {Unissued, Wiped}

\* A row that was read is what the approval was: while it is there it expires
\* when the row says, and what was spent stays spent.
RowOK(c) ==
    /\ Seen(c) => message[c].tool = "read_approval"
    /\ ShownRow(c) => row[c] \in Approval
    /\ ShownRow(c) /\ approval[Asked(c)] # Wiped =>
        /\ approval[Asked(c)] \in Approval
        /\ approval[Asked(c)].expires_at = row[c].expires_at
        /\ row[c].consumed_at # None => approval[Asked(c)].consumed_at # None

\* An answer about an approval is what the row says at the answer's own time,
\* which lies between the request's arrival and now.
AnswerOK(c) ==
    answer[c] # None =>
        /\ answer[c].at \in Nat
        /\ verified[c] <= answer[c].at
        /\ answer[c].at <= clock
        /\ answer[c].state \in {"pending", "expired", "consumed"} =>
             /\ ShownRow(c)
             /\ answer[c].state = StateOf(row[c], row[c].subject, answer[c].at)

\* Two rows of one approval expire together, also when a reset has since taken
\* the approval, and one read after an answer is no less spent than the
\* answer's row.
PairOK(c, d) ==
    ShownRow(c) /\ ShownRow(d) /\ Asked(c) = Asked(d) =>
        /\ row[c].expires_at = row[d].expires_at
        /\ (answer[c] # None /\ answer[c].at < verified[d] /\ row[c].consumed_at # None) =>
             row[d].consumed_at # None

ReadInv == \A c \in Calls : RowOK(c) /\ AnswerOK(c) /\ \A d \in Calls : PairOK(c, d)

LEMMA ReadInvInit == McInit => ReadInv
BY DEF McInit, ReadInv, RowOK, AnswerOK, PairOK, ShownRow, Seen

LEMMA AskedIsAnId ==
    ASSUME J, NEW c \in Calls, stage[c] # "idle"
    PROVE  Asked(c) \in ApprovalIds
BY McAssumption DEF J, McInv, RequestOK, Asked

LEMMA SeenHasArrived ==
    ASSUME J, NEW c \in Calls, Seen(c)
    PROVE  stage[c] # "idle"
BY DEF J, McInv, TrailOK, Seen

\* Whatever the broker does to the approvals, the rows that were read stay
\* good, and no step but the transport's own touches them.
LEMMA RowKept ==
    ASSUME J, NEW c \in Calls, RowOK(c),
           stage'[c] = stage[c], message'[c] = message[c], row'[c] = row[c],
           answer'[c] = answer[c],
           \A a \in ApprovalIds : Advances(a)
    PROVE  RowOK(c)'
<1> SUFFICES ASSUME ShownRow(c), approval'[Asked(c)] # Wiped
             PROVE  /\ approval'[Asked(c)] \in Approval
                    /\ approval'[Asked(c)].expires_at = row[c].expires_at
                    /\ row[c].consumed_at # None => approval'[Asked(c)].consumed_at # None
  BY DEF RowOK, ShownRow, Seen, Asked
<1> DEFINE a == Asked(c)
<1>1. a \in ApprovalIds /\ Advances(a)
  BY SeenHasArrived, AskedIsAnId DEF ShownRow
<1>2. Unissued \notin Approval /\ Wiped \notin Approval /\ Unissued # Wiped
  BY StoreAssumption
<1> HIDE DEF a
<1>3. approval[a] # Wiped
  BY <1>1, <1>2 DEF Advances, a
<1>4. /\ approval[a] \in Approval
      /\ approval[a].expires_at = row[c].expires_at
      /\ row[c].consumed_at # None => approval[a].consumed_at # None
  BY <1>3 DEF RowOK, a
<1>5. CASE approval'[a] = approval[a]
  BY <1>4, <1>5 DEF a
<1>6. ASSUME NEW t \in Nat, approval'[a] = [approval[a] EXCEPT !.consumed_at = t]
      PROVE  /\ approval'[a] \in Approval
             /\ approval'[a].expires_at = approval[a].expires_at
             /\ approval'[a].consumed_at # None
  <2> DEFINE old == approval[a]
             new == approval'[a]
  <2>1. old \in Approval /\ new = [old EXCEPT !.consumed_at = t] /\ t # None
    BY <1>4, <1>6, NoneAssumption
  <2> HIDE DEF old, new
  <2>2. new \in Approval /\ new.expires_at = old.expires_at /\ new.consumed_at # None
    BY <2>1 DEF Approval
  <2>3. QED
    BY <2>2 DEF old, new
<1>7. QED
  BY <1>1, <1>2, <1>4, <1>5, <1>6 DEF Advances, a

LEMMA ReadsByBroker ==
    ASSUME J, ReadInv, clock' \in Nat, clock <= clock',
           UNCHANGED requestVars,
           \A a \in ApprovalIds : Advances(a)
    PROVE  ReadInv'
<1>1. UNCHANGED <<stage, message, verified, row, answer>>
  BY DEF requestVars
<1>2. ASSUME NEW c \in Calls PROVE RowOK(c)'
  BY <1>1, <1>2, RowKept DEF ReadInv
<1>3. ASSUME NEW c \in Calls PROVE AnswerOK(c)'
  <2>1. AnswerOK(c) /\ clock \in Nat
    BY <1>3 DEF ReadInv, J, McInv
  <2>2. QED
    BY <1>1, <2>1 DEF AnswerOK, ShownRow, Seen, StateOf
<1>4. ASSUME NEW c \in Calls, NEW d \in Calls PROVE PairOK(c, d)'
  BY <1>1, <1>4 DEF ReadInv, PairOK, ShownRow, Seen, Asked
<1>5. QED
  BY <1>2, <1>3, <1>4 DEF ReadInv

\* One request moves, and the approvals stand still.
LEMMA ReadsByRequest ==
    ASSUME J, ReadInv, NEW c \in Calls, clock' = clock, approval' = approval,
           \A d \in Calls \ {c} : /\ stage'[d] = stage[d]
                                  /\ message'[d] = message[d]
                                  /\ verified'[d] = verified[d]
                                  /\ row'[d] = row[d]
                                  /\ answer'[d] = answer[d],
           RowOK(c)', AnswerOK(c)', \A d \in Calls : PairOK(c, d)' /\ PairOK(d, c)'
    PROVE  ReadInv'
<1>1. ASSUME NEW d \in Calls \ {c} PROVE RowOK(d)' /\ AnswerOK(d)'
  BY <1>1 DEF ReadInv, RowOK, AnswerOK, ShownRow, Seen, Asked, StateOf
<1>2. ASSUME NEW d \in Calls \ {c}, NEW e \in Calls \ {c} PROVE PairOK(d, e)'
  BY <1>2 DEF ReadInv, PairOK, ShownRow, Seen, Asked
<1>3. QED
  BY <1>1, <1>2 DEF ReadInv

\* A request that shows no row after its step.
LEMMA NothingShown ==
    ASSUME J, ReadInv, NEW c \in Calls, clock' = clock, approval' = approval,
           \A d \in Calls \ {c} : /\ stage'[d] = stage[d]
                                  /\ message'[d] = message[d]
                                  /\ verified'[d] = verified[d]
                                  /\ row'[d] = row[d]
                                  /\ answer'[d] = answer[d],
           ~Seen(c)', AnswerOK(c)'
    PROVE  ReadInv'
<1>1. RowOK(c)'
  BY DEF RowOK, ShownRow
<1>2. \A d \in Calls : PairOK(c, d)' /\ PairOK(d, c)'
  BY DEF PairOK, ShownRow
<1>3. QED
  BY <1>1, <1>2, ReadsByRequest

LEMMA GetApprovalReads ==
    ASSUME J, ReadInv, NEW c \in Calls, GetApproval(c)
    PROVE  ReadInv'
<1> DEFINE a == Asked(c)
<1>1. /\ stage \in [Calls -> {"idle", "refusing", "refused", "accepted", "called", "reading",
                              "answered", "broken"}]
      /\ row \in [Calls -> Approval \cup {Unissued, Wiped, None}]
      /\ approval \in [ApprovalIds -> Approval \cup {Unissued, Wiped}]
  BY DEF J, McTypeOK, TypeOK, StoreTypeOK
<1>2. /\ stage[c] = "accepted" /\ message[c].tool = "read_approval"
      /\ stage' = [stage EXCEPT ![c] = "reading"]
      /\ row' = [row EXCEPT ![c] = approval[a]]
      /\ UNCHANGED <<message, verified, answer, approval, clock>>
  BY DEF GetApproval, MoveTo, vars, tables, Asked
<1>3. a \in ApprovalIds /\ Asked(c)' = a /\ answer[c] = None
  BY <1>2, AskedIsAnId DEF Asked, J, McInv, TrailOK
<1>4. row'[c] = approval[a]
  BY <1>1, <1>2
<1>5. \A d \in Calls \ {c} : stage'[d] = stage[d] /\ row'[d] = row[d]
  BY <1>1, <1>2
<1> HIDE DEF a
<1>6. RowOK(c)' /\ AnswerOK(c)'
  BY <1>1, <1>2, <1>3, <1>4 DEF RowOK, AnswerOK, ShownRow, Asked
<1>7. Wiped \notin Approval
  BY StoreAssumption
<1>8. ASSUME NEW d \in Calls PROVE PairOK(c, d)' /\ PairOK(d, c)'
  <2>1. CASE d = c
    BY <1>2, <1>3, <2>1 DEF PairOK
  <2>2. CASE d # c
    <3>1. RowOK(d) /\ Asked(d)' = Asked(d) /\ (ShownRow(d)' <=> ShownRow(d)) /\ row'[d] = row[d]
      BY <1>2, <1>5, <2>2 DEF ReadInv, ShownRow, Seen, Asked
    <3>2. ASSUME ShownRow(c)', ShownRow(d), Asked(d) = a
          PROVE  /\ row'[c].expires_at = row[d].expires_at
                 /\ row[d].consumed_at # None => row'[c].consumed_at # None
      <4>1. approval[a] # Wiped
        BY <1>4, <1>7, <3>2 DEF ShownRow
      <4>2. QED
        BY <1>4, <3>1, <3>2, <4>1 DEF RowOK
    <3>3. PairOK(c, d)'
      BY <1>2, <1>3, <3>1, <3>2 DEF PairOK
    <3>4. PairOK(d, c)'
      BY <1>2, <1>3, <3>1, <3>2 DEF PairOK
    <3>5. QED
      BY <3>3, <3>4
  <2>3. QED
    BY <2>1, <2>2
<1>9. QED
  BY <1>2, <1>5, <1>6, <1>8, ReadsByRequest

\* A state shown of an approval comes from a row, which is the asker's own.
LEMMA ShownState ==
    ASSUME NEW r \in Approval \cup {Unissued, Wiped, None}, NEW s, NEW now,
           StateOf(r, s, now) \in {"pending", "expired", "consumed"}
    PROVE  r \notin {Unissued, Wiped} /\ StateOf(r, s, now) = StateOf(r, r.subject, now)
BY DEF StateOf

LEMMA ReadApprovalReads ==
    ASSUME J, ReadInv, NEW c \in Calls, ReadApproval(c), Seen(c)'
    PROVE  ReadInv'
<1>1. /\ stage \in [Calls -> {"idle", "refusing", "refused", "accepted", "called", "reading",
                              "answered", "broken"}]
      /\ answer \in [Calls -> Answer \cup {None}]
      /\ row[c] \in Approval \cup {Unissued, Wiped, None}
  BY DEF J, McTypeOK
<1>2. RequestOK(c) /\ TrailOK(c) /\ clock \in Nat
  BY DEF J, McInv
<1> DEFINE s == AccessToken(message[c].token).subject
           said == [subject |-> s, state |-> StateOf(row[c], s, clock), at |-> clock]
<1>3. /\ stage[c] = "reading"
      /\ stage' = [stage EXCEPT ![c] = "answered"]
      /\ answer' = [answer EXCEPT ![c] = said]
      /\ UNCHANGED <<message, verified, row, approval, clock>>
  BY DEF ReadApproval, Reply, MoveTo, vars, tables
<1>4. answer'[c] = said
  BY <1>1, <1>3
<1>5. \A d \in Calls \ {c} : stage'[d] = stage[d] /\ answer'[d] = answer[d]
  BY <1>1, <1>3
<1>6. Seen(c) /\ (ShownRow(c)' <=> ShownRow(c)) /\ Asked(c)' = Asked(c)
  BY <1>3, <1>4 DEF ReadInv, RowOK, Seen, ShownRow, Asked
<1>7. RowOK(c)'
  BY <1>3, <1>6 DEF ReadInv, RowOK, Asked
<1>8. verified[c] \in Nat /\ verified[c] <= clock
  BY <1>2, <1>3 DEF RequestOK
<1>9. AnswerOK(c)'
  <2>1. said.at = clock /\ said.state = StateOf(row[c], s, clock)
    OBVIOUS
  <2> HIDE DEF said, s
  <2>2. ASSUME said.state \in {"pending", "expired", "consumed"}
        PROVE  ShownRow(c) /\ said.state = StateOf(row[c], row[c].subject, clock)
    BY <1>1, <1>6, <2>1, <2>2, ShownState DEF ShownRow
  <2>3. StateOf(row[c], row[c].subject, clock)' = StateOf(row[c], row[c].subject, clock)
    BY <1>3 DEF StateOf
  <2>4. QED
    BY <1>2, <1>3, <1>4, <1>6, <1>8, <2>1, <2>2 DEF AnswerOK, StateOf
<1>10. ASSUME NEW d \in Calls PROVE PairOK(c, d)' /\ PairOK(d, c)'
  <2>1. /\ Asked(d)' = Asked(d)
        /\ ShownRow(d)' => ShownRow(d)
        /\ d # c => answer'[d] = answer[d]
    BY <1>3, <1>5, <1>6 DEF ShownRow, Seen, Asked
  <2>2. PairOK(c, d) /\ PairOK(d, c)
    BY DEF ReadInv
  <2>3. ASSUME ShownRow(d) PROVE verified[d] \in Nat /\ verified[d] <= clock
    BY <2>3, SeenHasArrived DEF J, McInv, RequestOK, ShownRow
  <2>4. answer'[c].at = clock
    BY <1>4
  <2>5. PairOK(c, d)'
    BY <1>2, <1>3, <1>6, <2>1, <2>2, <2>3, <2>4 DEF PairOK
  <2>6. PairOK(d, c)'
    BY <1>2, <1>3, <1>6, <2>1, <2>2, <2>3, <2>4, <2>5 DEF PairOK
  <2>7. QED
    BY <2>5, <2>6
<1>11. QED
  BY <1>3, <1>5, <1>7, <1>9, <1>10, ReadsByRequest

\* The steps of a request that is not about to show a row.
LEMMA OtherRequestReads ==
    ASSUME J, ReadInv, NEW c \in Calls,
           \/ \E m \in Messages : VerifyBearer(c, m)
           \/ RecordTransportRefusal(c)
           \/ HandToCallTool(c)
           \/ PingOrRequestApproval(c)
           \/ RequestBreaks(c)
    PROVE  ReadInv'
<1>1. /\ stage \in [Calls -> {"idle", "refusing", "refused", "accepted", "called", "reading",
                              "answered", "broken"}]
      /\ message \in [Calls -> Messages \cup {None}]
      /\ verified \in [Calls -> 0..MaxTime]
      /\ answer \in [Calls -> Answer \cup {None}]
  BY DEF J, McTypeOK
<1>2. RequestOK(c) /\ TrailOK(c) /\ clock \in Nat
  BY DEF J, McInv
<1>3. stage[c] \in {"idle", "refusing", "accepted", "reading"} /\ answer[c] = None
  BY <1>2 DEF VerifyBearer, RecordTransportRefusal, HandToCallTool, PingOrRequestApproval,
              RequestBreaks, TrailOK
<1>4. /\ clock' = clock /\ approval' = approval /\ row' = row
      /\ \A d \in Calls \ {c} : /\ stage'[d] = stage[d]
                                /\ message'[d] = message[d]
                                /\ verified'[d] = verified[d]
                                /\ answer'[d] = answer[d]
  BY <1>1 DEF VerifyBearer, RecordTransportRefusal, HandToCallTool, CallTool,
              PingOrRequestApproval, RequestBreaks, MoveTo, Reply, vars, tables
<1>5. CASE PingOrRequestApproval(c)
  <2> DEFINE told(state) == [subject |-> AccessToken(message[c].token).subject,
                             state |-> state, at |-> clock]
  <2>1. PICK state \in {"identity", "not_granted"} : Reply(c, state)
    BY <1>5 DEF PingOrRequestApproval
  <2>2. /\ message' = message /\ verified' = verified
        /\ message[c].tool \in {"ping", "request_approval"}
        /\ stage[c] = "accepted"
    BY <1>5 DEF PingOrRequestApproval
  <2>3. stage'[c] = "answered" /\ answer'[c] = told(state)
    BY <1>1, <2>1 DEF Reply, MoveTo
  <2>4. ~Seen(c)'
    BY <2>2, <2>3 DEF Seen
  <2>5. verified[c] \in Nat /\ verified[c] <= clock
    BY <1>2, <2>2 DEF RequestOK
  <2>6. AnswerOK(c)'
    BY <1>2, <1>4, <2>1, <2>2, <2>3, <2>5 DEF AnswerOK
  <2>7. QED
    BY <1>4, <2>4, <2>6, NothingShown
<1>6. CASE ~PingOrRequestApproval(c)
  <2>1. answer' = answer /\ stage'[c] \in {"accepted", "refusing", "refused", "called", "broken"}
    BY <1>1, <1>6 DEF VerifyBearer, RecordTransportRefusal, HandToCallTool, RequestBreaks, MoveTo
  <2>2. ~Seen(c)' /\ AnswerOK(c)'
    BY <1>3, <2>1 DEF Seen, AnswerOK
  <2>3. QED
    BY <1>4, <2>2, NothingShown
<1>7. QED
  BY <1>5, <1>6

LEMMA ReadInvNext ==
    ASSUME J, ReadInv, [McNext]_mcVars
    PROVE  ReadInv'
<1>1. [Next]_vars
  BY StepOfServer
<1>2. \A a \in ApprovalIds : Advances(a)
  BY <1>1, ApprovalsAdvance DEF J
<1>3. clock \in Nat /\ clock \in 0..MaxTime
  BY DEF J, McInv, McTypeOK, TypeOK, StoreTypeOK
<1>4. ASSUME NEW c \in Calls,
             (\E m \in Messages : VerifyBearer(c, m)) \/ RequestStep(c) \/ RequestBreaks(c)
      PROVE  ReadInv'
  <2>1. CASE GetApproval(c)
    BY <2>1, GetApprovalReads
  <2>2. CASE ReadApproval(c)
    <3>1. CASE Seen(c)'
      BY <2>2, <3>1, ReadApprovalReads
    <3>2. CASE ~Seen(c)'
      <4>1. /\ answer'[c] = None
            /\ clock' = clock /\ approval' = approval
            /\ \A d \in Calls \ {c} : /\ stage'[d] = stage[d]
                                      /\ message'[d] = message[d]
                                      /\ verified'[d] = verified[d]
                                      /\ row'[d] = row[d]
                                      /\ answer'[d] = answer[d]
        <5>1. Seen(c) /\ stage[c] = "reading"
          BY <2>2 DEF ReadApproval, Seen
        <5>2. message[c].tool = "read_approval" /\ UNCHANGED <<message, verified, row, vars>>
          BY <2>2, <5>1 DEF ReadInv, RowOK, ReadApproval
        <5>3. stage \in [Calls -> {"idle", "refusing", "refused", "accepted", "called", "reading",
                                   "answered", "broken"}]
              /\ answer \in [Calls -> Answer \cup {None}]
          BY DEF J, McTypeOK
        <5>4. QED
          BY <2>2, <3>2, <5>2, <5>3 DEF ReadApproval, Reply, MoveTo, Seen, vars, tables
      <4>2. AnswerOK(c)'
        BY <4>1 DEF AnswerOK
      <4>3. QED
        BY <3>2, <4>1, <4>2, NothingShown
    <3>3. QED
      BY <3>1, <3>2
  <2>3. QED
    BY <1>4, <2>1, <2>2, OtherRequestReads DEF RequestStep
<1>5. CASE UNCHANGED requestVars /\ clock' \in Nat /\ clock <= clock'
  BY <1>2, <1>5, ReadsByBroker
<1>6. CASE (\E c \in Calls : CallGoesOn(c) \/ DeadlockBroken(c)) \/ ResetSeesRefusals
           \/ ResetForgetsRefusals \/ ResetGoesOn
  <2>1. UNCHANGED requestVars
    BY <1>6 DEF CallGoesOn, DeadlockBroken, ResetSeesRefusals, ResetForgetsRefusals, ResetGoesOn
  <2>2. TypeOK
    BY DEF J, McTypeOK
  <2>3. clock' = clock
    BY <1>6, <2>2, CallGoesOnKeeps, ResetKeeps
    DEF CallGoesOn, DeadlockBroken, DeadlockDetector, ResetSeesRefusals, ResetForgetsRefusals,
        ResetGoesOn, ResetStep
  <2>4. QED
    BY <1>3, <1>5, <2>1, <2>3
<1>7. CASE (GrantStep \/ Time) /\ UNCHANGED <<requestVars, trailVars>>
  BY <1>3, <1>5, <1>7 DEF GrantStep, Grant, Time, Tick
<1>8. CASE McFinished \/ UNCHANGED mcVars
  BY <1>3, <1>5, <1>8 DEF McFinished, mcVars, vars
<1>9. QED
  BY <1>4, <1>6, <1>7, <1>8 DEF McNext

LEMMA ReadInvariant == McSpec => [](J /\ ReadInv)
<1>1. McInit => ReadInv
  BY ReadInvInit
<1>2. J /\ ReadInv /\ [McNext]_mcVars => ReadInv'
  BY ReadInvNext
<1>3. QED
  BY <1>1, <1>2, ServerInvariant, PTL DEF McSpec

\* An agent told "consumed" can rely on an effect, although the row it saw is
\* a copy that may be old: the approval is gone, or an effect was paid with it
\* (read_approval's state, and the one transaction of call_tool).
THEOREM ConsumedMeansPaid == McSpec => []ConsumedWasPaidFor
<1>1. ASSUME J, ReadInv, NEW c \in Calls, answer[c] # None, answer[c].state = "consumed",
             approval[message[c].approval_id] # Wiped
      PROVE  EffectNaming(message[c].approval_id) # {}
  <2> DEFINE a == message[c].approval_id
  <2>1. ShownRow(c) /\ RowOK(c) /\ StateOf(row[c], row[c].subject, answer[c].at) = "consumed"
    BY <1>1 DEF ReadInv, AnswerOK
  <2>2. row[c].consumed_at # None
    BY <2>1 DEF StateOf
  <2>3. approval[a] \in Approval /\ approval[a].consumed_at # None
    BY <1>1, <2>1, <2>2 DEF RowOK, Asked
  <2>4. stage[c] # "idle"
    BY <1>1, <2>1, SeenHasArrived DEF ShownRow
  <2>5. a \in ApprovalIds
    BY <1>1, <2>4, AskedIsAnId DEF Asked
  <2> HIDE DEF a
  <2>6. a \in ApprovalRows
    BY <2>3, <2>5, StoreAssumption DEF ApprovalRows
  <2>7. \E e \in Effects : effect[e].approval_id = a
    BY <1>1, <2>3, <2>6 DEF J, IInv, LedgerOK
  <2>8. QED
    BY <2>7 DEF EffectNaming, a
<1>2. J /\ ReadInv => ConsumedWasPaidFor
  BY <1>1 DEF ConsumedWasPaidFor
<1>3. QED
  BY <1>2, ReadInvariant, PTL

\* An agent told "expired" can rely on it: whatever was or will be paid with
\* the approval belongs to a call that began before the answer (the one moment
\* call_tool reads, and the expiry test of find_matching_approval).
THEOREM ExpiredMeansOver == McSpec => []ExpiredUnspentIsOver
<1>1. ASSUME J, ReadInv, NEW c \in Calls, NEW d \in Effects, answer[c] # None,
             answer[c].state = "expired", effect[d].approval_id = message[c].approval_id
      PROVE  moment[d] < answer[c].at
  <2> DEFINE a == message[c].approval_id
  <2>1. /\ ShownRow(c) /\ RowOK(c) /\ answer[c].at \in Nat
        /\ StateOf(row[c], row[c].subject, answer[c].at) = "expired"
    BY <1>1 DEF ReadInv, AnswerOK
  <2>2. row[c].expires_at <= answer[c].at
    BY <2>1 DEF StateOf
  <2>3. d \in Calls /\ Won(d) /\ effect[d] = EffectOf(d) /\ found[d] \in ApprovalRows
    BY <1>1 DEF Effects, J, IInv, LedgerOK
  <2>4. found[d] = a
    BY <1>1, <2>3 DEF EffectOf
  <2>5. BoundTo(a, d)
    <3>1. CallOK(d)
      BY <1>1, <2>3 DEF J, IInv, CallsOK
    <3>2. BoundTo(found[d], d)
      BY <2>3, <3>1 DEF CallOK
    <3>3. QED
      BY <2>4, <3>2, Zenon
  <2>6. approval[a] # Wiped
    BY <2>3, <2>4 DEF ApprovalRows
  <2>7. moment[d] < approval[a].expires_at
    BY <2>5, <2>6 DEF BoundTo
  <2>8. approval[a] \in Approval /\ approval[a].expires_at = row[c].expires_at
    BY <2>1, <2>6 DEF RowOK, Asked
  <2>9. moment[d] \in Nat /\ approval[a].expires_at \in Nat
    <3>1. moment[d] \in 0..MaxTime /\ MaxTime \in Nat
      BY <1>1, <2>3, StoreAssumption DEF J, McTypeOK, TypeOK, EffectsTypeOK
    <3>2. QED
      BY <2>8, <3>1 DEF Approval
  <2> HIDE DEF a
  <2>10. QED
    BY <2>1, <2>2, <2>7, <2>8, <2>9
<1>2. J /\ ReadInv => ExpiredUnspentIsOver
  <2> SUFFICES ASSUME J, ReadInv, NEW c \in Calls, NEW d \in Calls, answer[c] # None,
                      answer[c].state = "expired", d \in Effects,
                      effect[d].approval_id = message[c].approval_id
               PROVE  moment[d] < answer[c].at
    BY DEF ExpiredUnspentIsOver
  <2>1. QED
    BY <1>1
<1>3. QED
  BY <1>2, ReadInvariant, PTL

\* Asking again, after an answer, never shows an earlier state of an approval,
\* whichever agents ask (the order of the two tests in read_approval, and
\* consumed_at, which nothing unsets).
THEOREM StatesGoForward == McSpec => []LifecycleGoesForward
<1>1. ASSUME J, ReadInv, NEW c \in Calls, NEW d \in Calls,
             answer[c] # None, answer[d] # None,
             message[c].approval_id = message[d].approval_id,
             answer[c].at < verified[d],
             answer[c].state \in {"pending", "expired", "consumed"},
             answer[d].state \in {"pending", "expired", "consumed"}
      PROVE  /\ answer[c].state = "consumed" => answer[d].state = "consumed"
             /\ answer[c].state = "expired" => answer[d].state # "pending"
  <2>1. /\ ShownRow(c) /\ ShownRow(d) /\ PairOK(c, d) /\ RowOK(c) /\ RowOK(d)
        /\ answer[c].at \in Nat /\ answer[d].at \in Nat
        /\ verified[d] <= answer[d].at
        /\ answer[c].state = StateOf(row[c], row[c].subject, answer[c].at)
        /\ answer[d].state = StateOf(row[d], row[d].subject, answer[d].at)
    BY <1>1 DEF ReadInv, AnswerOK
  <2>2. /\ row[c].expires_at = row[d].expires_at
        /\ row[c].consumed_at # None => row[d].consumed_at # None
    BY <1>1, <2>1 DEF PairOK, Asked
  <2>3. row[c].expires_at \in Nat
    BY <2>1 DEF RowOK, Approval
  <2>4. verified[d] \in Nat
    <3>1. stage[d] # "idle" /\ RequestOK(d)
      BY <1>1, <2>1, SeenHasArrived DEF ShownRow, J, McInv
    <3>2. QED
      BY <3>1 DEF RequestOK
  <2>5. row[d].expires_at <= answer[c].at => row[d].expires_at <= answer[d].at
    BY <1>1, <2>1, <2>2, <2>3, <2>4
  <2>6. answer[c].state = "consumed" => answer[d].state = "consumed"
    BY <2>1, <2>2 DEF StateOf, ShownRow
  <2>7. answer[c].state = "expired" => answer[d].state # "pending"
    BY <2>1, <2>2, <2>5 DEF StateOf
  <2>8. QED
    BY <2>6, <2>7
<1>2. J /\ ReadInv => LifecycleGoesForward
  <2> SUFFICES ASSUME J, ReadInv, NEW c \in Calls, NEW d \in Calls,
                      answer[c] # None, answer[d] # None,
                      message[c].approval_id = message[d].approval_id,
                      answer[c].at < verified[d],
                      NEW i \in 1..3, NEW j \in 1..3,
                      answer[c].state = Lifecycle[i], answer[d].state = Lifecycle[j]
               PROVE  i <= j
    BY DEF LifecycleGoesForward, Lifecycle
  <2>1. /\ answer[c].state \in {"pending", "expired", "consumed"}
        /\ answer[d].state \in {"pending", "expired", "consumed"}
    BY DEF Lifecycle
  <2>2. /\ answer[c].state = "consumed" => answer[d].state = "consumed"
        /\ answer[c].state = "expired" => answer[d].state # "pending"
    BY <1>1, <2>1
  <2>3. QED
    BY <2>2 DEF Lifecycle
<1>3. QED
  BY <1>2, ReadInvariant, PTL

-----------------------------------------------------------------------------
(* What the console shows.                                                 *)

LEMMA Ranks ==
    /\ Rank("pending") = 1
    /\ Rank("expired") = 2
    /\ Rank("consumed") = 3
BY DEF Rank, Lifecycle

\* The human's list may lag behind what an agent is told, never run ahead, and
\* the two never differ over what is spent (list_approvals with its own now,
\* and read_approval).
THEOREM TheConsoleOnlyLags == McSpec => []ConsoleOnlyLags
<1>1. ASSUME J, NEW a \in ApprovalRows, NEW now \in 0..clock
      PROVE  LET toTheHuman == ApprovalState(a, now)
                 toTheAgent == StateOf(approval[a], approval[a].subject, clock)
             IN  /\ Rank(toTheHuman) <= Rank(toTheAgent)
                 /\ toTheHuman = "consumed" <=> toTheAgent = "consumed"
  <2>1. approval[a] \in Approval /\ approval[a] \notin {Unissued, Wiped}
    BY <1>1 DEF ApprovalRows, J, McTypeOK, TypeOK, StoreTypeOK
  <2>2. approval[a].expires_at \in Nat /\ clock \in Nat /\ now \in Nat /\ now <= clock
    BY <1>1, <2>1 DEF Approval, J, McInv
  <2>3. QED
    BY <2>1, <2>2, Ranks DEF ApprovalState, StateOf
<1>2. J => ConsoleOnlyLags
  BY <1>1 DEF ConsoleOnlyLags
<1>3. QED
  BY <1>2, ServerInvariant, PTL

\* A call's answer is its verdict's refusal, or, past it, the ceiling's or the
\* approval's; an irreversible tool is only ever allowed with an effect.
OutcomeOK(c) ==
    outcome[c] # None =>
        IF Verdict(c).decision = "denied"
        THEN outcome[c].reason = Verdict(c).reason
        ELSE /\ outcome[c].reason \in {None, "rate_limited", "approval_required",
                                       "approval_expired", "approval_already_consumed"}
             /\ req[c].tool \notin IRREVERSIBLE_TOOLS =>
                  outcome[c].reason \in {None, "rate_limited"}
             /\ req[c].tool \in IRREVERSIBLE_TOOLS /\ outcome[c].reason = None => Won(c)

OutcomesOK == \A c \in Calls : OutcomeOK(c)

LEMMA OutcomesInit == Init => OutcomesOK
BY DEF Init, EffectsInit, OutcomesOK, OutcomeOK

LEMMA OutcomeKept ==
    ASSUME NEW c \in Calls, OutcomeOK(c),
           outcome'[c] = outcome[c], req'[c] = req[c], moment'[c] = moment[c]
    PROVE  OutcomeOK(c)'
<1>1. Verdict(c)' = Verdict(c)
  BY DEF Verdict
<1>2. QED
  BY <1>1 DEF OutcomeOK, Won

LEMMA OutcomeForgotten ==
    ASSUME NEW c \in Calls, outcome'[c] = None
    PROVE  OutcomeOK(c)'
BY DEF OutcomeOK

\* The answers a call can get once its verdict is "allowed".
LEMMA OutcomePastVerdict ==
    ASSUME NEW c \in Calls, Verdict(c).decision = "allowed",
           req'[c] = req[c], moment'[c] = moment[c],
           \/ outcome'[c] = None
           \/ outcome'[c] = Denied("rate_limited")
           \/ /\ req[c].tool \notin IRREVERSIBLE_TOOLS
              /\ outcome'[c] = Allowed
           \/ /\ req[c].tool \in IRREVERSIBLE_TOOLS
              /\ \/ outcome'[c] = Denied("approval_expired")
                 \/ outcome'[c] = Denied("approval_required")
                 \/ \E a \in ApprovalIds : outcome'[c] = DeniedFor("approval_already_consumed", a)
                 \/ \E a \in ApprovalIds : outcome'[c] = AllowedBy(a, c)
    PROVE  OutcomeOK(c)'
<1>1. Verdict(c)' = Verdict(c)
  BY DEF Verdict
<1>2. c # None
  BY StoreAssumption
<1>3. /\ Denied("rate_limited").reason = "rate_limited"
      /\ Denied("approval_expired").reason = "approval_expired"
      /\ Denied("approval_required").reason = "approval_required"
      /\ \A a : DeniedFor("approval_already_consumed", a).reason = "approval_already_consumed"
      /\ Allowed.reason = None
      /\ \A a : AllowedBy(a, c).reason = None /\ AllowedBy(a, c).effect_id = c
  BY DEF Denied, DeniedFor, Allowed, AllowedBy
<1>4. /\ None # "approval_expired" /\ None # "approval_required" /\ None # "rate_limited"
      /\ None # "approval_already_consumed"
  BY NoneAssumption DEF DENIAL_REASONS
<1> HIDE DEF Verdict
<1>5. QED
  BY <1>1, <1>2, <1>3, <1>4 DEF OutcomeOK, Won

LEMMA OutcomeOfCall ==
    ASSUME IInv, OutcomesOK, NEW c \in Calls, CallStep(c)
    PROVE  OutcomesOK'
<1>1. /\ pc \in [Calls -> {"idle"} \cup Active \cup Ended]
      /\ req \in [Calls -> Requests \cup {None}]
      /\ moment \in [Calls -> 0..MaxTime]
      /\ outcome \in [Calls -> Outcome \cup {None}]
      /\ found \in [Calls -> ApprovalIds \cup {None}]
      /\ CallOK(c)
  BY DEF IInv, TypeOK, EffectsTypeOK, CallsOK
<1>2. OnlyCall(c)
  BY CallSteps, BeforeCommit, AtCommit
<1>3. ASSUME NEW d \in Calls \ {c} PROVE OutcomeOK(d)'
  BY <1>2, <1>3, OutcomeKept DEF OnlyCall, SameCall, OutcomesOK
<1>4. ASSUME NEW r \in Requests, CallTool(c, r) PROVE OutcomeOK(c)'
  <2> DEFINE v == VerdictOn(r, clock)
  <2>1. /\ Verdict(c)' = v
        /\ req'[c] = r
        /\ outcome[c] = None
    BY <1>1, <1>4 DEF CallTool, Verdict, CallOK
  <2>2. \/ v.decision = "denied" /\ outcome'[c] = Denied(v.reason)
        \/ /\ v.decision = "allowed"
           /\ \/ outcome'[c] = None
              \/ r.tool \notin IRREVERSIBLE_TOOLS /\ outcome'[c] = Allowed
    BY <1>1, <1>4, <2>1 DEF CallTool, Decide, Route, GoTo
  <2>3. Denied(v.reason).reason = v.reason /\ Allowed.reason = None
    BY DEF Denied, Allowed
  <2> HIDE DEF v
  <2>4. QED
    BY <2>1, <2>2, <2>3 DEF OutcomeOK
<1>5. ASSUME Raise(c) \/ Fail(c) PROVE OutcomeOK(c)'
  <2>1. outcome'[c] = None
    BY <1>1, <1>5 DEF Fail, Raise
  <2>2. QED
    BY <2>1, OutcomeForgotten
<1>6. ASSUME Commit(c) \/ CommitReplyLost(c) PROVE OutcomeOK(c)'
  BY <1>6, AtCommit, OutcomeKept DEF OutcomesOK
<1>7. ASSUME ConsumeQuota(c) \/ Lookup(c) \/ Consume(c) \/ InsertEffect(c), ~Raise(c)
      PROVE  OutcomeOK(c)'
  <2>1. /\ outcome[c] = None
        /\ Verdict(c).decision = "allowed"
        /\ pc[c] \in {"lookup", "consume", "insert"} => req[c].tool \in IRREVERSIBLE_TOOLS
        /\ pc[c] \in {"consume", "insert"} => found[c] \in ApprovalIds
    BY <1>1, <1>7 DEF ConsumeQuota, Lookup, Consume, InsertEffect, CallOK, BoundTo
  <2>2. UNCHANGED <<req, moment>>
    BY <1>7 DEF ConsumeQuota, Lookup, Consume, InsertEffect
  <2>3. CASE ConsumeQuota(c)
    <3>1. \/ outcome'[c] = None
          \/ outcome'[c] = Denied("rate_limited")
          \/ req[c].tool \notin IRREVERSIBLE_TOOLS /\ outcome'[c] = Allowed
      BY <1>1, <2>1, <2>3 DEF ConsumeQuota, Decide, Route, GoTo
    <3>2. QED
      BY <2>1, <2>2, <3>1, OutcomePastVerdict
  <2>4. CASE Lookup(c)
    <3>1. \/ outcome'[c] = None
          \/ outcome'[c] = Denied("approval_expired")
          \/ outcome'[c] = Denied("approval_required")
      BY <1>1, <1>7, <2>1, <2>4 DEF Lookup, Decide, GoTo
    <3>2. req[c].tool \in IRREVERSIBLE_TOOLS
      BY <2>1, <2>4 DEF Lookup
    <3>3. QED
      BY <2>1, <2>2, <3>1, <3>2, OutcomePastVerdict
  <2>5. CASE Consume(c)
    <3>1. \/ outcome'[c] = None
          \/ outcome'[c] = DeniedFor("approval_already_consumed", found[c])
      BY <1>1, <2>1, <2>5 DEF Consume, Decide, GoTo
    <3>2. req[c].tool \in IRREVERSIBLE_TOOLS /\ found[c] \in ApprovalIds
      BY <2>1, <2>5 DEF Consume
    <3>3. QED
      BY <2>1, <2>2, <3>1, <3>2, OutcomePastVerdict
  <2>6. CASE InsertEffect(c)
    <3>1. outcome'[c] = AllowedBy(found[c], c)
      BY <1>1, <1>7, <2>6 DEF InsertEffect, Decide
    <3>2. req[c].tool \in IRREVERSIBLE_TOOLS /\ found[c] \in ApprovalIds
      BY <2>1, <2>6 DEF InsertEffect
    <3>3. QED
      BY <2>1, <2>2, <3>1, <3>2, OutcomePastVerdict
  <2>7. QED
    BY <1>7, <2>3, <2>4, <2>5, <2>6
<1>8. OutcomeOK(c)'
  BY <1>4, <1>5, <1>6, <1>7, CallSteps
<1>9. QED
  BY <1>3, <1>8 DEF OutcomesOK

LEMMA OutcomesNext ==
    ASSUME IInv, OutcomesOK, [Next]_vars
    PROVE  OutcomesOK'
<1>1. CASE UNCHANGED callVars
  BY <1>1, OutcomeKept DEF OutcomesOK, callVars
<1>2. CASE \E c \in Calls : CallStep(c)
  BY <1>2, OutcomeOfCall
<1>3. QED
  BY <1>1, <1>2, NextCases DEF GrantStep, OperatorStep

LEMMA OutcomesInvariant == Spec => []OutcomesOK
<1>1. Init => OutcomesOK
  BY OutcomesInit
<1>2. IInv /\ OutcomesOK /\ [Next]_vars => OutcomesOK'
  BY OutcomesNext
<1>3. QED
  BY <1>1, <1>2, BrokerInvariant, PTL DEF Spec

\* Where the screen places the refusals a call can meet behind the transport.
LEMMA Places ==
    /\ DOMAIN STAGES = {1, 2, 3, 4}
    /\ STAGES[1] = "token" /\ STAGES[2] = "audience" /\ STAGES[3] = "scope"
    /\ STAGES[4] = "approval"
    /\ RefusedAt("rate_limited") = {}
    /\ RefusedAt("token_expired") = {1}
    /\ RefusedAt("insufficient_effective_scope") = {3}
    /\ RefusedAt("approval_required") = {4}
    /\ RefusedAt("approval_expired") = {4}
    /\ RefusedAt("approval_already_consumed") = {4}
<1>1. /\ DOMAIN STAGES = {1, 2, 3, 4}
      /\ STAGES[1] = "token" /\ STAGES[2] = "audience" /\ STAGES[3] = "scope"
      /\ STAGES[4] = "approval"
  BY DEF STAGES
<1>2. ASSUME NEW reason
      PROVE  /\ RefusedAt(reason) \subseteq {1, 2, 3, 4}
             /\ 1 \in RefusedAt(reason) <=>
                  reason \in {"signature_invalid", "issuer_unknown", "token_expired",
                              "token_malformed", "unknown_tool"}
             /\ 2 \in RefusedAt(reason) <=> reason = "audience_mismatch"
             /\ 3 \in RefusedAt(reason) <=>
                  reason \in {"delegation_malformed", "insufficient_effective_scope"}
             /\ 4 \in RefusedAt(reason) <=>
                  reason \in {"approval_required", "approval_expired",
                              "approval_already_consumed"}
  BY <1>1 DEF RefusedAt
<1> HIDE DEF RefusedAt
<1>3. QED
  BY <1>1, <1>2

\* How an entry of the hardened policy is drawn.
LEMMA Drawn ==
    ASSUME NEW entry, entry.policy = "hardened", NEW i \in DOMAIN STAGES
    PROVE  /\ entry.reason = None => Mark(entry, i) = "passed"
           /\ entry.reason = "rate_limited" => Mark(entry, i) = "unknown"
           /\ entry.reason = "token_expired" =>
                Mark(entry, i) = IF i = 1 THEN "refused" ELSE "unreached"
           /\ entry.reason = "insufficient_effective_scope" =>
                Mark(entry, i) = IF i < 3 THEN "passed" ELSE IF i = 3 THEN "refused"
                                 ELSE "unreached"
           /\ entry.reason \in {"approval_required", "approval_expired",
                                "approval_already_consumed"} =>
                Mark(entry, i) = IF i < 4 THEN "passed" ELSE "refused"
<1>1. Performs(entry.policy, STAGES[i])
  BY DEF Performs
<1>2. i \in {1, 2, 3, 4}
  BY Places
<1>3. /\ None # "rate_limited" /\ None # "token_expired"
      /\ None # "insufficient_effective_scope" /\ None # "approval_required"
      /\ None # "approval_expired" /\ None # "approval_already_consumed"
  BY NoneAssumption DEF DENIAL_REASONS
<1> HIDE DEF RefusedAt, Performs, STAGES
<1>4. QED
  BY <1>1, <1>2, <1>3, Places DEF Mark

\* What a call's verdict says of its token, its audience and its scope.
LEMMA VerdictTells ==
    ASSUME J, NEW c \in Calls, pc[c] # "idle"
    PROVE  /\ Holds("audience", c)
           /\ Verdict(c).reason = "token_expired" => ~Holds("token", c)
           /\ Verdict(c).reason = "insufficient_effective_scope" =>
                Holds("token", c) /\ ~Holds("scope", c)
           /\ Verdict(c).decision = "allowed" => Holds("token", c) /\ Holds("scope", c)
<1> DEFINE m == message[c]
           judged == VerifyToken(m.token, moment[c])
           why == Refusal(HARDENED, judged.claims, m.tool, ThisServer, moment[c])
<1>1. /\ m \in Messages
      /\ m.tool \in DOMAIN TOOL_SCOPES
      /\ ThisServer \in m.token.aud.names
      /\ judged.failure \in {None, "token_expired"}
      /\ judged.failure = "token_expired" => m.token.exp <= moment[c]
      /\ Verdict(c) = Authorize(HARDENED, judged, m.tool, ThisServer, moment[c])
  BY CalledRequest DEF Tools
<1>2. req[c] = CallOf(m)
  BY DEF J, McInv, RequestOK
<1>3. req[c].token = m.token /\ req[c].tool = m.tool
  BY <1>2 DEF CallOf
<1>4. judged.claims = VerifyToken(m.token, 0).claims /\ judged.claims.expires_at = m.token.exp
  BY DEF VerifyToken
<1>5. ASSUME judged.failure = None
      PROVE  /\ NoCandidateKey(m.token) = None
             /\ JwtDecodeFailure(m.token, moment[c]) = None
             /\ Chain(m.token).failure = None
  BY <1>5, NoneAssumption DEF VerifyToken, VerificationFailure, DENIAL_REASONS
<1>6. m.token.exp <= moment[c] => JwtDecodeFailure(m.token, moment[c]) # None
  BY NoneAssumption DEF JwtDecodeFailure, DENIAL_REASONS
<1>7. /\ why = "token_expired" => m.token.exp <= moment[c]
      /\ why = "insufficient_effective_scope" =>
           TOOL_SCOPES[m.tool] \notin EffectiveScopes(judged.claims, TRUE)
      /\ why = None => TOOL_SCOPES[m.tool] \in EffectiveScopes(judged.claims, TRUE)
  <2>1. HARDENED.attenuate_chain = TRUE
    BY DEF HARDENED
  <2> HIDE DEF m, judged
  <2>2. QED
    BY <1>4, <2>1, NoneAssumption DEF Refusal, DENIAL_REASONS, why
<1> HIDE DEF m, judged, why
<1>8. /\ Verdict(c).reason = IF judged.failure # None THEN judged.failure ELSE why
      /\ Verdict(c).decision = "allowed" => Verdict(c).reason = None
  BY <1>1 DEF Authorize, why
<1>9. Holds("audience", c)
  BY <1>1, <1>3 DEF Holds
<1>10. Holds("token", c) <=> /\ NoCandidateKey(m.token) = None
                             /\ JwtDecodeFailure(m.token, moment[c]) = None
  BY <1>3 DEF Holds
<1>11. Holds("scope", c) <=> /\ Chain(m.token).failure = None
                             /\ TOOL_SCOPES[m.tool] \in EffectiveScopes(judged.claims, TRUE)
  BY <1>3, <1>4 DEF Holds
<1>12. None # "token_expired" /\ None # "insufficient_effective_scope"
  BY NoneAssumption DEF DENIAL_REASONS
<1>13. QED
  BY <1>1, <1>5, <1>6, <1>7, <1>8, <1>9, <1>10, <1>11, <1>12

\* The audit screen's marks are true of every call in the trail: what is drawn
\* as the check that refused did not hold, and what is drawn as passed did
\* (STAGE_OF_REASON and marks in audit.tsx, against what call_tool decided).
THEOREM MarksTellTheTruth == McSpec => []MarksAreTrue
<1>1. ASSUME J, AuditOK, OutcomesOK, DoorsAgree, NEW c \in Audited
      PROVE  /\ \A i \in DOMAIN STAGES :
                   LET mark == Mark(AuditEntry(c), i) IN
                     /\ mark = "refused" => ~Holds(STAGES[i], c)
                     /\ mark = "passed" =>
                          \/ Holds(STAGES[i], c)
                          \/ STAGES[i] = "approval" /\ req[c].tool \notin IRREVERSIBLE_TOOLS
             /\ audit[c].reason \notin {None, "rate_limited"} =>
                   \E i \in DOMAIN STAGES : Mark(AuditEntry(c), i) = "refused"
  <2> DEFINE entry == AuditEntry(c)
  <2>1. c \in Calls /\ audit[c] # None
    BY DEF Audited
  <2>2. Committed(c) /\ audit[c] = AuditOf(c) /\ OutcomeOK(c)
    BY <1>1, <2>1 DEF AuditOK, OutcomesOK
  <2>3. pc[c] # "idle" /\ outcome[c] # None /\ CallOK(c)
    BY <1>1, <2>1, <2>2 DEF Committed, J, IInv, CallsOK, CallOK
  <2>4. entry.reason = outcome[c].reason /\ audit[c].reason = entry.reason
    BY <2>2 DEF AuditEntry, AuditOf
  <2>5. entry.policy = "hardened"
    BY McAssumption DEF AuditEntry, HARDENED
  <2>6. Holds("approval", c) <=> Won(c)
    <3>1. Won(c) => (c \in Effects <=> audit[c] # None)
      BY <1>1, <2>1, <2>2 DEF AuditOK
    <3>2. c \in Effects => Won(c)
      BY <1>1 DEF J, IInv, LedgerOK
    <3>3. QED
      BY <2>1, <3>1, <3>2 DEF Holds, Effects
  <2>7. Won(c) => outcome[c].reason = None
    BY <2>3 DEF CallOK, AllowedBy, Allowed
  <2>8. Verdict(c).reason \in {None, "token_expired", "insufficient_effective_scope"}
    BY <1>1, <2>1, <2>3 DEF DoorsAgree
  <2>9. /\ Verdict(c).decision \in {"allowed", "denied"}
        /\ Verdict(c).decision = "denied" => Verdict(c).reason # None
    BY DEF Verdict, VerdictOn, Authorize
  <2> HIDE DEF entry
  <2>10. CASE Verdict(c).decision = "denied"
    <3>1. entry.reason = Verdict(c).reason
      BY <2>2, <2>3, <2>4, <2>10 DEF OutcomeOK
    <3>2. CASE entry.reason = "token_expired"
      <4>1. ~Holds("token", c)
        BY <1>1, <2>1, <2>3, <3>1, <3>2, VerdictTells
      <4>2. \A i \in DOMAIN STAGES :
               Mark(entry, i) = IF i = 1 THEN "refused" ELSE "unreached"
        BY <2>5, <3>2, Drawn
      <4>3. QED
        BY <2>4, <3>2, <4>1, <4>2, Places DEF entry
    <3>3. CASE entry.reason = "insufficient_effective_scope"
      <4>1. Holds("token", c) /\ Holds("audience", c) /\ ~Holds("scope", c)
        BY <1>1, <2>1, <2>3, <3>1, <3>3, VerdictTells
      <4>2. QED
        BY <2>4, <2>5, <3>3, <4>1, Drawn, Places DEF entry
    <3>4. QED
      BY <2>8, <2>9, <2>10, <3>1, <3>2, <3>3
  <2>11. CASE Verdict(c).decision = "allowed"
    <3>1. Holds("token", c) /\ Holds("audience", c) /\ Holds("scope", c)
      BY <1>1, <2>1, <2>3, <2>11, VerdictTells
    <3>2. /\ entry.reason \in {None, "rate_limited", "approval_required",
                               "approval_expired", "approval_already_consumed"}
          /\ req[c].tool \in IRREVERSIBLE_TOOLS /\ entry.reason = None => Won(c)
      BY <2>2, <2>3, <2>4, <2>11 DEF OutcomeOK
    <3>3. CASE entry.reason = None
      BY <2>4, <2>5, <2>6, <3>1, <3>2, <3>3, Drawn, Places DEF entry
    <3>4. CASE entry.reason = "rate_limited"
      BY <2>4, <2>5, <3>4, Drawn, Places DEF entry
    <3>5. CASE entry.reason \in {"approval_required", "approval_expired",
                                 "approval_already_consumed"}
      <4>1. ~Holds("approval", c)
        BY <2>4, <2>6, <2>7, <3>5, NoneAssumption DEF DENIAL_REASONS
      <4>2. QED
        BY <2>4, <2>5, <3>1, <3>5, <4>1, Drawn, Places DEF entry
    <3>6. QED
      BY <3>2, <3>3, <3>4, <3>5
  <2>12. QED
    BY <2>9, <2>10, <2>11
<1>2. J /\ AuditOK /\ OutcomesOK /\ DoorsAgree => MarksAreTrue
  BY <1>1 DEF MarksAreTrue
<1>3. FullInv => AuditOK
  BY DEF FullInv
<1>4. QED
  BY <1>2, <1>3, ServerInvariant, ServerImplementsBroker, FullInvariant, OutcomesInvariant,
     TheDoorsAgree, PTL DEF ImplementsBroker
===============================================================================
