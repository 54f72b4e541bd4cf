------------------------------- MODULE McServer -------------------------------
(***************************************************************************)
(* The MCP resource server (mcp_server.py) in front of the broker.  Every  *)
(* HTTP request passes BrokerTokenVerifier first: a bearer string that is  *)
(* not authentic, or not addressed to this server, is refused there with   *)
(* an audit row of its own, and the tools never see it.  What gets through *)
(* is routed to a tool, and three of the six tools hand the same bearer    *)
(* string to call_tool, which judges it again at a later time.             *)
(*                                                                         *)
(*   idle -> refusing -> refused                                           *)
(*        -> accepted -> called (then pc[c] goes on) | reading -> answered *)
(*   and, cut short, refusing | accepted | reading -> broken               *)
(*                                                                         *)
(* A request and the call_tool it makes, if any, share an element of Calls.*)
(* The audit rows the transport writes are kept apart from call_tool's, so *)
(* that every step here is a step of Broker or leaves its variables alone. *)
(***************************************************************************)
EXTENDS Broker

CONSTANT Messages   \* what agents post: [token, tool, account, amount, approval_id]

VARIABLES
    stage,          \* how far each request has got
    message,        \* what it posted
    verified,       \* the time verify_token read for it
    row,            \* the approval row its read_approval has fetched
    answer,         \* what a tool that makes no call answered
    refused,        \* rows of audit_event the transport wrote
    doomedRefusals  \* those the reset's DELETE FROM audit_event saw

requestVars == <<stage, message, verified, row, answer>>
trailVars   == <<refused, doomedRefusals>>
mcVars      == <<vars, requestVars, trailVars>>

\* The tools with no scope requirement, and so with no decision to delegate.
OpenTools == {"ping", "request_approval", "read_approval"}

\* The call_tool invocation a message leads to.
CallOf(m) == [token |-> m.token, tool |-> m.tool, account |-> m.account, amount |-> m.amount]

\* The row record_transport_refusal inserts: the tool is not known, no scope
\* was required and none established, so all that varies is why and who.
TransportRow ==
    [reason : DENIAL_REASONS, subject : Subjects \cup {None}]

\* What a tool that makes no call answers.
Answer ==
    [subject : Subjects, state : {"identity", "not_granted", "not_found", "pending",
                                  "expired", "consumed"}, at : 0..MaxTime]

\* create_server always enforces the hardened policy.
ASSUME McAssumption ==
    /\ Policy = HARDENED
    /\ None \notin Messages
    /\ None \notin TransportRow
    /\ \A m \in Messages : /\ m.tool \in Tools \cup OpenTools
                           /\ m.token.sub \in Subjects
                           /\ m.token.iat \in Int
                           /\ m.token.exp \in Int
                           /\ m.tool \in Tools => CallOf(m) \in Requests
                           /\ m.approval_id \in ApprovalIds

-----------------------------------------------------------------------------
\* The leaf's own claim, which the chain may have narrowed.
AccessToken_LeafScopes(token) ==
    LET claims == VerifyToken(token, 0).claims
    IN  [subject |-> claims.subject, scopes |-> claims.scopes]

\* What code behind the transport reads of a token: its subject and the
\* attenuated scopes.  The claims of a token do not depend on the time.
AccessToken(token) ==
    LET claims == VerifyToken(token, 0).claims
    IN  [subject |-> claims.subject, scopes |-> EffectiveScopes(claims, TRUE)]

\* The audience is reported in the access token and left to others to check.
TransportRefusal_AudienceOnlyReported(token, now) ==
    LET failure == VerifyToken(token, now).failure
    IN  IF failure # None THEN [reason |-> failure, subject |-> None] ELSE None

\* A token that did not authenticate still names its subject in the trail.
TransportRefusal_NamesAssertedSubject(token, now) ==
    LET judged == VerifyToken(token, now)
    IN  IF judged.failure # None
        THEN [reason |-> judged.failure, subject |-> judged.claims.subject]
        ELSE IF ThisServer \notin judged.claims.audience
        THEN [reason |-> "audience_mismatch", subject |-> judged.claims.subject]
        ELSE None

\* BrokerTokenVerifier.verify_token: the audit row of the refusal, or None.
\* A token that did not authenticate names nobody.
TransportRefusal(token, now) ==
    LET judged == VerifyToken(token, now)
    IN  IF judged.failure # None
        THEN [reason |-> judged.failure, subject |-> None]
        ELSE IF ThisServer \notin judged.claims.audience
        THEN [reason |-> "audience_mismatch", subject |-> judged.claims.subject]
        ELSE None

McInit ==
    /\ Init
    /\ stage = [c \in Calls |-> "idle"]
    /\ message = [c \in Calls |-> None]
    /\ verified = [c \in Calls |-> 0]
    /\ row = [c \in Calls |-> None]
    /\ answer = [c \in Calls |-> None]
    /\ refused = [c \in Calls |-> None]
    /\ doomedRefusals = {}

McTypeOK ==
    /\ TypeOK
    /\ stage \in [Calls -> {"idle", "refusing", "refused", "accepted", "called", "reading",
                            "answered", "broken"}]
    /\ message \in [Calls -> Messages \cup {None}]
    /\ verified \in [Calls -> 0..MaxTime]
    /\ row \in [Calls -> Approval \cup {Unissued, Wiped, None}]
    /\ answer \in [Calls -> Answer \cup {None}]
    /\ refused \in [Calls -> TransportRow \cup {None}]
    /\ doomedRefusals \subseteq Calls

MoveTo(c, label) == stage' = [stage EXCEPT ![c] = label]

\* A request arrives.
VerifyBearer(c, m) ==
    /\ stage[c] = "idle"
    /\ message' = [message EXCEPT ![c] = m]
    /\ verified' = [verified EXCEPT ![c] = clock]
    /\ MoveTo(c, IF TransportRefusal(m.token, clock) = None THEN "accepted" ELSE "refusing")
    /\ UNCHANGED <<vars, row, answer, trailVars>>

\* The refusal is recorded and the request goes on all the same.
RecordTransportRefusal_FallsThrough(c) ==
    /\ stage[c] = "refusing"
    /\ \/ refused' = [refused EXCEPT ![c] =
                        TransportRefusal(message[c].token, verified[c])]
       \/ UNCHANGED refused
    /\ MoveTo(c, "accepted")
    /\ UNCHANGED <<vars, message, verified, row, answer, doomedRefusals>>

\* The refusal's audit row is written in a transaction of its own, or lost
\* with the database; the request is refused either way (suppress(Exception)).
RecordTransportRefusal(c) ==
    /\ stage[c] = "refusing"
    /\ \/ refused' = [refused EXCEPT ![c] =
                        TransportRefusal(message[c].token, verified[c])]
       \/ UNCHANGED refused
    /\ MoveTo(c, "refused")
    /\ UNCHANGED <<vars, message, verified, row, answer, doomedRefusals>>
-----------------------------------------------------------------------------
\* The moment the transport read is handed on with the token.
HandToCallTool_MomentOfTheTransport(c) ==
    /\ stage[c] = "accepted"
    /\ message[c].tool \in Tools
    /\ pc[c] = "idle"
    /\ req' = [req EXCEPT ![c] = CallOf(message[c])]
    /\ moment' = [moment EXCEPT ![c] = verified[c]]
    /\ GoTo(c, "quota")
    /\ MoveTo(c, "called")
    /\ UNCHANGED <<clock, tables, locks, used, found, resetVars, message, verified, row, answer,
                   trailVars>>

\* read_account, flag_account, issue_credit: the raw token is handed on.
HandToCallTool(c) ==
    /\ stage[c] = "accepted"
    /\ message[c].tool \in Tools
    /\ CallTool(c, CallOf(message[c]))
    /\ MoveTo(c, "called")
    /\ UNCHANGED <<resetVars, message, verified, row, answer, trailVars>>

Reply(c, state) ==
    /\ MoveTo(c, "answered")
    /\ answer' = [answer EXCEPT ![c] =
           [subject |-> AccessToken(message[c].token).subject, state |-> state, at |-> clock]]

\* ping says who the server is; request_approval echoes and grants nothing.
PingOrRequestApproval(c) ==
    /\ stage[c] = "accepted"
    /\ \/ message[c].tool = "ping" /\ Reply(c, "identity")
       \/ message[c].tool = "request_approval" /\ Reply(c, "not_granted")
    /\ UNCHANGED <<vars, message, verified, row, trailVars>>

\* The read of a session that sees what a call is about to commit.
GetApproval_Dirty(c) ==
    /\ stage[c] = "accepted"
    /\ message[c].tool = "read_approval"
    /\ LET a == message[c].approval_id
       IN  row' = [row EXCEPT ![c] =
                     IF rowLock[a] \in Calls
                     THEN [approval[a] EXCEPT !.consumed_at = moment[rowLock[a]]]
                     ELSE approval[a]]
    /\ MoveTo(c, "reading")
    /\ UNCHANGED <<vars, message, verified, answer, trailVars>>

\* read_approval: get_approval fetches the row by its id alone ...
GetApproval(c) ==
    /\ stage[c] = "accepted"
    /\ message[c].tool = "read_approval"
    /\ row' = [row EXCEPT ![c] = approval[message[c].approval_id]]
    /\ MoveTo(c, "reading")
    /\ UNCHANGED <<vars, message, verified, answer, trailVars>>

\* Expiry is looked at first.
StateOf_ExpiryFirst(found_row, subject, now) ==
    IF found_row \in {Unissued, Wiped} \/ found_row.subject # subject THEN "not_found"
    ELSE IF found_row.expires_at <= now THEN "expired"
    ELSE IF found_row.consumed_at # None THEN "consumed"
    ELSE "pending"

\* ... and the caller is shown its own, as it stands against the clock now.
StateOf(found_row, subject, now) ==
    IF found_row \in {Unissued, Wiped} \/ found_row.subject # subject THEN "not_found"
    ELSE IF found_row.consumed_at # None THEN "consumed"
    ELSE IF found_row.expires_at <= now THEN "expired"
    ELSE "pending"

ReadApproval(c) ==
    /\ stage[c] = "reading"
    /\ Reply(c, StateOf(row[c], AccessToken(message[c].token).subject, clock))
    /\ UNCHANGED <<vars, message, verified, row, trailVars>>

\* The database fails under a read, or the client goes away and the request is
\* cancelled.  suppress(Exception) does not hold a cancellation back, so this
\* can also cut short the write of a refusal, before its commit or after it.
RequestBreaks(c) ==
    /\ stage[c] \in {"refusing", "accepted", "reading"}
    /\ \/ UNCHANGED refused
       \/ /\ stage[c] = "refusing"
          /\ refused' = [refused EXCEPT ![c] =
                           TransportRefusal(message[c].token, verified[c])]
    /\ MoveTo(c, "broken")
    /\ UNCHANGED <<vars, message, verified, row, answer, doomedRefusals>>
-----------------------------------------------------------------------------
\* What goes on inside call_tool once a request has reached it.
CallGoesOn(c) ==
    /\ Step(c) \/ CommitReplyLost(c) \/ Fail(c)
    /\ UNCHANGED <<resetVars, requestVars, trailVars>>

\* A reset deletes the transport's audit rows as it deletes call_tool's: those
\* its DELETE saw, when it commits.
ResetSeesRefusals ==
    /\ ResetAudit
    /\ doomedRefusals' = {c \in Calls : refused[c] # None}
    /\ UNCHANGED <<callVars, requestVars, refused>>

ResetForgetsRefusals ==
    /\ ResetCommit
    /\ refused' = [c \in Calls |-> IF c \in doomedRefusals THEN None ELSE refused[c]]
    /\ doomedRefusals' = {}
    /\ UNCHANGED <<callVars, requestVars>>

ResetGoesOn ==
    /\ \/ ResetBegins
       \/ ResetApprovals
       \/ \E a \in ApprovalIds : ResetLockApproval(a)
       \/ ResetForeignKey
       \/ ResetCounters
       \/ \E b \in Buckets : ResetLockCounter(b)
       \/ ResetFail
    /\ doomedRefusals' = IF resetPc' = "idle" THEN {} ELSE doomedRefusals
    /\ UNCHANGED <<callVars, requestVars, refused>>

DeadlockBroken(c) ==
    /\ DeadlockDetector(c)
    /\ doomedRefusals' = IF resetPc' = "idle" THEN {} ELSE doomedRefusals
    /\ UNCHANGED <<requestVars, refused>>

\* Every request has had its answer and no reset is under way.
McFinished ==
    /\ \A c \in Calls : \/ stage[c] \in {"refused", "answered", "broken"}
                        \/ stage[c] = "called" /\ pc[c] \in Ended
    /\ resetPc = "idle"
    /\ UNCHANGED mcVars

RequestStep(c) ==
    \/ RecordTransportRefusal(c)
    \/ HandToCallTool(c)
    \/ PingOrRequestApproval(c)
    \/ GetApproval(c)
    \/ ReadApproval(c)

McNext ==
    \/ \E c \in Calls :
         \/ \E m \in Messages : VerifyBearer(c, m)
         \/ RequestStep(c)
         \/ RequestBreaks(c)
         \/ CallGoesOn(c)
         \/ DeadlockBroken(c)
    \/ ResetSeesRefusals
    \/ ResetForgetsRefusals
    \/ ResetGoesOn
    \/ GrantStep /\ UNCHANGED <<requestVars, trailVars>>
    \/ Time /\ UNCHANGED <<requestVars, trailVars>>
    \/ McFinished

McSpec == McInit /\ [][McNext]_mcVars

\* A request, a call and a reset that can take their next step take it, and
\* the database breaks a deadlock.  Nobody has to post, grant or reset.
McFairness ==
    /\ \A c \in Calls : WF_mcVars(RequestStep(c))
    /\ \A c \in Calls : WF_mcVars(Step(c) /\ UNCHANGED <<resetVars, requestVars, trailVars>>)
    /\ \A c \in Calls : WF_mcVars(DeadlockBroken(c))
    /\ WF_mcVars(ResetSeesRefusals)
    /\ WF_mcVars(ResetForgetsRefusals)
    /\ WF_mcVars(ResetGoesOn /\ ResetStep)

McFairSpec == McSpec /\ McFairness

-----------------------------------------------------------------------------
(***************************************************************************)
(* What must hold of the two doors a token passes, and of the trail.       *)
(***************************************************************************)

\* The two doors agree: what the transport let through, call_tool refuses only
\* because time has passed or because the chain does not carry the tool's
\* scope, never for its signature, issuer, shape or audience (the SDK has one
\* answer for all of those, 401, and call_tool another).
DoorsAgree ==
    \A c \in Calls :
        pc[c] # "idle" =>
            /\ Verdict(c).reason \in {None, "token_expired", "insufficient_effective_scope"}
            /\ Verdict(c).reason = "token_expired" =>
                 verified[c] < message[c].token.exp /\ message[c].token.exp <= moment[c]

\* Nothing downstream of the transport reads wider authority from the access
\* token than the decision was made on (the docstring of BrokerTokenVerifier).
ScopesReportedAreScopesDecided ==
    \A c \in Calls :
        (pc[c] # "idle" /\ Verdict(c).subject # None) =>
            /\ AccessToken(message[c].token).scopes = Verdict(c).effective_scopes
            /\ AccessToken(message[c].token).subject = Verdict(c).subject

\* Signed by a key of the issuer it names, and whole.
Authentic(token) ==
    \E t \in 0..MaxTime : VerifyToken(token, t).failure = None

\* A subject appears in the audit trail, whichever door wrote the row, only
\* when its token authenticated: an asserted name is never recorded as an
\* established one (mcp_server.py:243).
AuditSubjectsAreVerified ==
    \A c \in Calls :
        /\ (refused[c] # None /\ refused[c].subject # None) => Authentic(message[c].token)
        /\ (audit[c] # None /\ audit[c].subject # None) => Authentic(message[c].token)

\* No tool answers, and call_tool is not entered, for a token that is not
\* authentic or is addressed to somebody else: also not the tools that never
\* reach authorize (the hole mcp_server.py:232 tells of).
NothingForStrangers ==
    \A c \in Calls :
        (answer[c] # None \/ pc[c] # "idle") =>
            Authentic(message[c].token) /\ ThisServer \in message[c].token.aud.names

\* A request is in the trail once: a row of the transport means that nothing
\* else ever happened for it, whether it was told so or was cancelled while the
\* row was being written.
RefusedOnceAndForAll ==
    \A c \in Calls :
        refused[c] # None => /\ pc[c] = "idle"
                             /\ audit[c] = None
                             /\ answer[c] = None
                             /\ stage[c] \in {"refused", "broken"}

\* An agent told that its approval is consumed can rely on an effect having
\* been paid with it, although the row it saw may since have been reset.
ConsumedWasPaidFor ==
    \A c \in Calls :
        (answer[c] # None /\ answer[c].state = "consumed") =>
            LET a == message[c].approval_id
            IN  approval[a] = Wiped \/ EffectNaming(a) # {}

\* An agent told that its approval has expired unspent can rely on no later
\* call spending it: only one that began before may still be on its way.
ExpiredUnspentIsOver ==
    \A c, d \in Calls :
        ( /\ answer[c] # None
          /\ answer[c].state = "expired"
          /\ d \in Effects
          /\ effect[d].approval_id = message[c].approval_id ) => moment[d] < answer[c].at

\* The lifecycle of an approval, as far as an agent can follow it.
Lifecycle == <<"pending", "expired", "consumed">>

\* Asking again never shows an earlier state: what was consumed is not shown
\* as expired once its time has run out, nor as pending.
LifecycleGoesForward ==
    \A c, d \in Calls :
        ( /\ answer[c] # None /\ answer[d] # None
          /\ message[c].approval_id = message[d].approval_id
          /\ answer[c].at < verified[d] ) =>
            \A i, j \in DOMAIN Lifecycle :
                (answer[c].state = Lifecycle[i] /\ answer[d].state = Lifecycle[j]) => i <= j

\* The server adds nothing to the broker but its own bookkeeping: whatever it
\* does is a step of Broker, or none (the token is handed on unchanged, and
\* no tool but the three that call call_tool touches its tables).
ImplementsBroker == Spec

\* Every request that arrives is refused, answered or broken off, and one that
\* reaches call_tool ends there.
EveryRequestEnds ==
    \A c \in Calls :
        stage[c] # "idle" ~> \/ stage[c] \in {"refused", "answered", "broken"}
                             \/ stage[c] = "called" /\ pc[c] \in Ended
===============================================================================
