-------------------------------- MODULE Smoke --------------------------------
(***************************************************************************)
(* The deployed smoke (deployed_smoke.py): a client that drives every      *)
(* boundary of a running server over MCP, while others may be driving it   *)
(* too, and scores each scenario on the change in irreversible_effect.     *)
(*                                                                         *)
(*   drain -> grant -> before -> run -> (next scenario) drain ... -> over  *)
(*                                                                         *)
(* The script is data: what each scenario drains, grants, posts and        *)
(* expects.  The server is McServer, and answers every request; the script *)
(* is over within one window of the ceiling and the lifetime of a token.   *)
(***************************************************************************)
EXTENDS McServer, TestAuthority, SequencesExt

CONSTANTS
    ProbeCalls,     \* the requests the script can make, in order
    VisitorMessages, \* what other visitors post
    Agent,          \* agent-7, the subject of every token
    Agents,         \* the credential an agent's own token is to the approver route
    MaxDrains,      \* drain_approvals' limit, 12 in the code
    Surplus,        \* calls of the burst beyond the ceiling, 5 in the code
    MaxLeftover     \* bound: approvals somebody granted before the run

VARIABLES
    at,             \* the scenario under way
    phase,
    sent,           \* the calls made for it
    statuses,       \* what its grants answered
    before,         \* the effects counted before it
    scores,         \* per scenario: the effects caused, and the verdict
    leftover        \* approvals granted before the run began

scriptVars == <<at, phase, sent, statuses, before, scores, leftover>>
smokeVars  == <<mcVars, scriptVars>>

ASSUME SmokeAssumption ==
    /\ ProbeCalls \in Seq(Calls)
    /\ VisitorMessages \subseteq Messages
    /\ {MaxDrains, Surplus, MaxLeftover} \subseteq Nat

-----------------------------------------------------------------------------
READ   == "account:read"
FLAG   == "account:flag"
CREDIT == "credit:issue"

\* GET /api/v1/demo/tokens, asked once when the script starts.
DemoToken(scopes, audience, claimed) ==
    MintDelegated(<<[subject |-> "alice", scopes |-> scopes]>>, Agent, audience, claimed, 9, 0)
DemoTokens ==
    [ valid_request       |-> DemoToken({READ, FLAG, CREDIT}, ThisServer, {READ, CREDIT}),
      wrong_audience      |-> DemoToken({READ, FLAG, CREDIT}, "elsewhere", {READ, CREDIT}),
      scope_amplification |-> DemoToken({READ, FLAG}, ThisServer, {READ, FLAG, CREDIT}),
      expired             |-> Mint(Agent, ThisServer, {READ, CREDIT}, -1, 0),
      bad_signature       |-> Forged(Mint(Agent, ThisServer, {READ, CREDIT}, 9, 0)),
      garbage             |-> [Mint(Agent, ThisServer, {}, 9, 0) EXCEPT !.parses = FALSE] ]

Posted(key, tool) ==
    [ token |-> DemoTokens[key], tool |-> tool, account |-> "ACC-1", amount |-> 1,
      approval_id |-> CHOOSE a \in ApprovalIds : TRUE ]

\* What a human with the approver credential posts; the script asks for the
\* default lifetime.
Body(ttl) == [subject |-> Agent, account |-> "ACC-1", amount |-> 1, ttl_seconds |-> ttl]
DefaultTtl == 9

\* One scenario: whether it drains first, with which credentials it asks for
\* an approval, what it posts, how often, how many at a time.
Plain(name, key, tool, expect_effects) ==
    [ name |-> name, drains |-> FALSE, grants |-> <<>>, message |-> Posted(key, tool),
      times |-> 1, width |-> 1, expect_effects |-> expect_effects ]

SCRIPT ==
    << [Plain("positive_path", "valid_request", "issue_credit", 1)
          EXCEPT !.grants = <<ApproverToken>>],
       Plain("permitted_read", "valid_request", "read_account", 0),
       Plain("A_wrong_audience", "wrong_audience", "issue_credit", 0),
       Plain("B_scope_amplification", "scope_amplification", "issue_credit", 0),
       Plain("H_expired", "expired", "issue_credit", 0),
       Plain("H_bad_signature", "bad_signature", "issue_credit", 0),
       Plain("H_garbage_bearer", "garbage", "issue_credit", 0),
       Plain("C_no_approval", "valid_request", "issue_credit", 0),
       [Plain("D_agent_token_cannot_grant_approval", "valid_request", "issue_credit", 0)
          EXCEPT !.times = 0, !.grants = <<None, Agents, ApproverToken>>],
       [Plain("F_one_approval_two_concurrent_calls", "valid_request", "issue_credit", 1)
          EXCEPT !.drains = TRUE, !.grants = <<ApproverToken>>, !.times = 2, !.width = 2],
       Plain("G_replay_consumed_approval", "valid_request", "issue_credit", 0),
       [Plain("rate_limit", "valid_request", "read_account", 0)
          EXCEPT !.times = Limit + Surplus] >>

Current == SCRIPT[at]

SmokeMessages == {SCRIPT[i].message : i \in DOMAIN SCRIPT}

\* The deployment the script is run against: its tokens are the server's own,
\* the approver credential is configured, whoever else calls is refused at
\* the door, approvals somebody granted have not expired, and the ceiling
\* leaves room for the calls of issue_credit that the script makes itself.
ASSUME DeploymentAssumption ==
    /\ SmokeMessages \subseteq Messages
    /\ Issuer \in DOMAIN JwksByIssuer
    /\ KeyId \in DOMAIN JwksByIssuer[Issuer]
    /\ JwksByIssuer[Issuer][KeyId] = OwnKey
    /\ ThisServer # "elsewhere"
    /\ ApproverToken \in Credentials \ {None, Agents}
    /\ {Body(ttl) : ttl \in 1..DefaultTtl} \subseteq GrantBodies
    /\ \A m \in VisitorMessages : TransportRefusal(m.token, 0) # None
    /\ MaxLeftover < DefaultTtl
    /\ Limit >= MaxDrains + 5
    /\ Surplus > 0

SmokeInit ==
    /\ McInit
    /\ at = 1 /\ phase = "arriving" /\ sent = <<>> /\ statuses = <<>>
    /\ before = 0 /\ scores = <<>> /\ leftover = 0

\* A request has its answer, and what the script reads of it.
Answered(c) ==
    \/ stage[c] \in {"refused", "answered", "broken"}
    \/ stage[c] = "called" /\ pc[c] \in Ended
DecisionOf(c) ==
    IF stage[c] = "called" /\ pc[c] = "returned" THEN outcome[c].decision ELSE None
ReasonOf(c) ==
    IF stage[c] = "called" /\ pc[c] = "returned" THEN outcome[c].reason ELSE None

InFlight == {i \in DOMAIN sent : ~Answered(sent[i])}
Unused   == {i \in DOMAIN ProbeCalls : stage[ProbeCalls[i]] = "idle"}
NextCall == ProbeCalls[Min(Unused)]
Undrawn  == {a \in ApprovalIds : approval[a] = Unissued}
NextId   == CHOOSE a \in Undrawn : TRUE

\* Bound: the requests and the approval ids that are left.
PostCall(m) ==
    /\ Unused # {}
    /\ VerifyBearer(NextCall, m)
    /\ sent' = Append(sent, NextCall)

\* Somebody granted an approval on the shared instance and did not use it; it
\* runs out before those of the script.
EarlierGrant ==
    /\ phase = "arriving"
    /\ leftover < MaxLeftover
    /\ Undrawn # {}
    /\ Grant(ApproverToken, Body(DefaultTtl - 1 - leftover), NextId)
    /\ leftover' = leftover + 1
    /\ UNCHANGED <<callVars, resetVars, requestVars, trailVars,
                   at, phase, sent, statuses, before, scores>>

Starts ==
    /\ phase = "arriving"
    /\ phase' = "drain"
    /\ UNCHANGED <<mcVars, at, sent, statuses, before, scores, leftover>>

\* Nothing is spent: D's approval stays.
DrainApprovals_NotNeeded ==
    /\ phase = "drain"
    /\ phase' = "grant"
    /\ UNCHANGED <<mcVars, at, sent, statuses, before, scores, leftover>>

\* drain_approvals: call until an answer is anything but "allowed".
DrainApprovals ==
    /\ phase = "drain"
    /\ InFlight = {}
    /\ \/ /\ Current.drains
          /\ sent # <<>> => DecisionOf(Last(sent)) = "allowed"
          /\ Len(sent) < MaxDrains
          /\ PostCall(Posted("valid_request", "issue_credit"))
          /\ UNCHANGED phase
       \/ /\ Current.drains
          /\ Len(sent) = MaxDrains
          /\ DecisionOf(Last(sent)) = "allowed"
          /\ phase' = "crashed"     \* RuntimeError
          /\ UNCHANGED <<mcVars, sent>>
       \/ /\ Current.drains => sent # <<>> /\ DecisionOf(Last(sent)) # "allowed"
          /\ phase' = "grant"
          /\ sent' = <<>>
          /\ UNCHANGED mcVars
    /\ UNCHANGED <<at, statuses, before, scores, leftover>>

\* POST /api/v1/approvals with the next credential of the scenario.
AskForApproval ==
    /\ phase = "grant"
    /\ LET asked == Len(statuses) IN
         \/ /\ asked < Len(Current.grants)
            /\ LET presented == Current.grants[asked + 1]
               IN  IF MayGrant(presented)
                   THEN /\ Undrawn # {}
                        /\ Grant(presented, Body(DefaultTtl), NextId)
                        /\ statuses' = Append(statuses, 201)
                        /\ UNCHANGED <<callVars, resetVars, requestVars, trailVars>>
                   ELSE statuses' = Append(statuses, 401) /\ UNCHANGED mcVars
            /\ UNCHANGED phase
         \/ /\ asked = Len(Current.grants)
            /\ phase' = "before"
            /\ UNCHANGED <<mcVars, statuses>>
    /\ UNCHANGED <<at, sent, before, scores, leftover>>

\* GET /api/v1/effects.
EffectsNow == Cardinality(Effects)

CountBefore ==
    /\ phase = "before"
    /\ before' = EffectsNow
    /\ phase' = "run"
    /\ UNCHANGED <<mcVars, at, sent, statuses, scores, leftover>>

PostNext ==
    /\ phase = "run"
    /\ Len(sent) < Current.times
    /\ Cardinality(InFlight) < Current.width
    /\ PostCall(Current.message)
    /\ UNCHANGED <<at, phase, statuses, before, scores, leftover>>

\* What each kind of scenario demands besides its effects.
AllowedCalls == {i \in DOMAIN sent : DecisionOf(sent[i]) = "allowed"}
LimitedCalls == {i \in DOMAIN sent : ReasonOf(sent[i]) = "rate_limited"}
Demands ==
    CASE Current.name = "rate_limit" ->
            Cardinality(AllowedCalls) <= Limit /\ LimitedCalls # {}
      [] Current.name = "D_agent_token_cannot_grant_approval" ->
            statuses = <<401, 401, 201>>
      [] OTHER -> TRUE

\* Count again and score.  D is not measured: its effects are written as 0.
Score ==
    /\ phase = "run"
    /\ Len(sent) = Current.times
    /\ InFlight = {}
    /\ LET caused == IF Current.times = 0 THEN 0 ELSE EffectsNow - before
       IN  scores' = Append(scores,
             [caused |-> caused, pass |-> caused = Current.expect_effects /\ Demands])
    /\ at' = at + 1
    /\ phase' = IF at = Len(SCRIPT) THEN "over" ELSE "drain"
    /\ sent' = <<>>
    /\ statuses' = <<>>
    /\ UNCHANGED <<mcVars, before, leftover>>

ScriptStep ==
    \/ EarlierGrant \/ Starts \/ DrainApprovals \/ AskForApproval \/ CountBefore
    \/ PostNext \/ Score

\* Another visitor of the shared instance.
VisitorPosts ==
    /\ \E c \in Calls \ Range(ProbeCalls), m \in VisitorMessages : VerifyBearer(c, m)
    /\ UNCHANGED scriptVars

ServerStep ==
    /\ \E c \in Calls :
         \/ RequestStep(c)
         \/ Step(c) /\ UNCHANGED <<resetVars, requestVars, trailVars>>
    /\ UNCHANGED scriptVars

SmokeOver ==
    /\ phase \in {"over", "crashed"}
    /\ UNCHANGED smokeVars

SmokeNext ==
    \/ ScriptStep \/ VisitorPosts \/ ServerStep \/ SmokeOver

SmokeSpec == SmokeInit /\ [][SmokeNext]_smokeVars
-----------------------------------------------------------------------------
\* The approvals a call of the script could spend.
Unspent == {a \in ApprovalRows : approval[a].consumed_at = None}

\* all_scenarios_pass of the artifact.
AllScenariosPass == phase = "over" /\ \A i \in DOMAIN scores : scores[i].pass

\* With a ceiling that leaves room for its own calls, and no visitor but those
\* who are refused, the script passes a correct server exactly when it started with no
\* approval left over by somebody else: one such approval is spent by the
\* scenario that claims there is none (deployed_smoke.py:291).
PassesExactlyFromACleanStart ==
    phase = "over" => (AllScenariosPass <=> leftover = 0)

\* "Exactly one unconsumed approval, verified by draining first"
\* (deployed_smoke.py:328), when the two calls of F are about to be raced.
DrainedBeforeTheRace ==
    (phase = "before" /\ Current.drains) => Cardinality(Unspent) = 1
==============================================================================
