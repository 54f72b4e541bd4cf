-------------------------------- MODULE Matrix --------------------------------
(***************************************************************************)
(* The security matrix (demo/matrix.py) and its gate (gate_matrix.py):     *)
(* every scenario is measured under the naive and then under the hardened  *)
(* policy, each time from a cleared database, by driving call_tool twice   *)
(* over the same store, and what was measured is compared with the         *)
(* committed artifacts.                                                    *)
(*                                                                         *)
(*   clear -> setup -> calling -> (next turn) clear ... -> done | failed   *)
(*                                                                         *)
(* Nobody else uses the database meanwhile, as build_matrix demands.       *)
(***************************************************************************)
EXTENDS Approvals, TestAuthority, SequencesExt

CONSTANTS
    Agent,          \* agent-7, the subject of every token
    Audience,       \* the resource server the hardened policy enforces
    TokenLifetime,  \* mint's lifetime, 300 in the code
    ApprovalTtl     \* _approve's ttl, 900 in the code

VARIABLES
    pc, req, moment, used, found, outcome,  \* of call_tool
    turn,           \* which scenario and policy is being measured
    phase,
    token,          \* what setup returned
    results,        \* per turn: decision, reason, effects
    trail,          \* the audit rows read so far, oldest first
    shown,          \* the states of the approvals the hardened turns left
    chains          \* the delegation chain of each scenario's token

callVars   == <<pc, req, moment, used, found, outcome>>
driverVars == <<turn, phase, token, results, trail, shown, chains>>
vars       == <<clock, tables, locks, callVars, driverVars>>

\* call_tool under either policy, without a ceiling.
Naive    == INSTANCE Effects WITH Policy <- NAIVE, ThisServer <- Audience, Limit <- 0,
                                  Requests <- {}
Hardened == INSTANCE Effects WITH Policy <- HARDENED, ThisServer <- Audience, Limit <- 0,
                                  Requests <- {}

ASSUME MatrixAssumption ==
    /\ Calls \subseteq Nat
    /\ {TokenLifetime, ApprovalTtl} \subseteq Nat
    /\ 0 < TokenLifetime /\ TokenLifetime < ApprovalTtl
    /\ Audience # "elsewhere"

\* The build verifies with the registry of the authority that mints, its rows
\* are rows, and the ids of the approvals it records do not run out.
ASSUME BuildAssumption ==
    /\ Agent \in Subjects /\ "ACC-1" \in Accounts
    /\ {Unissued, Wiped} \cap
         [ subject : {Agent}, tool : {"issue_credit"}, account : {"ACC-1"}, amount : {1},
           expires_at : Int, consumed_at : Int \cup {None} ] = {}
    /\ Issuer \in DOMAIN JwksByIssuer
    /\ KeyId \in DOMAIN JwksByIssuer[Issuer]
    /\ JwksByIssuer[Issuer][KeyId] = OwnKey
    /\ IsFiniteSet(ApprovalIds) => Cardinality(ApprovalIds) >= 12

-----------------------------------------------------------------------------
READ   == "account:read"
FLAG   == "account:flag"
CREDIT == "credit:issue"

\* A scenario: the token its setup mints, the lifetime of the approval it
\* records (None: no approval), how often the tool is called.
Delegated(scopes, audience, claimed) ==
    MintDelegated(<<[subject |-> "alice", scopes |-> scopes]>>, Agent, audience, claimed,
                  TokenLifetime, clock)
Direct == Mint(Agent, Audience, {READ, CREDIT}, TokenLifetime, clock)

Scenario(id, is_attack, approval_ttl, calls, expected_effects) ==
    [ id |-> id, is_attack |-> is_attack, approval_ttl |-> approval_ttl, calls |-> calls,
      expected_effects |-> expected_effects ]

SCENARIOS ==
    << Scenario("valid_request", FALSE, ApprovalTtl, 1, 1),
       Scenario("wrong_audience", TRUE, ApprovalTtl, 1, 0),
       Scenario("scope_amplification", TRUE, ApprovalTtl, 1, 0),
       Scenario("no_approval", TRUE, None, 1, 0),
       Scenario("expired_approval", TRUE, -1, 1, 0),
       Scenario("approval_replay", TRUE, ApprovalTtl, 2, 1) >>

TokenOf(id) ==
    CASE id = "valid_request"       -> Delegated({READ, FLAG, CREDIT}, Audience, {READ, CREDIT})
      [] id = "wrong_audience"      -> Delegated({READ, FLAG, CREDIT}, "elsewhere", {READ, CREDIT})
      [] id = "scope_amplification" -> Delegated({READ, FLAG}, Audience, {READ, FLAG, CREDIT})
      [] OTHER                      -> Direct

Turns       == 2 * Len(SCENARIOS)
ScenarioAt(t) == SCENARIOS[(t + 1) \div 2]
PolicyAt(t)   == IF t % 2 = 1 THEN NAIVE ELSE HARDENED

Init ==
    /\ StoreInit
    /\ Naive!EffectsInit
    /\ turn = 1 /\ phase = "clear" /\ token = None
    /\ results = <<>> /\ trail = <<>> /\ shown = <<>> /\ chains = <<>>

\* What the approvals of the scenario before are good for is not looked at.
Clear_ForgetsApprovals ==
    /\ phase = "clear"
    /\ effect' = [c \in Calls |-> None]
    /\ audit' = [c \in Calls |-> None]
    /\ counter' = [b \in Buckets |-> 0]
    /\ phase' = IF turn > Turns THEN "done" ELSE "setup"
    /\ UNCHANGED <<clock, approval, locks, callVars, turn, token, results, trail, shown, chains>>

\* The audit rows of the scenario before stay.
Clear_ForgetsAudit ==
    /\ phase = "clear"
    /\ effect' = [c \in Calls |-> None]
    /\ approval' = [a \in ApprovalIds |-> IF a \in ApprovalRows THEN Wiped ELSE approval[a]]
    /\ counter' = [b \in Buckets |-> 0]
    /\ phase' = IF turn > Turns THEN "done" ELSE "setup"
    /\ UNCHANGED <<clock, audit, locks, callVars, turn, token, results, trail, shown, chains>>

\* _reset, which also ends the build.
Clear ==
    /\ phase = "clear"
    /\ effect' = [c \in Calls |-> None]
    /\ audit' = [c \in Calls |-> None]
    /\ approval' = [a \in ApprovalIds |-> IF a \in ApprovalRows THEN Wiped ELSE approval[a]]
    /\ counter' = [b \in Buckets |-> 0]
    /\ phase' = IF turn > Turns THEN "done" ELSE "setup"
    /\ UNCHANGED <<clock, locks, callVars, turn, token, results, trail, shown, chains>>

\* setup: the approval, then the token.
SetUp ==
    /\ phase = "setup"
    /\ LET ttl == ScenarioAt(turn).approval_ttl
           a   == CHOOSE i \in ApprovalIds : approval[i] = Unissued
       IN  approval' = IF ttl = None THEN approval
                       ELSE [approval EXCEPT ![a] =
                               NewApproval(Agent, "issue_credit", "ACC-1", 1, ttl, clock)]
    /\ token' = TokenOf(ScenarioAt(turn).id)
    /\ phase' = "calling"
    /\ UNCHANGED <<clock, effect, audit, counter, locks, callVars, turn, results, trail, shown,
                   chains>>

Fresh   == {c \in Calls : pc[c] = "idle"}
\* The calls made for the turns before this one.
Before  == SumFunctionOnSet([t \in 1..Turns |-> ScenarioAt(t).calls], 1..(turn - 1))
Made    == Cardinality(Calls \ Fresh) - Before
Pending == {c \in Calls : pc[c] \in Naive!Active}

CallIssueCredit ==
    /\ phase = "calling"
    /\ Pending = {}
    /\ Made < ScenarioAt(turn).calls
    /\ \A c \in Calls : pc[c] \notin {"raised", "lost"}
    /\ LET c == Min(Fresh)
           r == [token |-> token, tool |-> "issue_credit", account |-> "ACC-1", amount |-> 1]
       IN  IF PolicyAt(turn) = NAIVE THEN Naive!CallTool(c, r) ELSE Hardened!CallTool(c, r)
    /\ UNCHANGED driverVars

CallGoesOn ==
    /\ \E c \in Pending :
         IF PolicyAt(turn) = NAIVE
         THEN Naive!Step(c) \/ Naive!CommitReplyLost(c) \/ Naive!Fail(c)
         ELSE Hardened!Step(c) \/ Hardened!CommitReplyLost(c) \/ Hardened!Fail(c)
    /\ UNCHANGED driverVars

\* _effects, _audit and _approvals: the tables as they stand.
InOrder(S) ==
    CHOOSE s \in [1..Cardinality(S) -> S] :
        \A i, j \in 1..Cardinality(S) : i < j => s[i] < s[j]
AuditRows == InOrder({c \in Calls : audit[c] # None})
AuditRow(c) ==
    [ policy |-> PolicyAt(turn).name, decision |-> audit[c].decision,
      reason |-> audit[c].reason, effect |-> audit[c].effect_id # None ]
ApprovalState(a) ==
    IF approval[a].consumed_at # None THEN "consumed"
    ELSE IF approval[a].expires_at <= clock THEN "expired"
    ELSE "pending"
ApprovalStates ==
    LET rows == InOrder(ApprovalRows) IN [i \in DOMAIN rows |-> ApprovalState(rows[i])]

\* _chain_of: decoded from the token that was presented.
ChainOf(bearer) ==
    LET claims    == VerifyToken(bearer, clock).claims
        effective == EffectiveScopes(claims, TRUE)
    IN  [ links            |-> Append(claims.chain, [ subject |-> claims.subject,
                                                      scopes  |-> claims.scopes ]),
          effective_scopes |-> effective,
          attenuated_away  |-> claims.scopes \ effective ]

\* The end of _run.  A token that has expired by the time the chain of the
\* hardened turn is decoded ends the build with an error.
Measure ==
    /\ phase = "calling"
    /\ Pending = {}
    /\ Made = ScenarioAt(turn).calls
    /\ LET last == Max({c \in Calls : pc[c] = "returned"}) IN
         /\ pc[Max(Calls \ Fresh)] = "returned"
         /\ results' = Append(results, [ decision |-> outcome[last].decision,
                                         reason   |-> outcome[last].reason,
                                         effects  |-> Cardinality(Effects) ])
    /\ trail' = trail \o [i \in DOMAIN AuditRows |-> AuditRow(AuditRows[i])]
    /\ shown' = IF PolicyAt(turn) = HARDENED THEN shown \o ApprovalStates ELSE shown
    /\ chains' = IF PolicyAt(turn) = HARDENED THEN Append(chains, ChainOf(token)) ELSE chains
    /\ phase' = IF PolicyAt(turn) = HARDENED /\ VerifyToken(token, clock).failure # None
                THEN "failed" ELSE "clear"
    /\ turn' = turn + 1
    /\ UNCHANGED <<clock, tables, locks, callVars, token>>

\* A call that raised takes the build with it.
BuildRaises ==
    /\ phase = "calling"
    /\ \E c \in Calls : pc[c] \in {"raised", "lost"}
    /\ phase' = "failed"
    /\ UNCHANGED <<clock, tables, locks, callVars, turn, token, results, trail, shown, chains>>

TimePasses == Tick /\ UNCHANGED <<callVars, driverVars>>

Over == phase \in {"done", "failed"} /\ UNCHANGED vars

Next ==
    \/ Clear \/ SetUp \/ CallIssueCredit \/ CallGoesOn \/ Measure \/ BuildRaises
    \/ TimePasses \/ Over

Spec == Init /\ [][Next]_vars
-----------------------------------------------------------------------------
\* What build_matrix returns, as far as the gate compares it.
Total(rows, policy) ==
    SumFunctionOnSet([t \in DOMAIN rows |-> rows[t].effects],
                      {t \in DOMAIN rows : PolicyAt(t) = policy})
Permitted(rows, policy) ==
    Cardinality({t \in DOMAIN rows : /\ PolicyAt(t) = policy
                                     /\ ScenarioAt(t).is_attack
                                     /\ rows[t].effects > ScenarioAt(t).expected_effects})

MatrixShape(rows) ==
    [ totals    |-> <<Total(rows, NAIVE), Total(rows, HARDENED),
                      Permitted(rows, NAIVE), Permitted(rows, HARDENED)>>,
      scenarios |-> [t \in DOMAIN rows |-> rows[t]] ]

EffectsByPolicy(rows, policy) ==
    Cardinality({i \in DOMAIN rows : rows[i].policy = policy.name /\ rows[i].effect})

\* The console's artifacts: how many rows and of which kinds, never their order.
ConsoleShape(rows, states) ==
    [ audit     |-> [ rows      |-> Len(rows),
                      decisions |-> {<<rows[i].policy, rows[i].decision, rows[i].reason>> :
                                       i \in DOMAIN rows},
                      effects   |-> <<EffectsByPolicy(rows, NAIVE),
                                      EffectsByPolicy(rows, HARDENED)>> ],
      approvals |-> [state \in {"pending", "expired", "consumed"} |->
                       Cardinality({i \in DOMAIN states : states[i] = state})] ]

\* artifacts/matrix.json, audit.json (oldest first here) and approvals.json.
Row(decision, reason, effects) ==
    [decision |-> decision, reason |-> reason, effects |-> effects]
Granted  == Row("allowed", None, 1)
PublishedRows ==
    << Granted, Granted,
       Granted, Row("denied", "audience_mismatch", 0),
       Granted, Row("denied", "insufficient_effective_scope", 0),
       Row("denied", "approval_required", 0), Row("denied", "approval_required", 0),
       Row("denied", "approval_expired", 0), Row("denied", "approval_expired", 0),
       Row("denied", "approval_required", 1), Row("denied", "approval_required", 1) >>

Event(policy, decision, reason) ==
    [policy |-> policy, decision |-> decision, reason |-> reason, effect |-> reason = None]
PublishedTrail ==
    << Event("naive", "allowed", None), Event("hardened", "allowed", None),
       Event("naive", "allowed", None), Event("hardened", "denied", "audience_mismatch"),
       Event("naive", "allowed", None),
       Event("hardened", "denied", "insufficient_effective_scope"),
       Event("naive", "denied", "approval_required"),
       Event("hardened", "denied", "approval_required"),
       Event("naive", "denied", "approval_expired"),
       Event("hardened", "denied", "approval_expired"),
       Event("naive", "allowed", None), Event("naive", "denied", "approval_required"),
       Event("hardened", "allowed", None), Event("hardened", "denied", "approval_required") >>
PublishedApprovals == <<"consumed", "pending", "pending", "expired", "consumed">>

\* artifacts/chains.json, in the order of the scenarios.
Decoded(links, away) ==
    LET leaf == Last(links).scopes
    IN  [links |-> links, effective_scopes |-> leaf \ away, attenuated_away |-> away]
Link(subject, scopes) == [subject |-> subject, scopes |-> scopes]
PublishedChains ==
    LET whole  == Decoded(<<Link("alice", {READ, FLAG, CREDIT}), Link(Agent, {READ, CREDIT})>>, {})
        narrow == Decoded(<<Link("alice", {READ, FLAG}), Link(Agent, {READ, FLAG, CREDIT})>>,
                          {CREDIT})
        alone  == Decoded(<<Link(Agent, {READ, CREDIT})>>, {})
    IN  <<whole, whole, narrow, alone, alone, alone>>

\* The gate's exit code is zero.
Reproduces ==
    /\ MatrixShape(results) = MatrixShape(PublishedRows)
    /\ ConsoleShape(trail, shown) = ConsoleShape(PublishedTrail, PublishedApprovals)
    /\ chains = PublishedChains

-----------------------------------------------------------------------------
\* Every call was judged while the token of its turn was live.
InTime == \A c \in Calls \ Fresh : moment[c] < req[c].token.exp

\* The published numbers are what the code does, and nothing but its pace can
\* change them: a build that ends passes the gate (gate_matrix.py) exactly when
\* no token ran out before it was presented, and then the rows, the trail and
\* the approvals are those of the committed artifacts to the letter.
GatePassesExactlyInTime ==
    phase = "done" =>
        /\ Reproduces <=> InTime
        /\ InTime => /\ results = PublishedRows
                     /\ trail = PublishedTrail
                     /\ shown = PublishedApprovals

\* "A scenario cannot borrow an effect from the one before it" (matrix.py:14),
\* nor an approval: at whatever pace, no row has more effects than published,
\* and the hardened rows never more than ADR-001 allows.
NothingBorrowed ==
    \A t \in DOMAIN results :
        /\ results[t].effects <= PublishedRows[t].effects
        /\ PolicyAt(t) = HARDENED => results[t].effects <= ScenarioAt(t).expected_effects

\* The two artifacts are one measurement: under each policy the trail tells of
\* as many effects as the tables were found to hold, and of every call made.
TrailAgreesWithTheCount ==
    phase = "clear" =>
        /\ \A policy \in {NAIVE, HARDENED} :
              EffectsByPolicy(trail, policy) = Total(results, policy)
        /\ Len(trail) = Cardinality(Calls \ Fresh)
===============================================================================
