---------------------------- MODULE MatrixProofs ----------------------------
(***************************************************************************)
(* No scenario of the matrix borrows an effect or an approval from the one *)
(* before it, whatever the pace and whichever calls fail.                  *)
(*                                                                         *)
(* One call is under way at a time and a turn starts from empty tables     *)
(* with at most one approval, so that a turn has at most one effect.  It   *)
(* has none where the hardened policy refuses the token at any time, or    *)
(* where the scenario has no live approval.                                *)
(***************************************************************************)
EXTENDS Matrix, FiniteSetTheorems, TLAPS

\* The requests of a turn.
TheRequest(bearer) ==
    [token |-> bearer, tool |-> "issue_credit", account |-> "ACC-1", amount |-> 1]

RefusedTurn(t) ==
    PolicyAt(t) = HARDENED /\ ScenarioAt(t).id \in {"wrong_audience", "scope_amplification"}
UnapprovedTurn(t) == ScenarioAt(t).approval_ttl \in {None, -1}
Allowance(t) == IF RefusedTurn(t) \/ UnapprovedTurn(t) THEN 0 ELSE 1

ApprovalRow ==
    [ subject : {Agent}, tool : {"issue_credit"}, account : {"ACC-1"}, amount : {1},
      expires_at : Int, consumed_at : Int \cup {None} ]

IsOver(f, S) == f = [x \in S |-> f[x]]

\* What has been measured is within the allowance of its turn.
MeasuredOK ==
    /\ turn \in 1..13
    /\ results \in Seq({results[t] : t \in DOMAIN results})
    /\ Len(results) = turn - 1
    /\ \A t \in DOMAIN results : results[t].effects \in Nat /\ results[t].effects <= Allowance(t)

\* The tables and the calls have their keys.
KeysOK ==
    /\ clock \in Int
    /\ IsOver(pc, Calls) /\ IsOver(outcome, Calls) /\ IsOver(found, Calls)
    /\ IsOver(moment, Calls) /\ IsOver(approval, ApprovalIds) /\ IsOver(effect, Calls)
    /\ \A c \in Calls : moment[c] \in Int
    /\ \A a \in ApprovalRows : approval[a] \in ApprovalRow

\* A call that is about to spend the approval it found.
Spends(c) == pc[c] = "insert" \/ (pc[c] = "commit" /\ outcome[c].effect_id # None)

\* One call at a time, and one effect for the one approval.
OneOK ==
    /\ \A c, d \in Pending : c = d
    /\ \A a, b \in ApprovalRows : a = b
    /\ \A c, d \in Effects : c = d
    /\ \A c \in Pending :
          /\ pc[c] # "quota"
          /\ Spends(c) => found[c] \in ApprovalRows /\ approval[found[c]].consumed_at = None
    /\ Effects # {} => \A a \in ApprovalRows : approval[a].consumed_at # None

\* The hardened policy refuses the token of this turn, now and later.
RefusedOK ==
    RefusedTurn(turn) =>
        /\ \A now \in Int :
              Hardened!VerdictOn(TheRequest(token), now).decision = "denied"
        /\ Effects = {}
        /\ \A c \in Pending : pc[c] = "commit" /\ ~Spends(c)

\* No approval of this turn was live when its call began.
UnapprovedOK ==
    UnapprovedTurn(turn) =>
        /\ Effects = {}
        /\ \A a \in ApprovalRows :
              /\ approval[a].expires_at <= clock
              /\ \A c \in Pending : approval[a].expires_at <= moment[c]
        /\ \A c \in Pending : pc[c] \in {"lookup", "commit"} /\ ~Spends(c)

MatrixInv ==
    /\ MeasuredOK
    /\ phase \in {"clear", "setup", "calling", "done", "failed"}
    /\ phase \in {"clear", "setup", "calling"} => KeysOK
    /\ phase \in {"clear", "setup"} => Pending = {}
    /\ phase \in {"setup", "calling"} => turn \in 1..12
    /\ phase = "setup" => ApprovalRows = {} /\ Effects = {}
    /\ phase = "calling" => OneOK /\ RefusedOK /\ UnapprovedOK
-----------------------------------------------------------------------------
\* The twelve turns.
LEMMA TheTwelve ==
    /\ Turns = 12 /\ NAIVE # HARDENED
    /\ PolicyAt(1) = NAIVE /\ PolicyAt(3) = NAIVE /\ PolicyAt(5) = NAIVE
    /\ PolicyAt(7) = NAIVE /\ PolicyAt(9) = NAIVE /\ PolicyAt(11) = NAIVE
    /\ PolicyAt(2) = HARDENED /\ PolicyAt(4) = HARDENED /\ PolicyAt(6) = HARDENED
    /\ PolicyAt(8) = HARDENED /\ PolicyAt(10) = HARDENED /\ PolicyAt(12) = HARDENED
    /\ \A t \in {1, 2} :
          ScenarioAt(t) = Scenario("valid_request", FALSE, ApprovalTtl, 1, 1)
    /\ \A t \in {3, 4} :
          ScenarioAt(t) = Scenario("wrong_audience", TRUE, ApprovalTtl, 1, 0)
    /\ \A t \in {5, 6} :
          ScenarioAt(t) = Scenario("scope_amplification", TRUE, ApprovalTtl, 1, 0)
    /\ \A t \in {7, 8} : ScenarioAt(t) = Scenario("no_approval", TRUE, None, 1, 0)
    /\ \A t \in {9, 10} : ScenarioAt(t) = Scenario("expired_approval", TRUE, -1, 1, 0)
    /\ \A t \in {11, 12} :
          ScenarioAt(t) = Scenario("approval_replay", TRUE, ApprovalTtl, 2, 1)
<1>1. NAIVE # HARDENED
  <2>1. NAIVE.name = "naive" /\ HARDENED.name = "hardened"
    BY DEF NAIVE, HARDENED
  <2>. QED  BY <2>1
<1>2. Turns = 12
  BY DEF Turns, SCENARIOS
<1>3. /\ PolicyAt(1) = NAIVE /\ PolicyAt(3) = NAIVE /\ PolicyAt(5) = NAIVE
      /\ PolicyAt(7) = NAIVE /\ PolicyAt(9) = NAIVE /\ PolicyAt(11) = NAIVE
      /\ PolicyAt(2) = HARDENED /\ PolicyAt(4) = HARDENED /\ PolicyAt(6) = HARDENED
      /\ PolicyAt(8) = HARDENED /\ PolicyAt(10) = HARDENED /\ PolicyAt(12) = HARDENED
  BY DEF PolicyAt
<1>4. /\ ScenarioAt(1) = SCENARIOS[1] /\ ScenarioAt(2) = SCENARIOS[1]
      /\ ScenarioAt(3) = SCENARIOS[2] /\ ScenarioAt(4) = SCENARIOS[2]
      /\ ScenarioAt(5) = SCENARIOS[3] /\ ScenarioAt(6) = SCENARIOS[3]
      /\ ScenarioAt(7) = SCENARIOS[4] /\ ScenarioAt(8) = SCENARIOS[4]
      /\ ScenarioAt(9) = SCENARIOS[5] /\ ScenarioAt(10) = SCENARIOS[5]
      /\ ScenarioAt(11) = SCENARIOS[6] /\ ScenarioAt(12) = SCENARIOS[6]
  BY DEF ScenarioAt
<1>5. /\ SCENARIOS[1] = Scenario("valid_request", FALSE, ApprovalTtl, 1, 1)
      /\ SCENARIOS[2] = Scenario("wrong_audience", TRUE, ApprovalTtl, 1, 0)
      /\ SCENARIOS[3] = Scenario("scope_amplification", TRUE, ApprovalTtl, 1, 0)
      /\ SCENARIOS[4] = Scenario("no_approval", TRUE, None, 1, 0)
      /\ SCENARIOS[5] = Scenario("expired_approval", TRUE, -1, 1, 0)
      /\ SCENARIOS[6] = Scenario("approval_replay", TRUE, ApprovalTtl, 2, 1)
  BY DEF SCENARIOS
<1>. QED  BY <1>1, <1>2, <1>3, <1>4, <1>5

\* The allowance of a turn is what is published, and what ADR-001 allows.
LEMMA TheTurns ==
    /\ Turns = 12
    /\ \A t \in 1..12 :
          /\ PublishedRows[t].effects = Allowance(t)
          /\ PolicyAt(t) = HARDENED => ScenarioAt(t).expected_effects = Allowance(t)
          /\ RefusedTurn(t) => \/ PolicyAt(t) = HARDENED /\ ScenarioAt(t).id = "wrong_audience"
                               \/ PolicyAt(t) = HARDENED /\ ScenarioAt(t).id = "scope_amplification"
<1>2. ApprovalTtl \notin {None, -1}
  BY NoneAssumption, MatrixAssumption
<1>3. None # -1
  BY NoneAssumption
<1>8. /\ PublishedRows[1].effects = 1 /\ PublishedRows[2].effects = 1
      /\ PublishedRows[3].effects = 1 /\ PublishedRows[4].effects = 0
      /\ PublishedRows[5].effects = 1 /\ PublishedRows[6].effects = 0
      /\ PublishedRows[7].effects = 0 /\ PublishedRows[8].effects = 0
      /\ PublishedRows[9].effects = 0 /\ PublishedRows[10].effects = 0
      /\ PublishedRows[11].effects = 1 /\ PublishedRows[12].effects = 1
  BY DEF PublishedRows, Granted, Row
<1>9. ASSUME NEW t \in 1..12
      PROVE  /\ PublishedRows[t].effects = Allowance(t)
             /\ PolicyAt(t) = HARDENED => ScenarioAt(t).expected_effects = Allowance(t)
  <2>1. \/ t = 1 \/ t = 2 \/ t = 3 \/ t = 4 \/ t = 5 \/ t = 6
        \/ t = 7 \/ t = 8 \/ t = 9 \/ t = 10 \/ t = 11 \/ t = 12
    BY <1>9
  <2>2. CASE t \in {1, 2, 11, 12}
    BY <2>2, TheTwelve, <1>2, <1>8
    DEF Allowance, RefusedTurn, UnapprovedTurn, Scenario
  <2>3. CASE t \in {3, 4}
    BY <2>3, TheTwelve, <1>2, <1>8
    DEF Allowance, RefusedTurn, UnapprovedTurn, Scenario
  <2>4. CASE t \in {5, 6}
    BY <2>4, TheTwelve, <1>2, <1>8
    DEF Allowance, RefusedTurn, UnapprovedTurn, Scenario
  <2>5. CASE t \in {7, 8, 9, 10}
    BY <2>5, TheTwelve, <1>2, <1>3, <1>8
    DEF Allowance, RefusedTurn, UnapprovedTurn, Scenario
  <2>. QED  BY <2>1, <2>2, <2>3, <2>4, <2>5
<1>. QED  BY TheTwelve, <1>9 DEF RefusedTurn

\* The scope that issue_credit takes.
LEMMA CreditScope ==
    /\ "issue_credit" \in DOMAIN TOOL_SCOPES
    /\ TOOL_SCOPES["issue_credit"] = CREDIT
    /\ "issue_credit" \in IRREVERSIBLE_TOOLS
BY DEF TOOL_SCOPES, IRREVERSIBLE_TOOLS, CREDIT

\* What the hardened instance calls the verifier and the decision are those.
LEMMA TheSameVerifier ==
    ASSUME NEW bearer, NEW now
    PROVE  Hardened!VerifyToken(bearer, now) = VerifyToken(bearer, now)
<1>1. Hardened!Chain(bearer) = Chain(bearer)
  BY DEF Hardened!Chain, Chain, Hardened!Scopes, Scopes
<1>2. Hardened!JwtDecodeFailure(bearer, now) = JwtDecodeFailure(bearer, now)
  BY DEF Hardened!JwtDecodeFailure, JwtDecodeFailure, Hardened!ALGORITHMS, ALGORITHMS
<1>3. Hardened!NoCandidateKey(bearer) = NoCandidateKey(bearer)
  BY DEF Hardened!NoCandidateKey, NoCandidateKey
<1>4. Hardened!VerificationFailure(bearer, now) = VerificationFailure(bearer, now)
  BY <1>1, <1>2, <1>3 DEF Hardened!VerificationFailure, VerificationFailure
<1>5. Hardened!Scopes(bearer.scope) = Scopes(bearer.scope)
  BY DEF Hardened!Scopes, Scopes
<1>. QED  BY <1>1, <1>4, <1>5 DEF Hardened!VerifyToken, VerifyToken

LEMMA TheSameDecision ==
    ASSUME NEW verified, NEW tool, NEW now
    PROVE  Hardened!Authorize(HARDENED, verified, tool, Audience, now) =
             Authorize(HARDENED, verified, tool, Audience, now)
<1>1. Hardened!TOOL_SCOPES = TOOL_SCOPES
  BY DEF Hardened!TOOL_SCOPES, TOOL_SCOPES
<1>2. Hardened!EffectiveScopes(verified.claims, TRUE) = EffectiveScopes(verified.claims, TRUE)
  BY DEF Hardened!EffectiveScopes, EffectiveScopes
<1>3. HARDENED.attenuate_chain = TRUE
  BY DEF HARDENED
<1>4. Hardened!Refusal(HARDENED, verified.claims, tool, Audience, now) =
        Refusal(HARDENED, verified.claims, tool, Audience, now)
  BY <1>1, <1>2, <1>3 DEF Hardened!Refusal, Refusal
<1>. QED  BY <1>1, <1>2, <1>3, <1>4 DEF Hardened!Authorize, Authorize

\* A verdict that refuses, of the policy or of the verifier, denies.
LEMMA RefusalDenies ==
    ASSUME NEW bearer, NEW now,
           Refusal(HARDENED, VerifyToken(bearer, now).claims, "issue_credit", Audience, now) # None
    PROVE  Hardened!VerdictOn(TheRequest(bearer), now).decision = "denied"
<1>1. Hardened!VerdictOn(TheRequest(bearer), now) =
        Authorize(HARDENED, VerifyToken(bearer, now), "issue_credit", Audience, now)
  BY TheSameVerifier, TheSameDecision DEF Hardened!VerdictOn, TheRequest
<1>2. ASSUME NEW verified,
             Refusal(HARDENED, verified.claims, "issue_credit", Audience, now) # None
      PROVE  Authorize(HARDENED, verified, "issue_credit", Audience, now).decision = "denied"
  BY <1>2 DEF Authorize
<1>. QED  BY <1>1, <1>2

\* A token for another server is refused whenever it is presented.
LEMMA ElsewhereIsRefused ==
    ASSUME NEW k, NEW now,
           NEW bearer,
           bearer = MintDelegated(<<[subject |-> "alice", scopes |-> {READ, FLAG, CREDIT}]>>,
                                  Agent, "elsewhere", {READ, CREDIT}, TokenLifetime, k)
    PROVE  Hardened!VerdictOn(TheRequest(bearer), now).decision = "denied"
<1>1. bearer.aud = Text({"elsewhere"})
  BY DEF MintDelegated, Mint
<1>2. VerifyToken(bearer, now).claims.audience = {"elsewhere"}
  BY <1>1 DEF VerifyToken, Text
<1>3. Audience \notin VerifyToken(bearer, now).claims.audience
  BY <1>2, MatrixAssumption
<1>. DEFINE claims == VerifyToken(bearer, now).claims
<1>4. Refusal(HARDENED, claims, "issue_credit", Audience, now) \in
        {"token_expired", "audience_mismatch"}
  BY <1>3, CreditScope DEF Refusal, HARDENED
<1>5. Refusal(HARDENED, claims, "issue_credit", Audience, now) # None
  BY <1>4, NoneAssumption DEF DENIAL_REASONS
<1>. QED  BY <1>5, RefusalDenies

\* So is one that claims a scope its delegator never had.
LEMMA AmplifiedIsRefused ==
    ASSUME NEW k, NEW now,
           NEW bearer,
           bearer = MintDelegated(<<[subject |-> "alice", scopes |-> {READ, FLAG}]>>,
                                  Agent, Audience, {READ, FLAG, CREDIT}, TokenLifetime, k)
    PROVE  Hardened!VerdictOn(TheRequest(bearer), now).decision = "denied"
<1>. DEFINE act == bearer.act
<1>1. /\ DOMAIN act = 1..1
      /\ act[1] = Node("alice", {READ, FLAG})
      /\ Len(act) = 1
  <2>. DEFINE chain == <<[subject |-> "alice", scopes |-> {READ, FLAG}]>>
  <2>1. Len(chain) = 1 /\ DOMAIN chain = 1..1
        /\ chain[1] = [subject |-> "alice", scopes |-> {READ, FLAG}]
    OBVIOUS
  <2>2. bearer = MintDelegated(chain, Agent, Audience, {READ, FLAG, CREDIT}, TokenLifetime, k)
    OBVIOUS
  <2>. HIDE DEF chain
  <2>3. act = [i \in DOMAIN chain |->
                 Node(chain[Len(chain) + 1 - i].subject, chain[Len(chain) + 1 - i].scopes)]
    BY <2>2 DEF MintDelegated, Mint
  <2>. HIDE DEF act
  <2>4. DOMAIN act = 1..1 /\ act[1] = Node("alice", {READ, FLAG})
    BY <2>1, <2>3
  <2>5. act = <<Node("alice", {READ, FLAG})>>
    BY <2>1, <2>3
  <2>. QED  BY <2>4, <2>5
<1>2. VerifyToken(bearer, now).claims.chain = Chain(bearer).links
  BY DEF VerifyToken
<1>3. /\ 1 \in DOMAIN Chain(bearer).links
      /\ Chain(bearer).links[1].scopes = {READ, FLAG}
  <2>. HIDE DEF act
  <2>1. Chain(bearer).links = [i \in DOMAIN act |->
            [subject |-> act[Len(act) + 1 - i].sub, scopes |-> Scopes(act[Len(act) + 1 - i].scope)]]
    BY DEF Chain, act
  <2>2. Chain(bearer).links[1].scopes = Scopes(act[1].scope) /\ 1 \in DOMAIN Chain(bearer).links
    BY <2>1, <1>1
  <2>. QED  BY <2>2, <1>1 DEF Node, Text, Scopes
<1>. DEFINE claims == VerifyToken(bearer, now).claims
<1>4. CREDIT \notin EffectiveScopes(claims, TRUE)
  BY <1>2, <1>3 DEF EffectiveScopes, CREDIT, READ, FLAG
<1>5. Refusal(HARDENED, claims, "issue_credit", Audience, now) \in
        {"token_expired", "audience_mismatch", "insufficient_effective_scope"}
  BY <1>4, CreditScope DEF Refusal, HARDENED
<1>6. Refusal(HARDENED, claims, "issue_credit", Audience, now) # None
  BY <1>5, NoneAssumption DEF DENIAL_REASONS
<1>. QED  BY <1>6, RefusalDenies

LEMMA RefusedTokens ==
    ASSUME NEW t, RefusedTurn(t), NEW now
    PROVE  Hardened!VerdictOn(TheRequest(TokenOf(ScenarioAt(t).id)), now).decision = "denied"
<1>1. CASE ScenarioAt(t).id = "wrong_audience"
  <2>1. TokenOf("wrong_audience") = Delegated({READ, FLAG, CREDIT}, "elsewhere", {READ, CREDIT})
    BY DEF TokenOf
  <2>. QED  BY <1>1, <2>1, ElsewhereIsRefused DEF Delegated
<1>2. CASE ScenarioAt(t).id = "scope_amplification"
  <2>1. TokenOf("scope_amplification") = Delegated({READ, FLAG}, Audience, {READ, FLAG, CREDIT})
    BY DEF TokenOf
  <2>. QED  BY <1>2, <2>1, AmplifiedIsRefused DEF Delegated
<1>. QED  BY <1>1, <1>2 DEF RefusedTurn
-----------------------------------------------------------------------------
\* What a statement of a call does to the state the invariant is about,
\* under either policy.
Raises(c) ==
    /\ pc' = [pc EXCEPT ![c] = "raised"]
    /\ outcome' = [outcome EXCEPT ![c] = None]
    /\ found' = [found EXCEPT ![c] = None]
    /\ UNCHANGED <<approval, effect>>
IsRefused(c) ==
    /\ pc[c] \in {"lookup", "consume"}
    /\ pc' = [pc EXCEPT ![c] = "commit"]
    /\ \E answer : outcome' = [outcome EXCEPT ![c] = answer] /\ answer.effect_id = None
    /\ UNCHANGED <<approval, effect, found>>
Finds(c) ==
    /\ pc[c] = "lookup"
    /\ pc' = [pc EXCEPT ![c] = "consume"]
    /\ \E a \in ApprovalRows :
          approval[a].expires_at > moment[c] /\ found' = [found EXCEPT ![c] = a]
    /\ UNCHANGED <<approval, effect, outcome>>
Takes(c) ==
    /\ pc[c] = "consume"
    /\ Consumable(found[c])
    /\ pc' = [pc EXCEPT ![c] = "insert"]
    /\ UNCHANGED <<approval, effect, found, outcome>>
Inserts(c) ==
    /\ pc[c] = "insert"
    /\ pc' = [pc EXCEPT ![c] = "commit"]
    /\ \E answer : outcome' = [outcome EXCEPT ![c] = answer]
    /\ UNCHANGED <<approval, effect, found>>
Commits(c) ==
    /\ pc[c] = "commit"
    /\ \E end \in {"returned", "lost"} : pc' = [pc EXCEPT ![c] = end]
    /\ IF outcome[c].effect_id # None
       THEN /\ approval' = [approval EXCEPT ![found[c]].consumed_at = moment[c]]
            /\ \E row : effect' = [effect EXCEPT ![c] = row]
       ELSE UNCHANGED <<approval, effect>>
    /\ UNCHANGED <<found, outcome>>
Moves(c) ==
    /\ Raises(c) \/ IsRefused(c) \/ Finds(c) \/ Takes(c) \/ Inserts(c) \/ Commits(c)
    /\ UNCHANGED <<clock, moment>>

\* Every statement of a call that claims no quota is one of these.
LEMMA NaiveMoves ==
    ASSUME NEW c \in Calls, pc[c] # "quota",
           Naive!Step(c) \/ Naive!CommitReplyLost(c) \/ Naive!Fail(c)
    PROVE  Moves(c)
<1>. USE DEF Moves, tables, locks, Naive!tables, Naive!locks
<1>1. ASSUME Naive!Raise(c) PROVE Moves(c)
  BY <1>1 DEF Naive!Raise, Raises
<1>2. CASE Naive!Lookup(c)
  <2>1. CASE Naive!Raise(c)
    BY <1>1, <2>1
  <2>. DEFINE lookup == Naive!FindMatchingApproval(Naive!Subject(c), req[c].tool,
                                                   req[c].account, req[c].amount, moment[c])
  <2>2. \A a \in lookup.approvals : a \in ApprovalRows /\ approval[a].expires_at > moment[c]
    BY DEF Naive!FindMatchingApproval, Naive!LatestLive, Naive!Matching, Naive!ApprovalRows,
           ApprovalRows
  <2>. HIDE DEF lookup
  <2>3. CASE \E a \in lookup.approvals : found' = [found EXCEPT ![c] = a] /\ Naive!GoTo(c, "consume")
               /\ UNCHANGED <<clock, tables, locks, req, moment, used>>
    BY <1>2, <2>2, <2>3 DEF Naive!Lookup, Naive!GoTo, Finds
  <2>4. CASE \E reason : Naive!Decide(c, Naive!Denied(reason))
               /\ UNCHANGED <<found, clock, tables, locks, req, moment, used>>
    <3>1. PICK reason : Naive!Decide(c, Naive!Denied(reason))
      BY <2>4
    <3>2. Naive!Denied(reason).effect_id = None
      BY DEF Naive!Denied
    <3>3. pc[c] = "lookup"
      BY <1>2 DEF Naive!Lookup
    <3>. QED  BY <2>4, <3>1, <3>2, <3>3 DEF Naive!Decide, IsRefused
  <2>. QED  BY <1>2, <2>1, <2>3, <2>4 DEF Naive!Lookup, lookup
<1>3. CASE Naive!Consume(c)
  BY <1>3 DEF Naive!Consume, Naive!Consumable, Naive!ApprovalRows, Consumable, ApprovalRows,
              Naive!GoTo, Naive!Decide, Naive!Denied, Naive!DeniedFor, IsRefused, Takes
<1>4. CASE Naive!InsertEffect(c)
  BY <1>1, <1>4 DEF Naive!InsertEffect, Naive!Decide, Inserts
<1>5. CASE Naive!Commit(c) \/ Naive!CommitReplyLost(c)
  BY <1>5 DEF Naive!Commit, Naive!CommitReplyLost, Naive!Apply, Naive!WritesEffect, Commits
<1>6. CASE Naive!Fail(c)
  BY <1>1, <1>6 DEF Naive!Fail
<1>7. ~Naive!ConsumeQuota(c)
  BY DEF Naive!ConsumeQuota
<1>. QED  BY <1>2, <1>3, <1>4, <1>5, <1>6, <1>7 DEF Naive!Step

LEMMA HardenedMoves ==
    ASSUME NEW c \in Calls, pc[c] # "quota",
           Hardened!Step(c) \/ Hardened!CommitReplyLost(c) \/ Hardened!Fail(c)
    PROVE  Moves(c)
<1>. USE DEF Moves, tables, locks, Hardened!tables, Hardened!locks
<1>1. ASSUME Hardened!Raise(c) PROVE Moves(c)
  BY <1>1 DEF Hardened!Raise, Raises
<1>2. CASE Hardened!Lookup(c)
  <2>1. CASE Hardened!Raise(c)
    BY <1>1, <2>1
  <2>. DEFINE lookup == Hardened!FindMatchingApproval(Hardened!Subject(c), req[c].tool,
                                                   req[c].account, req[c].amount, moment[c])
  <2>2. \A a \in lookup.approvals : a \in ApprovalRows /\ approval[a].expires_at > moment[c]
    BY DEF Hardened!FindMatchingApproval, Hardened!LatestLive, Hardened!Matching, Hardened!ApprovalRows,
           ApprovalRows
  <2>. HIDE DEF lookup
  <2>3. CASE \E a \in lookup.approvals : found' = [found EXCEPT ![c] = a] /\ Hardened!GoTo(c, "consume")
               /\ UNCHANGED <<clock, tables, locks, req, moment, used>>
    BY <1>2, <2>2, <2>3 DEF Hardened!Lookup, Hardened!GoTo, Finds
  <2>4. CASE \E reason : Hardened!Decide(c, Hardened!Denied(reason))
               /\ UNCHANGED <<found, clock, tables, locks, req, moment, used>>
    <3>1. PICK reason : Hardened!Decide(c, Hardened!Denied(reason))
      BY <2>4
    <3>2. Hardened!Denied(reason).effect_id = None
      BY DEF Hardened!Denied
    <3>3. pc[c] = "lookup"
      BY <1>2 DEF Hardened!Lookup
    <3>. QED  BY <2>4, <3>1, <3>2, <3>3 DEF Hardened!Decide, IsRefused
  <2>. QED  BY <1>2, <2>1, <2>3, <2>4 DEF Hardened!Lookup, lookup
<1>3. CASE Hardened!Consume(c)
  BY <1>3 DEF Hardened!Consume, Hardened!Consumable, Hardened!ApprovalRows, Consumable, ApprovalRows,
              Hardened!GoTo, Hardened!Decide, Hardened!Denied, Hardened!DeniedFor, IsRefused, Takes
<1>4. CASE Hardened!InsertEffect(c)
  BY <1>1, <1>4 DEF Hardened!InsertEffect, Hardened!Decide, Inserts
<1>5. CASE Hardened!Commit(c) \/ Hardened!CommitReplyLost(c)
  BY <1>5 DEF Hardened!Commit, Hardened!CommitReplyLost, Hardened!Apply, Hardened!WritesEffect, Commits
<1>6. CASE Hardened!Fail(c)
  BY <1>1, <1>6 DEF Hardened!Fail
<1>7. ~Hardened!ConsumeQuota(c)
  BY DEF Hardened!ConsumeQuota
<1>. QED  BY <1>2, <1>3, <1>4, <1>5, <1>6, <1>7 DEF Hardened!Step
-----------------------------------------------------------------------------
Turning == OneOK /\ RefusedOK /\ UnapprovedOK

\* A statement of the pending call that leaves the tables alone, after which
\* the call is over, or is bound to what it is about to spend.
LEMMA TablesStand ==
    ASSUME KeysOK, Turning, NEW c \in Pending,
           UNCHANGED <<clock, moment, turn, token, approval, effect>>,
           NEW label, pc' = [pc EXCEPT ![c] = label], label # "quota",
           IsOver(outcome', Calls), IsOver(found', Calls),
           label \in Naive!Active /\ Spends(c)' =>
               /\ found'[c] \in ApprovalRows
               /\ approval[found'[c]].consumed_at = None
               /\ ~RefusedTurn(turn) /\ ~UnapprovedTurn(turn),
           label \in Naive!Active /\ RefusedTurn(turn) => label = "commit",
           label \in Naive!Active /\ UnapprovedTurn(turn) => label \in {"lookup", "commit"}
    PROVE  (KeysOK /\ Turning)'
<1>1. c \in Calls /\ c \in Pending /\ pc'[c] = label /\ IsOver(pc', Calls)
  BY DEF Pending, KeysOK, IsOver
<1>2. \A d \in Pending' : d = c /\ label \in Naive!Active
  <2>1. \A d \in Calls : d # c => pc'[d] = pc[d]
    BY <1>1 DEF KeysOK, IsOver
  <2>2. \A d \in Pending : d = c
    BY <1>1 DEF Turning, OneOK
  <2>3. \A d \in Calls : d \in Pending' <=> pc'[d] \in Naive!Active
    BY DEF Pending, Naive!Active
  <2>. QED  BY <1>1, <2>1, <2>2, <2>3 DEF Pending
<1>3. UNCHANGED <<ApprovalRows, Effects>>
  BY DEF ApprovalRows, Effects
<1>4. KeysOK'
  BY <1>1, <1>3 DEF KeysOK, IsOver
<1>5. OneOK'
  <2>1. \A d \in Pending' : pc'[d] # "quota"
    BY <1>1, <1>2
  <2>2. \A d \in Pending' : Spends(d)' =>
            found'[d] \in ApprovalRows' /\ approval'[found'[d]].consumed_at = None
    BY <1>2, <1>3
  <2>. QED  BY <1>2, <1>3, <2>1, <2>2 DEF Turning, OneOK
<1>6. RefusedTurn(turn)' = RefusedTurn(turn) /\ UnapprovedTurn(turn)' = UnapprovedTurn(turn)
  BY DEF RefusedTurn, UnapprovedTurn, PolicyAt, ScenarioAt
<1>7. RefusedOK'
  <2>1. ASSUME RefusedTurn(turn), NEW d \in Pending'
        PROVE  pc'[d] = "commit" /\ ~Spends(d)'
    BY <1>1, <1>2, <2>1
  <2>2. RefusedTurn(turn) =>
          /\ \A now \in Int :
                Hardened!VerdictOn(TheRequest(token'), now).decision = "denied"
          /\ Effects' = {}
    BY <1>3 DEF Turning, RefusedOK
  <2>. QED  BY <1>6, <2>1, <2>2 DEF RefusedOK
<1>8. UnapprovedOK'
  <2>1. ASSUME UnapprovedTurn(turn), NEW d \in Pending'
        PROVE  /\ pc'[d] \in {"lookup", "commit"} /\ ~Spends(d)'
               /\ \A a \in ApprovalRows : approval[a].expires_at <= moment[d]
    BY <1>1, <1>2, <2>1 DEF Turning, UnapprovedOK
  <2>2. UnapprovedTurn(turn) =>
          /\ Effects' = {}
          /\ \A a \in ApprovalRows' : approval'[a].expires_at <= clock'
    BY <1>3 DEF Turning, UnapprovedOK
  <2>. QED  BY <1>3, <1>6, <2>1, <2>2 DEF UnapprovedOK
<1>. QED  BY <1>4, <1>5, <1>7, <1>8 DEF Turning

\* The commit that writes an effect spends the one approval there is, which
\* nobody spent before.
LEMMA TheEffectIsWritten ==
    ASSUME KeysOK, Turning, NEW c \in Pending, Commits(c), Spends(c),
           UNCHANGED <<clock, moment, turn, token>>
    PROVE  (KeysOK /\ Turning)'
<1>1. /\ c \in Calls /\ pc[c] = "commit" /\ outcome[c].effect_id # None
      /\ found[c] \in ApprovalRows /\ approval[found[c]].consumed_at = None
      /\ moment[c] \in Int /\ found[c] \in ApprovalIds
  BY DEF Commits, Spends, Pending, Turning, OneOK, KeysOK, ApprovalRows
<1>2. /\ approval' = [approval EXCEPT ![found[c]].consumed_at = moment[c]]
      /\ UNCHANGED <<found, outcome>>
  BY <1>1 DEF Commits
<1>3. Effects = {} /\ ~RefusedTurn(turn) /\ ~UnapprovedTurn(turn)
  BY <1>1 DEF Turning, OneOK, RefusedOK, UnapprovedOK
<1>4. Pending' = {} /\ IsOver(pc', Calls)
  <2>1. PICK end \in {"returned", "lost"} : pc' = [pc EXCEPT ![c] = end]
    BY DEF Commits
  <2>2. \A d \in Calls : d # c => pc'[d] = pc[d] /\ pc[d] \notin Naive!Active
    BY <2>1 DEF KeysOK, IsOver, Turning, OneOK, Pending
  <2>3. pc'[c] \notin Naive!Active
    BY <1>1, <2>1 DEF KeysOK, IsOver, Naive!Active
  <2>. QED  BY <2>1, <2>2, <2>3 DEF Pending, KeysOK, IsOver, Naive!Active
<1>5. /\ IsOver(effect', Calls)
      /\ \A d \in Effects' : d = c
  <2>1. PICK row : effect' = [effect EXCEPT ![c] = row]
    BY <1>1 DEF Commits
  <2>2. \A d \in Calls : d # c => effect'[d] = effect[d]
    BY <2>1 DEF KeysOK, IsOver
  <2>. QED  BY <1>3, <2>1, <2>2 DEF Effects, KeysOK, IsOver
<1>6. /\ IsOver(approval', ApprovalIds)
      /\ \A a \in ApprovalRows' : a \in ApprovalRows
      /\ \A a \in ApprovalRows : a = found[c]
      /\ approval'[found[c]] = [approval[found[c]] EXCEPT !.consumed_at = moment[c]]
  <2>1. \A a \in ApprovalIds : a # found[c] => approval'[a] = approval[a]
    BY <1>1, <1>2 DEF KeysOK, IsOver
  <2>. QED  BY <1>1, <1>2, <2>1 DEF KeysOK, IsOver, ApprovalRows, Turning, OneOK
<1>7. approval'[found[c]] \in ApprovalRow /\ approval'[found[c]].consumed_at # None
  <2>1. approval[found[c]] \in ApprovalRow
    BY <1>1 DEF KeysOK
  <2>. QED  BY <1>1, <1>6, <2>1, NoneAssumption DEF ApprovalRow
<1>8. KeysOK'
  BY <1>2, <1>4, <1>5, <1>6, <1>7 DEF KeysOK, IsOver
<1>9. RefusedTurn(turn)' = RefusedTurn(turn) /\ UnapprovedTurn(turn)' = UnapprovedTurn(turn)
  BY DEF RefusedTurn, UnapprovedTurn, PolicyAt, ScenarioAt
<1>10. OneOK'
  BY <1>4, <1>5, <1>6, <1>7 DEF OneOK
<1>. QED  BY <1>3, <1>8, <1>9, <1>10 DEF Turning, RefusedOK, UnapprovedOK

\* A call that moves leaves the turn in order.
LEMMA ACallGoesOn ==
    ASSUME KeysOK, Turning, NEW c \in Pending, Moves(c), UNCHANGED <<turn, token>>
    PROVE  (KeysOK /\ Turning)'
<1>1. /\ c \in Calls
      /\ IsOver(pc, Calls) /\ IsOver(outcome, Calls) /\ IsOver(found, Calls)
      /\ UNCHANGED <<clock, moment>>
  BY DEF Pending, KeysOK, Moves
<1>2. CASE Raises(c)
  <2>1. IsOver(outcome', Calls) /\ IsOver(found', Calls)
    BY <1>1, <1>2 DEF Raises, IsOver
  <2>2. "raised" \notin Naive!Active
    BY DEF Naive!Active
  <2>. QED  BY <1>1, <1>2, <2>1, <2>2, TablesStand DEF Raises
<1>3. CASE IsRefused(c)
  <2>1. PICK answer : outcome' = [outcome EXCEPT ![c] = answer] /\ answer.effect_id = None
    BY <1>3 DEF IsRefused
  <2>2. IsOver(outcome', Calls) /\ outcome'[c].effect_id = None
    BY <1>1, <2>1 DEF IsOver
  <2>3. pc'[c] = "commit"
    BY <1>1, <1>3 DEF IsRefused, IsOver
  <2>4. ~Spends(c)'
    BY <2>2, <2>3 DEF Spends
  <2>. QED  BY <1>1, <1>3, <2>2, <2>4, TablesStand DEF IsRefused
<1>4. CASE Finds(c)
  <2>1. ~RefusedTurn(turn)
    BY <1>4 DEF Finds, Turning, RefusedOK
  <2>2. ~UnapprovedTurn(turn)
    <3>1. PICK a \in ApprovalRows : approval[a].expires_at > moment[c]
      BY <1>4 DEF Finds
    <3>2. approval[a].expires_at \in Int /\ moment[c] \in Int
      BY <1>1 DEF KeysOK, ApprovalRow
    <3>3. ~(approval[a].expires_at <= moment[c])
      BY <3>1, <3>2
    <3>. QED  BY <3>3 DEF Turning, UnapprovedOK
  <2>3. IsOver(found', Calls) /\ IsOver(outcome', Calls)
    BY <1>1, <1>4 DEF Finds, IsOver
  <2>4. pc'[c] = "consume"
    BY <1>1, <1>4 DEF Finds, IsOver
  <2>5. ~Spends(c)'
    BY <2>4 DEF Spends
  <2>. QED  BY <1>1, <1>4, <2>1, <2>2, <2>3, <2>5, TablesStand DEF Finds
<1>5. CASE Takes(c)
  <2>1. ~RefusedTurn(turn) /\ ~UnapprovedTurn(turn)
    BY <1>5 DEF Takes, Turning, RefusedOK, UnapprovedOK
  <2>2. found' = found /\ found[c] \in ApprovalRows /\ approval[found[c]].consumed_at = None
    BY <1>5 DEF Takes, Consumable
  <2>3. IsOver(found', Calls) /\ IsOver(outcome', Calls)
    BY <1>1, <1>5 DEF Takes
  <2>. QED  BY <1>1, <1>5, <2>1, <2>2, <2>3, TablesStand DEF Takes
<1>6. CASE Inserts(c)
  <2>1. Spends(c)
    BY <1>6 DEF Inserts, Spends
  <2>2. ~RefusedTurn(turn) /\ ~UnapprovedTurn(turn)
    BY <2>1 DEF Turning, RefusedOK, UnapprovedOK
  <2>3. found' = found /\ found[c] \in ApprovalRows /\ approval[found[c]].consumed_at = None
    BY <1>6, <2>1 DEF Inserts, Turning, OneOK
  <2>4. IsOver(found', Calls) /\ IsOver(outcome', Calls)
    BY <1>1, <1>6 DEF Inserts, IsOver
  <2>. QED  BY <1>1, <1>6, <2>2, <2>3, <2>4, TablesStand DEF Inserts
<1>7. CASE Commits(c)
  <2>1. CASE Spends(c)
    BY <1>1, <1>7, <2>1, TheEffectIsWritten
  <2>2. CASE ~Spends(c)
    <3>1. UNCHANGED <<approval, effect, found, outcome>>
      BY <1>7, <2>2 DEF Commits, Spends
    <3>2. PICK end \in {"returned", "lost"} : pc' = [pc EXCEPT ![c] = end]
      BY <1>7 DEF Commits
    <3>3. end \notin Naive!Active /\ end # "quota"
      BY DEF Naive!Active
    <3>. QED  BY <1>1, <3>1, <3>2, <3>3, TablesStand
  <2>. QED  BY <2>1, <2>2
<1>. QED  BY <1>2, <1>3, <1>4, <1>5, <1>6, <1>7 DEF Moves
-----------------------------------------------------------------------------
\* A call begins: refused, answered, or on its way to the lookup.
Begins(c) ==
    /\ moment' = [moment EXCEPT ![c] = clock]
    /\ UNCHANGED <<clock, approval, effect, found>>
    /\ \/ /\ pc' = [pc EXCEPT ![c] = "commit"]
          /\ \E answer : outcome' = [outcome EXCEPT ![c] = answer] /\ answer.effect_id = None
       \/ /\ pc' = [pc EXCEPT ![c] = "lookup"]
          /\ outcome' = outcome
          /\ ~RefusedTurn(turn)

LEMMA NaiveBegins ==
    ASSUME NEW c, Naive!CallTool(c, TheRequest(token)), PolicyAt(turn) # HARDENED
    PROVE  Begins(c)
<1>1. \A reason : Naive!Denied(reason).effect_id = None
      /\ Naive!Allowed.effect_id = None
  BY DEF Naive!Denied, Naive!Allowed
<1>. QED
  BY <1>1 DEF Naive!CallTool, Naive!Route, Naive!Decide, Naive!GoTo, Naive!tables, Begins,
              RefusedTurn

LEMMA HardenedBegins ==
    ASSUME NEW c, Hardened!CallTool(c, TheRequest(token)), RefusedOK, clock \in Int
    PROVE  Begins(c)
<1>1. /\ \A reason : Hardened!Denied(reason).effect_id = None
      /\ Hardened!Allowed.effect_id = None
  BY DEF Hardened!Denied, Hardened!Allowed
<1>. DEFINE decision == Hardened!VerdictOn(TheRequest(token), clock).decision
<1>2. RefusedTurn(turn) => decision = "denied"
  BY DEF RefusedOK
<1>3. /\ moment' = [moment EXCEPT ![c] = clock]
      /\ UNCHANGED <<clock, approval, effect, found>>
  BY DEF Hardened!CallTool, Hardened!tables
<1>4. \/ \E reason : Hardened!Decide(c, Hardened!Denied(reason))
      \/ decision # "denied" /\ Hardened!Route(c, TheRequest(token).tool)
  BY DEF Hardened!CallTool
<1>. HIDE DEF decision
<1>. QED  BY <1>1, <1>2, <1>3, <1>4 DEF Hardened!Route, Hardened!Decide, Hardened!GoTo, Begins

LEMMA ACallBegins ==
    ASSUME KeysOK, Turning, Pending = {}, NEW c, Begins(c), UNCHANGED <<turn, token>>
    PROVE  (KeysOK /\ Turning)'
<1>1. /\ IsOver(pc, Calls) /\ IsOver(outcome, Calls) /\ IsOver(moment, Calls)
      /\ UNCHANGED <<clock, approval, effect, found, turn, token>>
      /\ moment' = [moment EXCEPT ![c] = clock] /\ clock \in Int
  BY DEF KeysOK, Begins
<1>2. PICK label \in {"lookup", "commit"} :
         /\ pc' = [pc EXCEPT ![c] = label]
         /\ RefusedTurn(turn) => label = "commit"
  BY DEF Begins
<1>3. /\ IsOver(pc', Calls) /\ IsOver(outcome', Calls) /\ IsOver(moment', Calls)
      /\ \A d \in Calls : moment'[d] \in Int
      /\ c \in Calls => moment'[c] = clock
  BY <1>1 DEF Begins, IsOver, KeysOK
<1>4. \A d \in Pending' : d = c /\ c \in Calls /\ pc'[d] = label
  BY <1>1, <1>2 DEF Pending, IsOver, Naive!Active
<1>5. \A d \in Pending' : ~Spends(d)'
  BY <1>1, <1>4 DEF Begins, Spends, IsOver
<1>6. UNCHANGED <<ApprovalRows, Effects>>
  BY <1>1 DEF ApprovalRows, Effects
<1>7. KeysOK'
  BY <1>1, <1>3, <1>6 DEF KeysOK
<1>8. OneOK'
  BY <1>1, <1>2, <1>4, <1>5, <1>6 DEF Turning, OneOK
<1>9. RefusedTurn(turn)' = RefusedTurn(turn) /\ UnapprovedTurn(turn)' = UnapprovedTurn(turn)
  BY <1>1 DEF RefusedTurn, UnapprovedTurn, PolicyAt, ScenarioAt
<1>10. RefusedOK'
  <2>1. RefusedTurn(turn) =>
          /\ \A now \in Int :
                Hardened!VerdictOn(TheRequest(token'), now).decision = "denied"
          /\ Effects' = {}
    BY <1>1, <1>6 DEF Turning, RefusedOK
  <2>. QED  BY <1>2, <1>4, <1>5, <1>9, <2>1 DEF RefusedOK
<1>11. UnapprovedOK'
  BY <1>1, <1>2, <1>3, <1>4, <1>5, <1>6, <1>9 DEF Turning, UnapprovedOK
<1>. QED  BY <1>7, <1>8, <1>10, <1>11 DEF Turning

\* The turn begins with what setup recorded and minted.
LEMMA ATurnBegins ==
    ASSUME MatrixInv, SetUp
    PROVE  MatrixInv'
<1>1. /\ turn \in 1..12 /\ Pending = {} /\ ApprovalRows = {} /\ Effects = {}
      /\ MeasuredOK /\ KeysOK /\ phase' = "calling"
      /\ token' = TokenOf(ScenarioAt(turn).id)
      /\ UNCHANGED <<clock, effect, audit, counter, locks, callVars, turn, results>>
  BY DEF MatrixInv, SetUp
<1>. DEFINE ttl == ScenarioAt(turn).approval_ttl
            a == CHOOSE i \in ApprovalIds : approval[i] = Unissued
            row == NewApproval(Agent, "issue_credit", "ACC-1", 1, ttl, clock)
<1>2. approval' = IF ttl = None THEN approval ELSE [approval EXCEPT ![a] = row]
  BY DEF SetUp
<1>3. ttl # None => ttl \in Int
  <2>1. \A t \in 1..12 : \E i \in 1..6 : ScenarioAt(t) = SCENARIOS[i]
    <3>1. \A t \in 1..12 : (t + 1) \div 2 \in 1..6
      OBVIOUS
    <3>. QED  BY <3>1 DEF ScenarioAt
  <2>2. \A i \in 1..6 : SCENARIOS[i].approval_ttl \in {ApprovalTtl, None, -1}
    BY DEF SCENARIOS, Scenario
  <2>3. ttl \in {ApprovalTtl, None, -1}
    BY <1>1, <2>1, <2>2
  <2>. QED  BY <2>3, MatrixAssumption
<1>. HIDE DEF ttl, a
<1>4. /\ UNCHANGED <<pc, outcome, found, moment>>
      /\ UNCHANGED <<Pending, Effects>>
  BY <1>1 DEF callVars, Pending, Effects
<1>5. /\ IsOver(approval', ApprovalIds)
      /\ \A i \in ApprovalRows' : i = a /\ ttl # None /\ approval'[i] = row
  BY <1>1, <1>2 DEF KeysOK, IsOver, ApprovalRows
<1>6. \A i \in ApprovalRows' : approval'[i] \in ApprovalRow /\ approval'[i].expires_at = clock + ttl
  <2>1. clock \in Int
    BY <1>1 DEF KeysOK
  <2>2. ttl # None => row \in ApprovalRow /\ row.expires_at = clock + ttl
    BY <1>3, <2>1 DEF NewApproval, ApprovalRow
  <2>. QED  BY <1>5, <2>2
<1>7. KeysOK'
  BY <1>1, <1>4, <1>5, <1>6 DEF KeysOK, IsOver
<1>8. MeasuredOK'
  BY <1>1 DEF MeasuredOK, Allowance, RefusedTurn, UnapprovedTurn, PolicyAt, ScenarioAt
<1>9. OneOK'
  BY <1>1, <1>4, <1>5 DEF OneOK
<1>10. RefusedOK'
  <2>1. RefusedTurn(turn)' = RefusedTurn(turn)
    BY <1>1 DEF RefusedTurn, PolicyAt, ScenarioAt
  <2>2. RefusedTurn(turn) =>
          \A now \in Int : Hardened!VerdictOn(TheRequest(token'), now).decision = "denied"
    BY <1>1, RefusedTokens
  <2>. QED  BY <1>1, <1>4, <2>1, <2>2 DEF RefusedOK
<1>11. UnapprovedOK'
  <2>1. UnapprovedTurn(turn)' => ttl \in {None, -1}
    BY <1>1 DEF UnapprovedTurn, ScenarioAt, ttl
  <2>2. UnapprovedTurn(turn)' => \A i \in ApprovalRows' : approval'[i].expires_at <= clock'
    <3>1. clock' = clock /\ clock \in Int
      BY <1>1 DEF KeysOK
    <3>2. UnapprovedTurn(turn)' => \A i \in ApprovalRows' : approval'[i].expires_at = clock + (-1)
      BY <1>5, <1>6, <2>1
    <3>. QED  BY <3>1, <3>2
  <2>. QED  BY <1>1, <1>4, <2>2 DEF UnapprovedOK
<1>. QED  BY <1>1, <1>7, <1>8, <1>9, <1>10, <1>11 DEF MatrixInv
-----------------------------------------------------------------------------
LEMMA MatrixStarts == Init => MatrixInv
<1>1. SUFFICES ASSUME Init PROVE MatrixInv
  OBVIOUS
<1>2. /\ turn = 1 /\ results = <<>> /\ phase = "clear" /\ clock = 0
      /\ approval = [a \in ApprovalIds |-> Unissued] /\ effect = [c \in Calls |-> None]
      /\ pc = [c \in Calls |-> "idle"] /\ outcome = [c \in Calls |-> None]
      /\ found = [c \in Calls |-> None] /\ moment = [c \in Calls |-> 0]
  BY <1>1 DEF Init, StoreInit, Naive!EffectsInit
<1>3. KeysOK
  BY <1>2 DEF KeysOK, IsOver, ApprovalRows
<1>4. Pending = {}
  BY <1>2 DEF Pending, Naive!Active
<1>5. MeasuredOK
  BY <1>2 DEF MeasuredOK
<1>. QED  BY <1>2, <1>3, <1>4, <1>5 DEF MatrixInv

\* Clearing leaves no row for the turn that follows.
LEMMA AClear ==
    ASSUME MatrixInv, Clear
    PROVE  MatrixInv'
<1>1. /\ phase = "clear" /\ Pending = {} /\ KeysOK /\ MeasuredOK
      /\ effect' = [c \in Calls |-> None]
      /\ approval' = [a \in ApprovalIds |-> IF a \in ApprovalRows THEN Wiped ELSE approval[a]]
      /\ phase' = IF turn > Turns THEN "done" ELSE "setup"
      /\ UNCHANGED <<clock, pc, found, outcome, moment, turn, results>>
  BY DEF MatrixInv, Clear, callVars
<1>2. ApprovalRows' = {} /\ Effects' = {} /\ Pending' = {}
  BY <1>1 DEF ApprovalRows, Effects, Pending
<1>3. KeysOK'
  BY <1>1, <1>2 DEF KeysOK, IsOver
<1>4. MeasuredOK'
  BY <1>1 DEF MeasuredOK, Allowance, RefusedTurn, UnapprovedTurn, PolicyAt, ScenarioAt
<1>5. phase' = "setup" => turn' \in 1..12
  BY <1>1, TheTurns DEF MeasuredOK
<1>. QED  BY <1>1, <1>2, <1>3, <1>4, <1>5 DEF MatrixInv

\* One effect at most, and none where none is allowed, is counted.
LEMMA EffectsCounted ==
    ASSUME Turning
    PROVE  Cardinality(Effects) \in Nat /\ Cardinality(Effects) <= Allowance(turn)
<1>1. CASE Effects = {}
  BY <1>1, FS_EmptySet DEF Allowance
<1>2. CASE Effects # {}
  <2>1. PICK c : Effects = {c}
    BY <1>2 DEF Turning, OneOK
  <2>2. Cardinality(Effects) = 1
    BY <2>1, FS_Singleton
  <2>3. Allowance(turn) = 1
    BY <1>2 DEF Turning, RefusedOK, UnapprovedOK, Allowance
  <2>. QED  BY <2>2, <2>3
<1>. QED  BY <1>1, <1>2

LEMMA AMeasure ==
    ASSUME MatrixInv, Measure
    PROVE  MatrixInv'
<1>1. /\ phase = "calling" /\ Pending = {} /\ turn \in 1..12
      /\ KeysOK /\ MeasuredOK /\ Turning
      /\ phase' \in {"failed", "clear"} /\ turn' = turn + 1
      /\ UNCHANGED <<clock, approval, effect, pc, found, outcome, moment>>
  BY DEF MatrixInv, Turning, Measure, tables, callVars
<1>2. PICK decision, reason :
         results' = Append(results, [decision |-> decision, reason |-> reason,
                                     effects |-> Cardinality(Effects)])
  BY DEF Measure
<1>. DEFINE rows == {results[t] : t \in DOMAIN results}
            row == [decision |-> decision, reason |-> reason, effects |-> Cardinality(Effects)]
<1>0. row.effects = Cardinality(Effects)
  OBVIOUS
<1>3. /\ results \in Seq(rows) /\ Len(results) = turn - 1
      /\ \A t \in DOMAIN results : results[t].effects \in Nat /\ results[t].effects <= Allowance(t)
  BY <1>1 DEF MeasuredOK
<1>. HIDE DEF rows, row
<1>4. results' \in Seq(rows \cup {row}) /\ Len(results') = turn
      /\ DOMAIN results' = 1..turn /\ DOMAIN results = 1..(turn - 1)
      /\ results'[turn] = row
      /\ \A t \in DOMAIN results : results'[t] = results[t]
  <2>1. results \in Seq(rows \cup {row})
    BY <1>3
  <2>2. results' = Append(results, row)
    BY <1>2 DEF row
  <2>. QED  BY <1>1, <1>3, <2>1, <2>2
<1>5. results' \in Seq({results'[t] : t \in DOMAIN results'})
  BY <1>4
<1>6. \A t : Allowance(t)' = Allowance(t)
  BY DEF Allowance, RefusedTurn, UnapprovedTurn, PolicyAt, ScenarioAt
<1>7. \A t \in DOMAIN results' :
         results'[t].effects \in Nat /\ results'[t].effects <= Allowance(t)
  <2>1. \A t \in 1..turn : t = turn \/ t \in 1..(turn - 1)
    BY <1>1
  <2>. QED  BY <1>0, <1>1, <1>3, <1>4, <2>1, EffectsCounted
<1>8. MeasuredOK'
  BY <1>1, <1>4, <1>5, <1>6, <1>7 DEF MeasuredOK
<1>9. KeysOK' /\ Pending' = {}
  BY <1>1 DEF KeysOK, IsOver, Pending, ApprovalRows
<1>. QED  BY <1>1, <1>8, <1>9 DEF MatrixInv

\* A step that leaves the turn and what was measured alone.
LEMMA TheTurnGoesOn ==
    ASSUME MatrixInv, phase = "calling", (KeysOK /\ Turning)',
           UNCHANGED <<turn, phase, results>>
    PROVE  MatrixInv'
<1>1. MeasuredOK'
  BY DEF MatrixInv, MeasuredOK, Allowance, RefusedTurn, UnapprovedTurn, PolicyAt, ScenarioAt
<1>. QED  BY <1>1 DEF MatrixInv, Turning

\* The clock goes on: what had expired stays expired.
LEMMA TimeGoesOn ==
    ASSUME MatrixInv, TimePasses
    PROVE  MatrixInv'
<1>1. /\ clock' = clock + 1
      /\ UNCHANGED <<approval, effect, pc, found, outcome, moment, turn, phase, token, results>>
  BY DEF TimePasses, Tick, tables, callVars, driverVars
<1>2. UNCHANGED <<ApprovalRows, Effects, Pending>>
  BY <1>1 DEF ApprovalRows, Effects, Pending
<1>3. phase \in {"clear", "setup", "calling"} => KeysOK /\ KeysOK'
  BY <1>1, <1>2 DEF MatrixInv, KeysOK, IsOver
<1>4. MeasuredOK'
  BY <1>1 DEF MatrixInv, MeasuredOK, Allowance, RefusedTurn, UnapprovedTurn, PolicyAt, ScenarioAt
<1>5. ASSUME phase = "calling"
      PROVE  OneOK' /\ RefusedOK' /\ UnapprovedOK'
  <2>1. Turning
    BY <1>5 DEF MatrixInv, Turning
  <2>2. \A c \in Pending : Spends(c)' = Spends(c)
    BY <1>1 DEF Spends
  <2>3. OneOK'
    BY <1>1, <1>2, <2>1, <2>2 DEF Turning, OneOK
  <2>4. RefusedTurn(turn)' = RefusedTurn(turn) /\ UnapprovedTurn(turn)' = UnapprovedTurn(turn)
    BY <1>1 DEF RefusedTurn, UnapprovedTurn, PolicyAt, ScenarioAt
  <2>5. RefusedOK'
    BY <1>1, <1>2, <2>1, <2>2, <2>4 DEF Turning, RefusedOK
  <2>6. UnapprovedOK'
    <3>1. \A a \in ApprovalRows : approval[a].expires_at <= clock => approval[a].expires_at <= clock'
      <4>1. \A a \in ApprovalRows : approval[a].expires_at \in Int
        BY <1>3, <1>5 DEF KeysOK, ApprovalRow
      <4>. QED  BY <1>1, <1>3, <1>5, <4>1 DEF KeysOK
    <3>. QED  BY <1>1, <1>2, <2>1, <2>2, <2>4, <3>1 DEF Turning, UnapprovedOK
  <2>. QED  BY <2>3, <2>5, <2>6
<1>. QED  BY <1>1, <1>2, <1>3, <1>4, <1>5 DEF MatrixInv

\* Steps after which nothing is asked but what was measured before.
LEMMA NothingMore ==
    ASSUME MatrixInv, UNCHANGED <<clock, approval, effect, pc, found, outcome, moment,
                                  turn, token, results>>,
           phase' = "failed" \/ phase' = phase
    PROVE  MatrixInv'
<1>1. UNCHANGED <<ApprovalRows, Effects, Pending>>
  BY DEF ApprovalRows, Effects, Pending
<1>2. (phase \in {"clear", "setup", "calling"} => KeysOK') /\ MeasuredOK'
  BY <1>1 DEF MatrixInv, KeysOK, IsOver, MeasuredOK, Allowance, RefusedTurn, UnapprovedTurn,
              PolicyAt, ScenarioAt
<1>3. CASE phase' = "failed"
  BY <1>2, <1>3 DEF MatrixInv
<1>4. CASE phase' = phase
  <2>1. \A c \in Pending : Spends(c)' = Spends(c)
    BY DEF Spends
  <2>2. OneOK' = OneOK
    BY <1>1, <2>1 DEF OneOK
  <2>3. RefusedTurn(turn)' = RefusedTurn(turn) /\ UnapprovedTurn(turn)' = UnapprovedTurn(turn)
    BY DEF RefusedTurn, UnapprovedTurn, PolicyAt, ScenarioAt
  <2>4. RefusedOK => RefusedOK'
    BY <1>1, <2>1, <2>3 DEF RefusedOK
  <2>5. UnapprovedOK => UnapprovedOK'
    BY <1>1, <2>1, <2>3 DEF UnapprovedOK
  <2>. QED  BY <1>1, <1>2, <1>4, <2>2, <2>4, <2>5 DEF MatrixInv
<1>. QED  BY <1>3, <1>4

LEMMA MatrixGoesOn == MatrixInv /\ [Next]_vars => MatrixInv'
<1>1. SUFFICES ASSUME MatrixInv, [Next]_vars PROVE MatrixInv'
  OBVIOUS
<1>2. CASE Clear
  BY <1>1, <1>2, AClear
<1>3. CASE SetUp
  BY <1>1, <1>3, ATurnBegins
<1>4. CASE CallIssueCredit
  <2>1. /\ phase = "calling" /\ Pending = {} /\ KeysOK /\ Turning /\ clock \in Int
        /\ UNCHANGED <<turn, phase, token, results>>
    BY <1>1, <1>4 DEF CallIssueCredit, MatrixInv, Turning, KeysOK, driverVars
  <2>2. PICK c : IF PolicyAt(turn) = NAIVE THEN Naive!CallTool(c, TheRequest(token))
                                           ELSE Hardened!CallTool(c, TheRequest(token))
    BY <1>4 DEF CallIssueCredit, TheRequest
  <2>3. NAIVE # HARDENED
    <3>1. NAIVE.name = "naive" /\ HARDENED.name = "hardened"
      BY DEF NAIVE, HARDENED
    <3>. QED  BY <3>1
  <2>4. Begins(c)
    BY <2>1, <2>2, <2>3, NaiveBegins, HardenedBegins DEF Turning
  <2>. QED  BY <1>1, <2>1, <2>4, ACallBegins, TheTurnGoesOn
<1>5. CASE CallGoesOn
  <2>1. Pending # {} /\ UNCHANGED <<turn, phase, token, results>>
    BY <1>5 DEF CallGoesOn, driverVars
  <2>2. PICK c \in Pending :
          IF PolicyAt(turn) = NAIVE
          THEN Naive!Step(c) \/ Naive!CommitReplyLost(c) \/ Naive!Fail(c)
          ELSE Hardened!Step(c) \/ Hardened!CommitReplyLost(c) \/ Hardened!Fail(c)
    BY <1>5 DEF CallGoesOn
  <2>3. CASE phase = "calling"
    <3>1. KeysOK /\ Turning
      BY <1>1, <2>3 DEF MatrixInv, Turning
    <3>2. c \in Calls /\ pc[c] # "quota"
      BY <3>1 DEF Turning, OneOK, Pending
    <3>3. Moves(c)
      BY <2>2, <3>2, NaiveMoves, HardenedMoves
    <3>. QED  BY <1>1, <2>1, <2>3, <3>1, <3>3, ACallGoesOn, TheTurnGoesOn
  <2>4. CASE phase # "calling"
    <3>1. phase \in {"done", "failed"}
      BY <1>1, <2>1, <2>4 DEF MatrixInv
    <3>2. MeasuredOK'
      BY <1>1, <2>1 DEF MatrixInv, MeasuredOK, Allowance, RefusedTurn, UnapprovedTurn, PolicyAt,
                        ScenarioAt
    <3>. QED  BY <2>1, <3>1, <3>2 DEF MatrixInv
  <2>. QED  BY <2>3, <2>4
<1>6. CASE Measure
  BY <1>1, <1>6, AMeasure
<1>7. CASE BuildRaises
  BY <1>1, <1>7, NothingMore DEF BuildRaises, tables, callVars
<1>8. CASE TimePasses
  BY <1>1, <1>8, TimeGoesOn
<1>9. CASE Over \/ UNCHANGED vars
  BY <1>1, <1>9, NothingMore DEF Over, vars, tables, callVars, driverVars
<1>. QED  BY <1>1, <1>2, <1>3, <1>4, <1>5, <1>6, <1>7, <1>8, <1>9 DEF Next

\* MatrixInv holds of every state of every build.
THEOREM MatrixInvariant == Spec => []MatrixInv
<1>1. Spec => []MatrixInv
  BY MatrixStarts, MatrixGoesOn, PTL DEF Spec
<1>. QED  BY <1>1

\* "A scenario cannot borrow an effect from the one before it" (matrix.py:14):
\* at whatever pace and whichever calls fail, no row of the matrix counts more
\* effects than are published, nor a hardened row more than ADR-001 allows.
THEOREM ScenariosBorrowNothing == Spec => []NothingBorrowed
<1>1. MatrixInv => NothingBorrowed
  <2>1. ASSUME MatrixInv, NEW t \in DOMAIN results
        PROVE  /\ results[t].effects <= PublishedRows[t].effects
               /\ PolicyAt(t) = HARDENED => results[t].effects <= ScenarioAt(t).expected_effects
    <3>1. /\ turn \in 1..13 /\ results[t].effects <= Allowance(t)
          /\ DOMAIN results = 1..(turn - 1)
      <4>1. MeasuredOK
        BY <2>1 DEF MatrixInv
      <4>. DEFINE rows == {results[k] : k \in DOMAIN results}
      <4>2. results \in Seq(rows) /\ Len(results) = turn - 1
        BY <4>1 DEF MeasuredOK
      <4>. HIDE DEF rows
      <4>. QED  BY <4>1, <4>2 DEF MeasuredOK
    <3>2. t \in 1..12
      BY <2>1, <3>1
    <3>. QED  BY <3>1, <3>2, TheTurns
  <2>. QED  BY <2>1 DEF NothingBorrowed
<1>. QED  BY <1>1, MatrixInvariant, PTL
=============================================================================
