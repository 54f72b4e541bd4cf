----------------------------- MODULE SmokeProofs -----------------------------
(***************************************************************************)
(* The deployed smoke passes a correct server exactly from a clean start,  *)
(* for every ceiling, drain limit, burst, number of earlier approvals and  *)
(* set of visitors that DeploymentAssumption allows.                       *)
(*                                                                         *)
(* The script is one of the server's clients, so J and CounterOK hold      *)
(* while it runs.  Beside it nothing happens but refusals at the door: the *)
(* approvals are a stock, and effects and unspent approvals together are   *)
(* as many as were granted (CountsOK).  The script makes too few requests  *)
(* for a credit to meet the ceiling (RoomForGoods), so that one is refused *)
(* only when there is nothing to spend (ToldOK).  What each scenario       *)
(* starts from (StockOK) and its score follow, place by place.             *)
(***************************************************************************)
EXTENDS Smoke, McProofs, WellFoundedInduction

\* The one message that can spend an approval, and the rows it can spend.
Good == Posted("valid_request", "issue_credit")
ForAgent(a) ==
    /\ approval[a].subject = Agent /\ approval[a].tool = "issue_credit"
    /\ approval[a].account = "ACC-1" /\ approval[a].amount = 1
    /\ approval[a].expires_at \in 1..DefaultTtl

\* What the script is posting, and how many requests at a time.
Probed == Range(ProbeCalls)
Posting == IF phase = "drain" THEN Good ELSE Current.message
Width   == IF phase = "drain" THEN 1 ELSE Current.width
Most    == IF phase = "drain" THEN MaxDrains ELSE Current.times

\* Nothing happens but the script's requests and the visitors' refusals.
QuietOK == clock = 0 /\ resetPc = "idle" /\ resets = 0

\* The place in the script and what its phase has done so far.
PlaceOK ==
    /\ at \in 1..13
    /\ phase \in {"arriving", "drain", "grant", "before", "run", "over", "crashed"}
    /\ phase = "arriving" => at = 1
    /\ phase = "over" <=> at = 13
    /\ leftover \in 0..MaxLeftover
    /\ statuses \in Seq({201, 401})
    /\ Len(statuses) <= (IF phase \in {"arriving", "drain", "over"} THEN 0 ELSE Len(Current.grants))
    /\ phase \in {"before", "run"} => Len(statuses) = Len(Current.grants)
    /\ phase # "over" =>
         statuses = [i \in 1..Len(statuses) |-> IF MayGrant(Current.grants[i]) THEN 201 ELSE 401]
    /\ scores \in Seq({scores[i] : i \in DOMAIN scores})
    /\ Len(scores) = at - 1

\* The requests made for the phase: none twice, all alike, one at a time but
\* in the race.
SentOK ==
    /\ sent \in Seq(Probed)
    /\ phase \in {"drain", "run"} \/ sent = <<>>
    /\ phase = "drain" /\ ~Current.drains => sent = <<>>
    /\ Len(sent) <= (IF phase \in {"drain", "run"} THEN Most ELSE 0)
    /\ \A i, j \in DOMAIN sent : sent[i] = sent[j] => i = j
    /\ \A i \in DOMAIN sent : stage[sent[i]] # "idle" /\ message[sent[i]] = Posting
    /\ Width = 1 => \A i \in DOMAIN sent : i < Len(sent) => Answered(sent[i])

\* The requests: the script's own are in its table and answered but for those
\* under way, visitors do not pass the door, and nothing breaks.
RequestFine(c) ==
    /\ stage[c] \in {"idle", "refusing", "refused", "accepted", "called"}
    /\ pc[c] \notin {"raised", "lost"}
    /\ c \notin Probed => stage[c] \in {"idle", "refusing", "refused"}
    /\ c \in Probed /\ stage[c] # "idle" => message[c] \in SmokeMessages
    /\ stage[c] \in {"refusing", "refused"} => TransportRefusal(message[c].token, 0) # None
    /\ stage[c] # "idle" /\ ~Answered(c) /\ c \in Probed => c \in Range(sent)
    /\ moment[c] = 0
    /\ pc[c] \in {"lookup", "consume", "insert"} => used[c] > 0
    /\ outcome[c] # None =>
         /\ Verdict(c).decision = "allowed" => used[c] > 0
         /\ outcome[c].decision = IF outcome[c].reason = None THEN "allowed" ELSE "denied"
    /\ pc[c] = "returned" /\ Won(c) => c \in Effects
RequestsFine == \A c \in Calls : RequestFine(c)

\* No approval is for another agent, act or amount, and none has expired.
RowsOK == \A a \in ApprovalIds : /\ approval[a] # Wiped
                                 /\ a \in ApprovalRows => ForAgent(a)

\* There is nothing left to spend, or the two calls of F have had it.
Caused == Effects \cap Range(sent)
Gone == Unspent = {} \/ (Width = 2 /\ Caused # {})
ToldOK ==
    \A c \in Range(sent) : message[c] = Good =>
        /\ pc[c] = "consume" => found[c] \in Unspent \/ Gone
        /\ outcome[c] # None /\ ~Won(c) => Gone

\* How many approvals were granted, and how many requests may have claimed a
\* unit of issue_credit's ceiling.
GrantedBefore == IF at = 1 THEN 0 ELSE IF at <= 9 THEN 1 ELSE IF at = 10 THEN 2 ELSE 3
Created == {i \in DOMAIN statuses : statuses[i] = 201}
Goods == {c \in Probed : stage[c] # "idle" /\ message[c] = Good}
GoodsBefore ==
    IF at = 1 THEN 0 ELSE IF at <= 8 THEN 1
    ELSE IF at <= 10 THEN 2 + (IF at = 10 /\ phase # "drain" THEN MaxDrains ELSE 0)
    ELSE IF at = 11 THEN 4 + MaxDrains ELSE 5 + MaxDrains
CountsOK ==
    /\ IsFiniteSet(Goods)
    /\ Cardinality(Goods) <= GoodsBefore + (IF Posting = Good THEN Len(sent) ELSE 0)
    /\ IsFiniteSet(Effects) /\ IsFiniteSet(Unspent)
    /\ Cardinality(Effects) + Cardinality(Unspent)
         = leftover + GrantedBefore + Cardinality(Created)
    /\ phase = "run" => /\ before \in Nat
                        /\ Cardinality(Effects) = before + Cardinality(Caused)

\* What each scenario starts from.
StockOK ==
    /\ at = 1 /\ phase # "run" => Effects = {}
    /\ at = 1 /\ phase = "run" => before = 0
    /\ at \in 2..8 /\ phase # "run" => Cardinality(Effects) = 1
    /\ at \in 2..8 /\ phase = "run" => before = 1
    /\ at = 10 /\ phase = "grant" => Cardinality(Unspent) = Len(statuses)
    /\ at = 10 /\ phase = "before" => Cardinality(Unspent) = 1
    /\ at = 10 /\ phase = "run" => before = leftover + 2
    /\ at = 11 /\ phase # "run" => Unspent = {}
    /\ at = 11 /\ phase = "run" => before = leftover + 3

\* Only the scenario that claims there is no approval can fail.
ScoresOK == \A i \in DOMAIN scores : scores[i].pass <=> (i = 8 => leftover = 0)

Running == phase \notin {"over", "crashed"}

\* A script that has crashed promises nothing; one that is over, its scores.
SmokeInv ==
    /\ phase # "crashed" => PlaceOK /\ ScoresOK
    /\ Running => /\ QuietOK /\ SentOK /\ RequestsFine /\ RowsOK
                  /\ ToldOK /\ CountsOK /\ StockOK
-----------------------------------------------------------------------------
(* The script's table.                                                     *)

Scene(name, drains, grants, message_, times, width, expect_effects) ==
    [ name |-> name, drains |-> drains, grants |-> grants, message |-> message_,
      times |-> times, width |-> width, expect_effects |-> expect_effects ]

Read == Posted("valid_request", "read_account")
Bad(key) == Posted(key, "issue_credit")
BadKeys == {"wrong_audience", "scope_amplification", "expired", "bad_signature", "garbage"}

\* A plain scenario posts one message once.
LEMMA PlainIs ==
    ASSUME NEW name, NEW key, NEW tool, NEW n
    PROVE  Plain(name, key, tool, n) = Scene(name, FALSE, <<>>, Posted(key, tool), 1, 1, n)
BY DEF Plain, Scene

\* The table, row by row.
LEMMA TheTable ==
    /\ DOMAIN SCRIPT = 1..12 /\ Len(SCRIPT) = 12
    /\ SCRIPT[1] = Scene("positive_path", FALSE, <<ApproverToken>>, Good, 1, 1, 1)
    /\ SCRIPT[2] = Scene("permitted_read", FALSE, <<>>, Read, 1, 1, 0)
    /\ SCRIPT[3] = Scene("A_wrong_audience", FALSE, <<>>, Bad("wrong_audience"), 1, 1, 0)
    /\ SCRIPT[4] = Scene("B_scope_amplification", FALSE, <<>>, Bad("scope_amplification"), 1, 1, 0)
    /\ SCRIPT[5] = Scene("H_expired", FALSE, <<>>, Bad("expired"), 1, 1, 0)
    /\ SCRIPT[6] = Scene("H_bad_signature", FALSE, <<>>, Bad("bad_signature"), 1, 1, 0)
    /\ SCRIPT[7] = Scene("H_garbage_bearer", FALSE, <<>>, Bad("garbage"), 1, 1, 0)
    /\ SCRIPT[8] = Scene("C_no_approval", FALSE, <<>>, Good, 1, 1, 0)
    /\ SCRIPT[9] = Scene("D_agent_token_cannot_grant_approval", FALSE,
                         <<None, Agents, ApproverToken>>, Good, 0, 1, 0)
    /\ SCRIPT[10] = Scene("F_one_approval_two_concurrent_calls", TRUE, <<ApproverToken>>, Good, 2, 2, 1)
    /\ SCRIPT[11] = Scene("G_replay_consumed_approval", FALSE, <<>>, Good, 1, 1, 0)
    /\ SCRIPT[12] = Scene("rate_limit", FALSE, <<>>, Read, Limit + Surplus, 1, 0)
<1>. DEFINE p1 == Plain("positive_path", "valid_request", "issue_credit", 1)
            p9 == Plain("D_agent_token_cannot_grant_approval", "valid_request", "issue_credit", 0)
            p10 == Plain("F_one_approval_two_concurrent_calls", "valid_request", "issue_credit", 1)
            p12 == Plain("rate_limit", "valid_request", "read_account", 0)
<1>1. /\ DOMAIN SCRIPT = 1..12 /\ Len(SCRIPT) = 12
      /\ SCRIPT[1] = [p1 EXCEPT !.grants = <<ApproverToken>>]
      /\ SCRIPT[2] = Plain("permitted_read", "valid_request", "read_account", 0)
      /\ SCRIPT[3] = Plain("A_wrong_audience", "wrong_audience", "issue_credit", 0)
      /\ SCRIPT[4] = Plain("B_scope_amplification", "scope_amplification", "issue_credit", 0)
      /\ SCRIPT[5] = Plain("H_expired", "expired", "issue_credit", 0)
      /\ SCRIPT[6] = Plain("H_bad_signature", "bad_signature", "issue_credit", 0)
      /\ SCRIPT[7] = Plain("H_garbage_bearer", "garbage", "issue_credit", 0)
      /\ SCRIPT[8] = Plain("C_no_approval", "valid_request", "issue_credit", 0)
      /\ SCRIPT[9] = [p9 EXCEPT !.times = 0, !.grants = <<None, Agents, ApproverToken>>]
      /\ SCRIPT[10] = [p10 EXCEPT !.drains = TRUE, !.grants = <<ApproverToken>>, !.times = 2, !.width = 2]
      /\ SCRIPT[11] = Plain("G_replay_consumed_approval", "valid_request", "issue_credit", 0)
      /\ SCRIPT[12] = [p12 EXCEPT !.times = Limit + Surplus]
  BY DEF SCRIPT
<1>2. SCRIPT[1] = Scene("positive_path", FALSE, <<ApproverToken>>, Good, 1, 1, 1)
  <2>. DEFINE s == SCRIPT[1]
  <2>1. s = [p1 EXCEPT !.grants = <<ApproverToken>>]
    BY <1>1
  <2>. HIDE DEF s
  <2>2. /\ s.name = "positive_path" /\ s.drains = FALSE /\ s.grants = <<ApproverToken>>
        /\ s.message = Good /\ s.times = 1 /\ s.width = 1 /\ s.expect_effects = 1
    BY <2>1 DEF Plain, Good
  <2>3. s = [name |-> s.name, drains |-> s.drains, grants |-> s.grants, message |-> s.message,
             times |-> s.times, width |-> s.width, expect_effects |-> s.expect_effects]
    BY <2>1 DEF Plain
  <2>4. s = Scene("positive_path", FALSE, <<ApproverToken>>, Good, 1, 1, 1)
    BY <2>2, <2>3 DEF Scene
  <2>. QED  BY <2>4 DEF s
<1>3. SCRIPT[9] = Scene("D_agent_token_cannot_grant_approval", FALSE,
                         <<None, Agents, ApproverToken>>, Good, 0, 1, 0)
  <2>. DEFINE s == SCRIPT[9]
  <2>1. s = [p9 EXCEPT !.times = 0, !.grants = <<None, Agents, ApproverToken>>]
    BY <1>1
  <2>. HIDE DEF s
  <2>2. /\ s.name = "D_agent_token_cannot_grant_approval" /\ s.drains = FALSE
        /\ s.grants = <<None, Agents, ApproverToken>>
        /\ s.message = Good /\ s.times = 0 /\ s.width = 1 /\ s.expect_effects = 0
    BY <2>1 DEF Plain, Good
  <2>3. s = [name |-> s.name, drains |-> s.drains, grants |-> s.grants, message |-> s.message,
             times |-> s.times, width |-> s.width, expect_effects |-> s.expect_effects]
    BY <2>1 DEF Plain
  <2>. QED  BY <2>2, <2>3 DEF Scene, s
<1>4. SCRIPT[10] = Scene("F_one_approval_two_concurrent_calls", TRUE, <<ApproverToken>>, Good, 2, 2, 1)
  BY <1>1 DEF Good, Plain, Scene
<1>5. SCRIPT[12] = Scene("rate_limit", FALSE, <<>>, Read, Limit + Surplus, 1, 0)
  BY <1>1 DEF Read, Plain, Scene
<1>. HIDE DEF p1, p9, p10, p12
<1>. QED  BY <1>1, <1>2, <1>3, <1>4, <1>5, PlainIs DEF Good, Read, Bad

\* The table, column by column.
GrantsAt(i) == IF i \in {1, 10} THEN <<ApproverToken>>
               ELSE IF i = 9 THEN <<None, Agents, ApproverToken>> ELSE <<>>
TimesAt(i) == IF i = 9 THEN 0 ELSE IF i = 10 THEN 2 ELSE IF i = 12 THEN Limit + Surplus ELSE 1

LEMMA TheColumns ==
    ASSUME NEW i \in 1..12
    PROVE  /\ i = 10 => SCRIPT[i].drains = TRUE
           /\ i # 10 => SCRIPT[i].drains = FALSE
           /\ SCRIPT[i].grants = GrantsAt(i)
           /\ SCRIPT[i].times = TimesAt(i)
           /\ SCRIPT[i].width = IF i = 10 THEN 2 ELSE 1
           /\ SCRIPT[i].expect_effects = IF i \in {1, 10} THEN 1 ELSE 0
           /\ i \in {1, 8, 9, 10, 11} => SCRIPT[i].message = Good
           /\ i \in {2, 12} => SCRIPT[i].message = Read
           /\ i \in 3..7 => \E key \in BadKeys : SCRIPT[i].message = Bad(key)
           /\ SCRIPT[i].name = "rate_limit" <=> i = 12
           /\ SCRIPT[i].name = "D_agent_token_cannot_grant_approval" <=> i = 9
<1>2. CASE i = 1   BY <1>2, TheTable DEF Scene, GrantsAt, TimesAt
<1>3. CASE i = 2   BY <1>3, TheTable DEF Scene, GrantsAt, TimesAt
<1>4. CASE i = 3   BY <1>4, TheTable DEF Scene, GrantsAt, TimesAt, BadKeys
<1>5. CASE i = 4   BY <1>5, TheTable DEF Scene, GrantsAt, TimesAt, BadKeys
<1>6. CASE i = 5   BY <1>6, TheTable DEF Scene, GrantsAt, TimesAt, BadKeys
<1>7. CASE i = 6   BY <1>7, TheTable DEF Scene, GrantsAt, TimesAt, BadKeys
<1>8. CASE i = 7   BY <1>8, TheTable DEF Scene, GrantsAt, TimesAt, BadKeys
<1>9. CASE i = 8   BY <1>9, TheTable DEF Scene, GrantsAt, TimesAt
<1>10. CASE i = 9  BY <1>10, TheTable DEF Scene, GrantsAt, TimesAt
<1>11. CASE i = 10 BY <1>11, TheTable DEF Scene, GrantsAt, TimesAt
<1>12. CASE i = 11 BY <1>12, TheTable DEF Scene, GrantsAt, TimesAt
<1>13. CASE i = 12 BY <1>13, TheTable DEF Scene, GrantsAt, TimesAt
<1>14. \/ i = 1 \/ i = 2 \/ i = 3 \/ i = 4 \/ i = 5 \/ i = 6
       \/ i = 7 \/ i = 8 \/ i = 9 \/ i = 10 \/ i = 11 \/ i = 12
  OBVIOUS
<1>. QED  BY <1>2, <1>3, <1>4, <1>5, <1>6, <1>7, <1>8, <1>9, <1>10, <1>11, <1>12, <1>13, <1>14, Zenon
-----------------------------------------------------------------------------
(* What the server makes of the script's tokens.                           *)

\* A token of the demonstration as the verifier reads it.
IsMinted(bearer, audience, scopes, links, life) ==
    /\ bearer.bytes = 1
    /\ bearer.iss = Issuer /\ bearer.kid = KeyId
    /\ bearer.alg = "EdDSA" /\ bearer.missing = {}
    /\ bearer.iat = 0 /\ bearer.exp = life
    /\ bearer.sub = Agent /\ bearer.aud = Text({audience})
    /\ Scopes(bearer.scope) = scopes
    /\ Len(bearer.act) \in {0, 1}
    /\ \A i \in DOMAIN bearer.act : bearer.act[i].well_formed
    /\ Chain(bearer).links = links

FromAlice(scopes) == [i \in 1..1 |-> [subject |-> "alice", scopes |-> scopes]]

\* A token minted at 0, honestly or with a stranger's key.
LEMMA MintIs ==
    ASSUME NEW audience, NEW scopes, NEW life \in Int
    PROVE  /\ IsMinted(Mint(Agent, audience, scopes, life, 0), audience, scopes, <<>>, life)
           /\ Mint(Agent, audience, scopes, life, 0).parses = TRUE
           /\ Mint(Agent, audience, scopes, life, 0).key = OwnKey
           /\ IsMinted(Forged(Mint(Agent, audience, scopes, life, 0)), audience, scopes, <<>>, life)
           /\ Forged(Mint(Agent, audience, scopes, life, 0)).key = ForeignKey
<1>. DEFINE t == Mint(Agent, audience, scopes, life, 0)
<1>1. \A s : Scopes(Text(s)) = s
  BY DEF Scopes, Text
<1>2. t.act = <<>> /\ Chain(t).links = <<>>
  BY DEF Mint, Chain
<1>3. IsMinted(t, audience, scopes, <<>>, life) /\ t.parses = TRUE /\ t.key = OwnKey
  BY <1>1, <1>2 DEF IsMinted, Mint
<1>4. /\ Forged(t).act = t.act /\ Forged(t).bytes = t.bytes /\ Forged(t).iss = t.iss
      /\ Forged(t).kid = t.kid /\ Forged(t).alg = t.alg /\ Forged(t).missing = t.missing
      /\ Forged(t).iat = t.iat /\ Forged(t).exp = t.exp /\ Forged(t).sub = t.sub
      /\ Forged(t).aud = t.aud /\ Forged(t).scope = t.scope /\ Forged(t).key = ForeignKey
  BY DEF Forged, Mint
<1>5. Chain(Forged(t)).links = <<>>
  BY <1>2, <1>4 DEF Chain
<1>. HIDE DEF t
<1>6. IsMinted(Forged(t), audience, scopes, <<>>, life)
  BY <1>3, <1>4, <1>5 DEF IsMinted
<1>. QED  BY <1>3, <1>4, <1>6 DEF t

\* A token that alice delegated to the agent at 0.
LEMMA DemoIs ==
    ASSUME NEW given, NEW audience, NEW claimed
    PROVE  /\ IsMinted(DemoToken(given, audience, claimed), audience, claimed, FromAlice(given), 9)
           /\ DemoToken(given, audience, claimed).parses = TRUE
           /\ DemoToken(given, audience, claimed).key = OwnKey
<1>. DEFINE chain == <<[subject |-> "alice", scopes |-> given]>>
            plain == Mint(Agent, audience, claimed, 9, 0)
            act == [i \in DOMAIN chain |->
                       Node(chain[Len(chain) + 1 - i].subject, chain[Len(chain) + 1 - i].scopes)]
            t == [plain EXCEPT !.act = act]
<1>1. DemoToken(given, audience, claimed) = t
  BY DEF DemoToken, MintDelegated
<1>2. act = [i \in 1..1 |-> Node("alice", given)]
  <2>1. Len(chain) = 1 /\ DOMAIN chain = 1..1
        /\ chain[1] = [subject |-> "alice", scopes |-> given]
    OBVIOUS
  <2>. HIDE DEF chain
  <2>. QED  BY <2>1
<1>3. IsMinted(plain, audience, claimed, <<>>, 9) /\ plain.parses = TRUE /\ plain.key = OwnKey
  <2>1. 9 \in Int
    OBVIOUS
  <2>. QED  BY <2>1, MintIs, Zenon
<1>4. /\ t.act = act /\ t.bytes = plain.bytes /\ t.parses = plain.parses /\ t.iss = plain.iss
      /\ t.kid = plain.kid /\ t.alg = plain.alg /\ t.key = plain.key
      /\ t.missing = plain.missing /\ t.iat = plain.iat /\ t.exp = plain.exp
      /\ t.sub = plain.sub /\ t.aud = plain.aud /\ t.scope = plain.scope
  <2>. HIDE DEF act
  <2>. QED  BY DEF Mint
<1>5. Node("alice", given).sub = "alice" /\ Scopes(Node("alice", given).scope) = given
      /\ Node("alice", given).well_formed
  BY DEF Node, Text, Scopes
<1>. HIDE DEF t, act, plain
<1>6. /\ t.act = [i \in 1..1 |-> Node("alice", given)]
      /\ DOMAIN t.act = 1..1 /\ Len(t.act) = 1 /\ t.act[1] = Node("alice", given)
  BY <1>2, <1>4
<1>7. Chain(t).links = FromAlice(given)
  BY <1>5, <1>6 DEF Chain, FromAlice
<1>8. IsMinted(t, audience, claimed, FromAlice(given), 9)
  <2>1. \A i \in DOMAIN t.act : t.act[i].well_formed
    BY <1>5, <1>6
  <2>. QED  BY <1>3, <1>4, <1>6, <1>7, <2>1 DEF IsMinted
<1>. QED  BY <1>1, <1>3, <1>4, <1>8

\* Authority: the calls the script is allowed, and those it is not.
TheVerdict(m) == VerdictOn(CallOf(m), 0).decision

\* What verify_token makes of such a token at 0.
LEMMA MintedIsAuthentic ==
    ASSUME NEW t, NEW audience, NEW scopes, NEW links, NEW life \in Int,
           IsMinted(t, audience, scopes, links, life)
    PROVE  /\ VerifyToken(t, 0).failure = IF ~t.parses THEN "token_malformed"
                                           ELSE IF t.key # OwnKey THEN "signature_invalid"
                                           ELSE IF life <= 0 THEN "token_expired" ELSE None
           /\ VerifyToken(t, 0).claims.subject = Agent
           /\ VerifyToken(t, 0).claims.audience = {audience}
           /\ VerifyToken(t, 0).claims.expires_at = life
           /\ VerifyToken(t, 0).claims.scopes = scopes
           /\ VerifyToken(t, 0).claims.chain = links
<1>1. /\ Issuer \in DOMAIN JwksByIssuer
      /\ KeyId \in DOMAIN JwksByIssuer[Issuer]
      /\ JwksByIssuer[Issuer][KeyId] = OwnKey
      /\ MaxTokenBytes \in Nat \ {0} /\ MaxChainLinks \in Nat \ {0}
  BY DeploymentAssumption, TokensAssumption
<1>2. None \notin {"token_malformed", "signature_invalid", "token_expired"}
  BY NoneAssumption DEF DENIAL_REASONS
<1>3. NoCandidateKey(t) = IF ~t.parses THEN "token_malformed" ELSE None
  BY <1>1 DEF NoCandidateKey, IsMinted
<1>4. JwtDecodeFailure(t, 0) = IF t.key # OwnKey THEN "signature_invalid"
                               ELSE IF life <= 0 THEN "token_expired" ELSE None
  BY <1>1 DEF JwtDecodeFailure, IsMinted, ALGORITHMS
<1>5. Chain(t).failure = None
  <2>1. ~(Len(t.act) > MaxChainLinks)
    <3>. DEFINE n == Len(t.act)
    <3>1. n \in {0, 1}
      BY DEF IsMinted
    <3>. HIDE DEF n
    <3>2. ~(n > MaxChainLinks)
      BY <1>1, <3>1
    <3>. QED  BY <3>2 DEF n
  <2>2. \A i \in DOMAIN t.act : t.act[i].well_formed
    BY DEF IsMinted
  <2>. QED  BY <2>1, <2>2 DEF Chain
<1>6. t.aud.shape \in {"text", "list"} /\ t.aud.names = {audience}
  BY DEF IsMinted, Text
<1>7. VerificationFailure(t, 0) = IF ~t.parses THEN "token_malformed"
                                  ELSE IF t.key # OwnKey THEN "signature_invalid"
                                  ELSE IF life <= 0 THEN "token_expired" ELSE None
  BY <1>2, <1>3, <1>4, <1>5, <1>6 DEF VerificationFailure
<1>. QED  BY <1>6, <1>7 DEF VerifyToken, IsMinted

\* The tools the script calls and what they require.
LEMMA TheScopes ==
    /\ DOMAIN TOOL_SCOPES = {"read_account", "flag_account", "issue_credit"}
    /\ TOOL_SCOPES["issue_credit"] = CREDIT /\ TOOL_SCOPES["read_account"] = READ
    /\ IRREVERSIBLE_TOOLS = {"issue_credit"}
    /\ CREDIT \notin {READ, FLAG}
BY DEF TOOL_SCOPES, IRREVERSIBLE_TOOLS, CREDIT, READ, FLAG

\* What authorize says of a tool that exists.
LEMMA TheJudgement ==
    ASSUME NEW m, m.tool \in {"issue_credit", "read_account"}
    PROVE  TheVerdict(m) =
             IF /\ VerifyToken(m.token, 0).failure = None
                /\ ~(VerifyToken(m.token, 0).claims.expires_at <= 0)
                /\ ThisServer \in VerifyToken(m.token, 0).claims.audience
                /\ TOOL_SCOPES[m.tool] \in VerifyToken(m.token, 0).claims.scopes
                /\ \A i \in DOMAIN VerifyToken(m.token, 0).claims.chain :
                      TOOL_SCOPES[m.tool] \in VerifyToken(m.token, 0).claims.chain[i].scopes
             THEN "allowed" ELSE "denied"
<1>. DEFINE judged == VerifyToken(m.token, 0)
            claims == judged.claims
            refusal == Refusal(Policy, claims, m.tool, ThisServer, 0)
<1>1. CallOf(m).token = m.token /\ CallOf(m).tool = m.tool
  BY DEF CallOf
<1>2. Policy.check_audience = TRUE /\ Policy.attenuate_chain = TRUE
  BY McAssumption DEF HARDENED
<1>3. /\ m.tool \in DOMAIN TOOL_SCOPES
      /\ None \notin {"unknown_tool", "token_expired", "audience_mismatch", "insufficient_effective_scope"}
  BY TheScopes, NoneAssumption DEF DENIAL_REASONS
<1>4. TheVerdict(m) = IF judged.failure = None /\ refusal = None THEN "allowed" ELSE "denied"
  BY <1>1, Zenon DEF TheVerdict, VerdictOn, Authorize
<1>5. TOOL_SCOPES[m.tool] \in EffectiveScopes(claims, TRUE) <=>
        /\ TOOL_SCOPES[m.tool] \in claims.scopes
        /\ \A i \in DOMAIN claims.chain : TOOL_SCOPES[m.tool] \in claims.chain[i].scopes
  BY DEF EffectiveScopes
<1>. HIDE DEF claims
<1>6. refusal = None <=> /\ ~(claims.expires_at <= 0)
                         /\ ThisServer \in claims.audience
                         /\ TOOL_SCOPES[m.tool] \in EffectiveScopes(claims, TRUE)
  BY <1>2, <1>3 DEF Refusal
<1>. QED  BY <1>4, <1>5, <1>6 DEF claims

\* The demonstration tokens, one by one.
LEMMA TheTokens ==
    /\ DemoTokens["valid_request"] = DemoToken({READ, FLAG, CREDIT}, ThisServer, {READ, CREDIT})
    /\ DemoTokens["wrong_audience"] = DemoToken({READ, FLAG, CREDIT}, "elsewhere", {READ, CREDIT})
    /\ DemoTokens["scope_amplification"] =
         DemoToken({READ, FLAG}, ThisServer, {READ, FLAG, CREDIT})
    /\ DemoTokens["expired"] = Mint(Agent, ThisServer, {READ, CREDIT}, -1, 0)
    /\ DemoTokens["bad_signature"] = Forged(Mint(Agent, ThisServer, {READ, CREDIT}, 9, 0))
BY DEF DemoTokens

\* The unreadable one is a token whose bytes do not parse.
LEMMA TheGarbage ==
    DemoTokens["garbage"] = [Mint(Agent, ThisServer, {}, 9, 0) EXCEPT !.parses = FALSE]
BY DEF DemoTokens

\* What a posted message says.
LEMMA PostedIs ==
    ASSUME NEW key, NEW tool
    PROVE  /\ Posted(key, tool).token = DemoTokens[key] /\ Posted(key, tool).tool = tool
           /\ Posted(key, tool).account = "ACC-1" /\ Posted(key, tool).amount = 1
BY DEF Posted

\* The credit and the read go with the valid token.
LEMMA GoodAndReadAre ==
    /\ Good.token = DemoTokens["valid_request"] /\ Good.tool = "issue_credit"
    /\ Read.token = DemoTokens["valid_request"] /\ Read.tool = "read_account"
BY DEF Good, Read, Posted

\* The valid token verifies, for the agent and this server.
LEMMA TheValid ==
    /\ DemoTokens["valid_request"].sub = Agent
    /\ VerifyToken(DemoTokens["valid_request"], 0).failure = None
    /\ VerifyToken(DemoTokens["valid_request"], 0).claims.audience = {ThisServer}
    /\ VerifyToken(DemoTokens["valid_request"], 0).claims.expires_at = 9
    /\ VerifyToken(DemoTokens["valid_request"], 0).claims.scopes = {READ, CREDIT}
    /\ VerifyToken(DemoTokens["valid_request"], 0).claims.chain = FromAlice({READ, FLAG, CREDIT})
<1>. DEFINE t == DemoTokens["valid_request"]
<1>1. IsMinted(t, ThisServer, {READ, CREDIT}, FromAlice({READ, FLAG, CREDIT}), 9)
      /\ t.parses = TRUE /\ t.key = OwnKey
  <2>. DEFINE d == DemoToken({READ, FLAG, CREDIT}, ThisServer, {READ, CREDIT})
  <2>1. /\ IsMinted(d, ThisServer, {READ, CREDIT}, FromAlice({READ, FLAG, CREDIT}), 9)
        /\ d.parses = TRUE /\ d.key = OwnKey
    BY DemoIs, Zenon
  <2>2. t = d
    BY TheTokens
  <2>. HIDE DEF t, d
  <2>. QED  BY <2>1, <2>2
<1>. HIDE DEF t
<1>2. 9 \in Int /\ ~(9 <= 0)
  OBVIOUS
<1>3. VerifyToken(t, 0).failure = None
  BY <1>1, <1>2, MintedIsAuthentic
<1>4. t.sub = Agent
  BY <1>1 DEF IsMinted
<1>5. /\ VerifyToken(t, 0).claims.audience = {ThisServer}
      /\ VerifyToken(t, 0).claims.expires_at = 9
      /\ VerifyToken(t, 0).claims.scopes = {READ, CREDIT}
      /\ VerifyToken(t, 0).claims.chain = FromAlice({READ, FLAG, CREDIT})
  BY <1>1, <1>2, MintedIsAuthentic
<1>. QED  BY <1>3, <1>4, <1>5, Zenon DEF t

\* Neither the token nor its chain stands in the way of the two good messages.
LEMMA GoodAndReadAreAllowed ==
    /\ TheVerdict(Good) = "allowed" /\ TheVerdict(Read) = "allowed"
    /\ TransportRefusal(Good.token, 0) = None /\ TransportRefusal(Read.token, 0) = None
<1>. DEFINE t == DemoTokens["valid_request"]
            judged == VerifyToken(t, 0)
<1>1. /\ Good.token = t /\ Good.tool = "issue_credit"
      /\ Read.token = t /\ Read.tool = "read_account"
  BY GoodAndReadAre
<1>2. /\ judged.failure = None
      /\ judged.claims.audience = {ThisServer}
      /\ judged.claims.expires_at = 9
      /\ judged.claims.scopes = {READ, CREDIT}
      /\ judged.claims.chain = FromAlice({READ, FLAG, CREDIT})
  BY TheValid, Zenon
<1>. HIDE DEF t
<1>3. TransportRefusal(t, 0) = None
  <2>1. ThisServer \in judged.claims.audience
    BY <1>2
  <2>. QED  BY <1>2, <2>1, Zenon DEF TransportRefusal
<1>4. ASSUME NEW s \in {READ, CREDIT}
      PROVE  /\ s \in judged.claims.scopes
             /\ \A i \in DOMAIN judged.claims.chain : s \in judged.claims.chain[i].scopes
  <2>1. /\ DOMAIN FromAlice({READ, FLAG, CREDIT}) = 1..1
        /\ \A i \in 1..1 : FromAlice({READ, FLAG, CREDIT})[i].scopes = {READ, FLAG, CREDIT}
    BY DEF FromAlice
  <2>. HIDE DEF judged
  <2>. QED  BY <1>2, <1>4, <2>1
<1>5. ThisServer \in judged.claims.audience /\ ~(judged.claims.expires_at <= 0)
  <2>. HIDE DEF judged
  <2>. QED  BY <1>2
<1>. HIDE DEF judged
<1>6. ASSUME NEW m, m.token = t, m.tool \in {"issue_credit", "read_account"}
      PROVE  TheVerdict(m) = "allowed"
  <2>1. TOOL_SCOPES[m.tool] \in {READ, CREDIT}
    BY <1>6, TheScopes
  <2>2. VerifyToken(m.token, 0) = judged
    BY <1>6 DEF judged
  <2>3. TheVerdict(m) =
          IF /\ judged.failure = None
             /\ ~(judged.claims.expires_at <= 0)
             /\ ThisServer \in judged.claims.audience
             /\ TOOL_SCOPES[m.tool] \in judged.claims.scopes
             /\ \A i \in DOMAIN judged.claims.chain :
                   TOOL_SCOPES[m.tool] \in judged.claims.chain[i].scopes
          THEN "allowed" ELSE "denied"
    BY <1>6, <2>2, TheJudgement
  <2>. QED  BY <1>2, <1>4, <1>5, <2>1, <2>3, Zenon
<1>. QED  BY <1>1, <1>3, <1>6

\* Each of the five bad tokens is refused, by the check its scenario is about.
LEMMA TheBad ==
    ASSUME NEW key \in BadKeys
    PROVE  TheVerdict(Bad(key)) = "denied"
<1>. DEFINE m == Bad(key)
            t == DemoTokens[key]
            judged == VerifyToken(t, 0)
<1>1. m.token = t /\ m.tool = "issue_credit" /\ m.tool \in {"issue_credit", "read_account"}
  BY PostedIs DEF Bad
<1>. HIDE DEF m
<1>2. TheVerdict(m) =
        IF /\ judged.failure = None
           /\ ~(judged.claims.expires_at <= 0)
           /\ ThisServer \in judged.claims.audience
           /\ CREDIT \in judged.claims.scopes
           /\ \A i \in DOMAIN judged.claims.chain : CREDIT \in judged.claims.chain[i].scopes
        THEN "allowed" ELSE "denied"
  <2>1. VerifyToken(m.token, 0) = judged /\ TOOL_SCOPES[m.tool] = CREDIT
    BY <1>1, TheScopes
  <2>. HIDE DEF judged
  <2>. QED  BY <1>1, <2>1, TheJudgement
<1>3. None \notin {"token_malformed", "signature_invalid", "token_expired"}
  BY NoneAssumption DEF DENIAL_REASONS
<1>4. CASE key = "wrong_audience"
  <2>. DEFINE d == DemoToken({READ, FLAG, CREDIT}, "elsewhere", {READ, CREDIT})
  <2>0. IsMinted(d, "elsewhere", {READ, CREDIT}, FromAlice({READ, FLAG, CREDIT}), 9) /\ t = d
    BY <1>4, TheTokens, DemoIs
  <2>. HIDE DEF d, t
  <2>1. judged.claims.audience = {"elsewhere"}
    BY <2>0, MintedIsAuthentic, 9 \in Int
  <2>. HIDE DEF judged
  <2>. QED  BY <1>2, <2>1, DeploymentAssumption DEF m
<1>5. CASE key = "scope_amplification"
  <2>. DEFINE d == DemoToken({READ, FLAG}, ThisServer, {READ, FLAG, CREDIT})
  <2>0. IsMinted(d, ThisServer, {READ, FLAG, CREDIT}, FromAlice({READ, FLAG}), 9) /\ t = d
    BY <1>5, TheTokens, DemoIs
  <2>. HIDE DEF d, t
  <2>1. judged.claims.chain = FromAlice({READ, FLAG})
    BY <2>0, MintedIsAuthentic, 9 \in Int
  <2>2. ~ \A i \in DOMAIN judged.claims.chain : CREDIT \in judged.claims.chain[i].scopes
    <3>1. 1 \in DOMAIN FromAlice({READ, FLAG}) /\ FromAlice({READ, FLAG})[1].scopes = {READ, FLAG}
      BY DEF FromAlice
    <3>. HIDE DEF judged
    <3>. QED  BY <2>1, <3>1, TheScopes
  <2>. HIDE DEF judged
  <2>. QED  BY <1>2, <2>2 DEF m
<1>6. CASE key = "expired"
  <2>1. IsMinted(t, ThisServer, {READ, CREDIT}, <<>>, -1) /\ t.parses = TRUE /\ t.key = OwnKey
    BY <1>6, TheTokens, MintIs, -1 \in Int, Zenon
  <2>. HIDE DEF t
  <2>2. judged.failure = "token_expired"
    BY <2>1, MintedIsAuthentic, -1 \in Int, -1 <= 0
  <2>. HIDE DEF judged
  <2>. QED  BY <1>2, <1>3, <2>2 DEF m
<1>7. CASE key = "bad_signature"
  <2>1. /\ IsMinted(t, ThisServer, {READ, CREDIT}, <<>>, 9) /\ t.key = ForeignKey
    BY <1>7, TheTokens, MintIs, 9 \in Int, Zenon
  <2>2. ForeignKey # OwnKey
    BY TestAuthorityAssumption, DeploymentAssumption
  <2>. HIDE DEF t
  <2>3. judged.failure \in {"token_malformed", "signature_invalid"}
    BY <2>1, <2>2, MintedIsAuthentic, 9 \in Int
  <2>. HIDE DEF judged
  <2>. QED  BY <1>2, <1>3, <2>3 DEF m
<1>8. CASE key = "garbage"
  <2>. DEFINE w == Mint(Agent, ThisServer, {}, 9, 0)
  <2>1. IsMinted(w, ThisServer, {}, <<>>, 9)
    BY MintIs, 9 \in Int, Zenon
  <2>2. /\ t.parses = FALSE /\ t.act = w.act /\ t.bytes = w.bytes /\ t.iss = w.iss
        /\ t.kid = w.kid /\ t.alg = w.alg /\ t.missing = w.missing /\ t.iat = w.iat
        /\ t.exp = w.exp /\ t.sub = w.sub /\ t.aud = w.aud /\ t.scope = w.scope
    BY <1>8, TheGarbage DEF Mint
  <2>. HIDE DEF t, w
  <2>3. IsMinted(t, ThisServer, {}, <<>>, 9)
    BY <2>1, <2>2 DEF IsMinted, Chain
  <2>4. judged.failure = "token_malformed"
    BY <2>2, <2>3, MintedIsAuthentic, 9 \in Int
  <2>. HIDE DEF judged
  <2>. QED  BY <1>2, <1>3, <2>4 DEF m
<1>. QED  BY <1>4, <1>5, <1>6, <1>7, <1>8 DEF m, BadKeys

\* The three kinds of message there are.
LEMMA TheMessages ==
    /\ Good \in SmokeMessages /\ Read \in SmokeMessages /\ Good # Read
    /\ Good.tool = "issue_credit" /\ Read.tool = "read_account"
    /\ \A m \in SmokeMessages :
         /\ m \in Messages /\ CallOf(m) \in Requests
         /\ m = Good \/ m = Read \/ (m.tool = "issue_credit" /\ TheVerdict(m) = "denied")
         /\ m.token.sub = Agent /\ m.account = "ACC-1" /\ m.amount = 1
<1>1. \A i \in 1..12 : SCRIPT[i].message = Good \/ SCRIPT[i].message = Read
                       \/ \E key \in BadKeys : SCRIPT[i].message = Bad(key)
  <2>. SUFFICES ASSUME NEW i \in 1..12
                PROVE  SCRIPT[i].message = Good \/ SCRIPT[i].message = Read
                       \/ \E key \in BadKeys : SCRIPT[i].message = Bad(key)
    OBVIOUS
  <2>1. i \in {1, 8, 9, 10, 11} \/ i \in {2, 12} \/ i \in 3..7
    OBVIOUS
  <2>. QED  BY <2>1, TheColumns, Zenon
<1>2. Good \in SmokeMessages /\ Read \in SmokeMessages
  BY TheTable, TheColumns, 1 \in 1..12, 2 \in 1..12 DEF SmokeMessages
<1>3. ASSUME NEW m \in SmokeMessages
      PROVE  m = Good \/ m = Read \/ \E key \in BadKeys : m = Bad(key)
  BY <1>1, TheTable DEF SmokeMessages
<1>4. Good.tool = "issue_credit" /\ Read.tool = "read_account"
  BY GoodAndReadAre
<1>5. \A key \in BadKeys : Bad(key).tool = "issue_credit" /\ TheVerdict(Bad(key)) = "denied"
  BY PostedIs, TheBad DEF Bad
<1>6. \A key \in BadKeys \cup {"valid_request"} : DemoTokens[key].sub = Agent
  <2>1. /\ 9 \in Int /\ -1 \in Int
        /\ \A audience, scopes, links, life, t :
             IsMinted(t, audience, scopes, links, life) => t.sub = Agent
    BY DEF IsMinted
  <2>2. /\ DemoTokens["valid_request"].sub = Agent
        /\ DemoTokens["wrong_audience"].sub = Agent
        /\ DemoTokens["scope_amplification"].sub = Agent
    <3>1. \A given, audience, claimed : DemoToken(given, audience, claimed).sub = Agent
      <4>. SUFFICES ASSUME NEW given, NEW audience, NEW claimed
                    PROVE  DemoToken(given, audience, claimed).sub = Agent
        OBVIOUS
      <4>. DEFINE d == DemoToken(given, audience, claimed)
      <4>1. IsMinted(d, audience, claimed, FromAlice(given), 9)
        BY DemoIs
      <4>. HIDE DEF d
      <4>2. d.sub = Agent
        BY <4>1 DEF IsMinted
      <4>. QED  BY <4>2 DEF d
    <3>. QED  BY <3>1, TheTokens
  <2>3. DemoTokens["expired"].sub = Agent
    BY TheTokens DEF Mint
  <2>4. DemoTokens["bad_signature"].sub = Agent
    BY TheTokens DEF Mint, Forged
  <2>5. DemoTokens["garbage"].sub = Agent
    BY TheGarbage DEF Mint
  <2>. QED  BY <2>2, <2>3, <2>4, <2>5 DEF BadKeys
<1>7. ASSUME NEW m \in SmokeMessages
      PROVE  m.token.sub = Agent /\ m.account = "ACC-1" /\ m.amount = 1
  <2>1. \E key \in BadKeys \cup {"valid_request"} :
           \E tool : m = Posted(key, tool)
    BY <1>3 DEF Good, Read, Bad
  <2>. QED  BY <1>6, <2>1, PostedIs
<1>8. \A m \in SmokeMessages : m \in Messages /\ CallOf(m) \in Requests
  <2>1. \A m \in SmokeMessages : m \in Messages /\ m.tool \in {"issue_credit", "read_account"}
    BY <1>3, <1>4, <1>5, DeploymentAssumption
  <2>. QED  BY <2>1, McAssumption, TheScopes DEF Tools
<1>9. Good # Read
  BY <1>4
<1>10. ASSUME NEW m \in SmokeMessages
       PROVE  m = Good \/ m = Read \/ (m.tool = "issue_credit" /\ TheVerdict(m) = "denied")
  <2>1. ASSUME NEW key \in BadKeys, m = Bad(key)
        PROVE  m.tool = "issue_credit" /\ TheVerdict(m) = "denied"
    BY <1>5, <2>1
  <2>2. m = Good \/ m = Read \/ \E key \in BadKeys : m = Bad(key)
    BY <1>3
  <2>. QED  BY <2>1, <2>2
<1>. QED  BY <1>2, <1>4, <1>7, <1>8, <1>9, <1>10, Zenon
-----------------------------------------------------------------------------
(* The script is one of the server's clients, so that all that is known of *)
(* the server holds while it runs.                                         *)

ServerOK == J /\ CounterOK /\ OutcomesOK

\* The invariant of the server and its ceiling, in one step of it.
LEMMA ServerKept ==
    ASSUME ServerOK, [McNext]_mcVars
    PROVE  ServerOK' /\ [Next]_vars
<1>1. J /\ IInv /\ McTypeOK /\ McInv /\ CounterOK /\ OutcomesOK
  BY DEF ServerOK, J
<1>2. McInv' /\ [Next]_vars
  BY <1>1, StepOfServer
<1>3. IInv'
  BY <1>1, <1>2, IInvNext
<1>4. McTypeOK'
  <2>1. CASE McNext
    <3>1. TypeOK'
      BY <1>3 DEF IInv
    <3>. QED  BY <1>1, <2>1, <3>1, McTypesNext
  <2>2. CASE UNCHANGED mcVars
    BY <1>1, <1>3, <2>2 DEF IInv, McTypeOK, mcVars, requestVars, trailVars
  <2>. QED  BY <2>1, <2>2
<1>. QED  BY <1>1, <1>2, <1>3, <1>4, CeilingNext, OutcomesNext DEF ServerOK, J

\* A nonempty set of naturals has a least element, as Min of FiniteSetsExt picks.
LEMMA LeastOfSome ==
    ASSUME NEW S, S \subseteq Nat, S # {}
    PROVE  \E n \in S : \A m \in S : n <= m
<1>. DEFINE Less == {pair \in Nat \X Nat : pair[1] < pair[2]}
<1>1. IsWellFoundedOn(Less, Nat)
  BY NatLessThanWellFounded, Zenon DEF OpToRel
<1>2. PICK n \in S : \A m \in S : ~ (<<m, n>> \in Less)
  BY <1>1, WFMin, Zenon
<1>3. ASSUME NEW m \in S PROVE n <= m
  <2>1. <<m, n>> \in Nat \X Nat /\ <<m, n>>[1] = m /\ <<m, n>>[2] = n
    OBVIOUS
  <2>2. <<m, n>> \notin Less
    BY <1>2
  <2>. QED  BY <2>1, <2>2
<1>. QED  BY <1>3

\* The request the script makes next has not been made.
LEMMA NextIsFree ==
    ASSUME Unused # {}
    PROVE  NextCall \in Calls /\ NextCall \in Probed /\ stage[NextCall] = "idle"
<1>1. DOMAIN ProbeCalls \subseteq Nat /\ \A i \in DOMAIN ProbeCalls : ProbeCalls[i] \in Calls
  BY SmokeAssumption
<1>2. Unused \subseteq Nat
  BY <1>1 DEF Unused
<1>3. PICK n \in Unused : \A m \in Unused : n <= m
  BY <1>2, LeastOfSome
<1>4. Min(Unused) \in Unused
  BY <1>3 DEF Min
<1>. QED  BY <1>1, <1>4 DEF NextCall, Unused, Probed, Range

\* Where the script can be, and what it is posting there.
LEMMA ThePlace ==
    ASSUME SmokeInv, Running
    PROVE  /\ at \in 1..12
           /\ phase \in {"arriving", "drain", "grant", "before", "run"}
           /\ PlaceOK /\ ScoresOK /\ QuietOK /\ SentOK /\ RequestsFine /\ RowsOK
           /\ ToldOK /\ CountsOK /\ StockOK
           /\ Current.message \in SmokeMessages /\ Posting \in SmokeMessages
<1>1. /\ PlaceOK /\ ScoresOK /\ QuietOK /\ SentOK /\ RequestsFine /\ RowsOK
      /\ ToldOK /\ CountsOK /\ StockOK
  BY DEF SmokeInv, Running
<1>2. /\ at \in 1..12
      /\ phase \in {"arriving", "drain", "grant", "before", "run"}
  <2>1. /\ at \in 1..13 /\ (phase = "over" <=> at = 13)
        /\ phase \in {"arriving", "drain", "grant", "before", "run", "over", "crashed"}
    BY <1>1 DEF PlaceOK
  <2>. QED  BY <2>1 DEF Running
<1>3. Current.message \in SmokeMessages
  BY <1>2, TheTable DEF SmokeMessages, Current
<1>4. Posting \in SmokeMessages
  BY <1>3, TheMessages DEF Posting
<1>. QED  BY <1>1, <1>2, <1>3, <1>4

\* What the approver's route takes, and from whom.
LEMMA TheBodies ==
    /\ \A ttl \in 1..DefaultTtl : Body(ttl) \in GrantBodies
    /\ DefaultTtl = 9
    /\ ApproverToken \in Credentials
    /\ \A presented : MayGrant(presented) <=> presented = ApproverToken
BY DeploymentAssumption DEF DefaultTtl, MayGrant

\* A grant draws an id that was never issued.
LEMMA IdsAreDrawn ==
    ASSUME Undrawn # {}
    PROVE  NextId \in ApprovalIds /\ approval[NextId] = Unissued
BY DEF Undrawn, NextId

\* Each step of the smoke is a step of the server or leaves it alone.
LEMMA ScriptIsAClient ==
    ASSUME SmokeInv, [SmokeNext]_smokeVars
    PROVE  [McNext]_mcVars
<1>1. CASE UNCHANGED mcVars
  BY <1>1
<1>2. ASSUME NEW m \in SmokeMessages, Unused # {}, VerifyBearer(NextCall, m)
      PROVE  McNext
  BY <1>2, NextIsFree, TheMessages DEF McNext
<1>3. CASE EarlierGrant
  <2>1. phase = "arriving" /\ leftover < MaxLeftover /\ Undrawn # {}
        /\ Grant(ApproverToken, Body(DefaultTtl - 1 - leftover), NextId)
        /\ UNCHANGED <<callVars, resetVars, requestVars, trailVars>>
    BY <1>3 DEF EarlierGrant
  <2>2. leftover \in 0..MaxLeftover /\ MaxLeftover \in Nat /\ MaxLeftover < DefaultTtl
    BY <2>1, ThePlace, SmokeAssumption, DeploymentAssumption DEF Running, PlaceOK
  <2>3. Body(DefaultTtl - 1 - leftover) \in GrantBodies
    BY <2>1, <2>2, TheBodies
  <2>. QED  BY <2>1, <2>3, TheBodies, IdsAreDrawn, Zenon DEF McNext, GrantStep
<1>4. CASE Starts
  BY <1>4, <1>1 DEF Starts
<1>5. CASE DrainApprovals
  <2>1. UNCHANGED mcVars \/ (Unused # {} /\ VerifyBearer(NextCall, Good))
    BY <1>5 DEF DrainApprovals, PostCall, Good
  <2>. QED  BY <1>1, <1>2, <2>1, TheMessages
<1>6. CASE AskForApproval
  <2>1. UNCHANGED mcVars \/ \E presented :
          /\ MayGrant(presented) /\ Undrawn # {}
          /\ Grant(presented, Body(DefaultTtl), NextId)
          /\ UNCHANGED <<callVars, resetVars, requestVars, trailVars>>
    BY <1>6 DEF AskForApproval
  <2>2. ASSUME NEW presented, MayGrant(presented), Undrawn # {},
               Grant(presented, Body(DefaultTtl), NextId),
               UNCHANGED <<callVars, resetVars, requestVars, trailVars>>
        PROVE  McNext
    <3>1. Body(DefaultTtl) \in GrantBodies /\ presented \in Credentials
      BY <2>2, TheBodies
    <3>. QED  BY <2>2, <3>1, IdsAreDrawn, Zenon DEF McNext, GrantStep
  <2>. QED  BY <1>1, <2>1, <2>2
<1>7. CASE CountBefore
  BY <1>7, <1>1 DEF CountBefore
<1>8. CASE PostNext
  <2>1. phase = "run" /\ Unused # {} /\ VerifyBearer(NextCall, Current.message)
    BY <1>8 DEF PostNext, PostCall
  <2>2. Current.message \in SmokeMessages
    BY <2>1, ThePlace DEF Running
  <2>. QED  BY <1>2, <2>1, <2>2
<1>9. CASE Score
  BY <1>9, <1>1 DEF Score
<1>10. CASE VisitorPosts
  BY <1>10, SmokeAssumption, Zenon DEF VisitorPosts, McNext
<1>11. CASE ServerStep
  BY <1>11, Zenon DEF ServerStep, McNext, CallGoesOn
<1>12. CASE SmokeOver
  BY <1>12, <1>1 DEF SmokeOver, smokeVars
<1>13. CASE UNCHANGED smokeVars
  BY <1>13, <1>1 DEF smokeVars
<1>. QED  BY <1>3, <1>4, <1>5, <1>6, <1>7, <1>8, <1>9, <1>10, <1>11, <1>12, <1>13, Zenon
          DEF SmokeNext, ScriptStep

\* What a call of the script is, and what its verdict must be to get on.
LEMMA TheCall ==
    ASSUME ServerOK, SmokeInv, Running, NEW c \in Calls, pc[c] # "idle"
    PROVE  /\ c \in Probed /\ stage[c] = "called" /\ message[c] \in SmokeMessages
           /\ req[c] = CallOf(message[c])
           /\ Verdict(c).decision = TheVerdict(message[c])
           /\ req[c].tool = message[c].tool /\ req[c].account = "ACC-1" /\ req[c].amount = 1
           /\ Subject(c) = Agent /\ moment[c] = 0
           /\ Bucket(c) = <<Agent, message[c].tool, WindowStart(0)>>
           /\ (pc[c] \in {"quota", "lookup", "consume", "insert"} \/ used[c] > 0 \/ Won(c)) =>
                message[c] \in {Good, Read}
           /\ (pc[c] \in {"lookup", "consume", "insert"} \/ Won(c)) => message[c] = Good
<1>1. stage[c] = "called" /\ req[c] = CallOf(message[c])
  BY DEF ServerOK, J, McInv, RequestOK
<1>2. RequestFine(c)
  BY ThePlace DEF RequestsFine
<1>3. c \in Probed /\ message[c] \in SmokeMessages /\ moment[c] = 0
  BY <1>1, <1>2 DEF RequestFine
<1>4. /\ req[c].tool = message[c].tool /\ req[c].account = message[c].account
      /\ req[c].amount = message[c].amount /\ req[c].token = message[c].token
  BY <1>1 DEF CallOf
<1>5. message[c].account = "ACC-1" /\ message[c].amount = 1 /\ message[c].token.sub = Agent
  BY <1>3, TheMessages
<1>6. Verdict(c).decision = TheVerdict(message[c])
  BY <1>1, <1>3 DEF Verdict, TheVerdict
<1>7. Subject(c) = Agent /\ Bucket(c) = <<Agent, message[c].tool, WindowStart(0)>>
  BY <1>3, <1>4, <1>5 DEF Subject, Bucket
<1>8. CallOK(c)
  BY DEF ServerOK, J, IInv, CallsOK
<1>9. ASSUME pc[c] \in {"quota", "lookup", "consume", "insert"} \/ used[c] > 0 \/ Won(c)
      PROVE  message[c] \in {Good, Read}
  <2>1. TheVerdict(message[c]) = "allowed"
    BY <1>6, <1>8, <1>9 DEF CallOK
  <2>. QED  BY <1>3, <2>1, TheMessages
<1>10. ASSUME pc[c] \in {"lookup", "consume", "insert"} \/ Won(c)
       PROVE  message[c] = Good
  <2>1. message[c].tool = "issue_credit"
    BY <1>4, <1>8, <1>10, TheScopes DEF CallOK
  <2>. QED  BY <1>9, <1>10, <2>1, TheMessages
<1>. QED  BY <1>1, <1>3, <1>4, <1>5, <1>6, <1>7, <1>9, <1>10

\* Only requests of the phase under way are being served.
LEMMA ActiveIsSent ==
    ASSUME ServerOK, SmokeInv, Running, NEW c \in Calls,
           pc[c] \in Active \/ stage[c] = "accepted"
    PROVE  /\ c \in Probed /\ c \in Range(sent) /\ ~Answered(c)
           /\ phase \in {"drain", "run"} /\ (phase = "drain" => at = 10)
<1>1. RequestFine(c)
  BY ThePlace DEF RequestsFine
<1>2. stage[c] \in {"accepted", "called"} /\ ~Answered(c)
  <2>1. pc[c] \in Active => stage[c] = "called"
    BY TheCall DEF Active
  <2>. QED  BY <2>1 DEF Answered, Active, Ended
<1>3. c \in Probed /\ c \in Range(sent)
  BY <1>1, <1>2 DEF RequestFine
<1>4. sent # <<>>
  BY <1>3 DEF Range
<1>5. phase \in {"drain", "run"} /\ (phase = "drain" => Current.drains)
  BY <1>4, ThePlace DEF SentOK
<1>6. Current.drains => at = 10
  BY ThePlace, TheColumns DEF Current
<1>. QED  BY <1>2, <1>3, <1>5, <1>6
-----------------------------------------------------------------------------
(* The server's steps.                                                     *)

\* What a step of the server that commits nothing leaves as it was.
LEMMA SameStock ==
    ASSUME UNCHANGED <<approval, effect, scriptVars>>
    PROVE  /\ Effects' = Effects /\ ApprovalRows' = ApprovalRows /\ Unspent' = Unspent
           /\ Caused' = Caused /\ Width' = Width /\ Posting' = Posting /\ Most' = Most
           /\ Created' = Created /\ Running' = Running /\ Gone' = Gone
<1>1. /\ at' = at /\ phase' = phase /\ sent' = sent /\ statuses' = statuses /\ before' = before
      /\ scores' = scores /\ leftover' = leftover
  BY DEF scriptVars
<1>2. Effects' = Effects /\ ApprovalRows' = ApprovalRows
  BY DEF Effects, ApprovalRows
<1>3. Unspent' = Unspent
  BY <1>2 DEF Unspent
<1>4. Caused' = Caused
  BY <1>1, <1>2 DEF Caused
<1>5. Width' = Width /\ Posting' = Posting /\ Most' = Most
  BY <1>1 DEF Width, Posting, Most, Current
<1>6. Created' = Created /\ Running' = Running
  BY <1>1 DEF Created, Running
<1>. QED  BY <1>2, <1>3, <1>4, <1>5, <1>6 DEF Gone

\* The place and the scores are about the script alone.
LEMMA ScriptStands ==
    ASSUME UNCHANGED scriptVars
    PROVE  PlaceOK' = PlaceOK /\ ScoresOK' = ScoresOK
BY DEF scriptVars, PlaceOK, ScoresOK, Current

\* A request that nothing happens to stays as it is.
LEMMA FineKept ==
    ASSUME NEW d \in Calls, RequestFine(d), SameCall(d), stage'[d] = stage[d],
           message'[d] = message[d], d \in Effects => d \in Effects',
           Range(sent) \subseteq Range(sent')
    PROVE  RequestFine(d)'
<1>1. Verdict(d)' = Verdict(d) /\ Won(d)' = Won(d) /\ Answered(d)' = Answered(d)
  BY DEF Verdict, Won, Answered, SameCall
<1>. QED  BY <1>1 DEF RequestFine, SameCall

\* So do the requests of the phase, when answers stay answers.
LEMMA SentKept ==
    ASSUME SentOK, UNCHANGED scriptVars, \A d \in Range(sent) : message'[d] = message[d],
           \A d \in Range(sent) : stage[d] # "idle" => stage'[d] # "idle",
           \A d \in Range(sent) : Answered(d) => Answered(d)'
    PROVE  SentOK'
<1>1. /\ at' = at /\ phase' = phase /\ sent' = sent
  BY DEF scriptVars
<1>2. Width' = Width /\ Posting' = Posting /\ Most' = Most /\ Current' = Current
  BY <1>1 DEF Width, Posting, Most, Current
<1>3. \A i \in DOMAIN sent : sent[i] \in Range(sent)
  BY DEF Range
<1>4. /\ sent' \in Seq(Probed)
      /\ phase' \in {"drain", "run"} \/ sent' = <<>>
      /\ phase' = "drain" /\ ~Current'.drains => sent' = <<>>
      /\ Len(sent') <= (IF phase' \in {"drain", "run"} THEN Most' ELSE 0)
      /\ \A i, j \in DOMAIN sent' : sent'[i] = sent'[j] => i = j
  BY <1>1, <1>2 DEF SentOK
<1>5. \A i \in DOMAIN sent' : stage'[sent'[i]] # "idle" /\ message'[sent'[i]] = Posting'
  BY <1>1, <1>2, <1>3 DEF SentOK
<1>6. (Width = 1 => \A i \in DOMAIN sent : i < Len(sent) => Answered(sent[i]))'
  <2>1. \A d \in Range(sent) : Answered(d) => \/ stage'[d] \in {"refused", "answered", "broken"}
                                              \/ stage'[d] = "called" /\ pc'[d] \in Ended
    BY DEF Answered
  <2>2. Width = 1 => \A i \in DOMAIN sent : i < Len(sent) => Answered(sent[i])
    BY DEF SentOK
  <2>. QED  BY <1>1, <1>2, <1>3, <2>1, <2>2 DEF Answered
<1>. QED  BY <1>4, <1>5, <1>6 DEF SentOK

\* A step of one request that commits no effect: what is left to show is its own.
LEMMA QuietKeeps ==
    ASSUME ServerOK, SmokeInv, Running, NEW c \in Calls, OnlyCall(c),
           UNCHANGED <<clock, approval, effect, resetVars, message, scriptVars>>,
           \A d \in Calls \ {c} : stage'[d] = stage[d],
           stage[c] # "idle", stage'[c] # "idle", Answered(c) => Answered(c)',
           RequestFine(c)',
           c \in Range(sent) /\ message[c] = Good =>
             /\ pc'[c] = "consume" => found'[c] \in Unspent \/ Gone
             /\ outcome'[c] # None /\ ~Won(c)' => Gone
    PROVE  SmokeInv'
<1>0. /\ PlaceOK /\ ScoresOK /\ QuietOK /\ SentOK /\ RequestsFine /\ RowsOK
      /\ ToldOK /\ CountsOK /\ StockOK
  BY ThePlace
<1>1. /\ Effects' = Effects /\ ApprovalRows' = ApprovalRows /\ Unspent' = Unspent
      /\ Caused' = Caused /\ Posting' = Posting /\ Created' = Created /\ Gone' = Gone
      /\ Running'
  BY SameStock
<1>2. /\ at' = at /\ phase' = phase /\ sent' = sent /\ statuses' = statuses /\ before' = before
      /\ scores' = scores /\ leftover' = leftover /\ clock' = clock /\ approval' = approval
      /\ message' = message
  BY DEF scriptVars
<1>3. Range(sent) \subseteq Calls
  BY <1>0, SmokeAssumption DEF SentOK, Probed, Range
<1>4. SentOK'
  <2>1. \A d \in Range(sent) : Answered(d) => Answered(d)'
    BY <1>3 DEF Answered, OnlyCall, SameCall
  <2>2. \A d \in Range(sent) : stage[d] # "idle" => stage'[d] # "idle"
    BY <1>3
  <2>. QED  BY <1>0, <1>2, <2>1, <2>2, SentKept
<1>5. RequestsFine'
  <2>1. \A d \in Calls \ {c} : RequestFine(d)'
    BY <1>0, <1>1, <1>2, FineKept DEF RequestsFine, OnlyCall
  <2>. QED  BY <2>1 DEF RequestsFine
<1>6. ToldOK'
  <2>1. ASSUME NEW d \in Range(sent), message[d] = Good
        PROVE  /\ pc'[d] = "consume" => found'[d] \in Unspent \/ Gone
               /\ outcome'[d] # None /\ ~Won(d)' => Gone
    <3>1. CASE d = c
      BY <2>1, <3>1
    <3>2. CASE d # c
      <4>1. SameCall(d) /\ Won(d)' = Won(d)
        BY <1>3, <3>2 DEF OnlyCall, SameCall, Won
      <4>. QED  BY <1>0, <2>1, <4>1 DEF ToldOK, SameCall
    <3>. QED  BY <3>1, <3>2
  <2>. QED  BY <1>1, <1>2, <2>1 DEF ToldOK
<1>7. Goods' = Goods
  <2>1. \A d \in Calls : stage'[d] # "idle" <=> stage[d] # "idle"
    OBVIOUS
  <2>2. Probed \subseteq Calls
    BY SmokeAssumption DEF Probed, Range
  <2>. QED  BY <1>2, <2>1, <2>2 DEF Goods
<1>8. CountsOK'
  <2>1. GoodsBefore' = GoodsBefore /\ GrantedBefore' = GrantedBefore
    BY <1>2 DEF GoodsBefore, GrantedBefore
  <2>. QED  BY <1>0, <1>1, <1>2, <1>7, <2>1 DEF CountsOK
<1>9. StockOK' /\ RowsOK' /\ QuietOK'
  <2>1. StockOK'
    BY <1>0, <1>1, <1>2 DEF StockOK
  <2>2. RowsOK'
    BY <1>0, <1>1, <1>2 DEF RowsOK, ForAgent
  <2>3. QuietOK'
    BY <1>0, <1>2 DEF QuietOK, resetVars
  <2>. QED  BY <2>1, <2>2, <2>3
<1>. QED  BY <1>0, <1>1, <1>4, <1>5, <1>6, <1>8, <1>9, ScriptStands DEF SmokeInv

\* Few enough requests have asked for a credit that none meets the ceiling.
LEMMA RoomForGoods ==
    ASSUME SmokeInv, Running
    PROVE  IsFiniteSet(Goods) /\ Cardinality(Goods) <= Limit
<1>. DEFINE n == Len(sent)
            extra == IF Posting = Good THEN n ELSE 0
<1>1. /\ at \in 1..12 /\ phase \in {"arriving", "drain", "grant", "before", "run"}
      /\ SentOK /\ CountsOK
  BY ThePlace
<1>2. /\ Current.times = TimesAt(at) /\ Current.width \in {1, 2}
      /\ at # 10 => Current.drains = FALSE
      /\ at = 12 => Current.message = Read
  BY <1>1, TheColumns DEF Current
<1>3. /\ n \in Nat
      /\ phase \notin {"drain", "run"} => n = 0
      /\ phase = "drain" => n <= MaxDrains
      /\ phase = "drain" /\ at # 10 => n = 0
      /\ phase = "run" => n <= TimesAt(at)
  BY <1>1, <1>2 DEF SentOK, Most
<1>4. at = 12 => extra = 0
  <2>1. at = 12 /\ phase = "run" => Posting # Good
    BY <1>2, TheMessages DEF Posting
  <2>. QED  BY <1>1, <1>3, <2>1
<1>5. extra \in {0, n}
  OBVIOUS
<1>6. /\ IsFiniteSet(Goods) /\ Cardinality(Goods) \in Nat
      /\ Cardinality(Goods) <= GoodsBefore + extra
  BY <1>1, FS_CardinalityType DEF CountsOK
<1>7. MaxDrains \in Nat /\ Limit \in Nat /\ MaxDrains + 5 <= Limit
  BY SmokeAssumption, DeploymentAssumption, EffectsAssumption
<1>. HIDE DEF n, extra
<1>8. GoodsBefore + extra <= MaxDrains + 5
  <2>1. CASE at \in 1..8
    BY <1>1, <1>3, <1>5, <1>7, <2>1 DEF GoodsBefore, TimesAt
  <2>2. CASE at = 9
    BY <1>1, <1>3, <1>5, <1>7, <2>2 DEF GoodsBefore, TimesAt
  <2>3. CASE at = 10
    BY <1>1, <1>3, <1>5, <1>7, <2>3 DEF GoodsBefore, TimesAt
  <2>4. CASE at = 11
    BY <1>1, <1>3, <1>5, <1>7, <2>4 DEF GoodsBefore, TimesAt
  <2>5. CASE at = 12
    BY <1>4, <1>7, <2>5 DEF GoodsBefore
  <2>. QED  BY <1>1, <2>1, <2>2, <2>3, <2>4, <2>5
<1>9. GoodsBefore \in Nat /\ extra \in Nat
  BY <1>1, <1>3, <1>5, <1>7 DEF GoodsBefore
<1>. QED  BY <1>6, <1>7, <1>8, <1>9

\* So a request for a credit always gets a unit of its bucket.
LEMMA NeverPastTheCeiling ==
    ASSUME ServerOK, SmokeInv, Running, NEW c \in Calls, pc[c] = "quota", message[c] = Good
    PROVE  counter[Bucket(c)] + 1 <= Limit
<1>. DEFINE b == Bucket(c)
<1>1. /\ IInv /\ CounterOK /\ CallOK(c) /\ resets = 0
  BY ThePlace DEF ServerOK, J, IInv, CallsOK, QuietOK
<1>2. b \in Buckets
  BY <1>1, BucketKnown DEF CallOK
<1>3. b = <<Agent, "issue_credit", WindowStart(0)>>
  BY TheCall, TheMessages
<1>4. counter[b] = Cardinality(Charged(b))
  BY <1>1, <1>2, CountCharged
<1>5. c \in Goods
  BY TheCall DEF Goods
<1>6. ASSUME NEW d \in Charged(b)
      PROVE  d \in Goods \ {c}
  <2>1. d \in Calls /\ pc[d] \in {"returned", "lost"} /\ used[d] > 0 /\ Bucket(d) = b
    BY DEF Charged
  <2>2. /\ d \in Probed /\ stage[d] = "called" /\ message[d] \in {Good, Read}
        /\ Bucket(d) = <<Agent, message[d].tool, WindowStart(0)>>
    BY <2>1, TheCall
  <2>3. message[d].tool = "issue_credit"
    BY <1>3, <2>1, <2>2
  <2>. QED  BY <2>1, <2>2, <2>3, TheMessages DEF Goods
<1>. HIDE DEF b
<1>7. IsFiniteSet(Goods) /\ Cardinality(Goods) <= Limit
  BY RoomForGoods
<1>8. IsFiniteSet(Goods \ {c}) /\ Cardinality(Goods \ {c}) = Cardinality(Goods) - 1
  BY <1>5, <1>7, FS_RemoveElement
<1>9. Cardinality(Charged(b)) <= Cardinality(Goods \ {c})
  BY <1>6, <1>8, FS_Subset
<1>10. Cardinality(Goods) \in Nat /\ Cardinality(Charged(b)) \in Nat /\ Limit \in Nat
  BY <1>6, <1>7, <1>8, FS_CardinalityType, FS_Subset, EffectsAssumption
<1>. QED  BY <1>4, <1>7, <1>8, <1>9, <1>10 DEF b

\* A request refused at the door, with or without its row in the trail.
LEMMA RefusalKeepsScript ==
    ASSUME ServerOK, SmokeInv, Running, NEW c \in Calls, RecordTransportRefusal(c),
           UNCHANGED scriptVars
    PROVE  SmokeInv'
<1>1. RequestFine(c) /\ RowsOK /\ ToldOK
  BY ThePlace DEF RequestsFine
<1>2. /\ stage[c] = "refusing" /\ UNCHANGED <<vars, message>>
      /\ stage' = [stage EXCEPT ![c] = "refused"]
      /\ stage \in [Calls -> {"idle", "refusing", "refused", "accepted", "called", "reading",
                            "answered", "broken"}]
  BY DEF RecordTransportRefusal, MoveTo, ServerOK, J, McTypeOK
<1>3. /\ stage'[c] = "refused" /\ \A d \in Calls \ {c} : stage'[d] = stage[d]
  BY <1>2
<1>4. /\ UNCHANGED <<clock, approval, effect, resetVars, callVars>>
      /\ \A d \in Calls : SameCall(d)
  BY <1>2 DEF vars, tables, callVars, SameCall
<1>5. Answered(c)'
  BY <1>3 DEF Answered
<1>6. pc[c] = "idle" /\ outcome[c] = None
  BY <1>2 DEF ServerOK, J, McInv, RequestOK, IInv, CallsOK, CallOK
<1>7. RequestFine(c)'
  <2>1. Verdict(c)' = Verdict(c) /\ Won(c)' = Won(c) /\ pc' = pc /\ outcome' = outcome
        /\ used' = used /\ moment' = moment /\ message' = message
    BY <1>2, <1>4 DEF callVars, Verdict, Won
  <2>. QED  BY <1>1, <1>2, <1>3, <1>5, <1>6, <2>1 DEF RequestFine
<1>8. outcome'[c] = None /\ pc'[c] = "idle"
  BY <1>4, <1>6 DEF callVars
<1>. QED  BY <1>2, <1>3, <1>4, <1>5, <1>7, <1>8, QuietKeeps DEF OnlyCall

\* The call is judged: refused, or on to the ceiling.
LEMMA HandOverKeepsScript ==
    ASSUME ServerOK, SmokeInv, Running, NEW c \in Calls, HandToCallTool(c),
           UNCHANGED scriptVars
    PROVE  SmokeInv'
<1>. DEFINE r == CallOf(message[c])
            verdict == VerdictOn(r, clock)
<1>1. RequestFine(c) /\ QuietOK /\ clock = 0
  BY ThePlace DEF RequestsFine, QuietOK
<1>2. /\ IInv /\ McTypeOK /\ McInv /\ CallOK(c)
      /\ stage[c] = "accepted" /\ stage' = [stage EXCEPT ![c] = "called"]
      /\ stage \in [Calls -> {"idle", "refusing", "refused", "accepted", "called", "reading",
                            "answered", "broken"}]
      /\ UNCHANGED <<resetVars, message>>
  BY DEF HandToCallTool, MoveTo, ServerOK, J, McTypeOK, IInv, CallsOK
<1>3. r \in Requests /\ CallTool(c, r)
  BY <1>2, HandOver
<1>4. stage'[c] = "called" /\ \A d \in Calls \ {c} : stage'[d] = stage[d]
  BY <1>2
<1>5. OnlyCall(c) /\ UNCHANGED <<clock, approval, effect>>
  BY <1>2, <1>3, BeforeCommit DEF CallTool
<1>6. c \in Probed /\ c \in Range(sent) /\ ~Answered(c) /\ message[c] \in SmokeMessages
  BY <1>1, <1>2, ActiveIsSent DEF RequestFine
<1>7. pc[c] = "idle" /\ used[c] = 0 /\ outcome[c] = None
  BY <1>2, <1>3 DEF CallTool, CallOK
<1>8. verdict.decision = TheVerdict(message[c])
  BY <1>1 DEF TheVerdict
<1>9. Limit > 0
  BY DeploymentAssumption, SmokeAssumption, EffectsAssumption
<1>10. /\ pc \in [Calls -> {"idle"} \cup Active \cup Ended]
       /\ moment \in [Calls -> 0..MaxTime]
       /\ req \in [Calls -> Requests \cup {None}]
       /\ outcome \in [Calls -> Outcome \cup {None}]
  BY <1>2, Types
<1>11. /\ req'[c] = r /\ moment'[c] = clock /\ used' = used /\ found' = found
       /\ \/ /\ verdict.decision = "denied" /\ pc'[c] = "commit"
             /\ outcome'[c] = Denied(verdict.reason)
          \/ verdict.decision = "allowed" /\ pc'[c] = "quota" /\ outcome'[c] = None
  <2>1. CallTool(c, r)
    BY <1>3
  <2>. HIDE DEF r, verdict
  <2>. QED  BY <1>7, <1>9, <1>10, <2>1 DEF CallTool, Decide, GoTo, verdict
<1>12. Verdict(c)' = verdict
  BY <1>11 DEF Verdict, VerdictOn
<1>13. verdict.decision = IF verdict.reason = None THEN "allowed" ELSE "denied"
  BY DEF VerdictOn, Authorize
<1>. HIDE DEF r, verdict
<1>14. ASSUME outcome'[c] # None
       PROVE  /\ outcome'[c] = Denied(verdict.reason) /\ verdict.decision = "denied"
              /\ outcome'[c].reason # None /\ outcome'[c].decision = "denied"
  BY <1>11, <1>13, <1>14 DEF Denied
<1>15. RequestFine(c)'
  <2>1. /\ stage'[c] = "called" /\ pc'[c] \in {"commit", "quota"} /\ moment'[c] = 0
        /\ message'[c] \in SmokeMessages /\ c \in Range(sent')
    BY <1>1, <1>2, <1>4, <1>6, <1>11 DEF scriptVars
  <2>2. outcome'[c] # None => /\ Verdict(c)'.decision # "allowed"
                              /\ outcome'[c].reason # None /\ outcome'[c].decision = "denied"
    BY <1>12, <1>14
  <2>. QED  BY <1>6, <2>1, <2>2 DEF RequestFine
<1>16. message[c] = Good => outcome'[c] = None /\ pc'[c] = "quota"
  BY <1>8, <1>11, GoodAndReadAreAllowed
<1>. QED  BY <1>2, <1>4, <1>5, <1>6, <1>15, <1>16, QuietKeeps

\* The script calls no other tool.
LEMMA OthersDoNotHappen ==
    ASSUME ServerOK, SmokeInv, Running, NEW c \in Calls,
           PingOrRequestApproval(c) \/ GetApproval(c) \/ ReadApproval(c)
    PROVE  FALSE
<1>1. RequestFine(c)
  BY ThePlace DEF RequestsFine
<1>2. stage[c] = "accepted" /\ message[c].tool \in {"ping", "request_approval", "read_approval"}
  BY <1>1 DEF PingOrRequestApproval, GetApproval, ReadApproval, RequestFine
<1>3. message[c] \in SmokeMessages
  BY <1>1, <1>2 DEF RequestFine
<1>. QED  BY <1>2, <1>3, TheMessages

\* A call that goes on inside its transaction.
LEMMA CallKeepsScript ==
    ASSUME ServerOK, SmokeInv, Running, NEW c \in Calls, pc[c] \in Active,
           OnlyCall(c), UNCHANGED <<clock, approval, effect, resetVars, requestVars, scriptVars>>,
           req'[c] = req[c], moment'[c] = moment[c],
           pc'[c] \in {"lookup", "consume", "insert", "commit"}, used'[c] > 0,
           outcome'[c] # None =>
             outcome'[c].decision = IF outcome'[c].reason = None THEN "allowed" ELSE "denied",
           message[c] = Good =>
             /\ pc'[c] = "consume" => found'[c] \in Unspent \/ Gone
             /\ outcome'[c] # None /\ ~Won(c)' => Gone
    PROVE  SmokeInv'
<1>1. RequestFine(c)
  BY ThePlace DEF RequestsFine
<1>2. /\ c \in Probed /\ stage[c] = "called" /\ message[c] \in SmokeMessages /\ moment[c] = 0
  BY TheCall DEF Active
<1>3. c \in Range(sent) /\ ~Answered(c)
  BY ActiveIsSent
<1>4. stage' = stage /\ message' = message /\ sent' = sent
  BY DEF requestVars, scriptVars
<1>5. RequestFine(c)'
  BY <1>2, <1>3, <1>4 DEF RequestFine
<1>. QED  BY <1>2, <1>3, <1>4, <1>5, QuietKeeps

\* A credit gets its unit; a read gets one, or its window is full.
LEMMA QuotaKeepsScript ==
    ASSUME ServerOK, SmokeInv, Running, NEW c \in Calls, ConsumeQuota(c),
           UNCHANGED <<resetVars, requestVars, trailVars, scriptVars>>
    PROVE  SmokeInv'
<1>1. IInv /\ CallOK(c) /\ pc[c] = "quota" /\ pc[c] \in Active
  BY DEF ServerOK, J, IInv, CallsOK, ConsumeQuota, Active
<1>2. OnlyCall(c) /\ UNCHANGED <<clock, approval, effect>>
  BY <1>1, BeforeCommit DEF ConsumeQuota, tables
<1>3. /\ pc \in [Calls -> {"idle"} \cup Active \cup Ended]
      /\ used \in [Calls -> Nat]
      /\ outcome \in [Calls -> Outcome \cup {None}]
      /\ counter \in [Buckets -> Nat]
  BY <1>1, Types
<1>4. Bucket(c) \in Buckets /\ counter[Bucket(c)] \in Nat
  BY <1>1, <1>3, BucketKnown DEF CallOK
<1>5. outcome[c] = None
  BY <1>1 DEF CallOK
<1>6. /\ used'[c] = counter[Bucket(c)] + 1 /\ UNCHANGED <<req, moment, found>>
      /\ \/ /\ counter[Bucket(c)] + 1 > Limit /\ pc'[c] = "commit"
            /\ outcome'[c] = Denied("rate_limited")
         \/ /\ ~(counter[Bucket(c)] + 1 > Limit) /\ req[c].tool \notin IRREVERSIBLE_TOOLS
            /\ pc'[c] = "commit" /\ outcome'[c] = Allowed
         \/ /\ ~(counter[Bucket(c)] + 1 > Limit) /\ req[c].tool \in IRREVERSIBLE_TOOLS
            /\ pc'[c] = "lookup" /\ outcome'[c] = None
  BY <1>3, <1>5 DEF ConsumeQuota, Decide, GoTo, Route
<1>7. used'[c] > 0 /\ pc'[c] \in {"lookup", "commit"}
  BY <1>4, <1>6
<1>8. outcome'[c] # None =>
        outcome'[c].decision = IF outcome'[c].reason = None THEN "allowed" ELSE "denied"
  BY <1>6, NoneAssumption DEF Denied, Allowed, DENIAL_REASONS
<1>9. ASSUME message[c] = Good
      PROVE  outcome'[c] = None
  <2>1. counter[Bucket(c)] + 1 <= Limit /\ Limit \in Nat
    BY <1>1, <1>9, NeverPastTheCeiling, EffectsAssumption
  <2>2. ~(counter[Bucket(c)] + 1 > Limit)
    BY <1>4, <2>1
  <2>3. req[c].tool \in IRREVERSIBLE_TOOLS
    BY <1>1, <1>9, TheCall, TheMessages, TheScopes
  <2>. QED  BY <1>6, <2>2, <2>3
<1>. QED  BY <1>1, <1>2, <1>6, <1>7, <1>8, <1>9, CallKeepsScript

\* The lookup of the script's call finds an approval when there is one.
LEMMA LookupFinds ==
    ASSUME SmokeInv, Running
    PROVE  /\ Matching(Agent, "issue_credit", "ACC-1", 1) = Unspent
           /\ LatestLive(Unspent, 0) \subseteq Unspent
           /\ Unspent # {} => LatestLive(Unspent, 0) # {}
<1>1. \A a \in ApprovalRows : ForAgent(a) /\ a \in ApprovalIds
  BY ThePlace DEF RowsOK, ApprovalRows
<1>2. Matching(Agent, "issue_credit", "ACC-1", 1) = Unspent
  BY <1>1 DEF Matching, Unspent, ForAgent
<1>3. \A a \in Unspent : approval[a].expires_at \in 1..9
  BY <1>1 DEF Unspent, ForAgent, DefaultTtl
<1>4. ASSUME Unspent # {}
      PROVE  LatestLive(Unspent, 0) # {}
  <2>. DEFINE S == {9 - approval[a].expires_at : a \in Unspent}
  <2>1. S \subseteq Nat /\ S # {}
    BY <1>3, <1>4
  <2>2. PICK n \in S : \A m \in S : n <= m
    BY <2>1, LeastOfSome
  <2>3. PICK a \in Unspent : n = 9 - approval[a].expires_at
    BY <2>2
  <2>4. \A b \in Unspent : 9 - approval[a].expires_at <= 9 - approval[b].expires_at
    BY <2>2, <2>3
  <2>5. \A b \in Unspent : approval[b].expires_at <= approval[a].expires_at
    BY <1>3, <2>4
  <2>6. approval[a].expires_at > 0
    BY <1>3
  <2>. QED  BY <2>3, <2>5, <2>6 DEF LatestLive
<1>. QED  BY <1>2, <1>4 DEF LatestLive

\* The lookup refuses a credit only when there is nothing to spend.
LEMMA LookupKeepsScript ==
    ASSUME ServerOK, SmokeInv, Running, NEW c \in Calls, Lookup(c),
           UNCHANGED <<resetVars, requestVars, trailVars, scriptVars>>
    PROVE  SmokeInv'
<1>1. IInv /\ CallOK(c) /\ pc[c] = "lookup" /\ pc[c] \in Active
  BY DEF ServerOK, J, IInv, CallsOK, Lookup, Active
<1>2. OnlyCall(c) /\ UNCHANGED <<approval, effect>>
  BY <1>1, BeforeCommit
<1>3. /\ pc \in [Calls -> {"idle"} \cup Active \cup Ended]
      /\ found \in [Calls -> ApprovalIds \cup {None}]
      /\ outcome \in [Calls -> Outcome \cup {None}]
  BY <1>1, Types
<1>4. /\ req[c].amount = 1 /\ req[c].account = "ACC-1" /\ req[c].tool = "issue_credit"
      /\ Subject(c) = Agent /\ moment[c] = 0
  BY <1>1, TheCall, TheMessages
<1>5. InInt4(req[c].amount)
  BY <1>4, StoreAssumption DEF InInt4
<1>6. RequestFine(c) /\ used[c] > 0 /\ outcome[c] = None
  BY <1>1, ThePlace DEF RequestsFine, RequestFine, CallOK
<1>7. /\ FindMatchingApproval(Subject(c), req[c].tool, req[c].account, req[c].amount,
                              moment[c]).approvals = LatestLive(Unspent, 0)
  BY <1>4, LookupFinds DEF FindMatchingApproval
<1>8. /\ UNCHANGED <<clock, req, moment, used>>
      /\ \/ /\ found'[c] \in LatestLive(Unspent, 0) /\ pc'[c] = "consume" /\ outcome'[c] = None
         \/ /\ LatestLive(Unspent, 0) = {} /\ pc'[c] = "commit"
            /\ \E reason \in {"approval_expired", "approval_required"} :
                 outcome'[c] = Denied(reason)
  BY <1>1, <1>3, <1>5, <1>6, <1>7 DEF Lookup, GoTo, Decide
<1>9. outcome'[c] # None =>
        outcome'[c].decision = IF outcome'[c].reason = None THEN "allowed" ELSE "denied"
  BY <1>8, NoneAssumption DEF Denied, DENIAL_REASONS
<1>10. /\ pc'[c] = "consume" => found'[c] \in Unspent \/ Gone
       /\ outcome'[c] # None /\ ~Won(c)' => Gone
  BY <1>8, LookupFinds DEF Gone
<1>11. used'[c] > 0 /\ pc'[c] \in {"consume", "commit"}
  BY <1>6, <1>8
<1>. QED  BY <1>1, <1>2, <1>8, <1>9, <1>10, <1>11, CallKeepsScript

\* The loser of the conditional UPDATE lost to the other call of the race.
LEMMA ConsumeKeepsScript ==
    ASSUME ServerOK, SmokeInv, Running, NEW c \in Calls, Consume(c),
           UNCHANGED <<resetVars, requestVars, trailVars, scriptVars>>
    PROVE  SmokeInv'
<1>1. IInv /\ CallOK(c) /\ pc[c] = "consume" /\ pc[c] \in Active
  BY DEF ServerOK, J, IInv, CallsOK, Consume, Active
<1>2. OnlyCall(c) /\ UNCHANGED <<approval, effect>>
  BY <1>1, BeforeCommit
<1>3. /\ pc \in [Calls -> {"idle"} \cup Active \cup Ended]
      /\ outcome \in [Calls -> Outcome \cup {None}]
  BY <1>1, Types
<1>4. RequestFine(c) /\ used[c] > 0 /\ outcome[c] = None
  BY <1>1, ThePlace DEF RequestsFine, RequestFine, CallOK
<1>5. found[c] \in Unspent \/ Gone
  BY <1>1, ThePlace, ActiveIsSent, TheCall DEF ToldOK
<1>6. found[c] \in Unspent => Consumable(found[c])
  BY DEF Unspent, Consumable
<1>7. /\ UNCHANGED <<clock, req, moment, used, found>>
      /\ \/ pc'[c] = "insert" /\ outcome'[c] = None
         \/ /\ ~Consumable(found[c]) /\ pc'[c] = "commit"
            /\ outcome'[c] = DeniedFor("approval_already_consumed", found[c])
  BY <1>1, <1>3, <1>4 DEF Consume, GoTo, Decide
<1>8. outcome'[c] # None =>
        outcome'[c].decision = IF outcome'[c].reason = None THEN "allowed" ELSE "denied"
  BY <1>7, NoneAssumption DEF Denied, DeniedFor, DENIAL_REASONS
<1>9. outcome'[c] # None => Gone
  BY <1>5, <1>6, <1>7
<1>10. used'[c] > 0 /\ pc'[c] \in {"insert", "commit"}
  BY <1>4, <1>7
<1>. QED  BY <1>1, <1>2, <1>7, <1>8, <1>9, <1>10, CallKeepsScript

\* Nobody else has paid with the approval, so the INSERT goes through.
LEMMA InsertKeepsScript ==
    ASSUME ServerOK, SmokeInv, Running, NEW c \in Calls, InsertEffect(c),
           UNCHANGED <<resetVars, requestVars, trailVars, scriptVars>>
    PROVE  SmokeInv'
<1>1. IInv /\ CallOK(c) /\ pc[c] = "insert" /\ pc[c] \in Active
  BY DEF ServerOK, J, IInv, CallsOK, InsertEffect, Active
<1>2. OnlyCall(c) /\ UNCHANGED <<approval, effect>>
  BY <1>1, BeforeCommit
<1>3. /\ pc \in [Calls -> {"idle"} \cup Active \cup Ended]
      /\ outcome \in [Calls -> Outcome \cup {None}]
  BY <1>1, Types
<1>4. RequestFine(c) /\ used[c] > 0
  BY <1>1, ThePlace DEF RequestsFine, RequestFine
<1>5. EffectNaming(found[c]) = {}
  BY <1>1, HeldIsUnspent DEF Holding
<1>6. /\ UNCHANGED <<clock, req, moment, used, found>>
      /\ pc'[c] = "commit" /\ outcome'[c] = AllowedBy(found[c], c)
  BY <1>1, <1>3, <1>5 DEF InsertEffect, Decide, tables, locks
<1>7. c # None
  BY StoreAssumption
<1>8. outcome'[c].decision = "allowed" /\ outcome'[c].reason = None /\ Won(c)'
  <2>1. found[c] \in ApprovalIds
    BY <1>1 DEF CallOK, BoundTo
  <2>2. AllowedBy(found[c], c) \in Outcome
    BY <2>1 DEF AllowedBy, Allowed, Outcome, Decisions
  <2>3. outcome'[c] # None
    BY <1>6, <2>2, EffectsAssumption
  <2>4. /\ AllowedBy(found[c], c).decision = "allowed" /\ AllowedBy(found[c], c).reason = None
        /\ AllowedBy(found[c], c).effect_id = c
    BY DEF AllowedBy, Allowed
  <2>. QED  BY <1>6, <1>7, <2>3, <2>4 DEF Won
<1>. QED  BY <1>1, <1>2, <1>4, <1>6, <1>8, CallKeepsScript

\* A call that won pays with an approval nobody else can have any more.
LEMMA TheSpending ==
    ASSUME ServerOK, SmokeInv, Running, NEW c \in Calls, Commit(c), Won(c),
           UNCHANGED scriptVars
    PROVE  /\ found[c] \in Unspent /\ c \notin Effects
           /\ Effects' = Effects \cup {c} /\ Unspent' = Unspent \ {found[c]}
           /\ Caused' = Caused \cup {c} /\ RowsOK'
<1>. DEFINE a == found[c]
<1>1. IInv /\ RowsOK /\ pc[c] = "commit" /\ clock = 0
  BY ThePlace DEF ServerOK, J, Commit, Apply, QuietOK
<1>2. /\ c \notin Effects
      /\ \A d \in Calls : effect'[d] = IF d = c THEN EffectOf(c) ELSE effect[d]
      /\ \A b \in ApprovalIds :
           approval'[b] = IF b = a THEN [approval[b] EXCEPT !.consumed_at = moment[c]]
                                   ELSE approval[b]
  BY <1>1, AtCommit
<1>3. /\ a \in ApprovalIds /\ approval[a] \in Approval /\ approval[a].consumed_at = None
      /\ EffectOf(c) \in IrreversibleEffect
  BY <1>1, WinnerHolds
<1>4. moment[c] = 0 /\ c \in Range(sent)
  <2>1. pc[c] \in Active
    BY <1>1 DEF Active
  <2>. QED  BY <1>1, <2>1, TheCall, ActiveIsSent
<1>5. Effects' = Effects \cup {c}
  BY <1>2, <1>3, StoreAssumption DEF Effects
<1>6. approval[a] \notin {Unissued, Wiped}
  BY <1>3, StoreAssumption
<1>. DEFINE paid == [approval[a] EXCEPT !.consumed_at = moment[c]]
<1>7. paid \in Approval
  BY <1>3, <1>4 DEF Approval
<1>8. /\ paid.subject = approval[a].subject /\ paid.tool = approval[a].tool
      /\ paid.account = approval[a].account /\ paid.amount = approval[a].amount
      /\ paid.expires_at = approval[a].expires_at /\ paid.consumed_at = 0
  BY <1>3, <1>4 DEF Approval
<1>9. /\ approval'[a] = paid
      /\ \A b \in ApprovalIds \ {a} : approval'[b] = approval[b]
  BY <1>2, <1>3
<1>10. approval'[a] \notin {Unissued, Wiped} /\ approval'[a].consumed_at # None
  <2>1. 0 # None
    BY NoneAssumption
  <2>. HIDE DEF paid
  <2>. QED  BY <1>7, <1>8, <1>9, <2>1, StoreAssumption
<1>11. ApprovalRows' = ApprovalRows
  BY <1>3, <1>6, <1>9, <1>10 DEF ApprovalRows
<1>12. a \in Unspent
  BY <1>3, <1>6 DEF Unspent, ApprovalRows
<1>13. Unspent' = Unspent \ {a}
  <2>1. ApprovalRows \subseteq ApprovalIds
    BY DEF ApprovalRows
  <2>2. \A b \in ApprovalRows \ {a} : approval'[b] = approval[b]
    BY <1>9, <2>1
  <2>3. \A b : b \in Unspent' <=> b \in ApprovalRows /\ approval'[b].consumed_at = None
    BY <1>11 DEF Unspent
  <2>4. \A b : b \in Unspent <=> b \in ApprovalRows /\ approval[b].consumed_at = None
    BY DEF Unspent
  <2>. HIDE DEF a
  <2>5. \A b : b \in Unspent' <=> b \in Unspent /\ b # a
    BY <1>10, <2>2, <2>3, <2>4
  <2>. QED  BY <2>5
<1>14. Caused' = Caused \cup {c}
  <2>1. sent' = sent
    BY DEF scriptVars
  <2>. QED  BY <1>4, <1>5, <2>1 DEF Caused
<1>15. RowsOK'
  <2>1. ASSUME NEW b \in ApprovalIds
        PROVE  approval'[b] # Wiped /\ (b \in ApprovalRows' => ForAgent(b)')
    <3>1. CASE b = a
      <4>1. ForAgent(b)
        BY <1>1, <1>3, <1>6, <3>1 DEF RowsOK, ApprovalRows
      <4>. HIDE DEF paid
      <4>2. ForAgent(b)'
        BY <1>8, <1>9, <3>1, <4>1 DEF ForAgent
      <4>. QED  BY <1>10, <3>1, <4>2
    <3>2. CASE b # a
      <4>1. approval[b] # Wiped /\ (b \in ApprovalRows => ForAgent(b))
        BY <1>1 DEF RowsOK
      <4>. QED  BY <1>9, <1>11, <3>2, <4>1 DEF ForAgent
    <3>. QED  BY <3>1, <3>2
  <2>. QED  BY <2>1 DEF RowsOK
<1>. HIDE DEF a
<1>. QED  BY <1>2, <1>5, <1>12, <1>13, <1>14, <1>15 DEF a

\* Two requests of the script are under way together only in the race.
LEMMA TwoAreTheRace ==
    ASSUME ServerOK, SmokeInv, Running, NEW c \in Range(sent), NEW d \in Range(sent),
           c # d, ~Answered(c), ~Answered(d)
    PROVE  Width = 2
<1>1. SentOK /\ at \in 1..12
  BY ThePlace
<1>2. PICK i \in DOMAIN sent, j \in DOMAIN sent : c = sent[i] /\ d = sent[j]
  BY DEF Range
<1>3. Width \in {1, 2}
  BY <1>1, TheColumns DEF Width, Current
<1>4. ASSUME Width = 1
      PROVE  FALSE
  <2>1. ~(i < Len(sent)) /\ ~(j < Len(sent))
    BY <1>1, <1>2, <1>4 DEF SentOK
  <2>2. sent \in Seq(Probed)
    BY <1>1 DEF SentOK
  <2>3. Len(sent) \in Nat /\ i \in 1..Len(sent) /\ j \in 1..Len(sent)
    BY <2>2
  <2>4. i = j
    BY <2>1, <2>3
  <2>. QED  BY <1>2, <2>4
<1>. QED  BY <1>3, <1>4

\* The commit of a call that won moves one approval from unspent to spent.
LEMMA SpendingKeepsScript ==
    ASSUME ServerOK, SmokeInv, Running, NEW c \in Calls, Commit(c), Won(c),
           UNCHANGED <<resetVars, requestVars, trailVars, scriptVars>>
    PROVE  SmokeInv'
<1>. DEFINE a == found[c]
<1>0. /\ PlaceOK /\ ScoresOK /\ QuietOK /\ SentOK /\ RequestsFine /\ RowsOK
      /\ ToldOK /\ CountsOK /\ StockOK /\ at \in 1..12
  BY ThePlace
<1>1. /\ a \in Unspent /\ c \notin Effects
      /\ Effects' = Effects \cup {c} /\ Unspent' = Unspent \ {a}
      /\ Caused' = Caused \cup {c} /\ RowsOK'
  BY TheSpending
<1>2. /\ at' = at /\ phase' = phase /\ sent' = sent /\ statuses' = statuses /\ before' = before
      /\ scores' = scores /\ leftover' = leftover /\ message' = message /\ stage' = stage
      /\ resetPc' = resetPc /\ resets' = resets
  BY DEF scriptVars, requestVars, resetVars
<1>3. IInv /\ pc[c] = "commit" /\ pc[c] \in Active /\ OnlyCall(c)
  BY AtCommit DEF ServerOK, J, Commit, Apply, Active
<1>4. /\ pc \in [Calls -> {"idle"} \cup Active \cup Ended]
  BY <1>3, Types
<1>5. pc'[c] = "returned" /\ UNCHANGED <<clock, req, moment, used, found, outcome>>
  BY <1>4 DEF Commit, Apply
<1>6. /\ c \in Probed /\ stage[c] = "called" /\ message[c] = Good /\ c \in Range(sent)
      /\ ~Answered(c) /\ phase \in {"drain", "run"} /\ (phase = "drain" => at = 10)
      /\ message[c] \in SmokeMessages /\ moment[c] = 0 /\ RequestFine(c)
  BY <1>0, <1>3, TheCall, ActiveIsSent, Zenon DEF Active, RequestsFine
<1>7. Width' = Width /\ Posting' = Posting /\ Most' = Most /\ Created' = Created
      /\ Current' = Current /\ Running'
  BY <1>2 DEF Width, Posting, Most, Created, Current, Running
<1>8. Range(sent) \subseteq Calls
  BY <1>0, SmokeAssumption DEF SentOK, Probed, Range
<1>9. Answered(c)'
  BY <1>2, <1>5, <1>6 DEF Answered, Ended
<1>10. SentOK'
  <2>1. \A d \in Range(sent) : Answered(d) => Answered(d)'
    BY <1>2, <1>3, <1>8, <1>9 DEF Answered, OnlyCall, SameCall
  <2>. QED  BY <1>0, <1>2, <2>1, SentKept
<1>11. RequestsFine'
  <2>1. \A d \in Calls \ {c} : RequestFine(d)'
    BY <1>0, <1>1, <1>2, <1>3, FineKept DEF RequestsFine, OnlyCall
  <2>2. RequestFine(c)'
    <3>1. Verdict(c)' = Verdict(c)
      BY <1>5 DEF Verdict
    <3>2. c \in Effects'
      BY <1>1
    <3>. QED  BY <1>2, <1>5, <1>6, <1>9, <3>1, <3>2 DEF RequestFine
  <2>. QED  BY <2>1, <2>2 DEF RequestsFine
<1>12. Gone => Gone'
  BY <1>1, <1>7 DEF Gone
<1>13. ToldOK'
  <2>1. ASSUME NEW d \in Range(sent), message[d] = Good
        PROVE  /\ pc'[d] = "consume" => found'[d] \in Unspent' \/ Gone'
               /\ outcome'[d] # None /\ ~Won(d)' => Gone'
    <3>1. Won(c)'
      BY <1>5 DEF Won
    <3>2. CASE d = c
      BY <1>5, <3>1, <3>2
    <3>3. CASE d # c
      <4>1. SameCall(d) /\ Won(d)' = Won(d)
        BY <1>3, <1>8, <3>3 DEF OnlyCall, SameCall, Won
      <4>2. outcome'[d] # None /\ ~Won(d)' => Gone'
        BY <1>0, <1>12, <2>1, <4>1 DEF ToldOK, SameCall
      <4>3. ASSUME pc[d] = "consume"
            PROVE  found[d] \in Unspent' \/ Gone'
        <5>1. found[d] \in Unspent \/ Gone
          BY <1>0, <2>1, <4>3 DEF ToldOK
        <5>2. CASE found[d] = a
          <6>1. ~Answered(d)
            BY <1>8, <4>3, ActiveIsSent DEF Active
          <6>2. Width = 2
            BY <1>6, <3>3, <6>1, TwoAreTheRace
          <6>. QED  BY <1>1, <1>7, <6>2 DEF Gone
        <5>. QED  BY <1>1, <1>12, <5>1, <5>2
      <4>. QED  BY <4>1, <4>2, <4>3 DEF SameCall
    <3>. QED  BY <3>2, <3>3
  <2>. QED  BY <1>2, <2>1 DEF ToldOK
<1>14. CountsOK'
  <2>1. Goods' = Goods /\ GoodsBefore' = GoodsBefore /\ GrantedBefore' = GrantedBefore
    BY <1>2 DEF Goods, GoodsBefore, GrantedBefore
  <2>2. IsFiniteSet(Effects') /\ Cardinality(Effects') = Cardinality(Effects) + 1
    BY <1>0, <1>1, FS_AddElement DEF CountsOK
  <2>3. IsFiniteSet(Unspent') /\ Cardinality(Unspent') = Cardinality(Unspent) - 1
    BY <1>0, <1>1, FS_RemoveElement DEF CountsOK
  <2>4. IsFiniteSet(Caused)
    BY <1>0, FS_Subset DEF CountsOK, Caused
  <2>5. Cardinality(Caused') = Cardinality(Caused) + 1
    BY <1>1, <2>4, FS_AddElement DEF Caused
  <2>6. /\ Cardinality(Effects) \in Nat /\ Cardinality(Unspent) \in Nat
        /\ Cardinality(Caused) \in Nat
    BY <1>0, <2>4, FS_CardinalityType DEF CountsOK
  <2>7. /\ IsFiniteSet(Goods)
        /\ Cardinality(Goods) <= GoodsBefore + (IF Posting = Good THEN Len(sent) ELSE 0)
        /\ Cardinality(Effects) + Cardinality(Unspent)
             = leftover + GrantedBefore + Cardinality(Created)
        /\ phase = "run" => /\ before \in Nat
                            /\ Cardinality(Effects) = before + Cardinality(Caused)
    BY <1>0 DEF CountsOK
  <2>8. Cardinality(Effects') + Cardinality(Unspent') = leftover + GrantedBefore + Cardinality(Created)
    BY <2>2, <2>3, <2>6, <2>7
  <2>9. phase = "run" => before \in Nat /\ Cardinality(Effects') = before + Cardinality(Caused')
    BY <2>2, <2>5, <2>6, <2>7
  <2>10. /\ IsFiniteSet(Goods')
         /\ Cardinality(Goods') <= GoodsBefore' + (IF Posting' = Good THEN Len(sent') ELSE 0)
    BY <1>2, <1>7, <2>1, <2>7
  <2>. QED  BY <1>2, <1>7, <2>1, <2>2, <2>3, <2>8, <2>9, <2>10 DEF CountsOK
<1>15. StockOK'
  BY <1>0, <1>2, <1>6 DEF StockOK
<1>16. QuietOK'
  BY <1>0, <1>2, <1>5 DEF QuietOK
<1>. QED  BY <1>0, <1>1, <1>2, <1>7, <1>10, <1>11, <1>13, <1>14, <1>15, <1>16, ScriptStands
          DEF SmokeInv

\* A commit without an effect moves none.
LEMMA CommitKeepsScript ==
    ASSUME ServerOK, SmokeInv, Running, NEW c \in Calls, Commit(c),
           UNCHANGED <<resetVars, requestVars, trailVars, scriptVars>>
    PROVE  SmokeInv'
<1>1. CASE Won(c)
  BY <1>1, SpendingKeepsScript
<1>2. CASE ~Won(c)
  <2>1. IInv /\ CallOK(c) /\ pc[c] = "commit" /\ pc[c] \in Active /\ OnlyCall(c)
    BY AtCommit DEF ServerOK, J, IInv, CallsOK, Commit, Apply, Active
  <2>2. outcome[c] # None /\ ~WritesEffect(c)
    BY <1>2, <2>1 DEF CallOK, WritesEffect, Won
  <2>3. pc \in [Calls -> {"idle"} \cup Active \cup Ended]
    BY <2>1, Types
  <2>4. pc'[c] = "returned" /\ UNCHANGED <<clock, approval, effect, req, moment, used, found, outcome>>
    BY <2>2, <2>3 DEF Commit, Apply
  <2>5. /\ c \in Probed /\ stage[c] = "called" /\ c \in Range(sent) /\ ~Answered(c)
        /\ message[c] \in SmokeMessages /\ moment[c] = 0 /\ RequestFine(c)
    BY <2>1, ThePlace, TheCall, ActiveIsSent, Zenon DEF Active, RequestsFine
  <2>6. stage' = stage /\ message' = message /\ sent' = sent
    BY DEF requestVars, scriptVars
  <2>7. Won(c)' = Won(c) /\ Verdict(c)' = Verdict(c) /\ Answered(c)'
    BY <2>4, <2>5, <2>6 DEF Won, Verdict, Answered, Ended
  <2>8. RequestFine(c)'
    BY <1>2, <2>4, <2>5, <2>6, <2>7 DEF RequestFine
  <2>9. message[c] = Good => Gone
    BY <1>2, <2>2, <2>5, ThePlace DEF ToldOK
  <2>. QED  BY <2>1, <2>4, <2>5, <2>6, <2>7, <2>8, <2>9, QuietKeeps
<1>. QED  BY <1>1, <1>2

\* Whatever the server does next for whichever request.
LEMMA ServerKeepsScript ==
    ASSUME ServerOK, SmokeInv, ServerStep
    PROVE  SmokeInv'
<1>1. UNCHANGED scriptVars
  BY DEF ServerStep
<1>2. CASE ~Running
  <2>1. phase' = phase /\ ~Running'
    BY <1>1, <1>2 DEF scriptVars, Running
  <2>. QED  BY <1>1, <2>1, ScriptStands DEF SmokeInv
<1>3. CASE Running
  <2>1. PICK c \in Calls :
          \/ RecordTransportRefusal(c) \/ HandToCallTool(c)
          \/ PingOrRequestApproval(c) \/ GetApproval(c) \/ ReadApproval(c)
          \/ /\ ConsumeQuota(c) \/ Lookup(c) \/ Consume(c) \/ InsertEffect(c) \/ Commit(c)
             /\ UNCHANGED <<resetVars, requestVars, trailVars>>
    BY DEF ServerStep, RequestStep, Step
  <2>. QED  BY <1>1, <1>3, <2>1, RefusalKeepsScript, HandOverKeepsScript, OthersDoNotHappen,
                QuotaKeepsScript, LookupKeepsScript, ConsumeKeepsScript, InsertKeepsScript,
                CommitKeepsScript, Zenon
<1>. QED  BY <1>2, <1>3
-----------------------------------------------------------------------------
(* The script's own steps.                                                 *)

\* What the script knows of the server stays while only the script moves.
LEMMA ServerStands ==
    ASSUME UNCHANGED mcVars
    PROVE  /\ UNCHANGED <<clock, approval, effect, callVars, resetVars, requestVars>>
           /\ Effects' = Effects /\ Unspent' = Unspent /\ Goods' = Goods
           /\ RowsOK' = RowsOK /\ QuietOK' = QuietOK
<1>1. UNCHANGED <<clock, approval, effect, callVars, resetVars, requestVars>>
  BY DEF mcVars, vars, tables
<1>2. Effects' = Effects /\ ApprovalRows' = ApprovalRows
  BY <1>1 DEF Effects, ApprovalRows
<1>3. Unspent' = Unspent /\ RowsOK' = RowsOK
  BY <1>1, <1>2 DEF Unspent, RowsOK, ForAgent
<1>4. Goods' = Goods /\ QuietOK' = QuietOK
  BY <1>1 DEF Goods, QuietOK, requestVars, resetVars
<1>. QED  BY <1>1, <1>2, <1>3, <1>4

\* Nothing of the requests that were made is left to look at.
LEMMA Cleared ==
    ASSUME ServerOK, SmokeInv, Running, sent' = <<>>, sent = <<>> \/ InFlight = {},
           UNCHANGED <<clock, effect, callVars, resetVars, requestVars>>,
           at' \in 1..12
    PROVE  /\ SentOK' /\ RequestsFine' /\ ToldOK' /\ QuietOK'
           /\ Goods' = Goods /\ Effects' = Effects /\ Caused' = {}
           /\ Len(sent') = 0 /\ Cardinality(Caused') = 0
<1>0. SentOK /\ RequestsFine /\ QuietOK
  BY ThePlace
<1>1. Range(sent') = {} /\ DOMAIN sent' = {} /\ Len(sent') = 0 /\ sent' \in Seq(Probed)
  BY DEF Range
<1>2. Effects' = Effects /\ Goods' = Goods
  BY DEF Effects, Goods, requestVars
<1>3. Caused' = {} /\ ToldOK'
  BY <1>1 DEF Caused, ToldOK
<1>4. Most' \in Nat
  <2>1. Current'.times = TimesAt(at')
    BY TheColumns DEF Current
  <2>2. Current'.times \in Nat
    BY <2>1, SmokeAssumption, EffectsAssumption DEF TimesAt
  <2>. QED  BY <2>2, SmokeAssumption DEF Most
<1>5. SentOK'
  BY <1>1, <1>4 DEF SentOK
<1>6. QuietOK'
  BY <1>0 DEF QuietOK, resetVars
<1>7. RequestsFine'
  <2>1. ASSUME NEW d \in Calls
        PROVE  RequestFine(d)'
    <3>1. RequestFine(d)
      BY <1>0 DEF RequestsFine
    <3>2. Verdict(d)' = Verdict(d) /\ Won(d)' = Won(d) /\ Answered(d)' = Answered(d)
      BY DEF Verdict, Won, Answered, callVars, requestVars
    <3>3. ~(stage[d] # "idle" /\ ~Answered(d) /\ d \in Probed)
      <4>1. SUFFICES ASSUME d \in Range(sent), ~Answered(d) PROVE FALSE
        BY <3>1 DEF RequestFine
      <4>2. PICK i \in DOMAIN sent : d = sent[i]
        BY <4>1 DEF Range
      <4>3. i \in InFlight
        BY <4>1, <4>2 DEF InFlight
      <4>. QED  BY <4>2, <4>3
    <3>. QED  BY <1>2, <3>1, <3>2, <3>3 DEF RequestFine, callVars, requestVars
  <2>. QED  BY <2>1 DEF RequestsFine
<1>8. Cardinality(Caused') = 0
  BY <1>3, FS_EmptySet
<1>. QED  BY <1>1, <1>2, <1>3, <1>5, <1>6, <1>7, <1>8

\* A grant adds one approval that the script's calls can spend.
LEMMA TheGrant ==
    ASSUME ServerOK, SmokeInv, Running, Undrawn # {}, NEW presented,
           NEW ttl \in 1..DefaultTtl, Grant(presented, Body(ttl), NextId)
    PROVE  /\ RowsOK' /\ UNCHANGED <<clock, effect>>
           /\ IsFiniteSet(Unspent') /\ Cardinality(Unspent') = Cardinality(Unspent) + 1
<1>. DEFINE a == NextId
            made == NewApproval(Agent, "issue_credit", "ACC-1", 1, ttl, clock)
<1>1. a \in ApprovalIds /\ approval[a] = Unissued
  BY IdsAreDrawn
<1>2. /\ RowsOK /\ clock = 0 /\ TypeOK /\ IsFiniteSet(Unspent)
  BY ThePlace DEF QuietOK, CountsOK, ServerOK, J, IInv
<1>3. /\ approval' = [approval EXCEPT ![a] = made] /\ UNCHANGED <<clock, effect>>
      /\ Body(ttl).amount <= MaxInt4
  BY DEF Grant, Body
<1>4. made \in Approval
  <2>1. Body(ttl) \in GrantBodies
    BY TheBodies
  <2>2. NewApproval(Body(ttl).subject, "issue_credit", Body(ttl).account, Body(ttl).amount,
                    Body(ttl).ttl_seconds, clock) \in Approval
    BY <1>2, <1>3, <2>1, GrantedIsARow
  <2>. QED  BY <2>2 DEF Body
<1>5. /\ made.subject = Agent /\ made.tool = "issue_credit" /\ made.account = "ACC-1"
      /\ made.amount = 1 /\ made.expires_at = ttl /\ made.consumed_at = None
  BY <1>2, TheBodies DEF NewApproval
<1>6. approval \in [ApprovalIds -> Approval \cup {Unissued, Wiped}]
  BY <1>2 DEF TypeOK, StoreTypeOK
<1>. HIDE DEF made
<1>7. /\ approval'[a] = made /\ \A b \in ApprovalIds \ {a} : approval'[b] = approval[b]
  BY <1>1, <1>3, <1>6
<1>8. made \notin {Unissued, Wiped}
  BY <1>4, StoreAssumption
<1>9. ApprovalRows' = ApprovalRows \cup {a} /\ a \notin ApprovalRows
  BY <1>1, <1>7, <1>8 DEF ApprovalRows
<1>10. Unspent' = Unspent \cup {a} /\ a \notin Unspent
  <2>1. ApprovalRows \subseteq ApprovalIds
    BY DEF ApprovalRows
  <2>. QED  BY <1>5, <1>7, <1>9, <2>1 DEF Unspent
<1>11. RowsOK'
  <2>1. ASSUME NEW b \in ApprovalIds
        PROVE  approval'[b] # Wiped /\ (b \in ApprovalRows' => ForAgent(b)')
    <3>1. CASE b = a
      BY <1>5, <1>7, <1>8, <3>1 DEF ForAgent
    <3>2. CASE b # a
      <4>1. approval[b] # Wiped /\ (b \in ApprovalRows => ForAgent(b))
        BY <1>2 DEF RowsOK
      <4>. QED  BY <1>7, <1>9, <3>2, <4>1 DEF ForAgent
    <3>. QED  BY <3>1, <3>2
  <2>. QED  BY <2>1 DEF RowsOK
<1>12. IsFiniteSet(Unspent') /\ Cardinality(Unspent') = Cardinality(Unspent) + 1
  <2>. HIDE DEF a
  <2>. QED  BY <1>2, <1>10, FS_AddElement
<1>. QED  BY <1>3, <1>11, <1>12

\* The script arrives.
LEMMA StartsKeepsScript ==
    ASSUME ServerOK, SmokeInv, Running, Starts
    PROVE  SmokeInv'
<1>0. /\ PlaceOK /\ ScoresOK /\ SentOK /\ CountsOK /\ StockOK /\ RowsOK /\ at \in 1..12
  BY ThePlace
<1>1. /\ phase = "arriving" /\ phase' = "drain" /\ at' = at /\ sent' = sent
      /\ statuses' = statuses /\ before' = before /\ scores' = scores /\ leftover' = leftover
      /\ UNCHANGED mcVars
  BY DEF Starts
<1>2. at = 1 /\ sent = <<>> /\ Len(sent) = 0
  BY <1>0, <1>1 DEF PlaceOK, SentOK
<1>3. /\ UNCHANGED <<clock, approval, effect, callVars, resetVars, requestVars>>
      /\ Unspent' = Unspent /\ RowsOK'
  BY <1>0, <1>1, ServerStands
<1>4. /\ SentOK' /\ RequestsFine' /\ ToldOK' /\ QuietOK'
      /\ Goods' = Goods /\ Effects' = Effects /\ Caused' = {} /\ Len(sent') = 0
  BY <1>0, <1>1, <1>2, <1>3, Cleared
<1>5. PlaceOK' /\ ScoresOK'
  BY <1>0, <1>1, <1>2 DEF PlaceOK, ScoresOK, Current
<1>6. CountsOK'
  <2>1. GoodsBefore' = GoodsBefore /\ GrantedBefore' = GrantedBefore /\ Created' = Created
    BY <1>1, <1>2 DEF GoodsBefore, GrantedBefore, Created
  <2>. QED  BY <1>0, <1>1, <1>2, <1>3, <1>4, <2>1 DEF CountsOK
<1>7. StockOK'
  BY <1>0, <1>1, <1>2, <1>4 DEF StockOK
<1>. QED  BY <1>3, <1>4, <1>5, <1>6, <1>7 DEF SmokeInv

\* Somebody granted an approval before the run.
LEMMA EarlierGrantKeepsScript ==
    ASSUME ServerOK, SmokeInv, Running, EarlierGrant
    PROVE  SmokeInv'
<1>0. /\ PlaceOK /\ ScoresOK /\ SentOK /\ CountsOK /\ StockOK /\ RowsOK /\ at \in 1..12
  BY ThePlace
<1>1. /\ phase = "arriving" /\ phase' = phase /\ at' = at /\ sent' = sent
      /\ statuses' = statuses /\ before' = before /\ scores' = scores
      /\ leftover' = leftover + 1 /\ leftover < MaxLeftover
      /\ Grant(ApproverToken, Body(DefaultTtl - 1 - leftover), NextId) /\ Undrawn # {}
      /\ UNCHANGED <<callVars, resetVars, requestVars>>
  BY DEF EarlierGrant
<1>2. at = 1 /\ sent = <<>> /\ Len(sent) = 0 /\ leftover \in Nat
  BY <1>0, <1>1, SmokeAssumption DEF PlaceOK, SentOK
<1>3. DefaultTtl - 1 - leftover \in 1..DefaultTtl
  BY <1>1, <1>2, SmokeAssumption, DeploymentAssumption, TheBodies
<1>4. /\ RowsOK' /\ UNCHANGED <<clock, effect>>
      /\ IsFiniteSet(Unspent') /\ Cardinality(Unspent') = Cardinality(Unspent) + 1
  BY <1>1, <1>3, TheGrant
<1>5. /\ SentOK' /\ RequestsFine' /\ ToldOK' /\ QuietOK'
      /\ Goods' = Goods /\ Effects' = Effects /\ Caused' = {} /\ Len(sent') = 0
  BY <1>0, <1>1, <1>2, <1>4, Cleared
<1>6. ScoresOK'
  <2>1. \A i \in DOMAIN scores : FALSE
    BY <1>0, <1>2 DEF PlaceOK
  <2>. QED  BY <1>1, <2>1 DEF ScoresOK
<1>7. PlaceOK'
  <2>1. leftover' \in 0..MaxLeftover
    BY <1>1, <1>2, SmokeAssumption
  <2>. QED  BY <1>0, <1>1, <2>1 DEF PlaceOK, Current
<1>8. CountsOK'
  <2>1. GoodsBefore' = GoodsBefore /\ GrantedBefore' = GrantedBefore /\ Created' = Created
        /\ Posting' = Posting
    BY <1>1 DEF GoodsBefore, GrantedBefore, Created, Posting, Current
  <2>2. Cardinality(Effects) \in Nat /\ Cardinality(Unspent) \in Nat
        /\ GrantedBefore = 0 /\ Created = {} /\ Cardinality(Created) = 0
    <3>1. Created = {}
      BY <1>0, <1>1 DEF Created, PlaceOK
    <3>. QED  BY <1>0, <1>2, <3>1, FS_EmptySet, FS_CardinalityType DEF CountsOK, GrantedBefore
  <2>3. /\ IsFiniteSet(Goods) /\ IsFiniteSet(Effects)
        /\ Cardinality(Goods) <= GoodsBefore + (IF Posting = Good THEN Len(sent) ELSE 0)
        /\ Cardinality(Effects) + Cardinality(Unspent)
             = leftover + GrantedBefore + Cardinality(Created)
    BY <1>0 DEF CountsOK
  <2>4. Cardinality(Effects) + Cardinality(Unspent')
             = leftover' + GrantedBefore + Cardinality(Created)
    BY <1>1, <1>2, <1>4, <2>2, <2>3
  <2>. QED  BY <1>1, <1>4, <1>5, <2>1, <2>3, <2>4 DEF CountsOK
<1>9. StockOK'
  BY <1>0, <1>1, <1>2, <1>5 DEF StockOK
<1>. QED  BY <1>4, <1>5, <1>6, <1>7, <1>8, <1>9 DEF SmokeInv

\* The approvals a scenario was granted, once it has asked for all of them.
LEMMA CreatedWhenAsked ==
    ASSUME SmokeInv, Running, Len(statuses) = Len(Current.grants)
    PROVE  /\ IsFiniteSet(Created) /\ Cardinality(Created) = IF at \in {1, 9, 10} THEN 1 ELSE 0
           /\ at = 9 => statuses = <<401, 401, 201>>
<1>1. /\ PlaceOK /\ at \in 1..12 /\ phase # "over"
  BY ThePlace DEF Running
<1>2. Current.grants = GrantsAt(at)
  BY <1>1, TheColumns DEF Current
<1>3. statuses = [i \in 1..Len(GrantsAt(at)) |-> IF MayGrant(GrantsAt(at)[i]) THEN 201 ELSE 401]
  BY <1>1, <1>2 DEF PlaceOK
<1>4. /\ ~MayGrant(None) /\ ~MayGrant(Agents) /\ MayGrant(ApproverToken)
  BY TheBodies, DeploymentAssumption
<1>5. CASE at \in {1, 10}
  <2>1. /\ DOMAIN statuses = 1..1 /\ statuses[1] = 201
    BY <1>3, <1>4, <1>5 DEF GrantsAt
  <2>2. Created = {1}
    BY <2>1 DEF Created
  <2>3. IsFiniteSet(Created) /\ Cardinality(Created) = 1
    BY <2>2, FS_Singleton
  <2>. QED  BY <1>5, <2>3
<1>6. CASE at = 9
  <2>1. /\ DOMAIN statuses = 1..3 /\ statuses[1] = 401 /\ statuses[2] = 401 /\ statuses[3] = 201
        /\ statuses = [i \in 1..3 |-> statuses[i]]
    BY <1>3, <1>4, <1>6 DEF GrantsAt
  <2>2. Created = {3}
    BY <2>1 DEF Created
  <2>3. statuses = <<401, 401, 201>>
    BY <2>1
  <2>4. IsFiniteSet(Created) /\ Cardinality(Created) = 1
    BY <2>2, FS_Singleton
  <2>. QED  BY <1>6, <2>3, <2>4
<1>7. CASE at \notin {1, 9, 10}
  <2>1. DOMAIN statuses = {}
    BY <1>3, <1>7 DEF GrantsAt
  <2>2. Created = {}
    BY <2>1 DEF Created
  <2>. QED  BY <1>7, <2>2, FS_EmptySet
<1>. QED  BY <1>5, <1>6, <1>7

\* The first of the two counts.
LEMMA CountBeforeKeepsScript ==
    ASSUME ServerOK, SmokeInv, Running, CountBefore
    PROVE  SmokeInv'
<1>0. /\ PlaceOK /\ ScoresOK /\ SentOK /\ CountsOK /\ StockOK /\ RowsOK /\ at \in 1..12
  BY ThePlace
<1>1. /\ phase = "before" /\ phase' = "run" /\ at' = at /\ sent' = sent
      /\ statuses' = statuses /\ before' = Cardinality(Effects) /\ scores' = scores
      /\ leftover' = leftover /\ UNCHANGED mcVars
  BY DEF CountBefore, EffectsNow
<1>2. sent = <<>> /\ Len(sent) = 0 /\ Len(statuses) = Len(Current.grants)
  BY <1>0, <1>1 DEF PlaceOK, SentOK
<1>3. /\ UNCHANGED <<clock, approval, effect, callVars, resetVars, requestVars>>
      /\ Unspent' = Unspent /\ RowsOK'
  BY <1>0, <1>1, ServerStands
<1>4. /\ SentOK' /\ RequestsFine' /\ ToldOK' /\ QuietOK'
      /\ Goods' = Goods /\ Effects' = Effects /\ Caused' = {} /\ Len(sent') = 0
      /\ Cardinality(Caused') = 0
  BY <1>0, <1>1, <1>2, <1>3, Cleared
<1>5. PlaceOK' /\ ScoresOK'
  BY <1>0, <1>1 DEF PlaceOK, ScoresOK, Current
<1>6. Cardinality(Effects) \in Nat /\ Cardinality(Unspent) \in Nat
  BY <1>0, FS_CardinalityType DEF CountsOK
<1>7. CountsOK'
  <2>1. GoodsBefore' = GoodsBefore /\ GrantedBefore' = GrantedBefore /\ Created' = Created
        /\ Posting' = Posting
    BY <1>1 DEF GoodsBefore, GrantedBefore, Created, Posting, Current
  <2>2. before' \in Nat /\ Cardinality(Effects') = before' + Cardinality(Caused')
    BY <1>1, <1>4, <1>6
  <2>. QED  BY <1>0, <1>1, <1>3, <1>4, <2>1, <2>2 DEF CountsOK
<1>8. StockOK'
  <2>1. at = 1 => Cardinality(Effects) = 0
    BY <1>0, <1>1, FS_EmptySet DEF StockOK
  <2>2. at \in 2..8 => Cardinality(Effects) = 1
    BY <1>0, <1>1 DEF StockOK
  <2>3. Cardinality(Created) = IF at \in {1, 9, 10} THEN 1 ELSE 0
    BY <1>2, CreatedWhenAsked
  <2>4. Cardinality(Effects) + Cardinality(Unspent)
             = leftover + GrantedBefore + Cardinality(Created)
    BY <1>0 DEF CountsOK
  <2>5. leftover \in Nat
    BY <1>0, SmokeAssumption DEF PlaceOK
  <2>6. at = 10 => Cardinality(Effects) = leftover + 2
    <3>1. at = 10 => Cardinality(Unspent) = 1
      BY <1>0, <1>1 DEF StockOK
    <3>. QED  BY <1>6, <2>3, <2>4, <2>5, <3>1 DEF GrantedBefore
  <2>7. at = 11 => Cardinality(Effects) = leftover + 3
    <3>1. at = 11 => Cardinality(Unspent) = 0
      BY <1>0, <1>1, FS_EmptySet DEF StockOK
    <3>. QED  BY <1>6, <2>3, <2>4, <2>5, <3>1 DEF GrantedBefore
  <2>. QED  BY <1>1, <2>1, <2>2, <2>6, <2>7 DEF StockOK
<1>. QED  BY <1>3, <1>4, <1>5, <1>7, <1>8 DEF SmokeInv

\* A request of the script that was answered, and had passed the door, was
\* decided, and its effect is there if it won.
LEMMA AnsweredCall ==
    ASSUME ServerOK, SmokeInv, Running, NEW c \in Range(sent), Answered(c),
           TransportRefusal(message[c].token, 0) = None
    PROVE  /\ c \in Calls /\ stage[c] = "called" /\ pc[c] = "returned" /\ outcome[c] # None
           /\ DecisionOf(c) = outcome[c].decision /\ ReasonOf(c) = outcome[c].reason
           /\ message[c] = Posting
           /\ Won(c) <=> c \in Effects
           /\ Won(c) => DecisionOf(c) = "allowed"
<1>0. /\ SentOK /\ RequestsFine /\ IInv
  BY ThePlace DEF ServerOK, J
<1>1. c \in Probed /\ c \in Calls
  BY <1>0, SmokeAssumption DEF SentOK, Probed, Range
<1>2. RequestFine(c) /\ CallOK(c)
  BY <1>0, <1>1 DEF RequestsFine, IInv, CallsOK
<1>3. stage[c] = "called" /\ pc[c] = "returned"
  BY <1>2 DEF RequestFine, Answered, Ended
<1>4. outcome[c] # None
  BY <1>2, <1>3 DEF CallOK
<1>5. Won(c) <=> c \in Effects
  BY <1>0, <1>2, <1>3 DEF RequestFine, IInv, LedgerOK
<1>6. message[c] = Posting
  BY <1>0 DEF SentOK, Range
<1>7. Won(c) => outcome[c].decision = "allowed"
  BY <1>2 DEF CallOK, AllowedBy, Allowed
<1>. QED  BY <1>1, <1>3, <1>4, <1>5, <1>6, <1>7 DEF DecisionOf, ReasonOf

\* Only the message that asks for a credit has effects.
LEMMA CausedByGood ==
    ASSUME ServerOK, SmokeInv, Running, Posting # Good
    PROVE  Caused = {}
<1>1. SentOK /\ IInv
  BY ThePlace DEF ServerOK, J
<1>2. ASSUME NEW c \in Caused
      PROVE  FALSE
  <2>1. c \in Calls /\ c \in Range(sent) /\ Won(c) /\ pc[c] \in {"returned", "lost"}
    BY <1>1, <1>2 DEF Caused, Effects, IInv, LedgerOK
  <2>2. message[c] = Good
    BY <2>1, TheCall
  <2>3. message[c] = Posting
    BY <1>1, <2>1 DEF SentOK, Range
  <2>. QED  BY <2>2, <2>3
<1>. QED  BY <1>2

\* Nothing is under way.
LEMMA AllAnswered ==
    ASSUME InFlight = {}, NEW c \in Range(sent)
    PROVE  Answered(c)
BY DEF InFlight, Range

\* A scenario that asked for a credit and had no effect left nothing to spend.
LEMMA NothingCaused ==
    ASSUME ServerOK, SmokeInv, Running, InFlight = {}, Posting = Good, sent # <<>>,
           Caused = {}
    PROVE  Unspent = {}
<1>1. SentOK /\ ToldOK
  BY ThePlace
<1>2. PICK c \in Range(sent) : TRUE
  <2>1. sent \in Seq(Probed)
    BY <1>1 DEF SentOK
  <2>2. 1 \in DOMAIN sent
    BY <2>1
  <2>. QED  BY <2>2 DEF Range
<1>3. message[c] = Good
  BY <1>1, <1>2 DEF SentOK, Range
<1>4. outcome[c] # None /\ ~Won(c)
  BY <1>2, <1>3, AllAnswered, AnsweredCall, GoodAndReadAreAllowed DEF Caused
<1>. QED  BY <1>1, <1>2, <1>3, <1>4 DEF ToldOK, Gone

\* The ceiling: of the calls of the last scenario no more than the limit got
\* through, so that some were refused.
LEMMA TheBurst ==
    ASSUME ServerOK, SmokeInv, Running, InFlight = {}, at = 12, phase = "run",
           Len(sent) = Current.times
    PROVE  Cardinality(AllowedCalls) <= Limit /\ LimitedCalls # {}
<1>. DEFINE b == <<Agent, "read_account", WindowStart(0)>>
            S == {i \in DOMAIN sent : sent[i] \in LetThrough(b)}
            f == [i \in S |-> sent[i]]
<1>0. /\ SentOK /\ RequestsFine /\ QuietOK /\ IInv /\ CounterOK
  BY ThePlace DEF ServerOK, J
<1>1. /\ Current.times = Limit + Surplus /\ Current.message = Read
      /\ Limit \in Nat /\ Surplus \in Nat /\ Surplus > 0
  BY TheColumns, SmokeAssumption, DeploymentAssumption, EffectsAssumption DEF Current, TimesAt
<1>2. Posting = Read
  BY <1>1 DEF Posting
<1>3. sent \in Seq(Probed) /\ DOMAIN sent = 1..(Limit + Surplus)
  <2>1. sent \in Seq(Probed)
    BY <1>0 DEF SentOK
  <2>. QED  BY <1>1, <2>1
<1>4. ASSUME NEW i \in DOMAIN sent
      PROVE  /\ ReasonOf(sent[i]) # "rate_limited" => i \in S
             /\ DecisionOf(sent[i]) = "allowed" => i \in S
  <2>. DEFINE c == sent[i]
  <2>1. c \in Range(sent) /\ Answered(c) /\ message[c] = Read
    BY <1>0, <1>2, <1>4, AllAnswered DEF Range, SentOK
  <2>2. /\ c \in Calls /\ pc[c] = "returned" /\ outcome[c] # None
        /\ DecisionOf(c) = outcome[c].decision /\ ReasonOf(c) = outcome[c].reason
    BY <2>1, AnsweredCall, GoodAndReadAreAllowed
  <2>3. Verdict(c).decision = "allowed" /\ Bucket(c) = b
    BY <2>1, <2>2, TheCall, TheMessages, GoodAndReadAreAllowed
  <2>4. RequestFine(c)
    BY <1>0, <2>2 DEF RequestsFine
  <2>5. used[c] > 0 /\ (outcome[c].decision = "allowed" => outcome[c].reason = None)
    BY <2>2, <2>3, <2>4 DEF RequestFine
  <2>6. None # "rate_limited"
    BY NoneAssumption DEF DENIAL_REASONS
  <2>7. outcome[c].reason # "rate_limited" => c \in LetThrough(b)
    BY <2>2, <2>3, <2>5 DEF LetThrough
  <2>. HIDE DEF b
  <2>. QED  BY <2>2, <2>5, <2>6, <2>7
<1>. HIDE DEF b
<1>5. IsFiniteSet(LetThrough(b)) /\ Cardinality(LetThrough(b)) <= Limit
  BY <1>0, CountLetThrough DEF QuietOK
<1>6. f \in Injection(S, LetThrough(b))
  <2>1. \A i, j \in DOMAIN sent : sent[i] = sent[j] => i = j
    BY <1>0 DEF SentOK
  <2>. QED  BY <2>1 DEF Injection, IsInjective
<1>7. /\ IsFiniteSet(S) /\ Cardinality(S) <= Cardinality(LetThrough(b))
  BY <1>5, <1>6, FS_Injection
<1>. HIDE DEF S, f
<1>8. Cardinality(S) \in Nat /\ Cardinality(LetThrough(b)) \in Nat /\ Cardinality(S) <= Limit
  BY <1>1, <1>5, <1>7, FS_CardinalityType
<1>9. AllowedCalls \subseteq S
  BY <1>4 DEF AllowedCalls
<1>10. Cardinality(AllowedCalls) <= Limit
  <2>1. IsFiniteSet(AllowedCalls) /\ Cardinality(AllowedCalls) <= Cardinality(S)
    BY <1>7, <1>9, FS_Subset
  <2>2. Cardinality(AllowedCalls) \in Nat
    BY <2>1, FS_CardinalityType
  <2>. QED  BY <1>1, <1>8, <2>1, <2>2
<1>11. ASSUME LimitedCalls = {}
       PROVE  FALSE
  <2>1. 1..(Limit + Surplus) \subseteq S
    BY <1>3, <1>4, <1>11 DEF LimitedCalls
  <2>2. /\ IsFiniteSet(1..(Limit + Surplus))
        /\ Cardinality(1..(Limit + Surplus)) = Limit + Surplus
    BY <1>1, FS_Interval
  <2>3. Cardinality(1..(Limit + Surplus)) <= Cardinality(S)
    BY <1>7, <2>1, FS_Subset
  <2>4. Limit + Surplus <= Cardinality(S)
    BY <2>2, <2>3
  <2>. QED  BY <1>1, <1>8, <2>4
<1>. QED  BY <1>10, <1>11

\* What a scenario that has run its course shows.
LEMMA TheResult ==
    ASSUME ServerOK, SmokeInv, Running, phase = "run", InFlight = {},
           Len(sent) = Current.times
    PROVE  /\ Cardinality(Effects) = before + Cardinality(Caused)
           /\ before \in Nat /\ Cardinality(Caused) \in Nat /\ Cardinality(Unspent) \in Nat
           /\ leftover \in Nat /\ IsFiniteSet(Unspent)
           /\ Cardinality(Caused) + Cardinality(Unspent) + before
                = leftover + GrantedBefore + (IF at \in {1, 9, 10} THEN 1 ELSE 0)
           /\ at \in {1, 10} => Cardinality(Caused) = 1
           /\ at \in {2, 3, 4, 5, 6, 7, 11, 12} => Cardinality(Caused) = 0
           /\ at = 8 => (Cardinality(Caused) = 0 <=> leftover = 0)
           /\ at = 10 => Unspent = {}
<1>0. /\ PlaceOK /\ SentOK /\ CountsOK /\ StockOK /\ at \in 1..12
  BY ThePlace
<1>1. /\ Cardinality(Effects) = before + Cardinality(Caused) /\ before \in Nat
      /\ IsFiniteSet(Unspent) /\ IsFiniteSet(Effects)
      /\ Cardinality(Effects) + Cardinality(Unspent)
             = leftover + GrantedBefore + Cardinality(Created)
  BY <1>0 DEF CountsOK
<1>2. IsFiniteSet(Caused)
  BY <1>1, FS_Subset DEF Caused
<1>3. Cardinality(Caused) \in Nat /\ Cardinality(Unspent) \in Nat /\ leftover \in Nat
  BY <1>0, <1>1, <1>2, FS_CardinalityType, SmokeAssumption DEF PlaceOK
<1>4. Cardinality(Created) = IF at \in {1, 9, 10} THEN 1 ELSE 0
  BY <1>0, CreatedWhenAsked DEF PlaceOK
<1>5. GrantedBefore = IF at = 1 THEN 0 ELSE IF at <= 9 THEN 1 ELSE IF at = 10 THEN 2 ELSE 3
  BY DEF GrantedBefore
<1>6. Cardinality(Caused) + Cardinality(Unspent) + before
        = leftover + GrantedBefore + (IF at \in {1, 9, 10} THEN 1 ELSE 0)
  <2>1. GrantedBefore \in Nat
    BY <1>5
  <2>. QED  BY <1>1, <1>3, <1>4, <2>1
<1>7. /\ at = 1 => before = 0
      /\ at \in 2..8 => before = 1
      /\ at = 10 => before = leftover + 2
      /\ at = 11 => before = leftover + 3
  BY <1>0 DEF StockOK
<1>8. Current.times = TimesAt(at) /\ Current.width = (IF at = 10 THEN 2 ELSE 1)
  BY <1>0, TheColumns DEF Current
<1>9. ASSUME at \in {1, 8, 10}, Caused = {}
      PROVE  Unspent = {} /\ Cardinality(Unspent) = 0
  <2>1. Posting = Good
    BY <1>9, TheColumns DEF Posting, Current
  <2>2. Len(sent) # 0
    BY <1>8, <1>9 DEF TimesAt
  <2>3. sent # <<>>
    BY <2>2
  <2>4. Unspent = {}
    BY <1>9, <2>1, <2>3, NothingCaused
  <2>. QED  BY <2>4, FS_EmptySet
<1>10. Cardinality(Caused) = 0 <=> Caused = {}
  BY <1>2, FS_EmptySet
<1>11. at = 8 => Cardinality(Caused) <= 1
  <2>1. SUFFICES ASSUME at = 8 PROVE Cardinality(Caused) <= 1
    OBVIOUS
  <2>2. sent \in Seq(Probed) /\ Len(sent) = 1
    BY <1>0, <1>8, <2>1 DEF SentOK, TimesAt
  <2>3. Range(sent) = {sent[1]}
    BY <2>2 DEF Range
  <2>4. Caused \subseteq {sent[1]}
    BY <2>3 DEF Caused
  <2>5. IsFiniteSet({sent[1]}) /\ Cardinality({sent[1]}) = 1
    BY FS_Singleton
  <2>. QED  BY <2>4, <2>5, FS_Subset
<1>12. at \in {1, 10} => Cardinality(Caused) = 1
  <2>1. ASSUME at \in {1, 10}, Cardinality(Caused) = 0
        PROVE  FALSE
    <3>1. Cardinality(Unspent) = 0
      BY <1>9, <1>10, <2>1
    <3>2. at = 1 \/ at = 10
      BY <2>1
    <3>3. before = leftover + GrantedBefore + 1
      BY <1>3, <1>6, <1>7, <2>1, <3>1, <3>2
    <3>. QED  BY <1>3, <1>5, <1>7, <3>2, <3>3
  <2>2. at = 10 => Cardinality(Caused) <= 1
    BY <1>3, <1>5, <1>6, <1>7
  <2>3. at = 1 => Cardinality(Caused) <= 1
    <3>1. SUFFICES ASSUME at = 1 PROVE Cardinality(Caused) <= 1
      OBVIOUS
    <3>2. sent \in Seq(Probed) /\ Len(sent) = 1
      BY <1>0, <1>8, <3>1 DEF SentOK, TimesAt
    <3>3. Range(sent) = {sent[1]}
      BY <3>2 DEF Range
    <3>4. Caused \subseteq {sent[1]}
      BY <3>3 DEF Caused
    <3>5. IsFiniteSet({sent[1]}) /\ Cardinality({sent[1]}) = 1
      BY FS_Singleton
    <3>. QED  BY <3>4, <3>5, FS_Subset
  <2>. QED  BY <1>3, <2>1, <2>2, <2>3
<1>13. at = 10 => Unspent = {}
  <2>1. at = 10 => Cardinality(Unspent) = 0
    BY <1>3, <1>5, <1>6, <1>7, <1>12
  <2>. QED  BY <1>1, <2>1, FS_EmptySet
<1>14. at = 8 => (Cardinality(Caused) = 0 <=> leftover = 0)
  BY <1>3, <1>5, <1>6, <1>7, <1>9, <1>10
<1>15. at \in {2, 3, 4, 5, 6, 7, 12} => Cardinality(Caused) = 0
  <2>1. at \in {2, 3, 4, 5, 6, 7, 12} => Posting # Good
    <3>1. at \in {2, 12} => Posting = Read
      BY <1>0, TheColumns DEF Posting, Current
    <3>2. at \in 3..7 => \E key \in BadKeys : Posting = Bad(key)
      BY <1>0, TheColumns DEF Posting, Current
    <3>3. \A key \in BadKeys : Bad(key) # Good
      <4>1. "denied" # "allowed"
        OBVIOUS
      <4>. QED  BY <4>1, TheBad, GoodAndReadAreAllowed
    <3>. QED  BY <3>1, <3>2, <3>3, TheMessages
  <2>. QED  BY <1>10, <2>1, CausedByGood
<1>16. at = 11 => Cardinality(Caused) = 0
  BY <1>3, <1>5, <1>6, <1>7
<1>. QED  BY <1>1, <1>3, <1>6, <1>12, <1>13, <1>14, <1>15, <1>16

\* Every scenario passes but C, which passes when no approval was left over.
LEMMA TheScore ==
    ASSUME ServerOK, SmokeInv, Running, phase = "run", InFlight = {},
           Len(sent) = Current.times
    PROVE  /\ (IF Current.times = 0 THEN 0 ELSE EffectsNow - before) = Current.expect_effects
                 /\ Demands
              <=> (at = 8 => leftover = 0)
<1>. DEFINE caused == IF Current.times = 0 THEN 0 ELSE EffectsNow - before
<1>0. at \in 1..12 /\ PlaceOK
  BY ThePlace
<1>1. /\ Current.times = TimesAt(at)
      /\ Current.expect_effects = IF at \in {1, 10} THEN 1 ELSE 0
      /\ Current.name = "rate_limit" <=> at = 12
      /\ Current.name = "D_agent_token_cannot_grant_approval" <=> at = 9
  BY <1>0, TheColumns DEF Current
<1>2. Current.times = 0 <=> at = 9
  BY <1>0, <1>1, SmokeAssumption, DeploymentAssumption, EffectsAssumption DEF TimesAt
<1>3. EffectsNow - before = Cardinality(Caused)
  BY TheResult DEF EffectsNow
<1>4. caused = IF at = 9 THEN 0 ELSE Cardinality(Caused)
  BY <1>2, <1>3
<1>. HIDE DEF caused
<1>5. Demands
  <2>1. CASE at = 12
    <3>1. Current.name = "rate_limit"
      BY <1>1, <2>1
    <3>2. Cardinality(AllowedCalls) <= Limit /\ LimitedCalls # {}
      BY <2>1, TheBurst
    <3>. QED  BY <3>1, <3>2 DEF Demands
  <2>2. CASE at = 9
    <3>1. /\ Current.name = "D_agent_token_cannot_grant_approval"
          /\ Current.name # "rate_limit"
      BY <1>1, <2>2
    <3>2. statuses = <<401, 401, 201>>
      BY <1>0, <2>2, CreatedWhenAsked DEF PlaceOK
    <3>. QED  BY <3>1, <3>2 DEF Demands
  <2>3. CASE at \notin {9, 12}
    <3>1. /\ Current.name # "D_agent_token_cannot_grant_approval"
          /\ Current.name # "rate_limit"
      BY <1>1, <2>3
    <3>. QED  BY <3>1 DEF Demands
  <2>. QED  BY <2>1, <2>2, <2>3
<1>6. caused = Current.expect_effects <=> (at = 8 => leftover = 0)
  <2>1. CASE at \in {1, 10}
    <3>1. Cardinality(Caused) = 1
      BY <2>1, TheResult
    <3>. QED  BY <1>1, <1>4, <2>1, <3>1
  <2>2. CASE at \in {2, 3, 4, 5, 6, 7, 11, 12}
    <3>1. Cardinality(Caused) = 0
      BY <2>2, TheResult
    <3>. QED  BY <1>1, <1>4, <2>2, <3>1
  <2>3. CASE at = 8
    <3>1. Cardinality(Caused) = 0 <=> leftover = 0
      BY <2>3, TheResult
    <3>. QED  BY <1>1, <1>4, <2>3, <3>1
  <2>4. CASE at = 9
    BY <1>1, <1>4, <2>4
  <2>. QED  BY <1>0, <2>1, <2>2, <2>3, <2>4
<1>. QED  BY <1>5, <1>6 DEF caused

\* The second count, the score, and the next scenario.
LEMMA ScoreKeepsScript ==
    ASSUME ServerOK, SmokeInv, Running, Score
    PROVE  SmokeInv'
<1>0. /\ PlaceOK /\ ScoresOK /\ SentOK /\ CountsOK /\ StockOK /\ RowsOK /\ at \in 1..12
  BY ThePlace
<1>. DEFINE pass == /\ (IF Current.times = 0 THEN 0 ELSE EffectsNow - before)
                          = Current.expect_effects
                    /\ Demands
            scored == [caused |-> IF Current.times = 0 THEN 0 ELSE EffectsNow - before,
                       pass |-> pass]
<1>1. /\ phase = "run" /\ InFlight = {} /\ Len(sent) = Current.times
      /\ scores' = Append(scores, scored) /\ at' = at + 1
      /\ phase' = (IF at = 12 THEN "over" ELSE "drain")
      /\ sent' = <<>> /\ statuses' = <<>> /\ before' = before /\ leftover' = leftover
      /\ UNCHANGED mcVars
  BY TheTable DEF Score
<1>2. scored.pass <=> (at = 8 => leftover = 0)
  <2>1. scored.pass = pass
    OBVIOUS
  <2>2. pass <=> (at = 8 => leftover = 0)
    BY <1>1, TheScore, Zenon
  <2>. HIDE DEF pass, scored
  <2>. QED  BY <2>1, <2>2
<1>. HIDE DEF pass, scored
<1>3. /\ scores' \in Seq({scores'[i] : i \in DOMAIN scores'}) /\ Len(scores') = at
      /\ DOMAIN scores' = 1..at
      /\ scores'[at] = scored /\ \A i \in 1..(at - 1) : scores'[i] = scores[i]
  <2>. DEFINE R == {scores[i] : i \in DOMAIN scores} \cup {scored}
              new == Append(scores, scored)
  <2>1. scores \in Seq(R) /\ Len(scores) = at - 1 /\ scored \in R
    BY <1>0 DEF PlaceOK
  <2>. HIDE DEF R
  <2>2. /\ new \in Seq(R) /\ Len(new) = at /\ new[at] = scored
        /\ \A i \in 1..(at - 1) : new[i] = scores[i]
    BY <1>0, <2>1
  <2>. HIDE DEF new
  <2>3. new \in Seq({new[i] : i \in DOMAIN new}) /\ DOMAIN new = 1..at
    BY <2>2
  <2>4. scores' = new
    BY <1>1 DEF new
  <2>. QED  BY <2>2, <2>3, <2>4
<1>4. ScoresOK'
  <2>1. ASSUME NEW i \in 1..at
        PROVE  scores'[i].pass <=> (i = 8 => leftover = 0)
    <3>1. CASE i = at
      BY <1>2, <1>3, <3>1
    <3>2. CASE i # at
      <4>1. i \in 1..(at - 1) /\ i \in DOMAIN scores
        BY <1>0, <2>1, <3>2 DEF PlaceOK
      <4>. QED  BY <1>0, <1>3, <4>1 DEF ScoresOK
    <3>. QED  BY <3>1, <3>2
  <2>. QED  BY <1>1, <1>3, <2>1 DEF ScoresOK
<1>5. PlaceOK'
  <2>1. at' \in 1..13 /\ (phase' = "over" <=> at' = 13) /\ phase' \in {"drain", "over"}
    BY <1>0, <1>1
  <2>2. /\ statuses' \in Seq({201, 401}) /\ Len(statuses') = 0
        /\ \A g : statuses' = [i \in 1..Len(statuses') |-> g[i]]
    BY <1>1
  <2>3. statuses' = [i \in 1..Len(statuses') |->
                        IF MayGrant(Current'.grants[i]) THEN 201 ELSE 401]
    <3>. DEFINE g == [i \in 1..Len(statuses') |->
                        IF MayGrant(Current'.grants[i]) THEN 201 ELSE 401]
    <3>1. statuses' = [i \in 1..Len(statuses') |-> g[i]]
      BY <2>2
    <3>. QED  BY <3>1
  <2>4. leftover' \in 0..MaxLeftover
    BY <1>0, <1>1 DEF PlaceOK
  <2>5. (scores \in Seq({scores[i] : i \in DOMAIN scores}) /\ Len(scores) = at - 1)'
    BY <1>0, <1>1, <1>3
  <2>. QED  BY <2>1, <2>2, <2>3, <2>4, <2>5 DEF PlaceOK
<1>6. CASE at = 12
  <2>1. ~Running' /\ phase' # "crashed"
    BY <1>1, <1>6 DEF Running
  <2>. QED  BY <1>4, <1>5, <2>1 DEF SmokeInv
<1>7. CASE at # 12
  <2>1. phase' = "drain" /\ at' \in 1..12
    BY <1>0, <1>1, <1>7
  <2>2. /\ UNCHANGED <<clock, approval, effect, callVars, resetVars, requestVars>>
        /\ Unspent' = Unspent /\ RowsOK'
    BY <1>0, <1>1, ServerStands
  <2>3. /\ SentOK' /\ RequestsFine' /\ ToldOK' /\ QuietOK'
        /\ Goods' = Goods /\ Effects' = Effects /\ Caused' = {} /\ Len(sent') = 0
    BY <1>1, <2>1, <2>2, Cleared
  <2>4. /\ Cardinality(Effects) = before + Cardinality(Caused)
        /\ before \in Nat /\ Cardinality(Caused) \in Nat /\ Cardinality(Unspent) \in Nat
        /\ leftover \in Nat
        /\ Cardinality(Caused) + Cardinality(Unspent) + before
                = leftover + GrantedBefore + (IF at \in {1, 9, 10} THEN 1 ELSE 0)
        /\ at \in {1, 10} => Cardinality(Caused) = 1
        /\ at \in {2, 3, 4, 5, 6, 7, 11, 12} => Cardinality(Caused) = 0
        /\ at = 10 => Unspent = {}
    BY <1>1, TheResult, Zenon
  <2>5. CountsOK'
    <3>1. Created' = {} /\ Cardinality(Created') = 0
      BY <1>1, FS_EmptySet DEF Created
    <3>2. GrantedBefore' = GrantedBefore + (IF at \in {1, 9, 10} THEN 1 ELSE 0)
      <4>1. GrantedBefore' = IF at + 1 = 1 THEN 0 ELSE IF at + 1 <= 9 THEN 1
                             ELSE IF at + 1 = 10 THEN 2 ELSE 3
        BY <1>1 DEF GrantedBefore
      <4>. QED  BY <1>0, <1>7, <4>1 DEF GrantedBefore
    <3>3. Cardinality(Effects') + Cardinality(Unspent')
             = leftover' + GrantedBefore' + Cardinality(Created')
      <4>1. GrantedBefore \in Nat
        BY DEF GrantedBefore
      <4>. DEFINE one == IF at \in {1, 9, 10} THEN 1 ELSE 0
      <4>2. /\ Cardinality(Effects') = before + Cardinality(Caused)
            /\ Cardinality(Unspent') = Cardinality(Unspent)
            /\ GrantedBefore' = GrantedBefore + one /\ leftover' = leftover
        BY <1>1, <2>2, <2>3, <2>4, <3>2
      <4>3. Cardinality(Caused) + Cardinality(Unspent) + before = leftover + GrantedBefore + one
        BY <2>4
      <4>4. one \in Nat
        OBVIOUS
      <4>. HIDE DEF one
      <4>. QED  BY <2>4, <3>1, <4>1, <4>2, <4>3, <4>4
    <3>4. Cardinality(Goods) <= GoodsBefore'
      <4>. DEFINE n == Len(sent)
                  extra == IF Posting = Good THEN n ELSE 0
      <4>1. /\ IsFiniteSet(Goods) /\ Cardinality(Goods) \in Nat
            /\ Cardinality(Goods) <= GoodsBefore + extra
        BY <1>0, FS_CardinalityType DEF CountsOK
      <4>2. n = TimesAt(at)
        BY <1>0, <1>1, TheColumns DEF Current
      <4>3. at \in 2..7 => extra = 0
        <5>1. \A key \in BadKeys : Bad(key) # Good
          <6>1. "denied" # "allowed"
            OBVIOUS
          <6>. QED  BY <6>1, TheBad, GoodAndReadAreAllowed
        <5>2. at = 2 => Posting # Good
          BY <1>1, TheColumns, TheMessages DEF Posting, Current
        <5>3. at \in 3..7 => Posting # Good
          BY <1>1, <5>1, TheColumns DEF Posting, Current
        <5>. QED  BY <5>2, <5>3
      <4>4. extra \in {0, n} /\ MaxDrains \in Nat
        BY SmokeAssumption
      <4>. HIDE DEF n, extra
      <4>5. GoodsBefore' = IF at + 1 = 1 THEN 0 ELSE IF at + 1 <= 8 THEN 1
                           ELSE IF at + 1 <= 10 THEN 2
                           ELSE IF at + 1 = 11 THEN 4 + MaxDrains ELSE 5 + MaxDrains
        BY <1>0, <1>1, <2>1, SmokeAssumption DEF GoodsBefore
      <4>6. CASE at \in 1..8
        <5>1. GoodsBefore = IF at = 1 THEN 0 ELSE 1
          BY <4>6 DEF GoodsBefore
        <5>2. n = 1
          BY <4>2, <4>6 DEF TimesAt
        <5>. QED  BY <4>1, <4>3, <4>4, <4>5, <4>6, <5>1, <5>2
      <4>7. CASE at = 9
        <5>1. GoodsBefore = 2 /\ n = 0
          BY <4>2, <4>7 DEF GoodsBefore, TimesAt
        <5>. QED  BY <4>1, <4>4, <4>5, <4>7, <5>1
      <4>8. CASE at = 10
        <5>1. GoodsBefore = 2 + MaxDrains /\ n = 2
          BY <1>1, <4>2, <4>8 DEF GoodsBefore, TimesAt
        <5>. QED  BY <4>1, <4>4, <4>5, <4>8, <5>1
      <4>9. CASE at = 11
        <5>1. GoodsBefore = 4 + MaxDrains /\ n = 1
          BY <4>2, <4>9 DEF GoodsBefore, TimesAt
        <5>. QED  BY <4>1, <4>4, <4>5, <4>9, <5>1
      <4>. QED  BY <1>0, <1>7, <4>6, <4>7, <4>8, <4>9
    <3>5. GoodsBefore' \in Nat
      BY <1>0, <1>1, SmokeAssumption DEF GoodsBefore
    <3>6. Cardinality(Goods') <= GoodsBefore' + (IF Posting' = Good THEN Len(sent') ELSE 0)
      BY <2>3, <3>4, <3>5
    <3>. QED  BY <1>0, <2>1, <2>2, <2>3, <3>3, <3>6 DEF CountsOK
  <2>6. StockOK'
    <3>1. at' \in 2..8 => Cardinality(Effects') = 1
      <4>1. at' \in 2..8 => at \in 1..7
        BY <1>0, <1>1
      <4>2. at \in 2..7 => before = 1
        BY <1>0, <1>1 DEF StockOK
      <4>3. at = 1 => before = 0
        BY <1>0, <1>1 DEF StockOK
      <4>4. CASE at = 1
        BY <2>3, <2>4, <4>3, <4>4
      <4>5. CASE at \in 2..7
        BY <2>3, <2>4, <4>2, <4>5
      <4>. QED  BY <1>0, <4>1, <4>4, <4>5
    <3>2. at' = 11 => Unspent' = {}
      BY <1>0, <1>1, <2>2, <2>4
    <3>3. at' # 1
      BY <1>0, <1>1
    <3>. QED  BY <2>1, <3>1, <3>2, <3>3 DEF StockOK
  <2>. QED  BY <1>4, <1>5, <2>2, <2>3, <2>5, <2>6 DEF SmokeInv
<1>. QED  BY <1>6, <1>7

\* drain_approvals has its answer: there was nothing left to spend.
LEMMA DrainedKeepsScript ==
    ASSUME ServerOK, SmokeInv, Running, phase = "drain", InFlight = {},
           Current.drains => sent # <<>> /\ DecisionOf(Last(sent)) # "allowed",
           phase' = "grant", sent' = <<>>,
           UNCHANGED <<mcVars, at, statuses, before, scores, leftover>>
    PROVE  SmokeInv'
<1>0. /\ PlaceOK /\ ScoresOK /\ SentOK /\ CountsOK /\ StockOK /\ RowsOK /\ at \in 1..12 /\ ToldOK
  BY ThePlace
<1>1. /\ UNCHANGED <<clock, approval, effect, callVars, resetVars, requestVars>>
      /\ Unspent' = Unspent /\ RowsOK'
  BY <1>0, ServerStands
<1>2. /\ SentOK' /\ RequestsFine' /\ ToldOK' /\ QuietOK'
      /\ Goods' = Goods /\ Effects' = Effects /\ Caused' = {} /\ Len(sent') = 0
  BY <1>0, <1>1, Cleared
<1>3. PlaceOK' /\ ScoresOK'
  <2>1. Len(statuses) = 0 /\ Len(Current.grants) \in Nat
    <3>1. Current.grants = GrantsAt(at)
      BY <1>0, TheColumns DEF Current
    <3>2. Len(GrantsAt(at)) \in Nat
      BY DEF GrantsAt
    <3>. QED  BY <1>0, <3>1, <3>2 DEF PlaceOK
  <2>. QED  BY <1>0, <2>1 DEF PlaceOK, ScoresOK, Current
<1>4. at = 10 => Unspent = {}
  <2>1. SUFFICES ASSUME at = 10 PROVE Unspent = {}
    OBVIOUS
  <2>2. Current.drains = TRUE
    BY <1>0, <2>1, TheColumns DEF Current
  <2>3. sent # <<>> /\ DecisionOf(Last(sent)) # "allowed" /\ sent \in Seq(Probed)
    BY <1>0, <2>2 DEF SentOK
  <2>. DEFINE c == Last(sent)
  <2>4. c \in Range(sent)
    BY <2>3 DEF Last, Range
  <2>5. message[c] = Good
    BY <1>0, <2>4 DEF SentOK, Range, Posting
  <2>6. outcome[c] # None /\ ~Won(c)
    BY <2>3, <2>4, <2>5, AllAnswered, AnsweredCall, GoodAndReadAreAllowed
  <2>7. Gone
    BY <1>0, <2>4, <2>5, <2>6 DEF ToldOK
  <2>. QED  BY <2>7 DEF Gone, Width
<1>5. CountsOK'
  <2>1. GrantedBefore' = GrantedBefore /\ Created' = Created
    BY DEF GrantedBefore, Created
  <2>2. Cardinality(Goods) <= GoodsBefore'
    <3>1. /\ IsFiniteSet(Goods) /\ Cardinality(Goods) \in Nat
          /\ Cardinality(Goods) <= GoodsBefore + (IF Posting = Good THEN Len(sent) ELSE 0)
      BY <1>0, FS_CardinalityType DEF CountsOK
    <3>2. Posting = Good /\ MaxDrains \in Nat /\ Len(sent) \in Nat /\ Len(sent) <= MaxDrains
      BY <1>0, SmokeAssumption DEF Posting, SentOK, Most
    <3>3. at # 10 => Len(sent) = 0
      <4>1. at # 10 => Current.drains = FALSE
        BY <1>0, TheColumns DEF Current
      <4>. QED  BY <1>0, <4>1 DEF SentOK
    <3>. HIDE DEF Goods
    <3>. QED  BY <1>0, <3>1, <3>2, <3>3 DEF GoodsBefore
  <2>3. GoodsBefore' \in Nat
    BY <1>0, SmokeAssumption DEF GoodsBefore
  <2>4. Cardinality(Goods') <= GoodsBefore' + (IF Posting' = Good THEN Len(sent') ELSE 0)
    BY <1>2, <2>2, <2>3
  <2>. QED  BY <1>0, <1>1, <1>2, <2>1, <2>4 DEF CountsOK
<1>6. StockOK'
  <2>1. at = 10 => Cardinality(Unspent) = Len(statuses)
    <3>1. Len(statuses) = 0
      BY <1>0 DEF PlaceOK
    <3>. QED  BY <1>4, <3>1, FS_EmptySet
  <2>. QED  BY <1>0, <1>1, <1>2, <2>1 DEF StockOK
<1>. QED  BY <1>1, <1>2, <1>3, <1>5, <1>6 DEF SmokeInv

\* Everything has been asked for.
LEMMA AskedKeepsScript ==
    ASSUME ServerOK, SmokeInv, Running, phase = "grant",
           Len(statuses) = Len(Current.grants), phase' = "before",
           UNCHANGED <<mcVars, at, sent, statuses, before, scores, leftover>>
    PROVE  SmokeInv'
<1>0. /\ PlaceOK /\ ScoresOK /\ SentOK /\ CountsOK /\ StockOK /\ RowsOK /\ at \in 1..12
  BY ThePlace
<1>1. /\ UNCHANGED <<clock, approval, effect, callVars, resetVars, requestVars>>
      /\ Unspent' = Unspent /\ RowsOK'
  BY <1>0, ServerStands
<1>2. sent = <<>> /\ Len(sent) = 0
  BY <1>0 DEF SentOK
<1>3. /\ SentOK' /\ RequestsFine' /\ ToldOK' /\ QuietOK'
      /\ Goods' = Goods /\ Effects' = Effects /\ Caused' = {} /\ Len(sent') = 0
  BY <1>0, <1>1, <1>2, Cleared
<1>4. PlaceOK' /\ ScoresOK'
  BY <1>0 DEF PlaceOK, ScoresOK, Current
<1>5. CountsOK'
  <2>1. GoodsBefore' = GoodsBefore /\ GrantedBefore' = GrantedBefore /\ Created' = Created
        /\ Posting' = Posting
    BY DEF GoodsBefore, GrantedBefore, Created, Posting, Current
  <2>. QED  BY <1>0, <1>1, <1>2, <1>3, <2>1 DEF CountsOK
<1>6. StockOK'
  <2>1. at = 10 => Len(statuses) = 1
    <3>1. at = 10 => Current.grants = <<ApproverToken>>
      BY <1>0, TheColumns DEF Current, GrantsAt
    <3>. QED  BY <3>1
  <2>. QED  BY <1>0, <1>1, <1>3, <2>1 DEF StockOK
<1>. QED  BY <1>1, <1>3, <1>4, <1>5, <1>6 DEF SmokeInv

\* One credential more was presented, and got an approval or did not.
LEMMA AskingKeepsScript ==
    ASSUME ServerOK, SmokeInv, Running, phase = "grant",
           Len(statuses) < Len(Current.grants), NEW granted \in BOOLEAN,
           granted = MayGrant(Current.grants[Len(statuses) + 1]),
           statuses' = Append(statuses, IF granted THEN 201 ELSE 401),
           UNCHANGED <<callVars, resetVars, requestVars, clock, effect,
                       at, phase, sent, before, scores, leftover>>,
           RowsOK', IsFiniteSet(Unspent'),
           Cardinality(Unspent') = Cardinality(Unspent) + (IF granted THEN 1 ELSE 0)
    PROVE  SmokeInv'
<1>. DEFINE n == Len(statuses)
<1>0. /\ PlaceOK /\ ScoresOK /\ SentOK /\ CountsOK /\ StockOK /\ at \in 1..12
  BY ThePlace
<1>1. sent = <<>> /\ Len(sent) = 0
  BY <1>0 DEF SentOK
<1>2. /\ SentOK' /\ RequestsFine' /\ ToldOK' /\ QuietOK'
      /\ Goods' = Goods /\ Effects' = Effects /\ Caused' = {} /\ Len(sent') = 0
  BY <1>0, <1>1, Cleared
<1>3. /\ statuses \in Seq({201, 401}) /\ n \in Nat /\ Len(Current.grants) \in Nat
      /\ Current.grants = GrantsAt(at) /\ at \in {1, 9, 10}
      /\ statuses = [i \in 1..n |-> IF MayGrant(Current.grants[i]) THEN 201 ELSE 401]
  <2>1. Current.grants = GrantsAt(at)
    BY <1>0, TheColumns DEF Current
  <2>2. Len(GrantsAt(at)) \in Nat /\ (at \notin {1, 9, 10} => Len(GrantsAt(at)) = 0)
    BY DEF GrantsAt
  <2>3. statuses \in Seq({201, 401}) /\ n \in Nat
    BY <1>0 DEF PlaceOK
  <2>4. at \in {1, 9, 10}
    BY <2>1, <2>2, <2>3
  <2>. QED  BY <1>0, <2>1, <2>2, <2>3, <2>4 DEF PlaceOK
<1>4. /\ statuses' \in Seq({201, 401}) /\ Len(statuses') = n + 1 /\ DOMAIN statuses' = 1..(n + 1)
      /\ statuses'[n + 1] = (IF granted THEN 201 ELSE 401)
      /\ \A i \in 1..n : statuses'[i] = statuses[i]
      /\ statuses' = [i \in 1..(n + 1) |-> statuses'[i]]
  BY <1>3
<1>. HIDE DEF n
<1>5. statuses' = [i \in 1..(n + 1) |-> IF MayGrant(Current.grants[i]) THEN 201 ELSE 401]
  <2>1. ASSUME NEW i \in 1..(n + 1)
        PROVE  statuses'[i] = IF MayGrant(Current.grants[i]) THEN 201 ELSE 401
    <3>1. CASE i = n + 1
      BY <1>4, <3>1 DEF n
    <3>2. CASE i # n + 1
      <4>1. i \in 1..n
        BY <1>3, <2>1, <3>2
      <4>2. statuses[i] = IF MayGrant(Current.grants[i]) THEN 201 ELSE 401
        BY <1>3, <4>1
      <4>. QED  BY <1>4, <4>1, <4>2
    <3>. QED  BY <3>1, <3>2
  <2>. QED  BY <1>4, <2>1
<1>6. PlaceOK' /\ ScoresOK'
  <2>1. Current' = Current
    BY DEF Current
  <2>2. Len(statuses') <= Len(Current.grants)
    BY <1>3, <1>4 DEF n
  <2>3. statuses' = [i \in 1..Len(statuses') |-> IF MayGrant(Current'.grants[i]) THEN 201 ELSE 401]
    BY <1>4, <1>5, <2>1
  <2>4. ScoresOK'
    BY <1>0 DEF ScoresOK
  <2>. QED  BY <1>0, <1>4, <2>1, <2>2, <2>3, <2>4 DEF PlaceOK
<1>7. /\ IsFiniteSet(Created) /\ IsFiniteSet(Created')
      /\ Cardinality(Created') = Cardinality(Created) + (IF granted THEN 1 ELSE 0)
  <2>1. Created \subseteq 1..n /\ IsFiniteSet(1..n)
    BY <1>3, FS_Interval DEF Created
  <2>2. IsFiniteSet(Created)
    BY <2>1, FS_Subset
  <2>3. n + 1 \notin Created
    BY <1>3, <2>1
  <2>4. CASE granted
    <3>1. Created' = Created \cup {n + 1}
      BY <1>3, <1>4, <2>4 DEF Created
    <3>. HIDE DEF Created
    <3>. QED  BY <2>2, <2>3, <2>4, <3>1, FS_AddElement
  <2>5. CASE ~granted
    <3>1. Created' = Created
      BY <1>3, <1>4, <2>5 DEF Created
    <3>2. Cardinality(Created) \in Nat
      BY <2>2, FS_CardinalityType
    <3>. HIDE DEF Created
    <3>. QED  BY <2>2, <2>5, <3>1, <3>2
  <2>. QED  BY <2>4, <2>5
<1>8. CountsOK'
  <2>1. GoodsBefore' = GoodsBefore /\ GrantedBefore' = GrantedBefore /\ Posting' = Posting
    BY DEF GoodsBefore, GrantedBefore, Posting, Current
  <2>2. /\ IsFiniteSet(Effects) /\ Cardinality(Effects) \in Nat /\ Cardinality(Unspent) \in Nat
        /\ Cardinality(Created) \in Nat /\ leftover \in Nat /\ GrantedBefore \in Nat
    BY <1>0, <1>7, FS_CardinalityType, SmokeAssumption DEF CountsOK, PlaceOK, GrantedBefore
  <2>3. /\ IsFiniteSet(Goods)
        /\ Cardinality(Goods) <= GoodsBefore + (IF Posting = Good THEN Len(sent) ELSE 0)
        /\ Cardinality(Effects) + Cardinality(Unspent)
             = leftover + GrantedBefore + Cardinality(Created)
    BY <1>0 DEF CountsOK
  <2>4. Cardinality(Effects') + Cardinality(Unspent')
             = leftover' + GrantedBefore' + Cardinality(Created')
    BY <1>2, <1>7, <2>1, <2>2, <2>3
  <2>. QED  BY <1>1, <1>2, <2>1, <2>2, <2>3, <2>4 DEF CountsOK
<1>9. StockOK'
  <2>1. at = 10 => granted
    BY <1>3, TheBodies DEF GrantsAt, n
  <2>2. at = 10 => Cardinality(Unspent) = n
    BY <1>0 DEF StockOK, n
  <2>3. at = 10 => Cardinality(Unspent') = Len(statuses')
    BY <1>4, <2>1, <2>2
  <2>. QED  BY <1>0, <1>2, <1>3, <2>3 DEF StockOK
<1>. QED  BY <1>2, <1>6, <1>8, <1>9 DEF SmokeInv

\* The next credential of the scenario, or none is left.
LEMMA AskForApprovalKeepsScript ==
    ASSUME ServerOK, SmokeInv, Running, AskForApproval
    PROVE  SmokeInv'
<1>. DEFINE presented == Current.grants[Len(statuses) + 1]
<1>1. phase = "grant" /\ UNCHANGED <<at, sent, before, scores, leftover>>
  BY DEF AskForApproval
<1>2. \/ /\ Len(statuses) < Len(Current.grants) /\ UNCHANGED phase
         /\ MayGrant(presented) /\ Undrawn # {} /\ Grant(presented, Body(DefaultTtl), NextId)
         /\ statuses' = Append(statuses, 201)
         /\ UNCHANGED <<callVars, resetVars, requestVars, trailVars>>
      \/ /\ Len(statuses) < Len(Current.grants) /\ UNCHANGED phase
         /\ ~MayGrant(presented) /\ statuses' = Append(statuses, 401) /\ UNCHANGED mcVars
      \/ /\ Len(statuses) = Len(Current.grants) /\ phase' = "before"
         /\ UNCHANGED <<mcVars, statuses>>
  BY DEF AskForApproval
<1>3. RowsOK /\ IsFiniteSet(Unspent) /\ Cardinality(Unspent) \in Nat
  BY ThePlace, FS_CardinalityType DEF CountsOK
<1>. HIDE DEF presented
<1>4. CASE /\ Len(statuses) < Len(Current.grants) /\ UNCHANGED phase
           /\ MayGrant(presented) /\ Undrawn # {} /\ Grant(presented, Body(DefaultTtl), NextId)
           /\ statuses' = Append(statuses, 201)
           /\ UNCHANGED <<callVars, resetVars, requestVars, trailVars>>
  <2>1. DefaultTtl \in 1..DefaultTtl
    BY TheBodies
  <2>2. /\ RowsOK' /\ UNCHANGED <<clock, effect>>
        /\ IsFiniteSet(Unspent') /\ Cardinality(Unspent') = Cardinality(Unspent) + 1
    BY <1>4, <2>1, TheGrant
  <2>3. TRUE = MayGrant(Current.grants[Len(statuses) + 1])
    BY <1>4 DEF presented, MayGrant
  <2>. QED  BY <1>1, <1>4, <2>2, <2>3, AskingKeepsScript
<1>5. CASE /\ Len(statuses) < Len(Current.grants) /\ UNCHANGED phase
           /\ ~MayGrant(presented) /\ statuses' = Append(statuses, 401) /\ UNCHANGED mcVars
  <2>1. /\ UNCHANGED <<clock, approval, effect, callVars, resetVars, requestVars>>
        /\ Unspent' = Unspent /\ RowsOK'
    BY <1>3, <1>5, ServerStands
  <2>2. FALSE = MayGrant(Current.grants[Len(statuses) + 1])
    BY <1>5 DEF presented, MayGrant
  <2>3. IsFiniteSet(Unspent') /\ Cardinality(Unspent') = Cardinality(Unspent) + 0
    BY <1>3, <2>1
  <2>. QED  BY <1>1, <1>5, <2>1, <2>2, <2>3, AskingKeepsScript
<1>6. CASE /\ Len(statuses) = Len(Current.grants) /\ phase' = "before"
           /\ UNCHANGED <<mcVars, statuses>>
  BY <1>1, <1>6, AskedKeepsScript
<1>. QED  BY <1>2, <1>4, <1>5, <1>6, Zenon

\* A stutter.
LEMMA NothingKeepsScript ==
    ASSUME ServerOK, SmokeInv, UNCHANGED smokeVars
    PROVE  SmokeInv'
<1>1. UNCHANGED mcVars /\ UNCHANGED scriptVars
  BY DEF smokeVars
<1>2. CASE ~Running
  <2>1. phase' = phase /\ ~Running'
    BY <1>1, <1>2 DEF scriptVars, Running
  <2>. QED  BY <1>1, <2>1, ScriptStands DEF SmokeInv
<1>3. CASE Running
  <2>0. /\ PlaceOK /\ ScoresOK /\ QuietOK /\ SentOK /\ RequestsFine /\ RowsOK
        /\ ToldOK /\ CountsOK /\ StockOK
    BY <1>3, ThePlace
  <2>1. /\ UNCHANGED <<clock, approval, effect, callVars, resetVars, requestVars>>
        /\ Effects' = Effects /\ Unspent' = Unspent /\ Goods' = Goods /\ RowsOK' /\ QuietOK'
    BY <1>1, <2>0, ServerStands
  <2>2. /\ Caused' = Caused /\ Width' = Width /\ Posting' = Posting /\ Created' = Created
        /\ Gone' = Gone
    BY <1>1, <2>1, SameStock
  <2>3. /\ at' = at /\ phase' = phase /\ sent' = sent /\ statuses' = statuses
        /\ before' = before /\ leftover' = leftover
        /\ stage' = stage /\ message' = message /\ pc' = pc /\ outcome' = outcome
        /\ found' = found
    BY <1>1, <2>1 DEF scriptVars, requestVars, callVars
  <2>4. \A d : Won(d)' = Won(d) /\ Answered(d)' = Answered(d) /\ SameCall(d)
    BY <2>1 DEF Won, Answered, SameCall, callVars, requestVars
  <2>5. SentOK'
    BY <1>1, <2>0, <2>3, <2>4, SentKept
  <2>6. RequestsFine'
    <3>1. \A d \in Calls : RequestFine(d)'
      BY <2>0, <2>1, <2>3, <2>4, FineKept DEF RequestsFine
    <3>. QED  BY <3>1 DEF RequestsFine
  <2>7. ToldOK'
    BY <2>0, <2>1, <2>2, <2>3, <2>4 DEF ToldOK
  <2>8. CountsOK' /\ StockOK'
    BY <2>0, <2>1, <2>2, <2>3 DEF CountsOK, StockOK, GoodsBefore, GrantedBefore
  <2>. QED  BY <1>1, <2>0, <2>1, <2>5, <2>6, <2>7, <2>8, ScriptStands DEF SmokeInv
<1>. QED  BY <1>2, <1>3

\* A request that has not been made: nothing is known of it to the broker.
LEMMA IdleRequest ==
    ASSUME ServerOK, NEW c \in Calls, stage[c] = "idle"
    PROVE  pc[c] = "idle" /\ outcome[c] = None /\ c \notin Effects
<1>1. pc[c] = "idle"
  BY DEF ServerOK, J, McInv, RequestOK
<1>. QED  BY <1>1 DEF ServerOK, J, IInv, CallsOK, CallOK, LedgerOK

\* A visitor who will not pass the door.
LEMMA VisitorKeepsScript ==
    ASSUME ServerOK, SmokeInv, VisitorPosts
    PROVE  SmokeInv'
<1>1. UNCHANGED scriptVars
  BY DEF VisitorPosts
<1>2. CASE ~Running
  <2>1. phase' = phase /\ ~Running'
    BY <1>1, <1>2 DEF scriptVars, Running
  <2>. QED  BY <1>1, <2>1, ScriptStands DEF SmokeInv
<1>3. CASE Running
  <2>0. /\ PlaceOK /\ ScoresOK /\ QuietOK /\ SentOK /\ RequestsFine /\ RowsOK
        /\ ToldOK /\ CountsOK /\ StockOK
    BY <1>3, ThePlace
  <2>1. PICK c \in Calls \ Range(ProbeCalls), m \in VisitorMessages : VerifyBearer(c, m)
    BY DEF VisitorPosts
  <2>2. /\ stage[c] = "idle" /\ UNCHANGED vars
        /\ message' = [message EXCEPT ![c] = m]
        /\ stage' = [stage EXCEPT ![c] = IF TransportRefusal(m.token, clock) = None
                                         THEN "accepted" ELSE "refusing"]
    BY <2>1 DEF VerifyBearer, MoveTo
  <2>3. stage \in [Calls -> {"idle", "refusing", "refused", "accepted", "called", "reading",
                             "answered", "broken"}]
        /\ message \in [Calls -> Messages \cup {None}]
    BY DEF ServerOK, J, McTypeOK
  <2>4. TransportRefusal(m.token, 0) # None /\ clock = 0
    BY <2>0, <2>1, DeploymentAssumption DEF QuietOK
  <2>5. /\ stage'[c] = "refusing" /\ message'[c] = m
        /\ \A d \in Calls \ {c} : stage'[d] = stage[d] /\ message'[d] = message[d]
    BY <2>2, <2>3, <2>4
  <2>6. UNCHANGED <<clock, approval, effect, resetVars, callVars>>
    BY <2>2 DEF vars, tables
  <2>7. /\ Effects' = Effects /\ ApprovalRows' = ApprovalRows /\ Unspent' = Unspent
        /\ Caused' = Caused /\ Posting' = Posting /\ Created' = Created /\ Gone' = Gone
        /\ Running'
    BY <1>1, <1>3, <2>6, SameStock
  <2>8. /\ at' = at /\ phase' = phase /\ sent' = sent /\ statuses' = statuses
        /\ before' = before /\ leftover' = leftover
    BY <1>1 DEF scriptVars
  <2>9. c \in Calls /\ c \notin Probed /\ Range(sent) \subseteq Calls \ {c} /\ Probed \subseteq Calls
    BY <2>0, <2>1, SmokeAssumption DEF SentOK, Probed, Range
  <2>10. pc[c] = "idle" /\ outcome[c] = None
    BY <2>2, <2>9, IdleRequest
  <2>11. \A d : SameCall(d) /\ Won(d)' = Won(d) /\ Verdict(d)' = Verdict(d)
    BY <2>6 DEF SameCall, Won, Verdict, callVars
  <2>12. SentOK'
    <3>1. \A d \in Range(sent) : Answered(d) => Answered(d)'
      BY <2>5, <2>9, <2>11 DEF Answered, SameCall
    <3>. QED  BY <1>1, <2>0, <2>5, <2>9, <3>1, SentKept
  <2>13. RequestsFine'
    <3>1. \A d \in Calls \ {c} : RequestFine(d)'
      BY <2>0, <2>5, <2>7, <2>8, <2>11, FineKept DEF RequestsFine
    <3>2. RequestFine(c)'
      <4>1. RequestFine(c)
        BY <2>0, <2>9 DEF RequestsFine
      <4>. QED  BY <2>4, <2>5, <2>6, <2>9, <2>10, <4>1 DEF RequestFine, callVars
    <3>. QED  BY <3>1, <3>2 DEF RequestsFine
  <2>14. ToldOK'
    <3>1. ASSUME NEW d \in Range(sent)
          PROVE  message'[d] = message[d]
      BY <2>5, <2>9
    <3>2. pc' = pc /\ outcome' = outcome /\ found' = found
      BY <2>6 DEF callVars
    <3>. QED  BY <2>0, <2>7, <2>8, <2>11, <3>1, <3>2 DEF ToldOK
  <2>15. Goods' = Goods
    BY <2>5, <2>9 DEF Goods
  <2>16. CountsOK' /\ StockOK'
    BY <2>0, <2>7, <2>8, <2>15 DEF CountsOK, StockOK, GoodsBefore, GrantedBefore
  <2>17. RowsOK' /\ QuietOK'
    BY <2>0, <2>6, <2>7 DEF RowsOK, ForAgent, QuietOK, resetVars
  <2>. QED  BY <1>1, <2>0, <2>12, <2>13, <2>14, <2>16, <2>17, ScriptStands DEF SmokeInv
<1>. QED  BY <1>2, <1>3

\* The script makes its next request.
LEMMA PostingKeepsScript ==
    ASSUME ServerOK, SmokeInv, Running, phase \in {"drain", "run"},
           phase = "drain" => Current.drains, Len(sent) < Most,
           Cardinality(InFlight) < Width, PostCall(Posting),
           UNCHANGED <<at, phase, statuses, before, scores, leftover>>
    PROVE  SmokeInv'
<1>. DEFINE m == Posting
            n == Len(sent)
<1>0. /\ PlaceOK /\ ScoresOK /\ QuietOK /\ SentOK /\ RequestsFine /\ RowsOK
      /\ ToldOK /\ CountsOK /\ StockOK /\ at \in 1..12 /\ m \in SmokeMessages
  BY ThePlace
<1>1. PICK p \in Calls : p = NextCall /\ p \in Probed /\ stage[p] = "idle"
  BY NextIsFree DEF PostCall
<1>2. /\ sent' = Append(sent, p) /\ UNCHANGED vars
      /\ message' = [message EXCEPT ![p] = m]
      /\ stage' = [stage EXCEPT ![p] = IF TransportRefusal(m.token, clock) = None
                                       THEN "accepted" ELSE "refusing"]
  BY <1>1 DEF PostCall, VerifyBearer, MoveTo
<1>3. stage \in [Calls -> {"idle", "refusing", "refused", "accepted", "called", "reading",
                           "answered", "broken"}]
      /\ message \in [Calls -> Messages \cup {None}]
  BY DEF ServerOK, J, McTypeOK
<1>. HIDE DEF m
<1>4. /\ stage'[p] \in {"accepted", "refusing"} /\ message'[p] = m
      /\ stage'[p] = "refusing" => TransportRefusal(m.token, 0) # None
      /\ \A d \in Calls \ {p} : stage'[d] = stage[d] /\ message'[d] = message[d]
  BY <1>0, <1>1, <1>2, <1>3 DEF QuietOK
<1>5. UNCHANGED <<clock, approval, effect, resetVars, callVars>>
  BY <1>2 DEF vars, tables
<1>6. pc[p] = "idle" /\ outcome[p] = None /\ p \notin Effects
  BY <1>1, IdleRequest
<1>7. /\ sent \in Seq(Probed) /\ n \in Nat /\ Probed \subseteq Calls
      /\ DOMAIN sent = 1..n
  BY <1>0, SmokeAssumption DEF SentOK, Probed, Range
<1>8. /\ Len(sent') = n + 1 /\ DOMAIN sent' = 1..(n + 1) /\ sent'[n + 1] = p
      /\ \A i \in 1..n : sent'[i] = sent[i]
      /\ sent' \in Seq(Probed)
  BY <1>1, <1>2, <1>7
<1>9. n < Most
  OBVIOUS
<1>. HIDE DEF n
<1>10. Range(sent') = Range(sent) \cup {p}
  BY <1>7, <1>8 DEF Range
<1>11. p \notin Range(sent) /\ Range(sent) \subseteq Calls \ {p}
  <2>1. \A i \in DOMAIN sent : stage[sent[i]] # "idle" /\ sent[i] \in Probed
    BY <1>0, <1>7 DEF SentOK
  <2>. QED  BY <1>1, <1>7, <2>1 DEF Range
<1>12. /\ Effects' = Effects /\ ApprovalRows' = ApprovalRows
  BY <1>5 DEF Effects, ApprovalRows
<1>13. /\ Unspent' = Unspent /\ Caused' = Caused /\ Width' = Width /\ Posting' = Posting
       /\ Most' = Most /\ Created' = Created /\ Current' = Current /\ Running'
  <2>1. Caused' = Caused
    BY <1>6, <1>10, <1>12 DEF Caused
  <2>2. Unspent' = Unspent
    BY <1>5, <1>12 DEF Unspent
  <2>. QED  BY <2>1, <2>2 DEF Width, Posting, Most, Created, Current, Running
<1>14. Gone' = Gone
  BY <1>13 DEF Gone
<1>15. \A d : SameCall(d) /\ Won(d)' = Won(d) /\ Verdict(d)' = Verdict(d)
  BY <1>5 DEF SameCall, Won, Verdict, callVars
<1>16. Width = 1 => \A i \in 1..n : Answered(sent[i])
  <2>1. SUFFICES ASSUME Width = 1 PROVE InFlight = {}
    BY <1>7 DEF InFlight
  <2>2. InFlight \subseteq 1..n /\ IsFiniteSet(1..n)
    BY <1>7, FS_Interval DEF InFlight
  <2>3. IsFiniteSet(InFlight) /\ Cardinality(InFlight) \in Nat
    BY <2>2, FS_Subset, FS_CardinalityType
  <2>4. Cardinality(InFlight) = 0
    BY <2>1, <2>3
  <2>. QED  BY <2>3, <2>4, FS_EmptySet
<1>17. SentOK'
  <2>1. (Width = 1 => \A i \in DOMAIN sent : i < Len(sent) => Answered(sent[i]))'
    <3>1. ASSUME Width = 1, NEW i \in 1..n
          PROVE  \/ stage'[sent[i]] \in {"refused", "answered", "broken"}
                 \/ stage'[sent[i]] = "called" /\ pc'[sent[i]] \in Ended
      <4>1. Answered(sent[i]) /\ sent[i] \in Calls \ {p}
        BY <1>7, <1>11, <1>16, <3>1 DEF Range
      <4>. QED  BY <1>4, <1>15, <4>1 DEF Answered, SameCall
    <3>2. \A i \in DOMAIN sent' : i < Len(sent') => i \in 1..n /\ sent'[i] = sent[i]
      BY <1>7, <1>8
    <3>. QED  BY <1>13, <3>1, <3>2 DEF Answered
  <2>2. \A i \in DOMAIN sent' : stage'[sent'[i]] # "idle" /\ message'[sent'[i]] = Posting'
    <3>1. SUFFICES ASSUME NEW i \in DOMAIN sent'
                   PROVE  stage'[sent'[i]] # "idle" /\ message'[sent'[i]] = Posting'
      OBVIOUS
    <3>2. CASE i = n + 1
      BY <1>4, <1>8, <1>13, <3>2 DEF m
    <3>3. CASE i # n + 1
      <4>1. i \in 1..n /\ sent'[i] = sent[i]
        BY <1>7, <1>8, <3>1, <3>3
      <4>2. sent[i] \in Calls \ {p}
        BY <1>7, <1>11, <4>1 DEF Range
      <4>3. stage[sent[i]] # "idle" /\ message[sent[i]] = Posting
        BY <1>0, <1>7, <4>1 DEF SentOK
      <4>. QED  BY <1>4, <1>13, <4>1, <4>2, <4>3
    <3>. QED  BY <3>2, <3>3
  <2>3. \A i, j \in DOMAIN sent' : sent'[i] = sent'[j] => i = j
    <3>1. \A i, j \in 1..n : sent[i] = sent[j] => i = j
      BY <1>0, <1>7 DEF SentOK
    <3>2. \A i \in 1..n : sent[i] # p
      BY <1>7, <1>11 DEF Range
    <3>3. \A i \in DOMAIN sent' : i = n + 1 \/ i \in 1..n
      BY <1>7, <1>8
    <3>. QED  BY <1>8, <3>1, <3>2, <3>3
  <2>4. Len(sent') <= Most'
    <3>1. Most \in Nat
      <4>1. Current.times = TimesAt(at)
        BY <1>0, TheColumns DEF Current
      <4>2. Current.times \in Nat
        BY <4>1, SmokeAssumption, EffectsAssumption DEF TimesAt
      <4>. QED  BY <4>2, SmokeAssumption DEF Most
    <3>. QED  BY <1>7, <1>8, <1>9, <1>13, <3>1
  <2>. QED  BY <1>8, <1>13, <2>1, <2>2, <2>3, <2>4 DEF SentOK
<1>18. RequestsFine'
  <2>1. \A d \in Calls \ {p} : RequestFine(d)'
    BY <1>0, <1>4, <1>10, <1>12, <1>15, FineKept DEF RequestsFine
  <2>2. RequestFine(p)'
    <3>1. RequestFine(p)
      BY <1>0, <1>1 DEF RequestsFine
    <3>2. pc' = pc /\ outcome' = outcome /\ used' = used /\ moment' = moment
      BY <1>5 DEF callVars
    <3>3. p \in Range(sent') /\ m \in SmokeMessages
      BY <1>0, <1>10 DEF m
    <3>. QED  BY <1>1, <1>4, <1>6, <3>1, <3>2, <3>3 DEF RequestFine
  <2>. QED  BY <2>1, <2>2 DEF RequestsFine
<1>19. ToldOK'
  <2>1. pc' = pc /\ outcome' = outcome /\ found' = found
    BY <1>5 DEF callVars
  <2>2. ASSUME NEW d \in Range(sent'), message'[d] = Good
        PROVE  /\ pc'[d] = "consume" => found'[d] \in Unspent' \/ Gone'
               /\ outcome'[d] # None /\ ~Won(d)' => Gone'
    <3>1. CASE d = p
      BY <1>6, <2>1, <3>1
    <3>2. CASE d # p
      <4>1. d \in Range(sent) /\ message[d] = Good
        BY <1>4, <1>10, <1>11, <2>2, <3>2
      <4>. QED  BY <1>0, <1>13, <1>14, <1>15, <2>1, <4>1 DEF ToldOK
    <3>. QED  BY <3>1, <3>2
  <2>. QED  BY <2>2 DEF ToldOK
<1>20. IsFiniteSet(Goods')
       /\ Cardinality(Goods') = Cardinality(Goods) + (IF Posting = Good THEN 1 ELSE 0)
  <2>1. IsFiniteSet(Goods) /\ p \notin Goods /\ Cardinality(Goods) \in Nat
    BY <1>0, <1>1, FS_CardinalityType DEF CountsOK, Goods
  <2>2. CASE Posting = Good
    <3>1. Goods' = Goods \cup {p}
      BY <1>1, <1>4, <1>7, <2>2 DEF Goods, m
    <3>. QED  BY <2>1, <2>2, <3>1, FS_AddElement
  <2>3. CASE Posting # Good
    <3>1. Goods' = Goods
      BY <1>1, <1>4, <1>7, <2>3 DEF Goods, m
    <3>. QED  BY <2>1, <2>3, <3>1
  <2>. QED  BY <2>2, <2>3
<1>21. CountsOK'
  <2>1. GoodsBefore' = GoodsBefore /\ GrantedBefore' = GrantedBefore
    BY DEF GoodsBefore, GrantedBefore
  <2>2. /\ IsFiniteSet(Goods) /\ Cardinality(Goods) \in Nat /\ GoodsBefore \in Nat
        /\ Cardinality(Goods) <= GoodsBefore + (IF Posting = Good THEN n ELSE 0)
    <3>1. /\ IsFiniteSet(Goods)
          /\ Cardinality(Goods) <= GoodsBefore + (IF Posting = Good THEN n ELSE 0)
      BY <1>0 DEF CountsOK, n
    <3>2. GoodsBefore \in Nat
      BY <1>0, SmokeAssumption DEF GoodsBefore
    <3>. QED  BY <3>1, <3>2, FS_CardinalityType
  <2>3. Cardinality(Goods') <= GoodsBefore' + (IF Posting' = Good THEN Len(sent') ELSE 0)
    BY <1>7, <1>8, <1>13, <1>20, <2>1, <2>2
  <2>. QED  BY <1>0, <1>12, <1>13, <1>20, <2>1, <2>3 DEF CountsOK
<1>22. StockOK'
  BY <1>0, <1>12, <1>13 DEF StockOK
<1>23. PlaceOK' /\ ScoresOK'
  BY <1>0, <1>13 DEF PlaceOK, ScoresOK
<1>24. RowsOK' /\ QuietOK'
  BY <1>0, <1>5, <1>12 DEF RowsOK, ForAgent, QuietOK, resetVars
<1>. QED  BY <1>17, <1>18, <1>19, <1>21, <1>22, <1>23, <1>24 DEF SmokeInv

\* A step of the script, whichever.
LEMMA ScriptKeepsScript ==
    ASSUME ServerOK, SmokeInv, ScriptStep
    PROVE  SmokeInv'
<1>1. Running
  BY DEF ScriptStep, EarlierGrant, Starts, DrainApprovals, AskForApproval, CountBefore,
         PostNext, Score, Running
<1>2. CASE DrainApprovals
  <2>1. phase = "drain" /\ InFlight = {} /\ UNCHANGED <<at, statuses, before, scores, leftover>>
    BY <1>2 DEF DrainApprovals
  <2>2. \/ /\ Current.drains /\ Len(sent) < MaxDrains /\ PostCall(Good) /\ UNCHANGED phase
        \/ phase' = "crashed"
        \/ /\ Current.drains => sent # <<>> /\ DecisionOf(Last(sent)) # "allowed"
           /\ phase' = "grant" /\ sent' = <<>> /\ UNCHANGED mcVars
    BY <1>2 DEF DrainApprovals, Good
  <2>3. CASE Current.drains /\ Len(sent) < MaxDrains /\ PostCall(Good) /\ UNCHANGED phase
    <3>1. Posting = Good /\ Most = MaxDrains /\ Width = 1
      BY <2>1 DEF Posting, Most, Width
    <3>2. Cardinality(InFlight) < Width
      BY <2>1, <3>1, FS_EmptySet
    <3>. QED  BY <1>1, <2>1, <2>3, <3>1, <3>2, PostingKeepsScript
  <2>4. CASE phase' = "crashed"
    BY <2>4 DEF SmokeInv, Running
  <2>5. CASE /\ Current.drains => sent # <<>> /\ DecisionOf(Last(sent)) # "allowed"
             /\ phase' = "grant" /\ sent' = <<>> /\ UNCHANGED mcVars
    BY <1>1, <2>1, <2>5, DrainedKeepsScript
  <2>. QED  BY <2>2, <2>3, <2>4, <2>5, Zenon
<1>3. CASE PostNext
  <2>1. /\ phase = "run" /\ Len(sent) < Current.times /\ Cardinality(InFlight) < Current.width
        /\ PostCall(Current.message)
        /\ UNCHANGED <<at, phase, statuses, before, scores, leftover>>
    BY <1>3 DEF PostNext
  <2>2. Posting = Current.message /\ Most = Current.times /\ Width = Current.width
    BY <2>1 DEF Posting, Most, Width
  <2>. QED  BY <1>1, <2>1, <2>2, PostingKeepsScript
<1>. QED  BY <1>1, <1>2, <1>3, EarlierGrantKeepsScript, StartsKeepsScript,
              AskForApprovalKeepsScript, CountBeforeKeepsScript, ScoreKeepsScript, Zenon
          DEF ScriptStep

\* The invariant is inductive beside that of the server.
LEMMA SmokeInvNext ==
    ASSUME ServerOK, SmokeInv, [SmokeNext]_smokeVars
    PROVE  SmokeInv'
<1>1. CASE SmokeOver
  BY <1>1, NothingKeepsScript DEF SmokeOver
<1>. QED  BY <1>1, ScriptKeepsScript, VisitorKeepsScript, ServerKeepsScript, NothingKeepsScript,
              Zenon DEF SmokeNext

\* It holds when the script starts.
LEMMA SmokeStarts == SmokeInit => ServerOK /\ SmokeInv
<1>. SUFFICES ASSUME SmokeInit PROVE ServerOK /\ SmokeInv
  OBVIOUS
<1>1. McInit /\ Init /\ StoreInit /\ EffectsInit /\ ConsoleInit
  BY DEF SmokeInit, McInit, Init
<1>2. ServerOK
  BY <1>1, McInitInv, McInitTypes, IInvInit, CeilingInit, OutcomesInit DEF ServerOK, J
<1>3. /\ at = 1 /\ phase = "arriving" /\ sent = <<>> /\ statuses = <<>>
      /\ before = 0 /\ scores = <<>> /\ leftover = 0
  BY DEF SmokeInit
<1>4. Running /\ Len(sent) = 0 /\ Len(statuses) = 0 /\ Range(sent) = {}
  BY <1>3 DEF Running, Range
<1>5. /\ \A c \in Calls : /\ stage[c] = "idle" /\ pc[c] = "idle" /\ outcome[c] = None
                          /\ moment[c] = 0 /\ used[c] = 0 /\ effect[c] = None
      /\ \A a \in ApprovalIds : approval[a] = Unissued
  BY <1>1 DEF McInit, EffectsInit, StoreInit
<1>6. Effects = {} /\ ApprovalRows = {} /\ Unspent = {} /\ Goods = {} /\ Created = {}
  <2>1. Goods = {}
    BY <1>5, SmokeAssumption DEF Goods, Probed, Range
  <2>2. Effects = {} /\ ApprovalRows = {}
    BY <1>5 DEF Effects, ApprovalRows
  <2>. QED  BY <1>3, <2>1, <2>2 DEF Unspent, Created
<1>7. IsFiniteSet({}) /\ Cardinality({}) = 0
  BY FS_EmptySet
<1>8. PlaceOK /\ ScoresOK
  <2>1. Len(Current.grants) \in Nat
    <3>1. Current.grants = GrantsAt(1)
      BY <1>3, TheColumns DEF Current
    <3>2. Len(GrantsAt(1)) \in Nat
      BY DEF GrantsAt
    <3>. QED  BY <3>1, <3>2
  <2>2. statuses = [i \in 1..Len(statuses) |-> IF MayGrant(Current.grants[i]) THEN 201 ELSE 401]
    BY <1>3
  <2>3. scores \in Seq({scores[i] : i \in DOMAIN scores}) /\ Len(scores) = 0 /\ DOMAIN scores = {}
    BY <1>3
  <2>4. statuses \in Seq({201, 401}) /\ leftover \in 0..MaxLeftover
    BY <1>3, SmokeAssumption
  <2>. QED  BY <1>3, <1>4, <2>1, <2>2, <2>3, <2>4 DEF PlaceOK, ScoresOK
<1>9. QuietOK
  BY <1>1 DEF QuietOK, StoreInit, ConsoleInit
<1>10. SentOK
  BY <1>3, <1>4 DEF SentOK
<1>11. RequestsFine
  BY <1>5 DEF RequestsFine, RequestFine
<1>12. RowsOK /\ ToldOK
  BY <1>4, <1>5, <1>6, StoreAssumption DEF RowsOK, ToldOK
<1>13. CountsOK
  BY <1>3, <1>4, <1>6, <1>7 DEF CountsOK, GoodsBefore, GrantedBefore
<1>14. StockOK
  BY <1>3, <1>6 DEF StockOK
<1>. QED  BY <1>2, <1>4, <1>8, <1>9, <1>10, <1>11, <1>12, <1>13, <1>14 DEF SmokeInv

-----------------------------------------------------------------------------
\* While the script runs against a server and visitors who are refused
\* (deployed_smoke.py:205-383), the server keeps its invariants, every
\* approval granted is spent or still to be spent, a refused credit means
\* that none is left, and each scenario starts from a known number of
\* effects and unspent approvals.
THEOREM SmokeInvariant == SmokeSpec => [](ServerOK /\ SmokeInv)
<1>1. SmokeInit => ServerOK /\ SmokeInv
  BY SmokeStarts
<1>2. (ServerOK /\ SmokeInv) /\ [SmokeNext]_smokeVars => (ServerOK /\ SmokeInv)'
  BY ScriptIsAClient, ServerKept, SmokeInvNext
<1>. QED  BY <1>1, <1>2, PTL DEF SmokeSpec

\* The two calls of F are raced for exactly one unconsumed approval
\* (deployed_smoke.py:328), whatever was left over, because drain_approvals
\* stops at the first answer that is not "allowed" and, below the ceiling,
\* that answer means an empty store.
THEOREM TheRaceIsDrained == SmokeSpec => []DrainedBeforeTheRace
<1>1. SmokeInv => DrainedBeforeTheRace
  <2>1. SUFFICES ASSUME SmokeInv, phase = "before", Current.drains
                 PROVE  Cardinality(Unspent) = 1
    BY DEF DrainedBeforeTheRace
  <2>2. Running
    BY <2>1 DEF Running
  <2>3. at \in 1..12 /\ StockOK
    BY <2>1, <2>2, ThePlace
  <2>4. at = 10
    BY <2>1, <2>3, TheColumns DEF Current
  <2>. QED  BY <2>1, <2>3, <2>4 DEF StockOK
<1>. QED  BY <1>1, SmokeInvariant, PTL

\* A run that gets to its end passes every scenario exactly when nobody had
\* left an approval behind: the only scenario that one can fail is C, whose
\* call has no approval of its own (deployed_smoke.py:291) and spends that one.
THEOREM TheSmokePassesFromACleanStart == SmokeSpec => []PassesExactlyFromACleanStart
<1>1. SmokeInv => PassesExactlyFromACleanStart
  <2>1. SUFFICES ASSUME SmokeInv, phase = "over"
                 PROVE  AllScenariosPass <=> leftover = 0
    BY DEF PassesExactlyFromACleanStart
  <2>2. PlaceOK /\ ScoresOK
    BY <2>1 DEF SmokeInv
  <2>3. DOMAIN scores = 1..12
    <3>. DEFINE R == {scores[i] : i \in DOMAIN scores}
    <3>1. scores \in Seq(R) /\ Len(scores) = at - 1 /\ at = 13
      BY <2>1, <2>2 DEF PlaceOK
    <3>. HIDE DEF R
    <3>. QED  BY <3>1
  <2>4. \A i \in 1..12 : scores[i].pass <=> (i = 8 => leftover = 0)
    BY <2>2, <2>3 DEF ScoresOK
  <2>. QED  BY <2>1, <2>3, <2>4 DEF AllScenariosPass
<1>. QED  BY <1>1, SmokeInvariant, PTL
==============================================================================
