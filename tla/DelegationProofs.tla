---------------------------- MODULE DelegationProofs ----------------------------
(***************************************************************************)
(* What a delegated token is allowed to do, for every set of principals    *)
(* and scopes, every cap on the chain and every number of hops.            *)
(***************************************************************************)
EXTENDS Delegation, SequenceTheorems, TLAPS

-----------------------------------------------------------------------------
(* What the server makes of a token.                                       *)

Link == [well_formed : BOOLEAN, sub : Holders,
         scope : [shape : {"text", "other"}, names : SUBSET Names]]

Token ==
    [ bytes : {1}, parses : {TRUE}, iss : {Issuer}, kid : {KeyId}, alg : {"EdDSA"},
      key : {OwnKey, ForeignKey}, missing : {{}}, iat : {0}, exp : {0 + Lifetime},
      sub : Holders, jti : {"jti"},
      aud : [shape : {"text", "other"}, names : SUBSET {Here, Elsewhere}],
      scope : [shape : {"text"}, names : SUBSET Names],
      act : Seq(Link) ]

\* The token is one the test authority mints, apart from its damage.
DInv == token \in Token /\ now \in Nat

\* An act claim has the links its indices say.
LEMMA ActIndices ==
    ASSUME NEW t \in Token
    PROVE  /\ t.act \in Seq(Link)
           /\ Len(t.act) \in Nat
           /\ DOMAIN t.act = 1..Len(t.act)
           /\ \A i \in DOMAIN t.act : t.act[i] \in Link
<1>1. t.act \in Seq(Link)
  BY DEF Token
<1>2. QED
  BY <1>1, LenProperties, ElementOfSeq

\* A scope is in every link of the chain the verifier builds when it is in
\* every act node, the chain being the nodes the other way round.
LEMMA ChainHolds ==
    ASSUME NEW t \in Token, NEW s
    PROVE  (\A i \in DOMAIN Chain(t).links : s \in Chain(t).links[i].scopes) <=>
             (\A i \in DOMAIN t.act : s \in Scopes(t.act[i].scope))
<1> DEFINE L == Chain(t).links
           n == Len(t.act)
<1>1. DOMAIN t.act = 1..n /\ n \in Nat
  BY ActIndices
<1>2. /\ DOMAIN L = DOMAIN t.act
      /\ \A i \in DOMAIN t.act : L[i].scopes = Scopes(t.act[n + 1 - i].scope)
  BY DEF Chain
<1>3. \A i \in DOMAIN t.act : n + 1 - i \in DOMAIN t.act /\ n + 1 - (n + 1 - i) = i
  BY <1>1
<1> HIDE DEF L, n
<1>4. ASSUME \A i \in DOMAIN L : s \in L[i].scopes, NEW i \in DOMAIN t.act
      PROVE  s \in Scopes(t.act[i].scope)
  <2>1. PICK j \in DOMAIN t.act : j = n + 1 - i /\ n + 1 - j = i
    BY <1>3
  <2>2. QED
    BY <1>2, <1>4, <2>1
<1>5. ASSUME \A i \in DOMAIN t.act : s \in Scopes(t.act[i].scope), NEW i \in DOMAIN L
      PROVE  s \in L[i].scopes
  BY <1>2, <1>3, <1>5
<1>6. QED
  BY <1>4, <1>5 DEF L

\* The bearer string is accepted as authentic.
Authentic(t, at) == VerificationFailure(t, at) = None

\* What a policy asks of an authentic token, before and besides its chain.
LEMMA PermittedIs ==
    ASSUME NEW t \in Token, NEW at
    PROVE  /\ Permitted(HARDENED, t, at) =
                {tool \in DOMAIN TOOL_SCOPES :
                    /\ Authentic(t, at)
                    /\ ~(t.exp <= at)
                    /\ Here \in t.aud.names
                    /\ TOOL_SCOPES[tool] \in Scopes(t.scope)
                    /\ \A i \in DOMAIN t.act : TOOL_SCOPES[tool] \in Scopes(t.act[i].scope)}
           /\ Permitted(NAIVE, t, at) =
                {tool \in DOMAIN TOOL_SCOPES :
                    /\ Authentic(t, at)
                    /\ ~(t.exp <= at)
                    /\ TOOL_SCOPES[tool] \in Scopes(t.scope)}
<1> DEFINE c == VerifyToken(t, at).claims
<1>1. /\ VerifyToken(t, at).failure = VerificationFailure(t, at)
      /\ c.scopes = Scopes(t.scope)
      /\ c.audience = t.aud.names
      /\ c.expires_at = t.exp
      /\ c.chain = Chain(t).links
  BY DEF VerifyToken
<1> HIDE DEF c
<1>2. ASSUME NEW policy, NEW tool \in DOMAIN TOOL_SCOPES
      PROVE  Authorize(policy, VerifyToken(t, at), tool, Here, at).decision = "allowed" <=>
                Authentic(t, at) /\ Refusal(policy, c, tool, Here, at) = None
  BY <1>1 DEF Authorize, Authentic, c
<1>3. ASSUME NEW policy, NEW tool \in DOMAIN TOOL_SCOPES
      PROVE  Refusal(policy, c, tool, Here, at) = None <=>
                /\ ~(t.exp <= at)
                /\ ~(policy.check_audience /\ Here \notin t.aud.names)
                /\ TOOL_SCOPES[tool] \in EffectiveScopes(c, policy.attenuate_chain)
  BY <1>1, NoneAssumption DEF Refusal, DENIAL_REASONS
<1>4. \A s : /\ s \in EffectiveScopes(c, TRUE) <=>
                   s \in Scopes(t.scope) /\ \A i \in DOMAIN t.act : s \in Scopes(t.act[i].scope)
             /\ s \in EffectiveScopes(c, FALSE) <=> s \in Scopes(t.scope)
  BY <1>1, ChainHolds DEF EffectiveScopes
<1>5. /\ HARDENED.check_audience = TRUE /\ HARDENED.attenuate_chain = TRUE
      /\ NAIVE.check_audience = FALSE /\ NAIVE.attenuate_chain = FALSE
  BY DEF HARDENED, NAIVE
<1> HIDE DEF c
<1>6. \A tool \in DOMAIN TOOL_SCOPES :
        /\ Authorize(HARDENED, VerifyToken(t, at), tool, Here, at).decision = "allowed" <=>
             /\ Authentic(t, at)
             /\ ~(t.exp <= at)
             /\ Here \in t.aud.names
             /\ TOOL_SCOPES[tool] \in Scopes(t.scope)
             /\ \A i \in DOMAIN t.act : TOOL_SCOPES[tool] \in Scopes(t.act[i].scope)
        /\ Authorize(NAIVE, VerifyToken(t, at), tool, Here, at).decision = "allowed" <=>
             /\ Authentic(t, at)
             /\ ~(t.exp <= at)
             /\ TOOL_SCOPES[tool] \in Scopes(t.scope)
  BY <1>2, <1>3, <1>4, <1>5
<1>7. QED
  BY <1>6 DEF Permitted

\* A token is authentic when its key is the issuer's, it is not expired, its
\* audience is readable and so are all the links of its chain.
LEMMA AuthenticIs ==
    ASSUME NEW t \in Token, NEW at \in Nat
    PROVE  Authentic(t, at) <=>
             /\ Issuer \in DOMAIN JwksByIssuer
             /\ KeyId \in DOMAIN JwksByIssuer[Issuer]
             /\ t.key = JwksByIssuer[Issuer][KeyId]
             /\ ~(t.exp <= at)
             /\ t.aud.shape = "text"
             /\ Len(t.act) <= MaxChainLinks
             /\ \A i \in DOMAIN t.act : t.act[i].well_formed
<1>1. /\ t.bytes = 1 /\ t.parses = TRUE /\ t.iss = Issuer /\ t.kid = KeyId /\ t.alg = "EdDSA"
      /\ t.missing = {} /\ t.iat = 0 /\ t.aud.shape \in {"text", "other"}
  BY DEF Token
<1>2. None \notin {"token_malformed", "issuer_unknown", "signature_invalid", "token_expired",
                   "delegation_malformed"}
  BY NoneAssumption DEF DENIAL_REASONS
<1>3. NoCandidateKey(t) = None <=>
         Issuer \in DOMAIN JwksByIssuer /\ KeyId \in DOMAIN JwksByIssuer[Issuer]
  BY <1>1, <1>2, TokensAssumption DEF NoCandidateKey
<1>4. JwtDecodeFailure(t, at) = None <=> t.key = JwksByIssuer[Issuer][KeyId] /\ ~(t.exp <= at)
  BY <1>1, <1>2 DEF JwtDecodeFailure, ALGORITHMS
<1>5. Chain(t).failure = None <=>
         /\ Len(t.act) <= MaxChainLinks
         /\ \A i \in DOMAIN t.act : t.act[i].well_formed
  BY <1>2, ActIndices, TokensAssumption DEF Chain
<1>6. QED
  BY <1>1, <1>2, <1>3, <1>4, <1>5 DEF Authentic, VerificationFailure

-----------------------------------------------------------------------------
(* The steps.                                                              *)

\* A function on 1..n is a sequence of length n.
LEMMA FunctionIsSeq ==
    ASSUME NEW S, NEW n \in Nat, NEW f \in [1..n -> S]
    PROVE  f \in Seq(S) /\ Len(f) = n
<1>1. f \in Seq(S)
  BY SeqDef
<1>2. DOMAIN f = 1..n /\ DOMAIN f = 1..Len(f) /\ Len(f) \in Nat
  BY <1>1, LenProperties
<1>3. QED
  BY <1>1, <1>2

\* A delegated token: the holder's own claim becomes the outermost link.
LEMMA Delegated ==
    ASSUME DInv, NEW h \in Holders, NEW claimed \in SUBSET Names, Delegate(h, claimed)
    PROVE  /\ token' \in Token
           /\ token'.aud = token.aud
           /\ token'.key = OwnKey
           /\ Len(token'.act) = Len(token.act) + 1
           /\ token'.act[1] = Node(token.sub, token.scope.names)
           /\ \A i \in 1..Len(token.act) :
                 token'.act[i + 1] = Node(token.act[i].sub, token.act[i].scope.names)
<1> DEFINE n == Len(token.act)
           Step == [subject : Holders, scopes : SUBSET Names]
           last == [subject |-> token.sub, scopes |-> token.scope.names]
           chain == Append(ChainOf(token), last)
           act == [i \in 1..(n + 1) |->
                     Node(chain[n + 2 - i].subject, chain[n + 2 - i].scopes)]
<1>1. /\ token \in Token
      /\ n \in Nat
      /\ DOMAIN token.act = 1..n
      /\ \A i \in 1..n : token.act[i] \in Link
  BY ActIndices DEF DInv
<1>2. last \in Step
  BY <1>1 DEF Token
<1>3. /\ ChainOf(token) \in [1..n -> Step]
      /\ \A i \in 1..n : ChainOf(token)[i] = [subject |-> token.act[n + 1 - i].sub,
                                              scopes |-> token.act[n + 1 - i].scope.names]
  BY <1>1 DEF ChainOf, Link
<1>4. ChainOf(token) \in Seq(Step) /\ Len(ChainOf(token)) = n
  BY <1>1, <1>3, FunctionIsSeq
<1> HIDE DEF n, last, Step
<1>5. /\ chain \in Seq(Step)
      /\ Len(chain) = n + 1
      /\ chain[n + 1] = last
      /\ \A i \in 1..n : chain[i] = ChainOf(token)[i]
  BY <1>1, <1>2, <1>4
<1> HIDE DEF chain
<1>6. DOMAIN chain = 1..(n + 1) /\ \A i \in 1..(n + 1) : chain[i] \in Step
  BY <1>1, <1>5, LenProperties, ElementOfSeq
<1>7. act = [i \in DOMAIN chain |-> LET link == chain[Len(chain) + 1 - i]
                                    IN  Node(link.subject, link.scopes)]
  BY <1>1, <1>5, <1>6
<1> HIDE DEF act
<1>8. \A i \in 1..(n + 1) : act[i] = Node(chain[n + 2 - i].subject, chain[n + 2 - i].scopes)
  BY DEF act
<1>9. token' \in [ bytes : {1}, parses : {TRUE}, iss : {Issuer}, kid : {KeyId}, alg : {"EdDSA"},
                key : {OwnKey}, missing : {{}}, iat : {0}, exp : {0 + Lifetime},
                sub : {h}, jti : {"jti"}, aud : {token.aud}, scope : {Text(claimed)},
                act : {act} ]
  <2> DEFINE m == Mint(h, Here, claimed, Lifetime, 0)
             d == MintDelegated(chain, h, Here, claimed, Lifetime, 0)
  <2>1. m \in [ bytes : {1}, parses : {TRUE}, iss : {Issuer}, kid : {KeyId}, alg : {"EdDSA"},
               key : {OwnKey}, missing : {{}}, iat : {0}, exp : {0 + Lifetime},
               sub : {h}, jti : {"jti"}, aud : {Text({Here})}, scope : {Text(claimed)},
               act : {<<>>} ]
    BY DEF Mint
  <2>2. d = [m EXCEPT !.act = act]
    BY <1>7 DEF MintDelegated
  <2> HIDE DEF m, d
  <2>3. d \in [ bytes : {1}, parses : {TRUE}, iss : {Issuer}, kid : {KeyId}, alg : {"EdDSA"},
               key : {OwnKey}, missing : {{}}, iat : {0}, exp : {0 + Lifetime},
               sub : {h}, jti : {"jti"}, aud : {Text({Here})}, scope : {Text(claimed)},
               act : {act} ]
    BY <2>1, <2>2
  <2>4. token' = [d EXCEPT !.aud = token.aud]
    BY DEF Delegate, chain, last, d
  <2>5. QED
    BY <2>3, <2>4
<1>10. act \in Seq(Link) /\ Len(act) = n + 1
  <2>1. ASSUME NEW i \in 1..(n + 1)
        PROVE  act[i] \in Link
    <3>1. n + 2 - i \in 1..(n + 1)
      BY <1>1
    <3>2. chain[n + 2 - i].subject \in Holders /\ chain[n + 2 - i].scopes \in SUBSET Names
      BY <1>6, <3>1 DEF Step
    <3>3. Text(chain[n + 2 - i].scopes) \in [shape : {"text", "other"}, names : SUBSET Names]
      BY <3>2 DEF Text
    <3>4. Node(chain[n + 2 - i].subject, chain[n + 2 - i].scopes) \in Link
      BY <3>2, <3>3 DEF Node, Link
    <3>5. QED
      BY <1>8, <3>4
  <2>2. act \in [1..(n + 1) -> Link]
    BY <2>1 DEF act
  <2>3. QED
    BY <1>1, <2>2, FunctionIsSeq
<1>11. token' \in Token
  <2>1. token.aud \in [shape : {"text", "other"}, names : SUBSET {Here, Elsewhere}]
    BY <1>1 DEF Token
  <2>2. Text(claimed) \in [shape : {"text"}, names : SUBSET Names]
    BY DEF Text
  <2>3. QED
    BY <1>9, <1>10, <2>1, <2>2 DEF Token
<1>12. act[1] = Node(token.sub, token.scope.names)
  BY <1>1, <1>5, <1>8 DEF last
<1>13. ASSUME NEW i \in 1..n
       PROVE  act[i + 1] = Node(token.act[i].sub, token.act[i].scope.names)
  <2>1. i + 1 \in 1..(n + 1) /\ n + 2 - (i + 1) = n + 1 - i /\ n + 1 - i \in 1..n
        /\ n + 1 - (n + 1 - i) = i
    BY <1>1
  <2>2. chain[n + 1 - i] = [subject |-> token.act[i].sub, scopes |-> token.act[i].scope.names]
    BY <1>3, <1>5, <2>1
  <2>3. QED
    BY <1>8, <2>1, <2>2
<1>14. QED
  BY <1>9, <1>10, <1>11, <1>12, <1>13 DEF n

\* What damage makes of a token is a token, and one nothing is permitted to.
LEMMA DamagedForever ==
    ASSUME NEW d \in Token, NEW at \in Nat,
           \/ d.key = ForeignKey
           \/ d.aud.shape = "other"
           \/ \E i \in DOMAIN d.act : ~d.act[i].well_formed \/ d.act[i].scope.shape = "other"
    PROVE  Permitted(HARDENED, d, at) = {}
<1>1. SUFFICES ASSUME NEW tool \in Permitted(HARDENED, d, at) PROVE FALSE
  OBVIOUS
<1>2. /\ Authentic(d, at)
      /\ \A i \in DOMAIN d.act : TOOL_SCOPES[tool] \in Scopes(d.act[i].scope)
  BY <1>1, PermittedIs
<1>3. /\ Issuer \in DOMAIN JwksByIssuer
      /\ KeyId \in DOMAIN JwksByIssuer[Issuer]
      /\ d.key = JwksByIssuer[Issuer][KeyId]
      /\ d.aud.shape = "text"
      /\ \A i \in DOMAIN d.act : d.act[i].well_formed
  BY <1>2, AuthenticIs
<1>4. d.key # ForeignKey
  BY <1>3, TestAuthorityAssumption
<1>5. PICK i \in DOMAIN d.act : d.act[i].scope.shape = "other"
  BY <1>3, <1>4
<1>6. Scopes(d.act[i].scope) = {}
  BY <1>5 DEF Scopes
<1>7. QED
  BY <1>2, <1>6

\* Replacing a node of the chain.
LEMMA NodeReplaced ==
    ASSUME NEW t \in Token, NEW i \in DOMAIN t.act, NEW node \in Link
    PROVE  LET d == [t EXCEPT !.act = [t.act EXCEPT ![i] = node]]
           IN  d \in Token /\ i \in DOMAIN d.act /\ d.act[i] = node
<1> DEFINE act == [t.act EXCEPT ![i] = node]
           d == [t EXCEPT !.act = act]
<1>1. t.act \in Seq(Link) /\ DOMAIN t.act = 1..Len(t.act)
  BY ActIndices
<1>2. act \in Seq(Link) /\ Len(act) = Len(t.act) /\ act[i] = node
  BY <1>1, ExceptSeq
<1>3. DOMAIN act = DOMAIN t.act
  OBVIOUS
<1> HIDE DEF act
<1>4. d \in Token /\ d.act = act
  BY <1>2 DEF Token
<1>5. QED
  BY <1>2, <1>3, <1>4 DEF act

LEMMA Damaged ==
    ASSUME DInv, Damage
    PROVE  /\ token' \in Token
           /\ \A at \in Nat : Permitted(HARDENED, token', at) = {}
<1>1. token \in Token
  BY DEF DInv
<1>2. CASE token' = Forged(token)
  <2>1. token' \in Token /\ token'.key = ForeignKey
    BY <1>1, <1>2 DEF Forged, Token
  <2>2. QED
    BY <2>1, DamagedForever
<1>3. CASE token' = WithOddAudience(token)
  <2>1. token' \in Token /\ token'.aud.shape = "other"
    BY <1>1, <1>3 DEF WithOddAudience, Token
  <2>2. QED
    BY <2>1, DamagedForever
<1>4. ASSUME NEW i \in DOMAIN token.act,
             token' \in {WithBrokenLink(token, i), WithOddScope(token, i)}
      PROVE  /\ token' \in Token
             /\ \A at \in Nat : Permitted(HARDENED, token', at) = {}
  <2> DEFINE node == token.act[i]
             broken == [node EXCEPT !.well_formed = FALSE]
             odd == [node EXCEPT !.scope.shape = "other"]
  <2>1. node \in Link
    BY <1>1, ActIndices
  <2>2. /\ broken \in Link /\ ~broken.well_formed
        /\ odd \in Link /\ odd.scope.shape = "other"
    <3> HIDE DEF node
    <3>1. QED
      BY <2>1 DEF Link
  <2>3. PICK n \in {broken, odd} : token' = [token EXCEPT !.act = [token.act EXCEPT ![i] = n]]
    BY <1>4 DEF WithBrokenLink, WithOddScope
  <2> HIDE DEF broken, odd, node
  <2>4. token' \in Token /\ i \in DOMAIN token'.act /\ token'.act[i] = n
    BY <1>1, <1>4, <2>2, <2>3, NodeReplaced
  <2>5. ~n.well_formed \/ n.scope.shape = "other"
    BY <2>2, <2>3
  <2>6. QED
    BY <2>4, <2>5, DamagedForever
<1>5. QED
  BY <1>2, <1>3, <1>4 DEF Damage

\* One more hop permits nothing new, whatever its leaf claims.
LEMMA HopShrinks ==
    ASSUME DInv, NEW h \in Holders, NEW claimed \in SUBSET Names, Delegate(h, claimed)
    PROVE  Permitted(HARDENED, token', now) \subseteq Permitted(HARDENED, token, now)
<1> DEFINE n == Len(token.act)
<1>1. /\ token \in Token /\ token' \in Token /\ now \in Nat
      /\ token'.aud = token.aud
      /\ token'.key = OwnKey
      /\ Len(token'.act) = n + 1
      /\ token'.act[1] = Node(token.sub, token.scope.names)
      /\ \A i \in 1..n : token'.act[i + 1] = Node(token.act[i].sub, token.act[i].scope.names)
  BY Delegated DEF DInv
<1>2. /\ n \in Nat /\ DOMAIN token.act = 1..n /\ DOMAIN token'.act = 1..(n + 1)
  BY <1>1, ActIndices
<1>3. /\ token.key = OwnKey
      /\ \A i \in 1..n : token.act[i].well_formed /\ token.act[i].scope.shape = "text"
      /\ token.scope.shape = "text"
      /\ token.exp = token'.exp
  BY <1>1, <1>2 DEF Delegate, Intact, Token
<1>4. SUFFICES ASSUME NEW tool \in Permitted(HARDENED, token', now)
               PROVE  tool \in Permitted(HARDENED, token, now)
  OBVIOUS
<1> DEFINE s == TOOL_SCOPES[tool]
<1>5. /\ tool \in DOMAIN TOOL_SCOPES
      /\ Authentic(token', now)
      /\ ~(token'.exp <= now)
      /\ Here \in token'.aud.names
      /\ \A i \in 1..(n + 1) : s \in Scopes(token'.act[i].scope)
  BY <1>1, <1>2, <1>4, PermittedIs
<1> HIDE DEF s
<1>6. Authentic(token, now)
  <2>1. /\ Issuer \in DOMAIN JwksByIssuer
        /\ KeyId \in DOMAIN JwksByIssuer[Issuer]
        /\ token'.key = JwksByIssuer[Issuer][KeyId]
        /\ token'.aud.shape = "text"
        /\ n + 1 <= MaxChainLinks
    BY <1>1, <1>5, AuthenticIs
  <2>2. n <= MaxChainLinks
    BY <1>2, <2>1, TokensAssumption
  <2>3. QED
    BY <1>1, <1>2, <1>3, <1>5, <2>1, <2>2, AuthenticIs
<1>7. s \in Scopes(token.scope)
  <2>1. s \in Scopes(Text(token.scope.names))
    BY <1>1, <1>2, <1>5 DEF Node
  <2>2. QED
    BY <1>3, <2>1 DEF Text, Scopes
<1>8. ASSUME NEW i \in 1..n
      PROVE  s \in Scopes(token.act[i].scope)
  <2>1. i + 1 \in 1..(n + 1)
    BY <1>2
  <2>2. token'.act[i + 1] = Node(token.act[i].sub, token.act[i].scope.names)
    BY <1>1
  <2>3. Node(token.act[i].sub, token.act[i].scope.names).scope = Text(token.act[i].scope.names)
    BY DEF Node
  <2>4. s \in Scopes(Text(token.act[i].scope.names))
    BY <1>5, <2>1, <2>2, <2>3
  <2>5. QED
    BY <1>3, <2>4 DEF Text, Scopes
<1>9. /\ token \in Token
      /\ ~(token.exp <= now)
      /\ Here \in token.aud.names
      /\ s \in Scopes(token.scope)
      /\ \A i \in DOMAIN token.act : s \in Scopes(token.act[i].scope)
  BY <1>1, <1>2, <1>3, <1>5, <1>7, <1>8
<1>10. Permitted(HARDENED, token, now) =
          {other \in DOMAIN TOOL_SCOPES :
              /\ Authentic(token, now)
              /\ ~(token.exp <= now)
              /\ Here \in token.aud.names
              /\ TOOL_SCOPES[other] \in Scopes(token.scope)
              /\ \A i \in DOMAIN token.act :
                    TOOL_SCOPES[other] \in Scopes(token.act[i].scope)}
  BY <1>9, PermittedIs
<1>11. QED
  BY <1>5, <1>6, <1>9, <1>10 DEF s

\* Time only takes away.
LEMMA TimeShrinks ==
    ASSUME NEW t \in Token, NEW at \in Nat
    PROVE  Permitted(HARDENED, t, at + 1) \subseteq Permitted(HARDENED, t, at)
<1>1. t.exp \in Int
  BY DelegationAssumption DEF Token
<1>2. ~(t.exp <= at + 1) => ~(t.exp <= at)
  BY <1>1
<1>3. Authentic(t, at + 1) => Authentic(t, at)
  BY <1>2, AuthenticIs
<1>4. QED
  BY <1>2, <1>3, PermittedIs

-----------------------------------------------------------------------------
LEMMA DelegationStarts == DelegationInit => DInv
<1>1. SUFFICES ASSUME DelegationInit PROVE token \in Token
  BY DEF DelegationInit, DInv
<1>2. PICK h \in Holders, claimed \in SUBSET Names, aud \in {Here, Elsewhere} :
         token = Mint(h, aud, claimed, Lifetime, 0)
  BY <1>1 DEF DelegationInit
<1>3. /\ Text({aud}) \in [shape : {"text", "other"}, names : SUBSET {Here, Elsewhere}]
      /\ Text(claimed) \in [shape : {"text"}, names : SUBSET Names]
      /\ <<>> \in Seq(Link)
  BY DEF Text
<1>4. QED
  BY <1>2, <1>3 DEF Mint, Token

LEMMA DelegationSteps ==
    ASSUME DInv, [DelegationNext]_delegationVars
    PROVE  /\ DInv'
           /\ [Permitted(HARDENED, token, now)' \subseteq Permitted(HARDENED, token, now)]_delegationVars
<1>1. /\ token \in Token
      /\ now \in Nat
  BY DEF DInv
<1>2. CASE \E h \in Holders, claimed \in SUBSET Names : Delegate(h, claimed)
  <2>1. PICK h \in Holders, claimed \in SUBSET Names : Delegate(h, claimed)
    BY <1>2
  <2>2. now' = now /\ token' \in Token
    BY <2>1, Delegated DEF Delegate
  <2>3. QED
    BY <1>1, <2>1, <2>2, HopShrinks DEF DInv
<1>3. CASE Damage
  <2>1. now' = now /\ token' \in Token /\ Permitted(HARDENED, token', now) = {}
    BY <1>1, <1>3, Damaged DEF Damage
  <2>2. QED
    BY <1>1, <2>1 DEF DInv
<1>4. CASE Second
  <2>1. now' = now + 1 /\ token' = token
    BY <1>4 DEF Second
  <2>2. Permitted(HARDENED, token, now + 1) \subseteq Permitted(HARDENED, token, now)
    BY <1>1, TimeShrinks
  <2>3. QED
    BY <1>1, <2>1, <2>2 DEF DInv
<1>5. CASE UNCHANGED delegationVars
  BY <1>5 DEF delegationVars, DInv
<1>6. QED
  BY <1>2, <1>3, <1>4, <1>5 DEF DelegationNext

\* However a token is delegated, damaged or forged, it stays of a shape the
\* test authority mints.
THEOREM DelegationTypes == DelegationSpec => []DInv
<1>1. DelegationInit => DInv
  BY DelegationStarts
<1>2. DInv /\ [DelegationNext]_delegationVars => DInv'
  BY DelegationSteps
<1>3. QED
  BY <1>1, <1>2, PTL DEF DelegationSpec

\* Authority only shrinks on the way: no hop, whatever its leaf claims, no
\* damage to the token and no passing of time permits a tool that was not
\* permitted before (authz.effective_scopes: "it is monotone").
THEOREM DelegationIsMonotone == DelegationSpec => AuthorityOnlyShrinks
<1>1. DInv /\ [DelegationNext]_delegationVars =>
        [Permitted(HARDENED, token, now)' \subseteq Permitted(HARDENED, token, now)]_delegationVars
  BY DelegationSteps
<1>2. QED
  BY <1>1, DelegationTypes, PTL DEF DelegationSpec, AuthorityOnlyShrinks

\* The hardened policy permits what the naive one does, less what is addressed
\* elsewhere and what an ancestor lacked (authz.authorize: the comparison is a
\* difference in the policy).
THEOREM PoliciesDifferByTwoChecks == DelegationSpec => []HardenedIsNaiveLessTwo
<1>1. DInv => HardenedIsNaiveLessTwo
  BY PermittedIs DEF HardenedIsNaiveLessTwo, DInv
<1>2. QED
  BY <1>1, DelegationTypes, PTL
===============================================================================
