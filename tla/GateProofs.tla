----------------------------- MODULE GateProofs -----------------------------
(***************************************************************************)
(* The gate over the matrix (gate_matrix.py) passes exactly when no token  *)
(* of the build ran out before it was presented, and the audit trail and   *)
(* the effect table always agree.                                          *)
(*                                                                         *)
(* A turn writes its rows at its end only.  What they say follows from     *)
(* three things its calls find: the token the setup minted, which the      *)
(* policy judges the same at any moment until it expires, the one approval *)
(* the setup recorded, and whether a call of the turn came before.  So     *)
(* every call is told what the published row says, or that its token has   *)
(* expired, and the rows written so far are the first of those published   *)
(* unless one of them says that.  Calls and approval ids are drawn in      *)
(* order, which is what lets the driver count the calls of its turn.       *)
(*                                                                         *)
(* First the sums, the sequences and the tables of the artifacts, then     *)
(* what each policy says of each token, then the statements of a call, and *)
(* the invariant at the end.                                               *)
(***************************************************************************)
EXTENDS MatrixProofs, SequenceTheorems, WellFoundedInduction
\* The calls of this turn that have begun, and those of the turns before it.
Mine == {c \in Calls : pc[c] \in Naive!Active \cup {"raised"} \/ audit[c] # None}
Begun == Calls \ Fresh
Past == IF phase = "calling" THEN Begun \ Mine ELSE Begun

\* How many calls the turns before t make, and how many approvals their
\* hardened halves leave.
CallsBefore(t) == t - 1 + (IF t = 12 THEN 1 ELSE IF t = 13 THEN 2 ELSE 0)
ShownBefore(t) == IF t <= 7 THEN (t - 1) \div 2 ELSE IF t <= 10 THEN 3 ELSE (t - 3) \div 2

\* The reason the n-th call of turn t gets while its token is live, and the
\* one any call gets.
ReasonOf(t, n) == IF n < ScenarioAt(t).calls THEN None ELSE PublishedRows[t].reason
Rank(c) == IF \A d \in Mine : c <= d THEN 1 ELSE 2
Late(c) == ~(moment[c] < req[c].token.exp)
Told(c) == IF Late(c) THEN "token_expired" ELSE ReasonOf(turn, Rank(c))
DecisionFor(reason) == IF reason = None THEN "allowed" ELSE "denied"

\* The token of the turn was minted at a moment that has passed, and this is
\* what the policy says of it from then on.
MintedAt == token.exp - TokenLifetime
VerdictOf(now) == IF PolicyAt(turn) = NAIVE THEN Naive!VerdictOn(TheRequest(token), now)
                                            ELSE Hardened!VerdictOn(TheRequest(token), now)
ReasonAt(now) == IF now >= token.exp THEN "token_expired"
                 ELSE IF RefusedTurn(turn) THEN ReasonOf(turn, 1) ELSE None
JudgedOK ==
    /\ token.exp \in Int /\ MintedAt <= clock /\ token.sub = Agent
    /\ ChainOf(token) = PublishedChains[(turn + 1) \div 2]
    /\ \A now \in Int : now >= MintedAt =>
          /\ VerdictOf(now).reason = ReasonAt(now)
          /\ VerdictOf(now).decision = DecisionFor(ReasonAt(now))
          /\ VerdictOf(now).subject \in {Agent, None}

\* The one approval of the turn, until the one effect spends it.
RecordedOK ==
    LET ttl == ScenarioAt(turn).approval_ttl IN
    /\ ApprovalRows = {} <=> ttl = None
    /\ \A a \in ApprovalRows :
          /\ approval[a].expires_at = MintedAt + ttl
          /\ approval[a].consumed_at # None <=> Effects # {}

\* A call of the turn is told what it should be, after those before it.
AnsweredOK(c) ==
    /\ outcome[c].reason = Told(c)
    /\ outcome[c].decision = DecisionFor(Told(c))
    /\ outcome[c].approval_id \in ApprovalIds \cup {None}
    /\ outcome[c].effect_id = IF Told(c) = None THEN c ELSE None
CallOK(c) ==
    /\ pc[c] \in Naive!Active \cup Naive!Ended
    /\ req[c] = TheRequest(token)
    /\ MintedAt <= moment[c] /\ moment[c] <= clock
    /\ \A d \in Mine : c < d => pc[c] = "returned" /\ moment[c] <= moment[d]
    /\ pc[c] \in {"lookup", "consume", "insert"} => ~Late(c) /\ ~RefusedTurn(turn)
    /\ pc[c] \in {"consume", "insert"} => Told(c) = None /\ Consumable(found[c])
    /\ pc[c] \in {"commit", "returned", "lost"} => AnsweredOK(c)
    /\ audit[c] # None <=> pc[c] \in {"returned", "lost"}
    /\ audit[c] # None => /\ audit[c].decision = outcome[c].decision
                          /\ audit[c].reason = outcome[c].reason
                          /\ audit[c].effect_id = outcome[c].effect_id
    /\ effect[c] # None <=> audit[c] # None /\ Told(c) = None
CallsOK ==
    /\ IsFiniteSet(Mine) /\ Cardinality(Mine) <= ScenarioAt(turn).calls
    /\ \A c \in Mine : CallOK(c)
    /\ Effects \subseteq Mine

\* What is written of the turns before: the published numbers as long as no
\* call was late, and a row that says so when one was.
WrittenOK ==
    /\ chains = SubSeq(PublishedChains, 1, (turn - 1) \div 2)
    /\ (\A c \in Past : ~Late(c)) =>
          /\ results = SubSeq(PublishedRows, 1, turn - 1)
          /\ trail = SubSeq(PublishedTrail, 1, CallsBefore(turn))
          /\ shown = SubSeq(PublishedApprovals, 1, ShownBefore(turn))
    /\ (\E c \in Past : Late(c)) => \E t \in DOMAIN results : results[t].reason = "token_expired"
    /\ trail \in Seq({trail[i] : i \in DOMAIN trail})
    /\ Len(trail) = CallsBefore(turn)
    /\ \A policy \in {NAIVE, HARDENED} : EffectsByPolicy(trail, policy) = Total(results, policy)

\* The calls come one after the other, and the approvals one per turn.
Drawn == {a \in ApprovalIds : approval[a] # Unissued}
PastOK ==
    /\ IsOver(req, Calls) /\ IsOver(audit, Calls)
    /\ \A c \in Begun, d \in Fresh : c < d
    /\ \A c \in Past : pc[c] = "returned"
    /\ phase = "calling" => \A c \in Past, d \in Mine : c < d
    /\ phase = "setup" => Mine = {}
    /\ IsFiniteSet(Past) /\ Cardinality(Past) = CallsBefore(turn)
    /\ IsFiniteSet(Drawn)
    /\ Cardinality(Drawn) <= IF phase = "calling" THEN turn ELSE turn - 1

GateInv ==
    phase # "failed" =>
      /\ PastOK /\ WrittenOK
      /\ phase # "calling" => Pending = {}
      /\ phase = "done" => turn = 13
      /\ phase = "calling" => JudgedOK /\ RecordedOK /\ CallsOK
-----------------------------------------------------------------------------
(* Sums, sequences and the least and the greatest of a set.                *)

\* A set of naturals that is not empty has a least element.
LEMMA LeastOfSome ==
    ASSUME NEW S, S \subseteq Nat, S # {}
    PROVE  \E n \in S : \A m \in S : n <= m
<1>. DEFINE Less == {pair \in Nat \X Nat : pair[1] < pair[2]}
<1>1. IsWellFoundedOn(Less, Nat)
  BY NatLessThanWellFounded, Zenon DEF OpToRel
<1>2. PICK n \in S : \A m \in S : ~ (<<m, n>> \in Less)
  BY <1>1, WFMin, Zenon
<1>3. ASSUME NEW m \in S PROVE n <= m
  <2>1. <<m, n>> \in Nat \X Nat /\ <<m, n>>[1] = m /\ <<m, n>>[2] = n
    OBVIOUS
  <2>2. <<m, n>> \notin Less
    BY <1>2
  <2>. QED  BY <2>1, <2>2
<1>. QED  BY <1>3

\* What SumFunctionOnSet computes for the subsets of a set, one element after
\* the other in the order CHOOSE takes them.
One(s) == CHOOSE x \in s : TRUE
Adds(f, s, g) == IF s = {} THEN 0 ELSE f[One(s)] + g[s \ {One(s)}]
IsSum(g, f, sets) == g = [s \in sets |-> Adds(f, s, g)]
UpTo(S, n) == {s \in SUBSET S : Cardinality(s) <= n}

LEMMA OneLess ==
    ASSUME NEW S, IsFiniteSet(S), NEW s \in SUBSET S, s # {}
    PROVE  /\ One(s) \in s /\ s \ {One(s)} \in SUBSET S /\ IsFiniteSet(s \ {One(s)})
           /\ Cardinality(s) \in Nat \ {0} /\ Cardinality(s \ {One(s)}) = Cardinality(s) - 1
<1>1. IsFiniteSet(s)
  BY FS_Subset
<1>2. One(s) \in s
  BY DEF One
<1>3. Cardinality(s) \in Nat /\ Cardinality(s) # 0
  BY <1>1, FS_CardinalityType, FS_EmptySet
<1>. QED  BY <1>1, <1>2, <1>3, FS_RemoveElement

LEMMA SumsExist ==
    ASSUME NEW f, NEW S, IsFiniteSet(S)
    PROVE  \E g : IsSum(g, f, SUBSET S)
<1>. DEFINE Bad == {n \in Nat : ~ \E g : IsSum(g, f, UpTo(S, n))}
<1>1. ASSUME Bad # {} PROVE FALSE
  <2>1. PICK n \in Bad : \A m \in Bad : n <= m
    BY <1>1, LeastOfSome
  <2>2. CASE n = 0
    <3>. DEFINE g == [s \in UpTo(S, 0) |-> 0]
    <3>1. \A s \in UpTo(S, 0) : s = {}
      <4>1. ASSUME NEW s \in UpTo(S, 0), s # {} PROVE FALSE
        <5>1. s \in SUBSET S /\ Cardinality(s) <= 0
          BY <4>1 DEF UpTo
        <5>2. Cardinality(s) \in Nat \ {0}
          BY <4>1, <5>1, OneLess
        <5>. QED  BY <5>1, <5>2
      <4>. QED  BY <4>1
    <3>2. \A s \in UpTo(S, 0) : Adds(f, s, g) = 0
      BY <3>1 DEF Adds
    <3>3. IsSum(g, f, UpTo(S, 0))
      BY <3>2 DEF IsSum
    <3>. QED  BY <2>2, <3>3
  <2>3. CASE n # 0
    <3>1. n - 1 \in Nat /\ n \in Nat
      BY <2>3
    <3>2. n - 1 \notin Bad
      BY <2>1, <3>1
    <3>3. PICK g : IsSum(g, f, UpTo(S, n - 1))
      BY <3>1, <3>2
    <3>. DEFINE h == [s \in UpTo(S, n) |-> Adds(f, s, g)]
    <3>4. ASSUME NEW s \in UpTo(S, n)
          PROVE  Adds(f, s, h) = Adds(f, s, g)
      <4>1. CASE s = {}
        BY <4>1 DEF Adds
      <4>2. CASE s # {}
        <5>. DEFINE u == s \ {One(s)}
        <5>1. u \in UpTo(S, n - 1) /\ u \in UpTo(S, n)
          <6>1. s \in SUBSET S /\ Cardinality(s) <= n
            BY DEF UpTo
          <6>2. /\ u \in SUBSET S /\ Cardinality(s) \in Nat \ {0}
                /\ Cardinality(u) = Cardinality(s) - 1
            BY <4>2, <6>1, OneLess
          <6>3. Cardinality(u) <= n - 1 /\ Cardinality(u) <= n
            BY <3>1, <6>1, <6>2
          <6>. QED  BY <6>2, <6>3 DEF UpTo
        <5>2. h[u] = Adds(f, u, g)
          BY <5>1
        <5>3. g[u] = Adds(f, u, g)
          BY <3>3, <5>1 DEF IsSum
        <5>. QED  BY <5>2, <5>3 DEF Adds
      <4>. QED  BY <4>1, <4>2
    <3>5. IsSum(h, f, UpTo(S, n))
      BY <3>4 DEF IsSum
    <3>. QED  BY <3>1, <3>5
  <2>. QED  BY <2>2, <2>3
<1>2. Cardinality(S) \in Nat
  BY FS_CardinalityType
<1>3. SUBSET S = UpTo(S, Cardinality(S))
  <2>1. \A s \in SUBSET S : Cardinality(s) <= Cardinality(S)
    BY FS_Subset
  <2>2. SUBSET S \subseteq UpTo(S, Cardinality(S))
    BY <2>1 DEF UpTo
  <2>3. UpTo(S, Cardinality(S)) \subseteq SUBSET S
    BY DEF UpTo
  <2>. QED  BY <2>2, <2>3
<1>4. PICK g : IsSum(g, f, UpTo(S, Cardinality(S)))
  BY <1>1, <1>2
<1>5. IsSum(g, f, SUBSET S)
  BY <1>3, <1>4, Zenon
<1>. QED  BY <1>5

\* The sum of a set depends on the values it adds and on nothing else.
LEMMA SumsAgree ==
    ASSUME NEW S, IsFiniteSet(S), NEW T, IsFiniteSet(T),
           NEW f, NEW g, IsSum(g, f, SUBSET S), NEW k, NEW h, IsSum(h, k, SUBSET T),
           NEW U, U \subseteq S, U \subseteq T, \A x \in U : f[x] = k[x]
    PROVE  g[U] = h[U]
<1>. DEFINE Bad == {n \in Nat : \E s \in SUBSET U : Cardinality(s) = n /\ g[s] # h[s]}
<1>1. ASSUME Bad # {} PROVE FALSE
  <2>1. PICK n \in Bad : \A m \in Bad : n <= m
    BY <1>1, LeastOfSome
  <2>2. PICK s \in SUBSET U : Cardinality(s) = n /\ g[s] # h[s]
    BY <2>1
  <2>3. g[s] = Adds(f, s, g) /\ h[s] = Adds(k, s, h)
    BY <2>2 DEF IsSum
  <2>4. s # {}
    BY <2>2, <2>3 DEF Adds
  <2>5. /\ One(s) \in s /\ Cardinality(s) \in Nat \ {0}
        /\ Cardinality(s \ {One(s)}) = Cardinality(s) - 1
    BY <2>4, OneLess
  <2>6. n - 1 \notin Bad /\ n - 1 \in Nat
    BY <2>1, <2>2, <2>5
  <2>7. g[s \ {One(s)}] = h[s \ {One(s)}]
    BY <2>2, <2>5, <2>6
  <2>. QED  BY <2>2, <2>3, <2>4, <2>5, <2>7 DEF Adds
<1>2. IsFiniteSet(U) /\ Cardinality(U) \in Nat
  BY FS_Subset, FS_CardinalityType
<1>. QED  BY <1>1, <1>2

LEMMA TheSum ==
    ASSUME NEW f, NEW S, IsFiniteSet(S)
    PROVE  \E g : IsSum(g, f, SUBSET S) /\ SumFunctionOnSet(f, S) = g[S]
<1>. DEFINE iter == CHOOSE g : g = [s \in SUBSET S |->
                      IF s = {} THEN 0 ELSE f[CHOOSE x \in s : TRUE] + g[s \ {CHOOSE x \in s : TRUE}]]
<1>1. SumFunctionOnSet(f, S) = iter[S]
  BY DEF SumFunctionOnSet, FoldFunctionOnSet, MapThenFoldSet
<1>2. \E g : g = [s \in SUBSET S |->
            IF s = {} THEN 0 ELSE f[CHOOSE x \in s : TRUE] + g[s \ {CHOOSE x \in s : TRUE}]]
  <2>1. PICK g : IsSum(g, f, SUBSET S)
    BY SumsExist
  <2>2. g = [s \in SUBSET S |->
            IF s = {} THEN 0 ELSE f[CHOOSE x \in s : TRUE] + g[s \ {CHOOSE x \in s : TRUE}]]
    BY <2>1, Zenon DEF IsSum, Adds, One
  <2>. QED  BY <2>2
<1>3. IsSum(iter, f, SUBSET S)
  BY <1>2 DEF IsSum, Adds, One
<1>. QED  BY <1>1, <1>3

LEMMA SumIsOfTheValues ==
    ASSUME NEW f, NEW k, NEW S, IsFiniteSet(S), \A x \in S : f[x] = k[x]
    PROVE  SumFunctionOnSet(f, S) = SumFunctionOnSet(k, S)
<1>1. PICK g : IsSum(g, f, SUBSET S) /\ SumFunctionOnSet(f, S) = g[S]
  BY TheSum
<1>2. PICK h : IsSum(h, k, SUBSET S) /\ SumFunctionOnSet(k, S) = h[S]
  BY TheSum
<1>3. g[S] = h[S]
  BY <1>1, <1>2, SumsAgree
<1>. QED  BY <1>1, <1>2, <1>3

LEMMA SumOfNothing ==
    ASSUME NEW f
    PROVE  SumFunctionOnSet(f, {}) = 0
<1>1. IsFiniteSet({})
  BY FS_EmptySet
<1>2. PICK g : IsSum(g, f, SUBSET {}) /\ SumFunctionOnSet(f, {}) = g[{}]
  BY <1>1, TheSum
<1>3. g[{}] = Adds(f, {}, g)
  BY <1>2 DEF IsSum
<1>. QED  BY <1>2, <1>3 DEF Adds

LEMMA SumTakesOne ==
    ASSUME NEW f, NEW S, IsFiniteSet(S), S # {}
    PROVE  SumFunctionOnSet(f, S) = f[One(S)] + SumFunctionOnSet(f, S \ {One(S)})
<1>. DEFINE T == S \ {One(S)}
<1>1. IsFiniteSet(T)
  BY OneLess
<1>2. PICK g : IsSum(g, f, SUBSET S) /\ SumFunctionOnSet(f, S) = g[S]
  BY TheSum
<1>3. PICK h : IsSum(h, f, SUBSET T) /\ SumFunctionOnSet(f, T) = h[T]
  BY <1>1, TheSum
<1>4. g[S] = Adds(f, S, g)
  BY <1>2 DEF IsSum
<1>5. g[T] = h[T]
  <2>1. T \subseteq S
    OBVIOUS
  <2>. HIDE DEF T
  <2>. QED  BY <1>1, <1>2, <1>3, <2>1, SumsAgree
<1>. QED  BY <1>2, <1>3, <1>4, <1>5 DEF Adds

\* Any element may be taken first.
LEMMA SumTakesAny ==
    ASSUME NEW f, NEW S, IsFiniteSet(S), \A x \in S : f[x] \in Int
    PROVE  /\ SumFunctionOnSet(f, S) \in Int
           /\ \A x \in S : SumFunctionOnSet(f, S) = f[x] + SumFunctionOnSet(f, S \ {x})
<1>. DEFINE Sum(s) == SumFunctionOnSet(f, s)
            Good(s) == Sum(s) \in Int /\ \A x \in s : Sum(s) = f[x] + Sum(s \ {x})
            Bad == {n \in Nat : \E s \in SUBSET S : Cardinality(s) = n /\ ~Good(s)}
<1>0. \A n \in Nat : n \notin Bad => \A s \in SUBSET S : Cardinality(s) = n => Good(s)
  OBVIOUS
<1>1. ASSUME Bad # {} PROVE FALSE
  <2>1. PICK n \in Bad : \A m \in Bad : n <= m
    BY <1>1, LeastOfSome
  <2>2. PICK s \in SUBSET S : Cardinality(s) = n /\ ~Good(s)
    BY <2>1
  <2>0. n \in Nat
    BY <2>1
  <2>. HIDE DEF Bad
  <2>3. s # {}
    <3>1. Sum({}) = 0
      BY SumOfNothing
    <3>. QED  BY <2>2, <3>1
  <2>4. IsFiniteSet(s) /\ One(s) \in s /\ Cardinality(s) \in Nat \ {0}
    BY <2>3, OneLess, FS_Subset
  <2>5. ASSUME NEW u \in SUBSET S, Cardinality(u) \in Nat, Cardinality(u) < n
        PROVE  Good(u)
    <3>1. Cardinality(u) \notin Bad
      BY <2>0, <2>1, <2>5
    <3>. QED  BY <1>0, <2>5, <3>1
  <2>6. ASSUME NEW x \in s
        PROVE  /\ IsFiniteSet(s \ {x}) /\ s \ {x} \in SUBSET S
               /\ Cardinality(s \ {x}) = n - 1 /\ n - 1 \in Nat
    <3>1. Cardinality(s \ {x}) = Cardinality(s) - 1 /\ IsFiniteSet(s \ {x})
      BY <2>4, FS_RemoveElement
    <3>. QED  BY <2>0, <2>2, <2>4, <3>1
  <2>7. ASSUME NEW x \in s
        PROVE  Good(s \ {x})
    <3>1. s \ {x} \in SUBSET S /\ Cardinality(s \ {x}) = n - 1 /\ n - 1 \in Nat
      BY <2>6
    <3>2. n - 1 < n
      BY <2>0
    <3>. QED  BY <2>5, <3>1, <3>2
  <2>8. Sum(s) = f[One(s)] + Sum(s \ {One(s)})
    BY <2>3, <2>4, SumTakesOne
  <2>. HIDE DEF Sum
  <2>9. Sum(s) \in Int
    BY <2>4, <2>7, <2>8
  <2>10. ASSUME NEW x \in s, x # One(s)
         PROVE  Sum(s) = f[x] + Sum(s \ {x})
    <3>. DEFINE rest == (s \ {x}) \ {One(s)}
    <3>1. (s \ {One(s)}) \ {x} = rest
      OBVIOUS
    <3>2. Sum(s \ {One(s)}) = f[x] + Sum(rest)
      BY <2>4, <2>7, <2>10, <3>1
    <3>3. Sum(s \ {x}) = f[One(s)] + Sum(rest)
      BY <2>4, <2>7, <2>10
    <3>4. Sum(rest) \in Int
      <4>1. One(s) \in s \ {x}
        BY <2>4, <2>10
      <4>2. IsFiniteSet(rest) /\ Cardinality(rest) = Cardinality(s \ {x}) - 1
        BY <2>6, <4>1, FS_RemoveElement
      <4>3. Cardinality(rest) \in Nat
        BY <4>2, FS_CardinalityType
      <4>4. Cardinality(rest) < n
        BY <2>0, <2>6, <4>2
      <4>5. rest \in SUBSET S
        OBVIOUS
      <4>. HIDE DEF rest
      <4>. QED  BY <2>5, <4>3, <4>4, <4>5
    <3>5. f[x] \in Int /\ f[One(s)] \in Int
      BY <2>4
    <3>. HIDE DEF rest
    <3>. QED  BY <2>4, <2>8, <3>2, <3>3, <3>4, <3>5
  <2>. QED  BY <2>2, <2>8, <2>9, <2>10
<1>2. Cardinality(S) \in Nat
  BY FS_CardinalityType
<1>. QED  BY <1>0, <1>1, <1>2

\* So a sum grows by the value of what is added to its set.
LEMMA SumGrows ==
    ASSUME NEW f, NEW S, IsFiniteSet(S), NEW x, x \notin S, f[x] \in Int, \A y \in S : f[y] \in Int
    PROVE  /\ SumFunctionOnSet(f, S) \in Int
           /\ SumFunctionOnSet(f, S \cup {x}) = SumFunctionOnSet(f, S) + f[x]
<1>1. IsFiniteSet(S \cup {x}) /\ (S \cup {x}) \ {x} = S
  BY FS_AddElement
<1>2. SumFunctionOnSet(f, S \cup {x}) = f[x] + SumFunctionOnSet(f, S)
  BY <1>1, SumTakesAny
<1>3. SumFunctionOnSet(f, S) \in Int
  BY SumTakesAny
<1>. QED  BY <1>2, <1>3
-----------------------------------------------------------------------------
(* Sets in order, and sequences that grow.                                 *)

LEMMA InOrderOne ==
    ASSUME NEW a
    PROVE  InOrder({a}) = <<a>>
<1>. DEFINE Ordered(s) == \A i, j \in 1..1 : i < j => s[i] < s[j]
<1>1. Cardinality({a}) = 1
  BY FS_Singleton
<1>2. InOrder({a}) = CHOOSE s \in [1..1 -> {a}] : Ordered(s)
  BY <1>1 DEF InOrder
<1>3. <<a>> \in [1..1 -> {a}] /\ Ordered(<<a>>)
  OBVIOUS
<1>. HIDE DEF Ordered
<1>4. InOrder({a}) \in [1..1 -> {a}]
  BY <1>2, <1>3
<1>. HIDE DEF InOrder
<1>5. \A s \in [1..1 -> {a}] : s = <<a>>
  OBVIOUS
<1>. QED  BY <1>4, <1>5

LEMMA InOrderTwo ==
    ASSUME NEW a \in Int, NEW b \in Int, a < b
    PROVE  InOrder({a, b}) = <<a, b>>
<1>. DEFINE Ordered(s) == \A i, j \in 1..2 : i < j => s[i] < s[j]
<1>1. Cardinality({a, b}) = 2
  <2>1. IsFiniteSet({a}) /\ Cardinality({a}) = 1
    BY FS_Singleton
  <2>0. b \notin {a}
    OBVIOUS
  <2>2. Cardinality({a} \cup {b}) = 2
    BY <2>0, <2>1, FS_AddElement
  <2>3. {a, b} = {a} \cup {b}
    OBVIOUS
  <2>. QED  BY <2>2, <2>3
<1>2. InOrder({a, b}) = CHOOSE s \in [1..2 -> {a, b}] : Ordered(s)
  BY <1>1 DEF InOrder
<1>3. <<a, b>> \in [1..2 -> {a, b}] /\ Ordered(<<a, b>>)
  OBVIOUS
<1>4. \A s \in [1..2 -> {a, b}] : Ordered(s) => s[1] = a /\ s[2] = b
  <2>1. \A s \in [1..2 -> {a, b}] : Ordered(s) => s[1] < s[2]
    OBVIOUS
  <2>2. \A s \in [1..2 -> {a, b}] : s[1] \in {a, b} /\ s[2] \in {a, b}
    OBVIOUS
  <2>. QED  BY <2>1, <2>2
<1>. HIDE DEF Ordered
<1>5. InOrder({a, b}) \in [1..2 -> {a, b}] /\ Ordered(InOrder({a, b}))
  BY <1>2, <1>3
<1>6. \A s \in [1..2 -> {a, b}] : s[1] = a /\ s[2] = b => s = <<a, b>>
  OBVIOUS
<1>. QED  BY <1>4, <1>5, <1>6

LEMMA InOrderNone == DOMAIN InOrder({}) = {}
<1>. DEFINE Ordered(s) == \A i, j \in 1..0 : i < j => s[i] < s[j]
<1>1. Cardinality({}) = 0
  BY FS_EmptySet
<1>2. InOrder({}) = CHOOSE s \in [1..0 -> {}] : Ordered(s)
  BY <1>1 DEF InOrder
<1>3. <<>> \in [1..0 -> {}] /\ Ordered(<<>>)
  OBVIOUS
<1>. HIDE DEF Ordered
<1>4. InOrder({}) \in [1..0 -> {}]
  BY <1>2, <1>3
<1>. QED  BY <1>4

LEMMA MaxIs ==
    ASSUME NEW S, S \subseteq Int, NEW m \in S, \A x \in S : x <= m
    PROVE  Max(S) = m
<1>1. m \in S /\ \A x \in S : m >= x
  OBVIOUS
<1>2. Max(S) \in S /\ \A x \in S : Max(S) >= x
  BY <1>1 DEF Max
<1>3. Max(S) >= m /\ Max(S) <= m /\ Max(S) \in Int
  BY <1>1, <1>2
<1>. QED  BY <1>3

LEMMA MinIs ==
    ASSUME NEW S, S \subseteq Nat, S # {}
    PROVE  Min(S) \in S /\ \A x \in S : Min(S) <= x
<1>1. \E m \in S : \A x \in S : m <= x
  BY LeastOfSome
<1>. QED  BY <1>1 DEF Min

LEMMA JoinNothing ==
    ASSUME NEW T, NEW s \in Seq(T), NEW nothing, nothing = [i \in {} |-> nothing[i]]
    PROVE  s \o nothing = s
<1>1. nothing = <<>>
  OBVIOUS
<1>. QED  BY <1>1, ConcatEmptySeq

LEMMA JoinOne ==
    ASSUME NEW T, NEW s \in Seq(T), NEW e
    PROVE  /\ s \o <<e>> = Append(s, e)
           /\ s \o <<e>> \in Seq(T \cup {e}) /\ Len(s \o <<e>>) = Len(s) + 1
           /\ (s \o <<e>>)[Len(s) + 1] = e
           /\ \A i \in 1..Len(s) : (s \o <<e>>)[i] = s[i]
<1>. DEFINE U == T \cup {e}
<1>1. s \in Seq(U) /\ <<e>> \in Seq(U) /\ Len(<<e>>) = 1 /\ Len(s) \in Nat
  OBVIOUS
<1>. HIDE DEF U
<1>2. /\ s \o <<e>> \in Seq(U) /\ Len(s \o <<e>>) = Len(s) + 1
      /\ \A i \in 1..(Len(s) + 1) : (s \o <<e>>)[i] = IF i <= Len(s) THEN s[i] ELSE <<e>>[i - Len(s)]
  BY <1>1, ConcatProperties
<1>3. (s \o <<e>>)[Len(s) + 1] = e
  BY <1>1, <1>2
<1>4. \A i \in 1..Len(s) : (s \o <<e>>)[i] = s[i]
  BY <1>1, <1>2
<1>5. e \in U
  BY DEF U
<1>6. s \o <<e>> = Append(s, e)
  BY <1>1, <1>5, AppendIsConcat
<1>. QED  BY <1>2, <1>3, <1>4, <1>6 DEF U

LEMMA JoinTwo ==
    ASSUME NEW T, NEW s \in Seq(T), NEW d, NEW e
    PROVE  s \o <<d, e>> = (s \o <<d>>) \o <<e>>
<1>. DEFINE U == T \cup {d, e}
<1>1. s \in Seq(U)
  BY SeqMonotonic
<1>2. <<d>> \in Seq(U) /\ <<e>> \in Seq(U)
  <2>1. d \in U /\ e \in U
    OBVIOUS
  <2>. HIDE DEF U
  <2>. QED  BY <2>1
<1>3. <<d>> \o <<e>> = <<d, e>>
  <2>1. Len(<<d>>) = 1 /\ <<d>>[1] = d /\ Len(<<e>>) = 1 /\ <<e>>[1] = e
    OBVIOUS
  <2>2. Len(<<d, e>>) = 2 /\ <<d, e>>[1] = d /\ <<d, e>>[2] = e
    OBVIOUS
  <2>3. <<d, e>> \in Seq(U)
    <3>1. d \in U /\ e \in U
      OBVIOUS
    <3>. HIDE DEF U
    <3>. QED  BY <3>1
  <2>. HIDE DEF U
  <2>4. /\ <<d>> \o <<e>> \in Seq(U) /\ Len(<<d>> \o <<e>>) = 2
        /\ (<<d>> \o <<e>>)[1] = d /\ (<<d>> \o <<e>>)[2] = e
    BY <1>2, <2>1, ConcatProperties
  <2>5. \A i \in 1..2 : (<<d>> \o <<e>>)[i] = <<d, e>>[i]
    BY <2>2, <2>4
  <2>. QED  BY <2>2, <2>3, <2>4, <2>5, SeqEqual
<1>. HIDE DEF U
<1>4. (s \o <<d>>) \o <<e>> = s \o (<<d>> \o <<e>>)
  BY <1>1, <1>2, ConcatAssociative
<1>. QED  BY <1>3, <1>4
-----------------------------------------------------------------------------
(* What the committed artifacts say of each turn.                          *)

LEMMA TheReasons ==
    \A t \in 1..12 :
       /\ ScenarioAt(t).calls = (IF t \in {11, 12} THEN 2 ELSE 1)
       /\ RefusedTurn(t) <=> t \in {4, 6}
       /\ PolicyAt(t) = (IF t % 2 = 1 THEN NAIVE ELSE HARDENED)
       /\ ScenarioAt(t).approval_ttl =
            (IF t \in {7, 8} THEN None ELSE IF t \in {9, 10} THEN -1 ELSE ApprovalTtl)
       /\ Allowance(t) = (IF t \in {1, 2, 3, 5, 11, 12} THEN 1 ELSE 0)
       /\ PublishedRows[t].reason =
            (CASE t \in {1, 2, 3, 5} -> None
               [] t = 4 -> "audience_mismatch"
               [] t = 6 -> "insufficient_effective_scope"
               [] t \in {7, 8, 11, 12} -> "approval_required"
               [] t \in {9, 10} -> "approval_expired")
<1>1. ASSUME NEW t \in 1..12
      PROVE  \/ t \in {1, 2} \/ t \in {3, 4} \/ t \in {5, 6}
             \/ t \in {7, 8} \/ t \in {9, 10} \/ t \in {11, 12}
  BY <1>1
<1>2. \A t \in 1..12 :
         /\ ScenarioAt(t).calls = (IF t \in {11, 12} THEN 2 ELSE 1)
         /\ ScenarioAt(t).approval_ttl =
              (IF t \in {7, 8} THEN None ELSE IF t \in {9, 10} THEN -1 ELSE ApprovalTtl)
         /\ t \in {3, 4} <=> ScenarioAt(t).id = "wrong_audience"
         /\ t \in {5, 6} <=> ScenarioAt(t).id = "scope_amplification"
  BY <1>1, TheTwelve DEF Scenario
<1>3. \A t \in 1..12 : PolicyAt(t) = (IF t % 2 = 1 THEN NAIVE ELSE HARDENED)
  BY DEF PolicyAt
<1>4. \A t \in 1..12 : RefusedTurn(t) <=> t \in {4, 6}
  <2>1. PolicyAt(3) = NAIVE /\ PolicyAt(5) = NAIVE /\ NAIVE # HARDENED
        /\ PolicyAt(4) = HARDENED /\ PolicyAt(6) = HARDENED
    BY TheTwelve
  <2>. QED  BY <1>2, <2>1 DEF RefusedTurn
<1>5. \A t \in 1..12 : UnapprovedTurn(t) <=> t \in {7, 8, 9, 10}
  <2>1. ApprovalTtl \notin {None, -1} /\ None # -1
    BY NoneAssumption, MatrixAssumption
  <2>. QED  BY <1>2, <2>1 DEF UnapprovedTurn
<1>6. \A t \in 1..12 : Allowance(t) = (IF t \in {1, 2, 3, 5, 11, 12} THEN 1 ELSE 0)
  BY <1>4, <1>5 DEF Allowance
<1>7. /\ PublishedRows[1].reason = None /\ PublishedRows[2].reason = None
      /\ PublishedRows[3].reason = None /\ PublishedRows[4].reason = "audience_mismatch"
      /\ PublishedRows[5].reason = None
      /\ PublishedRows[6].reason = "insufficient_effective_scope"
      /\ PublishedRows[7].reason = "approval_required"
      /\ PublishedRows[8].reason = "approval_required"
      /\ PublishedRows[9].reason = "approval_expired"
      /\ PublishedRows[10].reason = "approval_expired"
      /\ PublishedRows[11].reason = "approval_required"
      /\ PublishedRows[12].reason = "approval_required"
  BY DEF PublishedRows, Granted, Row
<1>8. ASSUME NEW t \in 1..12
      PROVE  PublishedRows[t].reason =
               (CASE t \in {1, 2, 3, 5} -> None
                  [] t = 4 -> "audience_mismatch"
                  [] t = 6 -> "insufficient_effective_scope"
                  [] t \in {7, 8, 11, 12} -> "approval_required"
                  [] t \in {9, 10} -> "approval_expired")
  <2>1. \/ t = 1 \/ t = 2 \/ t = 3 \/ t = 4 \/ t = 5 \/ t = 6
        \/ t = 7 \/ t = 8 \/ t = 9 \/ t = 10 \/ t = 11 \/ t = 12
    BY <1>8
  <2>. QED  BY <1>7, <2>1
<1>. QED  BY <1>2, <1>3, <1>4, <1>6, <1>8

LEMMA NoneIsNoReason ==
    /\ None \notin {"token_expired", "audience_mismatch", "insufficient_effective_scope",
                    "approval_required", "approval_expired", "approval_already_consumed"}
    /\ None # -1 /\ None \notin Int
BY NoneAssumption DEF DENIAL_REASONS

\* What a call is told when its token is live, by its turn and its place there.
LEMMA TheAnswers ==
    ASSUME NEW t \in 1..12
    PROVE  /\ RefusedTurn(t) => ReasonOf(t, 1) # None
           /\ ~RefusedTurn(t) /\ ScenarioAt(t).approval_ttl = None =>
                  ReasonOf(t, 1) = "approval_required"
           /\ ~RefusedTurn(t) /\ ScenarioAt(t).approval_ttl = -1 =>
                  ReasonOf(t, 1) = "approval_expired"
           /\ ~RefusedTurn(t) /\ ScenarioAt(t).approval_ttl \notin {None, -1} =>
                  ReasonOf(t, 1) = None /\ ScenarioAt(t).approval_ttl = ApprovalTtl
           /\ ReasonOf(t, 1) = None <=> Allowance(t) = 1
           /\ ScenarioAt(t).calls \in {1, 2}
           /\ ScenarioAt(t).calls = 2 =>
                  /\ ReasonOf(t, 1) = None /\ ReasonOf(t, 2) = "approval_required"
                  /\ ~RefusedTurn(t) /\ ScenarioAt(t).approval_ttl = ApprovalTtl
           /\ ReasonOf(t, ScenarioAt(t).calls) = PublishedRows[t].reason
           /\ \A n \in 1..2 : ReasonOf(t, n) # "token_expired"
<1>1. ApprovalTtl \notin {None, -1}
  BY NoneAssumption, MatrixAssumption
<1>. QED  BY <1>1, TheReasons, NoneIsNoReason DEF ReasonOf

LEMMA TheRows ==
    /\ PublishedRows \in Seq({PublishedRows[t] : t \in 1..12}) /\ Len(PublishedRows) = 12
    /\ \A t \in 1..12 :
          /\ PublishedRows[t].reason # "token_expired"
          /\ PublishedRows[t] = Row(DecisionFor(PublishedRows[t].reason), PublishedRows[t].reason,
                                    Allowance(t))
<1>1. /\ PublishedRows \in Seq({PublishedRows[t] : t \in 1..12})
      /\ Len(PublishedRows) = 12
  BY DEF PublishedRows
<1>2. ASSUME NEW t \in 1..12
      PROVE  PublishedRows[t] = Row(PublishedRows[t].decision, PublishedRows[t].reason,
                                    PublishedRows[t].effects)
  <2>1. \/ t = 1 \/ t = 2 \/ t = 3 \/ t = 4 \/ t = 5 \/ t = 6
        \/ t = 7 \/ t = 8 \/ t = 9 \/ t = 10 \/ t = 11 \/ t = 12
    BY <1>2
  <2>. QED  BY <2>1 DEF PublishedRows, Granted, Row
<1>3. ASSUME NEW t \in 1..12
      PROVE  PublishedRows[t].decision =
               IF t \in {1, 2, 3, 5} THEN "allowed" ELSE "denied"
  <2>1. \/ t = 1 \/ t = 2 \/ t = 3 \/ t = 4 \/ t = 5 \/ t = 6
        \/ t = 7 \/ t = 8 \/ t = 9 \/ t = 10 \/ t = 11 \/ t = 12
    BY <1>3
  <2>. QED  BY <2>1 DEF PublishedRows, Granted, Row
<1>4. ASSUME NEW t \in 1..12
      PROVE  /\ PublishedRows[t].reason # "token_expired"
             /\ PublishedRows[t].decision = DecisionFor(PublishedRows[t].reason)
  BY <1>3, TheReasons, NoneIsNoReason DEF DecisionFor
<1>. QED  BY <1>1, <1>2, <1>4, TheTurns
LEMMA TheTrail ==
    /\ PublishedTrail \in Seq({PublishedTrail[i] : i \in 1..14}) /\ Len(PublishedTrail) = 14
    /\ \A t \in 1..12 :
          /\ CallsBefore(t) \in Nat
          /\ CallsBefore(t) + ScenarioAt(t).calls = CallsBefore(t + 1)
          /\ CallsBefore(t + 1) \in 1..14
          /\ \A n \in 1..ScenarioAt(t).calls :
                PublishedTrail[CallsBefore(t) + n] =
                   Event(PolicyAt(t).name, DecisionFor(ReasonOf(t, n)), ReasonOf(t, n))
<1>1. /\ PublishedTrail \in Seq({PublishedTrail[i] : i \in 1..14})
      /\ Len(PublishedTrail) = 14
  BY DEF PublishedTrail
<1>2. \A t \in 1..12 :
         /\ CallsBefore(t) \in Nat
         /\ CallsBefore(t) + ScenarioAt(t).calls = CallsBefore(t + 1)
         /\ CallsBefore(t + 1) \in 1..14
  BY TheReasons DEF CallsBefore
<1>3. /\ PublishedTrail[1] = Event("naive", "allowed", None)
      /\ PublishedTrail[2] = Event("hardened", "allowed", None)
      /\ PublishedTrail[3] = Event("naive", "allowed", None)
      /\ PublishedTrail[4] = Event("hardened", "denied", "audience_mismatch")
      /\ PublishedTrail[5] = Event("naive", "allowed", None)
      /\ PublishedTrail[6] = Event("hardened", "denied", "insufficient_effective_scope")
      /\ PublishedTrail[7] = Event("naive", "denied", "approval_required")
      /\ PublishedTrail[8] = Event("hardened", "denied", "approval_required")
      /\ PublishedTrail[9] = Event("naive", "denied", "approval_expired")
      /\ PublishedTrail[10] = Event("hardened", "denied", "approval_expired")
      /\ PublishedTrail[11] = Event("naive", "allowed", None)
      /\ PublishedTrail[12] = Event("naive", "denied", "approval_required")
      /\ PublishedTrail[13] = Event("hardened", "allowed", None)
      /\ PublishedTrail[14] = Event("hardened", "denied", "approval_required")
  BY DEF PublishedTrail
<1>4. NAIVE.name = "naive" /\ HARDENED.name = "hardened"
  BY DEF NAIVE, HARDENED
<1>5. \A t \in 1..12 : \A n \in 1..ScenarioAt(t).calls :
         ReasonOf(t, n) = (IF t \in {11, 12} /\ n = 1 THEN None ELSE PublishedRows[t].reason)
  BY TheReasons DEF ReasonOf
<1>6. ASSUME NEW t \in 1..10
      PROVE  PublishedTrail[t] = Event(PolicyAt(t).name, DecisionFor(PublishedRows[t].reason),
                                       PublishedRows[t].reason)
  <2>1. \/ t = 1 \/ t = 2 \/ t = 3 \/ t = 4 \/ t = 5 \/ t = 6
        \/ t = 7 \/ t = 8 \/ t = 9 \/ t = 10
    BY <1>6
  <2>. QED  BY <1>3, <1>4, <2>1, TheTwelve, TheReasons, NoneIsNoReason DEF DecisionFor
<1>7. ASSUME NEW t \in 1..12, NEW n \in 1..ScenarioAt(t).calls
      PROVE  PublishedTrail[CallsBefore(t) + n] =
                Event(PolicyAt(t).name, DecisionFor(ReasonOf(t, n)), ReasonOf(t, n))
  <2>1. CASE t \in 1..10
    <3>1. n = 1 /\ CallsBefore(t) + n = t /\ ReasonOf(t, n) = PublishedRows[t].reason
      BY <1>5, <2>1, TheReasons DEF CallsBefore
    <3>. QED  BY <1>6, <2>1, <3>1
  <2>2. CASE t = 11
    <3>1. n \in {1, 2} /\ CallsBefore(t) + n = 10 + n
          /\ ReasonOf(t, n) = IF n = 1 THEN None ELSE "approval_required"
      BY <1>5, <2>2, TheReasons DEF CallsBefore
    <3>. QED  BY <1>3, <1>4, <2>2, <3>1, TheTwelve, NoneIsNoReason DEF DecisionFor
  <2>3. CASE t = 12
    <3>1. n \in {1, 2} /\ CallsBefore(t) + n = 12 + n
          /\ ReasonOf(t, n) = IF n = 1 THEN None ELSE "approval_required"
      BY <1>5, <2>3, TheReasons DEF CallsBefore
    <3>. QED  BY <1>3, <1>4, <2>3, <3>1, TheTwelve, NoneIsNoReason DEF DecisionFor
  <2>. QED  BY <1>7, <2>1, <2>2, <2>3
<1>. QED  BY <1>1, <1>2, <1>7

\* The approvals the hardened turns leave, and the chains of their tokens.
LEMMA TheShown ==
    /\ PublishedApprovals \in Seq({"consumed", "pending", "expired"})
    /\ Len(PublishedApprovals) = 5
    /\ \A t \in 1..12 :
          LET leaves == PolicyAt(t) = HARDENED /\ ScenarioAt(t).approval_ttl # None IN
          /\ ShownBefore(t) \in Nat
          /\ ShownBefore(t + 1) = ShownBefore(t) + (IF leaves THEN 1 ELSE 0)
          /\ leaves =>
                /\ ShownBefore(t + 1) \in 1..5
                /\ PublishedApprovals[ShownBefore(t + 1)] =
                      (IF Allowance(t) = 1 THEN "consumed"
                       ELSE IF ScenarioAt(t).approval_ttl = -1 THEN "expired" ELSE "pending")
<1>1. /\ PublishedApprovals \in Seq({"consumed", "pending", "expired"})
      /\ Len(PublishedApprovals) = 5
      /\ PublishedApprovals[1] = "consumed" /\ PublishedApprovals[2] = "pending"
      /\ PublishedApprovals[3] = "pending" /\ PublishedApprovals[4] = "expired"
      /\ PublishedApprovals[5] = "consumed"
  BY DEF PublishedApprovals
<1>2. ApprovalTtl \notin {None, -1} /\ None # -1
  BY NoneAssumption, MatrixAssumption
<1>3. /\ ShownBefore(1) = 0 /\ ShownBefore(2) = 0 /\ ShownBefore(3) = 1 /\ ShownBefore(4) = 1
      /\ ShownBefore(5) = 2 /\ ShownBefore(6) = 2 /\ ShownBefore(7) = 3 /\ ShownBefore(8) = 3
      /\ ShownBefore(9) = 3 /\ ShownBefore(10) = 3 /\ ShownBefore(11) = 4 /\ ShownBefore(12) = 4
      /\ ShownBefore(13) = 5
  BY DEF ShownBefore
<1>4. ASSUME NEW t \in 1..12
      PROVE  LET leaves == PolicyAt(t) = HARDENED /\ ScenarioAt(t).approval_ttl # None IN
             /\ ShownBefore(t) \in Nat
             /\ ShownBefore(t + 1) = ShownBefore(t) + (IF leaves THEN 1 ELSE 0)
             /\ leaves =>
                /\ ShownBefore(t + 1) \in 1..5
                /\ PublishedApprovals[ShownBefore(t + 1)] =
                      (IF Allowance(t) = 1 THEN "consumed"
                       ELSE IF ScenarioAt(t).approval_ttl = -1 THEN "expired" ELSE "pending")
  <2>. DEFINE leaves == PolicyAt(t) = HARDENED /\ ScenarioAt(t).approval_ttl # None
  <2>1. leaves <=> t \in {2, 4, 6, 10, 12}
    <3>1. PolicyAt(t) = HARDENED <=> t \in {2, 4, 6, 8, 10, 12}
      BY TheReasons, TheTwelve
    <3>2. ScenarioAt(t).approval_ttl # None <=> t \notin {7, 8}
      BY <1>2, TheReasons
    <3>. QED  BY <3>1, <3>2
  <2>2. \/ t = 1 \/ t = 2 \/ t = 3 \/ t = 4 \/ t = 5 \/ t = 6
        \/ t = 7 \/ t = 8 \/ t = 9 \/ t = 10 \/ t = 11 \/ t = 12
    BY <1>4
  <2>3. /\ ShownBefore(t) \in Nat
        /\ ShownBefore(t + 1) = ShownBefore(t) + (IF leaves THEN 1 ELSE 0)
    <3>. HIDE DEF leaves
    <3>. QED  BY <1>3, <2>1, <2>2
  <2>4. ASSUME leaves
        PROVE  /\ ShownBefore(t + 1) \in 1..5
               /\ PublishedApprovals[ShownBefore(t + 1)] =
                     (IF Allowance(t) = 1 THEN "consumed"
                      ELSE IF ScenarioAt(t).approval_ttl = -1 THEN "expired" ELSE "pending")
    <3>1. t \in {2, 4, 6, 10, 12}
      BY <2>1, <2>4
    <3>. HIDE DEF leaves
    <3>. QED  BY <1>1, <1>2, <1>3, <3>1, TheReasons
  <2>. QED  BY <2>3, <2>4
<1>. QED  BY <1>1, <1>4

LEMMA TheHalves ==
    \A t \in 1..12 :
       /\ (t - 1) \div 2 \in 0..5 /\ (t + 1) \div 2 \in 1..6
       /\ PolicyAt(t) = HARDENED => /\ (t + 1) \div 2 = t \div 2
                                    /\ t \div 2 = ((t - 1) \div 2) + 1
       /\ PolicyAt(t) # HARDENED => t \div 2 = (t - 1) \div 2
<1>1. \A t \in 1..12 : PolicyAt(t) = HARDENED <=> t \in {2, 4, 6, 8, 10, 12}
  BY TheReasons, TheTwelve
<1>. QED  BY <1>1
-----------------------------------------------------------------------------
(* What the verifier and the policies make of the tokens of the build.     *)

Minted(bearer, audience, scopes, act, k) ==
    /\ bearer.bytes = 1 /\ bearer.parses = TRUE
    /\ bearer.iss = Issuer /\ bearer.kid = KeyId
    /\ bearer.alg = "EdDSA" /\ bearer.key = OwnKey /\ bearer.missing = {}
    /\ bearer.iat = k /\ bearer.exp = k + TokenLifetime
    /\ bearer.sub = Agent /\ bearer.aud = Text({audience})
    /\ bearer.scope = Text(scopes) /\ bearer.act = act

LEMMA DirectMinted ==
    Minted(Direct, Audience, {READ, CREDIT}, <<>>, clock)
BY DEF Direct, Mint, Minted

LEMMA DelegatedMinted ==
    ASSUME NEW scopes, NEW audience, NEW claimed
    PROVE  Minted(Delegated(scopes, audience, claimed), audience, claimed,
                  <<Node("alice", scopes)>>, clock)
<1>. DEFINE chain == <<[subject |-> "alice", scopes |-> scopes]>>
            plain == Mint(Agent, audience, claimed, TokenLifetime, clock)
            act == [i \in DOMAIN chain |->
                       Node(chain[Len(chain) + 1 - i].subject, chain[Len(chain) + 1 - i].scopes)]
<1>1. Delegated(scopes, audience, claimed) = [plain EXCEPT !.act = act]
  BY DEF Delegated, MintDelegated
<1>2. act = <<Node("alice", scopes)>>
  <2>1. Len(chain) = 1 /\ DOMAIN chain = 1..1
        /\ chain[1] = [subject |-> "alice", scopes |-> scopes]
    OBVIOUS
  <2>. HIDE DEF chain
  <2>. QED  BY <2>1
<1>3. Minted(plain, audience, claimed, plain.act, clock)
  BY DEF Mint, Minted
<1>4. \A a : /\ [plain EXCEPT !.act = a].act = a
             /\ [plain EXCEPT !.act = a].bytes = plain.bytes
             /\ [plain EXCEPT !.act = a].parses = plain.parses
             /\ [plain EXCEPT !.act = a].iss = plain.iss
             /\ [plain EXCEPT !.act = a].kid = plain.kid
             /\ [plain EXCEPT !.act = a].alg = plain.alg
             /\ [plain EXCEPT !.act = a].key = plain.key
             /\ [plain EXCEPT !.act = a].missing = plain.missing
             /\ [plain EXCEPT !.act = a].iat = plain.iat
             /\ [plain EXCEPT !.act = a].exp = plain.exp
             /\ [plain EXCEPT !.act = a].sub = plain.sub
             /\ [plain EXCEPT !.act = a].aud = plain.aud
             /\ [plain EXCEPT !.act = a].scope = plain.scope
  BY DEF Mint
<1>. HIDE DEF chain, plain, act
<1>. QED  BY <1>1, <1>2, <1>3, <1>4 DEF Minted

\* The acts of the build's tokens: none, or one link from alice.
Links(act) == [i \in DOMAIN act |->
                 [subject |-> act[Len(act) + 1 - i].sub, scopes |-> Scopes(act[Len(act) + 1 - i].scope)]]

LEMMA TheActs ==
    /\ Links(<<>>) = <<>>
    /\ \A scopes : Links(<<Node("alice", scopes)>>) = <<[subject |-> "alice", scopes |-> scopes]>>
<1>1. Links(<<>>) = <<>>
  BY DEF Links
<1>2. ASSUME NEW scopes
      PROVE  Links(<<Node("alice", scopes)>>) = <<[subject |-> "alice", scopes |-> scopes]>>
  <2>. DEFINE act == <<Node("alice", scopes)>>
  <2>1. Len(act) = 1 /\ DOMAIN act = 1..1 /\ act[1] = Node("alice", scopes)
    OBVIOUS
  <2>2. Node("alice", scopes).sub = "alice" /\ Scopes(Node("alice", scopes).scope) = scopes
    BY DEF Node, Text, Scopes
  <2>. HIDE DEF act
  <2>3. Links(act) = [i \in 1..1 |-> [subject |-> "alice", scopes |-> scopes]]
    BY <2>1, <2>2 DEF Links
  <2>. QED  BY <2>3 DEF act
<1>. QED  BY <1>1, <1>2

\* A token of the build verifies until it expires, and its claims are what was
\* minted.
LEMMA MintedVerifies ==
    ASSUME NEW bearer, NEW audience, NEW scopes, NEW act, NEW k \in Int, NEW now \in Int, now >= k,
           Minted(bearer, audience, scopes, act, k),
           \/ act = <<>>
           \/ \E given : act = <<Node("alice", given)>>
    PROVE  LET verified == VerifyToken(bearer, now) IN
           /\ verified.failure = IF now >= k + TokenLifetime THEN "token_expired" ELSE None
           /\ verified.claims.expires_at = k + TokenLifetime
           /\ verified.claims.audience = {audience}
           /\ verified.claims.subject = Agent
           /\ verified.claims.scopes = scopes
           /\ verified.claims.chain = Links(act)
<1>1. NoCandidateKey(bearer) = None
  BY TokensAssumption, BuildAssumption DEF NoCandidateKey, Minted
<1>2. JwtDecodeFailure(bearer, now) = IF now >= k + TokenLifetime THEN "token_expired" ELSE None
  BY BuildAssumption, MatrixAssumption DEF JwtDecodeFailure, Minted, ALGORITHMS
<1>3. Chain(bearer).failure = None
  <2>1. bearer.act = act
    BY DEF Minted
  <2>2. CASE act = <<>>
    BY <2>1, <2>2, TokensAssumption DEF Chain
  <2>3. CASE \E given : act = <<Node("alice", given)>>
    <3>1. PICK given : act = <<Node("alice", given)>>
      BY <2>3
    <3>2. Len(act) = 1 /\ DOMAIN act = 1..1 /\ act[1].well_formed = TRUE
      BY <3>1 DEF Node
    <3>. QED  BY <2>1, <3>2, TokensAssumption DEF Chain
  <2>. QED  BY <2>2, <2>3
<1>4. bearer.aud.shape \in {"text", "list"} /\ bearer.aud.names = {audience}
      /\ Scopes(bearer.scope) = scopes
  BY DEF Minted, Text, Scopes
<1>5. VerificationFailure(bearer, now) = IF now >= k + TokenLifetime THEN "token_expired" ELSE None
  BY <1>1, <1>2, <1>3, <1>4 DEF VerificationFailure
<1>6. Chain(bearer).links = Links(act)
  BY DEF Chain, Links, Minted
<1>. QED  BY <1>4, <1>5, <1>6 DEF VerifyToken, Minted

\* The tokens of the twelve turns.
LEMMA TheTokens ==
    ASSUME NEW t \in 1..12
    PROVE  LET bearer == TokenOf(ScenarioAt(t).id) IN
           /\ t \in {1, 2} => Minted(bearer, Audience, {READ, CREDIT},
                                     <<Node("alice", {READ, FLAG, CREDIT})>>, clock)
           /\ t \in {3, 4} => Minted(bearer, "elsewhere", {READ, CREDIT},
                                     <<Node("alice", {READ, FLAG, CREDIT})>>, clock)
           /\ t \in {5, 6} => Minted(bearer, Audience, {READ, FLAG, CREDIT},
                                     <<Node("alice", {READ, FLAG})>>, clock)
           /\ t \in 7..12  => Minted(bearer, Audience, {READ, CREDIT}, <<>>, clock)
<1>. DEFINE bearer == TokenOf(ScenarioAt(t).id)
<1>1. ASSUME t \in {1, 2}
      PROVE  Minted(bearer, Audience, {READ, CREDIT}, <<Node("alice", {READ, FLAG, CREDIT})>>, clock)
  <2>1. ScenarioAt(t).id = "valid_request"
    BY <1>1, TheTwelve DEF Scenario
  <2>2. TokenOf("valid_request") = Delegated({READ, FLAG, CREDIT}, Audience, {READ, CREDIT})
    BY DEF TokenOf
  <2>3. bearer = Delegated({READ, FLAG, CREDIT}, Audience, {READ, CREDIT})
    BY <2>1, <2>2
  <2>. HIDE DEF bearer
  <2>. QED  BY <2>3, DelegatedMinted
<1>2. ASSUME t \in {3, 4}
      PROVE  Minted(bearer, "elsewhere", {READ, CREDIT}, <<Node("alice", {READ, FLAG, CREDIT})>>, clock)
  <2>1. ScenarioAt(t).id = "wrong_audience"
    BY <1>2, TheTwelve DEF Scenario
  <2>2. TokenOf("wrong_audience") = Delegated({READ, FLAG, CREDIT}, "elsewhere", {READ, CREDIT})
    BY DEF TokenOf
  <2>3. bearer = Delegated({READ, FLAG, CREDIT}, "elsewhere", {READ, CREDIT})
    BY <2>1, <2>2
  <2>. HIDE DEF bearer
  <2>. QED  BY <2>3, DelegatedMinted
<1>3. ASSUME t \in {5, 6}
      PROVE  Minted(bearer, Audience, {READ, FLAG, CREDIT}, <<Node("alice", {READ, FLAG})>>, clock)
  <2>1. ScenarioAt(t).id = "scope_amplification"
    BY <1>3, TheTwelve DEF Scenario
  <2>2. TokenOf("scope_amplification") = Delegated({READ, FLAG}, Audience, {READ, FLAG, CREDIT})
    BY DEF TokenOf
  <2>3. bearer = Delegated({READ, FLAG}, Audience, {READ, FLAG, CREDIT})
    BY <2>1, <2>2
  <2>. HIDE DEF bearer
  <2>. QED  BY <2>3, DelegatedMinted
<1>4. ASSUME t \in 7..12
      PROVE  Minted(bearer, Audience, {READ, CREDIT}, <<>>, clock)
  <2>1. ScenarioAt(t).id \in {"no_approval", "expired_approval", "approval_replay"}
    <3>1. t \in {7, 8} \/ t \in {9, 10} \/ t \in {11, 12}
      BY <1>4
    <3>. QED  BY <3>1, TheTwelve DEF Scenario
  <2>2. bearer = Direct
    BY <2>1 DEF TokenOf
  <2>. HIDE DEF bearer
  <2>. QED  BY <2>2, DirectMinted
<1>. QED  BY <1>1, <1>2, <1>3, <1>4

LEMMA NaiveVerifies ==
    ASSUME NEW bearer, NEW now
    PROVE  Naive!VerifyToken(bearer, now) = VerifyToken(bearer, now)
<1>1. Naive!Chain(bearer) = Chain(bearer)
  BY DEF Naive!Chain, Chain, Naive!Scopes, Scopes
<1>2. Naive!JwtDecodeFailure(bearer, now) = JwtDecodeFailure(bearer, now)
  BY DEF Naive!JwtDecodeFailure, JwtDecodeFailure, Naive!ALGORITHMS, ALGORITHMS
<1>3. Naive!NoCandidateKey(bearer) = NoCandidateKey(bearer)
  BY DEF Naive!NoCandidateKey, NoCandidateKey
<1>4. Naive!VerificationFailure(bearer, now) = VerificationFailure(bearer, now)
  BY <1>1, <1>2, <1>3 DEF Naive!VerificationFailure, VerificationFailure
<1>5. Naive!Scopes(bearer.scope) = Scopes(bearer.scope)
  BY DEF Naive!Scopes, Scopes
<1>. QED  BY <1>1, <1>4, <1>5 DEF Naive!VerifyToken, VerifyToken

LEMMA NaiveDecides ==
    ASSUME NEW verified, NEW tool, NEW now
    PROVE  Naive!Authorize(NAIVE, verified, tool, Audience, now) =
             Authorize(NAIVE, verified, tool, Audience, now)
<1>1. Naive!TOOL_SCOPES = TOOL_SCOPES
  BY DEF Naive!TOOL_SCOPES, TOOL_SCOPES
<1>2. Naive!EffectiveScopes(verified.claims, FALSE) = EffectiveScopes(verified.claims, FALSE)
  BY DEF Naive!EffectiveScopes, EffectiveScopes
<1>3. NAIVE.attenuate_chain = FALSE
  BY DEF NAIVE
<1>4. Naive!Refusal(NAIVE, verified.claims, tool, Audience, now) =
        Refusal(NAIVE, verified.claims, tool, Audience, now)
  BY <1>1, <1>2, <1>3 DEF Naive!Refusal, Refusal
<1>. QED  BY <1>1, <1>2, <1>3, <1>4 DEF Naive!Authorize, Authorize

\* Under either policy the verdict is that of authorize on the verified token.
Judged(policy, bearer, now) ==
    Authorize(policy, VerifyToken(bearer, now), "issue_credit", Audience, now)

LEMMA TheVerdicts ==
    ASSUME NEW bearer, NEW now
    PROVE  /\ Naive!VerdictOn(TheRequest(bearer), now) = Judged(NAIVE, bearer, now)
           /\ Hardened!VerdictOn(TheRequest(bearer), now) = Judged(HARDENED, bearer, now)
<1>1. TheRequest(bearer).token = bearer /\ TheRequest(bearer).tool = "issue_credit"
  BY DEF TheRequest
<1>2. Naive!VerdictOn(TheRequest(bearer), now) = Judged(NAIVE, bearer, now)
  BY <1>1, NaiveVerifies, NaiveDecides DEF Naive!VerdictOn, Judged
<1>3. Hardened!VerdictOn(TheRequest(bearer), now) = Judged(HARDENED, bearer, now)
  BY <1>1, TheSameVerifier, TheSameDecision DEF Hardened!VerdictOn, Judged
<1>. QED  BY <1>2, <1>3

Says(policy, bearer, now, reason) ==
    /\ Judged(policy, bearer, now).reason = reason
    /\ Judged(policy, bearer, now).decision = DecisionFor(reason)
    /\ Judged(policy, bearer, now).subject \in {Agent, None}

\* What is decided on verified claims, or on none.
LEMMA TheDecision ==
    ASSUME NEW policy, NEW verified, NEW now
    PROVE  LET verdict == Authorize(policy, verified, "issue_credit", Audience, now)
               reason == IF verified.failure # None THEN verified.failure
                         ELSE Refusal(policy, verified.claims, "issue_credit", Audience, now)
           IN  /\ verdict.reason = reason
               /\ verdict.decision = DecisionFor(reason)
               /\ verdict.subject = IF verified.failure = None THEN verified.claims.subject ELSE None
BY DEF Authorize, DecisionFor

\* What the policies say of claims that have not expired.
LEMMA TheRefusals ==
    ASSUME NEW claims, NEW now \in Int, claims.expires_at \in Int, claims.expires_at > now,
           CREDIT \in claims.scopes
    PROVE  /\ Refusal(NAIVE, claims, "issue_credit", Audience, now) = None
           /\ Audience \notin claims.audience =>
                 Refusal(HARDENED, claims, "issue_credit", Audience, now) = "audience_mismatch"
           /\ Audience \in claims.audience =>
                 Refusal(HARDENED, claims, "issue_credit", Audience, now) =
                    IF \A i \in DOMAIN claims.chain : CREDIT \in claims.chain[i].scopes
                    THEN None ELSE "insufficient_effective_scope"
<1>1. ~(claims.expires_at <= now)
  OBVIOUS
<1>2. CREDIT \in EffectiveScopes(claims, FALSE)
  BY DEF EffectiveScopes
<1>3. CREDIT \in EffectiveScopes(claims, TRUE) <=>
        \A i \in DOMAIN claims.chain : CREDIT \in claims.chain[i].scopes
  BY DEF EffectiveScopes
<1>4. /\ NAIVE.check_audience = FALSE /\ NAIVE.attenuate_chain = FALSE
      /\ HARDENED.check_audience = TRUE /\ HARDENED.attenuate_chain = TRUE
  BY DEF NAIVE, HARDENED
<1>. HIDE DEF NAIVE, HARDENED
<1>5. Refusal(NAIVE, claims, "issue_credit", Audience, now) = None
  BY <1>1, <1>2, <1>4, CreditScope DEF Refusal
<1>6. Refusal(HARDENED, claims, "issue_credit", Audience, now) =
        IF Audience \notin claims.audience THEN "audience_mismatch"
        ELSE IF CREDIT \notin EffectiveScopes(claims, TRUE) THEN "insufficient_effective_scope"
        ELSE None
  BY <1>1, <1>4, CreditScope DEF Refusal
<1>. QED  BY <1>3, <1>5, <1>6

\* The verdicts on a token of the build.
Fails(policy, audience, act) ==
    IF policy = NAIVE THEN None
    ELSE IF audience # Audience THEN "audience_mismatch"
    ELSE IF \A i \in DOMAIN Links(act) : CREDIT \in Links(act)[i].scopes
    THEN None ELSE "insufficient_effective_scope"

LEMMA MintedIsJudged ==
    ASSUME NEW bearer, NEW audience, NEW scopes, NEW act, NEW k \in Int, NEW now \in Int, now >= k,
           Minted(bearer, audience, scopes, act, k),
           \/ act = <<>>
           \/ \E given : act = <<Node("alice", given)>>,
           CREDIT \in scopes, NEW policy \in {NAIVE, HARDENED}
    PROVE  Says(policy, bearer, now, IF now >= k + TokenLifetime THEN "token_expired"
                                     ELSE Fails(policy, audience, act))
<1>. DEFINE verified == VerifyToken(bearer, now)
            claims == verified.claims
            fails == Fails(policy, audience, act)
<1>1. /\ verified.failure = IF now >= k + TokenLifetime THEN "token_expired" ELSE None
      /\ claims.expires_at = k + TokenLifetime
      /\ claims.audience = {audience}
      /\ claims.subject = Agent
      /\ claims.scopes = scopes
      /\ claims.chain = Links(act)
  BY MintedVerifies
<1>2. Judged(policy, bearer, now) = Authorize(policy, verified, "issue_credit", Audience, now)
  BY DEF Judged
<1>. HIDE DEF verified
<1>3. k + TokenLifetime \in Int
  BY MatrixAssumption
<1>4. ~(now >= k + TokenLifetime) =>
        Refusal(policy, claims, "issue_credit", Audience, now) = fails
  <2>1. SUFFICES ASSUME k + TokenLifetime > now
                 PROVE  Refusal(policy, claims, "issue_credit", Audience, now) = fails
    BY <1>3
  <2>. HIDE DEF claims
  <2>. QED  BY <1>1, <1>3, <2>1, TheRefusals DEF Fails
<1>5. /\ Judged(policy, bearer, now).reason =
           IF now >= k + TokenLifetime THEN "token_expired" ELSE fails
      /\ Judged(policy, bearer, now).decision =
           DecisionFor(IF now >= k + TokenLifetime THEN "token_expired" ELSE fails)
      /\ Judged(policy, bearer, now).subject \in {Agent, None}
  <2>1. "token_expired" # None
    BY NoneIsNoReason
  <2>. HIDE DEF claims, fails
  <2>2. LET reason == IF verified.failure # None THEN verified.failure
                      ELSE Refusal(policy, claims, "issue_credit", Audience, now)
        IN  /\ Judged(policy, bearer, now).reason = reason
            /\ Judged(policy, bearer, now).decision = DecisionFor(reason)
            /\ Judged(policy, bearer, now).subject =
                 IF verified.failure = None THEN claims.subject ELSE None
    BY <1>2, TheDecision DEF claims
  <2>. QED  BY <1>1, <1>4, <2>1, <2>2
<1>. QED  BY <1>5 DEF Says
-----------------------------------------------------------------------------
(* What setup hands to a turn.                                             *)

\* What is decoded from a token, link by link.
Shows(links, leaf, away) ==
    [links |-> links, effective_scopes |-> leaf \ away, attenuated_away |-> away]

LEMMA ChainIs ==
    ASSUME NEW bearer, NEW audience, NEW scopes, NEW act, Minted(bearer, audience, scopes, act, clock),
           clock \in Int,
           \/ act = <<>>
           \/ \E given : act = <<Node("alice", given)>>
    PROVE  LET effective == {s \in scopes : \A i \in DOMAIN Links(act) : s \in Links(act)[i].scopes}
           IN  ChainOf(bearer) = [ links            |-> Append(Links(act), Link(Agent, scopes)),
                                   effective_scopes |-> effective,
                                   attenuated_away  |-> scopes \ effective ]
<1>. DEFINE claims == VerifyToken(bearer, clock).claims
<1>1. claims.subject = Agent /\ claims.scopes = scopes /\ claims.chain = Links(act)
  BY MintedVerifies
<1>2. ChainOf(bearer) =
        [ links |-> Append(claims.chain, [ subject |-> claims.subject,
                                           scopes  |-> claims.scopes ]),
          effective_scopes |-> EffectiveScopes(claims, TRUE),
          attenuated_away  |-> claims.scopes \ EffectiveScopes(claims, TRUE) ]
  BY DEF ChainOf
<1>. HIDE DEF claims
<1>3. EffectiveScopes(claims, TRUE) =
        {s \in scopes : \A i \in DOMAIN Links(act) : s \in Links(act)[i].scopes}
  BY <1>1 DEF EffectiveScopes
<1>. QED  BY <1>1, <1>2, <1>3 DEF Link

LEMMA AppendToOne ==
    ASSUME NEW x, NEW y
    PROVE  Append(<<x>>, y) = <<x, y>>
<1>. DEFINE T == {x, y}
<1>1. x \in T /\ y \in T
  OBVIOUS
<1>. HIDE DEF T
<1>2. <<x>> \in Seq(T) /\ Len(<<x>>) = 1 /\ <<x>>[1] = x
  BY <1>1
<1>3. /\ Append(<<x>>, y) \in Seq(T) /\ Len(Append(<<x>>, y)) = 2
      /\ Append(<<x>>, y)[1] = x /\ Append(<<x>>, y)[2] = y
  BY <1>1, <1>2, AppendProperties
<1>4. <<x, y>> \in Seq(T) /\ Len(<<x, y>>) = 2 /\ <<x, y>>[1] = x /\ <<x, y>>[2] = y
  BY <1>1
<1>5. \A i \in 1..2 : Append(<<x>>, y)[i] = <<x, y>>[i]
  BY <1>3, <1>4
<1>. QED  BY <1>3, <1>4, <1>5, SeqEqual

LEMMA OneLinkShown ==
    ASSUME NEW bearer, NEW audience, NEW scopes, NEW given, clock \in Int,
           Minted(bearer, audience, scopes, <<Node("alice", given)>>, clock)
    PROVE  ChainOf(bearer) = Shows(<<Link("alice", given), Link(Agent, scopes)>>,
                                   scopes, scopes \ given)
<1>. DEFINE links == Links(<<Node("alice", given)>>)
            effective == {s \in scopes : \A i \in DOMAIN links : s \in links[i].scopes}
<1>1. links = <<Link("alice", given)>>
  BY TheActs DEF Link
<1>2. ChainOf(bearer) = [ links |-> Append(links, Link(Agent, scopes)),
                          effective_scopes |-> effective, attenuated_away |-> scopes \ effective ]
  BY ChainIs
<1>. HIDE DEF links
<1>3. effective = scopes \cap given
  <2>1. Link("alice", given).scopes = given
    BY DEF Link
  <2>2. DOMAIN links = 1..1 /\ links[1] = Link("alice", given)
    BY <1>1
  <2>. QED  BY <2>1, <2>2
<1>. HIDE DEF effective
<1>4. scopes \ effective = scopes \ given /\ effective = scopes \ (scopes \ given)
  BY <1>3
<1>. QED  BY <1>1, <1>2, <1>4, AppendToOne DEF Shows

LEMMA NoLinkShown ==
    ASSUME NEW bearer, NEW audience, NEW scopes, clock \in Int,
           Minted(bearer, audience, scopes, <<>>, clock)
    PROVE  ChainOf(bearer) = Shows(<<Link(Agent, scopes)>>, scopes, {})
<1>. DEFINE links == Links(<<>>)
            effective == {s \in scopes : \A i \in DOMAIN links : s \in links[i].scopes}
<1>1. links = <<>>
  BY TheActs
<1>2. ChainOf(bearer) = [ links |-> Append(links, Link(Agent, scopes)),
                          effective_scopes |-> effective, attenuated_away |-> scopes \ effective ]
  BY ChainIs
<1>. HIDE DEF links
<1>3. effective = scopes
  <2>1. DOMAIN links = {}
    BY <1>1
  <2>. QED  BY <2>1
<1>. HIDE DEF effective
<1>4. scopes \ effective = {} /\ effective = scopes \ {}
  BY <1>3
<1>5. \A y : Append(<<>>, y) = <<y>>
  OBVIOUS
<1>. QED  BY <1>1, <1>2, <1>4, <1>5 DEF Shows

\* chains.json, link by link.
LEMMA TheChains ==
    /\ PublishedChains \in Seq({PublishedChains[i] : i \in 1..6}) /\ Len(PublishedChains) = 6
    /\ \A i \in 1..2 : PublishedChains[i] =
          Shows(<<Link("alice", {READ, FLAG, CREDIT}), Link(Agent, {READ, CREDIT})>>,
                {READ, CREDIT}, {})
    /\ PublishedChains[3] =
          Shows(<<Link("alice", {READ, FLAG}), Link(Agent, {READ, FLAG, CREDIT})>>,
                {READ, FLAG, CREDIT}, {CREDIT})
    /\ \A i \in 4..6 : PublishedChains[i] =
          Shows(<<Link(Agent, {READ, CREDIT})>>, {READ, CREDIT}, {})
<1>. DEFINE whole  == Decoded(<<Link("alice", {READ, FLAG, CREDIT}), Link(Agent, {READ, CREDIT})>>, {})
            narrow == Decoded(<<Link("alice", {READ, FLAG}), Link(Agent, {READ, FLAG, CREDIT})>>,
                              {CREDIT})
            alone  == Decoded(<<Link(Agent, {READ, CREDIT})>>, {})
<1>1. PublishedChains = <<whole, whole, narrow, alone, alone, alone>>
  BY DEF PublishedChains
<1>2. \A x, y, away : Decoded(<<x, y>>, away) = Shows(<<x, y>>, y.scopes, away)
  <2>1. \A x, y : Last(<<x, y>>) = y
    BY DEF Last
  <2>. QED  BY <2>1 DEF Decoded, Shows
<1>3. \A y, away : Decoded(<<y>>, away) = Shows(<<y>>, y.scopes, away)
  <2>1. \A y : Last(<<y>>) = y
    BY DEF Last
  <2>. QED  BY <2>1 DEF Decoded, Shows
<1>4. \A subject, scopes : Link(subject, scopes).scopes = scopes
  BY DEF Link
<1>5. whole = Shows(<<Link("alice", {READ, FLAG, CREDIT}), Link(Agent, {READ, CREDIT})>>,
                    {READ, CREDIT}, {})
  <2>1. \A x, y : y = {READ, CREDIT} =>
           Decoded(<<x, Link(Agent, y)>>, {}) = Shows(<<x, Link(Agent, y)>>, y, {})
    BY <1>2, <1>4
  <2>. QED  BY <2>1
<1>6. narrow = Shows(<<Link("alice", {READ, FLAG}), Link(Agent, {READ, FLAG, CREDIT})>>,
                     {READ, FLAG, CREDIT}, {CREDIT})
  <2>1. \A x, y, z : y = {READ, FLAG, CREDIT} /\ z = {CREDIT} =>
           Decoded(<<x, Link(Agent, y)>>, z) = Shows(<<x, Link(Agent, y)>>, y, z)
    BY <1>2, <1>4
  <2>. QED  BY <2>1
<1>7. alone = Shows(<<Link(Agent, {READ, CREDIT})>>, {READ, CREDIT}, {})
  <2>1. \A y : y = {READ, CREDIT} =>
           Decoded(<<Link(Agent, y)>>, {}) = Shows(<<Link(Agent, y)>>, y, {})
    BY <1>3, <1>4
  <2>. QED  BY <2>1
<1>. HIDE DEF whole, narrow, alone
<1>8. /\ PublishedChains[1] = whole /\ PublishedChains[2] = whole /\ PublishedChains[3] = narrow
      /\ PublishedChains[4] = alone /\ PublishedChains[5] = alone /\ PublishedChains[6] = alone
      /\ Len(PublishedChains) = 6
      /\ PublishedChains \in Seq({PublishedChains[i] : i \in 1..6})
  BY <1>1
<1>9. /\ \A i \in 1..2 : PublishedChains[i] = whole
      /\ \A i \in 4..6 : PublishedChains[i] = alone
  <2>1. (\A i \in 1..2 : i = 1 \/ i = 2) /\ (\A i \in 4..6 : i = 4 \/ i = 5 \/ i = 6)
    OBVIOUS
  <2>. QED  BY <1>8, <2>1
<1>. QED  BY <1>5, <1>6, <1>7, <1>8, <1>9

\* Whether the one link, or none, covers the scope of the tool.
LEMMA TheFailures ==
    /\ \A policy, given : Fails(policy, Audience, <<Node("alice", given)>>) =
          IF policy = NAIVE \/ CREDIT \in given THEN None ELSE "insufficient_effective_scope"
    /\ \A policy : Fails(policy, Audience, <<>>) = None
<1>1. ASSUME NEW given
      PROVE  LET links == Links(<<Node("alice", given)>>)
             IN  (\A i \in DOMAIN links : CREDIT \in links[i].scopes) <=> CREDIT \in given
  <2>. DEFINE links == Links(<<Node("alice", given)>>)
  <2>1. links = <<[subject |-> "alice", scopes |-> given]>>
    BY TheActs
  <2>. HIDE DEF links
  <2>2. DOMAIN links = 1..1 /\ links[1].scopes = given
    BY <2>1
  <2>. QED  BY <2>2 DEF links
<1>2. Links(<<>>) = <<>>
  BY TheActs
<1>3. DOMAIN Links(<<>>) = {}
  BY <1>2
<1>4. \A policy, given : Fails(policy, Audience, <<Node("alice", given)>>) =
         IF policy = NAIVE \/ CREDIT \in given THEN None ELSE "insufficient_effective_scope"
  BY <1>1 DEF Fails
<1>5. \A policy : Fails(policy, Audience, <<>>) = None
  BY <1>3 DEF Fails
<1>. QED  BY <1>4, <1>5

\* The token of a turn says and shows what is published of it.
LEMMA TheTurnsToken ==
    ASSUME NEW t \in 1..12, clock \in Int
    PROVE  LET bearer == TokenOf(ScenarioAt(t).id)
               fails == IF RefusedTurn(t) THEN ReasonOf(t, 1) ELSE None
           IN  /\ bearer.exp = clock + TokenLifetime
               /\ bearer.sub = Agent
               /\ ChainOf(bearer) = PublishedChains[(t + 1) \div 2]
               /\ \A now \in Int : now >= clock =>
                     Says(PolicyAt(t), bearer, now,
                          IF now >= clock + TokenLifetime THEN "token_expired" ELSE fails)
<1>. DEFINE bearer == TokenOf(ScenarioAt(t).id)
            fails == IF RefusedTurn(t) THEN ReasonOf(t, 1) ELSE None
            Answers(now, reason) == Says(PolicyAt(t), bearer, now, reason)
            Good == /\ bearer.exp = clock + TokenLifetime
                    /\ bearer.sub = Agent
                    /\ ChainOf(bearer) = PublishedChains[(t + 1) \div 2]
                    /\ \A now \in Int : now >= clock =>
                          Answers(now, IF now >= clock + TokenLifetime THEN "token_expired" ELSE fails)
<1>1. PolicyAt(t) \in {NAIVE, HARDENED} /\ NAIVE # HARDENED /\ Audience # "elsewhere"
  BY TheReasons, TheTwelve, MatrixAssumption
<1>2. /\ READ # FLAG /\ READ # CREDIT /\ FLAG # CREDIT
  BY DEF READ, FLAG, CREDIT
<1>. HIDE DEF bearer
<1>3. ASSUME NEW audience, NEW scopes, NEW act, Minted(bearer, audience, scopes, act, clock),
             \/ act = <<>>
             \/ \E given : act = <<Node("alice", given)>>,
             CREDIT \in scopes, Fails(PolicyAt(t), audience, act) = fails,
             ChainOf(bearer) = PublishedChains[(t + 1) \div 2]
      PROVE  Good
  <2>1. \A now \in Int : now >= clock =>
           Answers(now, IF now >= clock + TokenLifetime THEN "token_expired" ELSE fails)
    <3>1. ASSUME NEW now \in Int, now >= clock
          PROVE  Answers(now, IF now >= clock + TokenLifetime THEN "token_expired"
                              ELSE Fails(PolicyAt(t), audience, act))
      BY <1>1, <1>3, <3>1, MintedIsJudged
    <3>. HIDE DEF Answers, fails
    <3>. QED  BY <1>3, <3>1
  <2>2. bearer.exp = clock + TokenLifetime /\ bearer.sub = Agent
    BY <1>3 DEF Minted
  <2>. HIDE DEF Answers, fails
  <2>. QED  BY <1>3, <2>1, <2>2
<1>4. ReasonOf(4, 1) = "audience_mismatch" /\ ReasonOf(6, 1) = "insufficient_effective_scope"
  BY TheReasons DEF ReasonOf
<1>5. ASSUME t \in {1, 2} PROVE Good
  <2>. DEFINE act == <<Node("alice", {READ, FLAG, CREDIT})>>
  <2>1. Minted(bearer, Audience, {READ, CREDIT}, act, clock)
    BY <1>5, TheTokens DEF bearer
  <2>2. Fails(PolicyAt(t), Audience, act) = fails
    <3>1. CREDIT \in {READ, FLAG, CREDIT} /\ fails = None
      BY <1>5, TheReasons
    <3>. HIDE DEF fails
    <3>. QED  BY <3>1, TheFailures
  <2>3. {READ, CREDIT} \ {READ, FLAG, CREDIT} = {} /\ (t + 1) \div 2 \in 1..2
    BY <1>5
  <2>4. ChainOf(bearer) = PublishedChains[(t + 1) \div 2]
    <3>1. ChainOf(bearer) =
            Shows(<<Link("alice", {READ, FLAG, CREDIT}), Link(Agent, {READ, CREDIT})>>,
                  {READ, CREDIT}, {READ, CREDIT} \ {READ, FLAG, CREDIT})
      BY <2>1, OneLinkShown
    <3>. QED  BY <2>3, <3>1, TheChains
  <2>. HIDE DEF Good
  <2>. QED  BY <1>3, <2>1, <2>2, <2>4
<1>6. ASSUME t \in {3, 4} PROVE Good
  <2>. DEFINE act == <<Node("alice", {READ, FLAG, CREDIT})>>
  <2>1. Minted(bearer, "elsewhere", {READ, CREDIT}, act, clock)
    BY <1>6, TheTokens DEF bearer
  <2>2. Fails(PolicyAt(t), "elsewhere", act) = fails
    BY <1>1, <1>4, <1>6, TheReasons DEF Fails
  <2>3. {READ, CREDIT} \ {READ, FLAG, CREDIT} = {} /\ (t + 1) \div 2 \in 1..2
    BY <1>6
  <2>4. ChainOf(bearer) = PublishedChains[(t + 1) \div 2]
    <3>1. ChainOf(bearer) =
            Shows(<<Link("alice", {READ, FLAG, CREDIT}), Link(Agent, {READ, CREDIT})>>,
                  {READ, CREDIT}, {READ, CREDIT} \ {READ, FLAG, CREDIT})
      BY <2>1, OneLinkShown
    <3>. QED  BY <2>3, <3>1, TheChains
  <2>. HIDE DEF Good
  <2>. QED  BY <1>3, <2>1, <2>2, <2>4
<1>7. ASSUME t \in {5, 6} PROVE Good
  <2>. DEFINE act == <<Node("alice", {READ, FLAG})>>
  <2>1. Minted(bearer, Audience, {READ, FLAG, CREDIT}, act, clock)
    BY <1>7, TheTokens DEF bearer
  <2>2. Fails(PolicyAt(t), Audience, act) = fails
    <3>1. CREDIT \notin {READ, FLAG}
      BY <1>2
    <3>2. Fails(PolicyAt(t), Audience, act) =
            IF PolicyAt(t) = NAIVE THEN None ELSE "insufficient_effective_scope"
      BY <3>1, TheFailures
    <3>. QED  BY <1>1, <1>4, <1>7, <3>2, TheReasons
  <2>3. {READ, FLAG, CREDIT} \ {READ, FLAG} = {CREDIT} /\ (t + 1) \div 2 = 3
    BY <1>2, <1>7
  <2>4. ChainOf(bearer) = PublishedChains[(t + 1) \div 2]
    BY <2>1, <2>3, OneLinkShown, TheChains
  <2>. HIDE DEF Good
  <2>. QED  BY <1>3, <2>1, <2>2, <2>4
<1>8. ASSUME t \in 7..12 PROVE Good
  <2>1. Minted(bearer, Audience, {READ, CREDIT}, <<>>, clock)
    BY <1>8, TheTokens DEF bearer
  <2>2. Fails(PolicyAt(t), Audience, <<>>) = fails
    BY <1>8, TheReasons, TheFailures
  <2>3. (t + 1) \div 2 \in 4..6
    BY <1>8
  <2>4. ChainOf(bearer) = PublishedChains[(t + 1) \div 2]
    BY <2>1, <2>3, NoLinkShown, TheChains
  <2>. HIDE DEF Good
  <2>. QED  BY <1>3, <2>1, <2>2, <2>4
<1>9. Good
  BY <1>5, <1>6, <1>7, <1>8
<1>. QED  BY <1>9 DEF bearer
-----------------------------------------------------------------------------
(* What a statement of a call does, under either policy.                   *)
Answer(decision, reason, a, c) ==
    [decision |-> decision, reason |-> reason, approval_id |-> a, effect_id |-> c]
Tells(c, answer) ==
    /\ pc' = [pc EXCEPT ![c] = "commit"]
    /\ outcome' = [outcome EXCEPT ![c] = answer]

StartsWith(c, verdict) ==
    /\ pc[c] = "idle"
    /\ req' = [req EXCEPT ![c] = TheRequest(token)]
    /\ moment' = [moment EXCEPT ![c] = clock]
    /\ \/ verdict.decision = "denied" /\ Tells(c, Answer("denied", verdict.reason, None, None))
       \/ /\ verdict.decision = "allowed"
          /\ pc' = [pc EXCEPT ![c] = "lookup"] /\ outcome' = outcome
    /\ UNCHANGED <<clock, approval, effect, audit, found>>

Quits(c) == Raises(c) /\ audit' = audit
RowsFor(c) == Matching(req[c].token.sub, req[c].tool, req[c].account, req[c].amount)
Looks(c) ==
    /\ pc[c] = "lookup"
    /\ \/ /\ \E a \in LatestLive(RowsFor(c), moment[c]) : found' = [found EXCEPT ![c] = a]
          /\ pc' = [pc EXCEPT ![c] = "consume"] /\ outcome' = outcome
       \/ /\ LatestLive(RowsFor(c), moment[c]) = {} /\ found' = found
          /\ Tells(c, Answer("denied", IF RowsFor(c) # {} THEN "approval_expired"
                                       ELSE "approval_required", None, None))
    /\ UNCHANGED <<approval, effect, audit>>
Uses(c) ==
    /\ pc[c] = "consume"
    /\ Consumable(found[c]) => pc' = [pc EXCEPT ![c] = "insert"] /\ outcome' = outcome
    /\ UNCHANGED <<approval, effect, audit, found>>
Books(c) ==
    /\ pc[c] = "insert"
    /\ \E answer : /\ Tells(c, answer)
                    /\ answer.decision = "allowed" /\ answer.reason = None
                    /\ answer.approval_id = found[c] /\ answer.effect_id = c
    /\ UNCHANGED <<approval, effect, audit, found>>
TheEffectOf(c) ==
    [ approval_id |-> found[c], subject |-> req[c].token.sub, tool |-> req[c].tool,
      account |-> req[c].account, amount |-> req[c].amount ]
TheAuditOf(c, subject) ==
    [ subject |-> subject, decision |-> outcome[c].decision, reason |-> outcome[c].reason,
      approval_id |-> outcome[c].approval_id, effect_id |-> outcome[c].effect_id ]
Writes(c, subject) ==
    /\ pc[c] = "commit"
    /\ \E end \in {"returned", "lost"} : pc' = [pc EXCEPT ![c] = end]
    /\ IF outcome[c].effect_id # None
       THEN /\ approval' = [approval EXCEPT ![found[c]].consumed_at = moment[c]]
            /\ effect' = [effect EXCEPT ![c] = TheEffectOf(c)]
       ELSE UNCHANGED <<approval, effect>>
    /\ audit' = [audit EXCEPT ![c] = TheAuditOf(c, subject)]
    /\ UNCHANGED <<found, outcome>>
GoesOn(c, subject) ==
    /\ Quits(c) \/ Looks(c) \/ Uses(c) \/ Books(c) \/ Writes(c, subject)
    /\ UNCHANGED <<clock, req, moment>>

LEMMA NaiveStarts ==
    ASSUME NEW c, Naive!CallTool(c, TheRequest(token))
    PROVE  StartsWith(c, Naive!VerdictOn(TheRequest(token), clock))
<1>1. \A reason : Naive!Denied(reason) = Answer("denied", reason, None, None)
  BY DEF Naive!Denied, Answer
<1>2. TheRequest(token).tool \in Naive!IRREVERSIBLE_TOOLS
  BY DEF TheRequest, Naive!IRREVERSIBLE_TOOLS
<1>. DEFINE verdict == Naive!VerdictOn(TheRequest(token), clock)
<1>3. /\ pc[c] = "idle"
      /\ req' = [req EXCEPT ![c] = TheRequest(token)]
      /\ moment' = [moment EXCEPT ![c] = clock]
      /\ \/ verdict.decision = "denied" /\ Naive!Decide(c, Naive!Denied(verdict.reason))
         \/ verdict.decision = "allowed" /\ Naive!Route(c, TheRequest(token).tool)
      /\ UNCHANGED <<clock, approval, effect, audit, found>>
  BY DEF Naive!CallTool, Naive!tables
<1>. HIDE DEF verdict
<1>4. \/ verdict.decision = "denied" /\ Tells(c, Answer("denied", verdict.reason, None, None))
      \/ /\ verdict.decision = "allowed"
         /\ pc' = [pc EXCEPT ![c] = "lookup"] /\ outcome' = outcome
  BY <1>1, <1>2, <1>3 DEF Naive!Route, Naive!Decide, Naive!GoTo, Tells
<1>5. StartsWith(c, verdict)
  BY <1>3, <1>4 DEF StartsWith
<1>. QED  BY <1>5 DEF verdict

LEMMA NaiveGoesOn ==
    ASSUME NEW c \in Calls, pc[c] # "quota",
           Naive!Step(c) \/ Naive!CommitReplyLost(c) \/ Naive!Fail(c)
    PROVE  GoesOn(c, Naive!VerdictOn(req[c], moment[c]).subject)
<1>. DEFINE subject == Naive!VerdictOn(req[c], moment[c]).subject
<1>1. ASSUME Naive!Raise(c) PROVE GoesOn(c, subject)
  <2>. HIDE DEF subject
  <2>. QED  BY <1>1 DEF Naive!Raise, Naive!tables, Raises, Quits, GoesOn
<1>2. CASE Naive!Lookup(c)
  <2>1. CASE Naive!Raise(c)
    BY <1>1, <2>1
  <2>. DEFINE lookup == Naive!FindMatchingApproval(Naive!Subject(c), req[c].tool,
                                                   req[c].account, req[c].amount, moment[c])
  <2>2. /\ lookup.approvals = LatestLive(RowsFor(c), moment[c])
        /\ lookup.approvals = {} => (lookup.expired <=> RowsFor(c) # {})
    <3>1. Naive!Matching(req[c].token.sub, req[c].tool, req[c].account, req[c].amount) = RowsFor(c)
      BY DEF Naive!Matching, Naive!ApprovalRows, RowsFor, Matching, ApprovalRows
    <3>2. Naive!LatestLive(RowsFor(c), moment[c]) = LatestLive(RowsFor(c), moment[c])
      BY DEF Naive!LatestLive, LatestLive
    <3>3. lookup = [ approvals |-> LatestLive(RowsFor(c), moment[c]),
                     expired   |-> RowsFor(c) # {} /\ LatestLive(RowsFor(c), moment[c]) = {} ]
      BY <3>1, <3>2 DEF Naive!FindMatchingApproval, Naive!Subject
    <3>. HIDE DEF lookup
    <3>. QED  BY <3>3
  <2>. HIDE DEF lookup, subject
  <2>3. \A reason : Naive!Denied(reason) = Answer("denied", reason, None, None)
    BY DEF Naive!Denied, Answer
  <2>4. CASE /\ \E a \in lookup.approvals : found' = [found EXCEPT ![c] = a]
             /\ Naive!GoTo(c, "consume")
             /\ UNCHANGED <<clock, approval, effect, audit, req, moment>>
    BY <1>2, <2>2, <2>4 DEF Naive!Lookup, Naive!GoTo, Looks, GoesOn
  <2>5. CASE /\ lookup.approvals = {} /\ found' = found
             /\ Naive!Decide(c, Naive!Denied(IF lookup.expired THEN "approval_expired"
                                                          ELSE "approval_required"))
             /\ UNCHANGED <<clock, approval, effect, audit, req, moment>>
    BY <1>2, <2>2, <2>3, <2>5 DEF Naive!Lookup, Naive!Decide, Tells, Looks, GoesOn
  <2>. QED  BY <1>2, <2>1, <2>4, <2>5 DEF Naive!Lookup, Naive!tables, lookup
<1>3. CASE Naive!Consume(c)
  <2>. HIDE DEF subject
  <2>. QED  BY <1>3 DEF Naive!Consume, Naive!Consumable, Naive!ApprovalRows, Naive!tables, Naive!GoTo,
                        Consumable, ApprovalRows, Uses, GoesOn
<1>4. CASE Naive!InsertEffect(c)
  <2>1. LET answer == Naive!AllowedBy(found[c], c)
        IN  /\ answer.decision = "allowed" /\ answer.reason = None
            /\ answer.approval_id = found[c] /\ answer.effect_id = c
    BY DEF Naive!AllowedBy, Naive!Allowed
  <2>2. CASE Naive!Raise(c)
    BY <1>1, <2>2
  <2>. HIDE DEF subject
  <2>3. CASE /\ Naive!Decide(c, Naive!AllowedBy(found[c], c)) /\ pc[c] = "insert"
             /\ UNCHANGED <<clock, approval, effect, audit, req, moment, found>>
    BY <2>1, <2>3 DEF Naive!Decide, Tells, Books, GoesOn
  <2>. QED  BY <1>4, <2>2, <2>3 DEF Naive!InsertEffect, Naive!tables
<1>5. CASE Naive!Commit(c) \/ Naive!CommitReplyLost(c)
  <2>1. Naive!AuditOf(c) = TheAuditOf(c, subject)
    BY DEF Naive!AuditOf, Naive!Verdict, TheAuditOf
  <2>2. Naive!EffectOf(c) = TheEffectOf(c)
    BY DEF Naive!EffectOf, Naive!Subject, TheEffectOf
  <2>. HIDE DEF subject
  <2>3. Naive!Apply(c) /\ \E end \in {"returned", "lost"} : pc' = [pc EXCEPT ![c] = end]
    BY <1>5 DEF Naive!Commit, Naive!CommitReplyLost
  <2>4. Writes(c, subject)
    BY <2>1, <2>2, <2>3 DEF Naive!Apply, Naive!WritesEffect, Writes
  <2>5. UNCHANGED <<clock, req, moment>>
    BY <2>3 DEF Naive!Apply
  <2>6. GoesOn(c, subject)
    BY <2>4, <2>5 DEF GoesOn
  <2>. QED  BY <2>6 DEF subject
<1>6. CASE Naive!Fail(c)
  BY <1>1, <1>6 DEF Naive!Fail
<1>7. ~Naive!ConsumeQuota(c)
  BY DEF Naive!ConsumeQuota
<1>. QED  BY <1>2, <1>3, <1>4, <1>5, <1>6, <1>7 DEF Naive!Step

LEMMA HardenedStarts ==
    ASSUME NEW c, Hardened!CallTool(c, TheRequest(token))
    PROVE  StartsWith(c, Hardened!VerdictOn(TheRequest(token), clock))
<1>1. \A reason : Hardened!Denied(reason) = Answer("denied", reason, None, None)
  BY DEF Hardened!Denied, Answer
<1>2. TheRequest(token).tool \in Hardened!IRREVERSIBLE_TOOLS
  BY DEF TheRequest, Hardened!IRREVERSIBLE_TOOLS
<1>. DEFINE verdict == Hardened!VerdictOn(TheRequest(token), clock)
<1>3. /\ pc[c] = "idle"
      /\ req' = [req EXCEPT ![c] = TheRequest(token)]
      /\ moment' = [moment EXCEPT ![c] = clock]
      /\ \/ verdict.decision = "denied" /\ Hardened!Decide(c, Hardened!Denied(verdict.reason))
         \/ verdict.decision = "allowed" /\ Hardened!Route(c, TheRequest(token).tool)
      /\ UNCHANGED <<clock, approval, effect, audit, found>>
  BY DEF Hardened!CallTool, Hardened!tables
<1>. HIDE DEF verdict
<1>4. \/ verdict.decision = "denied" /\ Tells(c, Answer("denied", verdict.reason, None, None))
      \/ /\ verdict.decision = "allowed"
         /\ pc' = [pc EXCEPT ![c] = "lookup"] /\ outcome' = outcome
  BY <1>1, <1>2, <1>3 DEF Hardened!Route, Hardened!Decide, Hardened!GoTo, Tells
<1>5. StartsWith(c, verdict)
  BY <1>3, <1>4 DEF StartsWith
<1>. QED  BY <1>5 DEF verdict

LEMMA HardenedGoesOn ==
    ASSUME NEW c \in Calls, pc[c] # "quota",
           Hardened!Step(c) \/ Hardened!CommitReplyLost(c) \/ Hardened!Fail(c)
    PROVE  GoesOn(c, Hardened!VerdictOn(req[c], moment[c]).subject)
<1>. DEFINE subject == Hardened!VerdictOn(req[c], moment[c]).subject
<1>1. ASSUME Hardened!Raise(c) PROVE GoesOn(c, subject)
  <2>. HIDE DEF subject
  <2>. QED  BY <1>1 DEF Hardened!Raise, Hardened!tables, Raises, Quits, GoesOn
<1>2. CASE Hardened!Lookup(c)
  <2>1. CASE Hardened!Raise(c)
    BY <1>1, <2>1
  <2>. DEFINE lookup == Hardened!FindMatchingApproval(Hardened!Subject(c), req[c].tool,
                                                   req[c].account, req[c].amount, moment[c])
  <2>2. /\ lookup.approvals = LatestLive(RowsFor(c), moment[c])
        /\ lookup.approvals = {} => (lookup.expired <=> RowsFor(c) # {})
    <3>1. Hardened!Matching(req[c].token.sub, req[c].tool, req[c].account, req[c].amount) = RowsFor(c)
      BY DEF Hardened!Matching, Hardened!ApprovalRows, RowsFor, Matching, ApprovalRows
    <3>2. Hardened!LatestLive(RowsFor(c), moment[c]) = LatestLive(RowsFor(c), moment[c])
      BY DEF Hardened!LatestLive, LatestLive
    <3>3. lookup = [ approvals |-> LatestLive(RowsFor(c), moment[c]),
                     expired   |-> RowsFor(c) # {} /\ LatestLive(RowsFor(c), moment[c]) = {} ]
      BY <3>1, <3>2 DEF Hardened!FindMatchingApproval, Hardened!Subject
    <3>. HIDE DEF lookup
    <3>. QED  BY <3>3
  <2>. HIDE DEF lookup, subject
  <2>3. \A reason : Hardened!Denied(reason) = Answer("denied", reason, None, None)
    BY DEF Hardened!Denied, Answer
  <2>4. CASE /\ \E a \in lookup.approvals : found' = [found EXCEPT ![c] = a]
             /\ Hardened!GoTo(c, "consume")
             /\ UNCHANGED <<clock, approval, effect, audit, req, moment>>
    BY <1>2, <2>2, <2>4 DEF Hardened!Lookup, Hardened!GoTo, Looks, GoesOn
  <2>5. CASE /\ lookup.approvals = {} /\ found' = found
             /\ Hardened!Decide(c, Hardened!Denied(IF lookup.expired THEN "approval_expired"
                                                          ELSE "approval_required"))
             /\ UNCHANGED <<clock, approval, effect, audit, req, moment>>
    BY <1>2, <2>2, <2>3, <2>5 DEF Hardened!Lookup, Hardened!Decide, Tells, Looks, GoesOn
  <2>. QED  BY <1>2, <2>1, <2>4, <2>5 DEF Hardened!Lookup, Hardened!tables, lookup
<1>3. CASE Hardened!Consume(c)
  <2>. HIDE DEF subject
  <2>. QED  BY <1>3 DEF Hardened!Consume, Hardened!Consumable, Hardened!ApprovalRows, Hardened!tables, Hardened!GoTo,
                        Consumable, ApprovalRows, Uses, GoesOn
<1>4. CASE Hardened!InsertEffect(c)
  <2>1. LET answer == Hardened!AllowedBy(found[c], c)
        IN  /\ answer.decision = "allowed" /\ answer.reason = None
            /\ answer.approval_id = found[c] /\ answer.effect_id = c
    BY DEF Hardened!AllowedBy, Hardened!Allowed
  <2>2. CASE Hardened!Raise(c)
    BY <1>1, <2>2
  <2>. HIDE DEF subject
  <2>3. CASE /\ Hardened!Decide(c, Hardened!AllowedBy(found[c], c)) /\ pc[c] = "insert"
             /\ UNCHANGED <<clock, approval, effect, audit, req, moment, found>>
    BY <2>1, <2>3 DEF Hardened!Decide, Tells, Books, GoesOn
  <2>. QED  BY <1>4, <2>2, <2>3 DEF Hardened!InsertEffect, Hardened!tables
<1>5. CASE Hardened!Commit(c) \/ Hardened!CommitReplyLost(c)
  <2>1. Hardened!AuditOf(c) = TheAuditOf(c, subject)
    BY DEF Hardened!AuditOf, Hardened!Verdict, TheAuditOf
  <2>2. Hardened!EffectOf(c) = TheEffectOf(c)
    BY DEF Hardened!EffectOf, Hardened!Subject, TheEffectOf
  <2>. HIDE DEF subject
  <2>3. Hardened!Apply(c) /\ \E end \in {"returned", "lost"} : pc' = [pc EXCEPT ![c] = end]
    BY <1>5 DEF Hardened!Commit, Hardened!CommitReplyLost
  <2>4. Writes(c, subject)
    BY <2>1, <2>2, <2>3 DEF Hardened!Apply, Hardened!WritesEffect, Writes
  <2>5. UNCHANGED <<clock, req, moment>>
    BY <2>3 DEF Hardened!Apply
  <2>6. GoesOn(c, subject)
    BY <2>4, <2>5 DEF GoesOn
  <2>. QED  BY <2>6 DEF subject
<1>6. CASE Hardened!Fail(c)
  BY <1>1, <1>6 DEF Hardened!Fail
<1>7. ~Hardened!ConsumeQuota(c)
  BY DEF Hardened!ConsumeQuota
<1>. QED  BY <1>2, <1>3, <1>4, <1>5, <1>6, <1>7 DEF Hardened!Step
-----------------------------------------------------------------------------
(* The calls of a turn.                                                    *)

\* What the driver counts as made before a turn is what the table says.
LEMMA BeforeIs ==
    ASSUME NEW t \in 1..13
    PROVE  SumFunctionOnSet([u \in 1..Turns |-> ScenarioAt(u).calls], 1..(t - 1)) = CallsBefore(t)
<1>. DEFINE f == [u \in 1..Turns |-> ScenarioAt(u).calls]
            Sum(n) == SumFunctionOnSet(f, 1..n)
            Bad == {n \in Nat : n <= 12 /\ Sum(n) # CallsBefore(n + 1)}
<1>1. \A u \in 1..12 : f[u] \in Int /\ CallsBefore(u) + f[u] = CallsBefore(u + 1)
                       /\ CallsBefore(u) \in Nat
  <2>1. Turns = 12 /\ \A u \in 1..12 : ScenarioAt(u).calls \in Int
    BY TheTwelve, TheReasons
  <2>2. \A u \in 1..12 : f[u] = ScenarioAt(u).calls
    BY <2>1
  <2>. HIDE DEF f
  <2>. QED  BY <2>1, <2>2, TheTrail
<1>. HIDE DEF f
<1>2. Sum(0) = CallsBefore(1)
  <2>1. 1..0 = {}
    OBVIOUS
  <2>. QED  BY <2>1, SumOfNothing DEF CallsBefore
<1>3. ASSUME NEW n \in 1..12, Sum(n - 1) = CallsBefore(n)
      PROVE  Sum(n) = CallsBefore(n + 1)
  <2>1. 1..n = (1..(n - 1)) \cup {n} /\ n \notin 1..(n - 1) /\ IsFiniteSet(1..(n - 1))
    BY FS_Interval
  <2>2. \A u \in 1..(n - 1) : f[u] \in Int
    BY <1>1
  <2>3. f[n] \in Int
    BY <1>1
  <2>4. Sum(n) = Sum(n - 1) + f[n]
    BY <2>1, <2>2, <2>3, SumGrows
  <2>. QED  BY <1>1, <1>3, <2>4
<1>4. Bad = {}
  <2>1. SUFFICES ASSUME Bad # {} PROVE FALSE
    OBVIOUS
  <2>2. PICK n \in Bad : \A m \in Bad : n <= m
    <3>1. Bad \subseteq Nat
      OBVIOUS
    <3>. HIDE DEF Bad
    <3>. QED  BY <2>1, <3>1, LeastOfSome
  <2>. HIDE DEF Sum
  <2>3. n \in 1..12
    BY <1>2, <2>2
  <2>4. Sum(n - 1) = CallsBefore((n - 1) + 1)
    BY <2>2, <2>3
  <2>. QED  BY <1>3, <2>2, <2>3, <2>4
<1>5. t - 1 \in Nat /\ t - 1 <= 12 /\ (t - 1) + 1 = t
  OBVIOUS
<1>. HIDE DEF Sum
<1>6. Sum(t - 1) = CallsBefore(t)
  BY <1>4, <1>5
<1>. QED  BY <1>6 DEF Sum, f

\* Two at most: one of them is first.
LEMMA TwoAtMost ==
    ASSUME NEW S, IsFiniteSet(S), Cardinality(S) <= 2, NEW c \in S, NEW d \in S, c # d
    PROVE  S = {c, d} /\ Cardinality(S) = 2
<1>1. IsFiniteSet({c}) /\ Cardinality({c}) = 1 /\ d \notin {c} /\ {c, d} = {c} \cup {d}
  BY FS_Singleton
<1>2. IsFiniteSet({c, d}) /\ Cardinality({c, d}) = 2
  <2>1. IsFiniteSet({c} \cup {d}) /\ Cardinality({c} \cup {d}) = 2
    BY <1>1, FS_AddElement
  <2>. QED  BY <1>1, <2>1
<1>3. {c, d} \in SUBSET S /\ Cardinality(S) \in Nat
  BY FS_CardinalityType
<1>4. Cardinality({c, d}) <= Cardinality(S)
  BY <1>3, FS_Subset
<1>5. Cardinality(S) = Cardinality({c, d})
  BY <1>2, <1>3, <1>4
<1>6. S = {c, d}
  BY <1>3, <1>5, FS_Subset
<1>. QED  BY <1>2, <1>6

LEMMA OneOfOne ==
    ASSUME NEW S, IsFiniteSet(S), Cardinality(S) <= 1, NEW c \in S
    PROVE  S = {c} /\ Cardinality(S) = 1
<1>1. IsFiniteSet({c}) /\ Cardinality({c}) = 1 /\ {c} \in SUBSET S
  BY FS_Singleton
<1>2. Cardinality(S) \in Nat /\ Cardinality({c}) <= Cardinality(S)
  BY <1>1, FS_CardinalityType, FS_Subset
<1>3. Cardinality(S) = 1
  BY <1>1, <1>2
<1>. QED  BY <1>1, <1>3, FS_Subset

\* A turn that is being measured.
InTurn ==
    /\ phase = "calling" /\ turn \in 1..12
    /\ KeysOK /\ Turning
    /\ PastOK /\ WrittenOK /\ JudgedOK /\ RecordedOK /\ CallsOK

LEMMA TheTurnIsOn ==
    ASSUME MatrixInv, GateInv, phase = "calling"
    PROVE  InTurn
BY DEF MatrixInv, GateInv, InTurn, Turning

LEMMA TheCallsMade ==
    ASSUME InTurn
    PROVE  /\ IsFiniteSet(Begun) /\ IsFiniteSet(Mine)
           /\ Mine \subseteq Begun /\ Begun = Past \cup Mine /\ Past \cap Mine = {}
           /\ Cardinality(Mine) \in Nat /\ Cardinality(Past) = CallsBefore(turn)
           /\ Cardinality(Begun) = CallsBefore(turn) + Cardinality(Mine)
           /\ Made = Cardinality(Mine)
           /\ Calls \subseteq Nat
<1>1. Mine \subseteq Begun
  BY DEF InTurn, CallsOK, CallOK, Mine, Begun, Fresh, Naive!Active, Naive!Ended
<1>2. Past = Begun \ Mine
  BY DEF InTurn, Past
<1>3. IsFiniteSet(Past) /\ IsFiniteSet(Mine) /\ Cardinality(Past) = CallsBefore(turn)
  BY DEF InTurn, PastOK, CallsOK
<1>4. Begun = Past \cup Mine /\ Past \cap Mine = {}
  BY <1>1, <1>2
<1>5. Cardinality(Mine) \in Nat /\ CallsBefore(turn) \in Nat
  BY <1>3, FS_CardinalityType
<1>6. IsFiniteSet(Begun) /\ Cardinality(Begun) = CallsBefore(turn) + Cardinality(Mine)
  <2>1. Cardinality(Past \cap Mine) = 0
    BY <1>4, FS_EmptySet
  <2>2. /\ IsFiniteSet(Past \cup Mine)
        /\ Cardinality(Past \cup Mine) = Cardinality(Past) + Cardinality(Mine) - Cardinality(Past \cap Mine)
    BY <1>3, FS_Union
  <2>. HIDE DEF Past, Mine, Begun
  <2>. QED  BY <1>3, <1>4, <1>5, <2>1, <2>2
<1>7. Made = Cardinality(Mine)
  <2>1. Before = CallsBefore(turn)
    <3>1. turn \in 1..13
      BY DEF InTurn
    <3>. QED  BY <3>1, BeforeIs DEF Before
  <2>. QED  BY <1>5, <1>6, <2>1 DEF Made, Begun
<1>. QED  BY <1>1, <1>3, <1>4, <1>5, <1>6, <1>7, MatrixAssumption

\* The pending call is the last of its turn, and those before it returned.
LEMMA ThePendingCall ==
    ASSUME InTurn, NEW c \in Pending
    PROVE  /\ c \in Calls /\ c \in Mine /\ CallOK(c) /\ pc[c] \in Naive!Active
           /\ \A d \in Mine : d # c => d < c /\ pc[d] = "returned"
<1>1. c \in Calls /\ c \in Mine /\ pc[c] \in Naive!Active
  BY DEF Pending, Mine
<1>2. CallOK(c) /\ \A d \in Mine : CallOK(d)
  BY <1>1 DEF InTurn, CallsOK
<1>3. pc[c] # "returned"
  BY <1>1 DEF Naive!Active
<1>4. \A d \in Mine : d # c => d < c
  <2>1. Mine \subseteq Nat
    BY TheCallsMade DEF Mine
  <2>2. \A d \in Mine : ~(c < d)
    BY <1>2, <1>3 DEF CallOK
  <2>. QED  BY <1>1, <2>1, <2>2
<1>. QED  BY <1>1, <1>2, <1>4 DEF CallOK
-----------------------------------------------------------------------------
(* A pending call goes on.                                                 *)

\* Only this call is touched, and it stays one of the turn.
Moved(c, label) ==
    /\ label \in Naive!Active \cup Naive!Ended
    /\ pc' = [pc EXCEPT ![c] = label]
    /\ IsOver(audit', Calls)
    /\ \A d \in Calls : d # c => /\ audit'[d] = audit[d]
                                 /\ effect'[d] = effect[d]
                                 /\ outcome'[d] = outcome[d]
    /\ audit'[c] # None <=> label \in {"returned", "lost"}
    /\ Drawn' = Drawn
    /\ UNCHANGED <<clock, req, moment, driverVars>>

LEMMA SameCalls ==
    ASSUME InTurn, NEW c \in Pending, NEW label, Moved(c, label)
    PROVE  /\ Mine' = Mine /\ Fresh' = Fresh /\ Begun' = Begun /\ Past' = Past
           /\ \A d : Late(d)' = Late(d) /\ Rank(d)' = Rank(d) /\ Told(d)' = Told(d)
           /\ MintedAt' = MintedAt
           /\ c \in Calls /\ pc'[c] = label /\ \A d \in Calls : d # c => pc'[d] = pc[d]
<1>1. c \in Calls /\ c \in Mine /\ pc[c] \in Naive!Active
  BY ThePendingCall
<1>2. pc'[c] = label /\ \A d \in Calls : d # c => pc'[d] = pc[d]
  BY <1>1 DEF InTurn, KeysOK, IsOver, Moved
<1>3. label \in Naive!Active \cup {"raised"} \/ audit'[c] # None
  BY DEF Moved, Naive!Ended
<1>4. Mine' = Mine
  <2>1. \A d \in Calls : d # c => (d \in Mine' <=> d \in Mine)
    BY <1>2 DEF Mine, Moved, Naive!Active
  <2>2. c \in Mine'
    BY <1>1, <1>2, <1>3 DEF Mine, Naive!Active
  <2>3. Mine \subseteq Calls /\ Mine' \subseteq Calls
    BY DEF Mine
  <2>. QED  BY <1>1, <2>1, <2>2, <2>3
<1>5. Fresh' = Fresh
  <2>1. label # "idle" /\ pc[c] # "idle"
    BY <1>1 DEF Moved, Naive!Active, Naive!Ended
  <2>. QED  BY <1>2, <2>1 DEF Fresh
<1>6. phase' = phase /\ turn' = turn /\ token' = token /\ req' = req /\ moment' = moment
  BY DEF Moved, driverVars
<1>7. Begun' = Begun
  BY <1>5 DEF Begun
<1>8. Past' = Past
  BY <1>4, <1>6, <1>7 DEF Past
<1>9. \A d : Late(d)' = Late(d)
  BY <1>6 DEF Late
<1>10. \A d : Rank(d)' = Rank(d)
  BY <1>4 DEF Rank
<1>11. \A d : Told(d)' = Told(d)
  BY <1>6, <1>9, <1>10 DEF Told
<1>12. MintedAt' = MintedAt
  BY <1>6 DEF MintedAt
<1>. QED  BY <1>1, <1>2, <1>4, <1>5, <1>7, <1>8, <1>9, <1>10, <1>11, <1>12

\* What was said of the token and written of the turns before stays true.
LEMMA JudgementStands ==
    ASSUME JudgedOK, UNCHANGED <<clock, token, turn>>
    PROVE  JudgedOK'
<1>1. \A now : VerdictOf(now)' = VerdictOf(now) /\ ReasonAt(now)' = ReasonAt(now)
  BY DEF VerdictOf, ReasonAt, PolicyAt, RefusedTurn, ScenarioAt
<1>2. ChainOf(token)' = ChainOf(token)
  BY DEF ChainOf
<1>3. MintedAt' = MintedAt
  BY DEF MintedAt
<1>. QED  BY <1>1, <1>2, <1>3 DEF JudgedOK

LEMMA TheWrittenStands ==
    ASSUME WrittenOK, Past' = Past, \A d \in Past : Late(d)' = Late(d),
           UNCHANGED <<turn, results, trail, shown, chains>>
    PROVE  WrittenOK'
<1>1. \A policy : EffectsByPolicy(trail, policy)' = EffectsByPolicy(trail, policy)
                  /\ Total(results, policy)' = Total(results, policy)
  BY DEF EffectsByPolicy, Total, PolicyAt
<1>. QED  BY <1>1 DEF WrittenOK

LEMMA OneCallMoved ==
    ASSUME InTurn, (KeysOK /\ Turning)', NEW c \in Pending, NEW label, Moved(c, label),
           CallOK(c)', RecordedOK', Effects' \subseteq Mine
    PROVE  InTurn'
<1>1. /\ Mine' = Mine /\ Fresh' = Fresh /\ Begun' = Begun /\ Past' = Past
      /\ \A d : Late(d)' = Late(d) /\ Rank(d)' = Rank(d) /\ Told(d)' = Told(d)
      /\ MintedAt' = MintedAt
      /\ c \in Calls /\ pc'[c] = label /\ \A d \in Calls : d # c => pc'[d] = pc[d]
  BY SameCalls
<1>2. UNCHANGED <<clock, req, moment, turn, phase, token, results, trail, shown, chains>>
  BY DEF Moved, driverVars
<1>3. JudgedOK'
  BY <1>2, JudgementStands DEF InTurn
<1>4. WrittenOK'
  BY <1>1, <1>2, TheWrittenStands DEF InTurn
<1>5. PastOK'
  <2>1. c \notin Past
    BY ThePendingCall DEF InTurn, Past
  <2>2. \A d \in Past : pc'[d] = "returned"
    BY <1>1, <2>1 DEF InTurn, PastOK, Past, Begun
  <2>3. IsOver(req', Calls) /\ IsOver(audit', Calls) /\ Drawn' = Drawn
    BY <1>2 DEF Moved, InTurn, PastOK
  <2>. QED  BY <1>1, <1>2, <2>2, <2>3 DEF InTurn, PastOK
<1>6. ASSUME NEW d \in Mine, d # c
      PROVE  CallOK(d)'
  <2>1. d \in Calls /\ d < c /\ pc[d] = "returned" /\ CallOK(d)
    BY <1>6, ThePendingCall DEF InTurn, CallsOK, Mine
  <2>2. pc'[d] = "returned" /\ audit'[d] = audit[d] /\ effect'[d] = effect[d] /\ outcome'[d] = outcome[d]
    BY <1>1, <1>6, <2>1 DEF Moved
  <2>3. "returned" \in Naive!Active \cup Naive!Ended /\ "returned" \notin {"lookup", "consume", "insert"}
    BY DEF Naive!Ended
  <2>4. AnsweredOK(d)'
    BY <1>1, <2>1, <2>2 DEF CallOK, AnsweredOK
  <2>. QED  BY <1>1, <1>2, <2>1, <2>2, <2>3, <2>4 DEF CallOK
<1>7. CallsOK'
  <2>1. ScenarioAt(turn)' = ScenarioAt(turn)
    BY <1>2 DEF ScenarioAt
  <2>. QED  BY <1>1, <1>6, <2>1 DEF InTurn, CallsOK
<1>. QED  BY <1>2, <1>3, <1>4, <1>5, <1>7 DEF InTurn

\* A statement that leaves the tables as they are.
LEMMA TablesLeft ==
    ASSUME InTurn, (KeysOK /\ Turning)', NEW c \in Pending,
           NEW label \in Naive!Active \cup {"raised"}, pc' = [pc EXCEPT ![c] = label],
           UNCHANGED <<clock, req, moment, driverVars, approval, effect, audit>>,
           \A d \in Calls : d # c => outcome'[d] = outcome[d],
           label \in {"lookup", "consume", "insert"} => ~Late(c) /\ ~RefusedTurn(turn),
           label \in {"consume", "insert"} =>
               /\ Told(c) = None
               /\ found'[c] \in ApprovalRows /\ approval[found'[c]].consumed_at = None,
           label = "commit" =>
               /\ outcome'[c].reason = Told(c)
               /\ outcome'[c].decision = DecisionFor(Told(c))
               /\ outcome'[c].approval_id \in ApprovalIds \cup {None}
               /\ outcome'[c].effect_id = IF Told(c) = None THEN c ELSE None
    PROVE  InTurn'
<1>1. CallOK(c) /\ c \in Mine /\ c \in Calls /\ pc[c] \in Naive!Active
  BY ThePendingCall
<1>2. audit[c] = None /\ effect[c] = None
  BY <1>1 DEF CallOK, Naive!Active
<1>3. label \notin {"returned", "lost"} /\ label \in Naive!Active \cup Naive!Ended
  BY DEF Naive!Active, Naive!Ended
<1>4. Moved(c, label)
  BY <1>2, <1>3 DEF Moved, InTurn, PastOK, Drawn
<1>5. /\ Mine' = Mine /\ pc'[c] = label
      /\ Late(c)' = Late(c) /\ Told(c)' = Told(c) /\ MintedAt' = MintedAt
  BY <1>4, SameCalls
<1>6. ApprovalRows' = ApprovalRows /\ Effects' = Effects
  BY DEF ApprovalRows, Effects
<1>7. UNCHANGED <<turn, token>>
  BY DEF driverVars
<1>8. RefusedTurn(turn)' = RefusedTurn(turn) /\ ScenarioAt(turn)' = ScenarioAt(turn)
  BY <1>7 DEF RefusedTurn, PolicyAt, ScenarioAt
<1>9. \A d \in Mine : ~(c < d)
  <2>1. Mine \subseteq Nat
    BY TheCallsMade DEF Mine
  <2>2. \A d \in Mine : d # c => d < c
    BY ThePendingCall
  <2>. QED  BY <1>1, <2>1, <2>2
<1>10. label \in {"consume", "insert"} => Consumable(found[c])'
  BY <1>6 DEF Consumable
<1>11. label = "commit" => AnsweredOK(c)'
  BY <1>5 DEF AnsweredOK
<1>12. CallOK(c)'
  BY <1>1, <1>2, <1>3, <1>5, <1>7, <1>8, <1>9, <1>10, <1>11 DEF CallOK
<1>13. RecordedOK'
  BY <1>5, <1>6, <1>8 DEF InTurn, RecordedOK
<1>14. Effects' \subseteq Mine
  BY <1>6 DEF InTurn, CallsOK
<1>. QED  BY <1>4, <1>12, <1>13, <1>14, OneCallMoved

\* The first call of a turn, and the one before the second.
LEMMA TheFirst ==
    ASSUME InTurn, NEW c \in Mine, \A d \in Mine : d # c => d < c
    PROVE  /\ Mine = {c} => Rank(c) = 1
           /\ Mine # {c} => /\ Rank(c) = 2 /\ ScenarioAt(turn).calls = 2
                            /\ \E d \in Mine : d < c /\ Rank(d) = 1 /\ Mine = {d, c}
<1>1. Mine \subseteq Nat /\ IsFiniteSet(Mine) /\ Cardinality(Mine) \in Nat
      /\ Cardinality(Mine) <= ScenarioAt(turn).calls
  BY TheCallsMade DEF Mine, InTurn, CallsOK
<1>2. ScenarioAt(turn).calls \in {1, 2}
  BY TheAnswers DEF InTurn
<1>3. CASE Mine = {c}
  BY <1>1, <1>3 DEF Rank
<1>4. CASE Mine # {c}
  <2>1. PICK d \in Mine : d # c
    BY <1>4
  <2>2. Cardinality(Mine) <= 2
    BY <1>1, <1>2
  <2>3. Mine = {d, c} /\ Cardinality(Mine) = 2
    BY <1>1, <2>1, <2>2, TwoAtMost
  <2>4. d < c /\ d \in Nat /\ c \in Nat
    BY <1>1, <2>1
  <2>5. Rank(c) = 2 /\ Rank(d) = 1
    BY <2>3, <2>4 DEF Rank
  <2>6. ScenarioAt(turn).calls = 2
    BY <1>1, <1>2, <2>3
  <2>. QED  BY <1>4, <2>3, <2>4, <2>5, <2>6
<1>. QED  BY <1>3, <1>4

\* The unconsumed approvals for the request of the turn.
LEMMA TheRowsFor ==
    ASSUME InTurn, NEW c \in Pending
    PROVE  RowsFor(c) = {a \in ApprovalRows : approval[a].consumed_at = None}
<1>1. req[c] = TheRequest(token) /\ token.sub = Agent
  BY ThePendingCall DEF CallOK, InTurn, JudgedOK
<1>2. req[c].token.sub = Agent /\ req[c].tool = "issue_credit" /\ req[c].account = "ACC-1"
      /\ req[c].amount = 1
  BY <1>1 DEF TheRequest
<1>3. \A a \in ApprovalRows : approval[a] \in ApprovalRow
  BY DEF InTurn, KeysOK
<1>4. \A a \in ApprovalRows : /\ approval[a].subject = Agent /\ approval[a].tool = "issue_credit"
                              /\ approval[a].account = "ACC-1" /\ approval[a].amount = 1
  BY <1>3 DEF ApprovalRow
<1>. QED  BY <1>2, <1>4 DEF RowsFor, Matching

\* What the lookup finds, or fails to find, is what the call is to be told.
LEMMA TheLookupTells ==
    ASSUME InTurn, NEW c \in Pending, pc[c] = "lookup"
    PROVE  LET live == LatestLive(RowsFor(c), moment[c]) IN
           /\ live # {} => Told(c) = None
           /\ live = {} => Told(c) = IF RowsFor(c) # {} THEN "approval_expired" ELSE "approval_required"
<1>. DEFINE live == LatestLive(RowsFor(c), moment[c])
            ttl == ScenarioAt(turn).approval_ttl
<1>1. /\ c \in Mine /\ CallOK(c) /\ ~Late(c) /\ ~RefusedTurn(turn) /\ turn \in 1..12
      /\ audit[c] = None /\ moment[c] \in Int /\ token.exp \in Int
      /\ moment[c] < token.exp
      /\ \A d \in Mine : d # c => d < c /\ pc[d] = "returned"
  <2>1. c \in Mine /\ CallOK(c) /\ c \in Calls /\ \A d \in Mine : d # c => d < c /\ pc[d] = "returned"
    BY ThePendingCall
  <2>2. ~Late(c) /\ ~RefusedTurn(turn) /\ audit[c] = None /\ req[c] = TheRequest(token)
    BY <2>1 DEF CallOK
  <2>3. moment[c] \in Int /\ token.exp \in Int /\ turn \in 1..12
    BY <2>1 DEF InTurn, KeysOK, JudgedOK
  <2>4. req[c].token = token
    BY <2>2 DEF TheRequest
  <2>5. moment[c] < token.exp
    BY <2>2, <2>3, <2>4 DEF Late
  <2>. QED  BY <2>1, <2>2, <2>3, <2>5
<1>2. RowsFor(c) = {a \in ApprovalRows : approval[a].consumed_at = None}
  BY TheRowsFor
<1>3. Told(c) = ReasonOf(turn, Rank(c))
  BY <1>1 DEF Told
<1>4. /\ ApprovalRows = {} <=> ttl = None
      /\ \A a \in ApprovalRows : /\ approval[a].expires_at = MintedAt + ttl
                                 /\ approval[a].consumed_at # None <=> Effects # {}
      /\ \A a, b \in ApprovalRows : a = b
  BY DEF InTurn, RecordedOK, Turning, OneOK
<1>5. ApprovalTtl \notin {None, -1} /\ None # -1
  BY NoneIsNoReason, MatrixAssumption
<1>6. ttl = None \/ ttl = -1 \/ ttl = ApprovalTtl
  BY <1>1, TheReasons
<1>7. ASSUME ttl # ApprovalTtl PROVE Rank(c) = 1
  <2>1. ScenarioAt(turn).calls # 2
    BY <1>1, <1>7, TheAnswers
  <2>. QED  BY <1>1, <2>1, TheFirst
<1>8. \A a \in live : a \in RowsFor(c) /\ approval[a].expires_at > moment[c]
  BY DEF LatestLive
<1>9. CASE ttl = None
  <2>1. RowsFor(c) = {} /\ live = {}
    BY <1>2, <1>4, <1>8, <1>9
  <2>2. ReasonOf(turn, 1) = "approval_required"
    BY <1>1, <1>9, TheAnswers
  <2>. QED  BY <1>3, <1>5, <1>7, <1>9, <2>1, <2>2
<1>10. CASE ttl = -1
  <2>1. UnapprovedTurn(turn)
    BY <1>10 DEF UnapprovedTurn
  <2>2. Effects = {} /\ \A a \in ApprovalRows : approval[a].expires_at <= moment[c]
    BY <2>1 DEF InTurn, Turning, UnapprovedOK
  <2>3. RowsFor(c) # {}
    BY <1>2, <1>4, <1>5, <1>10, <2>2
  <2>4. \A a \in ApprovalRows : ~(approval[a].expires_at > moment[c])
    <3>1. \A a \in ApprovalRows : approval[a].expires_at \in Int
      BY DEF InTurn, KeysOK, ApprovalRow
    <3>. QED  BY <1>1, <2>2, <3>1
  <2>5. live = {}
    BY <1>2, <1>8, <2>4
  <2>6. ReasonOf(turn, 1) = "approval_expired"
    BY <1>1, <1>5, <1>10, TheAnswers
  <2>. QED  BY <1>3, <1>5, <1>7, <1>10, <2>3, <2>5, <2>6
<1>11. CASE ttl = ApprovalTtl
  <2>1. \A a \in ApprovalRows : approval[a].expires_at > moment[c]
    <3>1. MintedAt + ttl > moment[c]
      BY <1>1, <1>11, MatrixAssumption DEF MintedAt
    <3>. QED  BY <1>4, <3>1
  <2>2. \A a, b \in ApprovalRows : approval[b].expires_at <= approval[a].expires_at
    <3>1. \A a \in ApprovalRows : approval[a].expires_at \in Int
      BY DEF InTurn, KeysOK, ApprovalRow
    <3>. QED  BY <1>4, <3>1
  <2>3. live = RowsFor(c)
    BY <1>2, <2>1, <2>2 DEF LatestLive
  <2>4. CASE Mine = {c}
    <3>1. Effects = {}
      <4>1. effect[c] = None
        BY <1>1 DEF CallOK
      <4>. QED  BY <2>4, <4>1 DEF InTurn, CallsOK, Effects
    <3>2. RowsFor(c) # {}
      BY <1>2, <1>4, <1>5, <1>11, <3>1
    <3>3. Rank(c) = 1
      BY <1>1, <2>4, TheFirst
    <3>4. ReasonOf(turn, 1) = None
      BY <1>1, <1>5, <1>11, TheAnswers
    <3>. QED  BY <1>3, <2>3, <3>2, <3>3, <3>4
  <2>5. CASE Mine # {c}
    <3>1. PICK d \in Mine : d < c /\ Rank(d) = 1 /\ Rank(c) = 2 /\ ScenarioAt(turn).calls = 2
      BY <1>1, <2>5, TheFirst
    <3>2. d \in Calls /\ c \in Calls /\ d \in Nat /\ c \in Nat /\ CallOK(d)
      BY <1>1, <3>1, MatrixAssumption DEF Mine, InTurn, CallsOK
    <3>3. d # c /\ pc[d] = "returned"
      BY <1>1, <3>1, <3>2
    <3>4. moment[d] <= moment[c] /\ req[d] = TheRequest(token) /\ audit[d] # None
          /\ moment[d] \in Int
      BY <1>1, <3>1, <3>2, <3>3 DEF CallOK, InTurn, KeysOK
    <3>5. ~Late(d)
      <4>1. req[d].token = token
        BY <3>4 DEF TheRequest
      <4>. QED  BY <1>1, <3>4, <4>1 DEF Late
    <3>6. ReasonOf(turn, 1) = None /\ ReasonOf(turn, 2) = "approval_required"
      BY <1>1, <3>1, TheAnswers
    <3>7. effect[d] # None
      BY <3>1, <3>2, <3>4, <3>5, <3>6 DEF CallOK, Told
    <3>8. Effects # {}
      BY <3>2, <3>7 DEF Effects
    <3>9. RowsFor(c) = {}
      BY <1>2, <1>4, <3>8
    <3>. QED  BY <1>3, <2>3, <3>1, <3>6, <3>9
  <2>. QED  BY <2>4, <2>5
<1>. QED  BY <1>6, <1>9, <1>10, <1>11

\* A reason is one that an audit row can hold.
LEMMA ToldIsAReason ==
    ASSUME InTurn, NEW c
    PROVE  Told(c) \in DENIAL_REASONS \cup {None} /\ DecisionFor(Told(c)) \in Decisions
<1>1. turn \in 1..12
  BY DEF InTurn
<1>2. \A t \in 1..12 : PublishedRows[t].reason \in DENIAL_REASONS \cup {None}
  <2>1. {"audience_mismatch", "insufficient_effective_scope", "approval_required",
         "approval_expired", "token_expired"} \subseteq DENIAL_REASONS
    BY DEF DENIAL_REASONS
  <2>2. \A t \in 1..12 : PublishedRows[t].reason \in
           {None, "audience_mismatch", "insufficient_effective_scope", "approval_required",
            "approval_expired"}
    <3>1. ASSUME NEW t \in 1..12
          PROVE  PublishedRows[t].reason \in
                   {None, "audience_mismatch", "insufficient_effective_scope", "approval_required",
                    "approval_expired"}
      <4>1. \/ t = 1 \/ t = 2 \/ t = 3 \/ t = 4 \/ t = 5 \/ t = 6
            \/ t = 7 \/ t = 8 \/ t = 9 \/ t = 10 \/ t = 11 \/ t = 12
        OBVIOUS
      <4>2. /\ PublishedRows[1].reason = None /\ PublishedRows[2].reason = None
            /\ PublishedRows[3].reason = None
            /\ PublishedRows[4].reason = "audience_mismatch"
            /\ PublishedRows[5].reason = None
            /\ PublishedRows[6].reason = "insufficient_effective_scope"
            /\ PublishedRows[7].reason = "approval_required"
            /\ PublishedRows[8].reason = "approval_required"
            /\ PublishedRows[9].reason = "approval_expired"
            /\ PublishedRows[10].reason = "approval_expired"
            /\ PublishedRows[11].reason = "approval_required"
            /\ PublishedRows[12].reason = "approval_required"
        BY DEF PublishedRows, Granted, Row
      <4>. HIDE DEF PublishedRows
      <4>. QED  BY <4>1, <4>2
    <3>. QED  BY <3>1
  <2>. QED  BY <2>1, <2>2
<1>3. "token_expired" \in DENIAL_REASONS /\ {"allowed", "denied"} = Decisions
  BY DEF DENIAL_REASONS, Decisions
<1>. QED  BY <1>1, <1>2, <1>3 DEF Told, ReasonOf, DecisionFor

\* The commit of a call without an effect, and of the one with it.
LEMMA TablesAfter ==
    ASSUME InTurn, NEW c \in Pending, NEW subject, Writes(c, subject)
    PROVE  /\ Drawn' = Drawn /\ ApprovalRows' = ApprovalRows
           /\ Effects' \subseteq Mine
           /\ Told(c) # None => approval' = approval /\ effect' = effect
           /\ Told(c) = None =>
                 /\ effect'[c] # None /\ Effects' # {}
                 /\ \A a \in ApprovalRows : /\ approval'[a].consumed_at # None
                                            /\ approval'[a].expires_at = approval[a].expires_at
           /\ \A d \in Calls : d # c => effect'[d] = effect[d]
<1>1. /\ c \in Calls /\ c \in Mine /\ CallOK(c) /\ pc[c] = "commit" /\ AnsweredOK(c)
      /\ req[c] = TheRequest(token) /\ token.sub = Agent
      /\ Effects \subseteq Mine
  BY ThePendingCall DEF Writes, CallOK, InTurn, JudgedOK, CallsOK
<1>2. outcome[c].effect_id # None <=> Told(c) = None
  BY <1>1, StoreAssumption DEF AnsweredOK
<1>3. CASE Told(c) # None
  <2>1. approval' = approval /\ effect' = effect
    BY <1>2, <1>3 DEF Writes
  <2>. QED  BY <1>1, <1>3, <2>1 DEF Drawn, ApprovalRows, Effects
<1>4. CASE Told(c) = None
  <2>1. /\ found[c] \in ApprovalRows /\ approval[found[c]].consumed_at = None
        /\ \A a \in ApprovalRows : a = found[c]
        /\ found[c] \in ApprovalIds /\ approval[found[c]] \in ApprovalRow
        /\ moment[c] \in Int
    BY <1>1, <1>2, <1>4 DEF InTurn, Turning, OneOK, Spends, KeysOK, ApprovalRows
  <2>2. /\ approval' = [approval EXCEPT ![found[c]].consumed_at = moment[c]]
        /\ effect' = [effect EXCEPT ![c] = TheEffectOf(c)]
    BY <1>2, <1>4 DEF Writes
  <2>3. IsOver(approval, ApprovalIds) /\ IsOver(effect, Calls)
    BY DEF InTurn, KeysOK
  <2>4. effect'[c] = TheEffectOf(c) /\ \A d \in Calls : d # c => effect'[d] = effect[d]
    BY <1>1, <2>2, <2>3 DEF IsOver
  <2>5. TheEffectOf(c) \in IrreversibleEffect
    <3>1. req[c].token.sub = Agent /\ req[c].tool = "issue_credit" /\ req[c].account = "ACC-1"
          /\ req[c].amount = 1
      BY <1>1 DEF TheRequest
    <3>2. 1 \in 1..MaxInt4 /\ "issue_credit" \in IRREVERSIBLE_TOOLS
      BY StoreAssumption DEF IRREVERSIBLE_TOOLS
    <3>. QED  BY <2>1, <3>1, <3>2, BuildAssumption DEF TheEffectOf, IrreversibleEffect
  <2>6. effect'[c] # None
    BY <2>4, <2>5, StoreAssumption
  <2>7. /\ \A a \in ApprovalIds : a # found[c] => approval'[a] = approval[a]
        /\ approval'[found[c]] = [approval[found[c]] EXCEPT !.consumed_at = moment[c]]
    BY <2>1, <2>2, <2>3 DEF IsOver
  <2>8. /\ approval'[found[c]] \in ApprovalRow
        /\ approval'[found[c]].consumed_at # None
        /\ approval'[found[c]].expires_at = approval[found[c]].expires_at
    BY <2>1, <2>7, NoneAssumption DEF ApprovalRow
  <2>9. approval'[found[c]] \notin {Unissued, Wiped} /\ approval[found[c]] \notin {Unissued, Wiped}
    BY <2>1, <2>8, BuildAssumption DEF ApprovalRow
  <2>10. Drawn' = Drawn /\ ApprovalRows' = ApprovalRows
    BY <2>1, <2>7, <2>9 DEF Drawn, ApprovalRows
  <2>11. c \in Effects' /\ \A d \in Effects' : d = c \/ d \in Effects
    BY <1>1, <2>4, <2>6 DEF Effects
  <2>. QED  BY <1>1, <1>4, <2>1, <2>4, <2>6, <2>8, <2>10, <2>11
<1>. QED  BY <1>3, <1>4

LEMMA ACallIsWritten ==
    ASSUME InTurn, (KeysOK /\ Turning)', NEW c \in Pending, NEW subject \in {Agent, None},
           Writes(c, subject), UNCHANGED <<clock, req, moment, driverVars>>
    PROVE  InTurn'
<1>1. /\ c \in Calls /\ c \in Mine /\ CallOK(c) /\ AnsweredOK(c) /\ pc[c] = "commit"
      /\ audit[c] = None /\ effect[c] = None /\ \A d \in Mine : d # c => d < c
  BY ThePendingCall DEF Writes, CallOK
<1>2. PICK end \in {"returned", "lost"} : pc' = [pc EXCEPT ![c] = end]
  BY DEF Writes
<1>3. /\ audit' = [audit EXCEPT ![c] = TheAuditOf(c, subject)]
      /\ UNCHANGED <<found, outcome>>
  BY DEF Writes
<1>4. IsOver(audit, Calls)
  BY DEF InTurn, PastOK
<1>5. /\ IsOver(audit', Calls) /\ audit'[c] = TheAuditOf(c, subject)
      /\ \A d \in Calls : d # c => audit'[d] = audit[d]
  BY <1>1, <1>3, <1>4 DEF IsOver
<1>6. TheAuditOf(c, subject) \in AuditEvent
  <2>1. subject \in Subjects \cup {None}
    BY BuildAssumption
  <2>2. outcome[c].reason \in DENIAL_REASONS \cup {None} /\ outcome[c].decision \in Decisions
    BY <1>1, ToldIsAReason DEF AnsweredOK
  <2>3. outcome[c].approval_id \in ApprovalIds \cup {None} /\ outcome[c].effect_id \in Calls \cup {None}
    BY <1>1 DEF AnsweredOK
  <2>. QED  BY <2>1, <2>2, <2>3 DEF TheAuditOf, AuditEvent
<1>7. audit'[c] # None
  BY <1>5, <1>6, StoreAssumption
<1>8. /\ Drawn' = Drawn /\ ApprovalRows' = ApprovalRows
      /\ Effects' \subseteq Mine
      /\ Told(c) # None => approval' = approval /\ effect' = effect
      /\ Told(c) = None =>
            /\ effect'[c] # None /\ Effects' # {}
            /\ \A a \in ApprovalRows : /\ approval'[a].consumed_at # None
                                       /\ approval'[a].expires_at = approval[a].expires_at
      /\ \A d \in Calls : d # c => effect'[d] = effect[d]
  BY TablesAfter
<1>9. Moved(c, end)
  BY <1>2, <1>3, <1>5, <1>7, <1>8 DEF Moved, Naive!Ended
<1>10. /\ Mine' = Mine /\ pc'[c] = end /\ Late(c)' = Late(c) /\ Told(c)' = Told(c)
       /\ MintedAt' = MintedAt
  BY <1>9, SameCalls
<1>11. UNCHANGED <<turn, token>>
  BY DEF driverVars
<1>12. RefusedTurn(turn)' = RefusedTurn(turn) /\ ScenarioAt(turn)' = ScenarioAt(turn)
  BY <1>11 DEF RefusedTurn, PolicyAt, ScenarioAt
<1>13. CallOK(c)'
  <2>1. \A d \in Mine' : ~(c < d)
    <3>1. Mine \subseteq Nat
      BY TheCallsMade DEF Mine
    <3>. QED  BY <1>1, <1>10, <3>1
  <2>2. end \notin {"lookup", "consume", "insert", "commit"}
        /\ end \in Naive!Active \cup Naive!Ended
    BY DEF Naive!Ended
  <2>3. AnsweredOK(c)'
    BY <1>1, <1>3, <1>10 DEF AnsweredOK
  <2>4. /\ audit'[c].decision = outcome'[c].decision /\ audit'[c].reason = outcome'[c].reason
        /\ audit'[c].effect_id = outcome'[c].effect_id
    BY <1>3, <1>5 DEF TheAuditOf
  <2>5. effect'[c] # None <=> Told(c) = None
    BY <1>1, <1>8
  <2>6. req'[c] = TheRequest(token') /\ MintedAt' <= moment'[c] /\ moment'[c] <= clock'
    BY <1>1, <1>10, <1>11 DEF CallOK
  <2>. QED  BY <1>2, <1>7, <1>10, <2>1, <2>2, <2>3, <2>4, <2>5, <2>6 DEF CallOK
<1>14. RecordedOK'
  <2>1. CASE Told(c) # None
    <3>1. Effects' = Effects
      BY <1>8, <2>1 DEF Effects
    <3>. QED  BY <1>8, <1>10, <1>12, <2>1, <3>1 DEF InTurn, RecordedOK
  <2>2. CASE Told(c) = None
    BY <1>8, <1>10, <1>12, <2>2 DEF InTurn, RecordedOK
  <2>. QED  BY <2>1, <2>2
<1>. QED  BY <1>8, <1>9, <1>13, <1>14, OneCallMoved

LEMMA AnyCallGoesOn ==
    ASSUME InTurn, (KeysOK /\ Turning)', NEW c \in Pending, NEW subject \in {Agent, None},
           GoesOn(c, subject), UNCHANGED driverVars
    PROVE  InTurn'
<1>1. /\ c \in Calls /\ c \in Mine /\ CallOK(c)
      /\ UNCHANGED <<clock, req, moment, driverVars>>
      /\ IsOver(outcome, Calls) /\ IsOver(found, Calls)
  BY ThePendingCall DEF GoesOn, InTurn, KeysOK
<1>2. ASSUME NEW answer, outcome' = [outcome EXCEPT ![c] = answer]
      PROVE  outcome'[c] = answer /\ \A d \in Calls : d # c => outcome'[d] = outcome[d]
  BY <1>1, <1>2 DEF IsOver
<1>3. CASE Quits(c)
  <2>1. \A d \in Calls : d # c => outcome'[d] = outcome[d]
    BY <1>2, <1>3 DEF Quits, Raises
  <2>. QED  BY <1>1, <1>3, <2>1, TablesLeft DEF Quits, Raises
<1>4. CASE Looks(c)
  <2>1. /\ pc[c] = "lookup" /\ ~Late(c) /\ ~RefusedTurn(turn)
        /\ UNCHANGED <<approval, effect, audit>>
    BY <1>1, <1>4 DEF Looks, CallOK
  <2>2. /\ LatestLive(RowsFor(c), moment[c]) # {} => Told(c) = None
        /\ LatestLive(RowsFor(c), moment[c]) = {} =>
              Told(c) = IF RowsFor(c) # {} THEN "approval_expired" ELSE "approval_required"
    BY <2>1, TheLookupTells
  <2>3. CASE /\ \E a \in LatestLive(RowsFor(c), moment[c]) : found' = [found EXCEPT ![c] = a]
             /\ pc' = [pc EXCEPT ![c] = "consume"] /\ outcome' = outcome
    <3>1. PICK a \in LatestLive(RowsFor(c), moment[c]) : found' = [found EXCEPT ![c] = a]
      BY <2>3
    <3>2. found'[c] = a
      BY <1>1, <3>1 DEF IsOver
    <3>3. a \in ApprovalRows /\ approval[a].consumed_at = None
      BY TheRowsFor DEF LatestLive
    <3>4. "consume" \in Naive!Active
      BY DEF Naive!Active
    <3>. QED  BY <1>1, <2>1, <2>2, <2>3, <3>1, <3>2, <3>3, <3>4, TablesLeft
  <2>4. ASSUME LatestLive(RowsFor(c), moment[c]) = {},
               Tells(c, Answer("denied", IF RowsFor(c) # {} THEN "approval_expired"
                                         ELSE "approval_required", None, None))
        PROVE  InTurn'
    <3>1. Tells(c, Answer("denied", Told(c), None, None)) /\ Told(c) # None
      BY <2>2, <2>4, NoneIsNoReason
    <3>2. outcome' = [outcome EXCEPT ![c] = Answer("denied", Told(c), None, None)]
          /\ pc' = [pc EXCEPT ![c] = "commit"]
      BY <3>1 DEF Tells
    <3>3. /\ outcome'[c] = Answer("denied", Told(c), None, None)
          /\ \A d \in Calls : d # c => outcome'[d] = outcome[d]
      BY <1>2, <3>2
    <3>4. /\ outcome'[c].reason = Told(c) /\ outcome'[c].decision = DecisionFor(Told(c))
          /\ outcome'[c].approval_id = None /\ outcome'[c].effect_id = None
      BY <3>1, <3>3 DEF Answer, DecisionFor
    <3>5. "commit" \in Naive!Active
      BY DEF Naive!Active
    <3>. QED  BY <1>1, <2>1, <3>1, <3>2, <3>3, <3>4, <3>5, TablesLeft
  <2>. QED  BY <1>4, <2>3, <2>4 DEF Looks
<1>5. CASE Uses(c)
  <2>1. /\ pc[c] = "consume" /\ ~Late(c) /\ ~RefusedTurn(turn) /\ Told(c) = None
        /\ Consumable(found[c])
    BY <1>1, <1>5 DEF Uses, CallOK
  <2>2. "insert" \in Naive!Active
    BY DEF Naive!Active
  <2>. QED  BY <1>1, <1>5, <2>1, <2>2, TablesLeft DEF Uses, Consumable
<1>6. CASE Books(c)
  <2>1. pc[c] = "insert" /\ Told(c) = None /\ found[c] \in ApprovalIds
    BY <1>1, <1>6 DEF Books, CallOK, Consumable, ApprovalRows
  <2>2. PICK answer : /\ Tells(c, answer)
                      /\ answer.decision = "allowed" /\ answer.reason = None
                      /\ answer.approval_id = found[c] /\ answer.effect_id = c
    BY <1>6 DEF Books
  <2>3. outcome'[c] = answer /\ \A d \in Calls : d # c => outcome'[d] = outcome[d]
    BY <1>2, <2>2 DEF Tells
  <2>4. "commit" \in Naive!Active
    BY DEF Naive!Active
  <2>5. /\ outcome'[c].reason = Told(c) /\ outcome'[c].decision = DecisionFor(Told(c))
        /\ outcome'[c].approval_id \in ApprovalIds /\ outcome'[c].effect_id = c
    BY <2>1, <2>2, <2>3 DEF DecisionFor
  <2>6. pc' = [pc EXCEPT ![c] = "commit"] /\ UNCHANGED <<approval, effect, audit, found>>
    BY <1>6, <2>2 DEF Books, Tells
  <2>. QED  BY <1>1, <2>1, <2>3, <2>4, <2>5, <2>6, TablesLeft
<1>7. CASE Writes(c, subject)
  BY <1>1, <1>7, ACallIsWritten
<1>. QED  BY <1>3, <1>4, <1>5, <1>6, <1>7 DEF GoesOn

LEMMA GateOnCallGoesOn ==
    ASSUME MatrixInv, GateInv, CallGoesOn
    PROVE  GateInv'
<1>1. Pending # {} /\ UNCHANGED driverVars /\ UNCHANGED <<turn, phase, token>>
  BY DEF CallGoesOn, driverVars
<1>2. CASE phase = "failed"
  BY <1>1, <1>2 DEF GateInv
<1>3. CASE phase # "failed"
  <2>1. phase = "calling"
    BY <1>1, <1>3 DEF GateInv
  <2>2. InTurn
    BY <2>1, TheTurnIsOn
  <2>3. PICK c \in Pending :
          IF PolicyAt(turn) = NAIVE
          THEN Naive!Step(c) \/ Naive!CommitReplyLost(c) \/ Naive!Fail(c)
          ELSE Hardened!Step(c) \/ Hardened!CommitReplyLost(c) \/ Hardened!Fail(c)
    BY DEF CallGoesOn
  <2>4. /\ c \in Calls /\ pc[c] # "quota" /\ KeysOK /\ Turning
    BY <2>2 DEF InTurn, Turning, OneOK, Pending
  <2>5. Moves(c)
    BY <2>3, <2>4, NaiveMoves, HardenedMoves
  <2>6. (KeysOK /\ Turning)'
    BY <1>1, <2>4, <2>5, ACallGoesOn
  <2>7. req[c] = TheRequest(token) /\ moment[c] \in Int /\ moment[c] >= MintedAt
    <3>1. CallOK(c)
      BY <2>2, ThePendingCall
    <3>2. moment[c] \in Int /\ MintedAt \in Int
      BY <2>2, <2>4, MatrixAssumption DEF InTurn, KeysOK, JudgedOK, MintedAt
    <3>. QED  BY <3>1, <3>2 DEF CallOK
  <2>8. GoesOn(c, VerdictOf(moment[c]).subject)
    <3>1. CASE PolicyAt(turn) = NAIVE
      BY <2>3, <2>4, <2>7, <3>1, NaiveGoesOn DEF VerdictOf
    <3>2. CASE PolicyAt(turn) # NAIVE
      BY <2>3, <2>4, <2>7, <3>2, HardenedGoesOn DEF VerdictOf
    <3>. QED  BY <3>1, <3>2
  <2>9. VerdictOf(moment[c]).subject \in {Agent, None}
    BY <2>2, <2>7 DEF InTurn, JudgedOK
  <2>10. InTurn'
    BY <1>1, <2>2, <2>6, <2>8, <2>9, AnyCallGoesOn
  <2>. QED  BY <2>10 DEF InTurn, GateInv
<1>. QED  BY <1>2, <1>3
-----------------------------------------------------------------------------
(* A call begins.                                                          *)

\* Nothing that is said of the turn has changed.
LEMMA TheTurnStands ==
    ASSUME InTurn, (KeysOK /\ Turning)',
           UNCHANGED <<clock, approval, effect, audit, pc, req, moment, found, outcome, driverVars>>
    PROVE  InTurn'
<1>1. UNCHANGED <<turn, phase, token, results, trail, shown, chains>>
  BY DEF driverVars
<1>2. /\ Mine' = Mine /\ Fresh' = Fresh /\ Begun' = Begun /\ Drawn' = Drawn
      /\ ApprovalRows' = ApprovalRows /\ Effects' = Effects /\ MintedAt' = MintedAt
  BY <1>1 DEF Mine, Fresh, Begun, Drawn, ApprovalRows, Effects, MintedAt
<1>3. Past' = Past /\ \A d : Late(d)' = Late(d) /\ Rank(d)' = Rank(d) /\ Told(d)' = Told(d)
  <2>1. \A d : Late(d)' = Late(d) /\ Rank(d)' = Rank(d)
    BY <1>1, <1>2 DEF Late, Rank
  <2>. QED  BY <1>1, <1>2, <2>1 DEF Past, Told
<1>4. RefusedTurn(turn)' = RefusedTurn(turn) /\ ScenarioAt(turn)' = ScenarioAt(turn)
  BY <1>1 DEF RefusedTurn, PolicyAt, ScenarioAt
<1>5. JudgedOK'
  BY <1>1, JudgementStands DEF InTurn
<1>6. WrittenOK'
  BY <1>1, <1>3, TheWrittenStands DEF InTurn
<1>7. PastOK'
  BY <1>1, <1>2, <1>3 DEF InTurn, PastOK
<1>8. RecordedOK'
  BY <1>2, <1>4 DEF InTurn, RecordedOK
<1>9. \A d : CallOK(d) => CallOK(d)'
  <2>1. \A d : AnsweredOK(d)' = AnsweredOK(d) /\ Consumable(found[d])' = Consumable(found[d])
    BY <1>2, <1>3 DEF AnsweredOK, Consumable
  <2>. QED  BY <1>1, <1>2, <1>3, <1>4, <2>1 DEF CallOK
<1>10. CallsOK'
  BY <1>2, <1>4, <1>9 DEF InTurn, CallsOK
<1>. QED  BY <1>1, <1>5, <1>6, <1>7, <1>8, <1>10 DEF InTurn

\* The driver calls again only when its last call has returned.
LEMMA AllReturned ==
    ASSUME InTurn, Pending = {}, \A c \in Calls : pc[c] \notin {"raised", "lost"}, NEW d \in Mine
    PROVE  d \in Calls /\ CallOK(d) /\ pc[d] = "returned"
<1>1. d \in Calls /\ CallOK(d)
  BY DEF InTurn, CallsOK, Mine
<1>2. pc[d] \notin Naive!Active
  BY <1>1 DEF Pending
<1>. QED  BY <1>1, <1>2 DEF CallOK, Naive!Ended

LEMMA ACallStarts ==
    ASSUME InTurn, (KeysOK /\ Turning)', NEW c \in Calls, \A d \in Fresh : c <= d,
           Pending = {}, Made < ScenarioAt(turn).calls,
           \A d \in Calls : pc[d] \notin {"raised", "lost"},
           StartsWith(c, VerdictOf(clock)), UNCHANGED driverVars
    PROVE  InTurn'
<1>1. /\ pc[c] = "idle" /\ c \in Fresh /\ c \notin Begun /\ c \notin Mine /\ c \notin Past
      /\ audit[c] = None /\ effect[c] = None
  <2>1. pc[c] = "idle" /\ c \in Fresh /\ c \notin Begun
    BY DEF StartsWith, Fresh, Begun
  <2>2. c \notin Mine /\ c \notin Past
    BY <2>1, TheCallsMade
  <2>. QED  BY <2>1, <2>2 DEF Mine, InTurn, CallsOK, Effects
<1>2. PICK label \in {"commit", "lookup"} : pc' = [pc EXCEPT ![c] = label]
  BY DEF StartsWith, Tells
<1>3. UNCHANGED <<turn, phase, token, results, trail, shown, chains, clock, approval, effect,
                  audit, found>>
  BY DEF driverVars, StartsWith
<1>4. /\ pc'[c] = label /\ req'[c] = TheRequest(token) /\ moment'[c] = clock
      /\ \A d \in Calls : d # c => /\ pc'[d] = pc[d] /\ req'[d] = req[d]
                                   /\ moment'[d] = moment[d] /\ outcome'[d] = outcome[d]
      /\ IsOver(req', Calls)
  <2>1. IsOver(pc, Calls) /\ IsOver(req, Calls) /\ IsOver(moment, Calls) /\ IsOver(outcome, Calls)
    BY DEF InTurn, KeysOK, PastOK
  <2>. QED  BY <1>2, <2>1 DEF StartsWith, Tells, IsOver
<1>5. \A d \in Mine : d \in Calls /\ d # c /\ CallOK(d) /\ pc[d] = "returned"
  BY <1>1, AllReturned
<1>6. /\ Mine' = Mine \cup {c} /\ Fresh' = Fresh \ {c} /\ Begun' = Begun \cup {c} /\ Past' = Past
  <2>1. \A d \in Calls : d # c => /\ d \in Mine' <=> d \in Mine
                                  /\ d \in Fresh' <=> d \in Fresh
    BY <1>3, <1>4 DEF Mine, Fresh
  <2>2. c \in Mine' /\ c \notin Fresh'
    BY <1>2, <1>4 DEF Mine, Fresh, Naive!Active
  <2>3. Mine \subseteq Calls /\ Mine' \subseteq Calls /\ Fresh \subseteq Calls /\ Fresh' \subseteq Calls
    BY DEF Mine, Fresh
  <2>4. Mine' = Mine \cup {c} /\ Fresh' = Fresh \ {c}
    BY <2>1, <2>2, <2>3
  <2>5. Begun' = Begun \cup {c}
    BY <2>4, <1>1 DEF Begun
  <2>6. Past = Begun \ Mine /\ Past' = Begun' \ Mine'
    BY <1>3 DEF InTurn, Past
  <2>. QED  BY <1>1, <2>4, <2>5, <2>6
<1>7. /\ Calls \subseteq Nat /\ IsFiniteSet(Mine) /\ Cardinality(Mine) \in Nat
      /\ Made = Cardinality(Mine) /\ Mine \subseteq Begun /\ Past \subseteq Begun
      /\ Begun \subseteq Calls
  BY TheCallsMade DEF Begun
<1>8. \A b \in Begun : b < c
  BY <1>1 DEF InTurn, PastOK
<1>9. \A d \in Mine \cup Past : Late(d)' = Late(d)
  BY <1>1, <1>3, <1>4, <1>7 DEF Late
<1>10. \A d \in Mine : Rank(d)' = Rank(d) /\ Told(d)' = Told(d)
  <2>1. \A d \in Mine : d <= c
    BY <1>7, <1>8
  <2>2. \A d \in Mine : Rank(d)' = Rank(d)
    BY <1>6, <2>1 DEF Rank
  <2>. QED  BY <1>3, <1>9, <2>2 DEF Told
<1>11. JudgedOK'
  BY <1>3, JudgementStands DEF InTurn
<1>12. WrittenOK'
  BY <1>3, <1>6, <1>9, TheWrittenStands DEF InTurn
<1>13. PastOK'
  <2>1. \A b \in Begun', f \in Fresh' : b < f
    <3>1. \A f \in Fresh' : f \in Fresh /\ f \in Nat /\ c < f
      BY <1>6, <1>7 DEF Fresh
    <3>. QED  BY <1>6, <3>1 DEF InTurn, PastOK
  <2>2. \A d \in Past' : pc'[d] = "returned"
    BY <1>1, <1>4, <1>6, <1>7 DEF InTurn, PastOK
  <2>3. \A p \in Past', d \in Mine' : p < d
    BY <1>6, <1>7, <1>8 DEF InTurn, PastOK
  <2>4. Drawn' = Drawn
    BY <1>3 DEF Drawn
  <2>5. IsOver(audit', Calls)
    BY <1>3 DEF InTurn, PastOK
  <2>. QED  BY <1>3, <1>4, <1>6, <2>1, <2>2, <2>3, <2>4, <2>5 DEF InTurn, PastOK
<1>14. MintedAt' = MintedAt /\ ApprovalRows' = ApprovalRows /\ Effects' = Effects
       /\ RefusedTurn(turn)' = RefusedTurn(turn) /\ ScenarioAt(turn)' = ScenarioAt(turn)
  BY <1>3 DEF MintedAt, ApprovalRows, Effects, RefusedTurn, PolicyAt, ScenarioAt
<1>15. RecordedOK'
  BY <1>3, <1>14 DEF InTurn, RecordedOK
<1>16. ASSUME NEW d \in Mine PROVE CallOK(d)'
  <2>1. d \in Calls /\ d # c /\ CallOK(d) /\ pc[d] = "returned" /\ d < c
    BY <1>5, <1>7, <1>8
  <2>2. /\ pc'[d] = "returned" /\ req'[d] = req[d] /\ moment'[d] = moment[d]
        /\ outcome'[d] = outcome[d] /\ audit'[d] = audit[d] /\ effect'[d] = effect[d]
    BY <1>3, <1>4, <2>1
  <2>3. AnsweredOK(d)'
    BY <1>10, <2>1, <2>2 DEF CallOK, AnsweredOK
  <2>4. \A e \in Mine' : d < e => moment'[d] <= moment'[e]
    BY <1>4, <1>5, <1>6, <2>1, <2>2 DEF CallOK
  <2>5. "returned" \notin {"lookup", "consume", "insert"}
    OBVIOUS
  <2>. QED  BY <1>3, <1>10, <1>14, <2>1, <2>2, <2>3, <2>4, <2>5 DEF CallOK
<1>17. CallOK(c)'
  <2>1. clock \in Int /\ token.exp \in Int /\ MintedAt <= clock /\ turn \in 1..12 /\ MintedAt \in Int
    BY MatrixAssumption DEF InTurn, KeysOK, JudgedOK, MintedAt
  <2>2. /\ VerdictOf(clock).reason = ReasonAt(clock)
        /\ VerdictOf(clock).decision = DecisionFor(ReasonAt(clock))
    BY <2>1 DEF InTurn, JudgedOK
  <2>3. Late(c)' <=> clock >= token.exp
    <3>1. req'[c].token = token
      BY <1>4 DEF TheRequest
    <3>. QED  BY <1>4, <2>1, <3>1 DEF Late
  <2>4. ScenarioAt(turn).calls = 1 => Rank(c)' = 1
    <3>1. ASSUME ScenarioAt(turn).calls = 1 PROVE Mine = {}
      BY <1>7, <3>1, FS_EmptySet
    <3>2. Mine = {} => Rank(c)' = 1
      BY <1>6, <1>7 DEF Rank
    <3>. QED  BY <3>1, <3>2
  <2>5. RefusedTurn(turn) => ScenarioAt(turn).calls = 1 /\ ReasonOf(turn, 1) # None
    BY <2>1, TheAnswers
  <2>6. ReasonAt(clock) # None => Told(c)' = ReasonAt(clock)
    <3>1. ReasonOf(turn, 1)' = ReasonOf(turn, 1)
      BY <1>3 DEF ReasonOf, ScenarioAt
    <3>2. CASE clock >= token.exp
      BY <2>3, <3>2 DEF ReasonAt, Told
    <3>3. CASE ~(clock >= token.exp) /\ RefusedTurn(turn)
      BY <1>3, <2>3, <2>4, <2>5, <3>1, <3>3 DEF ReasonAt, Told
    <3>. QED  BY <3>2, <3>3 DEF ReasonAt
  <2>7. ReasonAt(clock) = None => ~Late(c)' /\ ~RefusedTurn(turn)
    BY <2>3, <2>5, NoneIsNoReason DEF ReasonAt
  <2>8. \A d \in Mine' : ~(c < d)
    BY <1>6, <1>7, <1>8
  <2>9. CASE label = "commit"
    <3>1. VerdictOf(clock).decision = "denied"
          /\ Tells(c, Answer("denied", VerdictOf(clock).reason, None, None))
      BY <1>2, <1>4, <2>9 DEF StartsWith, InTurn, KeysOK, IsOver
    <3>2. ReasonAt(clock) # None
      BY <2>2, <3>1 DEF DecisionFor
    <3>3. outcome'[c] = Answer("denied", ReasonAt(clock), None, None)
      BY <2>2, <3>1 DEF Tells, InTurn, KeysOK, IsOver
    <3>4. AnsweredOK(c)'
      BY <2>6, <3>2, <3>3 DEF AnsweredOK, Answer, DecisionFor
    <3>. QED  BY <1>1, <1>3, <1>4, <1>14, <2>1, <2>8, <2>9, <3>4 DEF CallOK, Naive!Active
  <2>10. CASE label = "lookup"
    <3>1. VerdictOf(clock).decision = "allowed"
      BY <1>2, <1>4, <2>10 DEF StartsWith, Tells, InTurn, KeysOK, IsOver
    <3>2. ReasonAt(clock) = None
      BY <2>2, <3>1 DEF DecisionFor
    <3>. QED  BY <1>1, <1>3, <1>4, <1>14, <2>1, <2>7, <2>8, <2>10, <3>2 DEF CallOK, Naive!Active
  <2>. QED  BY <1>2, <2>9, <2>10
<1>18. CallsOK'
  <2>1. IsFiniteSet(Mine') /\ Cardinality(Mine') = Cardinality(Mine) + 1
    BY <1>1, <1>6, <1>7, FS_AddElement
  <2>2. ScenarioAt(turn).calls \in {1, 2}
    BY TheAnswers DEF InTurn
  <2>3. Cardinality(Mine') <= ScenarioAt(turn).calls
    BY <1>7, <2>1, <2>2
  <2>4. Effects' \subseteq Mine'
    BY <1>6, <1>14 DEF InTurn, CallsOK
  <2>. QED  BY <1>6, <1>14, <1>16, <1>17, <2>1, <2>3, <2>4 DEF CallsOK
<1>. QED  BY <1>3, <1>11, <1>12, <1>13, <1>15, <1>18 DEF InTurn

\* When no call is left to make, the step that would make it changes nothing.
LEMMA NoCallStarts ==
    ASSUME InTurn, (KeysOK /\ Turning)', NEW c, c \notin Calls,
           StartsWith(c, VerdictOf(clock)), UNCHANGED driverVars
    PROVE  InTurn'
<1>1. IsOver(pc, Calls) /\ IsOver(req, Calls) /\ IsOver(moment, Calls) /\ IsOver(outcome, Calls)
  BY DEF InTurn, KeysOK, PastOK
<1>2. \A f, v : IsOver(f, Calls) => [f EXCEPT ![c] = v] = f
  BY DEF IsOver
<1>3. UNCHANGED <<pc, req, moment, outcome>>
  BY <1>1, <1>2 DEF StartsWith, Tells
<1>. QED  BY <1>3, TheTurnStands DEF StartsWith

LEMMA GateOnCall ==
    ASSUME MatrixInv, GateInv, CallIssueCredit
    PROVE  GateInv'
<1>1. InTurn /\ Pending = {} /\ UNCHANGED driverVars /\ UNCHANGED <<turn, phase, token, results>>
  BY TheTurnIsOn DEF CallIssueCredit, driverVars
<1>. DEFINE c == Min(Fresh)
<1>2. IF PolicyAt(turn) = NAIVE THEN Naive!CallTool(c, TheRequest(token))
                                ELSE Hardened!CallTool(c, TheRequest(token))
  BY DEF CallIssueCredit, TheRequest
<1>. HIDE DEF c
<1>3. Begins(c)
  BY <1>1, <1>2, TheTwelve, NaiveBegins, HardenedBegins DEF Turning, InTurn, KeysOK
<1>4. (KeysOK /\ Turning)'
  BY <1>1, <1>3, ACallBegins DEF InTurn
<1>5. StartsWith(c, VerdictOf(clock))
  <2>1. CASE PolicyAt(turn) = NAIVE
    BY <1>2, <2>1, NaiveStarts DEF VerdictOf
  <2>2. CASE PolicyAt(turn) # NAIVE
    BY <1>2, <2>2, HardenedStarts DEF VerdictOf
  <2>. QED  BY <2>1, <2>2
<1>6. CASE c \in Calls
  <2>1. c \in Fresh
    BY <1>5, <1>6 DEF StartsWith, Fresh
  <2>2. \A d \in Fresh : c <= d
    <3>1. Fresh \subseteq Nat
      BY MatrixAssumption DEF Fresh
    <3>. QED  BY <2>1, <3>1, MinIs DEF c
  <2>3. Made < ScenarioAt(turn).calls /\ \A d \in Calls : pc[d] \notin {"raised", "lost"}
    BY DEF CallIssueCredit
  <2>. QED  BY <1>1, <1>4, <1>5, <1>6, <2>2, <2>3, ACallStarts DEF InTurn, GateInv
<1>7. CASE c \notin Calls
  BY <1>1, <1>4, <1>5, <1>7, NoCallStarts DEF InTurn, GateInv
<1>. QED  BY <1>6, <1>7
-----------------------------------------------------------------------------
(* Between the calls: the clock, the reset and the setup.                  *)

LEMMA ThePastStands ==
    ASSUME PastOK, WrittenOK, UNCHANGED <<pc, req, moment, audit, approval, driverVars>>
    PROVE  PastOK' /\ WrittenOK' /\ Mine' = Mine
<1>1. UNCHANGED <<turn, phase, token, results, trail, shown, chains>>
  BY DEF driverVars
<1>2. Mine' = Mine /\ Fresh' = Fresh /\ Begun' = Begun /\ Drawn' = Drawn
  BY DEF Mine, Fresh, Begun, Drawn
<1>3. Past' = Past /\ \A d : Late(d)' = Late(d)
  BY <1>1, <1>2 DEF Past, Late
<1>4. PastOK'
  BY <1>1, <1>2, <1>3 DEF PastOK
<1>. QED  BY <1>1, <1>2, <1>3, <1>4, TheWrittenStands

\* What a token shows does not change with the time.
LEMMA ClaimsStand ==
    ASSUME NEW bearer, NEW now, NEW later
    PROVE  VerifyToken(bearer, now).claims = VerifyToken(bearer, later).claims
BY DEF VerifyToken

LEMMA GateOnTime ==
    ASSUME MatrixInv, MatrixInv', GateInv, TimePasses
    PROVE  GateInv'
<1>1. /\ clock' = clock + 1
      /\ UNCHANGED <<pc, req, moment, audit, approval, effect, found, outcome, driverVars>>
      /\ UNCHANGED <<turn, phase, token>>
  BY DEF TimePasses, Tick, tables, callVars, driverVars
<1>2. CASE phase = "failed"
  BY <1>1, <1>2 DEF GateInv
<1>3. CASE phase # "failed"
  <2>1. PastOK' /\ WrittenOK' /\ Mine' = Mine
    BY <1>1, <1>3, ThePastStands DEF GateInv
  <2>2. Pending' = Pending
    BY <1>1 DEF Pending
  <2>3. ASSUME phase = "calling" PROVE JudgedOK' /\ RecordedOK' /\ CallsOK'
    <3>1. InTurn /\ clock \in Int
      BY <2>3, TheTurnIsOn DEF InTurn, KeysOK
    <3>2. MintedAt' = MintedAt /\ ApprovalRows' = ApprovalRows /\ Effects' = Effects
      BY <1>1 DEF MintedAt, ApprovalRows, Effects
    <3>3. RefusedTurn(turn)' = RefusedTurn(turn) /\ ScenarioAt(turn)' = ScenarioAt(turn)
      BY <1>1 DEF RefusedTurn, PolicyAt, ScenarioAt
    <3>4. MintedAt \in Int
      BY <3>1, MatrixAssumption DEF InTurn, JudgedOK, MintedAt
    <3>5. JudgedOK'
      <4>1. \A now : VerdictOf(now)' = VerdictOf(now) /\ ReasonAt(now)' = ReasonAt(now)
        BY <1>1 DEF VerdictOf, ReasonAt, PolicyAt, RefusedTurn, ScenarioAt
      <4>2. ChainOf(token)' = ChainOf(token)
        BY <1>1, ClaimsStand DEF ChainOf
      <4>3. MintedAt' <= clock'
        BY <1>1, <3>1, <3>2, <3>4 DEF InTurn, JudgedOK
      <4>. QED  BY <1>1, <3>1, <3>2, <4>1, <4>2, <4>3 DEF InTurn, JudgedOK
    <3>6. RecordedOK'
      BY <1>1, <3>1, <3>2, <3>3 DEF InTurn, RecordedOK
    <3>7. ASSUME NEW d \in Mine PROVE CallOK(d)'
      <4>1. CallOK(d) /\ d \in Calls /\ moment[d] \in Int
        BY <3>1 DEF InTurn, CallsOK, Mine, KeysOK
      <4>2. Late(d)' = Late(d) /\ Told(d)' = Told(d) /\ Consumable(found[d])' = Consumable(found[d])
        <5>1. Late(d)' = Late(d) /\ Rank(d)' = Rank(d)
          BY <1>1, <2>1 DEF Late, Rank
        <5>. QED  BY <1>1, <3>2, <5>1 DEF Told, Consumable
      <4>3. moment'[d] <= clock'
        BY <1>1, <3>1, <4>1 DEF CallOK
      <4>4. AnsweredOK(d)' = AnsweredOK(d)
        BY <1>1, <4>2 DEF AnsweredOK
      <4>. QED  BY <1>1, <2>1, <3>2, <3>3, <4>1, <4>2, <4>3, <4>4 DEF CallOK
    <3>8. CallsOK'
      BY <2>1, <3>1, <3>2, <3>3, <3>7 DEF InTurn, CallsOK
    <3>. QED  BY <3>5, <3>6, <3>8
  <2>. QED  BY <1>1, <1>3, <2>1, <2>2, <2>3 DEF GateInv
<1>. QED  BY <1>2, <1>3

LEMMA GateOnNothing ==
    ASSUME MatrixInv, MatrixInv', GateInv, UNCHANGED vars
    PROVE  GateInv'
<1>1. /\ UNCHANGED <<clock, pc, req, moment, audit, approval, effect, found, outcome, driverVars>>
      /\ UNCHANGED <<turn, phase, token>>
  BY DEF vars, tables, callVars, driverVars
<1>2. CASE phase = "failed"
  BY <1>1, <1>2 DEF GateInv
<1>3. CASE phase = "calling"
  <2>1. InTurn
    BY <1>3, TheTurnIsOn
  <2>2. (KeysOK /\ Turning)'
    BY <1>1, <1>3 DEF MatrixInv, Turning
  <2>. QED  BY <1>1, <2>1, <2>2, TheTurnStands DEF InTurn, GateInv
<1>4. CASE phase \notin {"failed", "calling"}
  <2>1. PastOK' /\ WrittenOK'
    BY <1>1, <1>4, ThePastStands DEF GateInv
  <2>2. Pending' = Pending
    BY <1>1 DEF Pending
  <2>. QED  BY <1>1, <1>4, <2>1, <2>2 DEF GateInv
<1>. QED  BY <1>2, <1>3, <1>4

\* After a reset no row is left, and no approval id is drawn again.
LEMMA GateOnClear ==
    ASSUME MatrixInv, GateInv, Clear
    PROVE  GateInv'
<1>1. /\ phase = "clear" /\ phase' \in {"done", "setup"}
      /\ phase' = "done" => turn > Turns
      /\ audit' = [c \in Calls |-> None]
      /\ approval' = [a \in ApprovalIds |-> IF a \in ApprovalRows THEN Wiped ELSE approval[a]]
      /\ UNCHANGED <<clock, pc, req, moment, found, outcome, turn, token, results, trail, shown, chains>>
  BY DEF Clear, callVars
<1>2. /\ PastOK /\ WrittenOK /\ Pending = {} /\ turn \in 1..13 /\ Past = Begun
  BY <1>1 DEF GateInv, MatrixInv, MeasuredOK, Past
<1>3. Fresh' = Fresh /\ Begun' = Begun /\ Past' = Past /\ \A d : Late(d)' = Late(d)
  <2>1. Fresh' = Fresh /\ Begun' = Begun /\ \A d : Late(d)' = Late(d)
    BY <1>1 DEF Fresh, Begun, Late
  <2>. QED  BY <1>1, <1>2, <2>1 DEF Past
<1>4. Mine' = {} /\ Pending' = {}
  <2>1. \A c \in Calls : pc[c] \notin Naive!Active
    BY <1>2 DEF Pending
  <2>2. \A c \in Calls : pc[c] # "raised"
    BY <1>2 DEF PastOK, Begun, Fresh
  <2>. QED  BY <1>1, <2>1, <2>2 DEF Mine, Pending
<1>5. Drawn' = Drawn
  BY <1>1, StoreAssumption DEF Drawn, ApprovalRows
<1>6. PastOK'
  BY <1>1, <1>2, <1>3, <1>4, <1>5 DEF PastOK, IsOver
<1>7. WrittenOK'
  BY <1>1, <1>2, <1>3, TheWrittenStands
<1>8. phase' = "done" => turn' = 13
  BY <1>1, <1>2, TheTwelve
<1>. QED  BY <1>1, <1>4, <1>6, <1>7, <1>8 DEF GateInv

\* The setup finds an id that was never drawn.
LEMMA AnIdIsLeft ==
    ASSUME IsFiniteSet(Drawn), Cardinality(Drawn) <= 11
    PROVE  \E a \in ApprovalIds : approval[a] = Unissued
<1>1. SUFFICES ASSUME \A a \in ApprovalIds : approval[a] # Unissued PROVE FALSE
  OBVIOUS
<1>2. Drawn = ApprovalIds
  BY <1>1 DEF Drawn
<1>3. Cardinality(Drawn) >= 12 /\ Cardinality(Drawn) \in Nat
  BY <1>2, BuildAssumption, FS_CardinalityType
<1>. QED  BY <1>3

LEMMA GateOnSetUp ==
    ASSUME MatrixInv, MatrixInv', GateInv, SetUp
    PROVE  GateInv'
<1>1. /\ phase = "setup" /\ phase' = "calling" /\ token' = TokenOf(ScenarioAt(turn).id)
      /\ UNCHANGED <<clock, effect, audit, pc, req, moment, found, outcome, turn, results, trail,
                     shown, chains>>
  BY DEF SetUp, callVars
<1>2. /\ turn \in 1..12 /\ Pending = {} /\ ApprovalRows = {} /\ Effects = {} /\ KeysOK
      /\ clock \in Int /\ PastOK /\ WrittenOK /\ Mine = {} /\ Past = Begun
      /\ IsFiniteSet(Drawn) /\ Cardinality(Drawn) \in Nat /\ Cardinality(Drawn) <= turn - 1
  BY <1>1, FS_CardinalityType DEF MatrixInv, GateInv, KeysOK, PastOK, Past
<1>3. /\ Mine' = {} /\ Fresh' = Fresh /\ Begun' = Begun /\ Effects' = {} /\ Past' = Past
      /\ \A d \in Past : Late(d)' = Late(d)
  <2>1. Mine' = {} /\ Fresh' = Fresh /\ Begun' = Begun /\ Effects' = {}
        /\ \A d : Late(d)' = Late(d)
    BY <1>1, <1>2 DEF Mine, Fresh, Begun, Effects, Late
  <2>. QED  BY <1>1, <1>2, <2>1 DEF Past
<1>4. WrittenOK'
  BY <1>1, <1>2, <1>3, TheWrittenStands
<1>. DEFINE ttl == ScenarioAt(turn).approval_ttl
            a == CHOOSE i \in ApprovalIds : approval[i] = Unissued
            row == NewApproval(Agent, "issue_credit", "ACC-1", 1, ttl, clock)
<1>5. approval' = IF ttl = None THEN approval ELSE [approval EXCEPT ![a] = row]
  BY DEF SetUp
<1>6. a \in ApprovalIds /\ approval[a] = Unissued
  BY <1>2, AnIdIsLeft
<1>7. ttl # None => ttl \in Int
  BY <1>2, TheReasons, MatrixAssumption
<1>8. ttl # None => /\ row \in ApprovalRow /\ row.expires_at = clock + ttl
                    /\ row.consumed_at = None
  BY <1>2, <1>7 DEF NewApproval, ApprovalRow
<1>. HIDE DEF a, row
<1>9. /\ ttl = None => approval' = approval
      /\ ttl # None => /\ approval'[a] = row /\ row \notin {Unissued, Wiped}
                       /\ \A i \in ApprovalIds : i # a => approval'[i] = approval[i]
  BY <1>2, <1>5, <1>6, <1>8, BuildAssumption DEF KeysOK, IsOver, ApprovalRow
<1>10. /\ ttl = None => ApprovalRows' = {} /\ Drawn' = Drawn
       /\ ttl # None => ApprovalRows' = {a} /\ Drawn' = Drawn \cup {a} /\ a \notin Drawn
  BY <1>2, <1>6, <1>9 DEF ApprovalRows, Drawn
<1>11. /\ token'.exp = clock + TokenLifetime /\ token'.sub = Agent
       /\ ChainOf(token') = PublishedChains[(turn + 1) \div 2]
       /\ \A now \in Int : now >= clock =>
             Says(PolicyAt(turn), token', now,
                  IF now >= clock + TokenLifetime THEN "token_expired"
                  ELSE IF RefusedTurn(turn) THEN ReasonOf(turn, 1) ELSE None)
  BY <1>1, <1>2, TheTurnsToken
<1>12. MintedAt' = clock
  BY <1>2, <1>11, MatrixAssumption DEF MintedAt
<1>13. RefusedTurn(turn)' = RefusedTurn(turn) /\ ScenarioAt(turn)' = ScenarioAt(turn)
       /\ PolicyAt(turn)' = PolicyAt(turn) /\ ReasonOf(turn, 1)' = ReasonOf(turn, 1)
  BY <1>1 DEF RefusedTurn, PolicyAt, ScenarioAt, ReasonOf
<1>14. JudgedOK'
  <2>1. ChainOf(token)' = ChainOf(token')
    BY <1>1 DEF ChainOf
  <2>2. ASSUME NEW now \in Int, now >= clock
        PROVE  /\ VerdictOf(now)'.reason = ReasonAt(now)'
               /\ VerdictOf(now)'.decision = DecisionFor(ReasonAt(now)')
               /\ VerdictOf(now)'.subject \in {Agent, None}
    <3>1. VerdictOf(now)' = Judged(PolicyAt(turn), token', now)
      <4>1. VerdictOf(now)' = IF PolicyAt(turn) = NAIVE
                              THEN Naive!VerdictOn(TheRequest(token'), now)
                              ELSE Hardened!VerdictOn(TheRequest(token'), now)
        BY <1>1 DEF VerdictOf, PolicyAt, TheRequest
      <4>2. PolicyAt(turn) \in {NAIVE, HARDENED}
        BY <1>2, TheReasons
      <4>. QED  BY <4>1, <4>2, TheVerdicts
    <3>2. ReasonAt(now)' = IF now >= clock + TokenLifetime THEN "token_expired"
                           ELSE IF RefusedTurn(turn) THEN ReasonOf(turn, 1) ELSE None
      BY <1>1, <1>11, <1>13 DEF ReasonAt
    <3>. QED  BY <1>11, <2>2, <3>1, <3>2 DEF Says
  <2>3. \A now \in Int : now >= MintedAt' =>
           /\ VerdictOf(now)'.reason = ReasonAt(now)'
           /\ VerdictOf(now)'.decision = DecisionFor(ReasonAt(now)')
           /\ VerdictOf(now)'.subject \in {Agent, None}
    BY <1>12, <2>2
  <2>4. token'.exp \in Int /\ MintedAt' <= clock'
    BY <1>1, <1>2, <1>11, <1>12, MatrixAssumption
  <2>. QED  BY <1>1, <1>11, <2>1, <2>3, <2>4 DEF JudgedOK, DecisionFor
<1>15. RecordedOK'
  <2>1. CASE ttl = None
    BY <1>10, <1>13, <2>1 DEF RecordedOK
  <2>2. CASE ttl # None
    BY <1>3, <1>8, <1>9, <1>10, <1>12, <1>13, <2>2 DEF RecordedOK
  <2>. QED  BY <2>1, <2>2
<1>16. CallsOK'
  BY <1>1, <1>2, <1>3, <1>13, FS_EmptySet, TheAnswers DEF CallsOK
<1>17. PastOK'
  <2>1. CASE ttl = None
    BY <1>1, <1>2, <1>3, <1>10, <2>1 DEF PastOK
  <2>2. CASE ttl # None
    <3>1. IsFiniteSet(Drawn \cup {a}) /\ Cardinality(Drawn \cup {a}) = Cardinality(Drawn) + 1
      BY <1>2, <1>10, <2>2, FS_AddElement
    <3>2. Drawn' = Drawn \cup {a}
      BY <1>10, <2>2
    <3>3. IsFiniteSet(Drawn') /\ Cardinality(Drawn') = Cardinality(Drawn) + 1
      BY <3>1, <3>2
    <3>4. Cardinality(Drawn') <= turn
      BY <1>2, <3>3
    <3>. QED  BY <1>1, <1>2, <1>3, <3>3, <3>4 DEF PastOK
  <2>. QED  BY <2>1, <2>2
<1>. QED  BY <1>1, <1>4, <1>14, <1>15, <1>16, <1>17 DEF GateInv
-----------------------------------------------------------------------------
(* The end of a turn.                                                      *)

LEMMA OneMoreOfThem ==
    ASSUME NEW T, NEW s \in Seq(T), NEW n \in 1..Len(s)
    PROVE  /\ SubSeq(s, 1, n) = SubSeq(s, 1, n - 1) \o <<s[n]>>
           /\ SubSeq(s, 1, n) = Append(SubSeq(s, 1, n - 1), s[n])
<1>1. 1 \in 1..Len(s) /\ n \in 1..Len(s)
  OBVIOUS
<1>2. SubSeq(s, 1, n) = SubSeq(s, 1, n - 1) \o <<s[n]>>
  BY <1>1, SubSeqRecursiveSecond
<1>3. SubSeq(s, 1, n - 1) \in Seq(T)
  OBVIOUS
<1>. QED  BY <1>2, <1>3, JoinOne

\* One more row in the trail, and one more in the matrix.
LEMMA EffectsOfOneMore ==
    ASSUME NEW T, NEW s \in Seq(T), NEW row, NEW policy
    PROVE  /\ EffectsByPolicy(s, policy) \in Nat
           /\ EffectsByPolicy(s \o <<row>>, policy) =
                 EffectsByPolicy(s, policy)
                   + (IF row.policy = policy.name /\ row.effect THEN 1 ELSE 0)
<1>. DEFINE Hit(rows) == {i \in DOMAIN rows : rows[i].policy = policy.name /\ rows[i].effect}
            longer == s \o <<row>>
            n == Len(s)
<1>1. /\ Len(longer) = n + 1 /\ longer[n + 1] = row
      /\ \A i \in 1..n : longer[i] = s[i]
      /\ DOMAIN longer = 1..(n + 1) /\ DOMAIN s = 1..n /\ n \in Nat
  BY JoinOne
<1>2. IsFiniteSet(Hit(s)) /\ Cardinality(Hit(s)) \in Nat
  <2>1. IsFiniteSet(1..n) /\ Hit(s) \in SUBSET (1..n)
    BY <1>1, FS_Interval
  <2>. HIDE DEF Hit
  <2>. QED  BY <2>1, FS_Subset, FS_CardinalityType
<1>. HIDE DEF longer, n
<1>3. CASE row.policy = policy.name /\ row.effect
  <2>1. Hit(longer) = Hit(s) \cup {n + 1} /\ n + 1 \notin Hit(s)
    <3>1. \A i \in 1..n : i \in Hit(longer) <=> i \in Hit(s)
      BY <1>1
    <3>2. n + 1 \in Hit(longer) /\ n + 1 \notin Hit(s)
      BY <1>1, <1>3
    <3>3. Hit(longer) \subseteq 1..(n + 1) /\ Hit(s) \subseteq 1..n
      BY <1>1
    <3>4. \A i \in 1..(n + 1) : i = n + 1 \/ i \in 1..n
      BY <1>1
    <3>. HIDE DEF Hit
    <3>. QED  BY <1>1, <3>1, <3>2, <3>3, <3>4
  <2>. HIDE DEF Hit
  <2>2. Cardinality(Hit(longer)) = Cardinality(Hit(s)) + 1
    BY <1>2, <2>1, FS_AddElement
  <2>. QED  BY <1>2, <1>3, <2>2 DEF Hit, EffectsByPolicy, longer
<1>4. CASE ~(row.policy = policy.name /\ row.effect)
  <2>1. Hit(longer) = Hit(s)
    <3>1. \A i \in 1..n : i \in Hit(longer) <=> i \in Hit(s)
      BY <1>1
    <3>2. n + 1 \notin Hit(longer) /\ n + 1 \notin Hit(s)
      BY <1>1, <1>4
    <3>3. Hit(longer) \subseteq 1..(n + 1) /\ Hit(s) \subseteq 1..n
      BY <1>1
    <3>4. \A i \in 1..(n + 1) : i = n + 1 \/ i \in 1..n
      BY <1>1
    <3>. HIDE DEF Hit
    <3>. QED  BY <1>1, <3>1, <3>2, <3>3, <3>4
  <2>. HIDE DEF Hit
  <2>2. Cardinality(Hit(longer)) = Cardinality(Hit(s))
    BY <2>1
  <2>3. EffectsByPolicy(longer, policy) = EffectsByPolicy(s, policy)
    BY <2>2 DEF Hit, EffectsByPolicy
  <2>4. EffectsByPolicy(s, policy) \in Nat
    BY <1>2 DEF Hit, EffectsByPolicy
  <2>. QED  BY <1>4, <2>3, <2>4 DEF longer
<1>. QED  BY <1>3, <1>4

LEMMA TotalOfOneMore ==
    ASSUME NEW T, NEW s \in Seq(T), NEW row, row.effects \in Nat,
           \A i \in DOMAIN s : s[i].effects \in Nat, NEW policy
    PROVE  /\ Total(s, policy) \in Int
           /\ Total(Append(s, row), policy) =
                 Total(s, policy) + (IF PolicyAt(Len(s) + 1) = policy THEN row.effects ELSE 0)
<1>. DEFINE Its(rows) == {t \in DOMAIN rows : PolicyAt(t) = policy}
            Counts(rows) == [t \in DOMAIN rows |-> rows[t].effects]
            longer == Append(s, row)
            n == Len(s)
<1>1. /\ longer[n + 1] = row
      /\ \A i \in 1..n : longer[i] = s[i]
      /\ DOMAIN longer = 1..(n + 1) /\ DOMAIN s = 1..n /\ n \in Nat
  <2>1. longer \in Seq(T \cup {row}) /\ Len(longer) = n + 1
        /\ longer[n + 1] = row /\ \A i \in 1..n : longer[i] = s[i]
    BY JoinOne
  <2>. QED  BY <2>1
<1>. HIDE DEF longer, n
<1>2. IsFiniteSet(Its(s))
  <2>1. IsFiniteSet(1..n) /\ Its(s) \in SUBSET (1..n)
    BY <1>1, FS_Interval
  <2>. HIDE DEF Its
  <2>. QED  BY <2>1, FS_Subset
<1>3. /\ \A t \in Its(s) : Counts(s)[t] \in Int /\ Counts(longer)[t] \in Int
                           /\ Counts(s)[t] = Counts(longer)[t]
      /\ Counts(longer)[n + 1] = row.effects /\ Counts(longer)[n + 1] \in Int
      /\ n + 1 \notin Its(s)
  BY <1>1
<1>4. Its(longer) = IF PolicyAt(n + 1) = policy THEN Its(s) \cup {n + 1} ELSE Its(s)
  <2>1. \A i \in 1..(n + 1) : i = n + 1 \/ i \in 1..n
    BY <1>1
  <2>. QED  BY <1>1, <2>1
<1>. HIDE DEF Its, Counts
<1>5. /\ SumFunctionOnSet(Counts(s), Its(s)) = SumFunctionOnSet(Counts(longer), Its(s))
      /\ SumFunctionOnSet(Counts(longer), Its(s)) \in Int
      /\ SumFunctionOnSet(Counts(longer), Its(s) \cup {n + 1}) =
            SumFunctionOnSet(Counts(longer), Its(s)) + row.effects
  <2>1. SumFunctionOnSet(Counts(s), Its(s)) = SumFunctionOnSet(Counts(longer), Its(s))
    BY <1>2, <1>3, SumIsOfTheValues
  <2>. QED  BY <1>2, <1>3, <2>1, SumGrows
<1>6. /\ Total(s, policy) = SumFunctionOnSet(Counts(s), Its(s))
      /\ Total(longer, policy) = SumFunctionOnSet(Counts(longer), Its(longer))
  BY DEF Total, Counts, Its
<1>7. CASE PolicyAt(n + 1) = policy
  <2>1. Total(longer, policy) = Total(s, policy) + row.effects
    BY <1>4, <1>5, <1>6, <1>7
  <2>. QED  BY <1>5, <1>6, <1>7, <2>1 DEF longer, n
<1>8. CASE PolicyAt(n + 1) # policy
  <2>1. Total(longer, policy) = Total(s, policy)
    BY <1>4, <1>5, <1>6, <1>8
  <2>. QED  BY <1>5, <1>6, <1>8, <2>1 DEF longer, n
<1>. QED  BY <1>7, <1>8

\* All calls of the turn returned and are in the audit trail, in order.
Closed(c) ==
    /\ Mine = {x \in Calls : audit[x] # None} /\ Cardinality(Mine) = ScenarioAt(turn).calls
    /\ c \in Mine /\ \A d \in Mine : d <= c
    /\ \A d \in Mine : d \in Calls /\ CallOK(d) /\ AnsweredOK(d) /\ pc[d] = "returned" /\ audit[d] # None
    /\ Max({x \in Calls : pc[x] = "returned"}) = c
    /\ \/ ScenarioAt(turn).calls = 1 /\ Mine = {c} /\ Rank(c) = 1
       \/ /\ ScenarioAt(turn).calls = 2 /\ Rank(c) = 2
          /\ \E d \in Mine : d < c /\ Mine = {d, c} /\ Rank(d) = 1

LEMMA TheTurnCloses ==
    ASSUME InTurn, Pending = {}, Made = ScenarioAt(turn).calls, pc[Max(Begun)] = "returned"
    PROVE  \E c \in Mine : Closed(c)
<1>1. /\ Calls \subseteq Nat /\ IsFiniteSet(Mine) /\ Cardinality(Mine) = ScenarioAt(turn).calls
      /\ Mine \subseteq Begun /\ Begun = Past \cup Mine /\ Begun \subseteq Calls
  BY TheCallsMade DEF Begun
<1>2. ScenarioAt(turn).calls \in {1, 2}
  BY TheAnswers DEF InTurn
<1>3. PICK c \in Mine : \A d \in Mine : d <= c
  <2>0. Mine # {}
    BY <1>1, <1>2, FS_EmptySet
  <2>1. PICK x \in Mine : TRUE
    BY <2>0
  <2>2. CASE Mine = {x}
    BY <1>1, <2>1, <2>2
  <2>3. CASE Mine # {x}
    <3>1. PICK y \in Mine : y # x
      BY <2>1, <2>3
    <3>2. Mine = {x, y}
      BY <1>1, <1>2, <2>1, <3>1, TwoAtMost
    <3>3. x \in Nat /\ y \in Nat
      BY <1>1, <2>1, <3>1
    <3>. QED  BY <3>2, <3>3
  <2>. QED  BY <2>2, <2>3
<1>4. \A b \in Begun : b <= c /\ b \in Nat
  <2>1. \A p \in Past : p < c
    BY <1>3 DEF InTurn, PastOK
  <2>2. \A b \in Begun : b \in Nat /\ (b \in Past \/ b \in Mine)
    BY <1>1
  <2>3. c \in Nat
    BY <1>1, <1>3
  <2>. QED  BY <1>3, <2>1, <2>2, <2>3
<1>5. Max(Begun) = c
  <2>1. Begun \subseteq Int /\ c \in Begun /\ \A b \in Begun : b <= c
    BY <1>1, <1>3, <1>4
  <2>. HIDE DEF Begun
  <2>. QED  BY <2>1, MaxIs
<1>6. \A d \in Mine : d \in Calls /\ CallOK(d) /\ pc[d] = "returned"
  <2>1. \A d \in Mine : d # c => d < c
    BY <1>1, <1>3
  <2>2. \A d \in Mine : d \in Calls /\ CallOK(d)
    BY <1>1 DEF InTurn, CallsOK
  <2>. QED  BY <1>3, <1>5, <2>1, <2>2 DEF CallOK
<1>7. \A d \in Mine : audit[d] # None /\ AnsweredOK(d)
  BY <1>6 DEF CallOK
<1>8. Mine = {x \in Calls : audit[x] # None}
  BY <1>7 DEF Mine
<1>9. Max({x \in Calls : pc[x] = "returned"}) = c
  <2>1. {x \in Calls : pc[x] = "returned"} \subseteq Begun
    BY DEF Begun, Fresh
  <2>2. c \in {x \in Calls : pc[x] = "returned"}
    BY <1>3, <1>6
  <2>3. /\ {x \in Calls : pc[x] = "returned"} \subseteq Int
        /\ \A x \in {y \in Calls : pc[y] = "returned"} : x <= c
    BY <1>4, <2>1
  <2>. QED  BY <2>2, <2>3, MaxIs
<1>10. \/ ScenarioAt(turn).calls = 1 /\ Mine = {c} /\ Rank(c) = 1
       \/ /\ ScenarioAt(turn).calls = 2 /\ Rank(c) = 2
          /\ \E d \in Mine : d < c /\ Mine = {d, c} /\ Rank(d) = 1
  <2>1. \A d \in Mine : d # c => d < c
    BY <1>1, <1>3
  <2>2. CASE Mine = {c}
    BY <1>1, <2>1, <2>2, TheFirst, FS_Singleton
  <2>3. CASE Mine # {c}
    BY <1>3, <2>1, <2>3, TheFirst
  <2>. QED  BY <2>2, <2>3
<1>. QED  BY <1>1, <1>3, <1>6, <1>7, <1>8, <1>9, <1>10 DEF Closed

\* What the calls of a closed turn were told, and the effects they had.
LEMMA TheClosedTurn ==
    ASSUME InTurn, NEW c \in Mine, Closed(c)
    PROVE  /\ Effects = {d \in Mine : Told(d) = None}
           /\ \A d \in Mine : AuditRow(d) = Event(PolicyAt(turn).name, DecisionFor(Told(d)), Told(d))
           /\ outcome[c].reason = Told(c) /\ outcome[c].decision = DecisionFor(Told(c))
           /\ Rank(c) = 2 => Told(c) # None
           /\ \A d \in Mine : Rank(d) = 1 =>
                 Cardinality(Effects) = IF Told(d) = None THEN 1 ELSE 0
           /\ (\E d \in Mine : Late(d)) => Told(c) = "token_expired"
           /\ (\A d \in Mine : ~Late(d)) =>
                 /\ \A d \in Mine : Told(d) = ReasonOf(turn, Rank(d))
                 /\ Cardinality(Effects) = Allowance(turn)
                 /\ Told(c) = PublishedRows[turn].reason
<1>1. \A d \in Mine : d \in Calls /\ CallOK(d) /\ AnsweredOK(d) /\ audit[d] # None
  BY DEF Closed
<1>2. Effects = {d \in Mine : Told(d) = None}
  BY <1>1 DEF CallOK, Effects, InTurn, CallsOK
<1>3. ASSUME NEW d \in Mine
      PROVE  AuditRow(d) = Event(PolicyAt(turn).name, DecisionFor(Told(d)), Told(d))
  <2>1. /\ audit[d].decision = DecisionFor(Told(d)) /\ audit[d].reason = Told(d)
        /\ audit[d].effect_id = IF Told(d) = None THEN d ELSE None
    BY <1>1 DEF CallOK, AnsweredOK
  <2>2. (audit[d].effect_id # None) <=> (Told(d) = None)
    BY <1>1, <2>1, StoreAssumption
  <2>3. (audit[d].effect_id # None) = (Told(d) = None)
    BY <2>2
  <2>. QED  BY <2>1, <2>3 DEF AuditRow, Event
<1>4. outcome[c].reason = Told(c) /\ outcome[c].decision = DecisionFor(Told(c))
  BY <1>1 DEF AnsweredOK
<1>5. turn \in 1..12 /\ Calls \subseteq Nat
  BY MatrixAssumption DEF InTurn
<1>6. Rank(c) = 2 => Told(c) # None
  <2>1. ASSUME Rank(c) = 2 PROVE ScenarioAt(turn).calls = 2
    BY <2>1 DEF Closed
  <2>2. ASSUME Rank(c) = 2 PROVE ReasonOf(turn, 2) = "approval_required"
    BY <1>5, <2>1, <2>2, TheAnswers
  <2>. QED  BY <2>2, NoneIsNoReason DEF Told
<1>7. ASSUME NEW d \in Mine, Rank(d) = 1
      PROVE  Effects = IF Told(d) = None THEN {d} ELSE {}
  <2>1. CASE Mine = {c}
    BY <1>2, <1>7, <2>1
  <2>2. CASE Mine # {c}
    <3>1. Rank(c) = 2
      BY <2>2 DEF Closed
    <3>2. Mine = {d, c}
      BY <1>7, <2>2, <3>1 DEF Closed
    <3>. QED  BY <1>2, <1>6, <3>1, <3>2
  <2>. QED  BY <2>1, <2>2
<1>8. \A d \in Mine : Rank(d) = 1 => Cardinality(Effects) = IF Told(d) = None THEN 1 ELSE 0
  BY <1>7, FS_Singleton, FS_EmptySet
<1>9. ASSUME NEW d \in Mine, Late(d) PROVE Told(c) = "token_expired"
  <2>1. req[d] = req[c] /\ CallOK(d)
    BY <1>1, <1>9 DEF CallOK
  <2>2. moment[d] <= moment[c] /\ moment[d] \in Int /\ moment[c] \in Int /\ req[c].token.exp \in Int
    <3>1. d <= c /\ d \in Nat /\ c \in Nat
      BY <1>1, <1>5 DEF Closed
    <3>2. moment[d] \in Int /\ moment[c] \in Int
      BY <1>1 DEF InTurn, KeysOK
    <3>3. d = c \/ d < c
      BY <3>1
    <3>4. req[c].token = token
      BY <1>1 DEF CallOK, TheRequest
    <3>. QED  BY <2>1, <3>2, <3>3, <3>4 DEF CallOK, InTurn, JudgedOK
  <2>3. Late(c)
    BY <1>9, <2>1, <2>2 DEF Late
  <2>. QED  BY <2>3 DEF Told
<1>10. ASSUME \A d \in Mine : ~Late(d)
       PROVE  /\ \A d \in Mine : Told(d) = ReasonOf(turn, Rank(d))
              /\ Cardinality(Effects) = Allowance(turn)
              /\ Told(c) = PublishedRows[turn].reason
  <2>1. \A d \in Mine : Told(d) = ReasonOf(turn, Rank(d))
    BY <1>10 DEF Told
  <2>2. PICK d \in Mine : Rank(d) = 1
    BY DEF Closed
  <2>3. Told(d) = None <=> Allowance(turn) = 1
    BY <1>5, <2>1, <2>2, TheAnswers
  <2>4. Allowance(turn) \in {0, 1}
    BY DEF Allowance
  <2>5. Cardinality(Effects) = Allowance(turn)
    BY <1>8, <2>2, <2>3, <2>4
  <2>6. Rank(c) = ScenarioAt(turn).calls
    BY DEF Closed
  <2>. QED  BY <1>5, <2>1, <2>5, <2>6, TheAnswers
<1>. QED  BY <1>2, <1>3, <1>4, <1>6, <1>8, <1>9, <1>10

\* The approval the turn leaves, seen while its token is live.
LEMMA TheApprovalLeft ==
    ASSUME InTurn, clock < token.exp, Effects # {} <=> Allowance(turn) = 1, NEW a \in ApprovalRows
    PROVE  /\ ApprovalStates = <<ApprovalState(a)>>
           /\ ApprovalState(a) =
                 IF Allowance(turn) = 1 THEN "consumed"
                 ELSE IF ScenarioAt(turn).approval_ttl = -1 THEN "expired" ELSE "pending"
<1>. DEFINE ttl == ScenarioAt(turn).approval_ttl
<1>1. /\ ApprovalRows = {a} /\ ttl # None
      /\ approval[a].expires_at = MintedAt + ttl
      /\ approval[a].consumed_at # None <=> Effects # {}
      /\ clock \in Int /\ token.exp \in Int /\ MintedAt <= clock
  BY DEF InTurn, RecordedOK, Turning, OneOK, KeysOK, JudgedOK
<1>2. ttl = -1 \/ ttl = ApprovalTtl
  BY <1>1, TheReasons DEF InTurn
<1>3. ApprovalStates = <<ApprovalState(a)>>
  <2>1. InOrder(ApprovalRows) = <<a>>
    BY <1>1, InOrderOne
  <2>. QED  BY <2>1 DEF ApprovalStates
<1>4. ttl = -1 => approval[a].expires_at <= clock
  BY <1>1, MatrixAssumption DEF MintedAt
<1>5. ttl = ApprovalTtl => ~(approval[a].expires_at <= clock) /\ ApprovalTtl # -1
  BY <1>1, MatrixAssumption DEF MintedAt
<1>. HIDE DEF ttl
<1>6. ApprovalState(a) =
         IF Allowance(turn) = 1 THEN "consumed" ELSE IF ttl = -1 THEN "expired" ELSE "pending"
  BY <1>1, <1>2, <1>4, <1>5 DEF ApprovalState
<1>. QED  BY <1>3, <1>6 DEF ttl

LEMMA NoApprovalLeft ==
    ASSUME ApprovalRows = {}, NEW T, NEW s \in Seq(T)
    PROVE  s \o ApprovalStates = s
<1>1. DOMAIN InOrder(ApprovalRows) = {}
  BY InOrderNone
<1>. DEFINE rows == InOrder(ApprovalRows)
<1>. HIDE DEF rows
<1>2. ApprovalStates = [i \in {} |-> ApprovalState(rows[i])]
  BY <1>1 DEF ApprovalStates, rows
<1>3. ApprovalStates = [i \in {} |-> ApprovalStates[i]]
  BY <1>2
<1>. QED  BY <1>3, JoinNothing

\* A token whose chain can be decoded has not run out.
LEMMA StillLive ==
    ASSUME token.exp \in Int, clock \in Int, VerifyToken(token, clock).failure = None
    PROVE  clock < token.exp
<1>1. JwtDecodeFailure(token, clock) = None
  <2>1. VerificationFailure(token, clock) = None
    BY DEF VerifyToken
  <2>. QED  BY <2>1 DEF VerificationFailure
<1>2. None \notin {"signature_invalid", "token_malformed", "token_expired"}
  BY NoneAssumption DEF DENIAL_REASONS
<1>3. ~(token.exp <= clock)
  BY <1>1, <1>2 DEF JwtDecodeFailure
<1>. QED  BY <1>3

\* The trail of a turn, and what of it are effects.
LEMMA TheTrailGrows ==
    ASSUME InTurn, NEW c \in Mine, Closed(c)
    PROVE  LET longer == trail \o [i \in DOMAIN AuditRows |-> AuditRow(AuditRows[i])] IN
           /\ longer \in Seq({longer[i] : i \in DOMAIN longer})
           /\ Len(longer) = CallsBefore(turn + 1)
           /\ \A policy \in {NAIVE, HARDENED} :
                 EffectsByPolicy(longer, policy) =
                    EffectsByPolicy(trail, policy)
                      + (IF policy = PolicyAt(turn) THEN Cardinality(Effects) ELSE 0)
           /\ /\ trail = SubSeq(PublishedTrail, 1, CallsBefore(turn))
              /\ \A d \in Mine : Told(d) = ReasonOf(turn, Rank(d))
              => longer = SubSeq(PublishedTrail, 1, CallsBefore(turn + 1))
<1>. DEFINE longer == trail \o [i \in DOMAIN AuditRows |-> AuditRow(AuditRows[i])]
            T == {trail[i] : i \in DOMAIN trail}
            n == CallsBefore(turn)
            row(d) == AuditRow(d)
            name == PolicyAt(turn).name
<1>1. /\ trail \in Seq(T) /\ Len(trail) = n /\ turn \in 1..12 /\ Calls \subseteq Nat
      /\ n \in Nat
  BY MatrixAssumption, TheTrail DEF InTurn, WrittenOK
<1>2. /\ \A d \in Mine : row(d) = Event(name, DecisionFor(Told(d)), Told(d))
      /\ Rank(c) = 2 => Told(c) # None
      /\ \A d \in Mine : Rank(d) = 1 => Cardinality(Effects) = IF Told(d) = None THEN 1 ELSE 0
  BY TheClosedTurn
<1>3. \A d \in Mine : /\ row(d).policy = name
                      /\ row(d).effect <=> Told(d) = None
  <2>1. \A decision, reason : Event(name, decision, reason).policy = name
    BY DEF Event
  <2>2. \A decision, reason : Event(name, decision, reason).effect = (reason = None)
    BY DEF Event
  <2>3. \A d \in Mine : row(d).effect = (Told(d) = None)
    BY <1>2, <2>2
  <2>. HIDE DEF row
  <2>. QED  BY <1>2, <2>1, <2>3
<1>4. \A policy \in {NAIVE, HARDENED} : name = policy.name <=> policy = PolicyAt(turn)
  <2>1. NAIVE.name # HARDENED.name
    BY DEF NAIVE, HARDENED
  <2>. QED  BY <2>1 DEF PolicyAt
<1>5. AuditRows = InOrder(Mine)
  BY DEF AuditRows, Closed
<1>6. PublishedTrail \in Seq({PublishedTrail[i] : i \in 1..14}) /\ Len(PublishedTrail) = 14
  BY TheTrail
<1>7. /\ n + ScenarioAt(turn).calls = CallsBefore(turn + 1)
      /\ CallsBefore(turn + 1) \in 1..14
      /\ \A k \in 1..ScenarioAt(turn).calls :
            PublishedTrail[n + k] = Event(name, DecisionFor(ReasonOf(turn, k)), ReasonOf(turn, k))
  BY <1>1, TheTrail
<1>. HIDE DEF T, n, row, name
<1>8. CASE ScenarioAt(turn).calls = 1 /\ Mine = {c} /\ Rank(c) = 1
  <2>1. longer = trail \o <<row(c)>>
    <3>1. AuditRows = <<c>>
      BY <1>5, <1>8, InOrderOne
    <3>2. [i \in DOMAIN AuditRows |-> AuditRow(AuditRows[i])] = <<row(c)>>
      BY <3>1 DEF row
    <3>. QED  BY <3>2
  <2>. HIDE DEF longer
  <2>2. longer \in Seq(T \cup {row(c)}) /\ Len(longer) = n + 1
    BY <1>1, <2>1, JoinOne
  <2>3. longer \in Seq({longer[i] : i \in DOMAIN longer})
    BY <2>2
  <2>4. ASSUME NEW policy \in {NAIVE, HARDENED}
        PROVE  EffectsByPolicy(longer, policy) =
                  EffectsByPolicy(trail, policy)
                    + (IF policy = PolicyAt(turn) THEN Cardinality(Effects) ELSE 0)
    <3>1. /\ EffectsByPolicy(trail, policy) \in Nat
          /\ EffectsByPolicy(longer, policy) = EffectsByPolicy(trail, policy)
                + (IF row(c).policy = policy.name /\ row(c).effect THEN 1 ELSE 0)
      BY <1>1, <2>1, EffectsOfOneMore
    <3>. QED  BY <1>2, <1>3, <1>4, <1>8, <3>1
  <2>5. ASSUME trail = SubSeq(PublishedTrail, 1, n), Told(c) = ReasonOf(turn, 1)
        PROVE  longer = SubSeq(PublishedTrail, 1, CallsBefore(turn + 1))
    <3>1. row(c) = PublishedTrail[n + 1] /\ n + 1 \in 1..14 /\ CallsBefore(turn + 1) = n + 1
          /\ (n + 1) - 1 = n
      BY <1>1, <1>2, <1>7, <1>8, <2>5
    <3>2. SubSeq(PublishedTrail, 1, n + 1) = SubSeq(PublishedTrail, 1, n) \o <<PublishedTrail[n + 1]>>
      BY <1>6, <3>1, OneMoreOfThem
    <3>. QED  BY <2>1, <2>5, <3>1, <3>2
  <2>. QED  BY <1>7, <1>8, <2>2, <2>3, <2>4, <2>5 DEF longer, n
<1>9. ASSUME ScenarioAt(turn).calls = 2, Rank(c) = 2,
             NEW d \in Mine, d < c, Mine = {d, c}, Rank(d) = 1
      PROVE  /\ longer \in Seq({longer[i] : i \in DOMAIN longer})
             /\ Len(longer) = CallsBefore(turn + 1)
             /\ \A policy \in {NAIVE, HARDENED} :
                   EffectsByPolicy(longer, policy) =
                      EffectsByPolicy(trail, policy)
                        + (IF policy = PolicyAt(turn) THEN Cardinality(Effects) ELSE 0)
             /\ /\ trail = SubSeq(PublishedTrail, 1, n)
                /\ \A e \in Mine : Told(e) = ReasonOf(turn, Rank(e))
                => longer = SubSeq(PublishedTrail, 1, CallsBefore(turn + 1))
  <2>. DEFINE first == trail \o <<row(d)>>
  <2>1. longer = first \o <<row(c)>>
    <3>1. d \in Int /\ c \in Int
      BY <1>1, <1>9 DEF Mine
    <3>2. AuditRows = <<d, c>>
      BY <1>5, <1>9, <3>1, InOrderTwo
    <3>3. [i \in DOMAIN AuditRows |-> AuditRow(AuditRows[i])] = <<row(d), row(c)>>
      BY <3>2 DEF row
    <3>. QED  BY <1>1, <3>3, JoinTwo
  <2>. HIDE DEF longer
  <2>2. first \in Seq(T \cup {row(d)}) /\ Len(first) = n + 1
    BY <1>1, JoinOne
  <2>3. ASSUME NEW policy
        PROVE  /\ EffectsByPolicy(trail, policy) \in Nat
               /\ EffectsByPolicy(first, policy) = EffectsByPolicy(trail, policy)
                    + (IF row(d).policy = policy.name /\ row(d).effect THEN 1 ELSE 0)
    BY <1>1, EffectsOfOneMore
  <2>. HIDE DEF first
  <2>4. longer \in Seq((T \cup {row(d)}) \cup {row(c)}) /\ Len(longer) = n + 2
    <3>1. longer \in Seq((T \cup {row(d)}) \cup {row(c)}) /\ Len(longer) = Len(first) + 1
      BY <2>1, <2>2, JoinOne
    <3>. QED  BY <1>1, <2>2, <3>1
  <2>5. longer \in Seq({longer[i] : i \in DOMAIN longer})
    BY <2>4
  <2>6. ASSUME NEW policy \in {NAIVE, HARDENED}
        PROVE  EffectsByPolicy(longer, policy) =
                  EffectsByPolicy(trail, policy)
                    + (IF policy = PolicyAt(turn) THEN Cardinality(Effects) ELSE 0)
    <3>1. /\ EffectsByPolicy(first, policy) \in Nat
          /\ EffectsByPolicy(longer, policy) = EffectsByPolicy(first, policy)
                + (IF row(c).policy = policy.name /\ row(c).effect THEN 1 ELSE 0)
      BY <2>1, <2>2, EffectsOfOneMore
    <3>2. ~row(c).effect
      BY <1>2, <1>3, <1>9
    <3>. QED  BY <1>2, <1>3, <1>4, <1>9, <2>3, <3>1, <3>2
  <2>7. ASSUME trail = SubSeq(PublishedTrail, 1, n),
               \A e \in Mine : Told(e) = ReasonOf(turn, Rank(e))
        PROVE  longer = SubSeq(PublishedTrail, 1, CallsBefore(turn + 1))
    <3>1. /\ row(d) = PublishedTrail[n + 1] /\ row(c) = PublishedTrail[n + 2]
          /\ n + 1 \in 1..14 /\ n + 2 \in 1..14 /\ CallsBefore(turn + 1) = n + 2
          /\ (n + 1) - 1 = n /\ (n + 2) - 1 = n + 1
      BY <1>1, <1>2, <1>7, <1>9, <2>7
    <3>2. SubSeq(PublishedTrail, 1, n + 1) = SubSeq(PublishedTrail, 1, n) \o <<PublishedTrail[n + 1]>>
      BY <1>6, <3>1, OneMoreOfThem
    <3>3. SubSeq(PublishedTrail, 1, n + 2) =
             SubSeq(PublishedTrail, 1, n + 1) \o <<PublishedTrail[n + 2]>>
      BY <1>6, <3>1, OneMoreOfThem
    <3>. QED  BY <2>1, <2>7, <3>1, <3>2, <3>3 DEF first
  <2>. QED  BY <1>7, <1>9, <2>4, <2>5, <2>6, <2>7
<1>. QED  BY <1>8, <1>9 DEF Closed, n

LEMMA GateOnMeasure ==
    ASSUME MatrixInv, GateInv, Measure
    PROVE  GateInv'
<1>. DEFINE longer == trail \o [i \in DOMAIN AuditRows |-> AuditRow(AuditRows[i])]
            hardened == PolicyAt(turn) = HARDENED
            last == Max({x \in Calls : pc[x] = "returned"})
            row == Row(outcome[last].decision, outcome[last].reason, Cardinality(Effects))
<1>1. /\ phase = "calling" /\ Pending = {} /\ Made = ScenarioAt(turn).calls
      /\ pc[Max(Begun)] = "returned"
      /\ results' = Append(results, row)
      /\ trail' = longer
      /\ shown' = IF hardened THEN shown \o ApprovalStates ELSE shown
      /\ chains' = IF hardened THEN Append(chains, ChainOf(token)) ELSE chains
      /\ phase' = IF hardened /\ VerifyToken(token, clock).failure # None THEN "failed" ELSE "clear"
      /\ turn' = turn + 1
      /\ UNCHANGED <<clock, approval, effect, audit, pc, req, moment, found, outcome, token>>
  BY DEF Measure, Begun, tables, callVars, Row
<1>2. InTurn /\ turn \in 1..12
  BY <1>1, TheTurnIsOn DEF InTurn
<1>3. PICK c \in Mine : Closed(c)
  BY <1>1, <1>2, TheTurnCloses
<1>4. last = c
  BY <1>3 DEF Closed
<1>5. /\ outcome[c].reason = Told(c) /\ outcome[c].decision = DecisionFor(Told(c))
      /\ (\E d \in Mine : Late(d)) => Told(c) = "token_expired"
      /\ (\A d \in Mine : ~Late(d)) =>
            /\ \A d \in Mine : Told(d) = ReasonOf(turn, Rank(d))
            /\ Cardinality(Effects) = Allowance(turn)
            /\ Told(c) = PublishedRows[turn].reason
  BY <1>2, <1>3, TheClosedTurn
<1>6. row = Row(DecisionFor(Told(c)), Told(c), Cardinality(Effects)) /\ row.reason = Told(c)
      /\ row.effects = Cardinality(Effects)
  BY <1>4, <1>5 DEF Row
<1>7. /\ longer \in Seq({longer[i] : i \in DOMAIN longer})
      /\ Len(longer) = CallsBefore(turn + 1)
      /\ \A policy \in {NAIVE, HARDENED} :
            EffectsByPolicy(longer, policy) =
               EffectsByPolicy(trail, policy)
                 + (IF policy = PolicyAt(turn) THEN Cardinality(Effects) ELSE 0)
      /\ /\ trail = SubSeq(PublishedTrail, 1, CallsBefore(turn))
         /\ \A d \in Mine : Told(d) = ReasonOf(turn, Rank(d))
         => longer = SubSeq(PublishedTrail, 1, CallsBefore(turn + 1))
  BY <1>2, <1>3, TheTrailGrows
<1>. HIDE DEF longer, last, row
<1>8. CASE phase' = "failed"
  BY <1>8 DEF GateInv
<1>9. CASE phase' # "failed"
  <2>1. /\ phase' = "clear"
        /\ hardened => VerifyToken(token, clock).failure = None
    BY <1>1, <1>9
  <2>2. hardened => clock < token.exp
    BY <1>2, <2>1, StillLive DEF InTurn, JudgedOK, KeysOK
  <2>3. /\ Calls \subseteq Nat /\ IsFiniteSet(Begun) /\ Begun = Past \cup Mine
        /\ Cardinality(Begun) = CallsBefore(turn + 1)
        /\ \A d \in Begun : pc[d] = "returned"
    <3>1. \A d \in Begun : pc[d] = "returned"
      BY <1>2, <1>3, TheCallsMade DEF InTurn, PastOK, Closed
    <3>2. Cardinality(Begun) = CallsBefore(turn) + ScenarioAt(turn).calls
      BY <1>2, <1>3, TheCallsMade DEF Closed
    <3>. QED  BY <1>2, <3>1, <3>2, TheCallsMade, TheTrail
  <2>4. Fresh' = Fresh /\ Begun' = Begun /\ Drawn' = Drawn /\ Past' = Begun
        /\ \A d : Late(d)' = Late(d)
    <3>1. Fresh' = Fresh /\ Begun' = Begun /\ Drawn' = Drawn /\ \A d : Late(d)' = Late(d)
      BY <1>1 DEF Fresh, Begun, Drawn, Late
    <3>. QED  BY <2>1, <3>1 DEF Past
  <2>5. PastOK'
    <3>1. (turn + 1) - 1 = turn
      BY <1>2
    <3>2. /\ IsOver(req', Calls) /\ IsOver(audit', Calls)
          /\ \A x \in Begun', d \in Fresh' : x < d
          /\ IsFiniteSet(Drawn') /\ Cardinality(Drawn') <= turn
      BY <1>1, <1>2, <2>4 DEF InTurn, PastOK
    <3>. QED  BY <1>1, <2>1, <2>3, <2>4, <3>1, <3>2 DEF PastOK
  <2>6. Pending' = {}
    BY <1>1 DEF Pending
  <2>7. WrittenOK'
    <3>. DEFINE T == {results[t] : t \in DOMAIN results}
    <3>1. /\ results \in Seq(T) /\ Len(results) = turn - 1 /\ DOMAIN results = 1..(turn - 1)
          /\ \A t \in DOMAIN results : results[t].effects \in Nat
      BY DEF MatrixInv, MeasuredOK
    <3>. HIDE DEF T
    <3>2. Cardinality(Effects) \in Nat
      BY <1>2, EffectsCounted DEF InTurn
    <3>3. /\ DOMAIN results' = 1..turn /\ results'[turn] = row
          /\ \A t \in 1..(turn - 1) : results'[t] = results[t]
      <4>1. /\ results' \in Seq(T \cup {row}) /\ Len(results') = Len(results) + 1
            /\ results'[Len(results) + 1] = row
            /\ \A i \in 1..Len(results) : results'[i] = results[i]
        BY <1>1, <3>1, JoinOne
      <4>. QED  BY <1>2, <3>1, <4>1
    <3>4. chains' = SubSeq(PublishedChains, 1, turn \div 2)
      <4>1. chains = SubSeq(PublishedChains, 1, (turn - 1) \div 2)
        BY <1>2 DEF InTurn, WrittenOK
      <4>2. CASE hardened
        <5>1. /\ turn \div 2 \in 1..6 /\ (turn \div 2) - 1 = (turn - 1) \div 2
              /\ ChainOf(token) = PublishedChains[turn \div 2]
          BY <1>2, <4>2, TheHalves DEF InTurn, JudgedOK
        <5>. DEFINE k == turn \div 2
        <5>2. PublishedChains \in Seq({PublishedChains[i] : i \in 1..6}) /\ k \in 1..Len(PublishedChains)
          BY <5>1, TheChains
        <5>3. SubSeq(PublishedChains, 1, k) = Append(SubSeq(PublishedChains, 1, k - 1), PublishedChains[k])
          BY <5>2, OneMoreOfThem
        <5>4. chains' = Append(chains, PublishedChains[k])
          BY <1>1, <4>2, <5>1
        <5>. QED  BY <4>1, <5>1, <5>3, <5>4
      <4>3. CASE ~hardened
        BY <1>1, <1>2, <4>1, <4>3, TheHalves
      <4>. QED  BY <4>2, <4>3
    <3>5. ASSUME \A d \in Begun : ~Late(d)
          PROVE  /\ results' = SubSeq(PublishedRows, 1, turn)
                 /\ trail' = SubSeq(PublishedTrail, 1, CallsBefore(turn + 1))
                 /\ shown' = SubSeq(PublishedApprovals, 1, ShownBefore(turn + 1))
      <4>1. /\ results = SubSeq(PublishedRows, 1, turn - 1)
            /\ trail = SubSeq(PublishedTrail, 1, CallsBefore(turn))
            /\ shown = SubSeq(PublishedApprovals, 1, ShownBefore(turn))
        BY <1>2, <2>3, <3>5 DEF InTurn, WrittenOK
      <4>2. /\ \A d \in Mine : Told(d) = ReasonOf(turn, Rank(d))
            /\ Cardinality(Effects) = Allowance(turn)
            /\ Told(c) = PublishedRows[turn].reason
        BY <1>5, <2>3, <3>5
      <4>3. results' = SubSeq(PublishedRows, 1, turn)
        <5>1. row = PublishedRows[turn]
          BY <1>2, <1>6, <4>2, TheRows
        <5>. QED  BY <1>1, <1>2, <4>1, <5>1, OneMoreOfThem, TheRows
      <4>4. trail' = SubSeq(PublishedTrail, 1, CallsBefore(turn + 1))
        BY <1>1, <1>7, <4>1, <4>2
      <4>5. shown' = SubSeq(PublishedApprovals, 1, ShownBefore(turn + 1))
        <5>. DEFINE ttl == ScenarioAt(turn).approval_ttl
        <5>1. /\ ShownBefore(turn) \in Nat
              /\ ShownBefore(turn + 1) = ShownBefore(turn) + (IF hardened /\ ttl # None THEN 1 ELSE 0)
              /\ hardened /\ ttl # None =>
                    /\ ShownBefore(turn + 1) \in 1..5
                    /\ PublishedApprovals[ShownBefore(turn + 1)] =
                          (IF Allowance(turn) = 1 THEN "consumed"
                           ELSE IF ttl = -1 THEN "expired" ELSE "pending")
          BY <1>2, TheShown
        <5>2. ApprovalRows = {} <=> ttl = None
          BY <1>2 DEF InTurn, RecordedOK
        <5>3. Effects # {} <=> Allowance(turn) = 1
          <6>1. Effects = {} => Cardinality(Effects) = 0
            BY FS_EmptySet
          <6>2. Effects # {} => Cardinality(Effects) = 1
            <7>1. ASSUME NEW d \in Effects PROVE Effects = {d}
              <8>1. \A x, y \in Effects : x = y
                BY <1>2 DEF InTurn, Turning, OneOK
              <8>. QED  BY <7>1, <8>1
            <7>. QED  BY <7>1, FS_Singleton
          <6>. QED  BY <4>2, <6>1, <6>2
        <5>. HIDE DEF ttl, hardened
        <5>4. CASE ~hardened
          BY <1>1, <4>1, <5>1, <5>4
        <5>5. CASE hardened /\ ttl = None
          <6>1. shown \in Seq({"consumed", "pending", "expired"})
            <7>1. ShownBefore(turn) \in 0..5
              BY <1>2 DEF ShownBefore
            <7>2. PublishedApprovals \in Seq({"consumed", "pending", "expired"}) /\ Len(PublishedApprovals) = 5
              BY TheShown
            <7>3. \A i \in 1..ShownBefore(turn) : PublishedApprovals[i] \in {"consumed", "pending", "expired"}
              <8>1. \A i \in 1..ShownBefore(turn) : i \in 1..5
                BY <7>1
              <8>2. \A i \in 1..5 : PublishedApprovals[i] \in {"consumed", "pending", "expired"}
                BY <7>2, ElementOfSeq
              <8>. QED  BY <8>1, <8>2
            <7>. QED  BY <4>1, <7>1, <7>3, SubSeqProperties
          <6>2. shown' = shown
            BY <1>1, <5>2, <5>5, <6>1, NoApprovalLeft
          <6>. QED  BY <4>1, <5>1, <5>5, <6>2
        <5>6. CASE hardened /\ ttl # None
          <6>1. PICK a \in ApprovalRows : TRUE
            BY <5>2, <5>6
          <6>2. /\ ApprovalStates = <<ApprovalState(a)>>
                /\ ApprovalState(a) = PublishedApprovals[ShownBefore(turn + 1)]
            BY <1>2, <2>2, <5>1, <5>3, <5>6, TheApprovalLeft DEF ttl
          <6>3. ShownBefore(turn + 1) \in 1..5 /\ ShownBefore(turn + 1) - 1 = ShownBefore(turn)
            BY <5>1, <5>6
          <6>. QED  BY <1>1, <4>1, <5>6, <6>2, <6>3, OneMoreOfThem, TheShown
        <5>. QED  BY <5>4, <5>5, <5>6
      <4>. QED  BY <4>3, <4>4, <4>5
    <3>6. ASSUME NEW d \in Begun, Late(d)
          PROVE  \E t \in DOMAIN results' : results'[t].reason = "token_expired"
      <4>1. CASE d \in Past
        <5>1. PICK t \in DOMAIN results : results[t].reason = "token_expired"
          BY <1>2, <3>6, <4>1 DEF InTurn, WrittenOK
        <5>2. t \in 1..turn /\ results'[t] = results[t]
          BY <1>2, <3>1, <3>3, <5>1
        <5>. QED  BY <3>3, <5>1, <5>2
      <4>2. CASE d \in Mine
        <5>1. results'[turn].reason = "token_expired" /\ turn \in 1..turn
          BY <1>2, <1>5, <1>6, <3>3, <3>6, <4>2
        <5>. QED  BY <3>3, <5>1
      <4>. QED  BY <2>3, <4>1, <4>2
    <3>7. ASSUME NEW policy \in {NAIVE, HARDENED}
          PROVE  EffectsByPolicy(trail', policy) = Total(results', policy)
      <4>1. /\ Total(results, policy) \in Int
            /\ Total(results', policy) = Total(results, policy)
                 + (IF PolicyAt(turn) = policy THEN Cardinality(Effects) ELSE 0)
        <5>1. Len(results) + 1 = turn
          BY <1>2, <3>1
        <5>2. row.effects \in Nat
          BY <1>6, <3>2
        <5>3. /\ Total(results, policy) \in Int
              /\ Total(Append(results, row), policy) = Total(results, policy)
                   + (IF PolicyAt(Len(results) + 1) = policy THEN row.effects ELSE 0)
          BY <3>1, <5>2, TotalOfOneMore
        <5>. QED  BY <1>1, <1>6, <5>1, <5>3
      <4>2. EffectsByPolicy(trail, policy) = Total(results, policy)
        BY <1>2 DEF InTurn, WrittenOK
      <4>. QED  BY <1>1, <1>7, <3>2, <4>1, <4>2
    <3>8. \A policy : /\ EffectsByPolicy(trail, policy)' = EffectsByPolicy(trail', policy)
                      /\ Total(results, policy)' = Total(results', policy)
      BY DEF EffectsByPolicy, Total, PolicyAt
    <3>9. (turn + 1) - 1 = turn
      BY <1>2
    <3>. QED  BY <1>1, <1>7, <2>4, <3>4, <3>5, <3>6, <3>7, <3>8, <3>9 DEF WrittenOK
  <2>8. phase' # "calling" /\ phase' # "done"
    BY <2>1
  <2>. QED  BY <2>5, <2>6, <2>7, <2>8 DEF GateInv
<1>. QED  BY <1>8, <1>9
-----------------------------------------------------------------------------
LEMMA GateStarts == Init => GateInv
<1>1. SUFFICES ASSUME Init PROVE GateInv
  OBVIOUS
<1>2. /\ phase = "clear" /\ turn = 1 /\ results = <<>> /\ trail = <<>> /\ shown = <<>>
      /\ chains = <<>>
      /\ pc = [c \in Calls |-> "idle"] /\ audit = [c \in Calls |-> None]
      /\ approval = [a \in ApprovalIds |-> Unissued]
      /\ IsOver(req, Calls)
  BY <1>1 DEF Init, StoreInit, Naive!EffectsInit, IsOver
<1>3. Begun = {} /\ Past = {} /\ Drawn = {} /\ Pending = {} /\ IsFiniteSet({}) /\ Cardinality({}) = 0
  <2>1. Begun = {} /\ Drawn = {} /\ Pending = {}
    BY <1>2 DEF Begun, Fresh, Drawn, Pending, Naive!Active
  <2>. QED  BY <1>2, <2>1, FS_EmptySet DEF Past
<1>4. CallsBefore(1) = 0 /\ ShownBefore(1) = 0 /\ (1 - 1) \div 2 = 0 /\ 1 - 1 = 0
  BY DEF CallsBefore, ShownBefore
<1>5. PastOK
  <2>1. IsOver(audit, Calls)
    BY <1>2 DEF IsOver
  <2>. QED  BY <1>2, <1>3, <1>4, <2>1 DEF PastOK
<1>6. ASSUME NEW policy PROVE EffectsByPolicy(<<>>, policy) = 0 /\ Total(<<>>, policy) = 0
  <2>1. DOMAIN <<>> = {}
    OBVIOUS
  <2>2. EffectsByPolicy(<<>>, policy) = 0
    <3>1. {i \in DOMAIN <<>> : <<>>[i].policy = policy.name /\ <<>>[i].effect} = {}
      BY <2>1
    <3>. QED  BY <1>3, <3>1 DEF EffectsByPolicy
  <2>3. Total(<<>>, policy) = 0
    <3>1. {t \in DOMAIN <<>> : PolicyAt(t) = policy} = {}
      BY <2>1
    <3>. QED  BY <3>1, SumOfNothing DEF Total
  <2>. QED  BY <2>2, <2>3
<1>7. WrittenOK
  <2>1. \A s : SubSeq(s, 1, 0) = <<>>
    BY SubSeqEmpty
  <2>2. trail \in Seq({trail[i] : i \in DOMAIN trail}) /\ Len(trail) = 0
    BY <1>2
  <2>3. \A policy \in {NAIVE, HARDENED} : EffectsByPolicy(trail, policy) = Total(results, policy)
    BY <1>2, <1>6
  <2>. QED  BY <1>2, <1>3, <1>4, <2>1, <2>2, <2>3 DEF WrittenOK
<1>. QED  BY <1>2, <1>3, <1>5, <1>7 DEF GateInv

LEMMA GateGoesOn == MatrixInv /\ GateInv /\ [Next]_vars => MatrixInv' /\ GateInv'
<1>1. SUFFICES ASSUME MatrixInv, GateInv, [Next]_vars PROVE MatrixInv' /\ GateInv'
  OBVIOUS
<1>2. MatrixInv'
  BY <1>1, MatrixGoesOn
<1>3. CASE Clear
  BY <1>1, <1>2, <1>3, GateOnClear
<1>4. CASE SetUp
  BY <1>1, <1>2, <1>4, GateOnSetUp
<1>5. CASE CallIssueCredit
  BY <1>1, <1>2, <1>5, GateOnCall
<1>6. CASE CallGoesOn
  BY <1>1, <1>2, <1>6, GateOnCallGoesOn
<1>7. CASE Measure
  BY <1>1, <1>2, <1>7, GateOnMeasure
<1>8. CASE BuildRaises
  BY <1>2, <1>8 DEF BuildRaises, GateInv
<1>9. CASE TimePasses
  BY <1>1, <1>2, <1>9, GateOnTime
<1>10. CASE Over \/ UNCHANGED vars
  BY <1>1, <1>2, <1>10, GateOnNothing DEF Over
<1>. QED  BY <1>1, <1>3, <1>4, <1>5, <1>6, <1>7, <1>8, <1>9, <1>10 DEF Next

\* GateInv holds of every build (build_matrix): the turns before this one stand
\* written as they were published as long as no call was late, and what the
\* calls of this turn are told follows from the token that was minted, the
\* approval that was recorded and the call's place.
THEOREM GateInvariant == Spec => [](MatrixInv /\ GateInv)
<1>1. Init => MatrixInv /\ GateInv
  BY MatrixStarts, GateStarts
<1>. QED  BY <1>1, GateGoesOn, PTL DEF Spec

\* Whenever a turn has been measured, the audit rows read so far (_audit) tell
\* of every call that was made, and under each policy of as many effects as the
\* effect tables were found to hold (_effects), at whatever pace.
THEOREM TrailAndCountAgree == Spec => []TrailAgreesWithTheCount
<1>1. MatrixInv /\ GateInv => TrailAgreesWithTheCount
  <2>1. SUFFICES ASSUME MatrixInv, GateInv, phase = "clear"
                 PROVE  /\ \A policy \in {NAIVE, HARDENED} :
                              EffectsByPolicy(trail, policy) = Total(results, policy)
                        /\ Len(trail) = Cardinality(Calls \ Fresh)
    BY DEF TrailAgreesWithTheCount
  <2>2. PastOK /\ WrittenOK
    BY <2>1 DEF GateInv
  <2>3. Past = Calls \ Fresh
    BY <2>1 DEF Past, Begun
  <2>. QED  BY <2>2, <2>3 DEF PastOK, WrittenOK
<1>. QED  BY <1>1, GateInvariant, PTL

\* A build that ends passes the gate (gate_matrix.py) exactly when no call came
\* after its token had run out, and the matrix, the trail and the approvals are
\* then those of the committed artifacts to the letter.
THEOREM TheGatePassesExactlyInTime == Spec => []GatePassesExactlyInTime
<1>1. MatrixInv /\ GateInv => GatePassesExactlyInTime
  <2>1. SUFFICES ASSUME MatrixInv, GateInv, phase = "done"
                 PROVE  /\ Reproduces <=> InTime
                        /\ InTime => /\ results = PublishedRows
                                     /\ trail = PublishedTrail
                                     /\ shown = PublishedApprovals
    BY DEF GatePassesExactlyInTime
  <2>2. PastOK /\ WrittenOK /\ turn = 13 /\ Past = Calls \ Fresh
    BY <2>1 DEF GateInv, Past, Begun
  <2>3. CallsBefore(13) = 14 /\ ShownBefore(13) = 5 /\ (13 - 1) \div 2 = 6 /\ 13 - 1 = 12
    BY DEF CallsBefore, ShownBefore
  <2>4. /\ SubSeq(PublishedRows, 1, 12) = PublishedRows
        /\ SubSeq(PublishedTrail, 1, 14) = PublishedTrail
        /\ SubSeq(PublishedApprovals, 1, 5) = PublishedApprovals
        /\ SubSeq(PublishedChains, 1, 6) = PublishedChains
    BY TheRows, TheTrail, TheShown, TheChains, SubSeqFull
  <2>5. chains = PublishedChains
    BY <2>2, <2>3, <2>4 DEF WrittenOK
  <2>6. InTime <=> \A c \in Past : ~Late(c)
    BY <2>2 DEF InTime, Late
  <2>7. ASSUME InTime
        PROVE  /\ results = PublishedRows /\ trail = PublishedTrail /\ shown = PublishedApprovals
               /\ Reproduces
    <3>1. results = PublishedRows /\ trail = PublishedTrail /\ shown = PublishedApprovals
      BY <2>2, <2>3, <2>4, <2>6, <2>7 DEF WrittenOK
    <3>. QED  BY <2>5, <3>1 DEF Reproduces
  <2>8. ASSUME ~InTime
        PROVE  ~Reproduces
    <3>1. PICK t \in DOMAIN results : results[t].reason = "token_expired"
      BY <2>2, <2>6, <2>8 DEF WrittenOK
    <3>2. DOMAIN results = 1..12
      <4>. DEFINE T == {results[k] : k \in DOMAIN results}
      <4>1. results \in Seq(T) /\ Len(results) = 12
        BY <2>1, <2>2 DEF MatrixInv, MeasuredOK
      <4>. HIDE DEF T
      <4>. QED  BY <4>1
    <3>3. results[t] # PublishedRows[t] /\ t \in DOMAIN PublishedRows
      BY <3>1, <3>2, TheRows
    <3>4. MatrixShape(results).scenarios # MatrixShape(PublishedRows).scenarios
      <4>1. \A rows : MatrixShape(rows).scenarios = [k \in DOMAIN rows |-> rows[k]]
        BY DEF MatrixShape
      <4>2. /\ MatrixShape(results).scenarios[t] = results[t]
            /\ MatrixShape(PublishedRows).scenarios[t] = PublishedRows[t]
        <5>1. \A rows : t \in DOMAIN rows => MatrixShape(rows).scenarios[t] = rows[t]
          BY <4>1
        <5>. QED  BY <3>1, <3>3, <5>1
      <4>. QED  BY <3>3, <4>2
    <3>. QED  BY <3>4 DEF Reproduces
  <2>. QED  BY <2>7, <2>8
<1>. QED  BY <1>1, GateInvariant, PTL
=============================================================================
