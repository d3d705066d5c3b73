----------------------------- MODULE TreeProof -----------------------------
(***************************************************************************)
(* Lemmas about binary trees and walks through them, for every tree.  They *)
(* stand on the least-number principle in a form without operators: each   *)
(* induction is over a set of numbers.                                     *)
(***************************************************************************)
EXTENDS Integers, Sequences, FiniteSets, FiniteSetTheorems, SequenceTheorems,
        WellFoundedInduction, TLAPS

\* A set of numbers that is not empty has a least element.
LEMMA LeastNumber ==
  ASSUME NEW T \in SUBSET Nat, T # {}
  PROVE  \E m \in T : \A k \in T : m =< k
<1> DEFINE R == OpToRel(<, Nat)
<1>1. \E x \in T : \A y \in T : <<y, x>> \notin R
  <2> HIDE DEF R
  <2>1. IsWellFoundedOn(R, Nat)
    BY NatLessThanWellFounded DEF R
  <2>2. QED
    BY <2>1, WFMin
<1>2. \A y, x \in T : <<y, x>> \in R <=> y < x
  BY DEF OpToRel
<1> HIDE DEF R
<1>3. \A x, y \in T : ~(y < x) => x =< y
  OBVIOUS
<1>4. QED
  BY <1>1, <1>2, <1>3

\* Induction: a set with 0 and every successor has all numbers.
LEMMA Induction ==
  ASSUME NEW T, 0 \in T, \A n \in Nat : n \in T => n + 1 \in T
  PROVE  \A n \in Nat : n \in T
<1> SUFFICES ASSUME Nat \ T # {} PROVE FALSE
  OBVIOUS
<1>1. PICK m \in Nat \ T : \A k \in Nat \ T : m =< k
  BY LeastNumber
<1>2. m # 0 /\ m - 1 \in Nat
  BY <1>1
<1>3. m - 1 \in T
  BY <1>1, <1>2
<1>4. QED
  BY <1>1, <1>2, <1>3

\* w starts at b and goes on by F, for N steps.
Iteration(w, D, b, F, N) ==
  w \in [0..N -> D] /\ w[0] = b /\ \A k \in 1..N : w[k] = F[w[k - 1]]

\* A recursion over the numbers up to N has a solution.
LEMMA Iterates ==
  ASSUME NEW D, NEW b \in D, NEW F \in [D -> D], NEW N \in Nat
  PROVE  \E w : Iteration(w, D, b, F, N)
<1> DEFINE T == {m \in Nat : \E w : Iteration(w, D, b, F, m)}
<1>1. 0 \in T
  <2>1. Iteration([k \in 0..0 |-> b], D, b, F, 0)
    BY DEF Iteration
  <2>2. QED
    BY <2>1
<1>2. ASSUME NEW m \in Nat, m \in T PROVE m + 1 \in T
  <2>1. PICK w : Iteration(w, D, b, F, m)
    BY <1>2
  <2> DEFINE v == [k \in 0..m + 1 |-> IF k = m + 1 THEN F[w[m]] ELSE w[k]]
  <2>2. v \in [0..m + 1 -> D]
    BY <2>1 DEF Iteration
  <2>3. v[0] = b
    BY <2>1 DEF Iteration
  <2>4. ASSUME NEW k \in 1..m + 1 PROVE v[k] = F[v[k - 1]]
    <3>1. k - 1 \in 0..m /\ v[k - 1] = w[k - 1]
      OBVIOUS
    <3>2. CASE k = m + 1
      BY <3>1, <3>2
    <3>3. CASE k \in 1..m
      BY <2>1, <3>1, <3>3 DEF Iteration
    <3>4. QED
      BY <3>2, <3>3
  <2>5. Iteration(v, D, b, F, m + 1)
    BY <2>2, <2>3, <2>4 DEF Iteration
  <2>6. m + 1 \in Nat
    OBVIOUS
  <2> HIDE DEF v
  <2>7. QED
    BY <2>5, <2>6
<1> HIDE DEF T
<1>3. N \in T
  BY <1>1, <1>2, Induction
<1>4. QED
  BY <1>3 DEF T
-----------------------------------------------------------------------------
(* Trees: ch maps the nodes of S to their children, which are in S too or nil, *)
(* and h is a height that goes down along every pointer.                       *)

TwoSides == {"left", "right"}

Below(ch, S, nil, h) ==
  /\ nil \notin S
  /\ \A n \in S, d \in TwoSides : ch[n][d] # nil => ch[n][d] \in S /\ h[ch[n][d]] < h[n]

\* Heights need not be larger than the number of nodes to keep their order.
LEMMA LowHeights ==
  ASSUME NEW S, IsFiniteSet(S), NEW ch, NEW nil, NEW h \in [S -> Nat], Below(ch, S, nil, h)
  PROVE  \E g \in [S -> 1..Cardinality(S)] :
           Below(ch, S, nil, g) /\ \A n, m \in S : h[m] < h[n] => g[m] < g[n]
<1> DEFINE Upto(n) == {m \in S : h[m] =< h[n]}
    g == [n \in S |-> Cardinality(Upto(n))]
<1>1. ASSUME NEW n \in S PROVE IsFiniteSet(Upto(n)) /\ g[n] \in 1..Cardinality(S)
  <2>1. Upto(n) \subseteq S /\ n \in Upto(n)
    OBVIOUS
  <2>2. IsFiniteSet(Upto(n)) /\ Cardinality(Upto(n)) =< Cardinality(S)
    BY <2>1, FS_Subset
  <2>3. Cardinality(Upto(n)) \in Nat /\ Cardinality(S) \in Nat
    BY <2>2, FS_CardinalityType
  <2>4. Cardinality(Upto(n)) # 0
    BY <2>1, <2>2, FS_EmptySet
  <2>5. QED
    BY <2>2, <2>3, <2>4
<1>2. ASSUME NEW n \in S, NEW m \in S, h[m] < h[n] PROVE g[m] < g[n]
  <2>1. Upto(m) \subseteq Upto(n) /\ n \in Upto(n) /\ n \notin Upto(m)
    BY <1>2
  <2>2. Cardinality(Upto(m)) =< Cardinality(Upto(n))
        /\ Cardinality(Upto(m)) # Cardinality(Upto(n))
    BY <1>1, <2>1, FS_Subset
  <2>3. g[m] = Cardinality(Upto(m)) /\ g[n] = Cardinality(Upto(n))
    OBVIOUS
  <2>4. g[m] \in Int /\ g[n] \in Int
    <3>1. g[m] \in 1..Cardinality(S) /\ g[n] \in 1..Cardinality(S)
      BY <1>1
    <3>2. QED
      BY <3>1, FS_CardinalityType
  <2> HIDE DEF g, Upto
  <2>5. QED
    BY <2>2, <2>3, <2>4
<1> HIDE DEF g
<1>3. g \in [S -> 1..Cardinality(S)]
  BY <1>1 DEF g
<1>4. Below(ch, S, nil, g)
  BY <1>2 DEF Below
<1>5. QED
  BY <1>2, <1>3, <1>4
-----------------------------------------------------------------------------
(* Walks from left to right. *)

\* io[n] lists the nodes at and below n, for every n of a tree.
IsInOrder(io, ch, S, nil) ==
  /\ io[nil] = <<>>
  /\ \A n \in S : /\ io[n] \in Seq(S)
                  /\ io[n] = io[ch[n]["left"]] \o <<n>> \o io[ch[n]["right"]]

InOrderTurn(w, k, n, ch, nil) ==
  IF n = nil \/ k = 0 THEN <<>>
  ELSE w[k - 1][ch[n]["left"]] \o <<n>> \o w[k - 1][ch[n]["right"]]

InOrderTurns(w, M, ch, nil, N) ==
  [k \in 0..N |-> [n \in M |-> InOrderTurn(w, k, n, ch, nil)]]

\* The walk with a budget of levels has a solution ...
LEMMA InOrderSolution ==
  ASSUME NEW Node, NEW nil, NEW N \in Nat, NEW ch
  PROVE  \E w : w = InOrderTurns(w, Node \cup {nil}, ch, nil, N)
<1> DEFINE T == {m \in Nat : \E w : w = InOrderTurns(w, Node \cup {nil}, ch, nil, m)}
<1>1. 0 \in T
  <2> DEFINE w == [k \in 0..0 |-> [n \in Node \cup {nil} |-> InOrderTurn(k, k, n, ch, nil)]]
  <2>1. \A k \in 0..0, n \in Node \cup {nil} :
          InOrderTurn(w, k, n, ch, nil) = InOrderTurn(k, k, n, ch, nil)
    BY DEF InOrderTurn
  <2>2. w = InOrderTurns(w, Node \cup {nil}, ch, nil, 0)
    <3> HIDE DEF w
    <3>1. w = [k \in 0..0 |-> [n \in Node \cup {nil} |-> InOrderTurn(w, k, n, ch, nil)]]
      BY <2>1 DEF w
    <3>2. QED
      BY <3>1 DEF InOrderTurns
  <2>3. QED
    BY <2>2
<1>2. ASSUME NEW m \in Nat, m \in T PROVE m + 1 \in T
  <2>1. PICK w : w = InOrderTurns(w, Node \cup {nil}, ch, nil, m)
    BY <1>2
  <2> DEFINE v == InOrderTurns(w, Node \cup {nil}, ch, nil, m + 1)
  <2>2. \A k \in 0..m : v[k] = w[k]
    <3>1. \A k \in 0..m : k \in 0..(m + 1)
      OBVIOUS
    <3>2. QED
      BY <2>1, <3>1 DEF InOrderTurns
  <2>3. \A k \in 0..(m + 1), n \in Node \cup {nil} :
          InOrderTurn(v, k, n, ch, nil) = InOrderTurn(w, k, n, ch, nil)
    <3>1. \A k \in 0..(m + 1) : k # 0 => k - 1 \in 0..m
      OBVIOUS
    <3> HIDE DEF v
    <3>2. QED
      BY <2>2, <3>1 DEF InOrderTurn
  <2>4. v = InOrderTurns(v, Node \cup {nil}, ch, nil, m + 1)
    <3>1. v = [k \in 0..(m + 1) |-> [n \in Node \cup {nil} |-> InOrderTurn(w, k, n, ch, nil)]]
      BY DEF InOrderTurns
    <3> HIDE DEF v
    <3>2. QED
      BY <2>3, <3>1 DEF InOrderTurns
  <2>5. m + 1 \in Nat
    OBVIOUS
  <2> HIDE DEF v
  <2>6. QED
    BY <2>4, <2>5
<1> HIDE DEF T
<1>3. N \in T
  BY <1>1, <1>2, Induction
<1>4. QED
  BY <1>3 DEF T

\* ... and is it.
InOrderWalk(M, ch, nil, N) == CHOOSE w : w = InOrderTurns(w, M, ch, nil, N)

TakesInOrderTurns(w, M, ch, nil, N) ==
  \A k \in 0..N, n \in M : w[k][n] = InOrderTurn(w, k, n, ch, nil)

\* The walks satisfy their own recursion.
LEMMA InOrderRecursion ==
  ASSUME NEW Node, NEW nil, NEW N \in Nat, NEW ch
  PROVE  TakesInOrderTurns(InOrderWalk(Node \cup {nil}, ch, nil, N),
                           Node \cup {nil}, ch, nil, N)
<1> DEFINE walk == InOrderWalk(Node \cup {nil}, ch, nil, N)
<1>1. walk = InOrderTurns(walk, Node \cup {nil}, ch, nil, N)
  BY InOrderSolution DEF InOrderWalk
<1>2. \A k \in 0..N, n \in Node \cup {nil} :
        InOrderTurns(walk, Node \cup {nil}, ch, nil, N)[k][n] = InOrderTurn(walk, k, n, ch, nil)
  BY DEF InOrderTurns
<1>3. QED
  BY <1>1, <1>2 DEF TakesInOrderTurns

\* A walk finds below n what it finds with the whole budget, once the height of n fits.
LEMMA WalkSettles ==
  ASSUME NEW S, NEW nil, nil \notin S, NEW N \in Nat, NEW ch, NEW h, NEW walk,
         \A n \in S : h[n] \in 1..N,
         Below(ch, S, nil, h),
         \A k \in 0..N : walk[k][nil] = <<>>,
         \A k \in 1..N, n \in S :
           walk[k][n] = walk[k - 1][ch[n]["left"]] \o <<n>> \o walk[k - 1][ch[n]["right"]]
  PROVE  \A n \in S \cup {nil}, k \in 0..N :
           (n # nil => h[n] =< k) => walk[k][n] = walk[N][n] /\ walk[k][n] \in Seq(S)
<1> DEFINE Low(n, m) == n # nil => h[n] =< m
    Settled(n, k) == walk[k][n] = walk[N][n] /\ walk[k][n] \in Seq(S)
    T == {m \in Nat : \A n \in S \cup {nil}, k \in 0..N : Low(n, m) /\ m =< k => Settled(n, k)}
<1>1. \A k \in 0..N : Settled(nil, k)
  <2>1. <<>> \in Seq(S) /\ N \in 0..N
    OBVIOUS
  <2>2. \A k \in 0..N : walk[k][nil] = walk[N][nil] /\ walk[k][nil] = <<>>
    BY <2>1
  <2>3. QED
    BY <2>1, <2>2
<1>2. 0 \in T
  <2>1. ASSUME NEW n \in S PROVE ~Low(n, 0)
    <3>1. h[n] \in 1..N
      OBVIOUS
    <3>2. QED
      BY <3>1
  <2> HIDE DEF Low, Settled
  <2>2. QED
    BY <1>1, <2>1
<1>3. ASSUME NEW m \in Nat, m \in T PROVE m + 1 \in T
  <2>1. SUFFICES ASSUME NEW n \in S \cup {nil}, NEW k \in 0..N, Low(n, m + 1), m + 1 =< k
                 PROVE  Settled(n, k)
    OBVIOUS
  <2>2. CASE n = nil
    BY <1>1, <2>2
  <2>3. CASE n \in S
    <3> DEFINE l == ch[n]["left"]
               r == ch[n]["right"]
    <3>1. ASSUME NEW c \in {l, r}, NEW j \in {k - 1, N - 1, N} PROVE Settled(c, j)
      <4>1. c \in S \cup {nil} /\ (c # nil => h[c] < h[n])
        BY <2>3, <3>1 DEF Below, TwoSides
      <4>2. h[n] \in 1..N /\ h[n] =< m + 1 /\ (c # nil => h[c] \in 1..N)
        BY <2>1, <2>3, <4>1
      <4>3. Low(c, m)
        BY <4>1, <4>2
      <4>4. j \in 0..N /\ m =< j
        BY <2>1
      <4> HIDE DEF Low, Settled, l, r
      <4>5. QED
        BY <1>3, <4>1, <4>3, <4>4
    <3>2. k \in 1..N /\ N \in 1..N
      BY <2>1
    <3>3. walk[k][n] = walk[k - 1][l] \o <<n>> \o walk[k - 1][r]
      BY <2>3, <3>2
    <3>4. walk[N][n] = walk[N - 1][l] \o <<n>> \o walk[N - 1][r]
      BY <2>3, <3>2
    <3>5. /\ walk[k - 1][l] = walk[N - 1][l] /\ walk[k - 1][r] = walk[N - 1][r]
          /\ walk[k - 1][l] \in Seq(S) /\ walk[k - 1][r] \in Seq(S)
      BY <3>1
    <3>6. walk[k - 1][l] \o <<n>> \o walk[k - 1][r] \in Seq(S)
      BY <2>3, <3>5, ConcatProperties
    <3> HIDE DEF l, r
    <3>7. QED
      BY <3>3, <3>4, <3>5, <3>6
  <2>4. QED
    BY <2>2, <2>3
<1>4. \A m \in Nat : m \in T
  <2> HIDE DEF T
  <2>1. QED
    BY <1>2, <1>3, Induction
<1>5. SUFFICES ASSUME NEW n \in S \cup {nil}, NEW k \in 0..N, Low(n, k) PROVE Settled(n, k)
  OBVIOUS
<1>6. k \in T
  BY <1>4
<1> HIDE DEF Low, Settled
<1>7. QED
  BY <1>5, <1>6

\* In a tree whose heights fit into the budget the walk finds every node.
LEMMA InOrderUnfolds ==
  ASSUME NEW Node, NEW nil, NEW N \in Nat, NEW ch,
         NEW S \in SUBSET Node, NEW h, \A n \in S : h[n] \in 1..N, Below(ch, S, nil, h)
  PROVE  IsInOrder(InOrderWalk(Node \cup {nil}, ch, nil, N)[N], ch, S, nil)
<1> DEFINE walk == InOrderWalk(Node \cup {nil}, ch, nil, N)
<1>0. TakesInOrderTurns(walk, Node \cup {nil}, ch, nil, N)
  BY InOrderRecursion
<1> HIDE DEF walk
<1>1. \A k \in 0..N, n \in Node \cup {nil} : walk[k][n] = InOrderTurn(walk, k, n, ch, nil)
  BY <1>0 DEF TakesInOrderTurns
<1>2. \A k \in 0..N : walk[k][nil] = <<>>
  BY <1>1 DEF InOrderTurn
<1>3. nil \notin S
  BY DEF Below
<1>4. ASSUME NEW k \in 1..N, NEW n \in S
      PROVE  walk[k][n] = walk[k - 1][ch[n]["left"]] \o <<n>> \o walk[k - 1][ch[n]["right"]]
  <2>1. k \in 0..N /\ k # 0 /\ n # nil /\ n \in Node \cup {nil}
    BY <1>3
  <2>2. walk[k][n] = InOrderTurn(walk, k, n, ch, nil)
    BY <1>1, <2>1
  <2>3. QED
    BY <2>1, <2>2 DEF InOrderTurn
<1>5. \A n \in S \cup {nil}, k \in 0..N :
        (n # nil => h[n] =< k) => walk[k][n] = walk[N][n] /\ walk[k][n] \in Seq(S)
  BY <1>2, <1>3, <1>4, WalkSettles
<1>6. ASSUME NEW n \in S
      PROVE  /\ walk[N][n] \in Seq(S)
             /\ walk[N][n] = walk[N][ch[n]["left"]] \o <<n>> \o walk[N][ch[n]["right"]]
  <2>1. h[n] \in 1..N
    OBVIOUS
  <2>2. N \in 1..N /\ N - 1 \in 0..N /\ N \in 0..N /\ h[n] =< N
    BY <2>1
  <2>3. walk[N][n] \in Seq(S)
    BY <1>5, <2>2
  <2>4. ASSUME NEW d \in TwoSides PROVE walk[N - 1][ch[n][d]] = walk[N][ch[n][d]]
    <3>1. ch[n][d] \in S \cup {nil} /\ (ch[n][d] # nil => h[ch[n][d]] < h[n])
      BY DEF Below
    <3>2. ch[n][d] # nil => h[ch[n][d]] \in 1..N
      BY <3>1
    <3>3. ch[n][d] # nil => h[ch[n][d]] =< N - 1
      BY <2>1, <3>1, <3>2
    <3>4. QED
      BY <1>5, <2>2, <3>1, <3>3
  <2>5. "left" \in TwoSides /\ "right" \in TwoSides
    BY DEF TwoSides
  <2>6. walk[N][n] = walk[N - 1][ch[n]["left"]] \o <<n>> \o walk[N - 1][ch[n]["right"]]
    BY <1>4, <2>2
  <2>7. QED
    BY <2>3, <2>4, <2>5, <2>6
<1>7. walk[N][nil] = <<>>
  BY <1>2
<1>8. IsInOrder(walk[N], ch, S, nil)
  BY <1>6, <1>7 DEF IsInOrder
<1>9. QED
  BY <1>8 DEF walk
-----------------------------------------------------------------------------
(* Black nodes on the paths to nil. *)

One(b) == IF b THEN 1 ELSE 0

CountsTurn(w, k, n, ch, nil, blk, extra) ==
  IF n = nil \/ k = 0 THEN {0}
  ELSE UNION {{c + One(n \in blk) + One(<<n, d>> = extra) : c \in w[k - 1][ch[n][d]]} :
                d \in TwoSides}

CountsTurns(w, M, ch, nil, N, blk, extra) ==
  [k \in 0..N |-> [n \in M |-> CountsTurn(w, k, n, ch, nil, blk, extra)]]

CountsWalk(M, ch, nil, N, blk, extra) ==
  CHOOSE w : w = CountsTurns(w, M, ch, nil, N, blk, extra)

\* The counting walk has a solution ...
LEMMA CountsSolution ==
  ASSUME NEW Node, NEW nil, NEW N \in Nat, NEW ch, NEW blk, NEW extra
  PROVE  \E w : w = CountsTurns(w, Node \cup {nil}, ch, nil, N, blk, extra)
<1> DEFINE T == {m \in Nat : \E w : w = CountsTurns(w, Node \cup {nil}, ch, nil, m, blk, extra)}
<1>1. 0 \in T
  <2> DEFINE w == [k \in 0..0 |-> [n \in Node \cup {nil} |->
                   CountsTurn(k, k, n, ch, nil, blk, extra)]]
  <2>1. \A k \in 0..0, n \in Node \cup {nil} :
          CountsTurn(w, k, n, ch, nil, blk, extra) = CountsTurn(k, k, n, ch, nil, blk, extra)
    BY DEF CountsTurn
  <2>2. w = CountsTurns(w, Node \cup {nil}, ch, nil, 0, blk, extra)
    <3> HIDE DEF w
    <3>1. w = [k \in 0..0 |-> [n \in Node \cup {nil} |->
                CountsTurn(w, k, n, ch, nil, blk, extra)]]
      BY <2>1 DEF w
    <3>2. QED
      BY <3>1 DEF CountsTurns
  <2>3. QED
    BY <2>2
<1>2. ASSUME NEW m \in Nat, m \in T PROVE m + 1 \in T
  <2>1. PICK w : w = CountsTurns(w, Node \cup {nil}, ch, nil, m, blk, extra)
    BY <1>2
  <2> DEFINE v == CountsTurns(w, Node \cup {nil}, ch, nil, m + 1, blk, extra)
  <2>2. \A k \in 0..m : v[k] = w[k]
    <3>1. \A k \in 0..m : k \in 0..(m + 1)
      OBVIOUS
    <3>2. QED
      BY <2>1, <3>1 DEF CountsTurns
  <2>3. \A k \in 0..(m + 1), n \in Node \cup {nil} :
          CountsTurn(v, k, n, ch, nil, blk, extra) = CountsTurn(w, k, n, ch, nil, blk, extra)
    <3>1. \A k \in 0..(m + 1) : k # 0 => k - 1 \in 0..m
      OBVIOUS
    <3> HIDE DEF v
    <3>2. SUFFICES ASSUME NEW k \in 0..(m + 1), NEW n \in Node \cup {nil}
                   PROVE  CountsTurn(v, k, n, ch, nil, blk, extra)
                            = CountsTurn(w, k, n, ch, nil, blk, extra)
      OBVIOUS
    <3>3. k # 0 => v[k - 1] = w[k - 1]
      BY <2>2, <3>1
    <3>4. CASE k = 0
      BY <3>4 DEF CountsTurn
    <3>5. CASE k # 0
      <4>1. PICK u : u = w[k - 1]
        OBVIOUS
      <4>2. v[k - 1] = u
        BY <3>3, <3>5, <4>1
      <4>3. QED
        BY <4>1, <4>2 DEF CountsTurn
    <3>6. QED
      BY <3>4, <3>5
  <2>4. v = CountsTurns(v, Node \cup {nil}, ch, nil, m + 1, blk, extra)
    <3>1. v = [k \in 0..(m + 1) |-> [n \in Node \cup {nil} |->
                CountsTurn(w, k, n, ch, nil, blk, extra)]]
      BY DEF CountsTurns
    <3> HIDE DEF v
    <3>2. QED
      BY <2>3, <3>1 DEF CountsTurns
  <2>5. m + 1 \in Nat
    OBVIOUS
  <2> HIDE DEF v
  <2>6. QED
    BY <2>4, <2>5
<1> HIDE DEF T
<1>3. N \in T
  BY <1>1, <1>2, Induction
<1>4. QED
  BY <1>3 DEF T

TakesCountsTurns(w, M, ch, nil, N, blk, extra) ==
  \A k \in 0..N, n \in M : w[k][n] = CountsTurn(w, k, n, ch, nil, blk, extra)

\* ... and is it.
LEMMA CountsRecursion ==
  ASSUME NEW Node, NEW nil, NEW N \in Nat, NEW ch, NEW blk, NEW extra
  PROVE  TakesCountsTurns(CountsWalk(Node \cup {nil}, ch, nil, N, blk, extra),
                          Node \cup {nil}, ch, nil, N, blk, extra)
<1> DEFINE walk == CountsWalk(Node \cup {nil}, ch, nil, N, blk, extra)
<1>1. walk = CountsTurns(walk, Node \cup {nil}, ch, nil, N, blk, extra)
  BY CountsSolution DEF CountsWalk
<1>2. \A k \in 0..N, n \in Node \cup {nil} :
        CountsTurns(walk, Node \cup {nil}, ch, nil, N, blk, extra)[k][n]
          = CountsTurn(walk, k, n, ch, nil, blk, extra)
  BY DEF CountsTurns
<1>3. QED
  BY <1>1, <1>2 DEF TakesCountsTurns

\* The label of every node is that of each child, plus one for a black node and one for
\* the extra slot.
PathLabels(B, S, nil, ch, blk, extra) ==
  /\ B[nil] = 0
  /\ \A n \in S : B[n] \in Nat
  /\ \A n \in S, d \in TwoSides : B[n] = B[ch[n][d]] + One(n \in blk) + One(<<n, d>> = extra)

CountIs(counts, b) == counts = {b}

\* Then the count on all paths is the label.
LEMMA CountsAreLabels ==
  ASSUME NEW Node, NEW nil, NEW N \in Nat, NEW ch, NEW blk, NEW extra,
         NEW S \in SUBSET Node, NEW h, \A n \in S : h[n] \in 1..N, Below(ch, S, nil, h),
         NEW B, PathLabels(B, S, nil, ch, blk, extra), NEW r \in S \cup {nil}
  PROVE  CountIs(CountsWalk(Node \cup {nil}, ch, nil, N, blk, extra)[N][r], B[r])
<1>0. /\ B[nil] = 0
      /\ \A n \in S : B[n] \in Nat
      /\ \A n \in S, d \in TwoSides :
           B[n] = B[ch[n][d]] + One(n \in blk) + One(<<n, d>> = extra)
  BY DEF PathLabels
<1> DEFINE walk == CountsWalk(Node \cup {nil}, ch, nil, N, blk, extra)
<1>1. TakesCountsTurns(walk, Node \cup {nil}, ch, nil, N, blk, extra)
  BY CountsRecursion
<1> HIDE DEF walk
<1>2. nil \notin S
  BY DEF Below
<1> DEFINE Low(n, m) == n # nil => h[n] =< m
    T == {m \in Nat : m =< N => \A n \in S \cup {nil} : Low(n, m) => walk[m][n] = {B[n]}}
<1>3. ASSUME NEW k \in 0..N PROVE walk[k][nil] = {B[nil]}
  BY <1>0, <1>1 DEF TakesCountsTurns, CountsTurn
<1>4. 0 \in T
  <2>1. ASSUME NEW n \in S PROVE ~Low(n, 0)
    <3>1. h[n] \in 1..N
      OBVIOUS
    <3>2. QED
      BY <1>2, <3>1
  <2> HIDE DEF Low
  <2>2. QED
    BY <1>3, <2>1
<1>5. ASSUME NEW m \in Nat, m \in T PROVE m + 1 \in T
  <2>1. SUFFICES ASSUME m + 1 =< N, NEW n \in S \cup {nil}, Low(n, m + 1)
                 PROVE  walk[m + 1][n] = {B[n]}
    OBVIOUS
  <2>2. CASE n = nil
    BY <1>3, <2>1, <2>2
  <2>3. CASE n \in S
    <3>1. walk[m + 1][n] = UNION {{c + One(n \in blk) + One(<<n, d>> = extra) :
                                     c \in walk[m][ch[n][d]]} : d \in TwoSides}
      <4>1. m + 1 \in 0..N /\ m + 1 # 0 /\ (m + 1) - 1 = m /\ n # nil /\ n \in Node \cup {nil}
        BY <1>2, <2>1, <2>3
      <4>2. walk[m + 1][n] = CountsTurn(walk, m + 1, n, ch, nil, blk, extra)
        BY <1>1, <4>1 DEF TakesCountsTurns
      <4>3. QED
        BY <4>1, <4>2 DEF CountsTurn
    <3>2. ASSUME NEW d \in TwoSides
          PROVE  {c + One(n \in blk) + One(<<n, d>> = extra) : c \in walk[m][ch[n][d]]} = {B[n]}
      <4>1. ch[n][d] \in S \cup {nil} /\ (ch[n][d] # nil => h[ch[n][d]] < h[n])
        BY <2>3 DEF Below
      <4>2. h[n] \in 1..N /\ h[n] =< m + 1 /\ (ch[n][d] # nil => h[ch[n][d]] \in 1..N)
        BY <1>2, <2>1, <2>3, <4>1
      <4>3. Low(ch[n][d], m)
        BY <4>1, <4>2
      <4>4. walk[m][ch[n][d]] = {B[ch[n][d]]}
        <5> HIDE DEF Low
        <5>1. QED
          BY <1>5, <2>1, <4>1, <4>3
      <4>5. QED
        BY <1>0, <2>3, <4>4
    <3>3. QED
      BY <3>1, <3>2 DEF TwoSides
  <2>4. QED
    BY <2>2, <2>3
<1>6. N \in T
  <2> HIDE DEF T
  <2>1. QED
    BY <1>4, <1>5, Induction
<1>7. \A n \in S \cup {nil} : Low(n, N)
  BY <1>2
<1>8. \A n \in S \cup {nil} : walk[N][n] = {B[n]}
  <2> HIDE DEF Low
  <2>1. QED
    BY <1>6, <1>7
<1>9. QED
  BY <1>8 DEF walk, CountIs
-----------------------------------------------------------------------------
(* Lists: what a concatenation has of its parts. *)

Elements(s) == {s[i] : i \in DOMAIN s}
Distinct(s) == \A i, j \in DOMAIN s : s[i] = s[j] => i = j
Ordered(key, s) == \A i, j \in DOMAIN s : i < j => key[s[i]] =< key[s[j]]
Chained(R, s) == \A i, j \in DOMAIN s : i < j => <<s[i], s[j]>> \in R

\* What a concatenation holds, ...
LEMMA ConcatElements ==
  ASSUME NEW D, NEW s \in Seq(D), NEW t \in Seq(D)
  PROVE  Elements(s \o t) = Elements(s) \cup Elements(t)
<1>1. /\ s \o t \in Seq(D)
      /\ Len(s \o t) = Len(s) + Len(t)
      /\ DOMAIN (s \o t) = 1..Len(s \o t) /\ DOMAIN s = 1..Len(s) /\ DOMAIN t = 1..Len(t)
      /\ Len(s) \in Nat /\ Len(t) \in Nat
  BY ConcatProperties, LenProperties
<1> DEFINE u == s \o t
<1>2. \A i \in 1..Len(s) : u[i] = s[i] /\ i \in DOMAIN u
  BY <1>1, ConcatProperties
<1>3. \A i \in 1..Len(t) : u[i + Len(s)] = t[i] /\ i + Len(s) \in DOMAIN u
  BY <1>1, ConcatProperties
<1>4. \A i \in DOMAIN u : u[i] = IF i =< Len(s) THEN s[i] ELSE t[i - Len(s)]
  BY <1>1, ConcatProperties
<1>5. ASSUME NEW i \in DOMAIN u PROVE u[i] \in Elements(s) \cup Elements(t)
  <2>1. CASE i =< Len(s)
    BY <1>1, <1>4, <2>1 DEF Elements
  <2>2. CASE ~(i =< Len(s))
    <3>1. i - Len(s) \in DOMAIN t /\ u[i] = t[i - Len(s)]
      BY <1>1, <1>4, <2>2
    <3>2. QED
      BY <3>1 DEF Elements
  <2>3. QED
    BY <2>1, <2>2
<1>6. \A i \in DOMAIN s : s[i] \in Elements(u)
  BY <1>1, <1>2 DEF Elements
<1>7. \A i \in DOMAIN t : t[i] \in Elements(u)
  BY <1>1, <1>3 DEF Elements
<1> HIDE DEF u
<1>8. Elements(u) = Elements(s) \cup Elements(t)
  BY <1>5, <1>6, <1>7 DEF Elements
<1>9. QED
  BY <1>8 DEF u

\* ... when it repeats no element ...
LEMMA ConcatDistinct ==
  ASSUME NEW D, NEW s \in Seq(D), NEW t \in Seq(D)
  PROVE  Distinct(s \o t) <=> Distinct(s) /\ Distinct(t) /\ Elements(s) \cap Elements(t) = {}
<1> DEFINE u == s \o t
<1>1. /\ Len(u) = Len(s) + Len(t)
      /\ DOMAIN u = 1..Len(u) /\ DOMAIN s = 1..Len(s) /\ DOMAIN t = 1..Len(t)
      /\ Len(s) \in Nat /\ Len(t) \in Nat
  BY ConcatProperties, LenProperties
<1>2. \A i \in 1..Len(s) : u[i] = s[i] /\ i \in DOMAIN u
  BY <1>1, ConcatProperties
<1>3. \A i \in 1..Len(t) : u[i + Len(s)] = t[i] /\ i + Len(s) \in DOMAIN u
  BY <1>1, ConcatProperties
<1> HIDE DEF u
<1>4. ASSUME Distinct(u) PROVE Distinct(s) /\ Distinct(t) /\ Elements(s) \cap Elements(t) = {}
  <2>1. Distinct(s)
    BY <1>1, <1>2, <1>4 DEF Distinct
  <2>2. Distinct(t)
    <3>1. ASSUME NEW i \in DOMAIN t, NEW j \in DOMAIN t, t[i] = t[j] PROVE i = j
      <4>1. i + Len(s) = j + Len(s)
        BY <1>1, <1>3, <1>4, <3>1 DEF Distinct
      <4>2. QED
        BY <1>1, <4>1
    <3>2. QED
      BY <3>1 DEF Distinct
  <2>3. ASSUME NEW i \in DOMAIN s, NEW j \in DOMAIN t, s[i] = t[j] PROVE FALSE
    <3>1. i = j + Len(s)
      BY <1>1, <1>2, <1>3, <1>4, <2>3 DEF Distinct
    <3>2. QED
      BY <1>1, <3>1
  <2>4. QED
    BY <2>1, <2>2, <2>3 DEF Elements
<1>5. ASSUME Distinct(s), Distinct(t), Elements(s) \cap Elements(t) = {} PROVE Distinct(u)
  <2>1. \A i \in DOMAIN s, j \in DOMAIN t : s[i] # t[j]
    BY <1>5 DEF Elements
  <2>2. SUFFICES ASSUME NEW i \in DOMAIN u, NEW j \in DOMAIN u, u[i] = u[j] PROVE i = j
    BY DEF Distinct
  <2>3. ASSUME NEW k \in DOMAIN u
        PROVE  \/ k \in DOMAIN s /\ u[k] = s[k]
               \/ k - Len(s) \in DOMAIN t /\ u[k] = t[k - Len(s)]
    <3>1. k \in DOMAIN s \/ (k - Len(s) \in DOMAIN t /\ (k - Len(s)) + Len(s) = k)
      BY <1>1
    <3>2. QED
      BY <1>1, <1>2, <1>3, <3>1
  <2>4. CASE i \in DOMAIN s /\ j \in DOMAIN s
    BY <1>1, <1>2, <1>5, <2>2, <2>4 DEF Distinct
  <2>5. CASE i - Len(s) \in DOMAIN t /\ j - Len(s) \in DOMAIN t
    <3>1. u[i] = t[i - Len(s)] /\ u[j] = t[j - Len(s)]
      <4>1. (i - Len(s)) + Len(s) = i /\ (j - Len(s)) + Len(s) = j
        BY <1>1
      <4>2. QED
        BY <1>1, <1>3, <2>5, <4>1
    <3>2. i - Len(s) = j - Len(s)
      BY <1>5, <2>2, <2>5, <3>1 DEF Distinct
    <3>3. QED
      BY <1>1, <3>2
  <2>6. QED
    BY <2>1, <2>2, <2>3, <2>4, <2>5
<1>6. QED
  BY <1>4, <1>5 DEF u

\* ... and when each of its elements may stand before those behind it, as R has it.
LEMMA ConcatChained ==
  ASSUME NEW D, NEW s \in Seq(D), NEW t \in Seq(D), NEW R
  PROVE  Chained(R, s \o t) <=>
           /\ Chained(R, s)
           /\ Chained(R, t)
           /\ \A a \in Elements(s), b \in Elements(t) : <<a, b>> \in R
<1> DEFINE u == s \o t
<1>1. /\ Len(u) = Len(s) + Len(t)
      /\ DOMAIN u = 1..Len(u) /\ DOMAIN s = 1..Len(s) /\ DOMAIN t = 1..Len(t)
      /\ Len(s) \in Nat /\ Len(t) \in Nat
  BY ConcatProperties, LenProperties
<1>2. \A i \in 1..Len(s) : u[i] = s[i] /\ i \in DOMAIN u
  BY <1>1, ConcatProperties
<1>3. \A i \in 1..Len(t) : u[i + Len(s)] = t[i] /\ i + Len(s) \in DOMAIN u
  BY <1>1, ConcatProperties
<1> HIDE DEF u
<1>4. ASSUME Chained(R, u)
      PROVE  /\ Chained(R, s)
             /\ Chained(R, t)
             /\ \A a \in Elements(s), b \in Elements(t) : <<a, b>> \in R
  <2>1. Chained(R, s)
    BY <1>1, <1>2, <1>4 DEF Chained
  <2>2. Chained(R, t)
    <3>1. ASSUME NEW i \in DOMAIN t, NEW j \in DOMAIN t, i < j PROVE <<t[i], t[j]>> \in R
      <4>1. i + Len(s) < j + Len(s)
        BY <1>1, <3>1
      <4>2. QED
        BY <1>1, <1>3, <1>4, <4>1 DEF Chained
    <3>2. QED
      BY <3>1 DEF Chained
  <2>3. ASSUME NEW i \in DOMAIN s, NEW j \in DOMAIN t PROVE <<s[i], t[j]>> \in R
    <3>1. i < j + Len(s)
      BY <1>1
    <3>2. QED
      BY <1>1, <1>2, <1>3, <1>4, <3>1 DEF Chained
  <2>4. QED
    BY <2>1, <2>2, <2>3 DEF Elements
<1>5. ASSUME Chained(R, s), Chained(R, t),
             \A a \in Elements(s), b \in Elements(t) : <<a, b>> \in R
      PROVE  Chained(R, u)
  <2>1. \A i \in DOMAIN s, j \in DOMAIN t : <<s[i], t[j]>> \in R
    BY <1>5 DEF Elements
  <2>2. SUFFICES ASSUME NEW i \in DOMAIN u, NEW j \in DOMAIN u, i < j PROVE <<u[i], u[j]>> \in R
    BY DEF Chained
  <2>3. ASSUME NEW k \in DOMAIN u
        PROVE  \/ k \in DOMAIN s /\ u[k] = s[k]
               \/ k - Len(s) \in DOMAIN t /\ u[k] = t[k - Len(s)] /\ k \notin DOMAIN s
    <3>1. k \in DOMAIN s \/ (k \notin DOMAIN s /\ k - Len(s) \in DOMAIN t /\ (k - Len(s)) + Len(s) = k)
      BY <1>1
    <3>2. QED
      BY <1>1, <1>2, <1>3, <3>1
  <2>4. CASE j \in DOMAIN s
    <3>1. i \in DOMAIN s
      BY <1>1, <2>2, <2>4
    <3>2. QED
      BY <1>1, <1>2, <1>5, <2>2, <2>4, <3>1 DEF Chained
  <2>5. CASE i \in DOMAIN s /\ j \notin DOMAIN s
    BY <1>1, <1>2, <2>1, <2>3, <2>5
  <2>6. CASE i \notin DOMAIN s /\ j \notin DOMAIN s
    <3>1. i - Len(s) < j - Len(s)
      BY <1>1, <2>2
    <3>2. QED
      BY <1>5, <2>3, <2>6, <3>1 DEF Chained
  <2>7. QED
    BY <2>4, <2>5, <2>6
<1>6. QED
  BY <1>4, <1>5 DEF u

\* The elements with integer keys that may stand before each other in a sorted list.
ByKey(D, key) == {p \in D \X D : key[p[1]] =< key[p[2]]}

LEMMA OrderedIsChained ==
  ASSUME NEW D, NEW s \in Seq(D), NEW key
  PROVE  /\ Ordered(key, s) <=> Chained(ByKey(D, key), s)
         /\ \A a, b \in D : <<a, b>> \in ByKey(D, key) <=> key[a] =< key[b]
<1>1. \A a, b \in D : <<a, b>> \in ByKey(D, key) <=> key[a] =< key[b]
  BY DEF ByKey
<1>2. \A i \in DOMAIN s : s[i] \in D
  BY ElementOfSeq
<1>3. QED
  BY <1>1, <1>2 DEF Ordered, Chained

\* Sorted by key is a case of it.
LEMMA ConcatOrdered ==
  ASSUME NEW D, NEW s \in Seq(D), NEW t \in Seq(D), NEW key
  PROVE  Ordered(key, s \o t) <=>
           /\ Ordered(key, s)
           /\ Ordered(key, t)
           /\ \A a \in Elements(s), b \in Elements(t) : key[a] =< key[b]
<1>1. PICK R : R = ByKey(D, key)
  OBVIOUS
<1>2. /\ \A u \in Seq(D) : Ordered(key, u) <=> Chained(R, u)
      /\ \A a, b \in D : <<a, b>> \in R <=> key[a] =< key[b]
  BY <1>1, OrderedIsChained
<1>3. s \o t \in Seq(D) /\ Elements(s) \subseteq D /\ Elements(t) \subseteq D
  BY ConcatProperties, ElementOfSeq DEF Elements
<1>4. Chained(R, s \o t) <=>
        /\ Chained(R, s) /\ Chained(R, t)
        /\ \A a \in Elements(s), b \in Elements(t) : <<a, b>> \in R
  BY ConcatChained
<1>5. QED
  BY <1>2, <1>3, <1>4

\* The same of three parts.
LEMMA ThreeParts ==
  ASSUME NEW D, NEW A \in Seq(D), NEW X \in Seq(D), NEW C \in Seq(D)
  PROVE  /\ (A \o X) \o C \in Seq(D)
         /\ Elements((A \o X) \o C) = Elements(A) \cup Elements(X) \cup Elements(C)
         /\ Distinct((A \o X) \o C) <=>
              /\ Distinct(A) /\ Distinct(X) /\ Distinct(C)
              /\ Elements(A) \cap Elements(X) = {}
              /\ (Elements(A) \cup Elements(X)) \cap Elements(C) = {}
<1>1. PICK s : s = A \o X
  OBVIOUS
<1>2. s \in Seq(D)
  BY <1>1, ConcatProperties
<1>3. /\ Elements(s) = Elements(A) \cup Elements(X)
      /\ Distinct(s) <=> Distinct(A) /\ Distinct(X) /\ Elements(A) \cap Elements(X) = {}
  BY <1>1, ConcatElements, ConcatDistinct
<1>4. /\ s \o C \in Seq(D)
      /\ Elements(s \o C) = Elements(s) \cup Elements(C)
      /\ Distinct(s \o C) <=> Distinct(s) /\ Distinct(C) /\ Elements(s) \cap Elements(C) = {}
  BY <1>2, ConcatProperties, ConcatElements, ConcatDistinct
<1>5. QED
  BY <1>1, <1>3, <1>4

\* Chained, so is each part, and every element of one may stand before those behind it.
LEMMA ThreePartsChained ==
  ASSUME NEW D, NEW A \in Seq(D), NEW X \in Seq(D), NEW C \in Seq(D),
         NEW R
  PROVE  Chained(R, (A \o X) \o C) <=>
              /\ Chained(R, A) /\ Chained(R, X) /\ Chained(R, C)
              /\ \A a \in Elements(A), x \in Elements(X) : <<a, x>> \in R
              /\ \A a \in Elements(A) \cup Elements(X), c \in Elements(C) : <<a, c>> \in R
<1>1. PICK s : s = A \o X
  OBVIOUS
<1>2. s \in Seq(D)
  BY <1>1, ConcatProperties
<1>3. Elements(s) = Elements(A) \cup Elements(X)
  BY <1>1, ConcatElements
<1>4. Chained(R, s) <=>
        /\ Chained(R, A) /\ Chained(R, X)
        /\ \A a \in Elements(A), x \in Elements(X) : <<a, x>> \in R
  BY <1>1, ConcatChained
<1>5. Chained(R, s \o C) <=>
        /\ Chained(R, s) /\ Chained(R, C)
        /\ \A a \in Elements(s), c \in Elements(C) : <<a, c>> \in R
  BY <1>2, ConcatChained
<1>6. QED
  BY <1>1, <1>3, <1>4, <1>5

\* The same of keys.
LEMMA ThreePartsOrdered ==
  ASSUME NEW D, NEW A \in Seq(D), NEW X \in Seq(D), NEW C \in Seq(D), NEW key
  PROVE  Ordered(key, (A \o X) \o C) <=>
              /\ Ordered(key, A) /\ Ordered(key, X) /\ Ordered(key, C)
              /\ \A a \in Elements(A), x \in Elements(X) : key[a] =< key[x]
              /\ \A a \in Elements(A) \cup Elements(X), c \in Elements(C) : key[a] =< key[c]
<1>1. PICK s \in Seq(D) : s = A \o X
  BY ConcatProperties
<1>2. Elements(s) = Elements(A) \cup Elements(X)
  BY <1>1, ConcatElements
<1>3. Ordered(key, s) <=>
        /\ Ordered(key, A) /\ Ordered(key, X)
        /\ \A a \in Elements(A), x \in Elements(X) : key[a] =< key[x]
  BY <1>1, ConcatOrdered
<1>4. Ordered(key, s \o C) <=>
        /\ Ordered(key, s) /\ Ordered(key, C)
        /\ \A a \in Elements(s), c \in Elements(C) : key[a] =< key[c]
  BY ConcatOrdered
<1>5. QED
  BY <1>1, <1>2, <1>3, <1>4

\* A list of one node.
LEMMA OneElement ==
  ASSUME NEW D, NEW n \in D
  PROVE  <<n>> \in Seq(D) /\ Elements(<<n>>) = {n} /\ Distinct(<<n>>) /\ <<n>> # <<>>
BY DEF Elements, Distinct

\* The same of a node between two parts.
LEMMA NodeBetween ==
  ASSUME NEW D, NEW A \in Seq(D), NEW n \in D, NEW C \in Seq(D)
  PROVE  /\ (A \o <<n>>) \o C \in Seq(D)
         /\ Elements((A \o <<n>>) \o C) = Elements(A) \cup {n} \cup Elements(C)
         /\ Distinct((A \o <<n>>) \o C) <=>
              /\ Distinct(A) /\ Distinct(C)
              /\ n \notin Elements(A)
              /\ (Elements(A) \cup {n}) \cap Elements(C) = {}
<1>1. PICK X : X = <<n>>
  OBVIOUS
<1>2. X \in Seq(D) /\ Elements(X) = {n} /\ Distinct(X)
  BY <1>1, OneElement
<1>3. /\ (A \o X) \o C \in Seq(D)
      /\ Elements((A \o X) \o C) = Elements(A) \cup Elements(X) \cup Elements(C)
      /\ Distinct((A \o X) \o C) <=>
           /\ Distinct(A) /\ Distinct(X) /\ Distinct(C)
           /\ Elements(A) \cap Elements(X) = {}
           /\ (Elements(A) \cup Elements(X)) \cap Elements(C) = {}
  BY <1>2, ThreeParts
<1>4. Elements(A) \cap Elements(X) = {} <=> n \notin Elements(A)
  BY <1>2
<1>5. QED
  BY <1>1, <1>2, <1>3, <1>4

\* A node between two lists: when the whole is chained, ...
LEMMA NodeBetweenChained ==
  ASSUME NEW D, NEW A \in Seq(D), NEW n \in D, NEW C \in Seq(D),
         NEW R
  PROVE  Chained(R, (A \o <<n>>) \o C) <=>
              /\ Chained(R, A) /\ Chained(R, C)
              /\ \A a \in Elements(A) : <<a, n>> \in R
              /\ \A a \in Elements(A) \cup {n}, c \in Elements(C) : <<a, c>> \in R
<1>1. PICK X : X = <<n>>
  OBVIOUS
<1>2. X \in Seq(D) /\ Elements(X) = {n}
  BY <1>1, OneElement
<1>3. Chained(R, X)
  BY <1>1 DEF Chained
<1>4. Chained(R, (A \o X) \o C) <=>
           /\ Chained(R, A) /\ Chained(R, X) /\ Chained(R, C)
           /\ \A a \in Elements(A), x \in Elements(X) : <<a, x>> \in R
           /\ \A a \in Elements(A) \cup Elements(X), c \in Elements(C) : <<a, c>> \in R
  BY <1>2, ThreePartsChained
<1>5. QED
  BY <1>1, <1>2, <1>3, <1>4

\* ... and sorted.
LEMMA NodeBetweenOrdered ==
  ASSUME NEW D, NEW A \in Seq(D), NEW n \in D, NEW C \in Seq(D),
         NEW key
  PROVE  Ordered(key, (A \o <<n>>) \o C) <=>
              /\ Ordered(key, A) /\ Ordered(key, C)
              /\ \A a \in Elements(A) : key[a] =< key[n]
              /\ \A a \in Elements(A) \cup {n}, c \in Elements(C) : key[a] =< key[c]
<1>1. PICK X : X = <<n>>
  OBVIOUS
<1>2. X \in Seq(D) /\ Elements(X) = {n}
  BY <1>1, OneElement
<1>3. Ordered(key, X)
  BY <1>1 DEF Ordered
<1>4. Ordered(key, (A \o X) \o C) <=>
           /\ Ordered(key, A) /\ Ordered(key, X) /\ Ordered(key, C)
           /\ \A a \in Elements(A), x \in Elements(X) : key[a] =< key[x]
           /\ \A a \in Elements(A) \cup Elements(X), c \in Elements(C) : key[a] =< key[c]
  BY <1>2, ThreePartsOrdered
<1>5. QED
  BY <1>1, <1>2, <1>3, <1>4

\* A starts the list u, and X goes on.
Starts(u, A, X) ==
  /\ Len(A) \in Nat
  /\ Len(A) + 1 \in DOMAIN u
  /\ u[Len(A) + 1] = X[1]
  /\ \A i \in 1..Len(A) : u[i] = A[i]

\* Three parts, by position.
LEMMA Parts ==
  ASSUME NEW D, NEW A \in Seq(D), NEW X \in Seq(D), NEW C \in Seq(D), X # <<>>
  PROVE  Starts((A \o X) \o C, A, X)
<1>1. Len(A) \in Nat /\ Len(X) \in Nat \ {0} /\ Len(C) \in Nat
  BY LenProperties, EmptySeq
<1>2. PICK s : s = A \o X
  OBVIOUS
<1>3. /\ s \in Seq(D) /\ Len(s) = Len(A) + Len(X)
      /\ \A i \in 1..Len(A) + Len(X) : s[i] = IF i =< Len(A) THEN A[i] ELSE X[i - Len(A)]
  BY <1>2, ConcatProperties
<1>4. PICK u : u = s \o C
  OBVIOUS
<1>5. /\ u \in Seq(D) /\ Len(u) = Len(s) + Len(C)
      /\ \A i \in 1..Len(s) + Len(C) : u[i] = IF i =< Len(s) THEN s[i] ELSE C[i - Len(s)]
  <2>1. s \in Seq(D)
    BY <1>3
  <2>2. QED
    BY <1>4, <2>1, ConcatProperties
<1>6. DOMAIN u = 1..Len(u)
  BY <1>5, LenProperties
<1>7. \A i \in 1..Len(s) : u[i] = s[i]
  BY <1>1, <1>3, <1>5
<1>8. s[Len(A) + 1] = X[1]
  <2>1. Len(A) + 1 \in 1..Len(A) + Len(X) /\ ~(Len(A) + 1 =< Len(A)) /\ (Len(A) + 1) - Len(A) = 1
    BY <1>1
  <2>2. QED
    BY <1>3, <2>1
<1>9. \A i \in 1..Len(A) : u[i] = A[i]
  BY <1>1, <1>3, <1>7
<1>10. u[Len(A) + 1] = X[1] /\ Len(A) + 1 \in DOMAIN u
  BY <1>1, <1>3, <1>5, <1>6, <1>7, <1>8
<1>11. QED
  BY <1>1, <1>2, <1>4, <1>9, <1>10 DEF Starts

\* In a list without repetition a part has one place.
LEMMA OneSplit ==
  ASSUME NEW D, NEW A \in Seq(D), NEW X \in Seq(D), NEW C \in Seq(D),
         NEW A2 \in Seq(D), NEW C2 \in Seq(D), X # <<>>,
         (A \o X) \o C = (A2 \o X) \o C2, Distinct((A \o X) \o C)
  PROVE  A = A2 /\ C = C2
<1>1. PICK u : u = (A \o X) \o C
  OBVIOUS
<1>2. Starts(u, A, X) /\ Starts(u, A2, X) /\ Distinct(u)
  BY <1>1, Parts
<1>3. Len(A) + 1 = Len(A2) + 1
  BY <1>2 DEF Distinct, Starts
<1>4. Len(A) = Len(A2)
  BY <1>2, <1>3 DEF Starts
<1>5. A = A2
  BY <1>2, <1>4, SeqEqual DEF Starts
<1>6. C = C2
  <2>1. A \o X \in Seq(D)
    BY ConcatProperties
  <2>2. (A \o X) \o C = (A \o X) \o C2
    BY <1>5
  <2>3. QED
    BY <2>1, <2>2, ConcatSimplifications
<1>7. QED
  BY <1>5, <1>6

\* The elements of a list without repetition are as many as it is long.
LEMMA Counted ==
  ASSUME NEW D, NEW s \in Seq(D), Distinct(s)
  PROVE  IsFiniteSet(Elements(s)) /\ Cardinality(Elements(s)) = Len(s)
<1>1. Len(s) \in Nat /\ DOMAIN s = 1..Len(s) /\ s \in [1..Len(s) -> D]
  BY LenProperties
<1>2. s \in Bijection(1..Len(s), Elements(s))
  <2>1. s \in [1..Len(s) -> Elements(s)]
    BY <1>1 DEF Elements
  <2>2. QED
    BY <1>1, <2>1 DEF Bijection, Injection, Surjection, IsInjective, Elements, Distinct
<1>3. ExistsBijection(1..Len(s), Elements(s))
  BY <1>2 DEF ExistsBijection
<1>4. QED
  BY <1>1, <1>3, FS_CountingElements, FS_NatBijection
-----------------------------------------------------------------------------
(* What is in the list below a node. *)

\* A tree whose parent pointers point back, with heights up to N.
Shaped(ch, par, S, nil, h, N) ==
  /\ Below(ch, S, nil, h)
  /\ \A n \in S : h[n] \in 1..N
  /\ \A n \in S, d \in TwoSides : ch[n][d] # nil => par[ch[n][d]] = n
  /\ \A n \in S : ch[n]["left"] # nil => ch[n]["left"] # ch[n]["right"]

\* Induction from the leaves up: T has every node whose children it has;
\* it needs the heights alone ...
LEMMA BottomUp ==
  ASSUME NEW ch, NEW S, NEW nil, NEW h, NEW N \in Nat, Below(ch, S, nil, h),
         \A n \in S : h[n] \in 1..N,
         NEW T, \A n \in S : (\A d \in TwoSides : ch[n][d] # nil => ch[n][d] \in T) => n \in T
  PROVE  S \subseteq T
<1> DEFINE H == {h[n] : n \in S \ T}
<1>1. SUFFICES ASSUME S \ T # {} PROVE FALSE
  OBVIOUS
<1>2. H # {} /\ H \in SUBSET Nat
  BY <1>1
<1>3. PICK m \in H : \A k \in H : m =< k
  <2> HIDE DEF H
  <2>1. QED
    BY <1>2, LeastNumber
<1>4. PICK n \in S \ T : m = h[n]
  BY <1>3
<1>5. ASSUME NEW d \in TwoSides, ch[n][d] # nil PROVE ch[n][d] \in T
  <2>1. ch[n][d] \in S /\ h[ch[n][d]] < h[n] /\ h[n] \in Nat /\ h[ch[n][d]] \in Nat
    BY <1>5 DEF Below
  <2>2. QED
    BY <1>3, <1>4, <2>1
<1>6. QED
  BY <1>5

\* ... which a tree with parent pointers has ...
LEMMA UpwardInduction ==
  ASSUME NEW ch, NEW par, NEW S, NEW nil, NEW h, NEW N \in Nat, Shaped(ch, par, S, nil, h, N),
         NEW T, \A n \in S : (\A d \in TwoSides : ch[n][d] # nil => ch[n][d] \in T) => n \in T
  PROVE  S \subseteq T
<1>1. Below(ch, S, nil, h) /\ \A n \in S : h[n] \in 1..N
  BY DEF Shaped
<1>2. QED
  BY <1>1, BottomUp

\* ... and from the root down: T has every node above which it has all.
LEMMA DownwardInduction ==
  ASSUME NEW ch, NEW par, NEW S, NEW nil, NEW h, NEW N \in Nat, Shaped(ch, par, S, nil, h, N),
         NEW T, \A n \in S : (\A m \in S : h[n] < h[m] => m \in T) => n \in T
  PROVE  S \subseteq T
<1> DEFINE H == {N - h[n] : n \in S \ T}
<1>1. SUFFICES ASSUME S \ T # {} PROVE FALSE
  OBVIOUS
<1>2. H # {} /\ H \in SUBSET Nat
  BY <1>1 DEF Shaped
<1>3. PICK m \in H : \A k \in H : m =< k
  <2> HIDE DEF H
  <2>1. QED
    BY <1>2, LeastNumber
<1>4. PICK n \in S \ T : m = N - h[n]
  BY <1>3
<1>5. ASSUME NEW a \in S, h[n] < h[a] PROVE a \in T
  <2>1. h[n] \in Nat /\ h[a] \in Nat
    BY DEF Shaped
  <2>2. N - h[a] < N - h[n]
    BY <1>5, <2>1
  <2>3. QED
    BY <1>3, <1>4, <2>1, <2>2
<1>6. QED
  BY <1>5

\* The nodes at and below n.
Nodes(io, n) == Elements(io[n])

\* The nodes below n are n and those below its two children.
LEMMA NodesOfWalk ==
  ASSUME NEW ch, NEW S, NEW nil, NEW h, Below(ch, S, nil, h),
         NEW io, IsInOrder(io, ch, S, nil)
  PROVE  /\ Nodes(io, nil) = {}
         /\ \A n \in S \cup {nil} : io[n] \in Seq(S) /\ Nodes(io, n) \subseteq S
         /\ \A n \in S : Nodes(io, n) = Nodes(io, ch[n]["left"]) \cup {n} \cup Nodes(io, ch[n]["right"])
<1>1. io[nil] = <<>> /\ <<>> \in Seq(S)
  BY DEF IsInOrder
<1>2. Nodes(io, nil) = {}
  BY <1>1 DEF Nodes, Elements
<1>3. \A n \in S \cup {nil} : io[n] \in Seq(S)
  BY <1>1 DEF IsInOrder
<1>4. ASSUME NEW n \in S \cup {nil} PROVE Nodes(io, n) \subseteq S
  <2>1. io[n] \in Seq(S)
    BY <1>3
  <2>2. \A i \in DOMAIN io[n] : io[n][i] \in S
    BY <2>1, LenProperties, ElementOfSeq
  <2>3. QED
    BY <2>2 DEF Nodes, Elements
<1>5. ASSUME NEW n \in S
      PROVE  Nodes(io, n) = Nodes(io, ch[n]["left"]) \cup {n} \cup Nodes(io, ch[n]["right"])
  <2>1. ch[n]["left"] \in S \cup {nil} /\ ch[n]["right"] \in S \cup {nil}
    BY DEF Below, TwoSides
  <2>2. io[ch[n]["left"]] \in Seq(S) /\ io[ch[n]["right"]] \in Seq(S) /\ <<n>> \in Seq(S)
    BY <1>3, <2>1
  <2>3. io[n] = (io[ch[n]["left"]] \o <<n>>) \o io[ch[n]["right"]]
    BY DEF IsInOrder
  <2>4. \A L, R \in Seq(S) :
          Elements((L \o <<n>>) \o R) = Elements(L) \cup {n} \cup Elements(R)
    BY NodeBetween
  <2>5. QED
    BY <2>2, <2>3, <2>4 DEF Nodes
<1>6. QED
  BY <1>2, <1>3, <1>4, <1>5

\* The same for a tree with parent pointers.
LEMMA NodesUnfold ==
  ASSUME NEW ch, NEW par, NEW S, NEW nil, NEW h, NEW N \in Nat, Shaped(ch, par, S, nil, h, N),
         NEW io, IsInOrder(io, ch, S, nil)
  PROVE  /\ Nodes(io, nil) = {}
         /\ \A n \in S \cup {nil} : io[n] \in Seq(S) /\ Nodes(io, n) \subseteq S
         /\ \A n \in S : Nodes(io, n) = Nodes(io, ch[n]["left"]) \cup {n} \cup Nodes(io, ch[n]["right"])
BY NodesOfWalk DEF Shaped

\* A walk that comes to a node comes to its children.
LEMMA WalkGoesOn ==
  ASSUME NEW ch, NEW S, NEW nil, NEW h, NEW N \in Nat, Below(ch, S, nil, h),
         \A n \in S : h[n] \in 1..N, NEW io, IsInOrder(io, ch, S, nil)
  PROVE  \A n \in S : /\ n \in Nodes(io, n)
                      /\ \A m \in Nodes(io, n), d \in TwoSides :
                           ch[m][d] # nil => ch[m][d] \in Nodes(io, n)
<1> DEFINE T == {n \in S : \A m \in Nodes(io, n), d \in TwoSides :
                              ch[m][d] # nil => ch[m][d] \in Nodes(io, n)}
<1>1. \A n \in S : n \in Nodes(io, n)
  BY NodesOfWalk
<1>2. ASSUME NEW n \in S, \A d \in TwoSides : ch[n][d] # nil => ch[n][d] \in T PROVE n \in T
  <2>1. PICK x, y : x = ch[n]["left"] /\ y = ch[n]["right"]
    OBVIOUS
  <2>2. Nodes(io, n) = Nodes(io, x) \cup {n} \cup Nodes(io, y) /\ Nodes(io, nil) = {}
    BY <2>1, NodesOfWalk
  <2>3. (x # nil => x \in T /\ x \in Nodes(io, x)) /\ (y # nil => y \in T /\ y \in Nodes(io, y))
    BY <1>1, <1>2, <2>1 DEF TwoSides
  <2>4. ASSUME NEW m \in Nodes(io, n), NEW d \in TwoSides, ch[m][d] # nil
        PROVE  ch[m][d] \in Nodes(io, n)
    <3>1. CASE m = n
      BY <2>1, <2>2, <2>3, <2>4, <3>1 DEF TwoSides
    <3>2. CASE m \in Nodes(io, x)
      BY <2>2, <2>3, <2>4, <3>2
    <3>3. CASE m \in Nodes(io, y)
      BY <2>2, <2>3, <2>4, <3>3
    <3>4. QED
      BY <2>2, <2>4, <3>1, <3>2, <3>3
  <2>5. QED
    BY <2>4
<1>3. S \subseteq T
  <2> HIDE DEF T
  <2>1. QED
    BY <1>2, BottomUp
<1>4. QED
  BY <1>1, <1>3

\* Below a node are the node, lower nodes whose parents are below it, and their children.
LEMMA NodesBelow ==
  ASSUME NEW ch, NEW par, NEW S, NEW nil, NEW h, NEW N \in Nat, Shaped(ch, par, S, nil, h, N),
         NEW io, IsInOrder(io, ch, S, nil)
  PROVE  \A n \in S :
           /\ n \in Nodes(io, n)
           /\ \A m \in Nodes(io, n) :
                /\ m # n => h[m] < h[n] /\ par[m] \in Nodes(io, n) /\ h[m] < h[par[m]]
                /\ \A d \in TwoSides : ch[m][d] # nil => ch[m][d] \in Nodes(io, n)
<1> DEFINE Good(n) ==
      \A m \in Nodes(io, n) :
        /\ m # n => h[m] < h[n] /\ par[m] \in Nodes(io, n) /\ h[m] < h[par[m]]
        /\ \A d \in TwoSides : ch[m][d] # nil => ch[m][d] \in Nodes(io, n)
    T == {n \in S : Good(n)}
<1>1. \A n \in S : n \in Nodes(io, n)
  BY NodesUnfold
<1>2. ASSUME NEW n \in S, \A d \in TwoSides : ch[n][d] # nil => ch[n][d] \in T
      PROVE  Good(n)
  <2> DEFINE c(d) == ch[n][d]
  <2>1. \A d \in TwoSides : c(d) # nil => c(d) \in S /\ h[c(d)] < h[n] /\ par[c(d)] = n
    BY DEF Shaped, Below
  <2>2. Nodes(io, n) = Nodes(io, c("left")) \cup {n} \cup Nodes(io, c("right"))
    BY NodesUnfold
  <2>3. \A d \in TwoSides : Nodes(io, c(d)) \subseteq Nodes(io, n)
    BY <2>2 DEF TwoSides
  <2>4. \A d \in TwoSides : c(d) # nil => c(d) \in Nodes(io, c(d))
    BY <1>1, <2>1
  <2>5. ASSUME NEW d \in TwoSides, NEW m \in Nodes(io, c(d))
        PROVE  /\ h[m] < h[n] /\ par[m] \in Nodes(io, n) /\ h[m] < h[par[m]]
               /\ \A e \in TwoSides : ch[m][e] # nil => ch[m][e] \in Nodes(io, n)
    <3>1. c(d) # nil
      BY <2>5, NodesUnfold
    <3>2. Good(c(d)) /\ c(d) \in S
      BY <1>2, <2>1, <3>1
    <3>3. \A e \in TwoSides : ch[m][e] # nil => ch[m][e] \in Nodes(io, n)
      BY <2>3, <2>5, <3>2
    <3>4. m \in S
      BY <2>5, <3>2, NodesUnfold
    <3>5. h[m] \in Nat /\ h[n] \in Nat /\ h[c(d)] \in Nat
      BY <3>2, <3>4 DEF Shaped
    <3>6. h[m] < h[n]
      BY <2>1, <2>5, <3>1, <3>2, <3>5
    <3>7. par[m] \in Nodes(io, n) /\ h[m] < h[par[m]]
      BY <1>1, <2>1, <2>3, <2>5, <3>1, <3>2
    <3>8. QED
      BY <3>3, <3>6, <3>7
  <2>6. \A e \in TwoSides : ch[n][e] # nil => ch[n][e] \in Nodes(io, n)
    BY <2>3, <2>4
  <2>7. \A m \in Nodes(io, n) : m = n \/ \E d \in TwoSides : m \in Nodes(io, c(d))
    BY <2>2 DEF TwoSides
  <2> HIDE DEF c
  <2>8. QED
    BY <2>5, <2>6, <2>7
<1>3. \A n \in S : (\A d \in TwoSides : ch[n][d] # nil => ch[n][d] \in T) => n \in T
  <2> HIDE DEF Good
  <2>1. QED
    BY <1>2
<1>4. S \subseteq T
  <2> HIDE DEF T
  <2>1. QED
    BY <1>3, UpwardInduction
<1>5. \A n \in S : Good(n)
  <2> HIDE DEF Good
  <2>1. QED
    BY <1>4
<1>6. QED
  BY <1>1, <1>5

\* The two sides have no node in common.
LEMMA SidesApart ==
  ASSUME NEW ch, NEW par, NEW S, NEW nil, NEW h, NEW N \in Nat, Shaped(ch, par, S, nil, h, N),
         NEW io, IsInOrder(io, ch, S, nil), NEW n \in S
  PROVE  /\ Nodes(io, ch[n]["left"]) \cap Nodes(io, ch[n]["right"]) = {}
         /\ \A d \in TwoSides : n \notin Nodes(io, ch[n][d])
<1> DEFINE c(d) == ch[n][d]
<1>1. \A d \in TwoSides : c(d) # nil => c(d) \in S /\ h[c(d)] < h[n] /\ par[c(d)] = n
  BY DEF Shaped, Below
<1>2. ASSUME NEW d \in TwoSides, n \in Nodes(io, c(d)) PROVE FALSE
  <2>1. c(d) # nil
    BY <1>2, NodesUnfold
  <2>2. c(d) \in S /\ h[n] \in Nat /\ h[c(d)] \in Nat /\ h[c(d)] < h[n] /\ n # c(d)
    BY <1>1, <2>1 DEF Shaped
  <2>3. h[n] < h[c(d)]
    BY <1>2, <2>2, NodesBelow
  <2>4. QED
    BY <2>2, <2>3
<1> DEFINE T == S \ (Nodes(io, c("left")) \cap Nodes(io, c("right")))
<1>3. ASSUME NEW m \in S, \A a \in S : h[m] < h[a] => a \in T, m \notin T PROVE FALSE
  <2>1. m \in Nodes(io, c("left")) /\ m \in Nodes(io, c("right"))
    BY <1>3
  <2>2. c("left") # nil /\ c("right") # nil
    BY <2>1, NodesUnfold
  <2>3. c("left") \in S /\ c("right") \in S /\ c("left") # c("right")
        /\ par[c("left")] = n /\ par[c("right")] = n
    BY <1>1, <2>2 DEF Shaped, TwoSides
  <2>4. m # c("left")
    BY <1>2, <2>1, <2>3, NodesBelow DEF TwoSides
  <2>5. m # c("right")
    BY <1>2, <2>1, <2>3, NodesBelow DEF TwoSides
  <2>6. par[m] \in Nodes(io, c("left")) /\ par[m] \in Nodes(io, c("right"))
    BY <2>1, <2>3, <2>4, <2>5, NodesBelow
  <2>7. par[m] \in S
    BY <2>3, <2>6, NodesUnfold
  <2>8. h[m] < h[par[m]]
    BY <2>1, <2>3, <2>4, NodesBelow
  <2>9. QED
    BY <1>3, <2>6, <2>7, <2>8
<1>4. S \subseteq T
  <2> HIDE DEF T
  <2>1. \A m \in S : (\A a \in S : h[m] < h[a] => a \in T) => m \in T
    BY <1>3
  <2>2. QED
    BY <2>1, DownwardInduction
<1>5. Nodes(io, c("left")) \subseteq S
  BY <1>1, NodesUnfold DEF TwoSides
<1>6. QED
  BY <1>2, <1>4, <1>5

\* The walk meets no node twice.
LEMMA WalkDistinct ==
  ASSUME NEW ch, NEW par, NEW S, NEW nil, NEW h, NEW N \in Nat, Shaped(ch, par, S, nil, h, N),
         NEW io, IsInOrder(io, ch, S, nil)
  PROVE  \A n \in S \cup {nil} : Distinct(io[n])
<1> DEFINE T == {n \in S : Distinct(io[n])}
<1>1. Distinct(io[nil])
  BY DEF IsInOrder, Distinct
<1>2. ASSUME NEW n \in S, \A d \in TwoSides : ch[n][d] # nil => ch[n][d] \in T PROVE n \in T
  <2>1. PICK l, r : l = ch[n]["left"] /\ r = ch[n]["right"]
    OBVIOUS
  <2>2. Distinct(io[l]) /\ Distinct(io[r])
    BY <1>1, <1>2, <2>1 DEF TwoSides
  <2>3. l \in S \cup {nil} /\ r \in S \cup {nil}
    BY <2>1 DEF Shaped, Below, TwoSides
  <2>4. io[l] \in Seq(S) /\ io[r] \in Seq(S)
    BY <2>3, NodesUnfold
  <2>5. /\ Elements(io[l]) \cap Elements(io[r]) = {}
        /\ n \notin Elements(io[l]) /\ n \notin Elements(io[r])
    BY <2>1, SidesApart DEF Nodes, TwoSides
  <2>6. Distinct((io[l] \o <<n>>) \o io[r])
    BY <2>2, <2>4, <2>5, NodeBetween
  <2>7. QED
    BY <2>1, <2>6 DEF IsInOrder
<1>3. S \subseteq T
  <2> HIDE DEF T
  <2>1. QED
    BY <1>2, UpwardInduction
<1>4. QED
  BY <1>1, <1>3

\* Every node but the root hangs below its parent.
Rooted(ch, par, r, S, nil) ==
  /\ r \in S \cup {nil}
  /\ \A n \in S : IF par[n] = nil THEN n = r ELSE par[n] \in S /\ \E d \in TwoSides : ch[par[n]][d] = n

\* The walk from the root meets them all.
LEMMA WalkMeetsAll ==
  ASSUME NEW ch, NEW par, NEW S, NEW nil, NEW h, NEW N \in Nat, Shaped(ch, par, S, nil, h, N),
         NEW io, IsInOrder(io, ch, S, nil), NEW r, Rooted(ch, par, r, S, nil)
  PROVE  Nodes(io, r) = S
<1>1. Nodes(io, r) \subseteq S
  BY NodesUnfold DEF Rooted
<1>2. ASSUME NEW n \in S, \A m \in S : h[n] < h[m] => m \in Nodes(io, r)
      PROVE  n \in Nodes(io, r)
  <2>1. CASE par[n] = nil
    BY <2>1, NodesBelow DEF Rooted
  <2>2. CASE par[n] # nil
    <3>1. PICK d \in TwoSides : par[n] \in S /\ ch[par[n]][d] = n
      BY <2>2 DEF Rooted
    <3>2. n # nil
      BY DEF Shaped, Below
    <3>3. h[n] < h[par[n]]
      BY <3>1, <3>2 DEF Shaped, Below
    <3>4. par[n] \in Nodes(io, r)
      BY <1>2, <3>1, <3>3
    <3>5. r \in S
      BY <3>4, NodesUnfold DEF Rooted
    <3>6. QED
      BY <3>1, <3>2, <3>4, <3>5, NodesBelow
  <2>3. QED
    BY <2>1, <2>2
<1>3. S \subseteq Nodes(io, r)
  BY <1>2, DownwardInduction
<1>4. QED
  BY <1>1, <1>3
-----------------------------------------------------------------------------
(* A tree before and after a change. *)

\* Where no child pointer changes, the list stays.
LEMMA SameBelow ==
  ASSUME NEW ch, NEW par, NEW S, NEW nil, NEW h, NEW N \in Nat, Shaped(ch, par, S, nil, h, N),
         NEW io, IsInOrder(io, ch, S, nil),
         NEW ch2, NEW S2, NEW io2, IsInOrder(io2, ch2, S2, nil),
         NEW n \in S \cup {nil},
         \A m \in Nodes(io, n) : m \in S2 /\ \A d \in TwoSides : ch2[m][d] = ch[m][d]
  PROVE  io2[n] = io[n]
<1> DEFINE Same == {m \in S : m \in S2 /\ \A d \in TwoSides : ch2[m][d] = ch[m][d]}
    T == {m \in S : Nodes(io, m) \subseteq Same => io2[m] = io[m]}
<1>1. io2[nil] = io[nil]
  BY DEF IsInOrder
<1>2. ASSUME NEW m \in S, \A d \in TwoSides : ch[m][d] # nil => ch[m][d] \in T,
             Nodes(io, m) \subseteq Same
      PROVE  io2[m] = io[m]
  <2>1. PICK l, r : l = ch[m]["left"] /\ r = ch[m]["right"]
    OBVIOUS
  <2>2. Nodes(io, m) = Nodes(io, l) \cup {m} \cup Nodes(io, r)
    BY <2>1, NodesUnfold
  <2>3. m \in S2 /\ ch2[m]["left"] = l /\ ch2[m]["right"] = r
    BY <1>2, <2>1, <2>2 DEF TwoSides
  <2>4. ASSUME NEW d \in TwoSides PROVE io2[ch[m][d]] = io[ch[m][d]]
    <3>1. Nodes(io, ch[m][d]) \subseteq Same
      BY <1>2, <2>1, <2>2 DEF TwoSides
    <3> HIDE DEF Same
    <3>2. QED
      BY <1>1, <1>2, <3>1
  <2>5. io2[l] = io[l] /\ io2[r] = io[r]
    BY <2>1, <2>4 DEF TwoSides
  <2>6. QED
    BY <2>1, <2>3, <2>5 DEF IsInOrder
<1>3. S \subseteq T
  <2>1. \A m \in S : (\A d \in TwoSides : ch[m][d] # nil => ch[m][d] \in T) => m \in T
    <3> HIDE DEF Same
    <3>1. QED
      BY <1>2
  <2> HIDE DEF T
  <2>2. QED
    BY <2>1, UpwardInduction
<1>4. Nodes(io, n) \subseteq Same
  BY NodesUnfold
<1>5. QED
  <2> HIDE DEF Same
  <2>1. QED
    BY <1>1, <1>3, <1>4

\* A name for concatenation, to regroup parts without looking into them.
Cat(s, t) == s \o t

\* Concatenation is associative.
LEMMA CatRegroups ==
  \A D : \A s, t, u \in Seq(D) : Cat(s, t) \in Seq(D) /\ Cat(Cat(s, t), u) = Cat(s, Cat(t, u))
BY ConcatAssociative, ConcatProperties DEF Cat

\* What is around Y stays around Y in a longer list.
Around(D, A, C, w, t) ==
  \E A2 \in Seq(D), C2 \in Seq(D) : \A Y \in Seq(D) :
    /\ Cat(Cat(Cat(Cat(A, Y), C), w), t) = Cat(Cat(A, Y), C2)
    /\ Cat(Cat(t, w), Cat(Cat(A, Y), C)) = Cat(Cat(A2, Y), C)

\* A part keeps its place when the list grows at an end ...
LEMMA CatLonger ==
  ASSUME NEW D, NEW A \in Seq(D), NEW C \in Seq(D), NEW w \in Seq(D), NEW t \in Seq(D)
  PROVE  Around(D, A, C, w, t)
<1>1. \A Y \in Seq(D) : Cat(Cat(Cat(Cat(A, Y), C), w), t) = Cat(Cat(A, Y), Cat(Cat(C, w), t))
  BY CatRegroups
<1>2. \A Y \in Seq(D) : Cat(Cat(t, w), Cat(Cat(A, Y), C)) = Cat(Cat(Cat(Cat(t, w), A), Y), C)
  BY CatRegroups
<1>3. Cat(Cat(t, w), A) \in Seq(D) /\ Cat(Cat(C, w), t) \in Seq(D)
  BY CatRegroups
<1>4. QED
  BY <1>1, <1>2, <1>3 DEF Around

\* s becomes s2 where its part X becomes X2.
Within(s, X, s2, X2, D) ==
  \E A \in Seq(D), C \in Seq(D) : s = (A \o X) \o C /\ s2 = (A \o X2) \o C

\* ... and so does a part that is exchanged.
LEMMA WithinLonger ==
  ASSUME NEW D, NEW X \in Seq(D), NEW X2 \in Seq(D), NEW s, NEW s2, Within(s, X, s2, X2, D),
         NEW w \in Seq(D), NEW t \in Seq(D)
  PROVE  /\ Within((s \o w) \o t, X, (s2 \o w) \o t, X2, D)
         /\ Within((t \o w) \o s, X, (t \o w) \o s2, X2, D)
<1>1. PICK A \in Seq(D), C \in Seq(D) : s = (A \o X) \o C /\ s2 = (A \o X2) \o C
  BY DEF Within
<1>2. s = Cat(Cat(A, X), C) /\ s2 = Cat(Cat(A, X2), C)
  BY <1>1 DEF Cat
<1>2a. Around(D, A, C, w, t)
  BY CatLonger
<1>3. PICK A2 \in Seq(D), C2 \in Seq(D) : \A Y \in Seq(D) :
        /\ Cat(Cat(Cat(Cat(A, Y), C), w), t) = Cat(Cat(A, Y), C2)
        /\ Cat(Cat(t, w), Cat(Cat(A, Y), C)) = Cat(Cat(A2, Y), C)
  BY <1>2a DEF Around
<1>4. /\ Cat(Cat(s, w), t) = Cat(Cat(A, X), C2) /\ Cat(Cat(s2, w), t) = Cat(Cat(A, X2), C2)
      /\ Cat(Cat(t, w), s) = Cat(Cat(A2, X), C) /\ Cat(Cat(t, w), s2) = Cat(Cat(A2, X2), C)
  BY <1>2, <1>3
<1>5. /\ Within(Cat(Cat(s, w), t), X, Cat(Cat(s2, w), t), X2, D)
      /\ Within(Cat(Cat(t, w), s), X, Cat(Cat(t, w), s2), X2, D)
  BY <1>4 DEF Within, Cat
<1>6. QED
  BY <1>5 DEF Cat

\* The part may be the whole list.
LEMMA WithinItself ==
  ASSUME NEW D, NEW X \in Seq(D), NEW X2 \in Seq(D)
  PROVE  Within(X, X, X2, X2, D)
<1>1. <<>> \in Seq(D)
  BY EmptySeq
<1>2. \A Y \in Seq(D) : Y = (<<>> \o Y) \o <<>>
  BY ConcatEmptySeq
<1>3. QED
  BY <1>1, <1>2 DEF Within

\* Two trees that differ below p alone, where p2 takes the place of p ...
SwappedAt(ch, S, io, ch2, S2, p, p2) ==
  \A n \in S \ Nodes(io, p) :
    n \in S2 /\ \A d \in TwoSides : ch2[n][d] = IF ch[n][d] = p THEN p2 ELSE ch[n][d]

Changed(io, io2, S, p, p2, D) ==
  \A n \in S \ Nodes(io, p) :
    IF p \in Nodes(io, n) THEN Within(io[n], io[p], io2[n], io2[p2], D) ELSE io2[n] = io[n]

\* ... have lists that differ there alone.
LEMMA ChangeBelow ==
  ASSUME NEW ch, NEW par, NEW S, NEW nil, NEW h, NEW N \in Nat, Shaped(ch, par, S, nil, h, N),
         NEW io, IsInOrder(io, ch, S, nil),
         NEW ch2, NEW S2, NEW io2, IsInOrder(io2, ch2, S2, nil),
         NEW D, S \subseteq D, S2 \subseteq D,
         NEW p \in S, NEW p2 \in S2 \cup {nil}, SwappedAt(ch, S, io, ch2, S2, p, p2)
  PROVE  Changed(io, io2, S, p, p2, D)
<1> DEFINE Related(n, n2) ==
      IF p \in Nodes(io, n) THEN Within(io[n], io[p], io2[n2], io2[p2], D) ELSE io2[n2] = io[n]
    T == Nodes(io, p) \cup {n \in S : Related(n, n)}
<1>1. /\ \A n \in S \cup {nil} : io[n] \in Seq(D)
      /\ \A n \in S2 \cup {nil} : io2[n] \in Seq(D)
  <2>1. io[nil] = <<>> /\ io2[nil] = <<>> /\ <<>> \in Seq(D)
    BY EmptySeq DEF IsInOrder
  <2>2. \A n \in S : io[n] \in Seq(D)
    BY SeqMonotonic DEF IsInOrder
  <2>3. \A n \in S2 : io2[n] \in Seq(D)
    BY SeqMonotonic DEF IsInOrder
  <2>4. QED
    BY <2>1, <2>2, <2>3
<1>2. p \in Nodes(io, p)
  BY NodesBelow
<1>3. Related(p, p2)
  BY <1>1, <1>2, WithinItself
<1>4. Related(nil, nil)
  <2>1. Nodes(io, nil) = {}
    BY NodesUnfold
  <2>2. QED
    BY <2>1 DEF IsInOrder
<1>5. ASSUME NEW n \in S, \A d \in TwoSides : ch[n][d] # nil => ch[n][d] \in T,
             n \notin Nodes(io, p)
      PROVE  Related(n, n)
  <2>1. n \in S2 /\ \A d \in TwoSides : ch2[n][d] = IF ch[n][d] = p THEN p2 ELSE ch[n][d]
    BY <1>5 DEF SwappedAt
  <2>2. ASSUME NEW d \in TwoSides
        PROVE  ch[n][d] \in S \cup {nil} /\ Related(ch[n][d], ch2[n][d])
    <3>1. ch[n][d] \in S \cup {nil} /\ p # nil
      BY DEF Shaped, Below
    <3>2. CASE ch[n][d] = p
      BY <1>3, <2>1, <3>2
    <3>3. CASE ch[n][d] = nil
      BY <1>4, <2>1, <3>1, <3>3
    <3>4. CASE ch[n][d] \in S /\ ch[n][d] # p /\ ch[n][d] # nil
      <4>1. par[ch[n][d]] = n
        BY <3>4 DEF Shaped
      <4>2. ch[n][d] \notin Nodes(io, p)
        BY <1>5, <3>4, <4>1, NodesBelow
      <4>3. Related(ch[n][d], ch[n][d])
        <5> HIDE DEF Related
        <5>1. QED
          BY <1>5, <3>4, <4>2
      <4>4. ch2[n][d] = ch[n][d]
        BY <2>1, <3>4
      <4> HIDE DEF Related
      <4>5. QED
        BY <3>1, <4>3, <4>4
    <3>5. QED
      BY <3>1, <3>2, <3>3, <3>4
  <2>3. PICK l, r, l2, r2 : /\ l = ch[n]["left"] /\ r = ch[n]["right"]
                            /\ l2 = ch2[n]["left"] /\ r2 = ch2[n]["right"]
    OBVIOUS
  <2>4. /\ l \in S \cup {nil} /\ r \in S \cup {nil}
        /\ Related(l, l2) /\ Related(r, r2)
    <3> HIDE DEF Related
    <3>1. QED
      BY <2>2, <2>3 DEF TwoSides
  <2>5. /\ io[n] = (io[l] \o <<n>>) \o io[r]
        /\ io2[n] = (io2[l2] \o <<n>>) \o io2[r2]
    BY <2>1, <2>3 DEF IsInOrder
  <2>6. /\ Nodes(io, n) = Nodes(io, l) \cup {n} \cup Nodes(io, r)
        /\ Nodes(io, l) \cap Nodes(io, r) = {}
    <3>1. Nodes(io, n) = Nodes(io, ch[n]["left"]) \cup {n} \cup Nodes(io, ch[n]["right"])
      BY NodesUnfold
    <3>2. Nodes(io, ch[n]["left"]) \cap Nodes(io, ch[n]["right"]) = {}
      BY SidesApart
    <3>3. QED
      BY <2>3, <3>1, <3>2
  <2>7. p # n
    BY <1>2, <1>5
  <2>8. PICK w : w = <<n>>
    OBVIOUS
  <2>9. /\ w \in Seq(D) /\ io[p] \in Seq(D) /\ io2[p2] \in Seq(D)
        /\ io[l] \in Seq(D) /\ io[r] \in Seq(D)
    BY <1>1, <2>4, <2>8, OneElement
  <2>10. CASE p \in Nodes(io, l)
    <3>1. p \in Nodes(io, n) /\ Within(io[l], io[p], io2[l2], io2[p2], D) /\ io2[r2] = io[r]
      BY <2>4, <2>6, <2>10
    <3>2. Within((io[l] \o w) \o io[r], io[p], (io2[l2] \o w) \o io[r], io2[p2], D)
      BY <2>9, <3>1, WithinLonger
    <3>3. QED
      BY <2>5, <2>8, <3>1, <3>2
  <2>11. CASE p \in Nodes(io, r)
    <3>1. p \in Nodes(io, n) /\ Within(io[r], io[p], io2[r2], io2[p2], D) /\ io2[l2] = io[l]
      BY <2>4, <2>6, <2>11
    <3>2. Within((io[l] \o w) \o io[r], io[p], (io[l] \o w) \o io2[r2], io2[p2], D)
      BY <2>9, <3>1, WithinLonger
    <3>3. QED
      BY <2>5, <2>8, <3>1, <3>2
  <2>12. CASE p \notin Nodes(io, l) /\ p \notin Nodes(io, r)
    BY <2>4, <2>5, <2>6, <2>7, <2>12
  <2>13. QED
    BY <2>10, <2>11, <2>12
<1>6. \A n \in S : (\A d \in TwoSides : ch[n][d] # nil => ch[n][d] \in T) => n \in T
  <2> HIDE DEF Related
  <2>1. QED
    BY <1>5
<1>7. S \subseteq T
  <2> HIDE DEF T
  <2>1. QED
    BY <1>6, UpwardInduction
<1>8. QED
  BY <1>7 DEF Changed

\* The part of the list of r that is below p changes alone.
LEMMA ListChange ==
  ASSUME NEW ch, NEW par, NEW S, NEW nil, NEW h, NEW N \in Nat, Shaped(ch, par, S, nil, h, N),
         NEW io, IsInOrder(io, ch, S, nil), NEW r, Rooted(ch, par, r, S, nil),
         NEW ch2, NEW S2, NEW io2, IsInOrder(io2, ch2, S2, nil),
         NEW D, S \subseteq D, S2 \subseteq D,
         NEW p \in S, NEW p2 \in S2 \cup {nil}, SwappedAt(ch, S, io, ch2, S2, p, p2),
         NEW r2, r2 = IF r = p THEN p2 ELSE r
  PROVE  Within(io[r], io[p], io2[r2], io2[p2], D)
<1>1. CASE r = p
  <2>1. io[p] \in Seq(D)
    BY SeqMonotonic DEF IsInOrder
  <2>2. io2[p2] \in Seq(D)
    BY SeqMonotonic, EmptySeq DEF IsInOrder
  <2>3. QED
    BY <1>1, <2>1, <2>2, WithinItself
<1>2. CASE r # p
  <2>1. p \in Nodes(io, r)
    BY WalkMeetsAll
  <2>2. r \in S
    BY <2>1, NodesUnfold DEF Rooted
  <2>3. r \notin Nodes(io, p)
    <3>1. SUFFICES ASSUME r \in Nodes(io, p) PROVE FALSE
      OBVIOUS
    <3>2. h[r] < h[p] /\ h[p] < h[r] /\ h[r] \in Nat /\ h[p] \in Nat
      BY <1>2, <2>1, <2>2, <3>1, NodesBelow DEF Shaped
    <3>3. QED
      BY <3>2
  <2>4. Changed(io, io2, S, p, p2, D)
    BY ChangeBelow
  <2>5. QED
    BY <1>2, <2>1, <2>2, <2>3, <2>4 DEF Changed
<1>3. QED
  BY <1>1, <1>2

\* n between x on side d and y on the other one.
Put(d, x, n, y) == IF d = "left" THEN (x \o <<n>>) \o y ELSE (y \o <<n>>) \o x

\* The other of two sides.
Across(d) == IF d = "left" THEN "right" ELSE "left"

\* What grows on one side of a node grows in the list of that node.
LEMMA PutEither ==
  ASSUME NEW ch, NEW S, NEW nil, NEW io, IsInOrder(io, ch, S, nil), NEW n \in S, NEW d \in TwoSides
  PROVE  io[n] = Put(d, io[ch[n][d]], n, io[ch[n][Across(d)]])
BY DEF IsInOrder, Put, Across, TwoSides

\* What a rotation does to the list: nothing.
LEMMA PutTurns ==
  ASSUME NEW D, NEW x \in Seq(D), NEW y \in Seq(D), NEW z \in Seq(D),
         NEW m \in D, NEW n \in D, NEW d \in TwoSides
  PROVE  Put(d, Put(d, x, m, y), n, z) = Put(d, x, m, Put(d, y, n, z))
<1>1. PICK u : u = <<m>>
  OBVIOUS
<1>2. PICK v : v = <<n>>
  OBVIOUS
<1>3. u \in Seq(D) /\ v \in Seq(D)
  BY <1>1, <1>2, OneElement
<1>4. Cat(Cat(Cat(Cat(x, u), y), v), z) = Cat(Cat(x, u), Cat(Cat(y, v), z))
  BY <1>3, CatRegroups
<1>5. Cat(Cat(Cat(Cat(z, v), y), u), x) = Cat(Cat(z, v), Cat(Cat(y, u), x))
  BY <1>3, CatRegroups
<1>6. CASE d = "left"
  BY <1>1, <1>2, <1>4, <1>6 DEF Put, Cat
<1>7. CASE d = "right"
  BY <1>1, <1>2, <1>5, <1>7 DEF Put, Cat
<1>8. QED
  BY <1>6, <1>7 DEF TwoSides
-----------------------------------------------------------------------------
(* Lists that change at one place. *)

\* X in the list s between A and C.
PlacedAt(D, s, X, A, C) ==
  /\ A \in Seq(D) /\ X \in Seq(D) /\ C \in Seq(D)
  /\ s = (A \o X) \o C

\* A list without repetition has one place for X, and that is where X2 comes in.
LEMMA PlacedWithin ==
  ASSUME NEW D, NEW s, NEW X, NEW A, NEW C, PlacedAt(D, s, X, A, C), Distinct(s), X # <<>>,
         NEW s2, NEW X2 \in Seq(D), Within(s, X, s2, X2, D)
  PROVE  PlacedAt(D, s2, X2, A, C)
<1>1. A \in Seq(D) /\ X \in Seq(D) /\ C \in Seq(D) /\ s = (A \o X) \o C
  BY DEF PlacedAt
<1>2. PICK A2 \in Seq(D), C2 \in Seq(D) : s = (A2 \o X) \o C2 /\ s2 = (A2 \o X2) \o C2
  BY DEF Within
<1>3. (A \o X) \o C = (A2 \o X) \o C2 /\ Distinct((A \o X) \o C)
  BY <1>1, <1>2
<1>4. A = A2 /\ C = C2
  BY <1>1, <1>3, OneSplit
<1>5. QED
  BY <1>1, <1>2, <1>4 DEF PlacedAt

\* The two halves of a concatenation.
LEMMA Halves ==
  ASSUME NEW D, NEW P \in Seq(D), NEW Q \in Seq(D)
  PROVE  /\ SubSeq(P \o Q, 1, Len(P)) = P
         /\ SubSeq(P \o Q, Len(P) + 1, Len(P \o Q)) = Q
<1>1. /\ Len(P) \in Nat /\ Len(Q) \in Nat /\ Len(P \o Q) = Len(P) + Len(Q)
      /\ \A i \in 1..Len(P) + Len(Q) : (P \o Q)[i] = IF i =< Len(P) THEN P[i] ELSE Q[i - Len(P)]
      /\ P \o Q \in Seq(D)
  BY LenProperties, ConcatProperties
<1>2. PICK u \in Seq(D) : u = P \o Q
  BY <1>1
<1>3. \A i \in 1..Len(P) + Len(Q) : u[i] \in D
  BY <1>1, <1>2, ElementOfSeq
<1>4. /\ SubSeq(u, 1, Len(P)) \in Seq(D)
      /\ Len(SubSeq(u, 1, Len(P))) = Len(P)
      /\ \A i \in 1..Len(P) : SubSeq(u, 1, Len(P))[i] = u[i]
  <2>1. \A i \in 1..Len(P) : u[i] \in D
    BY <1>1, <1>3
  <2>2. /\ SubSeq(u, 1, Len(P)) \in Seq(D)
        /\ Len(SubSeq(u, 1, Len(P))) = IF 1 =< Len(P) THEN Len(P) - 1 + 1 ELSE 0
        /\ \A i \in 1..Len(P) - 1 + 1 : SubSeq(u, 1, Len(P))[i] = u[1 + i - 1]
    BY <1>1, <2>1, SubSeqProperties
  <2>3. QED
    BY <1>1, <2>2
<1>5. SubSeq(u, 1, Len(P)) = P
  BY <1>1, <1>2, <1>4, SeqEqual
<1>6. /\ SubSeq(u, Len(P) + 1, Len(u)) \in Seq(D)
      /\ Len(SubSeq(u, Len(P) + 1, Len(u))) = Len(Q)
      /\ \A i \in 1..Len(Q) : SubSeq(u, Len(P) + 1, Len(u))[i] = u[Len(P) + i]
  <2>1. \A i \in Len(P) + 1..Len(u) : u[i] \in D
    BY <1>1, <1>2, <1>3
  <2>2. Len(u) \in Int /\ Len(P) + 1 \in Int
    BY <1>1, <1>2
  <2>3. /\ SubSeq(u, Len(P) + 1, Len(u)) \in Seq(D)
        /\ Len(SubSeq(u, Len(P) + 1, Len(u)))
             = IF Len(P) + 1 =< Len(u) THEN Len(u) - (Len(P) + 1) + 1 ELSE 0
        /\ \A i \in 1..Len(u) - (Len(P) + 1) + 1 :
             SubSeq(u, Len(P) + 1, Len(u))[i] = u[(Len(P) + 1) + i - 1]
    BY <2>1, <2>2, SubSeqProperties
  <2>4. QED
    BY <1>1, <1>2, <2>3
<1>7. \A i \in 1..Len(Q) : u[Len(P) + i] = Q[i]
  BY <1>1, <1>2
<1>8. SubSeq(u, Len(P) + 1, Len(u)) = Q
  BY <1>1, <1>6, <1>7, SeqEqual
<1>9. QED
  BY <1>2, <1>5, <1>8

\* u is P and then Q, and with n between them.
Halved(D, u, P, Q) == P \in Seq(D) /\ Q \in Seq(D) /\ u = P \o Q
NodeAt(D, u, P, n, Q) == P \in Seq(D) /\ Q \in Seq(D) /\ u = (P \o <<n>>) \o Q

\* n comes in between P and Q ...
LEMMA PutsIn ==
  ASSUME NEW D, NEW P, NEW Q, NEW n, NEW u, Halved(D, u, P, Q),
         NEW v, NodeAt(D, v, P, n, Q)
  PROVE  v = SubSeq(u, 1, Len(P)) \o <<n>> \o SubSeq(u, Len(P) + 1, Len(u))
<1>1. P \in Seq(D) /\ Q \in Seq(D) /\ u = P \o Q /\ v = (P \o <<n>>) \o Q
  BY DEF Halved, NodeAt
<1>2. SubSeq(u, 1, Len(P)) = P /\ SubSeq(u, Len(P) + 1, Len(u)) = Q
  BY <1>1, Halves
<1>3. QED
  BY <1>1, <1>2

\* ... behind all elements whose key is not larger.
LEMMA CountUpTo ==
  ASSUME NEW D, NEW P, NEW Q, NEW key, \A m \in D : key[m] \in Int,
         NEW k \in Int, NEW u, Halved(D, u, P, Q), Distinct(u),
         \A m \in Elements(P) : key[m] =< k,
         \A m \in Elements(Q) : k < key[m]
  PROVE  Cardinality({m \in Elements(u) : key[m] =< k}) = Len(P)
<1>h. P \in Seq(D) /\ Q \in Seq(D) /\ u = P \o Q
  BY DEF Halved
<1>1. Elements(u) = Elements(P) \cup Elements(Q) /\ Distinct(P)
  BY <1>h, ConcatElements, ConcatDistinct
<1>2. \A m \in Elements(Q) : m \in D
  BY <1>h, ElementOfSeq, LenProperties DEF Elements
<1>3. \A m \in Elements(Q) : ~(key[m] =< k)
  BY <1>2
<1>4. {m \in Elements(u) : key[m] =< k} = Elements(P)
  BY <1>1, <1>3
<1>5. QED
  BY <1>h, <1>1, <1>4, Counted

\* n goes.
OutAt(u, w, n) ==
  \E i \in DOMAIN u : u[i] = n /\ w = SubSeq(u, 1, i - 1) \o SubSeq(u, i + 1, Len(u))

\* ... from the place where it is.
LEMMA TakesOut ==
  ASSUME NEW D, NEW P, NEW Q, NEW n \in D, NEW u, NodeAt(D, u, P, n, Q),
         NEW w, Halved(D, w, P, Q)
  PROVE  OutAt(u, w, n)
<1>h. P \in Seq(D) /\ Q \in Seq(D) /\ u = (P \o <<n>>) \o Q /\ w = P \o Q
  BY DEF Halved, NodeAt
<1>1. PICK X : X = <<n>>
  OBVIOUS
<1>2. X \in Seq(D) /\ X # <<>> /\ X[1] = n /\ Len(X) = 1
  BY <1>1, OneElement
<1>3. u = (P \o X) \o Q
  BY <1>h, <1>1
<1>4. Starts(u, P, X)
  BY <1>h, <1>2, <1>3, Parts
<1>5. Len(P) \in Nat /\ Len(P) + 1 \in DOMAIN u /\ u[Len(P) + 1] = n
  BY <1>h, <1>2, <1>4, LenProperties DEF Starts
<1>6. SubSeq(u, 1, Len(P)) = P
  <2>1. Cat(X, Q) \in Seq(D) /\ Cat(Cat(P, X), Q) = Cat(P, Cat(X, Q))
    BY <1>h, <1>2, CatRegroups
  <2>2. PICK v \in Seq(D) : v = Cat(X, Q)
    BY <2>1
  <2>3. u = P \o v
    BY <1>3, <2>1, <2>2 DEF Cat
  <2>4. QED
    BY <1>h, <2>3, Halves
<1>7. SubSeq(u, (Len(P) + 1) + 1, Len(u)) = Q
  <2>1. PICK v \in Seq(D) : v = P \o X
    BY <1>h, <1>2, ConcatProperties
  <2>2. Len(v) = Len(P) + 1 /\ u = v \o Q
    <3>1. Len(P \o X) = Len(P) + Len(X)
      BY <1>h, <1>2, ConcatProperties
    <3>2. QED
      BY <1>2, <1>3, <2>1, <3>1
  <2>3. QED
    BY <1>h, <2>2, Halves
<1>8. (Len(P) + 1) - 1 = Len(P)
  BY <1>5
<1>9. QED
  BY <1>h, <1>5, <1>6, <1>7, <1>8 DEF OutAt

\* new takes the place of old.
LEMMA Exchanges ==
  ASSUME NEW D, NEW P, NEW Q, NEW old \in D, NEW new \in D,
         NEW u, NodeAt(D, u, P, old, Q), Distinct(u), NEW v, NodeAt(D, v, P, new, Q)
  PROVE  v = [i \in DOMAIN u |-> IF u[i] = old THEN new ELSE u[i]]
<1>h. P \in Seq(D) /\ Q \in Seq(D) /\ u = (P \o <<old>>) \o Q /\ v = (P \o <<new>>) \o Q
  BY DEF NodeAt
<1>q. P \in Seq(D) /\ Q \in Seq(D)
  BY <1>h
<1>1. PICK X : X = <<old>>
  OBVIOUS
<1>2. PICK Y : Y = <<new>>
  OBVIOUS
<1>3. /\ X \in Seq(D) /\ X # <<>> /\ X[1] = old /\ Len(X) = 1
      /\ Y \in Seq(D) /\ Y # <<>> /\ Y[1] = new /\ Len(Y) = 1
  BY <1>1, <1>2, OneElement
<1>4. v = (P \o Y) \o Q
  BY <1>h, <1>2
<1>5. u = (P \o X) \o Q
  BY <1>h, <1>1
<1>6. /\ u \in Seq(D) /\ v \in Seq(D)
      /\ Len(P) \in Nat /\ Len(Q) \in Nat
      /\ Len(u) = Len(P) + 1 + Len(Q) /\ Len(v) = Len(P) + 1 + Len(Q)
      /\ \A i \in 1..Len(P) : u[i] = P[i] /\ v[i] = P[i]
      /\ \A i \in 1..Len(Q) : u[Len(P) + 1 + i] = Q[i] /\ v[Len(P) + 1 + i] = Q[i]
      /\ u[Len(P) + 1] = old /\ v[Len(P) + 1] = new
  <2>1. PICK a \in Seq(D) : a = P \o X
    BY <1>h, <1>3, ConcatProperties
  <2>2. PICK b \in Seq(D) : b = P \o Y
    BY <1>h, <1>3, ConcatProperties
  <2>3. /\ Len(P) \in Nat /\ Len(Q) \in Nat
        /\ Len(a) = Len(P) + 1 /\ Len(b) = Len(P) + 1
    <3>1. Len(P) \in Nat /\ Len(Q) \in Nat
      BY <1>q, LenProperties
    <3>2. Len(P \o X) = Len(P) + Len(X) /\ Len(P \o Y) = Len(P) + Len(Y)
      BY <1>q, <1>3, ConcatProperties
    <3>3. QED
      BY <1>3, <2>1, <2>2, <3>1, <3>2
  <2>4. u = a \o Q /\ v = b \o Q
    BY <1>4, <1>5, <2>1, <2>2
  <2>5. /\ u \in Seq(D) /\ Len(u) = Len(P) + 1 + Len(Q)
        /\ \A i \in 1..Len(P) + 1 + Len(Q) : u[i] = IF i =< Len(P) + 1 THEN a[i] ELSE Q[i - (Len(P) + 1)]
    <3>1. /\ a \o Q \in Seq(D) /\ Len(a \o Q) = Len(a) + Len(Q)
          /\ \A i \in 1..Len(a) + Len(Q) : (a \o Q)[i] = IF i =< Len(a) THEN a[i] ELSE Q[i - Len(a)]
      BY <1>h, ConcatProperties
    <3>2. QED
      BY <2>3, <2>4, <3>1
  <2>6. /\ v \in Seq(D) /\ Len(v) = Len(P) + 1 + Len(Q)
        /\ \A i \in 1..Len(P) + 1 + Len(Q) : v[i] = IF i =< Len(P) + 1 THEN b[i] ELSE Q[i - (Len(P) + 1)]
    <3>1. /\ b \o Q \in Seq(D) /\ Len(b \o Q) = Len(b) + Len(Q)
          /\ \A i \in 1..Len(b) + Len(Q) : (b \o Q)[i] = IF i =< Len(b) THEN b[i] ELSE Q[i - Len(b)]
      BY <1>h, ConcatProperties
    <3>2. QED
      BY <2>3, <2>4, <3>1
  <2>7. \A i \in 1..Len(Q) : u[Len(P) + 1 + i] = Q[i] /\ v[Len(P) + 1 + i] = Q[i]
    <3>1. \A i \in 1..Len(Q) :
            /\ Len(P) + 1 + i \in 1..Len(P) + 1 + Len(Q)
            /\ ~(Len(P) + 1 + i =< Len(P) + 1)
            /\ (Len(P) + 1 + i) - (Len(P) + 1) = i
      BY <2>3
    <3>2. QED
      BY <2>5, <2>6, <3>1
  <2>8. Starts(u, P, X) /\ Starts(v, P, Y)
    BY <1>h, <1>3, <1>4, <1>5, Parts
  <2>9. QED
    BY <1>3, <2>3, <2>5, <2>6, <2>7, <2>8 DEF Starts
<1>7. DOMAIN u = 1..Len(u) /\ DOMAIN v = 1..Len(v) /\ v \in [1..Len(v) -> D]
  BY <1>6, LenProperties
<1>8. \A i \in 1..Len(u) : i \in 1..Len(P) \/ i = Len(P) + 1
                           \/ \E j \in 1..Len(Q) : i = Len(P) + 1 + j
  <2> TAKE i \in 1..Len(u)
  <2>1. CASE i > Len(P) + 1
    <3>1. i - (Len(P) + 1) \in 1..Len(Q) /\ i = Len(P) + 1 + (i - (Len(P) + 1))
      BY <1>6, <2>1
    <3>2. QED
      BY <3>1
  <2>2. CASE i =< Len(P) + 1
    <3>1. Len(P) \in Nat /\ Len(u) \in Nat
      BY <1>6
    <3>2. i \in 1..Len(P) \/ i = Len(P) + 1
      BY <2>2, <3>1
    <3>3. QED
      BY <3>2
  <2>3. QED
    BY <1>6, <2>1, <2>2
<1>9. \A i \in 1..Len(u) : u[i] = old => i = Len(P) + 1
  <2>1. Len(P) + 1 \in DOMAIN u
    BY <1>6, <1>7
  <2>2. QED
    BY <1>6, <1>7, <2>1 DEF Distinct
<1>10. \A i \in 1..Len(u) : v[i] = IF u[i] = old THEN new ELSE u[i]
  <2> TAKE i \in 1..Len(u)
  <2>1. CASE i \in 1..Len(P)
    <3>1. i # Len(P) + 1
      BY <1>6, <2>1
    <3>2. QED
      BY <1>6, <1>9, <2>1, <3>1
  <2>2. CASE i = Len(P) + 1
    BY <1>6, <2>2
  <2>3. ASSUME NEW j \in 1..Len(Q), i = Len(P) + 1 + j
        PROVE  v[i] = IF u[i] = old THEN new ELSE u[i]
    <3>1. i # Len(P) + 1
      BY <1>6, <2>3
    <3>2. QED
      BY <1>6, <1>9, <2>3, <3>1
  <2>4. QED
    BY <1>8, <2>1, <2>2, <2>3
<1>11. v = [i \in DOMAIN u |-> IF u[i] = old THEN new ELSE u[i]]
  BY <1>6, <1>7, <1>10
<1>12. QED
  BY <1>11

\* A node in the part between A and C is a node between two parts.
Amid(D, A, C, x, y) ==
  \E P \in Seq(D), Q \in Seq(D) :
    /\ P = A \o x
    /\ Q = y \o C
    /\ \A n \in D : (A \o Put("left", x, n, y)) \o C = (P \o <<n>>) \o Q

\* The lists of such a node take part in the whole.
LEMMA PutInside ==
  ASSUME NEW D, NEW A \in Seq(D), NEW C \in Seq(D), NEW x \in Seq(D), NEW y \in Seq(D)
  PROVE  Amid(D, A, C, x, y)
<1>1. PICK P \in Seq(D) : P = Cat(A, x)
  BY CatRegroups
<1>2. PICK Q \in Seq(D) : Q = Cat(y, C)
  BY CatRegroups
<1>3. ASSUME NEW n \in D PROVE (A \o Put("left", x, n, y)) \o C = (P \o <<n>>) \o Q
  <2>1. PICK u : u = <<n>>
    OBVIOUS
  <2>2. u \in Seq(D)
    BY <2>1, OneElement
  <2>3. Cat(Cat(A, Cat(Cat(x, u), y)), C) = Cat(Cat(Cat(A, x), u), Cat(y, C))
    BY <2>2, CatRegroups
  <2>4. QED
    BY <1>1, <1>2, <2>1, <2>3 DEF Cat, Put
<1>4. QED
  BY <1>1, <1>2, <1>3 DEF Cat, Amid

\* s2 is s without n, and has the others where they were.
Removes(D, s, s2, n) ==
  \E P \in Seq(D), Q \in Seq(D) : s = (P \o <<n>>) \o Q /\ s2 = P \o Q

\* s2 is s with new in the place of old.
Trades(D, s, s2, old, new) ==
  \E P \in Seq(D), Q \in Seq(D) : s = (P \o <<old>>) \o Q /\ s2 = (P \o <<new>>) \o Q

\* A node with one side below it, and without it.
LEMMA PutOut ==
  ASSUME NEW D, NEW A \in Seq(D), NEW C \in Seq(D), NEW x \in Seq(D), NEW d \in TwoSides, NEW n \in D
  PROVE  Removes(D, (A \o Put(d, x, n, <<>>)) \o C, (A \o x) \o C, n)
<1>1. PICK e \in Seq(D) : e = <<>>
  BY EmptySeq
<1>2. \A s \in Seq(D) : Cat(s, e) = s /\ Cat(e, s) = s
  BY <1>1, ConcatEmptySeq DEF Cat
<1>3. CASE d = "left"
  <2>0. Amid(D, A, C, x, e)
    BY PutInside
  <2>1. PICK P \in Seq(D), Q \in Seq(D) :
           /\ P = A \o x
           /\ Q = e \o C
           /\ \A m \in D : (A \o Put("left", x, m, e)) \o C = (P \o <<m>>) \o Q
    BY <2>0 DEF Amid
  <2>2. Q = C
    BY <1>2, <2>1 DEF Cat
  <2>3. QED
    BY <1>1, <1>3, <2>1, <2>2 DEF Removes
<1>4. CASE d = "right"
  <2>0. Amid(D, A, C, e, x)
    BY PutInside
  <2>1. PICK P \in Seq(D), Q \in Seq(D) :
           /\ P = A \o e
           /\ Q = x \o C
           /\ \A m \in D : (A \o Put("left", e, m, x)) \o C = (P \o <<m>>) \o Q
    BY <2>0 DEF Amid
  <2>2. P = A
    BY <1>2, <2>1 DEF Cat
  <2>3. Cat(Cat(A, x), C) = Cat(A, Cat(x, C))
    BY CatRegroups
  <2>4. Put(d, x, n, <<>>) = Put("left", e, n, x)
    BY <1>1, <1>4 DEF Put
  <2>5. (A \o x) \o C = P \o Q
    BY <2>1, <2>2, <2>3 DEF Cat
  <2>6. QED
    BY <2>1, <2>4, <2>5 DEF Removes
<1>5. QED
  BY <1>3, <1>4 DEF TwoSides

\* s2 is s with n on side d of its part X, which comes between A and C.
PutsNext(D, s, s2, n, A, X, C, d) ==
  \E P \in Seq(D), Q \in Seq(D) :
    /\ s = P \o Q
    /\ s2 = (P \o <<n>>) \o Q
    /\ d = "left" => P = A /\ Q = X \o C
    /\ d = "right" => P = A \o X /\ Q = C

\* A leaf n that comes below p is next to what was below p.
LEMMA PutLeaf ==
  ASSUME NEW D, NEW A \in Seq(D), NEW C \in Seq(D), NEW y \in Seq(D), NEW p \in D,
         NEW d \in TwoSides, NEW s \in Seq(D), s = Put(d, <<>>, p, y), NEW n \in D
  PROVE  PutsNext(D, (A \o s) \o C, (A \o Put(d, <<n>>, p, y)) \o C, n, A, s, C, d)
<1>1. PICK e \in Seq(D) : e = <<>>
  BY EmptySeq
<1>2. \A t \in Seq(D) : Cat(t, e) = t /\ Cat(e, t) = t
  BY <1>1, ConcatEmptySeq DEF Cat
<1>3. PICK v : v = <<p>>
  OBVIOUS
<1>4. v \in Seq(D)
  BY <1>3, OneElement
<1>5. CASE d = "left"
  <2>1. s = Cat(v, y)
    BY <1>1, <1>2, <1>3, <1>4, <1>5 DEF Put, Cat
  <2>2. PICK Q \in Seq(D) : Q = Cat(s, C)
    BY CatRegroups
  <2>3. (A \o s) \o C = A \o Q
    <3>1. Cat(Cat(A, s), C) = Cat(A, Cat(s, C))
      BY CatRegroups
    <3>2. QED
      BY <2>2, <3>1 DEF Cat
  <2>4. (A \o Put(d, <<n>>, p, y)) \o C = (A \o <<n>>) \o Q
    <3>1. PICK u : u = <<n>>
      OBVIOUS
    <3>2. u \in Seq(D)
      BY <3>1, OneElement
    <3>3. Cat(Cat(A, Cat(Cat(u, v), y)), C) = Cat(Cat(A, u), Cat(Cat(v, y), C))
      BY <1>4, <3>2, CatRegroups
    <3>4. QED
      BY <1>3, <1>5, <2>1, <2>2, <3>1, <3>3 DEF Put, Cat
  <2>5. Q = s \o C
    BY <2>2 DEF Cat
  <2>6. QED
    BY <1>5, <2>3, <2>4, <2>5 DEF PutsNext
<1>6. CASE d = "right"
  <2>1. s = Cat(y, v)
    BY <1>1, <1>2, <1>3, <1>4, <1>6, CatRegroups DEF Put, Cat
  <2>2. PICK P \in Seq(D) : P = Cat(A, s)
    BY CatRegroups
  <2>3. (A \o Put(d, <<n>>, p, y)) \o C = (P \o <<n>>) \o C
    <3>1. PICK u : u = <<n>>
      OBVIOUS
    <3>2. u \in Seq(D)
      BY <3>1, OneElement
    <3>3. Cat(Cat(A, Cat(Cat(y, v), u)), C) = Cat(Cat(Cat(A, Cat(y, v)), u), C)
      BY <1>4, <3>2, CatRegroups
    <3>4. QED
      BY <1>3, <1>6, <2>1, <2>2, <3>1, <3>3 DEF Put, Cat
  <2>4. P = A \o s
    BY <2>2 DEF Cat
  <2>5. (A \o s) \o C = P \o C
    BY <2>4
  <2>6. QED
    BY <1>6, <2>2, <2>3, <2>4, <2>5 DEF PutsNext
<1>7. QED
  BY <1>5, <1>6 DEF TwoSides
-----------------------------------------------------------------------------
(* Lists in the order of their keys. *)

\* The elements of a concatenation.
LEMMA CatElements ==
  \A D : \A s, t \in Seq(D) : Elements(Cat(s, t)) = Elements(s) \cup Elements(t)
BY ConcatElements DEF Cat

\* X is the part of s where an element belongs that those of Low may stand before, and no
\* other.
Belongs(D, s, X, Low) ==
  \E A, C :
    /\ PlacedAt(D, s, X, A, C)
    /\ Elements(A) \subseteq Low
    /\ Elements(C) \cap Low = {}

\* With an element those before it are in Low, too.
Downward(D, R, Low) == \A a, b \in D : <<a, b>> \in R /\ b \in Low => a \in Low

\* It belongs somewhere in s ...
LEMMA BelongsAnywhere ==
  ASSUME NEW D, NEW s \in Seq(D), NEW Low
  PROVE  Belongs(D, s, s, Low)
<1>1. <<>> \in Seq(D) /\ s = (<<>> \o s) \o <<>>
  BY EmptySeq, ConcatEmptySeq
<1>2. Elements(<<>>) = {}
  BY DEF Elements
<1>3. PlacedAt(D, s, s, <<>>, <<>>)
  BY <1>1 DEF PlacedAt
<1>4. QED
  BY <1>2, <1>3 DEF Belongs

\* ... and, where it belongs below n, on the side that n tells.
LEMMA BelongsBelow ==
  ASSUME NEW D, NEW R, NEW Low, NEW S \in SUBSET D, Downward(S, R, Low),
         NEW n \in D, NEW x \in Seq(D), NEW y \in Seq(D), NEW d \in TwoSides,
         d = "left" <=> n \notin Low,
         NEW X, X = Put(d, x, n, y), NEW s, Chained(R, s), Elements(s) \subseteq S,
         Belongs(D, s, X, Low)
  PROVE  Belongs(D, s, x, Low)
<1>1. PICK A, C :
        /\ PlacedAt(D, s, X, A, C)
        /\ Elements(A) \subseteq Low
        /\ Elements(C) \cap Low = {}
  BY DEF Belongs
<1>2. /\ A \in Seq(D) /\ X \in Seq(D) /\ C \in Seq(D)
      /\ s = (A \o X) \o C
  BY <1>1 DEF PlacedAt
<1>3. Chained(R, X) /\ Elements(X) \subseteq S
  BY <1>2, ThreePartsChained, ThreeParts
<1>o. PICK o \in Seq(D) : o = <<n>>
  BY OneElement
<1>4. Elements(o) = {n}
  BY <1>o, OneElement
<1>6. CASE d = "left"
  <2>1. X = (x \o o) \o y
    BY <1>6, <1>o DEF Put
  <2>2. (\A m \in Elements(y) : <<n, m>> \in R) /\ n \in S /\ Elements(y) \subseteq S
    BY <1>3, <1>o, <2>1, NodeBetweenChained, NodeBetween
  <2> PICK t \in Seq(D) : t = Cat(o, y)
    BY CatRegroups
  <2>3. Elements(t) \cap Low = {}
    <3>1. Elements(t) = Elements(o) \cup Elements(y)
      BY CatElements
    <3>2. QED
      BY <1>4, <1>6, <2>2, <3>1 DEF Downward
  <2> PICK C2 \in Seq(D) : C2 = Cat(t, C)
    BY <1>2, CatRegroups
  <2>4. Elements(C2) \cap Low = {}
    <3>1. Elements(C2) = Elements(t) \cup Elements(C)
      BY <1>2, CatElements
    <3>2. QED
      BY <1>1, <2>3, <3>1
  <2>5. Cat(Cat(A, x), C2) = s
    <3>1. Cat(Cat(x, o), y) = Cat(x, t)
      BY CatRegroups
    <3>2. Cat(A, Cat(x, t)) = Cat(Cat(A, x), t) /\ Cat(A, x) \in Seq(D)
      BY <1>2, CatRegroups
    <3>3. Cat(Cat(Cat(A, x), t), C) = Cat(Cat(A, x), C2)
      BY <1>2, <3>2, CatRegroups
    <3>4. s = Cat(Cat(A, Cat(Cat(x, o), y)), C)
      BY <1>2, <2>1 DEF Cat
    <3>5. QED
      BY <3>1, <3>2, <3>3, <3>4
  <2>6. PlacedAt(D, s, x, A, C2)
    BY <1>2, <2>5 DEF PlacedAt, Cat
  <2>7. QED
    BY <1>1, <2>4, <2>6 DEF Belongs
<1>7. CASE d = "right"
  <2>1. X = (y \o o) \o x
    BY <1>7, <1>o DEF Put
  <2>2. (\A m \in Elements(y) : <<m, n>> \in R) /\ n \in S /\ Elements(y) \subseteq S
    BY <1>3, <1>o, <2>1, NodeBetweenChained, NodeBetween
  <2> PICK t \in Seq(D) : t = Cat(y, o)
    BY CatRegroups
  <2>3. Elements(t) \subseteq Low
    <3>1. Elements(t) = Elements(y) \cup Elements(o)
      BY CatElements
    <3>2. QED
      BY <1>4, <1>7, <2>2, <3>1 DEF Downward
  <2> PICK A2 \in Seq(D) : A2 = Cat(A, t)
    BY <1>2, CatRegroups
  <2>4. Elements(A2) \subseteq Low
    <3>1. Elements(A2) = Elements(A) \cup Elements(t)
      BY <1>2, CatElements
    <3>2. QED
      BY <1>1, <2>3, <3>1
  <2>5. Cat(Cat(A2, x), C) = s
    <3>1. Cat(A, Cat(t, x)) = Cat(A2, x)
      BY <1>2, CatRegroups
    <3>2. s = Cat(Cat(A, Cat(t, x)), C)
      BY <1>2, <2>1 DEF Cat
    <3>3. QED
      BY <3>1, <3>2
  <2>6. PlacedAt(D, s, x, A2, C)
    BY <1>2, <2>5 DEF PlacedAt, Cat
  <2>7. QED
    BY <1>1, <2>4, <2>6 DEF Belongs
<1>8. QED
  BY <1>6, <1>7 DEF TwoSides

\* s2 is s with n behind the elements of Low.
PutsAbove(D, s, s2, n, Low) ==
  \E P \in Seq(D), Q \in Seq(D) :
    /\ s = P \o Q
    /\ s2 = (P \o <<n>>) \o Q
    /\ Elements(P) \subseteq Low
    /\ Elements(Q) \cap Low = {}

\* A node with one side below it is that side's first or last.
LEMMA OneSided ==
  ASSUME NEW D, NEW R, NEW p \in D, NEW y \in Seq(D),
         NEW d \in TwoSides, Chained(R, Put(d, <<>>, p, y))
  PROVE  /\ Elements(Put(d, <<>>, p, y)) = {p} \cup Elements(y)
         /\ d = "left" => \A m \in Elements(y) : <<p, m>> \in R
         /\ d = "right" => \A m \in Elements(y) : <<m, p>> \in R
<1>1. PICK e \in Seq(D) : e = <<>>
  BY EmptySeq
<1>2. Elements(e) = {}
  BY <1>1 DEF Elements
<1>3. CASE d = "left"
  <2>1. Put(d, <<>>, p, y) = (e \o <<p>>) \o y
    BY <1>1, <1>3 DEF Put
  <2>2. Chained(R, (e \o <<p>>) \o y)
    BY <2>1
  <2>3. \A m \in Elements(y) : <<p, m>> \in R
    BY <2>2, NodeBetweenChained
  <2>4. Elements((e \o <<p>>) \o y) = Elements(e) \cup {p} \cup Elements(y)
    BY NodeBetween
  <2>5. QED
    BY <1>2, <1>3, <2>1, <2>3, <2>4
<1>4. CASE d = "right"
  <2>1. Put(d, <<>>, p, y) = (y \o <<p>>) \o e
    BY <1>1, <1>4 DEF Put
  <2>2. Chained(R, (y \o <<p>>) \o e)
    BY <2>1
  <2>3. \A m \in Elements(y) : <<m, p>> \in R
    BY <2>2, NodeBetweenChained
  <2>4. Elements((y \o <<p>>) \o e) = Elements(y) \cup {p} \cup Elements(e)
    BY NodeBetween
  <2>5. QED
    BY <1>2, <1>4, <2>1, <2>3, <2>4
<1>5. QED
  BY <1>3, <1>4 DEF TwoSides

\* A leaf that comes below p on the side that p tells.
LEMMA LeafBelongs ==
  ASSUME NEW D, NEW R, NEW Low, NEW S \in SUBSET D, Downward(S, R, Low),
         NEW n \in D, NEW p \in D, NEW y \in Seq(D), NEW d \in TwoSides,
         d = "left" <=> p \notin Low,
         NEW X \in Seq(D), X = Put(d, <<>>, p, y), NEW s, Chained(R, s), Elements(s) \subseteq S,
         NEW A, NEW C, PlacedAt(D, s, X, A, C),
         Elements(A) \subseteq Low, Elements(C) \cap Low = {},
         NEW s2, PutsNext(D, s, s2, n, A, X, C, d)
  PROVE  PutsAbove(D, s, s2, n, Low)
<1>1. PICK P \in Seq(D), Q \in Seq(D) :
        /\ s = P \o Q
        /\ s2 = (P \o <<n>>) \o Q
        /\ d = "left" => P = A /\ Q = X \o C
        /\ d = "right" => P = A \o X /\ Q = C
  BY DEF PutsNext
<1>2. /\ A \in Seq(D) /\ C \in Seq(D) /\ s = (A \o X) \o C
  BY DEF PlacedAt
<1>3. Chained(R, Put(d, <<>>, p, y)) /\ Elements(X) \subseteq S
  BY <1>2, ThreePartsChained, ThreeParts
<1>4. /\ Elements(X) = {p} \cup Elements(y)
      /\ d = "left" => \A m \in Elements(y) : <<p, m>> \in R
      /\ d = "right" => \A m \in Elements(y) : <<m, p>> \in R
  BY <1>3, OneSided
<1>5. p \in S /\ Elements(y) \subseteq S
  BY <1>3, <1>4
<1>6. CASE d = "left"
  <2>1. Elements(X) \cap Low = {}
    <3>1. p \notin Low /\ \A m \in Elements(y) : <<p, m>> \in R
      BY <1>4, <1>6
    <3>2. \A m \in Elements(y) : m \notin Low
      BY <1>5, <3>1 DEF Downward
    <3>3. QED
      BY <1>4, <3>1, <3>2
  <2>2. Q = Cat(X, C) /\ C \in Seq(D)
    BY <1>1, <1>2, <1>6 DEF Cat
  <2>3. Elements(Q) = Elements(X) \cup Elements(C)
    BY <2>2, CatElements
  <2>4. QED
    BY <1>1, <1>6, <2>1, <2>3 DEF PutsAbove
<1>7. CASE d = "right"
  <2>1. Elements(X) \subseteq Low
    <3>1. p \in Low /\ \A m \in Elements(y) : <<m, p>> \in R
      BY <1>4, <1>7
    <3>2. \A m \in Elements(y) : m \in Low
      BY <1>5, <3>1 DEF Downward
    <3>3. QED
      BY <1>4, <3>1, <3>2
  <2>2. P = Cat(A, X) /\ A \in Seq(D)
    BY <1>1, <1>2, <1>7 DEF Cat
  <2>3. Elements(P) = Elements(A) \cup Elements(X)
    BY <2>2, CatElements
  <2>4. QED
    BY <1>1, <1>7, <2>1, <2>3 DEF PutsAbove
<1>8. QED
  BY <1>6, <1>7 DEF TwoSides

\* s2 is chained as s is: n came in where it belongs, ...
LEMMA PutsKeepsChain ==
  ASSUME NEW D, NEW R, NEW n \in D, NEW Low, NEW s, NEW s2, Chained(R, s),
         PutsAbove(D, s, s2, n, Low),
         \A m \in Elements(s) : m \in Low => <<m, n>> \in R,
         \A m \in Elements(s) : m \notin Low => <<n, m>> \in R
  PROVE  Chained(R, s2)
<1>1. PICK P \in Seq(D), Q \in Seq(D) :
        /\ s = P \o Q
        /\ s2 = (P \o <<n>>) \o Q
        /\ Elements(P) \subseteq Low
        /\ Elements(Q) \cap Low = {}
  BY DEF PutsAbove
<1>2. /\ Chained(R, P) /\ Chained(R, Q)
      /\ \A a \in Elements(P), b \in Elements(Q) : <<a, b>> \in R
  BY <1>1, ConcatChained
<1>3. Elements(s) = Elements(P) \cup Elements(Q)
  BY <1>1, ConcatElements
<1>4. (\A m \in Elements(P) : <<m, n>> \in R) /\ (\A m \in Elements(Q) : <<n, m>> \in R)
  BY <1>1, <1>3
<1>5. QED
  BY <1>1, <1>2, <1>4, NodeBetweenChained

\* ... or n went.
LEMMA RemovesKeepsChain ==
  ASSUME NEW D, NEW R, NEW n \in D,
         NEW s, NEW s2, Chained(R, s), Removes(D, s, s2, n)
  PROVE  Chained(R, s2)
<1>1. PICK P \in Seq(D), Q \in Seq(D) : s = (P \o <<n>>) \o Q /\ s2 = P \o Q
  BY DEF Removes
<1>2. /\ Chained(R, P) /\ Chained(R, Q)
      /\ \A a \in Elements(P) \cup {n}, c \in Elements(Q) : <<a, c>> \in R
  BY <1>1, NodeBetweenChained
<1>3. QED
  BY <1>1, <1>2, ConcatChained

\* The same for keys: X is the part of s where an element with key k belongs.
Fits(D, s, X, key, k) ==
  \E A, C :
    /\ PlacedAt(D, s, X, A, C)
    /\ \A m \in Elements(A) : key[m] =< k
    /\ \A m \in Elements(C) : k < key[m]

\* Low are the elements with a key up to k, then.
LEMMA FitsByKey ==
  ASSUME NEW D, NEW key, \A m \in D : key[m] \in Int, NEW k \in Int
  PROVE  LET Low == {m \in D : key[m] =< k}
         IN  /\ \A s, X : Fits(D, s, X, key, k) <=> Belongs(D, s, X, Low)
             /\ \A s \in Seq(D) : \A A, X, C : PlacedAt(D, s, X, A, C) =>
                  /\ (\A m \in Elements(A) : key[m] =< k) <=> Elements(A) \subseteq Low
                  /\ (\A m \in Elements(C) : k < key[m]) <=> Elements(C) \cap Low = {}
             /\ Downward(D, ByKey(D, key), Low)
<1> DEFINE Low == {m \in D : key[m] =< k}
<1>1. ASSUME NEW s \in Seq(D)
      PROVE  /\ (\A m \in Elements(s) : key[m] =< k) <=> Elements(s) \subseteq Low
             /\ (\A m \in Elements(s) : k < key[m]) <=> Elements(s) \cap Low = {}
  <2>1. \A m \in Elements(s) : m \in D /\ (m \in Low <=> key[m] =< k) /\ (m \notin Low <=> k < key[m])
    BY ElementOfSeq DEF Elements
  <2> HIDE DEF Low
  <2>2. QED
    BY <2>1
<1>2. Downward(D, ByKey(D, key), Low)
  BY DEF Downward, ByKey
<1> HIDE DEF Low
<1>3. \A s, X : Fits(D, s, X, key, k) <=> Belongs(D, s, X, Low)
  BY <1>1 DEF Fits, Belongs, PlacedAt
<1>4. \A s \in Seq(D) : \A A, X, C : PlacedAt(D, s, X, A, C) =>
        /\ (\A m \in Elements(A) : key[m] =< k) <=> Elements(A) \subseteq Low
        /\ (\A m \in Elements(C) : k < key[m]) <=> Elements(C) \cap Low = {}
  BY <1>1 DEF PlacedAt
<1>5. QED
  BY <1>2, <1>3, <1>4 DEF Low

LEMMA FitsAnywhere ==
  ASSUME NEW D, NEW s \in Seq(D), NEW key, \A m \in D : key[m] \in Int, NEW k \in Int
  PROVE  Fits(D, s, s, key, k)
BY FitsByKey, BelongsAnywhere

LEMMA FitsBelow ==
  ASSUME NEW D, NEW key, \A m \in D : key[m] \in Int, NEW k \in Int,
         NEW n \in D, NEW x \in Seq(D), NEW y \in Seq(D), NEW d \in TwoSides,
         d = "left" <=> k < key[n],
         NEW X, X = Put(d, x, n, y), NEW s, Ordered(key, s), Fits(D, s, X, key, k)
  PROVE  Fits(D, s, x, key, k)
<1>1. PICK Low : Low = {m \in D : key[m] =< k}
  OBVIOUS
<1>2. PICK R : R = ByKey(D, key)
  OBVIOUS
<1>3. /\ \A t, Z : Fits(D, t, Z, key, k) <=> Belongs(D, t, Z, Low)
      /\ Downward(D, R, Low)
  BY <1>1, <1>2, FitsByKey
<1>s. s \in Seq(D)
  BY ConcatProperties DEF Fits, PlacedAt
<1>4. Chained(R, s) /\ Elements(s) \subseteq D /\ D \in SUBSET D
  BY <1>2, <1>s, OrderedIsChained, ElementOfSeq DEF Elements
<1>5. d = "left" <=> n \notin Low
  BY <1>1
<1>6. Belongs(D, s, X, Low)
  BY <1>3
<1>7. Belongs(D, s, x, Low)
  BY <1>3, <1>4, <1>5, <1>6, BelongsBelow
<1>8. QED
  BY <1>3, <1>7

\* s2 is s with n behind the elements whose key is not larger.
PutsByKey(D, s, s2, n, key) ==
  \E P \in Seq(D), Q \in Seq(D) :
    /\ s = P \o Q
    /\ s2 = (P \o <<n>>) \o Q
    /\ \A m \in Elements(P) : key[m] =< key[n]
    /\ \A m \in Elements(Q) : key[n] < key[m]

LEMMA LeafFits ==
  ASSUME NEW D, NEW key, \A m \in D : key[m] \in Int,
         NEW n \in D, NEW p \in D, NEW y \in Seq(D), NEW d \in TwoSides,
         d = "left" <=> key[n] < key[p],
         NEW X \in Seq(D), X = Put(d, <<>>, p, y), NEW s, Ordered(key, s),
         NEW A, NEW C, PlacedAt(D, s, X, A, C),
         \A m \in Elements(A) : key[m] =< key[n],
         \A m \in Elements(C) : key[n] < key[m],
         NEW s2, PutsNext(D, s, s2, n, A, X, C, d)
  PROVE  PutsByKey(D, s, s2, n, key)
<1>1. PICK Low : Low = {m \in D : key[m] =< key[n]}
  OBVIOUS
<1>2. PICK R : R = ByKey(D, key)
  OBVIOUS
<1>s. s \in Seq(D)
  BY ConcatProperties DEF PlacedAt
<1>3. PICK k \in Int : k = key[n]
  OBVIOUS
<1>4. /\ \A t \in Seq(D) : \A B, Z, E : PlacedAt(D, t, Z, B, E) =>
           /\ (\A m \in Elements(B) : key[m] =< k) <=> Elements(B) \subseteq Low
           /\ (\A m \in Elements(E) : k < key[m]) <=> Elements(E) \cap Low = {}
      /\ Downward(D, R, Low)
  BY <1>1, <1>2, <1>3, FitsByKey
<1>5. Elements(A) \subseteq Low /\ Elements(C) \cap Low = {}
  BY <1>s, <1>3, <1>4
<1>6. Chained(R, s) /\ Elements(s) \subseteq D /\ D \in SUBSET D
  BY <1>2, <1>s, OrderedIsChained, ElementOfSeq DEF Elements
<1>7. d = "left" <=> p \notin Low
  BY <1>1
<1>8. PutsAbove(D, s, s2, n, Low)
  BY <1>4, <1>5, <1>6, <1>7, LeafBelongs
<1>9. PICK P \in Seq(D), Q \in Seq(D) :
        /\ s = P \o Q
        /\ s2 = (P \o <<n>>) \o Q
        /\ Elements(P) \subseteq Low
        /\ Elements(Q) \cap Low = {}
  BY <1>8 DEF PutsAbove
<1>10. \A m \in Elements(Q) : m \in D
  BY <1>9, ElementOfSeq DEF Elements
<1>11. /\ \A m \in Elements(P) : key[m] =< key[n]
       /\ \A m \in Elements(Q) : key[n] < key[m]
  BY <1>1, <1>9, <1>10
<1>12. QED
  BY <1>9, <1>11 DEF PutsByKey

\* s2 is sorted as s is: n came in where its key belongs, ...
LEMMA PutsKeepsOrder ==
  ASSUME NEW D, NEW key, \A m \in D : key[m] \in Int, NEW n \in D,
         NEW s, NEW s2, Ordered(key, s), PutsByKey(D, s, s2, n, key)
  PROVE  Ordered(key, s2)
<1>1. PICK P \in Seq(D), Q \in Seq(D) :
        /\ s = P \o Q
        /\ s2 = (P \o <<n>>) \o Q
        /\ \A m \in Elements(P) : key[m] =< key[n]
        /\ \A m \in Elements(Q) : key[n] < key[m]
  BY DEF PutsByKey
<1>2. /\ Ordered(key, P) /\ Ordered(key, Q)
      /\ \A a \in Elements(P), b \in Elements(Q) : key[a] =< key[b]
  BY <1>1, ConcatOrdered
<1>3. \A m \in Elements(Q) : key[m] \in Int /\ key[n] \in Int
  BY ElementOfSeq DEF Elements
<1>4. QED
  BY <1>1, <1>2, <1>3, NodeBetweenOrdered

\* ... n went, ...
LEMMA RemovesKeepsOrder ==
  ASSUME NEW D, NEW key, \A m \in D : key[m] \in Int, NEW n \in D,
         NEW s, NEW s2, Ordered(key, s), Removes(D, s, s2, n)
  PROVE  Ordered(key, s2)
<1>1. PICK P \in Seq(D), Q \in Seq(D) : s = (P \o <<n>>) \o Q /\ s2 = P \o Q
  BY DEF Removes
<1>2. /\ Ordered(key, P) /\ Ordered(key, Q)
      /\ \A a \in Elements(P) \cup {n}, c \in Elements(Q) : key[a] =< key[c]
  BY <1>1, NodeBetweenOrdered
<1>3. QED
  BY <1>1, <1>2, ConcatOrdered

\* ... or a node with the same key took the place of another.
LEMMA TradesKeepsOrder ==
  ASSUME NEW D, NEW key, \A m \in D : key[m] \in Int, NEW old \in D, NEW new \in D,
         key[old] = key[new],
         NEW s, NEW s2, Ordered(key, s), Trades(D, s, s2, old, new)
  PROVE  Ordered(key, s2)
<1>1. PICK P \in Seq(D), Q \in Seq(D) : s = (P \o <<old>>) \o Q /\ s2 = (P \o <<new>>) \o Q
  BY DEF Trades
<1>2. /\ Ordered(key, P) /\ Ordered(key, Q)
      /\ \A a \in Elements(P) : key[a] =< key[old]
      /\ \A a \in Elements(P) \cup {old}, c \in Elements(Q) : key[a] =< key[c]
  BY <1>1, NodeBetweenOrdered
<1>3. /\ \A a \in Elements(P) : key[a] =< key[new]
      /\ \A a \in Elements(P) \cup {new}, c \in Elements(Q) : key[a] =< key[c]
  BY <1>2
<1>4. Ordered(key, (P \o <<new>>) \o Q)
  BY <1>2, <1>3, NodeBetweenOrdered
<1>5. QED
  BY <1>1, <1>4
-----------------------------------------------------------------------------
(* Lists and the node behind a node. *)

\* s starts with X.
First(D, s, X) == \E Z \in Seq(D) : s = X \o Z

\* A list starts with itself ...
LEMMA FirstItself ==
  ASSUME NEW D, NEW s \in Seq(D)
  PROVE  First(D, s, s)
<1>1. <<>> \in Seq(D) /\ s = s \o <<>>
  BY EmptySeq, ConcatEmptySeq
<1>2. QED
  BY <1>1 DEF First

\* ... and, if with the list of a node, with what is on the left of that node.
LEMMA FirstBelow ==
  ASSUME NEW D, NEW x \in Seq(D), NEW n \in D, NEW y \in Seq(D),
         NEW s, First(D, s, Put("left", x, n, y))
  PROVE  First(D, s, x)
<1>1. PICK Z \in Seq(D) : s = Put("left", x, n, y) \o Z
  BY DEF First
<1>2. PICK o \in Seq(D) : o = <<n>>
  BY OneElement
<1>3. s = Cat(Cat(Cat(x, o), y), Z)
  BY <1>1, <1>2 DEF Put, Cat
<1>4. PICK t \in Seq(D) : t = Cat(o, y)
  BY CatRegroups
<1>5. Cat(Cat(x, o), y) = Cat(x, t)
  BY <1>4, CatRegroups
<1>6. Cat(Cat(x, t), Z) = Cat(x, Cat(t, Z)) /\ Cat(t, Z) \in Seq(D)
  BY CatRegroups
<1>7. QED
  BY <1>3, <1>5, <1>6 DEF First, Cat

\* m comes right behind n.
NextTo(D, s, n, m) ==
  \E P \in Seq(D), Q \in Seq(D) : s = (P \o <<n>>) \o (<<m>> \o Q)

\* The list t on the right of n starts with m.
LEMMA FirstBehind ==
  ASSUME NEW D, NEW x \in Seq(D), NEW n \in D, NEW t \in Seq(D), NEW m \in D, NEW w \in Seq(D),
         First(D, t, Put("left", <<>>, m, w)),
         NEW s, NEW A, NEW C, PlacedAt(D, s, Put("left", x, n, t), A, C)
  PROVE  NextTo(D, s, n, m)
<1>1. PICK Z \in Seq(D) : t = Put("left", <<>>, m, w) \o Z
  BY DEF First
<1>2. /\ A \in Seq(D) /\ C \in Seq(D)
      /\ s = (A \o Put("left", x, n, t)) \o C
  BY DEF PlacedAt
<1>3. PICK o \in Seq(D), q \in Seq(D) : o = <<n>> /\ q = <<m>>
  BY OneElement
<1>4. t = Cat(Cat(q, w), Z)
  <2>1. <<>> \o q = q
    BY ConcatEmptySeq
  <2>2. Put("left", <<>>, m, w) = (<<>> \o q) \o w
    BY <1>3 DEF Put
  <2>3. QED
    BY <1>1, <2>1, <2>2 DEF Cat
<1>5. s = Cat(Cat(A, Cat(Cat(x, o), t)), C)
  BY <1>2, <1>3 DEF Put, Cat
<1>6. PICK u \in Seq(D) : u = Cat(w, Z)
  BY CatRegroups
<1>7. t = Cat(q, u)
  BY <1>4, <1>6, CatRegroups
<1>8. PICK g \in Seq(D) : g = Cat(Cat(A, x), o)
  BY <1>2, CatRegroups
<1>9. Cat(A, Cat(Cat(x, o), t)) = Cat(g, t)
  <2>1. Cat(x, o) \in Seq(D) /\ Cat(A, Cat(Cat(x, o), t)) = Cat(Cat(A, Cat(x, o)), t)
    BY <1>2, CatRegroups
  <2>2. Cat(A, Cat(x, o)) = g
    BY <1>2, <1>8, CatRegroups
  <2>3. QED
    BY <2>1, <2>2
<1>10. Cat(Cat(g, t), C) = Cat(g, Cat(t, C))
  BY <1>2, CatRegroups
<1>11. Cat(t, C) = Cat(q, Cat(u, C)) /\ Cat(u, C) \in Seq(D)
  BY <1>2, <1>7, CatRegroups
<1>12. s = Cat(Cat(Cat(A, x), o), Cat(q, Cat(u, C))) /\ Cat(A, x) \in Seq(D)
  BY <1>2, <1>5, <1>8, <1>9, <1>10, <1>11, CatRegroups
<1>13. QED
  BY <1>3, <1>11, <1>12 DEF NextTo, Cat

\* It leaves its place and takes that of n: n is gone.
LEMMA NextTakesPlace ==
  ASSUME NEW D, NEW n \in D, NEW m \in D, NEW s, NEW s1, NEW s2, Distinct(s),
         NextTo(D, s, n, m), Removes(D, s, s1, m), Trades(D, s1, s2, n, m)
  PROVE  Removes(D, s, s2, n)
<1>1. PICK P \in Seq(D), Q \in Seq(D) : s = (P \o <<n>>) \o (<<m>> \o Q)
  BY DEF NextTo
<1>2. PICK P1 \in Seq(D), Q1 \in Seq(D) : s = (P1 \o <<m>>) \o Q1 /\ s1 = P1 \o Q1
  BY DEF Removes
<1>3. PICK P2 \in Seq(D), Q2 \in Seq(D) : s1 = (P2 \o <<n>>) \o Q2 /\ s2 = (P2 \o <<m>>) \o Q2
  BY DEF Trades
<1>4. PICK o \in Seq(D), q \in Seq(D) : o = <<n>> /\ q = <<m>> /\ o # <<>> /\ q # <<>>
  BY OneElement
<1>5. PICK g \in Seq(D) : g = Cat(P, o)
  BY CatRegroups
<1>6. s = Cat(Cat(g, q), Q)
  <2>1. s = Cat(g, Cat(q, Q))
    BY <1>1, <1>4, <1>5 DEF Cat
  <2>2. QED
    BY <2>1, CatRegroups
<1>7. P1 = g /\ Q1 = Q
  <2>1. (P1 \o q) \o Q1 = (g \o q) \o Q /\ Distinct((P1 \o q) \o Q1) /\ q # <<>>
    BY <1>2, <1>4, <1>6 DEF Cat
  <2>2. QED
    BY <2>1, OneSplit
<1>8. s1 = (P \o o) \o Q
  BY <1>2, <1>5, <1>7 DEF Cat
<1>9. Distinct((P \o o) \o Q)
  <2>1. Distinct(P1) /\ Distinct(Q1) /\ Elements(P1) \cap Elements(Q1) = {}
    BY <1>2, NodeBetween
  <2>2. Distinct(P1 \o Q1)
    BY <2>1, ConcatDistinct
  <2>3. QED
    BY <1>2, <1>8, <2>2
<1>10. P2 = P /\ Q2 = Q
  <2>1. (P \o o) \o Q = (P2 \o o) \o Q2 /\ o # <<>>
    BY <1>3, <1>4, <1>8
  <2>2. QED
    BY <1>9, <2>1, OneSplit
<1>11. s2 = Cat(P, Cat(q, Q)) /\ Cat(q, Q) \in Seq(D)
  <2>1. s2 = Cat(Cat(P, q), Q)
    BY <1>3, <1>4, <1>10 DEF Cat
  <2>2. QED
    BY <2>1, CatRegroups
<1>12. s = (P \o <<n>>) \o Cat(q, Q)
  BY <1>1, <1>4 DEF Cat
<1>13. QED
  BY <1>11, <1>12 DEF Removes, Cat
-----------------------------------------------------------------------------
(* The same changes, said with positions. *)

\* n comes right behind all elements whose key is not larger.
InAt(s, s2, n, key) ==
  \E i \in Nat :
    /\ i = Cardinality({m \in Elements(s) : key[m] =< key[n]})
    /\ s2 = SubSeq(s, 1, i) \o <<n>> \o SubSeq(s, i + 1, Len(s))

\* An insertion by key is an insertion at that position.
LEMMA PutsAtCount ==
  ASSUME NEW D, NEW key, \A m \in D : key[m] \in Int, NEW n \in D,
         NEW s, NEW s2, Distinct(s), PutsByKey(D, s, s2, n, key)
  PROVE  InAt(s, s2, n, key) /\ n \in Elements(s2)
<1>1. PICK P \in Seq(D), Q \in Seq(D) :
        /\ s = P \o Q
        /\ s2 = (P \o <<n>>) \o Q
        /\ \A m \in Elements(P) : key[m] =< key[n]
        /\ \A m \in Elements(Q) : key[n] < key[m]
  BY DEF PutsByKey
<1>2. PICK k \in Int : k = key[n]
  OBVIOUS
<1>3. /\ Halved(D, s, P, Q) /\ NodeAt(D, s2, P, n, Q)
      /\ \A m \in Elements(P) : key[m] =< k
      /\ \A m \in Elements(Q) : k < key[m]
  BY <1>1, <1>2 DEF Halved, NodeAt
<1>4. Cardinality({m \in Elements(s) : key[m] =< k}) = Len(P)
  BY <1>3, CountUpTo
<1>5. s2 = SubSeq(s, 1, Len(P)) \o <<n>> \o SubSeq(s, Len(P) + 1, Len(s))
  BY <1>3, PutsIn
<1>6. n \in Elements(s2)
  BY <1>1, NodeBetween
<1>7. Len(P) \in Nat
  BY LenProperties
<1>8. QED
  BY <1>2, <1>4, <1>5, <1>6, <1>7 DEF InAt

\* n goes from the place where it is.
LEMMA RemovesAtPlace ==
  ASSUME NEW D, NEW n \in D, NEW s, NEW s2, Distinct(s), Removes(D, s, s2, n)
  PROVE  /\ OutAt(s, s2, n)
         /\ n \in Elements(s) /\ n \notin Elements(s2)
<1>1. PICK P \in Seq(D), Q \in Seq(D) : s = (P \o <<n>>) \o Q /\ s2 = P \o Q
  BY DEF Removes
<1>2. OutAt(s, s2, n)
  <2>1. NodeAt(D, s, P, n, Q) /\ Halved(D, s2, P, Q)
    BY <1>1 DEF NodeAt, Halved
  <2>2. QED
    BY <2>1, TakesOut
<1>3. n \in Elements(s) /\ n \notin Elements(P) /\ n \notin Elements(Q)
  BY <1>1, NodeBetween
<1>4. Elements(P \o Q) = Elements(P) \cup Elements(Q)
  BY ConcatElements
<1>5. QED
  BY <1>1, <1>2, <1>3, <1>4

\* new has the position that old had.
LEMMA TradesAtPlace ==
  ASSUME NEW D, NEW old \in D, NEW new \in D, NEW s, NEW s2, Distinct(s), new \notin Elements(s),
         Trades(D, s, s2, old, new)
  PROVE  /\ s2 = [i \in DOMAIN s |-> IF s[i] = old THEN new ELSE s[i]]
         /\ old \in Elements(s) /\ old \notin Elements(s2) /\ new \in Elements(s2)
<1>1. PICK P \in Seq(D), Q \in Seq(D) : s = (P \o <<old>>) \o Q /\ s2 = (P \o <<new>>) \o Q
  BY DEF Trades
<1>2. s2 = [i \in DOMAIN s |-> IF s[i] = old THEN new ELSE s[i]]
  <2>1. NodeAt(D, s, P, old, Q) /\ NodeAt(D, s2, P, new, Q)
    BY <1>1 DEF NodeAt
  <2>2. QED
    BY <2>1, Exchanges
<1>3. old \in Elements(s) /\ old \notin Elements(P) /\ old \notin Elements(Q)
  BY <1>1, NodeBetween
<1>4. Elements((P \o <<new>>) \o Q) = Elements(P) \cup {new} \cup Elements(Q)
  BY NodeBetween
<1>5. QED
  BY <1>1, <1>2, <1>3, <1>4
-----------------------------------------------------------------------------
(* Loops that go from node to node until they may stop, with a budget of turns. *)

ChaseTurn(w, k, m, stop, out, go) == IF k = 0 \/ stop[m] THEN out[m] ELSE w[k - 1][go[m]]

ChaseTurns(w, M, stop, out, go, N) ==
  [k \in 0..N |-> [m \in M |-> ChaseTurn(w, k, m, stop, out, go)]]

\* The recursion of such a loop has a solution ...
LEMMA ChaseSolution ==
  ASSUME NEW M, NEW stop, NEW out, NEW go, NEW N \in Nat
  PROVE  \E w : w = ChaseTurns(w, M, stop, out, go, N)
<1> DEFINE T == {m \in Nat : \E w : w = ChaseTurns(w, M, stop, out, go, m)}
<1>1. 0 \in T
  <2> DEFINE w == [k \in 0..0 |-> [n \in M |-> ChaseTurn(k, k, n, stop, out, go)]]
  <2>1. \A k \in 0..0, n \in M : ChaseTurn(w, k, n, stop, out, go) = ChaseTurn(k, k, n, stop, out, go)
    BY DEF ChaseTurn
  <2>2. w = ChaseTurns(w, M, stop, out, go, 0)
    <3> HIDE DEF w
    <3>1. w = [k \in 0..0 |-> [n \in M |-> ChaseTurn(w, k, n, stop, out, go)]]
      BY <2>1 DEF w
    <3>2. QED
      BY <3>1 DEF ChaseTurns
  <2>3. QED
    BY <2>2
<1>2. ASSUME NEW m \in Nat, m \in T PROVE m + 1 \in T
  <2>1. PICK w : w = ChaseTurns(w, M, stop, out, go, m)
    BY <1>2
  <2> DEFINE v == ChaseTurns(w, M, stop, out, go, m + 1)
  <2>2. \A k \in 0..m : v[k] = w[k]
    <3>1. \A k \in 0..m : k \in 0..(m + 1)
      OBVIOUS
    <3>2. QED
      BY <2>1, <3>1 DEF ChaseTurns
  <2>3. \A k \in 0..(m + 1), n \in M : ChaseTurn(v, k, n, stop, out, go) = ChaseTurn(w, k, n, stop, out, go)
    <3>1. \A k \in 0..(m + 1) : k # 0 => k - 1 \in 0..m
      OBVIOUS
    <3> HIDE DEF v
    <3>2. QED
      BY <2>2, <3>1 DEF ChaseTurn
  <2>4. v = ChaseTurns(v, M, stop, out, go, m + 1)
    <3>1. v = [k \in 0..(m + 1) |-> [n \in M |-> ChaseTurn(w, k, n, stop, out, go)]]
      BY DEF ChaseTurns
    <3> HIDE DEF v
    <3>2. QED
      BY <2>3, <3>1 DEF ChaseTurns
  <2>5. m + 1 \in Nat
    OBVIOUS
  <2> HIDE DEF v
  <2>6. QED
    BY <2>4, <2>5
<1> HIDE DEF T
<1>3. N \in T
  BY <1>1, <1>2, Induction
<1>4. QED
  BY <1>3 DEF T

\* How far each node of S is from the end.
Approaches(S, stop, go, rank, N) ==
  \A m \in S : /\ rank[m] \in 0..N
               /\ ~stop[m] => go[m] \in S /\ rank[go[m]] < rank[m]

\* What the loop finds with all its turns.
IsChase(w, M, stop, out, go, N) == w = ChaseTurns(w, M, stop, out, go, N)

ChasesTo(f, S, stop, out, go) == \A m \in S : f[m] = IF stop[m] THEN out[m] ELSE f[go[m]]

\* ... and ends within the budget if every turn comes nearer to the end.
LEMMA ChaseEnds ==
  ASSUME NEW M, NEW stop, NEW out, NEW go, NEW N \in Nat, NEW w,
         IsChase(w, M, stop, out, go, N),
         NEW S \in SUBSET M, NEW rank, Approaches(S, stop, go, rank, N)
  PROVE  ChasesTo(w[N], S, stop, out, go)
<1>1. \A k \in 0..N, m \in S : w[k][m] = ChaseTurn(w, k, m, stop, out, go)
  BY DEF IsChase, ChaseTurns
<1>2. \A k \in 0..N, m \in S :
        /\ stop[m] => w[k][m] = out[m]
        /\ ~stop[m] /\ k # 0 => w[k][m] = w[k - 1][go[m]]
  BY <1>1 DEF ChaseTurn
<1>3. \A m \in S : /\ rank[m] \in 0..N
                   /\ ~stop[m] => go[m] \in S /\ rank[go[m]] < rank[m] /\ rank[go[m]] \in 0..N
  BY DEF Approaches
<1> DEFINE T == {r \in Nat : \A m \in S, k \in 0..N, l \in 0..N :
                   rank[m] =< r /\ r =< k /\ r =< l => w[k][m] = w[l][m]}
<1>4. 0 \in T
  <2>1. \A m \in S : rank[m] =< 0 => stop[m]
    BY <1>3
  <2>2. QED
    BY <1>2, <2>1
<1>5. ASSUME NEW r \in Nat, r \in T PROVE r + 1 \in T
  <2> SUFFICES ASSUME NEW m \in S, NEW k \in 0..N, NEW l \in 0..N,
                      rank[m] =< r + 1, r + 1 =< k, r + 1 =< l
               PROVE  w[k][m] = w[l][m]
    OBVIOUS
  <2>1. CASE stop[m]
    BY <1>2, <2>1
  <2>2. CASE ~stop[m]
    <3>1. /\ go[m] \in S /\ rank[go[m]] =< r
          /\ k - 1 \in 0..N /\ l - 1 \in 0..N /\ r =< k - 1 /\ r =< l - 1 /\ k # 0 /\ l # 0
      BY <1>3, <2>2
    <3>2. w[k - 1][go[m]] = w[l - 1][go[m]]
      BY <1>5, <3>1
    <3>3. QED
      BY <1>2, <2>2, <3>1, <3>2
  <2>3. QED
    BY <2>1, <2>2
<1>6. Nat \subseteq T
  <2> HIDE DEF T
  <2>1. QED
    BY <1>4, <1>5, Induction
<1>7. ASSUME NEW m \in S, ~stop[m] PROVE w[N][m] = w[N][go[m]]
  <2>1. /\ go[m] \in S /\ rank[go[m]] =< N - 1 /\ N - 1 \in 0..N /\ N \in 0..N
        /\ N # 0 /\ N - 1 \in Nat
    BY <1>3, <1>7
  <2>2. w[N - 1][go[m]] = w[N][go[m]]
    BY <1>6, <2>1
  <2>3. QED
    BY <1>2, <1>7, <2>1, <2>2
<1>8. ASSUME NEW m \in S, stop[m] PROVE w[N][m] = out[m]
  BY <1>2, <1>8
<1>9. QED
  BY <1>7, <1>8 DEF ChasesTo

\* The end of a tree on side d.
DeepestTurn(w, k, m, ch, d, nil) == IF k = 0 \/ ch[m][d] = nil THEN m ELSE w[k - 1][ch[m][d]]

DeepestTurns(w, M, ch, d, nil, N) ==
  [k \in 0..N |-> [m \in M |-> DeepestTurn(w, k, m, ch, d, nil)]]

DeepestWalk(M, ch, d, nil, N) == CHOOSE w : w = DeepestTurns(w, M, ch, d, nil, N)

IsDeepest(f, ch, S, nil, d) ==
  \A n \in S : f[n] = IF ch[n][d] = nil THEN n ELSE f[ch[n][d]]

\* The loop finds it within the budget, since the heights drop.
LEMMA DeepestUnfolds ==
  ASSUME NEW Node, NEW nil, NEW N \in Nat, NEW ch, NEW d \in TwoSides,
         NEW S \in SUBSET Node, NEW h, \A n \in S : h[n] \in 1..N, Below(ch, S, nil, h)
  PROVE  IsDeepest(DeepestWalk(Node, ch, d, nil, N)[N], ch, S, nil, d)
<1> DEFINE stop == [m \in Node |-> ch[m][d] = nil]
    out == [m \in Node |-> m]
    go == [m \in Node |-> ch[m][d]]
<1>2. \A w : ChaseTurns(w, Node, stop, out, go, N) = DeepestTurns(w, Node, ch, d, nil, N)
  BY DEF ChaseTurns, ChaseTurn, DeepestTurns, DeepestTurn
<1>3. PICK v : v = ChaseTurns(v, Node, stop, out, go, N)
  <2> HIDE DEF stop, out, go
  <2>1. QED
    BY ChaseSolution
<1>4. v = DeepestTurns(v, Node, ch, d, nil, N)
  BY <1>2, <1>3
<1>5. PICK w : w = DeepestWalk(Node, ch, d, nil, N)
  OBVIOUS
<1>6. w = DeepestTurns(w, Node, ch, d, nil, N)
  BY <1>4, <1>5 DEF DeepestWalk
<1>7. IsChase(w, Node, stop, out, go, N)
  BY <1>2, <1>6 DEF IsChase
<1>8. Approaches(S, stop, go, h, N)
  <2> SUFFICES ASSUME NEW m \in S
               PROVE  /\ h[m] \in 0..N
                      /\ ~stop[m] => go[m] \in S /\ h[go[m]] < h[m]
    BY DEF Approaches
  <2>1. ~stop[m] => ch[m][d] # nil
    OBVIOUS
  <2>2. ch[m][d] # nil => ch[m][d] \in S /\ h[ch[m][d]] < h[m]
    BY DEF Below
  <2>3. go[m] = ch[m][d] /\ h[m] \in 1..N
    OBVIOUS
  <2>4. QED
    BY <2>1, <2>2, <2>3
<1>9. ChasesTo(w[N], S, stop, out, go)
  <2> HIDE DEF stop, out, go
  <2>1. QED
    BY <1>7, <1>8, ChaseEnds
<1>10. QED
  BY <1>5, <1>9 DEF IsDeepest, ChasesTo

\* The first ancestor that a node is not below on side d.
ClimbTurn(w, k, m, ch, word, d, nil) ==
  IF k = 0 \/ word[m].parent = nil \/ ch[word[m].parent][d] # m
  THEN word[m].parent ELSE w[k - 1][word[m].parent]

ClimbTurns(w, M, ch, word, d, nil, N) ==
  [k \in 0..N |-> [m \in M |-> ClimbTurn(w, k, m, ch, word, d, nil)]]

ClimbWalk(M, ch, word, d, nil, N) == CHOOSE w : w = ClimbTurns(w, M, ch, word, d, nil, N)

IsClimb(g, ch, word, S, nil, d) ==
  \A n \in S : g[n] = IF word[n].parent = nil \/ ch[word[n].parent][d] # n
                      THEN word[n].parent ELSE g[word[n].parent]

\* The loop finds it within the budget, since the heights grow.
LEMMA ClimbUnfolds ==
  ASSUME NEW Node, NEW nil, NEW N \in Nat, NEW ch, NEW word,
         \A n \in Node : word[n].parent \in Node \cup {nil}, NEW d \in TwoSides,
         NEW S \in SUBSET Node, \A n \in S : word[n].parent \in S \cup {nil},
         NEW h, \A n \in S : h[n] \in 1..N, Below(ch, S, nil, h)
  PROVE  IsClimb(ClimbWalk(Node, ch, word, d, nil, N)[N], ch, word, S, nil, d)
<1> DEFINE stop == [m \in Node |-> word[m].parent = nil \/ ch[word[m].parent][d] # m]
    out == [m \in Node |-> word[m].parent]
    rank == [m \in S |-> N - h[m]]
<1>2. \A w : ChaseTurns(w, Node, stop, out, out, N) = ClimbTurns(w, Node, ch, word, d, nil, N)
  BY DEF ChaseTurns, ChaseTurn, ClimbTurns, ClimbTurn
<1>3. PICK v : v = ChaseTurns(v, Node, stop, out, out, N)
  <2> HIDE DEF stop, out
  <2>1. QED
    BY ChaseSolution
<1>4. v = ClimbTurns(v, Node, ch, word, d, nil, N)
  BY <1>2, <1>3
<1>5. PICK w : w = ClimbWalk(Node, ch, word, d, nil, N)
  OBVIOUS
<1>6. w = ClimbTurns(w, Node, ch, word, d, nil, N)
  BY <1>4, <1>5 DEF ClimbWalk
<1>7. IsChase(w, Node, stop, out, out, N)
  BY <1>2, <1>6 DEF IsChase
<1>8. Approaches(S, stop, out, rank, N)
  <2> SUFFICES ASSUME NEW m \in S
               PROVE  /\ rank[m] \in 0..N
                      /\ ~stop[m] => out[m] \in S /\ rank[out[m]] < rank[m]
    BY DEF Approaches
  <2>1. h[m] \in 1..N /\ rank[m] = N - h[m]
    OBVIOUS
  <2>2. ASSUME ~stop[m] PROVE out[m] \in S /\ rank[out[m]] < rank[m]
    <3>1. PICK p : p = word[m].parent
      OBVIOUS
    <3>2. p \in S /\ ch[p][d] = m /\ out[m] = p /\ m # nil
      BY <2>2, <3>1 DEF Below
    <3>3. h[m] < h[p] /\ h[p] \in 1..N
      BY <3>2 DEF Below
    <3>4. QED
      BY <2>1, <3>2, <3>3
  <2>3. QED
    BY <2>1, <2>2
<1>9. ChasesTo(w[N], S, stop, out, out)
  <2> HIDE DEF stop, out, rank
  <2>1. QED
    BY <1>7, <1>8, ChaseEnds
<1>10. QED
  BY <1>5, <1>9 DEF IsClimb, ChasesTo
-----------------------------------------------------------------------------
(* Neighbours in a list.  Join, on side "right", is the concatenation in a mirror, *)
(* so that one lemma speaks of both directions.                                    *)

Join(d, a, b) == IF d = "left" THEN a \o b ELSE b \o a

IsPut(X, d, x, n, y) == X = Put(d, x, n, y)

Regroups(D, d) ==
  \A a, b, c \in Seq(D) :
    Join(d, a, b) \in Seq(D) /\ Join(d, Join(d, a, b), c) = Join(d, a, Join(d, b, c))

\* Join is associative, as concatenation is, ...
LEMMA JoinRegroups ==
  ASSUME NEW D, NEW d
  PROVE  Regroups(D, d)
<1> SUFFICES ASSUME NEW a \in Seq(D), NEW b \in Seq(D), NEW c \in Seq(D)
             PROVE  /\ Join(d, a, b) \in Seq(D)
                    /\ Join(d, Join(d, a, b), c) = Join(d, a, Join(d, b, c))
  BY DEF Regroups
<1>1. CASE d = "left"
  BY <1>1, CatRegroups DEF Join, Cat
<1>2. CASE d # "left"
  BY <1>2, CatRegroups DEF Join, Cat
<1>3. QED
  BY <1>1, <1>2

\* ... and the list of a node is one, seen from either side.
LEMMA PutIsJoin ==
  ASSUME NEW D, NEW d, NEW x \in Seq(D), NEW n \in D, NEW y \in Seq(D), NEW X, IsPut(X, d, x, n, y)
  PROVE  \E o \in Seq(D) : o = <<n>> /\ o # <<>> /\ X = Join(d, Join(d, x, o), y)
<1>1. PICK o \in Seq(D) : o = <<n>> /\ o # <<>>
  BY OneElement
<1>2. X = Put(d, x, n, y)
  BY DEF IsPut
<1>3. CASE d = "left"
  BY <1>1, <1>2, <1>3 DEF Put, Join
<1>4. CASE d # "left"
  <2>1. Cat(Cat(y, o), x) = Cat(y, Cat(o, x))
    BY CatRegroups
  <2>2. QED
    BY <1>1, <1>2, <1>4, <2>1 DEF Put, Join, Cat
<1>5. QED
  BY <1>3, <1>4

\* m is the outermost element of s on side d.
Outermost(D, s, d, m) == m \in D /\ \E Z \in Seq(D), o \in Seq(D) : o = <<m>> /\ s = Join(d, o, Z)

\* The node that has nothing on side d is the outermost one of its list; ...
LEMMA OutermostSelf ==
  ASSUME NEW D, NEW d, NEW n \in D, NEW y \in Seq(D), NEW s, IsPut(s, d, <<>>, n, y)
  PROVE  Outermost(D, s, d, n)
<1>1. PICK e \in Seq(D) : e = <<>>
  BY EmptySeq
<1>i. IsPut(s, d, e, n, y)
  BY <1>1
<1>2. PICK o \in Seq(D) : o = <<n>> /\ o # <<>> /\ s = Join(d, Join(d, e, o), y)
  BY <1>i, PutIsJoin
<1>3. Join(d, e, o) = o
  BY <1>1, ConcatEmptySeq DEF Join
<1>4. QED
  BY <1>2, <1>3 DEF Outermost

\* ... else it has the outermost one from there.
LEMMA OutermostBelow ==
  ASSUME NEW D, NEW d, NEW n \in D, NEW x \in Seq(D), NEW y \in Seq(D), NEW s, IsPut(s, d, x, n, y),
         NEW m, Outermost(D, x, d, m)
  PROVE  Outermost(D, s, d, m)
<1>r. Regroups(D, d)
  BY JoinRegroups
<1>j. \A a, b, c \in Seq(D) :
        Join(d, a, b) \in Seq(D) /\ Join(d, Join(d, a, b), c) = Join(d, a, Join(d, b, c))
  BY <1>r DEF Regroups
<1>1. PICK o \in Seq(D) : o = <<n>> /\ o # <<>> /\ s = Join(d, Join(d, x, o), y)
  BY PutIsJoin
<1>3. PICK Z \in Seq(D), u \in Seq(D) : u = <<m>> /\ x = Join(d, u, Z)
  BY DEF Outermost
<1>4. PICK v \in Seq(D) : v = Join(d, Z, o)
  BY <1>j
<1>5. Join(d, Join(d, u, Z), o) = Join(d, u, Join(d, Z, o))
  BY <1>j
<1>9. Join(d, x, o) = Join(d, u, v)
  BY <1>3, <1>4, <1>5
<1>6. Join(d, Join(d, u, v), y) = Join(d, u, Join(d, v, y)) /\ Join(d, v, y) \in Seq(D)
  BY <1>j
<1>7. m \in D
  BY DEF Outermost
<1>8. QED
  BY <1>1, <1>3, <1>9, <1>6, <1>7 DEF Outermost

\* m is the element of s that lies before X on side d, or nil if there is none.
Before(D, s, d, X, m, nil) ==
  \E A \in Seq(D), C \in Seq(D) :
    /\ s = Join(d, Join(d, A, X), C)
    /\ IF A = <<>> THEN m = nil
       ELSE m \in D /\ \E Z \in Seq(D), o \in Seq(D) : o = <<m>> /\ A = Join(d, Z, o)

\* Nothing is before the whole list; ...
LEMMA BeforeAll ==
  ASSUME NEW D, NEW d, NEW s \in Seq(D), NEW nil
  PROVE  Before(D, s, d, s, nil, nil)
<1>1. PICK e \in Seq(D) : e = <<>>
  BY EmptySeq
<1>2. s = Join(d, Join(d, e, s), e)
  BY <1>1, ConcatEmptySeq DEF Join
<1>3. QED
  BY <1>1, <1>2 DEF Before

\* ... before what is on side d of p is what is before all that hangs from p, ...
LEMMA BeforeSame ==
  ASSUME NEW D, NEW d, NEW nil, NEW s, NEW p \in D, NEW x \in Seq(D), NEW y \in Seq(D),
         NEW X, IsPut(X, d, x, p, y), NEW m, Before(D, s, d, X, m, nil)
  PROVE  Before(D, s, d, x, m, nil)
<1>r. Regroups(D, d)
  BY JoinRegroups
<1>j. \A a, b, c \in Seq(D) :
        Join(d, a, b) \in Seq(D) /\ Join(d, Join(d, a, b), c) = Join(d, a, Join(d, b, c))
  BY <1>r DEF Regroups
<1>1. PICK A \in Seq(D), C \in Seq(D) :
        /\ s = Join(d, Join(d, A, X), C)
        /\ IF A = <<>> THEN m = nil
           ELSE m \in D /\ \E Z \in Seq(D), o \in Seq(D) : o = <<m>> /\ A = Join(d, Z, o)
  BY DEF Before
<1>2. PICK o \in Seq(D) : o = <<p>> /\ o # <<>> /\ X = Join(d, Join(d, x, o), y)
  BY PutIsJoin
<1>4. PICK t \in Seq(D) : t = Join(d, o, y)
  BY <1>j
<1>3. Join(d, Join(d, x, o), y) = Join(d, x, Join(d, o, y))
  BY <1>j
<1>5. X = Join(d, x, t)
  BY <1>2, <1>3, <1>4
<1>6. Join(d, A, X) = Join(d, Join(d, A, x), t) /\ Join(d, A, x) \in Seq(D)
  BY <1>5, <1>j
<1>7. Join(d, Join(d, Join(d, A, x), t), C) = Join(d, Join(d, A, x), Join(d, t, C))
      /\ Join(d, t, C) \in Seq(D)
  BY <1>6, <1>j
<1>8. s = Join(d, Join(d, A, x), Join(d, t, C))
  BY <1>1, <1>6, <1>7
<1>9. QED
  BY <1>1, <1>7, <1>8 DEF Before

\* ... before what is on the other side is p, ...
LEMMA BeforeParent ==
  ASSUME NEW D, NEW d, NEW nil, NEW s, NEW p \in D, NEW x \in Seq(D), NEW y \in Seq(D),
         NEW X, IsPut(X, d, x, p, y), NEW m, Before(D, s, d, X, m, nil)
  PROVE  Before(D, s, d, y, p, nil)
<1>r. Regroups(D, d)
  BY JoinRegroups
<1>j. \A a, b, c \in Seq(D) :
        Join(d, a, b) \in Seq(D) /\ Join(d, Join(d, a, b), c) = Join(d, a, Join(d, b, c))
  BY <1>r DEF Regroups
<1>1. PICK A \in Seq(D), C \in Seq(D) : s = Join(d, Join(d, A, X), C)
  BY DEF Before
<1>2. PICK o \in Seq(D) : o = <<p>> /\ o # <<>> /\ X = Join(d, Join(d, x, o), y)
  BY PutIsJoin
<1>4. PICK t \in Seq(D) : t = Join(d, x, o)
  BY <1>j
<1>5. PICK B \in Seq(D) : B = Join(d, A, t)
  BY <1>j
<1>6. Join(d, A, X) = Join(d, B, y)
  BY <1>2, <1>4, <1>5, <1>j
<1>7. PICK Z \in Seq(D) : Z = Join(d, A, x)
  BY <1>j
<1>8. B = Join(d, Z, o)
  BY <1>4, <1>5, <1>7, <1>j
<1>9. B # <<>>
  <2>1. o # <<>> /\ (B = Z \o o \/ B = o \o Z)
    BY <1>2, <1>8 DEF Join
  <2>2. QED
    BY <2>1, ConcatEmptySeq, ConcatProperties, LenProperties, EmptySeq
<1>10. s = Join(d, Join(d, B, y), C)
  BY <1>1, <1>6
<1>11. \E W \in Seq(D), u \in Seq(D) : u = <<p>> /\ B = Join(d, W, u)
  BY <1>2, <1>8
<1>12. QED
  BY <1>9, <1>10, <1>11 DEF Before

\* ... and before a node is the outermost one, on the other side, of what is on its
\* side d, or what is before its whole list.
LEMMA BeforeNode ==
  ASSUME NEW D, NEW d \in TwoSides, NEW nil, NEW s, NEW n \in D, NEW x \in Seq(D), NEW y \in Seq(D),
         NEW X, IsPut(X, d, x, n, y), NEW m, Before(D, s, d, X, m, nil),
         NEW v, IF x = <<>> THEN v = m ELSE Outermost(D, x, Across(d), v)
  PROVE  Before(D, s, d, <<n>>, v, nil)
<1>r. Regroups(D, d)
  BY JoinRegroups
<1>j. \A a, b, c \in Seq(D) :
        Join(d, a, b) \in Seq(D) /\ Join(d, Join(d, a, b), c) = Join(d, a, Join(d, b, c))
  BY <1>r DEF Regroups
<1>1. PICK A \in Seq(D), C \in Seq(D) :
        /\ s = Join(d, Join(d, A, X), C)
        /\ IF A = <<>> THEN m = nil
           ELSE m \in D /\ \E Z \in Seq(D), o \in Seq(D) : o = <<m>> /\ A = Join(d, Z, o)
  BY DEF Before
<1>2. PICK o \in Seq(D) : o = <<n>> /\ o # <<>> /\ X = Join(d, Join(d, x, o), y)
  BY PutIsJoin
<1>4. PICK t \in Seq(D) : t = Join(d, o, y)
  BY <1>j
<1>3. Join(d, Join(d, x, o), y) = Join(d, x, Join(d, o, y))
  BY <1>j
<1>5. X = Join(d, x, t)
  BY <1>2, <1>3, <1>4
<1>6. PICK B \in Seq(D) : B = Join(d, A, x)
  BY <1>j
<1>7. Join(d, A, X) = Join(d, B, t)
  BY <1>5, <1>6, <1>j
<1>8. Join(d, B, t) = Join(d, Join(d, B, o), y) /\ Join(d, B, o) \in Seq(D)
  BY <1>4, <1>j
<1>9. Join(d, Join(d, Join(d, B, o), y), C) = Join(d, Join(d, B, o), Join(d, y, C))
      /\ Join(d, y, C) \in Seq(D)
  BY <1>8, <1>j
<1>10. s = Join(d, Join(d, B, o), Join(d, y, C))
  BY <1>1, <1>7, <1>8, <1>9
<1>11. IF B = <<>> THEN v = nil
       ELSE v \in D /\ \E Z \in Seq(D), u \in Seq(D) : u = <<v>> /\ B = Join(d, Z, u)
  <2>1. CASE x = <<>>
    <3>1. B = A
      BY <1>6, <2>1, ConcatEmptySeq DEF Join
    <3>2. QED
      BY <1>1, <2>1, <3>1
  <2>2. CASE x # <<>>
    <3>1. PICK Z \in Seq(D), u \in Seq(D) : v \in D /\ u = <<v>> /\ x = Join(Across(d), u, Z)
      BY <2>2 DEF Outermost
    <3>2. x = Join(d, Z, u)
      BY <3>1 DEF Join, Across, TwoSides
    <3>3. B = Join(d, Join(d, A, Z), u) /\ Join(d, A, Z) \in Seq(D)
      BY <1>6, <3>2, <1>j
    <3>4. B # <<>>
      <4>1. PICK W \in Seq(D) : W = Join(d, A, Z)
        BY <3>3
      <4>2. u # <<>> /\ (B = W \o u \/ B = u \o W)
        BY <3>1, <3>3, <4>1, OneElement DEF Join
      <4>3. QED
        BY <4>2, ConcatEmptySeq, ConcatProperties, LenProperties, EmptySeq
    <3>5. QED
      BY <3>1, <3>3, <3>4
  <2>3. QED
    BY <2>1, <2>2
<1>12. QED
  BY <1>2, <1>9, <1>10, <1>11 DEF Before
-----------------------------------------------------------------------------
(* Where the loops end, in terms of the list.  D is the set of nodes. *)

IsOutermost(f, io, S, d) == \A n \in S : Outermost(S, io[n], d, f[n])

\* From n on to side d: the outermost node below n.
LEMMA DeepestIsOutermost ==
  ASSUME NEW ch, NEW par, NEW S, NEW nil, NEW h, NEW N \in Nat, Shaped(ch, par, S, nil, h, N),
         NEW io, IsInOrder(io, ch, S, nil), NEW d \in TwoSides,
         NEW f, IsDeepest(f, ch, S, nil, d)
  PROVE  IsOutermost(f, io, S, d)
<1> DEFINE T == {n \in S : Outermost(S, io[n], d, f[n])}
<1>1. ASSUME NEW n \in S, \A e \in TwoSides : ch[n][e] # nil => ch[n][e] \in T
      PROVE  Outermost(S, io[n], d, f[n])
  <2>1. PICK x, y : x = io[ch[n][d]] /\ y = io[ch[n][Across(d)]]
    OBVIOUS
  <2>2. Across(d) \in TwoSides
    BY DEF Across, TwoSides
  <2>3. x \in Seq(S) /\ y \in Seq(S)
    <3>1. ch[n][d] \in S \cup {nil} /\ ch[n][Across(d)] \in S \cup {nil}
      BY <2>2 DEF Shaped, Below
    <3>2. QED
      BY <2>1, <3>1, NodesUnfold
  <2>4. IsPut(io[n], d, x, n, y)
    BY <2>1, PutEither DEF IsPut
  <2>5. f[n] = IF ch[n][d] = nil THEN n ELSE f[ch[n][d]]
    BY DEF IsDeepest
  <2>6. CASE ch[n][d] = nil
    <3>1. x = <<>>
      BY <2>1, <2>6 DEF IsInOrder
    <3>2. IsPut(io[n], d, <<>>, n, y)
      BY <2>4, <3>1
    <3>3. Outermost(S, io[n], d, n)
      BY <2>3, <3>2, OutermostSelf
    <3>4. QED
      BY <2>5, <2>6, <3>3
  <2>7. CASE ch[n][d] # nil
    <3>1. ch[n][d] \in T
      BY <1>1, <2>7
    <3>2. Outermost(S, x, d, f[n])
      BY <2>1, <2>5, <2>7, <3>1
    <3> HIDE DEF T
    <3>3. QED
      BY <2>3, <2>4, <3>2, OutermostBelow
  <2>8. QED
    BY <2>6, <2>7
<1>2. \A n \in S : (\A e \in TwoSides : ch[n][e] # nil => ch[n][e] \in T) => n \in T
  BY <1>1
<1>3. S \subseteq T
  <2> HIDE DEF T
  <2>1. QED
    BY <1>2, UpwardInduction
<1>4. QED
  BY <1>3 DEF IsOutermost

IsBefore(g, io, s, S, d, nil) == \A n \in S : Before(S, s, d, io[n], g[n], nil)

\* From n up: the node before everything below n.
LEMMA ClimbIsBefore ==
  ASSUME NEW ch, NEW par, NEW S, NEW nil, NEW h, NEW N \in Nat, Shaped(ch, par, S, nil, h, N),
         NEW r, Rooted(ch, par, r, S, nil), nil \notin S,
         NEW io, IsInOrder(io, ch, S, nil), NEW d \in TwoSides,
         NEW word, \A n \in S : word[n].parent = par[n], NEW g, IsClimb(g, ch, word, S, nil, d)
  PROVE  IsBefore(g, io, io[r], S, d, nil)
<1> PICK s : s = io[r]
  OBVIOUS
<1>s. s = io[r]
  OBVIOUS
<1> DEFINE T == {n \in S : Before(S, s, d, io[n], g[n], nil)}
<1>1. ASSUME NEW n \in S, \A m \in S : h[n] < h[m] => m \in T
      PROVE  Before(S, s, d, io[n], g[n], nil)
  <2>1. g[n] = IF par[n] = nil \/ ch[par[n]][d] # n THEN par[n] ELSE g[par[n]]
    BY DEF IsClimb
  <2>2. io[n] \in Seq(S)
    BY DEF IsInOrder
  <2>3. CASE par[n] = nil
    <3>1. n = r /\ g[n] = nil
      BY <2>1, <2>3 DEF Rooted
    <3>2. Before(S, io[n], d, io[n], nil, nil)
      BY <2>2, BeforeAll
    <3>3. QED
      BY <1>s, <3>1, <3>2
  <2>4. CASE par[n] # nil
    <3>1. PICK p : p = par[n]
      OBVIOUS
    <3>2. p \in S /\ \E e \in TwoSides : ch[p][e] = n
      BY <2>4, <3>1 DEF Rooted
    <3>3. h[n] < h[p]
      BY <3>2 DEF Shaped, Below
    <3>4. Before(S, s, d, io[p], g[p], nil)
      BY <1>1, <3>2, <3>3
    <3>5. Across(d) \in TwoSides
      BY DEF Across, TwoSides
    <3>6. PICK x, y : x = io[ch[p][d]] /\ y = io[ch[p][Across(d)]]
      OBVIOUS
    <3>7. x \in Seq(S) /\ y \in Seq(S)
      <4>1. ch[p][d] \in S \cup {nil} /\ ch[p][Across(d)] \in S \cup {nil}
        BY <3>2, <3>5 DEF Shaped, Below
      <4>2. QED
        BY <3>6, <4>1, NodesUnfold
    <3>8. IsPut(io[p], d, x, p, y)
      BY <3>2, <3>6, PutEither DEF IsPut
    <3>9. CASE ch[p][d] = n
      <4>1. g[n] = g[p] /\ x = io[n]
        BY <2>1, <2>4, <3>1, <3>6, <3>9
      <4> HIDE DEF T
      <4>2. Before(S, s, d, x, g[p], nil)
        BY <3>2, <3>4, <3>7, <3>8, BeforeSame
      <4>3. QED
        BY <4>1, <4>2
    <3>10. CASE ch[p][d] # n
      <4>1. g[n] = p
        BY <2>1, <3>1, <3>10
      <4>2. ch[p][Across(d)] = n
        BY <3>2, <3>10 DEF Across, TwoSides
      <4>3. y = io[n]
        BY <3>6, <4>2
      <4> HIDE DEF T
      <4>4. Before(S, s, d, y, p, nil)
        BY <3>2, <3>4, <3>7, <3>8, BeforeParent
      <4>5. QED
        BY <4>1, <4>3, <4>4
    <3>11. QED
      BY <3>9, <3>10
  <2>5. QED
    BY <2>3, <2>4
<1>2. \A n \in S : (\A m \in S : h[n] < h[m] => m \in T) => n \in T
  BY <1>1
<1>3. S \subseteq T
  <2> HIDE DEF T
  <2>1. QED
    BY <1>2, DownwardInduction
<1>4. QED
  BY <1>3 DEF IsBefore

IsNeighbour(v, s, n, S, d, nil) == Before(S, s, d, <<n>>, v, nil)

\* The neighbour of n: the outermost node from there below its child, or where the
\* climb ends.
LEMMA NeighbourIsBefore ==
  ASSUME NEW ch, NEW par, NEW S, NEW nil, NEW h, NEW N \in Nat, Shaped(ch, par, S, nil, h, N),
         NEW io, IsInOrder(io, ch, S, nil), NEW d \in TwoSides, NEW s,
         NEW f, IsOutermost(f, io, S, Across(d)), NEW g, IsBefore(g, io, s, S, d, nil),
         NEW n \in S
  PROVE  IsNeighbour(IF ch[n][d] # nil THEN f[ch[n][d]] ELSE g[n], s, n, S, d, nil)
<1>1. PICK x, y : x = io[ch[n][d]] /\ y = io[ch[n][Across(d)]]
  OBVIOUS
<1>2. Across(d) \in TwoSides
  BY DEF Across, TwoSides
<1>3. ch[n][d] \in S \cup {nil} /\ ch[n][Across(d)] \in S \cup {nil}
  BY <1>2 DEF Shaped, Below
<1>4. x \in Seq(S) /\ y \in Seq(S)
  BY <1>1, <1>3, NodesUnfold
<1>5. IsPut(io[n], d, x, n, y)
  BY <1>1, PutEither DEF IsPut
<1>6. Before(S, s, d, io[n], g[n], nil)
  BY DEF IsBefore
<1>7. PICK v : v = IF ch[n][d] # nil THEN f[ch[n][d]] ELSE g[n]
  OBVIOUS
<1>8. IF x = <<>> THEN v = g[n] ELSE Outermost(S, x, Across(d), v)
  <2>1. CASE ch[n][d] = nil
    BY <1>1, <1>7, <2>1 DEF IsInOrder
  <2>2. CASE ch[n][d] # nil
    <3>1. ch[n][d] \in S
      BY <1>3, <2>2
    <3>2. Outermost(S, x, Across(d), v)
      BY <1>1, <1>7, <2>2, <3>1 DEF IsOutermost
    <3>3. x # <<>>
      <4>1. ch[n][d] \in Nodes(io, ch[n][d])
        BY <3>1, NodesUnfold
      <4>2. QED
        BY <1>1, <4>1 DEF Nodes, Elements
    <3>4. QED
      BY <3>2, <3>3
  <2>3. QED
    BY <2>1, <2>2
<1>9. Before(S, s, d, <<n>>, v, nil)
  BY <1>4, <1>5, <1>6, <1>8, BeforeNode
<1>10. QED
  BY <1>7, <1>9 DEF IsNeighbour
-----------------------------------------------------------------------------
(* The same by positions. *)

IsCat(u, a, b) ==
  /\ Len(a) \in Nat /\ Len(b) \in Nat /\ Len(u) = Len(a) + Len(b)
  /\ \A k \in 1..Len(a) : u[k] = a[k]
  /\ \A k \in 1..Len(b) : u[Len(a) + k] = b[k]

IsOne(o, m) == Len(o) = 1 /\ o[1] = m

\* What is where in a concatenation ...
LEMMA CatPlaces ==
  ASSUME NEW D, NEW a \in Seq(D), NEW b \in Seq(D)
  PROVE  IsCat(a \o b, a, b)
<1>1. Len(a) \in Nat /\ Len(b) \in Nat
  BY LenProperties
<1>2. /\ Len(a \o b) = Len(a) + Len(b)
      /\ \A k \in 1..(Len(a) + Len(b)) :
           (a \o b)[k] = IF k =< Len(a) THEN a[k] ELSE b[k - Len(a)]
  BY ConcatProperties
<1>3. \A k \in 1..Len(a) : (a \o b)[k] = a[k]
  BY <1>1, <1>2
<1>4. ASSUME NEW k \in 1..Len(b) PROVE (a \o b)[Len(a) + k] = b[k]
  <2>1. Len(a) + k \in 1..(Len(a) + Len(b)) /\ ~(Len(a) + k =< Len(a)) /\ (Len(a) + k) - Len(a) = k
    BY <1>1
  <2>2. QED
    BY <1>2, <2>1
<1>5. QED
  BY <1>1, <1>2, <1>3, <1>4 DEF IsCat

\* ... and in a list of one element.
LEMMA OnePlace == \A m : IsOne(<<m>>, m)
BY DEF IsOne

Ends(s, d, m) == s # <<>> /\ m = IF d = "left" THEN s[1] ELSE s[Len(s)]

\* The outermost element is the first or the last one.
LEMMA OutermostEnds ==
  ASSUME NEW D, NEW s \in Seq(D), NEW d, NEW m, Outermost(D, s, d, m)
  PROVE  Ends(s, d, m)
<1>1. PICK Z \in Seq(D), o \in Seq(D) : o = <<m>> /\ s = Join(d, o, Z)
  BY DEF Outermost
<1>2. IsOne(o, m)
  BY <1>1, OnePlace
<1>3. IsCat(o \o Z, o, Z) /\ IsCat(Z \o o, Z, o)
  BY CatPlaces
<1>4. s = <<>> => Len(s) = 0
  OBVIOUS
<1>5. CASE d = "left"
  <2>1. IsCat(s, o, Z)
    BY <1>1, <1>3, <1>5 DEF Join
  <2>2. Len(s) = 1 + Len(Z) /\ s[1] = m /\ Len(Z) \in Nat
    BY <1>2, <2>1 DEF IsCat, IsOne
  <2>3. QED
    BY <1>4, <1>5, <2>2 DEF Ends
<1>6. CASE d # "left"
  <2>1. IsCat(s, Z, o)
    BY <1>1, <1>3, <1>6 DEF Join
  <2>2. Len(s) = Len(Z) + 1 /\ s[Len(Z) + 1] = m /\ Len(Z) \in Nat
    BY <1>2, <2>1 DEF IsCat, IsOne
  <2>3. QED
    BY <1>4, <1>6, <2>2 DEF Ends
<1>7. QED
  BY <1>5, <1>6

\* v is the element next to position i of s on side d, or nil at the end.
Adjoins(s, i, d, v, nil) ==
  v = IF d = "left" THEN IF i = 1 THEN nil ELSE s[i - 1]
                    ELSE IF i = Len(s) THEN nil ELSE s[i + 1]

\* The element before n, seen from one side, is next to it on that side.
LEMMA NeighbourAdjoins ==
  ASSUME NEW D, NEW s \in Seq(D), Distinct(s), NEW d, NEW nil, NEW i \in DOMAIN s,
         NEW n \in D, n = s[i], NEW v, Before(D, s, d, <<n>>, v, nil)
  PROVE  Adjoins(s, i, d, v, nil)
<1>1. PICK A \in Seq(D), C \in Seq(D) :
        /\ s = Join(d, Join(d, A, <<n>>), C)
        /\ IF A = <<>> THEN v = nil
           ELSE v \in D /\ \E Z \in Seq(D), o \in Seq(D) : o = <<v>> /\ A = Join(d, Z, o)
  BY DEF Before
<1>2. PICK u \in Seq(D) : u = <<n>>
  BY OneElement
<1>3. IsOne(u, n)
  BY <1>2, OnePlace
<1>4. Len(A) \in Nat /\ Len(C) \in Nat /\ Len(s) \in Nat /\ DOMAIN s = 1..Len(s)
  BY LenProperties
<1>5. \A k \in 1..Len(s) : s[k] = n => k = i
  BY <1>4 DEF Distinct
<1>6. i \in 1..Len(s)
  BY <1>4
<1>7. A # <<>> => \E Z \in Seq(D), o \in Seq(D) : IsOne(o, v) /\ A = Join(d, Z, o)
  BY <1>1, OnePlace
<1>8. A = <<>> => v = nil /\ Len(A) = 0
  BY <1>1
<1>9. CASE d = "left"
  <2>1. PICK t \in Seq(D) : t = A \o u
    BY ConcatProperties
  <2>2. s = t \o C
    BY <1>1, <1>2, <1>9, <2>1 DEF Join
  <2>3. IsCat(t, A, u) /\ IsCat(s, t, C)
    BY <2>1, <2>2, CatPlaces
  <2>4. /\ Len(t) = Len(A) + 1 /\ Len(s) = Len(t) + Len(C)
        /\ t[Len(A) + 1] = n /\ \A k \in 1..Len(A) : t[k] = A[k]
        /\ \A k \in 1..Len(t) : s[k] = t[k]
    BY <1>3, <2>3 DEF IsCat, IsOne
  <2>5. s[Len(A) + 1] = n /\ Len(A) + 1 \in 1..Len(s)
    BY <1>4, <2>4
  <2>6. i = Len(A) + 1
    BY <1>5, <2>5
  <2>7. CASE A = <<>>
    BY <1>8, <1>9, <2>6, <2>7 DEF Adjoins
  <2>8. CASE A # <<>>
    <3>1. PICK Z \in Seq(D), o \in Seq(D) : IsOne(o, v) /\ A = Z \o o
      BY <1>7, <1>9, <2>8 DEF Join
    <3>2. IsCat(A, Z, o)
      BY <3>1, CatPlaces
    <3>3. Len(A) = Len(Z) + 1 /\ A[Len(Z) + 1] = v /\ Len(Z) \in Nat
      BY <3>1, <3>2 DEF IsCat, IsOne
    <3>4. Len(A) \in 1..Len(A) /\ Len(A) \in 1..Len(t) /\ A[Len(A)] = v
      BY <2>4, <3>3
    <3>5. s[Len(A)] = v
      BY <2>4, <3>4
    <3>6. i - 1 = Len(A) /\ i # 1
      BY <2>6, <3>3
    <3>7. QED
      BY <1>9, <3>5, <3>6 DEF Adjoins
  <2>9. QED
    BY <2>7, <2>8
<1>10. CASE d # "left"
  <2>1. PICK t \in Seq(D) : t = u \o A
    BY ConcatProperties
  <2>2. s = C \o t
    BY <1>1, <1>2, <1>10, <2>1 DEF Join
  <2>3. IsCat(t, u, A) /\ IsCat(s, C, t)
    BY <2>1, <2>2, CatPlaces
  <2>4. /\ Len(t) = 1 + Len(A) /\ Len(s) = Len(C) + Len(t)
        /\ t[1] = n /\ \A k \in 1..Len(A) : t[1 + k] = A[k]
        /\ \A k \in 1..Len(t) : s[Len(C) + k] = t[k]
    BY <1>3, <2>3 DEF IsCat, IsOne
  <2>5. s[Len(C) + 1] = n /\ Len(C) + 1 \in 1..Len(s)
    BY <1>4, <2>4
  <2>6. i = Len(C) + 1
    BY <1>5, <2>5
  <2>7. CASE A = <<>>
    <3>1. i = Len(s)
      BY <1>4, <1>8, <2>4, <2>6, <2>7
    <3>2. QED
      BY <1>8, <1>10, <2>7, <3>1 DEF Adjoins
  <2>8. CASE A # <<>>
    <3>1. PICK Z \in Seq(D), o \in Seq(D) : IsOne(o, v) /\ A = o \o Z
      BY <1>7, <1>10, <2>8 DEF Join
    <3>2. IsCat(A, o, Z)
      BY <3>1, CatPlaces
    <3>3. Len(A) = 1 + Len(Z) /\ A[1] = v /\ Len(Z) \in Nat
      BY <3>1, <3>2 DEF IsCat, IsOne
    <3>4. t[1 + 1] = v /\ 1 + 1 \in 1..Len(t)
      BY <2>4, <3>3
    <3>5. s[Len(C) + 2] = v
      BY <2>4, <3>4
    <3>6. i + 1 = Len(C) + 2 /\ i # Len(s)
      BY <1>4, <2>4, <2>6, <3>3
    <3>7. QED
      BY <1>10, <3>5, <3>6 DEF Adjoins
  <2>9. QED
    BY <2>7, <2>8
<1>11. QED
  BY <1>9, <1>10
-----------------------------------------------------------------------------
(* The first element of a list that changes at one place. *)

FirstOf(s, nil) == IF s = <<>> THEN nil ELSE s[1]

\* A list starts as its left part does, if that is not empty.
LEMMA FirstOfCat ==
  ASSUME NEW D, NEW a \in Seq(D), NEW b \in Seq(D), NEW nil
  PROVE  FirstOf(a \o b, nil) = IF a = <<>> THEN FirstOf(b, nil) ELSE a[1]
<1>1. IsCat(a \o b, a, b)
  BY CatPlaces
<1>2. CASE a = <<>>
  <2>1. a \o b = b
    BY <1>2, ConcatEmptySeq
  <2>2. QED
    BY <1>2, <2>1
<1>3. CASE a # <<>>
  <2>1. Len(a) \in Nat \ {0}
    BY <1>3, EmptySeq
  <2>2. (a \o b)[1] = a[1] /\ Len(a \o b) # 0
    BY <1>1, <2>1 DEF IsCat
  <2>3. a \o b # <<>>
    BY <2>2
  <2>4. QED
    BY <1>3, <2>2, <2>3 DEF FirstOf
<1>4. QED
  BY <1>2, <1>3

\* The first element of P \o <<n>> \o Q.
LEMMA FirstAround ==
  ASSUME NEW D, NEW P \in Seq(D), NEW Q \in Seq(D), NEW n \in D, NEW nil
  PROVE  FirstOf((P \o <<n>>) \o Q, nil) = IF P = <<>> THEN n ELSE P[1]
<1>1. PICK u \in Seq(D) : u = <<n>> /\ u # <<>>
  BY OneElement
<1>2. u[1] = n
  BY <1>1
<1>3. PICK t \in Seq(D) : t = P \o u
  BY ConcatProperties
<1>4. FirstOf(t, nil) = IF P = <<>> THEN FirstOf(u, nil) ELSE P[1]
  BY <1>3, FirstOfCat
<1>5. FirstOf(u, nil) = n
  BY <1>1, <1>2 DEF FirstOf
<1>6. t # <<>>
  <2>1. IsCat(t, P, u) /\ IsOne(u, n)
    BY <1>1, <1>3, CatPlaces, OnePlace
  <2>2. Len(t) # 0
    BY <2>1 DEF IsCat, IsOne
  <2>3. QED
    BY <2>2
<1>7. FirstOf(t \o Q, nil) = t[1]
  BY <1>6, FirstOfCat
<1>8. t[1] = FirstOf(t, nil)
  BY <1>6 DEF FirstOf
<1>9. QED
  BY <1>1, <1>3, <1>4, <1>5, <1>7, <1>8

\* An element that goes is replaced by the next one, if it was the first.
LEMMA FirstRemoved ==
  ASSUME NEW D, NEW s \in Seq(D), Distinct(s), NEW s2, NEW n \in D, Removes(D, s, s2, n), NEW nil
  PROVE  /\ FirstOf(s, nil) # n => FirstOf(s2, nil) = FirstOf(s, nil)
         /\ FirstOf(s, nil) = n =>
              /\ s # <<>> /\ 1 \in DOMAIN s /\ s[1] = n
              /\ FirstOf(s2, nil) = IF 1 = Len(s) THEN nil ELSE s[1 + 1]
<1>1. PICK P \in Seq(D), Q \in Seq(D) : s = (P \o <<n>>) \o Q /\ s2 = P \o Q
  BY DEF Removes
<1>2. FirstOf(s, nil) = IF P = <<>> THEN n ELSE P[1]
  BY <1>1, FirstAround
<1>3. FirstOf(s2, nil) = IF P = <<>> THEN FirstOf(Q, nil) ELSE P[1]
  BY <1>1, FirstOfCat
<1>4. CASE P # <<>>
  <2>1. n \notin Elements(P)
    BY <1>1, NodeBetween
  <2>2. P[1] # n
    <3>1. Len(P) \in Nat \ {0} /\ DOMAIN P = 1..Len(P)
      BY <1>4, EmptySeq, LenProperties
    <3>2. QED
      BY <2>1, <3>1 DEF Elements
  <2>3. QED
    BY <1>2, <1>3, <1>4, <2>2
<1>5. CASE P = <<>>
  <2>1. PICK u \in Seq(D) : u = <<n>>
    BY OneElement
  <2>2. s = u \o Q
    <3>1. P \o u = u
      BY <1>5, ConcatEmptySeq
    <3>2. QED
      BY <1>1, <2>1, <3>1
  <2>3. IsCat(s, u, Q) /\ IsOne(u, n)
    BY <2>1, <2>2, CatPlaces, OnePlace
  <2>4. /\ Len(Q) \in Nat /\ Len(s) = 1 + Len(Q) /\ s[1] = n
        /\ \A k \in 1..Len(Q) : s[1 + k] = Q[k]
    BY <2>3 DEF IsCat, IsOne
  <2>5. DOMAIN s = 1..Len(s)
    BY LenProperties
  <2>6. s # <<>> /\ 1 \in DOMAIN s
    BY <2>4, <2>5
  <2>7. FirstOf(Q, nil) = IF 1 = Len(s) THEN nil ELSE s[1 + 1]
    <3>1. CASE Q = <<>>
      <4>1. Len(Q) = 0
        BY <3>1
      <4>2. QED
        BY <2>4, <3>1, <4>1 DEF FirstOf
    <3>2. CASE Q # <<>>
      <4>1. Len(Q) \in Nat \ {0}
        BY <3>2, EmptySeq
      <4>2. QED
        BY <2>4, <3>2, <4>1 DEF FirstOf
    <3>3. QED
      BY <3>1, <3>2
  <2>8. QED
    BY <1>2, <1>3, <1>5, <2>4, <2>6, <2>7
<1>6. QED
  BY <1>4, <1>5

\* One that takes the place of another becomes the first if that one was.
LEMMA FirstTraded ==
  ASSUME NEW D, NEW s \in Seq(D), Distinct(s), NEW s2, NEW old \in D, NEW new \in D,
         Trades(D, s, s2, old, new), NEW nil
  PROVE  FirstOf(s2, nil) = IF FirstOf(s, nil) = old THEN new ELSE FirstOf(s, nil)
<1>1. PICK P \in Seq(D), Q \in Seq(D) : s = (P \o <<old>>) \o Q /\ s2 = (P \o <<new>>) \o Q
  BY DEF Trades
<1>2. FirstOf(s, nil) = IF P = <<>> THEN old ELSE P[1]
  BY <1>1, FirstAround
<1>3. FirstOf(s2, nil) = IF P = <<>> THEN new ELSE P[1]
  BY <1>1, FirstAround
<1>4. P # <<>> => P[1] # old
  <2>1. old \notin Elements(P)
    BY <1>1, NodeBetween
  <2>2. P # <<>> => Len(P) \in Nat \ {0} /\ DOMAIN P = 1..Len(P)
    BY EmptySeq, LenProperties
  <2>3. QED
    BY <2>1, <2>2 DEF Elements
<1>5. QED
  BY <1>2, <1>3, <1>4

\* One that comes in next to X is the first if it is on the left and nothing is
\* before X.
LEMMA FirstPut ==
  ASSUME NEW D, NEW s, NEW s2, NEW n \in D, NEW A \in Seq(D), NEW X \in Seq(D), X # <<>>,
         NEW C \in Seq(D), NEW d \in TwoSides, PutsNext(D, s, s2, n, A, X, C, d), NEW nil
  PROVE  FirstOf(s2, nil) = IF d = "left" /\ A = <<>> THEN n ELSE FirstOf(s, nil)
<1>1. PICK P \in Seq(D), Q \in Seq(D) :
        /\ s = P \o Q
        /\ s2 = (P \o <<n>>) \o Q
        /\ d = "left" => P = A /\ Q = X \o C
        /\ d = "right" => P = A \o X /\ Q = C
  BY DEF PutsNext
<1>2. FirstOf(s, nil) = IF P = <<>> THEN FirstOf(Q, nil) ELSE P[1]
  BY <1>1, FirstOfCat
<1>3. FirstOf(s2, nil) = IF P = <<>> THEN n ELSE P[1]
  BY <1>1, FirstAround
<1>4. d = "right" => P # <<>>
  <2>1. SUFFICES ASSUME d = "right" PROVE P # <<>>
    OBVIOUS
  <2>2. IsCat(P, A, X)
    BY <1>1, <2>1, CatPlaces
  <2>3. Len(X) \in Nat \ {0}
    BY EmptySeq
  <2>4. Len(P) # 0
    BY <2>2, <2>3 DEF IsCat
  <2>5. QED
    BY <2>4
<1>5. CASE d = "left"
  BY <1>1, <1>2, <1>3, <1>5
<1>6. CASE d = "right"
  BY <1>2, <1>3, <1>4, <1>6
<1>7. QED
  BY <1>5, <1>6 DEF TwoSides
-----------------------------------------------------------------------------
(* The order of two elements of a list that changes at one place. *)

Precedes(s, a, b) == \E i, j \in DOMAIN s : i =< j /\ s[i] = a /\ s[j] = b

\* Where the elements of s are in s2.
Maps(s, s2, f, n) ==
  \A i \in DOMAIN s : s[i] # n => f[i] \in DOMAIN s2 /\ s2[f[i]] = s[i]

Rises(s, f) == \A i, j \in DOMAIN s : i =< j => f[i] =< f[j]

\* Places mapped without a descent keep the order of what stands there.
LEMMA MapsKeepOrder ==
  ASSUME NEW s, NEW s2, NEW f, NEW n, Maps(s, s2, f, n), Rises(s, f),
         NEW a, NEW b, a # n, b # n, Precedes(s, a, b)
  PROVE  Precedes(s2, a, b)
<1>1. PICK i \in DOMAIN s, j \in DOMAIN s : i =< j /\ s[i] = a /\ s[j] = b
  BY DEF Precedes
<1>2. /\ f[i] \in DOMAIN s2 /\ s2[f[i]] = a /\ f[j] \in DOMAIN s2 /\ s2[f[j]] = b
      /\ f[i] =< f[j]
  BY <1>1 DEF Maps, Rises
<1>3. QED
  BY <1>2 DEF Precedes

\* The places in P \o Q and in P \o <<n>> \o Q.
IsInsertion(s, s2, n, p, q) ==
  /\ p \in Nat /\ q \in Nat
  /\ DOMAIN s = 1..(p + q) /\ DOMAIN s2 = 1..(p + 1 + q)
  /\ s2[p + 1] = n
  /\ \A k \in 1..p : s2[k] = s[k]
  /\ \A k \in 1..q : s2[p + 1 + k] = s[p + k]

\* They are those of an insertion.
LEMMA InsertionPlaces ==
  ASSUME NEW D, NEW P \in Seq(D), NEW Q \in Seq(D), NEW n \in D
  PROVE  IsInsertion(P \o Q, (P \o <<n>>) \o Q, n, Len(P), Len(Q))
<1>1. PICK u \in Seq(D) : u = <<n>>
  BY OneElement
<1>2. PICK t \in Seq(D) : t = P \o u
  BY ConcatProperties
<1>3. PICK s \in Seq(D), s2 \in Seq(D) : s = P \o Q /\ s2 = t \o Q
  BY ConcatProperties
<1>4. IsCat(t, P, u) /\ IsCat(s, P, Q) /\ IsCat(s2, t, Q) /\ IsOne(u, n)
  BY <1>1, <1>2, <1>3, CatPlaces, OnePlace
<1>5. DOMAIN s = 1..Len(s) /\ DOMAIN s2 = 1..Len(s2)
  BY LenProperties
<1>6. /\ Len(P) \in Nat /\ Len(Q) \in Nat
      /\ Len(s) = Len(P) + Len(Q) /\ Len(t) = Len(P) + 1 /\ Len(s2) = Len(t) + Len(Q)
      /\ \A k \in 1..Len(P) : t[k] = P[k] /\ s[k] = P[k]
      /\ t[Len(P) + 1] = n
      /\ \A k \in 1..Len(Q) : s[Len(P) + k] = Q[k] /\ s2[Len(t) + k] = Q[k]
      /\ \A k \in 1..Len(t) : s2[k] = t[k]
  BY <1>4 DEF IsCat, IsOne
<1>7. /\ s2[Len(P) + 1] = n
      /\ \A k \in 1..Len(P) : s2[k] = s[k]
      /\ \A k \in 1..Len(Q) : s2[Len(P) + 1 + k] = s[Len(P) + k]
  BY <1>6
<1>8. IsInsertion(s, s2, n, Len(P), Len(Q))
  BY <1>5, <1>6, <1>7 DEF IsInsertion
<1>9. QED
  BY <1>1, <1>2, <1>3, <1>8

\* An element that comes in ...
LEMMA InsertionKeepsOrder ==
  ASSUME NEW s, NEW s2, NEW n, NEW p, NEW q, IsInsertion(s, s2, n, p, q),
         NEW a, NEW b, a # n, b # n, Precedes(s, a, b)
  PROVE  Precedes(s2, a, b)
<1> DEFINE f == [k \in DOMAIN s |-> IF k =< p THEN k ELSE k + 1]
<1>1. /\ p \in Nat /\ q \in Nat
      /\ DOMAIN s = 1..(p + q) /\ DOMAIN s2 = 1..(p + 1 + q)
      /\ \A k \in 1..p : s2[k] = s[k]
      /\ \A k \in 1..q : s2[p + 1 + k] = s[p + k]
  BY DEF IsInsertion
<1>2. ASSUME NEW k \in DOMAIN s PROVE f[k] \in DOMAIN s2 /\ s2[f[k]] = s[k]
  <2>1. k \in 1..(p + q)
    BY <1>1
  <2>2. CASE k =< p
    BY <1>1, <2>1, <2>2
  <2>3. CASE ~(k =< p)
    <3>1. k - p \in 1..q /\ f[k] = k + 1 /\ k + 1 \in DOMAIN s2
      BY <1>1, <2>1, <2>3
    <3>2. s2[p + 1 + (k - p)] = s[p + (k - p)]
      BY <1>1, <3>1
    <3>3. p + 1 + (k - p) = k + 1 /\ p + (k - p) = k
      BY <1>1, <2>1
    <3>4. QED
      BY <3>1, <3>2, <3>3
  <2>4. QED
    BY <2>2, <2>3
<1>3. Rises(s, f)
  BY <1>1 DEF Rises
<1>4. Maps(s, s2, f, n)
  BY <1>2 DEF Maps
<1> HIDE DEF f
<1>5. QED
  BY <1>3, <1>4, MapsKeepOrder

\* ... or goes ...
LEMMA RemovalKeepsOrder ==
  ASSUME NEW s, NEW s2, NEW n, NEW p, NEW q, IsInsertion(s2, s, n, p, q),
         NEW a, NEW b, a # n, b # n, Precedes(s, a, b)
  PROVE  Precedes(s2, a, b)
<1> DEFINE f == [k \in DOMAIN s |-> IF k =< p THEN k ELSE k - 1]
<1>1. /\ p \in Nat /\ q \in Nat
      /\ DOMAIN s2 = 1..(p + q) /\ DOMAIN s = 1..(p + 1 + q)
      /\ s[p + 1] = n
      /\ \A k \in 1..p : s[k] = s2[k]
      /\ \A k \in 1..q : s[p + 1 + k] = s2[p + k]
  BY DEF IsInsertion
<1>2. ASSUME NEW k \in DOMAIN s, s[k] # n PROVE f[k] \in DOMAIN s2 /\ s2[f[k]] = s[k]
  <2>1. k \in 1..(p + 1 + q) /\ k # p + 1
    BY <1>1, <1>2
  <2>2. CASE k =< p
    BY <1>1, <2>1, <2>2
  <2>3. CASE ~(k =< p)
    <3>1. k - (p + 1) \in 1..q /\ f[k] = k - 1 /\ k - 1 \in DOMAIN s2
      BY <1>1, <2>1, <2>3
    <3>2. s[p + 1 + (k - (p + 1))] = s2[p + (k - (p + 1))]
      BY <1>1, <3>1
    <3>3. p + 1 + (k - (p + 1)) = k /\ p + (k - (p + 1)) = k - 1
      BY <1>1, <2>1
    <3>4. QED
      BY <3>1, <3>2, <3>3
  <2>4. QED
    BY <2>2, <2>3
<1>3. Rises(s, f)
  <2> SUFFICES ASSUME NEW i \in DOMAIN s, NEW j \in DOMAIN s, i =< j PROVE f[i] =< f[j]
    BY DEF Rises
  <2>1. i \in 1..(p + 1 + q) /\ j \in 1..(p + 1 + q)
    BY <1>1
  <2>2. QED
    BY <1>1, <2>1
<1>4. Maps(s, s2, f, n)
  BY <1>2 DEF Maps
<1> HIDE DEF f
<1>5. QED
  BY <1>3, <1>4, MapsKeepOrder

\* ... does not change the order of the others.
LEMMA RemovesKeepsPlaces ==
  ASSUME NEW D, NEW s, NEW s2, NEW n \in D, Removes(D, s, s2, n),
         NEW a, NEW b, a # n, b # n, Precedes(s, a, b)
  PROVE  Precedes(s2, a, b)
<1>1. PICK P \in Seq(D), Q \in Seq(D) : s = (P \o <<n>>) \o Q /\ s2 = P \o Q
  BY DEF Removes
<1>2. IsInsertion(s2, s, n, Len(P), Len(Q))
  BY <1>1, InsertionPlaces
<1>3. QED
  BY <1>2, RemovalKeepsOrder

\* Nodes that were in order stay so when a node is put next to another one ...
LEMMA PutsKeepsPlaces ==
  ASSUME NEW D, NEW s, NEW s2, NEW n \in D, NEW A, NEW X, NEW C, NEW d,
         PutsNext(D, s, s2, n, A, X, C, d),
         NEW a, NEW b, a # n, b # n, Precedes(s, a, b)
  PROVE  Precedes(s2, a, b)
<1>1. PICK P \in Seq(D), Q \in Seq(D) : s = P \o Q /\ s2 = (P \o <<n>>) \o Q
  BY DEF PutsNext
<1>2. IsInsertion(s, s2, n, Len(P), Len(Q))
  BY <1>1, InsertionPlaces
<1>3. QED
  BY <1>2, InsertionKeepsOrder

\* ... and when one node takes the place of another.
LEMMA TradesKeepsPlaces ==
  ASSUME NEW D, NEW s, Distinct(s), NEW s2, NEW old \in D, NEW new \in D,
         new \notin Elements(s), Trades(D, s, s2, old, new),
         NEW a, NEW b, a # old, b # old, Precedes(s, a, b)
  PROVE  Precedes(s2, a, b)
<1>1. s2 = [i \in DOMAIN s |-> IF s[i] = old THEN new ELSE s[i]]
  BY TradesAtPlace
<1>2. DOMAIN s2 = DOMAIN s /\ \A i \in DOMAIN s : s[i] # old => s2[i] = s[i]
  BY <1>1
<1>3. PICK i \in DOMAIN s, j \in DOMAIN s : i =< j /\ s[i] = a /\ s[j] = b
  BY DEF Precedes
<1>4. QED
  BY <1>2, <1>3 DEF Precedes

\* A step along the list: what is behind a is behind its neighbour, but for a.
LEMMA PrecedesNext ==
  ASSUME NEW D, NEW s \in Seq(D), Distinct(s), NEW at \in DOMAIN s, NEW v, NEW nil,
         Adjoins(s, at, "right", v, nil), NEW b, b # s[at], Precedes(s, s[at], b)
  PROVE  Precedes(s, v, b) /\ v \in Elements(s)
<1>1. PICK i \in DOMAIN s, j \in DOMAIN s : i =< j /\ s[i] = s[at] /\ s[j] = b
  BY DEF Precedes
<1>2. i = at /\ j # at
  BY <1>1 DEF Distinct
<1>3. DOMAIN s = 1..Len(s) /\ Len(s) \in Nat
  BY LenProperties
<1>4. at + 1 \in DOMAIN s /\ at + 1 =< j /\ at # Len(s)
  BY <1>1, <1>2, <1>3
<1>5. v = s[at + 1]
  BY <1>4 DEF Adjoins
<1>6. QED
  BY <1>1, <1>4, <1>5 DEF Precedes, Elements

\* The first element precedes all.
LEMMA FirstPrecedes ==
  ASSUME NEW D, NEW s \in Seq(D), NEW nil, NEW b \in Elements(s)
  PROVE  Precedes(s, FirstOf(s, nil), b) /\ FirstOf(s, nil) \in Elements(s)
<1>1. PICK j \in DOMAIN s : s[j] = b
  BY DEF Elements
<1>2. DOMAIN s = 1..Len(s) /\ Len(s) \in Nat
  BY LenProperties
<1>3. 1 \in DOMAIN s /\ 1 =< j /\ s # <<>>
  BY <1>1, <1>2
<1>4. QED
  BY <1>1, <1>3 DEF Precedes, Elements, FirstOf
-----------------------------------------------------------------------------
(* The postorder: the nodes below a node before the node, left before right. *)

\* What is below a node that is below n is below n.
LEMMA BelowBelow ==
  ASSUME NEW ch, NEW par, NEW S, NEW nil, NEW h, NEW N \in Nat, Shaped(ch, par, S, nil, h, N),
         NEW io, IsInOrder(io, ch, S, nil), NEW r, Rooted(ch, par, r, S, nil),
         NEW n \in S, NEW m \in Nodes(io, n)
  PROVE  Nodes(io, m) \subseteq Nodes(io, n)
<1> DEFINE T == {k \in S : k \in Nodes(io, m) => k \in Nodes(io, n)}
<1>1. m \in S
  BY NodesUnfold
<1>2. ASSUME NEW k \in S, \A a \in S : h[k] < h[a] => a \in T, k \in Nodes(io, m)
      PROVE  k \in Nodes(io, n)
  <2>1. CASE k = m
    BY <2>1
  <2>2. CASE k # m
    <3>1. par[k] \in Nodes(io, m) /\ h[k] < h[par[k]] /\ par[k] \in S
      BY <1>1, <1>2, <2>2, NodesBelow, NodesUnfold
    <3>2. par[k] \in Nodes(io, n)
      BY <1>2, <3>1
    <3>3. k # nil /\ par[k] # nil
      BY <3>1 DEF Shaped, Below
    <3>4. PICK d \in TwoSides : ch[par[k]][d] = k
      BY <3>3 DEF Rooted
    <3>5. QED
      BY <3>2, <3>3, <3>4, NodesBelow
  <2>3. QED
    BY <2>1, <2>2
<1>3. S \subseteq T
  <2>1. \A k \in S : (\A a \in S : h[k] < h[a] => a \in T) => k \in T
    BY <1>2
  <2> HIDE DEF T
  <2>2. QED
    BY <2>1, DownwardInduction
<1>4. Nodes(io, m) \subseteq S
  BY <1>1, NodesUnfold
<1>5. QED
  BY <1>3, <1>4

\* Of two nodes with a node below both, one is below the other.
LEMMA Nested ==
  ASSUME NEW ch, NEW par, NEW S, NEW nil, NEW h, NEW N \in Nat, Shaped(ch, par, S, nil, h, N),
         NEW io, IsInOrder(io, ch, S, nil), NEW x \in S, NEW y \in S,
         NEW m, m \in Nodes(io, x), m \in Nodes(io, y)
  PROVE  x \in Nodes(io, y) \/ y \in Nodes(io, x)
<1> DEFINE T == {k \in S : ~(k \in Nodes(io, x) /\ k \in Nodes(io, y))}
<1>1. SUFFICES ASSUME x \notin Nodes(io, y), y \notin Nodes(io, x) PROVE FALSE
  OBVIOUS
<1>2. ASSUME NEW k \in S, \A a \in S : h[k] < h[a] => a \in T,
             k \in Nodes(io, x), k \in Nodes(io, y)
      PROVE  FALSE
  <2>1. k # x /\ k # y
    BY <1>1, <1>2
  <2>2. par[k] \in Nodes(io, x) /\ par[k] \in Nodes(io, y) /\ h[k] < h[par[k]]
    BY <1>2, <2>1, NodesBelow
  <2>3. par[k] \in S
    BY <2>2, NodesUnfold
  <2>4. QED
    BY <1>2, <2>2, <2>3
<1>3. S \subseteq T
  <2>1. \A k \in S : (\A a \in S : h[k] < h[a] => a \in T) => k \in T
    BY <1>2
  <2> HIDE DEF T
  <2>2. QED
    BY <2>1, DownwardInduction
<1>4. m \in S
  BY NodesUnfold
<1>5. QED
  BY <1>3, <1>4

\* The leaf that the way to the left, or else to the right, comes to.
IsLeafWalk(f, ch, S, nil) ==
  \A n \in S :
    f[n] = IF ch[n]["left"] = nil /\ ch[n]["right"] = nil THEN n
           ELSE f[ch[n][IF ch[n]["left"] # nil THEN "left" ELSE "right"]]

\* m comes first of the nodes below n.
Foremost(ch, io, nil, n, m) ==
  /\ m \in Nodes(io, n)
  /\ \A d \in TwoSides : ch[m][d] = nil
  /\ \A a \in Nodes(io, n) : m \in Nodes(io, ch[a]["right"]) => ch[a]["left"] = nil

\* The leaf a descent to the left, or else to the right, ends at is the foremost leaf below
\* every node of the tree.
LEMMA LeafWalkIsForemost ==
  ASSUME NEW ch, NEW par, NEW S, NEW nil, NEW h, NEW N \in Nat, Shaped(ch, par, S, nil, h, N),
         NEW io, IsInOrder(io, ch, S, nil), NEW r, Rooted(ch, par, r, S, nil),
         NEW f, IsLeafWalk(f, ch, S, nil)
  PROVE  \A n \in S : Foremost(ch, io, nil, n, f[n])
<1> DEFINE T == {n \in S : Foremost(ch, io, nil, n, f[n])}
<1>1. ASSUME NEW n \in S, \A d \in TwoSides : ch[n][d] # nil => ch[n][d] \in T
      PROVE  Foremost(ch, io, nil, n, f[n])
  <2>1. PICK x, y : x = ch[n]["left"] /\ y = ch[n]["right"]
    OBVIOUS
  <2>2. Nodes(io, n) = Nodes(io, x) \cup {n} \cup Nodes(io, y) /\ Nodes(io, nil) = {}
    BY <2>1, NodesUnfold
  <2>3. Nodes(io, x) \cap Nodes(io, y) = {}
    BY <2>1, SidesApart
  <2>4. x \in S \cup {nil} /\ y \in S \cup {nil} /\ nil \notin S
    BY <2>1 DEF Shaped, Below, TwoSides
  <2>5. CASE x = nil /\ y = nil
    <3>1. f[n] = n
      BY <2>1, <2>5 DEF IsLeafWalk
    <3>2. Nodes(io, n) = {n}
      BY <2>2, <2>5
    <3>3. QED
      BY <2>1, <2>2, <2>5, <3>1, <3>2 DEF Foremost, TwoSides
  <2>6. ASSUME NEW k, NEW o, k # nil, {k, o} = {x, y}, f[n] = f[k], k = y => x = nil
        PROVE  Foremost(ch, io, nil, n, f[n])
    <3>1. k \in S /\ Foremost(ch, io, nil, k, f[k])
      BY <1>1, <2>1, <2>6 DEF TwoSides
    <3>2. f[k] \in Nodes(io, k)
      BY <3>1 DEF Foremost
    <3>3. f[k] \in Nodes(io, n)
      BY <2>2, <2>6, <3>2
    <3>4. ASSUME NEW a \in Nodes(io, n), f[k] \in Nodes(io, ch[a]["right"])
          PROVE  ch[a]["left"] = nil
      <4>1. CASE a = n
        <5>1. f[k] \in Nodes(io, y)
          BY <2>1, <3>4, <4>1
        <5>2. k = y
          BY <2>3, <2>6, <3>2, <5>1
        <5>3. QED
          BY <2>1, <2>6, <4>1, <5>2
      <4>2. CASE a \in Nodes(io, k)
        BY <2>6, <3>1, <3>4, <4>2 DEF Foremost
      <4>3. CASE a \in Nodes(io, o)
        <5>1. o \in S
          BY <2>2, <2>4, <2>6, <4>3
        <5>2. ch[a]["right"] # nil
          BY <2>2, <3>4
        <5>3. ch[a]["right"] \in Nodes(io, o)
          BY <4>3, <5>1, <5>2, NodesBelow DEF TwoSides
        <5>4. Nodes(io, ch[a]["right"]) \subseteq Nodes(io, o)
          BY <5>1, <5>3, BelowBelow
        <5>5. f[k] \in Nodes(io, k) \cap Nodes(io, o)
          BY <3>2, <3>4, <5>4
        <5>6. k = o
          BY <2>3, <2>6, <5>5
        <5>7. QED
          BY <2>2, <2>3, <2>6, <3>2, <5>6
      <4>4. QED
        BY <2>2, <2>6, <4>1, <4>2, <4>3
    <3>5. QED
      BY <2>6, <3>1, <3>3, <3>4 DEF Foremost
  <2>7. CASE x # nil
    <3>1. f[n] = f[x]
      BY <2>1, <2>7 DEF IsLeafWalk
    <3>2. x = y => x = nil
      BY <2>1, <2>7 DEF Shaped
    <3>3. QED
      BY <2>6, <2>7, <3>1, <3>2
  <2>8. CASE x = nil /\ y # nil
    <3>1. f[n] = f[y]
      BY <2>1, <2>8 DEF IsLeafWalk
    <3>2. QED
      BY <2>6, <2>8, <3>1
  <2>9. QED
    BY <2>5, <2>7, <2>8
<1>2. S \subseteq T
  <2>1. \A n \in S : (\A d \in TwoSides : ch[n][d] # nil => ch[n][d] \in T) => n \in T
    BY <1>1
  <2> HIDE DEF T
  <2>2. QED
    BY <2>1, UpwardInduction
<1>3. QED
  BY <1>2

\* What a postorder leaves has no node without its parent, and is whole on the right
\* where it is not done on the left.
Unspoilt(ch, par, io, nil, T) ==
  /\ \A n \in T : par[n] # nil => par[n] \in T
  /\ \A n \in T : ch[n]["left"] \in T => Nodes(io, ch[n]["right"]) \subseteq T

\* T is what is left of a postorder that has come to c.
Remains(ch, par, S, io, nil, c, T) ==
  /\ T \subseteq S
  /\ Unspoilt(ch, par, io, nil, T)
  /\ c \in T /\ \A d \in TwoSides : ch[c][d] \notin T
  /\ \A n \in S : c \in Nodes(io, ch[n]["right"]) => ch[n]["left"] \notin T

\* At the start that is the whole tree, ...
LEMMA PostorderStarts ==
  ASSUME NEW ch, NEW par, NEW S, NEW nil, NEW h, NEW N \in Nat, Shaped(ch, par, S, nil, h, N),
         NEW io, IsInOrder(io, ch, S, nil), NEW r \in S, Rooted(ch, par, r, S, nil),
         NEW c, Foremost(ch, io, nil, r, c)
  PROVE  Remains(ch, par, S, io, nil, c, S)
<1>1. nil \notin S /\ Nodes(io, r) = S
  BY WalkMeetsAll DEF Shaped, Below
<1>2. \A n \in S : par[n] # nil => par[n] \in S
  BY DEF Rooted
<1>3. c \in S /\ \A d \in TwoSides : ch[c][d] \notin S
  BY <1>1 DEF Foremost
<1>4. \A n \in S : Nodes(io, ch[n]["right"]) \subseteq S
  BY NodesUnfold
<1>5. \A n \in S : c \in Nodes(io, ch[n]["right"]) => ch[n]["left"] \notin S
  BY <1>1 DEF Foremost
<1>6. QED
  BY <1>2, <1>3, <1>4, <1>5 DEF Remains, Unspoilt

\* ... and what is left after a node is of that kind, ...
LEMMA PostorderLeaves ==
  ASSUME NEW ch, NEW par, NEW S, NEW nil, NEW h, NEW N \in Nat, Shaped(ch, par, S, nil, h, N),
         NEW r, Rooted(ch, par, r, S, nil),
         NEW io, NEW c, NEW T, Remains(ch, par, S, io, nil, c, T)
  PROVE  Unspoilt(ch, par, io, nil, T \ {c})
<1>1. ASSUME NEW n \in T \ {c}, par[n] # nil PROVE par[n] \in T \ {c}
  <2>1. n \in S /\ par[n] \in T
    BY <1>1 DEF Remains, Unspoilt
  <2>2. PICK d \in TwoSides : ch[par[n]][d] = n
    BY <1>1, <2>1 DEF Rooted
  <2>3. par[n] # c
    BY <2>2 DEF Remains, Unspoilt
  <2>4. QED
    BY <2>1, <2>3
<1>2. ASSUME NEW n \in T \ {c}, ch[n]["left"] \in T \ {c}
      PROVE  Nodes(io, ch[n]["right"]) \subseteq T \ {c}
  <2>1. n \in S /\ Nodes(io, ch[n]["right"]) \subseteq T
    BY <1>2 DEF Remains, Unspoilt
  <2>2. c \notin Nodes(io, ch[n]["right"])
    BY <1>2, <2>1 DEF Remains, Unspoilt
  <2>3. QED
    BY <2>1, <2>2
<1>3. QED
  BY <1>1, <1>2 DEF Unspoilt

\* ... so that the next node is the parent, ...
LEMMA PostorderUp ==
  ASSUME NEW ch, NEW par, NEW S, NEW nil, NEW h, NEW N \in Nat, Shaped(ch, par, S, nil, h, N),
         NEW io, IsInOrder(io, ch, S, nil), NEW r, Rooted(ch, par, r, S, nil),
         NEW c, NEW T, Remains(ch, par, S, io, nil, c, T), par[c] # nil,
         ~(ch[par[c]]["left"] = c /\ ch[par[c]]["right"] # nil)
  PROVE  Remains(ch, par, S, io, nil, par[c], T \ {c})
<1>1. c \in S /\ c \in T /\ par[c] \in T /\ T \subseteq S
  BY DEF Remains, Unspoilt
<1>2. PICK p : p = par[c]
  OBVIOUS
<1>3. p \in S /\ c # nil /\ nil \notin S
  BY <1>1, <1>2 DEF Shaped, Below
<1>4. PICK d \in TwoSides : ch[p][d] = c
  BY <1>1, <1>2 DEF Rooted
<1>5. c \in Nodes(io, c) /\ p \in Nodes(io, p) /\ p # c
  <2>1. h[c] < h[p] /\ h[c] \in Nat /\ h[p] \in Nat
    BY <1>1, <1>3, <1>4 DEF Shaped, Below
  <2>2. QED
    BY <1>1, <1>3, <2>1, NodesBelow
<1>6. \A e \in TwoSides : ch[p][e] \notin T \ {c}
  <2>1. CASE ch[p]["left"] = c
    BY <1>1, <1>2, <1>3, <2>1 DEF TwoSides
  <2>2. CASE ch[p]["right"] = c
    <3>1. ch[p]["left"] \notin T
      BY <1>3, <1>5, <2>2 DEF Remains, Unspoilt
    <3>2. QED
      BY <2>2, <3>1 DEF TwoSides
  <2>3. QED
    BY <1>4, <2>1, <2>2 DEF TwoSides
<1>7. ASSUME NEW n \in S, p \in Nodes(io, ch[n]["right"]) PROVE ch[n]["left"] \notin T \ {c}
  <2>1. ch[n]["right"] \in S
    <3>1. ch[n]["right"] # nil
      BY <1>7, NodesUnfold
    <3>2. QED
      BY <3>1 DEF Shaped, Below, TwoSides
  <2>2. c \in Nodes(io, ch[n]["right"])
    BY <1>3, <1>4, <1>7, <2>1, NodesBelow
  <2>3. QED
    BY <2>2 DEF Remains, Unspoilt
<1>8. Unspoilt(ch, par, io, nil, T \ {c})
  BY PostorderLeaves
<1>9. QED
  BY <1>1, <1>2, <1>5, <1>6, <1>7, <1>8 DEF Remains

\* ... or the foremost below the right sibling, ...
LEMMA PostorderAcross ==
  ASSUME NEW ch, NEW par, NEW S, NEW nil, NEW h, NEW N \in Nat, Shaped(ch, par, S, nil, h, N),
         NEW io, IsInOrder(io, ch, S, nil), NEW r, Rooted(ch, par, r, S, nil),
         NEW c, NEW T, Remains(ch, par, S, io, nil, c, T), par[c] # nil,
         ch[par[c]]["left"] = c, ch[par[c]]["right"] # nil,
         NEW m, Foremost(ch, io, nil, ch[par[c]]["right"], m)
  PROVE  Remains(ch, par, S, io, nil, m, T \ {c})
<1>1. c \in S /\ c \in T /\ par[c] \in T /\ T \subseteq S
  BY DEF Remains, Unspoilt
<1>2. PICK p, s : p = par[c] /\ s = ch[p]["right"]
  OBVIOUS
<1>3. p \in S /\ s \in S /\ c # nil /\ nil \notin S
  BY <1>1, <1>2 DEF Shaped, Below, TwoSides
<1>4. Foremost(ch, io, nil, s, m) /\ m \in Nodes(io, s)
  BY <1>2 DEF Foremost
<1>5. Nodes(io, s) \subseteq T
  BY <1>1, <1>2 DEF Remains, Unspoilt
<1>6. c \notin Nodes(io, s)
  <2>1. c \in Nodes(io, ch[p]["left"])
    BY <1>1, <1>2, NodesBelow
  <2>2. QED
    BY <1>2, <1>3, <2>1, SidesApart
<1>7. m \in T \ {c} /\ \A d \in TwoSides : ch[m][d] \notin T \ {c}
  BY <1>1, <1>3, <1>4, <1>5, <1>6 DEF Foremost
<1>8. ASSUME NEW n \in S, m \in Nodes(io, ch[n]["right"]) PROVE ch[n]["left"] \notin T \ {c}
  <2>1. PICK x : x = ch[n]["right"]
    OBVIOUS
  <2>2. x # nil /\ m \in Nodes(io, x)
    BY <1>8, <2>1, NodesUnfold
  <2>3. x \in S /\ par[x] = n
    BY <2>1, <2>2 DEF Shaped, Below, TwoSides
  <2>4. CASE n = p
    BY <1>2, <2>4
  <2>5. CASE n \in Nodes(io, s)
    <3>1. ch[n]["left"] = nil
      BY <1>4, <1>8, <2>5 DEF Foremost
    <3>2. QED
      BY <1>1, <1>3, <3>1
  <2>6. CASE n # p /\ n \notin Nodes(io, s)
    <3>1. s \in Nodes(io, x) \/ x \in Nodes(io, s)
      BY <1>3, <1>4, <2>2, <2>3, Nested
    <3>2. par[s] = p
      BY <1>2, <1>3 DEF Shaped, TwoSides
    <3>3. x # s
      BY <2>3, <2>6, <3>2
    <3>4. x \notin Nodes(io, s)
      BY <1>3, <2>3, <2>6, <3>3, NodesBelow
    <3>5. p \in Nodes(io, x)
      BY <2>3, <3>1, <3>2, <3>3, <3>4, NodesBelow
    <3>6. c \in Nodes(io, x)
      BY <1>2, <1>3, <2>3, <3>5, NodesBelow DEF TwoSides
    <3>7. QED
      BY <2>1, <3>6 DEF Remains, Unspoilt
  <2>7. QED
    BY <2>4, <2>5, <2>6
<1>9. Unspoilt(ch, par, io, nil, T \ {c})
  BY PostorderLeaves
<1>10. QED
  BY <1>1, <1>7, <1>8, <1>9 DEF Remains

\* ... and after the root nothing is left.
LEMMA PostorderEnds ==
  ASSUME NEW ch, NEW par, NEW S, NEW nil, NEW h, NEW N \in Nat, Shaped(ch, par, S, nil, h, N),
         NEW r, Rooted(ch, par, r, S, nil),
         NEW io, NEW c, NEW T, Remains(ch, par, S, io, nil, c, T), par[c] = nil
  PROVE  T = {c}
<1> DEFINE W == {n \in S : n \in T => n = c}
<1>1. c \in T /\ T \subseteq S /\ c = r
  BY DEF Remains, Rooted
<1>2. ASSUME NEW n \in S, \A a \in S : h[n] < h[a] => a \in W, n \in T PROVE n = c
  <2>1. CASE par[n] = nil
    BY <1>1, <2>1 DEF Rooted
  <2>2. CASE par[n] # nil
    <3>1. par[n] \in T /\ par[n] \in S
      BY <1>2, <2>2 DEF Remains, Unspoilt
    <3>2. PICK d \in TwoSides : ch[par[n]][d] = n
      BY <2>2 DEF Rooted
    <3>3. h[n] < h[par[n]]
      BY <3>1, <3>2 DEF Shaped, Below
    <3>4. par[n] = c
      BY <1>2, <3>1, <3>3
    <3>5. QED
      BY <1>2, <3>2, <3>4 DEF Remains, Unspoilt
  <2>3. QED
    BY <2>1, <2>2
<1>3. S \subseteq W
  <2>1. \A n \in S : (\A a \in S : h[n] < h[a] => a \in W) => n \in W
    BY <1>2
  <2> HIDE DEF W
  <2>2. QED
    BY <2>1, DownwardInduction
<1>4. QED
  BY <1>1, <1>3

ChildMap(ch, Node, nil) == nil \notin Node /\ ch \in [Node -> [TwoSides -> Node \cup {nil}]]

\* rb_left_deepest_node as a loop with a budget of turns.
LeafTurn(w, k, m, ch, leaf, nil) ==
  IF k = 0 \/ ch[m] = leaf THEN m
  ELSE w[k - 1][ch[m][IF ch[m]["left"] # nil THEN "left" ELSE "right"]]

LeafTurns(w, M, ch, leaf, nil, N) ==
  [k \in 0..N |-> [m \in M |-> LeafTurn(w, k, m, ch, leaf, nil)]]

LeafWalk(M, ch, leaf, nil, N) == CHOOSE w : w = LeafTurns(w, M, ch, leaf, nil, N)

\* The loop comes to a leaf within the budget, since the heights drop.
LEMMA LeafWalkUnfolds ==
  ASSUME NEW Node, NEW nil, NEW N \in Nat, NEW ch, ChildMap(ch, Node, nil),
         NEW S \in SUBSET Node, NEW h, \A n \in S : h[n] \in 1..N, Below(ch, S, nil, h)
  PROVE  IsLeafWalk(LeafWalk(Node, ch, [d \in TwoSides |-> nil], nil, N)[N], ch, S, nil)
<1> DEFINE leaf == [d \in TwoSides |-> nil]
    stop == [m \in Node |-> ch[m] = leaf]
    out == [m \in Node |-> m]
    go == [m \in Node |-> ch[m][IF ch[m]["left"] # nil THEN "left" ELSE "right"]]
<1>0. \A m \in Node : ch[m] = leaf <=> ch[m]["left"] = nil /\ ch[m]["right"] = nil
  <2> SUFFICES ASSUME NEW m \in Node
               PROVE  ch[m] = leaf <=> ch[m]["left"] = nil /\ ch[m]["right"] = nil
    OBVIOUS
  <2>1. ch[m] \in [TwoSides -> Node \cup {nil}]
    BY DEF ChildMap
  <2>2. ch[m] = [d \in TwoSides |-> ch[m][d]]
    BY <2>1
  <2>3. QED
    BY <2>2 DEF TwoSides
<1>2. \A w : ChaseTurns(w, Node, stop, out, go, N) = LeafTurns(w, Node, ch, leaf, nil, N)
  BY DEF ChaseTurns, ChaseTurn, LeafTurns, LeafTurn
<1>3. PICK v : v = ChaseTurns(v, Node, stop, out, go, N)
  <2> HIDE DEF stop, out, go
  <2>1. QED
    BY ChaseSolution
<1>4. v = LeafTurns(v, Node, ch, leaf, nil, N)
  BY <1>2, <1>3
<1>5. PICK w : w = LeafWalk(Node, ch, leaf, nil, N)
  OBVIOUS
<1>6. w = LeafTurns(w, Node, ch, leaf, nil, N)
  <2> HIDE DEF leaf
  <2>1. QED
    BY <1>4, <1>5 DEF LeafWalk
<1>7. IsChase(w, Node, stop, out, go, N)
  BY <1>2, <1>6 DEF IsChase
<1>8. Approaches(S, stop, go, h, N)
  <2> SUFFICES ASSUME NEW m \in S
               PROVE  /\ h[m] \in 0..N
                      /\ ~stop[m] => go[m] \in S /\ h[go[m]] < h[m]
    BY DEF Approaches
  <2>1. ~stop[m] => ch[m]["left"] # nil \/ ch[m]["right"] # nil
    BY <1>0
  <2>2. \A d \in TwoSides : ch[m][d] # nil => ch[m][d] \in S /\ h[ch[m][d]] < h[m]
    BY DEF Below
  <2>3. go[m] = ch[m][IF ch[m]["left"] # nil THEN "left" ELSE "right"] /\ h[m] \in 1..N
    OBVIOUS
  <2>4. QED
    BY <2>1, <2>2, <2>3 DEF TwoSides
<1>9. ChasesTo(w[N], S, stop, out, go)
  <2> HIDE DEF stop, out, go
  <2>1. QED
    BY <1>7, <1>8, ChaseEnds
<1>10. QED
  <2> SUFFICES ASSUME NEW n \in S
               PROVE  w[N][n] = IF ch[n]["left"] = nil /\ ch[n]["right"] = nil THEN n
                                ELSE w[N][ch[n][IF ch[n]["left"] # nil THEN "left" ELSE "right"]]
    BY <1>5 DEF IsLeafWalk
  <2>1. w[N][n] = IF ch[n] = leaf THEN n
                  ELSE w[N][ch[n][IF ch[n]["left"] # nil THEN "left" ELSE "right"]]
    BY <1>9 DEF ChasesTo
  <2>2. QED
    BY <1>0, <2>1

\* The elements of a list are what it is a list of.
LEMMA ElementsIn ==
  ASSUME NEW D, NEW s \in Seq(D)
  PROVE  Elements(s) \subseteq D
<1>1. \A i \in DOMAIN s : s[i] \in D
  BY LenProperties, ElementOfSeq
<1>2. QED
  BY <1>1 DEF Elements

\* A node with a part before it and one behind it is in the list, at its place.
LEMMA NodeInIt ==
  ASSUME NEW D, NEW s, NEW P, NEW n, NEW Q, NodeAt(D, s, P, n, Q)
  PROVE  n \in Elements(s)
<1>1. P \in Seq(D) /\ Q \in Seq(D) /\ s = (P \o <<n>>) \o Q
  BY DEF NodeAt
<1>2. PICK E : E = D \cup {n}
  OBVIOUS
<1>3. P \in Seq(E) /\ Q \in Seq(E) /\ n \in E
  <2>1. D \subseteq E
    BY <1>2
  <2>2. Seq(D) \subseteq Seq(E)
    BY <2>1, SeqMonotonic
  <2>3. QED
    BY <1>1, <1>2, <2>2
<1>4. QED
  BY <1>1, <1>3, NodeBetween
-----------------------------------------------------------------------------
(* Loops that go down a tree and carry something along. *)

\* G has what is right after so many turns: at a null pointer always, and at a node after
\* one turn more than at its children.
GoesUp(G, ch, S, nil, N) ==
  /\ \A k \in 0..N : <<k, nil>> \in G
  /\ \A k \in 1..N, n \in S :
       (\A d \in TwoSides : <<k - 1, ch[n][d]>> \in G) => <<k, n>> \in G

\* Then it has every node with the whole budget.
LEMMA WithinBudget ==
  ASSUME NEW ch, NEW par, NEW S, NEW nil, NEW h, NEW N \in Nat, Shaped(ch, par, S, nil, h, N),
         NEW G, GoesUp(G, ch, S, nil, N)
  PROVE  \A n \in S \cup {nil} : <<N, n>> \in G
<1> DEFINE T == {r \in Nat : \A k \in 0..N, n \in S : h[n] =< r /\ r =< k => <<k, n>> \in G}
<1>a. /\ Below(ch, S, nil, h)
      /\ \A n \in S : h[n] \in 1..N
  BY DEF Shaped
<1>b. /\ \A k \in 0..N : <<k, nil>> \in G
      /\ \A k \in 1..N, n \in S :
           (\A d \in TwoSides : <<k - 1, ch[n][d]>> \in G) => <<k, n>> \in G
  BY DEF GoesUp
<1>1. 0 \in T
  BY <1>a
<1>2. ASSUME NEW r \in Nat, r \in T PROVE r + 1 \in T
  <2>1. SUFFICES ASSUME NEW k \in 0..N, NEW n \in S, h[n] =< r + 1, r + 1 =< k
                 PROVE  <<k, n>> \in G
    OBVIOUS
  <2>2. k \in 1..N /\ k - 1 \in 0..N /\ r =< k - 1
    BY <2>1
  <2>3. ASSUME NEW d \in TwoSides PROVE <<k - 1, ch[n][d]>> \in G
    <3>1. CASE ch[n][d] = nil
      BY <1>b, <2>2, <3>1
    <3>2. CASE ch[n][d] # nil
      <4>1. PICK c : c = ch[n][d]
        OBVIOUS
      <4>2. c \in S /\ h[c] < h[n]
        BY <1>a, <3>2, <4>1 DEF Below
      <4>3. h[c] \in 1..N /\ h[n] \in 1..N
        BY <1>a, <4>2
      <4>4. h[c] =< r
        BY <2>1, <4>2, <4>3
      <4>5. QED
        BY <1>2, <2>2, <4>1, <4>2, <4>4
    <3>3. QED
      BY <3>1, <3>2
  <2>4. QED
    BY <1>b, <2>2, <2>3
<1>3. N \in T
  <2> HIDE DEF T
  <2>1. QED
    BY <1>1, <1>2, Induction
<1>4. QED
  BY <1>a, <1>b, <1>3

\* The recursion of a loop that carries x along.
CarryTurn(w, k, n, x, stop, out, go, to) ==
  IF k = 0 \/ stop[n][x] THEN out[n][x] ELSE w[k - 1][go[n][x]][to[n][x]]

CarryTurns(w, M, X, stop, out, go, to, N) ==
  [k \in 0..N |-> [n \in M |-> [x \in X |-> CarryTurn(w, k, n, x, stop, out, go, to)]]]

Carrying(M, X, R, stop, out, go, to) ==
  /\ out \in [M -> [X -> R]]
  /\ \A n \in M, x \in X : ~stop[n][x] => go[n][x] \in M /\ to[n][x] \in X

\* It has a solution.
LEMMA CarrySolution ==
  ASSUME NEW M, NEW X, NEW R, NEW stop, NEW out, NEW go, NEW to,
         Carrying(M, X, R, stop, out, go, to), NEW N \in Nat
  PROVE  \E w : w = CarryTurns(w, M, X, stop, out, go, to, N)
<1> DEFINE D == [M -> [X -> R]]
           Turn(v, n, x) == IF stop[n][x] THEN out[n][x] ELSE v[go[n][x]][to[n][x]]
           F == [v \in D |-> [n \in M |-> [x \in X |-> Turn(v, n, x)]]]
<1>1. out \in D
  BY DEF Carrying
<1>2. ASSUME NEW v \in D
      PROVE  F[v] \in D /\ \A n \in M, x \in X : F[v][n][x] = Turn(v, n, x)
  <2>1. \A n \in M, x \in X : Turn(v, n, x) \in R
    <3> TAKE n \in M, x \in X
    <3>1. CASE stop[n][x]
      BY <3>1 DEF Carrying
    <3>2. CASE ~stop[n][x]
      <4>1. go[n][x] \in M /\ to[n][x] \in X
        BY <3>2 DEF Carrying
      <4>2. QED
        BY <3>2, <4>1
    <3>3. QED
      BY <3>1, <3>2
  <2> HIDE DEF Turn
  <2>2. QED
    BY <2>1
<1>3. F \in [D -> D]
  BY <1>2
<1>4. PICK w : Iteration(w, D, out, F, N)
  <2> HIDE DEF D, F
  <2>1. QED
    BY <1>1, <1>3, Iterates
<1>5. ASSUME NEW k \in 0..N, NEW n \in M, NEW x \in X
      PROVE  w[k][n][x] = CarryTurn(w, k, n, x, stop, out, go, to)
  <2>1. CASE k = 0
    BY <1>4, <2>1 DEF Iteration, CarryTurn
  <2>2. CASE k # 0
    <3>1. k \in 1..N /\ k - 1 \in 0..N
      BY <2>2
    <3>2. w[k] = F[w[k - 1]] /\ w[k - 1] \in D
      BY <1>4, <3>1 DEF Iteration
    <3>3. PICK v : v = w[k - 1]
      OBVIOUS
    <3>4. w[k][n][x] = Turn(v, n, x)
      <4> HIDE DEF F, D, Turn
      <4>1. v \in D /\ w[k] = F[v]
        BY <3>2, <3>3
      <4>2. F[v][n][x] = Turn(v, n, x)
        BY <1>2, <4>1
      <4>3. QED
        BY <4>1, <4>2
    <3>5. QED
      BY <2>2, <3>3, <3>4 DEF CarryTurn
  <2>3. QED
    BY <2>1, <2>2
<1>6. w = [k \in 0..N |-> [n \in M |-> [x \in X |-> w[k][n][x]]]]
  <2>1. w = [k \in 0..N |-> w[k]] /\ \A k \in 0..N : w[k] \in D
    BY <1>4 DEF Iteration
  <2>2. \A v \in D : v = [n \in M |-> [x \in X |-> v[n][x]]]
    OBVIOUS
  <2> HIDE DEF D
  <2>3. QED
    BY <2>1, <2>2
<1>7. w = CarryTurns(w, M, X, stop, out, go, to, N)
  BY <1>5, <1>6 DEF CarryTurns
<1>8. QED
  BY <1>7

\* What follows of each turn from the solution that CHOOSE takes.
CarryWalk(M, X, stop, out, go, to, N) ==
  CHOOSE w : w = CarryTurns(w, M, X, stop, out, go, to, N)

LEMMA CarryUnfolds ==
  ASSUME NEW M, NEW X, NEW R, NEW stop, NEW out, NEW go, NEW to,
         Carrying(M, X, R, stop, out, go, to), NEW N \in Nat
  PROVE  \A k \in 0..N, n \in M, x \in X :
           CarryWalk(M, X, stop, out, go, to, N)[k][n][x]
             = CarryTurn(CarryWalk(M, X, stop, out, go, to, N), k, n, x, stop, out, go, to)
<1>1. PICK w : w = CarryWalk(M, X, stop, out, go, to, N)
  OBVIOUS
<1>2. w = CarryTurns(w, M, X, stop, out, go, to, N)
  BY <1>1, CarrySolution DEF CarryWalk
<1>3. \A k \in 0..N, n \in M, x \in X : w[k][n][x] = CarryTurn(w, k, n, x, stop, out, go, to)
  BY <1>2 DEF CarryTurns
<1>4. QED
  BY <1>1, <1>3

\* x is the first element of s of which T has some, m stands in for none.
IsFirstOf(D, s, T, x, m) ==
  IF Elements(s) \cap T = {} THEN x = m
  ELSE /\ x \in T
       /\ \E P, Q : NodeAt(D, s, P, x, Q) /\ Elements(P) \cap T = {}

\* The first one in a list with a node between two parts.
FirstOn(D, A, n, C, s, T, x, m) ==
  /\ (n \in T \/ Elements(C) \cap T = {}) /\ IsFirstOf(D, A, T, x, IF n \in T THEN n ELSE m)
       => IsFirstOf(D, s, T, x, m)
  /\ Elements(A) \cap T = {} /\ n \notin T /\ IsFirstOf(D, C, T, x, m) => IsFirstOf(D, s, T, x, m)

LEMMA FirstBetween ==
  ASSUME NEW D, NEW A, NEW n \in D, NEW C, NEW s, NodeAt(D, s, A, n, C), NEW T, NEW x, NEW m
  PROVE  FirstOn(D, A, n, C, s, T, x, m)
<1>0. A \in Seq(D) /\ C \in Seq(D) /\ s = (A \o <<n>>) \o C
  BY DEF NodeAt
<1>1. PICK o \in Seq(D) : o = <<n>> /\ Elements(o) = {n}
  BY OneElement
<1>2. Elements(s) = Elements(A) \cup {n} \cup Elements(C)
  BY <1>0, NodeBetween
<1>3. ASSUME n \in T \/ Elements(C) \cap T = {}, IsFirstOf(D, A, T, x, IF n \in T THEN n ELSE m)
      PROVE  IsFirstOf(D, s, T, x, m)
  <2>1. CASE Elements(A) \cap T # {}
    <3>1. PICK P, Q : NodeAt(D, A, P, x, Q) /\ Elements(P) \cap T = {}
      BY <1>3, <2>1 DEF IsFirstOf
    <3>2. x \in T /\ Elements(s) \cap T # {}
      BY <1>2, <1>3, <2>1 DEF IsFirstOf
    <3>3. x \in D
      <4>1. x \in Elements(A)
        BY <3>1, NodeInIt
      <4>2. QED
        BY <1>0, <4>1, ElementsIn
    <3>4. PICK u \in Seq(D) : u = <<x>>
      BY <3>3, OneElement
    <3>5. P \in Seq(D) /\ Q \in Seq(D) /\ A = (P \o u) \o Q
      BY <3>1, <3>4 DEF NodeAt
    <3>6. s = (P \o u) \o (Q \o (o \o C)) /\ Q \o (o \o C) \in Seq(D)
      <4>1. Cat(P, u) \in Seq(D) /\ Cat(o, C) \in Seq(D) /\ Cat(Q, Cat(o, C)) \in Seq(D)
        BY <1>0, <1>1, <3>4, <3>5, ConcatProperties DEF Cat
      <4>2. s = Cat(Cat(A, o), C) /\ A = Cat(Cat(P, u), Q)
        BY <1>0, <1>1, <3>5 DEF Cat
      <4>3. Cat(Cat(A, o), C) = Cat(A, Cat(o, C))
        <5>1. A \in Seq(D) /\ o \in Seq(D) /\ C \in Seq(D)
          BY <1>0, <1>1
        <5>2. QED
          BY ONLY <5>1, CatRegroups
      <4>4. Cat(Cat(Cat(P, u), Q), Cat(o, C)) = Cat(Cat(P, u), Cat(Q, Cat(o, C)))
        BY ONLY <3>5, <4>1, CatRegroups
      <4>5. QED
        BY <4>1, <4>2, <4>3, <4>4 DEF Cat
    <3>7. NodeAt(D, s, P, x, Q \o (o \o C))
      BY <3>4, <3>5, <3>6 DEF NodeAt
    <3>8. QED
      BY <3>1, <3>2, <3>7 DEF IsFirstOf
  <2>2. CASE Elements(A) \cap T = {} /\ n \in T
    <3>1. x = n
      BY <1>3, <2>2 DEF IsFirstOf
    <3>2. QED
      BY <1>2, <2>2, <3>1 DEF IsFirstOf
  <2>3. CASE Elements(A) \cap T = {} /\ n \notin T
    BY <1>2, <1>3, <2>3 DEF IsFirstOf
  <2>4. QED
    BY <2>1, <2>2, <2>3
<1>4. ASSUME Elements(A) \cap T = {}, n \notin T, IsFirstOf(D, C, T, x, m)
      PROVE  IsFirstOf(D, s, T, x, m)
  <2>1. CASE Elements(C) \cap T = {}
    BY <1>2, <1>4, <2>1 DEF IsFirstOf
  <2>2. CASE Elements(C) \cap T # {}
    <3>1. PICK P, Q : NodeAt(D, C, P, x, Q) /\ Elements(P) \cap T = {}
      BY <1>4, <2>2 DEF IsFirstOf
    <3>2. x \in T /\ Elements(s) \cap T # {}
      BY <1>2, <1>4, <2>2 DEF IsFirstOf
    <3>3. x \in D
      <4>1. x \in Elements(C)
        BY <3>1, NodeInIt
      <4>2. QED
        BY <1>0, <4>1, ElementsIn
    <3>4. PICK u \in Seq(D) : u = <<x>>
      BY <3>3, OneElement
    <3>5. P \in Seq(D) /\ Q \in Seq(D) /\ C = (P \o u) \o Q
      BY <3>1, <3>4 DEF NodeAt
    <3>6. PICK B : B = (A \o o) \o P
      OBVIOUS
    <3>7. s = (B \o u) \o Q /\ B \in Seq(D)
      <4>1. Cat(A, o) \in Seq(D) /\ Cat(P, u) \in Seq(D) /\ B \in Seq(D) /\ B = Cat(Cat(A, o), P)
        BY <1>0, <1>1, <3>4, <3>5, <3>6, ConcatProperties DEF Cat
      <4>2. s = Cat(Cat(A, o), C) /\ C = Cat(Cat(P, u), Q)
        BY <1>0, <1>1, <3>5 DEF Cat
      <4>3. Cat(Cat(Cat(A, o), Cat(P, u)), Q) = Cat(Cat(A, o), Cat(Cat(P, u), Q))
        BY ONLY <3>5, <4>1, CatRegroups
      <4>4. Cat(Cat(Cat(A, o), P), u) = Cat(Cat(A, o), Cat(P, u))
        <5>1. u \in Seq(D)
          BY <3>4
        <5>2. QED
          BY ONLY <3>5, <4>1, <5>1, CatRegroups
      <4>5. QED
        BY <4>1, <4>2, <4>3, <4>4 DEF Cat
    <3>8. NodeAt(D, s, B, x, Q)
      BY <3>4, <3>5, <3>7 DEF NodeAt
    <3>9. Elements(B) \cap T = {}
      <4>1. PICK AO : AO = A \o o
        OBVIOUS
      <4>2. A \in Seq(D) /\ o \in Seq(D) /\ P \in Seq(D)
        BY <1>0, <1>1, <3>5
      <4>3. AO \in Seq(D)
        BY ONLY <4>1, <4>2, ConcatProperties
      <4>4. Elements(AO) = Elements(A) \cup Elements(o)
        BY ONLY <4>1, <4>2, ConcatElements
      <4>5. Elements(AO \o P) = Elements(AO) \cup Elements(P)
        BY ONLY <4>2, <4>3, ConcatElements
      <4>6. QED
        BY <1>1, <1>4, <3>1, <3>6, <4>1, <4>4, <4>5
    <3>10. QED
      BY <3>2, <3>8, <3>9 DEF IsFirstOf
  <2>3. QED
    BY <2>1, <2>2
<1>5. QED
  BY <1>3, <1>4 DEF FirstOn
-----------------------------------------------------------------------------
(* Lookups by key. *)

\* In a tree whose list is sorted, the list of every node is.
LEMMA OrderedBelow ==
  ASSUME NEW ch, NEW par, NEW S, NEW nil, NEW h, NEW N \in Nat, Shaped(ch, par, S, nil, h, N),
         NEW io, IsInOrder(io, ch, S, nil), NEW r, Rooted(ch, par, r, S, nil),
         NEW key, \A n \in S : key[n] \in Int, Ordered(key, io[r])
  PROVE  \A n \in S : Ordered(key, io[n])
<1> DEFINE T == {n \in S : Ordered(key, io[n])}
<1>1. ASSUME NEW n \in S, \A m \in S : h[n] < h[m] => m \in T
      PROVE  n \in T
  <2>1. CASE n = r
    BY <2>1
  <2>2. CASE n # r
    <3>1. PICK p : p = par[n]
      OBVIOUS
    <3>2. PICK d \in TwoSides : p \in S /\ ch[p][d] = n
      BY <2>2, <3>1 DEF Rooted
    <3>3. nil \notin S /\ h[n] < h[p]
      <4>1. Below(ch, S, nil, h)
        BY DEF Shaped
      <4>2. n # nil
        BY <4>1 DEF Below
      <4>3. QED
        BY <3>2, <4>1, <4>2 DEF Below
    <3>4. Ordered(key, io[p])
      BY <1>1, <3>2, <3>3
    <3>5. PICK A, C : A = io[ch[p]["left"]] /\ C = io[ch[p]["right"]]
      OBVIOUS
    <3>6. /\ A \in Seq(S) /\ C \in Seq(S)
      <4>1. ch[p]["left"] \in S \cup {nil} /\ ch[p]["right"] \in S \cup {nil}
        BY <3>2 DEF Shaped, Below, TwoSides
      <4>2. \A m \in S \cup {nil} : io[m] \in Seq(S)
        BY NodesUnfold
      <4>3. QED
        BY <3>5, <4>1, <4>2
    <3>7. io[p] = (A \o <<p>>) \o C
      BY <3>2, <3>5 DEF IsInOrder
    <3>8. Ordered(key, A) /\ Ordered(key, C)
      BY <3>2, <3>4, <3>6, <3>7, NodeBetweenOrdered
    <3>9. QED
      BY <3>2, <3>5, <3>8 DEF TwoSides
  <2>3. QED
    BY <2>1, <2>2
<1>2. S \subseteq T
  <2> HIDE DEF T
  <2>1. QED
    BY <1>1, DownwardInduction
<1>3. QED
  BY <1>2

\* What the list of n tells of the keys on both sides of it.
SidesByKey(io, ch, n, key) ==
  /\ \A m \in Nodes(io, ch[n]["left"]) : key[m] =< key[n]
  /\ \A m \in Nodes(io, ch[n]["right"]) : key[n] =< key[m]

LEMMA KeysOfSides ==
  ASSUME NEW ch, NEW par, NEW S, NEW nil, NEW h, NEW N \in Nat, Shaped(ch, par, S, nil, h, N),
         NEW io, IsInOrder(io, ch, S, nil),
         NEW key, \A n \in S : key[n] \in Int, NEW n \in S, Ordered(key, io[n])
  PROVE  /\ SidesByKey(io, ch, n, key)
         /\ NodeAt(S, io[n], io[ch[n]["left"]], n, io[ch[n]["right"]])
<1>1. PICK A, C : A = io[ch[n]["left"]] /\ C = io[ch[n]["right"]]
  OBVIOUS
<1>2. ch[n]["left"] \in S \cup {nil} /\ ch[n]["right"] \in S \cup {nil}
  BY DEF Shaped, Below, TwoSides
<1>3. A \in Seq(S) /\ C \in Seq(S)
  <2>1. \A m \in S \cup {nil} : io[m] \in Seq(S)
    BY NodesUnfold
  <2>2. QED
    BY <1>1, <1>2, <2>1
<1>4. io[n] = (A \o <<n>>) \o C
  BY <1>1 DEF IsInOrder
<1>5. /\ \A a \in Elements(A) : key[a] =< key[n]
      /\ \A a \in Elements(A) \cup {n}, c \in Elements(C) : key[a] =< key[c]
  BY <1>3, <1>4, NodeBetweenOrdered
<1>6. QED
  BY <1>1, <1>3, <1>4, <1>5 DEF SidesByKey, Nodes, NodeAt

\* v is an element of T below n, or nil if there is none.
Finds(io, n, T, v, nil) ==
  IF Nodes(io, n) \cap T = {} THEN v = nil ELSE v \in Nodes(io, n) \cap T

\* The turns of a search for k.
SearchTurns(w, ch, S, nil, N, key, k) ==
  /\ \A b \in 0..N : w[b][nil] = nil
  /\ \A b \in 1..N, n \in S :
       w[b][n] = IF key[n] = k THEN n ELSE w[b - 1][ch[n][IF k < key[n] THEN "left" ELSE "right"]]

\* It ends at a node with that key, if there is one.
LEMMA SearchFinds ==
  ASSUME NEW ch, NEW par, NEW S, NEW nil, NEW h, NEW N \in Nat, Shaped(ch, par, S, nil, h, N),
         NEW io, IsInOrder(io, ch, S, nil),
         NEW key, \A n \in S : key[n] \in Int /\ Ordered(key, io[n]),
         NEW k \in Int, NEW w, SearchTurns(w, ch, S, nil, N, key, k)
  PROVE  \A n \in S \cup {nil} : Finds(io, n, {m \in S : key[m] = k}, w[N][n], nil)
<1> DEFINE T == {m \in S : key[m] = k}
           G == {g \in (0..N) \X (S \cup {nil}) : Finds(io, g[2], T, w[g[1]][g[2]], nil)}
<1>1. Below(ch, S, nil, h) /\ \A n \in S : h[n] \in 1..N
  BY DEF Shaped
<1>2. Nodes(io, nil) = {}
  BY NodesUnfold
<1>3. \A b \in 0..N : <<b, nil>> \in G
  BY <1>2 DEF Finds, SearchTurns
<1>4. ASSUME NEW b \in 1..N, NEW n \in S, \A d \in TwoSides : <<b - 1, ch[n][d]>> \in G
      PROVE  <<b, n>> \in G
  <2>1. SUFFICES Finds(io, n, T, w[b][n], nil)
    OBVIOUS
  <2>2. /\ Nodes(io, n) = Nodes(io, ch[n]["left"]) \cup {n} \cup Nodes(io, ch[n]["right"])
        /\ Nodes(io, ch[n]["left"]) \subseteq S /\ Nodes(io, ch[n]["right"]) \subseteq S
    <3>1. ch[n]["left"] \in S \cup {nil} /\ ch[n]["right"] \in S \cup {nil}
      BY <1>1 DEF Below, TwoSides
    <3>2. QED
      BY <3>1, NodesUnfold
  <2>3. SidesByKey(io, ch, n, key)
    BY KeysOfSides
  <2>4. CASE key[n] = k
    <3>1. w[b][n] = n
      BY <2>4 DEF SearchTurns
    <3>2. QED
      BY <2>2, <2>4, <3>1 DEF Finds
  <2>5. CASE k < key[n]
    <3>1. w[b][n] = w[b - 1][ch[n]["left"]]
      BY <2>5 DEF SearchTurns
    <3>2. Finds(io, ch[n]["left"], T, w[b][n], nil)
      BY <1>4, <3>1 DEF TwoSides
    <3>3. n \notin T /\ Nodes(io, ch[n]["right"]) \cap T = {}
      BY <2>2, <2>3, <2>5 DEF SidesByKey
    <3>4. Nodes(io, n) \cap T = Nodes(io, ch[n]["left"]) \cap T
      BY <2>2, <3>3
    <3>5. QED
      BY <3>2, <3>4 DEF Finds
  <2>6. CASE key[n] < k
    <3>1. w[b][n] = w[b - 1][ch[n]["right"]]
      BY <2>6 DEF SearchTurns
    <3>2. Finds(io, ch[n]["right"], T, w[b][n], nil)
      BY <1>4, <3>1 DEF TwoSides
    <3>3. n \notin T /\ Nodes(io, ch[n]["left"]) \cap T = {}
      BY <2>2, <2>3, <2>6 DEF SidesByKey
    <3>4. Nodes(io, n) \cap T = Nodes(io, ch[n]["right"]) \cap T
      BY <2>2, <3>3
    <3>5. QED
      BY <3>2, <3>4 DEF Finds
  <2>7. QED
    BY <2>4, <2>5, <2>6
<1>5. \A n \in S \cup {nil} : <<N, n>> \in G
  <2> HIDE DEF G
  <2>1. GoesUp(G, ch, S, nil, N)
    BY <1>3, <1>4 DEF GoesUp
  <2>2. QED
    BY <2>1, WithinBudget
<1>6. QED
  BY <1>5

\* The turns of a search for the first node with key k, m is the last match so far.
FirstTurns(w, ch, S, nil, N, key, k) ==
  /\ \A b \in 0..N, m \in S \cup {nil} : w[b][nil][m] = m
  /\ \A b \in 1..N, n \in S, m \in S \cup {nil} :
       w[b][n][m] = IF k =< key[n] THEN w[b - 1][ch[n]["left"]][IF key[n] = k THEN n ELSE m]
                    ELSE w[b - 1][ch[n]["right"]][m]

\* It ends at the first one.
FirstFound(w, io, S, nil, N, key, k) ==
  \A n \in S \cup {nil}, m \in S \cup {nil} :
    IsFirstOf(S, io[n], {x \in S : key[x] = k}, w[N][n][m], m)

LEMMA SearchFindsFirst ==
  ASSUME NEW ch, NEW par, NEW S, NEW nil, NEW h, NEW N \in Nat, Shaped(ch, par, S, nil, h, N),
         NEW io, IsInOrder(io, ch, S, nil),
         NEW key, \A n \in S : key[n] \in Int /\ Ordered(key, io[n]),
         NEW k \in Int, NEW w, FirstTurns(w, ch, S, nil, N, key, k)
  PROVE  FirstFound(w, io, S, nil, N, key, k)
<1> DEFINE T == {x \in S : key[x] = k}
           M == S \cup {nil}
           G == {g \in (0..N) \X M : \A m \in M : IsFirstOf(S, io[g[2]], T, w[g[1]][g[2]][m], m)}
<1>1. Below(ch, S, nil, h) /\ \A n \in S : h[n] \in 1..N
  BY DEF Shaped
<1>2. Nodes(io, nil) = {}
  BY NodesUnfold
<1>3. \A b \in 0..N : <<b, nil>> \in G
  BY <1>2 DEF IsFirstOf, FirstTurns, Nodes
<1>4. ASSUME NEW b \in 1..N, NEW n \in S, \A d \in TwoSides : <<b - 1, ch[n][d]>> \in G
      PROVE  <<b, n>> \in G
  <2>1. SUFFICES ASSUME NEW m \in M PROVE IsFirstOf(S, io[n], T, w[b][n][m], m)
    OBVIOUS
  <2>2. PICK A, C : A = io[ch[n]["left"]] /\ C = io[ch[n]["right"]]
    OBVIOUS
  <2>3. SidesByKey(io, ch, n, key) /\ NodeAt(S, io[n], A, n, C)
    <3>1. (\A x \in S : key[x] \in Int) /\ Ordered(key, io[n])
      OBVIOUS
    <3>2. SidesByKey(io, ch, n, key) /\ NodeAt(S, io[n], io[ch[n]["left"]], n, io[ch[n]["right"]])
      BY <3>1, KeysOfSides
    <3>3. QED
      BY <2>2, <3>2
  <2>4. /\ \A x \in Elements(A) : key[x] =< key[n]
        /\ \A x \in Elements(C) : key[n] =< key[x]
        /\ Elements(A) \subseteq S /\ Elements(C) \subseteq S
    BY <2>2, <2>3, ElementsIn DEF SidesByKey, Nodes, NodeAt
  <2>5. PICK v : v = w[b][n][m]
    OBVIOUS
  <2>6. PICK s : s = io[n]
    OBVIOUS
  <2>7. PICK U : U = T
    OBVIOUS
  <2>8. FirstOn(S, A, n, C, s, U, v, m)
    <3>1. NodeAt(S, s, A, n, C)
      BY <2>3, <2>6
    <3>2. QED
      BY <3>1, FirstBetween
  <2>9. CASE k =< key[n]
    <3>1. PICK q : q = IF key[n] = k THEN n ELSE m
      OBVIOUS
    <3>2. q \in M /\ q = IF n \in U THEN n ELSE m
      BY <2>7, <3>1
    <3>3. v = w[b - 1][ch[n]["left"]][q]
      BY <2>5, <2>9, <3>1 DEF FirstTurns
    <3>4. IsFirstOf(S, A, U, v, q)
      BY <1>4, <2>2, <2>7, <3>2, <3>3 DEF TwoSides
    <3>5. n \in U \/ Elements(C) \cap U = {}
      BY <2>4, <2>7, <2>9
    <3>6. QED
      BY <2>5, <2>6, <2>7, <2>8, <3>2, <3>4, <3>5 DEF FirstOn
  <2>10. CASE key[n] < k
    <3>1. v = w[b - 1][ch[n]["right"]][m]
      BY <2>5, <2>10 DEF FirstTurns
    <3>2. IsFirstOf(S, C, U, v, m)
      BY <1>4, <2>2, <2>7, <3>1 DEF TwoSides
    <3>3. n \notin U /\ Elements(A) \cap U = {}
      BY <2>4, <2>7, <2>10
    <3>4. QED
      BY <2>5, <2>6, <2>7, <2>8, <3>2, <3>3 DEF FirstOn
  <2>11. QED
    BY <2>9, <2>10
<1>5. \A n \in M : <<N, n>> \in G
  <2> HIDE DEF G
  <2>1. GoesUp(G, ch, S, nil, N)
    BY <1>3, <1>4 DEF GoesUp
  <2>2. QED
    BY <2>1, WithinBudget
<1>6. QED
  BY <1>5 DEF FirstFound

\* Such a first element, by its position.
LEMMA FirstAt ==
  ASSUME NEW D, NEW s \in Seq(D), NEW T, NEW x, NEW m, IsFirstOf(D, s, T, x, m)
  PROVE  \/ x = m /\ \A a \in DOMAIN s : s[a] \notin T
         \/ \E a \in DOMAIN s : x = s[a] /\ x \in T /\ \A b \in 1..(a - 1) : s[b] \notin T
<1>1. CASE Elements(s) \cap T = {}
  BY <1>1 DEF IsFirstOf, Elements
<1>2. CASE Elements(s) \cap T # {}
  <2>1. PICK P, Q : x \in T /\ NodeAt(D, s, P, x, Q) /\ Elements(P) \cap T = {}
    BY <1>2 DEF IsFirstOf
  <2>2. x \in D
    BY <2>1, NodeInIt, ElementsIn
  <2>3. PICK o : o = <<x>>
    OBVIOUS
  <2>4. o \in Seq(D) /\ o # <<>> /\ o[1] = x
    BY <2>2, <2>3, OneElement
  <2>5. P \in Seq(D) /\ Q \in Seq(D) /\ s = (P \o o) \o Q
    BY <2>1, <2>3, <2>4 DEF NodeAt
  <2>6. Starts((P \o o) \o Q, P, o)
    BY <2>5, <2>4, Parts
  <2>7. /\ Len(P) \in Nat /\ Len(P) + 1 \in DOMAIN s /\ s[Len(P) + 1] = x
        /\ \A i \in 1..Len(P) : s[i] = P[i]
    BY <2>5, <2>6, <2>4 DEF Starts
  <2>8. \A i \in 1..Len(P) : P[i] \notin T
    <3>1. DOMAIN P = 1..Len(P)
      BY <2>5, LenProperties
    <3>2. QED
      BY <2>1, <3>1 DEF Elements
  <2>9. QED
    BY <2>1, <2>7, <2>8
<1>3. QED
  BY <1>1, <1>2

\* In a sorted list the elements with one key are a run of it.
KeyRun(s, key, k, i, j) ==
  /\ i \in 0..Len(s) /\ j \in i..Len(s)
  /\ \A x \in DOMAIN s : key[s[x]] = k <=> x \in (i + 1)..j

LEMMA KeyIsRun ==
  ASSUME NEW D, NEW s \in Seq(D), NEW key, \A n \in D : key[n] \in Int, NEW k \in Int,
         Ordered(key, s)
  PROVE  \E i, j : KeyRun(s, key, k, i, j)
<1>1. Len(s) \in Nat /\ DOMAIN s = 1..Len(s)
  BY LenProperties
<1>2. \A x \in 1..Len(s) : key[s[x]] \in Int
  BY <1>1, ElementOfSeq
<1>3. PICK n, f : n \in Nat /\ n = Len(s) /\ f = [x \in 1..Len(s) |-> key[s[x]]]
  BY <1>1
<1>4. \A x \in 1..n : f[x] \in Int /\ f[x] = key[s[x]]
  BY <1>2, <1>3
<1>5. \A x, y \in 1..n : x < y => f[x] =< f[y]
  BY <1>1, <1>3, <1>4 DEF Ordered
<1>6. CASE \A x \in 1..n : f[x] # k
  <2>1. KeyRun(s, key, k, 0, 0)
    BY <1>1, <1>3, <1>4, <1>6 DEF KeyRun
  <2>2. QED
    BY <2>1
<1>7. CASE \E x \in 1..n : f[x] = k
  <2>1. PICK a \in 1..n : f[a] = k /\ \A x \in 1..n : f[x] = k => a =< x
    <3>1. {x \in 1..n : f[x] = k} \in SUBSET Nat
      BY <1>3
    <3>2. QED
      BY <1>7, <3>1, LeastNumber
  <2>2. PICK j \in 1..n : f[j] = k /\ \A x \in 1..n : f[x] = k => x =< j
    <3>1. PICK T : T = {y \in 0..n : n - y \in 1..n /\ f[n - y] = k}
      OBVIOUS
    <3>2. T \in SUBSET Nat /\ n - a \in T
      BY <1>3, <2>1, <3>1
    <3>3. PICK m \in T : \A y \in T : m =< y
      BY <3>2, LeastNumber
    <3>4. n - m \in 1..n /\ f[n - m] = k
      BY <3>1, <3>3
    <3>5. ASSUME NEW x \in 1..n, f[x] = k PROVE x =< n - m
      <4>1. n - x \in 0..n /\ n - (n - x) = x
        BY <1>3
      <4>2. n - x \in T
        BY <3>1, <3>5, <4>1
      <4>3. m \in Nat /\ m =< n - x
        BY <3>2, <3>3, <4>2
      <4>4. QED
        BY <1>3, <4>3
    <3>6. QED
      BY <3>4, <3>5
  <2>3. a =< j
    BY <2>1, <2>2
  <2>4. \A x \in 1..n : f[x] = k <=> x \in a..j
    <3>1. ASSUME NEW x \in 1..n, x \in a..j PROVE f[x] = k
      <4>1. CASE x = a \/ x = j
        BY <2>1, <2>2, <4>1
      <4>2. CASE a < x /\ x < j
        <5>1. f[a] =< f[x] /\ f[x] =< f[j]
          BY <1>5, <4>2
        <5>2. QED
          BY <1>4, <2>1, <2>2, <5>1
      <4>3. QED
        BY <3>1, <4>1, <4>2
    <3>2. QED
      BY <2>1, <2>2, <3>1
  <2>5. PICK i : i = a - 1
    OBVIOUS
  <2>6. i \in 0..n /\ j \in i..n /\ i + 1 = a
    BY <1>3, <2>1, <2>2, <2>3, <2>5
  <2>7. KeyRun(s, key, k, i, j)
    BY <1>1, <1>3, <1>4, <2>4, <2>6 DEF KeyRun
  <2>8. QED
    BY <2>7
<1>8. QED
  BY <1>6, <1>7
-----------------------------------------------------------------------------
(* Loops that go from node to node and visit what they pass. *)

VisitTurn(w, k, n, next, nil) ==
  IF k = 0 \/ n = nil THEN <<>> ELSE <<n>> \o w[k - 1][next[n]]

VisitTurns(w, M, next, nil, N) == [k \in 0..N |-> [n \in M |-> VisitTurn(w, k, n, next, nil)]]

VisitWalk(M, next, nil, N) == CHOOSE w : w = VisitTurns(w, M, next, nil, N)

VisitsBy(w, M, next, nil, N) ==
  \A k \in 0..N, n \in M : w[k][n] = VisitTurn(w, k, n, next, nil)

\* The recursion has a solution, and CHOOSE takes it.
LEMMA VisitUnfolds ==
  ASSUME NEW D, NEW nil, nil \notin D, NEW M, M = D \cup {nil},
         NEW next, \A n \in D : next[n] \in M, NEW N \in Nat
  PROVE  VisitsBy(VisitWalk(M, next, nil, N), M, next, nil, N)
<1> DEFINE E == [M -> Seq(D)]
           Turn(v, n) == IF n = nil THEN <<>> ELSE <<n>> \o v[next[n]]
           F == [v \in E |-> [n \in M |-> Turn(v, n)]]
           b == [n \in M |-> <<>>]
<1>1. b \in E
  <2>1. <<>> \in Seq(D)
    BY EmptySeq
  <2>2. QED
    BY <2>1
<1>2. ASSUME NEW v \in E, NEW n \in M
      PROVE  Turn(v, n) \in Seq(D)
  <2>1. CASE n = nil
    BY <2>1, EmptySeq
  <2>2. CASE n # nil
    <3>1. n \in D /\ next[n] \in M
      BY <2>2
    <3>2. PICK o, t : o = <<n>> /\ t = v[next[n]]
      OBVIOUS
    <3>3. o \in Seq(D) /\ t \in Seq(D)
      BY <3>1, <3>2, OneElement
    <3>4. o \o t \in Seq(D)
      BY ONLY <3>3, ConcatProperties
    <3>5. QED
      BY <2>2, <3>2, <3>4
  <2>3. QED
    BY <2>1, <2>2
<1>3. ASSUME NEW v \in E
      PROVE  F[v] \in E /\ \A n \in M : F[v][n] = Turn(v, n)
  <2> HIDE DEF Turn
  <2>1. QED
    BY <1>2
<1>4. F \in [E -> E]
  <2> HIDE DEF Turn
  <2>1. QED
    BY <1>2
<1>5. PICK w : Iteration(w, E, b, F, N)
  <2> HIDE DEF E, F, b
  <2>1. QED
    BY <1>1, <1>4, Iterates
<1>6. ASSUME NEW k \in 0..N, NEW n \in M
      PROVE  w[k][n] = VisitTurn(w, k, n, next, nil)
  <2>1. CASE k = 0
    <3>1. w[k] = b
      BY <1>5, <2>1 DEF Iteration
    <3>2. QED
      BY <2>1, <3>1 DEF VisitTurn
  <2>2. CASE k # 0
    <3>1. k \in 1..N /\ k - 1 \in 0..N
      BY <2>2
    <3>2. w[k] = F[w[k - 1]] /\ w[k - 1] \in E
      <4> HIDE DEF E, F, b
      <4>1. QED
        BY <1>5, <3>1 DEF Iteration
    <3>3. PICK v : v = w[k - 1]
      OBVIOUS
    <3>4. w[k][n] = Turn(v, n)
      <4> HIDE DEF F, E, Turn
      <4>1. v \in E /\ w[k] = F[v]
        BY <3>2, <3>3
      <4>2. F[v][n] = Turn(v, n)
        BY <1>3, <4>1
      <4>3. QED
        BY <4>1, <4>2
    <3>5. QED
      BY <2>2, <3>3, <3>4, Zenon DEF VisitTurn
  <2>3. QED
    BY <2>1, <2>2
<1>7. w = [k \in 0..N |-> [n \in M |-> w[k][n]]]
  <2>1. w = [k \in 0..N |-> w[k]] /\ \A k \in 0..N : w[k] \in E
    <3> HIDE DEF E, F, b
    <3>1. QED
      BY <1>5 DEF Iteration
  <2>2. \A v \in E : v = [n \in M |-> v[n]]
    OBVIOUS
  <2> HIDE DEF E
  <2>3. QED
    BY <2>1, <2>2
<1>8. w = VisitTurns(w, M, next, nil, N)
  BY <1>6, <1>7, Zenon DEF VisitTurns
<1>9. PICK u : u = VisitWalk(M, next, nil, N)
  OBVIOUS
<1>10. u = VisitTurns(u, M, next, nil, N)
  BY <1>8, <1>9, Zenon DEF VisitWalk
<1>11. \A k \in 0..N, n \in M : u[k][n] = VisitTurn(u, k, n, next, nil)
  BY <1>10 DEF VisitTurns
<1>12. VisitsBy(u, M, next, nil, N)
  BY <1>11 DEF VisitsBy
<1>13. QED
  BY <1>9, <1>12

\* The rest of a part of a list.
LEMMA RestOfPart ==
  ASSUME NEW D, NEW s \in Seq(D), NEW x \in 1..Len(s), NEW j \in x..Len(s)
  PROVE  SubSeq(s, x, j) = <<s[x]>> \o SubSeq(s, x + 1, j)
<1>1. PICK n \in Nat : n = Len(s)
  BY LenProperties
<1>2. /\ SubSeq(s, x, j) = [y \in 1..(1 + j - x) |-> s[x + y - 1]]
      /\ SubSeq(s, x + 1, j) = [y \in 1..(1 + j - (x + 1)) |-> s[x + 1 + y - 1]]
  OBVIOUS
<1>3. QED
  OBVIOUS

\* next leads from each element of a run to the next one, and from its last to nil.
LeadsThrough(next, s, i, j, nil) ==
  \A x \in (i + 1)..j : next[s[x]] = IF x = j THEN nil ELSE s[x + 1]

VisitsFrom(w, N, s, i, j, nil) ==
  \A n : n = (IF i = j THEN nil ELSE s[i + 1]) => w[N][n] = SubSeq(s, i + 1, j)

\* Then the loop visits just the run.
LEMMA VisitsRun ==
  ASSUME NEW D, NEW nil, nil \notin D, NEW M, M = D \cup {nil},
         NEW next, NEW N \in Nat, NEW w,
         VisitsBy(w, M, next, nil, N),
         NEW s \in Seq(D), NEW i \in 0..Len(s), NEW j \in i..Len(s), j - i =< N,
         LeadsThrough(next, s, i, j, nil)
  PROVE  VisitsFrom(w, N, s, i, j, nil)
<1>0. \A x \in (i + 1)..j : next[s[x]] = IF x = j THEN nil ELSE s[x + 1]
  BY DEF LeadsThrough
<1>1. Len(s) \in Nat /\ i \in Nat /\ j \in Nat /\ \A x \in 1..Len(s) : s[x] \in D
  BY LenProperties, ElementOfSeq
<1>2. \A k \in 0..N : w[k][nil] = <<>>
  BY DEF VisitTurn, VisitsBy
<1> DEFINE T == {r \in Nat : \A x \in (i + 1)..j, k \in 0..N :
                               j - x = r /\ r < k => w[k][s[x]] = SubSeq(s, x, j)}
<1>3. \A x \in (i + 1)..j, k \in 1..N : w[k][s[x]] = <<s[x]>> \o w[k - 1][next[s[x]]]
  <2> TAKE x \in (i + 1)..j, k \in 1..N
  <2>1. PICK n : n = s[x]
    OBVIOUS
  <2>2. n \in M /\ n # nil /\ k \in 0..N /\ k # 0
    BY <1>1, <2>1
  <2>3. w[k][n] = VisitTurn(w, k, n, next, nil)
    BY <2>2 DEF VisitsBy
  <2>4. w[k][n] = <<n>> \o w[k - 1][next[n]]
    BY <2>2, <2>3, Zenon DEF VisitTurn
  <2>5. QED
    BY <2>1, <2>4
<1>4. 0 \in T
  <2>1. SUFFICES ASSUME NEW x \in (i + 1)..j, NEW k \in 0..N, j - x = 0, 0 < k
                 PROVE  w[k][s[x]] = SubSeq(s, x, j)
    OBVIOUS
  <2>2. x = j /\ k \in 1..N /\ j \in (i + 1)..j /\ k - 1 \in 0..N
    BY <1>1, <2>1
  <2>3. next[s[j]] = nil
    BY <1>0, <2>2
  <2>4. w[k][s[j]] = <<s[j]>> \o w[k - 1][nil] /\ w[k - 1][nil] = <<>>
    BY <1>2, <1>3, <2>2, <2>3
  <2>5. SubSeq(s, j, j) = <<s[j]>> \o SubSeq(s, j + 1, j)
    <3>1. j \in 1..Len(s) /\ j \in j..Len(s)
      BY <1>1, <2>2
    <3>2. QED
      BY <3>1, RestOfPart
  <2>6. SubSeq(s, j + 1, j) = <<>>
    BY <1>1
  <2>7. QED
    BY <2>2, <2>4, <2>5, <2>6
<1>5. ASSUME NEW r \in Nat, r \in T PROVE r + 1 \in T
  <2>1. SUFFICES ASSUME NEW x \in (i + 1)..j, NEW k \in 0..N, j - x = r + 1, r + 1 < k
                 PROVE  w[k][s[x]] = SubSeq(s, x, j)
    OBVIOUS
  <2>2. /\ k \in 1..N /\ k - 1 \in 0..N /\ r < k - 1
        /\ x + 1 \in (i + 1)..j /\ x # j /\ j - (x + 1) = r
        /\ x \in 1..Len(s) /\ j \in x..Len(s)
    BY <1>1, <2>1
  <2>3. w[k - 1][s[x + 1]] = SubSeq(s, x + 1, j)
    BY <1>5, <2>2
  <2>4. next[s[x]] = s[x + 1]
    BY <1>0, <2>2
  <2>5. w[k][s[x]] = <<s[x]>> \o SubSeq(s, x + 1, j)
    BY <1>3, <2>2, <2>3, <2>4
  <2>6. QED
    BY <2>2, <2>5, RestOfPart
<1>6. \A r \in Nat : r \in T
  <2> HIDE DEF T
  <2>1. QED
    BY <1>4, <1>5, Induction
<1>7. CASE i = j
  <2>1. SubSeq(s, i + 1, j) = <<>>
    BY <1>1, <1>7
  <2>2. w[N][nil] = <<>>
    BY <1>2
  <2>3. QED
    BY <1>7, <2>1, <2>2, Zenon DEF VisitsFrom
<1>8. CASE i # j
  <2>1. i + 1 \in (i + 1)..j /\ j - (i + 1) \in Nat /\ j - (i + 1) < N
    BY <1>1, <1>8
  <2>2. PICK x, r : x = i + 1 /\ r = j - x
    OBVIOUS
  <2>3. x \in (i + 1)..j /\ r \in T /\ j - x = r /\ r < N /\ N \in 0..N
    <3> HIDE DEF T
    <3>1. QED
      BY <1>6, <2>1, <2>2
  <2>4. w[N][s[x]] = SubSeq(s, x, j)
    BY <2>3
  <2>5. QED
    BY <1>8, <2>2, <2>4, Zenon DEF VisitsFrom
<1>9. QED
  BY <1>7, <1>8
-----------------------------------------------------------------------------
(* Places: which node is where in a list. *)

\* A list with a node between two parts, by position.
NodeInPlace(s, A, n, C) ==
  /\ Len(A) \in Nat /\ Len(C) \in Nat
  /\ DOMAIN A = 1..Len(A) /\ DOMAIN C = 1..Len(C)
  /\ DOMAIN s = 1..(Len(A) + 1 + Len(C))
  /\ \A i \in 1..Len(A) : s[i] = A[i]
  /\ s[Len(A) + 1] = n
  /\ \A i \in 1..Len(C) : s[Len(A) + 1 + i] = C[i]

LEMMA PlacesOfNode ==
  ASSUME NEW D, NEW A, NEW n, NEW C, NEW s, NodeAt(D, s, A, n, C)
  PROVE  NodeInPlace(s, A, n, C)
<1>1. PICK E : E = D \cup {n}
  OBVIOUS
<1>2. A \in Seq(E) /\ C \in Seq(E) /\ n \in E
  <2>1. D \subseteq E
    BY <1>1
  <2>2. Seq(D) \subseteq Seq(E)
    BY <2>1, SeqMonotonic
  <2>3. QED
    BY <1>1, <2>2 DEF NodeAt
<1>3. PICK o : o = <<n>>
  OBVIOUS
<1>4. o \in Seq(E) /\ Len(o) = 1 /\ o[1] = n
  BY <1>2, <1>3
<1>5. PICK B : B = A \o o
  OBVIOUS
<1>6. /\ B \in Seq(E) /\ Len(B) = Len(A) + Len(o)
      /\ \A i \in 1..(Len(A) + Len(o)) : B[i] = IF i =< Len(A) THEN A[i] ELSE o[i - Len(A)]
  <2>1. A \in Seq(E) /\ o \in Seq(E)
    BY <1>2, <1>4
  <2>2. /\ A \o o \in Seq(E) /\ Len(A \o o) = Len(A) + Len(o)
        /\ \A i \in 1..(Len(A) + Len(o)) : (A \o o)[i] = IF i =< Len(A) THEN A[i] ELSE o[i - Len(A)]
    BY ONLY <2>1, ConcatProperties
  <2>3. QED
    BY ONLY <1>5, <2>2, Zenon
<1>7. s = B \o C
  BY <1>3, <1>5 DEF NodeAt
<1>8. /\ s \in Seq(E) /\ Len(s) = Len(B) + Len(C)
      /\ \A i \in 1..(Len(B) + Len(C)) : s[i] = IF i =< Len(B) THEN B[i] ELSE C[i - Len(B)]
  <2>1. B \in Seq(E) /\ C \in Seq(E)
    BY <1>2, <1>6
  <2>2. /\ B \o C \in Seq(E) /\ Len(B \o C) = Len(B) + Len(C)
        /\ \A i \in 1..(Len(B) + Len(C)) : (B \o C)[i] = IF i =< Len(B) THEN B[i] ELSE C[i - Len(B)]
    BY ONLY <2>1, ConcatProperties
  <2>3. QED
    BY ONLY <1>7, <2>2, Zenon
<1>9. PICK a \in Nat, c \in Nat : a = Len(A) /\ c = Len(C)
  BY <1>2, LenProperties
<1>10. DOMAIN A = 1..a /\ DOMAIN C = 1..c /\ DOMAIN s = 1..(a + 1 + c)
  BY <1>2, <1>4, <1>6, <1>8, <1>9, LenProperties
<1>11. \A i \in 1..a : s[i] = A[i]
  BY <1>4, <1>6, <1>8, <1>9
<1>12. s[a + 1] = n
  <2>1. a + 1 \in 1..(a + 1 + c) /\ a + 1 =< a + 1 /\ ~(a + 1 =< a) /\ (a + 1) - a = 1
    OBVIOUS
  <2>2. B[a + 1] = o[1]
    BY <1>4, <1>6, <1>9, <2>1
  <2>3. s[a + 1] = B[a + 1]
    BY <1>4, <1>6, <1>8, <1>9, <2>1
  <2>4. QED
    BY <1>4, <2>2, <2>3
<1>13. \A i \in 1..c : s[a + 1 + i] = C[i]
  <2> TAKE i \in 1..c
  <2>1. a + 1 + i \in 1..(a + 1 + c) /\ ~(a + 1 + i =< a + 1) /\ (a + 1 + i) - (a + 1) = i
    OBVIOUS
  <2>2. QED
    BY <1>4, <1>6, <1>8, <1>9, <2>1
<1>14. QED
  BY <1>9, <1>10, <1>11, <1>12, <1>13 DEF NodeInPlace

\* The turns of a search for the place r; size tells how many nodes are on the left.
SelectTurns(w, ch, S, nil, N, size) ==
  /\ \A b \in 0..N, r \in Nat : w[b][nil][r] = nil
  /\ \A b \in 1..N, n \in S, r \in Nat :
       w[b][n][r] = IF r = size[n] + 1 THEN n
                    ELSE IF r < size[n] + 1 THEN w[b - 1][ch[n]["left"]][r]
                    ELSE w[b - 1][ch[n]["right"]][r - (size[n] + 1)]

\* m is what is at the place r of s, or nil if nothing is.
IsAtPlace(s, r, m, nil) == m = IF r \in DOMAIN s THEN s[r] ELSE nil

\* size counts what is on the left of each node.
LeftCounts(size, io, ch, S) == \A n \in S : size[n] = Len(io[ch[n]["left"]])

SelectsAll(w, io, S, nil, N) == \A n \in S \cup {nil}, r \in Nat : IsAtPlace(io[n], r, w[N][n][r], nil)

\* It finds what is there.
LEMMA SelectFinds ==
  ASSUME NEW ch, NEW par, NEW S, NEW nil, NEW h, NEW N \in Nat, Shaped(ch, par, S, nil, h, N),
         NEW io, IsInOrder(io, ch, S, nil),
         NEW size, LeftCounts(size, io, ch, S),
         NEW w, SelectTurns(w, ch, S, nil, N, size)
  PROVE  SelectsAll(w, io, S, nil, N)
<1> DEFINE M == S \cup {nil}
           G == {g \in (0..N) \X M : \A r \in Nat : IsAtPlace(io[g[2]], r, w[g[1]][g[2]][r], nil)}
<1>1. Below(ch, S, nil, h) /\ \A n \in S : h[n] \in 1..N
  BY DEF Shaped
<1>2. io[nil] = <<>>
  BY DEF IsInOrder
<1>3. \A b \in 0..N : <<b, nil>> \in G
  BY <1>2 DEF IsAtPlace, SelectTurns
<1>4. ASSUME NEW b \in 1..N, NEW n \in S, \A d \in TwoSides : <<b - 1, ch[n][d]>> \in G
      PROVE  <<b, n>> \in G
  <2>1. SUFFICES ASSUME NEW r \in Nat PROVE IsAtPlace(io[n], r, w[b][n][r], nil)
    OBVIOUS
  <2>2. PICK A, C : A = io[ch[n]["left"]] /\ C = io[ch[n]["right"]]
    OBVIOUS
  <2>3. PICK s : s = io[n]
    OBVIOUS
  <2>4. NodeAt(S, s, A, n, C)
    <3>1. ch[n]["left"] \in M /\ ch[n]["right"] \in M
      BY <1>1 DEF Below, TwoSides
    <3>2. \A m \in M : io[m] \in Seq(S)
      BY NodesUnfold
    <3>3. A \in Seq(S) /\ C \in Seq(S)
      BY <2>2, <3>1, <3>2
    <3>4. s = (A \o <<n>>) \o C
      BY <2>2, <2>3 DEF IsInOrder
    <3>5. QED
      BY <3>3, <3>4 DEF NodeAt
  <2>5. NodeInPlace(s, A, n, C)
    BY <2>4, PlacesOfNode
  <2>6. PICK a, c : /\ a \in Nat /\ c \in Nat /\ a = Len(A)
                    /\ DOMAIN A = 1..a /\ DOMAIN C = 1..c /\ DOMAIN s = 1..(a + 1 + c)
                    /\ \A i \in 1..a : s[i] = A[i]
                    /\ s[a + 1] = n
                    /\ \A i \in 1..c : s[a + 1 + i] = C[i]
    BY <2>5 DEF NodeInPlace
  <2>7. size[n] = a
    BY <2>2, <2>6 DEF LeftCounts
  <2>8. PICK v : /\ v = w[b][n][r]
                 /\ v = IF r = a + 1 THEN n
                        ELSE IF r < a + 1 THEN w[b - 1][ch[n]["left"]][r]
                        ELSE w[b - 1][ch[n]["right"]][r - (a + 1)]
    <3>1. w[b][n][r] = IF r = size[n] + 1 THEN n
                       ELSE IF r < size[n] + 1 THEN w[b - 1][ch[n]["left"]][r]
                       ELSE w[b - 1][ch[n]["right"]][r - (size[n] + 1)]
      BY DEF SelectTurns
    <3>2. w[b][n][r] = IF r = a + 1 THEN n
                       ELSE IF r < a + 1 THEN w[b - 1][ch[n]["left"]][r]
                       ELSE w[b - 1][ch[n]["right"]][r - (a + 1)]
      BY ONLY <2>7, <3>1, Zenon
    <3>3. QED
      BY ONLY <3>2, Zenon
  <2>9. CASE r = a + 1
    <3>1. v = n
      BY <2>8, <2>9
    <3>2. r \in 1..(a + 1 + c)
      BY <2>6, <2>9
    <3>3. QED
      BY <2>3, <2>6, <2>8, <2>9, <3>1, <3>2 DEF IsAtPlace
  <2>10. CASE r < a + 1
    <3>1. v = w[b - 1][ch[n]["left"]][r]
      BY <2>6, <2>8, <2>10
    <3>2. IsAtPlace(A, r, v, nil)
      BY <1>4, <2>2, <3>1 DEF TwoSides
    <3>3. r \in 1..a <=> r \in 1..(a + 1 + c)
      BY <2>6, <2>10
    <3>4. QED
      BY <2>3, <2>6, <2>8, <3>2, <3>3 DEF IsAtPlace
  <2>11. CASE a + 1 < r
    <3>1. PICK q : q = r - (a + 1)
      OBVIOUS
    <3>2. q \in Nat /\ a + 1 + q = r
      BY <2>6, <2>11, <3>1
    <3>3. v = w[b - 1][ch[n]["right"]][q]
      BY <2>6, <2>8, <2>11, <3>1
    <3>4. IsAtPlace(C, q, v, nil)
      BY <1>4, <2>2, <3>2, <3>3 DEF TwoSides
    <3>5. q \in 1..c <=> r \in 1..(a + 1 + c)
      BY <2>6, <2>11, <3>2
    <3>6. QED
      BY <2>3, <2>6, <2>8, <3>2, <3>4, <3>5 DEF IsAtPlace
  <2>12. QED
    BY <2>6, <2>9, <2>10, <2>11
<1>5. \A n \in M : <<N, n>> \in G
  <2> HIDE DEF G
  <2>1. GoesUp(G, ch, S, nil, N)
    BY <1>3, <1>4 DEF GoesUp
  <2>2. QED
    BY <2>1, WithinBudget
<1>6. QED
  BY <1>5 DEF SelectsAll

\* The turns of a climb to the root r that adds up what is on the left of the path.
RankTurn(w, k, m, r, up, add) == IF k = 0 \/ m = r THEN 0 ELSE w[k - 1][up[m]] + add[m]

RankTurns(w, M, r, up, add, N) == [k \in 0..N |-> [m \in M |-> RankTurn(w, k, m, r, up, add)]]

\* The recursion has a solution.
LEMMA RankSolution ==
  ASSUME NEW M, NEW r, NEW up, NEW add, NEW N \in Nat,
         \A m \in M : add[m] \in Int /\ (m # r => up[m] \in M)
  PROVE  \E w : w = RankTurns(w, M, r, up, add, N)
<1> DEFINE D == [M -> Int]
           Turn(v, m) == IF m = r THEN 0 ELSE v[up[m]] + add[m]
           F == [v \in D |-> [m \in M |-> Turn(v, m)]]
           b == [m \in M |-> 0]
<1>1. b \in D
  OBVIOUS
<1>2. ASSUME NEW v \in D, NEW m \in M
      PROVE  Turn(v, m) \in Int
  OBVIOUS
<1>3. ASSUME NEW v \in D
      PROVE  F[v] \in D /\ \A m \in M : F[v][m] = Turn(v, m)
  <2> HIDE DEF Turn
  <2>1. QED
    BY <1>2
<1>4. F \in [D -> D]
  <2> HIDE DEF Turn
  <2>1. QED
    BY <1>2
<1>5. PICK w : Iteration(w, D, b, F, N)
  <2> HIDE DEF D, F, b
  <2>1. QED
    BY <1>1, <1>4, Iterates
<1>6. ASSUME NEW k \in 0..N, NEW m \in M
      PROVE  w[k][m] = RankTurn(w, k, m, r, up, add)
  <2>1. CASE k = 0
    <3>1. w[k] = b
      BY <1>5, <2>1 DEF Iteration
    <3>2. QED
      BY <2>1, <3>1 DEF RankTurn
  <2>2. CASE k # 0
    <3>1. k \in 1..N /\ k - 1 \in 0..N
      BY <2>2
    <3>2. w[k] = F[w[k - 1]] /\ w[k - 1] \in D
      <4> HIDE DEF D, F, b
      <4>1. QED
        BY <1>5, <3>1 DEF Iteration
    <3>3. PICK v : v = w[k - 1]
      OBVIOUS
    <3>4. w[k][m] = Turn(v, m)
      <4> HIDE DEF F, D, Turn
      <4>1. v \in D /\ w[k] = F[v]
        BY <3>2, <3>3
      <4>2. F[v][m] = Turn(v, m)
        BY <1>3, <4>1
      <4>3. QED
        BY <4>1, <4>2
    <3>5. QED
      BY <2>2, <3>3, <3>4 DEF RankTurn
  <2>3. QED
    BY <2>1, <2>2
<1>7. w = [k \in 0..N |-> [m \in M |-> w[k][m]]]
  <2>1. w = [k \in 0..N |-> w[k]] /\ \A k \in 0..N : w[k] \in D
    <3> HIDE DEF D, F, b
    <3>1. QED
      BY <1>5 DEF Iteration
  <2>2. \A v \in D : v = [m \in M |-> v[m]]
    OBVIOUS
  <2> HIDE DEF D
  <2>3. QED
    BY <2>1, <2>2
<1>8. w = RankTurns(w, M, r, up, add, N)
  BY <1>6, <1>7, Zenon DEF RankTurns
<1>9. QED
  BY <1>8

\* X has its place in s behind v others.
Behind(D, s, X, v) == \E A, C : PlacedAt(D, s, X, A, C) /\ v = Len(A)

\* What is on the sides of a node, when the node with both sides comes behind v others.
LEMMA BehindSides ==
  ASSUME NEW D, NEW s, NEW X, NEW v, Behind(D, s, X, v), NEW A, NEW n \in D, NEW C, NodeAt(D, X, A, n, C)
  PROVE  /\ Behind(D, s, A, v)
         /\ Behind(D, s, C, v + (1 + Len(A)))
         /\ v + (1 + Len(A)) \in DOMAIN s /\ s[v + (1 + Len(A))] = n
<1>1. PICK P, Q : PlacedAt(D, s, X, P, Q) /\ v = Len(P)
  BY DEF Behind
<1>2. PICK o \in Seq(D) : o = <<n>> /\ Len(o) = 1
  <2>1. PICK o : o = <<n>>
    OBVIOUS
  <2>2. o \in Seq(D) /\ Len(o) = 1
    BY <2>1, OneElement
  <2>3. QED
    BY <2>1, <2>2
<1>3. /\ P \in Seq(D) /\ Q \in Seq(D) /\ A \in Seq(D) /\ C \in Seq(D) /\ o \in Seq(D)
      /\ X = Cat(Cat(A, o), C) /\ s = Cat(Cat(P, X), Q)
  BY <1>1, <1>2 DEF PlacedAt, NodeAt, Cat
<1>4. PICK oC, AoC, R, PA, PAo, CQ :
        /\ oC = Cat(o, C) /\ R = Cat(oC, Q) /\ PA = Cat(P, A) /\ PAo = Cat(PA, o) /\ CQ = Cat(C, Q)
        /\ AoC = Cat(A, oC)
  OBVIOUS
<1>5. /\ oC \in Seq(D) /\ R \in Seq(D) /\ PA \in Seq(D) /\ PAo \in Seq(D) /\ CQ \in Seq(D)
      /\ AoC \in Seq(D)
  <2>1. oC \in Seq(D) /\ PA \in Seq(D) /\ CQ \in Seq(D)
    BY ONLY <1>3, <1>4, CatRegroups
  <2>2. R \in Seq(D) /\ PAo \in Seq(D) /\ AoC \in Seq(D)
    BY ONLY <1>3, <1>4, <2>1, CatRegroups
  <2>3. QED
    BY <2>1, <2>2
<1>6. X = Cat(A, oC)
  BY ONLY <1>3, <1>4, CatRegroups
<1>7. s = Cat(Cat(P, A), R)
  <2>1. Cat(P, Cat(A, oC)) = Cat(Cat(P, A), oC)
    BY ONLY <1>3, <1>5, CatRegroups
  <2>2. Cat(Cat(PA, oC), Q) = Cat(PA, Cat(oC, Q))
    BY ONLY <1>3, <1>5, CatRegroups
  <2>3. QED
    BY ONLY <1>3, <1>4, <1>6, <2>1, <2>2
<1>8. Behind(D, s, A, v)
  BY <1>1, <1>3, <1>5, <1>7 DEF Behind, PlacedAt, Cat
<1>9. R = Cat(o, CQ)
  BY ONLY <1>3, <1>4, CatRegroups
<1>10. s = Cat(PAo, CQ)
  <2>1. Cat(PA, Cat(o, CQ)) = Cat(Cat(PA, o), CQ)
    BY ONLY <1>3, <1>5, CatRegroups
  <2>2. QED
    BY ONLY <1>4, <1>7, <1>9, <2>1
<1>11. s = Cat(Cat(PAo, C), Q)
  <2>1. Cat(PAo, Cat(C, Q)) = Cat(Cat(PAo, C), Q)
    BY ONLY <1>3, <1>5, CatRegroups
  <2>2. QED
    BY ONLY <1>4, <1>10, <2>1
<1>12. Len(PA) = Len(P) + Len(A) /\ Len(PAo) = Len(PA) + Len(o) /\ Len(P) \in Nat /\ Len(A) \in Nat
  <2>1. Len(P \o A) = Len(P) + Len(A) /\ Len(PA \o o) = Len(PA) + Len(o)
    BY ONLY <1>3, <1>5, ConcatProperties
  <2>2. Len(P) \in Nat /\ Len(A) \in Nat
    BY ONLY <1>3, LenProperties
  <2>3. QED
    BY <1>4, <2>1, <2>2 DEF Cat
<1>13. Len(PAo) = v + (1 + Len(A))
  BY <1>1, <1>2, <1>12
<1>14. Behind(D, s, C, v + (1 + Len(A)))
  <2>1. PlacedAt(D, s, C, PAo, Q)
    BY <1>3, <1>5, <1>11 DEF PlacedAt, Cat
  <2>2. QED
    BY <1>13, <2>1 DEF Behind
<1>15. NodeAt(D, s, PA, n, CQ)
  BY <1>2, <1>4, <1>5, <1>10 DEF NodeAt, Cat
<1>16. NodeInPlace(s, PA, n, CQ)
  BY <1>15, PlacesOfNode
<1>17. Len(PA) + 1 \in DOMAIN s /\ s[Len(PA) + 1] = n
  BY <1>16 DEF NodeInPlace
<1>18. Len(PA) + 1 = v + (1 + Len(A))
  BY <1>1, <1>12
<1>19. QED
  BY <1>8, <1>14, <1>17, <1>18

\* What the climb adds at m: what its parent has on the left, and the parent, when m is on
\* the right of it.
AddsLeft(add, par, ch, S, r, size) ==
  \A m \in S : m # r => add[m] = IF m = ch[par[m]]["right"] THEN 1 + size[par[m]] ELSE 0

RankClimbs(w, S, r, par, add, N) == \A k \in 0..N, m \in S : w[k][m] = RankTurn(w, k, m, r, par, add)

\* The climb finds how many are in the list before what hangs from m.
LEMMA RankIsPlace ==
  ASSUME NEW ch, NEW par, NEW S, NEW nil, NEW h, NEW N \in Nat, Shaped(ch, par, S, nil, h, N),
         NEW io, IsInOrder(io, ch, S, nil), NEW r, Rooted(ch, par, r, S, nil),
         NEW size, LeftCounts(size, io, ch, S), NEW add, AddsLeft(add, par, ch, S, r, size),
         NEW w, RankClimbs(w, S, r, par, add, N)
  PROVE  \A m \in S : Behind(S, io[r], io[m], w[N][m])
<1>1. /\ Below(ch, S, nil, h) /\ nil \notin S
      /\ \A n \in S : h[n] \in 1..N
      /\ \A n \in S : ch[n]["left"] # nil => ch[n]["left"] # ch[n]["right"]
  BY DEF Shaped, Below
<1>2. \A m \in S \cup {nil} : io[m] \in Seq(S)
  BY NodesUnfold
<1>3. PICK s : s = io[r]
  OBVIOUS
<1>4. Behind(S, s, s, 0)
  <2>1. PICK e : e = <<>> /\ e \in Seq(S) /\ Len(e) = 0
    BY EmptySeq
  <2>2. s \in Seq(S)
    BY <1>2, <1>3 DEF Rooted
  <2>3. s = (e \o s) \o e
    BY <2>1, <2>2, ConcatEmptySeq
  <2>4. QED
    BY <2>1, <2>2, <2>3 DEF Behind, PlacedAt
<1> DEFINE T == {q \in Nat : \A k \in 0..N, m \in S :
                               N - h[m] =< q /\ q =< k => Behind(S, s, io[m], w[k][m])}
<1>5. ASSUME NEW m \in S, m # r
      PROVE  /\ par[m] \in S /\ h[m] < h[par[m]]
             /\ m = ch[par[m]]["left"] \/ m = ch[par[m]]["right"]
             /\ NodeAt(S, io[par[m]], io[ch[par[m]]["left"]], par[m], io[ch[par[m]]["right"]])
  <2>1. PICK p : p = par[m]
    OBVIOUS
  <2>2. PICK d \in TwoSides : p \in S /\ ch[p][d] = m
    BY <1>5, <2>1 DEF Rooted
  <2>3. m # nil
    BY <1>1
  <2>4. h[m] < h[p]
    BY <1>1, <2>2, <2>3 DEF Below
  <2>5. ch[p]["left"] \in S \cup {nil} /\ ch[p]["right"] \in S \cup {nil}
    BY <1>1, <2>2 DEF Below, TwoSides
  <2>6. io[ch[p]["left"]] \in Seq(S) /\ io[ch[p]["right"]] \in Seq(S)
    BY <1>2, <2>5
  <2>7. NodeAt(S, io[p], io[ch[p]["left"]], p, io[ch[p]["right"]])
    BY <2>2, <2>6 DEF IsInOrder, NodeAt
  <2>8. QED
    BY <2>1, <2>2, <2>4, <2>7 DEF TwoSides
<1>6. \A k \in 0..N : r \in S => Behind(S, s, io[r], w[k][r])
  BY <1>3, <1>4 DEF RankTurn, RankClimbs
<1>7. 0 \in T
  <2>1. SUFFICES ASSUME NEW k \in 0..N, NEW m \in S, N - h[m] =< 0 PROVE Behind(S, s, io[m], w[k][m])
    OBVIOUS
  <2>2. h[m] = N
    BY <1>1, <2>1
  <2>3. m = r
    <3>1. SUFFICES ASSUME m # r PROVE FALSE
      OBVIOUS
    <3>2. par[m] \in S /\ h[m] < h[par[m]]
      BY <1>5, <3>1
    <3>3. h[par[m]] \in 1..N
      BY <1>1, <3>2
    <3>4. QED
      BY <2>2, <3>2, <3>3
  <2>4. QED
    BY <1>6, <2>3
<1>8. ASSUME NEW q \in Nat, q \in T PROVE q + 1 \in T
  <2>1. SUFFICES ASSUME NEW k \in 0..N, NEW m \in S, N - h[m] =< q + 1, q + 1 =< k
                 PROVE  Behind(S, s, io[m], w[k][m])
    OBVIOUS
  <2>2. CASE m = r
    BY <1>6, <2>2
  <2>3. CASE m # r
    <3>1. PICK p : p = par[m]
      OBVIOUS
    <3>2. /\ p \in S /\ h[m] < h[p]
          /\ m = ch[p]["left"] \/ m = ch[p]["right"]
          /\ NodeAt(S, io[p], io[ch[p]["left"]], p, io[ch[p]["right"]])
      BY <1>5, <2>3, <3>1
    <3>3. k - 1 \in 0..N /\ N - h[p] =< q /\ q =< k - 1 /\ k # 0
      <4>1. h[p] \in 1..N /\ h[m] \in 1..N
        BY <1>1, <3>2
      <4>2. QED
        BY <2>1, <3>2, <4>1
    <3>4. PICK v : v = w[k - 1][p]
      OBVIOUS
    <3>5. Behind(S, s, io[p], v)
      BY <1>8, <3>2, <3>3, <3>4
    <3>6. PICK A, C : A = io[ch[p]["left"]] /\ C = io[ch[p]["right"]]
      OBVIOUS
    <3>7. /\ Behind(S, s, A, v)
          /\ Behind(S, s, C, v + (1 + Len(A)))
      BY <3>2, <3>5, <3>6, BehindSides
    <3>8. w[k][m] = v + add[m]
      BY <2>3, <3>1, <3>3, <3>4 DEF RankTurn, RankClimbs
    <3>9. add[m] = IF m = ch[p]["right"] THEN 1 + Len(A) ELSE 0
      BY <2>3, <3>1, <3>2, <3>6 DEF AddsLeft, LeftCounts
    <3>10. CASE m = ch[p]["right"]
      BY <3>6, <3>7, <3>8, <3>9, <3>10
    <3>11. CASE m # ch[p]["right"]
      <4>1. io[m] = A
        BY <3>2, <3>6, <3>11
      <4>2. v \in Nat
        BY <3>7, LenProperties DEF Behind, PlacedAt
      <4>3. w[k][m] = v
        BY <3>8, <3>9, <3>11, <4>2
      <4>4. QED
        BY <3>7, <4>1, <4>3
    <3>12. QED
      BY <3>10, <3>11
  <2>4. QED
    BY <2>2, <2>3
<1>9. \A q \in Nat : q \in T
  <2> HIDE DEF T
  <2>1. QED
    BY <1>7, <1>8, Induction
<1>10. \A m \in S : N - h[m] =< N
  BY <1>1
<1>11. QED
  BY <1>3, <1>9, <1>10

-----------------------------------------------------------------------------
(* Trees that hang from a root. *)

\* The nodes of S hang from r, each child names its parent, and no chain of children
\* is a loop.
Grown(S, nil, r, ch, par) ==
  /\ IsFiniteSet(S)
  /\ nil \notin S
  /\ r \in S \cup {nil}
  /\ r # nil => par[r] = nil
  /\ \A n \in S : ch[n]["left"] # nil => ch[n]["left"] # ch[n]["right"]
  /\ \A n \in S, d \in TwoSides : ch[n][d] # nil => par[ch[n][d]] = n
  /\ \A n \in S : IF par[n] = nil THEN n = r
                  ELSE par[n] \in S /\ \E d \in TwoSides : ch[par[n]][d] = n
  /\ \E h \in [S -> Nat] : Below(ch, S, nil, h)

\* What that says node by node.
Hung(S, nil, r, ch, par) ==
  /\ nil \notin S
  /\ r \in S \cup {nil}
  /\ r # nil => par[r] = nil
  /\ \A n \in S : /\ par[n] # n
                  /\ IF par[n] = nil THEN n = r
                     ELSE par[n] \in S /\ \E d \in TwoSides : ch[par[n]][d] = n
  /\ \A n \in S, d \in TwoSides :
       /\ ch[n][d] \in S \cup {nil}
       /\ ch[n][d] # nil => /\ par[ch[n][d]] = n
                            /\ ch[n][d] # n
                            /\ ch[n][d] # par[n]
                            /\ ch[n][d] # r
                            /\ ch[n][d] # ch[n][Across(d)]

\* The two sides, and that they are opposite.
LEMMA BothSides ==
  /\ TwoSides = {"left", "right"}
  /\ Across("left") = "right"
  /\ Across("right") = "left"
  /\ \A d \in TwoSides : Across(d) \in TwoSides /\ Across(d) # d /\ Across(Across(d)) = d
  /\ \A d, e \in TwoSides : e = d \/ e = Across(d)
BY DEF TwoSides, Across

\* A tree that hangs from a root, node by node ...
LEMMA GrownIsHung ==
  ASSUME NEW S, NEW nil, NEW r, NEW ch, NEW par, Grown(S, nil, r, ch, par)
  PROVE  Hung(S, nil, r, ch, par)
<1>1. PICK h \in [S -> Nat] : Below(ch, S, nil, h)
  BY DEF Grown
<1>2. ASSUME NEW n \in S, NEW d \in TwoSides
      PROVE  ch[n][d] \in S \cup {nil} /\ (ch[n][d] # nil => h[ch[n][d]] < h[n])
  BY <1>1 DEF Below
<1>3. ASSUME NEW n \in S PROVE par[n] # n /\ (par[n] # nil => h[n] < h[par[n]])
  <2>1. CASE par[n] = nil
    BY <2>1 DEF Grown
  <2>2. CASE par[n] # nil
    <3>1. par[n] \in S
      BY <2>2 DEF Grown
    <3>2. PICK d \in TwoSides : ch[par[n]][d] = n
      BY <2>2 DEF Grown
    <3>3. h[n] < h[par[n]] /\ h[n] \in Nat
      BY <1>2, <3>1, <3>2 DEF Grown
    <3>4. QED
      BY <3>3
  <2>3. QED
    BY <2>1, <2>2
<1>4. ASSUME NEW n \in S, NEW d \in TwoSides, ch[n][d] # nil
      PROVE  /\ par[ch[n][d]] = n
             /\ ch[n][d] # n
             /\ ch[n][d] # par[n]
             /\ ch[n][d] # r
             /\ ch[n][d] # ch[n][Across(d)]
  <2>1. par[ch[n][d]] = n /\ ch[n][d] \in S
    BY <1>2, <1>4 DEF Grown
  <2>2. h[ch[n][d]] < h[n] /\ h[n] \in Nat
    BY <1>2, <1>4
  <2>3. ch[n][d] # par[n]
    BY <1>3, <2>1, <2>2, <1>4
  <2>4. ch[n][d] # ch[n][Across(d)]
    BY <1>4, BothSides DEF Grown
  <2>5. QED
    BY <2>1, <2>2, <2>3, <2>4, <1>4 DEF Grown
<1>5. QED
  BY <1>2, <1>3, <1>4 DEF Grown, Hung

\* ... is what the lemmas about walks assume, for every budget that is large enough.
LEMMA GrownIsShaped ==
  ASSUME NEW S, NEW nil, NEW r, NEW ch, NEW par, Grown(S, nil, r, ch, par),
         NEW N \in Nat, Cardinality(S) =< N
  PROVE  /\ \E h : Shaped(ch, par, S, nil, h, N)
         /\ Rooted(ch, par, r, S, nil)
<1>1. IsFiniteSet(S)
  BY DEF Grown
<1>2. PICK h0 \in [S -> Nat] : Below(ch, S, nil, h0)
  BY DEF Grown
<1>3. PICK h \in [S -> 1..Cardinality(S)] : Below(ch, S, nil, h)
  BY <1>1, <1>2, LowHeights
<1>4. Cardinality(S) \in Nat
  BY <1>1, FS_CardinalityType
<1>5. \A n \in S : h[n] \in 1..N
  BY <1>3, <1>4
<1>6. Shaped(ch, par, S, nil, h, N)
  BY <1>3, <1>5 DEF Grown, Shaped
<1>7. Rooted(ch, par, r, S, nil)
  BY DEF Grown, Rooted
<1>8. QED
  BY <1>6, <1>7

\* The lists of such a tree, node by node.
Listed(S, nil, r, ch, par, io) ==
  /\ io[nil] = <<>>
  /\ Nodes(io, nil) = {}
  /\ Nodes(io, r) = S
  /\ \A n \in S \cup {nil} : io[n] \in Seq(S) /\ Distinct(io[n]) /\ Nodes(io, n) \subseteq S
  /\ \A n \in S : n \in Nodes(io, n) /\ par[n] \notin Nodes(io, n)
  /\ \A n \in S, d \in TwoSides :
       /\ Nodes(io, n) = Nodes(io, ch[n][d]) \cup {n} \cup Nodes(io, ch[n][Across(d)])
       /\ n \notin Nodes(io, ch[n][d])
       /\ Nodes(io, ch[n][d]) \cap Nodes(io, ch[n][Across(d)]) = {}
       /\ io[n] = Put(d, io[ch[n][d]], n, io[ch[n][Across(d)]])

LEMMA GrownIsListed ==
  ASSUME NEW S, NEW nil, NEW r, NEW ch, NEW par, Grown(S, nil, r, ch, par),
         NEW io, IsInOrder(io, ch, S, nil)
  PROVE  Listed(S, nil, r, ch, par, io)
<1>1. PICK N \in Nat : N = Cardinality(S)
  BY FS_CardinalityType DEF Grown
<1>2. PICK h : Shaped(ch, par, S, nil, h, N)
  BY <1>1, GrownIsShaped
<1>3. Rooted(ch, par, r, S, nil)
  BY <1>1, GrownIsShaped
<1>4. /\ Nodes(io, nil) = {}
      /\ \A n \in S \cup {nil} : io[n] \in Seq(S) /\ Nodes(io, n) \subseteq S
      /\ \A n \in S : Nodes(io, n) = Nodes(io, ch[n]["left"]) \cup {n} \cup Nodes(io, ch[n]["right"])
  BY <1>2, NodesUnfold
<1>5. \A n \in S : n \in Nodes(io, n) /\ \A m \in Nodes(io, n) : m # n => h[m] < h[n]
  BY <1>2, NodesBelow
<1>6. ASSUME NEW n \in S PROVE par[n] \notin Nodes(io, n)
  <2>1. SUFFICES ASSUME par[n] \in Nodes(io, n) PROVE FALSE
    OBVIOUS
  <2>2. par[n] \in S /\ nil \notin S
    BY <1>2, <1>4, <2>1 DEF Shaped, Below
  <2>3. PICK d \in TwoSides : ch[par[n]][d] = n
    BY <1>3, <2>2 DEF Rooted
  <2>4. h[n] < h[par[n]] /\ h[n] \in Nat /\ h[par[n]] \in Nat
    BY <1>2, <2>2, <2>3 DEF Shaped, Below
  <2>5. h[par[n]] < h[n] \/ par[n] = n
    BY <1>5, <2>1
  <2>6. QED
    BY <2>4, <2>5
<1>7. ASSUME NEW n \in S, NEW d \in TwoSides
      PROVE  /\ Nodes(io, n) = Nodes(io, ch[n][d]) \cup {n} \cup Nodes(io, ch[n][Across(d)])
             /\ n \notin Nodes(io, ch[n][d])
             /\ Nodes(io, ch[n][d]) \cap Nodes(io, ch[n][Across(d)]) = {}
  <2>1. /\ Nodes(io, ch[n]["left"]) \cap Nodes(io, ch[n]["right"]) = {}
        /\ \A e \in TwoSides : n \notin Nodes(io, ch[n][e])
    BY <1>2, SidesApart
  <2>2. CASE d = "left"
    BY <1>4, <2>1, <2>2, BothSides
  <2>3. CASE d = "right"
    BY <1>4, <2>1, <2>3, BothSides
  <2>4. QED
    BY <2>2, <2>3, BothSides
<1>8. \A n \in S \cup {nil} : Distinct(io[n])
  BY <1>2, WalkDistinct
<1>9. \A n \in S, d \in TwoSides : io[n] = Put(d, io[ch[n][d]], n, io[ch[n][Across(d)]])
  BY PutEither
<1>10. Nodes(io, r) = S
  BY <1>2, <1>3, WalkMeetsAll
<1>11. io[nil] = <<>>
  BY DEF IsInOrder
<1>12. QED
  BY <1>4, <1>5, <1>6, <1>7, <1>8, <1>9, <1>10, <1>11 DEF Listed

\* A list where no pointer below its node changes ...
LEMMA ListUnchanged ==
  ASSUME NEW S, NEW nil, NEW r, NEW ch, NEW par, Grown(S, nil, r, ch, par),
         NEW io, IsInOrder(io, ch, S, nil),
         NEW S2, NEW ch2, NEW io2, IsInOrder(io2, ch2, S2, nil),
         NEW n \in S \cup {nil},
         \A m \in Nodes(io, n) : m \in S2 /\ \A d \in TwoSides : ch2[m][d] = ch[m][d]
  PROVE  io2[n] = io[n]
<1>1. PICK N \in Nat : N = Cardinality(S)
  BY FS_CardinalityType DEF Grown
<1>2. PICK h : Shaped(ch, par, S, nil, h, N)
  BY <1>1, GrownIsShaped
<1>3. QED
  BY <1>2, SameBelow

\* ... and the list of the root where p2 takes the place of p.
LEMMA ListChanged ==
  ASSUME NEW S, NEW nil, NEW r, NEW ch, NEW par, Grown(S, nil, r, ch, par),
         NEW io, IsInOrder(io, ch, S, nil),
         NEW S2, NEW ch2, NEW io2, IsInOrder(io2, ch2, S2, nil),
         NEW D, S \subseteq D, S2 \subseteq D,
         NEW p \in S, NEW p2 \in S2 \cup {nil}, SwappedAt(ch, S, io, ch2, S2, p, p2),
         NEW r2, r2 = IF r = p THEN p2 ELSE r
  PROVE  Within(io[r], io[p], io2[r2], io2[p2], D)
<1>1. PICK N \in Nat : N = Cardinality(S)
  BY FS_CardinalityType DEF Grown
<1>2. PICK h : Shaped(ch, par, S, nil, h, N)
  BY <1>1, GrownIsShaped
<1>3. Rooted(ch, par, r, S, nil)
  BY <1>1, GrownIsShaped
<1>4. QED
  BY <1>2, <1>3, ListChange

-----------------------------------------------------------------------------
(* Changes of shape, pointer by pointer. *)

\* A rotation at p to side d that brings s up.
Turns(S, r, ch, par, r2, ch2, par2, p, s, d) ==
  /\ p \in S /\ s \in S /\ d \in TwoSides /\ ch[p][Across(d)] = s
  /\ r2 = IF r = p THEN s ELSE r
  /\ \A n \in S, e \in TwoSides :
       ch2[n][e] = IF n = p /\ e # d THEN ch[s][d] ELSE IF n = s /\ e = d THEN p
                   ELSE IF ch[n][e] = p THEN s ELSE ch[n][e]
  /\ \A n \in S : par2[n] = IF n = p THEN s ELSE IF n = s THEN par[p]
                            ELSE IF n = ch[s][d] THEN p ELSE par[n]

\* n leaves and its one child c, or nothing, takes its place.
Cuts(S, nil, r, ch, par, r2, ch2, par2, n, c, d) ==
  /\ n \in S /\ d \in TwoSides /\ ch[n][Across(d)] = nil /\ c = ch[n][d]
  /\ r2 = IF r = n THEN c ELSE r
  /\ \A m \in S \ {n}, e \in TwoSides : ch2[m][e] = IF ch[m][e] = n THEN c ELSE ch[m][e]
  /\ \A m \in S \ {n} : par2[m] = IF m = c THEN par[n] ELSE par[m]

\* new takes the place of old.
Takes(S, nil, r, ch, par, r2, ch2, par2, old, new) ==
  /\ old \in S /\ new \notin S /\ new # nil
  /\ r2 = IF r = old THEN new ELSE r
  /\ \A e \in TwoSides : ch2[new][e] = ch[old][e]
  /\ \A m \in S \ {old}, e \in TwoSides : ch2[m][e] = IF ch[m][e] = old THEN new ELSE ch[m][e]
  /\ par2[new] = par[old]
  /\ \A m \in S \ {old} : par2[m] = IF par[m] = old THEN new ELSE par[m]

\* The leaf n comes below p.
Hangs(S, nil, r, ch, par, r2, ch2, par2, n, p, d) ==
  /\ p \in S /\ d \in TwoSides /\ ch[p][d] = nil /\ n \notin S /\ n # nil
  /\ r2 = r
  /\ \A e \in TwoSides : ch2[n][e] = nil
  /\ \A m \in S, e \in TwoSides : ch2[m][e] = IF m = p /\ e = d THEN n ELSE ch[m][e]
  /\ par2[n] = p
  /\ \A m \in S : par2[m] = par[m]

\* Around a rotation.
LEMMA TurnSurroundings ==
  ASSUME NEW S, NEW nil, NEW r, NEW ch, NEW par, Hung(S, nil, r, ch, par),
         NEW r2, NEW ch2, NEW par2, NEW p, NEW s, NEW d,
         Turns(S, r, ch, par, r2, ch2, par2, p, s, d)
  PROVE  /\ p \in S /\ s \in S /\ p # s /\ par[s] = p /\ par[p] # p /\ par[p] # s
         /\ ch[p][d] = nil \/ ch[p][d] \in S \ {p, s, r}
         /\ ch[s][d] = nil \/ ch[s][d] \in S \ {p, s, r, ch[p][d]}
         /\ ch2[p][d] = ch[p][d] /\ ch2[p][Across(d)] = ch[s][d]
         /\ ch2[s][d] = p /\ ch2[s][Across(d)] = ch[s][Across(d)]
         /\ \A n \in S \ {p, s}, e \in TwoSides :
              /\ ch[n][e] # s
              /\ ch[n][e] = p => n = par[p] /\ ch2[n][e] = s
              /\ ch[n][e] # p => ch2[n][e] = ch[n][e]
<1>1. /\ p \in S /\ s \in S /\ d \in TwoSides /\ ch[p][Across(d)] = s
      /\ \A n \in S, e \in TwoSides :
           ch2[n][e] = IF n = p /\ e # d THEN ch[s][d] ELSE IF n = s /\ e = d THEN p
                       ELSE IF ch[n][e] = p THEN s ELSE ch[n][e]
  BY DEF Turns
<1>2. Across(d) \in TwoSides /\ Across(d) # d /\ Across(Across(d)) = d
  BY <1>1, BothSides
<1>3. nil \notin S
  BY DEF Hung
<1>4. /\ p # s /\ par[s] = p /\ par[p] # p /\ par[p] # s
      /\ s # ch[p][d]
  BY <1>1, <1>2, <1>3 DEF Hung
<1>5. /\ ch[p][d] = nil \/ ch[p][d] \in S \ {p, s, r}
      /\ ch[s][d] = nil \/ ch[s][d] \in S \ {p, s, r, ch[p][d]}
  BY <1>1, <1>2, <1>3, <1>4 DEF Hung
<1>6. ASSUME NEW n \in S \ {p, s}, NEW e \in TwoSides
      PROVE  /\ ch[n][e] # s
             /\ ch[n][e] = p => n = par[p] /\ ch2[n][e] = s
             /\ ch[n][e] # p => ch2[n][e] = ch[n][e]
  BY <1>1, <1>3, <1>4 DEF Hung
<1>7. ch[p][d] # p /\ ch[s][Across(d)] # p
  BY <1>1, <1>2, <1>3, <1>4 DEF Hung
<1>8. /\ ch2[p][d] = ch[p][d] /\ ch2[p][Across(d)] = ch[s][d]
      /\ ch2[s][d] = p /\ ch2[s][Across(d)] = ch[s][Across(d)]
  BY <1>1, <1>2, <1>4, <1>7
<1>9. QED
  BY <1>1, <1>3, <1>4, <1>5, <1>6, <1>8

\* A rotation leaves a tree: s takes the height of p, which gets one that was free
\* between its own and that of its children.
LEMMA TurnGrows ==
  ASSUME NEW S, NEW nil, NEW r, NEW ch, NEW par, Grown(S, nil, r, ch, par),
         NEW r2, NEW ch2, NEW par2, NEW p, NEW s, NEW d,
         Turns(S, r, ch, par, r2, ch2, par2, p, s, d)
  PROVE  Grown(S, nil, r2, ch2, par2)
<1>1. Hung(S, nil, r, ch, par)
  BY GrownIsHung
<1>2. /\ p \in S /\ s \in S /\ p # s /\ par[s] = p /\ par[p] # p /\ par[p] # s
      /\ ch[p][d] = nil \/ ch[p][d] \in S \ {p, s, r}
      /\ ch[s][d] = nil \/ ch[s][d] \in S \ {p, s, r, ch[p][d]}
      /\ ch2[p][d] = ch[p][d] /\ ch2[p][Across(d)] = ch[s][d]
      /\ ch2[s][d] = p /\ ch2[s][Across(d)] = ch[s][Across(d)]
      /\ \A n \in S \ {p, s}, e \in TwoSides :
           /\ ch[n][e] # s
           /\ ch[n][e] = p => n = par[p] /\ ch2[n][e] = s
           /\ ch[n][e] # p => ch2[n][e] = ch[n][e]
  BY <1>1, TurnSurroundings
<1>3. /\ d \in TwoSides /\ Across(d) \in TwoSides /\ Across(d) # d
      /\ \A e \in TwoSides : e = d \/ e = Across(d)
      /\ ch[p][Across(d)] = s
      /\ r2 = IF r = p THEN s ELSE r
      /\ \A n \in S : par2[n] = IF n = p THEN s ELSE IF n = s THEN par[p]
                                ELSE IF n = ch[s][d] THEN p ELSE par[n]
  BY BothSides DEF Turns
<1>4. nil \notin S /\ r \in S \cup {nil}
  BY <1>1 DEF Hung
<1>5. r2 \in S \cup {nil} /\ (r2 # nil => par2[r2] = nil)
  BY <1>1, <1>2, <1>3, <1>4 DEF Hung
<1>6. ASSUME NEW n \in S, NEW e \in TwoSides, ch2[n][e] # nil
      PROVE  ch2[n][e] \in S /\ par2[ch2[n][e]] = n /\ ch2[n][e] # ch2[n][Across(e)]
  <2>1. CASE n = p /\ e = d
    BY <1>1, <1>2, <1>3, <1>4, <1>6, <2>1 DEF Hung
  <2>2. CASE n = p /\ e # d
    BY <1>1, <1>2, <1>3, <1>4, <1>6, <2>2, BothSides DEF Hung
  <2>3. CASE n = s /\ e = d
    BY <1>1, <1>2, <1>3, <1>4, <1>6, <2>3 DEF Hung
  <2>4. CASE n = s /\ e # d
    BY <1>1, <1>2, <1>3, <1>4, <1>6, <2>4, BothSides DEF Hung
  <2>5. CASE n \notin {p, s}
    <3>1. Across(e) \in TwoSides
      BY BothSides
    <3>2. CASE ch[n][e] = p
      <4>1. ch[n][Across(e)] # p
        BY <1>1, <1>2, <1>4, <3>1, <3>2 DEF Hung
      <4>2. QED
        BY <1>1, <1>2, <1>3, <1>4, <1>6, <2>5, <3>1, <3>2, <4>1 DEF Hung
    <3>3. CASE ch[n][e] # p
      <4>1. ch2[n][e] = ch[n][e] /\ ch[n][e] \in S \ {p, s} /\ ch[n][e] # ch[n][Across(e)]
        BY <1>1, <1>2, <1>6, <2>5, <3>3 DEF Hung
      <4>2. ch[n][e] # ch[s][d]
        BY <1>1, <1>2, <1>3, <1>6, <2>5, <4>1 DEF Hung
      <4>3. par2[ch[n][e]] = n
        BY <1>1, <1>3, <1>4, <4>1, <4>2 DEF Hung
      <4>4. ch2[n][e] # ch2[n][Across(e)]
        BY <1>2, <2>5, <3>1, <4>1
      <4>5. QED
        BY <4>1, <4>3, <4>4
    <3>4. QED
      BY <3>2, <3>3
  <2>6. QED
    BY <2>1, <2>2, <2>3, <2>4, <2>5
<1>7. ASSUME NEW n \in S
      PROVE  IF par2[n] = nil THEN n = r2
             ELSE par2[n] \in S /\ \E e \in TwoSides : ch2[par2[n]][e] = n
  <2>1. CASE n = p
    BY <1>2, <1>3, <1>4, <2>1
  <2>2. CASE n = s
    <3>1. par2[n] = par[p]
      BY <1>2, <1>3, <2>2
    <3>2. CASE par[p] = nil
      BY <1>1, <1>2, <1>3, <2>2, <3>1, <3>2 DEF Hung
    <3>3. CASE par[p] # nil
      <4>1. PICK e \in TwoSides : par[p] \in S /\ ch[par[p]][e] = p
        BY <1>1, <1>2, <3>3 DEF Hung
      <4>2. ch2[par[p]][e] = s
        BY <1>2, <4>1
      <4>3. QED
        BY <2>2, <3>1, <3>3, <4>1, <4>2
    <3>4. QED
      BY <3>2, <3>3
  <2>3. CASE n \notin {p, s} /\ n = ch[s][d]
    BY <1>2, <1>3, <1>4, <2>3
  <2>4. CASE n \notin {p, s} /\ n # ch[s][d]
    <3>1. par2[n] = par[n]
      BY <1>3, <2>4
    <3>2. CASE par[n] = nil
      BY <1>1, <1>2, <1>3, <2>4, <3>1, <3>2 DEF Hung
    <3>3. CASE par[n] # nil
      <4>1. PICK e \in TwoSides : par[n] \in S /\ ch[par[n]][e] = n
        BY <1>1, <3>3 DEF Hung
      <4>2. ch2[par[n]][e] = n
        BY <1>2, <1>3, <2>4, <4>1
      <4>3. QED
        BY <3>1, <3>3, <4>1, <4>2
    <3>4. QED
      BY <3>2, <3>3
  <2>5. QED
    BY <2>1, <2>2, <2>3, <2>4
<1>8. PICK h \in [S -> Nat] : Below(ch, S, nil, h)
  BY DEF Grown
<1>9. /\ \A n \in S, e \in TwoSides : ch[n][e] # nil => h[ch[n][e]] < h[n]
      /\ \A n \in S : h[n] \in Nat
      /\ h[s] < h[p]
  BY <1>2, <1>3, <1>4, <1>8 DEF Below
<1>10. PICK g \in [S -> Nat] :
        \A n \in S : g[n] = IF n = s THEN 2 * h[p] ELSE IF n = p THEN 2 * h[p] - 1 ELSE 2 * h[n]
  <2> DEFINE g == [n \in S |-> IF n = s THEN 2 * h[p] ELSE IF n = p THEN 2 * h[p] - 1 ELSE 2 * h[n]]
  <2>1. \A n \in S : g[n] \in Nat
    <3>1. 2 * h[p] - 1 \in Nat /\ 2 * h[p] \in Nat
      BY <1>2, <1>9
    <3>2. \A n \in S : 2 * h[n] \in Nat
      BY <1>9
    <3>3. QED
      BY <3>1, <3>2
  <2>2. g \in [S -> Nat]
    BY <2>1
  <2>3. QED
    BY <2>2
<1>11. ASSUME NEW n \in S, NEW e \in TwoSides, ch2[n][e] # nil
       PROVE  g[ch2[n][e]] < g[n]
  <2>1. h[n] \in Nat /\ h[p] \in Nat /\ h[s] \in Nat /\ ch2[n][e] \in S
    BY <1>2, <1>6, <1>9, <1>11
  <2>2. \A m \in S \ {p, s} : g[m] = 2 * h[m] /\ h[m] \in Nat
    BY <1>9, <1>10
  <2>3. g[s] = 2 * h[p] /\ g[p] = 2 * h[p] - 1
    BY <1>2, <1>10
  <2>4. CASE n = p
    <3>1. ch2[n][e] \in S \ {p, s} /\ h[ch2[n][e]] < h[p]
      <4>1. CASE e = d
        BY <1>2, <1>3, <1>9, <1>11, <2>4, <4>1
      <4>2. CASE e # d
        <5>1. ch2[n][e] = ch[s][d] /\ ch[s][d] \in S \ {p, s}
          BY <1>2, <1>3, <1>11, <2>4, <4>2
        <5>2. h[ch[s][d]] < h[s] /\ h[ch[s][d]] \in Nat
          BY <1>2, <1>3, <1>4, <1>9, <5>1
        <5>3. QED
          BY <1>9, <2>1, <5>1, <5>2
      <4>3. QED
        BY <4>1, <4>2
    <3>2. QED
      BY <2>1, <2>2, <2>3, <2>4, <3>1
  <2>5. CASE n = s
    <3>1. CASE e = d
      BY <1>2, <2>1, <2>3, <2>5, <3>1
    <3>2. CASE e # d
      <4>1. ch2[n][e] = ch[s][e] /\ ch[s][e] # p /\ ch[s][e] # s
        BY <1>1, <1>2, <1>3, <1>4, <1>11, <2>5, <3>2 DEF Hung
      <4>2. h[ch[s][e]] < h[s] /\ h[ch[s][e]] \in Nat /\ g[ch[s][e]] = 2 * h[ch[s][e]]
        BY <1>2, <1>9, <1>11, <2>1, <2>2, <2>5, <4>1
      <4>3. QED
        BY <1>9, <2>1, <2>3, <2>5, <4>1, <4>2
    <3>3. QED
      BY <3>1, <3>2
  <2>6. CASE n \notin {p, s} /\ ch[n][e] = p
    <3>1. ch2[n][e] = s /\ h[p] < h[n]
      BY <1>2, <1>4, <1>9, <2>6
    <3>2. QED
      BY <2>1, <2>2, <2>3, <2>6, <3>1
  <2>7. CASE n \notin {p, s} /\ ch[n][e] # p
    <3>1. ch2[n][e] = ch[n][e] /\ ch[n][e] \in S \ {p, s} /\ h[ch[n][e]] < h[n]
      BY <1>2, <1>9, <1>11, <2>1, <2>7
    <3>2. QED
      BY <2>1, <2>2, <2>7, <3>1
  <2>8. QED
    BY <2>4, <2>5, <2>6, <2>7
<1>12. Below(ch2, S, nil, g)
  BY <1>4, <1>6, <1>11 DEF Below
<1>13. \A n \in S : ch2[n]["left"] # nil => ch2[n]["left"] # ch2[n]["right"]
  BY <1>6, BothSides
<1>14. IsFiniteSet(S)
  BY DEF Grown
<1>15. QED
  BY <1>4, <1>5, <1>6, <1>7, <1>10, <1>12, <1>13, <1>14 DEF Grown

\* A rotation does nothing to the list.
LEMMA TurnLists ==
  ASSUME NEW S, NEW nil, NEW r, NEW ch, NEW par, Grown(S, nil, r, ch, par),
         NEW r2, NEW ch2, NEW par2, NEW p, NEW s, NEW d,
         Turns(S, r, ch, par, r2, ch2, par2, p, s, d),
         NEW io, IsInOrder(io, ch, S, nil), NEW io2, IsInOrder(io2, ch2, S, nil)
  PROVE  io2[r2] = io[r]
<1>1. Hung(S, nil, r, ch, par) /\ Grown(S, nil, r2, ch2, par2)
  BY GrownIsHung, TurnGrows
<1>2. /\ p \in S /\ s \in S /\ p # s /\ par[p] # s
      /\ ch[p][d] = nil \/ ch[p][d] \in S \ {p, s, r}
      /\ ch[s][d] = nil \/ ch[s][d] \in S \ {p, s, r, ch[p][d]}
      /\ ch2[p][d] = ch[p][d] /\ ch2[p][Across(d)] = ch[s][d]
      /\ ch2[s][d] = p /\ ch2[s][Across(d)] = ch[s][Across(d)]
      /\ \A n \in S \ {p, s}, e \in TwoSides :
           /\ ch[n][e] = p => n = par[p] /\ ch2[n][e] = s
           /\ ch[n][e] # p => ch2[n][e] = ch[n][e]
  BY <1>1, TurnSurroundings
<1>3. /\ d \in TwoSides /\ Across(d) \in TwoSides
      /\ ch[p][Across(d)] = s
      /\ r2 = IF r = p THEN s ELSE r
  BY BothSides DEF Turns
<1>4. PICK a, t, b : a = ch[p][d] /\ t = ch[s][d] /\ b = ch[s][Across(d)]
  OBVIOUS
<1>5. a \in S \cup {nil} /\ t \in S \cup {nil} /\ b \in S \cup {nil}
  BY <1>1, <1>2, <1>3, <1>4 DEF Hung
<1>6. Listed(S, nil, r, ch, par, io) /\ Listed(S, nil, r2, ch2, par2, io2)
  BY <1>1, GrownIsListed
<1>7. /\ Nodes(io, p) = Nodes(io, a) \cup {p} \cup Nodes(io, s)
      /\ Nodes(io, s) = Nodes(io, t) \cup {s} \cup Nodes(io, b)
      /\ p \notin Nodes(io, a) /\ p \notin Nodes(io, s)
      /\ s \notin Nodes(io, t) /\ s \notin Nodes(io, b)
      /\ Nodes(io, a) \cap Nodes(io, s) = {}
      /\ par[p] \notin Nodes(io, p)
      /\ Nodes(io, p) \subseteq S
  <2>1. \A m \in S, e \in TwoSides :
          /\ Nodes(io, m) = Nodes(io, ch[m][e]) \cup {m} \cup Nodes(io, ch[m][Across(e)])
          /\ m \notin Nodes(io, ch[m][e])
          /\ Nodes(io, ch[m][e]) \cap Nodes(io, ch[m][Across(e)]) = {}
    BY <1>6 DEF Listed
  <2>2. /\ Nodes(io, p) = Nodes(io, a) \cup {p} \cup Nodes(io, s)
        /\ p \notin Nodes(io, a)
        /\ Nodes(io, a) \cap Nodes(io, s) = {}
    BY <1>2, <1>3, <1>4, <2>1
  <2>3. p \notin Nodes(io, s)
    BY <1>2, <1>3, <2>1
  <2>4. /\ Nodes(io, s) = Nodes(io, t) \cup {s} \cup Nodes(io, b)
        /\ s \notin Nodes(io, t)
    BY <1>2, <1>3, <1>4, <2>1
  <2>5. s \notin Nodes(io, b)
    BY <1>2, <1>3, <1>4, <2>1
  <2>6. par[p] \notin Nodes(io, p) /\ Nodes(io, p) \subseteq S
    BY <1>2, <1>6 DEF Listed
  <2>7. QED
    BY <2>2, <2>3, <2>4, <2>5, <2>6
<1>8. ASSUME NEW m \in Nodes(io, p), m # p, m # s, NEW e \in TwoSides PROVE ch2[m][e] = ch[m][e]
  BY <1>2, <1>7, <1>8
<1>9. ASSUME NEW c \in {a, t, b} PROVE io2[c] = io[c]
  <2>1. Nodes(io, c) \subseteq Nodes(io, p) /\ p \notin Nodes(io, c) /\ s \notin Nodes(io, c)
    BY <1>7
  <2>2. \A m \in Nodes(io, c) : m \in S /\ \A e \in TwoSides : ch2[m][e] = ch[m][e]
    BY <1>7, <1>8, <2>1
  <2>3. c \in S \cup {nil}
    BY <1>5
  <2>4. QED
    BY <2>2, <2>3, ListUnchanged
<1>10. /\ io[p] = Put(d, io[a], p, io[s])
       /\ io[s] = Put(d, io[t], s, io[b])
       /\ io[a] \in Seq(S) /\ io[t] \in Seq(S) /\ io[b] \in Seq(S)
  <2>1. io[p] = Put(d, io[a], p, io[s])
    BY <1>2, <1>3, <1>4, <1>6 DEF Listed
  <2>2. io[s] = Put(d, io[t], s, io[b])
    BY <1>2, <1>3, <1>4, <1>6 DEF Listed
  <2>3. io[a] \in Seq(S) /\ io[t] \in Seq(S) /\ io[b] \in Seq(S)
    BY <1>5, <1>6 DEF Listed
  <2>4. QED
    BY <2>1, <2>2, <2>3
<1>11. /\ io2[s] = Put(d, io2[p], s, io2[b])
       /\ io2[p] = Put(d, io2[a], p, io2[t])
  <2>1. \A n \in S, e \in TwoSides : io2[n] = Put(e, io2[ch2[n][e]], n, io2[ch2[n][Across(e)]])
    BY <1>6 DEF Listed
  <2>2. ch2[s][d] = p /\ ch2[s][Across(d)] = b /\ ch2[p][d] = a /\ ch2[p][Across(d)] = t
    BY <1>2, <1>4
  <2>3. QED
    BY <1>2, <1>3, <2>1, <2>2
<1>12. io2[s] = io[p]
  <2>1. Put(d, Put(d, io[a], p, io[t]), s, io[b]) = Put(d, io[a], p, Put(d, io[t], s, io[b]))
    BY <1>2, <1>3, <1>10, PutTurns
  <2>2. io2[a] = io[a] /\ io2[t] = io[t] /\ io2[b] = io[b]
    BY <1>9
  <2>3. QED
    BY <1>10, <1>11, <2>1, <2>2
<1>13. SwappedAt(ch, S, io, ch2, S, p, s)
  <2>1. ASSUME NEW n \in S \ Nodes(io, p), NEW e \in TwoSides
        PROVE  ch2[n][e] = IF ch[n][e] = p THEN s ELSE ch[n][e]
    <3>1. n # p /\ n # s
      BY <1>2, <1>6, <1>7 DEF Listed
    <3>2. QED
      BY <1>2, <3>1
  <2>2. QED
    BY <2>1 DEF SwappedAt
<1>14. Within(io[r], io[p], io2[r2], io2[s], S)
  BY <1>2, <1>3, <1>13, ListChanged
<1>15. QED
  BY <1>12, <1>14 DEF Within

\* A node that has one child at most can leave.
LEMMA CutGrows ==
  ASSUME NEW S, NEW nil, NEW r, NEW ch, NEW par, Grown(S, nil, r, ch, par),
         NEW r2, NEW ch2, NEW par2, NEW n, NEW c, NEW d,
         Cuts(S, nil, r, ch, par, r2, ch2, par2, n, c, d)
  PROVE  Grown(S \ {n}, nil, r2, ch2, par2)
<1>1. Hung(S, nil, r, ch, par)
  BY GrownIsHung
<1>2. /\ n \in S /\ d \in TwoSides /\ ch[n][Across(d)] = nil /\ c = ch[n][d]
      /\ r2 = IF r = n THEN c ELSE r
      /\ \A m \in S \ {n}, e \in TwoSides : ch2[m][e] = IF ch[m][e] = n THEN c ELSE ch[m][e]
      /\ \A m \in S \ {n} : par2[m] = IF m = c THEN par[n] ELSE par[m]
  BY DEF Cuts
<1>3. /\ \A e \in TwoSides : e = d \/ e = Across(d)
      /\ nil \notin S
      /\ c # nil => c \in S \ {n} /\ par[c] = n /\ c # r
      /\ \A e \in TwoSides : ch[n][e] # nil => ch[n][e] = c
  BY <1>1, <1>2, BothSides DEF Hung
<1>4. r2 \in (S \ {n}) \cup {nil} /\ (r2 # nil => par2[r2] = nil)
  BY <1>1, <1>2, <1>3 DEF Hung
<1>5. ASSUME NEW m \in S \ {n}, NEW e \in TwoSides, ch2[m][e] # nil
      PROVE  ch2[m][e] \in S \ {n} /\ par2[ch2[m][e]] = m /\ ch2[m][e] # ch2[m][Across(e)]
  <2>1. Across(e) \in TwoSides
    BY BothSides
  <2>2. CASE ch[m][e] = n
    <3>1. ch2[m][e] = c /\ par[n] = m /\ c \in S \ {n}
      BY <1>1, <1>2, <1>3, <1>5, <2>2 DEF Hung
    <3>2. ch[m][Across(e)] # n /\ ch[m][Across(e)] # c
      BY <1>1, <1>2, <1>3, <2>1, <2>2, <3>1 DEF Hung
    <3>3. QED
      BY <1>2, <2>1, <3>1, <3>2
  <2>3. CASE ch[m][e] # n
    <3>1. ch2[m][e] = ch[m][e] /\ ch[m][e] \in S \ {n} /\ ch[m][e] # ch[m][Across(e)] /\ par[ch[m][e]] = m
      BY <1>1, <1>2, <1>5, <2>3 DEF Hung
    <3>2. ch[m][e] # c
      BY <1>3, <3>1
    <3>3. QED
      BY <1>2, <2>1, <3>1, <3>2
  <2>4. QED
    BY <2>2, <2>3
<1>6. ASSUME NEW m \in S \ {n}
      PROVE  IF par2[m] = nil THEN m = r2
             ELSE par2[m] \in S \ {n} /\ \E e \in TwoSides : ch2[par2[m]][e] = m
  <2>1. CASE m = c
    <3>1. par2[m] = par[n]
      BY <1>2, <2>1
    <3>2. CASE par[n] = nil
      BY <1>1, <1>2, <2>1, <3>1, <3>2 DEF Hung
    <3>3. CASE par[n] # nil
      <4>1. PICK e \in TwoSides : par[n] \in S /\ ch[par[n]][e] = n
        BY <1>1, <1>2, <3>3 DEF Hung
      <4>2. par[n] # n
        BY <1>1, <1>2 DEF Hung
      <4>3. ch2[par[n]][e] = c
        BY <1>2, <4>1, <4>2
      <4>4. QED
        BY <2>1, <3>1, <3>3, <4>1, <4>2, <4>3
    <3>4. QED
      BY <3>2, <3>3
  <2>2. CASE m # c
    <3>1. par2[m] = par[m]
      BY <1>2, <2>2
    <3>2. CASE par[m] = nil
      BY <1>1, <1>2, <2>2, <3>1, <3>2 DEF Hung
    <3>3. CASE par[m] # nil
      <4>1. PICK e \in TwoSides : par[m] \in S /\ ch[par[m]][e] = m
        BY <1>1, <3>3 DEF Hung
      <4>2. par[m] # n
        BY <1>3, <2>2, <4>1
      <4>3. ch2[par[m]][e] = m
        BY <1>2, <4>1, <4>2
      <4>4. QED
        BY <3>1, <3>3, <4>1, <4>2, <4>3
    <3>4. QED
      BY <3>2, <3>3
  <2>3. QED
    BY <2>1, <2>2
<1>7. PICK h \in [S -> Nat] : Below(ch, S, nil, h)
  BY DEF Grown
<1>8. PICK g \in [S \ {n} -> Nat] : \A m \in S \ {n} : g[m] = h[m]
  <2>1. [m \in S \ {n} |-> h[m]] \in [S \ {n} -> Nat]
    OBVIOUS
  <2>2. QED
    BY <2>1
<1>9. ASSUME NEW m \in S \ {n}, NEW e \in TwoSides, ch2[m][e] # nil
      PROVE  g[ch2[m][e]] < g[m]
  <2>1. /\ \A x \in S, f \in TwoSides : ch[x][f] # nil => h[ch[x][f]] < h[x]
        /\ \A x \in S : h[x] \in Nat
    BY <1>7 DEF Below
  <2>2. ch2[m][e] \in S \ {n} /\ g[ch2[m][e]] = h[ch2[m][e]] /\ g[m] = h[m]
    BY <1>5, <1>8, <1>9
  <2>3. CASE ch[m][e] = n
    <3>1. ch2[m][e] = c /\ h[c] < h[n] /\ h[n] < h[m]
      BY <1>2, <1>3, <1>9, <2>1, <2>3
    <3>2. QED
      BY <1>2, <2>1, <2>2, <3>1
  <2>4. CASE ch[m][e] # n
    BY <1>2, <1>9, <2>1, <2>2, <2>4
  <2>5. QED
    BY <2>3, <2>4
<1>10. Below(ch2, S \ {n}, nil, g)
  BY <1>3, <1>5, <1>9 DEF Below
<1>11. \A m \in S \ {n} : ch2[m]["left"] # nil => ch2[m]["left"] # ch2[m]["right"]
  BY <1>5, BothSides
<1>12. IsFiniteSet(S \ {n})
  BY FS_Difference DEF Grown
<1>13. QED
  BY <1>3, <1>4, <1>5, <1>6, <1>8, <1>10, <1>11, <1>12 DEF Grown

\* It leaves the list, too, where the others keep their places.
LEMMA CutLists ==
  ASSUME NEW S, NEW nil, NEW r, NEW ch, NEW par, Grown(S, nil, r, ch, par),
         NEW r2, NEW ch2, NEW par2, NEW n, NEW c, NEW d,
         Cuts(S, nil, r, ch, par, r2, ch2, par2, n, c, d),
         NEW io, IsInOrder(io, ch, S, nil), NEW io2, IsInOrder(io2, ch2, S \ {n}, nil)
  PROVE  Removes(S, io[r], io2[r2], n)
<1>1. Hung(S, nil, r, ch, par)
  BY GrownIsHung
<1>2. /\ n \in S /\ d \in TwoSides /\ ch[n][Across(d)] = nil /\ c = ch[n][d]
      /\ r2 = IF r = n THEN c ELSE r
      /\ \A m \in S \ {n}, e \in TwoSides : ch2[m][e] = IF ch[m][e] = n THEN c ELSE ch[m][e]
  BY DEF Cuts
<1>3. Listed(S, nil, r, ch, par, io)
  BY GrownIsListed
<1>4. /\ c \in S \cup {nil}
      /\ Nodes(io, n) = Nodes(io, c) \cup {n}
      /\ n \notin Nodes(io, c)
      /\ n \in Nodes(io, n)
      /\ Nodes(io, n) \subseteq S
      /\ par[n] \notin Nodes(io, n)
      /\ io[n] = Put(d, io[c], n, <<>>)
      /\ io[c] \in Seq(S)
  <2>1. c \in S \cup {nil}
    BY <1>1, <1>2 DEF Hung
  <2>2. /\ Nodes(io, n) = Nodes(io, c) \cup {n} \cup Nodes(io, nil)
        /\ n \notin Nodes(io, c)
        /\ io[n] = Put(d, io[c], n, io[nil])
    BY <1>2, <1>3 DEF Listed
  <2>3. /\ io[nil] = <<>> /\ Nodes(io, nil) = {}
        /\ n \in Nodes(io, n) /\ Nodes(io, n) \subseteq S /\ par[n] \notin Nodes(io, n)
        /\ io[c] \in Seq(S)
    BY <1>2, <1>3, <2>1 DEF Listed
  <2>4. QED
    BY <2>1, <2>2, <2>3
<1>5. ASSUME NEW m \in Nodes(io, c), NEW e \in TwoSides
      PROVE  m \in S \ {n} /\ ch2[m][e] = ch[m][e]
  <2>1. m \in S /\ m # n /\ m # par[n]
    BY <1>4
  <2>2. ch[m][e] # n
    BY <1>1, <1>2, <2>1 DEF Hung
  <2>3. QED
    BY <1>2, <2>1, <2>2
<1>6. io2[c] = io[c]
  BY <1>4, <1>5, ListUnchanged
<1>7. c \in (S \ {n}) \cup {nil}
  BY <1>1, <1>2 DEF Hung
<1>8. SwappedAt(ch, S, io, ch2, S \ {n}, n, c)
  BY <1>2, <1>4 DEF SwappedAt
<1>9. Within(io[r], io[n], io2[r2], io2[c], S)
  BY <1>2, <1>7, <1>8, ListChanged
<1>10. PICK A \in Seq(S), C \in Seq(S) :
         io[r] = (A \o io[n]) \o C /\ io2[r2] = (A \o io2[c]) \o C
  BY <1>9 DEF Within
<1>11. PICK x \in Seq(S) : x = io[c]
  BY <1>4
<1>12. Removes(S, (A \o Put(d, x, n, <<>>)) \o C, (A \o x) \o C, n)
  BY <1>2, PutOut
<1>13. QED
  BY <1>4, <1>6, <1>10, <1>11, <1>12

\* A node that was in no tree can take the place of another.
LEMMA TakeGrows ==
  ASSUME NEW S, NEW nil, NEW r, NEW ch, NEW par, Grown(S, nil, r, ch, par),
         NEW r2, NEW ch2, NEW par2, NEW old, NEW new,
         Takes(S, nil, r, ch, par, r2, ch2, par2, old, new)
  PROVE  Grown((S \ {old}) \cup {new}, nil, r2, ch2, par2)
<1>1. Hung(S, nil, r, ch, par)
  BY GrownIsHung
<1>2. /\ old \in S /\ new \notin S /\ new # nil
      /\ r2 = IF r = old THEN new ELSE r
      /\ \A e \in TwoSides : ch2[new][e] = ch[old][e]
      /\ \A m \in S \ {old}, e \in TwoSides : ch2[m][e] = IF ch[m][e] = old THEN new ELSE ch[m][e]
      /\ par2[new] = par[old]
      /\ \A m \in S \ {old} : par2[m] = IF par[m] = old THEN new ELSE par[m]
  BY DEF Takes
<1>3. PICK S2 : S2 = (S \ {old}) \cup {new}
  OBVIOUS
<1>4. nil \notin S /\ nil \notin S2 /\ par[old] # old
  BY <1>1, <1>2, <1>3 DEF Hung
<1>5. r2 \in S2 \cup {nil} /\ (r2 # nil => par2[r2] = nil)
  BY <1>1, <1>2, <1>3 DEF Hung
<1>6. ASSUME NEW e \in TwoSides, ch[old][e] # nil
      PROVE  ch[old][e] \in S \ {old} /\ par[ch[old][e]] = old
  BY <1>1, <1>2, <1>6 DEF Hung
<1>7. ASSUME NEW m \in S2, NEW e \in TwoSides, ch2[m][e] # nil
      PROVE  ch2[m][e] \in S2 /\ par2[ch2[m][e]] = m /\ ch2[m][e] # ch2[m][Across(e)]
  <2>1. Across(e) \in TwoSides
    BY BothSides
  <2>2. CASE m = new
    <3>1. ch[old][e] # ch[old][Across(e)]
      BY <1>1, <1>2, <1>7, <2>2 DEF Hung
    <3>2. QED
      BY <1>2, <1>3, <1>6, <1>7, <2>1, <2>2, <3>1
  <2>3. CASE m # new /\ ch[m][e] = old
    <3>1. m \in S \ {old} /\ par[old] = m /\ ch2[m][e] = new
      BY <1>1, <1>2, <1>3, <1>4, <2>3 DEF Hung
    <3>2. ch[m][Across(e)] # old /\ ch[m][Across(e)] # new
      BY <1>1, <1>2, <1>4, <2>1, <2>3, <3>1 DEF Hung
    <3>3. QED
      BY <1>2, <1>3, <2>1, <3>1, <3>2
  <2>4. CASE m # new /\ ch[m][e] # old
    <3>1. m \in S \ {old} /\ ch2[m][e] = ch[m][e]
      BY <1>2, <1>3, <2>4
    <3>2. ch[m][e] \in S \ {old} /\ par[ch[m][e]] = m /\ ch[m][e] # ch[m][Across(e)]
      BY <1>1, <1>7, <2>4, <3>1 DEF Hung
    <3>3. ch[m][e] # ch2[m][Across(e)]
      BY <1>2, <2>1, <3>1, <3>2
    <3>4. QED
      BY <1>2, <1>3, <3>1, <3>2, <3>3
  <2>5. QED
    BY <2>2, <2>3, <2>4
<1>8. ASSUME NEW m \in S2
      PROVE  IF par2[m] = nil THEN m = r2
             ELSE par2[m] \in S2 /\ \E e \in TwoSides : ch2[par2[m]][e] = m
  <2>1. CASE m = new
    <3>1. CASE par[old] = nil
      BY <1>1, <1>2, <2>1, <3>1 DEF Hung
    <3>2. CASE par[old] # nil
      <4>1. PICK e \in TwoSides : par[old] \in S /\ ch[par[old]][e] = old
        BY <1>1, <1>2, <3>2 DEF Hung
      <4>2. ch2[par[old]][e] = new /\ par[old] \in S2
        BY <1>2, <1>3, <1>4, <4>1
      <4>3. QED
        BY <1>2, <2>1, <3>2, <4>1, <4>2
    <3>3. QED
      BY <3>1, <3>2
  <2>2. CASE m # new /\ par[m] = old
    <3>1. PICK e \in TwoSides : ch[old][e] = m
      BY <1>1, <1>2, <1>3, <1>4, <2>2 DEF Hung
    <3>2. QED
      BY <1>2, <1>3, <1>4, <2>2, <3>1
  <2>3. CASE m # new /\ par[m] # old
    <3>1. m \in S \ {old} /\ par2[m] = par[m]
      BY <1>2, <1>3, <2>3
    <3>2. CASE par[m] = nil
      BY <1>1, <1>2, <3>1, <3>2 DEF Hung
    <3>3. CASE par[m] # nil
      <4>1. PICK e \in TwoSides : par[m] \in S /\ ch[par[m]][e] = m
        BY <1>1, <3>1, <3>3 DEF Hung
      <4>2. ch2[par[m]][e] = m /\ par[m] \in S2
        BY <1>2, <1>3, <2>3, <3>1, <4>1
      <4>3. QED
        BY <3>1, <3>3, <4>1, <4>2
    <3>4. QED
      BY <3>2, <3>3
  <2>4. QED
    BY <2>1, <2>2, <2>3
<1>9. PICK h \in [S -> Nat] : Below(ch, S, nil, h)
  BY DEF Grown
<1>10. PICK g \in [S2 -> Nat] : \A m \in S2 : g[m] = IF m = new THEN h[old] ELSE h[m]
  <2>1. \A m \in S2 : (IF m = new THEN h[old] ELSE h[m]) \in Nat
    BY <1>2, <1>3
  <2>2. [m \in S2 |-> IF m = new THEN h[old] ELSE h[m]] \in [S2 -> Nat]
    BY <2>1
  <2>3. QED
    BY <2>2
<1>11. ASSUME NEW m \in S2, NEW e \in TwoSides, ch2[m][e] # nil
       PROVE  g[ch2[m][e]] < g[m]
  <2>1. \A x \in S, f \in TwoSides : ch[x][f] # nil => h[ch[x][f]] < h[x]
    BY <1>9 DEF Below
  <2>2. CASE m = new
    BY <1>2, <1>3, <1>6, <1>10, <1>11, <2>1, <2>2
  <2>3. CASE m # new /\ ch[m][e] = old
    BY <1>2, <1>3, <1>4, <1>10, <1>11, <2>1, <2>3
  <2>4. CASE m # new /\ ch[m][e] # old
    <3>1. m \in S \ {old} /\ ch2[m][e] = ch[m][e]
      BY <1>2, <1>3, <2>4
    <3>2. ch[m][e] \in S2 /\ ch[m][e] # new /\ g[m] = h[m]
      BY <1>1, <1>2, <1>7, <1>10, <1>11, <2>4, <3>1 DEF Hung
    <3>3. g[ch[m][e]] = h[ch[m][e]] /\ h[ch[m][e]] < h[m]
      BY <1>10, <1>11, <2>1, <3>1, <3>2
    <3>4. QED
      BY <3>1, <3>2, <3>3
  <2>5. QED
    BY <2>2, <2>3, <2>4
<1>12. Below(ch2, S2, nil, g)
  BY <1>4, <1>7, <1>11 DEF Below
<1>13. \A m \in S2 : ch2[m]["left"] # nil => ch2[m]["left"] # ch2[m]["right"]
  BY <1>7, BothSides
<1>14. IsFiniteSet(S2)
  BY <1>3, FS_Difference, FS_AddElement DEF Grown
<1>15. Grown(S2, nil, r2, ch2, par2)
  BY <1>4, <1>5, <1>7, <1>8, <1>10, <1>12, <1>13, <1>14 DEF Grown
<1>16. QED
  BY <1>3, <1>15

\* It takes that place in the list.
LEMMA TakeLists ==
  ASSUME NEW S, NEW nil, NEW r, NEW ch, NEW par, Grown(S, nil, r, ch, par),
         NEW r2, NEW ch2, NEW par2, NEW old, NEW new,
         Takes(S, nil, r, ch, par, r2, ch2, par2, old, new),
         NEW io, IsInOrder(io, ch, S, nil),
         NEW io2, IsInOrder(io2, ch2, (S \ {old}) \cup {new}, nil)
  PROVE  Trades(S \cup {new}, io[r], io2[r2], old, new)
<1>1. Hung(S, nil, r, ch, par) /\ Listed(S, nil, r, ch, par, io)
  BY GrownIsHung, GrownIsListed
<1>2. /\ old \in S /\ new \notin S /\ new # nil
      /\ r2 = IF r = old THEN new ELSE r
      /\ \A e \in TwoSides : ch2[new][e] = ch[old][e]
      /\ \A m \in S \ {old}, e \in TwoSides : ch2[m][e] = IF ch[m][e] = old THEN new ELSE ch[m][e]
  BY DEF Takes
<1>3. PICK S2, D : S2 = (S \ {old}) \cup {new} /\ D = S \cup {new}
  OBVIOUS
<1>4. PICK x, y : x = ch[old]["left"] /\ y = ch[old]["right"]
  OBVIOUS
<1>5. /\ x \in S \cup {nil} /\ y \in S \cup {nil}
      /\ Nodes(io, old) = Nodes(io, x) \cup {old} \cup Nodes(io, y)
      /\ old \notin Nodes(io, x) /\ old \notin Nodes(io, y)
      /\ io[old] = Put("left", io[x], old, io[y])
  <2>1. x \in S \cup {nil} /\ y \in S \cup {nil}
    BY <1>1, <1>2, <1>4, BothSides DEF Hung
  <2>2. \A m \in S, e \in TwoSides :
          /\ Nodes(io, m) = Nodes(io, ch[m][e]) \cup {m} \cup Nodes(io, ch[m][Across(e)])
          /\ m \notin Nodes(io, ch[m][e])
          /\ io[m] = Put(e, io[ch[m][e]], m, io[ch[m][Across(e)]])
    BY <1>1 DEF Listed
  <2>3. QED
    BY <1>2, <1>4, <2>1, <2>2, BothSides
<1>6. /\ old \in Nodes(io, old) /\ Nodes(io, old) \subseteq S /\ par[old] \notin Nodes(io, old)
      /\ io[x] \in Seq(S) /\ io[y] \in Seq(S)
  BY <1>1, <1>2, <1>5 DEF Listed
<1>7. ASSUME NEW m \in S, m # old, m # par[old], NEW e \in TwoSides
      PROVE  m \in S2 /\ ch2[m][e] = ch[m][e]
  <2>1. ch[m][e] # old
    BY <1>1, <1>2, <1>7 DEF Hung
  <2>2. QED
    BY <1>2, <1>3, <1>7, <2>1
<1>8. ASSUME NEW c \in {x, y} PROVE io2[c] = io[c]
  <2>1. \A m \in Nodes(io, c) : m \in S /\ m # old /\ m # par[old]
    BY <1>5, <1>6
  <2>2. c \in S \cup {nil}
    BY <1>5
  <2>3. \A m \in S : m # old /\ m # par[old] =>
          m \in S2 /\ \A e \in TwoSides : ch2[m][e] = ch[m][e]
    <3>1. SUFFICES ASSUME NEW m \in S, m # old, m # par[old]
                   PROVE  m \in S2 /\ \A e \in TwoSides : ch2[m][e] = ch[m][e]
      OBVIOUS
    <3>2. m \in S2
      BY <1>3, <3>1
    <3>3. \A e \in TwoSides : ch2[m][e] = ch[m][e]
      BY <1>7, <3>1
    <3>4. QED
      BY <3>2, <3>3
  <2>5. \A m \in Nodes(io, c) : m \in S2 /\ \A e \in TwoSides : ch2[m][e] = ch[m][e]
    BY <2>1, <2>3
  <2>4. QED
    BY <1>3, <2>2, <2>5, ListUnchanged
<1>9. io2[new] = Put("left", io2[x], new, io2[y])
  BY <1>2, <1>3, <1>4, BothSides, PutEither
<1>10. SwappedAt(ch, S, io, ch2, S2, old, new)
  BY <1>2, <1>3, <1>6 DEF SwappedAt
<1>11. Within(io[r], io[old], io2[r2], io2[new], D)
  BY <1>2, <1>3, <1>10, ListChanged
<1>12. PICK A \in Seq(D), C \in Seq(D) :
         io[r] = (A \o io[old]) \o C /\ io2[r2] = (A \o io2[new]) \o C
  BY <1>11 DEF Within
<1>13. PICK u \in Seq(D), v \in Seq(D) : u = io[x] /\ v = io[y]
  <2>1. Seq(S) \subseteq Seq(D)
    BY <1>3, SeqMonotonic
  <2>2. QED
    BY <1>6, <2>1
<1>14. Amid(D, A, C, u, v)
  BY PutInside
<1>15. PICK P \in Seq(D), Q \in Seq(D) :
         \A n \in D : (A \o Put("left", u, n, v)) \o C = (P \o <<n>>) \o Q
  BY <1>14 DEF Amid
<1>16. io[r] = (P \o <<old>>) \o Q /\ io2[r2] = (P \o <<new>>) \o Q
  <2>1. old \in D /\ new \in D
    BY <1>2, <1>3
  <2>2. io[r] = (A \o Put("left", u, old, v)) \o C /\ io2[r2] = (A \o Put("left", u, new, v)) \o C
    BY <1>5, <1>8, <1>9, <1>12, <1>13
  <2>3. QED
    BY <1>15, <2>1, <2>2
<1>17. Trades(D, io[r], io2[r2], old, new)
  BY <1>16 DEF Trades
<1>18. QED
  BY <1>3, <1>17

\* A leaf can come where there is none.
LEMMA HangGrows ==
  ASSUME NEW S, NEW nil, NEW r, NEW ch, NEW par, Grown(S, nil, r, ch, par),
         NEW r2, NEW ch2, NEW par2, NEW n, NEW p, NEW d,
         Hangs(S, nil, r, ch, par, r2, ch2, par2, n, p, d)
  PROVE  Grown(S \cup {n}, nil, r2, ch2, par2)
<1>1. Hung(S, nil, r, ch, par)
  BY GrownIsHung
<1>2. /\ p \in S /\ d \in TwoSides /\ ch[p][d] = nil /\ n \notin S /\ n # nil
      /\ r2 = r
      /\ \A e \in TwoSides : ch2[n][e] = nil
      /\ \A m \in S, e \in TwoSides : ch2[m][e] = IF m = p /\ e = d THEN n ELSE ch[m][e]
      /\ par2[n] = p
      /\ \A m \in S : par2[m] = par[m]
  BY DEF Hangs
<1>3. nil \notin S /\ r \in S \cup {nil} /\ (r2 # nil => par2[r2] = nil)
  BY <1>1, <1>2 DEF Hung
<1>4. ASSUME NEW m \in S \cup {n}, NEW e \in TwoSides, ch2[m][e] # nil
      PROVE  /\ ch2[m][e] \in S \cup {n} /\ par2[ch2[m][e]] = m /\ ch2[m][e] # ch2[m][Across(e)]
             /\ m \in S /\ (ch2[m][e] # n => ch2[m][e] = ch[m][e])
  <2>1. m \in S /\ Across(e) \in TwoSides /\ Across(e) # e
    BY <1>2, <1>4, BothSides
  <2>2. CASE m = p /\ e = d
    <3>1. ch[m][Across(e)] # n
      BY <1>1, <1>2, <2>1 DEF Hung
    <3>2. QED
      BY <1>2, <2>1, <2>2, <3>1
  <2>3. CASE ~(m = p /\ e = d)
    <3>1. ch2[m][e] = ch[m][e] /\ ch[m][e] \in S /\ par[ch[m][e]] = m /\ ch[m][e] # ch[m][Across(e)]
      BY <1>1, <1>2, <1>4, <2>1, <2>3 DEF Hung
    <3>2. QED
      BY <1>2, <2>1, <3>1
  <2>4. QED
    BY <2>2, <2>3
<1>5. ASSUME NEW m \in S \cup {n}
      PROVE  IF par2[m] = nil THEN m = r2
             ELSE par2[m] \in S \cup {n} /\ \E e \in TwoSides : ch2[par2[m]][e] = m
  <2>1. CASE m = n
    BY <1>2, <1>3, <2>1
  <2>2. CASE m \in S /\ par[m] = nil
    BY <1>1, <1>2, <2>2 DEF Hung
  <2>3. CASE m \in S /\ par[m] # nil
    <3>1. PICK e \in TwoSides : par[m] \in S /\ ch[par[m]][e] = m
      BY <1>1, <2>3 DEF Hung
    <3>2. ch2[par[m]][e] = m
      BY <1>2, <1>3, <2>3, <3>1
    <3>3. QED
      BY <1>2, <2>3, <3>1, <3>2
  <2>4. QED
    BY <2>1, <2>2, <2>3
<1>6. PICK h \in [S -> Nat] : Below(ch, S, nil, h)
  BY DEF Grown
<1>7. PICK g \in [S \cup {n} -> Nat] : \A m \in S \cup {n} : g[m] = IF m = n THEN 0 ELSE h[m] + 1
  <2>1. \A m \in S \cup {n} : (IF m = n THEN 0 ELSE h[m] + 1) \in Nat
    BY <1>2
  <2>2. [m \in S \cup {n} |-> IF m = n THEN 0 ELSE h[m] + 1] \in [S \cup {n} -> Nat]
    BY <2>1
  <2>3. QED
    BY <2>2
<1>8. ASSUME NEW m \in S \cup {n}, NEW e \in TwoSides, ch2[m][e] # nil
      PROVE  g[ch2[m][e]] < g[m]
  <2>1. /\ \A x \in S, f \in TwoSides : ch[x][f] # nil => ch[x][f] \in S /\ h[ch[x][f]] < h[x]
        /\ \A x \in S : h[x] \in Nat
    BY <1>6 DEF Below
  <2>2. m \in S /\ m # n /\ g[m] = h[m] + 1
    BY <1>2, <1>4, <1>7, <1>8
  <2>3. CASE ch2[m][e] = n
    BY <1>7, <2>1, <2>2, <2>3
  <2>4. CASE ch2[m][e] # n
    <3>1. ch2[m][e] = ch[m][e] /\ ch[m][e] # nil
      BY <1>4, <1>8, <2>4
    <3>2. ch[m][e] \in S /\ h[ch[m][e]] < h[m] /\ g[ch[m][e]] = h[ch[m][e]] + 1
      BY <1>2, <1>7, <2>1, <2>2, <3>1
    <3>3. QED
      BY <2>1, <2>2, <3>1, <3>2
  <2>5. QED
    BY <2>3, <2>4
<1>9. Below(ch2, S \cup {n}, nil, g)
  BY <1>2, <1>3, <1>4, <1>8 DEF Below
<1>10. \A m \in S \cup {n} : ch2[m]["left"] # nil => ch2[m]["left"] # ch2[m]["right"]
  BY <1>4, BothSides
<1>11. IsFiniteSet(S \cup {n})
  BY FS_AddElement DEF Grown
<1>12. PICK S2 : S2 = S \cup {n}
  OBVIOUS
<1>13. \E f \in [S2 -> Nat] : Below(ch2, S2, nil, f)
  BY <1>7, <1>9, <1>12
<1>14. /\ nil \notin S2
       /\ r2 \in S2 \cup {nil}
       /\ r2 # nil => par2[r2] = nil
  BY <1>2, <1>3, <1>12
<1>15. \A m \in S2, e \in TwoSides : ch2[m][e] # nil => par2[ch2[m][e]] = m
  BY <1>4, <1>12
<1>16. \A m \in S2 : IF par2[m] = nil THEN m = r2
                     ELSE par2[m] \in S2 /\ \E e \in TwoSides : ch2[par2[m]][e] = m
  BY <1>5, <1>12
<1>17. Grown(S2, nil, r2, ch2, par2)
  BY <1>10, <1>11, <1>12, <1>13, <1>14, <1>15, <1>16 DEF Grown
<1>18. QED
  BY <1>12, <1>17

\* A leaf that comes below p is next to what was below p.
LEMMA HangLists ==
  ASSUME NEW S, NEW nil, NEW r, NEW ch, NEW par, Grown(S, nil, r, ch, par),
         NEW r2, NEW ch2, NEW par2, NEW n, NEW p, NEW d,
         Hangs(S, nil, r, ch, par, r2, ch2, par2, n, p, d),
         NEW io, IsInOrder(io, ch, S, nil), NEW io2, IsInOrder(io2, ch2, S \cup {n}, nil),
         NEW D, S \cup {n} \subseteq D, NEW A, NEW C, PlacedAt(D, io[r], io[p], A, C)
  PROVE  PutsNext(D, io[r], io2[r2], n, A, io[p], C, d)
<1>1. PICK S2 : S2 = S \cup {n}
  OBVIOUS
<1>2. Hung(S, nil, r, ch, par) /\ Grown(S2, nil, r2, ch2, par2)
  BY <1>1, GrownIsHung, HangGrows
<1>3. /\ Listed(S, nil, r, ch, par, io) /\ Listed(S2, nil, r2, ch2, par2, io2)
      /\ IsInOrder(io2, ch2, S2, nil)
  BY <1>1, <1>2, GrownIsListed
<1>4. /\ p \in S /\ d \in TwoSides /\ ch[p][d] = nil /\ n \notin S /\ n # nil
      /\ r2 = r
      /\ \A e \in TwoSides : ch2[n][e] = nil
      /\ \A m \in S, e \in TwoSides : ch2[m][e] = IF m = p /\ e = d THEN n ELSE ch[m][e]
  BY DEF Hangs
<1>5. PICK o \in TwoSides : o = Across(d) /\ o # d
  BY <1>4, BothSides
<1>6. PICK y : y = ch[p][o]
  OBVIOUS
<1>7. /\ y \in S \cup {nil}
      /\ Nodes(io, p) = Nodes(io, nil) \cup {p} \cup Nodes(io, y)
      /\ p \notin Nodes(io, y)
      /\ io[p] = Put(d, io[nil], p, io[y])
  <2>1. \A m \in S, e \in TwoSides :
          /\ Nodes(io, m) = Nodes(io, ch[m][e]) \cup {m} \cup Nodes(io, ch[m][Across(e)])
          /\ m \notin Nodes(io, ch[m][e])
          /\ io[m] = Put(e, io[ch[m][e]], m, io[ch[m][Across(e)]])
    BY <1>3 DEF Listed
  <2>2. y \in S \cup {nil}
    BY <1>2, <1>4, <1>5, <1>6 DEF Hung
  <2>3. p \notin Nodes(io, y)
    BY <1>4, <1>5, <1>6, <2>1
  <2>4. QED
    BY <1>4, <1>5, <1>6, <2>1, <2>2, <2>3
<1>8. /\ Nodes(io, p) \subseteq S /\ Nodes(io, nil) = {} /\ io[nil] = <<>>
      /\ io[p] \in Seq(S) /\ io[y] \in Seq(S) /\ p \in Nodes(io, p) /\ par[p] \notin Nodes(io, p)
  <2>1. /\ io[nil] = <<>> /\ Nodes(io, nil) = {}
        /\ \A m \in S \cup {nil} : io[m] \in Seq(S) /\ Nodes(io, m) \subseteq S
        /\ \A m \in S : m \in Nodes(io, m) /\ par[m] \notin Nodes(io, m)
    BY <1>3 DEF Listed
  <2>2. QED
    BY <1>4, <1>7, <2>1
<1>9. \A m \in S : m # p => m \in S2 /\ \A e \in TwoSides : ch2[m][e] = ch[m][e]
  BY <1>1, <1>4
<1>10. io2[y] = io[y]
  <2>1. \A m \in Nodes(io, y) : m \in S /\ m # p
    BY <1>7, <1>8
  <2>2. \A m \in Nodes(io, y) : m \in S2 /\ \A e \in TwoSides : ch2[m][e] = ch[m][e]
    BY <1>9, <2>1
  <2>3. QED
    BY <1>3, <1>7, <2>2, ListUnchanged
<1>11. io2[n] = <<n>>
  <2>1. io2[n] = Put("left", io2[nil], n, io2[nil]) /\ io2[nil] = <<>>
    <3>1. \A m \in S2, e \in TwoSides : io2[m] = Put(e, io2[ch2[m][e]], m, io2[ch2[m][Across(e)]])
      BY <1>3 DEF Listed
    <3>2. n \in S2 /\ ch2[n]["left"] = nil /\ ch2[n][Across("left")] = nil /\ "left" \in TwoSides
      BY <1>1, <1>4, BothSides
    <3>3. io2[n] = Put("left", io2[nil], n, io2[nil])
      BY <3>1, <3>2
    <3>4. QED
      BY <1>3, <3>3 DEF Listed
  <2>2. PICK u \in Seq(D) : u = <<n>>
    BY OneElement
  <2>3. io2[n] = (<<>> \o u) \o <<>>
    BY <2>1, <2>2 DEF Put
  <2>4. QED
    BY <2>2, <2>3, ConcatEmptySeq
<1>12. io2[p] = Put(d, <<n>>, p, io[y])
  <2>1. \A m \in S2, e \in TwoSides : io2[m] = Put(e, io2[ch2[m][e]], m, io2[ch2[m][Across(e)]])
    BY <1>3 DEF Listed
  <2>2. p \in S2 /\ ch2[p][d] = n /\ ch2[p][Across(d)] = y
    BY <1>1, <1>4, <1>5, <1>6
  <2>3. io2[p] = Put(d, io2[n], p, io2[y])
    BY <1>4, <2>1, <2>2
  <2>4. QED
    BY <1>10, <1>11, <2>3
<1>13. SwappedAt(ch, S, io, ch2, S2, p, p)
  <2>1. ASSUME NEW m \in S \ Nodes(io, p)
        PROVE  m \in S2 /\ \A e \in TwoSides : ch2[m][e] = IF ch[m][e] = p THEN p ELSE ch[m][e]
    BY <1>8, <1>9
  <2>2. QED
    BY <2>1 DEF SwappedAt
<1>14. Within(io[r], io[p], io2[r2], io2[p], D)
  <2>1. S \subseteq D /\ S2 \subseteq D /\ p \in S2 \cup {nil} /\ r2 = IF r = p THEN p ELSE r
    BY <1>1, <1>4
  <2>2. QED
    BY <1>3, <1>4, <1>13, <2>1, ListChanged
<1>15. io[p] # <<>> /\ Distinct(io[r]) /\ io2[p] \in Seq(D) /\ io[y] \in Seq(D) /\ io[p] \in Seq(D)
  <2>1. Seq(S) \subseteq Seq(D) /\ Seq(S2) \subseteq Seq(D)
    BY <1>1, SeqMonotonic
  <2>2. Distinct(io[r])
    BY <1>2, <1>3 DEF Listed, Hung
  <2>3. io[p] # <<>>
    <3>1. \A u : u = <<>> => Elements(u) = {}
      BY DEF Elements
    <3>2. QED
      BY <1>8, <3>1 DEF Nodes
  <2>4. io2[p] \in Seq(S2)
    BY <1>1, <1>3, <1>4 DEF Listed
  <2>5. QED
    BY <1>8, <2>1, <2>2, <2>3, <2>4
<1>16. PlacedAt(D, io2[r2], io2[p], A, C)
  BY <1>14, <1>15, PlacedWithin
<1>17. /\ A \in Seq(D) /\ C \in Seq(D)
       /\ io[r] = (A \o io[p]) \o C /\ io2[r2] = (A \o io2[p]) \o C
  BY <1>16 DEF PlacedAt
<1>18. PICK s : s = io[p]
  OBVIOUS
<1>19. s \in Seq(D) /\ s = Put(d, <<>>, p, io[y])
  BY <1>7, <1>8, <1>15, <1>18
<1>20. p \in D /\ n \in D
  BY <1>1, <1>4
<1>21. PutsNext(D, (A \o s) \o C, (A \o Put(d, <<n>>, p, io[y])) \o C, n, A, s, C, d)
  BY <1>4, <1>15, <1>17, <1>19, <1>20, PutLeaf
<1>22. QED
  BY <1>12, <1>17, <1>18, <1>21

\* A tree of one node.
LEMMA OneGrows ==
  ASSUME NEW nil, NEW n, n # nil, NEW ch, NEW par, par[n] = nil,
         \A e \in TwoSides : ch[n][e] = nil
  PROVE  /\ Grown({n}, nil, n, ch, par)
         /\ \A io : IsInOrder(io, ch, {n}, nil) => io[n] = <<n>>
<1>1. [m \in {n} |-> 0] \in [{n} -> Nat] /\ Below(ch, {n}, nil, [m \in {n} |-> 0])
  BY DEF Below
<1>2. \E h \in [{n} -> Nat] : Below(ch, {n}, nil, h)
  BY <1>1
<1>3. IsFiniteSet({n})
  BY FS_Singleton
<1>4. Grown({n}, nil, n, ch, par)
  BY <1>2, <1>3, BothSides DEF Grown
<1>5. ASSUME NEW io, IsInOrder(io, ch, {n}, nil) PROVE io[n] = <<n>>
  <2>1. Listed({n}, nil, n, ch, par, io)
    BY <1>4, <1>5, GrownIsListed
  <2>2. io[n] = Put("left", io[nil], n, io[nil]) /\ io[nil] = <<>>
    <3>1. \A m \in {n}, e \in TwoSides : io[m] = Put(e, io[ch[m][e]], m, io[ch[m][Across(e)]])
      BY <2>1 DEF Listed
    <3>2. ch[n]["left"] = nil /\ ch[n][Across("left")] = nil /\ "left" \in TwoSides
      BY BothSides
    <3>3. io[n] = Put("left", io[nil], n, io[nil])
      BY <3>1, <3>2
    <3>4. QED
      BY <2>1, <3>3 DEF Listed
  <2>3. PICK u \in Seq({n}) : u = <<n>>
    BY OneElement
  <2>4. io[n] = (<<>> \o u) \o <<>>
    BY <2>2, <2>3 DEF Put
  <2>5. QED
    BY <2>3, <2>4, ConcatEmptySeq
<1>6. QED
  BY <1>4, <1>5

-----------------------------------------------------------------------------
(* Colors. *)

\* B[n] counts the black nodes from n down, the same to either side, where the slot on
\* side e0 of x counts as one more; without a slot, x is nil.
Labelled(S, nil, ch, blk, B, x, e0) ==
  /\ B \in [S \cup {nil} -> Nat]
  /\ B[nil] = 0
  /\ \A n \in S, e \in TwoSides : B[n] = B[ch[n][e]] + One(n \in blk) + One(n = x /\ e = e0)

\* The parent of a red node is black, but for that of v.
Reds(S, par, blk, v) == \A n \in S : n \notin blk /\ n # v => par[n] \in S \cap blk

Colored(S, nil, ch, par, blk, v, x, e0) ==
  (\E B : Labelled(S, nil, ch, blk, B, x, e0)) /\ Reds(S, par, blk, v)

\* The same colors.
LEMMA SameColors ==
  ASSUME NEW S, NEW nil, NEW ch, NEW par, NEW blk, NEW v, NEW x, NEW e0,
         Colored(S, nil, ch, par, blk, v, x, e0),
         NEW blk2, \A n \in S : n \in blk2 <=> n \in blk
  PROVE  Colored(S, nil, ch, par, blk2, v, x, e0)
<1>1. PICK B : Labelled(S, nil, ch, blk, B, x, e0)
  BY DEF Colored
<1>2. Labelled(S, nil, ch, blk2, B, x, e0)
  BY <1>1 DEF Labelled
<1>3. Reds(S, par, blk2, v)
  BY DEF Colored, Reds
<1>4. QED
  BY <1>2, <1>3 DEF Colored

\* A red leaf may have a red parent.
LEMMA HangColors ==
  ASSUME NEW S, NEW nil, NEW r, NEW ch, NEW par, Hung(S, nil, r, ch, par),
         NEW r2, NEW ch2, NEW par2, NEW n, NEW p, NEW d,
         Hangs(S, nil, r, ch, par, r2, ch2, par2, n, p, d),
         NEW blk, Colored(S, nil, ch, par, blk, nil, nil, "left"),
         NEW blk2, n \notin blk2, \A m \in S : m \in blk2 <=> m \in blk
  PROVE  Colored(S \cup {n}, nil, ch2, par2, blk2, n, nil, "left")
<1>1. /\ p \in S /\ d \in TwoSides /\ ch[p][d] = nil /\ n \notin S /\ n # nil
      /\ \A e \in TwoSides : ch2[n][e] = nil
      /\ \A m \in S, e \in TwoSides : ch2[m][e] = IF m = p /\ e = d THEN n ELSE ch[m][e]
      /\ \A m \in S : par2[m] = par[m]
  BY DEF Hangs
<1>2. nil \notin S /\ \A m \in S, e \in TwoSides : ch[m][e] \in S \cup {nil}
  BY DEF Hung
<1>3. PICK B : Labelled(S, nil, ch, blk, B, nil, "left")
  BY DEF Colored
<1>4. /\ B \in [S \cup {nil} -> Nat]
      /\ B[nil] = 0
      /\ \A m \in S, e \in TwoSides : B[m] = B[ch[m][e]] + One(m \in blk)
  <2>1. \A m \in S : \A e : One(m = nil /\ e = "left") = 0
    BY <1>2 DEF One
  <2>2. QED
    BY <1>2, <1>3, <2>1 DEF Labelled, One
<1>5. PICK T : T = (S \cup {n}) \cup {nil}
  OBVIOUS
<1>6. PICK B2 \in [T -> Nat] : \A m \in T : B2[m] = IF m = n THEN 0 ELSE B[m]
  <2>1. \A m \in T : (IF m = n THEN 0 ELSE B[m]) \in Nat
    BY <1>4, <1>5
  <2>2. [m \in T |-> IF m = n THEN 0 ELSE B[m]] \in [T -> Nat]
    BY <2>1
  <2>3. QED
    BY <2>2
<1>7. ASSUME NEW m \in S \cup {n}, NEW e \in TwoSides
      PROVE  B2[m] = B2[ch2[m][e]] + One(m \in blk2) + One(m = nil /\ e = "left")
  <2>1. One(m = nil /\ e = "left") = 0 /\ m \in T /\ nil \in T /\ B2[nil] = 0
    BY <1>1, <1>2, <1>4, <1>5, <1>6 DEF One
  <2>2. CASE m = n
    BY <1>1, <1>6, <2>1, <2>2 DEF One
  <2>3. CASE m # n
    <3>1. m \in S /\ B2[m] = B[ch[m][e]] + One(m \in blk) /\ One(m \in blk2) = One(m \in blk)
      BY <1>4, <1>6, <2>1, <2>3
    <3>2. B2[ch2[m][e]] = B[ch[m][e]]
      <4>1. CASE m = p /\ e = d
        BY <1>1, <1>4, <1>5, <1>6, <4>1
      <4>2. CASE ~(m = p /\ e = d)
        <5>1. ch2[m][e] = ch[m][e] /\ ch[m][e] \in T /\ ch[m][e] # n
          BY <1>1, <1>2, <1>5, <3>1, <4>2
        <5>2. QED
          BY <1>6, <5>1
      <4>3. QED
        BY <4>1, <4>2
    <3>3. B2[m] \in Nat /\ One(m \in blk) \in Nat
      BY <1>6, <2>1 DEF One
    <3>4. B[ch[m][e]] \in Nat
      BY <1>2, <1>4, <3>1
    <3>5. QED
      BY <2>1, <3>1, <3>2, <3>3, <3>4
  <2>4. QED
    BY <2>2, <2>3
<1>8. Labelled(S \cup {n}, nil, ch2, blk2, B2, nil, "left")
  BY <1>1, <1>4, <1>5, <1>6, <1>7 DEF Labelled
<1>9. Reds(S \cup {n}, par2, blk2, n)
  <2>1. \A m \in S : m \notin blk => par[m] \in S \cap blk
    BY <1>2 DEF Colored, Reds
  <2>2. ASSUME NEW m \in S \cup {n}, m \notin blk2, m # n PROVE par2[m] \in (S \cup {n}) \cap blk2
    BY <1>1, <2>1, <2>2
  <2>3. QED
    BY <2>2 DEF Reds
<1>10. QED
  BY <1>8, <1>9 DEF Colored

\* The root may be painted black.
LEMMA RootColors ==
  ASSUME NEW S, NEW nil, NEW r, NEW ch, NEW par, Hung(S, nil, r, ch, par),
         NEW v, NEW blk, Colored(S, nil, ch, par, blk, v, nil, "left"),
         v \in S => v = r \/ v \in blk \/ par[v] \in S \cap blk,
         NEW blk2, \A m \in S : m \in blk2 <=> m \in blk \/ m = r
  PROVE  Colored(S, nil, ch, par, blk2, nil, nil, "left")
<1>1. nil \notin S /\ r \in S \cup {nil} /\ \A m \in S, e \in TwoSides : ch[m][e] \in S \cup {nil} /\ (ch[m][e] # nil => ch[m][e] # r)
  BY DEF Hung
<1>2. PICK B : Labelled(S, nil, ch, blk, B, nil, "left")
  BY DEF Colored
<1>3. /\ B \in [S \cup {nil} -> Nat]
      /\ B[nil] = 0
      /\ \A m \in S, e \in TwoSides : B[m] = B[ch[m][e]] + One(m \in blk)
  <2>1. \A m \in S : \A e : One(m = nil /\ e = "left") = 0
    BY <1>1 DEF One
  <2>2. \A m \in S, e \in TwoSides : B[ch[m][e]] + One(m \in blk) \in Nat
    BY <1>1, <1>2 DEF Labelled, One
  <2>3. QED
    BY <1>1, <1>2, <2>1, <2>2 DEF Labelled, One
<1>4. PICK k \in Nat : k = IF r \in S /\ r \notin blk THEN 1 ELSE 0
  OBVIOUS
<1>5. PICK B2 \in [S \cup {nil} -> Nat] :
        \A m \in S \cup {nil} : B2[m] = IF m = r THEN B[m] + k ELSE B[m]
  <2>1. \A m \in S \cup {nil} : (IF m = r THEN B[m] + k ELSE B[m]) \in Nat
    BY <1>3, <1>4
  <2>2. [m \in S \cup {nil} |-> IF m = r THEN B[m] + k ELSE B[m]] \in [S \cup {nil} -> Nat]
    BY <2>1
  <2>3. QED
    BY <2>2
<1>6. ASSUME NEW m \in S, NEW e \in TwoSides
      PROVE  B2[m] = B2[ch[m][e]] + One(m \in blk2) + One(m = nil /\ e = "left")
  <2>1. One(m = nil /\ e = "left") = 0
    BY <1>1 DEF One
  <2>2. B2[ch[m][e]] = B[ch[m][e]] /\ B[ch[m][e]] \in Nat
    <3>1. CASE ch[m][e] = nil
      BY <1>1, <1>3, <1>4, <1>5, <3>1
    <3>2. CASE ch[m][e] # nil
      BY <1>1, <1>3, <1>5, <3>2
    <3>3. QED
      BY <3>1, <3>2
  <2>3. B[m] = B[ch[m][e]] + One(m \in blk)
    BY <1>3
  <2>4. CASE m = r
    BY <1>4, <1>5, <2>1, <2>2, <2>3, <2>4 DEF One
  <2>5. CASE m # r
    BY <1>5, <2>1, <2>2, <2>3, <2>5 DEF One
  <2>6. QED
    BY <2>4, <2>5
<1>7. Labelled(S, nil, ch, blk2, B2, nil, "left")
  <2>1. B2[nil] = 0
    BY <1>1, <1>3, <1>4, <1>5
  <2>2. QED
    BY <1>5, <1>6, <2>1 DEF Labelled
<1>8. Reds(S, par, blk2, nil)
  BY DEF Colored, Reds
<1>9. QED
  BY <1>7, <1>8 DEF Colored

\* What the labels are where there is no slot.
Plain(S, nil, ch, blk, B) ==
  /\ B \in [S \cup {nil} -> Nat]
  /\ B[nil] = 0
  /\ \A m \in S, e \in TwoSides : B[m] = B[ch[m][e]] + One(m \in blk)

LEMMA NoSlotLabels ==
  ASSUME NEW S, NEW nil, nil \notin S, NEW ch, NEW blk, NEW B,
         \A m \in S, e \in TwoSides : ch[m][e] \in S \cup {nil}
  PROVE  Labelled(S, nil, ch, blk, B, nil, "left") <=> Plain(S, nil, ch, blk, B)
<1>1. \A m \in S : \A e : One(m = nil /\ e = "left") = 0
  BY DEF One
<1>2. \A m \in S : One(m \in blk) \in Nat
  BY DEF One
<1>3. B \in [S \cup {nil} -> Nat] => \A m \in S, e \in TwoSides : B[ch[m][e]] + One(m \in blk) \in Nat
  BY <1>2
<1>4. ASSUME Labelled(S, nil, ch, blk, B, nil, "left")
      PROVE  /\ B \in [S \cup {nil} -> Nat]
             /\ B[nil] = 0
             /\ \A m \in S, e \in TwoSides : B[m] = B[ch[m][e]] + One(m \in blk)
  <2>1. /\ B \in [S \cup {nil} -> Nat]
        /\ B[nil] = 0
        /\ \A m \in S, e \in TwoSides :
             B[m] = (B[ch[m][e]] + One(m \in blk)) + One(m = nil /\ e = "left")
    BY <1>4 DEF Labelled
  <2>2. ASSUME NEW m \in S, NEW e \in TwoSides PROVE B[m] = B[ch[m][e]] + One(m \in blk)
    <3>1. B[ch[m][e]] + One(m \in blk) \in Nat
      BY <1>3, <2>1
    <3>2. One(m = nil /\ e = "left") = 0
      BY <1>1
    <3>3. QED
      BY <2>1, <3>1, <3>2
  <2>3. QED
    BY <2>1, <2>2
<1>5. ASSUME B \in [S \cup {nil} -> Nat], B[nil] = 0,
             \A m \in S, e \in TwoSides : B[m] = B[ch[m][e]] + One(m \in blk)
      PROVE  Labelled(S, nil, ch, blk, B, nil, "left")
  <2>1. ASSUME NEW m \in S, NEW e \in TwoSides
        PROVE  B[m] = (B[ch[m][e]] + One(m \in blk)) + One(m = nil /\ e = "left")
    <3>1. B[ch[m][e]] + One(m \in blk) \in Nat
      BY <1>3, <1>5
    <3>2. One(m = nil /\ e = "left") = 0
      BY <1>1
    <3>3. QED
      BY <1>5, <3>1, <3>2
  <2>2. QED
    BY <1>5, <2>1 DEF Labelled
<1>6. QED
  BY <1>4, <1>5 DEF Plain

\* Two red siblings become black, and their parent red: what had a red parent may be
\* the parent's parent now.
LEMMA FlipColors ==
  ASSUME NEW S, NEW nil, NEW r, NEW ch, NEW par, Hung(S, nil, r, ch, par),
         NEW v \in S, NEW p \in S, NEW u \in S, NEW g, NEW d \in TwoSides,
         par[v] = p, par[p] = g, ch[g][d] = p, ch[g][Across(d)] = u,
         NEW blk, p \notin blk, u \notin blk,
         Colored(S, nil, ch, par, blk, v, nil, "left"),
         NEW blk2, \A m \in S : m \in blk2 <=> (m \in blk \/ m = p \/ m = u) /\ m # g
  PROVE  Colored(S, nil, ch, par, blk2, g, nil, "left")
<1>1. /\ nil \notin S
      /\ \A m \in S, e \in TwoSides :
           /\ ch[m][e] \in S \cup {nil}
           /\ ch[m][e] # nil => par[ch[m][e]] = m
      /\ \A m \in S : par[m] # m
      /\ \A m \in S : par[m] # nil => \E e \in TwoSides : ch[par[m]][e] = m
  BY DEF Hung
<1>2. \A n \in S : n \notin blk /\ n # v => par[n] \in S \cap blk
  BY DEF Colored, Reds
<1>3. g \in S /\ g \in blk /\ g # p /\ g # u
  BY <1>1, <1>2
<1>4. PICK o \in TwoSides : o = Across(d) /\ o # d /\ \A e \in TwoSides : e = d \/ e = o
  BY BothSides
<1>5. ch[g][d] = p /\ ch[g][o] = u /\ par[u] = g
  BY <1>1, <1>3, <1>4
<1>6. PICK B : Labelled(S, nil, ch, blk, B, nil, "left")
  BY DEF Colored
<1>7. /\ B \in [S \cup {nil} -> Nat]
      /\ B[nil] = 0
      /\ \A m \in S, e \in TwoSides : B[m] = B[ch[m][e]] + One(m \in blk)
  <2>1. \A m \in S, e \in TwoSides : ch[m][e] \in S \cup {nil}
    BY <1>1
  <2>2. Plain(S, nil, ch, blk, B)
    BY <1>1, <1>6, <2>1, NoSlotLabels
  <2>3. QED
    BY <2>2 DEF Plain
<1>8. PICK B2 \in [S \cup {nil} -> Nat] :
        \A m \in S \cup {nil} : B2[m] = IF m = p \/ m = u THEN B[m] + 1 ELSE B[m]
  <2>1. \A m \in S \cup {nil} : (IF m = p \/ m = u THEN B[m] + 1 ELSE B[m]) \in Nat
    BY <1>7
  <2>2. [m \in S \cup {nil} |-> IF m = p \/ m = u THEN B[m] + 1 ELSE B[m]] \in [S \cup {nil} -> Nat]
    BY <2>1
  <2>3. QED
    BY <2>2
<1>9. ASSUME NEW m \in S, NEW e \in TwoSides PROVE B2[m] = B2[ch[m][e]] + One(m \in blk2)
  <2>1. B[m] = B[ch[m][e]] + One(m \in blk) /\ B[ch[m][e]] \in Nat
    BY <1>1, <1>7
  <2>2. CASE m = g
    <3>1. ch[m][e] = p \/ ch[m][e] = u
      BY <1>4, <1>5, <2>2
    <3>2. B2[ch[m][e]] = B[ch[m][e]] + 1 /\ B2[m] = B[m]
      BY <1>3, <1>8, <2>2, <3>1
    <3>3. One(m \in blk) = 1 /\ One(m \in blk2) = 0
      BY <1>3, <2>2 DEF One
    <3>4. QED
      BY <2>1, <3>2, <3>3
  <2>3. CASE m # g
    <3>1. B2[ch[m][e]] = B[ch[m][e]]
      <4>1. ch[m][e] # p /\ ch[m][e] # u
        BY <1>1, <1>5, <2>3
      <4>2. QED
        BY <1>1, <1>8, <4>1
    <3>2. CASE m = p \/ m = u
      <4>1. One(m \in blk) = 0 /\ One(m \in blk2) = 1 /\ B2[m] = B[m] + 1
        BY <1>8, <2>3, <3>2 DEF One
      <4>2. QED
        BY <2>1, <3>1, <4>1
    <3>3. CASE m # p /\ m # u
      <4>1. One(m \in blk) = One(m \in blk2) /\ B2[m] = B[m]
        BY <1>8, <2>3, <3>3 DEF One
      <4>2. QED
        BY <2>1, <3>1, <4>1
    <3>4. QED
      BY <3>2, <3>3
  <2>4. QED
    BY <2>2, <2>3
<1>10. B2[nil] = 0
  BY <1>1, <1>7, <1>8
<1>11. Labelled(S, nil, ch, blk2, B2, nil, "left")
  BY <1>1, <1>9, <1>10, NoSlotLabels DEF Plain
<1>12. ASSUME NEW n \in S, n \notin blk2, n # g PROVE par[n] \in S \cap blk2
  <2>1. n \notin blk /\ n # p /\ n # u
    BY <1>12
  <2>2. CASE n = v
    BY <1>3, <2>2
  <2>3. CASE n # v
    <3>1. par[n] \in S \cap blk
      BY <1>2, <2>1, <2>3
    <3>2. par[n] # g
      BY <1>1, <1>4, <1>5, <2>1, <3>1
    <3>3. QED
      BY <3>1, <3>2
  <2>4. QED
    BY <2>2, <2>3
<1>13. QED
  BY <1>11, <1>12 DEF Colored, Reds

\* What a rotation must do to the labels of the two nodes that turn and of f, which may
\* be one more.
TurnSums(S, nil, ch, blk2, B, B2, x2, e2, p, s, d, f) ==
  /\ B2 \in [S \cup {nil} -> Nat]
  /\ B2[nil] = 0
  /\ f = s \/ f = ch[s][Across(d)]
  /\ \A n \in S \ {p, s, f} : B2[n] = B[n]
  /\ B2[p] = B[ch[p][d]] + One(p \in blk2) + One(p = x2 /\ d = e2)
  /\ B2[p] = B[ch[s][d]] + One(p \in blk2) + One(p = x2 /\ Across(d) = e2)
  /\ B2[s] = B2[p] + One(s \in blk2) + One(s = x2 /\ d = e2)
  /\ B2[s] = B2[ch[s][Across(d)]] + One(s \in blk2) + One(s = x2 /\ Across(d) = e2)
  /\ B2[s] = B[p]
  /\ f # s /\ f # nil =>
       \A e \in TwoSides : B2[f] = B[ch[f][e]] + One(f \in blk2) + One(f = x2 /\ e = e2)

\* Then the labels are right after it.
LEMMA TurnLabels ==
  ASSUME NEW S, NEW nil, NEW r, NEW ch, NEW par, Hung(S, nil, r, ch, par),
         NEW r2, NEW ch2, NEW par2, NEW p, NEW s, NEW d,
         Turns(S, r, ch, par, r2, ch2, par2, p, s, d),
         NEW blk, NEW B, NEW x, NEW e0, Labelled(S, nil, ch, blk, B, x, e0),
         NEW f, \A e \in TwoSides : f \in S => ch[f][e] # p,
         NEW blk2, \A n \in S \ {p, s, f} : n \in blk2 <=> n \in blk,
         NEW x2, NEW e2,
         \A n \in S \ {p, s, f}, e \in TwoSides : n = x2 /\ e = e2 <=> n = x /\ e = e0,
         NEW B2, TurnSums(S, nil, ch, blk2, B, B2, x2, e2, p, s, d, f)
  PROVE  Labelled(S, nil, ch2, blk2, B2, x2, e2)
<1>1. /\ nil \notin S
      /\ \A m \in S, e \in TwoSides :
           /\ ch[m][e] \in S \cup {nil}
           /\ ch[m][e] # nil => par[ch[m][e]] = m /\ ch[m][e] # m /\ ch[m][e] # ch[m][Across(e)]
  BY DEF Hung
<1>2. /\ p \in S /\ s \in S /\ p # s /\ par[s] = p /\ par[p] # p /\ par[p] # s
      /\ ch[p][d] = nil \/ ch[p][d] \in S \ {p, s, r}
      /\ ch[s][d] = nil \/ ch[s][d] \in S \ {p, s, r, ch[p][d]}
      /\ ch2[p][d] = ch[p][d] /\ ch2[p][Across(d)] = ch[s][d]
      /\ ch2[s][d] = p /\ ch2[s][Across(d)] = ch[s][Across(d)]
      /\ \A n \in S \ {p, s}, e \in TwoSides :
           /\ ch[n][e] # s
           /\ ch[n][e] = p => n = par[p] /\ ch2[n][e] = s
           /\ ch[n][e] # p => ch2[n][e] = ch[n][e]
  BY TurnSurroundings
<1>3. d \in TwoSides
  BY DEF Turns
<1>4. PICK o \in TwoSides : o = Across(d) /\ o # d /\ d = Across(o) /\ \A e \in TwoSides : e = d \/ e = o
  BY <1>3, BothSides
<1>5. /\ B2 \in [S \cup {nil} -> Nat]
      /\ B2[nil] = 0
      /\ f = s \/ f = ch[s][o]
      /\ \A n \in S \ {p, s, f} : B2[n] = B[n]
      /\ B2[p] = B[ch[p][d]] + One(p \in blk2) + One(p = x2 /\ d = e2)
      /\ B2[p] = B[ch[s][d]] + One(p \in blk2) + One(p = x2 /\ o = e2)
      /\ B2[s] = B2[p] + One(s \in blk2) + One(s = x2 /\ d = e2)
      /\ B2[s] = B2[ch[s][o]] + One(s \in blk2) + One(s = x2 /\ o = e2)
      /\ B2[s] = B[p]
      /\ f # s /\ f # nil =>
           \A e \in TwoSides : B2[f] = B[ch[f][e]] + One(f \in blk2) + One(f = x2 /\ e = e2)
  BY <1>4 DEF TurnSums
<1>6. /\ B[nil] = 0
      /\ \A n \in S, e \in TwoSides : B[n] = B[ch[n][e]] + One(n \in blk) + One(n = x /\ e = e0)
  BY DEF Labelled
<1>7. /\ f \in S \cup {nil} /\ f # p
      /\ f # s /\ f # nil => par[f] = s
      /\ ch[s][o] = nil \/ ch[s][o] \in S \ {p, s}
  <2>1. ch[s][o] \in S \cup {nil}
    BY <1>1, <1>2
  <2>2. ch[s][o] # nil => par[ch[s][o]] = s /\ ch[s][o] # s
    BY <1>1, <1>2
  <2>3. ch[s][o] = nil \/ ch[s][o] \in S \ {p, s}
    BY <1>1, <1>2, <2>1, <2>2
  <2>4. QED
    BY <1>1, <1>2, <1>5, <2>2, <2>3
<1>8. \A m \in S \cup {nil} : m \notin {p, s, f} => B2[m] = B[m]
  BY <1>5, <1>6
<1>9. ASSUME NEW n \in S, NEW e \in TwoSides
      PROVE  B2[n] = B2[ch2[n][e]] + One(n \in blk2) + One(n = x2 /\ e = e2)
  <2>1. CASE n = p /\ e = d
    <3>1. ch[p][d] # f \/ f = nil
      BY <1>1, <1>2, <1>3, <1>7
    <3>2. B2[ch[p][d]] = B[ch[p][d]]
      BY <1>2, <1>5, <1>6, <1>8, <3>1
    <3>3. QED
      BY <1>2, <1>5, <2>1, <3>2
  <2>2. CASE n = p /\ e = o
    <3>1. ch[s][d] # f \/ f = nil
      BY <1>1, <1>2, <1>3, <1>4, <1>5, <1>7
    <3>2. B2[ch[s][d]] = B[ch[s][d]]
      BY <1>2, <1>5, <1>6, <1>8, <3>1
    <3>3. QED
      BY <1>2, <1>4, <1>5, <2>2, <3>2
  <2>3. CASE n = s /\ e = d
    BY <1>2, <1>5, <2>3
  <2>4. CASE n = s /\ e = o
    BY <1>2, <1>4, <1>5, <2>4
  <2>5. CASE n = f /\ n # s
    <3>0. n \notin {p, s} /\ n # nil /\ ch[n][e] # p
      BY <1>1, <1>7, <2>5
    <3>1. ch2[n][e] = ch[n][e] /\ ch[n][e] \in S \cup {nil}
      BY <1>1, <1>2, <3>0
    <3>2. ch[n][e] # nil => ch[n][e] # p /\ ch[n][e] # s /\ ch[n][e] # f
      BY <1>1, <1>2, <2>5, <3>0
    <3>3. B2[ch[n][e]] = B[ch[n][e]]
      BY <1>5, <1>6, <1>8, <3>1, <3>2
    <3>4. QED
      BY <1>1, <1>5, <2>5, <3>1, <3>3
  <2>6. CASE n \notin {p, s, f}
    <3>1. B2[n] = B[ch[n][e]] + One(n \in blk2) + One(n = x2 /\ e = e2)
      <4>1. One(n = x2 /\ e = e2) = One(n = x /\ e = e0) /\ One(n \in blk) = One(n \in blk2)
        <5>1. n \in blk2 <=> n \in blk
          BY <2>6
        <5>2. n = x2 /\ e = e2 <=> n = x /\ e = e0
          BY <2>6
        <5>3. QED
          BY <5>1, <5>2 DEF One
      <4>2. B2[n] = B[n] /\ B[n] = B[ch[n][e]] + One(n \in blk) + One(n = x /\ e = e0)
        BY <1>6, <1>8, <2>6
      <4>3. QED
        BY <4>1, <4>2
    <3>2. CASE ch[n][e] = p
      BY <1>2, <1>5, <2>6, <3>1, <3>2
    <3>3. CASE ch[n][e] # p
      <4>1. ch2[n][e] = ch[n][e] /\ ch[n][e] \in S \cup {nil} /\ ch[n][e] # s
        BY <1>1, <1>2, <2>6, <3>3
      <4>2. ch[n][e] # nil => ch[n][e] # f
        BY <1>1, <1>7, <2>6, <4>1
      <4>3. B2[ch[n][e]] = B[ch[n][e]]
        BY <1>5, <1>6, <1>8, <3>3, <4>1, <4>2
      <4>4. QED
        BY <3>1, <4>1, <4>3
    <3>4. QED
      BY <3>2, <3>3
  <2>7. QED
    BY <1>4, <2>1, <2>2, <2>3, <2>4, <2>5, <2>6
<1>10. QED
  BY <1>5, <1>9 DEF Labelled

\* A rotation at a black node that brings a red child up and exchanges their colors,
\* where the other child is not red; a slot may be on that other side.
LEMMA SwapColors ==
  ASSUME NEW S, NEW nil, NEW r, NEW ch, NEW par, Hung(S, nil, r, ch, par),
         NEW r2, NEW ch2, NEW par2, NEW p, NEW s, NEW d,
         Turns(S, r, ch, par, r2, ch2, par2, p, s, d),
         NEW blk, NEW v, NEW x, NEW e0, Colored(S, nil, ch, par, blk, v, x, e0),
         p \in blk, s \notin blk, x # s, x = p => e0 = d,
         v \in S => v = ch[s][Across(d)],
         ch[p][d] \in S => ch[p][d] \in blk,
         NEW blk2, \A m \in S : m \in blk2 <=> (m \in blk \/ m = s) /\ m # p
  PROVE  Colored(S, nil, ch2, par2, blk2, nil, x, e0)
<1>1. /\ nil \notin S
      /\ \A m \in S, e \in TwoSides :
           /\ ch[m][e] \in S \cup {nil}
           /\ ch[m][e] # nil => par[ch[m][e]] = m
      /\ \A m \in S : par[m] # nil => par[m] \in S /\ \E e \in TwoSides : ch[par[m]][e] = m
  BY DEF Hung
<1>2. /\ p \in S /\ s \in S /\ p # s /\ par[s] = p
      /\ ch[p][d] = nil \/ ch[p][d] \in S \ {p, s, r}
      /\ ch[s][d] = nil \/ ch[s][d] \in S \ {p, s, r, ch[p][d]}
  BY TurnSurroundings
<1>3. /\ d \in TwoSides /\ ch[p][Across(d)] = s
      /\ \A n \in S : par2[n] = IF n = p THEN s ELSE IF n = s THEN par[p]
                                ELSE IF n = ch[s][d] THEN p ELSE par[n]
  BY DEF Turns
<1>4. PICK o \in TwoSides : o = Across(d) /\ o # d /\ \A e \in TwoSides : e = d \/ e = o
  BY <1>3, BothSides
<1>5. PICK B : Labelled(S, nil, ch, blk, B, x, e0)
  BY DEF Colored
<1>6. /\ B \in [S \cup {nil} -> Nat]
      /\ B[nil] = 0
      /\ \A n \in S, e \in TwoSides : B[n] = B[ch[n][e]] + One(n \in blk) + One(n = x /\ e = e0)
  BY <1>5 DEF Labelled
<1>7. /\ B[p] = B[ch[p][d]] + 1 + One(p = x /\ d = e0)
      /\ B[p] = B[s] + 1
      /\ B[s] = B[ch[s][d]]
      /\ B[s] = B[ch[s][o]]
      /\ B[p] \in Nat /\ B[s] \in Nat /\ B[ch[p][d]] \in Nat
  <2>1. /\ B[p] = B[ch[p][d]] + One(p \in blk) + One(p = x /\ d = e0)
        /\ B[p] = B[ch[p][o]] + One(p \in blk) + One(p = x /\ o = e0)
        /\ B[s] = B[ch[s][d]] + One(s \in blk) + One(s = x /\ d = e0)
        /\ B[s] = B[ch[s][o]] + One(s \in blk) + One(s = x /\ o = e0)
    BY <1>2, <1>3, <1>6
  <2>2. One(p \in blk) = 1 /\ One(s \in blk) = 0
    BY DEF One
  <2>3. One(p = x /\ o = e0) = 0
    BY <1>4 DEF One
  <2>4. One(s = x /\ d = e0) = 0 /\ One(s = x /\ o = e0) = 0
    BY DEF One
  <2>5. /\ B[p] \in Nat /\ B[s] \in Nat /\ B[ch[p][d]] \in Nat
        /\ B[ch[s][d]] \in Nat /\ B[ch[s][o]] \in Nat
    BY <1>1, <1>2, <1>3, <1>6
  <2>6. ch[p][o] = s
    BY <1>3, <1>4
  <2>7. One(p = x /\ d = e0) \in Nat
    BY DEF One
  <2>8. QED
    BY <2>1, <2>2, <2>3, <2>4, <2>5, <2>6, <2>7
<1>8. PICK B2 \in [S \cup {nil} -> Nat] :
        \A m \in S \cup {nil} : B2[m] = IF m = p THEN B[s] ELSE IF m = s THEN B[p] ELSE B[m]
  <2>1. \A m \in S \cup {nil} : (IF m = p THEN B[s] ELSE IF m = s THEN B[p] ELSE B[m]) \in Nat
    BY <1>6, <1>7
  <2>2. [m \in S \cup {nil} |-> IF m = p THEN B[s] ELSE IF m = s THEN B[p] ELSE B[m]]
          \in [S \cup {nil} -> Nat]
    BY <2>1
  <2>3. QED
    BY <2>2
<1>9. TurnSums(S, nil, ch, blk2, B, B2, x, e0, p, s, d, s)
  <2>1. B2[p] = B[s] /\ B2[s] = B[p] /\ B2[nil] = 0
    BY <1>1, <1>2, <1>6, <1>8
  <2>2. \A n \in S \ {p, s, s} : B2[n] = B[n]
    BY <1>8
  <2>3. One(p \in blk2) = 0 /\ One(s \in blk2) = 1
    BY <1>2 DEF One
  <2>4. /\ One(p = x /\ Across(d) = e0) = 0
        /\ One(s = x /\ d = e0) = 0 /\ One(s = x /\ Across(d) = e0) = 0
    BY <1>4 DEF One
  <2>5. B2[ch[s][o]] = B[ch[s][o]]
    <3>1. ch[s][o] \in S \cup {nil} /\ (ch[s][o] # nil => par[ch[s][o]] = s)
      BY <1>1, <1>2
    <3>2. ch[s][o] # p /\ ch[s][o] # s
      BY <1>1, <1>2, <1>3, <3>1, TurnSurroundings
    <3>3. QED
      BY <1>8, <3>1, <3>2
  <2>6. B2[p] = B[ch[p][d]] + One(p \in blk2) + One(p = x /\ d = e0)
    <3>1. One(p = x /\ d = e0) \in Nat
      BY DEF One
    <3>2. QED
      BY <1>7, <2>1, <2>3, <3>1
  <2>7. B2[p] = B[ch[s][d]] + One(p \in blk2) + One(p = x /\ Across(d) = e0)
    BY <1>7, <2>1, <2>3, <2>4
  <2>8. B2[s] = B2[p] + One(s \in blk2) + One(s = x /\ d = e0)
    BY <1>7, <2>1, <2>3, <2>4
  <2>9. B2[s] = B2[ch[s][Across(d)]] + One(s \in blk2) + One(s = x /\ Across(d) = e0)
    BY <1>4, <1>7, <2>1, <2>3, <2>4, <2>5
  <2>10. QED
    BY <1>8, <2>1, <2>2, <2>6, <2>7, <2>8, <2>9 DEF TurnSums
<1>10. Labelled(S, nil, ch2, blk2, B2, x, e0)
  <2>1. \A n \in S \ {p, s, s} : n \in blk2 <=> n \in blk
    OBVIOUS
  <2>2. \A e \in TwoSides : s \in S => ch[s][e] # p
    BY <1>1, <1>2, TurnSurroundings
  <2>3. QED
    BY <1>5, <1>9, <2>1, <2>2, TurnLabels
<1>11. ASSUME NEW n \in S, n \notin blk2 PROVE par2[n] \in S \cap blk2
  <2>1. CASE n = p
    BY <1>2, <1>3, <2>1
  <2>2. CASE n # p
    <3>1. n \notin blk /\ n # s
      BY <1>11, <2>2
    <3>2. \A m \in S : m \notin blk /\ m # v => par[m] \in S \cap blk
      BY DEF Colored, Reds
    <3>3. CASE n = v
      <4>1. n = ch[s][o] /\ par[n] = s /\ (ch[s][d] # nil => ch[s][d] # ch[s][Across(d)])
        BY <1>1, <1>2, <1>3, <1>4, <3>3 DEF Hung
      <4>2. n # ch[s][d]
        BY <1>1, <1>4, <4>1
      <4>3. QED
        BY <1>2, <1>3, <2>2, <3>1, <4>1, <4>2
    <3>4. CASE n # v
      <4>1. par[n] \in S \cap blk
        BY <3>1, <3>2, <3>4
      <4>2. n # ch[s][d]
        BY <1>1, <1>2, <1>3, <4>1
      <4>3. par[n] # p
        <5>1. ASSUME par[n] = p PROVE FALSE
          <6>1. PICK e \in TwoSides : ch[p][e] = n
            BY <1>1, <1>2, <5>1
          <6>2. QED
            BY <1>3, <1>4, <3>1, <6>1
        <5>2. QED
          BY <5>1
      <4>4. QED
        BY <1>3, <2>2, <3>1, <4>1, <4>2, <4>3
    <3>5. QED
      BY <3>3, <3>4
  <2>3. QED
    BY <2>1, <2>2
<1>12. QED
  BY <1>10, <1>11 DEF Colored, Reds

\* A rotation at a red node that brings its red child up, on the inner side.
LEMMA InnerColors ==
  ASSUME NEW S, NEW nil, NEW r, NEW ch, NEW par, Hung(S, nil, r, ch, par),
         NEW r2, NEW ch2, NEW par2, NEW p, NEW s, NEW d,
         Turns(S, r, ch, par, r2, ch2, par2, p, s, d),
         NEW blk, Colored(S, nil, ch, par, blk, s, nil, "left"),
         p \notin blk, s \notin blk
  PROVE  Colored(S, nil, ch2, par2, blk, p, nil, "left")
<1>1. /\ nil \notin S
      /\ \A m \in S, e \in TwoSides :
           /\ ch[m][e] \in S \cup {nil}
           /\ ch[m][e] # nil => par[ch[m][e]] = m
  BY DEF Hung
<1>2. /\ p \in S /\ s \in S /\ p # s /\ par[s] = p
  BY TurnSurroundings
<1>3. /\ d \in TwoSides /\ ch[p][Across(d)] = s
      /\ \A n \in S : par2[n] = IF n = p THEN s ELSE IF n = s THEN par[p]
                                ELSE IF n = ch[s][d] THEN p ELSE par[n]
  BY DEF Turns
<1>4. PICK o \in TwoSides : o = Across(d) /\ o # d
  BY <1>3, BothSides
<1>5. PICK B : Labelled(S, nil, ch, blk, B, nil, "left")
  BY DEF Colored
<1>6. /\ B \in [S \cup {nil} -> Nat]
      /\ B[nil] = 0
      /\ \A n \in S, e \in TwoSides : B[n] = B[ch[n][e]] + One(n \in blk)
  <2>1. \A m \in S, e \in TwoSides : ch[m][e] \in S \cup {nil}
    BY <1>1
  <2>2. Plain(S, nil, ch, blk, B)
    BY <1>1, <1>5, <2>1, NoSlotLabels
  <2>3. QED
    BY <2>2 DEF Plain
<1>7. One(p \in blk) = 0 /\ One(s \in blk) = 0
  BY DEF One
<1>8. \A n \in S : \A e : One(n = nil /\ e = "left") = 0
  BY <1>1 DEF One
<1>9. /\ B[p] = B[ch[p][d]]
      /\ B[p] = B[s]
      /\ B[s] = B[ch[s][d]]
      /\ B[s] = B[ch[s][o]]
  <2>1. /\ B[p] = B[ch[p][d]] + One(p \in blk)
        /\ B[p] = B[ch[p][o]] + One(p \in blk)
        /\ B[s] = B[ch[s][d]] + One(s \in blk)
        /\ B[s] = B[ch[s][o]] + One(s \in blk)
    BY <1>2, <1>3, <1>6
  <2>2. B[ch[p][d]] \in Nat /\ B[ch[p][o]] \in Nat /\ B[ch[s][d]] \in Nat /\ B[ch[s][o]] \in Nat
    BY <1>1, <1>2, <1>3, <1>6
  <2>3. QED
    BY <1>3, <1>4, <1>7, <2>1, <2>2
<1>10. TurnSums(S, nil, ch, blk, B, B, nil, "left", p, s, d, s)
  <2>1. B[p] \in Nat /\ B[s] \in Nat
    BY <1>2, <1>6
  <2>2. /\ B[p] = B[ch[p][d]] + One(p \in blk) + One(p = nil /\ d = "left")
        /\ B[p] = B[ch[s][d]] + One(p \in blk) + One(p = nil /\ Across(d) = "left")
        /\ B[s] = B[p] + One(s \in blk) + One(s = nil /\ d = "left")
        /\ B[s] = B[ch[s][Across(d)]] + One(s \in blk) + One(s = nil /\ Across(d) = "left")
    BY <1>2, <1>4, <1>7, <1>8, <1>9, <2>1
  <2>3. QED
    BY <1>6, <1>9, <2>2 DEF TurnSums
<1>11. Labelled(S, nil, ch2, blk, B, nil, "left")
  <2>1. \A e \in TwoSides : s \in S => ch[s][e] # p
    BY <1>1, <1>2, TurnSurroundings
  <2>2. QED
    BY <1>5, <1>10, <2>1, TurnLabels
<1>12. ASSUME NEW n \in S, n \notin blk, n # p PROVE par2[n] \in S \cap blk
  <2>1. \A m \in S : m \notin blk /\ m # s => par[m] \in S \cap blk
    BY DEF Colored, Reds
  <2>2. CASE n = s
    BY <1>2, <1>3, <2>1, <2>2
  <2>3. CASE n # s
    <3>1. par[n] \in S \cap blk /\ n # ch[s][d]
      BY <1>1, <1>2, <1>3, <1>12, <2>1, <2>3
    <3>2. QED
      BY <1>3, <1>12, <2>3, <3>1
  <2>4. QED
    BY <2>2, <2>3
<1>13. QED
  BY <1>11, <1>12 DEF Colored, Reds

\* The last rotation of a deletion: s takes the color of p, its red outer child turns
\* black, and the slot is gone.
LEMMA LastColors ==
  ASSUME NEW S, NEW nil, NEW r, NEW ch, NEW par, Hung(S, nil, r, ch, par),
         NEW r2, NEW ch2, NEW par2, NEW p, NEW s, NEW d,
         Turns(S, r, ch, par, r2, ch2, par2, p, s, d),
         NEW blk, Colored(S, nil, ch, par, blk, nil, p, d),
         NEW f \in S, f = ch[s][Across(d)], s \in blk, f \notin blk,
         ch[p][d] \in S => ch[p][d] \in blk,
         NEW blk2,
         \A m \in S : m \in blk2 <=> IF m = s THEN p \in blk ELSE m \in blk \/ m = p \/ m = f
  PROVE  Colored(S, nil, ch2, par2, blk2, nil, nil, "left")
<1>1. /\ nil \notin S
      /\ \A m \in S, e \in TwoSides :
           /\ ch[m][e] \in S \cup {nil}
           /\ ch[m][e] # nil => par[ch[m][e]] = m /\ ch[m][e] # m
      /\ \A m \in S : par[m] # nil => par[m] \in S /\ \E e \in TwoSides : ch[par[m]][e] = m
  BY DEF Hung
<1>2. /\ p \in S /\ s \in S /\ p # s /\ par[s] = p /\ par[p] # p /\ par[p] # s
  BY TurnSurroundings
<1>3. /\ d \in TwoSides /\ ch[p][Across(d)] = s
      /\ \A n \in S : par2[n] = IF n = p THEN s ELSE IF n = s THEN par[p]
                                ELSE IF n = ch[s][d] THEN p ELSE par[n]
  BY DEF Turns
<1>4. PICK o \in TwoSides : o = Across(d) /\ o # d /\ \A e \in TwoSides : e = d \/ e = o
  BY <1>3, BothSides
<1>5. f = ch[s][o] /\ par[f] = s /\ f # s /\ f # p /\ f # nil
  BY <1>1, <1>2, <1>4
<1>6. PICK B : Labelled(S, nil, ch, blk, B, p, d)
  BY DEF Colored
<1>7. /\ B \in [S \cup {nil} -> Nat]
      /\ B[nil] = 0
      /\ \A n \in S, e \in TwoSides : B[n] = B[ch[n][e]] + One(n \in blk) + One(n = p /\ e = d)
  BY <1>6 DEF Labelled
<1>8. PICK k \in Nat : k = One(p \in blk)
  BY DEF One
<1>9. PICK t \in Nat : t = B[ch[p][d]]
  BY <1>1, <1>2, <1>3, <1>7
<1>10. /\ B[p] = t + k + 1
       /\ B[s] = t + 1
       /\ B[ch[s][d]] = t
       /\ B[f] = t
       /\ \A e \in TwoSides : B[ch[f][e]] = t
  <2>1. /\ B[p] = B[ch[p][d]] + One(p \in blk) + One(p = p /\ d = d)
        /\ B[p] = B[ch[p][o]] + One(p \in blk) + One(p = p /\ o = d)
        /\ B[s] = B[ch[s][d]] + One(s \in blk) + One(s = p /\ d = d)
        /\ B[s] = B[ch[s][o]] + One(s \in blk) + One(s = p /\ o = d)
        /\ \A e \in TwoSides : B[f] = B[ch[f][e]] + One(f \in blk) + One(f = p /\ e = d)
    BY <1>2, <1>3, <1>7
  <2>2. /\ One(s \in blk) = 1 /\ One(f \in blk) = 0
        /\ One(p = p /\ d = d) = 1 /\ One(p = p /\ o = d) = 0
        /\ One(s = p /\ d = d) = 0 /\ One(s = p /\ o = d) = 0
        /\ \A e : One(f = p /\ e = d) = 0
    BY <1>2, <1>4, <1>5 DEF One
  <2>3. /\ B[s] \in Nat /\ B[ch[s][d]] \in Nat /\ B[ch[s][o]] \in Nat
        /\ \A e \in TwoSides : B[ch[f][e]] \in Nat
    BY <1>1, <1>2, <1>3, <1>7
  <2>4. B[p] = t + k + 1
    BY <1>8, <1>9, <2>1, <2>2
  <2>5. B[s] = t + 1
    BY <1>3, <1>4, <1>8, <2>1, <2>2, <2>3, <2>4
  <2>6. B[ch[s][d]] = t /\ B[f] = t
    BY <1>5, <2>1, <2>2, <2>3, <2>5
  <2>7. QED
    BY <2>1, <2>2, <2>3, <2>4, <2>5, <2>6
<1>11. PICK B2 \in [S \cup {nil} -> Nat] :
         \A m \in S \cup {nil} : B2[m] = IF m = p \/ m = f THEN t + 1
                                         ELSE IF m = s THEN B[p] ELSE B[m]
  <2>1. \A m \in S \cup {nil} :
          (IF m = p \/ m = f THEN t + 1 ELSE IF m = s THEN B[p] ELSE B[m]) \in Nat
    BY <1>2, <1>7
  <2>2. [m \in S \cup {nil} |-> IF m = p \/ m = f THEN t + 1 ELSE IF m = s THEN B[p] ELSE B[m]]
          \in [S \cup {nil} -> Nat]
    BY <2>1
  <2>3. QED
    BY <2>2
<1>12. \A n \in S : \A e : One(n = nil /\ e = "left") = 0
  BY <1>1 DEF One
<1>13. TurnSums(S, nil, ch, blk2, B, B2, nil, "left", p, s, d, f)
  <2>1. B2[p] = t + 1 /\ B2[f] = t + 1 /\ B2[s] = t + k + 1 /\ B2[nil] = 0
    BY <1>1, <1>2, <1>5, <1>7, <1>10, <1>11
  <2>2. \A n \in S \ {p, s, f} : B2[n] = B[n]
    BY <1>11
  <2>3. One(p \in blk2) = 1 /\ One(s \in blk2) = k /\ One(f \in blk2) = 1
    BY <1>2, <1>5, <1>8 DEF One
  <2>4. /\ One(p = nil /\ d = "left") = 0 /\ One(p = nil /\ Across(d) = "left") = 0
        /\ One(s = nil /\ d = "left") = 0 /\ One(s = nil /\ Across(d) = "left") = 0
        /\ \A e \in TwoSides : One(f = nil /\ e = "left") = 0
    BY <1>2, <1>12
  <2>5. B2[p] = B[ch[p][d]] + One(p \in blk2) + One(p = nil /\ d = "left")
    BY <1>9, <2>1, <2>3, <2>4
  <2>6. B2[p] = B[ch[s][d]] + One(p \in blk2) + One(p = nil /\ Across(d) = "left")
    BY <1>10, <2>1, <2>3, <2>4
  <2>7. B2[s] = B2[p] + One(s \in blk2) + One(s = nil /\ d = "left")
    BY <2>1, <2>3, <2>4
  <2>8. B2[s] = B2[ch[s][Across(d)]] + One(s \in blk2) + One(s = nil /\ Across(d) = "left")
    BY <2>1, <2>3, <2>4
  <2>9. B2[s] = B[p]
    BY <1>10, <2>1
  <2>10. \A e \in TwoSides : B2[f] = B[ch[f][e]] + One(f \in blk2) + One(f = nil /\ e = "left")
    BY <1>10, <2>1, <2>3, <2>4
  <2>11. QED
    BY <1>11, <2>1, <2>2, <2>5, <2>6, <2>7, <2>8, <2>9, <2>10 DEF TurnSums
<1>14. Labelled(S, nil, ch2, blk2, B2, nil, "left")
  <2>1. \A n \in S \ {p, s, f} : n \in blk2 <=> n \in blk
    OBVIOUS
  <2>2. \A n \in S \ {p, s, f}, e \in TwoSides : n = nil /\ e = "left" <=> n = p /\ e = d
    BY <1>1
  <2>4. \A e \in TwoSides : f \in S => ch[f][e] # p
    BY <1>10
  <2>5. QED
    BY <1>6, <1>13, <2>1, <2>2, <2>4, TurnLabels
<1>15. ASSUME NEW n \in S, n \notin blk2 PROVE par2[n] \in S \cap blk2
  <2>1. \A m \in S : m \notin blk => par[m] \in S \cap blk
    BY <1>1 DEF Colored, Reds
  <2>2. CASE n = s
    <3>1. p \notin blk
      BY <1>15, <2>2
    <3>2. par[p] \in S \cap blk /\ par2[s] = par[p]
      BY <1>2, <1>3, <2>1, <3>1
    <3>3. QED
      BY <1>2, <2>2, <3>2
  <2>3. CASE n # s
    <3>1. n \notin blk /\ n # p /\ n # f
      BY <1>15, <2>3
    <3>2. par[n] \in S \cap blk
      BY <2>1, <3>1
    <3>3. CASE n = ch[s][d]
      BY <1>2, <1>3, <2>3, <3>1, <3>3
    <3>4. CASE n # ch[s][d]
      <4>1. par2[n] = par[n]
        BY <1>3, <2>3, <3>1, <3>4
      <4>2. par[n] # s
        BY <1>1, <1>4, <1>5, <3>1, <3>2, <3>4
      <4>3. QED
        BY <3>2, <4>1, <4>2
    <3>5. QED
      BY <3>3, <3>4
  <2>4. QED
    BY <2>2, <2>3
<1>16. QED
  BY <1>14, <1>15 DEF Colored, Reds

\* A black sibling without red children turns red: the slot moves up, or ends at a red
\* parent, which turns black, and at the root.
LEMMA FadeColors ==
  ASSUME NEW S, NEW nil, NEW r, NEW ch, NEW par, Hung(S, nil, r, ch, par),
         NEW p \in S, NEW d \in TwoSides, NEW s \in S, s = ch[p][Across(d)],
         NEW blk, Colored(S, nil, ch, par, blk, nil, p, d),
         s \in blk, \A e \in TwoSides : ch[s][e] \in S => ch[s][e] \in blk,
         NEW blk2, \A m \in S : m \in blk2 <=> (m \in blk \/ m = p) /\ m # s,
         NEW x, NEW e1,
         IF p \notin blk \/ p = r THEN x = nil /\ e1 = "left"
         ELSE x = par[p] /\ e1 \in TwoSides /\ ch[x][e1] = p
  PROVE  Colored(S, nil, ch, par, blk2, nil, x, e1)
<1> SUFFICES
      /\ p \notin blk \/ p = r => Colored(S, nil, ch, par, blk2, nil, nil, "left")
      /\ p \in blk /\ p # r =>
           \A e \in TwoSides : ch[par[p]][e] = p => Colored(S, nil, ch, par, blk2, nil, par[p], e)
  OBVIOUS
<1>1. /\ nil \notin S
      /\ \A m \in S, e \in TwoSides :
           /\ ch[m][e] \in S \cup {nil}
           /\ ch[m][e] # nil => par[ch[m][e]] = m /\ ch[m][e] # m /\ ch[m][e] # r
                                /\ ch[m][e] # ch[m][Across(e)]
      /\ \A m \in S : IF par[m] = nil THEN m = r
                      ELSE par[m] \in S /\ \E e \in TwoSides : ch[par[m]][e] = m
  BY DEF Hung
<1>2. PICK o \in TwoSides : o = Across(d) /\ o # d /\ \A e \in TwoSides : e = d \/ e = o
  BY BothSides
<1>3. par[s] = p /\ s # p /\ ch[p][o] = s /\ s # r
  BY <1>1, <1>2
<1>4. PICK B : Labelled(S, nil, ch, blk, B, p, d)
  BY DEF Colored
<1>5. /\ B \in [S \cup {nil} -> Nat]
      /\ B[nil] = 0
      /\ \A n \in S, e \in TwoSides : B[n] = B[ch[n][e]] + One(n \in blk) + One(n = p /\ e = d)
  BY <1>4 DEF Labelled
<1>6. PICK k \in Nat : k = One(p \in blk)
  BY DEF One
<1>7. PICK t \in Nat : t = B[ch[p][d]]
  BY <1>1, <1>5
<1>8. /\ B[p] = t + k + 1
      /\ B[s] = t + 1
      /\ \A e \in TwoSides : B[ch[s][e]] = t
  <2>1. /\ B[p] = B[ch[p][d]] + One(p \in blk) + One(p = p /\ d = d)
        /\ B[p] = B[ch[p][o]] + One(p \in blk) + One(p = p /\ o = d)
        /\ \A e \in TwoSides : B[s] = B[ch[s][e]] + One(s \in blk) + One(s = p /\ e = d)
    BY <1>5
  <2>2. /\ One(s \in blk) = 1 /\ One(p = p /\ d = d) = 1 /\ One(p = p /\ o = d) = 0
        /\ \A e : One(s = p /\ e = d) = 0
    BY <1>2, <1>3 DEF One
  <2>3. B[s] \in Nat /\ \A e \in TwoSides : B[ch[s][e]] \in Nat
    BY <1>1, <1>5
  <2>4. B[p] = t + k + 1
    BY <1>6, <1>7, <2>1, <2>2
  <2>5. B[s] = t + 1
    BY <1>3, <1>6, <2>1, <2>2, <2>3, <2>4
  <2>6. QED
    BY <2>1, <2>2, <2>3, <2>4, <2>5
<1>9. PICK B2 \in [S \cup {nil} -> Nat] :
        \A m \in S \cup {nil} : B2[m] = IF m = p THEN t + 1 ELSE IF m = s THEN t ELSE B[m]
  <2>1. \A m \in S \cup {nil} : (IF m = p THEN t + 1 ELSE IF m = s THEN t ELSE B[m]) \in Nat
    BY <1>5
  <2>2. [m \in S \cup {nil} |-> IF m = p THEN t + 1 ELSE IF m = s THEN t ELSE B[m]]
          \in [S \cup {nil} -> Nat]
    BY <2>1
  <2>3. QED
    BY <2>2
<1>10. B2[nil] = 0 /\ B2[p] = t + 1 /\ B2[s] = t
  BY <1>1, <1>3, <1>5, <1>9
\* The sums of all nodes but of the parent of p.
<1>11. ASSUME NEW n \in S, NEW e \in TwoSides, ch[n][e] # p
       PROVE  B2[n] = B2[ch[n][e]] + One(n \in blk2)
  <2>1. CASE n = p
    <3>1. One(n \in blk2) = 1
      BY <1>3, <2>1 DEF One
    <3>2. CASE e = d
      <4>1. ch[p][d] # p /\ ch[p][d] # s /\ ch[p][d] \in S \cup {nil}
        BY <1>1, <1>2, <1>3
      <4>2. B2[ch[p][d]] = t
        BY <1>7, <1>9, <4>1
      <4>3. QED
        BY <1>10, <2>1, <3>1, <3>2, <4>2
    <3>3. CASE e = o
      BY <1>3, <1>10, <2>1, <3>1, <3>3
    <3>4. QED
      BY <1>2, <3>2, <3>3
  <2>2. CASE n # p
    <3>1. ch[n][e] # s /\ ch[n][e] \in S \cup {nil}
      BY <1>1, <1>3, <2>2
    <3>2. B2[ch[n][e]] = B[ch[n][e]]
      BY <1>9, <1>11, <3>1
    <3>3. CASE n = s
      <4>1. One(n \in blk2) = 0
        BY <3>3 DEF One
      <4>2. QED
        BY <1>8, <1>10, <3>2, <3>3, <4>1
    <3>4. CASE n # s
      <4>1. One(n \in blk2) = One(n \in blk) /\ One(n = p /\ e = d) = 0
        BY <2>2, <3>4 DEF One
      <4>2. B2[n] = B[n] /\ B[n] = B[ch[n][e]] + One(n \in blk) + One(n = p /\ e = d)
        BY <1>5, <1>9, <2>2, <3>4
      <4>3. B[ch[n][e]] \in Nat /\ One(n \in blk) \in Nat
        BY <1>1, <1>5 DEF One
      <4>4. QED
        BY <3>2, <4>1, <4>2, <4>3
    <3>5. QED
      BY <3>3, <3>4
  <2>3. QED
    BY <2>1, <2>2
\* The sum of the parent of p.
<1>12. ASSUME NEW n \in S, NEW e \in TwoSides, ch[n][e] = p
       PROVE  B2[n] = B2[ch[n][e]] + One(n \in blk2) + k
  <2>1. n # p /\ n # s
    <3>1. n = s => B[p] = t
      BY <1>8, <1>12
    <3>2. QED
      BY <1>1, <1>8, <1>12, <3>1
  <2>2. One(n \in blk2) = One(n \in blk) /\ One(n = p /\ e = d) = 0
    BY <2>1 DEF One
  <2>3. B2[n] = B[n] /\ B[n] = B[p] + One(n \in blk) + One(n = p /\ e = d)
    BY <1>5, <1>9, <1>12, <2>1
  <2>4. One(n \in blk) \in Nat
    BY DEF One
  <2>5. QED
    BY <1>8, <1>10, <1>12, <2>2, <2>3, <2>4
<1>13. Reds(S, par, blk2, nil)
  <2>1. \A m \in S : m \notin blk => par[m] \in S \cap blk
    BY <1>1 DEF Colored, Reds
  <2>2. ASSUME NEW n \in S, n \notin blk2 PROVE par[n] \in S \cap blk2
    <3>1. CASE n = s
      BY <1>3, <3>1
    <3>2. CASE n # s
      <4>1. n \notin blk /\ par[n] \in S \cap blk
        BY <2>1, <2>2, <3>2
      <4>2. par[n] # s
        BY <1>1, <4>1
      <4>3. QED
        BY <4>1, <4>2
    <3>3. QED
      BY <3>1, <3>2
  <2>3. QED
    BY <2>2 DEF Reds
<1>14. ASSUME p \notin blk \/ p = r PROVE Colored(S, nil, ch, par, blk2, nil, nil, "left")
  <2>1. ASSUME NEW n \in S, NEW e \in TwoSides PROVE B2[n] = B2[ch[n][e]] + One(n \in blk2)
    <3>1. CASE ch[n][e] = p
      <4>1. p # r /\ k = 0
        BY <1>1, <1>6, <1>14, <3>1 DEF One
      <4>2. B2[n] = B2[ch[n][e]] + One(n \in blk2) + 0
        BY <1>12, <3>1, <4>1
      <4>3. B2[ch[n][e]] \in Nat /\ One(n \in blk2) \in Nat
        BY <1>9, <3>1 DEF One
      <4>4. QED
        BY <4>2, <4>3
    <3>2. CASE ch[n][e] # p
      BY <1>11, <3>2
    <3>3. QED
      BY <3>1, <3>2
  <2>2. Labelled(S, nil, ch, blk2, B2, nil, "left")
    BY <1>1, <1>9, <1>10, <2>1, NoSlotLabels DEF Plain
  <2>3. QED
    BY <1>13, <2>2 DEF Colored
<1>15. ASSUME p \in blk, p # r, NEW e0 \in TwoSides, ch[par[p]][e0] = p
       PROVE  Colored(S, nil, ch, par, blk2, nil, par[p], e0)
  <2>1. k = 1
    BY <1>6, <1>15 DEF One
  <2>2. ASSUME NEW n \in S, NEW e \in TwoSides
        PROVE  B2[n] = B2[ch[n][e]] + One(n \in blk2) + One(n = par[p] /\ e = e0)
    <3>1. CASE ch[n][e] = p
      <4>1. n = par[p] /\ e = e0
        <5>1. n = par[p]
          BY <1>1, <3>1
        <5>2. e = e0 \/ e = Across(e0)
          BY BothSides
        <5>3. QED
          BY <1>1, <1>15, <3>1, <5>1, <5>2
      <4>2. One(n = par[p] /\ e = e0) = 1
        BY <4>1 DEF One
      <4>3. QED
        BY <1>12, <2>1, <3>1, <4>2
    <3>2. CASE ch[n][e] # p
      <4>1. One(n = par[p] /\ e = e0) = 0
        BY <1>15, <3>2 DEF One
      <4>2. B2[ch[n][e]] \in Nat /\ One(n \in blk2) \in Nat
        BY <1>1, <1>9 DEF One
      <4>3. QED
        BY <1>11, <3>2, <4>1, <4>2
    <3>3. QED
      BY <3>1, <3>2
  <2>3. Labelled(S, nil, ch, blk2, B2, par[p], e0)
    BY <1>9, <1>10, <2>2 DEF Labelled
  <2>4. QED
    BY <1>13, <2>3 DEF Colored
<1>16. QED
  BY <1>14, <1>15

\* A node that leaves: what moves up takes over its black, or else leaves a slot.
LEMMA CutColors ==
  ASSUME NEW S, NEW nil, NEW r, NEW ch, NEW par, Hung(S, nil, r, ch, par),
         NEW r2, NEW ch2, NEW par2, NEW n, NEW c, NEW d,
         Cuts(S, nil, r, ch, par, r2, ch2, par2, n, c, d),
         NEW blk, Colored(S, nil, ch, par, blk, nil, nil, "left"),
         NEW blk2, \A m \in S \ {n} : m \in blk2 <=> m \in blk \/ (m = c /\ n \in blk),
         NEW x, NEW e1,
         IF n \notin blk \/ (c \in S /\ c \notin blk) \/ n = r THEN x = nil /\ e1 = "left"
         ELSE x = par[n] /\ e1 \in TwoSides /\ ch[x][e1] = n
  PROVE  Colored(S \ {n}, nil, ch2, par2, blk2, nil, x, e1)
<1> SUFFICES
      /\ n \notin blk \/ (c \in S /\ c \notin blk) \/ n = r =>
           Colored(S \ {n}, nil, ch2, par2, blk2, nil, nil, "left")
      /\ n \in blk /\ (c \in S => c \in blk) /\ n # r =>
           \A e \in TwoSides : ch[par[n]][e] = n =>
             Colored(S \ {n}, nil, ch2, par2, blk2, nil, par[n], e)
  OBVIOUS
<1>1. /\ nil \notin S
      /\ \A m \in S, e \in TwoSides :
           /\ ch[m][e] \in S \cup {nil}
           /\ ch[m][e] # nil => par[ch[m][e]] = m /\ ch[m][e] # m /\ ch[m][e] # r
                                /\ ch[m][e] # ch[m][Across(e)]
      /\ \A m \in S : IF par[m] = nil THEN m = r
                      ELSE par[m] \in S /\ \E e \in TwoSides : ch[par[m]][e] = m
  BY DEF Hung
<1>2. /\ n \in S /\ d \in TwoSides /\ ch[n][Across(d)] = nil /\ c = ch[n][d]
      /\ \A m \in S \ {n}, e \in TwoSides : ch2[m][e] = IF ch[m][e] = n THEN c ELSE ch[m][e]
      /\ \A m \in S \ {n} : par2[m] = IF m = c THEN par[n] ELSE par[m]
  BY DEF Cuts
<1>3. /\ c \in (S \ {n}) \cup {nil}
      /\ c # nil => par[c] = n
      /\ \A m \in S \ {n} : par[m] = n => m = c
  <2>1. \A e \in TwoSides : e = d \/ e = Across(d)
    BY <1>2, BothSides
  <2>2. QED
    BY <1>1, <1>2, <2>1
<1>4. PICK B : Labelled(S, nil, ch, blk, B, nil, "left")
  BY DEF Colored
<1>5. /\ B \in [S \cup {nil} -> Nat]
      /\ B[nil] = 0
      /\ \A m \in S, e \in TwoSides : B[m] = B[ch[m][e]] + One(m \in blk)
  <2>1. \A m \in S, e \in TwoSides : ch[m][e] \in S \cup {nil}
    BY <1>1
  <2>2. Plain(S, nil, ch, blk, B)
    BY <1>1, <1>4, <2>1, NoSlotLabels
  <2>3. QED
    BY <2>2 DEF Plain
<1>6. PICK S2, M : S2 = S \ {n} /\ M = S2 \cup {nil}
  OBVIOUS
<1>7. PICK k \in Nat : k = IF n \in blk /\ c \in S /\ c \notin blk THEN 1 ELSE 0
  OBVIOUS
<1>8. PICK B2 \in [M -> Nat] : \A m \in M : B2[m] = IF m = c THEN B[m] + k ELSE B[m]
  <2>1. \A m \in M : (IF m = c THEN B[m] + k ELSE B[m]) \in Nat
    BY <1>5, <1>6, <1>7
  <2>2. [m \in M |-> IF m = c THEN B[m] + k ELSE B[m]] \in [M -> Nat]
    BY <2>1
  <2>3. QED
    BY <2>2
<1>9. B2[nil] = 0
  BY <1>1, <1>5, <1>6, <1>7, <1>8
<1>10. ASSUME NEW m \in S2
       PROVE  B2[m] \in Nat /\ One(m \in blk2) \in Nat
              /\ \A e \in TwoSides : B2[m] = B[ch[m][e]] + One(m \in blk2)
  <2>1. m \in S /\ m \in M /\ m # n
    BY <1>6
  <2>2. B[m] \in Nat /\ \A e \in TwoSides : B[ch[m][e]] \in Nat /\ B[m] = B[ch[m][e]] + One(m \in blk)
    BY <1>1, <1>5, <2>1
  <2>3. CASE m = c
    <3>1. One(m \in blk2) = One(m \in blk) + k
      BY <1>7, <2>1, <2>3 DEF One
    <3>2. B2[m] = B[m] + k
      BY <1>8, <2>1, <2>3
    <3>3. One(m \in blk) \in Nat /\ One(m \in blk2) \in Nat /\ B2[m] \in Nat
      BY <1>8, <2>1 DEF One
    <3>4. QED
      BY <2>2, <3>1, <3>2, <3>3
  <2>4. CASE m # c
    <3>1. One(m \in blk2) = One(m \in blk) /\ One(m \in blk) \in Nat
      BY <2>1, <2>4 DEF One
    <3>2. B2[m] = B[m]
      BY <1>8, <2>1, <2>4
    <3>3. QED
      BY <2>2, <3>1, <3>2
  <2>5. QED
    BY <2>3, <2>4
<1>11. ASSUME NEW m \in S2, NEW e \in TwoSides, ch[m][e] # n
       PROVE  B2[ch2[m][e]] = B[ch[m][e]] /\ ch2[m][e] \in M
  <2>1. m \in S \ {n} /\ ch2[m][e] = ch[m][e] /\ ch[m][e] \in M
    BY <1>1, <1>2, <1>6, <1>11
  <2>2. ch[m][e] # nil => ch[m][e] # c
    BY <1>1, <1>3, <2>1
  <2>3. QED
    BY <1>5, <1>8, <1>9, <2>1, <2>2
<1>12. ASSUME NEW m \in S2, NEW e \in TwoSides, ch[m][e] = n
       PROVE  ch2[m][e] = c /\ c \in M /\ B2[c] = B[c] + k /\ B[c] \in Nat
              /\ B[n] = B[c] + One(n \in blk)
  BY <1>2, <1>3, <1>5, <1>6, <1>8, <1>12
<1>13. Reds(S2, par2, blk2, nil)
  <2>1. \A m \in S : m \notin blk => par[m] \in S \cap blk
    BY <1>1 DEF Colored, Reds
  <2>2. ASSUME NEW m \in S2, m \notin blk2 PROVE par2[m] \in S2 \cap blk2
    <3>1. m \in S \ {n} /\ m \notin blk /\ par[m] \in S \cap blk
      BY <1>6, <2>1, <2>2
    <3>2. m # c
      BY <1>1, <1>3, <2>2, <3>1
    <3>3. par[m] # n
      BY <1>3, <3>1, <3>2
    <3>4. QED
      BY <1>2, <1>6, <3>1, <3>2, <3>3
  <2>3. QED
    BY <2>2 DEF Reds
<1>14. ASSUME n \notin blk \/ (c \in S /\ c \notin blk) \/ n = r
       PROVE  Colored(S2, nil, ch2, par2, blk2, nil, nil, "left")
  <2>1. ASSUME NEW m \in S2, NEW e \in TwoSides PROVE B2[m] = B2[ch2[m][e]] + One(m \in blk2)
    <3>1. CASE ch[m][e] = n
      <4>1. n # r
        BY <1>1, <1>2, <1>6, <3>1
      <4>2. One(n \in blk) = k
        BY <1>1, <1>3, <1>7, <1>14, <4>1 DEF One
      <4>3. QED
        BY <1>10, <1>12, <3>1, <4>2
    <3>2. CASE ch[m][e] # n
      BY <1>10, <1>11, <3>2
    <3>3. QED
      BY <3>1, <3>2
  <2>2. \A m \in S2, e \in TwoSides : ch2[m][e] \in S2 \cup {nil}
    BY <1>6, <1>11, <1>12
  <2>3. Plain(S2, nil, ch2, blk2, B2)
    BY <1>6, <1>8, <1>9, <2>1 DEF Plain
  <2>4. nil \notin S2
    BY <1>1, <1>6
  <2>5. Labelled(S2, nil, ch2, blk2, B2, nil, "left")
    BY <2>2, <2>3, <2>4, NoSlotLabels
  <2>6. QED
    BY <1>13, <2>5 DEF Colored
<1>15. ASSUME n \in blk, c \in S => c \in blk, n # r, NEW e0 \in TwoSides, ch[par[n]][e0] = n
       PROVE  Colored(S2, nil, ch2, par2, blk2, nil, par[n], e0)
  <2>1. ASSUME NEW m \in S2, NEW e \in TwoSides
        PROVE  B2[m] = B2[ch2[m][e]] + One(m \in blk2) + One(m = par[n] /\ e = e0)
    <3>1. CASE ch[m][e] = n
      <4>1. m = par[n] /\ e = e0
        <5>1. m = par[n] /\ m \in S
          BY <1>1, <1>2, <1>6, <3>1
        <5>2. e = e0 \/ e = Across(e0)
          BY BothSides
        <5>3. QED
          BY <1>1, <1>2, <1>15, <3>1, <5>1, <5>2
      <4>2. One(m = par[n] /\ e = e0) = 1 /\ One(n \in blk) = 1 /\ k = 0
        BY <1>7, <1>15, <4>1 DEF One
      <4>3. QED
        BY <1>10, <1>12, <3>1, <4>2
    <3>2. CASE ch[m][e] # n
      <4>1. One(m = par[n] /\ e = e0) = 0
        BY <1>15, <3>2 DEF One
      <4>2. QED
        BY <1>10, <1>11, <3>2, <4>1
    <3>3. QED
      BY <3>1, <3>2
  <2>2. Labelled(S2, nil, ch2, blk2, B2, par[n], e0)
    BY <1>6, <1>8, <1>9, <2>1 DEF Labelled
  <2>3. QED
    BY <1>13, <2>2 DEF Colored
<1>16. QED
  BY <1>6, <1>14, <1>15

\* A node that takes the place and the color of another; a slot may hang from that.
LEMMA TakeColors ==
  ASSUME NEW S, NEW nil, NEW r, NEW ch, NEW par, Hung(S, nil, r, ch, par),
         NEW r2, NEW ch2, NEW par2, NEW old, NEW new,
         Takes(S, nil, r, ch, par, r2, ch2, par2, old, new),
         NEW blk, NEW x \in S \cup {nil}, NEW e0, Colored(S, nil, ch, par, blk, nil, x, e0),
         NEW blk2, new \in blk2 <=> old \in blk,
         \A m \in S \ {old} : m \in blk2 <=> m \in blk,
         NEW x2, x2 = IF x = old THEN new ELSE x
  PROVE  Colored((S \ {old}) \cup {new}, nil, ch2, par2, blk2, nil, x2, e0)
<1>1. /\ nil \notin S
      /\ \A m \in S, e \in TwoSides :
           /\ ch[m][e] \in S \cup {nil}
           /\ ch[m][e] # m
  BY DEF Hung
<1>2. /\ old \in S /\ new \notin S /\ new # nil
      /\ \A e \in TwoSides : ch2[new][e] = ch[old][e]
      /\ \A m \in S \ {old}, e \in TwoSides : ch2[m][e] = IF ch[m][e] = old THEN new ELSE ch[m][e]
      /\ par2[new] = par[old]
      /\ \A m \in S \ {old} : par2[m] = IF par[m] = old THEN new ELSE par[m]
  BY DEF Takes
<1>3. PICK B : Labelled(S, nil, ch, blk, B, x, e0)
  BY DEF Colored
<1>4. /\ B \in [S \cup {nil} -> Nat]
      /\ B[nil] = 0
      /\ \A m \in S, e \in TwoSides : B[m] = B[ch[m][e]] + One(m \in blk) + One(m = x /\ e = e0)
  BY <1>3 DEF Labelled
<1>5. PICK S2, M : S2 = (S \ {old}) \cup {new} /\ M = S2 \cup {nil}
  OBVIOUS
<1>6. PICK B2 \in [M -> Nat] : \A m \in M : B2[m] = IF m = new THEN B[old] ELSE B[m]
  <2>1. \A m \in M : (IF m = new THEN B[old] ELSE B[m]) \in Nat
    BY <1>2, <1>4, <1>5
  <2>2. [m \in M |-> IF m = new THEN B[old] ELSE B[m]] \in [M -> Nat]
    BY <2>1
  <2>3. QED
    BY <2>2
<1>7. B2[nil] = 0
  BY <1>2, <1>4, <1>5, <1>6
<1>8. ASSUME NEW m \in S2, NEW e \in TwoSides
      PROVE  B2[m] = B2[ch2[m][e]] + One(m \in blk2) + One(m = x2 /\ e = e0)
  <2>1. CASE m = new
    <3>1. ch2[m][e] = ch[old][e] /\ ch[old][e] \in M /\ ch[old][e] # new
      BY <1>1, <1>2, <1>5, <2>1
    <3>2. B2[ch2[m][e]] = B[ch[old][e]] /\ B2[m] = B[old]
      BY <1>5, <1>6, <2>1, <3>1
    <3>3. One(m \in blk2) = One(old \in blk)
      BY <2>1 DEF One
    <3>4. x2 = new <=> x = old
      BY <1>2
    <3>5. One(m = x2 /\ e = e0) = One(old = x /\ e = e0)
      BY <2>1, <3>4 DEF One
    <3>6. QED
      BY <1>2, <1>4, <3>2, <3>3, <3>5
  <2>2. CASE m # new
    <3>1. m \in S \ {old} /\ B2[m] = B[m]
      BY <1>5, <1>6, <2>2
    <3>2. B2[ch2[m][e]] = B[ch[m][e]]
      <4>1. CASE ch[m][e] = old
        BY <1>2, <1>5, <1>6, <3>1, <4>1
      <4>2. CASE ch[m][e] # old
        BY <1>1, <1>2, <1>5, <1>6, <3>1, <4>2
      <4>3. QED
        BY <4>1, <4>2
    <3>3. One(m \in blk2) = One(m \in blk)
      BY <3>1 DEF One
    <3>4. m = x2 <=> m = x
      BY <2>2, <3>1
    <3>5. One(m = x2 /\ e = e0) = One(m = x /\ e = e0)
      BY <3>4 DEF One
    <3>6. QED
      BY <1>4, <3>1, <3>2, <3>3, <3>5
  <2>3. QED
    BY <2>1, <2>2
<1>9. Labelled(S2, nil, ch2, blk2, B2, x2, e0)
  BY <1>5, <1>6, <1>7, <1>8 DEF Labelled
<1>10. Reds(S2, par2, blk2, nil)
  <2>1. \A m \in S : m \notin blk => par[m] \in S \cap blk
    BY <1>1 DEF Colored, Reds
  <2>2. ASSUME NEW m \in S2, m \notin blk2 PROVE par2[m] \in S2 \cap blk2
    <3>1. CASE m = new
      <4>1. par[old] \in S \cap blk /\ par[old] # old
        BY <1>2, <2>1, <2>2, <3>1
      <4>2. QED
        BY <1>2, <1>5, <3>1, <4>1
    <3>2. CASE m # new
      <4>1. m \in S \ {old} /\ m \notin blk /\ par[m] \in S \cap blk
        BY <1>5, <2>1, <2>2, <3>2
      <4>2. CASE par[m] = old
        BY <1>2, <1>5, <4>1, <4>2
      <4>3. CASE par[m] # old
        BY <1>2, <1>5, <4>1, <4>3
      <4>4. QED
        BY <4>2, <4>3
    <3>3. QED
      BY <3>1, <3>2
  <2>3. QED
    BY <2>2 DEF Reds
<1>11. QED
  BY <1>5, <1>9, <1>10 DEF Colored

\* The way down on side d ends at a node that has no child there.
EndsBelow(f, ch, io, S, nil, d) ==
  \A n \in S : f[n] \in S /\ f[n] \in Nodes(io, n) /\ ch[f[n]][d] = nil

LEMMA DeepestEnds ==
  ASSUME NEW ch, NEW par, NEW S, NEW nil, NEW h, NEW N \in Nat, Shaped(ch, par, S, nil, h, N),
         NEW io, IsInOrder(io, ch, S, nil), NEW d \in TwoSides, NEW f, IsDeepest(f, ch, S, nil, d)
  PROVE  EndsBelow(f, ch, io, S, nil, d)
<1> DEFINE T == {n \in S : f[n] \in S /\ f[n] \in Nodes(io, n) /\ ch[f[n]][d] = nil}
<1>1. Below(ch, S, nil, h) /\ \A n \in S : h[n] \in 1..N
  BY DEF Shaped
<1>2. \A n \in S : n \in Nodes(io, n)
  BY <1>1, WalkGoesOn
<1>3. \A n \in S : Nodes(io, n) = Nodes(io, ch[n]["left"]) \cup {n} \cup Nodes(io, ch[n]["right"])
  BY NodesUnfold
<1>4. ASSUME NEW n \in S, \A e \in TwoSides : ch[n][e] # nil => ch[n][e] \in T
      PROVE  n \in T
  <2>1. f[n] = IF ch[n][d] = nil THEN n ELSE f[ch[n][d]]
    BY DEF IsDeepest
  <2>2. CASE ch[n][d] = nil
    BY <1>2, <2>1, <2>2
  <2>3. CASE ch[n][d] # nil
    <3>1. ch[n][d] \in T
      BY <1>4, <2>3
    <3>2. f[n] \in S /\ f[n] \in Nodes(io, ch[n][d]) /\ ch[f[n]][d] = nil
      BY <2>1, <2>3, <3>1
    <3>3. d = "left" \/ d = "right"
      BY BothSides
    <3>4. f[n] \in Nodes(io, n)
      BY <1>3, <3>2, <3>3
    <3>5. QED
      BY <3>2, <3>4
  <2>4. QED
    BY <2>2, <2>3
<1>5. S \subseteq T
  <2> HIDE DEF T
  <2>1. QED
    BY <1>4, UpwardInduction
<1>6. QED
  BY <1>5 DEF EndsBelow

\* The list of a node is a part of the list of the root.
LEMMA GrownIsPlaced ==
  ASSUME NEW S, NEW nil, NEW r, NEW ch, NEW par, Grown(S, nil, r, ch, par),
         NEW io, IsInOrder(io, ch, S, nil), NEW D, S \subseteq D, NEW n \in S
  PROVE  \E A, C : PlacedAt(D, io[r], io[n], A, C)
<1>1. SwappedAt(ch, S, io, ch, S, n, n)
  BY DEF SwappedAt
<1>2. r = IF r = n THEN n ELSE r
  OBVIOUS
<1>3. Within(io[r], io[n], io[r], io[n], D)
  BY <1>1, <1>2, ListChanged
<1>4. io[n] \in Seq(S)
  BY GrownIsListed DEF Listed
<1>5. io[n] \in Seq(D)
  BY <1>4
<1>6. QED
  BY <1>3, <1>5 DEF Within, PlacedAt

\* A node right behind n, if there is one on its right, is the first one there.
LEMMA FirstIsNext ==
  ASSUME NEW S, NEW nil, NEW r, NEW ch, NEW par, Grown(S, nil, r, ch, par),
         NEW io, IsInOrder(io, ch, S, nil), NEW D, S \subseteq D, NEW n \in S,
         NEW m, Outermost(S, io[ch[n]["right"]], "left", m)
  PROVE  NextTo(D, io[r], n, m)
<1>1. PICK Z \in Seq(S), o \in Seq(S) : o = <<m>> /\ io[ch[n]["right"]] = Join("left", o, Z) /\ m \in S
  BY DEF Outermost
<1>2. Listed(S, nil, r, ch, par, io) /\ Hung(S, nil, r, ch, par)
  BY GrownIsListed, GrownIsHung
<1>3. ch[n]["left"] \in S \cup {nil} /\ ch[n]["right"] \in S \cup {nil} /\ Across("left") = "right"
  BY <1>2, BothSides DEF Hung
<1>4. /\ io[ch[n]["left"]] \in Seq(S) /\ io[ch[n]["right"]] \in Seq(S)
      /\ io[n] = Put("left", io[ch[n]["left"]], n, io[ch[n]["right"]])
  BY <1>2, <1>3, BothSides DEF Listed
<1>5. PICK x \in Seq(D), t \in Seq(D) : x = io[ch[n]["left"]] /\ t = io[ch[n]["right"]]
  BY <1>4
<1>6. PICK A, C : PlacedAt(D, io[r], io[n], A, C)
  BY GrownIsPlaced
<1>7. PlacedAt(D, io[r], Put("left", x, n, t), A, C)
  BY <1>4, <1>5, <1>6
<1>8. PICK w \in Seq(D) : w = <<>>
  BY EmptySeq
<1>9. First(D, t, Put("left", <<>>, m, w))
  <2>0. Z \in Seq(D) /\ o \in Seq(D)
    <3>1. Seq(S) \subseteq Seq(D)
      OBVIOUS
    <3>2. QED
      BY <1>1, <3>1
  <2>1. PICK z \in Seq(D), q \in Seq(D) : z = Z /\ q = o
    BY <2>0
  <2>5. q = <<m>> /\ t = q \o z
    BY <1>1, <1>5, <2>1 DEF Join
  <2>2. w \o q = q /\ q \o w = q
    BY <1>8, ConcatEmptySeq
  <2>3. Put("left", <<>>, m, w) = q
    BY <1>8, <2>1, <2>5, <2>2 DEF Put
  <2>4. QED
    BY <2>5, <2>3 DEF First
<1>10. n \in D /\ m \in D
  BY <1>1
<1>11. PICK s : s = io[r]
  OBVIOUS
<1>12. NextTo(D, s, n, m)
  BY <1>7, <1>9, <1>10, <1>11, FirstBehind
<1>13. QED
  BY <1>11, <1>12

\* A slot tells the two children apart, and there is a child beside it.
LEMMA SlotApart ==
  ASSUME NEW S, NEW nil, NEW ch, NEW par, NEW blk, NEW v, NEW p \in S, NEW d \in TwoSides,
         \A e \in TwoSides : ch[p][e] \in S \cup {nil},
         Colored(S, nil, ch, par, blk, v, p, d)
  PROVE  ch[p][d] # ch[p][Across(d)] /\ ch[p][Across(d)] # nil
<1>1. PICK B : Labelled(S, nil, ch, blk, B, p, d)
  BY DEF Colored
<1>2. /\ B \in [S \cup {nil} -> Nat] /\ B[nil] = 0
      /\ \A e \in TwoSides : B[p] = B[ch[p][e]] + One(p \in blk) + One(p = p /\ e = d)
  BY <1>1 DEF Labelled
<1>3. Across(d) \in TwoSides /\ Across(d) # d
  BY BothSides
<1>4. PICK a, b : a = ch[p][d] /\ b = ch[p][Across(d)]
  OBVIOUS
<1>5. /\ B[p] = B[a] + One(p \in blk) + 1
      /\ B[p] = B[b] + One(p \in blk) + 0
      /\ B[a] \in Nat /\ B[b] \in Nat /\ B[p] \in Nat /\ One(p \in blk) \in Nat
  BY <1>2, <1>3, <1>4 DEF One
<1>6. B[b] = B[a] + 1
  BY <1>5
<1>7. a # b /\ b # nil
  BY <1>2, <1>5, <1>6
<1>8. QED
  BY <1>4, <1>7

\* The root is black where no node is red below a red one.
LEMMA ColoredRoot ==
  ASSUME NEW S, NEW nil, NEW r \in S, NEW ch, NEW par, Hung(S, nil, r, ch, par),
         NEW blk, NEW x, NEW e0, Colored(S, nil, ch, par, blk, nil, x, e0)
  PROVE  r \in blk
BY DEF Hung, Colored, Reds
=============================================================================
