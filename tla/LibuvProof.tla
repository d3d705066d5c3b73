----------------------------- MODULE LibuvProof -----------------------------
(***************************************************************************)
(* What holds of the tree of c/libuv/tree.h for every number of elements   *)
(* and every key: the pointers are those of a tree at every turn of every  *)
(* loop, and a removal hangs where its local variable parent says; the     *)
(* colors are right, or as wrong as the running loop takes them to be; and *)
(* the tree is a sorted list without two equal keys.  The changes of shape *)
(* and of colors are those of TreeProof; RB_REMOVE of an element with two  *)
(* children is two of them, the successor leaving its place and taking the *)
(* one of the element.                                                     *)
(***************************************************************************)
EXTENDS LibuvRbtree, TreeProof

Max == Cardinality(Node)

\* There are finitely many elements (FiniteNodes), so the walks have a budget.
LEMMA MaxType == Max \in Nat
BY FiniteNodes, FS_CardinalityType DEF Max

\* TreeProof and LibuvRbtree call the sides the same.
LEMMA SidesAgree ==
  /\ Side = TwoSides
  /\ Side = {"left", "right"}
  /\ \A d : Opposite(d) = Across(d)
  /\ \A d \in Side : Opposite(d) \in Side /\ Opposite(d) # d /\ Opposite(Opposite(d)) = d
BY DEF Side, TwoSides, Opposite, Across

-----------------------------------------------------------------------------
(* The tree in the memory. *)

\* The elements that a tree has: its root, and what has a parent.
Members(r, par) == {n \in Node : n = r \/ par[n] # NULL}

Planted(r, ch, par) ==
  /\ r \in NodeOrNil
  /\ ch \in [Node -> [Side -> NodeOrNil]]
  /\ par \in [Node -> NodeOrNil]
  /\ Grown(Members(r, par), NULL, r, ch, par)

\* What a planted tree is like, pointer by pointer.
LEMMA PlantedType ==
  ASSUME NEW r, NEW ch, NEW par, Planted(r, ch, par)
  PROVE  /\ Members(r, par) \subseteq Node /\ NULL \notin Members(r, par)
         /\ \A n \in Node, d \in Side : ch[n][d] \in NodeOrNil
         /\ r \in Members(r, par) \cup {NULL}
         /\ Hung(Members(r, par), NULL, r, ch, par)
         /\ r # NULL => par[r] = NULL
         /\ \A n \in Members(r, par) : n # r => /\ par[n] \in Members(r, par)
                                                /\ \E d \in Side : ch[par[n]][d] = n
         /\ \A n \in Members(r, par), d \in Side :
              /\ ch[n][d] \in Members(r, par) \cup {NULL}
              /\ ch[n][d] # NULL => par[ch[n][d]] = n /\ ch[n][d] # r
<1>1. Members(r, par) \subseteq Node /\ NULL \notin Members(r, par)
  BY LibuvAssumption DEF Members
<1>2. \A n \in Node, d \in Side : ch[n][d] \in NodeOrNil
  BY DEF Planted
<1>3. Hung(Members(r, par), NULL, r, ch, par)
  BY GrownIsHung DEF Planted
<1>4. QED
  BY <1>1, <1>2, <1>3, SidesAgree DEF Hung

\* The list of the elements below each element.
Walk(ch) == InOrderWalk(NodeOrNil, ch, NULL, Max)[Max]

\* The walks of RBShape are those of TreeProof, with a budget of all elements.
LEMMA WalksOfShape ==
  ASSUME NEW ch, NEW r, NEW blk, NEW extra
  PROVE  /\ InOrder(ch, r) = Walk(ch)[r]
         /\ BlackCounts(ch, blk, r, extra)
              = CountsWalk(NodeOrNil, ch, NULL, Max, blk, extra)[Max][r]
<1>1. InOrder(ch, r) = InOrderWalk(NodeOrNil, ch, NULL, Max)[Max][r]
  BY DEF InOrder, Levels, InOrderWalk, InOrderTurns, InOrderTurn, Max
<1>2. BlackCounts(ch, blk, r, extra)
        = CountsWalk(NodeOrNil, ch, NULL, Max, blk, extra)[Max][r]
  BY DEF BlackCounts, Levels, CountsWalk, CountsTurns, CountsTurn, Side, TwoSides, One, Max
<1>3. QED
  BY <1>1, <1>2 DEF Walk

\* The walk of a tree that is not in the memory as a whole.
LEMMA GrownIsWalked ==
  ASSUME NEW S, S \subseteq Node, NEW r, NEW ch, NEW par, Grown(S, NULL, r, ch, par)
  PROVE  /\ \E h : Shaped(ch, par, S, NULL, h, Max)
         /\ Rooted(ch, par, r, S, NULL)
         /\ IsInOrder(Walk(ch), ch, S, NULL)
         /\ Listed(S, NULL, r, ch, par, Walk(ch))
<1>1. S \in SUBSET Node /\ Cardinality(S) =< Max
  BY FiniteNodes, FS_Subset DEF Max
<1>2. (\E h : Shaped(ch, par, S, NULL, h, Max)) /\ Rooted(ch, par, r, S, NULL)
  BY <1>1, MaxType, GrownIsShaped
<1>3. PICK h : Shaped(ch, par, S, NULL, h, Max)
  BY <1>2
<1>4. (\A n \in S : h[n] \in 1..Max) /\ Below(ch, S, NULL, h)
  BY <1>3 DEF Shaped
<1>5. IsInOrder(Walk(ch), ch, S, NULL)
  BY <1>1, <1>4, MaxType, InOrderUnfolds DEF Walk, NodeOrNil
<1>6. Listed(S, NULL, r, ch, par, Walk(ch))
  BY <1>5, GrownIsListed
<1>7. QED
  BY <1>2, <1>5, <1>6

LEMMA PlantedIsWalked ==
  ASSUME NEW r, NEW ch, NEW par, Planted(r, ch, par)
  PROVE  /\ \E h : Shaped(ch, par, Members(r, par), NULL, h, Max)
         /\ Rooted(ch, par, r, Members(r, par), NULL)
         /\ IsInOrder(Walk(ch), ch, Members(r, par), NULL)
         /\ Listed(Members(r, par), NULL, r, ch, par, Walk(ch))
<1>1. Members(r, par) \subseteq Node /\ Grown(Members(r, par), NULL, r, ch, par)
  BY DEF Members, Planted
<1>2. QED
  BY <1>1, GrownIsWalked

\* Where there is an element there is a root.
LEMMA RootThere ==
  ASSUME NEW r, NEW ch, NEW par, Planted(r, ch, par), NEW n \in Members(r, par)
  PROVE  r \in Members(r, par) /\ r # NULL
<1>1. r \in Members(r, par) \cup {NULL} /\ NULL \notin Members(r, par)
  BY PlantedType
<1>2. Nodes(Walk(ch), NULL) = {} /\ Nodes(Walk(ch), r) = Members(r, par)
  BY PlantedIsWalked DEF Listed
<1>3. QED
  BY <1>1, <1>2

-----------------------------------------------------------------------------
(* The stores of the operations, field by field. *)

Fields(t) == t = [root |-> t.root, child |-> t.child, parent |-> t.parent]

\* The memory that has these fields, and the fields that the stores leave.
Memory(r, c, p) == [root |-> r, child |-> c, parent |-> p]

SetChild(c, n, d, v) == [c EXCEPT ![n][d] = v]
SetParent(p, n, v) == [p EXCEPT ![n] = v]
AdoptParent(p, n, q) == IF n = NULL THEN p ELSE SetParent(p, n, q)
HangRoot(r, q, new) == IF q = NULL THEN new ELSE r
HangChild(c, q, old, new) ==
  IF q = NULL THEN c ELSE SetChild(c, q, IF c[q]["left"] = old THEN "left" ELSE "right", new)

LEMMA AdoptFields ==
  ASSUME NEW r, NEW c, NEW p, NEW n, NEW q
  PROVE  Adopt(Memory(r, c, p), n, q) = Memory(r, c, AdoptParent(p, n, q))
BY DEF Memory, Adopt, AdoptParent, SetParent

LEMMA HangFields ==
  ASSUME NEW r, NEW c, NEW p, NEW q, NEW old, NEW new
  PROVE  Hang(Memory(r, c, p), q, old, new)
           = Memory(HangRoot(r, q, new), HangChild(c, q, old, new), p)
<1>1. CASE q = NULL
  BY <1>1 DEF Memory, Hang, HangRoot, HangChild
<1>2. CASE q # NULL
  <2>1. PICK side : side = IF c[q]["left"] = old THEN "left" ELSE "right"
    OBVIOUS
  <2>2. Hang(Memory(r, c, p), q, old, new) = [Memory(r, c, p) EXCEPT !.child[q][side] = new]
    BY <1>2, <2>1 DEF Memory, Hang
  <2>3. HangChild(c, q, old, new) = [c EXCEPT ![q][side] = new] /\ HangRoot(r, q, new) = r
    BY <1>2, <2>1 DEF HangRoot, HangChild, SetChild
  <2>4. QED
    BY <2>2, <2>3 DEF Memory
<1>3. QED
  BY <1>1, <1>2

\* The stores of a rotation.
StoreChild(t, n, d, v) == [t EXCEPT !.child[n][d] = v]
StoreParent(t, n, v) == [t EXCEPT !.parent[n] = v]
StoreBoth(t, n, d, v, m, w) == [t EXCEPT !.child[n][d] = v, !.parent[m] = w]

LEMMA StoredFields ==
  ASSUME NEW r, NEW c, NEW p, NEW n, NEW d, NEW v, NEW m, NEW w
  PROVE  /\ StoreChild(Memory(r, c, p), n, d, v) = Memory(r, SetChild(c, n, d, v), p)
         /\ StoreParent(Memory(r, c, p), m, w) = Memory(r, c, SetParent(p, m, w))
         /\ StoreBoth(Memory(r, c, p), n, d, v, m, w)
              = Memory(r, SetChild(c, n, d, v), SetParent(p, m, w))
<1>1. StoreChild(Memory(r, c, p), n, d, v) = Memory(r, SetChild(c, n, d, v), p)
  BY DEF Memory, StoreChild, SetChild
<1>2. \A k : StoreParent(Memory(r, k, p), m, w) = Memory(r, k, SetParent(p, m, w))
  BY DEF Memory, StoreParent, SetParent
<1>3. StoreBoth(Memory(r, c, p), n, d, v, m, w) = StoreParent(StoreChild(Memory(r, c, p), n, d, v), m, w)
  BY DEF StoreBoth, StoreChild, StoreParent
<1>4. QED
  BY <1>1, <1>2, <1>3

LEMMA RotateFields ==
  ASSUME NEW r, NEW c, NEW p, NEW n, NEW d, NEW o, o = Opposite(d), NEW up, up = c[n][o],
         NEW across, across = c[up][d], NEW q, q = p[n],
         NEW c1, c1 = SetChild(c, n, o, across)
  PROVE  RB_ROTATE(Memory(r, c, p), n, d)
           = Memory(HangRoot(r, q, up), SetChild(HangChild(c1, q, n, up), up, d, n),
                    SetParent(SetParent(AdoptParent(p, across, n), up, q), n, up))
<1>1. PICK t : t = Memory(r, c, p)
  OBVIOUS
<1>2. t.child[n][o] = up /\ t.child[up][d] = across /\ t.parent[n] = q
  BY <1>1 DEF Memory
<1>3. StoreChild(t, n, o, across) = Memory(r, c1, p)
  BY <1>1, StoredFields
<1>4. PICK p1, p2, r2, c2 : /\ p1 = AdoptParent(p, across, n) /\ p2 = SetParent(p1, up, q)
                            /\ r2 = HangRoot(r, q, up) /\ c2 = HangChild(c1, q, n, up)
  OBVIOUS
<1>5. Adopt(Memory(r, c1, p), across, n) = Memory(r, c1, p1)
  BY <1>4, AdoptFields
<1>6. StoreParent(Memory(r, c1, p1), up, q) = Memory(r, c1, p2)
  BY <1>4, StoredFields
<1>7. Hang(Memory(r, c1, p2), q, n, up) = Memory(r2, c2, p2)
  BY <1>4, HangFields
<1>8. StoreBoth(Memory(r2, c2, p2), up, d, n, n, up)
        = Memory(r2, SetChild(c2, up, d, n), SetParent(p2, n, up))
  BY StoredFields
<1>9. RB_ROTATE(t, n, d)
        = StoreBoth(Hang(StoreParent(Adopt(StoreChild(t, n, o, t.child[t.child[n][o]][d]),
                                           t.child[t.child[n][o]][d], n),
                                     t.child[n][o], t.parent[n]),
                         t.parent[n], n, t.child[n][o]),
                    t.child[n][o], d, n, n, t.child[n][o])
  BY DEF RB_ROTATE, StoreBoth, StoreParent, StoreChild
<1>10. QED
  BY ONLY <1>1, <1>2, <1>3, <1>4, <1>5, <1>6, <1>7, <1>8, <1>9

-----------------------------------------------------------------------------
(* Rotations. *)

\* t is a memory with a tree in it.
Grows(t) == Fields(t) /\ Planted(t.root, t.child, t.parent)
In(t) == Members(t.root, t.parent)

\* What a rotation at n to side d does: up comes up.
Rotated(t, u, n, up, d) ==
  /\ Grows(u)
  /\ In(u) = In(t)
  /\ Turns(In(t), t.root, t.child, t.parent, u.root, u.child, u.parent, n, up, d)

\* Where the tree is around the rotation.
LEMMA RotatePlace ==
  ASSUME NEW t, Grows(t), NEW n \in In(t), NEW d \in Side, NEW up,
         up = t.child[n][Opposite(d)], up # NULL
  PROVE  /\ up \in In(t) /\ up # n /\ t.parent[up] = n /\ up # t.root
         /\ t.child[up][d] \in (In(t) \cup {NULL}) \ {n, up, t.root}
         /\ t.child[up][d] # NULL => t.parent[t.child[up][d]] = up
         /\ n = t.root <=> t.parent[n] = NULL
         /\ n # t.root => /\ t.parent[n] \in In(t) \ {n, up}
                          /\ \A e \in Side : t.child[t.parent[n]][e] = n
                                <=> e = IF t.child[t.parent[n]]["left"] = n THEN "left" ELSE "right"
<1> DEFINE S == In(t)
           p == t.parent
<1>1. Planted(t.root, t.child, t.parent) /\ S = Members(t.root, t.parent)
  BY DEF Grows, In
<1>2. /\ S \subseteq Node /\ NULL \notin S
      /\ Hung(S, NULL, t.root, t.child, p)
      /\ t.root # NULL => p[t.root] = NULL
      /\ \A m \in S : m # t.root => /\ p[m] \in S
                                    /\ \E e \in Side : t.child[p[m]][e] = m
      /\ \A m \in S, e \in Side :
           /\ t.child[m][e] \in S \cup {NULL}
           /\ t.child[m][e] # NULL => p[t.child[m][e]] = m /\ t.child[m][e] # t.root
  BY <1>1, PlantedType
<1>3. \A m \in S, e \in Side : /\ t.child[m][e] # NULL => /\ t.child[m][e] # m
                                                          /\ t.child[m][e] # p[m]
                                                          /\ t.child[m][e] # t.child[m][Across(e)]
                               /\ p[m] # m
  BY <1>2, SidesAgree DEF Hung
<1> HIDE DEF S, p
<1>4. Opposite(d) \in Side /\ Opposite(d) # d /\ Across(d) = Opposite(d) /\ Across(Opposite(d)) = d
  BY SidesAgree
<1>5. up \in S /\ up # n /\ p[up] = n /\ up # t.root
  BY <1>2, <1>3, <1>4 DEF S
<1>6. /\ t.child[up][d] \in (S \cup {NULL}) \ {n, up, t.root}
      /\ t.child[up][d] # NULL => p[t.child[up][d]] = up
  <2>1. PICK c : c = t.child[up][d]
    OBVIOUS
  <2>2. /\ c \in S \cup {NULL}
        /\ c # NULL => p[c] = up /\ c # t.root /\ c # up /\ c # n
    BY <1>2, <1>3, <1>5, <2>1
  <2>3. c = NULL => c \notin {n, up, t.root}
    <3>1. t.root # NULL
      BY <1>1, <1>5, RootThere
    <3>2. QED
      BY <1>2, <1>5, <3>1 DEF S
  <2>4. QED
    BY <2>1, <2>2, <2>3
<1>7. ASSUME n # t.root
      PROVE  /\ p[n] \in S \ {n, up}
             /\ \A e \in Side : t.child[p[n]][e] = n
                   <=> e = IF t.child[p[n]]["left"] = n THEN "left" ELSE "right"
  <2>1. n \in S /\ p[n] # n /\ p[n] # up
    BY <1>2, <1>3, <1>4, <1>5, <1>7 DEF S
  <2>2. PICK q : q = p[n]
    OBVIOUS
  <2>3. q \in S /\ \E e \in Side : t.child[q][e] = n
    BY <1>2, <1>7, <2>1, <2>2
  <2>4. n # NULL
    BY <1>2, <2>1
  <2>5. t.child[q]["left"] = n => t.child[q]["right"] # n
    BY <1>3, <2>3, <2>4, SidesAgree DEF Across
  <2>6. \A e \in Side : t.child[q][e] = n <=> e = IF t.child[q]["left"] = n THEN "left" ELSE "right"
    BY <2>3, <2>5, SidesAgree
  <2>7. QED
    BY <2>1, <2>2, <2>3, <2>6
<1>8. n = t.root <=> p[n] = NULL
  BY <1>2, <1>7 DEF S
<1>9. QED
  BY <1>5, <1>6, <1>7, <1>8 DEF S, p

\* What RB_ROTATE_LEFT and RB_ROTATE_RIGHT do to the pointers.
LEMMA RotatePointers ==
  ASSUME NEW t, Grows(t), NEW n \in In(t), NEW d \in Side, NEW up,
         up = t.child[n][Opposite(d)], up # NULL, NEW u, u = RB_ROTATE(t, n, d)
  PROVE  /\ Fields(u)
         /\ u.root = IF n = t.root THEN up ELSE t.root
         /\ u.child \in [Node -> [Side -> NodeOrNil]]
         /\ u.parent \in [Node -> NodeOrNil]
         /\ \A m \in Node, e \in Side :
              u.child[m][e] = IF m = n /\ e = Opposite(d) THEN t.child[up][d]
                              ELSE IF m = up /\ e = d THEN n
                              ELSE IF n # t.root /\ m = t.parent[n] /\ t.child[m][e] = n THEN up
                              ELSE t.child[m][e]
         /\ \A m \in Node :
              u.parent[m] = IF m = n THEN up ELSE IF m = up THEN t.parent[n]
                            ELSE IF m = t.child[up][d] THEN n ELSE t.parent[m]
<1> DEFINE S == In(t)
           o == Opposite(d)
           q == t.parent[n]
           across == t.child[up][d]
<1>1. /\ S \subseteq Node /\ NULL \notin S /\ NULL \notin Node
      /\ t.child \in [Node -> [Side -> NodeOrNil]]
      /\ t.parent \in [Node -> NodeOrNil]
      /\ Fields(t)
  BY PlantedType, LibuvAssumption DEF Grows, Planted, In
<1>2. /\ up \in S /\ up # n
      /\ across \in (S \cup {NULL}) \ {n, up}
      /\ n = t.root <=> q = NULL
      /\ n # t.root => /\ q \in S \ {n, up}
                       /\ \A e \in Side : t.child[q][e] = n
                            <=> e = IF t.child[q]["left"] = n THEN "left" ELSE "right"
  BY RotatePlace
<1>3. n \in S /\ d \in Side /\ o \in Side /\ o # d /\ \A e \in Side : e = d \/ e = o
  BY SidesAgree
<1> DEFINE side == IF t.child[q]["left"] = n THEN "left" ELSE "right"
           ch1 == [t.child EXCEPT ![n][o] = across]
           ch4 == IF n = t.root THEN ch1 ELSE [ch1 EXCEPT ![q][side] = up]
           par2 == IF across = NULL THEN t.parent ELSE [t.parent EXCEPT ![across] = n]
<1>8. n # t.root => q # n /\ ch1[q]["left"] = t.child[q]["left"]
  BY <1>1, <1>2
<1>9. u = Memory(IF n = t.root THEN up ELSE t.root, [ch4 EXCEPT ![up][d] = n],
                 [[par2 EXCEPT ![up] = q] EXCEPT ![n] = up])
  <2>1. PICK r, c, p, x, a, y, c1 :
          /\ r = t.root /\ c = t.child /\ p = t.parent
          /\ x = o /\ a = across /\ y = q /\ c1 = SetChild(c, n, x, a)
    OBVIOUS
  <2>2. x = Opposite(d) /\ up = c[n][x] /\ a = c[up][d] /\ y = p[n]
        /\ c1 = SetChild(c, n, x, a)
    BY <2>1
  <2>a. c1 = ch1
    BY <2>1 DEF SetChild
  <2>3. RB_ROTATE(Memory(r, c, p), n, d)
           = Memory(HangRoot(r, y, up), SetChild(HangChild(c1, y, n, up), up, d, n),
                    SetParent(SetParent(AdoptParent(p, a, n), up, y), n, up))
    BY ONLY <2>2, RotateFields
  <2>4. t = Memory(r, c, p)
    BY <1>1, <2>1 DEF Memory, Fields
  <2>5. HangChild(c1, y, n, up) = ch4
    <3>1. CASE n = t.root
      BY <1>2, <2>1, <2>a, <3>1 DEF HangChild
    <3>2. CASE n # t.root
      <4>1. side = IF c1[y]["left"] = n THEN "left" ELSE "right"
        BY <1>8, <2>1, <2>a, <3>2
      <4> HIDE DEF side, ch1
      <4>2. QED
        BY <1>2, <2>1, <2>a, <3>2, <4>1 DEF HangChild, SetChild
    <3>3. QED
      BY <3>1, <3>2
  <2>6. AdoptParent(p, a, n) = par2
    BY <2>1 DEF AdoptParent, SetParent
  <2> HIDE DEF ch4, par2, ch1
  <2>7. HangRoot(r, y, up) = IF n = t.root THEN up ELSE t.root
    BY <1>2, <2>1 DEF HangRoot
  <2>8. QED
    BY <2>1, <2>3, <2>4, <2>5, <2>6, <2>7 DEF SetParent, SetChild
<1>10. /\ Fields(u) /\ u.root = IF n = t.root THEN up ELSE t.root
       /\ u.child = [ch4 EXCEPT ![up][d] = n]
       /\ u.parent = [[par2 EXCEPT ![up] = q] EXCEPT ![n] = up]
  <2> HIDE DEF ch4, par2
  <2>1. QED
    BY <1>9 DEF Memory, Fields
<1>11. n \in Node /\ up \in Node /\ across \in NodeOrNil /\ q \in NodeOrNil
  BY <1>1, <1>2, <1>3 DEF NodeOrNil
<1> HIDE DEF S, o, q, across, side
<1>12. /\ ch1 \in [Node -> [Side -> NodeOrNil]]
       /\ \A m \in Node, e \in Side : ch1[m][e] = IF m = n /\ e = o THEN across ELSE t.child[m][e]
  BY <1>1, <1>3, <1>11
<1>13. /\ ch4 \in [Node -> [Side -> NodeOrNil]]
       /\ \A m \in Node, e \in Side :
            ch4[m][e] = IF n # t.root /\ m = q /\ e = side THEN up ELSE ch1[m][e]
  <2> HIDE DEF ch1
  <2>1. CASE n = t.root
    BY <1>12, <2>1
  <2>2. CASE n # t.root
    <3>1. q \in Node /\ side \in Side /\ up \in NodeOrNil
      BY <1>1, <1>2, <1>11, <2>2, SidesAgree DEF side, NodeOrNil
    <3>2. ch4 = [ch1 EXCEPT ![q][side] = up]
      BY <2>2
    <3>3. QED
      BY <1>12, <2>2, <3>1, <3>2
  <2>3. QED
    BY <2>1, <2>2
<1>14. /\ u.child \in [Node -> [Side -> NodeOrNil]]
       /\ \A m \in Node, e \in Side : u.child[m][e] = IF m = up /\ e = d THEN n ELSE ch4[m][e]
  <2> HIDE DEF ch4
  <2>1. n \in NodeOrNil
    BY <1>11 DEF NodeOrNil
  <2>2. QED
    BY <1>3, <1>10, <1>11, <1>13, <2>1
<1>15. \A m \in Node, e \in Side :
         u.child[m][e] = IF m = n /\ e = o THEN across
                         ELSE IF m = up /\ e = d THEN n
                         ELSE IF n # t.root /\ m = q /\ t.child[m][e] = n THEN up
                         ELSE t.child[m][e]
  <2> HIDE DEF ch1, ch4
  <2>1. n # t.root => q # n /\ q # up /\ \A e \in Side : t.child[q][e] = n <=> e = side
    BY <1>2 DEF side
  <2>2. QED
    BY <1>2, <1>12, <1>13, <1>14, <2>1
<1>16. /\ par2 \in [Node -> NodeOrNil]
       /\ \A m \in Node : par2[m] = IF m = across THEN n ELSE t.parent[m]
  BY <1>1, <1>11 DEF NodeOrNil
<1>17. /\ u.parent \in [Node -> NodeOrNil]
       /\ \A m \in Node : u.parent[m] = IF m = n THEN up ELSE IF m = up THEN q ELSE par2[m]
  <2> HIDE DEF par2
  <2>1. up \in NodeOrNil
    BY <1>11 DEF NodeOrNil
  <2>2. QED
    BY <1>2, <1>10, <1>11, <1>16, <2>1
<1>18. \A m \in Node :
         u.parent[m] = IF m = n THEN up ELSE IF m = up THEN q
                       ELSE IF m = across THEN n ELSE t.parent[m]
  <2> HIDE DEF par2
  <2>1. QED
    BY <1>16, <1>17
<1> HIDE DEF ch1, ch4, par2
<1>19. QED
  BY <1>10, <1>14, <1>15, <1>17, <1>18 DEF S, o, q, across

\* They turn the tree.
LEMMA RotateTurns ==
  ASSUME NEW t, Grows(t), NEW n \in In(t), NEW d \in Side, NEW up,
         up = t.child[n][Opposite(d)], up # NULL, NEW u, u = RB_ROTATE(t, n, d)
  PROVE  Rotated(t, u, n, up, d)
<1> DEFINE S == In(t)
<1>1. /\ S \subseteq Node /\ NULL \notin S
      /\ t.root \in S \cup {NULL}
      /\ \A m \in S, e \in Side : t.child[m][e] # NULL =>
           t.parent[t.child[m][e]] = m /\ t.child[m][e] # t.root
      /\ \A m \in Node : m \in S <=> m = t.root \/ t.parent[m] # NULL
  <2>1. \A m \in Node : m \in S <=> m = t.root \/ t.parent[m] # NULL
    BY DEF In, Members
  <2>2. QED
    BY <2>1, PlantedType DEF Grows, In
<1>2. /\ up \in S /\ up # n /\ t.parent[up] = n /\ up # t.root
      /\ t.child[up][d] \in (S \cup {NULL}) \ {n, up, t.root}
      /\ t.child[up][d] # NULL => t.parent[t.child[up][d]] = up
      /\ n = t.root <=> t.parent[n] = NULL
  BY RotatePlace
<1>3. /\ Fields(u)
      /\ u.root = IF n = t.root THEN up ELSE t.root
      /\ u.child \in [Node -> [Side -> NodeOrNil]]
      /\ u.parent \in [Node -> NodeOrNil]
      /\ \A m \in Node, e \in Side :
           u.child[m][e] = IF m = n /\ e = Opposite(d) THEN t.child[up][d]
                           ELSE IF m = up /\ e = d THEN n
                           ELSE IF n # t.root /\ m = t.parent[n] /\ t.child[m][e] = n THEN up
                           ELSE t.child[m][e]
      /\ \A m \in Node :
           u.parent[m] = IF m = n THEN up ELSE IF m = up THEN t.parent[n]
                         ELSE IF m = t.child[up][d] THEN n ELSE t.parent[m]
  BY RotatePointers
<1>4. n \in S /\ d \in TwoSides /\ Across(d) = Opposite(d)
      /\ \A e \in TwoSides : e \in Side /\ (e # d <=> e = Opposite(d))
  BY SidesAgree
<1> HIDE DEF S
<1>5. In(u) = S
  <2>1. n # NULL /\ up # NULL
    BY <1>1, <1>2, <1>4
  <2>2. ASSUME NEW m \in Node PROVE m \in S <=> m = u.root \/ u.parent[m] # NULL
    <3>1. CASE m = n \/ m = up
      BY <1>1, <1>2, <1>3, <1>4, <2>1, <2>2, <3>1
    <3>2. CASE m # n /\ m # up
      <4>1. u.parent[m] = IF m = t.child[up][d] THEN n ELSE t.parent[m]
        BY <1>3, <3>2
      <4>2. m = t.child[up][d] => m \in S
        BY <1>1, <1>2, LibuvAssumption
      <4>3. m = t.root <=> m = u.root
        BY <1>2, <1>3, <3>2
      <4>4. QED
        BY <1>1, <2>1, <4>1, <4>2, <4>3
    <3>3. QED
      BY <3>1, <3>2
  <2>3. QED
    BY <1>1, <2>2 DEF In, Members
<1>6. Turns(S, t.root, t.child, t.parent, u.root, u.child, u.parent, n, up, d)
  <2>1. ASSUME NEW m \in S, NEW e \in TwoSides
        PROVE  u.child[m][e] = IF m = n /\ e # d THEN t.child[up][d] ELSE IF m = up /\ e = d THEN n
                               ELSE IF t.child[m][e] = n THEN up ELSE t.child[m][e]
    <3>1. t.child[m][e] = n => n # t.root /\ m = t.parent[n]
      BY <1>1, <1>4
    <3>2. m \in Node
      BY <1>1
    <3>3. QED
      BY <1>3, <1>4, <3>1, <3>2
  <2>2. ASSUME NEW m \in S
        PROVE  u.parent[m] = IF m = n THEN up ELSE IF m = up THEN t.parent[n]
                             ELSE IF m = t.child[up][d] THEN n ELSE t.parent[m]
    BY <1>1, <1>3
  <2>3. QED
    BY <1>2, <1>3, <1>4, <2>1, <2>2 DEF Turns
<1>7. Grown(S, NULL, u.root, u.child, u.parent)
  <2>1. Grown(S, NULL, t.root, t.child, t.parent)
    BY DEF Grows, Planted, S, In
  <2>2. QED
    BY <1>6, <2>1, TurnGrows
<1>8. Grows(u)
  <2>1. u.root \in NodeOrNil
    BY <1>1, <1>2, <1>3 DEF NodeOrNil
  <2>2. QED
    BY <1>3, <1>5, <1>7, <2>1 DEF Grows, Planted, In
<1>9. QED
  BY <1>5, <1>6, <1>8 DEF Rotated, S

\* A rotation does nothing to the list.
LEMMA RotateLists ==
  ASSUME NEW t, Grows(t), NEW u, NEW n, NEW up, NEW d, Rotated(t, u, n, up, d)
  PROVE  Walk(u.child)[u.root] = Walk(t.child)[t.root]
<1>1. PICK S : S = In(t)
  OBVIOUS
<1>2. Grown(S, NULL, t.root, t.child, t.parent) /\ IsInOrder(Walk(t.child), t.child, S, NULL)
  BY <1>1, PlantedIsWalked DEF Grows, Planted, In
<1>3. IsInOrder(Walk(u.child), u.child, S, NULL)
  BY <1>1, PlantedIsWalked DEF Rotated, Grows, In
<1>4. Turns(S, t.root, t.child, t.parent, u.root, u.child, u.parent, n, up, d)
  BY <1>1 DEF Rotated
<1>5. QED
  BY <1>2, <1>3, <1>4, TurnLists

-----------------------------------------------------------------------------
(* The inductive invariant: what is in the memory is a tree at every turn of every  *)
(* loop; its elements can be labelled with the number of black elements below them, *)
(* where a removal counts one more where elm hangs; and no red element has a red    *)
(* parent but the one that an insertion works on.                                   *)

Tree == Members(rbh_root, rbe_parent)

\* The elements from left to right.
List == Walk(rbe_child)[rbh_root]

\* Inside of RB_REMOVE_COLOR elm is as good as black.
Blk == black \cup (IF pc = "remove_color" THEN {elm} ELSE {})

\* The element that may be red below a red one.
Upset == IF pc = "insert_color" THEN elm ELSE NULL

\* Where one more black element is counted.
SlotNode == IF RemoveGoesOn THEN parent ELSE NULL
SlotSide == IF RemoveGoesOn THEN ElmSide ELSE "left"

Locals ==
  /\ pc = "descend" =>
       /\ elm \in Node
       /\ tmp \in Tree \cup {NULL}
       /\ parent = NULL => tmp = rbh_root
       /\ parent # NULL => parent \in Tree /\ rbe_child[parent][LinkSide] = tmp
  /\ pc = "insert_color" => elm \in Tree /\ elm \notin black
  /\ pc = "remove_color" =>
       /\ elm \in Tree \cup {NULL}
       /\ elm # rbh_root => parent \in Tree /\ rbe_child[parent][ElmSide] = elm

Colors == Colored(Tree, NULL, rbe_child, rbe_parent, Blk, Upset, SlotNode, SlotSide)

TreeInv ==
  /\ TypeOK
  /\ Planted(rbh_root, rbe_child, rbe_parent)
  /\ Locals
  /\ Colors

\* The tree in these states, pointer by pointer.
LEMMA TreeNow ==
  ASSUME TreeInv
  PROVE  /\ Tree \subseteq Node /\ NULL \notin Tree /\ NULL \notin Node
         /\ rbh_root \in Tree \cup {NULL}
         /\ rbh_root # NULL => rbe_parent[rbh_root] = NULL
         /\ Grown(Tree, NULL, rbh_root, rbe_child, rbe_parent)
         /\ Hung(Tree, NULL, rbh_root, rbe_child, rbe_parent)
         /\ \A n \in Tree : n # rbh_root =>
              /\ rbe_parent[n] \in Tree
              /\ \E d \in Side : rbe_child[rbe_parent[n]][d] = n
         /\ \A n \in Tree, d \in Side :
              /\ rbe_child[n][d] \in Tree \cup {NULL}
              /\ rbe_child[n][d] # NULL => /\ rbe_parent[rbe_child[n][d]] = n
                                           /\ rbe_child[n][d] # rbh_root
<1>1. Planted(rbh_root, rbe_child, rbe_parent)
  BY DEF TreeInv
<1>2. Grown(Tree, NULL, rbh_root, rbe_child, rbe_parent)
  BY <1>1 DEF Planted, Tree
<1>3. QED
  BY <1>1, <1>2, PlantedType, LibuvAssumption DEF Tree

\* Two children of an element are not the same.
LEMMA OneSide ==
  ASSUME TreeInv, NEW n \in Tree, NEW d \in Side, rbe_child[n][d] # NULL
  PROVE  /\ rbe_child[n][d] # rbe_child[n][Opposite(d)]
         /\ d = IF rbe_child[n]["left"] = rbe_child[n][d] THEN "left" ELSE "right"
<1>1. rbe_child[n][d] # rbe_child[n][Opposite(d)]
  BY TreeNow, SidesAgree DEF Hung
<1>2. QED
  BY <1>1, SidesAgree

\* No pointer changes.
LEMMA SamePointers ==
  ASSUME TreeInv, UNCHANGED <<rbh_root, rbe_child, rbe_parent>>
  PROVE  Planted(rbh_root, rbe_child, rbe_parent)' /\ Tree' = Tree /\ List' = List
BY DEF TreeInv, Planted, Tree, Members, List, Walk

\* The types, but for those of the tree.
OtherTypes ==
  /\ rbe_color \in [Node -> {"red", "black"}]
  /\ pc \in {"idle", "descend", "insert_color", "remove_color"}
  /\ elm \in IF pc \in {"descend", "insert_color"} THEN Node ELSE NodeOrNil
  /\ {parent, tmp} \subseteq NodeOrNil

LEMMA TypesTogether ==
  ASSUME Planted(rbh_root, rbe_child, rbe_parent)', OtherTypes'
  PROVE  TypeOK'
BY DEF Planted, OtherTypes, TypeOK

LEMMA TypesApart ==
  ASSUME TreeInv
  PROVE  OtherTypes
BY DEF TreeInv, TypeOK, OtherTypes

\* The colors, one by one.
LEMMA BlackOrRed ==
  ASSUME TreeInv, NEW n \in NodeOrNil
  PROVE  /\ black \subseteq Node
         /\ n \in Node => /\ n \in black <=> rbe_color[n] = "black"
                          /\ n \notin black <=> rbe_color[n] = "red"
         /\ IsRed(n) <=> n \in Node /\ n \notin black
<1>1. n \in Node => rbe_color[n] \in {"red", "black"}
  BY DEF TreeInv, TypeOK
<1>2. n \in Node <=> n # NULL
  BY LibuvAssumption DEF NodeOrNil
<1>3. QED
  BY <1>1, <1>2 DEF black, IsRed

\* What becomes of the black elements when some are painted black and some red.
LEMMA Painted ==
  ASSUME TreeInv, NEW B, NEW R, R \subseteq Node \ B, NEW col,
         col \in [Node -> {"red", "black"}],
         \A m \in Node : col[m] = IF m \in B THEN "black" ELSE IF m \in R THEN "red" ELSE rbe_color[m],
         rbe_color' = col
  PROVE  black' = (black \cup (B \cap Node)) \ R
BY DEF black

\* RB_INIT leaves an empty tree.
LEMMA InitInv == Init => TreeInv
<1> SUFFICES ASSUME Init PROVE TreeInv
  OBVIOUS
<1>1. Tree = {}
  BY LibuvAssumption DEF Init, Tree, Members
<1>2. TypeOK
  <2>1. Leaf \in [Side -> NodeOrNil] /\ NULL \in NodeOrNil
    BY DEF Leaf, NodeOrNil
  <2>2. QED
    BY <2>1 DEF Init, TypeOK
<1>3. Grown({}, NULL, NULL, rbe_child, rbe_parent)
  <2>1. IsFiniteSet({})
    BY FS_EmptySet
  <2>2. [n \in {} |-> 0] \in [{} -> Nat] /\ Below(rbe_child, {}, NULL, [n \in {} |-> 0])
    BY DEF Below
  <2>3. QED
    BY <2>1, <2>2 DEF Grown
<1>4. Planted(rbh_root, rbe_child, rbe_parent)
  BY <1>1, <1>2, <1>3 DEF Planted, Init, TypeOK, Tree
<1>5. Locals
  BY DEF Init, Locals
<1>6. Colors
  <2>1. Labelled({}, NULL, rbe_child, Blk, [n \in {NULL} |-> 0], SlotNode, SlotSide)
    BY DEF Labelled
  <2>2. Reds({}, rbe_parent, Blk, Upset)
    BY DEF Reds
  <2>3. QED
    BY <1>1, <2>1, <2>2 DEF Colors, Colored
<1>7. QED
  BY <1>2, <1>4, <1>5, <1>6 DEF TreeInv

\* The steps that change no pointer and no color, and where nothing is repaired.
LEMMA SameTree ==
  ASSUME TreeInv, UNCHANGED tree, pc \in {"idle", "descend"}, pc' \in {"idle", "descend"},
         OtherTypes', Locals'
  PROVE  TreeInv' /\ List' = List
<1>1. UNCHANGED <<rbh_root, rbe_child, rbe_parent>> /\ black' = black
  BY DEF tree, black
<1>2. Planted(rbh_root, rbe_child, rbe_parent)' /\ Tree' = Tree /\ List' = List
  BY <1>1, SamePointers
<1>3. TypeOK'
  BY <1>2, TypesTogether
<1>4. Blk' = Blk /\ Upset' = Upset /\ SlotNode' = SlotNode /\ SlotSide' = SlotSide
  BY <1>1 DEF Blk, Upset, SlotNode, SlotSide, RemoveGoesOn
<1>5. Colors'
  BY <1>1, <1>2, <1>4 DEF Colors, TreeInv
<1>6. QED
  BY <1>2, <1>3, <1>5 DEF TreeInv

LEMMA InsertKeeps ==
  ASSUME TreeInv, NEW n \in Node, RB_INSERT(n)
  PROVE  TreeInv' /\ List' = List
<1>1. /\ pc = "idle" /\ pc' = "descend" /\ elm' = n /\ parent' = NULL /\ tmp' = rbh_root
      /\ UNCHANGED tree
  BY DEF RB_INSERT
<1>2. rbh_root' = rbh_root /\ Tree' = Tree /\ rbh_root \in Tree \cup {NULL}
  BY <1>1, TreeNow DEF tree, Tree, Members
<1>3. Locals'
  BY <1>1, <1>2 DEF Locals
<1>4. OtherTypes'
  <2>1. NULL \in NodeOrNil /\ rbh_root \in NodeOrNil
    BY DEF NodeOrNil, TreeInv, TypeOK
  <2>2. QED
    BY <1>1, <2>1, TypesApart DEF OtherTypes, tree
<1>5. QED
  BY <1>1, <1>3, <1>4, SameTree

LEMMA DescendKeeps ==
  ASSUME TreeInv, Descend
  PROVE  TreeInv' /\ List' = List
<1>1. PICK d : d = IF cmp(elm, tmp) < 0 THEN "left" ELSE "right"
  OBVIOUS
<1>2. /\ pc = "descend" /\ pc' = pc /\ elm' = elm /\ parent' = tmp /\ tmp' = rbe_child[tmp][d]
      /\ UNCHANGED tree /\ tmp # NULL
  BY <1>1 DEF Descend
<1>3. tmp \in Tree /\ elm \in Node /\ d \in Side
  BY <1>1, <1>2, SidesAgree DEF TreeInv, Locals
<1>4. rbe_child' = rbe_child /\ Tree' = Tree /\ tmp' \in Tree \cup {NULL}
  BY <1>2, <1>3, TreeNow DEF tree, Tree, Members
<1>5. LinkSide' = d
  BY <1>1, <1>2 DEF LinkSide, cmp
<1>6. Locals'
  BY <1>2, <1>3, <1>4, <1>5 DEF Locals
<1>7. OtherTypes'
  <2>1. tmp \in NodeOrNil /\ tmp' \in NodeOrNil
    BY <1>3, <1>4, TreeNow DEF NodeOrNil
  <2>2. QED
    BY <1>2, <2>1, TypesApart DEF OtherTypes, tree
<1>8. QED
  BY <1>2, <1>6, <1>7, SameTree

LEMMA HitKeeps ==
  ASSUME TreeInv, Hit
  PROVE  TreeInv' /\ List' = List
<1>1. /\ pc = "descend" /\ pc' = "idle" /\ elm' = NULL /\ parent' = NULL /\ tmp' = NULL
      /\ UNCHANGED tree
  BY DEF Hit, Return
<1>2. Locals'
  BY <1>1 DEF Locals
<1>3. OtherTypes'
  BY <1>1, TypesApart DEF OtherTypes, tree, NodeOrNil
<1>4. QED
  BY <1>1, <1>2, <1>3, SameTree

LEMMA InsertDoneKeeps ==
  ASSUME TreeInv, InsertDone
  PROVE  TreeInv' /\ List' = List
<1>1. /\ UNCHANGED <<rbh_root, rbe_child, rbe_parent>>
      /\ pc = "insert_color" /\ pc' = "idle" /\ elm' = NULL /\ parent' = NULL /\ tmp' = NULL
      /\ rbe_color' = [rbe_color EXCEPT ![rbh_root] = "black"]
      /\ elm \in Tree /\ elm \notin black
      /\ ~IsRed(rbe_parent[elm])
  BY DEF InsertDone, Return, InsertGoesOn, TreeInv, Locals
<1>2. Planted(rbh_root, rbe_child, rbe_parent)' /\ Tree' = Tree /\ List' = List
  BY <1>1, SamePointers
<1>3. rbh_root \in Tree /\ rbh_root \in Node
  BY <1>1, TreeNow, RootThere DEF TreeInv, Tree
<1>4. rbe_color' \in [Node -> {"red", "black"}] /\ black' = black \cup {rbh_root}
  <2>1. rbe_color \in [Node -> {"red", "black"}]
    BY DEF TreeInv, TypeOK
  <2>2. QED
    BY <1>1, <1>3, <2>1 DEF black
<1>5. OtherTypes'
  BY <1>1, <1>4 DEF OtherTypes, NodeOrNil
<1>6. TypeOK'
  BY <1>2, <1>5, TypesTogether
<1>7. Locals'
  BY <1>1 DEF Locals
<1>8. /\ Blk = black /\ Upset = elm /\ SlotNode = NULL /\ SlotSide = "left"
      /\ Blk' = black' /\ Upset' = NULL /\ SlotNode' = NULL /\ SlotSide' = "left"
  BY <1>1 DEF Blk, Upset, SlotNode, SlotSide, RemoveGoesOn
<1>9. /\ Hung(Tree, NULL, rbh_root, rbe_child, rbe_parent)
      /\ Colored(Tree, NULL, rbe_child, rbe_parent, Blk, elm, NULL, "left")
  BY <1>8, TreeNow DEF TreeInv, Colors
<1>10. elm = rbh_root \/ elm \in Blk \/ rbe_parent[elm] \in Tree \cap Blk
  <2>1. CASE elm # rbh_root
    <3>1. rbe_parent[elm] \in Tree /\ rbe_parent[elm] \in NodeOrNil /\ rbe_parent[elm] \in Node
      BY <1>1, <2>1, TreeNow DEF NodeOrNil
    <3>2. rbe_parent[elm] \in black
      BY <1>1, <3>1, BlackOrRed
    <3>3. QED
      BY <1>8, <3>1, <3>2
  <2>2. QED
    BY <2>1
<1>11. \A m \in Tree : m \in Blk' <=> m \in Blk \/ m = rbh_root
  BY <1>4, <1>8
<1>12. Colored(Tree, NULL, rbe_child, rbe_parent, Blk', NULL, NULL, "left")
  BY <1>9, <1>10, <1>11, RootColors
<1>13. Colors'
  BY <1>1, <1>2, <1>8, <1>12 DEF Colors
<1>14. QED
  BY <1>2, <1>6, <1>7, <1>13 DEF TreeInv

LEMMA RemoveDoneKeeps ==
  ASSUME TreeInv, RemoveDone
  PROVE  TreeInv' /\ List' = List
<1>1. /\ UNCHANGED <<rbh_root, rbe_child, rbe_parent>>
      /\ pc = "remove_color" /\ pc' = "idle" /\ elm' = NULL /\ parent' = NULL /\ tmp' = NULL
      /\ rbe_color' = IF elm = NULL THEN rbe_color ELSE [rbe_color EXCEPT ![elm] = "black"]
      /\ ~RemoveGoesOn
  BY DEF RemoveDone, Return
<1>2. Planted(rbh_root, rbe_child, rbe_parent)' /\ Tree' = Tree /\ List' = List
  BY <1>1, SamePointers
<1>3. elm \in Tree \cup {NULL} /\ Tree \subseteq Node
  BY <1>1, TreeNow DEF TreeInv, Locals
<1>4. rbe_color' \in [Node -> {"red", "black"}] /\ \A m \in Tree : m \in black' <=> m \in black \/ m = elm
  <2>1. rbe_color \in [Node -> {"red", "black"}] /\ NULL \notin Tree
    BY TreeNow DEF TreeInv, TypeOK
  <2>2. CASE elm = NULL
    BY <1>1, <1>3, <2>1, <2>2 DEF black
  <2>3. CASE elm # NULL
    BY <1>1, <1>3, <2>1, <2>3 DEF black
  <2>4. QED
    BY <2>2, <2>3
<1>5. OtherTypes'
  BY <1>1, <1>4 DEF OtherTypes, NodeOrNil
<1>6. TypeOK'
  BY <1>2, <1>5, TypesTogether
<1>7. Locals'
  BY <1>1 DEF Locals
<1>8. /\ Blk = black \cup {elm} /\ Upset = NULL /\ SlotNode = NULL /\ SlotSide = "left"
      /\ Blk' = black' /\ Upset' = NULL /\ SlotNode' = NULL /\ SlotSide' = "left"
  BY <1>1 DEF Blk, Upset, SlotNode, SlotSide, RemoveGoesOn
<1>9. Colored(Tree, NULL, rbe_child, rbe_parent, Blk, NULL, NULL, "left")
  BY <1>8 DEF TreeInv, Colors
<1>10. Colored(Tree, NULL, rbe_child, rbe_parent, Blk', NULL, NULL, "left")
  <2>1. \A m \in Tree : m \in Blk' <=> m \in Blk
    BY <1>4, <1>8
  <2>2. QED
    BY <1>9, <2>1, SameColors
<1>11. Colors'
  BY <1>1, <1>2, <1>8, <1>10 DEF Colors
<1>12. QED
  BY <1>2, <1>6, <1>7, <1>11 DEF TreeInv

-----------------------------------------------------------------------------
(* Insertions. *)

\* What Link does where the tree is empty: LinkRoot; and where it is not: LinkHangs.
LEMMA LinkRoot ==
  ASSUME TreeInv, Link, elm \notin Tree, parent = NULL
  PROVE  /\ Planted(rbh_root, rbe_child, rbe_parent)'
         /\ Tree = {} /\ Tree' = {elm}
         /\ \A e \in TwoSides : rbe_child'[elm][e] = NULL
         /\ List = <<>> /\ List' = <<elm>>
<1>1. PICK n : n = elm
  OBVIOUS
<1>2. /\ rbh_root = NULL /\ rbh_root' = n /\ n \in Node /\ n # NULL
      /\ rbe_child' = [rbe_child EXCEPT ![n] = Leaf]
      /\ rbe_parent' = [rbe_parent EXCEPT ![n] = NULL]
  BY <1>1, LibuvAssumption DEF Link, TreeInv, Locals
<1>3. Tree = {}
  BY <1>2, RootThere DEF TreeInv, Tree
<1>4. Leaf \in [Side -> NodeOrNil] /\ \A e \in TwoSides : Leaf[e] = NULL
  BY SidesAgree DEF Leaf, NodeOrNil
<1>5. /\ rbe_child \in [Node -> [Side -> NodeOrNil]] /\ rbe_parent \in [Node -> NodeOrNil]
      /\ NULL \in NodeOrNil /\ n \in NodeOrNil
  BY <1>2 DEF TreeInv, TypeOK, NodeOrNil
<1>6. /\ rbe_child' \in [Node -> [Side -> NodeOrNil]] /\ rbe_parent' \in [Node -> NodeOrNil]
      /\ \A e \in TwoSides : rbe_child'[n][e] = NULL
      /\ rbe_parent'[n] = NULL /\ \A m \in Node \ {n} : rbe_parent'[m] = rbe_parent[m]
  BY <1>2, <1>4, <1>5
<1>7. Members(rbh_root', rbe_parent') = {n}
  <2>1. \A m \in Node : rbe_parent[m] = NULL
    BY <1>3 DEF Tree, Members
  <2>2. QED
    BY <1>2, <1>6, <2>1 DEF Members
<1>8. Tree' = {n}
  BY <1>7 DEF Tree, Members
<1>9. /\ Grown({n}, NULL, n, rbe_child', rbe_parent')
      /\ \A io : IsInOrder(io, rbe_child', {n}, NULL) => io[n] = <<n>>
  <2>1. PICK ch, par : ch = rbe_child' /\ par = rbe_parent'
    OBVIOUS
  <2>2. n # NULL /\ par[n] = NULL /\ \A e \in TwoSides : ch[n][e] = NULL
    BY <1>2, <1>6, <2>1
  <2>3. Grown({n}, NULL, n, ch, par) /\ \A io : IsInOrder(io, ch, {n}, NULL) => io[n] = <<n>>
    BY ONLY <2>2, OneGrows
  <2>4. QED
    BY <2>1, <2>3
<1>10. Planted(rbh_root', rbe_child', rbe_parent')
  BY <1>2, <1>5, <1>6, <1>7, <1>9 DEF Planted
<1>11. List' = <<n>>
  <2>1. IsInOrder(Walk(rbe_child'), rbe_child', {n}, NULL)
    BY <1>7, <1>10, PlantedIsWalked
  <2>2. Walk(rbe_child')[n] = <<n>>
    BY <1>9, <2>1
  <2>3. QED
    BY <1>2, <2>2 DEF List, Walk
<1>12. List = <<>>
  BY <1>2, PlantedIsWalked DEF TreeInv, Listed, List
<1>13. Planted(rbh_root, rbe_child, rbe_parent)'
  BY <1>10 DEF Planted, Members
<1>14. QED
  BY <1>1, <1>3, <1>6, <1>8, <1>11, <1>12, <1>13

LEMMA LinkHangs ==
  ASSUME TreeInv, Link, elm \notin Tree, parent # NULL
  PROVE  /\ Planted(rbh_root, rbe_child, rbe_parent)'
         /\ Tree' = Tree \cup {elm}
         /\ Hangs(Tree, NULL, rbh_root, rbe_child, rbe_parent,
                  rbh_root', rbe_child', rbe_parent', elm, parent, LinkSide)
         /\ elm \in Node \ Tree /\ parent \in Tree /\ LinkSide \in Side
<1>1. PICK n, p, d : n = elm /\ p = parent /\ d = LinkSide
  OBVIOUS
<1>2. /\ n \in Node \ Tree /\ p \in Tree /\ d \in Side /\ n # p /\ n # NULL /\ p # NULL
      /\ p \in Node /\ rbe_child[p][d] = NULL
  BY <1>1, TreeNow, SidesAgree, LibuvAssumption DEF Link, LinkSide, TreeInv, Locals
<1>3. /\ rbe_child' = [[rbe_child EXCEPT ![n] = Leaf] EXCEPT ![p][d] = n]
      /\ rbe_parent' = [rbe_parent EXCEPT ![n] = p]
      /\ rbh_root' = rbh_root
  BY <1>1, <1>2 DEF Link
<1>4. /\ rbe_child \in [Node -> [Side -> NodeOrNil]] /\ rbe_parent \in [Node -> NodeOrNil]
      /\ Tree \subseteq Node /\ rbh_root \in Tree
      /\ n \in NodeOrNil /\ p \in NodeOrNil
  BY <1>2, TreeNow, RootThere DEF TreeInv, TypeOK, Tree, NodeOrNil
<1>5. Leaf \in [Side -> NodeOrNil] /\ \A e \in TwoSides : Leaf[e] = NULL
  BY SidesAgree DEF Leaf, NodeOrNil
<1>6. /\ rbe_child' \in [Node -> [Side -> NodeOrNil]]
      /\ rbe_child'[n] = Leaf
      /\ \A m \in Tree, e \in Side : rbe_child'[m][e] = IF m = p /\ e = d THEN n ELSE rbe_child[m][e]
  <2>1. PICK ch : ch = [rbe_child EXCEPT ![n] = Leaf]
    OBVIOUS
  <2>2. /\ ch \in [Node -> [Side -> NodeOrNil]] /\ ch[n] = Leaf
        /\ \A m \in Tree : ch[m] = rbe_child[m]
    BY <1>2, <1>4, <1>5, <2>1
  <2>3. rbe_child' = [ch EXCEPT ![p][d] = n]
    BY <1>3, <2>1
  <2>4. QED
    BY <1>2, <1>4, <2>2, <2>3
<1>7. /\ rbe_parent' \in [Node -> NodeOrNil]
      /\ rbe_parent'[n] = p /\ \A m \in Node \ {n} : rbe_parent'[m] = rbe_parent[m]
  BY <1>2, <1>3, <1>4
<1>8. Members(rbh_root', rbe_parent') = Tree \cup {n}
  <2>1. \A m \in Node : m \in Tree <=> m = rbh_root \/ rbe_parent[m] # NULL
    BY DEF Tree, Members
  <2>2. QED
    BY <1>2, <1>3, <1>4, <1>7, <2>1 DEF Members
<1>9. Hangs(Tree, NULL, rbh_root, rbe_child, rbe_parent, rbh_root', rbe_child', rbe_parent', n, p, d)
  <2>1. PICK S, r, ch, par, r2, ch2, par2 :
          /\ S = Tree /\ r = rbh_root /\ ch = rbe_child /\ par = rbe_parent
          /\ r2 = rbh_root' /\ ch2 = rbe_child' /\ par2 = rbe_parent'
    OBVIOUS
  <2>2. /\ p \in S /\ d \in Side /\ ch[p][d] = NULL /\ n \notin S /\ n # NULL
        /\ r2 = r
    BY <1>2, <1>3, <2>1
  <2>3. \A e \in TwoSides : ch2[n][e] = NULL
    BY <1>5, <1>6, <2>1
  <2>4. \A m \in S, e \in Side : ch2[m][e] = IF m = p /\ e = d THEN n ELSE ch[m][e]
    BY <1>6, <2>1
  <2>5. par2[n] = p /\ \A m \in S : par2[m] = par[m]
    BY <1>2, <1>4, <1>7, <2>1
  <2>6. Hangs(S, NULL, r, ch, par, r2, ch2, par2, n, p, d)
    BY ONLY <2>2, <2>3, <2>4, <2>5, SidesAgree DEF Hangs
  <2>7. QED
    BY <2>1, <2>6
<1>10. Grown(Tree \cup {n}, NULL, rbh_root', rbe_child', rbe_parent')
  BY <1>9, TreeNow, HangGrows
<1>11. Planted(rbh_root', rbe_child', rbe_parent')
  <2>1. rbh_root' \in NodeOrNil
    BY <1>3 DEF TreeInv, TypeOK
  <2>2. QED
    BY <1>6, <1>7, <1>8, <1>10, <2>1 DEF Planted
<1>12. Planted(rbh_root, rbe_child, rbe_parent)' /\ Tree' = Tree \cup {n}
  BY <1>8, <1>11 DEF Planted, Tree, Members
<1>13. QED
  BY <1>1, <1>2, <1>9, <1>12

\* The element is red, and may be below a red one.
LEMMA LinkKeeps ==
  ASSUME TreeInv, Link, elm \notin Tree
  PROVE  TreeInv'
<1>1. /\ pc = "descend" /\ pc' = "insert_color" /\ parent' = NULL /\ tmp' = tmp
      /\ rbe_color' = [rbe_color EXCEPT ![elm] = "red"]
      /\ elm' = elm /\ elm \in Node /\ elm # NULL
  BY LibuvAssumption DEF Link, TreeInv, Locals
<1>2. Planted(rbh_root, rbe_child, rbe_parent)' /\ Tree' = Tree \cup {elm}
  BY LinkRoot, LinkHangs
<1>3. rbe_color' \in [Node -> {"red", "black"}] /\ black' = black \ {elm}
  <2>1. rbe_color \in [Node -> {"red", "black"}]
    BY DEF TreeInv, TypeOK
  <2>2. QED
    BY <1>1, <2>1 DEF black
<1>4. OtherTypes'
  <2>1. NULL \in NodeOrNil
    BY DEF NodeOrNil
  <2>2. QED
    BY <1>1, <1>3, <2>1, TypesApart DEF OtherTypes
<1>5. TypeOK'
  BY <1>2, <1>4, TypesTogether
<1>6. Locals'
  BY <1>1, <1>2, <1>3 DEF Locals
<1>7. /\ Blk = black /\ Upset = NULL /\ SlotNode = NULL /\ SlotSide = "left"
      /\ Blk' = black' /\ Upset' = elm /\ SlotNode' = NULL /\ SlotSide' = "left"
  BY <1>1 DEF Blk, Upset, SlotNode, SlotSide, RemoveGoesOn
<1>8. Colored(Tree', NULL, rbe_child', rbe_parent', black', elm, NULL, "left")
  <2>1. CASE parent = NULL
    <3>1. Tree' = {elm} /\ \A e \in TwoSides : rbe_child'[elm][e] = NULL
      BY <2>1, LinkRoot
    <3>2. PICK B : B = [m \in {elm} \cup {NULL} |-> 0]
      OBVIOUS
    <3>3. B \in [{elm} \cup {NULL} -> Nat] /\ B[elm] = 0 /\ B[NULL] = 0
      BY <3>2
    <3>4. \A e \in TwoSides : B[elm] = B[rbe_child'[elm][e]] + One(elm \in black')
                                         + One(elm = NULL /\ e = "left")
      BY <1>1, <1>3, <3>1, <3>3 DEF One
    <3>5. Labelled({elm}, NULL, rbe_child', black', B, NULL, "left")
      BY <3>3, <3>4 DEF Labelled
    <3>6. Reds({elm}, rbe_parent', black', elm)
      BY DEF Reds
    <3>7. QED
      BY <3>1, <3>5, <3>6 DEF Colored
  <2>2. CASE parent # NULL
    <3>1. Hangs(Tree, NULL, rbh_root, rbe_child, rbe_parent,
                rbh_root', rbe_child', rbe_parent', elm, parent, LinkSide)
      BY <2>2, LinkHangs
    <3>2. Hung(Tree, NULL, rbh_root, rbe_child, rbe_parent)
      BY TreeNow
    <3>3. Colored(Tree, NULL, rbe_child, rbe_parent, black, NULL, NULL, "left")
      BY <1>7 DEF TreeInv, Colors
    <3>4. elm \notin black' /\ \A m \in Tree : m \in black' <=> m \in black
      BY <1>3
    <3>5. QED
      BY <1>2, <3>1, <3>2, <3>3, <3>4, HangColors
  <2>3. QED
    BY <2>1, <2>2
<1>9. Colors'
  BY <1>7, <1>8 DEF Colors
<1>10. QED
  BY <1>2, <1>5, <1>6, <1>9 DEF TreeInv

\* In the list it comes next to what is below parent.
LEMMA LinkPuts ==
  ASSUME TreeInv, Link, elm \notin Tree, parent # NULL, NEW A, NEW C,
         PlacedAt(Node, List, Walk(rbe_child)[parent], A, C)
  PROVE  PutsNext(Node, List, List', elm, A, Walk(rbe_child)[parent], C, LinkSide)
<1>1. PICK S : S = Tree
  OBVIOUS
<1>2. /\ Grown(S, NULL, rbh_root, rbe_child, rbe_parent)
      /\ IsInOrder(Walk(rbe_child), rbe_child, S, NULL)
      /\ S \subseteq Node
  BY <1>1, TreeNow, PlantedIsWalked DEF TreeInv, Tree
<1>3. /\ Hangs(S, NULL, rbh_root, rbe_child, rbe_parent,
               rbh_root', rbe_child', rbe_parent', elm, parent, LinkSide)
      /\ S \cup {elm} \subseteq Node
  BY <1>1, <1>2, LinkHangs
<1>4. IsInOrder(Walk(rbe_child'), rbe_child', S \cup {elm}, NULL)
  <2>1. Planted(rbh_root', rbe_child', rbe_parent') /\ Members(rbh_root', rbe_parent') = S \cup {elm}
    BY <1>1, LinkHangs DEF Planted, Tree, Members
  <2>2. QED
    BY <2>1, PlantedIsWalked
<1>5. PlacedAt(Node, Walk(rbe_child)[rbh_root], Walk(rbe_child)[parent], A, C)
  BY DEF List
<1>6. PutsNext(Node, Walk(rbe_child)[rbh_root], Walk(rbe_child')[rbh_root'], elm,
               A, Walk(rbe_child)[parent], C, LinkSide)
  BY <1>2, <1>3, <1>4, <1>5, HangLists
<1>7. QED
  BY <1>6 DEF List, Walk

-----------------------------------------------------------------------------
(* The loop of RB_INSERT_COLOR. *)

\* The memory before a step is planted.
LEMMA MemoryGrows ==
  ASSUME TreeInv
  PROVE  /\ Grows(memory) /\ In(memory) = Tree
         /\ memory.root = rbh_root /\ memory.child = rbe_child /\ memory.parent = rbe_parent
         /\ memory = Memory(rbh_root, rbe_child, rbe_parent)
         /\ Walk(memory.child)[memory.root] = List
BY DEF TreeInv, Grows, Fields, memory, Memory, In, Tree, List

\* The memory after it, where rotations made u of it.
LEMMA MemoryTurned ==
  ASSUME NEW t, Grows(t), In(t) = Tree, NEW u, NEW n, NEW up, NEW d,
         Rotated(t, u, n, up, d), Becomes(u)
  PROVE  /\ Planted(rbh_root, rbe_child, rbe_parent)'
         /\ Tree' = Tree
         /\ rbh_root' = u.root /\ rbe_child' = u.child /\ rbe_parent' = u.parent
         /\ List' = Walk(t.child)[t.root]
<1>1. /\ Planted(u.root, u.child, u.parent) /\ Members(u.root, u.parent) = Tree
      /\ rbh_root' = u.root /\ rbe_child' = u.child /\ rbe_parent' = u.parent
  BY DEF Rotated, Grows, Becomes, In
<1>2. Tree' = Tree
  BY <1>1 DEF Tree, Members
<1>3. Planted(rbh_root, rbe_child, rbe_parent)'
  BY <1>1 DEF Planted, Members
<1>4. List' = Walk(u.child)[u.root]
  BY <1>1 DEF List, Walk
<1>5. QED
  BY <1>1, <1>2, <1>3, <1>4, RotateLists

\* Where the loop goes on there is a black grandparent.
LEMMA InsertPlace ==
  ASSUME TreeInv, InsertGoesOn, NEW p, p = rbe_parent[elm], NEW g, g = gparent,
         NEW d, d = ParentSide, NEW u, u = Uncle
  PROVE  /\ elm \in Tree /\ elm \notin black
         /\ p \in Tree /\ p \notin black /\ rbe_parent[p] = g /\ p # elm
         /\ g \in Tree /\ g \in black
         /\ d \in Side /\ rbe_child[g][d] = p
         /\ u = rbe_child[g][Opposite(d)] /\ u \in Tree \cup {NULL} /\ u # p /\ u # elm
         /\ \E e \in Side : rbe_child[p][e] = elm
<1>1. pc = "insert_color" /\ elm \in Tree /\ elm \notin black /\ IsRed(p)
  BY DEF InsertGoesOn, TreeInv, Locals
<1>2. /\ \A n \in Tree : n # rbh_root => /\ rbe_parent[n] \in Tree
                                         /\ \E e \in Side : rbe_child[rbe_parent[n]][e] = n
      /\ NULL \notin Tree /\ Tree \subseteq Node
      /\ rbh_root # NULL => rbe_parent[rbh_root] = NULL
      /\ Hung(Tree, NULL, rbh_root, rbe_child, rbe_parent)
  BY TreeNow
<1>3. p # NULL
  BY <1>1 DEF IsRed
<1>4. elm # rbh_root
  BY <1>1, <1>2, <1>3
<1>5. p \in Tree /\ \E e \in Side : rbe_child[p][e] = elm
  BY <1>1, <1>2, <1>4
<1>6. p \notin black /\ p # elm
  <2>1. p # elm
    BY <1>1, <1>2, <1>5 DEF Hung
  <2>2. p \in NodeOrNil
    BY <1>2, <1>5 DEF NodeOrNil
  <2>3. QED
    BY <1>1, <2>1, <2>2, BlackOrRed
<1>7. Reds(Tree, rbe_parent, black, elm)
  BY <1>1 DEF TreeInv, Colors, Colored, Blk, Upset
<1>8. g = rbe_parent[p] /\ g \in Tree /\ g \in black
  BY <1>5, <1>6, <1>7 DEF Reds, gparent
<1>9. d \in Side /\ rbe_child[g][d] = p
  <2>1. p # rbh_root
    BY <1>2, <1>5, <1>8
  <2>2. \E e \in Side : rbe_child[g][e] = p
    BY <1>2, <1>5, <1>8, <2>1
  <2>3. d = IF p = rbe_child[g]["left"] THEN "left" ELSE "right"
    BY DEF ParentSide
  <2>4. QED
    BY <2>2, <2>3, SidesAgree
<1>10. u = rbe_child[g][Opposite(d)]
  BY DEF Uncle
<1>11. u \in Tree \cup {NULL} /\ u # p /\ u # elm
  <2>1. /\ rbe_child[g][d] # NULL => rbe_child[g][d] # rbe_child[g][Across(d)]
        /\ rbe_child[g][Across(d)] \in Tree \cup {NULL}
        /\ rbe_child[g][Across(d)] # NULL => rbe_parent[rbe_child[g][Across(d)]] = g
    BY <1>2, <1>8, <1>9, SidesAgree DEF Hung
  <2>2. u = rbe_child[g][Across(d)]
    BY <1>10, SidesAgree
  <2>3. u \in Tree \cup {NULL} /\ u # p
    BY <1>2, <1>5, <1>9, <2>1, <2>2
  <2>4. u # elm
    <3>1. p # g
      BY <1>2, <1>5, <1>8 DEF Hung
    <3>2. QED
      BY <1>1, <1>2, <2>1, <2>2, <3>1
  <2>5. QED
    BY <2>3, <2>4
<1>12. QED
  BY <1>1, <1>5, <1>6, <1>8, <1>9, <1>10, <1>11

\* A red uncle: the element that may be red below a red one is the grandparent then.
LEMMA InsertFlipKeeps ==
  ASSUME TreeInv, InsertFlip
  PROVE  TreeInv' /\ List' = List
<1>1. PICK p, g, d, u : p = rbe_parent[elm] /\ g = gparent /\ d = ParentSide /\ u = Uncle
  OBVIOUS
<1>2. /\ elm \in Tree /\ elm \notin black
      /\ p \in Tree /\ p \notin black /\ rbe_parent[p] = g /\ p # elm
      /\ g \in Tree /\ g \in black
      /\ d \in Side /\ rbe_child[g][d] = p
      /\ u = rbe_child[g][Opposite(d)] /\ u \in Tree \cup {NULL} /\ u # p /\ u # elm
  BY <1>1, InsertPlace DEF InsertFlip
<1>3. /\ UNCHANGED <<rbh_root, rbe_child, rbe_parent>>
      /\ pc = "insert_color" /\ pc' = pc /\ elm' = g /\ parent' = parent /\ tmp' = tmp
      /\ rbe_color' = [rbe_color EXCEPT ![u] = "black", ![p] = "black", ![g] = "red"]
      /\ IsRed(u)
  BY <1>1 DEF InsertFlip, InsertGoesOn
<1>4. Planted(rbh_root, rbe_child, rbe_parent)' /\ Tree' = Tree /\ List' = List
  BY <1>3, SamePointers
<1>5. NULL \notin Tree /\ Tree \subseteq Node
  BY TreeNow
<1>6. u \in Tree /\ u \notin black
  <2>1. u \in NodeOrNil
    BY <1>2, <1>5 DEF NodeOrNil
  <2>2. u \in Node /\ u \notin black
    BY <1>3, <2>1, BlackOrRed
  <2>3. QED
    BY <1>2, <2>2, LibuvAssumption
<1>7. rbe_color' \in [Node -> {"red", "black"}] /\ black' = (black \cup {p, u}) \ {g}
  <2>1. rbe_color \in [Node -> {"red", "black"}]
    BY DEF TreeInv, TypeOK
  <2>2. /\ rbe_color' \in [Node -> {"red", "black"}]
        /\ \A m \in Node : rbe_color'[m] = IF m = g THEN "red"
                                           ELSE IF m = u \/ m = p THEN "black" ELSE rbe_color[m]
    BY <1>2, <1>3, <1>5, <1>6, <2>1
  <2>3. QED
    BY <1>2, <1>5, <1>6, <2>2 DEF black
<1>8. OtherTypes'
  BY <1>2, <1>3, <1>5, <1>7, TypesApart DEF OtherTypes
<1>9. TypeOK'
  BY <1>4, <1>8, TypesTogether
<1>10. Locals'
  BY <1>2, <1>3, <1>4, <1>7 DEF Locals
<1>11. /\ Blk = black /\ Upset = elm /\ SlotNode = NULL /\ SlotSide = "left"
       /\ Blk' = black' /\ Upset' = g /\ SlotNode' = NULL /\ SlotSide' = "left"
  BY <1>3 DEF Blk, Upset, SlotNode, SlotSide, RemoveGoesOn
<1>12. Colored(Tree, NULL, rbe_child, rbe_parent, black', g, NULL, "left")
  <2>1. Colored(Tree, NULL, rbe_child, rbe_parent, black, elm, NULL, "left")
    BY <1>11 DEF TreeInv, Colors
  <2>2. Hung(Tree, NULL, rbh_root, rbe_child, rbe_parent) /\ rbe_parent[elm] = p
    BY <1>1, TreeNow
  <2>3. \A m \in Tree : m \in black' <=> (m \in black \/ m = p \/ m = u) /\ m # g
    BY <1>7
  <2>4. d \in TwoSides /\ u = rbe_child[g][Across(d)]
    BY <1>2, SidesAgree
  <2>5. PICK S, r, ch, par, blk, blk2, v : /\ S = Tree /\ r = rbh_root /\ ch = rbe_child
                                        /\ par = rbe_parent /\ blk = black /\ blk2 = black' /\ v = elm
    OBVIOUS
  <2>6. /\ v \in S /\ p \in S /\ u \in S /\ p \notin blk /\ u \notin blk
        /\ d \in TwoSides /\ ch[g][Across(d)] = u
        /\ par[v] = p /\ par[p] = g /\ ch[g][d] = p
        /\ \A m \in S : m \in blk2 <=> (m \in blk \/ m = p \/ m = u) /\ m # g
        /\ Colored(S, NULL, ch, par, blk, v, NULL, "left")
        /\ Hung(S, NULL, r, ch, par)
    BY <1>2, <1>6, <2>1, <2>2, <2>3, <2>4, <2>5
  <2>7. Colored(S, NULL, ch, par, blk2, g, NULL, "left")
    BY ONLY <2>6, FlipColors
  <2>8. QED
    BY <2>5, <2>7
<1>13. Colors'
  BY <1>3, <1>4, <1>11, <1>12 DEF Colors
<1>14. QED
  BY <1>4, <1>9, <1>10, <1>13 DEF TreeInv

\* The last rotation of a turn, at the grandparent g: s comes up black, with n below it.
LEMMA InsertTurn ==
  ASSUME TreeInv, NEW t, Grows(t), In(t) = Tree,
         NEW n \in Tree, NEW s \in Tree, NEW g \in Tree, NEW d \in Side,
         n \notin black, s \notin black, g \in black,
         s = t.child[g][d], n = t.child[s][d],
         t.child[g][Opposite(d)] \in Tree => t.child[g][Opposite(d)] \in black,
         Colored(Tree, NULL, t.child, t.parent, black, n, NULL, "left"),
         Becomes(RB_ROTATE(t, g, Opposite(d))),
         rbe_color' = [rbe_color EXCEPT ![s] = "black", ![g] = "red"],
         pc = "insert_color", pc' = pc, elm' = n, parent' = parent, tmp' = tmp
  PROVE  TreeInv' /\ List' = Walk(t.child)[t.root]
<1>1. PICK u, o : u = RB_ROTATE(t, g, Opposite(d)) /\ o = Opposite(d)
  OBVIOUS
<1>2. /\ o \in Side /\ Opposite(o) = d /\ Across(o) = d /\ o \in TwoSides /\ d \in TwoSides
      /\ s # NULL /\ n # NULL /\ g # NULL
      /\ Tree \subseteq Node /\ NULL \notin Tree
  BY <1>1, SidesAgree, TreeNow
<1>3. Rotated(t, u, g, s, o)
  BY <1>1, <1>2, RotateTurns
<1>4. /\ Planted(rbh_root, rbe_child, rbe_parent)' /\ Tree' = Tree
      /\ rbe_child' = u.child /\ rbe_parent' = u.parent
      /\ List' = Walk(t.child)[t.root]
  BY <1>1, <1>3, MemoryTurned
<1>5. s # g /\ n # g /\ n # s
  <2>1. Hung(Tree, NULL, t.root, t.child, t.parent)
    BY PlantedType DEF Grows, In
  <2>2. s # g /\ n # s
    BY <1>2, <2>1 DEF Hung
  <2>3. QED
    BY <2>2
<1>6. rbe_color' \in [Node -> {"red", "black"}] /\ black' = (black \cup {s}) \ {g}
  <2>1. rbe_color \in [Node -> {"red", "black"}]
    BY DEF TreeInv, TypeOK
  <2>2. /\ rbe_color' \in [Node -> {"red", "black"}]
        /\ \A m \in Node : rbe_color'[m] = IF m = g THEN "red" ELSE IF m = s THEN "black" ELSE rbe_color[m]
    BY <1>2, <2>1
  <2>3. QED
    BY <1>2, <2>2 DEF black
<1>7. OtherTypes'
  BY <1>2, <1>6, TypesApart DEF OtherTypes
<1>8. TypeOK'
  BY <1>4, <1>7, TypesTogether
<1>9. Locals'
  BY <1>4, <1>5, <1>6 DEF Locals
<1>10. Colored(Tree, NULL, u.child, u.parent, black', NULL, NULL, "left")
  <2>1. PICK S, blk, blk2 : S = Tree /\ blk = black /\ blk2 = black'
    OBVIOUS
  <2>2. /\ Hung(S, NULL, t.root, t.child, t.parent)
        /\ Turns(S, t.root, t.child, t.parent, u.root, u.child, u.parent, g, s, o)
        /\ Colored(S, NULL, t.child, t.parent, blk, n, NULL, "left")
    BY <1>3, <2>1, PlantedType DEF Grows, Rotated, In
  <2>3. /\ g \in blk /\ s \notin blk /\ NULL # s /\ (NULL = g => "left" = o)
        /\ (n \in S => n = t.child[s][Across(o)])
        /\ (t.child[g][o] \in S => t.child[g][o] \in blk)
        /\ \A m \in S : m \in blk2 <=> (m \in blk \/ m = s) /\ m # g
    BY <1>1, <1>2, <1>6, <2>1
  <2>4. Colored(S, NULL, u.child, u.parent, blk2, NULL, NULL, "left")
    BY <2>2, <2>3, SwapColors
  <2>5. QED
    BY <2>1, <2>4
<1>11. Blk' = black' /\ Upset' = n /\ SlotNode' = NULL /\ SlotSide' = "left"
  BY DEF Blk, Upset, SlotNode, SlotSide, RemoveGoesOn
<1>12. Colors'
  <2>1. PICK S, blk2 : S = Tree /\ blk2 = black'
    OBVIOUS
  <2>2. /\ \E B : Labelled(S, NULL, u.child, blk2, B, NULL, "left")
        /\ Reds(S, u.parent, blk2, NULL)
    BY <1>10, <2>1 DEF Colored
  <2>3. Reds(S, u.parent, blk2, n)
    BY <1>2, <2>1, <2>2 DEF Reds
  <2>4. Colored(S, NULL, u.child, u.parent, blk2, n, NULL, "left")
    BY <2>2, <2>3 DEF Colored
  <2>5. QED
    BY <1>4, <1>11, <2>1, <2>4 DEF Colors
<1>13. QED
  BY <1>4, <1>8, <1>9, <1>12 DEF TreeInv

\* A black uncle: an element on the inner side is brought to the outer side first.
LEMMA InsertRotateKeeps ==
  ASSUME TreeInv, InsertRotate
  PROVE  TreeInv' /\ List' = List
<1>1. PICK p, g, d, u : p = rbe_parent[elm] /\ g = gparent /\ d = ParentSide /\ u = Uncle
  OBVIOUS
<1>2. /\ elm \in Tree /\ elm \notin black
      /\ p \in Tree /\ p \notin black /\ rbe_parent[p] = g /\ p # elm
      /\ g \in Tree /\ g \in black
      /\ d \in Side /\ rbe_child[g][d] = p
      /\ u = rbe_child[g][Opposite(d)] /\ u \in Tree \cup {NULL} /\ u # p /\ u # elm
      /\ \E e \in Side : rbe_child[p][e] = elm
  BY <1>1, InsertPlace DEF InsertRotate
<1>3. pc = "insert_color" /\ pc' = pc /\ parent' = parent /\ tmp' = tmp /\ ~IsRed(u)
  BY <1>1 DEF InsertRotate, InsertGoesOn
<1>4. u \in Tree => u \in black
  <2>1. Tree \subseteq Node
    BY TreeNow
  <2>2. u \in Tree => u \in NodeOrNil /\ u \in Node
    BY <2>1 DEF NodeOrNil
  <2>3. QED
    BY <1>3, <2>2, BlackOrRed
<1>5. /\ Grows(memory) /\ In(memory) = Tree
      /\ memory.root = rbh_root /\ memory.child = rbe_child /\ memory.parent = rbe_parent
      /\ Walk(memory.child)[memory.root] = List
  BY MemoryGrows
<1>6. Colored(Tree, NULL, rbe_child, rbe_parent, black, elm, NULL, "left")
  BY <1>3 DEF TreeInv, Colors, Blk, Upset, SlotNode, SlotSide, RemoveGoesOn
<1>7. Opposite(d) \in Side /\ Opposite(d) # d /\ \A e \in Side : e = d \/ e = Opposite(d)
  BY <1>2, SidesAgree
<1>8. CASE rbe_child[p][Opposite(d)] # elm
  <2>1. elm = rbe_child[p][d]
    BY <1>2, <1>7, <1>8
  <2>2. /\ elm' = elm
        /\ rbe_color' = [rbe_color EXCEPT ![p] = "black", ![g] = "red"]
        /\ Becomes(RB_ROTATE(memory, g, Opposite(d)))
    BY <1>1, <1>8 DEF InsertRotate
  <2>3. PICK t, n : t = memory /\ n = elm
    OBVIOUS
  <2>4. /\ Grows(t) /\ In(t) = Tree
        /\ n \in Tree /\ n \notin black /\ elm' = n
        /\ p = t.child[g][d] /\ n = t.child[p][d]
        /\ (t.child[g][Opposite(d)] \in Tree => t.child[g][Opposite(d)] \in black)
        /\ Colored(Tree, NULL, t.child, t.parent, black, n, NULL, "left")
        /\ Becomes(RB_ROTATE(t, g, Opposite(d)))
    BY <1>2, <1>4, <1>5, <1>6, <2>1, <2>2, <2>3
  <2>5. TreeInv' /\ List' = Walk(t.child)[t.root]
    BY <1>2, <1>3, <2>2, <2>4, InsertTurn
  <2>6. QED
    BY <1>5, <2>3, <2>5
<1>9. CASE rbe_child[p][Opposite(d)] = elm
  <2>1. PICK t, n : t = RB_ROTATE(memory, p, d) /\ n = elm
    OBVIOUS
  <2>2. /\ elm' = p
        /\ rbe_color' = [rbe_color EXCEPT ![n] = "black", ![g] = "red"]
        /\ Becomes(RB_ROTATE(t, g, Opposite(d)))
    BY <1>1, <1>9, <2>1 DEF InsertRotate
  <2>3. n = memory.child[p][Opposite(d)] /\ n # NULL /\ n \in Tree
    BY <1>2, <1>5, <1>9, <2>1, TreeNow
  <2>4. Rotated(memory, t, p, n, d)
    BY <1>2, <1>5, <2>1, <2>3, RotateTurns
  <2>5. PICK S, r, ch, par : S = Tree /\ r = rbh_root /\ ch = rbe_child /\ par = rbe_parent
    OBVIOUS
  <2>6. /\ Grows(t) /\ In(t) = Tree
        /\ Turns(S, r, ch, par, t.root, t.child, t.parent, p, n, d)
        /\ Walk(t.child)[t.root] = List
    BY <1>5, <2>4, <2>5, RotateLists DEF Rotated
  <2>7. n = t.child[g][d] /\ p = t.child[n][d] /\ t.child[g][Opposite(d)] = u
    <3>1. Hung(S, NULL, r, ch, par)
      BY <2>5, TreeNow
    <3>2. g # p /\ g # n
      BY <1>1, <1>2, <2>1, <2>3, <2>5, <3>1 DEF Hung
    <3>3. \A m \in S, e \in Side :
            t.child[m][e] = IF m = p /\ e # d THEN ch[n][d] ELSE IF m = n /\ e = d THEN p
                            ELSE IF ch[m][e] = p THEN n ELSE ch[m][e]
      BY <2>6, SidesAgree DEF Turns
    <3>4. QED
      BY <1>2, <1>7, <2>1, <2>3, <2>5, <3>2, <3>3
  <2>8. Colored(S, NULL, t.child, t.parent, black, p, NULL, "left")
    <3>1. PICK k : k = black
      OBVIOUS
    <3>2. /\ Hung(S, NULL, r, ch, par) /\ Colored(S, NULL, ch, par, k, n, NULL, "left")
          /\ p \notin k /\ n \notin k
      BY <1>2, <1>6, <2>1, <2>5, <3>1, TreeNow
    <3>3. Colored(S, NULL, t.child, t.parent, k, p, NULL, "left")
      BY <2>6, <3>2, InnerColors
    <3>4. QED
      BY <3>1, <3>3
  <2>9. /\ (t.child[g][Opposite(d)] \in Tree => t.child[g][Opposite(d)] \in black)
        /\ Colored(Tree, NULL, t.child, t.parent, black, p, NULL, "left")
        /\ n \notin black /\ n \in Tree
    BY <1>2, <1>4, <2>1, <2>5, <2>7, <2>8
  <2>10. TreeInv' /\ List' = Walk(t.child)[t.root]
    BY <1>2, <1>3, <2>2, <2>6, <2>7, <2>9, InsertTurn
  <2>11. QED
    BY <2>6, <2>10
<1>10. QED
  BY <1>8, <1>9

-----------------------------------------------------------------------------
(* The loop of RB_REMOVE_COLOR. *)

\* Where the loop goes on there is a sibling.
LEMMA RemovePlace ==
  ASSUME TreeInv, RemoveGoesOn, NEW p, p = parent, NEW d, d = ElmSide, NEW w, w = Sibling
  PROVE  /\ pc = "remove_color" /\ elm # rbh_root /\ elm \in Tree \cup {NULL}
         /\ elm \in Tree => elm \in black
         /\ Upset = NULL /\ SlotNode = p /\ SlotSide = d
         /\ p \in Tree /\ d \in Side /\ rbe_child[p][d] = elm
         /\ w \in Tree /\ w = rbe_child[p][Opposite(d)] /\ w # elm /\ w # p /\ elm # p
         /\ Near = rbe_child[w][d] /\ Far = rbe_child[w][Opposite(d)]
         /\ Colored(Tree, NULL, rbe_child, rbe_parent, black, NULL, p, d)
<1>1. pc = "remove_color" /\ elm # rbh_root /\ ~IsRed(elm)
  BY DEF RemoveGoesOn
<1>2. /\ elm \in Tree \cup {NULL} /\ p \in Tree /\ rbe_child[p][d] = elm /\ d \in Side
  BY <1>1, SidesAgree DEF TreeInv, Locals, ElmSide
<1>3. elm \in Tree => elm \in black
  <2>1. elm \in Tree => elm \in Node /\ elm \in NodeOrNil
    BY TreeNow DEF NodeOrNil
  <2>2. QED
    BY <1>1, <2>1, BlackOrRed
<1>4. Blk = black \cup {elm} /\ Upset = NULL /\ SlotNode = p /\ SlotSide = d
  BY <1>1 DEF Blk, Upset, SlotNode, SlotSide, RemoveGoesOn
<1>5. Colored(Tree, NULL, rbe_child, rbe_parent, black, NULL, p, d)
  <2>1. PICK S, ch, par, blk, blk2 :
          S = Tree /\ ch = rbe_child /\ par = rbe_parent /\ blk = Blk /\ blk2 = black
    OBVIOUS
  <2>2. Colored(S, NULL, ch, par, blk, NULL, p, d)
    BY <1>4, <2>1 DEF TreeInv, Colors
  <2>3. \A m \in S : m \in blk2 <=> m \in blk
    BY <1>3, <1>4, <2>1
  <2>4. Colored(S, NULL, ch, par, blk2, NULL, p, d)
    BY ONLY <2>2, <2>3, SameColors
  <2>5. QED
    BY <2>1, <2>4
<1>6. w = rbe_child[p][Opposite(d)] /\ Near = rbe_child[w][d] /\ Far = rbe_child[w][Opposite(d)]
  BY DEF Sibling, Near, Far
<1>7. \A e \in TwoSides : rbe_child[p][e] \in Tree \cup {NULL}
  BY <1>2, TreeNow, SidesAgree
<1>8. d \in TwoSides /\ Across(d) = Opposite(d) /\ Opposite(d) \in TwoSides
  BY <1>2, SidesAgree
<1>9. PICK S, ch, par, blk : S = Tree /\ ch = rbe_child /\ par = rbe_parent /\ blk = black
  OBVIOUS
<1>10. ch[p][d] # ch[p][Across(d)] /\ ch[p][Across(d)] # NULL
  <2>1. /\ p \in S /\ \A e \in TwoSides : ch[p][e] \in S \cup {NULL}
        /\ Colored(S, NULL, ch, par, blk, NULL, p, d)
    BY <1>2, <1>5, <1>7, <1>9
  <2>2. QED
    BY ONLY <1>8, <2>1, SlotApart
<1>11. w \in Tree /\ w # elm
  BY <1>2, <1>6, <1>7, <1>8, <1>9, <1>10
<1>12. w # p /\ elm # p
  <2>1. NULL \notin Tree /\ Hung(Tree, NULL, rbh_root, rbe_child, rbe_parent)
    BY TreeNow
  <2>2. rbe_child[p][Across(d)] # p /\ (rbe_child[p][d] # NULL => rbe_child[p][d] # p)
    BY <1>2, <1>8, <1>9, <1>10, <2>1 DEF Hung
  <2>3. QED
    BY <1>2, <1>6, <1>8, <2>1, <2>2
<1>13. QED
  BY <1>1, <1>2, <1>3, <1>4, <1>5, <1>6, <1>11, <1>12

\* A red sibling: the rotation leaves elm where it hangs.
LEMMA RemoveRedSiblingKeeps ==
  ASSUME TreeInv, RemoveRedSibling
  PROVE  TreeInv' /\ List' = List
<1>1. PICK p, d, w, u : p = parent /\ d = ElmSide /\ w = Sibling /\ u = RB_ROTATE(memory, p, d)
  OBVIOUS
<1>2. /\ pc = "remove_color" /\ elm # rbh_root /\ elm \in Tree \cup {NULL}
      /\ elm \in Tree => elm \in black
      /\ p \in Tree /\ d \in Side /\ rbe_child[p][d] = elm
      /\ w \in Tree /\ w = rbe_child[p][Opposite(d)] /\ w # elm /\ w # p /\ elm # p
      /\ Colored(Tree, NULL, rbe_child, rbe_parent, black, NULL, p, d)
  BY <1>1, RemovePlace DEF RemoveRedSibling, RemoveTurn
<1>3. /\ pc' = pc /\ elm' = elm /\ parent' = parent /\ tmp' = tmp
      /\ rbe_color' = [rbe_color EXCEPT ![w] = "black", ![p] = "red"]
      /\ Becomes(u) /\ IsRed(w) /\ ~IsRed(elm)
  BY <1>1 DEF RemoveRedSibling, RemoveTurn, RemoveGoesOn
<1>4. /\ Grows(memory) /\ In(memory) = Tree
      /\ memory.root = rbh_root /\ memory.child = rbe_child /\ memory.parent = rbe_parent
      /\ Walk(memory.child)[memory.root] = List
  BY MemoryGrows
<1>5. NULL \notin Tree /\ Tree \subseteq Node /\ Hung(Tree, NULL, rbh_root, rbe_child, rbe_parent)
  BY TreeNow
<1>6. Rotated(memory, u, p, w, d)
  BY <1>1, <1>2, <1>4, <1>5, RotateTurns
<1>7. /\ Planted(rbh_root, rbe_child, rbe_parent)'
      /\ Tree' = Tree /\ rbh_root' = u.root /\ rbe_child' = u.child /\ rbe_parent' = u.parent
      /\ List' = List
  BY <1>3, <1>4, <1>6, MemoryTurned
<1>8. Turns(Tree, rbh_root, rbe_child, rbe_parent, rbh_root', rbe_child', rbe_parent', p, w, d)
  BY <1>4, <1>6, <1>7 DEF Rotated
<1>9. rbe_color' \in [Node -> {"red", "black"}] /\ black' = (black \cup {w}) \ {p}
  <2>1. rbe_color \in [Node -> {"red", "black"}]
    BY DEF TreeInv, TypeOK
  <2>2. /\ rbe_color' \in [Node -> {"red", "black"}]
        /\ \A m \in Node : rbe_color'[m] = IF m = p THEN "red"
                                           ELSE IF m = w THEN "black" ELSE rbe_color[m]
    BY <1>2, <1>3, <1>5, <2>1
  <2>3. QED
    BY <1>2, <1>5, <2>2 DEF black
<1>10. OtherTypes'
  BY <1>2, <1>3, <1>9, TypesApart DEF OtherTypes
<1>11. TypeOK'
  BY <1>7, <1>10, TypesTogether
<1>12. Colored(Tree, NULL, rbe_child', rbe_parent', black', NULL, p, d)
  <2>1. PICK S, r, ch, par, blk, r2, ch2, par2, blk2 :
          /\ S = Tree /\ r = rbh_root /\ ch = rbe_child /\ par = rbe_parent /\ blk = black
          /\ r2 = rbh_root' /\ ch2 = rbe_child' /\ par2 = rbe_parent' /\ blk2 = black'
    OBVIOUS
  <2>2. w \notin blk
    <3>1. w \in NodeOrNil
      BY <1>2, <1>5 DEF NodeOrNil
    <3>2. QED
      BY <1>3, <2>1, <3>1, BlackOrRed
  <2>3. p \in blk
    <3>1. Reds(S, par, blk, NULL) /\ par[w] = p /\ w \in S
      BY <1>2, <1>5, <2>1, SidesAgree DEF Colored, Hung
    <3>2. QED
      BY <1>5, <2>1, <2>2, <3>1 DEF Reds
  <2>4. /\ Hung(S, NULL, r, ch, par)
        /\ Turns(S, r, ch, par, r2, ch2, par2, p, w, d)
        /\ Colored(S, NULL, ch, par, blk, NULL, p, d)
        /\ p # w /\ (p = p => d = d)
        /\ (NULL \in S => NULL = ch[w][Across(d)])
        /\ (ch[p][d] \in S => ch[p][d] \in blk)
        /\ \A m \in S : m \in blk2 <=> (m \in blk \/ m = w) /\ m # p
    BY <1>2, <1>5, <1>8, <1>9, <2>1
  <2>5. Colored(S, NULL, ch2, par2, blk2, NULL, p, d)
    BY ONLY <2>2, <2>3, <2>4, SwapColors
  <2>6. QED
    BY <2>1, <2>5
<1>13. \A e \in Side : rbe_child'[p][e] \in Tree \cup {NULL}
  <2>1. Planted(rbh_root', rbe_child', rbe_parent') /\ Members(rbh_root', rbe_parent') = Tree
    BY <1>7 DEF Planted, Members, Tree
  <2>2. QED
    BY <1>2, <2>1, PlantedType
<1>14. rbe_child'[p][d] = elm
  <2>1. rbe_child'[p][d] = IF rbe_child[p][d] = p THEN w ELSE rbe_child[p][d]
    BY <1>2, <1>8, SidesAgree DEF Turns
  <2>2. QED
    BY <1>2, <2>1
<1>15. ElmSide' = d
  <2>1. PICK S, ch, par, blk : S = Tree /\ ch = rbe_child' /\ par = rbe_parent' /\ blk = black'
    OBVIOUS
  <2>2. /\ p \in S /\ d \in TwoSides /\ \A e \in TwoSides : ch[p][e] \in S \cup {NULL}
        /\ Colored(S, NULL, ch, par, blk, NULL, p, d)
    BY <1>2, <1>12, <1>13, <2>1, SidesAgree
  <2>3. ch[p][d] # ch[p][Across(d)]
    BY ONLY <2>2, SlotApart
  <2>4. rbe_child'[p]["left"] = elm <=> d = "left"
    BY <1>2, <1>14, <2>1, <2>3, SidesAgree
  <2>5. QED
    BY <1>1, <1>2, <1>3, <2>4, SidesAgree DEF ElmSide
<1>16. elm # rbh_root'
  BY <1>2, <1>8 DEF Turns
<1>17. elm \in Tree => elm \in black'
  BY <1>2, <1>9
<1>18. ~IsRed(elm)'
  <2>1. elm \in Tree => elm \in Node /\ elm \in black'
    BY <1>5, <1>17
  <2>2. QED
    BY <1>2, <1>3, <2>1 DEF IsRed, black
<1>19. RemoveGoesOn' /\ SlotNode' = p /\ SlotSide' = d /\ Upset' = NULL /\ Blk' = black' \cup {elm}
  <2>1. RemoveGoesOn'
    BY <1>2, <1>3, <1>16, <1>18 DEF RemoveGoesOn
  <2>2. QED
    BY <1>1, <1>2, <1>3, <1>15, <2>1 DEF SlotNode, SlotSide, Upset, Blk
<1>20. Locals'
  BY <1>1, <1>2, <1>3, <1>7, <1>14, <1>15 DEF Locals
<1>21. Colors'
  <2>1. PICK S, ch, par, blk, blk2 :
          S = Tree /\ ch = rbe_child' /\ par = rbe_parent' /\ blk = black' /\ blk2 = Blk'
    OBVIOUS
  <2>2. Colored(S, NULL, ch, par, blk, NULL, p, d) /\ \A m \in S : m \in blk2 <=> m \in blk
    BY <1>12, <1>17, <1>19, <2>1
  <2>3. Colored(S, NULL, ch, par, blk2, NULL, p, d)
    BY ONLY <2>2, SameColors
  <2>4. QED
    BY <1>7, <1>19, <2>1, <2>3 DEF Colors
<1>22. QED
  BY <1>7, <1>11, <1>20, <1>21 DEF TreeInv

\* No red nephew: the slot goes up, or ends.
LEMMA RemoveFlipKeeps ==
  ASSUME TreeInv, RemoveFlip
  PROVE  TreeInv' /\ List' = List
<1>1. PICK p, d, w : p = parent /\ d = ElmSide /\ w = Sibling
  OBVIOUS
<1>2. /\ pc = "remove_color" /\ elm # rbh_root
      /\ p \in Tree /\ d \in Side /\ rbe_child[p][d] = elm
      /\ w \in Tree /\ w = rbe_child[p][Opposite(d)] /\ w # p
      /\ Near = rbe_child[w][d] /\ Far = rbe_child[w][Opposite(d)]
      /\ Colored(Tree, NULL, rbe_child, rbe_parent, black, NULL, p, d)
  BY <1>1, RemovePlace DEF RemoveFlip, RemoveTurn
<1>3. /\ pc' = pc /\ elm' = p /\ parent' = rbe_parent[p] /\ tmp' = tmp
      /\ rbh_root' = rbh_root /\ rbe_child' = rbe_child /\ rbe_parent' = rbe_parent
      /\ rbe_color' = [rbe_color EXCEPT ![w] = "red"]
      /\ ~IsRed(w) /\ ~IsRed(Near) /\ ~IsRed(Far)
  BY <1>1 DEF RemoveFlip, NephewsAreBlack
<1>4. Planted(rbh_root, rbe_child, rbe_parent)' /\ Tree' = Tree /\ List' = List
  BY <1>3, SamePointers
<1>5. /\ NULL \notin Tree /\ Tree \subseteq Node
      /\ Hung(Tree, NULL, rbh_root, rbe_child, rbe_parent)
      /\ rbh_root # NULL => rbe_parent[rbh_root] = NULL
      /\ \A m \in Tree : m # rbh_root => /\ rbe_parent[m] \in Tree
                                         /\ \E e \in Side : rbe_child[rbe_parent[m]][e] = m
      /\ \A m \in Tree, e \in Side : rbe_child[m][e] \in Tree \cup {NULL}
  BY TreeNow
<1>6. w \in black /\ \A e \in Side : rbe_child[w][e] \in Tree => rbe_child[w][e] \in black
  <2>1. \A m \in Tree : ~IsRed(m) => m \in black
    BY <1>5, BlackOrRed DEF NodeOrNil
  <2>2. \A e \in Side : ~IsRed(rbe_child[w][e])
    BY <1>2, <1>3, SidesAgree
  <2>3. QED
    BY <1>2, <1>3, <2>1, <2>2
<1>7. rbe_color' \in [Node -> {"red", "black"}] /\ black' = black \ {w}
  <2>1. rbe_color \in [Node -> {"red", "black"}]
    BY DEF TreeInv, TypeOK
  <2>2. /\ rbe_color' \in [Node -> {"red", "black"}]
        /\ \A m \in Node : rbe_color'[m] = IF m = w THEN "red" ELSE rbe_color[m]
    BY <1>2, <1>3, <1>5, <2>1
  <2>3. QED
    BY <1>2, <1>5, <2>2 DEF black
<1>8. OtherTypes'
  <2>1. p \in NodeOrNil /\ rbe_parent[p] \in NodeOrNil /\ tmp \in NodeOrNil
    BY <1>2, <1>5 DEF TreeInv, TypeOK, NodeOrNil
  <2>2. QED
    BY <1>2, <1>3, <1>7, <2>1 DEF OtherTypes
<1>9. TypeOK'
  BY <1>4, <1>8, TypesTogether
<1>10. PICK q, e0 : q = rbe_parent[p] /\ e0 = IF rbe_child[q]["left"] = p THEN "left" ELSE "right"
  OBVIOUS
<1>11. ElmSide' = e0 /\ e0 \in Side /\ (p # rbh_root => q \in Tree /\ rbe_child[q][e0] = p)
  <2>1. ElmSide' = e0 /\ e0 \in Side
    BY <1>3, <1>10, SidesAgree DEF ElmSide
  <2>2. QED
    BY <1>2, <1>5, <1>10, <2>1, SidesAgree
<1>12. Locals'
  BY <1>2, <1>3, <1>4, <1>10, <1>11 DEF Locals
<1>13. Blk' = black' \cup {p} /\ Upset' = NULL
  BY <1>2, <1>3 DEF Blk, Upset
<1>14. RemoveGoesOn' <=> p # rbh_root /\ p \in black
  <2>1. p \in Node /\ p # NULL /\ rbe_color'[p] = rbe_color[p] /\ rbe_color[p] \in {"red", "black"}
    BY <1>2, <1>3, <1>5 DEF TreeInv, TypeOK
  <2>2. IsRed(p)' <=> p \notin black
    BY <2>1 DEF IsRed, black
  <2>3. RemoveGoesOn' <=> ~IsRed(p)' /\ p # rbh_root
    BY <1>2, <1>3 DEF RemoveGoesOn, IsRed
  <2>4. QED
    BY <2>2, <2>3
<1>15. PICK S, ch, r, par, blk, blk2 : /\ S = Tree /\ r = rbh_root /\ ch = rbe_child
                                       /\ par = rbe_parent /\ blk = black /\ blk2 = Blk'
  OBVIOUS
<1>16. Colored(S, NULL, ch, par, blk2, NULL, SlotNode', SlotSide')
  <2>1. /\ Hung(S, NULL, r, ch, par) /\ p \in S /\ w \in S
        /\ d \in TwoSides /\ w = ch[p][Across(d)]
        /\ Colored(S, NULL, ch, par, blk, NULL, p, d)
        /\ w \in blk
    BY <1>2, <1>5, <1>6, <1>15, SidesAgree
  <2>2. \A e \in TwoSides : ch[w][e] \in S => ch[w][e] \in blk
    BY <1>6, <1>15, SidesAgree
  <2>3. \A m \in S : m \in blk2 <=> (m \in blk \/ m = p) /\ m # w
    BY <1>2, <1>7, <1>13, <1>15
  <2>4. PICK x, e1 : x = SlotNode' /\ e1 = SlotSide'
    OBVIOUS
  <2>5. IF p \notin blk \/ p = r THEN x = NULL /\ e1 = "left"
        ELSE x = par[p] /\ e1 \in TwoSides /\ ch[x][e1] = p
    <3>1. CASE p \notin black \/ p = rbh_root
      BY <1>14, <1>15, <2>4, <3>1 DEF SlotNode, SlotSide
    <3>2. CASE p \in black /\ p # rbh_root
      <4>1. x = q /\ e1 = e0
        BY <1>3, <1>10, <1>11, <1>14, <2>4, <3>2 DEF SlotNode, SlotSide
      <4>2. e0 \in TwoSides
        BY <1>11, SidesAgree
      <4>3. QED
        BY <1>10, <1>11, <1>15, <3>2, <4>1, <4>2
    <3>3. QED
      BY <3>1, <3>2
  <2>6. Colored(S, NULL, ch, par, blk2, NULL, x, e1)
    BY ONLY <2>1, <2>2, <2>3, <2>5, FadeColors
  <2>7. QED
    BY <2>4, <2>6
<1>17. Colors'
  BY <1>3, <1>4, <1>13, <1>15, <1>16 DEF Colors
<1>18. QED
  BY <1>4, <1>9, <1>12, <1>17 DEF TreeInv

\* The colors after the loop: s has that of p, and p and f are black.
Repainted(S, blk, blk2, p, s, f) ==
  \A m \in S : m \in blk2 <=> IF m = s THEN p \in blk ELSE m \in blk \/ m = p \/ m = f

\* The last rotation of the loop, at p: s takes the color of p, and the slot is gone.
LEMMA RemoveLastTurn ==
  ASSUME TreeInv, NEW t, Grows(t), In(t) = Tree,
         NEW p \in Tree, NEW s \in Tree, NEW f \in Tree, NEW d \in Side,
         s = t.child[p][Opposite(d)], f = t.child[s][Opposite(d)],
         NEW blk, s \in blk, f \notin blk, t.child[p][d] \in Tree => t.child[p][d] \in blk,
         Colored(Tree, NULL, t.child, t.parent, blk, NULL, p, d),
         Becomes(RB_ROTATE(t, p, d)),
         rbe_color' \in [Node -> {"red", "black"}],
         Repainted(Tree, blk, black', p, s, f),
         pc = "remove_color", pc' = pc, elm' = rbh_root', parent' = parent, tmp' = tmp
  PROVE  TreeInv' /\ List' = Walk(t.child)[t.root]
<1>1. PICK u : u = RB_ROTATE(t, p, d)
  OBVIOUS
<1>2. s # NULL /\ NULL \notin Tree /\ Tree \subseteq Node /\ Across(d) = Opposite(d) /\ d \in TwoSides
  BY SidesAgree, TreeNow
<1>3. Rotated(t, u, p, s, d)
  BY <1>1, <1>2, RotateTurns
<1>4. /\ Planted(rbh_root, rbe_child, rbe_parent)'
      /\ Tree' = Tree /\ rbe_child' = u.child /\ rbe_parent' = u.parent
      /\ List' = Walk(t.child)[t.root]
      /\ rbh_root' = u.root
  BY <1>1, <1>3, MemoryTurned
<1>5. rbh_root' \in Tree
  <2>1. Planted(rbh_root', rbe_child', rbe_parent') /\ Members(rbh_root', rbe_parent') = Tree
    BY <1>4 DEF Planted, Members, Tree
  <2>2. QED
    BY <2>1, RootThere
<1>6. OtherTypes'
  BY <1>2, <1>5, TypesApart DEF OtherTypes, NodeOrNil
<1>7. TypeOK'
  BY <1>4, <1>6, TypesTogether
<1>8. Locals'
  BY <1>4, <1>5 DEF Locals
<1>9. PICK S, par, par2, blk2 : S = Tree /\ par = t.parent /\ par2 = u.parent /\ blk2 = black'
  OBVIOUS
<1>10. Colored(S, NULL, u.child, par2, blk2, NULL, NULL, "left")
  <2>1. /\ Hung(S, NULL, t.root, t.child, par)
        /\ Turns(S, t.root, t.child, par, u.root, u.child, par2, p, s, d)
        /\ Colored(S, NULL, t.child, par, blk, NULL, p, d)
    BY <1>3, <1>9, PlantedType DEF Grows, Rotated, In
  <2>2. /\ f \in S /\ f = t.child[s][Across(d)] /\ s \in blk /\ f \notin blk
        /\ (t.child[p][d] \in S => t.child[p][d] \in blk)
        /\ \A m \in S : m \in blk2 <=> IF m = s THEN p \in blk ELSE m \in blk \/ m = p \/ m = f
    BY <1>2, <1>9 DEF Repainted
  <2>3. QED
    BY ONLY <2>1, <2>2, LastColors
<1>11. rbh_root' \in blk2
  <2>1. Hung(S, NULL, u.root, u.child, par2) /\ u.root \in S
    <3>1. Planted(u.root, u.child, u.parent) /\ Members(u.root, u.parent) = S
      BY <1>3, <1>9 DEF Rotated, Grows, In
    <3>2. QED
      BY <1>4, <1>5, <1>9, <3>1, PlantedType
  <2>2. u.root \in blk2
    BY ONLY <1>10, <2>1, ColoredRoot
  <2>3. QED
    BY <1>4, <2>2
<1>12. Upset' = NULL /\ SlotNode' = NULL /\ SlotSide' = "left" /\ \A m \in S : m \in Blk' <=> m \in blk2
  BY <1>9, <1>11 DEF Blk, Upset, SlotNode, SlotSide, RemoveGoesOn
<1>13. Colors'
  <2>1. PICK blk3 : blk3 = Blk'
    OBVIOUS
  <2>2. Colored(S, NULL, u.child, par2, blk3, NULL, NULL, "left")
    <3>1. \A m \in S : m \in blk3 <=> m \in blk2
      BY <1>12, <2>1
    <3>2. QED
      BY ONLY <1>10, <3>1, SameColors
  <2>3. QED
    BY <1>4, <1>9, <1>12, <2>1, <2>2 DEF Colors
<1>14. QED
  BY <1>4, <1>7, <1>8, <1>13 DEF TreeInv

\* A red nephew: the near one is brought up first if the far one is not red.
LEMMA RemoveRotateKeeps ==
  ASSUME TreeInv, RemoveRotate
  PROVE  TreeInv' /\ List' = List
<1>1. PICK p, d, w : p = parent /\ d = ElmSide /\ w = Sibling
  OBVIOUS
<1>2. PICK o : o = Opposite(d)
  OBVIOUS
<1>3. PICK near, far : near = Near /\ far = Far
  OBVIOUS
<1>4. /\ pc = "remove_color" /\ elm \in Tree \cup {NULL} /\ (elm \in Tree => elm \in black)
      /\ p \in Tree /\ d \in Side /\ rbe_child[p][d] = elm
      /\ w \in Tree /\ w = rbe_child[p][o] /\ w # p /\ w # elm /\ elm # p
      /\ near = rbe_child[w][d] /\ far = rbe_child[w][o]
      /\ Colored(Tree, NULL, rbe_child, rbe_parent, black, NULL, p, d)
  BY <1>1, <1>2, <1>3, RemovePlace DEF RemoveRotate, RemoveTurn
<1>5. /\ pc' = pc /\ parent' = parent /\ tmp' = tmp
      /\ ~IsRed(w) /\ (IsRed(near) \/ IsRed(far))
  BY <1>1, <1>3 DEF RemoveRotate, NephewsAreBlack
<1>6. /\ Grows(memory) /\ In(memory) = Tree
      /\ memory.root = rbh_root /\ memory.child = rbe_child /\ memory.parent = rbe_parent
      /\ Walk(memory.child)[memory.root] = List
  BY MemoryGrows
<1>7. /\ NULL \notin Tree /\ Tree \subseteq Node
      /\ Hung(Tree, NULL, rbh_root, rbe_child, rbe_parent)
      /\ \A m \in Tree, e \in Side : rbe_child[m][e] \in Tree \cup {NULL}
  BY TreeNow
<1>8. /\ o \in Side /\ o # d /\ Across(d) = o /\ Across(o) = d /\ Opposite(o) = d
      /\ d \in TwoSides /\ o \in TwoSides
  BY <1>2, <1>4, SidesAgree
<1>9. /\ near \in Tree \cup {NULL} /\ far \in Tree \cup {NULL}
      /\ \A m \in Tree \cup {NULL} : IsRed(m) <=> m \in Tree /\ m \notin black
      /\ w \in black
  <2>1. near \in Tree \cup {NULL} /\ far \in Tree \cup {NULL}
    BY <1>4, <1>7, <1>8
  <2>2. \A m \in Tree : IsRed(m) <=> m \notin black
    BY <1>7, BlackOrRed DEF NodeOrNil
  <2>3. ~IsRed(NULL)
    BY DEF IsRed
  <2>4. QED
    BY <1>4, <1>5, <1>7, <2>1, <2>2, <2>3
<1>10. rbe_color \in [Node -> {"red", "black"}] /\ UpperColor = rbe_color[p]
  BY <1>1 DEF TreeInv, TypeOK, UpperColor
<1>11. \A m \in Node : m \in black <=> rbe_color[m] = "black"
  BY DEF black
\* Around the sibling.
<1>12. /\ near # NULL => near # w /\ near # p /\ near # far /\ rbe_parent[near] = w /\ near # elm
       /\ far # NULL => far # w /\ far # p /\ rbe_parent[far] = w /\ far # elm
  <2>1. rbe_parent[w] = p
    BY <1>4, <1>7, <1>8 DEF Hung
  <2>2. elm \in Tree => rbe_parent[elm] = p
    BY <1>4, <1>7, <1>8 DEF Hung
  <2>3. /\ near # NULL => near # w /\ near # p /\ near # far /\ rbe_parent[near] = w
        /\ far # NULL => far # w /\ far # p /\ rbe_parent[far] = w
    BY <1>4, <1>7, <1>8, <2>1 DEF Hung
  <2>4. QED
    BY <1>4, <1>9, <2>2, <2>3
<1>13. CASE IsRed(far)
  <2>1. far \in Tree /\ far \notin black
    BY <1>9, <1>13
  <2>2. /\ rbe_color' = [m \in Node |->
              IF m = memory.child[p][o] THEN UpperColor
              ELSE IF m \in {p, memory.child[memory.child[p][o]][o]} THEN "black" ELSE rbe_color[m]]
        /\ Becomes(RB_ROTATE(memory, p, d))
        /\ elm' = RB_ROTATE(memory, p, d).root
    BY <1>1, <1>2, <1>3, <1>13 DEF RemoveRotate
  <2>3. /\ rbe_color' = [m \in Node |-> IF m = w THEN rbe_color[p]
                                       ELSE IF m \in {p, far} THEN "black" ELSE rbe_color[m]]
        /\ elm' = rbh_root'
    BY <1>4, <1>6, <1>10, <2>2 DEF Becomes
  <2>4. /\ rbe_color' \in [Node -> {"red", "black"}]
        /\ \A m \in Node : rbe_color'[m] = IF m = far \/ m = p THEN "black"
                                           ELSE IF m = w THEN rbe_color[p] ELSE rbe_color[m]
    BY <1>4, <1>7, <1>10, <1>12, <2>1, <2>3
  <2>5. Repainted(Tree, black, black', p, w, far)
    <3>1. black' = {m \in Node : rbe_color'[m] = "black"}
      BY DEF black
    <3>2. QED
      BY <1>4, <1>7, <1>11, <1>12, <2>1, <2>4, <3>1 DEF Repainted
  <2>6. PICK t : t = memory
    OBVIOUS
  <2>7. /\ Grows(t) /\ In(t) = Tree
        /\ w = t.child[p][Opposite(d)] /\ far = t.child[w][Opposite(d)]
        /\ (t.child[p][d] \in Tree => t.child[p][d] \in black)
        /\ Colored(Tree, NULL, t.child, t.parent, black, NULL, p, d)
        /\ Becomes(RB_ROTATE(t, p, d))
    BY <1>2, <1>4, <1>6, <2>2, <2>6
  <2>8. TreeInv' /\ List' = Walk(t.child)[t.root]
    BY <1>4, <1>5, <1>9, <2>1, <2>3, <2>4, <2>5, <2>7, RemoveLastTurn
  <2>9. QED
    BY <1>6, <2>6, <2>8
<1>14. CASE ~IsRed(far)
  <2>1. (far \in Tree => far \in black) /\ near \in Tree /\ near \notin black
    BY <1>5, <1>9, <1>14
  <2>2. PICK t, col :
          /\ t = RB_ROTATE(memory, w, o)
          /\ col = [rbe_color EXCEPT ![near] = "black", ![w] = "red"]
    OBVIOUS
  <2>3. /\ rbe_color' = [m \in Node |->
              IF m = t.child[p][o] THEN UpperColor
              ELSE IF m \in {p, t.child[t.child[p][o]][o]} THEN "black" ELSE col[m]]
        /\ Becomes(RB_ROTATE(t, p, d))
        /\ elm' = RB_ROTATE(t, p, d).root
    BY <1>1, <1>2, <1>3, <1>14, <2>2 DEF RemoveRotate
  <2>4. near # NULL /\ near = memory.child[w][Opposite(o)]
    BY <1>4, <1>6, <1>7, <1>8, <2>1
  <2>5. Rotated(memory, t, w, near, o)
    BY <1>4, <1>6, <1>8, <2>2, <2>4, RotateTurns
  <2>6. PICK S, par, par2 : S = Tree /\ par = rbe_parent /\ par2 = t.parent
    OBVIOUS
  <2>7. /\ Grows(t) /\ In(t) = Tree
        /\ Turns(S, rbh_root, rbe_child, par, t.root, t.child, par2, w, near, o)
        /\ Walk(t.child)[t.root] = List
    BY <1>6, <2>5, <2>6, RotateLists DEF Rotated
  <2>8. /\ t.child[p][o] = near /\ t.child[near][o] = w /\ t.child[p][d] = elm
    <3>1. \A m \in S, e \in TwoSides :
            t.child[m][e] = IF m = w /\ e # o THEN rbe_child[near][o]
                            ELSE IF m = near /\ e = o THEN w
                            ELSE IF rbe_child[m][e] = w THEN near ELSE rbe_child[m][e]
      BY <2>7 DEF Turns
    <3>2. QED
      BY <1>4, <1>8, <1>12, <2>1, <2>4, <2>6, <3>1
  <2>9. PICK blk : blk = (black \cup {near}) \ {w}
    OBVIOUS
  <2>10. Colored(S, NULL, t.child, par2, blk, NULL, p, d)
    <3>1. /\ Hung(S, NULL, rbh_root, rbe_child, par)
          /\ Colored(S, NULL, rbe_child, par, black, NULL, p, d)
          /\ w \in black /\ near \notin black /\ p # near /\ (p = w => d = o)
          /\ (NULL \in S => NULL = rbe_child[near][Across(o)])
          /\ (rbe_child[w][o] \in S => rbe_child[w][o] \in black)
          /\ \A m \in S : m \in blk <=> (m \in black \/ m = near) /\ m # w
      BY <1>4, <1>7, <1>9, <1>12, <2>1, <2>4, <2>6, <2>9
    <3>2. PICK ch, r, k : ch = rbe_child /\ r = rbh_root /\ k = black
      OBVIOUS
    <3>3. /\ Hung(S, NULL, r, ch, par)
          /\ Colored(S, NULL, ch, par, k, NULL, p, d)
          /\ w \in k /\ near \notin k
          /\ (NULL \in S => NULL = ch[near][Across(o)])
          /\ (ch[w][o] \in S => ch[w][o] \in k)
          /\ \A m \in S : m \in blk <=> (m \in k \/ m = near) /\ m # w
          /\ Turns(S, r, ch, par, t.root, t.child, par2, w, near, o)
      BY <2>7, <3>1, <3>2
    <3>4. p # near /\ (p = w => d = o)
      BY <3>1
    <3>5. QED
      BY ONLY <3>3, <3>4, SwapColors
  <2>11. /\ rbe_color' = [m \in Node |-> IF m = near THEN rbe_color[p]
                                        ELSE IF m \in {p, w} THEN "black" ELSE col[m]]
         /\ elm' = rbh_root'
    BY <1>10, <2>3, <2>8 DEF Becomes
  <2>12. /\ rbe_color' \in [Node -> {"red", "black"}]
         /\ \A m \in Node : rbe_color'[m] = IF m = w \/ m = p THEN "black"
                                            ELSE IF m = near THEN rbe_color[p] ELSE rbe_color[m]
    <3>1. /\ col \in [Node -> {"red", "black"}]
          /\ \A m \in Node : m # near /\ m # w => col[m] = rbe_color[m]
      BY <1>4, <1>7, <1>10, <2>1, <2>2
    <3>2. near # w /\ near # p
      BY <1>12, <2>4
    <3>3. rbe_color[p] \in {"red", "black"}
      BY <1>4, <1>7, <1>10
    <3>4. QED
      BY <2>11, <3>1, <3>2, <3>3
  <2>13. Repainted(Tree, blk, black', p, near, w)
    <3>1. black' = {m \in Node : rbe_color'[m] = "black"}
      BY DEF black
    <3>2. \A m \in Tree : m \in black' <=>
            m = w \/ m = p \/ IF m = near THEN p \in black ELSE m \in black
      BY <1>4, <1>7, <1>11, <2>12, <3>1
    <3>3. p \in blk <=> p \in black
      BY <1>4, <1>12, <2>4, <2>9
    <3>4. QED
      BY <1>4, <1>12, <2>4, <2>9, <3>2, <3>3 DEF Repainted
  <2>14. /\ near = t.child[p][Opposite(d)] /\ w = t.child[near][Opposite(d)]
         /\ (t.child[p][d] \in Tree => t.child[p][d] \in blk)
         /\ Colored(Tree, NULL, t.child, t.parent, blk, NULL, p, d)
         /\ near \in blk /\ w \notin blk
    BY <1>2, <1>4, <1>12, <2>4, <2>6, <2>8, <2>9, <2>10
  <2>15. TreeInv' /\ List' = Walk(t.child)[t.root]
    BY <1>4, <1>5, <2>1, <2>3, <2>7, <2>11, <2>12, <2>13, <2>14, RemoveLastTurn
  <2>16. QED
    BY <2>7, <2>15
<1>15. QED
  BY <1>13, <1>14

-----------------------------------------------------------------------------
(* Removals. *)

\* The successor of an element that has two children: it is below the right one, has no
\* left child, and comes next in the list.
LEMMA MinHere ==
  ASSUME TreeInv, NEW n \in Tree, rbe_child[n]["right"] # NULL, NEW m,
         m = Deepest(rbe_child[n]["right"], "left")
  PROVE  /\ m \in Tree /\ m # n /\ m # rbh_root /\ rbe_parent[n] # m
         /\ rbe_child[m]["left"] = NULL
         /\ NextTo(Node, List, n, m)
<1>1. PICK f : f = DeepestWalk(Node, rbe_child, "left", NULL, Max)[Max]
  OBVIOUS
<1>2. /\ Tree = Members(rbh_root, rbe_parent) /\ Tree \subseteq Node
      /\ Planted(rbh_root, rbe_child, rbe_parent)
      /\ Grown(Tree, NULL, rbh_root, rbe_child, rbe_parent)
  BY TreeNow DEF TreeInv, Tree
<1>3. PICK h : Shaped(rbe_child, rbe_parent, Tree, NULL, h, Max)
  BY <1>2, PlantedIsWalked
<1>4. Below(rbe_child, Tree, NULL, h) /\ \A k \in Tree : h[k] \in 1..Max
  BY <1>3 DEF Shaped
<1>5. Tree \in SUBSET Node /\ "left" \in TwoSides /\ "right" \in TwoSides
  BY <1>2, BothSides
<1>6. IsDeepest(f, rbe_child, Tree, NULL, "left")
  BY <1>1, <1>4, <1>5, MaxType, DeepestUnfolds
<1>7. PICK io : io = Walk(rbe_child)
  OBVIOUS
<1>8. /\ IsInOrder(io, rbe_child, Tree, NULL) /\ Rooted(rbe_child, rbe_parent, rbh_root, Tree, NULL)
      /\ Listed(Tree, NULL, rbh_root, rbe_child, rbe_parent, io)
  BY <1>2, <1>7, PlantedIsWalked
<1>9. EndsBelow(f, rbe_child, io, Tree, NULL, "left")
  BY <1>3, <1>5, <1>6, <1>8, MaxType, DeepestEnds
<1>10. IsOutermost(f, io, Tree, "left")
  BY <1>3, <1>5, <1>6, <1>8, MaxType, DeepestIsOutermost
<1>11. PICK c : c = rbe_child[n]["right"]
  OBVIOUS
<1>12. c \in Tree /\ m = f[c]
  <2>1. c \in Tree
    BY <1>11, TreeNow, SidesAgree
  <2>2. Deepest(c, "left") = IF c = NULL THEN NULL ELSE f[c]
    BY <1>1 DEF Deepest, Levels, DeepestWalk, DeepestTurns, DeepestTurn, Max
  <2>3. QED
    BY <1>11, <2>1, <2>2
<1>13. m \in Tree /\ m \in Nodes(io, c) /\ rbe_child[m]["left"] = NULL
  BY <1>9, <1>12 DEF EndsBelow
<1>14. Outermost(Tree, io[rbe_child[n]["right"]], "left", m)
  BY <1>10, <1>11, <1>12 DEF IsOutermost
<1>15. NextTo(Node, io[rbh_root], n, m)
  <2>1. PICK S, ch, r, par : S = Tree /\ ch = rbe_child /\ r = rbh_root /\ par = rbe_parent
    OBVIOUS
  <2>2. /\ Grown(S, NULL, r, ch, par) /\ IsInOrder(io, ch, S, NULL)
        /\ S \subseteq Node /\ n \in S /\ Outermost(S, io[ch[n]["right"]], "left", m)
    BY <1>2, <1>8, <1>14, <2>1
  <2>3. NextTo(Node, io[r], n, m)
    BY ONLY <2>2, FirstIsNext
  <2>4. QED
    BY <2>1, <2>3
<1>16. m # n /\ m # rbh_root
  <2>1. n \notin Nodes(io, c)
    BY <1>5, <1>8, <1>11 DEF Listed
  <2>2. \A k \in Tree : h[k] \in Nat /\ \A l \in Nodes(io, k) : l # k => h[l] < h[k]
    <3>1. \A k \in Tree : h[k] \in 1..Max
      BY <1>4
    <3>2. QED
      BY <1>3, <1>8, <3>1, MaxType, NodesBelow
  <2>3. c \in Nodes(io, n) /\ c # n
    <3>1. c \in Nodes(io, c)
      BY <1>8, <1>12 DEF Listed
    <3>2. QED
      BY <1>5, <1>8, <1>11, <2>1, <3>1 DEF Listed
  <2>4. n \in Nodes(io, rbh_root) /\ rbh_root \in Tree
    BY <1>2, <1>8, RootThere DEF Listed
  <2>5. h[m] =< h[c] /\ h[c] < h[n] /\ h[n] =< h[rbh_root]
    BY <1>12, <1>13, <2>2, <2>3, <2>4
  <2>6. QED
    BY <1>12, <1>13, <2>1, <2>2, <2>4, <2>5
<1>17. rbe_parent[n] # m
  <2>1. c \in Nodes(io, c) /\ m \in Nodes(io, n)
    BY <1>5, <1>8, <1>11, <1>12, <1>13 DEF Listed
  <2>2. QED
    BY <1>8, <2>1 DEF Listed
<1>18. QED
  BY <1>7, <1>13, <1>15, <1>16, <1>17 DEF List

\* The types of the fields.
FieldTypes(r, ch, par) ==
  /\ r \in NodeOrNil
  /\ ch \in [Node -> [Side -> NodeOrNil]]
  /\ par \in [Node -> NodeOrNil]

LEMMA SetTypes ==
  ASSUME NEW r, NEW ch, NEW par, FieldTypes(r, ch, par), NEW n \in Node, NEW v \in NodeOrNil,
         NEW d \in Side
  PROVE  /\ FieldTypes(r, SetChild(ch, n, d, v), SetParent(par, n, v))
         /\ \A m \in Node, e \in Side :
              SetChild(ch, n, d, v)[m][e] = IF m = n /\ e = d THEN v ELSE ch[m][e]
         /\ \A m \in Node : SetParent(par, n, v)[m] = IF m = n THEN v ELSE par[m]
<1>1. ch \in [Node -> [Side -> NodeOrNil]] /\ par \in [Node -> NodeOrNil]
  BY DEF FieldTypes
<1>2. PICK k : k = [ch[n] EXCEPT ![d] = v]
  OBVIOUS
<1>3. k \in [Side -> NodeOrNil] /\ \A e \in Side : k[e] = IF e = d THEN v ELSE ch[n][e]
  BY <1>1, <1>2
<1>4. SetChild(ch, n, d, v) = [ch EXCEPT ![n] = k]
  BY <1>2 DEF SetChild
<1>5. /\ SetChild(ch, n, d, v) \in [Node -> [Side -> NodeOrNil]]
      /\ \A m \in Node, e \in Side :
           SetChild(ch, n, d, v)[m][e] = IF m = n /\ e = d THEN v ELSE ch[m][e]
  BY <1>1, <1>3, <1>4
<1>6. /\ SetParent(par, n, v) \in [Node -> NodeOrNil]
      /\ \A m \in Node : SetParent(par, n, v)[m] = IF m = n THEN v ELSE par[m]
  BY <1>1 DEF SetParent
<1>7. QED
  BY <1>5, <1>6 DEF FieldTypes

\* The side on which Hang looks for n below q.
SideBelow(ch, q, n) == IF ch[q]["left"] = n THEN "left" ELSE "right"

\* The same where the place may be none.
LEMMA StoreTypes ==
  ASSUME NEW r, NEW ch, NEW par, FieldTypes(r, ch, par), NEW q \in NodeOrNil, NEW old,
         NEW new \in NodeOrNil
  PROVE  /\ FieldTypes(HangRoot(r, q, new), HangChild(ch, q, old, new), AdoptParent(par, q, new))
         /\ q = NULL => /\ HangRoot(r, q, new) = new /\ HangChild(ch, q, old, new) = ch
                        /\ AdoptParent(par, q, new) = par
         /\ q # NULL => HangRoot(r, q, new) = r
         /\ \A m \in Node, e \in Side :
              HangChild(ch, q, old, new)[m][e] = IF m = q /\ e = SideBelow(ch, q, old) THEN new ELSE ch[m][e]
         /\ \A m \in Node : AdoptParent(par, q, new)[m] = IF m = q THEN new ELSE par[m]
<1>1. CASE q = NULL
  BY <1>1, LibuvAssumption DEF FieldTypes, HangRoot, HangChild, AdoptParent
<1>2. CASE q # NULL
  <2>1. q \in Node
    BY <1>2 DEF NodeOrNil
  <2>2. PICK d : d = SideBelow(ch, q, old)
    OBVIOUS
  <2>3. d \in Side
    BY <2>2, SidesAgree DEF SideBelow
  <2>4. /\ HangRoot(r, q, new) = r /\ HangChild(ch, q, old, new) = SetChild(ch, q, d, new)
        /\ AdoptParent(par, q, new) = SetParent(par, q, new)
    BY <1>2, <2>2 DEF HangRoot, HangChild, AdoptParent, SideBelow
  <2>5. /\ FieldTypes(r, SetChild(ch, q, d, new), SetParent(par, q, new))
        /\ \A m \in Node, e \in Side :
             SetChild(ch, q, d, new)[m][e] = IF m = q /\ e = d THEN new ELSE ch[m][e]
        /\ \A m \in Node : SetParent(par, q, new)[m] = IF m = q THEN new ELSE par[m]
    BY <2>1, <2>3, SetTypes
  <2>6. QED
    BY <1>2, <2>2, <2>4, <2>5
<1>3. QED
  BY <1>1, <1>2

LEMMA GrownRoot ==
  ASSUME NEW S, S \subseteq Node, NEW r, NEW ch, NEW par, Grown(S, NULL, r, ch, par), NEW n \in S
  PROVE  r \in S
<1>1. Listed(S, NULL, r, ch, par, Walk(ch))
  BY GrownIsWalked
<1>2. Nodes(Walk(ch), NULL) = {} /\ Nodes(Walk(ch), r) = S
  BY <1>1 DEF Listed
<1>3. r \in S \cup {NULL}
  BY DEF Grown
<1>4. QED
  BY <1>2, <1>3

\* s has the children of n.
Copied(ch, s, n) == [ch EXCEPT ![s] = ch[n]]

\* n hangs below q on side e1 and nowhere else, or q is NULL and n is the root.
HangsAt(S, r, ch, n, q, e1) ==
  /\ n = r <=> q = NULL
  /\ q # NULL => q \in S /\ q # n /\ ch[q][e1] = n
  /\ e1 \in Side
  /\ \A m \in S, e \in Side : ch[m][e] = n <=> m = q /\ e = e1

LEMMA HangsWhere ==
  ASSUME NEW S, S \subseteq Node, NEW r, NEW ch, NEW par, Hung(S, NULL, r, ch, par),
         NEW n \in S, NEW q, q = par[n], NEW e1, e1 = SideBelow(ch, q, n)
  PROVE  HangsAt(S, r, ch, n, q, e1)
<1>1. NULL \notin S /\ r \in S \cup {NULL} /\ (r # NULL => par[r] = NULL)
  BY DEF Hung
<1>2. IF q = NULL THEN n = r ELSE q \in S /\ \E d \in TwoSides : ch[q][d] = n
  BY DEF Hung
<1>3. q # n
  BY DEF Hung
<1>4. e1 \in Side /\ (q # NULL => ch[q][e1] = n)
  BY <1>2, SidesAgree DEF SideBelow
<1>5. ASSUME NEW m \in S, NEW e \in Side, ch[m][e] = n PROVE m = q /\ e = e1
  <2>1. n # NULL /\ e \in TwoSides
    BY <1>1, SidesAgree
  <2>2. m = q /\ ch[m][e] # ch[m][Across(e)]
    BY <1>5, <2>1 DEF Hung
  <2>3. e = e1
    BY <1>5, <2>2, SidesAgree DEF SideBelow
  <2>4. QED
    BY <2>2, <2>3
<1>6. QED
  BY <1>1, <1>2, <1>3, <1>4, <1>5 DEF HangsAt

\* n is cut out of the memory, and c hangs below p on side e1 in its place.
CutOut(S, r, ch, par, n, c, d, p, e1, r1, ch1, par1) ==
  /\ FieldTypes(r1, ch1, par1)
  /\ Cuts(S, NULL, r, ch, par, r1, ch1, par1, n, c, d)
  /\ \A m \in Node \ S : ch1[m] = ch[m] /\ par1[m] = par[m]
  /\ par1[n] = p /\ c \in (S \ {n}) \cup {NULL}
  /\ c = r1 <=> n = r
  /\ e1 \in Side /\ (n # r => p \in S \ {n} /\ ch[p][e1] = n /\ ch1[p][e1] = c)

\* Adopt and Hang, where an element n has one child c at most, cut n out.
LEMMA StoresCut ==
  ASSUME NEW S, S \subseteq Node, NEW r, NEW ch, NEW par, FieldTypes(r, ch, par),
         Grown(S, NULL, r, ch, par), NEW n \in S, NEW d \in Side, ch[n][Opposite(d)] = NULL,
         NEW c, c = ch[n][d], NEW p, p = par[n], NEW r1, r1 = HangRoot(r, p, c),
         NEW ch1, ch1 = HangChild(ch, p, n, c), NEW par1, par1 = AdoptParent(par, c, p),
         NEW e1, e1 = SideBelow(ch, p, n)
  PROVE  CutOut(S, r, ch, par, n, c, d, p, e1, r1, ch1, par1)
<1>1. Hung(S, NULL, r, ch, par)
  BY GrownIsHung
<1>2. /\ n = r <=> p = NULL
      /\ p # NULL => p \in S /\ p # n /\ ch[p][e1] = n
      /\ e1 \in Side
      /\ \A m \in S, e \in Side : ch[m][e] = n <=> m = p /\ e = e1
  <2>1. S \subseteq Node /\ n \in S /\ p = par[n] /\ e1 = SideBelow(ch, p, n)
    OBVIOUS
  <2>2. HangsAt(S, r, ch, n, p, e1)
    BY ONLY <1>1, <2>1, HangsWhere
  <2>3. QED
    BY <2>2 DEF HangsAt
<1>3. /\ c \in S \cup {NULL} /\ c # n /\ (c # NULL => par[c] = n /\ c # p /\ c # r)
      /\ r \in S \cup {NULL} /\ NULL \notin S
  BY <1>1, SidesAgree DEF Hung
<1>4. c \in NodeOrNil /\ p \in NodeOrNil
  BY <1>2, <1>3 DEF NodeOrNil
<1>5. /\ FieldTypes(r1, ch1, par) /\ FieldTypes(r1, ch1, par1)
      /\ p = NULL => r1 = c /\ ch1 = ch
      /\ p # NULL => r1 = r
      /\ \A m \in Node, e \in Side :
           ch1[m][e] = IF m = p /\ e = SideBelow(ch, p, n) THEN c ELSE ch[m][e]
      /\ \A m \in Node : par1[m] = IF m = c THEN p ELSE par[m]
  <2>1. /\ FieldTypes(HangRoot(r, p, c), HangChild(ch, p, n, c), AdoptParent(par, p, c))
        /\ p = NULL => HangRoot(r, p, c) = c /\ HangChild(ch, p, n, c) = ch
        /\ p # NULL => HangRoot(r, p, c) = r
        /\ \A m \in Node, e \in Side :
             HangChild(ch, p, n, c)[m][e]
               = IF m = p /\ e = SideBelow(ch, p, n) THEN c ELSE ch[m][e]
    BY <1>4, StoreTypes
  <2>2. /\ FieldTypes(HangRoot(r, c, p), HangChild(ch, c, n, p), AdoptParent(par, c, p))
        /\ \A m \in Node : AdoptParent(par, c, p)[m] = IF m = c THEN p ELSE par[m]
    BY <1>4, StoreTypes
  <2>3. QED
    BY <2>1, <2>2 DEF FieldTypes
<1>6. \A m \in Node, e \in Side : ch1[m][e] = IF m = p /\ e = e1 THEN c ELSE ch[m][e]
  BY <1>5
<1>7. Cuts(S, NULL, r, ch, par, r1, ch1, par1, n, c, d)
  <2>1. n \in S /\ d \in TwoSides /\ ch[n][Across(d)] = NULL /\ c = ch[n][d]
    BY SidesAgree
  <2>2. r1 = IF r = n THEN c ELSE r
    BY <1>2, <1>5
  <2>3. \A m \in S \ {n}, e \in TwoSides : ch1[m][e] = IF ch[m][e] = n THEN c ELSE ch[m][e]
    BY <1>2, <1>6, SidesAgree
  <2>4. \A m \in S \ {n} : par1[m] = IF m = c THEN par[n] ELSE par[m]
    BY <1>5
  <2>5. QED
    BY ONLY <2>1, <2>2, <2>3, <2>4 DEF Cuts
<1>8. \A m \in Node \ S : ch1[m] = ch[m] /\ par1[m] = par[m]
  <2>1. SUFFICES ASSUME NEW m \in Node \ S PROVE ch1[m] = ch[m] /\ par1[m] = par[m]
    OBVIOUS
  <2>2. ch1[m] \in [Side -> NodeOrNil] /\ ch[m] \in [Side -> NodeOrNil]
    BY <1>5 DEF FieldTypes
  <2>3. m # p /\ m # c
    BY <1>2, <1>3, LibuvAssumption
  <2>4. \A e \in Side : ch1[m][e] = ch[m][e]
    BY <1>6, <2>3
  <2>5. ch1[m] = ch[m]
    BY <2>2, <2>4
  <2>6. QED
    BY <1>5, <2>3, <2>5
<1>9. par1[n] = p
  BY <1>3, <1>5
<1>10. c = r1 <=> n = r
  <2>1. r \in S
    BY GrownRoot
  <2>2. QED
    BY <1>2, <1>3, <1>5, <2>1
<1>11. n # r => p \in S \ {n} /\ ch[p][e1] = n /\ ch1[p][e1] = c
  BY <1>2, <1>6
<1>12. QED
  BY <1>2, <1>3, <1>5, <1>7, <1>8, <1>9, <1>10, <1>11 DEF CutOut

\* s has taken the place of n in the memory.
TakenIn(S, r, ch, par, n, s, r2, ch2, par2) ==
  /\ FieldTypes(r2, ch2, par2)
  /\ Takes(S, NULL, r, ch, par, r2, ch2, par2, n, s)
  /\ \A m \in Node \ (S \cup {s}) : ch2[m] = ch[m] /\ par2[m] = par[m]

\* The stores by which s, which is not in the tree, takes the place of n.
LEMMA StoresTake ==
  ASSUME NEW S, S \subseteq Node, NEW r, NEW ch, NEW par, FieldTypes(r, ch, par),
         Grown(S, NULL, r, ch, par), NEW n \in S, NEW s \in Node \ S, NEW q, q = par[n],
         NEW ch1, ch1 = Copied(ch, s, n), NEW par1, par1 = SetParent(par, s, q),
         NEW r2, r2 = HangRoot(r, q, s), NEW ch2, ch2 = HangChild(ch1, q, n, s),
         NEW par2, par2 = AdoptParent(AdoptParent(par1, ch[n]["left"], s), ch[n]["right"], s)
  PROVE  TakenIn(S, r, ch, par, n, s, r2, ch2, par2)
<1>1. Hung(S, NULL, r, ch, par)
  BY GrownIsHung
<1>2. PICK e1 : e1 = SideBelow(ch, q, n)
  OBVIOUS
<1>3. /\ n = r <=> q = NULL
      /\ q # NULL => q \in S /\ q # n /\ ch[q][e1] = n
      /\ e1 \in Side
      /\ \A m \in S, e \in Side : ch[m][e] = n <=> m = q /\ e = e1
  <2>1. S \subseteq Node /\ n \in S /\ q = par[n]
    OBVIOUS
  <2>2. HangsAt(S, r, ch, n, q, e1)
    BY ONLY <1>1, <1>2, <2>1, HangsWhere
  <2>3. QED
    BY <2>2 DEF HangsAt
<1>4. PICK a, b : a = ch[n]["left"] /\ b = ch[n]["right"]
  OBVIOUS
<1>5. /\ NULL \notin S /\ r \in S \cup {NULL} /\ a \in S \cup {NULL} /\ b \in S \cup {NULL}
      /\ \A m \in S : par[m] = n <=> m = a \/ m = b
  <2>1. NULL \notin S /\ r \in S \cup {NULL} /\ a \in S \cup {NULL} /\ b \in S \cup {NULL}
    BY <1>1, <1>4, BothSides DEF Hung
  <2>2. ASSUME NEW m \in S, par[m] = n PROVE m = a \/ m = b
    <3>1. n # NULL
      BY <2>1
    <3>2. \E d \in TwoSides : ch[n][d] = m
      BY <1>1, <2>2, <3>1 DEF Hung
    <3>3. QED
      BY <1>4, <3>2, SidesAgree
  <2>3. ASSUME NEW m \in S, m = a \/ m = b PROVE par[m] = n
    BY <1>1, <1>4, <2>1, <2>3, BothSides DEF Hung
  <2>4. QED
    BY <2>1, <2>2, <2>3
<1>6. q \in NodeOrNil /\ s \in NodeOrNil /\ a \in NodeOrNil /\ b \in NodeOrNil
  BY <1>3, <1>5 DEF NodeOrNil
<1>7. /\ FieldTypes(r, ch1, par) /\ ch1[s] = ch[n] /\ \A m \in Node \ {s} : ch1[m] = ch[m]
  BY DEF FieldTypes, Copied
<1>8. /\ FieldTypes(r, ch, par1) /\ FieldTypes(r, ch1, par1)
      /\ \A m \in Node : par1[m] = IF m = s THEN q ELSE par[m]
  <2>1. "left" \in Side
    BY SidesAgree
  <2>2. /\ FieldTypes(r, SetChild(ch, s, "left", q), SetParent(par, s, q))
        /\ \A m \in Node : SetParent(par, s, q)[m] = IF m = s THEN q ELSE par[m]
    <3>1. FieldTypes(r, ch, par) /\ s \in Node
      OBVIOUS
    <3>2. QED
      BY ONLY <1>6, <2>1, <3>1, SetTypes
  <2>3. QED
    BY <1>7, <2>2 DEF FieldTypes
<1>9. /\ FieldTypes(r2, ch2, par1)
      /\ q = NULL => r2 = s /\ ch2 = ch1
      /\ q # NULL => r2 = r
      /\ \A m \in Node, e \in Side :
           ch2[m][e] = IF m = q /\ e = SideBelow(ch1, q, n)
                       THEN s ELSE ch1[m][e]
  <2>1. /\ FieldTypes(HangRoot(r, q, s), HangChild(ch1, q, n, s), AdoptParent(par1, q, s))
        /\ q = NULL => HangRoot(r, q, s) = s /\ HangChild(ch1, q, n, s) = ch1
        /\ q # NULL => HangRoot(r, q, s) = r
        /\ \A m \in Node, e \in Side :
             HangChild(ch1, q, n, s)[m][e]
               = IF m = q /\ e = SideBelow(ch1, q, n)
                 THEN s ELSE ch1[m][e]
    BY <1>6, <1>8, StoreTypes
  <2>2. QED
    BY <1>8, <2>1 DEF FieldTypes
<1>10. \A m \in Node, e \in Side : ch2[m][e] = IF m = q /\ e = e1 THEN s ELSE ch1[m][e]
  <2>1. q # NULL => ch1[q] = ch[q] /\ q \in Node
    BY <1>3, <1>7
  <2>2. QED
    BY <1>2, <1>9, <2>1, LibuvAssumption DEF SideBelow
<1>11. PICK parm : parm = AdoptParent(par1, a, s)
  OBVIOUS
<1>12. FieldTypes(r, ch, parm) /\ \A m \in Node : parm[m] = IF m = a THEN s ELSE par1[m]
  <2>1. /\ FieldTypes(HangRoot(r, a, s), HangChild(ch, a, n, s), AdoptParent(par1, a, s))
        /\ \A m \in Node : AdoptParent(par1, a, s)[m] = IF m = a THEN s ELSE par1[m]
    BY <1>6, <1>8, StoreTypes
  <2>2. QED
    BY <1>11, <2>1 DEF FieldTypes
<1>13. FieldTypes(r, ch, par2) /\ \A m \in Node : par2[m] = IF m = b THEN s ELSE parm[m]
  <2>1. /\ FieldTypes(HangRoot(r, b, s), HangChild(ch, b, n, s), AdoptParent(parm, b, s))
        /\ \A m \in Node : AdoptParent(parm, b, s)[m] = IF m = b THEN s ELSE parm[m]
    BY ONLY <1>6, <1>12, StoreTypes
  <2>2. par2 = AdoptParent(parm, b, s)
    BY <1>4, <1>11
  <2>3. QED
    BY <2>1, <2>2 DEF FieldTypes
<1>14. FieldTypes(r2, ch2, par2)
  BY <1>9, <1>13 DEF FieldTypes
<1>15. \A m \in Node : par2[m] = IF m = a \/ m = b THEN s ELSE IF m = s THEN q ELSE par[m]
  BY <1>8, <1>12, <1>13
<1>16. Takes(S, NULL, r, ch, par, r2, ch2, par2, n, s)
  <2>1. n \in S /\ s \notin S /\ s # NULL
    BY LibuvAssumption
  <2>2. r2 = IF r = n THEN s ELSE r
    BY <1>3, <1>9
  <2>3. \A e \in TwoSides : ch2[s][e] = ch[n][e]
    <3>1. s # q
      BY <1>3, LibuvAssumption
    <3>2. QED
      BY <1>7, <1>10, <3>1, SidesAgree
  <2>4. \A m \in S \ {n}, e \in TwoSides : ch2[m][e] = IF ch[m][e] = n THEN s ELSE ch[m][e]
    BY <1>3, <1>7, <1>10, SidesAgree
  <2>5. par2[s] = par[n]
    BY <1>5, <1>15, LibuvAssumption
  <2>6. \A m \in S \ {n} : par2[m] = IF par[m] = n THEN s ELSE par[m]
    BY <1>5, <1>15
  <2>7. QED
    BY ONLY <2>1, <2>2, <2>3, <2>4, <2>5, <2>6 DEF Takes
<1>17. \A m \in Node \ (S \cup {s}) : ch2[m] = ch[m] /\ par2[m] = par[m]
  <2>1. SUFFICES ASSUME NEW m \in Node \ (S \cup {s}) PROVE ch2[m] = ch[m] /\ par2[m] = par[m]
    OBVIOUS
  <2>2. ch2[m] \in [Side -> NodeOrNil] /\ ch[m] \in [Side -> NodeOrNil]
    BY <1>14 DEF FieldTypes
  <2>3. m # q /\ m # a /\ m # b /\ m # s
    BY <1>3, <1>5, LibuvAssumption
  <2>4. \A e \in Side : ch2[m][e] = ch[m][e]
    BY <1>7, <1>10, <2>3
  <2>5. ch2[m] = ch[m]
    BY <2>2, <2>4
  <2>6. QED
    BY <1>15, <2>3, <2>5
<1>18. QED
  BY <1>14, <1>16, <1>17 DEF TakenIn

\* What Forget leaves: n is out of the way.
LEMMA Forgotten ==
  ASSUME NEW n \in Node, NEW r1, NEW ch1, NEW par1, FieldTypes(r1, ch1, par1),
         NEW col, col \in [Node -> {"red", "black"}], Forget(Memory(r1, ch1, par1), n, col)
  PROVE  /\ rbh_root' = r1
         /\ FieldTypes(rbh_root', rbe_child', rbe_parent')
         /\ rbe_color' \in [Node -> {"red", "black"}]
         /\ \A m \in Node \ {n} : /\ rbe_child'[m] = ch1[m] /\ rbe_parent'[m] = par1[m]
                                  /\ rbe_color'[m] = col[m]
         /\ rbe_parent'[n] = NULL
<1>1. ch1 \in [Node -> [Side -> NodeOrNil]] /\ par1 \in [Node -> NodeOrNil] /\ r1 \in NodeOrNil
  BY DEF FieldTypes
<1>2. /\ rbh_root' = r1
      /\ rbe_child' = [ch1 EXCEPT ![n] = Leaf]
      /\ rbe_parent' = [par1 EXCEPT ![n] = NULL]
      /\ rbe_color' = [col EXCEPT ![n] = "black"]
  BY DEF Forget, Becomes, Memory
<1>3. Leaf \in [Side -> NodeOrNil] /\ NULL \in NodeOrNil
  BY DEF Leaf, NodeOrNil
<1>4. /\ rbe_child' \in [Node -> [Side -> NodeOrNil]]
      /\ \A m \in Node \ {n} : rbe_child'[m] = ch1[m]
  BY <1>1, <1>2, <1>3
<1>5. /\ rbe_parent' \in [Node -> NodeOrNil] /\ rbe_parent'[n] = NULL
      /\ \A m \in Node \ {n} : rbe_parent'[m] = par1[m]
  BY <1>1, <1>2, <1>3
<1>6. /\ rbe_color' \in [Node -> {"red", "black"}]
      /\ \A m \in Node \ {n} : rbe_color'[m] = col[m]
  BY <1>2
<1>7. QED
  BY <1>1, <1>2, <1>4, <1>5, <1>6 DEF FieldTypes

\* The tree is planted without n.
LEMMA RemovePlants ==
  ASSUME TreeInv, NEW n \in Tree, FieldTypes(rbh_root', rbe_child', rbe_parent'),
         Grown(Tree \ {n}, NULL, rbh_root', rbe_child', rbe_parent'),
         \A m \in Node : m \notin Tree \ {n} => rbe_parent'[m] = NULL
  PROVE  Planted(rbh_root, rbe_child, rbe_parent)' /\ Tree' = Tree \ {n}
<1>1. PICK S, r2, par2 : S = Tree \ {n} /\ r2 = rbh_root' /\ par2 = rbe_parent'
  OBVIOUS
<1>2. S \subseteq Node /\ NULL \notin Node
  BY <1>1, TreeNow
<1>3. r2 \in S \cup {NULL} /\ \A m \in S : par2[m] = NULL => m = r2
  BY <1>1 DEF Grown
<1>4. Members(r2, par2) = S
  BY <1>1, <1>2, <1>3 DEF Members
<1>5. Planted(rbh_root', rbe_child', rbe_parent')
  BY <1>1, <1>4 DEF Planted, FieldTypes
<1>6. QED
  BY <1>1, <1>4, <1>5 DEF Planted, Tree, Members

\* Lists over a part of the elements are lists over all of them.
LEMMA RemovesWider ==
  ASSUME NEW S, NEW D, S \subseteq D, NEW s, NEW s2, NEW n, Removes(S, s, s2, n)
  PROVE  Removes(D, s, s2, n)
<1>1. Seq(S) \subseteq Seq(D)
  OBVIOUS
<1>2. QED
  BY <1>1 DEF Removes

LEMMA TradesWider ==
  ASSUME NEW S, NEW D, S \subseteq D, NEW s, NEW s2, NEW old, NEW new, Trades(S, s, s2, old, new)
  PROVE  Trades(D, s, s2, old, new)
<1>1. Seq(S) \subseteq Seq(D)
  OBVIOUS
<1>2. QED
  BY <1>1 DEF Trades

\* Where the removal of a black element leaves a black one to count, beside those of the
\* tree, when c came up below x on side e1: done if there is none.
RepairSlot(S, r, blk, color, c, x, e1, done, blk2, x1, e2) ==
  /\ done = (color = "red" \/ c = r \/ (c \in S /\ c \notin blk))
  /\ blk2 = blk \cup (IF color = "black" THEN {c} ELSE {})
  /\ x1 = (IF done THEN NULL ELSE x)
  /\ e2 = (IF done THEN "left" ELSE e1)

\* Where elm is after RB_REMOVE: below x on side e1, or the root.
LEMMA RepairKeeps ==
  ASSUME TreeInv, pc = "idle", NEW color \in {"red", "black"}, NEW x \in NodeOrNil, NEW c,
         Repair(color, x, c), Planted(rbh_root, rbe_child, rbe_parent)', NEW S, Tree' = S,
         rbe_color' \in [Node -> {"red", "black"}], c \in S \cup {NULL}, NEW e1 \in Side,
         c # rbh_root' => x \in S /\ rbe_child'[x][e1] = c,
         NEW done, NEW blk2, NEW x1, NEW e2,
         RepairSlot(S, rbh_root', black', color, c, x, e1, done, blk2, x1, e2),
         Colored(S, NULL, rbe_child', rbe_parent', blk2, NULL, x1, e2)
  PROVE  TreeInv'
<1>1. /\ pc' = (IF color = "black" THEN "remove_color" ELSE "idle")
      /\ elm' = (IF color = "black" THEN c ELSE NULL)
      /\ parent' = (IF color = "black" THEN x ELSE NULL)
      /\ tmp' = tmp
  BY DEF Repair
<1> /\ done <=> color = "red" \/ c = rbh_root' \/ (c \in S /\ c \notin black')
    /\ blk2 = black' \cup (IF color = "black" THEN {c} ELSE {})
    /\ x1 = (IF done THEN NULL ELSE x)
    /\ e2 = (IF done THEN "left" ELSE e1)
  BY DEF RepairSlot
<1>2. PICK r2, ch2, par2 : r2 = rbh_root' /\ ch2 = rbe_child' /\ par2 = rbe_parent'
  OBVIOUS
<1>3. /\ S \subseteq Node /\ NULL \notin S /\ NULL \notin Node
      /\ Hung(S, NULL, r2, ch2, par2)
      /\ \A m \in S, e \in Side : ch2[m][e] \in S \cup {NULL}
  <2>1. Planted(r2, ch2, par2) /\ Members(r2, par2) = S
    BY <1>2 DEF Planted, Members, Tree
  <2>2. QED
    BY <2>1, PlantedType, LibuvAssumption
<1>4. c \in NodeOrNil
  BY <1>3 DEF NodeOrNil
<1>5. OtherTypes'
  BY <1>1, <1>4, TypesApart DEF OtherTypes, NodeOrNil
<1>6. TypeOK'
  BY <1>5, TypesTogether
<1>7. CASE color = "red"
  <2>1. pc' = "idle"
    BY <1>1, <1>7
  <2>2. Locals'
    BY <2>1 DEF Locals
  <2>3. Blk' = blk2 /\ Upset' = NULL /\ SlotNode' = x1 /\ SlotSide' = e2
    BY <1>7, <2>1 DEF Blk, Upset, SlotNode, SlotSide, RemoveGoesOn
  <2>4. Colors'
    BY <2>3 DEF Colors
  <2>5. QED
    BY <1>6, <2>2, <2>4 DEF TreeInv
<1>8. CASE color = "black"
  <2>1. pc' = "remove_color" /\ elm' = c /\ parent' = x
    BY <1>1, <1>8
  <2>2. RemoveGoesOn' <=> ~done
    <3>1. IsRed(c)' <=> c # NULL /\ rbe_color'[c] = "red"
      BY DEF IsRed
    <3>2. c \in S => (c \in black' <=> rbe_color'[c] # "red")
      BY <1>3 DEF black
    <3>3. IsRed(elm)' <=> IsRed(c)'
      BY <2>1 DEF IsRed
    <3>4. IsRed(c)' <=> c \in S /\ c \notin black'
      BY <1>3, <3>1, <3>2
    <3>5. RemoveGoesOn' <=> ~IsRed(c)' /\ c # rbh_root'
      BY <2>1, <3>3 DEF RemoveGoesOn
    <3>6. QED
      BY <1>8, <3>4, <3>5
  <2>3. c # rbh_root' => ch2[x][e1] # ch2[x][Opposite(e1)]
    <3>1. SUFFICES ASSUME c # rbh_root' PROVE ch2[x][e1] # ch2[x][Opposite(e1)]
      OBVIOUS
    <3>2. x \in S /\ ch2[x][e1] = c /\ e1 \in TwoSides /\ Across(e1) = Opposite(e1)
      BY <1>2, <3>1, SidesAgree
    <3>3. CASE c \in S
      BY <1>3, <3>2, <3>3 DEF Hung
    <3>4. CASE c = NULL
      <4>1. x1 = x /\ e2 = e1
        BY <1>3, <1>8, <3>1, <3>4
      <4>2. /\ \A e \in TwoSides : ch2[x][e] \in S \cup {NULL}
            /\ Colored(S, NULL, ch2, par2, blk2, NULL, x, e1)
        BY <1>2, <1>3, <3>2, <4>1, SidesAgree
      <4>3. ch2[x][e1] # ch2[x][Across(e1)]
        BY ONLY <3>2, <4>2, SlotApart
      <4>4. QED
        BY <3>2, <4>3
    <3>5. QED
      BY <3>3, <3>4
  <2>4. c # rbh_root' => ElmSide' = e1
    <3>1. ElmSide' = IF ch2[x]["left"] = c THEN "left" ELSE "right"
      BY <1>2, <2>1 DEF ElmSide
    <3>2. QED
      BY <1>2, <2>3, <3>1, SidesAgree
  <2>5. Locals'
    BY <2>1, <2>4 DEF Locals
  <2>6. Blk' = blk2 /\ Upset' = NULL
    BY <1>8, <2>1 DEF Blk, Upset
  <2>7. SlotNode' = x1 /\ SlotSide' = e2
    BY <2>1, <2>2, <2>4 DEF SlotNode, SlotSide
  <2>8. Colors'
    BY <2>6, <2>7 DEF Colors
  <2>9. QED
    BY <1>6, <2>5, <2>8 DEF TreeInv
<1>9. QED
  BY <1>7, <1>8

\* The functions after the step agree on S with those of a cut.
LEMMA CutAgrees ==
  ASSUME NEW S, NEW r, NEW ch, NEW par, NEW n, NEW c, NEW d, NEW r1, NEW ch1, NEW par1,
         Cuts(S, NULL, r, ch, par, r1, ch1, par1, n, c, d), NEW ch2, NEW par2,
         \A m \in S \ {n} : ch2[m] = ch1[m] /\ par2[m] = par1[m]
  PROVE  Cuts(S, NULL, r, ch, par, r1, ch2, par2, n, c, d)
BY DEF Cuts

LEMMA TakeAgrees ==
  ASSUME NEW S, NEW r, NEW ch, NEW par, NEW n, NEW s, NEW r1, NEW ch1, NEW par1, n # s,
         Takes(S, NULL, r, ch, par, r1, ch1, par1, n, s), NEW ch2, NEW par2,
         \A m \in (S \cup {s}) \ {n} : ch2[m] = ch1[m] /\ par2[m] = par1[m]
  PROVE  Takes(S, NULL, r, ch, par, r1, ch2, par2, n, s)
BY DEF Takes

\* What the stores of RemoveOuter make of the memory.
LEMMA OuterMemory ==
  ASSUME NEW r, NEW ch, NEW par, NEW n, NEW c, NEW p
  PROVE  Hang(Adopt(Memory(r, ch, par), c, p), p, n, c)
           = Memory(HangRoot(r, p, c), HangChild(ch, p, n, c), AdoptParent(par, c, p))
BY AdoptFields, HangFields

\* An element that has at most one child leaves its place to it.
LEMMA RemoveOuterKeeps ==
  ASSUME TreeInv, NEW n \in Tree, RemoveOuter(n)
  PROVE  TreeInv' /\ Removes(Node, List, List', n)
<1>1. PICK d : d = (IF rbe_child[n]["left"] = NULL THEN "right" ELSE "left")
  OBVIOUS
<1>2. PICK S, r, ch, par, c, p, e1 :
        /\ S = Tree /\ r = rbh_root /\ ch = rbe_child /\ par = rbe_parent
        /\ c = ch[n][d] /\ p = par[n] /\ e1 = SideBelow(ch, p, n)
  OBVIOUS
<1>3. PICK r1, ch1, par1 : /\ r1 = HangRoot(r, p, c) /\ ch1 = HangChild(ch, p, n, c)
                           /\ par1 = AdoptParent(par, c, p)
  OBVIOUS
<1>4. /\ pc = "idle"
      /\ Forget(Memory(r1, ch1, par1), n, rbe_color)
      /\ Repair(rbe_color[n], p, c)
  <2>1. /\ pc = "idle"
        /\ Forget(Hang(Adopt(memory, c, p), p, n, c), n, rbe_color)
        /\ Repair(rbe_color[n], p, c)
    BY <1>1, <1>2 DEF RemoveOuter
  <2>2. memory = Memory(r, ch, par)
    BY <1>2 DEF memory, Memory
  <2>3. QED
    BY <1>3, <2>1, <2>2, OuterMemory
<1>5. d \in Side /\ ch[n][Opposite(d)] = NULL
  <2>1. rbe_child[n]["left"] = NULL \/ rbe_child[n]["right"] = NULL
    BY SidesAgree DEF RemoveOuter
  <2>2. QED
    BY <1>1, <1>2, <2>1, SidesAgree DEF Opposite
<1>6. /\ S \subseteq Node /\ NULL \notin S /\ FieldTypes(r, ch, par)
      /\ Grown(S, NULL, r, ch, par) /\ Hung(S, NULL, r, ch, par) /\ n \in S /\ n \in Node
      /\ \A m \in Node \ S : par[m] = NULL
  <2>1. \A m \in Node \ S : par[m] = NULL
    BY <1>2 DEF Tree, Members
  <2>2. QED
    BY <1>2, <2>1, TreeNow DEF TreeInv, TypeOK, FieldTypes
<1>7. /\ FieldTypes(r1, ch1, par1)
      /\ Cuts(S, NULL, r, ch, par, r1, ch1, par1, n, c, d)
      /\ \A m \in Node \ S : ch1[m] = ch[m] /\ par1[m] = par[m]
      /\ par1[n] = p /\ c \in (S \ {n}) \cup {NULL}
      /\ c = r1 <=> n = r
      /\ e1 \in Side /\ (n # r => p \in S \ {n} /\ ch[p][e1] = n /\ ch1[p][e1] = c)
  <2>1. c = ch[n][d] /\ p = par[n] /\ e1 = SideBelow(ch, p, n)
    BY <1>2
  <2>2. CutOut(S, r, ch, par, n, c, d, p, e1, r1, ch1, par1)
    BY ONLY <1>3, <1>5, <1>6, <2>1, StoresCut
  <2>3. QED
    BY <2>2 DEF CutOut
<1>8. rbe_color \in [Node -> {"red", "black"}]
  BY DEF TreeInv, TypeOK
<1>9. /\ rbh_root' = r1
      /\ FieldTypes(rbh_root', rbe_child', rbe_parent')
      /\ rbe_color' \in [Node -> {"red", "black"}]
      /\ \A m \in Node \ {n} : /\ rbe_child'[m] = ch1[m] /\ rbe_parent'[m] = par1[m]
                               /\ rbe_color'[m] = rbe_color[m]
      /\ rbe_parent'[n] = NULL
  BY ONLY <1>4, <1>6, <1>7, <1>8, Forgotten
<1>10. PICK ch2, par2 : ch2 = rbe_child' /\ par2 = rbe_parent'
  OBVIOUS
<1>11. Cuts(S, NULL, r, ch, par, r1, ch2, par2, n, c, d)
  <2>1. \A m \in S \ {n} : ch2[m] = ch1[m] /\ par2[m] = par1[m]
    BY <1>6, <1>9, <1>10
  <2>2. QED
    BY ONLY <1>7, <2>1, CutAgrees
<1>12. Grown(S \ {n}, NULL, r1, ch2, par2)
  BY ONLY <1>6, <1>11, CutGrows
<1>13. Planted(rbh_root, rbe_child, rbe_parent)' /\ Tree' = S \ {n}
  <2>1. \A m \in Node : m \notin Tree \ {n} => rbe_parent'[m] = NULL
    BY <1>2, <1>6, <1>7, <1>9
  <2>2. Grown(Tree \ {n}, NULL, rbh_root', rbe_child', rbe_parent')
    BY <1>2, <1>9, <1>10, <1>12
  <2>3. QED
    BY <1>2, <1>9, <2>1, <2>2, RemovePlants
<1>14. Removes(Node, List, List', n)
  <2>1. PICK io, io2, t, t2 : io = Walk(ch) /\ io2 = Walk(ch2) /\ t = io[r] /\ t2 = io2[r1]
    OBVIOUS
  <2>2. IsInOrder(io, ch, S, NULL) /\ IsInOrder(io2, ch2, S \ {n}, NULL)
    <3>1. S \ {n} \subseteq Node
      BY <1>6
    <3>2. IsInOrder(io2, ch2, S \ {n}, NULL)
      BY ONLY <1>12, <2>1, <3>1, GrownIsWalked
    <3>3. IsInOrder(io, ch, S, NULL)
      BY ONLY <1>6, <2>1, GrownIsWalked
    <3>4. QED
      BY <3>2, <3>3
  <2>3. Removes(S, io[r], io2[r1], n)
    BY ONLY <1>6, <1>11, <2>2, CutLists
  <2>4. Removes(Node, t, t2, n)
    BY <1>6, <2>1, <2>3, RemovesWider
  <2>5. t = List /\ t2 = List'
    BY <1>2, <1>9, <1>10, <2>1 DEF List, Walk
  <2>6. QED
    BY <2>4, <2>5
<1>15. PICK color, blk, blk2, done, x1, e2 :
         /\ color = rbe_color[n] /\ blk = black
         /\ blk2 = black' \cup (IF color = "black" THEN {c} ELSE {})
         /\ done = (color = "red" \/ c = rbh_root' \/ (c \in S \ {n} /\ c \notin black'))
         /\ x1 = (IF done THEN NULL ELSE p)
         /\ e2 = (IF done THEN "left" ELSE e1)
  OBVIOUS
<1>16. color \in {"red", "black"} /\ done \in BOOLEAN /\ (color = "red" <=> n \notin blk)
  BY <1>6, <1>8, <1>15 DEF black
<1>17. \A m \in S \ {n} : m \in black' <=> m \in blk
  BY <1>6, <1>9, <1>15 DEF black
<1>18. Colored(S \ {n}, NULL, ch2, par2, blk2, NULL, x1, e2)
  <2>1. Colored(S, NULL, ch, par, blk, NULL, NULL, "left")
    <3>1. Blk = black /\ Upset = NULL /\ SlotNode = NULL /\ SlotSide = "left"
      BY <1>4 DEF Blk, Upset, SlotNode, SlotSide, RemoveGoesOn
    <3>2. QED
      BY <1>2, <1>15, <3>1 DEF TreeInv, Colors
  <2>2. \A m \in S \ {n} : m \in blk2 <=> m \in blk \/ (m = c /\ n \in blk)
    BY <1>15, <1>16, <1>17
  <2>3. IF n \notin blk \/ (c \in S /\ c \notin blk) \/ n = r THEN x1 = NULL /\ e2 = "left"
        ELSE x1 = par[n] /\ e2 \in TwoSides /\ ch[x1][e2] = n
    <3>1. n \notin blk \/ (c \in S /\ c \notin blk) \/ n = r <=> done
      BY <1>6, <1>7, <1>9, <1>15, <1>16, <1>17
    <3>2. QED
      BY <1>2, <1>7, <1>15, <3>1, SidesAgree
  <2>4. QED
    BY ONLY <1>6, <1>11, <2>1, <2>2, <2>3, CutColors
<1>19. TreeInv'
  <2>1. PICK T : T = S \ {n}
    OBVIOUS
  <2>2. /\ Tree' = T /\ c \in T \cup {NULL} /\ p \in NodeOrNil /\ c \in NodeOrNil
        /\ c # rbh_root' => p \in T /\ rbe_child'[p][e1] = c
    <3>1. p \in NodeOrNil
      BY <1>2, <1>6 DEF FieldTypes
    <3>2. QED
      BY <1>6, <1>7, <1>9, <1>13, <1>15, <2>1, <3>1 DEF NodeOrNil
  <2>3. Colored(T, NULL, rbe_child', rbe_parent', blk2, NULL, x1, e2)
    BY <1>10, <1>18, <2>1
  <2>4. Repair(color, p, c)
    BY <1>4, <1>15
  <2>5. e1 \in Side /\ RepairSlot(T, rbh_root', black', color, c, p, e1, done, blk2, x1, e2)
    BY <1>7, <1>15, <2>1 DEF RepairSlot
  <2>6. QED
    BY ONLY TreeInv, <1>4, <1>9, <1>13, <1>16, <2>2, <2>3, <2>4, <2>5, RepairKeeps
<1>20. QED
  BY <1>14, <1>19

\* s takes the pointers of n.
StoreRow(t, s, v) == [t EXCEPT !.child[s] = v]
Moves(t, s, n) == [t EXCEPT !.child[s] = t.child[n], !.parent[s] = t.parent[n]]

LEMMA MovesFields ==
  ASSUME NEW r, NEW ch, NEW par, NEW n, NEW s
  PROVE  Moves(Memory(r, ch, par), s, n) = Memory(r, Copied(ch, s, n), SetParent(par, s, par[n]))
<1>1. PICK t : t = Memory(r, ch, par)
  OBVIOUS
<1>2. t.child[n] = ch[n] /\ t.parent[n] = par[n]
  BY <1>1 DEF Memory
<1>3. Moves(t, s, n) = StoreParent(StoreRow(t, s, t.child[n]), s, t.parent[n])
  BY DEF Moves, StoreParent, StoreRow
<1>4. StoreRow(Memory(r, ch, par), s, ch[n]) = Memory(r, Copied(ch, s, n), par)
  BY DEF StoreRow, Memory, Copied
<1>5. StoreParent(Memory(r, Copied(ch, s, n), par), s, par[n])
        = Memory(r, Copied(ch, s, n), SetParent(par, s, par[n]))
  BY StoredFields
<1>6. QED
  BY ONLY <1>1, <1>2, <1>3, <1>4, <1>5

\* What the stores of RemoveInner make of the memory.
LEMMA InnerMemory ==
  ASSUME NEW r, NEW ch, NEW par, NEW n, NEW s, NEW c, NEW p,
         NEW r1, r1 = HangRoot(r, p, c), NEW ch1, ch1 = HangChild(ch, p, s, c),
         NEW par1, par1 = AdoptParent(par, c, p), NEW q, q = par1[n],
         NEW chm, chm = Copied(ch1, s, n), NEW parm, parm = SetParent(par1, s, q),
         NEW r2, r2 = HangRoot(r1, q, s), NEW ch2, ch2 = HangChild(chm, q, n, s),
         NEW a, a = ch1[n]["left"], NEW b, b = ch1[n]["right"],
         NEW par2, par2 = AdoptParent(AdoptParent(parm, a, s), b, s),
         NEW t, t = Hang(Adopt(Memory(r, ch, par), c, p), p, s, c)
  PROVE  /\ t.child[n]["left"] = a /\ t.child[n]["right"] = b
         /\ Adopt(Adopt(Hang(Moves(t, s, n), t.parent[n], n, s), a, s), b, s)
              = Memory(r2, ch2, par2)
<1>1. t = Memory(r1, ch1, par1)
  BY OuterMemory
<1>2. t.child[n]["left"] = a /\ t.child[n]["right"] = b /\ t.parent[n] = q /\ t.child = ch1
  BY <1>1 DEF Memory
<1>3. PICK u : u = Moves(t, s, n)
  OBVIOUS
<1>4. u = Memory(r1, chm, parm)
  BY <1>1, <1>3, MovesFields
<1>5. Hang(u, q, n, s) = Memory(r2, ch2, parm)
  BY ONLY <1>4, HangFields, r2 = HangRoot(r1, q, s), ch2 = HangChild(chm, q, n, s)
<1>6. PICK para : para = AdoptParent(parm, a, s)
  OBVIOUS
<1>7. Adopt(Memory(r2, ch2, parm), a, s) = Memory(r2, ch2, para)
  BY <1>6, AdoptFields
<1>8. Adopt(Memory(r2, ch2, para), b, s) = Memory(r2, ch2, par2)
  BY <1>6, AdoptFields
<1>9. Adopt(Adopt(Hang(u, q, n, s), a, s), b, s) = Memory(r2, ch2, par2)
  BY ONLY <1>5, <1>7, <1>8
<1>10. QED
  BY ONLY <1>2, <1>3, <1>9

\* The successor s is cut out, and takes the place of n.
SuccessorMoves(n, s, c) ==
  /\ pc = "idle" /\ NextTo(Node, List, n, s)
  /\ Repair(rbe_color[s], FixupParent(s, n), c)
  /\ rbe_color' \in [Node -> {"red", "black"}]
  /\ \A m \in Node \ {n} : rbe_color'[m] = IF m = s THEN rbe_color[n] ELSE rbe_color[m]
  /\ rbe_parent'[n] = NULL
  /\ \E r1, ch1, par1, ch2, par2 :
       /\ CutOut(Tree, rbh_root, rbe_child, rbe_parent, s, c, "right", rbe_parent[s],
                 SideBelow(rbe_child, rbe_parent[s], s), r1, ch1, par1)
       /\ TakenIn(Tree \ {s}, r1, ch1, par1, n, s, rbh_root', ch2, par2)
       /\ \A m \in Node \ {n} : rbe_child'[m] = ch2[m] /\ rbe_parent'[m] = par2[m]
  /\ FieldTypes(rbh_root', rbe_child', rbe_parent')
  /\ s \in Tree /\ s # n /\ s # rbh_root /\ rbe_parent[n] # s

LEMMA InnerSteps ==
  ASSUME TreeInv, NEW n \in Tree, RemoveInner(n),
         NEW s, s = Deepest(rbe_child[n]["right"], "left"), NEW c, c = rbe_child[s]["right"]
  PROVE  SuccessorMoves(n, s, c)
<1>1. rbe_child[n]["right"] # NULL
  BY SidesAgree DEF RemoveInner
<1>2. /\ s \in Tree /\ s # n /\ s # rbh_root /\ rbe_parent[n] # s
      /\ rbe_child[s]["left"] = NULL
      /\ NextTo(Node, List, n, s)
  BY <1>1, MinHere
<1>3. PICK S, r, ch, par, p, e1 :
        /\ S = Tree /\ r = rbh_root /\ ch = rbe_child /\ par = rbe_parent
        /\ p = par[s] /\ e1 = SideBelow(ch, p, s)
  OBVIOUS
<1>4. PICK r1, ch1, par1 : /\ r1 = HangRoot(r, p, c) /\ ch1 = HangChild(ch, p, s, c)
                           /\ par1 = AdoptParent(par, c, p)
  OBVIOUS
<1>5. PICK q, chm, parm : /\ q = par1[n] /\ chm = Copied(ch1, s, n)
                          /\ parm = SetParent(par1, s, q)
  OBVIOUS
<1>6. PICK a, b, r2, ch2, par2 : /\ a = ch1[n]["left"] /\ b = ch1[n]["right"]
                                 /\ r2 = HangRoot(r1, q, s) /\ ch2 = HangChild(chm, q, n, s)
                                 /\ par2 = AdoptParent(AdoptParent(parm, a, s), b, s)
  OBVIOUS
<1>7. PICK col : col = [rbe_color EXCEPT ![s] = rbe_color[n]]
  OBVIOUS
<1>8. /\ pc = "idle" /\ Forget(Memory(r2, ch2, par2), n, col)
      /\ Repair(rbe_color[s], FixupParent(s, n), c)
  <2>1. PICK t : t = Hang(Adopt(Memory(r, ch, par), c, p), p, s, c)
    OBVIOUS
  <2>2. /\ t.child[n]["left"] = a /\ t.child[n]["right"] = b
        /\ Adopt(Adopt(Hang(Moves(t, s, n), t.parent[n], n, s), a, s), b, s)
             = Memory(r2, ch2, par2)
    BY ONLY <1>4, <1>5, <1>6, <2>1, InnerMemory
  <2>3. memory = Memory(r, ch, par)
    BY <1>3 DEF memory, Memory
  <2>4. /\ pc = "idle"
        /\ Forget(Adopt(Adopt(Hang(Moves(t, s, n), t.parent[n], n, s),
                              t.child[n]["left"], s), t.child[n]["right"], s),
                  n, col)
        /\ Repair(rbe_color[s], FixupParent(s, n), c)
    BY <1>3, <1>7, <2>1, <2>3 DEF RemoveInner, Moves
  <2>5. QED
    BY <2>2, <2>4
<1>9. /\ S \subseteq Node /\ NULL \notin S /\ FieldTypes(r, ch, par)
      /\ Grown(S, NULL, r, ch, par) /\ n \in S /\ n \in Node /\ s \in S /\ s \in Node
  BY <1>2, <1>3, TreeNow DEF TreeInv, TypeOK, FieldTypes
<1>10. CutOut(S, r, ch, par, s, c, "right", p, e1, r1, ch1, par1)
  <2>1. "right" \in Side /\ ch[s][Opposite("right")] = NULL
    BY <1>2, <1>3, SidesAgree DEF Opposite
  <2>2. c = ch[s]["right"] /\ p = par[s] /\ e1 = SideBelow(ch, p, s)
    BY <1>3
  <2>3. QED
    BY ONLY <1>4, <1>9, <2>1, <2>2, StoresCut
<1>11. TakenIn(S \ {s}, r1, ch1, par1, n, s, r2, ch2, par2)
  <2>1. PICK S1 : S1 = S \ {s}
    OBVIOUS
  <2>2. FieldTypes(r1, ch1, par1) /\ Cuts(S, NULL, r, ch, par, r1, ch1, par1, s, c, "right")
    BY <1>10 DEF CutOut
  <2>3. Grown(S \ {s}, NULL, r1, ch1, par1)
    BY ONLY <1>9, <2>2, CutGrows
  <2>4. Grown(S1, NULL, r1, ch1, par1) /\ S1 \subseteq Node /\ n \in S1 /\ s \in Node \ S1
    BY <1>2, <1>9, <2>1, <2>3
  <2>5. par2 = AdoptParent(AdoptParent(parm, ch1[n]["left"], s), ch1[n]["right"], s)
    BY <1>6
  <2>6. TakenIn(S1, r1, ch1, par1, n, s, r2, ch2, par2)
    BY ONLY <1>5, <1>6, <2>2, <2>4, <2>5, StoresTake
  <2>7. QED
    BY <2>1, <2>6
<1>12. FieldTypes(r2, ch2, par2)
  BY <1>11 DEF TakenIn
<1>13. rbe_color \in [Node -> {"red", "black"}]
  BY DEF TreeInv, TypeOK
<1>14. col \in [Node -> {"red", "black"}]
       /\ \A m \in Node : col[m] = IF m = s THEN rbe_color[n] ELSE rbe_color[m]
  BY <1>7, <1>9, <1>13
<1>15. /\ rbh_root' = r2
       /\ FieldTypes(rbh_root', rbe_child', rbe_parent')
       /\ rbe_color' \in [Node -> {"red", "black"}]
       /\ \A m \in Node \ {n} : /\ rbe_child'[m] = ch2[m] /\ rbe_parent'[m] = par2[m]
                                /\ rbe_color'[m] = col[m]
       /\ rbe_parent'[n] = NULL
  BY ONLY <1>8, <1>9, <1>12, <1>14, Forgotten
<1>16. QED
  BY <1>2, <1>3, <1>8, <1>10, <1>11, <1>14, <1>15 DEF SuccessorMoves

\* The tree before, between and after the two steps of the exchange.
Exchanged(S, r, ch, par, n, s, c, r1, ch1, par1, r2, ch2, par2) ==
  /\ S \subseteq Node /\ NULL \notin S /\ n \in S /\ s \in S /\ s # n /\ s # r /\ par[n] # s
  /\ Grown(S, NULL, r, ch, par) /\ Hung(S, NULL, r, ch, par)
  /\ CutOut(S, r, ch, par, s, c, "right", par[s], SideBelow(ch, par[s], s), r1, ch1, par1)
  /\ Grown(S \ {s}, NULL, r1, ch1, par1) /\ Hung(S \ {s}, NULL, r1, ch1, par1)
  /\ Takes(S \ {s}, NULL, r1, ch1, par1, r2, ch2, par2, n, s)
  /\ Grown(S \ {n}, NULL, r2, ch2, par2)

LEMMA ExchangePlants ==
  ASSUME NEW S, S \subseteq Node, NULL \notin S, NEW r, NEW ch, NEW par, Grown(S, NULL, r, ch, par),
         NEW n \in S, NEW s \in S, s # n, s # r, par[n] # s, NEW c, NEW r1, NEW ch1, NEW par1,
         CutOut(S, r, ch, par, s, c, "right", par[s], SideBelow(ch, par[s], s), r1, ch1, par1),
         NEW r2, NEW ch2, NEW par2, TakenIn(S \ {s}, r1, ch1, par1, n, s, r2, ch2, par2),
         NEW ch3, NEW par3, \A m \in Node \ {n} : ch3[m] = ch2[m] /\ par3[m] = par2[m]
  PROVE  Exchanged(S, r, ch, par, n, s, c, r1, ch1, par1, r2, ch3, par3)
<1>1. Cuts(S, NULL, r, ch, par, r1, ch1, par1, s, c, "right")
  BY DEF CutOut
<1>2. PICK S1 : S1 = S \ {s}
  OBVIOUS
<1>3. Grown(S1, NULL, r1, ch1, par1)
  BY <1>1, <1>2, CutGrows
<1>4. Takes(S1, NULL, r1, ch1, par1, r2, ch2, par2, n, s)
  BY <1>2 DEF TakenIn
<1>5. Takes(S1, NULL, r1, ch1, par1, r2, ch3, par3, n, s)
  <2>1. \A m \in (S1 \cup {s}) \ {n} : ch3[m] = ch2[m] /\ par3[m] = par2[m]
    BY <1>2
  <2>2. n # s
    OBVIOUS
  <2>3. QED
    BY ONLY <1>4, <2>1, <2>2, TakeAgrees
<1>6. Grown((S1 \ {n}) \cup {s}, NULL, r2, ch3, par3)
  BY ONLY <1>3, <1>5, TakeGrows
<1>7. (S1 \ {n}) \cup {s} = S \ {n}
  BY <1>2
<1>8. Hung(S, NULL, r, ch, par) /\ Hung(S1, NULL, r1, ch1, par1)
  BY <1>3, GrownIsHung
<1>9. QED
  BY <1>2, <1>3, <1>5, <1>6, <1>7, <1>8 DEF Exchanged

\* The list after it.
LEMMA ExchangeLists ==
  ASSUME NEW S, NEW r, NEW ch, NEW par, NEW n, NEW s, NEW c, NEW r1, NEW ch1, NEW par1,
         NEW r2, NEW ch2, NEW par2,
         Exchanged(S, r, ch, par, n, s, c, r1, ch1, par1, r2, ch2, par2),
         NextTo(Node, Walk(ch)[r], n, s)
  PROVE  Removes(Node, Walk(ch)[r], Walk(ch2)[r2], n)
<1>1. /\ S \subseteq Node /\ n \in S /\ s \in S /\ s # n
      /\ Grown(S, NULL, r, ch, par)
      /\ Cuts(S, NULL, r, ch, par, r1, ch1, par1, s, c, "right")
      /\ Grown(S \ {s}, NULL, r1, ch1, par1)
      /\ Takes(S \ {s}, NULL, r1, ch1, par1, r2, ch2, par2, n, s)
      /\ Grown(S \ {n}, NULL, r2, ch2, par2)
  BY DEF Exchanged, CutOut
<1>2. PICK io, io1, io2 : io = Walk(ch) /\ io1 = Walk(ch1) /\ io2 = Walk(ch2)
  OBVIOUS
<1>3. PICK S1, S2 : S1 = S \ {s} /\ S2 = S \ {n}
  OBVIOUS
<1>4. S1 \subseteq Node /\ S2 \subseteq Node /\ (S1 \ {n}) \cup {s} = S2 /\ S1 \cup {s} = S
  BY <1>1, <1>3
<1>5. IsInOrder(io, ch, S, NULL) /\ Listed(S, NULL, r, ch, par, io)
  BY <1>1, <1>2, GrownIsWalked
<1>6. IsInOrder(io1, ch1, S1, NULL)
  BY <1>1, <1>2, <1>3, <1>4, GrownIsWalked
<1>7. IsInOrder(io2, ch2, S2, NULL)
  BY <1>1, <1>2, <1>3, <1>4, GrownIsWalked
<1>8. Removes(S, io[r], io1[r1], s)
  <2>1. IsInOrder(io1, ch1, S \ {s}, NULL)
    BY <1>3, <1>6
  <2>2. QED
    BY ONLY <1>1, <1>5, <2>1, CutLists
<1>9. Trades(S, io1[r1], io2[r2], n, s)
  <2>1. /\ Grown(S1, NULL, r1, ch1, par1) /\ Takes(S1, NULL, r1, ch1, par1, r2, ch2, par2, n, s)
        /\ IsInOrder(io2, ch2, (S1 \ {n}) \cup {s}, NULL)
    BY <1>1, <1>3, <1>4, <1>7
  <2>2. Trades(S1 \cup {s}, io1[r1], io2[r2], n, s)
    BY ONLY <1>6, <2>1, TakeLists
  <2>3. QED
    BY <1>4, <2>2
<1>10. PICK t, t1, t2 : t = io[r] /\ t1 = io1[r1] /\ t2 = io2[r2]
  OBVIOUS
<1>11. Removes(S, t, t1, s) /\ Trades(S, t1, t2, n, s)
  BY <1>8, <1>9, <1>10
<1>12. Removes(Node, t, t1, s) /\ Trades(Node, t1, t2, n, s)
  BY <1>1, <1>11, RemovesWider, TradesWider
<1>13. Distinct(t)
  <2>1. r \in S
    BY <1>1, GrownRoot
  <2>2. QED
    BY <1>5, <1>10, <2>1 DEF Listed
<1>14. NextTo(Node, t, n, s) /\ n \in Node /\ s \in Node
  BY <1>1, <1>2, <1>10
<1>15. Removes(Node, t, t2, n)
  BY ONLY <1>12, <1>13, <1>14, NextTakesPlace
<1>16. QED
  BY <1>2, <1>10, <1>15

\* Where c hangs after it.
LEMMA ExchangeHangs ==
  ASSUME NEW S, NEW r, NEW ch, NEW par, NEW n, NEW s, NEW c, NEW r1, NEW ch1, NEW par1,
         NEW r2, NEW ch2, NEW par2,
         Exchanged(S, r, ch, par, n, s, c, r1, ch1, par1, r2, ch2, par2),
         NEW p, p = par[s], NEW e1, e1 = SideBelow(ch, p, s)
  PROVE  /\ c \in (S \ {n}) \cup {NULL} /\ c # r2 /\ e1 \in Side
         /\ p \in S \ {s} /\ ch[p][e1] = s
         /\ p = n => ch2[s][e1] = c
         /\ p # n => p \in S \ {n} /\ ch2[p][e1] = c
<1>1. /\ S \subseteq Node /\ NULL \notin S /\ n \in S /\ s \in S /\ s # n /\ s # r /\ par[n] # s
      /\ Hung(S, NULL, r, ch, par)
      /\ CutOut(S, r, ch, par, s, c, "right", p, e1, r1, ch1, par1)
      /\ Hung(S \ {s}, NULL, r1, ch1, par1)
      /\ Takes(S \ {s}, NULL, r1, ch1, par1, r2, ch2, par2, n, s)
  BY DEF Exchanged
<1>2. /\ Cuts(S, NULL, r, ch, par, r1, ch1, par1, s, c, "right")
      /\ c \in (S \ {s}) \cup {NULL} /\ c # r1
      /\ e1 \in Side /\ p \in S \ {s} /\ ch[p][e1] = s /\ ch1[p][e1] = c
  BY <1>1 DEF CutOut
<1>3. e1 \in TwoSides /\ "right" \in TwoSides /\ c = ch[s]["right"]
  BY <1>2, SidesAgree DEF Cuts
<1>4. c # n
  <2>1. ch[s]["right"] # NULL => par[ch[s]["right"]] = s
    BY <1>1, <1>3 DEF Hung
  <2>2. QED
    BY <1>1, <1>3, <2>1
<1>5. /\ r2 = IF r1 = n THEN s ELSE r1
      /\ ch2[s][e1] = ch1[n][e1]
      /\ p # n => ch2[p][e1] = IF ch1[p][e1] = n THEN s ELSE ch1[p][e1]
  BY <1>1, <1>2, <1>3 DEF Takes
<1>6. c # s /\ c # r2
  BY <1>1, <1>2, <1>5
<1>7. QED
  BY <1>1, <1>2, <1>4, <1>5, <1>6

\* The colors: that of s goes with its place, and s takes that of n; and where the repair
\* begins then.
ColorsTraded(S, par, n, s, blk, blk1, color, x) ==
  /\ color \in {"red", "black"} /\ (color = "black" <=> s \in blk)
  /\ \A m \in S \ {n, s} : m \in blk1 <=> m \in blk
  /\ s \in blk1 <=> n \in blk
  /\ x = IF par[s] = n THEN s ELSE par[s]

LEMMA ExchangeColors ==
  ASSUME NEW S, NEW r, NEW ch, NEW par, NEW n, NEW s, NEW c, NEW r1, NEW ch1, NEW par1,
         NEW r2, NEW ch2, NEW par2,
         Exchanged(S, r, ch, par, n, s, c, r1, ch1, par1, r2, ch2, par2),
         NEW blk, Colored(S, NULL, ch, par, blk, NULL, NULL, "left"),
         NEW blk1, NEW color, NEW x, ColorsTraded(S, par, n, s, blk, blk1, color, x),
         NEW e1, e1 = SideBelow(ch, par[s], s),
         NEW T, T = S \ {n}, NEW done, NEW blk2, NEW x1, NEW e2,
         RepairSlot(T, r2, blk1, color, c, x, e1, done, blk2, x1, e2)
  PROVE  Colored(T, NULL, ch2, par2, blk2, NULL, x1, e2)
<1>1. /\ S \subseteq Node /\ NULL \notin S /\ n \in S /\ s \in S /\ s # n /\ s # r
      /\ Hung(S, NULL, r, ch, par)
      /\ Cuts(S, NULL, r, ch, par, r1, ch1, par1, s, c, "right")
      /\ Hung(S \ {s}, NULL, r1, ch1, par1)
      /\ Takes(S \ {s}, NULL, r1, ch1, par1, r2, ch2, par2, n, s)
  BY DEF Exchanged, CutOut
<1> /\ color \in {"red", "black"} /\ (color = "black" <=> s \in blk)
    /\ \A m \in S \ {n, s} : m \in blk1 <=> m \in blk
    /\ s \in blk1 <=> n \in blk
    /\ x = IF par[s] = n THEN s ELSE par[s]
  BY DEF ColorsTraded
<1>2. PICK p : p = par[s]
  OBVIOUS
<1>3. /\ c \in (S \ {n}) \cup {NULL} /\ c # r2 /\ e1 \in Side
      /\ p \in S \ {s} /\ ch[p][e1] = s
  BY <1>2, ExchangeHangs
<1>4. /\ done = (color = "red" \/ c = r2 \/ (c \in S \ {n} /\ c \notin blk1))
      /\ blk2 = blk1 \cup (IF color = "black" THEN {c} ELSE {})
      /\ x1 = (IF done THEN NULL ELSE x)
      /\ e2 = (IF done THEN "left" ELSE e1)
  BY DEF RepairSlot
<1>5. c # s
  <2>1. "right" \in TwoSides /\ c = ch[s]["right"]
    BY <1>1 DEF Cuts
  <2>2. QED
    BY <1>1, <2>1 DEF Hung
<1>6. PICK blkm, x0 : /\ blkm = (IF s \in blk THEN blk \cup {c} ELSE blk)
                      /\ x0 = (IF done THEN NULL ELSE p)
  OBVIOUS
<1>7. done <=> s \notin blk \/ (c \in S /\ c \notin blk)
  BY <1>1, <1>3, <1>4, <1>5
<1>8. Colored(S \ {s}, NULL, ch1, par1, blkm, NULL, x0, e2)
  <2>1. \A m \in S \ {s} : m \in blkm <=> m \in blk \/ (m = c /\ s \in blk)
    BY <1>6
  <2>2. IF s \notin blk \/ (c \in S /\ c \notin blk) \/ s = r THEN x0 = NULL /\ e2 = "left"
        ELSE x0 = par[s] /\ e2 \in TwoSides /\ ch[x0][e2] = s
    BY <1>1, <1>2, <1>3, <1>4, <1>6, <1>7, SidesAgree
  <2>3. Colored(S, NULL, ch, par, blk, NULL, NULL, "left")
    OBVIOUS
  <2>4. QED
    BY ONLY <1>1, <2>1, <2>2, <2>3, CutColors
<1>9. PICK S1 : S1 = S \ {s}
  OBVIOUS
<1>10. /\ Hung(S1, NULL, r1, ch1, par1)
       /\ Takes(S1, NULL, r1, ch1, par1, r2, ch2, par2, n, s)
       /\ Colored(S1, NULL, ch1, par1, blkm, NULL, x0, e2)
  BY <1>1, <1>8, <1>9
<1>11. x0 \in S1 \cup {NULL} /\ x1 = (IF x0 = n THEN s ELSE x0)
  BY <1>1, <1>2, <1>3, <1>4, <1>6, <1>9
<1>12. s \in blk2 <=> n \in blkm
  BY <1>1, <1>3, <1>4, <1>5, <1>6
<1>13. \A m \in S1 \ {n} : m \in blk2 <=> m \in blkm
  BY <1>4, <1>6, <1>9
<1>14. Colored((S1 \ {n}) \cup {s}, NULL, ch2, par2, blk2, NULL, x1, e2)
  BY ONLY <1>10, <1>11, <1>12, <1>13, TakeColors
<1>15. (S1 \ {n}) \cup {s} = S \ {n}
  BY <1>1, <1>9
<1>16. QED
  BY <1>14, <1>15

\* The successor takes the place of an element with two children.
LEMMA RemoveInnerKeeps ==
  ASSUME TreeInv, NEW n \in Tree, RemoveInner(n)
  PROVE  TreeInv' /\ Removes(Node, List, List', n)
<1>1. PICK s, c : s = Deepest(rbe_child[n]["right"], "left") /\ c = rbe_child[s]["right"]
  OBVIOUS
<1>2a. SuccessorMoves(n, s, c)
  BY <1>1, InnerSteps
<1>2. /\ pc = "idle" /\ NextTo(Node, List, n, s)
      /\ Repair(rbe_color[s], FixupParent(s, n), c)
      /\ rbe_color' \in [Node -> {"red", "black"}]
      /\ \A m \in Node \ {n} : rbe_color'[m] = IF m = s THEN rbe_color[n] ELSE rbe_color[m]
      /\ rbe_parent'[n] = NULL
      /\ FieldTypes(rbh_root', rbe_child', rbe_parent')
      /\ s \in Tree /\ s # n /\ s # rbh_root /\ rbe_parent[n] # s
  BY <1>2a DEF SuccessorMoves
<1>3. PICK r1, ch1, par1, ch2, par2 :
        /\ CutOut(Tree, rbh_root, rbe_child, rbe_parent, s, c, "right", rbe_parent[s],
                  SideBelow(rbe_child, rbe_parent[s], s), r1, ch1, par1)
        /\ TakenIn(Tree \ {s}, r1, ch1, par1, n, s, rbh_root', ch2, par2)
        /\ \A m \in Node \ {n} : rbe_child'[m] = ch2[m] /\ rbe_parent'[m] = par2[m]
  BY <1>2a DEF SuccessorMoves
<1>4. PICK S, r, ch, par, p, e1, r2, ch3, par3 :
        /\ S = Tree /\ r = rbh_root /\ ch = rbe_child /\ par = rbe_parent
        /\ p = par[s] /\ e1 = SideBelow(ch, p, s)
        /\ r2 = rbh_root' /\ ch3 = rbe_child' /\ par3 = rbe_parent'
  OBVIOUS
<1>5. /\ S \subseteq Node /\ NULL \notin S /\ Grown(S, NULL, r, ch, par)
      /\ n \in S /\ s \in S /\ s # n /\ s # r /\ par[n] # s
      /\ CutOut(S, r, ch, par, s, c, "right", par[s], SideBelow(ch, par[s], s), r1, ch1, par1)
      /\ TakenIn(S \ {s}, r1, ch1, par1, n, s, r2, ch2, par2)
      /\ \A m \in Node \ {n} : ch3[m] = ch2[m] /\ par3[m] = par2[m]
  BY <1>2, <1>3, <1>4, TreeNow
<1>6. Exchanged(S, r, ch, par, n, s, c, r1, ch1, par1, r2, ch3, par3)
  BY ONLY <1>5, ExchangePlants
<1>7. Planted(rbh_root, rbe_child, rbe_parent)' /\ Tree' = Tree \ {n}
  <2>1. Grown(Tree \ {n}, NULL, rbh_root', rbe_child', rbe_parent')
    BY <1>4, <1>6 DEF Exchanged
  <2>2. \A m \in Node : m \notin Tree \ {n} => rbe_parent'[m] = NULL
    <3>1. SUFFICES ASSUME NEW m \in Node, m \notin S, m # n PROVE par3[m] = NULL
      BY <1>2, <1>4
    <3>2. par3[m] = par2[m]
      BY <1>5, <3>1
    <3>3. par2[m] = par1[m]
      BY <1>5, <3>1 DEF TakenIn
    <3>4. par1[m] = par[m]
      BY <1>5, <3>1 DEF CutOut
    <3>5. par[m] = NULL
      BY <1>4, <3>1 DEF Tree, Members
    <3>6. QED
      BY <3>2, <3>3, <3>4, <3>5
  <2>3. QED
    BY <1>2, <2>1, <2>2, RemovePlants
<1>8. Removes(Node, List, List', n)
  <2>1. NextTo(Node, Walk(ch)[r], n, s)
    BY <1>2, <1>4 DEF List
  <2>2. Removes(Node, Walk(ch)[r], Walk(ch3)[r2], n)
    BY ONLY <1>6, <2>1, ExchangeLists
  <2>3. QED
    BY <1>4, <2>2 DEF List, Walk
<1>9. PICK x : x = (IF p = n THEN s ELSE p)
  OBVIOUS
<1>10. /\ c \in (S \ {n}) \cup {NULL} /\ c # r2 /\ e1 \in Side
       /\ p \in S \ {s} /\ ch[p][e1] = s
       /\ p = n => ch3[s][e1] = c
       /\ p # n => p \in S \ {n} /\ ch3[p][e1] = c
  BY ONLY <1>4, <1>6, ExchangeHangs
<1>11. x \in S \ {n} /\ ch3[x][e1] = c
  BY <1>5, <1>9, <1>10
<1>12. PICK color, blk, blk1 : color = rbe_color[s] /\ blk = black /\ blk1 = black'
  OBVIOUS
<1>13. color \in {"red", "black"} /\ ColorsTraded(S, par, n, s, blk, blk1, color, x)
  <2>1. rbe_color \in [Node -> {"red", "black"}] /\ s \in Node
    BY <1>5 DEF TreeInv, TypeOK
  <2>2. QED
    BY <1>2, <1>4, <1>5, <1>9, <1>12, <2>1 DEF black, ColorsTraded
<1>a. PICK T : T = S \ {n}
  OBVIOUS
<1>14. PICK done, blk2, x1, e2 : RepairSlot(T, r2, blk1, color, c, x, e1, done, blk2, x1, e2)
  BY DEF RepairSlot
<1>15. Colored(T, NULL, ch3, par3, blk2, NULL, x1, e2)
  <2>1. Colored(S, NULL, ch, par, blk, NULL, NULL, "left")
    <3>1. Blk = black /\ Upset = NULL /\ SlotNode = NULL /\ SlotSide = "left"
      BY <1>2 DEF Blk, Upset, SlotNode, SlotSide, RemoveGoesOn
    <3>2. QED
      BY <1>4, <1>12, <3>1 DEF TreeInv, Colors
  <2>2. e1 = SideBelow(ch, par[s], s)
    BY <1>4
  <2>3. QED
    BY ONLY <1>a, <1>6, <1>13, <1>14, <2>1, <2>2, ExchangeColors
<1>16. TreeInv'
  <2>2. /\ Tree' = T /\ c \in T \cup {NULL} /\ x \in NodeOrNil /\ e1 \in Side
        /\ c # rbh_root' => x \in T /\ rbe_child'[x][e1] = c
    BY <1>4, <1>5, <1>7, <1>10, <1>11, <1>a DEF NodeOrNil
  <2>3. /\ Colored(T, NULL, rbe_child', rbe_parent', blk2, NULL, x1, e2)
        /\ RepairSlot(T, rbh_root', black', color, c, x, e1, done, blk2, x1, e2)
    BY <1>4, <1>12, <1>14, <1>15
  <2>4. Repair(color, x, c)
    <3>1. FixupParent(s, n) = x
      BY <1>4, <1>9 DEF FixupParent
    <3>2. QED
      BY <1>2, <1>12, <3>1
  <2>5. QED
    BY ONLY TreeInv, <1>2, <1>7, <1>13, <2>2, <2>3, <2>4, RepairKeeps
<1>17. QED
  BY <1>8, <1>16

-----------------------------------------------------------------------------
(* The order of the elements. *)

\* The pairs of elements whose keys are in this order.
Stays == {p \in Node \X Node : Key[p[1]] < Key[p[2]]}

\* The elements with a smaller key than e, and those with a key that is not larger.
Smaller(e) == {m \in Node : Key[m] < Key[e]}
UpTo(e) == {m \in Node : Key[m] =< Key[e]}

\* X is the part of the list where e belongs, whether an equal key goes before it or after.
Leads(e, X) == Belongs(Node, List, X, Smaller(e)) /\ Belongs(Node, List, X, UpTo(e))

\* The invariant with the list: it is in order, and an insertion descends to where the new
\* element belongs in it, past no element that has the same key.
ListInv ==
  /\ TreeInv
  /\ Chained(Stays, List)
  /\ pc = "descend" /\ parent # NULL =>
       Key[elm] # Key[parent] /\ Leads(elm, Walk(rbe_child)[parent])

LEMMA KeyType == \A n \in Node : Key[n] \in Int
BY LibuvAssumption

LEMMA StaysHere ==
  ASSUME NEW n \in Node, NEW m \in Node
  PROVE  /\ <<n, m>> \in Stays <=> Key[n] < Key[m]
         /\ n \in Smaller(m) <=> Key[n] < Key[m]
         /\ n \in UpTo(m) <=> Key[n] =< Key[m]
         /\ Key[n] \in Int /\ Key[m] \in Int
BY KeyType DEF Stays, Smaller, UpTo

\* With an element the smaller ones are in either set.
LEMMA BothDownward ==
  ASSUME NEW e \in Node, NEW S \in SUBSET Node
  PROVE  Downward(S, Stays, Smaller(e)) /\ Downward(S, Stays, UpTo(e))
<1>1. ASSUME NEW a \in S, NEW b \in S, <<a, b>> \in Stays
      PROVE  (b \in Smaller(e) => a \in Smaller(e)) /\ (b \in UpTo(e) => a \in UpTo(e))
  <2>1. Key[a] < Key[b]
    BY <1>1, StaysHere
  <2>2. /\ b \in Smaller(e) <=> Key[b] < Key[e]
        /\ a \in Smaller(e) <=> Key[a] < Key[e]
        /\ b \in UpTo(e) <=> Key[b] =< Key[e]
        /\ a \in UpTo(e) <=> Key[a] =< Key[e]
        /\ Key[a] \in Int /\ Key[b] \in Int /\ Key[e] \in Int
    BY StaysHere
  <2>3. QED
    BY <2>1, <2>2
<1>2. QED
  BY <1>1 DEF Downward

\* What the list of a tree holds.
LEMMA ListOfTree ==
  ASSUME NEW r, NEW ch, NEW par, Planted(r, ch, par)
  PROVE  /\ Walk(ch)[r] \in Seq(Node)
         /\ Elements(Walk(ch)[r]) = Members(r, par)
         /\ Distinct(Walk(ch)[r])
<1>1. PICK S : S = Members(r, par)
  OBVIOUS
<1>2. Listed(S, NULL, r, ch, par, Walk(ch))
  BY <1>1, PlantedIsWalked
<1>3. r \in S \cup {NULL} /\ S \subseteq Node
  BY <1>1, PlantedType
<1>4. Walk(ch)[r] \in Seq(S) /\ Elements(Walk(ch)[r]) = S /\ Distinct(Walk(ch)[r])
  BY <1>2, <1>3 DEF Listed, Nodes
<1>5. Seq(S) \subseteq Seq(Node)
  BY <1>3
<1>6. QED
  BY <1>1, <1>4, <1>5

LEMMA ListNow ==
  ASSUME TreeInv
  PROVE  List \in Seq(Node) /\ Elements(List) = Tree /\ Distinct(List)
BY ListOfTree DEF TreeInv, List, Tree

LEMMA ListNext ==
  ASSUME TreeInv'
  PROVE  List' \in Seq(Node) /\ Elements(List') = Tree' /\ Distinct(List')
<1>1. Planted(rbh_root', rbe_child', rbe_parent')
  BY DEF TreeInv, Planted, Members
<1>2. List' = Walk(rbe_child')[rbh_root'] /\ Tree' = Members(rbh_root', rbe_parent')
  BY DEF List, Walk, Tree, Members
<1>3. QED
  BY <1>1, <1>2, ListOfTree

\* The list below an element, side by side.
LEMMA ListsHere ==
  ASSUME TreeInv, NEW n \in Tree, NEW d \in Side
  PROVE  /\ Walk(rbe_child)[n] = Put(d, Walk(rbe_child)[rbe_child[n][d]], n,
                                     Walk(rbe_child)[rbe_child[n][Opposite(d)]])
         /\ \A e \in Side : Walk(rbe_child)[rbe_child[n][e]] \in Seq(Node)
         /\ Walk(rbe_child)[n] \in Seq(Node)
         /\ Walk(rbe_child)[NULL] = <<>>
<1>1. PICK io : io = Walk(rbe_child)
  OBVIOUS
<1>2. IsInOrder(io, rbe_child, Tree, NULL) /\ Listed(Tree, NULL, rbh_root, rbe_child, rbe_parent, io)
  BY <1>1, PlantedIsWalked DEF TreeInv, Tree
<1>3. d \in TwoSides /\ Opposite(d) = Across(d)
  BY SidesAgree
<1>4. io[n] = Put(d, io[rbe_child[n][d]], n, io[rbe_child[n][Across(d)]])
  BY <1>2, <1>3, PutEither
<1>5. \A m \in Tree \cup {NULL} : io[m] \in Seq(Node)
  <2>1. Tree \subseteq Node
    BY TreeNow
  <2>2. Seq(Tree) \subseteq Seq(Node)
    BY <2>1
  <2>3. QED
    BY <1>2, <2>2 DEF Listed
<1>6. \A e \in Side : rbe_child[n][e] \in Tree \cup {NULL}
  BY TreeNow
<1>7. io[NULL] = <<>>
  BY <1>2 DEF Listed
<1>8. QED
  BY <1>1, <1>3, <1>4, <1>5, <1>6, <1>7

\* A list of one element, or of none.
LEMMA OneChained ==
  ASSUME NEW R, NEW n
  PROVE  Chained(R, <<n>>) /\ Chained(R, <<>>)
BY DEF Chained

\* A step that leaves the list as it is, and is no part of a descent.
LEMMA QuietKeeps ==
  ASSUME ListInv, TreeInv', List' = List, pc' # "descend" \/ parent' = NULL
  PROVE  ListInv'
<1>1. Chained(Stays, List')
  BY DEF ListInv
<1>2. (Chained(Stays, List))'
  BY <1>1 DEF Stays
<1>3. QED
  BY <1>2 DEF ListInv

\* The list is what the properties are about.
LEMMA OrderIsList ==
  /\ order = List
  /\ order' = List'
<1>1. \A ch, r : InOrder(ch, r) = Walk(ch)[r]
  BY WalksOfShape
<1>2. order = List
  BY <1>1 DEF order, List
<1>3. order' = InOrder(rbe_child', rbh_root') /\ List' = Walk(rbe_child')[rbh_root']
  BY DEF order, List, InOrder, Walk
<1>4. QED
  BY <1>1, <1>2, <1>3

LEMMA InTreeIsTree ==
  ASSUME TreeInv
  PROVE  InTree = Tree
<1>1. PICK walk : walk = List
  OBVIOUS
<1>2. order = walk /\ Elements(walk) = Tree
  BY <1>1, OrderIsList, ListNow
<1>3. QED
  BY <1>2 DEF InTree, Elements

\* Where the descent stands, and the side that it takes there.
LEMMA DescentSide ==
  ASSUME ListInv, pc = "descend", parent # NULL
  PROVE  /\ parent \in Tree /\ parent \in Node /\ elm \in Node /\ Key[elm] # Key[parent]
         /\ LinkSide \in Side /\ rbe_child[parent][LinkSide] = tmp
         /\ LinkSide = "left" <=> parent \notin Smaller(elm)
         /\ LinkSide = "left" <=> parent \notin UpTo(elm)
<1>1. parent \in Tree /\ parent \in Node /\ elm \in Node /\ rbe_child[parent][LinkSide] = tmp
  BY TreeNow DEF ListInv, TreeInv, Locals
<1>2. Key[elm] # Key[parent]
  BY DEF ListInv
<1>3. LinkSide \in Side /\ (LinkSide = "left" <=> Key[elm] < Key[parent])
  BY SidesAgree DEF LinkSide, cmp
<1>4. /\ parent \in Smaller(elm) <=> Key[parent] < Key[elm]
      /\ parent \in UpTo(elm) <=> Key[parent] =< Key[elm]
      /\ Key[parent] \in Int /\ Key[elm] \in Int
  BY <1>1, StaysHere
<1>5. (Key[elm] < Key[parent] <=> ~(Key[parent] < Key[elm]))
      /\ (Key[elm] < Key[parent] <=> ~(Key[parent] =< Key[elm]))
  BY <1>2, <1>4
<1>6. QED
  BY <1>1, <1>2, <1>3, <1>4, <1>5

\* A turn of the descent goes on where elm belongs.
LEMMA DescendLeads ==
  ASSUME ListInv, Descend
  PROVE  Leads(elm, Walk(rbe_child)[tmp])
<1>1. TreeInv /\ Chained(Stays, List) /\ pc = "descend"
  BY DEF ListInv, Descend
<1>2. /\ Elements(List) \subseteq Tree /\ List \in Seq(Node) /\ Tree \in SUBSET Node
      /\ elm \in Node
  BY <1>1, ListNow, TreeNow DEF TreeInv, Locals
<1>3. CASE parent = NULL
  <2>1. tmp = rbh_root
    BY <1>1, <1>3 DEF TreeInv, Locals
  <2>2. Walk(rbe_child)[tmp] = List
    BY <2>1 DEF List
  <2>3. Belongs(Node, List, List, Smaller(elm)) /\ Belongs(Node, List, List, UpTo(elm))
    BY <1>2, BelongsAnywhere
  <2>4. QED
    BY <2>2, <2>3 DEF Leads
<1>4. CASE parent # NULL
  <2>1. /\ parent \in Tree /\ parent \in Node /\ LinkSide \in Side /\ rbe_child[parent][LinkSide] = tmp
        /\ LinkSide = "left" <=> parent \notin Smaller(elm)
        /\ LinkSide = "left" <=> parent \notin UpTo(elm)
    BY <1>1, <1>4, DescentSide
  <2>2. PICK x \in Seq(Node), y \in Seq(Node), X \in Seq(Node) :
          /\ x = Walk(rbe_child)[tmp] /\ X = Walk(rbe_child)[parent]
          /\ X = Put(LinkSide, x, parent, y)
    <3>1. Opposite(LinkSide) \in Side
      BY <2>1, SidesAgree
    <3>2. QED
      BY <1>1, <2>1, <3>1, ListsHere
  <2>3. Belongs(Node, List, X, Smaller(elm)) /\ Belongs(Node, List, X, UpTo(elm))
    BY <1>1, <1>4, <2>2 DEF ListInv, Leads
  <2>4. Downward(Tree, Stays, Smaller(elm)) /\ Downward(Tree, Stays, UpTo(elm))
    BY <1>2, BothDownward
  <2>5. LinkSide \in TwoSides
    BY <2>1, SidesAgree
  <2>6. Belongs(Node, List, x, Smaller(elm))
    BY ONLY <1>1, <1>2, <2>1, <2>2, <2>3, <2>4, <2>5, BelongsBelow
  <2>7. Belongs(Node, List, x, UpTo(elm))
    BY ONLY <1>1, <1>2, <2>1, <2>2, <2>3, <2>4, <2>5, BelongsBelow
  <2>8. QED
    BY <2>2, <2>6, <2>7 DEF Leads
<1>5. QED
  BY <1>3, <1>4

LEMMA DescendListed ==
  ASSUME ListInv, Descend
  PROVE  ListInv' /\ List' = List
<1>1. TreeInv /\ TreeInv' /\ List' = List /\ Chained(Stays, List) /\ pc = "descend"
  BY DescendKeeps DEF ListInv, Descend
<1>2. elm' = elm /\ parent' = tmp /\ rbe_child' = rbe_child /\ cmp(elm, tmp) # 0 /\ tmp # NULL
  BY DEF Descend, tree
<1>3. Key[elm] # Key[tmp]
  <2>1. tmp \in Node /\ elm \in Node
    BY <1>1, <1>2, TreeNow DEF TreeInv, Locals
  <2>2. Key[tmp] \in Int /\ Key[elm] \in Int
    BY <2>1, KeyType
  <2>3. QED
    BY <1>2, <2>2 DEF cmp
<1>4. PICK X : X = Walk(rbe_child)[tmp]
  OBVIOUS
<1>5. Belongs(Node, List, X, Smaller(elm)) /\ Belongs(Node, List, X, UpTo(elm))
  BY <1>4, DescendLeads DEF Leads
<1>6. (Walk(rbe_child)[parent])' = X /\ Smaller(elm)' = Smaller(elm) /\ UpTo(elm)' = UpTo(elm)
  BY <1>2, <1>4 DEF Walk, Smaller, UpTo
<1>7. Leads(elm, Walk(rbe_child)[parent])'
  BY <1>1, <1>5, <1>6 DEF Leads
<1>8. (Chained(Stays, List))'
  BY <1>1 DEF Stays
<1>9. QED
  BY <1>1, <1>2, <1>3, <1>7, <1>8 DEF ListInv

\* Where the descent ends no element of the list has the key of the new one: what is before
\* its place is smaller, or what is behind it larger.
LEMMA KeyIsNew ==
  ASSUME NEW e \in Node, NEW p \in Node, Key[e] # Key[p], NEW y \in Seq(Node), NEW s,
         NEW d \in TwoSides, d = "left" <=> Key[e] < Key[p],
         NEW X \in Seq(Node), X = Put(d, <<>>, p, y), Chained(Stays, s),
         Belongs(Node, s, X, Smaller(e)), Belongs(Node, s, X, UpTo(e))
  PROVE  \A m \in Elements(s) : Key[m] # Key[e]
<1>1. PICK A, C :
        /\ PlacedAt(Node, s, X, A, C)
        /\ (d = "left" => Elements(A) \subseteq Smaller(e))
        /\ (d = "right" => Elements(C) \cap UpTo(e) = {})
  <2>1. CASE d = "left"
    BY <2>1 DEF Belongs
  <2>2. CASE d = "right"
    BY <2>2 DEF Belongs
  <2>3. QED
    BY <2>1, <2>2 DEF TwoSides
<1>2. A \in Seq(Node) /\ C \in Seq(Node) /\ s = (A \o X) \o C
  BY <1>1 DEF PlacedAt
<1>3. /\ Elements(s) = Elements(A) \cup Elements(X) \cup Elements(C)
      /\ Chained(Stays, X)
      /\ \A a \in Elements(A), x \in Elements(X) : <<a, x>> \in Stays
      /\ \A a \in Elements(A) \cup Elements(X), c \in Elements(C) : <<a, c>> \in Stays
  BY <1>2, ThreeParts, ThreePartsChained
<1>4. /\ Elements(X) = {p} \cup Elements(y)
      /\ d = "left" => \A m \in Elements(y) : <<p, m>> \in Stays
      /\ d = "right" => \A m \in Elements(y) : <<m, p>> \in Stays
  <2>1. Chained(Stays, Put(d, <<>>, p, y))
    BY <1>3
  <2>2. /\ Elements(Put(d, <<>>, p, y)) = {p} \cup Elements(y)
        /\ d = "left" => \A m \in Elements(y) : <<p, m>> \in Stays
        /\ d = "right" => \A m \in Elements(y) : <<m, p>> \in Stays
    BY <2>1, OneSided
  <2>3. QED
    BY <2>2
<1>5. /\ Elements(A) \subseteq Node /\ Elements(C) \subseteq Node /\ Elements(y) \subseteq Node
  BY <1>2, ElementOfSeq DEF Elements
<1>6. Key[e] \in Int /\ Key[p] \in Int
  BY KeyType
<1>7. SUFFICES ASSUME NEW m \in Elements(s), Key[m] = Key[e] PROVE FALSE
  OBVIOUS
<1>8. m \in Node /\ Key[m] \in Int /\ m # p
  BY <1>3, <1>4, <1>5, <1>7, KeyType
<1>a. m \notin Smaller(e) /\ m \in UpTo(e)
  BY <1>6, <1>7, <1>8 DEF Smaller, UpTo
<1>9. CASE d = "left"
  <2>1. Key[e] < Key[p]
    BY <1>9
  <2>2. m \notin Elements(A)
    BY <1>1, <1>9, <1>a
  <2>3. <<p, m>> \in Stays
    BY <1>3, <1>4, <1>8, <1>9, <2>2
  <2>4. QED
    BY <1>6, <1>7, <1>8, <2>1, <2>3, StaysHere
<1>10. CASE d = "right"
  <2>1. Key[p] < Key[e]
    BY <1>6, <1>10
  <2>2. m \notin Elements(C)
    BY <1>1, <1>10, <1>a
  <2>3. <<m, p>> \in Stays
    BY <1>3, <1>4, <1>8, <1>10, <2>2
  <2>4. QED
    BY <1>6, <1>7, <1>8, <2>1, <2>3, StaysHere
<1>11. QED
  BY <1>9, <1>10 DEF TwoSides

\* The new element was not in the tree; it comes in right behind the smaller ones.
LEMMA LinkPlaces ==
  ASSUME ListInv, Link
  PROVE  /\ elm \in Node /\ elm \notin Tree
         /\ \A m \in Tree : Key[m] # Key[elm]
         /\ PutsAbove(Node, List, List', elm, Smaller(elm))
<1>1. TreeInv /\ Chained(Stays, List) /\ pc = "descend" /\ tmp = NULL
  BY DEF ListInv, Link
<1>2. Elements(List) = Tree /\ List \in Seq(Node) /\ Tree \in SUBSET Node /\ elm \in Node
  BY <1>1, ListNow, TreeNow DEF TreeInv, Locals
<1>3. CASE parent = NULL
  <2>1. tmp = rbh_root
    BY <1>1, <1>3 DEF TreeInv, Locals
  <2>2. Tree = {}
    BY <1>1, <2>1, RootThere DEF TreeInv, Tree
  <2>3. List = <<>> /\ List' = <<elm>>
    BY <1>1, <1>3, <2>2, LinkRoot
  <2>4. PICK e \in Seq(Node) : e = <<>>
    BY EmptySeq
  <2>5. List = e \o e /\ List' = (e \o <<elm>>) \o e
    BY <1>2, <2>3, <2>4, OneElement, ConcatEmptySeq
  <2>6. Elements(e) = {}
    BY <2>4 DEF Elements
  <2>7. PutsAbove(Node, List, List', elm, Smaller(elm))
    BY <2>4, <2>5, <2>6 DEF PutsAbove
  <2>8. QED
    BY <1>2, <2>2, <2>7
<1>4. CASE parent # NULL
  <2>1. /\ parent \in Tree /\ parent \in Node /\ Key[elm] # Key[parent]
        /\ LinkSide \in Side /\ rbe_child[parent][LinkSide] = NULL
        /\ LinkSide = "left" <=> parent \notin Smaller(elm)
    BY <1>1, <1>4, DescentSide
  <2>2. LinkSide \in TwoSides /\ Opposite(LinkSide) \in Side /\ (LinkSide = "left" <=> Key[elm] < Key[parent])
    BY <2>1, SidesAgree DEF LinkSide, cmp
  <2>3. PICK y \in Seq(Node), X \in Seq(Node) :
          X = Walk(rbe_child)[parent] /\ X = Put(LinkSide, <<>>, parent, y)
    <3>1. /\ Walk(rbe_child)[parent] = Put(LinkSide, Walk(rbe_child)[rbe_child[parent][LinkSide]], parent,
                                           Walk(rbe_child)[rbe_child[parent][Opposite(LinkSide)]])
          /\ Walk(rbe_child)[rbe_child[parent][Opposite(LinkSide)]] \in Seq(Node)
          /\ Walk(rbe_child)[parent] \in Seq(Node)
          /\ Walk(rbe_child)[NULL] = <<>>
      BY <1>1, <2>1, <2>2, ListsHere
    <3>2. QED
      BY <2>1, <3>1
  <2>4. Belongs(Node, List, X, Smaller(elm)) /\ Belongs(Node, List, X, UpTo(elm))
    BY <1>1, <1>4, <2>3 DEF ListInv, Leads
  <2>5. \A m \in Elements(List) : Key[m] # Key[elm]
    BY ONLY <1>1, <1>2, <2>1, <2>2, <2>3, <2>4, KeyIsNew
  <2>6. elm \notin Tree
    BY <1>2, <2>5
  <2>7. PICK A, C :
          /\ PlacedAt(Node, List, X, A, C)
          /\ Elements(A) \subseteq Smaller(elm)
          /\ Elements(C) \cap Smaller(elm) = {}
    BY <2>4 DEF Belongs
  <2>8. PlacedAt(Node, List, Walk(rbe_child)[parent], A, C)
    BY <2>3, <2>7
  <2>9. PutsNext(Node, List, List', elm, A, Walk(rbe_child)[parent], C, LinkSide)
    BY <1>1, <1>4, <2>6, <2>8, LinkPuts
  <2>10. PutsNext(Node, List, List', elm, A, X, C, LinkSide)
    BY <2>3, <2>9
  <2>11. Downward(Tree, Stays, Smaller(elm)) /\ Elements(List) \subseteq Tree
    BY <1>2, BothDownward
  <2>12. PutsAbove(Node, List, List', elm, Smaller(elm))
    BY ONLY <1>1, <1>2, <2>1, <2>2, <2>3, <2>7, <2>10, <2>11, LeafBelongs
  <2>13. QED
    BY <1>2, <2>5, <2>6, <2>12
<1>5. QED
  BY <1>3, <1>4

LEMMA LinkListed ==
  ASSUME ListInv, Link
  PROVE  ListInv'
<1>1. /\ elm \in Node /\ elm \notin Tree
      /\ \A m \in Tree : Key[m] # Key[elm]
      /\ PutsAbove(Node, List, List', elm, Smaller(elm))
  BY LinkPlaces
<1>2. TreeInv /\ TreeInv' /\ Chained(Stays, List) /\ pc' # "descend"
  BY <1>1, LinkKeeps DEF ListInv, Link
<1>3. Elements(List) = Tree /\ Tree \subseteq Node
  BY <1>2, ListNow, TreeNow
<1>4. ASSUME NEW m \in Tree
      PROVE  (m \in Smaller(elm) => <<m, elm>> \in Stays) /\ (m \notin Smaller(elm) => <<elm, m>> \in Stays)
  <2>1. /\ m \in Smaller(elm) <=> Key[m] < Key[elm]
        /\ <<m, elm>> \in Stays <=> Key[m] < Key[elm]
        /\ <<elm, m>> \in Stays <=> Key[elm] < Key[m]
        /\ Key[m] \in Int /\ Key[elm] \in Int /\ Key[m] # Key[elm]
    BY <1>1, <1>3, StaysHere
  <2>2. QED
    BY <2>1
<1>5. PICK Low : Low = Smaller(elm)
  OBVIOUS
<1>6. /\ \A m \in Elements(List) : m \in Low => <<m, elm>> \in Stays
      /\ \A m \in Elements(List) : m \notin Low => <<elm, m>> \in Stays
  BY <1>3, <1>4, <1>5
<1>7. Chained(Stays, List')
  BY <1>1, <1>2, <1>5, <1>6, PutsKeepsChain
<1>8. (Chained(Stays, List))'
  BY <1>7 DEF Stays
<1>9. QED
  BY <1>2, <1>8 DEF ListInv

\* An element that goes leaves the others in their order.
LEMMA RemoveListed ==
  ASSUME ListInv, NEW n \in InTree, RB_REMOVE(n)
  PROVE  ListInv' /\ n \in Node /\ Removes(Node, List, List', n)
<1>1. TreeInv /\ Chained(Stays, List)
  BY DEF ListInv
<1>2. n \in Tree /\ n \in Node
  BY <1>1, InTreeIsTree, TreeNow
<1>3. TreeInv' /\ Removes(Node, List, List', n)
  BY <1>1, <1>2, RemoveOuterKeeps, RemoveInnerKeeps DEF RB_REMOVE
<1>4. Chained(Stays, List')
  BY <1>1, <1>2, <1>3, RemovesKeepsChain
<1>5. (Chained(Stays, List))'
  BY <1>4 DEF Stays
<1>6. pc' # "descend"
  BY DEF RB_REMOVE, RemoveOuter, RemoveInner, Repair
<1>7. QED
  BY <1>2, <1>3, <1>5, <1>6 DEF ListInv

\* Neither the begin of an insertion nor a turn that rebalances changes the list.
LEMMA QuietListed ==
  ASSUME ListInv,
         \/ \E n \in Node : RB_INSERT(n)
         \/ Hit \/ InsertFlip \/ InsertRotate \/ InsertDone
         \/ RemoveRedSibling \/ RemoveFlip \/ RemoveRotate \/ RemoveDone
  PROVE  ListInv' /\ List' = List
<1>1. TreeInv
  BY DEF ListInv
<1>2. TreeInv' /\ List' = List
  BY <1>1, InsertKeeps, HitKeeps, InsertFlipKeeps, InsertRotateKeeps, InsertDoneKeeps,
     RemoveRedSiblingKeeps, RemoveFlipKeeps, RemoveRotateKeeps, RemoveDoneKeeps
<1>3. pc' # "descend" \/ parent' = NULL
  <2>1. CASE \E n \in Node : RB_INSERT(n)
    BY <2>1 DEF RB_INSERT
  <2>2. CASE Hit
    BY <2>2 DEF Hit, Return
  <2>3. CASE InsertFlip
    BY <2>3 DEF InsertFlip, InsertGoesOn
  <2>4. CASE InsertRotate
    BY <2>4 DEF InsertRotate, InsertGoesOn
  <2>5. CASE InsertDone
    BY <2>5 DEF InsertDone, Return
  <2>6. CASE RemoveRedSibling
    BY <2>6 DEF RemoveRedSibling, RemoveTurn, RemoveGoesOn
  <2>7. CASE RemoveFlip
    BY <2>7 DEF RemoveFlip, RemoveTurn, RemoveGoesOn
  <2>8. CASE RemoveRotate
    BY <2>8 DEF RemoveRotate, RemoveTurn, RemoveGoesOn
  <2>9. CASE RemoveDone
    BY <2>9 DEF RemoveDone, Return
  <2>10. QED
    BY <2>1, <2>2, <2>3, <2>4, <2>5, <2>6, <2>7, <2>8, <2>9
<1>4. QED
  BY <1>2, <1>3, QuietKeeps

LEMMA UnchangedListed ==
  ASSUME ListInv, UNCHANGED vars
  PROVE  ListInv' /\ List' = List
<1>1. /\ rbh_root' = rbh_root /\ rbe_child' = rbe_child /\ rbe_parent' = rbe_parent
      /\ rbe_color' = rbe_color /\ pc' = pc /\ elm' = elm /\ parent' = parent /\ tmp' = tmp
  BY DEF vars, tree
<1>2. List' = List /\ Tree' = Tree /\ Stays' = Stays /\ Smaller(elm)' = Smaller(elm)
      /\ UpTo(elm)' = UpTo(elm)
      /\ (Walk(rbe_child)[parent])' = Walk(rbe_child)[parent] /\ black' = black
  BY <1>1 DEF List, Walk, Tree, Members, Stays, Smaller, UpTo, black
<1>3. TreeInv
  BY DEF ListInv
<1>4. Planted(rbh_root, rbe_child, rbe_parent)'
  BY <1>1, <1>3, SamePointers
<1>5. OtherTypes'
  BY <1>1, <1>3, TypesApart DEF OtherTypes
<1>6. TypeOK'
  BY <1>4, <1>5, TypesTogether
<1>7. ElmSide' = ElmSide /\ LinkSide' = LinkSide /\ (RemoveGoesOn' <=> RemoveGoesOn)
  BY <1>1 DEF ElmSide, LinkSide, cmp, RemoveGoesOn, IsRed
<1>8. Locals'
  BY <1>1, <1>2, <1>3, <1>7 DEF Locals, TreeInv
<1>9. Blk' = Blk /\ Upset' = Upset /\ SlotNode' = SlotNode /\ SlotSide' = SlotSide
  BY <1>1, <1>2, <1>7 DEF Blk, Upset, SlotNode, SlotSide
<1>10. Colors'
  BY <1>1, <1>2, <1>3, <1>9 DEF Colors, TreeInv
<1>11. Leads(elm, Walk(rbe_child)[parent])' <=> Leads(elm, Walk(rbe_child)[parent])
  BY <1>1, <1>2 DEF Leads
<1>12. QED
  BY <1>1, <1>2, <1>4, <1>6, <1>8, <1>10, <1>11 DEF ListInv, TreeInv

LEMMA StepListed ==
  ASSUME ListInv, [Next]_vars
  PROVE  ListInv'
<1>1. CASE UNCHANGED vars
  BY <1>1, UnchangedListed
<1>2. CASE Descend
  BY <1>2, DescendListed
<1>3. CASE Link
  BY <1>3, LinkListed
<1>4. CASE \E n \in InTree : RB_REMOVE(n)
  BY <1>4, RemoveListed
<1>5. CASE \/ \E n \in Node : RB_INSERT(n)
           \/ Hit \/ InsertFlip \/ InsertRotate \/ InsertDone
           \/ RemoveRedSibling \/ RemoveFlip \/ RemoveRotate \/ RemoveDone
  BY <1>5, QuietListed
<1>6. QED
  BY <1>1, <1>2, <1>3, <1>4, <1>5 DEF Next, Caller, Run

LEMMA InitListed ==
  ASSUME Init
  PROVE  ListInv /\ List = <<>>
<1>1. TreeInv /\ pc = "idle" /\ rbh_root = NULL
  BY InitInv DEF Init
<1>2. List = <<>>
  BY <1>1, PlantedIsWalked DEF TreeInv, Listed, List
<1>3. Chained(Stays, List)
  BY <1>2, OneChained
<1>4. QED
  BY <1>1, <1>2, <1>3 DEF ListInv

\* The inductive invariant holds of every state that the callers can reach.
THEOREM ListInvariant == Spec => []ListInv
<1>1. Init => ListInv
  BY InitListed
<1>2. ListInv /\ [Next]_vars => ListInv'
  BY StepListed
<1>3. QED
  BY <1>1, <1>2, PTL DEF Spec

-----------------------------------------------------------------------------
(* What the invariant says. *)

\* WellLinked: at every turn of every loop each child names its parent, and while a removal
\* repairs the tree, elm, NULL perhaps, hangs below the local variable parent, although
\* RB_REMOVE moved elements after it read parent from the tree.
THEOREM AlwaysWellLinked == Spec => []WellLinked
<1>1. ListInv => WellLinked
  <2> SUFFICES ASSUME ListInv PROVE WellLinked
    OBVIOUS
  <2>1. TreeInv /\ TypeOK /\ InTree = Tree
    BY InTreeIsTree DEF ListInv, TreeInv
  <2>2. /\ \A n \in InTree, d \in Side :
             rbe_child[n][d] # NULL => rbe_parent[rbe_child[n][d]] = n
        /\ rbh_root # NULL => rbe_parent[rbh_root] = NULL
    BY <2>1, TreeNow
  <2>3. RemoveGoesOn => parent \in InTree /\ elm \in {rbe_child[parent][d] : d \in Side}
    <3>1. SUFFICES ASSUME RemoveGoesOn
                   PROVE  parent \in Tree /\ elm \in {rbe_child[parent][d] : d \in Side}
      BY <2>1
    <3>2. parent \in Tree /\ ElmSide \in Side /\ rbe_child[parent][ElmSide] = elm
      BY <2>1, <3>1, RemovePlace
    <3>3. QED
      BY <3>2
  <2>4. QED
    BY <2>1, <2>2, <2>3 DEF WellLinked, LinksAgree
<1>2. QED
  BY <1>1, ListInvariant, PTL

\* The colors that the invariant is about are those that RBShape counts.
LEMMA ColorsInShape ==
  ASSUME TreeInv, NEW blk, NEW v, NEW x, NEW e0,
         Colored(Tree, NULL, rbe_child, rbe_parent, blk, v, x, e0),
         NEW blk2, \A m \in Tree : m \in blk \/ m = v => m \in blk2
  PROVE  NoRedRed(rbe_child, blk2, rbh_root) /\ Balanced(rbe_child, blk, rbh_root, <<x, e0>>)
<1>1. PICK S, ch, par, r : S = Tree /\ ch = rbe_child /\ par = rbe_parent /\ r = rbh_root
  OBVIOUS
<1>2. /\ S \in SUBSET Node /\ Planted(r, ch, par) /\ S = Members(r, par)
      /\ r \in S \cup {NULL}
      /\ Hung(S, NULL, r, ch, par)
  BY <1>1, TreeNow DEF TreeInv, Tree
<1>3. PICK h : Shaped(ch, par, S, NULL, h, Max)
  BY <1>2, PlantedIsWalked
<1>4. (\A n \in S : h[n] \in 1..Max) /\ Below(ch, S, NULL, h)
  BY <1>3 DEF Shaped
<1>5. PICK extra : extra = <<x, e0>>
  OBVIOUS
<1>6. PICK B : Labelled(S, NULL, ch, blk, B, x, e0)
  BY <1>1 DEF Colored
<1>7. PathLabels(B, S, NULL, ch, blk, extra)
  <2>1. \A n, d : n = x /\ d = e0 <=> <<n, d>> = extra
    BY <1>5
  <2>2. \A n \in S, d \in TwoSides :
          B[n] = B[ch[n][d]] + One(n \in blk) + One(n = x /\ d = e0)
    BY <1>6 DEF Labelled
  <2>3. \A n \in S, d \in TwoSides : One(n = x /\ d = e0) = One(<<n, d>> = extra)
    BY <2>1 DEF One
  <2>4. \A n \in S, d \in TwoSides :
          B[n] = B[ch[n][d]] + One(n \in blk) + One(<<n, d>> = extra)
    BY <2>2, <2>3
  <2>5. B[NULL] = 0 /\ \A n \in S : B[n] \in Nat
    BY <1>6 DEF Labelled
  <2>6. QED
    BY <2>4, <2>5 DEF PathLabels
<1>8. CountIs(CountsWalk(NodeOrNil, ch, NULL, Max, blk, extra)[Max][r], B[r])
  BY <1>2, <1>4, <1>7, MaxType, CountsAreLabels DEF NodeOrNil
<1>9. BlackCounts(ch, blk, r, extra) = {B[r]}
  BY <1>8, WalksOfShape DEF CountIs
<1>10. Balanced(ch, blk, r, extra)
  BY <1>9, FS_Singleton DEF Balanced
<1>11. NoRedRed(ch, blk2, r)
  <2>1. PICK walk : walk = InOrder(ch, r)
    OBVIOUS
  <2>2. \A i \in DOMAIN walk : walk[i] \in S
    <3>1. walk = Walk(ch)[r]
      BY <2>1, WalksOfShape
    <3>2. Nodes(Walk(ch), r) = S
      BY <1>2, PlantedIsWalked DEF Listed
    <3>3. QED
      BY <3>1, <3>2 DEF Nodes, Elements
  <2>3. ASSUME NEW n \in S, NEW d \in Side, n \notin blk2, ch[n][d] \notin blk2
        PROVE  ch[n][d] = NULL
    <3>1. ch[n][d] \in S \cup {NULL} /\ (ch[n][d] # NULL => par[ch[n][d]] = n)
      BY <1>2, SidesAgree DEF Hung
    <3>2. Reds(S, par, blk, v)
      BY <1>1 DEF Colored
    <3>3. n \notin blk /\ (ch[n][d] \in S => ch[n][d] \notin blk /\ ch[n][d] # v)
      BY <1>1, <2>3
    <3>4. QED
      BY <3>1, <3>2, <3>3 DEF Reds
  <2>4. QED
    BY <2>1, <2>2, <2>3 DEF NoRedRed
<1>12. QED
  BY <1>1, <1>5, <1>10, <1>11

LEMMA InvIsRedBlack ==
  ASSUME TreeInv
  PROVE  RedBlackThroughout
<1>1. /\ Tree \subseteq Node /\ NULL \notin Tree /\ rbh_root \in Tree \cup {NULL}
      /\ Hung(Tree, NULL, rbh_root, rbe_child, rbe_parent)
  BY TreeNow
<1>2. PICK blk, v, x, e0 : blk = Blk /\ v = Upset /\ x = SlotNode /\ e0 = SlotSide
  OBVIOUS
<1>3. Colored(Tree, NULL, rbe_child, rbe_parent, blk, v, x, e0)
  BY <1>2 DEF TreeInv, Colors
<1>4. ASSUME pc \in {"idle", "descend"}
      PROVE  IsRedBlack(rbe_child, black, rbh_root)
  <2>1. blk = black /\ v = NULL /\ x = NULL /\ e0 = "left"
    BY <1>2, <1>4 DEF Blk, Upset, SlotNode, SlotSide, RemoveGoesOn
  <2>2. \A m \in Tree : m \in black \/ m = NULL => m \in black
    BY <1>1
  <2>3. NoRedRed(rbe_child, black, rbh_root) /\ Balanced(rbe_child, black, rbh_root, NoSlot)
    BY <1>3, <2>1, <2>2, ColorsInShape DEF NoSlot
  <2>4. rbh_root \in black \cup {NULL}
    BY <1>1, <1>3, <2>1, ColoredRoot
  <2>5. QED
    BY <2>3, <2>4 DEF IsRedBlack
<1>5. ASSUME pc = "insert_color"
      PROVE  /\ NoRedRed(rbe_child, black \cup {elm}, rbh_root)
             /\ Balanced(rbe_child, black, rbh_root, NoSlot)
             /\ InsertGoesOn => gparent \in black
  <2>1. blk = black /\ v = elm /\ x = NULL /\ e0 = "left"
    BY <1>2, <1>5 DEF Blk, Upset, SlotNode, SlotSide, RemoveGoesOn
  <2>2. \A m \in Tree : m \in black \/ m = elm => m \in black \cup {elm}
    OBVIOUS
  <2>3. NoRedRed(rbe_child, black \cup {elm}, rbh_root) /\ Balanced(rbe_child, black, rbh_root, NoSlot)
    BY <1>3, <2>1, <2>2, ColorsInShape DEF NoSlot
  <2>4. InsertGoesOn => gparent \in black
    BY InsertPlace
  <2>5. QED
    BY <2>3, <2>4
<1>6. ASSUME pc = "remove_color"
      PROVE  /\ NoRedRed(rbe_child, black \cup {elm}, rbh_root)
             /\ RemoveGoesOn => Sibling # NULL
             /\ Balanced(rbe_child, black \cup {elm}, rbh_root,
                         IF RemoveGoesOn THEN <<parent, ElmSide>> ELSE NoSlot)
  <2>1. blk = black \cup {elm} /\ v = NULL
    BY <1>2, <1>6 DEF Blk, Upset
  <2>2. PICK extra : extra = IF RemoveGoesOn THEN <<parent, ElmSide>> ELSE NoSlot
    OBVIOUS
  <2>3. <<x, e0>> = extra
    BY <1>2, <2>2 DEF SlotNode, SlotSide, NoSlot
  <2>4. \A m \in Tree : m \in blk \/ m = v => m \in blk
    BY <1>1, <2>1
  <2>5. NoRedRed(rbe_child, blk, rbh_root) /\ Balanced(rbe_child, blk, rbh_root, <<x, e0>>)
    BY <1>3, <2>4, ColorsInShape
  <2>6. RemoveGoesOn => Sibling # NULL
    BY <1>1, RemovePlace
  <2>7. QED
    BY <2>1, <2>2, <2>3, <2>5, <2>6
<1>7. QED
  BY <1>4, <1>5, <1>6 DEF RedBlackThroughout, RedBlackAtRest, LoopInvariants

\* RedBlackThroughout: whenever no loop repairs it the tree is a red-black tree, and inside
\* of the loops it is as wrong as the loop takes it to be; the grandparent and the sibling
\* that the loops read unchecked are there.
THEOREM AlwaysRedBlack == Spec => []RedBlackThroughout
<1>1. ListInv => RedBlackThroughout
  BY InvIsRedBlack DEF ListInv
<1>2. QED
  BY <1>1, ListInvariant, PTL

-----------------------------------------------------------------------------
(* The list is that of SortedList, where no key is there twice. *)

\* What Abstract calls its list.
LEMMA AbstractList ==
  ASSUME TreeInv, TreeInv'
  PROVE  \E s \in Seq(Node), s2 \in Seq(Node) :
           /\ s = List /\ s2 = List'
           /\ s = order /\ s2 = order'
           /\ Distinct(s) /\ Elements(s) = Tree
BY ListNow, ListNext, OrderIsList

\* A new key comes in where it belongs.
LEMMA LinkPutsByKey ==
  ASSUME ListInv, Link
  PROVE  PutsByKey(Node, List, List', elm, Key)
<1>1. PutsAbove(Node, List, List', elm, Smaller(elm)) /\ elm \in Node
      /\ \A m \in Tree : Key[m] # Key[elm]
  BY LinkPlaces
<1>2. PICK P \in Seq(Node), Q \in Seq(Node) :
        /\ List = P \o Q
        /\ List' = (P \o <<elm>>) \o Q
        /\ Elements(P) \subseteq Smaller(elm)
        /\ Elements(Q) \cap Smaller(elm) = {}
  BY <1>1 DEF PutsAbove
<1>3. Elements(P) \subseteq Tree /\ Elements(Q) \subseteq Tree /\ Tree \subseteq Node
  <2>1. TreeInv
    BY DEF ListInv
  <2>2. QED
    BY <1>2, <2>1, ListNow, TreeNow, ConcatElements
<1>4. \A m \in Tree : /\ m \in Smaller(elm) <=> Key[m] < Key[elm]
                      /\ Key[m] \in Int /\ Key[elm] \in Int
  BY <1>1, <1>3, StaysHere
<1>5. /\ \A m \in Elements(P) : Key[m] =< Key[elm]
      /\ \A m \in Elements(Q) : Key[elm] < Key[m]
  BY <1>1, <1>2, <1>3, <1>4
<1>6. QED
  BY <1>1, <1>2, <1>5 DEF PutsByKey

LEMMA LinkIsNext ==
  ASSUME ListInv, Link
  PROVE  Abstract!SetNext
<1>1. TreeInv /\ TreeInv'
  BY LinkListed DEF ListInv
<1>2. PICK s \in Seq(Node), s2 \in Seq(Node) :
           /\ s = List /\ s2 = List'
           /\ s = order /\ s2 = order'
           /\ Distinct(s) /\ Elements(s) = Tree
  BY <1>1, AbstractList
<1>3. PICK n \in Node : /\ n = elm /\ n \notin Elements(s)
                        /\ \A m \in Elements(s) : Key[m] # Key[n]
  BY <1>2, LinkPlaces
<1>4. PutsByKey(Node, s, s2, n, Key)
  BY <1>2, <1>3, LinkPutsByKey
<1>5. InAt(s, s2, n, Key) /\ n \in Elements(s2)
  BY <1>2, <1>4, KeyType, PutsAtCount
<1>6. PICK i \in Nat :
        /\ i = Cardinality({m \in Elements(s) : Key[m] =< Key[n]})
        /\ s2 = SubSeq(s, 1, i) \o <<n>> \o SubSeq(s, i + 1, Len(s))
  BY <1>5 DEF InAt
<1>7. s2 = Abstract!InsertAt(s, i + 1, n)
  <2>1. (i + 1) - 1 = i
    OBVIOUS
  <2>2. QED
    BY <1>6, <2>1 DEF Abstract!InsertAt
<1>8. i = Abstract!Cardinality({m \in Elements(s) : Key[m] =< Key[n]})
  BY <1>6 DEF Abstract!Cardinality, Cardinality
<1>9. Abstract!Add(n)
  BY <1>2, <1>7, <1>8 DEF Abstract!Add, Abstract!Present, Abstract!ToSet, Elements
<1>10. Key[n] \notin {Key[m] : m \in Abstract!Present}
  BY <1>2, <1>3 DEF Abstract!Present, Abstract!ToSet, Elements
<1>11. n \in Abstract!Came
  BY <1>2, <1>3, <1>5 DEF Abstract!Came, Abstract!Present, Abstract!ToSet, Elements
<1>12. QED
  BY <1>9, <1>10, <1>11 DEF Abstract!SetNext, Abstract!AddNew

LEMMA RemoveIsNext ==
  ASSUME ListInv, NEW n \in InTree, RB_REMOVE(n)
  PROVE  Abstract!SetNext
<1>1. TreeInv /\ TreeInv' /\ n \in Node /\ Removes(Node, List, List', n)
  BY RemoveListed DEF ListInv
<1>2. PICK s \in Seq(Node), s2 \in Seq(Node) :
           /\ s = List /\ s2 = List'
           /\ s = order /\ s2 = order'
           /\ Distinct(s) /\ Elements(s) = Tree
  BY <1>1, AbstractList
<1>3. OutAt(s, s2, n) /\ n \in Elements(s) /\ n \notin Elements(s2)
  BY <1>1, <1>2, RemovesAtPlace
<1>4. Abstract!Erase(n)
  BY <1>2, <1>3 DEF OutAt, Abstract!Erase, Abstract!RemoveAt
<1>5. n \in Abstract!Gone
  BY <1>2, <1>3 DEF Abstract!Gone, Abstract!Present, Abstract!ToSet, Elements
<1>6. QED
  BY <1>4, <1>5 DEF Abstract!SetNext

LEMMA StepIsSorted ==
  ASSUME ListInv, [Next]_vars
  PROVE  [Abstract!SetNext]_order
<1>1. ASSUME List' = List PROVE order' = order
  BY <1>1, OrderIsList
<1>2. CASE UNCHANGED vars
  BY <1>1, <1>2, UnchangedListed
<1>3. CASE Descend
  BY <1>1, <1>3, DescendListed
<1>4. CASE Link
  BY <1>4, LinkIsNext
<1>5. CASE \E n \in InTree : RB_REMOVE(n)
  BY <1>5, RemoveIsNext
<1>6. CASE \/ \E n \in Node : RB_INSERT(n)
           \/ Hit \/ InsertFlip \/ InsertRotate \/ InsertDone
           \/ RemoveRedSibling \/ RemoveFlip \/ RemoveRotate \/ RemoveDone
  BY <1>1, <1>6, QuietListed
<1>7. QED
  BY <1>2, <1>3, <1>4, <1>5, <1>6 DEF Next, Caller, Run

\* IsSortedSet: a walk from left to right meets the elements in the order of a sorted list
\* without two equal keys, which every insertion of a new key and every removal changes at
\* one place, and no turn of a loop does.
THEOREM TreeIsSortedSet == Spec => IsSortedSet
<1>1. Init => Abstract!Init /\ ListInv
  <2> SUFFICES ASSUME Init PROVE Abstract!Init /\ ListInv
    OBVIOUS
  <2>1. List = <<>> /\ ListInv
    BY InitListed
  <2>2. QED
    BY <2>1, OrderIsList DEF Abstract!Init
<1>2. ListInv /\ [Next]_vars => ListInv' /\ [Abstract!SetNext]_order
  BY StepListed, StepIsSorted
<1>3. QED
  BY <1>1, <1>2, PTL DEF Spec, IsSortedSet, Abstract!SetSpec
=============================================================================
