--------------------------- MODULE NgxRbtreeProof ---------------------------
(***************************************************************************)
(* What holds of the nginx tree for every number of nodes and every width  *)
(* of the keys: the pointers are those of a tree at every turn of every    *)
(* loop; the colors are right, or as wrong as the running loop takes them  *)
(* to be; the nodes are in the order of the function that the tree holds,  *)
(* so that the tree is a sorted list, or timers in order; and the walks    *)
(* visit them in that order.  Each step is a change of shape and of colors *)
(* that TreeProof knows: a rotation, a leaf that comes, a node that        *)
(* leaves, a node that takes the place of another.                         *)
(***************************************************************************)
EXTENDS NgxRbtree, TreeProof

Max == Cardinality(Node)

\* There are finitely many nodes (FiniteNodes), so the walks have a budget.
LEMMA MaxType == Max \in Nat
BY FiniteNodes, FS_CardinalityType DEF Max

\* TreeProof and NgxRbtree call the sides the same.
LEMMA SidesAgree ==
  /\ Side = TwoSides
  /\ Side = {"left", "right"}
  /\ \A d : Opposite(d) = Across(d)
  /\ \A d \in Side : Opposite(d) \in Side /\ Opposite(d) # d /\ Opposite(Opposite(d)) = d
BY DEF Side, TwoSides, Opposite, Across

-----------------------------------------------------------------------------
(* The tree in the memory. *)

\* The parents of the nodes, where that of the root, which may be stale, is none.
ParOf(r, par) == [n \in Node |-> IF n = r THEN sentinel ELSE par[n]]
Par == ParOf(root, parent)

\* The nodes that are in a tree.
In(ch) == {n \in Node : ch[n] # Cleared}

Planted(r, ch, par) ==
  /\ r \in Cell
  /\ ch \in [Node -> [Side -> Cell] \cup {Cleared}]
  /\ par \in [Cell -> Cell \cup {NULL}]
  /\ Grown(In(ch), sentinel, r, ch, ParOf(r, par))

\* A node has children, or is cleared.
LEMMA NotCleared ==
  ASSUME NEW f \in [Side -> Cell]
  PROVE  f # Cleared
<1>1. "left" \in Side
  BY SidesAgree
<1>2. Cleared["left"] = NULL /\ f["left"] \in Cell
  BY <1>1 DEF Cleared
<1>3. QED
  BY <1>2, NgxAssumption DEF Cell

\* What a planted tree is like, pointer by pointer.
LEMMA PlantedType ==
  ASSUME NEW r, NEW ch, NEW par, Planted(r, ch, par)
  PROVE  /\ In(ch) \subseteq Node /\ sentinel \notin In(ch)
         /\ \A n \in In(ch) : ch[n] \in [Side -> Cell]
         /\ r \in In(ch) \cup {sentinel}
         /\ Hung(In(ch), sentinel, r, ch, ParOf(r, par))
         /\ \A n \in In(ch) : ParOf(r, par)[n] = IF n = r THEN sentinel ELSE par[n]
         /\ \A n \in In(ch) : n # r => /\ par[n] \in In(ch)
                                       /\ \E d \in Side : ch[par[n]][d] = n
         /\ \A n \in In(ch), d \in Side :
              /\ ch[n][d] \in In(ch) \cup {sentinel}
              /\ ch[n][d] # sentinel => par[ch[n][d]] = n /\ ch[n][d] # r
<1>1. In(ch) \subseteq Node /\ sentinel \notin In(ch)
  BY NgxAssumption DEF In
<1>2. \A n \in In(ch) : ch[n] \in [Side -> Cell]
  BY DEF In, Planted
<1>3. Hung(In(ch), sentinel, r, ch, ParOf(r, par))
  BY GrownIsHung DEF Planted
<1>4. \A n \in In(ch) : ParOf(r, par)[n] = IF n = r THEN sentinel ELSE par[n]
  BY <1>1 DEF ParOf
<1>5. r \in In(ch) \cup {sentinel}
  BY <1>3 DEF Hung
<1>6. ASSUME NEW n \in In(ch), n # r
      PROVE  par[n] \in In(ch) /\ \E d \in Side : ch[par[n]][d] = n
  BY <1>3, <1>4, <1>6, SidesAgree DEF Hung
<1>7. ASSUME NEW n \in In(ch), NEW d \in Side
      PROVE  /\ ch[n][d] \in In(ch) \cup {sentinel}
             /\ ch[n][d] # sentinel => par[ch[n][d]] = n /\ ch[n][d] # r
  <2>1. /\ ch[n][d] \in In(ch) \cup {sentinel}
        /\ ch[n][d] # sentinel => ParOf(r, par)[ch[n][d]] = n /\ ch[n][d] # r
    BY <1>3, SidesAgree DEF Hung
  <2>2. QED
    BY <1>4, <2>1
<1>8. QED
  BY <1>1, <1>2, <1>3, <1>4, <1>5, <1>6, <1>7

\* The list of the nodes below each node.
Walk(ch) == InOrderWalk(NodeOrNil, ch, sentinel, Max)[Max]

\* The walks of RBShape are those of TreeProof, with a budget of all nodes.
LEMMA WalksOfShape ==
  ASSUME NEW ch, NEW r, NEW blk, NEW extra
  PROVE  /\ InOrder(ch, r) = Walk(ch)[r]
         /\ BlackCounts(ch, blk, r, extra)
              = CountsWalk(NodeOrNil, ch, sentinel, Max, blk, extra)[Max][r]
<1>1. InOrder(ch, r) = InOrderWalk(NodeOrNil, ch, sentinel, Max)[Max][r]
  BY DEF InOrder, Levels, InOrderWalk, InOrderTurns, InOrderTurn, Max
<1>2. BlackCounts(ch, blk, r, extra)
        = CountsWalk(NodeOrNil, ch, sentinel, Max, blk, extra)[Max][r]
  BY DEF BlackCounts, Levels, CountsWalk, CountsTurns, CountsTurn, Side, TwoSides, One, Max
<1>3. QED
  BY <1>1, <1>2 DEF Walk

\* The heights of a planted tree fit into the budget, and the walk unfolds.
LEMMA PlantedIsWalked ==
  ASSUME NEW r, NEW ch, NEW par, Planted(r, ch, par)
  PROVE  /\ \E h : Shaped(ch, ParOf(r, par), In(ch), sentinel, h, Max)
         /\ Rooted(ch, ParOf(r, par), r, In(ch), sentinel)
         /\ IsInOrder(Walk(ch), ch, In(ch), sentinel)
         /\ Listed(In(ch), sentinel, r, ch, ParOf(r, par), Walk(ch))
<1>1. In(ch) \in SUBSET Node /\ Cardinality(In(ch)) =< Max
  BY FiniteNodes, FS_Subset DEF In, Max
<1>2. PICK S, p : S = In(ch) /\ p = ParOf(r, par)
  OBVIOUS
<1>3. Grown(S, sentinel, r, ch, p)
  BY <1>2 DEF Planted
<1>4. (\E h : Shaped(ch, p, S, sentinel, h, Max)) /\ Rooted(ch, p, r, S, sentinel)
  BY <1>1, <1>2, <1>3, MaxType, GrownIsShaped
<1>5. PICK h : Shaped(ch, p, S, sentinel, h, Max)
  BY <1>4
<1>6. (\A n \in S : h[n] \in 1..Max) /\ Below(ch, S, sentinel, h)
  BY <1>5 DEF Shaped
<1>7. IsInOrder(Walk(ch), ch, S, sentinel)
  BY <1>1, <1>2, <1>6, MaxType, InOrderUnfolds DEF Walk, NodeOrNil
<1>8. Listed(S, sentinel, r, ch, p, Walk(ch))
  BY <1>3, <1>7, GrownIsListed
<1>9. QED
  BY <1>2, <1>4, <1>7, <1>8

\* Where there is a node there is a root.
LEMMA RootThere ==
  ASSUME NEW r, NEW ch, NEW par, Planted(r, ch, par), NEW n \in In(ch)
  PROVE  r \in In(ch) /\ r # sentinel
<1>1. r \in In(ch) \cup {sentinel} /\ sentinel \notin In(ch)
  BY PlantedType
<1>2. Nodes(Walk(ch), sentinel) = {} /\ Nodes(Walk(ch), r) = In(ch)
  BY PlantedIsWalked DEF Listed
<1>3. QED
  BY <1>1, <1>2

-----------------------------------------------------------------------------
(* Rotations. *)

\* t is a memory with a tree in it.
Grows(t) == Planted(t.root, t.child, t.parent)

\* What a rotation at n to side d does: up comes up.
Rotated(t, u, n, up, d) ==
  /\ Grows(u)
  /\ In(u.child) = In(t.child)
  /\ u.parent[sentinel] = t.parent[sentinel]
  /\ Turns(In(t.child), t.root, t.child, ParOf(t.root, t.parent),
           u.root, u.child, ParOf(u.root, u.parent), n, up, d)
  /\ \A m \in Node : m \notin In(t.child) => u.child[m] = t.child[m]

\* Where the tree is around the rotation.
LEMMA RotatePlace ==
  ASSUME NEW t, Grows(t), NEW n \in In(t.child), NEW d \in Side, NEW up,
         up = t.child[n][Opposite(d)], up # sentinel
  PROVE  /\ up \in In(t.child) /\ up # n /\ t.parent[up] = n /\ up # t.root
         /\ t.child[up][d] \in (In(t.child) \cup {sentinel}) \ {n, up, t.root}
         /\ t.child[up][d] # sentinel => t.parent[t.child[up][d]] = up
         /\ n # t.root => /\ t.parent[n] \in In(t.child) \ {n, up}
                          /\ \A e \in Side : t.child[t.parent[n]][e] = n
                                <=> e = IF n = t.child[t.parent[n]][d] THEN d ELSE Opposite(d)
<1> DEFINE S == In(t.child)
           p == ParOf(t.root, t.parent)
<1>1. Planted(t.root, t.child, t.parent)
  BY DEF Grows
<1>2. /\ S \subseteq Node /\ sentinel \notin S
      /\ Hung(S, sentinel, t.root, t.child, p)
      /\ \A m \in S : p[m] = IF m = t.root THEN sentinel ELSE t.parent[m]
      /\ \A m \in S : m # t.root => /\ t.parent[m] \in S
                                    /\ \E e \in Side : t.child[t.parent[m]][e] = m
      /\ \A m \in S, e \in Side :
           /\ t.child[m][e] \in S \cup {sentinel}
           /\ t.child[m][e] # sentinel => t.parent[t.child[m][e]] = m /\ t.child[m][e] # t.root
  BY <1>1, PlantedType
<1>3. \A m \in S, e \in Side : /\ t.child[m][e] # sentinel => /\ t.child[m][e] # m
                                                              /\ t.child[m][e] # p[m]
                                                              /\ t.child[m][e] # t.child[m][Across(e)]
                               /\ p[m] # m
  BY <1>2, SidesAgree DEF Hung
<1> HIDE DEF S, p
<1>4. Opposite(d) \in Side /\ Opposite(d) # d /\ Across(d) = Opposite(d) /\ Across(Opposite(d)) = d
  BY SidesAgree
<1>5. up \in S /\ up # n /\ t.parent[up] = n /\ up # t.root /\ p[up] = n
  BY <1>2, <1>3, <1>4 DEF S
<1>6. /\ t.child[up][d] \in (S \cup {sentinel}) \ {n, up, t.root}
      /\ t.child[up][d] # sentinel => t.parent[t.child[up][d]] = up
  <2>1. PICK c : c = t.child[up][d]
    OBVIOUS
  <2>2. /\ c \in S \cup {sentinel}
        /\ c # sentinel => t.parent[c] = up /\ c # t.root /\ c # up /\ c # n
    BY <1>2, <1>3, <1>5, <2>1
  <2>3. c = sentinel => c \notin {n, up, t.root}
    <3>1. t.root # sentinel
      BY <1>1, RootThere
    <3>2. QED
      BY <1>2, <1>5, <3>1 DEF S
  <2>4. QED
    BY <2>1, <2>2, <2>3
<1>7. ASSUME n # t.root
      PROVE  /\ t.parent[n] \in S \ {n, up}
             /\ \A e \in Side : t.child[t.parent[n]][e] = n
                   <=> e = IF n = t.child[t.parent[n]][d] THEN d ELSE Opposite(d)
  <2>1. n \in S /\ p[n] = t.parent[n] /\ p[n] # n /\ p[n] # up
    BY <1>2, <1>3, <1>4, <1>5, <1>7 DEF S
  <2>2. PICK q : q = t.parent[n]
    OBVIOUS
  <2>3. q \in S /\ \E e \in Side : t.child[q][e] = n
    BY <1>2, <1>7, <2>1, <2>2
  <2>4. \A e \in Side : e = d \/ e = Opposite(d)
    BY SidesAgree
  <2>5. n # sentinel
    BY <1>2, <2>1
  <2>6. t.child[q][d] = n => t.child[q][Opposite(d)] # n
    BY <1>3, <1>4, <2>3, <2>5
  <2>7. \A e \in Side : t.child[q][e] = n <=> e = IF n = t.child[q][d] THEN d ELSE Opposite(d)
    BY <2>3, <2>4, <2>6
  <2>8. QED
    BY <2>1, <2>2, <2>3, <2>7
<1>8. QED
  BY <1>5, <1>6, <1>7 DEF S

\* What ngx_rbtree_left_rotate and ngx_rbtree_right_rotate do to the pointers.
LEMMA RotatePointers ==
  ASSUME NEW t, Grows(t), NEW n \in In(t.child), NEW d \in Side, NEW up,
         up = t.child[n][Opposite(d)], up # sentinel, NEW u, u = Rotate(t, n, d)
  PROVE  /\ u.root = IF n = t.root THEN up ELSE t.root
         /\ u.child \in [Node -> [Side -> Cell] \cup {Cleared}]
         /\ u.parent \in [Cell -> Cell \cup {NULL}]
         /\ \A m \in Node, e \in Side :
              u.child[m][e] = IF m = n /\ e = Opposite(d) THEN t.child[up][d]
                              ELSE IF m = up /\ e = d THEN n
                              ELSE IF n # t.root /\ m = t.parent[n] /\ t.child[m][e] = n THEN up
                              ELSE t.child[m][e]
         /\ \A m \in Node : m \notin In(t.child) => u.child[m] = t.child[m]
         /\ \A m \in In(t.child) : u.child[m] \in [Side -> Cell]
         /\ \A m \in Cell :
              u.parent[m] = IF m = n THEN up ELSE IF m = up THEN t.parent[n]
                            ELSE IF m # sentinel /\ m = t.child[up][d] THEN n ELSE t.parent[m]
<1> DEFINE S == In(t.child)
           o == Opposite(d)
           q == t.parent[n]
           across == t.child[up][d]
<1>1. /\ S \subseteq Node /\ sentinel \notin S
      /\ \A m \in S : t.child[m] \in [Side -> Cell]
      /\ t.child \in [Node -> [Side -> Cell] \cup {Cleared}]
      /\ t.parent \in [Cell -> Cell \cup {NULL}]
  BY PlantedType DEF Grows, Planted
<1>2. /\ up \in S /\ up # n
      /\ across \in (S \cup {sentinel}) \ {n, up}
      /\ n # t.root => /\ q \in S \ {n, up}
                       /\ \A e \in Side : t.child[q][e] = n
                            <=> e = IF n = t.child[q][d] THEN d ELSE o
  BY RotatePlace
<1>3. n \in S /\ d \in Side /\ o \in Side /\ o # d /\ \A e \in Side : e = d \/ e = o
  BY SidesAgree
<1> DEFINE ch == [t.child EXCEPT ![n][o] = across, ![up][d] = n]
           side == IF n = t.child[q][d] THEN d ELSE o
           par == IF across = sentinel THEN t.parent ELSE [t.parent EXCEPT ![across] = n]
<1>4. /\ u.root = IF n = t.root THEN up ELSE t.root
      /\ u.child = IF n = t.root THEN ch ELSE [ch EXCEPT ![q][side] = up]
      /\ u.parent = [par EXCEPT ![up] = q, ![n] = up]
  BY DEF Rotate
<1>5. n \in Cell /\ up \in Cell /\ across \in Cell /\ q \in Cell \cup {NULL} /\ n \in Node /\ up \in Node
  BY <1>1, <1>2, <1>3 DEF Cell
<1> HIDE DEF S, o, q, across, side
<1>6. /\ ch \in [Node -> [Side -> Cell] \cup {Cleared}]
      /\ \A m \in S : ch[m] \in [Side -> Cell]
      /\ \A m \in Node : m \notin S => ch[m] = t.child[m]
      /\ \A m \in Node, e \in Side : ch[m][e] = IF m = n /\ e = o THEN across
                                                ELSE IF m = up /\ e = d THEN n ELSE t.child[m][e]
  BY <1>1, <1>2, <1>3, <1>5
<1>7. /\ u.child \in [Node -> [Side -> Cell] \cup {Cleared}]
      /\ \A m \in S : u.child[m] \in [Side -> Cell]
      /\ \A m \in Node : m \notin S => u.child[m] = t.child[m]
      /\ \A m \in Node, e \in Side :
           u.child[m][e] = IF n # t.root /\ m = q /\ e = side THEN up ELSE ch[m][e]
  <2> HIDE DEF ch
  <2>1. CASE n = t.root
    BY <1>4, <1>6, <2>1
  <2>2. CASE n # t.root
    <3>1. q \in S /\ q \in Node /\ side \in Side
      BY <1>1, <1>2, <1>3, <2>2 DEF side
    <3>2. u.child = [ch EXCEPT ![q][side] = up]
      BY <1>4, <2>2
    <3>3. QED
      BY <1>5, <1>6, <2>2, <3>1, <3>2
  <2>3. QED
    BY <2>1, <2>2
<1>8. \A m \in Node, e \in Side :
        u.child[m][e] = IF m = n /\ e = o THEN across
                        ELSE IF m = up /\ e = d THEN n
                        ELSE IF n # t.root /\ m = q /\ t.child[m][e] = n THEN up
                        ELSE t.child[m][e]
  <2> HIDE DEF ch
  <2>1. n # t.root => q # n /\ q # up /\ \A e \in Side : t.child[q][e] = n <=> e = side
    BY <1>2 DEF side
  <2>2. QED
    BY <1>6, <1>7, <2>1
<1>9. /\ par \in [Cell -> Cell \cup {NULL}]
      /\ \A m \in Cell : par[m] = IF m # sentinel /\ m = across THEN n ELSE t.parent[m]
  BY <1>1, <1>5
<1>10. /\ u.parent \in [Cell -> Cell \cup {NULL}]
       /\ \A m \in Cell : u.parent[m] = IF m = n THEN up ELSE IF m = up THEN q ELSE par[m]
  <2> HIDE DEF par
  <2>1. QED
    BY <1>2, <1>4, <1>5, <1>9
<1>11. \A m \in Cell :
         u.parent[m] = IF m = n THEN up ELSE IF m = up THEN q
                       ELSE IF m # sentinel /\ m = across THEN n ELSE t.parent[m]
  <2> HIDE DEF par
  <2>1. QED
    BY <1>9, <1>10
<1> HIDE DEF ch, par
<1>12. QED
  BY <1>4, <1>7, <1>8, <1>10, <1>11 DEF S, o, q, across

\* They turn the tree, and what is not in it stays as it is.
LEMMA RotateTurns ==
  ASSUME NEW t, Grows(t), NEW n \in In(t.child), NEW d \in Side, NEW up,
         up = t.child[n][Opposite(d)], up # sentinel, NEW u, u = Rotate(t, n, d)
  PROVE  Rotated(t, u, n, up, d)
<1> DEFINE S == In(t.child)
           p == ParOf(t.root, t.parent)
           p2 == ParOf(u.root, u.parent)
<1>1. /\ S \subseteq Node /\ sentinel \notin S
      /\ t.root \in S \cup {sentinel}
      /\ \A m \in S : p[m] = IF m = t.root THEN sentinel ELSE t.parent[m]
      /\ \A m \in S, e \in Side : t.child[m][e] # sentinel =>
           t.parent[t.child[m][e]] = m /\ t.child[m][e] # t.root
  BY PlantedType DEF Grows
<1>2. /\ up \in S /\ up # n /\ t.parent[up] = n /\ up # t.root
      /\ t.child[up][d] \in (S \cup {sentinel}) \ {n, up, t.root}
  BY RotatePlace
<1>3. /\ u.root = IF n = t.root THEN up ELSE t.root
      /\ u.child \in [Node -> [Side -> Cell] \cup {Cleared}]
      /\ u.parent \in [Cell -> Cell \cup {NULL}]
      /\ \A m \in Node, e \in Side :
           u.child[m][e] = IF m = n /\ e = Opposite(d) THEN t.child[up][d]
                           ELSE IF m = up /\ e = d THEN n
                           ELSE IF n # t.root /\ m = t.parent[n] /\ t.child[m][e] = n THEN up
                           ELSE t.child[m][e]
      /\ \A m \in Node : m \notin S => u.child[m] = t.child[m]
      /\ \A m \in S : u.child[m] \in [Side -> Cell]
      /\ \A m \in Cell :
           u.parent[m] = IF m = n THEN up ELSE IF m = up THEN t.parent[n]
                         ELSE IF m # sentinel /\ m = t.child[up][d] THEN n ELSE t.parent[m]
  BY RotatePointers
<1> HIDE DEF p
<1>4. In(u.child) = S
  <2>1. \A m \in S : u.child[m] # Cleared
    BY <1>3, NotCleared
  <2>2. \A m \in Node : m \notin S => u.child[m] = Cleared
    BY <1>3 DEF S, In
  <2>3. QED
    BY <1>1, <2>1, <2>2 DEF In
<1>5. n \in S /\ d \in TwoSides /\ Across(d) = Opposite(d)
      /\ \A e \in TwoSides : e \in Side /\ (e # d <=> e = Opposite(d))
  BY SidesAgree
<1> HIDE DEF S
<1>6. \A m \in S : p2[m] = IF m = u.root THEN sentinel ELSE u.parent[m]
  BY <1>1 DEF ParOf
<1> HIDE DEF p2
<1>7. Turns(S, t.root, t.child, p, u.root, u.child, p2, n, up, d)
  <2>1. ASSUME NEW m \in S, NEW e \in TwoSides
        PROVE  u.child[m][e] = IF m = n /\ e # d THEN t.child[up][d] ELSE IF m = up /\ e = d THEN n
                               ELSE IF t.child[m][e] = n THEN up ELSE t.child[m][e]
    <3>1. t.child[m][e] = n => n # t.root /\ m = t.parent[n]
      BY <1>1, <1>5
    <3>2. m \in Node
      BY <1>1
    <3>3. QED
      BY <1>3, <1>5, <3>1, <3>2
  <2>2. ASSUME NEW m \in S
        PROVE  p2[m] = IF m = n THEN up ELSE IF m = up THEN p[n]
                       ELSE IF m = t.child[up][d] THEN n ELSE p[m]
    <3>1. m \in Cell /\ m # sentinel
      BY <1>1 DEF Cell
    <3>2. u.parent[m] = IF m = n THEN up ELSE IF m = up THEN t.parent[n]
                        ELSE IF m = t.child[up][d] THEN n ELSE t.parent[m]
      BY <1>3, <3>1
    <3>3. p[m] = (IF m = t.root THEN sentinel ELSE t.parent[m])
          /\ p[n] = (IF n = t.root THEN sentinel ELSE t.parent[n])
      BY <1>1, <1>5
    <3>4. QED
      BY <1>2, <1>3, <1>6, <3>2, <3>3
  <2>3. QED
    BY <1>2, <1>3, <1>5, <2>1, <2>2 DEF Turns
<1>8. Grown(S, sentinel, u.root, u.child, p2)
  <2>1. Grown(S, sentinel, t.root, t.child, p)
    BY DEF Grows, Planted, S, p
  <2>2. QED
    BY <1>7, <2>1, TurnGrows
<1>9. Grows(u)
  <2>1. u.root \in Cell
    BY <1>1, <1>2, <1>3 DEF Cell
  <2>2. QED
    BY <1>3, <1>4, <1>8, <2>1 DEF Grows, Planted, p2
<1>10. u.parent[sentinel] = t.parent[sentinel]
  BY <1>1, <1>2, <1>3, <1>5 DEF Cell
<1>11. QED
  BY <1>3, <1>4, <1>7, <1>9, <1>10 DEF Rotated, S, p, p2

\* A rotation does nothing to the list.
LEMMA RotateLists ==
  ASSUME NEW t, Grows(t), NEW u, NEW n, NEW up, NEW d, Rotated(t, u, n, up, d)
  PROVE  Walk(u.child)[u.root] = Walk(t.child)[t.root]
<1>1. PICK S, p, p2 : S = In(t.child) /\ p = ParOf(t.root, t.parent) /\ p2 = ParOf(u.root, u.parent)
  OBVIOUS
<1>2. Grown(S, sentinel, t.root, t.child, p) /\ IsInOrder(Walk(t.child), t.child, S, sentinel)
  BY <1>1, PlantedIsWalked DEF Grows, Planted
<1>3. IsInOrder(Walk(u.child), u.child, S, sentinel)
  BY <1>1, PlantedIsWalked DEF Rotated, Grows
<1>4. Turns(S, t.root, t.child, p, u.root, u.child, p2, n, up, d)
  BY <1>1 DEF Rotated
<1>5. QED
  BY <1>2, <1>3, <1>4, TurnLists

-----------------------------------------------------------------------------
(* The inductive invariant: what is in the memory is a tree at every turn of every  *)
(* loop; its nodes can be labelled with the number of black nodes below them, where *)
(* a deletion counts one more on the side of temp; and no red node has a red parent *)
(* but the node that an insertion works on.                                         *)

\* Inside of ngx_rbtree_delete temp is as good as black.
Blk == black \cup (IF pc = "delete" THEN {temp} ELSE {})

\* The node that may be red below a red one.
Upset == IF pc = "insert" THEN node ELSE sentinel

\* Where one more black node is counted.
Slotted == pc = "delete" /\ temp # root /\ ngx_rbt_is_black(temp)
SlotNode == IF Slotted THEN parent[temp] ELSE sentinel
SlotSide == IF Slotted THEN SideOf(temp) ELSE "left"

Locals ==
  /\ pc = "descend" => node \in Node \ InTree /\ temp \in InTree
  /\ pc = "insert" => node \in InTree /\ node \notin black
  /\ pc = "delete" =>
       /\ temp \in InTree \cup {sentinel}
       /\ temp # root => parent[temp] \in InTree /\ child[parent[temp]][SideOf(temp)] = temp

Colors == Colored(InTree, sentinel, child, Par, Blk, Upset, SlotNode, SlotSide)

TreeInv ==
  /\ TypeOK
  /\ Planted(root, child, parent)
  /\ Locals
  /\ sentinel \in black
  /\ Colors

\* The nodes from left to right.
List == Walk(child)[root]

\* The tree in these states, pointer by pointer.
LEMMA TreeNow ==
  ASSUME TreeInv
  PROVE  /\ InTree = In(child) /\ InTree \subseteq Node /\ sentinel \notin InTree
         /\ \A n \in InTree : child[n] \in [Side -> Cell] /\ n \in Cell /\ n # sentinel
         /\ root \in InTree \cup {sentinel}
         /\ Grown(InTree, sentinel, root, child, Par)
         /\ Hung(InTree, sentinel, root, child, Par)
         /\ \A n \in InTree : Par[n] = IF n = root THEN sentinel ELSE parent[n]
         /\ \A n \in InTree : n # root => /\ parent[n] \in InTree
                                          /\ child[parent[n]][SideOf(n)] = n
         /\ \A n \in InTree, d \in Side :
              /\ child[n][d] \in InTree \cup {sentinel}
              /\ child[n][d] # sentinel => parent[child[n][d]] = n /\ child[n][d] # root
<1>1. InTree = In(child)
  BY DEF InTree, In
<1>2. Planted(root, child, parent)
  BY DEF TreeInv
<1>3. Grown(InTree, sentinel, root, child, Par)
  BY <1>1, <1>2 DEF Planted, Par
<1>4. \A n \in InTree : n # root => /\ parent[n] \in InTree
                                    /\ child[parent[n]][SideOf(n)] = n
  BY <1>1, <1>2, PlantedType, SidesAgree DEF SideOf
<1>5. \A n \in InTree : n \in Cell /\ n # sentinel
  BY <1>1, <1>2, PlantedType DEF Cell
<1>6. QED
  BY <1>1, <1>2, <1>3, <1>4, <1>5, PlantedType DEF Par

\* The side of a child is the side where it hangs.
LEMMA SideOfChild ==
  ASSUME TreeInv, NEW n \in InTree, NEW d \in Side, child[n][d] # sentinel
  PROVE  child[n][d] \in InTree /\ SideOf(child[n][d]) = d
<1>1. child[n][d] \in InTree /\ parent[child[n][d]] = n
  BY TreeNow
<1>2. child[n][d] # child[n][Opposite(d)]
  BY TreeNow, SidesAgree DEF Hung
<1>3. QED
  BY <1>1, <1>2, SidesAgree DEF SideOf

\* Where no loop repairs the tree its root is black.
LEMMA RootBlack ==
  ASSUME TreeInv, root \in InTree, Upset # root
  PROVE  root \in Blk
<1>1. Reds(InTree, Par, Blk, Upset)
  BY DEF TreeInv, Colors, Colored
<1>2. Par[root] = sentinel /\ sentinel \notin InTree
  BY TreeNow
<1>3. QED
  BY <1>1, <1>2 DEF Reds

\* No pointer changes.
LEMMA SamePointers ==
  ASSUME TreeInv, root' = root, child' = child, parent' = parent
  PROVE  /\ Planted(root, child, parent)'
         /\ InTree' = InTree /\ Par' = Par /\ List' = List
         /\ \A n : SideOf(n)' = SideOf(n)
BY DEF TreeInv, Planted, In, ParOf, InTree, Par, List, Walk, SideOf

\* The types, but for those of the tree.
OtherTypes ==
  /\ insert \in InsertFunctions
  /\ color \in [Cell -> Color]
  /\ key \in [Node -> 0..(KeyRange - 1)]
  /\ pc \in {"idle", "descend", "insert", "delete"}
  /\ node \in Cell
  /\ temp \in Cell

LEMMA TypesTogether ==
  ASSUME Planted(root, child, parent)', OtherTypes'
  PROVE  TypeOK'
BY DEF Planted, OtherTypes, TypeOK

LEMMA TypesApart ==
  ASSUME TreeInv
  PROVE  OtherTypes
BY DEF TreeInv, TypeOK, OtherTypes

\* The colors, one by one.
LEMMA BlackOrRed ==
  ASSUME TreeInv, NEW n \in Cell
  PROVE  /\ n \in black <=> color[n] = "black"
         /\ n \notin black <=> color[n] = "red"
<1>1. color[n] \in {"red", "black"}
  BY DEF TreeInv, TypeOK, Color
<1>2. QED
  BY <1>1 DEF black, ngx_rbt_is_black, ngx_rbt_is_red

\* ngx_rbtree_init leaves an empty tree.
LEMMA InitInv == Init => TreeInv
<1> SUFFICES ASSUME Init PROVE TreeInv
  OBVIOUS
<1>1. InTree = {} /\ In(child) = {}
  BY DEF Init, InTree, In
<1>2. TypeOK
  <2>1. 0 \in 0..(KeyRange - 1)
    BY NgxAssumption
  <2>2. sentinel \in Cell /\ "black" \in Color
    BY DEF Cell, Color
  <2>3. QED
    BY <2>1, <2>2 DEF Init, TypeOK
<1>3. Grown({}, sentinel, sentinel, child, ParOf(root, parent))
  <2>1. IsFiniteSet({})
    BY FS_EmptySet
  <2>2. [n \in {} |-> 0] \in [{} -> Nat] /\ Below(child, {}, sentinel, [n \in {} |-> 0])
    BY DEF Below
  <2>3. QED
    BY <2>1, <2>2 DEF Grown
<1>4. Planted(root, child, parent)
  BY <1>1, <1>2, <1>3 DEF Planted, Init, TypeOK
<1>5. Locals
  BY DEF Init, Locals
<1>6. sentinel \in black
  BY DEF Init, black, ngx_rbt_is_black, ngx_rbt_is_red, Cell
<1>7. Colors
  <2>1. Labelled({}, sentinel, child, Blk, [n \in {sentinel} |-> 0], SlotNode, SlotSide)
    BY DEF Labelled
  <2>2. Reds({}, Par, Blk, Upset)
    BY DEF Reds
  <2>3. QED
    BY <1>1, <2>1, <2>2 DEF Colors, Colored
<1>8. QED
  BY <1>2, <1>4, <1>5, <1>6, <1>7 DEF TreeInv

\* The steps that change no pointer and no color.
LEMMA InsertKeeps ==
  ASSUME TreeInv, NEW n \in Node, Insert(n)
  PROVE  TreeInv' /\ List' = List
<1>1. root' = root /\ child' = child /\ parent' = parent /\ color' = color /\ insert' = insert
  BY DEF Insert
<1>2. /\ Planted(root, child, parent)'
      /\ InTree' = InTree /\ Par' = Par /\ List' = List
  BY <1>1, SamePointers
<1>3. pc = "idle" /\ pc' = "descend" /\ node' = n /\ n \notin InTree /\ temp' = root /\ root \in InTree
  BY TreeNow DEF Insert
<1>4. OtherTypes'
  <2>1. Key[n] \in 0..(KeyRange - 1)
    BY NgxAssumption
  <2>2. n \in Cell /\ root \in Cell
    BY <1>3, TreeNow DEF Cell
  <2>3. QED
    BY <1>1, <1>3, <2>1, <2>2, TypesApart DEF OtherTypes, Insert
<1>5. TypeOK'
  BY <1>2, <1>4, TypesTogether
<1>6. Locals'
  BY <1>2, <1>3 DEF Locals
<1>7. black' = black
  BY <1>1 DEF black, ngx_rbt_is_black, ngx_rbt_is_red
<1>8. Blk' = Blk /\ Upset' = Upset /\ SlotNode' = SlotNode /\ SlotSide' = SlotSide
  BY <1>3, <1>7 DEF Blk, Upset, SlotNode, SlotSide, Slotted
<1>9. Colors'
  BY <1>1, <1>2, <1>8 DEF Colors, TreeInv
<1>10. QED
  BY <1>2, <1>5, <1>6, <1>7, <1>9 DEF TreeInv

LEMMA DescendKeeps ==
  ASSUME TreeInv, Descend
  PROVE  TreeInv' /\ List' = List
<1>1. root' = root /\ child' = child /\ parent' = parent /\ color' = color /\ insert' = insert
      /\ key' = key
  BY DEF Descend, tree
<1>2. /\ Planted(root, child, parent)'
      /\ InTree' = InTree /\ Par' = Par /\ List' = List
  BY <1>1, SamePointers
<1>3. /\ pc = "descend" /\ pc' = "descend" /\ node' = node /\ node \in Node \ InTree
      /\ temp' \in InTree
  <2>1. Turn \in Side /\ temp \in InTree
    BY SidesAgree DEF Turn, Descend, TreeInv, Locals
  <2>2. QED
    BY <2>1, TreeNow DEF Descend, TreeInv, Locals
<1>4. OtherTypes'
  <2>1. temp' \in Cell
    BY <1>3, TreeNow
  <2>2. QED
    BY <1>1, <1>3, <2>1, TypesApart DEF OtherTypes
<1>5. TypeOK'
  BY <1>2, <1>4, TypesTogether
<1>6. Locals'
  BY <1>2, <1>3 DEF Locals
<1>7. black' = black
  BY <1>1 DEF black, ngx_rbt_is_black, ngx_rbt_is_red
<1>8. Blk' = Blk /\ Upset' = Upset /\ SlotNode' = SlotNode /\ SlotSide' = SlotSide
  BY <1>3, <1>7 DEF Blk, Upset, SlotNode, SlotSide, Slotted
<1>9. Colors'
  BY <1>1, <1>2, <1>8 DEF Colors, TreeInv
<1>10. QED
  BY <1>2, <1>5, <1>6, <1>7, <1>9 DEF TreeInv

\* One node becomes black, and the others stay as they are.
LEMMA OneTurnsBlack ==
  ASSUME TreeInv, NEW n \in Cell, color' = [color EXCEPT ![n] = "black"]
  PROVE  /\ black' = black \cup {n}
         /\ color' \in [Cell -> Color]
<1>1. color \in [Cell -> Color]
  BY DEF TreeInv, TypeOK
<1>2. QED
  BY <1>1 DEF black, ngx_rbt_is_black, ngx_rbt_is_red, Color

LEMMA InsertDoneKeeps ==
  ASSUME TreeInv, InsertDone
  PROVE  TreeInv' /\ List' = List
<1>1. root' = root /\ child' = child /\ parent' = parent /\ insert' = insert /\ key' = key
      /\ pc = "insert" /\ pc' = "idle" /\ node' = sentinel /\ temp' = sentinel
      /\ color' = [color EXCEPT ![root] = "black"]
      /\ node \in InTree /\ node \notin black
      /\ (node = root \/ ~ngx_rbt_is_red(parent[node]))
  BY DEF InsertDone, Return, InsertGoesOn, TreeInv, Locals
<1>2. /\ Planted(root, child, parent)'
      /\ InTree' = InTree /\ Par' = Par /\ List' = List
  BY <1>1, SamePointers
<1>3. root \in Cell /\ black' = black \cup {root} /\ color' \in [Cell -> Color]
  BY <1>1, OneTurnsBlack DEF TreeInv, Planted
<1>4. OtherTypes'
  BY <1>1, <1>3, TypesApart DEF OtherTypes, Cell
<1>5. TypeOK'
  BY <1>2, <1>4, TypesTogether
<1>6. Locals'
  BY <1>1 DEF Locals
<1>7. /\ Blk = black /\ Upset = node /\ SlotNode = sentinel /\ SlotSide = "left"
      /\ Blk' = black' /\ Upset' = sentinel /\ SlotNode' = sentinel /\ SlotSide' = "left"
  BY <1>1 DEF Blk, Upset, SlotNode, SlotSide, Slotted
<1>8. Hung(InTree, sentinel, root, child, Par)
  BY TreeNow
<1>9. Colored(InTree, sentinel, child, Par, Blk, node, sentinel, "left")
  BY <1>7 DEF TreeInv, Colors
<1>10. node = root \/ node \in Blk \/ Par[node] \in InTree \cap Blk
  <2>1. CASE node # root
    <3>1. parent[node] \in InTree /\ Par[node] = parent[node] /\ parent[node] \in Cell
      BY <1>1, <2>1, TreeNow
    <3>2. parent[node] \in black
      BY <1>1, <2>1, <3>1, BlackOrRed DEF ngx_rbt_is_red
    <3>3. QED
      BY <1>7, <3>1, <3>2
  <2>2. QED
    BY <2>1
<1>11. \A m \in InTree : m \in Blk' <=> m \in Blk \/ m = root
  BY <1>3, <1>7
<1>12. Colored(InTree, sentinel, child, Par, Blk', sentinel, sentinel, "left")
  BY <1>8, <1>9, <1>10, <1>11, RootColors
<1>13. Colors'
  BY <1>1, <1>2, <1>7, <1>12 DEF Colors
<1>14. QED
  BY <1>2, <1>3, <1>5, <1>6, <1>13 DEF TreeInv

LEMMA DeleteDoneKeeps ==
  ASSUME TreeInv, DeleteDone
  PROVE  TreeInv' /\ List' = List
<1>1. root' = root /\ child' = child /\ parent' = parent /\ insert' = insert /\ key' = key
      /\ pc = "delete" /\ pc' = "idle" /\ node' = sentinel /\ temp' = sentinel
      /\ color' = [color EXCEPT ![temp] = "black"]
      /\ (temp = root \/ ~ngx_rbt_is_black(temp))
  BY DEF DeleteDone, Return, DeleteGoesOn
<1>2. /\ Planted(root, child, parent)'
      /\ InTree' = InTree /\ Par' = Par /\ List' = List
  BY <1>1, SamePointers
<1>3. temp \in Cell /\ black' = black \cup {temp} /\ color' \in [Cell -> Color]
  BY <1>1, OneTurnsBlack DEF TreeInv, TypeOK
<1>4. OtherTypes'
  BY <1>1, <1>3, TypesApart DEF OtherTypes, Cell
<1>5. TypeOK'
  BY <1>2, <1>4, TypesTogether
<1>6. Locals'
  BY <1>1 DEF Locals
<1>7. /\ Blk = black \cup {temp} /\ Upset = sentinel /\ SlotNode = sentinel /\ SlotSide = "left"
      /\ Blk' = black' /\ Upset' = sentinel /\ SlotNode' = sentinel /\ SlotSide' = "left"
  BY <1>1 DEF Blk, Upset, SlotNode, SlotSide, Slotted
<1>8. Colored(InTree, sentinel, child, Par, Blk', sentinel, sentinel, "left")
  BY <1>3, <1>7 DEF TreeInv, Colors
<1>9. Colors'
  BY <1>1, <1>2, <1>7, <1>8 DEF Colors
<1>10. QED
  BY <1>2, <1>3, <1>5, <1>6, <1>9 DEF TreeInv

-----------------------------------------------------------------------------
(* Insertions. *)

\* Into an empty tree.
LEMMA InsertFirstKeeps ==
  ASSUME TreeInv, NEW n \in Node, InsertFirst(n)
  PROVE  TreeInv' /\ List = <<>> /\ List' = <<n>>
<1>1. /\ root = sentinel /\ n \notin InTree /\ n # sentinel /\ n \in Cell
      /\ pc = "idle" /\ pc' = pc /\ node' = node /\ temp' = temp /\ insert' = insert
      /\ root' = n
      /\ child' = [child EXCEPT ![n] = Leaf]
      /\ parent' = [parent EXCEPT ![n] = NULL]
      /\ color' = [color EXCEPT ![n] = "black"]
      /\ key' = [key EXCEPT ![n] = Key[n]]
  BY NgxAssumption DEF InsertFirst, Cell
<1>2. /\ child \in [Node -> [Side -> Cell] \cup {Cleared}]
      /\ parent \in [Cell -> Cell \cup {NULL}]
      /\ key \in [Node -> 0..(KeyRange - 1)]
  BY DEF TreeInv, TypeOK
<1>3. InTree = {}
  BY <1>1, TreeNow, RootThere DEF TreeInv
<1>4. Leaf \in [Side -> Cell] /\ Leaf # Cleared /\ \A e \in TwoSides : Leaf[e] = sentinel
  <2>1. Leaf \in [Side -> Cell] /\ \A e \in TwoSides : Leaf[e] = sentinel
    BY SidesAgree DEF Leaf, Cell
  <2>2. QED
    BY <2>1, NotCleared
<1>5. /\ child' \in [Node -> [Side -> Cell] \cup {Cleared}]
      /\ parent' \in [Cell -> Cell \cup {NULL}]
      /\ \A e \in TwoSides : child'[n][e] = sentinel
      /\ \A m \in Node \ {n} : child'[m] = child[m]
      /\ child'[n] # Cleared
  BY <1>1, <1>2, <1>4
<1>6. InTree' = {n} /\ In(child') = {n}
  BY <1>1, <1>3, <1>5 DEF InTree, In
<1>7. Par'[n] = sentinel
  BY <1>1 DEF Par, ParOf
<1>8. /\ Grown({n}, sentinel, n, child', Par')
      /\ \A io : IsInOrder(io, child', {n}, sentinel) => io[n] = <<n>>
  <2>1. PICK ch, par : ch = child' /\ par = Par'
    OBVIOUS
  <2>2. n # sentinel /\ par[n] = sentinel /\ \A e \in TwoSides : ch[n][e] = sentinel
    BY <1>1, <1>5, <1>7, <2>1
  <2>3. Grown({n}, sentinel, n, ch, par) /\ \A io : IsInOrder(io, ch, {n}, sentinel) => io[n] = <<n>>
    BY ONLY <2>2, OneGrows
  <2>4. QED
    BY <2>1, <2>3
<1>9. Planted(root, child, parent)'
  BY <1>1, <1>5, <1>6, <1>8 DEF Planted, Par, In
<1>10. List' = <<n>>
  <2>1. Planted(root', child', parent')
    BY <1>9 DEF Planted, In, ParOf
  <2>2. IsInOrder(Walk(child'), child', {n}, sentinel)
    BY <1>6, <2>1, PlantedIsWalked
  <2>3. Walk(child')[n] = <<n>>
    BY <1>8, <2>2
  <2>4. QED
    BY <1>1, <2>3 DEF List, Walk
<1>11. List = <<>>
  BY <1>1, PlantedIsWalked DEF TreeInv, Listed, List
<1>12. black' = black \cup {n} /\ color' \in [Cell -> Color]
  BY <1>1, OneTurnsBlack
<1>13. OtherTypes'
  <2>1. Key[n] \in 0..(KeyRange - 1)
    BY NgxAssumption
  <2>2. key' \in [Node -> 0..(KeyRange - 1)]
    BY <1>1, <1>2, <2>1
  <2>3. QED
    BY <1>1, <1>12, <2>2, TypesApart DEF OtherTypes
<1>14. TypeOK'
  BY <1>9, <1>13, TypesTogether
<1>15. Locals'
  BY <1>1 DEF Locals
<1>16. Blk' = black' /\ Upset' = sentinel /\ SlotNode' = sentinel /\ SlotSide' = "left"
  BY <1>1 DEF Blk, Upset, SlotNode, SlotSide, Slotted
<1>17. Colored({n}, sentinel, child', Par', black', sentinel, sentinel, "left")
  <2>1. PICK B : B = [m \in {n} \cup {sentinel} |-> IF m = n THEN 1 ELSE 0]
    OBVIOUS
  <2>2. B \in [{n} \cup {sentinel} -> Nat] /\ B[n] = 1 /\ B[sentinel] = 0
    BY <1>1, <2>1
  <2>3. n \in black'
    BY <1>12
  <2>4. \A e \in TwoSides : B[n] = B[child'[n][e]] + One(n \in black') + One(n = sentinel /\ e = "left")
    BY <1>1, <1>5, <2>2, <2>3 DEF One
  <2>5. Labelled({n}, sentinel, child', black', B, sentinel, "left")
    BY <2>2, <2>4 DEF Labelled
  <2>6. Reds({n}, Par', black', sentinel)
    BY <2>3 DEF Reds
  <2>7. QED
    BY <2>5, <2>6 DEF Colored
<1>18. Colors'
  BY <1>6, <1>16, <1>17 DEF Colors
<1>19. (sentinel \in black)'
  BY <1>12 DEF TreeInv
<1>20. QED
  BY <1>9, <1>10, <1>11, <1>14, <1>15, <1>18, <1>19 DEF TreeInv

\* The node comes in below temp.
LEMMA LinkHangs ==
  ASSUME TreeInv, Link
  PROVE  /\ Planted(root, child, parent)'
         /\ InTree' = InTree \cup {node}
         /\ Hangs(InTree, sentinel, root, child, Par, root', child', Par', node, temp, Turn)
         /\ node \in Node \ InTree /\ temp \in InTree /\ Turn \in Side
<1>1. /\ pc = "descend" /\ node \in Node \ InTree /\ temp \in InTree /\ Turn \in Side
      /\ node # temp /\ node \in Cell /\ temp \in Cell /\ node # sentinel /\ temp \in Node
  BY TreeNow, SidesAgree, NgxAssumption DEF Link, Turn, TreeInv, Locals, Cell
<1>2. PICK n, p, d : n = node /\ p = temp /\ d = Turn
  OBVIOUS
<1>3. /\ child[p][d] = sentinel
      /\ child' = [child EXCEPT ![p][d] = n, ![n] = Leaf]
      /\ parent' = [parent EXCEPT ![n] = p]
      /\ root' = root
  BY <1>2 DEF Link
<1>4. /\ child \in [Node -> [Side -> Cell] \cup {Cleared}]
      /\ parent \in [Cell -> Cell \cup {NULL}]
      /\ \A m \in InTree : child[m] \in [Side -> Cell]
      /\ InTree \subseteq Node
      /\ InTree = In(child)
      /\ root \in InTree
  BY <1>1, TreeNow, RootThere DEF TreeInv, TypeOK
<1>5. Leaf \in [Side -> Cell] /\ Leaf # Cleared /\ \A e \in TwoSides : Leaf[e] = sentinel
  <2>1. Leaf \in [Side -> Cell] /\ \A e \in TwoSides : Leaf[e] = sentinel
    BY SidesAgree DEF Leaf, Cell
  <2>2. QED
    BY <2>1, NotCleared
<1>6. /\ child' \in [Node -> [Side -> Cell] \cup {Cleared}]
      /\ \A m \in InTree : child'[m] \in [Side -> Cell]
      /\ \A m \in Node : m \notin InTree /\ m # n => child'[m] = child[m]
      /\ child'[n] = Leaf
      /\ \A m \in InTree, e \in Side : child'[m][e] = IF m = p /\ e = d THEN n ELSE child[m][e]
  BY <1>1, <1>2, <1>3, <1>4, <1>5
<1>7. InTree' = InTree \cup {n} /\ In(child') = InTree \cup {n}
  <2>1. \A m \in InTree : child'[m] # Cleared
    BY <1>6, NotCleared
  <2>2. \A m \in Node : m \notin InTree /\ m # n => child'[m] = Cleared
    BY <1>6 DEF InTree
  <2>3. QED
    BY <1>1, <1>2, <1>4, <1>5, <1>6, <2>1, <2>2 DEF InTree, In
<1>8. /\ parent' \in [Cell -> Cell \cup {NULL}]
      /\ Par'[n] = p /\ \A m \in InTree : Par'[m] = Par[m]
  <2>1. parent' \in [Cell -> Cell \cup {NULL}] /\ parent'[n] = p /\ \A m \in Cell \ {n} : parent'[m] = parent[m]
    BY <1>1, <1>2, <1>3, <1>4
  <2>2. n \in Node /\ n # root /\ n \notin InTree /\ \A m \in InTree : m \in Cell
    BY <1>1, <1>2, <1>4 DEF Cell
  <2>3. QED
    BY <1>3, <1>4, <2>1, <2>2 DEF Par, ParOf
<1>9. Hangs(InTree, sentinel, root, child, Par, root', child', Par', n, p, d)
  <2>1. PICK S, r, ch, par, r2, ch2, par2 :
          /\ S = InTree /\ r = root /\ ch = child /\ par = Par
          /\ r2 = root' /\ ch2 = child' /\ par2 = Par'
    OBVIOUS
  <2>2. /\ p \in S /\ d \in Side /\ ch[p][d] = sentinel /\ n \notin S /\ n # sentinel
        /\ r2 = r
    BY <1>1, <1>2, <1>3, <2>1
  <2>3. \A e \in TwoSides : ch2[n][e] = sentinel
    BY <1>5, <1>6, <2>1
  <2>4. \A m \in S, e \in Side : ch2[m][e] = IF m = p /\ e = d THEN n ELSE ch[m][e]
    BY <1>6, <2>1
  <2>5. par2[n] = p /\ \A m \in S : par2[m] = par[m]
    BY <1>8, <2>1
  <2>6. Hangs(S, sentinel, r, ch, par, r2, ch2, par2, n, p, d)
    BY ONLY <2>2, <2>3, <2>4, <2>5, SidesAgree DEF Hangs
  <2>7. QED
    BY <2>1, <2>6
<1>10. Grown(InTree \cup {n}, sentinel, root', child', Par')
  BY <1>9, TreeNow, HangGrows
<1>11. Planted(root, child, parent)'
  <2>1. root' \in Cell
    BY <1>3 DEF TreeInv, TypeOK
  <2>2. QED
    BY <1>6, <1>7, <1>8, <1>10, <2>1 DEF Planted, Par, In
<1>12. QED
  BY <1>1, <1>2, <1>7, <1>9, <1>11

\* It is red, and may be below a red one.
LEMMA LinkKeeps ==
  ASSUME TreeInv, Link
  PROVE  TreeInv'
<1>1. /\ Planted(root, child, parent)'
      /\ InTree' = InTree \cup {node}
      /\ Hangs(InTree, sentinel, root, child, Par, root', child', Par', node, temp, Turn)
      /\ node \in Node \ InTree /\ temp \in InTree /\ Turn \in Side
  BY LinkHangs
<1>2. /\ pc = "descend" /\ pc' = "insert" /\ temp' = sentinel
      /\ color' = [color EXCEPT ![node] = "red"]
      /\ root' = root /\ key' = key /\ node' = node /\ insert' = insert
  BY DEF Link
<1>3. node \in Cell /\ node # sentinel /\ sentinel \in Cell
  BY <1>1, NgxAssumption DEF Cell
<1>4. color' \in [Cell -> Color] /\ black' = black \ {node}
  <2>1. color \in [Cell -> Color] /\ "red" \in Color
    BY DEF TreeInv, TypeOK, Color
  <2>2. color' \in [Cell -> Color] /\ \A m \in Cell : color'[m] = IF m = node THEN "red" ELSE color[m]
    BY <1>2, <1>3, <2>1
  <2>3. QED
    BY <1>3, <2>2 DEF black, ngx_rbt_is_black, ngx_rbt_is_red
<1>5. OtherTypes'
  BY <1>2, <1>3, <1>4, TypesApart DEF OtherTypes
<1>6. TypeOK'
  BY <1>1, <1>5, TypesTogether
<1>7. Locals'
  BY <1>1, <1>2, <1>4 DEF Locals
<1>8. /\ Blk = black /\ Upset = sentinel /\ SlotNode = sentinel /\ SlotSide = "left"
      /\ Blk' = black' /\ Upset' = node /\ SlotNode' = sentinel /\ SlotSide' = "left"
  BY <1>2 DEF Blk, Upset, SlotNode, SlotSide, Slotted
<1>9. Hung(InTree, sentinel, root, child, Par)
  BY TreeNow
<1>10. Colored(InTree, sentinel, child, Par, black, sentinel, sentinel, "left")
  BY <1>8 DEF TreeInv, Colors
<1>11. node \notin black' /\ \A m \in InTree : m \in black' <=> m \in black
  BY <1>1, <1>4
<1>12. Colored(InTree \cup {node}, sentinel, child', Par', black', node, sentinel, "left")
  BY <1>1, <1>9, <1>10, <1>11, HangColors
<1>13. Colors'
  BY <1>1, <1>8, <1>12 DEF Colors
<1>14. (sentinel \in black)'
  BY <1>3, <1>4 DEF TreeInv
<1>15. QED
  BY <1>1, <1>6, <1>7, <1>13, <1>14 DEF TreeInv

\* In the list it comes next to what is below temp.
LEMMA LinkPuts ==
  ASSUME TreeInv, Link, NEW A, NEW C, PlacedAt(Node, List, Walk(child)[temp], A, C)
  PROVE  PutsNext(Node, List, List', node, A, Walk(child)[temp], C, Turn)
<1>1. PICK S, par : S = InTree /\ par = Par
  OBVIOUS
<1>2. /\ Grown(S, sentinel, root, child, par)
      /\ IsInOrder(Walk(child), child, S, sentinel)
      /\ S \subseteq Node
  BY <1>1, TreeNow, PlantedIsWalked DEF TreeInv
<1>3. /\ Hangs(S, sentinel, root, child, par, root', child', Par', node, temp, Turn)
      /\ S \cup {node} \subseteq Node
  BY <1>1, <1>2, LinkHangs
<1>4. IsInOrder(Walk(child'), child', S \cup {node}, sentinel)
  <2>1. Planted(root', child', parent') /\ In(child') = S \cup {node}
    BY <1>1, LinkHangs DEF Planted, In, ParOf, InTree
  <2>2. QED
    BY <2>1, PlantedIsWalked
<1>5. PlacedAt(Node, Walk(child)[root], Walk(child)[temp], A, C)
  BY DEF List
<1>6. PutsNext(Node, Walk(child)[root], Walk(child')[root'], node, A, Walk(child)[temp], C, Turn)
  BY <1>2, <1>3, <1>4, <1>5, HangLists
<1>7. QED
  BY <1>6 DEF List, Walk

-----------------------------------------------------------------------------
(* The loop of ngx_rbtree_insert. *)

\* The memory before a step is planted.
LEMMA MemoryGrows ==
  ASSUME TreeInv
  PROVE  /\ Grows(memory) /\ In(memory.child) = InTree
         /\ memory.root = root /\ memory.child = child /\ memory.parent = parent
         /\ ParOf(memory.root, memory.parent) = Par
         /\ Walk(memory.child)[memory.root] = List
BY DEF TreeInv, Grows, memory, In, InTree, Par, List

\* The memory after it, where rotations made u of it.
LEMMA MemoryTurned ==
  ASSUME NEW t, Grows(t), In(t.child) = InTree, NEW u, NEW n, NEW up, NEW d,
         Rotated(t, u, n, up, d), Becomes(u)
  PROVE  /\ Planted(root, child, parent)'
         /\ InTree' = InTree /\ Par' = ParOf(u.root, u.parent) /\ child' = u.child
         /\ List' = Walk(t.child)[t.root]
<1>1. /\ Planted(u.root, u.child, u.parent)
      /\ In(u.child) = InTree
      /\ root' = u.root /\ child' = u.child /\ parent' = u.parent
  BY DEF Rotated, Grows, Becomes
<1>2. InTree' = InTree
  BY <1>1 DEF InTree, In
<1>3. Par' = ParOf(u.root, u.parent)
  BY <1>1 DEF Par, ParOf
<1>4. Planted(root, child, parent)'
  BY <1>1 DEF Planted, In, ParOf
<1>5. List' = Walk(u.child)[u.root]
  BY <1>1 DEF List, Walk
<1>6. QED
  BY <1>1, <1>2, <1>3, <1>4, <1>5, RotateLists

\* Where the loop goes on there is a black grandparent.
LEMMA InsertPlace ==
  ASSUME TreeInv, InsertGoesOn, NEW p, p = parent[node], NEW g, g = Grandparent,
         NEW d, d = SideOf(p), NEW u, u = Uncle
  PROVE  /\ node \in InTree /\ node \notin black /\ Par[node] = p
         /\ p \in InTree /\ p \notin black /\ Par[p] = g /\ p # node
         /\ g \in InTree /\ g \in black
         /\ d \in Side /\ child[g][d] = p
         /\ u = child[g][Opposite(d)] /\ u \in InTree \cup {sentinel} /\ u # p /\ u # node
         /\ child[p][SideOf(node)] = node
<1>1. /\ pc = "insert" /\ node \in InTree /\ node \notin black /\ node # root
      /\ ngx_rbt_is_red(p)
  BY DEF InsertGoesOn, TreeInv, Locals
<1>2. /\ \A n \in InTree : n # root => /\ parent[n] \in InTree
                                       /\ child[parent[n]][SideOf(n)] = n
      /\ \A n \in InTree : Par[n] = IF n = root THEN sentinel ELSE parent[n]
      /\ sentinel \notin InTree
      /\ Hung(InTree, sentinel, root, child, Par)
      /\ \A n \in InTree : n \in Cell
  BY TreeNow
<1>3. p \in InTree /\ Par[node] = p /\ child[p][SideOf(node)] = node
  BY <1>1, <1>2
<1>4. p \notin black /\ p # node
  <2>1. p # node
    BY <1>1, <1>2, <1>3 DEF Hung
  <2>2. QED
    BY <1>1, <1>2, <1>3, <2>1, BlackOrRed DEF ngx_rbt_is_red
<1>5. Reds(InTree, Par, black, node)
  BY <1>1 DEF TreeInv, Colors, Colored, Blk, Upset
<1>6. Par[p] \in InTree /\ Par[p] \in black
  BY <1>3, <1>4, <1>5 DEF Reds
<1>7. p # root /\ g = Par[p] /\ d \in Side /\ child[g][d] = p
  BY <1>2, <1>3, <1>6, SidesAgree DEF Grandparent, SideOf
<1>8. u = child[g][Opposite(d)]
  BY DEF Uncle
<1>9. u \in InTree \cup {sentinel} /\ u # p /\ u # node
  <2>1. g \in InTree
    BY <1>6, <1>7
  <2>2. /\ child[g][d] # sentinel => child[g][d] # child[g][Across(d)]
        /\ child[g][Across(d)] \in InTree \cup {sentinel}
        /\ child[g][Across(d)] # sentinel => Par[child[g][Across(d)]] = g
    BY <1>2, <1>7, <2>1, SidesAgree DEF Hung
  <2>3. u = child[g][Across(d)]
    BY <1>8, SidesAgree
  <2>4. u \in InTree \cup {sentinel} /\ u # p
    BY <1>2, <1>3, <1>7, <2>2, <2>3
  <2>5. u # node
    <3>1. p # g
      BY <1>2, <1>3, <1>6, <1>7 DEF Hung
    <3>2. QED
      BY <1>1, <1>2, <1>3, <2>2, <2>3, <3>1
  <2>6. QED
    BY <2>4, <2>5
<1>10. QED
  BY <1>1, <1>3, <1>4, <1>6, <1>7, <1>8, <1>9

\* A red uncle: the node that may be red below a red one is the grandparent then.
LEMMA InsertFlipKeeps ==
  ASSUME TreeInv, InsertFlip
  PROVE  TreeInv' /\ List' = List
<1>1. PICK p, g, d, u : p = parent[node] /\ g = Grandparent /\ d = SideOf(p) /\ u = Uncle
  OBVIOUS
<1>2. /\ node \in InTree /\ node \notin black /\ Par[node] = p
      /\ p \in InTree /\ p \notin black /\ Par[p] = g /\ p # node
      /\ g \in InTree /\ g \in black
      /\ d \in Side /\ child[g][d] = p
      /\ u = child[g][Opposite(d)] /\ u \in InTree \cup {sentinel} /\ u # p /\ u # node
  BY <1>1, InsertPlace DEF InsertFlip
<1>3. /\ root' = root /\ child' = child /\ parent' = parent /\ insert' = insert /\ key' = key
      /\ pc = "insert" /\ pc' = pc /\ node' = g /\ temp' = temp
      /\ color' = [color EXCEPT ![p] = "black", ![u] = "black", ![g] = "red"]
      /\ ngx_rbt_is_red(u)
  BY <1>1 DEF InsertFlip, InsertGoesOn
<1>4. /\ Planted(root, child, parent)'
      /\ InTree' = InTree /\ Par' = Par /\ List' = List
  BY <1>3, SamePointers
<1>5. g \in Cell /\ p \in Cell /\ \A n \in InTree : n \in Cell
  BY <1>2, TreeNow
<1>6. u \in InTree /\ u \notin black /\ u \in Cell
  <2>1. sentinel \in black /\ sentinel \in Cell
    BY DEF TreeInv, Cell
  <2>2. u \in Cell
    BY <1>2, <1>5, <2>1
  <2>3. u \notin black
    BY <1>3, <2>2, BlackOrRed DEF ngx_rbt_is_red
  <2>4. QED
    BY <1>2, <2>1, <2>2, <2>3
<1>7. color' \in [Cell -> Color] /\ black' = (black \cup {p, u}) \ {g}
  <2>1. color \in [Cell -> Color] /\ "red" \in Color /\ "black" \in Color
    BY DEF TreeInv, TypeOK, Color
  <2>2. /\ color' \in [Cell -> Color]
        /\ \A m \in Cell : color'[m] = IF m = g THEN "red" ELSE IF m = u \/ m = p THEN "black" ELSE color[m]
    BY <1>3, <1>5, <1>6, <2>1
  <2>3. QED
    BY <1>5, <1>6, <2>2 DEF black, ngx_rbt_is_black, ngx_rbt_is_red
<1>8. OtherTypes'
  BY <1>3, <1>5, <1>7, TypesApart DEF OtherTypes
<1>9. TypeOK'
  BY <1>4, <1>8, TypesTogether
<1>10. Locals'
  BY <1>2, <1>3, <1>4, <1>7 DEF Locals
<1>11. /\ Blk = black /\ Upset = node /\ SlotNode = sentinel /\ SlotSide = "left"
       /\ Blk' = black' /\ Upset' = g /\ SlotNode' = sentinel /\ SlotSide' = "left"
  BY <1>3 DEF Blk, Upset, SlotNode, SlotSide, Slotted
<1>12. Colored(InTree, sentinel, child, Par, black', g, sentinel, "left")
  <2>1. Colored(InTree, sentinel, child, Par, black, node, sentinel, "left")
    BY <1>11 DEF TreeInv, Colors
  <2>2. Hung(InTree, sentinel, root, child, Par)
    BY TreeNow
  <2>3. \A m \in InTree : m \in black' <=> (m \in black \/ m = p \/ m = u) /\ m # g
    BY <1>7
  <2>4. d \in TwoSides /\ u = child[g][Across(d)]
    BY <1>2, SidesAgree
  <2>5. PICK S, par, blk, blk2 : S = InTree /\ par = Par /\ blk = black /\ blk2 = black'
    OBVIOUS
  <2>6. /\ node \in S /\ p \in S /\ u \in S /\ p \notin blk /\ u \notin blk
        /\ par[node] = p /\ par[p] = g /\ child[g][d] = p
        /\ \A m \in S : m \in blk2 <=> (m \in blk \/ m = p \/ m = u) /\ m # g
        /\ Colored(S, sentinel, child, par, blk, node, sentinel, "left")
        /\ Hung(S, sentinel, root, child, par)
    BY <1>2, <1>6, <2>1, <2>2, <2>3, <2>5
  <2>7. Colored(S, sentinel, child, par, blk2, g, sentinel, "left")
    BY ONLY <2>4, <2>6, FlipColors
  <2>8. QED
    BY <2>5, <2>7
<1>13. Colors'
  BY <1>3, <1>4, <1>11, <1>12 DEF Colors
<1>14. (sentinel \in black)'
  <2>1. g # sentinel
    BY <1>2, TreeNow
  <2>2. QED
    BY <1>7, <2>1 DEF TreeInv
<1>15. QED
  BY <1>4, <1>9, <1>10, <1>13, <1>14 DEF TreeInv

\* The last rotation of a turn, at the grandparent g: s comes up black, with n below it.
LEMMA InsertTurn ==
  ASSUME TreeInv, NEW t, Grows(t), In(t.child) = InTree,
         NEW n \in InTree, NEW s \in InTree, NEW g \in InTree, NEW d \in Side,
         n \notin black, s \notin black, g \in black,
         s = t.child[g][d], n = t.child[s][d],
         t.child[g][Opposite(d)] \in InTree => t.child[g][Opposite(d)] \in black,
         Colored(InTree, sentinel, t.child, ParOf(t.root, t.parent), black, n, sentinel, "left"),
         Becomes(Rotate(t, g, Opposite(d))),
         color' = [color EXCEPT ![s] = "black", ![g] = "red"],
         pc = "insert", pc' = pc, node' = n, temp' = temp, key' = key, insert' = insert
  PROVE  TreeInv' /\ List' = Walk(t.child)[t.root]
<1>1. PICK u, o : u = Rotate(t, g, Opposite(d)) /\ o = Opposite(d)
  OBVIOUS
<1>2. /\ o \in Side /\ Opposite(o) = d /\ Across(o) = d /\ o \in TwoSides /\ d \in TwoSides
      /\ s # sentinel /\ n # sentinel /\ g # sentinel
      /\ \A m \in InTree : m \in Cell
  BY <1>1, SidesAgree, TreeNow
<1>3. Rotated(t, u, g, s, o)
  BY <1>1, <1>2, RotateTurns
<1>4. /\ Planted(root, child, parent)'
      /\ InTree' = InTree /\ Par' = ParOf(u.root, u.parent) /\ child' = u.child
      /\ List' = Walk(t.child)[t.root]
  BY <1>1, <1>3, MemoryTurned
<1>5. s # g /\ n # g /\ n # s
  <2>1. Hung(InTree, sentinel, t.root, t.child, ParOf(t.root, t.parent))
    BY PlantedType DEF Grows
  <2>2. s # g /\ n # s
    BY <1>2, <2>1 DEF Hung
  <2>3. QED
    BY <2>2
<1>6. color' \in [Cell -> Color] /\ black' = (black \cup {s}) \ {g}
  <2>1. color \in [Cell -> Color] /\ "red" \in Color /\ "black" \in Color
    BY DEF TreeInv, TypeOK, Color
  <2>2. /\ color' \in [Cell -> Color]
        /\ \A m \in Cell : color'[m] = IF m = g THEN "red" ELSE IF m = s THEN "black" ELSE color[m]
    BY <1>2, <2>1
  <2>3. QED
    BY <1>2, <2>2 DEF black, ngx_rbt_is_black, ngx_rbt_is_red
<1>7. OtherTypes'
  BY <1>2, <1>6, TypesApart DEF OtherTypes
<1>8. TypeOK'
  BY <1>4, <1>7, TypesTogether
<1>9. Locals'
  BY <1>4, <1>5, <1>6 DEF Locals
<1>10. Colored(InTree, sentinel, u.child, ParOf(u.root, u.parent), black', sentinel, sentinel, "left")
  <2>1. PICK S, par, par2 : S = InTree /\ par = ParOf(t.root, t.parent) /\ par2 = ParOf(u.root, u.parent)
    OBVIOUS
  <2>2. /\ Hung(S, sentinel, t.root, t.child, par)
        /\ Turns(S, t.root, t.child, par, u.root, u.child, par2, g, s, o)
        /\ Colored(S, sentinel, t.child, par, black, n, sentinel, "left")
    BY <1>3, <2>1, PlantedType DEF Grows, Rotated
  <2>3. /\ g \in black /\ s \notin black /\ sentinel # s /\ (sentinel = g => "left" = o)
        /\ (n \in S => n = t.child[s][Across(o)])
        /\ (t.child[g][o] \in S => t.child[g][o] \in black)
        /\ \A m \in S : m \in black' <=> (m \in black \/ m = s) /\ m # g
    BY <1>1, <1>2, <1>6, <2>1
  <2>4. Colored(S, sentinel, u.child, par2, black', sentinel, sentinel, "left")
    BY <2>2, <2>3, SwapColors
  <2>5. QED
    BY <2>1, <2>4
<1>11. Blk' = black' /\ Upset' = n /\ SlotNode' = sentinel /\ SlotSide' = "left"
  BY DEF Blk, Upset, SlotNode, SlotSide, Slotted
<1>12. Colors'
  <2>1. PICK S, par2, blk2 : S = InTree /\ par2 = ParOf(u.root, u.parent) /\ blk2 = black'
    OBVIOUS
  <2>a. sentinel \notin S
    BY <2>1, TreeNow
  <2>b. /\ \E B : Labelled(S, sentinel, u.child, blk2, B, sentinel, "left")
        /\ Reds(S, par2, blk2, sentinel)
    BY <1>10, <2>1 DEF Colored
  <2>c. Reds(S, par2, blk2, n)
    BY ONLY <2>a, <2>b DEF Reds
  <2>d. Colored(S, sentinel, u.child, par2, blk2, n, sentinel, "left")
    BY <2>b, <2>c DEF Colored
  <2>e. Colored(InTree, sentinel, u.child, ParOf(u.root, u.parent), black', n, sentinel, "left")
    BY <2>1, <2>d
  <2>2. QED
    BY <1>4, <1>11, <2>e DEF Colors
<1>13. (sentinel \in black)'
  BY <1>2, <1>6 DEF TreeInv
<1>14. QED
  BY <1>4, <1>8, <1>9, <1>12, <1>13 DEF TreeInv

\* A black uncle: a node on the inner side is brought to the outer side first.
LEMMA InsertRotateKeeps ==
  ASSUME TreeInv, InsertRotate
  PROVE  TreeInv' /\ List' = List
<1>1. PICK p, g, d, u : p = parent[node] /\ g = Grandparent /\ d = SideOf(p) /\ u = Uncle
  OBVIOUS
<1>2. /\ node \in InTree /\ node \notin black /\ Par[node] = p
      /\ p \in InTree /\ p \notin black /\ Par[p] = g /\ p # node
      /\ g \in InTree /\ g \in black
      /\ d \in Side /\ child[g][d] = p
      /\ u = child[g][Opposite(d)] /\ u \in InTree \cup {sentinel} /\ u # p /\ u # node
      /\ child[p][SideOf(node)] = node
  BY <1>1, InsertPlace DEF InsertRotate
<1>3. /\ pc = "insert" /\ pc' = pc /\ temp' = temp /\ insert' = insert /\ key' = key
      /\ ngx_rbt_is_black(u)
  BY <1>1 DEF InsertRotate, InsertGoesOn
<1>4. u \in InTree => u \in black
  BY <1>3, TreeNow DEF black
<1>5. /\ Grows(memory) /\ In(memory.child) = InTree
      /\ memory.root = root /\ memory.child = child /\ memory.parent = parent
      /\ ParOf(memory.root, memory.parent) = Par
      /\ Walk(memory.child)[memory.root] = List
  BY MemoryGrows
<1>6. Colored(InTree, sentinel, child, Par, black, node, sentinel, "left")
  BY <1>3 DEF TreeInv, Colors, Blk, Upset, SlotNode, SlotSide, Slotted
<1>7. Opposite(d) \in Side /\ SideOf(node) \in Side /\ Opposite(d) # d
      /\ \A e \in Side : e = d \/ e = Opposite(d)
  BY <1>2, SidesAgree DEF SideOf
<1>8. CASE node # child[p][Opposite(d)]
  <2>1. node = child[p][d]
    BY <1>2, <1>7, <1>8
  <2>2. /\ node' = node
        /\ color' = [color EXCEPT ![memory.parent[node]] = "black", ![g] = "red"]
        /\ Becomes(Rotate(memory, g, Opposite(d)))
    BY <1>1, <1>8 DEF InsertRotate
  <2>3. memory.parent[node] = p
    BY <1>1, <1>5
  <2>4. color' = [color EXCEPT ![p] = "black", ![g] = "red"]
    BY <2>2, <2>3
  <2>5. PICK t : t = memory
    OBVIOUS
  <2>6. /\ Grows(t) /\ In(t.child) = InTree
        /\ p = t.child[g][d] /\ node = t.child[p][d]
        /\ (t.child[g][Opposite(d)] \in InTree => t.child[g][Opposite(d)] \in black)
        /\ Colored(InTree, sentinel, t.child, ParOf(t.root, t.parent), black, node, sentinel, "left")
        /\ Becomes(Rotate(t, g, Opposite(d)))
    BY <1>2, <1>4, <1>5, <1>6, <2>1, <2>2, <2>5
  <2>7. TreeInv' /\ List' = Walk(t.child)[t.root]
    BY <1>2, <1>3, <2>2, <2>4, <2>6, InsertTurn
  <2>8. QED
    BY <1>5, <2>5, <2>7
<1>9. CASE node = child[p][Opposite(d)]
  <2>1. PICK t : t = Rotate(memory, p, d)
    OBVIOUS
  <2>2. /\ node' = p
        /\ color' = [color EXCEPT ![t.parent[p]] = "black", ![g] = "red"]
        /\ Becomes(Rotate(t, g, Opposite(d)))
    BY <1>1, <1>9, <2>1 DEF InsertRotate
  <2>3. node = memory.child[p][Opposite(d)] /\ node # sentinel
    BY <1>2, <1>5, <1>9, TreeNow
  <2>4. Rotated(memory, t, p, node, d)
    BY <1>2, <1>5, <2>1, <2>3, RotateTurns
  <2>5. PICK par2 : par2 = ParOf(t.root, t.parent)
    OBVIOUS
  <2>6. /\ Grows(t) /\ In(t.child) = InTree
        /\ Turns(InTree, root, child, Par, t.root, t.child, par2, p, node, d)
        /\ Walk(t.child)[t.root] = List
    BY <1>5, <2>4, <2>5, RotateLists DEF Rotated
  <2>7. /\ node = t.child[g][d] /\ p = t.child[node][d]
        /\ t.child[g][Opposite(d)] = u
        /\ t.parent[p] = node
    <3>1. Hung(InTree, sentinel, root, child, Par)
      BY TreeNow
    <3>2. g # p /\ g # node
      BY <1>2, <3>1 DEF Hung
    <3>3. /\ \A m \in InTree, e \in Side :
               t.child[m][e] = IF m = p /\ e # d THEN child[node][d] ELSE IF m = node /\ e = d THEN p
                               ELSE IF child[m][e] = p THEN node ELSE child[m][e]
      BY <2>6, SidesAgree DEF Turns
    <3>4. par2[p] = node
      BY <1>2, <2>6 DEF Turns
    <3>5. t.parent[p] = node
      <4>1. \A m \in In(t.child) : par2[m] = IF m = t.root THEN sentinel ELSE t.parent[m]
        BY <2>5, <2>6, PlantedType DEF Grows
      <4>2. QED
        BY <1>2, <2>3, <2>6, <3>4, <4>1
    <3>6. QED
      BY <1>2, <1>7, <3>2, <3>3, <3>5
  <2>8. Colored(InTree, sentinel, t.child, par2, black, p, sentinel, "left")
    <3>1. Hung(InTree, sentinel, root, child, Par)
      BY TreeNow
    <3>2. QED
      BY <1>2, <1>6, <2>6, <3>1, InnerColors
  <2>9. color' = [color EXCEPT ![node] = "black", ![g] = "red"]
    BY <2>2, <2>7
  <2>10. /\ (t.child[g][Opposite(d)] \in InTree => t.child[g][Opposite(d)] \in black)
         /\ Colored(InTree, sentinel, t.child, ParOf(t.root, t.parent), black, p, sentinel, "left")
    BY <1>4, <2>5, <2>7, <2>8
  <2>11. TreeInv' /\ List' = Walk(t.child)[t.root]
    BY <1>2, <1>3, <2>2, <2>6, <2>7, <2>9, <2>10, InsertTurn
  <2>12. QED
    BY <2>6, <2>11
<1>10. QED
  BY <1>8, <1>9

-----------------------------------------------------------------------------
(* The loop of ngx_rbtree_delete. *)

\* Where the loop goes on there is a sibling.
LEMMA DeletePlace ==
  ASSUME TreeInv, DeleteGoesOn, NEW p, p = parent[temp], NEW d, d = SideOf(temp), NEW w, w = Sibling
  PROVE  /\ pc = "delete" /\ temp # root /\ temp \in InTree \cup {sentinel} /\ temp \in black
         /\ Blk = black /\ Upset = sentinel /\ SlotNode = p /\ SlotSide = d
         /\ p \in InTree /\ d \in Side /\ child[p][d] = temp
         /\ w \in InTree /\ w = child[p][Opposite(d)] /\ w # temp /\ w # p /\ temp # p
         /\ Near = child[w][d] /\ Far = child[w][Opposite(d)]
         /\ Colored(InTree, sentinel, child, Par, black, sentinel, p, d)
<1>1. pc = "delete" /\ temp # root /\ ngx_rbt_is_black(temp)
  BY DEF DeleteGoesOn
<1>2. /\ temp \in InTree \cup {sentinel} /\ p \in InTree /\ child[p][d] = temp /\ d \in Side
  BY <1>1, SidesAgree DEF TreeInv, Locals, SideOf
<1>3. temp \in black
  BY <1>1 DEF black, TreeInv, TypeOK
<1>4. Blk = black /\ Upset = sentinel /\ SlotNode = p /\ SlotSide = d
  BY <1>1, <1>3 DEF Blk, Upset, SlotNode, SlotSide, Slotted
<1>5. Colored(InTree, sentinel, child, Par, black, sentinel, p, d)
  BY <1>4 DEF TreeInv, Colors
<1>6. w = child[p][Opposite(d)] /\ Near = child[w][d] /\ Far = child[w][Opposite(d)]
  BY DEF Sibling, Near, Far
<1>7. \A e \in TwoSides : child[p][e] \in InTree \cup {sentinel}
  BY <1>2, TreeNow, SidesAgree
<1>8. d \in TwoSides /\ Across(d) = Opposite(d) /\ Opposite(d) \in TwoSides
  BY <1>2, SidesAgree
<1>9. PICK S, par, blk : S = InTree /\ par = Par /\ blk = black
  OBVIOUS
<1>10. child[p][d] # child[p][Across(d)] /\ child[p][Across(d)] # sentinel
  <2>1. /\ p \in S /\ \A e \in TwoSides : child[p][e] \in S \cup {sentinel}
        /\ Colored(S, sentinel, child, par, blk, sentinel, p, d)
    BY <1>2, <1>5, <1>7, <1>9
  <2>2. QED
    BY ONLY <1>8, <2>1, SlotApart
<1>11. w \in InTree /\ w # temp
  BY <1>2, <1>6, <1>7, <1>8, <1>10
<1>12. w # p /\ temp # p
  <2>1. sentinel \notin InTree /\ Hung(InTree, sentinel, root, child, Par)
    BY TreeNow
  <2>2. child[p][Across(d)] # p /\ (child[p][d] # sentinel => child[p][d] # p)
    BY <1>2, <1>8, <1>10, <2>1 DEF Hung
  <2>3. QED
    BY <1>2, <1>6, <1>8, <2>1, <2>2
<1>13. QED
  BY <1>1, <1>2, <1>3, <1>4, <1>5, <1>6, <1>11, <1>12

\* A red sibling: the rotation leaves temp where it hangs.
LEMMA DeleteRedSiblingKeeps ==
  ASSUME TreeInv, DeleteRedSibling
  PROVE  TreeInv' /\ List' = List
<1>1. PICK p, d, w, u : p = parent[temp] /\ d = SideOf(temp) /\ w = Sibling /\ u = Rotate(memory, p, d)
  OBVIOUS
<1>2. /\ pc = "delete" /\ temp # root /\ temp \in InTree \cup {sentinel} /\ temp \in black
      /\ p \in InTree /\ d \in Side /\ child[p][d] = temp
      /\ w \in InTree /\ w = child[p][Opposite(d)] /\ w # temp /\ w # p /\ temp # p
      /\ Colored(InTree, sentinel, child, Par, black, sentinel, p, d)
  BY <1>1, DeletePlace DEF DeleteRedSibling
<1>3. /\ pc' = pc /\ node' = node /\ temp' = temp /\ insert' = insert /\ key' = key
      /\ color' = [color EXCEPT ![w] = "black", ![p] = "red"]
      /\ Becomes(u) /\ ngx_rbt_is_red(w)
  BY <1>1 DEF DeleteRedSibling
<1>4. /\ Grows(memory) /\ In(memory.child) = InTree
      /\ memory.root = root /\ memory.child = child /\ memory.parent = parent
      /\ ParOf(memory.root, memory.parent) = Par
      /\ Walk(memory.child)[memory.root] = List
  BY MemoryGrows
<1>5. sentinel \notin InTree /\ (\A m \in InTree : m \in Cell) /\ Hung(InTree, sentinel, root, child, Par)
  BY TreeNow
<1>6. Rotated(memory, u, p, w, d)
  BY <1>1, <1>2, <1>4, <1>5, RotateTurns
<1>7. /\ Planted(root, child, parent)'
      /\ InTree' = InTree /\ Par' = ParOf(u.root, u.parent) /\ child' = u.child
      /\ List' = List
  BY <1>3, <1>4, <1>6, MemoryTurned
<1>8. /\ Turns(InTree, root, child, Par, root', child', Par', p, w, d)
      /\ parent'[sentinel] = parent[sentinel]
  BY <1>3, <1>4, <1>6, <1>7 DEF Rotated, Becomes
<1>9. color' \in [Cell -> Color] /\ black' = (black \cup {w}) \ {p}
  <2>1. color \in [Cell -> Color] /\ "red" \in Color /\ "black" \in Color
    BY DEF TreeInv, TypeOK, Color
  <2>2. /\ color' \in [Cell -> Color]
        /\ \A m \in Cell : color'[m] = IF m = p THEN "red" ELSE IF m = w THEN "black" ELSE color[m]
    BY <1>2, <1>3, <1>5, <2>1
  <2>3. QED
    BY <1>2, <1>5, <2>2 DEF black, ngx_rbt_is_black, ngx_rbt_is_red
<1>10. OtherTypes'
  BY <1>3, <1>9, TypesApart DEF OtherTypes
<1>11. TypeOK'
  BY <1>7, <1>10, TypesTogether
<1>12. Colored(InTree, sentinel, child', Par', black', sentinel, p, d)
  <2>1. PICK S, r, ch, par, blk, r2, ch2, par2, blk2 :
          /\ S = InTree /\ r = root /\ ch = child /\ par = Par /\ blk = black
          /\ r2 = root' /\ ch2 = child' /\ par2 = Par' /\ blk2 = black'
    OBVIOUS
  <2>2. w \notin blk
    BY <1>2, <1>3, <1>5, <2>1, BlackOrRed DEF ngx_rbt_is_red
  <2>3. p \in blk
    <3>1. Reds(S, par, blk, sentinel) /\ par[w] = p /\ w \in S
      BY <1>2, <1>5, <1>8, <2>1, SidesAgree DEF Colored, Hung
    <3>2. QED
      BY <1>5, <2>1, <2>2, <3>1 DEF Reds
  <2>4. /\ Hung(S, sentinel, r, ch, par)
        /\ Turns(S, r, ch, par, r2, ch2, par2, p, w, d)
        /\ Colored(S, sentinel, ch, par, blk, sentinel, p, d)
        /\ p # w /\ (p = p => d = d)
        /\ (sentinel \in S => sentinel = ch[w][Across(d)])
        /\ (ch[p][d] \in S => ch[p][d] \in blk)
        /\ \A m \in S : m \in blk2 <=> (m \in blk \/ m = w) /\ m # p
    BY <1>2, <1>5, <1>8, <1>9, <2>1
  <2>5. Colored(S, sentinel, ch2, par2, blk2, sentinel, p, d)
    BY ONLY <2>2, <2>3, <2>4, SwapColors
  <2>6. QED
    BY <2>1, <2>5
<1>13. /\ \A m \in InTree, e \in Side :
            /\ child'[m][e] \in InTree \cup {sentinel}
            /\ child'[m][e] # sentinel => parent'[child'[m][e]] = m /\ child'[m][e] # root'
  <2>1. Planted(root', child', parent') /\ In(child') = InTree
    BY <1>3, <1>6, <1>4, <1>7 DEF Rotated, Grows, Becomes
  <2>2. QED
    BY <2>1, PlantedType
<1>14. child'[p][d] = temp
  <2>1. child'[p][d] = IF child[p][d] = p THEN w ELSE child[p][d]
    BY <1>2, <1>8, SidesAgree DEF Turns
  <2>2. QED
    BY <1>2, <2>1
<1>15. parent'[temp] = p
  BY <1>1, <1>2, <1>8, <1>13, <1>14
<1>16. SideOf(temp)' = d
  <2>1. PICK S, ch, par, blk : S = InTree /\ ch = child' /\ par = Par' /\ blk = black'
    OBVIOUS
  <2>2. /\ p \in S /\ d \in TwoSides /\ \A e \in TwoSides : ch[p][e] \in S \cup {sentinel}
        /\ Colored(S, sentinel, ch, par, blk, sentinel, p, d)
    BY <1>2, <1>12, <1>13, <2>1, SidesAgree
  <2>3. ch[p][d] # ch[p][Across(d)]
    BY ONLY <2>2, SlotApart
  <2>4. child'[parent'[temp]]["left"] = temp <=> d = "left"
    BY <1>2, <1>14, <1>15, <2>1, <2>3, SidesAgree
  <2>5. QED
    BY <1>2, <1>3, <2>4, SidesAgree DEF SideOf
<1>17. temp # root'
  BY <1>2, <1>8 DEF Turns
<1>18. temp \in black'
  BY <1>2, <1>9
<1>19. Slotted' /\ SlotNode' = p /\ SlotSide' = d /\ Upset' = sentinel /\ Blk' = black'
  <2>1. Slotted'
    BY <1>2, <1>3, <1>17, <1>18 DEF Slotted, black
  <2>2. QED
    BY <1>2, <1>3, <1>15, <1>16, <1>18, <2>1 DEF SlotNode, SlotSide, Upset, Blk
<1>20. Locals'
  BY <1>2, <1>3, <1>7, <1>14, <1>15, <1>16 DEF Locals
<1>21. Colors'
  BY <1>7, <1>12, <1>19 DEF Colors
<1>22. (sentinel \in black)'
  BY <1>2, <1>5, <1>9 DEF TreeInv
<1>23. QED
  BY <1>7, <1>11, <1>20, <1>21, <1>22 DEF TreeInv

\* No red child of the sibling: the slot goes up, or ends.
LEMMA DeleteFlipKeeps ==
  ASSUME TreeInv, DeleteFlip
  PROVE  TreeInv' /\ List' = List
<1>1. PICK p, d, w : p = parent[temp] /\ d = SideOf(temp) /\ w = Sibling
  OBVIOUS
<1>2. /\ pc = "delete" /\ temp # root
      /\ p \in InTree /\ d \in Side /\ child[p][d] = temp
      /\ w \in InTree /\ w = child[p][Opposite(d)] /\ w # p
      /\ Near = child[w][d] /\ Far = child[w][Opposite(d)]
      /\ Colored(InTree, sentinel, child, Par, black, sentinel, p, d)
  BY <1>1, DeletePlace DEF DeleteFlip
<1>3. /\ pc' = pc /\ node' = node /\ temp' = p /\ insert' = insert /\ key' = key
      /\ root' = root /\ child' = child /\ parent' = parent
      /\ color' = [color EXCEPT ![w] = "red"]
      /\ w \in black /\ Near \in black /\ Far \in black
  BY <1>1 DEF DeleteFlip
<1>4. /\ Planted(root, child, parent)'
      /\ InTree' = InTree /\ Par' = Par /\ List' = List /\ \A n : SideOf(n)' = SideOf(n)
  BY <1>3, SamePointers
<1>5. /\ sentinel \notin InTree /\ (\A m \in InTree : m \in Cell)
      /\ Hung(InTree, sentinel, root, child, Par)
      /\ \A n \in InTree : Par[n] = IF n = root THEN sentinel ELSE parent[n]
      /\ p # root => /\ parent[p] \in InTree
                     /\ child[parent[p]][SideOf(p)] = p
  BY <1>2, TreeNow
<1>6. color' \in [Cell -> Color] /\ black' = black \ {w}
  <2>1. color \in [Cell -> Color] /\ "red" \in Color
    BY DEF TreeInv, TypeOK, Color
  <2>2. /\ color' \in [Cell -> Color]
        /\ \A m \in Cell : color'[m] = IF m = w THEN "red" ELSE color[m]
    BY <1>2, <1>3, <1>5, <2>1
  <2>3. QED
    BY <1>2, <1>5, <2>2 DEF black, ngx_rbt_is_black, ngx_rbt_is_red
<1>7. OtherTypes'
  BY <1>2, <1>3, <1>5, <1>6, TypesApart DEF OtherTypes
<1>8. TypeOK'
  BY <1>4, <1>7, TypesTogether
<1>9. Locals'
  BY <1>2, <1>3, <1>4, <1>5 DEF Locals
<1>10. Blk' = black' \cup {p} /\ Upset' = sentinel
  BY <1>2, <1>3 DEF Blk, Upset
<1>11. Slotted' <=> p # root /\ p \in black
  BY <1>2, <1>3, <1>5, <1>6 DEF Slotted, black
<1>12. PICK S, par, blk, blk2 : S = InTree /\ par = Par /\ blk = black /\ blk2 = Blk'
  OBVIOUS
<1>13. Colored(S, sentinel, child, par, blk2, sentinel, SlotNode', SlotSide')
  <2>1. /\ Hung(S, sentinel, root, child, par) /\ p \in S /\ w \in S
        /\ d \in TwoSides /\ w = child[p][Across(d)]
        /\ Colored(S, sentinel, child, par, blk, sentinel, p, d)
        /\ w \in blk
    BY <1>2, <1>3, <1>5, <1>12, SidesAgree
  <2>2. \A e \in TwoSides : child[w][e] \in S => child[w][e] \in blk
    BY <1>2, <1>3, <1>12, SidesAgree
  <2>3. \A m \in S : m \in blk2 <=> (m \in blk \/ m = p) /\ m # w
    BY <1>2, <1>6, <1>10, <1>12
  <2>4. PICK x, e0 : x = SlotNode' /\ e0 = SlotSide'
    OBVIOUS
  <2>5. IF p \notin blk \/ p = root THEN x = sentinel /\ e0 = "left"
        ELSE x = par[p] /\ e0 \in TwoSides /\ child[x][e0] = p
    <3>1. CASE p \notin black \/ p = root
      BY <1>11, <1>12, <2>4, <3>1 DEF SlotNode, SlotSide
    <3>2. CASE p \in black /\ p # root
      <4>1. x = parent[p] /\ e0 = SideOf(p)
        BY <1>3, <1>4, <1>11, <2>4, <3>2 DEF SlotNode, SlotSide
      <4>2. SideOf(p) \in TwoSides
        BY SidesAgree DEF SideOf
      <4>3. QED
        BY <1>2, <1>5, <1>12, <3>2, <4>1, <4>2
    <3>3. QED
      BY <3>1, <3>2
  <2>6. Colored(S, sentinel, child, par, blk2, sentinel, x, e0)
    BY ONLY <2>1, <2>2, <2>3, <2>5, FadeColors
  <2>7. QED
    BY <2>4, <2>6
<1>14. Colors'
  BY <1>3, <1>4, <1>10, <1>12, <1>13 DEF Colors
<1>15. (sentinel \in black)'
  BY <1>2, <1>5, <1>6 DEF TreeInv
<1>16. QED
  BY <1>4, <1>8, <1>9, <1>14, <1>15 DEF TreeInv

\* The colors after the loop: s has that of p, and p and f are black.
Repainted(S, blk, blk2, p, s, f) ==
  \A m \in S : m \in blk2 <=> IF m = s THEN p \in blk ELSE m \in blk \/ m = p \/ m = f

\* The last rotation of the loop, at p: s takes the color of p, and the slot is gone.
LEMMA DeleteTurn ==
  ASSUME TreeInv, NEW t, Grows(t), In(t.child) = InTree,
         NEW p \in InTree, NEW s \in InTree, NEW f \in InTree, NEW d \in Side,
         s = t.child[p][Opposite(d)], f = t.child[s][Opposite(d)],
         NEW blk, s \in blk, f \notin blk, t.child[p][d] \in InTree => t.child[p][d] \in blk,
         Colored(InTree, sentinel, t.child, ParOf(t.root, t.parent), blk, sentinel, p, d),
         Becomes(Rotate(t, p, d)),
         color' \in [Cell -> Color], sentinel \in black',
         Repainted(InTree, blk, black', p, s, f),
         pc = "delete", pc' = pc, temp' = root', node' = node, key' = key, insert' = insert
  PROVE  TreeInv' /\ List' = Walk(t.child)[t.root]
<1>1. PICK u : u = Rotate(t, p, d)
  OBVIOUS
<1>2. s # sentinel /\ sentinel \notin InTree /\ Across(d) = Opposite(d) /\ d \in TwoSides
  BY SidesAgree, TreeNow
<1>3. Rotated(t, u, p, s, d)
  BY <1>1, <1>2, RotateTurns
<1>4. /\ Planted(root, child, parent)'
      /\ InTree' = InTree /\ Par' = ParOf(u.root, u.parent) /\ child' = u.child
      /\ List' = Walk(t.child)[t.root]
      /\ root' = u.root
  BY <1>1, <1>3, MemoryTurned DEF Becomes
<1>5. root' \in InTree /\ root' \in Cell
  <2>1. Planted(root', child', parent') /\ In(child') = InTree
    BY <1>4 DEF Planted, In, ParOf, InTree
  <2>2. root' \in InTree
    BY <2>1, RootThere
  <2>3. QED
    BY <2>2, TreeNow
<1>6. OtherTypes'
  BY <1>5, TypesApart DEF OtherTypes
<1>7. TypeOK'
  BY <1>4, <1>6, TypesTogether
<1>8. Locals'
  BY <1>4, <1>5 DEF Locals
<1>9. PICK S, par, par2, blk2 :
        S = InTree /\ par = ParOf(t.root, t.parent) /\ par2 = Par' /\ blk2 = black'
  OBVIOUS
<1>10. Colored(S, sentinel, u.child, par2, blk2, sentinel, sentinel, "left")
  <2>1. /\ Hung(S, sentinel, t.root, t.child, par)
        /\ Turns(S, t.root, t.child, par, u.root, u.child, par2, p, s, d)
        /\ Colored(S, sentinel, t.child, par, blk, sentinel, p, d)
    BY <1>3, <1>4, <1>9, PlantedType DEF Grows, Rotated
  <2>2. /\ f \in S /\ f = t.child[s][Across(d)] /\ s \in blk /\ f \notin blk
        /\ (t.child[p][d] \in S => t.child[p][d] \in blk)
        /\ \A m \in S : m \in blk2 <=> IF m = s THEN p \in blk ELSE m \in blk \/ m = p \/ m = f
    BY <1>2, <1>9 DEF Repainted
  <2>3. QED
    BY ONLY <2>1, <2>2, LastColors
<1>11. root' \in blk2
  <2>1. Hung(S, sentinel, u.root, u.child, par2) /\ u.root \in S
    <3>1. Planted(u.root, u.child, u.parent) /\ In(u.child) = S /\ par2 = ParOf(u.root, u.parent)
      BY <1>3, <1>4, <1>9 DEF Rotated, Grows
    <3>2. QED
      BY <1>4, <1>5, <1>9, <3>1, PlantedType
  <2>2. u.root \in blk2
    BY ONLY <1>10, <2>1, ColoredRoot
  <2>3. QED
    BY <1>4, <2>2
<1>12. Blk' = blk2 /\ Upset' = sentinel /\ SlotNode' = sentinel /\ SlotSide' = "left"
  BY <1>9, <1>11 DEF Blk, Upset, SlotNode, SlotSide, Slotted
<1>13. Colors'
  BY <1>4, <1>9, <1>10, <1>12 DEF Colors
<1>14. QED
  BY <1>4, <1>7, <1>8, <1>13 DEF TreeInv

\* A red child of the sibling: the inner one is brought up first if the outer is black.
LEMMA DeleteRotateKeeps ==
  ASSUME TreeInv, DeleteRotate
  PROVE  TreeInv' /\ List' = List
<1>1. PICK p, d, w : p = parent[temp] /\ d = SideOf(temp) /\ w = Sibling
  OBVIOUS
<1>2. PICK o : o = Opposite(d)
  OBVIOUS
<1>3. PICK near, far : near = Near /\ far = Far
  OBVIOUS
<1>4. /\ pc = "delete" /\ temp \in InTree \cup {sentinel} /\ temp \in black
      /\ p \in InTree /\ d \in Side /\ child[p][d] = temp
      /\ w \in InTree /\ w = child[p][o] /\ w # p /\ w # temp /\ temp # p
      /\ near = child[w][d] /\ far = child[w][o]
      /\ Colored(InTree, sentinel, child, Par, black, sentinel, p, d)
  BY <1>1, <1>2, <1>3, DeletePlace DEF DeleteRotate
<1>5. /\ pc' = pc /\ node' = node /\ insert' = insert /\ key' = key
      /\ ngx_rbt_is_black(w) /\ {near, far} \ black # {}
  BY <1>1, <1>3 DEF DeleteRotate
<1>6. /\ Grows(memory) /\ In(memory.child) = InTree
      /\ memory.root = root /\ memory.child = child /\ memory.parent = parent
      /\ ParOf(memory.root, memory.parent) = Par
      /\ Walk(memory.child)[memory.root] = List
  BY MemoryGrows
<1>7. /\ sentinel \notin InTree /\ (\A m \in InTree : m \in Cell) /\ sentinel \in Cell
      /\ Hung(InTree, sentinel, root, child, Par)
      /\ \A m \in InTree, e \in Side : child[m][e] \in InTree \cup {sentinel}
      /\ sentinel \in black
  BY TreeNow DEF TreeInv, Cell
<1>8. /\ o \in Side /\ o # d /\ Across(d) = o /\ Across(o) = d /\ Opposite(o) = d
      /\ d \in TwoSides /\ o \in TwoSides
  BY <1>2, <1>4, SidesAgree
<1>9. w \in black /\ near \in InTree \cup {sentinel} /\ far \in InTree \cup {sentinel}
  BY <1>4, <1>5, <1>7, <1>8 DEF black
<1>10. color \in [Cell -> Color] /\ "red" \in Color /\ "black" \in Color /\ UpperColor = color[p]
  BY <1>1 DEF TreeInv, TypeOK, Color, UpperColor
<1>11. \A m \in Cell : m \in black <=> color[m] = "black"
  BY BlackOrRed
\* Around the sibling.
<1>12. /\ near # sentinel => near # w /\ near # p /\ near # far /\ Par[near] = w /\ near # temp
       /\ far # sentinel => far # w /\ far # p /\ Par[far] = w /\ far # temp
  <2>1. Par[w] = p
    BY <1>4, <1>7, <1>8 DEF Hung
  <2>2. temp \in InTree => Par[temp] = p
    BY <1>4, <1>7, <1>8 DEF Hung
  <2>3. /\ near # sentinel => near # w /\ near # p /\ near # far /\ Par[near] = w
        /\ far # sentinel => far # w /\ far # p /\ Par[far] = w
    BY <1>4, <1>7, <1>8, <2>1 DEF Hung
  <2>4. QED
    BY <1>4, <1>9, <2>2, <2>3
<1>13. CASE ~ngx_rbt_is_black(far)
  <2>1. far \in InTree /\ far \notin black
    BY <1>7, <1>9, <1>13 DEF black
  <2>2. /\ color' = [color EXCEPT ![memory.child[p][o]] = UpperColor, ![p] = "black",
                                  ![memory.child[memory.child[p][o]][o]] = "black"]
        /\ Becomes(Rotate(memory, p, d))
        /\ temp' = Rotate(memory, p, d).root
    BY <1>1, <1>2, <1>3, <1>13 DEF DeleteRotate
  <2>3. /\ color' = [color EXCEPT ![w] = color[p], ![p] = "black", ![far] = "black"]
        /\ temp' = root'
    BY <1>4, <1>6, <1>10, <2>2 DEF Becomes
  <2>4. /\ color' \in [Cell -> Color]
        /\ \A m \in Cell : color'[m] = IF m = far \/ m = p THEN "black"
                                       ELSE IF m = w THEN color[p] ELSE color[m]
    BY <1>4, <1>7, <1>10, <2>1, <2>3
  <2>5. sentinel \in black' /\ Repainted(InTree, black, black', p, w, far)
    <3>1. black' = {m \in Cell : color'[m] = "black"}
      BY <2>4 DEF black, ngx_rbt_is_black, ngx_rbt_is_red, Color
    <3>2. QED
      BY <1>4, <1>7, <1>11, <1>12, <2>1, <2>4, <3>1 DEF Repainted
  <2>6. PICK t : t = memory
    OBVIOUS
  <2>7. /\ Grows(t) /\ In(t.child) = InTree
        /\ w = t.child[p][Opposite(d)] /\ far = t.child[w][Opposite(d)]
        /\ (t.child[p][d] \in InTree => t.child[p][d] \in black)
        /\ Colored(InTree, sentinel, t.child, ParOf(t.root, t.parent), black, sentinel, p, d)
        /\ Becomes(Rotate(t, p, d))
    BY <1>2, <1>4, <1>6, <2>2, <2>6
  <2>8. TreeInv' /\ List' = Walk(t.child)[t.root]
    BY <1>4, <1>5, <1>9, <2>1, <2>3, <2>4, <2>5, <2>7, DeleteTurn
  <2>9. QED
    BY <1>6, <2>6, <2>8
<1>14. CASE ngx_rbt_is_black(far)
  <2>1. far \in black /\ near \in InTree /\ near \notin black
    BY <1>5, <1>7, <1>9, <1>14 DEF black
  <2>2. PICK t, col :
          /\ t = Rotate(memory, w, o)
          /\ col = [color EXCEPT ![near] = "black", ![w] = "red"]
    OBVIOUS
  <2>3. /\ color' = [col EXCEPT ![t.child[p][o]] = UpperColor, ![p] = "black",
                                ![t.child[t.child[p][o]][o]] = "black"]
        /\ Becomes(Rotate(t, p, d))
        /\ temp' = Rotate(t, p, d).root
    BY <1>1, <1>2, <1>3, <1>14, <2>2 DEF DeleteRotate
  <2>4. near # sentinel /\ near = memory.child[w][Opposite(o)]
    BY <1>4, <1>6, <1>7, <1>8, <2>1
  <2>5. Rotated(memory, t, w, near, o)
    BY <1>4, <1>6, <1>8, <2>2, <2>4, RotateTurns
  <2>6. PICK S, par, par2 : S = InTree /\ par = Par /\ par2 = ParOf(t.root, t.parent)
    OBVIOUS
  <2>7. /\ Grows(t) /\ In(t.child) = InTree
        /\ Turns(S, root, child, par, t.root, t.child, par2, w, near, o)
        /\ Walk(t.child)[t.root] = List
    BY <1>6, <2>5, <2>6, RotateLists DEF Rotated
  <2>8. /\ t.child[p][o] = near /\ t.child[near][o] = w /\ t.child[p][d] = temp
    <3>1. \A m \in S, e \in TwoSides :
            t.child[m][e] = IF m = w /\ e # o THEN child[near][o] ELSE IF m = near /\ e = o THEN w
                            ELSE IF child[m][e] = w THEN near ELSE child[m][e]
      BY <2>7 DEF Turns
    <3>2. QED
      BY <1>4, <1>8, <1>12, <2>1, <2>4, <2>6, <3>1
  <2>9. PICK blk : blk = (black \cup {near}) \ {w}
    OBVIOUS
  <2>10. Colored(S, sentinel, t.child, par2, blk, sentinel, p, d)
    <3>1. /\ Hung(S, sentinel, root, child, par)
          /\ Colored(S, sentinel, child, par, black, sentinel, p, d)
          /\ w \in black /\ near \notin black /\ p # near /\ (p = w => d = o)
          /\ (sentinel \in S => sentinel = child[near][Across(o)])
          /\ (child[w][o] \in S => child[w][o] \in black)
          /\ \A m \in S : m \in blk <=> (m \in black \/ m = near) /\ m # w
      BY <1>4, <1>7, <1>9, <1>12, <2>1, <2>4, <2>6, <2>9
    <3>2. PICK ch, r, k : ch = child /\ r = root /\ k = black
      OBVIOUS
    <3>3. /\ Hung(S, sentinel, r, ch, par)
          /\ Colored(S, sentinel, ch, par, k, sentinel, p, d)
          /\ w \in k /\ near \notin k
          /\ (sentinel \in S => sentinel = ch[near][Across(o)])
          /\ (ch[w][o] \in S => ch[w][o] \in k)
          /\ \A m \in S : m \in blk <=> (m \in k \/ m = near) /\ m # w
          /\ Turns(S, r, ch, par, t.root, t.child, par2, w, near, o)
      BY <2>7, <3>1, <3>2
    <3>4. p # near /\ (p = w => d = o)
      BY <3>1
    <3>5. QED
      BY ONLY <3>3, <3>4, SwapColors
  <2>11. color' = [col EXCEPT ![near] = color[p], ![p] = "black", ![w] = "black"] /\ temp' = root'
    BY <1>10, <2>3, <2>8 DEF Becomes
  <2>12. /\ color' \in [Cell -> Color]
         /\ \A m \in Cell : color'[m] = IF m = w \/ m = p THEN "black"
                                        ELSE IF m = near THEN color[p] ELSE color[m]
    <3>1. col \in [Cell -> Color] /\ \A m \in Cell : m # near /\ m # w => col[m] = color[m]
      BY <1>4, <1>7, <1>10, <2>1, <2>2
    <3>2. QED
      BY <1>4, <1>7, <1>10, <2>1, <2>11, <3>1
  <2>13. sentinel \in black' /\ Repainted(InTree, blk, black', p, near, w)
    <3>1. black' = {m \in Cell : color'[m] = "black"}
      BY <2>12 DEF black, ngx_rbt_is_black, ngx_rbt_is_red, Color
    <3>2. \A m \in InTree : m \in black' <=>
            m = w \/ m = p \/ IF m = near THEN p \in black ELSE m \in black
      BY <1>4, <1>7, <1>11, <2>12, <3>1
    <3>3. p \in blk <=> p \in black
      BY <1>4, <1>12, <2>4, <2>9
    <3>4. sentinel \in black'
      BY <1>4, <1>7, <1>11, <2>4, <2>12, <3>1
    <3>5. QED
      BY <1>4, <1>12, <2>4, <2>9, <3>2, <3>3, <3>4 DEF Repainted
  <2>14. /\ near = t.child[p][Opposite(d)] /\ w = t.child[near][Opposite(d)]
         /\ (t.child[p][d] \in InTree => t.child[p][d] \in blk)
         /\ Colored(InTree, sentinel, t.child, ParOf(t.root, t.parent), blk, sentinel, p, d)
         /\ near \in blk /\ w \notin blk
    BY <1>2, <1>4, <1>12, <2>4, <2>6, <2>8, <2>9, <2>10
  <2>15. TreeInv' /\ List' = Walk(t.child)[t.root]
    BY <1>4, <1>5, <2>1, <2>3, <2>7, <2>11, <2>12, <2>13, <2>14, DeleteTurn
  <2>16. QED
    BY <2>7, <2>15
<1>15. QED
  BY <1>13, <1>14

-----------------------------------------------------------------------------
(* Deletions. *)

\* ngx_rbtree_min is a walk of TreeProof.
LEMMA MinIsDeepest ==
  ASSUME NEW n
  PROVE  ngx_rbtree_min(n) = DeepestWalk(Node, child, "left", sentinel, Max)[Max][n]
BY DEF ngx_rbtree_min, Levels, DeepestWalk, DeepestTurns, DeepestTurn, Max

\* Where the walks of a tree end.
LEMMA MinUnfolds ==
  ASSUME TreeInv
  PROVE  \E f, h : /\ \A n : ngx_rbtree_min(n) = f[n]
                   /\ IsDeepest(f, child, InTree, sentinel, "left")
                   /\ Shaped(child, Par, InTree, sentinel, h, Max)
<1>1. PICK f : f = DeepestWalk(Node, child, "left", sentinel, Max)[Max]
  OBVIOUS
<1>2. \A n : ngx_rbtree_min(n) = f[n]
  BY <1>1, MinIsDeepest
<1>3. /\ InTree = In(child) /\ InTree \subseteq Node /\ Planted(root, child, parent)
  BY TreeNow DEF TreeInv
<1>4. PICK h : Shaped(child, Par, InTree, sentinel, h, Max)
  BY <1>3, PlantedIsWalked DEF Par
<1>5. Below(child, InTree, sentinel, h) /\ \A n \in InTree : h[n] \in 1..Max
  BY <1>4 DEF Shaped
<1>6. InTree \in SUBSET Node /\ "left" \in TwoSides
  BY <1>3, BothSides
<1>7. IsDeepest(f, child, InTree, sentinel, "left")
  BY <1>1, <1>5, <1>6, MaxType, DeepestUnfolds
<1>8. QED
  BY <1>2, <1>4, <1>7

\* The successor of a node that has a right child: it is below that, has no left child,
\* and comes next in the list.
LEMMA MinHere ==
  ASSUME TreeInv, NEW n \in InTree, child[n]["right"] # sentinel, NEW m,
         m = ngx_rbtree_min(child[n]["right"])
  PROVE  /\ m \in InTree /\ m # n /\ m # root /\ Par[n] # m /\ child[m]["left"] = sentinel
         /\ NextTo(Node, List, n, m)
<1>1. PICK f, h : /\ \A k : ngx_rbtree_min(k) = f[k]
                  /\ IsDeepest(f, child, InTree, sentinel, "left")
                  /\ Shaped(child, Par, InTree, sentinel, h, Max)
  BY MinUnfolds
<1>2. /\ InTree = In(child) /\ InTree \subseteq Node /\ Planted(root, child, parent)
      /\ Grown(InTree, sentinel, root, child, Par)
  BY TreeNow DEF TreeInv
<1>3. PICK io : io = Walk(child)
  OBVIOUS
<1>4. /\ IsInOrder(io, child, InTree, sentinel) /\ Rooted(child, Par, root, InTree, sentinel)
      /\ Listed(InTree, sentinel, root, child, Par, io)
  BY <1>2, <1>3, PlantedIsWalked DEF Par
<1>5. "left" \in TwoSides /\ "right" \in TwoSides
  BY BothSides
<1>6. EndsBelow(f, child, io, InTree, sentinel, "left")
  BY <1>1, <1>4, <1>5, MaxType, DeepestEnds
<1>7. IsOutermost(f, io, InTree, "left")
  BY <1>1, <1>4, <1>5, MaxType, DeepestIsOutermost
<1>8. PICK c : c = child[n]["right"]
  OBVIOUS
<1>9. c \in InTree /\ m = f[c]
  BY <1>1, <1>8, TreeNow, SidesAgree
<1>10. m \in InTree /\ m \in Nodes(io, c) /\ child[m]["left"] = sentinel
  BY <1>6, <1>9 DEF EndsBelow
<1>11. Outermost(InTree, io[child[n]["right"]], "left", m)
  BY <1>7, <1>8, <1>9 DEF IsOutermost
<1>12. NextTo(Node, io[root], n, m)
  <2>1. PICK S, par : S = InTree /\ par = Par
    OBVIOUS
  <2>2. /\ Grown(S, sentinel, root, child, par) /\ IsInOrder(io, child, S, sentinel)
        /\ S \subseteq Node /\ n \in S /\ Outermost(S, io[child[n]["right"]], "left", m)
    BY <1>2, <1>4, <1>11, <2>1
  <2>3. QED
    BY ONLY <2>2, FirstIsNext
<1>13. m # n /\ m # root
  <2>1. n \notin Nodes(io, c)
    BY <1>4, <1>5, <1>8 DEF Listed
  <2>2. \A k \in InTree : h[k] \in Nat /\ \A l \in Nodes(io, k) : l # k => h[l] < h[k]
    <3>1. \A k \in InTree : h[k] \in 1..Max
      BY <1>1 DEF Shaped
    <3>2. QED
      BY <1>1, <1>4, <3>1, MaxType, NodesBelow
  <2>3. c \in Nodes(io, n) /\ c # n
    <3>1. c \in Nodes(io, c)
      BY <1>4, <1>9 DEF Listed
    <3>2. QED
      BY <1>4, <1>5, <1>8, <2>1, <3>1, SidesAgree DEF Listed
  <2>4. n \in Nodes(io, root) /\ root \in InTree
    BY <1>2, <1>4, RootThere DEF Listed
  <2>5. h[m] =< h[c] /\ h[c] < h[n] /\ h[n] =< h[root]
    BY <1>9, <1>10, <2>2, <2>3, <2>4
  <2>6. QED
    BY <1>9, <1>10, <2>1, <2>2, <2>4, <2>5
<1>14. Par[n] # m
  <2>1. c \in Nodes(io, c) /\ m \in Nodes(io, n)
    BY <1>4, <1>5, <1>8, <1>9, <1>10, SidesAgree DEF Listed
  <2>2. QED
    BY <1>4, <2>1 DEF Listed
<1>15. QED
  BY <1>3, <1>10, <1>12, <1>13, <1>14 DEF List

\* Lists over a part of the nodes are lists over all of them.
LEMMA RemovesWider ==
  ASSUME NEW S, NEW D, S \subseteq D, NEW s, NEW s2, NEW n, Removes(S, s, s2, n)
  PROVE  Removes(D, s, s2, n)
<1>1. Seq(S) \subseteq Seq(D)
  OBVIOUS
<1>2. QED
  BY <1>1 DEF Removes

LEMMA TradesWider ==
  ASSUME NEW S, NEW D, S \subseteq D, NEW s, NEW s2, NEW old, NEW new, Trades(S, s, s2, old, new)
  PROVE  Trades(D, s, s2, old, new)
<1>1. Seq(S) \subseteq Seq(D)
  OBVIOUS
<1>2. QED
  BY <1>1 DEF Trades

\* The walk of a tree that is not in the memory as a whole.
LEMMA GrownIsWalked ==
  ASSUME NEW S, S \subseteq Node, NEW r, NEW ch, NEW par, Grown(S, sentinel, r, ch, par)
  PROVE  IsInOrder(Walk(ch), ch, S, sentinel)
<1>1. S \in SUBSET Node /\ Cardinality(S) =< Max
  BY FiniteNodes, FS_Subset DEF Max
<1>2. PICK h : Shaped(ch, par, S, sentinel, h, Max)
  BY <1>1, MaxType, GrownIsShaped
<1>3. (\A n \in S : h[n] \in 1..Max) /\ Below(ch, S, sentinel, h)
  BY <1>2 DEF Shaped
<1>4. QED
  BY <1>1, <1>3, MaxType, InOrderUnfolds DEF Walk, NodeOrNil

\* What leaves its place in the tree, and what moves up: n or its successor, which has no
\* left child, and its only child or the sentinel.
LEMMA MovedHere ==
  ASSUME TreeInv, NEW n \in InTree, NEW s, s = Substitute(n), NEW c, c = Moved(n)
  PROVE  /\ s \in InTree
         /\ \E d \in Side : child[s][Opposite(d)] = sentinel /\ c = child[s][d]
         /\ c \in (InTree \cup {sentinel}) \ {s, n}
         /\ c # sentinel => parent[c] = s /\ c # root
         /\ s # n => s # root /\ Par[n] # s /\ NextTo(Node, List, n, s)
<1>1. /\ \A d : Opposite(d) = Across(d)
      /\ Side = {"left", "right"} /\ Across("left") = "right" /\ Across("right") = "left"
  BY SidesAgree DEF Across
<1>2. s = n \/ /\ s = ngx_rbtree_min(child[n]["right"])
               /\ \A d \in Side : child[n][d] # sentinel
  BY DEF Substitute
<1>3. s # n => child[n]["right"] # sentinel /\ s = ngx_rbtree_min(child[n]["right"])
  BY <1>1, <1>2
<1>4. /\ s # n => /\ s \in InTree /\ s # root /\ Par[n] # s /\ child[s]["left"] = sentinel
                  /\ NextTo(Node, List, n, s)
  BY <1>3, MinHere
<1>5. s \in InTree
  BY <1>4
<1>6. c = IF child[s]["left"] = sentinel THEN child[s]["right"] ELSE child[s]["left"]
  BY DEF Moved
<1>7. child[s]["left"] # sentinel => child[s]["right"] = sentinel
  <2>1. CASE s = n
    <3>1. sentinel \in {child[n][d] : d \in Side} \/ s = ngx_rbtree_min(child[n]["right"])
      BY DEF Substitute
    <3>2. CASE child[n]["right"] # sentinel /\ child[n]["left"] # sentinel
      <4>1. s = ngx_rbtree_min(child[n]["right"])
        BY <1>1, <3>1, <3>2
      <4>2. QED
        BY <2>1, <3>2, <4>1, MinHere
    <3>3. QED
      BY <2>1, <3>2
  <2>2. QED
    BY <1>4, <2>1
<1>8. \E d \in Side : child[s][Opposite(d)] = sentinel /\ c = child[s][d]
  BY <1>1, <1>6, <1>7
<1>9. c \in InTree \cup {sentinel} /\ (c # sentinel => parent[c] = s /\ c # root)
  BY <1>5, <1>8, TreeNow
<1>10. c # s /\ c # n
  <2>1. Hung(InTree, sentinel, root, child, Par) /\ sentinel \notin InTree
    BY TreeNow
  <2>2. c # s
    BY <1>1, <1>5, <1>8, <2>1, SidesAgree DEF Hung
  <2>3. s # n => c # n
    <3>1. c = n => Par[n] = s
      <4>1. PICK d \in TwoSides : c = child[s][d]
        BY <1>8, SidesAgree
      <4>2. c # sentinel => Par[c] = s
        BY <1>5, <2>1, <4>1 DEF Hung
      <4>3. n # sentinel
        BY <2>1
      <4>4. QED
        BY <4>2, <4>3
    <3>2. QED
      BY <1>4, <3>1
  <2>4. QED
    BY <2>2, <2>3
<1>11. QED
  BY <1>4, <1>5, <1>8, <1>9, <1>10

\* The end of a deletion's straight code: c is below x, with a black node too few above it
\* unless what left was red, or c is.
LEMMA FixupKeeps ==
  ASSUME TreeInv, pc = "idle", NEW n, NEW red, Fixup(red, n),
         Planted(root, child, parent)', NEW S, InTree' = S, OtherTypes', sentinel \in black',
         NEW c \in S \cup {sentinel}, c = Moved(n), c # root',
         NEW x \in S, NEW e1 \in Side, child'[x][e1] = c, parent'[c] = x,
         NEW blk2, blk2 = black' \cup (IF red THEN {} ELSE {c}),
         NEW x1, x1 = (IF red \/ c \notin black' THEN sentinel ELSE x),
         NEW e2, e2 = (IF red \/ c \notin black' THEN "left" ELSE e1),
         Colored(S, sentinel, child', Par', blk2, sentinel, x1, e2)
  PROVE  TreeInv'
<1>1. /\ pc' = (IF red THEN "idle" ELSE "delete") /\ temp' = (IF red THEN sentinel ELSE c)
      /\ node' = node
  BY DEF Fixup
<1>2. TypeOK'
  BY TypesTogether
<1>3. /\ sentinel \notin S /\ S \subseteq Cell
      /\ Hung(S, sentinel, root', child', Par')
      /\ \A e \in Side : child'[x][e] \in S \cup {sentinel}
  <2>1. Planted(root', child', parent') /\ In(child') = S /\ Par' = ParOf(root', parent')
    BY DEF Planted, In, ParOf, InTree, Par
  <2>2. QED
    BY <2>1, PlantedType DEF Cell
<1>4. CASE red
  <2>1. Locals'
    BY <1>1, <1>4 DEF Locals
  <2>2. Blk' = blk2 /\ Upset' = sentinel /\ SlotNode' = x1 /\ SlotSide' = e2
    BY <1>1, <1>4 DEF Blk, Upset, SlotNode, SlotSide, Slotted
  <2>3. Colors'
    BY <2>2 DEF Colors
  <2>4. QED
    BY <1>2, <2>1, <2>3 DEF TreeInv
<1>5. CASE ~red
  <2>1. pc' = "delete" /\ temp' = c
    BY <1>1, <1>5
  <2>2. child'[x][e1] # child'[x][Opposite(e1)]
    <3>1. CASE c \in S
      BY <1>3, <3>1, SidesAgree DEF Hung
    <3>2. CASE c = sentinel
      <4>1. x1 = x /\ e2 = e1
        BY <1>5, <3>2
      <4>2. PICK ch, par : ch = child' /\ par = Par'
        OBVIOUS
      <4>3. /\ x \in S /\ e1 \in TwoSides /\ \A e \in TwoSides : ch[x][e] \in S \cup {sentinel}
            /\ Colored(S, sentinel, ch, par, blk2, sentinel, x, e1)
        BY <1>3, <4>1, <4>2, SidesAgree
      <4>4. ch[x][e1] # ch[x][Across(e1)]
        BY ONLY <4>3, SlotApart
      <4>5. QED
        BY <4>2, <4>4, SidesAgree
    <3>3. QED
      BY <3>1, <3>2
  <2>3. SideOf(c)' = e1
    <3>1. SideOf(c)' = IF c = child'[x]["left"] THEN "left" ELSE "right"
      BY DEF SideOf
    <3>2. QED
      BY <2>2, <3>1, SidesAgree
  <2>4. SideOf(temp)' = e1
    BY <2>1, <2>3 DEF SideOf
  <2>5. Locals'
    BY <2>1, <2>4 DEF Locals
  <2>6. Slotted' <=> c \in black'
    BY <1>3, <2>1 DEF Slotted, black, Cell
  <2>7. Blk' = blk2 /\ Upset' = sentinel /\ SlotNode' = x1 /\ SlotSide' = e2
    BY <1>5, <2>1, <2>4, <2>6 DEF Blk, Upset, SlotNode, SlotSide
  <2>8. Colors'
    BY <2>7 DEF Colors
  <2>9. QED
    BY <1>2, <2>5, <2>8 DEF TreeInv
<1>6. QED
  BY <1>4, <1>5

\* What a deletion leaves of the memory: n is cleared.
LEMMA ClearedTypes ==
  ASSUME TreeInv, NEW n \in InTree, NEW ch, NEW par, NEW col,
         ch \in [Node -> [Side -> Cell] \cup {Cleared}], par \in [Cell -> Cell \cup {NULL}],
         col \in [Cell -> Color], \A m \in Node \ InTree : ch[m] = Cleared,
         \A m \in InTree \ {n} : ch[m] # Cleared,
         DebugStuff(n, ch, par, col)
  PROVE  /\ n \in Node /\ n \in Cell
         /\ child' \in [Node -> [Side -> Cell] \cup {Cleared}]
         /\ parent' \in [Cell -> Cell \cup {NULL}]
         /\ color' \in [Cell -> Color]
         /\ key' \in [Node -> 0..(KeyRange - 1)]
         /\ InTree' = InTree \ {n} /\ In(child') = InTree \ {n}
         /\ \A m \in InTree \ {n} : child'[m] = ch[m]
         /\ \A m \in Cell \ {n} : parent'[m] = par[m] /\ color'[m] = col[m]
         /\ color'[n] = "black"
<1>1. n \in Node /\ n \in Cell /\ InTree \subseteq Node
  BY TreeNow DEF Cell
<1>2. /\ child' = [ch EXCEPT ![n] = Cleared]
      /\ parent' = [par EXCEPT ![n] = NULL]
      /\ color' = [col EXCEPT ![n] = "black"]
      /\ key' = [key EXCEPT ![n] = 0]
  BY DEF DebugStuff
<1>3. /\ child' \in [Node -> [Side -> Cell] \cup {Cleared}]
      /\ \A m \in Node : child'[m] = IF m = n THEN Cleared ELSE ch[m]
  BY <1>1, <1>2
<1>4. /\ parent' \in [Cell -> Cell \cup {NULL}]
      /\ \A m \in Cell \ {n} : parent'[m] = par[m]
  BY <1>1, <1>2
<1>5. /\ color' \in [Cell -> Color] /\ color'[n] = "black"
      /\ \A m \in Cell \ {n} : color'[m] = col[m]
  BY <1>1, <1>2 DEF Color
<1>6. key' \in [Node -> 0..(KeyRange - 1)]
  BY <1>1, <1>2, NgxAssumption DEF TreeInv, TypeOK
<1>7. InTree' = InTree \ {n} /\ In(child') = InTree \ {n}
  BY <1>1, <1>3 DEF InTree, In
<1>8. \A m \in InTree \ {n} : child'[m] = ch[m]
  BY <1>1, <1>3
<1>9. QED
  BY <1>1, <1>3, <1>4, <1>5, <1>6, <1>7, <1>8

\* The list after a node with one child at most left.
LEMMA CutRemoves ==
  ASSUME TreeInv, Planted(root, child, parent)', NEW n \in InTree, InTree' = InTree \ {n},
         NEW c, NEW d, Cuts(InTree, sentinel, root, child, Par, root', child', Par', n, c, d)
  PROVE  Removes(Node, List, List', n)
<1>1. PICK S, r, ch, par, io, r2, ch2, par2, io2 :
        /\ S = InTree /\ r = root /\ ch = child /\ par = Par /\ io = Walk(child)
        /\ r2 = root' /\ ch2 = child' /\ par2 = Par' /\ io2 = Walk(child')
  OBVIOUS
<1>2. /\ S = In(ch) /\ S \subseteq Node /\ Grown(S, sentinel, r, ch, par)
      /\ IsInOrder(io, ch, S, sentinel)
  BY <1>1, TreeNow, PlantedIsWalked DEF TreeInv
<1>3. IsInOrder(io2, ch2, S \ {n}, sentinel)
  <2>1. Planted(root', child', parent') /\ In(child') = S \ {n}
    BY <1>1 DEF Planted, In, ParOf, InTree
  <2>2. QED
    BY <1>1, <2>1, PlantedIsWalked
<1>4. Cuts(S, sentinel, r, ch, par, r2, ch2, par2, n, c, d)
  BY <1>1
<1>5. Removes(S, io[r], io2[r2], n)
  BY ONLY <1>2, <1>3, <1>4, CutLists
<1>6. PICK s, s2 : s = io[r] /\ s2 = io2[r2]
  OBVIOUS
<1>7. Removes(Node, s, s2, n)
  BY <1>2, <1>5, <1>6, RemovesWider
<1>8. s = List /\ s2 = List'
  BY <1>1, <1>6 DEF List, Walk
<1>9. QED
  BY <1>7, <1>8

LEMMA CutPlants ==
  ASSUME TreeInv, NEW n \in InTree, NEW c, NEW d,
         Cuts(InTree, sentinel, root, child, Par, root', child', Par', n, c, d),
         root' \in Cell, child' \in [Node -> [Side -> Cell] \cup {Cleared}],
         parent' \in [Cell -> Cell \cup {NULL}], In(child') = InTree \ {n}
  PROVE  Planted(root, child, parent)'
<1>1. PICK S, par, r2, ch2, par2 : S = InTree /\ par = Par /\ r2 = root' /\ ch2 = child' /\ par2 = Par'
  OBVIOUS
<1>2. Grown(S, sentinel, root, child, par) /\ Cuts(S, sentinel, root, child, par, r2, ch2, par2, n, c, d)
  BY <1>1, TreeNow
<1>3. Grown(S \ {n}, sentinel, r2, ch2, par2)
  BY ONLY <1>2, CutGrows
<1>4. QED
  BY <1>1, <1>3 DEF Planted, In, ParOf, Par

LEMMA DeleteRootKeeps ==
  ASSUME TreeInv, NEW n \in Node, DeleteRoot(n)
  PROVE  TreeInv' /\ n \in InTree /\ Removes(Node, List, List', n)
<1>1. PICK s, c : s = Substitute(n) /\ c = Moved(n)
  OBVIOUS
<1>2. /\ pc = "idle" /\ n \in InTree /\ s = root /\ root' = c
      /\ DebugStuff(n, child, parent, [color EXCEPT ![c] = "black"])
      /\ pc' = pc /\ node' = node /\ temp' = temp /\ insert' = insert
  BY <1>1 DEF DeleteRoot
<1>3. PICK d \in Side : child[s][Opposite(d)] = sentinel /\ c = child[s][d]
  <2>1. n \in InTree /\ s = Substitute(n) /\ c = Moved(n)
    BY <1>1, <1>2
  <2>2. QED
    BY ONLY TreeInv, <2>1, MovedHere
<1>4. /\ s = n /\ n = root
      /\ c \in (InTree \cup {sentinel}) \ {n}
  BY <1>1, <1>2, MovedHere
<1>5. /\ sentinel \notin InTree /\ InTree \subseteq Node
      /\ Hung(InTree, sentinel, root, child, Par)
      /\ \A m \in InTree : Par[m] = IF m = root THEN sentinel ELSE parent[m]
      /\ \A m \in InTree, e \in Side : child[m][e] # n
  BY <1>2, <1>4, TreeNow
<1>6. c \in Cell
  BY <1>4, <1>5 DEF Cell
<1>7. /\ child \in [Node -> [Side -> Cell] \cup {Cleared}] /\ parent \in [Cell -> Cell \cup {NULL}]
      /\ color \in [Cell -> Color]
  BY DEF TreeInv, TypeOK
<1>8. PICK col : col = [color EXCEPT ![c] = "black"]
  OBVIOUS
<1>9. /\ col \in [Cell -> Color]
      /\ \A m \in Cell : col[m] = IF m = c THEN "black" ELSE color[m]
  BY <1>6, <1>7, <1>8 DEF Color
<1>10. /\ n \in Node /\ n \in Cell
       /\ child' \in [Node -> [Side -> Cell] \cup {Cleared}]
       /\ parent' \in [Cell -> Cell \cup {NULL}]
       /\ color' \in [Cell -> Color]
       /\ key' \in [Node -> 0..(KeyRange - 1)]
       /\ InTree' = InTree \ {n} /\ In(child') = InTree \ {n}
       /\ \A m \in InTree \ {n} : child'[m] = child[m]
       /\ \A m \in Cell \ {n} : parent'[m] = parent[m] /\ color'[m] = col[m]
       /\ color'[n] = "black"
  <2>1. (\A m \in Node \ InTree : child[m] = Cleared) /\ \A m \in InTree \ {n} : child[m] # Cleared
    BY DEF InTree
  <2>2. DebugStuff(n, child, parent, col)
    BY <1>2, <1>8
  <2>3. QED
    BY <1>2, <1>7, <1>9, <2>1, <2>2, ClearedTypes
<1>11. \A m \in InTree : Par'[m] = IF m = c THEN sentinel ELSE parent'[m]
  BY <1>2, <1>5 DEF Par, ParOf
<1>12. Cuts(InTree, sentinel, root, child, Par, root', child', Par', n, c, d)
  <2>1. d \in TwoSides /\ child[n][Across(d)] = sentinel /\ c = child[n][d]
    BY <1>3, <1>4, SidesAgree
  <2>2. \A m \in InTree \ {n}, e \in TwoSides :
          child'[m][e] = IF child[m][e] = n THEN c ELSE child[m][e]
    BY <1>5, <1>10, SidesAgree
  <2>3. \A m \in InTree \ {n} : Par'[m] = IF m = c THEN Par[n] ELSE Par[m]
    <3>1. \A m \in InTree : m \in Cell
      BY <1>5 DEF Cell
    <3>2. QED
      BY <1>2, <1>4, <1>5, <1>10, <1>11, <3>1
  <2>4. QED
    BY <1>2, <1>4, <2>1, <2>2, <2>3 DEF Cuts
<1>13. Planted(root, child, parent)'
  BY <1>2, <1>6, <1>10, <1>12, CutPlants
<1>14. Removes(Node, List, List', n)
  BY <1>2, <1>10, <1>12, <1>13, CutRemoves
<1>15. TypeOK'
  BY <1>2, <1>10, <1>13, TypesTogether, TypesApart DEF OtherTypes
<1>16. black' = black \cup {c, n}
  BY <1>6, <1>9, <1>10 DEF black, ngx_rbt_is_black, ngx_rbt_is_red
<1>17. Blk = black /\ Upset = sentinel /\ SlotNode = sentinel /\ SlotSide = "left"
       /\ Blk' = black' /\ Upset' = sentinel /\ SlotNode' = sentinel /\ SlotSide' = "left"
  BY <1>2 DEF Blk, Upset, SlotNode, SlotSide, Slotted
<1>18. Colors'
  <2>1. PICK S, par, blk, r2, ch2, par2, blk2 :
          /\ S = InTree /\ par = Par /\ blk = black
          /\ r2 = root' /\ ch2 = child' /\ par2 = Par' /\ blk2 = black'
    OBVIOUS
  <2>2. Hung(S, sentinel, root, child, par)
        /\ Cuts(S, sentinel, root, child, par, r2, ch2, par2, n, c, d)
        /\ Colored(S, sentinel, child, par, blk, sentinel, sentinel, "left")
    BY <1>5, <1>12, <1>17, <2>1 DEF TreeInv, Colors
  <2>3. n \in blk
    BY <1>2, <1>4, <2>1, <2>2, ColoredRoot
  <2>4. \A m \in S \ {n} : m \in blk2 <=> m \in blk \/ (m = c /\ n \in blk)
    BY <1>16, <2>1, <2>3
  <2>5. PICK x, e1 : x = sentinel /\ e1 = "left"
    OBVIOUS
  <2>6. IF n \notin blk \/ (c \in S /\ c \notin blk) \/ n = root THEN x = sentinel /\ e1 = "left"
        ELSE x = par[n] /\ e1 \in TwoSides /\ child[x][e1] = n
    BY <1>4, <2>5
  <2>7. Colored(S \ {n}, sentinel, ch2, par2, blk2, sentinel, x, e1)
    BY ONLY <2>2, <2>4, <2>6, CutColors
  <2>8. QED
    BY <1>10, <1>17, <2>1, <2>5, <2>7 DEF Colors
<1>19. Locals' /\ sentinel \in black'
  BY <1>2, <1>16 DEF Locals, TreeInv
<1>20. QED
  BY <1>2, <1>13, <1>14, <1>15, <1>18, <1>19 DEF TreeInv

LEMMA DeleteOuterKeeps ==
  ASSUME TreeInv, NEW n \in Node, DeleteOuter(n)
  PROVE  TreeInv' /\ n \in InTree /\ Removes(Node, List, List', n)
<1>1. PICK c, x, e1 : c = Moved(n) /\ x = parent[n] /\ e1 = SideOf(n)
  OBVIOUS
<1>2. PICK ch, par : ch = [child EXCEPT ![x][e1] = c] /\ par = [parent EXCEPT ![c] = x]
  OBVIOUS
<1>3. /\ pc = "idle" /\ n \in InTree /\ Substitute(n) = n /\ n # root /\ root' = root
      /\ DebugStuff(n, ch, par, color) /\ Fixup(ngx_rbt_is_red(n), n)
      /\ insert' = insert
  BY <1>1, <1>2 DEF DeleteOuter, Fixup
<1>4. PICK d \in Side : child[n][Opposite(d)] = sentinel /\ c = child[n][d]
  BY <1>1, <1>3, MovedHere
<1>5. c \in (InTree \cup {sentinel}) \ {n} /\ (c # sentinel => c # root)
  BY <1>1, <1>3, MovedHere
<1>6. /\ sentinel \notin InTree /\ InTree \subseteq Node
      /\ Hung(InTree, sentinel, root, child, Par)
      /\ root \in InTree
      /\ \A m \in InTree : Par[m] = IF m = root THEN sentinel ELSE parent[m]
      /\ x \in InTree /\ child[x][e1] = n /\ e1 \in Side
  <2>1. e1 \in Side
    BY <1>1, SidesAgree DEF SideOf
  <2>2. root \in InTree
    BY <1>3, TreeNow, RootThere DEF TreeInv
  <2>3. QED
    BY <1>1, <1>3, <2>1, <2>2, TreeNow
<1>7. c \in Cell /\ x \in Cell /\ (\A m \in InTree : m \in Cell) /\ c # root
  BY <1>5, <1>6 DEF Cell
<1>8. x # n
  BY <1>6, SidesAgree DEF Hung
<1>9. \A m \in InTree, e \in Side : child[m][e] = n <=> m = x /\ e = e1
  <2>1. SUFFICES ASSUME NEW m \in InTree, NEW e \in Side, child[m][e] = n PROVE m = x /\ e = e1
    BY <1>6
  <2>2. m = x
    BY <1>1, <1>3, <1>6, <2>1, TreeNow
  <2>3. SideOf(child[m][e]) = e
    BY <1>3, <1>6, <2>1, SideOfChild
  <2>4. QED
    BY <1>1, <2>1, <2>2, <2>3
<1>10. /\ child \in [Node -> [Side -> Cell] \cup {Cleared}] /\ parent \in [Cell -> Cell \cup {NULL}]
       /\ color \in [Cell -> Color]
  BY DEF TreeInv, TypeOK
<1>11. /\ ch \in [Node -> [Side -> Cell] \cup {Cleared}]
       /\ \A m \in Node \ {x} : ch[m] = child[m]
       /\ ch[x] \in [Side -> Cell]
       /\ \A e \in Side : ch[x][e] = IF e = e1 THEN c ELSE child[x][e]
  <2>1. child[x] \in [Side -> Cell] /\ x \in Node
    BY <1>6, TreeNow
  <2>2. ch = [child EXCEPT ![x] = [child[x] EXCEPT ![e1] = c]]
    BY <1>2
  <2>3. PICK k : k = [child[x] EXCEPT ![e1] = c]
    OBVIOUS
  <2>4. k \in [Side -> Cell] /\ \A e \in Side : k[e] = IF e = e1 THEN c ELSE child[x][e]
    BY <1>7, <2>1, <2>3
  <2>5. ch = [child EXCEPT ![x] = k]
    BY <2>2, <2>3
  <2>6. QED
    BY <1>10, <2>1, <2>4, <2>5
<1>12. par \in [Cell -> Cell \cup {NULL}] /\ \A m \in Cell : par[m] = IF m = c THEN x ELSE parent[m]
  BY <1>2, <1>7, <1>10
<1>13. /\ n \in Node /\ n \in Cell
       /\ child' \in [Node -> [Side -> Cell] \cup {Cleared}]
       /\ parent' \in [Cell -> Cell \cup {NULL}]
       /\ color' \in [Cell -> Color]
       /\ key' \in [Node -> 0..(KeyRange - 1)]
       /\ InTree' = InTree \ {n} /\ In(child') = InTree \ {n}
       /\ \A m \in InTree \ {n} : child'[m] = ch[m]
       /\ \A m \in Cell \ {n} : parent'[m] = par[m] /\ color'[m] = color[m]
       /\ color'[n] = "black"
  <2>1. (\A m \in Node \ InTree : ch[m] = Cleared) /\ \A m \in InTree \ {n} : ch[m] # Cleared
    <3>1. (\A m \in Node \ InTree : child[m] = Cleared) /\ \A m \in InTree \ {n} : child[m] # Cleared
      BY DEF InTree
    <3>2. ch[x] # Cleared
      BY <1>11, NotCleared
    <3>3. QED
      BY <1>6, <1>11, <3>1, <3>2
  <2>2. QED
    BY <1>3, <1>10, <1>11, <1>12, <2>1, ClearedTypes
<1>14. \A m \in InTree : Par'[m] = IF m = root THEN sentinel ELSE parent'[m]
  BY <1>3, <1>6 DEF Par, ParOf
<1>15. Cuts(InTree, sentinel, root, child, Par, root', child', Par', n, c, d)
  <2>1. d \in TwoSides /\ child[n][Across(d)] = sentinel /\ c = child[n][d]
    BY <1>4, SidesAgree
  <2>2. \A m \in InTree \ {n}, e \in TwoSides :
          child'[m][e] = IF child[m][e] = n THEN c ELSE child[m][e]
    BY <1>6, <1>9, <1>11, <1>13, SidesAgree
  <2>3. \A m \in InTree \ {n} : Par'[m] = IF m = c THEN Par[n] ELSE Par[m]
    BY <1>1, <1>3, <1>6, <1>7, <1>12, <1>13, <1>14
  <2>4. QED
    BY <1>3, <2>1, <2>2, <2>3 DEF Cuts
<1>16. Planted(root, child, parent)'
  <2>1. root' \in Cell
    BY <1>3, <1>6, <1>7
  <2>2. QED
    BY <1>3, <1>13, <1>15, <2>1, CutPlants
<1>17. Removes(Node, List, List', n)
  BY <1>3, <1>13, <1>15, <1>16, CutRemoves
<1>18. OtherTypes'
  <2>1. pc' \in {"idle", "delete"} /\ temp' \in Cell /\ node' = node
    BY <1>1, <1>3, <1>7 DEF Fixup, Cell
  <2>2. QED
    BY <1>3, <1>13, <2>1, TypesApart DEF OtherTypes
<1>19. PICK red : red = ngx_rbt_is_red(n)
  OBVIOUS
<1>20. red <=> n \notin black
  BY <1>13, <1>19, BlackOrRed DEF ngx_rbt_is_red
<1>21. black' = black \cup {n}
  BY <1>13 DEF black, ngx_rbt_is_black, ngx_rbt_is_red
<1>22. PICK S, p, blk, ch2, par2, blk2, x1, e2 :
         /\ S = InTree /\ p = Par /\ blk = black /\ ch2 = child' /\ par2 = Par'
         /\ blk2 = black' \cup (IF red THEN {} ELSE {c})
         /\ x1 = (IF red \/ c \notin black' THEN sentinel ELSE x)
         /\ e2 = (IF red \/ c \notin black' THEN "left" ELSE e1)
  OBVIOUS
<1>23. Colored(S \ {n}, sentinel, ch2, par2, blk2, sentinel, x1, e2)
  <2>1. PICK r2 : r2 = root'
    OBVIOUS
  <2>2. /\ Hung(S, sentinel, root, child, p)
        /\ Cuts(S, sentinel, root, child, p, r2, ch2, par2, n, c, d)
        /\ Colored(S, sentinel, child, p, blk, sentinel, sentinel, "left")
    <3>1. Blk = black /\ Upset = sentinel /\ SlotNode = sentinel /\ SlotSide = "left"
      BY <1>3 DEF Blk, Upset, SlotNode, SlotSide, Slotted
    <3>2. QED
      BY <1>6, <1>15, <1>22, <2>1, <3>1 DEF TreeInv, Colors
  <2>3. \A m \in S \ {n} : m \in blk2 <=> m \in blk \/ (m = c /\ n \in blk)
    BY <1>20, <1>21, <1>22
  <2>4. sentinel \in blk
    BY <1>22 DEF TreeInv
  <2>5. IF n \notin blk \/ (c \in S /\ c \notin blk) \/ n = root THEN x1 = sentinel /\ e2 = "left"
        ELSE x1 = p[n] /\ e2 \in TwoSides /\ child[x1][e2] = n
    <3>1. n \notin blk \/ (c \in S /\ c \notin blk) \/ n = root <=> red \/ c \notin black'
      BY <1>3, <1>5, <1>20, <1>21, <1>22, <2>4
    <3>2. p[n] = x
      BY <1>1, <1>3, <1>6, <1>22
    <3>3. QED
      BY <1>6, <1>22, <3>1, <3>2, SidesAgree
  <2>6. QED
    BY ONLY <2>2, <2>3, <2>5, CutColors
<1>24. TreeInv'
  <2>1. PICK T : T = S \ {n}
    OBVIOUS
  <2>2. /\ InTree' = T /\ sentinel \in black' /\ c \in T \cup {sentinel} /\ c # root'
        /\ x \in T /\ child'[x][e1] = c /\ parent'[c] = x /\ e1 \in Side
    BY <1>3, <1>5, <1>6, <1>7, <1>8, <1>11, <1>12, <1>13, <1>21, <1>22, <2>1 DEF TreeInv
  <2>3. Colored(T, sentinel, child', Par', blk2, sentinel, x1, e2)
    BY <1>22, <1>23, <2>1
  <2>4. Fixup(red, n)
    BY <1>3, <1>19
  <2>5. QED
    BY <1>1, <1>3, <1>16, <1>18, <1>22, <2>2, <2>3, <2>4, FixupKeeps
<1>25. QED
  BY <1>3, <1>17, <1>24

\* A deletion by a successor, step by step: s is cut out, and takes the place of n.
InnerSteps(n, s, c, ch1, par1) ==
  /\ n \in InTree /\ s \in InTree /\ s # n /\ s # root /\ parent[s] \in InTree /\ Par[n] # s
  /\ c = Moved(n) /\ c \in (InTree \cup {sentinel}) \ {s, n, root}
  /\ child[s]["left"] = sentinel /\ c = child[s]["right"]
  /\ child[parent[s]][SideOf(s)] = s
  /\ ch1 = [child EXCEPT ![parent[s]][SideOf(s)] = c]
  /\ par1 = [m \in Cell |-> IF m = c THEN parent[s] ELSE Par[m]]

LEMMA InnerCuts ==
  ASSUME TreeInv, NEW n, NEW s, NEW c, NEW ch1, NEW par1, InnerSteps(n, s, c, ch1, par1)
  PROVE  /\ Cuts(InTree, sentinel, root, child, Par, root, ch1, par1, s, c, "right")
         /\ ch1 \in [Node -> [Side -> Cell] \cup {Cleared}]
         /\ \A m \in Node : ch1[m] = Cleared <=> child[m] = Cleared
         /\ ch1[n] \in [Side -> Cell]
<1>1. /\ n \in InTree /\ s \in InTree /\ s # n /\ s # root /\ parent[s] \in InTree
      /\ c \in (InTree \cup {sentinel}) \ {s, n, root}
      /\ child[s]["left"] = sentinel /\ c = child[s]["right"]
      /\ child[parent[s]][SideOf(s)] = s
      /\ ch1 = [child EXCEPT ![parent[s]][SideOf(s)] = c]
      /\ par1 = [m \in Cell |-> IF m = c THEN parent[s] ELSE Par[m]]
  BY DEF InnerSteps
<1>2. PICK x, e1 : x = parent[s] /\ e1 = SideOf(s)
  OBVIOUS
<1>3. /\ sentinel \notin InTree /\ InTree \subseteq Node
      /\ Hung(InTree, sentinel, root, child, Par)
      /\ \A m \in InTree : Par[m] = IF m = root THEN sentinel ELSE parent[m]
      /\ x \in InTree /\ child[x][e1] = s /\ e1 \in Side
      /\ child[x] \in [Side -> Cell] /\ child[n] \in [Side -> Cell]
  <2>1. e1 \in Side
    BY <1>2, SidesAgree DEF SideOf
  <2>2. QED
    BY <1>1, <1>2, <2>1, TreeNow
<1>4. \A m \in InTree, e \in Side : child[m][e] = s <=> m = x /\ e = e1
  <2>1. SUFFICES ASSUME NEW m \in InTree, NEW e \in Side, child[m][e] = s PROVE m = x /\ e = e1
    BY <1>3
  <2>2. m = x
    BY <1>1, <1>2, <1>3, <2>1, TreeNow
  <2>3. SideOf(child[m][e]) = e
    BY <1>1, <1>3, <2>1, SideOfChild
  <2>4. QED
    BY <1>2, <2>1, <2>2, <2>3
<1>5. child \in [Node -> [Side -> Cell] \cup {Cleared}]
  BY DEF TreeInv, TypeOK
<1>6. c \in Cell /\ x \in Node
  BY <1>1, <1>3 DEF Cell
<1>7. /\ ch1 \in [Node -> [Side -> Cell] \cup {Cleared}]
      /\ \A m \in Node \ {x} : ch1[m] = child[m]
      /\ ch1[x] \in [Side -> Cell]
      /\ \A e \in Side : ch1[x][e] = IF e = e1 THEN c ELSE child[x][e]
  <2>1. ch1 = [child EXCEPT ![x] = [child[x] EXCEPT ![e1] = c]]
    BY <1>1, <1>2
  <2>2. PICK k : k = [child[x] EXCEPT ![e1] = c]
    OBVIOUS
  <2>3. k \in [Side -> Cell] /\ \A e \in Side : k[e] = IF e = e1 THEN c ELSE child[x][e]
    BY <1>3, <1>6, <2>2
  <2>4. ch1 = [child EXCEPT ![x] = k]
    BY <2>1, <2>2
  <2>5. QED
    BY <1>5, <1>6, <2>3, <2>4
<1>8. \A m \in InTree \ {s}, e \in TwoSides : ch1[m][e] = IF child[m][e] = s THEN c ELSE child[m][e]
  <2>1. SUFFICES ASSUME NEW m \in InTree \ {s}, NEW e \in Side
                 PROVE  ch1[m][e] = IF child[m][e] = s THEN c ELSE child[m][e]
    BY SidesAgree
  <2>2. CASE m = x
    BY <1>3, <1>4, <1>7, <2>2
  <2>3. CASE m # x
    BY <1>3, <1>4, <1>7, <2>3
  <2>4. QED
    BY <2>2, <2>3
<1>9. \A m \in InTree \ {s} : par1[m] = IF m = c THEN Par[s] ELSE Par[m]
  <2>1. \A m \in InTree : m \in Cell
    BY <1>3 DEF Cell
  <2>2. QED
    BY <1>1, <1>3, <2>1
<1>10. "right" \in TwoSides /\ Across("right") = "left"
  BY BothSides
<1>11. Cuts(InTree, sentinel, root, child, Par, root, ch1, par1, s, c, "right")
  BY <1>1, <1>8, <1>9, <1>10 DEF Cuts
<1>12. \A m \in Node : ch1[m] = Cleared <=> child[m] = Cleared
  BY <1>3, <1>7, NotCleared
<1>13. ch1[n] \in [Side -> Cell]
  BY <1>1, <1>3, <1>7
<1>14. QED
  BY <1>7, <1>11, <1>12, <1>13

\* What is in the memory in between.
LEMMA InnerBetween ==
  ASSUME TreeInv, NEW n, NEW s, NEW c, NEW ch1, NEW par1, InnerSteps(n, s, c, ch1, par1)
  PROVE  /\ Grown(InTree \ {s}, sentinel, root, ch1, par1)
         /\ Hung(InTree \ {s}, sentinel, root, ch1, par1)
         /\ Removes(Node, List, Walk(ch1)[root], s)
<1>1. Cuts(InTree, sentinel, root, child, Par, root, ch1, par1, s, c, "right")
  BY InnerCuts
<1>2. PICK S, par, r : S = InTree /\ par = Par /\ r = root
  OBVIOUS
<1>3. /\ S \subseteq Node /\ Grown(S, sentinel, r, child, par)
      /\ Cuts(S, sentinel, r, child, par, r, ch1, par1, s, c, "right")
  BY <1>1, <1>2, TreeNow
<1>4. Grown(S \ {s}, sentinel, r, ch1, par1)
  BY ONLY <1>3, CutGrows
<1>5. Hung(S \ {s}, sentinel, r, ch1, par1)
  BY ONLY <1>4, GrownIsHung
<1>6. PICK io, io1 : io = Walk(child) /\ io1 = Walk(ch1)
  OBVIOUS
<1>7. IsInOrder(io, child, S, sentinel) /\ IsInOrder(io1, ch1, S \ {s}, sentinel)
  BY <1>3, <1>4, <1>6, GrownIsWalked
<1>8. Removes(S, io[r], io1[r], s)
  BY ONLY <1>3, <1>7, CutLists
<1>9. PICK t, t1 : t = io[r] /\ t1 = io1[r]
  OBVIOUS
<1>10. Removes(Node, t, t1, s)
  BY <1>3, <1>8, <1>9, RemovesWider
<1>11. QED
  BY <1>2, <1>4, <1>5, <1>6, <1>9, <1>10 DEF List

\* The memory after it.
InnerMemory(n, s, c, ch1) ==
  /\ root' = IF n = root THEN s ELSE root
  /\ child' \in [Node -> [Side -> Cell] \cup {Cleared}]
  /\ In(child') = InTree \ {n}
  /\ \A e \in Side : child'[s][e] = ch1[n][e]
  /\ \A m \in InTree \ {n, s}, e \in Side :
       child'[m][e] = IF n # root /\ m = parent[n] /\ e = SideOf(n) THEN s ELSE ch1[m][e]
  /\ parent' \in [Cell -> Cell \cup {NULL}]
  /\ \A m \in Cell \ {n} :
       parent'[m] = IF m # sentinel /\ (\E e \in Side : ch1[n][e] = m) THEN s
                    ELSE IF m = s THEN parent[n]
                    ELSE IF m = c THEN IF parent[s] = n THEN s ELSE parent[s]
                    ELSE parent[m]

LEMMA InnerTakes ==
  ASSUME TreeInv, NEW n, NEW s, NEW c, NEW ch1, NEW par1, InnerSteps(n, s, c, ch1, par1),
         InnerMemory(n, s, c, ch1)
  PROVE  Takes(InTree \ {s}, sentinel, root, ch1, par1, root', child', Par', n, s)
<1>1. /\ n \in InTree /\ s \in InTree /\ s # n /\ s # root /\ parent[s] \in InTree /\ Par[n] # s
      /\ c \in (InTree \cup {sentinel}) \ {s, n, root}
      /\ child[s]["left"] = sentinel /\ c = child[s]["right"]
      /\ par1 = [m \in Cell |-> IF m = c THEN parent[s] ELSE Par[m]]
  BY DEF InnerSteps
<1>2. /\ Cuts(InTree, sentinel, root, child, Par, root, ch1, par1, s, c, "right")
      /\ Hung(InTree \ {s}, sentinel, root, ch1, par1)
  BY InnerCuts, InnerBetween
<1>3. /\ sentinel \notin InTree /\ InTree \subseteq Node
      /\ (\A m \in InTree : m \in Cell)
      /\ \A m \in InTree : Par[m] = IF m = root THEN sentinel ELSE parent[m]
      /\ n # root => parent[n] \in InTree
  BY <1>1, TreeNow
<1>4. \A m \in InTree \ {s}, e \in Side : child[m][e] = n <=> n # root /\ m = parent[n] /\ e = SideOf(n)
  <2>1. SUFFICES ASSUME NEW m \in InTree \ {s}, NEW e \in Side
                 PROVE  child[m][e] = n <=> n # root /\ m = parent[n] /\ e = SideOf(n)
    OBVIOUS
  <2>2. n # root => child[parent[n]][SideOf(n)] = n
    BY <1>1, TreeNow
  <2>3. ASSUME child[m][e] = n PROVE n # root /\ m = parent[n] /\ e = SideOf(n)
    <3>1. n # root /\ m = parent[n]
      BY <1>1, <1>3, <2>3, TreeNow
    <3>2. SideOf(child[m][e]) = e
      BY <1>1, <1>3, <2>3, SideOfChild
    <3>3. QED
      BY <2>3, <3>1, <3>2
  <2>4. QED
    BY <2>2, <2>3
<1>5. \A m \in InTree \ {s}, e \in Side : ch1[m][e] = n <=> child[m][e] = n
  BY <1>1, <1>2, SidesAgree DEF Cuts
<1>6. \A m \in (InTree \ {s}) \ {n}, e \in TwoSides : child'[m][e] = IF ch1[m][e] = n THEN s ELSE ch1[m][e]
  BY <1>4, <1>5, SidesAgree DEF InnerMemory
<1>7. \A e \in TwoSides : child'[s][e] = ch1[n][e]
  BY SidesAgree DEF InnerMemory
<1>8. root' = IF root = n THEN s ELSE root
  BY DEF InnerMemory
<1>9. \A m \in InTree : Par'[m] = IF m = root' THEN sentinel ELSE parent'[m]
  BY <1>3 DEF Par, ParOf
<1>10. \A m \in Cell \ {n} :
         parent'[m] = IF m # sentinel /\ (\E e \in Side : ch1[n][e] = m) THEN s
                      ELSE IF m = s THEN parent[n]
                      ELSE IF m = c THEN IF parent[s] = n THEN s ELSE parent[s]
                      ELSE parent[m]
  BY DEF InnerMemory
<1>11. \A m \in InTree : par1[m] = IF m = c THEN parent[s] ELSE IF m = root THEN sentinel ELSE parent[m]
  BY <1>1, <1>3
<1>12. Par'[s] = par1[n]
  <2>1. \A e \in Side : ch1[n][e] # s
    <3>1. \A e \in TwoSides : ch1[n][e] \in (InTree \ {s}) \cup {sentinel}
      BY <1>1, <1>2 DEF Hung
    <3>2. QED
      BY <1>1, <1>3, <3>1, SidesAgree
  <2>2. parent'[s] = parent[n]
    BY <1>1, <1>3, <1>10, <2>1
  <2>3. QED
    BY <1>1, <1>8, <1>9, <1>11, <2>2
<1>13. \A m \in (InTree \ {s}) \ {n} : Par'[m] = IF par1[m] = n THEN s ELSE par1[m]
  <2>1. SUFFICES ASSUME NEW m \in InTree, m # s, m # n
                 PROVE  Par'[m] = IF par1[m] = n THEN s ELSE par1[m]
    OBVIOUS
  <2>2. CASE m = root
    <3>1. m # c /\ root' = root
      BY <1>1, <1>8, <2>1, <2>2
    <3>2. Par'[m] = sentinel /\ par1[m] = sentinel
      BY <1>9, <1>11, <2>1, <2>2, <3>1
    <3>3. QED
      BY <1>1, <1>3, <3>2
  <2>3. CASE m # root
    <3>1. m # root' /\ Par'[m] = parent'[m] /\ m \in Cell /\ m # sentinel
      BY <1>3, <1>8, <1>9, <2>1, <2>3
    <3>2. par1[m] = IF m = c THEN parent[s] ELSE parent[m]
      BY <1>11, <2>3
    <3>3. (\E e \in Side : ch1[n][e] = m) <=> par1[m] = n
      <4>1. \A e \in TwoSides : ch1[n][e] # sentinel => par1[ch1[n][e]] = n
        BY <1>1, <1>2 DEF Hung
      <4>2. par1[m] = n => \E e \in TwoSides : ch1[n][e] = m
        BY <1>1, <1>2, <1>3, <2>1 DEF Hung
      <4>3. QED
        BY <3>1, <4>1, <4>2, SidesAgree
    <3>4. QED
      BY <1>10, <2>1, <3>1, <3>2, <3>3
  <2>4. QED
    BY <2>2, <2>3
<1>14. QED
  BY <1>1, <1>3, <1>6, <1>7, <1>8, <1>12, <1>13 DEF Takes

\* The tree and its list after it.
LEMMA InnerPlants ==
  ASSUME TreeInv, NEW n, NEW s, NEW c, NEW ch1, NEW par1, InnerSteps(n, s, c, ch1, par1),
         InnerMemory(n, s, c, ch1), NextTo(Node, List, n, s)
  PROVE  Planted(root, child, parent)' /\ Removes(Node, List, List', n)
<1>1. /\ n \in InTree /\ s \in InTree /\ s # n
      /\ sentinel \notin InTree /\ InTree \subseteq Node
  BY TreeNow DEF InnerSteps
<1>2. PICK S, r, S1, r2, ch2, par2 :
        /\ S = InTree /\ r = root /\ S1 = InTree \ {s} /\ r2 = root' /\ ch2 = child' /\ par2 = Par'
  OBVIOUS
<1>3. Grown(S1, sentinel, r, ch1, par1) /\ Takes(S1, sentinel, r, ch1, par1, r2, ch2, par2, n, s)
  BY <1>2, InnerBetween, InnerTakes
<1>4. Grown((S1 \ {n}) \cup {s}, sentinel, r2, ch2, par2)
  BY ONLY <1>3, TakeGrows
<1>5. (S1 \ {n}) \cup {s} = S \ {n} /\ S1 \cup {s} = S /\ S1 \subseteq Node
  BY <1>1, <1>2
<1>6. /\ child' \in [Node -> [Side -> Cell] \cup {Cleared}]
      /\ parent' \in [Cell -> Cell \cup {NULL}]
      /\ In(child') = S \ {n}
      /\ r2 \in Cell
  <2>1. root' = IF n = root THEN s ELSE root
    BY DEF InnerMemory
  <2>2. QED
    BY <1>1, <1>2, <2>1 DEF InnerMemory, Cell, TreeInv, TypeOK
<1>7. Planted(root, child, parent)'
  BY <1>2, <1>4, <1>5, <1>6 DEF Planted, In, ParOf, Par
<1>8. PICK io, io1, io2 : io = Walk(child) /\ io1 = Walk(ch1) /\ io2 = Walk(ch2)
  OBVIOUS
<1>9. S \ {n} \subseteq Node
  BY <1>1, <1>2
<1>10. IsInOrder(io1, ch1, S1, sentinel) /\ IsInOrder(io2, ch2, (S1 \ {n}) \cup {s}, sentinel)
  <2>1. IsInOrder(io1, ch1, S1, sentinel)
    BY <1>3, <1>5, <1>8, GrownIsWalked
  <2>2. IsInOrder(io2, ch2, S \ {n}, sentinel)
    BY <1>4, <1>5, <1>8, <1>9, GrownIsWalked
  <2>3. QED
    BY <1>5, <2>1, <2>2
<1>11. Trades(S1 \cup {s}, io1[r], io2[r2], n, s)
  BY ONLY <1>3, <1>10, TakeLists
<1>12. PICK t, t1, t2 : t = io[r] /\ t1 = io1[r] /\ t2 = io2[r2]
  OBVIOUS
<1>13. Trades(Node, t1, t2, n, s)
  <2>1. Trades(S, t1, t2, n, s) /\ S \subseteq Node
    BY <1>1, <1>2, <1>5, <1>11, <1>12
  <2>2. QED
    BY ONLY <2>1, TradesWider
<1>14. t = List /\ t2 = List' /\ t1 = Walk(ch1)[root]
  BY <1>2, <1>8, <1>12 DEF List, Walk
<1>15. NextTo(Node, t, n, s) /\ Removes(Node, t, t1, s) /\ Distinct(t)
  <2>1. Distinct(List)
    <3>1. Listed(InTree, sentinel, root, child, Par, Walk(child)) /\ root \in InTree
      BY <1>1, TreeNow, PlantedIsWalked, RootThere DEF TreeInv, Par
    <3>2. QED
      BY <3>1 DEF Listed, List
  <2>2. QED
    BY <1>14, <2>1, InnerBetween
<1>16. Removes(Node, t, t2, n)
  BY <1>1, <1>13, <1>15, NextTakesPlace
<1>17. QED
  BY <1>7, <1>14, <1>16

\* Where c hangs then.
LEMMA InnerHangs ==
  ASSUME TreeInv, NEW n, NEW s, NEW c, NEW ch1, NEW par1, InnerSteps(n, s, c, ch1, par1),
         InnerMemory(n, s, c, ch1), NEW x, x = (IF parent[s] = n THEN s ELSE parent[s]),
         NEW e1, e1 = SideOf(s)
  PROVE  /\ x \in InTree \ {n} /\ e1 \in Side
         /\ child'[x][e1] = c /\ parent'[c] = x /\ c # root'
         /\ c \in (InTree \ {n}) \cup {sentinel}
<1>1. /\ n \in InTree /\ s \in InTree /\ s # n /\ s # root /\ parent[s] \in InTree
      /\ c \in (InTree \cup {sentinel}) \ {s, n, root}
      /\ child[parent[s]][SideOf(s)] = s
      /\ par1 = [m \in Cell |-> IF m = c THEN parent[s] ELSE Par[m]]
  BY DEF InnerSteps
<1>2. /\ Cuts(InTree, sentinel, root, child, Par, root, ch1, par1, s, c, "right")
      /\ Hung(InTree \ {s}, sentinel, root, ch1, par1)
      /\ Takes(InTree \ {s}, sentinel, root, ch1, par1, root', child', Par', n, s)
  BY InnerCuts, InnerBetween, InnerTakes
<1>3. /\ sentinel \notin InTree /\ InTree \subseteq Node
      /\ Hung(InTree, sentinel, root, child, Par)
      /\ Par[s] = parent[s]
  BY <1>1, TreeNow
<1>4. e1 \in Side /\ e1 \in TwoSides
  BY SidesAgree DEF SideOf
<1>5. parent[s] # s
  BY <1>1, <1>3 DEF Hung
<1>6. x \in InTree \ {n}
  BY <1>1, <1>5
<1>7. ch1[parent[s]][e1] = c
  BY <1>1, <1>2, <1>4, <1>5 DEF Cuts
<1>8. child'[x][e1] = c
  <2>1. CASE parent[s] = n
    BY <1>2, <1>4, <1>7, <2>1 DEF Takes
  <2>2. CASE parent[s] # n
    <3>1. child'[parent[s]][e1] = IF ch1[parent[s]][e1] = n THEN s ELSE ch1[parent[s]][e1]
      BY <1>1, <1>2, <1>4, <1>5, <2>2 DEF Takes
    <3>2. QED
      BY <1>1, <1>7, <2>2, <3>1
  <2>3. QED
    BY <2>1, <2>2
<1>9. c \in Cell \ {n} /\ c # s /\ c # root /\ c # n
  BY <1>1, <1>3 DEF Cell
<1>10. parent'[c] = x
  <2>1. parent'[c] = IF c # sentinel /\ (\E e \in Side : ch1[n][e] = c) THEN s ELSE x
    BY <1>9 DEF InnerMemory
  <2>2. ASSUME c # sentinel, \E e \in Side : ch1[n][e] = c PROVE parent[s] = n
    <3>1. \A e \in TwoSides : ch1[n][e] # sentinel => par1[ch1[n][e]] = n
      BY <1>1, <1>2 DEF Hung
    <3>2. par1[c] = n
      BY <2>2, <3>1, SidesAgree
    <3>3. QED
      BY <1>1, <1>9, <3>2
  <2>3. QED
    BY <2>1, <2>2
<1>11. c # root'
  BY <1>9 DEF InnerMemory
<1>12. QED
  BY <1>1, <1>4, <1>6, <1>8, <1>10, <1>11

\* The colors: that of s goes with its place, and s takes that of n.
LEMMA SuccessorColors ==
  ASSUME TreeInv, pc = "idle", NEW n, NEW s, NEW c, NEW ch1, NEW par1, InnerSteps(n, s, c, ch1, par1),
         InnerMemory(n, s, c, ch1), NEW x, x = (IF parent[s] = n THEN s ELSE parent[s]),
         NEW e1, e1 = SideOf(s), NEW red, red <=> s \notin black,
         \A m \in InTree \ {n, s} : m \in black' <=> m \in black,
         s \in black' <=> n \in black, sentinel \in black',
         NEW blk2, blk2 = black' \cup (IF red THEN {} ELSE {c}),
         NEW x1, x1 = (IF red \/ c \notin black' THEN sentinel ELSE x),
         NEW e2, e2 = (IF red \/ c \notin black' THEN "left" ELSE e1)
  PROVE  Colored(InTree \ {n}, sentinel, child', Par', blk2, sentinel, x1, e2)
<1>1. /\ n \in InTree /\ s \in InTree /\ s # n /\ s # root /\ parent[s] \in InTree
      /\ c \in (InTree \cup {sentinel}) \ {s, n, root}
      /\ child[parent[s]][SideOf(s)] = s
  BY DEF InnerSteps
<1>2. /\ Cuts(InTree, sentinel, root, child, Par, root, ch1, par1, s, c, "right")
      /\ Hung(InTree \ {s}, sentinel, root, ch1, par1)
      /\ Takes(InTree \ {s}, sentinel, root, ch1, par1, root', child', Par', n, s)
  BY InnerCuts, InnerBetween, InnerTakes
<1>3. /\ sentinel \notin InTree /\ sentinel \in black
      /\ Hung(InTree, sentinel, root, child, Par)
      /\ Par[s] = parent[s]
  BY <1>1, TreeNow DEF TreeInv
<1>4. PICK S, r, par, blk, blkm, r2, ch2, par2, x0 :
        /\ S = InTree /\ r = root /\ par = Par /\ blk = black
        /\ blkm = (IF s \in black THEN black \cup {c} ELSE black)
        /\ r2 = root' /\ ch2 = child' /\ par2 = Par'
        /\ x0 = (IF s \notin black \/ (c \in S /\ c \notin black) THEN sentinel ELSE parent[s])
  OBVIOUS
<1>5. c \notin black' <=> c \in S /\ c \notin black
  BY <1>1, <1>3, <1>4
<1>6. Colored(S \ {s}, sentinel, ch1, par1, blkm, sentinel, x0, e2)
  <2>1. /\ Hung(S, sentinel, r, child, par)
        /\ Cuts(S, sentinel, r, child, par, r, ch1, par1, s, c, "right")
        /\ Colored(S, sentinel, child, par, blk, sentinel, sentinel, "left")
    <3>1. Blk = black /\ Upset = sentinel /\ SlotNode = sentinel /\ SlotSide = "left"
      BY DEF Blk, Upset, SlotNode, SlotSide, Slotted
    <3>2. QED
      BY <1>2, <1>3, <1>4, <3>1 DEF TreeInv, Colors
  <2>2. \A m \in S \ {s} : m \in blkm <=> m \in blk \/ (m = c /\ s \in blk)
    BY <1>4
  <2>3. IF s \notin blk \/ (c \in S /\ c \notin blk) \/ s = r THEN x0 = sentinel /\ e2 = "left"
        ELSE x0 = par[s] /\ e2 \in TwoSides /\ child[x0][e2] = s
    <3>1. e1 \in TwoSides
      BY SidesAgree DEF SideOf
    <3>2. s \notin blk \/ (c \in S /\ c \notin blk) \/ s = r <=> red \/ c \notin black'
      BY <1>1, <1>4, <1>5
    <3>3. QED
      BY <1>1, <1>3, <1>4, <3>1, <3>2
  <2>4. QED
    BY ONLY <2>1, <2>2, <2>3, CutColors
<1>7. PICK S1 : S1 = S \ {s}
  OBVIOUS
<1>8. /\ Hung(S1, sentinel, r, ch1, par1)
      /\ Takes(S1, sentinel, r, ch1, par1, r2, ch2, par2, n, s)
      /\ Colored(S1, sentinel, ch1, par1, blkm, sentinel, x0, e2)
  BY <1>2, <1>4, <1>6, <1>7
<1>9. x0 \in S1 \cup {sentinel} /\ x1 = (IF x0 = n THEN s ELSE x0)
  <2>1. parent[s] # s
    BY <1>1, <1>3 DEF Hung
  <2>2. QED
    BY <1>1, <1>3, <1>4, <1>5, <1>7, <2>1
<1>10. s \in blk2 <=> n \in blkm
  BY <1>1, <1>4
<1>11. \A m \in S1 \ {n} : m \in blk2 <=> m \in blkm
  BY <1>4, <1>7
<1>12. Colored((S1 \ {n}) \cup {s}, sentinel, ch2, par2, blk2, sentinel, x1, e2)
  BY ONLY <1>8, <1>9, <1>10, <1>11, TakeColors
<1>13. (S1 \ {n}) \cup {s} = InTree \ {n}
  BY <1>1, <1>4, <1>7
<1>14. QED
  BY <1>4, <1>12, <1>13

LEMMA DeleteInnerKeeps ==
  ASSUME TreeInv, NEW n \in Node, DeleteInner(n)
  PROVE  TreeInv' /\ n \in InTree /\ Removes(Node, List, List', n)
<1>1. PICK s, c, ch1, par1 :
        /\ s = Substitute(n) /\ c = Moved(n)
        /\ ch1 = [child EXCEPT ![parent[s]][SideOf(s)] = c]
        /\ par1 = [m \in Cell |-> IF m = c THEN parent[s] ELSE Par[m]]
  OBVIOUS
<1>2. PICK ch, chn, par, parn, col :
        /\ ch = [ch1 EXCEPT ![s] = ch1[n]]
        /\ chn = (IF n = root THEN ch ELSE [ch EXCEPT ![parent[n]][SideOf(n)] = s])
        /\ par = [parent EXCEPT ![c] = MovedParent(n), ![s] = parent[n]]
        /\ parn = [m \in Cell |-> IF m \in {ch[s][d] : d \in Side} \ {sentinel} THEN s ELSE par[m]]
        /\ col = [color EXCEPT ![s] = color[n]]
  OBVIOUS
<1>3. /\ pc = "idle" /\ n \in InTree /\ s # n
      /\ root' = (IF n = root THEN s ELSE root)
      /\ DebugStuff(n, chn, parn, col) /\ Fixup(ngx_rbt_is_red(s), n)
      /\ insert' = insert /\ node' = node
  BY <1>1, <1>2 DEF DeleteInner, Fixup
<1>4. /\ s \in InTree /\ s # root /\ Par[n] # s /\ NextTo(Node, List, n, s)
      /\ c \in (InTree \cup {sentinel}) \ {s, n}
      /\ c # sentinel => c # root
  BY <1>1, <1>3, MovedHere
<1>5. /\ sentinel \notin InTree /\ InTree \subseteq Node
      /\ root \in InTree
      /\ Hung(InTree, sentinel, root, child, Par)
      /\ \A m \in InTree : m \in Cell
      /\ parent[s] \in InTree /\ child[parent[s]][SideOf(s)] = s
      /\ n # root => parent[n] \in InTree /\ Par[n] = parent[n]
  <2>1. root \in InTree
    BY <1>3, TreeNow, RootThere DEF TreeInv
  <2>2. QED
    BY <1>3, <1>4, <2>1, TreeNow
<1>6. child[s]["left"] = sentinel /\ c = child[s]["right"]
  <2>1. s = ngx_rbtree_min(child[n]["right"]) /\ child[n]["right"] # sentinel
    BY <1>1, <1>3, SidesAgree DEF Substitute
  <2>2. child[s]["left"] = sentinel
    BY <1>3, <2>1, MinHere
  <2>3. QED
    BY <1>1, <2>2 DEF Moved
<1>7. InnerSteps(n, s, c, ch1, par1)
  BY <1>1, <1>3, <1>4, <1>5, <1>6 DEF InnerSteps
<1>8. /\ ch1 \in [Node -> [Side -> Cell] \cup {Cleared}]
      /\ \A m \in Node : ch1[m] = Cleared <=> child[m] = Cleared
      /\ ch1[n] \in [Side -> Cell]
  BY <1>7, InnerCuts
<1>9. /\ parent \in [Cell -> Cell \cup {NULL}] /\ color \in [Cell -> Color]
      /\ s \in Cell /\ n \in Cell /\ c \in Cell
  BY <1>3, <1>4, <1>5 DEF TreeInv, TypeOK, Cell
<1>10. /\ ch \in [Node -> [Side -> Cell] \cup {Cleared}]
       /\ ch[s] = ch1[n]
       /\ \A m \in Node \ {s} : ch[m] = ch1[m]
  BY <1>2, <1>4, <1>5, <1>8
<1>11. /\ chn \in [Node -> [Side -> Cell] \cup {Cleared}]
       /\ chn[s] = ch1[n]
       /\ \A m \in Node : chn[m] = Cleared <=> child[m] = Cleared
       /\ \A m \in InTree \ {s}, e \in Side :
            chn[m][e] = IF n # root /\ m = parent[n] /\ e = SideOf(n) THEN s ELSE ch1[m][e]
  <2>1. \A m \in Node : ch[m] = Cleared <=> child[m] = Cleared
    <3>1. child[s] # Cleared /\ ch1[n] # Cleared
      BY <1>4, <1>8, NotCleared DEF InTree
    <3>2. QED
      BY <1>4, <1>5, <1>8, <1>10, <3>1
  <2>2. CASE n = root
    BY <1>2, <1>5, <1>10, <2>1, <2>2
  <2>3. CASE n # root
    <3>1. PICK x, e1 : x = parent[n] /\ e1 = SideOf(n)
      OBVIOUS
    <3>2. x \in InTree /\ x # s /\ x \in Node /\ e1 \in Side
      BY <1>4, <1>5, <2>3, <3>1, SidesAgree DEF SideOf
    <3>3. ch[x] \in [Side -> Cell]
      BY <1>10, <2>1, <3>2 DEF InTree
    <3>4. chn = [ch EXCEPT ![x] = [ch[x] EXCEPT ![e1] = s]]
      BY <1>2, <2>3, <3>1
    <3>5. PICK k : k = [ch[x] EXCEPT ![e1] = s]
      OBVIOUS
    <3>6. k \in [Side -> Cell] /\ \A e \in Side : k[e] = IF e = e1 THEN s ELSE ch[x][e]
      BY <1>9, <3>3, <3>5
    <3>7. chn = [ch EXCEPT ![x] = k] /\ k # Cleared
      BY <3>4, <3>5, <3>6, NotCleared
    <3>8. /\ chn \in [Node -> [Side -> Cell] \cup {Cleared}]
          /\ chn[x] = k
          /\ \A m \in Node \ {x} : chn[m] = ch[m]
      BY <1>10, <3>2, <3>6, <3>7
    <3>9. chn[s] = ch1[n]
      BY <1>4, <1>5, <1>10, <3>2, <3>8
    <3>10. \A m \in Node : chn[m] = Cleared <=> child[m] = Cleared
      BY <2>1, <3>2, <3>7, <3>8 DEF InTree
    <3>11. \A m \in InTree \ {s}, e \in Side :
             chn[m][e] = IF n # root /\ m = parent[n] /\ e = SideOf(n) THEN s ELSE ch1[m][e]
      BY <1>5, <1>10, <2>3, <3>1, <3>2, <3>6, <3>8
    <3>12. QED
      BY <3>8, <3>9, <3>10, <3>11
  <2>4. QED
    BY <2>2, <2>3
<1>12. MovedParent(n) = (IF parent[s] = n THEN s ELSE parent[s])
  BY <1>1 DEF MovedParent
<1>13. /\ par \in [Cell -> Cell \cup {NULL}]
       /\ \A m \in Cell : par[m] = IF m = s THEN parent[n]
                                   ELSE IF m = c THEN IF parent[s] = n THEN s ELSE parent[s]
                                   ELSE parent[m]
  <2>1. PICK y : y = MovedParent(n) /\ y \in Cell
    BY <1>5, <1>9, <1>12
  <2>2. par = [parent EXCEPT ![c] = y, ![s] = parent[n]] /\ parent[n] \in Cell \cup {NULL}
    BY <1>2, <1>9, <2>1
  <2>3. QED
    BY <1>9, <1>12, <2>1, <2>2
<1>14. /\ parn \in [Cell -> Cell \cup {NULL}]
       /\ \A m \in Cell : parn[m] = IF m # sentinel /\ (\E e \in Side : ch1[n][e] = m) THEN s ELSE par[m]
  <2>1. \A m \in Cell : parn[m] = IF m \in {ch[s][d] : d \in Side} \ {sentinel} THEN s ELSE par[m]
    BY <1>2
  <2>2. \A m : m \in {ch[s][d] : d \in Side} \ {sentinel} <=> m # sentinel /\ \E e \in Side : ch1[n][e] = m
    BY <1>10
  <2>3. parn \in [Cell -> Cell \cup {NULL}]
    BY <1>2, <1>9, <1>13
  <2>4. QED
    BY <2>1, <2>2, <2>3
<1>15. col \in [Cell -> Color] /\ \A m \in Cell : col[m] = IF m = s THEN color[n] ELSE color[m]
  BY <1>2, <1>9
<1>16. /\ n \in Node /\ n \in Cell
       /\ child' \in [Node -> [Side -> Cell] \cup {Cleared}]
       /\ parent' \in [Cell -> Cell \cup {NULL}]
       /\ color' \in [Cell -> Color]
       /\ key' \in [Node -> 0..(KeyRange - 1)]
       /\ InTree' = InTree \ {n} /\ In(child') = InTree \ {n}
       /\ \A m \in InTree \ {n} : child'[m] = chn[m]
       /\ \A m \in Cell \ {n} : parent'[m] = parn[m] /\ color'[m] = col[m]
       /\ color'[n] = "black"
  <2>1. (\A m \in Node \ InTree : chn[m] = Cleared) /\ \A m \in InTree \ {n} : chn[m] # Cleared
    BY <1>5, <1>11 DEF InTree
  <2>2. QED
    BY <1>3, <1>11, <1>14, <1>15, <2>1, ClearedTypes
<1>17. InnerMemory(n, s, c, ch1)
  <2>1. \A e \in Side : child'[s][e] = ch1[n][e]
    BY <1>3, <1>4, <1>11, <1>16
  <2>2. \A m \in InTree \ {n, s}, e \in Side :
          child'[m][e] = IF n # root /\ m = parent[n] /\ e = SideOf(n) THEN s ELSE ch1[m][e]
    BY <1>11, <1>16
  <2>3. \A m \in Cell \ {n} :
          parent'[m] = IF m # sentinel /\ (\E e \in Side : ch1[n][e] = m) THEN s
                       ELSE IF m = s THEN parent[n]
                       ELSE IF m = c THEN IF parent[s] = n THEN s ELSE parent[s]
                       ELSE parent[m]
    BY <1>13, <1>14, <1>16
  <2>4. QED
    BY <1>3, <1>16, <2>1, <2>2, <2>3 DEF InnerMemory
<1>18. Planted(root, child, parent)' /\ Removes(Node, List, List', n)
  BY <1>4, <1>7, <1>17, InnerPlants
<1>19. PICK x, e1, red : /\ x = (IF parent[s] = n THEN s ELSE parent[s]) /\ e1 = SideOf(s)
                         /\ red = ngx_rbt_is_red(s)
  OBVIOUS
<1>20. /\ x \in InTree \ {n} /\ e1 \in Side
       /\ child'[x][e1] = c /\ parent'[c] = x /\ c # root'
       /\ c \in (InTree \ {n}) \cup {sentinel}
  BY <1>7, <1>17, <1>19, InnerHangs
<1>21. red <=> s \notin black
  BY <1>9, <1>19, BlackOrRed DEF ngx_rbt_is_red
<1>22. /\ \A m \in InTree \ {n, s} : m \in black' <=> m \in black
       /\ s \in black' <=> n \in black
       /\ sentinel \in black'
  <2>1. \A m \in Cell \ {n} : color'[m] = IF m = s THEN color[n] ELSE color[m]
    BY <1>15, <1>16
  <2>2. sentinel \in Cell /\ sentinel # n /\ sentinel # s /\ sentinel \in black
    BY <1>3, <1>4, <1>5 DEF Cell, TreeInv
  <2>3. \A m \in Cell \ {n, s} : m \in black' <=> m \in black
    BY <2>1 DEF black, ngx_rbt_is_black, ngx_rbt_is_red
  <2>4. s \in black' <=> n \in black
    BY <1>3, <1>9, <2>1 DEF black, ngx_rbt_is_black, ngx_rbt_is_red
  <2>5. QED
    BY <1>5, <2>2, <2>3, <2>4
<1>23. PICK blk2, x1, e2 :
         /\ blk2 = black' \cup (IF red THEN {} ELSE {c})
         /\ x1 = (IF red \/ c \notin black' THEN sentinel ELSE x)
         /\ e2 = (IF red \/ c \notin black' THEN "left" ELSE e1)
  OBVIOUS
<1>24. Colored(InTree \ {n}, sentinel, child', Par', blk2, sentinel, x1, e2)
  BY <1>3, <1>7, <1>17, <1>19, <1>21, <1>22, <1>23, SuccessorColors
<1>25. OtherTypes'
  <2>1. pc' \in {"idle", "delete"} /\ temp' \in Cell
    BY <1>1, <1>3, <1>9 DEF Fixup, Cell
  <2>2. QED
    BY <1>3, <1>16, <2>1, TypesApart DEF OtherTypes
<1>26. PICK T : T = InTree \ {n}
  OBVIOUS
<1>27. TreeInv'
  <2>1. /\ InTree' = T /\ c \in T \cup {sentinel} /\ c # root' /\ x \in T /\ e1 \in Side
        /\ child'[x][e1] = c /\ parent'[c] = x
        /\ Colored(T, sentinel, child', Par', blk2, sentinel, x1, e2)
    BY <1>16, <1>20, <1>24, <1>26
  <2>2. Fixup(red, n)
    BY <1>3, <1>19
  <2>3. QED
    BY <1>1, <1>3, <1>18, <1>22, <1>23, <1>25, <2>1, <2>2, FixupKeeps
<1>28. QED
  BY <1>3, <1>18, <1>27

-----------------------------------------------------------------------------
(* The theorems. *)

\* What every step does to the tree and to its list.
LEMMA StepKeeps ==
  ASSUME TreeInv, [Next]_vars
  PROVE  TreeInv'
<1>1. CASE UNCHANGED vars
  <2>1. /\ root' = root /\ child' = child /\ parent' = parent /\ color' = color
        /\ insert' = insert /\ key' = key /\ pc' = pc /\ node' = node /\ temp' = temp
    BY <1>1 DEF vars, tree
  <2>2. /\ Planted(root, child, parent)'
        /\ InTree' = InTree /\ Par' = Par /\ \A n : SideOf(n)' = SideOf(n)
    BY <2>1, SamePointers
  <2>3. black' = black
    BY <2>1 DEF black, ngx_rbt_is_black, ngx_rbt_is_red
  <2>4. TypeOK'
    BY <2>1, <2>2, TypesTogether, TypesApart DEF OtherTypes
  <2>5. Locals'
    BY <2>1, <2>2, <2>3 DEF Locals, TreeInv
  <2>6. Slotted' <=> Slotted
    BY <2>1 DEF Slotted, ngx_rbt_is_black, ngx_rbt_is_red
  <2>7. Blk' = Blk /\ Upset' = Upset /\ SlotNode' = SlotNode /\ SlotSide' = SlotSide
    BY <2>1, <2>2, <2>3, <2>6 DEF Blk, Upset, SlotNode, SlotSide
  <2>8. Colors'
    BY <2>1, <2>2, <2>7 DEF Colors, TreeInv
  <2>9. QED
    BY <2>2, <2>3, <2>4, <2>5, <2>8 DEF TreeInv
<1>2. ASSUME NEW n \in Node,
             InsertFirst(n) \/ Insert(n) \/ DeleteRoot(n) \/ DeleteOuter(n) \/ DeleteInner(n)
      PROVE  TreeInv'
  <2>1. CASE InsertFirst(n)
    BY <2>1, InsertFirstKeeps
  <2>2. CASE Insert(n)
    BY <2>2, InsertKeeps
  <2>3. CASE DeleteRoot(n)
    BY <2>3, DeleteRootKeeps
  <2>4. CASE DeleteOuter(n)
    BY <2>4, DeleteOuterKeeps
  <2>5. CASE DeleteInner(n)
    BY <2>5, DeleteInnerKeeps
  <2>6. QED
    BY <1>2, <2>1, <2>2, <2>3, <2>4, <2>5
<1>3. CASE Descend
  BY <1>3, DescendKeeps
<1>4. CASE Link
  BY <1>4, LinkKeeps
<1>5. CASE InsertFlip
  BY <1>5, InsertFlipKeeps
<1>6. CASE InsertRotate
  BY <1>6, InsertRotateKeeps
<1>7. CASE InsertDone
  BY <1>7, InsertDoneKeeps
<1>8. CASE DeleteRedSibling
  BY <1>8, DeleteRedSiblingKeeps
<1>9. CASE DeleteFlip
  BY <1>9, DeleteFlipKeeps
<1>10. CASE DeleteRotate
  BY <1>10, DeleteRotateKeeps
<1>11. CASE DeleteDone
  BY <1>11, DeleteDoneKeeps
<1>12. QED
  BY <1>1, <1>2, <1>3, <1>4, <1>5, <1>6, <1>7, <1>8, <1>9, <1>10, <1>11 DEF Next, Caller, Run

\* The inductive invariant holds of every state that the callers can reach.
THEOREM TreeInvariant == Spec => []TreeInv
<1>1. Init => TreeInv
  BY InitInv
<1>2. TreeInv /\ [Next]_vars => TreeInv'
  BY StepKeeps
<1>3. QED
  BY <1>1, <1>2, PTL DEF Spec

\* WellLinked: at every turn of every loop each child names its parent, and while a
\* deletion repairs the tree, temp hangs where temp->parent says, the sentinel too.
THEOREM AlwaysWellLinked == Spec => []WellLinked
<1>1. TreeInv => WellLinked
  <2> SUFFICES ASSUME TreeInv PROVE WellLinked
    OBVIOUS
  <2>1. TypeOK
    BY DEF TreeInv
  <2>2. \A n \in InTree, d \in Side :
          child[n][d] # sentinel => parent[child[n][d]] = n /\ child[n][d] # root
    BY TreeNow
  <2>3. pc = "delete" /\ temp # root => child[parent[temp]][SideOf(temp)] = temp
    BY DEF TreeInv, Locals
  <2>4. LinksAgree
    BY <2>2, <2>3 DEF LinksAgree
  <2>5. QED
    BY <2>1, <2>4 DEF WellLinked
<1>2. QED
  BY <1>1, TreeInvariant, PTL

\* The colors that the invariant is about are those that RBShape counts.
LEMMA ColorsInShape ==
  ASSUME TreeInv, NEW blk, NEW v, NEW x, NEW e0,
         Colored(InTree, sentinel, child, Par, blk, v, x, e0)
  PROVE  NoRedRed(child, blk \cup {v}, root) /\ Balanced(child, blk, root, <<x, e0>>)
<1>1. PICK S : S = InTree
  OBVIOUS
<1>2. /\ S \in SUBSET Node /\ S = In(child) /\ Planted(root, child, parent)
      /\ root \in S \cup {sentinel}
      /\ Hung(S, sentinel, root, child, Par)
  BY <1>1, TreeNow DEF TreeInv
<1>3. PICK h : Shaped(child, Par, S, sentinel, h, Max)
  BY <1>2, PlantedIsWalked DEF Par
<1>4. (\A n \in S : h[n] \in 1..Max) /\ Below(child, S, sentinel, h)
  BY <1>3 DEF Shaped
<1>5. PICK extra : extra = <<x, e0>>
  OBVIOUS
<1>6. PICK B : Labelled(S, sentinel, child, blk, B, x, e0)
  BY <1>1 DEF Colored
<1>7. PathLabels(B, S, sentinel, child, blk, extra)
  <2>1. \A n, d : n = x /\ d = e0 <=> <<n, d>> = extra
    BY <1>5
  <2>2. \A n \in S, d \in TwoSides :
          B[n] = B[child[n][d]] + One(n \in blk) + One(n = x /\ d = e0)
    BY <1>6 DEF Labelled
  <2>3. \A n \in S, d \in TwoSides : One(n = x /\ d = e0) = One(<<n, d>> = extra)
    BY <2>1 DEF One
  <2>4. \A n \in S, d \in TwoSides :
          B[n] = B[child[n][d]] + One(n \in blk) + One(<<n, d>> = extra)
    BY <2>2, <2>3
  <2>5. B[sentinel] = 0 /\ \A n \in S : B[n] \in Nat
    BY <1>6 DEF Labelled
  <2>6. QED
    BY <2>4, <2>5 DEF PathLabels
<1>8. CountIs(CountsWalk(NodeOrNil, child, sentinel, Max, blk, extra)[Max][root], B[root])
  BY <1>2, <1>4, <1>7, MaxType, CountsAreLabels DEF NodeOrNil
<1>9. BlackCounts(child, blk, root, extra) = {B[root]}
  BY <1>8, WalksOfShape DEF CountIs
<1>10. Balanced(child, blk, root, extra)
  BY <1>9, FS_Singleton DEF Balanced
<1>11. NoRedRed(child, blk \cup {v}, root)
  <2>1. PICK walk : walk = InOrder(child, root)
    OBVIOUS
  <2>2. \A i \in DOMAIN walk : walk[i] \in S
    <3>1. walk = Walk(child)[root]
      BY <2>1, WalksOfShape
    <3>2. Nodes(Walk(child), root) = S
      BY <1>2, PlantedIsWalked DEF Listed
    <3>3. QED
      BY <3>1, <3>2 DEF Nodes, Elements
  <2>3. ASSUME NEW n \in S, NEW d \in Side, n \notin blk, child[n][d] \notin blk, child[n][d] # v
        PROVE  child[n][d] = sentinel
    <3>1. child[n][d] \in S \cup {sentinel} /\ (child[n][d] # sentinel => Par[child[n][d]] = n)
      BY <1>2, SidesAgree DEF Hung
    <3>2. Reds(S, Par, blk, v)
      BY <1>1 DEF Colored
    <3>3. QED
      BY <2>3, <3>1, <3>2 DEF Reds
  <2>4. QED
    BY <2>1, <2>2, <2>3 DEF NoRedRed
<1>12. QED
  BY <1>5, <1>10, <1>11

\* RedBlackThroughout: the sentinel stays black; between the calls the tree is a red-black
\* tree, and inside of them it is as wrong as the loop that runs takes it to be.
THEOREM AlwaysRedBlack == Spec => []RedBlackThroughout
<1>1. TreeInv => RedBlackThroughout
  <2> SUFFICES ASSUME TreeInv PROVE RedBlackThroughout
    OBVIOUS
  <2>1. Colored(InTree, sentinel, child, Par, Blk, Upset, SlotNode, SlotSide)
    BY DEF TreeInv, Colors
  <2>2. PICK blk, v, x, e0 : blk = Blk /\ v = Upset /\ x = SlotNode /\ e0 = SlotSide
    OBVIOUS
  <2>3. NoRedRed(child, blk \cup {v}, root) /\ Balanced(child, blk, root, <<x, e0>>)
    BY <2>1, <2>2, ColorsInShape
  <2>4. sentinel \in black
    BY DEF TreeInv
  <2>5. SentinelIsBlack
    BY <2>4 DEF SentinelIsBlack, black
  <2>6. RedBlackAtRest
    <3>1. SUFFICES ASSUME pc \in {"idle", "descend"} PROVE IsRedBlack(child, black, root)
      BY DEF RedBlackAtRest
    <3>2. blk = black /\ v = sentinel /\ x = sentinel /\ e0 = "left"
      BY <2>2, <3>1 DEF Blk, Upset, SlotNode, SlotSide, Slotted
    <3>3. black \cup {sentinel} = black
      BY <2>4
    <3>4. NoRedRed(child, black, root) /\ Balanced(child, black, root, NoSlot)
      BY <2>3, <3>2, <3>3 DEF NoSlot
    <3>5. root \in black \cup {sentinel}
      <4>1. root \in InTree \cup {sentinel} /\ sentinel \notin InTree
        BY TreeNow
      <4>2. QED
        BY <2>2, <3>2, <4>1, RootBlack
    <3>6. QED
      BY <3>4, <3>5 DEF IsRedBlack
  <2>7. LoopInvariants
    <3>1. ASSUME pc = "insert"
          PROVE  NoRedRed(child, black \cup {node}, root) /\ Balanced(child, black, root, NoSlot)
      <4>1. blk = black /\ v = node /\ x = sentinel /\ e0 = "left"
        BY <2>2, <3>1 DEF Blk, Upset, SlotNode, SlotSide, Slotted
      <4>2. QED
        BY <2>3, <4>1 DEF NoSlot
    <3>2. ASSUME pc = "delete"
          PROVE  /\ NoRedRed(child, black \cup {temp}, root)
                 /\ Balanced(child, black \cup {temp}, root,
                             IF temp = root \/ ngx_rbt_is_red(temp) THEN NoSlot
                             ELSE <<parent[temp], SideOf(temp)>>)
      <4>1. blk = black \cup {temp} /\ v = sentinel /\ blk \cup {sentinel} = blk
        BY <2>2, <2>4, <3>2 DEF Blk, Upset
      <4>2. NoRedRed(child, black \cup {temp}, root)
        BY <2>3, <4>1
      <4>3. <<x, e0>> = IF temp = root \/ ngx_rbt_is_red(temp) THEN NoSlot
                        ELSE <<parent[temp], SideOf(temp)>>
        <5>1. Slotted <=> ~(temp = root \/ ngx_rbt_is_red(temp))
          <6>1. temp \in Cell
            BY DEF TreeInv, TypeOK
          <6>2. ngx_rbt_is_black(temp) <=> ~ngx_rbt_is_red(temp)
            BY <6>1, BlackOrRed DEF ngx_rbt_is_black, ngx_rbt_is_red
          <6>3. QED
            BY <3>2, <6>2 DEF Slotted
        <5>2. QED
          BY <2>2, <5>1 DEF SlotNode, SlotSide, NoSlot
      <4>4. QED
        BY <2>3, <4>1, <4>2, <4>3
    <3>3. QED
      BY <3>1, <3>2 DEF LoopInvariants
  <2>8. QED
    BY <2>5, <2>6, <2>7 DEF RedBlackThroughout
<1>2. QED
  BY <1>1, TreeInvariant, PTL

-----------------------------------------------------------------------------
(* The order of the nodes. *)

\* A difference of keys in their width.
LEMMA Differences ==
  ASSUME NEW K \in Nat \ {0}
  PROVE  /\ \A a \in 0..(K - 1) : a % K = a
         /\ \A a \in (1 - K)..(-1) : a % K = a + K
         /\ K \div 2 \in Nat /\ (K \div 2) + (K \div 2) =< K
<1>1. ASSUME NEW a \in 0..(K - 1) PROVE a % K = a
  OBVIOUS
<1>2. ASSUME NEW a \in (1 - K)..(-1) PROVE a % K = a + K
  <2>1. a \in Int /\ a < 0 /\ 0 - K < a
    OBVIOUS
  <2>2. QED
    BY <2>1
<1>3. K \div 2 \in Nat /\ (K \div 2) + (K \div 2) =< K
  OBVIOUS
<1>4. QED
  BY <1>1, <1>2, <1>3

\* Of two timers with different keys one is before the other.
LEMMA OneIsBefore ==
  ASSUME NEW k \in 0..(KeyRange - 1), NEW l \in 0..(KeyRange - 1),
         ~timer_before(k, l), ~timer_before(l, k)
  PROVE  k = l
<1>1. KeyRange \in Nat \ {0}
  BY NgxAssumption
<1>2. /\ \A a \in 0..(KeyRange - 1) : a % KeyRange = a
      /\ \A a \in (1 - KeyRange)..(-1) : a % KeyRange = a + KeyRange
      /\ KeyRange \div 2 \in Nat /\ (KeyRange \div 2) + (KeyRange \div 2) =< KeyRange
  BY <1>1, Differences
<1>3. (k - l) % KeyRange < KeyRange \div 2 /\ (l - k) % KeyRange < KeyRange \div 2
  <2>1. (k - l) % KeyRange \in Int /\ (l - k) % KeyRange \in Int
    BY <1>1
  <2>2. QED
    BY <1>2, <2>1 DEF timer_before
<1>4. CASE k < l
  <2>1. k - l \in (1 - KeyRange)..(-1) /\ l - k \in 0..(KeyRange - 1)
    BY <1>1, <1>4
  <2>2. (k - l) % KeyRange = (k - l) + KeyRange /\ (l - k) % KeyRange = l - k
    BY <1>2, <2>1
  <2>3. QED
    BY <1>1, <1>2, <1>3, <1>4, <2>2
<1>5. CASE l < k
  <2>1. l - k \in (1 - KeyRange)..(-1) /\ k - l \in 0..(KeyRange - 1)
    BY <1>1, <1>5
  <2>2. (l - k) % KeyRange = (l - k) + KeyRange /\ (k - l) % KeyRange = k - l
    BY <1>2, <2>1
  <2>3. QED
    BY <1>1, <1>2, <1>3, <1>5, <2>2
<1>6. QED
  BY <1>4, <1>5

\* The pairs of nodes that the descent of an insertion leaves in this order.
Stays == {p \in Node \X Node : ~before(Key[p[2]], Key[p[1]])}

\* The nodes that it would put n behind.
Low(n) == {m \in Node : <<m, n>> \in Stays}

\* The keys that are together in the tree.
Together(S) == insert = "ngx_rbtree_insert_timer_value" => Comparable(S)

LEMMA StaysHere ==
  ASSUME NEW n \in Node, NEW m \in Node
  PROVE  /\ <<n, m>> \in Stays <=> ~before(Key[m], Key[n])
         /\ n \in Low(m) <=> ~before(Key[m], Key[n])
         /\ Key[n] \in 0..(KeyRange - 1) /\ Key[n] \in Int
BY NgxAssumption DEF Stays, Low

\* They are in order, whichever function the tree descends by.
LEMMA StaysOrders ==
  ASSUME insert \in InsertFunctions, NEW S \in SUBSET Node, Together(S)
  PROVE  /\ \A a, b, c \in S : <<a, b>> \in Stays /\ <<b, c>> \in Stays => <<a, c>> \in Stays
         /\ \A a, b \in S : <<a, b>> \in Stays \/ <<b, a>> \in Stays
<1>1. CASE insert = "ngx_rbtree_insert_value"
  <2>1. ASSUME NEW a \in S, NEW b \in S PROVE <<a, b>> \in Stays <=> Key[a] =< Key[b]
    <3>1. <<a, b>> \in Stays <=> ~before(Key[b], Key[a])
      BY StaysHere
    <3>2. before(Key[b], Key[a]) <=> Key[b] < Key[a]
      BY <1>1 DEF before, value_before
    <3>3. Key[a] \in Int /\ Key[b] \in Int
      BY StaysHere
    <3>4. QED
      BY <3>1, <3>2, <3>3
  <2>2. \A a \in S : Key[a] \in Int
    BY StaysHere
  <2>3. QED
    BY <2>1, <2>2
<1>2. CASE insert = "ngx_rbtree_insert_timer_value"
  <2>1. ASSUME NEW a \in S, NEW b \in S PROVE <<a, b>> \in Stays <=> ~timer_before(Key[b], Key[a])
    BY <1>2, StaysHere DEF before
  <2>2. Comparable(S)
    BY <1>2 DEF Together
  <2>3. \A a, b \in S : timer_before(Key[a], Key[b]) => ~timer_before(Key[b], Key[a])
    BY <2>2 DEF Comparable
  <2>4. \A a, b, c \in S : timer_before(Key[a], Key[b]) /\ timer_before(Key[b], Key[c])
                             => timer_before(Key[a], Key[c])
    BY <2>2 DEF Comparable
  <2>5. ASSUME NEW a \in S, NEW b \in S, NEW c \in S,
               ~timer_before(Key[b], Key[a]), ~timer_before(Key[c], Key[b]),
               timer_before(Key[c], Key[a])
        PROVE  FALSE
    <3>1. CASE timer_before(Key[a], Key[b])
      BY <2>4, <2>5, <3>1
    <3>2. CASE ~timer_before(Key[a], Key[b])
      <4>1. Key[a] = Key[b]
        BY <2>5, <3>2, OneIsBefore, StaysHere
      <4>2. QED
        BY <2>5, <4>1
    <3>3. QED
      BY <3>1, <3>2
  <2>6. QED
    BY <2>1, <2>3, <2>5
<1>3. QED
  BY <1>1, <1>2 DEF InsertFunctions

\* The invariant with the list: it is in order, and an insertion descends to where the new
\* node belongs in it.
ListInv ==
  /\ TreeInv
  /\ \A n \in InTree : key[n] = Key[n]
  /\ Chained(Stays, List)
  /\ pc = "descend" =>
       /\ key[node] = Key[node]
       /\ Together(InTree \cup {node})
       /\ Belongs(Node, List, Walk(child)[temp], Low(node))

\* What the list of a tree holds.
LEMMA ListOfTree ==
  ASSUME NEW r, NEW ch, NEW par, Planted(r, ch, par)
  PROVE  /\ Walk(ch)[r] \in Seq(Node)
         /\ Elements(Walk(ch)[r]) = In(ch)
         /\ Distinct(Walk(ch)[r])
<1>1. Listed(In(ch), sentinel, r, ch, ParOf(r, par), Walk(ch))
  BY PlantedIsWalked
<1>2. r \in In(ch) \cup {sentinel} /\ In(ch) \subseteq Node
  BY PlantedType
<1>3. /\ Walk(ch)[r] \in Seq(In(ch))
      /\ Elements(Walk(ch)[r]) = In(ch)
      /\ Distinct(Walk(ch)[r])
  BY <1>1, <1>2 DEF Listed, Nodes
<1>4. Seq(In(ch)) \subseteq Seq(Node)
  BY <1>2
<1>5. QED
  BY <1>3, <1>4

LEMMA ListNow ==
  ASSUME TreeInv
  PROVE  List \in Seq(Node) /\ Elements(List) = InTree /\ Distinct(List)
BY ListOfTree DEF TreeInv, List, InTree, In

LEMMA ListNext ==
  ASSUME TreeInv'
  PROVE  List' \in Seq(Node) /\ Elements(List') = InTree' /\ Distinct(List')
<1>1. Planted(root', child', parent')
  BY DEF TreeInv, Planted, In, ParOf
<1>2. List' = Walk(child')[root'] /\ InTree' = In(child')
  BY DEF List, Walk, InTree, In
<1>3. QED
  BY <1>1, <1>2, ListOfTree

\* The list below a node, side by side.
LEMMA ListsHere ==
  ASSUME TreeInv, NEW n \in InTree, NEW d \in Side
  PROVE  /\ Walk(child)[n] = Put(d, Walk(child)[child[n][d]], n, Walk(child)[child[n][Opposite(d)]])
         /\ \A e \in Side : Walk(child)[child[n][e]] \in Seq(Node)
         /\ Walk(child)[n] \in Seq(Node)
         /\ Walk(child)[sentinel] = <<>>
<1>1. /\ IsInOrder(Walk(child), child, InTree, sentinel)
      /\ Listed(InTree, sentinel, root, child, Par, Walk(child))
  BY TreeNow, PlantedIsWalked DEF TreeInv, Par
<1>2. d \in TwoSides /\ Opposite(d) = Across(d)
  BY SidesAgree
<1>3. Walk(child)[n] = Put(d, Walk(child)[child[n][d]], n, Walk(child)[child[n][Across(d)]])
  BY <1>1, <1>2, PutEither
<1>4. \A m \in InTree \cup {sentinel} : Walk(child)[m] \in Seq(Node)
  <2>1. InTree \subseteq Node
    BY TreeNow
  <2>2. Seq(InTree) \subseteq Seq(Node)
    BY <2>1
  <2>3. QED
    BY <1>1, <2>2 DEF Listed
<1>5. \A e \in Side : child[n][e] \in InTree \cup {sentinel}
  BY TreeNow
<1>6. QED
  BY <1>1, <1>2, <1>3, <1>4, <1>5 DEF Listed

\* The same functions and keys make the same order.
LEMMA SameOrder ==
  ASSUME insert' = insert
  PROVE  /\ Stays' = Stays
         /\ \A n : Low(n)' = Low(n)
         /\ \A S : Together(S)' = Together(S)
BY DEF Stays, Low, Together, before

\* A step that leaves the list as it is, and is no part of a descent.
LEMMA QuietKeeps ==
  ASSUME ListInv, TreeInv', List' = List, key' = key, insert' = insert, pc' # "descend"
  PROVE  ListInv'
<1>1. TreeInv
  BY DEF ListInv
<1>2. Elements(List) = InTree
  BY <1>1, ListNow
<1>3. Elements(List') = InTree'
  BY ListNext
<1>4. InTree' = InTree
  BY <1>2, <1>3
<1>5. Stays' = Stays
  BY SameOrder
<1>6. QED
  BY <1>4, <1>5 DEF ListInv

\* A list of one node, or of none.
LEMMA OneChained ==
  ASSUME NEW R, NEW n
  PROVE  Chained(R, <<n>>) /\ Chained(R, <<>>)
BY DEF Chained

LEMMA InsertFirstListed ==
  ASSUME ListInv, NEW n \in Node, InsertFirst(n)
  PROVE  ListInv'
<1>1. TreeInv' /\ List = <<>> /\ List' = <<n>>
  BY InsertFirstKeeps DEF ListInv
<1>2. Elements(List') = InTree'
  BY <1>1, ListNext
<1>3. InTree' = {n}
  BY <1>1, <1>2, OneElement
<1>4. /\ key' = [key EXCEPT ![n] = Key[n]] /\ pc' = "idle"
      /\ key \in [Node -> 0..(KeyRange - 1)]
  BY DEF InsertFirst, ListInv, TreeInv, TypeOK
<1>5. \A m \in InTree' : key'[m] = Key[m]
  BY <1>3, <1>4
<1>6. (Chained(Stays, List))'
  BY <1>1, OneChained
<1>7. QED
  BY <1>1, <1>4, <1>5, <1>6 DEF ListInv

LEMMA InsertListed ==
  ASSUME ListInv, NEW n \in Node, Insert(n)
  PROVE  ListInv'
<1>1. TreeInv /\ TreeInv' /\ List' = List /\ Chained(Stays, List)
  BY InsertKeeps DEF ListInv
<1>2. /\ Elements(List') = InTree' /\ Elements(List) = InTree
      /\ List \in Seq(Node)
  BY <1>1, ListNext, ListNow
<1>3. /\ key' = [key EXCEPT ![n] = Key[n]] /\ node' = n /\ temp' = root /\ n \notin InTree
      /\ insert' = insert /\ child' = child /\ root' = root
      /\ key \in [Node -> 0..(KeyRange - 1)]
      /\ insert = "ngx_rbtree_insert_timer_value" => Comparable(InTree \cup {n})
  BY DEF Insert, ListInv, TreeInv, TypeOK
<1>4. InTree' = InTree /\ InTree \subseteq Node
  BY <1>1, <1>2, TreeNow
<1>5. (\A m \in InTree' : key'[m] = Key[m]) /\ key'[node'] = Key[node']
  <2>1. \A m \in InTree : key[m] = Key[m]
    BY DEF ListInv
  <2>2. QED
    BY <1>3, <1>4, <2>1
<1>6. Stays' = Stays /\ Low(node)' = Low(n) /\ Together(InTree \cup {node})' = Together(InTree \cup {n})
  BY <1>3, <1>4 DEF Stays, Low, Together, before
<1>7. (Belongs(Node, List, Walk(child)[temp], Low(node)))'
  <2>1. Belongs(Node, List, List, Low(n))
    BY <1>2, BelongsAnywhere
  <2>2. (Walk(child)[temp])' = List
    BY <1>3 DEF List, Walk
  <2>3. QED
    BY <1>1, <1>6, <2>1, <2>2
<1>8. (Together(InTree \cup {node}))'
  BY <1>3, <1>6 DEF Together
<1>9. QED
  BY <1>1, <1>5, <1>6, <1>7, <1>8 DEF ListInv

\* What is in the tree and what an insertion brings are in one order, ...
LEMMA DescentOrders ==
  ASSUME ListInv, pc = "descend"
  PROVE  /\ Downward(InTree, Stays, Low(node))
         /\ \A m \in InTree : m \in Low(node) => <<m, node>> \in Stays
         /\ \A m \in InTree : m \notin Low(node) => <<node, m>> \in Stays
<1>1. /\ Together(InTree \cup {node}) /\ node \in Node /\ InTree \subseteq Node
      /\ insert \in InsertFunctions
  BY TreeNow DEF ListInv, TreeInv, Locals, TypeOK
<1>2. PICK S : S = InTree \cup {node}
  OBVIOUS
<1>3. S \in SUBSET Node /\ Together(S)
  BY <1>1, <1>2
<1>4. /\ \A a, b, c \in S : <<a, b>> \in Stays /\ <<b, c>> \in Stays => <<a, c>> \in Stays
      /\ \A a, b \in S : <<a, b>> \in Stays \/ <<b, a>> \in Stays
  BY <1>1, <1>3, StaysOrders
<1>5. \A m \in InTree : m \in S /\ (m \in Low(node) <=> <<m, node>> \in Stays)
  BY <1>1, <1>2 DEF Low
<1>6. node \in S
  BY <1>2
<1> HIDE DEF Stays, Low
<1>7. QED
  BY <1>4, <1>5, <1>6 DEF Downward

\* ... in which the descent goes.
LEMMA TurnOrders ==
  ASSUME ListInv, pc = "descend"
  PROVE  /\ temp \in InTree /\ temp \in Node /\ node \in Node /\ Turn \in Side /\ Opposite(Turn) \in Side
         /\ Turn = "left" <=> temp \notin Low(node)
<1>1. temp \in InTree /\ temp \in Node /\ node \in Node
  BY TreeNow DEF ListInv, TreeInv, Locals
<1>2. Turn \in Side /\ Opposite(Turn) \in Side
  BY SidesAgree DEF Turn
<1>3. key[temp] = Key[temp] /\ key[node] = Key[node]
  BY <1>1 DEF ListInv
<1>4. Turn = "left" <=> before(Key[node], Key[temp])
  BY <1>3 DEF Turn
<1>5. temp \in Low(node) <=> ~before(Key[node], Key[temp])
  BY <1>1, StaysHere
<1>6. QED
  BY <1>1, <1>2, <1>4, <1>5

LEMMA DescendListed ==
  ASSUME ListInv, Descend
  PROVE  ListInv'
<1>1. TreeInv /\ TreeInv' /\ List' = List /\ Chained(Stays, List) /\ pc = "descend"
  BY DescendKeeps DEF ListInv, Descend
<1>2. /\ Elements(List') = InTree' /\ Elements(List) = InTree
      /\ List \in Seq(Node)
  BY <1>1, ListNext, ListNow
<1>3. /\ key' = key /\ node' = node /\ insert' = insert /\ child' = child
      /\ temp' = child[temp][Turn] /\ pc' = pc
  BY DEF Descend, tree
<1>4. InTree' = InTree /\ InTree \subseteq Node
  BY <1>1, <1>2, TreeNow
<1>5. Stays' = Stays /\ Low(node)' = Low(node) /\ Together(InTree \cup {node})' = Together(InTree \cup {node})
  BY <1>3, <1>4 DEF Stays, Low, Together, before
<1>6. /\ temp \in InTree /\ temp \in Node /\ Turn \in Side /\ Opposite(Turn) \in Side
      /\ Turn = "left" <=> temp \notin Low(node)
  BY <1>1, TurnOrders
<1>7. Downward(InTree, Stays, Low(node))
  BY <1>1, DescentOrders
<1>8. PICK x \in Seq(Node), y \in Seq(Node), X \in Seq(Node) :
        /\ x = Walk(child)[child[temp][Turn]] /\ X = Walk(child)[temp]
        /\ X = Put(Turn, x, temp, y)
  BY <1>1, <1>6, ListsHere
<1>9. Belongs(Node, List, X, Low(node))
  BY <1>1, <1>8 DEF ListInv
<1>10. Turn \in TwoSides /\ InTree \in SUBSET Node
  BY <1>4, <1>6, SidesAgree
<1>11. Elements(List) \subseteq InTree
  BY <1>2
<1>12. Belongs(Node, List, x, Low(node))
  BY ONLY <1>1, <1>6, <1>7, <1>8, <1>9, <1>10, <1>11, BelongsBelow
<1>13. (Walk(child)[temp])' = x
  BY <1>3, <1>8 DEF Walk
<1>14. (Belongs(Node, List, Walk(child)[temp], Low(node)))'
  BY <1>1, <1>5, <1>12, <1>13
<1>15. QED
  BY <1>1, <1>3, <1>4, <1>5, <1>14 DEF ListInv

\* The new node comes in right behind those that stay before it.
LEMMA LinkPlaces ==
  ASSUME ListInv, Link
  PROVE  /\ PutsAbove(Node, List, List', node, Low(node))
         /\ node \in Node /\ node \notin InTree /\ InTree' = InTree \cup {node}
<1>1. TreeInv /\ Chained(Stays, List) /\ pc = "descend"
  BY DEF ListInv, Link
<1>2. Elements(List) = InTree /\ List \in Seq(Node) /\ InTree \subseteq Node
  BY <1>1, ListNow, TreeNow
<1>3. /\ temp \in InTree /\ temp \in Node /\ Turn \in Side /\ Opposite(Turn) \in Side /\ node \in Node
      /\ Turn = "left" <=> temp \notin Low(node)
  BY <1>1, TurnOrders
<1>4. Downward(InTree, Stays, Low(node))
  BY <1>1, DescentOrders
<1>5. PICK A, C :
        /\ PlacedAt(Node, List, Walk(child)[temp], A, C)
        /\ Elements(A) \subseteq Low(node)
        /\ Elements(C) \cap Low(node) = {}
  BY <1>1 DEF ListInv, Belongs
<1>6. PutsNext(Node, List, List', node, A, Walk(child)[temp], C, Turn)
  BY <1>1, <1>5, LinkPuts
<1>7. child[temp][Turn] = sentinel
  BY DEF Link
<1>8. PICK y \in Seq(Node), X \in Seq(Node) :
        X = Walk(child)[temp] /\ X = Put(Turn, <<>>, temp, y)
  <2>1. /\ Walk(child)[temp] = Put(Turn, Walk(child)[child[temp][Turn]], temp,
                                   Walk(child)[child[temp][Opposite(Turn)]])
        /\ Walk(child)[child[temp][Opposite(Turn)]] \in Seq(Node)
        /\ Walk(child)[temp] \in Seq(Node)
        /\ Walk(child)[sentinel] = <<>>
    BY <1>1, <1>3, ListsHere
  <2>2. QED
    BY <1>7, <2>1
<1>9. /\ PlacedAt(Node, List, X, A, C)
      /\ PutsNext(Node, List, List', node, A, X, C, Turn)
  BY <1>5, <1>6, <1>8
<1>10. Turn \in TwoSides /\ InTree \in SUBSET Node /\ Elements(List) \subseteq InTree
  BY <1>2, <1>3, SidesAgree
<1>11. PutsAbove(Node, List, List', node, Low(node))
  BY ONLY <1>1, <1>3, <1>4, <1>5, <1>8, <1>9, <1>10, LeafBelongs
<1>12. QED
  BY <1>1, <1>3, <1>11, LinkHangs

LEMMA LinkListed ==
  ASSUME ListInv, Link
  PROVE  ListInv'
<1>1. /\ TreeInv /\ TreeInv' /\ Chained(Stays, List) /\ pc = "descend"
      /\ pc' = "insert" /\ key' = key /\ insert' = insert
  BY LinkKeeps DEF ListInv, Link
<1>2. Elements(List) = InTree
  BY <1>1, ListNow
<1>3. /\ PutsAbove(Node, List, List', node, Low(node))
      /\ node \in Node /\ InTree' = InTree \cup {node}
  BY LinkPlaces
<1>4. /\ \A m \in InTree : m \in Low(node) => <<m, node>> \in Stays
      /\ \A m \in InTree : m \notin Low(node) => <<node, m>> \in Stays
  BY <1>1, DescentOrders
<1>5. Chained(Stays, List')
  BY <1>1, <1>2, <1>3, <1>4, PutsKeepsChain
<1>6. Stays' = Stays
  BY <1>1, SameOrder
<1>7. \A m \in InTree' : key'[m] = Key[m]
  BY <1>1, <1>3 DEF ListInv
<1>8. QED
  BY <1>1, <1>5, <1>6, <1>7 DEF ListInv

\* A node that goes leaves the others in their order.
LEMMA DeleteListed ==
  ASSUME ListInv, NEW n \in Node, DeleteRoot(n) \/ DeleteOuter(n) \/ DeleteInner(n)
  PROVE  ListInv' /\ Removes(Node, List, List', n) /\ n \in InTree /\ insert' = insert
<1>1. TreeInv /\ Chained(Stays, List)
  BY DEF ListInv
<1>2. TreeInv' /\ n \in InTree /\ Removes(Node, List, List', n)
  BY <1>1, DeleteRootKeeps, DeleteOuterKeeps, DeleteInnerKeeps
<1>3. /\ key' = [key EXCEPT ![n] = 0] /\ pc' \in {"idle", "delete"} /\ insert' = insert
      /\ key \in [Node -> 0..(KeyRange - 1)]
  <2>1. key \in [Node -> 0..(KeyRange - 1)]
    BY <1>1 DEF TreeInv, TypeOK
  <2>2. CASE DeleteRoot(n)
    BY <2>1, <2>2 DEF DeleteRoot, DebugStuff
  <2>3. CASE DeleteOuter(n)
    BY <2>1, <2>3 DEF DeleteOuter, DebugStuff, Fixup
  <2>4. CASE DeleteInner(n)
    BY <2>1, <2>4 DEF DeleteInner, DebugStuff, Fixup
  <2>5. QED
    BY <2>2, <2>3, <2>4
<1>4. Elements(List') = InTree' /\ Elements(List) = InTree /\ Distinct(List) /\ InTree \subseteq Node
  BY <1>1, <1>2, ListNow, ListNext, TreeNow
<1>5. InTree' = InTree \ {n}
  <2>1. PICK P \in Seq(Node), Q \in Seq(Node) : List = (P \o <<n>>) \o Q /\ List' = P \o Q
    BY <1>2 DEF Removes
  <2>2. /\ Elements((P \o <<n>>) \o Q) = Elements(P) \cup {n} \cup Elements(Q)
        /\ n \notin Elements(P) /\ (Elements(P) \cup {n}) \cap Elements(Q) = {}
        /\ Elements(P \o Q) = Elements(P) \cup Elements(Q)
    BY <1>4, <2>1, NodeBetween, ConcatElements
  <2>3. QED
    BY <1>4, <2>1, <2>2
<1>6. \A m \in InTree' : key'[m] = Key[m]
  <2>1. \A m \in InTree : key[m] = Key[m]
    BY DEF ListInv
  <2>2. QED
    BY <1>3, <1>4, <1>5, <2>1
<1>7. Chained(Stays, List') /\ Stays' = Stays
  BY <1>1, <1>2, <1>3, RemovesKeepsChain, SameOrder
<1>8. ListInv'
  BY <1>2, <1>3, <1>6, <1>7 DEF ListInv
<1>9. QED
  BY <1>2, <1>3, <1>8

\* The turns that rebalance leave the list as it is.
LEMMA LoopListed ==
  ASSUME ListInv,
         \/ InsertFlip \/ InsertRotate \/ InsertDone
         \/ DeleteRedSibling \/ DeleteFlip \/ DeleteRotate \/ DeleteDone
  PROVE  ListInv' /\ List' = List /\ insert' = insert
<1>1. TreeInv
  BY DEF ListInv
<1>2. TreeInv' /\ List' = List
  BY <1>1, InsertFlipKeeps, InsertRotateKeeps, InsertDoneKeeps, DeleteRedSiblingKeeps,
     DeleteFlipKeeps, DeleteRotateKeeps, DeleteDoneKeeps
<1>3. key' = key /\ insert' = insert /\ pc' # "descend"
  <2>1. CASE InsertFlip
    BY <2>1 DEF InsertFlip, InsertGoesOn
  <2>2. CASE InsertRotate
    BY <2>2 DEF InsertRotate, InsertGoesOn
  <2>3. CASE InsertDone
    BY <2>3 DEF InsertDone, Return
  <2>4. CASE DeleteRedSibling
    BY <2>4 DEF DeleteRedSibling, DeleteGoesOn
  <2>5. CASE DeleteFlip
    BY <2>5 DEF DeleteFlip, DeleteGoesOn
  <2>6. CASE DeleteRotate
    BY <2>6 DEF DeleteRotate, DeleteGoesOn
  <2>7. CASE DeleteDone
    BY <2>7 DEF DeleteDone, Return
  <2>8. QED
    BY <2>1, <2>2, <2>3, <2>4, <2>5, <2>6, <2>7
<1>4. QED
  BY <1>2, <1>3, QuietKeeps

LEMMA UnchangedListed ==
  ASSUME ListInv, UNCHANGED vars
  PROVE  ListInv' /\ List' = List /\ insert' = insert
<1>1. TreeInv'
  BY StepKeeps DEF ListInv
<1>2. /\ root' = root /\ child' = child /\ key' = key /\ pc' = pc /\ insert' = insert
      /\ node' = node /\ temp' = temp
  BY DEF vars, tree
<1>3. InTree' = InTree /\ Stays' = Stays /\ List' = List /\ (Walk(child)[temp])' = Walk(child)[temp]
  BY <1>2, SameOrder DEF InTree, List, Walk
<1>4. Low(node)' = Low(node) /\ (Together(InTree \cup {node}))' = Together(InTree \cup {node})
  BY <1>2, <1>3 DEF Low, Stays, Together, before
<1>5. QED
  BY <1>1, <1>2, <1>3, <1>4 DEF ListInv

LEMMA StepListed ==
  ASSUME ListInv, [Next]_vars
  PROVE  ListInv'
<1>1. CASE UNCHANGED vars
  BY <1>1, UnchangedListed
<1>2. ASSUME NEW n \in Node, InsertFirst(n) PROVE ListInv'
  BY <1>2, InsertFirstListed
<1>3. ASSUME NEW n \in Node, Insert(n) PROVE ListInv'
  BY <1>3, InsertListed
<1>4. ASSUME NEW n \in Node, DeleteRoot(n) \/ DeleteOuter(n) \/ DeleteInner(n) PROVE ListInv'
  BY <1>4, DeleteListed
<1>5. CASE Descend
  BY <1>5, DescendListed
<1>6. CASE Link
  BY <1>6, LinkListed
<1>7. CASE \/ InsertFlip \/ InsertRotate \/ InsertDone
           \/ DeleteRedSibling \/ DeleteFlip \/ DeleteRotate \/ DeleteDone
  BY <1>7, LoopListed
<1>8. QED
  BY <1>1, <1>2, <1>3, <1>4, <1>5, <1>6, <1>7 DEF Next, Caller, Run

\* The list is what the properties are about.
LEMMA OrderIsList ==
  /\ order = List
  /\ order' = List'
<1>1. \A ch, r : InOrder(ch, r) = Walk(ch)[r]
  BY WalksOfShape
<1>2. order = List
  BY <1>1 DEF order, List
<1>3. order' = InOrder(child', root') /\ List' = Walk(child')[root']
  BY DEF order, List, InOrder, Walk
<1>4. QED
  BY <1>1, <1>2, <1>3

LEMMA InitListed ==
  ASSUME Init
  PROVE  ListInv /\ List = <<>>
<1>1. TreeInv /\ pc = "idle" /\ root = sentinel
  BY InitInv DEF Init
<1>2. InTree = {}
  BY DEF Init, InTree
<1>3. List = <<>>
  BY <1>1, PlantedIsWalked DEF TreeInv, Listed, List
<1>4. Chained(Stays, List)
  BY <1>3, OneChained
<1>5. QED
  BY <1>1, <1>2, <1>3, <1>4 DEF ListInv

THEOREM ListInvariant == Spec => []ListInv
<1>1. Init => ListInv
  BY InitListed
<1>2. ListInv /\ [Next]_vars => ListInv'
  BY StepListed
<1>3. QED
  BY <1>1, <1>2, PTL DEF Spec

\* TimersInOrder: timers that came within half of the key range of each other stay sorted
\* by the time between them, across the overflow of the key.
THEOREM TimersStayInOrder == Spec => []TimersInOrder
<1>1. ListInv => TimersInOrder
  <2> SUFFICES ASSUME ListInv, insert = "ngx_rbtree_insert_timer_value",
                      NEW i \in DOMAIN order, NEW j \in DOMAIN order, i < j
               PROVE  (Key[order[j]] - Key[order[i]]) % KeyRange < KeyRange \div 2
    BY DEF TimersInOrder
  <2>1. /\ order = List /\ Chained(Stays, List) /\ List \in Seq(Node)
    BY OrderIsList, ListNow DEF ListInv
  <2>2. PICK n \in Node, m \in Node : n = order[i] /\ m = order[j]
    BY <2>1, ElementOfSeq
  <2>3. <<n, m>> \in Stays
    BY <2>1, <2>2 DEF Chained
  <2>4. ~timer_before(Key[m], Key[n])
    BY <2>3, StaysHere DEF before
  <2>5. /\ Key[m] \in Int /\ Key[n] \in Int /\ KeyRange \in Nat \ {0}
    BY StaysHere, NgxAssumption
  <2>6. (Key[m] - Key[n]) % KeyRange \in Int /\ KeyRange \div 2 \in Int
    BY <2>5
  <2>7. QED
    BY <2>2, <2>4, <2>6 DEF timer_before
<1>2. QED
  BY <1>1, ListInvariant, PTL

-----------------------------------------------------------------------------
(* With ngx_rbtree_insert_value the list is that of SortedList. *)

ByValue == insert = "ngx_rbtree_insert_value"

\* What Abstract calls its list.
LEMMA AbstractList ==
  ASSUME TreeInv, TreeInv', ByValue, insert' = insert
  PROVE  \E s \in Seq(Node), s2 \in Seq(Node) :
           /\ s = List /\ s2 = List'
           /\ s = (IF insert = "ngx_rbtree_insert_value" THEN order ELSE <<>>)
           /\ s2 = (IF insert = "ngx_rbtree_insert_value" THEN order ELSE <<>>)'
           /\ Distinct(s) /\ Elements(s) = InTree
BY ListNow, ListNext, OrderIsList DEF ByValue

\* A node that comes in where its key belongs.
LEMMA AddedIsNext ==
  ASSUME TreeInv, TreeInv', ByValue, insert' = insert,
         NEW n \in Node, n \notin InTree, PutsByKey(Node, List, List', n, Key)
  PROVE  Abstract!Next
<1>1. PICK s \in Seq(Node), s2 \in Seq(Node) :
           /\ s = List /\ s2 = List'
           /\ s = (IF insert = "ngx_rbtree_insert_value" THEN order ELSE <<>>)
           /\ s2 = (IF insert = "ngx_rbtree_insert_value" THEN order ELSE <<>>)'
           /\ Distinct(s) /\ Elements(s) = InTree
  BY AbstractList
<1>2. n \notin Elements(s) /\ PutsByKey(Node, s, s2, n, Key)
  BY <1>1
<1>3. \A m \in Node : Key[m] \in Int
  BY StaysHere
<1>a. InAt(s, s2, n, Key) /\ n \in Elements(s2)
  BY <1>1, <1>2, <1>3, PutsAtCount
<1>4. PICK i \in Nat :
        /\ i = Cardinality({m \in Elements(s) : Key[m] =< Key[n]})
        /\ s2 = SubSeq(s, 1, i) \o <<n>> \o SubSeq(s, i + 1, Len(s))
  BY <1>a DEF InAt
<1>5. s2 = Abstract!InsertAt(s, i + 1, n)
  <2>1. (i + 1) - 1 = i
    OBVIOUS
  <2>2. QED
    BY <1>4, <2>1 DEF Abstract!InsertAt
<1>6. i = Abstract!Cardinality({m \in Elements(s) : Key[m] =< Key[n]})
  BY <1>4 DEF Abstract!Cardinality, Cardinality
<1>7. Abstract!Add(n)
  BY <1>1, <1>5, <1>6 DEF Abstract!Add, Abstract!Present, Abstract!ToSet, Elements
<1>8. n \in Abstract!Came
  BY <1>1, <1>2, <1>a DEF Abstract!Came, Abstract!Present, Abstract!ToSet, Elements
<1>9. QED
  BY <1>7, <1>8 DEF Abstract!Next

\* A node that goes.
LEMMA RemovedIsNext ==
  ASSUME TreeInv, TreeInv', ByValue, insert' = insert, NEW n \in Node, Removes(Node, List, List', n)
  PROVE  Abstract!Next
<1>1. PICK s \in Seq(Node), s2 \in Seq(Node) :
           /\ s = List /\ s2 = List'
           /\ s = (IF insert = "ngx_rbtree_insert_value" THEN order ELSE <<>>)
           /\ s2 = (IF insert = "ngx_rbtree_insert_value" THEN order ELSE <<>>)'
           /\ Distinct(s) /\ Elements(s) = InTree
  BY AbstractList
<1>2. OutAt(s, s2, n) /\ n \in Elements(s) /\ n \notin Elements(s2)
  BY <1>1, RemovesAtPlace
<1>3. Abstract!Erase(n)
  BY <1>1, <1>2 DEF OutAt, Abstract!Erase, Abstract!RemoveAt
<1>4. n \in Abstract!Gone
  BY <1>1, <1>2 DEF Abstract!Gone, Abstract!Present, Abstract!ToSet, Elements
<1>5. QED
  BY <1>3, <1>4 DEF Abstract!Next

\* Behind those that stay before it is behind those whose key is not larger.
LEMMA LinkPutsByKey ==
  ASSUME ListInv, ByValue, Link
  PROVE  /\ PutsByKey(Node, List, List', node, Key)
         /\ node \in Node /\ node \notin InTree
<1>1. PutsAbove(Node, List, List', node, Low(node)) /\ node \in Node /\ node \notin InTree
  BY LinkPlaces
<1>2. PICK P \in Seq(Node), Q \in Seq(Node) :
        /\ List = P \o Q
        /\ List' = (P \o <<node>>) \o Q
        /\ Elements(P) \subseteq Low(node)
        /\ Elements(Q) \cap Low(node) = {}
  BY <1>1 DEF PutsAbove
<1>3. \A m \in Node : m \in Low(node) <=> ~(Key[node] < Key[m])
  BY <1>1, StaysHere DEF ByValue, before, value_before
<1>4. Elements(P) \subseteq Node /\ Elements(Q) \subseteq Node
  BY ElementOfSeq DEF Elements
<1>5. \A m \in Node : Key[m] \in Int /\ Key[node] \in Int
  BY <1>1, StaysHere
<1>6. /\ \A m \in Elements(P) : Key[m] =< Key[node]
      /\ \A m \in Elements(Q) : Key[node] < Key[m]
  BY <1>2, <1>3, <1>4, <1>5
<1>7. QED
  BY <1>1, <1>2, <1>6 DEF PutsByKey

\* The first node of a list.
LEMMA FirstPutsByKey ==
  ASSUME NEW n \in Node, List = <<>>, List' = <<n>>
  PROVE  PutsByKey(Node, List, List', n, Key)
<1>1. PICK e \in Seq(Node) : e = <<>>
  BY EmptySeq
<1>2. List = e \o e /\ List' = (e \o <<n>>) \o e
  BY <1>1, OneElement, ConcatEmptySeq
<1>3. Elements(e) = {}
  BY <1>1 DEF Elements
<1>4. QED
  BY <1>2, <1>3 DEF PutsByKey

\* A step that leaves the list as it is.
LEMMA SameAbstract ==
  ASSUME List' = List, insert' = insert
  PROVE  (IF insert = "ngx_rbtree_insert_value" THEN order ELSE <<>>)'
           = (IF insert = "ngx_rbtree_insert_value" THEN order ELSE <<>>)
BY OrderIsList

LEMMA StepIsSorted ==
  ASSUME ListInv, [Next]_vars
  PROVE  [Abstract!Next]_(IF insert = "ngx_rbtree_insert_value" THEN order ELSE <<>>)
<1>1. TreeInv /\ TreeInv'
  BY StepKeeps DEF ListInv
<1>2. ASSUME List' = List, insert' = insert
      PROVE  [Abstract!Next]_(IF insert = "ngx_rbtree_insert_value" THEN order ELSE <<>>)
  BY <1>2, SameAbstract
<1>3. ASSUME ~ByValue, insert' = insert
      PROVE  [Abstract!Next]_(IF insert = "ngx_rbtree_insert_value" THEN order ELSE <<>>)
  BY <1>3 DEF ByValue
<1>4. CASE UNCHANGED vars
  BY <1>2, <1>4, UnchangedListed
<1>5. ASSUME NEW n \in Node, InsertFirst(n)
      PROVE  [Abstract!Next]_(IF insert = "ngx_rbtree_insert_value" THEN order ELSE <<>>)
  <2>1. insert' = insert /\ n \notin InTree
    BY <1>5 DEF InsertFirst
  <2>2. PutsByKey(Node, List, List', n, Key)
    BY <1>1, <1>5, InsertFirstKeeps, FirstPutsByKey
  <2>3. QED
    BY <1>1, <1>3, <2>1, <2>2, AddedIsNext
<1>6. ASSUME NEW n \in Node, Insert(n)
      PROVE  [Abstract!Next]_(IF insert = "ngx_rbtree_insert_value" THEN order ELSE <<>>)
  <2>1. insert' = insert
    BY <1>6 DEF Insert
  <2>2. QED
    BY <1>1, <1>2, <1>6, <2>1, InsertKeeps
<1>7. ASSUME NEW n \in Node, DeleteRoot(n) \/ DeleteOuter(n) \/ DeleteInner(n)
      PROVE  [Abstract!Next]_(IF insert = "ngx_rbtree_insert_value" THEN order ELSE <<>>)
  <2>1. insert' = insert /\ Removes(Node, List, List', n)
    BY <1>7, DeleteListed
  <2>2. QED
    BY <1>1, <1>3, <2>1, RemovedIsNext
<1>8. CASE Descend
  <2>1. insert' = insert
    BY <1>8 DEF Descend, tree
  <2>2. QED
    BY <1>1, <1>2, <1>8, <2>1, DescendKeeps
<1>9. CASE Link
  <2>1. insert' = insert
    BY <1>9 DEF Link
  <2>2. CASE ByValue
    BY <1>1, <1>9, <2>1, <2>2, LinkPutsByKey, AddedIsNext
  <2>3. QED
    BY <1>3, <2>1, <2>2
<1>10. CASE \/ InsertFlip \/ InsertRotate \/ InsertDone
            \/ DeleteRedSibling \/ DeleteFlip \/ DeleteRotate \/ DeleteDone
  BY <1>2, <1>10, LoopListed
<1>11. QED
  BY <1>4, <1>5, <1>6, <1>7, <1>8, <1>9, <1>10 DEF Next, Caller, Run

\* IsSortedList: with ngx_rbtree_insert_value a walk from left to right meets the nodes in
\* the order of a sorted list, first-in first-out among equal keys, which every insertion
\* and deletion changes at one place, and no turn of a loop does.
THEOREM TreeIsSortedList == Spec => IsSortedList
<1>1. Init => Abstract!Init /\ ListInv
  <2> SUFFICES ASSUME Init PROVE Abstract!Init /\ ListInv
    OBVIOUS
  <2>1. List = <<>> /\ ListInv
    BY InitListed
  <2>2. QED
    BY <2>1, OrderIsList DEF Abstract!Init
<1>2. ListInv /\ [Next]_vars =>
        ListInv' /\ [Abstract!Next]_(IF insert = "ngx_rbtree_insert_value" THEN order ELSE <<>>)
  BY StepListed, StepIsSorted
<1>3. QED
  BY <1>1, <1>2, PTL DEF Spec, IsSortedList, Abstract!Spec

-----------------------------------------------------------------------------
(* Iteration. *)

\* Where the loop of ngx_rbtree_next stops, and what it then returns.
ClimbStops == [m \in Node |-> m = root \/ m = child[parent[m]]["left"]]
ClimbGives == [m \in Node |-> IF m = root THEN NULL ELSE parent[m]]
ClimbGoes == [m \in Node |-> parent[m]]

ClimbUp(w, k, m) ==
  IF m = root THEN NULL
  ELSE IF k = 0 \/ m = child[parent[m]]["left"] THEN parent[m]
  ELSE w[k - 1][parent[m]]

ClimbsUp(w) == [k \in 0..Max |-> [m \in Node |-> ClimbUp(w, k, m)]]

Climb == CHOOSE w : w = ClimbsUp(w)

\* ngx_rbtree_next is a walk of TreeProof, ...
LEMMA NextIsChase ==
  ASSUME NEW n \in Node
  PROVE  ngx_rbtree_next(n) = IF child[n]["right"] # sentinel
                              THEN ngx_rbtree_min(child[n]["right"]) ELSE Climb[Max][n]
BY DEF ngx_rbtree_next, Levels, Max, Climb, ClimbsUp, ClimbUp

\* ... which ends within its budget, since the heights grow.
LEMMA ClimbEnds ==
  ASSUME TreeInv
  PROVE  ChasesTo(Climb[Max], InTree, ClimbStops, ClimbGives, ClimbGoes)
<1>1. PICK stop, out, go : stop = ClimbStops /\ out = ClimbGives /\ go = ClimbGoes
  OBVIOUS
<1>2. \E v : v = ChaseTurns(v, Node, stop, out, go, Max)
  BY MaxType, ChaseSolution
<1>3. PICK w : w = Climb
  OBVIOUS
<1>4. IsChase(w, Node, stop, out, go, Max)
  <2>1. \A v, k, m : m \in Node => ChaseTurn(v, k, m, stop, out, go) = ClimbUp(v, k, m)
    BY <1>1 DEF ChaseTurn, ClimbUp, ClimbStops, ClimbGives, ClimbGoes
  <2>2. \A v : ChaseTurns(v, Node, stop, out, go, Max) = ClimbsUp(v)
    BY <2>1 DEF ChaseTurns, ClimbsUp
  <2>3. w = ClimbsUp(w)
    BY <1>2, <1>3, <2>2 DEF Climb
  <2>4. QED
    BY <2>2, <2>3 DEF IsChase
<1>5. PICK h : Shaped(child, Par, InTree, sentinel, h, Max)
  BY MinUnfolds
<1>6. Below(child, InTree, sentinel, h) /\ \A n \in InTree : h[n] \in 1..Max
  BY <1>5 DEF Shaped
<1>7. PICK rank : rank = [m \in InTree |-> Max - h[m]]
  OBVIOUS
<1>8. Approaches(InTree, stop, go, rank, Max)
  <2> SUFFICES ASSUME NEW m \in InTree
               PROVE  /\ rank[m] \in 0..Max
                      /\ ~stop[m] => go[m] \in InTree /\ rank[go[m]] < rank[m]
    BY DEF Approaches
  <2>1. h[m] \in 1..Max /\ rank[m] = Max - h[m] /\ Max \in Nat
    BY <1>6, <1>7, MaxType
  <2>2. ASSUME ~stop[m] PROVE go[m] \in InTree /\ rank[go[m]] < rank[m]
    <3>1. PICK p : p = parent[m]
      OBVIOUS
    <3>2. m # root /\ go[m] = p /\ m \in Node
      BY <1>1, <2>2, <3>1, TreeNow DEF ClimbStops, ClimbGoes
    <3>3. p \in InTree /\ SideOf(m) \in TwoSides /\ child[p][SideOf(m)] = m /\ m # sentinel
      BY <3>1, <3>2, TreeNow DEF SideOf, TwoSides
    <3>4. h[m] < h[p] /\ h[p] \in 1..Max
      BY <1>6, <3>3 DEF Below
    <3>5. rank[p] = Max - h[p]
      BY <1>7, <3>3
    <3>6. QED
      BY <2>1, <3>2, <3>3, <3>4, <3>5
  <2>3. QED
    BY <2>1, <2>2
<1>9. InTree \in SUBSET Node
  BY TreeNow
<1>10. ChasesTo(w[Max], InTree, stop, out, go)
  BY ONLY <1>4, <1>8, <1>9, MaxType, ChaseEnds
<1>11. QED
  BY <1>1, <1>3, <1>10

\* It arrives where the climb of TreeProof does, which finds the sentinel above the root.
LEMMA ClimbHere ==
  ASSUME TreeInv
  PROVE  \E g, word :
           /\ \A n \in InTree : Climb[Max][n] = IF g[n] = sentinel THEN NULL ELSE g[n]
           /\ \A n \in InTree : word[n].parent = Par[n]
           /\ IsClimb(g, child, word, InTree, sentinel, "right")
<1>1. PICK f : f = Climb[Max]
  OBVIOUS
<1>2. ChasesTo(f, InTree, ClimbStops, ClimbGives, ClimbGoes)
  BY <1>1, ClimbEnds
<1>3. \A n \in InTree : f[n] = IF n = root THEN NULL
                              ELSE IF n = child[parent[n]]["left"] THEN parent[n] ELSE f[parent[n]]
  <2>1. InTree \subseteq Node
    BY TreeNow
  <2>2. QED
    BY <1>2, <2>1 DEF ChasesTo, ClimbStops, ClimbGives, ClimbGoes
<1>4. PICK word : word = [n \in InTree |-> [parent |-> Par[n]]]
  OBVIOUS
<1>5. PICK g : g = [n \in InTree |-> IF f[n] = NULL THEN sentinel ELSE f[n]]
  OBVIOUS
<1>6. \A n \in InTree : word[n].parent = Par[n]
  BY <1>4
<1>7. NULL # sentinel /\ \A n \in InTree : n # NULL
  BY TreeNow, NgxAssumption DEF Cell
<1>8. PICK h : Shaped(child, Par, InTree, sentinel, h, Max)
  BY MinUnfolds
<1>9. \A n \in InTree : f[n] # sentinel
  <2> DEFINE T == {n \in InTree : f[n] # sentinel}
  <2>1. ASSUME NEW n \in InTree, \A m \in InTree : h[n] < h[m] => m \in T PROVE n \in T
    <3>1. CASE n = root
      BY <1>3, <1>7, <3>1
    <3>2. CASE n # root
      <4>1. PICK p, d : p = parent[n] /\ d = SideOf(n)
        OBVIOUS
      <4>2. p \in InTree /\ p # sentinel /\ child[p][d] = n /\ n # sentinel /\ d \in TwoSides
        BY <3>2, <4>1, TreeNow DEF SideOf, TwoSides
      <4>3. h[n] < h[p]
        BY <1>8, <4>2 DEF Shaped, Below
      <4>4. f[p] # sentinel
        BY <2>1, <4>2, <4>3
      <4>5. QED
        BY <1>3, <3>2, <4>1, <4>2, <4>4
    <3>3. QED
      BY <3>1, <3>2
  <2>2. InTree \subseteq T
    <3> HIDE DEF T
    <3>1. \A n \in InTree : (\A m \in InTree : h[n] < h[m] => m \in T) => n \in T
      BY <2>1
    <3>2. QED
      BY <1>8, <3>1, MaxType, DownwardInduction DEF Shaped
  <2>3. QED
    BY <2>2
<1>10. ASSUME NEW n \in InTree
       PROVE  g[n] = IF Par[n] = sentinel \/ child[Par[n]]["right"] # n THEN Par[n] ELSE g[Par[n]]
  <2>1. CASE n = root
    BY <1>3, <1>5, <1>7, <2>1, TreeNow
  <2>2. CASE n # root
    <3>1. PICK p : p = parent[n]
      OBVIOUS
    <3>2. p \in InTree /\ Par[n] = p /\ p # sentinel /\ p # NULL /\ n # sentinel
      BY <1>7, <2>2, <3>1, TreeNow
    <3>3. n = child[p]["left"] <=> child[p]["right"] # n
      <4>1. child[p][SideOf(n)] = n /\ SideOf(n) \in {"left", "right"}
        BY <2>2, <3>1, TreeNow DEF SideOf
      <4>2. \A d \in Side : child[p][d] # sentinel => SideOf(child[p][d]) = d
        BY <3>2, SideOfChild
      <4>3. QED
        BY <3>2, <4>1, <4>2, SidesAgree
    <3>4. f[n] = IF n = child[p]["left"] THEN p ELSE f[p]
      BY <1>3, <2>2, <3>1
    <3>5. QED
      BY <1>5, <3>2, <3>3, <3>4
  <2>3. QED
    BY <2>1, <2>2
<1>11. IsClimb(g, child, word, InTree, sentinel, "right")
  BY <1>6, <1>10 DEF IsClimb
<1>12. \A n \in InTree : Climb[Max][n] = IF g[n] = sentinel THEN NULL ELSE g[n]
  BY <1>1, <1>5, <1>9
<1>13. QED
  BY <1>6, <1>11, <1>12

\* The node that ngx_rbtree_next returns is next to n in the list.
LEMMA NextHere ==
  ASSUME TreeInv, NEW at \in DOMAIN List
  PROVE  ngx_rbtree_next(List[at]) = IF at = Len(List) THEN NULL ELSE List[at + 1]
<1>1. PICK g, word :
        /\ \A n \in InTree : Climb[Max][n] = IF g[n] = sentinel THEN NULL ELSE g[n]
        /\ \A n \in InTree : word[n].parent = Par[n]
        /\ IsClimb(g, child, word, InTree, sentinel, "right")
  BY ClimbHere
<1>2. PICK f, h : /\ \A n : ngx_rbtree_min(n) = f[n]
                  /\ IsDeepest(f, child, InTree, sentinel, "left")
                  /\ Shaped(child, Par, InTree, sentinel, h, Max)
  BY MinUnfolds
<1>3. PICK S, w, s : S = InTree /\ w = Walk(child) /\ s = w[root]
  OBVIOUS
<1>4. /\ Shaped(child, Par, S, sentinel, h, Max) /\ Rooted(child, Par, root, S, sentinel)
      /\ IsInOrder(w, child, S, sentinel) /\ sentinel \notin S
      /\ IsDeepest(f, child, S, sentinel, "left")
      /\ IsClimb(g, child, word, S, sentinel, "right")
      /\ \A n \in S : word[n].parent = Par[n]
  BY <1>1, <1>2, <1>3, TreeNow, PlantedIsWalked DEF TreeInv, Par
<1>5. "left" \in TwoSides /\ "right" \in TwoSides /\ Across("right") = "left"
  BY DEF TwoSides, Across
<1>6. IsOutermost(f, w, S, Across("right"))
  <2>1. IsOutermost(f, w, S, "left")
    BY <1>4, <1>5, MaxType, DeepestIsOutermost
  <2>2. QED
    BY <1>5, <2>1
<1>7. IsBefore(g, w, s, S, "right", sentinel)
  <2>1. IsBefore(g, w, w[root], S, "right", sentinel)
    BY <1>4, <1>5, MaxType, ClimbIsBefore
  <2>2. QED
    BY <1>3, <2>1
<1>8. PICK n : n = s[at]
  OBVIOUS
<1>9. s = List
  BY <1>3 DEF List
<1>10. at \in DOMAIN s /\ Distinct(s) /\ n \in S /\ n \in Node
  BY <1>3, <1>8, <1>9, ListNow, TreeNow DEF Elements
<1>11. s \in Seq(S)
  BY <1>3, <1>4, NodesUnfold, MaxType DEF Rooted
<1>12. PICK v : v = IF child[n]["right"] # sentinel THEN f[child[n]["right"]] ELSE g[n]
  OBVIOUS
<1>13. IsNeighbour(v, s, n, S, "right", sentinel)
  BY <1>4, <1>5, <1>6, <1>7, <1>10, <1>12, MaxType, NeighbourIsBefore
<1>14. Adjoins(s, at, "right", v, sentinel)
  <2>1. Before(S, s, "right", <<n>>, v, sentinel)
    BY <1>13 DEF IsNeighbour
  <2>2. QED
    BY <1>8, <1>10, <1>11, <2>1, NeighbourAdjoins
<1>15. v = IF at = Len(s) THEN sentinel ELSE s[at + 1]
  BY <1>14 DEF Adjoins
<1>16. at # Len(s) => s[at + 1] \in S
  BY <1>10, <1>11
<1>17. f[child[n]["right"]] # sentinel \/ child[n]["right"] = sentinel
  <2> SUFFICES ASSUME child[n]["right"] # sentinel PROVE f[child[n]["right"]] # sentinel
    OBVIOUS
  <2>1. child[n]["right"] \in S
    BY <1>3, <1>10, TreeNow, SidesAgree
  <2>2. f[child[n]["right"]] \in S
    BY <1>5, <1>6, <2>1 DEF IsOutermost, Outermost
  <2>3. QED
    BY <1>4, <2>2
<1>18. ngx_rbtree_next(n) = IF v = sentinel THEN NULL ELSE v
  BY <1>1, <1>2, <1>3, <1>10, <1>12, <1>17, NextIsChase
<1>19. QED
  BY <1>4, <1>8, <1>9, <1>15, <1>16, <1>18

\* Where ngx_rbtree_min arrives from the root.
LEMMA FirstHere ==
  ASSUME TreeInv, root # sentinel
  PROVE  ngx_rbtree_min(root) = List[1]
<1>1. PICK f, h : /\ \A n : ngx_rbtree_min(n) = f[n]
                  /\ IsDeepest(f, child, InTree, sentinel, "left")
                  /\ Shaped(child, Par, InTree, sentinel, h, Max)
  BY MinUnfolds
<1>2. PICK w : w = Walk(child)
  OBVIOUS
<1>3. IsInOrder(w, child, InTree, sentinel)
  BY <1>2, TreeNow, PlantedIsWalked DEF TreeInv
<1>4. "left" \in TwoSides /\ root \in InTree
  BY TreeNow, BothSides
<1>5. IsOutermost(f, w, InTree, "left")
  BY <1>1, <1>3, <1>4, MaxType, DeepestIsOutermost
<1>6. Outermost(InTree, w[root], "left", f[root]) /\ w[root] \in Seq(InTree)
  BY <1>3, <1>4, <1>5 DEF IsOutermost, IsInOrder
<1>7. Ends(w[root], "left", f[root])
  BY <1>6, OutermostEnds
<1>8. QED
  BY <1>1, <1>2, <1>7 DEF Ends, List

\* NextAgrees: ngx_rbtree_min and ngx_rbtree_next visit the nodes that are in the tree from
\* left to right and then return NULL.
THEOREM NextAlwaysAgrees == Spec => []NextAgrees
<1>1. TreeInv => NextAgrees
  <2> SUFFICES ASSUME TreeInv
               PROVE  /\ InTree = {order[i] : i \in DOMAIN order}
                      /\ root # sentinel => ngx_rbtree_min(root) = order[1]
                      /\ \A i \in DOMAIN order :
                           ngx_rbtree_next(order[i]) = IF i = Len(order) THEN NULL ELSE order[i + 1]
    BY DEF NextAgrees
  <2>1. order = List /\ Elements(List) = InTree
    BY OrderIsList, ListNow
  <2>2. InTree = {order[i] : i \in DOMAIN order}
    BY <2>1 DEF Elements
  <2>3. root # sentinel => ngx_rbtree_min(root) = order[1]
    BY <2>1, FirstHere
  <2>4. \A i \in DOMAIN order :
          ngx_rbtree_next(order[i]) = IF i = Len(order) THEN NULL ELSE order[i + 1]
    BY <2>1, NextHere
  <2>5. QED
    BY <2>2, <2>3, <2>4
<1>2. QED
  BY <1>1, TreeInvariant, PTL
=============================================================================
