---------------------------- MODULE LibuvRbtree ----------------------------
(***************************************************************************)
(* The red-black tree that the macros of c/libuv/tree.h generate:          *)
(* RB_INSERT, which returns the element it finds in its way, and RB_REMOVE *)
(* which moves the successor of an element with two children into its      *)
(* place and then repairs from the local variables parent and elm.         *)
(* RB_AUGMENT is left empty, as the header does.                           *)
(*                                                                         *)
(* An action is the straight code before a loop or one turn of a loop; d   *)
(* is the side of the first of the two mirrored copies of each case.  The  *)
(* descent that ends RB_REMOVE's search for a successor only reads, and is *)
(* part of the action it belongs to.                                       *)
(***************************************************************************)
EXTENDS Integers, Sequences, FiniteSets

CONSTANTS Node,  \* the elements the callers own
          NULL,
          Key    \* the key of each of them

ASSUME LibuvAssumption == NULL \notin Node /\ Key \in [Node -> Int]

\* The walks have a budget of levels, so there must be a number of them.
ASSUME FiniteNodes == IsFiniteSet(Node)

VARIABLES
  rbh_root,
  rbe_child,   \* rbe_left and rbe_right
  rbe_parent,
  rbe_color,
  pc,          \* the loop that runs
  elm,         \* the local variables of that loop
  parent,
  tmp

tree == <<rbh_root, rbe_child, rbe_parent, rbe_color>>
vars == <<tree, pc, elm, parent, tmp>>

INSTANCE RBShape WITH Nil <- NULL

TypeOK ==
  /\ rbh_root \in NodeOrNil
  /\ rbe_child \in [Node -> [Side -> NodeOrNil]]
  /\ rbe_parent \in [Node -> NodeOrNil]
  /\ rbe_color \in [Node -> {"red", "black"}]
  /\ pc \in {"idle", "descend", "insert_color", "remove_color"}
  /\ elm \in IF pc \in {"descend", "insert_color"} THEN Node ELSE NodeOrNil
  /\ {parent, tmp} \subseteq NodeOrNil

cmp(e, f) == IF Key[e] < Key[f] THEN -1 ELSE IF Key[e] > Key[f] THEN 1 ELSE 0

order == InOrder(rbe_child, rbh_root)
InTree == LET walk == order IN {walk[i] : i \in DOMAIN walk}

black == {n \in Node : rbe_color[n] = "black"}
IsRed(n) == n # NULL /\ rbe_color[n] = "red"

-----------------------------------------------------------------------------
(* Stores that several operations make. *)

memory == [root |-> rbh_root, child |-> rbe_child, parent |-> rbe_parent]

Becomes(t) == rbh_root' = t.root /\ rbe_child' = t.child /\ rbe_parent' = t.parent

\* if (n) RB_PARENT(n) = p
Adopt(t, n, p) == IF n = NULL THEN t ELSE [t EXCEPT !.parent[n] = p]

\* What pointed to old points to new: the left or else the right pointer of p, or the root.
Hang(t, p, old, new) ==
  IF p = NULL THEN [t EXCEPT !.root = new]
  ELSE [t EXCEPT !.child[p][IF t.child[p]["left"] = old THEN "left" ELSE "right"] = new]

\* RB_ROTATE_LEFT for d = "left", RB_ROTATE_RIGHT for "right".
RB_ROTATE(t, n, d) ==
  LET o == Opposite(d)
      up == t.child[n][o]
      p == t.parent[n]
      across == Adopt([t EXCEPT !.child[n][o] = t.child[up][d]], t.child[up][d], n)
  IN  [Hang([across EXCEPT !.parent[up] = p], p, n, up)
        EXCEPT !.child[up][d] = n, !.parent[n] = up]

Return == pc' = "idle" /\ elm' = NULL /\ parent' = NULL /\ tmp' = NULL

-----------------------------------------------------------------------------
(* RB_INSERT and RB_INSERT_COLOR *)

\* Of any element, one that is in the tree already too.
RB_INSERT(n) ==
  /\ pc = "idle"
  /\ pc' = "descend"
  /\ elm' = n
  /\ parent' = NULL
  /\ tmp' = rbh_root
  /\ UNCHANGED tree

Descend ==
  /\ pc = "descend"
  /\ tmp # NULL
  /\ cmp(elm, tmp) # 0
  /\ parent' = tmp
  /\ tmp' = rbe_child[tmp][IF cmp(elm, tmp) < 0 THEN "left" ELSE "right"]
  /\ UNCHANGED <<tree, pc, elm>>

\* An element with the same key is in the tree; it is returned.
Hit ==
  /\ pc = "descend"
  /\ tmp # NULL
  /\ cmp(elm, tmp) = 0
  /\ Return
  /\ UNCHANGED tree

\* Mutant: the comparison is the one with the root.
LinkSideOfRoot == IF cmp(elm, rbh_root) < 0 THEN "left" ELSE "right"

\* The side of the last comparison.
LinkSide == IF cmp(elm, parent) < 0 THEN "left" ELSE "right"

Link ==
  /\ pc = "descend"
  /\ tmp = NULL
  /\ rbe_parent' = [rbe_parent EXCEPT ![elm] = parent]
  /\ rbe_color' = [rbe_color EXCEPT ![elm] = "red"]
  /\ LET ch == [rbe_child EXCEPT ![elm] = Leaf]
     IN  rbe_child' = IF parent = NULL THEN ch ELSE [ch EXCEPT ![parent][LinkSide] = elm]
  /\ rbh_root' = IF parent = NULL THEN elm ELSE rbh_root
  /\ pc' = "insert_color"
  /\ parent' = NULL
  /\ UNCHANGED <<elm, tmp>>

gparent == rbe_parent[rbe_parent[elm]]
ParentSide == IF rbe_parent[elm] = rbe_child[gparent]["left"] THEN "left" ELSE "right"
Uncle == rbe_child[gparent][Opposite(ParentSide)]

\* Mutant: the loop does nothing in its second half.
InsertGoesOnLeft ==
  pc = "insert_color" /\ IsRed(rbe_parent[elm]) /\ ParentSide = "left"

\* The condition of the loop; its parent and gparent are fetched anew at each turn.
InsertGoesOn == pc = "insert_color" /\ IsRed(rbe_parent[elm])

\* A red uncle: the colors change, and the loop goes on at the grandparent.
InsertFlip ==
  /\ InsertGoesOn
  /\ IsRed(Uncle)
  /\ rbe_color' = [rbe_color EXCEPT ![Uncle] = "black",
                                    ![rbe_parent[elm]] = "black",
                                    ![gparent] = "red"]
  /\ elm' = gparent
  /\ UNCHANGED <<rbh_root, rbe_child, rbe_parent, pc, parent, tmp>>

\* Any other uncle: one or two rotations.
InsertRotate ==
  /\ InsertGoesOn
  /\ ~IsRed(Uncle)
  /\ LET d == ParentSide
         p == rbe_parent[elm]
         inner == rbe_child[p][Opposite(d)] = elm
     IN  /\ elm' = IF inner THEN p ELSE elm
         /\ rbe_color' = [rbe_color EXCEPT ![IF inner THEN elm ELSE p] = "black",
                                           ![gparent] = "red"]
         /\ Becomes(RB_ROTATE(IF inner THEN RB_ROTATE(memory, p, d) ELSE memory,
                              gparent, Opposite(d)))
  /\ UNCHANGED <<pc, parent, tmp>>

InsertDone ==
  /\ pc = "insert_color"
  /\ ~InsertGoesOn
  /\ rbe_color' = [rbe_color EXCEPT ![rbh_root] = "black"]
  /\ Return
  /\ UNCHANGED <<rbh_root, rbe_child, rbe_parent>>

-----------------------------------------------------------------------------
(* RB_REMOVE and RB_REMOVE_COLOR *)

\* RB_MINMAX below r: the last element on the way to side d.
Deepest(r, d) ==
  LET walk[k \in Levels] == [n \in Node |->
        IF k = 0 \/ rbe_child[n][d] = NULL THEN n ELSE walk[k - 1][rbe_child[n][d]]]
  IN  IF r = NULL THEN NULL ELSE walk[Cardinality(Node)][r]

\* The fields of an element outside of the tree are written before they are read again;
\* black and null stand for whatever they are.
Forget(t, n, col) ==
  /\ Becomes([t EXCEPT !.child[n] = Leaf, !.parent[n] = NULL])
  /\ rbe_color' = [col EXCEPT ![n] = "black"]

\* The label color: a red element leaves nothing to repair.
Repair(color, p, c) ==
  /\ pc' = IF color = "black" THEN "remove_color" ELSE "idle"
  /\ elm' = IF color = "black" THEN c ELSE NULL
  /\ parent' = IF color = "black" THEN p ELSE NULL
  /\ UNCHANGED tmp

\* An element that has at most one child.
RemoveOuter(n) ==
  /\ pc = "idle"
  /\ NULL \in {rbe_child[n][d] : d \in Side}
  /\ LET c == rbe_child[n][IF rbe_child[n]["left"] = NULL THEN "right" ELSE "left"]
         p == rbe_parent[n]
     IN  /\ Forget(Hang(Adopt(memory, c, p), p, n, c), n, rbe_color)
         /\ Repair(rbe_color[n], p, c)

\* Mutant: the fixup starts at the parent that the successor had.
FixupParentAsIs(s, n) == rbe_parent[s]

\* parent = elm, when the parent is the element that goes away.
FixupParent(s, n) == IF rbe_parent[s] = n THEN s ELSE rbe_parent[s]

\* The successor takes the place and the fields of an element that has two children.
RemoveInner(n) ==
  /\ pc = "idle"
  /\ NULL \notin {rbe_child[n][d] : d \in Side}
  /\ LET s == Deepest(rbe_child[n]["right"], "left")
         c == rbe_child[s]["right"]
         p == rbe_parent[s]
         t == Hang(Adopt(memory, c, p), p, s, c)
         u == Hang([t EXCEPT !.child[s] = t.child[n], !.parent[s] = t.parent[n]],
                   t.parent[n], n, s)
     IN  /\ Forget(Adopt(Adopt(u, t.child[n]["left"], s), t.child[n]["right"], s), n,
                   [rbe_color EXCEPT ![s] = rbe_color[n]])
         /\ Repair(rbe_color[s], FixupParent(s, n), c)

\* The condition of the loop, and what a turn looks at.
RemoveGoesOn == pc = "remove_color" /\ ~IsRed(elm) /\ elm # rbh_root

ElmSide == IF rbe_child[parent]["left"] = elm THEN "left" ELSE "right"
Sibling == rbe_child[parent][Opposite(ElmSide)]

\* A turn reads the fields of a sibling unchecked: without one, the program is lost.
RemoveTurn == RemoveGoesOn /\ Sibling # NULL

Near == rbe_child[Sibling][ElmSide]
Far == rbe_child[Sibling][Opposite(ElmSide)]

NephewsAreBlack == ~IsRed(Near) /\ ~IsRed(Far)

\* A red sibling: a rotation brings a black one, and the same turn goes on with that.
RemoveRedSibling ==
  /\ RemoveTurn
  /\ IsRed(Sibling)
  /\ rbe_color' = [rbe_color EXCEPT ![Sibling] = "black", ![parent] = "red"]
  /\ Becomes(RB_ROTATE(memory, parent, ElmSide))
  /\ UNCHANGED <<pc, elm, parent, tmp>>

\* No red nephew: the sibling becomes red, and the loop goes on at the parent.
RemoveFlip ==
  /\ RemoveTurn
  /\ ~IsRed(Sibling)
  /\ NephewsAreBlack
  /\ rbe_color' = [rbe_color EXCEPT ![Sibling] = "red"]
  /\ elm' = parent
  /\ parent' = rbe_parent[parent]
  /\ UNCHANGED <<rbh_root, rbe_child, rbe_parent, pc, tmp>>

\* Mutant: the sibling turns black, whatever the parent was.
UpperColorBlack == "black"

\* The color that the sibling takes.
UpperColor == rbe_color[parent]

\* A red nephew: one or two rotations, and the loop ends.
RemoveRotate ==
  /\ RemoveTurn
  /\ ~IsRed(Sibling)
  /\ ~NephewsAreBlack
  /\ LET d == ElmSide
         o == Opposite(d)
         t == IF IsRed(Far) THEN memory ELSE RB_ROTATE(memory, Sibling, o)
         s == t.child[parent][o]
         col == IF IsRed(Far) THEN rbe_color
                ELSE [rbe_color EXCEPT ![Near] = "black", ![Sibling] = "red"]
     IN  /\ rbe_color' = [n \in Node |->
              IF n = s THEN UpperColor
              ELSE IF n \in {parent, t.child[s][o]} THEN "black" ELSE col[n]]
         /\ Becomes(RB_ROTATE(t, parent, d))
         /\ elm' = RB_ROTATE(t, parent, d).root
  /\ UNCHANGED <<pc, parent, tmp>>

RemoveDone ==
  /\ pc = "remove_color"
  /\ ~RemoveGoesOn
  /\ rbe_color' = IF elm = NULL THEN rbe_color ELSE [rbe_color EXCEPT ![elm] = "black"]
  /\ Return
  /\ UNCHANGED <<rbh_root, rbe_child, rbe_parent>>

-----------------------------------------------------------------------------
(* Lookups: they change nothing and return an element or NULL. *)

\* The way that RB_FIND and RB_NFIND go; the result so far is the last element at which
\* the way turned to one of the sides.
Search(key, sides) ==
  LET walk[k \in Levels] == [n \in NodeOrNil |-> [res \in NodeOrNil |->
        IF k = 0 \/ n = NULL THEN res
        ELSE IF cmp(key, n) = 0 THEN n
        ELSE LET d == IF cmp(key, n) < 0 THEN "left" ELSE "right"
             IN  walk[k - 1][rbe_child[n][d]][IF d \in sides THEN n ELSE res]]]
  IN  walk[Cardinality(Node)][rbh_root][NULL]

RB_FIND(key) == Search(key, {})

\* Mutant: the last element on the way, smaller ones too.
RB_NFIND_last(key) == Search(key, {"left", "right"})

RB_NFIND(key) == Search(key, {"left"})

RB_MIN == Deepest(rbh_root, "left")
RB_MAX == Deepest(rbh_root, "right")

\* The first ancestor that n is not below on side d.
Climb(n, d) ==
  LET walk[k \in Levels] == [m \in Node |->
        LET p == rbe_parent[m]
        IN  IF k = 0 \/ p = NULL \/ m # rbe_child[p][d] THEN p ELSE walk[k - 1][p]]
  IN  walk[Cardinality(Node)][n]

Neighbour(n, d) ==
  IF rbe_child[n][d] # NULL THEN Deepest(rbe_child[n][d], Opposite(d)) ELSE Climb(n, d)

RB_NEXT(n) == Neighbour(n, "right")
RB_PREV(n) == Neighbour(n, "left")

-----------------------------------------------------------------------------
\* RB_INIT; the elements are not in the tree yet.
Init ==
  /\ rbh_root = NULL
  /\ rbe_child = [n \in Node |-> Leaf]
  /\ rbe_parent = [n \in Node |-> NULL]
  /\ rbe_color = [n \in Node |-> "black"]
  /\ pc = "idle"
  /\ elm = NULL
  /\ parent = NULL
  /\ tmp = NULL

\* Of an element that is in the tree; RB_REMOVE does not look for it.
RB_REMOVE(n) == RemoveOuter(n) \/ RemoveInner(n)

Caller == (\E n \in Node : RB_INSERT(n)) \/ (\E n \in InTree : RB_REMOVE(n))

Run ==
  \/ Descend \/ Hit \/ Link \/ InsertFlip \/ InsertRotate \/ InsertDone
  \/ RemoveRedSibling \/ RemoveFlip \/ RemoveRotate \/ RemoveDone

Next == Caller \/ Run

Spec == Init /\ [][Next]_vars

-----------------------------------------------------------------------------
(* Properties. *)

\* At every turn of every loop each child names its parent and the root has none; and a
\* repair stands where its local variable says: elm, NULL perhaps, hangs below parent,
\* although RB_REMOVE moved elements after it read parent from the tree.
LinksAgree ==
  /\ \A n \in InTree, d \in Side :
       rbe_child[n][d] # NULL => rbe_parent[rbe_child[n][d]] = n
  /\ rbh_root # NULL => rbe_parent[rbh_root] = NULL
  /\ RemoveGoesOn => parent \in InTree /\ elm \in {rbe_child[parent][d] : d \in Side}

WellLinked == TypeOK /\ LinksAgree

\* Whenever no loop is repairing the tree, it is a red-black tree.
RedBlackAtRest == pc \in {"idle", "descend"} => IsRedBlack(rbe_child, black, rbh_root)

\* What both loops keep at each turn: an insertion has at most one red element with a
\* red parent, elm, and a grandparent above it; a removal is short of one black element
\* above elm at most, so there is a sibling, which the loop reads unchecked.
LoopInvariants ==
  /\ pc = "insert_color" =>
       /\ NoRedRed(rbe_child, black \cup {elm}, rbh_root)
       /\ Balanced(rbe_child, black, rbh_root, NoSlot)
       /\ InsertGoesOn => gparent \in black
  /\ pc = "remove_color" =>
       /\ NoRedRed(rbe_child, black \cup {elm}, rbh_root)
       /\ RemoveGoesOn => Sibling # NULL
       /\ Balanced(rbe_child, black \cup {elm}, rbh_root,
                   IF RemoveGoesOn THEN <<parent, ElmSide>> ELSE NoSlot)

\* The colors are right, or as wrong as the running loop takes them to be.
RedBlackThroughout == RedBlackAtRest /\ LoopInvariants

Height(r) ==
  LET walk[k \in Levels, n \in NodeOrNil] ==
        IF n = NULL \/ k = 0 THEN 0
        ELSE LET l == walk[k - 1, rbe_child[n]["left"]]
                 m == walk[k - 1, rbe_child[n]["right"]]
             IN  1 + IF l < m THEN m ELSE l
  IN  walk[Cardinality(Node), r]

\* tree.h:46: the maximum height of a red-black tree is 2lg(n + 1), so that the descents
\* and climbs of every operation are no longer; in the middle of a repair, too.
HeightBound == 2 ^ Height(rbh_root) =< (Len(order) + 1) ^ 2

\* RB_FIND finds the element that has the key, RB_NFIND the first one that is not
\* smaller; RB_MIN, RB_MAX, RB_NEXT and RB_PREV are the ends and neighbours in the order
\* of the keys.  The rebalancing loops are no exception.
LookupsAgree ==
  LET walk == order
      At(i) == IF i \in DOMAIN walk THEN walk[i] ELSE NULL
      Ceiling(k) == At(1 + Cardinality({i \in DOMAIN walk : Key[walk[i]] < k}))
  IN  /\ \A n \in Node :
           /\ RB_NFIND(n) = Ceiling(Key[n])
           /\ RB_FIND(n) = IF \E i \in DOMAIN walk : Key[walk[i]] = Key[n]
                            THEN Ceiling(Key[n]) ELSE NULL
      /\ RB_MIN = At(1) /\ RB_MAX = At(Len(walk))
      /\ \A i \in DOMAIN walk : RB_NEXT(walk[i]) = At(i + 1) /\ RB_PREV(walk[i]) = At(i - 1)

\* The tree is a sorted list without two equal keys: every insertion of a new key and
\* every removal is one step of the list, and no rebalancing step changes it.
Abstract == INSTANCE SortedList WITH list <- order
IsSortedSet == Abstract!SetSpec
=============================================================================
