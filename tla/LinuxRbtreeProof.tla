-------------------------- MODULE LinuxRbtreeProof --------------------------
(***************************************************************************)
(* Theorems about LinuxRbtree, for every set of nodes and every assignment *)
(* of keys.                                                                *)
(***************************************************************************)
EXTENDS LinuxRbtree, TLAPS

(***************************************************************************)
(* The inductive invariant IInv.  Walks and path lengths are recursive;    *)
(* what they say of a whole tree is said here node by node, by a labelling *)
(* B of the nodes that each node satisfies against its children:           *)
(*   - B[n] is the number of black nodes on every path from n down to a    *)
(*     null pointer (Labels), one more below the short side of an erasure; *)
(*   - the rank of n, twice B[n] and one more if n is red, goes down from  *)
(*     every parent to its child, so that no chain of pointers is a loop.  *)
(***************************************************************************)

\* LinksAgree, and that a child is not its own parent and hangs below a linked node.
Links ==
  /\ rb_node # NULL => rb_parent(rb_node) = NULL
  /\ \A n \in Node, d \in Side :
       LET c == rb_child[n][d]
       IN  c # NULL => /\ rb_parent(c) = n
                       /\ c # n
                       /\ ~RB_EMPTY_NODE(n)
                       /\ rb_child[n][Opposite(d)] # c
  /\ \A n \in Node : ~RB_EMPTY_NODE(n) =>
       IF rb_parent(n) = NULL THEN rb_node = n
       ELSE \E d \in Side : rb_child[rb_parent(n)][d] = n

\* A red node has a black parent, but the node an insertion works on.
Colors ==
  \A n \in Node : ~RB_EMPTY_NODE(n) /\ ~rb_is_black(n) =>
    \/ rb_parent(n) # NULL /\ rb_is_black(rb_parent(n))
    \/ pc = "insert" /\ n = node

\* The number of black nodes below a pointer, that of a node itself, and the one
\* that the paths through the short side of an erasure lack.
Down(B, n) == IF n = NULL THEN 0 ELSE B[n]
Own(n) == IF rb_is_black(n) THEN 1 ELSE 0
Short(n, d) ==
  IF pc = "erase_color" /\ n = parent /\ d = SideOf(node, parent) THEN 1 ELSE 0
Rank(B, n) == 2 * B[n] + (IF rb_is_black(n) THEN 0 ELSE 1)

Labels(B) ==
  /\ \A n \in Node : ~RB_EMPTY_NODE(n) =>
       \A d \in Side : B[n] = Own(n) + Down(B, rb_child[n][d]) + Short(n, d)
  /\ pc = "successor" => Rank(B, successor) < Rank(B, node) /\ Rank(B, parent) < Rank(B, node)

\* What the local variables stand for in each loop.
Locals ==
  /\ pc = "idle" => node = NULL
  /\ pc \in {"add", "find_add"} =>
       /\ node \in Node
       /\ RB_EMPTY_NODE(node)
       /\ parent # NULL => ~RB_EMPTY_NODE(parent)
  /\ pc = "insert" =>
       /\ node \in Node
       /\ ~RB_EMPTY_NODE(node)
       /\ ~rb_is_black(node)
       /\ parent = rb_parent(node)
  /\ pc = "successor" =>
       /\ node \in Node
       /\ ~RB_EMPTY_NODE(node)
       /\ \A d \in Side : rb_child[node][d] # NULL
       /\ successor \in Node
       /\ ~RB_EMPTY_NODE(successor)
       /\ parent \in Node
       /\ \/ parent = successor /\ rb_child[node]["right"] = successor
          \/ parent # successor /\ rb_child[parent]["left"] = successor
  /\ pc = "erase_color" =>
       /\ parent \in Node
       /\ ~RB_EMPTY_NODE(parent)
       /\ rb_child[parent][SideOf(node, parent)] = node
       /\ node # NULL => rb_is_black(node)

\* An erasure has rotated at most once before its last turn, and then below a red
\* parent: the second Case 1 that would break the bound is impossible.
Rotations ==
  IF pc = "idle" THEN rotations =< 3
  ELSE rotations = 0 \/ (pc = "erase_color" /\ rotations = 1 /\ ~rb_is_black(parent))

IInv ==
  /\ TypeOK
  /\ Links
  /\ Colors
  /\ Locals
  /\ Rotations
  /\ \E B \in [Node -> Nat] : Labels(B)

\* The two sides, and that they are opposite.
LEMMA Sides ==
  /\ Side = {"left", "right"}
  /\ Opposite("left") = "right"
  /\ Opposite("right") = "left"
  /\ \A d \in Side : Opposite(d) \in Side /\ Opposite(d) # d /\ Opposite(Opposite(d)) = d
  /\ \A d, e \in Side : e = d \/ e = Opposite(d)
BY DEF Side, Opposite

\* An empty root and cleared nodes satisfy the invariant.
LEMMA InitIInv == Init => IInv
<1> SUFFICES ASSUME Init PROVE IInv
  OBVIOUS
<1> USE NodeAssumption DEF Init
<1>1. TypeOK
  BY DEF TypeOK, NodeOrNil, Leaf, Side, ClearWord, Word, Color
<1>2. \A n \in Node : RB_EMPTY_NODE(n)
  BY DEF RB_EMPTY_NODE, rb_parent, ClearWord, Word
<1>3. Links
  BY <1>2 DEF Links, Leaf, Side
<1>4. Colors
  BY <1>2 DEF Colors
<1>5. Locals
  BY DEF Locals
<1>6. Rotations
  BY DEF Rotations
<1>7. Labels([n \in Node |-> 0])
  BY <1>2 DEF Labels
<1>8. QED
  BY <1>1, <1>3, <1>4, <1>5, <1>6, <1>7 DEF IInv

\* The descent stores nothing.
LEMMA StartKeepsIInv ==
  ASSUME IInv, NEW n \in Node, NEW how \in {"add", "find_add"}, StartDescent(n, how)
  PROVE  IInv'
<1> USE NodeAssumption DEF StartDescent, tree, RB_EMPTY_NODE, rb_parent, rb_is_red, rb_is_black
<1>1. TypeOK'
  BY DEF IInv, TypeOK, NodeOrNil, Side
<1>2. Links'
  BY DEF IInv, Links
<1>3. Colors'
  BY DEF IInv, Colors
<1>4. Locals'
  BY DEF IInv, Locals
<1>5. Rotations'
  BY DEF Rotations
<1>6. \E B \in [Node -> Nat] : Labels(B)'
  BY DEF IInv, Labels, Own, Short
<1>7. QED
  BY <1>1, <1>2, <1>3, <1>4, <1>5, <1>6 DEF IInv

\* rb_find_add returns the node it met and stores nothing.
LEMMA FindAddHitKeepsIInv ==
  ASSUME IInv, FindAddHit
  PROVE  IInv'
<1> USE NodeAssumption DEF FindAddHit, Return, tree, RB_EMPTY_NODE, rb_parent, rb_is_red, rb_is_black
<1>1. TypeOK'
  BY DEF IInv, TypeOK, NodeOrNil, Side
<1>2. Links'
  BY DEF IInv, Links
<1>3. Colors'
  BY DEF IInv, Colors
<1>4. Locals'
  BY DEF IInv, Locals
<1>5. Rotations'
  BY DEF IInv, TypeOK, Rotations
<1>6. \E B \in [Node -> Nat] : Labels(B)'
  BY DEF IInv, Labels, Own, Short
<1>7. QED
  BY <1>1, <1>2, <1>3, <1>4, <1>5, <1>6 DEF IInv

\* What the descent meets is a node of the tree.
LEMMA SlotIsLinked ==
  ASSUME IInv, parent # NULL => ~RB_EMPTY_NODE(parent), Slot(parent, dir) # NULL
  PROVE  Slot(parent, dir) \in Node /\ ~RB_EMPTY_NODE(Slot(parent, dir))
BY NodeAssumption DEF IInv, TypeOK, Links, Slot, NodeOrNil, Side, RB_EMPTY_NODE, rb_parent

\* One level of the descent stores nothing.
LEMMA DescendKeepsIInv ==
  ASSUME IInv, Descend
  PROVE  IInv'
<1> USE NodeAssumption DEF Descend, tree, RB_EMPTY_NODE, rb_parent, rb_is_red, rb_is_black
<1>0. Slot(parent, dir) \in Node /\ ~RB_EMPTY_NODE(Slot(parent, dir))
  BY SlotIsLinked DEF IInv, Locals
<1>1. TypeOK'
  BY <1>0 DEF IInv, TypeOK, NodeOrNil, Side
<1>2. Links'
  BY DEF IInv, Links
<1>3. Colors'
  BY DEF IInv, Colors
<1>4. Locals'
  BY <1>0 DEF IInv, Locals
<1>5. Rotations'
  BY DEF IInv, Rotations
<1>6. \E B \in [Node -> Nat] : Labels(B)'
  BY DEF IInv, Labels, Own, Short
<1>7. QED
  BY <1>1, <1>2, <1>3, <1>4, <1>5, <1>6 DEF IInv

\* __rb_insert stops below a black parent: no two reds meet any more.
LEMMA InsertDoneKeepsIInv ==
  ASSUME IInv, InsertDone
  PROVE  IInv'
<1> USE NodeAssumption DEF InsertDone, Return, tree, RB_EMPTY_NODE, rb_parent, rb_is_red, rb_is_black
<1>1. TypeOK'
  BY DEF IInv, TypeOK, NodeOrNil, Side
<1>2. Links'
  BY DEF IInv, Links
<1>3. Colors'
  BY DEF IInv, Colors, Locals
<1>4. Locals'
  BY DEF IInv, Locals
<1>5. Rotations'
  BY DEF IInv, TypeOK, Rotations
<1>6. \E B \in [Node -> Nat] : Labels(B)'
  BY DEF IInv, Labels, Own, Short
<1>7. QED
  BY <1>1, <1>2, <1>3, <1>4, <1>5, <1>6 DEF IInv

Children == [Node -> [Side -> NodeOrNil]]
Words == [Node -> [parent : NodeOrNil, color : Color]]

\* The stores keep the types of the memory they change, and what they store.
LEMMA WordStores ==
  ASSUME NEW w \in Words, NEW n \in Node, NEW p \in NodeOrNil, NEW c \in Color
  PROVE  /\ [w EXCEPT ![n] = Word(p, c)] \in Words
         /\ [w EXCEPT ![n].color = c] \in Words
         /\ [w EXCEPT ![n].parent = p] \in Words
         /\ w[n] \in [parent : NodeOrNil, color : Color]
BY DEF Words, Word

\* if (tmp) rb_set_parent_color(tmp, p, c).
LEMMA SetIfAnyStores ==
  ASSUME NEW w \in Words, NEW tmp \in NodeOrNil, NEW p \in NodeOrNil, NEW c \in Color
  PROVE  /\ SetIfAny(w, tmp, p, c) \in Words
         /\ \A n \in Node : SetIfAny(w, tmp, p, c)[n] = IF n = tmp THEN Word(p, c) ELSE w[n]
BY NodeAssumption DEF Words, Word, SetIfAny, NodeOrNil

\* if (tmp) rb_set_parent(tmp, p).
LEMMA SetParentIfAnyStores ==
  ASSUME NEW w \in Words, NEW tmp \in NodeOrNil, NEW p \in NodeOrNil
  PROVE  /\ SetParentIfAny(w, tmp, p) \in Words
         /\ \A n \in Node : /\ SetParentIfAny(w, tmp, p)[n].parent = IF n = tmp THEN p ELSE w[n].parent
                            /\ SetParentIfAny(w, tmp, p)[n].color = w[n].color
BY NodeAssumption DEF Words, SetParentIfAny, NodeOrNil

\* The two words that __rb_rotate_set_parents stores.
LEMMA RotateSetParentsStores ==
  ASSUME NEW w \in Words, NEW old \in Node, NEW new \in Node, old # new, NEW c \in Color
  PROVE  /\ RotateSetParents(w, old, new, c) \in Words
         /\ \A n \in Node :
              RotateSetParents(w, old, new, c)[n] =
                IF n = old THEN Word(new, c) ELSE IF n = new THEN w[old] ELSE w[n]
BY DEF Words, Word, RotateSetParents, NodeOrNil

\* The two child pointers that a rotation stores.
LEMMA RotateStoresStores ==
  ASSUME NEW ch \in Children, NEW old \in Node, NEW new \in Node, old # new, NEW d \in Side
  PROVE  /\ RotateStores(ch, old, new, d) \in Children
         /\ \A n \in Node, e \in Side :
              RotateStores(ch, old, new, d)[n][e] =
                IF n = old /\ e # d THEN ch[new][d]
                ELSE IF n = new /\ e = d THEN old ELSE ch[n][e]
<1> DEFINE mid == [ch EXCEPT ![old][Opposite(d)] = ch[new][d]]
<1>1. /\ Opposite(d) \in Side /\ Opposite(d) # d
      /\ \A e \in Side : e # d => e = Opposite(d)
      /\ ch[new][d] \in NodeOrNil /\ old \in NodeOrNil
  BY Sides DEF Children, NodeOrNil
<1>2. /\ mid \in Children
      /\ \A n \in Node, e \in Side :
           mid[n][e] = IF n = old /\ e # d THEN ch[new][d] ELSE ch[n][e]
  BY <1>1 DEF Children
<1>3. RotateStores(ch, old, new, d) = [mid EXCEPT ![new][d] = old]
  BY DEF RotateStores
<1> HIDE DEF mid
<1>4. QED
  BY <1>1, <1>2, <1>3 DEF Children

\* The side of p where __rb_change_child looks for n.
At(ch, p, n) == IF ch[p]["left"] = n THEN "left" ELSE "right"

\* The child pointer that __rb_change_child stores.
LEMMA ChangeChildStores ==
  ASSUME NEW ch \in Children, NEW old \in Node, NEW new \in NodeOrNil, NEW p \in NodeOrNil
  PROVE  /\ ChangeChild(ch, old, new, p) \in Children
         /\ \A n \in Node, e \in Side :
              ChangeChild(ch, old, new, p)[n][e] =
                IF n = p /\ e = At(ch, n, old) THEN new ELSE ch[n][e]
BY NodeAssumption, Sides DEF Children, ChangeChild, NodeOrNil, At

\* A color that is not black is red.
LEMMA RedOrBlack ==
  ASSUME TypeOK, NEW n \in Node
  PROVE  rb_is_red(n) <=> ~rb_is_black(n)
BY DEF TypeOK, rb_is_red, rb_is_black, Color

\* A parent pointer points to a node or is null.
LEMMA ParentType ==
  ASSUME TypeOK, NEW n \in Node
  PROVE  rb_parent(n) \in NodeOrNil
BY DEF TypeOK, rb_parent

\* The terms of a label are natural numbers.
LEMMA LabelTypes ==
  ASSUME TypeOK, NEW B \in [Node -> Nat], NEW n \in Node, NEW d \in Side
  PROVE  /\ rb_child[n][d] \in NodeOrNil
         /\ Down(B, rb_child[n][d]) \in Nat
         /\ Own(n) \in {0, 1}
         /\ Short(n, d) \in {0, 1}
BY DEF TypeOK, NodeOrNil, Down, Own, Short

\* The root turns black and the tree one black higher.
LEMMA InsertRootKeepsIInv ==
  ASSUME IInv, InsertRoot
  PROVE  IInv'
<1> USE NodeAssumption
<1>0. TypeOK /\ Links /\ Colors /\ Locals /\ Rotations
  BY DEF IInv
<1>1. /\ node \in Node
      /\ ~RB_EMPTY_NODE(node)
      /\ rb_parent(node) = NULL
      /\ ~rb_is_black(node)
      /\ pc = "insert"
  BY <1>0 DEF InsertRoot, Locals
<1>2. TypeOK'
  BY <1>0, <1>1 DEF InsertRoot, Return, Word, TypeOK, NodeOrNil, Side, Color
<1>3. /\ \A n \in Node : rb_parent(n)' = rb_parent(n)
      /\ \A n \in Node : RB_EMPTY_NODE(n)' <=> RB_EMPTY_NODE(n)
      /\ \A n \in Node : rb_is_black(n)' <=> rb_is_black(n) \/ n = node
      /\ UNCHANGED <<rb_node, rb_child, rotations>>
      /\ pc' = "idle"
      /\ node' = NULL
  BY <1>0, <1>1 DEF InsertRoot, Return, Word, TypeOK, rb_parent, rb_is_black, RB_EMPTY_NODE
<1>4. Links'
  BY <1>0, <1>1, <1>3 DEF TypeOK, Links, NodeOrNil
<1>5. Colors'
  BY <1>0, <1>1, <1>3, ParentType DEF TypeOK, Colors, NodeOrNil
<1>6. Locals'
  BY <1>3 DEF Locals
<1>7. Rotations'
  BY <1>0, <1>1, <1>3 DEF TypeOK, Rotations
<1>8. \E B \in [Node -> Nat] : Labels(B)'
  <2> PICK B \in [Node -> Nat] : Labels(B)
    BY DEF IInv
  <2> PICK C \in [Node -> Nat] : \A n \in Node : C[n] = IF n = node THEN B[n] + 1 ELSE B[n]
    <3>1. [n \in Node |-> IF n = node THEN B[n] + 1 ELSE B[n]] \in [Node -> Nat]
      OBVIOUS
    <3>2. QED
      BY <3>1
  <2>1. \A n \in Node, d \in Side : rb_child[n][d] # node
    BY <1>0, <1>1 DEF Links, TypeOK, NodeOrNil
  <2>2. ASSUME NEW n \in Node, ~RB_EMPTY_NODE(n), NEW d \in Side
        PROVE  C[n] = Own(n)' + Down(C, rb_child[n][d])' + Short(n, d)'
    <3>1. B[n] = Own(n) + Down(B, rb_child[n][d]) /\ Short(n, d)' = 0
      BY <1>0, <1>1, <1>3, <2>2, LabelTypes DEF Labels, Short
    <3>2. Down(C, rb_child[n][d])' = Down(B, rb_child[n][d])
      BY <1>0, <1>3, <2>1, LabelTypes DEF Down, NodeOrNil
    <3>3. QED
      BY <1>0, <1>1, <1>3, <3>1, <3>2, LabelTypes, RedOrBlack DEF Own
  <2>3. Labels(C)'
    BY <1>3, <2>2 DEF Labels
  <2>4. QED
    BY <2>3
<1>9. QED
  BY <1>2, <1>4, <1>5, <1>6, <1>7, <1>8 DEF IInv

\* The parent pointers of the memory.
Par == [n \in Node |-> rb_parent(n)]

\* To the tree r, ch, par a new leaf n was added on side d of p.
IsLink(r, ch, par, r2, ch2, par2, n, p, d) ==
  /\ n \in Node /\ par[n] = n
  /\ p # NULL => par[p] # p /\ ch[p][d] = NULL
  /\ p = NULL => r = NULL
  /\ r2 = IF p = NULL THEN n ELSE r
  /\ \A m \in Node, e \in Side :
       ch2[m][e] = IF m = n THEN NULL ELSE IF m = p /\ e = d THEN n ELSE ch[m][e]
  /\ \A m \in Node : par2[m] = IF m = n THEN p ELSE par[m]

\* A red leaf changes no label.
LEMMA LinkKeepsIInv ==
  ASSUME IInv, Link
  PROVE  IInv' /\ IsLink(rb_node, rb_child, Par, rb_node', rb_child', Par', node, parent, dir)
<1> USE NodeAssumption
<1>0. TypeOK /\ Links /\ Colors /\ Locals /\ Rotations
  BY DEF IInv
<1>1. /\ node \in Node
      /\ RB_EMPTY_NODE(node)
      /\ parent \in NodeOrNil /\ dir \in Side
      /\ parent # NULL => ~RB_EMPTY_NODE(parent)
      /\ parent # node
      /\ parent # NULL => rb_child[parent][dir] = NULL
      /\ parent = NULL => rb_node = NULL
  BY <1>0 DEF Link, Locals, Slot, TypeOK, NodeOrNil
<1>2. \A d \in Side : rb_child[node][d] = NULL
  BY <1>0, <1>1 DEF Links
<1>3. \A n \in Node, d \in Side : rb_child[n][d] # node
  BY <1>0, <1>1 DEF Links, RB_EMPTY_NODE
<1>4. TypeOK'
  BY <1>0, <1>1 DEF Link, ChangeRoot, Leaf, Word, TypeOK, NodeOrNil, Side, Color
<1>5. /\ \A n \in Node : rb_parent(n)' = IF n = node THEN parent ELSE rb_parent(n)
      /\ \A n \in Node : rb_is_black(n)' <=> rb_is_black(n) /\ n # node
      /\ \A n \in Node : RB_EMPTY_NODE(n)' <=> RB_EMPTY_NODE(n) /\ n # node
  BY <1>0, <1>1 DEF Link, Word, TypeOK, rb_parent, rb_is_black, RB_EMPTY_NODE
<1>6. \A n \in Node, d \in Side :
        rb_child'[n][d] = IF n = node THEN NULL
                          ELSE IF n = parent /\ d = dir THEN node ELSE rb_child[n][d]
  BY <1>0, <1>1 DEF Link, Leaf, TypeOK, NodeOrNil
<1>7. /\ rb_node' = IF parent = NULL THEN node ELSE rb_node
      /\ pc' = "insert"
      /\ pc \in {"add", "find_add"}
      /\ UNCHANGED <<node, parent, rotations>>
  BY DEF Link, ChangeRoot
<1>8. Links'
  <2>1. (rb_node # NULL => rb_parent(rb_node) = NULL)'
    BY <1>0, <1>1, <1>5, <1>7 DEF Links, TypeOK, NodeOrNil, RB_EMPTY_NODE
  <2>2. ASSUME NEW n \in Node, NEW d \in Side, rb_child'[n][d] # NULL
        PROVE  /\ rb_parent(rb_child[n][d])' = n
               /\ rb_child'[n][d] # n
               /\ ~RB_EMPTY_NODE(n)'
               /\ rb_child'[n][Opposite(d)] # rb_child'[n][d]
    BY <1>0, <1>1, <1>3, <1>5, <1>6, <2>2, Sides DEF Links, TypeOK, NodeOrNil
  <2>3. ASSUME NEW n \in Node, ~RB_EMPTY_NODE(n)'
        PROVE  IF rb_parent(n)' = NULL THEN rb_node' = n
               ELSE \E d \in Side : rb_child'[rb_parent(n)'][d] = n
    BY <1>0, <1>1, <1>2, <1>5, <1>6, <1>7, <2>3, ParentType DEF Links, TypeOK, NodeOrNil
  <2>4. QED
    BY <2>1, <2>2, <2>3 DEF Links
<1>9. Colors'
  BY <1>0, <1>1, <1>2, <1>5, <1>7, ParentType DEF Links, Colors, NodeOrNil
<1>10. Locals'
  BY <1>1, <1>5, <1>7 DEF Locals
<1>11. Rotations'
  BY <1>0, <1>7 DEF Rotations
<1>12. \E B \in [Node -> Nat] : Labels(B)'
  <2> PICK B \in [Node -> Nat] : Labels(B)
    BY DEF IInv
  <2> PICK C \in [Node -> Nat] : \A n \in Node : C[n] = IF n = node THEN 0 ELSE B[n]
    <3>1. [n \in Node |-> IF n = node THEN 0 ELSE B[n]] \in [Node -> Nat]
      OBVIOUS
    <3>2. QED
      BY <3>1
  <2>1. ASSUME NEW n \in Node, ~RB_EMPTY_NODE(n)', NEW d \in Side
        PROVE  C[n] = Own(n)' + Down(C, rb_child[n][d])' + Short(n, d)'
    <3>1. Short(n, d)' = 0
      BY <1>7 DEF Short
    <3>2. CASE n = node
      BY <1>5, <1>6, <3>1, <3>2 DEF Down, Own
    <3>3. CASE n # node
      <4>1. B[n] = Own(n) + Down(B, rb_child[n][d])
        BY <1>0, <1>5, <1>7, <2>1, <3>3, LabelTypes DEF Labels, Short
      <4>2. Down(C, rb_child[n][d])' = Down(B, rb_child[n][d])
        BY <1>0, <1>1, <1>3, <1>6, <3>3, LabelTypes DEF Down, NodeOrNil
      <4>3. QED
        BY <1>0, <1>5, <3>1, <3>3, <4>1, <4>2, LabelTypes DEF Own
    <3>4. QED
      BY <3>2, <3>3
  <2>2. Labels(C)'
    BY <1>7, <2>1 DEF Labels
  <2>3. QED
    BY <2>2
<1>13. IsLink(rb_node, rb_child, Par, rb_node', rb_child', Par', node, parent, dir)
  <2>1. \A n \in Node : /\ Par[n] = rb_parent(n) /\ Par'[n] = rb_parent(n)'
                        /\ Par[n] = n <=> RB_EMPTY_NODE(n)
    BY DEF Par, RB_EMPTY_NODE
  <2>2. parent # NULL => Par[parent] # parent
    BY <1>1, <2>1 DEF NodeOrNil
  <2>3. \A n \in Node : Par'[n] = IF n = node THEN parent ELSE Par[n]
    BY <1>5, <2>1
  <2>4. QED
    BY <1>1, <1>6, <1>7, <2>1, <2>2, <2>3 DEF IsLink
<1>14. QED
  BY <1>4, <1>8, <1>9, <1>10, <1>11, <1>12, <1>13 DEF IInv

\* The successor is looked for below the right child.
LEMMA EraseTwoChildrenKeepsIInv ==
  ASSUME IInv, NEW n \in Node, EraseTwoChildren(n)
  PROVE  IInv'
<1> USE NodeAssumption
<1>0. TypeOK /\ Links /\ Colors /\ Locals /\ Rotations
  BY DEF IInv
<1>1. /\ pc = "idle"
      /\ ~RB_EMPTY_NODE(n)
      /\ \A d \in Side : rb_child[n][d] # NULL
      /\ UNCHANGED <<rb_node, rb_child, rb_parent_color, dir>>
      /\ pc' = "successor"
      /\ node' = n
      /\ parent' = rb_child[n]["right"]
      /\ successor' = rb_child[n]["right"]
      /\ rotations' = 0
  BY DEF EraseTwoChildren, tree
<1>2. /\ rb_child[n]["right"] \in Node
      /\ rb_parent(rb_child[n]["right"]) = n
      /\ rb_child[n]["right"] # n
  BY <1>0, <1>1, Sides DEF TypeOK, Links, NodeOrNil
<1>3. TypeOK'
  BY <1>0, <1>1, <1>2 DEF TypeOK, NodeOrNil
<1>4. /\ \A m \in Node : rb_parent(m)' = rb_parent(m)
      /\ \A m \in Node : rb_is_black(m)' <=> rb_is_black(m)
      /\ \A m \in Node : RB_EMPTY_NODE(m)' <=> RB_EMPTY_NODE(m)
  BY <1>1 DEF rb_parent, rb_is_black, RB_EMPTY_NODE
<1>5. Links'
  BY <1>0, <1>1 DEF Links, RB_EMPTY_NODE, rb_parent
<1>6. Colors'
  BY <1>0, <1>1, <1>4, ParentType DEF Colors, TypeOK, NodeOrNil
<1>7. Locals'
  BY <1>1, <1>2, <1>4, Sides DEF Locals, RB_EMPTY_NODE
<1>8. Rotations'
  BY <1>1 DEF Rotations
<1>9. \E B \in [Node -> Nat] : Labels(B)'
  <2> PICK B \in [Node -> Nat] : Labels(B)
    BY DEF IInv
  <2>1. \A m \in Node, d \in Side : Short(m, d) = 0 /\ Short(m, d)' = 0 /\ Own(m)' = Own(m)
    BY <1>1, <1>4 DEF Short, Own
  <2>2. ASSUME NEW m \in Node, ~RB_EMPTY_NODE(m)', NEW d \in Side
        PROVE  B[m] = Own(m)' + Down(B, rb_child[m][d])' + Short(m, d)'
    BY <1>1, <1>4, <2>1, <2>2 DEF Labels, Down
  <2>3. Rank(B, rb_child[n]["right"]) < Rank(B, n)
    <3>1. B[n] = Own(n) + B[rb_child[n]["right"]]
      BY <1>0, <1>1, <1>2, <2>1, LabelTypes, Sides DEF Labels, Down
    <3>2. rb_is_black(n) \/ rb_is_black(rb_child[n]["right"])
      BY <1>0, <1>1, <1>2 DEF Colors, RB_EMPTY_NODE
    <3>3. QED
      BY <1>2, <3>1, <3>2 DEF Rank, Own
  <2>4. Labels(B)'
    BY <1>1, <1>2, <1>4, <2>2, <2>3 DEF Labels, Rank
  <2>5. QED
    BY <2>4
<1>10. QED
  BY <1>3, <1>5, <1>6, <1>7, <1>8, <1>9 DEF IInv

\* The loops find the side a node is on.
LEMMA SideOfChild ==
  ASSUME TypeOK, Links, NEW n \in Node, ~RB_EMPTY_NODE(n), NEW p \in Node, rb_parent(n) = p
  PROVE  /\ SideOf(n, p) \in Side
         /\ Opposite(SideOf(n, p)) \in Side
         /\ rb_child[p][SideOf(n, p)] = n
         /\ rb_child[p][Opposite(SideOf(n, p))] # n
         /\ ~RB_EMPTY_NODE(p)
         /\ p # n
BY NodeAssumption, Sides DEF Links, SideOf, RB_EMPTY_NODE

\* Where a red parent has its own parent and its sibling.
LEMMA RedParent ==
  ASSUME IInv, pc = "insert", parent # NULL, rb_is_red(parent)
  PROVE  /\ node \in Node /\ parent \in Node /\ rb_parent(parent) \in Node
         /\ ~RB_EMPTY_NODE(node) /\ ~RB_EMPTY_NODE(parent) /\ ~RB_EMPTY_NODE(rb_parent(parent))
         /\ rb_parent(node) = parent
         /\ ~rb_is_black(node) /\ ~rb_is_black(parent) /\ rb_is_black(rb_parent(parent))
         /\ Uncle # NULL => /\ Uncle \in Node
                            /\ rb_parent(Uncle) = rb_parent(parent)
                            /\ ~RB_EMPTY_NODE(Uncle)
                            /\ Uncle # parent
         /\ node # parent /\ node # rb_parent(parent) /\ parent # rb_parent(parent)
         /\ Uncle # rb_parent(parent)
<1> USE NodeAssumption
<1>0. TypeOK /\ Links /\ Colors /\ Locals
  BY DEF IInv
<1>1. /\ node \in Node /\ parent \in Node
      /\ ~RB_EMPTY_NODE(node)
      /\ rb_parent(node) = parent
      /\ ~rb_is_black(node)
  BY <1>0 DEF Locals, TypeOK, NodeOrNil
<1>2. ~RB_EMPTY_NODE(parent) /\ node # parent
  BY <1>0, <1>1, SideOfChild
<1>3. ~rb_is_black(parent)
  BY <1>0, <1>1, RedOrBlack
<1>4. rb_parent(parent) \in Node /\ rb_is_black(rb_parent(parent))
  BY <1>0, <1>1, <1>2, <1>3, ParentType DEF Colors, NodeOrNil
<1>5. /\ ~RB_EMPTY_NODE(rb_parent(parent)) /\ parent # rb_parent(parent)
      /\ Opposite(SideOf(parent, rb_parent(parent))) \in Side
      /\ Uncle # parent
  BY <1>0, <1>1, <1>2, <1>4, SideOfChild DEF Uncle
<1>6. Uncle \in NodeOrNil
  BY <1>0, <1>4, <1>5 DEF TypeOK, Uncle
<1>7. Uncle # NULL => /\ rb_parent(Uncle) = rb_parent(parent)
                      /\ Uncle # rb_parent(parent)
  BY <1>0, <1>4, <1>5 DEF Links, Uncle
<1>8. QED
  BY <1>1, <1>2, <1>3, <1>4, <1>5, <1>6, <1>7 DEF NodeOrNil, RB_EMPTY_NODE

\* The three stores of a color flip.
Flipped(w, u, p, g) ==
  [w EXCEPT ![u] = Word(g, "black"), ![p] = Word(g, "black"), ![g].color = "red"]

\* They keep the parent pointers and swap the colors of two levels.
LEMMA FlipStores ==
  ASSUME NEW w \in Words, NEW u \in Node, NEW p \in Node, NEW g \in Node,
         u # p, u # g, p # g, w[u].parent = g, w[p].parent = g
  PROVE  /\ Flipped(w, u, p, g) \in Words
         /\ \A n \in Node :
              /\ Flipped(w, u, p, g)[n].parent = w[n].parent
              /\ Flipped(w, u, p, g)[n].color =
                   IF n = u \/ n = p THEN "black" ELSE IF n = g THEN "red" ELSE w[n].color
BY DEF Words, Word, NodeOrNil, Color, Flipped

\* A color flip moves the red node up to the grandparent, and no height changes
\* but that of the grandparent's two children.
LEMMA InsertFlipKeepsIInv ==
  ASSUME IInv, InsertFlip
  PROVE  IInv'
<1> USE NodeAssumption
<1> DEFINE g == rb_parent(parent)
           u == Uncle
<1>0. TypeOK /\ Links /\ Colors /\ Locals /\ Rotations
  BY DEF IInv
<1>1. /\ pc = "insert" /\ parent # NULL /\ rb_is_red(parent) /\ u # NULL
      /\ rb_is_red(u)
      /\ rb_parent_color' = [rb_parent_color EXCEPT ![u] = Word(g, "black"),
                                                    ![parent] = Word(g, "black"),
                                                    ![g].color = "red"]
      /\ node' = g /\ parent' = rb_parent(g)
      /\ UNCHANGED <<rb_node, rb_child, pc, dir, successor, rotations>>
  BY DEF InsertFlip, UncleIsRed
<1>2. /\ node \in Node /\ parent \in Node /\ g \in Node /\ u \in Node
      /\ ~RB_EMPTY_NODE(node) /\ ~RB_EMPTY_NODE(parent) /\ ~RB_EMPTY_NODE(g)
      /\ ~RB_EMPTY_NODE(u)
      /\ rb_parent(node) = parent /\ rb_parent(u) = g
      /\ ~rb_is_black(node) /\ ~rb_is_black(parent) /\ rb_is_black(g)
      /\ parent # g /\ u # g /\ u # parent /\ node # g
  BY <1>0, <1>1, RedParent DEF NodeOrNil
<1>3. ~rb_is_black(u)
  BY <1>0, <1>1, <1>2, RedOrBlack
<1>f. /\ rb_parent_color' \in Words
      /\ \A n \in Node :
           /\ rb_parent_color'[n].parent = rb_parent_color[n].parent
           /\ rb_parent_color'[n].color = IF n = u \/ n = parent THEN "black"
                                          ELSE IF n = g THEN "red" ELSE rb_parent_color[n].color
  <2>1. rb_parent_color \in Words
    BY <1>0 DEF TypeOK, Words
  <2>2. rb_parent_color[u].parent = g /\ rb_parent_color[parent].parent = g
    BY <1>2 DEF rb_parent
  <2>u. PICK u2 \in Node : u2 = u
    BY <1>2
  <2>p. PICK p \in Node : p = parent
    BY <1>2
  <2>g. PICK g2 \in Node : g2 = g
    BY <1>2
  <2>w. PICK w \in Words : w = rb_parent_color
    BY <2>1
  <2>3. u2 # p /\ u2 # g2 /\ p # g2 /\ w[u2].parent = g2 /\ w[p].parent = g2
    BY <1>2, <2>2, <2>u, <2>p, <2>g, <2>w
  <2>4. rb_parent_color' = Flipped(w, u2, p, g2)
    BY <1>1, <2>u, <2>p, <2>g, <2>w DEF Flipped
  <2>5. /\ Flipped(w, u2, p, g2) \in Words
        /\ \A n \in Node :
             /\ Flipped(w, u2, p, g2)[n].parent = w[n].parent
             /\ Flipped(w, u2, p, g2)[n].color =
                  IF n = u2 \/ n = p THEN "black" ELSE IF n = g2 THEN "red" ELSE w[n].color
    BY <2>3, FlipStores
  <2>6. QED
    BY <2>4, <2>5, <2>u, <2>p, <2>g, <2>w
<1>4. TypeOK'
  <2>1. g \in NodeOrNil /\ rb_parent(g) \in NodeOrNil /\ "red" \in Color /\ "black" \in Color
    BY <1>0, <1>2, ParentType DEF NodeOrNil, Color
  <2>2. QED
    BY <1>0, <1>1, <1>f, <2>1 DEF TypeOK, Words
<1>5. /\ \A n \in Node : rb_parent(n)' = rb_parent(n)
      /\ \A n \in Node : rb_is_black(n)' <=> (rb_is_black(n) /\ n # g) \/ n = u \/ n = parent
      /\ \A n \in Node : RB_EMPTY_NODE(n)' <=> RB_EMPTY_NODE(n)
  BY <1>2, <1>f DEF rb_parent, rb_is_black, RB_EMPTY_NODE
<1>6. \A n \in Node : ~RB_EMPTY_NODE(n) /\ rb_parent(n) = g => n = u \/ n = parent
  BY <1>0, <1>2, SideOfChild, Sides DEF Links, Uncle
<1>7. Links'
  BY <1>0, <1>1, <1>5, ParentType DEF Links, TypeOK, NodeOrNil
<1>8. Colors'
  BY <1>0, <1>1, <1>2, <1>5, <1>6, ParentType DEF Colors, NodeOrNil
<1>9. Locals'
  BY <1>1, <1>2, <1>5 DEF Locals
<1>10. Rotations'
  BY <1>0, <1>1 DEF Rotations
<1>11. \E B \in [Node -> Nat] : Labels(B)'
  <2> PICK B \in [Node -> Nat] : Labels(B)
    BY DEF IInv
  <2> PICK C \in [Node -> Nat] :
        \A n \in Node : C[n] = IF n \in {u, parent} THEN B[n] + 1 ELSE B[n]
    <3>1. [n \in Node |-> IF n \in {u, parent} THEN B[n] + 1 ELSE B[n]] \in [Node -> Nat]
      OBVIOUS
    <3>2. QED
      BY <3>1
  <2>1. ASSUME NEW n \in Node, ~RB_EMPTY_NODE(n), NEW d \in Side
        PROVE  C[n] = Own(n)' + Down(C, rb_child[n][d])' + Short(n, d)'
    <3>1. B[n] = Own(n) + Down(B, rb_child[n][d]) /\ Short(n, d)' = 0
      BY <1>0, <1>1, <2>1, LabelTypes DEF Labels, Short
    <3>2. CASE n = g
      <4>1. rb_child[g][d] \in {u, parent}
        BY <1>0, <1>2, SideOfChild, Sides DEF Uncle
      <4>2. QED
        BY <1>0, <1>1, <1>2, <1>5, <3>1, <3>2, <4>1, LabelTypes DEF Own, Down
    <3>3. CASE n # g
      <4>1. rb_child[n][d] \notin {u, parent}
        BY <1>0, <1>2, <3>3 DEF Links
      <4>2. Down(C, rb_child[n][d])' = Down(B, rb_child[n][d])
        BY <1>0, <1>1, <4>1, LabelTypes DEF Down, NodeOrNil
      <4>3. QED
        BY <1>0, <1>2, <1>3, <1>5, <3>1, <3>3, <4>2, LabelTypes DEF Own
    <3>4. QED
      BY <3>2, <3>3
  <2>2. Labels(C)'
    BY <1>1, <1>5, <2>1 DEF Labels
  <2>3. QED
    BY <2>2
<1>12. QED
  BY <1>4, <1>7, <1>8, <1>9, <1>10, <1>11 DEF IInv

\* A child ranks below its parent, so that no chain of children closes a loop.
LEMMA RankDown ==
  ASSUME TypeOK, Links, Colors, NEW B \in [Node -> Nat], Labels(B),
         NEW n \in Node, NEW d \in Side, NEW c \in Node, rb_child[n][d] = c,
         ~(pc = "insert" /\ c = node)
  PROVE  /\ Rank(B, c) < Rank(B, n)
         /\ Rank(B, n) \in Nat
         /\ Rank(B, c) \in Nat
<1> USE NodeAssumption
<1>1. /\ ~RB_EMPTY_NODE(n) /\ ~RB_EMPTY_NODE(c)
      /\ rb_parent(c) = n
  BY DEF Links, RB_EMPTY_NODE
<1>2. B[n] = Own(n) + B[c] + Short(n, d)
  BY <1>1 DEF Labels, Down
<1>3. rb_is_black(c) \/ rb_is_black(n)
  BY <1>1 DEF Colors
<1>4. QED
  BY <1>2, <1>3, LabelTypes DEF Own, Rank

-----------------------------------------------------------------------------
(* What the stores do to the shape of a tree, for any memory: r is the root, *)
(* ch the child pointers and par the parent pointers.                        *)

Parents == [Node -> NodeOrNil]

Tree(r, ch, par) ==
  /\ r # NULL => par[r] = NULL
  /\ \A n \in Node, d \in Side :
       ch[n][d] # NULL => /\ par[ch[n][d]] = n
                          /\ ch[n][d] # n
                          /\ par[n] # n
                          /\ ch[n][Opposite(d)] # ch[n][d]
  /\ \A n \in Node : par[n] # n =>
       IF par[n] = NULL THEN r = n ELSE \E d \in Side : ch[par[n]][d] = n

RootAfter(r, par, old, new) == IF par[old] = NULL THEN new ELSE r

\* A rotation at p to side d that brings s up.
Turned(ch, p, s, d) ==
  [n \in Node |-> [e \in Side |-> IF n = p /\ e # d THEN ch[s][d]
                                  ELSE IF n = s /\ e = d THEN p
                                  ELSE IF ch[n][e] = p THEN s ELSE ch[n][e]]]
TurnedPar(ch, par, p, s, d) ==
  [n \in Node |-> IF n = p THEN s ELSE IF n = s THEN par[p]
                  ELSE IF n = ch[s][d] THEN p ELSE par[n]]

\* n leaves the tree and its only child c, or nothing, takes its place.
Spliced(ch, n, c) ==
  [m \in Node |-> [e \in Side |-> IF m = n THEN NULL
                                  ELSE IF ch[m][e] = n THEN c ELSE ch[m][e]]]
SplicedPar(par, n, c) ==
  [m \in Node |-> IF m = n THEN n ELSE IF m = c THEN par[n] ELSE par[m]]

\* new, which was in no tree, takes the place of old.
Swapped(ch, old, new) ==
  [m \in Node |-> [e \in Side |-> IF m = old THEN NULL
                                  ELSE IF m = new THEN ch[old][e]
                                  ELSE IF ch[m][e] = old THEN new ELSE ch[m][e]]]
SwappedPar(par, old, new) ==
  [m \in Node |-> IF m = old THEN old ELSE IF m = new THEN par[old]
                  ELSE IF par[m] = old THEN new ELSE par[m]]

\* What became of a tree: it was rotated, ...
IsTurn(r, ch, par, r2, ch2, par2) ==
  \E p \in Node, s \in Node, d \in Side :
    /\ ch[p][Opposite(d)] = s
    /\ par[p] # s
    /\ r2 = RootAfter(r, par, p, s)
    /\ ch2 = Turned(ch, p, s, d)
    /\ par2 = TurnedPar(ch, par, p, s, d)

\* ... it lost a node, ...
IsSplice(r, ch, par, r2, ch2, par2, n) ==
  \E d \in Side, c \in NodeOrNil :
    /\ par[n] # n
    /\ ch[n][Opposite(d)] = NULL
    /\ c = ch[n][d]
    /\ c # NULL => par[n] # c
    /\ r2 = RootAfter(r, par, n, c)
    /\ ch2 = Spliced(ch, n, c)
    /\ par2 = SplicedPar(par, n, c)

\* ... or it has new in the place of old.
IsSwap(r, ch, par, r2, ch2, par2, old, new) ==
  /\ par[old] # old
  /\ par[new] = new
  /\ r2 = RootAfter(r, par, old, new)
  /\ ch2 = Swapped(ch, old, new)
  /\ par2 = SwappedPar(par, old, new)

\* In this step one rotation was made, or two of them.
TreeTurned ==
  \/ IsTurn(rb_node, rb_child, Par, rb_node', rb_child', Par')
  \/ \E r1, ch1, par1 :
       /\ IsTurn(rb_node, rb_child, Par, r1, ch1, par1)
       /\ IsTurn(r1, ch1, par1, rb_node', rb_child', Par')

\* p and s rotate to side d.
TurnsAt(par, ch, ch2, p, s, d) ==
  /\ p \in Node /\ s \in Node /\ d \in Side
  /\ ch \in Children /\ ch2 \in Children /\ par \in Parents
  /\ \E r : Tree(r, ch, par)
  /\ ch[p][Opposite(d)] = s
  /\ par[p] # s
  /\ ch2 = Turned(ch, p, s, d)

\* Two rotations that bring x up, above p and then above g.
TurnsTwice(par, ch, ch2, p, g, x, d) ==
  \E ch1, par1 :
    /\ TurnsAt(par, ch, ch1, p, x, d)
    /\ TurnsAt(par1, ch1, ch2, g, x, Opposite(d))
    /\ p # g
    /\ \A e \in Side : ch1[p][e] # g

\* The rotations of each rebalancing step.
InsertTurns ==
  LET g == rb_parent(parent)
      d == SideOf(parent, g)
  IN  IF node = rb_child[parent][Opposite(d)]
      THEN TurnsTwice(Par, rb_child, rb_child', parent, g, node, d)
      ELSE TurnsAt(Par, rb_child, rb_child', g, parent, Opposite(d))

RedSiblingTurns == TurnsAt(Par, rb_child, rb_child', parent, Sibling, SideOf(node, parent))

EraseTurns ==
  LET d == SideOf(node, parent)
  IN  IF BlackOrNull(Nephew(Opposite(d)))
      THEN TurnsTwice(Par, rb_child, rb_child', Sibling, parent, Nephew(d), Opposite(d))
      ELSE TurnsAt(Par, rb_child, rb_child', parent, Sibling, d)

\* In this step the successor left its place for that of the erased node.
SuccessorMoved ==
  \E r1, ch1, par1 :
    /\ IsSplice(rb_node, rb_child, Par, r1, ch1, par1, successor)
    /\ IsSwap(r1, ch1, par1, rb_node', rb_child', Par', node, successor)

\* Each change of shape yields maps of pointers again: a rotation ...
LEMMA TurnedTypes ==
  ASSUME NEW ch \in Children, NEW par \in Parents, NEW p \in Node, NEW s \in Node, NEW d \in Side
  PROVE  /\ Turned(ch, p, s, d) \in Children
         /\ TurnedPar(ch, par, p, s, d) \in Parents
BY DEF Children, Parents, Turned, TurnedPar, NodeOrNil

\* ... the removal of a node with at most one child ...
LEMMA SplicedTypes ==
  ASSUME NEW ch \in Children, NEW par \in Parents, NEW n \in Node, NEW c \in NodeOrNil
  PROVE  /\ Spliced(ch, n, c) \in Children
         /\ SplicedPar(par, n, c) \in Parents
BY DEF Children, Parents, Spliced, SplicedPar, NodeOrNil

\* ... and a node that takes the place of another.
LEMMA SwappedTypes ==
  ASSUME NEW ch \in Children, NEW par \in Parents, NEW old \in Node, NEW new \in Node
  PROVE  /\ Swapped(ch, old, new) \in Children
         /\ SwappedPar(par, old, new) \in Parents
BY DEF Children, Parents, Swapped, SwappedPar, NodeOrNil

\* Two maps of child pointers that agree everywhere are the same map.
LEMMA SameChildren ==
  ASSUME NEW x \in Children, NEW y \in Children, \A n \in Node, e \in Side : x[n][e] = y[n][e]
  PROVE  x = y
BY DEF Children

\* A rotation leaves a tree.
LEMMA TurnedTree ==
  ASSUME NEW r \in NodeOrNil, NEW ch \in Children, NEW par \in Parents, Tree(r, ch, par),
         NEW p \in Node, NEW s \in Node, NEW d \in Side, ch[p][Opposite(d)] = s,
         par[p] # s
  PROVE  Tree(RootAfter(r, par, p, s), Turned(ch, p, s, d), TurnedPar(ch, par, p, s, d))
<1> USE NodeAssumption
<1> PICK r2 \in NodeOrNil : r2 = RootAfter(r, par, p, s)
  BY DEF RootAfter, NodeOrNil
<1> PICK ch2 \in Children : ch2 = Turned(ch, p, s, d)
  BY TurnedTypes
<1> PICK par2 \in Parents : par2 = TurnedPar(ch, par, p, s, d)
  BY TurnedTypes
<1> PICK t \in NodeOrNil : t = ch[s][d]
  BY DEF Children
<1>1. \A n \in Node, e \in Side :
        ch2[n][e] = IF n = p /\ e # d THEN t ELSE IF n = s /\ e = d THEN p
                    ELSE IF ch[n][e] = p THEN s ELSE ch[n][e]
  BY DEF Turned
<1>2. \A n \in Node : par2[n] = IF n = p THEN s ELSE IF n = s THEN par[p]
                                ELSE IF n = t THEN p ELSE par[n]
  BY DEF TurnedPar
<1>3. /\ par[s] = p /\ s # p /\ par[p] # p /\ par[s] # s
      /\ t # NULL => par[t] = s /\ t # s /\ t # p
      /\ Opposite(d) \in Side /\ Opposite(d) # d
      /\ \A e \in Side : e # d => e = Opposite(d)
      /\ ch[p][d] # s
  BY Sides DEF Tree, NodeOrNil
<1>4. r2 # NULL => par2[r2] = NULL
  BY <1>2, <1>3 DEF Tree, RootAfter, NodeOrNil
<1>5. ASSUME NEW n \in Node, NEW e \in Side, ch2[n][e] # NULL
      PROVE  /\ par2[ch2[n][e]] = n
             /\ ch2[n][e] # n
             /\ par2[n] # n
             /\ ch2[n][Opposite(e)] # ch2[n][e]
  <2>1. CASE n = p
    BY <1>1, <1>2, <1>3, <1>5, <2>1, Sides DEF Tree, NodeOrNil, Children
  <2>2. CASE n = s
    BY <1>1, <1>2, <1>3, <1>5, <2>2, Sides DEF Tree, NodeOrNil, Children
  <2>3. CASE n \notin {p, s}
    BY <1>1, <1>2, <1>3, <1>5, <2>3, Sides DEF Tree, NodeOrNil, Children
  <2>4. QED
    BY <2>1, <2>2, <2>3
<1>6. ASSUME NEW n \in Node, par2[n] # n
      PROVE  IF par2[n] = NULL THEN r2 = n ELSE \E e \in Side : ch2[par2[n]][e] = n
  <2>1. CASE n = p
    BY <1>1, <1>2, <1>3, <2>1
  <2>2. CASE n = s
    BY <1>1, <1>2, <1>3, <2>2 DEF Tree, RootAfter, Parents, NodeOrNil
  <2>3. CASE n = t
    BY <1>1, <1>2, <1>3, <2>3
  <2>4. CASE n \notin {p, s, t}
    <3>1. par2[n] = par[n] /\ par[n] # n /\ par[n] \in NodeOrNil
      BY <1>2, <1>6, <2>4 DEF Parents
    <3>2. CASE par[n] = NULL
      BY <3>1, <3>2, <2>4 DEF Tree, RootAfter
    <3>3. CASE par[n] # NULL
      BY <1>1, <1>3, <3>1, <3>3, <2>4 DEF Tree, NodeOrNil
    <3>4. QED
      BY <3>2, <3>3
  <2>5. QED
    BY <2>1, <2>2, <2>3, <2>4
<1>7. QED
  BY <1>4, <1>5, <1>6 DEF Tree

\* So does the removal of a node with at most one child ...
LEMMA SplicedTree ==
  ASSUME NEW r \in NodeOrNil, NEW ch \in Children, NEW par \in Parents, Tree(r, ch, par),
         NEW n \in Node, par[n] # n, NEW d \in Side, ch[n][Opposite(d)] = NULL,
         NEW c \in NodeOrNil, c = ch[n][d], c # NULL => par[n] # c
  PROVE  Tree(RootAfter(r, par, n, c), Spliced(ch, n, c), SplicedPar(par, n, c))
<1> USE NodeAssumption
<1> PICK r2 \in NodeOrNil : r2 = RootAfter(r, par, n, c)
  BY DEF RootAfter, NodeOrNil
<1> PICK ch2 \in Children : ch2 = Spliced(ch, n, c)
  BY SplicedTypes
<1> PICK par2 \in Parents : par2 = SplicedPar(par, n, c)
  BY SplicedTypes
<1>1. \A m \in Node, e \in Side :
        ch2[m][e] = IF m = n THEN NULL ELSE IF ch[m][e] = n THEN c ELSE ch[m][e]
  BY DEF Spliced
<1>2. \A m \in Node : par2[m] = IF m = n THEN n ELSE IF m = c THEN par[n] ELSE par[m]
  BY DEF SplicedPar
<1>3. /\ c # NULL => par[c] = n /\ c # n
      /\ \A e \in Side : ch[n][e] # NULL => ch[n][e] = c
  BY Sides DEF Tree, NodeOrNil
<1>4. r2 # NULL => par2[r2] = NULL
  BY <1>2, <1>3 DEF Tree, RootAfter, NodeOrNil
<1>5. ASSUME NEW m \in Node, NEW e \in Side, ch2[m][e] # NULL
      PROVE  /\ par2[ch2[m][e]] = m
             /\ ch2[m][e] # m
             /\ par2[m] # m
             /\ ch2[m][Opposite(e)] # ch2[m][e]
  <2>1. m # n
    BY <1>1, <1>5
  <2>2. CASE ch[m][e] = n
    BY <1>1, <1>2, <1>3, <1>5, <2>1, <2>2, Sides DEF Tree, NodeOrNil, Children
  <2>3. CASE ch[m][e] # n
    BY <1>1, <1>2, <1>3, <1>5, <2>1, <2>3, Sides DEF Tree, NodeOrNil, Children
  <2>4. QED
    BY <2>2, <2>3
<1>6. ASSUME NEW m \in Node, par2[m] # m
      PROVE  IF par2[m] = NULL THEN r2 = m ELSE \E e \in Side : ch2[par2[m]][e] = m
  <2>1. m # n /\ par[m] \in NodeOrNil /\ par[n] \in NodeOrNil
    BY <1>2, <1>6 DEF Parents
  <2>2. CASE m = c
    BY <1>1, <1>2, <1>3, <2>1, <2>2 DEF Tree, RootAfter, NodeOrNil
  <2>3. CASE m # c
    <3>1. par2[m] = par[m] /\ par[m] # m
      BY <1>2, <1>6, <2>1, <2>3
    <3>2. par[m] # n
      BY <1>3, <2>1, <2>3, <3>1 DEF Tree
    <3>3. QED
      BY <1>1, <2>1, <3>1, <3>2, <1>6 DEF Tree, RootAfter, NodeOrNil
  <2>4. QED
    BY <2>2, <2>3
<1>7. QED
  BY <1>4, <1>5, <1>6 DEF Tree

\* ... and a node that takes the place of another.
LEMMA SwappedTree ==
  ASSUME NEW r \in NodeOrNil, NEW ch \in Children, NEW par \in Parents, Tree(r, ch, par),
         NEW old \in Node, par[old] # old, NEW new \in Node, par[new] = new
  PROVE  Tree(RootAfter(r, par, old, new), Swapped(ch, old, new), SwappedPar(par, old, new))
<1> USE NodeAssumption
<1> PICK r2 \in NodeOrNil : r2 = RootAfter(r, par, old, new)
  BY DEF RootAfter, NodeOrNil
<1> PICK ch2 \in Children : ch2 = Swapped(ch, old, new)
  BY SwappedTypes
<1> PICK par2 \in Parents : par2 = SwappedPar(par, old, new)
  BY SwappedTypes
<1>1. \A m \in Node, e \in Side :
        ch2[m][e] = IF m = old THEN NULL ELSE IF m = new THEN ch[old][e]
                    ELSE IF ch[m][e] = old THEN new ELSE ch[m][e]
  BY DEF Swapped
<1>2. \A m \in Node : par2[m] = IF m = old THEN old ELSE IF m = new THEN par[old]
                                ELSE IF par[m] = old THEN new ELSE par[m]
  BY DEF SwappedPar
<1>3. /\ \A m \in Node, e \in Side : ch[m][e] # new /\ ch[new][e] = NULL
      /\ \A m \in Node : par[m] # m => par[m] # new
      /\ old # new /\ r # new
  BY Sides DEF Tree, NodeOrNil
<1>4. r2 # NULL => par2[r2] = NULL
  BY <1>2, <1>3 DEF Tree, RootAfter, NodeOrNil
<1>5. ASSUME NEW m \in Node, NEW e \in Side, ch2[m][e] # NULL
      PROVE  /\ par2[ch2[m][e]] = m
             /\ ch2[m][e] # m
             /\ par2[m] # m
             /\ ch2[m][Opposite(e)] # ch2[m][e]
  <2>1. CASE m = new
    BY <1>1, <1>2, <1>3, <1>5, <2>1, Sides DEF Tree, NodeOrNil, Children
  <2>2. CASE m # new
    BY <1>1, <1>2, <1>3, <1>5, <2>2, Sides DEF Tree, NodeOrNil, Children
  <2>3. QED
    BY <2>1, <2>2
<1>6. ASSUME NEW m \in Node, par2[m] # m
      PROVE  IF par2[m] = NULL THEN r2 = m ELSE \E e \in Side : ch2[par2[m]][e] = m
  <2>1. m # old /\ par[m] \in NodeOrNil /\ par[old] \in NodeOrNil
    BY <1>2, <1>6 DEF Parents
  <2>2. CASE m = new
    BY <1>1, <1>2, <1>3, <2>1, <2>2 DEF Tree, RootAfter, NodeOrNil
  <2>3. CASE m # new /\ par[m] = old
    BY <1>1, <1>2, <1>3, <2>1, <2>3 DEF Tree, RootAfter, NodeOrNil
  <2>4. CASE m # new /\ par[m] # old
    BY <1>1, <1>2, <1>3, <1>6, <2>1, <2>4 DEF Tree, RootAfter, NodeOrNil
  <2>5. QED
    BY <2>2, <2>3, <2>4
<1>7. QED
  BY <1>4, <1>5, <1>6 DEF Tree

-----------------------------------------------------------------------------

\* __rb_change_child stores where the tree has the child it replaces.
LEMMA ChildSide ==
  ASSUME NEW r \in NodeOrNil, NEW ch \in Children, NEW par \in Parents, Tree(r, ch, par),
         NEW n \in Node, par[n] # n
  PROVE  \A m \in Node, e \in Side :
           ch[m][e] = n <=> m = par[n] /\ e = At(ch, m, n)
<1> USE NodeAssumption
<1> SUFFICES ASSUME NEW m \in Node, NEW e \in Side
             PROVE  ch[m][e] = n <=> m = par[n] /\ e = At(ch, m, n)
  OBVIOUS
<1>1. ASSUME ch[m][e] = n
      PROVE  m = par[n] /\ e = At(ch, m, n)
  BY <1>1, Sides DEF Tree, At
<1>2. ASSUME m = par[n], e = At(ch, m, n)
      PROVE  ch[m][e] = n
  BY <1>2, Sides DEF Tree, At
<1>3. QED
  BY <1>1, <1>2

\* __rb_change_child replaces the one pointer to n.
LEMMA ChangeChildInTree ==
  ASSUME NEW r \in NodeOrNil, NEW ch \in Children, NEW par \in Parents, Tree(r, ch, par),
         NEW n \in Node, par[n] # n, NEW new \in NodeOrNil
  PROVE  /\ ChangeChild(ch, n, new, par[n]) \in Children
         /\ \A m \in Node, e \in Side :
              ChangeChild(ch, n, new, par[n])[m][e] = IF ch[m][e] = n THEN new ELSE ch[m][e]
<1> PICK p \in NodeOrNil : p = par[n]
  BY DEF Parents
<1>1. \A m \in Node, e \in Side : ch[m][e] = n <=> m = p /\ e = At(ch, m, n)
  BY ChildSide
<1>2. CASE p = NULL
  BY <1>1, <1>2, NodeAssumption DEF ChangeChild
<1>3. CASE p \in Node
  BY <1>1, <1>3, NodeAssumption, Sides DEF ChangeChild, Children, At, NodeOrNil
<1>4. QED
  BY <1>2, <1>3 DEF NodeOrNil

\* The memory is a tree in the sense of Tree ...
LEMMA LinksIsTree ==
  ASSUME TypeOK, Links
  PROVE  /\ Par \in Parents
         /\ Tree(rb_node, rb_child, Par)
         /\ rb_node \in NodeOrNil
         /\ rb_child \in Children
         /\ \A n \in Node : Par[n] = rb_parent(n) /\ (Par[n] # n <=> ~RB_EMPTY_NODE(n))
<1>1. /\ Par \in Parents
      /\ \A n \in Node : Par[n] = rb_parent(n) /\ (Par[n] # n <=> ~RB_EMPTY_NODE(n))
  BY ParentType DEF Par, Parents, RB_EMPTY_NODE
<1>2. rb_node \in NodeOrNil /\ rb_child \in Children
  BY DEF TypeOK, Children
<1>3. \A n \in Node, d \in Side : rb_child[n][d] # NULL => rb_child[n][d] \in Node
  BY <1>2 DEF Children, NodeOrNil
<1>4. Tree(rb_node, rb_child, Par)
  BY <1>1, <1>2, <1>3 DEF Links, Tree, RB_EMPTY_NODE, NodeOrNil
<1>5. QED
  BY <1>1, <1>2, <1>4

ParTree ==
  /\ rb_child \in Children
  /\ rb_node \in NodeOrNil
  /\ Par \in Parents
  /\ Tree(rb_node, rb_child, Par)

\* ... and such a tree satisfies Links.
LEMMA TreeIsLinks == ParTree => Links
<1> SUFFICES ASSUME ParTree PROVE Links
  OBVIOUS
<1>1. \A n \in Node : Par[n] = rb_parent(n)
  BY DEF Par
<1>2. \A n \in Node, d \in Side : rb_child[n][d] # NULL => rb_child[n][d] \in Node
  BY DEF Children, NodeOrNil, ParTree
<1>3. QED
  BY <1>1, <1>2 DEF Links, Tree, RB_EMPTY_NODE, NodeOrNil, ParTree

\* Case 1 of __rb_erase_augmented: an only child is red below a black node, so
\* either it takes the place of n and its color, or a black leaf is missed at p.
LEMMA EraseOneChildKeepsIInv ==
  ASSUME IInv, NEW n \in Node, EraseOneChild(n)
  PROVE  IInv' /\ IsSplice(rb_node, rb_child, Par, rb_node', rb_child', Par', n)
<1> USE NodeAssumption
<1>0. TypeOK /\ Links /\ Colors /\ Locals /\ Rotations
  BY DEF IInv
<1> PICK c \in NodeOrNil :
      c = IF rb_child[n]["left"] = NULL THEN rb_child[n]["right"] ELSE rb_child[n]["left"]
  BY <1>0, Sides DEF TypeOK
<1> PICK p \in NodeOrNil : p = rb_parent(n)
  BY <1>0, ParentType
<1> PICK rebalance \in NodeOrNil :
      rebalance = IF c = NULL /\ rb_is_black(n) THEN p ELSE NULL
  BY DEF NodeOrNil
<1>1. /\ pc = "idle"
      /\ ~RB_EMPTY_NODE(n)
      /\ \E d \in Side : rb_child[n][d] = NULL
      /\ rb_child' = [ChangeChild(rb_child, n, c, p) EXCEPT ![n] = Leaf]
      /\ rb_node' = IF p = NULL THEN c ELSE rb_node
      /\ rb_parent_color' =
           [(IF c = NULL THEN rb_parent_color
             ELSE [rb_parent_color EXCEPT ![c] = rb_parent_color[n]]) EXCEPT ![n] = Word(n, "red")]
      /\ rotations' = 0
      /\ node' = NULL /\ dir' = "left" /\ successor' = NULL
      /\ pc' = IF rebalance = NULL THEN "idle" ELSE "erase_color"
      /\ parent' = rebalance
  BY DEF EraseOneChild, ChangeRoot, ClearWord, Rebalance, Return
<1>2. /\ p # NULL => p # n /\ ~RB_EMPTY_NODE(p) /\ SideOf(n, p) \in Side
                     /\ rb_child[p][SideOf(n, p)] = n
      /\ \E d \in Side : c = rb_child[n][d] /\ rb_child[n][Opposite(d)] = NULL
      /\ c # NULL => rb_parent(c) = n /\ c # n /\ ~RB_EMPTY_NODE(c)
      /\ \A d \in Side : rb_child[n][d] # NULL => rb_child[n][d] = c
  <2>2. p # NULL => p # n /\ ~RB_EMPTY_NODE(p) /\ SideOf(n, p) \in Side
                    /\ rb_child[p][SideOf(n, p)] = n
    BY <1>0, <1>1, SideOfChild DEF NodeOrNil
  <2>3. \E d \in Side : c = rb_child[n][d] /\ rb_child[n][Opposite(d)] = NULL
    BY <1>1, Sides
  <2>5. c # NULL => rb_parent(c) = n /\ c # n /\ ~RB_EMPTY_NODE(c)
    BY <1>0, <2>3 DEF Links, RB_EMPTY_NODE
  <2>6. \A d \in Side : rb_child[n][d] # NULL => rb_child[n][d] = c
    BY <2>3, Sides
  <2>7. QED
    BY <2>2, <2>3, <2>5, <2>6
<1>3. PICK B \in [Node -> Nat] : Labels(B)
  BY DEF IInv
<1>4. /\ B[n] = IF rb_is_black(n) THEN 1 ELSE 0
      /\ c # NULL => /\ B[c] = 0 /\ B[n] = 1
                     /\ ~rb_is_black(c) /\ rb_is_black(n)
                     /\ p # c
  <2>1. \A d \in Side : B[n] = Own(n) + Down(B, rb_child[n][d])
    BY <1>0, <1>1, <1>3, LabelTypes DEF Labels, Short
  <2>2. B[n] = Own(n)
    BY <1>0, <1>1, <2>1, LabelTypes DEF Down
  <2>3. ASSUME c # NULL
        PROVE  /\ B[c] = 0 /\ B[n] = 1
               /\ ~rb_is_black(c) /\ rb_is_black(n)
               /\ p # c
    <3>1. c \in Node /\ ~RB_EMPTY_NODE(c)
      BY <1>2, <2>3 DEF NodeOrNil
    <3>2. B[c] = 0
      BY <1>0, <1>2, <2>1, <2>2, <2>3, <3>1, LabelTypes DEF Down
    <3>3. B[c] = Own(c) + Down(B, rb_child[c]["left"])
      BY <1>0, <1>1, <1>3, <3>1, LabelTypes, Sides DEF Labels, Short
    <3>4. ~rb_is_black(c)
      BY <1>0, <3>1, <3>2, <3>3, LabelTypes, Sides DEF Own
    <3>5. rb_is_black(n)
      BY <1>0, <1>1, <1>2, <2>3, <3>1, <3>4 DEF Colors
    <3>6. p # c
      <4>1. Rank(B, c) < Rank(B, n) /\ Rank(B, c) \in Nat /\ Rank(B, n) \in Nat
        BY <1>0, <1>1, <1>2, <1>3, <3>1, RankDown
      <4>2. p # NULL => Rank(B, n) < Rank(B, p) /\ Rank(B, p) \in Nat
        BY <1>0, <1>1, <1>2, <1>3, RankDown DEF NodeOrNil
      <4>3. QED
        BY <2>3, <4>1, <4>2
    <3>7. QED
      BY <2>2, <3>2, <3>4, <3>5, <3>6 DEF Own
  <2>4. QED
    BY <2>2, <2>3 DEF Own
<1>5. \A m \in Node, e \in Side :
        rb_child'[m][e] = IF m = n THEN NULL
                          ELSE IF rb_child[m][e] = n THEN c ELSE rb_child[m][e]
  <2>1. /\ Par \in Parents /\ Tree(rb_node, rb_child, Par)
        /\ rb_node \in NodeOrNil /\ rb_child \in Children
        /\ Par[n] = p /\ Par[n] # n
    BY <1>0, <1>1, LinksIsTree
  <2>2. ChangeChild(rb_child, n, c, p) \in Children
    BY <2>1, ChangeChildInTree
  <2>3. \A m \in Node, e \in Side :
          ChangeChild(rb_child, n, c, p)[m][e] = IF rb_child[m][e] = n THEN c ELSE rb_child[m][e]
    BY <2>1, ChangeChildInTree
  <2>4. QED
    BY <1>1, <2>2, <2>3 DEF Children, Leaf
<1>6. rb_child' \in Children
  BY <1>0, <1>1, <1>2, ChangeChildStores DEF TypeOK, Children, Leaf, NodeOrNil
<1>7. /\ rb_parent_color' \in Words
      /\ \A m \in Node : rb_parent(m)' = IF m = n THEN n ELSE IF m = c THEN p ELSE rb_parent(m)
      /\ \A m \in Node : rb_is_black(m)' <=> m # n /\ (rb_is_black(m) \/ m = c)
      /\ \A m \in Node : RB_EMPTY_NODE(m)' <=> RB_EMPTY_NODE(m) \/ m = n
  <2>1. rb_parent_color \in Words
    BY <1>0 DEF TypeOK, Words
  <2>2. /\ rb_parent_color' \in Words
        /\ \A m \in Node : rb_parent_color'[m] =
             IF m = n THEN Word(n, "red") ELSE IF m = c THEN rb_parent_color[n] ELSE rb_parent_color[m]
    BY <1>1, <1>2, <2>1 DEF Words, Word, NodeOrNil, Color
  <2>3. \A m \in Node : rb_parent(m)' = IF m = n THEN n ELSE IF m = c THEN p ELSE rb_parent(m)
    BY <2>2 DEF rb_parent, Word
  <2>4. \A m \in Node : rb_is_black(m)' <=> m # n /\ (rb_is_black(m) \/ m = c)
    BY <1>4, <2>2 DEF rb_is_black, Word
  <2>5. \A m \in Node : RB_EMPTY_NODE(m)' <=> RB_EMPTY_NODE(m) \/ m = n
    BY <1>2, <1>4, <2>3 DEF RB_EMPTY_NODE
  <2>6. QED
    BY <2>2, <2>3, <2>4, <2>5
<1>9. TypeOK'
  BY <1>0, <1>1, <1>2, <1>6, <1>7 DEF TypeOK, Children, Words, NodeOrNil, Side
<1>10. Links' /\ IsSplice(rb_node, rb_child, Par, rb_node', rb_child', Par', n)
  <2>1. /\ Par \in Parents
        /\ Tree(rb_node, rb_child, Par)
        /\ rb_node \in NodeOrNil
        /\ rb_child \in Children
        /\ \A m \in Node : Par[m] = rb_parent(m)
    BY <1>0, LinksIsTree
  <2>2. rb_child' = Spliced(rb_child, n, c)
    <3>1. Spliced(rb_child, n, c) \in Children
      BY <2>1, SplicedTypes
    <3>2. \A m \in Node, e \in Side : rb_child'[m][e] = Spliced(rb_child, n, c)[m][e]
      BY <1>5 DEF Spliced
    <3>3. QED
      BY <1>6, <3>1, <3>2, SameChildren
  <2>3. Par' = SplicedPar(Par, n, c)
    BY <1>7, <2>1 DEF Par, SplicedPar
  <2>4. rb_node' = RootAfter(rb_node, Par, n, c)
    BY <1>1, <2>1 DEF RootAfter
  <2>5. Tree(rb_node', rb_child', Par')
    BY <1>1, <1>2, <1>4, <2>1, <2>2, <2>3, <2>4, SplicedTree DEF RB_EMPTY_NODE
  <2>6. ParTree'
    BY <1>6, <1>9, <2>1, <2>3, <2>5, SplicedTypes DEF ParTree, TypeOK
  <2>7. Links'
    BY <2>6, TreeIsLinks, PTL
  <2>8. PICK d \in Side : c = rb_child[n][d] /\ rb_child[n][Opposite(d)] = NULL
    BY <1>2
  <2>9. Par[n] # n /\ (c # NULL => Par[n] # c)
    BY <1>1, <1>4, <2>1 DEF RB_EMPTY_NODE
  <2>10. QED
    BY <2>2, <2>3, <2>4, <2>7, <2>8, <2>9 DEF IsSplice
<1>11. Colors'
  <2>1. ASSUME NEW m \in Node, ~RB_EMPTY_NODE(m)', ~rb_is_black(m)'
        PROVE  rb_parent(m)' # NULL /\ rb_is_black(rb_parent(m))'
    <3>1. /\ ~RB_EMPTY_NODE(m) /\ ~rb_is_black(m) /\ m # n /\ m # c
          /\ rb_parent(m)' = rb_parent(m)
      BY <1>7, <2>1
    <3>2. rb_parent(m) \in Node /\ rb_is_black(rb_parent(m))
      BY <1>0, <1>1, <3>1, ParentType DEF Colors, NodeOrNil
    <3>3. rb_parent(m) # n
      BY <1>0, <1>1, <1>2, <3>1, SideOfChild
    <3>4. QED
      BY <1>7, <3>1, <3>2, <3>3
  <2>2. QED
    BY <2>1 DEF Colors
<1>12. ASSUME rebalance = NULL PROVE IInv'
  <2>1. Locals'
    BY <1>1, <1>12 DEF Locals
  <2>2. Rotations'
    BY <1>1, <1>12 DEF Rotations
  <2> PICK C \in [Node -> Nat] : \A m \in Node : C[m] = IF m = c THEN 1 ELSE B[m]
    <3>1. [m \in Node |-> IF m = c THEN 1 ELSE B[m]] \in [Node -> Nat]
      OBVIOUS
    <3>2. QED
      BY <3>1
  <2>3. ASSUME NEW m \in Node, ~RB_EMPTY_NODE(m)', NEW d \in Side
        PROVE  C[m] = Own(m)' + Down(C, rb_child[m][d])' + Short(m, d)'
    <3>1. m # n /\ ~RB_EMPTY_NODE(m) /\ Short(m, d)' = 0
      BY <1>1, <1>7, <1>12, <2>3 DEF Short
    <3>2. B[m] = Own(m) + Down(B, rb_child[m][d])
      BY <1>0, <1>1, <1>3, <3>1, LabelTypes DEF Labels, Short
    <3>3. Down(C, rb_child[m][d])' = Down(B, rb_child[m][d])
      <4>1. CASE rb_child[m][d] = n
        <5>1. p = m /\ rb_child'[m][d] = c
          BY <1>0, <1>5, <3>1, <4>1 DEF Links
        <5>2. c # NULL \/ ~rb_is_black(n)
          BY <1>12, <5>1
        <5>3. Down(B, rb_child[m][d]) = B[n]
          BY <4>1 DEF Down
        <5>4. c # NULL => C[c] = 1
          BY DEF NodeOrNil
        <5>5. QED
          BY <1>4, <5>1, <5>2, <5>3, <5>4 DEF Down
      <4>2. CASE rb_child[m][d] # n
        BY <1>0, <1>2, <1>5, <3>1, <4>2, LabelTypes DEF Down, NodeOrNil, Links
      <4>3. QED
        BY <4>1, <4>2
    <3>4. QED
      BY <1>0, <1>4, <1>7, <3>1, <3>2, <3>3, LabelTypes DEF Own
  <2>4. Labels(C)'
    BY <1>1, <1>12, <2>3 DEF Labels
  <2>5. QED
    BY <1>9, <1>10, <1>11, <2>1, <2>2, <2>4 DEF IInv
<1>13. ASSUME rebalance # NULL PROVE IInv'
  <2>1. /\ c = NULL /\ rb_is_black(n) /\ p \in Node /\ parent' = p /\ pc' = "erase_color"
        /\ B[n] = 1
    BY <1>1, <1>2, <1>4, <1>13 DEF NodeOrNil
  <2>2. \A d \in Side : B[p] = Own(p) + Down(B, rb_child[p][d])
    BY <1>0, <1>1, <1>2, <1>3, <2>1, LabelTypes DEF Labels, Short
  <2>3. Down(B, rb_child[p][SideOf(n, p)]) = 1
    BY <1>2, <2>1 DEF Down
  <2>4. \A d \in Side : rb_child[p][d] # NULL
    BY <1>0, <1>2, <2>1, <2>2, <2>3, LabelTypes DEF Down
  <2>5. \A d \in Side : d = SideOf(node, parent)' <=> rb_child[p][d] = n
    BY <1>0, <1>1, <1>2, <1>5, <2>1, <2>4, Sides DEF SideOf, Links
  <2>6. Locals'
    BY <1>1, <1>2, <1>5, <1>7, <2>1, <2>5 DEF Locals
  <2>7. Rotations'
    BY <1>1 DEF Rotations
  <2>8. ASSUME NEW m \in Node, ~RB_EMPTY_NODE(m)', NEW d \in Side
        PROVE  B[m] = Own(m)' + Down(B, rb_child[m][d])' + Short(m, d)'
    <3>1. m # n /\ ~RB_EMPTY_NODE(m) /\ Own(m)' = Own(m)
      BY <1>7, <2>1, <2>8 DEF Own
    <3>2. B[m] = Own(m) + Down(B, rb_child[m][d])
      BY <1>0, <1>1, <1>3, <3>1, LabelTypes DEF Labels, Short
    <3>3. CASE rb_child[m][d] = n
      <4>1. m = p /\ Short(m, d)' = 1
        BY <1>0, <1>1, <2>1, <2>5, <3>3 DEF Links, Short
      <4>2. Down(B, rb_child[m][d])' = 0 /\ Down(B, rb_child[m][d]) = 1
        BY <1>5, <2>1, <3>1, <3>3 DEF Down
      <4>3. QED
        BY <1>0, <3>1, <3>2, <4>1, <4>2, LabelTypes
    <3>4. CASE rb_child[m][d] # n
      <4>1. Short(m, d)' = 0
        BY <1>1, <2>1, <2>5, <3>4 DEF Short
      <4>2. Down(B, rb_child[m][d])' = Down(B, rb_child[m][d])
        BY <1>5, <3>1, <3>4 DEF Down
      <4>3. QED
        BY <1>0, <3>1, <3>2, <4>1, <4>2, LabelTypes
    <3>5. QED
      BY <3>3, <3>4
  <2>9. Labels(B)'
    BY <2>1, <2>8 DEF Labels
  <2>10. QED
    BY <1>9, <1>10, <1>11, <2>6, <2>7, <2>9 DEF IInv
<1>14. QED
  BY <1>10, <1>12, <1>13

\* The search for the successor goes down in rank, away from the erased node.
LEMMA SuccessorStepKeepsIInv ==
  ASSUME IInv, SuccessorStep
  PROVE  IInv'
<1> USE NodeAssumption
<1>0. TypeOK /\ Links /\ Colors /\ Locals /\ Rotations
  BY DEF IInv
<1> PICK next \in NodeOrNil : next = rb_child[successor]["left"]
  BY <1>0, Sides DEF TypeOK, SuccessorStep, Locals
<1>1. /\ pc = "successor" /\ pc' = "successor"
      /\ next # NULL /\ parent' = successor /\ successor' = next
      /\ UNCHANGED <<rb_node, rb_child, rb_parent_color, node, dir, rotations>>
  BY DEF SuccessorStep, tree
<1>2. /\ node \in Node /\ ~RB_EMPTY_NODE(node)
      /\ \A d \in Side : rb_child[node][d] # NULL
      /\ successor \in Node /\ ~RB_EMPTY_NODE(successor)
      /\ next \in Node /\ rb_parent(next) = successor /\ next # successor
      /\ ~RB_EMPTY_NODE(next)
  BY <1>0, <1>1, Sides DEF Locals, Links, NodeOrNil, RB_EMPTY_NODE
<1>3. /\ \A m \in Node : rb_parent(m)' = rb_parent(m)
      /\ \A m \in Node : rb_is_black(m)' <=> rb_is_black(m)
      /\ \A m \in Node : RB_EMPTY_NODE(m)' <=> RB_EMPTY_NODE(m)
  BY <1>1 DEF rb_parent, rb_is_black, RB_EMPTY_NODE
<1>4. TypeOK'
  BY <1>0, <1>1, <1>2 DEF TypeOK, NodeOrNil
<1>5. Links'
  BY <1>0, <1>1, <1>3 DEF Links, TypeOK, NodeOrNil
<1>6. Colors'
  BY <1>0, <1>1, <1>3, ParentType DEF Colors, TypeOK, NodeOrNil
<1>7. Locals'
  BY <1>1, <1>2, <1>3 DEF Locals
<1>8. Rotations'
  BY <1>0, <1>1 DEF Rotations
<1>9. \E B \in [Node -> Nat] : Labels(B)'
  <2> PICK B \in [Node -> Nat] : Labels(B)
    BY DEF IInv
  <2>1. \A m \in Node, d \in Side : Short(m, d)' = Short(m, d) /\ Own(m)' = Own(m)
    BY <1>1, <1>3 DEF Short, Own
  <2>2. ASSUME NEW m \in Node, ~RB_EMPTY_NODE(m)', NEW d \in Side
        PROVE  B[m] = Own(m)' + Down(B, rb_child[m][d])' + Short(m, d)'
    BY <1>1, <1>3, <2>1, <2>2 DEF Labels, Down
  <2>3. Rank(B, successor) < Rank(B, node)
    BY <1>1 DEF Labels
  <2>4. /\ Rank(B, next) < Rank(B, successor)
        /\ Rank(B, next) \in Nat /\ Rank(B, successor) \in Nat
    BY <1>0, <1>1, <1>2, RankDown, Sides
  <2>5. Rank(B, node) \in Nat
    BY <1>2 DEF Rank
  <2>6. Rank(B, next) < Rank(B, node)
    BY <2>3, <2>4, <2>5
  <2>7. Rank(B, successor)' < Rank(B, node)' /\ Rank(B, parent)' < Rank(B, node)'
    BY <1>1, <1>2, <1>3, <2>3, <2>6 DEF Rank
  <2>8. Labels(B)'
    BY <2>2, <2>7 DEF Labels
  <2>9. QED
    BY <2>8
<1>10. QED
  BY <1>4, <1>5, <1>6, <1>7, <1>8, <1>9 DEF IInv

\* rb_replace_node gives the new node the links and the color of the victim.
LEMMA ReplaceKeepsIInv ==
  ASSUME IInv, NEW victim \in Node, NEW new \in Node, Replace(victim, new)
  PROVE  IInv' /\ IsSwap(rb_node, rb_child, Par, rb_node', rb_child', Par', victim, new)
<1> USE NodeAssumption
<1>0. TypeOK /\ Links /\ Colors /\ Locals /\ Rotations
  BY DEF IInv
<1> PICK p \in NodeOrNil : p = rb_parent(victim)
  BY <1>0, ParentType
<1> PICK a \in NodeOrNil : a = rb_child[victim]["left"]
  BY <1>0, Sides DEF TypeOK
<1> PICK b \in NodeOrNil : b = rb_child[victim]["right"]
  BY <1>0, Sides DEF TypeOK
<1>w. PICK w \in Words : w = [rb_parent_color EXCEPT ![new] = rb_parent_color[victim]]
  BY <1>0 DEF TypeOK, Words
<1>ch. PICK ch \in Children : ch = [rb_child EXCEPT ![new] = rb_child[victim]]
  BY <1>0 DEF TypeOK, Children
<1>1. /\ pc = "idle"
      /\ ~RB_EMPTY_NODE(victim)
      /\ RB_EMPTY_NODE(new)
      /\ rb_child' = [ChangeChild(ch, victim, new, p) EXCEPT ![victim] = Leaf]
      /\ rb_node' = IF p = NULL THEN new ELSE rb_node
      /\ rb_parent_color' = [SetParentIfAny(SetParentIfAny(w, a, new), b, new)
                               EXCEPT ![victim] = Word(victim, "red")]
      /\ UNCHANGED <<pc, node, parent, dir, successor, rotations>>
  BY <1>w, <1>ch DEF Replace, ChangeRoot, ClearWord, locals
<1>2. /\ Par \in Parents /\ Tree(rb_node, rb_child, Par)
      /\ rb_node \in NodeOrNil /\ rb_child \in Children
      /\ Par[victim] = p /\ Par[victim] # victim /\ Par[new] = new
      /\ \A m \in Node : Par[m] = rb_parent(m)
  BY <1>0, <1>1, LinksIsTree
<1>3. /\ victim # new
      /\ \A m \in Node, e \in Side : rb_child[m][e] # new
      /\ \A e \in Side : rb_child[new][e] = NULL
      /\ p # new /\ p # victim
      /\ p # NULL => \E e \in Side : rb_child[p][e] = victim
      /\ \A m \in Node : m # NULL => (m = a \/ m = b <=> Par[m] = victim)
  <2>1. /\ victim # new
        /\ \A m \in Node, e \in Side : rb_child[m][e] # new
        /\ \A e \in Side : rb_child[new][e] = NULL
        /\ p # new /\ p # victim
        /\ p # NULL => \E e \in Side : rb_child[p][e] = victim
    BY <1>1, <1>2 DEF Tree, NodeOrNil
  <2>2. \A m \in Node : m # NULL => (m = a \/ m = b <=> Par[m] = victim)
    BY <1>1, <1>2, Sides DEF Tree, NodeOrNil
  <2>3. QED
    BY <2>1, <2>2
<1>4. rb_child' \in Children /\ rb_child' = Swapped(rb_child, victim, new)
  <2>1. \A m \in Node, e \in Side : ch[m][e] = IF m = new THEN rb_child[victim][e] ELSE rb_child[m][e]
    BY <1>2, <1>ch DEF Children
  <2>2. \A m \in Node, e \in Side : rb_child[m][e] = victim <=> m = p /\ e = At(rb_child, m, victim)
    BY <1>2, ChildSide
  <2>3. p # NULL => p \in Node /\ At(rb_child, p, victim) = At(ch, p, victim)
    BY <1>3, <2>1, Sides DEF At, NodeOrNil
  <2>4. /\ ChangeChild(ch, victim, new, p) \in Children
        /\ \A m \in Node, e \in Side :
             ChangeChild(ch, victim, new, p)[m][e] =
               IF m = new THEN rb_child[victim][e]
               ELSE IF rb_child[m][e] = victim THEN new ELSE rb_child[m][e]
    <3>1. CASE p = NULL
      BY <1>3, <2>1, <2>2, <3>1 DEF ChangeChild
    <3>2. CASE p \in Node
      <4>1. ChangeChild(ch, victim, new, p) = [ch EXCEPT ![p][At(ch, p, victim)] = new]
        BY <3>2 DEF ChangeChild, At
      <4>2. At(ch, p, victim) \in Side
        BY Sides DEF At
      <4>3. ChangeChild(ch, victim, new, p) \in Children
        BY <3>2, <4>1, <4>2 DEF Children, NodeOrNil
      <4>4. \A m \in Node, e \in Side :
              ChangeChild(ch, victim, new, p)[m][e] =
                IF m = p /\ e = At(ch, p, victim) THEN new ELSE ch[m][e]
        BY <3>2, <4>1, <4>2 DEF Children, NodeOrNil
      <4>5. QED
        BY <1>3, <2>1, <2>2, <2>3, <3>2, <4>3, <4>4
    <3>3. QED
      BY <3>1, <3>2 DEF NodeOrNil
  <2>5. rb_child' \in Children
    BY <1>1, <2>4 DEF Children, Leaf, NodeOrNil
  <2>6. \A m \in Node, e \in Side : rb_child'[m][e] = Swapped(rb_child, victim, new)[m][e]
    BY <1>1, <2>4 DEF Children, Leaf, Swapped
  <2>7. QED
    BY <1>2, <2>5, <2>6, SwappedTypes, SameChildren
<1>5. /\ rb_parent_color' \in Words
      /\ \A m \in Node : rb_parent(m)' = IF m = victim THEN victim ELSE IF m = new THEN p
                                         ELSE IF rb_parent(m) = victim THEN new ELSE rb_parent(m)
      /\ \A m \in Node : rb_is_black(m)' <=> /\ m # victim
                                             /\ IF m = new THEN rb_is_black(victim) ELSE rb_is_black(m)
  <2>w1. PICK w1 \in Words : w1 = SetParentIfAny(w, a, new)
    BY SetParentIfAnyStores DEF NodeOrNil
  <2>w2. PICK w2 \in Words : w2 = SetParentIfAny(w1, b, new)
    BY SetParentIfAnyStores DEF NodeOrNil
  <2>1. \A m \in Node : w[m] = IF m = new THEN rb_parent_color[victim] ELSE rb_parent_color[m]
    BY <1>0, <1>w DEF TypeOK
  <2>2. \A m \in Node : w1[m].parent = (IF m = a THEN new ELSE w[m].parent) /\ w1[m].color = w[m].color
    BY <2>w1 DEF SetParentIfAny, NodeOrNil, Words
  <2>3. \A m \in Node : w2[m].parent = (IF m = b THEN new ELSE w1[m].parent) /\ w2[m].color = w1[m].color
    BY <2>w2 DEF SetParentIfAny, NodeOrNil, Words
  <2>4. rb_parent_color' = [w2 EXCEPT ![victim] = Word(victim, "red")]
    BY <1>1, <2>w1, <2>w2
  <2>5. rb_parent_color' \in Words
    BY <2>4, WordStores DEF NodeOrNil, Color
  <2>6. \A m \in Node : rb_parent_color'[m] = IF m = victim THEN Word(victim, "red") ELSE w2[m]
    BY <2>4 DEF Words
  <2>7. \A m \in Node : rb_parent(m)' = IF m = victim THEN victim ELSE IF m = new THEN p
                                        ELSE IF rb_parent(m) = victim THEN new ELSE rb_parent(m)
    <3>1. \A m \in Node : w2[m].parent = IF m = a \/ m = b THEN new ELSE w[m].parent
      BY <2>2, <2>3
    <3>2. \A m \in Node : w[m].parent = IF m = new THEN p ELSE rb_parent(m)
      BY <2>1 DEF rb_parent
    <3>3. \A m \in Node : rb_parent(m)' = IF m = victim THEN victim ELSE w2[m].parent
      BY <2>6 DEF rb_parent, Word
    <3>4. new # a /\ new # b
      BY <1>3, Sides DEF NodeOrNil
    <3>5. QED
      BY <1>2, <1>3, <3>1, <3>2, <3>3, <3>4
  <2>8. \A m \in Node : rb_is_black(m)' <=> /\ m # victim
                                            /\ IF m = new THEN rb_is_black(victim) ELSE rb_is_black(m)
    <3>1. \A m \in Node : w2[m].color = IF m = new THEN rb_parent_color[victim].color
                                         ELSE rb_parent_color[m].color
      BY <2>1, <2>2, <2>3
    <3>2. QED
      BY <2>6, <3>1 DEF rb_is_black, Word
  <2>9. QED
    BY <2>5, <2>7, <2>8
<1>6. TypeOK'
  BY <1>0, <1>1, <1>4, <1>5 DEF TypeOK, Children, Words, NodeOrNil
<1>7. Links' /\ IsSwap(rb_node, rb_child, Par, rb_node', rb_child', Par', victim, new)
  <2>1. Par' = SwappedPar(Par, victim, new)
    BY <1>2, <1>5 DEF Par, SwappedPar
  <2>2. rb_node' = RootAfter(rb_node, Par, victim, new)
    BY <1>1, <1>2 DEF RootAfter
  <2>3. ParTree'
    BY <1>2, <1>4, <1>6, <2>1, <2>2, SwappedTree, SwappedTypes DEF ParTree, TypeOK
  <2>4. Links'
    BY <2>3, TreeIsLinks, PTL
  <2>5. QED
    BY <1>2, <1>4, <2>1, <2>2, <2>4 DEF IsSwap
<1>8. \A m \in Node : RB_EMPTY_NODE(m)' <=> m = victim \/ (RB_EMPTY_NODE(m) /\ m # new)
  BY <1>3, <1>5 DEF RB_EMPTY_NODE
<1>9. Colors'
  <2>1. ASSUME NEW m \in Node, ~RB_EMPTY_NODE(m)', ~rb_is_black(m)'
        PROVE  rb_parent(m)' # NULL /\ rb_is_black(rb_parent(m))'
    <3>1. CASE m = new
      BY <1>0, <1>1, <1>3, <1>5, <2>1, <3>1 DEF Colors, NodeOrNil
    <3>2. CASE m # new
      BY <1>0, <1>1, <1>2, <1>3, <1>5, <1>8, <2>1, <3>2, ParentType DEF Colors, NodeOrNil, Tree
    <3>3. QED
      BY <3>1, <3>2
  <2>2. QED
    BY <2>1 DEF Colors
<1>10. Locals'
  BY <1>0, <1>1 DEF Locals
<1>11. Rotations'
  BY <1>0, <1>1 DEF Rotations
<1>12. \E B \in [Node -> Nat] : Labels(B)'
  <2> PICK B \in [Node -> Nat] : Labels(B)
    BY DEF IInv
  <2> PICK C \in [Node -> Nat] : \A m \in Node : C[m] = IF m = new THEN B[victim] ELSE B[m]
    <3>1. [m \in Node |-> IF m = new THEN B[victim] ELSE B[m]] \in [Node -> Nat]
      OBVIOUS
    <3>2. QED
      BY <3>1
  <2>1. ASSUME NEW m \in Node, ~RB_EMPTY_NODE(m)', NEW d \in Side
        PROVE  C[m] = Own(m)' + Down(C, rb_child[m][d])' + Short(m, d)'
    <3> PICK n \in Node : n = IF m = new THEN victim ELSE m
      OBVIOUS
    <3>1. ~RB_EMPTY_NODE(n) /\ m # victim /\ Short(m, d)' = 0 /\ Own(m)' = Own(n)
      BY <1>1, <1>5, <1>8, <2>1 DEF Short, Own
    <3>2. B[n] = Own(n) + Down(B, rb_child[n][d])
      BY <1>0, <1>1, <3>1, LabelTypes DEF Labels, Short
    <3>3. rb_child'[m][d] = IF rb_child[n][d] = victim THEN new ELSE rb_child[n][d]
      BY <1>2, <1>4, <3>1 DEF Swapped, Tree, NodeOrNil
    <3>4. Down(C, rb_child[m][d])' = Down(B, rb_child[n][d])
      BY <1>0, <1>3, <3>3, LabelTypes DEF Down, NodeOrNil
    <3>5. C[m] = B[n]
      OBVIOUS
    <3>6. QED
      BY <1>0, <3>1, <3>2, <3>4, <3>5, LabelTypes
  <2>2. Labels(C)'
    BY <1>1, <2>1 DEF Labels
  <2>3. QED
    BY <2>2
<1>13. QED
  BY <1>6, <1>7, <1>9, <1>10, <1>11, <1>12 DEF IInv

\* One rotation and its __rb_change_child.
LEMMA RotationStores ==
  ASSUME NEW r \in NodeOrNil, NEW ch \in Children, NEW par \in Parents, Tree(r, ch, par),
         NEW p \in Node, NEW s \in Node, NEW d \in Side, ch[p][Opposite(d)] = s,
         par[p] # s
  PROVE  ChangeChild(RotateStores(ch, p, s, d), p, s, par[p]) = Turned(ch, p, s, d)
<1> USE NodeAssumption
<1>1. p # s /\ par[p] # p /\ Opposite(d) \in Side
  BY Sides DEF Tree, NodeOrNil
<1>a. RotateStores(ch, p, s, d) \in Children
  BY <1>1, RotateStoresStores
<1>b. \A n \in Node, e \in Side :
        RotateStores(ch, p, s, d)[n][e] =
          IF n = p /\ e # d THEN ch[s][d] ELSE IF n = s /\ e = d THEN p ELSE ch[n][e]
  BY <1>1, RotateStoresStores
<1>gp. PICK gp \in NodeOrNil : gp = par[p]
  BY DEF Parents
<1>c. PICK ch1 \in Children : ch1 = RotateStores(ch, p, s, d)
  BY <1>a
<1>2. \A n \in Node, e \in Side :
        ch1[n][e] = IF n = p /\ e # d THEN ch[s][d] ELSE IF n = s /\ e = d THEN p ELSE ch[n][e]
  BY <1>b, <1>c
<1>3. \A n \in Node, e \in Side : ch[n][e] = p <=> n = gp /\ e = At(ch, n, p)
  BY <1>1, <1>gp, ChildSide
<1>d. gp # p /\ gp # s
  BY <1>1, <1>gp
<1>4. /\ ChangeChild(ch1, p, s, gp) \in Children
      /\ \A n \in Node, e \in Side :
           ChangeChild(ch1, p, s, gp)[n][e] = IF ch[n][e] = p THEN s ELSE ch1[n][e]
  <2>1. CASE gp = NULL
    BY <1>3, <2>1 DEF ChangeChild
  <2>2. CASE gp \in Node
    <3>1. At(ch1, gp, p) = At(ch, gp, p) /\ At(ch, gp, p) \in Side
      BY <1>2, <1>d, <2>2, Sides DEF At
    <3>2. ChangeChild(ch1, p, s, gp) = [ch1 EXCEPT ![gp][At(ch, gp, p)] = s]
      BY <2>2, <3>1 DEF ChangeChild, At
    <3>3. QED
      BY <1>3, <2>2, <3>1, <3>2 DEF Children, NodeOrNil
  <2>3. QED
    BY <2>1, <2>2 DEF NodeOrNil
<1>5. \A n \in Node, e \in Side : ChangeChild(ch1, p, s, gp)[n][e] = Turned(ch, p, s, d)[n][e]
  <2> TAKE n \in Node, e \in Side
  <2>1. ch[n][e] = p => n # p /\ n # s
    BY <1>3, <1>d
  <2>2. QED
    BY <1>2, <1>4, <2>1 DEF Turned
<1>6. QED
  BY <1>4, <1>5, <1>gp, <1>c, TurnedTypes, SameChildren

\* What the erase loop finds around node.
LEMMA AroundShort ==
  ASSUME IInv, pc = "erase_color", NEW B \in [Node -> Nat], Labels(B)
  PROVE  /\ parent \in Node /\ ~RB_EMPTY_NODE(parent)
         /\ SideOf(node, parent) \in Side
         /\ rb_child[parent][SideOf(node, parent)] = node
         /\ Sibling \in Node /\ ~RB_EMPTY_NODE(Sibling)
         /\ rb_child[parent][Opposite(SideOf(node, parent))] = Sibling
         /\ rb_parent(Sibling) = parent /\ Sibling # parent /\ Sibling # node
         /\ Down(B, node) \in Nat
         /\ B[Sibling] = Down(B, node) + 1
         /\ B[parent] = Own(parent) + B[Sibling]
         /\ node # NULL => /\ node \in Node /\ rb_is_black(node) /\ rb_parent(node) = parent
                           /\ node # parent
         /\ \A e \in Side : B[Sibling] = Own(Sibling) + Down(B, Nephew(e))
         /\ \A e \in Side : Nephew(e) # NULL =>
              /\ Nephew(e) \in Node /\ ~RB_EMPTY_NODE(Nephew(e))
              /\ rb_parent(Nephew(e)) = Sibling /\ Nephew(e) # Sibling
<1> USE NodeAssumption
<1>0. TypeOK /\ Links /\ Colors /\ Locals
  BY DEF IInv
<1>1. /\ parent \in Node /\ ~RB_EMPTY_NODE(parent)
      /\ rb_child[parent][SideOf(node, parent)] = node
      /\ node # NULL => rb_is_black(node)
  BY <1>0 DEF Locals
<1>2. SideOf(node, parent) \in Side
  BY Sides DEF SideOf
<1>d. PICK d \in Side : d = SideOf(node, parent)
  BY <1>2
<1>3. Opposite(d) \in Side /\ Opposite(d) # d
  BY Sides
<1>4. B[parent] = Own(parent) + Down(B, node) + 1
  BY <1>0, <1>1, <1>d, LabelTypes DEF Labels, Short
<1>5. B[parent] = Own(parent) + Down(B, rb_child[parent][Opposite(d)])
  BY <1>0, <1>1, <1>3, <1>d, LabelTypes DEF Labels, Short
<1>6. /\ rb_child[parent][Opposite(d)] \in NodeOrNil
      /\ Down(B, rb_child[parent][Opposite(d)]) \in Nat
      /\ Down(B, node) \in Nat
      /\ Own(parent) \in Nat
  BY <1>0, <1>1, <1>3, <1>d, LabelTypes
<1>7. /\ Down(B, rb_child[parent][Opposite(d)]) = Down(B, node) + 1
      /\ rb_child[parent][Opposite(d)] # NULL
  BY <1>4, <1>5, <1>6 DEF Down
<1>8. Sibling = rb_child[parent][Opposite(d)]
  BY <1>d DEF Sibling
<1>9. /\ Sibling \in Node
      /\ rb_parent(Sibling) = parent /\ Sibling # parent /\ ~RB_EMPTY_NODE(Sibling)
      /\ Sibling # node
      /\ B[Sibling] = Down(B, node) + 1
      /\ B[parent] = Own(parent) + B[Sibling]
  <2>1. Sibling \in Node
    BY <1>6, <1>7, <1>8 DEF NodeOrNil
  <2>2. rb_parent(Sibling) = parent /\ Sibling # parent /\ ~RB_EMPTY_NODE(Sibling)
    BY <1>0, <1>1, <1>3, <1>7, <1>8 DEF Links, RB_EMPTY_NODE
  <2>3. Sibling # node
    BY <1>0, <1>1, <1>3, <1>7, <1>8, <1>d DEF Links
  <2>4. B[Sibling] = Down(B, node) + 1 /\ B[parent] = Own(parent) + B[Sibling]
    BY <1>5, <1>7, <1>8 DEF Down
  <2>5. QED
    BY <2>1, <2>2, <2>3, <2>4
<1>10. node # NULL => node \in Node /\ rb_parent(node) = parent /\ node # parent
  BY <1>0, <1>1, <1>2 DEF Links, TypeOK, NodeOrNil
<1>11. \A e \in Side : B[Sibling] = Own(Sibling) + Down(B, Nephew(e))
  <2> TAKE e \in Side
  <2>1. Short(Sibling, e) = 0
    BY <1>9 DEF Short
  <2>2. B[Sibling] = Own(Sibling) + Down(B, rb_child[Sibling][e]) + Short(Sibling, e)
    BY <1>9 DEF Labels
  <2>3. Own(Sibling) \in Nat /\ Down(B, rb_child[Sibling][e]) \in Nat
    BY <1>0, <1>9, LabelTypes
  <2>4. QED
    BY <2>1, <2>2, <2>3 DEF Nephew
<1>12. \A e \in Side : Nephew(e) # NULL =>
         /\ Nephew(e) \in Node /\ ~RB_EMPTY_NODE(Nephew(e))
         /\ rb_parent(Nephew(e)) = Sibling /\ Nephew(e) # Sibling
  BY <1>0, <1>9 DEF Links, Nephew, TypeOK, NodeOrNil, RB_EMPTY_NODE
<1>13. QED
  BY <1>1, <1>2, <1>6, <1>8, <1>9, <1>10, <1>11, <1>12, <1>d

\* A red sibling takes one black from its own side too: then the whole subtree
\* lacks one, and a red parent makes up for it.
LEMMA EraseFlipKeepsIInv ==
  ASSUME IInv, EraseFlip
  PROVE  IInv'
<1> USE NodeAssumption
<1>0. TypeOK /\ Links /\ Colors /\ Locals /\ Rotations
  BY DEF IInv
<1>1. PICK B \in [Node -> Nat] : Labels(B)
  BY DEF IInv
<1>2. pc = "erase_color" /\ rb_is_black(Sibling) /\ NephewsAreBlack
  BY DEF EraseFlip
<1>3. /\ parent \in Node /\ ~RB_EMPTY_NODE(parent)
      /\ SideOf(node, parent) \in Side
      /\ rb_child[parent][SideOf(node, parent)] = node
      /\ Sibling \in Node /\ ~RB_EMPTY_NODE(Sibling)
      /\ rb_child[parent][Opposite(SideOf(node, parent))] = Sibling
      /\ rb_parent(Sibling) = parent /\ Sibling # parent /\ Sibling # node
      /\ Down(B, node) \in Nat
      /\ B[Sibling] = Down(B, node) + 1
      /\ B[parent] = Own(parent) + B[Sibling]
      /\ \A e \in Side : B[Sibling] = Own(Sibling) + Down(B, Nephew(e))
  BY <1>1, <1>2, AroundShort
<1>s. PICK s \in Node : s = Sibling
  BY <1>3
<1>p. PICK p \in Node : p = parent
  BY <1>3
<1>g. PICK gp \in NodeOrNil : gp = rb_parent(p)
  BY <1>0, ParentType
<1>d. PICK d \in Side : d = SideOf(node, parent)
  BY <1>3
<1>4. /\ ~RB_EMPTY_NODE(p) /\ ~RB_EMPTY_NODE(s) /\ rb_parent(s) = p /\ s # p
      /\ rb_child[p][d] = node /\ rb_child[p][Opposite(d)] = s
      /\ rb_is_black(s)
      /\ B[s] = Down(B, node) + 1 /\ Down(B, node) \in Nat /\ B[p] = Own(p) + B[s]
      /\ \A e \in Side : rb_child[s][e] \in black \cup {NULL}
      /\ \A e \in Side : B[s] = 1 + Down(B, rb_child[s][e])
      /\ s # node
  BY <1>2, <1>3, <1>s, <1>p, <1>d DEF Nephew, NephewsAreBlack, BlackOrNull, Own
<1>5. /\ rb_parent_color' =
           IF rb_is_red(p)
           THEN [[rb_parent_color EXCEPT ![s] = Word(p, "red")] EXCEPT ![p].color = "black"]
           ELSE [rb_parent_color EXCEPT ![s] = Word(p, "red")]
      /\ UNCHANGED <<rb_node, rb_child, rotations>>
  BY <1>0, <1>s, <1>p, RedOrBlack DEF EraseFlip
<1>6. IF ~rb_is_black(p) \/ gp = NULL
      THEN pc' = "idle" /\ node' = NULL /\ parent' = NULL /\ dir' = "left" /\ successor' = NULL
      ELSE pc' = "erase_color" /\ node' = p /\ parent' = gp /\ UNCHANGED <<dir, successor>>
  BY <1>0, <1>2, <1>s, <1>p, <1>g, RedOrBlack DEF EraseFlip, Return
<1>7. /\ rb_parent_color' \in Words
      /\ \A m \in Node : rb_parent(m)' = rb_parent(m)
      /\ \A m \in Node : rb_is_black(m)' <=> (m = p /\ ~rb_is_black(p)) \/ (rb_is_black(m) /\ m # s)
      /\ \A m \in Node : RB_EMPTY_NODE(m)' <=> RB_EMPTY_NODE(m)
  <2>w. PICK w \in Words : w = [rb_parent_color EXCEPT ![s] = Word(p, "red")]
    BY <1>0, WordStores DEF TypeOK, Words, NodeOrNil, Color
  <2>1. \A m \in Node : w[m] = IF m = s THEN Word(p, "red") ELSE rb_parent_color[m]
    BY <1>0, <2>w DEF TypeOK
  <2>2. rb_parent_color' = IF rb_is_red(p) THEN [w EXCEPT ![p].color = "black"] ELSE w
    BY <1>5, <2>w
  <2>3. rb_parent_color' \in Words
    BY <2>2, WordStores DEF Color
  <2>4. \A m \in Node : /\ rb_parent_color'[m].parent = w[m].parent
                        /\ rb_parent_color'[m].color =
                             IF m = p /\ rb_is_red(p) THEN "black" ELSE w[m].color
    BY <2>2 DEF Words
  <2>5. \A m \in Node : rb_parent(m)' = rb_parent(m)
    BY <1>4, <2>1, <2>4 DEF rb_parent, Word
  <2>6. \A m \in Node : rb_is_black(m)' <=> (m = p /\ ~rb_is_black(p)) \/ (rb_is_black(m) /\ m # s)
    BY <1>0, <1>4, <2>1, <2>4, RedOrBlack DEF rb_is_black, Word
  <2>7. \A m \in Node : RB_EMPTY_NODE(m)' <=> RB_EMPTY_NODE(m)
    BY <2>5 DEF RB_EMPTY_NODE
  <2>8. QED
    BY <2>3, <2>5, <2>6, <2>7
<1>8. TypeOK'
  BY <1>0, <1>5, <1>6, <1>7 DEF TypeOK, Words, NodeOrNil, Side
<1>9. Links'
  BY <1>0, <1>5, <1>7, ParentType DEF Links, TypeOK, NodeOrNil
<1>10. Colors'
  <2>1. ASSUME NEW m \in Node, ~RB_EMPTY_NODE(m)', ~rb_is_black(m)'
        PROVE  rb_parent(m)' # NULL /\ rb_is_black(rb_parent(m))'
    <3>1. rb_parent(m)' = rb_parent(m) /\ rb_parent(m) \in NodeOrNil /\ ~RB_EMPTY_NODE(m)
      BY <1>0, <1>7, <2>1, ParentType
    <3>2. CASE m = s
      BY <1>4, <1>7, <3>1, <3>2
    <3>3. CASE m # s
      <4>1. ~rb_is_black(m) /\ m # p
        BY <1>7, <2>1, <3>3
      <4>2. rb_parent(m) \in Node /\ rb_is_black(rb_parent(m))
        BY <1>0, <1>2, <3>1, <4>1 DEF Colors, NodeOrNil
      <4>3. rb_parent(m) # s
        BY <1>0, <1>4, <3>1, <4>1, SideOfChild DEF black
      <4>4. QED
        BY <1>7, <3>1, <4>2, <4>3
    <3>4. QED
      BY <3>2, <3>3
  <2>2. QED
    BY <2>1 DEF Colors
<1>11. Rotations'
  BY <1>0, <1>2, <1>5, <1>6, <1>p DEF Rotations, TypeOK
<1>12. \A m \in Node, e \in Side : ~RB_EMPTY_NODE(m) =>
         B[m] = Own(m) + Down(B, rb_child[m][e]) + (IF m = p /\ e = d THEN 1 ELSE 0)
  BY <1>1, <1>2, <1>p, <1>d DEF Labels, Short
<1>13. CASE ~rb_is_black(p)
  <2>1. Locals'
    BY <1>6, <1>13 DEF Locals
  <2> PICK C \in [Node -> Nat] : \A m \in Node : C[m] = IF m = s THEN Down(B, node) ELSE B[m]
    <3>1. [m \in Node |-> IF m = s THEN Down(B, node) ELSE B[m]] \in [Node -> Nat]
      BY <1>4
    <3>2. QED
      BY <3>1
  <2>2. ASSUME NEW m \in Node, ~RB_EMPTY_NODE(m)', NEW e \in Side
        PROVE  C[m] = Own(m)' + Down(C, rb_child[m][e])' + Short(m, e)'
    <3>1. ~RB_EMPTY_NODE(m) /\ Short(m, e)' = 0 /\ rb_child'[m][e] = rb_child[m][e]
      BY <1>5, <1>6, <1>7, <1>13, <2>2 DEF Short
    <3>2. CASE m = s
      <4>1. Down(C, rb_child[m][e])' = Down(B, rb_child[s][e])
        BY <1>0, <1>4, <3>1, <3>2, LabelTypes DEF Down, NodeOrNil, black, Links
      <4>2. Own(m)' = 0 /\ Down(B, rb_child[s][e]) \in Nat
        BY <1>0, <1>1, <1>4, <1>7, <3>2, LabelTypes DEF Own
      <4>3. QED
        BY <1>4, <3>1, <3>2, <4>1, <4>2
    <3>3. CASE m = p
      <4>1. Down(C, rb_child[m][e])' = Down(B, node)
        BY <1>0, <1>4, <3>1, <3>3, LabelTypes, Sides DEF Down, NodeOrNil
      <4>2. Own(m)' = 1 /\ Own(p) = 0
        BY <1>7, <1>13, <3>3 DEF Own
      <4>3. QED
        BY <1>4, <3>1, <3>3, <4>1, <4>2
    <3>4. CASE m # s /\ m # p
      <4>1. rb_child[m][e] # s
        BY <1>0, <1>4, <3>1, <3>4 DEF Links
      <4>2. Down(C, rb_child[m][e])' = Down(B, rb_child[m][e])
        BY <1>0, <3>1, <4>1, LabelTypes DEF Down, NodeOrNil
      <4>3. Own(m)' = Own(m)
        BY <1>7, <3>4 DEF Own
      <4>4. QED
        BY <1>0, <1>12, <3>1, <3>4, <4>2, <4>3, LabelTypes
    <3>5. QED
      BY <3>2, <3>3, <3>4
  <2>3. Labels(C)'
    BY <1>6, <1>13, <2>2 DEF Labels
  <2>4. QED
    BY <1>8, <1>9, <1>10, <1>11, <2>1, <2>3 DEF IInv
<1>14. CASE rb_is_black(p)
  <2>1. gp # NULL => /\ gp \in Node /\ ~RB_EMPTY_NODE(gp) /\ gp # p
                     /\ SideOf(p, gp) \in Side /\ rb_child[gp][SideOf(p, gp)] = p
                     /\ rb_child[gp][Opposite(SideOf(p, gp))] # p
    BY <1>0, <1>4, <1>g, SideOfChild DEF NodeOrNil
  <2>2. gp # NULL => SideOf(node, parent)' = SideOf(p, gp)
    BY <1>5, <1>6, <1>14 DEF SideOf
  <2>3. s # gp
    <3>1. Rank(B, s) < Rank(B, p) /\ Rank(B, s) \in Nat /\ Rank(B, p) \in Nat
      BY <1>0, <1>1, <1>2, <1>4, RankDown, Sides
    <3>2. gp # NULL => Rank(B, p) < Rank(B, gp) /\ Rank(B, gp) \in Nat
      BY <1>0, <1>1, <1>2, <2>1, RankDown
    <3>3. QED
      BY <3>1, <3>2
  <2>4. Locals'
    BY <1>4, <1>5, <1>6, <1>7, <1>14, <2>1, <2>2 DEF Locals
  <2> PICK C \in [Node -> Nat] :
        \A m \in Node : C[m] = IF m = s THEN Down(B, node)
                               ELSE IF m = p THEN Down(B, node) + 1 ELSE B[m]
    <3>1. [m \in Node |-> IF m = s THEN Down(B, node)
                          ELSE IF m = p THEN Down(B, node) + 1 ELSE B[m]] \in [Node -> Nat]
      BY <1>4
    <3>2. QED
      BY <3>1
  <2>5. ASSUME NEW m \in Node, ~RB_EMPTY_NODE(m)', NEW e \in Side
        PROVE  C[m] = Own(m)' + Down(C, rb_child[m][e])' + Short(m, e)'
    <3>1. ~RB_EMPTY_NODE(m) /\ rb_child'[m][e] = rb_child[m][e]
      BY <1>5, <1>7, <2>5
    <3>2. Short(m, e)' = IF m = gp /\ e = SideOf(p, gp) THEN 1 ELSE 0
      BY <1>6, <1>14, <2>2 DEF Short
    <3>3. CASE m = s
      <4>1. rb_child[s][e] # p /\ rb_child[s][e] # s
        BY <1>0, <1>4, <1>g, <2>3 DEF Links
      <4>2. Down(C, rb_child[m][e])' = Down(B, rb_child[s][e])
        BY <1>0, <3>1, <3>3, <4>1, LabelTypes DEF Down, NodeOrNil
      <4>3. Own(m)' = 0 /\ Down(B, rb_child[s][e]) \in Nat
        BY <1>0, <1>1, <1>4, <1>7, <3>3, LabelTypes DEF Own
      <4>4. QED
        BY <1>4, <2>3, <3>1, <3>2, <3>3, <4>2, <4>3
    <3>4. CASE m = p
      <4>1. node # p
        BY <1>0, <1>4 DEF Links
      <4>2. Down(C, rb_child[m][e])' = Down(B, node)
        BY <1>0, <1>4, <3>1, <3>4, <4>1, LabelTypes, Sides DEF Down, NodeOrNil
      <4>3. Own(m)' = 1
        BY <1>4, <1>7, <1>14, <3>4 DEF Own
      <4>4. gp # p
        BY <2>1
      <4>5. QED
        BY <1>4, <3>1, <3>2, <3>4, <4>2, <4>3, <4>4
    <3>5. CASE m # s /\ m # p
      <4>1. rb_child[m][e] # s
        BY <1>0, <1>4, <3>1, <3>5 DEF Links
      <4>2. Own(m)' = Own(m) /\ C[m] = B[m]
        BY <1>7, <3>5 DEF Own
      <4>3. CASE rb_child[m][e] = p
        <5>1. m = gp /\ e = SideOf(p, gp)
          BY <1>0, <1>g, <2>1, <4>3, Sides DEF Links
        <5>2. Down(C, rb_child[m][e])' = Down(B, node) + 1 /\ Down(B, rb_child[m][e]) = Down(B, node) + 2
          BY <1>4, <1>14, <3>1, <4>3 DEF Down, Own
        <5>3. QED
          BY <1>0, <1>4, <1>12, <3>1, <3>2, <3>5, <4>2, <5>1, <5>2, LabelTypes
      <4>4. CASE rb_child[m][e] # p
        <5>1. ~(m = gp /\ e = SideOf(p, gp))
          BY <2>1, <4>4
        <5>2. Down(C, rb_child[m][e])' = Down(B, rb_child[m][e])
          BY <1>0, <3>1, <4>1, <4>4, LabelTypes DEF Down, NodeOrNil
        <5>3. QED
          BY <1>0, <1>12, <3>1, <3>2, <3>5, <4>2, <5>1, <5>2, LabelTypes
      <4>5. QED
        BY <4>3, <4>4
    <3>6. QED
      BY <3>3, <3>4, <3>5
  <2>6. Labels(C)'
    BY <1>6, <2>5 DEF Labels
  <2>7. QED
    BY <1>8, <1>9, <1>10, <1>11, <2>4, <2>6 DEF IInv
<1>15. QED
  BY <1>13, <1>14

-----------------------------------------------------------------------------
(* What a rotation does to the black heights, for any memory: B labels every *)
(* node with the black nodes below and at it, and the paths through side e0  *)
(* of node x lack one.                                                       *)

Heights(ch, par, blk, B, x, e0) ==
  \A n \in Node, e \in Side : par[n] # n =>
    B[n] = (IF n \in blk THEN 1 ELSE 0) + Down(B, ch[n][e]) + (IF n = x /\ e = e0 THEN 1 ELSE 0)

\* Around a rotation at p to side d that brings s up.
LEMMA AroundTurn ==
  ASSUME NEW r \in NodeOrNil, NEW ch \in Children, NEW par \in Parents, Tree(r, ch, par),
         NEW p \in Node, NEW s \in Node, NEW d \in Side, ch[p][Opposite(d)] = s,
         par[p] # s
  PROVE  /\ p # s /\ par[p] # p /\ par[s] # s /\ par[s] = p /\ par[p] # s
         /\ \A n \in Node : TurnedPar(ch, par, p, s, d)[n] # n => par[n] # n
         /\ \A n \in Node, e \in Side :
              Turned(ch, p, s, d)[n][e] = IF n = p /\ e # d THEN ch[s][d]
                                          ELSE IF n = s /\ e = d THEN p
                                          ELSE IF ch[n][e] = p THEN s ELSE ch[n][e]
         /\ \A n \in Node, e \in Side : ch[n][e] = p => n # p /\ n # s
         /\ \A n \in Node, e \in Side : ch[n][e] = s => n = p /\ e # d
         /\ \A n \in Node, e \in Side : ch[n][e] \in NodeOrNil
<1> USE NodeAssumption
<1>1. p # s /\ par[p] # p /\ par[s] # s /\ par[s] = p /\ Opposite(d) \in Side
  BY Sides DEF Tree, NodeOrNil
<1>2. \A n \in Node : TurnedPar(ch, par, p, s, d)[n] # n => par[n] # n
  BY <1>1, Sides DEF TurnedPar, Tree, NodeOrNil
<1>3. \A n \in Node, e \in Side :
        Turned(ch, p, s, d)[n][e] = IF n = p /\ e # d THEN ch[s][d]
                                    ELSE IF n = s /\ e = d THEN p
                                    ELSE IF ch[n][e] = p THEN s ELSE ch[n][e]
  BY DEF Turned
<1>4. \A n \in Node, e \in Side : ch[n][e] = p => n # p /\ n # s
  BY <1>1 DEF Tree, NodeOrNil
<1>5. \A n \in Node, e \in Side : ch[n][e] = s => n = p /\ e # d
  BY <1>1, Sides DEF Tree, NodeOrNil
<1>6. \A n \in Node, e \in Side : ch[n][e] \in NodeOrNil
  BY DEF Children
<1>7. QED
  BY <1>1, <1>2, <1>3, <1>4, <1>5, <1>6

\* Two red nodes turn: no height changes.
LEMMA RedHeights ==
  ASSUME NEW r \in NodeOrNil, NEW ch \in Children, NEW par \in Parents, Tree(r, ch, par),
         NEW p \in Node, NEW s \in Node, NEW d \in Side, ch[p][Opposite(d)] = s,
         par[p] # s,
         NEW blk, NEW B \in [Node -> Nat], Heights(ch, par, blk, B, NULL, "left"),
         p \notin blk, s \notin blk
  PROVE  Heights(Turned(ch, p, s, d), TurnedPar(ch, par, p, s, d), blk, B, NULL, "left")
<1> USE NodeAssumption
<1>1. /\ p # s /\ par[p] # p /\ par[s] # s
      /\ \A n \in Node : TurnedPar(ch, par, p, s, d)[n] # n => par[n] # n
      /\ \A n \in Node, e \in Side :
           Turned(ch, p, s, d)[n][e] = IF n = p /\ e # d THEN ch[s][d]
                                       ELSE IF n = s /\ e = d THEN p
                                       ELSE IF ch[n][e] = p THEN s ELSE ch[n][e]
      /\ \A n \in Node, e \in Side : ch[n][e] \in NodeOrNil
  BY AroundTurn
<1>2. \A n \in Node, e \in Side : Down(B, ch[n][e]) \in Nat
  BY <1>1 DEF Down, NodeOrNil
<1>3. \A n \in Node, e \in Side : par[n] # n =>
        B[n] = (IF n \in blk THEN 1 ELSE 0) + Down(B, ch[n][e])
  BY <1>2 DEF Heights
<1>4. B[p] = B[s]
  BY <1>1, <1>3, Sides DEF Down
<1>5. ASSUME NEW n \in Node, NEW e \in Side, TurnedPar(ch, par, p, s, d)[n] # n
      PROVE  B[n] = (IF n \in blk THEN 1 ELSE 0) + Down(B, Turned(ch, p, s, d)[n][e])
  <2>1. par[n] # n
    BY <1>1, <1>5
  <2>2. CASE n = p /\ e # d
    BY <1>1, <1>3, <1>4, <2>2
  <2>3. CASE n = s /\ e = d
    BY <1>1, <1>2, <1>3, <1>4, <2>3 DEF Down
  <2>4. CASE ~(n = p /\ e # d) /\ ~(n = s /\ e = d)
    <3>1. Down(B, Turned(ch, p, s, d)[n][e]) = Down(B, ch[n][e])
      BY <1>1, <1>4, <2>4 DEF Down
    <3>2. QED
      BY <1>3, <2>1, <3>1
  <2>5. QED
    BY <2>2, <2>3, <2>4
<1>6. QED
  BY <1>2, <1>5, TurnedTypes DEF Heights, Down, NodeOrNil, Children

\* A red node comes up over a black one and they exchange their colors; the short
\* side of p, if it has one, stays below p.
LEMMA SwapHeights ==
  ASSUME NEW r \in NodeOrNil, NEW ch \in Children, NEW par \in Parents, Tree(r, ch, par),
         NEW p \in Node, NEW s \in Node, NEW d \in Side, ch[p][Opposite(d)] = s,
         par[p] # s,
         NEW blk, NEW B \in [Node -> Nat], NEW x \in NodeOrNil, NEW e0 \in Side,
         Heights(ch, par, blk, B, x, e0),
         p \in blk, s \notin blk, x # s, x = p => e0 = d
  PROVE  \E C \in [Node -> Nat] :
           Heights(Turned(ch, p, s, d), TurnedPar(ch, par, p, s, d), (blk \ {p}) \cup {s}, C, x, e0)
<1> USE NodeAssumption
<1>1. /\ p # s /\ par[p] # p /\ par[s] # s
      /\ \A n \in Node : TurnedPar(ch, par, p, s, d)[n] # n => par[n] # n
      /\ \A n \in Node, e \in Side :
           Turned(ch, p, s, d)[n][e] = IF n = p /\ e # d THEN ch[s][d]
                                       ELSE IF n = s /\ e = d THEN p
                                       ELSE IF ch[n][e] = p THEN s ELSE ch[n][e]
      /\ \A n \in Node, e \in Side : ch[n][e] = p => n # p /\ n # s
      /\ \A n \in Node, e \in Side : ch[n][e] = s => n = p /\ e # d
      /\ \A n \in Node, e \in Side : ch[n][e] \in NodeOrNil
  BY AroundTurn
<1>C. PICK C \in [Node -> Nat] :
        \A n \in Node : C[n] = IF n = p THEN B[s] ELSE IF n = s THEN B[p] ELSE B[n]
  <2>1. [n \in Node |-> IF n = p THEN B[s] ELSE IF n = s THEN B[p] ELSE B[n]] \in [Node -> Nat]
    OBVIOUS
  <2>2. QED
    BY <2>1
<1>2. \A n \in Node, e \in Side : Down(B, ch[n][e]) \in Nat /\ Down(C, Turned(ch, p, s, d)[n][e]) \in Nat
  <2>1. \A n \in Node, e \in Side : Down(B, ch[n][e]) \in Nat
    BY <1>1 DEF Down, NodeOrNil
  <2>2. \A n \in Node, e \in Side : Turned(ch, p, s, d)[n][e] \in NodeOrNil
    <3>1. Turned(ch, p, s, d) \in Children
      BY TurnedTypes
    <3>2. QED
      BY <3>1 DEF Children
  <2>3. \A n \in Node, e \in Side : Down(C, Turned(ch, p, s, d)[n][e]) \in Nat
    BY <2>2 DEF Down, NodeOrNil
  <2>4. QED
    BY <2>1, <2>3
<1>3. \A n \in Node, e \in Side : par[n] # n =>
        B[n] = (IF n \in blk THEN 1 ELSE 0) + Down(B, ch[n][e]) + (IF n = x /\ e = e0 THEN 1 ELSE 0)
  BY DEF Heights
<1>4. B[p] = 1 + B[s]
  <2>1. Opposite(d) \in Side /\ Opposite(d) # d
    BY Sides
  <2>2. Down(B, ch[p][Opposite(d)]) = B[s]
    BY DEF Down
  <2>3. QED
    BY <1>1, <1>3, <2>1, <2>2
<1>5. ASSUME NEW n \in Node, NEW e \in Side, TurnedPar(ch, par, p, s, d)[n] # n
      PROVE  C[n] = (IF n \in (blk \ {p}) \cup {s} THEN 1 ELSE 0)
                    + Down(C, Turned(ch, p, s, d)[n][e]) + (IF n = x /\ e = e0 THEN 1 ELSE 0)
  <2>1. par[n] # n
    BY <1>1, <1>5
  <2>2. ch[n][e] \notin {p, s} => Down(C, ch[n][e]) = Down(B, ch[n][e])
    BY <1>1, <1>C DEF Down, NodeOrNil
  <2>3. CASE n = p
    <3>1. CASE e = d
      <4>1. Turned(ch, p, s, d)[n][e] = ch[n][e] /\ ch[n][e] \notin {p, s}
        BY <1>1, <2>3, <3>1
      <4>2. QED
        BY <1>1, <1>2, <1>3, <1>4, <1>C, <2>1, <2>2, <2>3, <3>1, <4>1
    <3>2. CASE e # d
      <4>1. Turned(ch, p, s, d)[n][e] = ch[s][d] /\ ch[s][d] \notin {p, s}
        BY <1>1, <2>3, <3>2
      <4>2. Down(C, ch[s][d]) = Down(B, ch[s][d])
        BY <1>1, <1>C, <4>1 DEF Down, NodeOrNil
      <4>3. B[s] = 0 + Down(B, ch[s][d]) + 0
        BY <1>1, <1>3
      <4>4. ~(n = x /\ e = e0)
        BY <2>3, <3>2
      <4>5. QED
        BY <1>1, <1>2, <1>C, <2>3, <4>1, <4>2, <4>3, <4>4
    <3>3. QED
      BY <3>1, <3>2
  <2>4. CASE n = s
    <3>1. CASE e = d
      <4>1. Down(C, Turned(ch, p, s, d)[n][e]) = B[s]
        BY <1>1, <1>C, <2>4, <3>1 DEF Down
      <4>2. QED
        BY <1>1, <1>4, <1>C, <2>4, <4>1
    <3>2. CASE e # d
      <4>1. Turned(ch, p, s, d)[n][e] = ch[n][e] /\ ch[n][e] \notin {p, s}
        BY <1>1, <2>4, <3>2
      <4>2. B[s] = 0 + Down(B, ch[n][e]) + 0
        BY <1>1, <1>3, <2>4
      <4>3. QED
        BY <1>1, <1>2, <1>4, <1>C, <2>2, <2>4, <4>1, <4>2
    <3>3. QED
      BY <3>1, <3>2
  <2>5. CASE n # p /\ n # s
    <3>1. Down(C, Turned(ch, p, s, d)[n][e]) = Down(B, ch[n][e])
      <4>1. CASE ch[n][e] = p
        BY <1>1, <1>C, <2>5, <4>1 DEF Down
      <4>2. CASE ch[n][e] # p
        BY <1>1, <2>2, <2>5, <4>2
      <4>3. QED
        BY <4>1, <4>2
    <3>2. QED
      BY <1>3, <1>C, <2>1, <2>5, <3>1
  <2>6. QED
    BY <2>3, <2>4, <2>5
<1>6. Heights(Turned(ch, p, s, d), TurnedPar(ch, par, p, s, d), (blk \ {p}) \cup {s}, C, x, e0)
  BY <1>5 DEF Heights
<1>7. QED
  BY <1>6, <1>C

\* The last rotation of an erasure, at the node with the short side: p, and the red
\* outer child v of s, turn black, and s takes the color of p.
BlackAfter(blk, p, s, v) ==
  {n \in Node : IF n = p \/ n = v THEN TRUE ELSE IF n = s THEN p \in blk ELSE n \in blk}

\* The double rotation of an erasure: where p came one black node short on side d, the heights
\* agree again once s has been turned over p with v painted black.
LEMMA ShortHeights ==
  ASSUME NEW r \in NodeOrNil, NEW ch \in Children, NEW par \in Parents, Tree(r, ch, par),
         NEW p \in Node, NEW s \in Node, NEW d \in Side, ch[p][Opposite(d)] = s,
         par[p] # s,
         NEW v \in Node, ch[s][Opposite(d)] = v, par[p] # v,
         NEW blk, NEW B \in [Node -> Nat], Heights(ch, par, blk, B, p, d),
         s \in blk, v \notin blk
  PROVE  \E C \in [Node -> Nat] :
           Heights(Turned(ch, p, s, d), TurnedPar(ch, par, p, s, d),
                   BlackAfter(blk, p, s, v), C, NULL, "left")
<1> USE NodeAssumption
<1>b. PICK blk2 : blk2 = BlackAfter(blk, p, s, v)
  OBVIOUS
<1>c. \A n \in Node : n \in blk2 <=> IF n = p \/ n = v THEN TRUE
                                     ELSE IF n = s THEN p \in blk ELSE n \in blk
  BY <1>b DEF BlackAfter
<1>1. /\ p # s /\ par[p] # p /\ par[s] # s
      /\ \A n \in Node : TurnedPar(ch, par, p, s, d)[n] # n => par[n] # n
      /\ \A n \in Node, e \in Side :
           Turned(ch, p, s, d)[n][e] = IF n = p /\ e # d THEN ch[s][d]
                                       ELSE IF n = s /\ e = d THEN p
                                       ELSE IF ch[n][e] = p THEN s ELSE ch[n][e]
      /\ \A n \in Node, e \in Side : ch[n][e] = p => n # p /\ n # s
      /\ \A n \in Node, e \in Side : ch[n][e] = s => n = p /\ e # d
      /\ \A n \in Node, e \in Side : ch[n][e] \in NodeOrNil
  BY AroundTurn
<1>o. /\ Opposite(d) \in Side /\ Opposite(d) # d
      /\ \A e \in Side : e # d <=> e = Opposite(d)
  BY Sides
<1>v. /\ par[v] = s /\ par[v] # v /\ v # s /\ v # p
      /\ \A n \in Node, e \in Side : ch[n][e] = v => n = s /\ e # d
      /\ \A e \in Side : ch[v][e] # p
  BY <1>1, <1>o DEF Tree, NodeOrNil
<1>C. PICK C \in [Node -> Nat] :
        \A n \in Node : C[n] = IF n = p THEN B[s] ELSE IF n = s THEN B[p]
                               ELSE IF n = v THEN B[v] + 1 ELSE B[n]
  <2>1. [n \in Node |-> IF n = p THEN B[s] ELSE IF n = s THEN B[p]
                        ELSE IF n = v THEN B[v] + 1 ELSE B[n]] \in [Node -> Nat]
    OBVIOUS
  <2>2. QED
    BY <2>1
<1>2. \A n \in Node, e \in Side : Down(B, ch[n][e]) \in Nat
  BY <1>1 DEF Down, NodeOrNil
<1>3. \A n \in Node, e \in Side : par[n] # n =>
        B[n] = (IF n \in blk THEN 1 ELSE 0) + Down(B, ch[n][e]) + (IF n = p /\ e = d THEN 1 ELSE 0)
  BY DEF Heights
<1>4. /\ B[p] = (IF p \in blk THEN 1 ELSE 0) + B[s]
      /\ B[p] = (IF p \in blk THEN 1 ELSE 0) + Down(B, ch[p][d]) + 1
      /\ B[s] = 1 + B[v]
      /\ B[s] = 1 + Down(B, ch[s][d])
  <2>1. Down(B, ch[p][Opposite(d)]) = B[s] /\ Down(B, ch[s][Opposite(d)]) = B[v]
    BY DEF Down
  <2>2. B[p] = (IF p \in blk THEN 1 ELSE 0) + B[s]
    BY <1>1, <1>3, <1>o, <2>1
  <2>3. B[p] = (IF p \in blk THEN 1 ELSE 0) + Down(B, ch[p][d]) + 1
    BY <1>1, <1>3
  <2>4. B[s] = 1 + B[v]
    BY <1>1, <1>3, <1>o, <2>1
  <2>5. B[s] = 1 + Down(B, ch[s][d])
    BY <1>1, <1>2, <1>3
  <2>6. QED
    BY <2>2, <2>3, <2>4, <2>5
<1>5. ASSUME NEW n \in Node, NEW e \in Side, TurnedPar(ch, par, p, s, d)[n] # n
      PROVE  C[n] = (IF n \in blk2 THEN 1 ELSE 0) + Down(C, Turned(ch, p, s, d)[n][e])
  <2>1. par[n] # n
    BY <1>1, <1>5
  <2>2. \A m \in Node, f \in Side : ch[m][f] \notin {p, s, v} => Down(C, ch[m][f]) = Down(B, ch[m][f])
    BY <1>1, <1>C DEF Down, NodeOrNil
  <2>3. CASE n = p
    <3>1. CASE e = d
      <4>1. Turned(ch, p, s, d)[n][e] = ch[p][d] /\ ch[p][d] \notin {p, s, v}
        BY <1>1, <1>v, <2>3, <3>1
      <4>2. Down(C, ch[p][d]) = Down(B, ch[p][d]) /\ Down(B, ch[p][d]) \in Nat
        BY <1>2, <2>2, <4>1
      <4>3. QED
        BY <1>4, <1>c, <1>C, <2>3, <4>1, <4>2
    <3>2. CASE e # d
      <4>1. Turned(ch, p, s, d)[n][e] = ch[s][d] /\ ch[s][d] \notin {p, s, v}
        BY <1>1, <1>v, <2>3, <3>2
      <4>2. Down(C, ch[s][d]) = Down(B, ch[s][d]) /\ Down(B, ch[s][d]) \in Nat
        BY <1>2, <2>2, <4>1
      <4>3. QED
        BY <1>4, <1>c, <1>C, <2>3, <4>1, <4>2
    <3>3. QED
      BY <3>1, <3>2
  <2>4. CASE n = s
    <3>1. C[n] = B[p] /\ (n \in blk2 <=> p \in blk)
      BY <1>1, <1>c, <1>v, <1>C, <2>4
    <3>2. CASE e = d
      <4>1. Down(C, Turned(ch, p, s, d)[n][e]) = B[s]
        BY <1>1, <1>C, <2>4, <3>2 DEF Down
      <4>2. QED
        BY <1>4, <3>1, <4>1
    <3>3. CASE e # d
      <4>1. Turned(ch, p, s, d)[n][e] = v
        BY <1>1, <1>o, <1>v, <2>4, <3>3
      <4>2. Down(C, v) = B[v] + 1
        BY <1>C, <1>v DEF Down
      <4>3. QED
        BY <1>4, <3>1, <4>1, <4>2
    <3>4. QED
      BY <3>2, <3>3
  <2>5. CASE n = v
    <3>1. Turned(ch, p, s, d)[n][e] = ch[n][e] /\ ch[n][e] \notin {p, s, v}
      BY <1>1, <1>v, <2>5
    <3>2. B[v] = 0 + Down(B, ch[n][e]) + 0
      BY <1>3, <1>v, <2>5
    <3>3. QED
      BY <1>2, <1>c, <1>v, <1>C, <2>2, <2>5, <3>1, <3>2
  <2>6. CASE n # p /\ n # s /\ n # v
    <3>1. Down(C, Turned(ch, p, s, d)[n][e]) = Down(B, ch[n][e])
      <4>1. CASE ch[n][e] = p
        BY <1>1, <1>C, <2>6, <4>1 DEF Down
      <4>2. CASE ch[n][e] # p
        BY <1>1, <1>v, <2>2, <2>6, <4>2
      <4>3. QED
        BY <4>1, <4>2
    <3>2. QED
      BY <1>2, <1>3, <1>c, <1>C, <2>1, <2>6, <3>1
  <2>7. QED
    BY <2>3, <2>4, <2>5, <2>6
<1>6. \A n \in Node, e \in Side : Down(C, Turned(ch, p, s, d)[n][e]) \in Nat
  BY TurnedTypes DEF Down, NodeOrNil, Children
<1>7. Heights(Turned(ch, p, s, d), TurnedPar(ch, par, p, s, d), blk2, C, NULL, "left")
  BY <1>5, <1>6 DEF Heights
<1>8. QED
  BY <1>7, <1>b

-----------------------------------------------------------------------------

\* The labels of the memory are the heights of its tree.
LEMMA LabelsAreHeights ==
  ASSUME TypeOK, Links, NEW B \in [Node -> Nat], Labels(B), pc # "successor"
  PROVE  Heights(rb_child, Par, black, B, IF pc = "erase_color" THEN parent ELSE NULL,
                 IF pc = "erase_color" THEN SideOf(node, parent) ELSE "left")
<1>1. \A n \in Node : /\ Par[n] # n <=> ~RB_EMPTY_NODE(n)
                      /\ n \in black <=> rb_is_black(n)
  BY DEF Par, RB_EMPTY_NODE, black
<1>2. \A n \in Node, e \in Side : ~RB_EMPTY_NODE(n) =>
        B[n] = Own(n) + Down(B, rb_child[n][e]) + Short(n, e)
  BY DEF Labels
<1>3. \A n \in Node, e \in Side :
        /\ Own(n) = IF n \in black THEN 1 ELSE 0
        /\ Short(n, e) = IF /\ n = (IF pc = "erase_color" THEN parent ELSE NULL)
                            /\ e = (IF pc = "erase_color" THEN SideOf(node, parent) ELSE "left")
                         THEN 1 ELSE 0
  BY <1>1, NodeAssumption DEF Own, Short
<1>4. QED
  BY <1>1, <1>2, <1>3 DEF Heights

\* A red sibling comes up over its parent and the short side stays where it was.
LEMMA EraseRedSiblingKeepsIInv ==
  ASSUME IInv, EraseRedSibling
  PROVE  IInv' /\ TreeTurned /\ RedSiblingTurns
<1> USE NodeAssumption
<1>0. TypeOK /\ Links /\ Colors /\ Locals /\ Rotations
  BY DEF IInv
<1>1. PICK B \in [Node -> Nat] : Labels(B)
  BY DEF IInv
<1>2. pc = "erase_color" /\ rb_is_red(Sibling)
  BY DEF EraseRedSibling
<1>3. /\ parent \in Node /\ ~RB_EMPTY_NODE(parent)
      /\ SideOf(node, parent) \in Side
      /\ rb_child[parent][SideOf(node, parent)] = node
      /\ Sibling \in Node /\ ~RB_EMPTY_NODE(Sibling)
      /\ rb_child[parent][Opposite(SideOf(node, parent))] = Sibling
      /\ rb_parent(Sibling) = parent /\ Sibling # parent /\ Sibling # node
      /\ Down(B, node) \in Nat
      /\ B[Sibling] = Down(B, node) + 1
      /\ B[parent] = Own(parent) + B[Sibling]
      /\ node # NULL => node \in Node /\ rb_is_black(node) /\ rb_parent(node) = parent
                        /\ node # parent
      /\ \A e \in Side : B[Sibling] = Own(Sibling) + Down(B, Nephew(e))
      /\ \A e \in Side : Nephew(e) # NULL =>
           /\ Nephew(e) \in Node /\ ~RB_EMPTY_NODE(Nephew(e))
           /\ rb_parent(Nephew(e)) = Sibling /\ Nephew(e) # Sibling
  BY <1>1, <1>2, AroundShort
<1>s. PICK s \in Node : s = Sibling
  BY <1>3
<1>p. PICK p \in Node : p = parent
  BY <1>3
<1>g. PICK gp \in NodeOrNil : gp = rb_parent(p)
  BY <1>0, ParentType
<1>d. PICK d \in Side : d = SideOf(node, parent)
  BY <1>3
<1>4. /\ ~RB_EMPTY_NODE(p) /\ ~RB_EMPTY_NODE(s) /\ rb_parent(s) = p /\ s # p
      /\ rb_child[p][d] = node /\ rb_child[p][Opposite(d)] = s
      /\ ~rb_is_black(s) /\ rb_is_black(p)
      /\ s # node
      /\ Opposite(d) \in Side
      /\ node # NULL => node \in Node /\ rb_is_black(node) /\ rb_parent(node) = p /\ node # p
  <2>1. /\ ~RB_EMPTY_NODE(p) /\ ~RB_EMPTY_NODE(s) /\ rb_parent(s) = p /\ s # p
        /\ rb_child[p][d] = node /\ rb_child[p][Opposite(d)] = s
        /\ s # node
        /\ node # NULL => node \in Node /\ rb_is_black(node) /\ rb_parent(node) = p /\ node # p
    BY <1>3, <1>s, <1>p, <1>d
  <2>2. ~rb_is_black(s)
    BY <1>0, <1>2, <1>s, RedOrBlack
  <2>3. rb_is_black(p)
    BY <1>0, <1>2, <2>1, <2>2 DEF Colors
  <2>4. QED
    BY <2>1, <2>2, <2>3, Sides
<1>5. /\ Nephew(d) \in Node /\ rb_parent(Nephew(d)) = s /\ Nephew(d) # s
      /\ Nephew(d) = rb_child[s][d] /\ rb_is_black(Nephew(d)) /\ ~RB_EMPTY_NODE(Nephew(d))
  <2>1. B[s] = Own(s) + Down(B, Nephew(d)) /\ B[s] = Down(B, node) + 1 /\ Down(B, node) \in Nat
    BY <1>3, <1>s
  <2>2. Own(s) = 0
    BY <1>4 DEF Own
  <2>3. Nephew(d) # NULL
    BY <2>1, <2>2 DEF Down
  <2>4. Nephew(d) \in Node /\ rb_parent(Nephew(d)) = s /\ ~RB_EMPTY_NODE(Nephew(d)) /\ Nephew(d) # s
    BY <1>3, <1>s, <2>3
  <2>5. rb_is_black(Nephew(d))
    BY <1>0, <1>2, <1>4, <2>4 DEF Colors
  <2>6. QED
    BY <2>4, <2>5, <1>s DEF Nephew
<1>t. PICK t \in Node : t = Nephew(d)
  BY <1>5
<1>6. /\ t = rb_child[s][d] /\ rb_parent(t) = s /\ t # s /\ rb_is_black(t) /\ t # p /\ t # node
      /\ gp # s /\ gp # p /\ ~RB_EMPTY_NODE(t)
  <2>1. t = rb_child[s][d] /\ rb_parent(t) = s /\ t # s /\ rb_is_black(t) /\ ~RB_EMPTY_NODE(t)
    BY <1>5, <1>t
  <2>2. Rank(B, s) < Rank(B, p) /\ Rank(B, s) \in Nat /\ Rank(B, p) \in Nat
    BY <1>0, <1>1, <1>2, <1>4, RankDown
  <2>3. gp # NULL => Rank(B, p) < Rank(B, gp) /\ Rank(B, gp) \in Nat
    <3>1. SUFFICES ASSUME gp # NULL PROVE Rank(B, p) < Rank(B, gp) /\ Rank(B, gp) \in Nat
      OBVIOUS
    <3>2. gp \in Node /\ SideOf(p, gp) \in Side /\ rb_child[gp][SideOf(p, gp)] = p
      BY <1>0, <1>4, <1>g, <3>1, SideOfChild DEF NodeOrNil
    <3>3. QED
      BY <1>0, <1>1, <1>2, <3>2, RankDown
  <2>4. gp # s /\ gp # p
    BY <2>2, <2>3
  <2>5. t # p /\ t # node
    BY <1>4, <1>g, <2>1, <2>4
  <2>6. QED
    BY <2>1, <2>4, <2>5
<1>7. /\ rb_child' = ChangeChild(RotateStores(rb_child, p, s, d), p, s, gp)
      /\ rb_node' = ChangeRoot(s, gp)
      /\ rb_parent_color' =
           RotateSetParents([rb_parent_color EXCEPT ![t] = Word(p, "black")], p, s, "red")
      /\ rotations' = rotations + 1
      /\ UNCHANGED <<pc, node, parent, dir, successor>>
  BY <1>s, <1>p, <1>g, <1>d, <1>t DEF EraseRedSibling, locals
<1>8. /\ Par \in Parents /\ Tree(rb_node, rb_child, Par)
      /\ rb_node \in NodeOrNil /\ rb_child \in Children
      /\ Par[p] = gp /\ Par[p] # s
      /\ \A m \in Node : Par[m] = rb_parent(m)
  BY <1>0, <1>6, <1>g, LinksIsTree
<1>9. rb_child' = Turned(rb_child, p, s, d) /\ rb_child' \in Children
  <2>1. Turned(rb_child, p, s, d) \in Children
    BY <1>8, TurnedTypes
  <2>2. ChangeChild(RotateStores(rb_child, p, s, d), p, s, gp) = Turned(rb_child, p, s, d)
    BY <1>4, <1>8, RotationStores
  <2>3. QED
    BY <1>7, <2>1, <2>2
<1>10. /\ rb_parent_color' \in Words
       /\ \A m \in Node : rb_parent(m)' = IF m = p THEN s ELSE IF m = s THEN gp
                                          ELSE IF m = t THEN p ELSE rb_parent(m)
       /\ \A m \in Node : rb_is_black(m)' <=> (rb_is_black(m) /\ m # p) \/ m = s
  <2>w. PICK w \in Words : w = [rb_parent_color EXCEPT ![t] = Word(p, "black")]
    BY <1>0, WordStores DEF TypeOK, Words, NodeOrNil, Color
  <2>1. \A m \in Node : w[m] = IF m = t THEN Word(p, "black") ELSE rb_parent_color[m]
    BY <1>0, <2>w DEF TypeOK
  <2>2. rb_parent_color' = RotateSetParents(w, p, s, "red")
    BY <1>7, <2>w
  <2>3. /\ rb_parent_color' \in Words
        /\ \A m \in Node : rb_parent_color'[m] = IF m = p THEN Word(s, "red")
                                                 ELSE IF m = s THEN w[p] ELSE w[m]
    <3>1. "red" \in Color /\ p # s
      BY <1>4 DEF Color
    <3>2. RotateSetParents(w, p, s, "red") \in Words
      BY <3>1, RotateSetParentsStores
    <3>3. \A m \in Node : RotateSetParents(w, p, s, "red")[m] =
            IF m = p THEN Word(s, "red") ELSE IF m = s THEN w[p] ELSE w[m]
      BY <3>1, RotateSetParentsStores
    <3>4. QED
      BY <2>2, <3>2, <3>3
  <2>4. \A m \in Node : rb_parent_color'[m] =
          IF m = p THEN Word(s, "red") ELSE IF m = s THEN rb_parent_color[p]
          ELSE IF m = t THEN Word(p, "black") ELSE rb_parent_color[m]
    BY <1>6, <2>1, <2>3
  <2>5. \A m \in Node : rb_parent(m)' = IF m = p THEN s ELSE IF m = s THEN gp
                                        ELSE IF m = t THEN p ELSE rb_parent(m)
    BY <1>g, <2>4 DEF rb_parent, Word
  <2>6. \A m \in Node : rb_is_black(m)' <=> (rb_is_black(m) /\ m # p) \/ m = s
    BY <1>4, <1>6, <2>4 DEF rb_is_black, Word
  <2>7. QED
    BY <2>3, <2>5, <2>6
<1>11. TypeOK'
  <2>1. rb_node' \in NodeOrNil
    BY <1>7, <1>8 DEF ChangeRoot, NodeOrNil
  <2>2. rotations' \in Nat
    BY <1>0, <1>7 DEF TypeOK
  <2>3. QED
    BY <1>0, <1>7, <1>9, <1>10, <2>1, <2>2 DEF TypeOK, Children, Words
<1>12. Par' = TurnedPar(rb_child, Par, p, s, d)
  BY <1>6, <1>8, <1>10 DEF Par, TurnedPar
<1>13. Links'
  <2>1. rb_node' = RootAfter(rb_node, Par, p, s)
    BY <1>7, <1>8 DEF RootAfter, ChangeRoot
  <2>2. ParTree'
    BY <1>4, <1>8, <1>9, <1>11, <1>12, <2>1, TurnedTree, TurnedTypes DEF ParTree, TypeOK
  <2>3. QED
    BY <2>2, TreeIsLinks, PTL
<1>14. \A m \in Node : RB_EMPTY_NODE(m)' <=> RB_EMPTY_NODE(m)
  BY <1>4, <1>6, <1>10 DEF RB_EMPTY_NODE
<1>15. Colors'
  <2>1. ASSUME NEW m \in Node, ~RB_EMPTY_NODE(m)', ~rb_is_black(m)'
        PROVE  rb_parent(m)' # NULL /\ rb_is_black(rb_parent(m))'
    <3>1. CASE m = p
      BY <1>10, <3>1
    <3>2. CASE m # p
      <4>1. m # s /\ m # t /\ ~rb_is_black(m) /\ ~RB_EMPTY_NODE(m) /\ rb_parent(m)' = rb_parent(m)
        BY <1>6, <1>10, <1>14, <2>1, <3>2
      <4>2. rb_parent(m) \in Node /\ rb_is_black(rb_parent(m))
        BY <1>0, <1>2, <4>1, ParentType DEF Colors, NodeOrNil
      <4>3. rb_parent(m) # p
        <5>1. SUFFICES ASSUME rb_parent(m) = p PROVE FALSE
          OBVIOUS
        <5>2. SideOf(m, p) \in Side /\ rb_child[p][SideOf(m, p)] = m
          BY <1>0, <4>1, <5>1, SideOfChild
        <5>3. m = node \/ m = s
          BY <1>4, <5>2, Sides
        <5>4. QED
          BY <1>4, <4>1, <5>3
      <4>4. QED
        BY <1>10, <4>1, <4>2, <4>3
    <3>3. QED
      BY <3>1, <3>2
  <2>2. QED
    BY <2>1 DEF Colors
<1>16. /\ rb_child'[p][d] = node
       /\ rb_child'[p][Opposite(d)] = t
  BY <1>4, <1>6, <1>9, Sides DEF Turned
<1>17. SideOf(node, parent)' = d
  BY <1>6, <1>7, <1>16, <1>p, Sides DEF SideOf
<1>18. Locals'
  BY <1>2, <1>4, <1>7, <1>10, <1>14, <1>16, <1>17, <1>p DEF Locals
<1>19. Rotations'
  BY <1>0, <1>2, <1>4, <1>7, <1>10, <1>p DEF Rotations, TypeOK
<1>20. PICK C \in [Node -> Nat] :
         Heights(Turned(rb_child, p, s, d), TurnedPar(rb_child, Par, p, s, d),
                 (black \ {p}) \cup {s}, C, p, d)
  <2>1. Heights(rb_child, Par, black, B, p, d)
    BY <1>0, <1>1, <1>2, <1>p, <1>d, LabelsAreHeights
  <2>2. /\ rb_node \in NodeOrNil /\ rb_child \in Children /\ Par \in Parents
        /\ Tree(rb_node, rb_child, Par)
        /\ rb_child[p][Opposite(d)] = s /\ Par[p] # s
        /\ p \in black /\ s \notin black /\ p # s /\ p \in NodeOrNil
    BY <1>4, <1>8 DEF black, NodeOrNil
  <2>3. QED
    BY <2>1, <2>2, SwapHeights
<1>21. Labels(C)'
  <2>1. \A m \in Node : /\ Par'[m] # m <=> ~RB_EMPTY_NODE(m)'
                        /\ m \in (black \ {p}) \cup {s} <=> rb_is_black(m)'
    BY <1>10 DEF Par, RB_EMPTY_NODE, black
  <2>2. \A m \in Node, e \in Side : ~RB_EMPTY_NODE(m)' =>
          C[m] = (IF rb_is_black(m)' THEN 1 ELSE 0) + Down(C, rb_child'[m][e])
                 + (IF m = p /\ e = d THEN 1 ELSE 0)
    BY <1>9, <1>12, <1>20, <2>1 DEF Heights
  <2>3. QED
    BY <1>2, <1>7, <1>17, <1>p, <2>2 DEF Labels, Own, Short, Down
<1>22. IsTurn(rb_node, rb_child, Par, rb_node', rb_child', Par')
  <2>1. rb_node' = RootAfter(rb_node, Par, p, s)
    BY <1>7, <1>8 DEF RootAfter, ChangeRoot
  <2>2. QED
    BY <1>4, <1>8, <1>9, <1>12, <2>1 DEF IsTurn
<1>23. RedSiblingTurns
  <2>1. TurnsAt(Par, rb_child, rb_child', p, s, d)
    BY <1>4, <1>8, <1>9 DEF TurnsAt
  <2>2. QED
    BY <2>1, <1>p, <1>s, <1>d DEF RedSiblingTurns
<1>24. QED
  BY <1>11, <1>13, <1>15, <1>18, <1>19, <1>21, <1>22, <1>23 DEF IInv, TreeTurned

\* The tree before the last rotation of an insertion, at g.
BeforeLastInsertTurn(ch, par, blk, B, g, o, s) ==
  /\ Tree(rb_node, ch, par)
  /\ Heights(ch, par, blk, B, NULL, "left")
  /\ ch[g][Opposite(o)] = s
  /\ par[g] # s
  /\ g \in blk /\ s \notin blk
  /\ \A m \in Node : par[m] # m /\ m \notin blk =>
       \/ par[m] # NULL /\ par[m] \in blk
       \/ par[m] = s
  /\ ch[s][o] \in blk \cup {NULL}
  /\ ch[g][o] \in blk \cup {NULL}

\* The last rotation of an insertion restores the invariant at rest.
LEMMA LastInsertTurn ==
  ASSUME NEW ch \in Children, NEW par \in Parents, NEW blk, NEW B \in [Node -> Nat],
         NEW g \in Node, NEW o \in Side, NEW s \in Node,
         BeforeLastInsertTurn(ch, par, blk, B, g, o, s),
         rb_node \in NodeOrNil,
         TypeOK', pc' = "idle", node' = NULL, rotations' =< 3,
         rb_child' = Turned(ch, g, s, o),
         Par' = TurnedPar(ch, par, g, s, o),
         rb_node' = RootAfter(rb_node, par, g, s),
         \A m \in Node : rb_is_black(m)' <=> m \in (blk \ {g}) \cup {s}
  PROVE  IInv'
<1> USE NodeAssumption
<1>1. /\ Tree(rb_node, ch, par)
      /\ Heights(ch, par, blk, B, NULL, "left")
      /\ ch[g][Opposite(o)] = s
      /\ par[g] # s
      /\ g \in blk /\ s \notin blk
  BY DEF BeforeLastInsertTurn
<1>2. ParTree'
  BY <1>1, TurnedTree, TurnedTypes DEF ParTree, TypeOK
<1>3. Links'
  BY <1>2, TreeIsLinks, PTL
<1>4. /\ par[s] = g /\ par[g] # g /\ g # s
      /\ \A m \in Node : Par'[m] # m => par[m] # m
      /\ \A m \in Node : Par'[m] = rb_parent(m)'
      /\ \A m \in Node : RB_EMPTY_NODE(m)' <=> Par'[m] = m
  BY <1>1, AroundTurn DEF Par, RB_EMPTY_NODE
<1>5. Colors'
  <2>1. ASSUME NEW m \in Node, ~RB_EMPTY_NODE(m)', ~rb_is_black(m)'
        PROVE  rb_parent(m)' # NULL /\ rb_is_black(rb_parent(m))'
    <3>1. rb_parent(m)' = IF m = g THEN s ELSE IF m = s THEN par[g]
                          ELSE IF m = ch[s][o] THEN g ELSE par[m]
      BY <1>4 DEF TurnedPar
    <3>2. CASE m = g
      BY <3>1, <3>2
    <3>3. CASE m # g
      <4>1. m # s /\ m \notin blk /\ par[m] # m /\ m # ch[s][o] /\ m # ch[g][o]
        BY <1>1, <1>4, <2>1, <3>3 DEF BeforeLastInsertTurn
      <4>2. par[m] # g
        BY <1>1, <4>1, Sides DEF Tree
      <4>3. par[m] \in NodeOrNil
        BY DEF Parents
      <4>4. par[m] = s \/ (par[m] \in Node /\ par[m] \in blk)
        BY <4>1, <4>3 DEF BeforeLastInsertTurn, NodeOrNil
      <4>5. QED
        BY <3>1, <3>3, <4>1, <4>2, <4>4
    <3>4. QED
      BY <3>2, <3>3
  <2>2. QED
    BY <2>1 DEF Colors
<1>6. Locals'
  BY DEF Locals
<1>7. Rotations'
  BY DEF Rotations
<1>8. PICK C \in [Node -> Nat] :
        Heights(Turned(ch, g, s, o), TurnedPar(ch, par, g, s, o), (blk \ {g}) \cup {s}, C, NULL, "left")
  <2>1. NULL \in NodeOrNil /\ "left" \in Side /\ NULL # s /\ NULL # g
    BY DEF NodeOrNil, Side
  <2>2. QED
    BY <1>1, <2>1, SwapHeights
<1>9. Labels(C)'
  <2>1. \A m \in Node, e \in Side : ~RB_EMPTY_NODE(m)' =>
          C[m] = (IF rb_is_black(m)' THEN 1 ELSE 0) + Down(C, rb_child'[m][e])
                 + (IF m = NULL /\ e = "left" THEN 1 ELSE 0)
    BY <1>4, <1>8 DEF Heights
  <2>2. QED
    BY <2>1 DEF Labels, Own, Short, Down
<1>10. QED
  BY <1>3, <1>5, <1>6, <1>7, <1>9 DEF IInv

\* Case 2 of __rb_insert, when there is one, leads to the tree of Case 3.
LEMMA InsertRotateKeepsIInv ==
  ASSUME IInv, InsertRotate
  PROVE  IInv' /\ TreeTurned /\ InsertTurns
<1> USE NodeAssumption
<1>0. TypeOK /\ Links /\ Colors /\ Locals /\ Rotations
  BY DEF IInv
<1>1. PICK B \in [Node -> Nat] : Labels(B)
  BY DEF IInv
<1>2. pc = "insert" /\ parent # NULL /\ rb_is_red(parent) /\ ~UncleIsRed
  BY DEF InsertRotate
<1>3. /\ node \in Node /\ parent \in Node /\ rb_parent(parent) \in Node
      /\ ~RB_EMPTY_NODE(node) /\ ~RB_EMPTY_NODE(parent) /\ ~RB_EMPTY_NODE(rb_parent(parent))
      /\ rb_parent(node) = parent
      /\ ~rb_is_black(node) /\ ~rb_is_black(parent) /\ rb_is_black(rb_parent(parent))
      /\ node # parent /\ node # rb_parent(parent) /\ parent # rb_parent(parent)
  BY <1>2, RedParent
<1>n. PICK n \in Node : n = node
  BY <1>3
<1>p. PICK p \in Node : p = parent
  BY <1>3
<1>g. PICK g \in Node : g = rb_parent(p)
  BY <1>3, <1>p
<1>gg. PICK gg \in NodeOrNil : gg = rb_parent(g)
  BY <1>0, ParentType
<1>d. PICK d \in Side : d = SideOf(p, g)
  BY Sides DEF SideOf
<1>o. PICK o \in Side : o = Opposite(d)
  BY Sides
<1>4. /\ ~RB_EMPTY_NODE(n) /\ ~RB_EMPTY_NODE(p) /\ ~RB_EMPTY_NODE(g)
      /\ rb_parent(n) = p /\ rb_parent(p) = g
      /\ ~rb_is_black(n) /\ ~rb_is_black(p) /\ rb_is_black(g)
      /\ n # p /\ n # g /\ p # g
  BY <1>3, <1>n, <1>p, <1>g
<1>5. /\ o # d /\ d = Opposite(o)
      /\ rb_child[g][d] = p
      /\ rb_child[p][SideOf(n, p)] = n /\ SideOf(n, p) \in Side
  BY <1>0, <1>4, <1>d, <1>o, SideOfChild, Sides
<1>6. /\ rb_node \in NodeOrNil /\ rb_child \in Children /\ Par \in Parents
      /\ Tree(rb_node, rb_child, Par)
      /\ \A m \in Node : Par[m] = rb_parent(m) /\ (Par[m] # m <=> ~RB_EMPTY_NODE(m))
  BY <1>0, LinksIsTree
<1>7. gg # n /\ gg # p /\ gg # g
  <2>1. Rank(B, p) < Rank(B, g) /\ Rank(B, p) \in Nat /\ Rank(B, g) \in Nat
    BY <1>0, <1>1, <1>4, <1>5, <1>n, RankDown
  <2>2. gg # NULL => Rank(B, g) < Rank(B, gg) /\ Rank(B, gg) \in Nat
    <3>1. SUFFICES ASSUME gg # NULL PROVE Rank(B, g) < Rank(B, gg) /\ Rank(B, gg) \in Nat
      OBVIOUS
    <3>2. gg \in Node /\ SideOf(g, gg) \in Side /\ rb_child[gg][SideOf(g, gg)] = g
      BY <1>0, <1>4, <1>gg, <3>1, SideOfChild DEF NodeOrNil
    <3>3. QED
      BY <1>0, <1>1, <1>4, <1>n, <3>2, RankDown
  <2>3. Rank(B, n) = Rank(B, p)
    <3>1. Short(p, SideOf(n, p)) = 0 /\ Own(p) = 0
      BY <1>2, <1>4 DEF Short, Own
    <3>2. B[p] = Own(p) + Down(B, n) + Short(p, SideOf(n, p))
      BY <1>1, <1>4, <1>5 DEF Labels
    <3>3. B[p] = B[n]
      BY <3>1, <3>2 DEF Down
    <3>4. QED
      BY <1>4, <3>3 DEF Rank
  <2>4. QED
    BY <2>1, <2>2, <2>3
<1>8. rb_child[g][o] \in black \cup {NULL}
  <2>1. rb_child[g][o] = Uncle
    BY <1>d, <1>g, <1>o, <1>p DEF Uncle
  <2>2. Uncle \in NodeOrNil
    BY <1>6, <2>1 DEF Children
  <2>3. QED
    BY <1>0, <1>2, <2>1, <2>2, RedOrBlack DEF UncleIsRed, NodeOrNil, black
<1>9. \A m \in Node : Par[m] # m /\ m \notin black =>
        (Par[m] # NULL /\ Par[m] \in black) \/ m = n
  <2>1. \A m \in Node : Par[m] \in NodeOrNil
    BY <1>6 DEF Parents
  <2>2. QED
    BY <1>0, <1>6, <1>n, <2>1 DEF Colors, black, NodeOrNil
<1>10. Heights(rb_child, Par, black, B, NULL, "left")
  BY <1>0, <1>1, <1>2, LabelsAreHeights
<1>11. \A e \in Side : /\ rb_child[n][e] \in black \cup {NULL}
                       /\ rb_child[p][e] \in black \cup {n, NULL}
  <2> TAKE e \in Side
  <2>1. rb_child[n][e] \in NodeOrNil /\ rb_child[p][e] \in NodeOrNil
    BY <1>6 DEF Children
  <2>2. n \notin black /\ p \notin black
    BY <1>4 DEF black
  <2>3. rb_child[n][e] # NULL => Par[rb_child[n][e]] = n /\ rb_child[n][e] # n
    BY <1>6, <2>1 DEF Tree, NodeOrNil
  <2>4. rb_child[p][e] # NULL => Par[rb_child[p][e]] = p /\ rb_child[p][e] # p
    BY <1>6, <2>1 DEF Tree, NodeOrNil
  <2>5. QED
    BY <1>9, <2>1, <2>2, <2>3, <2>4 DEF NodeOrNil
<1>12. pc' = "idle" /\ node' = NULL /\ parent' = NULL /\ dir' = "left" /\ successor' = NULL
  BY DEF InsertRotate, Return
<1>13. rotations' \in Nat /\ rotations' =< 3
  BY <1>0, <1>2 DEF InsertRotate, Rotations, TypeOK
<1>14. CASE n # rb_child[p][o]
  <2>1. /\ rb_child' = ChangeChild(RotateStores(rb_child, g, p, o), g, p, gg)
        /\ rb_node' = ChangeRoot(p, gg)
        /\ rb_parent_color' =
             RotateSetParents(SetIfAny(rb_parent_color, rb_child[p][o], g, "black"), g, p, "red")
    BY <1>14, <1>n, <1>p, <1>g, <1>gg, <1>d, <1>o DEF InsertRotate
  <2>u. PICK u \in NodeOrNil : u = rb_child[p][o]
    BY <1>6 DEF Children
  <2>2. u # g /\ u # p /\ u \in black \cup {NULL}
    <3>1. u \in black \cup {NULL}
      BY <1>11, <1>14, <2>u
    <3>2. u # NULL => Par[u] = p /\ u # p
      BY <1>6, <2>u DEF Tree
    <3>3. Par[g] = gg /\ p # NULL /\ g # NULL
      BY <1>6, <1>gg
    <3>4. QED
      BY <1>7, <3>1, <3>2, <3>3
  <2>3. rb_child' = Turned(rb_child, g, p, o) /\ rb_child' \in Children
    <3>1. rb_child[g][Opposite(o)] = p /\ Par[g] # p /\ Par[g] = gg
      BY <1>5, <1>6, <1>7, <1>gg
    <3>2. ChangeChild(RotateStores(rb_child, g, p, o), g, p, gg) = Turned(rb_child, g, p, o)
      BY <1>6, <3>1, RotationStores
    <3>3. QED
      BY <1>6, <2>1, <3>2, TurnedTypes
  <2>4. /\ rb_parent_color' \in Words
        /\ \A m \in Node : rb_parent_color'[m] =
             IF m = g THEN Word(p, "red") ELSE IF m = p THEN rb_parent_color[g]
             ELSE IF m = u THEN Word(g, "black") ELSE rb_parent_color[m]
    <3>1. /\ "red" \in Color /\ "black" \in Color /\ g \in NodeOrNil /\ p # g
          /\ rb_parent_color \in Words
      BY <1>0, <1>4 DEF Color, NodeOrNil, TypeOK, Words
    <3>w. PICK w \in Words : w = SetIfAny(rb_parent_color, u, g, "black")
      BY <3>1, SetIfAnyStores
    <3>a. \A m \in Node : SetIfAny(rb_parent_color, u, g, "black")[m] =
            IF m = u THEN Word(g, "black") ELSE rb_parent_color[m]
      BY <3>1, SetIfAnyStores
    <3>2. \A m \in Node : w[m] = IF m = u THEN Word(g, "black") ELSE rb_parent_color[m]
      BY <3>a, <3>w
    <3>3. rb_parent_color' = RotateSetParents(w, g, p, "red")
      BY <2>1, <2>u, <3>w
    <3>4. RotateSetParents(w, g, p, "red") \in Words
      BY <3>1, RotateSetParentsStores
    <3>5. \A m \in Node : RotateSetParents(w, g, p, "red")[m] =
            IF m = g THEN Word(p, "red") ELSE IF m = p THEN w[g] ELSE w[m]
      BY <3>1, RotateSetParentsStores
    <3>6. QED
      BY <2>2, <3>2, <3>3, <3>4, <3>5
  <2>5. Par' = TurnedPar(rb_child, Par, g, p, o)
    BY <1>6, <2>2, <2>4, <2>u DEF Par, TurnedPar, rb_parent, Word
  <2>6. \A m \in Node : rb_is_black(m)' <=> m \in (black \ {g}) \cup {p}
    BY <1>4, <2>2, <2>4 DEF rb_is_black, Word, black
  <2>7. rb_node' = RootAfter(rb_node, Par, g, p)
    BY <1>6, <1>gg, <2>1 DEF ChangeRoot, RootAfter
  <2>8. TypeOK'
    <3>1. rb_node' \in NodeOrNil
      BY <1>6, <2>7 DEF RootAfter, NodeOrNil
    <3>2. QED
      BY <1>12, <1>13, <2>3, <2>4, <3>1 DEF TypeOK, Children, Words, NodeOrNil, Side
  <2>9. BeforeLastInsertTurn(rb_child, Par, black, B, g, o, p)
    <3>1. g \in black /\ p \notin black /\ Par[g] # p /\ Par[n] = p
      BY <1>4, <1>6, <1>7, <1>gg DEF black
    <3>2. \A m \in Node : Par[m] # m /\ m \notin black =>
            (Par[m] # NULL /\ Par[m] \in black) \/ Par[m] = p
      BY <1>9, <3>1
    <3>3. QED
      BY <1>5, <1>6, <1>8, <1>10, <2>2, <2>u, <3>1, <3>2 DEF BeforeLastInsertTurn
  <2>10. IInv'
    BY <1>6, <1>12, <1>13, <2>3, <2>5, <2>6, <2>7, <2>8, <2>9, LastInsertTurn
  <2>11. rb_child[g][Opposite(o)] = p /\ Par[g] # p
    BY <1>5, <1>6, <1>7, <1>gg
  <2>12. IsTurn(rb_node, rb_child, Par, rb_node', rb_child', Par')
    BY <2>3, <2>5, <2>7, <2>11 DEF IsTurn
  <2>13. TurnsAt(Par, rb_child, rb_child', g, p, o)
    BY <1>6, <2>3, <2>11 DEF TurnsAt
  <2>14. InsertTurns
    BY <1>14, <1>n, <1>p, <1>g, <1>d, <1>o, <2>13 DEF InsertTurns
  <2>15. QED
    BY <2>10, <2>12, <2>14 DEF TreeTurned
<1>15. CASE n = rb_child[p][o]
  <2>ch. PICK ch \in Children : ch = RotateStores(rb_child, p, n, d)
    BY <1>4, <1>6, RotateStoresStores
  <2>a. PICK a \in NodeOrNil : a = rb_child[n][d]
    BY <1>6 DEF Children
  <2>b. PICK b \in NodeOrNil : b = rb_child[n][o]
    BY <1>6 DEF Children
  <2>0. \A m \in Node, e \in Side :
          ch[m][e] = IF m = p /\ e # d THEN a ELSE IF m = n /\ e = d THEN p ELSE rb_child[m][e]
    <3>1. \A m \in Node, e \in Side :
            RotateStores(rb_child, p, n, d)[m][e] =
              IF m = p /\ e # d THEN rb_child[n][d] ELSE IF m = n /\ e = d THEN p ELSE rb_child[m][e]
      BY <1>4, <1>6, RotateStoresStores
    <3>2. QED
      BY <2>ch, <2>a, <3>1
  <2>1. /\ rb_child' = ChangeChild(RotateStores(ch, g, n, o), g, n, gg)
        /\ rb_node' = ChangeRoot(n, gg)
        /\ rb_parent_color' =
             RotateSetParents(
               SetIfAny([SetIfAny(rb_parent_color, a, p, "black") EXCEPT ![p] = Word(n, "red")],
                        ch[n][o], g, "black"), g, n, "red")
    BY <1>15, <1>n, <1>p, <1>g, <1>gg, <1>d, <1>o, <2>ch, <2>a DEF InsertRotate
  <2>2. /\ ch[n][o] = b
        /\ a # p /\ a # n /\ a # g /\ b # p /\ b # n /\ b # g
        /\ a \in black \cup {NULL} /\ b \in black \cup {NULL}
        /\ a # NULL => Par[a] = n
        /\ b # NULL => Par[b] = n /\ a # b
    <3>1. ch[n][o] = b /\ a \in black \cup {NULL} /\ b \in black \cup {NULL}
      BY <1>4, <1>5, <1>11, <2>0, <2>a, <2>b
    <3>2. /\ a # NULL => Par[a] = n
          /\ b # NULL => Par[b] = n /\ a # b
      BY <1>6, <1>o, <2>a, <2>b DEF Tree
    <3>3. Par[p] = g /\ Par[n] = p /\ Par[g] = gg
      BY <1>4, <1>6, <1>gg
    <3>4. QED
      BY <1>4, <1>7, <3>1, <3>2, <3>3
  <2>c. PICK ch1 \in Children : ch1 = Turned(rb_child, p, n, d)
    BY <1>6, TurnedTypes
  <2>q. PICK par1 \in Parents : par1 = TurnedPar(rb_child, Par, p, n, d)
    BY <1>6, TurnedTypes
  <2>3. \A m \in Node, e \in Side :
          ch1[m][e] = IF m = p /\ e # d THEN a ELSE IF m = n /\ e = d THEN p
                      ELSE IF rb_child[m][e] = p THEN n ELSE rb_child[m][e]
    BY <2>a, <2>c DEF Turned
  <2>4. \A m \in Node : par1[m] = IF m = p THEN n ELSE IF m = n THEN g
                                  ELSE IF m = a THEN p ELSE Par[m]
    BY <1>4, <1>6, <2>a, <2>q DEF TurnedPar
  <2>5. Tree(rb_node, ch1, par1)
    <3>1. RootAfter(rb_node, Par, p, n) = rb_node /\ Par[p] # n /\ rb_child[p][Opposite(d)] = n
      BY <1>4, <1>6, <1>15, <1>o DEF RootAfter
    <3>2. QED
      BY <1>6, <2>c, <2>q, <3>1, TurnedTree
  <2>6. Heights(ch1, par1, black, B, NULL, "left")
    <3>1. Par[p] # n /\ rb_child[p][Opposite(d)] = n /\ p \notin black /\ n \notin black
      BY <1>4, <1>6, <1>15, <1>o DEF black
    <3>2. QED
      BY <1>6, <1>10, <2>c, <2>q, <3>1, RedHeights
  <2>7. /\ ch1[g][d] = n /\ ch1[n][o] = b /\ par1[g] = gg
        /\ ch1[g][o] = rb_child[g][o]
    <3>1. rb_child[g][o] # p /\ rb_child[n][o] # p
      BY <1>4, <1>5, <1>6, <1>o, <2>2, <2>b DEF Tree
    <3>2. QED
      BY <1>4, <1>5, <1>6, <1>gg, <2>2, <2>3, <2>4, <2>b, <3>1
  <2>8. RotateStores(ch, g, n, o) = RotateStores(ch1, g, n, o)
    <3>1. RotateStores(ch, g, n, o) \in Children /\ RotateStores(ch1, g, n, o) \in Children
      BY <1>4, RotateStoresStores
    <3>2. \A m \in Node, e \in Side :
            RotateStores(ch, g, n, o)[m][e] =
              IF m = g /\ e # o THEN ch[n][o] ELSE IF m = n /\ e = o THEN g ELSE ch[m][e]
      BY <1>4, RotateStoresStores
    <3>3. \A m \in Node, e \in Side :
            RotateStores(ch1, g, n, o)[m][e] =
              IF m = g /\ e # o THEN ch1[n][o] ELSE IF m = n /\ e = o THEN g ELSE ch1[m][e]
      BY <1>4, RotateStoresStores
    <3>4. \A m \in Node, e \in Side : rb_child[m][e] = p => m = g /\ e # o
      BY <1>4, <1>5, <1>6, <1>o, Sides DEF Tree
    <3>5. \A m \in Node, e \in Side : ~(m = g /\ e # o) => ch[m][e] = ch1[m][e]
      BY <2>0, <2>3, <3>4
    <3>6. \A m \in Node, e \in Side : RotateStores(ch, g, n, o)[m][e] = RotateStores(ch1, g, n, o)[m][e]
      BY <2>2, <2>7, <3>2, <3>3, <3>5
    <3>7. QED
      BY <3>1, <3>6, SameChildren
  <2>9. rb_child' = Turned(ch1, g, n, o) /\ rb_child' \in Children
    <3>1. ch1[g][Opposite(o)] = n /\ par1[g] # n /\ par1[g] = gg
      BY <1>5, <1>7, <2>7
    <3>2. ChangeChild(RotateStores(ch1, g, n, o), g, n, gg) = Turned(ch1, g, n, o)
      BY <1>6, <2>5, <3>1, RotationStores
    <3>3. QED
      BY <2>1, <2>8, <3>2, TurnedTypes
  <2>10. /\ rb_parent_color' \in Words
         /\ \A m \in Node : rb_parent_color'[m] =
              IF m = g THEN Word(n, "red") ELSE IF m = n THEN rb_parent_color[g]
              ELSE IF m = b THEN Word(g, "black") ELSE IF m = p THEN Word(n, "red")
              ELSE IF m = a THEN Word(p, "black") ELSE rb_parent_color[m]
    <3>1. /\ "red" \in Color /\ "black" \in Color /\ g \in NodeOrNil /\ p \in NodeOrNil
          /\ n \in NodeOrNil /\ n # g /\ rb_parent_color \in Words
      BY <1>0, <1>4 DEF Color, NodeOrNil, TypeOK, Words
    <3>w. PICK w \in Words : w = SetIfAny(rb_parent_color, a, p, "black")
      BY <3>1, SetIfAnyStores
    <3>a. \A m \in Node : SetIfAny(rb_parent_color, a, p, "black")[m] =
            IF m = a THEN Word(p, "black") ELSE rb_parent_color[m]
      BY <3>1, SetIfAnyStores
    <3>2. \A m \in Node : w[m] = IF m = a THEN Word(p, "black") ELSE rb_parent_color[m]
      BY <3>a, <3>w
    <3>x. PICK w1 \in Words : w1 = [w EXCEPT ![p] = Word(n, "red")]
      BY <3>1, WordStores
    <3>3. \A m \in Node : w1[m] = IF m = p THEN Word(n, "red") ELSE w[m]
      BY <3>x DEF Words
    <3>y. PICK w2 \in Words : w2 = SetIfAny(w1, b, g, "black")
      BY <3>1, SetIfAnyStores
    <3>b. \A m \in Node : SetIfAny(w1, b, g, "black")[m] = IF m = b THEN Word(g, "black") ELSE w1[m]
      BY <3>1, SetIfAnyStores
    <3>4. \A m \in Node : w2[m] = IF m = b THEN Word(g, "black") ELSE w1[m]
      BY <3>b, <3>y
    <3>5. rb_parent_color' = RotateSetParents(w2, g, n, "red")
      BY <2>1, <2>2, <3>w, <3>x, <3>y
    <3>6. RotateSetParents(w2, g, n, "red") \in Words
      BY <3>1, RotateSetParentsStores
    <3>7. \A m \in Node : RotateSetParents(w2, g, n, "red")[m] =
            IF m = g THEN Word(n, "red") ELSE IF m = n THEN w2[g] ELSE w2[m]
      BY <3>1, RotateSetParentsStores
    <3>8. w2[g] = rb_parent_color[g]
      BY <1>4, <2>2, <3>2, <3>3, <3>4
    <3>9. QED
      BY <3>2, <3>3, <3>4, <3>5, <3>6, <3>7, <3>8
  <2>11. Par' = TurnedPar(ch1, par1, g, n, o)
    <3>1. \A m \in Node : rb_parent(m)' =
            IF m = g THEN n ELSE IF m = n THEN gg ELSE IF m = b THEN g
            ELSE IF m = p THEN n ELSE IF m = a THEN p ELSE rb_parent(m)
      BY <1>gg, <2>10 DEF rb_parent, Word
    <3>2. \A m \in Node : TurnedPar(ch1, par1, g, n, o)[m] =
            IF m = g THEN n ELSE IF m = n THEN gg ELSE IF m = b THEN g ELSE par1[m]
      BY <2>7 DEF TurnedPar
    <3>3. \A m \in Node : Par'[m] = TurnedPar(ch1, par1, g, n, o)[m]
      BY <1>4, <1>6, <2>2, <2>4, <3>1, <3>2 DEF Par
    <3>4. QED
      BY <3>3 DEF Par, TurnedPar
  <2>12. \A m \in Node : rb_is_black(m)' <=> m \in (black \ {g}) \cup {n}
    BY <1>4, <2>2, <2>10 DEF rb_is_black, Word, black
  <2>13. rb_node' = RootAfter(rb_node, par1, g, n)
    BY <2>1, <2>7 DEF ChangeRoot, RootAfter
  <2>14. TypeOK'
    <3>1. rb_node' \in NodeOrNil
      BY <1>6, <2>13 DEF RootAfter, NodeOrNil
    <3>2. QED
      BY <1>12, <1>13, <2>9, <2>10, <3>1 DEF TypeOK, Children, Words, NodeOrNil, Side
  <2>15. BeforeLastInsertTurn(ch1, par1, black, B, g, o, n)
    <3>1. g \in black /\ n \notin black /\ p \notin black /\ par1[g] # n
      BY <1>4, <1>7, <2>7 DEF black
    <3>2. \A m \in Node : par1[m] # m /\ m \notin black =>
            (par1[m] # NULL /\ par1[m] \in black) \/ par1[m] = n
      <4> TAKE m \in Node
      <4>1. CASE m = p \/ m = n
        BY <1>4, <2>4, <3>1, <4>1
      <4>2. CASE m # p /\ m # n
        BY <1>9, <2>2, <2>4, <4>2
      <4>3. QED
        BY <4>1, <4>2
    <3>3. QED
      BY <1>5, <1>8, <2>2, <2>5, <2>6, <2>7, <3>1, <3>2 DEF BeforeLastInsertTurn
  <2>16. IInv'
    BY <1>6, <1>12, <1>13, <2>9, <2>11, <2>12, <2>13, <2>14, <2>15, LastInsertTurn
  <2>17. IsTurn(rb_node, rb_child, Par, rb_node, ch1, par1)
    <3>1. RootAfter(rb_node, Par, p, n) = rb_node /\ Par[p] # n /\ rb_child[p][Opposite(d)] = n
      BY <1>4, <1>6, <1>15, <1>o DEF RootAfter
    <3>2. QED
      BY <2>c, <2>q, <3>1 DEF IsTurn
  <2>18. IsTurn(rb_node, ch1, par1, rb_node', rb_child', Par')
    <3>1. ch1[g][Opposite(o)] = n /\ par1[g] # n
      BY <1>5, <1>7, <2>7
    <3>2. QED
      BY <2>9, <2>11, <2>13, <3>1 DEF IsTurn
  <2>19. TurnsTwice(Par, rb_child, rb_child', p, g, n, d)
    <3>1. /\ Par[p] # n /\ rb_child[p][Opposite(d)] = n
          /\ ch1[g][Opposite(o)] = n /\ par1[g] # n
      BY <1>4, <1>5, <1>6, <1>7, <1>15, <1>o, <2>7
    <3>2. TurnsAt(Par, rb_child, ch1, p, n, d)
      BY <1>6, <2>c, <3>1 DEF TurnsAt
    <3>3. TurnsAt(par1, ch1, rb_child', g, n, o)
      BY <2>5, <2>9, <3>1 DEF TurnsAt
    <3>4. \A e \in Side : rb_child[p][e] # g
      BY <1>4, <1>6, <1>7, <1>gg DEF Tree
    <3>5. \A e \in Side : ch1[p][e] # g
      BY <1>4, <2>2, <2>3, <3>4
    <3>6. QED
      BY <1>4, <1>o, <3>2, <3>3, <3>5 DEF TurnsTwice
  <2>20. InsertTurns
    BY <1>15, <1>n, <1>p, <1>g, <1>d, <1>o, <2>19 DEF InsertTurns
  <2>21. QED
    BY <2>16, <2>17, <2>18, <2>20 DEF TreeTurned
<1>16. QED
  BY <1>14, <1>15

\* The tree before the last rotation of an erasure, at p.
BeforeLastEraseTurn(ch, par, blk, B, p, d, s, v) ==
  /\ Tree(rb_node, ch, par)
  /\ Heights(ch, par, blk, B, p, d)
  /\ ch[p][Opposite(d)] = s
  /\ ch[s][Opposite(d)] = v
  /\ par[p] # s /\ par[p] # v
  /\ s \in blk /\ v \notin blk
  /\ \A m \in Node : par[m] # m /\ m \notin blk => par[m] # NULL /\ par[m] \in blk

\* The last rotation of an erasure restores the invariant at rest.
LEMMA LastEraseTurn ==
  ASSUME NEW ch \in Children, NEW par \in Parents, NEW blk, NEW B \in [Node -> Nat],
         NEW p \in Node, NEW d \in Side, NEW s \in Node, NEW v \in Node,
         BeforeLastEraseTurn(ch, par, blk, B, p, d, s, v),
         rb_node \in NodeOrNil,
         TypeOK', pc' = "idle", node' = NULL, rotations' =< 3,
         rb_child' = Turned(ch, p, s, d),
         Par' = TurnedPar(ch, par, p, s, d),
         rb_node' = RootAfter(rb_node, par, p, s),
         \A m \in Node : rb_is_black(m)' <=> IF m = p \/ m = v THEN TRUE
                                             ELSE IF m = s THEN p \in blk ELSE m \in blk
  PROVE  IInv'
<1> USE NodeAssumption
<1>1. /\ Tree(rb_node, ch, par)
      /\ Heights(ch, par, blk, B, p, d)
      /\ ch[p][Opposite(d)] = s
      /\ ch[s][Opposite(d)] = v
      /\ par[p] # s /\ par[p] # v
      /\ s \in blk /\ v \notin blk
  BY DEF BeforeLastEraseTurn
<1>2. ParTree'
  BY <1>1, TurnedTree, TurnedTypes DEF ParTree, TypeOK
<1>3. Links'
  BY <1>2, TreeIsLinks, PTL
<1>4. /\ par[s] = p /\ par[p] # p /\ p # s
      /\ \A m \in Node : Par'[m] # m => par[m] # m
      /\ \A m \in Node : Par'[m] = rb_parent(m)'
      /\ \A m \in Node : RB_EMPTY_NODE(m)' <=> Par'[m] = m
  BY <1>1, AroundTurn DEF Par, RB_EMPTY_NODE
<1>5. par[v] = s /\ v # s /\ v # p
  BY <1>1, <1>4, Sides DEF Tree
<1>6. Colors'
  <2>1. ASSUME NEW m \in Node, ~RB_EMPTY_NODE(m)', ~rb_is_black(m)'
        PROVE  rb_parent(m)' # NULL /\ rb_is_black(rb_parent(m))'
    <3>1. rb_parent(m)' = IF m = p THEN s ELSE IF m = s THEN par[p]
                          ELSE IF m = ch[s][d] THEN p ELSE par[m]
      BY <1>4 DEF TurnedPar
    <3>2. m # p /\ m # v /\ par[m] # m
      BY <1>4, <2>1
    <3>3. CASE m = s
      <4>1. p \notin blk
        BY <1>4, <1>5, <2>1, <3>3
      <4>2. par[p] # NULL /\ par[p] \in blk /\ par[p] \in NodeOrNil
        BY <1>4, <4>1 DEF BeforeLastEraseTurn, Parents
      <4>3. par[p] \in Node /\ par[p] # s /\ par[p] # v
        BY <1>1, <4>2 DEF NodeOrNil
      <4>4. QED
        BY <3>1, <3>2, <3>3, <4>2, <4>3
    <3>4. CASE m # s
      <4>1. m \notin blk
        BY <2>1, <3>2, <3>4
      <4>2. par[m] # NULL /\ par[m] \in blk /\ par[m] \in NodeOrNil
        BY <3>2, <4>1 DEF BeforeLastEraseTurn, Parents
      <4>3. par[m] \in Node /\ par[m] # v
        BY <1>1, <4>2 DEF NodeOrNil
      <4>4. par[m] = s => m = ch[s][d]
        BY <1>1, <3>2, <4>3, Sides DEF Tree
      <4>5. QED
        BY <3>1, <3>2, <3>4, <4>2, <4>3, <4>4
    <3>5. QED
      BY <3>3, <3>4
  <2>2. QED
    BY <2>1 DEF Colors
<1>7. Locals'
  BY DEF Locals
<1>8. Rotations'
  BY DEF Rotations
<1>9. PICK C \in [Node -> Nat] :
        Heights(Turned(ch, p, s, d), TurnedPar(ch, par, p, s, d),
                BlackAfter(blk, p, s, v), C, NULL, "left")
  BY <1>1, ShortHeights
<1>10. Labels(C)'
  <2>1. \A m \in Node, e \in Side : ~RB_EMPTY_NODE(m)' =>
          C[m] = (IF rb_is_black(m)' THEN 1 ELSE 0) + Down(C, rb_child'[m][e])
                 + (IF m = NULL /\ e = "left" THEN 1 ELSE 0)
    BY <1>4, <1>9 DEF Heights, BlackAfter
  <2>2. QED
    BY <2>1 DEF Labels, Own, Short, Down
<1>11. QED
  BY <1>3, <1>6, <1>7, <1>8, <1>10 DEF IInv

\* Case 3 of ____rb_erase_color, when there is one, leads to the tree of Case 4.
LEMMA EraseRotateKeepsIInv ==
  ASSUME IInv, EraseRotate
  PROVE  IInv' /\ TreeTurned /\ EraseTurns
<1> USE NodeAssumption
<1>0. TypeOK /\ Links /\ Colors /\ Locals /\ Rotations
  BY DEF IInv
<1>1. PICK B \in [Node -> Nat] : Labels(B)
  BY DEF IInv
<1>2. pc = "erase_color" /\ rb_is_black(Sibling) /\ ~NephewsAreBlack
  BY DEF EraseRotate
<1>3. /\ parent \in Node /\ ~RB_EMPTY_NODE(parent)
      /\ SideOf(node, parent) \in Side
      /\ Sibling \in Node /\ ~RB_EMPTY_NODE(Sibling)
      /\ rb_child[parent][Opposite(SideOf(node, parent))] = Sibling
      /\ rb_parent(Sibling) = parent /\ Sibling # parent
      /\ \A e \in Side : Nephew(e) # NULL =>
           /\ Nephew(e) \in Node /\ ~RB_EMPTY_NODE(Nephew(e))
           /\ rb_parent(Nephew(e)) = Sibling /\ Nephew(e) # Sibling
  BY <1>1, <1>2, AroundShort
<1>S. PICK sib \in Node : sib = Sibling
  BY <1>3
<1>p. PICK p \in Node : p = parent
  BY <1>3
<1>g. PICK gp \in NodeOrNil : gp = rb_parent(p)
  BY <1>0, ParentType
<1>d. PICK d \in Side : d = SideOf(node, parent)
  BY <1>3
<1>o. PICK o \in Side : o = Opposite(d)
  BY Sides
<1>4. /\ o # d /\ d = Opposite(o) /\ \A e \in Side : e = d \/ e = o
      /\ ~RB_EMPTY_NODE(p) /\ ~RB_EMPTY_NODE(sib) /\ rb_parent(sib) = p /\ sib # p
      /\ rb_child[p][o] = sib
      /\ rb_is_black(sib)
  BY <1>2, <1>3, <1>S, <1>p, <1>d, <1>o, Sides
<1>5. /\ rb_node \in NodeOrNil /\ rb_child \in Children /\ Par \in Parents
      /\ Tree(rb_node, rb_child, Par)
      /\ \A m \in Node : Par[m] = rb_parent(m) /\ (Par[m] # m <=> ~RB_EMPTY_NODE(m))
  BY <1>0, LinksIsTree
<1>x. PICK x \in NodeOrNil : x = rb_child[sib][o]
  BY <1>5 DEF Children
<1>y. PICK y \in NodeOrNil : y = rb_child[sib][d]
  BY <1>5 DEF Children
<1>6. /\ Nephew(o) = x /\ Nephew(d) = y
      /\ x # NULL => Par[x] = sib /\ x # sib /\ x # y
      /\ y # NULL => Par[y] = sib /\ y # sib /\ x # y
  BY <1>4, <1>5, <1>x, <1>y, <1>S DEF Nephew, Tree
<1>7. /\ Par[p] = gp /\ Par[sib] = p
      /\ gp # sib /\ gp # p
      /\ gp # NULL => gp # x /\ gp # y
      /\ x # p /\ y # p
  <2>1. Rank(B, sib) < Rank(B, p) /\ Rank(B, sib) \in Nat /\ Rank(B, p) \in Nat
    BY <1>0, <1>1, <1>2, <1>4, RankDown
  <2>2. gp # NULL => Rank(B, p) < Rank(B, gp) /\ Rank(B, gp) \in Nat
    <3>1. SUFFICES ASSUME gp # NULL PROVE Rank(B, p) < Rank(B, gp) /\ Rank(B, gp) \in Nat
      OBVIOUS
    <3>2. gp \in Node /\ SideOf(p, gp) \in Side /\ rb_child[gp][SideOf(p, gp)] = p
      BY <1>0, <1>4, <1>g, <3>1, SideOfChild DEF NodeOrNil
    <3>3. QED
      BY <1>0, <1>1, <1>2, <3>2, RankDown
  <2>3. x # NULL => Rank(B, x) < Rank(B, sib) /\ Rank(B, x) \in Nat
    BY <1>0, <1>1, <1>2, <1>x, RankDown DEF NodeOrNil
  <2>4. y # NULL => Rank(B, y) < Rank(B, sib) /\ Rank(B, y) \in Nat
    BY <1>0, <1>1, <1>2, <1>y, RankDown DEF NodeOrNil
  <2>5. Par[p] = gp /\ Par[sib] = p
    BY <1>4, <1>5, <1>g
  <2>6. gp # sib /\ gp # p /\ (gp # NULL => gp # x /\ gp # y)
    BY <2>1, <2>2, <2>3, <2>4
  <2>7. x # p /\ y # p
    BY <2>1, <2>3, <2>4
  <2>8. QED
    BY <2>5, <2>6, <2>7
<1>8. /\ \A m \in Node : Par[m] \in NodeOrNil
      /\ \A m \in Node : Par[m] # m /\ m \notin black => Par[m] # NULL /\ Par[m] \in black
  <2>1. \A m \in Node : Par[m] \in NodeOrNil
    BY <1>5 DEF Parents
  <2>2. QED
    BY <1>0, <1>2, <1>5, <2>1 DEF Colors, black, NodeOrNil
<1>9. Heights(rb_child, Par, black, B, p, d)
  BY <1>0, <1>1, <1>2, <1>p, <1>d, LabelsAreHeights
<1>10. pc' = "idle" /\ node' = NULL /\ parent' = NULL /\ dir' = "left" /\ successor' = NULL
  BY DEF EraseRotate, Return
<1>11. rotations' \in Nat /\ rotations' =< 3
  BY <1>0, <1>2 DEF EraseRotate, Rotations, TypeOK
<1>12. BlackOrNull(x) \/ BlackOrNull(y) => BlackOrNull(x) # BlackOrNull(y)
  BY <1>2, <1>4, <1>6 DEF NephewsAreBlack, BlackOrNull
<1>13. CASE ~BlackOrNull(x)
  <2>1. /\ rb_child' = ChangeChild(RotateStores(rb_child, p, sib, d), p, sib, gp)
        /\ rb_node' = ChangeRoot(sib, gp)
        /\ rb_parent_color' =
             RotateSetParents(SetParentIfAny([rb_parent_color EXCEPT ![x] = Word(sib, "black")],
                                             rb_child[sib][d], p), p, sib, "black")
    BY <1>13, <1>6, <1>S, <1>p, <1>g, <1>d, <1>o DEF EraseRotate
  <2>2. x \in Node /\ x \notin black
    BY <1>13 DEF BlackOrNull, NodeOrNil
  <2>3. rb_child[p][Opposite(d)] = sib /\ rb_child[sib][Opposite(d)] = x /\ Par[p] # sib /\ Par[p] # x
        /\ sib \in black
    BY <1>4, <1>7, <1>o, <1>x, <2>2 DEF black
  <2>4. rb_child' = Turned(rb_child, p, sib, d) /\ rb_child' \in Children
    <3>1. ChangeChild(RotateStores(rb_child, p, sib, d), p, sib, gp) = Turned(rb_child, p, sib, d)
      BY <1>5, <1>7, <2>3, RotationStores
    <3>2. QED
      BY <1>5, <2>1, <3>1, TurnedTypes
  <2>5. /\ rb_parent_color' \in Words
        /\ \A m \in Node : rb_parent_color'[m].parent =
             IF m = p THEN sib ELSE IF m = sib THEN rb_parent_color[p].parent
             ELSE IF m = y THEN p ELSE IF m = x THEN sib ELSE rb_parent_color[m].parent
        /\ \A m \in Node : rb_parent_color'[m].color =
             IF m = p THEN "black" ELSE IF m = sib THEN rb_parent_color[p].color
             ELSE IF m = x THEN "black" ELSE rb_parent_color[m].color
    <3>1. /\ "black" \in Color /\ p \in NodeOrNil /\ sib \in NodeOrNil
          /\ rb_parent_color \in Words
      BY <1>0 DEF Color, NodeOrNil, TypeOK, Words
    <3>w. PICK w \in Words : w = [rb_parent_color EXCEPT ![x] = Word(sib, "black")]
      BY <2>2, <3>1, WordStores
    <3>2. \A m \in Node : w[m] = IF m = x THEN Word(sib, "black") ELSE rb_parent_color[m]
      BY <2>2, <3>1, <3>w DEF Words
    <3>a. /\ SetParentIfAny(w, y, p) \in Words
          /\ \A m \in Node : /\ SetParentIfAny(w, y, p)[m].parent = IF m = y THEN p ELSE w[m].parent
                             /\ SetParentIfAny(w, y, p)[m].color = w[m].color
      BY <3>1, SetParentIfAnyStores
    <3>v. PICK w2 \in Words : w2 = SetParentIfAny(w, y, p)
      BY <3>a
    <3>3. \A m \in Node : /\ w2[m].parent = IF m = y THEN p ELSE w[m].parent
                          /\ w2[m].color = w[m].color
      BY <3>a, <3>v
    <3>4. rb_parent_color' = RotateSetParents(w2, p, sib, "black")
      BY <2>1, <1>y, <3>w, <3>v
    <3>5. RotateSetParents(w2, p, sib, "black") \in Words
      BY <1>4, <3>1, RotateSetParentsStores
    <3>6. \A m \in Node : RotateSetParents(w2, p, sib, "black")[m] =
            IF m = p THEN Word(sib, "black") ELSE IF m = sib THEN w2[p] ELSE w2[m]
      BY <1>4, <3>1, RotateSetParentsStores
    <3>7. /\ w2[p].parent = rb_parent_color[p].parent
          /\ w2[p].color = rb_parent_color[p].color
      BY <1>7, <3>2, <3>3
    <3>8. /\ Word(sib, "black").parent = sib /\ Word(sib, "black").color = "black"
      BY DEF Word
    <3>9. \A m \in Node : rb_parent_color'[m].parent =
             IF m = p THEN sib ELSE IF m = sib THEN rb_parent_color[p].parent
             ELSE IF m = y THEN p ELSE IF m = x THEN sib ELSE rb_parent_color[m].parent
      BY <3>2, <3>3, <3>4, <3>6, <3>7, <3>8
    <3>10. \A m \in Node : rb_parent_color'[m].color =
             IF m = p THEN "black" ELSE IF m = sib THEN rb_parent_color[p].color
             ELSE IF m = x THEN "black" ELSE rb_parent_color[m].color
      BY <3>2, <3>3, <3>4, <3>6, <3>7, <3>8
    <3>11. QED
      BY <3>4, <3>5, <3>9, <3>10
  <2>6. Par' = TurnedPar(rb_child, Par, p, sib, d)
    <3>1. \A m \in Node : rb_parent(m)' = IF m = p THEN sib ELSE IF m = sib THEN Par[p]
                                          ELSE IF m = y THEN p ELSE Par[m]
      BY <1>5, <1>6, <2>2, <2>5 DEF rb_parent
    <3>2. QED
      BY <1>y, <3>1 DEF Par, TurnedPar
  <2>7. \A m \in Node : rb_is_black(m)' <=> IF m = p \/ m = x THEN TRUE
                                            ELSE IF m = sib THEN p \in black ELSE m \in black
    BY <1>6, <2>2, <2>5 DEF rb_is_black, black
  <2>8. rb_node' = RootAfter(rb_node, Par, p, sib)
    BY <1>7, <2>1 DEF ChangeRoot, RootAfter
  <2>9. TypeOK'
    <3>1. rb_node' \in NodeOrNil
      BY <1>5, <2>8 DEF RootAfter, NodeOrNil
    <3>2. QED
      BY <1>10, <1>11, <2>4, <2>5, <3>1 DEF TypeOK, Children, Words, NodeOrNil, Side
  <2>10. BeforeLastEraseTurn(rb_child, Par, black, B, p, d, sib, x)
    BY <1>5, <1>8, <1>9, <2>2, <2>3 DEF BeforeLastEraseTurn
  <2>11. IInv'
    BY <1>5, <1>10, <1>11, <2>2, <2>4, <2>6, <2>7, <2>8, <2>9, <2>10, LastEraseTurn
  <2>12. IsTurn(rb_node, rb_child, Par, rb_node', rb_child', Par')
    BY <2>3, <2>4, <2>6, <2>8 DEF IsTurn
  <2>13. TurnsAt(Par, rb_child, rb_child', p, sib, d)
    BY <1>5, <2>3, <2>4 DEF TurnsAt
  <2>14. EraseTurns
    BY <1>13, <1>6, <1>S, <1>p, <1>d, <1>o, <2>13 DEF EraseTurns
  <2>15. QED
    BY <2>11, <2>12, <2>14 DEF TreeTurned
<1>14. CASE BlackOrNull(x)
  <2>1. y \in Node /\ y \notin black /\ x \in black \cup {NULL}
    BY <1>12, <1>14 DEF BlackOrNull, NodeOrNil
  <2>a. PICK a \in NodeOrNil : a = rb_child[y][d]
    BY <1>5, <2>1 DEF Children
  <2>b. PICK b \in NodeOrNil : b = rb_child[y][o]
    BY <1>5, <2>1 DEF Children
  <2>c. PICK ch1 \in Children : ch1 = Turned(rb_child, sib, y, o)
    BY <1>5, <2>1, TurnedTypes
  <2>q. PICK par1 \in Parents : par1 = TurnedPar(rb_child, Par, sib, y, o)
    BY <1>5, <2>1, TurnedTypes
  <2>2. /\ a # NULL => Par[a] = y /\ a # y /\ a # b /\ a \in black
        /\ b # NULL => Par[b] = y /\ b # y /\ a # b /\ b \in black
    BY <1>4, <1>5, <1>8, <2>1, <2>a, <2>b DEF Tree, NodeOrNil
  <2>3. a # p /\ a # sib /\ b # p /\ b # sib /\ y # p /\ y # sib
    <3>1. Par[y] = sib /\ y # NULL
      BY <1>6, <2>1
    <3>2. QED
      BY <1>6, <1>7, <2>1, <2>2, <3>1
  <2>4. \A m \in Node, e \in Side :
          ch1[m][e] = IF m = sib /\ e # o THEN b ELSE IF m = y /\ e = o THEN sib
                      ELSE IF rb_child[m][e] = sib THEN y ELSE rb_child[m][e]
    BY <2>b, <2>c DEF Turned
  <2>5. \A m \in Node : par1[m] = IF m = sib THEN y ELSE IF m = y THEN p
                                  ELSE IF m = b THEN sib ELSE Par[m]
    BY <1>7, <2>b, <2>q DEF TurnedPar
  <2>6. Par[sib] # y /\ rb_child[sib][Opposite(o)] = y
    BY <1>4, <1>7, <1>y, <2>3
  <2>7. Tree(rb_node, ch1, par1)
    <3>1. RootAfter(rb_node, Par, sib, y) = rb_node
      BY <1>7 DEF RootAfter
    <3>2. QED
      BY <1>5, <2>1, <2>6, <2>c, <2>q, <3>1, TurnedTree
  <2>B. PICK B1 \in [Node -> Nat] : Heights(ch1, par1, (black \ {sib}) \cup {y}, B1, p, d)
    <3>1. /\ rb_node \in NodeOrNil /\ rb_child \in Children /\ Par \in Parents
          /\ Tree(rb_node, rb_child, Par)
          /\ sib \in black /\ p # y /\ p # sib /\ p \in NodeOrNil
      BY <1>4, <1>5, <2>3 DEF black, NodeOrNil
    <3>2. \E C \in [Node -> Nat] :
            Heights(Turned(rb_child, sib, y, o), TurnedPar(rb_child, Par, sib, y, o),
                    (black \ {sib}) \cup {y}, C, p, d)
      BY <1>9, <2>1, <2>6, <3>1, SwapHeights
    <3>3. QED
      BY <2>c, <2>q, <3>2
  <2>8. ch1[p][o] = y /\ ch1[y][o] = sib /\ ch1[y][d] = a /\ par1[p] = gp
    <3>1. rb_child[y][d] # sib
      BY <2>3, <2>a
    <3>2. QED
      BY <1>4, <1>7, <2>1, <2>3, <2>4, <2>5, <2>a, <3>1
  <2>r. PICK ch \in Children : ch = RotateStores(rb_child, sib, y, o)
    BY <1>5, <2>1, <2>3, RotateStoresStores
  <2>9. \A m \in Node, e \in Side :
          ch[m][e] = IF m = sib /\ e # o THEN b ELSE IF m = y /\ e = o THEN sib ELSE rb_child[m][e]
    <3>1. \A m \in Node, e \in Side :
            RotateStores(rb_child, sib, y, o)[m][e] =
              IF m = sib /\ e # o THEN rb_child[y][o] ELSE IF m = y /\ e = o THEN sib
              ELSE rb_child[m][e]
      BY <1>5, <2>1, <2>3, RotateStoresStores
    <3>2. QED
      BY <2>b, <2>r, <3>1
  <2>10. [ch EXCEPT ![p][o] = y] = ch1
    <3>1. [ch EXCEPT ![p][o] = y] \in Children
      BY <2>1 DEF Children, NodeOrNil
    <3>2. \A m \in Node, e \in Side :
            [ch EXCEPT ![p][o] = y][m][e] = IF m = p /\ e = o THEN y ELSE ch[m][e]
      BY DEF Children
    <3>3. \A m \in Node, e \in Side : rb_child[m][e] = sib <=> m = p /\ e = o
      BY <1>4, <1>5, Sides DEF Tree
    <3>4. \A m \in Node, e \in Side : [ch EXCEPT ![p][o] = y][m][e] = ch1[m][e]
      BY <2>3, <2>4, <2>9, <3>2, <3>3
    <3>5. QED
      BY <3>1, <3>4, SameChildren
  <2>11. /\ rb_child' = ChangeChild(RotateStores(ch1, p, y, d), p, y, gp)
         /\ rb_node' = ChangeRoot(y, gp)
         /\ rb_parent_color' =
              RotateSetParents(
                SetParentIfAny([SetIfAny(rb_parent_color, b, sib, "black")
                                  EXCEPT ![sib] = Word(y, "black")], a, p), p, y, "black")
    <3>1. ch1 = [RotateStores(rb_child, sib, y, o) EXCEPT ![p][o] = y]
      BY <2>10, <2>r
    <3>2. /\ rb_child' = ChangeChild(RotateStores(ch1, p, y, d), p, y, gp)
          /\ rb_node' = ChangeRoot(y, gp)
      BY <1>14, <1>6, <1>S, <1>p, <1>g, <1>d, <1>o, <3>1 DEF EraseRotate
    <3>3. rb_parent_color' =
              RotateSetParents(
                SetParentIfAny([SetIfAny(rb_parent_color, rb_child[y][o], sib, "black")
                                  EXCEPT ![sib] = Word(y, "black")], ch1[y][d], p), p, y, "black")
      BY <1>14, <1>6, <1>S, <1>p, <1>g, <1>d, <1>o, <3>1 DEF EraseRotate
    <3>4. QED
      BY <2>8, <2>b, <3>2, <3>3
  <2>12. rb_child' = Turned(ch1, p, y, d) /\ rb_child' \in Children
    <3>1. ch1[p][Opposite(d)] = y /\ par1[p] # y /\ par1[p] = gp
      BY <1>6, <1>7, <1>o, <2>1, <2>8
    <3>2. ChangeChild(RotateStores(ch1, p, y, d), p, y, gp) = Turned(ch1, p, y, d)
      BY <1>5, <2>1, <2>7, <3>1, RotationStores
    <3>3. QED
      BY <2>1, <2>11, <3>2, TurnedTypes
  <2>13. /\ rb_parent_color' \in Words
         /\ \A m \in Node : rb_parent_color'[m].parent =
              IF m = p THEN y ELSE IF m = y THEN rb_parent_color[p].parent
              ELSE IF m = a THEN p ELSE IF m = sib THEN y ELSE IF m = b THEN sib
              ELSE rb_parent_color[m].parent
         /\ \A m \in Node : rb_parent_color'[m].color =
              IF m = p THEN "black" ELSE IF m = y THEN rb_parent_color[p].color
              ELSE IF m = sib \/ m = b THEN "black" ELSE rb_parent_color[m].color
    <3>1. /\ "black" \in Color /\ p \in NodeOrNil /\ sib \in NodeOrNil /\ y \in NodeOrNil
          /\ rb_parent_color \in Words
      BY <1>0 DEF Color, NodeOrNil, TypeOK, Words
    <3>e. /\ SetIfAny(rb_parent_color, b, sib, "black") \in Words
          /\ \A m \in Node : SetIfAny(rb_parent_color, b, sib, "black")[m] =
               IF m = b THEN Word(sib, "black") ELSE rb_parent_color[m]
      BY <3>1, SetIfAnyStores
    <3>w. PICK w \in Words : w = SetIfAny(rb_parent_color, b, sib, "black")
      BY <3>e
    <3>2. \A m \in Node : w[m] = IF m = b THEN Word(sib, "black") ELSE rb_parent_color[m]
      BY <3>e, <3>w
    <3>u. PICK w1 \in Words : w1 = [w EXCEPT ![sib] = Word(y, "black")]
      BY <3>1, WordStores
    <3>3. \A m \in Node : w1[m] = IF m = sib THEN Word(y, "black") ELSE w[m]
      BY <3>u DEF Words
    <3>a. /\ SetParentIfAny(w1, a, p) \in Words
          /\ \A m \in Node : /\ SetParentIfAny(w1, a, p)[m].parent = IF m = a THEN p ELSE w1[m].parent
                             /\ SetParentIfAny(w1, a, p)[m].color = w1[m].color
      BY <3>1, SetParentIfAnyStores
    <3>v. PICK w2 \in Words : w2 = SetParentIfAny(w1, a, p)
      BY <3>a
    <3>4. \A m \in Node : /\ w2[m].parent = IF m = a THEN p ELSE w1[m].parent
                          /\ w2[m].color = w1[m].color
      BY <3>a, <3>v
    <3>5. rb_parent_color' = RotateSetParents(w2, p, y, "black")
      BY <2>11, <3>w, <3>u, <3>v
    <3>6. RotateSetParents(w2, p, y, "black") \in Words
      BY <2>1, <2>3, <3>1, RotateSetParentsStores
    <3>7. \A m \in Node : RotateSetParents(w2, p, y, "black")[m] =
            IF m = p THEN Word(y, "black") ELSE IF m = y THEN w2[p] ELSE w2[m]
      BY <2>1, <2>3, <3>1, RotateSetParentsStores
    <3>8. /\ w2[p].parent = rb_parent_color[p].parent
          /\ w2[p].color = rb_parent_color[p].color
      BY <1>4, <2>3, <3>2, <3>3, <3>4
    <3>9. /\ Word(sib, "black").parent = sib /\ Word(sib, "black").color = "black"
          /\ Word(y, "black").parent = y /\ Word(y, "black").color = "black"
      BY DEF Word
    <3>10. \A m \in Node : rb_parent_color'[m].parent =
              IF m = p THEN y ELSE IF m = y THEN rb_parent_color[p].parent
              ELSE IF m = a THEN p ELSE IF m = sib THEN y ELSE IF m = b THEN sib
              ELSE rb_parent_color[m].parent
      BY <3>2, <3>3, <3>4, <3>5, <3>7, <3>8, <3>9
    <3>11. \A m \in Node : rb_parent_color'[m].color =
              IF m = p THEN "black" ELSE IF m = y THEN rb_parent_color[p].color
              ELSE IF m = sib \/ m = b THEN "black" ELSE rb_parent_color[m].color
      BY <3>2, <3>3, <3>4, <3>5, <3>7, <3>8, <3>9
    <3>12. QED
      BY <3>5, <3>6, <3>10, <3>11
  <2>14. Par' = TurnedPar(ch1, par1, p, y, d)
    <3>1. \A m \in Node : rb_parent(m)' =
            IF m = p THEN y ELSE IF m = y THEN gp ELSE IF m = a THEN p
            ELSE IF m = sib THEN y ELSE IF m = b THEN sib ELSE rb_parent(m)
      BY <1>g, <2>13 DEF rb_parent
    <3>2. \A m \in Node : TurnedPar(ch1, par1, p, y, d)[m] =
            IF m = p THEN y ELSE IF m = y THEN gp ELSE IF m = a THEN p ELSE par1[m]
      BY <2>8 DEF TurnedPar
    <3>3. \A m \in Node : Par'[m] = TurnedPar(ch1, par1, p, y, d)[m]
      BY <1>5, <2>3, <2>5, <3>1, <3>2 DEF Par
    <3>4. QED
      BY <3>3 DEF Par, TurnedPar
  <2>m. PICK blk1 \in SUBSET Node : blk1 = (black \ {sib}) \cup {y}
    BY <2>1 DEF black
  <2>15. \A m \in Node : rb_is_black(m)' <=> IF m = p \/ m = sib THEN TRUE
                                             ELSE IF m = y THEN p \in blk1 ELSE m \in blk1
    <3>1. \A m \in Node : rb_is_black(m)' <=>
            IF m = p THEN TRUE ELSE IF m = y THEN p \in black
            ELSE IF m = sib \/ m = b THEN TRUE ELSE m \in black
      BY <2>13 DEF rb_is_black, black
    <3>2. QED
      BY <1>4, <2>2, <2>3, <2>m, <3>1
  <2>16. rb_node' = RootAfter(rb_node, par1, p, y)
    BY <2>8, <2>11 DEF ChangeRoot, RootAfter
  <2>17. TypeOK'
    <3>1. rb_node' \in NodeOrNil
      BY <1>5, <2>1, <2>16 DEF RootAfter, NodeOrNil
    <3>2. QED
      BY <1>10, <1>11, <2>12, <2>13, <3>1 DEF TypeOK, Children, Words, NodeOrNil, Side
  <2>18. BeforeLastEraseTurn(ch1, par1, blk1, B1, p, d, y, sib)
    <3>1. y \in blk1 /\ sib \notin blk1 /\ par1[p] # y /\ par1[p] # sib
      BY <1>6, <1>7, <2>1, <2>3, <2>8, <2>m
    <3>2. \A m \in Node : par1[m] # m /\ m \notin blk1 => par1[m] # NULL /\ par1[m] \in blk1
      <4> TAKE m \in Node
      <4>1. SUFFICES ASSUME par1[m] # m, m \notin blk1 PROVE par1[m] # NULL /\ par1[m] \in blk1
        OBVIOUS
      <4>2. CASE m = sib
        BY <2>5, <3>1, <4>2, <2>1
      <4>3. CASE m # sib
        <5>1. m # y /\ m \notin black /\ m # b
          BY <2>2, <2>m, <3>1, <4>1, <4>3
        <5>2. par1[m] = Par[m] /\ Par[m] # m
          BY <2>5, <4>1, <4>3, <5>1
        <5>3. Par[m] # NULL /\ Par[m] \in black
          BY <1>8, <5>1, <5>2
        <5>4. Par[m] # sib
          <6>1. SUFFICES ASSUME Par[m] = sib PROVE FALSE
            OBVIOUS
          <6>2. \E e \in Side : rb_child[sib][e] = m
            BY <1>5, <5>2, <5>3, <6>1 DEF Tree
          <6>3. m = x \/ m = y
            BY <1>4, <1>x, <1>y, <6>2
          <6>4. QED
            BY <2>1, <5>1, <6>3
        <5>5. QED
          BY <2>m, <5>2, <5>3, <5>4
      <4>4. QED
        BY <4>2, <4>3
    <3>3. QED
      BY <1>o, <2>7, <2>8, <2>B, <2>m, <3>1, <3>2 DEF BeforeLastEraseTurn
  <2>19. IInv'
    BY <1>5, <1>10, <1>11, <2>1, <2>12, <2>14, <2>15, <2>16, <2>17, <2>18, LastEraseTurn
  <2>20. IsTurn(rb_node, rb_child, Par, rb_node, ch1, par1)
    <3>1. RootAfter(rb_node, Par, sib, y) = rb_node
      BY <1>7 DEF RootAfter
    <3>2. QED
      BY <2>1, <2>6, <2>c, <2>q, <3>1, <1>o, <1>4 DEF IsTurn
  <2>21. IsTurn(rb_node, ch1, par1, rb_node', rb_child', Par')
    <3>1. ch1[p][Opposite(d)] = y /\ par1[p] # y
      BY <1>7, <1>8, <1>o, <2>1, <2>3, <2>8
    <3>2. QED
      BY <2>1, <2>12, <2>14, <2>16, <3>1 DEF IsTurn
  <2>22. TurnsTwice(Par, rb_child, rb_child', sib, p, y, o)
    <3>1. ch1[p][Opposite(d)] = y /\ par1[p] # y /\ d = Opposite(o)
      BY <1>4, <1>7, <1>8, <1>o, <2>1, <2>3, <2>8
    <3>2. TurnsAt(Par, rb_child, ch1, sib, y, o)
      BY <1>5, <2>1, <2>6, <2>c DEF TurnsAt
    <3>3. TurnsAt(par1, ch1, rb_child', p, y, d)
      BY <2>1, <2>7, <2>12, <3>1 DEF TurnsAt
    <3>4. \A e \in Side : ch1[sib][e] # p
      BY <1>4, <1>6, <1>7, <1>x, <1>y, <2>3, <2>4
    <3>5. QED
      BY <1>4, <3>1, <3>2, <3>3, <3>4 DEF TurnsTwice
  <2>23. EraseTurns
    BY <1>14, <1>6, <1>S, <1>p, <1>d, <1>o, <2>22 DEF EraseTurns
  <2>24. QED
    BY <2>19, <2>20, <2>21, <2>23 DEF TreeTurned
<1>15. QED
  BY <1>13, <1>14

\* What the search for the successor has established when it ends.
LEMMA AroundSuccessor ==
  ASSUME IInv, pc = "successor", rb_child[successor]["left"] = NULL,
         NEW B \in [Node -> Nat], Labels(B)
  PROVE  /\ node \in Node /\ successor \in Node /\ parent \in Node
         /\ Par[node] # node
         /\ \A d \in Side : /\ rb_child[node][d] \in Node
                            /\ Par[rb_child[node][d]] = node
                            /\ rb_child[node][d] # node
         /\ rb_child[node]["left"] # rb_child[node]["right"]
         /\ IF parent = successor THEN rb_child[node]["right"] = successor
            ELSE rb_child[parent]["left"] = successor
         /\ Par[successor] = IF parent = successor THEN node ELSE parent
         /\ Par[successor] # successor
         /\ successor # node /\ parent # node
         /\ Par[node] # successor /\ Par[node] # parent
         /\ B[successor] = Own(successor)
         /\ rb_child[successor]["right"] # NULL =>
              /\ rb_child[successor]["right"] \in Node
              /\ rb_child[successor]["right"] \notin {node, successor, parent}
              /\ Par[node] # rb_child[successor]["right"]
              /\ Par[rb_child[successor]["right"]] = successor
              /\ B[rb_child[successor]["right"]] = 0
              /\ ~rb_is_black(rb_child[successor]["right"])
              /\ rb_is_black(successor)
         /\ \A m \in Node, d \in Side : Par[m] # m => B[m] = Own(m) + Down(B, rb_child[m][d])
<1> USE NodeAssumption
<1>0. TypeOK /\ Links /\ Colors /\ Locals
  BY DEF IInv
<1>1. /\ Par \in Parents /\ Tree(rb_node, rb_child, Par)
      /\ rb_node \in NodeOrNil /\ rb_child \in Children
      /\ \A m \in Node : Par[m] = rb_parent(m) /\ (Par[m] # m <=> ~RB_EMPTY_NODE(m))
  BY <1>0, LinksIsTree
<1>2. /\ node \in Node /\ successor \in Node /\ parent \in Node
      /\ Par[node] # node /\ Par[successor] # successor
      /\ \A d \in Side : rb_child[node][d] # NULL
      /\ \/ parent = successor /\ rb_child[node]["right"] = successor
         \/ parent # successor /\ rb_child[parent]["left"] = successor
  BY <1>0, <1>1 DEF Locals
<1>3. \A d \in Side : /\ rb_child[node][d] \in Node
                      /\ Par[rb_child[node][d]] = node
                      /\ rb_child[node][d] # node
  BY <1>1, <1>2 DEF Tree, Children, NodeOrNil
<1>4. rb_child[node]["left"] # rb_child[node]["right"]
  BY <1>1, <1>2, Sides DEF Tree
<1>5. /\ Par[successor] = IF parent = successor THEN node ELSE parent
      /\ IF parent = successor THEN rb_child[node]["right"] = successor
         ELSE rb_child[parent]["left"] = successor
  BY <1>1, <1>2, Sides DEF Tree
<1>6. /\ Rank(B, successor) < Rank(B, node) /\ Rank(B, parent) < Rank(B, node)
      /\ Rank(B, successor) \in Nat /\ Rank(B, node) \in Nat /\ Rank(B, parent) \in Nat
  BY <1>2 DEF Labels, Rank
<1>7. successor # node /\ parent # node
  BY <1>6
<1>8. Par[node] # NULL => Rank(B, node) < Rank(B, Par[node]) /\ Rank(B, Par[node]) \in Nat
  <2>1. SUFFICES ASSUME Par[node] # NULL
                 PROVE  Rank(B, node) < Rank(B, Par[node]) /\ Rank(B, Par[node]) \in Nat
    OBVIOUS
  <2>2. PICK d \in Side : rb_child[Par[node]][d] = node
    BY <1>1, <1>2, <2>1 DEF Tree
  <2>3. Par[node] \in Node
    BY <1>1, <1>2, <2>1 DEF Parents, NodeOrNil
  <2>4. QED
    BY <1>0, <1>2, <2>2, <2>3, RankDown
<1>9. Par[node] # successor /\ Par[node] # parent
  BY <1>2, <1>6, <1>8
<1>10. \A m \in Node, d \in Side : Par[m] # m => B[m] = Own(m) + Down(B, rb_child[m][d])
  BY <1>0, <1>1, LabelTypes DEF Labels, Short
<1>11. B[successor] = Own(successor)
  BY <1>0, <1>2, <1>10, LabelTypes, Sides DEF Down
<1>12. ASSUME NEW c \in NodeOrNil, c = rb_child[successor]["right"], c # NULL
       PROVE  /\ c \in Node
              /\ c \notin {node, successor, parent}
              /\ Par[node] # c
              /\ Par[c] = successor
              /\ B[c] = 0
              /\ ~rb_is_black(c)
              /\ rb_is_black(successor)
  <2>1. c \in Node
    BY <1>12 DEF NodeOrNil
  <2>2. Par[c] = successor /\ c # successor
    BY <1>1, <1>2, <1>12, <2>1, Sides DEF Tree
  <2>3. Rank(B, c) < Rank(B, successor) /\ Rank(B, c) \in Nat
    BY <1>0, <1>2, <1>12, <2>1, RankDown, Sides
  <2>4. c # node /\ Par[node] # c
    BY <1>2, <1>6, <1>8, <2>1, <2>3
  <2>5. parent # successor => Rank(B, successor) < Rank(B, parent)
    BY <1>0, <1>2, RankDown, Sides
  <2>6. c # parent
    BY <1>6, <2>2, <2>3, <2>5
  <2>7. B[c] = 0
    <3>1. B[successor] = Own(successor) + Down(B, c)
      BY <1>2, <1>10, <1>12, Sides
    <3>2. Down(B, c) = B[c] /\ B[c] \in Nat
      BY <1>12, <2>1 DEF Down
    <3>3. QED
      BY <1>0, <1>2, <1>11, <3>1, <3>2, LabelTypes, Sides
  <2>8. ~rb_is_black(c)
    <3>1. B[c] = Own(c) + Down(B, rb_child[c]["left"])
      BY <1>10, <2>1, <2>2, Sides
    <3>2. QED
      BY <1>0, <2>1, <2>7, <3>1, LabelTypes, Sides DEF Own
  <2>9. rb_is_black(successor)
    BY <1>0, <1>1, <2>1, <2>2, <2>8 DEF Colors
  <2>10. QED
    BY <2>1, <2>2, <2>4, <2>6, <2>7, <2>8, <2>9
<1>13. rb_child[successor]["right"] \in NodeOrNil
  BY <1>1, <1>2, Sides DEF Children
<1>14. QED
  BY <1>2, <1>3, <1>4, <1>5, <1>7, <1>9, <1>10, <1>11, <1>12, <1>13

\* Cases 2 and 3 of __rb_erase_augmented: the successor leaves its place, to its
\* only child or to nothing, and takes place, children and color of the erased node.
LEMMA EraseSuccessorKeepsIInv ==
  ASSUME IInv, EraseSuccessor
  PROVE  IInv' /\ SuccessorMoved
<1> USE NodeAssumption
<1>0. TypeOK /\ Links /\ Colors /\ Locals /\ Rotations
  BY DEF IInv
<1>1. PICK B \in [Node -> Nat] : Labels(B)
  BY DEF IInv
<1>2. pc = "successor" /\ rb_child[successor]["left"] = NULL
  BY DEF EraseSuccessor
<1>3. /\ node \in Node /\ successor \in Node /\ parent \in Node
      /\ Par[node] # node
      /\ \A d \in Side : /\ rb_child[node][d] \in Node
                         /\ Par[rb_child[node][d]] = node
                         /\ rb_child[node][d] # node
      /\ rb_child[node]["left"] # rb_child[node]["right"]
      /\ IF parent = successor THEN rb_child[node]["right"] = successor
         ELSE rb_child[parent]["left"] = successor
      /\ Par[successor] = IF parent = successor THEN node ELSE parent
      /\ Par[successor] # successor
      /\ successor # node /\ parent # node
      /\ Par[node] # successor /\ Par[node] # parent
      /\ B[successor] = Own(successor)
      /\ rb_child[successor]["right"] # NULL =>
           /\ rb_child[successor]["right"] \in Node
           /\ rb_child[successor]["right"] \notin {node, successor, parent}
           /\ Par[node] # rb_child[successor]["right"]
           /\ Par[rb_child[successor]["right"]] = successor
           /\ B[rb_child[successor]["right"]] = 0
           /\ ~rb_is_black(rb_child[successor]["right"])
           /\ rb_is_black(successor)
      /\ \A m \in Node, d \in Side : Par[m] # m => B[m] = Own(m) + Down(B, rb_child[m][d])
  BY <1>1, <1>2, AroundSuccessor
<1>4. /\ Par \in Parents /\ Tree(rb_node, rb_child, Par)
      /\ rb_node \in NodeOrNil /\ rb_child \in Children
      /\ \A m \in Node : Par[m] = rb_parent(m) /\ (Par[m] # m <=> ~RB_EMPTY_NODE(m))
  BY <1>0, LinksIsTree
<1>n. PICK n \in Node : n = node
  BY <1>3
<1>s. PICK s \in Node : s = successor
  BY <1>3
<1>q. PICK q \in Node : q = parent
  BY <1>3
<1>p. PICK p \in NodeOrNil : p = Par[n]
  BY <1>4 DEF Parents
<1>l. PICK l \in Node : l = rb_child[n]["left"]
  BY <1>3, <1>n, Sides
<1>r. PICK r \in Node : r = rb_child[n]["right"]
  BY <1>3, <1>n, Sides
<1>c. PICK c \in NodeOrNil : c = rb_child[s]["right"]
  BY <1>4, Sides DEF Children
<1>h. PICK ch \in Children : ch = rb_child
  BY <1>4
<1>t. PICK par \in Parents : par = Par
  BY <1>4
<1>5. /\ n # s /\ n # q /\ p # n /\ p # s /\ p # q
      /\ par[n] = p /\ par[l] = n /\ par[r] = n
      /\ l # n /\ r # n /\ l # r /\ l # s
      /\ ch[n]["left"] = l /\ ch[n]["right"] = r /\ ch[s]["left"] = NULL /\ ch[s]["right"] = c
      /\ q = s => r = s /\ par[s] = n
      /\ q # s => r # s /\ par[s] = q /\ ch[q]["left"] = s
      /\ c # NULL => c \in Node /\ c # n /\ c # s /\ c # q /\ c # p /\ c # l /\ c # r /\ par[c] = s
      /\ par[s] # s
      /\ B[s] = Own(s)
      /\ c # NULL => B[c] = 0 /\ ~rb_is_black(c) /\ rb_is_black(s)
  <2>1. /\ n # s /\ n # q /\ p # n /\ p # s /\ p # q
        /\ par[n] = p /\ par[l] = n /\ par[r] = n
        /\ l # n /\ r # n /\ l # r
        /\ ch[n]["left"] = l /\ ch[n]["right"] = r /\ ch[s]["left"] = NULL /\ ch[s]["right"] = c
        /\ q = s => r = s /\ par[s] = n
        /\ q # s => par[s] = q /\ ch[q]["left"] = s
        /\ par[s] # s
        /\ B[s] = Own(s)
    BY <1>2, <1>3, <1>n, <1>s, <1>q, <1>p, <1>l, <1>r, <1>c, <1>h, <1>t, Sides
  <2>2. c # NULL => /\ c \in Node /\ c # n /\ c # s /\ c # q /\ c # p /\ par[c] = s
                    /\ B[c] = 0 /\ ~rb_is_black(c) /\ rb_is_black(s)
    BY <1>3, <1>n, <1>s, <1>q, <1>p, <1>c, <1>t
  <2>3. q # s => r # s
    BY <2>1
  <2>4. l # s
    BY <2>1
  <2>5. c # NULL => c # l /\ c # r
    BY <2>1, <2>2
  <2>6. QED
    BY <2>1, <2>2, <2>3, <2>4, <2>5
<1>6. /\ \A m \in Node, d \in Side : ch[m][d] = n <=> m = p /\ d = At(ch, m, n)
      /\ \A m \in Node, d \in Side : ch[m][d] = s => m = par[s]
      /\ \A m \in Node, d \in Side : ch[m][d] = s => d = IF q = s THEN "right" ELSE "left"
      /\ \A m \in Node : par[m] = n => m = l \/ m = r
      /\ \A m \in Node : par[m] = s => m = c
      /\ \A d \in Side : d = "left" \/ d = "right"
      /\ \A m \in Node, d \in Side : ch[m][d] \in NodeOrNil
      /\ Tree(rb_node, ch, par)
  <2>1. Tree(rb_node, ch, par)
    BY <1>4, <1>h, <1>t
  <2>2. \A m \in Node, d \in Side : ch[m][d] = n <=> m = p /\ d = At(ch, m, n)
    BY <1>4, <1>5, <2>1, ChildSide
  <2>3. \A m \in Node, d \in Side : ch[m][d] = s => m = par[s]
    BY <2>1 DEF Tree
  <2>4. \A m \in Node, d \in Side : ch[m][d] = s => d = IF q = s THEN "right" ELSE "left"
    BY <1>5, <2>1, <2>3, Sides DEF Tree
  <2>5. \A m \in Node : par[m] = n => m = l \/ m = r
    BY <1>5, <2>1, Sides DEF Tree
  <2>6. \A m \in Node : par[m] = s => m = c
    BY <1>5, <2>1, Sides DEF Tree
  <2>7. \A m \in Node, d \in Side : ch[m][d] \in NodeOrNil
    BY DEF Children
  <2>8. QED
    BY <2>1, <2>2, <2>3, <2>4, <2>5, <2>6, <2>7, Sides

<1>u. PICK ch1 \in Children :
        ch1 = IF q # s THEN [ch EXCEPT ![q]["left"] = c, ![s] = [left |-> l, right |-> r]]
              ELSE [ch EXCEPT ![s]["left"] = l]
  <2>1. [ch EXCEPT ![q]["left"] = c, ![s] = [left |-> l, right |-> r]] \in Children
    BY Sides DEF Children, NodeOrNil
  <2>2. [ch EXCEPT ![s]["left"] = l] \in Children
    BY Sides DEF Children, NodeOrNil
  <2>3. QED
    BY <2>1, <2>2
<1>7. \A m \in Node, e \in Side :
        ch1[m][e] = IF m = s THEN IF e = "left" THEN l ELSE IF q = s THEN c ELSE r
                    ELSE IF m = q /\ e = "left" THEN c ELSE ch[m][e]
  <2>1. CASE q # s
    <3>1. \A m \in Node, e \in Side :
            [ch EXCEPT ![q]["left"] = c, ![s] = [left |-> l, right |-> r]][m][e]
              = IF m = s THEN IF e = "left" THEN l ELSE r
                ELSE IF m = q /\ e = "left" THEN c ELSE ch[m][e]
      BY <2>1, Sides DEF Children
    <3>2. QED
      BY <1>u, <2>1, <3>1
  <2>2. CASE q = s
    <3>1. \A m \in Node, e \in Side :
            [ch EXCEPT ![s]["left"] = l][m][e] = IF m = s /\ e = "left" THEN l ELSE ch[m][e]
      BY Sides DEF Children
    <3>2. QED
      BY <1>5, <1>6, <1>u, <2>2, <3>1
  <2>3. QED
    BY <2>1, <2>2
<1>v. PICK ch2 \in Children : ch2 = ChangeChild(ch1, n, s, p)
  BY ChangeChildStores DEF NodeOrNil
<1>8. \A m \in Node, e \in Side :
        ch2[m][e] = IF ch[m][e] = n THEN s ELSE ch1[m][e]
  <2>1. s \in NodeOrNil
    BY DEF NodeOrNil
  <2>2. \A m \in Node, e \in Side : ChangeChild(ch1, n, s, p)[m][e] = IF m = p /\ e = At(ch1, m, n) THEN s ELSE ch1[m][e]
    BY <2>1, ChangeChildStores
  <2>3. p # NULL => At(ch1, p, n) = At(ch, p, n)
    BY <1>5, <1>7, Sides DEF At, NodeOrNil
  <2>4. QED
    BY <1>6, <1>v, <2>2, <2>3
<1>9. rb_child' = [ch2 EXCEPT ![n] = Leaf]
  <2>1. rb_parent(n) = p
    BY <1>4, <1>p
  <2>2. rb_child' =
          [ChangeChild(IF q # s THEN [ch EXCEPT ![q]["left"] = c, ![s] = [left |-> l, right |-> r]]
                       ELSE [ch EXCEPT ![s]["left"] = l], n, s, p) EXCEPT ![n] = Leaf]
    BY <1>n, <1>s, <1>q, <1>l, <1>r, <1>c, <1>h, <2>1 DEF EraseSuccessor
  <2>3. QED
    BY <1>u, <1>v, <2>2
<1>10. /\ rb_child' \in Children
       /\ \A m \in Node, e \in Side :
            rb_child'[m][e] = IF m = n THEN NULL ELSE IF ch[m][e] = n THEN s ELSE ch1[m][e]
  <2>1. [ch2 EXCEPT ![n] = Leaf] \in Children
    BY DEF Children, Leaf, NodeOrNil
  <2>2. \A m \in Node, e \in Side : [ch2 EXCEPT ![n] = Leaf][m][e] = IF m = n THEN NULL ELSE ch2[m][e]
    BY DEF Children, Leaf
  <2>3. QED
    BY <1>8, <1>9, <2>1, <2>2
<1>11. rb_child' = Swapped(Spliced(ch, s, c), n, s)
  <2>1. Spliced(ch, s, c) \in Children /\ Swapped(Spliced(ch, s, c), n, s) \in Children
    BY SplicedTypes, SwappedTypes
  <2>2. \A m \in Node, e \in Side :
          Spliced(ch, s, c)[m][e] = IF m = s THEN NULL ELSE IF ch[m][e] = s THEN c ELSE ch[m][e]
    BY DEF Spliced
  <2>3. \A m \in Node, e \in Side :
          Swapped(Spliced(ch, s, c), n, s)[m][e] =
            IF m = n THEN NULL ELSE IF m = s THEN Spliced(ch, s, c)[n][e]
            ELSE IF Spliced(ch, s, c)[m][e] = n THEN s ELSE Spliced(ch, s, c)[m][e]
    BY DEF Swapped
  <2>4. ASSUME NEW m \in Node, NEW e \in Side
        PROVE  rb_child'[m][e] = Swapped(Spliced(ch, s, c), n, s)[m][e]
    <3>1. CASE m = n
      BY <1>10, <2>3, <3>1
    <3>2. CASE m = s
      BY <1>5, <1>6, <1>7, <1>10, <2>2, <2>3, <3>2
    <3>3. CASE m # n /\ m # s
      BY <1>5, <1>6, <1>7, <1>10, <2>2, <2>3, <3>3
    <3>4. QED
      BY <3>1, <3>2, <3>3
  <2>5. QED
    BY <1>10, <2>1, <2>4, SameChildren
<1>w. PICK w0 \in Words : w0 = rb_parent_color
  BY <1>0 DEF TypeOK, Words
<1>x. PICK w1 \in Words : w1 = IF q # s THEN [w0 EXCEPT ![r].parent = s] ELSE w0
  <2>1. s \in NodeOrNil
    BY DEF NodeOrNil
  <2>2. [w0 EXCEPT ![r].parent = s] \in Words
    BY <2>1, WordStores, Zenon DEF Color
  <2>3. QED
    BY <2>2
<1>12. \A m \in Node : /\ w1[m].parent = IF q # s /\ m = r THEN s ELSE w0[m].parent
                       /\ w1[m].color = w0[m].color
  BY <1>x DEF Words
<1>y. PICK w2 \in Words : w2 = [w1 EXCEPT ![l].parent = s, ![s] = w0[n]]
  <2>1. w0[n] \in [parent : NodeOrNil, color : Color]
    BY DEF Words
  <2>2. [w1 EXCEPT ![l].parent = s, ![s] = w0[n]] \in Words
    BY <2>1 DEF Words, NodeOrNil
  <2>3. QED
    BY <2>2
<1>13. \A m \in Node :
         w2[m] = IF m = s THEN w0[n] ELSE IF m = l THEN [w1[l] EXCEPT !.parent = s] ELSE w1[m]
  BY <1>y DEF Words
<1>14. \A m \in Node :
         /\ w2[m].parent = IF m = s THEN w0[n].parent
                           ELSE IF m = l \/ m = r THEN s ELSE w0[m].parent
         /\ w2[m].color = IF m = s THEN w0[n].color ELSE w0[m].color
  <2> TAKE m \in Node
  <2>1. CASE m = s
    BY <1>13, <2>1
  <2>2. CASE m = l
    <3>1. w1[l] \in [parent : NodeOrNil, color : Color]
      BY DEF Words
    <3>2. [w1[l] EXCEPT !.parent = s].parent = s /\ [w1[l] EXCEPT !.parent = s].color = w1[l].color
      BY <3>1
    <3>3. QED
      BY <1>5, <1>12, <1>13, <2>2, <3>2
  <2>3. CASE m # s /\ m # l
    <3>1. m = r => q # s
      BY <1>5, <2>3
    <3>2. QED
      BY <1>12, <1>13, <2>3, <3>1
  <2>4. QED
    BY <2>1, <2>2, <2>3
<1>z. PICK w3 \in Words : w3 = SetIfAny(w2, c, q, "black")
  BY SetIfAnyStores DEF Color, NodeOrNil
<1>15. \A m \in Node : w3[m] = IF m = c THEN Word(q, "black") ELSE w2[m]
  <2>1. q \in NodeOrNil /\ "black" \in Color
    BY DEF Color, NodeOrNil
  <2>2. \A m \in Node : SetIfAny(w2, c, q, "black")[m] = IF m = c THEN Word(q, "black") ELSE w2[m]
    BY <2>1, SetIfAnyStores
  <2>3. QED
    BY <1>z, <2>2
<1>16. rb_parent_color' = [w3 EXCEPT ![n] = Word(n, "red")]
  <2>1. rb_parent_color' =
          [SetIfAny([(IF q # s THEN [w0 EXCEPT ![r].parent = s] ELSE w0)
                       EXCEPT ![l].parent = s, ![s] = w0[n]], c, q, "black")
             EXCEPT ![n] = Word(n, "red")]
    BY <1>n, <1>s, <1>q, <1>l, <1>r, <1>c, <1>w DEF EraseSuccessor, ClearWord
  <2>2. QED
    BY <1>x, <1>y, <1>z, <2>1
<1>17. /\ rb_parent_color' \in Words
       /\ \A m \in Node : rb_parent_color'[m] = IF m = n THEN Word(n, "red") ELSE w3[m]
  <2>1. /\ [w3 EXCEPT ![n] = Word(n, "red")] \in Words
        /\ \A m \in Node : [w3 EXCEPT ![n] = Word(n, "red")][m] = IF m = n THEN Word(n, "red") ELSE w3[m]
    BY DEF Words, Word, NodeOrNil, Color
  <2>2. QED
    BY <1>16, <2>1
<1>18. \A m \in Node : rb_parent(m)' = IF m = n THEN n ELSE IF m = s THEN p
                                       ELSE IF m = c THEN q
                                       ELSE IF m = l \/ m = r THEN s ELSE par[m]
  <2>1. \A m \in Node : w0[m].parent = par[m]
    BY <1>4, <1>t, <1>w DEF rb_parent
  <2>2. QED
    BY <1>5, <1>14, <1>15, <1>17, <2>1 DEF Word, rb_parent
<1>19. \A m \in Node : rb_is_black(m)' <=>
         m # n /\ IF m = s THEN rb_is_black(n) ELSE m = c \/ rb_is_black(m)
  <2>1. \A m \in Node : w0[m].color = "black" <=> rb_is_black(m)
    BY <1>w DEF rb_is_black
  <2>2. QED
    BY <1>5, <1>14, <1>15, <1>17, <2>1 DEF Word, rb_is_black
<1>20. /\ \A m \in Node : RB_EMPTY_NODE(m)' <=> m = n \/ par[m] = m
       /\ \A m \in Node : par[m] = m <=> RB_EMPTY_NODE(m)
  <2>1. \A m \in Node : par[m] = m <=> RB_EMPTY_NODE(m)
    BY <1>4, <1>t
  <2>2. par[s] # s /\ par[l] # l /\ par[r] # r /\ (c # NULL => par[c] # c)
    BY <1>5
  <2>3. QED
    BY <1>5, <1>18, <2>1, <2>2 DEF RB_EMPTY_NODE
<1>21. Par' = SwappedPar(SplicedPar(par, s, c), n, s)
  <2>1. Par' = [m \in Node |-> rb_parent(m)']
    BY DEF Par
  <2>2. \A m \in Node : SplicedPar(par, s, c)[m] = IF m = s THEN s ELSE IF m = c THEN par[s] ELSE par[m]
    BY DEF SplicedPar
  <2>3. ASSUME NEW m \in Node
        PROVE  rb_parent(m)' = IF m = n THEN n ELSE IF m = s THEN SplicedPar(par, s, c)[n]
                               ELSE IF SplicedPar(par, s, c)[m] = n THEN s ELSE SplicedPar(par, s, c)[m]
    <3>1. CASE m = n \/ m = s
      BY <1>5, <1>18, <2>2, <3>1
    <3>2. CASE m # n /\ m # s /\ m = c
      BY <1>5, <1>18, <2>2, <3>2
    <3>3. CASE m # n /\ m # s /\ m # c
      BY <1>5, <1>6, <1>18, <2>2, <3>3
    <3>4. QED
      BY <3>1, <3>2, <3>3
  <2>4. QED
    BY <2>1, <2>3 DEF SwappedPar
<1>22. rb_node' = RootAfter(rb_node, SplicedPar(par, s, c), n, s)
  <2>1. SplicedPar(par, s, c)[n] = p
    BY <1>5 DEF SplicedPar
  <2>2. rb_node' = ChangeRoot(s, p)
    BY <1>4, <1>n, <1>s, <1>p DEF EraseSuccessor
  <2>3. QED
    BY <2>1, <2>2 DEF ChangeRoot, RootAfter
<1>23. /\ Tree(rb_node', rb_child', Par')
       /\ Par' \in Parents
  <2>1. Tree(RootAfter(rb_node, par, s, c), Spliced(ch, s, c), SplicedPar(par, s, c))
    <3>1. "right" \in Side /\ Opposite("right") = "left"
      BY Sides
    <3>2. c # NULL => par[s] # c
      BY <1>5
    <3>3. QED
      BY <1>4, <1>5, <1>6, <3>1, <3>2, SplicedTree
  <2>2. RootAfter(rb_node, par, s, c) = rb_node
    BY <1>5 DEF RootAfter
  <2>3. Spliced(ch, s, c) \in Children /\ SplicedPar(par, s, c) \in Parents
    BY SplicedTypes
  <2>4. SplicedPar(par, s, c)[n] # n /\ SplicedPar(par, s, c)[s] = s
    BY <1>5 DEF SplicedPar
  <2>5. Tree(RootAfter(rb_node, SplicedPar(par, s, c), n, s),
             Swapped(Spliced(ch, s, c), n, s), SwappedPar(SplicedPar(par, s, c), n, s))
    BY <1>4, <2>1, <2>2, <2>3, <2>4, SwappedTree
  <2>6. QED
    BY <1>11, <1>21, <1>22, <2>3, <2>5, SwappedTypes
<1>24. /\ UNCHANGED rotations
       /\ node' = NULL /\ dir' = "left" /\ successor' = NULL
       /\ IF c = NULL /\ rb_is_black(s) THEN pc' = "erase_color" /\ parent' = q
          ELSE pc' = "idle" /\ parent' = NULL
  BY <1>s, <1>q, <1>c DEF EraseSuccessor, Rebalance, Return
<1>25. TypeOK'
  <2>1. rb_node' \in NodeOrNil
    BY <1>4, <1>22 DEF RootAfter, NodeOrNil
  <2>2. QED
    BY <1>0, <1>10, <1>17, <1>24, <2>1 DEF TypeOK, Children, Words, NodeOrNil, Side
<1>26. Links'
  <2>1. ParTree'
    BY <1>10, <1>23, <1>25 DEF ParTree, TypeOK
  <2>2. QED
    BY <2>1, TreeIsLinks, PTL
<1>27. Colors'
  <2>1. ASSUME NEW m \in Node, ~RB_EMPTY_NODE(m)', ~rb_is_black(m)'
        PROVE  rb_parent(m)' # NULL /\ rb_is_black(rb_parent(m))'
    <3>1. m # n /\ m # c /\ ~RB_EMPTY_NODE(m) /\ ~RB_EMPTY_NODE(n)
      BY <1>5, <1>19, <1>20, <2>1
    <3>2. ASSUME NEW z \in Node, ~RB_EMPTY_NODE(z), ~rb_is_black(z)
          PROVE  par[z] \in Node /\ rb_is_black(par[z])
      BY <1>0, <1>2, <1>4, <1>t, <3>2, ParentType DEF Colors, NodeOrNil
    <3>3. CASE m = s
      <4>1. p \in Node /\ rb_is_black(p)
        BY <1>5, <1>19, <2>1, <3>1, <3>2, <3>3
      <4>2. QED
        BY <1>5, <1>18, <1>19, <3>1, <3>3, <4>1
    <3>4. CASE m # s
      <4>1. par[m] \in Node /\ rb_is_black(par[m])
        BY <1>19, <2>1, <3>1, <3>2, <3>4
      <4>2. CASE par[m] = n
        BY <1>5, <1>6, <1>18, <1>19, <3>1, <3>4, <4>1, <4>2
      <4>3. CASE par[m] # n
        <5>1. par[m] # s /\ m # l /\ m # r
          BY <1>5, <1>6, <3>1, <4>3
        <5>2. QED
          BY <1>5, <1>18, <1>19, <3>1, <3>4, <4>1, <4>3, <5>1
      <4>4. QED
        BY <4>2, <4>3
    <3>5. QED
      BY <3>3, <3>4
  <2>2. QED
    BY <2>1 DEF Colors
<1>28. Rotations'
  BY <1>0, <1>2, <1>24 DEF Rotations, TypeOK
<1>29. \A m \in Node, d \in Side : par[m] # m =>
         /\ B[m] = Own(m) + Down(B, ch[m][d])
         /\ Own(m) \in {0, 1} /\ Down(B, ch[m][d]) \in Nat
  BY <1>0, <1>3, <1>h, <1>t, LabelTypes
<1>30. ASSUME c = NULL /\ rb_is_black(s) PROVE IInv'
  <2> PICK e0 \in Side : e0 = IF q = s THEN "right" ELSE "left"
    BY Sides
  <2>1. rb_child'[q][e0] = NULL /\ rb_child'[q][Opposite(e0)] # NULL
    <3>1. CASE q = s
      <4>1. e0 = "right" /\ Opposite(e0) = "left"
        BY <3>1, Sides
      <4>2. QED
        BY <1>5, <1>7, <1>10, <1>30, <3>1, <4>1, Sides
    <3>2. CASE q # s
      <4>1. e0 = "left" /\ Opposite(e0) = "right" /\ "right" \in Side /\ "left" \in Side
        BY <3>2, Sides
      <4>2. par[q] # q
        BY <1>5, <1>6, <3>2, <4>1 DEF Tree
      <4>3. Down(B, ch[q]["left"]) = 1
        BY <1>5, <1>30, <3>2 DEF Down, Own
      <4>4. ch[q]["right"] # NULL
        BY <1>29, <4>1, <4>2, <4>3 DEF Down
      <4>5. ch[q]["right"] # n /\ ch[q]["left"] # n
        BY <1>5, <1>6, <4>1
      <4>6. QED
        BY <1>5, <1>7, <1>10, <1>30, <3>2, <4>1, <4>4, <4>5
    <3>3. QED
      BY <3>1, <3>2
  <2>2. pc' = "erase_color" /\ parent' = q /\ node' = NULL
    BY <1>24, <1>30
  <2>3. SideOf(node, parent)' = e0
    BY <2>1, <2>2, Sides DEF SideOf
  <2>4. par[q] # q
    <3>1. q # s => ch[q]["left"] = s /\ "left" \in Side
      BY <1>5, Sides
    <3>2. QED
      BY <1>5, <1>6, <3>1 DEF Tree
  <2>5. Locals'
    BY <1>5, <1>20, <2>1, <2>2, <2>3, <2>4 DEF Locals
  <2>6. PICK C \in [Node -> Nat] : \A m \in Node : C[m] = IF m = s THEN B[n] ELSE B[m]
    <3>1. [m \in Node |-> IF m = s THEN B[n] ELSE B[m]] \in [Node -> Nat]
      OBVIOUS
    <3>2. QED
      BY <3>1
  <2>7. ASSUME NEW m \in Node, ~RB_EMPTY_NODE(m)', NEW d \in Side
        PROVE  C[m] = Own(m)' + Down(C, rb_child[m][d])' + Short(m, d)'
    <3>1. m # n /\ par[m] # m
      BY <1>20, <2>7
    <3>2. Short(m, d)' = IF m = q /\ d = e0 THEN 1 ELSE 0
      BY <2>2, <2>3 DEF Short
    <3>3. Own(m)' = IF m = s THEN Own(n) ELSE Own(m)
      BY <1>19, <1>30, <3>1 DEF Own
    <3>4. B[s] = 1
      BY <1>5, <1>30 DEF Own
    <3>5. \A z \in NodeOrNil : z # s => Down(C, z) = Down(B, z)
      BY <2>6 DEF Down, NodeOrNil
    <3>6. Down(C, rb_child[m][d])' = Down(C, rb_child'[m][d])
      BY DEF Down
    <3>7. CASE m = s /\ d = "left"
      <4>1. rb_child'[m][d] = l
        BY <1>5, <1>6, <1>7, <1>10, <3>1, <3>7
      <4>2. B[n] = Own(n) + Down(B, l) /\ Own(n) \in {0, 1} /\ Down(B, l) \in Nat
        BY <1>5, <1>29, <3>7
      <4>3. QED
        BY <1>5, <2>6, <3>2, <3>3, <3>5, <3>6, <3>7, <4>1, <4>2 DEF NodeOrNil
    <3>8. CASE m = s /\ d = "right" /\ q # s
      <4>1. rb_child'[m][d] = r
        BY <1>5, <1>6, <1>7, <1>10, <3>1, <3>8
      <4>2. B[n] = Own(n) + Down(B, r) /\ Own(n) \in {0, 1} /\ Down(B, r) \in Nat
        BY <1>5, <1>29, <3>8
      <4>3. QED
        BY <1>5, <2>6, <3>2, <3>3, <3>5, <3>6, <3>8, <4>1, <4>2 DEF NodeOrNil
    <3>9. CASE m = s /\ d = "right" /\ q = s
      <4>1. rb_child'[m][d] = NULL
        BY <1>5, <1>6, <1>7, <1>10, <1>30, <3>1, <3>9
      <4>2. B[n] = Own(n) + Down(B, r) /\ Own(n) \in {0, 1}
        BY <1>5, <1>29, <3>9
      <4>3. Down(B, r) = 1
        BY <1>5, <3>4, <3>9 DEF Down
      <4>4. Down(C, NULL) = 0
        BY DEF Down
      <4>5. QED
        BY <2>6, <3>2, <3>3, <3>6, <3>9, <4>1, <4>2, <4>3, <4>4
    <3>10. CASE m # s
      <4>1. B[m] = Own(m) + Down(B, ch[m][d]) /\ Own(m) \in {0, 1} /\ Down(B, ch[m][d]) \in Nat
        BY <1>29, <3>1
      <4>2. CASE ch[m][d] = n
        <5>1. rb_child'[m][d] = s /\ Down(C, s) = B[n] /\ Down(B, n) = B[n]
          BY <1>10, <2>6, <3>1, <4>2 DEF Down
        <5>2. m # q
          BY <1>5, <1>6, <4>2
        <5>3. QED
          BY <2>6, <3>2, <3>3, <3>6, <3>10, <4>1, <4>2, <5>1, <5>2
      <4>3. CASE ch[m][d] # n /\ m = q /\ d = "left"
        <5>1. rb_child'[m][d] = NULL /\ ch[m][d] = s /\ d = e0
          BY <1>5, <1>7, <1>10, <1>30, <3>1, <3>10, <4>3
        <5>2. Down(C, NULL) = 0 /\ Down(B, s) = 1
          BY <3>4 DEF Down
        <5>3. QED
          BY <2>6, <3>2, <3>3, <3>6, <3>10, <4>1, <4>3, <5>1, <5>2
      <4>4. CASE ch[m][d] # n /\ ~(m = q /\ d = "left")
        <5>1. rb_child'[m][d] = ch[m][d] /\ ch[m][d] # s
          BY <1>5, <1>6, <1>7, <1>10, <3>1, <3>10, <4>4
        <5>2. ~(m = q /\ d = e0)
          BY <3>10, <4>4
        <5>3. QED
          BY <1>6, <2>6, <3>2, <3>3, <3>5, <3>6, <3>10, <4>1, <5>1, <5>2
      <4>5. QED
        BY <4>2, <4>3, <4>4
    <3>11. QED
      BY <1>6, <3>7, <3>8, <3>9, <3>10
  <2>8. Labels(C)'
    BY <2>2, <2>7 DEF Labels
  <2>9. QED
    BY <1>25, <1>26, <1>27, <1>28, <2>5, <2>8 DEF IInv
<1>31. ASSUME ~(c = NULL /\ rb_is_black(s)) PROVE IInv'
  <2>1. pc' = "idle" /\ node' = NULL
    BY <1>24, <1>31
  <2>2. Locals'
    BY <2>1 DEF Locals
  <2>3. PICK C \in [Node -> Nat] :
          \A m \in Node : C[m] = IF m = s THEN B[n] ELSE IF m = c THEN 1 ELSE B[m]
    <3>1. [m \in Node |-> IF m = s THEN B[n] ELSE IF m = c THEN 1 ELSE B[m]] \in [Node -> Nat]
      OBVIOUS
    <3>2. QED
      BY <3>1
  <2>4. Down(C, c) = B[s] /\ Down(B, s) = B[s] /\ c # s
    <3>1. CASE c = NULL
      BY <1>5, <1>31, <3>1 DEF Down, Own
    <3>2. CASE c # NULL
      BY <1>5, <2>3, <3>2 DEF Down, Own
    <3>3. QED
      BY <3>1, <3>2
  <2>5. ASSUME NEW m \in Node, ~RB_EMPTY_NODE(m)', NEW d \in Side
        PROVE  C[m] = Own(m)' + Down(C, rb_child[m][d])' + Short(m, d)'
    <3>1. m # n /\ par[m] # m
      BY <1>20, <2>5
    <3>2. Short(m, d)' = 0
      BY <2>1 DEF Short
    <3>3. Own(m)' = IF m = s THEN Own(n) ELSE IF m = c THEN 1 ELSE Own(m)
      BY <1>19, <3>1 DEF Own
    <3>5. \A z \in NodeOrNil : z # s /\ z # c => Down(C, z) = Down(B, z)
      BY <2>3 DEF Down, NodeOrNil
    <3>6. Down(C, rb_child[m][d])' = Down(C, rb_child'[m][d])
      BY DEF Down
    <3>7. CASE m = s /\ (d = "left" \/ q # s)
      <4> PICK z \in Node : z = IF d = "left" THEN l ELSE r
        OBVIOUS
      <4>1. rb_child'[m][d] = z /\ z = ch[n][d] /\ z # s /\ z # c
        BY <1>5, <1>6, <1>7, <1>10, <3>1, <3>7
      <4>2. B[n] = Own(n) + Down(B, z) /\ Own(n) \in {0, 1} /\ Down(B, z) \in Nat
        BY <1>5, <1>29, <4>1
      <4>3. QED
        BY <2>3, <3>2, <3>3, <3>5, <3>6, <3>7, <4>1, <4>2 DEF NodeOrNil
    <3>8. CASE m = s /\ d = "right" /\ q = s
      <4>1. rb_child'[m][d] = c
        BY <1>5, <1>6, <1>7, <1>10, <3>1, <3>8
      <4>2. B[n] = Own(n) + Down(B, s) /\ Own(n) \in {0, 1}
        BY <1>5, <1>29, <3>8
      <4>3. QED
        BY <2>3, <2>4, <3>2, <3>3, <3>6, <3>8, <4>1, <4>2
    <3>9. CASE m = c
      <4>1. rb_child'[m][d] = ch[m][d] /\ ch[m][d] # s /\ ch[m][d] # c
        BY <1>5, <1>6, <1>7, <1>10, <3>1, <3>9 DEF Tree
      <4>2. B[c] = Own(c) + Down(B, ch[c][d]) /\ Own(c) \in {0, 1} /\ Down(B, ch[c][d]) \in Nat
        BY <1>29, <3>1, <3>9
      <4>3. Down(B, ch[c][d]) = 0
        BY <1>5, <3>9, <4>2
      <4>4. QED
        BY <1>5, <1>6, <2>3, <2>4, <3>2, <3>3, <3>5, <3>6, <3>9, <4>1, <4>3
    <3>10. CASE m # s /\ m # c
      <4>1. B[m] = Own(m) + Down(B, ch[m][d]) /\ Own(m) \in {0, 1} /\ Down(B, ch[m][d]) \in Nat
        BY <1>29, <3>1
      <4>2. CASE ch[m][d] = n
        <5>1. rb_child'[m][d] = s /\ Down(C, s) = B[n] /\ Down(B, n) = B[n]
          BY <1>10, <2>3, <3>1, <4>2 DEF Down
        <5>3. QED
          BY <2>3, <3>2, <3>3, <3>6, <3>10, <4>1, <4>2, <5>1
      <4>3. CASE ch[m][d] # n /\ m = q /\ d = "left"
        <5>1. rb_child'[m][d] = c /\ ch[m][d] = s
          BY <1>5, <1>7, <1>10, <3>1, <3>10, <4>3
        <5>3. QED
          BY <2>3, <2>4, <3>2, <3>3, <3>6, <3>10, <4>1, <4>3, <5>1
      <4>4. CASE ch[m][d] # n /\ ~(m = q /\ d = "left")
        <5>1. rb_child'[m][d] = ch[m][d] /\ ch[m][d] # s
          BY <1>5, <1>6, <1>7, <1>10, <3>1, <3>10, <4>4
        <5>2. c # NULL => ch[m][d] # c
          BY <1>5, <1>6, <3>10 DEF Tree
        <5>3. Down(C, ch[m][d]) = Down(B, ch[m][d])
          BY <1>6, <2>3, <5>1, <5>2 DEF Down, NodeOrNil
        <5>4. QED
          BY <2>3, <3>2, <3>3, <3>6, <3>10, <4>1, <5>1, <5>3
      <4>5. QED
        BY <4>2, <4>3, <4>4
    <3>11. QED
      BY <1>6, <3>7, <3>8, <3>9, <3>10
  <2>6. Labels(C)'
    BY <2>1, <2>5 DEF Labels
  <2>7. QED
    BY <1>25, <1>26, <1>27, <1>28, <2>2, <2>6 DEF IInv
<1>32. SuccessorMoved
  <2>1. PICK r1, ch1s, par1 : r1 = rb_node /\ ch1s = Spliced(ch, s, c) /\ par1 = SplicedPar(par, s, c)
    OBVIOUS
  <2>2. IsSplice(rb_node, rb_child, Par, r1, ch1s, par1, s)
    <3>1. "right" \in Side /\ Opposite("right") = "left"
      BY Sides
    <3>2. RootAfter(rb_node, par, s, c) = rb_node /\ (c # NULL => par[s] # c)
      BY <1>5 DEF RootAfter
    <3>3. QED
      BY <1>5, <1>h, <1>t, <2>1, <3>1, <3>2 DEF IsSplice
  <2>3. IsSwap(r1, ch1s, par1, rb_node', rb_child', Par', n, s)
    <3>1. par1[n] # n /\ par1[s] = s
      BY <1>5, <2>1 DEF SplicedPar
    <3>2. QED
      BY <1>11, <1>21, <1>22, <2>1, <3>1 DEF IsSwap
  <2>4. QED
    BY <1>n, <1>s, <2>2, <2>3 DEF SuccessorMoved
<1>33. QED
  BY <1>30, <1>31, <1>32

\* A stuttering step.
LEMMA UnchangedKeepsIInv ==
  ASSUME IInv, UNCHANGED vars
  PROVE  IInv'
<1> USE DEF vars, tree, locals, RB_EMPTY_NODE, rb_parent, rb_is_red, rb_is_black
<1>1. TypeOK' /\ Links' /\ Colors' /\ Locals' /\ Rotations'
  BY DEF IInv, TypeOK, Links, Colors, Locals, Rotations, SideOf
<1>2. \E B \in [Node -> Nat] : Labels(B)'
  BY DEF IInv, Labels, Own, Short, SideOf, Down, Rank
<1>3. QED
  BY <1>1, <1>2 DEF IInv

\* Every step keeps the invariant.
LEMMA NextKeepsIInv ==
  ASSUME IInv, [Next]_vars
  PROVE  IInv'
<1>1. ASSUME NEW n \in Node, Add(n) PROVE IInv'
  BY <1>1, StartKeepsIInv DEF Add
<1>2. ASSUME NEW n \in Node, FindAdd(n) PROVE IInv'
  BY <1>2, StartKeepsIInv DEF FindAdd
<1>3. ASSUME NEW n \in Node, EraseOneChild(n) PROVE IInv'
  BY <1>3, EraseOneChildKeepsIInv
<1>4. ASSUME NEW n \in Node, EraseTwoChildren(n) PROVE IInv'
  BY <1>4, EraseTwoChildrenKeepsIInv
<1>5. ASSUME NEW n \in Node, NEW m \in Node, Replace(n, m) PROVE IInv'
  BY <1>5, ReplaceKeepsIInv
<1>6. CASE FindAddHit
  BY <1>6, FindAddHitKeepsIInv
<1>7. CASE Descend
  BY <1>7, DescendKeepsIInv
<1>8. CASE Link
  BY <1>8, LinkKeepsIInv
<1>9. CASE InsertRoot
  BY <1>9, InsertRootKeepsIInv
<1>10. CASE InsertDone
  BY <1>10, InsertDoneKeepsIInv
<1>11. CASE InsertFlip
  BY <1>11, InsertFlipKeepsIInv
<1>12. CASE InsertRotate
  BY <1>12, InsertRotateKeepsIInv
<1>13. CASE SuccessorStep
  BY <1>13, SuccessorStepKeepsIInv
<1>14. CASE EraseSuccessor
  BY <1>14, EraseSuccessorKeepsIInv
<1>15. CASE EraseRedSibling
  BY <1>15, EraseRedSiblingKeepsIInv
<1>16. CASE EraseFlip
  BY <1>16, EraseFlipKeepsIInv
<1>17. CASE EraseRotate
  BY <1>17, EraseRotateKeepsIInv
<1>18. CASE UNCHANGED vars
  BY <1>18, UnchangedKeepsIInv
<1>19. QED
  BY <1>1, <1>2, <1>3, <1>4, <1>5, <1>6, <1>7, <1>8, <1>9, <1>10, <1>11, <1>12, <1>13,
     <1>14, <1>15, <1>16, <1>17, <1>18 DEF Next, Caller, Run

\* The invariant holds in every reachable state.
LEMMA IInvAlways == Spec => []IInv
BY InitIInv, NextKeepsIInv, PTL DEF Spec

-----------------------------------------------------------------------------
(* The theorems. *)

\* After any sequence of rb_add, rb_find_add, rb_erase and rb_replace_node, and
\* inside of each, every variable holds a value of its type: the loops of __rb_insert
\* and ____rb_erase_color hand no null pointer to a place that needs a node.
THEOREM TypeCorrect == Spec => []TypeOK
<1>1. IInv => TypeOK
  BY DEF IInv
<1>2. QED
  BY <1>1, IInvAlways, PTL

\* The rotations, __rb_change_child and the move of a successor keep child and parent
\* pointers in agreement, whatever the tree, at every turn of every loop.
THEOREM LinksAlwaysAgree == Spec => []LinksAgree
<1>1. IInv => LinksAgree
  BY DEF IInv, Links, LinksAgree, InTree
<1>2. QED
  BY <1>1, IInvAlways, PTL

\* The pointers that the two rebalancing loops dereference without a test are never
\* null: a red parent has a parent, the short side has a sibling, and a red sibling
\* has two children.
THEOREM NeverNullDereferenced == Spec => []NoNullDereference
<1>1. IInv => NoNullDereference
  <2> SUFFICES ASSUME IInv PROVE NoNullDereference
    OBVIOUS
  <2> USE NodeAssumption
  <2>0. TypeOK /\ Links /\ Colors /\ Locals
    BY DEF IInv
  <2>1. ASSUME pc = "insert"
        PROVE  /\ node # NULL
               /\ parent = rb_parent(node)
               /\ parent # NULL /\ rb_is_red(parent) => rb_parent(parent) # NULL
    <3>1. node \in Node /\ parent = rb_parent(node) /\ ~RB_EMPTY_NODE(node)
      BY <2>0, <2>1 DEF Locals
    <3>2. ASSUME parent # NULL, rb_is_red(parent) PROVE rb_parent(parent) # NULL
      <4>1. parent \in Node /\ parent # node
        BY <2>0, <3>1, <3>2 DEF TypeOK, NodeOrNil, RB_EMPTY_NODE
      <4>2. ~RB_EMPTY_NODE(parent)
        <5>1. PICK d \in Side : rb_child[parent][d] = node
          BY <2>0, <3>1, <3>2 DEF Links
        <5>2. QED
          BY <2>0, <3>1, <4>1, <5>1 DEF Links
      <4>3. QED
        BY <2>0, <3>2, <4>1, <4>2, RedOrBlack DEF Colors
    <3>3. QED
      BY <3>1, <3>2
  <2>2. ASSUME pc = "erase_color"
        PROVE  /\ parent # NULL
               /\ rb_child[parent][SideOf(node, parent)] = node
               /\ Sibling # NULL
               /\ rb_is_red(Sibling) => \A d \in Side : Nephew(d) # NULL
    <3> PICK B \in [Node -> Nat] : Labels(B)
      BY DEF IInv
    <3>1. /\ parent \in Node
          /\ rb_child[parent][SideOf(node, parent)] = node
          /\ Sibling \in Node
          /\ Down(B, node) \in Nat
          /\ B[Sibling] = Down(B, node) + 1
          /\ \A e \in Side : B[Sibling] = Own(Sibling) + Down(B, Nephew(e))
      BY <2>2, AroundShort
    <3>2. ASSUME rb_is_red(Sibling), NEW d \in Side PROVE Nephew(d) # NULL
      <4>1. Own(Sibling) = 0
        BY <2>0, <3>1, <3>2, RedOrBlack DEF Own
      <4>2. Down(B, Nephew(d)) # 0
        BY <3>1, <4>1
      <4>3. QED
        BY <4>2 DEF Down
    <3>3. QED
      BY <3>1, <3>2
  <2>3. QED
    BY <2>1, <2>2 DEF NoNullDereference
<1>2. QED
  BY <1>1, IInvAlways, PTL

\* No operation rotates more often than the documentation promises: an insertion
\* twice, an erasure three times, although both may climb to the root (__rb_insert,
\* ____rb_erase_color).
THEOREM RotationsAreBounded == Spec => RotationBound
<1>1. IInv /\ IInv' /\ [Next]_vars => [rotations' =< IF pc = "insert" THEN 2 ELSE 3]_vars
  <2> SUFFICES ASSUME IInv, IInv', Next
               PROVE  rotations' =< IF pc = "insert" THEN 2 ELSE 3
    OBVIOUS
  <2>1. /\ rotations' \in Nat /\ rotations' =< 3
        /\ pc = "insert" => rotations = 0
    BY DEF IInv, TypeOK, Rotations
  <2>2. ASSUME pc = "insert" PROVE rotations' =< 2
    <3>1. InsertRoot \/ InsertDone \/ InsertFlip \/ InsertRotate
      BY <2>2 DEF Next, Caller, Run, Add, FindAdd, StartDescent, EraseOneChild,
         EraseTwoChildren, Replace, FindAddHit, Descend, Link, SuccessorStep,
         EraseSuccessor, EraseRedSibling, EraseFlip, EraseRotate
    <3>2. rotations' \in {rotations, rotations + 1, rotations + 2}
      BY <3>1 DEF InsertRoot, InsertDone, InsertFlip, InsertRotate
    <3>3. QED
      BY <2>1, <2>2, <3>2
  <2>3. QED
    BY <2>1, <2>2
<1>2. QED
  BY <1>1, IInvAlways, PTL DEF Spec, RotationBound

\* Between two operations, and during the descent and the search for a successor, the
\* tree has the red-black properties, node by node: the root is black, a red node has
\* no red child, and there is a number of black nodes for every node that all paths
\* down from it agree on (the properties listed at the top of rbtree.c).
LocallyRedBlack ==
  pc \notin {"insert", "erase_color"} =>
    /\ rb_node # NULL => rb_is_black(rb_node)
    /\ \A n \in InTree, d \in Side : rb_is_red(n) => BlackOrNull(rb_child[n][d])
    /\ \E B \in [Node -> Nat] : \A n \in InTree, d \in Side :
         B[n] = (IF rb_is_black(n) THEN 1 ELSE 0)
                + (IF rb_child[n][d] = NULL THEN 0 ELSE B[rb_child[n][d]])

\* Whatever the nodes and keys, every insertion, erasure and replacement gives back a
\* tree with the red-black properties: __rb_insert and ____rb_erase_color repair
\* what linking and unlinking a node break.
THEOREM RedBlackAgain == Spec => []LocallyRedBlack
<1>1. IInv => LocallyRedBlack
  <2> SUFFICES ASSUME IInv, pc \notin {"insert", "erase_color"}
               PROVE  /\ rb_node # NULL => rb_is_black(rb_node)
                      /\ \A n \in InTree, d \in Side : rb_is_red(n) => BlackOrNull(rb_child[n][d])
                      /\ \E B \in [Node -> Nat] : \A n \in InTree, d \in Side :
                           B[n] = Own(n) + Down(B, rb_child[n][d])
    BY DEF LocallyRedBlack, Own, Down
  <2> USE NodeAssumption
  <2>0. TypeOK /\ Links /\ Colors
    BY DEF IInv
  <2>1. rb_node # NULL => rb_is_black(rb_node)
    BY <2>0 DEF TypeOK, Links, Colors, NodeOrNil, RB_EMPTY_NODE
  <2>2. ASSUME NEW n \in InTree, NEW d \in Side, rb_is_red(n)
        PROVE  BlackOrNull(rb_child[n][d])
    <3>1. n \in Node /\ ~rb_is_black(n)
      BY <2>0, <2>2, RedOrBlack DEF InTree
    <3>2. ASSUME NEW c \in Node, c = rb_child[n][d] PROVE rb_is_black(c)
      BY <2>0, <3>1, <3>2 DEF Links, Colors, RB_EMPTY_NODE
    <3>3. rb_child[n][d] \in NodeOrNil
      BY <2>0, <3>1 DEF TypeOK
    <3>4. QED
      BY <3>2, <3>3 DEF BlackOrNull, black, NodeOrNil
  <2>3. PICK B \in [Node -> Nat] : Labels(B)
    BY DEF IInv
  <2>4. ASSUME NEW n \in InTree, NEW d \in Side
        PROVE  B[n] = Own(n) + Down(B, rb_child[n][d])
    <3>1. n \in Node /\ ~RB_EMPTY_NODE(n) /\ Short(n, d) = 0
      BY DEF InTree, Short
    <3>2. QED
      BY <2>0, <2>3, <3>1, LabelTypes DEF Labels
  <2>5. QED
    BY <2>1, <2>2, <2>4
<1>2. QED
  BY <1>1, IInvAlways, PTL
=============================================================================
