---------------------------- MODULE LinuxRbtree ----------------------------
(***************************************************************************)
(* The intrusive red-black tree of c/linux: rb_add, rb_find_add, rb_erase  *)
(* and rb_replace_node, with the rebalancing loops of __rb_insert and      *)
(* ____rb_erase_color.  The caller starts an operation when none is under  *)
(* way; after that every action is one turn of a loop of the C code, so    *)
(* every state between two actions is one the code goes through.           *)
(*                                                                         *)
(* The code writes each rebalancing case twice, once per side.  Children   *)
(* are indexed by their side here, and d is the side of the code's comment *)
(* pictures: one action stands for both copies.                            *)
(***************************************************************************)
EXTENDS Integers, Sequences, FiniteSets

CONSTANTS Node,  \* the rb_node structures the callers own
          NULL,
          Key    \* the key of the structure each node is embedded in

ASSUME FiniteNodes == IsFiniteSet(Node)

ASSUME NodeAssumption ==
  /\ NULL \notin Node
  /\ Key \in [Node -> Int]

VARIABLES
  rb_node,          \* root->rb_node
  rb_child,         \* n->rb_left and n->rb_right
  rb_parent_color,  \* n->__rb_parent_color, the parent and the color in a word
  pc,               \* the loop that runs
  node, parent,     \* the local variables of that loop ...
  dir,              \* ... the side of parent that link points to ...
  successor,        \* ... and the node that takes the place of an erased one
  rotations         \* calls of augment_rotate by this operation

tree == <<rb_node, rb_child, rb_parent_color>>
locals == <<node, parent, dir, successor>>
vars == <<tree, pc, locals, rotations>>

INSTANCE RBShape WITH Nil <- NULL

Color == {"red", "black"}
Word(p, c) == [parent |-> p, color |-> c]

TypeOK ==
  /\ rb_node \in NodeOrNil
  /\ rb_child \in [Node -> [Side -> NodeOrNil]]
  /\ rb_parent_color \in [Node -> [parent : NodeOrNil, color : Color]]
  /\ pc \in {"idle", "add", "find_add", "insert", "successor", "erase_color"}
  /\ node \in NodeOrNil
  /\ parent \in NodeOrNil
  /\ dir \in Side
  /\ successor \in NodeOrNil
  /\ rotations \in Nat

rb_parent(n) == rb_parent_color[n].parent
rb_is_red(n) == rb_parent_color[n].color = "red"
rb_is_black(n) == rb_parent_color[n].color = "black"
black == {n \in Node : rb_is_black(n)}

\* A node outside of any tree: its word is its own address.
RB_EMPTY_NODE(n) == rb_parent(n) = n
ClearWord(n) == Word(n, "red")

-----------------------------------------------------------------------------
(* The stores of the helper functions, as functions of the memory they change. *)

\* The side of p that n is on, as the loops find out.
SideOf(n, p) == IF n # rb_child[p]["right"] THEN "left" ELSE "right"

\* Mutant: only the color of tmp is stored.
SetIfAnyColorOnly(w, tmp, p, c) == IF tmp = NULL THEN w ELSE [w EXCEPT ![tmp].color = c]

\* if (tmp) rb_set_parent_color(tmp, p, c)
SetIfAny(w, tmp, p, c) == IF tmp = NULL THEN w ELSE [w EXCEPT ![tmp] = Word(p, c)]

\* Mutant: the color of tmp is lost with its old parent.
SetParentIfAnyBare(w, tmp, p) == IF tmp = NULL THEN w ELSE [w EXCEPT ![tmp] = Word(p, NULL)]

\* if (tmp) rb_set_parent(tmp, p)
SetParentIfAny(w, tmp, p) == IF tmp = NULL THEN w ELSE [w EXCEPT ![tmp].parent = p]

\* The two stores of a rotation to side d: new comes up, old goes down to side d.
RotateStores(ch, old, new, d) ==
  [ch EXCEPT ![old][Opposite(d)] = ch[new][d], ![new][d] = old]

\* __rb_change_child: the pointer of p, or of the root, from old to new.
ChangeChild(ch, old, new, p) ==
  IF p = NULL THEN ch
  ELSE [ch EXCEPT ![p][IF ch[p]["left"] = old THEN "left" ELSE "right"] = new]

ChangeRoot(new, p) == IF p = NULL THEN new ELSE rb_node

\* __rb_rotate_set_parents without its __rb_change_child.
RotateSetParents(w, old, new, color) ==
  [w EXCEPT ![new] = w[old], ![old] = Word(new, color)]

-----------------------------------------------------------------------------
(* The end and the start of an operation. *)

Return ==
  /\ pc' = "idle"
  /\ node' = NULL
  /\ parent' = NULL
  /\ dir' = "left"
  /\ successor' = NULL

\* What link points to while the descent stands below p.
Slot(p, d) == IF p = NULL THEN rb_node ELSE rb_child[p][d]

StartDescent(n, how) ==
  /\ pc = "idle"
  /\ RB_EMPTY_NODE(n)
  /\ pc' = how
  /\ node' = n
  /\ parent' = NULL
  /\ dir' = "left"
  /\ rotations' = 0
  /\ UNCHANGED <<tree, successor>>

\* rb_add, and the insert functions of the tests.
Add(n) == StartDescent(n, "add")

FindAdd(n) == StartDescent(n, "find_add")

\* Mutant: a tie goes to the left.
lessOrEqual(a, b) == Key[a] =< Key[b]

less(a, b) == Key[a] < Key[b]

\* rb_find_add returns the node that compares equal.
FindAddHit ==
  /\ pc = "find_add"
  /\ Slot(parent, dir) # NULL
  /\ Key[Slot(parent, dir)] = Key[node]
  /\ Return
  /\ UNCHANGED <<tree, rotations>>

\* One turn of while (*link).
Descend ==
  LET p == Slot(parent, dir)
  IN  /\ p # NULL
      /\ pc = "add" \/ (pc = "find_add" /\ Key[p] # Key[node])
      /\ parent' = p
      /\ dir' = IF less(node, p) THEN "left" ELSE "right"
      /\ UNCHANGED <<tree, pc, node, successor, rotations>>

\* rb_link_node, then the call of rb_insert_color.
Link ==
  /\ pc \in {"add", "find_add"}
  /\ Slot(parent, dir) = NULL
  /\ rb_parent_color' = [rb_parent_color EXCEPT ![node] = Word(parent, "red")]
  /\ rb_node' = ChangeRoot(node, parent)
  /\ LET ch == [rb_child EXCEPT ![node] = Leaf]
     IN  rb_child' = IF parent = NULL THEN ch ELSE [ch EXCEPT ![parent][dir] = node]
  /\ pc' = "insert"
  /\ dir' = "left"
  /\ UNCHANGED <<node, parent, successor, rotations>>

-----------------------------------------------------------------------------
(* __rb_insert: node is red and its parent may be. *)

InsertRoot ==
  /\ pc = "insert"
  /\ parent = NULL
  /\ rb_parent_color' = [rb_parent_color EXCEPT ![node] = Word(NULL, "black")]
  /\ Return
  /\ UNCHANGED <<rb_node, rb_child, rotations>>

InsertDone ==
  /\ pc = "insert"
  /\ parent # NULL
  /\ rb_is_black(parent)
  /\ Return
  /\ UNCHANGED <<tree, rotations>>

Uncle == LET g == rb_parent(parent) IN rb_child[g][Opposite(SideOf(parent, g))]
\* Mutant: the color of the uncle is not tested.
UncleIsThere == Uncle # NULL

UncleIsRed == Uncle # NULL /\ rb_is_red(Uncle)

\* Case 1: color flips, and again at the grandparent.
InsertFlip ==
  LET g == rb_parent(parent)
  IN  /\ pc = "insert"
      /\ parent # NULL
      /\ rb_is_red(parent)
      /\ UncleIsRed
      /\ rb_parent_color' = [rb_parent_color EXCEPT ![Uncle] = Word(g, "black"),
                                                    ![parent] = Word(g, "black"),
                                                    ![g].color = "red"]
      /\ node' = g
      /\ parent' = rb_parent(g)
      /\ UNCHANGED <<rb_node, rb_child, pc, dir, successor, rotations>>

\* Mutant: the loop goes on at the new top.
InsertRotateGoesOn ==
  LET g == rb_parent(parent)
      d == SideOf(parent, g)
      o == Opposite(d)
      inner == node = rb_child[parent][o]
      top == IF inner THEN node ELSE parent
      ch == IF inner THEN RotateStores(rb_child, parent, node, d) ELSE rb_child
      w == IF inner
           THEN [SetIfAny(rb_parent_color, rb_child[node][d], parent, "black")
                   EXCEPT ![parent] = Word(node, "red")]
           ELSE rb_parent_color
  IN  /\ pc = "insert"
      /\ parent # NULL
      /\ rb_is_red(parent)
      /\ ~UncleIsRed
      /\ rb_child' = ChangeChild(RotateStores(ch, g, top, o), g, top, rb_parent(g))
      /\ rb_parent_color' =
           RotateSetParents(SetIfAny(w, ch[top][o], g, "black"), g, top, "red")
      /\ rb_node' = ChangeRoot(top, rb_parent(g))
      /\ rotations' = rotations + IF inner THEN 2 ELSE 1
      /\ node' = top
      /\ parent' = rb_parent(g)
      /\ UNCHANGED <<pc, dir, successor>>

\* Case 2 when node is the inner grandchild, then Case 3.
InsertRotate ==
  LET g == rb_parent(parent)
      d == SideOf(parent, g)
      o == Opposite(d)
      inner == node = rb_child[parent][o]
      top == IF inner THEN node ELSE parent
      ch == IF inner THEN RotateStores(rb_child, parent, node, d) ELSE rb_child
      w == IF inner
           THEN [SetIfAny(rb_parent_color, rb_child[node][d], parent, "black")
                   EXCEPT ![parent] = Word(node, "red")]
           ELSE rb_parent_color
  IN  /\ pc = "insert"
      /\ parent # NULL
      /\ rb_is_red(parent)
      /\ ~UncleIsRed
      /\ rb_child' = ChangeChild(RotateStores(ch, g, top, o), g, top, rb_parent(g))
      /\ rb_parent_color' =
           RotateSetParents(SetIfAny(w, ch[top][o], g, "black"), g, top, "red")
      /\ rb_node' = ChangeRoot(top, rb_parent(g))
      /\ rotations' = rotations + IF inner THEN 2 ELSE 1
      /\ Return

-----------------------------------------------------------------------------
(* __rb_erase_augmented, with the callbacks that do nothing.  An erased node *)
(* keeps its old words in the code; they are dead, and here the node is as   *)
(* RB_CLEAR_NODE leaves it.                                                  *)

\* Mutant: ____rb_erase_color starts at the erased node, not at NULL.
RebalanceFromNode(rebalance) ==
  IF rebalance = NULL THEN Return
  ELSE /\ pc' = "erase_color"
       /\ parent' = rebalance
       /\ dir' = "left"
       /\ successor' = NULL
       /\ UNCHANGED node

\* The call of ____rb_erase_color when there is a parent to rebalance at.
Rebalance(rebalance) ==
  IF rebalance = NULL THEN Return
  ELSE /\ pc' = "erase_color"
       /\ node' = NULL
       /\ parent' = rebalance
       /\ dir' = "left"
       /\ successor' = NULL

\* Case 1: no more than one child.
EraseOneChild(n) ==
  LET left == rb_child[n]["left"]
      child == IF left = NULL THEN rb_child[n]["right"] ELSE left
      p == rb_parent(n)
      w == IF child = NULL THEN rb_parent_color
           ELSE [rb_parent_color EXCEPT ![child] = rb_parent_color[n]]
  IN  /\ pc = "idle"
      /\ ~RB_EMPTY_NODE(n)
      /\ \E d \in Side : rb_child[n][d] = NULL
      /\ rb_child' = [ChangeChild(rb_child, n, child, p) EXCEPT ![n] = Leaf]
      /\ rb_node' = ChangeRoot(child, p)
      /\ rb_parent_color' = [w EXCEPT ![n] = ClearWord(n)]
      /\ rotations' = 0
      /\ Rebalance(IF child = NULL /\ rb_is_black(n) THEN p ELSE NULL)

\* Two children: the search for the successor starts at the right one.
EraseTwoChildren(n) ==
  /\ pc = "idle"
  /\ ~RB_EMPTY_NODE(n)
  /\ \A d \in Side : rb_child[n][d] # NULL
  /\ pc' = "successor"
  /\ node' = n
  /\ parent' = rb_child[n]["right"]
  /\ successor' = rb_child[n]["right"]
  /\ rotations' = 0
  /\ UNCHANGED <<tree, dir>>

\* Mutant: parent moves and successor does not.
SuccessorStepStays ==
  /\ pc = "successor"
  /\ rb_child[successor]["left"] # NULL
  /\ parent' = successor
  /\ UNCHANGED <<tree, pc, node, dir, successor, rotations>>

\* One turn of the do loop of Case 3.
SuccessorStep ==
  /\ pc = "successor"
  /\ rb_child[successor]["left"] # NULL
  /\ parent' = successor
  /\ successor' = rb_child[successor]["left"]
  /\ UNCHANGED <<tree, pc, node, dir, rotations>>

\* Case 2 (parent = successor, the right child itself) and Case 3: the
\* successor takes the place and the word of the erased node.
EraseSuccessor ==
  LET s == successor
      child == rb_child[node]["right"]
      child2 == rb_child[s]["right"]
      tmp == rb_child[node]["left"]
      p == rb_parent(node)
      far == parent # s
      ch == IF far THEN [rb_child EXCEPT ![parent]["left"] = child2,
                                         ![s] = [left |-> tmp, right |-> child]]
            ELSE [rb_child EXCEPT ![s]["left"] = tmp]
      w == IF far THEN [rb_parent_color EXCEPT ![child].parent = s] ELSE rb_parent_color
      w2 == [w EXCEPT ![tmp].parent = s, ![s] = rb_parent_color[node]]
  IN  /\ pc = "successor"
      /\ rb_child[s]["left"] = NULL
      /\ rb_child' = [ChangeChild(ch, node, s, p) EXCEPT ![node] = Leaf]
      /\ rb_node' = ChangeRoot(s, p)
      /\ rb_parent_color' = [SetIfAny(w2, child2, parent, "black")
                               EXCEPT ![node] = ClearWord(node)]
      /\ Rebalance(IF child2 = NULL /\ rb_is_black(s) THEN parent ELSE NULL)
      /\ UNCHANGED rotations

-----------------------------------------------------------------------------
(* ____rb_erase_color: the paths through node lack a black node. *)

Sibling == rb_child[parent][Opposite(SideOf(node, parent))]
Nephew(d) == rb_child[Sibling][d]
BlackOrNull(n) == n \in black \cup {NULL}
NephewsAreBlack == \A d \in Side : BlackOrNull(Nephew(d))

\* Case 1: rotate at parent; the new sibling is black and the loop goes on.
EraseRedSibling ==
  LET d == SideOf(node, parent)
      s == Sibling
      gp == rb_parent(parent)
  IN  /\ pc = "erase_color"
      /\ rb_is_red(s)
      /\ rb_child' = ChangeChild(RotateStores(rb_child, parent, s, d), parent, s, gp)
      /\ rb_node' = ChangeRoot(s, gp)
      /\ rb_parent_color' =
           RotateSetParents([rb_parent_color EXCEPT ![Nephew(d)] = Word(parent, "black")],
                            parent, s, "red")
      /\ rotations' = rotations + 1
      /\ UNCHANGED <<pc, locals>>

\* Case 2: flip the sibling; done at a red parent, else again one level up.
EraseFlip ==
  LET w == [rb_parent_color EXCEPT ![Sibling] = Word(parent, "red")]
      gp == rb_parent(parent)
  IN  /\ pc = "erase_color"
      /\ rb_is_black(Sibling)
      /\ NephewsAreBlack
      /\ \/ /\ rb_is_red(parent)
            /\ rb_parent_color' = [w EXCEPT ![parent].color = "black"]
            /\ Return
         \/ /\ rb_is_black(parent)
            /\ rb_parent_color' = w
            /\ IF gp = NULL THEN Return
               ELSE /\ node' = parent
                    /\ parent' = gp
                    /\ UNCHANGED <<pc, dir, successor>>
      /\ UNCHANGED <<rb_node, rb_child, rotations>>

\* Case 3 when the outer nephew is not red, then Case 4.
EraseRotate ==
  LET d == SideOf(node, parent)
      o == Opposite(d)
      gp == rb_parent(parent)
      inner == BlackOrNull(Nephew(o))
      s == IF inner THEN Nephew(d) ELSE Sibling
      tmp1 == IF inner THEN Sibling ELSE Nephew(o)
      ch == IF inner
            THEN [RotateStores(rb_child, Sibling, s, o) EXCEPT ![parent][o] = s]
            ELSE rb_child
      w == IF inner
           THEN SetIfAny(rb_parent_color, rb_child[s][o], Sibling, "black")
           ELSE rb_parent_color
      w2 == SetParentIfAny([w EXCEPT ![tmp1] = Word(s, "black")], ch[s][d], parent)
  IN  /\ pc = "erase_color"
      /\ rb_is_black(Sibling)
      /\ ~NephewsAreBlack
      /\ rb_child' = ChangeChild(RotateStores(ch, parent, s, d), parent, s, gp)
      /\ rb_node' = ChangeRoot(s, gp)
      /\ rb_parent_color' = RotateSetParents(w2, parent, s, "black")
      /\ rotations' = rotations + IF inner THEN 2 ELSE 1
      /\ Return

-----------------------------------------------------------------------------
\* rb_replace_node; documented for a node with the same key (rbtree.rst:159-165).
Replace(victim, new) ==
  LET p == rb_parent(victim)
      ch == [rb_child EXCEPT ![new] = rb_child[victim]]
      w == [rb_parent_color EXCEPT ![new] = rb_parent_color[victim]]
      w2 == SetParentIfAny(SetParentIfAny(w, rb_child[victim]["left"], new),
                           rb_child[victim]["right"], new)
  IN  /\ pc = "idle"
      /\ ~RB_EMPTY_NODE(victim)
      /\ RB_EMPTY_NODE(new)
      /\ Key[new] = Key[victim]
      /\ rb_child' = [ChangeChild(ch, victim, new, p) EXCEPT ![victim] = Leaf]
      /\ rb_node' = ChangeRoot(new, p)
      /\ rb_parent_color' = [w2 EXCEPT ![victim] = ClearWord(victim)]
      /\ UNCHANGED <<pc, locals, rotations>>

Init ==
  /\ rb_node = NULL
  /\ rb_child = [n \in Node |-> Leaf]
  /\ rb_parent_color = [n \in Node |-> ClearWord(n)]
  /\ pc = "idle"
  /\ node = NULL
  /\ parent = NULL
  /\ dir = "left"
  /\ successor = NULL
  /\ rotations = 0

\* What the caller does, one operation at a time ...
Caller ==
  \E n \in Node :
    \/ Add(n)
    \/ FindAdd(n)
    \/ EraseOneChild(n)
    \/ EraseTwoChildren(n)
    \/ \E m \in Node : Replace(n, m)

\* ... and what the code does once it was called.
Run ==
  \/ FindAddHit \/ Descend \/ Link
  \/ InsertRoot \/ InsertDone \/ InsertFlip \/ InsertRotate
  \/ SuccessorStep \/ EraseSuccessor
  \/ EraseRedSibling \/ EraseFlip \/ EraseRotate

Next == Caller \/ Run

Spec == Init /\ [][Next]_vars

\* A thread that is inside an operation keeps running.
FairSpec == Spec /\ WF_vars(Run)

-----------------------------------------------------------------------------
(* Correctness. *)

InTree == {n \in Node : ~RB_EMPTY_NODE(n)}

\* The child pointers and the parent pointers agree after every turn of every
\* loop: rotations, color flips and the move of a successor leave no pointer
\* behind (__rb_change_child, __rb_rotate_set_parents, __rb_erase_augmented).
LinksAgree ==
  /\ rb_node # NULL => rb_parent(rb_node) = NULL
  /\ \A n \in Node, d \in Side :
       LET c == rb_child[n][d]
       IN  c # NULL => rb_parent(c) = n /\ rb_child[n][Opposite(d)] # c
  /\ \A n \in InTree :
       IF rb_parent(n) = NULL THEN rb_node = n
       ELSE \E d \in Side : rb_child[rb_parent(n)][d] = n

\* Outside of the two rebalancing loops the tree has the red-black properties
\* that the header of rbtree.c lists (check() of rbtree_test.c tests them).
RedBlackAtRest ==
  pc \notin {"insert", "erase_color"} => IsRedBlack(rb_child, black, rb_node)

\* The loop invariants that the comments of __rb_insert and ____rb_erase_color
\* state: an insertion leaves every path with equally many black nodes, and two reds
\* meet at most between node and its parent; in an erasure two reds never meet, and
\* exactly the paths through node (or the null pointer left behind) lack one black.
LoopInvariants ==
  /\ pc = "insert" =>
       /\ rb_is_red(node)
       /\ Balanced(rb_child, black, rb_node, NoSlot)
       /\ NoRedRed(rb_child, black \cup {node}, rb_node)
  /\ pc = "erase_color" =>
       /\ node = NULL \/ rb_is_black(node)
       /\ Balanced(rb_child, black, rb_node, <<parent, SideOf(node, parent)>>)
       /\ NoRedRed(rb_child, black, rb_node)

\* Both together: the shape is right at every turn of every operation, as far as the
\* code itself says that it is.
RedBlackThroughout == RedBlackAtRest /\ LoopInvariants

\* What the rebalancing loops dereference without a test is there: the grandparent
\* behind a red parent; the parent, the sibling and the children of a red sibling;
\* and node is the child of parent on the side that the loop believes it is on.
NoNullDereference ==
  /\ pc = "insert" =>
       /\ node # NULL
       /\ parent = rb_parent(node)
       /\ parent # NULL /\ rb_is_red(parent) => rb_parent(parent) # NULL
  /\ pc = "erase_color" =>
       /\ parent # NULL
       /\ rb_child[parent][SideOf(node, parent)] = node
       /\ Sibling # NULL
       /\ rb_is_red(Sibling) => \A d \in Side : Nephew(d) # NULL

\* An insertion rotates at most twice and an erasure at most three times, however
\* far the recoloring climbs (rbtree.rst:21-22).
RotationBound == [][rotations' =< IF pc = "insert" THEN 2 ELSE 3]_vars

\* Every operation returns: the descents, the search for the successor and both
\* rebalancing loops come to an end.
Termination == pc # "idle" ~> pc = "idle"

Sorted == INSTANCE SortedList WITH list <- InOrder(rb_child, rb_node)

\* The tree is a list of nodes sorted by key and, among equal keys, by age: only
\* linking, unlinking and replacing change it, each at the place the list says,
\* and rebalancing never does.
ImplementsSortedList == Sorted!Spec
=============================================================================
