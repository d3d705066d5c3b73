------------------------------ MODULE PahoTree ------------------------------
(***************************************************************************)
(* The red-black tree of c/paho.mqtt.c/rbtree.c.  It keeps pointers to     *)
(* contents of its callers in nodes that it allocates itself: TreeAdd, and *)
(* TreeRemove, which moves the content of the successor into the node of   *)
(* a content with two children and frees the successor's node instead.     *)
(*                                                                         *)
(* An action is the straight code before a loop, with the walk down that   *)
(* looks for a content, or one turn of a loop; which is the side that      *)
(* TreeBAASub and TreeBARSub work on, 0 and 1 are "left" and "right".      *)
(* A content is not NULL, as the comment in TreeBalanceAfterRemove asks,   *)
(* and malloc finds memory, since its result is used unchecked.            *)
(***************************************************************************)
EXTENDS Integers, SequencesExt

CONSTANTS Node,          \* the addresses of the heap
          malloc(_),     \* those that malloc may return when these are allocated
          temp,          \* the node on the stack of TreeRemoveNode
          Content,       \* what the callers keep in the tree
          NULL,
          Key, Size      \* of each content: what compare looks at; the size given to TreeAdd

ASSUME PahoAssumption ==
  /\ NULL \notin Node \cup Content \cup {temp}
  /\ temp \notin Node
  /\ \A used \in SUBSET Node : malloc(used) \subseteq Node \ used
  /\ Key \in [Content -> Int]
  /\ Size \in [Content -> Nat]

VARIABLES
  root, count, total,       \* aTree->root, aTree->count, aTree->size
  compare,                  \* aTree->compare
  allocated,                \* the nodes between malloc and free
  child, parent, red,       \* the fields of the nodes
  content, size,
  pc,                       \* the loop that runs
  curnode, redundant, bytes \* local variables; bytes is the size of TreeRemoveNode

links == <<root, child, parent>>
heap == <<count, total, allocated, content, size>>
locals == <<redundant, bytes>>
vars == <<links, heap, red, pc, curnode, locals, compare>>

INSTANCE RBShape WITH Nil <- NULL

Cell == Node \cup {temp}

Comparisons == {"TreeIntCompare", "TreeStringCompare"}

TypeOK ==
  /\ root \in NodeOrNil
  /\ compare \in Comparisons
  /\ count \in Nat /\ total \in Int
  /\ allocated \subseteq Node
  /\ child \in [Node -> [Side -> NodeOrNil]]
  /\ parent \in [Cell -> NodeOrNil]
  /\ red \subseteq Cell
  /\ content \in [Cell -> Content \cup {NULL}]
  /\ size \in [Node -> Nat]
  /\ pc \in {"idle", "add", "remove"}
  /\ curnode \in IF pc = "idle" THEN {NULL} ELSE IF pc = "add" THEN Node ELSE Cell
  /\ redundant \in IF pc = "remove" THEN Node ELSE {NULL}
  /\ bytes \in Nat

isRed(n) == n \in red
isBlack(n) == n \notin red

black == Node \ red
order == InOrder(child, root)
InTree == LET walk == order IN {walk[i] : i \in DOMAIN walk}

\* TreeIntCompare and TreePtrCompare, and the opposite convention of TreeStringCompare.
TreeIntCompare(a, b) == IF Key[a] > Key[b] THEN -1 ELSE IF Key[a] = Key[b] THEN 0 ELSE 1
TreeStringCompare(a, b) == IF Key[a] < Key[b] THEN -1 ELSE IF Key[a] = Key[b] THEN 0 ELSE 1

Compare(a, b) ==
  IF compare = "TreeIntCompare" THEN TreeIntCompare(a, b) ELSE TreeStringCompare(a, b)

-----------------------------------------------------------------------------
(* Stores that several operations make, and walks. *)

memory == [root |-> root, child |-> child, parent |-> parent]

Becomes(t) == root' = t.root /\ child' = t.child /\ parent' = t.parent

\* What pointed to old points to new: the root or the child of p on side d, or the other.
Hang(t, p, d, old, new) ==
  IF p = NULL THEN [t EXCEPT !.root = new]
  ELSE [t EXCEPT !.child[p][IF old = t.child[p][d] THEN d ELSE Opposite(d)] = new]

\* if (n) n->parent = p
Adopt(t, n, p) == IF n = NULL THEN t ELSE [t EXCEPT !.parent[n] = p]

TreeRotate(t, n, d) ==
  LET o == Opposite(d)
      other == t.child[n][o]
      u == Adopt([t EXCEPT !.child[n][o] = t.child[other][d]], t.child[other][d], n)
      v == Hang([u EXCEPT !.parent[other] = u.parent[n]], u.parent[n], d, n, other)
  IN  [v EXCEPT !.child[other][d] = n, !.parent[n] = other]

\* TreeMinimum for d = "left", TreeMaximum for "right".
Extreme(r, d) ==
  LET walk[k \in Levels, n \in NodeOrNil] ==
        IF n = NULL \/ k = 0 \/ child[n][d] = NULL THEN n ELSE walk[k - 1, child[n][d]]
  IN  walk[Cardinality(Node), r]

\* Mutant: the climb ends at the first parent.
Climb_once(n, d) == parent[n]

\* The first ancestor that n is not below on side d.
Climb(n, d) ==
  LET walk[k \in Levels, m \in Node] ==
        LET p == parent[m]
        IN  IF k = 0 \/ p = NULL \/ m # child[p][d] THEN p ELSE walk[k - 1, p]
  IN  walk[Cardinality(Node), n]

\* TreeSuccessor for d = "right", TreePredecessor for "left".
Beside(n, d) == IF child[n][d] # NULL THEN Extreme(child[n][d], Opposite(d)) ELSE Climb(n, d)

TreeNext(n) == IF n = NULL THEN Extreme(root, "left") ELSE Beside(n, "right")
TreePrev(n) == IF n = NULL THEN Extreme(root, "right") ELSE Beside(n, "left")

\* Mutant: the direction is the one of the comparison with the root.
Which_of_root(n, c) == IF Compare(content[root], c) > 0 THEN "right" ELSE "left"

\* child[result > 0]
Which(n, c) == IF Compare(content[n], c) > 0 THEN "right" ELSE "left"

\* The loop of TreeFind and TreeAdd: where it ends, and the node before.
Descent(c) ==
  LET walk[k \in Levels, p \in NodeOrNil, n \in NodeOrNil] ==
        IF k = 0 \/ n = NULL \/ Compare(content[n], c) = 0 THEN [curparent |-> p, curnode |-> n]
        ELSE walk[k - 1, n, child[n][Which(n, c)]]
  IN  walk[Cardinality(Node), NULL, root]

TreeFind(c) == Descent(c).curnode

-----------------------------------------------------------------------------
(* TreeAdd and TreeBalanceAfterAdd *)

\* Of a content that is not there; otherwise TreeAdd changes nothing and returns NULL.
\* Memory of a freed node may be used again.
TreeAdd(c) ==
  /\ pc = "idle"
  /\ TreeFind(c) = NULL
  /\ \E newel \in malloc(allocated) :
       LET p == Descent(c).curparent
       IN  /\ allocated' = allocated \cup {newel}
           /\ root' = IF p = NULL THEN newel ELSE root
           /\ child' = IF p = NULL THEN child ELSE [child EXCEPT ![p][Which(p, c)] = newel]
           /\ parent' = [parent EXCEPT ![newel] = p]
           /\ red' = red \cup {newel}
           /\ content' = [content EXCEPT ![newel] = c]
           /\ size' = [size EXCEPT ![newel] = Size[c]]
           /\ curnode' = newel
  /\ count' = count + 1
  /\ total' = total + Size[c]
  /\ pc' = "add"
  /\ UNCHANGED <<locals, compare>>

\* The condition of the loop, and what a turn looks at.
AddGoesOn == pc = "add" /\ isRed(parent[curnode]) /\ parent[parent[curnode]] # NULL

grandparent == parent[parent[curnode]]
AddWhich == IF parent[curnode] = child[grandparent]["left"] THEN "right" ELSE "left"
uncle == child[grandparent][AddWhich]

\* A red uncle: the colors change, and the loop goes on at the grandparent.
AddFlip ==
  /\ AddGoesOn
  /\ isRed(uncle)
  /\ red' = (red \ {parent[curnode], uncle}) \cup {grandparent}
  /\ curnode' = grandparent
  /\ UNCHANGED <<links, heap, pc, locals, compare>>

\* Any other uncle: one or two rotations.
AddRotate ==
  /\ AddGoesOn
  /\ isBlack(uncle)
  /\ LET w == AddWhich
         inner == curnode = child[parent[curnode]][w]
         n == IF inner THEN parent[curnode] ELSE curnode
         t == IF inner THEN TreeRotate(memory, n, Opposite(w)) ELSE memory
     IN  /\ curnode' = n
         /\ red' = (red \ {t.parent[n]}) \cup {grandparent}
         /\ Becomes(TreeRotate(t, grandparent, w))
  /\ UNCHANGED <<heap, pc, locals, compare>>

AddDone ==
  /\ pc = "add"
  /\ ~AddGoesOn
  /\ red' = red \ {root}
  /\ pc' = "idle"
  /\ curnode' = NULL
  /\ UNCHANGED <<links, heap, locals, compare>>

-----------------------------------------------------------------------------
(* TreeRemove, TreeRemoveNode and TreeBalanceAfterRemove *)

\* Mutant: the neighbour on the other side takes the place.
RedundantBefore(n) ==
  IF NULL \in {child[n][d] : d \in Side} THEN n ELSE Beside(n, "left")

\* The node that goes away when the content of n does.
Redundant(n) == IF NULL \in {child[n][d] : d \in Side} THEN n ELSE Beside(n, "right")

\* Mutant: the size that has moved into the node is the one subtracted.
SizeMoved(n) == size[Redundant(n)]

SizeGone(n) == size[n]

\* The end of TreeRemoveNode.
Release(r, bytesGone) ==
  /\ allocated' = allocated \ {r}
  /\ total' = total - bytesGone
  /\ count' = count - 1
  /\ pc' = "idle"
  /\ curnode' = NULL
  /\ redundant' = NULL
  /\ bytes' = 0

\* Of a content that is found; otherwise TreeRemove changes nothing and returns NULL.
\* Nobody reads the fields of the redundant node after this; NULL stands for what they are.
TreeRemove(c) ==
  /\ pc = "idle"
  /\ TreeFind(c) # NULL
  /\ LET n == TreeFind(c)
         r == Redundant(n)
         p == parent[r]
         curchild == child[r][IF child[r]["left"] # NULL THEN "left" ELSE "right"]
         start == IF curchild # NULL THEN curchild ELSE IF p # NULL THEN temp ELSE NULL
         t == Hang(Adopt(memory, curchild, p), p, "left", r, curchild)
     IN  /\ content' = [content EXCEPT ![n] = content[r], ![r] = NULL]
         /\ size' = [size EXCEPT ![n] = size[r], ![r] = 0]
         /\ red' = red \ {r}
         /\ Becomes([t EXCEPT !.child[r] = Leaf, !.parent[r] = NULL,
                              !.parent[temp] = IF isBlack(r) /\ start = temp THEN p ELSE NULL])
         /\ IF isBlack(r) /\ start # NULL
            THEN /\ pc' = "remove"
                 /\ curnode' = start
                 /\ redundant' = r
                 /\ bytes' = SizeGone(n)
                 /\ UNCHANGED <<allocated, total, count>>
            ELSE Release(r, SizeGone(n))
  /\ UNCHANGED compare

\* The condition of the loop, and what a turn looks at.  A curnode without a content is
\* the node on the stack, in the place of a child that is not there.
RemoveGoesOn == pc = "remove" /\ curnode # root /\ isBlack(curnode)

\* Mutant: the node on the stack is compared with the child itself.
Standing_bare == curnode

Standing == IF content[curnode] = NULL THEN NULL ELSE curnode
RemoveWhich == IF Standing = child[parent[curnode]]["left"] THEN "right" ELSE "left"

sibling == child[parent[curnode]][RemoveWhich]
Far == child[sibling][RemoveWhich]
Near == child[sibling][Opposite(RemoveWhich)]

\* A red sibling: a rotation brings a black one, and the same turn goes on with that.
RemoveRedSibling ==
  /\ RemoveGoesOn
  /\ isRed(sibling)
  /\ red' = (red \ {sibling}) \cup {parent[curnode]}
  /\ Becomes(TreeRotate(memory, parent[curnode], Opposite(RemoveWhich)))
  /\ UNCHANGED <<heap, pc, curnode, locals, compare>>

\* No sibling, or none with a red child: the loop goes on at the parent.
RemoveFlip ==
  /\ RemoveGoesOn
  /\ isBlack(sibling)
  /\ sibling # NULL => isBlack(Near) /\ isBlack(Far)
  /\ red' = red \cup ({sibling} \ {NULL})
  /\ curnode' = parent[curnode]
  /\ UNCHANGED <<links, heap, pc, locals, compare>>

\* Mutant: the sibling turns black, whatever the parent was.
UpperRed_never == FALSE

\* Whether the sibling becomes red.
UpperRed == isRed(parent[curnode])

\* A red child of the sibling: one or two rotations, and the loop ends.
RemoveRotate ==
  /\ RemoveGoesOn
  /\ isBlack(sibling)
  /\ sibling # NULL
  /\ isRed(Near) \/ isRed(Far)
  /\ LET w == RemoveWhich
         p == parent[curnode]
         turn == isBlack(Far)
         t == IF turn THEN TreeRotate(memory, sibling, w) ELSE memory
         s == t.child[p][w]
         u == TreeRotate(t, p, Opposite(w))
         reds == IF turn THEN (red \ {Near}) \cup {sibling} ELSE red
     IN  /\ red' = ((IF UpperRed THEN reds \cup {s} ELSE reds \ {s}) \ {p}) \ {t.child[s][w]}
         /\ Becomes(u)
         /\ curnode' = u.root
  /\ UNCHANGED <<heap, pc, locals, compare>>

\* The node on the stack goes out of scope.
RemoveDone ==
  /\ pc = "remove"
  /\ ~RemoveGoesOn
  /\ red' = red \ {curnode}
  /\ parent' = [parent EXCEPT ![temp] = NULL]
  /\ Release(redundant, bytes)
  /\ UNCHANGED <<root, child, content, size, compare>>

-----------------------------------------------------------------------------
\* TreeInit; TreeFree frees no nodes, a caller empties the tree first.
Init ==
  /\ root = NULL /\ count = 0 /\ total = 0
  /\ compare \in Comparisons
  /\ allocated = {}
  /\ child = [n \in Node |-> Leaf]
  /\ parent = [n \in Cell |-> NULL]
  /\ red = {}
  /\ content = [n \in Cell |-> NULL]
  /\ size = [n \in Node |-> 0]
  /\ pc = "idle"
  /\ curnode = NULL
  /\ redundant = NULL
  /\ bytes = 0

Caller == \E c \in Content : TreeAdd(c) \/ TreeRemove(c)

Run ==
  \/ AddFlip \/ AddRotate \/ AddDone
  \/ RemoveRedSibling \/ RemoveFlip \/ RemoveRotate \/ RemoveDone

Next == Caller \/ Run

Spec == Init /\ [][Next]_vars

-----------------------------------------------------------------------------
(* Properties. *)

contents == LET walk == order IN [i \in DOMAIN walk |-> content[walk[i]]]

\* At every turn of every loop each child names its parent and the root has none; and a
\* repair stands where the tree ends, although the node on the stack is in no child
\* pointer and no rotation updates its parent.
LinksAgree ==
  /\ \A n \in InTree, d \in Side : child[n][d] # NULL => parent[child[n][d]] = n
  /\ root # NULL => parent[root] = NULL
  /\ RemoveGoesOn =>
       /\ parent[curnode] \in InTree
       /\ Standing \in {child[parent[curnode]][d] : d \in Side}
       /\ (curnode = temp) = (content[curnode] = NULL)

WellLinked == TypeOK /\ LinksAgree

\* Whenever no loop is repairing the tree, it is a red-black tree.
RedBlackAtRest == pc = "idle" => IsRedBlack(child, black, root)

\* What both loops keep at each turn: TreeBalanceAfterAdd has at most one red node with
\* a red parent, curnode; TreeBalanceAfterRemove is short of one black node at most,
\* above curnode, so that there always is a sibling: its branch without one is dead.
LoopInvariants ==
  /\ pc = "add" =>
       /\ NoRedRed(child, black \cup {curnode}, root)
       /\ Balanced(child, black, root, NoSlot)
       /\ AddGoesOn => isBlack(grandparent)
  /\ pc = "remove" =>
       /\ NoRedRed(child, black \cup {curnode}, root)
       /\ RemoveGoesOn => sibling # NULL
       /\ Balanced(child, black \cup {curnode}, root,
                   IF RemoveGoesOn THEN <<parent[curnode], Opposite(RemoveWhich)>> ELSE NoSlot)

\* The colors are right, or as wrong as the running loop takes them to be.
RedBlackThroughout == RedBlackAtRest /\ LoopInvariants

\* No node of the tree is freed memory and no memory leaks: what is allocated is the
\* tree, and the redundant node until its call returns; count and size are those of what
\* is allocated, although a removal has overwritten the content and size that go away.
HeapExact ==
  LET nodes == InTree
  IN  /\ allocated = nodes \cup ({redundant} \ {NULL})
      /\ redundant \notin nodes
      /\ count = Cardinality(allocated)
      /\ total = SumFunctionOnSet(size, nodes) + bytes
      /\ \A n \in nodes : content[n] \in Content /\ size[n] = Size[content[n]]

\* A content stays in its node, which callers hold pointers to, as long as it is in the
\* tree, with one exception: when the content before it is removed.
OnlyTheSuccessorMoves ==
  [][LET walk == order
         kept == {content'[n] : n \in InTree'}
     IN  \A i \in DOMAIN walk :
           \/ content[walk[i]] \notin kept
           \/ content'[walk[i]] = content[walk[i]]
           \/ i > 1 /\ content[walk[i - 1]] \notin kept]_vars

\* TreeNext and TreePrev visit the contents one by one, forth and back; TreeFind finds
\* the content that compares equal or returns NULL.  The rebalancing loops are no exception.
WalksAgree ==
  LET walk == order
      At(i) == IF i \in DOMAIN walk THEN walk[i] ELSE NULL
  IN  /\ TreeNext(NULL) = At(1) /\ TreePrev(NULL) = At(Len(walk))
      /\ \A i \in DOMAIN walk : TreeNext(walk[i]) = At(i + 1) /\ TreePrev(walk[i]) = At(i - 1)
      /\ \A c \in Content :
           LET equal == {i \in DOMAIN walk : Compare(content[walk[i]], c) = 0}
           IN  TreeFind(c) \in IF equal = {} THEN {NULL} ELSE {walk[i] : i \in equal}

\* The contents are a list without two equal ones, sorted by what compare looks at, from
\* the largest down with the sign convention of TreeStringCompare: every TreeAdd of a new
\* content and every TreeRemove is one step of the list, and no rebalancing step changes it.
Abstract ==
  INSTANCE SortedList WITH
    list <- IF compare = "TreeIntCompare" THEN contents ELSE Reverse(contents),
    Node <- Content
IsSortedSet == Abstract!SetSpec
=============================================================================
