--------------------------- MODULE LinuxLockless ---------------------------
(***************************************************************************)
(* Lookups without a lock, which the notes of rbtree.c:34-56 are about: a  *)
(* reader runs rb_find while a writer adds, erases and replaces nodes.     *)
(*                                                                         *)
(* The writer is LinuxRbtree, which stores all pointers of a turn at once; *)
(* here they reach the memory that the reader sees one by one, in the      *)
(* order of the code, and the writer goes on when all have.  The reader    *)
(* reads one pointer in a step.  An erased node keeps the pointers it had, *)
(* and nothing keeps the writer from adding it again while a reader is on  *)
(* it.  Only stores to rb_node, rb_left and rb_right count: a lookup reads *)
(* nothing else.                                                           *)
(***************************************************************************)
EXTENDS LinuxRbtree, Functions

CONSTANT PlainInOrder  \* whether stores without WRITE_ONCE stay in their place

ASSUME LocklessAssumption == PlainInOrder \in BOOLEAN

VARIABLES
  seen_root, seen_child,  \* root->rb_node, rb_left and rb_right in the memory
  stores,                 \* what the writer has still to store there, a sequence of Store
  key,                    \* what the reader looks for, NULL when it looks for nothing
  at,                     \* node in rb_find, the local variable
  linked                  \* the nodes that were in the tree since the lookup began

seen == <<seen_root, seen_child>>
reader == <<key, at>>
locklessVars == <<vars, seen, stores, reader, linked>>

Keys == {Key[n] : n \in Node}

-----------------------------------------------------------------------------
(* The stores of the writer's turns, in program order. *)

\* p's pointer on side d, or root->rb_node when p is NULL.
Store(p, d, n) == [of |-> p, side |-> d, to |-> n]

\* WRITE_ONCE in __rb_change_child.
ChangeChildStore(old, new, p) ==
  Store(p, IF p # NULL /\ rb_child[p]["left"] # old THEN "right" ELSE "left", new)

\* Mutant: the node that comes up takes the other one before that lets go of it.
RotationBackwards(old, new, across, d) ==
  <<Store(new, d, old), Store(old, Opposite(d), across)>>

\* The pair of WRITE_ONCE in each case of both loops that rotates.
Rotation(old, new, across, d) ==
  <<Store(old, Opposite(d), across), Store(new, d, old)>>

\* Plain stores to a node, and the one that makes the node visible: a compiler and a
\* processor may let the reader see them the other way round.
Publish(n, children, published) ==
  LET fields == <<Store(n, "left", children["left"]), Store(n, "right", children["right"])>>
  IN  {Append(fields, published)} \cup
      IF PlainInOrder THEN {} ELSE {<<published>> \o fields}

\* Mutant: the children of a node that is added again are those it had.
LinkStoresOne == {<<Store(parent, dir, node)>>}

LinkStores == Publish(node, Leaf, Store(parent, dir, node))

ReplaceStores(victim, new) ==
  Publish(new, rb_child[victim], ChangeChildStore(victim, new, rb_parent(victim)))

InsertRotateStores ==
  LET g == rb_parent(parent)
      d == SideOf(parent, g)
      o == Opposite(d)
      inner == node = rb_child[parent][o]
      top == IF inner THEN node ELSE parent
  IN  (IF inner THEN Rotation(parent, node, rb_child[node][d], d) ELSE <<>>)
      \o Rotation(g, top, rb_child[top][o], o)
      \o <<ChangeChildStore(g, top, rb_parent(g))>>

EraseOneChildStores(n) ==
  LET d == IF rb_child[n]["left"] = NULL THEN "right" ELSE "left"
  IN  <<ChangeChildStore(n, rb_child[n][d], rb_parent(n))>>

\* Mutant: a successor from further below keeps its right child.
FarStoresOne == <<Store(parent, "left", rb_child[successor]["right"])>>

\* Case 3 of __rb_erase_augmented.
FarStores ==
  <<Store(parent, "left", rb_child[successor]["right"]),
    Store(successor, "right", rb_child[node]["right"])>>

EraseSuccessorStores ==
  (IF parent # successor THEN FarStores ELSE <<>>)
  \o <<Store(successor, "left", rb_child[node]["left"]),
       ChangeChildStore(node, successor, rb_parent(node))>>

EraseRedSiblingStores ==
  LET d == SideOf(node, parent)
  IN  Append(Rotation(parent, Sibling, Nephew(d), d),
             ChangeChildStore(parent, Sibling, rb_parent(parent)))

EraseRotateStores ==
  LET d == SideOf(node, parent)
      o == Opposite(d)
      inner == BlackOrNull(Nephew(o))
      s == IF inner THEN Nephew(d) ELSE Sibling
  IN  (IF inner
       THEN Append(Rotation(Sibling, s, rb_child[s][o], o), Store(parent, o, s))
       ELSE <<>>)
      \o Rotation(parent, s, rb_child[s][d], d)
      \o <<ChangeChildStore(parent, s, rb_parent(parent))>>

-----------------------------------------------------------------------------
(* The writer. *)

\* Turns that store no child pointer.
SilentTurn ==
  \/ \E n \in Node : Add(n) \/ FindAdd(n) \/ EraseTwoChildren(n)
  \/ FindAddHit \/ Descend
  \/ InsertRoot \/ InsertDone \/ InsertFlip
  \/ SuccessorStep \/ EraseFlip

WriterTurn ==
  /\ stores = <<>>
  /\ \/ SilentTurn /\ stores' = <<>>
     \/ Link /\ stores' \in LinkStores
     \/ InsertRotate /\ stores' = InsertRotateStores
     \/ \E n \in Node : EraseOneChild(n) /\ stores' = EraseOneChildStores(n)
     \/ EraseSuccessor /\ stores' = EraseSuccessorStores
     \/ EraseRedSibling /\ stores' = EraseRedSiblingStores
     \/ EraseRotate /\ stores' = EraseRotateStores
     \/ \E n, m \in Node : Replace(n, m) /\ stores' \in ReplaceStores(n, m)
  /\ UNCHANGED <<seen, reader, linked>>

\* A store becomes visible, and the node it leads to with it.
Visible ==
  /\ stores # <<>>
  /\ LET s == Head(stores)
     IN  /\ seen_root' = IF s.of = NULL THEN s.to ELSE seen_root
         /\ seen_child' = IF s.of = NULL THEN seen_child
                          ELSE [seen_child EXCEPT ![s.of][s.side] = s.to]
         /\ linked' = IF key # NULL /\ s.to \in InTree THEN linked \cup {s.to} ELSE linked
  /\ stores' = Tail(stores)
  /\ UNCHANGED <<vars, reader>>

-----------------------------------------------------------------------------
(* The reader: rb_find. *)

\* node = tree->rb_node
Lookup(k) ==
  /\ key = NULL
  /\ key' = k
  /\ at' = seen_root
  /\ linked' = InTree \cup Range(InOrder(seen_child, seen_root))
  /\ UNCHANGED <<vars, seen, stores>>

\* Mutant: the loop does not move.
ReadNowhere == at

Read == seen_child[at][IF key < Key[at] THEN "left" ELSE "right"]

\* One turn of while (node).
ReadChild ==
  /\ key # NULL
  /\ at # NULL
  /\ Key[at] # key
  /\ at' = Read
  /\ UNCHANGED <<vars, seen, stores, key, linked>>

\* The element that compares equal, or none.
ReadDone ==
  /\ key # NULL
  /\ at # NULL => Key[at] = key
  /\ key' = NULL
  /\ at' = NULL
  /\ linked' = {}
  /\ UNCHANGED <<vars, seen, stores>>

LocklessInit ==
  /\ Init
  /\ seen_root = NULL
  /\ seen_child = [n \in Node |-> Leaf]
  /\ stores = <<>>
  /\ key = NULL
  /\ at = NULL
  /\ linked = {}

LocklessNext ==
  WriterTurn \/ Visible \/ (\E k \in Keys : Lookup(k)) \/ ReadChild \/ ReadDone

LocklessSpec == LocklessInit /\ [][LocklessNext]_locklessVars

\* A reader that is not preempted forever, and a writer that may stop anywhere.
LocklessFairSpec == LocklessSpec /\ WF_locklessVars(ReadChild \/ ReadDone)

-----------------------------------------------------------------------------
(* What the notes promise. *)

\* rbtree.c:38: no (temporary) loops in the tree structure as seen in program order.
\* After every single store the child pointers form no loop, not even through the
\* erased nodes that a reader may still stand on.
NeverALoop ==
  LET below[k \in Levels] ==
        IF k = 0 THEN Node
        ELSE LET ends == below[k - 1]
             IN  {n \in Node : \E d \in Side : seen_child[n][d] \in ends}
  IN  below[Cardinality(Node)] = {}

\* rbtree.c:45: any such traversal will only see valid elements, which were in the tree
\* at some time since it began; an older pointer of an erased node leads nowhere else.
OnlyValidElements == at \in linked \cup {NULL}

\* Between two turns of the writer the memory is the tree of LinuxRbtree: the stores,
\* one after the other, amount to what the turn does.
VisibleCatchesUp ==
  stores = <<>> =>
    /\ seen_root = rb_node
    /\ \A n \in InTree : seen_child[n] = rb_child[n]

\* rbtree.c:46: a traversal will indeed complete, unless stores go on for ever: also
\* when the writer stops in the middle of a rotation and what is visible stays so.
ReaderCompletes == []<>(key = NULL) \/ []<><<TRUE>>_seen
=============================================================================
