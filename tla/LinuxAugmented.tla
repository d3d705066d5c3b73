--------------------------- MODULE LinuxAugmented ---------------------------
(***************************************************************************)
(* The augmented tree of rbtree_augmented.h: a caller keeps a value in     *)
(* each node that summarises the node's subtree.  It updates the path down *)
(* to a new node itself; rotations and erasures call its callbacks.  The   *)
(* callbacks are parameters here: LinuxAugmentedMax and OrderStatisticTree *)
(* say which.                                                              *)
(*                                                                         *)
(* Between the two rotations of one turn a callback sees child pointers    *)
(* that the second rotation changes; the values it computes from those are *)
(* all written again by the callback of the second one, so the callbacks   *)
(* read the child pointers as they are after the turn.                     *)
(***************************************************************************)
EXTENDS LinuxWalk

CONSTANTS
  Alone(_),         \* the value of a node without children
  OnPath(_, _),     \* the value of a node once a new one is below it
  Compute(_, _, _), \* what RBCOMPUTE finds from the values of the children
  StopsEarly,       \* whether propagate stops at a value that is right
  Rotated(_, _, _, _)  \* augment->rotate

VARIABLE augmented  \* the value each node's structure holds

augmentedVars == <<vars, augmented>>

\* augment->propagate, turn by turn: from a node up to stop.
Propagated(aug, ch, w, from, stop) ==
  LET Done(t) == t.at = stop \/ (StopsEarly /\ t.aug[t.at] = Compute(t.aug, ch, t.at))
      Turn(t) == [at  |-> w[t.at].parent,
                  aug |-> [t.aug EXCEPT ![t.at] = Compute(t.aug, ch, t.at)]]
      loop[k \in Levels] ==
        IF k = 0 THEN [at |-> from, aug |-> aug]
        ELSE IF Done(loop[k - 1]) THEN loop[k - 1] ELSE Turn(loop[k - 1])
  IN  loop[Cardinality(Node)].aug

\* insert_augmented of rbtree_test.c and ostree_insert.
AddAugmented(n) == Add(n) /\ UNCHANGED augmented

DescendAugmented ==
  /\ Descend
  /\ augmented' = [augmented EXCEPT ![parent'] = OnPath(@, node)]

LinkAugmented ==
  /\ Link
  /\ augmented' = [augmented EXCEPT ![node] = Alone(node)]

\* Both callbacks of Case 2 and Case 3, in their order.
InsertRotateAugmented ==
  LET g == rb_parent(parent)
      inner == node = rb_child[parent][Opposite(SideOf(parent, g))]
  IN  /\ InsertRotate
      /\ augmented' =
           IF inner
           THEN Rotated(Rotated(augmented, rb_child', parent, node), rb_child', g, node)
           ELSE Rotated(augmented, rb_child', g, parent)

\* The value of a node outside of the tree is dead, as its words are.
Forget(aug, n) == [aug EXCEPT ![n] = 0]

\* rb_erase_augmented
EraseOneChildAugmented(n) ==
  /\ EraseOneChild(n)
  /\ augmented' =
       Forget(Propagated(augmented, rb_child', rb_parent_color', rb_parent(n), NULL), n)

EraseTwoChildrenAugmented(n) == EraseTwoChildren(n) /\ UNCHANGED augmented

\* copy, propagate up to the successor when it came from further down, and
\* propagate from the successor to the root.
EraseSuccessorAugmented ==
  LET s == successor
      copied == [augmented EXCEPT ![s] = augmented[node]]
      below == IF parent = s THEN copied
               ELSE Propagated(copied, rb_child', rb_parent_color', parent, s)
  IN  /\ EraseSuccessor
      /\ augmented' =
           Forget(Propagated(below, rb_child', rb_parent_color', s, NULL), node)

EraseRedSiblingAugmented ==
  /\ EraseRedSibling
  /\ augmented' = Rotated(augmented, rb_child', parent, Sibling)

EraseRotateAugmented ==
  LET d == SideOf(node, parent)
      inner == BlackOrNull(Nephew(Opposite(d)))
      s == IF inner THEN Nephew(d) ELSE Sibling
      first == IF inner THEN Rotated(augmented, rb_child', Sibling, s) ELSE augmented
  IN  /\ EraseRotate
      /\ augmented' = Rotated(first, rb_child', parent, s)

\* The turns that rotate nothing call nothing.
RecolorAugmented ==
  /\ InsertRoot \/ InsertDone \/ InsertFlip \/ SuccessorStep \/ EraseFlip
  /\ UNCHANGED augmented

AugmentedInit == Init /\ augmented = [n \in Node |-> 0]

AugmentedNext ==
  \/ \E n \in Node :
       \/ AddAugmented(n)
       \/ EraseOneChildAugmented(n)
       \/ EraseTwoChildrenAugmented(n)
  \/ DescendAugmented
  \/ LinkAugmented
  \/ InsertRotateAugmented
  \/ EraseSuccessorAugmented
  \/ EraseRedSiblingAugmented
  \/ EraseRotateAugmented
  \/ RecolorAugmented

AugmentedSpec == AugmentedInit /\ [][AugmentedNext]_augmentedVars

-----------------------------------------------------------------------------
\* The nodes of the subtree at n.
Subtree(n) == LET walk == InOrder(rb_child, n) IN {walk[i] : i \in DOMAIN walk}

\* The new node that an insertion has already counted at n on its way down.
Announced(n) ==
  IF pc = "add" /\ parent \in Subtree(n) THEN {node} ELSE {}
=============================================================================
