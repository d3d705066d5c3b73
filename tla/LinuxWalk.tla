----------------------------- MODULE LinuxWalk -----------------------------
(***************************************************************************)
(* The functions of c/linux that read a tree: iteration in both orders and *)
(* in postorder, and the lookups by key.  Each loop is a recursive         *)
(* function with the budget of levels that RBShape explains; d is again    *)
(* the side on which the mirrored functions differ.                        *)
(***************************************************************************)
EXTENDS LinuxRbtree

\* while (n->rb_left) n = n->rb_left, or the same to the right
Deepest(n, d) ==
  LET walk[k \in Levels] == [m \in Node |->
        IF k = 0 \/ rb_child[m][d] = NULL THEN m ELSE walk[k - 1][rb_child[m][d]]]
  IN  walk[Cardinality(Node)][n]

rb_first == IF rb_node = NULL THEN NULL ELSE Deepest(rb_node, "left")
rb_last == IF rb_node = NULL THEN NULL ELSE Deepest(rb_node, "right")

\* Mutant: the climb stops at the parent, whatever the side.
ClimbOnce(n, d) == rb_parent(n)

\* The first ancestor that n is not below on side d.
ClimbFrom(n, d) ==
  LET walk[k \in Levels] == [m \in Node |->
        LET p == rb_parent(m)
        IN  IF k = 0 \/ p = NULL \/ rb_child[p][d] # m THEN p ELSE walk[k - 1][p]]
  IN  walk[Cardinality(Node)][n]

\* Mutant: the child itself, not the deepest node below it.
NeighbourChild(n, d) ==
  IF RB_EMPTY_NODE(n) THEN NULL
  ELSE IF rb_child[n][d] # NULL THEN rb_child[n][d] ELSE ClimbFrom(n, d)

Neighbour(n, d) ==
  IF RB_EMPTY_NODE(n) THEN NULL
  ELSE IF rb_child[n][d] # NULL THEN Deepest(rb_child[n][d], Opposite(d))
  ELSE ClimbFrom(n, d)

rb_next(n) == Neighbour(n, "right")
rb_prev(n) == Neighbour(n, "left")

rb_left_deepest_node(n) ==
  LET walk[k \in Levels] == [m \in Node |->
        IF k = 0 \/ rb_child[m] = Leaf THEN m
        ELSE walk[k - 1][rb_child[m][IF rb_child[m]["left"] # NULL THEN "left" ELSE "right"]]]
  IN  walk[Cardinality(Node)][n]

rb_first_postorder == IF rb_node = NULL THEN NULL ELSE rb_left_deepest_node(rb_node)

rb_next_postorder(n) ==
  LET p == rb_parent(n)
  IN  IF p # NULL /\ rb_child[p]["left"] = n /\ rb_child[p]["right"] # NULL
      THEN rb_left_deepest_node(rb_child[p]["right"])
      ELSE p

\* The nodes that a loop n = next(n) visits from start on.
Visits(start, next(_)) ==
  LET walk[k \in Levels] == [n \in NodeOrNil |->
        IF k = 0 \/ n = NULL THEN <<>> ELSE <<n>> \o walk[k - 1][next(n)]]
  IN  walk[Cardinality(Node)][start]

-----------------------------------------------------------------------------
(* Lookups; cmp(key, n) compares key with Key[n]. *)

rb_find(key) ==
  LET walk[k \in Levels] == [n \in NodeOrNil |->
        IF k = 0 \/ n = NULL \/ Key[n] = key THEN n
        ELSE walk[k - 1][rb_child[n][IF key < Key[n] THEN "left" ELSE "right"]]]
  IN  walk[Cardinality(Node)][rb_node]

\* Mutant: the first match on the way down.
rb_find_any(key) == rb_find(key)

rb_find_first(key) ==
  LET walk[k \in Levels] == [n \in NodeOrNil |-> [match \in NodeOrNil |->
        IF k = 0 \/ n = NULL THEN match
        ELSE IF key =< Key[n]
             THEN walk[k - 1][rb_child[n]["left"]][IF key = Key[n] THEN n ELSE match]
             ELSE walk[k - 1][rb_child[n]["right"]][match]]]
  IN  walk[Cardinality(Node)][rb_node][NULL]

rb_next_match(key, n) ==
  LET next == rb_next(n)
  IN  IF next # NULL /\ Key[next] # key THEN NULL ELSE next

rb_for_each(key) == Visits(rb_find_first(key), LAMBDA n : rb_next_match(key, n))
=============================================================================
