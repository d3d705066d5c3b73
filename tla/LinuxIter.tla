----------------------------- MODULE LinuxIter -----------------------------
(***************************************************************************)
(* A caller that walks a leftmost-cached tree with rb_first and rb_next    *)
(* (the loop of rbtree.rst:190-194) and changes it between two steps of    *)
(* its loop: it adds nodes, erases or replaces other nodes than the one it *)
(* stands on, and erases that one after it has fetched the next.  Or it    *)
(* takes the whole tree down without an rb_erase, by the postorder loop    *)
(* rbtree_postorder_for_each_entry_safe with a body that frees pos; it     *)
(* would have to start from an empty root afterwards.                      *)
(***************************************************************************)
EXTENDS LinuxCached

VARIABLES
  cursor,   \* the node the loop stands on (pos)
  due,      \* the nodes the loop has still to visit: in the tree since it began
  teardown, \* whether the loop is the postorder loop
  freed     \* the nodes whose memory is gone

loop == <<cursor, due, teardown, freed>>
iterVars == <<cachedVars, loop>>

Resting == pc = "idle" /\ cursor = NULL /\ ~teardown

IterStart ==
  /\ Resting
  /\ cursor' = rb_first
  /\ due' = InTree
  /\ UNCHANGED <<cachedVars, teardown, freed>>

IterStep ==
  /\ pc = "idle"
  /\ cursor # NULL
  /\ ~teardown
  /\ cursor' = rb_next(cursor)
  /\ due' = due \ {cursor}
  /\ UNCHANGED <<cachedVars, teardown, freed>>

\* next = rb_next(cursor); rb_erase_cached(cursor); cursor = next
IterErase ==
  /\ cursor # NULL
  /\ ~teardown
  /\ EraseCached(cursor)
  /\ cursor' = rb_next(cursor)
  /\ due' = due \ {cursor}
  /\ UNCHANGED <<teardown, freed>>

\* An operation of the loop's body on other nodes, and the turns of its loops.
Body ==
  /\ ~teardown
  /\ \/ \E n \in Node \ {cursor} :
          AddCached(n) \/ EraseCached(n) \/ \E m \in Node : ReplaceCached(n, m)
     \/ DescendCached
     \/ LinkCached
     \/ RebalanceCached
  /\ due' = due \cap InTree'
  /\ UNCHANGED <<cursor, teardown, freed>>

TeardownBegin ==
  /\ Resting
  /\ rb_node # NULL
  /\ cursor' = rb_first_postorder
  /\ due' = InTree
  /\ teardown' = TRUE
  /\ UNCHANGED <<cachedVars, freed>>

\* Mutant: the loop goes through the nodes from left to right.
TeardownInOrder ==
  /\ teardown
  /\ cursor # NULL
  /\ freed' = freed \cup {cursor}
  /\ due' = due \ {cursor}
  /\ cursor' = rb_next(cursor)
  /\ UNCHANGED <<cachedVars, teardown>>

\* n = rb_next_postorder(pos); the body frees pos; pos = n
TeardownStep ==
  /\ teardown
  /\ cursor # NULL
  /\ freed' = freed \cup {cursor}
  /\ due' = due \ {cursor}
  /\ cursor' = rb_next_postorder(cursor)
  /\ UNCHANGED <<cachedVars, teardown>>

IterInit == CachedInit /\ cursor = NULL /\ due = {} /\ teardown = FALSE /\ freed = {}

IterNext == IterStart \/ IterStep \/ IterErase \/ Body \/ TeardownBegin \/ TeardownStep

IterSpec == IterInit /\ [][IterNext]_iterVars

-----------------------------------------------------------------------------
(* Correctness. *)

list == InOrder(rb_child, rb_node)
Position(n) == CHOOSE i \in DOMAIN list : list[i] = n

\* rb_erase moves nodes but not their contents, so a loop that holds the next
\* node across an erase goes on from there: it never passes by a node that was in
\* the tree all the time, whatever is added, erased, replaced and rotated on its
\* way.  The postorder loop ends with no node left either, so none leaks.
NothingPassedBy ==
  /\ due # {} => cursor # NULL
  /\ pc # "successor" /\ ~teardown => \A n \in due : Position(cursor) =< Position(n)

\* rb_first, rb_last, rb_next and rb_prev are the neighbours in the sorted list.
\* They are used inside of operations too (rb_erase_cached), so the rebalancing
\* loops are no exception.
NeighboursAgree ==
  LET walk == list
  IN  /\ rb_first = IF walk = <<>> THEN NULL ELSE walk[1]
      /\ rb_last = IF walk = <<>> THEN NULL ELSE walk[Len(walk)]
      /\ \A i \in DOMAIN walk :
           /\ rb_next(walk[i]) = IF i = Len(walk) THEN NULL ELSE walk[i + 1]
           /\ rb_prev(walk[i]) = IF i = 1 THEN NULL ELSE walk[i - 1]

\* rb_find finds some node with the key, rb_find_first the oldest one of them, and
\* rb_for_each meets all of them in their order, for keys that are present or not.
LookupsAgree ==
  LET walk == list
  IN  \A key \in {Key[n] : n \in Node} \cup {-1} :
        \E i \in 0..Len(walk) : \E j \in i..Len(walk) :
          /\ \A x \in DOMAIN walk : Key[walk[x]] = key <=> x \in i + 1..j
          /\ IF i = j THEN rb_find(key) = NULL
             ELSE \E x \in i + 1..j : rb_find(key) = walk[x]
          /\ rb_find_first(key) = IF i = j THEN NULL ELSE walk[i + 1]
          /\ rb_for_each(key) = SubSeq(walk, i + 1, j)

Subtree(n) == LET walk == InOrder(rb_child, n) IN {walk[i] : i \in DOMAIN walk}

\* The nodes that rb_next_postorder(n) reads: n, its parent, and the path from the
\* parent's right child down to where rb_left_deepest_node ends.
Reads(n) ==
  LET p == rb_parent(n)
      sibling == rb_child[p]["right"]
      last == rb_next_postorder(n)
  IN  IF p = NULL THEN {n}
      ELSE {n, p} \cup
           IF last = p THEN {}
           ELSE {m \in Subtree(sibling) : last \in Subtree(m)}

\* rbtree.h:127: the loop allows the backing memory of pos to be invalidated.  No
\* memory is read, and no node handed to the body, once it is freed.
NoUseAfterFree == teardown /\ cursor # NULL => Reads(cursor) \cap freed = {}
=============================================================================
