----------------------------- MODULE NgxRbtree -----------------------------
(***************************************************************************)
(* The red-black tree of c/nginx: ngx_rbtree_insert, ngx_rbtree_delete and *)
(* ngx_rbtree_next.  A black sentinel stands where the Linux tree has null *)
(* pointers, and is written to like a node.  The insertion descends by a   *)
(* function that the tree holds a pointer to, insert_value or              *)
(* insert_timer_value, from ngx_rbtree_init on.                            *)
(*                                                                         *)
(* An action is the straight code before a loop or one turn of a loop; d   *)
(* is the side of the first of the two mirrored copies of each case.       *)
(***************************************************************************)
EXTENDS Integers, Sequences, FiniteSets

CONSTANTS Node,         \* the ngx_rbtree_node_t structures the callers own
          sentinel,
          NULL,
          Key,          \* the key the caller gives to each of them
          KeyRange      \* how many keys there are: 2^w

ASSUME NgxAssumption ==
  /\ NULL \notin Node \cup {sentinel}
  /\ sentinel \notin Node
  /\ KeyRange \in Nat \ {0}
  /\ Key \in [Node -> 0..(KeyRange - 1)]

\* The walks have a budget of levels, so there must be a number of them.
ASSUME FiniteNodes == IsFiniteSet(Node)

VARIABLES
  root,    \* tree->root
  insert,  \* tree->insert
  child,   \* n->left and n->right
  parent,  \* n->parent, the sentinel's too
  color,
  key,
  pc,      \* the loop that runs
  node,    \* the local variables of that loop
  temp

tree == <<root, insert, child, parent, color, key>>
vars == <<tree, pc, node, temp>>

INSTANCE RBShape WITH Nil <- sentinel

Cell == Node \cup {sentinel}
Color == {"red", "black"}

\* What ngx_rbtree_delete leaves in a node: no children, not even the sentinel.
Cleared == [d \in Side |-> NULL]
InTree == {n \in Node : child[n] # Cleared}

InsertFunctions == {"ngx_rbtree_insert_value", "ngx_rbtree_insert_timer_value"}

TypeOK ==
  /\ root \in Cell
  /\ insert \in InsertFunctions
  /\ child \in [Node -> [Side -> Cell] \cup {Cleared}]
  /\ parent \in [Cell -> Cell \cup {NULL}]
  /\ color \in [Cell -> Color]
  /\ key \in [Node -> 0..(KeyRange - 1)]
  /\ pc \in {"idle", "descend", "insert", "delete"}
  /\ node \in Cell
  /\ temp \in Cell

ngx_rbt_is_red(n) == color[n] = "red"
ngx_rbt_is_black(n) == color[n] = "black"
black == {n \in Cell : ngx_rbt_is_black(n)}

\* ngx_rbtree_insert_value and ngx_rbtree_insert_timer_value: node->key < temp->key,
\* and the sign of the difference in the width of a key.
value_before(k, l) == k < l
timer_before(k, l) == (k - l) % KeyRange >= KeyRange \div 2

\* The comparison that tree->insert descends by.
before(k, l) ==
  IF insert = "ngx_rbtree_insert_value" THEN value_before(k, l) ELSE timer_before(k, l)

-----------------------------------------------------------------------------
(* Rotations and walks. *)

memory == [root |-> root, child |-> child, parent |-> parent]

\* The side that n is on, as both rebalancing loops find out.
SideOf(n) == IF n = child[parent[n]]["left"] THEN "left" ELSE "right"

\* ngx_rbtree_left_rotate for d = "left", ngx_rbtree_right_rotate for "right".
Rotate(t, n, d) ==
  LET o == Opposite(d)
      up == t.child[n][o]
      across == t.child[up][d]
      p == t.parent[n]
      ch == [t.child EXCEPT ![n][o] = across, ![up][d] = n]
      par == IF across = sentinel THEN t.parent ELSE [t.parent EXCEPT ![across] = n]
  IN  [root |-> IF n = t.root THEN up ELSE t.root,
       child |-> IF n = t.root THEN ch
                 ELSE [ch EXCEPT ![p][IF n = t.child[p][d] THEN d ELSE o] = up],
       parent |-> [par EXCEPT ![up] = p, ![n] = up]]

\* The assignment of what rotations made of the memory.
Becomes(t) == root' = t.root /\ child' = t.child /\ parent' = t.parent

ngx_rbtree_min(n) ==
  LET walk[k \in Levels] == [m \in Node |->
        IF k = 0 \/ child[m]["left"] = sentinel THEN m ELSE walk[k - 1][child[m]["left"]]]
  IN  walk[Cardinality(Node)][n]

\* Mutant: the root is not recognised, only a node without a parent is.
ngx_rbtree_next_by_parent(n) ==
  LET climb[k \in Levels] == [m \in Node |->
        IF parent[m] = NULL THEN NULL
        ELSE IF k = 0 \/ m = child[parent[m]]["left"] THEN parent[m]
        ELSE climb[k - 1][parent[m]]]
  IN  IF child[n]["right"] # sentinel THEN ngx_rbtree_min(child[n]["right"])
      ELSE climb[Cardinality(Node)][n]

ngx_rbtree_next(n) ==
  LET climb[k \in Levels] == [m \in Node |->
        IF m = root THEN NULL
        ELSE IF k = 0 \/ m = child[parent[m]]["left"] THEN parent[m]
        ELSE climb[k - 1][parent[m]]]
  IN  IF child[n]["right"] # sentinel THEN ngx_rbtree_min(child[n]["right"])
      ELSE climb[Cardinality(Node)][n]

Return == pc' = "idle" /\ node' = sentinel /\ temp' = sentinel

-----------------------------------------------------------------------------
(* ngx_rbtree_insert *)

\* The descent of an insertion needs an order on all keys that are in the tree, which
\* the comment of insert_timer_value expects of its callers: no two timers are before
\* each other, and being before is transitive.
Comparable(S) ==
  \A n, m \in S : timer_before(Key[n], Key[m]) =>
    /\ ~timer_before(Key[m], Key[n])
    /\ \A l \in S : timer_before(Key[m], Key[l]) => timer_before(Key[n], Key[l])

\* Into an empty tree.
InsertFirst(n) ==
  /\ pc = "idle"
  /\ n \notin InTree
  /\ root = sentinel
  /\ root' = n
  /\ child' = [child EXCEPT ![n] = Leaf]
  /\ parent' = [parent EXCEPT ![n] = NULL]
  /\ color' = [color EXCEPT ![n] = "black"]
  /\ key' = [key EXCEPT ![n] = Key[n]]
  /\ UNCHANGED <<pc, node, temp, insert>>

Insert(n) ==
  /\ pc = "idle"
  /\ n \notin InTree
  /\ root # sentinel
  /\ insert = "ngx_rbtree_insert_timer_value" => Comparable(InTree \cup {n})
  /\ key' = [key EXCEPT ![n] = Key[n]]
  /\ pc' = "descend"
  /\ node' = n
  /\ temp' = root
  /\ UNCHANGED <<root, child, parent, color, insert>>

\* Mutant: the keys of timers are compared as they are.
Turn_unsigned == IF key[node] < key[temp] THEN "left" ELSE "right"

\* Mutant: a tie goes to the left.
Turn_or_equal == IF before(key[temp], key[node]) THEN "right" ELSE "left"

Turn == IF before(key[node], key[temp]) THEN "left" ELSE "right"

\* One turn of the loop of tree->insert, and what follows it.
Descend ==
  /\ pc = "descend"
  /\ child[temp][Turn] # sentinel
  /\ temp' = child[temp][Turn]
  /\ UNCHANGED <<tree, pc, node>>

Link ==
  /\ pc = "descend"
  /\ child[temp][Turn] = sentinel
  /\ child' = [child EXCEPT ![temp][Turn] = node, ![node] = Leaf]
  /\ parent' = [parent EXCEPT ![node] = temp]
  /\ color' = [color EXCEPT ![node] = "red"]
  /\ pc' = "insert"
  /\ temp' = sentinel
  /\ UNCHANGED <<root, key, node, insert>>

\* The condition of the loop that re-balances.
InsertGoesOn == pc = "insert" /\ node # root /\ ngx_rbt_is_red(parent[node])

Grandparent == parent[parent[node]]
Uncle == child[Grandparent][Opposite(SideOf(parent[node]))]

\* A red uncle: the colors change, and the loop goes on at the grandparent.
InsertFlip ==
  /\ InsertGoesOn
  /\ ngx_rbt_is_red(Uncle)
  /\ color' = [color EXCEPT ![parent[node]] = "black",
                            ![Uncle] = "black",
                            ![Grandparent] = "red"]
  /\ node' = Grandparent
  /\ UNCHANGED <<root, child, parent, key, pc, temp, insert>>

\* A black uncle: one or two rotations.
InsertRotate ==
  /\ InsertGoesOn
  /\ ngx_rbt_is_black(Uncle)
  /\ LET d == SideOf(parent[node])
         g == Grandparent
         inner == node = child[parent[node]][Opposite(d)]
         n == IF inner THEN parent[node] ELSE node
         t == IF inner THEN Rotate(memory, n, d) ELSE memory
     IN  /\ node' = n
         /\ color' = [color EXCEPT ![t.parent[n]] = "black", ![g] = "red"]
         /\ Becomes(Rotate(t, g, Opposite(d)))
  /\ UNCHANGED <<key, pc, temp, insert>>

InsertDone ==
  /\ pc = "insert"
  /\ ~InsertGoesOn
  /\ color' = [color EXCEPT ![root] = "black"]
  /\ Return
  /\ UNCHANGED <<root, child, parent, key, insert>>

-----------------------------------------------------------------------------
(* ngx_rbtree_delete *)

\* subst: the node whose place in the tree goes away.
Substitute(n) ==
  IF sentinel \in {child[n][d] : d \in Side} THEN n ELSE ngx_rbtree_min(child[n]["right"])

\* temp: what moves up into that place, the sentinel perhaps.
Moved(n) ==
  LET s == Substitute(n)
  IN  IF child[s]["left"] = sentinel THEN child[s]["right"] ELSE child[s]["left"]

\* The end of the straight code.  The color of a node outside the tree is read by
\* nobody; black stands for whatever it is.
DebugStuff(n, ch, par, col) ==
  /\ child' = [ch EXCEPT ![n] = Cleared]
  /\ parent' = [par EXCEPT ![n] = NULL]
  /\ color' = [col EXCEPT ![n] = "black"]
  /\ key' = [key EXCEPT ![n] = 0]

\* A red subst leaves nothing to repair.
Fixup(red, n) ==
  /\ pc' = IF red THEN "idle" ELSE "delete"
  /\ temp' = IF red THEN sentinel ELSE Moved(n)
  /\ UNCHANGED <<node, insert>>

\* The root has at most one child, which keeps the root as its parent.
DeleteRoot(n) ==
  /\ pc = "idle"
  /\ n \in InTree
  /\ Substitute(n) = root
  /\ root' = Moved(n)
  /\ DebugStuff(n, child, parent, [color EXCEPT ![Moved(n)] = "black"])
  /\ UNCHANGED <<pc, node, temp, insert>>

\* Another node that has at most one child.
DeleteOuter(n) ==
  /\ pc = "idle"
  /\ n \in InTree
  /\ Substitute(n) = n
  /\ n # root
  /\ DebugStuff(n, [child EXCEPT ![parent[n]][SideOf(n)] = Moved(n)],
                   [parent EXCEPT ![Moved(n)] = parent[n]], color)
  /\ Fixup(ngx_rbt_is_red(n), n)
  /\ UNCHANGED root

\* Mutant: temp->parent is subst->parent although that is the node deleted.
MovedParentAsIs(n) == parent[Substitute(n)]

\* temp->parent when there is a subst.
MovedParent(n) ==
  LET s == Substitute(n) IN IF parent[s] = n THEN s ELSE parent[s]

\* The successor takes the place of a node that has two children.
DeleteInner(n) ==
  /\ pc = "idle"
  /\ n \in InTree
  /\ Substitute(n) # n
  /\ LET s == Substitute(n)
         unlinked == [child EXCEPT ![parent[s]][SideOf(s)] = Moved(n)]
         ch == [unlinked EXCEPT ![s] = unlinked[n]]
         par == [parent EXCEPT ![Moved(n)] = MovedParent(n), ![s] = parent[n]]
     IN  /\ root' = IF n = root THEN s ELSE root
         /\ DebugStuff(n, IF n = root THEN ch ELSE [ch EXCEPT ![parent[n]][SideOf(n)] = s],
                          [m \in Cell |-> IF m \in {ch[s][d] : d \in Side} \ {sentinel}
                                          THEN s ELSE par[m]],
                          [color EXCEPT ![s] = color[n]])
         /\ Fixup(ngx_rbt_is_red(s), n)

\* The condition of the loop that repairs.
DeleteGoesOn == pc = "delete" /\ temp # root /\ ngx_rbt_is_black(temp)

\* w, and its two children.
Sibling == child[parent[temp]][Opposite(SideOf(temp))]
Near == child[Sibling][SideOf(temp)]
Far == child[Sibling][Opposite(SideOf(temp))]

\* A red w: a rotation brings a black one, and the same turn goes on with that.
DeleteRedSibling ==
  /\ DeleteGoesOn
  /\ ngx_rbt_is_red(Sibling)
  /\ color' = [color EXCEPT ![Sibling] = "black", ![parent[temp]] = "red"]
  /\ Becomes(Rotate(memory, parent[temp], SideOf(temp)))
  /\ UNCHANGED <<key, pc, node, temp, insert>>

\* No red child: w becomes red, and the loop goes on at the parent.
DeleteFlip ==
  /\ DeleteGoesOn
  /\ {Sibling, Near, Far} \subseteq black
  /\ color' = [color EXCEPT ![Sibling] = "red"]
  /\ temp' = parent[temp]
  /\ UNCHANGED <<root, child, parent, key, pc, node, insert>>

\* Mutant: w is black, whatever the parent was.
UpperColorBlack == "black"

\* The color that w takes from temp->parent.
UpperColor == color[parent[temp]]

\* A red child: one or two rotations, and the loop ends.
DeleteRotate ==
  /\ DeleteGoesOn
  /\ ngx_rbt_is_black(Sibling)
  /\ {Near, Far} \ black # {}
  /\ LET d == SideOf(temp)
         p == parent[temp]
         turn == ngx_rbt_is_black(Far)
         t == IF turn THEN Rotate(memory, Sibling, Opposite(d)) ELSE memory
         col == IF turn THEN [color EXCEPT ![Near] = "black", ![Sibling] = "red"] ELSE color
         w == t.child[p][Opposite(d)]
         u == Rotate(t, p, d)
     IN  /\ color' = [col EXCEPT ![w] = UpperColor,
                                 ![p] = "black",
                                 ![t.child[w][Opposite(d)]] = "black"]
         /\ Becomes(u)
         /\ temp' = u.root
  /\ UNCHANGED <<key, pc, node, insert>>

DeleteDone ==
  /\ pc = "delete"
  /\ ~DeleteGoesOn
  /\ color' = [color EXCEPT ![temp] = "black"]
  /\ Return
  /\ UNCHANGED <<root, child, parent, key, insert>>

-----------------------------------------------------------------------------
\* ngx_rbtree_init; the nodes are not in the tree yet.
Init ==
  /\ root = sentinel
  /\ insert \in InsertFunctions
  /\ child = [n \in Node |-> Cleared]
  /\ parent = [n \in Cell |-> NULL]
  /\ color = [n \in Cell |-> "black"]
  /\ key = [n \in Node |-> 0]
  /\ pc = "idle"
  /\ node = sentinel
  /\ temp = sentinel

Caller == \E n \in Node :
  InsertFirst(n) \/ Insert(n) \/ DeleteRoot(n) \/ DeleteOuter(n) \/ DeleteInner(n)

Run ==
  \/ Descend \/ Link \/ InsertFlip \/ InsertRotate \/ InsertDone
  \/ DeleteRedSibling \/ DeleteFlip \/ DeleteRotate \/ DeleteDone

Next == Caller \/ Run

Spec == Init /\ [][Next]_vars

-----------------------------------------------------------------------------
(* Properties. *)

order == InOrder(child, root)

\* At every turn of every loop each child names its parent, but for the root, whose
\* parent may be a deleted node; and while a fixup is below the root, temp hangs where
\* temp->parent says, even when it is the sentinel, which has one parent for all places.
LinksAgree ==
  /\ \A n \in InTree, d \in Side : child[n][d] # sentinel => parent[child[n][d]] = n
  /\ \A n \in InTree : root \notin {child[n][d] : d \in Side} \ {sentinel}
  /\ pc = "delete" /\ temp # root => child[parent[temp]][SideOf(temp)] = temp

WellLinked == TypeOK /\ LinksAgree

\* ngx_rbtree.h:62: a sentinel must be black, although both functions color nodes that
\* may be the sentinel.
SentinelIsBlack == ngx_rbt_is_black(sentinel)

\* Whenever no loop is repairing the tree, it is a red-black tree.
RedBlackAtRest == pc \in {"idle", "descend"} => IsRedBlack(child, black, root)

\* What both loops keep at each turn: an insertion has at most one red node with a red
\* parent, node; a deletion is short of one black node at most, above temp.
LoopInvariants ==
  /\ pc = "insert" =>
       /\ NoRedRed(child, black \cup {node}, root)
       /\ Balanced(child, black, root, NoSlot)
  /\ pc = "delete" =>
       /\ NoRedRed(child, black \cup {temp}, root)
       /\ Balanced(child, black \cup {temp}, root,
                   IF temp = root \/ ngx_rbt_is_red(temp) THEN NoSlot
                   ELSE <<parent[temp], SideOf(temp)>>)

\* The colors are right, or as wrong as the running loop takes them to be.
RedBlackThroughout == SentinelIsBlack /\ RedBlackAtRest /\ LoopInvariants

\* Timers that were accepted within half of the key range of each other stay sorted by
\* the time that passes between them, across the overflow of the key.
TimersInOrder ==
  insert = "ngx_rbtree_insert_timer_value" =>
    LET timers == order
    IN  \A i, j \in DOMAIN timers : i < j =>
          (Key[timers[j]] - Key[timers[i]]) % KeyRange < KeyRange \div 2

\* ngx_rbtree_min and ngx_rbtree_next visit the nodes that are in the tree from left to
\* right and then return NULL, whatever the parent of the root is.
NextAgrees ==
  pc = "idle" =>
    LET walk == order
    IN  /\ InTree = {walk[i] : i \in DOMAIN walk}
        /\ root # sentinel => ngx_rbtree_min(root) = walk[1]
        /\ \A i \in DOMAIN walk :
             ngx_rbtree_next(walk[i]) = IF i = Len(walk) THEN NULL ELSE walk[i + 1]

\* With ngx_rbtree_insert_value the tree is a sorted list, first-in first-out among
\* equal keys: every insertion and deletion is one step of the list, and no rebalancing
\* step changes it.  (A tree of timers, whose order is circular, is no list here.)
Abstract ==
  INSTANCE SortedList WITH list <- IF insert = "ngx_rbtree_insert_value" THEN order ELSE <<>>
IsSortedList == Abstract!Spec
=============================================================================
