-------------------------- MODULE LinuxCachedProof --------------------------
(***************************************************************************)
(* The leftmost-cached tree, for every set of nodes.  It implements        *)
(* LinuxRbtree, under the test program and under the caller that walks and *)
(* changes it, whose loops pass by no node and read no freed one; and its  *)
(* cache is the first node of the list.                                    *)
(***************************************************************************)
EXTENDS LinuxTest, LinuxIter, LinuxListProof

\* A step of a cached operation is a step of the operation that it wraps.
LEMMA CachedStep == [CachedNext]_cachedVars => [Next]_vars
<1> SUFFICES ASSUME [CachedNext]_cachedVars PROVE [Next]_vars
  OBVIOUS
<1>1. ASSUME NEW n \in Node, AddCached(n) \/ EraseCached(n) PROVE Next
  BY <1>1 DEF AddCached, EraseCached, Next, Caller
<1>2. ASSUME NEW n \in Node, NEW m \in Node, ReplaceCached(n, m) PROVE Next
  BY <1>2 DEF ReplaceCached, Next, Caller
<1>3. CASE DescendCached
  BY <1>3 DEF DescendCached, Next, Run
<1>4. CASE LinkCached
  BY <1>4 DEF LinkCached, Next, Run
<1>5. CASE RebalanceCached
  BY <1>5 DEF RebalanceCached, Next
<1>6. CASE UNCHANGED cachedVars
  BY <1>6 DEF cachedVars
<1>7. QED
  BY <1>1, <1>2, <1>3, <1>4, <1>5, <1>6 DEF CachedNext

\* The leftmost-cached tree implements the tree of LinuxRbtree: rb_add_cached,
\* rb_erase_cached and rb_replace_node_cached do to it what the operations do that
\* they call, and the cache steers none of them.
THEOREM CachedImplementsRbtree == CachedSpec => Spec
<1>1. CachedInit => Init
  BY DEF CachedInit
<1>2. QED
  BY <1>1, CachedStep, PTL DEF CachedSpec, Spec

\* Pointers agree and the tree is red-black in the cached tree, whatever rb_erase_cached and rb_add_cached do to
\* it; no rebalancing loop dereferences NULL, and none rotates more than three times.
THEOREM CachedTreeStaysSound ==
  CachedSpec => [](LinksAgree /\ RedBlackThroughout /\ NoNullDereference) /\ RotationBound
BY CachedImplementsRbtree, LinksAlwaysAgree, RedBlackAlways, NeverNullDereferenced,
   RotationsAreBounded, PTL

\* rb_first, rb_last, rb_next and rb_prev agree with the list in every state of the
\* inductive invariant.
LEMMA NeighboursNow == IInv => NeighboursAgree
<1> SUFFICES ASSUME IInv PROVE NeighboursAgree
  OBVIOUS
<1>1. list = List /\ List \in Seq(Node)
  BY ListNow DEF list
<1>2. /\ rb_first = IF List = <<>> THEN NULL ELSE List[1]
      /\ rb_last = IF List = <<>> THEN NULL ELSE List[Len(List)]
  BY EndsHere DEF FirstOf
<1>3. ASSUME NEW at \in DOMAIN List
      PROVE  /\ rb_next(List[at]) = IF at = Len(List) THEN NULL ELSE List[at + 1]
             /\ rb_prev(List[at]) = IF at = 1 THEN NULL ELSE List[at - 1]
  <2>1. /\ Adjoins(List, at, "right", Neighbour(List[at], "right"), NULL)
        /\ Adjoins(List, at, "left", Neighbour(List[at], "left"), NULL)
    BY NeighbourHere DEF TwoSides
  <2>2. QED
    BY <2>1 DEF Adjoins, rb_next, rb_prev
<1>4. QED
  BY <1>1, <1>2, <1>3 DEF NeighboursAgree
-----------------------------------------------------------------------------
(* The cached leftmost node. *)

CacheInv == CacheNow(rb_leftmost, leftmost)

\* One step of the cached tree.
LEMMA CachedNextKeeps ==
  ASSUME ListInv, CacheInv, [CachedNext]_cachedVars
  PROVE  ListInv' /\ CacheInv'
<1>1. ListInv'
  BY CachedStep, NextKeepsList
<1>2. CacheNow(rb_leftmost, leftmost)
  BY DEF CacheInv
<1>3. CacheNext(rb_leftmost', leftmost')
  <2>1. ASSUME NEW n \in Node, AddCached(n) PROVE CacheNext(rb_leftmost', leftmost')
    BY <1>2, <2>1, AddKeepsCache DEF AddCached
  <2>2. ASSUME NEW n \in Node, EraseCached(n) PROVE CacheNext(rb_leftmost', leftmost')
    <3>1. CacheNext(IF rb_leftmost = n THEN rb_next(n) ELSE rb_leftmost, leftmost)
      BY <1>2, <2>2, EraseKeepsCache DEF EraseCached
    <3>2. QED
      BY <2>2, <3>1 DEF EraseCached
  <2>3. ASSUME NEW n \in Node, NEW m \in Node, ReplaceCached(n, m)
        PROVE  CacheNext(rb_leftmost', leftmost')
    <3>1. CacheNext(IF rb_leftmost = n THEN m ELSE rb_leftmost, leftmost)
      BY <1>2, <2>3, ReplaceKeepsCache DEF ReplaceCached
    <3>2. QED
      BY <2>3, <3>1 DEF ReplaceCached
  <2>4. CASE DescendCached
    <3>1. CacheNext(rb_leftmost, (leftmost /\ dir' = "left"))
      BY <1>2, <2>4, DescendKeepsCache DEF DescendCached
    <3>2. QED
      BY <2>4, <3>1 DEF DescendCached
  <2>5. CASE LinkCached
    <3>1. CacheNext(IF leftmost THEN node ELSE rb_leftmost, leftmost)
      BY <1>2, <2>5, LinkKeepsCache DEF LinkCached
    <3>2. QED
      BY <2>5, <3>1 DEF LinkCached
  <2>6. CASE RebalanceCached
    BY <1>2, <2>6, RunKeepsCache DEF RebalanceCached, cache
  <2>7. CASE UNCHANGED cachedVars
    BY <1>2, <2>7, StillKeepsCache DEF cachedVars, cache
  <2>8. QED
    BY <2>1, <2>2, <2>3, <2>4, <2>5, <2>6, <2>7 DEF CachedNext
<1>4. CacheInv'
  BY <1>3 DEF CacheInv, CacheNow, CacheNext, List, Walk
<1>5. QED
  BY <1>1, <1>4

\* The empty tree of the start.
LEMMA CachedInitHolds == ASSUME CachedInit PROVE ListInv /\ CacheInv
BY InitCache DEF CachedInit, CacheInv

\* The first node of the list is what rb_first finds.
LEMMA CacheIsFirstNow == ASSUME ListInv, CacheInv PROVE CacheIsFirst
BY EndsHere DEF ListInv, CacheInv, CacheNow, CacheAt, CacheIsFirst

\* The invariant of the cached tree holds at every moment.
LEMMA CacheInvAlways == CachedSpec => [](ListInv /\ CacheInv)
<1>1. CachedInit => ListInv /\ CacheInv
  BY CachedInitHolds
<1>2. ListInv /\ CacheInv /\ [CachedNext]_cachedVars => (ListInv /\ CacheInv)'
  BY CachedNextKeeps
<1>3. QED
  BY <1>1, <1>2, PTL DEF CachedSpec

\* rb_first_cached is the same as rb_first (rbtree.h:165) in a tree of any size and at
\* every moment: while rb_add_cached looks for a place, while a tree is rebalanced and
\* while rb_erase looks for the successor.
THEOREM CacheIsTheFirst == CachedSpec => []CacheIsFirst
BY CacheInvAlways, CacheIsFirstNow, PTL

\* rb_insert_color_cached stores and returns the new node if the flag is up, and then it
\* is the first one.
LEMMA InsertReturns ==
  ASSUME ListInv, CacheInv, CacheIsFirst', CachedNext, pc' = "insert", pc # "insert"
  PROVE  returned' = IF rb_first' = node THEN node ELSE NULL
<1>1. LinkCached
  <2>1. ASSUME NEW n \in Node, AddCached(n) \/ EraseCached(n) \/ \E m \in Node : ReplaceCached(n, m)
        PROVE  FALSE
    BY <2>1 DEF AddCached, Add, StartDescent, EraseCached, EraseOneChild, EraseTwoChildren,
         Rebalance, Return, ReplaceCached, Replace
  <2>2. CASE DescendCached
    BY <2>2 DEF DescendCached, Descend
  <2>3. CASE RebalanceCached
    BY <2>3 DEF RebalanceCached, Run, FindAddHit, Descend, Link, InsertRoot, InsertDone,
         InsertFlip, InsertRotate, SuccessorStep, EraseSuccessor, EraseFlip, EraseRedSibling,
         EraseRotate, Rebalance, Return
  <2>4. QED
    BY <2>1, <2>2, <2>3 DEF CachedNext
<1>2. /\ rb_leftmost' = IF leftmost THEN node ELSE rb_leftmost
      /\ returned' = IF leftmost THEN node ELSE NULL
      /\ pc = "add" /\ Link
  BY <1>1 DEF LinkCached, Link, CacheInv, CacheNow, CacheAt
<1>3. IInv /\ node \in Node
  BY <1>2 DEF ListInv, IInv, TypeOK, Locals
<1>4. List \in Seq(Node) /\ node \notin Elements(List) /\ node # NULL
  BY <1>2, <1>3, ListNow, LinkedNow, NodeAssumption DEF Link, IInv, Locals
<1>5. FirstOf(List, NULL) # node
  <2>1. CASE List = <<>>
    BY <1>4, <2>1 DEF FirstOf
  <2>2. CASE List # <<>>
    <3>1. 1 \in DOMAIN List
      <4>1. Len(List) \in Nat \ {0} /\ DOMAIN List = 1..Len(List)
        BY <1>4, <2>2, EmptySeq, LenProperties
      <4>2. QED
        BY <4>1
    <3>2. QED
      BY <1>4, <2>2, <3>1 DEF FirstOf, Elements
  <2>3. QED
    BY <2>1, <2>2
<1>6. rb_leftmost # node /\ rb_leftmost' = rb_first'
  BY <1>5 DEF CacheInv, CacheNow, CacheAt, CacheIsFirst
<1>7. leftmost \in BOOLEAN => returned' = IF rb_leftmost' = node THEN node ELSE NULL
  BY <1>2, <1>6
<1>8. QED
  BY <1>2, <1>6

\* A node leaves the tree in rb_erase_cached, which returns what it stores.
LEMMA EraseReturns ==
  ASSUME ListInv, CacheInv, IInv', CacheIsFirst', CachedNext, pc = "idle",
         NEW n \in InTree, n \notin InTree', InTree' \subseteq InTree
  PROVE  returned' = IF rb_first = n THEN rb_first' ELSE NULL
<1>1. /\ IInv /\ rb_leftmost = rb_first /\ rb_leftmost' = rb_first'
      /\ InTree = Elements(List) /\ InTree' = Elements(List')
  BY LinkedInList, LinkedInNextList, CacheIsFirstNow DEF ListInv, CacheIsFirst
<1>2. CASE rb_child' = rb_child /\ rb_node' = rb_node
  BY <1>1, <1>2, SameTree
<1>3. ASSUME NEW m \in Node, EraseCached(m) PROVE returned' = IF rb_first = n THEN rb_first' ELSE NULL
  <2>1. CASE EraseTwoChildren(m)
    BY <1>2, <2>1 DEF EraseTwoChildren, tree
  <2>2. CASE EraseOneChild(m)
    <3>1. Removes(Node, List, List', m)
      BY <1>1, <2>2, EraseOneChildRemoves
    <3>2. n = m
      <4>1. SUFFICES ASSUME n # m PROVE FALSE
        OBVIOUS
      <4>2. Precedes(List, n, n)
        <5>1. PICK at \in DOMAIN List : List[at] = n
          BY <1>1 DEF Elements
        <5>2. at \in Nat
          BY <1>1, ListNow, LenProperties
        <5>3. QED
          BY <5>1, <5>2 DEF Precedes
      <4>3. Precedes(List', n, n)
        BY <3>1, <4>1, <4>2, RemovesKeepsPlaces
      <4>4. QED
        BY <1>1, <4>3, PrecedesIn
    <3>3. /\ rb_leftmost' = IF rb_leftmost = n THEN rb_next(n) ELSE rb_leftmost
          /\ returned' = IF rb_leftmost = n THEN rb_next(n) ELSE NULL
      BY <1>3, <3>2 DEF EraseCached
    <3>4. QED
      BY <1>1, <3>3
  <2>3. QED
    BY <1>3, <2>1, <2>2 DEF EraseCached
<1>4. ASSUME NEW v \in Node, NEW m \in Node, ReplaceCached(v, m) PROVE FALSE
  <2>1. Replace(v, m)
    BY <1>4 DEF ReplaceCached
  <2>2. m \notin InTree
    BY <2>1 DEF Replace, InTree
  <2>3. Trades(Node, List, List', v, m)
    BY <1>1, <2>1, ReplaceTrades
  <2>4. m \in Elements(List')
    BY <1>1, <2>2, <2>3, ListNow, TradesAtPlace
  <2>5. QED
    BY <1>1, <2>2, <2>4
<1>5. ASSUME NEW m \in Node, AddCached(m) PROVE rb_child' = rb_child /\ rb_node' = rb_node
  BY <1>5 DEF AddCached, Add, StartDescent, tree
<1>6. ~DescendCached /\ ~LinkCached /\ ~RebalanceCached
  BY DEF DescendCached, Descend, LinkCached, Link, RebalanceCached
<1>7. QED
  BY <1>2, <1>3, <1>4, <1>5, <1>6 DEF CachedNext

\* The caller can trust what it gets back: rb_add_cached returns its node exactly when
\* that is the new leftmost (rbtree.h:222), and rb_erase_cached the new one
\* exactly when it erased the old one.
THEOREM ReturnsTheLeftmost == CachedSpec => ReturnsNewLeftmost
<1>1. /\ ListInv /\ CacheInv /\ ListInv' /\ CacheInv' /\ [CachedNext]_cachedVars
      => [/\ pc' = "insert" /\ pc # "insert" =>
               returned' = IF rb_first' = node THEN node ELSE NULL
          /\ \A n \in InTree : pc = "idle" /\ n \notin InTree' /\ InTree' \subseteq InTree =>
               returned' = IF rb_first = n THEN rb_first' ELSE NULL]_cachedVars
  <2> SUFFICES ASSUME ListInv, CacheInv, ListInv', CacheInv', CachedNext
               PROVE  /\ pc' = "insert" /\ pc # "insert" =>
                           returned' = IF rb_first' = node THEN node ELSE NULL
                      /\ \A n \in InTree :
                           pc = "idle" /\ n \notin InTree' /\ InTree' \subseteq InTree =>
                             returned' = IF rb_first = n THEN rb_first' ELSE NULL
    OBVIOUS
  <2>1. (ListInv /\ CacheInv => CacheIsFirst)'
    BY CacheIsFirstNow, PTL
  <2>2. CacheIsFirst' /\ IInv'
    BY <2>1 DEF ListInv
  <2>3. QED
    BY <2>2, InsertReturns, EraseReturns
<1>2. QED
  BY <1>1, CacheInvAlways, PTL DEF CachedSpec, ReturnsNewLeftmost
-----------------------------------------------------------------------------
(* The loop that changes the tree under its feet. *)

\* All of T, and c itself, is in the list s and not before c.
Ahead(s, c, T) == \A m \in T \cup {c} : Precedes(s, c, m)

\* The loop stands on a linked node that is not being erased, and what it has still to
\* visit is not behind it.
LoopInv ==
  ~teardown =>
    IF cursor = NULL THEN due = {}
    ELSE Ahead(List, cursor, due) /\ (pc = "successor" => node # cursor)

\* rb_next goes on to a node that is in front of all that is left.
LEMMA NextAhead ==
  ASSUME IInv, NEW c, NEW T, Ahead(List, c, T)
  PROVE  /\ rb_next(c) # c
         /\ IF rb_next(c) = NULL THEN T \ {c} = {}
            ELSE Ahead(List, rb_next(c), T \ {c}) /\ c \notin (T \ {c}) \cup {rb_next(c)}
<1>1. Precedes(List, c, c)
  BY DEF Ahead
<1>2. PICK at \in DOMAIN List : List[at] = c
  BY <1>1 DEF Precedes
<1>3. PICK s \in Seq(Node) : s = List /\ Distinct(s)
  BY ListNow
<1>4. PICK v : v = rb_next(c)
  OBVIOUS
<1>5. Adjoins(s, at, "right", v, NULL) /\ at \in DOMAIN s /\ s[at] = c
  BY <1>2, <1>3, <1>4, NeighbourHere DEF TwoSides, rb_next
<1>6. DOMAIN s = 1..Len(s) /\ Len(s) \in Nat
  BY LenProperties
<1>7. v = NULL \/ (v \in Elements(s) /\ v # c)
  <2>1. CASE at = Len(s)
    BY <1>5, <2>1 DEF Adjoins
  <2>2. CASE at # Len(s)
    <3>1. at + 1 \in DOMAIN s /\ v = s[at + 1] /\ at # at + 1
      BY <1>5, <1>6, <2>2 DEF Adjoins
    <3>2. QED
      BY <1>3, <1>5, <3>1 DEF Elements, Distinct
  <2>3. QED
    BY <2>1, <2>2
<1>8. c # NULL /\ NULL \notin Elements(s)
  BY <1>1, <1>3, PrecedesIn, LinkedInList
<1>9. \A m \in T \ {c} : Precedes(s, v, m) /\ v \in Elements(s)
  <2> SUFFICES ASSUME NEW m \in T \ {c} PROVE Precedes(s, v, m) /\ v \in Elements(s)
    OBVIOUS
  <2>1. Precedes(s, s[at], m) /\ m # s[at]
    BY <1>3, <1>5 DEF Ahead
  <2>2. QED
    BY <1>3, <1>5, <2>1, PrecedesNext
<1>10. v \in Elements(s) => Precedes(s, v, v)
  BY <1>6 DEF Precedes, Elements
<1>11. QED
  BY <1>3, <1>4, <1>7, <1>8, <1>9, <1>10 DEF Ahead

\* What a step of an operation on other nodes leaves of the order.
LEMMA AheadKept ==
  ASSUME ListInv, IInv', NEW c, NEW T, Ahead(List, c, T), NEW n \in Node, n # c,
         \/ List' = List
         \/ Removes(Node, List, List', n)
         \/ \E m \in Node \ Elements(List) : Trades(Node, List, List', n, m)
  PROVE  Ahead(List', c, T \cap InTree')
<1>1. IInv /\ InTree' = Elements(List')
  BY LinkedInNextList DEF ListInv
<1>2. PICK s, s2 : s \in Seq(Node) /\ s = List /\ s2 = List' /\ Distinct(s)
  BY <1>1, ListNow
<1>3. \A m \in (T \cap Elements(s2)) \cup {c} : Precedes(s, c, m)
  BY <1>2 DEF Ahead
<1>4. CASE s2 = s
  BY <1>1, <1>2, <1>3, <1>4 DEF Ahead
<1>5. CASE Removes(Node, s, s2, n)
  <2>1. n \notin Elements(s2)
    BY <1>2, <1>5, RemovesAtPlace
  <2>2. \A m \in (T \cap Elements(s2)) \cup {c} : Precedes(s2, c, m)
    <3> SUFFICES ASSUME NEW m \in (T \cap Elements(s2)) \cup {c} PROVE Precedes(s2, c, m)
      OBVIOUS
    <3>1. m # n /\ Precedes(s, c, m)
      BY <1>3, <2>1
    <3>2. QED
      BY <1>5, <3>1, RemovesKeepsPlaces
  <2>3. QED
    BY <1>1, <1>2, <2>2 DEF Ahead
<1>6. CASE \E m \in Node \ Elements(s) : Trades(Node, s, s2, n, m)
  <2>1. PICK new \in Node \ Elements(s) : Trades(Node, s, s2, n, new)
    BY <1>6
  <2>2. n \notin Elements(s2)
    BY <1>2, <2>1, TradesAtPlace
  <2>3. \A m \in (T \cap Elements(s2)) \cup {c} : Precedes(s2, c, m)
    <3> SUFFICES ASSUME NEW m \in (T \cap Elements(s2)) \cup {c} PROVE Precedes(s2, c, m)
      OBVIOUS
    <3>1. m # n /\ Precedes(s, c, m)
      BY <1>3, <2>2
    <3>2. QED
      BY <1>2, <2>1, <3>1, TradesKeepsPlaces
  <2>4. QED
    BY <1>1, <1>2, <2>3 DEF Ahead
<1>7. QED
  BY <1>2, <1>4, <1>5, <1>6

\* The same of the node that comes in.
LEMMA AheadLinked ==
  ASSUME ListInv, IInv', NEW c, NEW T, Ahead(List, c, T), Link
  PROVE  Ahead(List', c, T \cap InTree')
<1>1. IInv
  BY DEF ListInv
<1>2. Precedes(List, c, c)
  BY DEF Ahead
<1>3. parent # NULL
  <2>1. SUFFICES ASSUME parent = NULL PROVE FALSE
    OBVIOUS
  <2>2. List = <<>>
    BY <1>1, <2>1, LinkAlone
  <2>3. QED
    BY <1>2, <2>2 DEF Precedes
<1>4. node \in Node /\ node \notin Elements(List) /\ parent \in Members(Par)
  BY <1>1, <1>3, LinkedNow, ListNow DEF Link, IInv, TypeOK, Locals, NodeOrNil
<1>5. PICK A, C : PlacedAt(Node, List, Walk(rb_child)[parent], A, C)
  BY <1>1, <1>4, MemoryIsWhole, PlacedInList DEF List
<1>6. PutsNext(Node, List, List', node, A, Walk(rb_child)[parent], C, dir)
  BY <1>1, <1>3, <1>5, LinkPuts
<1>7. \A m \in (T \cap InTree') \cup {c} : Precedes(List', c, m)
  <2> SUFFICES ASSUME NEW m \in (T \cap InTree') \cup {c} PROVE Precedes(List', c, m)
    OBVIOUS
  <2>1. Precedes(List, c, m) /\ m # node /\ c # node
    BY <1>2, <1>4, PrecedesIn DEF Ahead
  <2>2. QED
    BY <1>4, <1>6, <2>1, PutsKeepsPlaces
<1>8. QED
  BY <1>7 DEF Ahead

\* The node of the loop and the nodes it is due to visit are linked.
LEMMA LoopInTree ==
  ASSUME IInv, LoopInv, ~teardown
  PROVE  cursor # NULL => cursor \in Members(Par) /\ cursor \in Node /\ due \subseteq InTree
<1>1. SUFFICES ASSUME cursor # NULL
               PROVE  cursor \in Members(Par) /\ cursor \in Node /\ due \subseteq InTree
  OBVIOUS
<1>2. \A m \in due \cup {cursor} : m \in Elements(List)
  BY <1>1, PrecedesIn DEF LoopInv, Ahead
<1>3. QED
  BY <1>2, LinkedInList DEF Members

\* The caller calls the cached operations alone.
LEMMA IterStepCached ==
  ASSUME IInv, LoopInv, [IterNext]_iterVars
  PROVE  [CachedNext]_cachedVars
<1>1. CASE IterStart \/ IterStep \/ TeardownBegin \/ TeardownStep \/ UNCHANGED iterVars
  BY <1>1 DEF IterStart, IterStep, TeardownBegin, TeardownStep, iterVars
<1>2. CASE IterErase
  <2>1. EraseCached(cursor) /\ cursor \in Node
    BY <1>2, LoopInTree DEF IterErase
  <2>2. QED
    BY <2>1 DEF CachedNext
<1>3. CASE Body
  BY <1>3 DEF Body, CachedNext
<1>4. QED
  BY <1>1, <1>2, <1>3 DEF IterNext

\* The loop starts at the first node and goes on along the list.
LEMMA IterStartKeeps ==
  ASSUME IInv, IterStart
  PROVE  LoopInv'
<1>1. /\ rb_child' = rb_child /\ rb_node' = rb_node /\ pc' = "idle"
      /\ cursor' = rb_first /\ due' = InTree
  BY DEF IterStart, Resting, cachedVars, vars, tree
<1>2. PICK s \in Seq(Node) : s = List /\ List' = s
  BY <1>1, ListNow, SameTree
<1>3. cursor' = FirstOf(s, NULL)
  BY <1>1, <1>2, NeighboursNow, ListNow DEF NeighboursAgree, FirstOf, list
<1>4. due' = Elements(s)
  BY <1>1, <1>2, LinkedInList
<1>5. CASE s = <<>>
  BY <1>3, <1>4, <1>5 DEF LoopInv, FirstOf, Elements
<1>6. CASE s # <<>>
  <2>1. FirstOf(s, NULL) \in Elements(s)
    <3>1. Len(s) \in Nat \ {0} /\ DOMAIN s = 1..Len(s)
      BY <1>6, EmptySeq, LenProperties
    <3>2. QED
      BY <1>6, <3>1 DEF FirstOf, Elements
  <2>2. \A b \in Elements(s) : Precedes(s, FirstOf(s, NULL), b)
    BY FirstPrecedes
  <2>3. Ahead(List', cursor', due')
    BY <1>2, <1>3, <1>4, <2>1, <2>2 DEF Ahead
  <2>4. Ahead(List, cursor, due)'
    BY <2>3 DEF Ahead, Precedes
  <2>5. cursor' # NULL
    BY <1>2, <1>3, <2>1, LinkedInList
  <2>6. QED
    BY <1>1, <2>4, <2>5 DEF LoopInv
<1>7. QED
  BY <1>5, <1>6

\* A step of the loop, after which the tree may lose the node it stood on.
LEMMA IterStepKeeps ==
  ASSUME ListInv, IInv', LoopInv, IterStep \/ IterErase
  PROVE  LoopInv'
<1>1. /\ IInv /\ cursor # NULL /\ ~teardown
      /\ cursor' = rb_next(cursor) /\ due' = due \ {cursor}
  BY DEF ListInv, IterStep, IterErase
<1>2. Ahead(List, cursor, due)
  BY <1>1 DEF LoopInv
<1>3. PICK c, v, T : c = cursor /\ v = rb_next(cursor) /\ T = due \ {cursor}
  OBVIOUS
<1>4. /\ v # c
      /\ IF v = NULL THEN T = {} ELSE Ahead(List, v, T) /\ c \notin T \cup {v}
  BY <1>1, <1>2, <1>3, NextAhead
<1>5. v # NULL => Ahead(List', v, T)
  <2>1. SUFFICES ASSUME v # NULL PROVE Ahead(List', v, T)
    OBVIOUS
  <2>2. CASE IterStep \/ EraseTwoChildren(cursor)
    <3>1. rb_child' = rb_child /\ rb_node' = rb_node
      BY <2>2 DEF IterStep, EraseTwoChildren, cachedVars, vars, tree
    <3>2. QED
      BY <1>4, <2>1, <3>1, SameTree
  <2>3. CASE EraseOneChild(cursor)
    <3>1. Removes(Node, List, List', c) /\ c \in Node
      BY <1>1, <1>3, <2>3, EraseOneChildRemoves, LoopInTree
    <3>2. \A m \in T \cup {v} : m # c /\ Precedes(List, v, m)
      BY <1>4, <2>1 DEF Ahead
    <3>3. \A m \in T \cup {v} : Precedes(List', v, m)
      BY <1>4, <3>1, <3>2, RemovesKeepsPlaces
    <3>4. QED
      BY <3>3 DEF Ahead
  <2>4. QED
    BY <2>2, <2>3 DEF IterErase, EraseCached
<1>6. pc' = "successor" => node' = c
  BY <1>3 DEF IterStep, IterErase, EraseCached, EraseTwoChildren, EraseOneChild, Rebalance, Return,
       cachedVars, vars
<1>7. cursor' = v /\ due' = T
  BY <1>1, <1>3
<1>8. cursor' # NULL => Ahead(List, cursor, due)'
  BY <1>5, <1>7 DEF Ahead, Precedes
<1>9. QED
  BY <1>4, <1>6, <1>7, <1>8 DEF LoopInv

\* What the body of the loop does to other nodes.
LEMMA BodyKeeps ==
  ASSUME ListInv, CacheInv, IInv', LoopInv, Body
  PROVE  LoopInv'
<1>1. /\ IInv /\ ~teardown /\ cursor' = cursor /\ due' = due \cap InTree'
  BY DEF ListInv, Body
<1>2. CASE cursor = NULL
  BY <1>1, <1>2 DEF LoopInv
<1>3. CASE cursor # NULL
  <2>1. Ahead(List, cursor, due) /\ (pc = "successor" => node # cursor)
    BY <1>1, <1>3 DEF LoopInv
  <2>2. PICK c : c = cursor
    OBVIOUS
  <2>3. \/ \E n \in Node \ {c} : EraseOneChild(n) \/ \E m \in Node : Replace(n, m)
        \/ Link
        \/ pc = "successor" /\ EraseSuccessor
        \/ InsertRotate \/ EraseRedSibling \/ EraseRotate
        \/ rb_child' = rb_child /\ rb_node' = rb_node
    <3>1. ASSUME NEW n \in Node \ {c}, AddCached(n) \/ EraseTwoChildren(n)
          PROVE  rb_child' = rb_child /\ rb_node' = rb_node
      BY <3>1 DEF AddCached, Add, StartDescent, EraseTwoChildren, tree
    <3>2. CASE DescendCached
      BY <3>2 DEF DescendCached, Descend, tree
    <3>3. ASSUME RebalanceCached,
                 ~(InsertRotate \/ EraseRedSibling \/ EraseRotate \/ EraseSuccessor)
          PROVE  rb_child' = rb_child /\ rb_node' = rb_node
      BY <3>3 DEF RebalanceCached, Run, FindAddHit, Descend, Link, InsertRoot, InsertDone,
           InsertFlip, SuccessorStep, EraseFlip, tree
    <3>4. EraseSuccessor => pc = "successor"
      BY DEF EraseSuccessor
    <3>5. QED
      BY <2>2, <3>1, <3>2, <3>3, <3>4 DEF Body, EraseCached, ReplaceCached, LinkCached
  <2>4. pc' = "successor" => node' # cursor
    <3>1. ASSUME NEW n \in Node \ {c}, EraseTwoChildren(n) PROVE node' # cursor
      BY <2>2, <3>1 DEF EraseTwoChildren
    <3>2. ASSUME NEW n \in Node \ {c},
                 AddCached(n) \/ EraseOneChild(n) \/ \E m \in Node : ReplaceCached(n, m)
          PROVE  pc' # "successor"
      BY <3>2 DEF AddCached, Add, StartDescent, EraseOneChild, Rebalance, Return, ReplaceCached,
           Replace
    <3>3. ASSUME DescendCached \/ LinkCached PROVE pc' # "successor"
      BY <3>3 DEF DescendCached, Descend, LinkCached, Link, CacheInv, CacheNow, CacheAt
    <3>4. ASSUME RebalanceCached PROVE pc' = "successor" => pc = "successor" /\ node' = node
      BY <3>4 DEF RebalanceCached, Run, FindAddHit, Descend, Link, InsertRoot, InsertDone,
           InsertFlip, InsertRotate, SuccessorStep, EraseSuccessor, EraseFlip, EraseRedSibling,
           EraseRotate, Rebalance, Return
    <3>5. QED
      BY <2>1, <2>2, <3>1, <3>2, <3>3, <3>4 DEF Body, EraseCached
  <2>5. Ahead(List', c, due \cap InTree')
    <3>1. Ahead(List, c, due) /\ c \in Node
      BY <1>1, <1>3, <2>1, <2>2, LoopInTree
    <3>2. ASSUME NEW n \in Node \ {c}, EraseOneChild(n) PROVE Ahead(List', c, due \cap InTree')
      <4>1. Removes(Node, List, List', n)
        BY <1>1, <3>2, EraseOneChildRemoves
      <4>2. QED
        BY <3>1, <4>1, AheadKept
    <3>3. ASSUME NEW n \in Node \ {c}, NEW m \in Node, Replace(n, m)
          PROVE  Ahead(List', c, due \cap InTree')
      <4>1. Trades(Node, List, List', n, m)
        BY <1>1, <3>3, ReplaceTrades
      <4>2. m \notin Elements(List)
        BY <1>1, <3>3, LinkedNow, ListNow DEF Replace
      <4>3. \E new \in Node \ Elements(List) : Trades(Node, List, List', n, new)
        BY <4>1, <4>2
      <4>4. QED
        BY <3>1, <4>3, AheadKept
    <3>4. CASE Link
      BY <3>1, <3>4, AheadLinked
    <3>5. CASE pc = "successor" /\ EraseSuccessor
      <4>1. node \in Node /\ Removes(Node, List, List', node) /\ node # c
        BY <2>1, <2>2, <3>5, EraseSuccessorRemoves
      <4>2. QED
        BY <3>1, <4>1, AheadKept
    <3>6. ASSUME List' = List PROVE Ahead(List', c, due \cap InTree')
      BY <3>1, <3>6 DEF Ahead
    <3>7. CASE InsertRotate \/ EraseRedSibling \/ EraseRotate
      <4>1. TreeTurned
        BY <1>1, <3>7, InsertRotateKeepsIInv, EraseRedSiblingKeepsIInv, EraseRotateKeepsIInv
      <4>2. QED
        BY <1>1, <3>6, <4>1, TurnSameList
    <3>8. CASE rb_child' = rb_child /\ rb_node' = rb_node
      BY <3>6, <3>8, SameTree
    <3>9. QED
      BY <2>3, <3>2, <3>3, <3>4, <3>5, <3>7, <3>8
  <2>6. Ahead(List, cursor, due)'
    BY <1>1, <2>2, <2>5 DEF Ahead, Precedes
  <2>7. QED
    BY <1>1, <1>3, <2>4, <2>6 DEF LoopInv
<1>4. QED
  BY <1>2, <1>3

\* One step of the caller.
LEMMA IterNextKeeps ==
  ASSUME ListInv, CacheInv, LoopInv, [IterNext]_iterVars
  PROVE  ListInv' /\ CacheInv' /\ LoopInv'
<1>1. ListInv' /\ CacheInv' /\ IInv'
  BY IterStepCached, CachedNextKeeps DEF ListInv
<1>2. CASE IterStart
  BY <1>1, <1>2, IterStartKeeps DEF ListInv
<1>3. CASE IterStep \/ IterErase
  BY <1>1, <1>3, IterStepKeeps
<1>4. CASE Body
  BY <1>1, <1>4, BodyKeeps
<1>5. CASE TeardownBegin \/ TeardownStep
  <2>1. LoopInv'
    BY <1>5 DEF TeardownBegin, TeardownStep, LoopInv
  <2>2. QED
    BY <1>1, <2>1
<1>6. CASE UNCHANGED iterVars
  <2>1. /\ rb_child' = rb_child /\ rb_node' = rb_node /\ pc' = pc /\ node' = node
        /\ cursor' = cursor /\ due' = due /\ teardown' = teardown
    BY <1>6 DEF iterVars, loop, cachedVars, vars, tree, locals
  <2>2. LoopInv'
    BY <2>1 DEF LoopInv, Ahead, Precedes, List, Walk
  <2>3. QED
    BY <1>1, <2>2
<1>7. QED
  BY <1>2, <1>3, <1>4, <1>5, <1>6 DEF IterNext

\* Every state of the caller is one of the invariant.
LEMMA IterInitHolds == ASSUME IterInit PROVE ListInv /\ CacheInv /\ LoopInv
<1>1. CachedInit
  BY DEF IterInit
<1>2. ListInv /\ CacheInv
  BY <1>1, CachedInitHolds
<1>3. QED
  BY <1>2 DEF IterInit, LoopInv

\* The position in a list without repetitions.
LEMMA PositionOf ==
  ASSUME IInv, NEW at \in DOMAIN List
  PROVE  Position(List[at]) = at
<1>1. list = List /\ Distinct(List)
  BY ListNow DEF list
<1>2. \A k \in DOMAIN List : List[k] = List[at] => k = at
  BY <1>1 DEF Distinct
<1>3. QED
  BY <1>1, <1>2 DEF Position

\* The nodes of the loop are not behind it.
LEMMA NoneBehind ==
  ASSUME IInv, Ahead(List, cursor, due), NEW n \in due
  PROVE  Position(cursor) =< Position(n)
<1>1. PICK at \in DOMAIN List, k \in DOMAIN List : at =< k /\ List[at] = cursor /\ List[k] = n
  BY DEF Ahead, Precedes
<1>2. Position(cursor) = at /\ Position(n) = k
  BY <1>1, PositionOf
<1>3. QED
  BY <1>1, <1>2
-----------------------------------------------------------------------------
(* The loop that takes the tree down. *)

\* It holds what is left of the postorder, and has freed nothing of that.
TeardownInv ==
  IF ~teardown THEN freed = {}
  ELSE /\ pc = "idle"
       /\ freed \cap due = {}
       /\ IF cursor = NULL THEN due = {}
          ELSE Remains(rb_child, Par, Members(Par), Walk(rb_child), NULL, cursor, due)

\* The loop starts with the whole tree left.
LEMMA TeardownBeginKeeps ==
  ASSUME IInv, TeardownInv, TeardownBegin
  PROVE  TeardownInv'
<1>1. /\ rb_child' = rb_child /\ rb_parent_color' = rb_parent_color
      /\ pc' = "idle" /\ teardown' /\ freed' = {}
      /\ cursor' = rb_left_deepest_node(rb_node) /\ due' = InTree /\ rb_node # NULL
  BY DEF TeardownBegin, Resting, TeardownInv, cachedVars, vars, tree, rb_first_postorder
<1>2. PICK h : /\ Shaped(rb_child, Par, Members(Par), NULL, h, Max)
               /\ Rooted(rb_child, Par, rb_node, Members(Par), NULL)
               /\ IsInOrder(Walk(rb_child), rb_child, Members(Par), NULL)
  BY TreeHere
<1>3. rb_node \in Members(Par)
  BY <1>1, <1>2 DEF Rooted
<1>4. Foremost(rb_child, Walk(rb_child), NULL, rb_node, rb_left_deepest_node(rb_node))
  BY <1>3, LeftDeepestHere
<1>5. Remains(rb_child, Par, Members(Par), Walk(rb_child), NULL,
              rb_left_deepest_node(rb_node), Members(Par))
  BY <1>2, <1>3, <1>4, MaxType, PostorderStarts
<1>6. due' = Members(Par)
  BY <1>1, LinkedInList
<1>7. Par' = Par
  BY <1>1 DEF Par, rb_parent
<1>8. Remains(rb_child, Par, Members(Par), Walk(rb_child), NULL, cursor, due)'
  BY <1>1, <1>5, <1>6, <1>7 DEF Remains, Unspoilt, Members, Walk, Nodes, Elements
<1>9. cursor' # NULL
  BY <1>1, <1>2, <1>5 DEF Remains, Shaped, Below
<1>10. QED
  BY <1>1, <1>8, <1>9 DEF TeardownInv

\* The body frees the node that the loop has left.
LEMMA TeardownStepKeeps ==
  ASSUME IInv, TeardownInv, TeardownStep
  PROVE  TeardownInv'
<1>1. /\ rb_child' = rb_child /\ rb_parent_color' = rb_parent_color
      /\ pc' = pc /\ teardown /\ teardown' /\ cursor # NULL
      /\ freed' = freed \cup {cursor} /\ due' = due \ {cursor}
      /\ cursor' = rb_next_postorder(cursor)
  BY DEF TeardownStep, cachedVars, vars, tree
<1>2. /\ pc = "idle" /\ freed \cap due = {}
      /\ Remains(rb_child, Par, Members(Par), Walk(rb_child), NULL, cursor, due)
  BY <1>1 DEF TeardownInv
<1>3. IF cursor' = NULL THEN due' = {}
      ELSE Remains(rb_child, Par, Members(Par), Walk(rb_child), NULL, cursor', due')
  BY <1>1, <1>2, NextInPostorder
<1>4. Par' = Par
  BY <1>1 DEF Par, rb_parent
<1>5. cursor' # NULL
        => Remains(rb_child, Par, Members(Par), Walk(rb_child), NULL, cursor, due)'
  BY <1>1, <1>3, <1>4 DEF Remains, Unspoilt, Members, Walk, Nodes, Elements
<1>6. freed' \cap due' = {}
  BY <1>1, <1>2
<1>7. QED
  BY <1>1, <1>2, <1>3, <1>5, <1>6 DEF TeardownInv

\* What the caller does before leaves it alone.
LEMMA TeardownInvKept ==
  ASSUME IInv, TeardownInv, [IterNext]_iterVars
  PROVE  TeardownInv'
<1>1. CASE IterStart \/ IterStep \/ IterErase \/ Body
  <2>1. ~teardown /\ teardown' = teardown /\ freed' = freed
    BY <1>1 DEF IterStart, Resting, IterStep, IterErase, Body
  <2>2. QED
    BY <2>1 DEF TeardownInv
<1>2. CASE UNCHANGED iterVars
  <2>1. /\ rb_child' = rb_child /\ rb_parent_color' = rb_parent_color /\ pc' = pc
        /\ cursor' = cursor /\ due' = due /\ teardown' = teardown /\ freed' = freed
    BY <1>2 DEF iterVars, loop, cachedVars, vars, tree
  <2>2. Par' = Par
    BY <2>1 DEF Par, rb_parent
  <2>3. QED
    BY <2>1, <2>2 DEF TeardownInv, Remains, Unspoilt, Members, Walk, Nodes, Elements
<1>3. QED
  BY <1>1, <1>2, TeardownBeginKeeps, TeardownStepKeeps DEF IterNext

\* The nodes that rb_next_postorder reads are still due.
LEMMA ReadsAreDue ==
  ASSUME IInv, Remains(rb_child, Par, Members(Par), Walk(rb_child), NULL, cursor, due)
  PROVE  Reads(cursor) \subseteq due
<1>1. cursor \in Node /\ cursor \in due
  BY DEF Remains, Members
<1>2. PICK p : p = Par[cursor] /\ p = rb_parent(cursor)
  BY <1>1 DEF Par
<1>3. p # NULL => p \in due
  BY <1>1, <1>2 DEF Remains, Unspoilt
<1>4. ASSUME p # NULL, rb_next_postorder(cursor) # p
      PROVE  Subtree(rb_child[p]["right"]) \subseteq due
  <2>1. rb_child[p]["left"] = cursor
    BY <1>2, <1>4 DEF rb_next_postorder
  <2>2. Nodes(Walk(rb_child), rb_child[p]["right"]) \subseteq due
    BY <1>1, <1>3, <1>4, <2>1 DEF Remains, Unspoilt
  <2>3. InOrder(rb_child, rb_child[p]["right"]) = Walk(rb_child)[rb_child[p]["right"]]
    BY WalksOfShape DEF Walk
  <2>4. QED
    BY <2>2, <2>3 DEF Subtree, Nodes, Elements
<1>5. QED
  BY <1>1, <1>2, <1>3, <1>4 DEF Reads

\* The invariant of the caller.
IterInv == ListInv /\ CacheInv /\ LoopInv /\ TeardownInv

\* ... and holds at every moment.
LEMMA IterInvAlways == IterSpec => []IterInv
<1>1. IterInit => IterInv
  BY IterInitHolds DEF IterInit, IterInv, TeardownInv
<1>2. IterInv /\ [IterNext]_iterVars => IterInv'
  <2> SUFFICES ASSUME IterInv, [IterNext]_iterVars PROVE IterInv'
    OBVIOUS
  <2>1. ListInv /\ CacheInv /\ LoopInv /\ TeardownInv /\ IInv
    BY DEF IterInv, ListInv
  <2>2. ListInv' /\ CacheInv' /\ LoopInv'
    BY <2>1, IterNextKeeps
  <2>3. TeardownInv'
    BY <2>1, TeardownInvKept
  <2>4. QED
    BY <2>2, <2>3 DEF IterInv
<1>3. QED
  BY <1>1, <1>2, PTL DEF IterSpec

\* The caller that walks the tree and changes it on its way implements the cached tree,
\* so that all that is proved of the cached tree holds under it.  It needs that the loop
\* never stands on a node that has left the tree: rb_erase_cached(pos) is only called
\* with a linked node.
THEOREM IterImplementsCached == IterSpec => CachedSpec
<1>1. IterInit => CachedInit
  BY DEF IterInit
<1>2. IterInv /\ [IterNext]_iterVars => [CachedNext]_cachedVars
  BY IterStepCached DEF IterInv, ListInv
<1>3. QED
  BY <1>1, <1>2, IterInvAlways, PTL DEF IterSpec, CachedSpec

\* rb_first, rb_last, rb_next and rb_prev are the neighbours in the sorted list, in a
\* tree of any size and in the middle of rb_insert_color and rb_erase too.
THEOREM NeighboursAlwaysAgree == IterSpec => []NeighboursAgree
<1>1. IterInv => NeighboursAgree
  BY NeighboursNow DEF IterInv, ListInv
<1>2. QED
  BY <1>1, IterInvAlways, PTL

\* A loop of rb_first and rb_next passes by no node that stays in the tree, whatever is
\* added, erased, replaced and rotated on its way, and the postorder loop ends with no node
\* left: in a tree of any size.
THEOREM NothingIsPassedBy == IterSpec => []NothingPassedBy
<1>1. IterInv => NothingPassedBy
  <2> SUFFICES ASSUME IterInv PROVE NothingPassedBy
    OBVIOUS
  <2>1. IInv /\ LoopInv /\ TeardownInv
    BY DEF IterInv, ListInv
  <2>2. due # {} => cursor # NULL
    BY <2>1 DEF LoopInv, TeardownInv
  <2>3. ASSUME ~teardown, NEW n \in due PROVE Position(cursor) =< Position(n)
    <3>1. Ahead(List, cursor, due)
      BY <2>1, <2>2, <2>3 DEF LoopInv
    <3>2. QED
      BY <2>1, <3>1, NoneBehind
  <2>4. QED
    BY <2>2, <2>3 DEF NothingPassedBy
<1>2. QED
  BY <1>1, IterInvAlways, PTL

\* The postorder loop reads no node that its body has freed (rbtree.h:127), and never hands
\* one to the body twice.
THEOREM FreedMemoryIsNotRead == IterSpec => []NoUseAfterFree
<1>1. IterInv => NoUseAfterFree
  <2> SUFFICES ASSUME IterInv, teardown, cursor # NULL PROVE Reads(cursor) \cap freed = {}
    BY DEF NoUseAfterFree
  <2>1. /\ IInv /\ freed \cap due = {}
        /\ Remains(rb_child, Par, Members(Par), Walk(rb_child), NULL, cursor, due)
    BY DEF IterInv, ListInv, TeardownInv
  <2>2. QED
    BY <2>1, ReadsAreDue
<1>2. QED
  BY <1>1, IterInvAlways, PTL
-----------------------------------------------------------------------------
(* The lookups. *)

\* The tree of the invariant, with the order of its keys.
LEMMA SortedTreeHere ==
  ASSUME ListInv
  PROVE  \E h : /\ Shaped(rb_child, Par, Members(Par), NULL, h, Max)
                /\ Rooted(rb_child, Par, rb_node, Members(Par), NULL)
                /\ IsInOrder(Walk(rb_child), rb_child, Members(Par), NULL)
                /\ \A n \in Members(Par) : Key[n] \in Int /\ Ordered(Key, Walk(rb_child)[n])
<1>1. IInv /\ Ordered(Key, List)
  BY DEF ListInv
<1>2. PICK h : /\ Shaped(rb_child, Par, Members(Par), NULL, h, Max)
               /\ Rooted(rb_child, Par, rb_node, Members(Par), NULL)
               /\ IsInOrder(Walk(rb_child), rb_child, Members(Par), NULL)
  BY <1>1, TreeHere
<1>3. \A n \in Members(Par) : Key[n] \in Int
  BY NodeAssumption DEF Members
<1>4. PICK w : w = Walk(rb_child)
  OBVIOUS
<1>5. \A n \in Members(Par) : Ordered(Key, w[n])
  <2>1. Ordered(Key, w[rb_node]) /\ IsInOrder(w, rb_child, Members(Par), NULL)
    BY <1>1, <1>2, <1>4 DEF List
  <2>2. QED
    BY <1>2, <1>3, <2>1, MaxType, OrderedBelow
<1>6. QED
  BY <1>2, <1>3, <1>4, <1>5

\* The turns of rb_find and of rb_find_first.
FindTurn(w, k, n, key) ==
  IF k = 0 \/ n = NULL \/ Key[n] = key THEN n
  ELSE w[k - 1][rb_child[n][IF key < Key[n] THEN "left" ELSE "right"]]

FindFirstTurn(w, k, n, m, key) ==
  IF k = 0 \/ n = NULL THEN m
  ELSE IF key =< Key[n]
       THEN w[k - 1][rb_child[n]["left"]][IF key = Key[n] THEN n ELSE m]
       ELSE w[k - 1][rb_child[n]["right"]][m]

LEMMA FindTurnsHere ==
  ASSUME IInv, NEW key \in Int
  PROVE  \E w : /\ SearchTurns(w, rb_child, Members(Par), NULL, Max, Key, key)
                /\ rb_find(key) = w[Max][rb_node]
<1> DEFINE stop == [n \in NodeOrNil |-> n = NULL \/ Key[n] = key]
           out == [n \in NodeOrNil |-> n]
           go == [n \in NodeOrNil |-> rb_child[n][IF key < Key[n] THEN "left" ELSE "right"]]
           OneRound(w) == [k \in Levels |-> [n \in NodeOrNil |-> FindTurn(w, k, n, key)]]
<1>2. PICK v : v = ChaseTurns(v, NodeOrNil, stop, out, go, Max)
  <2> HIDE DEF stop, out, go
  <2>1. QED
    BY MaxType, ChaseSolution
<1>3. \A w : ChaseTurns(w, NodeOrNil, stop, out, go, Max) = OneRound(w)
  BY DEF ChaseTurns, ChaseTurn, FindTurn, Levels, Max
<1>4. PICK w : w = CHOOSE u : u = OneRound(u)
  OBVIOUS
<1>5. w = OneRound(w)
  <2>1. v = OneRound(v)
    BY <1>2, <1>3
  <2> HIDE DEF OneRound
  <2>2. QED
    BY <1>4, <2>1
<1>6. rb_find(key) = w[Max][rb_node]
  BY <1>4 DEF rb_find, FindTurn, Max
<1>7. \A k \in 0..Max, n \in NodeOrNil : w[k][n] = FindTurn(w, k, n, key)
  <2> HIDE DEF stop, out, go
  <2>1. Levels = 0..Max
    BY DEF Levels, Max
  <2>2. w = [k \in 0..Max |-> [n \in NodeOrNil |-> FindTurn(w, k, n, key)]]
    BY <1>5, <2>1
  <2>3. TAKE k \in 0..Max, n \in NodeOrNil
  <2>4. w[k] = [m \in NodeOrNil |-> FindTurn(w, k, m, key)]
    BY ONLY <2>2
  <2>5. QED
    BY ONLY <2>4
<1>8. \A k \in 0..Max : w[k][NULL] = NULL
  BY <1>7 DEF FindTurn, NodeOrNil
<1>9. ASSUME NEW k \in 1..Max, NEW n \in Members(Par)
      PROVE  w[k][n] = IF Key[n] = key THEN n
                       ELSE w[k - 1][rb_child[n][IF key < Key[n] THEN "left" ELSE "right"]]
  <2>1. k \in 0..Max /\ k # 0 /\ n \in NodeOrNil /\ n # NULL
    BY MaxType, NodeAssumption DEF Members, NodeOrNil
  <2>2. QED
    BY <1>7, <2>1, Zenon DEF FindTurn
<1>10. QED
  BY <1>6, <1>8, <1>9 DEF SearchTurns

\* rb_find finds a node with the key, if there is one.
LEMMA FindHere ==
  ASSUME ListInv, NEW key \in Int
  PROVE  Finds(Walk(rb_child), rb_node, {m \in Members(Par) : Key[m] = key}, rb_find(key), NULL)
<1>1. IInv
  BY DEF ListInv
<1>2. PICK h : /\ Shaped(rb_child, Par, Members(Par), NULL, h, Max)
               /\ Rooted(rb_child, Par, rb_node, Members(Par), NULL)
               /\ IsInOrder(Walk(rb_child), rb_child, Members(Par), NULL)
               /\ \A n \in Members(Par) : Key[n] \in Int /\ Ordered(Key, Walk(rb_child)[n])
  BY SortedTreeHere
<1>3. PICK w : /\ SearchTurns(w, rb_child, Members(Par), NULL, Max, Key, key)
               /\ rb_find(key) = w[Max][rb_node]
  BY <1>1, FindTurnsHere
<1>4. \A n \in Members(Par) \cup {NULL} :
        Finds(Walk(rb_child), n, {m \in Members(Par) : Key[m] = key}, w[Max][n], NULL)
  BY <1>2, <1>3, MaxType, SearchFinds
<1>5. QED
  BY <1>2, <1>3, <1>4 DEF Rooted

LEMMA FirstTurnsHere ==
  ASSUME IInv, NEW key \in Int
  PROVE  \E w : /\ FirstTurns(w, rb_child, Members(Par), NULL, Max, Key, key)
                /\ rb_find_first(key) = w[Max][rb_node][NULL]
<1> DEFINE stop == [n \in NodeOrNil |-> [m \in NodeOrNil |-> n = NULL]]
           out == [n \in NodeOrNil |-> [m \in NodeOrNil |-> m]]
           go == [n \in NodeOrNil |-> [m \in NodeOrNil |->
                    rb_child[n][IF key =< Key[n] THEN "left" ELSE "right"]]]
           to == [n \in NodeOrNil |-> [m \in NodeOrNil |->
                    IF key = Key[n] THEN n ELSE m]]
           OneRound(w) == [k \in Levels |-> [n \in NodeOrNil |-> [m \in NodeOrNil |->
                          FindFirstTurn(w, k, n, m, key)]]]
<1>1. Carrying(NodeOrNil, NodeOrNil, NodeOrNil, stop, out, go, to)
  <2>1. \A n \in Node, d \in Side : rb_child[n][d] \in NodeOrNil
    BY DEF IInv, TypeOK
  <2>2. QED
    BY <2>1 DEF Carrying, NodeOrNil, Side
<1>2. PICK v : v = CarryTurns(v, NodeOrNil, NodeOrNil, stop, out, go, to, Max)
  <2> HIDE DEF stop, out, go, to
  <2>1. QED
    BY <1>1, MaxType, CarrySolution
<1>3. v = OneRound(v)
  <2>1. \A k \in 0..Max, n \in NodeOrNil, m \in NodeOrNil :
          CarryTurn(v, k, n, m, stop, out, go, to) = FindFirstTurn(v, k, n, m, key)
    <3> TAKE k \in 0..Max, n \in NodeOrNil, m \in NodeOrNil
    <3>1. CASE k = 0 \/ n = NULL
      BY <3>1 DEF CarryTurn, FindFirstTurn
    <3>2. CASE ~(k = 0 \/ n = NULL)
      <4>1. n \in Node /\ Key[n] \in Int
        BY <3>2, NodeAssumption DEF NodeOrNil
      <4>2. CASE key =< Key[n]
        BY <3>2, <4>2 DEF CarryTurn, FindFirstTurn
      <4>3. CASE ~(key =< Key[n])
        <5>1. ~stop[n][m] /\ go[n][m] = rb_child[n]["right"]
          BY <3>2, <4>3
        <5>2. key # Key[n]
          BY <4>1, <4>3
        <5>3. to[n][m] = m
          BY <5>2
        <5> HIDE DEF stop, go, to
        <5>4. QED
          BY <3>2, <4>3, <5>1, <5>3 DEF CarryTurn, FindFirstTurn
      <4>4. QED
        BY <4>2, <4>3
    <3>3. QED
      BY <3>1, <3>2
  <2> HIDE DEF stop, out, go, to
  <2>2. Levels = 0..Max
    BY DEF Levels, Max
  <2>3. v = [k \in 0..Max |-> [n \in NodeOrNil |-> [m \in NodeOrNil |->
               CarryTurn(v, k, n, m, stop, out, go, to)]]]
    BY <1>2 DEF CarryTurns
  <2>4. ASSUME NEW k \in 0..Max
        PROVE  [n \in NodeOrNil |-> [m \in NodeOrNil |-> CarryTurn(v, k, n, m, stop, out, go, to)]]
                 = [n \in NodeOrNil |-> [m \in NodeOrNil |-> FindFirstTurn(v, k, n, m, key)]]
    <3>1. ASSUME NEW n \in NodeOrNil
          PROVE  [m \in NodeOrNil |-> CarryTurn(v, k, n, m, stop, out, go, to)]
                   = [m \in NodeOrNil |-> FindFirstTurn(v, k, n, m, key)]
      BY <2>1
    <3>2. QED
      BY <3>1
  <2>5. v = [k \in 0..Max |-> [n \in NodeOrNil |-> [m \in NodeOrNil |->
               FindFirstTurn(v, k, n, m, key)]]]
    BY <2>3, <2>4
  <2>6. QED
    BY <2>2, <2>5
<1>4. PICK w : w = CHOOSE u : u = OneRound(u)
  OBVIOUS
<1>5. w = OneRound(w)
  <2> HIDE DEF OneRound
  <2>1. QED
    BY <1>3, <1>4
<1>6. rb_find_first(key) = w[Max][rb_node][NULL]
  BY <1>4 DEF rb_find_first, FindFirstTurn, Max
<1>7. \A k \in 0..Max, n \in NodeOrNil, m \in NodeOrNil :
        w[k][n][m] = FindFirstTurn(w, k, n, m, key)
  <2> HIDE DEF stop, out, go, to
  <2>1. Levels = 0..Max
    BY DEF Levels, Max
  <2>2. w = [k \in 0..Max |-> [n \in NodeOrNil |-> [m \in NodeOrNil |->
               FindFirstTurn(w, k, n, m, key)]]]
    BY <1>5, <2>1
  <2>3. TAKE k \in 0..Max, n \in NodeOrNil, m \in NodeOrNil
  <2>4. w[k] = [p \in NodeOrNil |-> [q \in NodeOrNil |-> FindFirstTurn(w, k, p, q, key)]]
    BY ONLY <2>2
  <2>5. w[k][n] = [q \in NodeOrNil |-> FindFirstTurn(w, k, n, q, key)]
    BY ONLY <2>4
  <2>6. QED
    BY ONLY <2>5
<1>8. Members(Par) \cup {NULL} \subseteq NodeOrNil
  BY DEF Members, NodeOrNil
<1>9. \A k \in 0..Max, m \in Members(Par) \cup {NULL} : w[k][NULL][m] = m
  BY <1>7, <1>8 DEF FindFirstTurn
<1>10. ASSUME NEW k \in 1..Max, NEW n \in Members(Par), NEW m \in Members(Par) \cup {NULL}
       PROVE  w[k][n][m] = IF key =< Key[n]
                           THEN w[k - 1][rb_child[n]["left"]][IF Key[n] = key THEN n ELSE m]
                           ELSE w[k - 1][rb_child[n]["right"]][m]
  <2>1. k \in 0..Max /\ k # 0 /\ n \in NodeOrNil /\ n # NULL /\ m \in NodeOrNil
    BY <1>8, MaxType, NodeAssumption DEF Members
  <2>2. QED
    BY <1>7, <2>1, Zenon DEF FindFirstTurn
<1>11. QED
  BY <1>6, <1>9, <1>10 DEF FirstTurns

\* rb_find_first finds the first node with the key.
LEMMA FindFirstHere ==
  ASSUME ListInv, NEW key \in Int
  PROVE  IsFirstOf(Members(Par), List, {m \in Members(Par) : Key[m] = key}, rb_find_first(key), NULL)
<1>1. IInv
  BY DEF ListInv
<1>2. PICK h : /\ Shaped(rb_child, Par, Members(Par), NULL, h, Max)
               /\ Rooted(rb_child, Par, rb_node, Members(Par), NULL)
               /\ IsInOrder(Walk(rb_child), rb_child, Members(Par), NULL)
               /\ \A n \in Members(Par) : Key[n] \in Int /\ Ordered(Key, Walk(rb_child)[n])
  BY SortedTreeHere
<1>3. PICK w : /\ FirstTurns(w, rb_child, Members(Par), NULL, Max, Key, key)
               /\ rb_find_first(key) = w[Max][rb_node][NULL]
  BY <1>1, FirstTurnsHere
<1>4. FirstFound(w, Walk(rb_child), Members(Par), NULL, Max, Key, key)
  BY <1>2, <1>3, MaxType, SearchFindsFirst
<1>5. rb_node \in Members(Par) \cup {NULL} /\ NULL \in Members(Par) \cup {NULL}
  BY <1>2 DEF Rooted
<1>6. QED
  BY <1>3, <1>4, <1>5 DEF List, FirstFound

\* rb_next of a linked node is the node behind it in the list; of another node it is NULL.
LEMMA NextHere ==
  ASSUME IInv
  PROVE  /\ \A x \in DOMAIN List : rb_next(List[x]) = IF x = Len(List) THEN NULL ELSE List[x + 1]
         /\ \A n \in Node : rb_next(n) \in NodeOrNil
<1>1. list = List /\ List \in Seq(Node) /\ Elements(List) = Members(Par)
  BY ListNow DEF list
<1>2. \A x \in DOMAIN List : rb_next(List[x]) = IF x = Len(List) THEN NULL ELSE List[x + 1]
  BY <1>1, NeighboursNow DEF NeighboursAgree
<1>3. ASSUME NEW n \in Node PROVE rb_next(n) \in NodeOrNil
  <2>1. CASE RB_EMPTY_NODE(n)
    BY <2>1 DEF rb_next, Neighbour, NodeOrNil
  <2>2. CASE ~RB_EMPTY_NODE(n)
    <3>1. PICK x \in DOMAIN List : List[x] = n
      <4>1. n \in Elements(List)
        BY <1>1, <2>2, LinkedNow
      <4>2. QED
        BY <4>1 DEF Elements
    <3>2. x \in 1..Len(List) /\ Len(List) \in Nat /\ \A y \in 1..Len(List) : List[y] \in Node
      BY <1>1, LenProperties, ElementOfSeq
    <3>3. x # Len(List) => List[x + 1] \in Node
      BY <3>2
    <3>4. QED
      BY <1>2, <3>1, <3>3 DEF NodeOrNil
  <2>3. QED
    BY <2>1, <2>2
<1>4. QED
  BY <1>2, <1>3

\* The turns of rb_for_each.
LEMMA ForEachWalks ==
  ASSUME NEW key, NEW next, next = [n \in NodeOrNil |-> rb_next_match(key, n)]
  PROVE  rb_for_each(key) = VisitWalk(NodeOrNil, next, NULL, Max)[Max][rb_find_first(key)]
<1> DEFINE OneRound(w) == [k \in Levels |-> [n \in NodeOrNil |->
                          IF k = 0 \/ n = NULL THEN <<>> ELSE <<n>> \o w[k - 1][rb_next_match(key, n)]]]
<1>1. ASSUME NEW w PROVE VisitTurns(w, NodeOrNil, next, NULL, Max) = OneRound(w)
  <2>1. \A k \in Levels, n \in NodeOrNil :
          VisitTurn(w, k, n, next, NULL)
            = IF k = 0 \/ n = NULL THEN <<>> ELSE <<n>> \o w[k - 1][rb_next_match(key, n)]
    BY Zenon DEF VisitTurn
  <2>2. Levels = 0..Max
    BY DEF Levels, Max
  <2>3. QED
    BY <2>1, <2>2, Zenon DEF VisitTurns
<1>2. VisitWalk(NodeOrNil, next, NULL, Max) = CHOOSE w : w = OneRound(w)
  <2> HIDE DEF OneRound
  <2>1. QED
    BY <1>1, Zenon DEF VisitWalk
<1>3. rb_for_each(key) = (CHOOSE w : w = OneRound(w))[Max][rb_find_first(key)]
  BY Zenon DEF rb_for_each, Visits, Max
<1>4. QED
  BY <1>2, <1>3, Zenon

\* rb_for_each visits the run of the nodes with the key.
LEMMA ForEachHere ==
  ASSUME ListInv, NEW key \in Int, NEW a, NEW b, KeyRun(List, Key, key, a, b),
         rb_find_first(key) = IF a = b THEN NULL ELSE List[a + 1]
  PROVE  rb_for_each(key) = SubSeq(List, a + 1, b)
<1>1. IInv
  BY DEF ListInv
<1>2. PICK next : next = [n \in NodeOrNil |-> rb_next_match(key, n)]
  OBVIOUS
<1>3. PICK w : w = VisitWalk(NodeOrNil, next, NULL, Max)
  OBVIOUS
<1>4. PICK s : s = List
  OBVIOUS
<1>5. /\ s \in Seq(Node) /\ Distinct(s)
      /\ Len(s) \in Nat /\ DOMAIN s = 1..Len(s) /\ \A x \in 1..Len(s) : s[x] \in Node
  BY <1>1, <1>4, ListNow, LenProperties, ElementOfSeq
<1>6. /\ \A x \in DOMAIN s : rb_next(s[x]) = IF x = Len(s) THEN NULL ELSE s[x + 1]
      /\ \A n \in Node : rb_next(n) \in NodeOrNil
  BY <1>1, <1>4, NextHere
<1>7. NULL \notin Node /\ NodeOrNil = Node \cup {NULL}
  BY NodeAssumption DEF NodeOrNil
<1>8. \A n \in Node : next[n] = rb_next_match(key, n)
  BY <1>2, <1>7
<1>9. \A n \in Node : next[n] \in NodeOrNil
  BY <1>6, <1>7, <1>8 DEF rb_next_match
<1>10. VisitsBy(w, NodeOrNil, next, NULL, Max)
  BY <1>3, <1>7, <1>9, MaxType, VisitUnfolds
<1>11. /\ a \in 0..Len(s) /\ b \in a..Len(s)
       /\ \A x \in 1..Len(s) : Key[s[x]] = key <=> x \in (a + 1)..b
  BY <1>4, <1>5 DEF KeyRun
<1>12. LeadsThrough(next, s, a, b, NULL)
  <2> SUFFICES ASSUME NEW x \in (a + 1)..b
               PROVE  next[s[x]] = IF x = b THEN NULL ELSE s[x + 1]
    BY DEF LeadsThrough
  <2>1. x \in 1..Len(s) /\ s[x] \in Node
    BY <1>5, <1>11
  <2>2. rb_next(s[x]) = IF x = Len(s) THEN NULL ELSE s[x + 1]
    BY <1>5, <1>6, <2>1
  <2>3. next[s[x]] = IF rb_next(s[x]) # NULL /\ Key[rb_next(s[x])] # key THEN NULL ELSE rb_next(s[x])
    BY <1>8, <2>1 DEF rb_next_match
  <2>4. CASE x = Len(s)
    <3>1. x = b
      BY <1>5, <1>11, <2>1, <2>4
    <3>2. QED
      BY <2>2, <2>3, <2>4, <3>1
  <2>5. CASE x # Len(s)
    <3>1. x + 1 \in 1..Len(s)
      <4>1. PICK n : n = Len(s)
        OBVIOUS
      <4>2. n \in Nat /\ x \in 1..n /\ x # n
        BY <1>5, <2>1, <2>5, <4>1
      <4>3. x + 1 \in 1..n
        BY ONLY <4>2
      <4>4. QED
        BY <4>1, <4>3
    <3>2. s[x + 1] \in Node /\ s[x + 1] # NULL
      BY <1>5, <1>7, <3>1
    <3>3. Key[s[x + 1]] = key <=> x # b
      BY <1>5, <1>11, <3>1
    <3>4. QED
      BY <2>2, <2>3, <2>5, <3>2, <3>3
  <2>6. QED
    BY <2>4, <2>5
<1>13. b - a =< Max
  <2>1. IsFiniteSet(Elements(s)) /\ Cardinality(Elements(s)) = Len(s)
    BY <1>5, Counted
  <2>2. Elements(s) \subseteq Node
    BY <1>5, ElementsIn
  <2>3. Cardinality(Elements(s)) =< Cardinality(Node)
    BY <2>2, FiniteNodes, FS_Subset
  <2>4. QED
    BY <1>5, <1>11, <2>1, <2>3, MaxType DEF Max
<1>14. VisitsFrom(w, Max, s, a, b, NULL)
  BY <1>5, <1>7, <1>10, <1>11, <1>12, <1>13, MaxType, VisitsRun
<1>15. rb_for_each(key) = w[Max][rb_find_first(key)]
  BY <1>2, <1>3, ForEachWalks
<1>16. QED
  BY <1>4, <1>14, <1>15 DEF VisitsFrom

\* The three lookups, for one key.
LookedUp(s, key) ==
  \E a \in 0..Len(s) : \E b \in a..Len(s) :
    /\ \A x \in DOMAIN s : Key[s[x]] = key <=> x \in a + 1..b
    /\ IF a = b THEN rb_find(key) = NULL
       ELSE \E x \in a + 1..b : rb_find(key) = s[x]
    /\ rb_find_first(key) = IF a = b THEN NULL ELSE s[a + 1]
    /\ rb_for_each(key) = SubSeq(s, a + 1, b)

LEMMA LookupHere ==
  ASSUME ListInv, NEW key \in Int
  PROVE  LookedUp(List, key)
<1>1. IInv /\ Ordered(Key, List)
  BY DEF ListInv
<1>2. PICK s : s = List
  OBVIOUS
<1>3. PICK T : T = {m \in Members(Par) : Key[m] = key}
  OBVIOUS
<1>4. /\ s \in Seq(Node) /\ Distinct(s) /\ Elements(s) = Members(Par)
      /\ Len(s) \in Nat /\ DOMAIN s = 1..Len(s)
  BY <1>1, <1>2, ListNow, LenProperties
<1>5. PICK a, b : KeyRun(s, Key, key, a, b)
  <2>1. \A n \in Node : Key[n] \in Int
    BY NodeAssumption
  <2>2. QED
    BY <1>1, <1>2, <1>4, <2>1, KeyIsRun
<1>6. /\ a \in 0..Len(s) /\ b \in a..Len(s)
      /\ \A x \in 1..Len(s) : s[x] \in T <=> x \in (a + 1)..b
      /\ \A x \in 1..Len(s) : Key[s[x]] = key <=> x \in (a + 1)..b
  <2>1. \A x \in 1..Len(s) : s[x] \in Members(Par)
    BY <1>4 DEF Elements
  <2>2. QED
    BY <1>3, <1>4, <1>5, <2>1 DEF KeyRun
<1>7. IF a = b THEN rb_find(key) = NULL ELSE \E x \in (a + 1)..b : rb_find(key) = s[x]
  <2>1. PICK v : v = rb_find(key)
    OBVIOUS
  <2>2. IF Elements(s) \cap T = {} THEN v = NULL ELSE v \in Elements(s) \cap T
    BY <1>2, <1>3, <2>1, FindHere DEF Finds, Nodes, List
  <2>3. CASE a = b
    <3>1. Elements(s) \cap T = {}
      BY <1>4, <1>6, <2>3 DEF Elements
    <3>2. QED
      BY <2>1, <2>2, <2>3, <3>1
  <2>4. CASE a # b
    <3>1. a + 1 \in 1..Len(s) /\ a + 1 \in (a + 1)..b
      BY <1>4, <1>6, <2>4
    <3>2. s[a + 1] \in Elements(s) \cap T
      BY <1>4, <1>6, <3>1 DEF Elements
    <3>3. PICK x \in 1..Len(s) : v = s[x] /\ s[x] \in T
      BY <1>4, <2>2, <3>2 DEF Elements
    <3>4. x \in (a + 1)..b
      BY <1>6, <3>3
    <3>5. QED
      BY <2>1, <2>4, <3>3, <3>4
  <2>5. QED
    BY <2>3, <2>4
<1>8. rb_find_first(key) = IF a = b THEN NULL ELSE s[a + 1]
  <2>1. PICK v : v = rb_find_first(key)
    OBVIOUS
  <2>2. PICK S : S = Members(Par)
    OBVIOUS
  <2>3. IsFirstOf(S, s, T, v, NULL)
    BY <1>2, <1>3, <2>1, <2>2, FindFirstHere
  <2>4. s \in Seq(S)
    BY <1>4, <2>2 DEF Elements
  <2>5. \/ v = NULL /\ \A x \in DOMAIN s : s[x] \notin T
        \/ \E x \in DOMAIN s : v = s[x] /\ v \in T /\ \A y \in 1..(x - 1) : s[y] \notin T
    BY <2>3, <2>4, FirstAt
  <2>6. CASE a = b
    <3>1. \A x \in DOMAIN s : s[x] \notin T
      BY <1>4, <1>6, <2>6
    <3>2. QED
      BY <2>1, <2>5, <2>6, <3>1
  <2>7. CASE a # b
    <3>1. a + 1 \in 1..Len(s) /\ a + 1 \in (a + 1)..b
      BY <1>4, <1>6, <2>7
    <3>2. s[a + 1] \in T
      BY <1>6, <3>1
    <3>3. PICK c \in 1..Len(s) : v = s[c] /\ s[c] \in T /\ \A y \in 1..(c - 1) : s[y] \notin T
      BY <1>4, <2>5, <3>1, <3>2
    <3>4. c \in (a + 1)..b
      BY <1>6, <3>3
    <3>5. ~(a + 1 < c)
      BY <1>4, <1>6, <3>1, <3>2, <3>3
    <3>6. c = a + 1
      BY <1>4, <1>6, <3>4, <3>5
    <3>7. QED
      BY <2>1, <2>7, <3>3, <3>6
  <2>8. QED
    BY <2>6, <2>7
<1>9. rb_for_each(key) = SubSeq(s, a + 1, b)
  BY <1>2, <1>5, <1>8, ForEachHere
<1>10. QED
  BY <1>2, <1>4, <1>6, <1>7, <1>8, <1>9 DEF LookedUp

\* rb_find finds a node with the key if there is one, rb_find_first the oldest of them,
\* and rb_for_each meets all of them in their order, in a tree of any size and with any
\* number of equal keys, in the middle of rb_insert_color and rb_erase too.
THEOREM LookupsAlwaysAgree == IterSpec => []LookupsAgree
<1>1. IterInv => LookupsAgree
  <2> SUFFICES ASSUME IterInv PROVE LookupsAgree
    OBVIOUS
  <2>1. ListInv /\ IInv
    BY DEF IterInv, ListInv
  <2>2. list = List
    BY <2>1, ListNow DEF list
  <2>3. \A key \in {Key[n] : n \in Node} \cup {-1} : key \in Int
    BY NodeAssumption
  <2>4. \A key \in {Key[n] : n \in Node} \cup {-1} : LookedUp(list, key)
    BY <2>1, <2>2, <2>3, LookupHere
  <2>5. QED
    BY <2>4, Zenon DEF LookupsAgree, LookedUp
<1>2. QED
  BY <1>1, IterInvAlways, PTL
-----------------------------------------------------------------------------
(* The test program.  What it takes from its array has to be a node. *)

ArrayOK == nodes \in Arrays /\ j \in Nat

\* The array the program draws its nodes from stays one of the arrays, and its index a number.
LEMMA TestKeepsArray == TestSpec => []ArrayOK
<1>1. TestInit => ArrayOK
  BY DEF TestInit, ArrayOK
<1>2. ArrayOK /\ [TestNext]_testVars => ArrayOK'
  <2> SUFFICES ASSUME ArrayOK, [TestNext]_testVars PROVE ArrayOK'
    OBVIOUS
  <2>1. nnodes' = nnodes /\ Arrays' = Arrays
    BY DEF Arrays, nnodes
  <2>2. CASE Call
    BY <2>1, <2>2 DEF Call, ArrayOK
  <2>3. CASE Inside
    BY <2>1, <2>3 DEF Inside, ArrayOK
  <2>4. CASE NextLoop
    BY <2>1, <2>4 DEF NextLoop, ArrayOK
  <2>5. CASE NextRound
    BY <2>1, <2>5 DEF NextRound, ArrayOK
  <2>6. CASE NextPhase
    BY <2>1, <2>6 DEF NextPhase, ArrayOK
  <2>7. CASE UNCHANGED testVars
    BY <2>1, <2>7 DEF testVars, ArrayOK
  <2>8. QED
    BY <2>2, <2>3, <2>4, <2>5, <2>6, <2>7 DEF TestNext
<1>3. QED
  BY <1>1, <1>2, PTL DEF TestSpec

\* A step of the test program is a step of the tree, or leaves it alone.
LEMMA TestStep == ArrayOK /\ [TestNext]_testVars => [Next]_vars
<1> SUFFICES ASSUME ArrayOK, [TestNext]_testVars PROVE [Next]_vars
  OBVIOUS
<1>1. CASE Call
  <2> DEFINE n == nodes[j + 1]
  <2>1. nnodes \in Nat
    BY TestAssumption, FS_CardinalityType DEF nnodes
  <2>2. n \in Node
    BY <1>1, <2>1 DEF Call, ArrayOK, Arrays
  <2>3. Add(n) \/ EraseOneChild(n) \/ EraseTwoChildren(n)
    BY <1>1 DEF Call, AddCached, EraseCached
  <2>4. QED
    BY <2>2, <2>3 DEF Next, Caller
<1>2. CASE Inside
  <2>1. CASE phase = "churn_cached"
    BY <1>2, <2>1 DEF Inside, DescendCached, LinkCached, RebalanceCached, Next, Run
  <2>2. CASE phase # "churn_cached"
    BY <1>2, <2>2 DEF Inside, Next
  <2>3. QED
    BY <2>1, <2>2
<1>3. CASE NextLoop \/ NextRound \/ NextPhase \/ UNCHANGED testVars
  BY <1>3 DEF NextLoop, NextRound, NextPhase, testVars, cachedVars
<1>4. QED
  BY <1>1, <1>2, <1>3 DEF TestNext

\* The phases of rbtree_test_init implement the tree of LinuxRbtree, those too that
\* mix insert with insert_cached on the same root.
THEOREM TestImplementsRbtree == TestSpec => Spec
<1>1. TestInit => Init
  BY DEF TestInit, CachedInit
<1>2. QED
  BY <1>1, TestKeepsArray, TestStep, PTL DEF TestSpec, Spec

\* The conditions on pointers and colors that check() asserts, in their local form,
\* hold for an array of any length, any number of rounds and every order of the
\* keys: no WARN_ON_ONCE on them can fire.
THEOREM TestNeverWarns == TestSpec => [](LinksAgree /\ LocallyRedBlack)
BY TestImplementsRbtree, LinksAlwaysAgree, RedBlackAgain, PTL
=============================================================================
