------------------------- MODULE LinuxAugmentedProof -------------------------
(***************************************************************************)
(* The augmented tree implements LinuxRbtree whatever its callbacks are,   *)
(* and the augmented tree with a cached leftmost node implements both: the *)
(* values that callbacks write and the cache steer no turn of the loops.   *)
(* Then the values themselves: with callbacks that compute a value from    *)
(* the children's they are right at every turn, and those of               *)
(* RB_DECLARE_CALLBACKS_MAX and ostree.h are such callbacks.               *)
(***************************************************************************)
EXTENDS LinuxAugmentedCached, OrderStatisticTree, LinuxListProof

\* A turn that calls back is a turn of the plain tree.
LEMMA AugmentedStep == [AugmentedNext]_augmentedVars => [Next]_vars
<1> SUFFICES ASSUME [AugmentedNext]_augmentedVars PROVE [Next]_vars
  OBVIOUS
<1>1. ASSUME NEW n \in Node,
             AddAugmented(n) \/ EraseOneChildAugmented(n) \/ EraseTwoChildrenAugmented(n)
      PROVE  Next
  BY <1>1 DEF AddAugmented, EraseOneChildAugmented, EraseTwoChildrenAugmented, Next, Caller
<1>2. CASE DescendAugmented \/ LinkAugmented \/ InsertRotateAugmented
  BY <1>2 DEF DescendAugmented, LinkAugmented, InsertRotateAugmented, Next, Run
<1>3. CASE EraseSuccessorAugmented \/ EraseRedSiblingAugmented \/ EraseRotateAugmented
  BY <1>3 DEF EraseSuccessorAugmented, EraseRedSiblingAugmented, EraseRotateAugmented,
     Next, Run
<1>4. CASE RecolorAugmented
  BY <1>4 DEF RecolorAugmented, Next, Run
<1>5. CASE UNCHANGED augmentedVars
  BY <1>5 DEF augmentedVars
<1>6. QED
  BY <1>1, <1>2, <1>3, <1>4, <1>5 DEF AugmentedNext

\* rb_insert_augmented and rb_erase_augmented do to the tree what rb_insert_color and
\* rb_erase do, for any callbacks (RB_DECLARE_CALLBACKS_MAX, ostree.h or others).
THEOREM AugmentedImplementsRbtree == AugmentedSpec => Spec
<1>1. AugmentedInit => Init
  BY DEF AugmentedInit
<1>2. QED
  BY <1>1, AugmentedStep, PTL DEF AugmentedSpec, Spec

\* The callbacks are only called on nodes that are there, in a tree of any size.
THEOREM AugmentedTreeStaysSound ==
  AugmentedSpec => [](LinksAgree /\ RedBlackThroughout /\ NoNullDereference) /\ RotationBound
BY AugmentedImplementsRbtree, LinksAlwaysAgree, RedBlackAlways, NeverNullDereferenced,
   RotationsAreBounded, PTL

-----------------------------------------------------------------------------
\* A step of the cached operations is a step of the augmented tree.
LEMMA AugmentedCachedStep ==
  [AugmentedCachedNext]_augmentedCachedVars => [AugmentedNext]_augmentedVars
<1> SUFFICES ASSUME [AugmentedCachedNext]_augmentedCachedVars
             PROVE  [AugmentedNext]_augmentedVars
  OBVIOUS
<1>1. ASSUME NEW n \in Node, AddAugmentedCached(n) \/ EraseAugmentedCached(n)
      PROVE  AugmentedNext
  BY <1>1 DEF AddAugmentedCached, EraseAugmentedCached, AugmentedNext
<1>2. CASE DescendAugmentedCached \/ LinkAugmentedCached
  BY <1>2 DEF DescendAugmentedCached, LinkAugmentedCached, AugmentedNext
<1>3. CASE RebalanceAugmentedCached
  BY <1>3 DEF RebalanceAugmentedCached, AugmentedNext
<1>4. CASE UNCHANGED augmentedCachedVars
  BY <1>4 DEF augmentedCachedVars
<1>5. QED
  BY <1>1, <1>2, <1>3, <1>4 DEF AugmentedCachedNext

\* rb_insert_augmented_cached and rb_erase_augmented_cached implement the augmented
\* tree: what holds of its values at every turn holds with the cache too.
THEOREM AugmentedCachedImplementsAugmented == AugmentedCachedSpec => AugmentedSpec
<1>1. AugmentedCachedInit => AugmentedInit
  BY DEF AugmentedCachedInit
<1>2. QED
  BY <1>1, AugmentedCachedStep, PTL DEF AugmentedCachedSpec, AugmentedSpec

\* The cache of the augmented tree follows the first node as that of the plain one does.
AugmentedCacheInv == CacheNow(rb_leftmost, leftmost)

\* Every step of the augmented cached tree keeps the list sorted and the cache on its first node.
LEMMA AugmentedCachedNextKeeps ==
  ASSUME ListInv, AugmentedCacheInv, [AugmentedCachedNext]_augmentedCachedVars
  PROVE  ListInv' /\ AugmentedCacheInv'
<1>1. ListInv'
  BY AugmentedCachedStep, AugmentedStep, NextKeepsList
<1>2. CacheNow(rb_leftmost, leftmost)
  BY DEF AugmentedCacheInv
<1>3. CacheNext(rb_leftmost', leftmost')
  <2>1. ASSUME NEW n \in Node, AddAugmentedCached(n) PROVE CacheNext(rb_leftmost', leftmost')
    BY <1>2, <2>1, AddKeepsCache DEF AddAugmentedCached, AddAugmented
  <2>2. ASSUME NEW n \in Node, EraseAugmentedCached(n) PROVE CacheNext(rb_leftmost', leftmost')
    <3>1. EraseOneChild(n) \/ EraseTwoChildren(n)
      BY <2>2 DEF EraseAugmentedCached, EraseOneChildAugmented, EraseTwoChildrenAugmented
    <3>2. CacheNext(IF rb_leftmost = n THEN rb_next(n) ELSE rb_leftmost, leftmost)
      BY <1>2, <3>1, EraseKeepsCache
    <3>3. QED
      BY <2>2, <3>2 DEF EraseAugmentedCached
  <2>3. CASE DescendAugmentedCached
    <3>1. CacheNext(rb_leftmost, (leftmost /\ dir' = "left"))
      BY <1>2, <2>3, DescendKeepsCache DEF DescendAugmentedCached, DescendAugmented
    <3>2. QED
      BY <2>3, <3>1 DEF DescendAugmentedCached
  <2>4. CASE LinkAugmentedCached
    <3>1. CacheNext(IF leftmost THEN node ELSE rb_leftmost, leftmost)
      BY <1>2, <2>4, LinkKeepsCache DEF LinkAugmentedCached, LinkAugmented
    <3>2. QED
      BY <2>4, <3>1 DEF LinkAugmentedCached
  <2>5. CASE RebalanceAugmentedCached
    <3>1. Run
      BY <2>5 DEF RebalanceAugmentedCached, InsertRotateAugmented, EraseSuccessorAugmented,
           EraseRedSiblingAugmented, EraseRotateAugmented, RecolorAugmented, Run
    <3>2. pc \in {"insert", "successor", "erase_color"}
      BY <2>5 DEF RebalanceAugmentedCached, InsertRotateAugmented, EraseSuccessorAugmented,
           EraseRedSiblingAugmented, EraseRotateAugmented, RecolorAugmented, InsertRoot,
           InsertDone, InsertFlip, InsertRotate, SuccessorStep, EraseSuccessor, EraseFlip,
           EraseRedSibling, EraseRotate
    <3>3. QED
      BY <1>2, <2>5, <3>1, <3>2, RunKeepsCache DEF RebalanceAugmentedCached
  <2>6. CASE UNCHANGED augmentedCachedVars
    BY <1>2, <2>6, StillKeepsCache DEF augmentedCachedVars, augmentedVars
  <2>7. QED
    BY <2>1, <2>2, <2>3, <2>4, <2>5, <2>6 DEF AugmentedCachedNext
<1>4. AugmentedCacheInv'
  BY <1>3 DEF AugmentedCacheInv, CacheNow, CacheNext, List, Walk
<1>5. QED
  BY <1>1, <1>4

\* rb_first_cached is the same as rb_first (rbtree.h:165) in the augmented tree too, of any
\* size, whatever its callbacks are and at every turn of its loops.
THEOREM AugmentedCacheIsTheFirst == AugmentedCachedSpec => []AugmentedCacheIsFirst
<1>1. AugmentedCachedInit => ListInv /\ AugmentedCacheInv
  BY InitCache DEF AugmentedCachedInit, AugmentedInit, AugmentedCacheInv
<1>2. ListInv /\ AugmentedCacheInv /\ [AugmentedCachedNext]_augmentedCachedVars
        => (ListInv /\ AugmentedCacheInv)'
  BY AugmentedCachedNextKeeps
<1>3. ListInv /\ AugmentedCacheInv => AugmentedCacheIsFirst
  BY EndsHere DEF ListInv, AugmentedCacheInv, CacheNow, CacheAt, AugmentedCacheIsFirst
<1>4. QED
  BY <1>1, <1>2, <1>3, PTL DEF AugmentedCachedSpec

-----------------------------------------------------------------------------
(* What callbacks have to compute, and what then holds of the values. *)

Values == [Node -> Int]

\* On side d, n has the same value below it in two memories, whosever it is, or nothing.
SameOn(d, n, aug, ch, aug2, ch2) ==
  IF ch[n][d] = NULL THEN ch2[n][d] = NULL
  ELSE ch2[n][d] # NULL /\ aug2[ch2[n][d]] = aug[ch[n][d]]

\* In aug2 and ch2 the new node x is counted on side d of n, in aug and ch it is not.
GrownOn(d, n, x, aug, ch, aug2, ch2) ==
  /\ ch2[n][d] # NULL
  /\ aug2[ch2[n][d]] = IF ch[n][d] = NULL THEN Alone(x) ELSE OnPath(aug[ch[n][d]], x)

\* The value of a node is computed from its children, ...
Computes ==
  /\ \A aug \in Values, ch \in Children, n \in Node : Compute(aug, ch, n) \in Int
  /\ \A aug, aug2 \in Values, ch, ch2 \in Children, n \in Node :
       (\A d \in Side : SameOn(d, n, aug, ch, aug2, ch2)) => Compute(aug2, ch2, n) = Compute(aug, ch, n)
  /\ \A n \in Node : Alone(n) \in Int
  /\ \A aug \in Values, ch \in Children, n \in Node :
       (\A d \in Side : ch[n][d] = NULL) => Compute(aug, ch, n) = Alone(n)

\* ... it takes in a new node that is below one of its children, ...
Grows ==
  /\ \A v \in Int, x \in Node : OnPath(v, x) \in Int
  /\ \A aug, aug2 \in Values, ch, ch2 \in Children, n, x \in Node, d \in Side :
       /\ GrownOn(d, n, x, aug, ch, aug2, ch2)
       /\ SameOn(Opposite(d), n, aug, ch, aug2, ch2)
       => Compute(aug2, ch2, n) = OnPath(Compute(aug, ch, n), x)

\* old hangs on side d of new, which it has let go of.
HangsFrom(ch, old, new, d) ==
  /\ old # new
  /\ ch[new][d] = old
  /\ \A e \in Side : ch[old][e] \notin {old, new} /\ ch[new][e] # new

\* In ch new is on the other side of old, and takes its place in ch2.
TakesOver(ch, ch2, old, new, d) ==
  /\ ch[old][Opposite(d)] = new
  /\ ch2[old][d] = ch[old][d]
  /\ ch2[old][Opposite(d)] = ch[new][d]
  /\ ch2[new][Opposite(d)] = ch[new][Opposite(d)]
  /\ ch2[new][Opposite(d)] # old

\* ... and a rotation stores two values, each the one that is right once those of the
\* nodes below are.
Rotates ==
  /\ \A aug \in Values, ch \in Children, old, new \in Node, d \in Side :
       HangsFrom(ch, old, new, d) =>
         /\ \E v \in Int : Rotated(aug, ch, old, new)
                             = [aug EXCEPT ![new] = v, ![old] = Compute(aug, ch, old)]
         /\ \A v \in Int : Rotated([aug EXCEPT ![new] = v], ch, old, new) = Rotated(aug, ch, old, new)
  /\ \A aug \in Values, ch, ch2 \in Children, old, new \in Node, d \in Side :
       /\ HangsFrom(ch2, old, new, d)
       /\ TakesOver(ch, ch2, old, new, d)
       /\ aug[old] = Compute(aug, ch, old)
       /\ aug[new] = Compute(aug, ch, new)
       => /\ Rotated(aug, ch2, old, new)[new] = aug[old]
          /\ Compute(Rotated(aug, ch2, old, new), ch2, new) = aug[old]

Callbacks == Computes /\ Grows /\ Rotates

\* Every node of S but those of X has the value that is computed from its children.
Valued(aug, ch, S) == \A n \in S : aug[n] = Compute(aug, ch, n)

\* Pointers after a rotation.
LEMMA TurnsPointers ==
  ASSUME NEW par, NEW ch, NEW ch2, NEW p, NEW s, NEW d, TurnsAt(par, ch, ch2, p, s, d)
  PROVE  /\ HangsFrom(ch2, p, s, d)
         /\ TakesOver(ch, ch2, p, s, d)
         /\ \A n \in Node, e \in Side : n # p /\ n # s =>
              \/ ch2[n][e] = ch[n][e] /\ ch[n][e] # p /\ ch[n][e] # s
              \/ ch[n][e] = p /\ ch2[n][e] = s
<1> USE NodeAssumption
<1>0. PICK o \in Side : o = Opposite(d) /\ o # d /\ \A e \in Side : e = d \/ e = o
  BY Sides DEF TurnsAt
<1>1. /\ p \in Node /\ s \in Node /\ d \in Side /\ ch \in Children /\ par \in Parents
      /\ ch[p][o] = s /\ par[p] # s
      /\ ch2 = Turned(ch, p, s, d)
  BY <1>0 DEF TurnsAt
<1>2. \A n \in Node, e \in Side :
        ch[n][e] # NULL => par[ch[n][e]] = n /\ ch[n][e] # n /\ par[n] # n /\ ch[n][Opposite(e)] # ch[n][e]
  BY DEF TurnsAt, Tree
<1>3. \A n \in Node, e \in Side : ch2[n][e] = IF n = p /\ e # d THEN ch[s][d]
                                  ELSE IF n = s /\ e = d THEN p
                                  ELSE IF ch[n][e] = p THEN s ELSE ch[n][e]
  BY <1>1 DEF Turned
<1>4. p # s /\ par[s] = p
  BY <1>0, <1>1, <1>2
<1>5. \A e \in Side : ch[s][e] # p /\ ch[s][e] # s /\ ch[p][e] # p
  BY <1>1, <1>2, <1>4
<1>6. ch[p][d] # s
  BY <1>0, <1>1, <1>2
<1>7. ch2[p][d] = ch[p][d] /\ ch2[p][o] = ch[s][d] /\ ch2[s][d] = p /\ ch2[s][o] = ch[s][o]
  BY <1>0, <1>1, <1>3, <1>4, <1>5
<1>8. HangsFrom(ch2, p, s, d)
  BY <1>0, <1>1, <1>4, <1>5, <1>6, <1>7 DEF HangsFrom
<1>9. TakesOver(ch, ch2, p, s, d)
  BY <1>0, <1>1, <1>5, <1>7 DEF TakesOver
<1>10. \A n \in Node, e \in Side : n # p /\ n # s =>
              \/ ch2[n][e] = ch[n][e] /\ ch[n][e] # p /\ ch[n][e] # s
              \/ ch[n][e] = p /\ ch2[n][e] = s
  BY <1>1, <1>2, <1>3, <1>4
<1>11. QED
  BY <1>8, <1>9, <1>10

\* A rotation and its callback.
LEMMA TurnKeepsValues ==
  ASSUME Callbacks, NEW par, NEW ch, NEW ch2, NEW p, NEW s, NEW d, TurnsAt(par, ch, ch2, p, s, d),
         NEW aug \in Values, NEW S \in SUBSET Node, p \in S, s \in S, Valued(aug, ch, S)
  PROVE  Rotated(aug, ch2, p, s) \in Values /\ Valued(Rotated(aug, ch2, p, s), ch2, S)
<1> USE NodeAssumption
<1>1. /\ HangsFrom(ch2, p, s, d)
      /\ TakesOver(ch, ch2, p, s, d)
      /\ \A n \in Node, e \in Side : n # p /\ n # s =>
              \/ ch2[n][e] = ch[n][e] /\ ch[n][e] # p /\ ch[n][e] # s
              \/ ch[n][e] = p /\ ch2[n][e] = s
  BY TurnsPointers
<1>2. p \in Node /\ s \in Node /\ d \in Side /\ ch \in Children /\ ch2 \in Children
  BY DEF TurnsAt
<1>3. PICK v \in Int : Rotated(aug, ch2, p, s) = [aug EXCEPT ![s] = v, ![p] = Compute(aug, ch2, p)]
  BY <1>1, <1>2 DEF Callbacks, Rotates
<1>4. Compute(aug, ch2, p) \in Int
  BY <1>2 DEF Callbacks, Computes
<1>a. PICK a : a = Rotated(aug, ch2, p, s)
  OBVIOUS
<1>5. a \in Values /\ p # s /\ \A n \in Node : a[n] = IF n = p THEN Compute(aug, ch2, p) ELSE IF n = s THEN v ELSE aug[n]
  BY <1>1, <1>2, <1>3, <1>4, <1>a DEF Values, HangsFrom
<1>6. aug[p] = Compute(aug, ch, p) /\ aug[s] = Compute(aug, ch, s)
  BY DEF Valued
<1>7. a[s] = aug[p] /\ Compute(a, ch2, s) = aug[p]
  BY <1>1, <1>2, <1>6, <1>a DEF Callbacks, Rotates
<1>8. ASSUME NEW n \in S, n # p, n # s PROVE a[n] = Compute(a, ch2, n)
  <2>1. \A e \in Side : ch[n][e] \in Node \cup {NULL} /\ ch2[n][e] \in Node \cup {NULL}
    BY <1>2 DEF Children, NodeOrNil
  <2>2. \A e \in Side : SameOn(e, n, aug, ch, a, ch2)
    BY <1>1, <1>2, <1>5, <1>7, <1>8, <2>1 DEF SameOn
  <2>3. Compute(a, ch2, n) = Compute(aug, ch, n)
    BY <1>2, <1>5, <2>2 DEF Callbacks, Computes
  <2>4. QED
    BY <1>5, <1>8, <2>3 DEF Valued
<1>9. a[p] = Compute(a, ch2, p)
  <2>1. \A e \in Side : ch2[p][e] \in Node \cup {NULL} /\ ch2[p][e] # p /\ ch2[p][e] # s
    BY <1>1, <1>2 DEF Children, NodeOrNil, HangsFrom
  <2>2. \A e \in Side : SameOn(e, p, aug, ch2, a, ch2)
    BY <1>5, <2>1 DEF SameOn
  <2>3. Compute(a, ch2, p) = Compute(aug, ch2, p)
    BY <1>2, <1>5, <2>2 DEF Callbacks, Computes
  <2>4. QED
    BY <1>2, <1>5, <2>3
<1>10. QED
  BY <1>5, <1>7, <1>8, <1>9, <1>a DEF Valued

\* Two rotations whose callbacks both see the pointers as the second one leaves them.
LEMMA TwoTurnsKeepValues ==
  ASSUME Callbacks, NEW par, NEW ch, NEW ch2, NEW p, NEW g, NEW x, NEW d,
         TurnsTwice(par, ch, ch2, p, g, x, d),
         NEW aug \in Values, NEW S \in SUBSET Node, p \in S, g \in S, x \in S, Valued(aug, ch, S)
  PROVE  LET first == Rotated(aug, ch2, p, x)
         IN  Rotated(first, ch2, g, x) \in Values /\ Valued(Rotated(first, ch2, g, x), ch2, S)
<1> USE NodeAssumption
<1>1. PICK ch1, par1 : /\ TurnsAt(par, ch, ch1, p, x, d)
                       /\ TurnsAt(par1, ch1, ch2, g, x, Opposite(d))
                       /\ p # g
                       /\ \A e \in Side : ch1[p][e] # g
  BY DEF TurnsTwice
<1>o. PICK o : o = Opposite(d)
  OBVIOUS
<1>2. TurnsAt(par1, ch1, ch2, g, x, o)
  BY <1>1, <1>o
<1>3. d \in Side /\ o \in Side /\ o # d /\ d = Opposite(o) /\ \A e \in Side : e = d \/ e = o
  BY <1>1, <1>o, Sides DEF TurnsAt
<1>4. /\ p \in Node /\ x \in Node /\ g \in Node
      /\ ch \in Children /\ ch1 \in Children /\ ch2 \in Children
  BY <1>1, <1>2 DEF TurnsAt
<1>5. HangsFrom(ch1, p, x, d)
  BY <1>1, TurnsPointers
<1>6. /\ HangsFrom(ch2, g, x, o)
      /\ TakesOver(ch1, ch2, g, x, o)
      /\ \A n \in Node, e \in Side : n # g /\ n # x =>
              \/ ch2[n][e] = ch1[n][e] /\ ch1[n][e] # g /\ ch1[n][e] # x
              \/ ch1[n][e] = g /\ ch2[n][e] = x
  BY <1>2, TurnsPointers
<1>7. \A e \in Side : ch2[p][e] = ch1[p][e]
  BY <1>1, <1>4, <1>5, <1>6 DEF HangsFrom
<1>8. HangsFrom(ch2, p, x, d)
  BY <1>3, <1>5, <1>6, <1>7 DEF HangsFrom, TakesOver
<1>A. PICK A : A = Rotated(aug, ch1, p, x)
  OBVIOUS
<1>9. A \in Values /\ Valued(A, ch1, S)
  BY <1>1, <1>A, TurnKeepsValues
<1>10. PICK v \in Int : Rotated(aug, ch1, p, x) = [aug EXCEPT ![x] = v, ![p] = Compute(aug, ch1, p)]
  BY <1>3, <1>4, <1>5 DEF Callbacks, Rotates
<1>11. PICK v2 \in Int : Rotated(aug, ch2, p, x) = [aug EXCEPT ![x] = v2, ![p] = Compute(aug, ch2, p)]
  BY <1>3, <1>4, <1>8 DEF Callbacks, Rotates
<1>12. Compute(aug, ch2, p) = Compute(aug, ch1, p)
  <2>1. \A e \in Side : SameOn(e, p, aug, ch1, aug, ch2)
    BY <1>7 DEF SameOn
  <2>2. QED
    BY <1>4, <2>1 DEF Callbacks, Computes
<1>13. p # x
  BY <1>5 DEF HangsFrom
<1>14. Rotated(aug, ch2, p, x) = [A EXCEPT ![x] = v2]
  BY <1>4, <1>A, <1>10, <1>11, <1>12, <1>13 DEF Values
<1>15. Rotated([A EXCEPT ![x] = v2], ch2, g, x) = Rotated(A, ch2, g, x)
  BY <1>3, <1>4, <1>6, <1>9 DEF Callbacks, Rotates
<1>16. Rotated(A, ch2, g, x) \in Values /\ Valued(Rotated(A, ch2, g, x), ch2, S)
  BY <1>2, <1>9, TurnKeepsValues
<1>17. QED
  BY <1>14, <1>15, <1>16

\* A node that leaves the tree: only the value of its parent is not right any more.
LEMMA SpliceKeepsValues ==
  ASSUME Callbacks, NEW r, NEW ch \in Children, NEW par \in Parents, Tree(r, ch, par),
         NEW r2, NEW ch2 \in Children, NEW par2, NEW x \in Node,
         IsSplice(r, ch, par, r2, ch2, par2, x),
         NEW aug \in Values, NEW S \in SUBSET Node, Valued(aug, ch, S)
  PROVE  Valued(aug, ch2, S \ {x, par[x]})
<1> USE NodeAssumption
<1>1. PICK c \in NodeOrNil : ch2 = Spliced(ch, x, c)
  BY DEF IsSplice
<1>2. SUFFICES ASSUME NEW n \in S, n # x, n # par[x] PROVE aug[n] = Compute(aug, ch2, n)
  BY DEF Valued
<1>3. \A e \in Side : ch[n][e] # x
  <2>1. \A m \in Node, e \in Side : ch[m][e] # NULL => par[ch[m][e]] = m
    BY DEF Tree
  <2>2. QED
    BY <1>2, <2>1
<1>4. \A e \in Side : ch2[n][e] = ch[n][e]
  BY <1>1, <1>2, <1>3 DEF Spliced
<1>5. \A e \in Side : SameOn(e, n, aug, ch, aug, ch2)
  BY <1>4 DEF SameOn
<1>6. Compute(aug, ch2, n) = Compute(aug, ch, n)
  BY <1>5 DEF Callbacks, Computes
<1>7. QED
  BY <1>6 DEF Valued

\* A node that takes the place of another and its value: its own value may be wrong.
LEMMA SwapKeepsValues ==
  ASSUME Callbacks, NEW r, NEW ch \in Children, NEW par \in Parents, Tree(r, ch, par),
         NEW r2, NEW ch2 \in Children, NEW par2, NEW old \in Node, NEW new \in Node,
         IsSwap(r, ch, par, r2, ch2, par2, old, new),
         NEW aug \in Values, NEW S \in SUBSET Node, Valued(aug, ch, S)
  PROVE  /\ [aug EXCEPT ![new] = aug[old]] \in Values
         /\ Valued([aug EXCEPT ![new] = aug[old]], ch2, S \ {old, new})
<1> USE NodeAssumption
<1>1. ch2 = Swapped(ch, old, new) /\ par[new] = new
  BY DEF IsSwap
<1>a. PICK a : a = [aug EXCEPT ![new] = aug[old]]
  OBVIOUS
<1>2. a \in Values /\ \A n \in Node : a[n] = IF n = new THEN aug[old] ELSE aug[n]
  BY <1>a DEF Values
<1>3. SUFFICES ASSUME NEW n \in S, n # old, n # new PROVE a[n] = Compute(a, ch2, n)
  BY <1>2, <1>a DEF Valued
<1>4. \A e \in Side : ch[n][e] # new /\ ch[n][e] \in NodeOrNil
  <2>1. \A m \in Node, e \in Side : ch[m][e] # NULL => par[ch[m][e]] = m
    BY DEF Tree
  <2>2. QED
    BY <1>1, <1>3, <2>1 DEF Children
<1>5. \A e \in Side : ch2[n][e] = IF ch[n][e] = old THEN new ELSE ch[n][e]
  BY <1>1, <1>3 DEF Swapped
<1>6. \A e \in Side : SameOn(e, n, aug, ch, a, ch2)
  BY <1>2, <1>4, <1>5 DEF SameOn, NodeOrNil
<1>7. Compute(a, ch2, n) = Compute(aug, ch, n)
  BY <1>2, <1>3, <1>6 DEF Callbacks, Computes
<1>8. QED
  BY <1>2, <1>3, <1>7 DEF Valued

-----------------------------------------------------------------------------
(* propagate. *)

PropagateDone(t, ch, stop) ==
  t.at = stop \/ (StopsEarly /\ t.aug[t.at] = Compute(t.aug, ch, t.at))

PropagateTurn(t, ch, w) ==
  [at |-> w[t.at].parent, aug |-> [t.aug EXCEPT ![t.at] = Compute(t.aug, ch, t.at)]]

PropagateNext(t, ch, w, stop) ==
  IF PropagateDone(t, ch, stop) THEN t ELSE PropagateTurn(t, ch, w)

IsLoop(loop, aug, ch, w, from, stop) ==
  loop = [k \in 0..Max |-> IF k = 0 THEN [at |-> from, aug |-> aug]
                           ELSE PropagateNext(loop[k - 1], ch, w, stop)]

\* Propagated is the end of such a loop.
LEMMA PropagatedIsLoop ==
  ASSUME NEW aug, NEW ch, NEW w, NEW from, NEW stop
  PROVE  Propagated(aug, ch, w, from, stop)
           = (CHOOSE loop : IsLoop(loop, aug, ch, w, from, stop))[Max].aug
BY DEF Propagated, IsLoop, PropagateNext, PropagateDone, PropagateTurn, Levels, Max

\* From the nodes of Q the parents lead to stop, in a tree with the nodes S.
Climbs(ch, w, S, Q, stop, h) ==
  /\ S \in SUBSET Node
  /\ \A n \in Q : n # stop => /\ n \in S
                              /\ w[n].parent \in Q
                              /\ w[n].parent \in S => h[n] < h[w[n].parent]
  /\ \A n \in S : h[n] \in 1..Max
  /\ \A n \in S, d \in Side : ch[n][d] # NULL => w[ch[n][d]].parent = n /\ ch[n][d] # n

\* What has been reached after k turns.
Reached(t, k, aug, ch, S, Q, stop, h) ==
  /\ t \in [at : Q, aug : Values]
  /\ \A n \in S : n # t.at /\ n # stop => t.aug[n] = Compute(t.aug, ch, n)
  /\ \A n \in Node : n \notin S \/ n = stop => t.aug[n] = aug[n]
  /\ PropagateDone(t, ch, stop) \/ (t.at \in S /\ h[t.at] > k)

\* A turn of propagate sets one more value right.
LEMMA TurnReaches ==
  ASSUME Callbacks, NEW aug, NEW ch \in Children, NEW w, NEW S, NEW Q, NEW stop, NEW h,
         Climbs(ch, w, S, Q, stop, h), NEW k \in Nat, NEW t, Reached(t, k, aug, ch, S, Q, stop, h)
  PROVE  Reached(PropagateNext(t, ch, w, stop), k + 1, aug, ch, S, Q, stop, h)
<1> USE NodeAssumption
<1>1. CASE PropagateDone(t, ch, stop)
  BY <1>1 DEF PropagateNext, Reached
<1>2. CASE ~PropagateDone(t, ch, stop)
  <2>at. PICK n : n = t.at
    OBVIOUS
  <2>a. PICK a : a = t.aug
    OBVIOUS
  <2>1. /\ n \in Q /\ a \in Values /\ n # stop
        /\ \A m \in S : m # n /\ m # stop => a[m] = Compute(a, ch, m)
        /\ \A m \in Node : m \notin S \/ m = stop => a[m] = aug[m]
        /\ n \in S /\ h[n] > k
    BY <1>2, <2>at, <2>a DEF Reached, PropagateDone
  <2>2. /\ n \in Node
        /\ w[n].parent \in Q
        /\ w[n].parent \in S => h[n] < h[w[n].parent]
        /\ \A m \in S, d \in Side : ch[m][d] # NULL => w[ch[m][d]].parent = m /\ ch[m][d] # m
    BY <2>1 DEF Climbs
  <2>p. PICK p : p = w[n].parent
    OBVIOUS
  <2>b. PICK b : b = [a EXCEPT ![n] = Compute(a, ch, n)]
    OBVIOUS
  <2>3. Compute(a, ch, n) \in Int
    BY <2>1, <2>2 DEF Callbacks, Computes
  <2>4. b \in Values /\ \A m \in Node : b[m] = IF m = n THEN Compute(a, ch, n) ELSE a[m]
    BY <2>1, <2>2, <2>3, <2>b DEF Values
  <2>u. PICK u : u = PropagateNext(t, ch, w, stop)
    OBVIOUS
  <2>5. u = [at |-> p, aug |-> b]
    BY <1>2, <2>at, <2>a, <2>p, <2>b, <2>u DEF PropagateNext, PropagateTurn
  <2>6. u \in [at : Q, aug : Values] /\ u.at = p /\ u.aug = b
    BY <2>2, <2>4, <2>5, <2>p
  <2>7. ASSUME NEW m \in S, m # p, m # stop PROVE b[m] = Compute(b, ch, m)
    <3>1. m \in Node /\ S \in SUBSET Node
      BY DEF Climbs
    <3>2. \A d \in Side : ch[m][d] \in Node \cup {NULL}
      BY <3>1 DEF Children, NodeOrNil
    <3>3. \A d \in Side : ch[m][d] # n
      BY <2>1, <2>2, <2>7, <2>p, <3>1
    <3>4. \A d \in Side : SameOn(d, m, a, ch, b, ch)
      BY <2>4, <3>2, <3>3 DEF SameOn
    <3>5. Compute(b, ch, m) = Compute(a, ch, m)
      BY <2>1, <2>4, <3>1, <3>4 DEF Callbacks, Computes
    <3>6. QED
      BY <2>1, <2>4, <2>7, <3>1, <3>5
  <2>8. \A m \in Node : m \notin S \/ m = stop => b[m] = aug[m]
    BY <2>1, <2>4
  <2>9. PropagateDone(u, ch, stop) \/ (u.at \in S /\ h[u.at] > k + 1)
    <3>1. ASSUME p # stop PROVE p \in S /\ h[p] > k + 1
      <4>1. p \in S
        BY <2>2, <2>p, <3>1 DEF Climbs
      <4>2. h[n] < h[p] /\ h[n] \in Nat /\ h[p] \in Nat
        BY <2>1, <2>2, <2>p, <4>1, MaxType DEF Climbs
      <4>3. QED
        BY <2>1, <4>1, <4>2
    <3>2. QED
      BY <2>6, <3>1 DEF PropagateDone
  <2>10. QED
    BY <2>6, <2>7, <2>8, <2>9, <2>u DEF Reached
<1>3. QED
  BY <1>1, <1>2

\* The start of the loop.
LEMMA StartReached ==
  ASSUME NEW aug \in Values, NEW ch, NEW w, NEW S, NEW Q, NEW stop, NEW h,
         Climbs(ch, w, S, Q, stop, h), NEW from \in Q,
         \A n \in S : n # from /\ n # stop => aug[n] = Compute(aug, ch, n)
  PROVE  Reached([at |-> from, aug |-> aug], 0, aug, ch, S, Q, stop, h)
<1>1. PICK t : t = [at |-> from, aug |-> aug]
  OBVIOUS
<1>2. t \in [at : Q, aug : Values] /\ t.at = from /\ t.aug = aug
  BY <1>1
<1>3. from # stop => from \in S /\ h[from] > 0
  BY MaxType DEF Climbs
<1>4. QED
  BY <1>1, <1>2, <1>3 DEF Reached, PropagateDone

\* propagate sets right what is wrong on the way from one node up to another.
LEMMA PropagateSetsRight ==
  ASSUME Callbacks, NEW aug \in Values, NEW ch \in Children, NEW w, NEW S, NEW Q, NEW stop, NEW h,
         Climbs(ch, w, S, Q, stop, h), NEW from \in Q,
         \A n \in S : n # from /\ n # stop => aug[n] = Compute(aug, ch, n)
  PROVE  /\ Propagated(aug, ch, w, from, stop) \in Values
         /\ Valued(Propagated(aug, ch, w, from, stop), ch, S \ {stop})
         /\ \A n \in Node : n \notin S \/ n = stop => Propagated(aug, ch, w, from, stop)[n] = aug[n]
<1> USE NodeAssumption, MaxType
<1>D. PICK D : D = [at : Q, aug : Values]
  OBVIOUS
<1>b. PICK b : b = [at |-> from, aug |-> aug]
  OBVIOUS
<1>1. b \in D /\ Reached(b, 0, aug, ch, S, Q, stop, h)
  BY <1>b, <1>D, StartReached
<1>F. PICK F : F = [t \in D |-> IF PropagateNext(t, ch, w, stop) \in D
                                THEN PropagateNext(t, ch, w, stop) ELSE t]
  OBVIOUS
<1>2. F \in [D -> D]
  BY <1>F
<1>3. PICK v : Iteration(v, D, b, F, Max)
  BY ONLY <1>1, <1>2, MaxType, Iterates
<1>4. \A t, k : k \in Nat /\ Reached(t, k, aug, ch, S, Q, stop, h)
                  => /\ Reached(PropagateNext(t, ch, w, stop), k + 1, aug, ch, S, Q, stop, h)
                     /\ F[t] = PropagateNext(t, ch, w, stop)
  <2> SUFFICES ASSUME NEW t, NEW k, k \in Nat, Reached(t, k, aug, ch, S, Q, stop, h)
               PROVE  /\ Reached(PropagateNext(t, ch, w, stop), k + 1, aug, ch, S, Q, stop, h)
                      /\ F[t] = PropagateNext(t, ch, w, stop)
    OBVIOUS
  <2>1. Reached(PropagateNext(t, ch, w, stop), k + 1, aug, ch, S, Q, stop, h)
    BY TurnReaches
  <2>2. t \in D /\ PropagateNext(t, ch, w, stop) \in D
    BY <2>1, <1>D DEF Reached
  <2>3. QED
    BY <1>F, <2>1, <2>2
<1>5. \A k \in Nat : k =< Max => Reached(v[k], k, aug, ch, S, Q, stop, h)
  <2>T. PICK T : T = {k \in Nat : k =< Max => Reached(v[k], k, aug, ch, S, Q, stop, h)}
    OBVIOUS
  <2>1. 0 \in T
    BY <1>1, <1>3, <2>T DEF Iteration
  <2>2. ASSUME NEW k \in Nat, k \in T PROVE k + 1 \in T
    <3>1. ASSUME k + 1 =< Max PROVE Reached(v[k + 1], k + 1, aug, ch, S, Q, stop, h)
      <4>1. Reached(v[k], k, aug, ch, S, Q, stop, h)
        BY <2>2, <2>T, <3>1
      <4>2. v[k + 1] = F[v[k]]
        <5>1. k + 1 \in 1..Max /\ (k + 1) - 1 = k
          BY <3>1
        <5>2. QED
          BY <1>3, <5>1 DEF Iteration
      <4>3. QED
        BY <1>4, <4>1, <4>2
    <3>2. QED
      BY <2>T, <3>1
  <2>3. \A k \in Nat : k \in T
    BY ONLY <2>1, <2>2, Induction
  <2>4. QED
    BY <2>3, <2>T
<1>6. IsLoop(v, aug, ch, w, from, stop)
  <2>1. v = [k \in 0..Max |-> v[k]] /\ v[0] = b
    BY <1>3 DEF Iteration
  <2>2. ASSUME NEW k \in 0..Max, k # 0 PROVE v[k] = PropagateNext(v[k - 1], ch, w, stop)
    <3>1. k \in 1..Max /\ k - 1 \in Nat /\ k - 1 =< Max
      BY <2>2
    <3>2. v[k] = F[v[k - 1]]
      BY <1>3, <3>1 DEF Iteration
    <3>3. QED
      BY <1>4, <1>5, <3>1, <3>2
  <2>3. QED
    BY <2>1, <2>2, <1>b DEF IsLoop
<1>l. PICK loop : loop = CHOOSE u : IsLoop(u, aug, ch, w, from, stop)
  OBVIOUS
<1>7. IsLoop(loop, aug, ch, w, from, stop)
  BY <1>6, <1>l
<1>8. loop[0] = b /\ \A k \in 1..Max : loop[k] = PropagateNext(loop[k - 1], ch, w, stop)
  BY <1>7, <1>b DEF IsLoop
<1>9. \A k \in Nat : k =< Max => Reached(loop[k], k, aug, ch, S, Q, stop, h)
  <2>T. PICK T : T = {k \in Nat : k =< Max => Reached(loop[k], k, aug, ch, S, Q, stop, h)}
    OBVIOUS
  <2>1. 0 \in T
    BY <1>1, <1>8, <2>T
  <2>2. ASSUME NEW k \in Nat, k \in T PROVE k + 1 \in T
    <3>1. ASSUME k + 1 =< Max PROVE Reached(loop[k + 1], k + 1, aug, ch, S, Q, stop, h)
      <4>1. Reached(loop[k], k, aug, ch, S, Q, stop, h)
        BY <2>2, <2>T, <3>1
      <4>2. loop[k + 1] = PropagateNext(loop[k], ch, w, stop)
        <5>1. k + 1 \in 1..Max /\ (k + 1) - 1 = k
          BY <3>1
        <5>2. QED
          BY <1>8, <5>1
      <4>3. QED
        BY <1>4, <4>1, <4>2
    <3>2. QED
      BY <2>T, <3>1
  <2>3. \A k \in Nat : k \in T
    BY ONLY <2>1, <2>2, Induction
  <2>4. QED
    BY <2>3, <2>T
<1>t. PICK t : t = loop[Max]
  OBVIOUS
<1>10. Reached(t, Max, aug, ch, S, Q, stop, h)
  BY <1>9, <1>t
<1>11. PropagateDone(t, ch, stop)
  BY <1>10 DEF Reached, Climbs
<1>12. Propagated(aug, ch, w, from, stop) = t.aug
  BY <1>l, <1>t, PropagatedIsLoop
<1>13. ASSUME NEW n \in S, n # stop PROVE t.aug[n] = Compute(t.aug, ch, n)
  BY <1>10, <1>11, <1>13 DEF Reached, PropagateDone
<1>14. t.aug \in Values /\ \A n \in Node : n \notin S \/ n = stop => t.aug[n] = aug[n]
  BY <1>10 DEF Reached
<1>15. QED
  BY <1>12, <1>13, <1>14 DEF Valued

-----------------------------------------------------------------------------
(* The invariant of the augmented tree. *)

\* The node whose value counts the new one before it is linked.
Awaiting == IF pc = "add" THEN {parent} ELSE {}

AugInv ==
  /\ augmented \in Values
  /\ pc # "find_add"
  /\ Valued(augmented, rb_child, Members(Par) \ Awaiting)
  /\ pc = "add" /\ parent # NULL =>
       augmented[parent] = OnPath(Compute(augmented, rb_child, parent), node)

\* A step that changes neither the order of the nodes nor who is linked.
LEMMA SameMembers ==
  ASSUME IInv, IInv', List' = List
  PROVE  Members(Par') = Members(Par)
BY ListNow, ListNext

\* A step after which every value is right.
LEMMA ValuesAtRest ==
  ASSUME NEW a \in Values, augmented' = a, pc' \notin {"add", "find_add"}, Valued(a, rb_child', Members(Par'))
  PROVE  AugInv'
<1>1. Awaiting' = {}
  BY DEF Awaiting
<1>2. Members(Par)' = Members(Par')
  BY DEF Members
<1>3. QED
  BY <1>1, <1>2 DEF AugInv, Valued

\* A descent starts.
LEMMA AddKeepsValues ==
  ASSUME IInv, AugInv, NEW n \in Node, AddAugmented(n)
  PROVE  AugInv'
<1>1. /\ pc = "idle" /\ pc' = "add" /\ parent' = NULL
      /\ rb_child' = rb_child /\ rb_parent_color' = rb_parent_color /\ augmented' = augmented
  BY DEF AddAugmented, Add, StartDescent, tree
<1>2. Awaiting = {} /\ Awaiting' = {NULL}
  BY <1>1 DEF Awaiting
<1>3. Members(Par)' = Members(Par)
  BY <1>1 DEF Members, Par, rb_parent
<1>4. QED
  BY <1>1, <1>2, <1>3 DEF AugInv, Valued

\* The steps that call nothing back.
LEMMA RecolorKeepsValues ==
  ASSUME ListInv, ListInv', AugInv, RecolorAugmented \/ \E n \in Node : EraseTwoChildrenAugmented(n)
  PROVE  AugInv'
<1>1. /\ rb_child' = rb_child /\ rb_node' = rb_node /\ augmented' = augmented
      /\ pc # "add" /\ pc' \notin {"add", "find_add"}
  <2>1. CASE InsertRoot /\ augmented' = augmented
    BY <2>1 DEF InsertRoot, Return
  <2>2. CASE InsertDone /\ augmented' = augmented
    BY <2>2 DEF InsertDone, Return, tree
  <2>3. CASE InsertFlip /\ augmented' = augmented
    BY <2>3 DEF InsertFlip
  <2>4. CASE SuccessorStep /\ augmented' = augmented
    BY <2>4 DEF SuccessorStep, tree
  <2>5. CASE EraseFlip /\ augmented' = augmented
    BY <2>5 DEF EraseFlip, Return
  <2>6. ASSUME NEW n \in Node, EraseTwoChildren(n), augmented' = augmented
        PROVE  /\ rb_child' = rb_child /\ rb_node' = rb_node /\ augmented' = augmented
               /\ pc # "add" /\ pc' \notin {"add", "find_add"}
    BY <2>6 DEF EraseTwoChildren, tree
  <2>7. QED
    BY <2>1, <2>2, <2>3, <2>4, <2>5, <2>6 DEF RecolorAugmented, EraseTwoChildrenAugmented
<1>2. Members(Par') = Members(Par)
  BY <1>1, SameTree, SameMembers DEF ListInv
<1>3. augmented \in Values /\ Valued(augmented, rb_child', Members(Par'))
  BY <1>1, <1>2 DEF AugInv, Awaiting
<1>4. QED
  BY <1>1, <1>3, ValuesAtRest

\* The tree in the terms of a descent.
LEMMA TreeFacts ==
  ASSUME IInv
  PROVE  /\ rb_child \in Children /\ Par \in Parents /\ Tree(rb_node, rb_child, Par)
         /\ rb_node \in NodeOrNil
         /\ \A n \in Node : n \in Members(Par) <=> ~RB_EMPTY_NODE(n)
         /\ \A n \in Node : n \in Members(Par) <=> Par[n] # n
         /\ \A n \in Node, d \in Side : rb_child[n][d] # NULL => Par[rb_child[n][d]] = n /\ rb_child[n][d] # n
         /\ rb_node # NULL => Par[rb_node] = NULL
<1>1. TypeOK /\ Links
  BY DEF IInv
<1>2. /\ Par \in Parents
      /\ Tree(rb_node, rb_child, Par)
      /\ rb_node \in NodeOrNil
      /\ rb_child \in Children
      /\ \A n \in Node : Par[n] = rb_parent(n) /\ (Par[n] # n <=> ~RB_EMPTY_NODE(n))
  BY <1>1, LinksIsTree
<1>3. QED
  BY <1>2 DEF Members, Tree

\* A turn of the descent: the value of the node it comes to counts the new node, and the
\* value above is what follows from it.
LEMMA DescendKeepsValues ==
  ASSUME Callbacks, IInv, AugInv, DescendAugmented
  PROVE  AugInv'
<1> USE NodeAssumption
<1>1. /\ Slot(parent, dir) # NULL /\ pc = "add" /\ pc' = "add"
      /\ parent' = Slot(parent, dir) /\ node' = node
      /\ rb_child' = rb_child /\ rb_parent_color' = rb_parent_color
      /\ augmented' = [augmented EXCEPT ![parent'] = OnPath(@, node)]
  BY DEF DescendAugmented, Descend, tree, AugInv
<1>2. node \in Node /\ (parent # NULL => ~RB_EMPTY_NODE(parent)) /\ TypeOK
  BY <1>1 DEF IInv, Locals
<1>p. PICK p : p = parent'
  OBVIOUS
<1>3. p \in Node /\ ~RB_EMPTY_NODE(p) /\ p = Slot(parent, dir)
  BY <1>1, <1>2, <1>p, SlotIsLinked
<1>4. Members(Par)' = Members(Par)
  BY <1>1 DEF Members, Par, rb_parent
<1>5. /\ rb_child \in Children /\ Par \in Parents
      /\ \A n \in Node : n \in Members(Par) <=> ~RB_EMPTY_NODE(n)
      /\ \A n \in Node, d \in Side : rb_child[n][d] # NULL => Par[rb_child[n][d]] = n /\ rb_child[n][d] # n
      /\ rb_node # NULL => Par[rb_node] = NULL
  BY TreeFacts
<1>6. parent \in NodeOrNil /\ dir \in Side
  BY <1>2 DEF TypeOK
<1>7. /\ augmented \in Values
      /\ Valued(augmented, rb_child, Members(Par) \ {parent})
      /\ parent # NULL => augmented[parent] = OnPath(Compute(augmented, rb_child, parent), node)
  BY <1>1 DEF AugInv, Awaiting
<1>a. PICK a : a = augmented'
  OBVIOUS
<1>8. OnPath(augmented[p], node) \in Int
  BY <1>2, <1>3, <1>7 DEF Callbacks, Grows, Values
<1>9. a \in Values /\ \A n \in Node : a[n] = IF n = p THEN OnPath(augmented[p], node) ELSE augmented[n]
  BY <1>1, <1>3, <1>7, <1>8, <1>a, <1>p DEF Values
<1>10. p # parent
  <2>1. CASE parent = NULL
    BY <1>3, <2>1
  <2>2. CASE parent # NULL
    <3>1. p = rb_child[parent][dir]
      BY <1>3, <2>2 DEF Slot
    <3>2. QED
      BY <1>3, <1>5, <1>6, <2>2, <3>1 DEF NodeOrNil
  <2>3. QED
    BY <2>1, <2>2
<1>11. \A n \in Node, d \in Side : rb_child[n][d] = p => n = parent /\ d = dir
  <2>1. CASE parent = NULL
    <3>1. p = rb_node
      BY <1>3, <2>1 DEF Slot
    <3>2. QED
      BY <1>3, <1>5, <3>1
  <2>2. CASE parent # NULL
    <3>1. p = rb_child[parent][dir] /\ parent \in Node
      BY <1>3, <1>6, <2>2 DEF Slot, NodeOrNil
    <3>2. \A d \in Side : d # dir => rb_child[parent][d] # p
      <4>1. Tree(rb_node, rb_child, Par)
        BY TreeFacts
      <4>2. rb_child[parent][Opposite(dir)] # rb_child[parent][dir]
        BY <1>3, <1>6, <3>1, <4>1 DEF Tree
      <4>3. QED
        BY <1>6, <3>1, <4>2, Sides
    <3>3. p # NULL /\ Par[p] = parent
      BY <1>3, <1>5, <1>6, <3>1
    <3>4. ASSUME NEW n \in Node, NEW d \in Side, rb_child[n][d] = p PROVE n = parent /\ d = dir
      <4>1. n = parent
        BY <1>5, <3>3, <3>4
      <4>2. QED
        BY <3>2, <3>4, <4>1
    <3>5. QED
      BY <3>4
  <2>3. QED
    BY <2>1, <2>2
<1>12. ASSUME NEW n \in Members(Par), n # parent, n # p PROVE a[n] = Compute(a, rb_child, n)
  <2>1. n \in Node /\ \A d \in Side : rb_child[n][d] \in Node \cup {NULL} /\ rb_child[n][d] # p
    BY <1>5, <1>11, <1>12 DEF Children, NodeOrNil, Members
  <2>2. \A d \in Side : SameOn(d, n, augmented, rb_child, a, rb_child)
    BY <1>9, <2>1 DEF SameOn
  <2>3. Compute(a, rb_child, n) = Compute(augmented, rb_child, n)
    BY <1>5, <1>7, <1>9, <2>1, <2>2 DEF Callbacks, Computes
  <2>4. QED
    BY <1>7, <1>9, <1>12, <2>1, <2>3 DEF Valued
<1>13. ASSUME parent # NULL PROVE a[parent] = Compute(a, rb_child, parent)
  <2>1. parent \in Node /\ rb_child[parent][dir] = p
    BY <1>3, <1>6, <1>13 DEF Slot, NodeOrNil
  <2>2. GrownOn(dir, parent, node, augmented, rb_child, a, rb_child)
    BY <1>3, <1>9, <2>1 DEF GrownOn
  <2>3. Opposite(dir) \in Side /\ Opposite(dir) # dir
    BY <1>6, Sides
  <2>4. rb_child[parent][Opposite(dir)] # p /\ rb_child[parent][Opposite(dir)] \in Node \cup {NULL}
    BY <1>5, <1>11, <2>1, <2>3 DEF Children, NodeOrNil
  <2>5. SameOn(Opposite(dir), parent, augmented, rb_child, a, rb_child)
    BY <1>9, <2>4 DEF SameOn
  <2>6. Compute(a, rb_child, parent) = OnPath(Compute(augmented, rb_child, parent), node)
    BY <1>2, <1>5, <1>6, <1>7, <1>9, <2>1, <2>2, <2>5 DEF Callbacks, Grows
  <2>7. QED
    BY <1>7, <1>9, <1>10, <1>13, <2>1, <2>6
<1>14. a[p] = OnPath(Compute(a, rb_child, p), node)
  <2>1. \A d \in Side : rb_child[p][d] \in Node \cup {NULL} /\ rb_child[p][d] # p
    BY <1>3, <1>5 DEF Children, NodeOrNil
  <2>2. \A d \in Side : SameOn(d, p, augmented, rb_child, a, rb_child)
    BY <1>9, <2>1 DEF SameOn
  <2>3. Compute(a, rb_child, p) = Compute(augmented, rb_child, p)
    BY <1>3, <1>5, <1>7, <1>9, <2>2 DEF Callbacks, Computes
  <2>4. p \in Members(Par) \ {parent}
    BY <1>3, <1>5, <1>10
  <2>5. augmented[p] = Compute(augmented, rb_child, p)
    BY <1>7, <2>4 DEF Valued
  <2>6. QED
    BY <1>3, <1>9, <2>3, <2>5
<1>15. Valued(a, rb_child, Members(Par) \ {p})
  <2>1. NULL \notin Members(Par)
    BY DEF Members
  <2>2. QED
    BY <1>12, <1>13, <2>1 DEF Valued
<1>16. Awaiting' = {p}
  BY <1>1, <1>p DEF Awaiting
<1>17. QED
  BY <1>1, <1>4, <1>9, <1>14, <1>15, <1>16, <1>a, <1>p DEF AugInv, Valued

\* The new node is linked: everything above has counted it.
LEMMA LinkKeepsValues ==
  ASSUME Callbacks, IInv, AugInv, LinkAugmented
  PROVE  AugInv'
<1> USE NodeAssumption
<1>1. /\ Link /\ pc = "add" /\ pc' = "insert"
      /\ augmented' = [augmented EXCEPT ![node] = Alone(node)]
  BY DEF LinkAugmented, Link, AugInv
<1>2. IsLink(rb_node, rb_child, Par, rb_node', rb_child', Par', node, parent, dir) /\ IInv'
  BY <1>1, LinkKeepsIInv
<1>3. TypeOK /\ node \in Node /\ parent \in NodeOrNil /\ dir \in Side
  BY <1>1 DEF IInv, Locals, TypeOK
<1>4. /\ rb_child \in Children /\ Par \in Parents
      /\ \A n \in Node : n \in Members(Par) <=> Par[n] # n
      /\ \A n \in Node, d \in Side : rb_child[n][d] # NULL => Par[rb_child[n][d]] = n /\ rb_child[n][d] # n
  BY TreeFacts
<1>5. rb_child' \in Children
  BY <1>2 DEF IInv, TypeOK, Children
<1>ch. PICK ch \in Children : ch = rb_child'
  BY <1>5
<1>6. /\ Par[node] = node
      /\ parent # NULL => parent \in Node /\ Par[parent] # parent /\ rb_child[parent][dir] = NULL
      /\ \A m \in Node, e \in Side :
           ch[m][e] = IF m = node THEN NULL ELSE IF m = parent /\ e = dir THEN node ELSE rb_child[m][e]
      /\ \A m \in Node : Par'[m] = IF m = node THEN parent ELSE Par[m]
  BY <1>2, <1>3, <1>ch DEF IsLink, NodeOrNil
<1>7. Members(Par') = Members(Par) \cup {node}
  BY <1>3, <1>6 DEF Members
<1>8. /\ augmented \in Values
      /\ Valued(augmented, rb_child, Members(Par) \ {parent})
      /\ parent # NULL => augmented[parent] = OnPath(Compute(augmented, rb_child, parent), node)
  BY <1>1 DEF AugInv, Awaiting
<1>a. PICK a : a = augmented'
  OBVIOUS
<1>9. Alone(node) \in Int
  BY <1>3 DEF Callbacks, Computes
<1>10. a \in Values /\ \A n \in Node : a[n] = IF n = node THEN Alone(node) ELSE augmented[n]
  BY <1>1, <1>3, <1>8, <1>9, <1>a DEF Values
<1>11. \A n \in Node, d \in Side : rb_child[n][d] # node /\ rb_child[n][d] \in Node \cup {NULL}
  BY <1>3, <1>4, <1>6 DEF Children, NodeOrNil
<1>12. ASSUME NEW n \in Members(Par), n # parent PROVE a[n] = Compute(a, ch, n)
  <2>1. n \in Node /\ n # node
    BY <1>4, <1>6 DEF Members
  <2>2. \A d \in Side : SameOn(d, n, augmented, rb_child, a, ch)
    BY <1>6, <1>10, <1>11, <1>12, <2>1 DEF SameOn
  <2>3. Compute(a, ch, n) = Compute(augmented, rb_child, n)
    BY <1>4, <1>8, <1>10, <2>1, <2>2 DEF Callbacks, Computes
  <2>4. QED
    BY <1>8, <1>10, <1>12, <2>1, <2>3 DEF Valued
<1>13. ASSUME parent # NULL PROVE a[parent] = Compute(a, ch, parent)
  <2>1. parent \in Node /\ parent # node /\ ch[parent][dir] = node /\ rb_child[parent][dir] = NULL
    BY <1>3, <1>6, <1>13
  <2>2. GrownOn(dir, parent, node, augmented, rb_child, a, ch)
    BY <1>3, <1>10, <2>1 DEF GrownOn
  <2>3. Opposite(dir) \in Side /\ Opposite(dir) # dir
    BY <1>3, Sides
  <2>4. ch[parent][Opposite(dir)] = rb_child[parent][Opposite(dir)]
    BY <1>6, <2>1, <2>3
  <2>5. SameOn(Opposite(dir), parent, augmented, rb_child, a, ch)
    BY <1>10, <1>11, <2>1, <2>3, <2>4 DEF SameOn
  <2>6. Compute(a, ch, parent) = OnPath(Compute(augmented, rb_child, parent), node)
    BY <1>3, <1>4, <1>8, <1>10, <2>1, <2>2, <2>5 DEF Callbacks, Grows
  <2>7. QED
    BY <1>8, <1>10, <1>13, <2>1, <2>6
<1>14. a[node] = Compute(a, ch, node)
  <2>1. \A d \in Side : ch[node][d] = NULL
    BY <1>3, <1>6
  <2>2. QED
    BY <1>3, <1>10, <2>1 DEF Callbacks, Computes
<1>15. Valued(a, ch, Members(Par'))
  BY <1>7, <1>12, <1>13, <1>14 DEF Valued, Members
<1>16. QED
  BY <1>1, <1>10, <1>15, <1>a, <1>ch, ValuesAtRest

-----------------------------------------------------------------------------
(* The rotations. *)

\* The nodes that turn are linked.
LEMMA TurnsAreLinked ==
  ASSUME NEW par, NEW ch, NEW ch2, NEW p, NEW s, NEW d, TurnsAt(par, ch, ch2, p, s, d)
  PROVE  /\ p \in Members(par) /\ s \in Members(par)
         /\ \A g \in Node, e \in Side : ch2[g][e] = s /\ g # s => g \in Members(par)
<1> USE NodeAssumption
<1>1. /\ p \in Node /\ s \in Node /\ d \in Side /\ Opposite(d) \in Side
      /\ ch \in Children /\ ch2 \in Children
      /\ ch[p][Opposite(d)] = s
  BY Sides DEF TurnsAt
<1>2. \A n \in Node, e \in Side : ch[n][e] # NULL => par[ch[n][e]] = n /\ ch[n][e] # n /\ par[n] # n
  BY DEF TurnsAt, Tree
<1>3. p \in Members(par) /\ s \in Members(par)
  BY <1>1, <1>2 DEF Members
<1>4. ASSUME NEW g \in Node, NEW e \in Side, ch2[g][e] = s, g # s PROVE g \in Members(par)
  <2>1. CASE g = p
    BY <1>3, <2>1
  <2>2. CASE g # p
    <3>1. ch2[g][e] = ch[g][e] \/ ch[g][e] = p
      BY <1>4, <2>2, TurnsPointers
    <3>2. ch[g][e] # NULL
      BY <1>1, <1>4, <3>1
    <3>3. QED
      BY <1>2, <3>2 DEF Members
  <2>3. QED
    BY <2>1, <2>2
<1>5. QED
  BY <1>3, <1>4

TurnsOnce(aug, aug2, ch, ch2) ==
  \E p, s, d : TurnsAt(Par, ch, ch2, p, s, d) /\ aug2 = Rotated(aug, ch2, p, s)

TurnsOverTwice(aug, aug2, ch, ch2) ==
  \E p, g, x, d : /\ TurnsTwice(Par, ch, ch2, p, g, x, d)
                  /\ aug2 = Rotated(Rotated(aug, ch2, p, x), ch2, g, x)

\* A rotating step whose callbacks follow its rotations keeps all values right.
LEMMA RotationKeepsValues ==
  ASSUME Callbacks, IInv, IInv', AugInv, TreeTurned, pc # "add", pc' \notin {"add", "find_add"},
         \/ TurnsOnce(augmented, augmented', rb_child, rb_child')
         \/ TurnsOverTwice(augmented, augmented', rb_child, rb_child')
  PROVE  AugInv'
<1>S. PICK S : S = Members(Par)
  OBVIOUS
<1>1. Members(Par') = S
  BY <1>S, TurnSameList, SameMembers
<1>aug. PICK aug : aug = augmented
  OBVIOUS
<1>2. aug \in Values /\ Valued(aug, rb_child, S) /\ S \in SUBSET Node
  BY <1>S, <1>aug DEF AugInv, Awaiting, Members
<1>a. PICK a : a = augmented'
  OBVIOUS
<1>ch. PICK ch, ch2 : ch = rb_child /\ ch2 = rb_child'
  OBVIOUS
<1>3. a \in Values /\ Valued(a, ch2, S)
  <2>1. ASSUME NEW p, NEW s, NEW d, TurnsAt(Par, ch, ch2, p, s, d), a = Rotated(aug, ch2, p, s)
        PROVE  a \in Values /\ Valued(a, ch2, S)
    <3>1. p \in S /\ s \in S
      BY <1>S, <2>1, TurnsAreLinked
    <3>2. Valued(aug, ch, S)
      BY <1>2, <1>ch
    <3>3. QED
      BY <1>2, <2>1, <3>1, <3>2, TurnKeepsValues
  <2>2. ASSUME NEW p, NEW g, NEW x, NEW d, TurnsTwice(Par, ch, ch2, p, g, x, d),
               a = Rotated(Rotated(aug, ch2, p, x), ch2, g, x)
        PROVE  a \in Values /\ Valued(a, ch2, S)
    <3>1. PICK ch1, par1 : /\ TurnsAt(Par, ch, ch1, p, x, d)
                           /\ TurnsAt(par1, ch1, ch2, g, x, Opposite(d))
      BY <2>2 DEF TurnsTwice
    <3>2. /\ p \in S /\ x \in S
          /\ \A m \in Node, e \in Side : ch1[m][e] = x /\ m # x => m \in S
      BY <1>S, <3>1, TurnsAreLinked
    <3>3. g \in Node /\ d \in Side /\ ch1[g][Opposite(Opposite(d))] = x
      BY <3>1 DEF TurnsAt
    <3>4. Opposite(Opposite(d)) \in Side
      BY <3>3, Sides
    <3>o. PICK o : o = Opposite(d)
      OBVIOUS
    <3>5. TurnsAt(par1, ch1, ch2, g, x, o)
      BY <3>1, <3>o
    <3>6. HangsFrom(ch2, g, x, o)
      BY <3>5, TurnsPointers
    <3>7. g \in S
      BY <3>2, <3>3, <3>4, <3>6 DEF HangsFrom
    <3>8. Valued(aug, ch, S)
      BY <1>2, <1>ch
    <3>9. QED
      BY <1>2, <2>2, <3>2, <3>7, <3>8, TwoTurnsKeepValues
  <2>3. QED
    BY <2>1, <2>2, <1>aug, <1>a, <1>ch DEF TurnsOnce, TurnsOverTwice
<1>4. Valued(a, rb_child', Members(Par'))
  BY <1>1, <1>3, <1>ch
<1>5. QED
  BY <1>3, <1>4, <1>a, ValuesAtRest

\* __rb_insert: Case 2 and Case 3 with their callbacks.
LEMMA InsertRotateKeepsValues ==
  ASSUME Callbacks, IInv, AugInv, InsertRotateAugmented
  PROVE  AugInv'
<1>1. InsertRotate
  BY DEF InsertRotateAugmented
<1>2. IInv' /\ TreeTurned /\ InsertTurns
  BY <1>1, InsertRotateKeepsIInv
<1>3. pc = "insert" /\ pc' = "idle"
  BY <1>1 DEF InsertRotate, Return
<1>g. PICK g, d : g = rb_parent(parent) /\ d = SideOf(parent, g)
  OBVIOUS
<1>4. \/ TurnsOnce(augmented, augmented', rb_child, rb_child')
      \/ TurnsOverTwice(augmented, augmented', rb_child, rb_child')
  <2>1. ASSUME node = rb_child[parent][Opposite(d)]
        PROVE  TurnsOverTwice(augmented, augmented', rb_child, rb_child')
    <3>1. TurnsTwice(Par, rb_child, rb_child', parent, g, node, d)
      BY <1>2, <1>g, <2>1 DEF InsertTurns
    <3>2. augmented' = Rotated(Rotated(augmented, rb_child', parent, node), rb_child', g, node)
      BY <1>g, <2>1 DEF InsertRotateAugmented
    <3>3. QED
      BY <3>1, <3>2 DEF TurnsOverTwice
  <2>2. ASSUME node # rb_child[parent][Opposite(d)]
        PROVE  TurnsOnce(augmented, augmented', rb_child, rb_child')
    <3>1. TurnsAt(Par, rb_child, rb_child', g, parent, Opposite(d))
      BY <1>2, <1>g, <2>2 DEF InsertTurns
    <3>2. augmented' = Rotated(augmented, rb_child', g, parent)
      BY <1>g, <2>2 DEF InsertRotateAugmented
    <3>3. QED
      BY <3>1, <3>2 DEF TurnsOnce
  <2>3. QED
    BY <2>1, <2>2
<1>5. QED
  BY <1>2, <1>3, <1>4, RotationKeepsValues

\* ____rb_erase_color: the rotation of Case 1.
LEMMA EraseRedSiblingKeepsValues ==
  ASSUME Callbacks, IInv, AugInv, EraseRedSiblingAugmented
  PROVE  AugInv'
<1>1. EraseRedSibling /\ augmented' = Rotated(augmented, rb_child', parent, Sibling)
  BY DEF EraseRedSiblingAugmented
<1>2. IInv' /\ TreeTurned /\ RedSiblingTurns
  BY <1>1, EraseRedSiblingKeepsIInv
<1>3. pc = "erase_color" /\ pc' = "erase_color"
  BY <1>1 DEF EraseRedSibling
<1>4. TurnsOnce(augmented, augmented', rb_child, rb_child')
  BY <1>1, <1>2 DEF RedSiblingTurns, TurnsOnce
<1>5. QED
  BY <1>2, <1>3, <1>4, RotationKeepsValues

\* ... and the rotations of Cases 3 and 4.
LEMMA EraseRotateKeepsValues ==
  ASSUME Callbacks, IInv, AugInv, EraseRotateAugmented
  PROVE  AugInv'
<1>1. EraseRotate
  BY DEF EraseRotateAugmented
<1>2. IInv' /\ TreeTurned /\ EraseTurns
  BY <1>1, EraseRotateKeepsIInv
<1>3. pc = "erase_color" /\ pc' = "idle"
  BY <1>1 DEF EraseRotate, Return
<1>d. PICK d : d = SideOf(node, parent)
  OBVIOUS
<1>4. \/ TurnsOnce(augmented, augmented', rb_child, rb_child')
      \/ TurnsOverTwice(augmented, augmented', rb_child, rb_child')
  <2>1. ASSUME BlackOrNull(Nephew(Opposite(d)))
        PROVE  TurnsOverTwice(augmented, augmented', rb_child, rb_child')
    <3>1. TurnsTwice(Par, rb_child, rb_child', Sibling, parent, Nephew(d), Opposite(d))
      BY <1>2, <1>d, <2>1 DEF EraseTurns
    <3>2. augmented' = Rotated(Rotated(augmented, rb_child', Sibling, Nephew(d)),
                               rb_child', parent, Nephew(d))
      BY <1>d, <2>1 DEF EraseRotateAugmented
    <3>3. QED
      BY <3>1, <3>2 DEF TurnsOverTwice
  <2>2. ASSUME ~BlackOrNull(Nephew(Opposite(d)))
        PROVE  TurnsOnce(augmented, augmented', rb_child, rb_child')
    <3>1. TurnsAt(Par, rb_child, rb_child', parent, Sibling, d)
      BY <1>2, <1>d, <2>2 DEF EraseTurns
    <3>2. augmented' = Rotated(augmented, rb_child', parent, Sibling)
      BY <1>d, <2>2 DEF EraseRotateAugmented
    <3>3. QED
      BY <3>1, <3>2 DEF TurnsOnce
  <2>3. QED
    BY <2>1, <2>2
<1>5. QED
  BY <1>2, <1>3, <1>4, RotationKeepsValues

-----------------------------------------------------------------------------
(* The erasures. *)

\* In a whole tree the parents lead up to the root.
LEMMA WholeClimbs ==
  ASSUME NEW r, NEW ch, NEW par, Whole(r, ch, par), NEW w, \A n \in Node : w[n].parent = par[n],
         NEW Q \in SUBSET (Members(par) \cup {NULL}), NEW stop,
         \A n \in Q : n # stop => n # NULL /\ par[n] \in Q
  PROVE  \E h : Climbs(ch, w, Members(par), Q, stop, h)
<1> USE NodeAssumption
<1>1. PICK h : Walked(r, ch, par, h)
  BY WholeIsWalked
<1>2. \A n \in Members(par) : n \in Node /\ par[n] # n /\ n # NULL
  BY DEF Members
<1>3. \A n \in Members(par) : h[n] \in 1..Max
  BY <1>1 DEF Walked, Shaped
<1>4. \A n \in Members(par) : par[n] \in Members(par) => h[n] < h[par[n]]
  <2> SUFFICES ASSUME NEW n \in Members(par), par[n] \in Members(par) PROVE h[n] < h[par[n]]
    OBVIOUS
  <2>1. PICK d \in TwoSides : ch[par[n]][d] = n
    BY <1>1, <1>2 DEF Walked, Rooted
  <2>2. QED
    BY <1>1, <1>2, <2>1 DEF Walked, Shaped, Below
<1>5. \A n \in Members(par), d \in Side : ch[n][d] # NULL => par[ch[n][d]] = n /\ ch[n][d] # n
  BY <1>2 DEF Whole, Tree
<1>6. \A n \in Members(par), d \in Side : ch[n][d] # NULL => ch[n][d] \in Node
  BY <1>2 DEF Whole, Children, NodeOrNil
<1>7. \A n \in Q : n # stop => n \in Members(par)
  OBVIOUS
<1>8. Members(par) \in SUBSET Node
  BY DEF Members
<1>9. Climbs(ch, w, Members(par), Q, stop, h)
  BY <1>2, <1>3, <1>4, <1>5, <1>6, <1>7, <1>8 DEF Climbs
<1>10. QED
  BY <1>9

\* propagate up to the root.
LEMMA PropagateToRoot ==
  ASSUME Callbacks, NEW r, NEW ch, NEW par, Whole(r, ch, par),
         NEW w, \A n \in Node : w[n].parent = par[n],
         NEW aug \in Values, NEW from \in Members(par) \cup {NULL},
         \A n \in Members(par) : n # from => aug[n] = Compute(aug, ch, n)
  PROVE  /\ Propagated(aug, ch, w, from, NULL) \in Values
         /\ Valued(Propagated(aug, ch, w, from, NULL), ch, Members(par))
<1> USE NodeAssumption
<1>Q. PICK Q : Q = Members(par) \cup {NULL}
  OBVIOUS
<1>1. \A n \in Q : n # NULL => n # NULL /\ par[n] \in Q
  <2>1. PICK h : Walked(r, ch, par, h)
    BY WholeIsWalked
  <2>2. QED
    BY <1>Q, <2>1 DEF Walked, Rooted
<1>2. PICK h : Climbs(ch, w, Members(par), Q, NULL, h)
  BY <1>Q, <1>1, WholeClimbs
<1>3. ch \in Children
  BY DEF Whole
<1>S. PICK S : S = Members(par)
  OBVIOUS
<1>p. PICK p : p = Propagated(aug, ch, w, from, NULL)
  OBVIOUS
<1>4. p \in Values /\ Valued(p, ch, S \ {NULL})
  <2>1. Climbs(ch, w, S, Q, NULL, h) /\ from \in Q
    BY <1>2, <1>S, <1>Q
  <2>2. \A n \in S : n # from /\ n # NULL => aug[n] = Compute(aug, ch, n)
    BY <1>S
  <2>3. QED
    BY <1>3, <1>p, <2>1, <2>2, PropagateSetsRight
<1>5. S \ {NULL} = S
  BY <1>S DEF Members
<1>6. QED
  BY <1>4, <1>5, <1>p, <1>S

\* The value of an erased node is dead.
LEMMA ForgetKeepsValues ==
  ASSUME Callbacks, NEW r, NEW ch, NEW par, Whole(r, ch, par),
         NEW aug \in Values, Valued(aug, ch, Members(par)), NEW x \in Node, x \notin Members(par)
  PROVE  Forget(aug, x) \in Values /\ Valued(Forget(aug, x), ch, Members(par))
<1> USE NodeAssumption
<1>a. PICK a : a = Forget(aug, x)
  OBVIOUS
<1>1. a \in Values /\ \A n \in Node : n # x => a[n] = aug[n]
  BY <1>a DEF Forget, Values
<1>2. ASSUME NEW n \in Members(par) PROVE a[n] = Compute(a, ch, n)
  <2>1. n \in Node /\ n # x /\ ch \in Children
    BY <1>2 DEF Members, Whole
  <2>2. \A d \in Side : ch[n][d] \in Node \cup {NULL}
    BY <2>1 DEF Children, NodeOrNil
  <2>3. \A d \in Side : ch[n][d] # x
    BY <2>1 DEF Members, Whole, Tree
  <2>4. \A d \in Side : SameOn(d, n, aug, ch, a, ch)
    BY <1>1, <2>2, <2>3 DEF SameOn
  <2>5. Compute(a, ch, n) = Compute(aug, ch, n)
    BY <1>1, <2>1, <2>4 DEF Callbacks, Computes
  <2>6. QED
    BY <1>1, <1>2, <2>1, <2>5 DEF Valued
<1>3. QED
  BY <1>1, <1>2, <1>a DEF Valued

\* Erasing a node with at most one child, and the way up from there.
LEMMA EraseOneChildKeepsValues ==
  ASSUME Callbacks, IInv, AugInv, NEW x \in Node, EraseOneChildAugmented(x)
  PROVE  AugInv'
<1> USE NodeAssumption
<1>1. /\ EraseOneChild(x)
      /\ augmented' = Forget(Propagated(augmented, rb_child', rb_parent_color', rb_parent(x), NULL), x)
  BY DEF EraseOneChildAugmented
<1>2. IInv' /\ IsSplice(rb_node, rb_child, Par, rb_node', rb_child', Par', x)
  BY <1>1, EraseOneChildKeepsIInv
<1>3. pc = "idle" /\ pc' \notin {"add", "find_add"}
  BY <1>1 DEF EraseOneChild, Rebalance, Return
<1>4. Whole(rb_node, rb_child, Par) /\ Whole(rb_node', rb_child', Par')
  BY <1>2, MemoryIsWhole, NextIsWhole
<1>5. Members(Par') = Members(Par) \ {x} /\ x \in Members(Par)
  BY <1>2, <1>4, SplicedWhole
<1>6. \A n \in Node : rb_parent_color'[n].parent = Par'[n]
  BY DEF Par, rb_parent
<1>v. PICK r2, ch2, par2, w2 : r2 = rb_node' /\ ch2 = rb_child' /\ par2 = Par' /\ w2 = rb_parent_color'
  OBVIOUS
<1>aug. PICK aug, from : aug = augmented /\ from = rb_parent(x)
  OBVIOUS
<1>7. aug \in Values /\ Valued(aug, rb_child, Members(Par))
  BY <1>3, <1>aug DEF AugInv, Awaiting
<1>8. Whole(r2, ch2, par2) /\ IsSplice(rb_node, rb_child, Par, r2, ch2, par2, x)
      /\ \A n \in Node : w2[n].parent = par2[n]
  BY <1>2, <1>4, <1>6, <1>v
<1>9. Members(par2) = Members(Par) \ {x} /\ from = Par[x]
  BY <1>5, <1>v, <1>aug DEF Par
<1>S. PICK S : S = Members(Par) /\ S \in SUBSET Node
  BY DEF Members
<1>10. Valued(aug, ch2, S \ {x, from})
  <2>1. rb_child \in Children /\ Par \in Parents /\ Tree(rb_node, rb_child, Par) /\ ch2 \in Children
    BY <1>4, <1>8 DEF Whole
  <2>2. Valued(aug, rb_child, S)
    BY <1>7, <1>S
  <2>3. Valued(aug, ch2, S \ {x, Par[x]})
    BY <1>7, <1>8, <1>S, <2>1, <2>2, SpliceKeepsValues
  <2>4. QED
    BY <1>9, <2>3
<1>11. from \in Members(par2) \cup {NULL}
  <2>1. PICK h : Walked(rb_node, rb_child, Par, h)
    BY <1>4, WholeIsWalked
  <2>2. from \in Members(Par) \cup {NULL}
    BY <1>5, <1>9, <2>1 DEF Walked, Rooted
  <2>3. from # x
    BY <1>5, <1>9 DEF Members
  <2>4. QED
    BY <1>9, <2>2, <2>3
<1>p. PICK p : p = Propagated(aug, ch2, w2, from, NULL)
  OBVIOUS
<1>12. p \in Values /\ Valued(p, ch2, Members(par2))
  <2>1. \A n \in Members(par2) : n # from => aug[n] = Compute(aug, ch2, n)
    BY <1>9, <1>10, <1>S DEF Valued
  <2>2. QED
    BY <1>7, <1>8, <1>11, <1>p, <2>1, PropagateToRoot
<1>13. Forget(p, x) \in Values /\ Valued(Forget(p, x), ch2, Members(par2))
  BY <1>8, <1>9, <1>12, ForgetKeepsValues
<1>14. augmented' = Forget(p, x)
  BY <1>1, <1>v, <1>aug, <1>p
<1>15. QED
  BY <1>3, <1>13, <1>14, <1>v, ValuesAtRest

\* What the successor and its old parent are in the tree.
LEMMA SuccessorFacts ==
  ASSUME ListInv, EraseSuccessor
  PROVE  /\ node \in Members(Par) /\ successor \in Members(Par) /\ parent \in Members(Par)
         /\ successor # node /\ parent # node
         /\ Par[successor] = IF parent = successor THEN node ELSE parent
         /\ parent \in Nodes(Walk(rb_child), node)
         /\ successor \in Nodes(Walk(rb_child), node)
<1>1. IInv /\ pc = "successor" /\ rb_child[successor]["left"] = NULL /\ Search
  BY DEF ListInv, EraseSuccessor
<1>2. PICK B \in [Node -> Nat] : Labels(B)
  BY <1>1 DEF IInv
<1>3. /\ node \in Node /\ successor \in Node /\ parent \in Node
      /\ Par[node] # node
      /\ rb_child[node]["right"] \in Node
      /\ Par[successor] = IF parent = successor THEN node ELSE parent
      /\ Par[successor] # successor
      /\ successor # node /\ parent # node
  BY <1>1, <1>2, AroundSuccessor DEF Side
<1>4. node \in Members(Par) /\ successor \in Members(Par)
  BY <1>3 DEF Members
<1>5. PICK h : /\ Shaped(rb_child, Par, Members(Par), NULL, h, Max)
               /\ Rooted(rb_child, Par, rb_node, Members(Par), NULL)
               /\ IsInOrder(Walk(rb_child), rb_child, Members(Par), NULL)
  BY <1>1, TreeHere
<1>6. parent \in Members(Par)
  <2>1. CASE parent = successor
    BY <1>4, <2>1
  <2>2. CASE parent # successor
    BY <1>3, <1>4, <1>5, <2>2, NodeAssumption DEF Rooted
  <2>3. QED
    BY <2>1, <2>2
<1>7. successor \in Nodes(Walk(rb_child), node)
  <2>1. PICK t, u, Z : /\ t = Walk(rb_child)[rb_child[node]["right"]]
                       /\ u = Walk(rb_child)[successor]
                       /\ Z \in Seq(Node) /\ t = u \o Z
    BY <1>1 DEF Search, First
  <2>2. u \in Seq(Node)
    BY <1>1, <1>4, <2>1, ListsHere
  <2>3. successor \in Elements(u)
    BY <1>4, <1>5, <2>1, MaxType, NodesBelow DEF Nodes
  <2>4. successor \in Elements(t)
    BY <2>1, <2>2, <2>3, ConcatElements
  <2>5. Nodes(Walk(rb_child), rb_child[node]["right"]) \subseteq Nodes(Walk(rb_child), node)
    <3>1. Whole(rb_node, rb_child, Par)
      BY <1>1, MemoryIsWhole
    <3>2. "right" \in Side
      BY DEF Side
    <3>3. QED
      BY <1>4, <3>1, <3>2, NodesInWhole
  <2>6. QED
    BY <2>1, <2>4, <2>5 DEF Nodes
<1>8. parent \in Nodes(Walk(rb_child), node)
  BY <1>3, <1>4, <1>5, <1>7, MaxType, NodesBelow
<1>9. QED
  BY <1>3, <1>4, <1>6, <1>7, <1>8

\* Parent pointers from below the erased node lead to the successor that replaces it.
LEMMA WayToSuccessor ==
  ASSUME ListInv, EraseSuccessor, SuccessorMoved, parent # successor,
         NEW Q, Q = Nodes(Walk(rb_child), node) \ {node}
  PROVE  /\ Q \in SUBSET (Members(Par') \cup {NULL})
         /\ parent \in Q
         /\ \A n \in Q : n # successor => n # NULL /\ Par'[n] \in Q
<1> USE NodeAssumption
<1>1. /\ node \in Members(Par) /\ successor \in Members(Par) /\ parent \in Members(Par)
      /\ successor # node /\ parent # node
      /\ Par[successor] = parent
      /\ parent \in Nodes(Walk(rb_child), node)
      /\ successor \in Nodes(Walk(rb_child), node)
  BY SuccessorFacts
<1>2. IInv
  BY DEF ListInv
<1>3. Whole(rb_node, rb_child, Par)
  BY <1>2, MemoryIsWhole
<1>4. Nodes(Walk(rb_child), node) \subseteq Members(Par)
  BY <1>1, <1>3, NodesInWhole
<1>5. PICK h : /\ Shaped(rb_child, Par, Members(Par), NULL, h, Max)
               /\ IsInOrder(Walk(rb_child), rb_child, Members(Par), NULL)
  BY <1>2, TreeHere
<1>6. \A m \in Nodes(Walk(rb_child), node) : m # node => Par[m] \in Nodes(Walk(rb_child), node)
  BY <1>1, <1>5, MaxType, NodesBelow
<1>7. PICK r1, ch1, par1 :
          /\ IsSplice(rb_node, rb_child, Par, r1, ch1, par1, successor)
          /\ IsSwap(r1, ch1, par1, rb_node', rb_child', Par', node, successor)
  BY DEF SuccessorMoved
<1>8. PICK c \in NodeOrNil : par1 = SplicedPar(Par, successor, c)
  BY <1>7 DEF IsSplice
<1>9. \A n \in Node : par1[n] = IF n = successor THEN successor ELSE IF n = c THEN parent ELSE Par[n]
  BY <1>1, <1>8 DEF SplicedPar
<1>10. \A n \in Node : n # node /\ n # successor =>
         Par'[n] = IF par1[n] = node THEN successor ELSE par1[n]
  BY <1>7 DEF IsSwap, SwappedPar
<1>11. \A n \in Q : n \in Node /\ n # node /\ n \in Nodes(Walk(rb_child), node)
  BY <1>4 DEF Members
<1>12. parent \in Q /\ successor \in Q
  BY <1>1
<1>13. ASSUME NEW n \in Q, n # successor PROVE Par'[n] \in Q
  <2>1. Par'[n] = IF par1[n] = node THEN successor ELSE par1[n]
    BY <1>10, <1>11, <1>13
  <2>2. par1[n] = IF n = c THEN parent ELSE Par[n]
    BY <1>9, <1>11, <1>13
  <2>3. Par[n] \in Nodes(Walk(rb_child), node)
    BY <1>6, <1>11
  <2>4. QED
    BY <1>1, <1>12, <2>1, <2>2, <2>3
<1>14. Q \subseteq Members(Par')
  <2>1. Members(par1) = Members(Par) \ {successor}
    BY <1>1, <1>3, <1>7, SplicedWhole DEF Members
  <2>2. ASSUME NEW n \in Q PROVE n \in Members(Par')
    <3>1. CASE n = successor
      <4>1. Par'[successor] = par1[node]
        BY <1>1, <1>7 DEF IsSwap, SwappedPar, Members
      <4>2. par1[node] # successor
        <5>1. Whole(r1, ch1, par1)
          BY <1>1, <1>3, <1>7, SplicedWhole DEF Members
        <5>2. node \in Members(par1)
          BY <1>1, <2>1
        <5>3. par1[node] \in Members(par1) \cup {NULL}
          BY <5>1, <5>2, WholeIsWalked DEF Walked, Rooted
        <5>4. QED
          BY <1>1, <2>1, <5>3 DEF Members
      <4>3. QED
        BY <1>1, <3>1, <4>1, <4>2 DEF Members
    <3>2. CASE n # successor
      <4>1. n \in Members(par1) /\ n # node /\ n \in Node
        BY <1>4, <1>11, <2>1, <3>2
      <4>2. Par'[n] = IF par1[n] = node THEN successor ELSE par1[n]
        BY <1>10, <3>2, <4>1
      <4>3. QED
        BY <3>2, <4>1, <4>2 DEF Members
    <3>3. QED
      BY <3>1, <3>2
  <2>3. QED
    BY <2>2
<1>15. QED
  BY <1>11, <1>12, <1>13, <1>14

\* The values right after the successor was moved: only its own and that of its old parent
\* may be wrong.
LEMMA MovedValues ==
  ASSUME Callbacks, ListInv, IInv', EraseSuccessor, SuccessorMoved,
         NEW aug \in Values, Valued(aug, rb_child, Members(Par))
  PROVE  /\ [aug EXCEPT ![successor] = aug[node]] \in Values
         /\ Valued([aug EXCEPT ![successor] = aug[node]], rb_child',
                   Members(Par') \ {successor, parent})
         /\ node \in Node /\ node \notin Members(Par')
         /\ successor \in Members(Par')
<1> USE NodeAssumption
<1>1. /\ node \in Members(Par) /\ successor \in Members(Par)
      /\ successor # node /\ parent # node
      /\ Par[successor] = IF parent = successor THEN node ELSE parent
  BY SuccessorFacts
<1>2. IInv
  BY DEF ListInv
<1>3. Whole(rb_node, rb_child, Par) /\ Whole(rb_node', rb_child', Par')
  BY <1>2, MemoryIsWhole, NextIsWhole
<1>v. PICK r2, ch2, par2 : r2 = rb_node' /\ ch2 = rb_child' /\ par2 = Par'
  OBVIOUS
<1>4. PICK r1, ch1, par1 :
          /\ IsSplice(rb_node, rb_child, Par, r1, ch1, par1, successor)
          /\ IsSwap(r1, ch1, par1, r2, ch2, par2, node, successor)
  BY <1>v DEF SuccessorMoved
<1>5. node \in Node /\ successor \in Node
  BY <1>1 DEF Members
<1>6. Whole(r1, ch1, par1) /\ Members(par1) = Members(Par) \ {successor}
  BY <1>3, <1>4, <1>5, SplicedWhole
<1>7. /\ rb_child \in Children /\ Par \in Parents /\ Tree(rb_node, rb_child, Par)
      /\ ch1 \in Children /\ par1 \in Parents /\ Tree(r1, ch1, par1)
      /\ ch2 \in Children
  BY <1>3, <1>6, <1>v DEF Whole
<1>S. PICK S : S = Members(Par) /\ S \in SUBSET Node
  BY DEF Members
<1>8. Valued(aug, rb_child, S)
  BY <1>S
<1>9. Valued(aug, ch1, S \ {successor, Par[successor]})
  <2>v. PICK r0, ch0, par0, x : r0 = rb_node /\ ch0 = rb_child /\ par0 = Par /\ x = successor
    OBVIOUS
  <2>1. /\ ch0 \in Children /\ par0 \in Parents /\ Tree(r0, ch0, par0)
        /\ ch1 \in Children /\ x \in Node
        /\ IsSplice(r0, ch0, par0, r1, ch1, par1, x)
        /\ S \in SUBSET Node /\ Valued(aug, ch0, S)
    BY <1>4, <1>5, <1>7, <1>8, <1>S, <2>v
  <2>2. Valued(aug, ch1, S \ {x, par0[x]})
    BY <2>1, SpliceKeepsValues
  <2>3. QED
    BY <2>2, <2>v
<1>T. PICK T \in SUBSET Node : T = S \ {successor, Par[successor]}
  BY <1>S
<1>10. /\ [aug EXCEPT ![successor] = aug[node]] \in Values
       /\ Valued([aug EXCEPT ![successor] = aug[node]], ch2, T \ {node, successor})
  <2>1. Valued(aug, ch1, T)
    BY <1>9, <1>T
  <2>2. QED
    BY <1>4, <1>5, <1>7, <2>1, SwapKeepsValues
<1>11. Members(par2) = (Members(par1) \ {node}) \cup {successor}
  <2>1. \A n \in Node : par2[n] = IF n = node THEN node ELSE IF n = successor THEN par1[node]
                                  ELSE IF par1[n] = node THEN successor ELSE par1[n]
    BY <1>4 DEF IsSwap, SwappedPar
  <2>2. node \in Members(par1) /\ par1[successor] = successor
    BY <1>1, <1>4, <1>6 DEF IsSwap
  <2>3. par1[node] \in Members(par1) \cup {NULL}
    BY <1>6, <2>2, WholeIsWalked DEF Walked, Rooted
  <2>4. par1[node] # successor
    BY <1>5, <1>6, <2>3
  <2>5. ASSUME NEW n \in Node PROVE n \in Members(par2) <=> n \in (Members(par1) \ {node}) \cup {successor}
    BY <1>1, <1>5, <2>1, <2>2, <2>4 DEF Members
  <2>6. QED
    BY <1>5, <2>5 DEF Members
<1>12. Members(par2) \ {successor, parent} \subseteq T \ {node, successor}
  BY <1>1, <1>6, <1>11, <1>S, <1>T
<1>13. Valued([aug EXCEPT ![successor] = aug[node]], ch2, Members(par2) \ {successor, parent})
  BY <1>10, <1>12 DEF Valued
<1>14. QED
  BY <1>1, <1>5, <1>10, <1>11, <1>13, <1>v

\* Erasing a node whose place its successor takes.
LEMMA EraseSuccessorKeepsValues ==
  ASSUME Callbacks, ListInv, AugInv, EraseSuccessorAugmented
  PROVE  AugInv'
<1> USE NodeAssumption
<1>1. EraseSuccessor /\ IInv
  BY DEF EraseSuccessorAugmented, ListInv
<1>2. IInv' /\ SuccessorMoved
  BY <1>1, EraseSuccessorKeepsIInv
<1>3. pc = "successor" /\ pc' \notin {"add", "find_add"}
  BY <1>1 DEF EraseSuccessor, Rebalance, Return
<1>v. PICK r2, ch2, par2, w2 : r2 = rb_node' /\ ch2 = rb_child' /\ par2 = Par' /\ w2 = rb_parent_color'
  OBVIOUS
<1>l. PICK aug, s, p, x : aug = augmented /\ s = successor /\ p = parent /\ x = node
  OBVIOUS
<1>4. aug \in Values /\ Valued(aug, rb_child, Members(Par))
  BY <1>3, <1>l DEF AugInv, Awaiting
<1>5. Whole(r2, ch2, par2) /\ \A n \in Node : w2[n].parent = par2[n]
  <2>1. \A n \in Node : rb_parent_color'[n].parent = Par'[n]
    BY DEF Par, rb_parent
  <2>2. QED
    BY <1>2, <1>v, <2>1, NextIsWhole
<1>c. PICK copied : copied = [aug EXCEPT ![s] = aug[x]]
  OBVIOUS
<1>6. /\ copied \in Values
      /\ Valued(copied, ch2, Members(par2) \ {s, p})
      /\ x \in Node /\ x \notin Members(par2)
      /\ s \in Members(par2)
  <2>1. /\ [aug EXCEPT ![successor] = aug[node]] \in Values
        /\ Valued([aug EXCEPT ![successor] = aug[node]], rb_child',
                   Members(Par') \ {successor, parent})
        /\ node \in Node /\ node \notin Members(Par')
        /\ successor \in Members(Par')
    BY <1>1, <1>2, <1>4, MovedValues
  <2>2. QED
    BY <2>1, <1>v, <1>l, <1>c
<1>b. PICK below : below = IF p = s THEN copied ELSE Propagated(copied, ch2, w2, p, s)
  OBVIOUS
<1>7. below \in Values /\ Valued(below, ch2, Members(par2) \ {s})
  <2>1. CASE p = s
    BY <1>6, <1>b, <2>1 DEF Valued
  <2>2. CASE p # s
    <3>Q. PICK Q : Q = Nodes(Walk(rb_child), node) \ {node}
      OBVIOUS
    <3>1. /\ Q \in SUBSET (Members(par2) \cup {NULL})
          /\ p \in Q
          /\ \A n \in Q : n # s => n # NULL /\ par2[n] \in Q
      <4>1. /\ Q \in SUBSET (Members(Par') \cup {NULL})
            /\ parent \in Q
            /\ \A n \in Q : n # successor => n # NULL /\ Par'[n] \in Q
        BY <1>1, <1>2, <1>l, <2>2, <3>Q, WayToSuccessor
      <4>2. QED
        BY <4>1, <1>v, <1>l
    <3>2. PICK h : Climbs(ch2, w2, Members(par2), Q, s, h)
      BY <1>5, <3>1, WholeClimbs
    <3>S. PICK S : S = Members(par2)
      OBVIOUS
    <3>3. Climbs(ch2, w2, S, Q, s, h)
      BY <3>2, <3>S
    <3>4. \A n \in S : n # p /\ n # s => copied[n] = Compute(copied, ch2, n)
      BY <1>6, <3>S DEF Valued
    <3>5. ch2 \in Children
      BY <1>5 DEF Whole
    <3>6. /\ Propagated(copied, ch2, w2, p, s) \in Values
          /\ Valued(Propagated(copied, ch2, w2, p, s), ch2, S \ {s})
      BY <1>6, <3>1, <3>3, <3>4, <3>5, PropagateSetsRight
    <3>7. QED
      BY <1>b, <2>2, <3>6, <3>S
  <2>3. QED
    BY <2>1, <2>2
<1>p. PICK a : a = Propagated(below, ch2, w2, s, NULL)
  OBVIOUS
<1>8. a \in Values /\ Valued(a, ch2, Members(par2))
  <2>1. \A n \in Members(par2) : n # s => below[n] = Compute(below, ch2, n)
    BY <1>7 DEF Valued
  <2>2. s \in Members(par2) \cup {NULL}
    BY <1>6
  <2>3. QED
    BY <1>5, <1>7, <1>p, <2>1, <2>2, PropagateToRoot
<1>9. Forget(a, x) \in Values /\ Valued(Forget(a, x), ch2, Members(par2))
  BY <1>5, <1>6, <1>8, ForgetKeepsValues
<1>10. augmented' = Forget(a, x)
  BY <1>v, <1>l, <1>c, <1>b, <1>p DEF EraseSuccessorAugmented
<1>11. QED
  BY <1>3, <1>9, <1>10, <1>v, ValuesAtRest

-----------------------------------------------------------------------------
\* The empty tree has no value that could be wrong.
LEMMA InitValues ==
  ASSUME AugmentedInit
  PROVE  ListInv /\ AugInv
<1>1. Init /\ augmented = [n \in Node |-> 0]
  BY DEF AugmentedInit
<1>2. ListInv
  BY <1>1, InitList
<1>3. Members(Par) = {} /\ pc = "idle"
  BY <1>1 DEF Init, Members, Par, rb_parent, ClearWord, Word
<1>4. augmented \in Values
  BY <1>1 DEF Values
<1>5. QED
  BY <1>2, <1>3, <1>4 DEF AugInv, Valued

\* Every step and its callbacks keep all values right.
LEMMA NextKeepsValues ==
  ASSUME Callbacks, ListInv, AugInv, [AugmentedNext]_augmentedVars
  PROVE  ListInv' /\ AugInv'
<1>1. IInv
  BY DEF ListInv
<1>2. ListInv'
  BY AugmentedStep, NextKeepsList
<1>3. AugInv'
  <2>1. ASSUME NEW n \in Node, AddAugmented(n) PROVE AugInv'
    BY <1>1, <2>1, AddKeepsValues
  <2>2. ASSUME NEW n \in Node, EraseOneChildAugmented(n) PROVE AugInv'
    BY <1>1, <2>2, EraseOneChildKeepsValues
  <2>3. ASSUME NEW n \in Node, EraseTwoChildrenAugmented(n) PROVE AugInv'
    BY <1>2, <2>3, RecolorKeepsValues
  <2>4. CASE DescendAugmented
    BY <1>1, <2>4, DescendKeepsValues
  <2>5. CASE LinkAugmented
    BY <1>1, <2>5, LinkKeepsValues
  <2>6. CASE InsertRotateAugmented
    BY <1>1, <2>6, InsertRotateKeepsValues
  <2>7. CASE EraseSuccessorAugmented
    BY <2>7, EraseSuccessorKeepsValues
  <2>8. CASE EraseRedSiblingAugmented
    BY <1>1, <2>8, EraseRedSiblingKeepsValues
  <2>9. CASE EraseRotateAugmented
    BY <1>1, <2>9, EraseRotateKeepsValues
  <2>10. CASE RecolorAugmented
    BY <1>2, <2>10, RecolorKeepsValues
  <2>11. CASE UNCHANGED augmentedVars
    BY <2>11 DEF augmentedVars, vars, tree, locals, AugInv, Awaiting, Valued, Members, Par, rb_parent
  <2>12. QED
    BY <2>1, <2>2, <2>3, <2>4, <2>5, <2>6, <2>7, <2>8, <2>9, <2>10, <2>11 DEF AugmentedNext
<1>4. QED
  BY <1>2, <1>3

\* Whatever callbacks compute a value from those of the children and know what a new node
\* and a rotation do to it, the values are right in every state.
LEMMA ValuesAlwaysRight == ASSUME Callbacks PROVE AugmentedSpec => [](ListInv /\ AugInv)
<1>1. AugmentedInit => ListInv /\ AugInv
  BY InitValues
<1>2. ListInv /\ AugInv /\ [AugmentedNext]_augmentedVars => (ListInv /\ AugInv)'
  BY NextKeepsValues
<1>3. QED
  BY <1>1, <1>2, PTL DEF AugmentedSpec

-----------------------------------------------------------------------------
(* The callbacks of RB_DECLARE_CALLBACKS_MAX. *)

MaxCallbacks ==
  /\ val \in [Node -> Int]
  /\ \A n \in Node : Alone(n) = OwnMax(n)
  /\ \A v \in Int, n \in Node : OnPath(v, n) = OnPathMax(v, n)
  /\ \A aug \in Values, ch \in Children, n \in Node : Compute(aug, ch, n) = ComputeMax(aug, ch, n)
  /\ \A aug \in Values, ch \in Children, old, new \in Node :
       Rotated(aug, ch, old, new) = RotatedMax(aug, ch, old, new)

\* v is the largest of the val of n and the values of its children.
Tops(v, aug, ch, n) ==
  /\ val[n] =< v
  /\ \A d \in Side : ch[n][d] # NULL => aug[ch[n][d]] =< v
  /\ v = val[n] \/ \E d \in Side : ch[n][d] # NULL /\ v = aug[ch[n][d]]

\* augment_callbacks_compute_max finds that value.
LEMMA ComputeMaxTops ==
  ASSUME val \in [Node -> Int], NEW aug \in Values, NEW ch \in Children, NEW n \in Node
  PROVE  /\ ComputeMax(aug, ch, n) \in Int
         /\ \A v \in Int : Tops(v, aug, ch, n) <=> v = ComputeMax(aug, ch, n)
<1> DEFINE V == {val[n]} \cup {aug[ch[n][d]] : d \in {e \in Side : ch[n][e] # NULL}}
<1>1. ComputeMax(aug, ch, n) = CHOOSE v \in V : \A u \in V : u =< v
  BY DEF ComputeMax
<1>2. val[n] \in Int /\ \A d \in Side : ch[n][d] # NULL => aug[ch[n][d]] \in Int
  BY DEF Values, Children, NodeOrNil
<1>3. V \subseteq Int
  BY <1>2
<1>4. \A v \in Int : Tops(v, aug, ch, n) <=> v \in V /\ \A u \in V : u =< v
  BY DEF Tops
<1>5. \E v \in V : \A u \in V : u =< v
  <2>1. PICK l, r : l = ch[n]["left"] /\ r = ch[n]["right"]
    OBVIOUS
  <2>2. \A u : u \in V <=> u = val[n] \/ (l # NULL /\ u = aug[l]) \/ (r # NULL /\ u = aug[r])
    BY <2>1 DEF Side
  <2>3. (l # NULL => aug[l] \in Int) /\ (r # NULL => aug[r] \in Int)
    BY <1>2, <2>1 DEF Side
  <2> HIDE DEF V
  <2>4. QED
    BY <1>2, <2>2, <2>3
<1> HIDE DEF V
<1>6. ComputeMax(aug, ch, n) \in V /\ \A u \in V : u =< ComputeMax(aug, ch, n)
  BY <1>1, <1>5
<1>m. PICK m : m = ComputeMax(aug, ch, n)
  OBVIOUS
<1>7. m \in Int /\ m \in V /\ \A u \in V : u =< m
  BY <1>3, <1>6, <1>m
<1>8. ASSUME NEW v \in Int PROVE Tops(v, aug, ch, n) <=> v = m
  <2>1. Tops(v, aug, ch, n) => v = m
    BY <1>4, <1>7
  <2>2. v = m => Tops(v, aug, ch, n)
    BY <1>4, <1>7
  <2>3. QED
    BY <2>1, <2>2
<1>9. QED
  BY <1>7, <1>8, <1>m

\* It does not depend on more than the children's values.
LEMMA MaxComputes ==
  ASSUME MaxCallbacks
  PROVE  Computes
<1>1. val \in [Node -> Int]
  BY DEF MaxCallbacks
<1>2. \A aug \in Values, ch \in Children, n \in Node : Compute(aug, ch, n) \in Int
  BY <1>1, ComputeMaxTops DEF MaxCallbacks
<1>3. ASSUME NEW aug \in Values, NEW aug2 \in Values, NEW ch \in Children, NEW ch2 \in Children,
             NEW n \in Node, \A d \in Side : SameOn(d, n, aug, ch, aug2, ch2)
      PROVE  Compute(aug2, ch2, n) = Compute(aug, ch, n)
  <2>1. \A v : Tops(v, aug, ch, n) => Tops(v, aug2, ch2, n)
    BY <1>3 DEF Tops, SameOn
  <2>2. Compute(aug, ch, n) = ComputeMax(aug, ch, n) /\ Compute(aug2, ch2, n) = ComputeMax(aug2, ch2, n)
    BY DEF MaxCallbacks
  <2>3. ComputeMax(aug, ch, n) \in Int /\ Tops(ComputeMax(aug, ch, n), aug, ch, n)
    BY <1>1, ComputeMaxTops
  <2>4. QED
    BY <1>1, <2>1, <2>2, <2>3, ComputeMaxTops
<1>4. \A n \in Node : Alone(n) \in Int
  BY <1>1 DEF MaxCallbacks, OwnMax
<1>5. ASSUME NEW aug \in Values, NEW ch \in Children, NEW n \in Node, \A d \in Side : ch[n][d] = NULL
      PROVE  Compute(aug, ch, n) = Alone(n)
  <2>1. val[n] \in Int /\ Tops(val[n], aug, ch, n)
    BY <1>1, <1>5 DEF Tops
  <2>2. Compute(aug, ch, n) = ComputeMax(aug, ch, n) /\ Alone(n) = val[n]
    BY DEF MaxCallbacks, OwnMax
  <2>3. QED
    BY <1>1, <2>1, <2>2, ComputeMaxTops
<1>6. QED
  BY <1>2, <1>3, <1>4, <1>5 DEF Computes

\* insert_augmented: one more val below a node.
LEMMA MaxGrows ==
  ASSUME MaxCallbacks
  PROVE  Grows
<1>1. val \in [Node -> Int]
  BY DEF MaxCallbacks
<1>2. \A v \in Int, x \in Node : OnPath(v, x) = OnPathMax(v, x) /\ OnPathMax(v, x) \in Int
  BY <1>1 DEF MaxCallbacks, OnPathMax
<1>3. ASSUME NEW aug \in Values, NEW aug2 \in Values, NEW ch \in Children, NEW ch2 \in Children,
             NEW n \in Node, NEW x \in Node, NEW d \in Side,
             GrownOn(d, n, x, aug, ch, aug2, ch2), SameOn(Opposite(d), n, aug, ch, aug2, ch2)
      PROVE  Compute(aug2, ch2, n) = OnPath(Compute(aug, ch, n), x)
  <2>m. PICK m : m = ComputeMax(aug, ch, n)
    OBVIOUS
  <2>1. m \in Int /\ Tops(m, aug, ch, n) /\ m = Compute(aug, ch, n)
    BY <1>1, <2>m, ComputeMaxTops DEF MaxCallbacks
  <2>o. PICK o \in Side : o = Opposite(d) /\ \A e \in Side : e = d \/ e = o
    BY Sides
  <2>v. PICK v : v = OnPathMax(m, x)
    OBVIOUS
  <2>2. v = (IF m < val[x] THEN val[x] ELSE m) /\ val[x] \in Int /\ val[n] \in Int
    BY <1>1, <2>v DEF OnPathMax
  <2>c. PICK c, c2, b, b2 : c = ch[n][d] /\ c2 = ch2[n][d] /\ b = ch[n][o] /\ b2 = ch2[n][o]
    OBVIOUS
  <2>3. /\ c2 # NULL
        /\ c = NULL => aug2[c2] = val[x]
        /\ c # NULL => aug2[c2] = IF aug[c] < val[x] THEN val[x] ELSE aug[c]
    <3>1. c # NULL => aug[c] \in Int
      BY <2>c DEF Values, Children, NodeOrNil
    <3>2. QED
      BY <1>2, <1>3, <2>c, <3>1 DEF GrownOn, MaxCallbacks, OwnMax, OnPathMax
  <2>4. b = NULL <=> b2 = NULL
    BY <1>3, <2>c, <2>o DEF SameOn
  <2>5. b # NULL => aug2[b2] = aug[b]
    BY <1>3, <2>c, <2>o DEF SameOn
  <2>6. (c # NULL => aug[c] \in Int) /\ (b # NULL => aug[b] \in Int)
    BY <2>c DEF Values, Children, NodeOrNil
  <2>7. /\ val[n] =< m
        /\ c # NULL => aug[c] =< m
        /\ b # NULL => aug[b] =< m
        /\ m = val[n] \/ (c # NULL /\ m = aug[c]) \/ (b # NULL /\ m = aug[b])
    BY <2>1, <2>c, <2>o DEF Tops
  <2>8. /\ val[n] =< v
        /\ aug2[c2] =< v
        /\ b2 # NULL => aug2[b2] =< v
        /\ v = val[n] \/ v = aug2[c2] \/ (b2 # NULL /\ v = aug2[b2])
    BY <2>1, <2>2, <2>3, <2>4, <2>5, <2>6, <2>7
  <2>9. Tops(v, aug2, ch2, n) /\ v \in Int
    BY <2>1, <2>2, <2>3, <2>8, <2>c, <2>o DEF Tops
  <2>10. Compute(aug2, ch2, n) = ComputeMax(aug2, ch2, n)
    BY DEF MaxCallbacks
  <2>11. v = ComputeMax(aug2, ch2, n)
    BY <1>1, <2>9, ComputeMaxTops
  <2>12. QED
    BY <1>2, <2>1, <2>10, <2>11, <2>v
<1>4. QED
  BY <1>2, <1>3 DEF Grows

\* augment_callbacks_rotate: the top takes the value of the old one over.
LEMMA MaxRotates ==
  ASSUME MaxCallbacks
  PROVE  Rotates
<1>1. val \in [Node -> Int]
  BY DEF MaxCallbacks
<1>C. Computes
  BY MaxComputes
<1>2. ASSUME NEW aug \in Values, NEW ch \in Children, NEW old \in Node, NEW new \in Node, NEW d \in Side,
             HangsFrom(ch, old, new, d)
      PROVE  Rotated(aug, ch, old, new) = [aug EXCEPT ![new] = aug[old], ![old] = Compute(aug, ch, old)]
  <2>a. PICK a : a = [aug EXCEPT ![new] = aug[old]]
    OBVIOUS
  <2>1. a \in Values /\ \A n \in Node : n # new => a[n] = aug[n]
    BY <2>a DEF Values
  <2>2. Rotated(aug, ch, old, new) = [a EXCEPT ![old] = ComputeMax(a, ch, old)]
    <3>1. Rotated(aug, ch, old, new) = RotatedMax(aug, ch, old, new)
      BY DEF MaxCallbacks
    <3>2. RotatedMax(aug, ch, old, new) = [a EXCEPT ![old] = ComputeMax(a, ch, old)]
      BY <2>a DEF RotatedMax
    <3>3. QED
      BY <3>1, <3>2
  <2>3. ComputeMax(a, ch, old) = Compute(a, ch, old)
    BY <2>1 DEF MaxCallbacks
  <2>4. \A e \in Side : ch[old][e] # new /\ ch[old][e] \in Node \cup {NULL}
    BY <1>2 DEF HangsFrom, Children, NodeOrNil
  <2>5. \A e \in Side : SameOn(e, old, aug, ch, a, ch)
    BY <2>1, <2>4 DEF SameOn
  <2>6. Compute(a, ch, old) = Compute(aug, ch, old)
    BY <1>C, <2>1, <2>5 DEF Computes
  <2>7. QED
    BY <2>2, <2>3, <2>6, <2>a DEF Values
<1>3. ASSUME NEW aug \in Values, NEW ch \in Children, NEW old \in Node, NEW new \in Node, NEW d \in Side,
             HangsFrom(ch, old, new, d), NEW v \in Int
      PROVE  Rotated([aug EXCEPT ![new] = v], ch, old, new) = Rotated(aug, ch, old, new)
  <2>a. PICK a : a = [aug EXCEPT ![new] = v]
    OBVIOUS
  <2>1. a \in Values /\ \A n \in Node : n # new => a[n] = aug[n]
    BY <2>a DEF Values
  <2>2. Rotated(a, ch, old, new) = [a EXCEPT ![new] = a[old], ![old] = Compute(a, ch, old)]
    BY <1>2, <1>3, <2>1
  <2>3. Rotated(aug, ch, old, new) = [aug EXCEPT ![new] = aug[old], ![old] = Compute(aug, ch, old)]
    BY <1>2, <1>3
  <2>4. old # new /\ \A e \in Side : ch[old][e] # new /\ ch[old][e] \in Node \cup {NULL}
    BY <1>3 DEF HangsFrom, Children, NodeOrNil
  <2>5. \A e \in Side : SameOn(e, old, aug, ch, a, ch)
    BY <2>1, <2>4 DEF SameOn
  <2>6. Compute(a, ch, old) = Compute(aug, ch, old)
    BY <1>C, <2>1, <2>5 DEF Computes
  <2>7. QED
    BY <2>1, <2>2, <2>3, <2>4, <2>6, <2>a DEF Values
<1>4. ASSUME NEW aug \in Values, NEW ch \in Children, NEW ch2 \in Children,
             NEW old \in Node, NEW new \in Node, NEW d \in Side,
             HangsFrom(ch2, old, new, d), TakesOver(ch, ch2, old, new, d),
             aug[old] = Compute(aug, ch, old), aug[new] = Compute(aug, ch, new)
      PROVE  /\ Rotated(aug, ch2, old, new)[new] = aug[old]
             /\ Compute(Rotated(aug, ch2, old, new), ch2, new) = aug[old]
  <2>a. PICK a : a = Rotated(aug, ch2, old, new)
    OBVIOUS
  <2>1. a = [aug EXCEPT ![new] = aug[old], ![old] = Compute(aug, ch2, old)]
    BY <1>2, <1>4, <2>a
  <2>w. PICK w : w = Compute(aug, ch2, old)
    OBVIOUS
  <2>2. old # new /\ w \in Int
    BY <1>4, <1>C, <2>w DEF HangsFrom, Computes
  <2>3. a \in Values /\ a[old] = w /\ a[new] = aug[old] /\ \A n \in Node : n # old /\ n # new => a[n] = aug[n]
    BY <2>1, <2>2, <2>w DEF Values
  <2>o. PICK o \in Side : o = Opposite(d) /\ o # d /\ \A e \in Side : e = d \/ e = o
    BY Sides
  <2>p. PICK x, y, z : x = ch[old][d] /\ y = ch[new][d] /\ z = ch[new][o]
    OBVIOUS
  <2>4. /\ ch[old][o] = new
        /\ ch2[old][d] = x /\ ch2[old][o] = y
        /\ ch2[new][d] = old /\ ch2[new][o] = z
        /\ x \notin {old, new} /\ y \notin {old, new} /\ z \notin {old, new}
    BY <1>4, <2>o, <2>p DEF HangsFrom, TakesOver
  <2>5. x \in Node \cup {NULL} /\ y \in Node \cup {NULL} /\ z \in Node \cup {NULL}
    BY <2>p DEF Children, NodeOrNil
  <2>6. /\ x # NULL => aug[x] \in Int /\ a[x] = aug[x]
        /\ y # NULL => aug[y] \in Int /\ a[y] = aug[y]
        /\ z # NULL => aug[z] \in Int /\ a[z] = aug[z]
        /\ aug[old] \in Int /\ aug[new] \in Int /\ val[old] \in Int /\ val[new] \in Int
    BY <1>1, <2>3, <2>4, <2>5 DEF Values
  <2>7. Tops(aug[old], aug, ch, old) /\ Tops(aug[new], aug, ch, new) /\ Tops(w, aug, ch2, old)
    <3>1. /\ aug[old] = ComputeMax(aug, ch, old)
          /\ aug[new] = ComputeMax(aug, ch, new)
          /\ w = ComputeMax(aug, ch2, old)
      BY <1>4, <2>w DEF MaxCallbacks
    <3>2. QED
      BY <1>1, <2>2, <2>6, <3>1, ComputeMaxTops
  <2>8. /\ val[old] =< aug[old] /\ (x # NULL => aug[x] =< aug[old]) /\ aug[new] =< aug[old]
        /\ aug[old] = val[old] \/ (x # NULL /\ aug[old] = aug[x]) \/ aug[old] = aug[new]
    BY <2>4, <2>7, <2>o, <2>p, NodeAssumption DEF Tops
  <2>9. /\ val[new] =< aug[new] /\ (y # NULL => aug[y] =< aug[new]) /\ (z # NULL => aug[z] =< aug[new])
        /\ aug[new] = val[new] \/ (y # NULL /\ aug[new] = aug[y]) \/ (z # NULL /\ aug[new] = aug[z])
    BY <2>7, <2>o, <2>p DEF Tops
  <2>10. /\ val[old] =< w /\ (x # NULL => aug[x] =< w) /\ (y # NULL => aug[y] =< w)
         /\ w = val[old] \/ (x # NULL /\ w = aug[x]) \/ (y # NULL /\ w = aug[y])
    BY <2>4, <2>7, <2>o DEF Tops
  <2>11. /\ val[new] =< aug[old] /\ w =< aug[old] /\ (z # NULL => aug[z] =< aug[old])
         /\ aug[old] = val[new] \/ aug[old] = w \/ (z # NULL /\ aug[old] = aug[z])
    BY <2>2, <2>6, <2>8, <2>9, <2>10
  <2>12. Tops(aug[old], a, ch2, new)
    BY <2>3, <2>4, <2>6, <2>11, <2>o, NodeAssumption DEF Tops
  <2>13. Compute(a, ch2, new) = aug[old]
    BY <1>1, <2>3, <2>6, <2>12, ComputeMaxTops DEF MaxCallbacks
  <2>14. QED
    BY <2>3, <2>13, <2>a
<1>5. ASSUME NEW aug \in Values, NEW ch \in Children, NEW old \in Node, NEW new \in Node, NEW d \in Side,
             HangsFrom(ch, old, new, d)
      PROVE  /\ \E v \in Int : Rotated(aug, ch, old, new)
                             = [aug EXCEPT ![new] = v, ![old] = Compute(aug, ch, old)]
             /\ \A v \in Int : Rotated([aug EXCEPT ![new] = v], ch, old, new) = Rotated(aug, ch, old, new)
  <2>1. aug[old] \in Int
    BY DEF Values
  <2>2. QED
    BY <1>2, <1>3, <1>5, <2>1
<1>6. QED
  BY <1>4, <1>5 DEF Rotates

\* They are callbacks as AugInv expects them.
LEMMA MaxIsCallbacks == ASSUME MaxCallbacks PROVE Callbacks
BY MaxComputes, MaxGrows, MaxRotates DEF Callbacks

-----------------------------------------------------------------------------
(* The callbacks of ostree.h. *)

SizeCallbacks ==
  /\ \A n \in Node : Alone(n) = OwnSize(n)
  /\ \A v \in Int, n \in Node : OnPath(v, n) = OnPathSize(v, n)
  /\ \A aug \in Values, ch \in Children, n \in Node : Compute(aug, ch, n) = ComputeSize(aug, ch, n)
  /\ \A aug \in Values, ch \in Children, old, new \in Node :
       Rotated(aug, ch, old, new) = RotatedSize(aug, ch, old, new)

SizeBelow(aug, c) == IF c = NULL THEN 0 ELSE aug[c]

\* augment_compute adds up the sizes on both sides.
LEMMA ComputeSizeAdds ==
  ASSUME NEW aug \in Values, NEW ch \in Children, NEW n \in Node
  PROVE  /\ \A d \in Side : SizeBelow(aug, ch[n][d]) \in Int
         /\ ComputeSize(aug, ch, n) \in Int
         /\ \A d \in Side :
              ComputeSize(aug, ch, n)
                = 1 + SizeBelow(aug, ch[n][d]) + SizeBelow(aug, ch[n][Opposite(d)])
<1>1. \A d \in Side : SizeBelow(aug, ch[n][d]) \in Int
  BY DEF SizeBelow, Values, Children, NodeOrNil
<1>2. ComputeSize(aug, ch, n) = 1 + SizeBelow(aug, ch[n]["left"]) + SizeBelow(aug, ch[n]["right"])
  BY DEF ComputeSize, SizeBelow
<1>3. SizeBelow(aug, ch[n]["left"]) \in Int /\ SizeBelow(aug, ch[n]["right"]) \in Int
  BY <1>1 DEF Side
<1>4. \A d \in Side : (d = "left" /\ Opposite(d) = "right") \/ (d = "right" /\ Opposite(d) = "left")
  BY Sides
<1>5. ASSUME NEW d \in Side
      PROVE  ComputeSize(aug, ch, n) = 1 + SizeBelow(aug, ch[n][d]) + SizeBelow(aug, ch[n][Opposite(d)])
  BY <1>2, <1>3, <1>4
<1>6. QED
  BY <1>1, <1>2, <1>3, <1>5

\* It does not depend on more than the children's sizes.
LEMMA SizeComputes ==
  ASSUME SizeCallbacks
  PROVE  Computes
<1>1. \A aug \in Values, ch \in Children, n \in Node : Compute(aug, ch, n) \in Int
  BY ComputeSizeAdds DEF SizeCallbacks
<1>2. "left" \in Side /\ Opposite("left") = "right" /\ "right" \in Side
  BY Sides DEF Side
<1>3. ASSUME NEW aug \in Values, NEW aug2 \in Values, NEW ch \in Children, NEW ch2 \in Children,
             NEW n \in Node, \A d \in Side : SameOn(d, n, aug, ch, aug2, ch2)
      PROVE  Compute(aug2, ch2, n) = Compute(aug, ch, n)
  <2>1. \A d \in Side : SizeBelow(aug2, ch2[n][d]) = SizeBelow(aug, ch[n][d])
    BY <1>3 DEF SameOn, SizeBelow
  <2>2. Compute(aug, ch, n) = ComputeSize(aug, ch, n) /\ Compute(aug2, ch2, n) = ComputeSize(aug2, ch2, n)
    BY DEF SizeCallbacks
  <2>3. /\ ComputeSize(aug, ch, n) = 1 + SizeBelow(aug, ch[n]["left"]) + SizeBelow(aug, ch[n]["right"])
        /\ ComputeSize(aug2, ch2, n) = 1 + SizeBelow(aug2, ch2[n]["left"]) + SizeBelow(aug2, ch2[n]["right"])
    BY <1>2, ComputeSizeAdds
  <2>4. QED
    BY <1>2, <2>1, <2>2, <2>3
<1>4. \A n \in Node : Alone(n) \in Int
  BY DEF SizeCallbacks, OwnSize
<1>5. ASSUME NEW aug \in Values, NEW ch \in Children, NEW n \in Node, \A d \in Side : ch[n][d] = NULL
      PROVE  Compute(aug, ch, n) = Alone(n)
  <2>1. \A d \in Side : SizeBelow(aug, ch[n][d]) = 0
    BY <1>5 DEF SizeBelow
  <2>2. ComputeSize(aug, ch, n) = 1 + SizeBelow(aug, ch[n]["left"]) + SizeBelow(aug, ch[n]["right"])
    BY <1>2, ComputeSizeAdds
  <2>3. Compute(aug, ch, n) = ComputeSize(aug, ch, n) /\ Alone(n) = 1
    BY DEF SizeCallbacks, OwnSize
  <2>4. QED
    BY <1>2, <2>1, <2>2, <2>3
<1>6. QED
  BY <1>1, <1>3, <1>4, <1>5 DEF Computes

\* ostree_insert: one more node below a node.
LEMMA SizeGrows ==
  ASSUME SizeCallbacks
  PROVE  Grows
<1>1. \A v \in Int, x \in Node : OnPath(v, x) = v + 1
  BY DEF SizeCallbacks, OnPathSize
<1>2. ASSUME NEW aug \in Values, NEW aug2 \in Values, NEW ch \in Children, NEW ch2 \in Children,
             NEW n \in Node, NEW x \in Node, NEW d \in Side,
             GrownOn(d, n, x, aug, ch, aug2, ch2), SameOn(Opposite(d), n, aug, ch, aug2, ch2)
      PROVE  Compute(aug2, ch2, n) = OnPath(Compute(aug, ch, n), x)
  <2>1. /\ ComputeSize(aug, ch, n)
             = 1 + SizeBelow(aug, ch[n][d]) + SizeBelow(aug, ch[n][Opposite(d)])
        /\ ComputeSize(aug2, ch2, n)
             = 1 + SizeBelow(aug2, ch2[n][d]) + SizeBelow(aug2, ch2[n][Opposite(d)])
        /\ SizeBelow(aug, ch[n][d]) \in Int
        /\ ComputeSize(aug, ch, n) \in Int
    BY ComputeSizeAdds
  <2>2. SizeBelow(aug, ch[n][Opposite(d)]) \in Int
    BY ComputeSizeAdds, Sides
  <2>3. SizeBelow(aug2, ch2[n][Opposite(d)]) = SizeBelow(aug, ch[n][Opposite(d)])
    BY <1>2 DEF SameOn, SizeBelow
  <2>4. SizeBelow(aug2, ch2[n][d]) = SizeBelow(aug, ch[n][d]) + 1
    <3>1. ASSUME ch[n][d] = NULL PROVE SizeBelow(aug2, ch2[n][d]) = SizeBelow(aug, ch[n][d]) + 1
      BY <1>2, <3>1 DEF GrownOn, SizeBelow, SizeCallbacks, OwnSize
    <3>2. ASSUME ch[n][d] # NULL PROVE SizeBelow(aug2, ch2[n][d]) = SizeBelow(aug, ch[n][d]) + 1
      <4>1. aug[ch[n][d]] \in Int
        BY <2>1, <3>2 DEF SizeBelow
      <4>2. QED
        BY <1>1, <1>2, <3>2, <4>1 DEF GrownOn, SizeBelow
    <3>3. QED
      BY <3>1, <3>2
  <2>5. Compute(aug, ch, n) = ComputeSize(aug, ch, n) /\ Compute(aug2, ch2, n) = ComputeSize(aug2, ch2, n)
    BY DEF SizeCallbacks
  <2>6. QED
    BY <1>1, <2>1, <2>2, <2>3, <2>4, <2>5
<1>3. QED
  BY <1>1, <1>2 DEF Grows

SizeStored(aug, ch, n) == [aug EXCEPT ![n] = Compute(aug, ch, n)]

\* The two stores of augment_rotate.
LEMMA RotatedSizeStores ==
  ASSUME SizeCallbacks, NEW aug \in Values, NEW ch \in Children, NEW old \in Node, NEW new \in Node
  PROVE  /\ SizeStored(aug, ch, old) \in Values
         /\ Compute(SizeStored(aug, ch, old), ch, new) \in Int
         /\ Rotated(aug, ch, old, new) = SizeStored(SizeStored(aug, ch, old), ch, new)
<1>C. Computes
  BY SizeComputes
<1>a. PICK a : a = SizeStored(aug, ch, old)
  OBVIOUS
<1>1. a \in Values
  BY <1>C, <1>a DEF Values, Computes, SizeStored
<1>2. Compute(a, ch, new) \in Int
  BY <1>C, <1>1 DEF Computes
<1>3. Rotated(aug, ch, old, new) = RotatedSize(aug, ch, old, new)
  BY DEF SizeCallbacks
<1>4. ComputeSize(aug, ch, old) = Compute(aug, ch, old) /\ ComputeSize(a, ch, new) = Compute(a, ch, new)
  BY <1>1 DEF SizeCallbacks
<1>5. RotatedSize(aug, ch, old, new) = [a EXCEPT ![new] = ComputeSize(a, ch, new)]
  BY <1>4, <1>a DEF RotatedSize, SizeStored
<1>6. QED
  BY <1>1, <1>2, <1>3, <1>4, <1>5, <1>a DEF SizeStored

\* augment_rotate: the node below, then the node above it.
LEMMA SizeRotates ==
  ASSUME SizeCallbacks
  PROVE  Rotates
<1>C. Computes
  BY SizeComputes
<1>2. ASSUME NEW aug \in Values, NEW ch \in Children, NEW old \in Node, NEW new \in Node, NEW d \in Side,
             HangsFrom(ch, old, new, d)
      PROVE  \E v \in Int : Rotated(aug, ch, old, new)
                              = [aug EXCEPT ![new] = v, ![old] = Compute(aug, ch, old)]
  <2>a. PICK a : a = SizeStored(aug, ch, old)
    OBVIOUS
  <2>1. /\ Compute(a, ch, new) \in Int
        /\ Rotated(aug, ch, old, new) = SizeStored(a, ch, new)
    BY <1>2, <2>a, RotatedSizeStores
  <2>2. old # new
    BY <1>2 DEF HangsFrom
  <2>3. Rotated(aug, ch, old, new) = [aug EXCEPT ![new] = Compute(a, ch, new), ![old] = Compute(aug, ch, old)]
    BY <2>1, <2>2, <2>a DEF Values, SizeStored
  <2>4. QED
    BY <2>1, <2>3
<1>3. ASSUME NEW aug \in Values, NEW ch \in Children, NEW old \in Node, NEW new \in Node, NEW d \in Side,
             HangsFrom(ch, old, new, d), NEW v \in Int
      PROVE  Rotated([aug EXCEPT ![new] = v], ch, old, new) = Rotated(aug, ch, old, new)
  <2>u. PICK u : u = [aug EXCEPT ![new] = v]
    OBVIOUS
  <2>a. PICK a : a = SizeStored(aug, ch, old)
    OBVIOUS
  <2>b. PICK b : b = SizeStored(u, ch, old)
    OBVIOUS
  <2>1. u \in Values /\ \A n \in Node : n # new => u[n] = aug[n]
    BY <2>u DEF Values
  <2>2. /\ a \in Values /\ Rotated(aug, ch, old, new) = SizeStored(a, ch, new)
    BY <1>3, <2>a, RotatedSizeStores
  <2>3. /\ b \in Values /\ Rotated(u, ch, old, new) = SizeStored(b, ch, new)
    BY <1>3, <2>1, <2>b, RotatedSizeStores
  <2>4. old # new /\ \A e \in Side : /\ ch[old][e] # new /\ ch[old][e] \in Node \cup {NULL}
                                     /\ ch[new][e] # new /\ ch[new][e] \in Node \cup {NULL}
    BY <1>3 DEF HangsFrom, Children, NodeOrNil
  <2>5. Compute(u, ch, old) = Compute(aug, ch, old)
    <3>1. \A e \in Side : SameOn(e, old, aug, ch, u, ch)
      BY <2>1, <2>4 DEF SameOn
    <3>2. QED
      BY <1>C, <2>1, <3>1 DEF Computes
  <2>6. \A n \in Node : n # new => b[n] = a[n]
    BY <2>1, <2>4, <2>5, <2>a, <2>b DEF Values, SizeStored
  <2>7. Compute(b, ch, new) = Compute(a, ch, new)
    <3>1. \A e \in Side : SameOn(e, new, a, ch, b, ch)
      BY <2>4, <2>6 DEF SameOn
    <3>2. QED
      BY <1>C, <2>2, <2>3, <3>1 DEF Computes
  <2>8. SizeStored(b, ch, new) = SizeStored(a, ch, new)
    BY <2>2, <2>3, <2>6, <2>7 DEF Values, SizeStored
  <2>9. QED
    BY <2>2, <2>3, <2>8, <2>u
<1>4. ASSUME NEW aug \in Values, NEW ch \in Children, NEW ch2 \in Children,
             NEW old \in Node, NEW new \in Node, NEW d \in Side,
             HangsFrom(ch2, old, new, d), TakesOver(ch, ch2, old, new, d),
             aug[old] = Compute(aug, ch, old), aug[new] = Compute(aug, ch, new)
      PROVE  /\ Rotated(aug, ch2, old, new)[new] = aug[old]
             /\ Compute(Rotated(aug, ch2, old, new), ch2, new) = aug[old]
  <2>a. PICK a : a = SizeStored(aug, ch2, old)
    OBVIOUS
  <2>b. PICK b : b = Rotated(aug, ch2, old, new)
    OBVIOUS
  <2>w. PICK w : w = Compute(aug, ch2, old)
    OBVIOUS
  <2>1. /\ a \in Values /\ Compute(a, ch2, new) \in Int
        /\ b = SizeStored(a, ch2, new)
    BY <1>4, <2>a, <2>b, RotatedSizeStores
  <2>2. old # new /\ w \in Int /\ a[old] = w /\ \A n \in Node : n # old => a[n] = aug[n]
    BY <1>4, <1>C, <2>a, <2>w DEF HangsFrom, Computes, Values, SizeStored
  <2>o. PICK o \in Side : o = Opposite(d) /\ o # d /\ \A e \in Side : e = d \/ e = o
    BY Sides
  <2>p. PICK x, y, z : x = ch[old][d] /\ y = ch[new][d] /\ z = ch[new][o]
    OBVIOUS
  <2>4. /\ ch[old][o] = new
        /\ ch2[old][d] = x /\ ch2[old][o] = y
        /\ ch2[new][d] = old /\ ch2[new][o] = z
        /\ x \notin {old, new} /\ y \notin {old, new} /\ z \notin {old, new}
    BY <1>4, <2>o, <2>p DEF HangsFrom, TakesOver
  <2>5. x \in Node \cup {NULL} /\ y \in Node \cup {NULL} /\ z \in Node \cup {NULL}
    BY <2>p DEF Children, NodeOrNil
  <2>s. PICK X, Y, Z : X = SizeBelow(aug, x) /\ Y = SizeBelow(aug, y) /\ Z = SizeBelow(aug, z)
    OBVIOUS
  <2>6. X \in Int /\ Y \in Int /\ Z \in Int
    BY <2>5, <2>s DEF SizeBelow, Values
  <2>7. aug[new] = 1 + Y + Z
    BY <1>4, <2>o, <2>p, <2>s, ComputeSizeAdds DEF SizeCallbacks
  <2>8. aug[old] = 1 + X + aug[new]
    <3>1. SizeBelow(aug, ch[old][o]) = aug[new]
      BY <2>4, NodeAssumption DEF SizeBelow
    <3>2. aug[old] = ComputeSize(aug, ch, old)
      BY <1>4 DEF SizeCallbacks
    <3>3. QED
      BY <2>o, <2>p, <2>s, <3>1, <3>2, ComputeSizeAdds
  <2>9. w = 1 + X + Y
    <3>1. w = ComputeSize(aug, ch2, old)
      BY <2>w DEF SizeCallbacks
    <3>2. QED
      BY <2>o, <2>4, <2>s, <3>1, ComputeSizeAdds
  <2>10. Compute(a, ch2, new) = 1 + w + Z
    <3>1. SizeBelow(a, ch2[new][d]) = w
      BY <2>2, <2>4, NodeAssumption DEF SizeBelow
    <3>2. SizeBelow(a, ch2[new][o]) = Z
      BY <2>2, <2>4, <2>5, <2>s DEF SizeBelow
    <3>3. Compute(a, ch2, new) = ComputeSize(a, ch2, new)
      BY <2>1 DEF SizeCallbacks
    <3>4. QED
      BY <2>1, <2>o, <3>1, <3>2, <3>3, ComputeSizeAdds
  <2>11. Compute(a, ch2, new) = aug[old]
    BY <2>2, <2>6, <2>7, <2>8, <2>9, <2>10
  <2>12. b \in Values /\ b[new] = aug[old] /\ \A n \in Node : n # new => b[n] = a[n]
    BY <2>1, <2>11 DEF Values, SizeStored
  <2>13. Compute(b, ch2, new) = Compute(a, ch2, new)
    <3>1. \A e \in Side : ch2[new][e] \in Node \cup {NULL} /\ ch2[new][e] # new
      BY <1>4 DEF HangsFrom, Children, NodeOrNil
    <3>2. \A e \in Side : SameOn(e, new, a, ch2, b, ch2)
      BY <2>12, <3>1 DEF SameOn
    <3>3. a \in Values /\ b \in Values
      BY <2>1, <2>12
    <3>4. QED
      BY <1>C, <3>2, <3>3 DEF Computes
  <2>14. QED
    BY <2>11, <2>12, <2>13, <2>b
<1>5. QED
  BY <1>2, <1>3, <1>4 DEF Rotates

\* They are callbacks as AugInv expects them.
LEMMA SizeIsCallbacks == ASSUME SizeCallbacks PROVE Callbacks
BY SizeComputes, SizeGrows, SizeRotates DEF Callbacks

-----------------------------------------------------------------------------
(* From the values of the children to the nodes below. *)

\* What the value of n is about: the nodes below it, and one that is on its way there.
Covered(n) == Subtree(n) \cup Announced(n)

\* The two sides of a node cover different nodes, and n and a node on its way to it neither.
Divides(n, d) ==
  LET C == Covered(rb_child[n][d])
      D == Covered(rb_child[n][Opposite(d)])
      new == IF n \in Awaiting THEN {node} ELSE {}
  IN  /\ Covered(n) = ((C \cup D) \cup {n}) \cup new
      /\ C \cap D = {}
      /\ n \notin C \cup D
      /\ \A m \in new : m \in Node /\ m \notin (C \cup D) \cup {n}

\* The walk that defines Subtree meets the nodes that the lists of the invariant hold.
LEMMA SubtreeIsNodes ==
  ASSUME NEW n
  PROVE  Subtree(n) = Nodes(Walk(rb_child), n)
BY WalksOfShape DEF Subtree, Nodes, Elements, Walk

\* What a node covers, from what its children cover.
LEMMA CoveredDivides ==
  ASSUME IInv
  PROVE  /\ Covered(NULL) = {}
         /\ \A n \in Members(Par), d \in Side : Divides(n, d)
<1>1. PICK w : w = Walk(rb_child)
  OBVIOUS
<1>2. PICK S : S = Members(Par) /\ S \in SUBSET Node
  BY DEF Members
<1>3. Whole(rb_node, rb_child, Par)
  BY MemoryIsWhole
<1>4. /\ Nodes(w, NULL) = {}
      /\ \A n \in S : n \in Nodes(w, n) /\ Nodes(w, n) \subseteq S
      /\ \A n \in S, d \in Side :
           /\ rb_child[n][d] \in S \cup {NULL}
           /\ Nodes(w, n) = Nodes(w, rb_child[n][d]) \cup {n} \cup Nodes(w, rb_child[n][Opposite(d)])
           /\ n \notin Nodes(w, rb_child[n][d])
           /\ Nodes(w, rb_child[n][d]) \cap Nodes(w, rb_child[n][Opposite(d)]) = {}
  BY <1>1, <1>2, <1>3, NodesInWhole
<1>5. \A n : Covered(n) = Nodes(w, n) \cup (IF pc = "add" /\ parent \in Nodes(w, n) THEN {node} ELSE {})
  BY <1>1, SubtreeIsNodes DEF Covered, Announced
<1>6. pc = "add" => node \in Node /\ node \notin S
  BY <1>2 DEF IInv, Locals, Members, Par, RB_EMPTY_NODE
<1>7. Covered(NULL) = {}
  BY <1>4, <1>5
<1>8. ASSUME NEW n \in S, NEW d \in Side PROVE Divides(n, d)
  <2>1. PICK l, r : l = rb_child[n][d] /\ r = rb_child[n][Opposite(d)]
    OBVIOUS
  <2>2. PICK P, L, R : P = Nodes(w, n) /\ L = Nodes(w, l) /\ R = Nodes(w, r)
    OBVIOUS
  <2>3. Opposite(d) \in Side /\ Opposite(Opposite(d)) = d
    BY Sides
  <2>4. P = L \cup {n} \cup R /\ n \notin L /\ L \cap R = {} /\ P \subseteq S
    BY <1>4, <2>1, <2>2
  <2>5. n \notin R
    BY <1>4, <2>1, <2>2, <2>3
  <2>6. PICK X, Y, Z : X = Covered(l) /\ Y = Covered(r) /\ Z = Covered(n)
    OBVIOUS
  <2>7. /\ X = L \cup (IF pc = "add" /\ parent \in L THEN {node} ELSE {})
        /\ Y = R \cup (IF pc = "add" /\ parent \in R THEN {node} ELSE {})
        /\ Z = P \cup (IF pc = "add" /\ parent \in P THEN {node} ELSE {})
    BY <1>5, <2>2, <2>6
  <2>8. PICK new : new = IF n \in Awaiting THEN {node} ELSE {}
    OBVIOUS
  <2>9. new = IF pc = "add" /\ n = parent THEN {node} ELSE {}
    BY <2>8 DEF Awaiting
  <2>10. pc = "add" => node \in Node /\ node \notin L /\ node \notin R /\ node # n
    BY <1>6, <2>4
  <2>11. /\ Z = ((X \cup Y) \cup {n}) \cup new
         /\ X \cap Y = {}
         /\ n \notin X \cup Y
         /\ \A m \in new : m \in Node /\ m \notin (X \cup Y) \cup {n}
    <3>1. CASE pc # "add"
      BY <2>4, <2>5, <2>7, <2>9, <3>1
    <3>2. CASE pc = "add" /\ parent \notin P
      BY <2>4, <2>5, <2>7, <2>9, <3>2
    <3>3. CASE pc = "add" /\ parent = n
      <4>1. X = L /\ Y = R /\ Z = P \cup {node} /\ new = {node}
        BY <2>4, <2>5, <2>7, <2>9, <3>3
      <4>2. QED
        BY <2>4, <2>5, <2>10, <3>3, <4>1
    <3>4. CASE pc = "add" /\ parent \in L
      <4>1. X = L \cup {node} /\ Y = R /\ Z = P \cup {node} /\ new = {}
        BY <2>4, <2>5, <2>7, <2>9, <3>4
      <4>2. QED
        BY <2>4, <2>5, <2>10, <3>4, <4>1
    <3>5. CASE pc = "add" /\ parent \in R
      <4>1. X = L /\ Y = R \cup {node} /\ Z = P \cup {node} /\ new = {}
        BY <2>4, <2>5, <2>7, <2>9, <3>5
      <4>2. QED
        BY <2>4, <2>5, <2>10, <3>5, <4>1
    <3>6. QED
      BY <2>4, <3>1, <3>2, <3>3, <3>4, <3>5
  <2>12. QED
    BY <2>1, <2>6, <2>8, <2>11 DEF Divides
<1>9. QED
  BY <1>2, <1>7, <1>8

\* Only nodes are covered.
LEMMA CoveredInNode ==
  ASSUME IInv, NEW n \in Members(Par) \cup {NULL}
  PROVE  Covered(n) \in SUBSET Node
<1>1. Whole(rb_node, rb_child, Par)
  BY MemoryIsWhole
<1>2. Nodes(Walk(rb_child), NULL) = {}
  BY <1>1, NodesInWhole
<1>3. \A m \in Members(Par) : Nodes(Walk(rb_child), m) \subseteq Members(Par)
  BY <1>1, NodesInWhole
<1>4. Subtree(n) \in SUBSET Node
  BY <1>2, <1>3, SubtreeIsNodes DEF Members
<1>5. Announced(n) \in SUBSET Node
  BY DEF Announced, IInv, Locals
<1>6. QED
  BY <1>4, <1>5 DEF Covered

\* The value of a node, whether or not it counts a node that is not below it yet.
LEMMA ValueOfNode ==
  ASSUME AugInv, NEW n \in Members(Par)
  PROVE  augmented[n] = IF n \in Awaiting THEN OnPath(Compute(augmented, rb_child, n), node)
                        ELSE Compute(augmented, rb_child, n)
<1>1. n # NULL
  BY NodeAssumption DEF Members
<1>2. CASE n \in Awaiting
  BY <1>1, <1>2 DEF AugInv, Awaiting
<1>3. CASE n \notin Awaiting
  BY <1>3 DEF AugInv, Valued
<1>4. QED
  BY <1>2, <1>3

\* InTree has the nodes that the invariant says are linked.
LEMMA MembersInTree == Members(Par) = InTree
BY DEF Members, Par, InTree, RB_EMPTY_NODE

\* v is the largest val of the nodes of C.
Heads(v, C) == (\E m \in C : v = val[m]) /\ \A m \in C : val[m] =< v

\* The largest val below each node.
LEMMA ValuesAreMaxima ==
  ASSUME MaxCallbacks, ListInv, AugInv
  PROVE  AugmentedIsMax
<1>1. /\ val \in [Node -> Int] /\ augmented \in Values /\ rb_child \in Children /\ IInv
      /\ \A n \in Node : val[n] \in Int
  BY DEF MaxCallbacks, AugInv, ListInv, IInv, TypeOK, Children
<1>2. PICK S : S = Members(Par) /\ S \in SUBSET Node
  BY DEF Members
<1>3. PICK h : Shaped(rb_child, Par, S, NULL, h, Max)
  BY <1>1, <1>2, TreeHere
<1> DEFINE T == {n \in S : Heads(augmented[n], Covered(n))}
<1>4. ASSUME NEW n \in S, \A d \in TwoSides : rb_child[n][d] # NULL => rb_child[n][d] \in T
      PROVE  n \in T
  <2>1. PICK l, r : l = rb_child[n]["left"] /\ r = rb_child[n]["right"]
    OBVIOUS
  <2>2. PICK L, R, C : L = Covered(l) /\ R = Covered(r) /\ C = Covered(n)
    OBVIOUS
  <2>3. /\ l # NULL => l \in S /\ Heads(augmented[l], L)
        /\ r # NULL => r \in S /\ Heads(augmented[r], R)
    BY <1>4, <2>1, <2>2 DEF TwoSides
  <2>4. (l = NULL => L = {}) /\ (r = NULL => R = {})
    BY <1>1, <2>2, CoveredDivides
  <2>5. PICK new : new = IF n \in Awaiting THEN {node} ELSE {}
    OBVIOUS
  <2>6. C = ((L \cup R) \cup {n}) \cup new /\ \A m \in new : m \in Node
    <3>1. Divides(n, "left")
      BY <1>1, <1>2, CoveredDivides DEF Side
    <3>2. Opposite("left") = "right"
      BY DEF Opposite
    <3>3. QED
      BY <2>1, <2>2, <2>5, <3>1, <3>2 DEF Divides
  <2>7. PICK t : t = ComputeMax(augmented, rb_child, n)
    OBVIOUS
  <2>8. t \in Int /\ Tops(t, augmented, rb_child, n)
    BY <1>1, <1>2, <2>7, ComputeMaxTops
  <2>9. augmented[n] = IF n \in Awaiting THEN OnPathMax(t, node) ELSE t
    <3>1. Compute(augmented, rb_child, n) = t
      BY <1>1, <1>2, <2>7 DEF MaxCallbacks
    <3>2. n \in Awaiting => OnPath(t, node) = OnPathMax(t, node)
      BY <2>5, <2>6, <2>8 DEF MaxCallbacks
    <3>3. QED
      BY <1>2, <3>1, <3>2, ValueOfNode
  <2>10. /\ val[n] =< t
         /\ l # NULL => augmented[l] =< t
         /\ r # NULL => augmented[r] =< t
         /\ t = val[n] \/ (l # NULL /\ t = augmented[l]) \/ (r # NULL /\ t = augmented[r])
    BY <2>1, <2>8 DEF Tops, Side
  <2>11. /\ l # NULL => augmented[l] \in Int /\ L \subseteq Node
         /\ r # NULL => augmented[r] \in Int /\ R \subseteq Node
    <3>1. \A m \in S : augmented[m] \in Int
      BY <1>1, <1>2 DEF Values
    <3>2. C \subseteq Node
      BY <1>1, <1>2, <2>2, CoveredInNode
    <3>3. QED
      BY <2>3, <2>6, <3>1, <3>2
  <2>12. Heads(t, (L \cup R) \cup {n})
    <3>1. \A m \in (L \cup R) \cup {n} : val[m] =< t
      <4>1. ASSUME NEW m \in L PROVE val[m] =< t
        BY <1>1, <2>3, <2>4, <2>8, <2>10, <2>11, <4>1 DEF Heads
      <4>2. ASSUME NEW m \in R PROVE val[m] =< t
        BY <1>1, <2>3, <2>4, <2>8, <2>10, <2>11, <4>2 DEF Heads
      <4>3. QED
        BY <2>10, <4>1, <4>2
    <3>2. \E m \in (L \cup R) \cup {n} : t = val[m]
      BY <2>3, <2>10 DEF Heads
    <3>3. QED
      BY <3>1, <3>2 DEF Heads
  <2>13. Heads(augmented[n], C)
    <3>1. CASE n \notin Awaiting
      BY <2>5, <2>6, <2>9, <2>12, <3>1
    <3>2. CASE n \in Awaiting
      <4>1. node \in Node /\ C = ((L \cup R) \cup {n}) \cup {node}
        BY <2>5, <2>6, <3>2
      <4>2. augmented[n] = IF t < val[node] THEN val[node] ELSE t
        BY <2>9, <3>2 DEF OnPathMax
      <4>3. \A m \in (L \cup R) \cup {n} : m \in Node
        BY <1>1, <1>2, <4>1, <2>2, CoveredInNode
      <4>4. QED
        BY <1>1, <2>8, <2>12, <4>1, <4>2, <4>3 DEF Heads
    <3>3. QED
      BY <3>1, <3>2
  <2>14. QED
    BY <2>2, <2>13
<1>5. S \subseteq T
  <2> HIDE DEF T
  <2>1. QED
    BY <1>3, <1>4, MaxType, UpwardInduction
<1>6. \A n \in InTree : Heads(augmented[n], Subtree(n) \cup Announced(n))
  BY <1>2, <1>5, MembersInTree DEF Covered
<1>7. QED
  BY <1>6 DEF AugmentedIsMax, Heads

\* The number of nodes below each node.
LEMMA ValuesAreSizes ==
  ASSUME SizeCallbacks, ListInv, AugInv
  PROVE  SizesExact
<1>1. augmented \in Values /\ rb_child \in Children /\ IInv
  BY DEF AugInv, ListInv, IInv, TypeOK, Children
<1>2. PICK S : S = Members(Par) /\ S \in SUBSET Node
  BY DEF Members
<1>3. PICK h : Shaped(rb_child, Par, S, NULL, h, Max)
  BY <1>1, <1>2, TreeHere
<1>4. \A n \in S \cup {NULL} : IsFiniteSet(Covered(n))
  BY <1>1, <1>2, CoveredInNode, FiniteNodes, FS_Subset
<1> DEFINE T == {n \in S : augmented[n] = Cardinality(Covered(n))}
<1>5. ASSUME NEW n \in S, \A d \in TwoSides : rb_child[n][d] # NULL => rb_child[n][d] \in T
      PROVE  n \in T
  <2>1. PICK l, r : l = rb_child[n]["left"] /\ r = rb_child[n]["right"]
    OBVIOUS
  <2>2. PICK L, R, C : L = Covered(l) /\ R = Covered(r) /\ C = Covered(n)
    OBVIOUS
  <2>3. (l = NULL => L = {}) /\ (r = NULL => R = {})
    BY <1>1, <2>2, CoveredDivides
  <2>4. /\ IsFiniteSet(L) /\ SizeBelow(augmented, l) = Cardinality(L)
        /\ IsFiniteSet(R) /\ SizeBelow(augmented, r) = Cardinality(R)
    BY <1>4, <1>5, <2>1, <2>2, <2>3, FS_EmptySet DEF TwoSides, SizeBelow
  <2>5. PICK new : new = IF n \in Awaiting THEN {node} ELSE {}
    OBVIOUS
  <2>6. /\ C = ((L \cup R) \cup {n}) \cup new
        /\ L \cap R = {} /\ n \notin L \cup R
        /\ \A m \in new : m \in Node /\ m \notin (L \cup R) \cup {n}
    <3>1. Divides(n, "left")
      BY <1>1, <1>2, CoveredDivides DEF Side
    <3>2. Opposite("left") = "right"
      BY DEF Opposite
    <3>3. QED
      BY <2>1, <2>2, <2>5, <3>1, <3>2 DEF Divides
  <2>7. PICK t : t = ComputeSize(augmented, rb_child, n)
    OBVIOUS
  <2>8. t = 1 + Cardinality(L) + Cardinality(R) /\ Cardinality(L) \in Nat /\ Cardinality(R) \in Nat
    <3>1. t = 1 + SizeBelow(augmented, l) + SizeBelow(augmented, r)
      BY <1>1, <1>2, <2>1, <2>7 DEF ComputeSize, SizeBelow
    <3>2. QED
      BY <2>4, <3>1, FS_CardinalityType
  <2>9. augmented[n] = IF n \in Awaiting THEN t + 1 ELSE t
    <3>1. Compute(augmented, rb_child, n) = t
      BY <1>1, <1>2, <2>7 DEF SizeCallbacks
    <3>2. n \in Awaiting => OnPath(t, node) = t + 1
      BY <2>5, <2>6, <2>8 DEF SizeCallbacks, OnPathSize
    <3>3. QED
      BY <1>2, <3>1, <3>2, ValueOfNode
  <2>10. PICK U : U = L \cup R
    OBVIOUS
  <2>11. IsFiniteSet(U) /\ Cardinality(U) = Cardinality(L) + Cardinality(R)
    <3>1. IsFiniteSet(U) /\ Cardinality(U) = Cardinality(L) + Cardinality(R) - Cardinality(L \cap R)
      BY <2>4, <2>10, FS_Union
    <3>2. QED
      BY <2>6, <2>8, <3>1, FS_EmptySet
  <2>12. PICK V : V = U \cup {n}
    OBVIOUS
  <2>13. IsFiniteSet(V) /\ Cardinality(V) = Cardinality(U) + 1
    BY <2>6, <2>10, <2>11, <2>12, FS_AddElement
  <2>14. Cardinality(C) = IF n \in Awaiting THEN Cardinality(V) + 1 ELSE Cardinality(V)
    <3>1. CASE n \notin Awaiting
      BY <2>5, <2>6, <2>10, <2>12, <3>1
    <3>2. CASE n \in Awaiting
      <4>1. C = V \cup {node} /\ node \notin V
        BY <2>5, <2>6, <2>10, <2>12, <3>2
      <4>2. QED
        BY <2>13, <3>2, <4>1, FS_AddElement
    <3>3. QED
      BY <3>1, <3>2
  <2>15. augmented[n] = Cardinality(C)
    BY <2>8, <2>9, <2>11, <2>13, <2>14
  <2>16. QED
    BY <2>2, <2>15
<1>6. S \subseteq T
  <2> HIDE DEF T
  <2>1. QED
    BY <1>3, <1>5, MaxType, UpwardInduction
<1>7. QED
  BY <1>2, <1>6, MembersInTree DEF Covered, SizesExact

\* check_augmented of rbtree_test.c, after every turn of every loop: with the callbacks
\* of RB_DECLARE_CALLBACKS_MAX each node's value is the largest val of its subtree, and of
\* the new node that is on its way there.
THEOREM AugmentedMaxCorrect == ASSUME MaxCallbacks PROVE AugmentedCachedSpec => []AugmentedIsMax
<1>1. AugmentedCachedSpec => AugmentedSpec
  BY AugmentedCachedImplementsAugmented
<1>2. AugmentedSpec => [](ListInv /\ AugInv)
  BY ValuesAlwaysRight, MaxIsCallbacks
<1>3. ListInv /\ AugInv => AugmentedIsMax
  BY ValuesAreMaxima
<1>4. QED
  BY <1>1, <1>2, <1>3, PTL

\* With the callbacks of ostree.h each node's value is the size of its subtree after every
\* turn of every loop, one ahead on the path that an insertion has gone down.
THEOREM SizesCorrect == ASSUME SizeCallbacks PROVE AugmentedSpec => []SizesExact
<1>1. AugmentedSpec => [](ListInv /\ AugInv)
  BY ValuesAlwaysRight, SizeIsCallbacks
<1>2. ListInv /\ AugInv => SizesExact
  BY ValuesAreSizes
<1>3. QED
  BY <1>1, <1>2, PTL
-----------------------------------------------------------------------------
(* The queries of ostree.h. *)

LeftSizes == [n \in Node |-> LeftSize(n)]

\* Between operations the size left of a node is the length of the list there.
LEMMA SizesHere ==
  ASSUME SizeCallbacks, ListInv, AugInv, pc = "idle"
  PROVE  /\ \A n \in Node : LeftSize(n) \in Int
         /\ LeftCounts(LeftSizes, Walk(rb_child), rb_child, Members(Par))
<1>1. IInv /\ augmented \in [Node -> Int] /\ SizesExact
  BY ValuesAreSizes DEF ListInv, AugInv, Values
<1>2. \A n \in Node, d \in Side : rb_child[n][d] \in NodeOrNil
  BY <1>1 DEF IInv, TypeOK
<1>3. \A n \in Node : LeftSize(n) \in Int
  BY <1>1, <1>2 DEF LeftSize, NodeOrNil, Side
<1>4. PICK walks, S : walks = Walk(rb_child) /\ S = Members(Par)
  OBVIOUS
<1>5. PICK h : Shaped(rb_child, Par, S, NULL, h, Max) /\ IsInOrder(walks, rb_child, S, NULL)
  BY <1>1, <1>4, TreeHere
<1>6. \A n \in S : augmented[n] = Len(walks[n])
  <2> TAKE n \in S
  <2>1. Distinct(walks[n]) /\ walks[n] \in Seq(S)
    BY <1>5, MaxType, WalkDistinct, NodesUnfold
  <2>2. Cardinality(Nodes(walks, n)) = Len(walks[n])
    BY <2>1, Counted DEF Nodes
  <2>3. Subtree(n) \cup Announced(n) = Nodes(walks, n)
    BY <1>4, SubtreeIsNodes DEF Announced
  <2>4. n \in InTree
    BY <1>4, MembersInTree
  <2>5. QED
    BY <1>1, <2>2, <2>3, <2>4 DEF SizesExact
<1>7. ASSUME NEW n \in S PROVE LeftSize(n) = Len(walks[rb_child[n]["left"]])
  <2>1. PICK c : c = rb_child[n]["left"]
    OBVIOUS
  <2>2. c \in S \cup {NULL}
    BY <1>5, <2>1 DEF Shaped, Below, TwoSides
  <2>3. CASE c = NULL
    <3>1. walks[c] = <<>>
      BY <1>5, <2>3 DEF IsInOrder
    <3>2. QED
      BY <2>1, <2>3, <3>1 DEF LeftSize
  <2>4. CASE c # NULL
    BY <1>6, <2>1, <2>2, <2>4 DEF LeftSize
  <2>5. QED
    BY <2>3, <2>4
<1>8. \A n \in S : n \in Node
  BY <1>4 DEF Members
<1>9. QED
  BY <1>3, <1>4, <1>7, <1>8 DEF LeftSizes, LeftCounts

\* The turns of ostree_select.
SelectTurn(w, k, n, q) ==
  IF k = 0 \/ n = NULL \/ q = LeftSize(n) + 1 THEN n
  ELSE IF q < LeftSize(n) + 1
       THEN w[k - 1][rb_child[n]["left"]][q]
       ELSE w[k - 1][rb_child[n]["right"]][q - (LeftSize(n) + 1)]

LEMMA SelectTurnsHere ==
  ASSUME IInv, \A n \in Node : LeftSize(n) \in Int, NEW q \in Nat
  PROVE  \E w : /\ SelectTurns(w, rb_child, Members(Par), NULL, Max, LeftSizes)
                /\ ostree_select(q) = w[Max][rb_node][q]
<1> DEFINE stop == [n \in NodeOrNil |-> [x \in Nat |-> n = NULL \/ x = LeftSize(n) + 1]]
           out == [n \in NodeOrNil |-> [x \in Nat |-> n]]
           go == [n \in NodeOrNil |-> [x \in Nat |->
                    rb_child[n][IF x < LeftSize(n) + 1 THEN "left" ELSE "right"]]]
           to == [n \in NodeOrNil |-> [x \in Nat |->
                    IF x < LeftSize(n) + 1 THEN x ELSE x - (LeftSize(n) + 1)]]
           OneRound(w) == [k \in Levels |-> [n \in NodeOrNil |-> [x \in Nat |->
                          SelectTurn(w, k, n, x)]]]
<1>1. Carrying(NodeOrNil, Nat, NodeOrNil, stop, out, go, to)
  <2>1. \A n \in Node, d \in Side : rb_child[n][d] \in NodeOrNil
    BY DEF IInv, TypeOK
  <2>2. out \in [NodeOrNil -> [Nat -> NodeOrNil]]
    OBVIOUS
  <2>3. ASSUME NEW n \in NodeOrNil, NEW x \in Nat, ~stop[n][x]
        PROVE  go[n][x] \in NodeOrNil /\ to[n][x] \in Nat
    <3>1. n \in Node
      BY <2>3 DEF NodeOrNil
    <3>2. PICK v \in Int : v = LeftSize(n)
      BY <3>1
    <3>3. go[n][x] = rb_child[n][IF x < v + 1 THEN "left" ELSE "right"]
      BY <3>2
    <3>4. to[n][x] = IF x < v + 1 THEN x ELSE x - (v + 1)
      BY <3>2
    <3>5. to[n][x] \in Nat
      <4> HIDE DEF to
      <4>1. QED
        BY <3>2, <3>4
    <3>6. QED
      BY <2>1, <3>1, <3>3, <3>5 DEF Side
  <2>4. QED
    BY <2>2, <2>3 DEF Carrying
<1>2. PICK v : v = CarryTurns(v, NodeOrNil, Nat, stop, out, go, to, Max)
  <2> HIDE DEF stop, out, go, to
  <2>1. QED
    BY <1>1, MaxType, CarrySolution
<1>3. v = OneRound(v)
  <2>1. \A k \in 0..Max, n \in NodeOrNil, x \in Nat :
          CarryTurn(v, k, n, x, stop, out, go, to) = SelectTurn(v, k, n, x)
    <3> TAKE k \in 0..Max, n \in NodeOrNil, x \in Nat
    <3>1. CASE k = 0 \/ n = NULL \/ x = LeftSize(n) + 1
      BY <3>1 DEF CarryTurn, SelectTurn
    <3>2. CASE ~(k = 0 \/ n = NULL \/ x = LeftSize(n) + 1)
      <4>1. ~stop[n][x] /\ k # 0
        BY <3>2
      <4>2. CASE x < LeftSize(n) + 1
        <5>1. go[n][x] = rb_child[n]["left"] /\ to[n][x] = x
          BY <4>2
        <5> HIDE DEF stop, go, to
        <5>2. QED
          BY <3>2, <4>1, <4>2, <5>1 DEF CarryTurn, SelectTurn
      <4>3. CASE ~(x < LeftSize(n) + 1)
        <5>1. go[n][x] = rb_child[n]["right"] /\ to[n][x] = x - (LeftSize(n) + 1)
          BY <4>3
        <5> HIDE DEF stop, go, to
        <5>2. QED
          BY <3>2, <4>1, <4>3, <5>1 DEF CarryTurn, SelectTurn
      <4>4. QED
        BY <4>2, <4>3
    <3>3. QED
      BY <3>1, <3>2
  <2> HIDE DEF stop, out, go, to
  <2>2. Levels = 0..Max
    BY DEF Levels, Max
  <2>3. v = [k \in 0..Max |-> [n \in NodeOrNil |-> [x \in Nat |->
               CarryTurn(v, k, n, x, stop, out, go, to)]]]
    BY <1>2 DEF CarryTurns
  <2>4. ASSUME NEW k \in 0..Max
        PROVE  [n \in NodeOrNil |-> [x \in Nat |-> CarryTurn(v, k, n, x, stop, out, go, to)]]
                 = [n \in NodeOrNil |-> [x \in Nat |-> SelectTurn(v, k, n, x)]]
    <3>1. ASSUME NEW n \in NodeOrNil
          PROVE  [x \in Nat |-> CarryTurn(v, k, n, x, stop, out, go, to)]
                   = [x \in Nat |-> SelectTurn(v, k, n, x)]
      BY <2>1
    <3>2. QED
      BY <3>1
  <2>5. v = [k \in 0..Max |-> [n \in NodeOrNil |-> [x \in Nat |-> SelectTurn(v, k, n, x)]]]
    BY <2>3, <2>4
  <2>6. QED
    BY <2>2, <2>5
<1>4. PICK w : w = CHOOSE u : u = OneRound(u)
  OBVIOUS
<1>5. w = OneRound(w)
  <2> HIDE DEF OneRound
  <2>1. QED
    BY <1>3, <1>4
<1>6. ostree_select(q) = w[Max][rb_node][q]
  BY <1>4 DEF ostree_select, SelectTurn, Max
<1>7. \A k \in 0..Max, n \in NodeOrNil, x \in Nat : w[k][n][x] = SelectTurn(w, k, n, x)
  <2> HIDE DEF stop, out, go, to
  <2>1. Levels = 0..Max
    BY DEF Levels, Max
  <2>2. w = [k \in 0..Max |-> [n \in NodeOrNil |-> [x \in Nat |-> SelectTurn(w, k, n, x)]]]
    BY <1>5, <2>1
  <2>3. TAKE k \in 0..Max, n \in NodeOrNil, x \in Nat
  <2>4. w[k] = [a \in NodeOrNil |-> [b \in Nat |-> SelectTurn(w, k, a, b)]]
    BY ONLY <2>2
  <2>5. w[k][n] = [b \in Nat |-> SelectTurn(w, k, n, b)]
    BY ONLY <2>4
  <2>6. QED
    BY ONLY <2>5
<1>8. \A b \in 0..Max, x \in Nat : w[b][NULL][x] = NULL
  BY <1>7 DEF SelectTurn, NodeOrNil
<1>9. ASSUME NEW b \in 1..Max, NEW n \in Members(Par), NEW x \in Nat
      PROVE  w[b][n][x] = IF x = LeftSizes[n] + 1 THEN n
                          ELSE IF x < LeftSizes[n] + 1 THEN w[b - 1][rb_child[n]["left"]][x]
                          ELSE w[b - 1][rb_child[n]["right"]][x - (LeftSizes[n] + 1)]
  <2>1. b \in 0..Max /\ b # 0 /\ n \in Node /\ n \in NodeOrNil /\ n # NULL
    BY MaxType, NodeAssumption DEF Members, NodeOrNil
  <2>2. LeftSizes[n] = LeftSize(n)
    BY <2>1 DEF LeftSizes
  <2>3. w[b][n][x] = SelectTurn(w, b, n, x)
    BY <1>7, <2>1
  <2>4. QED
    BY <2>1, <2>2, <2>3, Zenon DEF SelectTurn
<1>10. QED
  BY <1>6, <1>8, <1>9 DEF SelectTurns

\* ostree_select finds what is at a place of the list.
LEMMA SelectHere ==
  ASSUME SizeCallbacks, ListInv, AugInv, pc = "idle", NEW q \in Nat
  PROVE  IsAtPlace(List, q, ostree_select(q), NULL)
<1>1. IInv
  BY DEF ListInv
<1>2. PICK h : /\ Shaped(rb_child, Par, Members(Par), NULL, h, Max)
               /\ Rooted(rb_child, Par, rb_node, Members(Par), NULL)
               /\ IsInOrder(Walk(rb_child), rb_child, Members(Par), NULL)
  BY <1>1, TreeHere
<1>3. /\ \A n \in Node : LeftSize(n) \in Int
      /\ LeftCounts(LeftSizes, Walk(rb_child), rb_child, Members(Par))
  BY SizesHere
<1>4. PICK w : /\ SelectTurns(w, rb_child, Members(Par), NULL, Max, LeftSizes)
               /\ ostree_select(q) = w[Max][rb_node][q]
  BY <1>1, <1>3, SelectTurnsHere
<1>5. SelectsAll(w, Walk(rb_child), Members(Par), NULL, Max)
  BY <1>2, <1>3, <1>4, MaxType, SelectFinds
<1>6. rb_node \in Members(Par) \cup {NULL}
  BY <1>2 DEF Rooted
<1>7. QED
  BY <1>4, <1>5, <1>6 DEF SelectsAll, List

\* The turns of ostree_rank: what the parent of m adds, and the parent.
OnLeft(m) == IF m = rb_child[rb_parent(m)]["right"] THEN 1 + LeftSize(rb_parent(m)) ELSE 0

OnLefts == [m \in Node |-> IF m = rb_node THEN 0 ELSE OnLeft(m)]

LEMMA RankTurnsHere ==
  ASSUME IInv, \A n \in Node : LeftSize(n) \in Int, NEW n \in Node
  PROVE  \E w : /\ \A k \in 0..Max, m \in Node : w[k][m] = RankTurn(w, k, m, rb_node, Par, OnLefts)
                /\ ostree_rank(n) = 1 + LeftSize(n) + w[Max][n]
<1>1. ASSUME NEW m \in Node, m # rb_node PROVE rb_parent(m) \in Node
  <2>1. PICK h : Rooted(rb_child, Par, rb_node, Members(Par), NULL)
    BY TreeHere
  <2>2. CASE m \in Members(Par)
    BY <1>1, <2>1, <2>2 DEF Rooted, Members, Par
  <2>3. CASE m \notin Members(Par)
    BY <2>3 DEF Members, Par
  <2>4. QED
    BY <2>2, <2>3
<1>2. ASSUME NEW m \in Node
      PROVE  OnLefts[m] \in Int /\ (m # rb_node => Par[m] \in Node)
  <2>1. CASE m = rb_node
    BY <2>1 DEF OnLefts
  <2>2. CASE m # rb_node
    <3>1. rb_parent(m) \in Node
      BY <1>1, <2>2
    <3>2. OnLeft(m) \in Int
      BY <3>1 DEF OnLeft
    <3>3. QED
      BY <2>2, <3>1, <3>2 DEF OnLefts, Par
  <2>3. QED
    BY <2>1, <2>2
<1> DEFINE Turn(w, k, m) == IF k = 0 \/ m = rb_node THEN 0 ELSE w[k - 1][rb_parent(m)] + OnLeft(m)
           OneRound(w) == [k \in Levels |-> [m \in Node |-> Turn(w, k, m)]]
<1>3. \A m \in Node : \A w, k : RankTurn(w, k, m, rb_node, Par, OnLefts) = Turn(w, k, m)
  BY Zenon DEF RankTurn, Par, OnLefts
<1>4. Levels = 0..Max
  BY DEF Levels, Max
<1>5. \A w : RankTurns(w, Node, rb_node, Par, OnLefts, Max) = OneRound(w)
  <2> HIDE DEF Turn
  <2>1. TAKE w
  <2>2. \A k : [m \in Node |-> RankTurn(w, k, m, rb_node, Par, OnLefts)] = [m \in Node |-> Turn(w, k, m)]
    BY <1>3
  <2>3. QED
    BY <1>4, <2>2, Zenon DEF RankTurns
<1>6. PICK v : v = OneRound(v)
  <2> HIDE DEF OneRound
  <2>1. \A m \in Node : OnLefts[m] \in Int /\ (m # rb_node => Par[m] \in Node)
    BY <1>2
  <2>2. PICK v : v = RankTurns(v, Node, rb_node, Par, OnLefts, Max)
    BY ONLY <2>1, MaxType, RankSolution
  <2>3. QED
    BY <1>5, <2>2
<1>7. PICK w : w = CHOOSE u : u = OneRound(u)
  OBVIOUS
<1>8. w = OneRound(w)
  <2> HIDE DEF OneRound
  <2>1. QED
    BY <1>6, <1>7
<1>9. ostree_rank(n) = 1 + LeftSize(n) + w[Max][n]
  BY <1>7 DEF ostree_rank, OnLeft, Max
<1>10. \A k \in 0..Max, m \in Node : w[k][m] = Turn(w, k, m)
  <2> HIDE DEF Turn
  <2>1. w = [k \in 0..Max |-> [m \in Node |-> Turn(w, k, m)]]
    BY <1>4, <1>8
  <2>2. TAKE k \in 0..Max, m \in Node
  <2>3. w[k] = [a \in Node |-> Turn(w, k, a)]
    BY ONLY <2>1
  <2>4. QED
    BY ONLY <2>3
<1>11. QED
  <2> HIDE DEF Turn
  <2>1. QED
    BY <1>3, <1>9, <1>10

\* ostree_rank finds the place of a node.
LEMMA RankHere ==
  ASSUME SizeCallbacks, ListInv, AugInv, pc = "idle", NEW n \in Members(Par)
  PROVE  ostree_rank(n) \in DOMAIN List /\ List[ostree_rank(n)] = n
<1>1. IInv
  BY DEF ListInv
<1>2. PICK walks, S : walks = Walk(rb_child) /\ S = Members(Par)
  OBVIOUS
<1>3. PICK h : /\ Shaped(rb_child, Par, S, NULL, h, Max)
               /\ Rooted(rb_child, Par, rb_node, S, NULL)
               /\ IsInOrder(walks, rb_child, S, NULL)
  BY <1>1, <1>2, TreeHere
<1>4. /\ \A m \in Node : LeftSize(m) \in Int
      /\ LeftCounts(LeftSizes, walks, rb_child, S)
  BY <1>2, SizesHere
<1>5. S \subseteq Node /\ n \in S
  BY <1>2 DEF Members
<1>6. PICK w : /\ \A k \in 0..Max, m \in Node : w[k][m] = RankTurn(w, k, m, rb_node, Par, OnLefts)
               /\ ostree_rank(n) = 1 + LeftSize(n) + w[Max][n]
  BY <1>1, <1>4, <1>5, RankTurnsHere
<1>7. AddsLeft(OnLefts, Par, rb_child, S, rb_node, LeftSizes)
  <2>1. SUFFICES ASSUME NEW m \in S, m # rb_node
                 PROVE  OnLefts[m] = IF m = rb_child[Par[m]]["right"] THEN 1 + LeftSizes[Par[m]] ELSE 0
    BY DEF AddsLeft
  <2>2. m \in Node /\ Par[m] = rb_parent(m)
    BY <1>5 DEF Par
  <2>3. Par[m] \in S
    BY <1>3, <2>1 DEF Rooted
  <2>4. LeftSizes[Par[m]] = LeftSize(rb_parent(m))
    BY <1>5, <2>2, <2>3 DEF LeftSizes
  <2>5. OnLefts[m] = OnLeft(m)
    BY <2>1, <2>2 DEF OnLefts
  <2>6. QED
    BY <2>2, <2>4, <2>5, Zenon DEF OnLeft
<1>8. RankClimbs(w, S, rb_node, Par, OnLefts, Max)
  BY <1>5, <1>6 DEF RankClimbs
<1>9. Behind(S, walks[rb_node], walks[n], w[Max][n])
  <2>1. \A m \in S : Behind(S, walks[rb_node], walks[m], w[Max][m])
    BY <1>3, <1>4, <1>7, <1>8, MaxType, RankIsPlace
  <2>2. QED
    BY <1>5, <2>1
<1>10. PICK A, C : A = walks[rb_child[n]["left"]] /\ C = walks[rb_child[n]["right"]]
  OBVIOUS
<1>11. NodeAt(S, walks[n], A, n, C)
  <2>1. rb_child[n]["left"] \in S \cup {NULL} /\ rb_child[n]["right"] \in S \cup {NULL}
    BY <1>3, <1>5 DEF Shaped, Below, TwoSides
  <2>2. \A m \in S \cup {NULL} : walks[m] \in Seq(S)
    BY <1>3, MaxType, NodesUnfold
  <2>3. QED
    BY <1>3, <1>5, <1>10, <2>1, <2>2 DEF NodeAt, IsInOrder
<1>12. w[Max][n] + (1 + Len(A)) \in DOMAIN walks[rb_node] /\ walks[rb_node][w[Max][n] + (1 + Len(A))] = n
  BY <1>5, <1>9, <1>11, BehindSides
<1>13. ostree_rank(n) = w[Max][n] + (1 + Len(A))
  <2>1. LeftSize(n) = Len(A)
    BY <1>4, <1>5, <1>10 DEF LeftSizes, LeftCounts
  <2>2. w[Max][n] \in Nat /\ Len(A) \in Nat
    <3>1. \E P, Q : PlacedAt(S, walks[rb_node], walks[n], P, Q) /\ w[Max][n] = Len(P)
      BY <1>9 DEF Behind
    <3>2. QED
      BY <1>11, <3>1, LenProperties DEF PlacedAt, NodeAt
  <2>3. PICK x \in Nat, y \in Nat : x = w[Max][n] /\ y = Len(A)
    BY <2>2
  <2>4. QED
    BY <1>6, <2>1, <2>3
<1>14. QED
  BY <1>2, <1>12, <1>13 DEF List

\* Select and rank invert each other.
LEMMA SelectAndRankHere ==
  ASSUME SizeCallbacks, ListInv, AugInv
  PROVE  SelectAndRankAgree
<1>1. SUFFICES ASSUME pc = "idle"
               PROVE  /\ \A k \in DOMAIN list : ostree_select(k) = list[k] /\ ostree_rank(list[k]) = k
                      /\ \A k \in {0, Len(list) + 1} : ostree_select(k) = NULL
  BY DEF SelectAndRankAgree
<1>2. IInv
  BY DEF ListInv
<1>3. list = List /\ List \in Seq(Node) /\ Distinct(List) /\ Elements(List) = Members(Par)
  BY <1>2, ListNow DEF list
<1>4. PICK l : l = List
  OBVIOUS
<1>5. Len(l) \in Nat /\ DOMAIN l = 1..Len(l)
  BY <1>3, <1>4, LenProperties
<1>6. ASSUME NEW k \in DOMAIN l
      PROVE  ostree_select(k) = l[k] /\ ostree_rank(l[k]) = k
  <2>1. k \in Nat
    BY <1>5
  <2>2. ostree_select(k) = l[k]
    BY <1>1, <1>4, <2>1, SelectHere DEF IsAtPlace
  <2>3. l[k] \in Members(Par)
    BY <1>3, <1>4 DEF Elements
  <2>4. ostree_rank(l[k]) \in DOMAIN l /\ l[ostree_rank(l[k])] = l[k]
    BY <1>1, <1>4, <2>3, RankHere
  <2>5. QED
    BY <1>3, <1>4, <2>2, <2>4 DEF Distinct
<1>7. ASSUME NEW k \in {0, Len(l) + 1}
      PROVE  ostree_select(k) = NULL
  <2>1. k \in Nat /\ k \notin DOMAIN l
    BY <1>5
  <2>2. QED
    BY <1>1, <1>4, <2>1, SelectHere DEF IsAtPlace
<1>8. QED
  BY <1>3, <1>4, <1>6, <1>7

\* ostree_select and ostree_rank of ostree.h, between operations: each finds what the
\* other started from, and there is no node of rank 0 or beyond the number of nodes.
THEOREM SelectAndRankCorrect == ASSUME SizeCallbacks PROVE AugmentedSpec => []SelectAndRankAgree
<1>1. AugmentedSpec => [](ListInv /\ AugInv)
  BY ValuesAlwaysRight, SizeIsCallbacks
<1>2. ListInv /\ AugInv => SelectAndRankAgree
  BY SelectAndRankHere
<1>3. QED
  BY <1>1, <1>2, PTL
=============================================================================
