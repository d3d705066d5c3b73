--------------------------- MODULE LinuxListProof ---------------------------
(***************************************************************************)
(* What the recursive definitions about LinuxRbtree come to, for every set *)
(* of nodes and every assignment of keys: the red-black properties counted *)
(* along all paths, the sorted list that the tree implements, the ends and *)
(* the neighbours that the loops of LinuxWalk find in it, and the first    *)
(* node that a cache follows.                                              *)
(***************************************************************************)
EXTENDS LinuxWalk, LinuxRbtreeProof, TreeProof

Max == Cardinality(Node)

\* The walks of RBShape are those of TreeProof, with a budget of all nodes.
LEMMA WalksOfShape ==
  ASSUME NEW ch, NEW r, NEW blk, NEW extra
  PROVE  /\ InOrder(ch, r) = InOrderWalk(NodeOrNil, ch, NULL, Max)[Max][r]
         /\ BlackCounts(ch, blk, r, extra)
              = CountsWalk(NodeOrNil, ch, NULL, Max, blk, extra)[Max][r]
<1>1. InOrder(ch, r) = InOrderWalk(NodeOrNil, ch, NULL, Max)[Max][r]
  BY DEF InOrder, Levels, InOrderWalk, InOrderTurns, InOrderTurn, Max
<1>2. BlackCounts(ch, blk, r, extra) = CountsWalk(NodeOrNil, ch, NULL, Max, blk, extra)[Max][r]
  BY DEF BlackCounts, Levels, CountsWalk, CountsTurns, CountsTurn, Side, TwoSides, One, Max
<1>3. QED
  BY <1>1, <1>2

\* There are finitely many nodes (FiniteNodes), so the walks have a budget.
LEMMA MaxType == Max \in Nat
BY FiniteNodes, FS_CardinalityType DEF Max

\* TreeProof and LinuxRbtree call the sides the same.
LEMMA SidesAgree == Side = TwoSides
BY DEF Side, TwoSides

\* A height for every linked node: the rank, doubled to give the red node an insertion
\* works on a place below its red parent.
Height(B, n) ==
  4 * B[n] + (IF rb_is_black(n) THEN 0 ELSE IF pc = "insert" /\ n = node THEN 1 ELSE 2)

\* The height drops from every linked node to its children.
LEMMA HeightDown ==
  ASSUME TypeOK, Links, Colors, NEW B \in [Node -> Nat], Labels(B)
  PROVE  Below(rb_child, InTree, NULL, [n \in InTree |-> Height(B, n)])
<1> USE NodeAssumption
<1> DEFINE h == [n \in InTree |-> Height(B, n)]
<1>1. NULL \notin InTree
  BY DEF InTree
<1>2. ASSUME NEW n \in InTree, NEW d \in Side, rb_child[n][d] # NULL
      PROVE  rb_child[n][d] \in InTree /\ h[rb_child[n][d]] < h[n]
  <2> DEFINE c == rb_child[n][d]
  <2>1. n \in Node /\ ~RB_EMPTY_NODE(n) /\ c \in Node
    BY <1>2 DEF InTree, TypeOK, NodeOrNil
  <2>2. rb_parent(c) = n /\ c # n /\ ~RB_EMPTY_NODE(c)
    BY <1>2, <2>1 DEF Links, RB_EMPTY_NODE
  <2>3. c \in InTree
    BY <2>1, <2>2 DEF InTree
  <2>4. B[n] = Own(n) + B[c] + Short(n, d)
    BY <1>2, <2>1 DEF Labels, Down
  <2>5. rb_is_black(c) \/ rb_is_black(n) \/ (pc = "insert" /\ c = node)
    BY <2>1, <2>2 DEF Colors
  <2>6. Height(B, c) < Height(B, n)
    <3>1. B[n] \in Nat /\ B[c] \in Nat /\ Short(n, d) \in Nat
      BY <2>1 DEF Short
    <3>2. CASE rb_is_black(n)
      BY <2>4, <3>1, <3>2 DEF Own, Height
    <3>3. CASE ~rb_is_black(n)
      <4>1. Own(n) = 0
        BY <3>3 DEF Own
      <4>2. CASE rb_is_black(c)
        BY <2>4, <3>1, <3>3, <4>1, <4>2 DEF Height
      <4>3. CASE ~rb_is_black(c)
        BY <2>2, <2>4, <2>5, <3>1, <3>3, <4>1, <4>3 DEF Height
      <4>4. QED
        BY <4>2, <4>3
    <3>4. QED
      BY <3>2, <3>3
  <2>7. QED
    BY <1>2, <2>3, <2>6
<1>3. QED
  BY <1>1, <1>2, SidesAgree DEF Below

\* A height that fits into the budget.
LEMMA Heighted ==
  ASSUME IInv
  PROVE  \E h : (\A n \in InTree : h[n] \in 1..Max) /\ Below(rb_child, InTree, NULL, h)
<1>1. PICK B \in [Node -> Nat] : Labels(B)
  BY DEF IInv
<1> DEFINE h == [n \in InTree |-> Height(B, n)]
<1>2. Below(rb_child, InTree, NULL, h)
  BY <1>1, HeightDown DEF IInv
<1>3. h \in [InTree -> Nat]
  BY DEF InTree, Height
<1>4. /\ IsFiniteSet(InTree)
      /\ Cardinality(InTree) \in Nat
      /\ Cardinality(InTree) =< Max
  BY FiniteNodes, FS_Subset, FS_CardinalityType DEF InTree, Max
<1> HIDE DEF h
<1>5. PICK g \in [InTree -> 1..Cardinality(InTree)] : Below(rb_child, InTree, NULL, g)
  BY <1>2, <1>3, <1>4, LowHeights
<1>6. \A n \in InTree : g[n] \in 1..Max
  BY <1>4, MaxType
<1>7. QED
  BY <1>5, <1>6

\* The list of the nodes below each node.
io == InOrderWalk(NodeOrNil, rb_child, NULL, Max)[Max]

\* The walk of a tree in the states of the invariant: it unfolds, node by node.
LEMMA WalkOfTree ==
  ASSUME IInv
  PROVE  IsInOrder(io, rb_child, InTree, NULL)
<1>1. PICK h : (\A n \in InTree : h[n] \in 1..Max) /\ Below(rb_child, InTree, NULL, h)
  BY Heighted
<1>2. InTree \in SUBSET Node
  BY DEF InTree
<1>3. QED
  BY <1>1, <1>2, MaxType, InOrderUnfolds DEF io, NodeOrNil

-----------------------------------------------------------------------------
(* The red-black properties of the whole tree. *)

\* What the walk lists is linked.
LEMMA RootType ==
  ASSUME IInv
  PROVE  rb_node \in InTree \cup {NULL}
BY NodeAssumption DEF IInv, TypeOK, Links, NodeOrNil, InTree, RB_EMPTY_NODE

\* The walk from the root meets linked nodes only.
LEMMA InOrderType ==
  ASSUME IInv
  PROVE  InOrder(rb_child, rb_node) \in Seq(InTree)
<1>1. InOrder(rb_child, rb_node) = io[rb_node]
  BY WalksOfShape DEF io
<1>2. CASE rb_node = NULL
  BY <1>1, <1>2, WalkOfTree, EmptySeq DEF IsInOrder
<1>3. CASE rb_node \in InTree
  BY <1>1, <1>3, WalkOfTree DEF IsInOrder
<1>4. QED
  BY <1>2, <1>3, RootType

\* Two reds meet only where the children pointers of linked nodes lead from red to red.
LEMMA NoRedRedOfTree ==
  ASSUME IInv, NEW blk, \A n \in InTree, d \in Side : n \notin blk => rb_child[n][d] \in blk \cup {NULL}
  PROVE  NoRedRed(rb_child, blk, rb_node)
<1> DEFINE walk == InOrder(rb_child, rb_node)
<1>1. \A i \in DOMAIN walk : walk[i] \in InTree
  BY InOrderType, ElementOfSeq, LenProperties
<1>2. \A i \in DOMAIN walk, d \in Side :
        walk[i] \notin blk => rb_child[walk[i]][d] \in blk \cup {NULL}
  <2> HIDE DEF walk
  <2>1. QED
    BY <1>1
<1>3. QED
  BY <1>2 DEF NoRedRed

\* The counts on all paths are equal where a labelling exists.
LEMMA BalancedTree ==
  ASSUME IInv, NEW extra, NEW B \in [Node -> Nat],
         \A n \in InTree, d \in Side :
           B[n] = Down(B, rb_child[n][d]) + Own(n) + One(<<n, d>> = extra)
  PROVE  Balanced(rb_child, black, rb_node, extra)
<1> DEFINE L == [n \in NodeOrNil |-> Down(B, n)]
<1>1. PICK h : (\A n \in InTree : h[n] \in 1..Max) /\ Below(rb_child, InTree, NULL, h)
  BY Heighted
<1>3. InTree \in SUBSET Node /\ NULL \notin Node
  BY NodeAssumption DEF InTree
<1>4. L[NULL] = 0
  BY DEF Down, NodeOrNil
<1>5. \A n \in InTree : L[n] \in Nat /\ L[n] = B[n]
  BY <1>3 DEF Down, NodeOrNil
<1>6. ASSUME NEW n \in InTree, NEW d \in TwoSides
      PROVE  L[n] = L[rb_child[n][d]] + One(n \in black) + One(<<n, d>> = extra)
  <2>1. rb_child[n][d] \in NodeOrNil
    BY <1>3, SidesAgree DEF IInv, TypeOK
  <2>2. L[rb_child[n][d]] = Down(B, rb_child[n][d])
    BY <2>1
  <2>3. One(n \in black) = Own(n)
    BY <1>3 DEF One, Own, black
  <2> HIDE DEF L
  <2>4. QED
    BY <1>5, <2>2, <2>3, SidesAgree
<1> HIDE DEF L
<1>7. \A n \in InTree \cup {NULL} :
        CountsWalk(NodeOrNil, rb_child, NULL, Max, black, extra)[Max][n] = {L[n]}
  <2>1. \A n \in InTree : L[n] \in Nat
    BY <1>5
  <2>2. \A n \in InTree, d \in TwoSides :
          L[n] = L[rb_child[n][d]] + One(n \in black) + One(<<n, d>> = extra)
    BY <1>6
  <2>3. PathLabels(L, InTree, NULL, rb_child, black, extra)
    BY <1>4, <2>1, <2>2 DEF PathLabels
  <2>4. \A n \in InTree \cup {NULL} :
          CountIs(CountsWalk(Node \cup {NULL}, rb_child, NULL, Max, black, extra)[Max][n], L[n])
    BY <1>1, <1>3, <2>3, MaxType, CountsAreLabels
  <2>5. QED
    BY <2>4 DEF CountIs, NodeOrNil
<1>8. BlackCounts(rb_child, black, rb_node, extra) = {L[rb_node]}
  BY <1>7, RootType, WalksOfShape
<1>9. QED
  BY <1>8, FS_Singleton DEF Balanced

\* At rest the tree has the properties that the top of rbtree.c lists, counted along
\* every path; inside of __rb_insert and ____rb_erase_color it has what the comments of
\* the two loops claim, at every turn.  For every set of nodes and every history of calls.
THEOREM RedBlackAlways == Spec => []RedBlackThroughout
<1>1. IInv => RedBlackThroughout
  <2> SUFFICES ASSUME IInv PROVE RedBlackThroughout
    OBVIOUS
  <2> USE NodeAssumption
  <2>0. TypeOK /\ Links /\ Colors /\ Locals
    BY DEF IInv
  <2>1. PICK B \in [Node -> Nat] : Labels(B)
    BY DEF IInv
  <2>2. \A n \in InTree : n \in Node /\ ~RB_EMPTY_NODE(n) /\ Own(n) \in {0, 1} /\ n # NULL
    BY DEF InTree, Own
  <2>3. ASSUME NEW extra, \A n \in InTree, d \in Side : One(<<n, d>> = extra) = Short(n, d)
        PROVE  Balanced(rb_child, black, rb_node, extra)
    <3>1. ASSUME NEW n \in InTree, NEW d \in Side
          PROVE  B[n] = Down(B, rb_child[n][d]) + Own(n) + One(<<n, d>> = extra)
      <4>1. B[n] = Own(n) + Down(B, rb_child[n][d]) + Short(n, d)
        BY <2>1, <2>2 DEF Labels
      <4>2. rb_child[n][d] \in NodeOrNil
        BY <2>0, <2>2 DEF TypeOK
      <4>3. Down(B, rb_child[n][d]) \in Nat /\ Short(n, d) \in {0, 1}
        BY <4>2 DEF Down, NodeOrNil, Short
      <4>4. QED
        BY <2>2, <2>3, <4>1, <4>3
    <3>2. QED
      BY <3>1, BalancedTree
  <2>4. ASSUME pc # "erase_color" PROVE Balanced(rb_child, black, rb_node, NoSlot)
    BY <2>2, <2>3, <2>4 DEF NoSlot, One, Short
  <2>5. ASSUME pc = "erase_color"
        PROVE  Balanced(rb_child, black, rb_node, <<parent, SideOf(node, parent)>>)
    <3>1. \A n \in InTree, d \in Side :
            One(<<n, d>> = <<parent, SideOf(node, parent)>>) = Short(n, d)
      BY <2>5 DEF One, Short
    <3>2. QED
      BY <2>3, <3>1
  <2>6. ASSUME NEW blk, black \subseteq blk, pc = "insert" => node \in blk
        PROVE  NoRedRed(rb_child, blk, rb_node)
    <3>1. ASSUME NEW n \in InTree, NEW d \in Side, n \notin blk
          PROVE  rb_child[n][d] \in blk \cup {NULL}
      <4>1. n \in Node /\ ~rb_is_black(n)
        BY <2>2, <2>6, <3>1 DEF black
      <4>2. ASSUME NEW c \in Node, c = rb_child[n][d] PROVE rb_is_black(c) \/ (pc = "insert" /\ c = node)
        BY <2>0, <4>1, <4>2 DEF Links, Colors, RB_EMPTY_NODE
      <4>3. rb_child[n][d] \in NodeOrNil
        BY <2>0, <4>1 DEF TypeOK
      <4>4. QED
        BY <2>6, <4>2, <4>3 DEF black, NodeOrNil
    <3>2. QED
      BY <3>1, NoRedRedOfTree
  <2>7. RedBlackAtRest
    <3> SUFFICES ASSUME pc \notin {"insert", "erase_color"}
                 PROVE  IsRedBlack(rb_child, black, rb_node)
      BY DEF RedBlackAtRest
    <3>1. rb_node \in black \cup {NULL}
      BY <2>0 DEF TypeOK, Links, Colors, NodeOrNil, RB_EMPTY_NODE, black
    <3>2. QED
      BY <2>4, <2>6, <3>1 DEF IsRedBlack
  <2>8. LoopInvariants
    <3>1. ASSUME pc = "insert"
          PROVE  /\ rb_is_red(node)
                 /\ Balanced(rb_child, black, rb_node, NoSlot)
                 /\ NoRedRed(rb_child, black \cup {node}, rb_node)
      <4>1. rb_is_red(node)
        BY <2>0, <3>1, RedOrBlack DEF Locals
      <4>2. QED
        BY <2>4, <2>6, <3>1, <4>1
    <3>2. ASSUME pc = "erase_color"
          PROVE  /\ node = NULL \/ rb_is_black(node)
                 /\ Balanced(rb_child, black, rb_node, <<parent, SideOf(node, parent)>>)
                 /\ NoRedRed(rb_child, black, rb_node)
      BY <2>0, <2>5, <2>6, <3>2 DEF Locals
    <3>3. QED
      BY <3>1, <3>2 DEF LoopInvariants
  <2>9. QED
    BY <2>7, <2>8 DEF RedBlackThroughout
<1>2. QED
  BY <1>1, IInvAlways, PTL

-----------------------------------------------------------------------------
(* Lists and changes of shape. *)

\* The nodes that are linked, for any parent pointers.
Members(par) == {n \in Node : par[n] # n}

HasHeight(ch, par) == \E h \in [Members(par) -> Nat] : Below(ch, Members(par), NULL, h)

\* A tree without loops.
Whole(r, ch, par) ==
  /\ r \in NodeOrNil
  /\ ch \in Children
  /\ par \in Parents
  /\ Tree(r, ch, par)
  /\ HasHeight(ch, par)

\* Its list below each node.
Walk(ch) == InOrderWalk(NodeOrNil, ch, NULL, Max)[Max]

\* What TreeProof assumes of a tree holds of a whole one.
Walked(r, ch, par, h) ==
  /\ Shaped(ch, par, Members(par), NULL, h, Max)
  /\ Rooted(ch, par, r, Members(par), NULL)
  /\ IsInOrder(Walk(ch), ch, Members(par), NULL)

\* A whole tree is what the lemmas of TreeProof are about.
LEMMA WholeIsWalked ==
  ASSUME NEW r, NEW ch, NEW par, Whole(r, ch, par)
  PROVE  \E h : Walked(r, ch, par, h)
<1> USE NodeAssumption
<1> DEFINE S == Members(par)
<1>1. S \subseteq Node /\ IsFiniteSet(S) /\ Cardinality(S) \in Nat /\ Cardinality(S) =< Max
  BY FiniteNodes, FS_Subset, FS_CardinalityType DEF Members, Max
<1>2. PICK h0 \in [S -> Nat] : Below(ch, S, NULL, h0)
  BY DEF Whole, HasHeight
<1> HIDE DEF S
<1>3. PICK h \in [S -> 1..Cardinality(S)] : Below(ch, S, NULL, h)
  BY <1>1, <1>2, LowHeights
<1>4. \A n \in S : h[n] \in 1..Max
  BY <1>1, MaxType
<1>6. IsInOrder(Walk(ch), ch, S, NULL)
  BY <1>1, <1>3, <1>4, MaxType, InOrderUnfolds DEF Walk, NodeOrNil
<1>7. \A n \in S : n \in Node /\ n # NULL /\ par[n] # n /\ par[n] \in NodeOrNil
  BY DEF S, Members, Whole, Parents
<1>8. \A n \in S, d \in Side : ch[n][d] # NULL =>
        par[ch[n][d]] = n /\ ch[n][Opposite(d)] # ch[n][d]
  BY <1>7 DEF Whole, Tree
<1>9. Shaped(ch, par, S, NULL, h, Max)
  <2>1. \A n \in S : ch[n]["left"] # NULL => ch[n]["left"] # ch[n]["right"]
    BY <1>8, Sides
  <2>2. QED
    BY <1>3, <1>4, <1>8, <2>1, SidesAgree DEF Shaped
<1>10. r \in S \cup {NULL}
  BY DEF Whole, Tree, NodeOrNil, S, Members
<1>11. ASSUME NEW n \in S, par[n] # NULL
       PROVE  par[n] \in S /\ \E d \in TwoSides : ch[par[n]][d] = n
  <2>1. PICK d \in Side : ch[par[n]][d] = n
    BY <1>7, <1>11 DEF Whole, Tree
  <2>2. par[n] \in Node /\ par[par[n]] # par[n]
    BY <1>7, <1>11, <2>1 DEF Whole, Tree, NodeOrNil
  <2>3. QED
    BY <2>1, <2>2, SidesAgree DEF S, Members
<1>12. \A n \in S : par[n] = NULL => n = r
  BY <1>7 DEF Whole, Tree
<1>13. Rooted(ch, par, r, S, NULL)
  BY <1>10, <1>11, <1>12 DEF Rooted
<1>14. QED
  BY <1>6, <1>9, <1>13 DEF Walked, S

\* The memory is whole in the states of the invariant.
LEMMA MemoryIsWhole == IInv => Whole(rb_node, rb_child, Par)
<1> SUFFICES ASSUME IInv PROVE Whole(rb_node, rb_child, Par)
  OBVIOUS
<1>1. /\ Par \in Parents
      /\ Tree(rb_node, rb_child, Par)
      /\ rb_node \in NodeOrNil
      /\ rb_child \in Children
      /\ \A n \in Node : Par[n] = rb_parent(n) /\ (Par[n] # n <=> ~RB_EMPTY_NODE(n))
  BY LinksIsTree DEF IInv
<1>2. Members(Par) = InTree
  BY <1>1 DEF Members, InTree
<1>3. PICK B \in [Node -> Nat] : Labels(B)
  BY DEF IInv
<1> DEFINE h == [n \in InTree |-> Height(B, n)]
<1>4. Below(rb_child, InTree, NULL, h)
  BY <1>3, HeightDown DEF IInv
<1>5. h \in [InTree -> Nat]
  BY DEF InTree, Height
<1> HIDE DEF h
<1>6. HasHeight(rb_child, Par)
  BY <1>2, <1>4, <1>5 DEF HasHeight
<1>7. QED
  BY <1>1, <1>6 DEF Whole

\* The tree of LinuxRbtree is whole after a step, too.
LEMMA NextIsWhole ==
  ASSUME IInv'
  PROVE  Whole(rb_node', rb_child', Par')
<1>1. (IInv => Whole(rb_node, rb_child, Par))'
  BY MemoryIsWhole, PTL
<1>2. QED
  BY <1>1

\* The list of a whole tree has every linked node, once.
LEMMA ListOfWhole ==
  ASSUME NEW r, NEW ch, NEW par, Whole(r, ch, par)
  PROVE  /\ InOrder(ch, r) = Walk(ch)[r]
         /\ Walk(ch)[r] \in Seq(Node)
         /\ Distinct(Walk(ch)[r])
         /\ Elements(Walk(ch)[r]) = Members(par)
<1>1. PICK h : Walked(r, ch, par, h)
  BY WholeIsWalked
<1>2. InOrder(ch, r) = Walk(ch)[r]
  BY WalksOfShape DEF Walk
<1>3. Max \in Nat /\ r \in Members(par) \cup {NULL} /\ Members(par) \subseteq Node
  BY <1>1, MaxType DEF Walked, Rooted, Members
<1>4. Walk(ch)[r] \in Seq(Members(par))
  BY <1>1, <1>3, NodesUnfold DEF Walked
<1>5. Walk(ch)[r] \in Seq(Node)
  BY <1>3, <1>4, SeqMonotonic
<1>6. Distinct(Walk(ch)[r])
  BY <1>1, <1>3, WalkDistinct DEF Walked
<1>7. Elements(Walk(ch)[r]) = Members(par)
  <2>1. Nodes(Walk(ch), r) = Members(par)
    BY <1>1, <1>3, WalkMeetsAll DEF Walked
  <2>2. QED
    BY <2>1 DEF Nodes
<1>8. QED
  BY <1>2, <1>5, <1>6, <1>7

\* A rotation yields a whole tree again: s takes the height of p, which gets one that
\* was free between its own and that of its children.
LEMMA TurnedWhole ==
  ASSUME NEW r, NEW ch, NEW par, Whole(r, ch, par),
         NEW p \in Node, NEW s \in Node, NEW d \in Side, ch[p][Opposite(d)] = s, par[p] # s
  PROVE  Whole(RootAfter(r, par, p, s), Turned(ch, p, s, d), TurnedPar(ch, par, p, s, d))
<1> USE NodeAssumption
<1>1. /\ r \in NodeOrNil /\ ch \in Children /\ par \in Parents /\ Tree(r, ch, par)
      /\ HasHeight(ch, par)
  BY DEF Whole
<1> PICK r2 \in NodeOrNil : r2 = RootAfter(r, par, p, s)
  BY <1>1 DEF RootAfter, NodeOrNil
<1> PICK ch2 \in Children : ch2 = Turned(ch, p, s, d)
  BY <1>1, TurnedTypes
<1> PICK par2 \in Parents : par2 = TurnedPar(ch, par, p, s, d)
  BY <1>1, TurnedTypes
<1> PICK t \in NodeOrNil : t = ch[s][d]
  BY <1>1 DEF Children
<1>2. Tree(r2, ch2, par2)
  BY <1>1, TurnedTree
<1>3. \A n \in Node, e \in Side :
        ch2[n][e] = IF n = p /\ e # d THEN t ELSE IF n = s /\ e = d THEN p
                    ELSE IF ch[n][e] = p THEN s ELSE ch[n][e]
  BY DEF Turned
<1>4. \A n \in Node : par2[n] = IF n = p THEN s ELSE IF n = s THEN par[p]
                                ELSE IF n = t THEN p ELSE par[n]
  BY DEF TurnedPar
<1>5. /\ par[s] = p /\ s # p /\ par[p] # p /\ par[s] # s
      /\ t # NULL => par[t] = s /\ t # s /\ t # p
      /\ Opposite(d) \in Side /\ Opposite(d) # d
      /\ \A e \in Side : e # d => e = Opposite(d)
  BY <1>1, Sides DEF Tree, NodeOrNil
<1> DEFINE S == Members(par)
<1>6. Members(par2) = S
  BY <1>4, <1>5 DEF Members
<1>7. PICK h \in [S -> Nat] : Below(ch, S, NULL, h)
  BY <1>1 DEF HasHeight
<1>8. /\ \A n \in S, e \in Side : /\ ch[n][e] \in S \cup {NULL}
                                  /\ ch[n][e] # NULL => h[ch[n][e]] < h[n]
      /\ p \in S /\ s \in S /\ S \subseteq Node /\ NULL \notin S
      /\ h[s] < h[p]
  <2>1. p \in S /\ s \in S /\ S \subseteq Node
    BY <1>5 DEF Members
  <2>2. \A n \in S, e \in Side : /\ ch[n][e] \in S \cup {NULL}
                                 /\ ch[n][e] # NULL => h[ch[n][e]] < h[n]
    BY <1>7, SidesAgree DEF Below
  <2>3. QED
    BY <1>5, <2>1, <2>2
<1>9. PICK g \in [S -> Nat] :
        \A n \in S : g[n] = IF n = s THEN 2 * h[p] ELSE IF n = p THEN 2 * h[p] - 1 ELSE 2 * h[n]
  <2> DEFINE g == [n \in S |-> IF n = s THEN 2 * h[p] ELSE IF n = p THEN 2 * h[p] - 1 ELSE 2 * h[n]]
  <2>1. \A n \in S : g[n] \in Nat
    <3>1. h[s] \in Nat /\ h[p] \in Nat
      BY <1>8
    <3>2. 2 * h[p] - 1 \in Nat
      BY <1>8, <3>1
    <3>3. QED
      BY <3>1, <3>2
  <2>2. g \in [S -> Nat]
    BY <2>1
  <2>3. QED
    BY <2>2
<1>10. ASSUME NEW n \in S, NEW e \in Side, ch2[n][e] # NULL
       PROVE  ch2[n][e] \in S /\ g[ch2[n][e]] < g[n]
  <2>1. h[n] \in Nat /\ h[p] \in Nat /\ h[s] \in Nat /\ ch[n][e] \in S \cup {NULL}
    BY <1>8
  <2>2. t # NULL => t \in S /\ h[t] < h[s] /\ h[t] \in Nat /\ g[t] = 2 * h[t]
    BY <1>5, <1>8, <1>9
  <2>3. CASE n = p /\ e # d
    <3>1. ch2[n][e] = t
      BY <1>3, <1>8, <2>3
    <3>2. g[n] = 2 * h[p] - 1
      BY <1>5, <1>9, <2>3
    <3>3. QED
      BY <1>8, <1>10, <2>1, <2>2, <3>1, <3>2
  <2>4. CASE n = p /\ e = d
    <3>1. ch[n][e] # s /\ ch[n][e] # p
      BY <1>1, <1>5, <2>4 DEF Tree, NodeOrNil
    <3>2. ch2[n][e] = ch[n][e]
      BY <1>3, <1>5, <1>8, <2>4, <3>1
    <3>3. ch[n][e] \in S /\ h[ch[n][e]] < h[p] /\ h[ch[n][e]] \in Nat
      BY <1>8, <1>10, <2>4, <3>2
    <3>4. g[ch[n][e]] = 2 * h[ch[n][e]] /\ g[n] = 2 * h[p] - 1
      BY <1>5, <1>9, <2>4, <3>1, <3>3
    <3>5. QED
      BY <2>1, <3>2, <3>3, <3>4
  <2>5. CASE n = s /\ e = d
    <3>1. ch2[n][e] = p
      BY <1>3, <1>5, <1>8, <2>5
    <3>2. g[n] = 2 * h[p] /\ g[p] = 2 * h[p] - 1
      BY <1>5, <1>8, <1>9, <2>5
    <3>3. QED
      BY <1>8, <2>1, <3>1, <3>2
  <2>6. CASE n = s /\ e # d
    <3>1. ch[n][e] # p /\ ch[n][e] # s
      BY <1>1, <1>5, <2>6 DEF Tree, NodeOrNil
    <3>2. ch2[n][e] = ch[n][e]
      BY <1>3, <1>5, <1>8, <2>6, <3>1
    <3>3. ch[n][e] \in S /\ h[ch[n][e]] < h[s] /\ h[ch[n][e]] \in Nat
      BY <1>8, <1>10, <2>6, <3>2
    <3>4. g[ch[n][e]] = 2 * h[ch[n][e]] /\ g[n] = 2 * h[p]
      BY <1>5, <1>9, <2>6, <3>1, <3>3
    <3>5. QED
      BY <1>8, <2>1, <3>2, <3>3, <3>4
  <2>7. CASE n # p /\ n # s /\ ch[n][e] = p
    <3>1. ch2[n][e] = s
      BY <1>3, <1>8, <2>7
    <3>2. h[p] < h[n]
      BY <1>8, <2>7
    <3>3. g[s] = 2 * h[p] /\ g[n] = 2 * h[n]
      BY <1>8, <1>9, <2>7
    <3>4. QED
      BY <1>8, <2>1, <3>1, <3>2, <3>3
  <2>8. CASE n # p /\ n # s /\ ch[n][e] # p
    <3>1. ch[n][e] # s
      BY <1>1, <1>5, <1>8, <2>8 DEF Tree
    <3>2. ch2[n][e] = ch[n][e]
      BY <1>3, <1>8, <2>8
    <3>3. ch[n][e] \in S /\ h[ch[n][e]] < h[n] /\ h[ch[n][e]] \in Nat
      BY <1>8, <1>10, <3>2
    <3>4. g[ch[n][e]] = 2 * h[ch[n][e]] /\ g[n] = 2 * h[n]
      BY <1>9, <2>8, <3>1, <3>3
    <3>5. QED
      BY <2>1, <3>2, <3>3, <3>4
  <2>9. QED
    BY <2>3, <2>4, <2>5, <2>6, <2>7, <2>8
<1>11. Below(ch2, S, NULL, g)
  BY <1>8, <1>10, SidesAgree DEF Below
<1>12. HasHeight(ch2, par2)
  BY <1>6, <1>9, <1>11 DEF HasHeight
<1>13. QED
  BY <1>2, <1>12 DEF Whole

\* What is in the lists of a whole tree, node by node ...
LEMMA NodesInWhole ==
  ASSUME NEW r, NEW ch, NEW par, Whole(r, ch, par)
  PROVE  /\ Nodes(Walk(ch), NULL) = {}
         /\ \A n \in Members(par) :
              /\ n \in Nodes(Walk(ch), n)
              /\ Nodes(Walk(ch), n) \subseteq Members(par)
              /\ par[n] \notin Nodes(Walk(ch), n)
         /\ \A n \in Members(par), d \in Side :
              /\ ch[n][d] \in Members(par) \cup {NULL}
              /\ Nodes(Walk(ch), n)
                   = Nodes(Walk(ch), ch[n][d]) \cup {n} \cup Nodes(Walk(ch), ch[n][Opposite(d)])
              /\ n \notin Nodes(Walk(ch), ch[n][d])
              /\ Nodes(Walk(ch), ch[n][d]) \cap Nodes(Walk(ch), ch[n][Opposite(d)]) = {}
<1>1. PICK h : Walked(r, ch, par, h)
  BY WholeIsWalked
<1>2. PICK w : w = Walk(ch)
  OBVIOUS
<1>3. PICK S : S = Members(par)
  OBVIOUS
<1>4. /\ Max \in Nat /\ Shaped(ch, par, S, NULL, h, Max) /\ Rooted(ch, par, r, S, NULL)
      /\ IsInOrder(w, ch, S, NULL)
  BY <1>1, <1>2, <1>3, MaxType DEF Walked
<1>5. /\ Nodes(w, NULL) = {}
      /\ \A n \in S : Nodes(w, n) \subseteq S
      /\ \A n \in S : Nodes(w, n) = Nodes(w, ch[n]["left"]) \cup {n} \cup Nodes(w, ch[n]["right"])
  BY <1>4, NodesUnfold
<1>6. \A n \in S : n \in Nodes(w, n) /\ \A m \in Nodes(w, n) : m # n => h[m] < h[n]
  BY <1>4, NodesBelow
<1>7. ASSUME NEW n \in S PROVE par[n] \notin Nodes(w, n)
  <2>1. SUFFICES ASSUME par[n] \in Nodes(w, n) PROVE FALSE
    OBVIOUS
  <2>2. par[n] \in S /\ NULL \notin S
    BY <1>4, <1>5, <2>1 DEF Shaped, Below
  <2>3. PICK d \in TwoSides : ch[par[n]][d] = n
    BY <1>4, <2>2 DEF Rooted
  <2>4. h[n] < h[par[n]] /\ h[n] \in Nat /\ h[par[n]] \in Nat
    BY <1>4, <2>2, <2>3 DEF Shaped, Below
  <2>5. h[par[n]] < h[n] \/ par[n] = n
    BY <1>6, <2>1
  <2>6. QED
    BY <2>4, <2>5
<1>8. ASSUME NEW n \in S, NEW d \in Side
      PROVE  /\ ch[n][d] \in S \cup {NULL}
             /\ Nodes(w, n) = Nodes(w, ch[n][d]) \cup {n} \cup Nodes(w, ch[n][Opposite(d)])
             /\ n \notin Nodes(w, ch[n][d])
             /\ Nodes(w, ch[n][d]) \cap Nodes(w, ch[n][Opposite(d)]) = {}
  <2>1. ch[n][d] \in S \cup {NULL}
    BY <1>4, SidesAgree DEF Shaped, Below
  <2>2. /\ Nodes(w, ch[n]["left"]) \cap Nodes(w, ch[n]["right"]) = {}
        /\ \A e \in TwoSides : n \notin Nodes(w, ch[n][e])
    BY <1>4, SidesApart
  <2>3. CASE d = "left"
    BY <1>5, <2>1, <2>2, <2>3, SidesAgree DEF Opposite
  <2>4. CASE d = "right"
    BY <1>5, <2>1, <2>2, <2>4, SidesAgree DEF Opposite
  <2>5. QED
    BY <2>3, <2>4 DEF Side
<1>9. QED
  BY <1>2, <1>3, <1>5, <1>6, <1>7, <1>8

\* ... and how the list of a node is put together.
LEMMA ListsInWhole ==
  ASSUME NEW r, NEW ch, NEW par, Whole(r, ch, par)
  PROVE  /\ Walk(ch)[NULL] = <<>>
         /\ \A n \in Members(par) \cup {NULL} : Walk(ch)[n] \in Seq(Node) /\ Distinct(Walk(ch)[n])
         /\ \A n \in Members(par), d \in Side :
              Walk(ch)[n] = Put(d, Walk(ch)[ch[n][d]], n, Walk(ch)[ch[n][Opposite(d)]])
<1>1. PICK h : Walked(r, ch, par, h)
  BY WholeIsWalked
<1>2. PICK w : w = Walk(ch)
  OBVIOUS
<1>3. PICK S : S = Members(par)
  OBVIOUS
<1>4. /\ Max \in Nat /\ Shaped(ch, par, S, NULL, h, Max)
      /\ IsInOrder(w, ch, S, NULL) /\ S \subseteq Node
  BY <1>1, <1>2, <1>3, MaxType DEF Walked, Members
<1>5. w[NULL] = <<>>
  BY <1>4 DEF IsInOrder
<1>6. \A n \in S \cup {NULL} : w[n] \in Seq(S) /\ Distinct(w[n])
  BY <1>4, NodesUnfold, WalkDistinct
<1>7. Seq(S) \subseteq Seq(Node)
  BY <1>4, SeqMonotonic
<1>8. \A d \in Side : Across(d) = Opposite(d)
  BY DEF Across, Opposite
<1>9. \A n \in S, d \in Side : w[n] = Put(d, w[ch[n][d]], n, w[ch[n][Opposite(d)]])
  BY <1>4, <1>8, PutEither, SidesAgree
<1>10. QED
  BY <1>2, <1>3, <1>5, <1>6, <1>7, <1>9

\* A list where no pointer below it changes.
LEMMA ListStays ==
  ASSUME NEW r, NEW ch, NEW par, Whole(r, ch, par), NEW r2, NEW ch2, NEW par2, Whole(r2, ch2, par2),
         NEW n \in Members(par) \cup {NULL},
         \A m \in Nodes(Walk(ch), n) : m \in Members(par2) /\ \A d \in Side : ch2[m][d] = ch[m][d]
  PROVE  Walk(ch2)[n] = Walk(ch)[n]
<1>1. PICK h : Walked(r, ch, par, h)
  BY WholeIsWalked
<1>2. PICK h2 : Walked(r2, ch2, par2, h2)
  BY WholeIsWalked
<1>3. PICK w, w2 : w = Walk(ch) /\ w2 = Walk(ch2)
  OBVIOUS
<1>4. PICK S, S2 : S = Members(par) /\ S2 = Members(par2)
  OBVIOUS
<1>5. /\ Max \in Nat /\ Shaped(ch, par, S, NULL, h, Max)
      /\ IsInOrder(w, ch, S, NULL) /\ IsInOrder(w2, ch2, S2, NULL)
      /\ n \in S \cup {NULL}
      /\ \A m \in Nodes(w, n) : m \in S2 /\ \A d \in TwoSides : ch2[m][d] = ch[m][d]
  BY <1>1, <1>2, <1>3, <1>4, MaxType, SidesAgree DEF Walked
<1>6. w2[n] = w[n]
  BY <1>5, SameBelow
<1>7. QED
  BY <1>3, <1>6

\* A list where p2 takes the place of p.
LEMMA ListChanges ==
  ASSUME NEW r, NEW ch, NEW par, Whole(r, ch, par), NEW r2, NEW ch2, NEW par2, Whole(r2, ch2, par2),
         NEW p \in Members(par), NEW p2 \in Members(par2) \cup {NULL},
         SwappedAt(ch, Members(par), Walk(ch), ch2, Members(par2), p, p2),
         r2 = RootAfter(r, par, p, p2)
  PROVE  Within(Walk(ch)[r], Walk(ch)[p], Walk(ch2)[r2], Walk(ch2)[p2], Node)
<1>1. PICK h : Walked(r, ch, par, h)
  BY WholeIsWalked
<1>2. PICK h2 : Walked(r2, ch2, par2, h2)
  BY WholeIsWalked
<1>3. PICK w, w2 : w = Walk(ch) /\ w2 = Walk(ch2)
  OBVIOUS
<1>4. PICK S, S2 : S = Members(par) /\ S2 = Members(par2)
  OBVIOUS
<1>5. /\ Max \in Nat /\ Shaped(ch, par, S, NULL, h, Max) /\ Rooted(ch, par, r, S, NULL)
      /\ IsInOrder(w, ch, S, NULL) /\ IsInOrder(w2, ch2, S2, NULL)
      /\ S \subseteq Node /\ S2 \subseteq Node
      /\ p \in S /\ p2 \in S2 \cup {NULL}
      /\ SwappedAt(ch, S, w, ch2, S2, p, p2)
  BY <1>1, <1>2, <1>3, <1>4, MaxType DEF Walked, Members
<1>6. r2 = IF r = p THEN p2 ELSE r
  BY NodeAssumption, <1>4, <1>5 DEF Whole, Tree, RootAfter, Members
<1>7. Within(w[r], w[p], w2[r2], w2[p2], Node)
  BY <1>5, <1>6, ListChange
<1>8. QED
  BY <1>3, <1>7

-----------------------------------------------------------------------------
(* What each change of shape does to the list. *)

\* A rotation does nothing to it.
LEMMA TurnKeepsList ==
  ASSUME NEW r, NEW ch, NEW par, Whole(r, ch, par), NEW r2, NEW ch2, NEW par2,
         IsTurn(r, ch, par, r2, ch2, par2)
  PROVE  Whole(r2, ch2, par2) /\ Walk(ch2)[r2] = Walk(ch)[r]
<1> USE NodeAssumption
<1>1. PICK p \in Node, s \in Node, d \in Side :
        /\ ch[p][Opposite(d)] = s
        /\ par[p] # s
        /\ r2 = RootAfter(r, par, p, s)
        /\ ch2 = Turned(ch, p, s, d)
        /\ par2 = TurnedPar(ch, par, p, s, d)
  BY DEF IsTurn
<1>2. Whole(r2, ch2, par2)
  BY <1>1, TurnedWhole
<1>3. /\ r \in NodeOrNil /\ ch \in Children /\ par \in Parents /\ Tree(r, ch, par)
  BY DEF Whole
<1> PICK o \in Side : o = Opposite(d)
  BY Sides
<1>4. /\ par[s] = p /\ s # p /\ par[p] # p /\ par[s] # s
      /\ o # d /\ Opposite(o) = d
      /\ \A e \in Side : e # d => e = o
  BY <1>1, <1>3, Sides DEF Tree, NodeOrNil
<1> PICK a \in NodeOrNil : a = ch[p][d]
  BY <1>3 DEF Children
<1> PICK t \in NodeOrNil : t = ch[s][d]
  BY <1>3 DEF Children
<1> PICK b \in NodeOrNil : b = ch[s][o]
  BY <1>3 DEF Children
<1>5. \A n \in Node, e \in Side :
        ch2[n][e] = IF n = p /\ e # d THEN t ELSE IF n = s /\ e = d THEN p
                    ELSE IF ch[n][e] = p THEN s ELSE ch[n][e]
  BY <1>1 DEF Turned
<1> PICK S : S = Members(par)
  OBVIOUS
<1>6. Members(par2) = S /\ p \in S /\ s \in S /\ S \subseteq Node /\ NULL \notin S
  <2>1. t # NULL => par[t] = s /\ t # s
    BY <1>3 DEF Tree
  <2>2. \A n \in Node : par2[n] = IF n = p THEN s ELSE IF n = s THEN par[p]
                                  ELSE IF n = t THEN p ELSE par[n]
    BY <1>1 DEF TurnedPar
  <2>3. t # NULL => t # p
    BY <1>1, <2>1
  <2>4. QED
    BY <1>1, <1>4, <2>1, <2>2, <2>3 DEF Members
<1> PICK io1, io2 : io1 = Walk(ch) /\ io2 = Walk(ch2)
  OBVIOUS
<1>7. /\ a \in S \cup {NULL} /\ t \in S \cup {NULL} /\ b \in S \cup {NULL}
      /\ Nodes(io1, p) = Nodes(io1, a) \cup {p} \cup Nodes(io1, s)
      /\ Nodes(io1, s) = Nodes(io1, t) \cup {s} \cup Nodes(io1, b)
      /\ p \notin Nodes(io1, a) /\ p \notin Nodes(io1, s)
      /\ s \notin Nodes(io1, t) /\ s \notin Nodes(io1, b)
      /\ Nodes(io1, a) \cap Nodes(io1, s) = {}
      /\ par[p] \notin Nodes(io1, p)
      /\ Nodes(io1, p) \subseteq S
  <2>1. \A n \in S, e \in Side :
          /\ ch[n][e] \in S \cup {NULL}
          /\ Nodes(io1, n) = Nodes(io1, ch[n][e]) \cup {n} \cup Nodes(io1, ch[n][Opposite(e)])
          /\ n \notin Nodes(io1, ch[n][e])
          /\ Nodes(io1, ch[n][e]) \cap Nodes(io1, ch[n][Opposite(e)]) = {}
    <3>1. \A n \in Members(par), e \in Side :
            /\ ch[n][e] \in Members(par) \cup {NULL}
            /\ Nodes(Walk(ch), n)
                 = Nodes(Walk(ch), ch[n][e]) \cup {n} \cup Nodes(Walk(ch), ch[n][Opposite(e)])
            /\ n \notin Nodes(Walk(ch), ch[n][e])
            /\ Nodes(Walk(ch), ch[n][e]) \cap Nodes(Walk(ch), ch[n][Opposite(e)]) = {}
      BY ONLY Whole(r, ch, par), NodesInWhole
    <3>2. QED
      BY <3>1
  <2>2. par[p] \notin Nodes(io1, p) /\ Nodes(io1, p) \subseteq S
    BY <1>6, NodesInWhole
  <2>3. ch[p][o] = s
    BY <1>1
  <2>4. a \in S \cup {NULL} /\ t \in S \cup {NULL} /\ b \in S \cup {NULL}
    BY <1>6, <2>1
  <2>5. /\ Nodes(io1, p) = Nodes(io1, a) \cup {p} \cup Nodes(io1, s)
        /\ p \notin Nodes(io1, a) /\ Nodes(io1, a) \cap Nodes(io1, s) = {}
    BY <1>6, <2>1, <2>3
  <2>6. p \notin Nodes(io1, s)
    BY <1>6, <2>1, <2>3
  <2>7. /\ Nodes(io1, s) = Nodes(io1, t) \cup {s} \cup Nodes(io1, b)
        /\ s \notin Nodes(io1, t) /\ s \notin Nodes(io1, b)
    BY <1>6, <2>1
  <2>8. QED
    BY <2>2, <2>4, <2>5, <2>6, <2>7
<1>8. s \in Nodes(io1, s) /\ p \in Nodes(io1, p)
  BY <1>7
<1>9. ASSUME NEW m \in Nodes(io1, p), m # p, m # s, NEW e \in Side PROVE ch2[m][e] = ch[m][e]
  <2>1. m \in Node /\ m # NULL
    BY <1>6, <1>7
  <2>2. ch[m][e] # p
    BY <1>3, <1>7, <2>1 DEF Tree
  <2>3. QED
    BY <1>5, <1>9, <2>1, <2>2
<1>10. ASSUME NEW c \in {a, t, b} PROVE io2[c] = io1[c]
  <2>1. Nodes(io1, c) \subseteq Nodes(io1, p) /\ p \notin Nodes(io1, c) /\ s \notin Nodes(io1, c)
    BY <1>7, <1>8
  <2>2. \A m \in Nodes(io1, c) : m \in S /\ \A e \in Side : ch2[m][e] = ch[m][e]
    BY <1>7, <1>9, <2>1
  <2>3. c \in S \cup {NULL}
    BY <1>7
  <2>4. QED
    BY <1>2, <1>6, <2>2, <2>3, ListStays
<1>11. /\ io1[p] = Put(d, io1[a], p, io1[s])
       /\ io1[s] = Put(d, io1[t], s, io1[b])
       /\ io1[a] \in Seq(Node) /\ io1[t] \in Seq(Node) /\ io1[b] \in Seq(Node)
  <2>1. /\ \A n \in S, e \in Side : io1[n] = Put(e, io1[ch[n][e]], n, io1[ch[n][Opposite(e)]])
        /\ \A n \in S \cup {NULL} : io1[n] \in Seq(Node)
    BY ListsInWhole
  <2>2. QED
    BY <1>1, <1>6, <1>7, <2>1
<1>12. /\ io2[s] = Put(d, io2[p], s, io2[b])
       /\ io2[p] = Put(d, io2[a], p, io2[t])
  <2>1. \A n \in S, e \in Side : io2[n] = Put(e, io2[ch2[n][e]], n, io2[ch2[n][Opposite(e)]])
    BY <1>2, <1>6, ListsInWhole
  <2>2. /\ ch[p][d] # p /\ ch[s][o] # p
    BY <1>1, <1>3 DEF Tree
  <2>3. /\ ch2[s][d] = p /\ ch2[s][o] = b
        /\ ch2[p][d] = a /\ ch2[p][o] = t
    BY <1>4, <1>5, <2>2
  <2>4. QED
    BY <1>6, <2>1, <2>3
<1>13. io2[s] = io1[p]
  <2>1. Put(d, Put(d, io1[a], p, io1[t]), s, io1[b]) = Put(d, io1[a], p, Put(d, io1[t], s, io1[b]))
    BY <1>11, PutTurns, SidesAgree
  <2>2. io2[a] = io1[a] /\ io2[t] = io1[t] /\ io2[b] = io1[b]
    BY <1>10
  <2>3. QED
    BY <1>11, <1>12, <2>1, <2>2
<1>14. SwappedAt(ch, S, io1, ch2, S, p, s)
  <2>1. ASSUME NEW n \in S \ Nodes(io1, p), NEW e \in Side
        PROVE  ch2[n][e] = IF ch[n][e] = p THEN s ELSE ch[n][e]
    <3>1. n # p /\ n # s /\ n \in Node
      BY <1>6, <1>7, <1>8
    <3>2. QED
      BY <1>5, <3>1
  <2>2. QED
    BY <2>1, SidesAgree DEF SwappedAt
<1>15. Within(io1[r], io1[p], io2[r2], io2[s], Node)
  BY <1>1, <1>2, <1>6, <1>14, ListChanges
<1>16. io2[r2] = io1[r]
  BY <1>13, <1>15 DEF Within
<1>17. QED
  BY <1>2, <1>16

\* A node without one of its children leaves the tree whole ...
LEMMA SplicedWhole ==
  ASSUME NEW r, NEW ch, NEW par, Whole(r, ch, par), NEW r2, NEW ch2, NEW par2,
         NEW n \in Node, IsSplice(r, ch, par, r2, ch2, par2, n)
  PROVE  Whole(r2, ch2, par2) /\ Members(par2) = Members(par) \ {n} /\ n \in Members(par)
<1> USE NodeAssumption
<1>1. PICK d \in Side, c \in NodeOrNil :
        /\ par[n] # n
        /\ ch[n][Opposite(d)] = NULL
        /\ c = ch[n][d]
        /\ c # NULL => par[n] # c
        /\ r2 = RootAfter(r, par, n, c)
        /\ ch2 = Spliced(ch, n, c)
        /\ par2 = SplicedPar(par, n, c)
  BY DEF IsSplice
<1>2. /\ r \in NodeOrNil /\ ch \in Children /\ par \in Parents /\ Tree(r, ch, par)
      /\ HasHeight(ch, par)
  BY DEF Whole
<1>3. /\ r2 \in NodeOrNil /\ ch2 \in Children /\ par2 \in Parents
      /\ Tree(r2, ch2, par2)
  <2>1. r2 \in NodeOrNil
    BY <1>1, <1>2 DEF RootAfter, NodeOrNil
  <2>2. ch2 \in Children /\ par2 \in Parents
    BY <1>1, <1>2, SplicedTypes
  <2>3. Tree(RootAfter(r, par, n, c), Spliced(ch, n, c), SplicedPar(par, n, c))
    BY <1>1, <1>2, SplicedTree
  <2>4. QED
    BY <1>1, <2>1, <2>2, <2>3
<1> PICK S : S = Members(par)
  OBVIOUS
<1>4. PICK h \in [S -> Nat] : Below(ch, S, NULL, h)
  BY <1>2 DEF HasHeight
<1>5. /\ c # NULL => par[c] = n /\ c # n
      /\ \A m \in Node : par2[m] = IF m = n THEN n ELSE IF m = c THEN par[n] ELSE par[m]
      /\ \A m \in Node, e \in Side :
           ch2[m][e] = IF m = n THEN NULL ELSE IF ch[m][e] = n THEN c ELSE ch[m][e]
  BY <1>1, <1>2 DEF Tree, NodeOrNil, Spliced, SplicedPar
<1>6. Members(par2) = S \ {n} /\ n \in S /\ S \subseteq Node /\ NULL \notin S
  BY <1>1, <1>5 DEF Members
<1>7. PICK g \in [S \ {n} -> Nat] : \A m \in S \ {n} : g[m] = h[m]
  <2>1. [m \in S \ {n} |-> h[m]] \in [S \ {n} -> Nat]
    OBVIOUS
  <2>2. QED
    BY <2>1
<1>8. ASSUME NEW m \in S \ {n}, NEW e \in Side, ch2[m][e] # NULL
      PROVE  ch2[m][e] \in S \ {n} /\ g[ch2[m][e]] < g[m]
  <2>1. /\ \A a \in S, b \in Side : ch[a][b] # NULL => ch[a][b] \in S /\ h[ch[a][b]] < h[a]
        /\ \A a \in S : h[a] \in Nat
    BY <1>4, SidesAgree DEF Below
  <2>2. CASE ch[m][e] = n
    <3>1. ch2[m][e] = c /\ c # NULL
      BY <1>5, <1>6, <1>8, <2>2
    <3>2. c \in S /\ h[c] < h[n] /\ h[n] < h[m] /\ c # n
      BY <1>1, <1>5, <1>6, <2>1, <2>2, <3>1
    <3>3. h[c] < h[m]
      BY <1>6, <2>1, <3>2
    <3>4. QED
      BY <1>7, <3>1, <3>2, <3>3
  <2>3. CASE ch[m][e] # n
    <3>1. ch2[m][e] = ch[m][e]
      BY <1>5, <1>6, <2>3
    <3>2. QED
      BY <1>7, <1>8, <2>1, <2>3, <3>1
  <2>4. QED
    BY <2>2, <2>3
<1>9. Below(ch2, S \ {n}, NULL, g)
  BY <1>6, <1>8, SidesAgree DEF Below
<1>10. HasHeight(ch2, par2)
  BY <1>6, <1>7, <1>9 DEF HasHeight
<1>11. QED
  BY <1>3, <1>6, <1>10 DEF Whole

\* ... and leaves the list, where the others keep their places.
LEMMA SpliceRemoves ==
  ASSUME NEW r, NEW ch, NEW par, Whole(r, ch, par), NEW r2, NEW ch2, NEW par2,
         NEW n \in Node, IsSplice(r, ch, par, r2, ch2, par2, n)
  PROVE  Removes(Node, Walk(ch)[r], Walk(ch2)[r2], n)
<1> USE NodeAssumption
<1>1. PICK d \in Side, c \in NodeOrNil :
        /\ par[n] # n
        /\ ch[n][Opposite(d)] = NULL
        /\ c = ch[n][d]
        /\ r2 = RootAfter(r, par, n, c)
        /\ ch2 = Spliced(ch, n, c)
  BY DEF IsSplice
<1>2. ch \in Children /\ par \in Parents /\ Tree(r, ch, par)
  BY DEF Whole
<1> PICK S, S2 : S = Members(par) /\ S2 = Members(par2)
  OBVIOUS
<1>3. Whole(r2, ch2, par2) /\ S2 = S \ {n} /\ n \in S /\ S \subseteq Node /\ NULL \notin S
  BY SplicedWhole DEF Members
<1>4. \A m \in Node, e \in Side :
           ch2[m][e] = IF m = n THEN NULL ELSE IF ch[m][e] = n THEN c ELSE ch[m][e]
  BY <1>1 DEF Spliced
<1> PICK io1, io2 : io1 = Walk(ch) /\ io2 = Walk(ch2)
  OBVIOUS
<1>5. /\ c \in S \cup {NULL}
      /\ Nodes(io1, n) = Nodes(io1, c) \cup {n}
      /\ n \notin Nodes(io1, c)
      /\ Nodes(io1, n) \subseteq S
      /\ par[n] \notin Nodes(io1, n)
  <2>1. /\ ch[n][d] \in Members(par) \cup {NULL}
        /\ Nodes(Walk(ch), n)
             = Nodes(Walk(ch), ch[n][d]) \cup {n} \cup Nodes(Walk(ch), ch[n][Opposite(d)])
        /\ n \notin Nodes(Walk(ch), ch[n][d])
    BY <1>3, NodesInWhole
  <2>2. /\ Nodes(Walk(ch), NULL) = {}
        /\ Nodes(Walk(ch), n) \subseteq Members(par)
        /\ par[n] \notin Nodes(Walk(ch), n)
    BY <1>3, NodesInWhole
  <2>3. QED
    BY <1>1, <2>1, <2>2
<1>6. \A m \in Nodes(io1, c), e \in Side : m \in S2 /\ ch2[m][e] = ch[m][e]
  <2> TAKE m \in Nodes(io1, c), e \in Side
  <2>1. m \in S /\ m # n /\ m # par[n] /\ m \in Node
    BY <1>3, <1>5
  <2>2. ch[m][e] # n
    BY <1>2, <2>1 DEF Tree
  <2>3. QED
    BY <1>3, <1>4, <2>1, <2>2
<1>7. io2[c] = io1[c]
  <2>1. /\ c \in Members(par) \cup {NULL}
        /\ \A m \in Nodes(Walk(ch), c) : m \in Members(par2) /\ \A e \in Side : ch2[m][e] = ch[m][e]
        /\ Whole(r, ch, par) /\ Whole(r2, ch2, par2)
    BY <1>3, <1>5, <1>6
  <2>2. Walk(ch2)[c] = Walk(ch)[c]
    BY <2>1, ListStays
  <2>3. QED
    BY <2>2
<1>8. /\ io1[n] = Put(d, io1[c], n, <<>>)
      /\ io1[c] \in Seq(Node)
  <2>1. /\ Walk(ch)[NULL] = <<>>
        /\ Walk(ch)[n] = Put(d, Walk(ch)[ch[n][d]], n, Walk(ch)[ch[n][Opposite(d)]])
    BY <1>3, ListsInWhole
  <2>2. \A m \in Members(par) \cup {NULL} : Walk(ch)[m] \in Seq(Node)
    BY ListsInWhole
  <2>3. QED
    BY <1>1, <1>5, <2>1, <2>2
<1>9. c \in S2 \cup {NULL}
  <2>1. CASE c = NULL
    BY <2>1
  <2>2. CASE c # NULL
    <3>1. c # n
      BY <1>1, <1>2, <2>2 DEF Tree
    <3>2. QED
      BY <1>3, <1>5, <3>1
  <2>3. QED
    BY <2>1, <2>2
<1>10. SwappedAt(ch, S, io1, ch2, S2, n, c)
  <2>1. ASSUME NEW m \in S \ Nodes(io1, n), NEW e \in Side
        PROVE  m \in S2 /\ ch2[m][e] = IF ch[m][e] = n THEN c ELSE ch[m][e]
    <3>1. m # n /\ m \in Node
      BY <1>3, <1>5
    <3>2. QED
      BY <1>3, <1>4, <3>1
  <2>2. QED
    BY <2>1, SidesAgree DEF SwappedAt, TwoSides
<1>11. Within(io1[r], io1[n], io2[r2], io2[c], Node)
  <2>1. /\ SwappedAt(ch, Members(par), Walk(ch), ch2, Members(par2), n, c)
        /\ n \in Members(par) /\ c \in Members(par2) \cup {NULL}
        /\ r2 = RootAfter(r, par, n, c)
        /\ Whole(r, ch, par) /\ Whole(r2, ch2, par2)
    BY <1>1, <1>3, <1>9, <1>10
  <2>2. Within(Walk(ch)[r], Walk(ch)[n], Walk(ch2)[r2], Walk(ch2)[c], Node)
    BY <2>1, ListChanges
  <2>3. QED
    BY <2>2
<1>12. PICK A \in Seq(Node), C \in Seq(Node) :
         io1[r] = (A \o io1[n]) \o C /\ io2[r2] = (A \o io2[c]) \o C
  BY <1>11 DEF Within
<1>13. PICK x \in Seq(Node) : x = io1[c]
  BY <1>8
<1>14. Removes(Node, (A \o Put(d, x, n, <<>>)) \o C, (A \o x) \o C, n)
  BY PutOut, SidesAgree
<1>15. QED
  BY <1>7, <1>8, <1>12, <1>13, <1>14

\* A node that takes the place of another in the tree does so in the list.
LEMMA SwapTrades ==
  ASSUME NEW r, NEW ch, NEW par, Whole(r, ch, par), NEW r2, NEW ch2, NEW par2, Whole(r2, ch2, par2),
         NEW old \in Node, NEW new \in Node, IsSwap(r, ch, par, r2, ch2, par2, old, new)
  PROVE  Trades(Node, Walk(ch)[r], Walk(ch2)[r2], old, new)
<1> USE NodeAssumption
<1>1. /\ par[old] # old
      /\ par[new] = new
      /\ r2 = RootAfter(r, par, old, new)
      /\ ch2 = Swapped(ch, old, new)
      /\ par2 = SwappedPar(par, old, new)
  BY DEF IsSwap
<1>2. r \in NodeOrNil /\ ch \in Children /\ par \in Parents /\ Tree(r, ch, par)
  BY DEF Whole
<1>3. /\ \A m \in Node, e \in Side :
           ch2[m][e] = IF m = old THEN NULL ELSE IF m = new THEN ch[old][e]
                       ELSE IF ch[m][e] = old THEN new ELSE ch[m][e]
      /\ \A m \in Node : par2[m] = IF m = old THEN old ELSE IF m = new THEN par[old]
                                   ELSE IF par[m] = old THEN new ELSE par[m]
  BY <1>1 DEF Swapped, SwappedPar
<1> PICK S, S2 : S = Members(par) /\ S2 = Members(par2)
  OBVIOUS
<1>4. /\ old \in S /\ new \notin S /\ S \subseteq Node /\ NULL \notin S
      /\ S2 = (S \ {old}) \cup {new}
  <2>1. old \in S /\ new \notin S /\ S \subseteq Node /\ NULL \notin S
    BY <1>1 DEF Members
  <2>2. par[old] # new
    BY <1>1, <1>2 DEF Tree
  <2>3. \A m \in S : par[m] # new
    BY <1>1, <1>2 DEF Tree, Members
  <2>4. QED
    BY <1>1, <1>3, <2>1, <2>2, <2>3 DEF Members
<1> PICK io1, io2 : io1 = Walk(ch) /\ io2 = Walk(ch2)
  OBVIOUS
<1> PICK x, y : x = ch[old]["left"] /\ y = ch[old]["right"]
  OBVIOUS
<1>5. /\ x \in S \cup {NULL} /\ y \in S \cup {NULL}
      /\ Nodes(io1, old) = Nodes(io1, x) \cup {old} \cup Nodes(io1, y)
      /\ old \notin Nodes(io1, x) /\ old \notin Nodes(io1, y)
      /\ Nodes(io1, old) \subseteq S
      /\ par[old] \notin Nodes(io1, old)
  <2>1. \A d \in Side :
          /\ ch[old][d] \in Members(par) \cup {NULL}
          /\ Nodes(Walk(ch), old)
               = Nodes(Walk(ch), ch[old][d]) \cup {old} \cup Nodes(Walk(ch), ch[old][Opposite(d)])
          /\ old \notin Nodes(Walk(ch), ch[old][d])
    BY <1>4, NodesInWhole
  <2>2. /\ Nodes(Walk(ch), old) \subseteq Members(par)
        /\ par[old] \notin Nodes(Walk(ch), old)
    BY <1>4, NodesInWhole
  <2>3. QED
    BY <2>1, <2>2, Sides
<1>6. ASSUME NEW m \in S, m # old, m # par[old], NEW e \in Side
      PROVE  m \in S2 /\ ch2[m][e] = ch[m][e]
  <2>1. m \in Node /\ m # new
    BY <1>4
  <2>2. ch[m][e] # old
    BY <1>2, <1>6, <2>1 DEF Tree
  <2>3. QED
    BY <1>3, <1>4, <1>6, <2>1, <2>2
<1>7. ASSUME NEW c \in {x, y} PROVE io2[c] = io1[c]
  <2>1. /\ c \in Members(par) \cup {NULL}
        /\ \A m \in Nodes(Walk(ch), c) : m \in Members(par2) /\ \A e \in Side : ch2[m][e] = ch[m][e]
        /\ Whole(r, ch, par) /\ Whole(r2, ch2, par2)
    BY <1>5, <1>6, Sides
  <2>2. Walk(ch2)[c] = Walk(ch)[c]
    BY <2>1, ListStays
  <2>3. QED
    BY <2>2
<1>8. /\ io1[old] = Put("left", io1[x], old, io1[y])
      /\ io2[new] = Put("left", io2[x], new, io2[y])
      /\ io1[x] \in Seq(Node) /\ io1[y] \in Seq(Node)
  <2>1. \A d \in Side : Walk(ch)[old] = Put(d, Walk(ch)[ch[old][d]], old, Walk(ch)[ch[old][Opposite(d)]])
    BY <1>4, ListsInWhole
  <2>2. \A m \in Members(par) \cup {NULL} : Walk(ch)[m] \in Seq(Node)
    BY ListsInWhole
  <2>3. \A d \in Side :
          Walk(ch2)[new] = Put(d, Walk(ch2)[ch2[new][d]], new, Walk(ch2)[ch2[new][Opposite(d)]])
    <3>1. \A m \in Members(par2), d \in Side :
            Walk(ch2)[m] = Put(d, Walk(ch2)[ch2[m][d]], m, Walk(ch2)[ch2[m][Opposite(d)]])
      BY ListsInWhole
    <3>2. new \in Members(par2)
      BY <1>4
    <3>3. QED
      BY <3>1, <3>2
  <2>4. ch2[new]["left"] = x /\ ch2[new]["right"] = y
    BY <1>3, <1>4, Sides
  <2>5. QED
    BY <1>5, <2>1, <2>2, <2>3, <2>4, Sides
<1>9. SwappedAt(ch, S, io1, ch2, S2, old, new)
  <2>1. ASSUME NEW m \in S \ Nodes(io1, old), NEW e \in Side
        PROVE  m \in S2 /\ ch2[m][e] = IF ch[m][e] = old THEN new ELSE ch[m][e]
    <3>1. m # old /\ m # new /\ m \in Node
      BY <1>4, <1>5
    <3>2. QED
      BY <1>3, <1>4, <3>1
  <2>2. QED
    BY <2>1, SidesAgree DEF SwappedAt, TwoSides
<1>10. Within(io1[r], io1[old], io2[r2], io2[new], Node)
  <2>1. /\ SwappedAt(ch, Members(par), Walk(ch), ch2, Members(par2), old, new)
        /\ old \in Members(par) /\ new \in Members(par2) \cup {NULL}
        /\ r2 = RootAfter(r, par, old, new)
        /\ Whole(r, ch, par) /\ Whole(r2, ch2, par2)
    BY <1>1, <1>4, <1>9
  <2>2. Within(Walk(ch)[r], Walk(ch)[old], Walk(ch2)[r2], Walk(ch2)[new], Node)
    BY <2>1, ListChanges
  <2>3. QED
    BY <2>2
<1>11. PICK A \in Seq(Node), C \in Seq(Node) :
         io1[r] = (A \o io1[old]) \o C /\ io2[r2] = (A \o io2[new]) \o C
  BY <1>10 DEF Within
<1>12. PICK u \in Seq(Node), v \in Seq(Node) : u = io1[x] /\ v = io1[y]
  BY <1>8
<1>13. Amid(Node, A, C, u, v)
  BY PutInside
<1>14. PICK P \in Seq(Node), Q \in Seq(Node) :
         /\ P = A \o u
         /\ Q = v \o C
         /\ \A n \in Node : (A \o Put("left", u, n, v)) \o C = (P \o <<n>>) \o Q
  BY <1>13 DEF Amid
<1>15. io1[r] = (P \o <<old>>) \o Q /\ io2[r2] = (P \o <<new>>) \o Q
  <2>1. \A n \in Node : (A \o Put("left", u, n, v)) \o C = (P \o <<n>>) \o Q
    BY <1>14
  <2>2. QED
    BY <1>7, <1>8, <1>11, <1>12, <2>1
<1>16. QED
  BY <1>15 DEF Trades

\* A leaf that is linked below p is next to what was below p.
LEMMA LinkPutsNext ==
  ASSUME NEW r, NEW ch, NEW par, Whole(r, ch, par), NEW r2, NEW ch2, NEW par2, Whole(r2, ch2, par2),
         NEW n, NEW p \in Node, NEW d \in Side, IsLink(r, ch, par, r2, ch2, par2, n, p, d),
         NEW A \in Seq(Node), NEW C \in Seq(Node), Walk(ch)[r] = (A \o Walk(ch)[p]) \o C
  PROVE  PutsNext(Node, Walk(ch)[r], Walk(ch2)[r2], n, A, Walk(ch)[p], C, d)
<1> USE NodeAssumption
<1>1. /\ n \in Node /\ par[n] = n
      /\ p \in Members(par) /\ ch[p][d] = NULL
      /\ r2 = r
      /\ \A m \in Node, e \in Side :
           ch2[m][e] = IF m = n THEN NULL ELSE IF m = p /\ e = d THEN n ELSE ch[m][e]
      /\ \A m \in Node : par2[m] = IF m = n THEN p ELSE par[m]
  BY DEF IsLink, Members
<1>2. r \in NodeOrNil /\ ch \in Children /\ par \in Parents /\ Tree(r, ch, par)
  BY DEF Whole
<1> PICK S, S2 : S = Members(par) /\ S2 = Members(par2)
  OBVIOUS
<1>3. /\ p \in S /\ n \notin S /\ S \subseteq Node /\ NULL \notin S
      /\ S2 = S \cup {n}
  BY <1>1 DEF Members
<1> PICK io1, io2 : io1 = Walk(ch) /\ io2 = Walk(ch2)
  OBVIOUS
<1> PICK o \in Side : o = Opposite(d)
  BY Sides
<1> PICK y : y = ch[p][o]
  OBVIOUS
<1>4. /\ y \in S \cup {NULL}
      /\ Nodes(io1, p) = {p} \cup Nodes(io1, y)
      /\ p \notin Nodes(io1, y)
      /\ Nodes(io1, p) \subseteq S
      /\ par[p] \notin Nodes(io1, p)
  <2>1. \A e \in Side :
          /\ ch[p][e] \in Members(par) \cup {NULL}
          /\ Nodes(Walk(ch), p)
               = Nodes(Walk(ch), ch[p][e]) \cup {p} \cup Nodes(Walk(ch), ch[p][Opposite(e)])
          /\ p \notin Nodes(Walk(ch), ch[p][e])
    BY <1>1, NodesInWhole
  <2>2. /\ Nodes(Walk(ch), NULL) = {}
        /\ Nodes(Walk(ch), p) \subseteq Members(par)
        /\ par[p] \notin Nodes(Walk(ch), p)
    BY <1>1, NodesInWhole
  <2>3. Nodes(io1, p) = Nodes(io1, ch[p][d]) \cup {p} \cup Nodes(io1, ch[p][o])
    BY <2>1
  <2>4. QED
    BY <1>1, <2>1, <2>2, <2>3
<1>5. ASSUME NEW m \in S, m # p, NEW e \in Side
      PROVE  m \in S2 /\ ch2[m][e] = ch[m][e]
  BY <1>1, <1>3, <1>5
<1>6. io2[y] = io1[y]
  <2>1. /\ y \in Members(par) \cup {NULL}
        /\ \A m \in Nodes(Walk(ch), y) : m \in Members(par2) /\ \A e \in Side : ch2[m][e] = ch[m][e]
        /\ Whole(r, ch, par) /\ Whole(r2, ch2, par2)
    BY <1>4, <1>5
  <2>2. Walk(ch2)[y] = Walk(ch)[y]
    BY <2>1, ListStays
  <2>3. QED
    BY <2>2
<1>7. /\ io1[p] = Put(d, <<>>, p, io1[y])
      /\ io1[p] \in Seq(Node) /\ io1[y] \in Seq(Node) /\ Distinct(io1[r]) /\ io1[p] # <<>>
  <2>1. Walk(ch)[p] = Put(d, Walk(ch)[ch[p][d]], p, Walk(ch)[ch[p][Opposite(d)]])
    BY <1>1, ListsInWhole
  <2>2. Walk(ch)[NULL] = <<>> /\ \A m \in Members(par) \cup {NULL} : Walk(ch)[m] \in Seq(Node)
    BY ListsInWhole
  <2>3. Distinct(Walk(ch)[r])
    BY ListOfWhole
  <2>4. io1[p] # <<>>
    <3>1. p \in Elements(io1[p])
      BY <1>4 DEF Nodes
    <3>2. \A u : u = <<>> => Elements(u) = {}
      BY DEF Elements
    <3>3. QED
      BY <3>1, <3>2
  <2>5. QED
    BY <1>1, <1>4, <2>1, <2>2, <2>3, <2>4
<1>8. io2[p] = Put(d, <<n>>, p, io2[y]) /\ io2[p] \in Seq(Node)
  <2>1. \A m \in Members(par2), e \in Side :
          Walk(ch2)[m] = Put(e, Walk(ch2)[ch2[m][e]], m, Walk(ch2)[ch2[m][Opposite(e)]])
    BY ListsInWhole
  <2>2. Walk(ch2)[NULL] = <<>> /\ \A m \in Members(par2) \cup {NULL} : Walk(ch2)[m] \in Seq(Node)
    BY ListsInWhole
  <2>3. /\ ch2[p][d] = n /\ ch2[p][o] = y /\ \A e \in Side : ch2[n][e] = NULL
    BY <1>1, <1>3, Sides
  <2>4. io2[n] = <<n>>
    <3>1. io2[n] = Put("left", <<>>, n, <<>>)
      BY <1>3, <2>1, <2>2, <2>3, Sides
    <3>2. PICK u \in Seq(Node) : u = <<n>>
      BY <1>1, OneElement
    <3>3. io2[n] = (<<>> \o u) \o <<>>
      BY <3>1, <3>2 DEF Put
    <3>4. QED
      BY <3>2, <3>3, ConcatEmptySeq
  <2>5. p \in Members(par2) /\ p \in Members(par2) \cup {NULL}
    BY <1>3
  <2>6. Walk(ch2)[p] = Put(d, Walk(ch2)[ch2[p][d]], p, Walk(ch2)[ch2[p][Opposite(d)]])
    BY <2>1, <2>5
  <2>7. Walk(ch2)[p] \in Seq(Node)
    BY <2>2, <2>5
  <2>8. io2[p] = Put(d, io2[n], p, io2[y])
    BY <2>3, <2>6
  <2>9. QED
    BY <2>4, <2>7, <2>8
<1>9. SwappedAt(ch, S, io1, ch2, S2, p, p)
  <2>1. ASSUME NEW m \in S \ Nodes(io1, p), NEW e \in Side
        PROVE  m \in S2 /\ ch2[m][e] = IF ch[m][e] = p THEN p ELSE ch[m][e]
    <3>1. m # p
      BY <1>4
    <3>2. QED
      BY <1>5, <3>1
  <2>2. QED
    BY <2>1, SidesAgree DEF SwappedAt, TwoSides
<1>10. Within(io1[r], io1[p], io2[r2], io2[p], Node)
  <2>1. /\ SwappedAt(ch, Members(par), Walk(ch), ch2, Members(par2), p, p)
        /\ p \in Members(par) /\ p \in Members(par2) \cup {NULL}
        /\ Whole(r, ch, par) /\ Whole(r2, ch2, par2)
    BY <1>1, <1>3, <1>9
  <2>2. r2 = RootAfter(r, par, p, p)
    BY <1>1, <1>2 DEF RootAfter, Tree, Members
  <2>3. Within(Walk(ch)[r], Walk(ch)[p], Walk(ch2)[r2], Walk(ch2)[p], Node)
    BY <2>1, <2>2, ListChanges
  <2>4. QED
    BY <2>3
<1> PICK s, s2 : s = io1[r] /\ s2 = io2[r2]
  OBVIOUS
<1> PICK X \in Seq(Node), X2 \in Seq(Node) : X = io1[p] /\ X2 = io2[p]
  BY <1>7, <1>8
<1>11. s2 = (A \o X2) \o C
  <2>1. /\ Within(s, X, s2, X2, Node)
        /\ Distinct(s)
        /\ PlacedAt(Node, s, X, A, C)
        /\ X # <<>>
    BY <1>7, <1>10 DEF PlacedAt
  <2>2. PlacedAt(Node, s2, X2, A, C)
    BY <2>1, PlacedWithin
  <2>3. QED
    BY <2>2 DEF PlacedAt
<1> PICK z \in Seq(Node) : z = io1[y]
  BY <1>7
<1>12. X = Put(d, <<>>, p, z) /\ X2 = Put(d, <<n>>, p, z)
  BY <1>6, <1>7, <1>8
<1>13. PutsNext(Node, (A \o X) \o C, (A \o Put(d, <<n>>, p, z)) \o C, n, A, X, C, d)
  BY <1>1, <1>12, PutLeaf, SidesAgree
<1>14. QED
  BY <1>11, <1>12, <1>13

\* The first leaf is the list.
LEMMA LinkFirst ==
  ASSUME NEW r, NEW ch, NEW par, Whole(r, ch, par), NEW r2, NEW ch2, NEW par2, Whole(r2, ch2, par2),
         NEW n, NEW d \in Side, IsLink(r, ch, par, r2, ch2, par2, n, NULL, d), r = NULL
  PROVE  Walk(ch)[r] = <<>> /\ Walk(ch2)[r2] = <<n>>
<1> USE NodeAssumption
<1>1. /\ n \in Node /\ par[n] = n
      /\ r2 = n
      /\ \A e \in Side : ch2[n][e] = NULL
      /\ par2[n] = NULL
  BY DEF IsLink
<1>2. Walk(ch)[NULL] = <<>> /\ Walk(ch2)[NULL] = <<>>
  BY ListsInWhole
<1>3. n \in Members(par2)
  BY <1>1 DEF Members
<1>4. \A m \in Members(par2), e \in Side :
        Walk(ch2)[m] = Put(e, Walk(ch2)[ch2[m][e]], m, Walk(ch2)[ch2[m][Opposite(e)]])
  BY ListsInWhole
<1>5. Walk(ch2)[n] = Put("left", <<>>, n, <<>>)
  BY <1>1, <1>2, <1>3, <1>4, Sides
<1>6. PICK u \in Seq(Node) : u = <<n>>
  BY <1>1, OneElement
<1>7. Walk(ch2)[n] = (<<>> \o u) \o <<>>
  BY <1>5, <1>6 DEF Put
<1>8. Walk(ch2)[n] = u
  BY <1>6, <1>7, ConcatEmptySeq
<1>9. QED
  BY <1>1, <1>2, <1>6, <1>8

-----------------------------------------------------------------------------
(* The sorted list. *)

\* The nodes in the order of a walk through the tree.
List == Walk(rb_child)[rb_node]

\* The list, as InOrder computes it: every linked node, once ...
LEMMA ListNow ==
  ASSUME IInv
  PROVE  /\ InOrder(rb_child, rb_node) = List
         /\ List \in Seq(Node)
         /\ Distinct(List)
         /\ Elements(List) = Members(Par)
<1>1. Whole(rb_node, rb_child, Par)
  BY MemoryIsWhole
<1>2. QED
  BY <1>1, ListOfWhole DEF List

\* ... after a step as well.
LEMMA ListNext ==
  ASSUME IInv'
  PROVE  /\ InOrder(rb_child', rb_node') = List'
         /\ List' \in Seq(Node)
         /\ Distinct(List')
         /\ Elements(List') = Members(Par')
<1>1. Whole(rb_node', rb_child', Par')
  BY NextIsWhole
<1>2. List' = Walk(rb_child')[rb_node']
  BY DEF List, Walk
<1>3. QED
  BY <1>1, <1>2, ListOfWhole

-----------------------------------------------------------------------------
(* The steps of SortedList. *)

\* A node that comes in where its key belongs.
LEMMA AddedIsNext ==
  ASSUME IInv, IInv', NEW n \in Node, n \notin Members(Par), PutsByKey(Node, List, List', n, Key)
  PROVE  Sorted!Next
<1>1. PICK s \in Seq(Node), s2 \in Seq(Node) : s = List /\ s2 = List'
  BY ListNow, ListNext
<1>2. /\ InOrder(rb_child, rb_node) = s /\ InOrder(rb_child', rb_node') = s2
      /\ Distinct(s) /\ n \notin Elements(s)
      /\ PutsByKey(Node, s, s2, n, Key)
  BY <1>1, ListNow, ListNext
<1>3. \A m \in Node : Key[m] \in Int
  BY NodeAssumption
<1>a. InAt(s, s2, n, Key) /\ n \in Elements(s2)
  BY <1>2, <1>3, PutsAtCount
<1>4. PICK i \in Nat :
        /\ i = Cardinality({m \in Elements(s) : Key[m] =< Key[n]})
        /\ s2 = SubSeq(s, 1, i) \o <<n>> \o SubSeq(s, i + 1, Len(s))
  BY <1>a DEF InAt
<1>5. s2 = Sorted!InsertAt(s, i + 1, n)
  <2>1. (i + 1) - 1 = i
    OBVIOUS
  <2>2. QED
    BY <1>4, <2>1 DEF Sorted!InsertAt
<1>6. i = Sorted!Cardinality({m \in Elements(s) : Key[m] =< Key[n]})
  BY <1>4 DEF Sorted!Cardinality, Cardinality
<1>7. Sorted!Add(n)
  BY <1>2, <1>5, <1>6 DEF Sorted!Add, Sorted!Present, Sorted!ToSet, Elements
<1>8. n \in Sorted!Came
  BY <1>2, <1>a DEF Sorted!Came, Sorted!Present, Sorted!ToSet, Elements
<1>9. QED
  BY <1>7, <1>8 DEF Sorted!Next

\* A node that goes.
LEMMA RemovedIsNext ==
  ASSUME IInv, IInv', NEW n \in Node, Removes(Node, List, List', n)
  PROVE  Sorted!Next
<1>1. PICK s \in Seq(Node), s2 \in Seq(Node) : s = List /\ s2 = List'
  BY ListNow, ListNext
<1>2. /\ InOrder(rb_child, rb_node) = s /\ InOrder(rb_child', rb_node') = s2
      /\ Distinct(s) /\ Removes(Node, s, s2, n)
  BY <1>1, ListNow, ListNext
<1>3. OutAt(s, s2, n) /\ n \in Elements(s) /\ n \notin Elements(s2)
  BY <1>2, RemovesAtPlace
<1>4. Sorted!Erase(n)
  BY <1>2, <1>3 DEF OutAt, Sorted!Erase, Sorted!RemoveAt
<1>5. n \in Sorted!Gone
  BY <1>2, <1>3 DEF Sorted!Gone, Sorted!Present, Sorted!ToSet, Elements
<1>6. QED
  BY <1>4, <1>5 DEF Sorted!Next

\* A node whose place another one with the same key takes.
LEMMA TradedIsNext ==
  ASSUME IInv, IInv', NEW old \in Node, NEW new \in Node, Key[old] = Key[new],
         new \notin Members(Par), Trades(Node, List, List', old, new)
  PROVE  Sorted!Next
<1>1. PICK s \in Seq(Node), s2 \in Seq(Node) : s = List /\ s2 = List'
  BY ListNow, ListNext
<1>2. /\ InOrder(rb_child, rb_node) = s /\ InOrder(rb_child', rb_node') = s2
      /\ Distinct(s) /\ new \notin Elements(s) /\ Trades(Node, s, s2, old, new)
  BY <1>1, ListNow, ListNext
<1>3. /\ s2 = [i \in DOMAIN s |-> IF s[i] = old THEN new ELSE s[i]]
      /\ old \in Elements(s) /\ old \notin Elements(s2) /\ new \in Elements(s2)
  BY <1>2, TradesAtPlace
<1>4. Sorted!Exchange(old, new)
  BY <1>2, <1>3 DEF Sorted!Exchange
<1>5. old \in Sorted!Gone /\ new \in Sorted!Came
  BY <1>2, <1>3 DEF Sorted!Gone, Sorted!Came, Sorted!Present, Sorted!ToSet, Elements
<1>6. QED
  BY <1>4, <1>5 DEF Sorted!Next

-----------------------------------------------------------------------------
(* The inductive invariant: the list is sorted, a descent stands where the new  *)
(* node fits, and a search for the successor where the list right of the node   *)
(* starts.                                                                      *)

Descent ==
  pc \in {"add", "find_add"} /\ parent # NULL =>
    /\ Fits(Node, List, Walk(rb_child)[parent], Key, Key[node])
    /\ dir = "left" <=> Key[node] < Key[parent]

Search ==
  pc = "successor" =>
    First(Node, Walk(rb_child)[rb_child[node]["right"]], Walk(rb_child)[successor])

ListInv == IInv /\ Ordered(Key, List) /\ Descent /\ Search

\* A step of SortedList, or none.
ListStep == Sorted!Next \/ InOrder(rb_child', rb_node') = InOrder(rb_child, rb_node)

\* A step that leaves the order of the nodes alone, and no search under way.
LEMMA SameList ==
  ASSUME ListInv, IInv', List' = List, Descent', Search'
  PROVE  ListInv' /\ ListStep
<1>1. Ordered(Key, List')
  BY DEF ListInv
<1>2. InOrder(rb_child', rb_node') = InOrder(rb_child, rb_node)
  BY ListNow, ListNext DEF ListInv
<1>3. QED
  BY <1>1, <1>2 DEF ListInv, ListStep, Ordered

\* Colors and local variables have no part in the list.
LEMMA SameTree ==
  ASSUME rb_child' = rb_child, rb_node' = rb_node
  PROVE  List' = List
BY DEF List, Walk

\* The two loops that look for a place are over.
LEMMA AtRest ==
  ASSUME pc' \notin {"add", "find_add", "successor"}
  PROVE  Descent' /\ Search'
BY DEF Descent, Search

\* Rotations, one or two of them, leave the list as it is.
LEMMA TurnSameList ==
  ASSUME IInv, TreeTurned
  PROVE  List' = List
<1>1. Whole(rb_node, rb_child, Par)
  BY MemoryIsWhole
<1>2. List' = Walk(rb_child')[rb_node']
  BY DEF List, Walk
<1>3. CASE IsTurn(rb_node, rb_child, Par, rb_node', rb_child', Par')
  <2>1. Walk(rb_child')[rb_node'] = Walk(rb_child)[rb_node]
    BY <1>1, <1>3, TurnKeepsList
  <2>2. QED
    BY <1>2, <2>1 DEF List
<1>4. ASSUME NEW r1, NEW ch1, NEW par1,
             IsTurn(rb_node, rb_child, Par, r1, ch1, par1),
             IsTurn(r1, ch1, par1, rb_node', rb_child', Par')
      PROVE  List' = List
  <2>1. Whole(r1, ch1, par1) /\ Walk(ch1)[r1] = Walk(rb_child)[rb_node]
    BY <1>1, <1>4, TurnKeepsList
  <2>2. Walk(rb_child')[rb_node'] = Walk(ch1)[r1]
    BY <1>4, <2>1, TurnKeepsList
  <2>3. QED
    BY <1>2, <2>1, <2>2 DEF List
<1>5. QED
  BY <1>3, <1>4 DEF TreeTurned

\* A rotation, whichever rebalancing makes it, leaves the list as it is.
LEMMA RotationKeepsList ==
  ASSUME ListInv, IInv', TreeTurned, pc' \notin {"add", "find_add", "successor"}
  PROVE  ListInv' /\ ListStep
BY TurnSameList, SameList, AtRest DEF ListInv

\* The steps that store nothing in the tree but colors.
LEMMA StillKeepsList ==
  ASSUME ListInv,
         \/ \E n \in Node : Add(n) \/ FindAdd(n)
         \/ FindAddHit \/ InsertRoot \/ InsertDone \/ InsertFlip \/ EraseFlip
  PROVE  ListInv' /\ ListStep
<1>1. rb_child' = rb_child /\ rb_node' = rb_node
  BY DEF Add, FindAdd, StartDescent, FindAddHit, InsertRoot, InsertDone, InsertFlip, EraseFlip,
         tree
<1>2. Descent' /\ Search'
  <2>1. pc' \notin {"successor"} /\ (pc' \in {"add", "find_add"} => parent' = NULL)
    BY DEF Add, FindAdd, StartDescent, FindAddHit, InsertRoot, InsertDone, InsertFlip, EraseFlip,
           Return
  <2>2. QED
    BY <2>1 DEF Descent, Search
<1>3. [Next]_vars
  BY DEF Next, Caller, Run
<1>4. IInv'
  BY <1>3, NextKeepsIInv DEF ListInv
<1>5. QED
  BY <1>1, <1>2, <1>4, SameTree, SameList

\* What the list of a linked node is made of.
LEMMA ListsHere ==
  ASSUME IInv
  PROVE  /\ Whole(rb_node, rb_child, Par)
         /\ Walk(rb_child)[NULL] = <<>>
         /\ \A n \in Members(Par) \cup {NULL} : Walk(rb_child)[n] \in Seq(Node)
         /\ \A n \in Members(Par), d \in Side :
              /\ rb_child[n][d] \in Members(Par) \cup {NULL}
              /\ Walk(rb_child)[n]
                   = Put(d, Walk(rb_child)[rb_child[n][d]], n,
                         Walk(rb_child)[rb_child[n][Opposite(d)]])
<1>1. Whole(rb_node, rb_child, Par)
  BY MemoryIsWhole
<1>2. QED
  BY <1>1, ListsInWhole, NodesInWhole

\* The linked nodes are the ones that RB_EMPTY_NODE denies.
LEMMA LinkedNow ==
  ASSUME IInv
  PROVE  \A n \in Node : n \in Members(Par) <=> ~RB_EMPTY_NODE(n)
BY DEF Members, Par, RB_EMPTY_NODE

\* A turn of the descent: the new node fits below the node it is compared with, on
\* the side that the comparison tells.
LEMMA DescendKeepsList ==
  ASSUME ListInv, Descend
  PROVE  ListInv' /\ ListStep
<1>1. IInv /\ Ordered(Key, List) /\ Descent
  BY DEF ListInv
<1>2. IInv'
  BY <1>1, NextKeepsIInv DEF Next, Run
<1>3. rb_child' = rb_child /\ rb_node' = rb_node
  BY DEF Descend, tree
<1>4. PICK p : p = Slot(parent, dir)
  OBVIOUS
<1>5. /\ p # NULL /\ pc \in {"add", "find_add"} /\ pc' = pc /\ node' = node /\ parent' = p
      /\ dir' = IF Key[node] < Key[p] THEN "left" ELSE "right"
  BY <1>4 DEF Descend, less
<1>6. /\ node \in Node /\ (parent # NULL => parent \in Members(Par))
      /\ dir \in Side /\ \A m \in Node : Key[m] \in Int
  BY <1>1, <1>5, NodeAssumption, LinkedNow DEF IInv, TypeOK, Locals, NodeOrNil
<1>7. Fits(Node, List, Walk(rb_child)[p], Key, Key[node])
  <2>1. CASE parent = NULL
    <3>1. p = rb_node
      BY <1>4, <2>1 DEF Slot
    <3>2. Fits(Node, List, List, Key, Key[node])
      BY <1>1, <1>6, ListNow, FitsAnywhere
    <3>3. QED
      BY <3>1, <3>2 DEF List
  <2>2. CASE parent # NULL
    <3>1. p = rb_child[parent][dir]
      BY <1>4, <2>2 DEF Slot
    <3>2. PICK x \in Seq(Node), y \in Seq(Node) :
            /\ x = Walk(rb_child)[p]
            /\ Walk(rb_child)[parent] = Put(dir, x, parent, y)
      <4>1. Opposite(dir) \in Side
        BY <1>6, Sides
      <4>2. /\ rb_child[parent][dir] \in Members(Par) \cup {NULL}
            /\ rb_child[parent][Opposite(dir)] \in Members(Par) \cup {NULL}
        BY <1>1, <1>6, <2>2, <4>1, ListsHere
      <4>3. QED
        BY <1>1, <1>6, <2>2, <3>1, <4>2, ListsHere
    <3>3. /\ Fits(Node, List, Walk(rb_child)[parent], Key, Key[node])
          /\ dir = "left" <=> Key[node] < Key[parent]
      BY <1>1, <1>5, <2>2 DEF Descent
    <3>4. dir \in TwoSides /\ parent \in Node /\ Key[node] \in Int
      BY <1>6, <2>2, SidesAgree DEF Members
    <3>5. QED
      BY <1>1, <1>6, <3>2, <3>3, <3>4, FitsBelow
  <2>3. QED
    BY <2>1, <2>2
<1>8. List' = List
  BY <1>3, SameTree
<1>9. Descent'
  <2>1. Fits(Node, List', Walk(rb_child)[parent'], Key, Key[node'])
    BY <1>5, <1>7, <1>8
  <2>2. (dir' = "left" <=> Key[node'] < Key[parent'])
    BY <1>5
  <2>3. QED
    BY <1>3, <2>1, <2>2 DEF Descent, Walk
<1>10. Search'
  BY <1>5 DEF Search
<1>11. QED
  BY <1>2, <1>8, <1>9, <1>10, SameList

\* The node comes in below parent, which has no child on that side: right before or
\* right behind everything that hangs below parent.
LEMMA LinkPuts ==
  ASSUME IInv, Link, parent # NULL, NEW A, NEW C,
         PlacedAt(Node, List, Walk(rb_child)[parent], A, C)
  PROVE  PutsNext(Node, List, List', node, A, Walk(rb_child)[parent], C, dir)
<1>1. IInv' /\ IsLink(rb_node, rb_child, Par, rb_node', rb_child', Par', node, parent, dir)
  BY LinkKeepsIInv
<1>2. /\ Whole(rb_node, rb_child, Par) /\ Whole(rb_node', rb_child', Par')
      /\ List' = Walk(rb_child')[rb_node']
  BY <1>1, MemoryIsWhole, NextIsWhole DEF List, Walk
<1>3. node \in Node /\ parent \in Node /\ dir \in Side
  BY DEF Link, IInv, TypeOK, Locals, NodeOrNil
<1>4. /\ A \in Seq(Node) /\ C \in Seq(Node) /\ Walk(rb_child)[parent] \in Seq(Node)
      /\ Walk(rb_child)[rb_node] = (A \o Walk(rb_child)[parent]) \o C
  BY DEF PlacedAt, List
<1>5. PutsNext(Node, Walk(rb_child)[rb_node], Walk(rb_child')[rb_node'], node, A,
               Walk(rb_child)[parent], C, dir)
  BY <1>1, <1>2, <1>3, <1>4, LinkPutsNext
<1>6. QED
  BY <1>2, <1>5 DEF List

\* ... and alone in a tree that was empty.
LEMMA LinkAlone ==
  ASSUME IInv, Link, parent = NULL
  PROVE  List = <<>> /\ List' = <<node>>
<1>1. IInv' /\ IsLink(rb_node, rb_child, Par, rb_node', rb_child', Par', node, parent, dir)
  BY LinkKeepsIInv
<1>2. /\ Whole(rb_node, rb_child, Par) /\ Whole(rb_node', rb_child', Par')
      /\ List' = Walk(rb_child')[rb_node']
  BY <1>1, MemoryIsWhole, NextIsWhole DEF List, Walk
<1>3. node \in Node /\ dir \in Side /\ rb_node = NULL
  BY <1>1 DEF Link, IInv, TypeOK, Locals, IsLink
<1>4. QED
  BY <1>1, <1>2, <1>3, LinkFirst DEF List

\* rb_link_node keeps the list sorted, and is the insertion of the sorted list.
LEMMA LinkKeepsList ==
  ASSUME ListInv, Link
  PROVE  ListInv' /\ ListStep
<1>1. IInv /\ Ordered(Key, List) /\ Descent
  BY DEF ListInv
<1>2. IInv'
  BY <1>1, LinkKeepsIInv
<1>3. /\ pc \in {"add", "find_add"} /\ node \in Node /\ node \notin Members(Par)
      /\ (parent # NULL => parent \in Members(Par))
      /\ dir \in Side /\ dir \in TwoSides /\ \A m \in Node : Key[m] \in Int
  BY <1>1, NodeAssumption, LinkedNow, SidesAgree DEF Link, IInv, TypeOK, Locals, NodeOrNil
<1>4. PutsByKey(Node, List, List', node, Key)
  <2>1. CASE parent = NULL
    <3>1. List = <<>> /\ List' = <<node>>
      BY <1>1, <2>1, LinkAlone
    <3>2. PICK e \in Seq(Node), o \in Seq(Node) : e = <<>> /\ o = <<node>>
      BY <1>3, OneElement, EmptySeq
    <3>3. e \o e = e /\ (e \o o) \o e = o
      BY <3>2, ConcatEmptySeq
    <3>4. Elements(e) = {}
      BY <3>2 DEF Elements
    <3>5. QED
      BY <3>1, <3>2, <3>3, <3>4 DEF PutsByKey
  <2>2. CASE parent # NULL
    <3>1. PICK A, C :
            /\ PlacedAt(Node, List, Walk(rb_child)[parent], A, C)
            /\ \A m \in Elements(A) : Key[m] =< Key[node]
            /\ \A m \in Elements(C) : Key[node] < Key[m]
      BY <1>1, <1>3, <2>2 DEF Descent, Fits
    <3>2. Walk(rb_child)[parent] \in Seq(Node)
      BY <3>1 DEF PlacedAt
    <3>3. PutsNext(Node, List, List', node, A, Walk(rb_child)[parent], C, dir)
      BY <1>1, <2>2, <3>1, LinkPuts
    <3>4. rb_child[parent][dir] = NULL
      BY <2>2 DEF Link, Slot
    <3>5. PICK X \in Seq(Node), y \in Seq(Node) :
            X = Walk(rb_child)[parent] /\ X = Put(dir, <<>>, parent, y)
      <4>1. Opposite(dir) \in Side
        BY <1>3, Sides
      <4>2. rb_child[parent][Opposite(dir)] \in Members(Par) \cup {NULL}
        BY <1>1, <1>3, <2>2, <4>1, ListsHere
      <4>3. QED
        BY <1>1, <1>3, <2>2, <3>2, <3>4, <4>2, ListsHere
    <3>6. /\ PlacedAt(Node, List, X, A, C)
          /\ PutsNext(Node, List, List', node, A, X, C, dir)
      BY <3>1, <3>3, <3>5
    <3>7. (dir = "left" <=> Key[node] < Key[parent]) /\ parent \in Node
      BY <1>1, <1>3, <2>2 DEF Descent, Members
    <3>8. QED
      BY <1>1, <1>3, <3>1, <3>5, <3>6, <3>7, LeafFits
  <2>3. QED
    BY <2>1, <2>2
<1>5. Ordered(Key, List')
  BY <1>1, <1>3, <1>4, PutsKeepsOrder
<1>6. Sorted!Next
  BY <1>1, <1>2, <1>3, <1>4, AddedIsNext
<1>7. Descent' /\ Search'
  BY AtRest DEF Link
<1>8. Ordered(Key, List)'
  BY <1>5 DEF Ordered
<1>9. QED
  BY <1>2, <1>6, <1>7, <1>8 DEF ListInv, ListStep

\* A node with at most one child leaves the list from its place.
LEMMA EraseOneChildRemoves ==
  ASSUME IInv, NEW n \in Node, EraseOneChild(n)
  PROVE  Removes(Node, List, List', n)
<1>1. IsSplice(rb_node, rb_child, Par, rb_node', rb_child', Par', n)
  BY EraseOneChildKeepsIInv
<1>2. Whole(rb_node, rb_child, Par) /\ List' = Walk(rb_child')[rb_node']
  BY MemoryIsWhole DEF List, Walk
<1>3. QED
  BY <1>1, <1>2, SpliceRemoves DEF List

\* Erasing a node with at most one child keeps the list sorted, and is a removal from it.
LEMMA EraseOneChildKeepsList ==
  ASSUME ListInv, NEW n \in Node, EraseOneChild(n)
  PROVE  ListInv' /\ ListStep
<1>1. IInv /\ Ordered(Key, List)
  BY DEF ListInv
<1>2. IInv'
  BY <1>1, EraseOneChildKeepsIInv
<1>3. Removes(Node, List, List', n)
  BY <1>1, EraseOneChildRemoves
<1>4. Ordered(Key, List')
  BY <1>1, <1>3, RemovesKeepsOrder, NodeAssumption
<1>5. Sorted!Next
  BY <1>1, <1>2, <1>3, RemovedIsNext
<1>6. Descent' /\ Search'
  BY AtRest DEF EraseOneChild, Rebalance, Return
<1>7. QED
  BY <1>2, <1>4, <1>5, <1>6 DEF ListInv, ListStep, Ordered

\* The new node has the key and the place of the victim.
LEMMA ReplaceTrades ==
  ASSUME IInv, NEW victim \in Node, NEW new \in Node, Replace(victim, new)
  PROVE  Trades(Node, List, List', victim, new)
<1>1. IInv' /\ IsSwap(rb_node, rb_child, Par, rb_node', rb_child', Par', victim, new)
  BY ReplaceKeepsIInv
<1>2. /\ Whole(rb_node, rb_child, Par) /\ Whole(rb_node', rb_child', Par')
      /\ List' = Walk(rb_child')[rb_node']
  BY <1>1, MemoryIsWhole, NextIsWhole DEF List, Walk
<1>3. QED
  BY <1>1, <1>2, SwapTrades DEF List

\* rb_replace_node keeps the list sorted: the newcomer has the key of the node it replaces.
LEMMA ReplaceKeepsList ==
  ASSUME ListInv, NEW victim \in Node, NEW new \in Node, Replace(victim, new)
  PROVE  ListInv' /\ ListStep
<1>1. IInv /\ Ordered(Key, List)
  BY DEF ListInv
<1>2. IInv'
  BY <1>1, ReplaceKeepsIInv
<1>3. Trades(Node, List, List', victim, new)
  BY <1>1, ReplaceTrades
<1>4. Key[victim] = Key[new] /\ new \notin Members(Par) /\ \A m \in Node : Key[m] \in Int
  BY <1>1, LinkedNow, NodeAssumption DEF Replace
<1>5. Ordered(Key, List')
  BY <1>1, <1>3, <1>4, TradesKeepsOrder
<1>6. Sorted!Next
  BY <1>1, <1>2, <1>3, <1>4, TradedIsNext
<1>7. Descent' /\ Search'
  BY AtRest DEF Replace
<1>8. QED
  BY <1>2, <1>5, <1>6, <1>7 DEF ListInv, ListStep, Ordered

-----------------------------------------------------------------------------
(* The erasure of a node with two children. *)

\* The search starts at the list on the right of the node ...
LEMMA EraseTwoChildrenKeepsList ==
  ASSUME ListInv, NEW n \in Node, EraseTwoChildren(n)
  PROVE  ListInv' /\ ListStep
<1>1. IInv
  BY DEF ListInv
<1>2. IInv'
  BY <1>1, EraseTwoChildrenKeepsIInv
<1>3. rb_child' = rb_child /\ rb_node' = rb_node
  BY DEF EraseTwoChildren, tree
<1>4. pc' = "successor" /\ node' = n /\ successor' = rb_child[n]["right"] /\ n \in Members(Par)
  BY <1>1, LinkedNow DEF EraseTwoChildren
<1>5. PICK s \in Seq(Node) : s = Walk(rb_child)[rb_child[n]["right"]]
  BY <1>1, <1>4, ListsHere DEF Side
<1>6. First(Node, s, s)
  BY FirstItself
<1>7. First(Node, Walk(rb_child)[rb_child[node']["right"]], Walk(rb_child)[successor'])
  BY <1>4, <1>5, <1>6
<1>8. Search' /\ Descent'
  BY <1>3, <1>4, <1>7 DEF Search, Descent, Walk
<1>9. QED
  BY <1>2, <1>3, <1>8, SameTree, SameList

\* ... and goes to the left, where that list still starts.
LEMMA SuccessorStepKeepsList ==
  ASSUME ListInv, SuccessorStep
  PROVE  ListInv' /\ ListStep
<1>1. IInv /\ Search
  BY DEF ListInv
<1>2. IInv'
  BY <1>1, SuccessorStepKeepsIInv
<1>3. rb_child' = rb_child /\ rb_node' = rb_node
  BY DEF SuccessorStep, tree
<1>4. /\ pc = "successor" /\ pc' = "successor" /\ node' = node
      /\ successor' = rb_child[successor]["left"] /\ successor \in Members(Par)
      /\ successor \in Node
  BY <1>1, LinkedNow DEF SuccessorStep, IInv, Locals
<1>5. PICK x \in Seq(Node), y \in Seq(Node) :
        /\ x = Walk(rb_child)[successor']
        /\ Walk(rb_child)[successor] = Put("left", x, successor, y)
  <2>1. Opposite("left") \in Side /\ "left" \in Side
    BY Sides DEF Side
  <2>2. /\ rb_child[successor]["left"] \in Members(Par) \cup {NULL}
        /\ rb_child[successor][Opposite("left")] \in Members(Par) \cup {NULL}
    BY <1>1, <1>4, <2>1, ListsHere
  <2>3. QED
    BY <1>1, <1>4, <2>1, <2>2, ListsHere
<1>6. First(Node, Walk(rb_child)[rb_child[node]["right"]], Put("left", x, successor, y))
  BY <1>1, <1>4, <1>5 DEF Search
<1>7. First(Node, Walk(rb_child)[rb_child[node]["right"]], x)
  BY <1>4, <1>6, FirstBelow
<1>8. Search' /\ Descent'
  BY <1>3, <1>4, <1>5, <1>7 DEF Search, Descent, Walk
<1>9. QED
  BY <1>2, <1>3, <1>8, SameTree, SameList

\* The list of a linked node is a part of the whole one.
LEMMA PlacedInList ==
  ASSUME NEW r, NEW ch, NEW par, Whole(r, ch, par), NEW n \in Members(par)
  PROVE  \E A, C : PlacedAt(Node, Walk(ch)[r], Walk(ch)[n], A, C)
<1>1. SwappedAt(ch, Members(par), Walk(ch), ch, Members(par), n, n)
  BY DEF SwappedAt
<1>2. r = RootAfter(r, par, n, n)
  BY DEF Whole, Tree, RootAfter, Members
<1>3. Within(Walk(ch)[r], Walk(ch)[n], Walk(ch)[r], Walk(ch)[n], Node)
  BY <1>1, <1>2, ListChanges
<1>4. Walk(ch)[n] \in Seq(Node)
  BY ListsInWhole
<1>5. QED
  BY <1>3, <1>4 DEF Within, PlacedAt

\* The successor is the next node of the list: as it takes the place of the erased
\* node, that node is all the list loses.
LEMMA EraseSuccessorRemoves ==
  ASSUME ListInv, EraseSuccessor
  PROVE  node \in Node /\ Removes(Node, List, List', node)
<1>1. IInv /\ Search
  BY DEF ListInv
<1>2. IInv' /\ SuccessorMoved
  BY <1>1, EraseSuccessorKeepsIInv
<1>3. /\ Whole(rb_node, rb_child, Par) /\ Whole(rb_node', rb_child', Par')
      /\ List' = Walk(rb_child')[rb_node']
  BY <1>1, <1>2, MemoryIsWhole, NextIsWhole DEF List, Walk
<1>4. /\ pc = "successor" /\ node \in Node /\ node \in Members(Par)
      /\ successor \in Node /\ successor \in Members(Par)
      /\ rb_child[successor]["left"] = NULL
  BY <1>1, LinkedNow DEF EraseSuccessor, IInv, Locals
<1>5. "left" \in Side /\ "right" \in Side /\ Opposite("left") = "right"
  BY Sides DEF Side, Opposite
<1>6. NextTo(Node, List, node, successor)
  <2>1. PICK x \in Seq(Node), t \in Seq(Node) :
          /\ t = Walk(rb_child)[rb_child[node]["right"]]
          /\ Walk(rb_child)[node] = Put("left", x, node, t)
    <3>1. /\ rb_child[node]["left"] \in Members(Par) \cup {NULL}
          /\ rb_child[node]["right"] \in Members(Par) \cup {NULL}
      BY <1>1, <1>4, <1>5, ListsHere
    <3>2. QED
      BY <1>1, <1>4, <1>5, <3>1, ListsHere
  <2>2. PICK w \in Seq(Node) : Walk(rb_child)[successor] = Put("left", <<>>, successor, w)
    <3>1. rb_child[successor]["right"] \in Members(Par) \cup {NULL}
      BY <1>1, <1>4, <1>5, ListsHere
    <3>2. QED
      BY <1>1, <1>4, <1>5, <3>1, ListsHere
  <2>3. First(Node, t, Put("left", <<>>, successor, w))
    BY <1>1, <1>4, <2>1, <2>2 DEF Search
  <2>4. PICK A, C : PlacedAt(Node, Walk(rb_child)[rb_node], Walk(rb_child)[node], A, C)
    BY <1>3, <1>4, PlacedInList
  <2>5. PlacedAt(Node, List, Put("left", x, node, t), A, C)
    BY <2>1, <2>4 DEF List
  <2>6. QED
    BY <1>4, <2>3, <2>5, FirstBehind
<1>7. Removes(Node, List, List', node)
  <2>1. PICK r1, ch1, par1 :
          /\ IsSplice(rb_node, rb_child, Par, r1, ch1, par1, successor)
          /\ IsSwap(r1, ch1, par1, rb_node', rb_child', Par', node, successor)
    BY <1>2 DEF SuccessorMoved
  <2>2. Whole(r1, ch1, par1)
    BY <1>3, <1>4, <2>1, SplicedWhole
  <2>3. PICK s1 : s1 = Walk(ch1)[r1]
    OBVIOUS
  <2>4. Removes(Node, List, s1, successor)
    BY <1>3, <1>4, <2>1, <2>3, SpliceRemoves DEF List
  <2>5. Trades(Node, s1, List', node, successor)
    <3>1. Trades(Node, Walk(ch1)[r1], Walk(rb_child')[rb_node'], node, successor)
      BY <1>3, <1>4, <2>1, <2>2, SwapTrades
    <3>2. QED
      BY <1>3, <2>3, <3>1
  <2>6. Distinct(List)
    BY <1>1, ListNow
  <2>7. QED
    BY <1>4, <1>6, <2>4, <2>5, <2>6, NextTakesPlace
<1>8. QED
  BY <1>4, <1>7

\* Erasing a node whose place its successor takes keeps the list sorted, and is a removal from it.
LEMMA EraseSuccessorKeepsList ==
  ASSUME ListInv, EraseSuccessor
  PROVE  ListInv' /\ ListStep
<1>1. IInv /\ Ordered(Key, List)
  BY DEF ListInv
<1>2. IInv'
  BY <1>1, EraseSuccessorKeepsIInv
<1>3. node \in Node /\ Removes(Node, List, List', node)
  BY EraseSuccessorRemoves
<1>4. Ordered(Key, List')
  BY <1>1, <1>3, RemovesKeepsOrder, NodeAssumption
<1>5. Sorted!Next
  BY <1>1, <1>2, <1>3, RemovedIsNext
<1>6. Descent' /\ Search'
  BY AtRest DEF EraseSuccessor, Rebalance, Return
<1>7. QED
  BY <1>2, <1>4, <1>5, <1>6 DEF ListInv, ListStep, Ordered

-----------------------------------------------------------------------------
(* The refinement. *)

\* Every step keeps the invariant and is a step of SortedList, or none.
LEMMA NextKeepsList ==
  ASSUME ListInv, [Next]_vars
  PROVE  ListInv' /\ ListStep
<1>1. ASSUME NEW n \in Node, Add(n) PROVE ListInv' /\ ListStep
  BY <1>1, StillKeepsList
<1>2. ASSUME NEW n \in Node, FindAdd(n) PROVE ListInv' /\ ListStep
  BY <1>2, StillKeepsList
<1>3. ASSUME NEW n \in Node, EraseOneChild(n) PROVE ListInv' /\ ListStep
  BY <1>3, EraseOneChildKeepsList
<1>4. ASSUME NEW n \in Node, EraseTwoChildren(n) PROVE ListInv' /\ ListStep
  BY <1>4, EraseTwoChildrenKeepsList
<1>5. ASSUME NEW n \in Node, NEW m \in Node, Replace(n, m) PROVE ListInv' /\ ListStep
  BY <1>5, ReplaceKeepsList
<1>6. CASE FindAddHit \/ InsertRoot \/ InsertDone \/ InsertFlip \/ EraseFlip
  BY <1>6, StillKeepsList
<1>7. CASE Descend
  BY <1>7, DescendKeepsList
<1>8. CASE Link
  BY <1>8, LinkKeepsList
<1>9. CASE InsertRotate
  <2>1. IInv' /\ TreeTurned
    BY <1>9, InsertRotateKeepsIInv DEF ListInv
  <2>2. pc' \notin {"add", "find_add", "successor"}
    BY <1>9 DEF InsertRotate, Return
  <2>3. QED
    BY <2>1, <2>2, RotationKeepsList
<1>10. CASE EraseRedSibling
  <2>1. IInv' /\ TreeTurned
    BY <1>10, EraseRedSiblingKeepsIInv DEF ListInv
  <2>2. pc' \notin {"add", "find_add", "successor"}
    BY <1>10 DEF EraseRedSibling
  <2>3. QED
    BY <2>1, <2>2, RotationKeepsList
<1>11. CASE EraseRotate
  <2>1. IInv' /\ TreeTurned
    BY <1>11, EraseRotateKeepsIInv DEF ListInv
  <2>2. pc' \notin {"add", "find_add", "successor"}
    BY <1>11 DEF EraseRotate, Return
  <2>3. QED
    BY <2>1, <2>2, RotationKeepsList
<1>12. CASE SuccessorStep
  BY <1>12, SuccessorStepKeepsList
<1>13. CASE EraseSuccessor
  BY <1>13, EraseSuccessorKeepsList
<1>14. CASE UNCHANGED vars
  <2>1. IInv'
    BY <1>14, UnchangedKeepsIInv DEF ListInv
  <2>2. List' = List
    BY <1>14, SameTree DEF vars, tree
  <2>3. Descent' /\ Search'
    BY <1>14, <2>2 DEF ListInv, Descent, Search, vars, tree, locals, Walk
  <2>4. QED
    BY <2>1, <2>2, <2>3, SameList
<1>15. QED
  BY <1>1, <1>2, <1>3, <1>4, <1>5, <1>6, <1>7, <1>8, <1>9, <1>10, <1>11, <1>12, <1>13, <1>14
     DEF Next, Caller, Run

\* An empty tree is an empty list.
LEMMA InitList ==
  ASSUME Init
  PROVE  ListInv /\ InOrder(rb_child, rb_node) = <<>>
<1>1. IInv
  BY InitIInv
<1>2. List = <<>>
  BY <1>1, ListsHere DEF Init, List
<1>3. Ordered(Key, List)
  BY <1>2 DEF Ordered
<1>4. Descent /\ Search
  BY DEF Init, Descent, Search
<1>5. QED
  BY <1>1, <1>2, <1>3, <1>4, ListNow DEF ListInv

\* The refinement mapping of ImplementsSortedList: a walk from left to right meets the
\* nodes in the order of a sorted list that an insertion enters behind all equal keys,
\* an erasure leaves and a replacement changes at one place, while rotations, color
\* flips and descents leave it as it is (lib/rbtree.c and rbtree.h together).
THEOREM TreeIsSortedList == Spec => ImplementsSortedList
<1>1. Init => Sorted!Init /\ ListInv
  BY InitList DEF Sorted!Init
<1>2. ListInv /\ [Next]_vars => ListInv' /\ [Sorted!Next]_(InOrder(rb_child, rb_node))
  BY NextKeepsList DEF ListStep, InOrder
<1>3. QED
  BY <1>1, <1>2, PTL DEF Spec, ImplementsSortedList, Sorted!Spec

-----------------------------------------------------------------------------
(* The loops that go through the tree from left to right. *)

\* The loops of LinuxWalk are those of TreeProof.
LEMMA WalksOfLoops ==
  /\ \A m, d : Deepest(m, d) = DeepestWalk(Node, rb_child, d, NULL, Max)[Max][m]
  /\ \A n, d : ClimbFrom(n, d) = ClimbWalk(Node, rb_child, rb_parent_color, d, NULL, Max)[Max][n]
<1>1. \A m, d : Deepest(m, d) = DeepestWalk(Node, rb_child, d, NULL, Max)[Max][m]
  BY DEF Deepest, Levels, DeepestWalk, DeepestTurns, DeepestTurn, Max
<1>2. \A n, d : ClimbFrom(n, d) = ClimbWalk(Node, rb_child, rb_parent_color, d, NULL, Max)[Max][n]
  BY DEF ClimbFrom, Levels, ClimbWalk, ClimbTurns, ClimbTurn, rb_parent, Max
<1>3. QED
  BY <1>1, <1>2

\* Where they end in a tree of the invariant, ...
LEMMA LoopsUnfold ==
  ASSUME IInv, NEW d \in TwoSides
  PROVE  \E f, g :
           /\ \A m : Deepest(m, d) = f[m] /\ ClimbFrom(m, d) = g[m]
           /\ IsDeepest(f, rb_child, Members(Par), NULL, d)
           /\ IsClimb(g, rb_child, rb_parent_color, Members(Par), NULL, d)
<1>1. PICK f : f = DeepestWalk(Node, rb_child, d, NULL, Max)[Max]
  OBVIOUS
<1>2. PICK g : g = ClimbWalk(Node, rb_child, rb_parent_color, d, NULL, Max)[Max]
  OBVIOUS
<1>3. \A m : Deepest(m, d) = f[m] /\ ClimbFrom(m, d) = g[m]
  BY <1>1, <1>2, WalksOfLoops
<1>4. PICK S : S = Members(Par)
  OBVIOUS
<1>5. Whole(rb_node, rb_child, Par)
  BY MemoryIsWhole
<1>6. PICK h : Walked(rb_node, rb_child, Par, h)
  BY <1>5, WholeIsWalked
<1>7. /\ Shaped(rb_child, Par, S, NULL, h, Max)
      /\ Rooted(rb_child, Par, rb_node, S, NULL)
  BY <1>4, <1>6 DEF Walked
<1>8. S \in SUBSET Node /\ \A n \in S : rb_parent_color[n].parent = Par[n]
  BY <1>4 DEF Members, Par, rb_parent
<1>9. \A n \in S : rb_parent_color[n].parent \in S \cup {NULL}
  BY <1>7, <1>8 DEF Rooted
<1>10. \A n \in Node : rb_parent_color[n].parent \in Node \cup {NULL}
  BY DEF IInv, TypeOK, NodeOrNil
<1>12. Below(rb_child, S, NULL, h) /\ \A n \in S : h[n] \in 1..Max
  BY <1>7 DEF Shaped
<1>13. IsDeepest(f, rb_child, S, NULL, d)
  BY <1>1, <1>8, <1>12, MaxType, DeepestUnfolds
<1>14. IsClimb(g, rb_child, rb_parent_color, S, NULL, d)
  BY <1>2, <1>8, <1>9, <1>10, <1>12, MaxType, ClimbUnfolds
<1>15. QED
  BY <1>3, <1>4, <1>13, <1>14

\* ... the deepest nodes in terms of the list, ...
LEMMA DeepestInTree ==
  ASSUME IInv, NEW d \in TwoSides, NEW n \in Members(Par)
  PROVE  Deepest(n, d) \in Node /\ Ends(Walk(rb_child)[n], d, Deepest(n, d))
<1>1. PICK f, g :
        /\ \A m : Deepest(m, d) = f[m] /\ ClimbFrom(m, d) = g[m]
        /\ IsDeepest(f, rb_child, Members(Par), NULL, d)
        /\ IsClimb(g, rb_child, rb_parent_color, Members(Par), NULL, d)
  BY LoopsUnfold
<1>2. PICK S, w : S = Members(Par) /\ w = Walk(rb_child)
  OBVIOUS
<1>3. PICK h : Walked(rb_node, rb_child, Par, h)
  BY MemoryIsWhole, WholeIsWalked
<1>4. /\ Shaped(rb_child, Par, S, NULL, h, Max) /\ Rooted(rb_child, Par, rb_node, S, NULL)
      /\ IsInOrder(w, rb_child, S, NULL)
  BY <1>2, <1>3 DEF Walked
<1>5. IsDeepest(f, rb_child, S, NULL, d)
  BY <1>1, <1>2
<1>6. IsOutermost(f, w, S, d)
  BY <1>4, <1>5, MaxType, DeepestIsOutermost
<1>7. n \in S /\ S \subseteq Node
  BY <1>2 DEF Members
<1>8. Outermost(S, w[n], d, f[n]) /\ w[n] \in Seq(S)
  BY <1>4, <1>6, <1>7 DEF IsOutermost, IsInOrder
<1>9. Ends(w[n], d, f[n]) /\ f[n] \in S
  BY <1>8, OutermostEnds DEF Outermost
<1>10. QED
  BY <1>1, <1>2, <1>7, <1>9

\* The deepest node on either side, where rb_first and rb_last arrive, is an end of the list.
LEMMA DeepestHere ==
  ASSUME IInv, NEW d \in TwoSides, rb_node # NULL
  PROVE  Ends(List, d, Deepest(rb_node, d))
<1>1. rb_node \in Members(Par)
  BY ListsHere, WholeIsWalked DEF Walked, Rooted
<1>2. QED
  BY <1>1, DeepestInTree DEF List

\* ... and the neighbours.
LEMMA NeighbourHere ==
  ASSUME IInv, NEW d \in TwoSides, NEW at \in DOMAIN List
  PROVE  Adjoins(List, at, d, Neighbour(List[at], d), NULL)
<1>1. PICK f, g :
        /\ \A m : Deepest(m, d) = f[m] /\ ClimbFrom(m, d) = g[m]
        /\ IsDeepest(f, rb_child, Members(Par), NULL, d)
        /\ IsClimb(g, rb_child, rb_parent_color, Members(Par), NULL, d)
  BY LoopsUnfold
<1>2. Across(d) \in TwoSides
  BY DEF Across, TwoSides
<1>3. PICK f2, g2 :
        /\ \A n : Deepest(n, Across(d)) = f2[n] /\ ClimbFrom(n, Across(d)) = g2[n]
        /\ IsDeepest(f2, rb_child, Members(Par), NULL, Across(d))
        /\ IsClimb(g2, rb_child, rb_parent_color, Members(Par), NULL, Across(d))
  BY <1>2, LoopsUnfold
<1>4. PICK S, w : S = Members(Par) /\ w = Walk(rb_child)
  OBVIOUS
<1>5. PICK h : Walked(rb_node, rb_child, Par, h)
  BY MemoryIsWhole, WholeIsWalked
<1>6. /\ Shaped(rb_child, Par, S, NULL, h, Max) /\ Rooted(rb_child, Par, rb_node, S, NULL)
      /\ IsInOrder(w, rb_child, S, NULL)
  BY <1>4, <1>5 DEF Walked
<1>7. IsDeepest(f2, rb_child, S, NULL, Across(d)) /\ IsClimb(g, rb_child, rb_parent_color, S, NULL, d)
  BY <1>1, <1>3, <1>4
<1>8. IsOutermost(f2, w, S, Across(d))
  BY <1>2, <1>6, <1>7, MaxType, DeepestIsOutermost
<1>9. NULL \notin S /\ \A n \in S : rb_parent_color[n].parent = Par[n]
  BY <1>4, NodeAssumption DEF Members, Par, rb_parent
<1>10. PICK s : s = w[rb_node]
  OBVIOUS
<1>11. IsBefore(g, w, s, S, d, NULL)
  <2>1. IsBefore(g, w, w[rb_node], S, d, NULL)
    BY <1>6, <1>7, <1>9, MaxType, ClimbIsBefore
  <2>2. QED
    BY <1>10, <2>1
<1>12. s = List
  BY <1>4, <1>10 DEF List
<1>13. PICK n : n = s[at]
  OBVIOUS
<1>14. at \in DOMAIN s /\ Distinct(s) /\ n \in S /\ s \in Seq(Node) /\ n \in Node
  BY <1>4, <1>12, <1>13, ListNow DEF Elements, Members
<1>15. PICK v : v = IF rb_child[n][d] # NULL THEN f2[rb_child[n][d]] ELSE g[n]
  OBVIOUS
<1>16. IsNeighbour(v, s, n, S, d, NULL)
  BY <1>6, <1>8, <1>11, <1>14, <1>15, MaxType, NeighbourIsBefore
<1>17. s \in Seq(S)
  BY <1>6, <1>10, NodesUnfold, MaxType DEF Rooted
<1>18. Before(S, s, d, <<n>>, v, NULL)
  BY <1>16 DEF IsNeighbour
<1>19. Adjoins(s, at, d, v, NULL)
  BY <1>13, <1>14, <1>17, <1>18, NeighbourAdjoins
<1>20. Neighbour(n, d) = v
  <2>1. ~RB_EMPTY_NODE(n)
    BY <1>4, <1>14, LinkedNow
  <2>2. Across(d) = Opposite(d)
    BY DEF Across, Opposite
  <2>3. QED
    BY <1>1, <1>3, <1>15, <2>1, <2>2 DEF Neighbour
<1>21. QED
  BY <1>12, <1>13, <1>19, <1>20

\* rb_first and rb_last are the ends of the list.
LEMMA EndsHere ==
  ASSUME IInv
  PROVE  /\ rb_first = FirstOf(List, NULL)
         /\ rb_last = IF List = <<>> THEN NULL ELSE List[Len(List)]
<1>1. CASE rb_node = NULL
  BY <1>1, ListsHere DEF rb_first, rb_last, List, FirstOf
<1>2. CASE rb_node # NULL
  BY <1>2, DeepestHere DEF rb_first, rb_last, Ends, TwoSides, FirstOf
<1>3. QED
  BY <1>1, <1>2

\* The linked nodes are those in the list.
LEMMA LinkedInList ==
  ASSUME IInv
  PROVE  InTree = Elements(List) /\ InTree = Members(Par) /\ NULL \notin Elements(List)
<1>1. InTree = Members(Par)
  BY LinkedNow DEF InTree, Members
<1>2. QED
  BY <1>1, ListNow, NodeAssumption DEF Members

\* ... and so they are after the step.
LEMMA LinkedInNextList ==
  ASSUME IInv'
  PROVE  InTree' = Elements(List')
<1>1. (IInv => InTree = Elements(List) /\ InTree = Members(Par) /\ NULL \notin Elements(List))'
  BY LinkedInList, PTL
<1>2. QED
  BY <1>1 DEF Elements

\* What is in order in a list is in it.
LEMMA PrecedesIn == \A s, a, b : Precedes(s, a, b) => a \in Elements(s) /\ b \in Elements(s)
BY DEF Precedes, Elements

-----------------------------------------------------------------------------
(* A cached first node, and the flag of the descent that sees whether the new node *)
(* becomes the first.                                                             *)

\* lm is the first of the list s; while a descent stands at the slot of p on side d, flag
\* tells that no node of s is before the slot.  w lists the subtrees, c is where pc is.
CacheAt(lm, flag, s, c, p, d, w) ==
  /\ lm = FirstOf(s, NULL)
  /\ c # "find_add"
  /\ c = "add" =>
       IF p = NULL THEN flag = TRUE
       ELSE \E m \in NodeOrNil :
              /\ Before(Node, s, "left", w[p], m, NULL)
              /\ flag = (d = "left" /\ m = NULL)

CacheNow(lm, flag) == CacheAt(lm, flag, List, pc, parent, dir, Walk(rb_child))
CacheNext(lm, flag) == CacheAt(lm, flag, List', pc', parent', dir', Walk(rb_child'))

\* The descent starts.
LEMMA AddKeepsCache ==
  ASSUME NEW lm, NEW flag, CacheNow(lm, flag), NEW n \in Node, Add(n)
  PROVE  CacheNext(lm, TRUE)
<1>1. rb_child' = rb_child /\ rb_node' = rb_node /\ pc' = "add" /\ parent' = NULL
  BY DEF Add, StartDescent, tree
<1>2. QED
  BY <1>1, SameTree DEF CacheNow, CacheNext, CacheAt

\* A turn of the descent: to the left, what is before the place is still what was; to
\* the right, it is the node that the new one was compared with.
LEMMA DescendKeepsCache ==
  ASSUME ListInv, NEW lm, NEW flag, CacheNow(lm, flag), Descend,
         NEW flag2, flag2 = (flag /\ dir' = "left")
  PROVE  CacheNext(lm, flag2)
<1>1. IInv
  BY DEF ListInv
<1>2. PICK p : p = Slot(parent, dir)
  OBVIOUS
<1>3. /\ rb_child' = rb_child /\ rb_node' = rb_node
      /\ p # NULL /\ pc = "add" /\ pc' = "add" /\ parent' = p
  BY <1>2 DEF Descend, tree, CacheNow, CacheAt
<1>4. List' = List
  BY <1>3, SameTree
<1>5. \E m \in NodeOrNil :
        Before(Node, List, "left", Walk(rb_child)[p], m, NULL) /\ flag = (m = NULL)
  <2>1. CASE parent = NULL
    <3>1. p = rb_node /\ flag = TRUE
      BY <1>2, <1>3, <2>1 DEF Slot, CacheNow, CacheAt
    <3>2. List = Walk(rb_child)[p] /\ List \in Seq(Node)
      BY <1>1, <3>1, ListNow DEF List
    <3>3. Before(Node, List, "left", List, NULL, NULL)
      BY <3>2, BeforeAll
    <3>4. QED
      BY <3>1, <3>2, <3>3 DEF NodeOrNil
  <2>2. CASE parent # NULL
    <3>1. PICK m \in NodeOrNil :
            /\ Before(Node, List, "left", Walk(rb_child)[parent], m, NULL)
            /\ flag = (dir = "left" /\ m = NULL)
      BY <1>3, <2>2 DEF CacheNow, CacheAt
    <3>2. parent \in Members(Par) /\ parent \in Node /\ dir \in Side
      BY <1>1, <1>3, <2>2, LinkedNow DEF IInv, TypeOK, Locals, NodeOrNil
    <3>3. PICK X, x, y :
            /\ X = Walk(rb_child)[parent]
            /\ x = Walk(rb_child)[rb_child[parent]["left"]]
            /\ y = Walk(rb_child)[rb_child[parent]["right"]]
      OBVIOUS
    <3>4. x \in Seq(Node) /\ y \in Seq(Node) /\ IsPut(X, "left", x, parent, y)
      <4>1. "left" \in Side /\ "right" \in Side /\ Opposite("left") = "right"
        BY Sides DEF Side
      <4>2. /\ rb_child[parent]["left"] \in Members(Par) \cup {NULL}
            /\ rb_child[parent]["right"] \in Members(Par) \cup {NULL}
        BY <1>1, <3>2, <4>1, ListsHere
      <4>3. QED
        BY <1>1, <3>2, <3>3, <4>1, <4>2, ListsHere DEF IsPut
    <3>5. PICK s : s = List
      OBVIOUS
    <3>6. Before(Node, s, "left", X, m, NULL)
      BY <3>1, <3>3, <3>5
    <3>7. Before(Node, s, "left", x, m, NULL) /\ Before(Node, s, "left", y, parent, NULL)
      BY <3>2, <3>4, <3>6, BeforeSame, BeforeParent
    <3>8. p = rb_child[parent][dir]
      BY <1>2, <2>2 DEF Slot
    <3>9. CASE dir = "left"
      BY <3>1, <3>3, <3>5, <3>7, <3>8, <3>9
    <3>10. CASE dir = "right"
      <4>1. Before(Node, List, "left", Walk(rb_child)[p], parent, NULL)
        BY <3>3, <3>5, <3>7, <3>8, <3>10
      <4>2. flag = (parent = NULL)
        BY <2>2, <3>1, <3>10
      <4>3. QED
        BY <3>2, <4>1, <4>2 DEF NodeOrNil
    <3>11. QED
      BY <3>2, <3>9, <3>10, Sides
  <2>3. QED
    BY <2>1, <2>2
<1>6. PICK m \in NodeOrNil :
        Before(Node, List, "left", Walk(rb_child)[p], m, NULL) /\ flag = (m = NULL)
  BY <1>5
<1>7. Before(Node, List', "left", Walk(rb_child')[parent'], m, NULL)
  BY <1>3, <1>4, <1>6
<1>8. flag2 = (dir' = "left" /\ m = NULL)
  BY <1>3, <1>6
<1>9. QED
  BY <1>3, <1>4, <1>7, <1>8 DEF CacheNow, CacheNext, CacheAt

\* The new node is the first of the list exactly if the flag has stayed up.
LEMMA LinkKeepsCache ==
  ASSUME ListInv, NEW lm, NEW flag, CacheNow(lm, flag), Link
  PROVE  CacheNext(IF flag THEN node ELSE lm, flag)
<1>1. IInv
  BY DEF ListInv
<1>2. pc = "add" /\ pc' = "insert"
  BY DEF Link, CacheNow, CacheAt
<1>3. node \in Node /\ dir \in Side /\ dir \in TwoSides
  BY <1>1, <1>2, SidesAgree DEF IInv, TypeOK, Locals
<1>4. FirstOf(List', NULL) = IF flag THEN node ELSE FirstOf(List, NULL)
  <2>1. CASE parent = NULL
    <3>1. List' = <<node>> /\ flag = TRUE
      BY <1>1, <1>2, <2>1, LinkAlone DEF CacheNow, CacheAt
    <3>2. <<node>> # <<>> /\ <<node>>[1] = node
      OBVIOUS
    <3>3. QED
      BY <3>1, <3>2 DEF FirstOf
  <2>2. CASE parent # NULL
    <3>1. PICK m \in NodeOrNil :
            /\ Before(Node, List, "left", Walk(rb_child)[parent], m, NULL)
            /\ flag = (dir = "left" /\ m = NULL)
      BY <1>2, <2>2 DEF CacheNow, CacheAt
    <3>2. parent \in Members(Par)
      BY <1>1, <1>2, <2>2, LinkedNow DEF IInv, TypeOK, Locals, NodeOrNil
    <3>3. PICK X \in Seq(Node) : X = Walk(rb_child)[parent] /\ X # <<>>
      <4>1. parent \in Nodes(Walk(rb_child), parent)
        BY <1>1, <3>2, ListsHere, NodesInWhole
      <4>2. QED
        BY <1>1, <3>2, <4>1, ListsHere DEF Nodes, Elements
    <3>4. PICK A \in Seq(Node), C \in Seq(Node) :
            /\ List = (A \o X) \o C
            /\ IF A = <<>> THEN m = NULL ELSE m \in Node
      BY <3>1, <3>3 DEF Before, Join
    <3>5. PlacedAt(Node, List, Walk(rb_child)[parent], A, C)
      BY <3>3, <3>4 DEF PlacedAt
    <3>6. PutsNext(Node, List, List', node, A, X, C, dir)
      BY <1>1, <2>2, <3>3, <3>5, LinkPuts
    <3>7. FirstOf(List', NULL) = IF dir = "left" /\ A = <<>> THEN node ELSE FirstOf(List, NULL)
      BY <1>3, <3>3, <3>6, FirstPut
    <3>8. A = <<>> <=> m = NULL
      BY <3>4, NodeAssumption
    <3>9. QED
      BY <3>1, <3>7, <3>8
  <2>3. QED
    BY <2>1, <2>2
<1>5. QED
  BY <1>2, <1>4 DEF CacheNow, CacheNext, CacheAt

\* A node with two children is not the first of the list.
LEMMA FirstHasNoLeft ==
  ASSUME IInv, NEW n \in Members(Par), rb_child[n]["left"] # NULL
  PROVE  FirstOf(List, NULL) # n
<1>1. SUFFICES ASSUME FirstOf(List, NULL) = n PROVE FALSE
  OBVIOUS
<1>2. n # NULL /\ n \in Node /\ List \in Seq(Node)
  BY ListNow, NodeAssumption DEF Members
<1>3. List # <<>> /\ List[1] = n
  BY <1>1, <1>2 DEF FirstOf
<1>4. 1 \in DOMAIN List
  <2>1. Len(List) \in Nat \ {0} /\ DOMAIN List = 1..Len(List)
    BY <1>2, <1>3, EmptySeq, LenProperties
  <2>2. QED
    BY <2>1
<1>5. Adjoins(List, 1, "left", Neighbour(List[1], "left"), NULL)
  BY <1>4, NeighbourHere DEF TwoSides
<1>6. Neighbour(n, "left") = NULL
  BY <1>3, <1>5 DEF Adjoins
<1>7. Neighbour(n, "left") = Deepest(rb_child[n]["left"], "right")
  BY <1>2, LinkedNow DEF Neighbour, Opposite
<1>8. rb_child[n]["left"] \in Members(Par)
  BY ListsHere DEF Side
<1>9. Deepest(rb_child[n]["left"], "right") \in Node
  BY <1>8, DeepestInTree DEF TwoSides
<1>10. QED
  BY <1>6, <1>7, <1>9, NodeAssumption

\* The next node takes over from the first one when that is erased.
LEMMA EraseKeepsCache ==
  ASSUME ListInv, NEW lm, NEW flag, CacheNow(lm, flag),
         NEW n \in Node, EraseOneChild(n) \/ EraseTwoChildren(n)
  PROVE  CacheNext(IF lm = n THEN rb_next(n) ELSE lm, flag)
<1>1. IInv /\ lm = FirstOf(List, NULL)
  BY DEF ListInv, CacheNow, CacheAt
<1>2. PICK lm2 : lm2 = IF lm = n THEN rb_next(n) ELSE lm
  OBVIOUS
<1>3. CASE EraseOneChild(n)
  <2>1. List \in Seq(Node) /\ Distinct(List) /\ Removes(Node, List, List', n)
    BY <1>1, <1>3, ListNow, EraseOneChildRemoves
  <2>2. /\ FirstOf(List, NULL) # n => FirstOf(List', NULL) = FirstOf(List, NULL)
        /\ FirstOf(List, NULL) = n =>
             /\ List # <<>> /\ 1 \in DOMAIN List /\ List[1] = n
             /\ FirstOf(List', NULL) = IF 1 = Len(List) THEN NULL ELSE List[1 + 1]
    BY <2>1, FirstRemoved
  <2>3. FirstOf(List, NULL) = n => rb_next(n) = FirstOf(List', NULL)
    <3>1. SUFFICES ASSUME FirstOf(List, NULL) = n PROVE rb_next(n) = FirstOf(List', NULL)
      OBVIOUS
    <3>2. Adjoins(List, 1, "right", Neighbour(List[1], "right"), NULL)
      BY <1>1, <2>2, <3>1, NeighbourHere DEF TwoSides
    <3>3. QED
      BY <2>2, <3>1, <3>2 DEF Adjoins, rb_next
  <2>4. lm2 = FirstOf(List', NULL)
    BY <1>1, <1>2, <2>2, <2>3
  <2>5. pc' \notin {"add", "find_add"}
    BY <1>3 DEF EraseOneChild, Rebalance, Return
  <2>6. QED
    BY <1>2, <2>4, <2>5 DEF CacheNext, CacheAt
<1>4. CASE EraseTwoChildren(n)
  <2>1. rb_child' = rb_child /\ rb_node' = rb_node /\ pc' = "successor"
    BY <1>4 DEF EraseTwoChildren, tree
  <2>2. List' = List
    BY <2>1, SameTree
  <2>3. n \in Members(Par) /\ rb_child[n]["left"] # NULL
    BY <1>1, <1>4, LinkedNow DEF EraseTwoChildren, Side
  <2>4. lm2 = FirstOf(List', NULL)
    BY <1>1, <1>2, <2>2, <2>3, FirstHasNoLeft
  <2>5. QED
    BY <1>2, <2>1, <2>4 DEF CacheNext, CacheAt
<1>5. QED
  BY <1>3, <1>4

\* A replacement takes over from the first node.
LEMMA ReplaceKeepsCache ==
  ASSUME ListInv, NEW lm, NEW flag, CacheNow(lm, flag),
         NEW n \in Node, NEW m \in Node, Replace(n, m)
  PROVE  CacheNext(IF lm = n THEN m ELSE lm, flag)
<1>1. IInv /\ lm = FirstOf(List, NULL)
  BY DEF ListInv, CacheNow, CacheAt
<1>2. List \in Seq(Node) /\ Distinct(List) /\ Trades(Node, List, List', n, m)
  BY <1>1, ListNow, ReplaceTrades
<1>3. FirstOf(List', NULL) = IF FirstOf(List, NULL) = n THEN m ELSE FirstOf(List, NULL)
  BY <1>2, FirstTraded
<1>4. pc' \notin {"add", "find_add"}
  BY DEF Replace
<1>5. QED
  BY <1>1, <1>3, <1>4 DEF CacheNext, CacheAt

\* Neither the rebalancing loops nor the successor that takes the place of the erased
\* node change the first node.
LEMMA RunKeepsCache ==
  ASSUME ListInv, NEW lm, NEW flag, CacheNow(lm, flag),
         pc \in {"insert", "successor", "erase_color"}, Run
  PROVE  CacheNext(lm, flag)
<1>1. IInv /\ lm = FirstOf(List, NULL)
  BY DEF ListInv, CacheNow, CacheAt
<1>2. pc' \notin {"add", "find_add"}
  BY DEF Run, FindAddHit, Descend, Link, InsertRoot, InsertDone, InsertFlip, InsertRotate,
       SuccessorStep, EraseSuccessor, EraseFlip, EraseRedSibling, EraseRotate, Rebalance, Return
<1>3. FirstOf(List', NULL) = FirstOf(List, NULL)
  <2>1. CASE InsertRoot \/ InsertDone \/ InsertFlip \/ SuccessorStep \/ EraseFlip
    <3>1. rb_child' = rb_child /\ rb_node' = rb_node
      BY <2>1 DEF InsertRoot, InsertDone, InsertFlip, SuccessorStep, EraseFlip, tree
    <3>2. QED
      BY <3>1, SameTree
  <2>2. CASE InsertRotate \/ EraseRedSibling \/ EraseRotate
    <3>1. TreeTurned
      BY <1>1, <2>2, InsertRotateKeepsIInv, EraseRedSiblingKeepsIInv, EraseRotateKeepsIInv
    <3>2. QED
      BY <1>1, <3>1, TurnSameList
  <2>3. CASE EraseSuccessor
    <3>1. pc = "successor" /\ node \in Members(Par) /\ rb_child[node]["left"] # NULL
      BY <1>1, <2>3, LinkedNow DEF EraseSuccessor, IInv, Locals, Side
    <3>2. /\ List \in Seq(Node) /\ Distinct(List)
          /\ node \in Node /\ Removes(Node, List, List', node)
      BY <1>1, <2>3, ListNow, EraseSuccessorRemoves
    <3>3. FirstOf(List, NULL) # node
      BY <1>1, <3>1, FirstHasNoLeft
    <3>4. QED
      BY <3>2, <3>3, FirstRemoved
  <2>4. ~(FindAddHit \/ Descend \/ Link)
    BY DEF FindAddHit, Descend, Link
  <2>5. QED
    BY <2>1, <2>2, <2>3, <2>4 DEF Run
<1>4. QED
  BY <1>1, <1>2, <1>3 DEF CacheNext, CacheAt

\* Nothing changes.
LEMMA StillKeepsCache ==
  ASSUME NEW lm, NEW flag, CacheNow(lm, flag), UNCHANGED vars
  PROVE  CacheNext(lm, flag)
<1>1. /\ rb_child' = rb_child /\ rb_node' = rb_node /\ pc' = pc /\ parent' = parent
      /\ dir' = dir
  BY DEF vars, tree, locals
<1>2. QED
  BY <1>1, SameTree DEF CacheNow, CacheNext

\* In the empty tree of the start.
LEMMA InitCache == ASSUME Init PROVE ListInv /\ CacheNow(NULL, TRUE)
<1>1. ListInv /\ InOrder(rb_child, rb_node) = <<>>
  BY InitList
<1>2. List = <<>>
  BY <1>1, ListNow DEF ListInv
<1>3. QED
  BY <1>1, <1>2 DEF Init, CacheNow, CacheAt, FirstOf

-----------------------------------------------------------------------------
(* The loop that goes through the tree in postorder. *)

\* The tree of the invariant in terms of TreeProof.
LEMMA TreeHere ==
  ASSUME IInv
  PROVE  \E h : /\ Shaped(rb_child, Par, Members(Par), NULL, h, Max)
                /\ Rooted(rb_child, Par, rb_node, Members(Par), NULL)
                /\ IsInOrder(Walk(rb_child), rb_child, Members(Par), NULL)
BY MemoryIsWhole, WholeIsWalked DEF Walked

\* rb_left_deepest_node finds the first node of a subtree in postorder.
LEMMA LeftDeepestHere ==
  ASSUME IInv, NEW n \in Members(Par)
  PROVE  Foremost(rb_child, Walk(rb_child), NULL, n, rb_left_deepest_node(n))
<1>1. PICK f : f = LeafWalk(Node, rb_child, [d \in TwoSides |-> NULL], NULL, Max)[Max]
  OBVIOUS
<1>2. rb_left_deepest_node(n) = f[n]
  BY <1>1 DEF rb_left_deepest_node, Levels, LeafWalk, LeafTurns, LeafTurn, Max, Leaf, Side,
       TwoSides
<1>3. PICK h : /\ Shaped(rb_child, Par, Members(Par), NULL, h, Max)
               /\ Rooted(rb_child, Par, rb_node, Members(Par), NULL)
               /\ IsInOrder(Walk(rb_child), rb_child, Members(Par), NULL)
  BY TreeHere
<1>4. PICK S : S = Members(Par) /\ S \in SUBSET Node
  BY DEF Members
<1>5. ChildMap(rb_child, Node, NULL)
  BY NodeAssumption, SidesAgree DEF ChildMap, IInv, TypeOK, NodeOrNil
<1>6. Below(rb_child, S, NULL, h) /\ \A m \in S : h[m] \in 1..Max
  BY <1>3, <1>4 DEF Shaped
<1>7. IsLeafWalk(f, rb_child, S, NULL)
  BY <1>1, <1>4, <1>5, <1>6, MaxType, LeafWalkUnfolds
<1>8. QED
  BY <1>2, <1>3, <1>4, <1>7, MaxType, LeafWalkIsForemost

\* rb_next_postorder goes on to the next node of the postorder, or none is left.
LEMMA NextInPostorder ==
  ASSUME IInv, NEW c, NEW T,
         Remains(rb_child, Par, Members(Par), Walk(rb_child), NULL, c, T)
  PROVE  IF rb_next_postorder(c) = NULL THEN T \ {c} = {}
         ELSE Remains(rb_child, Par, Members(Par), Walk(rb_child), NULL, rb_next_postorder(c),
                      T \ {c})
<1>1. PICK h : /\ Shaped(rb_child, Par, Members(Par), NULL, h, Max)
               /\ Rooted(rb_child, Par, rb_node, Members(Par), NULL)
               /\ IsInOrder(Walk(rb_child), rb_child, Members(Par), NULL)
  BY TreeHere
<1>2. c \in Members(Par) /\ c \in Node
  BY DEF Remains, Members
<1>3. PICK p : p = Par[c] /\ p = rb_parent(c)
  BY <1>2 DEF Par
<1>4. CASE p = NULL
  <2>1. T = {c}
    BY <1>1, <1>3, <1>4, MaxType, PostorderEnds
  <2>2. rb_next_postorder(c) = NULL
    BY <1>3, <1>4 DEF rb_next_postorder
  <2>3. QED
    BY <2>1, <2>2
<1>5. CASE p # NULL /\ ~(rb_child[p]["left"] = c /\ rb_child[p]["right"] # NULL)
  <2>1. Par[c] # NULL /\ ~(rb_child[Par[c]]["left"] = c /\ rb_child[Par[c]]["right"] # NULL)
    BY <1>3, <1>5
  <2>2. Remains(rb_child, Par, Members(Par), Walk(rb_child), NULL, Par[c], T \ {c})
    BY <1>1, <2>1, MaxType, PostorderUp
  <2>3. rb_next_postorder(c) = p
    BY <1>3, <1>5 DEF rb_next_postorder
  <2>4. QED
    BY <1>3, <1>5, <2>2, <2>3
<1>6. CASE p # NULL /\ rb_child[p]["left"] = c /\ rb_child[p]["right"] # NULL
  <2>1. PICK m : m = rb_left_deepest_node(rb_child[p]["right"])
    OBVIOUS
  <2>2. p \in Members(Par)
    BY <1>1, <1>2, <1>3, <1>6 DEF Rooted
  <2>3. rb_child[p]["right"] \in Members(Par)
    BY <1>1, <1>6, <2>2 DEF Shaped, Below, TwoSides
  <2>4. Foremost(rb_child, Walk(rb_child), NULL, rb_child[Par[c]]["right"], m)
    BY <1>3, <2>1, <2>3, LeftDeepestHere
  <2>5. Remains(rb_child, Par, Members(Par), Walk(rb_child), NULL, m, T \ {c})
    BY <1>1, <1>3, <1>6, <2>4, MaxType, PostorderAcross
  <2>6. rb_next_postorder(c) = m
    BY <1>3, <1>6, <2>1 DEF rb_next_postorder
  <2>7. m # NULL
    BY <1>1, <2>5 DEF Remains, Shaped, Below
  <2>8. QED
    BY <2>5, <2>6, <2>7
<1>7. QED
  BY <1>4, <1>5, <1>6
=============================================================================
