----------------------------- MODULE LinuxTest -----------------------------
(***************************************************************************)
(* The test program rbtree_test.c as a caller of the trees: the phases of  *)
(* rbtree_test_init up to its augmented half, which repeats the first, the *)
(* second and the last with the operations of LinuxAugmentedCached.  One   *)
(* root is shared by all phases; some keep its rb_leftmost, some do not.   *)
(*                                                                         *)
(* init() draws random keys.  The keys stay with the nodes here, and it is *)
(* the order of the nodes in the array that is drawn, which comes to the   *)
(* same.  Phases that only read are a single step.                         *)
(***************************************************************************)
EXTENDS LinuxCached

CONSTANTS perf_loops, check_loops

ASSUME TestAssumption ==
  /\ IsFiniteSet(Node)
  /\ {perf_loops, check_loops} \subseteq Nat \ {0}

VARIABLES
  phase,      \* where rbtree_test_init is
  i, j,       \* its loop counters
  inserting,  \* which of the two inner loops runs
  nodes       \* the array, as the order its keys put the nodes in

testVars == <<cachedVars, phase, i, j, inserting, nodes>>

nnodes == Cardinality(Node)
Arrays == {a \in [1..nnodes -> Node] : \A x, y \in 1..nnodes : x # y => a[x] # a[y]}

\* The phases in their order, and how often each runs its loops.
Phases == <<"churn", "churn_cached", "fill", "first", "first_cached", "drain", "check", "done">>
After == [p \in 1..(Len(Phases) - 1) |-> Phases[p + 1]]
Following(p) == After[CHOOSE q \in DOMAIN After : Phases[q] = p]

Rounds(p) ==
  CASE p \in {"churn", "churn_cached"} -> perf_loops
    [] p = "check" -> check_loops
    [] OTHER -> 1

\* The inner loop over nodes: an operation of the tree for each.
Call ==
  /\ pc = "idle"
  /\ phase \notin {"first", "first_cached", "done"}
  /\ j < nnodes
  /\ LET n == nodes[j + 1]
     IN  IF phase = "churn_cached"
         THEN IF inserting THEN AddCached(n) ELSE EraseCached(n)
         ELSE /\ IF inserting THEN Add(n) ELSE EraseOneChild(n) \/ EraseTwoChildren(n)
              /\ UNCHANGED cache
  /\ j' = j + 1
  /\ UNCHANGED <<phase, i, inserting, nodes>>

\* The code of the tree, until the operation returns.
Inside ==
  /\ IF phase = "churn_cached"
     THEN DescendCached \/ LinkCached \/ RebalanceCached
     ELSE Run /\ UNCHANGED cache
  /\ UNCHANGED <<phase, i, j, inserting, nodes>>

\* Mutant: the erasures of a round are left out.
NextLoopInsertsOnly ==
  /\ pc = "idle"
  /\ inserting
  /\ j = nnodes
  /\ i' = i + 1
  /\ j' = 0
  /\ UNCHANGED <<cachedVars, phase, inserting, nodes>>

\* From the insertions to the erasures ...
NextLoop ==
  /\ pc = "idle"
  /\ inserting
  /\ phase # "fill"
  /\ j = nnodes
  /\ inserting' = FALSE
  /\ j' = 0
  /\ UNCHANGED <<cachedVars, phase, i, nodes>>

\* ... and from a round to the next one; the rounds of the checks call init().
NextRound ==
  /\ pc = "idle"
  /\ ~inserting
  /\ phase # "drain"
  /\ j = nnodes
  /\ i + 1 < Rounds(phase)
  /\ i' = i + 1
  /\ j' = 0
  /\ inserting' = TRUE
  /\ nodes' \in IF phase = "check" THEN Arrays ELSE {nodes}
  /\ UNCHANGED <<cachedVars, phase>>

PhaseEnds ==
  \/ phase \in {"first", "first_cached"}
  \/ /\ phase # "done"
     /\ j = nnodes
     /\ inserting = (phase = "fill")
     /\ i + 1 = Rounds(phase)

NextPhase ==
  /\ pc = "idle"
  /\ PhaseEnds
  /\ phase' = Following(phase)
  /\ i' = 0
  /\ j' = 0
  /\ inserting' = (phase' # "drain")
  /\ nodes' \in IF phase' = "check" THEN Arrays ELSE {nodes}
  /\ UNCHANGED cachedVars

TestInit ==
  /\ CachedInit
  /\ phase = "churn"
  /\ i = 0
  /\ j = 0
  /\ inserting = TRUE
  /\ nodes \in Arrays

TestNext == Call \/ Inside \/ NextLoop \/ NextRound \/ NextPhase

TestSpec == TestInit /\ [][TestNext]_testVars

\* The program is one thread that keeps running.
TestFairSpec == TestSpec /\ WF_testVars(TestNext)

-----------------------------------------------------------------------------
(* check(), whose WARN_ON_ONCE is an assert. *)

black_path_count(n) ==
  LET walk[k \in Levels, m \in NodeOrNil] ==
        IF k = 0 \/ m = NULL THEN 0
        ELSE walk[k - 1, rb_parent(m)] + (IF rb_is_black(m) THEN 1 ELSE 0)
  IN  walk[Cardinality(Node), n]

check_postorder(nr_nodes) == Len(Visits(rb_first_postorder, rb_next_postorder)) = nr_nodes

check(nr_nodes) ==
  LET walk == Visits(rb_first, rb_next)
  IN  /\ \A x \in DOMAIN walk :
           LET n == walk[x]
           IN  /\ x > 1 => Key[walk[x - 1]] =< Key[n]
               /\ rb_is_red(n) => rb_parent(n) # NULL /\ rb_is_black(rb_parent(n))
               /\ (\E d \in Side : rb_child[n][d] = NULL) =>
                    black_path_count(n) = black_path_count(walk[1])
      /\ Len(walk) = nr_nodes
      /\ Len(walk) >= 2 ^ black_path_count(rb_last) - 1
      /\ check_postorder(nr_nodes)

\* The assertions of check() hold each time the last phase reaches them, after
\* every insertion and erasure of every order of the nodes, on the root that the
\* earlier phases leave behind: check(j), check(nnodes - j) and check(0).
ChecksPass ==
  phase = "check" /\ pc = "idle" => check(IF inserting THEN j ELSE nnodes - j)

\* The program comes to its end: every operation returns and every phase leaves
\* the nodes outside of the tree, where the next phase can insert them again.
TestCompletes == <>(phase = "done" /\ rb_node = NULL)

\* "Same as rb_first(), but O(1)" (rbtree.h:165), of the node that test 4 fetches
\* from the cache (rbtree_test.c:322) to compare the latency with rb_first.
FetchesTheFirst == phase = "first_cached" => rb_leftmost = rb_first
=============================================================================
