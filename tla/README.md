# Red-black trees of playground-algorithm: models, checks and proofs

The repository collects five implementations of red-black trees in C under
`src/rbtree/`: the Linux kernel's (with its cached and augmented variants), an
order-statistic tree built on it, and those of nginx, libuv and the Paho MQTT
client. Each comes with a small randomised test. None has a thread of its own:
what is hard here is that a handful of pointer stores, written twice (once per
side), must turn a tree that is broken in one place into one that is whole, in
the middle of structures of any size, while callers hold pointers into it.

This directory holds TLA+ models of that code, TLC configurations that check them
on small instances, and TLAPS proofs for instances of every size. All five trees are
modelled, with everything that is built on the Linux one; the proofs are about the
Linux tree, what runs on top of it, and the nginx and libuv trees.

## Inventory

### Linux tree - `c/linux/rbtree.c`, `rbtree.h`, `rbtree_augmented.h`

- **State.** `rb_root.rb_node`; per node `rb_left`, `rb_right` and
  `__rb_parent_color`, the parent's address with the color in its lowest bit. The
  nodes belong to the caller and are embedded in its structures, keys included.
- **Operations.** `rb_link_node` + `rb_insert_color` (behind `rb_add`,
  `rb_find_add` and the `insert` functions of the tests), `rb_erase`,
  `rb_replace_node`; readers `rb_first`, `rb_last`, `rb_next`, `rb_prev`, the two
  postorder functions, `rb_find`, `rb_find_first`, `rb_next_match`.
- **Interaction.** The caller passes `less`/`cmp`; `__rb_insert` and
  `____rb_erase_color` call an `augment_rotate` callback, `__rb_erase_augmented` a
  `copy` and a `propagate`. For the plain tree these do nothing.
- **Hard.** Loops that climb through a tree that is not red-black in one place;
  dereferences without a test that rely on the red-black properties; the order of
  stores; the overlap of a successor with the right child; ties.
- **Correct when** child and parent pointers agree, no node is lost, the red-black
  properties return after each operation, loops end and rotate as little as
  documented, and the tree behaves as a sorted list that is first-in first-out among
  equal keys.

### Leftmost cache - `rbtree.h:148-246`

- **State.** `rb_root_cached` adds `rb_leftmost`. **Operations.** `rb_add_cached`,
  `rb_insert_color_cached`, `rb_erase_cached`, `rb_replace_node_cached`,
  `rb_first_cached`.
- **Hard.** The cache is written before the tree is rebalanced and must still be
  right afterwards. **Correct when** it always equals `rb_first`.

### Augmented tree - `rbtree_augmented.h`

- **State.** A value per node that summarises its subtree. **Operations.**
  `rb_insert_augmented`, `rb_erase_augmented` and their cached versions; the
  callbacks that `RB_DECLARE_CALLBACKS` and `RB_DECLARE_CALLBACKS_MAX` generate.
- **Hard.** The order of the callbacks around two rotations in one turn; a
  propagation that stops early; a path that is updated before the node is linked.
- **Correct when** every node's value is that of its subtree.

### Order-statistic tree - `augment/order-statistic-tree/ostree.h`

- **State.** Subtree sizes. **Operations.** `ostree_insert`, `ostree_remove`,
  `ostree_select`, `ostree_rank`, with callbacks of its own. They take a
  `rb_root_cached` and leave its `rb_leftmost` alone (lines 53-75).
- **Correct when** sizes are exact and `select` and `rank` invert each other.

### Lockless lookups - `rbtree.c:34-56`

A comment promises that a reader without a lock terminates and sees only valid
elements, because stores to child pointers are made with `WRITE_ONCE` and never form a
loop in program order.

- **State.** What is visible in memory of `rb_node`, `rb_left` and `rb_right` while a
  turn of the writer is under way; the reader's `node`.
- **Hard.** Every prefix of every sequence of stores is a structure that somebody may
  walk; nodes that were erased keep pointers into the tree, and may be added again
  under a reader that stands on them; a writer that stops in the middle.
- **Correct when** there never is a loop, the reader meets only nodes that were in the
  tree since it began, and its loop ends.

### nginx tree - `c/nginx/ngx_rbtree.c`, `.h`

- **State.** Three pointers, a color and an unsigned key per node; a shared black
  sentinel in place of null. **Operations.** `insert` (through a function pointer:
  by value, or by timer with a signed difference), `delete`, `min`, `next`.
- **Hard.** Timer keys that wrap; the sentinel's parent pointer, scratch memory of
  every deletion; the new root's parent pointer, left to the deleted node.

### libuv tree - `c/libuv/tree.h`

- **State.** Three pointers and a color, in macros that generate code per type.
  **Operations.** `RB_INSERT` (returns the element that is there already),
  `RB_REMOVE`, `RB_FIND`, `RB_NFIND`, `RB_NEXT`, `RB_PREV`, `RB_MIN`, `RB_MAX` and
  the `FOREACH` loops, some of them safe against removal.
- **Hard.** The move of the successor with locals read before; loops that remove.

### Paho tree - `c/paho.mqtt.c/rbtree.c`

- **State.** Nodes that the tree allocates, with a pointer to the caller's content;
  `count` and `size`. **Operations.** `TreeAdd`, `TreeRemove`, `TreeFind`,
  `TreeNext`, `TreePrev`.
- **Hard.** Removal moves contents between nodes and frees another node than the one
  asked for; a missing child is stood in for by a node on the stack; the direction of
  the order depends on the compare function.

### Test programs - `*_test.c`

- **State.** `rbtree_test.c` shares one `rb_root_cached` and one array of nodes among
  all of its phases; some phases keep the cache, some do not. Its `check()` is a list
  of assertions on the tree. The other test programs insert a random permutation, walk
  it and remove it again.
- **Hard.** A phase inserts nodes that the one before must have erased. **Correct when**
  the assertions never fail, the program ends, and what it measures is what it says.

Makefiles and documentation have no behaviour of their own; the promises of
`rbtree.rst` are quoted at the properties.

## Modules

| Module | Models |
| --- | --- |
| `RBShape` | What a red-black tree is: in-order walk, path counts, colors. No code. |
| `SortedList` | Abstract specification: a list sorted by key, first-in first-out among equals. |
| `LinuxRbtree` | Insertion, erasure, replacement; the two rebalancing loops. The core. |
| `LinuxWalk` | The reading functions, as operators on the state of `LinuxRbtree`. |
| `LinuxCached` | The leftmost cache, composed with `LinuxRbtree`. |
| `LinuxIter` | A caller of the cached tree: it iterates, changes the tree on its way, or frees all nodes in the postorder loop. |
| `LinuxAugmented` | Callbacks around every rotation and erasure; the callbacks are constants. |
| `LinuxLockless` | The stores of `LinuxRbtree`'s turns one by one, beside a reader without a lock. |
| `LinuxTest` | `rbtree_test_init` as a caller of `LinuxRbtree` and `LinuxCached`, and `check()`. |
| `LinuxAugmentedMax` | The callbacks of `RB_DECLARE_CALLBACKS_MAX` (`rbtree_test.c`). |
| `LinuxAugmentedCached` | The augmented tree with a leftmost cache. |
| `OrderStatisticTree` | The callbacks and queries of `ostree.h`. |
| `NgxRbtree` | The nginx tree: both descents, deletion, the sentinel as a cell, `next`. |
| `LibuvRbtree` | The functions that the macros of `tree.h` generate. |
| `LibuvForeach` | A caller inside of one of the six `FOREACH` loops. |
| `PahoTree` | The Paho tree with its own nodes, its contents, `count` and `size`. |
| `TreeProof` | Lemmas about binary trees, walks and lists, for trees of any size. No code. |
| `LinuxRbtreeProof` | The inductive invariant of `LinuxRbtree`, and the theorems that follow from it node by node. |
| `LinuxListProof` | What the recursive definitions about `LinuxRbtree` come to: counts along paths, the sorted list, its ends and neighbours. |
| `LinuxCachedProof` | Theorems about the leftmost cache, the reading functions, their callers and the test program. |
| `LinuxAugmentedProof` | Theorems about the augmented tree, its values, and the queries of `ostree.h`. |
| `LinuxLocklessProof` | Theorems about the memory that a reader without a lock sees. |
| `NgxRbtreeProof` | Theorems about the nginx tree: pointers, colors, the order of values and timers, iteration. |
| `LibuvProof` | Theorems about the libuv tree: pointers, colors, the sorted set. |
| `MC...` | Instances for TLC: nodes are numbers, keys a function of them. |

### How `LinuxRbtree` corresponds to the code

`rb_child[n]` is the pair `rb_left`, `rb_right`; `rb_parent_color[n]` the word with
parent and color; `pc` names the loop that runs, and `node`, `parent`, `successor` are
its local variables. `dir` is the side of `parent` that `link` points to in a
descent. An action is **one turn of a loop**: `Descend`, `SuccessorStep`, the cases
of `__rb_insert` (`InsertRoot`, `InsertDone`, `InsertFlip` = Case 1, `InsertRotate` =
Case 2 if needed, then 3) and of `____rb_erase_color` (`EraseRedSibling` = Case 1,
`EraseFlip` = Case 2, `EraseRotate` = Case 3 if needed, then 4). `EraseOneChild` and
`EraseSuccessor` are the straight-line parts of `__rb_erase_augmented`.

Three abstractions deserve a word.

- *Sides.* The C code has each case twice, with left and right exchanged. One action
  covers both; `d` is the side that the code's first copy and its pictures show. The
  second copies were compared with the first line by line.
- *Case 1 of an erasure* is a turn of its own, although the C code falls through into
  the other cases: it leaves `node` and `parent` alone and the sibling is re-read, so
  the next turn of the model is what the code falls into. The new sibling is black by
  the invariants that are checked, so no second Case 1 can follow.
- *Dead words.* `rb_erase` leaves the erased node's words as they are. Nothing reads
  them until the node is linked again (its caller may as well call
  `RB_CLEAR_NODE`), so the model clears them and thereby knows which nodes are in the
  tree. The same holds for the victim of `rb_replace_node`.

What the caller must keep to is a guard: it links only nodes that are outside of the
tree, erases and replaces only nodes in it, and replaces only by a node with the
same key (`rbtree.rst:159-165`). It calls one operation at a time, as a lock would
make it. Memory order, allocation and the caller's payload are left out.

`LinuxCached`, `LinuxIter` and `LinuxAugmented` conjoin their own state changes to these
actions and so reuse them unchanged. In `LinuxAugmented` the two rotations of one
turn are one step; a callback between them reads child pointers that the second
rotation changes, but the values it computes from those are written again by the
second callback, so the model lets both read the pointers at the end of the turn.

`LinuxIter` is a caller between two of whose steps a whole operation, or any turn of one,
may lie. `cursor` is the node its loop stands on; `due` is a history variable, the nodes
that were there since the loop began and that it has not visited. In the postorder loop
(`teardown`) the body frees `pos`, and `Reads` names every node that
`rb_next_postorder` looks at, so that `NoUseAfterFree` can compare both.

### How `NgxRbtree` corresponds to the code

The variables are the fields of the structures; `node` and `temp` are the locals of the
loop that `pc` names. Unlike in the Linux model

- *the sentinel is a cell* with a color and a parent, because `ngx_rbtree_delete` stores
  to both: `parent[sentinel]` is how a fixup finds its way up, and keeps its last value
  from one call to the next, as in the code;
- *the root's parent is not maintained*: `ngx_rbtree_delete` returns early for a root with
  at most one child (178-189) and leaves the child's `parent` at the deleted node, so
  `LinksAgree` makes an exception of the root and `NextAgrees` shows that `ngx_rbtree_next`,
  which reads that pointer before it compares with the root, does not follow it;
- *deleted nodes are cleared by the code* itself ("DEBUG stuff"), their color excepted.

`insert` is the function pointer `tree->insert`, set by `ngx_rbtree_init` to either of the
two descents. They differ in nothing but the comparison, `value_before` (line 102) or
`timer_before` (136), the latter computed modulo `KeyRange` = 2^w. The caller of an
insertion must keep timers comparable (`Comparable`): this is the comment at 127-132. A red
sibling (255-260) is a turn of its own, as in `LinuxRbtree`: it leaves `temp` where it is.

### How `LinuxLockless` corresponds to the code

`LinuxRbtree` makes all stores of a turn in one step. Here the same turn also puts the
child-pointer stores that it consists of, in the order of the code, into `stores`; a
step `Visible` takes the first one to the memory that the reader sees, and the next turn
of the writer waits until all have arrived. So the writer is `LinuxRbtree` unchanged, and
the reader sees every intermediate state of every turn. `VisibleCatchesUp` is the check
on this splitting: the stores listed for a turn must amount to what the turn does. A
store to a red sibling's child and the rotation after it are in different turns of the
model and in one of the code, which makes no difference to the sequence.

Only stores to `rb_node`, `rb_left` and `rb_right` count, as the comment says (line 53). A
`WRITE_ONCE` is kept in its place, since the comment speaks of the tree "as seen in
program order"; the plain stores of `rb_link_node` and of `*new = *victim` in
`rb_replace_node` are in place too when `PlainInOrder` is TRUE, and may come after the
store that publishes the node otherwise. Nodes are never freed: the reader holds an RCU
read lock or the like, which this repository does not contain. They may be added again
at once, which `rbtree.rst` does not forbid.

### How `LibuvRbtree` and `LibuvForeach` correspond to the code

Fields and locals keep their names; `pc` is the loop that runs. The macros are read as
the functions they generate, with `RB_AUGMENT` empty (line 91). `RB_REMOVE` up to the
label `color` is one action, `RemoveOuter` or `RemoveInner`: its one loop, the search for
the successor, only reads. It passes `parent` and `child` on to `RB_REMOVE_COLOR` as the
locals that the code computes, before or after the successor has moved; nothing in
the model re-reads them from the tree. A turn of `RB_REMOVE_COLOR` that finds no sibling
would dereference `NULL`: the model stops there, and `RedBlackThroughout` says that it
never comes to that. `LibuvForeach` adds `x` and `y` of a `FOREACH` loop around calls; the
body keeps the element the loop goes on from (`y` in the `_SAFE` and `_FROM` loops, `x` in
the others) and may remove and insert all others.

### How `PahoTree` corresponds to the code

`Node` is a set of addresses, `allocated` those between `malloc` and `free`; the constant
operator `malloc` says which free ones may be returned. `compare` is the function pointer
of the tree, one of the two sign conventions that the file has. `temp` is the node on the
stack of `TreeRemoveNode`: it has a parent, a color and no content, and is never a child.
`TreeRemove` contains `TreeFind`, the move of the content and the unlinking; `redundant`
and `bytes` (the local `size`) are kept until the repair has ended, when the node is
freed and `count` and `size` are adjusted.

### How `LinuxTest` corresponds to the code

`phase` is the place in `rbtree_test_init`, `i` and `j` its counters. `Call` is one call of
`insert`, `erase`, `insert_cached` or `erase_cached` in an inner loop, `Inside` a turn of
the called code; loops that only read the tree are single steps. The program's random keys
are a random order of nodes with fixed keys. The augmented half (lines 347-389) repeats
three of the phases on the operations that `LinuxAugmentedCached` has, and is left to that
module.

## What the runs check

| Run | Instance | Properties |
| --- | --- | --- |
| `linux_rbtree` | all call sequences on 7 nodes, up to three with one key; 14 nodes filled in ascending order, then up to 4 erased in any order | `TypeOK`, `LinksAgree`, `RedBlackThroughout`, `NoNullDereference`, `RotationBound`, `ImplementsSortedList`, `Termination` |
| `linux_callers` | 6 nodes, up to three with one key; a walking, changing and freeing caller | `CacheIsFirst`, `ReturnsNewLeftmost`, `NothingPassedBy`, `NeighboursAgree`, `LookupsAgree`, `NoUseAfterFree` |
| `linux_augmented` | 7 nodes, pairs share a key, values that rise and fall along the keys | `AugmentedIsMax`, `AugmentedCacheIsFirst` |
| `ostree` | 7 nodes, pairs share a key | `SizesExact`, `SelectAndRankAgree` |
| `linux_lockless` | all call sequences on 3 nodes, two with one key, beside a reader; 9 nodes filled, then up to 3 erased in any order beside a reader | `NeverALoop`, `OnlyValidElements`, `VisibleCatchesUp`, `ReaderCompletes` |
| `linux_test` | every order of 5 nodes, pairs share a key, 2 rounds per phase | `ChecksPass`, `TestCompletes` |
| `ngx_rbtree` | all call sequences on 6 nodes, by value and by timer, keys 12, 12, 36, 40, 52, 52 modulo 64; 14 nodes filled by value, then up to 3 deleted in any order | `WellLinked`, `RedBlackThroughout`, `TimersInOrder`, `NextAgrees`, `IsSortedList` |
| `libuv_rbtree` | all call sequences on 6 elements, two with one key, on 5 of them inside of loops; 14 elements filled, then up to 2 removed in any order | `WellLinked`, `RedBlackThroughout`, `LookupsAgree`, `HeightBound`, `NothingPassedBy`, `IsSortedSet` |
| `paho_tree` | all call sequences on 6 contents, two equal, either compare function; 14 contents filled, then up to 2 removed in any order | `WellLinked`, `RedBlackThroughout`, `HeapExact`, `WalksAgree`, `IsSortedSet`, `OnlyTheSuccessorMoves` |
| `linux_lockless_plain` | 4 nodes, plain stores not in order | `OnlyValidElements`, **violated** |
| `linux_test_first_cached` | as `linux_test`, 4 nodes, one round | `FetchesTheFirst`, **violated** |

- `ImplementsSortedList` is the refinement: with the in-order walk as the abstract list,
  `Link` is `Add`, `EraseOneChild` and `EraseSuccessor` are `Erase`, `Replace` is
  `Exchange`, and every other step is a stutter. No node is lost or linked twice, and the
  order is kept, in the middle of operations too. `IsSortedList` is the same for nginx.
  `IsSortedSet` has `AddNew` in place of `Add`: libuv and Paho reject an element that
  compares equal. For Paho the list is read backwards under the sign convention of
  `TreeStringCompare`.
- `RedBlackThroughout` joins the red-black properties whenever no loop repairs the tree
  with the loop invariants while one does: which single place of the tree is broken,
  and how. For the Linux tree these are the comments at `rbtree.c:90-92` and `232-238` made
  precise; for the others they say what the code takes for granted, as that what is
  read unchecked is there (for Paho, that the branch `if (!sibling)` of `TreeBARSub` is
  dead code) and that nginx's sentinel stays black.
- `LinksAgree` and `WellLinked` (with the types) compare the pointers up and down after
  every turn, and include where a repair stands: `temp` below `temp->parent` even if it is
  the sentinel (nginx), `elm` below `parent` although both are locals (libuv), the node on
  the stack where a child is missing (Paho).
- `NothingPassedBy` says that a caller that erases while it iterates visits every node
  that stays: `rb_erase` and `RB_REMOVE` move nodes, not contents, so the pointer to the
  next one stays good. In the postorder loop it says that none leaks.
- `OnlyTheSuccessorMoves` is what takes its place for Paho, which does move contents: it
  says which `Node *` of a caller goes stale in `TreeRemove`, the one of the next content
  and no other.
- `NeighboursAgree`, `LookupsAgree`, `WalksAgree` and `NextAgrees` compare the functions
  that read with a reference definition over the in-order list in every reachable tree.
- `CacheIsFirst`, `AugmentedIsMax` and `SizesExact` hold after every turn and not only at
  rest, which is what a callback may rely on.
- `TimersInOrder` measures the time from a timer to one on its right as a difference
  modulo the range, independently of the comparison that the descent makes; the sets
  that `Comparable` admits cross the overflow on either side.
- `NeverALoop` looks at all nodes, those a reader may still stand on after their
  erasure included, after every single store. `OnlyValidElements` takes the set of nodes
  that were in the tree since the lookup began: a reader on an erased node that follows its
  old pointers meets only such nodes, as long as stores stay in order.
- `ReaderCompletes` leaves one exception: stores that go on forever. A reader can be
  carried along by them, on a node that is added again and again; the comment does not
  claim more, since one walk of a structure that stands still is what a missing loop makes
  finite.
- `HeightBound` is `tree.h:46` in integers: 2^height is at most the square of n + 1.
- `ChecksPass` is `check()` itself at each of its calls. It cannot see what is broken only
  inside of an operation; the invariants of `LinuxRbtree` do.

**Bounds.** Trees of up to seven nodes reach every case of both loops and of the straight
code. But in trees of at most nine nodes, whatever the order of calls, the *erasure* loop
never takes a second turn after a color flip: it first does in a tree of ten nodes, and
first meets a red sibling after climbing in one of fourteen. There all call orders are out
of TLC's reach. So the four runs on a plain tree, and `linux_lockless` for nine nodes
with subtrees on all sides of a rotation, have an action constraint (`PlayOrFill` of the MC
module) that lets the caller do one of two things from the empty tree on: call
everything in every order with the few nodes of `Play`; or insert all nodes in ascending
order, which builds the tall tree, and then erase a few (`Erasures`, `Deletions`,
`Removals`) in any order. The constraint binds the caller between operations alone,
never a turn of a loop. The second way ends when the erasures are spent, so these runs do
not check for deadlock; neither do `linux_callers`, which stops when the tree is taken
down, and `linux_test`, whose program ends. `linux_augmented` and `ostree` do.

Keys are shared in all instances: ties decide about the order of descents and about
`rb_find_first`. `KeyRange` 64 stands for the width of an nginx key; only half of the range
and the overflow matter. In `paho_tree` `malloc` returns the lowest free address: the
addresses are all alike, so which one it is makes no difference, but freed memory is used
again at once. In `linux_test` five nodes reach each case of an insertion and, since the
whole tree is erased in every order, most of an erasure. The
seven nodes of `linux_augmented` are enough for each callback of an erasure to run below,
at and above the successor.

**Fairness.** `FairSpec` assumes `WF_vars(Run)`: the thread that is inside an operation of
the Linux tree goes on. There is no fairness on the caller. `Termination` is what the
code must then give: no loop goes round. `LocklessFairSpec` is fair to the reader alone; the
writer may stop anywhere, in the middle of a rotation too. `TestFairSpec` is weak fairness
of a program that is one thread. The runs of the other trees have none; their loop
invariants fix where a repair stands, and each turn of it ends or climbs.

**The violated runs.** Each states what a comment or an output of the repository says.

- `linux_lockless_plain`: `rbtree.c:37` asks for `WRITE_ONCE` in all stores to the
  structure and concludes that a traversal sees only valid elements. `rb_link_node` and
  `rb_replace_node` use plain stores, and their `_rcu` variants are commented out here. If
  the publishing store comes first, a node that is added again is visible with the
  children of its former place.
- `linux_test_first_cached`: `rbtree_test.c:293` fills the tree with the plain `insert`;
  test 4 (line 322) then times `rb_first_cached`, which returns `NULL`.

**Mutants.** Operators whose comment starts with `Mutant:` are plausible mistakes in the
definition below them: a color not stored, a stale parent pointer, a tie that turns left,
a flag that follows the last turn alone. For each property `PROJECT.json` names one that
the property's run refutes. No specification uses them.

## What is proved

For every finite set of nodes and every assignment of integer keys: `FiniteNodes` and
`NodeAssumption` (`NULL` is no node, keys are integers) are all that is assumed of them.

`LinuxRbtreeProof` has what can be said node by node:

| Theorem | Statement |
| --- | --- |
| `TypeCorrect` | `Spec => []TypeOK` |
| `LinksAlwaysAgree` | `Spec => []LinksAgree` |
| `NeverNullDereferenced` | `Spec => []NoNullDereference` |
| `RotationsAreBounded` | `Spec => RotationBound` |
| `RedBlackAgain` | `Spec => []LocallyRedBlack`, the red-black properties node by node |

`LinuxListProof` has what is said of whole paths and of the list of all nodes:

| Theorem | Statement |
| --- | --- |
| `RedBlackAlways` | `Spec => []RedBlackThroughout`: the properties counted along all paths, at rest and with the one broken place of each loop |
| `TreeIsSortedList` | `Spec => ImplementsSortedList`: the refinement of `SortedList` |

The other modules show that what is built on the Linux tree drives it only in ways
that `Spec` allows, so that it inherits these, and then what it adds to them:

| Theorem | Statement |
| --- | --- |
| `CachedImplementsRbtree` | `CachedSpec => Spec` |
| `CachedTreeStaysSound` | `CachedSpec => [](LinksAgree /\ RedBlackThroughout /\ NoNullDereference) /\ RotationBound` |
| `CacheIsTheFirst` | `CachedSpec => []CacheIsFirst` |
| `ReturnsTheLeftmost` | `CachedSpec => ReturnsNewLeftmost` |
| `IterImplementsCached` | `IterSpec => CachedSpec` |
| `NeighboursAlwaysAgree` | `IterSpec => []NeighboursAgree` |
| `NothingIsPassedBy` | `IterSpec => []NothingPassedBy` |
| `FreedMemoryIsNotRead` | `IterSpec => []NoUseAfterFree` |
| `LookupsAlwaysAgree` | `IterSpec => []LookupsAgree` |
| `TestImplementsRbtree` | `TestSpec => Spec`: the phases of `rbtree_test_init` insert no node twice and erase none that is not there |
| `TestNeverWarns` | `TestSpec => [](LinksAgree /\ LocallyRedBlack)`, the local form of what `check()` asserts of pointers and colors |
| `AugmentedImplementsRbtree` | `AugmentedSpec => Spec`, whatever the callbacks are (they are constants) |
| `AugmentedTreeStaysSound` | the same conclusion as for the cached tree |
| `AugmentedCachedImplementsAugmented` | `AugmentedCachedSpec => AugmentedSpec` |
| `AugmentedCacheIsTheFirst` | `AugmentedCachedSpec => []AugmentedCacheIsFirst` |
| `AugmentedMaxCorrect` | `MaxCallbacks` implies `AugmentedCachedSpec => []AugmentedIsMax` |
| `SizesCorrect` | `SizeCallbacks` implies `AugmentedSpec => []SizesExact` |
| `SelectAndRankCorrect` | `SizeCallbacks` implies `AugmentedSpec => []SelectAndRankAgree` |
| `LocklessImplementsRbtree` | `LocklessSpec => Spec`: stores that arrive late, and readers, do not disturb the writer |
| `MemoryCatchesUp` | `LocklessSpec => []VisibleCatchesUp` |
| `LoopsNeverForm` | `PlainInOrder => (LocklessSpec => []NeverALoop)` |
| `ReadersMeetMembers` | `PlainInOrder => (LocklessSpec => []OnlyValidElements)` |

`NgxRbtreeProof` is about the nginx tree. It assumes `FiniteNodes` and `NgxAssumption`:
`NULL` and the sentinel are no nodes, and keys are numbers below `KeyRange`, which may be
any positive number, the 2^32 and 2^64 of the code among them:

| Theorem | Statement |
| --- | --- |
| `AlwaysWellLinked` | `Spec => []WellLinked` |
| `AlwaysRedBlack` | `Spec => []RedBlackThroughout` |
| `TimersStayInOrder` | `Spec => []TimersInOrder` |
| `TreeIsSortedList` | `Spec => IsSortedList`: with `ngx_rbtree_insert_value`, the refinement of `SortedList` |
| `NextAlwaysAgrees` | `Spec => []NextAgrees` |

`LibuvProof` is about the libuv tree. It assumes `FiniteNodes` and `LibuvAssumption`: `NULL`
is no element, and keys are integers:

| Theorem | Statement |
| --- | --- |
| `AlwaysWellLinked` | `Spec => []WellLinked` |
| `AlwaysRedBlack` | `Spec => []RedBlackThroughout` |
| `TreeIsSortedSet` | `Spec => IsSortedSet`: the refinement of `SortedList` without duplicates |

`Spec` lets its caller insert any element and remove any that is in the tree, whenever no
operation is under way; one that is inside of a loop (`LibuvForeach`) changes the tree only
in the step `Body`, by those calls.

The implementations are proved step by step: each action of the upper module is one of
the lower or leaves its variables alone. `TestSpec` needs an invariant of its own, that
the array holds nodes (`ArrayOK`); that a phase never inserts a node twice is the guard
of `Add`, whose liveness side, that the program does not get stuck on it, is
`TestCompletes` in the run.

**The inductive invariant.** None of the node-by-node facts is inductive alone. `TypeOK`
needs that the loops never store through a null pointer, which needs the sibling to exist,
which needs the paths to have their black nodes, which needs the pointers to agree.
`IInv` joins:

- `Links` - `LinksAgree`, and that children are linked nodes other than their parent;
- `Colors` - a red node has a black parent, except the node an insertion works on;
- `Locals` - what each local variable stands for in each loop;
- `Rotations` - an erasure has rotated at most once before its last turn, and then
  below a red parent, so Case 1 does not repeat;
- `\E B : Labels(B)` - there is a labelling of the nodes with black heights that every
  node satisfies against its children, one more below the short side of an erasure.

The labelling takes the place of counting along paths, which is recursive. Each action
lemma gives the new labelling explicitly: an insertion's flip adds one at the
grandparent; an erasure's Case 2 takes one off at the parent and moves the short side up.
A second use of the labels: the rank `2 * B[n] + (1 if red)` goes down along every
child pointer, so no node is below itself. That rules out the aliases (a nephew
that is the grandparent, say) under which the stores of a rotation would collide.

The proof has one lemma per action (`...KeepsIInv`), over lemmas about what each group
of stores does (`RotateStoresStores`, `ChangeChildStores`, `TurnedTree`, `SplicedTree`,
`SwappedTree`) and what the labels say around the place where a loop stands
(`AroundShort`, `RedHeights`, `ShortHeights`).

**From nodes to walks.** `RedBlackThroughout`, the list and the functions that read are
recursive functions with a budget of turns, `Cardinality(Node)` of them (`RBShape`,
`LinuxWalk`). The library's induction theorems take an operator, which no installed
prover can instantiate, so `TreeProof` does without: the least-number principle for a set
of numbers (`LeastNumber`, from `WFMin`) gives induction for a *set* of numbers, and that
every recursive function with a budget satisfies its recursion. An induction over a tree
is then one over heights (`UpwardInduction`, `DownwardInduction`); `LowHeights` says that a
tree with any heights has ones within its number of nodes, so that the budget suffices. The
heights come from the ranks of `IInv`, except inside of an insertion, where its colors do not
decide. What follows is in three parts:

- *shapes*: what a walk over a tree returns after a node is linked, removed, replaced or
  rotated, said of lists (`TreeProof`) and then of the four changes of `LinuxRbtreeProof`.
  A rotation leaves the in-order list as it is;
- *invariants over the list*: `ListInv` adds to `IInv` that the list is sorted (`Ordered`),
  that a descent stands where the new node fits between its neighbours (`Descent`), and
  that the search for a successor is at the left spine of the right subtree (`Search`);
- *loops that read*: where a loop that goes left (or up) ends, in terms of the list.

`CacheInv` adds that `rb_leftmost` heads the list and that the flag of the descent in
`rb_add_cached` is set exactly while nothing stands before the place it has come to; it is
stated over parameters (`CacheAt`), so the augmented tree shares it. `LoopInv` says that
what a walking caller has not visited is ahead of its cursor in the list, whatever it
erases and adds in between; `TeardownInv` that in the postorder loop everything that remains
is at or after the cursor, with all that it can reach.

**Lookups.** `rb_find` and `rb_find_first` go left and right by the order of keys, and what
they carry along depends on the whole way down. `ListInv` says that the list is sorted, so
the list below every node is (`OrderedBelow`), and the part of it on the side where a search
does not go has no node with the key. What is right after `b` turns is then shown for a
node from its children with `b - 1` turns (`WithinBudget`). The nodes with one key are a run
of the list (`KeyIsRun`): `rb_next_match` walks it from the first one to its end.

**Values of the augmented tree.** The callbacks are constants of `LinuxAugmented`, so what
they must do is a hypothesis, `Callbacks`: `Compute` depends on the values of the children
only, `OnPath` is `Compute` once the new node counts, and `Rotated` leaves both nodes of a
rotation with the value of `Compute`. `AugInv` says that every linked node has the value
computed from its children, except at `parent` in a descent, which has already counted the
new node while nothing below it has. Of a leaf, a copy, a rotation and each
level of `propagate` a lemma shows what it does to the nodes around it. `MaxCallbacks` and
`SizeCallbacks` say that the constants are the callbacks of `RB_DECLARE_CALLBACKS_MAX` and of
`ostree.h`, which is how the configurations of `linux_augmented` and `ostree` substitute
them; each implies `Callbacks` (`MaxIsCallbacks`, `SizeIsCallbacks`). An induction over the
tree leads from the children's values to the nodes below (`ValuesAreMaxima`,
`ValuesAreSizes`). With exact sizes, `ostree_select` goes to the place it looks for
(`SelectFinds`), and `ostree_rank`, which climbs, has at each level counted what stands
before the subtree it has come from (`RankIsPlace`).

**Between the stores of a turn.** `LinuxLockless` lets the stores of a turn arrive one by
one. `CatchUp` says that those still under way *lead* (`Leads`) from the memory the reader
sees to the tree of the writer, and that the memory is `Safe` before and after each of them:
there is a set `T` of nodes, closed under the visible pointers and with heights that go down
along them, that the visible root is in, that has every node of the tree but those that the
turn is about to publish, and of others only nodes that a walk from the visible root meets.
Nodes outside of `T` - erased and not added again - have heights of their own. Two heights
in one give one for all nodes, which is `NeverALoop`; `T` is what a reader can still reach,
which, with the fact that a new node becomes visible with the *last* store of its turn
(`Brings`), is `OnlyValidElements`. One lemma per kind of turn (`...Arrives`) follows its
stores: in the first store of a rotation the node that goes down lets go of the one that
comes up, after which that one may be given a height above it; a successor is lifted in
the same way, by three stores, to a height right below that of the node it replaces. With
the two stores of a rotation in the other order there is no such height, as the mutant of
`NeverALoop` shows. Both theorems assume `PlainInOrder`, which is what the code needs (see
`LinuxLockless` above); `MemoryCatchesUp` does not.

**The nginx tree.** `TreeInv` says of the memory what `IInv` does for Linux, but of the
shape first: it is `Planted`, that is, a tree (`Grown`, in `TreeProof`) whose nodes are those
that are not cleared, whose leaves are the sentinel, and whose root has a parent that nobody
may look at - after a deletion it is stale, as `ngx_rbtree_delete` does not reset it. `Colors`
labels the nodes with black heights as above, with one more on the side of `temp`, and
lets one node be red below a red one. Each step is then one of four changes of shape, and
`TreeProof` knows of each what it does to the tree, the list and the labels: a leaf is put
below a node; two nodes turn; a node with at most one child is cut out; a node that has been
cut out takes the place of another. A deletion of a node with two children is the last two
in this order, with the successor, and the memory of the code, which writes through the
sentinel when it is `temp`, is shown to be theirs. Since `temp` may be the one sentinel that
stands for all leaves, where it hangs is known only from `temp->parent`, which each rotation
of the repair has to leave right (`Locals`).

`ListInv` adds that the nodes in the tree have the key that their caller gave them, and that
the list is a chain (`Chained`) of the relation `Stays`: no later node is *before* an
earlier one in the sense of the tree's insert function. A descent stands where its node
belongs between what is before it and what is not (`Belongs`). By value this is the order of
the numbers. By timer it is the sign of a difference modulo `KeyRange`, an order only among
nodes that are `Comparable`, which is what the code demands of its callers and the guard of
an insertion here; of two different keys at least one is before the other whatever `KeyRange`
is (`OneIsBefore`). The loop of `ngx_rbtree_next` tests for the root and for a left child
instead of for a null parent; `ClimbHere` shows that it arrives where the climb of
`TreeProof` does.

**The libuv tree.** Its argument has the same parts, over the same lemmas of `TreeProof`:
`TreeInv` with `Planted`, `Locals` and `Colors`, and `ListInv` with the list as a chain of
`Stays`, which is `<` on keys here. Three things differ. Leaves are `NULL`, so where a
removal repairs is known from the locals `parent` and `elm` alone, and `Locals` says that
`elm` hangs below `parent` although `RB_REMOVE` reads both before or after it moves the
successor. The parent of the root is `NULL` at every turn. And `RB_INSERT` may be
given an element whose key, or which itself, is in the tree: that it links none twice is not a
guard of the caller but the outcome of its descent. The last comparison alone does not say
so; `ListInv` therefore carries through the descent that the new element belongs (`Leads`)
into the list below `parent`, both after the elements with a smaller key and after those
with a key that is not larger. When the descent comes to `NULL`, the two places are one, so
no element of the tree has that key.

**Only model-checked.** Liveness: `Termination`, `TestCompletes`, `ReaderCompletes`. Of the
safety properties about the Linux tree, the part of `ChecksPass` that counts paths and
compares keys (its pointers and colors are `TestNeverWarns`): it bounds the number of nodes
by a power of two, whose laws the provers do not have.

## What is not modelled, and why

- Memory order beyond the choice of `PlainInOrder`, and the freeing of nodes under a
  reader: the repository has no RCU to bound either.
- Widths: nothing in the Linux, libuv and Paho trees computes with keys; the `uint32_t`
  sizes and ranks of `ostree.h` cannot overflow with fewer than 2^32 nodes.
- `rb_leftmost` of an order-statistic tree: its type is `rb_root_cached`, but no function of
  `ostree.h` stores to the field, which keeps its `NULL`, and nothing in the repository
  reads it.
- `RB_AUGMENT` of libuv, which the header leaves empty.
- An allocation that fails in Paho: the result of `malloc` is used unchecked, and there is
  no state after that to speak of. `TreeFree` frees the struct alone; a caller empties the
  tree first.
- The timers of `rbtree_test.c`: `DIFF_NS` (line 24) scales seconds by `10e6`, which is 10^7,
  and the result is printed as nanoseconds. That is visible in the expression itself and no
  state of a tree depends on it. The augmented half of the program (347-389) repeats
  phases on operations that `LinuxAugmentedCached` has.
- The small test programs of the other trees, which insert, walk and remove once: a path
  of the runs on all call sequences. Makefiles and documentation have no behaviour.

## Plan

All parts of the repository that have state are modelled, and the Linux tree, what is built
on it, the nginx tree and the libuv tree are proved sound. What is left to prove, in this
order:

1. Types, pointer agreement and the red-black properties of `PahoTree`, after the example of
   `LibuvProof`. The lemmas of `TreeProof` about shapes, colors and chains speak of no
   program. What is new there is that a removal moves contents and not nodes.
2. The functions of libuv that read, after the example of `LookupsAgree` for Linux.
3. The rest of `ChecksPass`.
