------------------------- MODULE LinuxLocklessProof -------------------------
(***************************************************************************)
(* Lookups without a lock, beside a writer in a tree of any size: stores   *)
(* that become visible one by one amount to the turn of the writer they    *)
(* belong to, no store makes a loop, and a reader meets only nodes that    *)
(* were in the tree since it began.                                        *)
(***************************************************************************)
EXTENDS LinuxLockless, LinuxListProof

\* A turn of the writer is a turn of the tree, and no store and no reader changes it.
LEMMA LocklessStep == [LocklessNext]_locklessVars => [Next]_vars
<1> SUFFICES ASSUME [LocklessNext]_locklessVars PROVE [Next]_vars
  OBVIOUS
<1>1. CASE WriterTurn
  <2>1. CASE SilentTurn
    BY <2>1 DEF SilentTurn, Next, Caller, Run
  <2>2. CASE Link \/ InsertRotate \/ EraseSuccessor \/ EraseRedSibling \/ EraseRotate
    BY <2>2 DEF Next, Run
  <2>3. CASE \E n, m \in Node : EraseOneChild(n) \/ Replace(n, m)
    BY <2>3 DEF Next, Caller
  <2>4. QED
    BY <1>1, <2>1, <2>2, <2>3 DEF WriterTurn
<1>2. CASE Visible \/ ReadChild \/ ReadDone \/ UNCHANGED locklessVars
  BY <1>2 DEF Visible, ReadChild, ReadDone, locklessVars
<1>3. ASSUME NEW k \in Keys, Lookup(k) PROVE UNCHANGED vars
  BY <1>3 DEF Lookup
<1>4. QED
  BY <1>1, <1>2, <1>3 DEF LocklessNext

\* Readers that come and go, and stores that become visible one by one, leave the
\* writer in the states of LinuxRbtree.
THEOREM LocklessImplementsRbtree == LocklessSpec => Spec
<1>1. LocklessInit => Init
  BY DEF LocklessInit
<1>2. QED
  BY <1>1, LocklessStep, PTL DEF LocklessSpec, Spec

-----------------------------------------------------------------------------
(* The memory without a loop.  The nodes of T are as in a tree, with a height *)
(* h that goes down along their pointers; those outside of it, erased and not *)
(* added again, lead into T or, by a height k of their own, to one another.   *)

Outside(ch, T, k) ==
  \A n \in Node \ T, d \in Side : ch[n][d] \notin T \cup {NULL} => k[ch[n][d]] < k[n]

Sound(ch, T) ==
  /\ \E h \in [T -> Nat] : Below(ch, T, NULL, h)
  /\ \E k \in [Node -> Nat] : Outside(ch, T, k)

\* What holds of the memory that a reader finds while the nodes of new are in the tree
\* tr but not yet visible: what it can reach are nodes of the tree, or nodes that a walk
\* from the root still meets.
Safe(r, ch, tr, new) ==
  \E T \in SUBSET Node :
    /\ Sound(ch, T)
    /\ r \in T \cup {NULL}
    /\ tr \ new \subseteq T
    /\ T \subseteq tr \cup Elements(InOrder(ch, r))

-----------------------------------------------------------------------------
(* Sequences of stores. *)

StoreTo(tr) == [of : NodeOrNil, side : Side, to : tr \cup {NULL}]

\* The memory after a store, the child pointers and the root.
Stored(ch, s) == IF s.of = NULL THEN ch ELSE [ch EXCEPT ![s.of][s.side] = s.to]
StoredRoot(r, s) == IF s.of = NULL THEN s.to ELSE r

\* The stores of seq, to nodes of tr, lead from r, ch to r2, ch2, and the memory is
\* safe after each of them if none is out of place.
Leads(seq, tr, new, r, ch, r2, ch2) ==
  /\ seq \in Seq(StoreTo(tr))
  /\ \E rs \in [0..Len(seq) -> NodeOrNil], ms \in [0..Len(seq) -> Children] :
       /\ rs[0] = r /\ ms[0] = ch
       /\ rs[Len(seq)] = r2 /\ ms[Len(seq)] = ch2
       /\ \A i \in 1..Len(seq) :
            rs[i] = StoredRoot(rs[i - 1], seq[i]) /\ ms[i] = Stored(ms[i - 1], seq[i])
       /\ PlainInOrder => \A i \in 0..Len(seq) : Safe(rs[i], ms[i], tr, new)

\* One store changes one pointer.
LEMMA StoredTypes ==
  ASSUME NEW tr \in SUBSET Node, NEW s \in StoreTo(tr), NEW ch \in Children
  PROVE  /\ \A r \in NodeOrNil : StoredRoot(r, s) \in NodeOrNil
         /\ Stored(ch, s) \in Children
         /\ \A n \in Node, d \in Side :
              Stored(ch, s)[n][d] = IF n = s.of /\ d = s.side THEN s.to ELSE ch[n][d]
<1> USE NodeAssumption
<1>1. s.to \in NodeOrNil /\ s.of \in NodeOrNil /\ s.side \in Side
  BY DEF StoreTo, NodeOrNil
<1>2. CASE s.of = NULL
  BY <1>1, <1>2 DEF Stored, StoredRoot, Children
<1>3. CASE s.of \in Node
  BY <1>1, <1>3 DEF Stored, StoredRoot, Children
<1>4. QED
  BY <1>1, <1>2, <1>3 DEF NodeOrNil

\* The memories between the stores, one more than there are stores.
LEMMA LeadsBy ==
  ASSUME NEW tr, NEW new, NEW seq \in Seq(StoreTo(tr)), NEW N \in Nat, Len(seq) = N,
         NEW rs \in [0..N -> NodeOrNil], NEW ms \in [0..N -> Children],
         \A i \in 1..N :
           rs[i] = StoredRoot(rs[i - 1], seq[i]) /\ ms[i] = Stored(ms[i - 1], seq[i]),
         PlainInOrder => \A i \in 0..N : Safe(rs[i], ms[i], tr, new)
  PROVE  Leads(seq, tr, new, rs[0], ms[0], rs[N], ms[N])
BY DEF Leads

\* No stores lead nowhere ...
LEMMA LeadsNowhere ==
  ASSUME NEW tr \in SUBSET Node, NEW new, NEW r \in NodeOrNil, NEW ch \in Children,
         PlainInOrder => Safe(r, ch, tr, new)
  PROVE  Leads(<<>>, tr, new, r, ch, r, ch)
<1> DEFINE rs == [i \in 0..0 |-> r]
           ms == [i \in 0..0 |-> ch]
<1>1. <<>> \in Seq(StoreTo(tr)) /\ Len(<<>>) = 0
  OBVIOUS
<1>3. rs[0] = r /\ ms[0] = ch
  OBVIOUS
<1>4. \A i \in 0..0 : rs[i] = r /\ ms[i] = ch
  OBVIOUS
<1>5. \A i \in 1..0 : FALSE
  OBVIOUS
<1>6. rs \in [0..0 -> NodeOrNil] /\ ms \in [0..0 -> Children]
  OBVIOUS
<1> HIDE DEF rs, ms
<1>7. PICK seq \in Seq(StoreTo(tr)) : seq = <<>> /\ Len(seq) = 0
  BY <1>1
<1>8. Leads(seq, tr, new, rs[0], ms[0], rs[0], ms[0])
  BY <1>4, <1>5, <1>6, <1>7, LeadsBy
<1>9. QED
  BY <1>3, <1>7, <1>8

\* ... and change nothing ...
LEMMA NowhereLeads ==
  ASSUME NEW tr, NEW new, NEW r, NEW ch, NEW r2, NEW ch2, Leads(<<>>, tr, new, r, ch, r2, ch2)
  PROVE  r = r2 /\ ch = ch2
BY DEF Leads

\* ... one more store leads to one more memory ...
LEMMA LeadsOn ==
  ASSUME NEW tr \in SUBSET Node, NEW new, NEW seq, NEW r, NEW ch, NEW r2, NEW ch2,
         Leads(seq, tr, new, r, ch, r2, ch2), NEW s \in StoreTo(tr),
         PlainInOrder => Safe(StoredRoot(r2, s), Stored(ch2, s), tr, new)
  PROVE  Leads(Append(seq, s), tr, new, r, ch, StoredRoot(r2, s), Stored(ch2, s))
<1>1. PICK rs \in [0..Len(seq) -> NodeOrNil], ms \in [0..Len(seq) -> Children] :
        /\ rs[0] = r /\ ms[0] = ch
        /\ rs[Len(seq)] = r2 /\ ms[Len(seq)] = ch2
        /\ \A i \in 1..Len(seq) :
             rs[i] = StoredRoot(rs[i - 1], seq[i]) /\ ms[i] = Stored(ms[i - 1], seq[i])
        /\ PlainInOrder => \A i \in 0..Len(seq) : Safe(rs[i], ms[i], tr, new)
  BY DEF Leads
<1>2. PICK N \in Nat : N = Len(seq)
  BY DEF Leads
<1>3. PICK all \in Seq(StoreTo(tr)) : all = Append(seq, s)
  <2>1. seq \in Seq(StoreTo(tr))
    BY DEF Leads
  <2>2. Append(seq, s) \in Seq(StoreTo(tr))
    BY <2>1, AppendProperties
  <2>3. QED
    BY <2>2
<1>4. Len(all) = N + 1 /\ all[N + 1] = s /\ \A i \in 1..N : all[i] = seq[i]
  BY <1>2, <1>3 DEF Leads
<1>5. PICK r3, ch3 : r3 = StoredRoot(r2, s) /\ ch3 = Stored(ch2, s)
  OBVIOUS
<1>6. r3 \in NodeOrNil /\ ch3 \in Children
  <2>1. N \in 0..N
    BY <1>2
  <2>2. r2 \in NodeOrNil /\ ch2 \in Children
    BY <1>1, <1>2, <2>1
  <2>3. QED
    BY <1>5, <2>2, StoredTypes
<1> DEFINE rs2 == [i \in 0..(N + 1) |-> IF i = N + 1 THEN r3 ELSE rs[i]]
           ms2 == [i \in 0..(N + 1) |-> IF i = N + 1 THEN ch3 ELSE ms[i]]
<1>7. /\ rs2 \in [0..(N + 1) -> NodeOrNil] /\ ms2 \in [0..(N + 1) -> Children]
      /\ rs2[N + 1] = r3 /\ ms2[N + 1] = ch3
      /\ \A i \in 0..N : rs2[i] = rs[i] /\ ms2[i] = ms[i]
  BY <1>1, <1>2, <1>6
<1> HIDE DEF rs2, ms2
<1>8. rs2[0] = r /\ ms2[0] = ch
  BY <1>1, <1>2, <1>7
<1>9. ASSUME NEW i \in 1..(N + 1)
      PROVE  rs2[i] = StoredRoot(rs2[i - 1], all[i]) /\ ms2[i] = Stored(ms2[i - 1], all[i])
  <2>1. CASE i = N + 1
    <3>1. i - 1 = N /\ N \in 0..N
      BY <1>2, <2>1
    <3>2. rs2[i - 1] = r2 /\ ms2[i - 1] = ch2
      BY <1>1, <1>2, <1>7, <3>1
    <3>3. QED
      BY <1>4, <1>5, <1>7, <2>1, <3>2
  <2>2. CASE i # N + 1
    <3>1. i \in 1..N /\ i \in 0..N /\ i - 1 \in 0..N
      BY <1>2, <2>2
    <3>2. QED
      BY <1>1, <1>2, <1>4, <1>7, <3>1
  <2>3. QED
    BY <2>1, <2>2
<1>10. ASSUME PlainInOrder, NEW i \in 0..(N + 1) PROVE Safe(rs2[i], ms2[i], tr, new)
  <2>1. CASE i = N + 1
    BY <1>5, <1>7, <1>10, <2>1
  <2>2. CASE i # N + 1
    <3>1. i \in 0..N
      BY <1>2, <2>2
    <3>2. QED
      BY <1>1, <1>2, <1>7, <1>10, <3>1
  <2>3. QED
    BY <2>1, <2>2
<1>11. Leads(all, tr, new, rs2[0], ms2[0], rs2[N + 1], ms2[N + 1])
  <2>1. PICK M \in Nat : M = N + 1
    OBVIOUS
  <2>2. QED
    BY <1>4, <1>7, <1>9, <1>10, <2>1, LeadsBy
<1>12. QED
  BY <1>3, <1>5, <1>7, <1>8, <1>11

\* ... and when the first store has been made, the others lead to where all would.
LEMMA LeadsAfter ==
  ASSUME NEW tr \in SUBSET Node, NEW new, NEW seq, seq # <<>>, NEW r, NEW ch, NEW r2, NEW ch2,
         Leads(seq, tr, new, r, ch, r2, ch2)
  PROVE  /\ Head(seq) \in StoreTo(tr)
         /\ Leads(Tail(seq), tr, new, StoredRoot(r, Head(seq)), Stored(ch, Head(seq)), r2, ch2)
<1>1. PICK rs \in [0..Len(seq) -> NodeOrNil], ms \in [0..Len(seq) -> Children] :
        /\ rs[0] = r /\ ms[0] = ch
        /\ rs[Len(seq)] = r2 /\ ms[Len(seq)] = ch2
        /\ \A i \in 1..Len(seq) :
             rs[i] = StoredRoot(rs[i - 1], seq[i]) /\ ms[i] = Stored(ms[i - 1], seq[i])
        /\ PlainInOrder => \A i \in 0..Len(seq) : Safe(rs[i], ms[i], tr, new)
  BY DEF Leads
<1>2. PICK N \in Nat : Len(seq) = N + 1
  <2>1. Len(seq) \in Nat /\ Len(seq) # 0
    BY DEF Leads
  <2>2. Len(seq) - 1 \in Nat
    BY <2>1
  <2>3. QED
    BY <2>1, <2>2
<1>3. PICK rest \in Seq(StoreTo(tr)) : rest = Tail(seq)
  BY DEF Leads
<1>4. /\ Len(rest) = N /\ \A i \in 1..N : rest[i] = seq[i + 1]
      /\ Head(seq) = seq[1] /\ Head(seq) \in StoreTo(tr)
  BY <1>2, <1>3 DEF Leads
<1> DEFINE rs2 == [i \in 0..N |-> rs[i + 1]]
           ms2 == [i \in 0..N |-> ms[i + 1]]
<1>5. \A i \in 0..N : i + 1 \in 0..(N + 1) /\ i + 1 \in 1..(N + 1)
  BY <1>2
<1>6. /\ rs2 \in [0..N -> NodeOrNil] /\ ms2 \in [0..N -> Children]
      /\ \A i \in 0..N : rs2[i] = rs[i + 1] /\ ms2[i] = ms[i + 1]
  BY <1>1, <1>2, <1>5
<1> HIDE DEF rs2, ms2
<1>7. rs2[0] = StoredRoot(r, Head(seq)) /\ ms2[0] = Stored(ch, Head(seq))
  <2>1. 0 \in 0..N /\ 1 \in 1..(N + 1)
    BY <1>2
  <2>2. rs2[0] = rs[1] /\ ms2[0] = ms[1]
    BY <1>6, <2>1
  <2>3. rs[1] = StoredRoot(rs[1 - 1], seq[1]) /\ ms[1] = Stored(ms[1 - 1], seq[1])
    BY <1>1, <1>2, <2>1
  <2>4. QED
    BY <1>1, <1>4, <2>2, <2>3
<1>8. rs2[N] = r2 /\ ms2[N] = ch2
  <2>1. N \in 0..N
    BY <1>2
  <2>2. QED
    BY <1>1, <1>2, <1>6, <2>1
<1>9. ASSUME NEW i \in 1..N
      PROVE  rs2[i] = StoredRoot(rs2[i - 1], rest[i]) /\ ms2[i] = Stored(ms2[i - 1], rest[i])
  <2>1. i \in 0..N /\ i - 1 \in 0..N /\ (i - 1) + 1 = i /\ i + 1 \in 1..(N + 1) /\ (i + 1) - 1 = i
    BY <1>2
  <2>2. rs2[i] = rs[i + 1] /\ ms2[i] = ms[i + 1] /\ rs2[i - 1] = rs[i] /\ ms2[i - 1] = ms[i]
    BY <1>6, <2>1
  <2>3. rs[i + 1] = StoredRoot(rs[i], seq[i + 1]) /\ ms[i + 1] = Stored(ms[i], seq[i + 1])
    BY <1>1, <1>2, <2>1
  <2>4. QED
    BY <1>4, <2>2, <2>3
<1>10. ASSUME PlainInOrder, NEW i \in 0..N PROVE Safe(rs2[i], ms2[i], tr, new)
  BY <1>1, <1>2, <1>5, <1>6, <1>10
<1>11. Leads(rest, tr, new, rs2[0], ms2[0], rs2[N], ms2[N])
  BY <1>4, <1>6, <1>9, <1>10, LeadsBy
<1>12. QED
  BY <1>3, <1>4, <1>7, <1>8, <1>11

-----------------------------------------------------------------------------
(* How single stores move the heights. *)

\* A store to a node of the tree, of a node further down ...
LEMMA StoreDown ==
  ASSUME NEW tr \in SUBSET Node, NEW s \in StoreTo(tr), NEW ch \in Children,
         NEW T \in SUBSET Node, NEW h, Below(ch, T, NULL, h),
         s.of \in T \cup {NULL}, s.to \in T \cup {NULL},
         s.of # NULL /\ s.to # NULL => h[s.to] < h[s.of]
  PROVE  /\ Below(Stored(ch, s), T, NULL, h)
         /\ \A k : Outside(ch, T, k) => Outside(Stored(ch, s), T, k)
<1> USE NodeAssumption
<1>1. \A n \in Node, d \in Side :
        Stored(ch, s)[n][d] = IF n = s.of /\ d = s.side THEN s.to ELSE ch[n][d]
  BY StoredTypes
<1>2. PICK ch2 : ch2 = Stored(ch, s)
  OBVIOUS
<1>3. Below(ch2, T, NULL, h)
  BY <1>1, <1>2, SidesAgree DEF Below
<1>4. \A k : Outside(ch, T, k) => Outside(ch2, T, k)
  BY <1>1, <1>2 DEF Outside
<1>5. QED
  BY <1>2, <1>3, <1>4

\* ... and one to a node outside, of a node of the tree.
LEMMA StoreAside ==
  ASSUME NEW tr \in SUBSET Node, NEW s \in StoreTo(tr), NEW ch \in Children,
         NEW T \in SUBSET Node, NEW h, Below(ch, T, NULL, h),
         s.of \in Node \ T, s.to \in T \cup {NULL}
  PROVE  /\ Below(Stored(ch, s), T, NULL, h)
         /\ \A k : Outside(ch, T, k) => Outside(Stored(ch, s), T, k)
<1> USE NodeAssumption
<1>1. \A n \in Node, d \in Side :
        Stored(ch, s)[n][d] = IF n = s.of /\ d = s.side THEN s.to ELSE ch[n][d]
  BY StoredTypes
<1>2. PICK ch2 : ch2 = Stored(ch, s)
  OBVIOUS
<1>3. Below(ch2, T, NULL, h)
  BY <1>1, <1>2, SidesAgree DEF Below
<1>4. \A k : Outside(ch, T, k) => Outside(ch2, T, k)
  BY <1>1, <1>2 DEF Outside
<1>5. QED
  BY <1>2, <1>3, <1>4

\* A node gets a height of its own between those of the others.
Placed(h, T, n, v) == [m \in T |-> IF m = n THEN v ELSE 2 * h[m]]

\* They are heights again.
LEMMA PlacedBelow ==
  ASSUME NEW ch, NEW T, NEW h \in [T -> Nat], Below(ch, T, NULL, h),
         NEW n \in T, NEW v \in Nat,
         \A d \in Side : ch[n][d] # NULL => 2 * h[ch[n][d]] < v,
         \A m \in T, d \in Side : ch[m][d] = n => v < 2 * h[m]
  PROVE  /\ Placed(h, T, n, v) \in [T -> Nat]
         /\ \A m \in T : Placed(h, T, n, v)[m] = IF m = n THEN v ELSE 2 * h[m]
         /\ Below(ch, T, NULL, Placed(h, T, n, v))
<1>1. PICK g : g = Placed(h, T, n, v)
  OBVIOUS
<1>2. g \in [T -> Nat] /\ \A m \in T : g[m] = IF m = n THEN v ELSE 2 * h[m]
  BY <1>1 DEF Placed
<1>3. ASSUME NEW m \in T, NEW d \in Side, ch[m][d] # NULL
      PROVE  ch[m][d] \in T /\ g[ch[m][d]] < g[m]
  <2>1. PICK c : c = ch[m][d]
    OBVIOUS
  <2>2. c \in T /\ h[c] < h[m] /\ h[c] \in Nat /\ h[m] \in Nat
    BY <1>3, <2>1, SidesAgree DEF Below
  <2>3. CASE m = n
    <3>1. c # n
      BY <2>2, <2>3
    <3>2. 2 * h[c] < v
      BY <1>3, <2>1, <2>3
    <3>3. QED
      BY <1>2, <2>1, <2>2, <2>3, <3>1, <3>2
  <2>4. CASE c = n
    <3>1. m # n
      BY <2>2, <2>4
    <3>2. v < 2 * h[m]
      BY <2>1, <2>4
    <3>3. QED
      BY <1>2, <2>1, <2>4, <3>1, <3>2
  <2>5. CASE m # n /\ c # n
    BY <1>2, <2>1, <2>2, <2>5
  <2>6. QED
    BY <2>3, <2>4, <2>5
<1>4. Below(ch, T, NULL, g)
  BY <1>3, SidesAgree DEF Below
<1>5. QED
  BY <1>1, <1>2, <1>4

\* A node that no other one points to leaves the tree.
LEMMA LeavesTree ==
  ASSUME NEW ch \in Children, NEW T \in SUBSET Node, NEW h \in [T -> Nat], Below(ch, T, NULL, h),
         NEW k \in [Node -> Nat], Outside(ch, T, k),
         NEW e \in T, \A n \in T, d \in Side : ch[n][d] # e
  PROVE  \E k2 \in [Node -> Nat] : Outside(ch, T \ {e}, k2)
<1> DEFINE k2 == [n \in Node |-> IF n = e THEN 0 ELSE k[n] + 1]
<1>1. k2 \in [Node -> Nat]
  OBVIOUS
<1>2. ASSUME NEW n \in Node \ (T \ {e}), NEW d \in Side, ch[n][d] \notin (T \ {e}) \cup {NULL}
      PROVE  k2[ch[n][d]] < k2[n]
  <2>1. PICK c : c = ch[n][d]
    OBVIOUS
  <2>2. CASE n = e
    <3>1. c # NULL => c \in T
      BY <2>1, <2>2, SidesAgree DEF Below
    <3>2. QED
      BY <1>2, <2>1, <2>2, <3>1
  <2>3. CASE n # e
    <3>1. n \in Node \ T
      BY <2>3
    <3>2. CASE c = e
      BY <2>1, <2>3, <3>2
    <3>3. CASE c # e
      <4>1. c \notin T \cup {NULL}
        BY <1>2, <2>1, <3>3
      <4>2. k[c] < k[n]
        BY <2>1, <3>1, <4>1 DEF Outside
      <4>3. c \in Node /\ k[c] \in Nat /\ k[n] \in Nat
        BY <2>1, <4>1 DEF Children, NodeOrNil
      <4>4. k2[c] = k[c] + 1 /\ k2[n] = k[n] + 1
        BY <2>3, <3>3, <4>3
      <4>5. QED
        BY <2>1, <4>2, <4>3, <4>4
    <3>4. QED
      BY <3>2, <3>3
  <2>4. QED
    BY <2>2, <2>3
<1> HIDE DEF k2
<1>3. Outside(ch, T \ {e}, k2)
  BY <1>2 DEF Outside
<1>4. QED
  BY <1>1, <1>3

\* Where the stores of seq have led: to a root and children that are as in a tree.
Stands(tr, new, T, seq, r0, ch0, r, ch, h) ==
  /\ Leads(seq, tr, new, r0, ch0, r, ch)
  /\ r \in T \cup {NULL} /\ ch \in Children
  /\ h \in [T -> Nat] /\ Below(ch, T, NULL, h)
  /\ \E k \in [Node -> Nat] : Outside(ch, T, k)

\* What makes such a memory safe.
LEMMA SafeWhere ==
  ASSUME NEW tr, NEW new, NEW T \in SUBSET Node, NEW r \in T \cup {NULL}, NEW ch,
         NEW h \in [T -> Nat], Below(ch, T, NULL, h),
         NEW k \in [Node -> Nat], Outside(ch, T, k),
         tr \ new \subseteq T, T \subseteq tr \cup Elements(InOrder(ch, r))
  PROVE  Safe(r, ch, tr, new)
BY DEF Safe, Sound

\* One more store, down in the tree or aside of it.
LEMMA StandsAfter ==
  ASSUME NEW tr \in SUBSET Node, NEW new, NEW T \in SUBSET Node, NEW seq, NEW r0, NEW ch0,
         NEW r, NEW ch, NEW h, Stands(tr, new, T, seq, r0, ch0, r, ch, h),
         NEW s \in StoreTo(tr), s.to \in T \cup {NULL},
         \/ s.of \in T \cup {NULL} /\ (s.of # NULL /\ s.to # NULL => h[s.to] < h[s.of])
         \/ s.of \in Node \ T,
         NEW r3, r3 = StoredRoot(r, s), NEW ch3, ch3 = Stored(ch, s),
         tr \ new \subseteq T, T \subseteq tr \cup Elements(InOrder(ch3, r3))
  PROVE  Stands(tr, new, T, Append(seq, s), r0, ch0, r3, ch3, h)
<1> USE NodeAssumption
<1>1. /\ Leads(seq, tr, new, r0, ch0, r, ch)
      /\ r \in T \cup {NULL} /\ ch \in Children
      /\ h \in [T -> Nat] /\ Below(ch, T, NULL, h)
  BY DEF Stands
<1>2. PICK k \in [Node -> Nat] : Outside(ch, T, k)
  BY DEF Stands
<1>3. Below(Stored(ch, s), T, NULL, h) /\ Outside(Stored(ch, s), T, k)
  <2>1. CASE s.of \in T \cup {NULL} /\ (s.of # NULL /\ s.to # NULL => h[s.to] < h[s.of])
    BY <1>1, <1>2, <2>1, StoreDown
  <2>2. CASE s.of \in Node \ T
    BY <1>1, <1>2, <2>2, StoreAside
  <2>3. QED
    BY <2>1, <2>2
<1>4. r3 \in T \cup {NULL}
  BY <1>1 DEF StoredRoot
<1>5. ch3 \in Children
  BY <1>1, StoredTypes
<1>6. Safe(StoredRoot(r, s), Stored(ch, s), tr, new)
  <2>1. Below(ch3, T, NULL, h) /\ Outside(ch3, T, k)
    BY <1>3
  <2>2. Safe(r3, ch3, tr, new)
    BY <1>1, <1>4, <2>1, SafeWhere
  <2>3. QED
    BY <2>2
<1>7. Leads(Append(seq, s), tr, new, r0, ch0, StoredRoot(r, s), Stored(ch, s))
  BY <1>1, <1>6, LeadsOn
<1>8. QED
  BY <1>1, <1>2, <1>3, <1>4, <1>5, <1>7 DEF Stands

\* The same without any node that comes or goes.
LEMMA StandsOn ==
  ASSUME NEW tr \in SUBSET Node, NEW seq, NEW r0, NEW ch0,
         NEW r, NEW ch, NEW h, Stands(tr, {}, tr, seq, r0, ch0, r, ch, h),
         NEW s \in StoreTo(tr), s.of \in tr \cup {NULL},
         s.of # NULL /\ s.to # NULL => h[s.to] < h[s.of],
         NEW r3, r3 = StoredRoot(r, s), NEW ch3, ch3 = Stored(ch, s)
  PROVE  Stands(tr, {}, tr, Append(seq, s), r0, ch0, r3, ch3, h)
<1>1. s.to \in tr \cup {NULL}
  BY DEF StoreTo
<1>2. QED
  BY <1>1, StandsAfter

\* The heights may be read anew, with a node at a height where its neighbours let it be.
HasRoom(ch, T, h, n, v) ==
  /\ \A d \in Side : ch[n][d] # NULL => 2 * h[ch[n][d]] < v
  /\ \A m \in T, d \in Side : ch[m][d] = n => v < 2 * h[m]

\* ... and the memory stands with them.
LEMMA StandsAnew ==
  ASSUME NEW tr, NEW new, NEW T, NEW seq, NEW r0, NEW ch0,
         NEW r, NEW ch, NEW h, Stands(tr, new, T, seq, r0, ch0, r, ch, h),
         NEW n \in T, NEW v \in Nat, HasRoom(ch, T, h, n, v)
  PROVE  /\ Stands(tr, new, T, seq, r0, ch0, r, ch, Placed(h, T, n, v))
         /\ \A m \in T : Placed(h, T, n, v)[m] = IF m = n THEN v ELSE 2 * h[m]
<1>1. /\ Leads(seq, tr, new, r0, ch0, r, ch)
      /\ r \in T \cup {NULL} /\ ch \in Children
      /\ h \in [T -> Nat] /\ Below(ch, T, NULL, h)
      /\ \E k \in [Node -> Nat] : Outside(ch, T, k)
  BY DEF Stands
<1>2. /\ \A d \in Side : ch[n][d] # NULL => 2 * h[ch[n][d]] < v
      /\ \A m \in T, d \in Side : ch[m][d] = n => v < 2 * h[m]
  BY DEF HasRoom
<1>3. /\ Placed(h, T, n, v) \in [T -> Nat]
      /\ \A m \in T : Placed(h, T, n, v)[m] = IF m = n THEN v ELSE 2 * h[m]
      /\ Below(ch, T, NULL, Placed(h, T, n, v))
  BY ONLY <1>1, <1>2, PlacedBelow
<1>4. QED
  BY <1>1, <1>3 DEF Stands

\* Sequences of one and two stores at the end of another one.
LEMMA Lists ==
  ASSUME NEW S, NEW seq \in Seq(S), NEW a \in S, NEW b \in S
  PROVE  /\ <<>> \o seq = seq
         /\ <<a>> = Append(<<>>, a)
         /\ <<a, b>> = Append(Append(<<>>, a), b)
         /\ seq \o <<a>> = Append(seq, a)
         /\ seq \o <<a, b>> = Append(Append(seq, a), b)
OBVIOUS

\* n has one pointer to it from nodes of the tree, or none.
OnlyFrom(ch, tr, n, p, d) == \A m \in tr, e \in Side : ch[m][e] = n => m = p /\ e = d

\* The two stores of a rotation.  First the node that goes down lets go of what it passes
\* on, so that no pointer leads to the one that comes up; then that one may stand above it.
LEMMA RotationStands ==
  ASSUME NEW tr \in SUBSET Node, NEW seq, NEW r0, NEW ch0,
         NEW r, NEW ch, NEW h, Stands(tr, {}, tr, seq, r0, ch0, r, ch, h),
         NEW old \in tr, NEW up \in tr, NEW d \in Side, h[up] < h[old],
         OnlyFrom(ch, tr, up, old, Opposite(d)),
         NEW across, across = ch[up][d], NEW g, g = Placed(h, tr, up, 2 * h[old] + 1)
  PROVE  /\ Stands(tr, {}, tr, seq \o Rotation(old, up, across, d),
                   r0, ch0, r, RotateStores(ch, old, up, d), g)
         /\ \A m \in tr : g[m] = IF m = up THEN 2 * h[old] + 1 ELSE 2 * h[m]
<1> USE NodeAssumption
<1> DEFINE a == Store(old, Opposite(d), across)
           b == Store(up, d, old)
           ch1 == Stored(ch, a)
<1>1. /\ ch \in Children /\ h \in [tr -> Nat] /\ Below(ch, tr, NULL, h)
      /\ seq \in Seq(StoreTo(tr)) /\ r \in tr \cup {NULL}
  BY DEF Stands, Leads
<1>2. across \in tr \cup {NULL} /\ (across # NULL => h[across] < h[up])
  BY <1>1, SidesAgree DEF Below
<1>3. /\ a \in StoreTo(tr) /\ a.of = old /\ a.side = Opposite(d) /\ a.to = across
      /\ b \in StoreTo(tr) /\ b.of = up /\ b.side = d /\ b.to = old
  <2>1. old \in NodeOrNil /\ up \in NodeOrNil /\ old \in tr \cup {NULL} /\ Opposite(d) \in Side
    BY Sides DEF NodeOrNil
  <2>2. /\ Store(old, Opposite(d), across) \in StoreTo(tr)
        /\ Store(old, Opposite(d), across).of = old
        /\ Store(old, Opposite(d), across).side = Opposite(d)
        /\ Store(old, Opposite(d), across).to = across
    BY <1>2, <2>1 DEF Store, StoreTo
  <2>3. /\ Store(up, d, old) \in StoreTo(tr)
        /\ Store(up, d, old).of = up /\ Store(up, d, old).side = d /\ Store(up, d, old).to = old
    BY <2>1 DEF Store, StoreTo
  <2>4. QED
    BY <2>2, <2>3
<1> HIDE DEF a, b
<1>4. old # NULL /\ up # NULL /\ old # up
  BY <1>1
<1>5. StoredRoot(r, a) = r /\ StoredRoot(r, b) = r
  BY <1>3, <1>4 DEF StoredRoot
<1>6. Stands(tr, {}, tr, Append(seq, a), r0, ch0, r, ch1, h)
  <2>1. a.of # NULL /\ a.to # NULL => h[a.to] < h[a.of]
    BY <1>1, <1>2, <1>3
  <2>2. QED
    BY <1>3, <1>5, <2>1, StandsOn
<1>7. /\ ch1 \in Children
      /\ \A n \in Node, e \in Side :
           ch1[n][e] = IF n = old /\ e = Opposite(d) THEN across ELSE ch[n][e]
  BY <1>1, <1>3, StoredTypes
<1> HIDE DEF ch1
<1>8. across # up
  BY <1>1, <1>2
<1>9. \A n \in tr, e \in Side : ch1[n][e] # up
  BY <1>7, <1>8 DEF OnlyFrom
<1>10. \A e \in Side : ch1[up][e] # NULL => 2 * h[ch1[up][e]] < 2 * h[old] + 1
  <2>1. ASSUME NEW e \in Side, NEW c, c = ch1[up][e], c # NULL PROVE 2 * h[c] < 2 * h[old] + 1
    <3>1. c = ch[up][e]
      BY <1>4, <1>7, <2>1
    <3>2. c \in tr /\ h[c] < h[up]
      BY <1>1, <2>1, <3>1, SidesAgree DEF Below
    <3>3. QED
      BY <1>1, <3>2
  <2>2. QED
    BY <2>1
<1>11. PICK v \in Nat : v = 2 * h[old] + 1
  BY <1>1
<1>12. /\ Stands(tr, {}, tr, Append(seq, a), r0, ch0, r, ch1, g)
       /\ \A m \in tr : g[m] = IF m = up THEN 2 * h[old] + 1 ELSE 2 * h[m]
  <2>1. HasRoom(ch1, tr, h, up, v)
    BY <1>9, <1>10, <1>11 DEF HasRoom
  <2>2. up \in tr /\ v \in Nat
    OBVIOUS
  <2>3. /\ Stands(tr, {}, tr, Append(seq, a), r0, ch0, r, ch1, Placed(h, tr, up, v))
        /\ \A m \in tr : Placed(h, tr, up, v)[m] = IF m = up THEN v ELSE 2 * h[m]
    BY ONLY <1>6, <2>1, <2>2, StandsAnew
  <2>4. QED
    BY <1>11, <2>3
<1>13. Stands(tr, {}, tr, Append(Append(seq, a), b), r0, ch0, r, Stored(ch1, b), g)
  <2>1. g[old] < g[up]
    BY <1>1, <1>4, <1>12
  <2>2. QED
    BY <1>3, <1>5, <1>12, <2>1, StandsOn
<1>14. seq \o Rotation(old, up, across, d) = Append(Append(seq, a), b)
  BY <1>1, <1>3, Lists DEF Rotation, a, b
<1>15. Stored(ch1, b) = RotateStores(ch, old, up, d)
  <2>1. /\ Stored(ch1, b) \in Children
        /\ \A n \in Node, e \in Side :
             Stored(ch1, b)[n][e] = IF n = up /\ e = d THEN old ELSE ch1[n][e]
    BY <1>3, <1>7, StoredTypes
  <2>2. /\ RotateStores(ch, old, up, d) \in Children
        /\ \A n \in Node, e \in Side :
             RotateStores(ch, old, up, d)[n][e] =
               IF n = old /\ e # d THEN ch[up][d] ELSE IF n = up /\ e = d THEN old ELSE ch[n][e]
    BY <1>1, <1>4, RotateStoresStores
  <2>3. \A n \in Node, e \in Side : Stored(ch1, b)[n][e] = RotateStores(ch, old, up, d)[n][e]
    BY <1>4, <1>7, <2>1, <2>2, Sides
  <2>4. QED
    BY <2>1, <2>2, <2>3, SameChildren
<1>16. QED
  BY <1>12, <1>13, <1>14, <1>15

\* The store of __rb_change_child, whose side is found before the turn.
SameSide(ch, p, old) == p # NULL => At(ch, p, old) = At(rb_child, p, old)

IsChange(s, tr, r, ch, old, up, p) ==
  /\ s \in StoreTo(tr) /\ s.of = p /\ s.to = up
  /\ StoredRoot(r, s) = IF p = NULL THEN up ELSE r
  /\ Stored(ch, s) = ChangeChild(ch, old, up, p)

\* __rb_change_child is one store.
LEMMA ChangeIsStore ==
  ASSUME NEW tr, NEW r, NEW ch \in Children,
         NEW old \in Node, NEW up \in tr \cup {NULL}, NEW p \in NodeOrNil,
         SameSide(ch, p, old)
  PROVE  IsChange(ChangeChildStore(old, up, p), tr, r, ch, old, up, p)
<1> USE NodeAssumption
<1>1. PICK d : d = IF p # NULL /\ rb_child[p]["left"] # old THEN "right" ELSE "left"
  OBVIOUS
<1>2. d \in Side /\ (p # NULL => d = At(ch, p, old))
  BY <1>1, Sides DEF At, SameSide
<1>3. ChangeChildStore(old, up, p) = Store(p, d, up)
  BY <1>1 DEF ChangeChildStore
<1>4. PICK s : s = Store(p, d, up)
  OBVIOUS
<1>5. s \in StoreTo(tr) /\ s.of = p /\ s.side = d /\ s.to = up
  <2>1. /\ Store(p, d, up) \in StoreTo(tr)
        /\ Store(p, d, up).of = p /\ Store(p, d, up).side = d /\ Store(p, d, up).to = up
    BY <1>2 DEF Store, StoreTo
  <2>2. QED
    BY <1>4, <2>1
<1>6. StoredRoot(r, s) = IF p = NULL THEN up ELSE r
  BY <1>5 DEF StoredRoot
<1>7. Stored(ch, s) = ChangeChild(ch, old, up, p)
  <2>1. CASE p = NULL
    BY <1>5, <2>1 DEF Stored, ChangeChild
  <2>2. CASE p # NULL
    BY <1>2, <1>5, <2>2 DEF Stored, ChangeChild, At
  <2>3. QED
    BY <2>1, <2>2
<1>8. QED
  BY <1>3, <1>4, <1>5, <1>6, <1>7 DEF IsChange

\* ... and the memory stands behind it.
LEMMA ChangeStands ==
  ASSUME NEW tr \in SUBSET Node, NEW seq, NEW r0, NEW ch0,
         NEW r, NEW ch, NEW h, Stands(tr, {}, tr, seq, r0, ch0, r, ch, h),
         NEW old \in Node, NEW up \in tr, NEW p \in tr \cup {NULL},
         SameSide(ch, p, old), p # NULL => h[up] < h[p]
  PROVE  Stands(tr, {}, tr, Append(seq, ChangeChildStore(old, up, p)),
                r0, ch0, IF p = NULL THEN up ELSE r, ChangeChild(ch, old, up, p), h)
<1>1. ch \in Children /\ p \in NodeOrNil /\ up \in tr \cup {NULL}
  BY DEF Stands, NodeOrNil
<1>2. PICK s : s = ChangeChildStore(old, up, p)
  OBVIOUS
<1>3. /\ s \in StoreTo(tr) /\ s.of = p /\ s.to = up
      /\ StoredRoot(r, s) = IF p = NULL THEN up ELSE r
      /\ Stored(ch, s) = ChangeChild(ch, old, up, p)
  <2>1. IsChange(ChangeChildStore(old, up, p), tr, r, ch, old, up, p)
    BY <1>1, ChangeIsStore
  <2>2. QED
    BY <1>2, <2>1 DEF IsChange
<1>4. s.of # NULL /\ s.to # NULL => h[s.to] < h[s.of]
  BY <1>3
<1>5. Stands(tr, {}, tr, Append(seq, s), r0, ch0, StoredRoot(r, s), Stored(ch, s), h)
  BY <1>3, <1>4, StandsOn
<1>6. QED
  BY <1>2, <1>3, <1>5

-----------------------------------------------------------------------------
(* The tree of the writer. *)

\* Heights of the nodes in the tree, also on the way from a node to its successor.
IsHeight(h) ==
  /\ h \in [InTree -> Nat] /\ \A n \in InTree : h[n] \in 1..Max
  /\ Below(rb_child, InTree, NULL, h)
  /\ pc = "successor" =>
       /\ {node, successor, parent} \subseteq InTree
       /\ h[successor] < h[node] /\ h[parent] < h[node]

\* There are such heights.
LEMMA HeightsNow ==
  ASSUME IInv
  PROVE  \E h : IsHeight(h)
<1>0. TypeOK /\ Links /\ Locals /\ Colors
  BY DEF IInv
<1>1. PICK B \in [Node -> Nat] : Labels(B)
  BY DEF IInv
<1> DEFINE f == [n \in InTree |-> Height(B, n)]
<1>2. Below(rb_child, InTree, NULL, f)
  BY <1>0, <1>1, HeightDown
<1>3. f \in [InTree -> Nat] /\ \A n \in InTree : f[n] = Height(B, n)
  BY DEF InTree, Height
<1>4. /\ IsFiniteSet(InTree)
      /\ Cardinality(InTree) \in Nat
      /\ Cardinality(InTree) =< Max
  BY FiniteNodes, FS_Subset, FS_CardinalityType DEF InTree, Max
<1> HIDE DEF f
<1>5. PICK g \in [InTree -> 1..Cardinality(InTree)] :
        Below(rb_child, InTree, NULL, g) /\ \A n, m \in InTree : f[m] < f[n] => g[m] < g[n]
  BY <1>2, <1>3, <1>4, LowHeights
<1>6. \A n \in InTree : g[n] \in 1..Max
  BY <1>4, MaxType
<1>7. g \in [InTree -> Nat]
  BY <1>4
<1>8. ASSUME pc = "successor"
      PROVE  {node, successor, parent} \subseteq InTree
             /\ g[successor] < g[node] /\ g[parent] < g[node]
  <2>1. node \in InTree /\ successor \in InTree
    BY <1>0, <1>8 DEF Locals, InTree
  <2>2. parent \in InTree
    <3>1. CASE parent = successor
      BY <2>1, <3>1
    <3>2. CASE parent # successor
      <4>1. parent \in Node /\ rb_child[parent]["left"] = successor /\ successor # NULL
        BY <1>0, <1>8, <2>1, <3>2, NodeAssumption DEF Locals, InTree
      <4>2. ~RB_EMPTY_NODE(parent)
        BY <1>0, <4>1, Sides DEF Links
      <4>3. QED
        BY <4>1, <4>2 DEF InTree
    <3>3. QED
      BY <3>1, <3>2
  <2>3. Rank(B, successor) < Rank(B, node) /\ Rank(B, parent) < Rank(B, node)
    BY <1>1, <1>8 DEF Labels
  <2>4. \A n \in InTree : B[n] \in Nat /\ Height(B, n) = 2 * Rank(B, n) /\ Rank(B, n) \in Nat
    BY <1>8 DEF InTree, Height, Rank
  <2>5. f[successor] < f[node] /\ f[parent] < f[node]
    BY <1>3, <2>1, <2>2, <2>3, <2>4
  <2>6. QED
    BY <1>5, <2>1, <2>2, <2>5
<1>9. IsHeight(g)
  BY <1>5, <1>6, <1>7, <1>8 DEF IsHeight
<1>10. QED
  BY <1>9

\* The memory has the pointers of m at the nodes of tr.
Agree(ch, m, tr) == \A n \in tr, d \in Side : ch[n][d] = m[n][d]

\* Rotations ...
LEMMA RotateAgrees ==
  ASSUME NEW tr \in SUBSET Node, NEW ch \in Children, NEW m \in Children, Agree(ch, m, tr),
         NEW old \in tr, NEW up \in tr, old # up, NEW d \in Side
  PROVE  Agree(RotateStores(ch, old, up, d), RotateStores(m, old, up, d), tr)
<1>1. \A n \in Node, e \in Side :
        RotateStores(ch, old, up, d)[n][e] =
          IF n = old /\ e # d THEN ch[up][d] ELSE IF n = up /\ e = d THEN old ELSE ch[n][e]
  BY RotateStoresStores
<1>2. \A n \in Node, e \in Side :
        RotateStores(m, old, up, d)[n][e] =
          IF n = old /\ e # d THEN m[up][d] ELSE IF n = up /\ e = d THEN old ELSE m[n][e]
  BY RotateStoresStores
<1>3. QED
  BY <1>1, <1>2 DEF Agree

\* ... and __rb_change_child keep it so.
LEMMA ChangeAgrees ==
  ASSUME NEW tr \in SUBSET Node, NEW ch \in Children, NEW m \in Children, Agree(ch, m, tr),
         NEW old \in Node, NEW up \in NodeOrNil, NEW p \in NodeOrNil
  PROVE  Agree(ChangeChild(ch, old, up, p), ChangeChild(m, old, up, p), tr)
<1>1. \A n \in Node, e \in Side :
        ChangeChild(ch, old, up, p)[n][e] = IF n = p /\ e = At(ch, n, old) THEN up ELSE ch[n][e]
  BY ChangeChildStores
<1>2. \A n \in Node, e \in Side :
        ChangeChild(m, old, up, p)[n][e] = IF n = p /\ e = At(m, n, old) THEN up ELSE m[n][e]
  BY ChangeChildStores
<1>3. \A n \in tr : At(ch, n, old) = At(m, n, old)
  BY Sides DEF Agree, At
<1>4. QED
  BY <1>1, <1>2, <1>3 DEF Agree

\* Where the stores of seq lead in the end: to the tree r, m of the writer.
Arrives(seq, tr, new, r0, ch0, r, m) ==
  \E ch \in Children :
    /\ Leads(seq, tr, new, r0, ch0, r, ch)
    /\ Agree(ch, m, tr)
    /\ \E k \in [Node -> Nat] : Outside(ch, tr, k)

\* While no store is under way the memory has the tree of the writer.
Still ==
  /\ stores = <<>>
  /\ seen_root = rb_node
  /\ seen_child \in Children
  /\ Agree(seen_child, rb_child, InTree)
  /\ \E k \in [Node -> Nat] : Outside(seen_child, InTree, k)

\* A turn that keeps all nodes may start from there.
LEMMA StillStands ==
  ASSUME IInv, Still, NEW h, IsHeight(h)
  PROVE  /\ Stands(InTree, {}, InTree, <<>>, seen_root, seen_child, seen_root, seen_child, h)
         /\ Below(seen_child, InTree, NULL, h)
<1>0. InTree \in SUBSET Node
  BY DEF InTree
<1>1. seen_root \in InTree \cup {NULL}
  BY RootType DEF Still
<1>2. h \in [InTree -> Nat] /\ Below(seen_child, InTree, NULL, h)
  BY SidesAgree DEF IsHeight, Still, Agree, Below
<1>3. PICK k \in [Node -> Nat] : Outside(seen_child, InTree, k)
  BY DEF Still
<1>4. Safe(seen_root, seen_child, InTree, {})
  BY <1>0, <1>1, <1>2, <1>3, SafeWhere
<1>5. seen_root \in NodeOrNil /\ seen_child \in Children
  BY <1>0, <1>1 DEF Still, NodeOrNil
<1>6. Leads(<<>>, InTree, {}, seen_root, seen_child, seen_root, seen_child)
  BY <1>0, <1>4, <1>5, LeadsNowhere
<1>7. QED
  BY <1>1, <1>2, <1>3, <1>5, <1>6 DEF Stands

\* A whole turn of a rotation, that at __rb_change_child included.
LEMMA TurnStands ==
  ASSUME NEW tr \in SUBSET Node, NEW seq, NEW r0, NEW ch0,
         NEW r, NEW ch, NEW h, Stands(tr, {}, tr, seq, r0, ch0, r, ch, h),
         NEW old \in tr, NEW up \in tr, NEW d \in Side, h[up] < h[old],
         OnlyFrom(ch, tr, up, old, Opposite(d)),
         NEW across, across = ch[up][d],
         NEW p \in tr \cup {NULL}, SameSide(ch, p, old), p # NULL => h[old] < h[p]
  PROVE  \E g : Stands(tr, {}, tr, Append(seq \o Rotation(old, up, across, d),
                                          ChangeChildStore(old, up, p)),
                       r0, ch0, IF p = NULL THEN up ELSE r,
                       ChangeChild(RotateStores(ch, old, up, d), old, up, p), g)
<1>1. PICK g : g = Placed(h, tr, up, 2 * h[old] + 1)
  OBVIOUS
<1>2. ch \in Children /\ h \in [tr -> Nat] /\ old # up
  BY DEF Stands
<1>3. /\ Stands(tr, {}, tr, seq \o Rotation(old, up, across, d),
                r0, ch0, r, RotateStores(ch, old, up, d), g)
      /\ \A m \in tr : g[m] = IF m = up THEN 2 * h[old] + 1 ELSE 2 * h[m]
  BY <1>1, RotationStands
<1>4. PICK ch2, seq2 : ch2 = RotateStores(ch, old, up, d) /\ seq2 = seq \o Rotation(old, up, across, d)
  OBVIOUS
<1>5. \A n \in Node, e \in Side :
        ch2[n][e] = IF n = old /\ e # d THEN ch[up][d] ELSE IF n = up /\ e = d THEN old ELSE ch[n][e]
  <2>1. old \in Node /\ up \in Node
    OBVIOUS
  <2>2. \A n \in Node, e \in Side :
          RotateStores(ch, old, up, d)[n][e] =
            IF n = old /\ e # d THEN ch[up][d] ELSE IF n = up /\ e = d THEN old ELSE ch[n][e]
    BY ONLY <1>2, <2>1, d \in Side, RotateStoresStores
  <2>3. QED
    BY ONLY <1>4, <2>2
<1>6. p # NULL => p \in tr /\ p # old /\ p # up /\ g[up] < g[p]
  BY <1>2, <1>3
<1>7. SameSide(ch2, p, old)
  <2>1. p # NULL => At(ch2, p, old) = At(ch, p, old)
    BY <1>5, <1>6, Sides DEF At
  <2>2. QED
    BY <2>1 DEF SameSide
<1>8. Stands(tr, {}, tr, Append(seq2, ChangeChildStore(old, up, p)), r0, ch0,
             IF p = NULL THEN up ELSE r, ChangeChild(ch2, old, up, p), g)
  <2>1. p # NULL => g[up] < g[p]
    BY <1>6
  <2>2. Stands(tr, {}, tr, seq2, r0, ch0, r, ch2, g)
    BY <1>3, <1>4
  <2>3. old \in Node
    OBVIOUS
  <2>4. QED
    BY <1>7, <2>1, <2>2, <2>3, ChangeStands
<1>9. QED
  BY <1>4, <1>8

-----------------------------------------------------------------------------
(* Which nodes are in the tree after a turn. *)

\* Rotations keep all of them.
LEMMA TurnKeepsNodes ==
  ASSUME IInv, IInv', TreeTurned
  PROVE  InTree' = InTree
<1>1. List' = List
  BY TurnSameList
<1>2. InTree = Elements(List) /\ InTree' = Elements(List')
  BY LinkedInList, LinkedInNextList
<1>3. QED
  BY <1>1, <1>2

\* An erasure takes one node out ...
LEMMA RemovedNode ==
  ASSUME IInv, IInv', NEW n \in Node, Removes(Node, List, List', n)
  PROVE  n \in InTree /\ InTree' = InTree \ {n}
<1>1. PICK P \in Seq(Node), Q \in Seq(Node) : List = (P \o <<n>>) \o Q /\ List' = P \o Q
  BY DEF Removes
<1>2. InTree = Elements(List) /\ InTree' = Elements(List') /\ Distinct(List)
  BY LinkedInList, LinkedInNextList, ListNow
<1>3. n \in Elements(List) /\ n \notin Elements(List')
  BY <1>2, RemovesAtPlace
<1>4. Elements((P \o <<n>>) \o Q) = Elements(P) \cup {n} \cup Elements(Q)
  BY NodeBetween
<1>5. Elements(P \o Q) = Elements(P) \cup Elements(Q)
  BY ConcatElements
<1>6. QED
  BY <1>1, <1>2, <1>3, <1>4, <1>5

\* ... a replacement exchanges one ...
LEMMA TradedNode ==
  ASSUME IInv, IInv', NEW old \in Node, NEW new \in Node, new \notin InTree,
         Trades(Node, List, List', old, new)
  PROVE  old \in InTree /\ InTree' = (InTree \ {old}) \cup {new}
<1>1. PICK P \in Seq(Node), Q \in Seq(Node) : List = (P \o <<old>>) \o Q /\ List' = (P \o <<new>>) \o Q
  BY DEF Trades
<1>2. InTree = Elements(List) /\ InTree' = Elements(List') /\ Distinct(List)
  BY LinkedInList, LinkedInNextList, ListNow
<1>3. old \in Elements(List) /\ old \notin Elements(List') /\ new \in Elements(List')
  BY <1>2, TradesAtPlace
<1>4. Elements((P \o <<old>>) \o Q) = Elements(P) \cup {old} \cup Elements(Q)
  BY NodeBetween
<1>5. Elements((P \o <<new>>) \o Q) = Elements(P) \cup {new} \cup Elements(Q)
  BY NodeBetween
<1>6. QED
  BY <1>1, <1>2, <1>3, <1>4, <1>5

\* ... and an insertion adds one.
LEMMA LinkedNode ==
  ASSUME IInv, Link
  PROVE  node \in Node \ InTree /\ InTree' = InTree \cup {node} /\ parent \in InTree \cup {NULL}
<1>1. /\ IsLink(rb_node, rb_child, Par, rb_node', rb_child', Par', node, parent, dir)
      /\ IInv'
  BY LinkKeepsIInv
<1>2. \A n \in Node : n \in InTree <=> Par[n] # n
  BY DEF InTree, RB_EMPTY_NODE, Par
<1>3. \A n \in Node : n \in InTree' <=> Par'[n] # n
  BY DEF InTree, RB_EMPTY_NODE, Par
<1>4. node \in Node /\ node \notin InTree
  BY <1>1, <1>2 DEF IsLink
<1>5. parent \in InTree \cup {NULL} /\ parent # node
  <2>1. pc \in {"add", "find_add"} /\ Locals /\ TypeOK
    BY DEF IInv, Link
  <2>2. parent # NULL => ~RB_EMPTY_NODE(parent)
    BY <2>1 DEF Locals
  <2>3. QED
    BY <1>4, <2>1, <2>2, NodeAssumption DEF TypeOK, NodeOrNil, InTree
<1>6. \A n \in Node : Par'[n] # n <=> Par[n] # n \/ n = node
  BY <1>1, <1>5 DEF IsLink
<1>7. InTree \subseteq Node /\ InTree' \subseteq Node
  BY DEF InTree
<1>8. QED
  BY <1>2, <1>3, <1>4, <1>5, <1>6, <1>7

-----------------------------------------------------------------------------
(* Where the turns find things. *)

\* Above a node of the tree is its parent, if it has one.
LEMMA ParentIsHigher ==
  ASSUME IInv, NEW h, IsHeight(h), NEW n \in InTree, NEW p, p = rb_parent(n)
  PROVE  /\ p \in InTree \cup {NULL}
         /\ p # NULL => h[n] < h[p] /\ SideOf(n, p) \in Side /\ rb_child[p][SideOf(n, p)] = n
<1>1. TypeOK /\ Links
  BY DEF IInv
<1>2. n \in Node /\ ~RB_EMPTY_NODE(n)
  BY DEF InTree
<1>3. p \in NodeOrNil
  BY <1>1, <1>2, ParentType
<1>4. ASSUME p # NULL
      PROVE  p \in InTree /\ h[n] < h[p] /\ SideOf(n, p) \in Side /\ rb_child[p][SideOf(n, p)] = n
  <2>1. p \in Node
    BY <1>3, <1>4 DEF NodeOrNil
  <2>2. SideOf(n, p) \in Side /\ rb_child[p][SideOf(n, p)] = n /\ ~RB_EMPTY_NODE(p)
    BY <1>1, <1>2, <2>1, SideOfChild
  <2>3. p \in InTree
    BY <2>1, <2>2 DEF InTree
  <2>4. n # NULL
    BY <1>2, NodeAssumption
  <2>5. h[rb_child[p][SideOf(n, p)]] < h[p]
    BY <2>2, <2>3, <2>4, SidesAgree DEF IsHeight, Below
  <2>6. QED
    BY <2>2, <2>3, <2>5
<1>5. QED
  BY <1>4

\* A node of the tree has one pointer to it from nodes of the tree.
LEMMA OnePointer ==
  ASSUME IInv, NEW ch, Agree(ch, rb_child, InTree), NEW n \in InTree,
         NEW p, NEW d \in Side, rb_child[p][d] = n, p = rb_parent(n)
  PROVE  OnlyFrom(ch, InTree, n, p, d)
<1>1. Links
  BY DEF IInv
<1>2. n # NULL
  BY NodeAssumption DEF InTree
<1>3. ASSUME NEW m \in InTree, NEW e \in Side, ch[m][e] = n PROVE m = p /\ e = d
  <2>1. m \in Node /\ rb_child[m][e] = n
    BY <1>3 DEF Agree, InTree
  <2>2. rb_parent(n) = m /\ rb_child[m][Opposite(e)] # n
    BY <1>1, <1>2, <2>1 DEF Links
  <2>3. QED
    BY <2>2, Sides
<1>4. QED
  BY <1>3 DEF OnlyFrom

\* __rb_change_child looks at pointers that have not changed.
LEMMA SameSideOf ==
  ASSUME NEW ch, NEW tr, Agree(ch, rb_child, tr), NEW p \in tr \cup {NULL}, NEW old
  PROVE  SameSide(ch, p, old)
<1>1. p # NULL => p \in tr
  OBVIOUS
<1>2. QED
  BY <1>1, Sides DEF Agree, SameSide, At

\* The stores have arrived where they lead.
LEMMA StandsArrives ==
  ASSUME NEW tr, NEW seq, NEW r0, NEW ch0, NEW r, NEW ch, NEW h,
         Stands(tr, {}, tr, seq, r0, ch0, r, ch, h), NEW m, Agree(ch, m, tr)
  PROVE  Arrives(seq, tr, {}, r0, ch0, r, m)
BY DEF Stands, Arrives

-----------------------------------------------------------------------------
(* The turns that rotate. *)

\* The stores of a turn that ends with a rotation at old lead where the turn does: m is what
\* the child pointers of the tree are before that rotation, and ch the same in the memory.
LEMMA TurnArrives ==
  ASSUME NEW tr \in SUBSET Node, NEW seq, NEW r0, NEW ch0,
         NEW r, NEW ch, NEW h, Stands(tr, {}, tr, seq, r0, ch0, r, ch, h),
         NEW m \in Children, Agree(ch, m, tr),
         NEW old \in tr, NEW up \in tr, NEW d \in Side, h[up] < h[old],
         OnlyFrom(ch, tr, up, old, Opposite(d)),
         NEW across, across = m[up][d],
         NEW p \in tr \cup {NULL}, SameSide(ch, p, old), p # NULL => h[old] < h[p],
         NEW seq2, seq2 = (seq \o Rotation(old, up, across, d)) \o <<ChangeChildStore(old, up, p)>>,
         NEW r2, r2 = IF p = NULL THEN up ELSE r,
         NEW m2, m2 = ChangeChild(RotateStores(m, old, up, d), old, up, p)
  PROVE  Arrives(seq2, tr, {}, r0, ch0, r2, m2)
<1>1. across = ch[up][d]
  BY DEF Agree
<1>2. PICK g : Stands(tr, {}, tr, Append(seq \o Rotation(old, up, across, d),
                                         ChangeChildStore(old, up, p)),
                      r0, ch0, IF p = NULL THEN up ELSE r,
                      ChangeChild(RotateStores(ch, old, up, d), old, up, p), g)
  BY <1>1, TurnStands
<1>3. ch \in Children /\ h \in [tr -> Nat] /\ old # up
  BY DEF Stands
<1>4. Agree(RotateStores(ch, old, up, d), RotateStores(m, old, up, d), tr)
  BY <1>3, RotateAgrees
<1>5. /\ old \in Node /\ up \in Node /\ up \in NodeOrNil /\ p \in NodeOrNil
      /\ RotateStores(ch, old, up, d) \in Children /\ RotateStores(m, old, up, d) \in Children
  <2>1. old \in Node /\ up \in Node /\ up \in NodeOrNil /\ p \in NodeOrNil
    BY DEF NodeOrNil
  <2>2. RotateStores(ch, old, up, d) \in Children
    BY ONLY <1>3, <2>1, d \in Side, RotateStoresStores
  <2>3. RotateStores(m, old, up, d) \in Children
    BY ONLY <1>3, <2>1, d \in Side, m \in Children, RotateStoresStores
  <2>4. QED
    BY <2>1, <2>2, <2>3
<1>6. PICK ch3, m3 : ch3 = RotateStores(ch, old, up, d) /\ m3 = RotateStores(m, old, up, d)
  OBVIOUS
<1>7. Agree(ChangeChild(ch3, old, up, p), ChangeChild(m3, old, up, p), tr)
  <2>1. ch3 \in Children /\ m3 \in Children /\ Agree(ch3, m3, tr)
    BY ONLY <1>4, <1>5, <1>6
  <2>2. QED
    BY ONLY <1>5, <2>1, tr \in SUBSET Node, ChangeAgrees
<1>8. PICK seq3 : seq3 = seq \o Rotation(old, up, across, d)
  OBVIOUS
<1>9. seq3 \o <<ChangeChildStore(old, up, p)>> = Append(seq3, ChangeChildStore(old, up, p))
  <2>1. seq \in Seq(StoreTo(tr))
    BY DEF Stands, Leads
  <2>2. across \in tr \cup {NULL}
    BY <1>1, SidesAgree DEF Stands, Below
  <2>3. seq3 \in Seq(StoreTo(tr))
    <3>1. Store(old, Opposite(d), across) \in StoreTo(tr)
      BY <1>5, <2>2, Sides DEF Store, StoreTo, NodeOrNil
    <3>2. Store(up, d, old) \in StoreTo(tr)
      BY <1>5 DEF Store, StoreTo, NodeOrNil
    <3>3. Rotation(old, up, across, d) \in Seq(StoreTo(tr))
      BY <3>1, <3>2 DEF Rotation
    <3>4. QED
      BY <1>8, <2>1, <3>3
  <2>4. PICK S, c : S = StoreTo(tr) \cup {c} /\ c = ChangeChildStore(old, up, p)
    OBVIOUS
  <2>5. seq3 \in Seq(S) /\ c \in S
    BY <2>3, <2>4
  <2>6. seq3 \o <<c>> = Append(seq3, c)
    BY ONLY <2>5, Lists
  <2>7. QED
    BY <2>4, <2>6
<1>10. Stands(tr, {}, tr, seq2, r0, ch0, r2, ChangeChild(ch3, old, up, p), g)
  BY <1>2, <1>6, <1>8, <1>9
<1>11. Agree(ChangeChild(ch3, old, up, p), m2, tr)
  BY <1>6, <1>7
<1>12. QED
  BY ONLY <1>10, <1>11, StandsArrives

\* A turn that is one rotation.
LEMMA OneTurn ==
  ASSUME IInv, Still, NEW h, IsHeight(h),
         NEW old \in InTree, NEW up \in InTree, NEW d \in Side,
         rb_child[old][Opposite(d)] = up, rb_parent(up) = old,
         NEW across, across = rb_child[up][d], NEW p, p = rb_parent(old),
         NEW seq, seq = (<<>> \o Rotation(old, up, across, d)) \o <<ChangeChildStore(old, up, p)>>,
         NEW r2, r2 = ChangeRoot(up, p),
         NEW m2, m2 = ChangeChild(RotateStores(rb_child, old, up, d), old, up, p)
  PROVE  Arrives(seq, InTree, {}, seen_root, seen_child, r2, m2)
<1>1. Stands(InTree, {}, InTree, <<>>, seen_root, seen_child, seen_root, seen_child, h)
  BY StillStands
<1>2. h[up] < h[old]
  <2>1. up # NULL /\ Opposite(d) \in Side
    BY Sides, NodeAssumption DEF InTree
  <2>2. QED
    BY <2>1, SidesAgree DEF IsHeight, Below
<1>3. p \in InTree \cup {NULL} /\ (p # NULL => h[old] < h[p])
  BY ParentIsHigher
<1>4. rb_child \in Children /\ Agree(seen_child, rb_child, InTree) /\ Opposite(d) \in Side
  BY Sides DEF IInv, TypeOK, Children, Still
<1>5. OnlyFrom(seen_child, InTree, up, old, Opposite(d))
  BY <1>4, OnePointer
<1>6. SameSide(seen_child, p, old)
  BY <1>3, <1>4, SameSideOf
<1>7. InTree \in SUBSET Node
  BY DEF InTree
<1>8. r2 = IF p = NULL THEN up ELSE seen_root
  BY DEF ChangeRoot, Still
<1>9. p # NULL => h[old] < h[p]
  BY <1>3
<1>10. /\ old \in InTree /\ up \in InTree /\ d \in Side /\ p \in InTree \cup {NULL}
       /\ across = rb_child[up][d]
       /\ seq = (<<>> \o Rotation(old, up, across, d)) \o <<ChangeChildStore(old, up, p)>>
       /\ m2 = ChangeChild(RotateStores(rb_child, old, up, d), old, up, p)
  BY <1>3
<1>11. QED
  BY ONLY <1>1, <1>2, <1>4, <1>5, <1>6, <1>7, <1>8, <1>9, <1>10, TurnArrives

\* The places of an insertion's rotations.
LEMMA AroundInsert ==
  ASSUME IInv, NEW h, IsHeight(h), pc = "insert", parent # NULL, rb_is_red(parent),
         NEW g, g = rb_parent(parent), NEW d, d = SideOf(parent, g)
  PROVE  /\ node \in InTree /\ parent \in InTree /\ g \in InTree
         /\ d \in Side /\ rb_child[g][d] = parent
         /\ rb_parent(node) = parent /\ node # parent
         /\ h[node] < h[parent] /\ h[parent] < h[g]
<1>1. /\ node \in InTree /\ parent \in InTree /\ g \in InTree
      /\ rb_parent(node) = parent /\ node # parent
  BY RedParent DEF InTree
<1>2. g # NULL
  BY <1>1, NodeAssumption DEF InTree
<1>3. d \in Side /\ rb_child[g][d] = parent /\ h[parent] < h[g]
  BY <1>1, <1>2, ParentIsHigher
<1>4. h[node] < h[parent]
  BY <1>1, ParentIsHigher
<1>5. QED
  BY <1>1, <1>3, <1>4

\* Case 3 of __rb_insert alone ...
LEMMA InsertRotateOuter ==
  ASSUME IInv, Still, InsertRotate, stores' = InsertRotateStores,
         node # rb_child[parent][Opposite(SideOf(parent, rb_parent(parent)))]
  PROVE  Arrives(stores', InTree, {}, seen_root, seen_child, rb_node', rb_child')
<1>1. PICK h : IsHeight(h)
  BY HeightsNow
<1>2. PICK g, d, o, p : /\ g = rb_parent(parent) /\ d = SideOf(parent, g) /\ o = Opposite(d)
                        /\ p = rb_parent(g)
  OBVIOUS
<1>3. pc = "insert" /\ parent # NULL /\ rb_is_red(parent)
  BY DEF InsertRotate
<1>4. parent \in InTree /\ g \in InTree /\ d \in Side /\ rb_child[g][d] = parent
  BY <1>1, <1>2, <1>3, AroundInsert
<1>5. o \in Side /\ Opposite(o) = d
  BY <1>2, <1>4, Sides
<1>6. PICK across : across = rb_child[parent][o]
  OBVIOUS
<1>7. node # rb_child[parent][o]
  BY <1>2
<1>8. /\ rb_child' = ChangeChild(RotateStores(rb_child, g, parent, o), g, parent, p)
      /\ rb_node' = ChangeRoot(parent, p)
  BY <1>2, <1>7 DEF InsertRotate
<1>9. stores' = (<<>> \o Rotation(g, parent, across, o)) \o <<ChangeChildStore(g, parent, p)>>
  BY <1>2, <1>6, <1>7 DEF InsertRotateStores
<1>10. PICK st, r2, m2 : st = stores' /\ r2 = rb_node' /\ m2 = rb_child'
  OBVIOUS
<1>11. Arrives(st, InTree, {}, seen_root, seen_child, r2, m2)
  <2>1. /\ st = (<<>> \o Rotation(g, parent, across, o)) \o <<ChangeChildStore(g, parent, p)>>
        /\ m2 = ChangeChild(RotateStores(rb_child, g, parent, o), g, parent, p)
        /\ r2 = ChangeRoot(parent, p)
    BY <1>8, <1>9, <1>10
  <2>2. /\ parent \in InTree /\ g \in InTree /\ o \in Side
        /\ rb_child[g][Opposite(o)] = parent
        /\ rb_parent(parent) = g /\ p = rb_parent(g)
    BY <1>2, <1>4, <1>5
  <2>3. QED
    BY ONLY IInv, Still, <1>1, <1>6, <2>1, <2>2, OneTurn
<1>12. QED
  BY <1>10, <1>11

\* A rotation that brings up up at old and leaves the pointer to old where it is: what holds
\* then of the memory and of the tree of the writer.
HalfTurned(tr, r0, ch0, r, ch, m, h, old, up, d, across) ==
  \E c, n, g :
    /\ c = RotateStores(ch, old, up, d) /\ n = RotateStores(m, old, up, d)
    /\ Stands(tr, {}, tr, Rotation(old, up, across, d), r0, ch0, r, c, g)
    /\ n \in Children /\ Agree(c, n, tr)
    /\ \A x \in tr : g[x] = IF x = up THEN 2 * h[old] + 1 ELSE 2 * h[x]
    /\ \A x \in tr, e \in Side :
         /\ c[x][e] = IF x = old /\ e # d THEN across ELSE IF x = up /\ e = d THEN old ELSE ch[x][e]
         /\ n[x][e] = IF x = old /\ e # d THEN across ELSE IF x = up /\ e = d THEN old ELSE m[x][e]
    /\ \A x \in tr, e \in Side : c[x][e] # up

\* It comes to that.
LEMMA HalfTurn ==
  ASSUME NEW tr \in SUBSET Node, NEW ch, NEW r, NEW r0, NEW ch0, NEW h,
         Stands(tr, {}, tr, <<>>, r0, ch0, r, ch, h),
         NEW m \in Children, Agree(ch, m, tr),
         NEW old \in tr, NEW up \in tr, NEW d \in Side, h[up] < h[old],
         OnlyFrom(ch, tr, up, old, Opposite(d)), NEW across, across = m[up][d]
  PROVE  HalfTurned(tr, r0, ch0, r, ch, m, h, old, up, d, across)
<1>1. across = ch[up][d]
  BY DEF Agree
<1>2. PICK g : g = Placed(h, tr, up, 2 * h[old] + 1)
  OBVIOUS
<1>3. /\ Stands(tr, {}, tr, <<>> \o Rotation(old, up, across, d),
                r0, ch0, r, RotateStores(ch, old, up, d), g)
      /\ \A x \in tr : g[x] = IF x = up THEN 2 * h[old] + 1 ELSE 2 * h[x]
  <2>1. tr \in SUBSET Node /\ old \in tr /\ up \in tr /\ d \in Side
    OBVIOUS
  <2>2. PICK s : s = <<>>
    OBVIOUS
  <2>3. Stands(tr, {}, tr, s, r0, ch0, r, ch, h)
    BY <2>2
  <2>4. /\ Stands(tr, {}, tr, s \o Rotation(old, up, across, d),
                  r0, ch0, r, RotateStores(ch, old, up, d), g)
        /\ \A x \in tr : g[x] = IF x = up THEN 2 * h[old] + 1 ELSE 2 * h[x]
    BY ONLY <1>1, <1>2, <2>1, <2>3, h[up] < h[old],
            OnlyFrom(ch, tr, up, old, Opposite(d)), RotationStands
  <2>5. QED
    BY <2>2, <2>4
<1>4. ch \in Children /\ h \in [tr -> Nat] /\ Below(ch, tr, NULL, h) /\ old # up
  BY DEF Stands
<1>5. old \in Node /\ up \in Node
  OBVIOUS
<1>6. \A x \in Node, e \in Side :
        RotateStores(ch, old, up, d)[x][e] =
          IF x = old /\ e # d THEN ch[up][d] ELSE IF x = up /\ e = d THEN old ELSE ch[x][e]
  BY ONLY <1>4, <1>5, d \in Side, RotateStoresStores
<1>7. /\ RotateStores(m, old, up, d) \in Children
      /\ \A x \in Node, e \in Side :
           RotateStores(m, old, up, d)[x][e] =
             IF x = old /\ e # d THEN m[up][d] ELSE IF x = up /\ e = d THEN old ELSE m[x][e]
  BY ONLY <1>4, <1>5, d \in Side, m \in Children, RotateStoresStores
<1>8. Agree(RotateStores(ch, old, up, d), RotateStores(m, old, up, d), tr)
  BY <1>4, RotateAgrees
<1>9. PICK c, n : c = RotateStores(ch, old, up, d) /\ n = RotateStores(m, old, up, d)
  OBVIOUS
<1>10. across # up
  <2>1. across # NULL => h[across] < h[up]
    BY <1>1, <1>4, SidesAgree DEF Below
  <2>2. up # NULL /\ h[up] \in Nat
    BY <1>4, <1>5, NodeAssumption
  <2>3. QED
    BY <2>1, <2>2
<1>11. ASSUME NEW x \in tr, NEW e \in Side
       PROVE  /\ c[x][e] = IF x = old /\ e # d THEN across ELSE IF x = up /\ e = d THEN old ELSE ch[x][e]
              /\ n[x][e] = IF x = old /\ e # d THEN across ELSE IF x = up /\ e = d THEN old ELSE m[x][e]
              /\ c[x][e] # up
  <2>1. x \in Node
    OBVIOUS
  <2>2. c[x][e] = IF x = old /\ e # d THEN across ELSE IF x = up /\ e = d THEN old ELSE ch[x][e]
    BY <1>1, <1>6, <1>9, <2>1
  <2>3. n[x][e] = IF x = old /\ e # d THEN across ELSE IF x = up /\ e = d THEN old ELSE m[x][e]
    BY <1>7, <1>9, <2>1
  <2>4. ch[x][e] = up => x = old /\ e # d
    BY Sides DEF OnlyFrom
  <2>5. QED
    BY <1>4, <1>10, <2>2, <2>3, <2>4
<1>12. <<>> \o Rotation(old, up, across, d) = Rotation(old, up, across, d)
  BY DEF Rotation
<1>13. Stands(tr, {}, tr, Rotation(old, up, across, d), r0, ch0, r, c, g)
  BY <1>3, <1>9, <1>12
<1>14. Agree(c, n, tr) /\ n \in Children
  BY <1>7, <1>8, <1>9
<1>15. QED
  BY <1>3, <1>9, <1>11, <1>13, <1>14 DEF HalfTurned

\* ... and behind Case 2, which has brought up node below the parent's parent.
LEMMA InsertRotateInner ==
  ASSUME IInv, Still, InsertRotate, stores' = InsertRotateStores,
         node = rb_child[parent][Opposite(SideOf(parent, rb_parent(parent)))]
  PROVE  Arrives(stores', InTree, {}, seen_root, seen_child, rb_node', rb_child')
<1>1. PICK h : IsHeight(h)
  BY HeightsNow
<1>2. Stands(InTree, {}, InTree, <<>>, seen_root, seen_child, seen_root, seen_child, h)
  BY <1>1, StillStands
<1>3. PICK g, d, o, p : /\ g = rb_parent(parent) /\ d = SideOf(parent, g) /\ o = Opposite(d)
                        /\ p = rb_parent(g)
  OBVIOUS
<1>4. pc = "insert" /\ parent # NULL /\ rb_is_red(parent)
  BY DEF InsertRotate
<1>5. /\ node \in InTree /\ parent \in InTree /\ g \in InTree
      /\ d \in Side /\ rb_child[g][d] = parent /\ node # parent /\ rb_parent(node) = parent
      /\ h[node] < h[parent] /\ h[parent] < h[g]
  BY <1>1, <1>3, <1>4, AroundInsert
<1>6. o \in Side /\ Opposite(o) = d /\ o # d
  BY <1>3, <1>5, Sides
<1>7. p \in InTree \cup {NULL} /\ (p # NULL => h[g] < h[p])
  BY <1>1, <1>3, <1>5, ParentIsHigher
<1>8. /\ rb_child \in Children /\ InTree \in SUBSET Node
      /\ Agree(seen_child, rb_child, InTree) /\ seen_root = rb_node
      /\ h \in [InTree -> Nat]
  BY <1>1 DEF IInv, TypeOK, Children, InTree, Still, IsHeight
<1>9. node = rb_child[parent][o]
  BY <1>3
<1>10. OnlyFrom(seen_child, InTree, node, parent, Opposite(d))
  BY <1>3, <1>5, <1>6, <1>8, <1>9, OnePointer
<1>11. PICK x : x = rb_child[node][d]
  OBVIOUS
<1>12. PICK c, n, k :
         /\ c = RotateStores(seen_child, parent, node, d) /\ n = RotateStores(rb_child, parent, node, d)
         /\ Stands(InTree, {}, InTree, Rotation(parent, node, x, d), seen_root, seen_child,
                   seen_root, c, k)
         /\ n \in Children /\ Agree(c, n, InTree)
         /\ \A y \in InTree : k[y] = IF y = node THEN 2 * h[parent] + 1 ELSE 2 * h[y]
         /\ \A y \in InTree, e \in Side :
              /\ c[y][e] = IF y = parent /\ e # d THEN x ELSE IF y = node /\ e = d THEN parent ELSE seen_child[y][e]
              /\ n[y][e] = IF y = parent /\ e # d THEN x ELSE IF y = node /\ e = d THEN parent ELSE rb_child[y][e]
         /\ \A y \in InTree, e \in Side : c[y][e] # node
  <2>1. /\ rb_child \in Children /\ Agree(seen_child, rb_child, InTree)
        /\ parent \in InTree /\ node \in InTree /\ d \in Side /\ h[node] < h[parent]
    BY <1>5, <1>8
  <2>2. InTree \in SUBSET Node
    BY <1>8
  <2>3. HalfTurned(InTree, seen_root, seen_child, seen_root, seen_child, rb_child, h,
                   parent, node, d, x)
    BY ONLY <1>2, <1>10, <1>11, <2>1, <2>2, HalfTurn
  <2>4. QED
    BY ONLY <2>3 DEF HalfTurned
<1>13. k[node] < k[g] /\ (p # NULL => k[g] < k[p])
  <2>1. g # node /\ (p # NULL => p # node /\ p \in InTree)
    BY <1>5, <1>7, <1>8
  <2>2. QED
    BY <1>5, <1>7, <1>8, <1>12, <2>1
<1>14. OnlyFrom(c, InTree, node, g, Opposite(o))
  BY <1>12 DEF OnlyFrom
<1>15. SameSide(c, p, g)
  <2>1. p # NULL => p \in InTree /\ p # node /\ p # parent
    BY <1>5, <1>7, <1>8
  <2>2. p # NULL => c[p]["left"] = rb_child[p]["left"]
    BY <1>8, <1>12, <2>1, Sides DEF Agree
  <2>3. QED
    BY <2>2 DEF SameSide, At
<1>16. PICK y : y = n[node][o]
  OBVIOUS
<1>17. y = rb_child[node][o]
  BY <1>5, <1>6, <1>12, <1>16
<1>18. /\ rb_child' = ChangeChild(RotateStores(n, g, node, o), g, node, p)
       /\ rb_node' = IF p = NULL THEN node ELSE seen_root
  BY <1>3, <1>8, <1>9, <1>12 DEF InsertRotate, ChangeRoot
<1>19. stores' = (Rotation(parent, node, x, d) \o Rotation(g, node, y, o))
                 \o <<ChangeChildStore(g, node, p)>>
  BY ONLY <1>3, <1>9, <1>11, <1>17, stores' = InsertRotateStores, Zenon DEF InsertRotateStores
<1>20. PICK st, r2, m2 : st = stores' /\ r2 = rb_node' /\ m2 = rb_child'
  OBVIOUS
<1>21. Arrives(st, InTree, {}, seen_root, seen_child, r2, m2)
  <2>1. /\ st = (Rotation(parent, node, x, d) \o Rotation(g, node, y, o))
                \o <<ChangeChildStore(g, node, p)>>
        /\ m2 = ChangeChild(RotateStores(n, g, node, o), g, node, p)
        /\ r2 = IF p = NULL THEN node ELSE seen_root
    BY <1>18, <1>19, <1>20
  <2>2. /\ node \in InTree /\ g \in InTree /\ o \in Side /\ k[node] < k[g]
        /\ n \in Children /\ Agree(c, n, InTree)
        /\ p \in InTree \cup {NULL}
        /\ Stands(InTree, {}, InTree, Rotation(parent, node, x, d), seen_root, seen_child,
                   seen_root, c, k)
    BY <1>5, <1>6, <1>7, <1>12, <1>13
  <2>3. p # NULL => k[g] < k[p]
    BY <1>13
  <2>4. InTree \in SUBSET Node
    BY <1>8
  <2>5. QED
    BY ONLY <1>14, <1>15, <1>16, <2>1, <2>2, <2>3, <2>4, TurnArrives
<1>22. QED
  BY <1>20, <1>21

\* Both cases of an insertion.
LEMMA InsertRotateArrives ==
  ASSUME IInv, Still, InsertRotate, stores' = InsertRotateStores
  PROVE  Arrives(stores', InTree, {}, seen_root, seen_child, rb_node', rb_child')
BY InsertRotateOuter, InsertRotateInner

\* The places of an erasure's rotations.
LEMMA AroundErase ==
  ASSUME IInv, NEW h, IsHeight(h), pc = "erase_color", NEW d, d = SideOf(node, parent)
  PROVE  /\ d \in Side /\ Opposite(d) \in Side /\ Opposite(d) # d
         /\ parent \in InTree /\ Sibling \in InTree
         /\ rb_child[parent][Opposite(d)] = Sibling /\ rb_parent(Sibling) = parent
         /\ h[Sibling] < h[parent]
         /\ \A e \in Side : Nephew(e) # NULL =>
              Nephew(e) \in InTree /\ rb_parent(Nephew(e)) = Sibling /\ h[Nephew(e)] < h[Sibling]
<1>1. PICK B \in [Node -> Nat] : Labels(B)
  BY DEF IInv
<1>2. /\ parent \in InTree /\ d \in Side /\ Sibling \in InTree
      /\ rb_child[parent][Opposite(d)] = Sibling /\ rb_parent(Sibling) = parent
      /\ \A e \in Side : Nephew(e) # NULL =>
           Nephew(e) \in InTree /\ rb_parent(Nephew(e)) = Sibling
  BY <1>1, AroundShort DEF InTree
<1>3. Opposite(d) \in Side /\ Opposite(d) # d
  BY <1>2, Sides
<1>4. parent # NULL /\ Sibling # NULL
  BY <1>2, NodeAssumption DEF InTree
<1>5. h[Sibling] < h[parent]
  BY <1>2, <1>4, ParentIsHigher
<1>6. ASSUME NEW e \in Side, Nephew(e) # NULL PROVE h[Nephew(e)] < h[Sibling]
  BY <1>2, <1>4, <1>6, ParentIsHigher
<1>7. QED
  BY <1>2, <1>3, <1>5, <1>6

\* Case 1 of ____rb_erase_color.
LEMMA EraseRedSiblingArrives ==
  ASSUME IInv, Still, EraseRedSibling, stores' = EraseRedSiblingStores
  PROVE  Arrives(stores', InTree, {}, seen_root, seen_child, rb_node', rb_child')
<1>1. PICK h : IsHeight(h)
  BY HeightsNow
<1>2. PICK d, s, p, across : /\ d = SideOf(node, parent) /\ s = Sibling /\ p = rb_parent(parent)
                             /\ across = rb_child[s][d]
  OBVIOUS
<1>3. /\ d \in Side /\ parent \in InTree /\ s \in InTree
      /\ rb_child[parent][Opposite(d)] = s /\ rb_parent(s) = parent
  BY <1>1, <1>2, AroundErase DEF EraseRedSibling
<1>4. /\ rb_child' = ChangeChild(RotateStores(rb_child, parent, s, d), parent, s, p)
      /\ rb_node' = ChangeRoot(s, p)
  BY <1>2 DEF EraseRedSibling
<1>5. stores' = Append(Rotation(parent, s, across, d), ChangeChildStore(parent, s, p))
  BY <1>2 DEF EraseRedSiblingStores, Nephew
<1>6. PICK c : c = ChangeChildStore(parent, s, p)
  OBVIOUS
<1>7. Append(Rotation(parent, s, across, d), c) = (<<>> \o Rotation(parent, s, across, d)) \o <<c>>
  BY DEF Rotation
<1>8. PICK st, r2, m2 : st = stores' /\ r2 = rb_node' /\ m2 = rb_child'
  OBVIOUS
<1>9. Arrives(st, InTree, {}, seen_root, seen_child, r2, m2)
  <2>1. /\ st = (<<>> \o Rotation(parent, s, across, d)) \o <<ChangeChildStore(parent, s, p)>>
        /\ m2 = ChangeChild(RotateStores(rb_child, parent, s, d), parent, s, p)
        /\ r2 = ChangeRoot(s, p)
    BY <1>4, <1>5, <1>6, <1>7, <1>8
  <2>2. /\ parent \in InTree /\ s \in InTree /\ d \in Side
        /\ rb_child[parent][Opposite(d)] = s
        /\ rb_parent(s) = parent /\ p = rb_parent(parent) /\ across = rb_child[s][d]
    BY <1>2, <1>3
  <2>3. QED
    BY ONLY IInv, Still, <1>1, <2>1, <2>2, OneTurn
<1>10. QED
  BY <1>8, <1>9

\* Case 4 of ____rb_erase_color alone ...
LEMMA EraseRotateOuter ==
  ASSUME IInv, Still, EraseRotate, stores' = EraseRotateStores,
         ~BlackOrNull(Nephew(Opposite(SideOf(node, parent))))
  PROVE  Arrives(stores', InTree, {}, seen_root, seen_child, rb_node', rb_child')
<1>1. PICK h : IsHeight(h)
  BY HeightsNow
<1>2. PICK d, s, p, across : /\ d = SideOf(node, parent) /\ s = Sibling /\ p = rb_parent(parent)
                             /\ across = rb_child[s][d]
  OBVIOUS
<1>3. /\ d \in Side /\ parent \in InTree /\ s \in InTree
      /\ rb_child[parent][Opposite(d)] = s /\ rb_parent(s) = parent
  BY <1>1, <1>2, AroundErase DEF EraseRotate
<1>i. ~BlackOrNull(Nephew(Opposite(d)))
  BY <1>2
<1>4. /\ rb_child' = ChangeChild(RotateStores(rb_child, parent, s, d), parent, s, p)
      /\ rb_node' = ChangeRoot(s, p)
  BY <1>2, <1>i DEF EraseRotate
<1>5. stores' = (<<>> \o Rotation(parent, s, across, d)) \o <<ChangeChildStore(parent, s, p)>>
  BY <1>2, <1>i DEF EraseRotateStores
<1>8. PICK st, r2, m2 : st = stores' /\ r2 = rb_node' /\ m2 = rb_child'
  OBVIOUS
<1>9. Arrives(st, InTree, {}, seen_root, seen_child, r2, m2)
  <2>1. /\ st = (<<>> \o Rotation(parent, s, across, d)) \o <<ChangeChildStore(parent, s, p)>>
        /\ m2 = ChangeChild(RotateStores(rb_child, parent, s, d), parent, s, p)
        /\ r2 = ChangeRoot(s, p)
    BY <1>4, <1>5, <1>8
  <2>2. /\ parent \in InTree /\ s \in InTree /\ d \in Side
        /\ rb_child[parent][Opposite(d)] = s
        /\ rb_parent(s) = parent /\ p = rb_parent(parent) /\ across = rb_child[s][d]
    BY <1>2, <1>3
  <2>3. QED
    BY ONLY IInv, Still, <1>1, <2>1, <2>2, OneTurn
<1>10. QED
  BY <1>8, <1>9

\* ... and behind Case 3, which has brought up the inner nephew above the sibling.
LEMMA EraseRotateInner ==
  ASSUME IInv, Still, EraseRotate, stores' = EraseRotateStores,
         BlackOrNull(Nephew(Opposite(SideOf(node, parent))))
  PROVE  Arrives(stores', InTree, {}, seen_root, seen_child, rb_node', rb_child')
<1>1. PICK h : IsHeight(h)
  BY HeightsNow
<1>2. Stands(InTree, {}, InTree, <<>>, seen_root, seen_child, seen_root, seen_child, h)
  BY <1>1, StillStands
<1>3. PICK d, o, S, s, p : /\ d = SideOf(node, parent) /\ o = Opposite(d) /\ S = Sibling
                           /\ s = Nephew(d) /\ p = rb_parent(parent)
  OBVIOUS
<1>4. pc = "erase_color" /\ ~NephewsAreBlack /\ BlackOrNull(Nephew(o))
  BY <1>3 DEF EraseRotate
<1>5. /\ d \in Side /\ o \in Side /\ o # d /\ parent \in InTree /\ S \in InTree
      /\ rb_child[parent][o] = S /\ rb_parent(S) = parent /\ h[S] < h[parent]
      /\ \A e \in Side : Nephew(e) # NULL =>
           Nephew(e) \in InTree /\ rb_parent(Nephew(e)) = S /\ h[Nephew(e)] < h[S]
  BY <1>1, <1>3, <1>4, AroundErase
<1>6. Opposite(o) = d
  BY <1>3, <1>5, Sides
<1>7. s # NULL
  <2>1. \A e \in Side : e = d \/ e = o
    BY <1>5 DEF Side
  <2>2. ~BlackOrNull(s)
    BY <1>3, <1>4, <2>1 DEF NephewsAreBlack
  <2>3. QED
    BY <2>2 DEF BlackOrNull
<1>8. s \in InTree /\ rb_parent(s) = S /\ h[s] < h[S] /\ rb_child[S][d] = s
  <2>1. rb_child[S][d] = s
    BY <1>3 DEF Nephew
  <2>2. QED
    BY <1>3, <1>5, <1>7, <2>1
<1>9. p \in InTree \cup {NULL} /\ (p # NULL => h[parent] < h[p])
  BY <1>1, <1>3, <1>5, ParentIsHigher
<1>10. /\ rb_child \in Children /\ InTree \in SUBSET Node
       /\ Agree(seen_child, rb_child, InTree) /\ seen_root = rb_node
       /\ h \in [InTree -> Nat]
  BY <1>1 DEF IInv, TypeOK, Children, InTree, Still, IsHeight
<1>11. OnlyFrom(seen_child, InTree, s, S, Opposite(o))
  BY <1>5, <1>6, <1>8, <1>10, OnePointer
<1>12. PICK x : x = rb_child[s][o]
  OBVIOUS
<1>13. PICK c, n, k :
         /\ c = RotateStores(seen_child, S, s, o) /\ n = RotateStores(rb_child, S, s, o)
         /\ Stands(InTree, {}, InTree, Rotation(S, s, x, o), seen_root, seen_child,
                   seen_root, c, k)
         /\ n \in Children /\ Agree(c, n, InTree)
         /\ \A y \in InTree : k[y] = IF y = s THEN 2 * h[S] + 1 ELSE 2 * h[y]
         /\ \A y \in InTree, e \in Side :
              /\ c[y][e] = IF y = S /\ e # o THEN x ELSE IF y = s /\ e = o THEN S ELSE seen_child[y][e]
              /\ n[y][e] = IF y = S /\ e # o THEN x ELSE IF y = s /\ e = o THEN S ELSE rb_child[y][e]
         /\ \A y \in InTree, e \in Side : c[y][e] # s
  <2>1. /\ rb_child \in Children /\ Agree(seen_child, rb_child, InTree)
        /\ S \in InTree /\ s \in InTree /\ o \in Side /\ h[s] < h[S]
    BY <1>5, <1>8, <1>10
  <2>2. InTree \in SUBSET Node
    BY <1>10
  <2>3. HalfTurned(InTree, seen_root, seen_child, seen_root, seen_child, rb_child, h,
                   S, s, o, x)
    BY ONLY <1>2, <1>11, <1>12, <2>1, <2>2, HalfTurn
  <2>4. QED
    BY ONLY <2>3 DEF HalfTurned
<1>14. k[s] < k[parent] /\ (p # NULL => k[parent] < k[p])
  <2>1. parent # s /\ (p # NULL => p # s /\ p \in InTree)
    BY <1>5, <1>8, <1>9, <1>10
  <2>2. QED
    BY <1>5, <1>8, <1>9, <1>10, <1>13, <2>1
<1>15. PICK st, c2, n2 :
         st = Store(parent, o, s) /\ c2 = Stored(c, st) /\ n2 = [n EXCEPT ![parent][o] = s]
  OBVIOUS
<1>16. /\ st \in StoreTo(InTree) /\ st.of = parent /\ st.side = o /\ st.to = s
       /\ parent # NULL
  <2>1. parent \in NodeOrNil /\ o \in Side /\ s \in InTree \cup {NULL} /\ parent # NULL
    BY <1>5, <1>8, <1>10, NodeAssumption DEF NodeOrNil
  <2>2. /\ Store(parent, o, s) \in StoreTo(InTree) /\ Store(parent, o, s).of = parent
        /\ Store(parent, o, s).side = o /\ Store(parent, o, s).to = s
    BY ONLY <2>1 DEF Store, StoreTo
  <2>3. QED
    BY <1>15, <2>1, <2>2
<1>17. PICK seq : seq = Append(Rotation(S, s, x, o), st)
  OBVIOUS
<1>18. Stands(InTree, {}, InTree, seq, seen_root, seen_child, seen_root, c2, k)
  <2>1. st.of \in InTree \cup {NULL} /\ (st.of # NULL /\ st.to # NULL => k[st.to] < k[st.of])
    BY <1>5, <1>14, <1>16
  <2>2. seen_root = StoredRoot(seen_root, st)
    BY <1>16 DEF StoredRoot
  <2>3. /\ st \in StoreTo(InTree) /\ InTree \in SUBSET Node /\ c2 = Stored(c, st)
        /\ Stands(InTree, {}, InTree, Rotation(S, s, x, o), seen_root, seen_child,
                  seen_root, c, k)
    BY <1>10, <1>13, <1>15, <1>16
  <2>4. Stands(InTree, {}, InTree, Append(Rotation(S, s, x, o), st), seen_root, seen_child,
               seen_root, c2, k)
    BY ONLY <2>1, <2>2, <2>3, StandsOn
  <2>5. QED
    BY <1>17, <2>4
<1>19. \A y \in InTree, e \in Side :
         /\ c2[y][e] = IF y = parent /\ e = o THEN s ELSE c[y][e]
         /\ n2[y][e] = IF y = parent /\ e = o THEN s ELSE n[y][e]
  <2>1. c \in Children
    BY <1>13 DEF Stands
  <2>2. \A y \in Node, e \in Side :
          Stored(c, st)[y][e] = IF y = st.of /\ e = st.side THEN st.to ELSE c[y][e]
    BY ONLY <1>10, <1>16, <2>1, StoredTypes
  <2>3. \A y \in Node, e \in Side : n2[y][e] = IF y = parent /\ e = o THEN s ELSE n[y][e]
    BY <1>5, <1>10, <1>13, <1>15 DEF Children
  <2>4. QED
    BY <1>10, <1>15, <1>16, <2>2, <2>3
<1>20. n2 \in Children /\ Agree(c2, n2, InTree)
  <2>1. n2 \in Children
    BY <1>8, <1>10, <1>13, <1>15 DEF Children, NodeOrNil
  <2>2. QED
    BY <1>13, <1>19, <2>1 DEF Agree
<1>21. OnlyFrom(c2, InTree, s, parent, Opposite(d))
  BY <1>3, <1>13, <1>19 DEF OnlyFrom
<1>22. SameSide(c2, p, parent)
  <2>1. p # NULL => p \in InTree /\ p # parent /\ p # S /\ p # s
    BY <1>5, <1>8, <1>9, <1>10
  <2>2. p # NULL => c2[p]["left"] = rb_child[p]["left"]
    BY <1>10, <1>13, <1>19, <2>1, Sides DEF Agree
  <2>3. QED
    BY <2>2 DEF SameSide, At
<1>23. PICK y : y = n2[s][d]
  OBVIOUS
<1>24. y = rb_child[s][d]
  BY <1>5, <1>8, <1>10, <1>13, <1>19, <1>23
<1>25. /\ rb_child' = ChangeChild(RotateStores(n2, parent, s, d), parent, s, p)
       /\ rb_node' = IF p = NULL THEN s ELSE seen_root
  BY <1>3, <1>4, <1>10, <1>13, <1>15 DEF EraseRotate, ChangeRoot
<1>26. stores' = (seq \o Rotation(parent, s, y, d)) \o <<ChangeChildStore(parent, s, p)>>
  BY ONLY <1>3, <1>4, <1>12, <1>15, <1>17, <1>24, stores' = EraseRotateStores, Zenon
  DEF EraseRotateStores
<1>27. PICK all, r2, m2 : all = stores' /\ r2 = rb_node' /\ m2 = rb_child'
  OBVIOUS
<1>28. Arrives(all, InTree, {}, seen_root, seen_child, r2, m2)
  <2>1. /\ all = (seq \o Rotation(parent, s, y, d)) \o <<ChangeChildStore(parent, s, p)>>
        /\ m2 = ChangeChild(RotateStores(n2, parent, s, d), parent, s, p)
        /\ r2 = IF p = NULL THEN s ELSE seen_root
    BY <1>25, <1>26, <1>27
  <2>2. /\ s \in InTree /\ parent \in InTree /\ d \in Side /\ k[s] < k[parent]
        /\ p \in InTree \cup {NULL}
    BY <1>5, <1>8, <1>9, <1>14
  <2>3. p # NULL => k[parent] < k[p]
    BY <1>14
  <2>4. InTree \in SUBSET Node
    BY <1>10
  <2>5. QED
    BY ONLY <1>18, <1>20, <1>21, <1>22, <1>23, <2>1, <2>2, <2>3, <2>4, TurnArrives
<1>29. QED
  BY <1>27, <1>28

\* Both cases of an erasure.
LEMMA EraseRotateArrives ==
  ASSUME IInv, Still, EraseRotate, stores' = EraseRotateStores
  PROVE  Arrives(stores', InTree, {}, seen_root, seen_child, rb_node', rb_child')
BY EraseRotateOuter, EraseRotateInner

-----------------------------------------------------------------------------
(* Nodes that come and go. *)

\* Where no pointer has changed above e, a walk from the root still meets e.
LEMMA StillMet ==
  ASSUME IInv, NEW h, IsHeight(h), NEW e \in InTree,
         NEW ch \in Children, NEW g \in [InTree -> Nat], Below(ch, InTree, NULL, g),
         \A n \in InTree, d \in Side : h[e] < h[n] => ch[n][d] = rb_child[n][d]
  PROVE  e \in Elements(InOrder(ch, rb_node))
<1>1. /\ InTree \in SUBSET Node /\ IsFiniteSet(InTree)
      /\ Cardinality(InTree) \in Nat /\ Cardinality(InTree) =< Max
  BY FiniteNodes, FS_Subset, FS_CardinalityType DEF InTree, Max
<1>2. PICK f \in [InTree -> 1..Cardinality(InTree)] : Below(ch, InTree, NULL, f)
  BY <1>1, LowHeights
<1>3. \A n \in InTree : f[n] \in 1..Max
  BY <1>1, <1>2, MaxType
<1>4. PICK w : w = Walk(ch)
  OBVIOUS
<1>5. IsInOrder(w, ch, InTree, NULL)
  BY <1>1, <1>2, <1>3, <1>4, MaxType, InOrderUnfolds DEF Walk, NodeOrNil
<1>6. \A n \in InTree : /\ n \in Nodes(w, n)
                        /\ \A m \in Nodes(w, n), d \in TwoSides :
                             ch[m][d] # NULL => ch[m][d] \in Nodes(w, n)
  BY <1>2, <1>3, <1>5, MaxType, WalkGoesOn
<1>7. /\ Shaped(rb_child, Par, InTree, NULL, h, Max)
      /\ Rooted(rb_child, Par, rb_node, InTree, NULL)
  <2>1. InTree = Members(Par)
    BY LinkedInList
  <2>2. PICK h2 : /\ Shaped(rb_child, Par, Members(Par), NULL, h2, Max)
                  /\ Rooted(rb_child, Par, rb_node, Members(Par), NULL)
    BY TreeHere
  <2>3. Shaped(rb_child, Par, InTree, NULL, h, Max)
    BY <2>1, <2>2 DEF Shaped, IsHeight
  <2>4. QED
    BY <2>1, <2>2, <2>3
<1> DEFINE T == Nodes(w, rb_node) \cup {n \in InTree : h[n] < h[e]}
<1>8. ASSUME NEW n \in InTree, \A m \in InTree : h[n] < h[m] => m \in T PROVE n \in T
  <2>1. h[n] \in Nat /\ h[e] \in Nat
    BY DEF IsHeight
  <2>2. CASE h[n] < h[e]
    BY <2>2
  <2>3. CASE Par[n] = NULL
    BY <1>6, <1>7, <2>3 DEF Rooted
  <2>4. CASE ~(h[n] < h[e]) /\ Par[n] # NULL
    <3>1. Par[n] \in InTree
      BY <1>7, <2>4 DEF Rooted
    <3>2. PICK d \in TwoSides : rb_child[Par[n]][d] = n
      BY <1>7, <2>4 DEF Rooted
    <3>3. n # NULL
      BY <1>1, NodeAssumption
    <3>4. h[n] < h[Par[n]]
      BY <3>1, <3>2, <3>3 DEF IsHeight, Below
    <3>5. h[Par[n]] \in Nat
      BY <3>1 DEF IsHeight
    <3>6. Par[n] \in Nodes(w, rb_node)
      BY <1>8, <2>1, <2>4, <3>1, <3>4, <3>5
    <3>7. ch[Par[n]][d] = n
      BY <2>1, <2>4, <3>1, <3>2, <3>4, <3>5, SidesAgree
    <3>8. rb_node \in InTree
      <4>1. Nodes(w, NULL) = {}
        BY <1>2, <1>5, NodesOfWalk
      <4>2. QED
        BY <1>7, <3>6, <4>1 DEF Rooted
    <3>9. QED
      BY <1>6, <3>3, <3>6, <3>7, <3>8
  <2>5. QED
    BY <2>2, <2>3, <2>4
<1> HIDE DEF T
<1>9. e \in T
  BY <1>7, <1>8, MaxType, DownwardInduction
<1>10. ~(h[e] < h[e])
  BY DEF IsHeight
<1>11. e \in Nodes(w, rb_node)
  BY <1>9, <1>10 DEF T
<1>12. InOrder(ch, rb_node) = w[rb_node]
  BY <1>4, WalksOfShape DEF Walk
<1>13. QED
  BY <1>11, <1>12 DEF Nodes

\* A new node whose children are in the tree takes its place among the heights.
LEMMA StandsEnters ==
  ASSUME NEW tr, NEW new, NEW T \in SUBSET Node, NEW seq, NEW r0, NEW ch0,
         NEW r, NEW ch, NEW h, Stands(tr, new, T, seq, r0, ch0, r, ch, h),
         NEW n \in Node \ T, \A d \in Side : ch[n][d] \in T \cup {NULL}, NEW v \in Nat,
         \A d \in Side : ch[n][d] # NULL => h[ch[n][d]] < v,
         NEW g, g = [m \in T \cup {n} |-> IF m = n THEN v ELSE h[m]]
  PROVE  Stands(tr, new, T \cup {n}, seq, r0, ch0, r, ch, g)
<1>1. /\ Leads(seq, tr, new, r0, ch0, r, ch)
      /\ r \in T \cup {NULL} /\ ch \in Children
      /\ h \in [T -> Nat] /\ Below(ch, T, NULL, h)
  BY DEF Stands
<1>2. PICK k \in [Node -> Nat] : Outside(ch, T, k)
  BY DEF Stands
<1>3. Below(ch, T \cup {n}, NULL, g) /\ Outside(ch, T \cup {n}, k)
  <2>1. \A m \in T \cup {n} : g[m] = IF m = n THEN v ELSE h[m]
    OBVIOUS
  <2>2. Below(ch, T \cup {n}, NULL, g)
    BY <1>1, <2>1, NodeAssumption, SidesAgree DEF Below
  <2>3. QED
    BY <1>2, <2>2 DEF Outside
<1>4. g \in [T \cup {n} -> Nat]
  BY <1>1
<1>5. QED
  BY <1>1, <1>2, <1>3, <1>4 DEF Stands

\* The store that takes the last pointer to e away.
LEMMA StandsLeaves ==
  ASSUME NEW tr \in SUBSET Node, NEW new, NEW T \in SUBSET Node, NEW seq, NEW r0, NEW ch0,
         NEW r, NEW ch, NEW h, Stands(tr, new, T, seq, r0, ch0, r, ch, h),
         NEW e \in T, tr = T \ {e},
         NEW s \in StoreTo(tr), s.of \in T \cup {NULL},
         s.of # NULL /\ s.to # NULL => h[s.to] < h[s.of],
         NEW r3, r3 = StoredRoot(r, s), NEW ch3, ch3 = Stored(ch, s),
         r3 # e, \A n \in T, d \in Side : ch3[n][d] # e
  PROVE  \E g : Stands(tr, new, tr, Append(seq, s), r0, ch0, r3, ch3, g)
<1> USE NodeAssumption
<1>1. /\ Leads(seq, tr, new, r0, ch0, r, ch)
      /\ r \in T \cup {NULL} /\ ch \in Children
      /\ h \in [T -> Nat] /\ Below(ch, T, NULL, h)
  BY DEF Stands
<1>2. PICK k \in [Node -> Nat] : Outside(ch, T, k)
  BY DEF Stands
<1>3. s.to \in tr \cup {NULL} /\ s.to \in T \cup {NULL}
  BY DEF StoreTo
<1>4. Below(ch3, T, NULL, h) /\ Outside(ch3, T, k)
  BY <1>1, <1>2, <1>3, StoreDown
<1>5. ch3 \in Children
  BY <1>1, StoredTypes
<1>6. PICK k2 \in [Node -> Nat] : Outside(ch3, tr, k2)
  BY <1>1, <1>4, <1>5, LeavesTree
<1>7. PICK g : g = [n \in tr |-> h[n]]
  OBVIOUS
<1>8. g \in [tr -> Nat] /\ Below(ch3, tr, NULL, g)
  <2>1. g \in [tr -> Nat] /\ \A n \in tr : g[n] = h[n]
    BY <1>1, <1>7
  <2>2. ASSUME NEW n \in tr, NEW d \in TwoSides, NEW c, c = ch3[n][d], c # NULL
        PROVE  c \in tr /\ g[c] < g[n]
    <3>1. c \in T /\ h[c] < h[n]
      BY <1>4, <2>2 DEF Below
    <3>2. c # e
      BY <2>2, SidesAgree
    <3>3. QED
      BY <2>1, <3>1, <3>2
  <2>3. QED
    BY <2>1, <2>2 DEF Below
<1>9. r3 \in tr \cup {NULL}
  BY <1>1, <1>3 DEF StoredRoot
<1>10. Safe(r3, ch3, tr, new)
  BY <1>6, <1>8, <1>9, SafeWhere
<1>11. Leads(Append(seq, s), tr, new, r0, ch0, StoredRoot(r, s), Stored(ch, s))
  BY <1>1, <1>10, LeadsOn
<1>12. QED
  BY <1>5, <1>6, <1>8, <1>9, <1>11 DEF Stands

\* The stores have arrived where they lead.
LEMMA StandsThere ==
  ASSUME NEW tr, NEW new, NEW seq, NEW r0, NEW ch0, NEW r, NEW ch, NEW h,
         Stands(tr, new, tr, seq, r0, ch0, r, ch, h), NEW m, Agree(ch, m, tr)
  PROVE  Arrives(seq, tr, new, r0, ch0, r, m)
BY DEF Stands, Arrives

\* Plain stores to a node that pass, or are passed by, the store that publishes it.
LEMMA OtherOrder ==
  ASSUME NEW tr \in SUBSET Node, NEW new, NEW a, NEW b, NEW c,
         a \in StoreTo(tr), b \in StoreTo(tr), c \in StoreTo(tr),
         a.of \in Node, b.of = a.of, c.of # a.of, ~PlainInOrder,
         NEW r \in NodeOrNil, NEW ch \in Children
  PROVE  \A r2, ch2 : Leads(<<a, b, c>>, tr, new, r, ch, r2, ch2)
                        => Leads(<<c, a, b>>, tr, new, r, ch, r2, ch2)
<1> USE NodeAssumption
<1>1. \A s : s \in StoreTo(tr) => \A m \in Children :
        /\ \A q \in NodeOrNil : StoredRoot(q, s) \in NodeOrNil
        /\ Stored(m, s) \in Children
        /\ \A n \in Node, d \in Side :
             Stored(m, s)[n][d] = IF n = s.of /\ d = s.side THEN s.to ELSE m[n][d]
  BY StoredTypes
<1>2. ASSUME NEW x \in StoreTo(tr), NEW y \in StoreTo(tr), NEW z \in StoreTo(tr)
      PROVE  Leads(<<x, y, z>>, tr, new, r, ch,
                   StoredRoot(StoredRoot(StoredRoot(r, x), y), z),
                   Stored(Stored(Stored(ch, x), y), z))
  <2>1. PICK s0 : s0 = <<>>
    OBVIOUS
  <2>2. Leads(s0, tr, new, r, ch, r, ch)
    BY <2>1, LeadsNowhere
  <2>3. Leads(Append(s0, x), tr, new, r, ch, StoredRoot(r, x), Stored(ch, x))
    BY <1>2, <2>2, LeadsOn
  <2>4. Leads(Append(Append(s0, x), y), tr, new, r, ch,
              StoredRoot(StoredRoot(r, x), y), Stored(Stored(ch, x), y))
    BY <1>2, <2>3, LeadsOn
  <2>5. Leads(Append(Append(Append(s0, x), y), z), tr, new, r, ch,
              StoredRoot(StoredRoot(StoredRoot(r, x), y), z), Stored(Stored(Stored(ch, x), y), z))
    BY <1>2, <2>4, LeadsOn
  <2>6. <<x, y, z>> = Append(Append(Append(<<>>, x), y), z)
    OBVIOUS
  <2>7. QED
    BY <2>1, <2>5, <2>6
<1>3. \A q : StoredRoot(q, a) = q /\ StoredRoot(q, b) = q
  BY DEF StoredRoot
<1>4. ASSUME NEW r2, NEW ch2, Leads(<<a, b, c>>, tr, new, r, ch, r2, ch2)
      PROVE  r2 = StoredRoot(r, c) /\ ch2 = Stored(Stored(Stored(ch, a), b), c)
  <2>1. Len(<<a, b, c>>) = 3 /\ <<a, b, c>>[1] = a /\ <<a, b, c>>[2] = b /\ <<a, b, c>>[3] = c
    OBVIOUS
  <2>2. PICK seq : seq = <<a, b, c>> /\ Len(seq) = 3 /\ seq[1] = a /\ seq[2] = b /\ seq[3] = c
    BY <2>1
  <2>3. PICK rs, ms :
          /\ rs[0] = r /\ ms[0] = ch /\ rs[3] = r2 /\ ms[3] = ch2
          /\ \A i \in 1..3 :
               rs[i] = StoredRoot(rs[i - 1], seq[i]) /\ ms[i] = Stored(ms[i - 1], seq[i])
    BY <1>4, <2>2 DEF Leads
  <2>4. /\ rs[1] = StoredRoot(r, a) /\ ms[1] = Stored(ch, a)
        /\ rs[2] = StoredRoot(rs[1], b) /\ ms[2] = Stored(ms[1], b)
        /\ r2 = StoredRoot(rs[2], c) /\ ch2 = Stored(ms[2], c)
    <3>1. 1 \in 1..3 /\ 2 \in 1..3 /\ 3 \in 1..3 /\ 1 - 1 = 0 /\ 2 - 1 = 1 /\ 3 - 1 = 2
      OBVIOUS
    <3>2. QED
      BY <2>2, <2>3, <3>1
  <2>5. QED
    BY <1>3, <2>4
<1>5. StoredRoot(StoredRoot(StoredRoot(r, c), a), b) = StoredRoot(r, c)
  BY <1>3
<1>6. Stored(Stored(Stored(ch, c), a), b) = Stored(Stored(Stored(ch, a), b), c)
  <2>1. PICK ca, cab, abc, cc, cca, ccab :
          /\ ca = Stored(ch, a) /\ cab = Stored(ca, b) /\ abc = Stored(cab, c)
          /\ cc = Stored(ch, c) /\ cca = Stored(cc, a) /\ ccab = Stored(cca, b)
    OBVIOUS
  <2>2. /\ ca \in Children /\ cab \in Children /\ abc \in Children
        /\ cc \in Children /\ cca \in Children /\ ccab \in Children
    BY <1>1, <2>1
  <2>3. \A n \in Node, d \in Side :
          /\ ca[n][d] = IF n = a.of /\ d = a.side THEN a.to ELSE ch[n][d]
          /\ cab[n][d] = IF n = b.of /\ d = b.side THEN b.to ELSE ca[n][d]
          /\ abc[n][d] = IF n = c.of /\ d = c.side THEN c.to ELSE cab[n][d]
          /\ cc[n][d] = IF n = c.of /\ d = c.side THEN c.to ELSE ch[n][d]
          /\ cca[n][d] = IF n = a.of /\ d = a.side THEN a.to ELSE cc[n][d]
          /\ ccab[n][d] = IF n = b.of /\ d = b.side THEN b.to ELSE cca[n][d]
    BY <1>1, <2>1, <2>2
  <2>4. \A n \in Node, d \in Side : abc[n][d] = ccab[n][d]
    BY <2>3
  <2>5. QED
    BY <2>1, <2>2, <2>4, SameChildren
<1>7. Leads(<<c, a, b>>, tr, new, r, ch,
            StoredRoot(StoredRoot(StoredRoot(r, c), a), b),
            Stored(Stored(Stored(ch, c), a), b))
  BY <1>2
<1>8. QED
  BY <1>4, <1>5, <1>6, <1>7

\* Nothing has changed above e.
SameAbove(ch, h, e) == \A n \in InTree, d \in Side : h[e] < h[n] => ch[n][d] = rb_child[n][d]

\* A turn that takes e out of the tree, or one that takes nothing out, is about to start.
LEMMA StartStands ==
  ASSUME IInv, Still, NEW h, IsHeight(h), NEW tr \in SUBSET Node, NEW new,
         NEW e, InTree \ {e} \subseteq tr, tr \ new \subseteq InTree
  PROVE  /\ Stands(tr, new, InTree, <<>>, seen_root, seen_child, rb_node, seen_child, h)
         /\ SameAbove(seen_child, h, e)
<1>1. /\ Below(seen_child, InTree, NULL, h) /\ h \in [InTree -> Nat]
      /\ seen_root \in InTree \cup {NULL} /\ seen_root = rb_node /\ seen_child \in Children
  BY StillStands, RootType DEF Stands, Still
<1>2. SameAbove(seen_child, h, e)
  BY DEF SameAbove, Still, Agree
<1>3. InTree \subseteq tr \cup Elements(InOrder(seen_child, seen_root))
  <2>1. ASSUME e \in InTree PROVE e \in Elements(InOrder(seen_child, seen_root))
    BY <1>1, <1>2, <2>1, StillMet DEF SameAbove
  <2>2. QED
    BY <2>1
<1>4. PICK k \in [Node -> Nat] : Outside(seen_child, InTree, k)
  BY DEF Still
<1>5. InTree \in SUBSET Node
  BY DEF InTree
<1>6. Safe(seen_root, seen_child, tr, new)
  BY <1>1, <1>3, <1>4, <1>5, SafeWhere
<1>7. seen_root \in NodeOrNil
  BY <1>1, <1>5 DEF NodeOrNil
<1>8. Leads(<<>>, tr, new, seen_root, seen_child, seen_root, seen_child)
  BY <1>1, <1>6, <1>7, LeadsNowhere
<1>9. QED
  BY <1>1, <1>2, <1>4, <1>8 DEF Stands

\* One store of it, not above e, and one to a node that is not in the tree.
LEMMA StandsBefore ==
  ASSUME IInv, NEW h, IsHeight(h), NEW tr \in SUBSET Node, NEW new,
         NEW e \in InTree, InTree \ {e} \subseteq tr, tr \ new \subseteq InTree,
         NEW seq, NEW r0, NEW ch0, NEW ch, NEW g,
         Stands(tr, new, InTree, seq, r0, ch0, rb_node, ch, g), SameAbove(ch, h, e),
         NEW s \in StoreTo(tr), s.to \in InTree \cup {NULL},
         \/ s.of \in InTree /\ ~(h[e] < h[s.of]) /\ (s.to # NULL => g[s.to] < g[s.of])
         \/ s.of \in Node \ InTree,
         NEW ch3, ch3 = Stored(ch, s)
  PROVE  /\ Stands(tr, new, InTree, Append(seq, s), r0, ch0, rb_node, ch3, g)
         /\ SameAbove(ch3, h, e)
<1> USE NodeAssumption
<1>1. InTree \in SUBSET Node /\ s.of # NULL
  BY DEF InTree
<1>2. ch \in Children /\ g \in [InTree -> Nat] /\ Below(ch, InTree, NULL, g)
  BY DEF Stands
<1>3. /\ ch3 \in Children
      /\ \A n \in Node, d \in Side : ch3[n][d] = IF n = s.of /\ d = s.side THEN s.to ELSE ch[n][d]
  BY <1>2, StoredTypes
<1>4. SameAbove(ch3, h, e)
  BY <1>1, <1>3 DEF SameAbove
<1>5. Below(ch3, InTree, NULL, g)
  BY <1>1, <1>2, <1>3, SidesAgree DEF Below
<1>6. e \in Elements(InOrder(ch3, rb_node))
  BY <1>2, <1>3, <1>4, <1>5, StillMet DEF SameAbove
<1>7. InTree \subseteq tr \cup Elements(InOrder(ch3, rb_node))
  BY <1>6
<1>8. rb_node = StoredRoot(rb_node, s)
  BY <1>1 DEF StoredRoot
<1>9. /\ s.to \in InTree \cup {NULL}
      /\ \/ s.of \in InTree \cup {NULL} /\ (s.of # NULL /\ s.to # NULL => g[s.to] < g[s.of])
         \/ s.of \in Node \ InTree
  OBVIOUS
<1>10. Stands(tr, new, InTree, Append(seq, s), r0, ch0, rb_node, ch3, g)
  BY <1>1, <1>7, <1>8, <1>9, StandsAfter
<1>11. QED
  BY <1>4, <1>10

\* In the memory ch, whose nodes T have the heights h, e hangs below its parent p alone,
\* and up may take its place.
Unlinks(T, tr, ch, h, e, p, up) ==
  /\ e \in InTree /\ InTree \subseteq T /\ T \in SUBSET Node /\ tr = T \ {e}
  /\ p = rb_parent(e) /\ p \in InTree \cup {NULL} /\ SameSide(ch, p, e)
  /\ \A n \in T, d \in Side : ch[n][d] = e => n \in InTree /\ rb_child[n][d] = e
  /\ up \in tr \cup {NULL} /\ (p # NULL /\ up # NULL => h[up] < h[p])

\* The last store of it.
LEMMA ChangeLeaves ==
  ASSUME IInv, NEW tr, NEW new, NEW T, NEW seq, NEW r0, NEW ch0, NEW ch, NEW h,
         Stands(tr, new, T, seq, r0, ch0, rb_node, ch, h),
         NEW e, NEW p, NEW up, Unlinks(T, tr, ch, h, e, p, up),
         NEW m2, Agree(ChangeChild(ch, e, up, p), m2, tr),
         NEW seq2, seq2 = Append(seq, ChangeChildStore(e, up, p)),
         NEW r2, r2 = ChangeRoot(up, p)
  PROVE  Arrives(seq2, tr, new, r0, ch0, r2, m2)
<1>0. /\ e \in InTree /\ InTree \subseteq T /\ T \in SUBSET Node /\ tr = T \ {e}
      /\ p = rb_parent(e) /\ p \in InTree \cup {NULL} /\ SameSide(ch, p, e)
      /\ \A n \in T, d \in Side : ch[n][d] = e => n \in InTree /\ rb_child[n][d] = e
      /\ up \in tr \cup {NULL} /\ (p # NULL /\ up # NULL => h[up] < h[p])
      /\ tr \in SUBSET Node
  BY DEF Unlinks
<1> USE NodeAssumption
<1>1. ch \in Children /\ InTree \in SUBSET Node /\ Links
  BY DEF Stands, InTree, IInv
<1>2. e \in Node /\ p \in NodeOrNil /\ up \in NodeOrNil /\ up # e
  BY <1>0, <1>1 DEF NodeOrNil
<1>3. PICK s : s = ChangeChildStore(e, up, p)
  OBVIOUS
<1>4. /\ s \in StoreTo(tr) /\ s.of = p /\ s.to = up
      /\ StoredRoot(rb_node, s) = IF p = NULL THEN up ELSE rb_node
      /\ Stored(ch, s) = ChangeChild(ch, e, up, p)
  <2>1. IsChange(ChangeChildStore(e, up, p), tr, rb_node, ch, e, up, p)
    BY <1>0, <1>1, <1>2, ChangeIsStore
  <2>2. QED
    BY <1>3, <2>1 DEF IsChange
<1>5. PICK ch3 : ch3 = ChangeChild(ch, e, up, p)
  OBVIOUS
<1>6. \A n \in Node, d \in Side : ch3[n][d] = IF n = p /\ d = At(ch, n, e) THEN up ELSE ch[n][d]
  BY <1>1, <1>2, <1>5, ChangeChildStores
<1>7. ASSUME NEW n \in T, NEW d \in Side PROVE ch3[n][d] # e
  <2>1. SUFFICES ASSUME ch3[n][d] = e PROVE FALSE
    OBVIOUS
  <2>2. ch[n][d] = e /\ ~(n = p /\ d = At(ch, n, e))
    BY <1>0, <1>2, <1>6, <2>1
  <2>3. n \in InTree /\ rb_child[n][d] = e
    BY <1>0, <2>2
  <2>4. n \in Node /\ e # NULL
    BY <1>0, <1>1, <2>3
  <2>5. rb_parent(e) = n /\ rb_child[n][Opposite(d)] # e
    BY <1>1, <2>3, <2>4 DEF Links
  <2>6. n = p /\ p # NULL
    BY <1>0, <2>4, <2>5
  <2>7. At(ch, p, e) = At(rb_child, p, e)
    BY <1>0, <2>6 DEF SameSide
  <2>8. At(rb_child, p, e) = d
    BY <2>3, <2>5, <2>6, Sides DEF At
  <2>9. QED
    BY <2>2, <2>6, <2>7, <2>8
<1>8. r2 # e
  BY <1>0, <1>1, <1>2 DEF Links, ChangeRoot
<1>9. PICK g : Stands(tr, new, tr, Append(seq, s), r0, ch0, r2, ch3, g)
  <2>1. s.of \in T \cup {NULL} /\ (s.of # NULL /\ s.to # NULL => h[s.to] < h[s.of])
    BY <1>0, <1>4
  <2>2. r2 = StoredRoot(rb_node, s) /\ ch3 = Stored(ch, s)
    BY <1>4, <1>5 DEF ChangeRoot
  <2>3. e \in T /\ s \in StoreTo(tr) /\ \A n \in T, d \in Side : ch3[n][d] # e
    BY <1>0, <1>4, <1>7
  <2>4. tr \in SUBSET Node /\ T \in SUBSET Node /\ tr = T \ {e}
    BY <1>0
  <2>5. \E g : Stands(tr, new, tr, Append(seq, s), r0, ch0, r2, ch3, g)
    BY ONLY <1>8, <2>1, <2>2, <2>3, <2>4,
            Stands(tr, new, T, seq, r0, ch0, rb_node, ch, h), StandsLeaves
  <2>6. QED
    BY <2>5
<1>10. Agree(ch3, m2, tr)
  BY <1>5
<1>11. Arrives(Append(seq, s), tr, new, r0, ch0, r2, m2)
  BY ONLY <1>9, <1>10, StandsThere
<1>12. QED
  BY <1>3, <1>11

-----------------------------------------------------------------------------
(* The turns that take a node out or put one in. *)

\* A node's children are lower than it.
LEMMA ChildIsLower ==
  ASSUME IInv, NEW h, IsHeight(h), NEW n \in InTree, NEW d \in Side, NEW c, c = rb_child[n][d]
  PROVE  c \in InTree \cup {NULL} /\ (c # NULL => h[c] < h[n])
BY SidesAgree DEF IsHeight, Below

\* Case 1 of __rb_erase_augmented.
LEMMA EraseOneChildArrives ==
  ASSUME IInv, IInv', Still, NEW n \in Node, EraseOneChild(n), stores' = EraseOneChildStores(n)
  PROVE  Arrives(stores', InTree', {}, seen_root, seen_child, rb_node', rb_child')
<1>1. PICK h : IsHeight(h)
  BY HeightsNow
<1>2. Removes(Node, List, List', n)
  BY EraseOneChildRemoves
<1>3. PICK tr : tr = InTree'
  OBVIOUS
<1>4. n \in InTree /\ tr = InTree \ {n} /\ tr \in SUBSET Node /\ InTree \in SUBSET Node
  <2>1. n \in InTree /\ InTree' = InTree \ {n}
    BY <1>2, RemovedNode
  <2>2. QED
    BY <1>3, <2>1 DEF InTree
<1>5. PICK d, c, p : /\ d = (IF rb_child[n]["left"] = NULL THEN "right" ELSE "left")
                     /\ c = rb_child[n][d] /\ p = rb_parent(n)
  OBVIOUS
<1>6. d \in Side
  BY <1>5 DEF Side
<1>7. c \in InTree \cup {NULL} /\ (c # NULL => h[c] < h[n])
  BY <1>1, <1>4, <1>5, <1>6, ChildIsLower
<1>8. p \in InTree \cup {NULL} /\ (p # NULL => h[n] < h[p])
  BY <1>1, <1>4, <1>5, ParentIsHigher
<1>9. /\ h \in [InTree -> Nat] /\ rb_child \in Children /\ seen_child \in Children
      /\ Agree(seen_child, rb_child, InTree)
  BY <1>1 DEF IsHeight, IInv, TypeOK, Children, Still
<1>10. Stands(tr, {}, InTree, <<>>, seen_root, seen_child, rb_node, seen_child, h)
  BY <1>1, <1>4, StartStands
<1>11. SameSide(seen_child, p, n)
  BY <1>8, <1>9, SameSideOf
<1>12. \A m \in InTree, e \in Side : seen_child[m][e] = n => m \in InTree /\ rb_child[m][e] = n
  BY <1>9 DEF Agree
<1>13. c \in tr \cup {NULL} /\ (p # NULL /\ c # NULL => h[c] < h[p])
  BY <1>4, <1>7, <1>8, <1>9
<1>14. Agree(ChangeChild(seen_child, n, c, p), ChangeChild(rb_child, n, c, p), InTree)
  <2>1. c \in NodeOrNil /\ p \in NodeOrNil
    BY <1>4, <1>7, <1>8 DEF NodeOrNil
  <2>2. QED
    BY <1>4, <1>9, <2>1, ChangeAgrees
<1>15. Agree(ChangeChild(seen_child, n, c, p), rb_child', tr)
  <2>1. rb_child' = [ChangeChild(rb_child, n, c, p) EXCEPT ![n] = Leaf]
    BY <1>5 DEF EraseOneChild
  <2>2. ChangeChild(rb_child, n, c, p) \in Children
    <3>1. c \in NodeOrNil /\ p \in NodeOrNil
      BY <1>4, <1>7, <1>8 DEF NodeOrNil
    <3>2. QED
      BY <1>9, <3>1, ChangeChildStores
  <2>3. \A m \in tr : rb_child'[m] = ChangeChild(rb_child, n, c, p)[m]
    BY <1>4, <2>1, <2>2 DEF Children
  <2>4. QED
    BY <1>4, <1>14, <2>3 DEF Agree
<1>16. rb_node' = ChangeRoot(c, p)
  BY <1>5 DEF EraseOneChild
<1>17. PICK s0 : s0 = <<>>
  OBVIOUS
<1>18. PICK s : s = ChangeChildStore(n, c, p)
  OBVIOUS
<1>19. stores' = Append(s0, s)
  BY <1>5, <1>17, <1>18 DEF EraseOneChildStores
<1>20. PICK st, r2, m2 : st = stores' /\ r2 = rb_node' /\ m2 = rb_child'
  OBVIOUS
<1>21. Arrives(st, tr, {}, seen_root, seen_child, r2, m2)
  <2>1. /\ st = Append(s0, ChangeChildStore(n, c, p))
        /\ r2 = ChangeRoot(c, p)
        /\ Agree(ChangeChild(seen_child, n, c, p), m2, tr)
    BY <1>15, <1>16, <1>18, <1>19, <1>20
  <2>2. Stands(tr, {}, InTree, s0, seen_root, seen_child, rb_node, seen_child, h)
    BY <1>10, <1>17
  <2>3. Unlinks(InTree, tr, seen_child, h, n, p, c)
    BY <1>4, <1>5, <1>8, <1>11, <1>12, <1>13 DEF Unlinks
  <2>4. QED
    BY ONLY IInv, <2>1, <2>2, <2>3, ChangeLeaves
<1>22. QED
  BY <1>3, <1>20, <1>21

\* n is where the last of the stores leads, and no other one.
Last(seq, n) ==
  /\ seq # <<>>
  /\ seq[Len(seq)].to = n
  /\ \A i \in 1..Len(seq) : i # Len(seq) => seq[i].to # n

\* What is new in the tree comes with the last store.
Brings(seq, new) == PlainInOrder => \A n \in new : Last(seq, n)

\* a and b store the children f of the new node n, and c is the store that publishes it.
IsPublished(tr, n, f, a, b, c) ==
  /\ n \in tr /\ tr \in SUBSET Node
  /\ a = Store(n, "left", f["left"]) /\ b = Store(n, "right", f["right"])
  /\ a \in StoreTo(tr) /\ b \in StoreTo(tr) /\ c \in StoreTo(tr)
  /\ c.of # n /\ c.to = n /\ f["left"] # n /\ f["right"] # n

\* A new node is published, whatever the order of the plain stores to it.
LEMMA PublishArrives ==
  ASSUME NEW tr, NEW n, NEW f, NEW a, NEW b, NEW c, IsPublished(tr, n, f, a, b, c),
         NEW r \in NodeOrNil, NEW ch \in Children, NEW r2, NEW m,
         Arrives(Append(Append(Append(<<>>, a), b), c), tr, {n}, r, ch, r2, m),
         NEW seq \in Publish(n, f, c)
  PROVE  Arrives(seq, tr, {n}, r, ch, r2, m) /\ Brings(seq, {n})
<1> USE DEF IsPublished
<1>1. a.of = n /\ b.of = n /\ a.to = f["left"] /\ b.to = f["right"]
  BY DEF Store
<1>2. PICK S : S = StoreTo(tr) /\ a \in S /\ b \in S /\ c \in S
  OBVIOUS
<1>3. /\ <<a, b, c>> = Append(Append(Append(<<>>, a), b), c)
      /\ <<a, b, c>> = Append(<<a, b>>, c)
      /\ <<c, a, b>> = <<c>> \o <<a, b>>
  BY <1>2
<1>4. PICK ch2 \in Children : /\ Leads(<<a, b, c>>, tr, {n}, r, ch, r2, ch2)
                              /\ Agree(ch2, m, tr)
                              /\ \E k \in [Node -> Nat] : Outside(ch2, tr, k)
  BY <1>3 DEF Arrives
<1>5. CASE seq = <<a, b, c>>
  <2>1. Arrives(seq, tr, {n}, r, ch, r2, m)
    BY <1>4, <1>5 DEF Arrives
  <2>2. Len(seq) = 3 /\ seq[1] = a /\ seq[2] = b /\ seq[3] = c /\ seq # <<>>
    BY <1>5
  <2>3. \A i \in 1..3 : i # 3 => i = 1 \/ i = 2
    OBVIOUS
  <2>4. Last(seq, n)
    BY <1>1, <2>2, <2>3 DEF Last
  <2>5. QED
    BY <2>1, <2>4 DEF Brings
<1>6. CASE ~PlainInOrder /\ seq = <<c, a, b>>
  <2>1. a.of \in Node /\ b.of = a.of /\ c.of # a.of
    BY <1>1
  <2>2. Leads(<<c, a, b>>, tr, {n}, r, ch, r2, ch2)
    BY <1>4, <1>6, <2>1, OtherOrder
  <2>3. QED
    BY <1>4, <1>6, <2>2 DEF Arrives, Brings
<1>7. seq = <<a, b, c>> \/ (~PlainInOrder /\ seq = <<c, a, b>>)
  <2>1. seq = Append(<<a, b>>, c) \/ (~PlainInOrder /\ seq = <<c>> \o <<a, b>>)
    BY DEF Publish
  <2>2. QED
    BY <1>3, <2>1
<1>8. QED
  BY <1>5, <1>6, <1>7

\* rb_link_node: the new node has no children when it becomes visible.
LEMMA LinkArrives ==
  ASSUME IInv, IInv', Still, Link, stores' \in LinkStores
  PROVE  /\ Arrives(stores', InTree', {node}, seen_root, seen_child, rb_node', rb_child')
         /\ Brings(stores', {node}) /\ node \in InTree'
<1> USE NodeAssumption
<1>1. PICK h : IsHeight(h)
  BY HeightsNow
<1>2. PICK tr : tr = InTree'
  OBVIOUS
<1>3. /\ node \in Node \ InTree /\ tr = InTree \cup {node} /\ tr \in SUBSET Node
      /\ InTree \in SUBSET Node /\ parent \in InTree \cup {NULL}
  <2>1. node \in Node \ InTree /\ InTree' = InTree \cup {node} /\ parent \in InTree \cup {NULL}
    BY LinkedNode
  <2>2. QED
    BY <1>2, <2>1 DEF InTree
<1>4. /\ h \in [InTree -> Nat] /\ \A n \in InTree : 0 < h[n]
      /\ rb_child \in Children /\ seen_child \in Children
      /\ Agree(seen_child, rb_child, InTree) /\ dir \in Side
  BY <1>1, MaxType DEF IsHeight, IInv, TypeOK, Children, Still
<1>5. PICK a, b, c : /\ a = Store(node, "left", Leaf["left"])
                     /\ b = Store(node, "right", Leaf["right"])
                     /\ c = Store(parent, dir, node)
  OBVIOUS
<1>6. /\ Leaf["left"] = NULL /\ Leaf["right"] = NULL
      /\ a.of = node /\ a.side = "left" /\ a.to = NULL
      /\ b.of = node /\ b.side = "right" /\ b.to = NULL
      /\ c.of = parent /\ c.side = dir /\ c.to = node
      /\ a \in StoreTo(tr) /\ b \in StoreTo(tr) /\ c \in StoreTo(tr)
  <2>1. Leaf["left"] = NULL /\ Leaf["right"] = NULL
    BY DEF Leaf, Side
  <2>2. parent \in NodeOrNil /\ node \in NodeOrNil /\ node \in tr \cup {NULL}
        /\ "left" \in Side /\ "right" \in Side
    BY <1>3 DEF NodeOrNil, Side
  <2>3. QED
    BY <1>4, <1>5, <2>1, <2>2 DEF Store, StoreTo
<1>7. PICK c1, c2, c3 : c1 = Stored(seen_child, a) /\ c2 = Stored(c1, b) /\ c3 = Stored(c2, c)
  OBVIOUS
<1>8. /\ c1 \in Children /\ c2 \in Children /\ c3 \in Children
      /\ \A n \in Node, d \in Side :
           /\ c1[n][d] = IF n = node /\ d = "left" THEN NULL ELSE seen_child[n][d]
           /\ c2[n][d] = IF n = node /\ d = "right" THEN NULL ELSE c1[n][d]
           /\ c3[n][d] = IF n = parent /\ d = dir THEN node ELSE c2[n][d]
  BY <1>3, <1>4, <1>6, <1>7, StoredTypes
<1>9. PICK s0 : s0 = <<>>
  OBVIOUS
<1>10. Stands(tr, {node}, InTree, s0, seen_root, seen_child, rb_node, seen_child, h)
  BY <1>1, <1>3, <1>9, StartStands
<1>11. Stands(tr, {node}, InTree, Append(s0, a), seen_root, seen_child, rb_node, c1, h)
  <2>1. rb_node = StoredRoot(rb_node, a)
    BY <1>3, <1>6 DEF StoredRoot
  <2>2. QED
    BY <1>3, <1>6, <1>7, <1>10, <2>1, StandsAfter
<1>12. Stands(tr, {node}, InTree, Append(Append(s0, a), b), seen_root, seen_child, rb_node, c2, h)
  <2>1. rb_node = StoredRoot(rb_node, b)
    BY <1>3, <1>6 DEF StoredRoot
  <2>2. QED
    BY <1>3, <1>6, <1>7, <1>11, <2>1, StandsAfter
<1>13. PICK g : g = [m \in InTree \cup {node} |-> IF m = node THEN 0 ELSE h[m]]
  OBVIOUS
<1>14. Stands(tr, {node}, tr, Append(Append(s0, a), b), seen_root, seen_child, rb_node, c2, g)
  <2>1. \A d \in Side : c2[node][d] = NULL
    BY <1>3, <1>8 DEF Side
  <2>2. Stands(tr, {node}, InTree \cup {node}, Append(Append(s0, a), b), seen_root, seen_child,
               rb_node, c2, g)
    <3>1. /\ \A d \in Side : c2[node][d] \in InTree \cup {NULL}
          /\ \A d \in Side : c2[node][d] # NULL => h[c2[node][d]] < 0
          /\ 0 \in Nat /\ InTree \in SUBSET Node
      BY <1>3, <2>1
    <3>2. QED
      BY <1>3, <1>12, <1>13, <3>1, StandsEnters
  <2>3. QED
    BY <1>3, <2>2
<1>15. PICK r3 : r3 = StoredRoot(rb_node, c)
  OBVIOUS
<1>16. Stands(tr, {node}, tr, Append(Append(Append(s0, a), b), c), seen_root, seen_child, r3, c3, g)
  <2>1. parent # NULL => g[node] < g[parent]
    BY <1>3, <1>4, <1>13
  <2>2. /\ c.to \in tr \cup {NULL} /\ c.of \in tr \cup {NULL}
        /\ (c.of # NULL /\ c.to # NULL => g[c.to] < g[c.of])
        /\ tr \ {node} \subseteq tr
    BY <1>3, <1>6, <2>1
  <2>3. QED
    BY <1>3, <1>6, <1>7, <1>14, <1>15, <2>2, StandsAfter
<1>17. r3 = rb_node'
  BY <1>6, <1>15 DEF Link, ChangeRoot, StoredRoot
<1>18. Agree(c3, rb_child', tr)
  <2>1. IsLink(rb_node, rb_child, Par, rb_node', rb_child', Par', node, parent, dir)
    BY LinkKeepsIInv
  <2>2. \A m \in Node, e \in Side :
          rb_child'[m][e] = IF m = node THEN NULL
                            ELSE IF m = parent /\ e = dir THEN node ELSE rb_child[m][e]
    BY <2>1 DEF IsLink
  <2>3. ASSUME NEW m \in tr, NEW e \in Side PROVE c3[m][e] = rb_child'[m][e]
    <3>1. parent # node
      BY <1>3
    <3>2. CASE m = node
      BY <1>3, <1>8, <2>2, <3>1, <3>2 DEF Side
    <3>3. CASE m # node
      <4>1. m \in InTree /\ m \in Node
        BY <1>3, <3>3
      <4>2. seen_child[m][e] = rb_child[m][e]
        BY <1>4, <4>1 DEF Agree
      <4>3. QED
        BY <1>8, <2>2, <3>3, <4>1, <4>2
    <3>4. QED
      BY <3>2, <3>3
  <2>4. QED
    BY <2>3 DEF Agree
<1>19. PICK st, m2 : st = stores' /\ m2 = rb_child'
  OBVIOUS
<1>20. Arrives(Append(Append(Append(s0, a), b), c), tr, {node}, seen_root, seen_child, r3, m2)
  BY <1>16, <1>18, <1>19, StandsThere
<1>21. Arrives(st, tr, {node}, seen_root, seen_child, r3, m2) /\ Brings(st, {node})
  <2>1. st \in Publish(node, Leaf, c)
    BY <1>5, <1>19 DEF LinkStores
  <2>2. IsPublished(tr, node, Leaf, a, b, c)
    BY <1>3, <1>5, <1>6 DEF IsPublished
  <2>3. seen_root \in NodeOrNil /\ seen_child \in Children
    BY <1>4, RootType DEF NodeOrNil, Still, InTree
  <2>4. Arrives(Append(Append(Append(<<>>, a), b), c), tr, {node}, seen_root, seen_child, r3, m2)
    BY <1>9, <1>20
  <2>5. QED
    BY ONLY <2>1, <2>2, <2>3, <2>4, PublishArrives
<1>22. QED
  BY <1>2, <1>3, <1>17, <1>19, <1>21

\* rb_replace_node: the new node has the children of the victim when it becomes visible.
LEMMA ReplaceArrives ==
  ASSUME IInv, IInv', Still, NEW v \in Node, NEW n \in Node, Replace(v, n),
         stores' \in ReplaceStores(v, n)
  PROVE  /\ Arrives(stores', InTree', {n}, seen_root, seen_child, rb_node', rb_child')
         /\ Brings(stores', {n}) /\ n \in InTree' /\ InTree' \subseteq InTree \cup {n}
<1> USE NodeAssumption
<1>1. PICK h : IsHeight(h)
  BY HeightsNow
<1>2. PICK tr : tr = InTree'
  OBVIOUS
<1>3. /\ v \in InTree /\ n \notin InTree /\ tr = (InTree \ {v}) \cup {n} /\ tr \in SUBSET Node
      /\ InTree \in SUBSET Node
  <2>1. n \notin InTree
    BY DEF Replace, InTree
  <2>2. Trades(Node, List, List', v, n)
    BY ReplaceTrades
  <2>3. v \in InTree /\ InTree' = (InTree \ {v}) \cup {n}
    BY <2>1, <2>2, TradedNode
  <2>4. QED
    BY <1>2, <2>1, <2>3 DEF InTree
<1>4. /\ h \in [InTree -> Nat] /\ rb_child \in Children /\ seen_child \in Children
      /\ Agree(seen_child, rb_child, InTree)
  BY <1>1 DEF IsHeight, IInv, TypeOK, Children, Still
<1>5. PICK f, l, q, p : f = rb_child[v] /\ l = f["left"] /\ q = f["right"] /\ p = rb_parent(v)
  OBVIOUS
<1>6. /\ l \in InTree \cup {NULL} /\ (l # NULL => h[l] < h[v])
      /\ q \in InTree \cup {NULL} /\ (q # NULL => h[q] < h[v])
  BY <1>1, <1>3, <1>5, ChildIsLower DEF Side
<1>7. p \in InTree \cup {NULL} /\ (p # NULL => h[v] < h[p])
  BY <1>1, <1>3, <1>5, ParentIsHigher
<1>8. l # v /\ q # v /\ l # n /\ q # n /\ p # v /\ p # n
  BY <1>3, <1>4, <1>6, <1>7
<1>9. PICK a, b, c : /\ a = Store(n, "left", f["left"]) /\ b = Store(n, "right", f["right"])
                     /\ c = ChangeChildStore(v, n, p)
  OBVIOUS
<1>10. /\ a.of = n /\ a.side = "left" /\ a.to = l
       /\ b.of = n /\ b.side = "right" /\ b.to = q
       /\ a \in StoreTo(tr) /\ b \in StoreTo(tr)
  <2>1. n \in NodeOrNil /\ l \in tr \cup {NULL} /\ q \in tr \cup {NULL}
        /\ "left" \in Side /\ "right" \in Side
    BY <1>3, <1>6, <1>8 DEF NodeOrNil, Side
  <2>2. QED
    BY <1>5, <1>9, <2>1 DEF Store, StoreTo
<1>11. PICK c1, c2 : c1 = Stored(seen_child, a) /\ c2 = Stored(c1, b)
  OBVIOUS
<1>12. /\ c1 \in Children /\ c2 \in Children
       /\ \A m \in Node, d \in Side :
            /\ c1[m][d] = IF m = n /\ d = "left" THEN l ELSE seen_child[m][d]
            /\ c2[m][d] = IF m = n /\ d = "right" THEN q ELSE c1[m][d]
  BY <1>3, <1>4, <1>10, <1>11, StoredTypes
<1>13. PICK s0 : s0 = <<>>
  OBVIOUS
<1>14. /\ Stands(tr, {n}, InTree, s0, seen_root, seen_child, rb_node, seen_child, h)
       /\ SameAbove(seen_child, h, v)
  BY <1>1, <1>3, <1>13, StartStands
<1>15. /\ Stands(tr, {n}, InTree, Append(s0, a), seen_root, seen_child, rb_node, c1, h)
       /\ SameAbove(c1, h, v)
  BY <1>1, <1>3, <1>6, <1>10, <1>11, <1>14, StandsBefore
<1>16. Stands(tr, {n}, InTree, Append(Append(s0, a), b), seen_root, seen_child, rb_node, c2, h)
  BY <1>1, <1>3, <1>6, <1>10, <1>11, <1>15, StandsBefore
<1>17. PICK T, g : T = InTree \cup {n} /\ g = [m \in InTree \cup {n} |-> IF m = n THEN h[v] ELSE h[m]]
  OBVIOUS
<1>18. Stands(tr, {n}, T, Append(Append(s0, a), b), seen_root, seen_child, rb_node, c2, g)
  <2>1. \A d \in Side : c2[n][d] \in {l, q}
    BY <1>12 DEF Side
  <2>2. /\ \A d \in Side : c2[n][d] \in InTree \cup {NULL}
        /\ \A d \in Side : c2[n][d] # NULL => h[c2[n][d]] < h[v]
        /\ h[v] \in Nat /\ n \in Node \ InTree
    BY <1>3, <1>4, <1>6, <2>1
  <2>3. Stands(tr, {n}, InTree \cup {n}, Append(Append(s0, a), b), seen_root, seen_child,
               rb_node, c2, g)
    BY <1>3, <1>16, <1>17, <2>2, StandsEnters
  <2>4. QED
    BY <1>17, <2>3
<1>19. SameSide(c2, p, v)
  <2>1. p # NULL => p \in InTree /\ p \in Node /\ c2[p]["left"] = rb_child[p]["left"]
    BY <1>3, <1>4, <1>7, <1>8, <1>12 DEF Agree, Side
  <2>2. QED
    BY <2>1 DEF SameSide, At
<1>20. \A m \in T, d \in Side : c2[m][d] = v => m \in InTree /\ rb_child[m][d] = v
  <2>1. SUFFICES ASSUME NEW m \in T, NEW d \in Side, c2[m][d] = v
                 PROVE  m \in InTree /\ rb_child[m][d] = v
    OBVIOUS
  <2>2. m \in Node
    BY <1>3, <1>17
  <2>3. m # n
    BY <1>8, <1>12, <2>1, <2>2 DEF Side
  <2>4. m \in InTree /\ c2[m][d] = seen_child[m][d]
    BY <1>12, <1>17, <2>2, <2>3
  <2>5. QED
    BY <1>4, <2>1, <2>4 DEF Agree
<1>21. p # NULL /\ n # NULL => g[n] < g[p]
  BY <1>3, <1>7, <1>8, <1>17
<1>22. Agree(ChangeChild(c2, v, n, p), rb_child', tr)
  <2>1. PICK ch : ch = [rb_child EXCEPT ![n] = f]
    OBVIOUS
  <2>2. rb_child' = [ChangeChild(ch, v, n, p) EXCEPT ![v] = Leaf]
    BY <1>5, <2>1 DEF Replace
  <2>3. ch \in Children /\ \A m \in Node, d \in Side : ch[m][d] = IF m = n THEN f[d] ELSE rb_child[m][d]
    BY <1>3, <1>4, <1>5, <2>1 DEF Children
  <2>4. Agree(c2, ch, tr)
    <3>1. ASSUME NEW m \in tr, NEW d \in Side PROVE c2[m][d] = ch[m][d]
      <4>1. CASE m = n
        BY <1>5, <1>12, <2>3, <4>1 DEF Side
      <4>2. CASE m # n
        <5>1. m \in InTree /\ m \in Node
          BY <1>3, <4>2
        <5>2. seen_child[m][d] = rb_child[m][d]
          BY <1>4, <5>1 DEF Agree
        <5>3. QED
          BY <1>12, <2>3, <4>2, <5>1, <5>2
      <4>3. QED
        BY <4>1, <4>2
    <3>2. QED
      BY <3>1 DEF Agree
  <2>5. n \in NodeOrNil /\ p \in NodeOrNil
    BY <1>3, <1>7 DEF NodeOrNil
  <2>6. Agree(ChangeChild(c2, v, n, p), ChangeChild(ch, v, n, p), tr)
    BY <1>3, <1>12, <2>3, <2>4, <2>5, ChangeAgrees
  <2>7. ChangeChild(ch, v, n, p) \in Children
    BY <2>3, <2>5, ChangeChildStores
  <2>8. \A m \in tr : rb_child'[m] = ChangeChild(ch, v, n, p)[m]
    BY <1>3, <1>8, <2>2, <2>7 DEF Children
  <2>9. QED
    BY <2>6, <2>8 DEF Agree
<1>23. rb_node' = ChangeRoot(n, p)
  BY <1>5 DEF Replace
<1>24. PICK st, r2, m2, s2 : /\ st = stores' /\ r2 = rb_node' /\ m2 = rb_child'
                             /\ s2 = Append(Append(s0, a), b)
  OBVIOUS
<1>25. Arrives(Append(s2, c), tr, {n}, seen_root, seen_child, r2, m2)
  <2>1. /\ r2 = ChangeRoot(n, p)
        /\ Agree(ChangeChild(c2, v, n, p), m2, tr)
        /\ Append(s2, c) = Append(s2, ChangeChildStore(v, n, p))
    BY <1>9, <1>22, <1>23, <1>24
  <2>2. Stands(tr, {n}, T, s2, seen_root, seen_child, rb_node, c2, g)
    BY <1>18, <1>24
  <2>3. Unlinks(T, tr, c2, g, v, p, n)
    <3>1. /\ InTree \subseteq T /\ v \in InTree /\ tr = T \ {v} /\ T \in SUBSET Node
          /\ n \in tr \cup {NULL} /\ p \in InTree \cup {NULL}
      BY <1>3, <1>7, <1>17
    <3>2. QED
      BY <1>5, <1>19, <1>20, <1>21, <3>1 DEF Unlinks
  <2>4. PICK s3 : s3 = Append(s2, ChangeChildStore(v, n, p))
    OBVIOUS
  <2>5. Arrives(s3, tr, {n}, seen_root, seen_child, r2, m2)
    BY ONLY IInv, <2>1, <2>2, <2>3, <2>4, ChangeLeaves
  <2>6. QED
    BY <2>1, <2>4, <2>5
<1>26. c \in StoreTo(tr) /\ c.of = p /\ c.to = n
  <2>1. n \in tr \cup {NULL} /\ p \in NodeOrNil
    BY <1>3, <1>7 DEF NodeOrNil
  <2>2. IsChange(ChangeChildStore(v, n, p), tr, rb_node, c2, v, n, p)
    BY <1>12, <1>19, <2>1, ChangeIsStore
  <2>3. QED
    BY <1>9, <2>2 DEF IsChange
<1>27. Arrives(st, tr, {n}, seen_root, seen_child, r2, m2) /\ Brings(st, {n})
  <2>1. st \in Publish(n, f, c)
    BY <1>5, <1>9, <1>24 DEF ReplaceStores
  <2>2. IsPublished(tr, n, f, a, b, c)
    BY <1>3, <1>5, <1>8, <1>9, <1>10, <1>26 DEF IsPublished
  <2>3. seen_root \in NodeOrNil /\ seen_child \in Children
    BY <1>4, RootType DEF NodeOrNil, Still, InTree
  <2>4. Arrives(Append(Append(Append(<<>>, a), b), c), tr, {n}, seen_root, seen_child, r2, m2)
    BY <1>13, <1>24, <1>25
  <2>5. QED
    BY ONLY <2>1, <2>2, <2>3, <2>4, PublishArrives
<1>28. QED
  BY <1>2, <1>3, <1>24, <1>27

\* The places of an erasure by a successor.
LEMMA AtSuccessor ==
  ASSUME IInv, NEW h, IsHeight(h), EraseSuccessor,
         NEW s, s = successor, NEW p, p = rb_parent(node),
         NEW c, c = rb_child[node]["right"], NEW c2, c2 = rb_child[s]["right"],
         NEW t, t = rb_child[node]["left"]
  PROVE  /\ node \in InTree /\ s \in InTree /\ parent \in InTree /\ s # node /\ parent # node
         /\ h[s] < h[node] /\ h[parent] < h[node]
         /\ p \in InTree \cup {NULL} /\ (p # NULL => h[node] < h[p])
         /\ c \in InTree \cup {NULL} /\ (c # NULL => h[c] < h[node]) /\ c # node
         /\ c2 \in InTree \cup {NULL} /\ (c2 # NULL => h[c2] < h[s]) /\ c2 # node /\ c2 # s
         /\ t \in InTree \cup {NULL} /\ (t # NULL => h[t] < h[node]) /\ t # node /\ t # s
         /\ parent # s => rb_child[parent]["left"] = s /\ h[s] < h[parent] /\ c # s
         /\ parent = s => c = s
<1>1. pc = "successor" /\ Links /\ Locals
  BY DEF EraseSuccessor, IInv
<1>2. /\ node \in InTree /\ s \in InTree /\ parent \in InTree
      /\ h[s] < h[node] /\ h[parent] < h[node] /\ h \in [InTree -> Nat] /\ InTree \in SUBSET Node
  BY <1>1 DEF IsHeight, InTree
<1>3. p \in InTree \cup {NULL} /\ (p # NULL => h[node] < h[p])
  BY <1>2, ParentIsHigher
<1>4. "left" \in Side /\ "right" \in Side
  BY DEF Side
<1>5. c \in InTree \cup {NULL} /\ (c # NULL => h[c] < h[node])
  BY <1>2, <1>4, ChildIsLower
<1>6. c2 \in InTree \cup {NULL} /\ (c2 # NULL => h[c2] < h[s])
  BY <1>2, <1>4, ChildIsLower
<1>7. t \in InTree \cup {NULL} /\ (t # NULL => h[t] < h[node])
  BY <1>2, <1>4, ChildIsLower
<1>8. node # NULL /\ s # NULL /\ node \in Node /\ s \in Node /\ parent \in Node
  BY <1>2, NodeAssumption
<1>9. parent = s => c = s
  BY <1>1 DEF Locals
<1>10. parent # s => rb_child[parent]["left"] = s
  BY <1>1 DEF Locals
<1>11. parent # s => h[s] < h[parent]
  BY <1>2, <1>4, <1>8, <1>10, ChildIsLower
<1>12. parent # s => rb_parent(s) = parent
  BY <1>1, <1>4, <1>8, <1>10 DEF Links
<1>13. s = c \/ s = t => rb_parent(s) = node
  BY <1>1, <1>4, <1>8 DEF Links
<1>14. c = s => t # s
  BY <1>1, <1>4, <1>8, Sides DEF Links, Opposite
<1>15. s # node /\ parent # node
  BY <1>2
<1>16. c # node /\ c2 # node /\ c2 # s /\ t # node
  BY <1>2, <1>5, <1>6, <1>7, <1>8
<1>17. QED
  BY <1>2, <1>3, <1>5, <1>6, <1>7, <1>9, <1>10, <1>11, <1>12, <1>13, <1>14, <1>15, <1>16

\* The successor has been lifted to a place just below that of node: the store of its left
\* child and that of __rb_change_child remain.
LEMMA LiftedArrives ==
  ASSUME IInv, NEW h, IsHeight(h), EraseSuccessor,
         NEW tr, tr = InTree \ {node}, NEW seq, NEW r0, NEW ch0, NEW ch, NEW g,
         Stands(tr, {}, InTree, seq, r0, ch0, rb_node, ch, g), SameAbove(ch, h, node),
         \A m \in InTree : g[m] = IF m = successor THEN 2 * h[node] - 1 ELSE 2 * h[m],
         \A m \in InTree, d \in Side : ch[m][d] = node => rb_child[m][d] = node,
         NEW a, a = Store(successor, "left", rb_child[node]["left"]),
         NEW p, p = rb_parent(node),
         NEW ch3, ch3 = Stored(ch, a),
         NEW m2, Agree(ChangeChild(ch3, node, successor, p), m2, tr),
         NEW b, b = ChangeChildStore(node, successor, p),
         NEW r2, r2 = ChangeRoot(successor, p)
  PROVE  Arrives(Append(Append(seq, a), b), tr, {}, r0, ch0, r2, m2)
<1>1. PICK s, c, c2, t : /\ s = successor /\ c = rb_child[node]["right"]
                         /\ c2 = rb_child[s]["right"] /\ t = rb_child[node]["left"]
  OBVIOUS
<1>2. /\ node \in InTree /\ s \in InTree /\ s # node /\ h[s] < h[node]
      /\ p \in InTree \cup {NULL} /\ (p # NULL => h[node] < h[p])
      /\ t \in InTree \cup {NULL} /\ (t # NULL => h[t] < h[node]) /\ t # node /\ t # s
  <2>1. IInv /\ IsHeight(h) /\ EraseSuccessor
    OBVIOUS
  <2>2. /\ s = successor /\ p = rb_parent(node) /\ c = rb_child[node]["right"]
        /\ c2 = rb_child[s]["right"] /\ t = rb_child[node]["left"]
    BY <1>1
  <2>3. QED
    BY ONLY <2>1, <2>2, AtSuccessor
<1>3. /\ InTree \in SUBSET Node /\ tr \in SUBSET Node /\ h \in [InTree -> Nat]
      /\ ch \in Children /\ node \in Node /\ s \in Node
  BY <1>2 DEF InTree, IsHeight, Stands
<1>4. a \in StoreTo(tr) /\ a.of = s /\ a.side = "left" /\ a.to = t
  <2>1. s \in NodeOrNil /\ t \in tr \cup {NULL} /\ "left" \in Side
    BY <1>2, <1>3 DEF NodeOrNil, Side
  <2>2. QED
    BY <1>1, <2>1 DEF Store, StoreTo
<1>5. \A m \in InTree : h[m] \in Nat
  BY <1>3
<1>6. t # NULL => g[t] < g[s]
  BY <1>1, <1>2, <1>5
<1>7. /\ Stands(tr, {}, InTree, Append(seq, a), r0, ch0, rb_node, ch3, g)
      /\ SameAbove(ch3, h, node)
  <2>1. /\ a.to \in InTree \cup {NULL}
        /\ a.of \in InTree /\ ~(h[node] < h[a.of]) /\ (a.to # NULL => g[a.to] < g[a.of])
    BY <1>2, <1>4, <1>5, <1>6
  <2>2. PICK new : new = {}
    OBVIOUS
  <2>3. InTree \ {node} \subseteq tr /\ tr \ new \subseteq InTree
    OBVIOUS
  <2>4. Stands(tr, new, InTree, seq, r0, ch0, rb_node, ch, g)
    BY <2>2
  <2>5. /\ Stands(tr, new, InTree, Append(seq, a), r0, ch0, rb_node, ch3, g)
        /\ SameAbove(ch3, h, node)
    <3>1. IInv /\ IsHeight(h) /\ SameAbove(ch, h, node) /\ ch3 = Stored(ch, a) /\ node \in InTree
      BY <1>2
    <3>2. tr \in SUBSET Node /\ a \in StoreTo(tr)
      BY <1>3, <1>4
    <3>3. QED
      BY ONLY <2>1, <2>3, <2>4, <3>1, <3>2, StandsBefore
  <2>6. QED
    BY <2>2, <2>5
<1>8. \A m \in Node, d \in Side : ch3[m][d] = IF m = s /\ d = "left" THEN t ELSE ch[m][d]
  BY <1>3, <1>4, StoredTypes
<1>9. Unlinks(InTree, tr, ch3, g, node, p, s)
  <2>1. SameSide(ch3, p, node)
    <3>1. p # NULL => ch3[p]["left"] = rb_child[p]["left"]
      BY <1>2, <1>7 DEF SameAbove, Side
    <3>2. QED
      BY <3>1 DEF SameSide, At
  <2>2. ASSUME NEW m \in InTree, NEW d \in Side, ch3[m][d] = node PROVE rb_child[m][d] = node
    <3>1. m \in Node
      BY <1>3
    <3>2. ch[m][d] = node
      BY <1>2, <1>8, <2>2, <3>1
    <3>3. QED
      BY <3>2
  <2>3. p # NULL => g[s] < g[p]
    <3>1. ASSUME p # NULL PROVE g[s] < g[p]
      <4>1. p \in InTree /\ p # s /\ h[p] \in Nat /\ h[node] \in Nat /\ h[node] < h[p]
        BY <1>2, <1>5, <3>1
      <4>2. QED
        BY <1>1, <1>2, <4>1
    <3>2. QED
      BY <3>1
  <2>4. /\ node \in InTree /\ InTree \subseteq InTree /\ InTree \in SUBSET Node
        /\ tr = InTree \ {node} /\ p = rb_parent(node) /\ p \in InTree \cup {NULL}
        /\ s \in tr \cup {NULL}
    BY <1>2, <1>3
  <2>5. QED
    BY <2>1, <2>2, <2>3, <2>4 DEF Unlinks
<1>10. PICK seq2, seq3 : seq2 = Append(seq, a) /\ seq3 = Append(seq2, b)
  OBVIOUS
<1>11. Arrives(seq3, tr, {}, r0, ch0, r2, m2)
  <2>1. /\ Stands(tr, {}, InTree, seq2, r0, ch0, rb_node, ch3, g)
        /\ Agree(ChangeChild(ch3, node, s, p), m2, tr)
        /\ seq3 = Append(seq2, ChangeChildStore(node, s, p))
        /\ r2 = ChangeRoot(s, p)
    BY <1>1, <1>7, <1>10
  <2>2. QED
    BY ONLY IInv, <1>9, <2>1, ChangeLeaves
<1>12. QED
  BY <1>10, <1>11

\* The successor stands just below the place of node, by the stores seq.
Lifted(tr, h, seq, ch) ==
  /\ ch \in Children
  /\ SameAbove(ch, h, node)
  /\ \A m \in InTree, d \in Side : ch[m][d] = node => rb_child[m][d] = node
  /\ \E g : /\ Stands(tr, {}, InTree, seq, seen_root, seen_child, rb_node, ch, g)
            /\ \A m \in InTree : g[m] = IF m = successor THEN 2 * h[node] - 1 ELSE 2 * h[m]

\* Case 2 of __rb_erase_augmented needs no store for that ...
LEMMA NearSuccessor ==
  ASSUME IInv, Still, NEW h, IsHeight(h), EraseSuccessor, parent = successor,
         NEW tr, tr = InTree \ {node}, NEW seq, seq = <<>>
  PROVE  Lifted(tr, h, seq, seen_child)
<1>1. PICK s, p, c, c2, t : /\ s = successor /\ p = rb_parent(node)
                            /\ c = rb_child[node]["right"] /\ c2 = rb_child[s]["right"]
                            /\ t = rb_child[node]["left"]
  OBVIOUS
<1>2. IInv /\ IsHeight(h) /\ EraseSuccessor
  OBVIOUS
<1>3. node \in InTree /\ s \in InTree /\ s # node /\ h[s] < h[node] /\ c = s
  <2>1. parent = s
    BY <1>1
  <2>2. QED
    BY ONLY <1>1, <1>2, <2>1, AtSuccessor
<1>4. /\ InTree \in SUBSET Node /\ tr \in SUBSET Node /\ h \in [InTree -> Nat]
      /\ seen_child \in Children /\ Agree(seen_child, rb_child, InTree)
  BY DEF InTree, IsHeight, Still
<1>5. /\ Stands(tr, {}, InTree, seq, seen_root, seen_child, rb_node, seen_child, h)
      /\ SameAbove(seen_child, h, node)
  BY <1>4, StartStands
<1>6. OnlyFrom(seen_child, InTree, s, node, "right")
  <2>0. rb_child[node]["right"] = s /\ "right" \in Side /\ node \in Node /\ s # NULL
    BY <1>1, <1>3, <1>4, NodeAssumption DEF Side
  <2>1. node = rb_parent(s)
    BY <2>0 DEF IInv, Links
  <2>2. QED
    BY <1>3, <1>4, <2>0, <2>1, OnePointer
<1>7. PICK v \in Nat : v = 2 * h[node] - 1
  <2>1. h[node] \in Nat /\ h[s] \in Nat /\ h[node] > 0
    BY <1>3, <1>4
  <2>2. QED
    BY <2>1
<1>8. HasRoom(seen_child, InTree, h, s, v)
  <2>1. ASSUME NEW d \in Side, seen_child[s][d] # NULL PROVE 2 * h[seen_child[s][d]] < v
    <3>1. PICK m : m = rb_child[s][d]
      OBVIOUS
    <3>2. m = seen_child[s][d] /\ m # NULL
      BY <1>3, <1>4, <2>1, <3>1 DEF Agree
    <3>3. m \in InTree /\ h[m] < h[s]
      BY <1>3, <3>1, <3>2, ChildIsLower
    <3>4. h[m] \in Nat /\ h[s] \in Nat /\ h[node] \in Nat
      BY <1>3, <1>4, <3>3
    <3>5. 2 * h[m] < v
      BY <1>3, <1>7, <3>3, <3>4
    <3>6. QED
      BY <3>2, <3>5
  <2>2. ASSUME NEW m \in InTree, NEW d \in Side, seen_child[m][d] = s PROVE v < 2 * h[m]
    <3>1. m = node
      BY <1>6, <2>2 DEF OnlyFrom
    <3>2. h[node] \in Nat
      BY <1>3, <1>4
    <3>3. QED
      BY <1>7, <3>1, <3>2
  <2>3. QED
    BY <2>1, <2>2 DEF HasRoom
<1>9. PICK new : new = {}
  OBVIOUS
<1>10. /\ Stands(tr, new, InTree, seq, seen_root, seen_child, rb_node, seen_child, h)
       /\ s \in InTree /\ v \in Nat
  BY <1>3, <1>5, <1>9
<1>11. /\ Stands(tr, new, InTree, seq, seen_root, seen_child, rb_node, seen_child,
                 Placed(h, InTree, s, v))
       /\ \A m \in InTree : Placed(h, InTree, s, v)[m] = IF m = s THEN v ELSE 2 * h[m]
  BY ONLY <1>8, <1>10, StandsAnew
<1>12. \A m \in InTree, d \in Side : seen_child[m][d] = node => rb_child[m][d] = node
  BY <1>4 DEF Agree
<1>13. QED
  BY <1>1, <1>4, <1>5, <1>7, <1>9, <1>11, <1>12 DEF Lifted

\* Where case 3 leads.
LiftedFar(tr, h, seq, ch2) ==
  /\ Lifted(tr, h, seq, ch2)
  /\ \A m \in Node, d \in Side :
       ch2[m][d] = IF m = successor /\ d = "right" THEN rb_child[node]["right"]
                   ELSE IF m = parent /\ d = "left" THEN rb_child[successor]["right"]
                   ELSE seen_child[m][d]

\* ... and case 3 takes it from its parent and gives it the right child of node.
LEMMA FarSuccessor ==
  ASSUME IInv, Still, NEW h, IsHeight(h), EraseSuccessor, parent # successor,
         NEW tr, tr = InTree \ {node}, NEW seq, seq = <<>>,
         NEW a, a = Store(parent, "left", rb_child[successor]["right"]),
         NEW b, b = Store(successor, "right", rb_child[node]["right"]),
         NEW ch1, ch1 = Stored(seen_child, a), NEW ch2, ch2 = Stored(ch1, b)
  PROVE  LiftedFar(tr, h, Append(Append(seq, a), b), ch2)
<1>1. PICK s, p, c, c2, t : /\ s = successor /\ p = rb_parent(node)
                            /\ c = rb_child[node]["right"] /\ c2 = rb_child[s]["right"]
                            /\ t = rb_child[node]["left"]
  OBVIOUS
<1>2. IInv /\ IsHeight(h) /\ EraseSuccessor
  OBVIOUS
<1>3. /\ node \in InTree /\ s \in InTree /\ s # node /\ h[s] < h[node]
      /\ parent \in InTree /\ h[parent] < h[node] /\ parent # s
      /\ rb_child[parent]["left"] = s /\ h[s] < h[parent]
      /\ c \in InTree \cup {NULL} /\ (c # NULL => h[c] < h[node]) /\ c # node /\ c # s
      /\ c2 \in InTree \cup {NULL} /\ (c2 # NULL => h[c2] < h[s]) /\ c2 # node /\ c2 # s
  <2>1. parent # s
    BY <1>1
  <2>2. QED
    BY ONLY <1>1, <1>2, <2>1, AtSuccessor
<1>4. /\ InTree \in SUBSET Node /\ tr \in SUBSET Node /\ h \in [InTree -> Nat]
      /\ seen_child \in Children /\ Agree(seen_child, rb_child, InTree)
      /\ (\A m \in InTree : h[m] \in Nat)
  BY DEF InTree, IsHeight, Still
<1>5. /\ Stands(tr, {}, InTree, seq, seen_root, seen_child, rb_node, seen_child, h)
      /\ SameAbove(seen_child, h, node)
  BY <1>4, StartStands
<1>6. PICK new : new = {}
  OBVIOUS
<1>7. /\ IInv /\ IsHeight(h) /\ node \in InTree /\ InTree \ {node} \subseteq tr
      /\ tr \ new \subseteq InTree /\ tr \in SUBSET Node
  BY <1>3, <1>4
<1>8. /\ a \in StoreTo(tr) /\ a.of = parent /\ a.side = "left" /\ a.to = c2
      /\ b \in StoreTo(tr) /\ b.of = s /\ b.side = "right" /\ b.to = c
  <2>1. /\ s \in NodeOrNil /\ parent \in NodeOrNil /\ "left" \in Side /\ "right" \in Side
        /\ c2 \in tr \cup {NULL} /\ c \in tr \cup {NULL}
    BY <1>3, <1>4 DEF NodeOrNil, Side
  <2>2. QED
    BY <1>1, <2>1 DEF Store, StoreTo
<1>9. /\ Stands(tr, new, InTree, Append(seq, a), seen_root, seen_child, rb_node, ch1, h)
      /\ SameAbove(ch1, h, node)
  <2>1. /\ a.to \in InTree \cup {NULL}
        /\ a.of \in InTree /\ ~(h[node] < h[a.of]) /\ (a.to # NULL => h[a.to] < h[a.of])
    BY <1>3, <1>4, <1>8
  <2>2. /\ Stands(tr, new, InTree, seq, seen_root, seen_child, rb_node, seen_child, h)
        /\ SameAbove(seen_child, h, node) /\ ch1 = Stored(seen_child, a) /\ a \in StoreTo(tr)
    BY <1>5, <1>6, <1>8
  <2>3. QED
    BY ONLY <1>7, <2>1, <2>2, StandsBefore
<1>10. /\ ch1 \in Children
       /\ \A m \in Node, d \in Side :
            ch1[m][d] = IF m = parent /\ d = "left" THEN c2 ELSE seen_child[m][d]
  BY <1>4, <1>8, StoredTypes
<1>11. OnlyFrom(seen_child, InTree, s, parent, "left")
  <2>1. "left" \in Side /\ parent = rb_parent(s)
    BY <1>3, <1>4, NodeAssumption DEF IInv, Links, Side
  <2>2. QED
    BY <1>3, <1>4, <2>1, OnePointer
<1>12. PICK v \in Nat : v = 2 * h[node] - 1
  <2>1. h[node] \in Nat /\ h[s] \in Nat /\ h[node] > 0
    BY <1>3, <1>4
  <2>2. QED
    BY <2>1
<1>13. HasRoom(ch1, InTree, h, s, v)
  <2>1. ASSUME NEW d \in Side, ch1[s][d] # NULL PROVE 2 * h[ch1[s][d]] < v
    <3>1. PICK m : m = rb_child[s][d]
      OBVIOUS
    <3>2. m = ch1[s][d] /\ m # NULL
      BY <1>3, <1>4, <1>10, <2>1, <3>1 DEF Agree
    <3>3. m \in InTree /\ h[m] < h[s]
      BY <1>3, <3>1, <3>2, ChildIsLower
    <3>4. h[m] \in Nat /\ h[s] \in Nat /\ h[node] \in Nat
      BY <1>3, <1>4, <3>3
    <3>5. 2 * h[m] < v
      BY <1>3, <1>12, <3>3, <3>4
    <3>6. QED
      BY <3>2, <3>5
  <2>2. ASSUME NEW m \in InTree, NEW d \in Side PROVE ch1[m][d] # s
    BY <1>3, <1>4, <1>10, <1>11 DEF OnlyFrom
  <2>3. QED
    BY <2>1, <2>2 DEF HasRoom
<1>14. PICK g : g = Placed(h, InTree, s, v)
  OBVIOUS
<1>15. /\ Stands(tr, new, InTree, Append(seq, a), seen_root, seen_child, rb_node, ch1, g)
       /\ \A m \in InTree : g[m] = IF m = s THEN v ELSE 2 * h[m]
  <2>1. s \in InTree /\ v \in Nat
    BY <1>3
  <2>2. /\ Stands(tr, new, InTree, Append(seq, a), seen_root, seen_child, rb_node, ch1,
                  Placed(h, InTree, s, v))
        /\ \A m \in InTree : Placed(h, InTree, s, v)[m] = IF m = s THEN v ELSE 2 * h[m]
    BY ONLY <1>9, <1>13, <2>1, StandsAnew
  <2>3. QED
    BY <1>14, <2>2
<1>16. /\ Stands(tr, new, InTree, Append(Append(seq, a), b), seen_root, seen_child, rb_node, ch2, g)
       /\ SameAbove(ch2, h, node)
  <2>1. PICK seq2 : seq2 = Append(seq, a)
    OBVIOUS
  <2>2. /\ b.to \in InTree \cup {NULL}
        /\ b.of \in InTree /\ ~(h[node] < h[b.of]) /\ (b.to # NULL => g[b.to] < g[b.of])
    BY <1>3, <1>4, <1>8, <1>12, <1>15
  <2>3. /\ Stands(tr, new, InTree, seq2, seen_root, seen_child, rb_node, ch1, g)
        /\ SameAbove(ch1, h, node) /\ ch2 = Stored(ch1, b) /\ b \in StoreTo(tr)
    BY <1>8, <1>9, <1>15, <2>1
  <2>4. /\ Stands(tr, new, InTree, Append(seq2, b), seen_root, seen_child, rb_node, ch2, g)
        /\ SameAbove(ch2, h, node)
    BY ONLY <1>7, <2>2, <2>3, StandsBefore
  <2>5. QED
    BY <2>1, <2>4
<1>17. /\ ch2 \in Children
       /\ \A m \in Node, d \in Side :
            ch2[m][d] = IF m = s /\ d = "right" THEN c
                        ELSE IF m = parent /\ d = "left" THEN c2 ELSE seen_child[m][d]
  <2>1. /\ ch2 \in Children
        /\ \A m \in Node, d \in Side :
             ch2[m][d] = IF m = s /\ d = "right" THEN c ELSE ch1[m][d]
    BY <1>4, <1>8, <1>10, StoredTypes
  <2>2. QED
    BY <1>10, <2>1
<1>18. \A m \in InTree, d \in Side : ch2[m][d] = node => rb_child[m][d] = node
  BY <1>3, <1>4, <1>17 DEF Agree
<1>19. Lifted(tr, h, Append(Append(seq, a), b), ch2)
  BY <1>1, <1>6, <1>12, <1>15, <1>16, <1>17, <1>18 DEF Lifted
<1>20. QED
  BY <1>1, <1>17, <1>19 DEF LiftedFar

\* Cases 2 and 3 of __rb_erase_augmented.
LEMMA EraseSuccessorArrives ==
  ASSUME ListInv, IInv', Still, EraseSuccessor, stores' = EraseSuccessorStores
  PROVE  /\ Arrives(stores', InTree', {}, seen_root, seen_child, rb_node', rb_child')
         /\ InTree' \subseteq InTree
<1>0. IInv
  BY DEF ListInv
<1>1. PICK h : IsHeight(h)
  BY <1>0, HeightsNow
<1>2. PICK tr : tr = InTree'
  OBVIOUS
<1>3. tr = InTree \ {node} /\ tr \in SUBSET Node /\ InTree \in SUBSET Node
  <2>1. node \in Node /\ Removes(Node, List, List', node)
    BY EraseSuccessorRemoves
  <2>2. InTree' = InTree \ {node}
    BY <1>0, <2>1, RemovedNode
  <2>3. QED
    BY <1>2, <2>2 DEF InTree
<1>4. PICK s, p, c, c2, t : /\ s = successor /\ p = rb_parent(node)
                            /\ c = rb_child[node]["right"] /\ c2 = rb_child[s]["right"]
                            /\ t = rb_child[node]["left"]
  OBVIOUS
<1>5. /\ node \in InTree /\ s \in InTree /\ parent \in InTree /\ s # node
      /\ p \in InTree \cup {NULL} /\ t \in InTree \cup {NULL}
      /\ c \in InTree \cup {NULL} /\ c2 \in InTree \cup {NULL}
  <2>1. IInv /\ IsHeight(h) /\ EraseSuccessor
    BY <1>0, <1>1
  <2>2. QED
    BY ONLY <1>4, <2>1, AtSuccessor
<1>6. PICK seq : seq = <<>>
  OBVIOUS
<1>7. PICK a1, b1, a, b : /\ a1 = Store(parent, "left", rb_child[successor]["right"])
                          /\ b1 = Store(successor, "right", rb_child[node]["right"])
                          /\ a = Store(successor, "left", rb_child[node]["left"])
                          /\ b = ChangeChildStore(node, successor, p)
  OBVIOUS
<1>8. rb_child \in Children /\ seen_child \in Children /\ Agree(seen_child, rb_child, InTree)
  BY <1>0 DEF IInv, TypeOK, Children, Still
<1>9. PICK chw : chw = IF parent # s THEN [rb_child EXCEPT ![parent]["left"] = c2,
                                                 ![s] = [left |-> t, right |-> c]]
                       ELSE [rb_child EXCEPT ![s]["left"] = t]
  OBVIOUS
<1>10. /\ chw \in Children
       /\ \A m \in Node, d \in Side :
            chw[m][d] = IF m = s /\ d = "left" THEN t
                        ELSE IF parent # s /\ m = s /\ d = "right" THEN c
                        ELSE IF parent # s /\ m = parent /\ d = "left" THEN c2
                        ELSE rb_child[m][d]
  <2>1. /\ s \in Node /\ parent \in Node
        /\ c \in NodeOrNil /\ c2 \in NodeOrNil /\ t \in NodeOrNil
    BY <1>3, <1>5 DEF NodeOrNil
  <2>2. ASSUME parent # s
        PROVE  /\ chw \in Children
               /\ \A m \in Node, d \in Side :
                    chw[m][d] = IF m = s /\ d = "left" THEN t
                                ELSE IF m = s /\ d = "right" THEN c
                                ELSE IF m = parent /\ d = "left" THEN c2
                                ELSE rb_child[m][d]
    <3>1. PICK chx, pair : /\ chx = [rb_child EXCEPT ![parent]["left"] = c2]
                           /\ pair = [left |-> t, right |-> c]
      OBVIOUS
    <3>2. chw = [chx EXCEPT ![s] = pair]
      BY <1>9, <2>2, <3>1
    <3>3. pair \in [Side -> NodeOrNil] /\ pair["left"] = t /\ pair["right"] = c
      BY <2>1, <3>1 DEF Side
    <3>4. /\ chx \in Children
          /\ \A m \in Node, d \in Side :
               chx[m][d] = IF m = parent /\ d = "left" THEN c2 ELSE rb_child[m][d]
      BY <1>8, <2>1, <3>1 DEF Children, Side
    <3>5. /\ chw \in Children
          /\ \A m \in Node, d \in Side : chw[m][d] = IF m = s THEN pair[d] ELSE chx[m][d]
      BY <2>1, <3>2, <3>3, <3>4 DEF Children
    <3>6. QED
      BY <2>2, <3>3, <3>4, <3>5 DEF Side
  <2>3. ASSUME parent = s
        PROVE  /\ chw \in Children
               /\ \A m \in Node, d \in Side :
                    chw[m][d] = IF m = s /\ d = "left" THEN t ELSE rb_child[m][d]
    <3>1. chw = [rb_child EXCEPT ![s]["left"] = t]
      BY <1>9, <2>3
    <3>2. QED
      BY <1>8, <2>1, <3>1 DEF Children, Side
  <2>4. QED
    BY <2>2, <2>3
<1>11. /\ rb_child' = [ChangeChild(chw, node, s, p) EXCEPT ![node] = Leaf]
       /\ rb_node' = ChangeRoot(s, p)
  BY <1>4, <1>9 DEF EraseSuccessor
<1>12. ASSUME NEW ch3 \in Children, Agree(ch3, chw, InTree)
       PROVE  Agree(ChangeChild(ch3, node, s, p), rb_child', tr)
  <2>1. s \in NodeOrNil /\ p \in NodeOrNil /\ node \in Node
    BY <1>3, <1>5 DEF NodeOrNil
  <2>2. Agree(ChangeChild(ch3, node, s, p), ChangeChild(chw, node, s, p), InTree)
    BY <1>3, <1>10, <1>12, <2>1, ChangeAgrees
  <2>3. ChangeChild(chw, node, s, p) \in Children
    BY <1>10, <2>1, ChangeChildStores
  <2>4. \A m \in tr : rb_child'[m] = ChangeChild(chw, node, s, p)[m]
    BY <1>3, <1>11, <2>3 DEF Children
  <2>5. QED
    BY <1>3, <2>2, <2>4 DEF Agree
<1>13. PICK seq0, ch : /\ Lifted(tr, h, seq0, ch)
                       /\ stores' = Append(Append(seq0, a), b)
                       /\ \A m \in InTree, d \in Side :
                            ch[m][d] = IF m = s /\ d = "left" THEN ch[m][d] ELSE chw[m][d]
  <2>1. CASE parent = s
    <3>1. Lifted(tr, h, seq, seen_child)
      BY <1>0, <1>1, <1>3, <1>4, <1>6, <2>1, NearSuccessor
    <3>2. stores' = Append(Append(seq, a), b)
      <4>1. stores' = <<>> \o <<a, b>>
        BY <1>4, <1>7, <2>1 DEF EraseSuccessorStores
      <4>2. QED
        BY <1>6, <4>1
    <3>3. \A m \in InTree, d \in Side :
            seen_child[m][d] = IF m = s /\ d = "left" THEN seen_child[m][d] ELSE chw[m][d]
      BY <1>3, <1>8, <1>10, <2>1 DEF Agree
    <3>4. QED
      BY <3>1, <3>2, <3>3
  <2>2. CASE parent # s
    <3>1. PICK ch1, ch2 : ch1 = Stored(seen_child, a1) /\ ch2 = Stored(ch1, b1)
      OBVIOUS
    <3>2. /\ Lifted(tr, h, Append(Append(seq, a1), b1), ch2)
          /\ \A m \in Node, d \in Side :
               ch2[m][d] = IF m = s /\ d = "right" THEN c
                           ELSE IF m = parent /\ d = "left" THEN c2 ELSE seen_child[m][d]
      <4>1. IInv /\ Still /\ IsHeight(h) /\ EraseSuccessor /\ parent # successor
        BY <1>0, <1>1, <1>4, <2>2
      <4>2. /\ a1 = Store(parent, "left", rb_child[successor]["right"])
            /\ b1 = Store(successor, "right", rb_child[node]["right"])
            /\ tr = InTree \ {node}
        BY <1>3, <1>7
      <4>3. LiftedFar(tr, h, Append(Append(seq, a1), b1), ch2)
        BY ONLY <1>6, <3>1, <4>1, <4>2, FarSuccessor
      <4>4. QED
        BY <1>4, <4>3 DEF LiftedFar
    <3>3. stores' = Append(Append(Append(Append(seq, a1), b1), a), b)
      <4>1. stores' = <<a1, b1>> \o <<a, b>>
        BY <1>4, <1>7, <2>2 DEF EraseSuccessorStores, FarStores
      <4>2. PICK S : S = {a1, b1, a, b}
        OBVIOUS
      <4>3. PICK two : two = <<a1, b1>>
        OBVIOUS
      <4>4. two \in Seq(S) /\ a1 \in S /\ b1 \in S /\ a \in S /\ b \in S
        BY <4>2, <4>3
      <4>5. two \o <<a, b>> = Append(Append(two, a), b) /\ two = Append(Append(<<>>, a1), b1)
        BY <4>3, <4>4, Lists
      <4>6. QED
        BY <1>6, <4>1, <4>3, <4>5
    <3>4. \A m \in InTree, d \in Side :
            ch2[m][d] = IF m = s /\ d = "left" THEN ch2[m][d] ELSE chw[m][d]
      BY <1>3, <1>8, <1>10, <2>2, <3>2 DEF Agree
    <3>5. PICK seq2 : seq2 = Append(Append(seq, a1), b1)
      OBVIOUS
    <3>6. Lifted(tr, h, seq2, ch2) /\ stores' = Append(Append(seq2, a), b)
      BY <3>2, <3>3, <3>5
    <3>7. QED
      BY <3>4, <3>6
  <2>3. QED
    BY <2>1, <2>2
<1>14. PICK g : /\ ch \in Children /\ SameAbove(ch, h, node)
                /\ \A m \in InTree, d \in Side : ch[m][d] = node => rb_child[m][d] = node
                /\ Stands(tr, {}, InTree, seq0, seen_root, seen_child, rb_node, ch, g)
                /\ \A m \in InTree : g[m] = IF m = successor THEN 2 * h[node] - 1 ELSE 2 * h[m]
  BY <1>13 DEF Lifted
<1>15. PICK ch3 : ch3 = Stored(ch, a)
  OBVIOUS
<1>16. ch3 \in Children /\ Agree(ch3, chw, InTree)
  <2>1. t # node
    <3>1. IInv /\ IsHeight(h) /\ EraseSuccessor
      BY <1>0, <1>1
    <3>2. QED
      BY ONLY <1>4, <3>1, AtSuccessor
  <2>2. a \in StoreTo(tr) /\ a.of = s /\ a.side = "left" /\ a.to = t
    <3>1. s \in NodeOrNil /\ t \in tr \cup {NULL} /\ "left" \in Side
      BY <1>3, <1>5, <2>1 DEF NodeOrNil, Side
    <3>2. QED
      BY <1>4, <1>7, <3>1 DEF Store, StoreTo
  <2>3. s # NULL
    BY <1>3, <1>5, NodeAssumption
  <2>4. /\ ch3 \in Children
        /\ \A m \in Node, d \in Side :
             ch3[m][d] = IF m = s /\ d = "left" THEN t ELSE ch[m][d]
    BY <1>3, <1>14, <1>15, <2>2, <2>3, StoredTypes
  <2>5. QED
    BY <1>3, <1>10, <1>13, <2>4 DEF Agree
<1>17. PICK st, r2, m2 : st = stores' /\ r2 = rb_node' /\ m2 = rb_child'
  OBVIOUS
<1>18. Arrives(st, tr, {}, seen_root, seen_child, r2, m2)
  <2>1. Agree(ChangeChild(ch3, node, successor, p), m2, tr) /\ r2 = ChangeRoot(successor, p)
    BY <1>4, <1>11, <1>12, <1>16, <1>17
  <2>2. IInv /\ IsHeight(h) /\ EraseSuccessor /\ tr = InTree \ {node}
    BY <1>0, <1>1, <1>3
  <2>3. Arrives(Append(Append(seq0, a), b), tr, {}, seen_root, seen_child, r2, m2)
    BY ONLY <1>4, <1>7, <1>14, <1>15, <2>1, <2>2, LiftedArrives
  <2>4. QED
    BY <1>13, <1>17, <2>3
<1>19. QED
  BY <1>2, <1>3, <1>17, <1>18

-----------------------------------------------------------------------------
(* The inductive invariant: the stores that are under way lead to the tree of *)
(* the writer, and bring what is new in it.                                   *)

CatchUp ==
  /\ ListInv
  /\ seen_child \in Children
  /\ \E new \in SUBSET InTree :
       /\ Arrives(stores, InTree, new, seen_root, seen_child, rb_node, rb_child)
       /\ stores # <<>> => Brings(stores, new)

\* When no store is under way the memory has the tree of the writer.
LEMMA CatchUpStill ==
  ASSUME CatchUp, stores = <<>>
  PROVE  Still
<1>1. PICK new \in SUBSET InTree :
        Arrives(stores, InTree, new, seen_root, seen_child, rb_node, rb_child)
  BY DEF CatchUp
<1>2. PICK ch \in Children : /\ Leads(<<>>, InTree, new, seen_root, seen_child, rb_node, ch)
                             /\ Agree(ch, rb_child, InTree)
                             /\ \E k \in [Node -> Nat] : Outside(ch, InTree, k)
  BY <1>1 DEF Arrives
<1>3. seen_root = rb_node /\ seen_child = ch
  BY ONLY <1>2, NowhereLeads
<1>4. QED
  BY <1>2, <1>3 DEF Still

\* The stores seq of a turn bring the tree r, m with the nodes tr2, where those of tr were.
Brought(seq, tr, tr2, r, m) ==
  \E new \in SUBSET tr2 :
    /\ Arrives(seq, tr2, new, seen_root, seen_child, r, m)
    /\ Brings(seq, new)
    /\ tr2 \subseteq tr \cup new

\* A turn that brings nothing new.
LEMMA NothingNew ==
  ASSUME NEW seq, NEW tr, NEW tr2 \in SUBSET tr, NEW r, NEW m,
         Arrives(seq, tr2, {}, seen_root, seen_child, r, m)
  PROVE  Brought(seq, tr, tr2, r, m)
BY DEF Brought, Brings

\* A turn that stores no pointers.
LEMMA SilentArrives ==
  ASSUME IInv, IInv', Still, SilentTurn, stores' = <<>>
  PROVE  Arrives(stores', InTree, {}, seen_root, seen_child, rb_node', rb_child') /\ InTree' = InTree
<1>1. rb_child' = rb_child /\ rb_node' = rb_node
  BY DEF SilentTurn, Add, FindAdd, StartDescent, EraseTwoChildren, FindAddHit, Descend, InsertRoot,
         InsertDone, InsertFlip, SuccessorStep, EraseFlip, tree
<1>2. InTree' = InTree
  <2>1. List' = List
    BY <1>1, SameTree
  <2>2. InTree = Elements(List) /\ InTree' = Elements(List')
    BY LinkedInList, LinkedInNextList
  <2>3. QED
    BY <2>1, <2>2
<1>3. PICK h : IsHeight(h)
  BY HeightsNow
<1>4. Stands(InTree, {}, InTree, <<>>, seen_root, seen_child, seen_root, seen_child, h)
  BY <1>3, StillStands
<1>5. Agree(seen_child, rb_child, InTree) /\ seen_root = rb_node
  BY DEF Still
<1>6. PICK seq : seq = <<>>
  OBVIOUS
<1>7. Arrives(seq, InTree, {}, seen_root, seen_child, seen_root, rb_child)
  <2>1. Stands(InTree, {}, InTree, seq, seen_root, seen_child, seen_root, seen_child, h)
    BY <1>4, <1>6
  <2>2. QED
    BY ONLY <1>5, <2>1, StandsArrives
<1>8. QED
  BY <1>1, <1>2, <1>5, <1>6, <1>7

\* Each turn of the writer.
LEMMA TurnBrings ==
  ASSUME ListInv, Still, WriterTurn
  PROVE  Brought(stores', InTree, InTree', rb_node', rb_child')
<1>1. IInv
  BY DEF ListInv
<1>2. IInv'
  <2>1. [LocklessNext]_locklessVars
    BY DEF LocklessNext
  <2>2. [Next]_vars
    BY <2>1, LocklessStep
  <2>3. QED
    BY <1>1, <2>2, NextKeepsIInv
<1>3. ASSUME Arrives(stores', InTree', {}, seen_root, seen_child, rb_node', rb_child'),
             InTree' \subseteq InTree
      PROVE  Brought(stores', InTree, InTree', rb_node', rb_child')
  <2>1. PICK st, tr2, r2, m2 : st = stores' /\ tr2 = InTree' /\ r2 = rb_node' /\ m2 = rb_child'
    OBVIOUS
  <2>2. tr2 \in SUBSET InTree /\ Arrives(st, tr2, {}, seen_root, seen_child, r2, m2)
    BY <1>3, <2>1
  <2>3. Brought(st, InTree, tr2, r2, m2)
    BY ONLY <2>2, NothingNew
  <2>4. QED
    BY <2>1, <2>3
<1>4. ASSUME Arrives(stores', InTree, {}, seen_root, seen_child, rb_node', rb_child'),
             InTree' = InTree
      PROVE  Brought(stores', InTree, InTree', rb_node', rb_child')
  BY <1>3, <1>4
<1>5. CASE SilentTurn /\ stores' = <<>>
  BY <1>1, <1>2, <1>4, <1>5, SilentArrives
<1>6. CASE Link /\ stores' \in LinkStores
  <2>1. /\ Arrives(stores', InTree', {node}, seen_root, seen_child, rb_node', rb_child')
        /\ Brings(stores', {node}) /\ node \in InTree'
    BY <1>1, <1>2, <1>6, LinkArrives
  <2>2. InTree' = InTree \cup {node}
    BY <1>1, <1>6, LinkedNode
  <2>3. QED
    BY <2>1, <2>2 DEF Brought
<1>7. CASE InsertRotate /\ stores' = InsertRotateStores
  <2>1. TreeTurned
    BY <1>1, <1>7, InsertRotateKeepsIInv
  <2>2. QED
    BY <1>1, <1>2, <1>4, <1>7, <2>1, TurnKeepsNodes, InsertRotateArrives
<1>8. ASSUME NEW n \in Node, EraseOneChild(n), stores' = EraseOneChildStores(n)
      PROVE  Brought(stores', InTree, InTree', rb_node', rb_child')
  <2>1. Removes(Node, List, List', n)
    BY <1>1, <1>8, EraseOneChildRemoves
  <2>2. InTree' = InTree \ {n}
    BY <1>1, <1>2, <2>1, RemovedNode
  <2>3. Arrives(stores', InTree', {}, seen_root, seen_child, rb_node', rb_child')
    BY <1>1, <1>2, <1>8, EraseOneChildArrives
  <2>4. InTree' \subseteq InTree
    BY <2>2
  <2>5. QED
    BY <1>3, <2>3, <2>4
<1>9. CASE EraseSuccessor /\ stores' = EraseSuccessorStores
  BY <1>2, <1>3, <1>9, EraseSuccessorArrives
<1>10. CASE EraseRedSibling /\ stores' = EraseRedSiblingStores
  <2>1. TreeTurned
    BY <1>1, <1>10, EraseRedSiblingKeepsIInv
  <2>2. QED
    BY <1>1, <1>2, <1>4, <1>10, <2>1, TurnKeepsNodes, EraseRedSiblingArrives
<1>11. CASE EraseRotate /\ stores' = EraseRotateStores
  <2>1. TreeTurned
    BY <1>1, <1>11, EraseRotateKeepsIInv
  <2>2. QED
    BY <1>1, <1>2, <1>4, <1>11, <2>1, TurnKeepsNodes, EraseRotateArrives
<1>12. ASSUME NEW n \in Node, NEW m \in Node, Replace(n, m), stores' \in ReplaceStores(n, m)
       PROVE  Brought(stores', InTree, InTree', rb_node', rb_child')
  <2>1. /\ Arrives(stores', InTree', {m}, seen_root, seen_child, rb_node', rb_child')
        /\ Brings(stores', {m}) /\ m \in InTree' /\ InTree' \subseteq InTree \cup {m}
    BY <1>1, <1>2, <1>12, ReplaceArrives
  <2>2. QED
    BY <2>1 DEF Brought
<1>13. QED
  BY <1>5, <1>6, <1>7, <1>8, <1>9, <1>10, <1>11, <1>12 DEF WriterTurn

\* What the last store of several leads to is what the rest of them end with.
LEMMA LastOfRest ==
  ASSUME NEW S, NEW seq \in Seq(S), seq # <<>>, Tail(seq) # <<>>, NEW n, Last(seq, n)
  PROVE  Last(Tail(seq), n)
<1>1. PICK rest : rest = Tail(seq)
  OBVIOUS
<1>2. PICK N \in Nat : Len(seq) = N + 1
  <2>1. Len(seq) \in Nat /\ Len(seq) # 0
    OBVIOUS
  <2>2. Len(seq) - 1 \in Nat
    BY <2>1
  <2>3. QED
    BY <2>1, <2>2
<1>3. /\ rest \in Seq(S) /\ Len(rest) = N /\ (\A i \in 1..N : rest[i] = seq[i + 1]) /\ N # 0
  <2>1. rest \in Seq(S) /\ rest # <<>> /\ Len(rest) = Len(seq) - 1
        /\ \A i \in 1..Len(rest) : rest[i] = seq[i + 1]
    BY <1>1
  <2>2. Len(rest) # 0
    BY <2>1
  <2>3. QED
    BY <1>2, <2>1, <2>2
<1>4. seq[N + 1].to = n /\ \A i \in 1..(N + 1) : i # N + 1 => seq[i].to # n
  BY <1>2 DEF Last
<1>5. \A i \in 1..N : i # N => i + 1 \in 1..(N + 1) /\ i + 1 # N + 1
  OBVIOUS
<1>6. N \in 1..N
  BY <1>3
<1>7. Last(rest, n)
  BY <1>1, <1>3, <1>4, <1>5, <1>6 DEF Last
<1>8. QED
  BY <1>1, <1>7

\* A store that becomes visible leaves the other ones on their way.
LEMMA VisibleKeeps ==
  ASSUME CatchUp, Visible
  PROVE  /\ CatchUp'
         /\ Head(stores) \in StoreTo(InTree)
         /\ stores \in Seq(StoreTo(InTree))
         /\ seen_child' = Stored(seen_child, Head(stores))
         /\ seen_root' = StoredRoot(seen_root, Head(stores))
<1>1. /\ stores # <<>> /\ stores' = Tail(stores)
      /\ seen_child' = Stored(seen_child, Head(stores))
      /\ seen_root' = StoredRoot(seen_root, Head(stores))
      /\ UNCHANGED vars
  BY DEF Visible, Stored, StoredRoot
<1>2. PICK new \in SUBSET InTree :
        /\ Arrives(stores, InTree, new, seen_root, seen_child, rb_node, rb_child)
        /\ stores # <<>> => Brings(stores, new)
  BY DEF CatchUp
<1>3. PICK ch \in Children :
        /\ Leads(stores, InTree, new, seen_root, seen_child, rb_node, ch)
        /\ Agree(ch, rb_child, InTree)
        /\ \E k \in [Node -> Nat] : Outside(ch, InTree, k)
  BY <1>2 DEF Arrives
<1>4. PICK tr : tr = InTree
  OBVIOUS
<1>5. /\ Head(stores) \in StoreTo(tr)
      /\ Leads(Tail(stores), tr, new, StoredRoot(seen_root, Head(stores)),
               Stored(seen_child, Head(stores)), rb_node, ch)
  <2>1. tr \in SUBSET Node /\ Leads(stores, tr, new, seen_root, seen_child, rb_node, ch)
    BY <1>3, <1>4 DEF InTree
  <2>2. QED
    BY ONLY <1>1, <2>1, LeadsAfter
<1>6. rb_node' = rb_node /\ rb_child' = rb_child /\ InTree' = InTree
  BY <1>1 DEF vars, tree, InTree, RB_EMPTY_NODE, rb_parent
<1>7. Arrives(stores', InTree', new, seen_root', seen_child', rb_node', rb_child')
  BY <1>1, <1>3, <1>4, <1>5, <1>6 DEF Arrives
<1>8. stores \in Seq(StoreTo(InTree))
  BY <1>3 DEF Leads
<1>9. stores' # <<>> => Brings(stores', new)
  BY <1>1, <1>2, <1>8, LastOfRest DEF Brings
<1>10. ListInv'
  <2>1. ListInv /\ [Next]_vars
    BY <1>1 DEF CatchUp
  <2>2. QED
    BY <2>1, NextKeepsList
<1>11. seen_child' \in Children
  <2>1. tr \in SUBSET Node /\ seen_child \in Children
    BY <1>4 DEF CatchUp, InTree
  <2>2. QED
    BY <1>1, <1>5, <2>1, StoredTypes
<1>12. CatchUp'
  BY <1>6, <1>7, <1>9, <1>10, <1>11 DEF CatchUp
<1>13. QED
  BY <1>1, <1>4, <1>5, <1>8, <1>12

\* Every step keeps the stores on their way.
LEMMA LocklessKeepsCatchUp ==
  ASSUME CatchUp, [LocklessNext]_locklessVars
  PROVE  CatchUp'
<1>1. ListInv'
  <2>1. ListInv /\ [Next]_vars
    BY LocklessStep DEF CatchUp
  <2>2. QED
    BY <2>1, NextKeepsList
<1>2. CASE WriterTurn
  <2>1. stores = <<>> /\ seen_root' = seen_root /\ seen_child' = seen_child
    BY <1>2 DEF WriterTurn, seen
  <2>2. Still
    BY <2>1, CatchUpStill
  <2>3. Brought(stores', InTree, InTree', rb_node', rb_child')
    BY <1>2, <2>2, TurnBrings DEF CatchUp
  <2>4. PICK new \in SUBSET InTree' :
          /\ Arrives(stores', InTree', new, seen_root, seen_child, rb_node', rb_child')
          /\ Brings(stores', new)
    BY <2>3 DEF Brought
  <2>5. QED
    BY <1>1, <2>1, <2>4 DEF CatchUp
<1>3. CASE Visible
  BY <1>3, VisibleKeeps
<1>4. CASE ReadChild \/ ReadDone \/ (\E k \in Keys : Lookup(k)) \/ UNCHANGED locklessVars
  <2>1. UNCHANGED <<vars, seen, stores>>
    BY <1>4 DEF ReadChild, ReadDone, Lookup, locklessVars
  <2>2. /\ rb_node' = rb_node /\ rb_child' = rb_child /\ InTree' = InTree
        /\ seen_root' = seen_root /\ seen_child' = seen_child /\ stores' = stores
    BY <2>1 DEF vars, tree, seen, InTree, RB_EMPTY_NODE, rb_parent
  <2>3. QED
    BY <1>1, <2>2 DEF CatchUp
<1>5. QED
  BY <1>2, <1>3, <1>4 DEF LocklessNext

\* Nothing is in the tree, and nothing is visible.
LEMMA InitCatchUp ==
  ASSUME LocklessInit
  PROVE  CatchUp
<1>1. ListInv
  BY InitList DEF LocklessInit
<1>2. IInv
  BY <1>1 DEF ListInv
<1>3. /\ seen_root = rb_node /\ rb_node = NULL /\ stores = <<>>
      /\ seen_child = [n \in Node |-> Leaf]
  BY DEF LocklessInit, Init
<1>4. seen_child \in Children
  BY <1>3, NodeAssumption DEF Children, Leaf, Side, NodeOrNil
<1>5. InTree = {} /\ InTree \in SUBSET Node
  <2>1. \A n \in Node : rb_parent_color[n] = ClearWord(n)
    BY DEF LocklessInit, Init
  <2>2. ASSUME NEW n \in Node PROVE RB_EMPTY_NODE(n)
    <3>1. rb_parent_color[n] = [parent |-> n, color |-> "red"]
      BY <2>1 DEF ClearWord, Word
    <3>2. QED
      BY <3>1 DEF RB_EMPTY_NODE, rb_parent
  <2>3. QED
    BY <2>2 DEF InTree
<1>6. Agree(seen_child, rb_child, InTree)
  BY <1>5 DEF Agree
<1>7. Outside(seen_child, InTree, [n \in Node |-> 0])
  BY <1>3, <1>5, NodeAssumption DEF Outside, Leaf, Side
<1>8. Still
  <2>1. [n \in Node |-> 0] \in [Node -> Nat]
    OBVIOUS
  <2>2. QED
    BY <1>3, <1>4, <1>6, <1>7, <2>1 DEF Still
<1>9. PICK h : IsHeight(h)
  BY <1>2, HeightsNow
<1>10. Stands(InTree, {}, InTree, <<>>, seen_root, seen_child, seen_root, seen_child, h)
  BY <1>2, <1>8, <1>9, StillStands
<1>11. Arrives(stores, InTree, {}, seen_root, seen_child, seen_root, rb_child)
  BY <1>3, <1>6, <1>10, StandsArrives
<1>12. QED
  BY <1>1, <1>3, <1>4, <1>11 DEF CatchUp

\* The stores lead to the tree of the writer in every reachable state.
LEMMA CatchUpAlways == LocklessSpec => []CatchUp
BY InitCatchUp, LocklessKeepsCatchUp, PTL DEF LocklessSpec

\* Between two turns of the writer the memory is the tree that the turns made: for all of
\* them the stores, one after the other, amount to what the turn does, in trees of any
\* size and also where stores without WRITE_ONCE become visible late.
THEOREM MemoryCatchesUp == LocklessSpec => []VisibleCatchesUp
<1>1. CatchUp => VisibleCatchesUp
  <2>1. SUFFICES ASSUME CatchUp, stores = <<>>
                 PROVE  seen_root = rb_node /\ \A n \in InTree : seen_child[n] = rb_child[n]
    BY DEF VisibleCatchesUp
  <2>2. Still
    BY <2>1, CatchUpStill
  <2>3. rb_child \in Children /\ seen_child \in Children
    BY <2>1 DEF CatchUp, ListInv, IInv, TypeOK, Children
  <2>4. ASSUME NEW n \in InTree PROVE seen_child[n] = rb_child[n]
    <3>1. n \in Node
      BY DEF InTree
    <3>2. seen_child[n] \in [Side -> NodeOrNil] /\ rb_child[n] \in [Side -> NodeOrNil]
      BY <2>3, <3>1 DEF Children
    <3>3. \A d \in Side : seen_child[n][d] = rb_child[n][d]
      BY <2>2 DEF Still, Agree
    <3>4. QED
      BY <3>2, <3>3
  <2>5. QED
    BY <2>2, <2>4 DEF Still
<1>2. QED
  BY <1>1, CatchUpAlways, PTL

-----------------------------------------------------------------------------
(* No loops, after any store. *)

\* The nodes from which k pointers lead on, one after the other, as NeverALoop collects them.
LinksOn(w, k, ch) ==
  IF k = 0 THEN Node ELSE {n \in Node : \E d \in Side : ch[n][d] \in w[k - 1]}

LinksOnTurns(w, ch) == [k \in Levels |-> LinksOn(w, k, ch)]
LinksOnWalk(ch) == CHOOSE w : w = LinksOnTurns(w, ch)

\* They are the sets of NeverALoop.
LEMMA LinksOnNow ==
  NeverALoop <=> LinksOnWalk(seen_child)[Max] = {}
BY DEF NeverALoop, LinksOnWalk, LinksOnTurns, LinksOn, Max

\* The collection has a solution and is it.
LEMMA LinksOnRecursion ==
  ASSUME NEW ch, NEW w, w = LinksOnWalk(ch)
  PROVE  \A k \in 0..Max : w[k] = LinksOn(w, k, ch)
<1> DEFINE On(X) == {n \in Node : \E d \in Side : ch[n][d] \in X}
           F == [X \in SUBSET Node |-> On(X)]
<1>1. F \in [SUBSET Node -> SUBSET Node] /\ Node \in SUBSET Node
  OBVIOUS
<1>2. \A X \in SUBSET Node : F[X] = {n \in Node : \E d \in Side : ch[n][d] \in X}
  OBVIOUS
<1> HIDE DEF F
<1>3. PICK v : Iteration(v, SUBSET Node, Node, F, Max)
  BY <1>1, MaxType, Iterates
<1>4. /\ v \in [0..Max -> SUBSET Node] /\ v[0] = Node
      /\ \A k \in 1..Max : v[k] = F[v[k - 1]]
  BY <1>3 DEF Iteration
<1>5. ASSUME NEW k \in 0..Max PROVE v[k] = LinksOn(v, k, ch)
  <2>1. CASE k = 0
    BY <1>4, <2>1 DEF LinksOn
  <2>2. CASE k # 0
    <3>1. k \in 1..Max /\ k - 1 \in 0..Max
      BY <2>2, MaxType
    <3>2. v[k - 1] \in SUBSET Node /\ v[k] = F[v[k - 1]]
      BY <1>4, <3>1
    <3>3. QED
      BY <1>2, <2>2, <3>2 DEF LinksOn
  <2>3. QED
    BY <2>1, <2>2
<1>6. v = LinksOnTurns(v, ch)
  BY <1>4, <1>5 DEF LinksOnTurns, Levels, Max
<1>7. w = LinksOnTurns(w, ch)
  BY <1>6 DEF LinksOnWalk
<1>8. QED
  BY <1>7 DEF LinksOnTurns, Levels, Max

\* One height for all nodes: that of the tree, and above it those outside of it.
LEMMA OneHeight ==
  ASSUME NEW ch \in Children, NEW T \in SUBSET Node, Sound(ch, T)
  PROVE  \E g \in [Node -> 1..Max] : Below(ch, Node, NULL, g)
<1>1. PICK h0 \in [T -> Nat] : Below(ch, T, NULL, h0)
  BY DEF Sound
<1>2. PICK k \in [Node -> Nat] : Outside(ch, T, k)
  BY DEF Sound
<1>3. /\ IsFiniteSet(T) /\ Cardinality(T) \in Nat /\ IsFiniteSet(Node)
  BY FiniteNodes, FS_Subset, FS_CardinalityType
<1>4. PICK C \in Nat : C = Cardinality(T)
  BY <1>3
<1>5. PICK h \in [T -> 1..C] : Below(ch, T, NULL, h)
  BY <1>1, <1>3, <1>4, LowHeights
<1> DEFINE f == [n \in Node |-> IF n \in T THEN h[n] ELSE C + 1 + k[n]]
<1>6. f \in [Node -> Nat] /\ \A n \in Node : f[n] = IF n \in T THEN h[n] ELSE C + 1 + k[n]
  OBVIOUS
<1> HIDE DEF f
<1>7. ASSUME NEW n \in Node, NEW d \in Side, NEW c, c = ch[n][d], c # NULL
      PROVE  c \in Node /\ f[c] < f[n]
  <2>1. c \in Node
    BY <1>7 DEF Children, NodeOrNil
  <2>2. CASE n \in T
    <3>1. c \in T /\ h[c] < h[n]
      BY <1>5, <1>7, <2>2, SidesAgree DEF Below
    <3>2. QED
      BY <1>6, <2>1, <2>2, <3>1
  <2>3. CASE n \notin T /\ c \in T
    <3>1. h[c] \in 1..C /\ k[n] \in Nat
      BY <2>3
    <3>2. f[c] = h[c] /\ f[n] = C + 1 + k[n]
      BY <1>6, <2>1, <2>3
    <3>3. QED
      BY <2>1, <3>1, <3>2
  <2>4. CASE n \notin T /\ c \notin T
    <3>1. k[c] < k[n]
      BY <1>2, <1>7, <2>4 DEF Outside
    <3>2. k[c] \in Nat /\ k[n] \in Nat /\ f[c] = C + 1 + k[c] /\ f[n] = C + 1 + k[n]
      BY <1>6, <2>1, <2>4
    <3>3. QED
      BY <2>1, <3>1, <3>2
  <2>5. QED
    BY <2>2, <2>3, <2>4
<1>8. Below(ch, Node, NULL, f)
  BY <1>7, SidesAgree, NodeAssumption DEF Below
<1>9. QED
  BY <1>3, <1>6, <1>8, LowHeights DEF Max

\* Where the height goes down along the pointers, no more than Max of them are in a row.
LEMMA HeightEndsLoops ==
  ASSUME NEW ch \in Children, NEW g \in [Node -> 1..Max], Below(ch, Node, NULL, g)
  PROVE  LinksOnWalk(ch)[Max] = {}
<1>1. PICK w : w = LinksOnWalk(ch)
  OBVIOUS
<1>2. \A k \in 0..Max : w[k] = LinksOn(w, k, ch)
  BY <1>1, LinksOnRecursion
<1>3. PICK T : T = {k \in Nat : k =< Max => \A n \in w[k] : n \in Node /\ k < g[n]}
  OBVIOUS
<1>4. 0 \in T
  <2>1. w[0] = Node
    <3>1. 0 \in 0..Max
      BY MaxType
    <3>2. w[0] = LinksOn(w, 0, ch)
      BY <1>2, <3>1
    <3>3. QED
      BY <3>2 DEF LinksOn
  <2>2. \A n \in Node : 0 < g[n]
    BY MaxType
  <2>3. QED
    BY <1>3, <2>1, <2>2
<1>5. ASSUME NEW k \in Nat, k \in T PROVE k + 1 \in T
  <2>1. ASSUME k + 1 =< Max, NEW n \in w[k + 1] PROVE n \in Node /\ k + 1 < g[n]
    <3>1. k + 1 \in 0..Max /\ k \in 0..Max /\ k + 1 # 0 /\ (k + 1) - 1 = k
      BY <2>1, MaxType
    <3>2. w[k + 1] = {m \in Node : \E d \in Side : ch[m][d] \in w[k]}
      <4>1. PICK j : j = k + 1
        OBVIOUS
      <4>2. w[j] = LinksOn(w, j, ch) /\ j # 0 /\ j - 1 = k
        BY <1>2, <3>1, <4>1
      <4>3. QED
        BY <4>1, <4>2 DEF LinksOn
    <3>3. PICK d \in Side : ch[n][d] \in w[k] /\ n \in Node
      BY <2>1, <3>2
    <3>4. ch[n][d] \in Node /\ k < g[ch[n][d]]
      BY <1>3, <1>5, <3>1, <3>3
    <3>5. PICK c : c = ch[n][d]
      OBVIOUS
    <3>6. g[c] < g[n] /\ k < g[c] /\ c \in Node
      BY <3>3, <3>4, <3>5, SidesAgree, NodeAssumption DEF Below
    <3>7. g[c] \in Int /\ g[n] \in Int
      BY <3>3, <3>6, MaxType
    <3>8. QED
      BY <3>3, <3>6, <3>7
  <2>2. QED
    BY <1>3, <2>1
<1>6. Max \in T
  BY <1>4, <1>5, MaxType, Induction
<1>7. \A n \in w[Max] : n \in Node /\ Max < g[n]
  BY <1>3, <1>6, MaxType
<1>8. \A n \in Node : g[n] =< Max
  BY MaxType
<1>9. \A n \in Node : g[n] \in Int
  BY MaxType
<1>10. w[Max] = {}
  BY <1>7, <1>8, <1>9, MaxType
<1>11. QED
  BY <1>1, <1>10

\* The memory is safe where the stores of CatchUp start from.
LEMMA SafeNow ==
  ASSUME CatchUp, PlainInOrder
  PROVE  \E new \in SUBSET InTree :
           /\ Safe(seen_root, seen_child, InTree, new)
           /\ stores # <<>> => Brings(stores, new)
<1>1. PICK new \in SUBSET InTree :
        /\ Arrives(stores, InTree, new, seen_root, seen_child, rb_node, rb_child)
        /\ stores # <<>> => Brings(stores, new)
  BY DEF CatchUp
<1>2. PICK ch \in Children : Leads(stores, InTree, new, seen_root, seen_child, rb_node, ch)
  BY <1>1 DEF Arrives
<1>3. PICK rs \in [0..Len(stores) -> NodeOrNil], ms \in [0..Len(stores) -> Children] :
        /\ rs[0] = seen_root /\ ms[0] = seen_child
        /\ \A i \in 0..Len(stores) : Safe(rs[i], ms[i], InTree, new)
  BY <1>2 DEF Leads
<1>4. 0 \in 0..Len(stores)
  BY <1>2 DEF Leads
<1>5. Safe(seen_root, seen_child, InTree, new)
  BY <1>3, <1>4
<1>6. QED
  BY <1>1, <1>5

\* If plain stores stay in their place, no store of any turn closes a loop of child
\* pointers, not even through erased nodes: in no order of turns, of no number of nodes.
THEOREM LoopsNeverForm == PlainInOrder => (LocklessSpec => []NeverALoop)
<1>1. PlainInOrder /\ CatchUp => NeverALoop
  <2>1. SUFFICES ASSUME PlainInOrder, CatchUp PROVE NeverALoop
    OBVIOUS
  <2>2. PICK T \in SUBSET Node : Sound(seen_child, T)
    BY <2>1, SafeNow DEF Safe
  <2>3. seen_child \in Children
    BY <2>1 DEF CatchUp
  <2>4. PICK g \in [Node -> 1..Max] : Below(seen_child, Node, NULL, g)
    BY <2>2, <2>3, OneHeight
  <2>5. QED
    BY <2>3, <2>4, HeightEndsLoops, LinksOnNow
<1>2. SUFFICES ASSUME PlainInOrder PROVE LocklessSpec => []NeverALoop
  OBVIOUS
<1>3. CatchUp => NeverALoop
  BY <1>1, <1>2
<1>4. QED
  BY <1>3, CatchUpAlways, PTL

-----------------------------------------------------------------------------
(* The reader. *)

\* What the reader may still meet: nodes it may, with all that their pointers lead to,
\* and whatever is in the tree besides comes with the last store that is under way.
InReach(V) ==
  /\ V \in SUBSET Node /\ V \subseteq linked
  /\ at \in V \cup {NULL}
  /\ \A n \in V, d \in Side : seen_child[n][d] \in V \cup {NULL}
  /\ \A n \in InTree \ V : stores # <<>> /\ Last(stores, n)

ReaderInv ==
  /\ OnlyValidElements
  /\ key # NULL => \E V : InReach(V)

\* The pointers of the tree lead to nodes of the tree.
LEMMA TreeIsClosed ==
  ASSUME IInv, NEW n \in InTree, NEW d \in Side
  PROVE  rb_child[n][d] \in InTree \cup {NULL}
<1>1. PICK h : IsHeight(h)
  BY HeightsNow
<1>2. QED
  BY <1>1, ChildIsLower

\* A lookup starts.
LEMMA LookupReaches ==
  ASSUME CatchUp, PlainInOrder, NEW k \in Keys, Lookup(k)
  PROVE  ReaderInv'
<1>1. /\ at' = seen_root /\ seen_child' = seen_child /\ stores' = stores
      /\ linked' = InTree \cup Elements(InOrder(seen_child, seen_root))
  BY DEF Lookup, seen, Range, Elements
<1>2. InTree' = InTree
  BY DEF Lookup, vars, tree, InTree, RB_EMPTY_NODE, rb_parent
<1>3. ASSUME NEW V \in SUBSET Node, V \subseteq linked', seen_root \in V \cup {NULL},
             \A n \in V, d \in Side : seen_child[n][d] \in V \cup {NULL},
             \A n \in InTree \ V : stores # <<>> /\ Last(stores, n)
      PROVE  ReaderInv'
  <2>1. InReach(V)'
    BY <1>1, <1>2, <1>3 DEF InReach
  <2>2. OnlyValidElements'
    BY <1>1, <1>3 DEF OnlyValidElements
  <2>3. QED
    BY <2>1, <2>2 DEF ReaderInv
<1>4. IInv
  BY DEF CatchUp, ListInv
<1>5. CASE stores = <<>>
  <2>1. Still
    BY <1>5, CatchUpStill
  <2>2. seen_root \in InTree \cup {NULL}
    BY <1>4, <2>1, RootType DEF Still
  <2>3. \A n \in InTree, d \in Side : seen_child[n][d] \in InTree \cup {NULL}
    BY <1>4, <2>1, TreeIsClosed DEF Still, Agree
  <2>4. InTree \in SUBSET Node /\ InTree \subseteq linked'
    BY <1>1 DEF InTree
  <2>5. QED
    BY <1>3, <2>2, <2>3, <2>4
<1>6. CASE stores # <<>>
  <2>1. PICK new \in SUBSET InTree :
          Safe(seen_root, seen_child, InTree, new) /\ Brings(stores, new)
    BY <1>6, SafeNow
  <2>2. PICK T \in SUBSET Node :
          /\ Sound(seen_child, T)
          /\ seen_root \in T \cup {NULL}
          /\ InTree \ new \subseteq T
          /\ T \subseteq InTree \cup Elements(InOrder(seen_child, seen_root))
    BY <2>1 DEF Safe
  <2>3. \A n \in T, d \in Side : seen_child[n][d] \in T \cup {NULL}
    BY <2>2, SidesAgree DEF Sound, Below
  <2>4. \A n \in InTree \ T : Last(stores, n)
    BY <2>1, <2>2 DEF Brings
  <2>5. QED
    BY <1>1, <1>3, <1>6, <2>2, <2>3, <2>4
<1>7. QED
  BY <1>5, <1>6

\* A turn of the writer stores nothing yet.
LEMMA TurnReaches ==
  ASSUME CatchUp, ReaderInv, PlainInOrder, WriterTurn
  PROVE  ReaderInv'
<1>1. /\ stores = <<>> /\ at' = at /\ key' = key /\ linked' = linked
      /\ seen_child' = seen_child
  BY DEF WriterTurn, seen, reader
<1>2. Still
  BY <1>1, CatchUpStill
<1>3. Brought(stores', InTree, InTree', rb_node', rb_child')
  BY <1>2, TurnBrings DEF CatchUp
<1>4. PICK new : Brings(stores', new) /\ InTree' \subseteq InTree \cup new
  BY <1>3 DEF Brought
<1>5. ASSUME NEW V, InReach(V) PROVE InReach(V)'
  <2>1. InTree \subseteq V
    BY <1>1, <1>5 DEF InReach
  <2>2. \A n \in InTree' \ V : n \in new
    BY <1>4, <2>1
  <2>3. \A n \in InTree' \ V : stores' # <<>> /\ Last(stores', n)
    BY <1>4, <2>2 DEF Brings, Last
  <2>4. QED
    BY <1>1, <1>5, <2>3 DEF InReach
<1>6. OnlyValidElements'
  BY <1>1 DEF ReaderInv, OnlyValidElements
<1>7. QED
  BY <1>1, <1>5, <1>6 DEF ReaderInv

\* No store is under way behind one that is alone.
LEMMA OnlyOne ==
  ASSUME NEW S, NEW seq \in Seq(S), seq # <<>>
  PROVE  Tail(seq) = <<>> <=> Len(seq) = 1
<1>1. PICK rest : rest = Tail(seq)
  OBVIOUS
<1>2. rest \in Seq(S) /\ Len(rest) = Len(seq) - 1 /\ Len(seq) \in Nat
  BY <1>1
<1>3. rest = <<>> <=> Len(rest) = 0
  BY <1>2, EmptySeq
<1>4. QED
  BY <1>1, <1>2, <1>3

\* A store becomes visible, and perhaps a node with it.
LEMMA VisibleReaches ==
  ASSUME CatchUp, ReaderInv, PlainInOrder, Visible
  PROVE  ReaderInv'
<1>1. PICK s : s = Head(stores)
  OBVIOUS
<1>2. /\ CatchUp' /\ s \in StoreTo(InTree) /\ stores \in Seq(StoreTo(InTree))
      /\ seen_child' = Stored(seen_child, s)
  BY <1>1, VisibleKeeps
<1>3. /\ stores # <<>> /\ stores' = Tail(stores) /\ at' = at /\ key' = key
      /\ linked' = IF key # NULL /\ s.to \in InTree THEN linked \cup {s.to} ELSE linked
      /\ UNCHANGED vars
  BY <1>1 DEF Visible, reader
<1>4. InTree' = InTree /\ rb_child' = rb_child /\ InTree \in SUBSET Node
  BY <1>3 DEF vars, tree, InTree, RB_EMPTY_NODE, rb_parent
<1>5. OnlyValidElements'
  BY <1>3 DEF ReaderInv, OnlyValidElements
<1>6. s.to \in InTree \cup {NULL}
  BY <1>2 DEF StoreTo
<1>7. \A n \in Node, d \in Side :
        seen_child'[n][d] = IF n = s.of /\ d = s.side THEN s.to ELSE seen_child[n][d]
  <2>1. seen_child \in Children
    BY DEF CatchUp
  <2>2. QED
    BY <1>2, <1>4, <2>1, StoredTypes
<1>8. ASSUME NEW n, Last(stores, n)
      PROVE  \/ s.to # n /\ stores' # <<>> /\ Last(stores', n)
             \/ s.to = n /\ stores' = <<>>
  <2>1. PICK N \in Nat : N = Len(stores) /\ N # 0
    BY <1>2, <1>3
  <2>2. stores[N].to = n /\ (\A i \in 1..N : i # N => stores[i].to # n) /\ s = stores[1]
    BY <1>1, <1>2, <1>3, <1>8, <2>1 DEF Last
  <2>3. CASE N = 1
    <3>1. stores' = <<>>
      BY <1>2, <1>3, <2>1, <2>3, OnlyOne
    <3>2. QED
      BY <2>2, <2>3, <3>1
  <2>4. CASE N # 1
    <3>1. s.to # n
      <4>1. 1 \in 1..N
        BY <2>1
      <4>2. QED
        BY <2>2, <2>4, <4>1
    <3>2. Tail(stores) # <<>>
      BY <1>2, <1>3, <2>1, <2>4, OnlyOne
    <3>3. Last(Tail(stores), n)
      BY <1>2, <1>3, <1>8, <3>2, LastOfRest
    <3>4. QED
      BY <1>3, <3>1, <3>2, <3>3
  <2>5. QED
    BY <2>3, <2>4
<1>9. ASSUME key # NULL, NEW V, InReach(V) PROVE \E W : InReach(W)'
  <2>1. PICK W : W = V \cup ({s.to} \cap InTree)
    OBVIOUS
  <2>2. W \in SUBSET Node /\ W \subseteq linked' /\ at' \in W \cup {NULL}
    BY <1>3, <1>4, <1>9, <2>1 DEF InReach
  <2>3. \A n \in InTree' \ W : stores' # <<>> /\ Last(stores', n)
    BY <1>4, <1>8, <1>9, <2>1 DEF InReach
  <2>4. ASSUME NEW n \in W, NEW d \in Side PROVE seen_child'[n][d] \in W \cup {NULL}
    <3>1. CASE n \in V
      <4>1. seen_child[n][d] \in V \cup {NULL} /\ n \in Node
        BY <1>9, <3>1 DEF InReach
      <4>2. QED
        BY <1>6, <1>7, <2>1, <4>1
    <3>2. CASE n \notin V
      <4>1. n = s.to /\ n \in InTree
        BY <2>1, <3>2
      <4>2. stores' = <<>>
        BY <1>8, <1>9, <3>2, <4>1 DEF InReach
      <4>3. InTree \subseteq W
        BY <1>4, <2>3, <4>2
      <4>4. Still'
        <5>1. (CatchUp /\ stores = <<>> => Still)'
          BY CatchUpStill, PTL
        <5>2. QED
          BY <1>2, <4>2, <5>1
      <4>5. seen_child'[n][d] = rb_child[n][d]
        BY <1>4, <4>1, <4>4 DEF Still, Agree
      <4>6. rb_child[n][d] \in InTree \cup {NULL}
        BY <4>1, TreeIsClosed DEF CatchUp, ListInv
      <4>7. QED
        BY <4>3, <4>5, <4>6
    <3>3. QED
      BY <3>1, <3>2
  <2>5. InReach(W)'
    BY <2>2, <2>3, <2>4 DEF InReach
  <2>6. QED
    BY <2>5
<1>10. QED
  BY <1>3, <1>5, <1>9 DEF ReaderInv

\* Every step leaves the reader on its way.
LEMMA LocklessKeepsReader ==
  ASSUME CatchUp, ReaderInv, PlainInOrder, [LocklessNext]_locklessVars
  PROVE  ReaderInv'
<1>1. ASSUME UNCHANGED <<vars, seen, stores>>
      PROVE  InTree' = InTree /\ seen_child' = seen_child /\ stores' = stores
  BY <1>1 DEF vars, tree, seen, InTree, RB_EMPTY_NODE, rb_parent
<1>2. CASE ReadChild
  <2>1. /\ key # NULL /\ at # NULL /\ at' = Read /\ key' = key /\ linked' = linked
        /\ InTree' = InTree /\ seen_child' = seen_child /\ stores' = stores
    BY <1>1, <1>2 DEF ReadChild
  <2>2. PICK V : InReach(V)
    BY <2>1 DEF ReaderInv
  <2>3. at' \in V \cup {NULL}
    <3>1. at \in V
      BY <2>1, <2>2 DEF InReach
    <3>2. PICK d \in Side : Read = seen_child[at][d]
      BY DEF Read, Side
    <3>3. QED
      BY <2>1, <2>2, <3>1, <3>2 DEF InReach
  <2>4. InReach(V)'
    BY <2>1, <2>2, <2>3 DEF InReach
  <2>5. OnlyValidElements'
    BY <2>4 DEF InReach, OnlyValidElements
  <2>6. QED
    BY <2>4, <2>5 DEF ReaderInv
<1>3. CASE ReadDone
  BY <1>3 DEF ReadDone, ReaderInv, OnlyValidElements
<1>4. CASE UNCHANGED locklessVars
  <2>1. /\ key' = key /\ at' = at /\ linked' = linked
        /\ InTree' = InTree /\ seen_child' = seen_child /\ stores' = stores
    BY <1>1, <1>4 DEF locklessVars, reader
  <2>2. QED
    BY <2>1 DEF ReaderInv, OnlyValidElements, InReach
<1>5. QED
  BY <1>2, <1>3, <1>4, LookupReaches, TurnReaches, VisibleReaches DEF LocklessNext

\* If plain stores stay in their place, a reader meets only nodes that were in the tree at
\* some time since its lookup began: it may leave the tree with a node that is erased or
\* replaced under it, and still finds its way back into it or to an end.
THEOREM ReadersMeetMembers == PlainInOrder => (LocklessSpec => []OnlyValidElements)
<1>1. SUFFICES ASSUME PlainInOrder PROVE LocklessSpec => []OnlyValidElements
  OBVIOUS
<1>2. LocklessInit => ReaderInv
  BY DEF LocklessInit, ReaderInv, OnlyValidElements
<1>3. CatchUp /\ ReaderInv /\ [LocklessNext]_locklessVars => ReaderInv'
  BY <1>1, LocklessKeepsReader
<1>4. ReaderInv => OnlyValidElements
  BY DEF ReaderInv
<1>5. QED
  BY <1>2, <1>3, <1>4, CatchUpAlways, PTL DEF LocklessSpec
=============================================================================
