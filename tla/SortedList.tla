----------------------------- MODULE SortedList -----------------------------
(***************************************************************************)
(* What the ordered containers of the repository promise: a list of nodes  *)
(* sorted by key.  A node added with a key that is present already goes    *)
(* behind the nodes that have it (the descent of every insert turns right  *)
(* on a tie), so the list is also first-in first-out among equal keys.     *)
(***************************************************************************)
EXTENDS Integers, SequencesExt

CONSTANTS Node,  \* the node structures the callers own
          Key    \* the key each of them carries

VARIABLE list    \* the nodes of the container, in iteration order

Present == ToSet(list)

Init == list = <<>>

\* Behind every node whose key is not larger.
Add(n) ==
  LET upto == Cardinality({m \in Present : Key[m] =< Key[n]})
  IN  list' = InsertAt(list, upto + 1, n)

Erase(n) == \E i \in DOMAIN list : list[i] = n /\ list' = RemoveAt(list, i)

\* A node takes the place of another one that has the same key.
Exchange(old, new) ==
  /\ Key[old] = Key[new]
  /\ list' = [i \in DOMAIN list |-> IF list[i] = old THEN new ELSE list[i]]

\* The nodes that come and go in a step: no other ones need to be tried.
Came == (Present' \cap Node) \ Present
Gone == Present \ Present'

Next ==
  \/ \E n \in Came : Add(n)
  \/ \E n \in Gone : Erase(n)
  \/ \E old \in Gone, new \in Came : Exchange(old, new)

Spec == Init /\ [][Next]_list

(* A container that takes no second node with the same key. *)

AddNew(n) == Key[n] \notin {Key[m] : m \in Present} /\ Add(n)

SetNext == (\E n \in Came : AddNew(n)) \/ (\E n \in Gone : Erase(n))

SetSpec == Init /\ [][SetNext]_list
=============================================================================
