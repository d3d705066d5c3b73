------------------------------ MODULE RBShape ------------------------------
(***************************************************************************)
(* What a red-black tree is, independently of who maintains it: operators  *)
(* over a child map ch \in [Node -> [Side -> Node \cup {Nil}]], the set of *)
(* black nodes and a root pointer.  The five trees of the repository share *)
(* these definitions; none of them is code.  Every walk carries a budget   *)
(* of |Node| levels, so that it ends on a corrupted (cyclic) graph too.    *)
(***************************************************************************)
EXTENDS Naturals, FiniteSets, Sequences

CONSTANTS Node,   \* the node structures the callers own
          Nil     \* the null pointer (or the sentinel)

Side == {"left", "right"}
Opposite(d) == IF d = "left" THEN "right" ELSE "left"

NodeOrNil == Node \cup {Nil}

Leaf == [d \in Side |-> Nil]

Levels == 0..Cardinality(Node)

\* The nodes met by a left-to-right walk from r.
InOrder(ch, r) ==
  LET walk[k \in Levels] == [n \in NodeOrNil |->
        IF n = Nil \/ k = 0 THEN <<>>
        ELSE walk[k - 1][ch[n]["left"]] \o <<n>> \o walk[k - 1][ch[n]["right"]]]
  IN  walk[Cardinality(Node)][r]

\* The numbers of black nodes on the paths from r down to a null pointer; the
\* paths that leave node p on side d count one more when <<p, d>> = extra.
BlackCounts(ch, black, r, extra) ==
  LET One(b) == IF b THEN 1 ELSE 0
      walk[k \in Levels] == [n \in NodeOrNil |->
        IF n = Nil \/ k = 0 THEN {0}
        ELSE UNION {{c + One(n \in black) + One(<<n, d>> = extra) :
                        c \in walk[k - 1][ch[n][d]]} : d \in Side}]
  IN  walk[Cardinality(Node)][r]

NoSlot == <<Nil, "left">>

Balanced(ch, black, r, extra) == Cardinality(BlackCounts(ch, black, r, extra)) = 1

NoRedRed(ch, black, r) ==
  LET walk == InOrder(ch, r)
  IN  \A i \in DOMAIN walk, d \in Side :
        walk[i] \notin black => ch[walk[i]][d] \in black \cup {Nil}

\* The five properties a comment of every implementation lists.
IsRedBlack(ch, black, r) ==
  /\ r \in black \cup {Nil}
  /\ NoRedRed(ch, black, r)
  /\ Balanced(ch, black, r, NoSlot)
=============================================================================
