---------------------------- MODULE LibuvForeach ----------------------------
(***************************************************************************)
(* The loops of c/libuv/tree.h: RB_FOREACH and RB_FOREACH_REVERSE look for *)
(* the next element after the body ran; the _SAFE and _FROM loops hold it  *)
(* in y across the body, which may remove x then.  The body may insert and *)
(* remove any other element but the one that the loop goes on from.        *)
(***************************************************************************)
EXTENDS LibuvRbtree

VARIABLES
  way,   \* "right" for the forward loops, "left" for the reverse ones
  safe,  \* whether the loop holds y, a BOOLEAN
  x, y,  \* elements or NULL; x is NULL when no loop runs
  due    \* what the loop has still to visit: the elements there since it began

loop == <<way, safe, x, y>>
foreachVars == <<vars, loop, due>>

\* The elements that a loop in the direction of d meets from n on.
From(n, d) ==
  IF n = NULL THEN {}
  ELSE LET walk == order
           at == CHOOSE i \in DOMAIN walk : walk[i] = n
       IN  {walk[i] : i \in IF d = "right" THEN at..Len(walk) ELSE 1..at}

\* (x) != NULL && ((y) = RB_NEXT(x), ...)
Hold(n) == IF n = NULL \/ ~safe' THEN NULL ELSE Neighbour(n, way')

\* RB_FOREACH, RB_FOREACH_SAFE (from the first element on the way) and
\* RB_FOREACH_FROM (from any), and the loops in reverse.
Begin(d, s, start) ==
  /\ pc = "idle"
  /\ x = NULL
  /\ ~s => start = Deepest(rbh_root, Opposite(d))
  /\ way' = d
  /\ safe' = s
  /\ x' = start
  /\ y' = Hold(start)
  /\ due' = From(start, d) \ {start}
  /\ UNCHANGED vars

\* Mutant: the _SAFE loops look for the next element after the body, too.
AdvanceLate == Neighbour(x, way)

\* What the third expression of the loop assigns to x.
Advance == IF safe THEN y ELSE Neighbour(x, way)

Again ==
  /\ pc = "idle"
  /\ x # NULL
  /\ UNCHANGED <<way, safe, vars>>
  /\ x' = Advance
  /\ y' = Hold(x')
  /\ due' = due \ {x'}

\* What the body must leave in the tree.
Needed == IF safe THEN y ELSE x

\* A call of the body, or of the caller outside of any loop.
Body ==
  /\ \/ \E n \in Node : RB_INSERT(n)
     \/ \E n \in InTree \ {Needed} : RB_REMOVE(n)
     \/ Run
  /\ due' = due \cap InTree'
  /\ UNCHANGED loop

ForeachInit ==
  /\ Init
  /\ way = "right"
  /\ safe = FALSE
  /\ x = NULL
  /\ y = NULL
  /\ due = {}

ForeachNext ==
  \/ \E d \in Side, s \in BOOLEAN, start \in InTree : Begin(d, s, start)
  \/ Again
  \/ Body

ForeachSpec == ForeachInit /\ [][ForeachNext]_foreachVars

-----------------------------------------------------------------------------
\* RB_REMOVE moves elements, never what they are: the element a loop goes on from is
\* in the tree until then, and everything that was there since the loop began and that
\* it did not visit yet lies from there on.  When it ends, it visited all of it.
NothingPassedBy ==
  LET ahead == IF Needed = NULL THEN {} ELSE From(Needed, way) \ {x}
  IN  (Needed = NULL \/ Needed \in InTree) /\ due \subseteq ahead
=============================================================================
