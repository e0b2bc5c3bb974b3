---------------------------- MODULE CodeRegistry ----------------------------
(***************************************************************************)
(* What the allocation of codes promises to a ticket space: the codes in   *)
(* use are numbered densely from the largest one in use, so no number is   *)
(* given twice and none is skipped, however requests interleave.           *)
(***************************************************************************)
EXTENDS Naturals

CONSTANT Spaces
VARIABLE live       \* the codes in use, as [space, num] records

Init == live = {}

\* x continues the numbering of its space: it is above every code in use and
\* follows one, or is the first.
Continues(x) ==
  /\ \A y \in live : y.space = x.space => y.num < x.num
  /\ \/ x.num = 1
     \/ [space |-> x.space, num |-> x.num - 1] \in live'

\* A request creates some items, all of them or none.
Issue ==
  /\ live \subseteq live'
  /\ \A x \in live' \ live : x.space \in Spaces /\ x.num \in Nat \ {0} /\ Continues(x)

Retire == \E x \in live : live' = live \ {x}

Next == Issue \/ Retire
Spec == Init /\ [][Next]_live
=============================================================================
