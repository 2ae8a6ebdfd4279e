---------------------------- MODULE MCScheduler ----------------------------
(***************************************************************************)
(* A fleet for TLC, with the limits in each other's way: n1, n2 and n3     *)
(* share a region, n1 and n2 an ASN, n2 and n3 an owner; n4 declares       *)
(* nothing.  Chunk c1 has the fragments Wide, c2 and c3 one each.          *)
(***************************************************************************)
EXTENDS Scheduler, TLC

CONSTANTS n1, n2, n3, n4, c1, c2, c3, f2, f3, Wide

MCNode == {n1, n2, n3, n4}
MCFragment == Wide \cup {f2, f3}
MCChunkOf == [f \in MCFragment |-> CASE f = f2 -> c2 [] f = f3 -> c3 [] OTHER -> c1]
MCRegion == [n \in MCNode |-> IF n = n4 THEN None ELSE 1]
MCAsn == [n \in MCNode |-> CASE n \in {n1, n2} -> 1 [] n = n3 -> 2 [] OTHER -> None]
MCOwner == [n \in MCNode |-> CASE n \in {n2, n3} -> 1 [] n = n1 -> 2 [] OTHER -> 3]

\* The planners, the fragments of c1, and c2 with its fragment against c3.
Swap == [x \in {c2, c3, f2, f3} |-> CASE x = c2 -> c3 [] x = c3 -> c2 [] x = f2 -> f3 [] OTHER -> f2]
Symmetry == Permutations(Planner) \cup Permutations(Wide) \cup {Swap}
=============================================================================
