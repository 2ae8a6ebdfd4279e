----------------------------- MODULE MCGateway -----------------------------
(***************************************************************************)
(* Instances of Gateway for TLC.                                           *)
(***************************************************************************)
EXTENDS Gateway

CONSTANT Names

\* Two places at the top, each with as many inside as Names.
MCPath == {<<a>> : a \in 1..2} \cup {<<a, b>> : a \in 1..2, b \in 1..Names}

Symmetry == Permutations(Request) \cup Permutations(FileId)
=============================================================================
