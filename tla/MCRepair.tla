------------------------------ MODULE MCRepair ------------------------------
(***************************************************************************)
(* Instances of RepairSystem for TLC: one file of ChunksPerFile chunks of  *)
(* ShardsPerChunk fragments each.                                          *)
(***************************************************************************)
EXTENDS RepairSystem, TLC

CONSTANTS ChunksPerFile, ShardsPerChunk

MCChunk == 1..ChunksPerFile
MCFragment == MCChunk \X (1..ShardsPerChunk)
MCVersionOf == [c \in MCChunk |-> 1]
MCChunkOf == [f \in MCFragment |-> f[1]]
\* The rows of agents that do not answer are the oldest.
MCRowId == [r \in MCFragment \X Node |-> IF r[2] \in Reachable THEN 1 ELSE 0]

Symmetry == Permutations(Node) \cup Permutations(Worker)
=============================================================================
