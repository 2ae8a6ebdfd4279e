------------------------------ MODULE MCUpload ------------------------------
(***************************************************************************)
(* Instances of UploadSystem for TLC.  Every version has the same manifest *)
(* shape: ChunksPerVersion chunks of ShardsPerChunk fragments.  A chunk is *)
(* <<version, seq>>, a fragment <<version, seq, shard index>>.             *)
(***************************************************************************)
EXTENDS UploadSystem, TLC

CONSTANTS MaxFiles, MaxVersions, ChunksPerVersion, ShardsPerChunk

MCFile == 1..MaxFiles
MCVersion == 1..MaxVersions
MCChunk == MCVersion \X (1..ChunksPerVersion)
MCFragment == MCVersion \X (1..ChunksPerVersion) \X (1..ShardsPerChunk)
MCVersionOf == [c \in MCChunk |-> c[1]]
MCChunkOf == [f \in MCFragment |-> <<f[1], f[2]>>]
\* The rows of agents that do not answer are the oldest.
MCRowId == [r \in MCFragment \X Node |-> IF r[2] \in Reachable THEN 1 ELSE 0]

Symmetry == Permutations(Node) \cup Permutations(Session)
=============================================================================
