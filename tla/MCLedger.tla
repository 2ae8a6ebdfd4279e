------------------------------ MODULE MCLedger ------------------------------
(***************************************************************************)
(* Instances of Ledger for TLC.  Fragment i is the only shard of chunk i,  *)
(* and one node holds them all.                                            *)
(***************************************************************************)
EXTENDS Ledger

CONSTANT Chunks

MCFragment == 1..Chunks
MCNode == {"node"}
MCChunkOf == [f \in MCFragment |-> f]
MCNodeOf == [f \in MCFragment |-> "node"]
=============================================================================
