-------------------------- MODULE MCParallelBatch ---------------------------
(* Small instances of ParallelBatch for TLC. *)
EXTENDS ParallelBatch

CONSTANTS w1, w2, r1

PoolOfTwo == {w1, w2}
OneRequest == {r1}
FreshOnly == {0}
FreshOrFull == {0, 2}
=============================================================================
