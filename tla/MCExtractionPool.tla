-------------------------- MODULE MCExtractionPool --------------------------
(* A small instance of ExtractionPool for TLC. *)
EXTENDS ExtractionPool

CONSTANTS r1, r2, r3

ThreeRequests == {r1, r2, r3}
=============================================================================
