--------------------------- MODULE MCCommitments ---------------------------
(* Commitments with two key generation intervals of three blocks.          *)
EXTENDS Commitments
=============================================================================
