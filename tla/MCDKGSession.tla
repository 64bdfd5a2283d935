---------------------------- MODULE MCDKGSession ----------------------------
(***************************************************************************)
(* The quorum of LLMQ_TEST: three members, two of which are enough.        *)
(***************************************************************************)
EXTENDS DKGSession, TLC

CONSTANTS m1, m2, m3

Symmetric == Permutations(Members)
=============================================================================
