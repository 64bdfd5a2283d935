---------------------------- MODULE MCCheckQueue ----------------------------
(* Small instances of CheckQueue for TLC.                                  *)
EXTENDS CheckQueue

CONSTANTS w1, w2

=============================================================================
