---------------------------- MODULE MCInstantSend ----------------------------
(***************************************************************************)
(* A transaction that gets a lock, a double spend of its coin and, in the  *)
(* larger instance, a child that spends the output of the double spend.    *)
(* The blocks of the first two are siblings, that of the child follows the *)
(* one of the double spend.                                                *)
(***************************************************************************)
EXTENDS InstantSend

CONSTANTS pay, double, child, coin, output

MCInputs == [t \in Txs |-> IF t = child THEN {output} ELSE {coin}]

MCSource == [o \in Outpoints |-> IF o = output THEN double ELSE NoTx]

MCBlockParent == [t \in Txs |-> IF t = child THEN double ELSE NoTx]
=============================================================================
