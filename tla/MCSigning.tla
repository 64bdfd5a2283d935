------------------------------ MODULE MCSigning ------------------------------
(* Small instances of Signing for TLC.                                     *)
EXTENDS Signing, TLC

CONSTANTS q1, n1, n2, n3, ma, mb

\* A quorum of three honest members, of which two can sign for the others.
Three == [q \in Quorums |-> {n1, n2, n3}]

\* n3 lost its secret key share (or missed the DKG phase that yields it).
TwoKeys == [q \in Quorums |-> {n1, n2}]

\* A quorum of an honest member n1 and a faulty one, n3, which signs anything:
\* both shares are needed, so n1 stands for every honest member two threshold
\* sets have in common.
Pair == [q \in Quorums |-> {n1, n3}]

Two == [q \in Quorums |-> 2]

\* With tip 1 the quorum signs, with tip 2 newer quorums have replaced it.
Selected == [w \in Views |-> [i \in Ids |-> IF w = 1 THEN {q1} ELSE {}]]
Active == [w \in Views |-> IF w = 1 THEN {q1} ELSE {}]

\* The messages are interchangeable.
Symmetry == Permutations(Msgs)

=============================================================================
