---------------------------- MODULE MCChainLocks ----------------------------
(* Small instances of ChainLocks for TLC.                                  *)
EXTENDS ChainLocks, TLC

CONSTANTS g, a1, a2, c2, c3, w1

\* The locked chain g - a1 - a2, and a branch a1 - c2 - c3 that competes with a2.
FullTree == (a1 :> g) @@ (a2 :> a1) @@ (c2 :> a1) @@ (c3 :> c2)

ParentOf == [b \in Blocks \ {Genesis} |-> FullTree[b]]

HeightOfBlock[b \in Blocks] ==
    IF b = Genesis THEN 0 ELSE HeightOfBlock[ParentOf[b]] + 1

ChainTo[b \in Blocks] ==
    IF b = Genesis THEN {b} ELSE {b} \cup ChainTo[ParentOf[b]]

SmallTree == [parent |-> ParentOf, height |-> HeightOfBlock, chain |-> ChainTo]

=============================================================================
