------------------------- MODULE CommitmentsRestart -------------------------
(***************************************************************************)
(* A start after a crash finds the evo database inconsistent only when the *)
(* crash came between the writes of the two databases.  The invariant says *)
(* which best blocks the two databases have on disk in each phase.         *)
(***************************************************************************)
EXTENDS Commitments, TLAPS

USE SMTT(60)

\* Where the best blocks of the two databases stand.
BestBlocks ==
    /\ node \in Running => evo.best = chain
    /\ node = "up" => coins.heads = {} /\ coins.best = disk.best
    /\ node = "flushing" => coins.heads = {chain} /\ coins.best = disk.best
    /\ node = "flushed" => coins.heads = {} /\ coins.best = chain
    /\ node = "down" => evo = disk /\ (torn \/ coins.best = disk.best)
    /\ node = "rollback" => coins.heads # {} /\ coins.best = disk.best /\ evo.best = at
    /\ node = "forward" => coins.heads # {} /\ coins.best = disk.best
    /\ node = "replayed" => coins.heads = {} /\ evo.best = coins.best
    /\ node = "verify" =>
         /\ coins.heads = {} /\ coins.best = chain
         /\ torn \/ disk.best = chain
         /\ \/ at = chain /\ evo = disk
            \/ disk.best = chain /\ evo.best = at

\* The records keep their fields, and a chain that gets active has a length.
Shape ==
    /\ coins = [best |-> coins.best, heads |-> coins.heads]
    /\ evo = [best |-> evo.best, mined |-> evo.mined, heights |-> evo.heights]
    /\ disk = [best |-> disk.best, mined |-> disk.mined, heights |-> disk.heights]
    /\ \E S : chain \in Seq(S)
    /\ \E S : coins.best \in Seq(S)
    /\ \A c \in coins.heads : \E S : c \in Seq(S)

RInv == Shape /\ BestBlocks /\ OnlyTornFails

LEMMA InitRInv == Init => RInv
<1> SUFFICES ASSUME Init PROVE RInv
  OBVIOUS
<1>1. <<>> \in Seq({})
  OBVIOUS
<1>2. Shape
  BY <1>1 DEF Init, Shape, EmptyEvo
<1> QED BY <1>2 DEF Init, RInv, BestBlocks, OnlyTornFails, EmptyEvo, Running

\* Databases and chain after a block was connected, not connected or disconnected.
LEMMA MinedBest ==
    ASSUME NEW b, NEW c, Shape
    PROVE  LET db == Mined(evo, b, c) IN
           db.best = c /\ db = [best |-> db.best, mined |-> db.mined, heights |-> db.heights]
  BY DEF Mined, Shape

LEMMA UnminedBest ==
    ASSUME NEW c, Shape
    PROVE  LET db == Unmined(evo, c) IN
           db.best = Front(c) /\ db = [best |-> db.best, mined |-> db.mined, heights |-> db.heights]
  BY DEF Unmined, Shape

LEMMA AppendChain ==
    ASSUME NEW c, NEW b, \E S : c \in Seq(S)
    PROVE  \E S : Append(c, b) \in Seq(S)
<1>1. PICK S : c \in Seq(S)
  OBVIOUS
<1>2. Append(c, b) \in Seq(S \cup {b})
  BY <1>1
<1> QED BY <1>2

LEMMA FrontChain ==
    ASSUME NEW c, c # <<>>, \E S : c \in Seq(S)
    PROVE  \E S : Front(c) \in Seq(S)
<1>1. PICK S : c \in Seq(S)
  OBVIOUS
<1>2. Front(c) \in Seq(S)
  BY <1>1 DEF Front
<1> QED BY <1>2

LEMMA ConnectSteps ==
    ASSUME RInv, ConnectTip
    PROVE  RInv'
<1>1. PICK b : evo' = Mined(evo, b, Append(chain, b)) /\ chain' = Append(chain, b)
  BY DEF ConnectTip
<1>2. node = "up" /\ UNCHANGED <<node, coins, disk, torn>>
  BY DEF ConnectTip, flags
<1> DEFINE c == Append(chain, b)
<1> DEFINE db == Mined(evo, b, c)
<1>5. db.best = c /\ db = [best |-> db.best, mined |-> db.mined, heights |-> db.heights]
  BY MinedBest, Zenon DEF RInv
<1>6. \E S : c \in Seq(S)
  BY AppendChain, Zenon DEF RInv, Shape
<1>7. evo' = db /\ chain' = c
  BY <1>1
<1> HIDE DEF c, db
<1>3. Shape'
  BY <1>5, <1>6, <1>7, <1>2 DEF RInv, Shape
<1>4. evo'.best = chain'
  BY <1>5, <1>7
<1> QED BY <1>2, <1>3, <1>4 DEF RInv, BestBlocks, OnlyTornFails, Running

LEMMA DisconnectSteps ==
    ASSUME RInv, DisconnectTip
    PROVE  RInv'
<1>1. evo' = Unmined(evo, chain) /\ chain' = Front(chain) /\ chain # <<>>
  BY DEF DisconnectTip, UndoBlock
<1>2. node = "up" /\ UNCHANGED <<node, coins, disk, torn>>
  BY DEF DisconnectTip, flags
<1>3. Shape'
  BY <1>1, <1>2, UnminedBest, FrontChain DEF RInv, Shape
<1>4. evo'.best = chain'
  BY <1>1, UnminedBest DEF RInv
<1> QED BY <1>2, <1>3, <1>4 DEF RInv, BestBlocks, OnlyTornFails, Running

\* Steps that change only what is in memory.
LEMMA MemorySteps ==
    ASSUME RInv, UNCHANGED <<node, chain, at, coins, evo, disk, torn>>
    PROVE  RInv'
<1>1. node' = node /\ chain' = chain /\ at' = at /\ coins' = coins
      /\ evo' = evo /\ disk' = disk /\ torn' = torn
  OBVIOUS
<1> QED BY <1>1 DEF RInv, Shape, BestBlocks, OnlyTornFails, Running

LEMMA FlushSteps ==
    ASSUME RInv, StartFlush \/ CoinsWritten \/ CommitRootTransaction
    PROVE  RInv'
<1>1. CASE StartFlush
  <2>1. node = "up" /\ node' = "flushing" /\ coins' = [coins EXCEPT !.heads = {chain}]
    BY <1>1 DEF StartFlush
  <2>2. chain' = chain /\ evo' = evo /\ disk' = disk /\ torn' = torn
    BY <1>1 DEF StartFlush, flags
  <2>3. coins = [best |-> coins.best, heads |-> coins.heads]
    BY DEF RInv, Shape
  <2>4. coins' = [best |-> coins.best, heads |-> {chain}]
    BY <2>1, <2>3
  <2>5. coins'.best = coins.best /\ coins'.heads = {chain}
    BY <2>4
  <2>6. \A c \in coins'.heads : \E S : c \in Seq(S)
    BY <2>5, Zenon DEF RInv, Shape
  <2>7. Shape'
    BY <2>2, <2>4, <2>5, <2>6 DEF RInv, Shape
  <2> QED BY <2>1, <2>2, <2>5, <2>7 DEF RInv, BestBlocks, OnlyTornFails, Running
<1>2. CASE CoinsWritten
  <2>1. node = "flushing" /\ node' = "flushed" /\ coins' = [best |-> chain, heads |-> {}]
    BY <1>2 DEF CoinsWritten
  <2>2. chain' = chain /\ evo' = evo /\ disk' = disk /\ torn' = torn
    BY <1>2 DEF CoinsWritten, flags
  <2> QED BY <2>1, <2>2 DEF RInv, Shape, BestBlocks, OnlyTornFails, Running
<1>3. CASE CommitRootTransaction
  <2>1. node = "flushed" /\ node' = "up" /\ disk' = evo
    BY <1>3 DEF CommitRootTransaction
  <2>2. chain' = chain /\ evo' = evo /\ coins' = coins /\ torn' = torn
    BY <1>3 DEF CommitRootTransaction, flags
  <2> QED BY <2>1, <2>2 DEF RInv, Shape, BestBlocks, OnlyTornFails, Running
<1> QED BY <1>1, <1>2, <1>3

LEMMA CrashSteps ==
    ASSUME RInv, Crash \/ Reindex
    PROVE  RInv'
<1>0. <<>> \in Seq({})
  OBVIOUS
<1>1. CASE Crash
  <2>1. /\ node \in Running \cup Starting /\ node' = "down"
        /\ torn' = (torn \/ node \in {"flushed", "replayed"})
        /\ chain' = <<>> /\ evo' = disk /\ coins' = coins /\ disk' = disk
    BY <1>1 DEF Crash, Forget
  <2>2. Shape'
    BY <2>1, <1>0 DEF RInv, Shape
  <2>3. torn' \/ coins.best = disk.best
    <3>1. CASE node \in {"flushed", "replayed"}
      BY <3>1, <2>1, Zenon
    <3>2. CASE torn
      BY <3>2, <2>1, Zenon
    <3>3. CASE ~torn /\ node \notin {"flushed", "replayed"}
      BY <3>3, <2>1 DEF RInv, BestBlocks, Running, Starting
    <3> QED BY <3>1, <3>2, <3>3
  <2> QED BY <2>1, <2>2, <2>3 DEF RInv, BestBlocks, OnlyTornFails, Running
<1>2. CASE Reindex
  <2>1. /\ node' = "up" /\ coins' = [best |-> <<>>, heads |-> {}]
        /\ disk' = EmptyEvo /\ evo' = EmptyEvo /\ chain' = <<>>
    BY <1>2 DEF Reindex, WipeEvoDb, Forget
  <2> QED BY <2>1, <1>0 DEF RInv, Shape, BestBlocks, OnlyTornFails, EmptyEvo, Running
<1> QED BY <1>1, <1>2

LEMMA StartSteps ==
    ASSUME RInv, Start \/ CommitReplay
    PROVE  RInv'
<1>1. CASE Start /\ coins.heads = {}
  <2>1. /\ node = "down" /\ node' = "verify" /\ chain' = coins.best /\ at' = coins.best
    BY <1>1 DEF Start, LoadChainTip
  <2>2. coins' = coins /\ evo' = evo /\ disk' = disk /\ torn' = torn
    BY <1>1 DEF Start, flags
  <2> QED BY <1>1, <2>1, <2>2 DEF RInv, Shape, BestBlocks, OnlyTornFails, Running
<1>2. CASE Start /\ coins.heads # {}
  <2>1. /\ node = "down" /\ chain' = chain /\ at' = coins.best
        /\ node' = IF disk.best = coins.best THEN "rollback" ELSE "failed"
    BY <1>2 DEF Start
  <2>2. coins' = coins /\ evo' = evo /\ disk' = disk /\ torn' = torn
    BY <1>2 DEF Start, flags
  <2> QED BY <1>2, <2>1, <2>2 DEF RInv, Shape, BestBlocks, OnlyTornFails, Running
<1>3. CASE CommitReplay
  <2>1. /\ node = "replayed" /\ node' = "verify" /\ chain' = coins.best
        /\ at' = coins.best /\ disk' = evo
    BY <1>3 DEF CommitReplay, LoadChainTip
  <2>2. coins' = coins /\ evo' = evo /\ torn' = torn
    BY <1>3 DEF CommitReplay, flags
  <2> QED BY <2>1, <2>2 DEF RInv, Shape, BestBlocks, OnlyTornFails, Running
<1> QED BY <1>1, <1>2, <1>3

\* One block disconnected at the start, when the evo database is at that block.
LEMMA UndoAtStart ==
    ASSUME RInv, DisconnectBlock, evo.best = at
    PROVE  /\ node' = node /\ at' = Front(at) /\ evo'.best = at'
           /\ evo' = [best |-> evo'.best, mined |-> evo'.mined, heights |-> evo'.heights]
<1>1. UndoBlock(at) /\ at' = Front(at) /\ node' = node
  BY DEF DisconnectBlock
<1>2. evo' = Unmined(evo, at)
  BY <1>1 DEF UndoBlock
<1> QED BY <1>1, <1>2, UnminedBest DEF RInv

LEMMA ReplaySteps ==
    ASSUME RInv, RollBack \/ RollForward \/ Replayed
    PROVE  RInv'
<1>1. CASE RollBack
  <2>1. node = "rollback" /\ chain' = chain /\ coins' = coins /\ disk' = disk /\ torn' = torn
    BY <1>1 DEF RollBack, flags
  <2>2. evo.best = at
    BY <2>1 DEF RInv, BestBlocks
  <2>3. CASE DisconnectBlock
    BY <2>1, <2>2, <2>3, UndoAtStart DEF RInv, Shape, BestBlocks, OnlyTornFails, Running
  <2>4. CASE node' = "forward" /\ at' = at /\ evo' = evo
    BY <2>1, <2>4 DEF RInv, Shape, BestBlocks, OnlyTornFails, Running
  <2> QED BY <1>1, <2>3, <2>4 DEF RollBack
<1>2. CASE RollForward
  <2>1. /\ node = "forward" /\ node' \in {"forward", "duplicate", "aborted"}
        /\ chain' = chain /\ coins' = coins /\ evo' = evo /\ disk' = disk /\ torn' = torn
    BY <1>2 DEF RollForward, flags
  <2> QED BY <2>1 DEF RInv, Shape, BestBlocks, OnlyTornFails, Running
<1>3. CASE Replayed
  <2>1. /\ node = "forward" /\ node' = "replayed" /\ chain' = chain
        /\ coins' = [best |-> NewHead, heads |-> {}] /\ disk' = disk /\ torn' = torn
        /\ evo' = [evo EXCEPT !.best = NewHead]
    BY <1>3 DEF Replayed, flags
  <2>2. NewHead \in coins.heads
    BY <2>1 DEF RInv, BestBlocks, NewHead
  <2>3. evo' = [best |-> NewHead, mined |-> evo.mined, heights |-> evo.heights]
    BY <2>1 DEF RInv, Shape
  <2>4. \E S : NewHead \in Seq(S)
    BY <2>2 DEF RInv, Shape
  <2> QED BY <2>1, <2>3, <2>4 DEF RInv, Shape, BestBlocks, OnlyTornFails, Running
<1> QED BY <1>1, <1>2, <1>3

LEMMA VerifySteps ==
    ASSUME RInv, VerifyDB
    PROVE  RInv'
<1>1. node = "verify" /\ chain' = chain /\ coins' = coins /\ disk' = disk /\ torn' = torn
  BY DEF VerifyDB, flags
<1>2. CASE (VerifyDepthReached \/ at # chain) /\ node' = "up" /\ evo' = disk
  <2>1. Len(chain) \in Nat
    BY DEF RInv, Shape
  <2>2. disk.best = chain
    BY <1>1, <1>2, <2>1, Assumptions DEF RInv, BestBlocks, VerifyDepthReached
  <2> QED BY <1>1, <1>2, <2>2 DEF RInv, Shape, BestBlocks, OnlyTornFails, Running
<1>3. CASE ~VerifyDepthReached /\ DisconnectBlock
  <2>1. DisconnectBlock
    BY <1>3
  <2>2. CASE evo.best = at
    BY <1>1, <2>1, <2>2, UndoAtStart DEF RInv, Shape, BestBlocks, OnlyTornFails, Running
  <2>3. CASE evo.best # at
    <3>1. node' = "failed" /\ at' = at /\ evo' = evo
      BY <2>1, <2>3 DEF DisconnectBlock
    <3>2. torn
      BY <1>1, <2>3 DEF RInv, BestBlocks
    <3> QED BY <1>1, <3>1, <3>2 DEF RInv, Shape, BestBlocks, OnlyTornFails, Running
  <2> QED BY <2>2, <2>3
<1> QED BY <1>2, <1>3 DEF VerifyDB

LEMMA RestartStep == RInv /\ [Next]_vars => RInv'
<1> SUFFICES ASSUME RInv, [Next]_vars PROVE RInv'
  OBVIOUS
<1>1. CASE UNCHANGED vars
  BY <1>1, MemorySteps DEF vars, flags
<1>2. CASE ConnectTipFails \/ CheckNextBlock \/ ReceiveCommitment \/ CompareCommitment
            \/ AddReceived \/ AddOwnCommitment \/ ReadMined \/ InsertMined
  <2>1. UNCHANGED <<node, chain, at, coins, evo, disk, torn>>
    BY <1>2, ZenonT(60) DEF ConnectTipFails, CheckNextBlock, ReceiveCommitment,
       CompareCommitment, AddReceived, AddOwnCommitment, ReadMined, InsertMined, flags
  <2> QED BY <2>1, MemorySteps
<1> QED BY <1>1, <1>2, ConnectSteps, DisconnectSteps, FlushSteps, CrashSteps, StartSteps,
           ReplaySteps, VerifySteps DEF Next

\* VerifyBestBlock fails at a start, and the operator must reindex, only after a crash
\* between the writes of the coin database and of the evo database; this covers crashes
\* during a flush, a replay and VerifyDB, for any chain and any number of crashes.
THEOREM ReindexOnlyIfTorn == Spec => []OnlyTornFails
<1>1. RInv => OnlyTornFails
  BY DEF RInv
<1> QED BY <1>1, InitRInv, RestartStep, PTL DEF Spec
=============================================================================
