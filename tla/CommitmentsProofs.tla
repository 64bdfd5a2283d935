------------------------- MODULE CommitmentsProofs -------------------------
(***************************************************************************)
(* Theorems about the mineable commitments, for any interval, mining       *)
(* window, number of blocks and crashes.                                   *)
(***************************************************************************)
EXTENDS Commitments, TLAPS

USE SMTT(60)

-----------------------------------------------------------------------------
(* The mineable commitments.                                               *)

LEMMA OfferKnown ==
    ASSUME NEW qc, OfferedKnown, AddMineableCommitment(qc)
    PROVE  OfferedKnown'
  BY DEF OfferedKnown, AddMineableCommitment, Offer, With

LEMMA MinedKnown ==
    ASSUME NEW b, OfferedKnown, ProcessCommitmentInMemory(b)
    PROVE  OfferedKnown'
<1>1. CASE NonNull(b) = {}
  BY <1>1 DEF OfferedKnown, ProcessCommitmentInMemory, offers
<1>2. CASE NonNull(b) # {}
  BY <1>2 DEF OfferedKnown, ProcessCommitmentInMemory, Without
<1> QED BY <1>1, <1>2

LEMMA UndoKnown ==
    ASSUME NEW c, OfferedKnown, UndoBlock(c)
    PROVE  OfferedKnown'
<1>1. CASE NonNull(Last(c)) = {}
  BY <1>1 DEF OfferedKnown, UndoBlock, offers
<1>2. CASE NonNull(Last(c)) # {}
  BY <1>2, OfferKnown DEF UndoBlock
<1> QED BY <1>1, <1>2

LEMMA KnownUnchanged ==
    ASSUME OfferedKnown, UNCHANGED offers
    PROVE  OfferedKnown'
  BY DEF OfferedKnown, offers

LEMMA KnownStep == OfferedKnown /\ [Next]_vars => OfferedKnown'
<1> SUFFICES ASSUME OfferedKnown, [Next]_vars PROVE OfferedKnown'
  OBVIOUS
<1>1. CASE UNCHANGED vars
  BY <1>1, KnownUnchanged DEF vars, memory, offers
<1>2. CASE ConnectTip \/ ConnectTipFails
  BY <1>2, MinedKnown DEF ConnectTip, ConnectTipFails
<1>3. CASE DisconnectTip
  BY <1>3, UndoKnown DEF DisconnectTip
<1>4. CASE AddReceived \/ AddOwnCommitment
  <2>1. PICK qc : AddMineableCommitment(qc)
    BY <1>4, ZenonT(60) DEF AddReceived, AddOwnCommitment
  <2> QED BY <2>1, OfferKnown
<1>5. CASE CheckNextBlock \/ ReceiveCommitment \/ CompareCommitment \/ ReadMined \/ InsertMined
  BY <1>5, KnownUnchanged
  DEF CheckNextBlock, ReceiveCommitment, CompareCommitment, ReadMined, InsertMined
<1>6. CASE StartFlush \/ CoinsWritten \/ CommitRootTransaction \/ Start \/ RollForward
            \/ Replayed \/ CommitReplay
  BY <1>6, KnownUnchanged, ZenonT(60)
  DEF StartFlush, CoinsWritten, CommitRootTransaction, Start, RollForward, Replayed,
      CommitReplay, memory, offers
<1>7. CASE Crash \/ Reindex
  BY <1>7 DEF Crash, Reindex, Forget, OfferedKnown, NoMap
<1>8. CASE RollBack \/ VerifyDB
  <2>1. CASE UNCHANGED memory
    BY <2>1, KnownUnchanged DEF memory, offers
  <2>2. CASE UndoBlock(at)
    BY <2>2, UndoKnown
  <2> QED BY <1>8, <2>1, <2>2 DEF RollBack, VerifyDB, DisconnectBlock
<1> QED BY <1>1, <1>2, <1>3, <1>4, <1>5, <1>6, <1>7, <1>8 DEF Next

\* The commitment offered for a quorum is always one that is stored, so the lookups with
\* at() in AddMineableCommitment and GetMineableCommitments never throw.
THEOREM OfferIsKnown == Spec => []OfferedKnown
<1>1. Init => OfferedKnown
  BY DEF Init, OfferedKnown, NoMap
<1> QED BY <1>1, KnownStep, PTL DEF Spec

-----------------------------------------------------------------------------
(* An offer is only replaced by a better one.                              *)

Improves ==
    \A q \in DOMAIN minableCommitmentsByQuorum \cap DOMAIN minableCommitmentsByQuorum' :
        \/ minableCommitmentsByQuorum'[q] = minableCommitmentsByQuorum[q]
        \/ minableCommitmentsByQuorum'[q].signers > minableCommitmentsByQuorum[q].signers

LEMMA OfferImprovesIt ==
    ASSUME NEW qc, AddMineableCommitment(qc)
    PROVE  Improves
  BY DEF Improves, AddMineableCommitment, Offer, With

LEMMA MinedImproves ==
    ASSUME NEW b, ProcessCommitmentInMemory(b)
    PROVE  Improves
<1>1. CASE NonNull(b) = {}
  BY <1>1 DEF Improves, ProcessCommitmentInMemory, offers
<1>2. CASE NonNull(b) # {}
  BY <1>2 DEF Improves, ProcessCommitmentInMemory, Without
<1> QED BY <1>1, <1>2

LEMMA UndoImproves ==
    ASSUME NEW c, UndoBlock(c)
    PROVE  Improves
<1>1. CASE NonNull(Last(c)) = {}
  BY <1>1 DEF Improves, UndoBlock, offers
<1>2. CASE NonNull(Last(c)) # {}
  BY <1>2, OfferImprovesIt DEF UndoBlock
<1> QED BY <1>1, <1>2

LEMMA UnchangedImproves ==
    ASSUME UNCHANGED offers
    PROVE  Improves
  BY DEF Improves, offers

LEMMA ImprovesStep == [Next]_vars => Improves
<1> SUFFICES ASSUME [Next]_vars PROVE Improves
  OBVIOUS
<1>1. CASE UNCHANGED vars
  BY <1>1, UnchangedImproves DEF vars, memory, offers
<1>2. CASE ConnectTip \/ ConnectTipFails
  BY <1>2, MinedImproves DEF ConnectTip, ConnectTipFails
<1>3. CASE DisconnectTip
  BY <1>3, UndoImproves DEF DisconnectTip
<1>4. CASE AddReceived \/ AddOwnCommitment
  <2>1. PICK qc : AddMineableCommitment(qc)
    BY <1>4, ZenonT(60) DEF AddReceived, AddOwnCommitment
  <2> QED BY <2>1, OfferImprovesIt
<1>5. CASE CheckNextBlock \/ ReceiveCommitment \/ CompareCommitment \/ ReadMined \/ InsertMined
  BY <1>5, UnchangedImproves
  DEF CheckNextBlock, ReceiveCommitment, CompareCommitment, ReadMined, InsertMined
<1>6. CASE StartFlush \/ CoinsWritten \/ CommitRootTransaction \/ Start \/ RollForward
            \/ Replayed \/ CommitReplay
  BY <1>6, UnchangedImproves, ZenonT(60)
  DEF StartFlush, CoinsWritten, CommitRootTransaction, Start, RollForward, Replayed,
      CommitReplay, memory, offers
<1>7. CASE Crash \/ Reindex
  BY <1>7 DEF Crash, Reindex, Forget, Improves, NoMap
<1>8. CASE RollBack \/ VerifyDB
  <2>1. CASE UNCHANGED memory
    BY <2>1, UnchangedImproves DEF memory, offers
  <2>2. CASE UndoBlock(at)
    BY <2>2, UndoImproves
  <2> QED BY <1>8, <2>1, <2>2 DEF RollBack, VerifyDB, DisconnectBlock
<1> QED BY <1>1, <1>2, <1>3, <1>4, <1>5, <1>6, <1>7, <1>8 DEF Next

\* While a commitment is offered for a quorum, AddMineableCommitment and UndoBlock replace
\* it only by one with more signers.
THEOREM OffersOnlyImprove == Spec => OfferImproves
<1>1. [Next]_vars => [Improves]_vars
  BY ImprovesStep
<1> QED BY <1>1, PTL DEF Spec, OfferImproves, Improves
=============================================================================
