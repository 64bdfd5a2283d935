------------------------------ MODULE DKGProofs ------------------------------
(***************************************************************************)
(* A round of the DKG produces one quorum key at most, whatever the number *)
(* of members, losses and errors.  The argument: a member pushes a         *)
(* commitment once and never takes it back, final commitments are signed   *)
(* by a majority of the members, and two majorities share a signer.        *)
(***************************************************************************)
EXTENDS DKGSession, FiniteSetTheorems, TLAPS

USE SMTT(60)

\* The part of the types the argument needs.
Shape ==
    /\ at \in [Members -> Int]
    /\ begun \in [Members -> BOOLEAN]
    /\ DOMAIN msg = Sending
    /\ \A p \in Sending : DOMAIN msg[p] = Members
    /\ got \in [Members -> [Sending -> SUBSET Members]]
    /\ DOMAIN final = Members

\* A member whose part in the Commit phase is still to come has not pushed.
PushedOnce ==
    \A x \in Members :
        msg[Commit][x] # None =>
            ~Running(x) \/ (at[x] = Commit /\ begun[x])

ProcessedWerePushed ==
    \A m \in Members : \A x \in got[m][Commit] : msg[Commit][x] # None

Committed(valid) ==
    {x \in Members : msg[Commit][x] # None /\ msg[Commit][x] = valid}

FinalIsSigned ==
    \A m \in Members : \A c \in final[m] :
        /\ c.signers \subseteq Committed(c.validMembers)
        /\ Cardinality(c.signers) >= minSize

IInv == Shape /\ PushedOnce /\ ProcessedWerePushed /\ FinalIsSigned

\* Two sets of signers that are large enough have a member in common.
LEMMA SignersIntersect ==
    ASSUME NEW S \in SUBSET Members, NEW T \in SUBSET Members,
           Cardinality(S) >= minSize, Cardinality(T) >= minSize
    PROVE  S \cap T # {}
<1>1. IsFiniteSet(S) /\ IsFiniteSet(T) /\ IsFiniteSet(Members)
  BY Assumptions, FS_Subset DEF Assumptions
<1>2. Cardinality(S) \in Nat /\ Cardinality(T) \in Nat /\ Cardinality(Members) \in Nat
  BY <1>1, FS_CardinalityType
<1>3. Cardinality(S) + Cardinality(T) > Cardinality(Members)
  BY <1>2, Assumptions DEF Assumptions
<1> QED BY <1>1, <1>3, FS_MajoritiesIntersect

LEMMA InitIInv == Init => IInv
  BY DEF Init, IInv, Shape, PushedOnce, ProcessedWerePushed, FinalIsSigned,
         Sending, Contribute, Complain, Justify, Commit, Initialized

\* A step that pushes no commitment, processes none and finalises nothing.
Quiet ==
    /\ Shape'
    /\ \A x \in Members : msg'[Commit][x] = msg[Commit][x]
    /\ \A m \in Members : got'[m][Commit] \subseteq got[m][Commit]
    /\ final' = final

LEMMA QuietSteps ==
    ASSUME IInv, Quiet, PushedOnce'
    PROVE  IInv'
<1>1. ProcessedWerePushed'
  BY DEF IInv, Shape, Quiet, ProcessedWerePushed, Sending, Contribute, Commit
<1>2. ASSUME NEW v PROVE Committed(v)' = Committed(v)
  BY DEF Quiet, Committed
<1>3. FinalIsSigned'
  BY <1>2 DEF IInv, Quiet, FinalIsSigned
<1> QED BY <1>1, <1>3 DEF IInv, Quiet
LEMMA ThreadSteps ==
    ASSUME IInv, NEW m \in Members,
           \/ UpdatedBlockTip(m) \/ NextPhase(m)
           \/ AbortPhase(m) \/ StopRequested(m)
    PROVE  IInv'
<1> USE DEF Sending, Crashed, Aborted, Initialized, Contribute, Complain,
            Justify, Commit, Finalize, Running
<1>1. CASE UpdatedBlockTip(m)
  <2>1. UNCHANGED <<at, begun, msg, got, final>>
    BY ONLY <1>1, ZenonT(60) DEF UpdatedBlockTip, session
  <2>2. Quiet /\ PushedOnce'
    BY <2>1 DEF IInv, Shape, Quiet, PushedOnce
  <2> QED BY <2>2, QuietSteps
<1>2. CASE NextPhase(m)
  <2>1. UNCHANGED <<msg, got, final>>
    BY ONLY <1>2, ZenonT(60) DEF NextPhase, session
  <2>2. /\ at[m] # Commit /\ Running(m) /\ phase[m] = at[m] + 1
        /\ at' = [at EXCEPT ![m] = phase[m]]
        /\ begun' = [begun EXCEPT ![m] = FALSE]
    BY ONLY <1>2, ZenonT(60) DEF NextPhase
  <2>3. Quiet /\ PushedOnce'
    BY <2>1, <2>2 DEF IInv, Shape, Quiet, PushedOnce
  <2> QED BY <2>3, QuietSteps
<1>3. CASE AbortPhase(m) \/ StopRequested(m)
  <2>1. /\ UNCHANGED <<msg, final>>
        /\ at' = [at EXCEPT ![m] = Aborted]
        /\ begun' = [begun EXCEPT ![m] = FALSE]
        /\ got' = [got EXCEPT ![m] = [p \in Sending |-> got[m][p] \cap {m}]]
    BY <1>3 DEF AbortPhase, StopRequested, LeaveRound, IInv, Shape
  <2>2. Quiet /\ PushedOnce'
    BY <2>1 DEF IInv, Shape, Quiet, PushedOnce
  <2> QED BY <2>2, QuietSteps
<1> QED BY <1>1, <1>2, <1>3

\* The parts of the phases before Commit push something else.
LEMMA EarlierParts ==
    ASSUME IInv, NEW m \in Members,
           \/ SendContributions(m) \/ VerifyAndComplain(m)
           \/ VerifyAndJustify(m)
    PROVE  IInv'
<1> USE DEF Sending, Crashed, Aborted, Initialized, Contribute, Complain,
            Justify, Commit, Finalize, Running
<1>1. /\ UNCHANGED <<at, got, final>>
      /\ begun' = [begun EXCEPT ![m] = TRUE]
  BY ZenonT(60) DEF SendContributions, VerifyAndComplain, VerifyAndJustify,
                    Start, thread
<1>2. at[m] # Commit
  BY DEF SendContributions, VerifyAndComplain, VerifyAndJustify, Start
<1>3. msg' = msg \/ \E p \in {Contribute, Complain, Justify} : \E x :
                       msg' = [msg EXCEPT ![p][m] = x]
  <2>1. CASE SendContributions(m)
    BY <2>1 DEF SendContributions, Push
  <2>2. CASE VerifyAndComplain(m)
    BY <2>2 DEF VerifyAndComplain, Push
  <2>3. CASE VerifyAndJustify(m)
    BY <2>3 DEF VerifyAndJustify, Push
  <2> QED BY <2>1, <2>2, <2>3
<1>4. /\ \A x \in Members : msg'[Commit][x] = msg[Commit][x]
      /\ DOMAIN msg' = Sending
      /\ \A p \in Sending : DOMAIN msg'[p] = Members
  BY <1>3 DEF IInv, Shape
<1>5. Quiet /\ PushedOnce'
  BY <1>1, <1>2, <1>4 DEF IInv, Shape, Quiet, PushedOnce
<1> QED BY <1>5, QuietSteps

LEMMA EarlierMessages ==
    ASSUME IInv, NEW m \in Members, NEW x \in Members,
           \/ ReceiveContribution(m, x) \/ ReceiveComplaint(m, x)
           \/ ReceiveJustification(m, x)
    PROVE  IInv'
<1> USE DEF Sending, Contribute, Complain, Justify, Commit
<1>1. UNCHANGED <<at, begun, msg, final>>
  BY ZenonT(60) DEF ReceiveContribution, ReceiveComplaint,
                    ReceiveJustification, thread, session
<1>2. \E p \in {Contribute, Complain, Justify} :
         got' = [got EXCEPT ![m][p] = @ \cup {x}]
  BY DEF ReceiveContribution, ReceiveComplaint, ReceiveJustification, Process
<1>3. Quiet
  BY <1>1, <1>2 DEF IInv, Shape, Quiet
<1>4. PushedOnce'
  BY <1>1 DEF IInv, PushedOnce, Running
<1> QED BY <1>3, <1>4, QuietSteps

LEMMA CommitParts ==
    ASSUME IInv, NEW m \in Members, VerifyAndCommit(m)
    PROVE  IInv'
<1> USE DEF Sending, Crashed, Aborted, Initialized, Contribute, Complain,
            Justify, Commit, Finalize, Running
<1> DEFINE valid == ValidMembers(m)
<1>1. /\ UNCHANGED <<got, final>>
      /\ at[m] = Commit /\ ~begun[m]
      /\ begun' = [begun EXCEPT ![m] = TRUE]
  BY ZenonT(60) DEF VerifyAndCommit, Start
<1>2. msg[Commit][m] = None
  BY <1>1 DEF IInv, PushedOnce
<1>3. \/ msg' = msg /\ (at' = at \/ at' = [at EXCEPT ![m] = Crashed])
      \/ msg' = [msg EXCEPT ![Commit][m] = valid] /\ at' = at
  BY DEF VerifyAndCommit, Push
<1>4. \A x \in Members : msg[Commit][x] # None => msg'[Commit][x] = msg[Commit][x]
  BY <1>2, <1>3 DEF IInv, Shape
<1>5. Shape'
  BY <1>1, <1>3 DEF IInv, Shape
<1>6. PushedOnce'
  BY <1>1, <1>3 DEF IInv, Shape, PushedOnce
<1>7. ProcessedWerePushed'
  BY <1>1, <1>4 DEF IInv, Shape, ProcessedWerePushed
<1>8. ASSUME NEW v PROVE Committed(v) \subseteq Committed(v)'
  BY <1>4 DEF Committed
<1>9. FinalIsSigned'
  BY <1>1, <1>8 DEF IInv, FinalIsSigned
<1> QED BY <1>5, <1>6, <1>7, <1>9 DEF IInv

LEMMA CommitMessages ==
    ASSUME IInv, NEW m \in Members, NEW x \in Members, ReceiveCommitment(m, x)
    PROVE  IInv'
<1> USE DEF Sending, Contribute, Commit
<1>1. /\ UNCHANGED <<at, begun, msg, final>>
      /\ msg[Commit][x] # None
      /\ got' = [got EXCEPT ![m][Commit] = @ \cup {x}]
  BY ZenonT(60) DEF ReceiveCommitment, Process, thread, session
<1>2. Shape' /\ ProcessedWerePushed'
  BY <1>1 DEF IInv, Shape, ProcessedWerePushed
<1>3. PushedOnce' /\ FinalIsSigned'
  BY <1>1 DEF IInv, PushedOnce, Running, FinalIsSigned, Committed
<1> QED BY <1>2, <1>3 DEF IInv

LEMMA FinalizeSteps ==
    ASSUME IInv, NEW m \in Members, FinalizeCommitments(m)
    PROVE  IInv'
<1> USE DEF Sending, Crashed, Aborted, Initialized, Contribute, Complain,
            Justify, Commit, Finalize, Running
<1> DEFINE made == {[validMembers |-> valid, signers |-> Signers(m, valid)] :
                      valid \in {v \in {msg[Commit][x] : x \in got[m][Commit]} :
                                    Enough(m, v)}}
<1>1. /\ UNCHANGED <<begun, msg, got>>
      /\ at' = [at EXCEPT ![m] = Finalize]
      /\ final' = [final EXCEPT ![m] = made]
  BY ZenonT(60) DEF FinalizeCommitments
<1>2. Shape' /\ PushedOnce' /\ ProcessedWerePushed'
  BY <1>1 DEF IInv, Shape, PushedOnce, ProcessedWerePushed
<1>3. ASSUME NEW c \in made
      PROVE  /\ c.signers \subseteq Committed(c.validMembers)
             /\ Cardinality(c.signers) >= minSize
  <2>1. PICK valid : /\ c = [validMembers |-> valid, signers |-> Signers(m, valid)]
                     /\ Enough(m, valid)
    BY <1>3
  <2>2. c.validMembers = valid /\ c.signers = Signers(m, valid)
    BY <2>1
  <2>3. Signers(m, valid) \subseteq Committed(valid)
    BY DEF IInv, Shape, ProcessedWerePushed, Signers, Committed
  <2> QED BY <2>1, <2>2, <2>3 DEF Enough
<1>4. ASSUME NEW v PROVE Committed(v)' = Committed(v)
  BY <1>1 DEF Committed
<1>5. FinalIsSigned'
  BY <1>1, <1>3, <1>4 DEF IInv, Shape, FinalIsSigned
<1> QED BY <1>2, <1>5 DEF IInv

LEMMA NextIInv == IInv /\ [Next]_vars => IInv'
<1> SUFFICES ASSUME IInv, [Next]_vars PROVE IInv'
  OBVIOUS
<1>1. CASE UNCHANGED vars \/ RoundOver
  <2>1. UNCHANGED <<at, begun, msg, got, final>>
    BY <1>1, ZenonT(60) DEF vars, RoundOver
  <2> QED BY <2>1 DEF IInv, Shape, PushedOnce, ProcessedWerePushed,
                      FinalIsSigned, Committed, Running
<1>2. CASE Next /\ ~RoundOver
  BY <1>2, ThreadSteps, EarlierParts, EarlierMessages, CommitParts,
     CommitMessages, FinalizeSteps, ZenonT(60) DEF Next
<1> QED BY <1>1, <1>2

LEMMA IInvAgreement == IInv => OneFinalCommitment
<1> SUFFICES ASSUME IInv, NEW m \in Members, NEW o \in Members,
                    NEW c \in final[m], NEW d \in final[o]
             PROVE  c.validMembers = d.validMembers
  BY DEF OneFinalCommitment
<1>1. /\ c.signers \subseteq Committed(c.validMembers)
      /\ d.signers \subseteq Committed(d.validMembers)
      /\ Cardinality(c.signers) >= minSize /\ Cardinality(d.signers) >= minSize
  BY DEF IInv, FinalIsSigned
<1>2. c.signers \in SUBSET Members /\ d.signers \in SUBSET Members
  BY <1>1 DEF Committed
<1>3. c.signers \cap d.signers # {}
  BY <1>1, <1>2, SignersIntersect
<1> QED BY <1>1, <1>3 DEF Committed

\* On every node and in every round, all final commitments that
\* FinalizeCommitments makes are for the same valid members, and so have the
\* same quorum key, as long as minSize is more than half of the members.
THEOREM OneKeyPerRound == Spec => []OneFinalCommitment
<1>1. Init => IInv
  BY InitIInv
<1>2. IInv /\ [Next]_vars => IInv'
  BY NextIInv
<1>3. IInv => OneFinalCommitment
  BY IInvAgreement
<1> QED BY <1>1, <1>2, <1>3, PTL DEF Spec
=============================================================================
