------------------------------ MODULE DKGShares ------------------------------
(***************************************************************************)
(* The shares a member adds up in SendCommitment are all there, apart from *)
(* the two cases SharesOfValidMembers names, for any number of members,    *)
(* losses and errors.  The argument: once a member has complained, every   *)
(* contribution is verified, or its sender is reported as bad, or a        *)
(* complaint about it is pending, which is settled only by a right share.  *)
(***************************************************************************)
EXTENDS DKGSession, TLAPS

USE SMTT(60)

Shape ==
    /\ at \in [Members -> Int]
    /\ begun \in [Members -> BOOLEAN]
    /\ DOMAIN msg = Sending
    /\ \A p \in Sending : DOMAIN msg[p] = Members
    /\ got \in [Members -> [Sending -> SUBSET Members]]
    /\ DOMAIN bad = Members
    /\ DOMAIN open = Members
    /\ DOMAIN sk = Members

\* Whether the own part of the Complain phase is still to come, or was done.
Before(m) ==
    at[m] \in {Initialized, Contribute} \/ (at[m] = Complain /\ ~begun[m])
After(m) ==
    at[m] \in {Justify, Commit} \/ (at[m] = Complain /\ begun[m])

NotYet(m) ==
    msg[Complain][m] = None /\ m \notin got[m][Complain] /\ bad[m] = {}

Covered(m) ==
    LET qc == msg[Complain][m] IN
    IF qc = None THEN Members \subseteq sk[m]
    ELSE \A x \in Members :
            \/ x \in sk[m]
            \/ x \in qc.badMembers
            \/ /\ x \in qc.complainForMembers
               /\ m \in got[m][Complain] => <<x, m>> \in open[m]

SInv ==
    /\ Shape
    /\ \A m \in Members : /\ Before(m) => NotYet(m)
                          /\ After(m) => Covered(m)

LEMMA InitSInv == Init => SInv
  BY DEF Init, SInv, Shape, Before, After, NotYet, Sending, Initialized,
         Contribute, Complain, Justify, Commit

\* Steps that leave alone what NotYet and Covered speak of for member m.
Untouched(m) ==
    /\ msg'[Complain][m] = msg[Complain][m]
    /\ got'[m][Complain] = got[m][Complain]
    /\ sk'[m] = sk[m]
    /\ open'[m] = open[m]
    /\ Before(m) => bad'[m] = bad[m]

LEMMA UntouchedStays ==
    ASSUME NEW m \in Members, Untouched(m)
    PROVE  /\ Before(m) => NotYet(m)' = NotYet(m)
           /\ Covered(m)' = Covered(m)
  BY DEF Untouched, NotYet, Covered

LEMMA ThreadSteps ==
    ASSUME SInv, NEW m \in Members,
           \/ UpdatedBlockTip(m) \/ NextPhase(m)
           \/ AbortPhase(m) \/ StopRequested(m)
    PROVE  SInv'
<1> USE DEF Sending, Crashed, Aborted, Initialized, Contribute, Complain,
            Justify, Commit, Finalize
<1>1. CASE UpdatedBlockTip(m)
  <2>1. UNCHANGED <<at, begun, msg, got, bad, open, sk>>
    BY ONLY <1>1, ZenonT(60) DEF UpdatedBlockTip, session
  <2>2. Shape' /\ \A x \in Members : /\ Untouched(x)
                                     /\ Before(x)' = Before(x)
                                     /\ After(x)' = After(x)
    BY <2>1 DEF SInv, Shape, Untouched, Before, After
  <2> QED BY <2>2, UntouchedStays DEF SInv
<1>2. CASE NextPhase(m)
  <2>1. UNCHANGED <<msg, got, bad, open, sk>>
    BY ONLY <1>2, ZenonT(60) DEF NextPhase, session
  <2>2. /\ Running(m) /\ begun[m] /\ at[m] # Commit /\ phase[m] = at[m] + 1
        /\ at' = [at EXCEPT ![m] = phase[m]]
        /\ begun' = [begun EXCEPT ![m] = FALSE]
    BY ONLY <1>2, ZenonT(60) DEF NextPhase
  <2>3. Shape' /\ \A x \in Members : /\ Untouched(x)
                                     /\ Before(x)' => Before(x)
                                     /\ After(x)' => After(x)
    BY <2>1, <2>2 DEF SInv, Shape, Untouched, Before, After, Running
  <2> QED BY <2>3, UntouchedStays DEF SInv
<1>3. CASE AbortPhase(m) \/ StopRequested(m)
  <2>1. /\ UNCHANGED msg
        /\ at' = [at EXCEPT ![m] = Aborted]
        /\ begun' = [begun EXCEPT ![m] = FALSE]
        /\ got' = [got EXCEPT ![m] = [p \in Sending |-> got[m][p] \cap {m}]]
        /\ bad' = [bad EXCEPT ![m] = {}]
        /\ open' = [open EXCEPT ![m] = {}]
        /\ sk' = [sk EXCEPT ![m] = {}]
    BY <1>3 DEF AbortPhase, StopRequested, LeaveRound, SInv, Shape
  <2>2. Shape' /\ ~Before(m)' /\ ~After(m)'
    BY <2>1 DEF SInv, Shape, Before, After
  <2>3. \A x \in Members \ {m} : /\ Untouched(x)
                                 /\ Before(x)' = Before(x)
                                 /\ After(x)' = After(x)
    BY <2>1 DEF SInv, Shape, Untouched, Before, After
  <2> QED BY <2>2, <2>3, UntouchedStays DEF SInv
<1> QED BY <1>1, <1>2, <1>3

\* The parts of the other phases.
LEMMA OtherParts ==
    ASSUME SInv, NEW m \in Members,
           \/ SendContributions(m) \/ VerifyAndJustify(m)
           \/ VerifyAndCommit(m) \/ FinalizeCommitments(m)
    PROVE  SInv'
<1> USE DEF Sending, Crashed, Aborted, Initialized, Contribute, Complain,
            Justify, Commit, Finalize
<1>1. UNCHANGED <<got, open, sk>>
  BY ZenonT(60) DEF SendContributions, VerifyAndJustify, VerifyAndCommit,
                    FinalizeCommitments
<1>2. msg' = msg \/ \E p \in {Contribute, Justify, Commit} : \E x :
                       msg' = [msg EXCEPT ![p][m] = x]
  <2>1. CASE SendContributions(m)
    BY <2>1 DEF SendContributions, Push
  <2>2. CASE VerifyAndJustify(m)
    BY <2>2 DEF VerifyAndJustify, Push
  <2>3. CASE VerifyAndCommit(m)
    BY <2>3 DEF VerifyAndCommit, Push
  <2>4. CASE FinalizeCommitments(m)
    BY <2>4 DEF FinalizeCommitments
  <2> QED BY <2>1, <2>2, <2>3, <2>4
<1>3. DOMAIN bad' = Members /\ \A x \in Members : Before(x) => bad'[x] = bad[x]
  <2>1. CASE SendContributions(m) \/ FinalizeCommitments(m)
    <3>1. bad' = bad
      BY <2>1, ZenonT(60) DEF SendContributions, FinalizeCommitments
    <3> QED BY <3>1 DEF SInv, Shape
  <2>2. CASE VerifyAndJustify(m) \/ VerifyAndCommit(m)
    <3>1. ~Before(m)
      BY <2>2 DEF VerifyAndJustify, VerifyAndCommit, Start, Before
    <3>2. \E S : bad' = [bad EXCEPT ![m] = S]
      BY <2>2, ZenonT(60) DEF VerifyAndJustify, VerifyAndCommit
    <3> QED BY <3>1, <3>2 DEF SInv, Shape
  <2> QED BY <2>1, <2>2
<1>4. /\ \A x \in Members : Untouched(x)
      /\ DOMAIN msg' = Sending
      /\ \A p \in Sending : DOMAIN msg'[p] = Members
  BY <1>1, <1>2, <1>3 DEF SInv, Shape, Untouched
<1>5. /\ at' \in [Members -> Int] /\ begun' \in [Members -> BOOLEAN]
      /\ \A x \in Members : /\ Before(x)' => Before(x)
                            /\ After(x)' => After(x)
  <2>1. CASE SendContributions(m)
    <3>1. at' = at /\ at[m] = Contribute /\ begun' = [begun EXCEPT ![m] = TRUE]
      BY <2>1, ZenonT(60) DEF SendContributions, Start, thread
    <3> QED BY <3>1 DEF SInv, Shape, Before, After
  <2>2. CASE VerifyAndJustify(m)
    <3>1. at' = at /\ at[m] = Justify /\ begun' = [begun EXCEPT ![m] = TRUE]
      BY <2>2, ZenonT(60) DEF VerifyAndJustify, Start, thread
    <3> QED BY <3>1 DEF SInv, Shape, Before, After
  <2>3. CASE VerifyAndCommit(m)
    <3>1. /\ at' = at \/ at' = [at EXCEPT ![m] = Crashed]
          /\ at[m] = Commit
          /\ begun' = [begun EXCEPT ![m] = TRUE]
      BY <2>3 DEF VerifyAndCommit, Start
    <3> QED BY <3>1 DEF SInv, Shape, Before, After
  <2>4. CASE FinalizeCommitments(m)
    <3>1. at' = [at EXCEPT ![m] = Finalize] /\ begun' = begun
      BY <2>4, ZenonT(60) DEF FinalizeCommitments
    <3> QED BY <3>1 DEF SInv, Shape, Before, After
  <2> QED BY <2>1, <2>2, <2>3, <2>4
<1> QED BY <1>1, <1>3, <1>4, <1>5, UntouchedStays DEF SInv, Shape
LEMMA ComplainPart ==
    ASSUME SInv, NEW m \in Members, VerifyAndComplain(m)
    PROVE  SInv'
<1> USE DEF Sending, Crashed, Aborted, Initialized, Contribute, Complain,
            Justify, Commit, Finalize
<1>1. /\ UNCHANGED <<at, got, open>>
      /\ at[m] = Complain /\ ~begun[m]
      /\ begun' = [begun EXCEPT ![m] = TRUE]
  BY ZenonT(60) DEF VerifyAndComplain, Start, thread
<1>2. NotYet(m)
  BY <1>1 DEF SInv, Before
<1> DEFINE received == got[m][Contribute]
           verified(lies) ==
              {x \in received \ lies : m \notin msg[Contribute][x]}
           newBad == bad[m] \cup (Members \ received)
           qc(lies, badConnection) ==
              [badMembers |-> newBad \cup badConnection,
               complainForMembers |->
                  received \ (verified(lies) \cup newBad \cup badConnection)]
<1>3. PICK lies \in SUBSET (received \ {m}),
           badConnection \in SUBSET (Members \ {m}) :
         /\ bad' = [bad EXCEPT ![m] = newBad]
         /\ sk' = [sk EXCEPT ![m] = verified(lies)]
         /\ IF qc(lies, badConnection).badMembers
               \cup qc(lies, badConnection).complainForMembers = {}
               THEN UNCHANGED msg
               ELSE Push(m, Complain, qc(lies, badConnection))
  BY ZenonT(60) DEF VerifyAndComplain
<1> DEFINE q == qc(lies, badConnection)
<1>4. /\ DOMAIN msg' = Sending
      /\ \A p \in Sending : DOMAIN msg'[p] = Members
      /\ \A x \in Members \ {m} : msg'[Complain][x] = msg[Complain][x]
  BY <1>3 DEF SInv, Shape, Push
<1>5. Shape'
  BY <1>1, <1>3, <1>4 DEF SInv, Shape
<1>6. \A x \in Members \ {m} : /\ Untouched(x)
                               /\ Before(x)' = Before(x)
                               /\ After(x)' = After(x)
  BY <1>1, <1>3, <1>4 DEF SInv, Shape, Untouched, Before, After
<1>7. ~Before(m)'
  BY <1>1 DEF SInv, Shape, Before
<1>8. Covered(m)'
  <2>1. sk'[m] = verified(lies)
    BY <1>3 DEF SInv, Shape
  <2>2. received \subseteq Members
    BY DEF SInv, Shape
  <2>3. CASE q.badMembers \cup q.complainForMembers = {}
    <3>1. msg'[Complain][m] = None
      BY <1>2, <1>3, <2>3 DEF NotYet
    <3>2. newBad \cup badConnection = {}
          /\ received \ (verified(lies) \cup newBad \cup badConnection) = {}
      BY <2>3
    <3>3. Members \subseteq verified(lies)
      BY <2>2, <3>2
    <3> QED BY <2>1, <3>1, <3>3 DEF Covered
  <2>4. CASE q.badMembers \cup q.complainForMembers # {}
    <3>1. msg'[Complain][m] = q
      <4>1. msg' = [msg EXCEPT ![Complain][m] = q]
        BY ONLY <1>3, <2>4, ZenonT(60) DEF Push
      <4> HIDE DEF q
      <4> QED BY <4>1 DEF SInv, Shape
    <3>2. m \notin got'[m][Complain]
      BY <1>1, <1>2 DEF NotYet
    <3>3. \A x \in Members : \/ x \in verified(lies)
                             \/ x \in q.badMembers
                             \/ x \in q.complainForMembers
      BY <2>2
    <3>4. newBad \cup badConnection \subseteq Members
      BY <1>2 DEF NotYet
    <3>5. q # None
      BY <2>2, <3>4, Assumptions DEF Assumptions
    <3> QED BY <2>1, <3>1, <3>2, <3>3, <3>5 DEF Covered
  <2> QED BY <2>3, <2>4
<1> QED BY <1>5, <1>6, <1>7, <1>8, UntouchedStays DEF SInv
LEMMA OtherMessages ==
    ASSUME SInv, NEW m \in Members, NEW x \in Members,
           ReceiveContribution(m, x) \/ ReceiveCommitment(m, x)
    PROVE  SInv'
<1> USE DEF Sending, Initialized, Contribute, Complain, Justify, Commit
<1>1. UNCHANGED <<at, begun, msg, bad, open, sk>>
  BY ZenonT(60) DEF ReceiveContribution, ReceiveCommitment, thread, session
<1>2. \E p \in {Contribute, Commit} : got' = [got EXCEPT ![m][p] = @ \cup {x}]
  BY DEF ReceiveContribution, ReceiveCommitment, Process
<1>3. Shape' /\ \A y \in Members : /\ Untouched(y)
                                   /\ Before(y)' = Before(y)
                                   /\ After(y)' = After(y)
  BY <1>1, <1>2 DEF SInv, Shape, Untouched, Before, After
<1> QED BY <1>3, UntouchedStays DEF SInv

LEMMA ComplaintMessages ==
    ASSUME SInv, NEW m \in Members, NEW x \in Members, ReceiveComplaint(m, x)
    PROVE  SInv'
<1> USE DEF Sending, Initialized, Contribute, Complain, Justify, Commit
<1>1. /\ UNCHANGED <<at, begun, msg, bad, sk>>
      /\ at[m] = Complain /\ msg[Complain][x] # None
      /\ got' = [got EXCEPT ![m][Complain] = @ \cup {x}]
      /\ open' = [open EXCEPT ![m] =
                     @ \cup (msg[Complain][x].complainForMembers \X {x})]
  BY ZenonT(60) DEF ReceiveComplaint, Process, thread
<1>2. Shape' /\ \A y \in Members : /\ y # m => Untouched(y)
                                   /\ Before(y)' = Before(y)
                                   /\ After(y)' = After(y)
  BY <1>1 DEF SInv, Shape, Untouched, Before, After
<1>3. Before(m) => NotYet(m)'
  <2>1. SUFFICES ASSUME Before(m) PROVE NotYet(m)'
    OBVIOUS
  <2>2. NotYet(m)
    BY <2>1 DEF SInv
  <2>3. x # m
    BY <1>1, <2>2 DEF NotYet
  <2> QED BY <1>1, <2>2, <2>3 DEF NotYet, SInv, Shape
<1>4. After(m) => Covered(m)'
  <2>1. SUFFICES ASSUME After(m) PROVE Covered(m)'
    OBVIOUS
  <2>2. Covered(m)
    BY <2>1 DEF SInv
  <2>3. CASE x = m
    <3>1. \A y \in msg[Complain][m].complainForMembers : <<y, m>> \in open'[m]
      BY <1>1, <2>3 DEF SInv, Shape
    <3> QED BY <1>1, <2>2, <2>3, <3>1 DEF Covered
  <2>4. CASE x # m
    <3>1. open[m] \subseteq open'[m]
      BY <1>1 DEF SInv, Shape
    <3>2. m \in got'[m][Complain] => m \in got[m][Complain]
      BY <1>1, <2>4 DEF SInv, Shape
    <3> QED BY <1>1, <2>2, <3>1, <3>2 DEF Covered
  <2> QED BY <2>3, <2>4
<1> QED BY <1>2, <1>3, <1>4, UntouchedStays DEF SInv

LEMMA JustificationMessages ==
    ASSUME SInv, NEW m \in Members, NEW x \in Members,
           ReceiveJustification(m, x)
    PROVE  SInv'
<1> USE DEF Sending, Initialized, Contribute, Complain, Justify, Commit
<1>1. /\ UNCHANGED <<at, begun, msg>>
      /\ at[m] = Justify
      /\ got' = [got EXCEPT ![m][Justify] = @ \cup {x}]
  BY ZenonT(60) DEF ReceiveJustification, Process, thread
<1>2. /\ bad' = bad \/ \E S : bad' = [bad EXCEPT ![m] = S]
      /\ \E right :
            /\ open' = open \/ open' = [open EXCEPT ![m] = @ \ ({x} \X right)]
            /\ sk' = sk \/ sk' = [sk EXCEPT ![m] = @ \cup {x}]
            /\ open' # open /\ m \in right => sk' = [sk EXCEPT ![m] = @ \cup {x}]
  BY ZenonT(60) DEF ReceiveJustification, Settled
<1>3. Shape'
  BY <1>1, <1>2 DEF SInv, Shape
<1>4. \A y \in Members : /\ y # m => Untouched(y)
                         /\ Before(y)' = Before(y)
                         /\ After(y)' = After(y)
  BY <1>1, <1>2 DEF SInv, Shape, Untouched, Before, After
<1>5. ~Before(m) /\ Covered(m)
  BY <1>1 DEF SInv, Before, After
<1>6. /\ sk[m] \subseteq sk'[m]
      /\ \A y \in Members : <<y, m>> \in open[m] =>
                               <<y, m>> \in open'[m] \/ y \in sk'[m]
  BY <1>2 DEF SInv, Shape
<1>7. got'[m][Complain] = got[m][Complain]
  BY <1>1 DEF SInv, Shape
<1>8. Covered(m)'
  BY <1>1, <1>5, <1>6, <1>7 DEF Covered
<1> QED BY <1>3, <1>4, <1>5, <1>8, UntouchedStays DEF SInv

LEMMA NextSInv == SInv /\ [Next]_vars => SInv'
<1> SUFFICES ASSUME SInv, [Next]_vars PROVE SInv'
  OBVIOUS
<1>1. CASE UNCHANGED vars \/ RoundOver
  <2>1. UNCHANGED <<at, begun, msg, got, bad, open, sk>>
    BY <1>1, ZenonT(60) DEF vars, RoundOver
  <2> QED BY <2>1 DEF SInv, Shape, Before, After, NotYet, Covered
<1>2. CASE Next /\ ~RoundOver
  BY <1>2, ThreadSteps, OtherParts, ComplainPart, OtherMessages,
     ComplaintMessages, JustificationMessages, ZenonT(60) DEF Next
<1> QED BY <1>1, <1>2

LEMMA SInvShares == SInv => SharesOfValidMembers
<1> SUFFICES ASSUME SInv, NEW m \in Members, at[m] = Commit,
                    msg[Complain][m] # None => m \in got[m][Complain],
                    NEW x \in ValidMembers(m)
             PROVE  IF msg[Complain][m] = None THEN x \in sk[m]
                    ELSE x \in sk[m] \cup msg[Complain][m].badMembers
  BY DEF SharesOfValidMembers
<1>1. Covered(m)
  BY DEF SInv, After
<1>2. x \in Members /\ <<x, m>> \notin open[m]
  BY DEF ValidMembers, Accused
<1> QED BY <1>1, <1>2 DEF Covered

\* Whoever adds up shares in SendCommitment has one of every member it takes
\* to be valid, unless its own complaint was left in the queue or a member was
\* reported as bad instead of being complained about.
THEOREM SharesAreThere == Spec => []SharesOfValidMembers
<1>1. Init => SInv
  BY InitSInv
<1>2. SInv /\ [Next]_vars => SInv'
  BY NextSInv
<1>3. SInv => SharesOfValidMembers
  BY SInvShares
<1> QED BY <1>1, <1>2, <1>3, PTL DEF Spec
=============================================================================
