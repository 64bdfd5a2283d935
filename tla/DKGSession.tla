------------------------------ MODULE DKGSession ------------------------------
(***************************************************************************)
(* One round of the distributed key generation of a quorum: at every       *)
(* member the thread of CDKGSessionHandler that walks through the phases   *)
(* the chain dictates, and the CDKGSession it drives.                      *)
(*                                                                         *)
(* Every phase has one kind of message, which a member pushes to its own   *)
(* queue, and which reaches the others once the member has processed it    *)
(* itself (RelayInvToParticipants is called by ReceiveMessage).  The       *)
(* queues hold any message that was relayed and not yet processed: what a  *)
(* member leaves there when it goes to the next phase it never looks at.   *)
(* Verification vectors are unique to their contributor, so a set of valid *)
(* members determines the quorum key, and is all a commitment says.        *)
(* Members run this code: nobody sends two messages of a kind.  Those in   *)
(* Erring are the ones with simulated errors (ShouldSimulateError).        *)
(***************************************************************************)
EXTENDS Integers, FiniteSets

CONSTANTS Members,              \* the members of the quorum
          minSize,              \* params.minSize
          dkgBadVotesThreshold, \* params.dkgBadVotesThreshold
          None,                 \* no message
          MaxSkew,              \* phases a node may be ahead of another
          MaxErring,            \* members with simulated errors
          MaxLosses,            \* messages missed and members lost
          MaxFaults             \* errors and losses

ASSUME Assumptions ==
    /\ IsFiniteSet(Members)
    /\ minSize \in Nat /\ 2 * minSize > Cardinality(Members)
    /\ \A S, T \in SUBSET Members :
          None # [badMembers |-> S, complainForMembers |-> T]

\* QuorumPhase; a thread whose round was aborted is in none of them,
\* nor is one whose process has ended.
Crashed == -1
Aborted == 0
Initialized == 1
Contribute == 2
Complain == 3
Justify == 4
Commit == 5
Finalize == 6
Idle == 7

VARIABLES phase,  \* CDKGSessionHandler::phase, as the blocks have set it
          at,     \* the phase the thread of the member is in
          begun,  \* startPhaseFunc of that phase was called
          msg,    \* what each member pushed in each phase, or None
          got,    \* whose messages of each phase the member processed
          bad,    \* CDKGMember::bad of the members, as the member sees them
          open,   \* complaintsFromOthers: <<accused, complainer>>
          sk,     \* whose secret key contributions the member has verified
          final,  \* the final commitments the member made
          errs,   \* the simulated errors so far: <<member, type>>
          losses  \* messages missed and members lost so far

vars == <<phase, at, begun, msg, got, bad, open, sk, final, errs, losses>>

thread == <<phase, at, losses>>
session == <<bad, open, sk, final, errs>>

Sending == Contribute .. Commit

Init ==
    /\ phase = [m \in Members |-> Initialized]
    /\ at = [m \in Members |-> Initialized]
    /\ begun = [m \in Members |-> TRUE]
    /\ msg = [p \in Sending |-> [m \in Members |-> None]]
    /\ got = [m \in Members |-> [p \in Sending |-> {}]]
    /\ bad = [m \in Members |-> {}]
    /\ open = [m \in Members |-> {}]
    /\ sk = [m \in Members |-> {}]
    /\ final = [m \in Members |-> {}]
    /\ errs = {}
    /\ losses = 0

\* Bookkeeping of what goes wrong: simulated errors, messages a member leaves
\* behind in a phase, and members that leave the round.
Lose(n) ==
    /\ losses' = losses + n
    /\ n > 0 => losses' <= MaxLosses /\ losses' + Cardinality(errs) <= MaxFaults

Faultless == losses = 0 /\ \A m \in Members : at[m] # Crashed
-------------------------------------------------------------------------------
(* The handler *)

Running(m) == at[m] \in Initialized .. Commit

\* Mutant of UpdatedBlockTip: no upper limit for the phase.
UpdatedBlockTipUnchecked(m) ==
    /\ Running(m)
    /\ \E p \in {phase[m] + 1, phase[m] + 2} :
          /\ \A o \in Members : Running(o) => p - phase[o] <= MaxSkew
          /\ phase' = [phase EXCEPT ![m] = p]
          /\ Lose(IF phase[m] <= at[m] + 1 /\ p > at[m] + 1 THEN 1 ELSE 0)
    /\ UNCHANGED <<at, begun, msg, got, session>>

\* A new tip sets the phase when it is the first block of one.  When several
\* blocks are connected at once the first block of a phase may go unnoticed.
\* The tips of nodes that are out of the round are of no interest.
UpdatedBlockTip(m) ==
    /\ Running(m)
    /\ \E p \in {phase[m] + 1, phase[m] + 2} :
          /\ p <= Idle
          /\ \A o \in Members : Running(o) => p - phase[o] <= MaxSkew
          /\ phase' = [phase EXCEPT ![m] = p]
          /\ Lose(IF phase[m] <= at[m] + 1 /\ p > at[m] + 1 THEN 1 ELSE 0)
    /\ UNCHANGED <<at, begun, msg, got, session>>

\* Messages that the member has not processed in its phase, though they are
\* or will be there: others see a message once its sender has processed it.
Unprocessed(m) ==
    LET p == at[m] IN
    IF p = Initialized THEN {} ELSE
    {x \in Members \ got[m][p] :
        \/ x = m /\ msg[p][x] # None
        \/ x \in got[x][p]
        \/ at[x] \in Initialized .. p /\ ((at[x] = p /\ begun[x]) => msg[p][x] # None)}

\* WaitForNextPhase sees the phase it waits for.
NextPhase(m) ==
    /\ Running(m) /\ begun[m] /\ at[m] # Commit
    /\ phase[m] = at[m] + 1
    /\ at' = [at EXCEPT ![m] = phase[m]]
    /\ begun' = [begun EXCEPT ![m] = FALSE]
    /\ Lose(Cardinality(Unprocessed(m)))
    /\ UNCHANGED <<phase, msg, got, session>>

\* PhaseHandlerThread catches AbortPhaseException and waits for the next
\* round.  The session it leaves is not used any more, but what the member
\* has relayed is out.
LeaveRound(m) ==
    /\ at' = [at EXCEPT ![m] = Aborted]
    /\ begun' = [begun EXCEPT ![m] = FALSE]
    /\ got' = [got EXCEPT ![m] = [p \in Sending |-> @[p] \cap {m}]]
    /\ bad' = [bad EXCEPT ![m] = {}]
    /\ open' = [open EXCEPT ![m] = {}]
    /\ sk' = [sk EXCEPT ![m] = {}]
    /\ UNCHANGED <<phase, msg, final, errs>>

\* The phase changed while the thread slept before its part, or it went past
\* the one the thread waits for.
AbortPhase(m) ==
    /\ Running(m)
    /\ phase[m] \notin IF begun[m] THEN {at[m], at[m] + 1} ELSE {at[m]}
    /\ LeaveRound(m)
    /\ Lose(IF phase[m] = at[m] + 1 THEN 1 ELSE 0)

\* The node is stopped, or its chain abandons the block the quorum hangs on.
StopRequested(m) ==
    /\ Running(m)
    /\ LeaveRound(m)
    /\ Lose(1)

\* The thread reaches startPhaseFunc of phase p, whatever the tip is by now.
Start(m, p) ==
    /\ at[m] = p /\ ~begun[m]
    /\ begun' = [begun EXCEPT ![m] = TRUE]

\* PushPendingMessage to the own queue.
Push(m, p, x) == msg' = [msg EXCEPT ![p][m] = x]

\* ProcessPendingMessageBatch takes the message of x from the queue.
Process(m, p, x) ==
    /\ at[m] = p
    /\ msg[p][x] # None
    /\ x \notin got[m][p]
    /\ x = m \/ x \in got[x][p]
    /\ got' = [got EXCEPT ![m][p] = @ \cup {x}]

\* ShouldSimulateError is random; so is who is badly connected to whom.
Erring == {x[1] : x \in errs}
SimulateErrors(S) ==
    /\ errs' = errs \cup S
    /\ S # {} => /\ Cardinality(Erring') <= MaxErring
                 /\ Cardinality(errs') + losses <= MaxFaults
LieOrNot(m, type, lies) == IF lies = {} THEN {} ELSE {<<m, type>>}
-------------------------------------------------------------------------------
(* The session *)

\* Contribute, SendContributions: the set of members that get a wrong share.
SendContributions(m) ==
    /\ Start(m, Contribute)
    /\ \/ \E lies \in SUBSET (Members \ {m}) :
             /\ Push(m, Contribute, lies)
             /\ SimulateErrors(LieOrNot(m, "contribution-lie", lies))
       \/ UNCHANGED msg /\ SimulateErrors({<<m, "contribution-omit">>})
    /\ UNCHANGED <<thread, got, bad, open, sk, final>>

ReceiveContribution(m, x) ==
    /\ Process(m, Contribute, x)
    /\ UNCHANGED <<thread, begun, msg, session>>

\* VerifyPendingContributions, the members without a contribution, the bad
\* connections and SendComplaint.
VerifyAndComplain(m) ==
    /\ Start(m, Complain)
    /\ LET received == got[m][Contribute] IN
       \E lies \in SUBSET (received \ {m}),
          badConnection \in SUBSET (Members \ {m}) :
          LET verified == {x \in received \ lies : m \notin msg[Contribute][x]}
              newBad == bad[m] \cup (Members \ received)
              qc == [badMembers |-> newBad \cup badConnection,
                     complainForMembers |->
                        received \ (verified \cup newBad \cup badConnection)]
          IN  /\ bad' = [bad EXCEPT ![m] = newBad]
              /\ sk' = [sk EXCEPT ![m] = verified]
              /\ IF qc.badMembers \cup qc.complainForMembers = {}
                    THEN UNCHANGED msg
                    ELSE Push(m, Complain, qc)
              /\ SimulateErrors(LieOrNot(m, "complain-lie", lies)
                                \cup (badConnection \X {"bad-connection"}))
    /\ UNCHANGED <<thread, got, open, final>>

ReceiveComplaint(m, x) ==
    /\ Process(m, Complain, x)
    /\ open' = [open EXCEPT ![m] =
          @ \cup (msg[Complain][x].complainForMembers \X {x})]
    /\ UNCHANGED <<thread, begun, msg, bad, sk, final, errs>>

\* badMemberVotes of y
BadMemberVotes(m, y) ==
    {x \in got[m][Complain] : y \in msg[Complain][x].badMembers}

VerifyAndJustify(m) ==
    /\ Start(m, Justify)
    /\ LET newBad == bad[m] \cup {y \in Members :
                 Cardinality(BadMemberVotes(m, y)) >= dkgBadVotesThreshold}
           justifyFor == {x \in got[m][Complain] \ newBad :
                             m \in msg[Complain][x].complainForMembers}
       IN  /\ bad' = [bad EXCEPT ![m] = newBad]
           /\ \/ /\ justifyFor # {}
                 /\ \E lies \in SUBSET justifyFor :
                       /\ Push(m, Justify, [for |-> justifyFor, lies |-> lies])
                       /\ SimulateErrors(LieOrNot(m, "justify-lie", lies))
              \/ /\ justifyFor # {}
                 /\ UNCHANGED msg
                 /\ SimulateErrors({<<m, "justify-omit">>})
              \/ justifyFor = {} /\ UNCHANGED <<msg, errs>>
    /\ UNCHANGED <<thread, got, open, sk, final>>

\* Mutants of the next two: accuser and accused swapped; every complaint about
\* x dropped.
AllComplainedSwapped(m, x, qj) == \A y \in qj.for : <<y, x>> \in open[m]
SettledAll(x, right) == {x} \X Members

\* Everyone that x justifies itself to has complained about x, and the
\* complaints that right shares settle.
AllComplained(m, x, qj) == \A y \in qj.for : <<x, y>> \in open[m]
Settled(x, right) == {x} \X right

\* A justification to someone who is not known to have complained, or with a
\* wrong share, makes its sender bad; a right share settles the complaint.
ReceiveJustification(m, x) ==
    /\ Process(m, Justify, x)
    /\ LET qj == msg[Justify][x]
           asked == AllComplained(m, x, qj)
           right == IF asked THEN qj.for \ qj.lies ELSE {}
       IN  IF x \in bad[m]
              THEN UNCHANGED <<bad, open, sk>>
              ELSE /\ bad' = IF asked /\ qj.lies = {} THEN bad
                             ELSE [bad EXCEPT ![m] = @ \cup {x}]
                   /\ open' = [open EXCEPT ![m] = @ \ Settled(x, right)]
                   /\ sk' = IF m \in right
                               THEN [sk EXCEPT ![m] = @ \cup {x}] ELSE sk
    /\ UNCHANGED <<thread, begun, msg, final, errs>>

\* Members whose complaints were not settled are bad, and the rest are valid
\* for this member.
Accused(m) == {c[1] : c \in open[m]}
ValidMembers(m) == Members \ (bad[m] \cup Accused(m))

\* SendCommitment.  Adding up the shares asserts that there is one of every
\* valid member; if not, the process ends.  A false commitment does not pass
\* the checks of its own sender and so is never relayed: lying is omitting.
VerifyAndCommit(m) ==
    /\ Start(m, Commit)
    /\ LET valid == ValidMembers(m) IN
       /\ bad' = [bad EXCEPT ![m] = @ \cup Accused(m)]
       /\ \/ /\ Cardinality(valid) < minSize
             /\ UNCHANGED <<at, msg, errs>>
          \/ /\ Cardinality(valid) >= minSize
             /\ UNCHANGED <<at, msg>>
             /\ SimulateErrors({<<m, "commit-omit">>})
          \/ /\ Cardinality(valid) >= minSize
             /\ UNCHANGED errs
             /\ IF valid \subseteq sk[m]
                   THEN Push(m, Commit, valid) /\ UNCHANGED at
                   ELSE at' = [at EXCEPT ![m] = Crashed] /\ UNCHANGED msg
    /\ UNCHANGED <<phase, got, open, sk, final, losses>>

ReceiveCommitment(m, x) ==
    /\ Process(m, Commit, x)
    /\ UNCHANGED <<thread, begun, msg, session>>

Signers(m, valid) == {x \in got[m][Commit] : msg[Commit][x] = valid}

\* Mutants of Enough: off by one, either way.
EnoughLess(m, valid) == Cardinality(Signers(m, valid)) >= minSize - 1
EnoughMore(m, valid) == Cardinality(Signers(m, valid)) > minSize

Enough(m, valid) == Cardinality(Signers(m, valid)) >= minSize

\* The Finalize phase begins: commitments to the same members are put
\* together and those of enough members become mineable.
FinalizeCommitments(m) ==
    /\ at[m] = Commit /\ begun[m] /\ phase[m] = Finalize
    /\ at' = [at EXCEPT ![m] = Finalize]
    /\ final' = [final EXCEPT ![m] =
          {[validMembers |-> valid, signers |-> Signers(m, valid)] :
             valid \in {v \in {msg[Commit][x] : x \in got[m][Commit]} :
                           Enough(m, v)}}]
    /\ Lose(Cardinality(Unprocessed(m)))
    /\ UNCHANGED <<phase, begun, msg, got, bad, open, sk, errs>>

\* Every thread is out of the round and waits for the next one.
RoundOver ==
    /\ \A m \in Members : ~Running(m)
    /\ UNCHANGED vars

Next ==
    \/ \E m \in Members :
          \/ UpdatedBlockTip(m) \/ NextPhase(m)
          \/ AbortPhase(m) \/ StopRequested(m)
          \/ SendContributions(m) \/ VerifyAndComplain(m)
          \/ VerifyAndJustify(m) \/ VerifyAndCommit(m)
          \/ FinalizeCommitments(m)
    \/ \E m, x \in Members :
          \/ ReceiveContribution(m, x) \/ ReceiveComplaint(m, x)
          \/ ReceiveJustification(m, x) \/ ReceiveCommitment(m, x)
    \/ RoundOver

Spec == Init /\ [][Next]_vars
-------------------------------------------------------------------------------
(* Properties *)

\* The state has the shape of the fields of CDKGSessionHandler, CDKGSession and
\* CDKGMember.
TypeOK ==
    /\ phase \in [Members -> Initialized .. Idle]
    /\ at \in [Members -> Crashed .. Finalize]
    /\ begun \in [Members -> BOOLEAN]
    /\ DOMAIN msg = Sending
    /\ msg[Contribute] \in [Members -> {None} \cup SUBSET Members]
    /\ msg[Complain] \in [Members -> {None} \cup
          [badMembers : SUBSET Members, complainForMembers : SUBSET Members]]
    /\ msg[Justify] \in [Members -> {None} \cup
          [for : SUBSET Members, lies : SUBSET Members]]
    /\ msg[Commit] \in [Members -> {None} \cup SUBSET Members]
    /\ got \in [Members -> [Sending -> SUBSET Members]]
    /\ bad \in [Members -> SUBSET Members]
    /\ open \in [Members -> SUBSET (Members \X Members)]
    /\ sk \in [Members -> SUBSET Members]
    /\ final \in [Members -> SUBSET
          [validMembers : SUBSET Members, signers : SUBSET Members]]

\* However messages are lost and phases missed, nodes never finalise different
\* quorum keys: all commitments FinalizeCommitments makes in a round, on any
\* node, are for the same valid members, although the members may disagree on
\* who is bad.
OneFinalCommitment ==
    \A m, o \in Members : \A c \in final[m], d \in final[o] :
        c.validMembers = d.validMembers

\* When a member adds up its share of the key in SendCommitment it has a
\* verified contribution of every member it takes to be valid, as
\* CBLSSecretKey::AggregateInsecure asserts.  Two cases are excepted: the own
\* complaint was not processed before the phase ended, and a member was voted
\* bad for its connection, which replaces the complaint about its share.
SharesOfValidMembers ==
    \A m \in Members :
        LET qc == msg[Complain][m] IN
        at[m] = Commit /\ ~begun[m] =>
            IF qc = None THEN ValidMembers(m) \subseteq sk[m]
            ELSE m \in got[m][Complain] =>
                    ValidMembers(m) \subseteq sk[m] \cup qc.badMembers

Honest == Members \ Erring

ComplainedAbout(x, s) ==
    msg[Complain][s] # None /\ x \in msg[Complain][s].complainForMembers

\* In a round in which every member processes every message in time, a member
\* without errors is marked bad only for a complaint of someone whom it
\* considers bad itself, so that VerifyAndJustify does not answer it.
HonestNotBad ==
    \A m \in Members : \A x \in bad[m] \cap Honest :
        \/ ~Faultless
        \/ \E s \in bad[x] : ComplainedAbout(x, s)

\* In such a round, if no complaint goes unanswered, errors of others do not
\* keep enough honest members from forming the quorum: every member that
\* reaches FinalizeCommitments has a commitment with all of them valid.
HonestQuorumForms ==
    \A m \in Members :
        (/\ at[m] = Finalize
         /\ Cardinality(Honest) >= minSize
         /\ \A o \in Members : bad[o] \cap Honest = {}
         /\ Faultless)
        => \E c \in final[m] : Honest \subseteq c.validMembers
===============================================================================
