--------------------------- MODULE SigningProofs ---------------------------
(***************************************************************************)
(* The theorems about Signing for every set of masternodes, quorums, ids and *)
(* messages that satisfies the assumptions of Signing and RecSigsStore.    *)
(***************************************************************************)
EXTENDS SigningShares

\* The default backend; the steps that need first-order reasoning name Zenon.
USE SMTT(60)

-----------------------------------------------------------------------------
(* The invariant is inductive.                                             *)

\* The inductive invariant holds initially.
LEMMA IndInvInit == Init => IndInv
<1> SUFFICES ASSUME Init PROVE IndInv
  OBVIOUS
<1>1. \A n \in Honest, s \in Sessions : ~Signed(n, s)
  BY DEF Init, Signed
<1>2. VoteInv
  BY DEF Init, VoteInv, TimeKeysInv, EmptyStore
<1>3. SignedInv
  BY <1>1, ZenonT(60) DEF SignedInv
<1>4. ShareInv /\ RecoveredInv
  BY DEF Init, ShareInv, RecoveredInv
<1> QED
  BY <1>2, <1>3, <1>4 DEF IndInv

\* A step that touches neither votes nor shares preserves the invariant.
LEMMA IndInvFrame ==
    ASSUME TypeOK, TypeOK', IndInv, VotesUntouched, SharesUntouched
    PROVE  IndInv'
<1>1. SignedInv /\ VoteInv /\ ShareInv /\ RecoveredInv
  BY DEF IndInv
<1>2. SignedInv' /\ VoteInv'
  BY <1>1, VoteFrame
<1>3. ShareInv' /\ RecoveredInv'
  BY <1>1, ShareFrame
<1> QED
  BY <1>2, <1>3 DEF IndInv

\* Every step preserves the inductive invariant.
LEMMA IndInvStep ==
    ASSUME TypeOK, TypeOK', IndInv, [Next]_vars
    PROVE  IndInv'
<1>a. SignedInv /\ VoteInv /\ ShareInv /\ RecoveredInv
  BY DEF IndInv
<1>b. SignedInv' /\ VoteInv' /\ ShareInv' /\ RecoveredInv' => IndInv'
  BY DEF IndInv
<1>c. now \in Nat
  BY DEF TypeOK
<1>1. ASSUME NEW n \in Honest, NEW q \in Quorums, NEW id \in Ids,
             NEW msg \in Msgs, NEW re \in BOOLEAN,
             RequestSign(n, q, id, msg, re)
      PROVE  IndInv'
  <2>1. SignedInv' /\ VoteInv'
    BY <1>a, <1>1, RequestVotes
  <2>2. SharesUntouched
    <3>1. UNCHANGED <<sigShares, shares, recovered>>
      BY <1>1, ZenonT(60) DEF RequestSign, network
    <3> QED
      BY <3>1 DEF SharesUntouched
  <2>3. ShareInv' /\ RecoveredInv'
    BY <1>a, <2>2, ShareFrame
  <2> QED
    BY <1>b, <2>1, <2>3
<1>2. ASSUME NEW n \in Honest, NEW s \in Sessions, SignPendingSigShare(n, s)
      PROVE  IndInv'
  <2> DEFINE sh == [session |-> s, member |-> n]
  <2>1. sh \in Shares
    BY DEF Shares, Honest
  <2>2. /\ s \in pendingSigns[n]
        /\ pendingSigns' = [pendingSigns EXCEPT ![n] = @ \ {s}]
        /\ voted' = voted /\ now' = now
    BY <1>2, ZenonT(60) DEF SignPendingSigShare, environment
  <2>3. \/ /\ n \in MembersOf[s.quorum]
           /\ shares' = shares \cup {sh}
           /\ ProcessSigShare(n, sh)
        \/ UNCHANGED <<db, shares, sigShares, recovered>>
    BY <1>2, ZenonT(60) DEF SignPendingSigShare, store
  <2> HIDE DEF sh
  <2>4. \A x \in Honest : db'[x].v = db[x].v /\ db'[x].vt = db[x].vt
    BY <2>1, <2>3, ProcessSigShareVotes
  <2>5. \A x \in Honest, y \in Sessions : Signed(x, y)' => Signed(x, y)
    BY <2>2, <2>3 DEF Signed, TypeOK, sh
  <2>8. VotesUntouched
    BY <1>c, <2>2, <2>4, <2>5 DEF VotesUntouched
  <2>6. SignedInv' /\ VoteInv'
    BY <1>a, <2>8, VoteFrame
  <2>7. ShareInv' /\ RecoveredInv'
    <3>1. CASE /\ n \in MembersOf[s.quorum]
               /\ shares' = shares \cup {sh}
               /\ ProcessSigShare(n, sh)
      <4>1. sh.member \in Signers(sh.session)'
        BY <3>1 DEF Signers, sh
      <4>2. shares \subseteq shares'
        BY <3>1
      <4> QED
        BY <1>a, <2>1, <3>1, <4>1, <4>2, ProcessSigShareShares
    <3>2. CASE UNCHANGED <<db, shares, sigShares, recovered>>
      <4>1. SharesUntouched
        BY <3>2 DEF SharesUntouched
      <4> QED
        BY <1>a, <4>1, ShareFrame
    <3> QED
      BY <2>3, <3>1, <3>2
  <2> QED
    BY <1>b, <2>6, <2>7
<1>3. ASSUME NEW n \in Honest, NEW s \in Sessions, NEW m \in Members,
             ReceiveSigShare(n, s, m)
      PROVE  IndInv'
  <2> DEFINE sh == [session |-> s, member |-> m]
  <2>1. sh \in Shares
    BY DEF Shares
  <2>2. /\ m \in Signers(s)
        /\ ProcessSigShare(n, sh)
        /\ UNCHANGED <<pendingSigns, shares, voted, now>>
    BY <1>3, ZenonT(60) DEF ReceiveSigShare, environment
  <2>3. sh.member \in Signers(sh.session)'
    BY <2>2 DEF Signers
  <2> HIDE DEF sh
  <2>4. \A x \in Honest : db'[x].v = db[x].v /\ db'[x].vt = db[x].vt
    BY <2>1, <2>2, ProcessSigShareVotes
  <2>5. VotesUntouched
    BY <1>c, <2>2, <2>4 DEF VotesUntouched, Signed
  <2>6. SignedInv' /\ VoteInv'
    BY <1>a, <2>5, VoteFrame
  <2>7. shares \subseteq shares'
    BY <2>2
  <2>8. ShareInv' /\ RecoveredInv'
    BY <1>a, <2>1, <2>2, <2>3, <2>7, ProcessSigShareShares
  <2> QED
    BY <1>b, <2>6, <2>8
<1>4. ASSUME NEW n \in Honest, NEW s \in Sessions, TimeoutSession(n, s)
      PROVE  IndInv'
  <2>1. /\ UNCHANGED <<db, pendingSigns, shares, recovered, voted, now>>
        /\ sigShares' = [sigShares EXCEPT ![n] = @ \ SharesFor(@, s)]
    BY <1>4, ZenonT(60) DEF TimeoutSession, store, network, environment
  <2>2. VotesUntouched
    BY <1>c, <2>1 DEF VotesUntouched, Signed
  <2>3. SharesUntouched
    BY <2>1 DEF SharesUntouched, TypeOK
  <2> QED
    BY <2>2, <2>3, IndInvFrame
<1>5. ASSUME NEW s \in Sessions, FaultyRecover(s)
      PROVE  IndInv'
  <2>a. UNCHANGED <<db, pendingSigns, shares, voted, now>>
    BY <1>5, ZenonT(60) DEF FaultyRecover, store, environment
  <2>1. VotesUntouched
    BY <1>c, <2>a DEF VotesUntouched, Signed
  <2>2. SignedInv' /\ VoteInv'
    BY <1>a, <2>1, VoteFrame
  <2>3. ShareInv' /\ RecoveredInv'
    BY <1>a, <1>5, ZenonT(60) DEF FaultyRecover, ShareInv, RecoveredInv, Signers
  <2> QED
    BY <1>b, <2>2, <2>3
<1>6. ASSUME NEW n \in Honest, NEW rs \in RecSigs,
             \/ ProcessMessageRecoveredSig(n, rs)
             \/ PushReconstructedRecoveredSig(n, rs)
      PROVE  IndInv'
  <2>1. UNCHANGED <<db, pendingSigns, sigShares, shares, recovered, voted, now>>
    BY <1>6, ZenonT(60) DEF ProcessMessageRecoveredSig, PushReconstructedRecoveredSig,
                           store, network, environment
  <2>2. VotesUntouched
    BY <1>c, <2>1 DEF VotesUntouched, Signed
  <2>3. SharesUntouched
    BY <2>1 DEF SharesUntouched
  <2> QED
    BY <2>2, <2>3, IndInvFrame
<1>7. ASSUME NEW n \in Honest, NEW rs \in RecSigs,
             \/ ProcessPendingRecoveredSig(n, rs)
             \/ ProcessPendingReconstructedRecoveredSig(n, rs)
      PROVE  IndInv'
  <2>1. /\ UNCHANGED <<pendingSigns, shares, recovered, voted, now>>
        /\ \/ \E recon : ProcessRecoveredSig(n, rs, sigShares[n], recon)
           \/ UNCHANGED <<db, sigShares>>
    BY <1>7, ZenonT(60)
       DEF ProcessPendingRecoveredSig, ProcessPendingReconstructedRecoveredSig,
           store, network, environment
  <2>2. \A x \in Honest : db'[x].v = db[x].v /\ db'[x].vt = db[x].vt
    BY <2>1, ProcessRecoveredSigVotes
  <2>3. \A x \in Honest : sigShares'[x] \subseteq sigShares[x]
    BY <2>1, ProcessRecoveredSigShares
  <2>4. VotesUntouched
    BY <1>c, <2>1, <2>2 DEF VotesUntouched, Signed
  <2>5. SharesUntouched
    BY <2>1, <2>3 DEF SharesUntouched
  <2> QED
    BY <2>4, <2>5, IndInvFrame
<1>8. ASSUME NEW n \in Honest, NEW id \in Ids, Truncate(n, id)
      PROVE  IndInv'
  <2>1. LET d == TruncateRecoveredSig(db[n], id)
        IN  d.v = db[n].v /\ d.vt = db[n].vt
    BY DEF TruncateRecoveredSig, RemoveRecoveredSigs, TypeOK, Stores
  <2>2. \A x \in Honest : db'[x].v = db[x].v /\ db'[x].vt = db[x].vt
    BY <1>8, <2>1 DEF Truncate, TypeOK
  <2>3. UNCHANGED <<pendingSigns, sigShares, shares, recovered, voted, now>>
    BY <1>8, ZenonT(60) DEF Truncate, network, environment
  <2>4. VotesUntouched
    BY <1>c, <2>2, <2>3 DEF VotesUntouched, Signed
  <2>5. SharesUntouched
    BY <2>3 DEF SharesUntouched
  <2> QED
    BY <2>4, <2>5, IndInvFrame
<1>9. ASSUME NEW n \in Honest, Cleanup(n)
      PROVE  IndInv'
  <2>1. SignedInv' /\ VoteInv'
    BY <1>a, <1>9, CleanupVotes
  <2>2. SharesUntouched
    <3>1. UNCHANGED <<sigShares, shares, recovered>>
      BY <1>9, ZenonT(60) DEF Cleanup, network
    <3> QED
      BY <3>1 DEF SharesUntouched
  <2>3. ShareInv' /\ RecoveredInv'
    BY <1>a, <2>2, ShareFrame
  <2> QED
    BY <1>b, <2>1, <2>3
<1>10. ASSUME NEW n \in Honest, Restart(n)
       PROVE  IndInv'
  <2>1. /\ UNCHANGED <<db, shares, recovered, voted, now>>
        /\ pendingSigns' = [pendingSigns EXCEPT ![n] = {}]
        /\ sigShares' = [sigShares EXCEPT ![n] = {}]
    BY <1>10, ZenonT(60) DEF Restart, network, environment
  <2>2. VotesUntouched
    BY <1>c, <2>1 DEF VotesUntouched, Signed, TypeOK
  <2>3. SharesUntouched
    BY <2>1 DEF SharesUntouched, TypeOK
  <2> QED
    BY <2>2, <2>3, IndInvFrame
<1>11. ASSUME \/ Tick
              \/ \E n \in Honest, w \in Views : NewTip(n, w)
              \/ \E n \in Honest, key \in CacheKeys :
                    StartLookup(n, key) \/ EvictEntry(n, key)
              \/ \E n \in Honest : \E l \in lookups[n] : FinishLookup(n, l)
              \/ UNCHANGED vars
       PROVE  IndInv'
  <2>1. /\ UNCHANGED <<db, pendingSigns, sigShares, shares, recovered, voted>>
        /\ now' >= now
    <3>1. CASE Tick
      BY <1>c, <3>1 DEF Tick, store, network
    <3>2. CASE ~Tick
      <4>1. now' = now
        BY <1>11, <3>2, ZenonT(60) DEF NewTip, StartLookup, EvictEntry, FinishLookup,
                                       vars, environment
      <4>2. UNCHANGED <<db, pendingSigns, sigShares, shares, recovered, voted>>
        BY <1>11, <3>2, ZenonT(60) DEF NewTip, StartLookup, EvictEntry, FinishLookup,
                                       vars, store, network, environment
      <4> QED
        BY <1>c, <4>1, <4>2
    <3> QED
      BY <3>1, <3>2
  <2>2. VotesUntouched
    BY <2>1 DEF VotesUntouched, Signed
  <2>3. SharesUntouched
    BY <2>1 DEF SharesUntouched
  <2> QED
    BY <2>2, <2>3, IndInvFrame
<1>12. ASSUME NEW n \in Honest, NEW id \in Ids, NEW msg \in Msgs,
              NEW re \in BOOLEAN, SignSelected(n, id, msg, re)
       PROVE  IndInv'
  <2>1. SelectedQuorum[view[n]][id] \subseteq Quorums
    BY SigningAssumption DEF TypeOK
  <2> QED
    BY <1>1, <1>12, <2>1, ZenonT(60) DEF SignSelected
<1>13. ASSUME NEW n \in Honest, NEW q \in Quorums, NEW id \in Ids,
              NEW msg \in Msgs, SignByRpc(n, q, id, msg)
       PROVE  IndInv'
  BY <1>1, <1>13, ZenonT(60) DEF SignByRpc
<1> QED
  BY <1>2, <1>3, <1>4, <1>5, <1>6, <1>7, <1>8, <1>9, <1>10, <1>11, <1>12,
     <1>13 DEF Next

-----------------------------------------------------------------------------
(* The theorems.                                                           *)

\* The inductive invariant holds in every reachable state.
LEMMA IndInvHolds == Spec => []IndInv
<1>1. TypeOK /\ TypeOK' /\ IndInv /\ [Next]_vars => IndInv'
  BY IndInvStep
<1> QED
  BY <1>1, IndInvInit, TypeCorrect, PTL DEF Spec

\* What a member has signed it has voted for, and its votes for different
\* messages lie more than MaxAge apart.
LEMMA IndInvVotesOnce ==
    ASSUME TypeOK, IndInv PROVE HonestVotesOnce
<1> SUFFICES ASSUME NEW n \in Honest, NEW s1 \in Sessions, NEW s2 \in Sessions,
                    Signed(n, s1), Signed(n, s2), s1.id = s2.id, s1.msg # s2.msg
             PROVE  \E v1, v2 \in voted :
                      /\ v1.member = n /\ v1.id = s1.id /\ v1.msg = s1.msg
                      /\ v2.member = n /\ v2.id = s2.id /\ v2.msg = s2.msg
                      /\ \/ v1.time + MaxAge < v2.time
                         \/ v2.time + MaxAge < v1.time
  BY DEF HonestVotesOnce
<1>1. SignedInv /\ VoteInv
  BY DEF IndInv
<1>2. PICK v1 \in voted : v1.member = n /\ v1.id = s1.id /\ v1.msg = s1.msg
  BY <1>1, ZenonT(60) DEF SignedInv, VotedFor
<1>3. PICK v2 \in voted : v2.member = n /\ v2.id = s2.id /\ v2.msg = s2.msg
  BY <1>1, ZenonT(60) DEF SignedInv, VotedFor
<1>4. Past(v1, v2.time) \/ Past(v2, v1.time)
  BY <1>1, <1>2, <1>3, ZenonT(60) DEF VoteInv
<1> QED
  BY <1>2, <1>3, <1>4, ZenonT(60) DEF Past

\* The inductive invariant implies agreement: two signatures of one quorum on
\* one id have an honest signer in common, who votes again only after MaxAge.
LEMMA IndInvAgreement ==
    ASSUME TypeOK, IndInv PROVE RecoveredAgreement
<1> SUFFICES ASSUME NEW r1 \in recovered, NEW r2 \in recovered,
                    r1.quorum = r2.quorum, r1.id = r2.id, r1.msg # r2.msg
             PROVE  \E n \in Honest \cap MembersOf[r1.quorum] : VotedAgain(n, r1.id)
  BY ZenonT(60) DEF RecoveredAgreement
<1>1. r1 \in Sessions /\ r2 \in Sessions /\ r1.quorum \in Quorums
  BY DEF TypeOK, Sessions, RecSigs
<1>2. /\ Signers(r1) \in SUBSET MembersOf[r1.quorum]
      /\ Signers(r2) \in SUBSET MembersOf[r1.quorum]
  BY DEF Signers
<1>3. /\ Cardinality(Signers(r1)) >= Threshold[r1.quorum]
      /\ Cardinality(Signers(r2)) >= Threshold[r1.quorum]
  BY DEF IndInv, RecoveredInv
<1>4. PICK n \in Signers(r1) \cap Signers(r2) : n \in Honest
  BY <1>1, <1>2, <1>3, ThresholdSetsIntersect
<1>5. Signed(n, r1) /\ Signed(n, r2)
  BY <1>4 DEF Signers, Signed, Honest
<1>6. PICK v1 \in voted, v2 \in voted :
        /\ v1.member = n /\ v1.id = r1.id
        /\ v2.member = n /\ v2.id = r1.id
        /\ v1.time + MaxAge < v2.time \/ v2.time + MaxAge < v1.time
  <2>1. HonestVotesOnce
    BY IndInvVotesOnce
  <2> QED
    BY <1>1, <1>4, <1>5, <2>1 DEF HonestVotesOnce
<1>7. VotedAgain(n, r1.id)
  BY <1>6, ZenonT(60) DEF VotedAgain
<1> QED
  BY <1>2, <1>4, <1>7, ZenonT(60)

\* An honest masternode signs two messages for one id only if it recorded votes
\* for both that lie more than MaxAge apart, for any requests at any time and
\* any interleaving of restarts, cleanups, truncations and cache lookups.
THEOREM VotesOnce == Spec => []HonestVotesOnce
<1>1. TypeOK /\ IndInv => HonestVotesOnce
  BY IndInvVotesOnce
<1> QED
  BY <1>1, TypeCorrect, IndInvHolds, PTL

\* A quorum signs two messages for one id only if one of its honest members has
\* voted again after its first vote expired.
THEOREM Agreement == Spec => []RecoveredAgreement
<1>1. TypeOK /\ IndInv => RecoveredAgreement
  BY IndInvAgreement
<1> QED
  BY <1>1, TypeCorrect, IndInvHolds, PTL

\* A step recovers at most one new signature and withdraws none; votes are never
\* struck from the record, and a step that recovers a signature casts none.
LEMMA RecoveredStep ==
    ASSUME TypeOK, [Next]_vars
    PROVE  \/ recovered' = recovered /\ voted \subseteq voted'
           \/ voted' = voted /\ \E rs \in RecSigs : recovered' = recovered \cup {rs}
<1>1. ASSUME NEW n \in Honest, NEW s \in Sessions, NEW m \in Members,
             ProcessSigShare(n, [session |-> s, member |-> m])
      PROVE  recovered' = recovered \/ recovered' = recovered \cup {s}
  BY <1>1, ZenonT(60) DEF ProcessSigShare
<1>2. \A n \in Honest : n \in Members
  BY DEF Honest
<1>3. ASSUME NEW n, NEW q, NEW id, NEW msg, NEW re, RequestSign(n, q, id, msg, re)
      PROVE  recovered' = recovered /\ voted \subseteq voted'
  BY <1>3, ZenonT(60) DEF RequestSign, AsyncSignIfMember, network
<1>4. ASSUME NEW n \in Honest, NEW s \in Sessions,
             \/ SignPendingSigShare(n, s)
             \/ \E m \in Members : ReceiveSigShare(n, s, m)
      PROVE  voted' = voted /\ (recovered' = recovered \/ recovered' = recovered \cup {s})
  <2>1. voted' = voted
    BY <1>4, ZenonT(60) DEF SignPendingSigShare, ReceiveSigShare, environment
  <2>2. recovered' = recovered \/ recovered' = recovered \cup {s}
    BY <1>1, <1>2, <1>4, ZenonT(60) DEF SignPendingSigShare, ReceiveSigShare
  <2> QED
    BY <2>1, <2>2
<1>5. CASE \E s \in Sessions : FaultyRecover(s)
  BY <1>5, ZenonT(60) DEF FaultyRecover, environment, Sessions
<1>6. CASE \/ UNCHANGED vars
           \/ Tick
           \/ \E n \in Honest :
                 \/ \E s \in Sessions : TimeoutSession(n, s)
                 \/ \E rs \in RecSigs :
                       \/ ProcessMessageRecoveredSig(n, rs)
                       \/ ProcessPendingRecoveredSig(n, rs)
                       \/ PushReconstructedRecoveredSig(n, rs)
                       \/ ProcessPendingReconstructedRecoveredSig(n, rs)
                 \/ \E id \in Ids : Truncate(n, id)
                 \/ Cleanup(n) \/ Restart(n)
                 \/ \E key \in CacheKeys : StartLookup(n, key) \/ EvictEntry(n, key)
                 \/ \E l \in lookups[n] : FinishLookup(n, l)
                 \/ \E w \in Views : NewTip(n, w)
  <2>1. recovered' = recovered /\ voted' = voted
    BY <1>6, ZenonT(60)
       DEF vars, network, environment, TimeoutSession, ProcessMessageRecoveredSig,
           ProcessPendingRecoveredSig, PushReconstructedRecoveredSig,
           ProcessPendingReconstructedRecoveredSig, Truncate, Cleanup, Restart,
           StartLookup, EvictEntry, FinishLookup, NewTip, Tick
  <2> QED
    BY <2>1, ZenonT(60)
<1> QED
  BY <1>3, <1>4, <1>5, <1>6, ZenonT(60) DEF Next, SignSelected, SignByRpc, Sessions

\* The signing stack implements its promise: one message per quorum and id is
\* certified, until the promise for them has lapsed.
THEOREM Refinement == Spec => RefinesRecoveredOnce
<1>1. Init => Promise!Init
  BY ZenonT(60) DEF Init, Promise!Init, Lapsed, VotedAgain
<1>2. ASSUME TypeOK, TypeOK', IndInv', [Next]_vars
      PROVE  [Promise!Next]_<<recovered, Lapsed>>
  <2>1. RecoveredAgreement'
    BY <1>2, IndInvAgreement, PTL
  <2>2. CASE recovered' = recovered /\ voted \subseteq voted'
    <3>1. Lapsed \subseteq Lapsed'
      BY <2>2, ZenonT(60) DEF Lapsed, VotedAgain
    <3> QED
      BY <2>2, <3>1, ZenonT(60) DEF Promise!Next, Promise!Lapse
  <2>3. ASSUME NEW rs \in RecSigs, recovered' = recovered \cup {rs}, voted' = voted,
               rs \notin recovered
        PROVE  Promise!Next
    <3>1. Lapsed' = Lapsed
      BY <2>3, ZenonT(60) DEF Lapsed, VotedAgain
    <3>2. ASSUME NEW other \in recovered,
                 <<other.quorum, other.id>> = <<rs.quorum, rs.id>>
          PROVE  <<rs.quorum, rs.id>> \in Lapsed
      <4>1. other.quorum = rs.quorum /\ other.id = rs.id
        BY <3>2
      <4>2. other \in RecSigs /\ rs.quorum \in Quorums /\ rs.id \in Ids
        BY <1>2 DEF TypeOK, RecSigs
      <4>3. other.msg # rs.msg
        BY <2>3, <4>1, <4>2 DEF RecSigs
      <4>4. \E n \in Honest \cap MembersOf[rs.quorum] : VotedAgain(n, rs.id)'
        BY <2>1, <2>3, <4>1, <4>3, ZenonT(60) DEF RecoveredAgreement
      <4>5. \E n \in Honest \cap MembersOf[rs.quorum] : VotedAgain(n, rs.id)
        BY <2>3, <4>4, ZenonT(60) DEF VotedAgain
      <4> QED
        BY <4>2, <4>5 DEF Lapsed
    <3> QED
      BY <2>3, <3>1, <3>2, ZenonT(60) DEF Promise!Next, Promise!Certify
  <2> QED
    BY <1>2, <2>2, <2>3, RecoveredStep, ZenonT(60)
<1> QED
  BY <1>1, <1>2, TypeCorrect, IndInvHolds, PTL
     DEF Spec, RefinesRecoveredOnce, Promise!Spec

=============================================================================
