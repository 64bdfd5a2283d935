---------------------------- MODULE SigningTypes ----------------------------
(***************************************************************************)
(* Type correctness of Signing, for every value of its constants.          *)
(***************************************************************************)
EXTENDS Signing, TLAPS

\* The default backend; the steps that need first-order reasoning name Zenon.
USE SMTT(60)

-----------------------------------------------------------------------------
(* The database operations preserve the shape of the database.             *)

\* The initial database is well formed.
LEMMA EmptyStoreType == EmptyStore \in Stores
BY StoreAssumption DEF EmptyStore, Stores

\* WriteRecoveredSig writes a well-formed database.
LEMMA WriteRecoveredSigType ==
    ASSUME NEW d \in Stores, NEW rs \in RecSigs, NEW time \in Nat
    PROVE  WriteRecoveredSig(d, rs, time) \in Stores
<1>1. rs.id \in Ids /\ rs.msg \in Msgs
  BY DEF RecSigs
<1>2. /\ [d.r EXCEPT ![rs.id] = rs] \in [Ids -> RecSigs \cup {NoRecSig}]
      /\ d.m \cup {<<rs.id, rs.msg>>} \in SUBSET (Ids \X Msgs)
      /\ d.h \cup {rs} \in SUBSET RecSigs
      /\ d.s \cup {rs} \in SUBSET RecSigs
      /\ d.t \cup {<<time, rs.id>>} \in SUBSET (Nat \X Ids)
  BY <1>1 DEF Stores
<1> QED
  BY <1>2, ZenonT(60) DEF WriteRecoveredSig, Stores

\* RemoveRecoveredSig, for any set of ids, leaves a well-formed database.
LEMMA RemoveRecoveredSigsType ==
    ASSUME NEW d \in Stores, NEW ids, NEW b \in BOOLEAN
    PROVE  RemoveRecoveredSigs(d, ids, b) \in Stores
BY ZenonT(60) DEF RemoveRecoveredSigs, Readable, Stores, RecSigs

\* CleanupOldRecoveredSigs leaves a well-formed database and the votes alone.
LEMMA CleanupOldRecoveredSigsType ==
    ASSUME NEW d \in Stores, NEW time \in Nat
    PROVE  /\ CleanupOldRecoveredSigs(d, time) \in Stores
           /\ CleanupOldRecoveredSigs(d, time).v = d.v
           /\ CleanupOldRecoveredSigs(d, time).vt = d.vt
<1> DEFINE old == Expired(d.t, time)
           rem == RemoveRecoveredSigs(d, ExpiredIds(d, time), TRUE)
<1>1. rem \in Stores
  BY RemoveRecoveredSigsType, ZenonT(60)
<1>2. rem.v = d.v /\ rem.vt = d.vt /\ rem.t = d.t
  BY DEF RemoveRecoveredSigs, Stores
<1>3. CleanupOldRecoveredSigs(d, time) = [rem EXCEPT !.t = rem.t \ old]
  BY <1>2, ZenonT(60) DEF CleanupOldRecoveredSigs
<1> QED
  BY <1>1, <1>2, <1>3, ZenonT(60) DEF Stores

\* RemoveRecoveredSig only erases cache entries.
LEMMA CacheAfterRemoveType ==
    ASSUME NEW d, NEW wrong \in SUBSET CacheKeys, NEW ids, NEW b \in BOOLEAN
    PROVE  CacheAfterRemove(d, wrong, ids, b) \in SUBSET CacheKeys
<1> DEFINE gone == Readable(d, ids)
           known == {rs.id : rs \in gone}
           hashes == IF b THEN gone ELSE {}
<1>1. CacheAfterRemove(d, wrong, ids, b) = (wrong \ known) \ hashes
  BY ZenonT(60) DEF CacheAfterRemove
<1> HIDE DEF known, hashes
<1> QED
  BY <1>1

\* WriteVoteForId writes a well-formed database.
LEMMA WriteVoteForIdType ==
    ASSUME NEW d \in Stores, NEW id \in Ids, NEW msg \in Msgs, NEW time \in Nat
    PROVE  WriteVoteForId(d, id, msg, time) \in Stores
<1>1. /\ [d.v EXCEPT ![id] = msg] \in [Ids -> Msgs \cup {NoMsg}]
      /\ d.vt \cup {<<time, id>>} \in SUBSET (Nat \X Ids)
  BY DEF Stores
<1> QED
  BY <1>1, ZenonT(60) DEF WriteVoteForId, Stores

\* CleanupOldVotes leaves a well-formed database.
LEMMA CleanupOldVotesType ==
    ASSUME NEW d \in Stores, NEW time \in Nat
    PROVE  CleanupOldVotes(d, time) \in Stores
BY ZenonT(60) DEF CleanupOldVotes, Stores

-----------------------------------------------------------------------------
(* Type correctness.                                                       *)

\* ProcessRecoveredSig keeps the types of what it changes.
LEMMA ProcessRecoveredSigType ==
    ASSUME TypeOK, NEW n \in Honest, NEW rs \in RecSigs,
           NEW held \in SUBSET Shares, NEW recon \in SUBSET RecSigs,
           ProcessRecoveredSig(n, rs, held, recon)
    PROVE  /\ db' \in [Honest -> Stores]
           /\ cache' \in [Honest -> SUBSET CacheKeys]
           /\ sigShares' \in [Honest -> SUBSET Shares]
           /\ pendingReconstructedRecoveredSigs' \in [Honest -> SUBSET RecSigs]
<1>1. WriteRecoveredSig(db[n], rs, now) \in Stores
  BY WriteRecoveredSigType DEF TypeOK
<1>2. held \ SharesFor(held, rs) \in SUBSET Shares
  OBVIOUS
<1>3. CacheAfterWrite(cache[n], rs) \in SUBSET CacheKeys
  BY DEF TypeOK, CacheAfterWrite
<1> QED
  BY <1>1, <1>2, <1>3 DEF TypeOK, ProcessRecoveredSig

\* ProcessSigShare keeps the types of what it changes.
LEMMA ProcessSigShareType ==
    ASSUME TypeOK, NEW n \in Honest, NEW sh \in Shares, ProcessSigShare(n, sh)
    PROVE  /\ db' \in [Honest -> Stores]
           /\ cache' \in [Honest -> SUBSET CacheKeys]
           /\ sigShares' \in [Honest -> SUBSET Shares]
           /\ pendingReconstructedRecoveredSigs' \in [Honest -> SUBSET RecSigs]
           /\ recovered' \subseteq RecSigs
<1> DEFINE s == sh.session
           held == sigShares[n] \cup {sh}
<1>1. s \in RecSigs /\ held \in SUBSET Shares
  BY DEF TypeOK, Shares, Sessions
<1>2. CASE UNCHANGED <<store, sigShares, pendingReconstructedRecoveredSigs, recovered>>
  BY <1>2 DEF TypeOK, store
<1>3. CASE /\ recovered' = recovered \cup {s}
           /\ ProcessRecoveredSig(n, s, held, pendingReconstructedRecoveredSigs[n])
  <2>1. pendingReconstructedRecoveredSigs[n] \in SUBSET RecSigs
    BY DEF TypeOK
  <2> QED
    BY <1>1, <1>3, <2>1, ProcessRecoveredSigType, ZenonT(60) DEF TypeOK
<1>4. CASE /\ sigShares' = [sigShares EXCEPT ![n] = held]
           /\ UNCHANGED <<store, pendingReconstructedRecoveredSigs, recovered>>
  BY <1>1, <1>4 DEF TypeOK, store
<1> QED
  BY <1>2, <1>3, <1>4 DEF ProcessSigShare

\* The variables have their types in every reachable state.
THEOREM TypeCorrect == Spec => []TypeOK
<1>1. Init => TypeOK
  BY EmptyStoreType DEF Init, TypeOK
<1>2. TypeOK /\ [Next]_vars => TypeOK'
  <2> SUFFICES ASSUME TypeOK, [Next]_vars PROVE TypeOK'
    OBVIOUS
  <2> USE DEF store, reading, network, environment
  <2>1. ASSUME NEW n \in Honest, NEW q \in Quorums, NEW id \in Ids,
               NEW msg \in Msgs, NEW re \in BOOLEAN,
               RequestSign(n, q, id, msg, re)
        PROVE  TypeOK'
    <3>1. WriteVoteForId(db[n], id, msg, now) \in Stores
      BY WriteVoteForIdType DEF TypeOK
    <3>2. [quorum |-> q, id |-> id, msg |-> msg] \in Sessions
      BY DEF Sessions, RecSigs
    <3>3. [member |-> n, id |-> id, msg |-> msg, time |-> now] \in Votes
      BY DEF TypeOK, Votes
    <3> QED
      BY <2>1, <3>1, <3>2, <3>3 DEF TypeOK, RequestSign, AsyncSignIfMember
  <2>2. ASSUME NEW n \in Honest, NEW s \in Sessions, SignPendingSigShare(n, s)
        PROVE  TypeOK'
    <3> DEFINE sh == [session |-> s, member |-> n]
    <3>1. sh \in Shares
      BY DEF Shares, Honest
    <3>2. CASE shares' = shares \cup {sh} /\ ProcessSigShare(n, sh)
      BY <2>2, <3>1, <3>2, ProcessSigShareType DEF TypeOK, SignPendingSigShare
    <3>3. CASE UNCHANGED <<shares, store, sigShares,
                           pendingReconstructedRecoveredSigs, recovered>>
      BY <2>2, <3>3 DEF TypeOK, SignPendingSigShare
    <3> QED
      BY <2>2, <3>2, <3>3 DEF SignPendingSigShare
  <2>3. ASSUME NEW n \in Honest, NEW s \in Sessions, NEW m \in Members,
               ReceiveSigShare(n, s, m)
        PROVE  TypeOK'
    <3>1. [session |-> s, member |-> m] \in Shares
      BY DEF Shares
    <3> QED
      BY <2>3, <3>1, ProcessSigShareType DEF TypeOK, ReceiveSigShare
  <2>4. ASSUME NEW n \in Honest, NEW s \in Sessions, TimeoutSession(n, s)
        PROVE  TypeOK'
    BY <2>4 DEF TypeOK, TimeoutSession, Disrupt
  <2>5. ASSUME NEW s \in Sessions, FaultyRecover(s)
        PROVE  TypeOK'
    BY <2>5 DEF TypeOK, FaultyRecover, Sessions
  <2>6. ASSUME NEW n \in Honest, NEW rs \in RecSigs,
               ProcessMessageRecoveredSig(n, rs)
        PROVE  TypeOK'
    BY <2>6 DEF TypeOK, ProcessMessageRecoveredSig
  <2>7. ASSUME NEW n \in Honest, NEW rs \in RecSigs,
               ProcessPendingRecoveredSig(n, rs)
        PROVE  TypeOK'
    <3>1. sigShares[n] \in SUBSET Shares
          /\ pendingReconstructedRecoveredSigs[n] \in SUBSET RecSigs
      BY DEF TypeOK
    <3>2. CASE ProcessRecoveredSig(n, rs, sigShares[n],
                                   pendingReconstructedRecoveredSigs[n])
      BY <2>7, <3>1, <3>2, ProcessRecoveredSigType, ZenonT(60)
         DEF TypeOK, ProcessPendingRecoveredSig
    <3>3. CASE UNCHANGED <<store, sigShares, pendingReconstructedRecoveredSigs>>
      BY <2>7, <3>3 DEF TypeOK, ProcessPendingRecoveredSig
    <3> QED
      BY <2>7, <3>2, <3>3 DEF ProcessPendingRecoveredSig
  <2>8. ASSUME NEW n \in Honest, NEW rs \in RecSigs,
               PushReconstructedRecoveredSig(n, rs)
        PROVE  TypeOK'
    BY <2>8 DEF TypeOK, PushReconstructedRecoveredSig
  <2>9. ASSUME NEW n \in Honest, NEW rs \in RecSigs,
               ProcessPendingReconstructedRecoveredSig(n, rs)
        PROVE  TypeOK'
    <3>1. sigShares[n] \in SUBSET Shares
          /\ pendingReconstructedRecoveredSigs[n] \ {rs} \in SUBSET RecSigs
      BY DEF TypeOK
    <3> QED
      BY <2>9, <3>1, ProcessRecoveredSigType, ZenonT(60)
         DEF TypeOK, ProcessPendingReconstructedRecoveredSig
  <2>10. ASSUME NEW n \in Honest, NEW id \in Ids, Truncate(n, id)
         PROVE  TypeOK'
    <3>1. TruncateRecoveredSig(db[n], id) \in Stores
      BY RemoveRecoveredSigsType, ZenonT(60) DEF TypeOK, TruncateRecoveredSig
    <3>2. cache[n] \in SUBSET CacheKeys
      BY DEF TypeOK
    <3>3. PICK left \in SUBSET CacheKeys : cache' = [cache EXCEPT ![n] = left]
      BY <2>10, <3>2, CacheAfterRemoveType, ZenonT(60) DEF Truncate
    <3>4. /\ db' = [db EXCEPT ![n] = TruncateRecoveredSig(db[n], id)]
          /\ disruptions' = disruptions + 1
          /\ UNCHANGED <<lookups, overtaken, view, pendingSigns, sigShares,
                         pendingRecoveredSigs, pendingReconstructedRecoveredSigs,
                         shares, recovered, voted, now>>
      BY <2>10, ZenonT(60) DEF Truncate, Disrupt
    <3> QED
      BY <3>1, <3>3, <3>4 DEF TypeOK
  <2>11. ASSUME NEW n \in Honest, Cleanup(n)
         PROVE  TypeOK'
    <3>1. CleanupOldVotes(CleanupOldRecoveredSigs(db[n], now), now) \in Stores
      BY CleanupOldRecoveredSigsType, CleanupOldVotesType DEF TypeOK
    <3>2. cache[n] \in SUBSET CacheKeys
      BY DEF TypeOK
    <3>3. PICK left \in SUBSET CacheKeys : cache' = [cache EXCEPT ![n] = left]
      BY <2>11, <3>2, CacheAfterRemoveType, ZenonT(60) DEF Cleanup
    <3>4. /\ db' = [db EXCEPT ![n] =
                       CleanupOldVotes(CleanupOldRecoveredSigs(db[n], now), now)]
          /\ UNCHANGED <<lookups, overtaken, view, pendingSigns, sigShares,
                         pendingRecoveredSigs, pendingReconstructedRecoveredSigs,
                         shares, recovered, voted, now, disruptions>>
      BY <2>11, ZenonT(60) DEF Cleanup
    <3> QED
      BY <3>1, <3>3, <3>4 DEF TypeOK
  <2>12. ASSUME NEW n \in Honest, Restart(n)
         PROVE  TypeOK'
    BY <2>12 DEF TypeOK, Restart, Disrupt
  <2>13. ASSUME NEW n \in Honest, NEW w \in Views, NewTip(n, w)
         PROVE  TypeOK'
    BY <2>13 DEF TypeOK, NewTip
  <2>14. CASE Tick
    BY <2>14 DEF TypeOK, Tick
  <2>15. CASE UNCHANGED vars
    BY <2>15 DEF TypeOK, vars
  <2>16. ASSUME NEW n \in Honest, NEW id \in Ids, NEW msg \in Msgs,
                NEW re \in BOOLEAN, SignSelected(n, id, msg, re)
         PROVE  TypeOK'
    <3>1. SelectedQuorum[view[n]][id] \subseteq Quorums
      BY SigningAssumption DEF TypeOK
    <3> QED
      BY <2>1, <2>16, <3>1, ZenonT(60) DEF SignSelected
  <2>17. ASSUME NEW n \in Honest, NEW q \in Quorums, NEW id \in Ids,
                NEW msg \in Msgs, SignByRpc(n, q, id, msg)
         PROVE  TypeOK'
    BY <2>1, <2>17, ZenonT(60) DEF SignByRpc
  <2>18. ASSUME NEW n \in Honest, NEW key \in CacheKeys, StartLookup(n, key)
         PROVE  TypeOK'
    <3>1. [key |-> key, answer |-> InDatabase(db[n], key)] \in Lookups
      <4>1. InDatabase(db[n], key) \in BOOLEAN
        BY ZenonT(60) DEF InDatabase
      <4> QED
        BY <4>1, ZenonT(60) DEF Lookups
    <3> QED
      BY <2>18, <3>1 DEF TypeOK, StartLookup, Disrupt
  <2>19. ASSUME NEW n \in Honest, NEW l \in lookups[n], FinishLookup(n, l)
         PROVE  TypeOK'
    <3>1. InsertAnswer(db[n], cache[n], l.key, l.answer) \in SUBSET CacheKeys
      BY DEF TypeOK, InsertAnswer, Lookups
    <3>2. /\ lookups' = [lookups EXCEPT ![n] = @ \ {l}]
          /\ cache' = [cache EXCEPT ![n] =
                          InsertAnswer(db[n], cache[n], l.key, l.answer)]
          /\ overtaken' \in {overtaken, overtaken \cup {n}}
          /\ UNCHANGED <<db, view, pendingSigns, sigShares, pendingRecoveredSigs,
                         pendingReconstructedRecoveredSigs, shares, recovered,
                         voted, now, disruptions>>
      BY <2>19, ZenonT(60) DEF FinishLookup
    <3> QED
      BY <3>1, <3>2 DEF TypeOK
  <2>20. ASSUME NEW n \in Honest, NEW key \in CacheKeys, EvictEntry(n, key)
         PROVE  TypeOK'
    BY <2>20 DEF TypeOK, EvictEntry
  <2> QED
    BY <2>2, <2>3, <2>4, <2>5, <2>6, <2>7, <2>8, <2>9, <2>10, <2>11, <2>12,
       <2>13, <2>14, <2>15, <2>16, <2>17, <2>18, <2>19, <2>20 DEF Next
<1> QED
  BY <1>1, <1>2, PTL DEF Spec

=============================================================================
