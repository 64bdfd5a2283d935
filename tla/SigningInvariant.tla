-------------------------- MODULE SigningInvariant --------------------------
(***************************************************************************)
(* The inductive invariant behind the theorems about Signing, and what the *)
(* operations do to the votes it speaks of.                                *)
(***************************************************************************)
EXTENDS SigningTypes

\* The default backend; the steps that need first-order reasoning name Zenon.
USE SMTT(60)

-----------------------------------------------------------------------------
(***************************************************************************)
(* The inductive invariant.  A member signs only what it has voted for     *)
(* (SignedInv).  A vote is in the database until it is older than MaxAge,  *)
(* so votes for different messages lie that far apart, and as an id has    *)
(* one time key at most, no cleanup takes a vote before its time           *)
(* (VoteInv).  Shares held anywhere come from real signers (ShareInv), and *)
(* every signature has Threshold signers behind it (RecoveredInv).         *)
(***************************************************************************)

VotedFor(n, id, msg) == \E v \in voted : v.member = n /\ v.id = id /\ v.msg = msg

SignedInv ==
    \A n \in Honest, s \in Sessions : Signed(n, s) => VotedFor(n, s.id, s.msg)

\* The record v is what the database of its member says.
Current(v) == /\ db[v.member].v[v.id] = v.msg
              /\ <<v.time, v.id>> \in db[v.member].vt

\* The member that cast v has been free to vote for another message since.
Past(v, time) == v.time + MaxAge < time

TimeKeysInv ==
    \A n \in Honest : \A k1 \in db[n].vt :
        /\ db[n].v[k1[2]] # NoMsg
        /\ \A k2 \in db[n].vt : k1[2] = k2[2] => k1 = k2

VoteInv ==
    /\ \A n \in Honest, id \in Ids :
          db[n].v[id] # NoMsg => VotedFor(n, id, db[n].v[id])
    /\ \A v \in voted : Current(v) \/ Past(v, now)
    /\ \A v, w \in voted : v.member = w.member /\ v.id = w.id =>
          v.msg = w.msg \/ Past(v, w.time) \/ Past(w, v.time)
    /\ TimeKeysInv

ShareInv ==
    \A n \in Honest : \A sh \in sigShares[n] : sh.member \in Signers(sh.session)

RecoveredInv ==
    \A rs \in recovered : Cardinality(Signers(rs)) >= Threshold[rs.quorum]

IndInv == SignedInv /\ VoteInv /\ ShareInv /\ RecoveredInv

-----------------------------------------------------------------------------
(* The votes.                                                              *)

\* The step neither creates shares nor schedules any, and leaves the votes alone.
VotesUntouched ==
    /\ \A n \in Honest : db'[n].v = db[n].v /\ db'[n].vt = db[n].vt
    /\ \A n \in Honest, s \in Sessions : Signed(n, s)' => Signed(n, s)
    /\ voted' = voted
    /\ now' >= now

\* Such a step preserves the invariant about votes.
LEMMA VoteFrame ==
    ASSUME TypeOK, TypeOK', SignedInv, VoteInv, VotesUntouched
    PROVE  SignedInv' /\ VoteInv'
<1>1. SignedInv'
  BY ZenonT(60) DEF SignedInv, VotesUntouched, VotedFor
<1>2. ASSUME NEW n \in Honest, NEW id \in Ids, db'[n].v[id] # NoMsg
      PROVE  VotedFor(n, id, db[n].v[id])'
  <2>1. db'[n].v[id] = db[n].v[id] /\ voted' = voted
    BY ZenonT(60) DEF VotesUntouched
  <2>2. VotedFor(n, id, db[n].v[id])
    BY <1>2, <2>1, ZenonT(60) DEF VoteInv
  <2> QED
    BY <2>1, <2>2, ZenonT(60) DEF VotedFor
<1>3. ASSUME NEW v \in voted' PROVE Current(v)' \/ Past(v, now)'
  <2>1. v \in voted /\ v.member \in Honest /\ v.time \in Nat /\ MaxAge \in Nat
    BY StoreAssumption DEF VotesUntouched, TypeOK, Votes
  <2>2. CASE Current(v)
    BY <2>1, <2>2 DEF Current, VotesUntouched
  <2>3. CASE Past(v, now)
    BY <2>1, <2>3 DEF Past, VotesUntouched, TypeOK
  <2> QED
    BY <2>1, <2>2, <2>3, ZenonT(60) DEF VoteInv
<1>4. \A v, w \in voted' : v.member = w.member /\ v.id = w.id =>
          v.msg = w.msg \/ Past(v, w.time) \/ Past(w, v.time)
  BY ZenonT(60) DEF VoteInv, VotesUntouched
<1>5. TimeKeysInv'
  BY ZenonT(60) DEF VoteInv, TimeKeysInv, VotesUntouched
<1> QED
  BY <1>1, <1>2, <1>3, <1>4, <1>5, ZenonT(60) DEF VoteInv, Past

\* Storing a recovered signature does not touch the votes.
LEMMA ProcessRecoveredSigVotes ==
    ASSUME TypeOK, NEW n \in Honest, NEW rs \in RecSigs, NEW held, NEW recon,
           ProcessRecoveredSig(n, rs, held, recon)
    PROVE  \A x \in Honest : db'[x].v = db[x].v /\ db'[x].vt = db[x].vt
<1>1. LET d == WriteRecoveredSig(db[n], rs, now)
      IN  d.v = db[n].v /\ d.vt = db[n].vt
  BY DEF WriteRecoveredSig, TypeOK, Stores
<1>2. db' = db \/ db' = [db EXCEPT ![n] = WriteRecoveredSig(db[n], rs, now)]
  BY ZenonT(60) DEF ProcessRecoveredSig
<1> QED
  BY <1>1, <1>2 DEF TypeOK

\* Processing a share does not touch the votes.
LEMMA ProcessSigShareVotes ==
    ASSUME TypeOK, NEW n \in Honest, NEW sh \in Shares, ProcessSigShare(n, sh)
    PROVE  \A x \in Honest : db'[x].v = db[x].v /\ db'[x].vt = db[x].vt
<1>1. sh.session \in RecSigs
  BY DEF Shares, Sessions
<1> QED
  BY <1>1, ProcessRecoveredSigVotes, ZenonT(60) DEF ProcessSigShare, store

\* AsyncSignIfMember signs only what it has a vote for, and votes only when its
\* earlier votes on the id are past.
LEMMA RequestVotes ==
    ASSUME TypeOK, TypeOK', SignedInv, VoteInv,
           NEW n \in Honest, NEW q \in Quorums, NEW id \in Ids, NEW msg \in Msgs,
           NEW re \in BOOLEAN, RequestSign(n, q, id, msg, re)
    PROVE  SignedInv' /\ VoteInv'
<1> DEFINE new == [quorum |-> q, id |-> id, msg |-> msg]
           vote == [member |-> n, id |-> id, msg |-> msg, time |-> now]
           d == WriteVoteForId(db[n], id, msg, now)
\* What the request does, once and for all.
<1>1. /\ now' = now
      /\ shares' = shares
      /\ pendingSigns' = [pendingSigns EXCEPT ![n] = @ \cup {new}]
      /\ HasVotedOnId(db[n], id) =>
            db[n].v[id] = msg /\ db' = db /\ voted' = voted
      /\ ~HasVotedOnId(db[n], id) =>
            db' = [db EXCEPT ![n] = d] /\ voted' = voted \cup {vote}
  BY ZenonT(60) DEF RequestSign, AsyncSignIfMember, network, MayVote, GetVoteForId
<1>2. /\ new.id = id /\ new.msg = msg
      /\ vote.member = n /\ vote.id = id /\ vote.msg = msg /\ vote.time = now
  OBVIOUS
<1>3. /\ d.v = [db[n].v EXCEPT ![id] = msg]
      /\ d.vt = db[n].vt \cup {<<now, id>>}
  BY DEF WriteVoteForId, TypeOK, Stores
<1>4. /\ db \in [Honest -> Stores] /\ voted \subseteq Votes /\ now \in Nat
      /\ db[n].v \in [Ids -> Msgs \cup {NoMsg}]
      /\ db[n].vt \in SUBSET (Nat \X Ids)
      /\ NoMsg \notin Msgs
  BY StoreAssumption DEF TypeOK, Stores
<1> HIDE DEF new, d, vote
<1>5. \A x \in Honest, s \in Sessions :
          Signed(x, s)' => Signed(x, s) \/ (x = n /\ s = new)
  BY <1>1 DEF Signed, TypeOK
<1>6. VotedFor(n, id, msg)' /\ voted \subseteq voted'
  <2>1. CASE HasVotedOnId(db[n], id)
    <3>1. db[n].v[id] = msg /\ voted' = voted
      BY <1>1, <2>1, ZenonT(60)
    <3>2. msg # NoMsg
      BY <1>4
    <3>3. VotedFor(n, id, msg)
      BY <3>1, <3>2, ZenonT(60) DEF VoteInv
    <3> QED
      BY <3>1, <3>3, ZenonT(60) DEF VotedFor
  <2>2. CASE ~HasVotedOnId(db[n], id)
    <3>1. vote \in voted' /\ voted \subseteq voted'
      BY <1>1, <2>2, ZenonT(60)
    <3> QED
      BY <1>2, <3>1, ZenonT(60) DEF VotedFor
  <2> QED
    BY <2>1, <2>2
<1>7. \A x \in Honest, i \in Ids, m \in Msgs : VotedFor(x, i, m) => VotedFor(x, i, m)'
  BY <1>6, ZenonT(60) DEF VotedFor
<1>8. SignedInv'
  <2> SUFFICES ASSUME NEW x \in Honest, NEW s \in Sessions, Signed(x, s)'
               PROVE  VotedFor(x, s.id, s.msg)'
    BY ZenonT(60) DEF SignedInv
  <2>1. s.id \in Ids /\ s.msg \in Msgs
    BY DEF Sessions, RecSigs
  <2>2. CASE Signed(x, s)
    BY <1>7, <2>1, <2>2, ZenonT(60) DEF SignedInv
  <2>3. CASE x = n /\ s = new
    BY <1>2, <1>6, <2>3, ZenonT(60)
  <2> QED
    BY <1>5, <2>2, <2>3, ZenonT(60)
<1>9. CASE HasVotedOnId(db[n], id)
  <2>1. db' = db /\ voted' = voted /\ now' = now
    BY <1>1, <1>9, ZenonT(60)
  <2>2. VoteInv'
    BY <2>1, ZenonT(60) DEF VoteInv, TimeKeysInv, VotedFor, Current, Past
  <2> QED
    BY <1>8, <2>2
<1>10. CASE ~HasVotedOnId(db[n], id)
  <2>1. /\ db' = [db EXCEPT ![n] = d] /\ voted' = voted \cup {vote}
        /\ db[n].v[id] = NoMsg
    BY <1>1, <1>10, ZenonT(60) DEF HasVotedOnId
  <2>2. db'[n] = d /\ \A x \in Honest \ {n} : db'[x] = db[x]
    BY <1>4, <2>1
  <2>3. /\ db'[n].v[id] = msg
        /\ \A i \in Ids \ {id} : db'[n].v[i] = db[n].v[i]
        /\ db'[n].vt = db[n].vt \cup {<<now, id>>}
    BY <1>3, <1>4, <2>2
  <2>4. \A k \in db[n].vt : k[2] \in Ids /\ k[2] # id
    BY <1>4, <2>1 DEF VoteInv, TimeKeysInv
  <2>5. ASSUME NEW x \in Honest, NEW i \in Ids, db'[x].v[i] # NoMsg
        PROVE  VotedFor(x, i, db[x].v[i])'
    <3>1. CASE x = n /\ i = id
      BY <1>6, <2>3, <3>1, ZenonT(60)
    <3>2. CASE ~(x = n /\ i = id)
      <4>1. db'[x].v[i] = db[x].v[i]
        BY <2>2, <2>3, <3>2, ZenonT(60)
      <4>2. db[x].v[i] \in Msgs
        BY <2>5, <4>1 DEF TypeOK, Stores
      <4> QED
        BY <1>7, <2>5, <4>1, <4>2, ZenonT(60) DEF VoteInv
    <3> QED
      BY <3>1, <3>2
  \* The earlier votes of n on id are past.
  <2>6. ASSUME NEW v \in voted, v.member = n, v.id = id PROVE Past(v, now)
    <3>1. v.msg # NoMsg
      BY <1>4 DEF Votes
    <3> QED
      BY <2>1, <2>6, <3>1, ZenonT(60) DEF VoteInv, Current
  <2>7. ASSUME NEW v \in voted' PROVE Current(v)' \/ Past(v, now')
    <3>1. CASE v = vote
      BY <1>2, <2>3, <3>1, ZenonT(60) DEF Current
    <3>2. CASE v \in voted /\ v.member = n /\ v.id = id
      BY <1>1, <2>6, <3>2, ZenonT(60)
    <3>3. CASE v \in voted /\ ~(v.member = n /\ v.id = id)
      <4>1. v.member \in Honest /\ v.id \in Ids
        BY <1>4, <3>3 DEF Votes
      <4>2. Current(v) => Current(v)'
        <5>1. db'[v.member].v[v.id] = db[v.member].v[v.id]
          BY <2>2, <2>3, <3>3, <4>1, ZenonT(60)
        <5>2. db[v.member].vt \subseteq db'[v.member].vt
          BY <2>2, <2>3, <4>1, ZenonT(60)
        <5> QED
          BY <5>1, <5>2, ZenonT(60) DEF Current
      <4> QED
        BY <1>1, <3>3, <4>2, ZenonT(60) DEF VoteInv
    <3> QED
      BY <2>1, <3>1, <3>2, <3>3, ZenonT(60)
  <2>8. ASSUME NEW v \in voted', NEW w \in voted', v.member = w.member, v.id = w.id
        PROVE  v.msg = w.msg \/ Past(v, w.time) \/ Past(w, v.time)
    <3>1. CASE v \in voted /\ w \in voted
      BY <2>8, <3>1, ZenonT(60) DEF VoteInv
    <3>2. CASE v = vote /\ w \in voted
      BY <1>2, <2>6, <2>8, <3>2, ZenonT(60)
    <3>3. CASE w = vote /\ v \in voted
      BY <1>2, <2>6, <2>8, <3>3, ZenonT(60)
    <3> QED
      BY <2>1, <3>1, <3>2, <3>3, ZenonT(60)
  <2>9. ASSUME NEW x \in Honest, NEW k1 \in db'[x].vt
        PROVE  /\ db'[x].v[k1[2]] # NoMsg
               /\ \A k2 \in db'[x].vt : k1[2] = k2[2] => k1 = k2
    <3>1. CASE x # n
      BY <2>2, <3>1, ZenonT(60) DEF VoteInv, TimeKeysInv
    <3>2. CASE x = n
      <4>1. CASE k1 \in db[n].vt
        BY <2>3, <2>4, <3>2, <4>1 DEF VoteInv, TimeKeysInv
      <4>2. CASE k1 = <<now, id>>
        BY <1>4, <2>3, <2>4, <3>2, <4>2
      <4> QED
        BY <2>3, <3>2, <4>1, <4>2, ZenonT(60)
    <3> QED
      BY <3>1, <3>2
  <2>10. TimeKeysInv'
    BY <2>9, ZenonT(60) DEF TimeKeysInv
  <2>11. VoteInv'
    BY <2>5, <2>7, <2>8, <2>10, ZenonT(60) DEF VoteInv, Past
  <2> QED
    BY <1>8, <2>11
<1> QED
  BY <1>9, <1>10

\* CleanupOldVotes forgets a vote only when it is past.
LEMMA CleanupVotes ==
    ASSUME TypeOK, TypeOK', SignedInv, VoteInv, NEW n \in Honest, Cleanup(n)
    PROVE  SignedInv' /\ VoteInv'
<1> DEFINE c == CleanupOldRecoveredSigs(db[n], now)
           d == CleanupOldVotes(c, now)
           old == Expired(db[n].vt, now)
<1>0. /\ db' = [db EXCEPT ![n] = d]
      /\ UNCHANGED <<pendingSigns, shares, voted, now>>
  BY ZenonT(60) DEF Cleanup, network, environment
<1>a. db \in [Honest -> Stores] /\ voted \subseteq Votes /\ now \in Nat /\ MaxAge \in Nat
  BY StoreAssumption DEF TypeOK
<1>1. c \in Stores /\ c.v = db[n].v /\ c.vt = db[n].vt
  BY <1>a, CleanupOldRecoveredSigsType
<1>2. /\ d.vt = db[n].vt \ old
      /\ \A i \in Ids : d.v[i] = IF \E k \in old : k[2] = i THEN NoMsg ELSE db[n].v[i]
  BY <1>1 DEF CleanupOldVotes, Stores
<1>3. db'[n] = d /\ \A x \in Honest \ {n} : db'[x] = db[x]
  BY <1>0, <1>a
<1>4. \A k \in old : k \in db[n].vt /\ k[1] \in Nat /\ k[2] \in Ids /\ k[1] < now - MaxAge
  BY DEF Expired, TypeOK, Stores
<1> HIDE DEF c, d, old
<1>5. SignedInv'
  BY <1>0, ZenonT(60) DEF SignedInv, Signed, VotedFor
<1>6. ASSUME NEW x \in Honest, NEW i \in Ids, db'[x].v[i] # NoMsg
      PROVE  VotedFor(x, i, db[x].v[i])'
  <2>1. db'[x].v[i] = db[x].v[i]
    BY <1>2, <1>3, <1>6, ZenonT(60)
  <2>2. VotedFor(x, i, db[x].v[i])
    BY <1>6, <2>1, ZenonT(60) DEF VoteInv
  <2> QED
    BY <1>0, <2>1, <2>2, ZenonT(60) DEF VotedFor
<1>7. ASSUME NEW v \in voted' PROVE Current(v)' \/ Past(v, now')
  <2>1. v \in voted /\ v.member \in Honest /\ v.id \in Ids /\ v.time \in Nat
    BY <1>0, <1>a DEF Votes
  <2>2. CASE Past(v, now)
    BY <1>0, <2>2, ZenonT(60)
  <2>3. CASE Current(v) /\ v.member # n
    BY <1>3, <2>1, <2>3, ZenonT(60) DEF Current
  <2>4. CASE Current(v) /\ v.member = n
    <3>1. CASE <<v.time, v.id>> \in old
      <4>1. v.time < now - MaxAge
        BY <1>4, <3>1
      <4> QED
        BY <1>0, <1>a, <2>1, <4>1 DEF Past
    <3>2. CASE <<v.time, v.id>> \notin old
      <4>1. <<v.time, v.id>> \in db[n].vt /\ <<v.time, v.id>>[2] = v.id
        BY <2>4 DEF Current
      <4>2. ASSUME NEW k \in old, k[2] = v.id PROVE FALSE
        <5>1. k \in db[n].vt
          BY <1>4
        <5>2. k = <<v.time, v.id>>
          BY <4>1, <4>2, <5>1, ZenonT(60) DEF VoteInv, TimeKeysInv
        <5> QED
          BY <3>2, <4>2, <5>2, ZenonT(60)
      <4>3. d.v[v.id] = db[n].v[v.id] /\ <<v.time, v.id>> \in d.vt
        BY <1>2, <2>1, <3>2, <4>1, <4>2, ZenonT(60)
      <4> QED
        BY <1>3, <2>4, <4>3, ZenonT(60) DEF Current
    <3> QED
      BY <3>1, <3>2
  <2> QED
    BY <2>1, <2>2, <2>3, <2>4, ZenonT(60) DEF VoteInv
<1>8. ASSUME NEW x \in Honest, NEW k1 \in db'[x].vt
      PROVE  /\ db'[x].v[k1[2]] # NoMsg
             /\ \A k2 \in db'[x].vt : k1[2] = k2[2] => k1 = k2
  <2>1. k1 \in db[x].vt /\ db'[x].vt \subseteq db[x].vt
    BY <1>2, <1>3, ZenonT(60)
  <2>2. \A k2 \in db'[x].vt : k1[2] = k2[2] => k1 = k2
    BY <2>1, ZenonT(60) DEF VoteInv, TimeKeysInv
  <2>3. db[x].v[k1[2]] # NoMsg
    BY <2>1, ZenonT(60) DEF VoteInv, TimeKeysInv
  <2>4. CASE x # n
    BY <1>3, <2>2, <2>3, <2>4, ZenonT(60)
  <2>5. CASE x = n
    <3>1. k1 \notin old /\ k1[2] \in Ids
      BY <1>2, <1>3, <2>1, <2>5 DEF TypeOK, Stores
    <3>2. ASSUME NEW k \in old, k[2] = k1[2] PROVE FALSE
      BY <1>4, <2>1, <2>5, <3>1, <3>2, ZenonT(60) DEF VoteInv, TimeKeysInv
    <3> QED
      BY <1>2, <1>3, <2>2, <2>3, <2>5, <3>1, <3>2, ZenonT(60)
  <2> QED
    BY <2>4, <2>5
<1>9. TimeKeysInv'
  BY <1>8, ZenonT(60) DEF TimeKeysInv
<1>10. \A v, w \in voted' : v.member = w.member /\ v.id = w.id =>
          v.msg = w.msg \/ Past(v, w.time) \/ Past(w, v.time)
  BY <1>0, ZenonT(60) DEF VoteInv
<1>11. VoteInv'
  BY <1>6, <1>7, <1>9, <1>10, ZenonT(60) DEF VoteInv, Past
<1> QED
  BY <1>5, <1>11

=============================================================================
