------------------------------- MODULE Signing -------------------------------
(***************************************************************************)
(* Threshold signing by LLMQs: CSigningManager (llmq/signing.cpp) and the  *)
(* share creation and recovery half of CSigSharesManager                   *)
(* (llmq/signing_shares.cpp), for a network of masternodes.                *)
(*                                                                         *)
(* A masternode asked to sign (id, msg) records its vote in its database,  *)
(* creates a signature share and sends it around.  Whoever holds Threshold *)
(* shares of one session (quorum, id, msg) recovers the quorum's signature *)
(* and spreads it.  Shares and recovered signatures travel through an      *)
(* unreliable network: one that exists may reach a node never, late, or    *)
(* many times.  (How shares are announced and requested is left out here.) *)
(***************************************************************************)
EXTENDS RecSigsStore, FiniteSets

CONSTANTS
    Members,        \* the masternodes
    Faulty,         \* those that do not follow the protocol
    MembersOf,      \* MembersOf[q]: the valid members of quorum q
    KeyHolders,     \* KeyHolders[q]: those that have their secret key share
    Threshold,      \* Threshold[q]: shares needed to recover (params.threshold)
    Views,          \* what a node's chain tip says about the quorums
    SelectedQuorum, \* SelectedQuorum[view][id]: {SelectQuorumForSigning}, or {}
    ActiveQuorums,  \* ActiveQuorums[view]: the quorums IsQuorumActive accepts
    MaxTime,        \* bound on the clock
    MaxDisruptions, \* bound on restarts, timeouts, truncations and slow lookups
    MaxPending      \* bound on the two queues of recovered signatures of a node

Honest == Members \ Faulty

Sessions == RecSigs     \* a session is identified by its sign hash

ASSUME SigningAssumption ==
    /\ Faulty \subseteq Members
    /\ MembersOf \in [Quorums -> SUBSET Members]
    /\ KeyHolders \in [Quorums -> SUBSET Members]
    /\ Threshold \in [Quorums -> Nat]
    /\ SelectedQuorum \in [Views -> [Ids -> SUBSET Quorums]]
    /\ ActiveQuorums \in [Views -> SUBSET Quorums]
    /\ MaxTime \in Nat
    /\ MaxDisruptions \in Nat
    /\ MaxPending \in Nat

\* Two threshold sets of one quorum overlap in more than its faulty members.
ASSUME QuorumAssumption ==
    \A q \in Quorums :
        /\ IsFiniteSet(MembersOf[q])
        /\ 2 * Threshold[q] > Cardinality(MembersOf[q])
                                + Cardinality(MembersOf[q] \cap Faulty)

VARIABLES
    db,             \* db[n]: the signing database of node n, survives restarts
    cache,          \* cache[n]: the keys whose cache entry is wrong
    lookups,        \* lookups[n]: answers read from db[n], not in the cache yet
    overtaken,      \* nodes where such an answer was wrong when it was cached
    view,           \* view[n]: the chain tip of n
    pendingSigns,   \* pendingSigns[n]: sessions to create a share for
    sigShares,      \* sigShares[n]: the verified shares n holds
    pendingRecoveredSigs,               \* incoming, not verified yet
    pendingReconstructedRecoveredSigs,  \* taken from another valid message
    shares,         \* every share an honest member has created
    recovered,      \* every quorum signature that exists
    voted,          \* every vote an honest member has recorded, also forgotten ones
    now,            \* the clock
    disruptions     \* number of disruptions so far, see MaxDisruptions

vars == <<db, cache, lookups, overtaken, view, pendingSigns, sigShares,
          pendingRecoveredSigs, pendingReconstructedRecoveredSigs, shares,
          recovered, voted, now, disruptions>>

store == <<db, cache>>
reading == <<lookups, overtaken>>
network == <<shares, recovered>>
environment == <<view, voted, now>>

Shares == [session : Sessions, member : Members]

Votes == [member : Honest, id : Ids, msg : Msgs, time : Nat]

Lookups == [key : CacheKeys, answer : BOOLEAN]

TypeOK ==
    /\ db \in [Honest -> Stores]
    /\ cache \in [Honest -> SUBSET CacheKeys]
    /\ lookups \in [Honest -> SUBSET Lookups]
    /\ overtaken \subseteq Honest
    /\ view \in [Honest -> Views]
    /\ pendingSigns \in [Honest -> SUBSET Sessions]
    /\ sigShares \in [Honest -> SUBSET Shares]
    /\ pendingRecoveredSigs \in [Honest -> SUBSET RecSigs]
    /\ pendingReconstructedRecoveredSigs \in [Honest -> SUBSET RecSigs]
    /\ shares \subseteq Shares
    /\ recovered \subseteq RecSigs
    /\ voted \subseteq Votes
    /\ now \in Nat
    /\ disruptions \in Nat

Init ==
    /\ db = [n \in Honest |-> EmptyStore]
    /\ cache = [n \in Honest |-> {}]
    /\ lookups = [n \in Honest |-> {}]
    /\ overtaken = {}
    /\ view \in [Honest -> Views]
    /\ pendingSigns = [n \in Honest |-> {}]
    /\ sigShares = [n \in Honest |-> {}]
    /\ pendingRecoveredSigs = [n \in Honest |-> {}]
    /\ pendingReconstructedRecoveredSigs = [n \in Honest |-> {}]
    /\ shares = {}
    /\ recovered = {}
    /\ voted = {}
    /\ now = 0
    /\ disruptions = 0

-----------------------------------------------------------------------------
(* Shares and recovery.                                                    *)

\* The members whose share of session s can be obtained: honest ones that
\* created it, and faulty ones, who sign anything.
Signers(s) == {m \in MembersOf[s.quorum] :
                  m \in Faulty \/ [session |-> s, member |-> m] \in shares}

SharesFor(held, s) == {sh \in held : sh.session = s}

\* Mutant: only looks the signature up by its hash.
ProcessRecoveredSigByHashOnly(n, rs, held, recon) ==
    LET known == HasRecoveredSigForHash(db[n], cache[n], rs)
    IN  /\ db' = IF known THEN db
                 ELSE [db EXCEPT ![n] = WriteRecoveredSig(@, rs, now)]
        /\ cache' = IF known THEN cache
                    ELSE [cache EXCEPT ![n] = CacheAfterWrite(@, rs)]
        /\ sigShares' = [sigShares EXCEPT ![n] =
                            IF known THEN held ELSE held \ SharesFor(held, rs)]
        /\ pendingReconstructedRecoveredSigs' =
             [pendingReconstructedRecoveredSigs EXCEPT ![n] =
                IF known THEN recon ELSE recon \ {rs}]

\* CSigningManager::ProcessRecoveredSig followed by its listener
\* CSigSharesManager::HandleNewRecoveredSig, which drops the session.  held and
\* recon are the shares and the reconstructed signatures n has at that point.
\* A signature that is said to be there for the id but cannot be read is taken
\* for one that is not there.
ProcessRecoveredSig(n, rs, held, recon) ==
    LET known == \/ HasRecoveredSigForHash(db[n], cache[n], rs)
                 \/ /\ HasRecoveredSigForId(db[n], cache[n], rs.id)
                    /\ ReadRecoveredSig(db[n], rs.id) # NoRecSig
    IN  /\ db' = IF known THEN db
                 ELSE [db EXCEPT ![n] = WriteRecoveredSig(@, rs, now)]
        /\ cache' = IF known THEN cache
                    ELSE [cache EXCEPT ![n] = CacheAfterWrite(@, rs)]
        /\ sigShares' = [sigShares EXCEPT ![n] =
                            IF known THEN held ELSE held \ SharesFor(held, rs)]
        /\ pendingReconstructedRecoveredSigs' =
             [pendingReconstructedRecoveredSigs EXCEPT ![n] =
                IF known THEN recon ELSE recon \ {rs}]

\* Mutant: waits for one share too many.
ProcessSigShareLate(n, sh) ==
    LET s == sh.session
        held == sigShares[n] \cup {sh}
    IN  IF HasRecoveredSigForId(db[n], cache[n], s.id) \/ sh \in sigShares[n]
        THEN UNCHANGED <<store, sigShares, pendingReconstructedRecoveredSigs,
                         recovered>>
        ELSE IF Cardinality(SharesFor(held, s)) > Threshold[s.quorum]
        THEN /\ recovered' = recovered \cup {s}
             /\ ProcessRecoveredSig(n, s, held,
                                    pendingReconstructedRecoveredSigs[n])
        ELSE /\ sigShares' = [sigShares EXCEPT ![n] = held]
             /\ UNCHANGED <<store, pendingReconstructedRecoveredSigs, recovered>>

\* CSigSharesManager::ProcessSigShare and TryRecoverSig.
ProcessSigShare(n, sh) ==
    LET s == sh.session
        held == sigShares[n] \cup {sh}
    IN  IF HasRecoveredSigForId(db[n], cache[n], s.id) \/ sh \in sigShares[n]
        THEN UNCHANGED <<store, sigShares, pendingReconstructedRecoveredSigs,
                         recovered>>
        ELSE IF Cardinality(SharesFor(held, s)) >= Threshold[s.quorum]
        THEN /\ recovered' = recovered \cup {s}
             /\ ProcessRecoveredSig(n, s, held,
                                    pendingReconstructedRecoveredSigs[n])
        ELSE /\ sigShares' = [sigShares EXCEPT ![n] = held]
             /\ UNCHANGED <<store, pendingReconstructedRecoveredSigs, recovered>>

\* CSigSharesManager::SignPendingSigShares for one pending session.  The share
\* may leave the node even if ProcessSigShare finds a recovered signature (the
\* signed session of an all-members-connected quorum is still sent out).
SignPendingSigShare(n, s) ==
    /\ s \in pendingSigns[n]
    /\ pendingSigns' = [pendingSigns EXCEPT ![n] = @ \ {s}]
    /\ IF n \in MembersOf[s.quorum] \cap KeyHolders[s.quorum]
       THEN LET sh == [session |-> s, member |-> n]
            IN  /\ shares' = shares \cup {sh}
                /\ ProcessSigShare(n, sh)
       ELSE UNCHANGED <<shares, store, sigShares,
                        pendingReconstructedRecoveredSigs, recovered>>
    /\ UNCHANGED <<reading, pendingRecoveredSigs, environment, disruptions>>

\* A share of member m reaches n and is verified: ProcessMessageSigShare or
\* ProcessMessageBatchedSigShares, then ProcessPendingSigShares.
ReceiveSigShare(n, s, m) ==
    /\ s.quorum \in ActiveQuorums[view[n]]
    /\ n \in MembersOf[s.quorum]
    /\ m \in Signers(s)
    /\ ProcessSigShare(n, [session |-> s, member |-> m])
    /\ UNCHANGED <<reading, pendingSigns, pendingRecoveredSigs, shares,
                   environment, disruptions>>

\* A faulty member recovers a signature from the shares it was sent.
FaultyRecover(s) ==
    /\ Cardinality(Signers(s)) >= Threshold[s.quorum]
    /\ Faulty # {}
    /\ recovered' = recovered \cup {s}
    /\ UNCHANGED <<store, reading, pendingSigns, sigShares,
                   pendingRecoveredSigs, pendingReconstructedRecoveredSigs,
                   shares, environment, disruptions>>

-----------------------------------------------------------------------------
(* Requests.                                                               *)

\* Mutant: a caller that allows to sign again may change the vote.
MayVoteAgain(n, id, msg, allowReSign) ==
    HasVotedOnId(db[n], id) => allowReSign

\* The vote of n allows it to sign msg: it has not voted on id, or it voted for
\* this very msg and the caller allows to sign again.
MayVote(n, id, msg, allowReSign) ==
    HasVotedOnId(db[n], id) => GetVoteForId(db[n], id) = msg /\ allowReSign

\* Mutant: a request that allows to sign again leaves no vote behind.
AsyncSignIfMemberNoVote(n, q, id, msg, allowReSign) ==
    LET s == [quorum |-> q, id |-> id, msg |-> msg]
    IN  /\ n \in MembersOf[q]
        /\ MayVote(n, id, msg, allowReSign)
        /\ ~HasRecoveredSigForId(db[n], cache[n], id)
        /\ IF HasVotedOnId(db[n], id) \/ allowReSign THEN UNCHANGED <<db, voted>>
           ELSE /\ db' = [db EXCEPT ![n] = WriteVoteForId(@, id, msg, now)]
                /\ voted' = voted \cup {[member |-> n, id |-> id, msg |-> msg,
                                         time |-> now]}
        /\ pendingSigns' = [pendingSigns EXCEPT ![n] = @ \cup {s}]

\* CSigningManager::AsyncSignIfMember, up to and including AsyncSign.
AsyncSignIfMember(n, q, id, msg, allowReSign) ==
    LET s == [quorum |-> q, id |-> id, msg |-> msg]
    IN  /\ n \in MembersOf[q]
        /\ MayVote(n, id, msg, allowReSign)
        /\ ~HasRecoveredSigForId(db[n], cache[n], id)
        /\ IF HasVotedOnId(db[n], id) THEN UNCHANGED <<db, voted>>
           ELSE /\ db' = [db EXCEPT ![n] = WriteVoteForId(@, id, msg, now)]
                /\ voted' = voted \cup {[member |-> n, id |-> id, msg |-> msg,
                                         time |-> now]}
        /\ pendingSigns' = [pendingSigns EXCEPT ![n] = @ \cup {s}]

\* A caller asks n to sign.  q is the quorum n selects for id, or any quorum
\* when the quorumHash is given (the "quorum sign" RPC).  Nothing limits how
\* often, how late or for which messages the callers ask.
RequestSign(n, q, id, msg, allowReSign) ==
    /\ AsyncSignIfMember(n, q, id, msg, allowReSign)
    /\ UNCHANGED <<cache, reading, view, sigShares, pendingRecoveredSigs,
                   pendingReconstructedRecoveredSigs, network, now,
                   disruptions>>

SignSelected(n, id, msg, allowReSign) ==
    \E q \in SelectedQuorum[view[n]][id] : RequestSign(n, q, id, msg, allowReSign)

SignByRpc(n, q, id, msg) == RequestSign(n, q, id, msg, FALSE)

-----------------------------------------------------------------------------
(* Recovered signatures from peers.                                        *)

\* The queues of the real node have no limit.
QueuesHaveRoom(n) ==
    Cardinality(pendingRecoveredSigs[n]) +
    Cardinality(pendingReconstructedRecoveredSigs[n]) < MaxPending

\* CSigningManager::ProcessMessageRecoveredSig.  The message is not verified
\* yet, so rs need not be a signature that exists.
ProcessMessageRecoveredSig(n, rs) ==
    /\ QueuesHaveRoom(n)
    /\ rs.quorum \in ActiveQuorums[view[n]]
    /\ ~HasRecoveredSigForHash(db[n], cache[n], rs)
    /\ rs \notin pendingReconstructedRecoveredSigs[n]
    /\ pendingRecoveredSigs' = [pendingRecoveredSigs EXCEPT ![n] = @ \cup {rs}]
    /\ UNCHANGED <<store, reading, pendingSigns, sigShares,
                   pendingReconstructedRecoveredSigs, network, environment,
                   disruptions>>

\* Mutant: takes the signature without verifying it.
ProcessPendingRecoveredSigUnverified(n, rs) ==
    /\ rs \in pendingRecoveredSigs[n]
    /\ pendingRecoveredSigs' = [pendingRecoveredSigs EXCEPT ![n] = @ \ {rs}]
    /\ IF rs.quorum \in ActiveQuorums[view[n]]
       THEN ProcessRecoveredSig(n, rs, sigShares[n],
                                pendingReconstructedRecoveredSigs[n])
       ELSE UNCHANGED <<store, sigShares, pendingReconstructedRecoveredSigs>>
    /\ UNCHANGED <<reading, pendingSigns, network, environment, disruptions>>

\* CollectPendingRecoveredSigsToVerify and the rest of
\* ProcessPendingRecoveredSigs, for one message: it is dropped when its quorum
\* has become inactive or the signature does not verify.
ProcessPendingRecoveredSig(n, rs) ==
    /\ rs \in pendingRecoveredSigs[n]
    /\ pendingRecoveredSigs' = [pendingRecoveredSigs EXCEPT ![n] = @ \ {rs}]
    /\ IF rs.quorum \in ActiveQuorums[view[n]] /\ rs \in recovered
       THEN ProcessRecoveredSig(n, rs, sigShares[n],
                                pendingReconstructedRecoveredSigs[n])
       ELSE UNCHANGED <<store, sigShares, pendingReconstructedRecoveredSigs>>
    /\ UNCHANGED <<reading, pendingSigns, network, environment, disruptions>>

\* PushReconstructedRecoveredSig: the signature came in an ISLOCK that has been
\* verified already.
PushReconstructedRecoveredSig(n, rs) ==
    /\ QueuesHaveRoom(n)
    /\ rs \in recovered
    /\ pendingReconstructedRecoveredSigs' =
         [pendingReconstructedRecoveredSigs EXCEPT ![n] = @ \cup {rs}]
    /\ UNCHANGED <<store, reading, pendingSigns, sigShares,
                   pendingRecoveredSigs, network, environment, disruptions>>

\* ProcessPendingReconstructedRecoveredSigs, for one signature.
ProcessPendingReconstructedRecoveredSig(n, rs) ==
    /\ rs \in pendingReconstructedRecoveredSigs[n]
    /\ ProcessRecoveredSig(n, rs, sigShares[n],
                           pendingReconstructedRecoveredSigs[n] \ {rs})
    /\ UNCHANGED <<reading, pendingSigns, pendingRecoveredSigs, network,
                   environment, disruptions>>

-----------------------------------------------------------------------------
(* Housekeeping, restarts and the environment.                             *)

Disrupt ==
    /\ disruptions < MaxDisruptions
    /\ disruptions' = disruptions + 1

\* CSigningManager::TruncateRecoveredSig, called by InstantSend once a
\* ChainLock protects the transaction.
Truncate(n, id) ==
    /\ ReadRecoveredSig(db[n], id) # NoRecSig
    /\ db' = [db EXCEPT ![n] = TruncateRecoveredSig(@, id)]
    /\ cache' = [cache EXCEPT ![n] = CacheAfterRemove(db[n], @, {id}, FALSE)]
    /\ Disrupt
    /\ UNCHANGED <<reading, pendingSigns, sigShares, pendingRecoveredSigs,
                   pendingReconstructedRecoveredSigs, network, environment>>

\* CSigningManager::Cleanup.
Cleanup(n) ==
    /\ db' = [db EXCEPT ![n] = CleanupOldVotes(CleanupOldRecoveredSigs(@, now), now)]
    /\ cache' = [cache EXCEPT ![n] =
                    CacheAfterRemove(db[n], @, ExpiredIds(db[n], now), TRUE)]
    /\ UNCHANGED <<reading, pendingSigns, sigShares, pendingRecoveredSigs,
                   pendingReconstructedRecoveredSigs, network, environment,
                   disruptions>>

\* A thread of n that finds no cache entry for a key asks the database, without
\* the lock of CRecoveredSigsDb: HasRecoveredSigForId, HasRecoveredSigForHash.
StartLookup(n, key) ==
    /\ key \notin cache[n]
    /\ lookups' = [lookups EXCEPT ![n] =
                      @ \cup {[key |-> key, answer |-> InDatabase(db[n], key)]}]
    /\ Disrupt
    /\ UNCHANGED <<store, overtaken, pendingSigns, sigShares,
                   pendingRecoveredSigs, pendingReconstructedRecoveredSigs,
                   network, environment>>

\* ... and caches the answer, whatever has happened in between.
FinishLookup(n, l) ==
    /\ l \in lookups[n]
    /\ lookups' = [lookups EXCEPT ![n] = @ \ {l}]
    /\ cache' = [cache EXCEPT ![n] = InsertAnswer(db[n], @, l.key, l.answer)]
    /\ overtaken' = IF l.answer = InDatabase(db[n], l.key) THEN overtaken
                    ELSE overtaken \cup {n}
    /\ UNCHANGED <<db, pendingSigns, sigShares, pendingRecoveredSigs,
                   pendingReconstructedRecoveredSigs, network, environment,
                   disruptions>>

\* The least recently used entries leave a full cache.
EvictEntry(n, key) ==
    /\ key \in cache[n]
    /\ cache' = [cache EXCEPT ![n] = @ \ {key}]
    /\ UNCHANGED <<db, reading, pendingSigns, sigShares, pendingRecoveredSigs,
                   pendingReconstructedRecoveredSigs, network, environment,
                   disruptions>>

\* CSigSharesManager::Cleanup: session s ran into the new-shares timeout, or
\* its quorum is not active any more.
TimeoutSession(n, s) ==
    /\ SharesFor(sigShares[n], s) # {}
    /\ sigShares' = [sigShares EXCEPT ![n] = @ \ SharesFor(@, s)]
    /\ Disrupt
    /\ UNCHANGED <<store, reading, pendingSigns, pendingRecoveredSigs,
                   pendingReconstructedRecoveredSigs, network, environment>>

\* The process of n stops and starts again: only the database survives.
Restart(n) ==
    /\ cache' = [cache EXCEPT ![n] = {}]
    /\ lookups' = [lookups EXCEPT ![n] = {}]
    /\ pendingSigns' = [pendingSigns EXCEPT ![n] = {}]
    /\ sigShares' = [sigShares EXCEPT ![n] = {}]
    /\ pendingRecoveredSigs' = [pendingRecoveredSigs EXCEPT ![n] = {}]
    /\ pendingReconstructedRecoveredSigs' =
         [pendingReconstructedRecoveredSigs EXCEPT ![n] = {}]
    /\ Disrupt
    /\ UNCHANGED <<db, overtaken, network, environment>>

\* The chain tip of n changes.
NewTip(n, w) ==
    /\ view' = [view EXCEPT ![n] = w]
    /\ UNCHANGED <<store, reading, pendingSigns, sigShares,
                   pendingRecoveredSigs, pendingReconstructedRecoveredSigs,
                   network, voted, now, disruptions>>

Tick ==
    /\ now < MaxTime
    /\ now' = now + 1
    /\ UNCHANGED <<store, reading, view, pendingSigns, sigShares,
                   pendingRecoveredSigs, pendingReconstructedRecoveredSigs,
                   network, voted, disruptions>>

-----------------------------------------------------------------------------
Next ==
    \/ \E n \in Honest, id \in Ids, msg \in Msgs :
          \/ \E re \in BOOLEAN : SignSelected(n, id, msg, re)
          \/ \E q \in Quorums : SignByRpc(n, q, id, msg)
    \/ \E n \in Honest, s \in Sessions :
          \/ SignPendingSigShare(n, s)
          \/ \E m \in Members : ReceiveSigShare(n, s, m)
          \/ TimeoutSession(n, s)
    \/ \E s \in Sessions : FaultyRecover(s)
    \/ \E n \in Honest, rs \in RecSigs :
          \/ ProcessMessageRecoveredSig(n, rs)
          \/ ProcessPendingRecoveredSig(n, rs)
          \/ PushReconstructedRecoveredSig(n, rs)
          \/ ProcessPendingReconstructedRecoveredSig(n, rs)
    \/ \E n \in Honest :
          \/ \E id \in Ids : Truncate(n, id)
          \/ Cleanup(n)
          \/ Restart(n)
          \/ \E key \in CacheKeys : StartLookup(n, key) \/ EvictEntry(n, key)
          \/ \E l \in lookups[n] : FinishLookup(n, l)
          \/ \E w \in Views : NewTip(n, w)
    \/ Tick

Spec == Init /\ [][Next]_vars

\* The two worker threads loop for as long as the process runs, and a peer that
\* misses a share or a recovered signature asks again until it arrives.
Fairness ==
    /\ \A n \in Honest, s \in Sessions :
          /\ WF_vars(SignPendingSigShare(n, s))
          /\ \A m \in Members : WF_vars(ReceiveSigShare(n, s, m))
    /\ \A n \in Honest, rs \in RecSigs :
          /\ WF_vars(rs \in recovered /\ ProcessMessageRecoveredSig(n, rs))
          /\ WF_vars(ProcessPendingRecoveredSig(n, rs))
          /\ WF_vars(ProcessPendingReconstructedRecoveredSig(n, rs))

FairSpec == Spec /\ Fairness

-----------------------------------------------------------------------------
(* Properties.                                                             *)

\* n has created its share of session s, or is about to.
Signed(n, s) == \/ s \in pendingSigns[n]
                \/ [session |-> s, member |-> n] \in shares

\* Member n has voted twice on id, the second time after CleanupOldVotes had
\* removed the first vote, more than MaxAge after it was recorded.
VotedAgain(n, id) ==
    \E v, w \in voted : /\ v.member = n /\ v.id = id
                        /\ w.member = n /\ w.id = id
                        /\ v.time + MaxAge < w.time

\* A quorum recovers signatures on two different messages for one id only if one
\* of its honest members has voted again after its first vote expired: restarts,
\* truncations, expired signatures, cache entries, requests of any caller at any
\* time and the faulty members are not enough.  Up to then a conflict within a
\* quorum is what ProcessRecoveredSig says of it, something that "should really
\* not happen" (signing.cpp:819).
RecoveredAgreement ==
    \A r1, r2 \in recovered :
        r1.quorum = r2.quorum /\ r1.id = r2.id /\ r1.msg # r2.msg
            => \E n \in Honest \cap MembersOf[r1.quorum] : VotedAgain(n, r1.id)

\* "each masternode is participating in only one vote, even if it's a member of
\* multiple quorums" (signing.cpp:819), as far as the code keeps it: an honest
\* member creates shares on two different messages for one id, or is about to,
\* only if it recorded a vote for each and the votes lie more than MaxAge apart.
\* The record of a vote outlives restarts, the recovered signature, its removal
\* and requests that allow to sign again.
HonestVotesOnce ==
    \A n \in Honest : \A s1, s2 \in Sessions :
        Signed(n, s1) /\ Signed(n, s2) /\ s1.id = s2.id /\ s1.msg # s2.msg
            => \E v1, v2 \in voted :
                  /\ v1.member = n /\ v1.id = s1.id /\ v1.msg = s1.msg
                  /\ v2.member = n /\ v2.id = s2.id /\ v2.msg = s2.msg
                  /\ \/ v1.time + MaxAge < v2.time
                     \/ v2.time + MaxAge < v1.time

\* The sentence of signing.cpp:819 without that exception: "each masternode is
\* participating in only one vote, even if it's a member of multiple quorums".
\* It does not hold, as CleanupOldVotes forgets a vote after MaxAge and the
\* callers go on asking.
OneVotePerId ==
    \A n \in Honest : \A s1, s2 \in Sessions :
        Signed(n, s1) /\ Signed(n, s2) /\ s1.id = s2.id => s1.msg = s2.msg

\* Only signatures a quorum really produced reach the database, although
\* messages are queued before they are verified.
StoredSigsAreRecovered ==
    \A n \in Honest : db[n].h \cup (Readable(db[n], Ids)) \subseteq recovered

\* The keys of the database agree: the id, (id, msg) and sign hash keys name the
\* same signatures, each of which can be found by its hash, and has a time key
\* that lets CleanupOldRecoveredSigs find it.  The code ensures it until the
\* database changes between the two halves of a lookup (signing.cpp:255): then
\* the cache hides a stored signature, a conflicting one is written over it, and
\* the old (id, msg) and sign hash keys stay behind.
KeysAgree ==
    \A n \in Honest \ overtaken :
        LET stored == Readable(db[n], Ids)
        IN  /\ db[n].s = stored
            /\ db[n].m = {<<rs.id, rs.msg>> : rs \in stored}
            /\ stored \subseteq db[n].h
            /\ \A rs \in stored : \E k \in db[n].t : k[2] = rs.id
            /\ \A id \in Ids : HasVotedOnId(db[n], id) <=>
                                  \E k \in db[n].vt : k[2] = id

\* A stored recovered signature is never replaced by another one for its id: the
\* first one stays until it is truncated or cleaned up.  Like KeysAgree, this
\* ends with the first lookup that is overtaken.
StoredSigNotReplaced ==
    [][\A n \in Honest \ overtaken, id \in Ids :
         ReadRecoveredSig(db[n], id) # NoRecSig =>
            db'[n].r[id] \in {db[n].r[id], NoRecSig}]_vars

\* The promise of the signing stack to its callers: one certificate per quorum
\* and id, until a vote of an honest member has lapsed and been cast again.
Lapsed == {p \in Quorums \X Ids :
             \E n \in Honest \cap MembersOf[p[1]] : VotedAgain(n, p[2])}

Promise == INSTANCE RecoveredOnce WITH Certificates <- RecSigs, lapsed <- Lapsed
RefinesRecoveredOnce == Promise!Spec

\* When enough members of a quorum have been asked to sign the same message, its
\* signature is recovered, and every node that considers the quorum active
\* stores a signature for the id.
RecoveryCompletes ==
    \A s \in Sessions :
        Cardinality({n \in Honest \cap MembersOf[s.quorum] \cap KeyHolders[s.quorum] :
                       Signed(n, s)})
            >= Threshold[s.quorum]
        ~> \A n \in Honest : \/ ReadRecoveredSig(db[n], s.id) # NoRecSig
                             \/ s.quorum \notin ActiveQuorums[view[n]]

=============================================================================
