---------------------------- MODULE RecSigsStore ----------------------------
(***************************************************************************)
(* The contents of the LevelDB database behind CRecoveredSigsDb            *)
(* (llmq/signing.h, llmq/signing.cpp) and the batches its operations write *)
(* to it, with the caches in front of it.  A batch is atomic, so every     *)
(* operator below maps the database before the batch to the one after it.  *)
(* One LLMQ type is modelled: every key of the real database starts with   *)
(* the type, so the types never meet.                                      *)
(*                                                                         *)
(* A recovered signature is identified by its sign hash (quorum, id, msg): *)
(* a threshold BLS signature is unique, hence so is its object hash.       *)
(***************************************************************************)
EXTENDS Integers

CONSTANTS
    Ids,        \* request ids (CSigBase::id)
    Msgs,       \* message hashes (CSigBase::msgHash)
    Quorums,    \* quorum hashes
    MaxAge,     \* -maxrecsigsage
    NoMsg,      \* absence of a vote
    NoRecSig    \* absence of a recovered signature

RecSigs == [quorum : Quorums, id : Ids, msg : Msgs]

ASSUME StoreAssumption == /\ MaxAge \in Nat
                          /\ NoMsg \notin Msgs
                          /\ NoRecSig \notin RecSigs
                          /\ Ids \cap RecSigs = {}

(***************************************************************************)
(* The keys: r is "rs_r"(id) -> signature, m is "rs_r"(id, msg) -> time,   *)
(* h is "rs_h"(hash), s is "rs_s"(signHash), t is "rs_t"(time, id),        *)
(* v is "rs_v"(id) -> msg and vt is "rs_vt"(time, id).                     *)
(***************************************************************************)
Stores == [ r  : [Ids -> RecSigs \cup {NoRecSig}],
            m  : SUBSET (Ids \X Msgs),
            h  : SUBSET RecSigs,
            s  : SUBSET RecSigs,
            t  : SUBSET (Nat \X Ids),
            v  : [Ids -> Msgs \cup {NoMsg}],
            vt : SUBSET (Nat \X Ids) ]

EmptyStore == [ r  |-> [i \in Ids |-> NoRecSig],
                m  |-> {}, h |-> {}, s |-> {}, t |-> {},
                v  |-> [i \in Ids |-> NoMsg],
                vt |-> {} ]

-----------------------------------------------------------------------------
(* Recovered signatures.                                                   *)

ReadRecoveredSig(db, id) == db.r[id]

(***************************************************************************)
(* hasSigForIdCache and hasSigForHashCache answer before the database is   *)
(* asked.  An entry that agrees with the database makes no difference to   *)
(* any answer, and every write to the database updates or erases the       *)
(* entries it is about.  So the caches are given by the keys whose entry   *)
(* is wrong: ids and hashes for which they say the opposite of the         *)
(* database, until the entry is replaced or erased.                        *)
(***************************************************************************)
CacheKeys == Ids \cup RecSigs

\* What the database itself says of a key.
InDatabase(db, key) == (key \in Ids /\ db.r[key] # NoRecSig) \/ key \in db.h

HasRecoveredSigForId(db, wrong, id) ==
    IF id \in wrong THEN db.r[id] = NoRecSig ELSE db.r[id] # NoRecSig

HasRecoveredSigForHash(db, wrong, rs) ==
    IF rs \in wrong THEN rs \notin db.h ELSE rs \in db.h

\* A lookup that found no entry has read answer from the database some time ago
\* and now inserts it in the cache, without a look at the database.
InsertAnswer(db, wrong, key, answer) ==
    IF answer = InDatabase(db, key) THEN wrong \ {key} ELSE wrong \cup {key}

\* WriteRecoveredSig inserts true for the id and the hash.
CacheAfterWrite(wrong, rs) == wrong \ {rs.id, rs}

WriteRecoveredSig(db, rs, time) ==
    [db EXCEPT !.r[rs.id] = rs,
               !.m = @ \cup {<<rs.id, rs.msg>>},
               !.h = @ \cup {rs},
               !.s = @ \cup {rs},
               !.t = @ \cup {<<time, rs.id>>}]

\* The signatures RemoveRecoveredSig finds for a set of ids; for an id whose
\* signature cannot be read it returns without touching any key.
Readable(db, ids) == {db.r[i] : i \in {j \in ids : db.r[j] # NoRecSig}}

\* Mutant: a truncation leaves the sign hash key behind as well.
RemoveRecoveredSigsKeepsSession(db, ids, deleteHashKey) ==
    LET gone == Readable(db, ids)
    IN  [db EXCEPT !.r = [i \in Ids |-> IF i \in ids THEN NoRecSig ELSE db.r[i]],
                   !.m = @ \ {<<rs.id, rs.msg>> : rs \in gone},
                   !.h = IF deleteHashKey THEN @ \ gone ELSE @,
                   !.s = IF deleteHashKey THEN @ \ gone ELSE @]

\* No caller passes deleteTimeKey, so the "rs_t" keys are left alone.
RemoveRecoveredSigs(db, ids, deleteHashKey) ==
    LET gone == Readable(db, ids)
    IN  [db EXCEPT !.r = [i \in Ids |-> IF i \in ids THEN NoRecSig ELSE db.r[i]],
                   !.m = @ \ {<<rs.id, rs.msg>> : rs \in gone},
                   !.h = IF deleteHashKey THEN @ \ gone ELSE @,
                   !.s = @ \ gone]

\* RemoveRecoveredSig erases the entries of what it finds, and those of the hash
\* keys it deletes.
CacheAfterRemove(db, wrong, ids, deleteHashKey) ==
    LET gone == Readable(db, ids)
    IN  (wrong \ {rs.id : rs \in gone}) \ IF deleteHashKey THEN gone ELSE {}

TruncateRecoveredSig(db, id) == RemoveRecoveredSigs(db, {id}, FALSE)

\* Mutant: expires a key one second early.
ExpiredEarly(keys, now) == {k \in keys : k[1] <= now - MaxAge}

\* The (time, id) keys a cleanup at time now considers expired.
Expired(keys, now) == {k \in keys : k[1] < now - MaxAge}

\* The ids whose signature a cleanup removes.
ExpiredIds(db, now) == {k[2] : k \in Expired(db.t, now)}

CleanupOldRecoveredSigs(db, now) ==
    [RemoveRecoveredSigs(db, ExpiredIds(db, now), TRUE) EXCEPT !.t = @ \ Expired(@, now)]

-----------------------------------------------------------------------------
(* Votes.                                                                  *)

HasVotedOnId(db, id) == db.v[id] # NoMsg

GetVoteForId(db, id) == db.v[id]

\* Mutant: stores the id where the message hash belongs.
WriteVoteForIdSwapped(db, id, msg, time) ==
    [db EXCEPT !.v[id] = id, !.vt = @ \cup {<<time, id>>}]

WriteVoteForId(db, id, msg, time) ==
    [db EXCEPT !.v[id] = msg, !.vt = @ \cup {<<time, id>>}]

CleanupOldVotes(db, now) ==
    LET old == Expired(db.vt, now)
    IN  [db EXCEPT !.v = [i \in Ids |-> IF \E k \in old : k[2] = i
                                        THEN NoMsg ELSE db.v[i]],
                   !.vt = @ \ old]

=============================================================================
