----------------------------- MODULE InstantSend -----------------------------
(***************************************************************************)
(* CInstantSendManager (llmq/instantsend.cpp) of a node that receives      *)
(* InstantSend locks, with its database, and the mempool, chain and queue  *)
(* of validation callbacks it works with.  The node is no masternode, so   *)
(* ProcessTx returns at once and nothing is signed.                        *)
(*                                                                         *)
(* Three threads interleave: the message thread accepts transactions,      *)
(* blocks and locks, the scheduler thread runs the callbacks in the order  *)
(* of their events, and the thread "isman" processes the locks.            *)
(*                                                                         *)
(* A genuine lock is identified with its transaction, and each transaction *)
(* has one block it may be mined in, which is identified with it as well.  *)
(***************************************************************************)
EXTENDS Integers, Sequences, FiniteSets, SequencesExt

CONSTANTS
    Txs, NoTx,
    Outpoints,
    Inputs,      \* Inputs[t]: the outpoints transaction t spends
    Source,      \* Source[o]: the transaction o is an output of, NoTx for an old coin
    BlockParent, \* BlockParent[t]: the block before the one of t, NoTx for an old one
    Signed,      \* the transactions for which the quorum creates a lock
    Lockable,    \* the blocks that may get a ChainLock
    MaxReorgs,   \* bound on reorganisations and mempool evictions
    MaxEvents    \* bound on the callbacks that wait when something new happens

Conflicts == [t \in Txs |-> {u \in Txs \ {t} : Inputs[u] \cap Inputs[t] # {}}]

ASSUME InstantSendAssumption ==
    /\ IsFiniteSet(Txs) /\ NoTx \notin Txs
    /\ Inputs \in [Txs -> SUBSET Outpoints] /\ \A t \in Txs : Inputs[t] # {}
    /\ Source \in [Outpoints -> Txs \cup {NoTx}]
    /\ BlockParent \in [Txs -> Txs \cup {NoTx}]
    /\ Signed \subseteq Txs /\ Lockable \subseteq Txs /\ MaxReorgs \in Nat /\ MaxEvents \in Nat

\* One input gets one recovered signature (Signing!RecoveredAgreement).
ASSUME LocksAgree == \A t \in Signed : Conflicts[t] \cap Signed = {}

VARIABLES
    mempool,
    chain,       \* the blocks of the active chain
    failed,      \* blocks with BLOCK_FAILED_MASK
    chainlock,   \* bestChainLockBlockIndex
    notified,    \* lastNotifyChainLockBlockIndex
    indexed,     \* transactions the transaction index knows
    events,      \* the queue of validation callbacks
    callback,    \* progress of the scheduler thread in the first of them
    pending,     \* pendingInstantSendLocks
    pendingNoTx, \* pendingNoTxInstantSendLocks
    islocks,     \* locks in the database (is_i, is_tx, is_in)
    cache,       \* what the caches hold of a lock that is not in the database any more
    archived,    \* is_a2
    minedLocks,  \* is_m
    confirmed,   \* best_confirmed_height
    nonLocked,   \* nonLockedTxs
    byOutpoint,  \* nonLockedTxsByOutpoints
    worker,      \* progress of the thread isman
    received,    \* the locks that have been received so far
    reorgs       \* number of disconnected blocks and evictions so far

net == <<mempool, chain, failed, chainlock, notified, reorgs>>
db == <<islocks, cache, archived, minedLocks, confirmed>>
tracking == <<nonLocked, byOutpoint>>
queues == <<pending, pendingNoTx, received>>
scheduler == <<events, callback, indexed>>
vars == <<net, db, tracking, queues, scheduler, worker>>

Event == [type : {"added", "removed", "connected", "disconnected", "chainlock"}, tx : Txs]

\* An entry of nonLockedTxs; one without tx only holds the children.
NoEntry == [known |-> FALSE, tx |-> FALSE, mined |-> FALSE, children |-> {}]

Idle == [pc |-> "idle", batch |-> {}, lock |-> NoTx, known |-> FALSE, mined |-> FALSE,
         conflicts |-> {}, reset |-> FALSE]

Blocks == ToSet(chain)

Tip == IF chain = <<>> THEN NoTx ELSE Last(chain)

\* A block with its ancestors.
Branch ==
    LET b[n \in 0..Cardinality(Txs)] ==
          [t \in Txs \cup {NoTx} |-> IF n = 0 \/ t = NoTx THEN {t} \ {NoTx}
                                     ELSE {t} \cup b[n - 1][BlockParent[t]]]
    IN  b[Cardinality(Txs)]

Height == [t \in Txs |-> Cardinality(Branch[t])]

HasChainLock(t) == t \in Branch[chainlock]

\* The type invariant: queues and database hold genuine locks, and no lock is both in the
\* database and archived.
TypeOK ==
    /\ mempool \subseteq Txs /\ Blocks \subseteq Txs /\ failed \subseteq Txs
    /\ {chainlock, notified} \subseteq Lockable \cup {NoTx} /\ indexed \subseteq Txs
    /\ events \in Seq(Event)
    /\ callback \in {"start", "track", "put back", "conflicts", "write", "index"}
    /\ cache \in [Txs -> {"none", "lock", "null"}]
    /\ pending \subseteq Signed /\ pendingNoTx \subseteq Signed /\ received \subseteq Signed
    /\ islocks \subseteq Signed /\ archived \subseteq Signed /\ islocks \cap archived = {}
    /\ minedLocks \subseteq Signed /\ confirmed \in 0..Cardinality(Txs)
    /\ nonLocked \in [Txs -> [known : BOOLEAN, tx : BOOLEAN, mined : BOOLEAN,
                              children : SUBSET Txs]]
    /\ byOutpoint \in [Outpoints -> Txs \cup {NoTx}]
    /\ worker \in [pc : {"idle", "lookup", "store", "untrack", "resolve", "remove",
                         "invalidate", "mempool"},
                   batch : SUBSET Signed, lock : Signed \cup {NoTx},
                   known : BOOLEAN, mined : BOOLEAN, conflicts : SUBSET Txs, reset : BOOLEAN]
    /\ reorgs \in 0..MaxReorgs

Init ==
    /\ mempool = {} /\ chain = <<>> /\ failed = {} /\ indexed = {}
    /\ chainlock = NoTx /\ notified = NoTx
    /\ events = <<>> /\ callback = "start"
    /\ pending = {} /\ pendingNoTx = {} /\ received = {}
    /\ islocks = {} /\ cache = [t \in Txs |-> "none"] /\ archived = {} /\ minedLocks = {} /\ confirmed = 0
    /\ nonLocked = [t \in Txs |-> NoEntry]
    /\ byOutpoint = [o \in Outpoints |-> NoTx]
    /\ worker = Idle /\ reorgs = 0

-----------------------------------------------------------------------------
(* Transactions that are not locked.                                       *)

Parents == [t \in Txs |-> {Source[o] : o \in Inputs[t]} \ {NoTx}]

\* A transaction with all its descendants.
Family ==
    LET gen[n \in 0..Cardinality(Txs)] ==
          [t \in Txs |-> IF n = 0 THEN {t}
                         ELSE {t} \cup UNION {gen[n - 1][u] : u \in {v \in Txs : t \in Parents[v]}}]
    IN  gen[Cardinality(Txs)]

\* AddNonLockedTx up to its first unlock.  A transaction that already has an entry,
\* even one that only holds children, is not entered again.
AddNonLockedTx(t, mined) ==
    LET new == ~nonLocked[t].known
    IN  /\ nonLocked' = [u \in Txs |->
              LET e == nonLocked[u]
              IN  CASE u = t -> [e EXCEPT !.known = TRUE, !.mined = mined, !.tx = @ \/ new]
                    [] new /\ u \in Parents[t] ->
                          [e EXCEPT !.known = TRUE, !.children = @ \cup {t}]
                    [] OTHER -> e]
        /\ byOutpoint' = [o \in Outpoints |->
              IF new /\ o \in Inputs[t] /\ byOutpoint[o] = NoTx THEN t ELSE byOutpoint[o]]

\* Mutant: the outpoints of a removed transaction stay in the map.
RemoveNonLockedTxKeepsOutpoints(nl, by, t) ==
    <<[u \in Txs |-> IF u = t THEN NoEntry
                     ELSE IF nl[t].tx /\ u \in Parents[t]
                     THEN [nl[u] EXCEPT !.children = @ \ {t}] ELSE nl[u]], by>>

\* RemoveNonLockedTx applied to the two maps.  (The children it marks for another
\* attempt to sign concern masternodes only.)
RemoveNonLockedTx(nl, by, t) ==
    LET left == [u \in Txs |-> IF nl[t].tx /\ u \in Parents[t]
                               THEN [nl[u] EXCEPT !.children = @ \ {t}] ELSE nl[u]]
        Empty(u) == nl[t].tx /\ u \in Parents[t] /\ ~left[u].tx /\ left[u].children = {}
    IN  IF ~nl[t].known THEN <<nl, by>>
        ELSE <<[u \in Txs |-> IF u = t \/ Empty(u) THEN NoEntry ELSE left[u]],
               [o \in Outpoints |-> IF nl[t].tx /\ o \in Inputs[t] THEN NoTx ELSE by[o]]>>

Untrack(S) ==
    LET r == FoldSet(LAMBDA t, maps : RemoveNonLockedTx(maps[1], maps[2], t), tracking, S)
    IN  nonLocked' = r[1] /\ byOutpoint' = r[2]

-----------------------------------------------------------------------------
(* The database with its caches.                                           *)

GetInstantSendLockByTxid(t) == t \in islocks \/ cache[t] = "lock"

IsLocked(t) == t \in islocks \/ cache[t] # "none"

KnownInstantSendLock(t) == t \in islocks \cup archived

GetConflictingLock(t) == {u \in Conflicts[t] : GetInstantSendLockByTxid(u)}

\* The locks that build on the one of t, found through the locks between them.
Chained(t) ==
    LET gen[n \in 0..Cardinality(Txs)] ==
          IF n = 0 THEN {t}
          ELSE gen[n - 1] \cup {u \in islocks : Parents[u] \cap gen[n - 1] # {}}
    IN  gen[Cardinality(Txs)]

\* RemoveConflictingLock: the locks of S leave the database with those that build on
\* them, and are archived.  A lock that was only cached leaves an empty entry behind.
RemoveConflictingLock(S) ==
    LET gone == UNION {Chained(t) : t \in S}
    IN  /\ islocks' = islocks \ gone
        /\ archived' = archived \cup gone
        /\ cache' = [t \in Txs |-> CASE t \notin gone -> cache[t]
                                     [] t \in islocks -> "none"
                                     [] cache[t] = "lock" -> "null"
                                     [] OTHER -> cache[t]]
        /\ UNCHANGED <<minedLocks, confirmed>>

\* TransactionRemovedFromMempool of the manager.
RemoveLockOf(t) ==
    IF GetInstantSendLockByTxid(t) THEN RemoveConflictingLock({t}) ELSE UNCHANGED db

\* The caches are of limited size.
TruncateCache(t) ==
    /\ Len(events) <= MaxEvents /\ cache[t] # "none"
    /\ cache' = [cache EXCEPT ![t] = "none"]
    /\ UNCHANGED <<islocks, archived, minedLocks, confirmed, net, tracking, queues,
                   scheduler, worker>>

-----------------------------------------------------------------------------
(* Mempool and chain.                                                      *)

\* Bound: something new happens only when few callbacks are waiting.
Room == Len(events) <= MaxEvents

Events(type, S) == SetToSeq({[type |-> type, tx |-> t] : t \in S})

\* What a set of transactions takes with it when it leaves the mempool.
RemoveRecursive(state, S) ==
    LET gone == UNION {Family[t] : t \in S} \cap state.pool
    IN  [pool |-> state.pool \ gone, events |-> state.events \o Events("removed", gone)]

\* AcceptToMemoryPool of t on top of the given blocks.  A transaction a lock is
\* waiting for ousts the ones it conflicts with.
AcceptToMemoryPool(state, t, blocks) ==
    LET waiting == t \in pendingNoTx
        cleared == IF waiting THEN RemoveRecursive(state, Conflicts[t] \cap state.pool)
                   ELSE state
        ok == /\ Conflicts[t] \cap (cleared.pool \cup blocks) = {}
              /\ Parents[t] \subseteq cleared.pool \cup blocks
    IN  IF t \in state.pool \cup blocks \/ GetConflictingLock(t) # {} THEN state
        ELSE IF ok THEN [pool |-> cleared.pool \cup {t},
                         events |-> cleared.events \o Events("added", {t})]
        ELSE cleared

\* MaybeUpdateMempoolForReorg of one disconnected transaction.
Resurrect(state, t, blocks) ==
    LET next == AcceptToMemoryPool(state, t, blocks)
    IN  IF t \in next.pool THEN next ELSE RemoveRecursive(next, {t})

\* removeForBlock.
RemoveForBlock(state, t) ==
    RemoveRecursive([state EXCEPT !.pool = @ \ {t}], Conflicts[t] \cap state.pool)

\* The active chain becomes c: blocks are disconnected from the tip down, others are
\* connected, and the disconnected transactions return to the mempool if they can.
MoveTo(c) ==
    LET old == SelectSeq(chain, LAMBDA t : t \notin ToSet(c))
        new == SelectSeq(c, LAMBDA t : t \notin Blocks)
        undone == [pool |-> mempool,
                   events |-> events \o [i \in DOMAIN old |->
                       [type |-> "disconnected", tx |-> Reverse(old)[i]]]]
        connected == FoldLeft(RemoveForBlock, undone, new)
        final == FoldLeft(LAMBDA st, t : Resurrect(st, t, ToSet(c)), connected, old)
    IN  /\ chain' = c
        /\ mempool' = final.pool
        /\ events' = final.events \o [i \in DOMAIN new |->
                                         [type |-> "connected", tx |-> new[i]]]

\* A TX message.  When the transaction is refused its own lock is removed.
ProcessTxMessage(t) ==
    LET r == AcceptToMemoryPool([pool |-> mempool, events |-> events], t, Blocks)
    IN  /\ Room /\ t \notin mempool \cup indexed
        /\ mempool' = r.pool
        /\ events' = r.events
        /\ IF t \in r.pool THEN UNCHANGED db ELSE RemoveLockOf(t)
        /\ UNCHANGED <<chain, failed, chainlock, notified, reorgs, tracking, queues,
                       callback, indexed, worker>>

Path(t) == SetToSortSeq(Branch[t], LAMBDA a, b : Height[a] < Height[b])

\* Valid on top of the blocks before it, and not in conflict with the ChainLock.
Connectable(t) ==
    /\ t \notin failed
    /\ chainlock = NoTx \/ t \in Branch[chainlock] \/ chainlock \in Branch[t]
    /\ Conflicts[t] \cap Branch[t] = {} /\ Parents[t] \subseteq Branch[t]

\* Mutant: a conflicting block is refused even if it has a ChainLock.
ConnectBlockRefused(t) ==
    /\ Room /\ worker.pc # "invalidate"
    /\ t \notin Blocks /\ BlockParent[t] = Tip /\ Connectable(t)
    /\ IF GetConflictingLock(t) # {}
       THEN failed' = failed \cup {t} /\ UNCHANGED <<chain, mempool, events>>
       ELSE MoveTo(Append(chain, t)) /\ UNCHANGED failed
    /\ UNCHANGED <<chainlock, notified, reorgs, db, tracking, queues, callback, indexed,
                   worker>>

\* ConnectBlock: a block that conflicts with a lock is refused; if it has a ChainLock,
\* it overrides the lock.
ConnectBlock(t) ==
    LET locks == GetConflictingLock(t)
    IN  /\ Room /\ worker.pc # "invalidate"
        /\ t \notin Blocks /\ BlockParent[t] = Tip /\ Connectable(t)
        /\ IF locks # {} /\ ~HasChainLock(t)
           THEN failed' = failed \cup {t} /\ UNCHANGED <<chain, mempool, events, db>>
           ELSE /\ MoveTo(Append(chain, t))
                /\ IF locks = {} THEN UNCHANGED db ELSE RemoveConflictingLock(locks)
                /\ UNCHANGED failed
        /\ UNCHANGED <<chainlock, notified, reorgs, tracking, queues, callback, indexed,
                       worker>>

\* ActivateBestChainStep to a branch with more work that has no block to refuse.
Reorg(t) ==
    /\ Room /\ reorgs < MaxReorgs /\ worker.pc # "invalidate"
    /\ ~ Blocks \subseteq Branch[t] /\ Height[t] > Len(chain)
    /\ \A u \in Branch[t] : Connectable(u) /\ (u \in Blocks \/ GetConflictingLock(u) = {})
    /\ MoveTo(Path(t))
    /\ reorgs' = reorgs + 1
    /\ UNCHANGED <<failed, chainlock, notified, db, tracking, queues, callback, indexed,
                   worker>>

\* LimitMempoolSize, or a transaction that expires.
Evict(t) ==
    LET r == RemoveRecursive([pool |-> mempool, events |-> events], {t})
    IN  /\ Room /\ reorgs < MaxReorgs /\ t \in mempool
        /\ mempool' = r.pool /\ events' = r.events
        /\ reorgs' = reorgs + 1
        /\ UNCHANGED <<chain, failed, chainlock, notified, db, tracking, queues, callback,
                       indexed, worker>>

\* ResetBlockFailureFlags.
ResetBlockFailureFlags(t) == {u \in failed : u \notin Branch[t] /\ t \notin Branch[u]}

\* A new best ChainLock.
ProcessNewChainLock(t) ==
    /\ Room /\ t # chainlock /\ Branch[chainlock] \subseteq Branch[t]
    /\ chainlock' = t
    /\ UNCHANGED <<mempool, chain, failed, notified, reorgs, db, tracking, queues, scheduler,
                   worker>>

\* EnforceBestChainLock: conflicting blocks are disconnected, failure flags of the
\* locked chain are taken back, and once it is active the ChainLock is announced.
EnforceBestChainLock ==
    LET conflicting == ~ Blocks \subseteq Branch[chainlock] /\ chainlock \notin Blocks
        announced == chainlock \in Blocks /\ chainlock # notified
    IN  /\ Room /\ worker.pc # "invalidate"
        /\ chainlock # NoTx /\ (conflicting \/ announced \/ chainlock \in failed)
        /\ IF conflicting
           THEN MoveTo(SelectSeq(chain, LAMBDA t : t \in Branch[chainlock]))
           ELSE /\ UNCHANGED <<chain, mempool>>
                /\ events' = IF announced THEN events \o Events("chainlock", {chainlock})
                             ELSE events
        /\ notified' = IF announced THEN chainlock ELSE notified
        /\ failed' = IF chainlock \in failed THEN ResetBlockFailureFlags(chainlock) ELSE failed
        /\ UNCHANGED <<chainlock, reorgs, db, tracking, queues, callback, indexed, worker>>

\* An ISDLOCK message.
ProcessMessageInstantSendLock(t) ==
    /\ Room /\ t \notin pending \cup pendingNoTx /\ ~KnownInstantSendLock(t)
    /\ pending' = pending \cup {t}
    /\ received' = received \cup {t}
    /\ UNCHANGED <<pendingNoTx, net, db, tracking, scheduler, worker>>

-----------------------------------------------------------------------------
(* RemoveMempoolConflictsForLock, called by two threads.                   *)

\* Mutant: only the tracking of conflicting transactions ends.
RemoveMempoolConflictsForLockKept(t, queue) ==
    Untrack(Conflicts[t] \cap mempool) /\ events' = queue /\ UNCHANGED mempool

RemoveMempoolConflictsForLock(t, queue) ==
    LET rivals == Conflicts[t] \cap mempool
        r == RemoveRecursive([pool |-> mempool, events |-> queue], rivals)
    IN  mempool' = r.pool /\ events' = r.events /\ Untrack(rivals)

-----------------------------------------------------------------------------
(* The scheduler thread: the manager's callbacks, split where other threads  *)
(* can act on what they use.                                                 *)

Handling(type, at) == events # <<>> /\ Head(events).type = type /\ callback = at

Tx == Head(events).tx

Finish == events' = Tail(events) /\ callback' = "start"

\* Mutant: the lock leaves the one queue but does not enter the other.
PutBackDropped(t) ==
    /\ pendingNoTx' = pendingNoTx \ {t}
    /\ UNCHANGED <<pending, received>>

\* A lock that has been waiting for t is put back into the queue.
PutBack(t) ==
    /\ pending' = IF t \in pendingNoTx THEN pending \cup {t} ELSE pending
    /\ pendingNoTx' = pendingNoTx \ {t}
    /\ UNCHANGED received

TransactionAddedToMempool ==
    /\ Handling("added", "start")
    /\ PutBack(Tx)
    /\ callback' = IF Tx \in pendingNoTx THEN "conflicts" ELSE "track"
    /\ UNCHANGED <<events, indexed, net, db, tracking, worker>>

RemoveConflictsOfAdded ==
    /\ Handling("added", "conflicts")
    /\ RemoveMempoolConflictsForLock(Tx, Tail(events))
    /\ callback' = "start"
    /\ UNCHANGED <<indexed, chain, failed, chainlock, notified, reorgs, db, queues, worker>>

\* AddNonLockedTx, called by two callbacks, in two steps.
TrackTransaction ==
    /\ Handling("added", "track") \/ Handling("connected", "track")
    /\ AddNonLockedTx(Tx, Head(events).type = "connected")
    /\ callback' = "put back"
    /\ UNCHANGED <<events, indexed, net, db, queues, worker>>

PutLockBack ==
    /\ callback = "put back"
    /\ PutBack(Tx)
    /\ IF Handling("added", "put back") THEN Finish
       ELSE callback' = "write" /\ UNCHANGED events
    /\ UNCHANGED <<indexed, net, db, tracking, worker>>

TransactionRemovedFromMempool ==
    /\ Handling("removed", "start")
    /\ RemoveLockOf(Tx)
    /\ Finish
    /\ UNCHANGED <<indexed, net, tracking, queues, worker>>

BlockConnected ==
    /\ Handling("connected", "start")
    /\ IF IsLocked(Tx) \/ HasChainLock(Tx)
       THEN Untrack({Tx}) /\ callback' = "write"
       ELSE callback' = "track" /\ UNCHANGED tracking
    /\ UNCHANGED <<events, indexed, net, db, queues, worker>>

WriteBlockInstantSendLocks ==
    /\ Handling("connected", "write")
    /\ minedLocks' = IF IsLocked(Tx) THEN minedLocks \cup {Tx} ELSE minedLocks
    /\ callback' = "index"
    /\ UNCHANGED <<events, indexed, net, islocks, cache, archived, confirmed, tracking,
                   queues, worker>>

\* The transaction index is the last to hear of the block.
WriteIndex ==
    /\ Handling("connected", "index")
    /\ indexed' = indexed \cup {Tx}
    /\ Finish
    /\ UNCHANGED <<net, db, tracking, queues, worker>>

BlockDisconnected ==
    /\ Handling("disconnected", "start")
    /\ minedLocks' = IF IsLocked(Tx) THEN minedLocks \ {Tx} ELSE minedLocks
    /\ Finish
    /\ UNCHANGED <<indexed, net, islocks, cache, archived, confirmed, tracking, queues,
                   worker>>

\* HandleFullyConfirmedBlock: locks of transactions mined up to its height are
\* archived but stay in the caches.
RemoveConfirmedInstantSendLocks ==
    LET h == Height[Tx]
        gone == {t \in minedLocks : Height[t] <= h}
    IN  /\ Handling("chainlock", "start")
        /\ IF h <= confirmed THEN UNCHANGED db
           ELSE /\ islocks' = islocks \ gone
                /\ cache' = [t \in Txs |-> CASE t \notin gone -> cache[t]
                                             [] t \in islocks -> "lock"
                                             [] cache[t] = "lock" -> "null"
                                             [] OTHER -> cache[t]]
                /\ archived' = archived \cup gone
                /\ minedLocks' = minedLocks \ gone
                /\ confirmed' = h
        /\ callback' = "track"
        /\ UNCHANGED <<events, indexed, net, tracking, queues, worker>>

\* ... and the transactions the ChainLock confirms are not tracked any more.
UntrackConfirmed ==
    /\ Handling("chainlock", "track")
    /\ Untrack({t \in Branch[Tx] : nonLocked[t].mined})
    /\ Finish
    /\ UNCHANGED <<indexed, net, db, queues, worker>>

-----------------------------------------------------------------------------
(* The thread isman.                                                       *)

ProcessPendingInstantSendLocks ==
    /\ worker.pc = "idle" /\ worker.batch = {} /\ pending # {}
    /\ worker' = [worker EXCEPT !.batch = pending]
    /\ pending' = {}
    /\ UNCHANGED <<pendingNoTx, received, net, db, tracking, scheduler>>

Done == [Idle EXCEPT !.batch = worker.batch]

\* Mutant: a lock is processed whether it is known or not.
ProcessInstantSendLockAgain(t) ==
    /\ worker.pc = "idle" /\ t \in worker.batch
    /\ worker' = [Idle EXCEPT !.batch = worker.batch \ {t}, !.lock = t, !.pc = "lookup"]
    /\ UNCHANGED <<net, db, tracking, queues, scheduler>>

\* ProcessInstantSendLock begins.
ProcessInstantSendLock(t) ==
    /\ worker.pc = "idle" /\ t \in worker.batch
    /\ worker' = IF KnownInstantSendLock(t) THEN [Idle EXCEPT !.batch = worker.batch \ {t}]
                 ELSE [Idle EXCEPT !.batch = worker.batch \ {t}, !.lock = t, !.pc = "lookup"]
    /\ UNCHANGED <<net, db, tracking, queues, scheduler>>

\* GetTransaction looks into the mempool, then into the transaction index, which
\* names the block even when that is not active any more.
LookupTransaction ==
    LET t == worker.lock
        mined == t \notin mempool /\ t \in indexed
    IN  /\ worker.pc = "lookup"
        /\ worker' = IF mined /\ HasChainLock(t) THEN Done
                     ELSE [worker EXCEPT !.pc = "store", !.mined = mined,
                                         !.known = t \in mempool \cup indexed]
        /\ UNCHANGED <<net, db, tracking, queues, scheduler>>

StoreLock ==
    LET t == worker.lock
    IN  /\ worker.pc = "store"
        /\ IF GetInstantSendLockByTxid(t)
           THEN worker' = Done /\ UNCHANGED <<islocks, minedLocks, pendingNoTx>>
           ELSE /\ worker' = [worker EXCEPT !.pc = "untrack"]
                /\ IF worker.known
                   THEN /\ islocks' = islocks \cup {t}
                        /\ minedLocks' = IF worker.mined THEN minedLocks \cup {t}
                                         ELSE minedLocks
                        /\ UNCHANGED pendingNoTx
                   ELSE /\ pendingNoTx' = pendingNoTx \cup {t}
                        /\ UNCHANGED <<islocks, minedLocks>>
        /\ UNCHANGED <<cache, archived, confirmed, pending, received, net, tracking,
                       scheduler>>

UntrackLocked ==
    /\ worker.pc = "untrack"
    /\ Untrack({worker.lock})
    /\ worker' = [worker EXCEPT !.pc = "resolve"]
    /\ UNCHANGED <<net, db, queues, scheduler>>

\* Mutant: every mined transaction on the outpoints counts, the locked one included.
MinedConflictsOrSelf(t) ==
    {u \in {byOutpoint[o] : o \in Inputs[t]} \ {NoTx} : nonLocked[u].mined /\ nonLocked[u].tx}

\* The mined transactions that conflict with the lock, as far as the map by outpoint
\* knows them.
MinedConflicts(t) ==
    {u \in {byOutpoint[o] : o \in Inputs[t]} \ {t, NoTx} :
        nonLocked[u].mined /\ nonLocked[u].tx}

\* ResolveBlockConflicts up to its loop.
ResolveBlockConflicts ==
    LET us == MinedConflicts(worker.lock)
    IN  /\ worker.pc = "resolve"
        /\ IF \E u \in us : HasChainLock(u)
           THEN /\ RemoveConflictingLock({worker.lock})
                /\ worker' = [worker EXCEPT !.pc = "mempool"]
           ELSE /\ worker' = [worker EXCEPT !.conflicts = us,
                                            !.reset = worker.lock \in pendingNoTx,
                                            !.pc = IF us = {} THEN "mempool" ELSE "remove"]
                /\ UNCHANGED db
        /\ UNCHANGED <<net, tracking, queues, scheduler>>

\* RemoveConflictedTx of the transactions in the next conflicting block.
RemoveConflictedTx ==
    /\ worker.pc = "remove"
    /\ Untrack(worker.conflicts)
    /\ worker' = [worker EXCEPT !.pc = "invalidate"]
    /\ UNCHANGED <<net, db, queues, scheduler>>

\* InvalidateBlock disconnects one block after the other.  If the locked transaction
\* is not known, the failure is taken back so that the chain can be followed.
InvalidateBlock ==
    LET bad == worker.conflicts
    IN  /\ worker.pc = "invalidate"
        /\ IF bad \cap Blocks # {}
           THEN MoveTo(Front(chain)) /\ failed' = failed \cup {Tip} /\ UNCHANGED worker
           ELSE /\ failed' = IF worker.reset
                             THEN {u \in failed : \A b \in bad : u \in ResetBlockFailureFlags(b)}
                             ELSE failed \cup bad
                /\ worker' = [worker EXCEPT !.pc = "mempool"]
                /\ UNCHANGED <<chain, mempool, events>>
        /\ UNCHANGED <<chainlock, notified, reorgs, db, tracking, queues, callback, indexed>>

RemoveMempoolConflicts ==
    /\ worker.pc = "mempool"
    /\ IF worker.known THEN RemoveMempoolConflictsForLock(worker.lock, events)
       ELSE UNCHANGED <<mempool, tracking, events>>
    /\ worker' = Done
    /\ UNCHANGED <<chain, failed, chainlock, notified, reorgs, db, queues, callback, indexed>>

-----------------------------------------------------------------------------
Environment ==
    \/ \E t \in Txs : ProcessTxMessage(t) \/ ConnectBlock(t) \/ Reorg(t) \/ Evict(t)
    \/ \E t \in Lockable : ProcessNewChainLock(t)
    \/ \E t \in Signed : ProcessMessageInstantSendLock(t) \/ TruncateCache(t)
    \/ EnforceBestChainLock

Scheduler ==
    \/ TransactionAddedToMempool \/ RemoveConflictsOfAdded \/ TrackTransaction \/ PutLockBack
    \/ TransactionRemovedFromMempool
    \/ BlockConnected \/ WriteBlockInstantSendLocks \/ WriteIndex \/ BlockDisconnected
    \/ RemoveConfirmedInstantSendLocks \/ UntrackConfirmed

WorkThreadMain ==
    \/ ProcessPendingInstantSendLocks
    \/ \E t \in Signed : ProcessInstantSendLock(t)
    \/ LookupTransaction \/ StoreLock \/ UntrackLocked
    \/ ResolveBlockConflicts \/ RemoveConflictedTx \/ InvalidateBlock
    \/ RemoveMempoolConflicts

Next == Environment \/ Scheduler \/ WorkThreadMain

Spec == Init /\ [][Next]_vars

\* The two threads run as long as they have something to do: the scheduler takes one
\* callback after the other, the thread isman polls every 100 ms.  ChainLocks are
\* enforced, and the chain they lock activated, again and again.
FairSpec ==
    /\ Spec
    /\ WF_vars(Scheduler) /\ WF_vars(WorkThreadMain)
    /\ WF_vars(EnforceBestChainLock)
    /\ WF_vars(\E t \in Txs : HasChainLock(t) /\ ConnectBlock(t))

-----------------------------------------------------------------------------
\* When the lock of a transaction is in the database and has been dealt with, no
\* transaction that spends one of its inputs is in the mempool: whichever thread came
\* first, AcceptToMemoryPool refuses it or RemoveMempoolConflictsForLock removes it.
NoConflictInMempool ==
    \A t \in islocks : worker.lock = t \/ Conflicts[t] \cap mempool = {}

\* A lock that has been received is never dropped between the queues: it is waiting,
\* being processed, stored or archived, or its transaction has a ChainLock.
LockNotLost ==
    \A t \in received :
        \/ t \in pending \cup pendingNoTx \cup worker.batch \cup {worker.lock}
        \/ KnownInstantSendLock(t) \/ HasChainLock(t)

\* nonLockedTxsByOutpoints only names transactions nonLockedTxs holds in full, so
\* ResolveBlockConflicts finds the block of every one it meets.
OutpointsTracked ==
    \A o \in Outpoints : byOutpoint[o] # NoTx =>
        nonLocked[byOutpoint[o]].tx /\ o \in Inputs[byOutpoint[o]]

\* Only blocks that contain, or build on, a transaction that conflicts with a lock are
\* ever marked failed, be it by ConnectBlock or by ResolveBlockConflicts.
FailedOnlyForConflicts ==
    \A b \in failed : \E u \in Branch[b] : Conflicts[u] \cap received # {}

\* A ChainLock prevails over any InstantSend lock: its block gets into the active chain
\* and stays there, even if ResolveBlockConflicts was about to invalidate it.
ChainLockPrevails ==
    \A t \in Lockable : chainlock = t ~> [](t \in Blocks)
=============================================================================
