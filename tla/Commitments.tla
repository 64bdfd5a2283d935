---------------------------- MODULE Commitments ----------------------------
(***************************************************************************)
(* Quorum commitments in blocks: CQuorumBlockProcessor on top of the evo   *)
(* database, with the coin database flushed beside it.  A node connects    *)
(* and disconnects blocks, receives commitments, assembles block           *)
(* templates, writes its state to disk, crashes and starts again.          *)
(*                                                                         *)
(* One quorum type without rotation.  A block is the set of its            *)
(* commitments, and a chain is the sequence of its blocks above a base     *)
(* block no reorganisation reaches, so a chain is also the hash of its     *)
(* last block, and a quorum is named by the chain that ends with its base  *)
(* block.  A commitment is its quorum hash and its number of signers, zero *)
(* for the null commitment; blocks carry verifiable commitments.  What the *)
(* code does under cs_main is one step; ProcessMessage releases cs_main    *)
(* and goes on in two further steps, and a reader of mined commitments     *)
(* does without cs_main.                                                   *)
(***************************************************************************)
EXTENDS Integers, Sequences, SequencesExt, FiniteSets

CONSTANTS
    dkgInterval, dkgMiningWindowStart, dkgMiningWindowEnd,
    Signers,        \* possible numbers of signers of a commitment
    nCheckDepth,    \* blocks VerifyDB disconnects at the start
    MaxHeight,      \* bound on the length of a chain
    MaxEvents       \* bound on disconnected blocks, new commitments, readers and crashes

ASSUME Assumptions ==
    /\ dkgInterval \in Nat \ {0}
    /\ dkgMiningWindowStart \in Nat \ {0}
    /\ dkgMiningWindowEnd \in dkgMiningWindowStart .. dkgInterval - 1
    /\ Signers \subseteq Nat \ {0}
    /\ nCheckDepth \in Nat \ {0}

VARIABLES
    node,       \* what the process is doing
    chain,      \* m_chain, empty before LoadChainTip
    at,         \* the block ReplayBlocks or VerifyDB has come to
    coins,      \* the coin database: best (or old) block, new head of an unfinished write
    evo,        \* the evo database as the process reads it
    disk,       \* the evo database on disk
    cache,      \* mapHasMinedCommitmentCache
    minableCommitments,
    minableCommitmentsByQuorum,
    incoming,   \* the commitment ProcessMessage is working on
    reader,     \* the answer of the evo database a reader has not put into the cache yet
    torn,       \* a crash came between the writes of the two databases
    straddled,  \* a reader has put an answer into the cache that had become wrong
    events      \* disconnected blocks, new commitments, readers and crashes so far

memory == <<cache, minableCommitments, minableCommitmentsByQuorum, incoming, reader>>
flags == <<torn, straddled>>
offers == <<minableCommitments, minableCommitmentsByQuorum>>
vars == <<node, chain, at, coins, evo, disk, memory, flags, events>>

Running == {"up", "flushing", "flushed"}
Starting == {"rollback", "forward", "replayed", "verify"}
NoMap == <<>>
EmptyEvo == [best |-> <<>>, mined |-> NoMap, heights |-> NoMap]

With(f, k, v) == [x \in DOMAIN f \cup {k} |-> IF x = k THEN v ELSE f[x]]
Without(f, k) == [x \in DOMAIN f \ {k} |-> f[x]]

Init ==
    /\ node = "up" /\ chain = <<>> /\ at = <<>>
    /\ coins = [best |-> <<>>, heads |-> {}]
    /\ evo = EmptyEvo /\ disk = EmptyEvo
    /\ cache = NoMap /\ minableCommitments = {} /\ minableCommitmentsByQuorum = NoMap
    /\ incoming = {} /\ reader = {}
    /\ torn = FALSE /\ straddled = FALSE /\ events = 0

-----------------------------------------------------------------------------
(* Heights and quorums.                                                    *)

Prefix(c, h) == SubSeq(c, 1, h)
Next1 == Len(chain) + 1

\* The quorums of the active chain.
BaseBlocks == {Prefix(chain, h) : h \in {x \in 0 .. Len(chain) : x % dkgInterval = 0}}

IsMiningPhase(h) == h % dkgInterval \in dkgMiningWindowStart .. dkgMiningWindowEnd

\* GetQuorumBlockHash for the block at height h on top of c: none for a base block itself.
GetQuorumBlockHash(c, h) ==
    {Prefix(c, b) : b \in {h - (h % dkgInterval)} \cap 0 .. Len(c)}

\* HasMinedCommitment: what it returns, and the cache it leaves.
HasMinedCommitment(q) == IF q \in DOMAIN cache THEN cache[q] ELSE q \in DOMAIN evo.mined
Looked(q) == With(cache, q, HasMinedCommitment(q))

\* Mutant: a commitment is required although one was mined.
RequiredAlthoughMined ==
    IF IsMiningPhase(Next1) THEN GetQuorumBlockHash(chain, Next1) ELSE {}

\* The quorums a block at the next height has to carry a commitment for.
GetNumCommitmentsRequired ==
    IF IsMiningPhase(Next1)
    THEN {q \in GetQuorumBlockHash(chain, Next1) : ~HasMinedCommitment(q)}
    ELSE {}

\* The cache after the quorums of the next height were looked up.
LookedNext ==
    IF IsMiningPhase(Next1) /\ GetQuorumBlockHash(chain, Next1) # {}
    THEN Looked(CHOOSE q \in GetQuorumBlockHash(chain, Next1) : TRUE)
    ELSE cache

-----------------------------------------------------------------------------
(* The mineable commitments: a set of commitments, and one of them per     *)
(* quorum that is offered for mining.  An overridden commitment stays in   *)
(* the set, because the code erases the new hash instead of the old one.   *)

\* Mutant: the last commitment is offered.
OfferLast(byQuorum, qc) == With(byQuorum, qc.q, qc)

Offer(byQuorum, qc) ==
    IF qc.q \notin DOMAIN byQuorum \/ qc.signers > byQuorum[qc.q].signers
    THEN With(byQuorum, qc.q, qc)
    ELSE byQuorum

AddMineableCommitment(qc) ==
    /\ minableCommitmentsByQuorum' = Offer(minableCommitmentsByQuorum, qc)
    /\ minableCommitments' =
         IF Offer(minableCommitmentsByQuorum, qc) = minableCommitmentsByQuorum
         THEN minableCommitments
         ELSE minableCommitments \cup {qc}

\* GetMineableCommitments: what the block template of the next height carries.
GetMineableCommitments ==
    {IF q \in DOMAIN minableCommitmentsByQuorum
     THEN minableCommitmentsByQuorum[q]
     ELSE [q |-> q, signers |-> 0] : q \in GetNumCommitmentsRequired}

-----------------------------------------------------------------------------
(* Connecting and disconnecting blocks.                                    *)

NonNull(b) == {qc \in b : qc.signers > 0}

\* The blocks that may arrive next; a block has at most one commitment (bad-qc-dup).
Offered ==
    {{}} \cup {{[q |-> q, signers |-> n]} : q \in BaseBlocks, n \in Signers \cup {0}}

\* The checks of ProcessBlock and ProcessCommitment.
ProcessBlockAccepts(b) ==
    /\ Cardinality(b) = Cardinality(GetNumCommitmentsRequired)
    /\ \A qc \in b :
         /\ qc.q \in GetQuorumBlockHash(chain, Next1)
         /\ qc.signers > 0 => ~HasMinedCommitment(qc.q) /\ IsMiningPhase(Next1)

\* What a connected block leaves in the evo database.
Mined(db, b, c) ==
    IF NonNull(b) = {}
    THEN [db EXCEPT !.best = c]
    ELSE LET qc == CHOOSE x \in NonNull(b) : TRUE IN
         [best |-> c,
          mined |-> With(db.mined, qc.q, [qc |-> qc, block |-> c]),
          heights |-> With(db.heights, Len(c), Len(qc.q))]

\* Mutant: the cache is not erased.
InMemoryKeepsCache(b) ==
    LET Q == NonNull(b) IN
    /\ cache' = LookedNext
    /\ minableCommitmentsByQuorum' =
         [q \in DOMAIN minableCommitmentsByQuorum \ {qc.q : qc \in Q} |-> minableCommitmentsByQuorum[q]]
    /\ minableCommitments' = minableCommitments \ Q

\* Mutant: the commitment stays offered for its quorum.
InMemoryKeepsOffer(b) ==
    LET Q == NonNull(b) IN
    /\ cache' = [q \in DOMAIN LookedNext \ {qc.q : qc \in Q} |-> LookedNext[q]]
    /\ minableCommitments' = minableCommitments \ Q
    /\ UNCHANGED minableCommitmentsByQuorum

\* What ProcessBlock changes in memory; no rollback of the evo database undoes this.
ProcessCommitmentInMemory(b) ==
    IF NonNull(b) = {}
    THEN cache' = LookedNext /\ UNCHANGED offers
    ELSE LET qc == CHOOSE x \in NonNull(b) : TRUE IN
         /\ cache' = Without(LookedNext, qc.q)
         /\ minableCommitmentsByQuorum' = Without(minableCommitmentsByQuorum, qc.q)
         /\ minableCommitments' = minableCommitments \ {qc}

\* Mutant: the height of the commitment stays.
UnminedKeepsHeight(db, c) ==
    [best |-> Front(c),
     mined |-> [q \in DOMAIN db.mined \ {qc.q : qc \in NonNull(Last(c))} |-> db.mined[q]],
     heights |-> db.heights]

\* What a disconnected block takes out of the evo database.
Unmined(db, c) ==
    LET b == Last(c) IN
    IF NonNull(b) = {}
    THEN [db EXCEPT !.best = Front(c)]
    ELSE LET qc == CHOOSE x \in NonNull(b) : TRUE IN
         [best |-> Front(c),
          mined |-> Without(db.mined, qc.q),
          heights |-> Without(db.heights, Len(c))]

\* Mutant: the cache keeps what it knew of the commitment.
UndoBlockKeepsCache(c) ==
    /\ evo' = Unmined(evo, c)
    /\ \/ NonNull(Last(c)) = {} /\ UNCHANGED <<cache, offers>>
       \/ \E qc \in NonNull(Last(c)) : AddMineableCommitment(qc) /\ UNCHANGED cache

\* UndoBlock for the last block of c: the commitment can be mined again.
UndoBlock(c) ==
    /\ evo' = Unmined(evo, c)
    /\ IF NonNull(Last(c)) = {}
       THEN UNCHANGED <<cache, offers>>
       ELSE LET qc == CHOOSE x \in NonNull(Last(c)) : TRUE IN
            /\ cache' = Without(cache, qc.q)
            /\ AddMineableCommitment(qc)

\* ConnectTip: the transaction of the evo database is committed.
ConnectTip ==
    /\ node = "up" /\ Len(chain) < MaxHeight
    /\ \E b \in Offered :
         /\ ProcessBlockAccepts(b)
         /\ evo' = Mined(evo, b, Append(chain, b))
         /\ ProcessCommitmentInMemory(b)
         /\ chain' = Append(chain, b)
    /\ UNCHANGED <<node, at, coins, disk, incoming, reader, flags, events>>

\* ConnectTip when ConnectBlock fails after ProcessBlock: the transaction is rolled back,
\* but a reader may have seen the commitment in it.
ConnectTipFails ==
    /\ node = "up" /\ Len(chain) < MaxHeight
    /\ \E b \in Offered :
         /\ ProcessBlockAccepts(b)
         /\ ProcessCommitmentInMemory(b)
         /\ \/ UNCHANGED <<reader, events>>
            \/ /\ reader = {} /\ events < MaxEvents
               /\ \E qc \in NonNull(b) : reader' = {[q |-> qc.q, exists |-> TRUE]}
               /\ events' = events + 1
    /\ UNCHANGED <<node, chain, at, coins, evo, disk, incoming, flags>>

\* ProcessBlock rejects a block, or CreateNewBlock assembles one: only the cache changes.
CheckNextBlock ==
    /\ node = "up"
    /\ cache' = LookedNext
    /\ UNCHANGED <<node, chain, at, coins, evo, disk, offers, incoming, reader, flags, events>>

DisconnectTip ==
    /\ node = "up" /\ chain # <<>> /\ events < MaxEvents
    /\ UndoBlock(chain)
    /\ chain' = Front(chain)
    /\ events' = events + 1
    /\ UNCHANGED <<node, at, coins, disk, incoming, reader, flags>>

-----------------------------------------------------------------------------
(* Commitments from peers and from the node's own key generation.          *)

\* ProcessMessage under cs_main.
ReceiveCommitment ==
    /\ node = "up" /\ incoming = {} /\ events < MaxEvents
    /\ \E q \in BaseBlocks, n \in Signers :
         /\ Len(q) >= Len(chain) - dkgInterval
         /\ cache' = Looked(q)
         /\ incoming' = IF HasMinedCommitment(q) THEN {}
                        ELSE {[qc |-> [q |-> q, signers |-> n], checked |-> FALSE]}
    /\ events' = events + 1
    /\ UNCHANGED <<node, chain, at, coins, evo, disk, offers, reader, flags>>

\* ProcessMessage under minableCommitmentsCs: a commitment with more signers than the
\* offered one, or as many, is dropped.
CompareCommitment ==
    /\ node \in Running
    /\ \E m \in incoming :
         /\ ~m.checked
         /\ incoming' =
              IF /\ m.qc.q \in DOMAIN minableCommitmentsByQuorum
                 /\ minableCommitmentsByQuorum[m.qc.q] \in minableCommitments
                 /\ minableCommitmentsByQuorum[m.qc.q].signers <= m.qc.signers
              THEN {}
              ELSE {[m EXCEPT !.checked = TRUE]}
    /\ UNCHANGED <<node, chain, at, coins, evo, disk, cache, offers, reader, flags, events>>

\* The end of ProcessMessage, after Verify.
AddReceived ==
    /\ node \in Running
    /\ \E m \in incoming : m.checked /\ AddMineableCommitment(m.qc)
    /\ incoming' = {}
    /\ UNCHANGED <<node, chain, at, coins, evo, disk, cache, reader, flags, events>>

\* CDKGSessionHandler::HandleDKGRound adds the final commitments of its round.
AddOwnCommitment ==
    /\ node \in Running /\ events < MaxEvents
    /\ \E q \in BaseBlocks, n \in Signers : AddMineableCommitment([q |-> q, signers |-> n])
    /\ events' = events + 1
    /\ UNCHANGED <<node, chain, at, coins, evo, disk, cache, incoming, reader, flags>>

-----------------------------------------------------------------------------
(* CQuorumManager::GetQuorum asks HasMinedCommitment without cs_main: the  *)
(* answer is read from the evo database and put into the cache later.      *)

ReadMined ==
    /\ node \in Running /\ reader = {} /\ events < MaxEvents
    /\ \E q \in BaseBlocks \ DOMAIN cache : reader' = {[q |-> q, exists |-> q \in DOMAIN evo.mined]}
    /\ events' = events + 1
    /\ UNCHANGED <<node, chain, at, coins, evo, disk, cache, offers, incoming, flags>>

InsertMined ==
    /\ node \in Running
    /\ \E r \in reader :
         /\ cache' = With(cache, r.q, r.exists)
         /\ straddled' = (straddled \/ r.exists # (r.q \in DOMAIN evo.mined))
    /\ reader' = {}
    /\ UNCHANGED <<node, chain, at, coins, evo, disk, offers, incoming, torn, events>>

-----------------------------------------------------------------------------
(* Writing to disk, crashing and starting.                                 *)

\* FlushStateToDisk: the first batches of coins, with the mark of an unfinished write.
StartFlush ==
    /\ node = "up" /\ coins.best # chain
    /\ node' = "flushing" /\ coins' = [coins EXCEPT !.heads = {chain}]
    /\ UNCHANGED <<chain, at, evo, disk, memory, flags, events>>

\* Mutant: the mark of the unfinished write is not erased.
CoinsWrittenMarked ==
    /\ node = "flushing"
    /\ node' = "flushed" /\ coins' = [coins EXCEPT !.best = chain]
    /\ UNCHANGED <<chain, at, evo, disk, memory, flags, events>>

\* The last batch of coins.
CoinsWritten ==
    /\ node = "flushing"
    /\ node' = "flushed" /\ coins' = [best |-> chain, heads |-> {}]
    /\ UNCHANGED <<chain, at, evo, disk, memory, flags, events>>

\* FlushStateToDisk goes on with CommitRootTransaction of the evo database.
CommitRootTransaction ==
    /\ node = "flushed"
    /\ node' = "up" /\ disk' = evo
    /\ UNCHANGED <<chain, at, coins, evo, memory, flags, events>>

Forget ==
    /\ chain' = <<>> /\ at' = <<>>
    /\ cache' = NoMap /\ minableCommitments' = {} /\ minableCommitmentsByQuorum' = NoMap
    /\ incoming' = {} /\ reader' = {}

Crash ==
    /\ node \in Running \cup Starting /\ events < MaxEvents
    /\ node' = "down" /\ events' = events + 1
    /\ torn' = (torn \/ node \in {"flushed", "replayed"})
    /\ Forget /\ evo' = disk
    /\ UNCHANGED <<coins, disk, straddled>>

\* LoadChainTip.
LoadChainTip ==
    /\ node' = "verify" /\ chain' = coins.best /\ at' = coins.best

\* ReplayBlocks finds a finished write, or the blocks to replay.
Start ==
    /\ node = "down"
    /\ \/ coins.heads = {} /\ LoadChainTip
       \/ /\ coins.heads # {}
          /\ node' = IF disk.best = coins.best THEN "rollback" ELSE "failed"
          /\ at' = coins.best /\ UNCHANGED chain
    /\ UNCHANGED <<coins, evo, disk, memory, flags, events>>

\* DisconnectBlock for the block the start has come to.
DisconnectBlock ==
    IF evo.best # at
    THEN node' = "failed" /\ UNCHANGED <<at, evo, memory>>
    ELSE UndoBlock(at) /\ at' = Front(at) /\ UNCHANGED <<node, incoming, reader>>

NewHead == CHOOSE c \in coins.heads : TRUE

\* ReplayBlocks: rollback along the old branch to the fork.
RollBack ==
    /\ node = "rollback"
    /\ \/ /\ IsPrefix(at, NewHead)
          /\ node' = "forward" /\ UNCHANGED <<at, evo, memory>>
       \/ ~IsPrefix(at, NewHead) /\ DisconnectBlock
    /\ UNCHANGED <<chain, coins, disk, flags, events>>

\* RollforwardBlock: the active chain is empty, so ProcessBlock skips the number of
\* commitments, but the assertion of IsMiningPhase fails for a commitment that is not null.
RollForward ==
    /\ node = "forward" /\ at # NewHead
    /\ LET b == NewHead[Len(at) + 1] IN
       /\ node' = CASE NonNull(b) = {} -> node
                    [] \E qc \in NonNull(b) : HasMinedCommitment(qc.q) -> "duplicate"
                    [] OTHER -> "aborted"
       /\ at' = IF NonNull(b) = {} THEN Append(at, b) ELSE at
    /\ UNCHANGED <<chain, coins, evo, disk, memory, flags, events>>

\* The end of ReplayBlocks: the coins are written.
Replayed ==
    /\ node = "forward" /\ at = NewHead
    /\ node' = "replayed"
    /\ evo' = [evo EXCEPT !.best = NewHead]
    /\ coins' = [best |-> NewHead, heads |-> {}]
    /\ UNCHANGED <<chain, at, disk, memory, flags, events>>

\* Mutant: the evo database is not written.
CommitReplayForgotten ==
    /\ node = "replayed"
    /\ LoadChainTip
    /\ UNCHANGED <<coins, evo, disk, memory, flags, events>>

\* AppInitMain goes on with CommitRootTransaction and LoadChainTip.
CommitReplay ==
    /\ node = "replayed"
    /\ disk' = evo /\ LoadChainTip
    /\ UNCHANGED <<coins, evo, memory, flags, events>>

\* VerifyDB has come to its depth or to the genesis block.
VerifyDepthReached ==
    Len(at) <= Len(chain) - nCheckDepth \/ (at = <<>> /\ evo.best = at)

\* VerifyDB, with -checklevel 3 as by default, disconnects the last blocks in a transaction
\* it rolls back.  The cache of the coins starts empty, so the first block is disconnected;
\* once the cache is full, the blocks after it are not.
VerifyDB ==
    /\ node = "verify"
    /\ \/ /\ VerifyDepthReached \/ at # chain
          /\ node' = "up" /\ at' = <<>> /\ evo' = disk /\ UNCHANGED memory
       \/ ~VerifyDepthReached /\ DisconnectBlock
    /\ UNCHANGED <<chain, coins, disk, flags, events>>

\* CEvoDB is opened with fWipe.
WipeEvoDb == disk' = EmptyEvo /\ evo' = EmptyEvo

\* The operator starts again with -reindex: both databases are wiped, and the blocks are
\* connected again.
Reindex ==
    /\ node \in {"failed", "duplicate", "aborted"}
    /\ node' = "up" /\ coins' = [best |-> <<>>, heads |-> {}] /\ WipeEvoDb
    /\ Forget
    /\ torn' = FALSE /\ straddled' = FALSE
    /\ UNCHANGED events

Next ==
    \/ ConnectTip \/ ConnectTipFails \/ CheckNextBlock \/ DisconnectTip
    \/ ReceiveCommitment \/ CompareCommitment \/ AddReceived \/ AddOwnCommitment
    \/ ReadMined \/ InsertMined
    \/ StartFlush \/ CoinsWritten \/ CommitRootTransaction
    \/ Crash \/ Start \/ RollBack \/ RollForward \/ Replayed \/ CommitReplay
    \/ VerifyDB \/ Reindex

Spec == Init /\ [][Next]_vars

-----------------------------------------------------------------------------
(* Properties.                                                             *)

Stages(c) == {Prefix(c, h) : h \in 1 .. Len(c)}

\* The type invariant: CQuorumBlockProcessor's maps hold commitments with signers, nothing
\* is being received or read while the node is not running, and replayed blocks meet a
\* duplicate commitment (bad-qc-dup) only if a wrong answer in the cache let it in.
TypeOK ==
    /\ node \in Running \cup Starting \cup {"down", "failed", "duplicate", "aborted"}
    /\ node = "duplicate" => straddled
    /\ Len(chain) \in 0 .. MaxHeight
    /\ \A q \in DOMAIN cache : cache[q] \in BOOLEAN
    /\ \A qc \in minableCommitments : qc.signers \in Signers
    /\ Cardinality(incoming) <= 1 /\ (incoming # {} => node \in Running)
    /\ Cardinality(reader) <= 1 /\ (reader # {} => node \in Running)
    /\ coins.heads # {} => node \notin {"up", "flushed", "replayed", "verify"}
    /\ torn \in BOOLEAN /\ straddled \in BOOLEAN

\* The evo database says of the active chain what its blocks say: the commitments
\* GetMinedCommitment finds and the heights GetMinedCommitmentsUntilBlock walks are those
\* of the blocks of the chain, after reorganisations, rolled back blocks, crashes,
\* replayed blocks and VerifyDB.
MinedMatchesChain ==
    node \in Running /\ ~straddled =>
        LET full == {c \in Stages(chain) : NonNull(Last(c)) # {}}
            qcOf(c) == CHOOSE qc \in NonNull(Last(c)) : TRUE
        IN /\ evo.best = chain
           /\ DOMAIN evo.mined = {qcOf(c).q : c \in full}
           /\ \A c \in full : evo.mined[qcOf(c).q] = [qc |-> qcOf(c), block |-> c]
           /\ DOMAIN evo.heights = {Len(c) : c \in full}
           /\ \A c \in full : evo.heights[Len(c)] = Len(qcOf(c).q)

\* mapHasMinedCommitmentCache disagrees with the evo database it stands for only after a
\* reader outside cs_main has put an answer into it that had become wrong meanwhile.
CacheTrue ==
    node \in Running /\ ~straddled =>
        \A q \in DOMAIN cache : cache[q] = (q \in DOMAIN evo.mined)

\* The quorums that need a commitment at height h on top of c, told from the blocks alone.
RuleFor(c, h) ==
    {q \in GetQuorumBlockHash(c, h) :
        IsMiningPhase(h) /\ \A p \in Stages(c) : \A qc \in NonNull(Last(p)) : qc.q # q}

\* "there is always a (possibly null) commitment while in the mining phase until the first
\* non-null commitment has been mined", and none after it (comment in ProcessBlock): every
\* block of the active chain carries exactly the commitments this rule asks for.  It holds
\* until a reader puts an overtaken answer into the cache (straddled): a block can then be
\* accepted with a commitment too many or too few.
CommitmentRule ==
    node \in Running /\ ~straddled =>
        \A h \in 1 .. Len(chain) :
            {qc.q : qc \in chain[h]} = RuleFor(Prefix(chain, h - 1), h)

\* What GetMineableCommitments puts into a block template follows the same rule, and
\* ProcessBlock accepts it, so TestBlockValidity does not fail in CreateNewBlock.
TemplateIsValid ==
    node = "up" /\ ~straddled =>
        /\ {qc.q : qc \in GetMineableCommitments} = RuleFor(chain, Next1)
        /\ ProcessBlockAccepts(GetMineableCommitments)

\* The commitment offered for a quorum is one for that quorum and is in minableCommitments,
\* so minableCommitments.at() of AddMineableCommitment and GetMineableCommitments never throws.
OfferedKnown ==
    \A q \in DOMAIN minableCommitmentsByQuorum :
        /\ minableCommitmentsByQuorum[q].q = q
        /\ minableCommitmentsByQuorum[q] \in minableCommitments

\* While a commitment is offered for a quorum, it is only replaced by one with more signers.
OfferImproves ==
    [][\A q \in DOMAIN minableCommitmentsByQuorum \cap DOMAIN minableCommitmentsByQuorum' :
          \/ minableCommitmentsByQuorum'[q] = minableCommitmentsByQuorum[q]
          \/ minableCommitmentsByQuorum'[q].signers > minableCommitmentsByQuorum[q].signers]_vars

\* The evo database fails VerifyBestBlock at the start ("you must reindex") only after a
\* crash between the writes of the coin database and of the evo database.
OnlyTornFails == node = "failed" => torn

\* "skip these checks when replaying blocks after the crash" (ProcessBlock) and "skip
\* `bad-qc-block` checks below when replaying blocks after the crash" (ProcessCommitment):
\* replaying blocks that were connected before gets to its end.
ReplayNeverAborts == node # "aborted"
=============================================================================
