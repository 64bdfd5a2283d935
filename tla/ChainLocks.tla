----------------------------- MODULE ChainLocks -----------------------------
(***************************************************************************)
(* CChainLocksHandler (llmq/chainlocks.cpp) of one node, together with the *)
(* part of CChainState (validation.cpp) it drives: accepting headers and   *)
(* blocks, EnforceBlock and ActivateBestChain.                             *)
(*                                                                         *)
(* Several threads call the handler.  It holds its lock cs only for short  *)
(* sections, so ProcessNewChainLock and the scheduler's job are split into *)
(* the steps between which other threads run.  A ChainLock is identified   *)
(* with the block it locks: a valid one carries the height of its block.   *)
(***************************************************************************)
EXTENDS Integers, FiniteSets

CONSTANTS
    Blocks,
    Genesis,
    Tree,       \* the tree of all blocks, see below
    NoBlock,    \* the null pointer or the null ChainLock
    Locks,      \* the blocks for which a quorum signature exists
    SignOffset, \* SIGN_HEIGHT_OFFSET
    MsgHand,    \* the thread that processes messages of peers
    Workers,    \* threads that process recovered signatures and RPC calls
    Masternode, \* fMasternodeMode
    MaxToggles, \* bound on the number of changes of spork 19
    MaxInvalid  \* bound on the number of invalidateblock calls

Parent == Tree.parent \* Parent[b], for every block but Genesis

Height == Tree.height \* Height[b], the nHeight of b

Chain == Tree.chain   \* Chain[b], the block b and its ancestors

ASSUME TreeAssumption ==
    /\ Genesis \in Blocks
    /\ Parent \in [Blocks \ {Genesis} -> Blocks]
    /\ Height \in [Blocks -> Nat] /\ Height[Genesis] = 0
    /\ Chain \in [Blocks -> SUBSET Blocks] /\ Chain[Genesis] = {Genesis}
    /\ \A b \in Blocks \ {Genesis} : /\ Height[b] = Height[Parent[b]] + 1
                                     /\ Chain[b] = {b} \cup Chain[Parent[b]]

ASSUME ChainLocksAssumption ==
    /\ NoBlock \notin Blocks
    /\ Locks \subseteq Blocks \ {Genesis}
    /\ SignOffset \in Nat
    /\ MsgHand \notin Workers
    /\ Masternode \in BOOLEAN
    /\ MaxToggles \in Nat /\ MaxInvalid \in Nat

\* The quorums have locked the blocks of one chain only.
ASSUME LocksAgree == \A a, b \in Locks : a \in Chain[b] \/ b \in Chain[a]

VARIABLES
    headers,     \* the block index
    data,        \* blocks whose transactions have been stored
    conflicting, \* blocks with BLOCK_CONFLICT_CHAINLOCK
    failed,      \* blocks with BLOCK_FAILED_VALID
    tip,         \* the tip of m_chain
    sporkOn,     \* SPORK_19_CHAINLOCKS_ENABLED
    isEnabled,
    seen,        \* seenChainLocks
    best,        \* bestChainLock
    bestIndex,   \* bestChainLockBlockIndex, bestChainLockWithKnownBlock
    lastNotify,  \* lastNotifyChainLockBlockIndex
    lastSigned,  \* lastSignedMsgHash, lastSignedHeight
    call,        \* call[c]: progress of thread c in ProcessNewChainLock
    job,         \* progress of the scheduler thread
    target,      \* the block the scheduler thread works on
    toggles,     \* number of changes of spork 19 so far
    invalids     \* number of invalidateblock calls so far

index == <<headers, data>>
marks == <<conflicting, failed, tip>>
operator == <<sporkOn, toggles, invalids>>
locks == <<isEnabled, best, bestIndex, lastNotify>>
scheduler == <<job, target>>
vars == <<index, marks, operator, locks, seen, lastSigned, call, scheduler>>

Callers == Workers \cup {MsgHand}

Idle == [pc |-> "idle", clsig |-> NoBlock, pindex |-> NoBlock]

\* The type invariant: marks, tip and bestChainLockBlockIndex refer to blocks that are in
\* the block index.
TypeOK ==
    /\ data \subseteq headers /\ headers \subseteq Blocks
    /\ conflicting \subseteq headers /\ failed \subseteq headers
    /\ tip \in data
    /\ sporkOn \in BOOLEAN /\ isEnabled \in BOOLEAN
    /\ seen \subseteq Locks
    /\ best \in Locks \cup {NoBlock}
    /\ bestIndex \in (Locks \cap headers) \cup {NoBlock}
    /\ lastNotify \in (Locks \cap headers) \cup {NoBlock}
    /\ lastSigned \in Blocks \cup {NoBlock}
    /\ call \in [Callers -> [pc : {"idle", "wasOn", "wasOff", "reset", "filter",
                                   "verify", "lookup", "update"},
                             clsig : Locks \cup {NoBlock},
                             pindex : Locks \cup {NoBlock}]]
    /\ job \in {"idle", "wasOn", "wasOff", "reset", "enforce", "mark", "activate",
                "notify", "sign", "commit"}
    /\ target \in headers \cup {NoBlock}
    /\ toggles \in 0..MaxToggles /\ invalids \in 0..MaxInvalid

Init ==
    /\ headers = {Genesis} /\ data = {Genesis}
    /\ conflicting = {} /\ failed = {} /\ tip = Genesis
    /\ sporkOn = TRUE /\ isEnabled = FALSE
    /\ seen = {}
    /\ best = NoBlock /\ bestIndex = NoBlock /\ lastNotify = NoBlock
    /\ lastSigned = NoBlock
    /\ call = [c \in Callers |-> Idle]
    /\ job = "idle" /\ target = NoBlock
    /\ toggles = 0 /\ invalids = 0

-----------------------------------------------------------------------------
(* Queries.                                                                *)

HeightOf(b) == IF b = NoBlock THEN -1 ELSE Height[b]


\* InternalHasConflictingChainLock.
HasConflictingChainLock(b) ==
    /\ isEnabled
    /\ bestIndex # NoBlock
    /\ Height[b] <= Height[bestIndex]
    /\ b \notin Chain[bestIndex]

\* VerifyRecoveredSig of a genuine signature: the quorum that signed is found
\* only if the active chain is long enough.
VerifyChainLock(b) ==
    /\ Height[b] - SignOffset >= 0
    /\ Height[b] - SignOffset <= Height[tip]

-----------------------------------------------------------------------------
(* CheckActiveState, in three steps: oldIsEnabled is read, isEnabled is     *)
(* set, and after a change to enabled the ChainLocks are reset under cs.    *)

ReadEnabled == IF isEnabled THEN "wasOn" ELSE "wasOff"

\* The step that follows when oldIsEnabled has been read as pc says.
AfterSet(pc, next) == IF pc = "wasOff" /\ sporkOn THEN "reset" ELSE next

SetEnabled == isEnabled' = sporkOn /\ UNCHANGED <<best, bestIndex, lastNotify>>

\* What was locked before the spork was switched off is not enforced any more.
ResetLocks ==
    /\ best' = NoBlock /\ bestIndex' = NoBlock /\ lastNotify' = NoBlock
    /\ UNCHANGED isEnabled

-----------------------------------------------------------------------------
(* ProcessNewChainLock.                                                    *)

Enter(c, b) ==
    /\ call[c] = Idle
    /\ call' = [call EXCEPT ![c] = [Idle EXCEPT !.pc = ReadEnabled, !.clsig = b]]
    /\ UNCHANGED <<index, marks, operator, locks, seen, lastSigned, scheduler>>

\* A CLSIG message.
ProcessMessage(b) == sporkOn /\ Enter(MsgHand, b)

\* The quorum has signed the tip this masternode wanted to be signed.
HandleNewRecoveredSig(c, b) ==
    /\ isEnabled
    /\ b = lastSigned
    /\ HeightOf(best) < Height[b]
    /\ Enter(c, b)

\* The submitchainlock RPC.
SubmitChainLock(c, b) ==
    /\ HeightOf(best) < Height[b]
    /\ VerifyChainLock(b)
    /\ Enter(c, b)

CheckActiveState(c) ==
    /\ \/ /\ call[c].pc \in {"wasOn", "wasOff"}
          /\ SetEnabled
          /\ call' = [call EXCEPT ![c].pc = AfterSet(@, "filter")]
       \/ /\ call[c].pc = "reset"
          /\ ResetLocks
          /\ call' = [call EXCEPT ![c].pc = "filter"]
    /\ UNCHANGED <<index, marks, operator, seen, lastSigned, scheduler>>

\* The first section under cs: ChainLocks that are known or not higher than the
\* best one are ignored.
FilterChainLock(c) ==
    LET b == call[c].clsig
    IN  /\ call[c].pc = "filter"
        /\ seen' = seen \cup {b}
        /\ call' = [call EXCEPT ![c] =
                      IF b \in seen \/ HeightOf(b) <= HeightOf(best) THEN Idle
                      ELSE [@ EXCEPT !.pc = "verify"]]
        /\ UNCHANGED <<index, marks, operator, locks, lastSigned, scheduler>>

VerifyStep(c) ==
    /\ call[c].pc = "verify"
    /\ call' = [call EXCEPT ![c] = IF VerifyChainLock(@.clsig)
                                   THEN [@ EXCEPT !.pc = "lookup"] ELSE Idle]
    /\ UNCHANGED <<index, marks, operator, locks, seen, lastSigned, scheduler>>

LookupBlockIndex(c) ==
    /\ call[c].pc = "lookup"
    /\ call' = [call EXCEPT ![c].pc = "update",
                            ![c].pindex = IF call[c].clsig \in headers
                                          THEN call[c].clsig ELSE NoBlock]
    /\ UNCHANGED <<index, marks, operator, locks, seen, lastSigned, scheduler>>

\* Mutant: the block index entry is not checked for null.
UpdateBestUnchecked(c) ==
    /\ call[c].pc = "update"
    /\ best' = call[c].clsig
    /\ bestIndex' = call[c].clsig
    /\ call' = [call EXCEPT ![c] = Idle]
    /\ UNCHANGED <<index, marks, operator, isEnabled, lastNotify, seen, lastSigned,
                   scheduler>>

\* The second section under cs.  (The job it schedules is one the scheduler
\* thread runs every five seconds in any case.)
UpdateBest(c) ==
    /\ call[c].pc = "update"
    /\ best' = call[c].clsig
    /\ bestIndex' = IF call[c].pindex # NoBlock THEN call[c].pindex ELSE bestIndex
    /\ call' = [call EXCEPT ![c] = Idle]
    /\ UNCHANGED <<index, marks, operator, isEnabled, lastNotify, seen, lastSigned,
                   scheduler>>

-----------------------------------------------------------------------------
(* Headers, blocks and the active chain.                                   *)

\* BLOCK_FAILED_MASK: the code marks the descendants of a failed block as
\* BLOCK_FAILED_CHILD when it comes across them, and here they always count.
Failed(b) == Chain[b] \cap failed # {}

\* The handler's AcceptedBlockHeader: a header that comes in after its ChainLock.
AcceptedBlockHeader(b) == IF b = best THEN b ELSE bestIndex

\* BlockManager::AcceptBlockHeader for a new header, which notifies the
\* handler unless the header conflicts.
AcceptBlockHeader(c, b) ==
    /\ call[c] = Idle
    /\ b \notin headers
    /\ Parent[b] \in headers \ conflicting
    /\ ~Failed(Parent[b])
    /\ headers' = headers \cup {b}
    /\ IF HasConflictingChainLock(b)
       THEN conflicting' = conflicting \cup {b} /\ UNCHANGED bestIndex
       ELSE /\ bestIndex' = AcceptedBlockHeader(b)
            /\ UNCHANGED conflicting
    /\ UNCHANGED <<data, failed, tip, operator, isEnabled, best, lastNotify, seen,
                   lastSigned, call, scheduler>>

\* The transactions of b arrive.
AcceptBlock(c, b) ==
    /\ call[c] = Idle
    /\ b \in headers \ (data \cup conflicting) /\ ~Failed(b)
    /\ data' = data \cup {b}
    /\ UNCHANGED <<headers, marks, operator, locks, seen, lastSigned, call, scheduler>>

Usable == {b \in data : Chain[b] \subseteq data \ (conflicting \cup failed)}

\* FindMostWorkChain: every block carries the same work, and between chains of
\* the same work the active one is kept.
MostWork == {b \in Usable : \A o \in Usable : Height[o] <= Height[b]}

Better == {b \in MostWork : Height[b] > Height[tip]}

Lowest(S) == CHOOSE x \in S : \A y \in S : Height[x] <= Height[y]

Highest(S) == CHOOSE x \in S : \A y \in S : Height[y] <= Height[x]

\* One iteration of the outer loop of ActivateBestChain: the chain is switched
\* towards b until it has more work than before.  ConnectBlock refuses a block
\* that conflicts with the ChainLock; the old chain is then connected again, as
\* far as it does not conflict itself.
ActivateBestChainStep(b) ==
    /\ b \in Better
    /\ LET path == {x \in Chain[b] \ Chain[tip] : Height[x] <= Height[tip] + 1}
           bad == {x \in path : HasConflictingChainLock(x)}
           back == {x \in Chain[tip] \ Chain[b] : HasConflictingChainLock(x)}
       IN  CASE bad = {} -> tip' = Highest(path) /\ UNCHANGED failed
             [] bad # {} /\ back = {} ->
                   failed' = failed \cup {Lowest(bad)} /\ UNCHANGED tip
             [] OTHER -> /\ failed' = failed \cup {Lowest(bad), Lowest(back)}
                         /\ tip' = Parent[Lowest(back)]
    /\ UNCHANGED <<index, conflicting, operator, locks, seen, lastSigned, call,
                   scheduler>>

\* The invalidateblock RPC.
InvalidateBlock(b) ==
    /\ invalids < MaxInvalid
    /\ b \in headers \ {Genesis}
    /\ failed' = failed \cup {b}
    /\ tip' = IF b \in Chain[tip] THEN Parent[b] ELSE tip
    /\ invalids' = invalids + 1
    /\ UNCHANGED <<index, conflicting, sporkOn, toggles, locks, seen, lastSigned,
                   call, scheduler>>

-----------------------------------------------------------------------------
(* The scheduler thread.                                                   *)

StartJob ==
    /\ job = "idle"
    /\ job' = ReadEnabled
    /\ UNCHANGED <<index, marks, operator, locks, seen, lastSigned, call, target>>

JobCheckActiveState ==
    /\ \/ job \in {"wasOn", "wasOff"} /\ SetEnabled /\ job' = AfterSet(job, "enforce")
       \/ job = "reset" /\ ResetLocks /\ job' = "enforce"
    /\ UNCHANGED <<index, marks, operator, seen, lastSigned, call, target>>

\* EnforceBestChainLock, the first section under cs.
EnforceBestChainLock ==
    /\ job = "enforce"
    /\ IF isEnabled /\ bestIndex # NoBlock
       THEN job' = "mark" /\ target' = bestIndex
       ELSE job' = "sign" /\ UNCHANGED target
    /\ UNCHANGED <<index, marks, operator, locks, seen, lastSigned, call>>

\* Mutant: the block of the locked chain is not skipped.
SiblingsAndSelf(walk) == {x \in headers \ {Genesis} :
                            \E w \in walk : Parent[x] = Parent[w]}

Siblings(walk) == {x \in headers \ (walk \cup {Genesis}) :
                     \E w \in walk : Parent[x] = Parent[w]}

\* Mutant: nothing is disconnected.
DisconnectedTipKept(walk) == tip

\* MarkConflictingBlock disconnects the active chain down to where walk starts.
DisconnectedTip(walk) == IF walk = {} THEN tip ELSE Parent[Lowest(walk)]

\* Mutant: the ancestors keep their flags.
ResetBlockFailureFlagsBelow(b) == {x \in failed : b \notin Chain[x]}

\* What remains failed when b is reconsidered with its ancestors and descendants.
ResetBlockFailureFlags(b) == {x \in failed : b \notin Chain[x] /\ x \notin Chain[b]}

\* Children of the ancestors that are reconsidered.  One that carries the mark
\* BLOCK_FAILED_CHILD is failed on its own from then on.
KeptFailed(b) == {x \in headers \ (Chain[b] \cup {Genesis}) :
                    Parent[x] \in Chain[b] \ {b} /\ Failed(Parent[x])}

\* CChainState::EnforceBlock and MarkConflictingBlock: the siblings of the
\* blocks between the active chain and target are marked, after the active chain
\* has been disconnected down to the fork.
EnforceBlock ==
    /\ job = "mark"
    /\ LET walk == Chain[target] \ Chain[tip]
           disconnected == IF walk = {} THEN {} ELSE Chain[tip] \ Chain[target]
       IN  /\ conflicting' = conflicting \cup Siblings(walk) \cup disconnected
           /\ tip' = DisconnectedTip(walk)
    /\ IF Failed(target)
       THEN \E kept \in SUBSET KeptFailed(target) :
               failed' = ResetBlockFailureFlags(target) \cup kept
       ELSE UNCHANGED failed
    /\ job' = "activate"
    /\ UNCHANGED <<index, operator, locks, seen, lastSigned, call, target>>

\* ActivateBestChain has returned, if it was needed at all.
ChainActivated ==
    /\ job = "activate"
    /\ target \in Chain[tip] \/ Better = {}
    /\ job' = IF target \in Chain[tip] THEN "notify" ELSE "sign"
    /\ UNCHANGED <<index, marks, operator, locks, seen, lastSigned, call, target>>

NotifyChainLock ==
    /\ job = "notify"
    /\ lastNotify' = target
    /\ job' = "sign"
    /\ UNCHANGED <<index, marks, operator, isEnabled, best, bestIndex, seen,
                   lastSigned, call, target>>

\* Cleanup forgets some of the seen ChainLocks.  TrySignChainTip then decides
\* whether to sign the tip; whether the node is synced and the transactions of
\* the last blocks are locked or old enough is left open.
TrySignChainTip ==
    /\ job = "sign"
    /\ \E old \in SUBSET seen : seen' = seen \ old
    /\ \/ /\ Masternode /\ isEnabled /\ tip # Genesis
          /\ Height[tip] # HeightOf(lastSigned)
          /\ HeightOf(best) < Height[tip]
          /\ ~HasConflictingChainLock(tip)
          /\ job' = "commit" /\ target' = tip
       \/ job' = "idle" /\ target' = NoBlock
    /\ UNCHANGED <<index, marks, operator, locks, lastSigned, call>>

\* The last section of TrySignChainTip under cs, and AsyncSignIfMember.
SignTip ==
    /\ job = "commit"
    /\ lastSigned' = IF HeightOf(best) >= Height[target] THEN lastSigned ELSE target
    /\ job' = "idle" /\ target' = NoBlock
    /\ UNCHANGED <<index, marks, operator, locks, seen, call>>

-----------------------------------------------------------------------------
ToggleSpork ==
    /\ toggles < MaxToggles
    /\ sporkOn' = ~sporkOn /\ toggles' = toggles + 1
    /\ UNCHANGED <<invalids, index, marks, locks, seen, lastSigned, call, scheduler>>

\* The steps of a thread inside ProcessNewChainLock.
CallStep(c) ==
    \/ CheckActiveState(c) \/ FilterChainLock(c)
    \/ VerifyStep(c) \/ LookupBlockIndex(c) \/ UpdateBest(c)

\* The steps of the scheduler thread.
JobStep ==
    \/ StartJob \/ JobCheckActiveState \/ EnforceBestChainLock \/ EnforceBlock
    \/ ChainActivated \/ NotifyChainLock \/ TrySignChainTip \/ SignTip

Next ==
    \/ \E b \in Locks :
          \/ ProcessMessage(b)
          \/ \E c \in Workers : HandleNewRecoveredSig(c, b) \/ SubmitChainLock(c, b)
    \/ \E c \in Callers :
          \/ CallStep(c)
          \/ \E b \in Blocks : AcceptBlockHeader(c, b) \/ AcceptBlock(c, b)
    \/ \E b \in Blocks : ActivateBestChainStep(b) \/ InvalidateBlock(b)
    \/ JobStep
    \/ ToggleSpork

Spec == Init /\ [][Next]_vars

\* The scheduler thread runs its job every five seconds, and a thread inside
\* ProcessNewChainLock or ActivateBestChain goes on.
Fairness ==
    /\ WF_vars(JobStep)
    /\ WF_vars(\E b \in Blocks : ActivateBestChainStep(b))
    /\ \A c \in Callers : WF_vars(CallStep(c))

FairSpec == Spec /\ Fairness

-----------------------------------------------------------------------------
(* Properties.                                                             *)


\* No block of the locked chain is ever marked as conflicting or as failed, so a
\* node cannot cut itself off from the chain it has to follow, not even when two
\* threads receive two ChainLocks, the second section under cs stores them in the
\* wrong order, and a job still enforces the older one.
LockedChainUsable ==
    \A b \in Locks : Chain[b] \cap (conflicting \cup failed) = {}

\* The active chain never holds a block that is marked as conflicting, although
\* blocks are marked while other threads extend and switch the chain.
ActiveChainNotConflicting == Chain[tip] \cap conflicting = {}

\* "when the block or the header later comes in, we will enforce the correct
\* chain" (chainlocks.cpp:168): once no thread is working on a ChainLock, the
\* best one is the one that will be enforced, if its header is known.  It does
\* not hold for two threads: a header accepted after the lookup of the block
\* index and before the second section under cs is not noticed by either side.
KnownLockIsEnforced ==
    (\A c \in Callers : call[c] = Idle) /\ best \in headers => bestIndex = best

\* The best ChainLock gets its block into the active chain once all blocks up to
\* it have arrived, and its users are notified, unless a newer ChainLock takes
\* over or ChainLocks are switched off.  This is for one thread that receives
\* ChainLocks and headers in turn: see KnownLockIsEnforced for two.
LockGetsActive ==
    \A b \in Locks :
        (best = b /\ Chain[b] \subseteq data /\ sporkOn)
            ~> ((b \in Chain[tip] /\ lastNotify = b) \/ best # b \/ ~sporkOn)

=============================================================================
