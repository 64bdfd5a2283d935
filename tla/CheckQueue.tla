------------------------------ MODULE CheckQueue ------------------------------
(***************************************************************************)
(* CCheckQueue (checkqueue.h), the pool of threads that verifies the       *)
(* scripts of a block.  ConnectBlock, the master, adds the checks of one   *)
(* transaction after the other and then joins the workers until nothing is *)
(* left.  A check is represented by its outcome.                           *)
(*                                                                         *)
(* A step is what a thread does while it holds m_mutex, which it gives up  *)
(* at the end of the section or in a wait; notifications that are sent     *)
(* after the mutex has been released are steps of their own.               *)
(***************************************************************************)
EXTENDS Integers, Sequences, FiniteSets, FiniteSetsExt

CONSTANTS
    Workers,
    Master,
    nBatchSize,
    MaxChecks   \* bound on the number of checks of one block

ASSUME CheckQueueAssumption ==
    /\ IsFiniteSet(Workers) /\ Master \notin Workers
    /\ nBatchSize \in Nat \ {0} /\ MaxChecks \in Nat

VARIABLES
    queue,        \* the outcomes of the checks nobody has taken yet
    nIdle, nTotal, fAllOk, nTodo,
    request_stop, \* m_request_stop
    thread,       \* thread[t]: the local variables of t in Loop
    master,       \* what ConnectBlock does with its CCheckQueueControl
    pool,         \* progress of the thread that starts and stops the workers
    added,        \* the outcomes of the checks added for this block
    fRet          \* the result of the last Wait

vars == <<queue, nIdle, nTotal, fAllOk, nTodo, request_stop, thread, master, pool,
          added, fRet>>

Threads == Workers \cup {Master}

Outcomes == UNION {[1..n -> BOOLEAN] : n \in 0..MaxChecks}

\* A thread that is not in Loop, and the local variables at its start.
Off == [pc |-> "off", nNow |-> 0, vChecks |-> <<>>, fOk |-> TRUE]

Started == [Off EXCEPT !.pc = "lock"]

\* The threads of S that wait on their condition variable are notified.
Notified(th, S) == [t \in Threads |-> IF t \in S /\ th[t].pc = "wait"
                                      THEN [th[t] EXCEPT !.pc = "woken"] ELSE th[t]]

Waiting == {w \in Workers : thread[w].pc = "wait"}

Init ==
    /\ queue = <<>> /\ added = <<>>
    /\ nIdle = 0 /\ nTotal = 0 /\ nTodo = 0
    /\ fAllOk = TRUE /\ fRet = TRUE /\ request_stop = FALSE
    /\ thread = [t \in Threads |-> Off]
    /\ master = "idle" /\ pool = "off"

-----------------------------------------------------------------------------
(* Loop.                                                                   *)

Least(a, b) == IF a <= b THEN a ELSE b

\* The size of the next batch.
BatchSize(total, idle) ==
    LET n == Least(nBatchSize, Len(queue) \div (total + idle + 1))
    IN  IF n = 0 THEN 1 ELSE n

AllOk(s) == \A i \in 1..Len(s) : s[i]

\* Mutant: the bad state is kept for the next block.
MasterReturnNoReset(ok, total, idle, th) ==
    /\ nTotal' = total - 1 /\ nIdle' = idle
    /\ fRet' = ok /\ fAllOk' = ok
    /\ thread' = [th EXCEPT ![Master] = Off]
    /\ master' = "idle"
    /\ UNCHANGED queue

\* The master leaves the pool with the result and resets it for the next block.
MasterReturn(ok, total, idle, th) ==
    /\ nTotal' = total - 1 /\ nIdle' = idle
    /\ fRet' = ok /\ fAllOk' = TRUE
    /\ thread' = [th EXCEPT ![Master] = Off]
    /\ master' = "idle"
    /\ UNCHANGED queue

TakeBatch(t, ok, total, idle, th) ==
    LET n == BatchSize(total, idle)
        rest == Len(queue) - n
    IN  /\ thread' = [th EXCEPT ![t] = [pc |-> "work", nNow |-> n, fOk |-> ok,
                                        vChecks |-> SubSeq(queue, rest + 1, Len(queue))]]
        /\ queue' = SubSeq(queue, 1, rest)
        /\ nTotal' = total /\ nIdle' = idle /\ fAllOk' = ok
        /\ UNCHANGED <<master, fRet>>

\* Mutant: the master returns as soon as the queue is empty.
MasterMayReturnEarly(t, todo) == t = Master

MasterMayReturn(t, todo) == t = Master /\ todo = 0

\* What follows "logically, the do loop starts here", up to the next wait, the
\* return or the end of the section.
Proceed(t, ok, todo, total, idle, th) ==
    /\ nTodo' = todo
    /\ \/ /\ queue = <<>> /\ ~request_stop /\ MasterMayReturn(t, todo)
          /\ MasterReturn(ok, total, idle, th)
       \/ /\ queue = <<>> /\ ~request_stop /\ ~MasterMayReturn(t, todo)
          /\ thread' = [th EXCEPT ![t] = [Off EXCEPT !.pc = "wait"]]
          /\ nTotal' = total /\ nIdle' = idle + 1 /\ fAllOk' = ok
          /\ UNCHANGED <<queue, master, fRet>>
       \/ /\ request_stop
          /\ thread' = [th EXCEPT ![t] = Off]
          /\ nTotal' = total /\ nIdle' = idle /\ fAllOk' = ok
          /\ UNCHANGED <<queue, master, fRet>>
       \/ /\ queue # <<>> /\ ~request_stop
          /\ TakeBatch(t, ok, total, idle, th)

\* Mutant: the worker that finishes last does not tell the master.
FinishedNotTold(t, todo) == thread

\* The master is notified by the worker that has done the last check.
Finished(t, todo) ==
    IF thread[t].nNow > 0 /\ todo = 0 /\ t # Master
    THEN Notified(thread, {Master}) ELSE thread

\* A thread gets m_mutex at the top of the loop: the results of its last batch
\* are entered, or it is counted if it has just come.
EnterLoop(t) ==
    LET l == thread[t]
        todo == nTodo - l.nNow
    IN  /\ l.pc = "lock"
        /\ Proceed(t, fAllOk /\ l.fOk, todo,
                   IF l.nNow = 0 THEN nTotal + 1 ELSE nTotal, nIdle,
                   Finished(t, todo))
        /\ UNCHANGED <<request_stop, pool, added>>

\* Mutant: the thread stays counted as idle.
WakeStillIdle(t) ==
    /\ thread[t].pc = "woken"
    /\ Proceed(t, fAllOk, nTodo, nTotal, nIdle, thread)
    /\ UNCHANGED <<request_stop, pool, added>>

\* A notified thread gets m_mutex back.
Wake(t) ==
    /\ thread[t].pc = "woken"
    /\ Proceed(t, fAllOk, nTodo, nTotal, nIdle - 1, thread)
    /\ UNCHANGED <<request_stop, pool, added>>

\* A condition variable may wake a thread without a notification.
SpuriousWakeup(t) ==
    /\ thread[t].pc = "wait"
    /\ thread' = Notified(thread, {t})
    /\ UNCHANGED <<queue, nIdle, nTotal, fAllOk, nTodo, request_stop, master, pool,
                   added, fRet>>

\* The checks are run without the mutex, until one fails.
Work(t) ==
    /\ thread[t].pc = "work"
    /\ thread' = [thread EXCEPT ![t] = [@ EXCEPT !.pc = "lock", !.vChecks = <<>>,
                                                 !.fOk = @ /\ AllOk(thread[t].vChecks)]]
    /\ UNCHANGED <<queue, nIdle, nTotal, fAllOk, nTodo, request_stop, master, pool,
                   added, fRet>>

-----------------------------------------------------------------------------
(* The master: ConnectBlock and its CCheckQueueControl.                    *)

\* The constructor takes m_control_mutex.
Control ==
    /\ master = "idle" /\ pool = "on"
    /\ master' = "control" /\ added' = <<>>
    /\ UNCHANGED <<queue, nIdle, nTotal, fAllOk, nTodo, request_stop, thread, pool, fRet>>

\* The checks of one transaction.
Add(checks) ==
    /\ master = "control"
    /\ checks # <<>> /\ Len(added) + Len(checks) <= MaxChecks
    /\ queue' = queue \o checks
    /\ nTodo' = nTodo + Len(checks)
    /\ added' = added \o checks
    /\ master' = IF Len(checks) = 1 THEN "notify_one" ELSE "notify_all"
    /\ UNCHANGED <<nIdle, nTotal, fAllOk, request_stop, thread, pool, fRet>>

NotifyWorkers ==
    /\ \/ /\ master = "notify_one"
          /\ \/ Waiting = {} /\ UNCHANGED thread
             \/ \E w \in Waiting : thread' = Notified(thread, {w})
       \/ master = "notify_all" /\ thread' = Notified(thread, Workers)
    /\ master' = "control"
    /\ UNCHANGED <<queue, nIdle, nTotal, fAllOk, nTodo, request_stop, pool, added, fRet>>

\* All checks are added, or the block is given up and the destructor waits.
Wait ==
    /\ master = "control"
    /\ master' = "loop"
    /\ thread' = [thread EXCEPT ![Master] = Started]
    /\ UNCHANGED <<queue, nIdle, nTotal, fAllOk, nTodo, request_stop, pool, added, fRet>>

-----------------------------------------------------------------------------
(* Start and shutdown of the node.                                         *)

StartWorkerThreads ==
    /\ pool = "off"
    /\ nIdle' = 0 /\ nTotal' = 0 /\ fAllOk' = TRUE
    /\ thread' = [t \in Threads |-> IF t \in Workers THEN Started ELSE thread[t]]
    /\ pool' = "on"
    /\ UNCHANGED <<queue, nTodo, request_stop, master, added, fRet>>

\* Shutdown stops the workers when no thread connects blocks any more.
StopWorkerThreads ==
    /\ pool = "on" /\ master = "idle"
    /\ request_stop' = TRUE
    /\ pool' = "stop"
    /\ UNCHANGED <<queue, nIdle, nTotal, fAllOk, nTodo, thread, master, added, fRet>>

\* Mutant: only one worker is notified.
NotifyStopOne ==
    /\ pool = "stop"
    /\ \/ Waiting = {} /\ UNCHANGED thread
       \/ \E w \in Waiting : thread' = Notified(thread, {w})
    /\ pool' = "join"
    /\ UNCHANGED <<queue, nIdle, nTotal, fAllOk, nTodo, request_stop, master, added, fRet>>

NotifyStop ==
    /\ pool = "stop"
    /\ thread' = Notified(thread, Workers)
    /\ pool' = "join"
    /\ UNCHANGED <<queue, nIdle, nTotal, fAllOk, nTodo, request_stop, master, added, fRet>>

JoinWorkerThreads ==
    /\ pool = "join"
    /\ \A w \in Workers : thread[w] = Off
    /\ request_stop' = FALSE
    /\ pool' = "off"
    /\ UNCHANGED <<queue, nIdle, nTotal, fAllOk, nTodo, thread, master, added, fRet>>

-----------------------------------------------------------------------------
LoopStep(t) == EnterLoop(t) \/ Wake(t) \/ Work(t)

StopStep == NotifyStop \/ JoinWorkerThreads

Next ==
    \/ \E t \in Threads : LoopStep(t) \/ SpuriousWakeup(t)
    \/ Control \/ NotifyWorkers \/ Wait
    \/ \E checks \in Outcomes : Add(checks)
    \/ StartWorkerThreads \/ StopWorkerThreads \/ StopStep

Spec == Init /\ [][Next]_vars

\* Every thread inside Loop is scheduled again and gets the mutex in the end, and
\* the thread that stops the pool goes on.
Fairness == (\A t \in Threads : WF_vars(LoopStep(t))) /\ WF_vars(StopStep)

FairSpec == Spec /\ Fairness

-----------------------------------------------------------------------------
(* Properties.                                                             *)

\* Wait returns true exactly when every check added for this block succeeds: no
\* failure is lost between the threads, and none is carried over from a block
\* before (checkqueue_tests.cpp: "the bad state is cleared").
VerdictIsExact == master = "idle" => fRet = AllOk(added)

\* When the master has returned, no check is left in the queue or in the batch of
\* a worker, so that what the checks refer to may be destroyed.
NothingLeftBehind ==
    master = "idle" =>
        /\ queue = <<>> /\ nTodo = 0
        /\ \A w \in Workers : thread[w].vChecks = <<>>

\* nTodo counts the checks that are queued or in a batch, nIdle the threads that wait
\* and, until the pool is told to stop, nTotal those that have entered Loop: the sizes of
\* batches and the end of the verification depend on them.
CountersExact ==
    /\ nTodo = Len(queue) + MapThenSumSet(LAMBDA t : thread[t].nNow, Threads)
    /\ nIdle = Cardinality({t \in Threads : thread[t].pc \in {"wait", "woken"}})
    /\ pool = "on" =>
         nTotal = Cardinality({t \in Threads : thread[t] \notin {Off, Started}})

\* The verification of a block ends: no wake-up is lost.
VerificationEnds == master = "loop" ~> master = "idle"

\* Stopping the pool ends.
PoolStops == pool = "stop" ~> pool = "off"

=============================================================================
