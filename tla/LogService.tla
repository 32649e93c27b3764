------------------------------ MODULE LogService ------------------------------
(***************************************************************************)
(* src/src/Utility/LogService.{h,cc} and the part of src/app/main.cc that  *)
(* ends the process: io threads call LOG, which creates the singleton on   *)
(* first use and pushes an entry on a mutex-protected queue; a worker      *)
(* thread waits on a condition variable and writes the entries to a file;  *)
(* main joins the io threads and then destroys the singleton.              *)
(*                                                                         *)
(* A step ends where another thread can observe the difference: at a mutex *)
(* operation, a notification, an access to the atomic flag `running', a    *)
(* write to the file.                                                      *)
(***************************************************************************)
EXTENDS Naturals, Sequences

CONSTANTS Loggers,   \* io threads, main's own ioContext.run() included
          MaxCalls,  \* bound: LOG calls per io thread
          Levels,    \* LogLevel, in the enum's order
          Worker,    \* the thread running processMessages
          Main,      \* the main thread after ioContext.run()
          NoThread   \* "the mutex is free"

Threads == Loggers \cup {Worker, Main}

ASSUME LogAssumption ==
    /\ MaxCalls \in Nat
    /\ Levels \subseteq Nat /\ 0 \in Levels
    /\ Worker \notin Loggers /\ Main \notin Loggers /\ Worker # Main
    /\ NoThread \notin Threads

VARIABLES
    pc,             \* where each thread is in the code
    calls,          \* LOG calls each io thread has begun
    instanceMutex,  \* holder of LogService::instanceMutex
    instance,       \* LogService::instance has been set
    currentLevel,
    queueMutex,     \* holder of queueMutex
    messageQueue,
    running,        \* std::atomic<bool>
    hand,           \* the entry popped and not yet written, if any
    logFile,        \* the ofstream: never opened, open, closed
    stream,         \* the ofstream's state: good or bad
    file            \* the entries in the log file

service == <<calls, instanceMutex, instance, currentLevel>>
queue == <<queueMutex, messageQueue, running>>
output == <<hand, logFile, stream, file>>
vars == <<pc, service, queue, output>>

Entry(t) == [from |-> t, seq |-> calls[t]]
Entries == [from : Loggers, seq : 1 .. MaxCalls]

\* The entries queued by callers that have not been written yet.
Pending == hand \o messageQueue

\* Thread t goes from one label to another, unless the process is gone.
Step(t, from, to) ==
    /\ pc[Main] # "terminated"
    /\ pc[t] = from
    /\ pc' = [pc EXCEPT ![t] = to]

\* The same, with condition.notify_one() on the way: it wakes the worker if
\* the worker is blocked and is lost if it is not.
StepNotify(t, from, to) ==
    /\ pc[Main] # "terminated"
    /\ pc[t] = from
    /\ pc' = [pc EXCEPT ![t] = to, ![Worker] = IF @ = "blocked" THEN "woken" ELSE @]

Lock(t) ==
    /\ queueMutex = NoThread
    /\ queueMutex' = t
    /\ UNCHANGED <<messageQueue, running>>

Init ==
    /\ pc = [t \in Threads |-> IF t = Worker THEN "none" ELSE IF t = Main THEN "serving" ELSE "idle"]
    /\ calls = [t \in Loggers |-> 0]
    /\ instanceMutex = NoThread /\ queueMutex = NoThread
    /\ instance = FALSE /\ running = FALSE
    /\ currentLevel = 0
    /\ messageQueue = <<>> /\ hand = <<>> /\ file = <<>>
    /\ logFile = "unopened" /\ stream = "good"
-------------------------------------------------------------------------------
(* LOG: LogService::getInstance and LogService::log.                         *)

\* Seeded fault: getInstance does not take instanceMutex.
GetInstance_NoLock(t) ==
    /\ calls[t] < MaxCalls
    /\ calls' = [calls EXCEPT ![t] = @ + 1]
    /\ Step(t, "idle", IF instance THEN "unlockInstance" ELSE "construct")
    /\ UNCHANGED <<instanceMutex, instance, currentLevel, queue, output>>

\* A LOG call begins: take instanceMutex and test `instance'.
GetInstance(t) ==
    /\ calls[t] < MaxCalls
    /\ calls' = [calls EXCEPT ![t] = @ + 1]
    /\ instanceMutex = NoThread /\ instanceMutex' = t
    /\ Step(t, "idle", IF instance THEN "unlockInstance" ELSE "construct")
    /\ UNCHANGED <<instance, currentLevel, queue, output>>

\* openLogFile: if the file cannot be opened the service goes on without.
OpenLogFile ==
    \/ logFile' = "open" /\ UNCHANGED stream
    \/ stream' = "bad" /\ UNCHANGED logFile

\* The constructor opens the file and starts the worker thread; then the pointer
\* is stored.
Construct(t) ==
    /\ pc[Main] # "terminated"
    /\ pc[t] = "construct"
    /\ pc' = [pc EXCEPT ![t] = "unlockInstance", ![Worker] = "loop"]
    /\ running' = TRUE /\ instance' = TRUE /\ currentLevel' = 0
    /\ OpenLogFile
    /\ UNCHANGED <<calls, instanceMutex, queueMutex, messageQueue, hand, file>>

\* The constructor throws: no directory for the file, or no thread.  Nothing is
\* stored and instanceMutex is released.  The exception is caught above the LOG
\* call or, from a catch block, leaves the io thread and ends the process.
ConstructThrows(t) ==
    /\ pc[t] = "construct"
    /\ instanceMutex' = NoThread
    /\ \/ Step(t, "construct", "idle")
       \/ pc[Main] \in {"serving", "joining"} /\ pc' = [pc EXCEPT ![t] = "idle", ![Main] = "terminated"]
    /\ UNCHANGED <<calls, instance, currentLevel, queue, output>>

GetInstanceReturns(t) ==
    /\ Step(t, "unlockInstance", "log")
    /\ instanceMutex' = NoThread
    /\ UNCHANGED <<calls, instance, currentLevel, queue, output>>

\* log: the level test, then the entry is rendered as JSON.
Log(t, level) ==
    /\ Step(t, "log", IF level < currentLevel THEN "idle" ELSE "lockQueue")
    /\ UNCHANGED <<service, queue, output>>

\* Rendering throws (dump of text that is not UTF-8) and nothing is queued.
\* The exception is caught by the handler that called LOG or, when the call is
\* itself in a catch block, leaves the io thread and ends the process.
LogThrows(t, level) ==
    /\ level >= currentLevel
    /\ pc[t] = "log"
    /\ \/ Step(t, "log", "idle")
       \/ \E l \in {"serving", "joining"} : Step(Main, l, "terminated")
    /\ UNCHANGED <<service, queue, output>>

\* Seeded fault: the push is not protected by queueMutex.
LockQueue_NoLock(t) ==
    /\ Step(t, "lockQueue", "push")
    /\ UNCHANGED <<service, queue, output>>

LockQueue(t) ==
    /\ Step(t, "lockQueue", "push")
    /\ Lock(t)
    /\ UNCHANGED <<service, output>>

\* Seeded fault: the newest entry overtakes the ones already queued.
Push_Front(t) ==
    /\ Step(t, "push", "notify")
    /\ messageQueue' = <<Entry(t)>> \o messageQueue
    /\ queueMutex' = NoThread
    /\ UNCHANGED <<service, running, output>>

Push(t) ==
    /\ Step(t, "push", "notify")
    /\ messageQueue' = Append(messageQueue, Entry(t))
    /\ queueMutex' = NoThread
    /\ UNCHANGED <<service, running, output>>

\* Seeded fault: log returns without notifying the worker.
Notify_Missing(t) ==
    /\ Step(t, "notify", "idle")
    /\ UNCHANGED <<service, queue, output>>

Notify(t) ==
    /\ StepNotify(t, "notify", "idle")
    /\ UNCHANGED <<service, queue, output>>

\* LogService::setLevel, by any thread that has got the instance.
SetLevel(level) ==
    /\ instance
    /\ pc[Main] \in {"serving", "joining"}
    /\ currentLevel' = level
    /\ UNCHANGED <<pc, calls, instanceMutex, instance, queue, output>>
-------------------------------------------------------------------------------
(* The worker: LogService::processMessages.                                  *)

\* while (running || !messageQueue.empty()): the queue is read unlocked.
WorkerLoop ==
    /\ Step(Worker, "loop", IF running \/ messageQueue # <<>> THEN "lock" ELSE "exit")
    /\ UNCHANGED <<service, queue, output>>

\* lock.lock(), and the lock taken back by a wait that was woken up: both
\* lead to the wait's predicate.
WorkerLock ==
    /\ \E l \in {"lock", "woken"} : Step(Worker, l, "predicate")
    /\ Lock(Worker)
    /\ UNCHANGED <<service, output>>

\* Seeded fault: a worker that sees the service stopped leaves at once.
WorkerPredicate_StopFirst ==
    /\ Step(Worker, "predicate", IF ~running THEN "exit" ELSE IF messageQueue # <<>> THEN "drain" ELSE "block")
    /\ queueMutex' = IF running THEN queueMutex ELSE NoThread
    /\ UNCHANGED <<service, messageQueue, running, output>>

WorkerPredicate ==
    /\ Step(Worker, "predicate", IF ~running \/ messageQueue # <<>> THEN "drain" ELSE "block")
    /\ UNCHANGED <<service, queue, output>>

\* The predicate was false: release the mutex and block, in one step.
WorkerBlock ==
    /\ Step(Worker, "block", "blocked")
    /\ queueMutex' = NoThread
    /\ UNCHANGED <<service, messageQueue, running, output>>

SpuriousWakeup ==
    /\ Step(Worker, "blocked", "woken")
    /\ UNCHANGED <<service, queue, output>>

\* Seeded fault: the whole queue is taken at once.
WorkerDrain_Batch ==
    /\ Step(Worker, "drain", IF messageQueue # <<>> THEN "write" ELSE "loop")
    /\ queueMutex' = NoThread
    /\ hand' = messageQueue /\ messageQueue' = <<>>
    /\ UNCHANGED <<service, running, logFile, stream, file>>

\* The inner loop, with the mutex held: pop one entry and unlock to write it,
\* or unlock and go back to the outer loop.
WorkerDrain ==
    /\ Step(Worker, "drain", IF messageQueue # <<>> THEN "write" ELSE "loop")
    /\ queueMutex' = NoThread
    /\ IF messageQueue # <<>>
       THEN hand' = <<Head(messageQueue)>> /\ messageQueue' = Tail(messageQueue)
       ELSE UNCHANGED <<hand, messageQueue>>
    /\ UNCHANGED <<service, running, logFile, stream, file>>

\* Write the popped entry if the file is open.  The stream may go bad, which
\* nothing checks; a bad stream discards what is written to it.
WorkerWrite ==
    /\ Step(Worker, "write", "relock")
    /\ hand' = <<>>
    /\ \/ logFile = "open" /\ stream = "good" /\ file' = Append(file, hand[1]) /\ UNCHANGED stream
       \/ logFile = "open" /\ stream' = "bad" /\ UNCHANGED file
       \/ logFile # "open" /\ UNCHANGED <<file, stream>>
    /\ UNCHANGED <<service, queue, logFile>>

WorkerRelock ==
    /\ Step(Worker, "relock", "drain")
    /\ Lock(Worker)
    /\ UNCHANGED <<service, output>>
-------------------------------------------------------------------------------
(* main: ioContext.stop(), join the io threads, return; then the static      *)
(* destructor of LogService::instance.                                       *)

Stop ==
    /\ Step(Main, "serving", "joining")
    /\ UNCHANGED <<service, queue, output>>

\* An io thread whose handler has returned leaves ioContext.run().
ThreadExits(t) ==
    /\ pc[Main] # "serving"
    /\ Step(t, "idle", "exited")
    /\ UNCHANGED <<service, queue, output>>

\* Seeded fault: main returns without joining the io threads.
JoinThreads_NoJoin ==
    /\ Step(Main, "joining", IF instance THEN "stopWorker" ELSE "done")
    /\ UNCHANGED <<service, queue, output>>

JoinThreads ==
    /\ \A t \in Loggers : pc[t] = "exited"
    /\ Step(Main, "joining", IF instance THEN "stopWorker" ELSE "done")
    /\ UNCHANGED <<service, queue, output>>

\* ~LogService: running = false, without queueMutex ...
DtorStop ==
    /\ Step(Main, "stopWorker", "notifyWorker")
    /\ running' = FALSE
    /\ UNCHANGED <<service, queueMutex, messageQueue, output>>

\* ... condition.notify_one(), worker.join() ...
DtorNotify ==
    /\ StepNotify(Main, "notifyWorker", "joinWorker")
    /\ UNCHANGED <<service, queue, output>>

DtorJoin ==
    /\ pc[Worker] = "exit"
    /\ Step(Main, "joinWorker", "closeFile")
    /\ UNCHANGED <<service, queue, output>>

\* ... and logFile.close().
DtorClose ==
    /\ Step(Main, "closeFile", "done")
    /\ logFile' = IF logFile = "open" THEN "closed" ELSE logFile
    /\ UNCHANGED <<service, queue, hand, stream, file>>
-------------------------------------------------------------------------------
\* The steps of a LOG call once it has begun.
CallStep(t) ==
    \/ Construct(t) \/ GetInstanceReturns(t)
    \/ \E level \in Levels : Log(t, level)
    \/ LockQueue(t) \/ Push(t) \/ Notify(t)

WorkerStep ==
    \/ WorkerLoop \/ WorkerLock \/ WorkerPredicate \/ WorkerBlock
    \/ WorkerDrain \/ WorkerWrite \/ WorkerRelock

MainStep == JoinThreads \/ DtorStop \/ DtorNotify \/ DtorJoin \/ DtorClose

\* What may happen and need not: failures, level changes, wakeups, signals.
Environment ==
    \/ \E t \in Loggers : ConstructThrows(t)
    \/ \E t \in Loggers, level \in Levels : LogThrows(t, level)
    \/ \E level \in Levels : SetLevel(level)
    \/ SpuriousWakeup
    \/ Stop

Next ==
    \/ \E t \in Loggers : GetInstance(t) \/ CallStep(t) \/ ThreadExits(t)
    \/ WorkerStep
    \/ MainStep
    \/ Environment

Spec == Init /\ [][Next]_vars

\* Every thread that can run keeps running; nothing obliges a caller to log,
\* a signal to arrive, or a condition variable to wake up by itself.
FairSpec ==
    /\ Spec
    /\ \A t \in Loggers : WF_vars(CallStep(t)) /\ WF_vars(ThreadExits(t))
    /\ WF_vars(WorkerStep)
    /\ WF_vars(MainStep)
-------------------------------------------------------------------------------
CallLabels == {"idle", "construct", "unlockInstance", "log", "lockQueue", "push", "notify", "exited"}
WorkerLabels == {"none", "loop", "lock", "predicate", "block", "blocked", "woken",
                 "drain", "write", "relock", "exit"}
MainLabels == {"serving", "joining", "stopWorker", "notifyWorker", "joinWorker",
               "closeFile", "done", "terminated"}

\* Every variable keeps its type, and processMessages has at most one entry
\* between the queue and the file.
TypeOK ==
    /\ pc \in [Threads -> CallLabels \cup WorkerLabels \cup MainLabels]
    /\ \A t \in Loggers : pc[t] \in CallLabels
    /\ pc[Worker] \in WorkerLabels /\ pc[Main] \in MainLabels
    /\ calls \in [Loggers -> 0 .. MaxCalls]
    /\ \A t \in Loggers : pc[t] \notin {"idle", "exited"} => calls[t] >= 1
    /\ instanceMutex \in Loggers \cup {NoThread}
    /\ queueMutex \in Loggers \cup {NoThread, Worker}
    /\ instance \in BOOLEAN /\ running \in BOOLEAN
    /\ currentLevel \in Levels
    /\ messageQueue \in Seq(Entries) /\ file \in Seq(Entries)
    /\ hand \in Seq(Entries) /\ Len(hand) <= 1
    /\ logFile \in {"unopened", "open", "closed"} /\ stream \in {"good", "bad"}

\* getInstance constructs the singleton once: while a thread is in the
\* constructor no pointer is stored and no other thread has the instance or
\* is in the constructor too.
ConstructedOnce ==
    \A t \in Loggers : pc[t] = "construct" =>
        /\ ~instance
        /\ \A u \in Loggers \ {t} : pc[u] \in {"idle", "exited"}

\* No wakeup is lost between log and processMessages: while the worker is
\* blocked and the queue is not empty, some io thread is about to notify it.
WakeupOwed ==
    (pc[Worker] = "blocked" /\ messageQueue # <<>>) => \E t \in Loggers : pc[t] = "notify"

\* The loop test of processMessages reads messageQueue without queueMutex.
\* It gets to that operand only when running is false, and then no io thread
\* is left that could be pushing: the unlocked read is not a data race.
UnlockedReadIsSafe ==
    (pc[Worker] = "loop" /\ ~running) => \A t \in Loggers : pc[t] = "exited"

\* ~LogService gets past worker.join() only when every entry a caller queued
\* has left the queue and the worker's hands.
NothingLeftBehind == pc[Main] \in {"closeFile", "done"} => Pending = <<>>

\* In the file, and on the way to it, the entries of one io thread are in the
\* order of its LOG calls, without repetition.
ThreadOrder ==
    LET trail == file \o Pending
    IN  \A i, j \in DOMAIN trail :
            (i < j /\ trail[i].from = trail[j].from) => trail[i].seq < trail[j].seq

\* The threads together do what LogSink says: entries are taken, delivered in
\* order, lost only by a failed stream, and the log closes with none pending.
Sink == INSTANCE LogSink WITH
            pending <- Pending,
            healthy <- (stream = "good"),
            closed <- (pc[Main] = "done")
ImplementsLogSink == Sink!Spec

\* Every entry that log queued leaves the queue and the worker's hands, unless
\* the process terminates, whether or not the service is being stopped.
QueuedIsHandled ==
    \A e \in Entries :
        (\E i \in DOMAIN messageQueue : messageQueue[i] = e)
            ~> (pc[Main] = "terminated" \/ ~ \E i \in DOMAIN Pending : Pending[i] = e)

\* The comment on ~LogService: "make sure the worker thread is joined and the
\* log file is closed".  A destructor that has begun gets to its end.
DestructorReturns == (pc[Main] = "stopWorker") ~> (pc[Main] = "done")
===============================================================================
