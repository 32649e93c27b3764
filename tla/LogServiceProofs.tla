--------------------------- MODULE LogServiceProofs ---------------------------
(***************************************************************************)
(* Proofs about LogService for any set of io threads and any number of LOG *)
(* calls.  The inductive invariant says who holds each mutex, what `hand'  *)
(* holds, and how far the destructor can be while somebody still runs.     *)
(***************************************************************************)
EXTENDS LogService, SequenceTheorems, TLAPS

MutexInv ==
    /\ \A t \in Loggers : pc[t] = "push" <=> queueMutex = t
    /\ pc[Worker] \in {"predicate", "block", "drain"} <=> queueMutex = Worker

InstanceInv ==
    /\ \A t \in Loggers : pc[t] \in {"construct", "unlockInstance"} <=> instanceMutex = t
    /\ \A t \in Loggers : pc[t] = "construct" => ~instance
    /\ \A t \in Loggers :
          pc[t] \in {"unlockInstance", "log", "lockQueue", "push", "notify"} => instance
    /\ ~instance => messageQueue = <<>> /\ hand = <<>> /\ ~running
    /\ pc[Worker] = "none" <=> ~instance
    /\ pc[Worker] # "write" => hand = <<>>
    /\ instance /\ pc[Main] # "done" => logFile = "open" \/ stream = "bad"

HandInv == pc[Worker] = "write" => hand # <<>>

\* The labels of ~LogService once `running' has been cleared.
Cleared == {"notifyWorker", "joinWorker", "closeFile", "done"}

ShutdownInv ==
    /\ pc[Main] \in {"stopWorker"} \cup Cleared => \A t \in Loggers : pc[t] = "exited"
    /\ pc[Main] = "stopWorker" => instance
    /\ instance => (~running <=> pc[Main] \in Cleared)
    /\ pc[Worker] = "exit" => ~running /\ messageQueue = <<>>
    /\ pc[Main] \in {"closeFile", "done"} /\ instance => pc[Worker] = "exit"

BlockInv ==
    /\ pc[Worker] = "block" => messageQueue = <<>>
    /\ WakeupOwed

IInv == TypeOK /\ HandInv /\ MutexInv /\ InstanceInv /\ ShutdownInv /\ BlockInv
-------------------------------------------------------------------------------
(* Type correctness.                                                         *)

\* What the queue operations of log and processMessages return: pushing an
\* entry, popping the front one and writing it keep sequences of entries.
LEMMA QueueTypes ==
    ASSUME NEW S, NEW q \in Seq(S)
    PROVE  /\ \A e \in S : Append(q, e) \in Seq(S)
           /\ q # <<>> => /\ <<Head(q)>> \in Seq(S) /\ Len(<<Head(q)>>) = 1
                          /\ Tail(q) \in Seq(S)
                          /\ q[1] \in S
           /\ <<>> \in Seq(S) /\ Len(<<>>) = 0
  <1>1. \A e \in S : Append(q, e) \in Seq(S)
    BY AppendProperties
  <1>2. ASSUME q # <<>> PROVE Head(q) \in S /\ Tail(q) \in Seq(S) /\ q[1] = Head(q)
    BY <1>2, HeadTailProperties
  <1>3. ASSUME q # <<>> PROVE <<Head(q)>> \in Seq(S) /\ Len(<<Head(q)>>) = 1
    BY <1>2, <1>3
  <1>4. <<>> \in Seq(S) /\ Len(<<>>) = 0
    BY EmptySeq
  <1> QED BY <1>1, <1>2, <1>3, <1>4

\* The entry an io thread queues is one of Entries.
LEMMA EntryTypes ==
    ASSUME NEW t \in Loggers, calls[t] \in 1 .. MaxCalls
    PROVE  Entry(t) \in Entries
  BY DEF Entry, Entries

\* So the queue stays a sequence of entries.
LEMMA PushTypes == ASSUME TypeOK, NEW t \in Loggers, Push(t) PROVE messageQueue' \in Seq(Entries)
  <1>1. /\ calls \in [Loggers -> 0 .. MaxCalls] /\ messageQueue \in Seq(Entries)
        /\ pc[t] \notin {"idle", "exited"} => calls[t] >= 1
    BY DEF TypeOK
  <1>2. pc[t] = "push" /\ messageQueue' = Append(messageQueue, Entry(t))
    BY DEF Push, Step
  <1>3. Entry(t) \in Entries
    BY <1>1, <1>2, EntryTypes, LogAssumption
  <1> QED BY <1>1, <1>2, <1>3, QueueTypes

\* Only WorkerDrain fills `hand' and only WorkerWrite empties it.
LEMMA HandStep == ASSUME TypeOK, HandInv, [Next]_vars PROVE HandInv'
  <1> USE LogAssumption DEF HandInv, Threads, Step, StepNotify, service, queue, output
  <1> pc[Worker] \in WorkerLabels /\ DOMAIN pc = Threads
    BY DEF TypeOK
  <1>1. ASSUME NEW t \in Loggers, GetInstance(t) \/ CallStep(t) \/ ThreadExits(t) PROVE HandInv'
    BY <1>1 DEF GetInstance, CallStep, Construct, OpenLogFile, GetInstanceReturns, Log, LockQueue, Push,
                Notify, ThreadExits
  <1>2. CASE WorkerStep
    BY <1>2 DEF WorkerStep, WorkerLoop, WorkerLock, WorkerPredicate, WorkerBlock, WorkerDrain,
                WorkerWrite, WorkerRelock
  <1>3. CASE MainStep
    BY <1>3 DEF MainStep, JoinThreads, DtorStop, DtorNotify, DtorJoin, DtorClose
  <1>4. CASE Environment
    BY <1>4 DEF Environment, ConstructThrows, LogThrows, SetLevel, SpuriousWakeup, Stop
  <1>5. CASE UNCHANGED vars
    BY <1>5 DEF vars
  <1> QED BY <1>1, <1>2, <1>3, <1>4, <1>5 DEF Next

\* Every step of LogService keeps every variable in its type.
LEMMA TypeStep == ASSUME TypeOK, HandInv, [Next]_vars PROVE TypeOK'
  <1> USE LogAssumption DEF TypeOK, Threads, CallLabels, WorkerLabels, MainLabels, Step,
                            StepNotify, Lock, service, queue, output
  <1>1. ASSUME NEW t \in Loggers, GetInstance(t) PROVE TypeOK'
    BY <1>1 DEF GetInstance
  <1>2. ASSUME NEW t \in Loggers, CallStep(t) PROVE TypeOK'
    <2>1. CASE Construct(t)
      BY <2>1 DEF Construct, OpenLogFile
    <2>2. CASE GetInstanceReturns(t)
      BY <2>2 DEF GetInstanceReturns
    <2>3. ASSUME NEW level \in Levels, Log(t, level) PROVE TypeOK'
      BY <2>3 DEF Log
    <2>4. CASE LockQueue(t)
      BY <2>4 DEF LockQueue
    <2>5. CASE Push(t)
      <3>1. messageQueue' \in Seq(Entries)
        BY <2>5, PushTypes
      <3>2. /\ Step(t, "push", "notify") /\ queueMutex' = NoThread
            /\ UNCHANGED <<service, running, output>>
        BY <2>5 DEF Push
      <3>3. /\ pc' \in [Threads -> CallLabels \cup WorkerLabels \cup MainLabels]
            /\ \A u \in Loggers : pc'[u] \in CallLabels
            /\ pc'[Worker] \in WorkerLabels /\ pc'[Main] \in MainLabels
            /\ \A u \in Loggers : pc'[u] \notin {"idle", "exited"} => calls'[u] >= 1
        BY <3>2
      <3> QED BY <3>1, <3>2, <3>3
    <2>6. CASE Notify(t)
      BY <2>6, ZenonT(60) DEF Notify
    <2> QED BY <1>2, <2>1, <2>2, <2>3, <2>4, <2>5, <2>6 DEF CallStep
  <1>3. ASSUME NEW t \in Loggers, ThreadExits(t) PROVE TypeOK'
    BY <1>3 DEF ThreadExits
  <1>4. CASE WorkerStep
    <2>1. CASE WorkerLoop
      BY <2>1 DEF WorkerLoop
    <2>2. CASE WorkerLock
      BY <2>2 DEF WorkerLock
    <2>3. CASE WorkerPredicate
      BY <2>3 DEF WorkerPredicate
    <2>4. CASE WorkerBlock
      BY <2>4 DEF WorkerBlock
    <2>5. CASE WorkerDrain
      <3>1. CASE messageQueue = <<>>
        BY <2>5, <3>1 DEF WorkerDrain
      <3>2. CASE messageQueue # <<>>
        <4>1. /\ hand' \in Seq(Entries) /\ Len(hand') = 1
              /\ messageQueue' \in Seq(Entries)
          <5>1. hand' = <<Head(messageQueue)>> /\ messageQueue' = Tail(messageQueue)
            BY <2>5, <3>2 DEF WorkerDrain
          <5> QED BY <3>2, <5>1, QueueTypes
        <4>2. /\ Step(Worker, "drain", "write") /\ queueMutex' = NoThread
              /\ UNCHANGED <<service, running, logFile, stream, file>>
          BY <2>5, <3>2 DEF WorkerDrain
        <4> QED BY <4>1, <4>2
      <3> QED BY <3>1, <3>2
    <2>6. CASE WorkerWrite
      <3>1. hand[1] \in Entries
        <4>1. hand # <<>>
          BY <2>6 DEF WorkerWrite, HandInv
        <4>2. hand \in Seq(Entries)
          OBVIOUS
        <4> HIDE DEF TypeOK
        <4> QED BY <4>1, <4>2, QueueTypes
      <3>2. file' \in Seq(Entries)
        <4>1. file' = file \/ file' = Append(file, hand[1])
          BY <2>6 DEF WorkerWrite
        <4>2. file \in Seq(Entries)
          OBVIOUS
        <4> HIDE DEF TypeOK
        <4> QED BY <3>1, <4>1, <4>2, QueueTypes
      <3>3. /\ Step(Worker, "write", "relock") /\ hand' = <<>> /\ stream' \in {"good", "bad"}
            /\ UNCHANGED <<service, queue, logFile>>
        BY <2>6 DEF WorkerWrite
      <3>4. hand' \in Seq(Entries) /\ Len(hand') = 0
        BY <3>3, EmptySeq
      <3> QED BY <3>2, <3>3, <3>4
    <2>7. CASE WorkerRelock
      BY <2>7 DEF WorkerRelock
    <2> QED BY <1>4, <2>1, <2>2, <2>3, <2>4, <2>5, <2>6, <2>7 DEF WorkerStep
  <1>5. CASE MainStep
    <2>1. CASE JoinThreads
      BY <2>1 DEF JoinThreads
    <2>2. CASE DtorStop
      BY <2>2 DEF DtorStop
    <2>3. CASE DtorNotify
      BY <2>3, ZenonT(60) DEF DtorNotify
    <2>4. CASE DtorJoin
      BY <2>4 DEF DtorJoin
    <2>5. CASE DtorClose
      BY <2>5 DEF DtorClose
    <2> QED BY <1>5, <2>1, <2>2, <2>3, <2>4, <2>5 DEF MainStep
  <1>6. CASE Environment
    <2>1. ASSUME NEW t \in Loggers, ConstructThrows(t) PROVE TypeOK'
      BY <2>1, ZenonT(60) DEF ConstructThrows
    <2>2. ASSUME NEW t \in Loggers, NEW level \in Levels, LogThrows(t, level) PROVE TypeOK'
      BY <2>2, ZenonT(60) DEF LogThrows
    <2>3. ASSUME NEW level \in Levels, SetLevel(level) PROVE TypeOK'
      BY <2>3 DEF SetLevel
    <2>4. CASE SpuriousWakeup
      BY <2>4 DEF SpuriousWakeup
    <2>5. CASE Stop
      BY <2>5 DEF Stop
    <2> QED BY <1>6, <2>1, <2>2, <2>3, <2>4, <2>5 DEF Environment
  <1>7. CASE UNCHANGED vars
    BY <1>7 DEF vars
  <1> QED BY <1>1, <1>2, <1>3, <1>4, <1>5, <1>6, <1>7 DEF Next

\* LogService starts in its types.
LEMMA TypeInit == ASSUME Init PROVE TypeOK
  <1>1. pc \in [Threads -> CallLabels \cup WorkerLabels \cup MainLabels]
    BY DEF Init, Threads, CallLabels, WorkerLabels, MainLabels
  <1>2. /\ \A t \in Loggers : pc[t] = "idle"
        /\ pc[Worker] = "none" /\ pc[Main] = "serving"
    BY LogAssumption DEF Init, Threads
  <1>3. calls \in [Loggers -> 0 .. MaxCalls]
    BY LogAssumption DEF Init
  <1>4. messageQueue \in Seq(Entries) /\ file \in Seq(Entries)
    BY EmptySeq DEF Init
  <1>5. hand \in Seq(Entries) /\ Len(hand) = 0
    BY EmptySeq DEF Init
  <1>6. /\ instanceMutex = NoThread /\ queueMutex = NoThread /\ currentLevel \in Levels
        /\ logFile = "unopened" /\ stream = "good"
    BY LogAssumption DEF Init
  <1>7. instance \in BOOLEAN /\ running \in BOOLEAN
    BY DEF Init
  <1> QED BY <1>1, <1>2, <1>3, <1>4, <1>5, <1>6, <1>7
          DEF TypeOK, CallLabels, WorkerLabels, MainLabels

\* LogService's variables keep their types in every behaviour: for any number
\* of io threads and LOG calls.
THEOREM TypeCorrect == Spec => []TypeOK
  <1>1. Init => TypeOK /\ HandInv
    BY TypeInit, LogAssumption DEF Init, HandInv, Threads
  <1>2. TypeOK /\ HandInv /\ [Next]_vars => TypeOK' /\ HandInv'
    BY TypeStep, HandStep
  <1> QED BY <1>1, <1>2, PTL DEF Spec
-------------------------------------------------------------------------------
(* The inductive invariant, one part at a time.                              *)

\* queueMutex is held exactly by the thread whose label says so.
LEMMA MutexStep == ASSUME TypeOK, MutexInv, InstanceInv, [Next]_vars PROVE MutexInv'
  <1> USE LogAssumption DEF MutexInv, InstanceInv, Threads, Step, StepNotify, Lock, service, queue, output
  <1> pc \in [Threads -> CallLabels \cup WorkerLabels \cup MainLabels]
    BY DEF TypeOK
  <1>1. ASSUME NEW t \in Loggers, GetInstance(t) PROVE MutexInv'
    BY <1>1 DEF GetInstance
  <1>2. ASSUME NEW t \in Loggers, CallStep(t) PROVE MutexInv'
    <2>1. CASE Construct(t)
      BY <2>1 DEF Construct, OpenLogFile
    <2>2. CASE GetInstanceReturns(t)
      BY <2>2 DEF GetInstanceReturns
    <2>3. ASSUME NEW level \in Levels, Log(t, level) PROVE MutexInv'
      BY <2>3 DEF Log
    <2>4. CASE LockQueue(t)
      BY <2>4 DEF LockQueue
    <2>5. CASE Push(t)
      BY <2>5 DEF Push
    <2>6. CASE Notify(t)
      BY <2>6 DEF Notify
    <2> QED BY <1>2, <2>1, <2>2, <2>3, <2>4, <2>5, <2>6 DEF CallStep
  <1>3. ASSUME NEW t \in Loggers, ThreadExits(t) PROVE MutexInv'
    BY <1>3 DEF ThreadExits
  <1>4. CASE WorkerStep
    <2>1. CASE WorkerLoop \/ WorkerLock \/ WorkerPredicate
      BY <2>1 DEF WorkerLoop, WorkerLock, WorkerPredicate
    <2>2. CASE WorkerBlock \/ WorkerRelock
      BY <2>2 DEF WorkerBlock, WorkerRelock
    <2>3. CASE WorkerDrain
      BY <2>3 DEF WorkerDrain
    <2>4. CASE WorkerWrite
      BY <2>4 DEF WorkerWrite
    <2> QED BY <1>4, <2>1, <2>2, <2>3, <2>4 DEF WorkerStep
  <1>5. CASE MainStep
    <2>1. CASE JoinThreads
      BY <2>1 DEF JoinThreads
    <2>2. CASE DtorStop \/ DtorNotify
      BY <2>2 DEF DtorStop, DtorNotify
    <2>3. CASE DtorJoin \/ DtorClose
      BY <2>3 DEF DtorJoin, DtorClose
    <2> QED BY <1>5, <2>1, <2>2, <2>3 DEF MainStep
  <1>6. CASE Environment
    <2>1. ASSUME NEW t \in Loggers, ConstructThrows(t) PROVE MutexInv'
      BY <2>1 DEF ConstructThrows
    <2>2. ASSUME NEW t \in Loggers, NEW level \in Levels, LogThrows(t, level) PROVE MutexInv'
      BY <2>2 DEF LogThrows
    <2>3. ASSUME NEW level \in Levels, SetLevel(level) PROVE MutexInv'
      BY <2>3 DEF SetLevel
    <2>4. CASE SpuriousWakeup \/ Stop
      BY <2>4 DEF SpuriousWakeup, Stop
    <2> QED BY <1>6, <2>1, <2>2, <2>3, <2>4 DEF Environment
  <1>7. CASE UNCHANGED vars
    BY <1>7 DEF vars
  <1> QED BY <1>1, <1>2, <1>3, <1>4, <1>5, <1>6, <1>7 DEF Next

\* The singleton is constructed once, under instanceMutex, before anything is
\* queued and before there is a worker.
LEMMA InstanceStep == ASSUME TypeOK, HandInv, MutexInv, InstanceInv, ShutdownInv, [Next]_vars PROVE InstanceInv'
  <1> USE LogAssumption DEF InstanceInv, MutexInv, HandInv, ShutdownInv, Cleared, Threads, Step, StepNotify, Lock, service, queue, output
  <1> pc \in [Threads -> CallLabels \cup WorkerLabels \cup MainLabels]
    BY DEF TypeOK
  <1>1. ASSUME NEW t \in Loggers, GetInstance(t) PROVE InstanceInv'
    BY <1>1 DEF GetInstance
  <1>2. ASSUME NEW t \in Loggers, CallStep(t) PROVE InstanceInv'
    <2>1. CASE Construct(t)
      BY <2>1 DEF Construct, OpenLogFile
    <2>2. CASE GetInstanceReturns(t)
      BY <2>2 DEF GetInstanceReturns
    <2>3. ASSUME NEW level \in Levels, Log(t, level) PROVE InstanceInv'
      BY <2>3 DEF Log
    <2>4. CASE LockQueue(t)
      BY <2>4 DEF LockQueue
    <2>5. CASE Push(t)
      BY <2>5 DEF Push
    <2>6. CASE Notify(t)
      BY <2>6 DEF Notify
    <2> QED BY <1>2, <2>1, <2>2, <2>3, <2>4, <2>5, <2>6 DEF CallStep
  <1>3. ASSUME NEW t \in Loggers, ThreadExits(t) PROVE InstanceInv'
    BY <1>3 DEF ThreadExits
  <1>4. CASE WorkerStep
    <2>1. CASE WorkerLoop \/ WorkerLock \/ WorkerPredicate
      BY <2>1 DEF WorkerLoop, WorkerLock, WorkerPredicate
    <2>2. CASE WorkerBlock \/ WorkerRelock
      BY <2>2 DEF WorkerBlock, WorkerRelock
    <2>3. CASE WorkerDrain
      BY <2>3 DEF WorkerDrain
    <2>4. CASE WorkerWrite
      BY <2>4 DEF WorkerWrite
    <2> QED BY <1>4, <2>1, <2>2, <2>3, <2>4 DEF WorkerStep
  <1>5. CASE MainStep
    <2>1. CASE JoinThreads
      BY <2>1 DEF JoinThreads
    <2>2. CASE DtorStop \/ DtorNotify
      BY <2>2 DEF DtorStop, DtorNotify
    <2>3. CASE DtorJoin \/ DtorClose
      BY <2>3 DEF DtorJoin, DtorClose
    <2> QED BY <1>5, <2>1, <2>2, <2>3 DEF MainStep
  <1>6. CASE Environment
    <2>1. ASSUME NEW t \in Loggers, ConstructThrows(t) PROVE InstanceInv'
      BY <2>1 DEF ConstructThrows
    <2>2. ASSUME NEW t \in Loggers, NEW level \in Levels, LogThrows(t, level) PROVE InstanceInv'
      BY <2>2 DEF LogThrows
    <2>3. ASSUME NEW level \in Levels, SetLevel(level) PROVE InstanceInv'
      BY <2>3 DEF SetLevel
    <2>4. CASE SpuriousWakeup \/ Stop
      BY <2>4 DEF SpuriousWakeup, Stop
    <2> QED BY <1>6, <2>1, <2>2, <2>3, <2>4 DEF Environment
  <1>7. CASE UNCHANGED vars
    BY <1>7 DEF vars
  <1> QED BY <1>1, <1>2, <1>3, <1>4, <1>5, <1>6, <1>7 DEF Next

\* ~LogService runs when the io threads are gone, and gets past join only when
\* the worker has left a queue that nobody can fill any more.
LEMMA ShutdownStep == ASSUME TypeOK, MutexInv, InstanceInv, ShutdownInv, BlockInv, [Next]_vars PROVE ShutdownInv'
  <1> USE LogAssumption DEF ShutdownInv, Cleared, MutexInv, InstanceInv, BlockInv, Threads, Step, StepNotify, Lock, service, queue, output
  <1> pc \in [Threads -> CallLabels \cup WorkerLabels \cup MainLabels]
    BY DEF TypeOK
  <1>1. ASSUME NEW t \in Loggers, GetInstance(t) PROVE ShutdownInv'
    BY <1>1 DEF GetInstance
  <1>2. ASSUME NEW t \in Loggers, CallStep(t) PROVE ShutdownInv'
    <2>1. CASE Construct(t)
      BY <2>1 DEF Construct, OpenLogFile
    <2>2. CASE GetInstanceReturns(t)
      BY <2>2 DEF GetInstanceReturns
    <2>3. ASSUME NEW level \in Levels, Log(t, level) PROVE ShutdownInv'
      BY <2>3 DEF Log
    <2>4. CASE LockQueue(t)
      BY <2>4 DEF LockQueue
    <2>5. CASE Push(t)
      BY <2>5 DEF Push
    <2>6. CASE Notify(t)
      BY <2>6 DEF Notify
    <2> QED BY <1>2, <2>1, <2>2, <2>3, <2>4, <2>5, <2>6 DEF CallStep
  <1>3. ASSUME NEW t \in Loggers, ThreadExits(t) PROVE ShutdownInv'
    BY <1>3 DEF ThreadExits
  <1>4. CASE WorkerStep
    <2>1. CASE WorkerLoop \/ WorkerLock \/ WorkerPredicate
      BY <2>1 DEF WorkerLoop, WorkerLock, WorkerPredicate
    <2>2. CASE WorkerBlock \/ WorkerRelock
      BY <2>2 DEF WorkerBlock, WorkerRelock
    <2>3. CASE WorkerDrain
      BY <2>3 DEF WorkerDrain
    <2>4. CASE WorkerWrite
      BY <2>4 DEF WorkerWrite
    <2> QED BY <1>4, <2>1, <2>2, <2>3, <2>4 DEF WorkerStep
  <1>5. CASE MainStep
    <2>1. CASE JoinThreads
      BY <2>1 DEF JoinThreads
    <2>2. CASE DtorStop \/ DtorNotify
      BY <2>2 DEF DtorStop, DtorNotify
    <2>3. CASE DtorJoin \/ DtorClose
      BY <2>3 DEF DtorJoin, DtorClose
    <2> QED BY <1>5, <2>1, <2>2, <2>3 DEF MainStep
  <1>6. CASE Environment
    <2>1. ASSUME NEW t \in Loggers, ConstructThrows(t) PROVE ShutdownInv'
      BY <2>1 DEF ConstructThrows
    <2>2. ASSUME NEW t \in Loggers, NEW level \in Levels, LogThrows(t, level) PROVE ShutdownInv'
      BY <2>2 DEF LogThrows
    <2>3. ASSUME NEW level \in Levels, SetLevel(level) PROVE ShutdownInv'
      BY <2>3 DEF SetLevel
    <2>4. CASE SpuriousWakeup \/ Stop
      BY <2>4 DEF SpuriousWakeup, Stop
    <2> QED BY <1>6, <2>1, <2>2, <2>3, <2>4 DEF Environment
  <1>7. CASE UNCHANGED vars
    BY <1>7 DEF vars
  <1> QED BY <1>1, <1>2, <1>3, <1>4, <1>5, <1>6, <1>7 DEF Next

\* No wakeup of the worker is lost while io threads run.
LEMMA BlockStep == ASSUME TypeOK, MutexInv, InstanceInv, ShutdownInv, BlockInv, [Next]_vars PROVE BlockInv'
  <1> USE LogAssumption DEF BlockInv, WakeupOwed, MutexInv, InstanceInv, ShutdownInv, Threads, Step, StepNotify, Lock, service, queue, output
  <1> pc \in [Threads -> CallLabels \cup WorkerLabels \cup MainLabels]
    BY DEF TypeOK
  <1>1. ASSUME NEW t \in Loggers, GetInstance(t) PROVE BlockInv'
    BY <1>1 DEF GetInstance
  <1>2. ASSUME NEW t \in Loggers, CallStep(t) PROVE BlockInv'
    <2>1. CASE Construct(t)
      BY <2>1 DEF Construct, OpenLogFile
    <2>2. CASE GetInstanceReturns(t)
      BY <2>2 DEF GetInstanceReturns
    <2>3. ASSUME NEW level \in Levels, Log(t, level) PROVE BlockInv'
      BY <2>3 DEF Log
    <2>4. CASE LockQueue(t)
      BY <2>4 DEF LockQueue
    <2>5. CASE Push(t)
      BY <2>5 DEF Push
    <2>6. CASE Notify(t)
      BY <2>6 DEF Notify
    <2> QED BY <1>2, <2>1, <2>2, <2>3, <2>4, <2>5, <2>6 DEF CallStep
  <1>3. ASSUME NEW t \in Loggers, ThreadExits(t) PROVE BlockInv'
    BY <1>3 DEF ThreadExits
  <1>4. CASE WorkerStep
    <2>1. CASE WorkerLoop \/ WorkerLock \/ WorkerPredicate
      BY <2>1 DEF WorkerLoop, WorkerLock, WorkerPredicate
    <2>2. CASE WorkerBlock \/ WorkerRelock
      BY <2>2 DEF WorkerBlock, WorkerRelock
    <2>3. CASE WorkerDrain
      BY <2>3 DEF WorkerDrain
    <2>4. CASE WorkerWrite
      BY <2>4 DEF WorkerWrite
    <2> QED BY <1>4, <2>1, <2>2, <2>3, <2>4 DEF WorkerStep
  <1>5. CASE MainStep
    <2>1. CASE JoinThreads
      BY <2>1 DEF JoinThreads
    <2>2. CASE DtorStop \/ DtorNotify
      BY <2>2 DEF DtorStop, DtorNotify
    <2>3. CASE DtorJoin \/ DtorClose
      BY <2>3 DEF DtorJoin, DtorClose
    <2> QED BY <1>5, <2>1, <2>2, <2>3 DEF MainStep
  <1>6. CASE Environment
    <2>1. ASSUME NEW t \in Loggers, ConstructThrows(t) PROVE BlockInv'
      BY <2>1 DEF ConstructThrows
    <2>2. ASSUME NEW t \in Loggers, NEW level \in Levels, LogThrows(t, level) PROVE BlockInv'
      BY <2>2 DEF LogThrows
    <2>3. ASSUME NEW level \in Levels, SetLevel(level) PROVE BlockInv'
      BY <2>3 DEF SetLevel
    <2>4. CASE SpuriousWakeup \/ Stop
      BY <2>4 DEF SpuriousWakeup, Stop
    <2> QED BY <1>6, <2>1, <2>2, <2>3, <2>4 DEF Environment
  <1>7. CASE UNCHANGED vars
    BY <1>7 DEF vars
  <1> QED BY <1>1, <1>2, <1>3, <1>4, <1>5, <1>6, <1>7 DEF Next

\* Every part of the invariant holds in every reachable state.
THEOREM Invariance == Spec => []IInv
  <1>1. Init => IInv
    BY TypeInit, LogAssumption
       DEF Init, IInv, HandInv, MutexInv, InstanceInv, ShutdownInv, Cleared, BlockInv,
           WakeupOwed, Threads
  <1>2. IInv /\ [Next]_vars => IInv'
    BY TypeStep, HandStep, MutexStep, InstanceStep, ShutdownStep, BlockStep DEF IInv
  <1> QED BY <1>1, <1>2, PTL DEF Spec

\* getInstance never runs the constructor twice, whatever the number of io
\* threads that make their first LOG call at once.
THEOREM SingletonSafe == Spec => []ConstructedOnce
  <1>1. IInv => ConstructedOnce
    BY DEF IInv, TypeOK, InstanceInv, ConstructedOnce, CallLabels
  <1> QED BY <1>1, Invariance, PTL

\* While entries are queued and the worker is blocked in condition.wait, a
\* notify_one is still to come: log and processMessages lose no wakeup.
THEOREM NoLostWakeup == Spec => []WakeupOwed
  <1>1. IInv => WakeupOwed
    BY DEF IInv, BlockInv
  <1> QED BY <1>1, Invariance, PTL

\* When the loop test of processMessages reads messageQueue without the lock,
\* every io thread has been joined.
THEOREM UnlockedReadSafe == Spec => []UnlockedReadIsSafe
  <1>1. IInv => UnlockedReadIsSafe
    BY DEF IInv, InstanceInv, ShutdownInv, Cleared, UnlockedReadIsSafe
  <1> QED BY <1>1, Invariance, PTL

\* Past worker.join() nothing is queued and nothing is half written.
THEOREM ShutdownDrains == Spec => []NothingLeftBehind
  <1>1. ASSUME IInv, pc[Main] \in {"closeFile", "done"} PROVE hand = <<>> /\ messageQueue = <<>>
    BY <1>1 DEF IInv, InstanceInv, ShutdownInv
  <1>2. IInv => NothingLeftBehind
    BY <1>1 DEF NothingLeftBehind, Pending
  <1> QED BY <1>2, Invariance, PTL
-------------------------------------------------------------------------------
(* Refinement of LogSink.                                                    *)

\* How each queue operation changes hand \o messageQueue.
LEMMA PendingSteps ==
    ASSUME NEW S, NEW h \in Seq(S), NEW q \in Seq(S), Len(h) <= 1
    PROVE  /\ \A e \in S : h \o Append(q, e) = Append(h \o q, e)
           /\ q # <<>> => <<Head(q)>> \o Tail(q) = <<>> \o q
           /\ h # <<>> => /\ h \o q # <<>> /\ Head(h \o q) = h[1]
                          /\ Tail(h \o q) = <<>> \o q
  <1>1. ASSUME NEW e \in S PROVE h \o Append(q, e) = Append(h \o q, e)
    OBVIOUS
  <1>2. ASSUME q # <<>> PROVE <<Head(q)>> \o Tail(q) = <<>> \o q
    BY <1>2
  <1>3. ASSUME h # <<>> PROVE /\ h \o q # <<>> /\ Head(h \o q) = h[1]
                             /\ Tail(h \o q) = <<>> \o q
    BY <1>3
  <1> QED BY <1>1, <1>2, <1>3

\* A step that leaves the queue, the hand and the file alone and does not end
\* the destructor is a stuttering step of LogSink, or the failure of a stream
\* that still has to open.
LEMMA QuietStep ==
    ASSUME UNCHANGED <<hand, messageQueue, file>>,
           (pc[Main] = "done")' <=> pc[Main] = "done",
           stream' = stream \/ (stream = "good" /\ stream' = "bad" /\ pc[Main] # "done")
    PROVE  [Sink!Next]_(Sink!sinkVars)
  BY DEF Sink!Next, Sink!sinkVars, Sink!Fail, Pending

\* The threads of LogService together implement LogSink: callers' entries are
\* taken in one order and delivered in that order, at most once each, lost only
\* by a stream that failed, and the log closes with none on its way.
THEOREM Refinement == Spec => ImplementsLogSink
  <1>1. Init => Sink!Init
    BY LogAssumption DEF Init, Sink!Init, Pending, Threads
  <1>2. ASSUME IInv, [Next]_vars PROVE [Sink!Next]_(Sink!sinkVars)
    <2> USE LogAssumption DEF Threads, Step, StepNotify, Lock, service, queue, output
    <2> /\ hand \in Seq(Entries) /\ messageQueue \in Seq(Entries) /\ Len(hand) <= 1
        /\ pc \in [Threads -> CallLabels \cup WorkerLabels \cup MainLabels]
        /\ stream \in {"good", "bad"}
      BY <1>2 DEF IInv, TypeOK
    <2>1. ASSUME NEW t \in Loggers, Push(t) PROVE Sink!Next
      <3>1. Entry(t) \in Entries
        BY <1>2, <2>1, EntryTypes DEF Push, IInv, TypeOK
      <3>2. Pending' = Append(Pending, Entry(t))
        BY <2>1, <3>1, PendingSteps DEF Push, Pending
      <3>3. pc[Main] # "done" /\ pc'[Main] # "done"
        BY <1>2, <2>1 DEF Push, IInv, ShutdownInv, Cleared
      <3>4. UNCHANGED <<file, stream>>
        BY <2>1 DEF Push
      <3> QED BY <3>1, <3>2, <3>3, <3>4 DEF Sink!Next, Sink!Take
    <2>2. CASE WorkerDrain
      <3>1. Pending' = Pending
        <4>1. hand = <<>>
          BY <1>2, <2>2 DEF WorkerDrain, IInv, InstanceInv
        <4> QED BY <2>2, <4>1, PendingSteps DEF WorkerDrain, Pending
      <3>2. UNCHANGED <<file, stream>> /\ pc'[Main] = pc[Main]
        BY <2>2 DEF WorkerDrain
      <3> QED BY <3>1, <3>2 DEF Sink!sinkVars
    <2>3. CASE WorkerWrite
      <3>1. /\ hand # <<>> /\ pc'[Main] = pc[Main] /\ pc[Main] # "done"
        BY <1>2, <2>3 DEF WorkerWrite, IInv, HandInv, InstanceInv, ShutdownInv
      <3>2. /\ Pending # <<>> /\ Head(Pending) = hand[1] /\ Pending' = Tail(Pending)
        BY <2>3, <3>1, PendingSteps DEF WorkerWrite, Pending
      <3>3. \/ stream = "good" /\ stream' = "good" /\ file' = Append(file, hand[1])
            \/ stream' = "bad" /\ UNCHANGED file
        BY <1>2, <2>3, <3>1 DEF WorkerWrite, IInv, InstanceInv
      <3> QED BY <3>1, <3>2, <3>3 DEF Sink!Next, Sink!Deliver, Sink!Fail, Sink!Lose
    <2>4. CASE DtorClose
      <3>1. Pending = <<>>
        BY <1>2, <2>4 DEF DtorClose, IInv, InstanceInv, ShutdownInv, Pending
      <3> QED BY <2>4, <3>1 DEF DtorClose, Sink!Next, Sink!Close, Pending
    <2>5. CASE JoinThreads
      BY <1>2, <2>5 DEF JoinThreads, IInv, InstanceInv, Pending, Sink!Next, Sink!Close, Sink!sinkVars
    <2>6. ASSUME NEW t \in Loggers, Construct(t) PROVE [Sink!Next]_(Sink!sinkVars)
      <3>1. pc[Main] # "done" /\ pc'[Main] = pc[Main]
        BY <1>2, <2>6 DEF Construct, IInv, ShutdownInv, Cleared
      <3> QED BY <2>6, <3>1, QuietStep DEF Construct, OpenLogFile
    <2>7. ASSUME NEW t \in Loggers,
                 \/ GetInstance(t) \/ GetInstanceReturns(t) \/ LockQueue(t) \/ Notify(t)
                 \/ ThreadExits(t) \/ ConstructThrows(t)
                 \/ \E level \in Levels : Log(t, level) \/ LogThrows(t, level)
          PROVE  [Sink!Next]_(Sink!sinkVars)
      BY <2>7, QuietStep DEF GetInstance, GetInstanceReturns, LockQueue, Notify, ThreadExits,
                             ConstructThrows, Log, LogThrows
    <2>8. CASE WorkerLoop \/ WorkerLock \/ WorkerPredicate \/ WorkerBlock \/ WorkerRelock
               \/ SpuriousWakeup
      BY <2>8, QuietStep DEF WorkerLoop, WorkerLock, WorkerPredicate, WorkerBlock, WorkerRelock,
                             SpuriousWakeup
    <2>9. CASE \/ DtorStop \/ DtorNotify \/ DtorJoin \/ Stop
               \/ \E level \in Levels : SetLevel(level)
      BY <2>9, QuietStep DEF DtorStop, DtorNotify, DtorJoin, Stop, SetLevel
    <2>10. CASE UNCHANGED vars
      BY <2>10, QuietStep DEF vars
    <2> QED BY <1>2, <2>1, <2>2, <2>3, <2>4, <2>5, <2>6, <2>7, <2>8, <2>9, <2>10
            DEF Next, CallStep, WorkerStep, MainStep, Environment
  <1> QED BY <1>1, <1>2, Invariance, PTL DEF Spec, ImplementsLogSink, Sink!Spec
-------------------------------------------------------------------------------
(* The order of the entries of one io thread.                                *)

\* The entries of each thread are in the order of its calls ...
Ordered(q) ==
    \A i, j \in 1 .. Len(q) : (i < j /\ q[i].from = q[j].from) => q[i].seq < q[j].seq

\* ... and belong to one of its first `p' calls.
Recorded(q, p) == Ordered(q) /\ \A i \in 1 .. Len(q) : q[i].seq <= p[q[i].from]

\* The calls of each thread that have queued their entry or never will: all but
\* the one it is in before the push.
Past ==
    [t \in Loggers |->
        IF pc[t] \in {"construct", "unlockInstance", "log", "lockQueue", "push"} THEN calls[t] - 1
        ELSE calls[t]]

Trail == file \o Pending
OrderInv == Recorded(Trail, Past)

LEMMA EntryFacts == \A e \in Entries : e.from \in Loggers /\ e.seq \in Nat
  BY LogAssumption DEF Entries

\* A call that ends without an entry leaves a gap, which the order allows.
LEMMA RecordedLater ==
    ASSUME NEW q \in Seq(Entries), NEW p \in [Loggers -> Nat], NEW p1 \in [Loggers -> Nat],
           \A t \in Loggers : p[t] <= p1[t], Recorded(q, p)
    PROVE  Recorded(q, p1)
  <1>1. \A i \in 1 .. Len(q) : q[i].from \in Loggers /\ q[i].seq \in Nat
    BY EntryFacts, ElementOfSeq
  <1> QED BY <1>1 DEF Recorded

\* A new entry is newer than all of its thread.
LEMMA RecordedPush ==
    ASSUME NEW q \in Seq(Entries), NEW p \in [Loggers -> Nat], NEW p1 \in [Loggers -> Nat],
           \A t \in Loggers : p[t] <= p1[t], Recorded(q, p),
           NEW e \in Entries, p[e.from] < e.seq, e.seq <= p1[e.from]
    PROVE  Recorded(Append(q, e), p1)
  <1> DEFINE r == Append(q, e)
  <1>1. /\ Len(q) \in Nat /\ Len(r) = Len(q) + 1 /\ r[Len(q) + 1] = e
        /\ \A i \in 1 .. Len(q) : r[i] = q[i]
    BY AppendProperties, LenProperties
  <1>2. \A i \in 1 .. Len(q) : q[i].from \in Loggers /\ q[i].seq \in Nat
    BY EntryFacts, ElementOfSeq
  <1>3. e.from \in Loggers /\ e.seq \in Nat
    BY EntryFacts
  <1> HIDE DEF r
  <1>4. \A i \in 1 .. Len(r) : i \in 1 .. Len(q) \/ i = Len(q) + 1
    BY <1>1
  <1>5. ASSUME NEW i \in 1 .. Len(r), NEW j \in 1 .. Len(r), i < j, r[i].from = r[j].from
        PROVE  r[i].seq < r[j].seq
    <2>1. i \in 1 .. Len(q) /\ r[i] = q[i]
      BY <1>1, <1>5
    <2>2. CASE j \in 1 .. Len(q)
      BY <1>1, <1>5, <2>1, <2>2 DEF Recorded, Ordered
    <2>3. CASE j = Len(q) + 1
      <3>1. q[i].seq <= p[e.from] /\ p[e.from] \in Nat
        BY <1>1, <1>3, <1>5, <2>1, <2>3 DEF Recorded
      <3> QED BY <1>1, <1>2, <1>3, <2>1, <2>3, <3>1
    <2> QED BY <1>4, <2>2, <2>3
  <1>6. ASSUME NEW i \in 1 .. Len(r) PROVE r[i].seq <= p1[r[i].from]
    <2>1. CASE i \in 1 .. Len(q)
      BY <1>1, <1>2, <2>1 DEF Recorded
    <2>2. CASE i = Len(q) + 1
      BY <1>1, <2>2
    <2> QED BY <1>4, <2>1, <2>2
  <1> QED BY <1>5, <1>6 DEF Recorded, Ordered, r

\* An entry that a bad stream discards leaves the others in order.
LEMMA RecordedLoss ==
    ASSUME NEW f \in Seq(Entries), NEW x \in Entries, NEW q \in Seq(Entries),
           NEW p \in [Loggers -> Nat], Recorded(f \o (<<x>> \o q), p)
    PROVE  Recorded(f \o (<<>> \o q), p)
  <1> DEFINE a == f \o (<<x>> \o q)
             b == f \o (<<>> \o q)
             k(i) == IF i <= Len(f) THEN i ELSE i + 1
  <1>1. Len(f) \in Nat /\ Len(q) \in Nat /\ Len(a) = Len(f) + Len(q) + 1 /\ Len(b) = Len(f) + Len(q)
    OBVIOUS
  <1>2. \A i \in 1 .. Len(b) : b[i] = a[k(i)]
    OBVIOUS
  <1> HIDE DEF a, b
  <1>3. \A i \in 1 .. Len(b) : k(i) \in 1 .. Len(a)
    BY <1>1
  <1>4. \A i, j \in 1 .. Len(b) : i < j => k(i) < k(j)
    BY <1>1
  <1>5. Recorded(a, p)
    BY DEF a
  <1> HIDE DEF k
  <1>6. Ordered(b)
    BY <1>2, <1>3, <1>4, <1>5 DEF Recorded, Ordered
  <1>7. \A i \in 1 .. Len(b) : b[i].seq <= p[b[i].from]
    BY <1>2, <1>3, <1>5 DEF Recorded
  <1> QED BY <1>6, <1>7 DEF Recorded, b

\* What is queued last comes last in the trail.
LEMMA TrailPush ==
    ASSUME NEW f \in Seq(Entries), NEW q \in Seq(Entries), NEW e \in Entries
    PROVE  f \o Append(q, e) = Append(f \o q, e)
  OBVIOUS

\* What is in the worker's hand.
LEMMA SingleEntry ==
    ASSUME NEW S, NEW h \in Seq(S), h # <<>>, Len(h) <= 1
    PROVE  h[1] \in S /\ h = <<h[1]>>
  <1>1. Len(h) = 1
    <2>1. Len(h) \in Nat /\ Len(h) # 0
      BY EmptySeq, LenProperties
    <2> QED BY <2>1
  <1>2. h[1] \in S
    BY <1>1, ElementOfSeq
  <1>3. <<h[1]>> \in Seq(S) /\ Len(<<h[1]>>) = 1 /\ <<h[1]>>[1] = h[1]
    BY <1>2
  <1> QED BY <1>1, <1>2, <1>3, SeqEqual

\* Past counts calls, before and after a step.
LEMMA PastType ==
    ASSUME TypeOK, TypeOK'
    PROVE  Past \in [Loggers -> Nat] /\ Past' \in [Loggers -> Nat]
  <1>1. ASSUME NEW t \in Loggers PROVE Past[t] \in Nat /\ Past'[t] \in Nat
    <2>1. /\ calls[t] \in Nat /\ (pc[t] \notin {"idle", "exited"} => calls[t] >= 1)
          /\ calls'[t] \in Nat /\ (pc'[t] \notin {"idle", "exited"} => calls'[t] >= 1)
      <3>1. calls \in [Loggers -> 0 .. MaxCalls] /\ calls' \in [Loggers -> 0 .. MaxCalls]
        BY DEF TypeOK
      <3>2. /\ pc[t] \notin {"idle", "exited"} => calls[t] >= 1
            /\ pc'[t] \notin {"idle", "exited"} => calls'[t] >= 1
        BY DEF TypeOK
      <3> QED BY <3>1, <3>2, LogAssumption
    <2> QED BY <2>1 DEF Past
  <1> QED BY <1>1 DEF Past

\* A step of one thread that queues nothing never takes a call back.
LEMMA QuietOrder ==
    ASSUME TypeOK, TypeOK', OrderInv, Trail' = Trail,
           \A t \in Loggers : Past[t] <= Past'[t]
    PROVE  OrderInv'
  <1>1. Past \in [Loggers -> Nat] /\ Past' \in [Loggers -> Nat]
    BY PastType
  <1>2. PICK p \in [Loggers -> Nat], p1 \in [Loggers -> Nat] : p = Past /\ p1 = Past'
    BY <1>1
  <1>3. Trail \in Seq(Entries)
    BY DEF TypeOK, Trail, Pending
  <1>4. PICK q \in Seq(Entries) : q = Trail
    BY <1>3
  <1>5. Recorded(q, p) /\ \A t \in Loggers : p[t] <= p1[t]
    BY <1>2, <1>4 DEF OrderInv
  <1>6. Recorded(q, p1)
    BY <1>2, <1>4, <1>5, RecordedLater
  <1>7. Trail' = q /\ Past' = p1
    BY <1>2, <1>4
  <1> QED BY <1>6, <1>7 DEF OrderInv

\* How a thread that moves on, alone, changes Past.
LEMMA PastMoves ==
    ASSUME TypeOK, NEW t \in Loggers,
           \A u \in Loggers \ {t} : pc'[u] = pc[u] /\ calls'[u] = calls[u],
           \/ calls'[t] = calls[t] /\ (pc[t] \in {"idle", "notify", "exited"} => pc'[t] \in {"idle", "notify", "exited"})
           \/ calls'[t] = calls[t] + 1 /\ pc[t] = "idle"
    PROVE  \A u \in Loggers : Past[u] <= Past'[u]
  <1> SUFFICES ASSUME NEW u \in Loggers PROVE Past[u] <= Past'[u]
    OBVIOUS
  <1>1. calls[u] \in Nat /\ pc[u] \in CallLabels
    BY LogAssumption DEF TypeOK
  <1>2. CASE u # t
    BY <1>1, <1>2 DEF Past
  <1>3. CASE u = t
    BY <1>1, <1>3 DEF Past, CallLabels
  <1> QED BY <1>2, <1>3

\* Every step keeps the entries of each thread in the order of its calls.
LEMMA OrderStep == ASSUME IInv, IInv', OrderInv, [Next]_vars PROVE OrderInv'
  <1> USE LogAssumption DEF Threads, Step, StepNotify, Lock, service, queue, output
  <1> /\ TypeOK /\ TypeOK'
      /\ hand \in Seq(Entries) /\ messageQueue \in Seq(Entries) /\ file \in Seq(Entries) /\ Len(hand) <= 1
      /\ pc \in [Threads -> CallLabels \cup WorkerLabels \cup MainLabels]
      /\ calls \in [Loggers -> 0 .. MaxCalls]
    BY DEF IInv, TypeOK
  <1>1. ASSUME UNCHANGED <<hand, messageQueue, file>>, \A t \in Loggers : Past[t] <= Past'[t]
        PROVE  OrderInv'
    BY <1>1, QuietOrder DEF Trail, Pending
  <1>2. ASSUME UNCHANGED calls, \A t \in Loggers : pc'[t] = pc[t]
        PROVE  Past' = Past /\ \A t \in Loggers : Past[t] <= Past'[t]
    <2>1. Past' = Past
      BY <1>2 DEF Past
    <2> QED BY <2>1, PastType
  <1>3. ASSUME NEW t \in Loggers, Push(t) PROVE OrderInv'
    <2>1. Entry(t) \in Entries
      BY <1>3, EntryTypes DEF Push, TypeOK
    <2>2. Trail' = Append(Trail, Entry(t))
      <3>1. Pending' = Append(Pending, Entry(t)) /\ file' = file
        BY <1>3, <2>1, PendingSteps, SMTT(30) DEF Push, Pending
      <3>2. Pending \in Seq(Entries)
        BY DEF Pending
      <3>3. file \o Append(Pending, Entry(t)) = Append(file \o Pending, Entry(t))
        BY <2>1, <3>2, TrailPush
      <3>4. Trail' = file' \o Pending'
        BY DEF Trail
      <3> QED BY <3>1, <3>3, <3>4, Zenon DEF Trail
    <2>3. PICK q \in Seq(Entries), e \in Entries : q = Trail /\ e = Entry(t)
      <3>1. Trail \in Seq(Entries)
        BY DEF Trail, Pending
      <3> QED BY <2>1, <3>1
    <2>4. PICK p \in [Loggers -> Nat], p1 \in [Loggers -> Nat] : p = Past /\ p1 = Past'
      BY PastType
    <2>5. \A u \in Loggers : p[u] <= p1[u]
      BY <1>3, <2>4, PastMoves DEF Push
    <2>6. p[e.from] < e.seq /\ e.seq <= p1[e.from]
      BY <1>3, <2>3, <2>4 DEF Push, Past, Entry
    <2>7. Recorded(Append(q, e), p1)
      BY <2>3, <2>4, <2>5, <2>6, RecordedPush DEF OrderInv
    <2> QED BY <2>2, <2>3, <2>4, <2>7 DEF OrderInv
  <1>4. CASE WorkerDrain
    <2>1. Trail' = Trail
      <3>1. hand = <<>>
        BY <1>4 DEF WorkerDrain, IInv, InstanceInv
      <3> QED BY <1>4, <3>1, PendingSteps DEF WorkerDrain, Pending, Trail
    <2>2. \A t \in Loggers : Past[t] <= Past'[t]
      BY <1>2, <1>4 DEF WorkerDrain
    <2> QED BY <2>1, <2>2, QuietOrder
  <1>5. CASE WorkerWrite
    <2>1. PICK x \in Entries : hand = <<x>> /\ hand[1] = x
      <3>1. hand # <<>>
        BY <1>5 DEF WorkerWrite, IInv, HandInv
      <3>2. hand[1] \in Entries /\ hand = <<hand[1]>>
        BY <3>1, SingleEntry
      <3> QED BY <3>2
    <2>2. \A t \in Loggers : Past[t] <= Past'[t]
      BY <1>2, <1>5 DEF WorkerWrite
    <2>3. CASE file' = Append(file, x)
      <3>1. \A f, q \in Seq(Entries) : Append(f, x) \o (<<>> \o q) = f \o (<<x>> \o q)
        <4> SUFFICES ASSUME NEW f \in Seq(Entries), NEW q \in Seq(Entries)
                     PROVE  Append(f, x) \o (<<>> \o q) = f \o (<<x>> \o q)
          OBVIOUS
        <4>1. <<x>> \in Seq(Entries)
          OBVIOUS
        <4>2. Append(f, x) = f \o <<x>> /\ <<>> \o q = q
          BY AppendIsConcat, ConcatEmptySeq
        <4> QED BY <4>1, <4>2, ConcatAssociative, SMTT(30)
      <3>2. Trail' = Trail
        BY <1>5, <2>1, <2>3, <3>1 DEF WorkerWrite, Trail, Pending
      <3> QED BY <2>2, <3>2, QuietOrder
    <2>4. CASE file' = file
      <3>1. PICK f \in Seq(Entries), q \in Seq(Entries) : f = file /\ q = messageQueue
        OBVIOUS
      <3>2. PICK p \in [Loggers -> Nat] : p = Past /\ p = Past'
        BY <1>2, <1>5, PastType DEF WorkerWrite
      <3>3. Trail = f \o (<<x>> \o q) /\ Trail' = f \o (<<>> \o q)
        BY <1>5, <2>1, <2>4, <3>1 DEF WorkerWrite, Trail, Pending
      <3>4. Recorded(f \o (<<>> \o q), p)
        BY <3>1, <3>2, <3>3, RecordedLoss DEF OrderInv
      <3> QED BY <3>2, <3>3, <3>4 DEF OrderInv
    <2> QED BY <1>5, <2>1, <2>3, <2>4 DEF WorkerWrite
  <1>6. ASSUME NEW t \in Loggers,
               \/ GetInstance(t) \/ Construct(t) \/ GetInstanceReturns(t) \/ LockQueue(t) \/ Notify(t)
               \/ ThreadExits(t) \/ ConstructThrows(t)
               \/ \E level \in Levels : Log(t, level) \/ LogThrows(t, level)
        PROVE  OrderInv'
    <2>1. UNCHANGED <<hand, messageQueue, file>>
      BY <1>6 DEF GetInstance, Construct, GetInstanceReturns, LockQueue, Notify, ThreadExits,
                  ConstructThrows, Log, LogThrows
    <2>2. \A u \in Loggers \ {t} : pc'[u] = pc[u] /\ calls'[u] = calls[u]
      BY <1>6 DEF GetInstance, Construct, GetInstanceReturns, LockQueue, Notify, ThreadExits,
                  ConstructThrows, Log, LogThrows
    <2>3. \/ calls'[t] = calls[t] /\ (pc[t] \in {"idle", "notify", "exited"} => pc'[t] \in {"idle", "notify", "exited"})
          \/ calls'[t] = calls[t] + 1 /\ pc[t] = "idle"
      BY <1>6 DEF GetInstance, Construct, GetInstanceReturns, LockQueue, Notify, ThreadExits,
                  ConstructThrows, Log, LogThrows
    <2> QED BY <1>1, <2>1, <2>2, <2>3, PastMoves
  <1>7. CASE WorkerLoop \/ WorkerLock \/ WorkerPredicate \/ WorkerBlock \/ WorkerRelock
             \/ SpuriousWakeup
    BY <1>1, <1>2, <1>7 DEF WorkerLoop, WorkerLock, WorkerPredicate, WorkerBlock, WorkerRelock,
                            SpuriousWakeup
  <1>8. CASE \/ MainStep \/ Stop \/ \E level \in Levels : SetLevel(level)
    BY <1>1, <1>2, <1>8 DEF MainStep, JoinThreads, DtorStop, DtorNotify, DtorJoin, DtorClose, Stop, SetLevel
  <1>9. CASE UNCHANGED vars
    BY <1>1, <1>2, <1>9 DEF vars
  <1> QED BY <1>3, <1>4, <1>5, <1>6, <1>7, <1>8, <1>9 DEF Next, CallStep, WorkerStep, Environment

\* Whatever queueMutex, the worker and the io threads do in between, the entries
\* of one io thread reach the file in the order of its LOG calls, none twice.
THEOREM OrderKept == Spec => []ThreadOrder
  <1>1. Init => OrderInv
    <2>1. Init => Trail = <<>> /\ Len(<<>>) = 0
      BY DEF Init, Trail, Pending
    <2> QED BY <2>1 DEF OrderInv, Recorded, Ordered
  <1>2. IInv /\ IInv' /\ OrderInv /\ [Next]_vars => OrderInv'
    BY OrderStep
  <1>3. IInv /\ OrderInv => ThreadOrder
    <2> SUFFICES ASSUME IInv, OrderInv PROVE ThreadOrder
      OBVIOUS
    <2>1. Trail \in Seq(Entries)
      BY DEF IInv, TypeOK, Trail, Pending
    <2>2. DOMAIN Trail = 1 .. Len(Trail)
      BY <2>1, LenProperties
    <2> QED BY <2>2 DEF OrderInv, Recorded, Ordered, ThreadOrder, Trail
  <1> QED BY <1>1, <1>2, <1>3, Invariance, PTL DEF Spec
===============================================================================
