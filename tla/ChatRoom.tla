------------------------------- MODULE ChatRoom -------------------------------
(***************************************************************************)
(* src/src/Network/SharedState.{h,cc} and WebSocketSession.{h,cc}: the     *)
(* sessions of one server, the set of raw pointers SharedState keeps to    *)
(* them, and SharedState::send, which posts a message to every session.    *)
(*                                                                         *)
(* A session lives while a pending operation, a posted handler or a caller *)
(* of send holds a shared_ptr to it; its destructor leaves the SharedState.*)
(* The handlers of one session run on its strand, one at a time.           *)
(***************************************************************************)
EXTENDS Naturals, Sequences, FiniteSets

CONSTANTS Sessions,
          Senders,    \* threads that call SharedState::send
          MaxSends,   \* bound: calls of send, for each of these threads
          MaxCalls,   \* bound: calls of send, for all of them together
          Readers,    \* sessions whose peers take in what is written to them
          NoSession,
          Free        \* "mutex_ is free"

ASSUME ChatAssumption ==
    MaxSends \in [Senders -> Nat] /\ NoSession \notin Sessions /\ Free \notin Senders

VARIABLES
    sessions_,  \* SharedState::sessions_
    mutex_,     \* holder of SharedState::mutex_
    life,       \* none, alive, dying (in ~WebSocketSession), freed
    pending,    \* the session's accept or read in progress
    posted,     \* messages of the on_send handlers posted and not yet run
    queue_,     \* WebSocketSession::queue_
    writing,    \* buffers of the async_writes in progress
    broken,     \* an async_write has failed
    wire,       \* messages written to the client
    pc,         \* where each sender is in SharedState::send
    v,          \* the weak_ptrs each sender has still to look at
    sp,         \* the session each sender holds, or is destroying
    sent        \* calls of send each sender has begun

shared == <<sessions_, mutex_>>
strand == <<pending, posted, queue_, writing, broken, wire>>
senders == <<pc, v, sp, sent>>
vars == <<shared, life, strand, senders>>

Message(c) == [from |-> c, number |-> sent[c]]
Messages == UNION {[from : {c}, number : 1 .. MaxSends[c]] : c \in Senders}
Calls == UNION {[from : {c}, number : 1 .. sent[c]] : c \in Senders}

\* A pending operation, a posted handler or one of the callers `cs' of send
\* holds a shared_ptr to s.
HeldBy(s, cs) ==
    \/ pending[s] # "nothing"
    \/ posted[s] # <<>>
    \/ writing[s] # <<>>
    \/ \E c \in cs : sp[c] = s /\ pc[c] \in {"post", "release"}
Held(s) == HeldBy(s, Senders)

\* A shared_ptr to s is dropped; the last one takes s into its destructor.
Drop(s) == life' = [life EXCEPT ![s] = IF Held(s)' THEN @ ELSE "dying"]

Init ==
    /\ sessions_ = {} /\ mutex_ = Free
    /\ life = [s \in Sessions |-> "none"]
    /\ pending = [s \in Sessions |-> "nothing"]
    /\ posted = [s \in Sessions |-> <<>>]
    /\ queue_ = [s \in Sessions |-> <<>>]
    /\ writing = [s \in Sessions |-> <<>>]
    /\ broken = [s \in Sessions |-> FALSE]
    /\ wire = [s \in Sessions |-> <<>>]
    /\ pc = [c \in Senders |-> "idle"]
    /\ v = [c \in Senders |-> {}]
    /\ sp = [c \in Senders |-> NoSession]
    /\ sent = [c \in Senders |-> 0]
-------------------------------------------------------------------------------
(* WebSocketSession.                                                         *)

\* HttpSession hands over an upgraded socket: run starts async_accept.
Run(s) ==
    /\ life[s] = "none"
    /\ life' = [life EXCEPT ![s] = "alive"]
    /\ pending' = [pending EXCEPT ![s] = "accept"]
    /\ UNCHANGED <<shared, posted, queue_, writing, broken, wire, senders>>

\* SharedState::join, which holds mutex_ for one insertion.
Join(s) ==
    /\ mutex_ = Free
    /\ sessions_' = sessions_ \cup {s}

\* The handshake is done: join and start reading.
OnAccept(s) ==
    /\ pending[s] = "accept"
    /\ Join(s)
    /\ pending' = [pending EXCEPT ![s] = "read"]
    /\ UNCHANGED <<mutex_, life, posted, queue_, writing, broken, wire, senders>>

\* The handshake or a read fails, or the client has closed.  (A read that
\* succeeds discards what was read and starts the next one.)
OnAcceptOrReadFails(s) ==
    /\ pending[s] # "nothing"
    /\ pending' = [pending EXCEPT ![s] = "nothing"]
    /\ UNCHANGED <<shared, posted, queue_, writing, broken, wire, senders>>
    /\ Drop(s)

\* Seeded fault: a write is started whatever the length of the queue.
OnSend_AlwaysWrite(s) ==
    /\ posted[s] # <<>>
    /\ posted' = [posted EXCEPT ![s] = Tail(@)]
    /\ queue_' = [queue_ EXCEPT ![s] = Append(@, Head(posted[s]))]
    /\ writing' = [writing EXCEPT ![s] = Append(@, Head(queue_'[s]))]
    /\ UNCHANGED <<shared, pending, broken, wire, senders>>
    /\ Drop(s)

\* on_send: queue the message and, if it is alone in the queue, write it.
OnSend(s) ==
    /\ posted[s] # <<>>
    /\ posted' = [posted EXCEPT ![s] = Tail(@)]
    /\ queue_' = [queue_ EXCEPT ![s] = Append(@, Head(posted[s]))]
    /\ writing' = [writing EXCEPT ![s] = IF Len(queue_'[s]) > 1 THEN @ ELSE Append(@, Head(queue_'[s]))]
    /\ UNCHANGED <<shared, pending, broken, wire, senders>>
    /\ Drop(s)

\* Seeded fault: the message that was written stays in the queue.
OnWrite_NoErase(s) ==
    /\ writing[s] # <<>>
    /\ wire' = [wire EXCEPT ![s] = Append(@, Head(writing[s]))]
    /\ writing' = [writing EXCEPT ![s] = IF Len(queue_[s]) > 1 THEN <<Head(queue_[s])>> ELSE <<>>]
    /\ UNCHANGED <<shared, pending, posted, queue_, broken, senders>>
    /\ Drop(s)

\* Seeded fault: a write that ends does not start the next one.
OnWrite_NoNext(s) ==
    /\ writing[s] # <<>>
    /\ wire' = [wire EXCEPT ![s] = Append(@, Head(writing[s]))]
    /\ queue_' = [queue_ EXCEPT ![s] = Tail(@)]
    /\ writing' = [writing EXCEPT ![s] = Tail(@)]
    /\ UNCHANGED <<shared, pending, posted, broken, senders>>
    /\ Drop(s)

\* on_write: the front of the queue has been written; write the next one.
OnWrite(s) ==
    /\ writing[s] # <<>>
    /\ wire' = [wire EXCEPT ![s] = Append(@, Head(writing[s]))]
    /\ queue_' = [queue_ EXCEPT ![s] = Tail(@)]
    /\ writing' = [writing EXCEPT ![s] = IF queue_'[s] = <<>> THEN Tail(@)
                                         ELSE Append(Tail(@), Head(queue_'[s]))]
    /\ UNCHANGED <<shared, pending, posted, broken, senders>>
    /\ Drop(s)

\* Seeded fault: a failed write takes its message out of the queue.
OnWriteFails_Erase(s) ==
    /\ writing[s] # <<>>
    /\ writing' = [writing EXCEPT ![s] = Tail(@)]
    /\ queue_' = [queue_ EXCEPT ![s] = Tail(@)]
    /\ broken' = [broken EXCEPT ![s] = TRUE]
    /\ UNCHANGED <<shared, pending, posted, wire, senders>>
    /\ Drop(s)

\* on_write with an error returns: the queue stays as it is.
OnWriteFails(s) ==
    /\ writing[s] # <<>>
    /\ writing' = [writing EXCEPT ![s] = Tail(@)]
    /\ broken' = [broken EXCEPT ![s] = TRUE]
    /\ UNCHANGED <<shared, pending, posted, queue_, wire, senders>>
    /\ Drop(s)

\* Seeded fault: the destructor does not leave the SharedState.
Leave_Missing(s) ==
    /\ life[s] = "dying"
    /\ life' = [life EXCEPT ![s] = "freed"]
    /\ UNCHANGED <<shared, strand, senders>>

\* ~WebSocketSession: leave, under mutex_; then the memory is released.
Leave(s) ==
    /\ life[s] = "dying"
    /\ mutex_ = Free
    /\ sessions_' = sessions_ \ {s}
    /\ life' = [life EXCEPT ![s] = "freed"]
    /\ UNCHANGED <<mutex_, strand, senders>>
-------------------------------------------------------------------------------
(* SharedState::send.                                                        *)

Send(c) ==
    /\ pc[c] = "idle" /\ sent[c] < MaxSends[c] /\ Cardinality(Calls) < MaxCalls
    /\ sent' = [sent EXCEPT ![c] = @ + 1]
    /\ pc' = [pc EXCEPT ![c] = "snapshot"]
    /\ mutex_ = Free /\ mutex_' = c
    /\ UNCHANGED <<sessions_, life, strand, v, sp>>

\* The first loop: p->weak_from_this() for one raw pointer in sessions_.
Snapshot(c, s) ==
    /\ pc[c] = "snapshot"
    /\ s \in sessions_ \ v[c]
    /\ v' = [v EXCEPT ![c] = @ \cup {s}]
    /\ UNCHANGED <<shared, life, strand, pc, sp, sent>>

\* Seeded fault: the lock is still held in the second loop.
SendUnlock_Late(c) ==
    /\ pc[c] = "snapshot" /\ sessions_ = v[c]
    /\ pc' = [pc EXCEPT ![c] = "deliver"]
    /\ UNCHANGED <<shared, life, strand, v, sp, sent>>

SendUnlock(c) ==
    /\ pc[c] = "snapshot" /\ sessions_ = v[c]
    /\ pc' = [pc EXCEPT ![c] = "deliver"]
    /\ mutex_' = Free
    /\ UNCHANGED <<sessions_, life, strand, v, sp, sent>>

\* Seeded fault: the snapshot holds raw pointers, which cannot expire.
LockWeak_Raw(c, s) ==
    /\ pc[c] = "deliver" /\ s \in v[c]
    /\ v' = [v EXCEPT ![c] = @ \ {s}]
    /\ sp' = [sp EXCEPT ![c] = s] /\ pc' = [pc EXCEPT ![c] = "post"]
    /\ UNCHANGED <<shared, life, strand, sent>>

\* The second loop: wp.lock() gives a shared_ptr unless the session has gone.
LockWeak(c, s) ==
    /\ pc[c] = "deliver" /\ s \in v[c]
    /\ v' = [v EXCEPT ![c] = @ \ {s}]
    /\ IF Held(s)
       THEN sp' = [sp EXCEPT ![c] = s] /\ pc' = [pc EXCEPT ![c] = "post"]
       ELSE UNCHANGED <<sp, pc>>
    /\ UNCHANGED <<shared, life, strand, sent>>

\* WebSocketSession::send posts on_send to the session's strand.
Post(c) ==
    /\ pc[c] = "post"
    /\ posted' = [posted EXCEPT ![sp[c]] = Append(@, Message(c))]
    /\ pc' = [pc EXCEPT ![c] = "release"]
    /\ UNCHANGED <<shared, life, pending, queue_, writing, broken, wire, v, sp, sent>>

\* sp goes out of scope.  If it was the last shared_ptr this thread is now in
\* the destructor ...
Release(c) ==
    /\ pc[c] = "release"
    /\ IF HeldBy(sp[c], Senders \ {c})
       THEN /\ pc' = [pc EXCEPT ![c] = "deliver"]
            /\ sp' = [sp EXCEPT ![c] = NoSession]
            /\ UNCHANGED life
       ELSE /\ pc' = [pc EXCEPT ![c] = "destroy"]
            /\ life' = [life EXCEPT ![sp[c]] = "dying"]
            /\ UNCHANGED sp
    /\ UNCHANGED <<shared, strand, v, sent>>

\* ... and goes on when the destructor has returned.
Destroyed(c) ==
    /\ pc[c] = "destroy" /\ life[sp[c]] = "freed"
    /\ pc' = [pc EXCEPT ![c] = "deliver"]
    /\ sp' = [sp EXCEPT ![c] = NoSession]
    /\ UNCHANGED <<shared, life, strand, v, sent>>

SendReturns(c) ==
    /\ pc[c] = "deliver" /\ v[c] = {}
    /\ pc' = [pc EXCEPT ![c] = "idle"]
    /\ UNCHANGED <<shared, life, strand, v, sp, sent>>
-------------------------------------------------------------------------------
\* Handlers of session s on its strand.  When a read, a write or the handshake
\* ends is up to the client.
StrandStep(s) == OnSend(s) \/ OnWrite(s) \/ OnWriteFails(s)

SenderStep(c) ==
    \/ \E s \in Sessions : Snapshot(c, s) \/ LockWeak(c, s)
    \/ SendUnlock(c) \/ Post(c) \/ Release(c) \/ Destroyed(c) \/ SendReturns(c)

Next ==
    \/ \E s \in Sessions : Run(s) \/ OnAccept(s) \/ OnAcceptOrReadFails(s) \/ StrandStep(s) \/ Leave(s)
    \/ \E c \in Senders : Send(c) \/ SenderStep(c)

Spec == Init /\ [][Next]_vars

\* The io threads run every handler that was posted, and a thread that waits for
\* mutex_ gets it if it stays free.  The code does not make a write end: the
\* stream's idle timeout starts again whenever data is received, so that a peer
\* which sends and does not read keeps async_write pending.  That writes end, one
\* way or the other, is assumed of the peers in Readers only; the others may stop
\* a write for ever.
FairSpec ==
    /\ Spec
    /\ \A s \in Sessions : WF_vars(OnSend(s)) /\ WF_vars(Leave(s))
    /\ \A s \in Readers : WF_vars(OnWrite(s) \/ OnWriteFails(s))
    /\ \A c \in Senders : WF_vars(SenderStep(c))
-------------------------------------------------------------------------------
\* Every variable keeps its type; a session has something pending only between
\* run and its destructor.
TypeOK ==
    /\ sessions_ \subseteq Sessions /\ mutex_ \in Senders \cup {Free}
    /\ life \in [Sessions -> {"none", "alive", "dying", "freed"}]
    /\ pending \in [Sessions -> {"nothing", "accept", "read"}]
    /\ posted \in [Sessions -> Seq(Messages)] /\ queue_ \in [Sessions -> Seq(Messages)]
    /\ writing \in [Sessions -> Seq(Messages)] /\ wire \in [Sessions -> Seq(Messages)]
    /\ broken \in [Sessions -> BOOLEAN]
    /\ pc \in [Senders -> {"idle", "snapshot", "deliver", "post", "release", "destroy"}]
    /\ v \in [Senders -> SUBSET Sessions] /\ sp \in [Senders -> Sessions \cup {NoSession}]
    /\ \A c \in Senders : sent[c] \in 0 .. MaxSends[c]
    /\ \A c \in Senders : pc[c] = "snapshot" <=> mutex_ = c

\* SharedState::send dereferences the raw pointers in sessions_: each of them
\* points to a session whose destructor has not finished.
RegisteredIsAllocated == \A s \in sessions_ : life[s] \in {"alive", "dying"}

\* A handler or a caller of send never uses a session whose destructor has
\* begun, and a session nobody uses any more is on its way out.
AliveWhileHeld == \A s \in Sessions : Held(s) <=> life[s] = "alive"

\* No thread ever uses a session that is gone: neither through the raw pointers
\* of sessions_ nor through a handler or the weak_ptrs of send.
NoDanglingSession == RegisteredIsAllocated /\ AliveWhileHeld

\* At most one async_write is in progress on a session, for the message at the
\* front of queue_, which stays there, alive, until the write has ended; and
\* unless a write has failed, messages in the queue are being written.
WriteOwnsFront ==
    \A s \in Sessions :
        /\ Len(writing[s]) <= 1
        /\ writing[s] # <<>> => queue_[s] # <<>> /\ writing[s][1] = Head(queue_[s])
        /\ queue_[s] # <<>> /\ writing[s] = <<>> => broken[s]

\* Each session gets the messages of one caller in the order of its calls, and
\* none of them twice.
InOrder ==
    \A s \in Sessions :
        LET trail == wire[s] \o queue_[s] \o posted[s]
        IN  \A i, j \in DOMAIN trail :
                (i < j /\ trail[i].from = trail[j].from) => trail[i].number < trail[j].number

\* Nothing is written to a session after one of its writes has failed.
NoWriteAfterFailure == [][\A s \in Sessions : broken[s] => wire'[s] = wire[s] /\ writing'[s] = <<>>]_vars

\* A session that has stopped reading is destroyed if its peer takes in what is
\* still being written, whatever the senders and the peers of other sessions do.
ClosedIsFreed ==
    \A s \in Readers : (life[s] = "alive" /\ pending[s] = "nothing") ~> life[s] = "freed"

\* A message posted to a session whose peer takes in what is written is written
\* to it, unless a write fails: neither the queue of the session nor a peer of
\* another session that has stopped reading holds it up.
PostedIsWritten ==
    \A s \in Readers, m \in Messages :
        (\E i \in DOMAIN posted[s] : posted[s][i] = m)
            ~> (broken[s] \/ \E i \in DOMAIN wire[s] : wire[s][i] = m)
===============================================================================
