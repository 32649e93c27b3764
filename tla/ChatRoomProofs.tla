---------------------------- MODULE ChatRoomProofs ----------------------------
(***************************************************************************)
(* Proofs about ChatRoom for any number of sessions, of threads that call  *)
(* SharedState::send and of calls.                                         *)
(***************************************************************************)
EXTENDS ChatRoom, SequenceTheorems, TLAPS

Types ==
    /\ sessions_ \subseteq Sessions /\ mutex_ \in Senders \cup {Free}
    /\ life \in [Sessions -> {"none", "alive", "dying", "freed"}]
    /\ pending \in [Sessions -> {"nothing", "accept", "read"}]
    /\ posted \in [Sessions -> Seq(Messages)] /\ queue_ \in [Sessions -> Seq(Messages)]
    /\ writing \in [Sessions -> Seq(Messages)] /\ wire \in [Sessions -> Seq(Messages)]
    /\ broken \in [Sessions -> BOOLEAN]
    /\ pc \in [Senders -> {"idle", "snapshot", "deliver", "post", "release", "destroy"}]
    /\ v \in [Senders -> SUBSET Sessions] /\ sp \in [Senders -> Sessions \cup {NoSession}]
    /\ sent \in [Senders -> Nat]

\* Who is inside send has begun a call, holds mutex_ exactly in its first loop,
\* and does not meet the session it holds a second time.
SenderInv ==
    \A c \in Senders :
        /\ sent[c] <= MaxSends[c] /\ (pc[c] # "idle" => sent[c] > 0)
        /\ pc[c] = "snapshot" <=> mutex_ = c
        /\ pc[c] \in {"post", "release", "destroy"} => sp[c] \in Sessions \ v[c]

\* A write in progress is of the front of the queue; after a failed one the
\* queue keeps its message, so that no other is started.
StrandInv(s) ==
    /\ writing[s] # <<>> => Len(writing[s]) = 1 /\ queue_[s] # <<>> /\ writing[s][1] = Head(queue_[s])
    /\ queue_[s] # <<>> /\ writing[s] = <<>> => broken[s]
    /\ broken[s] => writing[s] = <<>> /\ queue_[s] # <<>>

\* The messages for s, from the first one written to the last one posted.
Joined(w, q, p) == w \o q \o p
Trail(s) == Joined(wire[s], queue_[s], posted[s])

\* The call that c is in has still to post its message to s.
Owes(c, s) ==
    \/ pc[c] = "snapshot"
    \/ pc[c] \in {"deliver", "post", "release", "destroy"} /\ s \in v[c]
    \/ pc[c] = "post" /\ sp[c] = s

Ordered(q) == \A i, j \in 1 .. Len(q) : (i < j /\ q[i].from = q[j].from) => q[i].number < q[j].number

\* No message in the trail is newer than the call its sender is in, or as new
\* if that call has not posted its message yet.
TrailInv(s) ==
    /\ Ordered(Trail(s))
    /\ \A i \in 1 .. Len(Trail(s)), c \in Senders :
          Trail(s)[i].from = c =>
              /\ Trail(s)[i].number <= sent[c]
              /\ Owes(c, s) => Trail(s)[i].number < sent[c]

IInv == Types /\ SenderInv /\ NoDanglingSession /\ \A s \in Sessions : StrandInv(s) /\ TrailInv(s)
-------------------------------------------------------------------------------
(* Sequences of messages.                                                    *)

\* Moving the front of one queue to the end of the one before it leaves the
\* order of the messages as it is.
LEMMA MoveFront ==
    ASSUME NEW S, NEW p \in Seq(S), NEW q \in Seq(S), p # <<>>
    PROVE  Append(q, Head(p)) \o Tail(p) = q \o p
  <1>1. Head(p) \in S /\ Tail(p) \in Seq(S) /\ <<Head(p)>> \in Seq(S)
    BY HeadTailProperties
  <1>2. p = <<Head(p)>> \o Tail(p)
    <2>1. <<Head(p)>> \o Tail(p) \in Seq(S) /\ Len(<<Head(p)>> \o Tail(p)) = Len(p)
      BY <1>1, ConcatProperties, HeadTailProperties, LenProperties
    <2>2. ASSUME NEW i \in 1 .. Len(p) PROVE p[i] = (<<Head(p)>> \o Tail(p))[i]
      BY <1>1, ConcatProperties, HeadTailProperties, LenProperties
    <2> QED BY <2>1, <2>2, SeqEqual
  <1>3. Append(q, Head(p)) = q \o <<Head(p)>>
    BY <1>1, AppendIsConcat
  <1> QED BY <1>1, <1>2, <1>3, ConcatAssociative

LEMMA Regroup ==
    ASSUME NEW S, NEW a \in Seq(S), NEW b \in Seq(S), NEW c \in Seq(S)
    PROVE  (a \o b) \o c = a \o (b \o c)
  BY ConcatAssociative

\* on_send moves the front of posted to the queue,
LEMMA TrailOnSend ==
    ASSUME NEW S, NEW w \in Seq(S), NEW q \in Seq(S), NEW p \in Seq(S), p # <<>>
    PROVE  Joined(w, Append(q, Head(p)), Tail(p)) = Joined(w, q, p)
  <1>1. Head(p) \in S /\ Tail(p) \in Seq(S)
    BY HeadTailProperties
  <1>2. Append(q, Head(p)) \in Seq(S)
    BY <1>1, AppendProperties
  <1> DEFINE a == Append(q, Head(p))
             b == Tail(p)
  <1>3. a \o b = q \o p
    BY MoveFront
  <1>4. a \in Seq(S) /\ b \in Seq(S)
    BY <1>1, <1>2
  <1> HIDE DEF a, b
  <1>5. (w \o q) \o p = w \o (q \o p)
    BY Regroup
  <1>6. (w \o a) \o b = w \o (a \o b)
    BY <1>4, Regroup, SMTT(30)
  <1>7. Joined(w, a, b) = Joined(w, q, p)
    BY <1>3, <1>5, <1>6 DEF Joined
  <1> QED BY <1>7 DEF a, b

\* on_write the front of the queue to the wire,
LEMMA TrailOnWrite ==
    ASSUME NEW S, NEW w \in Seq(S), NEW q \in Seq(S), NEW p \in Seq(S), q # <<>>
    PROVE  Joined(Append(w, Head(q)), Tail(q), p) = Joined(w, q, p)
  <1>1. Append(w, Head(q)) \o Tail(q) = w \o q
    BY MoveFront
  <1> QED BY <1>1 DEF Joined

\* and send adds a message at the end.
LEMMA TrailOnPost ==
    ASSUME NEW S, NEW w \in Seq(S), NEW q \in Seq(S), NEW p \in Seq(S), NEW m \in S
    PROVE  Joined(w, q, Append(p, m)) = Append(Joined(w, q, p), m)
  <1>1. w \o q \in Seq(S) /\ w \o q \o p \in Seq(S) /\ <<m>> \in Seq(S)
    BY ConcatProperties
  <1>2. Append(p, m) = p \o <<m>> /\ Append(w \o q \o p, m) = (w \o q \o p) \o <<m>>
    BY <1>1, AppendIsConcat
  <1>3. ((w \o q) \o p) \o <<m>> = (w \o q) \o (p \o <<m>>)
    BY <1>1, Regroup, SMTT(60)
  <1> QED BY <1>2, <1>3 DEF Joined

LEMMA TrailType ==
    ASSUME NEW S, NEW w \in Seq(S), NEW q \in Seq(S), NEW p \in Seq(S)
    PROVE  Joined(w, q, p) \in Seq(S)
  BY ConcatProperties DEF Joined

\* What the strand's queues do with an element.
LEMMA QueueFacts ==
    ASSUME NEW S, NEW q \in Seq(S)
    PROVE  /\ <<>> \in Seq(S) /\ Len(<<>>) = 0 /\ Len(q) \in Nat
           /\ q # <<>> => /\ Head(q) = q[1] /\ Head(q) \in S /\ Tail(q) \in Seq(S) /\ Len(q) > 0
           /\ Len(q) = 1 => Tail(q) = <<>>
           /\ \A e \in S : /\ Append(q, e) \in Seq(S) /\ Append(q, e) # <<>>
                           /\ Len(Append(q, e)) = Len(q) + 1
                           /\ Head(Append(q, e)) = IF q = <<>> THEN e ELSE Head(q)
                           /\ q = <<>> => Append(q, e)[1] = e
  <1>1. /\ <<>> \in Seq(S) /\ Len(<<>>) = 0 /\ Len(q) \in Nat
        /\ q # <<>> => Len(q) > 0
    BY EmptySeq, LenProperties
  <1>2. q # <<>> => Head(q) = q[1] /\ Head(q) \in S /\ Tail(q) \in Seq(S)
    BY HeadTailProperties
  <1>3. Len(q) = 1 => Tail(q) = <<>>
    <2> SUFFICES ASSUME Len(q) = 1 PROVE Tail(q) = <<>>
      OBVIOUS
    <2>1. Tail(q) \in Seq(S) /\ Len(Tail(q)) = 0
      BY <1>1, HeadTailProperties
    <2> QED BY <2>1, EmptySeq
  <1>4. ASSUME NEW e \in S
        PROVE  /\ Append(q, e) \in Seq(S) /\ Append(q, e) # <<>>
               /\ Len(Append(q, e)) = Len(q) + 1
               /\ Head(Append(q, e)) = IF q = <<>> THEN e ELSE Head(q)
               /\ q = <<>> => Append(q, e)[1] = e
    BY <1>1, AppendProperties, HeadTailAppend
  <1> QED BY <1>1, <1>2, <1>3, <1>4

\* The message of a call that has begun.
LEMMA MessageFacts ==
    ASSUME Types, SenderInv, NEW c \in Senders, pc[c] # "idle"
    PROVE  Message(c) \in Messages /\ Message(c).from = c /\ Message(c).number = sent[c]
  <1>1. MaxSends[c] \in Nat /\ sent[c] \in 1 .. MaxSends[c]
    BY ChatAssumption DEF Types, SenderInv
  <1>2. Message(c) \in [from : {c}, number : 1 .. MaxSends[c]]
    BY <1>1 DEF Message
  <1> QED BY <1>2 DEF Message, Messages

-------------------------------------------------------------------------------
(* Each part of the invariant is kept by every step.                         *)

LEMMA TypesKept ==
    ASSUME Types, SenderInv, \A s \in Sessions : StrandInv(s), [Next]_vars
    PROVE  Types'
  <1> USE DEF shared, strand, senders
  <1>1. ASSUME NEW s \in Sessions, Run(s) PROVE Types'
    BY <1>1 DEF Run, Types
  <1>2. ASSUME NEW s \in Sessions, OnAccept(s) PROVE Types'
    BY <1>2 DEF OnAccept, Join, Types
  <1>3. ASSUME NEW s \in Sessions, OnAcceptOrReadFails(s) PROVE Types'
    BY <1>3 DEF OnAcceptOrReadFails, Drop, Types
  <1>4. ASSUME NEW s \in Sessions, OnSend(s) PROVE Types'
    <2>1. posted[s] \in Seq(Messages) /\ queue_[s] \in Seq(Messages) /\ writing[s] \in Seq(Messages)
      BY DEF Types
    <2>2. Head(posted[s]) \in Messages /\ Tail(posted[s]) \in Seq(Messages)
      BY <1>4, <2>1, QueueFacts DEF OnSend
    <2>3. /\ Append(queue_[s], Head(posted[s])) \in Seq(Messages)
          /\ Head(Append(queue_[s], Head(posted[s]))) \in Messages
      BY <2>1, <2>2, QueueFacts
    <2>4. queue_'[s] = Append(queue_[s], Head(posted[s]))
      BY <1>4 DEF OnSend, Types
    <2>5. Append(writing[s], Head(queue_'[s])) \in Seq(Messages)
      BY <2>1, <2>3, <2>4, QueueFacts
    <2>6. /\ posted' \in [Sessions -> Seq(Messages)] /\ queue_' \in [Sessions -> Seq(Messages)]
      BY <1>4, <2>2, <2>3 DEF OnSend, Types
    <2>7. writing' \in [Sessions -> Seq(Messages)]
      BY <1>4, <2>5 DEF OnSend, Types
    <2>8. life' \in [Sessions -> {"none", "alive", "dying", "freed"}]
      BY <1>4 DEF OnSend, Drop, Types
    <2> QED BY <1>4, <2>6, <2>7, <2>8 DEF OnSend, Types
  <1>5. ASSUME NEW s \in Sessions, OnWrite(s) PROVE Types'
    <2>1. wire[s] \in Seq(Messages) /\ queue_[s] \in Seq(Messages) /\ writing[s] \in Seq(Messages)
      BY DEF Types
    <2>2. Head(writing[s]) \in Messages /\ Tail(writing[s]) \in Seq(Messages) /\ queue_[s] # <<>>
      BY <1>5, <2>1, QueueFacts DEF OnWrite, StrandInv
    <2>3. Append(wire[s], Head(writing[s])) \in Seq(Messages) /\ Tail(queue_[s]) \in Seq(Messages)
      BY <2>1, <2>2, QueueFacts
    <2>4. queue_'[s] = Tail(queue_[s])
      BY <1>5 DEF OnWrite, Types
    <2>5. queue_'[s] # <<>> => Append(Tail(writing[s]), Head(queue_'[s])) \in Seq(Messages)
      BY <2>2, <2>3, <2>4, QueueFacts
    <2>6. /\ wire' \in [Sessions -> Seq(Messages)] /\ queue_' \in [Sessions -> Seq(Messages)]
      BY <1>5, <2>3 DEF OnWrite, Types
    <2>7. writing' \in [Sessions -> Seq(Messages)]
      BY <1>5, <2>2, <2>5 DEF OnWrite, Types
    <2>8. life' \in [Sessions -> {"none", "alive", "dying", "freed"}]
      BY <1>5 DEF OnWrite, Drop, Types
    <2> QED BY <1>5, <2>6, <2>7, <2>8 DEF OnWrite, Types
  <1>6. ASSUME NEW s \in Sessions, OnWriteFails(s) PROVE Types'
    <2>1. Tail(writing[s]) \in Seq(Messages)
      BY <1>6, QueueFacts DEF OnWriteFails, Types
    <2>2. life' \in [Sessions -> {"none", "alive", "dying", "freed"}]
      BY <1>6 DEF OnWriteFails, Drop, Types
    <2> QED BY <1>6, <2>1, <2>2 DEF OnWriteFails, Types
  <1>7. ASSUME NEW s \in Sessions, Leave(s) PROVE Types'
    BY <1>7 DEF Leave, Types
  <1>8. ASSUME NEW c \in Senders, Send(c) PROVE Types'
    BY <1>8 DEF Send, Types
  <1>9. ASSUME NEW c \in Senders, NEW s \in Sessions, Snapshot(c, s) PROVE Types'
    BY <1>9 DEF Snapshot, Types
  <1>10. ASSUME NEW c \in Senders, NEW s \in Sessions, LockWeak(c, s) PROVE Types'
    BY <1>10 DEF LockWeak, Types
  <1>11. ASSUME NEW c \in Senders, SendUnlock(c) PROVE Types'
    BY <1>11 DEF SendUnlock, Types
  <1>12. ASSUME NEW c \in Senders, Post(c) PROVE Types'
    <2>1. sp[c] \in Sessions /\ Message(c) \in Messages
      BY <1>12, MessageFacts DEF Post, SenderInv
    <2>2. Append(posted[sp[c]], Message(c)) \in Seq(Messages)
      BY <2>1, QueueFacts DEF Types
    <2> QED BY <1>12, <2>1, <2>2 DEF Post, Types
  <1>13. ASSUME NEW c \in Senders, Release(c) PROVE Types'
    BY <1>13 DEF Release, Types
  <1>14. ASSUME NEW c \in Senders, Destroyed(c) PROVE Types'
    BY <1>14 DEF Destroyed, Types
  <1>15. ASSUME NEW c \in Senders, SendReturns(c) PROVE Types'
    BY <1>15 DEF SendReturns, Types
  <1>16. CASE UNCHANGED vars
    BY <1>16 DEF vars, Types
  <1> QED BY <1>1, <1>2, <1>3, <1>4, <1>5, <1>6, <1>7, <1>8, <1>9, <1>10, <1>11, <1>12, <1>13,
             <1>14, <1>15, <1>16 DEF Next, StrandStep, SenderStep

LEMMA SendersKept ==
    ASSUME Types, SenderInv, [Next]_vars
    PROVE  SenderInv'
  <1> USE ChatAssumption DEF shared, strand, senders
  <1>1. ASSUME NEW s \in Sessions,
               Run(s) \/ OnAccept(s) \/ OnAcceptOrReadFails(s) \/ StrandStep(s) \/ Leave(s)
        PROVE  SenderInv'
    <2>1. mutex_' = mutex_ /\ pc' = pc /\ v' = v /\ sp' = sp /\ sent' = sent
      BY <1>1 DEF Run, OnAccept, OnAcceptOrReadFails, StrandStep, OnSend, OnWrite, OnWriteFails, Leave
    <2> QED BY <2>1 DEF SenderInv
  <1>2. ASSUME NEW c \in Senders, Send(c) PROVE SenderInv'
    BY <1>2 DEF Send, Types, SenderInv
  <1>3. ASSUME NEW c \in Senders, NEW s \in Sessions, Snapshot(c, s) PROVE SenderInv'
    BY <1>3 DEF Snapshot, Types, SenderInv
  <1>4. ASSUME NEW c \in Senders, NEW s \in Sessions, LockWeak(c, s) PROVE SenderInv'
    BY <1>4 DEF LockWeak, Types, SenderInv
  <1>5. ASSUME NEW c \in Senders, SendUnlock(c) PROVE SenderInv'
    BY <1>5 DEF SendUnlock, Types, SenderInv
  <1>6. ASSUME NEW c \in Senders, Post(c) PROVE SenderInv'
    BY <1>6 DEF Post, Types, SenderInv
  <1>7. ASSUME NEW c \in Senders, Release(c) PROVE SenderInv'
    BY <1>7 DEF Release, Types, SenderInv
  <1>8. ASSUME NEW c \in Senders, Destroyed(c) PROVE SenderInv'
    BY <1>8 DEF Destroyed, Types, SenderInv
  <1>9. ASSUME NEW c \in Senders, SendReturns(c) PROVE SenderInv'
    BY <1>9 DEF SendReturns, Types, SenderInv
  <1>10. CASE UNCHANGED vars
    BY <1>10 DEF vars, SenderInv
  <1> QED BY <1>1, <1>2, <1>3, <1>4, <1>5, <1>6, <1>7, <1>8, <1>9, <1>10 DEF Next, SenderStep

\* Whether x is held depends only on its own operations and on who holds it.
LEMMA HeldFrame ==
    ASSUME NEW x, pending'[x] = pending[x], posted'[x] = posted[x], writing'[x] = writing[x],
           \A c \in Senders : (sp'[c] = x /\ pc'[c] \in {"post", "release"})
                                 <=> (sp[c] = x /\ pc[c] \in {"post", "release"})
    PROVE  Held(x)' <=> Held(x)
  BY DEF Held, HeldBy

\* A handler that drops its reference leaves the session alive or takes it into
\* its destructor; the others are not touched.
LEMMA DropKeeps ==
    ASSUME Types, NoDanglingSession, NEW s \in Sessions, Held(s), Drop(s), sessions_' = sessions_,
           \A x \in Sessions \ {s} : Held(x)' <=> Held(x)
    PROVE  NoDanglingSession'
  <1>1. life[s] = "alive" /\ life'[s] = IF Held(s)' THEN "alive" ELSE "dying"
    BY DEF Drop, Types, NoDanglingSession, AliveWhileHeld
  <1>2. \A x \in Sessions \ {s} : life'[x] = life[x]
    BY DEF Drop, Types
  <1>3. AliveWhileHeld'
    BY <1>1, <1>2 DEF NoDanglingSession, AliveWhileHeld
  <1>4. RegisteredIsAllocated'
    BY <1>1, <1>2 DEF NoDanglingSession, RegisteredIsAllocated, Types
  <1> QED BY <1>3, <1>4 DEF NoDanglingSession

\* A step that neither takes nor drops the last reference and ends no session.
LEMMA LifeFrame ==
    ASSUME NoDanglingSession, life' = life, sessions_' = sessions_,
           \A x \in Sessions : Held(x)' <=> Held(x)
    PROVE  NoDanglingSession'
  BY DEF NoDanglingSession, AliveWhileHeld, RegisteredIsAllocated

LEMMA LifeKept ==
    ASSUME Types, SenderInv, NoDanglingSession, [Next]_vars
    PROVE  NoDanglingSession'
  <1> USE DEF shared, strand, senders
  <1>1. ASSUME NEW s \in Sessions, Run(s) PROVE NoDanglingSession'
    <2>1. \A x \in Sessions \ {s} : Held(x)' <=> Held(x)
      BY <1>1, HeldFrame DEF Run, Types
    <2>2. Held(s)' /\ life'[s] = "alive" /\ \A x \in Sessions \ {s} : life'[x] = life[x]
      BY <1>1 DEF Run, Types, Held, HeldBy
    <2> QED BY <1>1, <2>1, <2>2 DEF Run, NoDanglingSession, AliveWhileHeld, RegisteredIsAllocated
  <1>2. ASSUME NEW s \in Sessions, OnAccept(s) PROVE NoDanglingSession'
    <2>1. \A x \in Sessions \ {s} : Held(x)' <=> Held(x)
      BY <1>2, HeldFrame DEF OnAccept, Types
    <2>2. Held(s) /\ Held(s)'
      BY <1>2 DEF OnAccept, Types, Held, HeldBy
    <2> QED BY <1>2, <2>1, <2>2
            DEF OnAccept, Join, NoDanglingSession, AliveWhileHeld, RegisteredIsAllocated
  <1>3. ASSUME NEW s \in Sessions, OnAcceptOrReadFails(s) PROVE NoDanglingSession'
    <2>1. \A x \in Sessions \ {s} : Held(x)' <=> Held(x)
      BY <1>3, HeldFrame DEF OnAcceptOrReadFails, Types
    <2>2. Held(s) /\ Drop(s) /\ sessions_' = sessions_
      BY <1>3 DEF OnAcceptOrReadFails, Held, HeldBy
    <2> QED BY <2>1, <2>2, DropKeeps
  <1>4. ASSUME NEW s \in Sessions, StrandStep(s) PROVE NoDanglingSession'
    <2>1. \A x \in Sessions \ {s} : Held(x)' <=> Held(x)
      BY <1>4, HeldFrame DEF StrandStep, OnSend, OnWrite, OnWriteFails, Types
    <2>2. Held(s) /\ Drop(s) /\ sessions_' = sessions_
      BY <1>4 DEF StrandStep, OnSend, OnWrite, OnWriteFails, Held, HeldBy
    <2> QED BY <2>1, <2>2, DropKeeps
  <1>5. ASSUME NEW s \in Sessions, Leave(s) PROVE NoDanglingSession'
    <2>1. \A x \in Sessions : Held(x)' <=> Held(x)
      BY <1>5, HeldFrame DEF Leave
    <2>2. life[s] = "dying" /\ life'[s] = "freed" /\ \A x \in Sessions \ {s} : life'[x] = life[x]
      BY <1>5 DEF Leave, Types
    <2> QED BY <1>5, <2>1, <2>2 DEF Leave, Types, NoDanglingSession, AliveWhileHeld, RegisteredIsAllocated
  <1>6. ASSUME NEW c \in Senders, Send(c) \/ SendUnlock(c) \/ Destroyed(c) \/ SendReturns(c)
        PROVE  NoDanglingSession'
    <2>1. \A x \in Sessions : Held(x)' <=> Held(x)
      BY <1>6, HeldFrame DEF Send, SendUnlock, Destroyed, SendReturns, Types
    <2> QED BY <1>6, <2>1, LifeFrame DEF Send, SendUnlock, Destroyed, SendReturns
  <1>7. ASSUME NEW c \in Senders, NEW s \in Sessions, Snapshot(c, s) PROVE NoDanglingSession'
    <2>1. \A x \in Sessions : Held(x)' <=> Held(x)
      BY <1>7, HeldFrame DEF Snapshot
    <2> QED BY <1>7, <2>1, LifeFrame DEF Snapshot
  <1>8. ASSUME NEW c \in Senders, NEW s \in Sessions, LockWeak(c, s) PROVE NoDanglingSession'
    <2>1. \A x \in Sessions : Held(x)' <=> Held(x)
      <3>1. CASE Held(s)
        <4>1. \A x \in Sessions \ {s} : Held(x)' <=> Held(x)
          BY <1>8, <3>1, HeldFrame DEF LockWeak, Types
        <4>2. Held(s)'
          BY <1>8, <3>1 DEF LockWeak, Types, Held, HeldBy
        <4> QED BY <3>1, <4>1, <4>2
      <3>2. CASE ~Held(s)
        BY <1>8, <3>2, HeldFrame DEF LockWeak
      <3> QED BY <3>1, <3>2
    <2> QED BY <1>8, <2>1, LifeFrame DEF LockWeak
  <1>9. ASSUME NEW c \in Senders, Post(c) PROVE NoDanglingSession'
    <2> DEFINE s == sp[c]
    <2>1. s \in Sessions /\ Held(s)
      BY <1>9 DEF Post, SenderInv, Held, HeldBy
    <2>2. \A x \in Sessions \ {s} : Held(x)' <=> Held(x)
      BY <1>9, HeldFrame DEF Post, Types
    <2>3. sp'[c] = s /\ pc'[c] = "release"
      BY <1>9 DEF Post, Types
    <2>4. \A x \in Sessions : x = s => Held(x)'
      BY <2>3 DEF Held, HeldBy
    <2>5. \A x \in Sessions : Held(x)' <=> Held(x)
      BY <2>1, <2>2, <2>4
    <2> QED BY <1>9, <2>5, LifeFrame DEF Post
  <1>10. ASSUME NEW c \in Senders, Release(c) PROVE NoDanglingSession'
    <2>1. PICK s \in Sessions : sp[c] = s
      BY <1>10 DEF Release, SenderInv
    <2>2. Held(s) /\ life[s] = "alive"
      BY <1>10, <2>1 DEF Release, Held, HeldBy, NoDanglingSession, AliveWhileHeld
    <2>3. \A x \in Sessions \ {s} : Held(x)' <=> Held(x)
      BY <1>10, <2>1, HeldFrame DEF Release, Types
    <2>4. Held(s)' <=> HeldBy(s, Senders \ {c})
      BY <1>10, <2>1, ZenonT(40) DEF Release, Types, Held, HeldBy
    <2>5. life'[s] = IF HeldBy(s, Senders \ {c}) THEN "alive" ELSE "dying"
      BY <1>10, <2>1, <2>2 DEF Release, Types
    <2>6. sessions_' = sessions_ /\ \A x \in Sessions \ {s} : life'[x] = life[x]
      BY <1>10, <2>1 DEF Release, Types
    <2> QED BY <2>2, <2>3, <2>4, <2>5, <2>6
            DEF Types, NoDanglingSession, AliveWhileHeld, RegisteredIsAllocated
  <1>11. CASE UNCHANGED vars
    <2>1. \A x \in Sessions : Held(x)' <=> Held(x)
      BY <1>11, HeldFrame DEF vars
    <2> QED BY <1>11, <2>1, LifeFrame DEF vars
  <1> QED BY <1>1, <1>2, <1>3, <1>4, <1>5, <1>6, <1>7, <1>8, <1>9, <1>10, <1>11
          DEF Next, StrandStep, SenderStep

\* The strand of a session: on_send and on_write keep its write at the front.
LEMMA StrandKept ==
    ASSUME Types, \A s \in Sessions : StrandInv(s), [Next]_vars
    PROVE  \A s \in Sessions : StrandInv(s)'
  <1> USE DEF shared, strand, senders
  <1>1. ASSUME NEW s \in Sessions, OnSend(s) PROVE \A x \in Sessions : StrandInv(x)'
    <2> DEFINE q == queue_[s]
               e == Head(posted[s])
    <2>1. q \in Seq(Messages) /\ e \in Messages /\ writing[s] \in Seq(Messages)
      BY <1>1, QueueFacts DEF OnSend, Types
    <2>2. /\ queue_'[s] = Append(q, e) /\ broken'[s] = broken[s]
          /\ writing'[s] = IF Len(queue_'[s]) > 1 THEN writing[s] ELSE Append(writing[s], Head(queue_'[s]))
      BY <1>1 DEF OnSend, Types
    <2>3. CASE q = <<>>
      <3>1. writing[s] = <<>> /\ ~broken[s]
        BY <2>3 DEF StrandInv
      <3>2. Len(queue_'[s]) = 1 /\ Head(queue_'[s]) = e /\ queue_'[s] # <<>>
        BY <2>1, <2>2, <2>3, QueueFacts
      <3>3. writing'[s] = Append(<<>>, e)
        BY <2>2, <3>1, <3>2
      <3>4. Len(writing'[s]) = 1 /\ writing'[s][1] = e /\ writing'[s] # <<>>
        BY <2>1, <3>3, QueueFacts
      <3> QED BY <1>1, <2>2, <3>1, <3>2, <3>4 DEF StrandInv, OnSend, Types
    <2>4. CASE q # <<>>
      <3>1. Len(queue_'[s]) > 1 /\ Head(queue_'[s]) = Head(q) /\ queue_'[s] # <<>>
        BY <2>1, <2>2, <2>4, QueueFacts
      <3>2. writing'[s] = writing[s]
        BY <2>2, <3>1
      <3> QED BY <1>1, <2>2, <2>4, <3>1, <3>2 DEF StrandInv, OnSend, Types
    <2> QED BY <2>3, <2>4
  <1>2. ASSUME NEW s \in Sessions, OnWrite(s) PROVE \A x \in Sessions : StrandInv(x)'
    <2>1. /\ queue_[s] \in Seq(Messages) /\ writing[s] \in Seq(Messages) /\ writing[s] # <<>>
          /\ Len(writing[s]) = 1 /\ queue_[s] # <<>> /\ ~broken[s]
      BY <1>2 DEF OnWrite, Types, StrandInv
    <2>2. Tail(writing[s]) = <<>> /\ Tail(queue_[s]) \in Seq(Messages)
      BY <2>1, QueueFacts
    <2>3. /\ queue_'[s] = Tail(queue_[s]) /\ broken'[s] = broken[s]
          /\ writing'[s] = IF queue_'[s] = <<>> THEN <<>> ELSE Append(<<>>, Head(queue_'[s]))
      BY <1>2, <2>2 DEF OnWrite, Types
    <2>4. ASSUME queue_'[s] # <<>>
          PROVE  writing'[s] # <<>> /\ Len(writing'[s]) = 1 /\ writing'[s][1] = Head(queue_'[s])
      <3>1. Head(queue_'[s]) \in Messages
        BY <2>2, <2>3, <2>4, QueueFacts
      <3> QED BY <2>3, <2>4, <3>1, QueueFacts
    <2> QED BY <1>2, <2>1, <2>3, <2>4 DEF StrandInv, OnWrite, Types
  <1>3. ASSUME NEW s \in Sessions, OnWriteFails(s) PROVE \A x \in Sessions : StrandInv(x)'
    <2>1. writing[s] \in Seq(Messages) /\ Len(writing[s]) = 1 /\ queue_[s] # <<>>
      BY <1>3 DEF OnWriteFails, Types, StrandInv
    <2>2. Tail(writing[s]) = <<>>
      BY <2>1, QueueFacts
    <2>3. writing'[s] = <<>> /\ broken'[s] /\ queue_'[s] = queue_[s]
      BY <1>3, <2>2 DEF OnWriteFails, Types
    <2> QED BY <1>3, <2>1, <2>3 DEF StrandInv, OnWriteFails, Types
  <1>4. CASE UNCHANGED <<queue_, writing, broken>>
    BY <1>4 DEF StrandInv
  <1>5. ASSUME NEW s \in Sessions, Run(s) \/ OnAccept(s) \/ OnAcceptOrReadFails(s) \/ Leave(s)
        PROVE  UNCHANGED <<queue_, writing, broken>>
    BY <1>5 DEF Run, OnAccept, OnAcceptOrReadFails, Leave
  <1>6. ASSUME NEW c \in Senders, Send(c) \/ SenderStep(c)
        PROVE  UNCHANGED <<queue_, writing, broken>>
    BY <1>6 DEF Send, SenderStep, Snapshot, LockWeak, SendUnlock, Post, Release, Destroyed, SendReturns
  <1>7. CASE UNCHANGED vars
    BY <1>4, <1>7 DEF vars
  <1> QED BY <1>1, <1>2, <1>3, <1>4, <1>5, <1>6, <1>7 DEF Next, StrandStep

\* A trail that stays as it is keeps its order; a call that begins is newer than
\* all its messages, and otherwise no call comes to owe a message.
LEMMA TrailFrame ==
    ASSUME Types, NEW s \in Sessions, TrailInv(s), Trail(s)' = Trail(s),
           \A c \in Senders : \/ sent'[c] = sent[c] + 1
                              \/ sent'[c] = sent[c] /\ (Owes(c, s)' => Owes(c, s))
    PROVE  TrailInv(s)'
  <1>1. /\ Trail(s) \in Seq(Messages) /\ Len(Trail(s)) \in Nat
        /\ \A i \in 1 .. Len(Trail(s)) : Trail(s)[i] \in Messages
    <2>1. Trail(s) \in Seq(Messages)
      BY TrailType DEF Trail, Types
    <2> QED BY <2>1, LenProperties, ElementOfSeq
  <1>2. \A m \in Messages : m.number \in Nat
    BY ChatAssumption DEF Messages
  <1>3. Ordered(Trail(s))'
    BY DEF TrailInv, Ordered
  <1>4. ASSUME NEW i \in 1 .. Len(Trail(s)'), NEW c \in Senders, (Trail(s)')[i].from = c
        PROVE  (Trail(s)')[i].number <= sent'[c] /\ (Owes(c, s)' => (Trail(s)')[i].number < sent'[c])
    <2>1. /\ Trail(s)[i].number <= sent[c]
          /\ Owes(c, s) => Trail(s)[i].number < sent[c]
          /\ Trail(s)[i].number \in Nat /\ sent[c] \in Nat
      BY <1>1, <1>2, <1>4 DEF TrailInv, Types
    <2> QED BY <2>1
  <1> QED BY <1>3, <1>4 DEF TrailInv

\* The message that is posted is newer than all others of its sender.
LEMMA TrailGrows ==
    ASSUME Types, NEW s \in Sessions, TrailInv(s), NEW c \in Senders, NEW m \in Messages,
           m.from = c, m.number = sent[c], Owes(c, s), ~Owes(c, s)', sent' = sent,
           \A d \in Senders : Owes(d, s)' => Owes(d, s),
           Trail(s)' = Append(Trail(s), m)
    PROVE  TrailInv(s)'
  <1> DEFINE q == Trail(s)
             q1 == Trail(s)'
  <1>1. /\ q \in Seq(Messages) /\ Len(q) \in Nat
        /\ \A i \in 1 .. Len(q) : q[i] \in Messages
    <2>1. q \in Seq(Messages)
      BY TrailType DEF Trail, Types
    <2> QED BY <2>1, LenProperties, ElementOfSeq
  <1>2. Len(q1) = Len(q) + 1 /\ (\A i \in 1 .. Len(q) : q1[i] = q[i]) /\ q1[Len(q) + 1] = m
    BY <1>1, AppendProperties
  <1>3. \A i \in 1 .. Len(q), d \in Senders : q[i].from = d =>
             q[i].number <= sent[d] /\ (Owes(d, s) => q[i].number < sent[d])
    BY DEF TrailInv
  <1>4. Ordered(q)
    BY DEF TrailInv
  <1>5. \A i \in 1 .. Len(q1) : i \in 1 .. Len(q) \/ i = Len(q) + 1
    BY <1>1, <1>2
  <1>6. sent[c] \in Nat
    BY DEF Types
  <1> HIDE DEF q, q1
  <1>7. ASSUME NEW i \in 1 .. Len(q1), NEW j \in 1 .. Len(q1), i < j, q1[i].from = q1[j].from
        PROVE  q1[i].number < q1[j].number
    <2>1. i \in 1 .. Len(q)
      BY <1>1, <1>2, <1>7
    <2>2. CASE j \in 1 .. Len(q)
      BY <1>2, <1>4, <1>7, <2>1, <2>2 DEF Ordered
    <2>3. CASE j = Len(q) + 1
      <3>1. q[i].from = c
        BY <1>2, <1>7, <2>1, <2>3
      <3> QED BY <1>2, <1>3, <2>1, <2>3, <3>1
    <2> QED BY <1>5, <2>2, <2>3
  <1>8. ASSUME NEW i \in 1 .. Len(q1), NEW d \in Senders, q1[i].from = d
        PROVE  q1[i].number <= sent[d] /\ (Owes(d, s)' => q1[i].number < sent[d])
    <2>1. CASE i \in 1 .. Len(q)
      BY <1>2, <1>3, <1>8, <2>1
    <2>2. CASE i = Len(q) + 1
      BY <1>2, <1>6, <1>8, <2>2
    <2> QED BY <1>5, <2>1, <2>2
  <1>9. Ordered(Trail(s))'
    BY <1>7 DEF Ordered, q1
  <1>10. \A i \in 1 .. Len(Trail(s)'), d \in Senders : (Trail(s)')[i].from = d =>
             (Trail(s)')[i].number <= sent'[d] /\ (Owes(d, s)' => (Trail(s)')[i].number < sent'[d])
    BY <1>8 DEF q1
  <1> QED BY <1>9, <1>10 DEF TrailInv

LEMMA TrailKept ==
    ASSUME IInv, [Next]_vars
    PROVE  \A s \in Sessions : TrailInv(s)'
  <1> USE DEF shared, strand, senders
  <1> Types /\ SenderInv /\ \A s \in Sessions : StrandInv(s) /\ TrailInv(s)
    BY DEF IInv
  <1>1. ASSUME senders' = senders, \A x \in Sessions : Trail(x)' = Trail(x)
        PROVE  \A x \in Sessions : TrailInv(x)'
    BY <1>1, TrailFrame DEF Owes
  <1>2. ASSUME NEW s \in Sessions, Run(s) \/ OnAccept(s) \/ OnAcceptOrReadFails(s) \/ Leave(s) \/ OnWriteFails(s)
        PROVE  \A x \in Sessions : TrailInv(x)'
    BY <1>1, <1>2 DEF Run, OnAccept, OnAcceptOrReadFails, Leave, OnWriteFails, Trail
  <1>3. ASSUME NEW s \in Sessions, OnSend(s) PROVE \A x \in Sessions : TrailInv(x)'
    <2>1. Trail(s)' = Trail(s)
      <3>1. /\ wire[s] \in Seq(Messages) /\ queue_[s] \in Seq(Messages) /\ posted[s] \in Seq(Messages)
            /\ posted[s] # <<>>
        BY <1>3 DEF OnSend, Types
      <3>2. /\ wire'[s] = wire[s] /\ queue_'[s] = Append(queue_[s], Head(posted[s]))
            /\ posted'[s] = Tail(posted[s])
        BY <1>3 DEF OnSend, Types
      <3> QED BY <3>1, <3>2, TrailOnSend DEF Trail
    <2>2. \A x \in Sessions \ {s} : Trail(x)' = Trail(x)
      BY <1>3 DEF OnSend, Types, Trail
    <2> QED BY <1>1, <1>3, <2>1, <2>2 DEF OnSend
  <1>4. ASSUME NEW s \in Sessions, OnWrite(s) PROVE \A x \in Sessions : TrailInv(x)'
    <2>1. Trail(s)' = Trail(s)
      <3>1. /\ wire[s] \in Seq(Messages) /\ queue_[s] \in Seq(Messages) /\ posted[s] \in Seq(Messages)
            /\ writing[s] \in Seq(Messages) /\ writing[s] # <<>> /\ queue_[s] # <<>>
            /\ writing[s][1] = Head(queue_[s])
        BY <1>4 DEF OnWrite, Types, StrandInv
      <3>2. Head(writing[s]) = Head(queue_[s])
        BY <3>1, QueueFacts
      <3>3. /\ wire'[s] = Append(wire[s], Head(queue_[s])) /\ queue_'[s] = Tail(queue_[s])
            /\ posted'[s] = posted[s]
        BY <1>4, <3>2 DEF OnWrite, Types
      <3> QED BY <3>1, <3>3, TrailOnWrite DEF Trail
    <2>2. \A x \in Sessions \ {s} : Trail(x)' = Trail(x)
      BY <1>4 DEF OnWrite, Types, Trail
    <2> QED BY <1>1, <1>4, <2>1, <2>2 DEF OnWrite
  <1>5. ASSUME \A x \in Sessions : Trail(x)' = Trail(x),
               \A x \in Sessions, d \in Senders :
                    \/ sent'[d] = sent[d] + 1
                    \/ sent'[d] = sent[d] /\ (Owes(d, x)' => Owes(d, x))
        PROVE  \A x \in Sessions : TrailInv(x)'
    BY <1>5, TrailFrame
  <1>6. ASSUME NEW c \in Senders, Send(c) PROVE \A x \in Sessions : TrailInv(x)'
    <2>1. \A x \in Sessions, d \in Senders :
              \/ sent'[d] = sent[d] + 1
              \/ sent'[d] = sent[d] /\ (Owes(d, x)' => Owes(d, x))
      BY <1>6 DEF Send, Types, Owes
    <2> QED BY <1>5, <1>6, <2>1 DEF Send, Trail
  <1>7. ASSUME NEW c \in Senders, NEW s \in Sessions, Snapshot(c, s) PROVE \A x \in Sessions : TrailInv(x)'
    <2>1. \A x \in Sessions, d \in Senders : sent'[d] = sent[d] /\ (Owes(d, x)' => Owes(d, x))
      BY <1>7 DEF Snapshot, Types, Owes
    <2> QED BY <1>5, <1>7, <2>1 DEF Snapshot, Trail
  <1>8. ASSUME NEW c \in Senders, NEW s \in Sessions, LockWeak(c, s) PROVE \A x \in Sessions : TrailInv(x)'
    <2>1. \A x \in Sessions, d \in Senders : sent'[d] = sent[d] /\ (Owes(d, x)' => Owes(d, x))
      BY <1>8 DEF LockWeak, Types, Owes
    <2> QED BY <1>5, <1>8, <2>1 DEF LockWeak, Trail
  <1>9. ASSUME NEW c \in Senders, SendUnlock(c) PROVE \A x \in Sessions : TrailInv(x)'
    <2>1. \A x \in Sessions, d \in Senders : sent'[d] = sent[d] /\ (Owes(d, x)' => Owes(d, x))
      BY <1>9 DEF SendUnlock, Types, Owes
    <2> QED BY <1>5, <1>9, <2>1 DEF SendUnlock, Trail
  <1>10. ASSUME NEW c \in Senders, Release(c) \/ Destroyed(c) \/ SendReturns(c)
         PROVE  \A x \in Sessions : TrailInv(x)'
    <2>1. \A x \in Sessions, d \in Senders : sent'[d] = sent[d] /\ (Owes(d, x)' => Owes(d, x))
      BY <1>10 DEF Release, Destroyed, SendReturns, Types, Owes
    <2> QED BY <1>5, <1>10, <2>1 DEF Release, Destroyed, SendReturns, Trail
  <1>11. ASSUME NEW c \in Senders, Post(c) PROVE \A x \in Sessions : TrailInv(x)'
    <2>1. PICK s \in Sessions : sp[c] = s /\ s \notin v[c]
      BY <1>11 DEF Post, SenderInv
    <2>2. PICK m \in Messages : m = Message(c) /\ m.from = c /\ m.number = sent[c]
      BY <1>11, MessageFacts DEF Post
    <2>3. /\ Owes(c, s) /\ ~Owes(c, s)' /\ sent' = sent
          /\ \A d \in Senders, x \in Sessions : Owes(d, x)' => Owes(d, x)
      BY <1>11, <2>1 DEF Post, Types, Owes
    <2>4. Trail(s)' = Append(Trail(s), m)
      <3>1. wire'[s] = wire[s] /\ queue_'[s] = queue_[s] /\ posted'[s] = Append(posted[s], m)
        BY <1>11, <2>1, <2>2 DEF Post, Types
      <3>2. wire[s] \in Seq(Messages) /\ queue_[s] \in Seq(Messages) /\ posted[s] \in Seq(Messages)
        BY DEF Types
      <3>3. \A w, q, p \in Seq(Messages) : Joined(w, q, Append(p, m)) = Append(Joined(w, q, p), m)
        BY TrailOnPost
      <3>4. Joined(wire[s], queue_[s], Append(posted[s], m)) = Append(Joined(wire[s], queue_[s], posted[s]), m)
        BY <3>2, <3>3, Zenon
      <3> QED BY <3>1, <3>4, Zenon DEF Trail
    <2>5. TrailInv(s)'
      BY <2>2, <2>3, <2>4, TrailGrows
    <2>6. ASSUME NEW x \in Sessions \ {s} PROVE TrailInv(x)'
      <3>1. Trail(x)' = Trail(x)
        BY <1>11, <2>1 DEF Post, Types, Trail
      <3> QED BY <2>3, <3>1, TrailFrame
    <2> QED BY <2>5, <2>6
  <1>12. CASE UNCHANGED vars
    BY <1>1, <1>12 DEF vars, Trail
  <1> QED BY <1>2, <1>3, <1>4, <1>6, <1>7, <1>8, <1>9, <1>10, <1>11, <1>12 DEF Next, StrandStep, SenderStep

\* The room starts in the invariant, and every step keeps it.
LEMMA InvInit == ASSUME Init PROVE IInv
  <1>1. Types
    BY EmptySeq DEF Init, Types
  <1>2. SenderInv
    BY ChatAssumption DEF Init, SenderInv
  <1>3. NoDanglingSession
    BY DEF Init, NoDanglingSession, RegisteredIsAllocated, AliveWhileHeld, Held, HeldBy
  <1>4. ASSUME NEW s \in Sessions PROVE StrandInv(s) /\ TrailInv(s)
    <2>1. /\ wire[s] = <<>> /\ queue_[s] = <<>> /\ posted[s] = <<>> /\ writing[s] = <<>> /\ ~broken[s]
      BY <1>4 DEF Init
    <2>2. Trail(s) = <<>> /\ Len(Trail(s)) = 0
      <3>1. Trail(s) = <<>>
        BY <2>1, ConcatEmptySeq, EmptySeq DEF Trail, Joined
      <3> QED BY <3>1, EmptySeq
    <2>3. \A i : i \notin 1 .. Len(Trail(s))
      BY <2>2
    <2>4. TrailInv(s)
      BY <2>3 DEF TrailInv, Ordered
    <2>5. StrandInv(s)
      BY <2>1 DEF StrandInv
    <2> QED BY <2>4, <2>5
  <1> QED BY <1>1, <1>2, <1>3, <1>4 DEF IInv

LEMMA InvStep == ASSUME IInv, [Next]_vars PROVE IInv'
  <1>1. Types' /\ SenderInv' /\ NoDanglingSession'
    BY TypesKept, SendersKept, LifeKept DEF IInv
  <1>2. \A s \in Sessions : StrandInv(s)' /\ TrailInv(s)'
    BY StrandKept, TrailKept DEF IInv
  <1> QED BY <1>1, <1>2 DEF IInv

LEMMA Invariant == Spec => []IInv
  <1>1. Init => IInv
    BY InvInit
  <1>2. IInv /\ [Next]_vars => IInv'
    BY InvStep
  <1> QED BY <1>1, <1>2, PTL DEF Spec
-------------------------------------------------------------------------------
\* The sessions, their queues and the callers of send keep their types, and
\* mutex_ is held exactly in the first loop of send.
THEOREM TypeCorrect == Spec => []TypeOK
  <1>1. IInv => TypeOK
    <2> SUFFICES ASSUME IInv PROVE TypeOK
      OBVIOUS
    <2>1. \A c \in Senders : sent[c] \in 0 .. MaxSends[c]
      BY ChatAssumption DEF IInv, Types, SenderInv
    <2>2. \A c \in Senders : pc[c] = "snapshot" <=> mutex_ = c
      BY DEF IInv, SenderInv
    <2> QED BY <2>1, <2>2 DEF IInv, Types, TypeOK
  <1> QED BY <1>1, Invariant, PTL

\* No handler, no caller of send and no raw pointer in sessions_ ever reaches a
\* session that has been destroyed.
THEOREM NoUseAfterFree == Spec => []NoDanglingSession
  <1>1. IInv => NoDanglingSession
    BY DEF IInv
  <1> QED BY <1>1, Invariant, PTL

\* One async_write at a time on a session, of a message that stays in queue_
\* until it has ended; no message waits in the queue without one.
THEOREM OneWriteAtATime == Spec => []WriteOwnsFront
  <1>1. IInv => WriteOwnsFront
    <2> SUFFICES ASSUME IInv, NEW s \in Sessions
                 PROVE  /\ Len(writing[s]) <= 1
                        /\ writing[s] # <<>> => queue_[s] # <<>> /\ writing[s][1] = Head(queue_[s])
                        /\ queue_[s] # <<>> /\ writing[s] = <<>> => broken[s]
      BY DEF WriteOwnsFront
    <2>1. writing[s] = <<>> => Len(writing[s]) = 0
      BY EmptySeq
    <2>2. StrandInv(s)
      BY DEF IInv
    <2>3. Len(writing[s]) <= 1
      <3>1. CASE writing[s] = <<>>
        BY <2>1, <3>1
      <3>2. CASE writing[s] # <<>>
        <4>1. Len(writing[s]) = 1
          BY <2>2, <3>2, Zenon DEF StrandInv
        <4> QED BY <4>1
      <3> QED BY <3>1, <3>2
    <2> QED BY <2>2, <2>3 DEF StrandInv
  <1> QED BY <1>1, Invariant, PTL

\* Whichever threads call send and whichever run the handlers, a session gets
\* the messages of one caller in the order of its calls, and each only once.
THEOREM MessagesInOrder == Spec => []InOrder
  <1>1. IInv => InOrder
    <2> SUFFICES ASSUME IInv, NEW s \in Sessions,
                        NEW i \in DOMAIN Trail(s), NEW j \in DOMAIN Trail(s),
                        i < j, Trail(s)[i].from = Trail(s)[j].from
                 PROVE  Trail(s)[i].number < Trail(s)[j].number
      BY DEF InOrder, Trail, Joined
    <2>1. Trail(s) \in Seq(Messages)
      BY TrailType DEF IInv, Types, Trail
    <2>2. DOMAIN Trail(s) = 1 .. Len(Trail(s))
      BY <2>1, LenProperties
    <2> QED BY <2>2 DEF IInv, TrailInv, Ordered
  <1> QED BY <1>1, Invariant, PTL

\* After a failed write nothing more is written to the session: its message
\* stays at the front of queue_, and on_send starts a write only for a queue
\* that was empty.
THEOREM SilentAfterFailure == Spec => NoWriteAfterFailure
  <1> USE DEF shared, strand, senders
  <1>1. IInv /\ IInv' /\ [Next]_vars
            => [\A s \in Sessions : broken[s] => wire'[s] = wire[s] /\ writing'[s] = <<>>]_vars
    <2> SUFFICES ASSUME IInv, IInv', Next, NEW s \in Sessions, broken[s]
                 PROVE  wire'[s] = wire[s] /\ writing'[s] = <<>>
      OBVIOUS
    <2>1. writing[s] = <<>>
      BY DEF IInv, StrandInv
    <2>2. broken'[s] => writing'[s] = <<>>
      BY DEF IInv, StrandInv
    <2>3. ASSUME NEW x \in Sessions,
                 Run(x) \/ OnAccept(x) \/ OnAcceptOrReadFails(x) \/ Leave(x) \/ OnSend(x)
          PROVE  wire' = wire /\ broken' = broken
      BY <2>3 DEF Run, OnAccept, OnAcceptOrReadFails, Leave, OnSend
    <2>4. ASSUME NEW x \in Sessions, OnWrite(x) \/ OnWriteFails(x)
          PROVE  wire'[s] = wire[s] /\ broken'[s] = broken[s]
      <3>1. x # s
        BY <2>1, <2>4 DEF OnWrite, OnWriteFails
      <3>2. wire \in [Sessions -> Seq(Messages)] /\ broken \in [Sessions -> BOOLEAN]
        BY DEF IInv, Types
      <3> QED BY <2>4, <3>1, <3>2 DEF OnWrite, OnWriteFails
    <2>5. ASSUME NEW c \in Senders, Send(c) \/ SenderStep(c) PROVE wire' = wire /\ broken' = broken
      BY <2>5 DEF Send, SenderStep, Snapshot, LockWeak, SendUnlock, Post, Release, Destroyed, SendReturns
    <2> QED BY <2>2, <2>3, <2>4, <2>5 DEF Next, StrandStep
  <1> QED BY <1>1, Invariant, PTL DEF Spec, NoWriteAfterFailure
===============================================================================
