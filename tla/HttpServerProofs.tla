--------------------------- MODULE HttpServerProofs ---------------------------
(***************************************************************************)
(* Proofs about HttpServer for any number of io threads, connections and   *)
(* requests.  The inductive invariant says, for one connection, what it is *)
(* waiting for and how many of its requests have been read and answered in *)
(* that state.                                                             *)
(***************************************************************************)
EXTENDS HttpServer, SequenceTheorems, TLAPS

Mains == {"setup", "serving", "stopping", "joined", "returned", "terminated"}
Responses == [number : Nat, status : {"handled", "not_found"}, needEof : BOOLEAN]
Work == {NoWork} \cup [session : Sessions, request : Requests]

Types ==
    /\ main \in Mains /\ acceptor \in {"closed", "failed", "listening"} /\ accepts \in 0 .. 1
    /\ signalled \in BOOLEAN
    /\ conn \in [Sessions -> {"none", "open", "closed", "cut", "upgraded"}]
    /\ sent \in [Sessions -> Seq(Requests)] /\ received \in [Sessions -> Nat]
    /\ reads \in [Sessions -> Nat] /\ expired \in [Sessions -> BOOLEAN]
    /\ writes \in [Sessions -> Seq(Responses)] /\ replies \in [Sessions -> Seq(Responses)]
    /\ thread \in [Threads -> Work]

\* The answer to request i of session s, whatever it says about the stream.
Answers(r, s, i) ==
    /\ r.number = i
    /\ r.status = IF sent[s][i].kind = "routed" THEN "handled" ELSE "not_found"

\* The requests of s have been numbered by the client, and the replies are the
\* answers to the first of them.
Numbered(s) ==
    /\ received[s] <= Len(sent[s]) /\ Len(replies[s]) <= received[s]
    /\ \A i \in 1 .. Len(sent[s]) : sent[s][i].number = i
    /\ \A i \in 1 .. Len(replies[s]) : Answers(replies[s][i], s, i)

\* What s waits for: nothing, a read, a write or a handler.
Nobody(s) == \A t \in Threads : thread[t].session # s
Ended(s) == reads[s] = 0 /\ writes[s] = <<>> /\ Nobody(s)
Reading(s) == reads[s] = 1 /\ writes[s] = <<>> /\ Nobody(s) /\ Len(replies[s]) = received[s]
Writing(s) ==
    /\ reads[s] = 0 /\ Len(writes[s]) = 1 /\ Nobody(s)
    /\ received[s] = Len(replies[s]) + 1
    /\ Answers(writes[s][1], s, received[s])
Handling(s) ==
    /\ reads[s] = 0 /\ writes[s] = <<>> /\ received[s] = Len(replies[s]) + 1
    /\ \E t \in Threads :
          /\ thread[t] = [session |-> s, request |-> sent[s][received[s]]]
          /\ \A u \in Threads : thread[u].session = s => u = t

Phase(s) ==
    /\ conn[s] = "open" => Reading(s) \/ Writing(s) \/ Handling(s)
    /\ conn[s] # "open" => Ended(s)
    /\ conn[s] = "closed" => Len(replies[s]) = received[s]
    /\ conn[s] = "none" => sent[s] = <<>> /\ received[s] = 0 /\ replies[s] = <<>>
    /\ \A i \in 1 .. Len(replies[s]) :
          replies[s][i].needEof => i = Len(replies[s]) /\ conn[s] = "closed"

MainInv ==
    /\ main = "setup" => accepts = 0
    /\ RouterOutlivesHandlers

IInv ==
    /\ Types /\ MainInv
    /\ \A s \in Sessions : Numbered(s) /\ Phase(s)
-------------------------------------------------------------------------------
\* What async_write and async_read do to the sequences of a session: an element
\* is appended behind those that are there, and a write takes the only element.
LEMMA AppendFacts ==
    ASSUME NEW S, NEW q \in Seq(S), NEW e \in S
    PROVE  /\ Append(q, e) \in Seq(S) /\ Len(q) \in Nat /\ Len(Append(q, e)) = Len(q) + 1
           /\ \A i \in 1 .. Len(q) : Append(q, e)[i] = q[i]
           /\ Append(q, e)[Len(q) + 1] = e
  BY AppendProperties, LenProperties

LEMMA SingleFacts ==
    ASSUME NEW S, NEW q \in Seq(S), Len(q) = 1
    PROVE  /\ q # <<>> /\ Head(q) = q[1] /\ q[1] \in S /\ Tail(q) = <<>>
  <1>1. q # <<>>
    BY EmptySeq
  <1>2. Head(q) = q[1] /\ q[1] \in S /\ Tail(q) \in Seq(S) /\ Len(Tail(q)) = 0
    BY <1>1, HeadTailProperties, ElementOfSeq
  <1> QED BY <1>1, <1>2, EmptySeq

\* The empty sequence is one of any elements.
LEMMA EmptyFacts == ASSUME NEW S PROVE <<>> \in Seq(S) /\ Len(<<>>) = 0
  BY EmptySeq

\* A session that no variable of a step is about keeps its invariant.
LEMMA Frame ==
    ASSUME NEW s \in Sessions, Numbered(s), Phase(s),
           conn'[s] = conn[s], sent'[s] = sent[s], received'[s] = received[s],
           reads'[s] = reads[s], writes'[s] = writes[s], replies'[s] = replies[s],
           \A t \in Threads : (thread'[t].session = s \/ thread[t].session = s) => thread'[t] = thread[t]
    PROVE  Numbered(s)' /\ Phase(s)'
  <1>1. Nobody(s) => Nobody(s)'
    BY DEF Nobody
  <1>2. Handling(s) => Handling(s)'
    BY DEF Handling
  <1>3. Numbered(s)'
    BY DEF Numbered, Answers
  <1>4. /\ Ended(s) => Ended(s)'
        /\ Reading(s) => Reading(s)'
        /\ Writing(s) => Writing(s)'
    BY <1>1 DEF Ended, Reading, Writing, Answers
  <1> QED BY <1>1, <1>2, <1>3, <1>4 DEF Phase

\* The same for every session other than s.
LEMMA Others ==
    ASSUME IInv, NEW s \in Sessions,
           \A x \in Sessions \ {s} :
              /\ conn'[x] = conn[x] /\ sent'[x] = sent[x] /\ received'[x] = received[x]
              /\ reads'[x] = reads[x] /\ writes'[x] = writes[x] /\ replies'[x] = replies[x],
           \A t \in Threads : thread'[t] # thread[t] =>
              thread[t].session \in {s, NoSession} /\ thread'[t].session \in {s, NoSession}
    PROVE  \A x \in Sessions \ {s} : Numbered(x)' /\ Phase(x)'
  <1> SUFFICES ASSUME NEW x \in Sessions \ {s} PROVE Numbered(x)' /\ Phase(x)'
    OBVIOUS
  <1>1. \A t \in Threads : (thread'[t].session = x \/ thread[t].session = x) => thread'[t] = thread[t]
    BY ServerAssumption
  <1>2. Numbered(x) /\ Phase(x)
    BY DEF IInv
  <1> QED BY <1>1, <1>2, Frame

\* The steps of main and of the listener.
LEMMA MainStep ==
    ASSUME IInv, Setup \/ OnAcceptFails \/ Signal \/ OnSignal \/ JoinThreads \/ Return
    PROVE  IInv'
  <1> USE DEF listener, session
  <1> Types /\ MainInv /\ \A s \in Sessions : Numbered(s) /\ Phase(s)
    BY DEF IInv
  <1>1. CASE Setup
    <2>1. Types' /\ MainInv'
      BY <1>1 DEF Setup, OpenAcceptor, Types, Mains, MainInv, RouterOutlivesHandlers
    <2>2. \A s \in Sessions : Numbered(s)' /\ Phase(s)'
      BY <1>1, Frame DEF Setup
    <2> QED BY <2>1, <2>2 DEF IInv
  <1>2. CASE OnAcceptFails
    <2>1. Types' /\ MainInv'
      BY <1>2 DEF OnAcceptFails, CanRun, Types, Mains, MainInv, RouterOutlivesHandlers
    <2>2. \A s \in Sessions : Numbered(s)' /\ Phase(s)'
      BY <1>2, Frame DEF OnAcceptFails
    <2> QED BY <2>1, <2>2 DEF IInv
  <1>3. CASE Signal
    <2>1. Types' /\ MainInv'
      BY <1>3 DEF Signal, Types, Mains, MainInv, RouterOutlivesHandlers
    <2>2. \A s \in Sessions : Numbered(s)' /\ Phase(s)'
      BY <1>3, Frame DEF Signal
    <2> QED BY <2>1, <2>2 DEF IInv
  <1>4. CASE OnSignal
    <2>1. Types' /\ MainInv'
      BY <1>4 DEF OnSignal, CanRun, Types, Mains, MainInv, RouterOutlivesHandlers
    <2>2. \A s \in Sessions : Numbered(s)' /\ Phase(s)'
      BY <1>4, Frame DEF OnSignal
    <2> QED BY <2>1, <2>2 DEF IInv
  <1>5. CASE JoinThreads
    <2>1. Types' /\ MainInv'
      BY <1>5 DEF JoinThreads, Types, Mains, MainInv, RouterOutlivesHandlers
    <2>2. \A s \in Sessions : Numbered(s)' /\ Phase(s)'
      BY <1>5, Frame DEF JoinThreads
    <2> QED BY <2>1, <2>2 DEF IInv
  <1>6. CASE Return
    <2>1. Types'
      BY <1>6, EmptyFacts DEF Return, Types, Mains
    <2>2. MainInv'
      BY <1>6 DEF Return, MainInv, RouterOutlivesHandlers
    <2>3. ASSUME NEW s \in Sessions PROVE Numbered(s)' /\ Phase(s)'
      <3>1. \A t \in Threads : thread[t] = NoWork /\ thread'[t] = NoWork
        BY <1>6 DEF Return, MainInv, RouterOutlivesHandlers
      <3>2. Nobody(s)'
        BY <3>1, ServerAssumption DEF Nobody, NoWork
      <3>3. Ended(s)'
        BY <1>6, <3>2 DEF Return, Ended
      <3>4. /\ conn'[s] # "open"
            /\ conn'[s] \in {"closed", "none"} => conn'[s] = conn[s]
            /\ conn[s] = "closed" => conn'[s] = "closed"
        BY <1>6 DEF Return, Types
      <3>5. /\ sent'[s] = sent[s] /\ received'[s] = received[s] /\ replies'[s] = replies[s]
        BY <1>6 DEF Return
      <3>6. Numbered(s)'
        BY <3>5 DEF Numbered, Answers
      <3> QED BY <3>3, <3>4, <3>5, <3>6 DEF Phase
    <2> QED BY <2>1, <2>2, <2>3 DEF IInv
  <1> QED BY <1>1, <1>2, <1>3, <1>4, <1>5, <1>6

\* A connection is accepted: it waits for its first request.
LEMMA AcceptStep == ASSUME IInv, NEW s \in Sessions, OnAccept(s) PROVE IInv'
  <1> USE DEF listener
  <1> Types /\ MainInv /\ Numbered(s) /\ Phase(s)
    BY DEF IInv
  <1>1. /\ main' = main /\ acceptor' = acceptor /\ accepts' = accepts /\ signalled' = signalled /\ thread' = thread
        /\ conn' = [conn EXCEPT ![s] = "open"] /\ conn[s] = "none"
        /\ reads' = [reads EXCEPT ![s] = @ + 1] /\ expired' = [expired EXCEPT ![s] = FALSE]
        /\ UNCHANGED <<sent, received, writes, replies>>
    BY DEF OnAccept, DoRead
  <1>2. Types' /\ MainInv'
    BY <1>1 DEF Types, MainInv, RouterOutlivesHandlers
  <1>3. \A x \in Sessions \ {s} : Numbered(x)' /\ Phase(x)'
    BY <1>1, Others DEF Types
  <1>4. Numbered(s)'
    BY <1>1 DEF Numbered, Answers
  <1>5. Phase(s)'
    <2>1. Ended(s) /\ Len(replies[s]) = 0 /\ received[s] = 0
      BY <1>1, EmptyFacts DEF Phase
    <2>2. Reading(s)'
      BY <1>1, <2>1 DEF Reading, Ended, Nobody, Types
    <2>3. conn'[s] = "open" /\ replies'[s] = replies[s]
      BY <1>1 DEF Types
    <2> QED BY <2>1, <2>2, <2>3 DEF Phase
  <1> QED BY <1>2, <1>3, <1>4, <1>5 DEF IInv

\* A client sends: the requests stay numbered, and what was read stays read.
LEMMA SendStep ==
    ASSUME IInv, NEW s \in Sessions, NEW kind \in Kinds, NEW keep \in BOOLEAN, ClientSends(s, kind, keep)
    PROVE  IInv'
  <1> USE DEF listener
  <1> Types /\ MainInv /\ Numbered(s) /\ Phase(s)
    BY DEF IInv
  <1> DEFINE q == sent[s]
             r == Request(Len(q) + 1, kind, keep)
  <1>1. /\ UNCHANGED <<main, acceptor, accepts, signalled, thread, conn, received, reads, expired, writes, replies>>
        /\ sent' = [sent EXCEPT ![s] = Append(q, r)] /\ conn[s] = "open" /\ Len(q) < MaxRequests
    BY DEF ClientSends
  <1>2. q \in Seq(Requests) /\ Len(q) \in Nat
    BY LenProperties DEF Types
  <1>3. r \in Requests /\ r.number = Len(q) + 1
    BY <1>1, <1>2, ServerAssumption DEF Requests, Request
  <1> HIDE DEF r
  <1>4. /\ Append(q, r) \in Seq(Requests) /\ Len(Append(q, r)) = Len(q) + 1
        /\ \A i \in 1 .. Len(q) : Append(q, r)[i] = q[i]
        /\ Append(q, r)[Len(q) + 1] = r
    BY <1>2, <1>3, AppendFacts
  <1>5. sent'[s] = Append(q, r)
    BY <1>1 DEF Types
  <1>6. Types' /\ MainInv'
    BY <1>1, <1>4 DEF Types, MainInv, RouterOutlivesHandlers
  <1>7. \A x \in Sessions \ {s} : Numbered(x)' /\ Phase(x)'
    BY <1>1, Others DEF Types
  <1>8. received[s] \in Nat /\ received[s] <= Len(q)
    BY DEF Types, Numbered
  <1>9. \A e, i : i \in 1 .. Len(q) => (Answers(e, s, i) <=> Answers(e, s, i)')
    BY <1>4, <1>5 DEF Answers
  <1>10. Numbered(s)'
    <2>1. received'[s] <= Len(sent'[s]) /\ Len(replies'[s]) <= received'[s]
      BY <1>1, <1>2, <1>4, <1>5, <1>8 DEF Numbered
    <2>2. \A i \in 1 .. Len(sent'[s]) : sent'[s][i].number = i
      BY <1>2, <1>3, <1>4, <1>5 DEF Numbered
    <2>3. Len(replies[s]) \in Nat /\ Len(replies[s]) <= Len(q)
      BY <1>2, <1>8, LenProperties DEF Types, Numbered
    <2>4. \A i \in 1 .. Len(replies'[s]) : Answers(replies[s][i], s, i)'
      BY <1>1, <1>2, <1>9, <2>3 DEF Numbered
    <2> QED BY <1>1, <2>1, <2>2, <2>4 DEF Numbered
  <1>11. Phase(s)'
    <2>1. Reading(s) => Reading(s)'
      BY <1>1 DEF Reading, Nobody
    <2>2. Writing(s) => Writing(s)'
      BY <1>1, <1>2, <1>8, <1>9, LenProperties DEF Writing, Nobody, Types
    <2>3. Handling(s) => Handling(s)'
      BY <1>1, <1>2, <1>4, <1>5, <1>8, LenProperties DEF Handling, Types
    <2> QED BY <1>1, <2>1, <2>2, <2>3 DEF Phase
  <1> QED BY <1>6, <1>7, <1>10, <1>11 DEF IInv

\* on_read: a request goes to a thread, or the socket to a websocket.
LEMMA ReadStep ==
    ASSUME IInv, NEW s \in Sessions, NEW t \in Threads, OnRead(s, t)
    PROVE  IInv'
  <1> USE DEF listener
  <1> Types /\ MainInv /\ Numbered(s) /\ Phase(s)
    BY DEF IInv
  <1> DEFINE n == received[s] + 1
             r == sent[s][n]
  <1>1. /\ UNCHANGED <<main, acceptor, accepts, signalled, sent, expired, writes, replies>>
        /\ main = "serving" /\ thread[t] = NoWork
        /\ reads' = [reads EXCEPT ![s] = @ - 1] /\ reads[s] > 0
        /\ received' = [received EXCEPT ![s] = n] /\ received[s] < Len(sent[s])
    BY DEF OnRead
  <1>2. \/ /\ conn' = [conn EXCEPT ![s] = "upgraded"] /\ thread' = thread
        \/ /\ thread' = [thread EXCEPT ![t] = [session |-> s, request |-> r]] /\ conn' = conn
    BY DEF OnRead
  <1>3. Reading(s) /\ conn[s] = "open"
    BY <1>1, EmptyFacts DEF Phase, Ended, Writing, Handling
  <1>4. /\ received[s] \in Nat /\ Len(sent[s]) \in Nat /\ n \in 1 .. Len(sent[s])
        /\ r \in Requests
    BY <1>1, LenProperties, ElementOfSeq DEF Types
  <1>5. /\ received'[s] = n /\ reads'[s] = 0 /\ sent'[s] = sent[s] /\ writes'[s] = writes[s]
        /\ replies'[s] = replies[s]
    BY <1>1, <1>3 DEF Types, Reading
  <1>6. Types'
    <2>1. reads[s] - 1 \in Nat /\ n \in Nat
      BY <1>3, <1>4 DEF Reading
    <2>2. thread' \in [Threads -> Work]
      <3>1. [session |-> s, request |-> r] \in Work
        BY <1>4 DEF Work
      <3> QED BY <1>2, <3>1 DEF Types
    <2>3. /\ reads' \in [Sessions -> Nat] /\ received' \in [Sessions -> Nat]
          /\ conn' \in [Sessions -> {"none", "open", "closed", "cut", "upgraded"}]
      BY <1>1, <1>2, <2>1 DEF Types
    <2> QED BY <1>1, <2>2, <2>3 DEF Types
  <1>7. MainInv'
    BY <1>1 DEF MainInv, RouterOutlivesHandlers
  <1>8. \A x \in Sessions \ {s} : Numbered(x)' /\ Phase(x)'
    <2>1. \A u \in Threads : thread'[u] # thread[u] =>
              thread[u].session \in {s, NoSession} /\ thread'[u].session \in {s, NoSession}
      BY <1>1, <1>2 DEF Types, NoWork
    <2> QED BY <1>1, <1>2, <2>1, Others DEF Types
  <1>9. Numbered(s)'
    BY <1>1, <1>4, <1>5 DEF Numbered, Answers, Reading
  <1>10. Phase(s)'
    <2>1. CASE conn' = [conn EXCEPT ![s] = "upgraded"] /\ thread' = thread
      <3>1. conn'[s] = "upgraded"
        BY <2>1 DEF Types
      <3>2. Ended(s)'
        BY <1>1, <1>3, <1>5, <2>1 DEF Ended, Reading, Nobody
      <3> QED BY <1>3, <1>5, <3>1, <3>2 DEF Phase
    <2>2. CASE thread' = [thread EXCEPT ![t] = [session |-> s, request |-> r]] /\ conn' = conn
      <3>1. thread'[t] = [session |-> s, request |-> sent'[s][received'[s]]]
        BY <1>5, <2>2 DEF Types
      <3>2. \A u \in Threads : thread'[u].session = s => u = t
        BY <1>3, <2>2 DEF Types, Reading, Nobody
      <3>3. Handling(s)'
        BY <1>3, <1>5, <3>1, <3>2 DEF Handling, Reading
      <3> QED BY <1>3, <1>5, <2>2, <3>3 DEF Phase
    <2> QED BY <1>2, <2>1, <2>2
  <1> QED BY <1>6, <1>7, <1>8, <1>9, <1>10 DEF IInv

\* A read that ends without a request leaves nothing in progress; every request
\* that was read has been answered.
LEMMA ReadEndStep ==
    ASSUME IInv, NEW s \in Sessions, NEW end \in {"closed", "cut"}, ReadEndsAs(s, end)
    PROVE  IInv'
  <1> USE DEF listener
  <1> Types /\ MainInv /\ Numbered(s) /\ Phase(s)
    BY DEF IInv
  <1>1. /\ UNCHANGED <<main, acceptor, accepts, signalled, sent, received, expired, writes, replies, thread>>
        /\ reads' = [reads EXCEPT ![s] = @ - 1] /\ reads[s] > 0
        /\ conn' = [conn EXCEPT ![s] = end]
    BY DEF ReadEndsAs
  <1>2. Reading(s) /\ conn[s] = "open"
    BY <1>1, EmptyFacts DEF Phase, Ended, Writing, Handling
  <1>3. reads[s] = 1 /\ reads'[s] = 0 /\ conn'[s] = end
    BY <1>1, <1>2 DEF Types, Reading
  <1>4. Types' /\ MainInv'
    <2>1. reads' \in [Sessions -> Nat]
      BY <1>1, <1>3 DEF Types
    <2> QED BY <1>1, <2>1 DEF Types, MainInv, RouterOutlivesHandlers
  <1>5. \A x \in Sessions \ {s} : Numbered(x)' /\ Phase(x)'
    BY <1>1, Others DEF Types
  <1>6. Numbered(s)'
    BY <1>1 DEF Numbered, Answers
  <1>7. Ended(s)'
    BY <1>1, <1>2, <1>3 DEF Ended, Reading, Nobody
  <1>8. Phase(s)'
    BY <1>1, <1>2, <1>3, <1>7 DEF Phase, Reading
  <1> QED BY <1>4, <1>5, <1>6, <1>8 DEF IInv

\* handle_request: the thread's session goes from handling to writing the answer
\* to the request that was read last.
LEMMA HandleStep == ASSUME IInv, NEW t \in Threads, HandleRequest(t) PROVE IInv'
  <1> USE DEF listener
  <1> Types /\ MainInv
    BY DEF IInv
  <1>1. PICK s \in Sessions, r \in Requests : thread[t] = [session |-> s, request |-> r]
    BY DEF HandleRequest, Types, Work
  <1>2. Numbered(s) /\ Phase(s)
    BY <1>1 DEF IInv
  <1>3. Handling(s) /\ conn[s] = "open"
    BY <1>1, <1>2 DEF Phase, Reading, Writing, Ended, Nobody
  <1>4. /\ r = sent[s][received[s]] /\ \A u \in Threads : thread[u].session = s => u = t
        /\ received[s] = Len(replies[s]) + 1 /\ writes[s] = <<>> /\ reads[s] = 0
    BY <1>1, <1>3 DEF Handling
  <1>5. received[s] \in 1 .. Len(sent[s]) /\ r.number = received[s]
    <2>1. Len(replies[s]) \in Nat /\ Len(sent[s]) \in Nat /\ received[s] \in Nat
      BY <1>1, LenProperties DEF Types
    <2>2. received[s] \in 1 .. Len(sent[s])
      BY <1>2, <1>4, <2>1 DEF Numbered
    <2> QED BY <1>2, <1>4, <2>2 DEF Numbered
  <1>6. PICK response \in Responses :
           /\ writes' = [writes EXCEPT ![s] = Append(@, response)]
           /\ Answers(response, s, received[s])
    <2>1. PICK prepared \in BOOLEAN :
             writes' = [writes EXCEPT ![s] =
                          Append(@, IF r.kind = "routed" THEN Response(r, "handled", prepared)
                                    ELSE Response(r, "not_found", TRUE))]
      <3>1. thread[t].session = s /\ thread[t].request = r
        BY <1>1
      <3> QED BY <3>1, Zenon DEF HandleRequest
    <2> DEFINE response == IF r.kind = "routed" THEN Response(r, "handled", prepared)
                           ELSE Response(r, "not_found", TRUE)
    <2>2. r.number \in Nat /\ r.keep \in BOOLEAN
      BY <1>1, <1>5, LenProperties DEF Requests
    <2>3. response \in Responses /\ response.number = r.number
          /\ response.status = IF r.kind = "routed" THEN "handled" ELSE "not_found"
      BY <2>2 DEF Response, Responses
    <2>4. Answers(response, s, received[s])
      BY <1>4, <1>5, <2>3 DEF Answers
    <2> QED BY <2>1, <2>3, <2>4
  <1>7. /\ UNCHANGED <<main, acceptor, accepts, signalled, conn, sent, received, reads, expired, replies>>
        /\ thread' = [thread EXCEPT ![t] = NoWork] /\ thread[t] # NoWork
    BY DEF HandleRequest
  <1>8. writes'[s] = <<response>> /\ Len(writes'[s]) = 1 /\ writes'[s][1] = response
    <2>1. writes'[s] = Append(writes[s], response)
      BY <1>1, <1>6 DEF Types
    <2>2. Append(<<>>, response) = <<response>>
      OBVIOUS
    <2> QED BY <1>4, <2>1, <2>2
  <1>9. Types'
    <2>1. <<response>> \in Seq(Responses)
      OBVIOUS
    <2>2. writes' \in [Sessions -> Seq(Responses)]
      BY <1>1, <1>6, <1>8, <2>1 DEF Types
    <2>3. thread' \in [Threads -> Work]
      BY <1>7 DEF Types, Work
    <2> QED BY <1>7, <2>2, <2>3 DEF Types
  <1>10. MainInv'
    BY <1>7 DEF MainInv, RouterOutlivesHandlers, Types
  <1>11. \A x \in Sessions \ {s} : Numbered(x)' /\ Phase(x)'
    <2>1. \A u \in Threads : thread'[u] # thread[u] =>
              thread[u].session \in {s, NoSession} /\ thread'[u].session \in {s, NoSession}
      BY <1>1, <1>7 DEF Types, NoWork
    <2> QED BY <1>1, <1>6, <1>7, <2>1, Others DEF Types
  <1>12. Numbered(s)'
    BY <1>2, <1>7 DEF Numbered, Answers
  <1>13. Nobody(s)'
    BY <1>1, <1>4, <1>7, ServerAssumption DEF Nobody, NoWork, Types
  <1>14. Writing(s)'
    BY <1>4, <1>6, <1>7, <1>8, <1>13 DEF Writing, Answers
  <1>15. Phase(s)'
    BY <1>2, <1>3, <1>7, <1>14 DEF Phase
  <1> QED BY <1>1, <1>9, <1>10, <1>11, <1>12, <1>15 DEF IInv

\* on_write: the answer is the next reply, and the session reads on or ends.
LEMMA WriteStep == ASSUME IInv, NEW s \in Sessions, OnWrite(s) PROVE IInv'
  <1> USE DEF listener
  <1> Types /\ MainInv /\ Numbered(s) /\ Phase(s)
    BY DEF IInv
  <1> DEFINE q == replies[s]
  <1>1. Writing(s) /\ conn[s] = "open"
    BY DEF OnWrite, Phase, Ended, Reading, Handling
  <1>2. PICK e \in Responses : writes[s][1] = e /\ Head(writes[s]) = e /\ Tail(writes[s]) = <<>>
    BY <1>1, SingleFacts DEF Writing, Types
  <1>3. /\ UNCHANGED <<main, acceptor, accepts, signalled, sent, received, thread>>
        /\ replies' = [replies EXCEPT ![s] = Append(q, e)] /\ writes' = [writes EXCEPT ![s] = <<>>]
    BY <1>2 DEF OnWrite
  <1>4. IF e.needEof
        THEN conn' = [conn EXCEPT ![s] = "closed"] /\ reads' = reads /\ expired' = expired
        ELSE /\ reads' = [reads EXCEPT ![s] = @ + 1] /\ expired' = [expired EXCEPT ![s] = FALSE]
             /\ conn' = conn
    BY <1>2 DEF OnWrite, DoRead
  <1>5. q \in Seq(Responses) /\ Len(q) \in Nat /\ received[s] = Len(q) + 1
    BY <1>1, LenProperties DEF Types, Writing
  <1>6. /\ Append(q, e) \in Seq(Responses) /\ Len(Append(q, e)) = Len(q) + 1
        /\ \A i \in 1 .. Len(q) : Append(q, e)[i] = q[i]
        /\ Append(q, e)[Len(q) + 1] = e
    BY <1>5, AppendFacts
  <1>7. replies'[s] = Append(q, e) /\ writes'[s] = <<>>
    BY <1>3 DEF Types
  <1>8. Types'
    <2>1. writes' \in [Sessions -> Seq(Responses)] /\ replies' \in [Sessions -> Seq(Responses)]
      BY <1>3, <1>6, EmptyFacts DEF Types
    <2>2. /\ reads' \in [Sessions -> Nat] /\ expired' \in [Sessions -> BOOLEAN]
          /\ conn' \in [Sessions -> {"none", "open", "closed", "cut", "upgraded"}]
      <3>1. CASE e.needEof
        BY <1>4, <3>1 DEF Types
      <3>2. CASE ~e.needEof
        <4>1. /\ reads' = [reads EXCEPT ![s] = @ + 1] /\ expired' = [expired EXCEPT ![s] = FALSE]
              /\ conn' = conn
          BY <1>4, <3>2
        <4>2. reads[s] + 1 \in Nat
          BY DEF Types
        <4> QED BY <4>1, <4>2 DEF Types
      <3> QED BY <3>1, <3>2
    <2> QED BY <1>3, <2>1, <2>2 DEF Types
  <1>9. MainInv'
    BY <1>3 DEF MainInv, RouterOutlivesHandlers
  <1>10. \A x \in Sessions \ {s} : Numbered(x)' /\ Phase(x)'
    BY <1>3, <1>4, Others DEF Types
  <1>11. Answers(e, s, Len(q) + 1)
    BY <1>1, <1>2, <1>5 DEF Writing
  <1>12. Numbered(s)'
    <2>1. ASSUME NEW i \in 1 .. Len(replies'[s]) PROVE Answers(replies[s][i], s, i)'
      <3>1. i \in 1 .. Len(q) \/ i = Len(q) + 1
        BY <1>5, <1>6, <1>7
      <3>2. Answers(replies'[s][i], s, i)
        BY <1>5, <1>6, <1>7, <1>11, <3>1 DEF Numbered
      <3> QED BY <1>3, <3>2 DEF Answers
    <2>2. received'[s] <= Len(sent'[s]) /\ Len(replies'[s]) <= received'[s]
      BY <1>3, <1>5, <1>6, <1>7 DEF Numbered
    <2> QED BY <1>3, <2>1, <2>2 DEF Numbered
  <1>13. \A i \in 1 .. Len(q) : ~q[i].needEof
    BY <1>1, <1>5 DEF Phase
  <1>14. Len(replies'[s]) = received'[s] /\ Nobody(s)'
    BY <1>1, <1>3, <1>5, <1>6, <1>7 DEF Writing, Nobody
  <1>15. \A i \in 1 .. Len(replies'[s]) : replies'[s][i].needEof => i = Len(replies'[s]) /\ e.needEof
    <2> SUFFICES ASSUME NEW i \in 1 .. Len(replies'[s]), replies'[s][i].needEof
                 PROVE  i = Len(replies'[s]) /\ e.needEof
      OBVIOUS
    <2>1. i \in 1 .. Len(q) \/ i = Len(q) + 1
      BY <1>5, <1>6, <1>7
    <2> QED BY <1>5, <1>6, <1>7, <1>13, <2>1
  <1>16. Phase(s)'
    <2>1. CASE e.needEof
      <3>1. conn'[s] = "closed" /\ reads'[s] = 0
        BY <1>1, <1>4, <2>1 DEF Types, Writing
      <3>2. Ended(s)'
        BY <1>7, <1>14, <3>1 DEF Ended
      <3> QED BY <1>14, <1>15, <3>1, <3>2 DEF Phase
    <2>2. CASE ~e.needEof
      <3>1. conn'[s] = "open" /\ reads'[s] = 1
        BY <1>1, <1>4, <2>2 DEF Types, Writing
      <3>2. Reading(s)'
        BY <1>7, <1>14, <3>1 DEF Reading
      <3> QED BY <1>14, <1>15, <2>2, <3>1, <3>2 DEF Phase
    <2> QED BY <2>1, <2>2
  <1> QED BY <1>8, <1>9, <1>10, <1>12, <1>16 DEF IInv

\* A write that fails cuts the connection with its answer unsent.
LEMMA WriteEndStep == ASSUME IInv, NEW s \in Sessions, WriteEnds(s) PROVE IInv'
  <1> USE DEF listener
  <1> Types /\ MainInv /\ Numbered(s) /\ Phase(s)
    BY DEF IInv
  <1>1. Writing(s) /\ conn[s] = "open"
    BY DEF WriteEnds, Phase, Ended, Reading, Handling
  <1>2. Tail(writes[s]) = <<>>
    BY <1>1, SingleFacts DEF Writing, Types
  <1>3. /\ UNCHANGED <<main, acceptor, accepts, signalled, sent, received, reads, expired, replies, thread>>
        /\ writes' = [writes EXCEPT ![s] = <<>>] /\ conn' = [conn EXCEPT ![s] = "cut"]
    BY <1>2 DEF WriteEnds
  <1>4. writes'[s] = <<>> /\ conn'[s] = "cut"
    BY <1>3 DEF Types
  <1>5. Types' /\ MainInv'
    <2>1. writes' \in [Sessions -> Seq(Responses)]
      BY <1>3, EmptyFacts DEF Types
    <2> QED BY <1>3, <2>1 DEF Types, MainInv, RouterOutlivesHandlers
  <1>6. \A x \in Sessions \ {s} : Numbered(x)' /\ Phase(x)'
    BY <1>3, Others DEF Types
  <1>7. Numbered(s)'
    BY <1>3 DEF Numbered, Answers
  <1>8. Ended(s)'
    BY <1>1, <1>3, <1>4 DEF Ended, Writing, Nobody
  <1>9. Phase(s)'
    BY <1>1, <1>3, <1>4, <1>8 DEF Phase
  <1> QED BY <1>5, <1>6, <1>7, <1>9 DEF IInv

\* Steps that leave every session as it is, apart from its deadline.
LEMMA QuietStep ==
    ASSUME IInv, UNCHANGED <<listener, conn, sent, received, reads, writes, replies, thread>>,
           expired' \in [Sessions -> BOOLEAN], main' \in {main, "terminated"}
    PROVE  IInv'
  <1>1. Types' /\ MainInv'
    BY DEF IInv, listener, Types, Mains, MainInv, RouterOutlivesHandlers
  <1>2. \A s \in Sessions : Numbered(s)' /\ Phase(s)'
    BY Frame DEF IInv
  <1> QED BY <1>1, <1>2 DEF IInv

\* The server starts in the invariant, and every step keeps it.
LEMMA InvInit == ASSUME Init PROVE IInv
  <1>1. Types
    <2>1. sent \in [Sessions -> Seq(Requests)]
      BY EmptyFacts DEF Init
    <2>2. writes \in [Sessions -> Seq(Responses)] /\ replies \in [Sessions -> Seq(Responses)]
      BY EmptyFacts DEF Init
    <2>3. thread \in [Threads -> Work]
      BY DEF Init, Work
    <2>4. main \in Mains /\ accepts \in 0 .. 1
      BY DEF Init, Mains
    <2>5. received \in [Sessions -> Nat] /\ reads \in [Sessions -> Nat]
      BY DEF Init
    <2> QED BY <2>1, <2>2, <2>3, <2>4, <2>5, Zenon DEF Init, Types
  <1>2. MainInv
    BY DEF Init, MainInv, RouterOutlivesHandlers
  <1>3. ASSUME NEW s \in Sessions PROVE Numbered(s) /\ Phase(s)
    <2>1. /\ conn[s] = "none" /\ sent[s] = <<>> /\ received[s] = 0 /\ replies[s] = <<>>
          /\ reads[s] = 0 /\ writes[s] = <<>> /\ Len(sent[s]) = 0 /\ Len(replies[s]) = 0
      BY EmptyFacts DEF Init
    <2>2. Ended(s)
      BY <2>1, ServerAssumption DEF Init, Ended, Nobody, NoWork
    <2> QED BY <2>1, <2>2 DEF Numbered, Phase
  <1> QED BY <1>1, <1>2, <1>3 DEF IInv

LEMMA InvStep == ASSUME IInv, [Next]_vars PROVE IInv'
  <1>1. CASE Setup \/ OnAcceptFails \/ Signal \/ OnSignal \/ JoinThreads \/ Return
    BY <1>1, MainStep
  <1>2. ASSUME NEW s \in Sessions, OnAccept(s) PROVE IInv'
    BY <1>2, AcceptStep
  <1>3. ASSUME NEW s \in Sessions, OnReadEof(s) \/ OnReadFails(s) PROVE IInv'
    BY <1>3, ReadEndStep DEF OnReadEof, OnReadFails
  <1>4. ASSUME NEW s \in Sessions, OnWrite(s) PROVE IInv'
    BY <1>4, WriteStep
  <1>5. ASSUME NEW s \in Sessions, OnWriteFails(s) PROVE IInv'
    BY <1>5, WriteEndStep DEF OnWriteFails
  <1>6. ASSUME NEW s \in Sessions, TimesOut(s) PROVE IInv'
    BY <1>6, ReadEndStep, WriteEndStep DEF TimesOut
  <1>7. ASSUME NEW s \in Sessions, Expires(s) PROVE IInv'
    <2>1. expired' \in [Sessions -> BOOLEAN]
      BY <1>7 DEF Expires, IInv, Types
    <2> QED BY <1>7, <2>1, QuietStep DEF Expires, listener
  <1>8. ASSUME NEW s \in Sessions, NEW kind \in Kinds, NEW keep \in BOOLEAN, ClientSends(s, kind, keep)
        PROVE  IInv'
    BY <1>8, SendStep
  <1>9. ASSUME NEW s \in Sessions, NEW t \in Threads, OnRead(s, t) PROVE IInv'
    BY <1>9, ReadStep
  <1>10. ASSUME NEW t \in Threads, HandleRequest(t) PROVE IInv'
    BY <1>10, HandleStep
  <1>11. ASSUME NEW t \in Threads, HandlerThrows(t) PROVE IInv'
    <2>1. expired' \in [Sessions -> BOOLEAN]
      BY <1>11 DEF HandlerThrows, session, IInv, Types
    <2> QED BY <1>11, <2>1, QuietStep DEF HandlerThrows, listener, session
  <1>12. CASE UNCHANGED vars
    <2>1. expired' \in [Sessions -> BOOLEAN]
      BY <1>12 DEF vars, session, IInv, Types
    <2> QED BY <1>12, <2>1, QuietStep DEF vars, listener, session
  <1> QED BY <1>1, <1>2, <1>3, <1>4, <1>5, <1>6, <1>7, <1>8, <1>9, <1>10, <1>11, <1>12 DEF Next

LEMMA Invariant == Spec => []IInv
  <1>1. Init => IInv
    BY InvInit
  <1>2. IInv /\ [Next]_vars => IInv'
    BY InvStep
  <1> QED BY <1>1, <1>2, PTL DEF Spec
-------------------------------------------------------------------------------
\* main, the listener and every connection keep their types; an io thread works
\* only for a connection that is open, and one async_accept is in progress at most.
THEOREM TypeCorrect == Spec => []TypeOK
  <1>1. IInv => TypeOK
    <2> SUFFICES ASSUME IInv PROVE TypeOK
      OBVIOUS
    <2> Types
      BY DEF IInv
    <2>1. ASSUME NEW s \in Sessions
          PROVE  /\ sent[s] \in Seq(Requests) /\ received[s] \in 0 .. Len(sent[s])
                 /\ reads[s] \in 0 .. 1 /\ Len(writes[s]) <= 1 /\ expired[s] \in BOOLEAN
                 /\ Len(replies[s]) <= received[s]
      <3>1. Ended(s) \/ Reading(s) \/ Writing(s) \/ Handling(s)
        BY DEF IInv, Phase
      <3>2. reads[s] \in 0 .. 1 /\ Len(writes[s]) <= 1
        <4>1. writes[s] = <<>> => Len(writes[s]) = 0
          BY EmptyFacts
        <4>2. CASE Ended(s)
          BY <4>1, <4>2 DEF Ended
        <4>3. CASE Reading(s)
          BY <4>1, <4>3 DEF Reading
        <4>4. CASE Writing(s)
          BY <4>4 DEF Writing
        <4>5. CASE Handling(s)
          BY <4>1, <4>5 DEF Handling
        <4> QED BY <3>1, <4>2, <4>3, <4>4, <4>5
      <3> QED BY <3>2, LenProperties DEF IInv, Types, Numbered
    <2>2. ASSUME NEW t \in Threads, thread[t] # NoWork PROVE conn[thread[t].session] = "open"
      <3>1. thread[t].session \in Sessions
        BY <2>2 DEF Types, Work
      <3> QED BY <3>1 DEF IInv, Phase, Ended, Nobody
    <2> QED BY <2>1, <2>2 DEF TypeOK, Types, Mains
  <1> QED BY <1>1, Invariant, PTL

\* However on_read, the handlers and on_write are spread over the io threads, a
\* client gets the answers to its requests in the order of the requests.
THEOREM Pipelining == Spec => []RepliesInOrder
  <1>1. IInv => RepliesInOrder
    <2> SUFFICES ASSUME IInv, NEW s \in Sessions, NEW i \in DOMAIN replies[s]
                 PROVE  /\ replies[s][i].number = i
                        /\ replies[s][i].status =
                              IF sent[s][i].kind = "routed" THEN "handled" ELSE "not_found"
      BY DEF RepliesInOrder
    <2>1. i \in 1 .. Len(replies[s])
      BY LenProperties DEF IInv, Types
    <2> QED BY <2>1 DEF IInv, Numbered, Answers
  <1> QED BY <1>1, Invariant, PTL

\* A connection that is open has exactly one of a read, a handler and a write in
\* progress: no two io threads ever use stream_ and buffer_ of an HttpSession.
THEOREM SingleStep == Spec => []OneStepAtATime
  <1>1. IInv => OneStepAtATime
    <2> SUFFICES ASSUME IInv, NEW s \in Sessions
                 PROVE  LET handlers == {t \in Threads : thread[t].session = s}
                        IN  /\ \A t1, t2 \in handlers : t1 = t2
                            /\ conn[s] = "open" =>
                                  \/ reads[s] = 1 /\ writes[s] = <<>> /\ handlers = {}
                                  \/ reads[s] = 0 /\ Len(writes[s]) = 1 /\ handlers = {}
                                  \/ reads[s] = 0 /\ writes[s] = <<>> /\ handlers # {}
                            /\ conn[s] # "open" => reads[s] = 0 /\ writes[s] = <<>> /\ handlers = {}
      BY DEF OneStepAtATime
    <2> DEFINE handlers == {t \in Threads : thread[t].session = s}
    <2>1. Nobody(s) => handlers = {}
      BY DEF Nobody
    <2>2. Handling(s) => handlers # {} /\ \A t1, t2 \in handlers : t1 = t2
      BY DEF Handling
    <2> QED BY <2>1, <2>2 DEF IInv, Phase, Ended, Reading, Writing, Handling
  <1> QED BY <1>1, Invariant, PTL

\* on_read and on_write shut a connection down only when every request that was
\* read is answered, and a reply that needs the end of the stream is the last one.
THEOREM EndsInOrder == Spec => []OrderlyEnd
  <1>1. IInv => OrderlyEnd
    <2> SUFFICES ASSUME IInv, NEW s \in Sessions
                 PROVE  /\ conn[s] = "closed" => Len(replies[s]) = received[s]
                        /\ \A i \in DOMAIN replies[s] :
                              replies[s][i].needEof => i = Len(replies[s]) /\ conn[s] = "closed"
      BY DEF OrderlyEnd
    <2>1. DOMAIN replies[s] = 1 .. Len(replies[s])
      BY LenProperties DEF IInv, Types
    <2> QED BY <2>1 DEF IInv, Phase
  <1> QED BY <1>1, Invariant, PTL

\* When main has joined the io threads, and while it destroys the controllers and
\* the router, no route handler runs.
THEOREM RouterIsSafe == Spec => []RouterOutlivesHandlers
  <1>1. IInv => RouterOutlivesHandlers
    BY DEF IInv, MainInv
  <1> QED BY <1>1, Invariant, PTL
===============================================================================
