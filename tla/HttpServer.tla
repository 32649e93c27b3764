------------------------------ MODULE HttpServer ------------------------------
(***************************************************************************)
(* src/app/main.cc, src/src/Network/listener.cc, HttpSession.cc and        *)
(* Router.h: the acceptor, the connections, the pool of io threads that    *)
(* runs their handlers, and the shutdown on a signal.                      *)
(*                                                                         *)
(* A route's handler is called by on_read and blocks its io thread until   *)
(* it returns; every other handler only starts the next operation.         *)
(***************************************************************************)
EXTENDS Naturals, Sequences

CONSTANTS Threads,      \* io threads, main included
          Sessions,     \* connections that clients can make
          MaxRequests,  \* bound: requests a client sends on one connection
          NoSession

ASSUME ServerAssumption ==
    MaxRequests \in Nat /\ NoSession \notin Sessions

VARIABLES
    main,       \* setup, serving, stopping, joined, returned, terminated
    acceptor,   \* closed, failed (the constructor gave up), listening
    accepts,    \* async_accepts in progress
    signalled,  \* SIGINT or SIGTERM was delivered
    conn,       \* none, open, closed (in order), cut (error, timeout, exit), upgraded
    sent,       \* requests each client has sent, in order
    received,   \* how many of them on_read has been called for
    reads,      \* async_reads in progress
    expired,    \* the deadline that do_read set has passed
    writes,     \* responses whose async_write is in progress
    replies,    \* responses each client has received
    thread      \* the request each io thread is handling, and for which session

listener == <<acceptor, accepts, signalled>>
session == <<conn, sent, received, reads, expired, writes, replies>>
vars == <<main, listener, session, thread>>

\* What matters about a request: is there a route for it, is it a websocket
\* upgrade, does the client want the connection kept.
Kinds == {"routed", "unrouted", "upgrade"}
Request(n, kind, keep) == [number |-> n, kind |-> kind, keep |-> keep]
Requests == [number : 1 .. MaxRequests, kind : Kinds, keep : BOOLEAN]

\* An io thread that waits for a handler to run.
NoWork == [session |-> NoSession]

\* need_eof: the response must be followed by the end of the stream.
Response(request, status, prepared) ==
    [number |-> request.number, status |-> status, needEof |-> ~request.keep \/ ~prepared]

\* io_context::run calls handlers until stop, on a thread that has none.
CanRun == main = "serving" /\ \E t \in Threads : thread[t] = NoWork

Init ==
    /\ main = "setup" /\ acceptor = "closed" /\ accepts = 0 /\ signalled = FALSE
    /\ conn = [s \in Sessions |-> "none"]
    /\ sent = [s \in Sessions |-> <<>>]
    /\ received = [s \in Sessions |-> 0]
    /\ reads = [s \in Sessions |-> 0] /\ expired = [s \in Sessions |-> FALSE]
    /\ writes = [s \in Sessions |-> <<>>]
    /\ replies = [s \in Sessions |-> <<>>]
    /\ thread = [t \in Threads |-> NoWork]
-------------------------------------------------------------------------------
(* main, Listener.                                                           *)

\* The Listener's constructor opens, binds and listens, or logs why not and
\* returns.
OpenAcceptor == acceptor' \in {"listening", "failed"}

\* Listener::run starts async_accept either way, and main starts the io threads.
Setup ==
    /\ main = "setup" /\ main' = "serving"
    /\ OpenAcceptor
    /\ accepts' = accepts + 1
    /\ UNCHANGED <<signalled, session, thread>>

\* do_read: a new deadline, and one more async_read into a new parser.
DoRead(s) ==
    /\ reads' = [reads EXCEPT ![s] = @ + 1]
    /\ expired' = [expired EXCEPT ![s] = FALSE]

\* on_accept: a session for the connection, and the next async_accept.
OnAccept(s) ==
    /\ CanRun /\ acceptor = "listening" /\ accepts > 0 /\ conn[s] = "none"
    /\ conn' = [conn EXCEPT ![s] = "open"]
    /\ DoRead(s)
    /\ UNCHANGED <<main, listener, sent, received, writes, replies, thread>>

\* on_accept with an error returns, and the acceptor goes with its Listener.
OnAcceptFails ==
    /\ CanRun /\ accepts > 0
    /\ accepts' = accepts - 1 /\ acceptor' = "closed"
    /\ UNCHANGED <<main, signalled, session, thread>>

\* SIGINT or SIGTERM is delivered.
Signal ==
    /\ main = "serving" /\ ~signalled /\ signalled' = TRUE
    /\ UNCHANGED <<main, acceptor, accepts, session, thread>>

\* The signal_set's handler, which needs an io thread: ioContext.stop().
OnSignal ==
    /\ CanRun /\ signalled /\ main' = "stopping"
    /\ UNCHANGED <<listener, session, thread>>

\* Seeded fault: main does not wait for the io threads.
JoinThreads_NoJoin ==
    /\ main = "stopping" /\ main' = "joined"
    /\ UNCHANGED <<listener, session, thread>>

\* Seeded fault: the io threads wait until no connection reads any more.
JoinThreads_Drain ==
    /\ main = "stopping" /\ main' = "joined"
    /\ \A t \in Threads : thread[t] = NoWork
    /\ \A s \in Sessions : reads[s] = 0
    /\ UNCHANGED <<listener, session, thread>>

\* Every io thread has left run: its handler, if it had one, has returned.
JoinThreads ==
    /\ main = "stopping" /\ main' = "joined"
    /\ \A t \in Threads : thread[t] = NoWork
    /\ UNCHANGED <<listener, session, thread>>

\* main returns: the controllers and the router are destroyed, and then
\* ioContext with every session that still has an operation in progress.
Return ==
    /\ main = "joined" /\ main' = "returned"
    /\ conn' = [s \in Sessions |-> IF conn[s] = "open" THEN "cut" ELSE conn[s]]
    /\ reads' = [s \in Sessions |-> 0] /\ writes' = [s \in Sessions |-> <<>>]
    /\ accepts' = 0 /\ acceptor' = "closed"
    /\ UNCHANGED <<signalled, sent, received, expired, replies, thread>>
-------------------------------------------------------------------------------
(* HttpSession.                                                              *)

\* The client sends a request, before or after the answer to the last one.
ClientSends(s, kind, keep) ==
    /\ conn[s] = "open" /\ Len(sent[s]) < MaxRequests
    /\ sent' = [sent EXCEPT ![s] = Append(@, Request(Len(@) + 1, kind, keep))]
    /\ UNCHANGED <<main, listener, conn, received, reads, expired, writes, replies, thread>>

\* Seeded fault: the next request is read while the handler runs.
OnRead_ReadAhead(s, t) ==
    /\ main = "serving" /\ thread[t] = NoWork
    /\ reads[s] > 0 /\ received[s] < Len(sent[s])
    /\ received' = [received EXCEPT ![s] = @ + 1]
    /\ LET request == sent[s][received[s] + 1]
       IN  /\ request.kind # "upgrade"
           /\ thread' = [thread EXCEPT ![t] = [session |-> s, request |-> request]]
    /\ UNCHANGED <<main, listener, conn, sent, reads, expired, writes, replies>>

\* Seeded fault: on_read goes on after it has given the socket away.
OnRead_NoReturn(s, t) ==
    /\ main = "serving" /\ thread[t] = NoWork
    /\ reads[s] > 0 /\ received[s] < Len(sent[s])
    /\ reads' = [reads EXCEPT ![s] = @ - 1]
    /\ received' = [received EXCEPT ![s] = @ + 1]
    /\ LET request == sent[s][received[s] + 1]
       IN  /\ thread' = [thread EXCEPT ![t] = [session |-> s, request |-> request]]
           /\ conn' = IF request.kind = "upgrade" THEN [conn EXCEPT ![s] = "upgraded"] ELSE conn
    /\ UNCHANGED <<main, listener, sent, expired, writes, replies>>

\* on_read: an upgrade takes the socket away; any other request goes to
\* handle_request on this thread.  Requests wait in buffer_ and in the socket.
OnRead(s, t) ==
    /\ main = "serving" /\ thread[t] = NoWork
    /\ reads[s] > 0 /\ received[s] < Len(sent[s])
    /\ reads' = [reads EXCEPT ![s] = @ - 1]
    /\ received' = [received EXCEPT ![s] = @ + 1]
    /\ LET request == sent[s][received[s] + 1]
       IN  IF request.kind = "upgrade"
           THEN /\ conn' = [conn EXCEPT ![s] = "upgraded"]
                /\ UNCHANGED thread
           ELSE /\ thread' = [thread EXCEPT ![t] = [session |-> s, request |-> request]]
                /\ UNCHANGED conn
    /\ UNCHANGED <<main, listener, sent, expired, writes, replies>>

\* The read ends without a request and nothing holds the session any more.
ReadEndsAs(s, end) ==
    /\ reads[s] > 0
    /\ reads' = [reads EXCEPT ![s] = @ - 1]
    /\ conn' = [conn EXCEPT ![s] = end]
    /\ UNCHANGED <<main, listener, sent, received, expired, writes, replies, thread>>

\* on_read with end_of_stream, which comes after the client's last request.
OnReadEof(s) == CanRun /\ received[s] = Len(sent[s]) /\ ReadEndsAs(s, "closed")

\* on_read with an error.
OnReadFails(s) == CanRun /\ ReadEndsAs(s, "cut")

\* Seeded fault: no response is sent when there is no route.
HandleRequest_NoReply(t) ==
    /\ thread[t] # NoWork
    /\ \E prepared \in BOOLEAN :
        LET s == thread[t].session request == thread[t].request
        IN  IF request.kind = "routed"
            THEN writes' = [writes EXCEPT ![s] = Append(@, Response(request, "handled", prepared))]
            ELSE UNCHANGED writes
    /\ thread' = [thread EXCEPT ![t] = NoWork]
    /\ UNCHANGED <<main, listener, conn, sent, received, reads, expired, replies>>

\* handle_request: the route's handler returns, having prepared a payload or,
\* if it swallowed an exception, not; or there is no route.  The response is
\* sent with async_write.
HandleRequest(t) ==
    /\ thread[t] # NoWork /\ main # "terminated"
    /\ \E prepared \in BOOLEAN :
        LET s == thread[t].session request == thread[t].request
            response == IF request.kind = "routed" THEN Response(request, "handled", prepared)
                        ELSE Response(request, "not_found", TRUE)
        IN  writes' = [writes EXCEPT ![s] = Append(@, response)]
    /\ thread' = [thread EXCEPT ![t] = NoWork]
    /\ UNCHANGED <<main, listener, conn, sent, received, reads, expired, replies>>

\* The LOG in a handler's catch block throws: nothing catches that.
HandlerThrows(t) ==
    /\ thread[t] # NoWork /\ main \in {"serving", "stopping"}
    /\ main' = "terminated"
    /\ UNCHANGED <<listener, session, thread>>

\* Seeded fault: on_write does not look at need_eof.
OnWrite_NoClose(s) ==
    /\ CanRun /\ writes[s] # <<>>
    /\ replies' = [replies EXCEPT ![s] = Append(@, Head(writes[s]))]
    /\ writes' = [writes EXCEPT ![s] = Tail(@)]
    /\ DoRead(s)
    /\ UNCHANGED <<main, listener, conn, sent, received, thread>>

\* on_write: shut the sending side down if the response needs it, or read on.
OnWrite(s) ==
    /\ CanRun /\ writes[s] # <<>>
    /\ replies' = [replies EXCEPT ![s] = Append(@, Head(writes[s]))]
    /\ writes' = [writes EXCEPT ![s] = Tail(@)]
    /\ IF Head(writes[s]).needEof
       THEN conn' = [conn EXCEPT ![s] = "closed"] /\ UNCHANGED <<reads, expired>>
       ELSE DoRead(s) /\ UNCHANGED conn
    /\ UNCHANGED <<main, listener, sent, received, thread>>

\* The write ends with an error.
WriteEnds(s) ==
    /\ writes[s] # <<>>
    /\ writes' = [writes EXCEPT ![s] = Tail(@)]
    /\ conn' = [conn EXCEPT ![s] = "cut"]
    /\ UNCHANGED <<main, listener, sent, received, reads, expired, replies, thread>>

OnWriteFails(s) == CanRun /\ WriteEnds(s)

\* Seeded fault: the deadline is set by run, once for the connection's first read.
Expires_FirstOnly(s) ==
    /\ main = "serving" /\ conn[s] = "open" /\ ~expired[s] /\ replies[s] = <<>>
    /\ expired' = [expired EXCEPT ![s] = TRUE]
    /\ UNCHANGED <<main, listener, conn, sent, received, reads, writes, replies, thread>>

\* The 100 seconds since do_read are over, whatever the session is doing.
Expires(s) ==
    /\ main = "serving" /\ conn[s] = "open" /\ ~expired[s]
    /\ expired' = [expired EXCEPT ![s] = TRUE]
    /\ UNCHANGED <<main, listener, conn, sent, received, reads, writes, replies, thread>>

\* The timer closes the socket, and on_read or on_write is called with an error.
\* An operation that starts after the deadline waits for the timer too; one that
\* has ended already wins.
TimesOut(s) == CanRun /\ expired[s] /\ (ReadEndsAs(s, "cut") \/ WriteEnds(s))
-------------------------------------------------------------------------------
Next ==
    \/ Setup \/ OnAcceptFails \/ Signal \/ OnSignal \/ JoinThreads \/ Return
    \/ \E s \in Sessions :
          \/ OnAccept(s) \/ OnReadEof(s) \/ OnReadFails(s) \/ OnWrite(s) \/ OnWriteFails(s)
          \/ Expires(s) \/ TimesOut(s)
          \/ \E kind \in Kinds, keep \in BOOLEAN : ClientSends(s, kind, keep)
          \/ \E t \in Threads : OnRead(s, t)
    \/ \E t \in Threads : HandleRequest(t) \/ HandlerThrows(t)

Spec == Init /\ [][Next]_vars
-------------------------------------------------------------------------------
\* The variables keep their types; an io thread works only for a session that
\* is open, and the listener never has two async_accepts in progress.
TypeOK ==
    /\ main \in {"setup", "serving", "stopping", "joined", "returned", "terminated"}
    /\ acceptor \in {"closed", "failed", "listening"}
    /\ accepts \in 0 .. 1 /\ signalled \in BOOLEAN
    /\ conn \in [Sessions -> {"none", "open", "closed", "cut", "upgraded"}]
    /\ \A s \in Sessions :
          /\ sent[s] \in Seq(Requests) /\ received[s] \in 0 .. Len(sent[s])
          /\ reads[s] \in 0 .. 1 /\ Len(writes[s]) <= 1 /\ expired[s] \in BOOLEAN
          /\ Len(replies[s]) <= received[s]
    /\ \A t \in Threads : thread[t] # NoWork => conn[thread[t].session] = "open"

\* HTTP/1.1 pipelining: the replies a client gets are the answers to its first
\* requests, in order and one for each, although on_read, the route handlers
\* and on_write of a connection run on different threads.
RepliesInOrder ==
    \A s \in Sessions : \A i \in DOMAIN replies[s] :
        /\ replies[s][i].number = i
        /\ replies[s][i].status = IF sent[s][i].kind = "routed" THEN "handled" ELSE "not_found"

\* A connection is always waiting for exactly one thing: a read, a handler or a
\* write.  With two of them handlers would share stream_ and buffer_; with none
\* the session would be destroyed.
OneStepAtATime ==
    \A s \in Sessions :
        LET handlers == {t \in Threads : thread[t].session = s}
        IN  /\ \A t1, t2 \in handlers : t1 = t2
            /\ conn[s] = "open" => \/ reads[s] = 1 /\ writes[s] = <<>> /\ handlers = {}
                                   \/ reads[s] = 0 /\ Len(writes[s]) = 1 /\ handlers = {}
                                   \/ reads[s] = 0 /\ writes[s] = <<>> /\ handlers # {}
            /\ conn[s] # "open" => reads[s] = 0 /\ writes[s] = <<>> /\ handlers = {}

\* A connection ends in order only when every request that was read from it has
\* been answered, and a response that announces the end of the stream, by asking
\* for it or by having no length, is followed by that end and by nothing else.
OrderlyEnd ==
    \A s \in Sessions :
        /\ conn[s] = "closed" => Len(replies[s]) = received[s]
        /\ \A i \in DOMAIN replies[s] :
              replies[s][i].needEof => i = Len(replies[s]) /\ conn[s] = "closed"

\* Route handlers use the controllers through pointers and the router through a
\* reference, all locals of main: none runs when main destroys them.
RouterOutlivesHandlers ==
    main \in {"joined", "returned"} => \A t \in Threads : thread[t] = NoWork

\* A request that was read is answered, unless the connection breaks, its deadline
\* passes or the process is on its way out.
RequestIsAnswered ==
    \A s \in Sessions, n \in 1 .. MaxRequests :
        (received[s] = n /\ conn[s] = "open")
            ~> (Len(replies[s]) >= n \/ conn[s] # "open" \/ main # "serving")

\* After a signal main returns, unless a handler throws: the signal's handler
\* gets a thread although requests keep them busy, and every thread comes home.
SignalEnds == signalled ~> main \in {"returned", "terminated"}

\* A client that sends nothing, or not all of a request, or does not take its
\* response, does not keep its connection: the read or write in progress ends.
OperationEnds ==
    \A s \in Sessions :
        /\ (reads[s] > 0) ~> (reads[s] = 0 \/ main # "serving")
        /\ (writes[s] # <<>>) ~> (writes[s] = <<>> \/ main # "serving")
===============================================================================
