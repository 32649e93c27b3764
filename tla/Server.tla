-------------------------------- MODULE Server --------------------------------
(***************************************************************************)
(* The process: the HTTP server of HttpServer and the websocket sessions   *)
(* of ChatRoom on one pool of io threads.  on_read gives the socket of an  *)
(* upgrade to a WebSocketSession; the handlers of both kinds of session    *)
(* need a free io thread; and after a signal the sessions that are left    *)
(* are destroyed with the handlers that ioContext holds.                   *)
(*                                                                         *)
(* Nothing in the program calls SharedState::send, so that no session has  *)
(* a message to write and no thread ever waits for mutex_.                 *)
(***************************************************************************)
EXTENDS Naturals, Sequences

CONSTANTS Threads, Sessions, MaxRequests, NoSession, Free

\* What HttpServer and ChatRoom assume of their constants.
ASSUME ProcessAssumption == MaxRequests \in Nat /\ NoSession \notin Sessions

VARIABLES main, acceptor, accepts, signalled, conn, sent, received, reads, expired, writes, replies, thread
VARIABLES sessions_, mutex_, life, pending, posted, queue_, writing, broken, wire, pc, v, sp, calls

Http == INSTANCE HttpServer

Chat == INSTANCE ChatRoom WITH Senders <- {}, MaxSends <- [c \in {} |-> 0],
        MaxCalls <- 0, Readers <- {}, sent <- calls

http == <<main, acceptor, accepts, signalled, conn, sent, received, reads, expired, writes, replies, thread>>
chat == <<sessions_, mutex_, life, pending, posted, queue_, writing, broken, wire, pc, v, sp, calls>>
vars == <<http, chat>>

Init == Http!Init /\ Chat!Init
-------------------------------------------------------------------------------
\* An upgrade makes a WebSocketSession of the socket and runs it.
OnRead(s, t) ==
    /\ Http!OnRead(s, t)
    /\ IF conn'[s] = "upgraded" THEN Chat!Run(s) ELSE UNCHANGED chat

\* on_accept of a websocket: the handshake succeeds or not.
Handshake(s) ==
    /\ Http!CanRun /\ pending[s] = "accept"
    /\ Chat!OnAccept(s) \/ Chat!OnAcceptOrReadFails(s)
    /\ UNCHANGED http

\* on_read of a websocket with an error: the peer closes or does not answer.
WebSocketReadFails(s) ==
    /\ Http!CanRun /\ pending[s] = "read"
    /\ Chat!OnAcceptOrReadFails(s)
    /\ UNCHANGED http

\* ~WebSocketSession, on whichever thread has dropped the last reference.
Leave(s) ==
    /\ main # "terminated"
    /\ Chat!Leave(s)
    /\ UNCHANGED http

\* Every io thread has left run, out of a destructor too.
JoinThreads ==
    /\ \A s \in Sessions : life[s] # "dying"
    /\ Http!JoinThreads
    /\ UNCHANGED chat

\* ~io_context destroys the handlers that are pending, and with that of a
\* websocket's operation the last reference to its session.
DestroyHandler(s) ==
    /\ main = "joined"
    /\ Chat!OnAcceptOrReadFails(s)
    /\ UNCHANGED http

\* main returns once nothing is pending and every session is destroyed.
Return ==
    /\ \A s \in Sessions : life[s] \in {"none", "freed"}
    /\ Http!Return
    /\ UNCHANGED chat

\* The signal's handler.
OnSignal == Http!OnSignal /\ UNCHANGED chat

\* What concerns the HTTP sessions alone.
HttpStep ==
    /\ \/ Http!Setup \/ Http!OnAcceptFails \/ Http!Signal
       \/ \E s \in Sessions :
             \/ Http!OnAccept(s) \/ Http!OnReadEof(s) \/ Http!OnReadFails(s)
             \/ Http!OnWrite(s) \/ Http!OnWriteFails(s)
             \/ \E kind \in Http!Kinds, keep \in BOOLEAN : Http!ClientSends(s, kind, keep)
       \/ \E t \in Threads : Http!HandlerThrows(t)
    /\ UNCHANGED chat
Expires(s) == Http!Expires(s) /\ UNCHANGED chat
TimesOut(s) == Http!TimesOut(s) /\ UNCHANGED chat
HandleRequest(t) == Http!HandleRequest(t) /\ UNCHANGED chat
-------------------------------------------------------------------------------
Next ==
    \/ HttpStep \/ OnSignal \/ JoinThreads \/ Return
    \/ \E s \in Sessions :
          \/ Expires(s) \/ TimesOut(s)
          \/ Handshake(s) \/ WebSocketReadFails(s) \/ Leave(s) \/ DestroyHandler(s)
          \/ \E t \in Threads : OnRead(s, t)
    \/ \E t \in Threads : HandleRequest(t)

\* Route handlers and destructors return, time passes, the io threads run what
\* their timers call for, and the response to a handshake is written or times out
\* (timeout::suggested).  Handlers run in the order in which they become ready,
\* so that of a signal has its turn when threads become free again and again.
\* Clients owe nothing: no read or write need succeed.
FairSpec ==
    /\ Init /\ [][Next]_vars
    /\ SF_vars(OnSignal) /\ WF_vars(JoinThreads) /\ WF_vars(Return)
    /\ \A t \in Threads : WF_vars(HandleRequest(t))
    /\ \A s \in Sessions :
          /\ WF_vars(Expires(s)) /\ WF_vars(TimesOut(s))
          /\ WF_vars(Handshake(s)) /\ WF_vars(Leave(s)) /\ WF_vars(DestroyHandler(s))
-------------------------------------------------------------------------------
\* A socket has one owner: once it was given to a WebSocketSession the
\* HttpSession has no read, write or handler for it any more.
OneOwner ==
    \A s \in Sessions :
        /\ life[s] # "none" <=> conn[s] = "upgraded"
        /\ life[s] # "none" => /\ reads[s] = 0 /\ writes[s] = <<>>
                               /\ \A t \in Threads : thread[t].session # s

\* When main has returned after a signal every session, also one whose upgrade or
\* read was pending at the signal, is destroyed and has left the SharedState: none
\* is forgotten with its socket open, and no raw pointer stays behind.
ExitIsClean ==
    main = "returned" =>
        /\ sessions_ = {}
        /\ \A s \in Sessions : conn[s] # "open" /\ life[s] \in {"none", "freed"}

\* A request that was read is answered although websockets share the threads.
RequestIsAnswered == Http!RequestIsAnswered

\* A signal ends the process, whatever connections there are and however busy
\* the threads.
SignalEnds == Http!SignalEnds

\* No read or write of an HTTP session, and no handshake, goes on for ever,
\* whatever the client does.
OperationEnds ==
    /\ Http!OperationEnds
    /\ \A s \in Sessions : (pending[s] = "accept") ~> (pending[s] # "accept" \/ main # "serving")
===============================================================================
