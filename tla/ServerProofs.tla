----------------------------- MODULE ServerProofs -----------------------------
(***************************************************************************)
(* Proofs about the composition, for any number of io threads and          *)
(* connections.  Every step of the process is a step of the HttpServer or  *)
(* leaves it alone, and the same for the ChatRoom; so the process has what *)
(* HttpServerProofs and ChatRoomProofs prove of the two, and with that the *)
(* hand-over of a socket and the exit are shown to be safe.                *)
(***************************************************************************)
EXTENDS Server, TLAPS

\* The theorems about the components, for the constants of this process.
HttpTheorems == INSTANCE HttpServerProofs

ChatTheorems == INSTANCE ChatRoomProofs WITH Senders <- {}, MaxSends <- [c \in {} |-> 0],
        MaxCalls <- 0, Readers <- {}, sent <- calls

\* What the components guarantee that the composition rests on.
Parts ==
    /\ Http!TypeOK /\ Http!OneStepAtATime
    /\ Chat!TypeOK /\ Chat!NoDanglingSession

\* A socket has a WebSocketSession if and only if on_read gave it away.
HandOver == \A s \in Sessions : life[s] # "none" <=> conn[s] = "upgraded"

\* Nothing is left of a connection when main has returned.
AllGone == main = "returned" => \A s \in Sessions : conn[s] # "open" /\ life[s] \in {"none", "freed"}
-------------------------------------------------------------------------------
(* The components.                                                           *)

LEMMA HttpStepOnly == ASSUME HttpStep PROVE Http!Next /\ UNCHANGED chat
  <1>1. UNCHANGED chat
    BY DEF HttpStep
  <1>2. CASE Http!Setup \/ Http!OnAcceptFails \/ Http!Signal
    BY <1>1, <1>2 DEF Http!Next
  <1>3. ASSUME NEW s \in Sessions,
               \/ Http!OnAccept(s) \/ Http!OnReadEof(s) \/ Http!OnReadFails(s)
               \/ Http!OnWrite(s) \/ Http!OnWriteFails(s)
               \/ \E kind \in Http!Kinds, keep \in BOOLEAN : Http!ClientSends(s, kind, keep)
        PROVE  Http!Next
    BY <1>3 DEF Http!Next
  <1>4. ASSUME NEW t \in Threads, Http!HandlerThrows(t) PROVE Http!Next
    BY <1>4 DEF Http!Next
  <1> QED BY <1>1, <1>2, <1>3, <1>4 DEF HttpStep

\* Every step of the process is a step of each component, or none of it.
LEMMA ComponentSteps ==
    ASSUME [Next]_vars
    PROVE  [Http!Next]_(Http!vars) /\ [Chat!Next]_(Chat!vars)
  <1>1. UNCHANGED http => UNCHANGED Http!vars
    BY DEF http, Http!vars, Http!listener, Http!session
  <1>2. UNCHANGED chat => UNCHANGED Chat!vars
    BY DEF chat, Chat!vars, Chat!shared, Chat!strand, Chat!senders
  <1>3. CASE HttpStep
    BY <1>2, <1>3, HttpStepOnly
  <1>4. CASE JoinThreads
    BY <1>2, <1>4 DEF JoinThreads, Http!Next
  <1>5. CASE Return
    BY <1>2, <1>5 DEF Return, Http!Next
  <1>6. ASSUME NEW s \in Sessions, Expires(s) \/ TimesOut(s)
        PROVE  Http!Next /\ UNCHANGED chat
    BY <1>6 DEF Expires, TimesOut, Http!Next
  <1>7. ASSUME NEW s \in Sessions, Handshake(s) \/ WebSocketReadFails(s) \/ Leave(s) \/ DestroyHandler(s)
        PROVE  Chat!Next /\ UNCHANGED http
    BY <1>7 DEF Handshake, WebSocketReadFails, Leave, DestroyHandler, Chat!Next
  <1>8. ASSUME NEW s \in Sessions, NEW t \in Threads, OnRead(s, t)
        PROVE  Http!Next /\ (Chat!Next \/ UNCHANGED chat)
    BY <1>8 DEF OnRead, Http!Next, Chat!Next
  <1>9. ASSUME NEW t \in Threads, HandleRequest(t) PROVE Http!Next /\ UNCHANGED chat
    BY <1>9 DEF HandleRequest, Http!Next
  <1>10. CASE OnSignal
    BY <1>2, <1>10 DEF OnSignal, Http!Next
  <1>11. CASE UNCHANGED vars
    BY <1>1, <1>2, <1>11 DEF vars
  <1> QED BY <1>1, <1>2, <1>3, <1>4, <1>5, <1>6, <1>7, <1>8, <1>9, <1>10, <1>11 DEF Next

\* A behaviour of the process is one of the HTTP server and one of the chat room,
\* so that their theorems hold in it.
LEMMA ComponentsImplemented == FairSpec => Http!Spec /\ Chat!Spec
  <1>1. Init => Http!Init /\ Chat!Init
    BY DEF Init
  <1>2. [Next]_vars => [Http!Next]_(Http!vars) /\ [Chat!Next]_(Chat!vars)
    BY ComponentSteps
  <1> QED BY <1>1, <1>2, PTL DEF FairSpec, Http!Spec, Chat!Spec

\* The specifications that the theorems are about are those of the components.
LEMMA SameHttp == Http!Spec <=> HttpTheorems!Spec
  <1>1. Http!Init <=> HttpTheorems!Init
    BY DEF Http!Init, HttpTheorems!Init, Http!NoWork, HttpTheorems!NoWork
  <1>2. Http!Next <=> HttpTheorems!Next
    BY DEF Http!Next, HttpTheorems!Next, Http!Request, HttpTheorems!Request, Http!NoWork,
        HttpTheorems!NoWork, Http!Response, HttpTheorems!Response, Http!CanRun,
        HttpTheorems!CanRun, Http!OpenAcceptor, HttpTheorems!OpenAcceptor, Http!DoRead,
        HttpTheorems!DoRead, Http!OnAccept, HttpTheorems!OnAccept, Http!OnAcceptFails,
        HttpTheorems!OnAcceptFails, Http!Signal, HttpTheorems!Signal, Http!OnSignal,
        HttpTheorems!OnSignal, Http!JoinThreads, HttpTheorems!JoinThreads, Http!Return,
        HttpTheorems!Return, Http!ClientSends, HttpTheorems!ClientSends, Http!OnRead,
        HttpTheorems!OnRead, Http!ReadEndsAs, HttpTheorems!ReadEndsAs, Http!OnReadEof,
        HttpTheorems!OnReadEof, Http!OnReadFails, HttpTheorems!OnReadFails,
        Http!HandleRequest, HttpTheorems!HandleRequest, Http!HandlerThrows,
        HttpTheorems!HandlerThrows, Http!OnWrite, HttpTheorems!OnWrite, Http!WriteEnds,
        HttpTheorems!WriteEnds, Http!OnWriteFails, HttpTheorems!OnWriteFails, Http!Expires,
        HttpTheorems!Expires, Http!TimesOut, HttpTheorems!TimesOut, Http!Setup,
        HttpTheorems!Setup, Http!Kinds, HttpTheorems!Kinds, Http!listener,
        HttpTheorems!listener, Http!session, HttpTheorems!session
  <1>3. [Http!Next]_(Http!vars) <=> [HttpTheorems!Next]_(HttpTheorems!vars)
    BY <1>2 DEF Http!vars, HttpTheorems!vars, Http!listener, HttpTheorems!listener,
        Http!session, HttpTheorems!session
  <1> QED BY <1>1, <1>3, PTL DEF Http!Spec, HttpTheorems!Spec

LEMMA SameChat == Chat!Spec <=> ChatTheorems!Spec
  <1>1. Chat!Init <=> ChatTheorems!Init
    BY DEF Chat!Init, ChatTheorems!Init
  <1>2. Chat!Next <=> ChatTheorems!Next
    \* Nobody calls send.
    BY DEF Chat!Next, ChatTheorems!Next, Chat!shared, ChatTheorems!shared, Chat!strand,
        ChatTheorems!strand, Chat!senders, ChatTheorems!senders, Chat!HeldBy,
        ChatTheorems!HeldBy, Chat!Held, ChatTheorems!Held, Chat!Drop, ChatTheorems!Drop,
        Chat!Run, ChatTheorems!Run, Chat!Join, ChatTheorems!Join, Chat!OnAccept,
        ChatTheorems!OnAccept, Chat!OnAcceptOrReadFails, ChatTheorems!OnAcceptOrReadFails,
        Chat!OnSend, ChatTheorems!OnSend, Chat!OnWrite, ChatTheorems!OnWrite,
        Chat!OnWriteFails, ChatTheorems!OnWriteFails, Chat!Leave, ChatTheorems!Leave,
        Chat!StrandStep, ChatTheorems!StrandStep
  <1>3. [Chat!Next]_(Chat!vars) <=> [ChatTheorems!Next]_(ChatTheorems!vars)
    BY <1>2 DEF Chat!vars, ChatTheorems!vars, Chat!shared, ChatTheorems!shared, Chat!strand,
        ChatTheorems!strand, Chat!senders, ChatTheorems!senders
  <1> QED BY <1>1, <1>3, PTL DEF Chat!Spec, ChatTheorems!Spec

\* The process has the properties proved of its components.
LEMMA PartsHold == FairSpec => []Parts
  <1>1. FairSpec => HttpTheorems!Spec /\ ChatTheorems!Spec
    BY ComponentsImplemented, SameHttp, SameChat, PTL
  <1>2. HttpTheorems!Spec => []HttpTheorems!TypeOK
    BY HttpTheorems!TypeCorrect, ProcessAssumption
  <1>3. HttpTheorems!Spec => []HttpTheorems!OneStepAtATime
    BY HttpTheorems!SingleStep, ProcessAssumption
  <1>4. ChatTheorems!Spec => []ChatTheorems!TypeOK
    BY ChatTheorems!TypeCorrect, ProcessAssumption
  <1>5. ChatTheorems!Spec => []ChatTheorems!NoDanglingSession
    BY ChatTheorems!NoUseAfterFree, ProcessAssumption
  <1>6. HttpTheorems!TypeOK <=> Http!TypeOK
    BY DEF HttpTheorems!TypeOK, Http!TypeOK, HttpTheorems!Requests, Http!Requests,
           HttpTheorems!Kinds, Http!Kinds, HttpTheorems!NoWork, Http!NoWork
  <1>7. HttpTheorems!OneStepAtATime <=> Http!OneStepAtATime
    BY DEF HttpTheorems!OneStepAtATime, Http!OneStepAtATime, HttpTheorems!NoWork, Http!NoWork
  <1>8. ChatTheorems!TypeOK <=> Chat!TypeOK
    BY DEF ChatTheorems!TypeOK, Chat!TypeOK, ChatTheorems!Messages, Chat!Messages
  <1>9. ChatTheorems!NoDanglingSession <=> Chat!NoDanglingSession
    BY DEF ChatTheorems!NoDanglingSession, Chat!NoDanglingSession,
           ChatTheorems!RegisteredIsAllocated, Chat!RegisteredIsAllocated,
           ChatTheorems!AliveWhileHeld, Chat!AliveWhileHeld, ChatTheorems!Held, Chat!Held,
           ChatTheorems!HeldBy, Chat!HeldBy
  <1> QED BY <1>1, <1>2, <1>3, <1>4, <1>5, <1>6, <1>7, <1>8, <1>9, PTL DEF Parts
-------------------------------------------------------------------------------
(* The hand-over of a socket and the exit.                                   *)

\* What the components' guarantees say of one connection.
LEMMA PartFacts ==
    ASSUME Parts
    PROVE  /\ conn \in [Sessions -> {"none", "open", "closed", "cut", "upgraded"}]
           /\ life \in [Sessions -> {"none", "alive", "dying", "freed"}]
           /\ pending \in [Sessions -> {"nothing", "accept", "read"}]
           /\ sessions_ \subseteq Sessions
           /\ \A s \in sessions_ : life[s] \in {"alive", "dying"}
           /\ \A s \in Sessions : pending[s] # "nothing" => life[s] = "alive"
           /\ \A s \in Sessions : conn[s] # "open" =>
                 reads[s] = 0 /\ writes[s] = <<>> /\ \A t \in Threads : thread[t].session # s
  <1>1. /\ conn \in [Sessions -> {"none", "open", "closed", "cut", "upgraded"}]
        /\ life \in [Sessions -> {"none", "alive", "dying", "freed"}]
        /\ pending \in [Sessions -> {"nothing", "accept", "read"}] /\ sessions_ \subseteq Sessions
    BY DEF Parts, Http!TypeOK, Chat!TypeOK
  <1>2. /\ \A s \in sessions_ : life[s] \in {"alive", "dying"}
        /\ \A s \in Sessions : pending[s] # "nothing" => life[s] = "alive"
    BY DEF Parts, Chat!NoDanglingSession, Chat!RegisteredIsAllocated, Chat!AliveWhileHeld,
           Chat!Held, Chat!HeldBy
  <1>3. ASSUME NEW s \in Sessions, conn[s] # "open"
        PROVE  reads[s] = 0 /\ writes[s] = <<>> /\ \A t \in Threads : thread[t].session # s
    BY <1>3 DEF Parts, Http!OneStepAtATime
  <1> QED BY <1>1, <1>2, <1>3

\* A step of an HttpSession that is no upgrade opens a connection or ends one that
\* is open.
LEMMA ConnectionSteps ==
    ASSUME Parts, NEW s \in Sessions,
           \/ Http!OnAccept(s) \/ Http!OnReadEof(s) \/ Http!OnReadFails(s) \/ Http!OnWrite(s)
           \/ Http!OnWriteFails(s) \/ Http!TimesOut(s)
    PROVE  /\ main' = main /\ main = "serving"
           /\ \A x \in Sessions : \/ conn'[x] = conn[x]
                                  \/ /\ conn[x] \in {"none", "open"}
                                     /\ conn'[x] \in {"open", "closed", "cut"}
  <1>1. main' = main /\ main = "serving"
    BY DEF Http!OnAccept, Http!OnReadEof, Http!OnReadFails, Http!OnWrite, Http!OnWriteFails,
           Http!TimesOut, Http!ReadEndsAs, Http!WriteEnds, Http!CanRun
  <1>2. Http!OnAccept(s) => conn' = [conn EXCEPT ![s] = "open"] /\ conn[s] = "none"
    BY DEF Http!OnAccept
  <1>3. ASSUME NEW end \in {"closed", "cut"}, Http!ReadEndsAs(s, end)
        PROVE  conn' = [conn EXCEPT ![s] = end] /\ conn[s] = "open"
    BY <1>3, PartFacts DEF Http!ReadEndsAs
  <1>4. Http!WriteEnds(s) => conn' = [conn EXCEPT ![s] = "cut"] /\ conn[s] = "open"
    BY PartFacts DEF Http!WriteEnds
  <1>5. Http!OnWrite(s) => conn[s] = "open" /\ (conn' = conn \/ conn' = [conn EXCEPT ![s] = "closed"])
    BY PartFacts DEF Http!OnWrite
  <1>6. \/ conn' = conn
        \/ conn[s] \in {"none", "open"} /\ \E c \in {"open", "closed", "cut"} : conn' = [conn EXCEPT ![s] = c]
    BY <1>2, <1>3, <1>4, <1>5 DEF Http!OnReadEof, Http!OnReadFails, Http!OnWriteFails, Http!TimesOut
  <1> QED BY <1>1, <1>6, PartFacts

\* The steps that leave connections and websockets as they are and do not return
\* from main.
LEMMA OtherSteps ==
    ASSUME HandOver, AllGone, conn' = conn, life' = life, main' = "returned" => main = "returned"
    PROVE  HandOver' /\ AllGone'
  BY DEF HandOver, AllGone

\* Every step keeps a socket with one owner, and nothing comes back after the exit.
LEMMA HandOverStep ==
    ASSUME Parts, HandOver, AllGone, [Next]_vars
    PROVE  HandOver' /\ AllGone'
  <1>1. CASE HttpStep
    <2>1. UNCHANGED chat
      BY <1>1 DEF HttpStep
    <2>2. life' = life
      BY <2>1 DEF chat
    <2>3. CASE Http!Setup \/ Http!OnAcceptFails \/ Http!Signal
      BY <2>2, <2>3, OtherSteps
      DEF Http!Setup, Http!OnAcceptFails, Http!Signal, Http!session, Http!CanRun
    <2>4. ASSUME NEW s \in Sessions,
                 \/ Http!OnAccept(s) \/ Http!OnReadEof(s) \/ Http!OnReadFails(s)
                 \/ Http!OnWrite(s) \/ Http!OnWriteFails(s)
          PROVE  HandOver' /\ AllGone'
      BY <2>2, <2>4, ConnectionSteps DEF HandOver, AllGone
    <2>5. ASSUME NEW s \in Sessions, NEW kind \in Http!Kinds, NEW keep \in BOOLEAN,
                 Http!ClientSends(s, kind, keep)
          PROVE  HandOver' /\ AllGone'
      BY <2>2, <2>5, OtherSteps DEF Http!ClientSends
    <2>6. ASSUME NEW t \in Threads, Http!HandlerThrows(t) PROVE HandOver' /\ AllGone'
      BY <2>2, <2>6, OtherSteps DEF Http!HandlerThrows, Http!session
    <2> QED BY <1>1, <2>3, <2>4, <2>5, <2>6 DEF HttpStep
  <1>2. CASE JoinThreads
    BY <1>2, OtherSteps DEF JoinThreads, Http!JoinThreads, Http!session, chat
  <1>3. CASE Return
    <2>1. /\ life' = life /\ \A s \in Sessions : life[s] \in {"none", "freed"}
          /\ conn' = [s \in Sessions |-> IF conn[s] = "open" THEN "cut" ELSE conn[s]]
      BY <1>3 DEF Return, Http!Return, chat
    <2> QED BY <2>1 DEF HandOver, AllGone
  <1>4. ASSUME NEW s \in Sessions, Expires(s) PROVE HandOver' /\ AllGone'
    BY <1>4, OtherSteps DEF Expires, Http!Expires, chat
  <1>5. ASSUME NEW s \in Sessions, TimesOut(s) PROVE HandOver' /\ AllGone'
    <2>1. Http!TimesOut(s) /\ life' = life
      BY <1>5 DEF TimesOut, chat
    <2> QED BY <2>1, ConnectionSteps DEF HandOver, AllGone
  <1>6. ASSUME NEW s \in Sessions, Handshake(s) \/ WebSocketReadFails(s) \/ DestroyHandler(s)
        PROVE  HandOver' /\ AllGone'
    <2>1. /\ main' = main /\ conn' = conn /\ main # "returned"
          /\ Chat!OnAccept(s) \/ Chat!OnAcceptOrReadFails(s)
      BY <1>6 DEF Handshake, WebSocketReadFails, DestroyHandler, Http!CanRun, http
    <2>2. life[s] = "alive" /\ (life' = life \/ life' = [life EXCEPT ![s] = "dying"])
      <3>1. life[s] = "alive"
        BY <2>1, PartFacts DEF Chat!OnAccept, Chat!OnAcceptOrReadFails
      <3>2. CASE Chat!OnAccept(s)
        BY <3>1, <3>2 DEF Chat!OnAccept
      <3>3. CASE Chat!OnAcceptOrReadFails(s)
        <4>1. life' = [life EXCEPT ![s] = IF Chat!Held(s)' THEN @ ELSE "dying"]
          BY <3>3 DEF Chat!OnAcceptOrReadFails, Chat!Drop
        <4>2. [life EXCEPT ![s] = life[s]] = life
          BY PartFacts
        <4> QED BY <3>1, <4>1, <4>2
      <3> QED BY <2>1, <3>2, <3>3
    <2> QED BY <2>1, <2>2, PartFacts DEF HandOver, AllGone
  <1>7. ASSUME NEW s \in Sessions, Leave(s) PROVE HandOver' /\ AllGone'
    <2>1. /\ main' = main /\ conn' = conn /\ life[s] = "dying"
          /\ life' = [life EXCEPT ![s] = "freed"]
      BY <1>7 DEF Leave, Chat!Leave, http
    <2> QED BY <2>1, PartFacts DEF HandOver, AllGone
  <1>8. ASSUME NEW s \in Sessions, NEW t \in Threads, OnRead(s, t) PROVE HandOver' /\ AllGone'
    <2>1. main' = main /\ main = "serving" /\ reads[s] > 0
      BY <1>8 DEF OnRead, Http!OnRead
    <2>2. conn[s] = "open"
      BY <2>1, PartFacts
    <2>3. \/ conn' = conn /\ life' = life
          \/ conn' = [conn EXCEPT ![s] = "upgraded"] /\ life' = [life EXCEPT ![s] = "alive"]
      <3>1. conn' = conn \/ conn' = [conn EXCEPT ![s] = "upgraded"]
        BY <1>8 DEF OnRead, Http!OnRead
      <3>2. conn'[s] = "upgraded" => life' = [life EXCEPT ![s] = "alive"]
        BY <1>8 DEF OnRead, Chat!Run
      <3>3. conn'[s] # "upgraded" => life' = life
        BY <1>8 DEF OnRead, chat
      <3> QED BY <2>2, <3>1, <3>2, <3>3, PartFacts
    <2> QED BY <2>1, <2>2, <2>3, PartFacts DEF HandOver, AllGone
  <1>9. ASSUME NEW t \in Threads, HandleRequest(t) PROVE HandOver' /\ AllGone'
    BY <1>9, OtherSteps DEF HandleRequest, Http!HandleRequest, chat
  <1>10. CASE OnSignal
    BY <1>10, OtherSteps DEF OnSignal, Http!OnSignal, Http!session, chat
  <1>11. CASE UNCHANGED vars
    BY <1>11, OtherSteps DEF vars, http, chat
  <1> QED BY <1>1, <1>2, <1>3, <1>4, <1>5, <1>6, <1>7, <1>8, <1>9, <1>10, <1>11 DEF Next

LEMMA HandOverHolds == FairSpec => [](Parts /\ HandOver /\ AllGone)
  <1>1. Init => HandOver /\ AllGone
    BY DEF Init, Http!Init, Chat!Init, HandOver, AllGone
  <1>2. Parts /\ HandOver /\ AllGone /\ [Next]_vars => HandOver' /\ AllGone'
    BY HandOverStep
  <1> QED BY <1>1, <1>2, PartsHold, PTL DEF FairSpec

\* Whatever else the io threads do, a socket that on_read has given to a
\* WebSocketSession is out of the hands of its HttpSession.
THEOREM OneOwnerHolds == FairSpec => []OneOwner
  <1>1. Parts /\ HandOver => OneOwner
    BY PartFacts DEF HandOver, OneOwner
  <1> QED BY <1>1, HandOverHolds, PTL

\* When main has returned no session is left, neither of a connection nor in the
\* SharedState.
THEOREM ExitLeavesNothing == FairSpec => []ExitIsClean
  <1>1. Parts /\ AllGone => ExitIsClean
    <2> SUFFICES ASSUME Parts, AllGone PROVE ExitIsClean
      OBVIOUS
    <2>1. main = "returned" => sessions_ = {}
      BY PartFacts DEF AllGone
    <2> QED BY <2>1 DEF AllGone, ExitIsClean
  <1> QED BY <1>1, HandOverHolds, PTL
===============================================================================
