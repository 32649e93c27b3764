---------------------------- MODULE Authentication ----------------------------
(***************************************************************************)
(* The token of a login and the routes behind it: JWTHelper                *)
(* (src/src/Security/JWTHelper.cc), AuthenticationMiddleware and           *)
(* TestController (src/app).  Requests are handled on the io threads while *)
(* the system clock runs, or is set.                                       *)
(*                                                                         *)
(* The clock counts ticks; a NumericDate in a token counts whole seconds,  *)
(* so writing a time into a token truncates it.                            *)
(***************************************************************************)
EXTENDS Naturals, Sequences, FiniteSets

CONSTANTS Threads,       \* io threads
          Usernames,
          Tick,          \* ticks of the clock in a second
          Lifetime,      \* seconds a token lives; three minutes in the code
          MaxClock,      \* bound: the last tick
          MaxTokens,     \* bound: tokens issued
          MaxRequests    \* bound: requests to the protected route

ASSUME AuthenticationAssumption ==
    /\ Tick \in Nat \ {0} /\ Lifetime \in Nat \ {0}
    /\ MaxClock \in Nat /\ MaxTokens \in Nat /\ MaxRequests \in Nat

VARIABLES
    clock,     \* std::chrono::system_clock
    setBack,   \* auxiliary: the clock has been set to an earlier time
    tokens,    \* tokens issued; `at' is auxiliary, the tick of issue
    pc,        \* where each thread is in its handler
    request,   \* the Authorization header each thread handles
    replies,   \* every reply sent, in order
    received,  \* requests received so far
    alive      \* no exception has left a thread

vars == <<clock, setBack, tokens, pc, request, replies, received, alive>>

Token(u, iat, exp) == [username |-> u, iat |-> iat, exp |-> exp, at |-> clock]

\* A request has no Authorization header, another scheme, text that does not
\* decode, a token of another key or issuer, or a token issued here.
Kinds == {"missing", "scheme", "undecodable", "foreign", "issued"}
Headers == [kind : Kinds \ {"issued"}] \cup [kind : {"issued"}, token : tokens]
NoRequest == [header |-> [kind |-> "none"], since |-> 0, checked |-> 0]

Response(status, body) == [status |-> status, body |-> body]
Unset == Response("ok", "")   \* as handle_request makes it
Unauthorized(body) == Response("unauthorized", body)

\* jwt::verify, with an issuer: the key and the issuer, and the clock against
\* iat and exp.
Verifies(header) ==
    /\ header.kind = "issued"
    /\ Tick * header.token.iat <= clock /\ clock <= Tick * header.token.exp

\* The outcomes of ValidateToken: what it returns and what it leaves in the
\* response.  When the LOG of VerifyToken throws, the catch block of
\* ValidateToken returns false and the response stays as it was.
ValidateToken(header) ==
    CASE header.kind = "missing" -> {[valid |-> FALSE, res |-> Unauthorized("header_is_missing")]}
      [] header.kind = "scheme"  -> {[valid |-> FALSE, res |-> Unauthorized("Invalid_token_format")]}
      [] Verifies(header)        -> {[valid |-> TRUE, res |-> Unset]}
      [] OTHER -> {[valid |-> FALSE, res |-> Unauthorized("Invalid_or_expired_token")],
                   [valid |-> FALSE, res |-> Unset]}

Goto(t, label) == pc' = [pc EXCEPT ![t] = label]

\* `passed' says whether the handler behind the middleware was called.
Reply(t, passed, now, res) ==
    /\ replies' = Append(replies, [header |-> request[t].header, since |-> request[t].since,
                                   checked |-> now, passed |-> passed, res |-> res])
    /\ request' = [request EXCEPT ![t] = NoRequest]
    /\ Goto(t, "idle")

Init ==
    /\ clock = 0 /\ setBack = FALSE /\ tokens = {}
    /\ pc = [t \in Threads |-> "idle"]
    /\ request = [t \in Threads |-> NoRequest]
    /\ replies = <<>> /\ received = 0 /\ alive = TRUE
-------------------------------------------------------------------------------
ClockTicks ==
    /\ alive /\ clock < MaxClock
    /\ clock' = clock + 1
    /\ UNCHANGED <<setBack, tokens, pc, request, replies, received, alive>>

SetClock ==
    /\ alive
    /\ clock' \in 0 .. MaxClock
    /\ setBack' = (setBack \/ clock' < clock)
    /\ UNCHANGED <<tokens, pc, request, replies, received, alive>>

\* Seeded fault: the time of issue is rounded up to a second.
CreateJWTToken_RoundsUp(u) ==
    /\ alive /\ Cardinality(tokens) < MaxTokens
    /\ tokens' = tokens \cup {Token(u, (clock + Tick - 1) \div Tick, (clock + Lifetime * Tick) \div Tick)}
    /\ UNCHANGED <<clock, setBack, pc, request, replies, received, alive>>

\* Seeded fault: the lifetime is added in another unit.
CreateJWTToken_WrongUnit(u) ==
    /\ alive /\ Cardinality(tokens) < MaxTokens
    /\ tokens' = tokens \cup {Token(u, clock \div Tick, clock \div Tick + Lifetime * Tick)}
    /\ UNCHANGED <<clock, setBack, pc, request, replies, received, alive>>

\* Seeded fault: the token expires as it is issued.
CreateJWTToken_NoLifetime(u) ==
    /\ alive /\ Cardinality(tokens) < MaxTokens
    /\ tokens' = tokens \cup {Token(u, clock \div Tick, clock \div Tick)}
    /\ UNCHANGED <<clock, setBack, pc, request, replies, received, alive>>

\* A login: CreateJWTToken reads the clock once.
CreateJWTToken(u) ==
    /\ alive /\ Cardinality(tokens) < MaxTokens
    /\ tokens' = tokens \cup {Token(u, clock \div Tick, (clock + Lifetime * Tick) \div Tick)}
    /\ UNCHANGED <<clock, setBack, pc, request, replies, received, alive>>

Receive(t, header) ==
    /\ alive /\ pc[t] = "idle" /\ received < MaxRequests
    /\ received' = received + 1
    /\ request' = [request EXCEPT ![t] = [NoRequest EXCEPT !.header = header, !.since = Len(replies)]]
    /\ Goto(t, "middleware")
    /\ UNCHANGED <<clock, setBack, tokens, replies, alive>>

\* The middleware: a refusal gets the same response whatever ValidateToken put
\* into it; otherwise the handler is called.
WithAuthentication(t) ==
    /\ alive /\ pc[t] = "middleware"
    /\ \E v \in ValidateToken(request[t].header) :
          IF v.valid
          THEN /\ request' = [request EXCEPT ![t].checked = clock]
               /\ Goto(t, "handler") /\ UNCHANGED replies
          ELSE Reply(t, FALSE, clock, Unauthorized("Invalid_or_missing_token"))
    /\ UNCHANGED <<clock, setBack, tokens, received, alive>>

\* TestController::handleHelloWorld: a greeting, or, when the body does not
\* parse, the response as it was made.
handleHelloWorld(t) ==
    /\ alive /\ pc[t] = "handler"
    /\ \E res \in {Response("ok", "Hello"), Unset} : Reply(t, TRUE, request[t].checked, res)
    /\ UNCHANGED <<clock, setBack, tokens, received, alive>>

\* Both LOGs of a token that does not verify throw, or the one in the catch
\* block of handleHelloWorld does: nothing up to the io thread catches that.
LogThrows(t) ==
    /\ alive
    /\ \/ /\ pc[t] = "middleware" /\ ~Verifies(request[t].header)
          /\ request[t].header.kind \notin {"missing", "scheme"}
       \/ pc[t] = "handler"
    /\ alive' = FALSE
    /\ UNCHANGED <<clock, setBack, tokens, pc, request, replies, received>>
-------------------------------------------------------------------------------
Next ==
    \/ ClockTicks \/ SetClock
    \/ \E u \in Usernames : CreateJWTToken(u)
    \/ \E t \in Threads :
          \/ \E h \in Headers : Receive(t, h)
          \/ WithAuthentication(t) \/ LogThrows(t) \/ handleHelloWorld(t)

Spec == Init /\ [][Next]_vars
-------------------------------------------------------------------------------
Tokens == [username : Usernames, iat : 0 .. MaxClock, exp : 0 .. MaxClock + Lifetime, at : 0 .. MaxClock]

\* The variables keep their types (of the replies only the number is bounded); a
\* token expires after it was issued.
TypeOK ==
    /\ clock \in 0 .. MaxClock /\ received \in 0 .. MaxRequests /\ {alive, setBack} \subseteq BOOLEAN
    /\ tokens \subseteq Tokens /\ \A k \in tokens : k.iat < k.exp
    /\ pc \in [Threads -> {"idle", "middleware", "handler"}]
    /\ \A t \in Threads : pc[t] # "idle" => request[t].header \in Headers
    /\ Len(replies) <= received

Issued(i) == replies[i].header.kind = "issued"

\* The handler behind the middleware is called only for a token issued here,
\* and only while it lives by the clock the check has read: not after its
\* lifetime, and less than a second before its issue.
OnlyLivePasses ==
    \A i \in DOMAIN replies :
        replies[i].passed =>
            /\ Issued(i) /\ replies[i].header.token \in tokens
            /\ replies[i].header.token.at < replies[i].checked + Tick
            /\ replies[i].checked <= replies[i].header.token.at + Lifetime * Tick

\* A token is honoured from its issue on, and truncation takes less than a
\* second off the end of its lifetime.
LiveIsHonoured ==
    \A i \in DOMAIN replies :
        ( /\ Issued(i)
          /\ replies[i].header.token.at <= replies[i].checked
          /\ replies[i].checked + Tick <= replies[i].header.token.at + Lifetime * Tick ) => replies[i].passed

\* A token opens the route exactly while it lives, up to the truncation to whole
\* seconds, on whichever side of a change of the clock it is checked.
PassesWhileLive == OnlyLivePasses /\ LiveIsHonoured

\* As long as the clock is not set back, a token that was refused is refused in
\* every request sent after that reply.
RefusalIsFinal ==
    \A i, j \in DOMAIN replies :
        ( /\ ~setBack /\ Issued(i) /\ ~replies[i].passed
          /\ replies[j].header = replies[i].header /\ i <= replies[j].since ) => ~replies[j].passed
===============================================================================
