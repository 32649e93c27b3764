------------------------- MODULE AuthenticationProofs -------------------------
(***************************************************************************)
(* Proofs about Authentication for any number of io threads and requests,  *)
(* any length of a second in ticks and any lifetime.                       *)
(***************************************************************************)
EXTENDS Authentication, FiniteSetTheorems, SequenceTheorems, TLAPS

\* The ticks at which a token begins and ends, as VerifyToken computes them
\* from whole seconds, and its lifetime in ticks.
Starts(k) == Tick * k.iat
Ends(k) == Tick * k.exp
Span == Lifetime * Tick

\* CreateJWTToken truncates both times, by less than a second.
Minted(k) ==
    /\ k \in Tokens /\ k.iat < k.exp
    /\ Starts(k) \in Nat /\ Starts(k) <= k.at /\ k.at < Starts(k) + Tick
    /\ Ends(k) \in Nat /\ Ends(k) <= k.at + Span /\ k.at + Span < Ends(k) + Tick

Valid(h, now) == h.kind = "issued" /\ Starts(h.token) <= now /\ now <= Ends(h.token)

AnyHeader == [kind : Kinds \ {"issued"}] \cup [kind : {"issued"}, token : Tokens]
Contexts == [header : AnyHeader \cup {NoRequest.header}, since : Nat, checked : Nat]
Responses == {Response("ok", "Hello"), Unset, Unauthorized("Invalid_or_missing_token")}
Replies == [header : AnyHeader, since : Nat, checked : Nat, passed : BOOLEAN, res : Responses]

Types ==
    /\ clock \in 0 .. MaxClock /\ received \in 0 .. MaxRequests
    /\ alive \in BOOLEAN /\ setBack \in BOOLEAN
    /\ pc \in [Threads -> {"idle", "middleware", "handler"}]
    /\ request \in [Threads -> Contexts] /\ replies \in Seq(Replies)
    /\ \A k \in tokens : Minted(k)

\* The handlers in progress are the requests that have no reply yet.
Busy == {t \in Threads : pc[t] # "idle"}
CountInv == IsFiniteSet(Busy) /\ Len(replies) + Cardinality(Busy) = received

\* A handler behind the middleware has a token that was valid when it was
\* checked, and a reply says whether it was.
Handler(t) ==
    /\ pc[t] # "idle" => request[t].header \in Headers /\ request[t].since <= Len(replies)
    /\ pc[t] = "handler" => Valid(request[t].header, request[t].checked)
Replied(i) ==
    /\ replies[i].header \in Headers /\ replies[i].since < i
    /\ replies[i].passed <=> Valid(replies[i].header, replies[i].checked)

\* As long as the clock is not set back, what was checked lies between the issue
\* of the token and now, and later requests are checked later.
After(h, since, now) ==
    /\ now <= clock
    /\ h.kind = "issued" => h.token.at <= now
    /\ \A i \in 1 .. Len(replies) : i <= since => replies[i].checked <= now
ClockInv ==
    ~setBack =>
        /\ \A k \in tokens : k.at <= clock
        /\ \A j \in 1 .. Len(replies) : After(replies[j].header, replies[j].since, replies[j].checked)
        /\ \A t \in Threads :
              pc[t] = "handler" => After(request[t].header, request[t].since, request[t].checked)

IInv ==
    /\ Types /\ CountInv /\ ClockInv
    /\ \A t \in Threads : Handler(t)
    /\ \A i \in 1 .. Len(replies) : Replied(i)
-------------------------------------------------------------------------------
(* The arithmetic of CreateJWTToken.                                         *)

\* Division by the length of a second truncates by less than a second.
LEMMA Truncates ==
    ASSUME NEW a \in Nat, NEW n \in Nat \ {0}
    PROVE  a \div n \in Nat /\ n * (a \div n) <= a /\ a < n * (a \div n) + n /\ a \div n <= a
  OBVIOUS

\* A whole number of seconds is added to the truncated time.
LEMMA WholeSeconds ==
    ASSUME NEW a \in Nat, NEW n \in Nat \ {0}, NEW l \in Nat
    PROVE  (a + l * n) \div n = a \div n + l
  <1>1. PICK d \in Nat : d = a \div n /\ n * d <= a /\ a < n * d + n
    BY Truncates
  <1>2. l * n \in Nat /\ a + l * n \in Nat
    OBVIOUS
  <1>3. PICK e \in Nat : e = (a + l * n) \div n /\ n * e <= a + l * n /\ a + l * n < n * e + n
    BY <1>2, Truncates
  <1>4. n * (d + l) = n * d + l * n
    BY <1>1
  <1>5. n * e < n * (d + l) + n /\ n * (d + l) < n * e + n
    BY <1>1, <1>2, <1>3, <1>4
  <1>6. n * (d + l) + n = n * (d + l + 1) /\ n * e + n = n * (e + 1)
    BY <1>1, <1>3
  <1>7. e < d + l + 1 /\ d + l < e + 1
    BY <1>1, <1>3, <1>5, <1>6
  <1>8. e = d + l
    BY <1>1, <1>3, <1>7
  <1> QED BY <1>1, <1>3, <1>8

\* The token that CreateJWTToken makes.
LEMMA TokenMinted ==
    ASSUME NEW u \in Usernames, NEW c \in 0 .. MaxClock, c = clock
    PROVE  Minted(Token(u, clock \div Tick, (clock + Lifetime * Tick) \div Tick))
  <1> DEFINE k == Token(u, clock \div Tick, (clock + Lifetime * Tick) \div Tick)
  <1>1. Tick \in Nat \ {0} /\ Lifetime \in Nat \ {0} /\ MaxClock \in Nat /\ c \in Nat
    BY AuthenticationAssumption
  <1>2. PICK d \in Nat : d = c \div Tick /\ Tick * d <= c /\ c < Tick * d + Tick /\ d <= c
    BY <1>1, Truncates
  <1>3. (c + Lifetime * Tick) \div Tick = d + Lifetime
    BY <1>1, <1>2, WholeSeconds
  <1>4. k = [username |-> u, iat |-> d, exp |-> d + Lifetime, at |-> c]
    BY <1>2, <1>3 DEF Token
  <1>5. d \in 0 .. MaxClock /\ d + Lifetime \in 0 .. MaxClock + Lifetime /\ d < d + Lifetime
    BY <1>1, <1>2
  <1>6. k \in Tokens
    BY <1>4, <1>5 DEF Tokens
  <1>7. k.iat = d /\ k.exp = d + Lifetime /\ k.at = c
    BY <1>4
  <1>8. Tick * (d + Lifetime) = Tick * d + Lifetime * Tick /\ Lifetime * Tick \in Nat /\ Tick * d \in Nat
    BY <1>1, <1>2
  <1>9. /\ Starts(k) = Tick * d /\ Ends(k) = Tick * d + Span /\ Span \in Nat /\ Starts(k) \in Nat
    BY <1>7, <1>8 DEF Starts, Ends, Span
  <1> HIDE DEF k
  <1>10. PICK b \in Nat, s \in Nat : b = Starts(k) /\ s = Span /\ Ends(k) = b + s /\ b <= c /\ c < b + Tick
    BY <1>2, <1>9
  <1>11. b + s \in Nat /\ b + s <= c + s /\ c + s < b + s + Tick
    BY <1>1, <1>10
  <1>12. Minted(k)
    BY <1>5, <1>6, <1>7, <1>10, <1>11 DEF Minted
  <1> QED BY <1>12 DEF k
-------------------------------------------------------------------------------
(* Headers and the check of a token.                                         *)

LEMMA HeaderFacts ==
    ASSUME Types
    PROVE  /\ Headers \subseteq AnyHeader
           /\ \A h \in Headers : h.kind \in Kinds /\ (h.kind = "issued" => h.token \in tokens /\ Minted(h.token))
           /\ \A h : Verifies(h) <=> Valid(h, clock)
  <1>1. tokens \subseteq Tokens /\ \A k \in tokens : Minted(k)
    BY DEF Types, Minted
  <1>2. Headers \subseteq AnyHeader
    BY <1>1 DEF Headers, AnyHeader
  <1>3. ASSUME NEW h \in Headers PROVE h.kind \in Kinds /\ (h.kind = "issued" => h.token \in tokens)
    BY <1>3 DEF Headers, Kinds
  <1>4. \A h : Verifies(h) <=> Valid(h, clock)
    BY DEF Verifies, Valid, Starts, Ends
  <1> QED BY <1>1, <1>2, <1>3, <1>4

\* ValidateToken accepts exactly the tokens that verify.
LEMMA Validates ==
    ASSUME NEW h, NEW v \in ValidateToken(h)
    PROVE  v.valid \in BOOLEAN /\ (v.valid <=> Verifies(h))
  <1>1. CASE h.kind = "missing"
    <2>1. v = [valid |-> FALSE, res |-> Unauthorized("header_is_missing")]
      BY <1>1 DEF ValidateToken, Verifies
    <2> QED BY <1>1, <2>1 DEF Verifies
  <1>2. CASE h.kind = "scheme"
    <2>1. v = [valid |-> FALSE, res |-> Unauthorized("Invalid_token_format")]
      BY <1>2 DEF ValidateToken, Verifies
    <2> QED BY <1>2, <2>1 DEF Verifies
  <1>3. CASE h.kind \notin {"missing", "scheme"} /\ Verifies(h)
    <2>1. v = [valid |-> TRUE, res |-> Unset]
      BY <1>3 DEF ValidateToken
    <2> QED BY <1>3, <2>1
  <1>4. CASE h.kind \notin {"missing", "scheme"} /\ ~Verifies(h)
    <2>1. v = [valid |-> FALSE, res |-> Unauthorized("Invalid_or_expired_token")] \/ v = [valid |-> FALSE, res |-> Unset]
      BY <1>4 DEF ValidateToken
    <2>2. v.valid = FALSE
      BY <2>1
    <2> QED BY <1>4, <2>2
  <1> QED BY <1>1, <1>2, <1>3, <1>4
-------------------------------------------------------------------------------
(* A handler ends with a reply.                                              *)

\* What Append makes of a sequence.
LEMMA Appended ==
    ASSUME NEW S, NEW s \in Seq(S), NEW m \in S, NEW n \in Nat, n = Len(s), NEW z, z = Append(s, m)
    PROVE  /\ z \in Seq(S) /\ Len(z) \in Nat /\ Len(s) <= Len(z) /\ Len(z) = n + 1
           /\ \A i \in 1 .. n : z[i] = s[i]
           /\ z[n + 1] = m
           /\ \A i \in 1 .. Len(z) : i \in 1 .. n \/ i = n + 1
  BY AppendProperties

\* A new reply is later than everything a request has seen.
LEMMA AfterAppend ==
    ASSUME NEW h, NEW since \in Nat, NEW now, After(h, since, now), clock' = clock,
           NEW n \in Nat, n = Len(replies), since <= n,
           \A i \in 1 .. n : replies'[i] = replies[i],
           \A i \in 1 .. Len(replies') : i \in 1 .. n \/ i = n + 1
    PROVE  After(h, since, now)'
  <1>1. now <= clock' /\ (h.kind = "issued" => h.token.at <= now)
    BY DEF After
  <1>2. ASSUME NEW i \in 1 .. Len(replies'), i <= since PROVE replies'[i].checked <= now
    <2>1. i \in 1 .. n
      BY <1>2
    <2>2. replies[i].checked <= now
      BY <1>2, <2>1 DEF After
    <2> QED BY <2>1, <2>2, Zenon
  <1> QED BY <1>1, <1>2 DEF After

LEMMA AnswerStep ==
    ASSUME IInv, NEW t \in Threads, pc[t] # "idle", NEW passed \in BOOLEAN, NEW now \in Nat,
           NEW res \in Responses, Reply(t, passed, now, res),
           UNCHANGED <<clock, setBack, tokens, received, alive>>,
           passed <=> Valid(request[t].header, now),
           ~setBack => After(request[t].header, request[t].since, now)
    PROVE  IInv'
  <1> /\ Types /\ CountInv /\ ClockInv
      /\ \A x \in Threads : Handler(x)
      /\ \A i \in 1 .. Len(replies) : Replied(i)
    BY DEF IInv
  <1>1. PICK n \in Nat : n = Len(replies)
    BY LenProperties DEF Types
  <1>2. PICK h \in Headers, since \in Nat : h = request[t].header /\ since = request[t].since /\ since <= n
    BY <1>1 DEF Types, Handler, Contexts
  <1>3. PICK m \in Replies :
           /\ m.header = h /\ m.since = since /\ m.checked = now /\ m.passed = passed
           /\ replies' = Append(replies, m)
    <2> DEFINE m == [header |-> h, since |-> since, checked |-> now, passed |-> passed, res |-> res]
    <2>1. m \in Replies
      BY <1>2, HeaderFacts DEF Replies
    <2>2. replies' = Append(replies, m)
      BY <1>2 DEF Reply
    <2> QED BY <2>1, <2>2
  <1>4. pc' = [pc EXCEPT ![t] = "idle"] /\ request' = [request EXCEPT ![t] = NoRequest]
    BY DEF Reply, Goto
  <1>5. /\ replies' \in Seq(Replies) /\ Len(replies') = n + 1
        /\ \A i \in 1 .. n : replies'[i] = replies[i]
        /\ replies'[n + 1] = m
        /\ Len(replies') \in Nat /\ Len(replies) <= Len(replies')
        /\ \A i \in 1 .. Len(replies') : i \in 1 .. n \/ i = n + 1
    <2>1. replies \in Seq(Replies)
      BY DEF Types
    <2> QED BY <1>1, <1>3, <2>1, Appended
  <1>6. Headers' = Headers
    BY DEF Headers
  <1>7. Types'
    <2>1. NoRequest \in Contexts
      BY DEF NoRequest, Contexts
    <2>2. request' \in [Threads -> Contexts] /\ pc' \in [Threads -> {"idle", "middleware", "handler"}]
      BY <1>4, <2>1 DEF Types
    <2> QED BY <1>5, <2>2 DEF Types, Minted, Starts, Ends
  <1>8. CountInv'
    <2>1. Busy' = Busy \ {t} /\ t \in Busy
      BY <1>4 DEF Busy, Types
    <2>2. PICK k \in Nat : k = Cardinality(Busy)
      BY FS_CardinalityType DEF CountInv
    <2>3. IsFiniteSet(Busy \ {t}) /\ Cardinality(Busy \ {t}) = k - 1
      BY <2>1, <2>2, FS_RemoveElement DEF CountInv
    <2>4. received' = n + k
      BY <1>1, <2>2 DEF CountInv
    <2>5. (n + 1) + (k - 1) = n + k
      BY <1>1, <2>2
    <2>6. Len(replies') + Cardinality(Busy') = received'
      BY <1>5, <2>1, <2>3, <2>4, <2>5, Zenon
    <2>7. IsFiniteSet(Busy)'
      BY <2>1, <2>3
    <2> QED BY <2>6, <2>7 DEF CountInv
  <1>9. ASSUME NEW x \in Threads PROVE Handler(x)'
    <2>1. CASE x = t
      <3>1. pc'[t] = "idle"
        BY <1>4 DEF Types
      <3> QED BY <2>1, <3>1 DEF Handler
    <2>2. CASE x # t
      <3>1. pc'[x] = pc[x] /\ request'[x] = request[x]
        BY <1>4, <2>2 DEF Types
      <3>2. PICK d \in Nat : d = request[x].since /\ (pc[x] # "idle" => d <= n)
        BY <1>1 DEF Types, Contexts, Handler
      <3>3. pc[x] # "idle" => d <= n + 1
        BY <1>1, <3>2
      <3>4. pc[x] # "idle" => request'[x].since <= Len(replies')
        BY <1>5, <3>1, <3>2, <3>3, Zenon
      <3>5. pc'[x] # "idle" => request'[x].header \in Headers'
        BY <1>6, <3>1 DEF Handler
      <3>6. pc'[x] = "handler" => Valid(request'[x].header, request'[x].checked)
        BY <3>1 DEF Handler
      <3>7. pc'[x] = "handler" => Valid(request[x].header, request[x].checked)'
        BY <3>6 DEF Valid, Starts, Ends
      <3> QED BY <3>1, <3>4, <3>5, <3>7 DEF Handler
    <2> QED BY <2>1, <2>2
  <1>10. ASSUME NEW i \in 1 .. Len(replies') PROVE Replied(i)'
    <2>1. PICK r : r = replies'[i]
      OBVIOUS
    <2>2. r.header \in Headers /\ r.since < i /\ (r.passed <=> Valid(r.header, r.checked))
      <3>1. CASE i \in 1 .. n
        BY <1>1, <1>5, <2>1, <3>1 DEF Replied
      <3>2. CASE i = n + 1
        <4>1. r = m
          BY <1>5, <2>1, <3>2
        <4>2. since < n + 1
          BY <1>1, <1>2
        <4>3. m.passed <=> Valid(m.header, m.checked)
          BY <1>2, <1>3
        <4> QED BY <1>2, <1>3, <3>2, <4>1, <4>2, <4>3, Zenon
      <3> QED BY <1>5, <3>1, <3>2
    <2>3. Valid(replies[i].header, replies[i].checked)' <=> Valid(r.header, r.checked)
      BY <2>1 DEF Valid, Starts, Ends
    <2> QED BY <1>6, <2>1, <2>2, <2>3 DEF Replied
  <1>11. ClockInv'
    <2> SUFFICES ASSUME ~setBack
                 PROVE  /\ \A k \in tokens' : k.at <= clock'
                        /\ \A j \in 1 .. Len(replies') : After(replies[j].header, replies[j].since, replies[j].checked)'
                        /\ \A x \in Threads :
                              pc'[x] = "handler" => After(request[x].header, request[x].since, request[x].checked)'
      BY DEF ClockInv
    <2>1. \A k \in tokens' : k.at <= clock'
      BY DEF ClockInv
    <2>2. ASSUME NEW j \in 1 .. Len(replies')
          PROVE  After(replies[j].header, replies[j].since, replies[j].checked)'
      <3>1. CASE j \in 1 .. n
        <4>1. PICK d \in Nat, g \in {replies[j].header}, c \in {replies[j].checked} :
                 g = replies[j].header /\ d = replies[j].since /\ c = replies[j].checked
          <5>1. replies[j] \in Replies
            BY <1>1, <3>1, ElementOfSeq DEF Types
          <5>2. replies[j].since \in Nat
            BY <5>1 DEF Replies
          <5> QED BY <5>2
        <4>2. g = replies'[j].header /\ d = replies'[j].since /\ c = replies'[j].checked
          BY <1>5, <3>1, <4>1
        <4>3. After(g, d, c) /\ d < j
          BY <1>1, <3>1, <4>1 DEF ClockInv, Replied
        <4>4. d <= n
          BY <1>1, <3>1, <4>1, <4>3
        <4>5. After(g, d, c)'
          BY <1>1, <1>5, <4>1, <4>3, <4>4, AfterAppend
        <4> QED BY <4>2, <4>5
      <3>2. CASE j = n + 1
        <4>1. After(h, since, now)'
          BY <1>1, <1>2, <1>5, AfterAppend
        <4>2. replies'[j].header = h /\ replies'[j].since = since /\ replies'[j].checked = now
          BY <1>3, <1>5, <3>2
        <4> QED BY <4>1, <4>2
      <3> QED BY <1>5, <3>1, <3>2
    <2>3. ASSUME NEW x \in Threads, pc'[x] = "handler"
          PROVE  After(request[x].header, request[x].since, request[x].checked)'
      <3>1. pc[x] = "handler" /\ request'[x] = request[x]
        BY <1>4, <2>3 DEF Types
      <3>2. PICK d \in Nat, g \in {request[x].header}, c \in {request[x].checked} :
               g = request[x].header /\ d = request[x].since /\ c = request[x].checked /\ d <= n
        <4>1. request[x].since \in Nat /\ request[x].since <= n
          BY <1>1, <3>1 DEF Types, Contexts, Handler
        <4> QED BY <4>1
      <3>3. After(g, d, c)
        BY <3>1, <3>2 DEF ClockInv
      <3>4. After(g, d, c)'
        BY <1>1, <1>5, <3>2, <3>3, AfterAppend
      <3>5. g = request'[x].header /\ d = request'[x].since /\ c = request'[x].checked
        BY <3>1, <3>2
      <3> QED BY <3>4, <3>5
    <2> QED BY <2>1, <2>2, <2>3
  <1> QED BY <1>7, <1>8, <1>9, <1>10, <1>11 DEF IInv
-------------------------------------------------------------------------------
(* The other steps.                                                          *)

LEMMA LeqTrans == ASSUME NEW a \in Nat, NEW b \in Nat, NEW c \in Nat, a <= b, b <= c PROVE a <= c
  OBVIOUS

\* The times in a token, a reply and a request are natural numbers.
LEMMA TimeTypes ==
    ASSUME Types
    PROVE  /\ \A k \in tokens : k.at \in Nat
           /\ \A j \in 1 .. Len(replies) : replies[j].since \in Nat /\ replies[j].checked \in Nat
           /\ \A t \in Threads : request[t].since \in Nat /\ request[t].checked \in Nat
           /\ clock \in Nat
  <1>1. ASSUME NEW k \in tokens PROVE k.at \in Nat
    BY AuthenticationAssumption DEF Types, Minted, Tokens
  <1>2. ASSUME NEW j \in 1 .. Len(replies) PROVE replies[j].since \in Nat /\ replies[j].checked \in Nat
    <2>1. replies[j] \in Replies
      BY ElementOfSeq DEF Types
    <2> QED BY <2>1 DEF Replies
  <1>3. ASSUME NEW t \in Threads PROVE request[t].since \in Nat /\ request[t].checked \in Nat
    BY DEF Types, Contexts
  <1> QED BY <1>1, <1>2, <1>3 DEF Types

\* The clock moves, or a thread dies: unless the clock is set back, what was
\* checked stays in the past.
LEMMA ClockStep ==
    ASSUME IInv, clock' \in 0 .. MaxClock, setBack' \in BOOLEAN, alive' \in BOOLEAN,
           ~setBack' => ~setBack /\ clock <= clock',
           UNCHANGED <<tokens, pc, request, replies, received>>
    PROVE  IInv'
  <1> /\ Types /\ CountInv /\ ClockInv
      /\ \A x \in Threads : Handler(x)
      /\ \A i \in 1 .. Len(replies) : Replied(i)
    BY DEF IInv
  <1>1. Types' /\ CountInv'
    BY DEF Types, CountInv, Busy, Minted, Starts, Ends
  <1>2. \A x \in Threads : Handler(x)'
    BY DEF Handler, Headers, Valid, Starts, Ends
  <1>3. \A i \in 1 .. Len(replies') : Replied(i)'
    BY DEF Replied, Headers, Valid, Starts, Ends
  <1>4. PICK c \in Nat, d \in Nat : c = clock /\ d = clock'
    BY AuthenticationAssumption DEF Types
  <1>5. ASSUME NEW h, NEW since, NEW now \in Nat, After(h, since, now), c <= d
        PROVE  After(h, since, now)'
    <2>1. now <= c
      BY <1>4, <1>5 DEF After
    <2>2. now <= clock'
      BY <1>4, <1>5, <2>1, LeqTrans
    <2>3. (h.kind = "issued" => h.token.at <= now) /\ \A i \in 1 .. Len(replies) : i <= since => replies[i].checked <= now
      BY <1>5 DEF After
    <2> QED BY <2>2, <2>3 DEF After
  <1>6. ClockInv'
    <2> SUFFICES ASSUME ~setBack'
                 PROVE  /\ \A k \in tokens' : k.at <= clock'
                        /\ \A j \in 1 .. Len(replies') : After(replies[j].header, replies[j].since, replies[j].checked)'
                        /\ \A x \in Threads :
                              pc'[x] = "handler" => After(request[x].header, request[x].since, request[x].checked)'
      BY DEF ClockInv
    <2>0. ~setBack /\ c <= d
      BY <1>4
    <2>1. ASSUME NEW k \in tokens PROVE k.at <= clock'
      <3>1. k.at \in Nat /\ k.at <= c
        BY <1>4, <2>0, TimeTypes DEF ClockInv
      <3> QED BY <1>4, <2>0, <3>1, LeqTrans
    <2>2. ASSUME NEW j \in 1 .. Len(replies)
          PROVE  After(replies[j].header, replies[j].since, replies[j].checked)'
      <3>1. PICK h \in {replies[j].header}, since \in {replies[j].since}, now \in Nat :
               h = replies[j].header /\ since = replies[j].since /\ now = replies[j].checked
        BY TimeTypes
      <3>2. After(h, since, now)
        BY <2>0, <3>1 DEF ClockInv
      <3>3. After(h, since, now)'
        BY <1>5, <2>0, <3>1, <3>2
      <3>4. h = replies'[j].header /\ since = replies'[j].since /\ now = replies'[j].checked
        BY <3>1
      <3> QED BY <3>3, <3>4
    <2>3. ASSUME NEW x \in Threads, pc[x] = "handler"
          PROVE  After(request[x].header, request[x].since, request[x].checked)'
      <3>1. PICK h \in {request[x].header}, since \in {request[x].since}, now \in Nat :
               h = request[x].header /\ since = request[x].since /\ now = request[x].checked
        BY TimeTypes
      <3>2. After(h, since, now)
        BY <2>0, <2>3, <3>1 DEF ClockInv
      <3>3. After(h, since, now)'
        BY <1>5, <2>0, <3>1, <3>2
      <3>4. h = request'[x].header /\ since = request'[x].since /\ now = request'[x].checked
        BY <3>1
      <3> QED BY <3>3, <3>4
    <2> QED BY <2>1, <2>2, <2>3
  <1> QED BY <1>1, <1>2, <1>3, <1>6 DEF IInv

LEMMA ClockTicksStep == ASSUME IInv, ClockTicks PROVE IInv'
  <1>1. PICK c \in Nat : c = clock /\ c < MaxClock
    BY AuthenticationAssumption DEF IInv, Types, ClockTicks
  <1>2. c + 1 \in 0 .. MaxClock /\ c <= c + 1
    BY <1>1, AuthenticationAssumption
  <1>3. clock' \in 0 .. MaxClock /\ clock <= clock'
    BY <1>1, <1>2 DEF ClockTicks
  <1> QED BY <1>3, ClockStep DEF ClockTicks, IInv, Types

LEMMA SetClockStep == ASSUME IInv, SetClock PROVE IInv'
  <1>1. PICK c \in Nat, d \in 0 .. MaxClock : c = clock /\ d = clock' /\ (setBack' = (setBack \/ d < c))
    BY AuthenticationAssumption DEF IInv, Types, SetClock
  <1>2. d < c \/ c <= d
    BY <1>1, AuthenticationAssumption
  <1>3. setBack' \in BOOLEAN /\ (~setBack' => ~setBack /\ clock <= clock')
    BY <1>1, <1>2
  <1> QED BY <1>1, <1>3, ClockStep DEF SetClock, IInv, Types

LEMMA LogThrowsStep == ASSUME IInv, NEW t \in Threads, LogThrows(t) PROVE IInv'
  <1>1. clock <= clock
    BY DEF IInv, Types
  <1> QED BY <1>1, ClockStep DEF LogThrows, IInv, Types

\* A token that is issued was issued just now.
LEMMA CreateStep == ASSUME IInv, NEW u \in Usernames, CreateJWTToken(u) PROVE IInv'
  <1> /\ Types /\ CountInv /\ ClockInv
      /\ \A x \in Threads : Handler(x)
      /\ \A i \in 1 .. Len(replies) : Replied(i)
    BY DEF IInv
  <1>1. PICK k : /\ k = Token(u, clock \div Tick, (clock + Lifetime * Tick) \div Tick)
                 /\ tokens' = tokens \cup {k}
                 /\ UNCHANGED <<clock, setBack, pc, request, replies, received, alive>>
    BY DEF CreateJWTToken
  <1>2. Minted(k) /\ k.at = clock /\ clock \in Nat
    <2>1. clock \in 0 .. MaxClock
      BY DEF Types
    <2>2. Minted(k)
      BY <1>1, <2>1, TokenMinted
    <2> QED BY <1>1, <2>1, <2>2 DEF Token
  <1>3. Headers \subseteq Headers'
    BY <1>1 DEF Headers
  <1>4. Types'
    <2>1. \A x \in tokens' : Minted(x)'
      BY <1>1, <1>2 DEF Types, Minted, Starts, Ends
    <2> QED BY <1>1, <2>1 DEF Types
  <1>5. CountInv'
    BY <1>1 DEF CountInv, Busy
  <1>6. ASSUME NEW x \in Threads PROVE Handler(x)'
    BY <1>1, <1>3 DEF Handler, Valid, Starts, Ends
  <1>7. ASSUME NEW i \in 1 .. Len(replies') PROVE Replied(i)'
    BY <1>1, <1>3 DEF Replied, Valid, Starts, Ends
  <1>8. ClockInv'
    <2>1. clock <= clock
      BY <1>2
    <2>2. ~setBack => \A x \in tokens' : x.at <= clock'
      BY <1>1, <1>2, <2>1 DEF ClockInv
    <2> QED BY <1>1, <2>2 DEF ClockInv, After
  <1> QED BY <1>4, <1>5, <1>6, <1>7, <1>8 DEF IInv

LEMMA ReceiveStep == ASSUME IInv, NEW t \in Threads, NEW h \in Headers, Receive(t, h) PROVE IInv'
  <1> /\ Types /\ CountInv /\ ClockInv
      /\ \A x \in Threads : Handler(x)
      /\ \A i \in 1 .. Len(replies) : Replied(i)
    BY DEF IInv
  <1>1. PICK n \in Nat : n = Len(replies)
    BY LenProperties DEF Types
  <1>2. /\ pc[t] = "idle" /\ pc' = [pc EXCEPT ![t] = "middleware"] /\ received < MaxRequests
        /\ received' = received + 1 /\ UNCHANGED <<clock, setBack, tokens, replies, alive>>
    BY DEF Receive, Goto
  <1>3. PICK c \in Contexts : c.header = h /\ c.since = n /\ request' = [request EXCEPT ![t] = c]
    <2> DEFINE c == [NoRequest EXCEPT !.header = h, !.since = n]
    <2>1. NoRequest \in Contexts /\ h \in AnyHeader
      BY HeaderFacts DEF NoRequest, Contexts
    <2>2. c \in Contexts /\ c.header = h /\ c.since = n
      BY <2>1 DEF Contexts
    <2>3. request' = [request EXCEPT ![t] = c]
      BY <1>1 DEF Receive
    <2> QED BY <2>2, <2>3
  <1>4. Headers' = Headers
    BY <1>2 DEF Headers
  <1>5. Types'
    <2>1. received' \in 0 .. MaxRequests
      BY <1>2, AuthenticationAssumption DEF Types
    <2>2. request' \in [Threads -> Contexts] /\ pc' \in [Threads -> {"idle", "middleware", "handler"}]
      BY <1>2, <1>3 DEF Types
    <2>3. \A k \in tokens' : Minted(k)'
      BY <1>2 DEF Types, Minted, Starts, Ends
    <2> QED BY <1>2, <2>1, <2>2, <2>3 DEF Types
  <1>6. CountInv'
    <2>1. Busy' = Busy \cup {t} /\ t \notin Busy
      BY <1>2 DEF Busy, Types
    <2>2. PICK k \in Nat : k = Cardinality(Busy)
      BY FS_CardinalityType DEF CountInv
    <2>3. IsFiniteSet(Busy \cup {t}) /\ Cardinality(Busy \cup {t}) = k + 1
      BY <2>1, <2>2, FS_AddElement DEF CountInv
    <2>4. received' = (n + k) + 1
      BY <1>1, <1>2, <2>2 DEF CountInv
    <2>5. n + (k + 1) = (n + k) + 1
      BY <1>1, <2>2
    <2>6. Len(replies') + Cardinality(Busy') = received'
      BY <1>1, <1>2, <2>1, <2>3, <2>4, <2>5, Zenon
    <2>7. IsFiniteSet(Busy)'
      BY <2>1, <2>3
    <2> QED BY <2>6, <2>7 DEF CountInv
  <1>7. ASSUME NEW x \in Threads PROVE Handler(x)'
    <2>1. CASE x = t
      <3>1. pc'[t] = "middleware" /\ request'[t] = c /\ Len(replies') = n /\ n <= n
        BY <1>1, <1>2, <1>3 DEF Types
      <3> QED BY <1>3, <1>4, <2>1, <3>1 DEF Handler
    <2>2. CASE x # t
      <3>1. pc'[x] = pc[x] /\ request'[x] = request[x]
        BY <1>2, <1>3, <2>2 DEF Types
      <3> QED BY <1>2, <1>4, <3>1 DEF Handler, Valid, Starts, Ends
    <2> QED BY <2>1, <2>2
  <1>8. ASSUME NEW i \in 1 .. Len(replies') PROVE Replied(i)'
    BY <1>2, <1>4 DEF Replied, Valid, Starts, Ends
  <1>9. ClockInv'
    <2>1. ASSUME NEW x \in Threads, pc'[x] = "handler" PROVE pc[x] = "handler" /\ request'[x] = request[x]
      BY <1>2, <1>3, <2>1 DEF Types
    <2> QED BY <1>2, <2>1 DEF ClockInv, After
  <1> QED BY <1>5, <1>6, <1>7, <1>8, <1>9 DEF IInv

\* The middleware reads the clock: the token was issued before now, and every
\* reply the client has seen was made before now.
LEMMA ChecksNow ==
    ASSUME IInv, NEW t \in Threads, pc[t] # "idle", ~setBack
    PROVE  After(request[t].header, request[t].since, clock)
  <1> Types /\ ClockInv /\ Handler(t)
    BY DEF IInv
  <1>1. clock <= clock
    BY DEF Types
  <1>2. request[t].header.kind = "issued" => request[t].header.token.at <= clock
    BY HeaderFacts DEF Handler, ClockInv
  <1>3. \A i \in 1 .. Len(replies) : replies[i].checked <= clock
    BY DEF ClockInv, After
  <1> QED BY <1>1, <1>2, <1>3 DEF After

LEMMA MiddlewareStep == ASSUME IInv, NEW t \in Threads, WithAuthentication(t) PROVE IInv'
  <1> /\ Types /\ CountInv /\ ClockInv
      /\ \A x \in Threads : Handler(x)
      /\ \A i \in 1 .. Len(replies) : Replied(i)
    BY DEF IInv
  <1>1. PICK v \in ValidateToken(request[t].header) :
           IF v.valid
           THEN /\ request' = [request EXCEPT ![t].checked = clock]
                /\ Goto(t, "handler") /\ UNCHANGED replies
           ELSE Reply(t, FALSE, clock, Unauthorized("Invalid_or_missing_token"))
    BY DEF WithAuthentication
  <1>2. pc[t] = "middleware" /\ UNCHANGED <<clock, setBack, tokens, received, alive>>
    BY DEF WithAuthentication
  <1>3. v.valid \in BOOLEAN /\ (v.valid <=> Valid(request[t].header, clock))
    BY Validates, HeaderFacts
  <1>4. PICK now \in Nat : now = clock
    BY AuthenticationAssumption DEF Types
  <1>5. ~setBack => After(request[t].header, request[t].since, now)
    BY <1>2, <1>4, ChecksNow
  <1>6. CASE ~v.valid
    <2>1. Reply(t, FALSE, now, Unauthorized("Invalid_or_missing_token"))
      BY <1>1, <1>4, <1>6
    <2>2. FALSE <=> Valid(request[t].header, now)
      BY <1>3, <1>4, <1>6
    <2>3. Unauthorized("Invalid_or_missing_token") \in Responses
      BY DEF Responses
    <2> QED BY <1>2, <1>5, <2>1, <2>2, <2>3, AnswerStep
  <1>7. CASE v.valid
    <2>1. /\ request' = [request EXCEPT ![t].checked = now] /\ pc' = [pc EXCEPT ![t] = "handler"]
          /\ replies' = replies
      BY <1>1, <1>4, <1>7 DEF Goto
    <2>2. PICK c \in Contexts :
             /\ c.header = request[t].header /\ c.since = request[t].since /\ c.checked = now
             /\ request' = [request EXCEPT ![t] = c]
      <3> DEFINE c == [request[t] EXCEPT !.checked = now]
      <3>1. request[t] \in Contexts
        BY DEF Types
      <3>2. c \in Contexts /\ c.header = request[t].header /\ c.since = request[t].since /\ c.checked = now
        BY <1>4, <3>1 DEF Contexts
      <3>3. request' = [request EXCEPT ![t] = c]
        BY <2>1
      <3> QED BY <3>2, <3>3
    <2>3. pc'[t] = "handler" /\ request'[t] = c /\ \A x \in Threads \ {t} : pc'[x] = pc[x] /\ request'[x] = request[x]
      BY <2>1, <2>2 DEF Types
    <2>4. Headers' = Headers
      BY <1>2 DEF Headers
    <2>5. Types'
      <3>1. request' \in [Threads -> Contexts] /\ pc' \in [Threads -> {"idle", "middleware", "handler"}]
        BY <2>1, <2>2 DEF Types
      <3>2. \A k \in tokens' : Minted(k)'
        BY <1>2 DEF Types, Minted, Starts, Ends
      <3> QED BY <1>2, <2>1, <3>1, <3>2 DEF Types
    <2>6. CountInv'
      <3>1. Busy' = Busy
        BY <1>2, <2>3 DEF Busy, Types
      <3> QED BY <1>2, <2>1, <3>1 DEF CountInv
    <2>7. ASSUME NEW x \in Threads PROVE Handler(x)'
      <3>1. CASE x = t
        <4>1. request[t].header \in Headers /\ request[t].since <= Len(replies)
          BY <1>2 DEF Handler
        <4>2. Valid(c.header, c.checked)
          BY <1>3, <1>4, <1>7, <2>2
        <4>3. Valid(request[t].header, request[t].checked)'
          BY <2>3, <4>2 DEF Valid, Starts, Ends
        <4> QED BY <2>1, <2>2, <2>3, <2>4, <3>1, <4>1, <4>3 DEF Handler
      <3>2. CASE x # t
        BY <2>1, <2>3, <2>4, <3>2 DEF Handler, Valid, Starts, Ends
      <3> QED BY <3>1, <3>2
    <2>8. ASSUME NEW i \in 1 .. Len(replies') PROVE Replied(i)'
      BY <2>1, <2>4 DEF Replied, Valid, Starts, Ends
    <2>9. ClockInv'
      <3>1. ~setBack => After(request[t].header, request[t].since, request[t].checked)'
        BY <1>2, <1>5, <2>1, <2>2, <2>3 DEF After
      <3>2. ASSUME NEW x \in Threads \ {t}, pc'[x] = "handler", ~setBack
            PROVE  After(request[x].header, request[x].since, request[x].checked)'
        BY <1>2, <2>1, <2>3, <3>2 DEF ClockInv, After
      <3>3. ~setBack => \A j \in 1 .. Len(replies') : After(replies[j].header, replies[j].since, replies[j].checked)'
        BY <1>2, <2>1 DEF ClockInv, After
      <3> QED BY <1>2, <3>1, <3>2, <3>3 DEF ClockInv
    <2> QED BY <2>5, <2>6, <2>7, <2>8, <2>9 DEF IInv
  <1> QED BY <1>3, <1>6, <1>7

LEMMA HelloStep == ASSUME IInv, NEW t \in Threads, handleHelloWorld(t) PROVE IInv'
  <1> Types /\ ClockInv /\ Handler(t)
    BY DEF IInv
  <1>1. PICK res \in {Response("ok", "Hello"), Unset} : Reply(t, TRUE, request[t].checked, res)
    BY DEF handleHelloWorld
  <1>2. PICK now \in Nat : now = request[t].checked
    BY TimeTypes
  <1>3. pc[t] = "handler" /\ UNCHANGED <<clock, setBack, tokens, received, alive>>
    BY DEF handleHelloWorld
  <1>4. /\ TRUE <=> Valid(request[t].header, now)
        /\ ~setBack => After(request[t].header, request[t].since, now)
    BY <1>2, <1>3 DEF Handler, ClockInv
  <1>5. res \in Responses /\ Reply(t, TRUE, now, res)
    BY <1>1, <1>2 DEF Responses
  <1> QED BY <1>3, <1>4, <1>5, AnswerStep

LEMMA InvInit == Init => IInv
  <1> SUFFICES ASSUME Init PROVE IInv
    OBVIOUS
  <1>1. Types
    <2>1. NoRequest \in Contexts
      BY DEF NoRequest, Contexts
    <2>2. request \in [Threads -> Contexts] /\ replies \in Seq(Replies)
      BY <2>1 DEF Init
    <2>3. clock \in 0 .. MaxClock /\ received \in 0 .. MaxRequests
      BY AuthenticationAssumption DEF Init
    <2> QED BY <2>2, <2>3 DEF Init, Types
  <1>2. CountInv
    <2>1. Busy = {}
      BY DEF Init, Busy
    <2>2. Len(replies) = 0 /\ received = 0
      BY DEF Init
    <2> QED BY <2>1, <2>2, FS_EmptySet DEF CountInv
  <1>3. ClockInv /\ \A t \in Threads : Handler(t)
    BY DEF Init, ClockInv, Handler
  <1>4. \A i \in 1 .. Len(replies) : Replied(i)
    BY DEF Init
  <1> QED BY <1>1, <1>2, <1>3, <1>4 DEF IInv

LEMMA InvStep == IInv /\ [Next]_vars => IInv'
  <1> SUFFICES ASSUME IInv, [Next]_vars PROVE IInv'
    OBVIOUS
  <1>1. CASE UNCHANGED vars
    <2>1. clock <= clock
      BY DEF IInv, Types
    <2> QED BY <1>1, <2>1, ClockStep DEF vars, IInv, Types
  <1>2. ASSUME NEW t \in Threads, NEW h \in Headers, Receive(t, h) PROVE IInv'
    BY <1>2, ReceiveStep
  <1>3. ASSUME NEW t \in Threads, WithAuthentication(t) \/ LogThrows(t) \/ handleHelloWorld(t) PROVE IInv'
    BY <1>3, MiddlewareStep, LogThrowsStep, HelloStep
  <1>4. ASSUME NEW u \in Usernames, CreateJWTToken(u) PROVE IInv'
    BY <1>4, CreateStep
  <1> QED BY <1>1, <1>2, <1>3, <1>4, ClockTicksStep, SetClockStep DEF Next

LEMMA Invariant == Spec => []IInv
  BY InvInit, InvStep, PTL DEF Spec
-------------------------------------------------------------------------------
\* Types hold in every reachable state: a token expires after it was issued, a
\* header that names a token names one that was issued, and no request is
\* answered twice.
THEOREM TypeCorrect == Spec => []TypeOK
  <1>1. IInv => TypeOK
    <2> SUFFICES ASSUME IInv PROVE TypeOK
      OBVIOUS
    <2>1. Len(replies) <= received
      <3>1. Len(replies) \in Nat /\ Cardinality(Busy) \in Nat /\ Len(replies) + Cardinality(Busy) = received
        BY LenProperties, FS_CardinalityType DEF IInv, CountInv, Types
      <3> QED BY <3>1
    <2>2. \A t \in Threads : pc[t] # "idle" => request[t].header \in Headers
      BY DEF IInv, Handler
    <2>3. tokens \subseteq Tokens /\ \A k \in tokens : k.iat < k.exp
      BY DEF IInv, Types, Minted
    <2>4. /\ clock \in 0 .. MaxClock /\ received \in 0 .. MaxRequests /\ {alive, setBack} \subseteq BOOLEAN
          /\ pc \in [Threads -> {"idle", "middleware", "handler"}]
      BY DEF IInv, Types
    <2> QED BY <2>1, <2>2, <2>3, <2>4 DEF TypeOK
  <1> QED BY <1>1, Invariant, PTL

\* A token opens the protected route exactly while it lives, up to the truncation
\* of JWTHelper to whole seconds, whenever the clock is set and whatever the
\* length of a second and the lifetime are.
THEOREM TokenLifetime == Spec => []PassesWhileLive
  <1>1. IInv => PassesWhileLive
    <2> SUFFICES ASSUME IInv, NEW i \in DOMAIN replies
                 PROVE  /\ replies[i].passed =>
                              /\ Issued(i) /\ replies[i].header.token \in tokens
                              /\ replies[i].header.token.at < replies[i].checked + Tick
                              /\ replies[i].checked <= replies[i].header.token.at + Lifetime * Tick
                        /\ ( /\ Issued(i)
                             /\ replies[i].header.token.at <= replies[i].checked
                             /\ replies[i].checked + Tick <= replies[i].header.token.at + Lifetime * Tick )
                           => replies[i].passed
      BY DEF PassesWhileLive, OnlyLivePasses, LiveIsHonoured
    <2> Types
      BY DEF IInv
    <2>1. i \in 1 .. Len(replies)
      BY LenProperties DEF Types
    <2>2. Replied(i) /\ replies[i].checked \in Nat
      BY <2>1, TimeTypes DEF IInv
    <2>3. CASE ~Issued(i)
      BY <2>2, <2>3 DEF Issued, Replied, Valid
    <2>4. CASE Issued(i)
      <3>1. PICK k \in tokens : k = replies[i].header.token /\ Minted(k)
        BY <2>2, <2>4, HeaderFacts DEF Issued, Replied
      <3>2. replies[i].passed <=> Starts(k) <= replies[i].checked /\ replies[i].checked <= Ends(k)
        BY <2>2, <2>4, <3>1 DEF Issued, Replied, Valid
      <3>3. PICK now \in Nat, b \in Nat, e \in Nat, a \in Nat, s \in Nat, n \in Nat :
               /\ now = replies[i].checked /\ b = Starts(k) /\ e = Ends(k) /\ a = k.at
               /\ s = Lifetime * Tick /\ n = Tick
               /\ b <= a /\ a < b + n /\ e <= a + s /\ a + s < e + n
        <4>1. Lifetime * Tick \in Nat /\ Tick \in Nat
          BY AuthenticationAssumption
        <4>2. k.at \in Nat
          BY TimeTypes
        <4> QED BY <2>2, <3>1, <4>1, <4>2 DEF Minted, Span
      <3>4. b <= now /\ now <= e => a < now + n /\ now <= a + s
        BY <3>3
      <3>5. a <= now /\ now + n <= a + s => b <= now /\ now <= e
        BY <3>3
      <3> QED BY <2>4, <3>1, <3>2, <3>3, <3>4, <3>5, Zenon
    <2> QED BY <2>3, <2>4
  <1> QED BY <1>1, Invariant, PTL

\* As long as the clock is not set back, a token that the middleware refused is
\* refused in every request sent after that reply: it had been issued by then, so
\* it was refused because it had expired.
THEOREM RefusedForGood == Spec => []RefusalIsFinal
  <1>1. IInv => RefusalIsFinal
    <2> SUFFICES ASSUME IInv, NEW i \in DOMAIN replies, NEW j \in DOMAIN replies,
                        ~setBack, Issued(i), ~replies[i].passed,
                        replies[j].header = replies[i].header, i <= replies[j].since
                 PROVE  ~replies[j].passed
      BY DEF RefusalIsFinal
    <2> Types /\ ClockInv
      BY DEF IInv
    <2>1. i \in 1 .. Len(replies) /\ j \in 1 .. Len(replies)
      BY LenProperties DEF Types
    <2>2. Replied(i) /\ Replied(j)
      BY <2>1 DEF IInv
    <2>3. PICK k \in tokens : k = replies[i].header.token /\ Minted(k)
      BY <2>2, HeaderFacts DEF Issued, Replied
    <2>4. PICK c \in Nat, d \in Nat, b \in Nat, e \in Nat, a \in Nat :
             c = replies[i].checked /\ d = replies[j].checked /\ b = Starts(k) /\ e = Ends(k) /\ a = k.at /\ b <= a
      BY <2>1, <2>3, TimeTypes DEF Minted
    <2>5. ~(b <= c /\ c <= e)
      BY <2>2, <2>3, <2>4 DEF Issued, Replied, Valid
    <2>6. a <= c
      BY <2>1, <2>3, <2>4 DEF ClockInv, After, Issued
    <2>7. c <= d
      BY <2>1, <2>4 DEF ClockInv, After
    <2>8. ~(b <= d /\ d <= e)
      BY <2>4, <2>5, <2>6, <2>7
    <2> QED BY <2>2, <2>3, <2>4, <2>8 DEF Replied, Valid
  <1> QED BY <1>1, Invariant, PTL
===============================================================================
