# A TLA+ model of ccfolio

ccfolio is an HTTP and WebSocket server in C++ (Boost.Beast, ODB on PostgreSQL, Argon2,
JWT) with user registration, login, a chat-room skeleton and an asynchronous logger.
It has no tests of its own (`tests/main.cc` only holds Catch's `main`) and an empty README, so
the source is the reference. Paths below are relative to the repository; line numbers are those
of the modelled commit.

## The system: inventory

| Component | State it keeps | Operations | Interacts with |
|---|---|---|---|
| `LogService` (`src/Utility/LogService.*`) | singleton pointer and its mutex; queue, its mutex, condition variable; `running`; log file | `getInstance`, `log`, `setLevel`, worker `processMessages`, constructor, destructor | called by every other component, from every io thread; destroyed after `main` |
| `main`, `Listener`, `HttpSession`, `Router` (`app/main.cc`, `src/Network`) | acceptor; per connection a stream, a buffer, a parser; the route table; 4 io threads | accept, read, route, write, close, upgrade; stop on a signal | calls controllers; hands sockets to `WebSocketSession` |
| `SharedState`, `WebSocketSession` | set of raw session pointers and its mutex; per session a write queue | `join`, `leave`, `send`; `on_accept`, `on_read`, `on_send`, `on_write` | sessions own themselves through pending handlers |
| `UserController`, `UserService`, `UserRepository`, `OdbRepository` | the `User` table | `/user/create`, `/user/login`; lookup and insert transactions | `PasswordHelper`, `JWTHelper`, the database |
| `PasswordHelper`, `Utility` | none | salt, hash, verify, hex encoding | |
| `JWTHelper`, `AuthenticationMiddleware`, `TestController` | none (the clock) | issue and validate a token; one protected route | |
| generated ODB code (`app/Entities/odb`) | per connection one image of a `User`, an id image, and for each statement its pointers into them, with versions | persist, find, reload, update, query, erase, erase_query | called by the repositories |
| `OperationResult` (`app/Entities`) | a status with a result or a message | success, failure, accessors | what repositories return |

What is hard here: a worker thread and its shutdown; route handlers that block the threads which
also complete the I/O of other connections; check-then-act over two database transactions; raw
pointers to objects whose lifetime hangs on pending handlers; pointers into buffers that grow under them;
a deadline that covers a read, a handler and a write; failures in the middle of a request.
`PROJECT.json` lists these hazards at their lines, with the property that covers each.

What makes each component correct:

* logger: one instance, no lost wakeup, an entry that was queued is written (in order, once) unless
  the stream fails, shutdown loses nothing and ends;
* server: replies match requests, operations of a connection never overlap, handlers never outlive
  what they point to, every request is answered, a slow client is cut off, a socket has one owner, a signal
  ends the process and leaves nothing behind;
* chat room: no dangling session, no deadlock in the destructor, one write at a time, in order;
* accounts: what a reply says is true, a username is registered once, who registered can log in;
* repository: every call returns, a confirmed deletion is final, reads return committed states;
* generated code: what is stored and loaded is exact, and an object is reported missing only when it
  is, whatever the connection has seen before;
* tokens: honoured for their lifetime and no longer;
* hex codec: decoding inverts encoding.

## Modules

| Module | Models |
|---|---|
| `LogSink` | abstract: what a log promises its callers |
| `LogService` | the logger's threads, step by step; implements `LogSink` |
| `LogServiceProofs` | its invariants and the refinement, proved |
| `HexCodec` | `Utility::toHexString`, `fromHexString` |
| `AccountRegistry` | abstract: a registry of unique usernames |
| `OperationResult` | the results repositories return; used by `UserAccounts` |
| `UserAccounts` | registration and login from controller to table; uses `HexCodec`; implements `AccountRegistry` when serial |
| `UserAccountsProofs` | the hex round trip, its invariants and the refinement, proved |
| `EntityStore` | abstract: a table whose rows change one at a time and whose ids are used once |
| `OdbRepository` | the five repository operations as transactions; implements `EntityStore` |
| `OdbRepositoryProofs` | its invariants and the refinement, proved |
| `UserTable` | abstract: requests store and deliver exactly their objects, and report what they did |
| `UserStatements` | the generated code on one connection; implements `UserTable` |
| `UserStatementsProofs` | its invariants and the refinement, proved |
| `Authentication` | `JWTHelper`, the middleware, `TestController`, with a clock |
| `AuthenticationProofs` | its invariants, proved |
| `ChatRoom` | `SharedState` and `WebSocketSession` |
| `ChatRoomProofs` | its invariants and its action property, proved |
| `HttpServer` | `main`, `Listener`, `HttpSession`, `Router` |
| `HttpServerProofs` | its invariants, proved |
| `Server` | the process: `HttpServer` and `ChatRoom` on one pool of io threads |
| `ServerProofs` | that it implements both, and its invariants, proved from theirs |
| `MC*` | instances for TLC |

Definitions whose comment begins "Seeded fault" are not part of any specification. Each is the
definition after it with one plausible mistake; substituted for it, it makes TLC report the
property paired with it in `PROJECT.json`.

### LogService

`pc` holds the position of every thread: io threads in `getInstance`/`log`, the worker in
`processMessages`, main in the join and in `~LogService`. A step ends at a mutex operation, a
notification, an access to `running` or a write. `hand` is the local `msg` between `pop` and the
write. `condition.wait` is four steps: evaluate the predicate with the lock held (`WorkerPredicate`),
release and block atomically (`WorkerBlock`), wake (`StepNotify` or `SpuriousWakeup`), take the lock
back (`WorkerLock`). Failures: the constructor throws, the file does not open, rendering throws, the
stream goes bad. An exception is either caught above the `LOG` call or ends the process
(`"terminated"`). Timestamps and layout are left out: an entry is its thread and call number.

`LogSink` sees `hand \o messageQueue` as pending, the file, the health of the stream, and `closed`
once main is past the destructor.

### UserAccounts

One thread of control per io thread through `CreateUser` or `UserLogin`. Only three moments touch
what threads share: the lookup's query, the `INSERT` (which draws an id) and its commit; begin and
the read-only commit only matter as ways to fail and are part of `LookupThrows`. A commit that
throws may or may not have taken effect; a commit that takes effect only after the error was
reported is not modelled. Argon2 is an injective function of password and salt; the salt goes
through the hex encoding. `replies` records every response with the number of replies that preceded
its request (`since`), which is how "a login sent after the registration was confirmed" is said.
`ParseThrows` includes what happens when the parser's message quotes text that is not UTF-8:
the `LOG` in the catch block throws as well and the response goes out as 200 without a body.
`RepliesAreTrue` has four parts: a confirmed account is committed, a refusal has its reason, a token is
given for a password that was registered, and "Wrong username or password!" is said only if the username was
registered with another password. The last two hold for whichever row a login reads, also after a double
registration; a client that is then rejected with a password that was confirmed is a consequence of
`UniqueUsernames` failing (finding 2) and not of the login.

### OdbRepository

`Create`, `Read`, `Update`, `Delete` and `ReadAll` have one shape: begin, one statement, commit, and a
`FailureResult` for whatever throws. `txn` is the thread's current transaction, `write` the row
version it has written and not committed. Every exit of an operation destroys the `odb::transaction`,
which rolls back what was not committed (libodb, external): that is part of `Return` and of the model, not
something it checks. What rests on it is checked: the next caller gets the row's lock, and the thread can begin
again (`CallReturns`). PostgreSQL is external: READ COMMITTED, with row locks (an
UPDATE or DELETE waits in `LockedFor`) and a sequence that never returns an id twice. A commit
that throws may have taken effect. The generated code contributes what its statements do and that
`load`, `update` and `erase` throw when there is no row. The entity is any class, as in the template;
`User` has no setters, so for it an `Update` can only write back what was read. The `LOG` in the catch
blocks is taken not to throw here; `LogService` and `HttpServer` cover what happens if it does.
`during` is auxiliary: the tables that were committed while a call ran. The table may hold rows
of an earlier process in `Init`. `EntityStore` sees the ids that were drawn and not yet stored as
reserved.

### Authentication

The clock counts ticks, tokens count whole seconds: writing `now` and `now + 3 min` into a token
truncates them, as jwt-cpp does, and the check compares them with the full clock. `at` is auxiliary, the
tick of issue. `ValidateToken` is the set of its outcomes, one of which leaves the response untouched: the
`LOG` of `VerifyToken` threw. If the second `LOG` throws as well, or that of `handleHelloWorld`,
nothing catches the exception and the process ends (`alive`). The clock runs and may be set;
`setBack` is auxiliary and remembers whether it went back.

### ChatRoom

A session is alive while `HeldBy` is true: an accept or read, a posted `on_send`, a write, or a
caller of `SharedState::send` between `wp.lock()` and the end of the loop body. The last one to
let go runs `~WebSocketSession`, which needs `mutex_`. Handlers of one session are atomic because
they run on its strand. The critical sections of `join` and `leave` are one operation each; the one
in `send` is a loop and is modelled pointer by pointer. Nothing in the repository calls `send` yet
(`on_read` has a TODO), so its callers are arbitrary threads.

### HttpServer

`thread` says which request each io thread is handling; every other handler is a single step that
needs a free thread. `reads`, `writes` and `accepts` count operations in progress, so that a second
one would show. Clients may send requests before earlier ones are answered. A response needs the end
of the stream when the client did not ask to keep the connection or no payload was prepared, which is
what a controller leaves behind when it swallows an exception. `expired` is the deadline of `do_read`:
it passes at any time, whatever the session is doing, and then the timer may cut off the read or
write in progress, or one that starts later, unless the operation wins the race. A connection is "closed"
after the end of the stream or after a response that needs it, and "cut" after an error, a timeout or
the exit of the process. A signal is delivered at any time (`Signal`); its handler, which stops the
`io_context`, needs a free io thread like any other (`OnSignal`). The `LOG` in the `fail` functions is taken not to
throw: it is in no `try` block, so that a message which is not UTF-8 would end the process there, as
`HandlerThrows` does for the controllers; error messages of the operating system are ASCII in practice, and
no property turns on it. `OnReadFails` also stands for a body above the limit of 10000 bytes.

### Server

Two instances, `Http` and `Chat`, that share the io threads. `OnRead` of an upgrade is
`Http!OnRead` and `Chat!Run` in one step; every handler of a websocket needs a free io thread. After the
join (`JoinThreads`, which also waits for a destructor that is running) main destroys its locals; `ioContext` goes with the handlers it still holds, each of which has the
last reference to its session, so that `~WebSocketSession` and `leave` run there (`DestroyHandler`,
`Leave`) before `Return`. The chat room has no senders here, because nothing in the program
calls `SharedState::send`; `ChatRoom` covers what happens when something does. Its other variables are
declared only because they are the instance's and never change.

### UserStatements

One pooled connection, used by one transaction after another, while `OthersWrite` changes the table.
`image` is the connection's only image of a `User`; `init_image` fills it for an INSERT or UPDATE and
`fetch` from a row. A text column lives in a buffer that is reallocated when a longer text comes. A
buffer only grows, so its capacity names it: `binding[k].buffer` is the capacity of the buffer a
statement points to, and differs from `image.cap` exactly when the pointer dangles; what is
read through it is `Garbage`. `find` stands for both overloads and `reload`, all of which go through
`find_`; the iterator of a query result does for each row what `find_` does (libodb, external). The
object cache is the no-op one (`User-odb.hxx`) and `User` has no pointers to other objects, so that the
delayed loads have nothing to do. In this program only usernames can exceed the 512 bytes a buffer starts with: hash and
salt have fixed lengths. The model lets every column grow, but no allocation fails: if two
columns grew in one `init` and the second allocation threw, the first reallocation would go unnoticed.

`UserTable` takes the same requests, changes its rows by exactly the object of the request, and delivers
exactly rows that were there when the statement ran, each at most once, with one SELECT to a request. It also fixes how
a request may end: "done" only after its effect, "object_not_persistent" only if no row has the id, "failed"
without an effect. So a parameter that was never bound, which makes an UPDATE miss its row, is not mistaken
for a request that had nothing to do (`update_Unbound`).

## Runs

| Run | Result | Bounds |
|---|---|---|
| `log_service` | seven properties hold | 2 io threads, 2 calls each, one level that `setLevel` can filter |
| `log_destructor` | **violated** | same |
| `accounts` | three invariants hold | 2 threads, 3 requests, 2 usernames, passwords and salts, all failures |
| `accounts_serial` | two properties hold | 1 thread, 3 requests, lookups do not fail, everything else may |
| `accounts_race` | **violated** | 2 threads, 2 requests, lookups do not fail |
| `accounts_lookup_fault` | **violated** | 1 thread, 2 requests, lookups may fail |
| `chat_room` | seven properties hold | 2 sessions, the peer of one of which may stop reading; 2 threads that call `send` twice between them |
| `http_safety` | five invariants hold | 2 threads, 2 connections, 2 requests each |
| `server` | five properties hold | 1 thread and 2 connections, so that a handler blocks the other connection and the signal; 1 request each, which may be an upgrade |
| `statements` | three properties hold | 2 text columns, 2 rows, texts of 3 lengths of which one fits a new buffer; no bound on the number of requests |
| `repository` | five properties hold | 2 callers, 3 calls, 2 values, calls for one id (rows created may have others), at most one row to begin with |
| `authentication` | three invariants hold | 2 threads, 2 tokens, 2 requests; 2 ticks a second, lifetime 2 s, 6 ticks; the clock may be set |

The bounds are small and still reach the cases that matter: two threads race for the singleton and
for a username; a queue holds entries of both threads and two of one, which order needs; a session
dies during a broadcast, at the hands of the sender and of its own strand; two messages, of one caller or of
two, meet in the queue of a session; both io threads are busy
while requests wait (`http_safety`), or the only one (`server`). The exit is checked in two places: that no handler
outlives the router needs two threads, since the signal's handler takes one, and is an invariant of `http_safety`;
that no session is left behind needs websockets, and is one of `server`. The bounds of the safety properties are
backed by the theorems, which have none. Registration, retry and login need three requests. Salts have three bytes with
one below 16 in the middle, where padding matters. A row read, changed and read again needs three calls,
as do two racing deletions and a look afterwards. One row is enough for the repository because transactions
on different rows do not meet; ids 2 and 3 exist as well, drawn by `Create` and seen by `ReadAll`. Two ticks a second are the fewest at which
truncation loses something, and six ticks run past the end of a token of two seconds. Two columns let one
be truncated while the other is not, and two lengths above the first capacity let a buffer grow twice;
versions only count reallocations, so the state space of `statements` is finite by itself. Symmetry is used
only in runs without liveness properties. Deadlock checking is off because every system here may come to rest: the process ends, or
the bounded clients have nothing more to ask.

**Findings.** The three violations (1 to 3) are reported in `PROJECT.json`; 4 and 5 were met while modelling:

1. `~LogService` can hang: it clears `running` and notifies without `queueMutex`, in the window
   between the worker's predicate and its blocking. The trace ends with the worker blocked and main
   in `join`. The queue is empty then, so nothing is lost but the process does not end.
2. Two concurrent registrations of one username both succeed (`accounts_race`).
3. A database error during the lookup is read as "no such user", so a single client can register
   a username twice (`accounts_lookup_fault`: the first registration commits, the retry's lookup fails).
   `accounts_serial` shows that 2 and 3 are all: with one thread and a lookup that does not fail,
   uniqueness holds under every other failure.
4. "Server listening on" is printed, and the process stays up, when `bind` has failed: the constructor of
   `Listener` returns and `main` cannot tell (`Setup` in `HttpServer`).
5. Nothing bounds a websocket write: the idle timeout of `timeout::suggested` starts again whenever data is
   received, so a peer that keeps sending and never reads holds `async_write`, and the messages queued behind it,
   for as long as it likes. `ChatRoom` lets a write take for ever.

**Fairness.** `LogService`: threads that can run do run; nobody has to log, no signal has to
come, and the condition variable need not wake up by itself. `ChatRoom`: posted handlers run, destructors and
callers of `send` go on, and a mutex that stays free is obtained. The code does not make a write end
(finding 5), so that is a hypothesis about the client: the peers of the sessions in `Readers` take in what is
written or their connection breaks, the others owe nothing. `ClosedIsFreed` and `PostedIsWritten` are about
`Readers`. They say that the queue does not stop, and the session does not stay, for any other reason, such as
another session whose peer has stopped reading. `Server`: route handlers and destructors
return, time passes, and the io threads run what is ready: the timer's handler and the end of a
websocket handshake, which has a timeout of its own. That route handlers return assumes that the database
answers, for the code sets no timeout on it. The signal's handler has strong fairness: it can run only when a
thread is free, which other handlers may take from it again and again, but asio runs handlers in the
order in which they become ready. That an HTTP read or write ends is not assumed but shown, from the deadline.
`OdbRepository`: strong fairness of a thread's progress (`Works`), for a statement that waits for a row lock is
enabled only between the transactions that hold it, and PostgreSQL serves those that wait in turn. Failures are
not fair: no call owes its return to one. Everything else is weak fairness. No accept, read, client or signal is
assumed fair.

## Proofs

Every invariant of a passing run, the action property of `ChatRoom` and all refinements are theorems, for every
value of the constants that satisfies the named assumption of the module. Each proof module begins with
the inductive invariant `IInv`, whose parts are named; it was checked with TLC on the instance of the run
before it was proved. Then come lemmas about the operators, one lemma for each action or kind of
action, and the theorems.

### LogServiceProofs

It holds for any set of io threads and any number of calls. Assumption: `LogAssumption`
(the threads are distinct, levels are naturals with `DEBUG` = 0).

None of the safety properties is inductive by itself. `IInv` adds what the code relies on silently:

* `MutexInv`: a thread's label says whether it holds `queueMutex`. Without it the worker could
  decide to block while another thread pushes.
* `InstanceInv`: before the singleton is stored there is no worker and nothing is queued, and
  `instanceMutex` is held during construction; the worker's hand is empty except before a write; an
  unopened file goes with a bad stream.
* `ShutdownInv`: the destructor runs only after all io threads have exited; `running` is false
  exactly from `DtorStop` on; a worker that has left saw an empty queue that nobody can fill again.
* `BlockInv`: a worker about to block saw an empty queue and still holds the mutex; once it is
  blocked, an entry in the queue means that a caller is between `push` and `notify`.

Each part has a lemma with one step per action. From the invariant follow `SingletonSafe`,
`NoLostWakeup`, `UnlockedReadSafe`, `ShutdownDrains` and `Refinement`. In the refinement
`Push` is `Take`, `WorkerWrite` is `Deliver`, `Fail` or `Lose`, the end of main is `Close`, a
file that does not open is `Fail`, and every other step stutters; `PendingSteps` says what each queue
operation does to `hand \o messageQueue`.

`OrderKept` needs more than the order: an entry must not be pushed behind one that is as new. `Past`
counts the calls of a thread that have queued their entry or never will, and `OrderInv` says that the
entries of a thread, in the file and on the way to it, are ordered and none is newer than `Past`. A call
that throws or is filtered leaves a gap; an entry that a bad stream discards leaves the rest in order.

### OdbRepositoryProofs

It holds for any sets of threads, values and ids and any number of calls, from
`RepositoryAssumption` (bounds and ids are naturals) and the database as modelled. `IInv` adds to the types
and the two properties of deletions:

* `InHand`: what a thread has written and read at each label, which ties the row it writes to the
  call it will answer;
* `RowsApart`: transactions in progress have written different rows, an inserted row is not in the table
  and an updated or deleted one still is. Without it the commit of an `Update` could bring a
  deleted row back;
* `GoneForGood`: the id of a confirmed deletion has been drawn, is not in the table, nobody is
  writing it and no later call has read it.

`ReturnKeeps`, `WriteKeeps` and `ReadKeeps` treat the three kinds of step once. From `IInv` follow
`DeleteIsFinal` and `Refinement`, where drawing an id is `Draw`, a commit is `Insert`,
`Replace` or `Remove` by what was written, a failed insertion is `GiveUp`, and the rest stutters.
`ReadsCurrent` has an invariant of its own, `Overlap`: the committed table is always among those a running
call has overlapped with.

### HttpServerProofs

For any threads, connections and number of requests (`ServerAssumption`). `Phase` says what a connection
waits for (a read, a handler, a write, or nothing) and, in each case, how many of its requests have been read
and answered; the handler in `thread` and the response in `writes` belong to the request read last.
This couples `OneStepAtATime` and `RepliesInOrder`: neither is inductive alone, since two operations at once
would swap answers, and an answer with a wrong number could not be told from a right one.
`Numbered` adds that the client's requests are numbered. `Frame` and `Others` show once that a step of one
connection leaves the invariant of the others alone. `TypeCorrect`, `Pipelining`, `SingleStep`,
`EndsInOrder` and `RouterIsSafe` follow.

### ChatRoomProofs

For any sessions, senders and numbers of calls (`ChatAssumption`). `NoDanglingSession` is nearly
inductive; it needs `SenderInv`: a sender in its first loop holds `mutex_`, so that no session leaves under
its hands, and one that posts holds a session it has taken out of `v`. `StrandInv` keeps a message in the
queue after its write has failed, which is why no later message is written (`SilentAfterFailure`). For the
order, `TrailInv` follows messages from `posted` through `queue_` to `wire` and says that a call which still
owes its message to a session (`Owes`) is newer than everything of its caller in that trail.

### ServerProofs

For any threads and connections (`ProcessAssumption`, which is what the two components assume).
Every action of `Server` is composed of at most one action of each component, so the lemma
`ComponentsImplemented` (a step of the process is a step of `HttpServer` or leaves it unchanged, and the same for
`ChatRoom`) is a matter of definitions; it serves to carry results over. Through it the process has what was proved of the components: the
theorems of `HttpServerProofs` and `ChatRoomProofs` are instantiated, `SameHttp` and `SameChat` say that their
specifications are those that `Server` uses, and `PartsHold` collects what the rest needs. On top of that two
facts are inductive: `HandOver` (a connection has a WebSocketSession exactly when it is upgraded) and
`AllGone` (after the return of main nothing is open or alive). With `OneStepAtATime` and `NoDanglingSession`
of the components they give `OneOwnerHolds` and `ExitLeavesNothing`.

### UserAccountsProofs

For any threads, usernames, passwords and salts (`AccountsAssumption`). `HexText` and `HexRoundTrip` show
that `toHexString` makes two digits of every byte and that `fromHexString` gives the bytes back, for
vectors of any length; `RowFacts` concludes that `VerifyUserPassword` accepts the password a row was made
with and no other. `IInv` says what each handler knows at its label: which user it has found or made, that
this user is in the table or about to be, and which replies came before its request. The table only
grows (`TableGrows`), so a reply that is true stays true: a rejected login has read a row with another
password, and that row remains. `RepliesTrue` and `FoundAfterCreateHolds` need no
hypothesis.

`RegisteredLogsIn` and `RegistryImplemented` have the hypothesis `Alone`: one thread, and lookups
that do not fail. It cannot be dropped: `accounts_race` and `accounts_lookup_fault` are counterexamples without it. `SerialInv`
adds that the username about to be committed is free, which is what interleaving breaks.

### AuthenticationProofs

For any threads, requests, ticks per second and lifetime (`AuthenticationAssumption`). `Minted` bounds what the
truncation of `iat` and `exp` loses, by division lemmas; `Handler` and `Replied` say that a request has passed
exactly when its token was valid at the tick it was checked. `TokenLifetime` is then arithmetic.
`RefusedForGood` needs `ClockInv`: while the clock was not set back, no check is earlier than the issue of
its token or than the checks of the replies that came before its request.

### UserStatementsProofs

For any columns, texts, capacity and ids (`StatementsAssumption`). `Fresh` is the heart: the version of a
binding is never ahead of the image's, and when the two agree the binding's pointers are those of the
image. It makes the version test of the generated code sufficient (`PointersAreValid`). `RequestInv` and
`RowInv` say what the image holds before a statement is executed and after a row is fetched, truncated
columns apart. In `UserTableImplemented` a request is one step, its execution another, each row delivered a
third, its end a fourth with the outcome it reports, and fetching and growing stutter. That the id is
bound whenever a statement needs it is part of `RequestInv`.

### Only model-checked

The liveness properties (`QueuedIsHandled`, `ClosedIsFreed`, `PostedIsWritten`, `RequestIsAnswered`,
`SignalEnds`, `OperationEnds`, `CallReturns`), because fairness is out of the prover's reach, and the three
violations, which are traces. `UserAccounts` under concurrency has no registry theorem, because there is none to prove.

## Not modelled

The rendering of log entries, with `std::localtime`'s shared buffer and the date that is computed
once; signatures; Argon2; the SQL text of the statements; failing allocations; build and deployment files.
That an accept error ends the accept loop is an action of `HttpServer` and no property: nothing promises
that the server recovers.

## Plan

Done: the modules above, their runs and the theorems for every safety property. What could follow:

1. A theorem that says which part of `AccountRegistry` survives concurrency (every row was asked for by a
   request, ids are unique).
2. Lemmas towards `DestructorReturns` for a corrected `~LogService` that takes `queueMutex` before it clears
   `running`.
