----------------------------- MODULE UserAccounts -----------------------------
(***************************************************************************)
(* POST /user/create and POST /user/login, from the controller to the      *)
(* database: UserController, UserService, UserRepository, OdbRepository    *)
(* (src/app), PasswordHelper, JWTHelper and Utility (src/src).  The        *)
(* handlers run on the io threads, without a lock between them: what they  *)
(* share is the User table.                                                *)
(*                                                                         *)
(* A step ends where another thread can observe the difference: at the     *)
(* query of a lookup, at the INSERT, which draws an id, and at the commit. *)
(***************************************************************************)
EXTENDS Naturals, FiniteSets, Sequences, HexCodec, OperationResult

CONSTANTS Threads,       \* io threads
          Usernames,
          Passwords,
          Salts,         \* what GenerateRandomSalt can return
          MaxRequests,   \* bound: requests the server receives
          LookupFaults   \* lookups may fail with a database error

ASSUME AccountsAssumption ==
    /\ MaxRequests \in Nat
    /\ LookupFaults \in BOOLEAN
    /\ Salts \subseteq Seq(Byte)

VARIABLES
    table,     \* committed rows of "User"
    serial,    \* the SERIAL sequence behind "User"."id"
    pc,        \* where each thread is in its handler
    request,   \* the request each thread is handling
    user,      \* the User object on each thread's stack
    replies,   \* every reply sent, in order
    received   \* requests received so far

vars == <<table, serial, pc, request, user, replies, received>>

\* argon2i_hash_raw, rendered in hex: distinct inputs have distinct hashes.
Argon2(password, salt) == <<password, salt>>

Requests == [op : {"create", "login"}, username : Usernames, password : Passwords]
Malformed == [op |-> "malformed"]   \* a body CreateUser and UserLogin cannot parse
NoRequest == [op |-> "none"]
NoToken == "none"
Row(id, u, p, s) == [id |-> id, username |-> u, passwordHash |-> Argon2(p, s), salt |-> toHexString(s)]
NoUser == [id |-> 0]

\* PasswordHelper::VerifyUserPassword.
VerifyUserPassword(row, password) ==
    Argon2(password, fromHexString(row.salt)) = row.passwordHash

Rows(u) == {r \in table : r.username = u}

Goto(t, label) == pc' = [pc EXCEPT ![t] = label]

\* The handler of t ends: the response is written and the thread is free.
\* A message stands for the text it begins with.
\* `since' is the number of replies the client could have seen when it sent
\* the request.
Reply(t, status, message, token) ==
    /\ replies' = Append(replies, [request |-> request[t].req, since |-> request[t].since,
                                   status |-> status, message |-> message, token |-> token])
    /\ Goto(t, "idle")
    /\ request' = [request EXCEPT ![t] = [req |-> NoRequest, since |-> 0]]
    /\ user' = [user EXCEPT ![t] = NoUser]

Failure(t, message) == Reply(t, "bad_request", message, NoToken)
Success(t, username) == Reply(t, "ok", "", username)

Init ==
    /\ table = {} /\ serial = 1
    /\ pc = [t \in Threads |-> "idle"]
    /\ request = [t \in Threads |-> [req |-> NoRequest, since |-> 0]]
    /\ user = [t \in Threads |-> NoUser]
    /\ replies = <<>> /\ received = 0
-------------------------------------------------------------------------------
\* A request arrives and a thread picks it up.
Receive(t, r) ==
    /\ pc[t] = "idle" /\ received < MaxRequests
    /\ received' = received + 1
    /\ request' = [request EXCEPT ![t] = [req |-> r, since |-> Len(replies)]]
    /\ Goto(t, IF r = Malformed THEN "parse" ELSE IF r.op = "create" THEN "hash" ELSE "lookup")
    /\ UNCHANGED <<table, serial, user, replies>>

\* json::parse, or the access to a field, throws.  The message of the error
\* may quote text that is not UTF-8: then the LOG in the catch block throws
\* too, the controller catches that, and the response stays as it was made,
\* 200 without a body.
ParseThrows(t) ==
    /\ pc[t] = "parse"
    /\ Failure(t, "Invalid_JSON_format") \/ Reply(t, "ok", "", NoToken)
    /\ UNCHANGED <<table, serial, received>>

\* CreateUser: HashPasswordWithArgon2 with a fresh salt, and the User object.
HashPassword(t) ==
    /\ pc[t] = "hash"
    /\ \E s \in Salts :
          user' = [user EXCEPT ![t] = Row(0, request[t].req.username, request[t].req.password, s)]
    /\ Goto(t, "lookup")
    /\ UNCHANGED <<table, serial, request, replies, received>>

HashThrows(t) ==
    /\ pc[t] = "hash"
    /\ Failure(t, "Something_happened")
    /\ UNCHANGED <<table, serial, received>>

\* The result of getUserByUsername: createUser refuses the username if there is
\* one and goes on to Create if not, UserLogin goes on with the row.
LookupReturns(t, userResult) ==
    IF request[t].req.op = "create"
    THEN IF IsSuccess(userResult)
         THEN Failure(t, "already_exist")
         ELSE Goto(t, "persist") /\ UNCHANGED <<request, user, replies>>
    ELSE IF IsSuccess(userResult)
         THEN /\ user' = [user EXCEPT ![t] = GetResult(userResult)]
              /\ Goto(t, "verify")
              /\ UNCHANGED <<request, replies>>
         ELSE Failure(t, GetErrorMessage(userResult))

\* getUserByUsername finds a row, the first of the result in any order.
LookupFinds(t) ==
    /\ pc[t] = "lookup"
    /\ \E r \in Rows(request[t].req.username) : LookupReturns(t, SuccessResult(r))
    /\ UNCHANGED <<table, serial, received>>

\* Seeded fault: the lookup may miss a row.
LookupFindsNothing_Always(t) ==
    /\ pc[t] = "lookup"
    /\ LookupReturns(t, FailureResult("Failed_to_find_user"))
    /\ UNCHANGED <<table, serial, received>>

\* getUserByUsername finds none.
LookupFindsNothing(t) ==
    /\ pc[t] = "lookup" /\ Rows(request[t].req.username) = {}
    /\ LookupReturns(t, FailureResult("Failed_to_find_user"))
    /\ UNCHANGED <<table, serial, received>>

\* Seeded fault: a failed lookup is reported like an empty result.
LookupThrows_NotFound(t) ==
    /\ pc[t] = "lookup" /\ LookupFaults
    /\ LookupReturns(t, FailureResult("Failed_to_find_user"))
    /\ UNCHANGED <<table, serial, received>>

\* begin, the query or the commit of the lookup throws: a FailureResult, which
\* createUser cannot tell from "no such user".
LookupThrows(t) ==
    /\ pc[t] = "lookup" /\ LookupFaults
    /\ LookupReturns(t, FailureResult("Something_happened"))
    /\ UNCHANGED <<table, serial, received>>

\* The result of createUser: CreateUser goes on to the token or reports why not.
CreateReturns(t, creationResult) ==
    IF IsSuccess(creationResult)
    THEN Goto(t, "token") /\ UNCHANGED <<request, user, replies>>
    ELSE Failure(t, GetErrorMessage(creationResult))

\* OdbRepository::Create: begin and persist.  The INSERT draws the id; other
\* transactions do not see the row.
Persist(t) ==
    /\ pc[t] = "persist"
    /\ user' = [user EXCEPT ![t].id = serial]
    /\ serial' = serial + 1
    /\ Goto(t, "commit")
    /\ UNCHANGED <<table, request, replies, received>>

\* begin or persist throws; an id may have been drawn.
PersistThrows(t) ==
    /\ pc[t] = "persist"
    /\ serial' \in {serial, serial + 1}
    /\ CreateReturns(t, FailureResult("Failed_to_create_user"))
    /\ UNCHANGED <<table, received>>

Commit(t) ==
    /\ pc[t] = "commit"
    /\ table' = table \cup {user[t]}
    /\ CreateReturns(t, SuccessResult(TRUE))
    /\ UNCHANGED <<serial, received>>

\* Seeded fault: Create reports success although the commit failed.
CommitThrows_Success(t) ==
    /\ pc[t] = "commit"
    /\ CreateReturns(t, SuccessResult(TRUE))
    /\ UNCHANGED <<table, serial, received>>

\* commit throws: the transaction was rolled back, or the connection was lost
\* after the server had committed it.
CommitThrows(t) ==
    /\ pc[t] = "commit"
    /\ table' \in {table, table \cup {user[t]}}
    /\ CreateReturns(t, FailureResult("Failed_to_create_user"))
    /\ UNCHANGED <<serial, received>>

\* UserLogin: the password is verified against the row that was read.
VerifyPassword(t) ==
    /\ pc[t] = "verify"
    /\ IF VerifyUserPassword(user[t], request[t].req.password)
       THEN Goto(t, "token") /\ UNCHANGED <<request, user, replies>>
       ELSE Failure(t, "Wrong_username_or_password")
    /\ UNCHANGED <<table, serial, received>>

VerifyThrows(t) ==
    /\ pc[t] = "verify"
    /\ Failure(t, "Something_happened")
    /\ UNCHANGED <<table, serial, received>>

\* CreateJWTToken, ResponseDto::Success.
CreateToken(t) ==
    /\ pc[t] = "token"
    /\ Success(t, user[t].username)
    /\ UNCHANGED <<table, serial, received>>

TokenThrows(t) ==
    /\ pc[t] = "token"
    /\ Failure(t, "Something_happened")
    /\ UNCHANGED <<table, serial, received>>
-------------------------------------------------------------------------------
HandlerStep(t) ==
    \/ ParseThrows(t)
    \/ HashPassword(t) \/ HashThrows(t)
    \/ LookupFinds(t) \/ LookupFindsNothing(t) \/ LookupThrows(t)
    \/ Persist(t) \/ PersistThrows(t)
    \/ Commit(t) \/ CommitThrows(t)
    \/ VerifyPassword(t) \/ VerifyThrows(t)
    \/ CreateToken(t) \/ TokenThrows(t)

Next ==
    \E t \in Threads :
        \/ \E r \in Requests \cup {Malformed} : Receive(t, r)
        \/ HandlerStep(t)

Spec == Init /\ [][Next]_vars
-------------------------------------------------------------------------------
Labels == {"idle", "parse", "hash", "lookup", "persist", "commit", "verify", "token"}

\* The table, the handlers' labels and requests and the counters keep their types
\* (what a handler holds in user is left open); a stored salt decodes to one that was
\* generated, and an id is drawn before it is used.
TypeOK ==
    /\ \A r \in table :
          /\ r.username \in Usernames /\ r.id \in 1 .. serial - 1
          /\ fromHexString(r.salt) \in Salts
          /\ r.passwordHash \in Passwords \X Salts
    /\ pc \in [Threads -> Labels]
    /\ \A t \in Threads :
          /\ request[t].req \in Requests \cup {Malformed, NoRequest}
          /\ pc[t] = "idle" <=> request[t].req = NoRequest
    /\ serial \in Nat \ {0}
    /\ received \in 0 .. MaxRequests /\ Len(replies) <= received

Succeeded(reply) == reply.token # NoToken

\* A client that is told its account was created can rely on it: the row is
\* committed, with a hash its password verifies against.
SuccessIsDurable ==
    \A i \in DOMAIN replies :
        (Succeeded(replies[i]) /\ replies[i].request.op = "create") =>
            \E r \in Rows(replies[i].request.username) :
                VerifyUserPassword(r, replies[i].request.password)

\* "User with username: {0} already exist." is sent only for a username that
\* some committed row has, whatever other handlers are doing.
RefusalIsTruthful ==
    \A i \in DOMAIN replies :
        replies[i].message = "already_exist" => Rows(replies[i].request.username) # {}

\* UserLogin answers with a token only for the username it was asked for, and
\* only if that user registered with this password.
LoginIsSound ==
    \A i \in DOMAIN replies :
        (Succeeded(replies[i]) /\ replies[i].request.op = "login") =>
            /\ replies[i].token = replies[i].request.username
            /\ \E r \in Rows(replies[i].request.username) :
                  r.passwordHash[1] = replies[i].request.password

\* "Wrong username or password!" is sent only if the username was registered with
\* another password: who registered it with no other one is never rejected,
\* whichever of its rows the login has read.
RejectionIsTruthful ==
    \A i \in DOMAIN replies :
        replies[i].message = "Wrong_username_or_password" =>
            \E r \in Rows(replies[i].request.username) :
                r.passwordHash[1] # replies[i].request.password

\* What a client is told is true of the table, whatever other handlers are doing:
\* a confirmed account is committed, a refusal has its reason, a token is given
\* for a password that was registered, and a password is rejected only if another
\* one was.
RepliesAreTrue == SuccessIsDurable /\ RefusalIsTruthful /\ LoginIsSound /\ RejectionIsTruthful

\* reply j answers a login of the account that reply i had confirmed before
\* the login was sent.
LoginAfterCreate(i, j) ==
    /\ i <= replies[j].since
    /\ Succeeded(replies[i]) /\ replies[i].request.op = "create"
    /\ replies[j].request = [replies[i].request EXCEPT !.op = "login"]

\* After a confirmed registration no login is told that there is no such user;
\* a database error is reported as an error, not as an absence.
FoundAfterCreate ==
    \A i, j \in DOMAIN replies :
        LoginAfterCreate(i, j) => replies[j].message # "Failed_to_find_user"

\* With one thread and lookups that do not fail, who has registered can log in:
\* hashing, the hex encoding of the salt and verification fit together.
RegisteredCanLogin ==
    \A i, j \in DOMAIN replies :
        LoginAfterCreate(i, j) =>
            replies[j].message \notin {"Failed_to_find_user", "Wrong_username_or_password"}

\* The check in createUser, "User with username: {0} already exist.": a username
\* is registered at most once.
UniqueUsernames ==
    \A r1, r2 \in table : r1.username = r2.username => r1 = r2

\* The User table is an account registry: rows are only added, and only for a
\* username that is not registered.
Registry == INSTANCE AccountRegistry WITH
    Ids <- 1 .. MaxRequests,
    accounts <- {[id |-> r.id, username |-> r.username, password |-> r.passwordHash[1]] : r \in table}
ImplementsRegistry == Registry!Spec
===============================================================================
