-------------------------- MODULE UserAccountsProofs --------------------------
(***************************************************************************)
(* Proofs about UserAccounts for any number of io threads, users, salts    *)
(* and requests, and about the hex codec that the salts go through.        *)
(***************************************************************************)
EXTENDS UserAccounts, FiniteSetTheorems, SequenceTheorems, TLAPS

\* The User objects that CreateUser makes.
Users == {Row(id, u, p, s) : id \in Nat, u \in Usernames, p \in Passwords, s \in Salts}
Queries == Requests \cup {Malformed, NoRequest}
Texts == {"", "Invalid_JSON_format", "Something_happened", "already_exist",
          "Failed_to_find_user", "Failed_to_create_user", "Wrong_username_or_password"}
Replies == [request : Queries, since : Nat, status : {"ok", "bad_request"}, message : Texts,
            token : Usernames \cup {NoToken}]

Types ==
    /\ table \subseteq Users /\ serial \in Nat \ {0}
    /\ pc \in [Threads -> Labels]
    /\ request \in [Threads -> [req : Queries, since : Nat]]
    /\ user \in [Threads -> Users \cup {NoUser}]
    /\ replies \in Seq(Replies) /\ received \in 0 .. MaxRequests

\* The handlers in progress are the requests that have no reply yet.
Busy == {t \in Threads : pc[t] # "idle"}
CountInv == IsFiniteSet(Busy) /\ Len(replies) + Cardinality(Busy) = received

\* The id of a committed row has been drawn.
TableInv == \A r \in table : r.id \in 1 .. serial - 1

\* What a handler has at each of its labels: an object for its request, without
\* an id and then with one; a row of its username; and at last a committed row
\* that its password verifies against.
Object(t, id) ==
    \E s \in Salts : user[t] = Row(id, request[t].req.username, request[t].req.password, s)
Handler(t) ==
    LET q == request[t].req
    IN  /\ request[t].since <= Len(replies)
        /\ pc[t] = "idle" <=> q = NoRequest
        /\ pc[t] = "parse" <=> q = Malformed
        /\ pc[t] \in {"hash", "persist", "commit"} => q.op = "create"
        /\ pc[t] = "verify" => q.op = "login"
        /\ pc[t] \in {"lookup", "persist"} /\ q.op = "create" => Object(t, 0)
        /\ pc[t] = "commit" => \E id \in 1 .. serial - 1 : Object(t, id)
        /\ pc[t] \in {"verify", "token"} => user[t] \in Rows(q.username)
        /\ pc[t] = "token" => VerifyUserPassword(user[t], q.password)

\* A row of the username has another password.
Rejects(q) == \E r \in Rows(q.username) : r.passwordHash[1] # q.password

\* A reply is true of the table, and stays so.
IsTrue(m) ==
    /\ Succeeded(m) =>
          /\ m.request \in Requests /\ m.token = m.request.username
          /\ \E r \in Rows(m.request.username) : VerifyUserPassword(r, m.request.password)
    /\ m.message = "already_exist" => Rows(m.request.username) # {}
    /\ m.message = "Wrong_username_or_password" => Rejects(m.request)
RepliesInv ==
    /\ \A i \in 1 .. Len(replies) : replies[i].since < i /\ IsTrue(replies[i])
    /\ \A i, j \in 1 .. Len(replies) : LoginAfterCreate(i, j) => replies[j].message # "Failed_to_find_user"

IInv == Types /\ CountInv /\ TableInv /\ RepliesInv /\ \A t \in Threads : Handler(t)
-------------------------------------------------------------------------------
(* Utility::toHexString and Utility::fromHexString, for vectors of any       *)
(* length.                                                                   *)

\* A byte is recovered from its two digits.
LEMMA ByteDigits ==
    ASSUME NEW b \in Byte
    PROVE  /\ b \div 16 \in Digit /\ b % 16 \in Digit
           /\ (16 * (b \div 16) + (b % 16)) % 256 = b
  BY DEF Byte, Digit

\* Where toHexString puts the two digits of byte i.
LEMMA DigitPlaces ==
    ASSUME NEW n \in Nat, NEW i \in 1 .. n
    PROVE  /\ 2 * i - 1 \in 1 .. 2 * n /\ 2 * i \in 1 .. 2 * n
           /\ (2 * i - 1) % 2 = 1 /\ ((2 * i - 1) + 1) \div 2 = i
           /\ (2 * i) % 2 = 0 /\ (2 * i + 1) \div 2 = i
  OBVIOUS

\* fromHexString makes half as many bytes as there are digits.
LEMMA HalfOf == ASSUME NEW n \in Nat PROVE (2 * n + 1) \div 2 = n
  OBVIOUS

LEMMA TwiceWithin == ASSUME NEW n \in Nat, NEW i \in 1 .. n PROVE 2 * i <= 2 * n
  OBVIOUS

\* toHexString renders a vector of n bytes as 2n hex digits.
THEOREM HexText ==
    ASSUME NEW bytes \in Seq(Byte)
    PROVE  toHexString(bytes) \in Seq(Digit) /\ Len(toHexString(bytes)) = 2 * Len(bytes)
  <1> DEFINE n == Len(bytes)
  <1>1. n \in Nat /\ \A j \in 1 .. n : bytes[j] \in Byte
    BY LenProperties, ElementOfSeq
  <1>2. ASSUME NEW k \in 1 .. 2 * n PROVE toHexString(bytes)[k] \in Digit
    <2>1. (k + 1) \div 2 \in 1 .. n
      BY <1>1
    <2>2. bytes[(k + 1) \div 2] \in Byte
      BY <1>1, <2>1
    <2> QED BY <2>2, ByteDigits DEF toHexString
  <1>3. toHexString(bytes) \in [1 .. 2 * n -> Digit]
    BY <1>1, <1>2 DEF toHexString
  <1> QED BY <1>1, <1>3

\* fromHexString gives back the salt that toHexString stored: login verifies
\* against the salt the password was hashed with.
THEOREM HexRoundTrip ==
    ASSUME NEW bytes \in Seq(Byte)
    PROVE  fromHexString(toHexString(bytes)) = bytes
  <1> DEFINE n == Len(bytes)
             hex == toHexString(bytes)
  <1>1. n \in Nat /\ bytes \in [1 .. n -> Byte]
    BY LenProperties
  <1>2. Len(hex) = 2 * n
    BY HexText
  <1>3. ASSUME NEW i \in 1 .. n PROVE fromHexString(hex)[i] = bytes[i]
    <2>1. hex[2 * i - 1] = bytes[i] \div 16 /\ hex[2 * i] = bytes[i] % 16
      BY <1>1, DigitPlaces DEF toHexString
    <2> HIDE DEF hex, n
    <2>2. (16 * hex[2 * i - 1] + hex[2 * i]) % 256 = bytes[i]
      <3>1. bytes[i] \in Byte
        BY <1>1
      <3> QED BY <2>1, <3>1, ByteDigits
    <2>3. i \in 1 .. (Len(hex) + 1) \div 2 /\ 2 * i <= Len(hex)
      <3>1. (Len(hex) + 1) \div 2 = n
        BY <1>1, <1>2, HalfOf
      <3>2. n \in Nat
        BY <1>1
      <3>3. 2 * i <= 2 * n
        BY <3>2, TwiceWithin, ZenonT(60)
      <3> QED BY <1>2, <3>1, <3>3
    <2> QED BY <2>2, <2>3 DEF fromHexString
  <1> HIDE DEF hex
  <1>4. (Len(hex) + 1) \div 2 = n
    BY <1>1, <1>2, HalfOf
  <1>5. DOMAIN fromHexString(hex) = 1 .. n
    BY <1>4 DEF fromHexString
  <1>6. fromHexString(hex) = [i \in DOMAIN fromHexString(hex) |-> fromHexString(hex)[i]]
    BY DEF fromHexString
  <1>7. fromHexString(hex) = bytes
    BY <1>1, <1>3, <1>5, <1>6
  <1> QED BY <1>7 DEF hex
-------------------------------------------------------------------------------
(* Passwords, salts and rows.                                                *)

\* VerifyUserPassword recomputes the hash with the salt that was stored: it
\* accepts the password the row was made with and no other.
LEMMA RowFacts ==
    ASSUME NEW id, NEW u, NEW p, NEW s \in Salts
    PROVE  /\ Row(id, u, p, s).id = id /\ Row(id, u, p, s).username = u
           /\ Row(id, u, p, s).passwordHash = <<p, s>> /\ Row(id, u, p, s).passwordHash[1] = p
           /\ fromHexString(Row(id, u, p, s).salt) = s
           /\ \A q : VerifyUserPassword(Row(id, u, p, s), q) <=> q = p
  <1>1. fromHexString(toHexString(s)) = s
    BY HexRoundTrip, AccountsAssumption
  <1>2. /\ Row(id, u, p, s).id = id /\ Row(id, u, p, s).username = u
        /\ Row(id, u, p, s).passwordHash = <<p, s>> /\ Row(id, u, p, s).salt = toHexString(s)
    BY DEF Row, Argon2
  <1>3. \A q : VerifyUserPassword(Row(id, u, p, s), q) <=> <<q, s>> = <<p, s>>
    BY <1>1, <1>2 DEF VerifyUserPassword, Argon2
  <1>4. \A q : <<q, s>> = <<p, s>> <=> q = p
    OBVIOUS
  <1>5. <<p, s>>[1] = p
    OBVIOUS
  <1> QED BY <1>1, <1>2, <1>3, <1>4, <1>5

\* Every User has those parts.
LEMMA UserFacts ==
    ASSUME NEW r \in Users
    PROVE  /\ r.id \in Nat /\ r.username \in Usernames /\ r.passwordHash \in Passwords \X Salts
           /\ fromHexString(r.salt) \in Salts
           /\ \A q : VerifyUserPassword(r, q) <=> q = r.passwordHash[1]
  <1>1. PICK id \in Nat, u \in Usernames, p \in Passwords, s \in Salts : r = Row(id, u, p, s)
    BY DEF Users
  <1> QED BY <1>1, RowFacts

\* Requests that were parsed differ from the other two.
LEMMA QueryFacts ==
    /\ NoRequest \notin Requests /\ Malformed \notin Requests /\ NoRequest # Malformed
    /\ \A q \in Requests : q.op \in {"create", "login"} /\ q.username \in Usernames /\ q.password \in Passwords
    /\ \A q \in Queries : q.op \in {"create", "login"} <=> q \in Requests
  <1>1. NoRequest.op = "none" /\ Malformed.op = "malformed"
    BY DEF NoRequest, Malformed
  <1>2. \A q \in Requests : q.op \in {"create", "login"} /\ q.username \in Usernames /\ q.password \in Passwords
    BY DEF Requests
  <1>3. NoRequest \notin Requests /\ Malformed \notin Requests /\ NoRequest # Malformed
    BY <1>1, <1>2
  <1> QED BY <1>1, <1>2, <1>3 DEF Queries
-------------------------------------------------------------------------------
(* What the steps have in common: the table only grows, ids are only drawn,  *)
(* and replies are only added.                                               *)

TableGrows ==
    /\ table \subseteq table' /\ table' \subseteq Users
    /\ serial' \in Nat \ {0} /\ 1 .. serial - 1 \subseteq 1 .. serial' - 1 /\ TableInv'
    /\ received' = received

\* What Append makes of a sequence.
LEMMA Appended ==
    ASSUME NEW S, NEW s \in Seq(S), NEW m \in S, NEW n \in Nat, n = Len(s), NEW z, z = Append(s, m)
    PROVE  /\ z \in Seq(S) /\ Len(z) \in Nat /\ Len(s) <= Len(z) /\ Len(z) = n + 1
           /\ \A i \in 1 .. n : z[i] = s[i]
           /\ z[n + 1] = m
           /\ \A i \in 1 .. Len(z) : i \in 1 .. n \/ i = n + 1
  BY AppendProperties

\* A reply that is true stays true.
LEMMA StaysTrue == ASSUME NEW m, IsTrue(m), table \subseteq table' PROVE IsTrue(m)'
  <1>1. \A u : Rows(u) \subseteq Rows(u)'
    BY DEF Rows
  <1> QED BY <1>1 DEF IsTrue, Succeeded, Rejects

\* The handlers of the other threads are not disturbed.
LEMMA OtherHandlers ==
    ASSUME NEW x \in Threads, Handler(x), Types, TableGrows,
           pc'[x] = pc[x], request'[x] = request[x], user'[x] = user[x],
           Len(replies') \in Nat, Len(replies) <= Len(replies')
    PROVE  Handler(x)'
  <1>1. Len(replies) \in Nat /\ request[x].since \in Nat
    BY LenProperties DEF Types
  <1>2. request'[x].since <= Len(replies')
    BY <1>1 DEF Handler
  <1>3. \A id : Object(x, id) => Object(x, id)'
    BY DEF Object
  <1>4. 1 .. serial - 1 \subseteq 1 .. serial' - 1
    BY DEF TableGrows
  <1>5. Rows(request[x].req.username) \subseteq Rows(request[x].req.username)'
    BY DEF Rows, TableGrows
  <1> QED BY <1>2, <1>3, <1>4, <1>5 DEF Handler

\* A handler goes on to its next label.
LEMMA MoveStep ==
    ASSUME IInv, NEW t \in Threads, pc[t] # "idle", TableGrows,
           NEW label \in Labels \ {"idle"}, pc' = [pc EXCEPT ![t] = label],
           NEW u \in Users \cup {NoUser}, user' = [user EXCEPT ![t] = u],
           request' = request, replies' = replies, Handler(t)'
    PROVE  IInv'
  <1> Types /\ CountInv /\ TableInv /\ RepliesInv /\ \A x \in Threads : Handler(x)
    BY DEF IInv
  <1>1. Types'
    BY DEF Types, TableGrows
  <1>2. CountInv'
    <2>1. Busy' = Busy
      BY DEF Busy, Types
    <2> QED BY <2>1 DEF CountInv, TableGrows
  <1>3. RepliesInv'
    <2>1. \A i \in 1 .. Len(replies) : IsTrue(replies[i])'
      BY StaysTrue DEF RepliesInv, TableGrows
    <2>2. \A i \in 1 .. Len(replies) : replies[i].since < i
      BY DEF RepliesInv
    <2>3. \A i, j \in 1 .. Len(replies) : LoginAfterCreate(i, j) => replies[j].message # "Failed_to_find_user"
      BY DEF RepliesInv
    <2>4. \A i, j \in 1 .. Len(replies) : LoginAfterCreate(i, j)' => LoginAfterCreate(i, j)
      BY DEF LoginAfterCreate
    <2> QED BY <2>1, <2>2, <2>3, <2>4, Zenon DEF RepliesInv
  <1>4. \A x \in Threads : Handler(x)'
    <2>1. Len(replies) \in Nat /\ Len(replies') = Len(replies)
      BY LenProperties DEF Types
    <2>2. ASSUME NEW x \in Threads \ {t} PROVE Handler(x)'
      <3>1. pc'[x] = pc[x] /\ user'[x] = user[x] /\ request'[x] = request[x]
        BY DEF Types
      <3> QED BY <2>1, <3>1, OtherHandlers
    <2> QED BY <2>2
  <1> QED BY <1>1, <1>2, <1>3, <1>4 DEF IInv, TableGrows

\* A handler ends with a reply that is true.  If the reply says that there is no
\* such user then no row had the username when the reply was made, and a
\* registration that was confirmed before the request was sent would have one.
LEMMA AnswerStep ==
    ASSUME IInv, NEW t \in Threads, pc[t] # "idle", TableGrows,
           NEW status \in {"ok", "bad_request"}, NEW message \in Texts,
           NEW token \in Usernames \cup {NoToken}, Reply(t, status, message, token),
           token # NoToken =>
              /\ request[t].req \in Requests /\ token = request[t].req.username
              /\ \E r \in Rows(token) : VerifyUserPassword(r, request[t].req.password),
           message = "already_exist" => Rows(request[t].req.username) # {},
           message = "Wrong_username_or_password" => Rejects(request[t].req),
           message = "Failed_to_find_user" => Rows(request[t].req.username) = {}
    PROVE  IInv'
  <1> Types /\ CountInv /\ TableInv /\ RepliesInv /\ \A x \in Threads : Handler(x)
    BY DEF IInv
  <1>0. PICK n \in Nat : n = Len(replies)
    BY LenProperties DEF Types
  <1>1. PICK m \in Replies :
           /\ m.request = request[t].req /\ m.since = request[t].since /\ m.message = message
           /\ m.token = token /\ replies' = Append(replies, m)
    <2>1. request[t].req \in Queries /\ request[t].since \in Nat
      BY DEF Types
    <2> DEFINE m == [request |-> request[t].req, since |-> request[t].since,
                     status |-> status, message |-> message, token |-> token]
    <2>2. m \in Replies
      BY <2>1 DEF Replies
    <2>3. replies' = Append(replies, m)
      BY DEF Reply
    <2> QED BY <2>2, <2>3
  <1>2. /\ pc' = [pc EXCEPT ![t] = "idle"]
        /\ request' = [request EXCEPT ![t] = [req |-> NoRequest, since |-> 0]]
        /\ user' = [user EXCEPT ![t] = NoUser]
    BY DEF Reply, Goto
  <1>3. /\ replies' \in Seq(Replies) /\ Len(replies') = n + 1
        /\ \A i \in 1 .. n : replies'[i] = replies[i]
        /\ replies'[n + 1] = m
        /\ Len(replies') \in Nat /\ Len(replies) <= Len(replies')
        /\ \A i \in 1 .. Len(replies') : i \in 1 .. n \/ i = n + 1
    <2>1. replies \in Seq(Replies)
      BY DEF Types
    <2> QED BY <1>0, <1>1, <2>1, Appended
  <1>4. \A i \in 1 .. Len(replies') : i \in 1 .. n \/ i = n + 1
    BY <1>3
  <1>5. m.since \in Nat /\ m.since <= n
    BY <1>0, <1>1 DEF Types, Handler
  <1>6. Types'
    <2>1. [req |-> NoRequest, since |-> 0] \in [req : Queries, since : Nat]
      BY DEF Queries
    <2>2. request' \in [Threads -> [req : Queries, since : Nat]]
      BY <1>2, <2>1 DEF Types
    <2>3. pc' \in [Threads -> Labels] /\ user' \in [Threads -> Users \cup {NoUser}]
      BY <1>2 DEF Types, Labels
    <2> QED BY <1>3, <2>2, <2>3 DEF Types, TableGrows
  <1>7. CountInv'
    <2>1. Busy' = Busy \ {t} /\ t \in Busy
      BY <1>2 DEF Busy, Types
    <2>2. IsFiniteSet(Busy \ {t}) /\ Cardinality(Busy \ {t}) = Cardinality(Busy) - 1
          /\ Cardinality(Busy) \in Nat
      BY <2>1, FS_RemoveElement, FS_CardinalityType DEF CountInv
    <2>3. n + Cardinality(Busy) = received /\ received' = received
      BY <1>0 DEF CountInv, TableGrows
    <2>4. IsFiniteSet(Busy)'
      BY <2>1, <2>2
    <2>5. Len(replies') + Cardinality(Busy') = received'
      <3>1. PICK k \in Nat : k = Cardinality(Busy)
        BY <2>2
      <3>2. n + 1 + (k - 1) = n + k
        BY <1>0, <3>1
      <3>3. Len(replies') = n + 1 /\ Cardinality(Busy') = k - 1 /\ received' = n + k
        BY <1>3, <2>1, <2>2, <2>3, <3>1
      <3> QED BY <3>2, <3>3
    <2> QED BY <2>4, <2>5 DEF CountInv
  <1>8. IsTrue(m)'
    <2>1. IsTrue(m)
      BY <1>1 DEF IsTrue, Succeeded
    <2> QED BY <2>1, StaysTrue DEF TableGrows
  <1>9. ASSUME NEW i \in 1 .. Len(replies') PROVE replies'[i].since < i /\ IsTrue(replies[i])'
    <2>1. CASE i \in 1 .. n
      <3>1. replies[i].since < i /\ IsTrue(replies[i])
        BY <1>0, <2>1 DEF RepliesInv
      <3>2. PICK r : r = replies[i] /\ r = replies'[i]
        BY <1>3, <2>1
      <3>3. IsTrue(r)'
        BY <3>1, <3>2, StaysTrue DEF TableGrows
      <3>4. IsTrue(replies[i])'
        BY <3>2, <3>3
      <3>5. r.since < i
        BY <3>1, <3>2, Zenon
      <3> QED BY <3>2, <3>4, <3>5, Zenon
    <2>2. CASE i = n + 1
      <3>1. m.since < n + 1
        BY <1>0, <1>5
      <3>2. replies'[i] = m
        BY <1>3, <2>2
      <3>3. IsTrue(replies[i])'
        BY <1>8, <3>2
      <3> QED BY <2>2, <3>1, <3>2, <3>3, Zenon
    <2> QED BY <1>4, <2>1, <2>2
  <1>10. ASSUME NEW i \in 1 .. Len(replies'), NEW j \in 1 .. Len(replies'), LoginAfterCreate(i, j)'
         PROVE  replies'[j].message # "Failed_to_find_user"
    <2>0. i <= replies'[j].since /\ replies'[j].since < j
      BY <1>9, <1>10 DEF LoginAfterCreate
    <2>1. i \in 1 .. n
      <3>1. replies' \in Seq(Replies) /\ replies'[j] \in Replies
        BY <1>3, ElementOfSeq
      <3>2. PICK d \in Nat : d = replies'[j].since
        BY <3>1 DEF Replies
      <3>3. i <= d /\ d < j
        BY <2>0, <3>2
      <3>4. i \in Nat /\ i > 0 /\ j \in Nat /\ j <= n + 1
        BY <1>0, <1>4
      <3> QED BY <1>0, <3>2, <3>3, <3>4
    <2>2. CASE j \in 1 .. n
      <3>1. LoginAfterCreate(i, j)
        BY <1>3, <1>10, <2>1, <2>2 DEF LoginAfterCreate
      <3> QED BY <1>0, <1>3, <2>1, <2>2, <3>1 DEF RepliesInv
    <2>3. CASE j = n + 1
      <3>1. Succeeded(replies[i]) /\ m.request = [replies[i].request EXCEPT !.op = "login"]
        BY <1>3, <1>10, <2>1, <2>3 DEF LoginAfterCreate
      <3>2. replies[i].request \in Requests /\ Rows(replies[i].request.username) # {}
        BY <1>0, <2>1, <3>1 DEF RepliesInv, IsTrue
      <3>3. m.request.username = replies[i].request.username
        BY <3>1, <3>2 DEF Requests
      <3> QED BY <1>1, <1>3, <2>3, <3>2, <3>3
    <2> QED BY <1>4, <2>2, <2>3
  <1>11. RepliesInv'
    BY <1>9, <1>10 DEF RepliesInv
  <1>12. Handler(t)'
    <2>1. pc'[t] = "idle" /\ request'[t].req = NoRequest /\ request'[t].since = 0
      BY <1>2 DEF Types
    <2>2. 0 <= Len(replies')
      BY <1>3
    <2> QED BY <2>1, <2>2, QueryFacts DEF Handler
  <1>13. ASSUME NEW x \in Threads \ {t} PROVE Handler(x)'
    <2>1. pc'[x] = pc[x] /\ user'[x] = user[x] /\ request'[x] = request[x]
      BY <1>2 DEF Types
    <2>2. Len(replies') \in Nat /\ Len(replies) <= Len(replies')
      BY <1>3, Zenon
    <2> QED BY <2>1, <2>2, OtherHandlers
  <1> QED BY <1>6, <1>7, <1>11, <1>12, <1>13 DEF IInv, TableGrows
-------------------------------------------------------------------------------
(* The steps, one lemma per action.                                          *)

\* The table and the sequence stand still.
LEMMA SameTable ==
    ASSUME IInv, UNCHANGED <<table, serial, received>>
    PROVE  TableGrows
  BY DEF IInv, Types, TableInv, TableGrows

\* An error is reported: the reply promises nothing, unless it says that there
\* is no such user.
LEMMA FailureStep ==
    ASSUME IInv, NEW t \in Threads, pc[t] # "idle", TableGrows,
           NEW message \in Texts, Failure(t, message),
           message = "already_exist" => Rows(request[t].req.username) # {},
           message = "Wrong_username_or_password" => Rejects(request[t].req),
           message = "Failed_to_find_user" => Rows(request[t].req.username) = {}
    PROVE  IInv'
  BY AnswerStep DEF Failure

LEMMA ReceiveStep ==
    ASSUME IInv, NEW t \in Threads, NEW r \in Requests \cup {Malformed}, Receive(t, r)
    PROVE  IInv'
  <1> Types /\ CountInv /\ TableInv /\ RepliesInv /\ \A x \in Threads : Handler(x)
    BY DEF IInv
  <1> DEFINE label == IF r = Malformed THEN "parse" ELSE IF r.op = "create" THEN "hash" ELSE "lookup"
  <1>1. /\ pc[t] = "idle" /\ pc' = [pc EXCEPT ![t] = label]
        /\ request' = [request EXCEPT ![t] = [req |-> r, since |-> Len(replies)]]
        /\ table' = table /\ serial' = serial /\ user' = user /\ replies' = replies
    BY DEF Receive, Goto
  <1>2. received \in Nat /\ received < MaxRequests /\ received' = received + 1
    BY DEF Receive, Types
  <1>3. label \in {"parse", "hash", "lookup"} /\ Len(replies) \in Nat
    BY LenProperties DEF Types
  <1>4. Types'
    <2>1. [req |-> r, since |-> Len(replies)] \in [req : Queries, since : Nat]
      BY <1>3 DEF Queries
    <2>2. request' \in [Threads -> [req : Queries, since : Nat]]
      BY <1>1, <2>1 DEF Types
    <2>3. pc' \in [Threads -> Labels]
      BY <1>1, <1>3 DEF Types, Labels
    <2>4. received' \in 0 .. MaxRequests
      BY <1>2, AccountsAssumption
    <2> QED BY <1>1, <2>2, <2>3, <2>4 DEF Types
  <1>5. CountInv'
    <2>1. Busy' = Busy \cup {t} /\ t \notin Busy
      BY <1>1, <1>3 DEF Busy, Types
    <2>2. IsFiniteSet(Busy \cup {t}) /\ Cardinality(Busy \cup {t}) = Cardinality(Busy) + 1
          /\ Cardinality(Busy) \in Nat
      BY <2>1, FS_AddElement, FS_CardinalityType DEF CountInv
    <2>3. PICK k \in Nat, n \in Nat : k = Cardinality(Busy) /\ n = Len(replies) /\ n + k = received
      BY <1>3, <2>2 DEF CountInv
    <2>4. n + (k + 1) = (n + k) + 1
      BY <2>3
    <2>5. Len(replies') = n /\ Cardinality(Busy') = k + 1 /\ received' = (n + k) + 1
      BY <1>1, <1>2, <2>1, <2>2, <2>3
    <2>6. Len(replies') + Cardinality(Busy') = received'
      BY <2>4, <2>5
    <2>7. IsFiniteSet(Busy)'
      BY <2>1, <2>2
    <2> QED BY <2>6, <2>7 DEF CountInv
  <1>6. TableInv' /\ RepliesInv'
    BY <1>1 DEF TableInv, RepliesInv, LoginAfterCreate, IsTrue, Succeeded, Rejects, Rows
  <1>7. Handler(t)'
    <2>1. pc'[t] = label /\ request'[t].req = r /\ request'[t].since = Len(replies)
      BY <1>1 DEF Types
    <2>2. r = Malformed \/ r \in Requests
      OBVIOUS
    <2>3. Len(replies) <= Len(replies')
      BY <1>1, <1>3
    <2> QED BY <1>3, <2>1, <2>2, <2>3, QueryFacts DEF Handler
  <1>8. ASSUME NEW x \in Threads \ {t} PROVE Handler(x)'
    <2>1. pc'[x] = pc[x] /\ request'[x] = request[x]
      BY <1>1 DEF Types
    <2> QED BY <1>1, <2>1 DEF Handler, Object, Rows
  <1> QED BY <1>4, <1>5, <1>6, <1>7, <1>8 DEF IInv

LEMMA ParseThrowsStep ==
    ASSUME IInv, NEW t \in Threads, ParseThrows(t)
    PROVE  IInv'
  <1>1. TableGrows /\ pc[t] # "idle"
    BY SameTable DEF ParseThrows
  <1>2. CASE Failure(t, "Invalid_JSON_format")
    BY <1>1, <1>2, FailureStep DEF Texts
  <1>3. CASE Reply(t, "ok", "", NoToken)
    BY <1>1, <1>3, AnswerStep DEF Texts
  <1> QED BY <1>2, <1>3 DEF ParseThrows

LEMMA HashPasswordStep ==
    ASSUME IInv, NEW t \in Threads, HashPassword(t)
    PROVE  IInv'
  <1> Types /\ Handler(t)
    BY DEF IInv
  <1>1. PICK s \in Salts :
           user' = [user EXCEPT ![t] = Row(0, request[t].req.username, request[t].req.password, s)]
    BY DEF HashPassword
  <1>2. pc[t] = "hash" /\ pc' = [pc EXCEPT ![t] = "lookup"] /\ request' = request /\ replies' = replies
    BY DEF HashPassword, Goto
  <1>3. TableGrows
    BY SameTable DEF HashPassword
  <1>4. request[t].req \in Requests /\ request[t].req.op = "create"
    BY <1>2, QueryFacts DEF Handler, Types
  <1>5. Row(0, request[t].req.username, request[t].req.password, s) \in Users
    BY <1>4, QueryFacts DEF Users
  <1>6. pc'[t] = "lookup" /\ user'[t] = Row(0, request[t].req.username, request[t].req.password, s)
    BY <1>1, <1>2 DEF Types
  <1>7. Object(t, 0)'
    BY <1>2, <1>6 DEF Object
  <1>8. Handler(t)'
    BY <1>2, <1>4, <1>6, <1>7, QueryFacts DEF Handler
  <1> QED BY <1>1, <1>2, <1>3, <1>5, <1>8, MoveStep DEF Labels

LEMMA HashThrowsStep ==
    ASSUME IInv, NEW t \in Threads, HashThrows(t)
    PROVE  IInv'
  BY SameTable, FailureStep DEF HashThrows, Texts

\* createUser refuses the username, or goes on; UserLogin goes on with the row,
\* or gives up.
LEMMA LookupFindsStep ==
    ASSUME IInv, NEW t \in Threads, LookupFinds(t)
    PROVE  IInv'
  <1> Types /\ Handler(t)
    BY DEF IInv
  <1>1. PICK r \in Rows(request[t].req.username) : LookupReturns(t, SuccessResult(r))
    BY DEF LookupFinds
  <1>2. IsSuccess(SuccessResult(r)) /\ GetResult(SuccessResult(r)) = r
    BY DEF IsSuccess, SuccessResult, GetResult
  <1>3. TableGrows /\ pc[t] = "lookup" /\ table' = table
    BY SameTable DEF LookupFinds
  <1>4. r \in Users
    BY DEF Rows, Types
  <1>5. CASE request[t].req.op = "create"
    <2>1. Failure(t, "already_exist")
      BY <1>1, <1>2, <1>5 DEF LookupReturns
    <2> QED BY <1>1, <1>3, <2>1, FailureStep DEF Texts
  <1>6. CASE request[t].req.op # "create"
    <2>1. /\ user' = [user EXCEPT ![t] = r] /\ pc' = [pc EXCEPT ![t] = "verify"]
          /\ request' = request /\ replies' = replies
      BY <1>1, <1>2, <1>6 DEF LookupReturns, Goto
    <2>2. pc'[t] = "verify" /\ user'[t] = r
      BY <2>1 DEF Types
    <2>3. r \in Rows(request[t].req.username)'
      BY <1>3, <2>1 DEF Rows
    <2>4. request[t].req.op = "login"
      BY <1>3, <1>6, QueryFacts DEF Handler, Types, Queries
    <2>5. Handler(t)'
      BY <1>3, <2>1, <2>2, <2>3, <2>4, QueryFacts DEF Handler
    <2> QED BY <1>3, <1>4, <2>1, <2>5, MoveStep DEF Labels
  <1> QED BY <1>5, <1>6

\* A lookup without a row: createUser goes on to persist its object.
LEMMA LookupEmptyStep ==
    ASSUME IInv, NEW t \in Threads, pc[t] = "lookup", UNCHANGED <<table, serial, received>>,
           NEW message \in Texts \ {"already_exist", "Wrong_username_or_password"}, LookupReturns(t, FailureResult(message)),
           message = "Failed_to_find_user" => Rows(request[t].req.username) = {}
    PROVE  IInv'
  <1> Types /\ Handler(t)
    BY DEF IInv
  <1>1. ~IsSuccess(FailureResult(message)) /\ GetErrorMessage(FailureResult(message)) = message
    BY DEF IsSuccess, FailureResult, GetErrorMessage
  <1>2. TableGrows
    BY SameTable
  <1>3. CASE request[t].req.op = "create"
    <2>1. pc' = [pc EXCEPT ![t] = "persist"] /\ request' = request /\ user' = user /\ replies' = replies
      BY <1>1, <1>3 DEF LookupReturns, Goto
    <2>2. pc'[t] = "persist"
      BY <2>1 DEF Types
    <2>3. Object(t, 0)'
      BY <1>3, <2>1 DEF Handler, Object
    <2>4. Handler(t)'
      BY <1>3, <2>1, <2>2, <2>3, QueryFacts DEF Handler
    <2>5. user[t] \in Users \cup {NoUser} /\ user' = [user EXCEPT ![t] = user[t]]
      BY <2>1 DEF Types
    <2> QED BY <1>2, <2>1, <2>4, <2>5, MoveStep DEF Labels
  <1>4. CASE request[t].req.op # "create"
    <2>1. Failure(t, message)
      BY <1>1, <1>4 DEF LookupReturns
    <2> QED BY <1>2, <2>1, FailureStep
  <1> QED BY <1>3, <1>4

LEMMA LookupFindsNothingStep ==
    ASSUME IInv, NEW t \in Threads, LookupFindsNothing(t)
    PROVE  IInv'
  BY LookupEmptyStep DEF LookupFindsNothing, Texts

LEMMA LookupThrowsStep ==
    ASSUME IInv, NEW t \in Threads, LookupThrows(t)
    PROVE  IInv'
  BY LookupEmptyStep DEF LookupThrows, Texts

\* Ids are drawn one after the other.
LEMMA DrawId == ASSUME NEW k \in Nat \ {0} PROVE k + 1 \in Nat \ {0} /\ 1 .. k - 1 \subseteq 1 .. (k + 1) - 1 /\ k \in 1 .. (k + 1) - 1
  OBVIOUS

LEMMA SerialGrows ==
    ASSUME IInv, serial' \in {serial, serial + 1}, UNCHANGED <<table, received>>
    PROVE  TableGrows
  <1> Types /\ TableInv
    BY DEF IInv
  <1>1. serial' \in Nat \ {0} /\ 1 .. serial - 1 \subseteq 1 .. serial' - 1
    <2>1. PICK k \in Nat \ {0} : k = serial
      BY DEF Types
    <2>2. serial' = k \/ serial' = k + 1
      BY <2>1
    <2> QED BY <2>1, <2>2, DrawId, Zenon
  <1>2. TableInv'
    BY <1>1 DEF TableInv
  <1> QED BY <1>1, <1>2 DEF TableGrows, Types

\* The commit makes the object of a handler visible.
LEMMA RowAppears ==
    ASSUME IInv, NEW t \in Threads, pc[t] = "commit", table' \in {table, table \cup {user[t]}},
           UNCHANGED <<serial, received>>
    PROVE  TableGrows
  <1> Types /\ TableInv /\ Handler(t)
    BY DEF IInv
  <1>1. PICK id \in 1 .. serial - 1, s \in Salts :
           user[t] = Row(id, request[t].req.username, request[t].req.password, s)
    BY DEF Handler, Object
  <1>2. user[t] \in Users /\ user[t].id \in 1 .. serial - 1
    <2>1. request[t].req \in Requests
      BY QueryFacts DEF Handler, Types
    <2>2. id \in Nat
      BY <1>1
    <2> QED BY <1>1, <2>1, <2>2, QueryFacts, RowFacts DEF Users
  <1>3. TableInv' /\ table \subseteq table' /\ table' \subseteq Users
    BY <1>2 DEF TableInv, Types
  <1> QED BY <1>3 DEF TableGrows, Types

LEMMA PersistStep ==
    ASSUME IInv, NEW t \in Threads, Persist(t)
    PROVE  IInv'
  <1> Types /\ Handler(t)
    BY DEF IInv
  <1>1. /\ pc[t] = "persist" /\ pc' = [pc EXCEPT ![t] = "commit"] /\ request' = request /\ replies' = replies
        /\ user' = [user EXCEPT ![t].id = serial] /\ serial' = serial + 1 /\ UNCHANGED <<table, received>>
    BY DEF Persist, Goto
  <1>2. TableGrows
    BY <1>1, SerialGrows
  <1>3. request[t].req \in Requests /\ request[t].req.op = "create"
    BY <1>1, QueryFacts DEF Handler, Types
  <1>4. PICK s \in Salts : user[t] = Row(0, request[t].req.username, request[t].req.password, s)
    BY <1>1, <1>3 DEF Handler, Object
  <1> DEFINE u == Row(serial, request[t].req.username, request[t].req.password, s)
  <1>5. [user[t] EXCEPT !.id = serial] = u
    BY <1>4 DEF Row
  <1>6. user' = [user EXCEPT ![t] = u] /\ u \in Users
    <2>1. user' = [user EXCEPT ![t] = u]
      BY <1>1, <1>5
    <2>2. serial \in Nat
      BY DEF Types
    <2> QED BY <1>3, <2>1, <2>2, QueryFacts DEF Users
  <1>7. pc'[t] = "commit" /\ user'[t] = u
    BY <1>1, <1>6 DEF Types
  <1>8. serial \in 1 .. serial' - 1
    <2>1. PICK k \in Nat \ {0} : k = serial /\ serial' = k + 1
      BY <1>1 DEF Types
    <2> QED BY <2>1, DrawId, Zenon
  <1>9. \E id \in 1 .. serial' - 1 : Object(t, id)'
    <2>2. PICK k : k = serial
      OBVIOUS
    <2>3. Object(t, k)'
      BY <1>1, <1>7, <2>2 DEF Object
    <2> QED BY <1>8, <2>2, <2>3
  <1>10. Handler(t)'
    BY <1>1, <1>3, <1>7, <1>9, QueryFacts DEF Handler
  <1> QED BY <1>1, <1>2, <1>6, <1>10, MoveStep DEF Labels

LEMMA PersistThrowsStep ==
    ASSUME IInv, NEW t \in Threads, PersistThrows(t)
    PROVE  IInv'
  <1>1. Failure(t, "Failed_to_create_user")
    BY DEF PersistThrows, CreateReturns, IsSuccess, FailureResult, GetErrorMessage
  <1> QED BY <1>1, SerialGrows, FailureStep DEF PersistThrows, Texts

LEMMA CommitStep ==
    ASSUME IInv, NEW t \in Threads, Commit(t)
    PROVE  IInv'
  <1> Types /\ Handler(t)
    BY DEF IInv
  <1>1. /\ pc[t] = "commit" /\ table' = table \cup {user[t]} /\ pc' = [pc EXCEPT ![t] = "token"]
        /\ request' = request /\ user' = user /\ replies' = replies
    BY DEF Commit, CreateReturns, Goto, IsSuccess, SuccessResult
  <1>2. TableGrows
    BY <1>1, RowAppears DEF Commit
  <1>3. PICK id \in 1 .. serial - 1, s \in Salts :
           user[t] = Row(id, request[t].req.username, request[t].req.password, s)
    BY <1>1 DEF Handler, Object
  <1>4. user[t].username = request[t].req.username /\ VerifyUserPassword(user[t], request[t].req.password)
    BY <1>3, RowFacts
  <1>5. user[t] \in Rows(request[t].req.username)' /\ pc'[t] = "token"
    BY <1>1, <1>4 DEF Rows, Types
  <1>6. VerifyUserPassword(user[t], request[t].req.password)'
    BY <1>1, <1>4 DEF VerifyUserPassword
  <1>7. Handler(t)'
    BY <1>1, <1>5, <1>6, QueryFacts DEF Handler
  <1>8. user[t] \in Users \cup {NoUser} /\ user' = [user EXCEPT ![t] = user[t]]
    BY <1>1 DEF Types
  <1> QED BY <1>1, <1>2, <1>7, <1>8, MoveStep DEF Labels

LEMMA CommitThrowsStep ==
    ASSUME IInv, NEW t \in Threads, CommitThrows(t)
    PROVE  IInv'
  <1>1. Failure(t, "Failed_to_create_user")
    BY DEF CommitThrows, CreateReturns, IsSuccess, FailureResult, GetErrorMessage
  <1> QED BY <1>1, RowAppears, FailureStep DEF CommitThrows, Texts

LEMMA VerifyPasswordStep ==
    ASSUME IInv, NEW t \in Threads, VerifyPassword(t)
    PROVE  IInv'
  <1> Types /\ Handler(t)
    BY DEF IInv
  <1>1. TableGrows /\ pc[t] = "verify" /\ table' = table
    BY SameTable DEF VerifyPassword
  <1>2. CASE VerifyUserPassword(user[t], request[t].req.password)
    <2>1. pc' = [pc EXCEPT ![t] = "token"] /\ request' = request /\ user' = user /\ replies' = replies
      BY <1>2 DEF VerifyPassword, Goto
    <2>2. pc'[t] = "token" /\ user[t] \in Rows(request[t].req.username)'
      BY <1>1, <2>1 DEF Types, Handler, Rows
    <2>3. VerifyUserPassword(user[t], request[t].req.password)'
      BY <1>2, <2>1 DEF VerifyUserPassword
    <2>4. Handler(t)'
      BY <1>1, <2>1, <2>2, <2>3, QueryFacts DEF Handler
    <2>5. user[t] \in Users \cup {NoUser} /\ user' = [user EXCEPT ![t] = user[t]]
      BY <2>1 DEF Types
    <2> QED BY <1>1, <2>1, <2>4, <2>5, MoveStep DEF Labels
  <1>3. CASE ~VerifyUserPassword(user[t], request[t].req.password)
    <2>1. user[t] \in Rows(request[t].req.username) /\ user[t] \in Users
      BY <1>1 DEF Handler, Rows, Types
    <2>2. Rejects(request[t].req)
      BY <1>3, <2>1, UserFacts DEF Rejects
    <2>3. Failure(t, "Wrong_username_or_password")
      BY <1>3 DEF VerifyPassword
    <2> QED BY <1>1, <2>2, <2>3, FailureStep DEF Texts
  <1> QED BY <1>2, <1>3

LEMMA VerifyThrowsStep ==
    ASSUME IInv, NEW t \in Threads, VerifyThrows(t)
    PROVE  IInv'
  BY SameTable, FailureStep DEF VerifyThrows, Texts

LEMMA TokenThrowsStep ==
    ASSUME IInv, NEW t \in Threads, TokenThrows(t)
    PROVE  IInv'
  BY SameTable, FailureStep DEF TokenThrows, Texts

LEMMA CreateTokenStep ==
    ASSUME IInv, NEW t \in Threads, CreateToken(t)
    PROVE  IInv'
  <1> Types /\ Handler(t)
    BY DEF IInv
  <1>1. TableGrows /\ pc[t] = "token" /\ Reply(t, "ok", "", user[t].username)
    BY SameTable DEF CreateToken, Success
  <1>2. user[t] \in Rows(request[t].req.username) /\ VerifyUserPassword(user[t], request[t].req.password)
    BY <1>1 DEF Handler
  <1>3. user[t].username = request[t].req.username /\ user[t] \in Users
    BY <1>2 DEF Rows, Types
  <1>4. request[t].req \in Requests
    BY <1>1, QueryFacts DEF Handler, Types, Queries
  <1>5. user[t].username \in Usernames
    BY <1>3, UserFacts
  <1>6. PICK token \in Usernames : token = user[t].username
    BY <1>5
  <1> QED BY <1>1, <1>2, <1>3, <1>4, <1>6, AnswerStep DEF Texts

LEMMA InvInit == Init => IInv
  <1> SUFFICES ASSUME Init PROVE IInv
    OBVIOUS
  <1>1. Types
    <2>1. [req |-> NoRequest, since |-> 0] \in [req : Queries, since : Nat]
      BY DEF Queries
    <2>2. request \in [Threads -> [req : Queries, since : Nat]] /\ user \in [Threads -> Users \cup {NoUser}]
      BY <2>1 DEF Init
    <2>3. replies \in Seq(Replies)
      BY DEF Init
    <2> QED BY <2>2, <2>3, AccountsAssumption DEF Init, Types, Labels
  <1>2. CountInv
    <2>1. Busy = {}
      BY DEF Init, Busy
    <2>2. Len(replies) = 0 /\ received = 0
      BY DEF Init
    <2> QED BY <2>1, <2>2, FS_EmptySet DEF CountInv
  <1>3. TableInv /\ RepliesInv
    BY DEF Init, TableInv, RepliesInv
  <1>4. ASSUME NEW t \in Threads PROVE Handler(t)
    <2>1. pc[t] = "idle" /\ request[t].req = NoRequest /\ request[t].since = 0 /\ Len(replies) = 0
      BY DEF Init
    <2> QED BY <2>1, QueryFacts DEF Handler
  <1> QED BY <1>1, <1>2, <1>3, <1>4 DEF IInv

LEMMA InvStep == IInv /\ [Next]_vars => IInv'
  <1> SUFFICES ASSUME IInv, [Next]_vars PROVE IInv'
    OBVIOUS
  <1>1. CASE UNCHANGED vars
    <2>1. Types' /\ CountInv' /\ TableInv'
      BY <1>1 DEF vars, IInv, Types, CountInv, Busy, TableInv
    <2>2. RepliesInv'
      BY <1>1 DEF vars, IInv, RepliesInv, LoginAfterCreate, IsTrue, Succeeded, Rejects, Rows
    <2>3. \A t \in Threads : Handler(t)'
      BY <1>1 DEF vars, IInv, Handler, Object, Rows
    <2> QED BY <2>1, <2>2, <2>3 DEF IInv
  <1>2. ASSUME NEW t \in Threads, NEW r \in Requests \cup {Malformed}, Receive(t, r) PROVE IInv'
    BY <1>2, ReceiveStep
  <1>3. ASSUME NEW t \in Threads, HandlerStep(t) PROVE IInv'
    BY <1>3, ParseThrowsStep, HashPasswordStep, HashThrowsStep, LookupFindsStep, LookupFindsNothingStep,
       LookupThrowsStep, PersistStep, PersistThrowsStep, CommitStep, CommitThrowsStep, VerifyPasswordStep,
       VerifyThrowsStep, CreateTokenStep, TokenThrowsStep DEF HandlerStep
  <1> QED BY <1>1, <1>2, <1>3 DEF Next

LEMMA Invariant == Spec => []IInv
  BY InvInit, InvStep, PTL DEF Spec
-------------------------------------------------------------------------------
\* Types hold in every reachable state: a stored salt decodes to one that was
\* generated, an id is drawn before it is used, and no request is answered twice.
THEOREM TypeCorrect == Spec => []TypeOK
  <1>1. IInv => TypeOK
    <2> SUFFICES ASSUME IInv PROVE TypeOK
      OBVIOUS
    <2> Types /\ CountInv /\ TableInv /\ \A t \in Threads : Handler(t)
      BY DEF IInv
    <2>1. ASSUME NEW r \in table
          PROVE  /\ r.username \in Usernames /\ r.id \in 1 .. serial - 1
                 /\ fromHexString(r.salt) \in Salts /\ r.passwordHash \in Passwords \X Salts
      BY UserFacts DEF Types, TableInv
    <2>2. ASSUME NEW t \in Threads
          PROVE  /\ request[t].req \in Requests \cup {Malformed, NoRequest}
                 /\ pc[t] = "idle" <=> request[t].req = NoRequest
      BY DEF Types, Queries, Handler
    <2>3. Len(replies) <= received
      <3>1. Len(replies) \in Nat /\ Cardinality(Busy) \in Nat /\ Len(replies) + Cardinality(Busy) = received
        BY LenProperties, FS_CardinalityType DEF CountInv, Types
      <3> QED BY <3>1
    <2>4. serial \in Nat \ {0} /\ received \in 0 .. MaxRequests /\ pc \in [Threads -> Labels]
      BY DEF Types
    <2> QED BY <2>1, <2>2, <2>3, <2>4 DEF TypeOK
  <1> QED BY <1>1, Invariant, PTL

\* What UserController::CreateUser and UserLogin tell a client is true of the User
\* table, however the handlers of the io threads interleave: an account that was
\* confirmed is committed, a refusal has its reason, a token is given only for a
\* password that was registered, and a password is rejected only if another one
\* was.
THEOREM RepliesTrue == Spec => []RepliesAreTrue
  <1>1. IInv => RepliesAreTrue
    <2> SUFFICES ASSUME IInv PROVE RepliesAreTrue
      OBVIOUS
    <2> Types /\ RepliesInv
      BY DEF IInv
    <2>1. DOMAIN replies = 1 .. Len(replies)
      BY LenProperties DEF Types
    <2>2. \A i \in DOMAIN replies : IsTrue(replies[i])
      BY <2>1 DEF RepliesInv
    <2>3. SuccessIsDurable /\ RefusalIsTruthful /\ RejectionIsTruthful
      BY <2>2 DEF SuccessIsDurable, RefusalIsTruthful, RejectionIsTruthful, Rejects, IsTrue
    <2>4. ASSUME NEW i \in DOMAIN replies, Succeeded(replies[i])
          PROVE  /\ replies[i].token = replies[i].request.username
                 /\ \E r \in Rows(replies[i].request.username) : r.passwordHash[1] = replies[i].request.password
      <3>1. PICK r \in Rows(replies[i].request.username) : VerifyUserPassword(r, replies[i].request.password)
        BY <2>2, <2>4 DEF IsTrue
      <3>2. r \in Users
        BY DEF Rows, Types
      <3> QED BY <2>2, <2>4, <3>1, <3>2, UserFacts DEF IsTrue
    <2> QED BY <2>3, <2>4 DEF RepliesAreTrue, LoginIsSound
  <1> QED BY <1>1, Invariant, PTL

\* After a confirmed registration no login is told that there is no such user.
THEOREM FoundAfterCreateHolds == Spec => []FoundAfterCreate
  <1>1. IInv => FoundAfterCreate
    <2> SUFFICES ASSUME IInv PROVE FoundAfterCreate
      OBVIOUS
    <2>1. DOMAIN replies = 1 .. Len(replies)
      BY LenProperties DEF IInv, Types
    <2> QED BY <2>1 DEF IInv, RepliesInv, FoundAfterCreate
  <1> QED BY <1>1, Invariant, PTL
-------------------------------------------------------------------------------
(* One io thread, and lookups that do not fail.  Then nothing comes between  *)
(* the lookup of createUser and the commit, and a username has one row.      *)

Alone == (\A a, b \in Threads : a = b) /\ ~LookupFaults

\* The username that is about to be committed is free.
FreeInv == \A t \in Threads : pc[t] \in {"persist", "commit"} => Rows(request[t].req.username) = {}

\* No request draws more than one id.
DrawnInv == serial <= received + 1
IdsInv == \A t \in Threads : pc[t] \in {"parse", "hash", "lookup", "persist"} => serial <= received

\* The password of a confirmed registration is not refused.
Confirms(m, q) ==
    Succeeded(m) /\ m.request.op = "create" /\ q = [m.request EXCEPT !.op = "login"]
PasswordInv ==
    \A i, j \in 1 .. Len(replies) :
        LoginAfterCreate(i, j) => replies[j].message # "Wrong_username_or_password"

SerialInv == UniqueUsernames /\ FreeInv /\ DrawnInv /\ IdsInv /\ PasswordInv

LEMMA SerialMove ==
    ASSUME Alone, IInv, SerialInv, NEW t \in Threads, NEW label \in Labels, pc' = [pc EXCEPT ![t] = label],
           replies' = replies, UniqueUsernames', DrawnInv', IdsInv',
           label \in {"persist", "commit"} => Rows(request[t].req.username)' = {}
    PROVE  SerialInv'
  <1> Types
    BY DEF IInv
  <1>1. pc'[t] = label /\ \A x \in Threads : x = t
    BY DEF Types, Alone
  <1>2. FreeInv'
    BY <1>1 DEF FreeInv
  <1>3. PasswordInv'
    BY DEF SerialInv, PasswordInv, LoginAfterCreate
  <1> QED BY <1>2, <1>3 DEF SerialInv

LEMMA SerialAnswer ==
    ASSUME Alone, IInv, SerialInv, NEW t \in Threads, NEW status, NEW message, NEW token,
           Reply(t, status, message, token), IInv', UniqueUsernames', DrawnInv',
           message = "Wrong_username_or_password" => \A i \in 1 .. Len(replies) : ~Confirms(replies[i], request[t].req)
    PROVE  SerialInv'
  <1> Types /\ RepliesInv'
    BY DEF IInv
  <1>1. \A x \in Threads : pc'[x] = "idle"
    BY DEF Types, Alone, Reply, Goto
  <1>2. FreeInv' /\ IdsInv'
    BY <1>1 DEF FreeInv, IdsInv
  <1>3. PICK n \in Nat : n = Len(replies)
    BY LenProperties DEF Types
  <1>4. PICK m :
           /\ m.request = request[t].req /\ m.message = message /\ replies' = Append(replies, m)
    BY DEF Reply
  <1>5. /\ \A i \in 1 .. n : replies'[i] = replies[i]
        /\ replies'[n + 1] = m
        /\ \A i \in 1 .. Len(replies') : i \in 1 .. n \/ i = n + 1
    <2>1. replies \in Seq(Replies \cup {m}) /\ m \in Replies \cup {m}
      BY DEF Types
    <2> QED BY <1>3, <1>4, <2>1, Appended
  <1>6. ASSUME NEW i \in 1 .. Len(replies'), NEW j \in 1 .. Len(replies'), LoginAfterCreate(i, j)'
        PROVE  replies'[j].message # "Wrong_username_or_password"
    <2>1. i \in 1 .. n
      <3>1. PICK d : d = replies'[j].since /\ i <= d /\ d < j
        BY <1>6 DEF RepliesInv, LoginAfterCreate
      <3>2. d \in Nat
        <4>1. replies' \in Seq(Replies)
          BY DEF IInv, Types
        <4>2. replies'[j] \in Replies
          BY <4>1, ElementOfSeq
        <4> QED BY <3>1, <4>2 DEF Replies
      <3>3. i \in Nat /\ i > 0 /\ j \in Nat /\ j <= n + 1
        BY <1>3, <1>5
      <3> QED BY <1>3, <3>1, <3>2, <3>3
    <2>2. CASE j \in 1 .. n
      <3>1. LoginAfterCreate(i, j)
        BY <1>5, <1>6, <2>1, <2>2 DEF LoginAfterCreate
      <3> QED BY <1>3, <1>5, <2>1, <2>2, <3>1 DEF SerialInv, PasswordInv
    <2>3. CASE j = n + 1
      <3>1. Confirms(replies[i], request[t].req)
        BY <1>4, <1>5, <1>6, <2>1, <2>3 DEF LoginAfterCreate, Confirms
      <3>2. message # "Wrong_username_or_password"
        BY <1>3, <2>1, <3>1
      <3> QED BY <1>4, <1>5, <2>3, <3>2
    <2> QED BY <1>5, <2>2, <2>3
  <1>7. PasswordInv'
    BY <1>6 DEF PasswordInv
  <1> QED BY <1>2, <1>7 DEF SerialInv

\* What a step that leaves the table and the sequence alone keeps.
LEMMA SerialSame ==
    ASSUME SerialInv, UNCHANGED <<table, serial, received>>
    PROVE  UniqueUsernames' /\ DrawnInv' /\ \A u : Rows(u)' = Rows(u)
  BY DEF SerialInv, UniqueUsernames, DrawnInv, Rows

LEMMA SerialFailure ==
    ASSUME Alone, IInv, SerialInv, NEW t \in Threads, NEW message, Failure(t, message), IInv',
           message # "Wrong_username_or_password", UniqueUsernames', DrawnInv'
    PROVE  SerialInv'
  BY SerialAnswer DEF Failure

\* The row that is committed is the first of its username.
LEMMA RowIsUnique ==
    ASSUME IInv, SerialInv, NEW t \in Threads, pc[t] = "commit", table' \in {table, table \cup {user[t]}},
           UNCHANGED <<serial, received>>
    PROVE  UniqueUsernames' /\ DrawnInv'
  <1>1. PICK id \in 1 .. serial - 1, s \in Salts :
           user[t] = Row(id, request[t].req.username, request[t].req.password, s)
    BY DEF IInv, Handler, Object
  <1>2. user[t].username = request[t].req.username
    BY <1>1, RowFacts
  <1>3. \A r \in table : r.username # user[t].username
    BY <1>2 DEF SerialInv, FreeInv, Rows
  <1>4. UniqueUsernames'
    BY <1>3 DEF SerialInv, UniqueUsernames
  <1> QED BY <1>4 DEF SerialInv, DrawnInv

\* An id that is drawn before the commit is within the count of the requests.
LEMMA DrawOnce ==
    ASSUME IInv, SerialInv, NEW t \in Threads, pc[t] = "persist", serial' \in {serial, serial + 1},
           received' = received
    PROVE  DrawnInv'
  <1>1. PICK k \in Nat, n \in Nat : k = serial /\ n = received /\ k <= n
    BY DEF IInv, Types, SerialInv, IdsInv
  <1>2. k <= n + 1 /\ k + 1 <= n + 1
    BY <1>1
  <1>3. serial' = k \/ serial' = k + 1
    BY <1>1
  <1> QED BY <1>1, <1>2, <1>3, Zenon DEF DrawnInv

LEMMA SerialReceive ==
    ASSUME Alone, IInv, SerialInv, NEW t \in Threads, NEW r \in Requests \cup {Malformed}, Receive(t, r)
    PROVE  SerialInv'
  <1> DEFINE label == IF r = Malformed THEN "parse" ELSE IF r.op = "create" THEN "hash" ELSE "lookup"
  <1>1. /\ pc' = [pc EXCEPT ![t] = label] /\ label \in {"parse", "hash", "lookup"}
        /\ table' = table /\ serial' = serial /\ replies' = replies /\ received' = received + 1
    BY DEF Receive, Goto
  <1>2. PICK k \in Nat, n \in Nat : k = serial /\ n = received /\ k <= n + 1
    BY DEF IInv, Types, SerialInv, DrawnInv
  <1>3. k <= (n + 1) + 1
    BY <1>2
  <1>4. serial' <= received' /\ DrawnInv'
    BY <1>1, <1>2, <1>3, Zenon DEF DrawnInv
  <1>5. IdsInv' /\ UniqueUsernames'
    BY <1>1, <1>4 DEF IdsInv, SerialInv, UniqueUsernames
  <1> QED BY <1>1, <1>4, <1>5, SerialMove DEF Labels

LEMMA SerialLookup ==
    ASSUME Alone, IInv, SerialInv, NEW t \in Threads, IInv',
           LookupFinds(t) \/ LookupFindsNothing(t)
    PROVE  SerialInv'
  <1>1. UNCHANGED <<table, serial, received>> /\ pc[t] = "lookup"
    BY DEF LookupFinds, LookupFindsNothing
  <1>2. /\ UniqueUsernames' /\ DrawnInv' /\ \A u : Rows(u)' = Rows(u)
        /\ IdsInv'
    BY <1>1, SerialSame DEF Alone, SerialInv, IdsInv
  <1>3. ASSUME NEW r \in Rows(request[t].req.username), LookupReturns(t, SuccessResult(r)) PROVE SerialInv'
    <2>1. \/ Failure(t, "already_exist")
          \/ pc' = [pc EXCEPT ![t] = "verify"] /\ replies' = replies
      BY <1>3 DEF LookupReturns, IsSuccess, SuccessResult, Goto
    <2> QED BY <1>2, <2>1, SerialFailure, SerialMove DEF Labels
  <1>4. ASSUME Rows(request[t].req.username) = {}, LookupReturns(t, FailureResult("Failed_to_find_user"))
        PROVE  SerialInv'
    <2>1. \/ Failure(t, "Failed_to_find_user")
          \/ pc' = [pc EXCEPT ![t] = "persist"] /\ replies' = replies /\ request' = request
      BY <1>4 DEF LookupReturns, IsSuccess, FailureResult, GetErrorMessage, Goto
    <2>2. request' = request => Rows(request[t].req.username)' = {}
      BY <1>1, <1>4 DEF Rows
    <2> QED BY <1>2, <2>1, <2>2, SerialFailure, SerialMove DEF Labels
  <1> QED BY <1>3, <1>4 DEF LookupFinds, LookupFindsNothing

LEMMA SerialPersist ==
    ASSUME Alone, IInv, SerialInv, NEW t \in Threads, Persist(t)
    PROVE  SerialInv'
  <1>1. /\ pc[t] = "persist" /\ pc' = [pc EXCEPT ![t] = "commit"] /\ request' = request /\ replies' = replies
        /\ serial' = serial + 1 /\ table' = table /\ received' = received
    BY DEF Persist, Goto
  <1>2. DrawnInv'
    BY <1>1, DrawOnce
  <1>3. pc'[t] = "commit" /\ \A x \in Threads : x = t
    BY <1>1 DEF IInv, Types, Alone
  <1>4. IdsInv' /\ UniqueUsernames' /\ Rows(request[t].req.username)' = {}
    BY <1>1, <1>3 DEF IdsInv, SerialInv, UniqueUsernames, FreeInv, Rows
  <1> QED BY <1>1, <1>2, <1>4, SerialMove DEF Labels

LEMMA SerialCommit ==
    ASSUME Alone, IInv, SerialInv, NEW t \in Threads, Commit(t)
    PROVE  SerialInv'
  <1>1. /\ pc[t] = "commit" /\ pc' = [pc EXCEPT ![t] = "token"] /\ replies' = replies
        /\ table' = table \cup {user[t]} /\ UNCHANGED <<serial, received>>
    BY DEF Commit, CreateReturns, IsSuccess, SuccessResult, Goto
  <1>2. UniqueUsernames' /\ DrawnInv'
    BY <1>1, RowIsUnique
  <1>3. pc'[t] = "token" /\ \A x \in Threads : x = t
    BY <1>1 DEF IInv, Types, Alone
  <1>4. IdsInv'
    BY <1>3 DEF IdsInv
  <1> QED BY <1>1, <1>2, <1>4, SerialMove DEF Labels

\* The password is refused only if it is not that of the one row of its username.
LEMMA SerialVerify ==
    ASSUME Alone, IInv, SerialInv, NEW t \in Threads, IInv', VerifyPassword(t)
    PROVE  SerialInv'
  <1> Types /\ RepliesInv /\ Handler(t)
    BY DEF IInv
  <1>1. UNCHANGED <<table, serial, received>> /\ pc[t] = "verify"
    BY DEF VerifyPassword
  <1>2. UniqueUsernames' /\ DrawnInv'
    BY <1>1, SerialSame
  <1>3. CASE VerifyUserPassword(user[t], request[t].req.password)
    <2>1. pc' = [pc EXCEPT ![t] = "token"] /\ replies' = replies
      BY <1>3 DEF VerifyPassword, Goto
    <2>2. pc'[t] = "token" /\ \A x \in Threads : x = t
      BY <2>1 DEF Types, Alone
    <2>3. IdsInv'
      BY <2>2 DEF IdsInv
    <2> QED BY <1>2, <2>1, <2>3, SerialMove DEF Labels
  <1>4. CASE ~VerifyUserPassword(user[t], request[t].req.password)
    <2>1. Reply(t, "bad_request", "Wrong_username_or_password", NoToken)
      BY <1>4 DEF VerifyPassword, Failure
    <2>2. ASSUME NEW i \in 1 .. Len(replies), Confirms(replies[i], request[t].req) PROVE FALSE
      <3>1. replies[i].request \in Requests
        BY <2>2 DEF RepliesInv, IsTrue, Confirms
      <3>2. /\ request[t].req.username = replies[i].request.username
            /\ request[t].req.password = replies[i].request.password
        BY <2>2, <3>1 DEF Confirms, Requests
      <3>3. PICK r \in Rows(replies[i].request.username) : VerifyUserPassword(r, replies[i].request.password)
        BY <2>2 DEF RepliesInv, IsTrue, Confirms
      <3>4. user[t] \in Rows(request[t].req.username)
        BY <1>1 DEF Handler
      <3>5. r = user[t]
        BY <3>2, <3>3, <3>4 DEF Rows, SerialInv, UniqueUsernames
      <3> QED BY <1>4, <3>2, <3>3, <3>5
    <2> QED BY <1>2, <2>1, <2>2, SerialAnswer
  <1> QED BY <1>3, <1>4

LEMMA SerialStep == Alone /\ IInv /\ IInv' /\ SerialInv /\ [Next]_vars => SerialInv'
  <1> SUFFICES ASSUME Alone, IInv, IInv', SerialInv, [Next]_vars PROVE SerialInv'
    OBVIOUS
  <1>1. CASE UNCHANGED vars
    BY <1>1 DEF vars, SerialInv, UniqueUsernames, FreeInv, DrawnInv, IdsInv, PasswordInv, LoginAfterCreate,
                Succeeded, Rows
  <1>2. ASSUME NEW t \in Threads, NEW r \in Requests \cup {Malformed}, Receive(t, r) PROVE SerialInv'
    BY <1>2, SerialReceive
  <1>3. ASSUME NEW t \in Threads,
               ParseThrows(t) \/ HashThrows(t) \/ VerifyThrows(t) \/ CreateToken(t) \/ TokenThrows(t)
        PROVE  SerialInv'
    <2>1. UniqueUsernames' /\ DrawnInv'
      BY <1>3, SerialSame DEF ParseThrows, HashThrows, VerifyThrows, CreateToken, TokenThrows
    <2>2. CASE ParseThrows(t)
      BY <2>1, <2>2, SerialFailure, SerialAnswer DEF ParseThrows
    <2>3. CASE CreateToken(t)
      BY <2>1, <2>3, SerialAnswer DEF CreateToken, Success
    <2> QED BY <1>3, <2>1, <2>2, <2>3, SerialFailure DEF HashThrows, VerifyThrows, TokenThrows
  <1>4. ASSUME NEW t \in Threads, HashPassword(t) PROVE SerialInv'
    <2>1. /\ pc[t] = "hash" /\ pc' = [pc EXCEPT ![t] = "lookup"] /\ replies' = replies
          /\ UNCHANGED <<table, serial, received>>
      BY <1>4 DEF HashPassword, Goto
    <2>2. IdsInv'
      BY <2>1 DEF IdsInv, SerialInv, Alone
    <2> QED BY <2>1, <2>2, SerialSame, SerialMove DEF Labels
  <1>5. ASSUME NEW t \in Threads, LookupThrows(t) PROVE FALSE
    BY <1>5 DEF LookupThrows, Alone
  <1>6. ASSUME NEW t \in Threads, PersistThrows(t) PROVE SerialInv'
    <2>1. Failure(t, "Failed_to_create_user")
      BY <1>6 DEF PersistThrows, CreateReturns, IsSuccess, FailureResult, GetErrorMessage
    <2>2. DrawnInv'
      BY <1>6, DrawOnce DEF PersistThrows
    <2>3. UniqueUsernames'
      BY <1>6 DEF PersistThrows, SerialInv, UniqueUsernames
    <2> QED BY <2>1, <2>2, <2>3, SerialFailure
  <1>7. ASSUME NEW t \in Threads, CommitThrows(t) PROVE SerialInv'
    <2>1. Failure(t, "Failed_to_create_user")
      BY <1>7 DEF CommitThrows, CreateReturns, IsSuccess, FailureResult, GetErrorMessage
    <2>2. UniqueUsernames' /\ DrawnInv'
      BY <1>7, RowIsUnique DEF CommitThrows
    <2> QED BY <2>1, <2>2, SerialFailure
  <1>8. ASSUME NEW t \in Threads, HandlerStep(t) PROVE SerialInv'
    BY <1>3, <1>4, <1>5, <1>6, <1>7, <1>8, SerialLookup, SerialPersist, SerialCommit, SerialVerify DEF HandlerStep
  <1> QED BY <1>1, <1>2, <1>8 DEF Next

LEMMA SerialInvariant == ASSUME Alone PROVE Spec => []SerialInv
  <1>1. Init => SerialInv
    <2> SUFFICES ASSUME Init PROVE SerialInv
      OBVIOUS
    <2>1. UniqueUsernames /\ FreeInv /\ IdsInv
      BY DEF Init, UniqueUsernames, FreeInv, IdsInv
    <2>2. DrawnInv /\ PasswordInv
      BY DEF Init, DrawnInv, PasswordInv
    <2> QED BY <2>1, <2>2 DEF SerialInv
  <1>2. IInv /\ IInv' /\ SerialInv /\ [Next]_vars => SerialInv'
    BY SerialStep
  <1> QED BY <1>1, <1>2, Invariant, PTL DEF Spec

\* On one io thread, with lookups that do not fail, who was told that the account
\* was created can log in: hashing, the hex encoding of the salt, the one row of a
\* username and verification fit together.
THEOREM RegisteredLogsIn == ASSUME Alone PROVE Spec => []RegisteredCanLogin
  <1>1. IInv /\ SerialInv => RegisteredCanLogin
    <2> SUFFICES ASSUME IInv, SerialInv PROVE RegisteredCanLogin
      OBVIOUS
    <2>1. DOMAIN replies = 1 .. Len(replies)
      BY LenProperties DEF IInv, Types
    <2> QED BY <2>1 DEF IInv, RepliesInv, SerialInv, PasswordInv, RegisteredCanLogin
  <1> QED BY <1>1, Invariant, SerialInvariant, PTL

\* The account that a row is.
Account(r) == [id |-> r.id, username |-> r.username, password |-> r.passwordHash[1]]
Accounts == {Account(r) : r \in table}

\* A commit registers an account whose username is free.
LEMMA CommitRegisters ==
    ASSUME IInv, SerialInv, NEW t \in Threads, pc[t] = "commit", table' = table \cup {user[t]}
    PROVE  Registry!Next
  <1> Types /\ Handler(t)
    BY DEF IInv
  <1>1. PICK id \in 1 .. serial - 1, s \in Salts :
           user[t] = Row(id, request[t].req.username, request[t].req.password, s)
    BY DEF Handler, Object
  <1>2. PICK u \in Usernames, p \in Passwords : u = request[t].req.username /\ p = request[t].req.password
    <2>1. request[t].req \in Requests
      BY QueryFacts DEF Handler, Types
    <2> QED BY <2>1, QueryFacts
  <1>3. user[t].id = id /\ user[t].username = u /\ user[t].passwordHash[1] = p
    BY <1>1, <1>2, RowFacts
  <1>4. id \in 1 .. MaxRequests
    BY <1>1, AccountsAssumption DEF Types, SerialInv, DrawnInv
  <1>5. \A a \in Accounts : a.username # u
    <2>1. \A r \in table : r.username # u
      BY <1>2 DEF SerialInv, FreeInv, Rows
    <2> QED BY <2>1 DEF Accounts, Account
  <1>6. Account(user[t]) = [id |-> id, username |-> u, password |-> p]
    BY <1>3 DEF Account
  <1>7. Accounts' = Accounts \cup {[id |-> id, username |-> u, password |-> p]}
    BY <1>6 DEF Accounts
  <1>8. Registry!Register(u, p)
    BY <1>4, <1>5, <1>7 DEF Registry!Register, Accounts, Account
  <1> QED BY <1>8 DEF Registry!Next

\* On one io thread, with lookups that do not fail, the User table is an account
\* registry: a username is registered at most once, and an account is neither
\* changed nor removed.
THEOREM RegistryImplemented == ASSUME Alone PROVE Spec => ImplementsRegistry
  <1>1. Init => Registry!Init
    BY DEF Init, Registry!Init
  <1>2. IInv /\ SerialInv /\ [Next]_vars => [Registry!Next]_Accounts
    <2> SUFFICES ASSUME IInv, SerialInv, [Next]_vars PROVE [Registry!Next]_Accounts
      OBVIOUS
    <2>1. CASE table' = table
      BY <2>1 DEF Accounts
    <2>2. CASE table' # table
      <3>1. PICK t \in Threads : Commit(t) \/ CommitThrows(t)
        BY <2>2 DEF Next, HandlerStep, vars, Receive, ParseThrows, HashPassword, HashThrows, LookupFinds,
                    LookupFindsNothing, LookupThrows, Persist, PersistThrows, VerifyPassword, VerifyThrows,
                    CreateToken, TokenThrows
      <3>2. pc[t] = "commit" /\ table' = table \cup {user[t]}
        BY <2>2, <3>1 DEF Commit, CommitThrows
      <3> QED BY <3>2, CommitRegisters
    <2> QED BY <2>1, <2>2
  <1> QED BY <1>1, <1>2, Invariant, SerialInvariant, PTL DEF Spec, ImplementsRegistry, Registry!Spec, Accounts, Account
===============================================================================
