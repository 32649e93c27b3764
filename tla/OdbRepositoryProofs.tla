------------------------- MODULE OdbRepositoryProofs -------------------------
(***************************************************************************)
(* Proofs about OdbRepository, for any number of threads, ids and values   *)
(* and any bound on the calls: a confirmed Delete is final, reads return   *)
(* committed states, and the table is an EntityStore.                      *)
(***************************************************************************)
EXTENDS OdbRepository, TLAPS

\* What a thread has in hand, by the place it is at.
InHand ==
    \A t \in Threads :
        /\ pc[t] # "idle" => call[t].req \in Calls
        /\ pc[t] # "commit" => write[t] = NoWrite
        /\ pc[t] \in {"idle", "begin"} => ~txn[t] /\ loaded[t] = NoRows
        /\ pc[t] = "commit" =>
              /\ call[t].req.op = "Update" => write[t].kind = "update" /\ write[t].id = call[t].req.id
              /\ call[t].req.op = "Delete" => write[t].kind = "delete" /\ write[t].id = call[t].req.id
              /\ call[t].req.op = "Read" => call[t].req.id \in DOMAIN loaded[t]
        /\ call[t].since <= Len(results)

\* Transactions in progress have written different rows; an INSERT a new one,
\* an UPDATE or a DELETE one that is still there.
RowsApart ==
    \A t \in Threads :
        /\ write[t].kind = "insert" => write[t].id \notin DOMAIN table
        /\ write[t].kind \in {"update", "delete"} => write[t].id \in DOMAIN table
        /\ \A u \in Threads \ {t} :
              (write[t].kind # "none" /\ write[u].kind # "none") => write[t].id # write[u].id

Gone(i) == results[i].ok /\ results[i].call.op = "Delete"

\* The row of a confirmed Delete is not there, nobody is writing it and no call
\* made afterwards has read it; its id has been drawn and is not drawn again.
GoneForGood ==
    \A i \in DOMAIN results :
        /\ results[i].since <= Len(results)
        /\ Gone(i) =>
              /\ results[i].call.id \in 1 .. serial - 1
              /\ results[i].call.id \notin DOMAIN table
              /\ \A t \in Threads :
                    /\ write[t].kind # "none" => write[t].id # results[i].call.id
                    /\ i <= call[t].since => results[i].call.id \notin DOMAIN loaded[t]

IInv == TypeOK /\ InHand /\ RowsApart /\ GoneForGood /\ DeletedOnce /\ DeletedStaysDeleted
-------------------------------------------------------------------------------
\* A table over S is a function on a part of S.
LEMMA TablesMember ==
    ASSUME NEW S, NEW f
    PROVE  f \in Tables(S) <=> (DOMAIN f \subseteq S /\ f \in [DOMAIN f -> Values])
<1>1. ASSUME f \in Tables(S)
      PROVE  DOMAIN f \subseteq S /\ f \in [DOMAIN f -> Values]
  <2>1. PICK T \in SUBSET S : f \in [T -> Values]
    BY <1>1 DEF Tables
  <2> QED
    BY <2>1
<1>2. ASSUME DOMAIN f \subseteq S, f \in [DOMAIN f -> Values]
      PROVE  f \in Tables(S)
  BY <1>2 DEF Tables
<1> QED
  BY <1>1, <1>2

\* Drawing an id only adds tables.
LEMMA TablesGrow ==
    ASSUME NEW m \in Nat, NEW n \in Nat, m <= n
    PROVE  Tables(1 .. m - 1) \subseteq Tables(1 .. n - 1)
<1> SUFFICES ASSUME NEW f \in Tables(1 .. m - 1)
             PROVE  f \in Tables(1 .. n - 1)
  OBVIOUS
<1>1. DOMAIN f \subseteq 1 .. m - 1 /\ f \in [DOMAIN f -> Values]
  BY TablesMember
<1>2. DOMAIN f \subseteq 1 .. n - 1
  BY <1>1
<1> QED
  BY <1>1, <1>2, TablesMember

\* What the commit of t makes of the table, by what t has written.
LEMMA AppliedTable ==
    ASSUME TypeOK, NEW t \in Threads
    PROVE  /\ Applied(t) \in Tables(1 .. serial - 1)
           /\ write[t].kind = "none" => Applied(t) = table
           /\ write[t].kind = "delete" =>
                 /\ Applied(t) = [i \in DOMAIN table \ {write[t].id} |-> table[i]]
                 /\ DOMAIN Applied(t) = DOMAIN table \ {write[t].id}
           /\ write[t].kind \in {"insert", "update"} =>
                 /\ Applied(t) = [i \in DOMAIN table \cup {write[t].id} |->
                                     IF i = write[t].id THEN write[t].value ELSE table[i]]
                 /\ DOMAIN Applied(t) = DOMAIN table \cup {write[t].id}
                 /\ write[t].value \in Values
<1>1. write[t] \in Writes
  BY DEF TypeOK
<1>2. DOMAIN table \subseteq 1 .. serial - 1 /\ table \in [DOMAIN table -> Values]
  BY TablesMember DEF TypeOK
<1>3. CASE write[t].kind = "none"
  BY <1>3 DEF Applied, TypeOK
<1>4. CASE write[t].kind = "delete"
  <2>1. Applied(t) = [i \in DOMAIN table \ {write[t].id} |-> table[i]]
    BY <1>4 DEF Applied, WithoutRow
  <2>2. DOMAIN Applied(t) \subseteq 1 .. serial - 1 /\ Applied(t) \in [DOMAIN Applied(t) -> Values]
    BY <2>1, <1>2
  <2>3. Applied(t) \in Tables(1 .. serial - 1)
    BY <2>2, TablesMember
  <2> QED
    BY <2>1, <2>3, <1>4
<1>5. CASE write[t].kind \in {"insert", "update"}
  <2>1. Applied(t) = [i \in DOMAIN table \cup {write[t].id} |->
                         IF i = write[t].id THEN write[t].value ELSE table[i]]
    BY <1>5 DEF Applied, WithRow
  <2>2. write[t].id \in 1 .. serial - 1 /\ write[t].value \in Values
    BY <1>1, <1>5 DEF Writes, NoWrite
  <2>3. DOMAIN Applied(t) \subseteq 1 .. serial - 1 /\ Applied(t) \in [DOMAIN Applied(t) -> Values]
    BY <2>1, <2>2, <1>2
  <2>4. Applied(t) \in Tables(1 .. serial - 1)
    BY <2>3, TablesMember
  <2> QED
    BY <2>1, <2>2, <2>4, <1>5
<1> QED
  BY <1>1, <1>3, <1>4, <1>5 DEF Writes, NoWrite
-------------------------------------------------------------------------------
\* The end of an operation keeps the types.
LEMMA ReturnTypes ==
    ASSUME TypeOK, NEW t \in Threads, NEW ok \in BOOLEAN,
           NEW new \in Tables(1 .. serial - 1), Return(t, ok, new),
           serial' \in {serial, serial + 1}
    PROVE  TypeOK'
<1>1. serial \in Nat \ {0} /\ serial' \in Nat \ {0} /\ serial <= serial'
  BY DEF TypeOK
<1>2. Tables(1 .. serial - 1) \subseteq Tables(1 .. serial' - 1)
  BY <1>1, TablesGrow
<1>3. NoRows \in Tables(1 .. serial' - 1)
  BY TablesMember DEF NoRows
<1>4. table' \in Tables(1 .. serial' - 1)
  BY <1>2 DEF Return
<1>5. pc' \in [Threads -> Labels]
  BY DEF Return, Goto, TypeOK, Labels
<1>6. call' \in [Threads -> [req : Calls \cup {NoCall}, since : Nat]]
  BY DEF Return, TypeOK
<1>7. txn' \in [Threads -> BOOLEAN]
  BY DEF Return, TypeOK
<1>8. Writes \subseteq Writes' /\ NoWrite \in Writes'
  BY <1>1 DEF Writes
<1>9. write' \in [Threads -> Writes']
  BY <1>8 DEF Return, TypeOK
<1>10. loaded' \in [Threads -> Tables(1 .. serial' - 1)]
  BY <1>2, <1>3 DEF Return, TypeOK
<1>11. during' \in [Threads -> SUBSET Tables(1 .. serial' - 1)]
  BY <1>2 DEF Return, TypeOK
<1>12. results' \in Seq(Results')
  <2>1. Results \subseteq Results'
    BY <1>2 DEF Results
  <2> DEFINE r == [call |-> call[t].req, since |-> call[t].since, ok |-> ok,
                   loaded |-> loaded[t], during |-> during[t]]
  <2>2. r \in Results'
    BY <1>2 DEF Results, TypeOK
  <2>3. results \in Seq(Results')
    BY <2>1 DEF TypeOK
  <2>4. results' = Append(results, r)
    BY DEF Return
  <2> QED
    BY <2>2, <2>3, <2>4
<1> QED
  BY <1>1, <1>4, <1>5, <1>6, <1>7, <1>9, <1>10, <1>11, <1>12 DEF TypeOK

\* A statement that writes keeps the types.
LEMMA WriteTypes ==
    ASSUME TypeOK, NEW t \in Threads,
           serial' \in {serial, serial + 1}, write'[t] \in Writes',
           write' = [write EXCEPT ![t] = write'[t]], Goto(t, "commit"),
           table' = table, call' = call, txn' = txn,
           loaded' = loaded, during' = during, results' = results
    PROVE  TypeOK'
<1>1. serial \in Nat \ {0} /\ serial' \in Nat \ {0} /\ serial <= serial'
  BY DEF TypeOK
<1>2. Tables(1 .. serial - 1) \subseteq Tables(1 .. serial' - 1)
  BY <1>1, TablesGrow
<1>3. pc' \in [Threads -> Labels]
  BY DEF Goto, TypeOK, Labels
<1>4. Writes \subseteq Writes'
  BY <1>1 DEF Writes
<1>5. write' \in [Threads -> Writes']
  BY <1>4 DEF TypeOK
<1>6. Results \subseteq Results'
  BY <1>2 DEF Results
<1>7. results' \in Seq(Results')
  BY <1>6 DEF TypeOK
<1>8. table' \in Tables(1 .. serial' - 1) /\ loaded' \in [Threads -> Tables(1 .. serial' - 1)]
  BY <1>2 DEF TypeOK
<1>9. during' \in [Threads -> SUBSET Tables(1 .. serial' - 1)]
  BY <1>2 DEF TypeOK
<1> QED
  BY <1>1, <1>3, <1>5, <1>7, <1>8, <1>9 DEF TypeOK

\* A statement that reads keeps the types.
LEMMA ReadTypes ==
    ASSUME TypeOK, NEW t \in Threads, NEW rows \in Tables(1 .. serial - 1),
           loaded' = [loaded EXCEPT ![t] = rows], Goto(t, "commit"),
           UNCHANGED <<table, serial, call, txn, write, during, results>>
    PROVE  TypeOK'
<1>1. loaded' \in [Threads -> Tables(1 .. serial - 1)]
  BY DEF TypeOK
<1>2. pc' \in [Threads -> Labels]
  BY DEF Goto, TypeOK, Labels
<1> QED
  BY <1>1, <1>2 DEF TypeOK, Writes, Results

\* The program starts with a typed state.
LEMMA TypeInit == Init => TypeOK
<1> SUFFICES ASSUME Init PROVE TypeOK
  OBVIOUS
<1>1. serial \in Nat \ {0} /\ table \in Tables(1 .. serial - 1)
  BY RepositoryAssumption DEF Init
<1>2. NoRows \in Tables(1 .. serial - 1)
  BY TablesMember DEF NoRows
<1> QED
  BY <1>1, <1>2 DEF Init, TypeOK, Labels, Writes

\* Every step keeps the types.
LEMMA TypeStep == TypeOK /\ [Next]_vars => TypeOK'
<1> SUFFICES ASSUME TypeOK, [Next]_vars PROVE TypeOK'
  OBVIOUS
<1>1. CASE UNCHANGED vars
  BY <1>1 DEF vars, TypeOK, Writes, Results
<1>2. ASSUME NEW t \in Threads, Works(t) \/ Fails(t) \/ \E c \in Calls : Call(t, c)
      PROVE  TypeOK'
  <2> DEFINE c == call[t].req
  <2>0. serial \in Nat \ {0} /\ table \in Tables(1 .. serial - 1) /\ c \in Calls \cup {NoCall}
    BY DEF TypeOK
  <2>1. CASE Begin(t)
    BY <2>1 DEF Begin, Goto, TypeOK, Labels, Writes, Results
  <2>2. CASE BeginThrows(t)
    BY <2>2, <2>0, ReturnTypes DEF BeginThrows
  <2>3. CASE Persist(t)
    <3> DEFINE w == Insertion(serial, c.value)
    <3>1. w \in Writes'
      BY <2>0, <2>3 DEF Persist, Executing, Insertion, Writes, Calls, NoCall
    <3>2. /\ write'[t] \in Writes' /\ write' = [write EXCEPT ![t] = write'[t]]
         /\ Goto(t, "commit") /\ serial' \in {serial, serial + 1}
         /\ table' = table /\ call' = call /\ txn' = txn
         /\ loaded' = loaded /\ during' = during /\ results' = results
      BY <2>3, <3>1 DEF Persist, TypeOK
    <3> QED
      BY <3>2, WriteTypes
  <2>4. CASE Load(t)
    <3>1. [i \in {c.id} |-> table[i]] \in Tables(1 .. serial - 1)
      BY <2>0, <2>4, TablesMember DEF Load
    <3> QED
      BY <2>4, <3>1, ReadTypes DEF Load
  <2>5. CASE Update(t)
    <3> DEFINE w == Replacement(c.id, c.value)
    <3>1. DOMAIN table \subseteq 1 .. serial - 1
      BY <2>0, TablesMember
    <3>2. w \in Writes'
      BY <2>0, <2>5, <3>1 DEF Update, Executing, Replacement, Writes, Calls, NoCall
    <3>3. /\ write'[t] \in Writes' /\ write' = [write EXCEPT ![t] = write'[t]]
         /\ Goto(t, "commit") /\ serial' \in {serial, serial + 1}
         /\ table' = table /\ call' = call /\ txn' = txn
         /\ loaded' = loaded /\ during' = during /\ results' = results
      BY <2>5, <3>2 DEF Update, TypeOK
    <3> QED
      BY <3>3, WriteTypes
  <2>6. CASE Erase(t)
    <3> DEFINE w == Erasure(c.id)
    <3>1. DOMAIN table \subseteq 1 .. serial - 1
      BY <2>0, TablesMember
    <3>2. w \in Writes'
      BY <2>6, <3>1 DEF Erase, Erasure, Writes
    <3>3. /\ write'[t] \in Writes' /\ write' = [write EXCEPT ![t] = write'[t]]
         /\ Goto(t, "commit") /\ serial' \in {serial, serial + 1}
         /\ table' = table /\ call' = call /\ txn' = txn
         /\ loaded' = loaded /\ during' = during /\ results' = results
      BY <2>6, <3>2 DEF Erase, TypeOK
    <3> QED
      BY <3>3, WriteTypes
  <2>7. CASE Query(t)
    BY <2>7, <2>0, ReadTypes DEF Query
  <2>8. CASE NotPersistent(t)
    BY <2>8, <2>0, ReturnTypes DEF NotPersistent
  <2>9. CASE Commit(t)
    BY <2>9, AppliedTable, ReturnTypes DEF Commit
  <2>10. CASE ExecuteThrows(t)
    BY <2>10, <2>0, ReturnTypes DEF ExecuteThrows
  <2>11. CASE CommitThrows(t)
    BY <2>11, <2>0, AppliedTable, ReturnTypes DEF CommitThrows
  <2>12. ASSUME NEW d \in Calls, Call(t, d)
         PROVE  TypeOK'
    <3>1. call' \in [Threads -> [req : Calls \cup {NoCall}, since : Nat]]
      BY <2>12 DEF Call, TypeOK
    <3>2. during' \in [Threads -> SUBSET Tables(1 .. serial - 1)]
      BY <2>12, <2>0 DEF Call, TypeOK
    <3>3. pc' \in [Threads -> Labels]
      BY <2>12 DEF Call, Goto, TypeOK, Labels
    <3> QED
      BY <2>12, <3>1, <3>2, <3>3 DEF Call, TypeOK, Writes, Results
  <2> QED
    BY <1>2, <2>1, <2>2, <2>3, <2>4, <2>5, <2>6, <2>7, <2>8, <2>9, <2>10, <2>11, <2>12
    DEF Works, Fails
<1> QED
  BY <1>1, <1>2 DEF Next

\* Every variable of OdbRepository keeps its type: an id that a row, a pending
\* write or a result has was drawn from the sequence.
THEOREM TypeCorrect == Spec => []TypeOK
BY TypeInit, TypeStep, PTL DEF Spec
-------------------------------------------------------------------------------
Rest == InHand /\ RowsApart /\ GoneForGood /\ DeletedOnce /\ DeletedStaysDeleted

\* The end of an operation keeps the invariant: the row it may have changed is
\* nobody else's, and a Delete it confirms is the first of its row.
LEMMA ReturnKeeps ==
    ASSUME IInv, TypeOK', NEW t \in Threads, NEW ok \in BOOLEAN, NEW new,
           Return(t, ok, new), serial' \in {serial, serial + 1},
           new = table \/ (pc[t] = "commit" /\ new = Applied(t)),
           ok => pc[t] = "commit" /\ new = Applied(t)
    PROVE  Rest'
<1> DEFINE n == Len(results) + 1
           r == [call |-> call[t].req, since |-> call[t].since, ok |-> ok,
                 loaded |-> loaded[t], during |-> during[t]]
<1>1. /\ TypeOK /\ InHand /\ RowsApart /\ GoneForGood /\ DeletedOnce /\ DeletedStaysDeleted
      /\ serial \in Nat \ {0} /\ serial <= serial' /\ serial' \in Nat
  BY DEF IInv, TypeOK
<1>2. /\ results \in Seq(Results) /\ results' = Append(results, r)
      /\ Len(results') = n /\ n \in Nat /\ DOMAIN results' = 1 .. n /\ DOMAIN results = 1 .. n - 1
      /\ \A i \in DOMAIN results : results'[i] = results[i] /\ i < n
      /\ results'[n] = r
  BY <1>1 DEF TypeOK, Return
<1>3. /\ table' = new
      /\ \A u \in Threads : u # t => write'[u] = write[u] /\ call'[u] = call[u]
                                     /\ loaded'[u] = loaded[u] /\ pc'[u] = pc[u] /\ txn'[u] = txn[u]
      /\ write'[t] = NoWrite /\ call'[t] = [req |-> NoCall, since |-> 0]
      /\ loaded'[t] = NoRows /\ pc'[t] = "idle" /\ txn'[t] = FALSE
  BY <1>1 DEF Return, Goto, TypeOK
<1>a. \A i \in DOMAIN results : results[i].since \in Nat
  <2>1. \A i \in DOMAIN results : results[i] \in Results
    BY <1>2
  <2> QED
    BY <2>1 DEF Results
<1>b. \A u \in Threads : call[u].since \in Nat /\ call[u].since <= n - 1
  BY <1>1, <1>2 DEF InHand, TypeOK
<1>c. /\ results'[n].call = call[t].req /\ results'[n].since = call[t].since
      /\ results'[n].ok = ok /\ results'[n].loaded = loaded[t]
  BY <1>2
<1>d. DOMAIN results' = DOMAIN results \cup {n}
  BY <1>2
<1>4. \A id : (write[t].kind = "none" \/ id # write[t].id) => (id \in DOMAIN new <=> id \in DOMAIN table)
  <2>1. write[t].kind \in {"none", "insert", "update", "delete"}
    BY <1>1 DEF TypeOK, Writes, NoWrite
  <2> QED
    BY <2>1, <1>1, AppliedTable
<1>5. InHand'
  <2>1. \A u \in Threads : call'[u].since <= Len(results')
    BY <1>2, <1>3, <1>b
  <2> QED
    BY <2>1, <1>1, <1>3 DEF InHand
<1>6. RowsApart'
  BY <1>1, <1>3, <1>4 DEF RowsApart, NoWrite
<1>7. ok /\ call[t].req.op = "Delete" =>
         /\ write[t].kind = "delete" /\ write[t].id = call[t].req.id
         /\ call[t].req.id \in 1 .. serial - 1
         /\ call[t].req.id \in DOMAIN table /\ call[t].req.id \notin DOMAIN new
  <2> SUFFICES ASSUME ok, call[t].req.op = "Delete"
               PROVE  /\ write[t].kind = "delete" /\ write[t].id = call[t].req.id
                      /\ call[t].req.id \in 1 .. serial - 1
                      /\ call[t].req.id \in DOMAIN table /\ call[t].req.id \notin DOMAIN new
    OBVIOUS
  <2>1. write[t].kind = "delete" /\ write[t].id = call[t].req.id /\ new = Applied(t)
    BY <1>1 DEF InHand
  <2>2. write[t].id \in DOMAIN table /\ DOMAIN table \subseteq 1 .. serial - 1
    BY <1>1, <2>1, TablesMember DEF RowsApart, TypeOK
  <2>3. DOMAIN new = DOMAIN table \ {write[t].id}
    BY <1>1, <2>1, AppliedTable
  <2> QED
    BY <2>1, <2>2, <2>3
<1>8. GoneForGood'
  <2>1. ASSUME NEW i \in DOMAIN results
        PROVE  /\ results'[i].since <= Len(results')
               /\ results'[i].ok /\ results'[i].call.op = "Delete" =>
                     /\ results'[i].call.id \in 1 .. serial' - 1
                     /\ results'[i].call.id \notin DOMAIN table'
                     /\ \A u \in Threads :
                           /\ write'[u].kind # "none" => write'[u].id # results'[i].call.id
                           /\ i <= call'[u].since => results'[i].call.id \notin DOMAIN loaded'[u]
    <3>1. results'[i] = results[i] /\ results[i].since \in Nat
      BY <1>2, <1>a
    <3>2. results'[i].since <= Len(results')
      BY <3>1, <1>1, <1>2 DEF GoneForGood
    <3>3. ASSUME Gone(i)
          PROVE  /\ results[i].call.id \in 1 .. serial' - 1
                 /\ results[i].call.id \notin DOMAIN new
                 /\ \A u \in Threads :
                       /\ write'[u].kind # "none" => write'[u].id # results[i].call.id
                       /\ i <= call'[u].since => results[i].call.id \notin DOMAIN loaded'[u]
      <4>1. /\ results[i].call.id \in 1 .. serial - 1 /\ results[i].call.id \notin DOMAIN table
            /\ \A u \in Threads :
                  /\ write[u].kind # "none" => write[u].id # results[i].call.id
                  /\ i <= call[u].since => results[i].call.id \notin DOMAIN loaded[u]
        BY <3>3, <1>1 DEF GoneForGood
      <4>2. i \in Nat \ {0}
        BY <1>2
      <4> QED
        BY <4>1, <4>2, <1>1, <1>3, <1>4 DEF NoWrite
    <3> QED
      BY <3>1, <3>2, <3>3, <1>3 DEF Gone
  <2>2. /\ results'[n].since <= Len(results')
        /\ results'[n].ok /\ results'[n].call.op = "Delete" =>
              /\ results'[n].call.id \in 1 .. serial' - 1
              /\ results'[n].call.id \notin DOMAIN table'
              /\ \A u \in Threads :
                    /\ write'[u].kind # "none" => write'[u].id # results'[n].call.id
                    /\ n <= call'[u].since => results'[n].call.id \notin DOMAIN loaded'[u]
    <3>1. results'[n].since <= Len(results')
      BY <1>2, <1>b, <1>c
    <3>2. \A u \in Threads : ~(n <= call'[u].since)
      BY <1>2, <1>3, <1>b
    <3>3. ASSUME ok, call[t].req.op = "Delete"
          PROVE  /\ call[t].req.id \in 1 .. serial' - 1 /\ call[t].req.id \notin DOMAIN table'
                 /\ \A u \in Threads : write'[u].kind # "none" => write'[u].id # call[t].req.id
      BY <3>3, <1>1, <1>3, <1>7 DEF RowsApart, NoWrite
    <3> QED
      BY <3>1, <3>2, <3>3, <1>c
  <2> HIDE DEF n
  <2> QED
    BY <2>1, <2>2, <1>d DEF GoneForGood, Gone
<1>9. DeletedOnce'
  <2>1. ASSUME ok, call[t].req.op = "Delete", NEW i \in DOMAIN results, results[i].ok,
               results[i].call = call[t].req
        PROVE  FALSE
    BY <2>1, <1>1, <1>7 DEF GoneForGood, Gone
  <2> QED
    BY <2>1, <1>1, <1>2 DEF DeletedOnce
<1>10. DeletedStaysDeleted'
  <2> SUFFICES ASSUME NEW i \in DOMAIN results', NEW j \in DOMAIN results',
                      results'[i].ok, results'[i].call.op = "Delete",
                      results'[j].ok, i <= results'[j].since
               PROVE  /\ results'[j].call.op \in {"Read", "Update"} =>
                            results'[j].call.id # results'[i].call.id
                      /\ results'[i].call.id \notin DOMAIN results'[j].loaded
    BY DEF DeletedStaysDeleted
  <2>1. results'[j].since <= n - 1
    BY <1>1, <1>2 DEF GoneForGood, InHand
  <2>2. i \in DOMAIN results
    <3>1. results'[j].since \in Nat
      BY <1>2, <1>a, <1>b, <1>c, <1>d
    <3> QED
      BY <2>1, <1>2, <3>1
  <2>3. CASE j \in DOMAIN results
    BY <2>2, <2>3, <1>1, <1>2 DEF DeletedStaysDeleted
  <2>4. CASE j = n
    <3>1. Gone(i) /\ i <= call[t].since /\ results'[i] = results[i]
      BY <2>2, <2>4, <1>2 DEF Gone
    <3>2. results[i].call.id \notin DOMAIN loaded[t]
      BY <3>1, <2>2, <1>1 DEF GoneForGood
    <3>3. ok /\ pc[t] = "commit"
      BY <2>4, <1>2
    <3>4. call[t].req.op = "Update" => call[t].req.id # results[i].call.id
      <4>1. call[t].req.op = "Update" => write[t].kind = "update" /\ write[t].id = call[t].req.id
        BY <3>3, <1>1 DEF InHand
      <4> QED
        BY <4>1, <3>1, <2>2, <1>1 DEF GoneForGood
    <3>5. call[t].req.op = "Read" => call[t].req.id # results[i].call.id
      BY <3>2, <3>3, <1>1 DEF InHand
    <3> QED
      BY <3>1, <3>2, <3>4, <3>5, <2>4, <1>2
  <2> QED
    BY <2>3, <2>4, <1>2
<1> QED
  BY <1>5, <1>6, <1>8, <1>9, <1>10 DEF Rest

\* The properties of the results depend on nothing else.
LEMMA ResultsKept ==
    ASSUME DeletedOnce, DeletedStaysDeleted, results' = results
    PROVE  DeletedOnce' /\ DeletedStaysDeleted'
BY DEF DeletedOnce, DeletedStaysDeleted

\* A statement that writes a row which is no other transaction's, and either new
\* or stored, keeps the invariant.
LEMMA WriteKeeps ==
    ASSUME IInv, TypeOK', NEW t \in Threads, serial' \in {serial, serial + 1},
           pc[t] = "execute", Goto(t, "commit"),
           write' = [write EXCEPT ![t] = write'[t]],
           write'[t].kind # "none",
           write'[t].kind = "insert" => write'[t].id = serial,
           write'[t].kind \in {"update", "delete"} =>
               write'[t].id \in DOMAIN table /\ ~LockedFor(t, write'[t].id),
           call[t].req.op = "Update" => write'[t].kind = "update" /\ write'[t].id = call[t].req.id,
           call[t].req.op = "Delete" => write'[t].kind = "delete" /\ write'[t].id = call[t].req.id,
           call[t].req.op # "Read",
           table' = table, call' = call, txn' = txn,
           loaded' = loaded, during' = during, results' = results
    PROVE  Rest'
<1>1. /\ TypeOK /\ InHand /\ RowsApart /\ GoneForGood /\ DeletedOnce /\ DeletedStaysDeleted
      /\ serial \in Nat \ {0} /\ serial' \in Nat
  BY DEF IInv, TypeOK
<1>2. /\ \A u \in Threads : u # t => write'[u] = write[u] /\ pc'[u] = pc[u]
      /\ pc'[t] = "commit"
  BY <1>1 DEF TypeOK, Goto
<1>3. DOMAIN table \subseteq 1 .. serial - 1
  BY <1>1, TablesMember DEF TypeOK
<1>4. \A u \in Threads : write[u].kind # "none" => write[u].id \in 1 .. serial - 1
  BY <1>1 DEF TypeOK, Writes, NoWrite
<1>5. write'[t].kind \in {"insert", "update", "delete"}
  BY DEF TypeOK, Writes, NoWrite
<1>6. serial \notin 1 .. serial - 1
  BY <1>1
<1>7. InHand'
  BY <1>1, <1>2 DEF InHand
<1>8. RowsApart'
  BY <1>1, <1>2, <1>3, <1>4, <1>5, <1>6 DEF RowsApart, LockedFor
<1>9. GoneForGood'
  <2> SUFFICES ASSUME NEW i \in DOMAIN results, Gone(i)
               PROVE  /\ results[i].call.id \in 1 .. serial' - 1
                      /\ \A u \in Threads : write'[u].kind # "none" => write'[u].id # results[i].call.id
    BY <1>1 DEF GoneForGood, Gone
  <2>1. /\ results[i].call.id \in 1 .. serial - 1 /\ results[i].call.id \notin DOMAIN table
        /\ \A u \in Threads : write[u].kind # "none" => write[u].id # results[i].call.id
    BY <1>1 DEF GoneForGood
  <2>2. results[i].call.id \in 1 .. serial' - 1
    BY <2>1, <1>1
  <2> QED
    BY <2>1, <2>2, <1>2, <1>5, <1>6
<1> QED
  BY <1>1, <1>7, <1>8, <1>9, ResultsKept DEF Rest

\* A statement that reads committed rows keeps the invariant.
LEMMA ReadKeeps ==
    ASSUME IInv, NEW t \in Threads, pc[t] = "execute", Goto(t, "commit"),
           loaded' = [loaded EXCEPT ![t] = loaded'[t]],
           DOMAIN loaded'[t] \subseteq DOMAIN table,
           call[t].req.op \in {"Read", "ReadAll"},
           call[t].req.op = "Read" => call[t].req.id \in DOMAIN loaded'[t],
           table' = table, serial' = serial, call' = call, txn' = txn,
           write' = write, results' = results
    PROVE  Rest'
<1>1. TypeOK /\ InHand /\ RowsApart /\ GoneForGood /\ DeletedOnce /\ DeletedStaysDeleted
  BY DEF IInv
<1>2. /\ \A u \in Threads : u # t => loaded'[u] = loaded[u] /\ pc'[u] = pc[u]
      /\ pc'[t] = "commit"
  BY <1>1 DEF TypeOK, Goto
<1>3. InHand'
  BY <1>1, <1>2 DEF InHand
<1>4. RowsApart'
  BY <1>1 DEF RowsApart
<1>5. GoneForGood'
  BY <1>1, <1>2 DEF GoneForGood, Gone
<1> QED
  BY <1>1, <1>3, <1>4, <1>5, ResultsKept DEF Rest

\* IInv is inductive.
LEMMA Invariance == Spec => []IInv
<1>1. Init => IInv
  <2> SUFFICES ASSUME Init PROVE IInv
    OBVIOUS
  <2>1. TypeOK
    BY TypeInit
  <2>2. results = <<>> /\ DOMAIN results = {} /\ Len(results) = 0
    BY DEF Init
  <2>3. InHand /\ RowsApart
    BY <2>2 DEF Init, InHand, RowsApart, NoWrite
  <2>4. GoneForGood /\ DeletedOnce /\ DeletedStaysDeleted
    BY <2>2 DEF GoneForGood, DeletedOnce, DeletedStaysDeleted
  <2> QED
    BY <2>1, <2>3, <2>4 DEF IInv
<1>2. IInv /\ [Next]_vars => IInv'
  <2> SUFFICES ASSUME IInv, [Next]_vars PROVE IInv'
    OBVIOUS
  <2>0. TypeOK' /\ TypeOK /\ InHand /\ RowsApart /\ GoneForGood /\ DeletedOnce /\ DeletedStaysDeleted
    BY TypeStep DEF IInv
  <2>1. CASE UNCHANGED vars
    <3>1. InHand' /\ RowsApart' /\ GoneForGood'
      BY <2>0, <2>1 DEF vars, InHand, RowsApart, GoneForGood, Gone
    <3> QED
      BY <2>0, <2>1, <3>1, ResultsKept DEF vars, IInv
  <2>2. ASSUME NEW t \in Threads, Works(t) \/ Fails(t) \/ \E c \in Calls : Call(t, c)
        PROVE  Rest'
    <3>1. CASE Begin(t)
      <4>1. pc' = [pc EXCEPT ![t] = "execute"] /\ txn' = [txn EXCEPT ![t] = TRUE] /\ pc[t] = "begin"
        BY <3>1 DEF Begin, Goto
      <4>2. InHand'
        BY <3>1, <4>1, <2>0 DEF Begin, InHand, TypeOK
      <4>3. RowsApart' /\ GoneForGood'
        BY <3>1, <2>0 DEF Begin, RowsApart, GoneForGood, Gone
      <4> QED
        BY <3>1, <4>2, <4>3, <2>0, ResultsKept DEF Begin, Rest
    <3>2. CASE BeginThrows(t)
      BY <3>2, <2>0, ReturnKeeps DEF BeginThrows
    <3>3. CASE Persist(t)
      <4>1. /\ pc[t] = "execute" /\ call[t].req.op = "Create" /\ Goto(t, "commit")
            /\ write'[t].kind = "insert" /\ write'[t].id = serial
            /\ write' = [write EXCEPT ![t] = write'[t]] /\ serial' \in {serial, serial + 1}
            /\ table' = table /\ call' = call /\ txn' = txn
            /\ loaded' = loaded /\ during' = during /\ results' = results
        BY <3>3, <2>0 DEF Persist, Executing, Insertion, TypeOK
      <4> QED
        BY <4>1, <2>0, WriteKeeps
    <3>4. CASE Load(t)
      <4>1. /\ pc[t] = "execute" /\ call[t].req.op = "Read" /\ Goto(t, "commit")
            /\ loaded'[t] = [k \in {call[t].req.id} |-> table[k]] /\ call[t].req.id \in DOMAIN table
            /\ loaded' = [loaded EXCEPT ![t] = loaded'[t]] /\ write' = write
            /\ table' = table /\ serial' = serial /\ call' = call /\ txn' = txn /\ results' = results
        BY <3>4, <2>0 DEF Load, Executing, TypeOK
      <4>2. DOMAIN loaded'[t] = {call[t].req.id}
        BY <4>1
      <4> QED
        BY <4>1, <4>2, ReadKeeps
    <3>5. CASE Update(t)
      <4>1. /\ pc[t] = "execute" /\ call[t].req.op = "Update" /\ Goto(t, "commit")
            /\ write'[t].kind = "update" /\ write'[t].id = call[t].req.id
            /\ call[t].req.id \in DOMAIN table /\ ~LockedFor(t, call[t].req.id)
            /\ write' = [write EXCEPT ![t] = write'[t]] /\ serial' \in {serial, serial + 1}
            /\ table' = table /\ call' = call /\ txn' = txn
            /\ loaded' = loaded /\ during' = during /\ results' = results
        BY <3>5, <2>0 DEF Update, Executing, Replacement, TypeOK
      <4> QED
        BY <4>1, <2>0, WriteKeeps
    <3>6. CASE Erase(t)
      <4>1. /\ pc[t] = "execute" /\ call[t].req.op = "Delete" /\ Goto(t, "commit")
            /\ write'[t].kind = "delete" /\ write'[t].id = call[t].req.id
            /\ call[t].req.id \in DOMAIN table /\ ~LockedFor(t, call[t].req.id)
            /\ write' = [write EXCEPT ![t] = write'[t]] /\ serial' \in {serial, serial + 1}
            /\ table' = table /\ call' = call /\ txn' = txn
            /\ loaded' = loaded /\ during' = during /\ results' = results
        BY <3>6, <2>0 DEF Erase, Executing, Erasure, TypeOK
      <4> QED
        BY <4>1, <2>0, WriteKeeps
    <3>7. CASE Query(t)
      <4>1. /\ pc[t] = "execute" /\ call[t].req.op = "ReadAll" /\ Goto(t, "commit")
            /\ loaded'[t] = table
            /\ loaded' = [loaded EXCEPT ![t] = loaded'[t]] /\ write' = write
            /\ table' = table /\ serial' = serial /\ call' = call /\ txn' = txn /\ results' = results
        BY <3>7, <2>0 DEF Query, Executing, TypeOK
      <4> QED
        BY <4>1, ReadKeeps
    <3>8. CASE NotPersistent(t)
      BY <3>8, <2>0, ReturnKeeps DEF NotPersistent
    <3>9. CASE Commit(t)
      BY <3>9, <2>0, ReturnKeeps DEF Commit
    <3>10. CASE ExecuteThrows(t)
      BY <3>10, <2>0, ReturnKeeps DEF ExecuteThrows
    <3>11. CASE CommitThrows(t)
      BY <3>11, <2>0, ReturnKeeps DEF CommitThrows
    <3>12. ASSUME NEW d \in Calls, Call(t, d)
           PROVE  Rest'
      <4>1. /\ pc[t] = "idle" /\ pc' = [pc EXCEPT ![t] = "begin"]
            /\ call' = [call EXCEPT ![t] = [req |-> d, since |-> Len(results)]]
            /\ table' = table /\ serial' = serial /\ txn' = txn /\ write' = write
            /\ loaded' = loaded /\ results' = results /\ Len(results) \in Nat
        BY <3>12, <2>0 DEF Call, Goto, TypeOK
      <4>2. /\ \A u \in Threads : u # t => pc'[u] = pc[u] /\ call'[u] = call[u]
            /\ pc'[t] = "begin" /\ call'[t].req = d /\ call'[t].since = Len(results)
        BY <4>1, <2>0 DEF TypeOK
      <4>3. InHand'
        BY <4>1, <4>2, <2>0 DEF InHand
      <4>4. RowsApart'
        BY <4>1, <2>0 DEF RowsApart
      <4>5. loaded[t] = NoRows
        BY <4>1, <2>0 DEF InHand
      <4>6. GoneForGood'
        BY <4>1, <4>2, <4>5, <2>0 DEF GoneForGood, Gone, NoRows
      <4> QED
        BY <4>1, <4>3, <4>4, <4>6, <2>0, ResultsKept DEF Rest
    <3> QED
      BY <2>2, <3>1, <3>2, <3>3, <3>4, <3>5, <3>6, <3>7, <3>8, <3>9, <3>10, <3>11, <3>12
      DEF Works, Fails
  <2> QED
    BY <2>0, <2>1, <2>2 DEF Next, Rest, IInv
<1> QED
  BY <1>1, <1>2, PTL DEF Spec

\* For any number of threads: one row is deleted with success at most once, and
\* then no call made afterwards finds it.
THEOREM DeleteIsFinal == Spec => []DeletionIsFinal
<1>1. IInv => DeletionIsFinal
  BY DEF IInv, DeletionIsFinal
<1> QED
  BY <1>1, Invariance, PTL
-------------------------------------------------------------------------------
\* What a call has read fits one of the tables it overlapped with.
Fits(c, rows, tables) ==
    /\ c.op = "ReadAll" => rows \in tables
    /\ c.op = "Read" => \E tab \in tables :
          c.id \in DOMAIN tab /\ rows = [k \in {c.id} |-> tab[k]]

Overlap ==
    \A t \in Threads :
        /\ pc[t] # "idle" => table \in during[t]
        /\ pc[t] = "commit" => Fits(call[t].req, loaded[t], during[t])

\* A table more does not unfit what was read.
LEMMA FitsGrows ==
    ASSUME NEW c, NEW rows, NEW S, NEW T, S \subseteq T, Fits(c, rows, S)
    PROVE  Fits(c, rows, T)
BY DEF Fits

\* The end of an operation keeps the overlap of the others, and its own result
\* is current.
LEMMA ReturnCurrent ==
    ASSUME TypeOK, Overlap, ReadsAreCurrent, NEW t \in Threads, NEW ok, NEW new,
           Return(t, ok, new), ok => pc[t] = "commit"
    PROVE  Overlap' /\ ReadsAreCurrent'
<1> DEFINE r == [call |-> call[t].req, since |-> call[t].since, ok |-> ok,
                 loaded |-> loaded[t], during |-> during[t]]
           n == Len(results) + 1
<1>1. /\ table' = new /\ pc'[t] = "idle"
      /\ \A u \in Threads : u # t => pc'[u] = pc[u] /\ call'[u] = call[u] /\ loaded'[u] = loaded[u]
      /\ \A u \in Threads : (u # t /\ pc[u] # "idle") => during'[u] = during[u] \cup {new}
  BY DEF Return, Goto, TypeOK
<1>2. Overlap'
  <2> SUFFICES ASSUME NEW u \in Threads, pc'[u] # "idle"
               PROVE  /\ table' \in during'[u]
                      /\ pc'[u] = "commit" => Fits(call'[u].req, loaded'[u], during'[u])
    BY DEF Overlap, Fits
  <2>1. u # t /\ pc'[u] = pc[u] /\ during'[u] = during[u] \cup {new} /\ table' = new
    BY <1>1
  <2>2. pc[u] = "commit" => Fits(call[u].req, loaded[u], during[u] \cup {new})
    BY FitsGrows DEF Overlap
  <2> QED
    BY <1>1, <2>1, <2>2
<1>3. /\ results' = Append(results, r) /\ DOMAIN results' = DOMAIN results \cup {n}
      /\ \A i \in DOMAIN results : results'[i] = results[i]
      /\ results'[n] = r
  BY DEF TypeOK, Return
<1>4. ok => Fits(call[t].req, loaded[t], during[t])
  BY DEF Overlap
<1>5. \A i \in DOMAIN results : results[i].ok => Fits(results[i].call, results[i].loaded, results[i].during)
  BY DEF ReadsAreCurrent, Fits
<1>6. \A i \in DOMAIN results' :
         results'[i].ok => Fits(results'[i].call, results'[i].loaded, results'[i].during)
  BY <1>3, <1>4, <1>5
<1>7. ReadsAreCurrent'
  BY <1>6 DEF ReadsAreCurrent, Fits
<1> QED
  BY <1>2, <1>7

\* A Read or a ReadAll returns rows as they were committed at one moment of the
\* call, with any number of threads writing meanwhile.
THEOREM ReadsCurrent == Spec => []ReadsAreCurrent
<1>1. Init => Overlap /\ ReadsAreCurrent
  BY DEF Init, Overlap, ReadsAreCurrent
<1>2. TypeOK /\ Overlap /\ ReadsAreCurrent /\ [Next]_vars => Overlap' /\ ReadsAreCurrent'
  <2> SUFFICES ASSUME TypeOK, Overlap, ReadsAreCurrent, [Next]_vars
               PROVE  Overlap' /\ ReadsAreCurrent'
    OBVIOUS
  <2>1. ASSUME results' = results
        PROVE  ReadsAreCurrent'
    BY <2>1 DEF ReadsAreCurrent
  <2>2. CASE UNCHANGED vars
    BY <2>1, <2>2 DEF vars, Overlap, Fits
  <2>3. ASSUME NEW t \in Threads, Works(t) \/ Fails(t) \/ \E c \in Calls : Call(t, c)
        PROVE  Overlap' /\ ReadsAreCurrent'
    <3>1. CASE Begin(t) \/ Persist(t) \/ Update(t) \/ Erase(t)
      <4>1. /\ table' = table /\ during' = during /\ call' = call /\ loaded' = loaded /\ results' = results
            /\ pc[t] \in {"begin", "execute"} /\ pc'[t] \in {"execute", "commit"}
            /\ \A u \in Threads : u # t => pc'[u] = pc[u]
            /\ pc'[t] = "commit" => call[t].req.op \notin {"Read", "ReadAll"}
        BY <3>1 DEF Begin, Persist, Update, Erase, Executing, Goto, TypeOK
      <4>2. Overlap'
        BY <4>1 DEF Overlap, Fits
      <4> QED
        BY <4>1, <4>2, <2>1
    <3>2. CASE Load(t) \/ Query(t)
      <4>1. /\ table' = table /\ during' = during /\ call' = call /\ results' = results
            /\ pc[t] = "execute" /\ pc'[t] = "commit"
            /\ \A u \in Threads : u # t => pc'[u] = pc[u] /\ loaded'[u] = loaded[u]
        BY <3>2 DEF Load, Query, Executing, Goto, TypeOK
      <4>2. table \in during[t]
        BY <4>1 DEF Overlap
      <4>3. Fits(call[t].req, loaded'[t], during[t])
        BY <3>2, <4>2 DEF Load, Query, Executing, Fits, TypeOK
      <4>4. Overlap'
        BY <4>1, <4>2, <4>3 DEF Overlap
      <4> QED
        BY <4>1, <4>4, <2>1
    <3>3. CASE BeginThrows(t) \/ NotPersistent(t) \/ ExecuteThrows(t)
      BY <3>3, ReturnCurrent DEF BeginThrows, NotPersistent, ExecuteThrows
    <3>4. CASE Commit(t)
      BY <3>4, ReturnCurrent DEF Commit
    <3>5. CASE CommitThrows(t)
      BY <3>5, ReturnCurrent DEF CommitThrows
    <3>6. ASSUME NEW c \in Calls, Call(t, c)
          PROVE  Overlap' /\ ReadsAreCurrent'
      <4>1. /\ table' = table /\ loaded' = loaded /\ results' = results
            /\ pc'[t] = "begin" /\ during'[t] = {table}
            /\ \A u \in Threads : u # t => pc'[u] = pc[u] /\ call'[u] = call[u] /\ during'[u] = during[u]
        BY <3>6 DEF Call, Goto, TypeOK
      <4>2. Overlap'
        BY <4>1 DEF Overlap
      <4> QED
        BY <4>1, <4>2, <2>1
    <3> QED
      BY <2>3, <3>1, <3>2, <3>3, <3>4, <3>5, <3>6 DEF Works, Fails
  <2> QED
    BY <2>2, <2>3 DEF Next
<1> QED
  BY <1>1, <1>2, TypeCorrect, PTL DEF Spec
-------------------------------------------------------------------------------
\* When an operation returns, a row it had inserted is no longer reserved, and
\* the reserved rows of the others are.
LEMMA ReservedOnReturn ==
    ASSUME IInv, NEW t \in Threads, write' = [write EXCEPT ![t] = NoWrite]
    PROVE  /\ write[t].kind = "insert" =>
                 write[t].id \in Reserved /\ Reserved' = Reserved \ {write[t].id}
           /\ write[t].kind # "insert" => Reserved' = Reserved
<1>1. TypeOK /\ RowsApart
  BY DEF IInv
<1>2. /\ \A u \in Threads : u # t => write'[u] = write[u]
      /\ write'[t].kind = "none"
  BY <1>1 DEF TypeOK, NoWrite
<1>3. \A x : x \in Reserved <=> \E u \in Threads : write[u].kind = "insert" /\ x = write[u].id
  BY DEF Reserved
<1>4. \A x : x \in Reserved' <=> \E u \in Threads : write'[u].kind = "insert" /\ x = write'[u].id
  BY DEF Reserved
<1>5. CASE write[t].kind = "insert"
  <2>1. \A u \in Threads : (u # t /\ write[u].kind = "insert") => write[u].id # write[t].id
    BY <1>1, <1>5 DEF RowsApart
  <2>2. \A x : x \in Reserved' <=> x \in Reserved /\ x # write[t].id
    BY <1>2, <1>3, <1>4, <2>1
  <2>3. Reserved' = Reserved \ {write[t].id}
    BY <2>2
  <2> QED
    BY <1>3, <1>5, <2>3
<1>6. CASE write[t].kind # "insert"
  <2>1. \A x : x \in Reserved' <=> x \in Reserved
    BY <1>2, <1>3, <1>4, <1>6
  <2>2. Reserved' = Reserved
    BY <2>1
  <2> QED
    BY <1>6, <2>2
<1> QED
  BY <1>5, <1>6

\* Until its commit an operation has written nothing, so leaving it then changes
\* the store in nothing.
LEMMA ReturnStutters ==
    ASSUME IInv, NEW t \in Threads, NEW ok, pc[t] # "commit", Return(t, ok, table)
    PROVE  table' = table /\ Reserved' = Reserved
<1>1. write[t] = NoWrite
  BY DEF IInv, InHand
<1>2. write' = [write EXCEPT ![t] = NoWrite] /\ table' = table
  BY DEF Return
<1>3. write[t].kind # "insert"
  BY <1>1 DEF NoWrite
<1> QED
  BY <1>2, <1>3, ReservedOnReturn

\* A commit, as the database decides it, is a step of the store.
LEMMA CommitRefines ==
    ASSUME IInv, NEW t \in Threads, NEW ok, NEW new, Return(t, ok, new),
           new = table \/ new = Applied(t), serial' = serial
    PROVE  [Store!Next]_Store!vars
<1>1. TypeOK /\ RowsApart
  BY DEF IInv
<1>2. write' = [write EXCEPT ![t] = NoWrite] /\ table' = new
  BY DEF Return
<1>3. write[t].kind \in {"none", "insert", "update", "delete"}
  BY <1>1 DEF TypeOK, Writes, NoWrite
<1>4. CASE write[t].kind = "none"
  <2>1. table' = table /\ Reserved' = Reserved
    BY <1>1, <1>2, <1>4, AppliedTable, ReservedOnReturn
  <2> QED
    BY <2>1 DEF Store!vars
<1>5. CASE write[t].kind = "insert"
  <2>1. write[t].id \in Reserved /\ Reserved' = Reserved \ {write[t].id}
    BY <1>2, <1>5, ReservedOnReturn
  <2>2. CASE new = table
    <3>1. Store!GiveUp
      BY <2>1, <2>2, <1>2 DEF Store!GiveUp
    <3> QED
      BY <3>1 DEF Store!Next
  <2>3. CASE new = Applied(t)
    <3>1. /\ write[t].value \in Values
          /\ table' = [i \in DOMAIN table \cup {write[t].id} |->
                          IF i = write[t].id THEN write[t].value ELSE table[i]]
      BY <2>3, <1>1, <1>2, <1>5, AppliedTable
    <3>2. Store!Insert
      BY <2>1, <3>1 DEF Store!Insert
    <3> QED
      BY <3>2 DEF Store!Next
  <2> QED
    BY <2>2, <2>3
<1>6. CASE write[t].kind \in {"update", "delete"}
  <2>1. Reserved' = Reserved /\ write[t].id \in DOMAIN table
    BY <1>1, <1>2, <1>6, ReservedOnReturn DEF RowsApart
  <2>2. CASE new = table
    BY <2>1, <2>2, <1>2 DEF Store!vars
  <2>3. CASE new = Applied(t) /\ write[t].kind = "update"
    <3>1. /\ write[t].value \in Values
          /\ table' = [i \in DOMAIN table \cup {write[t].id} |->
                          IF i = write[t].id THEN write[t].value ELSE table[i]]
      BY <2>3, <1>1, <1>2, AppliedTable
    <3>2. DOMAIN table \cup {write[t].id} = DOMAIN table
      BY <2>1
    <3>3. table' = [table EXCEPT ![write[t].id] = write[t].value]
      <4>1. table \in [DOMAIN table -> Values]
        BY <1>1, TablesMember DEF TypeOK
      <4> QED
        BY <3>1, <3>2, <4>1
    <3>4. Store!Replace
      BY <2>1, <3>1, <3>3 DEF Store!Replace
    <3> QED
      BY <3>4 DEF Store!Next
  <2>4. CASE new = Applied(t) /\ write[t].kind = "delete"
    <3>1. table' = [i \in DOMAIN table \ {write[t].id} |-> table[i]]
      BY <2>4, <1>1, <1>2, AppliedTable
    <3>2. Store!Remove
      BY <2>1, <3>1 DEF Store!Remove
    <3> QED
      BY <3>2 DEF Store!Next
  <2> QED
    BY <1>6, <2>2, <2>3, <2>4
<1> QED
  BY <1>3, <1>4, <1>5, <1>6

\* The repository implements the store: whatever the interleaving of calls and
\* failures, rows change one at a time, only a stored row is replaced or removed
\* and no id comes back.
THEOREM Refinement == Spec => ImplementsEntityStore
<1>1. Init => Store!Init
  <2> SUFFICES ASSUME Init PROVE Store!Init
    OBVIOUS
  <2>1. serial \in Nat \ {0} /\ table \in UNION {[S -> Values] : S \in SUBSET (1 .. serial - 1)}
    BY RepositoryAssumption DEF Init, Tables
  <2>2. Reserved = {}
    BY DEF Init, Reserved, NoWrite
  <2> QED
    BY <2>1, <2>2 DEF Store!Init
<1>2. IInv /\ [Next]_vars => [Store!Next]_Store!vars
  <2> SUFFICES ASSUME IInv, [Next]_vars PROVE [Store!Next]_Store!vars
    OBVIOUS
  <2>0. TypeOK /\ InHand
    BY DEF IInv
  <2>1. CASE UNCHANGED vars
    BY <2>1 DEF vars, Store!vars, Reserved
  <2>2. ASSUME NEW t \in Threads, Works(t) \/ Fails(t) \/ \E c \in Calls : Call(t, c)
        PROVE  [Store!Next]_Store!vars
    <3>1. CASE Begin(t) \/ Load(t) \/ Query(t) \/ \E c \in Calls : Call(t, c)
      <4>1. table' = table /\ serial' = serial /\ write' = write
        BY <3>1 DEF Begin, Load, Query, Call
      <4> QED
        BY <4>1 DEF Store!vars, Reserved
    <3>2. CASE BeginThrows(t) \/ NotPersistent(t) \/ ExecuteThrows(t)
      <4>1. Return(t, FALSE, table) /\ pc[t] # "commit" /\ serial' \in {serial, serial + 1}
        BY <3>2 DEF BeginThrows, NotPersistent, ExecuteThrows
      <4>2. table' = table /\ Reserved' = Reserved
        BY <4>1, ReturnStutters
      <4>3. CASE serial' = serial
        BY <4>2, <4>3 DEF Store!vars
      <4>4. CASE serial' = serial + 1
        BY <4>2, <4>4 DEF Store!Next, Store!Draw
      <4> QED
        BY <4>1, <4>3, <4>4
    <3>3. CASE Persist(t)
      <4>1. /\ write' = [write EXCEPT ![t] = Insertion(serial, call[t].req.value)]
            /\ serial' = serial + 1 /\ table' = table /\ write[t].kind = "none"
        BY <3>3, <2>0 DEF Persist, Executing, InHand, NoWrite
      <4>2. /\ \A u \in Threads : u # t => write'[u] = write[u]
            /\ write'[t].kind = "insert" /\ write'[t].id = serial
        BY <4>1, <2>0 DEF TypeOK, Insertion
      <4>3. \A x : x \in Reserved' <=> x \in Reserved \cup {serial}
        BY <4>1, <4>2 DEF Reserved
      <4>4. Reserved' = Reserved \cup {serial}
        BY <4>3
      <4> QED
        BY <4>1, <4>4 DEF Store!Next, Store!Draw
    <3>4. CASE Update(t) \/ Erase(t)
      <4>1. /\ write' = [write EXCEPT ![t] = write'[t]] /\ write'[t].kind # "insert"
            /\ serial' = serial /\ table' = table /\ write[t].kind = "none"
        BY <3>4, <2>0 DEF Update, Erase, Executing, InHand, NoWrite, TypeOK, Replacement, Erasure
      <4>2. \A u \in Threads : u # t => write'[u] = write[u]
        BY <4>1, <2>0 DEF TypeOK
      <4>3. \A x : x \in Reserved' <=> x \in Reserved
        BY <4>1, <4>2 DEF Reserved
      <4>4. Reserved' = Reserved
        BY <4>3
      <4> QED
        BY <4>1, <4>4 DEF Store!vars
    <3>5. CASE Commit(t)
      BY <3>5, CommitRefines DEF Commit
    <3>6. CASE CommitThrows(t)
      BY <3>6, CommitRefines DEF CommitThrows
    <3> QED
      BY <2>2, <3>1, <3>2, <3>3, <3>4, <3>5, <3>6 DEF Works, Fails
  <2> QED
    BY <2>1, <2>2 DEF Next
<1> QED
  BY <1>1, <1>2, Invariance, PTL DEF Spec, ImplementsEntityStore, Store!Spec

===============================================================================
