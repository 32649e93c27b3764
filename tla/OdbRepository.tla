---------------------------- MODULE OdbRepository ----------------------------
(***************************************************************************)
(* src/app/Repositories/OdbRepository.h over the generated persistence     *)
(* code (src/app/Entities/odb/User-odb.cxx) and PostgreSQL.  Every         *)
(* operation is one transaction around one statement, on the thread of its *)
(* caller; whatever throws, the transaction object rolls back as it is     *)
(* unwound and a FailureResult is returned.                                *)
(*                                                                         *)
(* The database, which is external, isolates as READ COMMITTED does: a     *)
(* statement sees the rows committed when it starts, and an UPDATE or a    *)
(* DELETE waits for the transaction that has written its row.              *)
(***************************************************************************)
EXTENDS Naturals, FiniteSets, Sequences

CONSTANTS Threads,    \* callers
          Values,     \* the state of an entity apart from its id
          Ids,        \* ids callers ask for; 0 is that of an entity never stored
          MaxCalls,   \* bound: calls made
          MaxRows     \* bound: rows drawn before the program starts

ASSUME RepositoryAssumption ==
    /\ MaxCalls \in Nat /\ MaxRows \in Nat
    /\ Ids \subseteq Nat

VARIABLES
    table,     \* committed rows, a function from ids to values
    serial,    \* the sequence behind the id column
    pc,        \* where each thread is in its operation
    call,      \* the operation each thread is in, with its arguments
    txn,       \* odb::transaction::current() of each thread is set
    write,     \* the row version each transaction has written, not committed
    loaded,    \* rows each thread has read
    during,    \* auxiliary: tables committed since each thread's call began
    results    \* results returned, in order

vars == <<table, serial, pc, call, txn, write, loaded, during, results>>

Calls == [op : {"Create"}, id : {0}, value : Values]
    \cup [op : {"Read", "Delete"}, id : Ids]
    \cup [op : {"Update"}, id : Ids, value : Values]
    \cup {[op |-> "ReadAll"]}
NoCall == [op |-> "none"]

NoWrite == [kind |-> "none", id |-> 0]
Insertion(id, v) == [kind |-> "insert", id |-> id, value |-> v]
Replacement(id, v) == [kind |-> "update", id |-> id, value |-> v]
Erasure(id) == [kind |-> "delete", id |-> id]

NoRows == [i \in {} |-> 0]
Tables(S) == UNION {[T -> Values] : T \in SUBSET S}
WithRow(id, v) == [i \in DOMAIN table \cup {id} |-> IF i = id THEN v ELSE table[i]]
WithoutRow(id) == [i \in DOMAIN table \ {id} |-> table[i]]

\* The table once the transaction of t is committed.
Applied(t) ==
    CASE write[t].kind = "none"   -> table
      [] write[t].kind = "delete" -> WithoutRow(write[t].id)
      [] OTHER                    -> WithRow(write[t].id, write[t].value)

\* A row lock of PostgreSQL: another transaction has written the row.
LockedFor(t, id) == \E u \in Threads \ {t} : write[u].kind # "none" /\ write[u].id = id

Goto(t, label) == pc' = [pc EXCEPT ![t] = label]

\* The transaction of t ends, with `new' as the committed table, and its
\* operation returns; the calls in progress overlap with `new'.
Return(t, ok, new) ==
    /\ table' = new
    /\ during' = [u \in Threads |-> IF u = t \/ pc[u] = "idle" THEN {} ELSE during[u] \cup {new}]
    /\ txn' = [txn EXCEPT ![t] = FALSE]
    /\ write' = [write EXCEPT ![t] = NoWrite]
    /\ results' = Append(results, [call |-> call[t].req, since |-> call[t].since, ok |-> ok,
                                   loaded |-> loaded[t], during |-> during[t]])
    /\ call' = [call EXCEPT ![t] = [req |-> NoCall, since |-> 0]]
    /\ loaded' = [loaded EXCEPT ![t] = NoRows]
    /\ Goto(t, "idle")

Init ==
    /\ serial \in 1 .. MaxRows + 1 /\ table \in Tables(1 .. serial - 1)
    /\ pc = [t \in Threads |-> "idle"]
    /\ call = [t \in Threads |-> [req |-> NoCall, since |-> 0]]
    /\ txn = [t \in Threads |-> FALSE] /\ write = [t \in Threads |-> NoWrite]
    /\ loaded = [t \in Threads |-> NoRows] /\ during = [t \in Threads |-> {}]
    /\ results = <<>>
-------------------------------------------------------------------------------
Call(t, c) ==
    /\ pc[t] = "idle"
    /\ Len(results) + Cardinality({u \in Threads : pc[u] # "idle"}) < MaxCalls
    /\ call' = [call EXCEPT ![t] = [req |-> c, since |-> Len(results)]]
    /\ during' = [during EXCEPT ![t] = {table}]
    /\ Goto(t, "begin")
    /\ UNCHANGED <<table, serial, txn, write, loaded, results>>

\* odb::transaction t(db->begin()).
Begin(t) ==
    /\ pc[t] = "begin" /\ ~txn[t]
    /\ txn' = [txn EXCEPT ![t] = TRUE]
    /\ Goto(t, "execute")
    /\ UNCHANGED <<table, serial, call, write, loaded, during, results>>

\* No connection, or a transaction is already in effect on this thread: the
\* transaction object is not constructed.
BeginThrows(t) ==
    /\ pc[t] = "begin"
    /\ Return(t, FALSE, table)
    /\ serial' = serial

Executing(t, op) == pc[t] = "execute" /\ call[t].req.op = op

\* Seeded fault: the id of the object is bound instead of DEFAULT.
Persist_IdBound(t) ==
    /\ Executing(t, "Create")
    /\ write' = [write EXCEPT ![t] = Insertion(call[t].req.id, call[t].req.value)]
    /\ serial' = serial + 1
    /\ Goto(t, "commit")
    /\ UNCHANGED <<table, call, txn, loaded, during, results>>

\* INSERT with DEFAULT for the id, which draws it from the sequence.
Persist(t) ==
    /\ Executing(t, "Create")
    /\ write' = [write EXCEPT ![t] = Insertion(serial, call[t].req.value)]
    /\ serial' = serial + 1
    /\ Goto(t, "commit")
    /\ UNCHANGED <<table, call, txn, loaded, during, results>>

\* Seeded fault: an object that was loaded before is taken from a cache.
Load_Cached(t) ==
    /\ Executing(t, "Read")
    /\ \/ \E r \in DOMAIN results :
             /\ results[r].ok /\ results[r].call = call[t].req
             /\ loaded' = [loaded EXCEPT ![t] = results[r].loaded]
       \/ /\ call[t].req.id \in DOMAIN table
          /\ loaded' = [loaded EXCEPT ![t] = [i \in {call[t].req.id} |-> table[i]]]
    /\ Goto(t, "commit")
    /\ UNCHANGED <<table, serial, call, txn, write, during, results>>

Load(t) ==
    /\ Executing(t, "Read") /\ call[t].req.id \in DOMAIN table
    /\ loaded' = [loaded EXCEPT ![t] = [i \in {call[t].req.id} |-> table[i]]]
    /\ Goto(t, "commit")
    /\ UNCHANGED <<table, serial, call, txn, write, during, results>>

\* Seeded fault: a row that is not there is written.
Update_Upsert(t) ==
    /\ Executing(t, "Update") /\ ~LockedFor(t, call[t].req.id)
    /\ write' = [write EXCEPT ![t] = Replacement(call[t].req.id, call[t].req.value)]
    /\ Goto(t, "commit")
    /\ UNCHANGED <<table, serial, call, txn, loaded, during, results>>

Update(t) ==
    /\ Executing(t, "Update")
    /\ call[t].req.id \in DOMAIN table /\ ~LockedFor(t, call[t].req.id)
    /\ write' = [write EXCEPT ![t] = Replacement(call[t].req.id, call[t].req.value)]
    /\ Goto(t, "commit")
    /\ UNCHANGED <<table, serial, call, txn, loaded, during, results>>

Erase(t) ==
    /\ Executing(t, "Delete")
    /\ call[t].req.id \in DOMAIN table /\ ~LockedFor(t, call[t].req.id)
    /\ write' = [write EXCEPT ![t] = Erasure(call[t].req.id)]
    /\ Goto(t, "commit")
    /\ UNCHANGED <<table, serial, call, txn, loaded, during, results>>

\* The whole result of the query is read before the commit.
Query(t) ==
    /\ Executing(t, "ReadAll")
    /\ loaded' = [loaded EXCEPT ![t] = table]
    /\ Goto(t, "commit")
    /\ UNCHANGED <<table, serial, call, txn, write, during, results>>

\* Seeded fault: the number of rows a DELETE has removed is not looked at.
NotPersistent_Unchecked(t) ==
    /\ pc[t] = "execute" /\ call[t].req.op \in {"Read", "Update", "Delete"}
    /\ call[t].req.id \notin DOMAIN table
    /\ IF call[t].req.op = "Delete"
       THEN Goto(t, "commit") /\ UNCHANGED <<table, call, txn, write, loaded, during, results>>
       ELSE Return(t, FALSE, table)
    /\ serial' = serial

\* load, update and erase throw object_not_persistent when there is no row.
NotPersistent(t) ==
    /\ pc[t] = "execute" /\ call[t].req.op \in {"Read", "Update", "Delete"}
    /\ call[t].req.id \notin DOMAIN table
    /\ Return(t, FALSE, table)
    /\ serial' = serial

\* The statement fails, or the connection is lost; an INSERT may have drawn an id.
ExecuteThrows(t) ==
    /\ pc[t] = "execute"
    /\ serial' \in {serial} \cup (IF call[t].req.op = "Create" THEN {serial + 1} ELSE {})
    /\ Return(t, FALSE, table)

Commit(t) ==
    /\ pc[t] = "commit"
    /\ Return(t, TRUE, Applied(t))
    /\ serial' = serial

\* Seeded fault: the transaction is not rolled back when the commit fails.
CommitThrows_NoRollback(t) ==
    /\ pc[t] = "commit"
    /\ results' = Append(results, [call |-> call[t].req, since |-> call[t].since, ok |-> FALSE,
                                   loaded |-> loaded[t], during |-> during[t]])
    /\ call' = [call EXCEPT ![t] = [req |-> NoCall, since |-> 0]]
    /\ loaded' = [loaded EXCEPT ![t] = NoRows]
    /\ Goto(t, "idle")
    /\ UNCHANGED <<table, serial, txn, write, during>>

\* The commit fails and nothing is stored, or the connection is lost after the
\* database has committed.
CommitThrows(t) ==
    /\ pc[t] = "commit"
    /\ Return(t, FALSE, table) \/ Return(t, FALSE, Applied(t))
    /\ serial' = serial
-------------------------------------------------------------------------------
Works(t) ==
    \/ Begin(t)
    \/ Persist(t) \/ Load(t) \/ Update(t) \/ Erase(t) \/ Query(t) \/ NotPersistent(t)
    \/ Commit(t)

Fails(t) == BeginThrows(t) \/ ExecuteThrows(t) \/ CommitThrows(t)

Next ==
    \E t \in Threads :
        \/ Works(t) \/ Fails(t)
        \/ \E c \in Calls : Call(t, c)

Spec == Init /\ [][Next]_vars

\* Threads run and the database answers: a statement that need not wait for a
\* row is executed, and the transactions that wait for one get it in turn.  That
\* anything fails is not assumed.
FairSpec == Spec /\ \A t \in Threads : SF_vars(Works(t))
-------------------------------------------------------------------------------
Labels == {"idle", "begin", "execute", "commit"}

\* What a transaction can have written, given the ids drawn so far.
Writes ==
    {NoWrite}
    \cup [kind : {"insert", "update"}, id : 1 .. serial - 1, value : Values]
    \cup [kind : {"delete"}, id : 1 .. serial - 1]

Results == [call : Calls \cup {NoCall}, since : Nat, ok : BOOLEAN,
            loaded : Tables(1 .. serial - 1), during : SUBSET Tables(1 .. serial - 1)]

\* Every variable keeps its type; the ids of rows that are stored, written or
\* read have been drawn from the sequence.
TypeOK ==
    /\ serial \in Nat \ {0} /\ table \in Tables(1 .. serial - 1)
    /\ pc \in [Threads -> Labels]
    /\ call \in [Threads -> [req : Calls \cup {NoCall}, since : Nat]]
    /\ txn \in [Threads -> BOOLEAN]
    /\ write \in [Threads -> Writes]
    /\ loaded \in [Threads -> Tables(1 .. serial - 1)]
    /\ during \in [Threads -> SUBSET Tables(1 .. serial - 1)]
    /\ results \in Seq(Results)

\* Concurrent Deletes of one row do not both report success, whatever else is
\* done to the row in between: the second removes no row and says so.
DeletedOnce ==
    \A i, j \in DOMAIN results :
        ( /\ results[i].ok /\ results[i].call.op = "Delete"
          /\ results[j].ok /\ results[j].call = results[i].call ) => i = j

\* An entity whose Delete was confirmed is gone for every call made afterwards:
\* no Read or Update of it succeeds, no ReadAll lists it, and no Create, Update
\* or late commit brings its id back.
DeletedStaysDeleted ==
    \A i, j \in DOMAIN results :
        ( /\ results[i].ok /\ results[i].call.op = "Delete"
          /\ results[j].ok /\ i <= results[j].since ) =>
            /\ results[j].call.op \in {"Read", "Update"} => results[j].call.id # results[i].call.id
            /\ results[i].call.id \notin DOMAIN results[j].loaded

\* A Delete that was confirmed is final: in a race only one caller gets the
\* confirmation, and nothing done later finds the row or brings it back.
DeletionIsFinal == DeletedOnce /\ DeletedStaysDeleted

\* What a Read or a ReadAll returns was the committed state of the row, or of
\* the whole table, at one moment between its call and its return.
ReadsAreCurrent ==
    \A i \in DOMAIN results :
        results[i].ok =>
            /\ results[i].call.op = "ReadAll" => results[i].loaded \in results[i].during
            /\ results[i].call.op = "Read" =>
                  \E tab \in results[i].during :
                      /\ results[i].call.id \in DOMAIN tab
                      /\ results[i].loaded = [k \in {results[i].call.id} |-> tab[k]]

\* Every call returns.  An Update or a Delete waits for the transaction that has
\* written its row, which ends, whether its own commit succeeds or throws, and
\* waits for nobody meanwhile; no failed call leaves a row locked or its thread
\* in a transaction.
CallReturns == \A t \in Threads : pc[t] # "idle" ~> pc[t] = "idle"

\* The operations change the table as EntityStore allows: the ids that
\* transactions have drawn and not yet stored are its reserved ones.
Reserved == {write[t].id : t \in {u \in Threads : write[u].kind = "insert"}}
Store == INSTANCE EntityStore WITH rows <- table, next <- serial, reserved <- Reserved
ImplementsEntityStore == Store!Spec
===============================================================================
