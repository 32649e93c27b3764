------------------------------ MODULE UserTable ------------------------------
(***************************************************************************)
(* What the persistence code of User promises to one connection: a request *)
(* changes the table by exactly the object it was given, and delivers      *)
(* exactly rows that were stored when its statement ran, each of them at   *)
(* most once.  It reports what it did: an object is not persistent only if *)
(* no row has its id, and a request that failed has done nothing.  Other   *)
(* connections change the table in between.                                *)
(***************************************************************************)
CONSTANTS Ids, Objects, Requests

VARIABLES rows,      \* the stored objects, a function from ids
          request,   \* the call in progress
          executed,  \* its SELECT has run
          selected,  \* rows the SELECT has found and not delivered
          delivered, \* the object handed out last, with its id
          outcome    \* how the last call has ended

vars == <<rows, request, executed, selected, delivered, outcome>>

NoRows == [i \in {} |-> 0]
None == [op |-> "none"]
Nothing == [id |-> 0]
With(f, id, o) == [i \in DOMAIN f \cup {id} |-> IF i = id THEN o ELSE f[i]]
Without(f, S) == [i \in DOMAIN f \ S |-> f[i]]

Init ==
    /\ rows \in UNION {[S -> Objects] : S \in SUBSET Ids}
    /\ request = None /\ executed = FALSE
    /\ selected = NoRows /\ delivered = Nothing /\ outcome = "none"

Ask ==
    /\ request = None /\ request' \in Requests
    /\ delivered' = Nothing /\ outcome' = "none"
    /\ UNCHANGED <<rows, executed, selected>>

Ends(how) ==
    /\ request' = None /\ executed' = FALSE /\ selected' = NoRows
    /\ outcome' = how

Fail ==
    /\ request # None /\ ~executed
    /\ Ends("failed")
    /\ UNCHANGED <<rows, delivered>>

NotPersistent ==
    /\ \/ request.op = "update" /\ request.id \notin DOMAIN rows
       \/ request.op = "erase" /\ request.key /\ request.ids \cap DOMAIN rows = {}
    /\ Ends("object_not_persistent")
    /\ UNCHANGED <<rows, delivered>>

Insert ==
    /\ request.op = "persist"
    /\ \E id \in Ids \ DOMAIN rows :
          /\ rows' = With(rows, id, request.object)
          /\ delivered' = [id |-> id, object |-> request.object]
    /\ Ends("done")

Replace ==
    /\ request.op = "update" /\ request.id \in DOMAIN rows
    /\ rows' = With(rows, request.id, request.object)
    /\ Ends("done")
    /\ UNCHANGED delivered

Remove ==
    /\ request.op = "erase" /\ (request.key => request.ids \subseteq DOMAIN rows)
    /\ rows' = Without(rows, request.ids)
    /\ Ends("done")
    /\ UNCHANGED delivered

Select ==
    /\ request.op = "select" /\ ~executed
    /\ executed' = TRUE
    /\ selected' = Without(rows, Ids \ request.ids)
    /\ UNCHANGED <<rows, request, delivered, outcome>>

Deliver ==
    /\ \E id \in DOMAIN selected :
          /\ delivered' = [id |-> id, object |-> selected[id]]
          /\ selected' = Without(selected, {id})
    /\ UNCHANGED <<rows, request, executed, outcome>>

\* Every row has been delivered; a caller of a query may stop after one.
SelectEnds ==
    /\ request.op = "select" /\ executed
    /\ selected = NoRows \/ (~request.key /\ delivered # Nothing)
    /\ Ends("done")
    /\ UNCHANGED <<rows, delivered>>

OthersWrite ==
    /\ \E id \in Ids :
          \/ rows' = Without(rows, {id})
          \/ \E o \in Objects : rows' = With(rows, id, o)
    /\ UNCHANGED <<request, executed, selected, delivered, outcome>>

Next ==
    \/ Ask \/ Insert \/ Replace \/ Remove \/ Select \/ Deliver \/ SelectEnds
    \/ NotPersistent \/ Fail \/ OthersWrite

Spec == Init /\ [][Next]_vars
===============================================================================
