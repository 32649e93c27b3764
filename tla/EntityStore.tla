----------------------------- MODULE EntityStore -----------------------------
(***************************************************************************)
(* What IRepository promises of the table behind it: one row changes at a  *)
(* time, only an existing row is replaced or removed, and an id names one  *)
(* entity for ever.  An id is reserved when it is drawn and can become a   *)
(* row once; after that it is not reserved again.                          *)
(***************************************************************************)
EXTENDS Naturals

CONSTANT Values

VARIABLES rows,      \* the stored entities: a function from ids to values
          next,      \* the next id to draw
          reserved   \* ids that were drawn and are not rows yet

vars == <<rows, next, reserved>>

Init ==
    /\ next \in Nat \ {0} /\ reserved = {}
    /\ rows \in UNION {[S -> Values] : S \in SUBSET (1 .. next - 1)}

Draw ==
    /\ next' = next + 1
    /\ reserved' \in {reserved, reserved \cup {next}}
    /\ rows' = rows

Insert ==
    \E id \in reserved, v \in Values :
        /\ rows' = [i \in DOMAIN rows \cup {id} |-> IF i = id THEN v ELSE rows[i]]
        /\ reserved' = reserved \ {id}
        /\ next' = next

GiveUp ==
    /\ \E id \in reserved : reserved' = reserved \ {id}
    /\ UNCHANGED <<rows, next>>

Replace ==
    /\ \E id \in DOMAIN rows, v \in Values : rows' = [rows EXCEPT ![id] = v]
    /\ UNCHANGED <<next, reserved>>

Remove ==
    /\ \E id \in DOMAIN rows : rows' = [i \in DOMAIN rows \ {id} |-> rows[i]]
    /\ UNCHANGED <<next, reserved>>

Next == Draw \/ Insert \/ GiveUp \/ Replace \/ Remove

Spec == Init /\ [][Next]_vars
===============================================================================
