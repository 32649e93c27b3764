--------------------------- MODULE MCUserStatements ---------------------------
(* Two text columns and two rows, so that one column of a row can be         *)
(* truncated and the other not and a query can find rows of several sizes;   *)
(* texts that fit a new buffer and two longer ones, so that a buffer can     *)
(* grow twice.                                                               *)
EXTENDS UserStatements

MCColumns == {"username", "salt"}
MCValues == {"short", "long", "longer"}
MCSize == [v \in MCValues |-> CASE v = "short" -> 1 [] v = "long" -> 2 [] v = "longer" -> 3]
MCObjects ==
    {[username |-> "short", salt |-> "short"], [username |-> "long", salt |-> "short"],
     [username |-> "longer", salt |-> "long"]}
===============================================================================
