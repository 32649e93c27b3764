--------------------------- MODULE AccountRegistry ---------------------------
(***************************************************************************)
(* What a user registry promises: an account is a username with a          *)
(* password, a username is registered at most once, and an account is      *)
(* neither changed nor removed.                                            *)
(***************************************************************************)
CONSTANTS Ids, Usernames, Passwords

VARIABLE accounts  \* the accounts, each with the id it was given

Init == accounts = {}

Register(u, p) ==
    /\ \A a \in accounts : a.username # u
    /\ \E id \in Ids : accounts' = accounts \cup {[id |-> id, username |-> u, password |-> p]}

Next == \E u \in Usernames, p \in Passwords : Register(u, p)

Spec == Init /\ [][Next]_accounts
==============================================================================
