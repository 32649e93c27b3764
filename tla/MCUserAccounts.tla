---------------------------- MODULE MCUserAccounts ----------------------------
(* Salts of three bytes; one has a byte below 16, where the encoding pads.    *)
EXTENDS UserAccounts, TLC

MCSalts == {<<171, 16, 255>>, <<16, 5, 200>>}
MCOneSalt == {<<16, 5, 200>>}
MCSymmetry == Permutations(Threads) \cup Permutations(Usernames) \cup Permutations(Passwords)
===============================================================================
