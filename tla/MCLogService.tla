----------------------------- MODULE MCLogService -----------------------------
(* Two io threads with two LOG calls each; one level that is filtered and    *)
(* one that is not.                                                          *)
EXTENDS LogService

MCLevels == {0, 3}
===============================================================================
