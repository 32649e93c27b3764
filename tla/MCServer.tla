------------------------------- MODULE MCServer -------------------------------
(* Two connections of one io thread, which a route handler blocks, with one   *)
(* request each, so that one can be upgraded while the other is served.       *)
EXTENDS Server
===============================================================================
