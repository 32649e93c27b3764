----------------------------- MODULE MCHttpServer -----------------------------
(* Two connections on two io threads, with two requests on each: enough for  *)
(* pipelining and for both threads to be busy.                               *)
EXTENDS HttpServer, TLC

MCSymmetry == Permutations(Threads) \cup Permutations(Sessions)
===============================================================================
