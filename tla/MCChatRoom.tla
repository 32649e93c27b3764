------------------------------ MODULE MCChatRoom ------------------------------
(* Two sessions, the peer of one of which may stop reading, and two callers   *)
(* of send with two calls between them.                                       *)
EXTENDS ChatRoom, TLC

CONSTANTS c1, c2

MCMaxSends == c1 :> 2 @@ c2 :> 2
===============================================================================
