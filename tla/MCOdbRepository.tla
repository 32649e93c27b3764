--------------------------- MODULE MCOdbRepository ---------------------------
(* Two callers who ask for one row, and two values.                           *)
EXTENDS OdbRepository
===============================================================================
