------------------------------- MODULE LogSink -------------------------------
(***************************************************************************)
(* What LogService promises its callers, without threads, mutexes or a     *)
(* condition variable: entries are taken in some order, reach the log file *)
(* in that order, each at most once, and the log is closed only when       *)
(* nothing that was taken is still on its way.  Entries may be lost only   *)
(* once the output stream has failed.                                      *)
(***************************************************************************)
EXTENDS Sequences

CONSTANT Entries    \* the log entries that callers can produce

VARIABLES pending,  \* entries taken from callers, not yet handed to the file
          file,     \* entries in the log file
          healthy,  \* the output stream has not failed
          closed    \* the log has been shut down

sinkVars == <<pending, file, healthy, closed>>

Init ==
    /\ pending = <<>>
    /\ file = <<>>
    /\ healthy = TRUE
    /\ closed = FALSE

Take(e) ==
    /\ ~closed
    /\ pending' = Append(pending, e)
    /\ UNCHANGED <<file, healthy, closed>>

Deliver ==
    /\ ~closed
    /\ healthy
    /\ pending # <<>>
    /\ file' = Append(file, Head(pending))
    /\ pending' = Tail(pending)
    /\ UNCHANGED <<healthy, closed>>

\* The stream fails, possibly while the oldest entry is being written.
Fail ==
    /\ ~closed
    /\ healthy
    /\ healthy' = FALSE
    /\ \/ UNCHANGED pending
       \/ pending # <<>> /\ pending' = Tail(pending)
    /\ UNCHANGED <<file, closed>>

\* A failed stream swallows entries.
Lose ==
    /\ ~closed
    /\ ~healthy
    /\ pending # <<>>
    /\ pending' = Tail(pending)
    /\ UNCHANGED <<file, healthy, closed>>

Close ==
    /\ ~closed
    /\ pending = <<>>
    /\ closed' = TRUE
    /\ UNCHANGED <<pending, file, healthy>>

Next ==
    \/ \E e \in Entries : Take(e)
    \/ Deliver
    \/ Fail
    \/ Lose
    \/ Close

Spec == Init /\ [][Next]_sinkVars
==============================================================================
