------------------------------ MODULE Shutdown ------------------------------
(***************************************************************************)
(* What Signals and Pipeline agree on about the end of the probe, without  *)
(* handlers, queues or clocks: the end is requested once and the request   *)
(* is never taken back; a worker leaves only after the request; and what   *)
(* the threads share is freed, once, only when both workers have left.     *)
(* That they do leave is a matter of fairness and no part of it.           *)
(***************************************************************************)

CONSTANTS Workers   \* the threads that main joins

VARIABLES
    requested,   \* has a signal asked for the end?
    gone,        \* the workers that have left
    cleaned      \* is what the threads share freed?

shutdownVars == <<requested, gone, cleaned>>

Init ==
    /\ requested = FALSE
    /\ gone = {}
    /\ cleaned = FALSE

Request ==
    /\ ~ requested
    /\ requested' = TRUE
    /\ UNCHANGED <<gone, cleaned>>

Leave(w) ==
    /\ requested
    /\ w \notin gone
    /\ gone' = gone \cup {w}
    /\ UNCHANGED <<requested, cleaned>>

Clean ==
    /\ gone = Workers
    /\ ~ cleaned
    /\ cleaned' = TRUE
    /\ UNCHANGED <<requested, gone>>

Next == Request \/ (\E w \in Workers : Leave(w)) \/ Clean

Spec == Init /\ [][Next]_shutdownVars
=============================================================================
