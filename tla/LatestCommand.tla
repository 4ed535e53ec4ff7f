---------------------------- MODULE LatestCommand ----------------------------
(***************************************************************************)
(* What the session promises the app, with no threads, slot or eventfd:    *)
(* "Each command replaces the running one and returns its number"          *)
(* (session.h).  The worker always moves on to the newest command, and a   *)
(* report reaches the screen only if it is about the newest command.       *)
(***************************************************************************)
EXTENDS Naturals

VARIABLES
    issued,   \* the number of the newest command
    serving,  \* the command the worker has picked up last, 0 for none
    shown,    \* the command the screen reports on, 0 for none
    closed    \* the client has asked the session to end
vars == <<issued, serving, shown, closed>>

Init == issued = 1 /\ serving = 0 /\ shown = 0 /\ closed = FALSE

Issue == ~closed /\ issued' = issued + 1 /\ UNCHANGED <<serving, shown, closed>>

\* Commands between the last one served and the newest are dropped.
Serve == serving < issued /\ serving' = issued /\ UNCHANGED <<issued, shown, closed>>

Show == /\ ~closed
        /\ serving = issued
        /\ shown' = issued
        /\ UNCHANGED <<issued, serving, closed>>

Close == ~closed /\ closed' = TRUE /\ UNCHANGED <<issued, serving, shown>>

Next == Issue \/ Serve \/ Show \/ Close

Spec == Init /\ [][Next]_vars /\ WF_vars(Serve)
==============================================================================
