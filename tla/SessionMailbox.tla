---------------------------- MODULE SessionMailbox ----------------------------
(***************************************************************************)
(* How the Chromecast app's UI thread and its session worker exchange      *)
(* commands and snapshots (chromecast/session.cc, on_session in app.cc).   *)
(*                                                                         *)
(* Commands go down through the slot of CommandSlot.  Snapshots come back  *)
(* through `shared', copied under the mutex, and an eventfd that is        *)
(* written after the mutex is released and read before it is taken: the    *)
(* four steps interleave freely.  What a command does is left out (module  *)
(* Session): a running command publishes any number of editions of its     *)
(* snapshot and ends.                                                      *)
(***************************************************************************)
EXTENDS CommandSlot

CONSTANTS
    MaxCommands,  \* bound: commands the client sends
    MaxEditions   \* bound: snapshots the worker publishes

ASSUME BoundsAssumption == MaxCommands \in Nat \ {0} /\ MaxEditions \in Nat

VARIABLES
    slot,      \* Session::command, argument, password, sequence, pending, interrupted
    current,   \* Session::current, the command the worker runs
    running,   \* the worker's local `command'
    worker,    \* where the worker is
    shared,    \* Session::shared: the command it reports on and its edition
    readable,  \* the eventfd's counter is not zero
    client,    \* where the UI thread is
    awaiting,  \* App::awaiting
    snapshot,  \* App::snapshot
    seen       \* the edition of the last snapshot taken, kept or not
vars == <<slot, current, running, worker, shared, readable, client, awaiting, snapshot, seen>>

workerVars == <<current, running, worker, shared>>
clientVars == <<client, awaiting, snapshot, seen>>

Secret == "secret"

TypeOK ==
    /\ slot \in Slots({NoArgument}, {NoPassword, Secret})
    /\ current \in Nat
    /\ running \in Commands
    /\ worker \in {"waiting", "running", "storing", "exited"}
    /\ shared \in [command : Nat, edition : Nat]
    /\ readable \in BOOLEAN
    /\ client \in {"idle", "drained", "joining", "gone"}
    /\ awaiting \in Nat
    /\ snapshot \in [command : Nat, edition : Nat]
    /\ seen \in Nat

\* create_app() takes the empty snapshot and starts a search at once.
Init ==
    /\ slot = Sent(EmptySlot, "search", NoArgument, NoPassword)
    /\ current = 0
    /\ running = "none"
    /\ worker = "waiting"
    /\ shared = [command |-> 0, edition |-> 0]
    /\ readable = FALSE
    /\ client = "idle"
    /\ awaiting = 1
    /\ snapshot = [command |-> 0, edition |-> 0]
    /\ seen = 0
-------------------------------------------------------------------------------
(* The UI thread.                                                          *)

\* search(), open_device(), rescan(), join(): the app keeps the number it is given.
Send(command) ==
    /\ client = "idle"
    /\ slot.sequence < MaxCommands
    /\ slot' = Sent(slot, command, NoArgument, IF command = "join" THEN Secret ELSE NoPassword)
    /\ awaiting' = slot'.sequence
    /\ UNCHANGED <<workerVars, readable, client, snapshot, seen>>

\* Mutant of Drain: a notification of an older command is read and dropped with its snapshot.
DrainNewer ==
    /\ client = "idle"
    /\ readable
    /\ readable' = FALSE
    /\ client' = IF shared.command < awaiting THEN "idle" ELSE "drained"
    /\ UNCHANGED <<slot, workerVars, awaiting, snapshot, seen>>

\* The looper calls on_session() when the eventfd is readable; take_snapshot() reads it.
Drain ==
    /\ client = "idle"
    /\ readable
    /\ readable' = FALSE
    /\ client' = "drained"
    /\ UNCHANGED <<slot, workerVars, awaiting, snapshot, seen>>

\* Mutant of Copy: a snapshot of an older command is shown.
CopyAny ==
    /\ client = "drained"
    /\ client' = "idle"
    /\ seen' = shared.edition
    /\ snapshot' = shared
    /\ UNCHANGED <<slot, workerVars, readable, awaiting>>

\* take_snapshot() then copies the snapshot; on_session() drops one of an older command.
Copy ==
    /\ client = "drained"
    /\ client' = "idle"
    /\ seen' = shared.edition
    /\ snapshot' = IF shared.command < awaiting THEN snapshot ELSE shared
    /\ UNCHANGED <<slot, workerVars, readable, awaiting>>

\* destroy() posts the stop and joins the thread.
Destroy ==
    /\ client = "idle"
    /\ slot' = Stopped(slot)
    /\ client' = "joining"
    /\ UNCHANGED <<workerVars, readable, awaiting, snapshot, seen>>

Joined ==
    /\ client = "joining"
    /\ worker = "exited"
    /\ slot' = [slot EXCEPT !.password = NoPassword]
    /\ client' = "gone"
    /\ UNCHANGED <<workerVars, readable, awaiting, snapshot, seen>>
-------------------------------------------------------------------------------
(* The worker.                                                             *)

\* run() waits for a command and takes it.
Take ==
    /\ worker = "waiting"
    /\ slot.command # "none"
    /\ running' = slot.command
    /\ current' = slot.pending
    /\ slot' = Taken(slot)
    /\ worker' = "running"
    /\ UNCHANGED <<shared, readable, clientVars>>

\* Mutant of Store: the snapshot changes and nobody is told.
StoreSilently ==
    /\ worker = "running"
    /\ running # "stop"
    /\ shared.edition < MaxEditions
    /\ shared' = [command |-> current, edition |-> shared.edition + 1]
    /\ UNCHANGED <<slot, current, running, worker, readable, clientVars>>

\* publish() copies the snapshot under the mutex ...
Store ==
    /\ worker = "running"
    /\ running # "stop"
    /\ shared.edition < MaxEditions
    /\ shared' = [command |-> current, edition |-> shared.edition + 1]
    /\ worker' = "storing"
    /\ UNCHANGED <<slot, current, running, readable, clientVars>>

\* ... and writes the eventfd after releasing it.
Notify ==
    /\ worker = "storing"
    /\ readable' = TRUE
    /\ worker' = "running"
    /\ UNCHANGED <<slot, current, running, shared, clientVars>>

\* The command ends, done or interrupted; after a stop the thread returns.
Finish ==
    /\ worker = "running"
    /\ worker' = IF running = "stop" THEN "exited" ELSE "waiting"
    /\ UNCHANGED <<slot, current, running, shared, readable, clientVars>>
-------------------------------------------------------------------------------
Worker == Take \/ Store \/ Notify \/ Finish
Client == (\E c \in Requests : Send(c)) \/ Drain \/ Copy \/ Destroy \/ Joined
Next == Worker \/ Client

\* The worker thread is scheduled and its commands end (module Session shows they do); the
\* looper delivers a readable eventfd and the callback runs to its end; join returns.
Fairness == /\ WF_vars(Take) /\ WF_vars(Notify) /\ WF_vars(Finish)
            /\ WF_vars(Drain) /\ WF_vars(Copy) /\ WF_vars(Joined)

Spec == Init /\ [][Next]_vars /\ Fairness
-------------------------------------------------------------------------------
(* The slot stays consistent across send(), run() and destroy(): the flag  *)
(* that interrupts a running command is up exactly while one waits; a      *)
(* password waits only in a pending join, or in one a stop replaced; and   *)
(* numbers never overtake their source, from the newest number given out   *)
(* down to the command the screen reports on.                              *)
SlotConsistent ==
    /\ slot.interrupted <=> slot.command # "none"
    /\ slot.password = Secret => slot.command \in {"join", "stop"}
    /\ snapshot.command <= shared.command
    /\ shared.command <= current
    /\ current <= slot.pending
    /\ slot.pending <= slot.sequence
    /\ slot.sequence = awaiting

(* The eventfd loses nothing: while the newest edition has not been taken, *)
(* the eventfd is readable, or about to be written, or the UI thread is    *)
(* about to copy.  take_snapshot() reads the eventfd before it copies and  *)
(* publish() writes it after it copies; either order reversed loses one.   *)
NoLostNotification ==
    seen # shared.edition => readable \/ worker = "storing" \/ client = "drained"

(* Whatever the worker publishes reaches the UI thread, unless the session *)
(* is destroyed first.                                                     *)
EditionsSeen ==
    \A e \in 1 .. MaxEditions :
        shared.edition = e ~> seen >= e \/ client \in {"joining", "gone"}

(* The threads, the slot and the eventfd implement LatestCommand: each     *)
(* command picked up is the newest sent, every one is picked up or         *)
(* replaced, and the screen only ever moves to a report on the newest.     *)
Latest == INSTANCE LatestCommand WITH
    issued <- awaiting, serving <- current, shown <- snapshot.command,
    closed <- client \in {"joining", "gone"}
ImplementsLatest == Latest!Spec
===============================================================================
