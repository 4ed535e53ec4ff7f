----------------------------- MODULE CommandSlot -----------------------------
(***************************************************************************)
(* The one-place command slot between the Chromecast app's UI thread and   *)
(* its session worker (chromecast/session.cc): the fields of Session that  *)
(* its mutex guards, and what send(), the head of run() and destroy() do   *)
(* to them while they hold it.  A new command overwrites a pending one.    *)
(***************************************************************************)
EXTENDS Integers

\* enum class Command: what a client may ask for, kNone and kStop.
Requests == {"search", "open", "rescan", "join"}
Commands == Requests \cup {"none", "stop"}

NoArgument == -1
NoPassword == "no password"

Slots(Arguments, Passwords) ==
    [command : Commands, argument : Arguments, password : Passwords,
     sequence : Nat, pending : Nat, interrupted : BOOLEAN]

EmptySlot == [command |-> "none", argument |-> NoArgument, password |-> NoPassword,
              sequence |-> 0, pending |-> 0, interrupted |-> FALSE]

\* send(): the number is taken even when a pending stop refuses the command.
Sent(s, command, argument, password) ==
    IF s.command = "stop"
      THEN [s EXCEPT !.sequence = @ + 1]
      ELSE [command |-> command, argument |-> argument, password |-> password,
            sequence |-> s.sequence + 1, pending |-> s.sequence + 1, interrupted |-> TRUE]

\* Mutant of Taken: the interruption outlives the command that caused it.
TakenInterrupted(s) == [s EXCEPT !.command = "none", !.password = NoPassword]

\* run(): the worker empties the slot; the argument is left behind, the password is not.
Taken(s) == [s EXCEPT !.command = "none", !.password = NoPassword, !.interrupted = FALSE]

\* Mutant of Stopped: the number of the replaced command is forgotten.
StoppedUnnumbered(s) == [s EXCEPT !.command = "stop", !.pending = -1, !.interrupted = TRUE]

\* destroy(): stop replaces whatever is pending.
Stopped(s) == [s EXCEPT !.command = "stop", !.interrupted = TRUE]
==============================================================================
