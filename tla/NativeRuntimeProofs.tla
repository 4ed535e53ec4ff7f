-------------------------- MODULE NativeRuntimeProofs --------------------------
(***************************************************************************)
(* Proofs about NativeRuntime, for every limit of the count, every number  *)
(* of commands and whatever count.txt and Android hold at first: what the  *)
(* main thread may rely on when a command that it waited for is done.      *)
(***************************************************************************)
EXTENDS MCNativeRuntime, RecursionProofs, FiniteSetTheorems, SequenceTheorems, TLAPS

(* The commands not yet done, in their order: the batch, then the queue.   *)
Waiting == Len(batch) + Len(commands)
Queued(i) == IF i <= Len(batch) THEN batch[i] ELSE commands[i - Len(batch)]

(* They are numbered without a gap from the last that is done to the last  *)
(* that was queued; only process_commands() has a batch.                   *)
QueueOK ==
    /\ numbers.next = numbers.completed + Waiting
    /\ \A i \in 1 .. Waiting : Queued(i).sequence = numbers.completed + i
    /\ batch # <<>> => worker = "processing"

(* The main thread waits for the command that it queued last.              *)
Calling == main.at \in {"signalling", "waiting"}
CallOK ==
    Calling => /\ main.command.sequence = numbers.next /\ numbers.next > 0
               /\ Waiting > 0 => Queued(Waiting) = main.command

(* After a stop nothing more is queued, and the thread stops when nothing  *)
(* is left, or could not start.                                            *)
Stopping == main.command.kind = "stop" /\ main.at # "idle"
StopOK ==
    /\ \A i \in 1 .. Waiting : Queued(i).kind = "stop" => i = Waiting /\ Stopping
    /\ state.stopping => /\ worker \in {"processing", "leaving", "exited"}
                         /\ ~state.window /\ ~state.scene
    /\ state.stopping /\ worker = "processing" => Waiting = 0 /\ Stopping
    /\ worker \in {"leaving", "exited"} => state.stopping /\ (state.error \/ Stopping)
    /\ exited <=> worker = "exited"
    /\ main.at = "freed" => exited

(* The thread that has yet to start knows no more than create_runtime().   *)
StartOK == worker = "starting" => state = Fresh(activity.restored)

(* The window is Android's again only when no command may bring it back,   *)
(* and a detach that is done was the last one.                             *)
WindowOK ==
    /\ ~activity.window =>
         ~state.window /\ (exited \/ \A i \in 1 .. Waiting : Queued(i).kind # "surface")
    /\ Calling /\ main.command.kind = "detach" /\ numbers.completed = numbers.next => ~state.window

(* What is published is what the thread has, and what it calls saved is.   *)
PublishedOK ==
    /\ published = Reported(state)
    /\ worker # "starting" /\ state.saved => file = state.count

(* A redraw that is not acknowledged has yet to be drawn; what is drawn    *)
(* when it is acknowledged is all that was applied.                        *)
RedrawOK ==
    /\ state.applied = numbers.completed
    /\ state.redraw <= numbers.completed /\ numbers.redraw <= numbers.completed
    /\ state.redraw # 0 => state.dirtyVisual /\ state.scene /\ ~state.error
    /\ Calling /\ main.command.kind = "redraw" /\ numbers.redraw >= main.command.sequence =>
         state.drawn >= main.command.sequence \/ ~state.scene \/ state.error

(* The inputs that are queued lead from the count that the thread has, or  *)
(* will start with, to the one that the user expects.                      *)
CountAfter(count, kind) ==
    IF kind = "add" THEN Added(count) ELSE IF kind = "reset" THEN 0 ELSE count
CountNow ==
    IF worker # "starting" THEN state.count
    ELSE IF activity.restored # NotRestored THEN activity.restored ELSE LoadCount(file).count
CountOK ==
    \E f \in [0 .. Waiting -> Counts] :
        /\ f[0] = CountNow /\ f[Waiting] = wanted
        /\ \A i \in 1 .. Waiting : f[i] = CountAfter(f[i - 1], Queued(i).kind)

IInv == /\ TypeOK /\ QueueOK /\ CallOK /\ StopOK /\ StartOK
        /\ WindowOK /\ PublishedOK /\ RedrawOK /\ CountOK
-------------------------------------------------------------------------------
(* What the rendering thread's operators do to its state.                  *)

(* A control, a lifecycle callback or a draw gives up nothing and stops    *)
(* nothing, and an error stays.                                            *)
Onward(s, t) ==
    /\ t \in States
    /\ t.applied = s.applied /\ t.redraw = s.redraw /\ t.stopping = s.stopping
    /\ t.window = s.window /\ t.scene = s.scene
    /\ s.error => t.error

(* draw() shows what was applied, or leaves it to be drawn.                *)
LEMMA DrawsFacts ==
    ASSUME NEW s \in States, NEW t \in Draws(s)
    PROVE  /\ Onward(s, t)
           /\ t.count = s.count /\ t.saved = s.saved /\ t.dirtyCount = s.dirtyCount
           /\ \/ t = s /\ (~s.scene \/ s.error)
              \/ ~t.dirtyVisual /\ t.drawn = s.applied
              \/ t.dirtyVisual /\ t.drawn = s.drawn
  BY ZenonT(60) DEF Draws, States, Onward

LEMMA ScheduledFacts ==
    ASSUME NEW s \in States
    PROVE  /\ Onward(s, Scheduled(s))
           /\ Reported(Scheduled(s)) = Reported(s)
           /\ Scheduled(s).dirtyVisual = s.dirtyVisual /\ Scheduled(s).drawn = s.drawn
           /\ Scheduled(s).error = s.error
  BY DEF Scheduled, NeedsFrame, States, Onward, Reported

(* persist() leaves the count, and calls saved only what is in the file.   *)
LEMMA PersistsFacts ==
    ASSUME NEW s \in States, NEW o \in Persists(s), file \in Counts \cup {Unreadable},
           ~s.dirtyCount /\ s.saved => file = s.count
    PROVE  /\ Onward(s, o.state) /\ o.state.error = s.error
           /\ o.state.count = s.count
           /\ o.state.dirtyVisual = s.dirtyVisual /\ o.state.drawn = s.drawn
           /\ o \in [state : States, file : Counts \cup {Unreadable}]
           /\ o.state.saved => o.file = o.state.count
<1>1. CASE ~s.dirtyCount
  BY <1>1 DEF Persists, Outcome, Onward
<1>2. CASE s.dirtyCount
  <2>1. PICK result \in SaveCount(file, s.count) :
          o = [state |-> [s EXCEPT !.saved = result.ok, !.dirtyCount = ~result.ok],
               file |-> result.text]
    BY <1>2 DEF Persists, Outcome
  <2>2. /\ result.ok \in BOOLEAN /\ result.text \in Counts \cup {Unreadable}
        /\ result.ok => result.text = s.count
    <3>1. result = [ok |-> FALSE, text |-> file] \/ result \in [ok : BOOLEAN, text : {s.count}]
      BY DEF SaveCount
    <3>2. s.count \in Counts
      BY DEF States
    <3>3. CASE result = [ok |-> FALSE, text |-> file]
      BY <3>3
    <3>4. CASE result \in [ok : BOOLEAN, text : {s.count}]
      BY <3>2, <3>4
    <3>5. QED
      BY <3>1, <3>3, <3>4
  <2>3. QED
    BY <2>1, <2>2 DEF States, Onward
<1>3. QED
  BY <1>1, <1>2 DEF States

LEMMA ReleasedFacts ==
    ASSUME NEW s \in States
    PROVE  /\ Released(s) \in States /\ ~Released(s).scene /\ ~Released(s).window
           /\ Released(s).applied = s.applied /\ Released(s).redraw = s.redraw
           /\ Released(s).stopping = s.stopping /\ Released(s).error = s.error
           /\ Released(s).count = s.count /\ Released(s).saved = s.saved
           /\ Released(s).dirtyCount = s.dirtyCount
  BY DEF Released, States

LEMMA AddedTyped == ASSUME NEW count \in Counts PROVE Added(count) \in Counts
  BY ConstantsAssumption DEF Added, Counts

(* What a command leaves, whatever it does.                                *)
Leaves(s, command, o) ==
    /\ o.state \in States /\ o.file \in Counts \cup {Unreadable}
    /\ o.state.applied = s.applied
    /\ o.state.redraw = IF command.kind = "redraw" THEN command.sequence ELSE s.redraw
    /\ s.error => o.state.error
    /\ o.state.count = CountAfter(s.count, command.kind)
    /\ o.state.saved => o.file = o.state.count
    /\ o.state.stopping <=> s.stopping \/ command.kind = "stop"
    /\ o.state.window => s.window \/ command.kind = "surface"
    /\ command.kind \in Releasing => ~o.state.window /\ ~o.state.scene
    /\ command.kind = "redraw" =>
         o.state.drawn = s.applied \/ o.state.dirtyVisual \/ ~o.state.scene \/ o.state.error

(* create_surface() draws, or records an error.                            *)
LEMMA CreatesFacts ==
    ASSUME NEW s \in States, NEW t \in Creates(s)
    PROVE  /\ t \in States
           /\ t.applied = s.applied /\ t.redraw = s.redraw /\ t.stopping = s.stopping
           /\ t.count = s.count /\ t.saved = s.saved
           /\ s.error => t.error
<1> DEFINE held == [Released(s) EXCEPT !.window = TRUE]
           drawn == [held EXCEPT !.scene = TRUE, !.vsync = FALSE]
<1>1. /\ held \in States /\ drawn \in States
      /\ drawn.applied = s.applied /\ drawn.redraw = s.redraw /\ drawn.stopping = s.stopping
      /\ drawn.count = s.count /\ drawn.saved = s.saved /\ drawn.error = s.error
      /\ held.applied = s.applied /\ held.redraw = s.redraw /\ held.stopping = s.stopping
      /\ held.count = s.count /\ held.saved = s.saved /\ held.error = s.error
  BY ReleasedFacts, ZenonT(20) DEF States
<1>2. t = [held EXCEPT !.error = TRUE] \/ t \in Draws(drawn)
  BY DEF Creates
<1> HIDE DEF held, drawn
<1>3. CASE t = [held EXCEPT !.error = TRUE]
  BY <1>1, <1>3 DEF States
<1>4. CASE t \in Draws(drawn)
  BY <1>1, <1>4, DrawsFacts DEF Onward
<1>5. QED
  BY <1>2, <1>3, <1>4

(* The commands that may save: pause, stop and the controls.               *)
Saving == {"pause", "stop", "add", "reset", "toggle"}

LEMMA SavingLeaves ==
    ASSUME NEW s \in States, NEW command \in Commands, NEW o \in Applies(s, command),
           file \in Counts \cup {Unreadable}, s.saved => file = s.count,
           command.kind \in Saving
    PROVE  Leaves(s, command, o)
<1>1. CASE command.kind = "pause"
  <2> DEFINE t == [s EXCEPT !.resumed = FALSE]
  <2>1. /\ t \in States /\ t.count = s.count /\ t.saved = s.saved /\ t.error = s.error
        /\ Onward(s, t)
    BY DEF States, Onward
  <2>2. PICK p \in Persists(t) : o = [p EXCEPT !.state.dirtyVisual = TRUE]
    BY <1>1 DEF Applies
  <2> HIDE DEF t
  <2>3. /\ Onward(t, p.state) /\ p.state.count = t.count /\ p \in [state : States, file : Counts \cup {Unreadable}]
        /\ p.state.saved => p.file = p.state.count
    BY <2>1, PersistsFacts
  <2>4. o = [state |-> [p.state EXCEPT !.dirtyVisual = TRUE], file |-> p.file]
    BY <2>2, <2>3
  <2>5. QED
    BY <1>1, <2>1, <2>3, <2>4, ZenonT(20) DEF Leaves, Onward, States, CountAfter, Releasing
<1>2. CASE command.kind = "stop"
  <2>1. PICK p \in Persists(s) : o = [p EXCEPT !.state = [Released(p.state) EXCEPT !.stopping = TRUE]]
    BY <1>2 DEF Applies
  <2>2. /\ Onward(s, p.state) /\ p.state.count = s.count /\ p \in [state : States, file : Counts \cup {Unreadable}]
        /\ p.state.saved => p.file = p.state.count
    BY PersistsFacts
  <2> DEFINE t == Released(p.state)
  <2>3. o = [state |-> [t EXCEPT !.stopping = TRUE], file |-> p.file]
    BY <2>1, <2>2
  <2>4. /\ t \in States /\ ~t.scene /\ ~t.window /\ t.applied = s.applied /\ t.redraw = s.redraw
        /\ s.error => t.error
        /\ t.count = s.count /\ t.saved = p.state.saved
    BY <2>2, ReleasedFacts DEF Onward
  <2> HIDE DEF t
  <2>5. QED
    BY <1>2, <2>2, <2>3, <2>4 DEF Leaves, States, CountAfter, Releasing
<1>3. CASE command.kind \in Inputs
  <2> DEFINE t == CASE command.kind = "add" -> [s EXCEPT !.count = Added(@), !.dirtyCount = TRUE]
                    [] command.kind = "reset" -> [s EXCEPT !.count = 0, !.dirtyCount = TRUE]
                    [] command.kind = "toggle" -> [s EXCEPT !.paused = ~@]
  <2>1. /\ t \in States /\ t.count = CountAfter(s.count, command.kind)
        /\ ~t.dirtyCount /\ t.saved => file = t.count
        /\ t.applied = s.applied /\ t.redraw = s.redraw /\ t.stopping = s.stopping
        /\ t.window = s.window /\ t.error = s.error
    <3>1. CASE command.kind = "add"
      <4>1. t = [s EXCEPT !.count = Added(s.count), !.dirtyCount = TRUE]
        BY <3>1
      <4>2. s.count \in Counts /\ Added(s.count) \in Counts
        BY AddedTyped DEF States
      <4>3. QED
        BY <3>1, <4>1, <4>2 DEF States, CountAfter
    <3>2. CASE command.kind = "reset"
      <4>1. t = [s EXCEPT !.count = 0, !.dirtyCount = TRUE] /\ 0 \in Counts
        BY <3>2, ConstantsAssumption DEF Counts
      <4>2. QED
        BY <3>2, <4>1 DEF States, CountAfter
    <3>3. CASE command.kind = "toggle"
      <4>1. t = [s EXCEPT !.paused = ~s.paused]
        BY <3>3
      <4>2. QED
        BY <3>3, <4>1 DEF States, CountAfter
    <3>4. QED
      BY <1>3, <3>1, <3>2, <3>3 DEF Inputs
  <2>2. PICK p \in Persists(t) : o = [p EXCEPT !.state.dirtyVisual = TRUE]
    BY <1>3 DEF Applies, Controls, Inputs
  <2> HIDE DEF t
  <2>3. /\ Onward(t, p.state) /\ p.state.count = t.count /\ p \in [state : States, file : Counts \cup {Unreadable}]
        /\ p.state.saved => p.file = p.state.count
    BY <2>1, PersistsFacts
  <2>4. o = [state |-> [p.state EXCEPT !.dirtyVisual = TRUE], file |-> p.file]
    BY <2>2, <2>3
  <2>5. QED
    BY <1>3, <2>1, <2>3, <2>4, ZenonT(20) DEF Leaves, Onward, States, Inputs, Releasing
<1>4. QED
  BY <1>1, <1>2, <1>3 DEF Saving, Inputs

(* The others leave the file.                                              *)
LEMMA OthersLeave ==
    ASSUME NEW s \in States, NEW command \in Commands, NEW o \in Applies(s, command),
           file \in Counts \cup {Unreadable}, s.saved => file = s.count,
           command.kind \notin Saving
    PROVE  Leaves(s, command, o)
<1>1. ASSUME NEW t \in States, o = Outcome(t, file), command.kind # "redraw",
             t.applied = s.applied, t.redraw = s.redraw, t.stopping = s.stopping,
             t.count = s.count, t.saved = s.saved, s.error => t.error,
             t.window => s.window \/ command.kind = "surface",
             command.kind = "detach" => ~t.window /\ ~t.scene
      PROVE  Leaves(s, command, o)
  BY <1>1 DEF Leaves, Outcome, CountAfter, Saving, Releasing
<1>2. CASE command.kind = "surface"
  <2>1. PICK t \in IF s.error THEN {s} ELSE Creates(s) : o = Outcome(t, file)
    BY <1>2 DEF Applies
  <2>2. QED
    BY <1>1, <1>2, <2>1, CreatesFacts
<1>3. CASE command.kind = "detach"
  <2>1. o = Outcome(Released(s), file)
    BY <1>3 DEF Applies
  <2>2. QED
    BY <1>1, <1>3, <2>1, ReleasedFacts
<1>4. CASE command.kind = "redraw"
  <2> DEFINE asked == [s EXCEPT !.redraw = command.sequence]
  <2>1. /\ asked \in States /\ asked.redraw = command.sequence /\ asked.applied = s.applied
        /\ asked.stopping = s.stopping /\ asked.window = s.window /\ asked.scene = s.scene
        /\ asked.error = s.error /\ asked.count = s.count /\ asked.saved = s.saved
    BY DEF States, Commands
  <2>2. PICK t \in Draws(asked) : o = Outcome(t, file)
    BY <1>4 DEF Applies
  <2> HIDE DEF asked
  <2>3. QED
    BY <1>4, <2>1, <2>2, DrawsFacts DEF Leaves, Outcome, Onward, CountAfter, Releasing
<1>5. CASE command.kind = "timeout"
  <2>1. o = Outcome([s EXCEPT !.error = TRUE], file)
    BY <1>5 DEF Applies
  <2>2. QED
    BY <1>1, <1>5, <2>1 DEF States
<1>6. CASE command.kind = "snapshot"
  BY <1>1, <1>6 DEF Applies
<1>7. CASE command.kind \in {"visible", "hidden", "resume", "content"}
  <2>1. PICK t \in {[s EXCEPT !.visible = TRUE, !.dirtyVisual = TRUE], [s EXCEPT !.visible = FALSE],
                    [s EXCEPT !.resumed = TRUE, !.dirtyVisual = TRUE], [s EXCEPT !.dirtyVisual = TRUE]} :
          o = Outcome(t, file)
    BY <1>7 DEF Applies
  <2>2. /\ t \in States /\ t.applied = s.applied /\ t.redraw = s.redraw /\ t.stopping = s.stopping
        /\ t.count = s.count /\ t.saved = s.saved /\ t.error = s.error /\ t.window = s.window
    BY <2>1, ZenonT(20) DEF States
  <2>3. QED
    BY <1>1, <1>7, <2>1, <2>2
<1>8. QED
  BY <1>2, <1>3, <1>4, <1>5, <1>6, <1>7
  DEF Commands, Kinds, Saving, Inputs, Lifecycle, Awaited, Releasing

LEMMA AppliesLeaves ==
    ASSUME NEW s \in States, NEW command \in Commands, NEW o \in Applies(s, command),
           file \in Counts \cup {Unreadable}, s.saved => file = s.count
    PROVE  Leaves(s, command, o)
  BY SavingLeaves, OthersLeave
-------------------------------------------------------------------------------
(* The commands not yet done.                                              *)

LEMMA QueueTyped ==
    ASSUME TypeOK
    PROVE  /\ Waiting \in Nat
           /\ \A i \in 1 .. Waiting : Queued(i) \in Commands
  BY DEF TypeOK, Waiting, Queued

(* process_commands() takes the first.                                     *)
LEMMA ProcessQueue ==
    ASSUME TypeOK, batch # <<>>, batch' = Tail(batch), UNCHANGED commands
    PROVE  /\ 1 \in 1 .. Waiting /\ Queued(1) = Head(batch)
           /\ Waiting' = Waiting - 1
           /\ \A i \in 1 .. Waiting' : i + 1 \in 1 .. Waiting /\ Queued(i)' = Queued(i + 1)
<1>1. /\ batch \in Seq(Commands) /\ commands \in Seq(Commands)
      /\ Len(batch) \in Nat \ {0} /\ Len(commands) \in Nat
      /\ Len(Tail(batch)) = Len(batch) - 1
      /\ \A i \in 1 .. Len(batch) - 1 : Tail(batch)[i] = batch[i + 1]
  BY DEF TypeOK
<1>2. QED
  BY <1>1 DEF Waiting, Queued

(* All of them are swapped in when the batch is done.                      *)
LEMMA SwapQueue ==
    ASSUME TypeOK, batch = <<>>, batch' = commands, commands' = <<>>
    PROVE  /\ Waiting' = Waiting
           /\ \A i \in 1 .. Waiting : Queued(i)' = Queued(i)
<1>1. commands \in Seq(Commands) /\ Len(commands) \in Nat /\ Len(batch) = 0 /\ Len(commands') = 0
  BY DEF TypeOK
<1>2. QED
  BY <1>1 DEF Waiting, Queued

(* enqueue() adds one at the end.                                          *)
LEMMA EnqueueQueue ==
    ASSUME TypeOK, NEW command \in Commands, commands' = Append(commands, command), UNCHANGED batch
    PROVE  /\ Waiting' = Waiting + 1 /\ Queued(Waiting)' = command
           /\ \A i \in 1 .. Waiting : Queued(i)' = Queued(i)
           /\ commands' \in Seq(Commands)
<1>1. /\ batch \in Seq(Commands) /\ commands \in Seq(Commands)
      /\ Len(batch) \in Nat /\ Len(commands) \in Nat
      /\ Len(commands') = Len(commands) + 1 /\ commands'[Len(commands) + 1] = command
      /\ \A i \in 1 .. Len(commands) : commands'[i] = commands[i]
      /\ commands' \in Seq(Commands)
  BY DEF TypeOK
<1>2. QED
  BY <1>1 DEF Waiting, Queued

LEMMA SameQueue ==
    ASSUME UNCHANGED <<batch, commands>>
    PROVE  Waiting' = Waiting /\ \A i \in 1 .. Waiting : Queued(i)' = Queued(i)
  BY DEF Waiting, Queued
-------------------------------------------------------------------------------
(* The rendering thread between commands.                                  *)

(* The count that is wanted is what the commands that wait make of it.     *)
LEMMA CountStays ==
    ASSUME CountOK, Waiting' = Waiting, \A i \in 1 .. Waiting : Queued(i)' = Queued(i),
           CountNow' = CountNow, wanted' = wanted
    PROVE  CountOK'
<1>1. PICK f \in [0 .. Waiting -> Counts] :
         /\ f[0] = CountNow /\ f[Waiting] = wanted
         /\ \A i \in 1 .. Waiting : f[i] = CountAfter(f[i - 1], Queued(i).kind)
  BY DEF CountOK
<1>2. \A i \in 1 .. Waiting : f[i] = CountAfter(f[i - 1], Queued(i)'.kind)
  BY <1>1
<1>3. QED
  BY <1>1, <1>2 DEF CountOK

(* What it may do to its state then: draw all that was applied, or not;    *)
(* see that something is to be drawn; and fail.                            *)
Drawing(s, t) ==
    /\ Onward(s, t) /\ t.count = s.count /\ t.saved = s.saved
    /\ t.drawn \in {s.drawn, s.applied}
    /\ ~t.dirtyVisual => t.drawn = s.applied \/ ~s.dirtyVisual

LEMMA DrawingDraws ==
    ASSUME NEW s \in States, NEW t \in Draws(s)
    PROVE  Drawing(s, t)
  BY DrawsFacts DEF Drawing

LEMMA DrawingSchedules ==
    ASSUME NEW s \in States
    PROVE  Drawing(s, Scheduled(s))
  BY ScheduledFacts DEF Drawing, Reported

LEMMA DrawingTwice ==
    ASSUME NEW s, NEW t, NEW u, Drawing(s, t), Drawing(t, u)
    PROVE  Drawing(s, u)
  BY DEF Drawing, Onward

(* publish() between commands keeps the invariant.                         *)
LEMMA PublishKeeps ==
    ASSUME IInv, NEW t, Drawing(state, t), Publish(t, numbers.completed),
           UNCHANGED <<commands, readable, exited, late, batch, file, main, activity, wanted>>,
           \/ UNCHANGED worker /\ worker = "polling"
           \/ /\ worker = "processing" /\ batch = <<>>
              /\ worker' = IF state.stopping THEN "leaving" ELSE "polling"
    PROVE  IInv'
<1>1. /\ t \in States /\ t.applied = state.applied /\ t.redraw = state.redraw
      /\ t.stopping = state.stopping /\ t.window = state.window /\ t.scene = state.scene
      /\ state.error => t.error
      /\ t.count = state.count /\ t.saved = state.saved
      /\ t.drawn \in {state.drawn, state.applied}
      /\ ~t.dirtyVisual => t.drawn = state.applied \/ ~state.dirtyVisual
  BY DEF Drawing, Onward
<1>2. /\ state' \in States /\ state'.applied = t.applied /\ state'.stopping = t.stopping
      /\ state'.window = t.window /\ state'.scene = t.scene /\ state'.error = t.error
      /\ state'.count = t.count /\ state'.saved = t.saved /\ state'.drawn = t.drawn
      /\ state'.dirtyVisual = t.dirtyVisual
      /\ state'.redraw = IF Acknowledges(t) THEN 0 ELSE t.redraw
  BY <1>1 DEF Publish, States
<1>3. /\ numbers' \in [next : Nat, completed : Nat, redraw : Nat]
      /\ numbers'.next = numbers.next /\ numbers'.completed = numbers.completed
      /\ numbers'.redraw = IF Acknowledges(t) THEN t.redraw ELSE numbers.redraw
  BY <1>1 DEF Publish, IInv, TypeOK, States
<1>4. published' = Reported(t) /\ Waiting' = Waiting /\ \A i \in 1 .. Waiting : Queued(i)' = Queued(i)
  BY SameQueue DEF Publish
<1> USE DEF Calling, Stopping
<1>5. TypeOK'
  BY <1>1, <1>2, <1>3, <1>4 DEF IInv, TypeOK, Reported, States, RedrawOK
<1>6. QueueOK' /\ CallOK'
  BY <1>3, <1>4, QueueTyped DEF IInv, QueueOK, CallOK
<1>7. StopOK' /\ StartOK'
  BY <1>1, <1>2, <1>4 DEF IInv, StopOK, StartOK
<1>8. WindowOK' /\ PublishedOK'
  BY <1>1, <1>2, <1>3, <1>4 DEF IInv, WindowOK, PublishedOK, Reported
<1>9. RedrawOK'
  <2>1. /\ state'.applied = numbers'.completed
        /\ state'.redraw <= numbers'.completed /\ numbers'.redraw <= numbers'.completed
    BY <1>1, <1>2, <1>3 DEF IInv, RedrawOK, TypeOK
  <2>2. state'.redraw # 0 => state'.dirtyVisual /\ state'.scene /\ ~state'.error
    BY <1>2 DEF Acknowledges
  <2>3. ASSUME Calling, main.command.kind = "redraw", numbers'.redraw >= main.command.sequence
        PROVE  state'.drawn >= main.command.sequence \/ ~state'.scene \/ state'.error
    <3>1. main.command.sequence \in Nat /\ state.applied >= state.redraw /\ state.applied >= numbers.redraw
          /\ state.applied \in Nat /\ state.redraw \in Nat /\ numbers.redraw \in Nat /\ state.drawn \in Nat
      BY <2>3 DEF IInv, CallOK, RedrawOK, TypeOK, States
    <3>2. CASE Acknowledges(t)
      BY <1>1, <1>2, <1>3, <2>3, <3>1, <3>2 DEF Acknowledges, IInv, RedrawOK
    <3>3. CASE ~Acknowledges(t)
      BY <1>1, <1>2, <1>3, <2>3, <3>1, <3>3 DEF IInv, RedrawOK
    <3>4. QED
      BY <3>2, <3>3
  <2>4. QED
    BY <2>1, <2>2, <2>3 DEF RedrawOK
<1>10. CountOK'
  <2>1. CountNow' = CountNow /\ wanted' = wanted
    BY <1>1, <1>2 DEF CountNow
  <2>2. QED
    BY <1>4, <2>1, CountStays DEF IInv
<1>11. QED
  BY <1>5, <1>6, <1>7, <1>8, <1>9, <1>10 DEF IInv

(* What is not published is nothing that anybody waits for.                *)
LEMMA UnpublishedKeeps ==
    ASSUME IInv, NEW t, Drawing(state, t), t.error = state.error, t.dirtyVisual = state.dirtyVisual,
           t.drawn = state.drawn,
           state' = t, worker = "polling",
           UNCHANGED <<published, numbers, commands, readable, exited, late, worker, batch, file, main,
                       activity, wanted>>
    PROVE  IInv'
<1>1. /\ t \in States /\ t.applied = state.applied /\ t.redraw = state.redraw
      /\ t.stopping = state.stopping /\ t.window = state.window /\ t.scene = state.scene
      /\ t.count = state.count /\ t.saved = state.saved
  BY DEF Drawing, Onward
<1>2. Waiting' = Waiting /\ \A i \in 1 .. Waiting : Queued(i)' = Queued(i)
  BY SameQueue
<1> USE DEF Calling, Stopping
<1>3. TypeOK'
  BY <1>1 DEF IInv, TypeOK
<1>4. QueueOK' /\ CallOK'
  BY <1>2, QueueTyped DEF IInv, QueueOK, CallOK
<1>5. StopOK' /\ StartOK' /\ WindowOK'
  BY <1>1, <1>2 DEF IInv, StopOK, StartOK, WindowOK
<1>6. PublishedOK' /\ RedrawOK'
  BY <1>1 DEF IInv, PublishedOK, RedrawOK, Reported
<1>7. CountOK'
  <2>1. CountNow' = CountNow /\ wanted' = wanted
    BY <1>1 DEF CountNow
  <2>2. QED
    BY <1>2, <2>1, CountStays DEF IInv
<1>8. QED
  BY <1>3, <1>4, <1>5, <1>6, <1>7 DEF IInv

LEMMA EndBatchKeeps ==
    ASSUME IInv, EndBatch
    PROVE  IInv'
<1>1. PICK s \in {state} \cup Draws(state) : Publish(Scheduled(s), numbers.completed)
  BY DEF EndBatch
<1>2. state \in States
  BY DEF IInv, TypeOK
<1>3. Drawing(state, state)
  BY <1>2 DEF Drawing, Onward
<1>4. Drawing(state, s)
  BY <1>1, <1>2, <1>3, DrawingDraws
<1>5. Drawing(s, Scheduled(s))
  BY <1>4, DrawingSchedules DEF Drawing, Onward
<1>6. Drawing(state, Scheduled(s))
  BY <1>4, <1>5, DrawingTwice
<1>7. QED
  BY <1>1, <1>6, PublishKeeps DEF EndBatch

LEMMA PollsKeep ==
    ASSUME IInv, Polls(OnFrame) \/ Polls(OnFrameTimer) \/ Polls(CheckSurface)
    PROVE  IInv'
<1>1. /\ worker = "polling" /\ state \in States
      /\ UNCHANGED <<commands, readable, exited, late, worker, batch, file, main, activity, wanted>>
  BY DEF IInv, TypeOK, Polls
<1>2. ASSUME NEW t, Drawing(state, t), Publish(t, numbers.completed)
      PROVE  IInv'
  BY <1>1, <1>2, PublishKeeps
<1>3. ASSUME NEW t, Drawing(state, t), t.error = state.error, t.dirtyVisual = state.dirtyVisual,
             t.drawn = state.drawn, Unpublished(t)
      PROVE  IInv'
  BY <1>1, <1>3, UnpublishedKeeps DEF Unpublished
<1>4. ASSUME NEW s, Drawing(state, s), NEW t \in Draws(s), Publish(Scheduled(t), numbers.completed)
      PROVE  IInv'
  <2>1. Drawing(s, t)
    BY <1>4, DrawingDraws DEF Drawing, Onward
  <2>2. Drawing(t, Scheduled(t))
    BY <2>1, DrawingSchedules DEF Drawing, Onward
  <2>3. Drawing(state, Scheduled(t))
    BY <1>4, <2>1, <2>2, DrawingTwice
  <2>4. QED
    BY <1>2, <1>4, <2>3
<1>5. CASE OnFrame
  <2> DEFINE due == [state EXCEPT !.pending = FALSE]
  <2>1. CASE Unpublished(due)
    <3>1. /\ Drawing(state, due) /\ due.error = state.error /\ due.dirtyVisual = state.dirtyVisual
          /\ due.drawn = state.drawn
      BY <1>1 DEF Drawing, Onward, States
    <3>2. QED
      BY <1>3, <2>1, <3>1
  <2>2. ASSUME NEW vsync \in {state.vsync, TRUE},
               LET told == [due EXCEPT !.vsync = vsync]
               IN \/ Unpublished(Scheduled(told))
                  \/ \E s \in Draws(told) : Publish(Scheduled(s), numbers.completed)
        PROVE  IInv'
    <3> DEFINE told == [due EXCEPT !.vsync = vsync]
    <3>1. /\ Drawing(state, told) /\ told \in States
          /\ told.error = state.error /\ told.dirtyVisual = state.dirtyVisual
          /\ told.drawn = state.drawn
      BY <1>1 DEF Drawing, Onward, States
    <3>2. Unpublished(Scheduled(told)) \/ \E s \in Draws(told) : Publish(Scheduled(s), numbers.completed)
      BY <2>2
    <3> HIDE DEF told
    <3>3. CASE Unpublished(Scheduled(told))
      <4>1. /\ Drawing(told, Scheduled(told)) /\ Scheduled(told).error = state.error
            /\ Scheduled(told).dirtyVisual = state.dirtyVisual /\ Scheduled(told).drawn = state.drawn
        BY <3>1, DrawingSchedules, ScheduledFacts
      <4>2. Drawing(state, Scheduled(told))
        BY <3>1, <4>1, DrawingTwice
      <4>3. QED
        BY <1>3, <3>3, <4>1, <4>2
    <3>4. QED
      BY <1>4, <3>1, <3>2, <3>3
  <2>3. QED
    BY <1>5, <2>1, <2>2 DEF OnFrame
<1>6. CASE OnFrameTimer
  <2>1. PICK t \in Draws(state) : Publish(t, numbers.completed)
    BY <1>6 DEF OnFrameTimer
  <2>2. QED
    BY <1>1, <1>2, <2>1, DrawingDraws
<1>7. CASE CheckSurface
  <2>1. CASE Publish([state EXCEPT !.error = TRUE], numbers.completed)
    <3>1. Drawing(state, [state EXCEPT !.error = TRUE])
      BY <1>1 DEF Drawing, Onward, States
    <3>2. QED
      BY <1>2, <2>1, <3>1
  <2>2. ASSUME NEW changed \in BOOLEAN,
               LET checked == [state EXCEPT !.dirtyVisual = @ \/ changed]
               IN IF checked.dirtyVisual
                    THEN \E s \in Draws(checked) : Publish(Scheduled(s), numbers.completed)
                    ELSE Unpublished(checked)
        PROVE  IInv'
    <3> DEFINE checked == [state EXCEPT !.dirtyVisual = @ \/ changed]
    <3>1. /\ Drawing(state, checked) /\ checked.error = state.error /\ checked.drawn = state.drawn
          /\ ~checked.dirtyVisual => checked.dirtyVisual = state.dirtyVisual
      BY <1>1 DEF Drawing, Onward, States
    <3>2. \/ \E s \in Draws(checked) : Publish(Scheduled(s), numbers.completed)
          \/ ~checked.dirtyVisual /\ Unpublished(checked)
      BY <2>2
    <3> HIDE DEF checked
    <3>3. QED
      BY <1>3, <1>4, <3>1, <3>2
  <2>3. QED
    BY <1>7, <2>1, <2>2 DEF CheckSurface
<1>8. QED
  BY <1>5, <1>6, <1>7 DEF Polls
-------------------------------------------------------------------------------
(* The rendering thread starts, takes commands, does them, and ends.       *)

(* A command done keeps the invariant, whatever it leaves.                 *)
LEMMA ProcessKeeps ==
    ASSUME IInv, Process
    PROVE  IInv'
<1> DEFINE c == Head(batch)
           s == [state EXCEPT !.applied = c.sequence]
<1>1. /\ worker = "processing" /\ batch # <<>> /\ batch' = Tail(batch)
      /\ UNCHANGED <<commands, readable, exited, late, worker, main, activity, wanted>>
  BY DEF Process
<1>2. /\ 1 \in 1 .. Waiting /\ c = Queued(1) /\ Waiting' = Waiting - 1
      /\ \A i \in 1 .. Waiting' : i + 1 \in 1 .. Waiting /\ Queued(i)' = Queued(i + 1)
  BY <1>1, ProcessQueue DEF IInv
<1>3. Waiting \in Nat /\ c \in Commands
  BY <1>2, QueueTyped DEF IInv
<1>4. /\ c.sequence = numbers.completed + 1 /\ c.sequence \in Nat /\ c.sequence <= numbers.next
      /\ numbers.next \in Nat /\ numbers.completed \in Nat /\ numbers.redraw \in Nat
      /\ numbers.next = numbers.completed + Waiting
  BY <1>2, <1>3 DEF IInv, QueueOK, TypeOK, Commands
<1>5. /\ s \in States /\ s.applied = c.sequence /\ s.redraw = state.redraw /\ s.stopping = state.stopping
      /\ s.window = state.window /\ s.count = state.count /\ s.saved = state.saved /\ s.error = state.error
  BY <1>4 DEF IInv, TypeOK, States
<1>6. PICK o \in Applies(s, c) : Publish(o.state, c.sequence) /\ file' = o.file
  BY DEF Process
<1> HIDE DEF c, s
<1>7. file \in Counts \cup {Unreadable} /\ (s.saved => file = s.count)
  BY <1>1, <1>5 DEF IInv, TypeOK, PublishedOK
<1>8. Leaves(s, c, o)
  BY <1>3, <1>5, <1>6, <1>7, AppliesLeaves
<1> DEFINE t == o.state
<1>9. /\ t \in States /\ o.file \in Counts \cup {Unreadable} /\ t.applied = c.sequence
      /\ t.redraw = IF c.kind = "redraw" THEN c.sequence ELSE state.redraw
      /\ t.count = CountAfter(state.count, c.kind)
      /\ t.saved => o.file = t.count
      /\ t.stopping <=> state.stopping \/ c.kind = "stop"
      /\ t.window => state.window \/ c.kind = "surface"
      /\ c.kind \in Releasing => ~t.window /\ ~t.scene
      /\ c.kind = "redraw" => t.drawn = c.sequence \/ t.dirtyVisual \/ ~t.scene \/ t.error
  BY <1>5, <1>8 DEF Leaves
<1>10. published' = Reported(t) /\ Publish(t, c.sequence) /\ file' = o.file
  BY <1>6 DEF Publish
<1> HIDE DEF t
<1>11. /\ state' \in States /\ state'.applied = t.applied /\ state'.stopping = t.stopping
       /\ state'.window = t.window /\ state'.scene = t.scene /\ state'.error = t.error
       /\ state'.count = t.count /\ state'.saved = t.saved /\ state'.drawn = t.drawn
       /\ state'.dirtyVisual = t.dirtyVisual
       /\ state'.redraw = IF Acknowledges(t) THEN 0 ELSE t.redraw
  BY <1>9, <1>10 DEF Publish, States
<1>12. /\ numbers' \in [next : Nat, completed : Nat, redraw : Nat]
       /\ numbers'.next = numbers.next /\ numbers'.completed = c.sequence
       /\ numbers'.redraw = IF Acknowledges(t) THEN t.redraw ELSE numbers.redraw
  BY <1>4, <1>9, <1>10 DEF Publish, IInv, TypeOK, States
<1>13. state.redraw <= numbers.completed /\ numbers.redraw <= numbers.completed /\ state.redraw \in Nat
  BY DEF IInv, RedrawOK, TypeOK, States
<1>14. t.redraw <= c.sequence /\ t.redraw \in Nat
  BY <1>4, <1>9, <1>13
<1>15. batch' \in Seq(Commands)
  BY <1>1 DEF IInv, TypeOK
<1> USE DEF Calling, Stopping
<1>16. TypeOK'
  BY <1>1, <1>4, <1>9, <1>10, <1>11, <1>12, <1>13, <1>14, <1>15 DEF IInv, TypeOK, Reported, States
<1>17. QueueOK'
  <2>1. \A i \in 1 .. Waiting' : Queued(i)'.sequence = numbers'.completed + i
    <3> TAKE i \in 1 .. Waiting'
    <3>1. i \in Nat /\ i + 1 \in 1 .. Waiting /\ Queued(i)' = Queued(i + 1)
      BY <1>2, <1>3
    <3>2. Queued(i + 1).sequence = numbers.completed + (i + 1)
      BY <3>1 DEF IInv, QueueOK
    <3>3. QED
      BY <1>4, <1>12, <3>1, <3>2
  <2>2. numbers'.next = numbers'.completed + Waiting'
    BY <1>2, <1>3, <1>4, <1>12
  <2>3. QED
    BY <1>1, <2>1, <2>2 DEF QueueOK
<1>24. CallOK'
  <2>1. ASSUME Calling, Waiting' > 0
        PROVE  Queued(Waiting)' = main.command
    <3>1. Waiting' \in 1 .. Waiting' /\ Waiting' + 1 = Waiting /\ Waiting > 0
      BY <1>2, <1>3, <2>1
    <3>2. Queued(Waiting) = main.command
      BY <2>1, <3>1 DEF IInv, CallOK
    <3>3. Queued(Waiting)' = Queued(Waiting)
      BY <1>2, <3>1 DEF Queued
    <3>4. QED
      BY <3>2, <3>3
  <2>2. UNCHANGED main
    BY <1>1
  <2>3. Calling => main.command.sequence = numbers.next /\ numbers.next > 0
    BY DEF IInv, CallOK
  <2>4. QED
    BY <1>12, <2>1, <2>2, <2>3 DEF CallOK
<1>18. StopOK'
  <2>1. ~state.stopping
    BY <1>1, <1>2, <1>3 DEF IInv, StopOK
  <2>2. c.kind = "stop" => Waiting = 1 /\ Stopping
    BY <1>2 DEF IInv, StopOK
  <2>3. \A i \in 1 .. Waiting' : Queued(i)'.kind = "stop" => i = Waiting' /\ Stopping'
    <3> TAKE i \in 1 .. Waiting'
    <3>1. i \in Nat /\ i + 1 \in 1 .. Waiting /\ Queued(i)' = Queued(i + 1)
      BY <1>2, <1>3
    <3>2. Queued(i + 1).kind = "stop" => i + 1 = Waiting /\ Stopping
      BY <3>1 DEF IInv, StopOK
    <3>3. QED
      BY <1>1, <1>2, <1>3, <3>1, <3>2
  <2>4. QED
    BY <1>1, <1>2, <1>3, <1>9, <1>11, <2>1, <2>2, <2>3 DEF IInv, StopOK, Releasing
<1>19. StartOK' /\ PublishedOK'
  BY <1>1, <1>9, <1>10, <1>11 DEF StartOK, PublishedOK, Reported
<1>20. WindowOK'
  <2>1. ~activity.window => ~state.window /\ \A i \in 1 .. Waiting : Queued(i).kind # "surface"
    BY <1>1 DEF IInv, WindowOK, StopOK
  <2>2. ~activity.window => ~t.window /\ \A i \in 1 .. Waiting' : Queued(i)'.kind # "surface"
    BY <1>2, <1>9, <2>1
  <2>3. Calling /\ main.command.kind = "detach" /\ c.sequence = numbers.next => c.kind = "detach"
    BY <1>2, <1>3, <1>4 DEF IInv, CallOK
  <2>4. QED
    BY <1>1, <1>9, <1>11, <1>12, <2>2, <2>3 DEF WindowOK, Releasing
<1>21. RedrawOK'
  <2>1. state'.redraw # 0 => state'.dirtyVisual /\ state'.scene /\ ~state'.error
    BY <1>11 DEF Acknowledges
  <2>2. ASSUME Calling, main.command.kind = "redraw", numbers'.redraw >= main.command.sequence
        PROVE  state'.drawn >= main.command.sequence \/ ~state'.scene \/ state'.error
    <3>1. main.command.sequence = numbers.next /\ c.sequence > numbers.completed
      BY <1>4, <2>2 DEF IInv, CallOK
    <3>2. Acknowledges(t) /\ t.redraw >= numbers.next
      BY <1>4, <1>12, <1>13, <2>2, <3>1
    <3>3. c.kind = "redraw" /\ c.sequence = numbers.next
      BY <1>4, <1>9, <1>13, <3>1, <3>2
    <3>4. QED
      BY <1>4, <1>9, <1>11, <3>1, <3>2, <3>3 DEF Acknowledges
  <2>3. QED
    BY <1>1, <1>4, <1>9, <1>11, <1>12, <1>13, <1>14, <2>1, <2>2 DEF RedrawOK
<1>22. CountOK'
  <2>1. PICK f \in [0 .. Waiting -> Counts] :
           /\ f[0] = CountNow /\ f[Waiting] = wanted
           /\ \A i \in 1 .. Waiting : f[i] = CountAfter(f[i - 1], Queued(i).kind)
    BY DEF IInv, CountOK
  <2> DEFINE g == [i \in 0 .. Waiting' |-> f[i + 1]]
  <2>2. g \in [0 .. Waiting' -> Counts]
    BY <1>2, <1>3, <2>1
  <2>3. CountNow = state.count /\ CountNow' = t.count
    BY <1>1, <1>11 DEF CountNow
  <2>4. f[1] = CountAfter(state.count, c.kind)
    BY <1>2, <2>1, <2>3
  <2>5. g[0] = CountNow' /\ g[Waiting'] = wanted'
    BY <1>1, <1>2, <1>3, <1>9, <2>1, <2>3, <2>4
  <2>6. \A i \in 1 .. Waiting' : g[i] = CountAfter(g[i - 1], Queued(i)'.kind)
    <3> TAKE i \in 1 .. Waiting'
    <3>1. /\ i + 1 \in 1 .. Waiting /\ Queued(i)' = Queued(i + 1) /\ i \in Nat
          /\ i \in 0 .. Waiting' /\ i - 1 \in 0 .. Waiting'
      BY <1>2, <1>3
    <3>2. f[i + 1] = CountAfter(f[i], Queued(i + 1).kind)
      BY <2>1, <3>1
    <3>3. g[i] = f[i + 1] /\ g[i - 1] = f[i]
      BY <3>1
    <3>4. QED
      BY <3>1, <3>2, <3>3
  <2> HIDE DEF g
  <2>7. QED
    BY <2>2, <2>5, <2>6 DEF CountOK
<1>23. QED
  BY <1>16, <1>17, <1>18, <1>19, <1>20, <1>21, <1>22, <1>24 DEF IInv

(* The thread starts with the restored count, saved, or with the file's;   *)
(* the count that the user expects is one of the two.                      *)
LEMMA StartKeeps ==
    ASSUME IInv, Start
    PROVE  IInv'
<1> DEFINE read == LoadCount(file)
           count == IF activity.restored = NotRestored THEN read.count ELSE activity.restored
           loaded == [state EXCEPT !.count = count, !.saved = read.ok,
                        !.dirtyCount = activity.restored # NotRestored /\ (~read.ok \/ read.count # count)]
<1>1. /\ worker = "starting" /\ batch = <<>> /\ state = Fresh(activity.restored) /\ state \in States
      /\ file \in Counts \cup {Unreadable} /\ activity.restored \in RestoredFirst
      /\ UNCHANGED <<commands, readable, exited, late, batch, main, activity, wanted>>
  BY DEF Start, IInv, TypeOK, QueueOK, StartOK
<1>2. PICK o \in Persists(loaded), failed \in BOOLEAN :
         /\ Publish([o.state EXCEPT !.error = failed, !.stopping = failed], numbers.completed)
         /\ file' = o.file /\ worker' = IF failed THEN "leaving" ELSE "polling"
  BY DEF Start
<1>3. read \in [ok : BOOLEAN, count : Counts] /\ (read.ok => file = read.count) /\ count \in Counts
  BY <1>1, ConstantsAssumption DEF LoadCount, Counts
<1>4. CountNow = count
  BY <1>1 DEF CountNow
<1>5. /\ ~state.window /\ ~state.scene /\ state.redraw = 0
  BY <1>1 DEF Fresh
<1> HIDE DEF read, count
<1>6. /\ loaded \in States /\ loaded.count = count
      /\ ~loaded.window /\ ~loaded.scene /\ loaded.redraw = 0 /\ loaded.applied = state.applied
      /\ ~loaded.dirtyCount /\ loaded.saved => file = loaded.count
  <2>1. /\ loaded \in States /\ loaded.count = count /\ loaded.saved = read.ok
        /\ ~loaded.window /\ ~loaded.scene /\ loaded.redraw = 0 /\ loaded.applied = state.applied
        /\ loaded.dirtyCount = (activity.restored # NotRestored /\ (~read.ok \/ read.count # count))
    BY <1>1, <1>3, <1>5 DEF States
  <2>2. activity.restored = NotRestored => count = read.count
    BY DEF count
  <2> HIDE DEF loaded
  <2>3. QED
    BY <1>3, <2>1, <2>2
<1> HIDE DEF loaded
<1>7. /\ Onward(loaded, o.state) /\ o.state.count = count /\ o.file \in Counts \cup {Unreadable}
      /\ o.state \in States
      /\ o.state.saved => o.file = o.state.count
  BY <1>1, <1>6, PersistsFacts DEF Onward
<1> DEFINE t == [o.state EXCEPT !.error = failed, !.stopping = failed]
<1>8. /\ t \in States /\ t.count = count /\ ~t.window /\ ~t.scene /\ t.redraw = 0
      /\ t.applied = state.applied /\ t.error = failed /\ t.stopping = failed
      /\ t.saved => o.file = t.count
  BY <1>6, <1>7, ZenonT(20) DEF States, Onward
<1>9. Publish(t, numbers.completed) /\ file' = o.file /\ worker' = IF failed THEN "leaving" ELSE "polling"
  BY <1>2
<1> HIDE DEF t
<1>10. state' = t /\ published' = Reported(t) /\ numbers' = numbers
  BY <1>8, <1>9 DEF Publish, Acknowledges, States, IInv, TypeOK
<1>11. Waiting' = Waiting /\ \A i \in 1 .. Waiting : Queued(i)' = Queued(i)
  BY <1>1, SameQueue
<1> USE DEF Calling, Stopping
<1>12. TypeOK'
  BY <1>1, <1>7, <1>8, <1>9, <1>10 DEF IInv, TypeOK, Reported, States
<1>13. QueueOK' /\ CallOK' /\ StartOK'
  BY <1>1, <1>9, <1>10, <1>11, QueueTyped DEF IInv, QueueOK, CallOK, StartOK
<1>14. StopOK'
  BY <1>1, <1>8, <1>9, <1>10, <1>11 DEF IInv, StopOK
<1>15. WindowOK' /\ RedrawOK'
  BY <1>1, <1>8, <1>10, <1>11 DEF IInv, TypeOK, WindowOK, RedrawOK
<1>19. PublishedOK'
  BY <1>8, <1>9, <1>10 DEF PublishedOK, Reported
<1>16. CountNow' = CountNow
  BY <1>4, <1>8, <1>9, <1>10 DEF CountNow
<1>17. CountOK'
  BY <1>1, <1>11, <1>16, CountStays DEF IInv
<1>18. QED
  BY <1>12, <1>13, <1>14, <1>15, <1>17, <1>19 DEF IInv

(* The thread that polls, swaps or leaves does no command.                 *)
LEMMA DrainKeeps ==
    ASSUME IInv, Drain
    PROVE  IInv'
<1>1. /\ worker = "polling" /\ worker' = "swapping" /\ readable' = FALSE
      /\ UNCHANGED <<commands, numbers, published, exited, late, batch, state, file, main, activity, wanted>>
  BY DEF Drain
<1>2. Waiting' = Waiting /\ \A i \in 1 .. Waiting : Queued(i)' = Queued(i)
  BY <1>1, SameQueue
<1>3. TypeOK'
  <2>1. worker' \in {"starting", "polling", "swapping", "processing", "leaving", "exited"} /\ readable' \in BOOLEAN
    BY <1>1
  <2>2. QED
    BY <1>1, <2>1 DEF IInv, TypeOK
<1> USE DEF Calling, Stopping
<1>4. QueueOK' /\ CallOK' /\ StopOK' /\ StartOK' /\ WindowOK'
  BY <1>1, <1>2, QueueTyped DEF IInv, QueueOK, CallOK, StopOK, StartOK, WindowOK
<1>5. PublishedOK' /\ RedrawOK' /\ CountOK'
  <2>1. PublishedOK' /\ RedrawOK'
    BY <1>1, <1>2 DEF IInv, PublishedOK, RedrawOK
  <2>2. CountNow' = CountNow /\ wanted' = wanted
    BY <1>1 DEF CountNow
  <2>3. QED
    BY <1>2, <2>1, <2>2, CountStays DEF IInv
<1>6. QED
  BY <1>3, <1>4, <1>5 DEF IInv

LEMMA SwapKeeps ==
    ASSUME IInv, Swap
    PROVE  IInv'
<1>1. /\ worker = "swapping" /\ worker' = "processing" /\ batch = <<>>
      /\ batch' = commands /\ commands' = <<>>
      /\ UNCHANGED <<readable, numbers, published, exited, late, state, file, main, activity, wanted>>
  BY DEF Swap, IInv, QueueOK
<1>2. Waiting' = Waiting /\ \A i \in 1 .. Waiting : Queued(i)' = Queued(i)
  BY <1>1, SwapQueue DEF IInv
<1> USE DEF Calling, Stopping
<1>3. TypeOK'
  BY <1>1 DEF IInv, TypeOK
<1>4. QueueOK' /\ CallOK' /\ StopOK' /\ StartOK' /\ WindowOK'
  BY <1>1, <1>2, QueueTyped DEF IInv, QueueOK, CallOK, StopOK, StartOK, WindowOK
<1>5. PublishedOK' /\ RedrawOK' /\ CountOK'
  <2>1. PublishedOK' /\ RedrawOK'
    BY <1>1, <1>2 DEF IInv, PublishedOK, RedrawOK
  <2>2. CountNow' = CountNow /\ wanted' = wanted
    BY <1>1 DEF CountNow
  <2>3. QED
    BY <1>2, <2>1, <2>2, CountStays DEF IInv
<1>6. QED
  BY <1>3, <1>4, <1>5 DEF IInv

LEMMA ExitKeeps ==
    ASSUME IInv, Exit
    PROVE  IInv'
<1>1. /\ worker = "leaving" /\ worker' = "exited" /\ exited' = TRUE
      /\ UNCHANGED <<commands, readable, numbers, published, late, batch, state, file, main, activity, wanted>>
  BY DEF Exit
<1>2. Waiting' = Waiting /\ \A i \in 1 .. Waiting : Queued(i)' = Queued(i)
  BY <1>1, SameQueue
<1> USE DEF Calling, Stopping
<1>3. TypeOK'
  BY <1>1 DEF IInv, TypeOK
<1>4. QueueOK' /\ CallOK' /\ StopOK' /\ StartOK' /\ WindowOK'
  BY <1>1, <1>2, QueueTyped DEF IInv, QueueOK, CallOK, StopOK, StartOK, WindowOK
<1>5. PublishedOK' /\ RedrawOK' /\ CountOK'
  <2>1. PublishedOK' /\ RedrawOK'
    BY <1>1, <1>2 DEF IInv, PublishedOK, RedrawOK
  <2>2. CountNow' = CountNow /\ wanted' = wanted
    BY <1>1 DEF CountNow
  <2>3. QED
    BY <1>2, <2>1, <2>2, CountStays DEF IInv
<1>6. QED
  BY <1>3, <1>4, <1>5 DEF IInv
-------------------------------------------------------------------------------
(* The main thread queues a command, waits for it, and goes on.            *)

(* enqueue(), when it is no stop that was queued before: what the caller   *)
(* owes is that the window is told before the surface, the count that the  *)
(* user expects with the input.                                            *)
LEMMA EnqueueKeeps ==
    ASSUME IInv, NEW kind \in Kinds, Enqueue(kind), ~Stopping,
           late' \in BOOLEAN, UNCHANGED activity.restored,
           activity' \in [window : BOOLEAN, visible : BOOLEAN, resumed : BOOLEAN, restored : RestoredFirst],
           ~activity'.window => ~activity.window /\ kind # "surface",
           wanted' = CountAfter(wanted, kind)
    PROVE  IInv'
<1> DEFINE command == [kind |-> kind, sequence |-> numbers.next + 1]
<1>1. /\ commands' = Append(commands, command) /\ main' = [at |-> "signalling", command |-> command]
      /\ numbers' = [numbers EXCEPT !.next = @ + 1]
      /\ UNCHANGED <<readable, worker, batch, state, file, published, exited>>
  BY DEF Enqueue, workerVars
<1>2. /\ command \in Commands /\ command.kind = kind /\ command.sequence = numbers.next + 1
      /\ numbers \in [next : Nat, completed : Nat, redraw : Nat]
  BY DEF IInv, TypeOK, Commands
<1>3. /\ numbers' \in [next : Nat, completed : Nat, redraw : Nat] /\ numbers'.next = numbers.next + 1
      /\ numbers'.completed = numbers.completed /\ numbers'.redraw = numbers.redraw
  BY <1>1, <1>2
<1>4. main'.at = "signalling" /\ main'.command = command
  BY <1>1
<1> HIDE DEF command
<1>5. /\ Waiting' = Waiting + 1 /\ Queued(Waiting)' = command /\ commands' \in Seq(Commands)
      /\ \A i \in 1 .. Waiting : Queued(i)' = Queued(i)
  BY <1>1, <1>2, EnqueueQueue DEF IInv
<1>6. Waiting \in Nat /\ \A i \in 1 .. Waiting : Queued(i) \in Commands
  BY QueueTyped DEF IInv
<1>7. /\ \A i \in 1 .. Waiting' : i = Waiting' \/ i \in 1 .. Waiting
      /\ Waiting' \in 1 .. Waiting'
  BY <1>5, <1>6
<1>8. \A i \in 1 .. Waiting' : i = Waiting' => Queued(i)' = command
  BY <1>5 DEF Queued
<1>9. TypeOK'
  <2>1. wanted' \in Counts
    BY AddedTyped, ConstantsAssumption DEF CountAfter, IInv, TypeOK, Counts
  <2>2. UNCHANGED <<state, published, file, worker, batch, readable, exited>>
    BY <1>1
  <2>3. main' \in [at : {"idle", "signalling", "waiting", "late", "freed", "aborted"},
                   command : Commands \cup {NoCommand}]
    BY <1>1, <1>2
  <2>4. QED
    BY <1>2, <1>3, <1>5, <2>1, <2>2, <2>3 DEF IInv, TypeOK
<1>10. QueueOK'
  <2>1. \A i \in 1 .. Waiting' : Queued(i)'.sequence = numbers'.completed + i
    <3> TAKE i \in 1 .. Waiting'
    <3>1. CASE i \in 1 .. Waiting
      BY <1>3, <1>5, <3>1 DEF IInv, QueueOK
    <3>2. CASE i = Waiting'
      BY <1>2, <1>3, <1>5, <1>6, <1>8, <3>2 DEF IInv, QueueOK
    <3>3. QED
      BY <1>7, <3>1, <3>2
  <2>2. QED
    BY <1>1, <1>2, <1>3, <1>5, <1>6, <2>1 DEF IInv, QueueOK
<1>11. CallOK'
  <2>1. Queued(Waiting)' = main'.command
    BY <1>4, <1>5
  <2>2. QED
    BY <1>2, <1>3, <1>4, <2>1 DEF CallOK
<1>12. StopOK'
  <2>1. \A i \in 1 .. Waiting : Queued(i).kind # "stop"
    BY DEF IInv, StopOK
  <2>2. \A i \in 1 .. Waiting' : Queued(i)'.kind = "stop" => i = Waiting' /\ Stopping'
    BY <1>2, <1>4, <1>5, <1>7, <1>8, <2>1 DEF Stopping
  <2>3. ~(state.stopping /\ worker = "processing")
    BY DEF IInv, StopOK
  <2>4. worker \in {"leaving", "exited"} => state.error
    BY DEF IInv, StopOK
  <2>5. UNCHANGED <<state, worker, exited>> /\ main'.at = "signalling"
    BY <1>1
  <2>6. QED
    BY <2>2, <2>3, <2>4, <2>5 DEF IInv, StopOK
<1>13. StartOK' /\ PublishedOK'
  BY <1>1 DEF IInv, StartOK, PublishedOK, Reported
<1>14. WindowOK'
  <2>1. ASSUME ~activity'.window
        PROVE  ~state.window /\ (exited \/ \A i \in 1 .. Waiting' : Queued(i)'.kind # "surface")
    BY <1>2, <1>5, <1>7, <1>8, <2>1 DEF IInv, WindowOK
  <2>2. numbers'.completed # numbers'.next
    BY <1>2, <1>3, <1>6 DEF IInv, QueueOK
  <2>3. QED
    BY <1>1, <2>1, <2>2 DEF WindowOK
<1>15. RedrawOK'
  BY <1>1, <1>2, <1>3, <1>4 DEF IInv, TypeOK, RedrawOK
<1>16. CountOK'
  <2>1. PICK f \in [0 .. Waiting -> Counts] :
           /\ f[0] = CountNow /\ f[Waiting] = wanted
           /\ \A i \in 1 .. Waiting : f[i] = CountAfter(f[i - 1], Queued(i).kind)
    BY DEF IInv, CountOK
  <2> DEFINE g == [i \in 0 .. Waiting' |-> IF i <= Waiting THEN f[i] ELSE wanted']
  <2>2. wanted' \in Counts
    BY <1>9 DEF TypeOK
  <2>3. g \in [0 .. Waiting' -> Counts]
    BY <1>5, <1>6, <2>1, <2>2
  <2>4. CountNow' = CountNow
    BY <1>1 DEF CountNow
  <2>5. g[0] = CountNow' /\ g[Waiting'] = wanted'
    BY <1>5, <1>6, <2>1, <2>4
  <2>6. \A i \in 1 .. Waiting' : g[i] = CountAfter(g[i - 1], Queued(i)'.kind)
    <3> TAKE i \in 1 .. Waiting'
    <3>1. CASE i \in 1 .. Waiting
      <4>1. g[i] = f[i] /\ g[i - 1] = f[i - 1]
        BY <1>5, <1>6, <3>1
      <4>2. Queued(i)' = Queued(i)
        BY <1>5, <3>1
      <4>3. QED
        BY <2>1, <3>1, <4>1, <4>2
    <3>2. CASE i = Waiting'
      <4>1. g[i] = wanted' /\ g[i - 1] = wanted
        BY <1>5, <1>6, <2>1, <3>2
      <4>2. Queued(i)'.kind = kind
        BY <1>2, <1>8, <3>2
      <4>3. QED
        BY <4>1, <4>2
    <3>3. QED
      BY <1>7, <3>1, <3>2
  <2> HIDE DEF g
  <2>7. QED
    BY <2>3, <2>5, <2>6 DEF CountOK
<1>17. QED
  BY <1>9, <1>10, <1>11, <1>12, <1>13, <1>14, <1>15, <1>16 DEF IInv

(* A callback queues a command, and tells the activity at the same time.   *)
LEMMA CallsKeep ==
    ASSUME IInv, Calls
    PROVE  IInv'
<1> DEFINE Told == [window : BOOLEAN, visible : BOOLEAN, resumed : BOOLEAN, restored : RestoredFirst]
<1>1. activity \in Told /\ wanted \in Counts /\ late \in BOOLEAN
  BY DEF IInv, TypeOK
<1>2. ASSUME NEW kind \in Kinds, Call(kind), activity' \in Told, UNCHANGED activity.restored,
             ~activity'.window => ~activity.window /\ kind # "surface",
             wanted' = CountAfter(wanted, kind)
      PROVE  IInv'
  <2>1. Enqueue(kind) /\ UNCHANGED late /\ ~Stopping
    BY <1>2 DEF Call, Idle, Stopping
  <2>2. QED
    BY <1>1, <1>2, <2>1, EnqueueKeeps
<1>3. ASSUME NEW kind \in Kinds \ {"add", "reset", "surface"}, Call(kind), UNCHANGED <<activity, wanted>>
      PROVE  IInv'
  BY <1>1, <1>2, <1>3 DEF CountAfter
<1>4. CASE WindowCreated
  <2>1. activity' = [activity EXCEPT !.window = TRUE] /\ wanted' = wanted
    BY <1>4 DEF WindowCreated
  <2>2. activity' \in Told /\ UNCHANGED activity.restored /\ activity'.window
    BY <1>1, <2>1
  <2>3. CASE Call("surface")
    BY <1>2, <2>1, <2>2, <2>3 DEF Kinds, CountAfter
  <2>4. CASE UNCHANGED <<commands, readable, numbers, late, main, workerVars>>
    <3> USE <2>1, <2>2, <2>4 DEF workerVars, Calling, Stopping
    <3>1. Waiting' = Waiting /\ \A i \in 1 .. Waiting : Queued(i)' = Queued(i)
      BY SameQueue
    <3>2. TypeOK'
      BY DEF IInv, TypeOK
    <3>3. QueueOK' /\ CallOK' /\ StopOK' /\ StartOK' /\ WindowOK'
      BY <3>1, QueueTyped DEF IInv, QueueOK, CallOK, StopOK, StartOK, WindowOK
    <3>4. PublishedOK' /\ RedrawOK'
      BY DEF IInv, PublishedOK, RedrawOK
    <3>5. CountNow' = CountNow
      BY DEF CountNow
    <3>6. QED
      BY <3>1, <3>2, <3>3, <3>4, <3>5, CountStays DEF IInv
  <2>5. QED
    BY <1>4, <2>3, <2>4 DEF WindowCreated
<1>5. CASE WindowDestroyed \/ RedrawNeeded \/ SaveState \/ Destroy
           \/ WindowResized \/ ContentChanged \/ ConfigurationChanged
  BY <1>3, <1>5 DEF WindowDestroyed, RedrawNeeded, SaveState, Destroy, WindowResized, ContentChanged,
     ConfigurationChanged, Kinds, Awaited, Releasing
<1>6. ASSUME NEW on \in BOOLEAN, Shows(on) \/ Resumes(on)
      PROVE  IInv'
  <2>1. PICK kind \in Lifecycle : Call(kind) /\ UNCHANGED wanted
    BY <1>6 DEF Shows, Resumes, Lifecycle
  <2>2. activity' = [activity EXCEPT !.visible = on] \/ activity' = [activity EXCEPT !.resumed = on]
    BY <1>6 DEF Shows, Resumes
  <2>3. activity' \in Told /\ UNCHANGED activity.restored /\ activity'.window = activity.window
    BY <1>1, <2>2
  <2>4. /\ kind \in Kinds /\ kind \notin {"add", "reset", "surface"}
        /\ wanted' = CountAfter(wanted, kind)
    BY <2>1 DEF Lifecycle, Kinds, CountAfter
  <2>5. QED
    BY <1>2, <2>1, <2>3, <2>4
<1>7. ASSUME NEW kind \in Inputs, Input(kind)
      PROVE  IInv'
  <2>1. Call(kind) /\ UNCHANGED activity /\ kind \in Kinds /\ kind # "surface"
    BY <1>7 DEF Input, Inputs, Kinds
  <2>2. wanted' = CountAfter(wanted, kind)
    <3>1. wanted < MaxCount <=> wanted # MaxCount
      BY <1>1, ConstantsAssumption DEF Counts
    <3>2. CASE kind = "add"
      BY <1>7, <3>1, <3>2 DEF Input, CountAfter, Added
    <3>3. CASE kind \in {"reset", "toggle"}
      BY <1>7, <3>3 DEF Input, CountAfter
    <3>4. QED
      BY <3>2, <3>3 DEF Inputs
  <2>3. QED
    BY <1>1, <1>2, <2>1, <2>2
<1>8. QED
  BY <1>4, <1>5, <1>6, <1>7 DEF Calls

LEMMA SignalKeeps ==
    ASSUME IInv, Signal
    PROVE  IInv'
<1>1. /\ main.at = "signalling" /\ readable' = TRUE
      /\ main' = [main EXCEPT !.at = IF main.command.kind \in Awaited THEN "waiting" ELSE "idle"]
      /\ UNCHANGED <<commands, numbers, late, activity, wanted, worker, batch, state, file, published, exited>>
  BY DEF Signal, workerVars
<1>2. /\ main'.command = main.command /\ main'.at \in {"waiting", "idle"}
      /\ main.command.kind = "stop" => main'.at = "waiting"
      /\ main' \in [at : {"idle", "signalling", "waiting", "late", "freed", "aborted"},
                    command : Commands \cup {NoCommand}]
  BY <1>1 DEF IInv, TypeOK, Awaited, Releasing
<1>3. Waiting' = Waiting /\ \A i \in 1 .. Waiting : Queued(i)' = Queued(i)
  BY <1>1, SameQueue
<1>4. (Calling' => Calling) /\ (Stopping' <=> Stopping)
  BY <1>1, <1>2 DEF Calling, Stopping
<1>5. TypeOK'
  BY <1>1, <1>2 DEF IInv, TypeOK
<1>6. QueueOK' /\ CallOK' /\ StopOK' /\ StartOK' /\ WindowOK'
  BY <1>1, <1>2, <1>3, <1>4, QueueTyped DEF IInv, QueueOK, CallOK, StopOK, StartOK, WindowOK
<1>7. PublishedOK' /\ RedrawOK' /\ CountOK'
  <2>1. PublishedOK'
    BY <1>1, <1>2, <1>3, <1>4 DEF IInv, PublishedOK
  <2>2. RedrawOK'
    BY <1>1, <1>2, <1>3, <1>4 DEF IInv, RedrawOK
  <2>3. CountOK'
    <3>1. CountNow' = CountNow /\ wanted' = wanted
      BY <1>1 DEF CountNow
    <3>2. QED
      BY <1>3, <3>1, CountStays DEF IInv
  <2>4. QED
    BY <2>1, <2>2, <2>3
<1>8. QED
  BY <1>5, <1>6, <1>7 DEF IInv

(* A detach returns when it is done, or when the thread has ended, which   *)
(* has released the window whatever it left in the queue.                  *)
LEMMA ReturnKeeps ==
    ASSUME IInv, Return
    PROVE  IInv'
<1>1. /\ main.at = "waiting" /\ ~Pending
      /\ main' = [main EXCEPT !.at = IF main.command.kind = "stop" THEN "freed" ELSE "idle"]
      /\ activity' = [activity EXCEPT !.window = @ /\ main.command.kind # "detach"]
      /\ UNCHANGED <<commands, readable, numbers, late, wanted, worker, batch, state, file, published, exited>>
  BY DEF Return, workerVars
<1>2. /\ main'.command = main.command
      /\ main'.at = IF main.command.kind = "stop" THEN "freed" ELSE "idle"
      /\ main' \in [at : {"idle", "signalling", "waiting", "late", "freed", "aborted"},
                    command : Commands \cup {NoCommand}]
  BY <1>1 DEF IInv, TypeOK
<1>3. /\ activity' \in [window : BOOLEAN, visible : BOOLEAN, resumed : BOOLEAN, restored : RestoredFirst]
      /\ activity'.restored = activity.restored
      /\ activity'.window <=> activity.window /\ main.command.kind # "detach"
  BY <1>1 DEF IInv, TypeOK
<1>4. Waiting' = Waiting /\ \A i \in 1 .. Waiting : Queued(i)' = Queued(i)
  BY <1>1, SameQueue
<1>5. ~Calling' /\ (Stopping' <=> Stopping)
  BY <1>1, <1>2 DEF Calling, Stopping
<1>6. exited \/ (numbers.completed >= main.command.sequence /\ main.command.kind # "stop")
  <2>1. main.command.sequence = numbers.next /\ numbers.next \in Nat /\ numbers.completed \in Nat
    BY <1>1 DEF IInv, CallOK, Calling, TypeOK
  <2>2. QED
    BY <1>1, <2>1 DEF Pending
<1>7. TypeOK'
  BY <1>1, <1>2, <1>3 DEF IInv, TypeOK
<1>8. QueueOK' /\ CallOK' /\ StartOK'
  BY <1>1, <1>3, <1>4, <1>5, QueueTyped DEF IInv, QueueOK, CallOK, StartOK
<1>9. StopOK'
  BY <1>1, <1>2, <1>4, <1>5, <1>6 DEF IInv, StopOK
<1>10. WindowOK'
  <2>1. CASE main.command.kind # "detach"
    BY <1>1, <1>3, <1>4, <1>5, <2>1 DEF IInv, WindowOK
  <2>2. CASE main.command.kind = "detach" /\ exited
    BY <1>1, <1>5, <2>2 DEF IInv, StopOK, WindowOK
  <2>3. CASE main.command.kind = "detach" /\ ~exited
    <3>1. numbers.completed = numbers.next /\ Waiting = 0
      BY <1>1, <1>6, <2>3, QueueTyped DEF IInv, CallOK, Calling, QueueOK, TypeOK
    <3>2. ~state.window
      BY <1>1, <2>3, <3>1 DEF IInv, WindowOK, Calling
    <3>3. QED
      BY <1>1, <1>4, <1>5, <3>1, <3>2 DEF WindowOK
  <2>4. QED
    BY <2>1, <2>2, <2>3
<1>11. PublishedOK' /\ RedrawOK'
  BY <1>1, <1>5 DEF IInv, PublishedOK, RedrawOK, Reported
<1>12. CountOK'
  <2>1. CountNow' = CountNow /\ wanted' = wanted
    BY <1>1, <1>3 DEF CountNow
  <2>2. QED
    BY <1>4, <2>1, CountStays DEF IInv
<1>13. QED
  BY <1>7, <1>8, <1>9, <1>10, <1>11, <1>12 DEF IInv

(* The main thread stops waiting, or ends the process: nothing else moves. *)
LEMMA GivingUpKeeps ==
    ASSUME IInv, NEW at \in {"late", "aborted"}, main.at \in {"waiting", "late"},
           main' = [main EXCEPT !.at = at], late' \in BOOLEAN,
           UNCHANGED <<commands, readable, numbers, activity, wanted, worker, batch, state, file, published,
                       exited>>
    PROVE  IInv'
<1>1. /\ main'.command = main.command /\ main'.at = at
      /\ main' \in [at : {"idle", "signalling", "waiting", "late", "freed", "aborted"},
                    command : Commands \cup {NoCommand}]
  BY DEF IInv, TypeOK
<1>2. Waiting' = Waiting /\ \A i \in 1 .. Waiting : Queued(i)' = Queued(i)
  BY SameQueue
<1>3. ~Calling' /\ (Stopping' <=> Stopping)
  BY <1>1 DEF Calling, Stopping
<1>4. TypeOK'
  BY <1>1 DEF IInv, TypeOK
<1>5. QueueOK' /\ CallOK' /\ StopOK' /\ StartOK' /\ WindowOK'
  BY <1>1, <1>2, <1>3, QueueTyped DEF IInv, QueueOK, CallOK, StopOK, StartOK, WindowOK
<1>6. PublishedOK' /\ RedrawOK'
  BY <1>2, <1>3 DEF IInv, PublishedOK, RedrawOK
<1>7. CountOK'
  <2>1. CountNow' = CountNow /\ wanted' = wanted
    BY DEF CountNow
  <2>2. QED
    BY <1>2, <2>1, CountStays DEF IInv
<1>8. QED
  BY <1>4, <1>5, <1>6, <1>7 DEF IInv

LEMMA TimeOutKeeps ==
    ASSUME IInv, TimeOut
    PROVE  IInv'
<1>1. QED
  BY GivingUpKeeps DEF TimeOut, workerVars

(* A deadline ends the process, or is told to the thread as an error.      *)
LEMMA EndTimeOutKeeps ==
    ASSUME IInv, EndTimeOut
    PROVE  IInv'
<1>1. main.at = "late" /\ UNCHANGED <<late, activity, wanted>>
  BY DEF EndTimeOut
<1>2. /\ late \in BOOLEAN /\ wanted' = CountAfter(wanted, "timeout") /\ "timeout" \in Kinds
      /\ activity \in [window : BOOLEAN, visible : BOOLEAN, resumed : BOOLEAN, restored : RestoredFirst]
  BY <1>1 DEF IInv, TypeOK, Kinds, CountAfter
<1>3. CASE Aborts
  BY <1>1, <1>2, <1>3, GivingUpKeeps DEF Aborts, workerVars
<1>4. CASE main.command.kind \notin Releasing /\ Enqueue("timeout")
  <2>1. ~Stopping
    BY <1>4 DEF Stopping, Releasing
  <2>2. QED
    BY <1>1, <1>2, <1>4, <2>1, EnqueueKeeps
<1>5. QED
  BY <1>3, <1>4 DEF EndTimeOut
-------------------------------------------------------------------------------
LEMMA InitHolds == Init => IInv
<1> SUFFICES ASSUME Init PROVE IInv
  OBVIOUS
<1>1. PICK restored \in RestoredFirst :
         /\ activity = [window |-> FALSE, visible |-> FALSE, resumed |-> FALSE, restored |-> restored]
         /\ state = Fresh(restored)
         /\ published = Reported(Fresh(restored))
         /\ wanted = IF restored # NotRestored THEN restored ELSE LoadCount(file).count
  BY DEF Init
<1>2. /\ file \in FilesFirst /\ commands = <<>> /\ readable = FALSE /\ batch = <<>>
      /\ numbers = [next |-> 0, completed |-> 0, redraw |-> 0]
      /\ exited = FALSE /\ late = FALSE /\ worker = "starting"
      /\ main = [at |-> "idle", command |-> NoCommand]
  BY DEF Init
<1>3. /\ 0 \in Counts /\ file \in Counts \cup {Unreadable}
      /\ restored \in Counts \cup {NotRestored} /\ NotRestored \notin Counts
  BY <1>2, ConstantsAssumption DEF Counts
<1>4. state \in States
  BY <1>1, <1>3 DEF States, Fresh
<1>5. wanted \in Counts
  BY <1>1, <1>3 DEF LoadCount
<1>6. Waiting = 0
  BY <1>2 DEF Waiting
<1> USE DEF Calling, Stopping
<1>7. TypeOK
  <2>1. published \in [count : Counts, saved : BOOLEAN, error : BOOLEAN]
    BY <1>1, <1>4 DEF Reported, States
  <2>2. /\ numbers \in [next : Nat, completed : Nat, redraw : Nat]
        /\ numbers.completed <= numbers.next /\ numbers.redraw <= numbers.next
    BY <1>2
  <2>3. /\ commands \in Seq(Commands) /\ batch \in Seq(Commands)
        /\ main \in [at : {"idle", "signalling", "waiting", "late", "freed", "aborted"},
                     command : Commands \cup {NoCommand}]
        /\ activity \in [window : BOOLEAN, visible : BOOLEAN, resumed : BOOLEAN, restored : RestoredFirst]
    BY <1>1, <1>2
  <2>4. QED
    BY <1>2, <1>3, <1>4, <1>5, <2>1, <2>2, <2>3 DEF TypeOK
<1>8. QueueOK /\ CallOK /\ StopOK /\ StartOK /\ WindowOK
  BY <1>1, <1>2, <1>6 DEF QueueOK, CallOK, StopOK, StartOK, WindowOK, Fresh
<1>9. PublishedOK /\ RedrawOK
  BY <1>1, <1>2 DEF PublishedOK, RedrawOK, Fresh
<1>10. CountOK
  <2> DEFINE f == [i \in 0 .. 0 |-> wanted]
  <2>1. f \in [0 .. Waiting -> Counts] /\ f[0] = CountNow /\ f[Waiting] = wanted
    BY <1>1, <1>2, <1>5, <1>6 DEF CountNow
  <2>2. 1 .. Waiting = {}
    BY <1>6
  <2> HIDE DEF f
  <2>3. QED
    BY <2>1, <2>2 DEF CountOK
<1>11. QED
  BY <1>7, <1>8, <1>9, <1>10 DEF IInv

LEMMA NextHolds == IInv /\ [Next]_vars => IInv'
<1> SUFFICES ASSUME IInv, [Next]_vars PROVE IInv'
  OBVIOUS
<1>1. CASE Next
  BY <1>1, StartKeeps, DrainKeeps, SwapKeeps, ProcessKeeps, EndBatchKeeps, ExitKeeps, PollsKeep,
     SignalKeeps, ReturnKeeps, TimeOutKeeps, EndTimeOutKeeps, CallsKeep
  DEF Next, Renders
<1>2. CASE UNCHANGED vars
  <2>1. Waiting' = Waiting /\ \A i \in 1 .. Waiting : Queued(i)' = Queued(i)
    BY <1>2, SameQueue DEF vars
  <2> USE <1>2 DEF vars, Calling, Stopping
  <2>2. TypeOK'
    BY DEF IInv, TypeOK
  <2>3. QueueOK' /\ CallOK' /\ StopOK' /\ StartOK' /\ WindowOK'
    BY <2>1, QueueTyped DEF IInv, QueueOK, CallOK, StopOK, StartOK, WindowOK
  <2>4. PublishedOK' /\ RedrawOK' /\ CountOK'
    <3>1. PublishedOK' /\ RedrawOK'
      BY DEF IInv, PublishedOK, RedrawOK, Reported
    <3>2. CountNow' = CountNow /\ wanted' = wanted
      BY DEF CountNow
    <3>3. QED
      BY <2>1, <3>1, <3>2, CountStays DEF IInv
  <2>5. QED
    BY <2>2, <2>3, <2>4 DEF IInv
<1>3. QED
  BY <1>1, <1>2

LEMMA InvariantHolds == Spec => []IInv
<1>1. QED
  BY InitHolds, NextHolds, PTL DEF Spec
-------------------------------------------------------------------------------
(* Every variable keeps its type, the numbers their order and the count    *)
(* its limit, whatever count.txt and Android gave.                         *)
THEOREM TypesKept == Spec => []TypeOK
<1>1. IInv => TypeOK
  BY DEF IInv
<1>2. QED
  BY <1>1, InvariantHolds, PTL

(* The rendering thread lets go of the window before Android has it back,  *)
(* and of Runtime before destroy() frees it (runtime.cc, synchronize()).   *)
THEOREM WindowStaysReleased == Spec => []WindowReleased
<1>1. ASSUME IInv PROVE WindowReleased
  <2>1. main.at = "freed" => worker = "exited"
    BY <1>1 DEF IInv, StopOK
  <2>2. ASSUME ~activity.window, ~exited, NEW queue \in {commands, batch}, NEW i \in DOMAIN queue
        PROVE  queue[i].kind # "surface"
    <3>1. \A j \in 1 .. Waiting : Queued(j).kind # "surface"
      BY <1>1, <2>2 DEF IInv, WindowOK
    <3>2. /\ batch \in Seq(Commands) /\ commands \in Seq(Commands)
          /\ Len(batch) \in Nat /\ Len(commands) \in Nat /\ i \in 1 .. Len(queue)
      BY <1>1, <2>2 DEF IInv, TypeOK
    <3>3. CASE queue = batch
      <4>1. i \in 1 .. Waiting /\ Queued(i) = queue[i]
        BY <3>2, <3>3 DEF Waiting, Queued
      <4>2. QED
        BY <3>1, <4>1
    <3>4. CASE queue = commands
      <4>1. Len(batch) + i \in 1 .. Waiting /\ Queued(Len(batch) + i) = queue[i]
        BY <3>2, <3>4 DEF Waiting, Queued
      <4>2. QED
        BY <3>1, <4>1
    <3>5. QED
      BY <2>2, <3>3, <3>4
  <2>3. QED
    BY <1>1, <2>1, <2>2 DEF IInv, WindowOK, WindowReleased
<1>2. QED
  BY <1>1, InvariantHolds, PTL

(* A count that is published as saved is the one in count.txt, whichever   *)
(* saves failed (runtime.cc, persist()).                                   *)
THEOREM SavedStaysOnDisk == Spec => []SavedIsOnDisk
<1>1. IInv => SavedIsOnDisk
  BY DEF IInv, PublishedOK, SavedIsOnDisk, Reported
<1>2. QED
  BY <1>1, InvariantHolds, PTL

(* A redraw that Android waited for has shown all that was queued before   *)
(* it, or has reported an error (runtime.cc, publish_state()).             *)
THEOREM RedrawsShown == Spec => RedrawIsShown
<1>1. ASSUME IInv
      PROVE  main.command.kind = "redraw" /\ Return /\ ~published.error =>
               state.drawn >= main.command.sequence \/ ~state.scene
  <2> SUFFICES ASSUME main.command.kind = "redraw", Return, ~published.error
               PROVE  state.drawn >= main.command.sequence \/ ~state.scene
    OBVIOUS
  <2>1. Calling /\ main.command.sequence = numbers.next /\ numbers.next \in Nat
        /\ numbers.completed \in Nat /\ numbers.redraw \in Nat
    BY <1>1 DEF Return, Calling, IInv, CallOK, TypeOK
  <2>2. ~state.error
    BY <1>1 DEF IInv, PublishedOK, Reported
  <2>3. CASE exited
    BY <1>1, <2>2, <2>3 DEF IInv, StopOK
  <2>4. CASE ~exited
    BY <1>1, <2>1, <2>2, <2>4 DEF Return, Pending, IInv, RedrawOK
  <2>5. QED
    BY <2>3, <2>4
<1>2. IInv => [main.command.kind = "redraw" /\ Return /\ ~published.error =>
                 state.drawn >= main.command.sequence \/ ~state.scene]_vars
  BY <1>1
<1>3. QED
  BY <1>2, InvariantHolds, PTL DEF RedrawIsShown

(* onSaveInstanceState() captures the count with every input that was      *)
(* queued before it, or reports an error (runtime.cc, save_state()).       *)
THEOREM SnapshotsCurrent == Spec => SnapshotIsCurrent
<1>1. ASSUME IInv
      PROVE  main.command.kind = "snapshot" /\ Return /\ ~published.error => published.count = wanted
  <2> SUFFICES ASSUME main.command.kind = "snapshot", Return, ~published.error
               PROVE  published.count = wanted
    OBVIOUS
  <2>1. Calling /\ main.command.sequence = numbers.next /\ numbers.next \in Nat
        /\ numbers.completed \in Nat
    BY <1>1 DEF Return, Calling, IInv, CallOK, TypeOK
  <2>2. ~exited
    BY <1>1 DEF IInv, StopOK, Stopping, PublishedOK, Reported
  <2>3. Waiting = 0 /\ numbers.completed = numbers.next
    BY <1>1, <2>1, <2>2, QueueTyped DEF Return, Pending, IInv, QueueOK
  <2>4. CountNow = wanted
    BY <1>1, <2>3 DEF IInv, CountOK
  <2>5. worker # "starting"
    BY <1>1, <2>1, <2>3 DEF IInv, CallOK, StartOK, RedrawOK, Fresh
  <2>6. QED
    BY <1>1, <2>4, <2>5 DEF CountNow, IInv, PublishedOK, Reported
<1>2. IInv => [main.command.kind = "snapshot" /\ Return /\ ~published.error =>
                 published.count = wanted]_vars
  BY <1>1
<1>3. QED
  BY <1>2, InvariantHolds, PTL DEF SnapshotIsCurrent
-------------------------------------------------------------------------------
(* Places, spans and pairs.                                                *)

Buttons == {HitTest[x] : x \in Places} \cup {NoControl}
PairsOf(D) == {p \in SUBSET D : \E f, g \in D : f < g /\ p = {f, g}}
Gestured ==
    [active : BOOLEAN, multitouch : BOOLEAN, pair : {{}} \cup PairsOf(Fingers), span : Nat,
     pressed : Buttons, dragging : BOOLEAN, down : Nat, last : Nat,
     tapped : Buttons, turned : BOOLEAN, pinches : SUBSET (Nat \X Nat)]
Ats(D) == [D -> Places]
Wide(d) == IF d < MinimumSpan THEN 0 ELSE d

LEMMA SpanSizes ==
    /\ MinimumSpan \in Nat /\ MinimumSpan > 0 /\ Slop \in Nat /\ Places \subseteq Nat
    /\ \A x, y \in Nat : Distance(x, y) \in Nat /\ Distance(x, y) = Distance(y, x) /\ Distance(x, x) = 0
    /\ \A d \in Nat : Wide(d) \in Nat
BY GestureAssumption DEF MinimumSpan, Distance, Wide

LEMMA MinIs ==
    ASSUME NEW S \in SUBSET Nat, S # {}
    PROVE  Min(S) \in S /\ \A y \in S : Min(S) <= y
<1>1. \E x \in S : \A y \in S : x <= y
  BY Least
<1>2. QED
  BY <1>1 DEF Min

LEMMA PairEnds ==
    ASSUME NEW f \in Nat, NEW g \in Nat, f < g
    PROVE  Min({f, g}) = f /\ Max({f, g}) = g
<1>1. Min({f, g}) \in {f, g} /\ \A y \in {f, g} : Min({f, g}) <= y
  BY MinIs
<1>2. Max({f, g}) = g
  <2>1. \E x \in {f, g} : \A y \in {f, g} : x >= y
    OBVIOUS
  <2>2. Max({f, g}) \in {f, g} /\ \A y \in {f, g} : Max({f, g}) >= y
    BY <2>1 DEF Max
  <2>3. QED
    BY <2>2
<1>3. QED
  BY <1>1, <1>2

(* Fingers on the screen, and two of them.                                 *)
LEMMA FingersAre ==
    ASSUME NEW D \in SUBSET Fingers
    PROVE  /\ D \subseteq Nat /\ IsFiniteSet(D) /\ Cardinality(D) \in Nat
           /\ Cardinality(D) = 0 <=> D = {}
           /\ Cardinality(D) = 1 <=> \E f \in D : D = {f}
<1>1. D \subseteq Nat /\ IsFiniteSet(D)
  BY TouchAssumption, FS_Subset
<1>2. Cardinality(D) \in Nat /\ (Cardinality(D) = 0 <=> D = {})
  BY <1>1, FS_CardinalityType, FS_EmptySet
<1>3. Cardinality(D) = 1 <=> \E f : D = {f}
  BY <1>1, FS_Singleton
<1>4. QED
  BY <1>1, <1>2, <1>3

LEMMA FirstTwoPair ==
    ASSUME NEW D \in SUBSET Fingers, Cardinality(D) >= 2
    PROVE  FirstTwo(D) \in PairsOf(D)
<1> DEFINE f == Min(D)
           g == Min(D \ {f})
<1>1. D \in SUBSET Nat /\ D # {}
  BY FingersAre
<1>2. f \in D /\ \A y \in D : f <= y
  BY <1>1, MinIs
<1>3. D # {f}
  <2> HIDE DEF f
  <2>1. QED
    BY <1>2, FingersAre
<1>4. g \in D \ {f}
  <2>1. D \ {f} \in SUBSET Nat /\ D \ {f} # {}
    BY <1>1, <1>2, <1>3
  <2> HIDE DEF f
  <2>2. QED
    BY <2>1, MinIs
<1>5. FirstTwo(D) = {f, g}
  BY DEF FirstTwo
<1> HIDE DEF f, g
<1>6. f < g
  BY <1>1, <1>2, <1>4
<1>7. QED
  BY <1>2, <1>4, <1>5, <1>6 DEF PairsOf

LEMMA PairsFacts ==
    ASSUME NEW D \in SUBSET Fingers, NEW p \in PairsOf(D)
    PROVE  /\ p \in PairsOf(Fingers) /\ p # {} /\ p \subseteq D
           /\ \A at \in Ats(D) : Span(p, at) \in Nat
           /\ \A at \in Ats(D), f, g \in D : p = {f, g} /\ f < g => Span(p, at) = Distance(at[f], at[g])
<1>1. D \subseteq Nat
  BY FingersAre
<1>2. PICK a, b \in D : a < b /\ p = {a, b}
  BY DEF PairsOf
<1>3. ASSUME NEW at \in Ats(D), NEW f \in D, NEW g \in D, p = {f, g}, f < g
      PROVE  Span(p, at) = Distance(at[f], at[g])
  <2>1. f \in Nat /\ g \in Nat
    BY <1>1
  <2>2. Min(p) = f /\ Max(p) = g
    BY <1>3, <2>1, PairEnds
  <2>3. QED
    BY <2>2 DEF Span
<1>4. ASSUME NEW at \in Ats(D) PROVE Span(p, at) \in Nat
  <2>1. Span(p, at) = Distance(at[a], at[b])
    BY <1>2, <1>3
  <2>2. at[a] \in Nat /\ at[b] \in Nat
    BY <1>2, SpanSizes DEF Ats
  <2>3. QED
    BY <2>1, <2>2, SpanSizes
<1>5. p \in PairsOf(Fingers) /\ p # {} /\ p \subseteq D
  BY <1>2 DEF PairsOf
<1>6. QED
  BY <1>3, <1>4, <1>5
-------------------------------------------------------------------------------
(* What each operation does to the fields of the gestures.                 *)

\* All but what a touch presses and turns, and all but the pinch.
SamePinch(s, r) ==
    /\ r.active = s.active /\ r.multitouch = s.multitouch /\ r.pair = s.pair /\ r.span = s.span
    /\ r.pinches = s.pinches
SameTouch(s, r) ==
    /\ r.active = s.active /\ r.multitouch = s.multitouch /\ r.pressed = s.pressed
    /\ r.dragging = s.dragging /\ r.down = s.down /\ r.last = s.last
    /\ r.tapped = s.tapped /\ r.turned = s.turned

LEMMA HitsAre ==
    /\ NoControl \in Buttons /\ \A x \in Places : HitTest[x] \in Buttons /\ x \in Nat
BY GestureAssumption DEF Buttons

LEMMA MovesTyped ==
    ASSUME NEW s \in Gestured, NEW x \in Places
    PROVE  /\ TouchMove(s, x) \in Gestured /\ SamePinch(s, TouchMove(s, x))
           /\ TouchMove(s, x).dragging = s.dragging /\ TouchMove(s, x).down = s.down
           /\ TouchMove(s, x).tapped = s.tapped /\ TouchMove(s, x).last = x
           /\ TouchMove(s, x).turned = (s.turned \/ (s.dragging /\ x # s.last))
           /\ TouchMove(s, x).pressed = IF Moved(s, x) \/ HitTest[x] # s.pressed THEN NoControl ELSE s.pressed
<1> DEFINE turned == s.turned \/ (s.dragging /\ x # s.last)
           pressed == IF Moved(s, x) \/ HitTest[x] # s.pressed THEN NoControl ELSE s.pressed
<1>1. TouchMove(s, x) = [s EXCEPT !.turned = turned, !.last = x, !.pressed = pressed]
  BY DEF TouchMove
<1>2. turned \in BOOLEAN /\ pressed \in Buttons /\ x \in Nat
  BY HitsAre DEF Gestured
<1> HIDE DEF turned, pressed
<1>3. /\ TouchMove(s, x) \in Gestured /\ SamePinch(s, TouchMove(s, x))
      /\ TouchMove(s, x).dragging = s.dragging /\ TouchMove(s, x).down = s.down
      /\ TouchMove(s, x).tapped = s.tapped /\ TouchMove(s, x).last = x
      /\ TouchMove(s, x).turned = turned /\ TouchMove(s, x).pressed = pressed
  BY <1>1, <1>2 DEF Gestured, SamePinch
<1>4. QED
  BY <1>3 DEF turned, pressed

LEMMA CancelTyped ==
    ASSUME NEW s \in Gestured
    PROVE  /\ TouchCancel(s) \in Gestured /\ SamePinch(s, TouchCancel(s))
           /\ TouchCancel(s).tapped = s.tapped /\ TouchCancel(s).turned = s.turned
           /\ Multitouch(s) \in Gestured
           /\ Multitouch(s).active = s.active /\ Multitouch(s).multitouch = TRUE
           /\ Multitouch(s).pair = s.pair /\ Multitouch(s).span = s.span
           /\ Multitouch(s).pinches = s.pinches
           /\ Multitouch(s).tapped = s.tapped /\ Multitouch(s).turned = s.turned
           /\ CancelGestures(s) \in Gestured
           /\ CancelGestures(s).active = FALSE /\ CancelGestures(s).multitouch = FALSE
           /\ CancelGestures(s).pinches = s.pinches
           /\ CancelGestures(s).tapped = s.tapped /\ CancelGestures(s).turned = s.turned
<1>1. /\ NoControl \in Buttons /\ 0 \in Nat
  BY HitsAre
<1>2. ASSUME NEW r \in Gestured
      PROVE  /\ TouchCancel(r) \in Gestured /\ SamePinch(r, TouchCancel(r))
             /\ TouchCancel(r).tapped = r.tapped /\ TouchCancel(r).turned = r.turned
  <2>1. TouchCancel(r) = [r EXCEPT !.pressed = NoControl, !.dragging = FALSE, !.last = 0]
    BY DEF TouchCancel, Releases, Gestured
  <2>2. QED
    BY <1>1, <2>1 DEF Gestured, SamePinch
<1>3. Multitouch(s) = [TouchCancel(s) EXCEPT !.multitouch = TRUE]
  BY DEF Multitouch
<1>4. /\ Multitouch(s) \in Gestured
      /\ Multitouch(s).active = s.active /\ Multitouch(s).multitouch = TRUE
      /\ Multitouch(s).pair = s.pair /\ Multitouch(s).span = s.span
      /\ Multitouch(s).pinches = s.pinches
      /\ Multitouch(s).tapped = s.tapped /\ Multitouch(s).turned = s.turned
  BY <1>2, <1>3, ZenonT(20) DEF Gestured, SamePinch
<1> DEFINE r == [s EXCEPT !.active = FALSE, !.multitouch = FALSE, !.span = 0, !.pair = {}]
<1>5. /\ r \in Gestured /\ r.active = FALSE /\ r.multitouch = FALSE
      /\ r.pinches = s.pinches /\ r.tapped = s.tapped /\ r.turned = s.turned
  BY DEF Gestured
<1>6. CancelGestures(s) = TouchCancel(r)
  BY DEF CancelGestures
<1> HIDE DEF r
<1>7. QED
  BY <1>2, <1>4, <1>5, <1>6 DEF SamePinch

LEMMA DownTyped ==
    ASSUME NEW s \in Gestured, NEW x \in Places
    PROVE  /\ Down(s, x) \in Gestured
           /\ Down(s, x).active = TRUE /\ Down(s, x).multitouch = FALSE
           /\ Down(s, x).pinches = s.pinches /\ Down(s, x).tapped = s.tapped /\ Down(s, x).turned = s.turned
           /\ Down(s, x).pressed = HitTest[x] /\ Down(s, x).dragging = (HitTest[x] = NoControl)
           /\ Down(s, x).down = x /\ Down(s, x).last = x
<1> DEFINE r == CancelGestures(s)
           free == HitTest[x] = NoControl
<1>1. /\ r \in Gestured /\ r.multitouch = FALSE
      /\ r.pinches = s.pinches /\ r.tapped = s.tapped /\ r.turned = s.turned
  BY CancelTyped
<1>2. HitTest[x] \in Buttons /\ free \in BOOLEAN /\ x \in Nat
  BY HitsAre
<1>3. Down(s, x) = [[r EXCEPT !.active = TRUE] EXCEPT !.pressed = HitTest[x], !.dragging = free,
                                                      !.down = x, !.last = x]
  BY DEF Down, TouchDown
<1> HIDE DEF r, free
<1>4. /\ Down(s, x) \in Gestured
      /\ Down(s, x).active = TRUE /\ Down(s, x).multitouch = FALSE
      /\ Down(s, x).pinches = s.pinches /\ Down(s, x).tapped = s.tapped /\ Down(s, x).turned = s.turned
      /\ Down(s, x).pressed = HitTest[x] /\ Down(s, x).dragging = free
      /\ Down(s, x).down = x /\ Down(s, x).last = x
  BY <1>1, <1>2, <1>3 DEF Gestured
<1>5. QED
  BY <1>4 DEF free

LEMMA UpTyped ==
    ASSUME NEW s \in Gestured, NEW x \in Places
    PROVE  /\ TouchUp(s, x) \in Gestured /\ SamePinch(s, TouchUp(s, x))
           /\ TouchUp(s, x).turned = s.turned
           /\ TouchUp(s, x).tapped = IF s.pressed # NoControl /\ HitTest[x] = s.pressed /\ ~Moved(s, x)
                                       THEN s.pressed ELSE s.tapped
<1> DEFINE tapped == IF s.pressed # NoControl /\ HitTest[x] = s.pressed /\ ~Moved(s, x)
                       THEN s.pressed ELSE s.tapped
<1>1. tapped \in Buttons /\ NoControl \in Buttons /\ x \in Nat
  BY HitsAre DEF Gestured
<1>2. TouchUp(s, x) = [[s EXCEPT !.pressed = NoControl, !.dragging = FALSE]
                         EXCEPT !.tapped = tapped, !.last = x]
  BY DEF TouchUp, Releases, Gestured
<1> HIDE DEF tapped
<1>3. /\ TouchUp(s, x) \in Gestured /\ SamePinch(s, TouchUp(s, x))
      /\ TouchUp(s, x).turned = s.turned /\ TouchUp(s, x).tapped = tapped
  BY <1>1, <1>2 DEF Gestured, SamePinch
<1>4. QED
  BY <1>3 DEF tapped

\* The two fingers whose span is followed.
Followed(s, D) == IF s.pair # {} /\ s.pair \subseteq D THEN s.pair ELSE FirstTwo(D)
Scales(s, scale, p, span) ==
    IF scale /\ p = s.pair /\ s.span >= MinimumSpan /\ span >= MinimumSpan
      THEN s.pinches \cup {<<s.span, span>>} ELSE s.pinches

LEMMA PinchTyped ==
    ASSUME NEW s \in Gestured, NEW D \in SUBSET Fingers, NEW at \in Ats(D), NEW scale \in BOOLEAN
    PROVE  /\ UpdatePinch(s, at, scale) \in Gestured /\ SameTouch(s, UpdatePinch(s, at, scale))
           /\ Cardinality(D) < 2 => UpdatePinch(s, at, scale).pinches = s.pinches
           /\ Cardinality(D) >= 2 =>
                /\ Followed(s, D) \in PairsOf(D)
                /\ UpdatePinch(s, at, scale).pair = Followed(s, D)
                /\ UpdatePinch(s, at, scale).span = Wide(Span(Followed(s, D), at))
                /\ UpdatePinch(s, at, scale).pinches = Scales(s, scale, Followed(s, D), Span(Followed(s, D), at))
<1> DEFINE p == Followed(s, D)
           span == Span(p, at)
           pinches == IF scale /\ p = s.pair /\ s.span >= MinimumSpan
                        THEN s.pinches \cup {<<s.span, span>>} ELSE s.pinches
           r == UpdatePinch(s, at, scale)
<1>1. DOMAIN at = D /\ Cardinality(D) \in Nat
  BY FingersAre DEF Ats
<1>2. CASE Cardinality(D) < 2
  <2>1. r = [s EXCEPT !.span = 0, !.pair = {}]
    BY <1>1, <1>2 DEF UpdatePinch
  <2> HIDE DEF r
  <2>2. r \in Gestured /\ SameTouch(s, r) /\ r.pinches = s.pinches
    BY <2>1 DEF Gestured, SameTouch
  <2>3. QED
    BY <1>1, <1>2, <2>2 DEF r
<1>3. CASE Cardinality(D) >= 2
  <2>1. p \in PairsOf(D)
    <3>1. CASE s.pair # {} /\ s.pair \subseteq D
      <4>1. s.pair \in PairsOf(Fingers)
        BY <3>1 DEF Gestured
      <4>2. s.pair \in PairsOf(D)
        BY <3>1, <4>1 DEF PairsOf
      <4>3. QED
        BY <3>1, <4>2 DEF Followed
    <3>2. CASE ~(s.pair # {} /\ s.pair \subseteq D)
      BY <1>3, <3>2, FirstTwoPair DEF Followed
    <3>3. QED
      BY <3>1, <3>2
  <2>2. span \in Nat /\ p \in PairsOf(Fingers)
    <3> HIDE DEF p
    <3>1. QED
      BY <2>1, PairsFacts
  <2>3. r = IF span < MinimumSpan THEN [s EXCEPT !.span = 0, !.pair = p]
            ELSE [s EXCEPT !.span = span, !.pair = p, !.pinches = pinches]
    BY <1>1, <1>3 DEF UpdatePinch, Followed, Pinched
  <2>4. pinches \in SUBSET (Nat \X Nat)
    <3> HIDE DEF p, span
    <3>1. QED
      BY <2>2 DEF Gestured
  <2>5. /\ Wide(span) = IF span < MinimumSpan THEN 0 ELSE span
        /\ Scales(s, scale, p, span) = IF span < MinimumSpan THEN s.pinches ELSE pinches
    <3> HIDE DEF p, span
    <3>1. QED
      BY <2>2, SpanSizes DEF Wide, Scales
  <2> HIDE DEF r, span, p, pinches
  <2>6. CASE span < MinimumSpan
    <3>1. r \in Gestured /\ SameTouch(s, r) /\ r.pinches = s.pinches /\ r.pair = p /\ r.span = 0
      BY <2>2, <2>3, <2>6 DEF Gestured, SameTouch
    <3>2. QED
      BY <1>1, <1>3, <2>1, <2>5, <2>6, <3>1 DEF r, p, span
  <2>7. CASE ~(span < MinimumSpan)
    <3>1. r \in Gestured /\ SameTouch(s, r) /\ r.pinches = pinches /\ r.pair = p /\ r.span = span
      BY <2>2, <2>3, <2>4, <2>7 DEF Gestured, SameTouch
    <3>2. QED
      BY <1>1, <1>3, <2>1, <2>5, <2>7, <3>1 DEF r, p, span
  <2>8. QED
    BY <2>6, <2>7
<1>4. QED
  BY <1>1, <1>2, <1>3
-------------------------------------------------------------------------------
(* The samples of a move, one by one.                                      *)

LEMMA Observes ==
    ASSUME NEW s \in Gestured, NEW D \in SUBSET Fingers, D # {}, NEW samples \in Seq(Ats(D)), samples # <<>>
    PROVE  \E a \in [0 .. Len(samples) -> Gestured] :
             /\ a[0] = IF Cardinality(D) > 1 /\ ~s.multitouch THEN Multitouch(s) ELSE s
             /\ \A i \in 1 .. Len(samples) : a[i] = Sampled(a[i - 1], samples[i])
             /\ MoveEach(s, samples) = IF Cardinality(D) > 1 \/ ~s.multitouch THEN a[Len(samples)] ELSE s
<1> DEFINE n == Len(samples)
           several == Cardinality(DOMAIN samples[1]) > 1
           begun == IF several /\ ~s.multitouch THEN Multitouch(s) ELSE s
           step == [i \in 1 .. n |-> [r \in Gestured |-> Sampled(r, samples[i])]]
           after == CHOOSE after : after = [i \in 0 .. n |->
                       IF i = 0 THEN begun ELSE Sampled(after[i - 1], samples[i])]
<1>1. n \in Nat /\ 1 \in 1 .. n /\ \A i \in 1 .. n : samples[i] \in Ats(D) /\ DOMAIN samples[i] = D
  BY DEF Ats
<1>2. begun \in Gestured
  BY CancelTyped
<1>3. ASSUME NEW r \in Gestured, NEW i \in 1 .. n PROVE Sampled(r, samples[i]) \in Gestured
  <2>1. samples[i] \in Ats(D) /\ DOMAIN samples[i] = D
    BY <1>1
  <2>2. UpdatePinch(r, samples[i], TRUE) \in Gestured
    BY <2>1, PinchTyped
  <2>3. samples[i][CHOOSE f \in D : TRUE] \in Places
    BY <2>1 DEF Ats
  <2>4. TouchMove(r, samples[i][CHOOSE f \in D : TRUE]) \in Gestured
    BY <2>3, MovesTyped
  <2>5. QED
    BY <2>1, <2>2, <2>4 DEF Sampled
<1>4. step \in [1 .. n -> [Gestured -> Gestured]]
  BY <1>3
<1>5. MoveEach(s, samples) = IF several \/ ~s.multitouch THEN after[n] ELSE s
  BY DEF MoveEach
<1>14. several <=> Cardinality(D) > 1
  BY <1>1
<1> HIDE DEF n, begun
<1>6. PICK a \in [0 .. n -> Gestured] : Steps(a, n, begun, step)
  <2> HIDE DEF step
  <2>1. QED
    BY <1>1, <1>2, <1>4, StepsExist
<1>7. a[0] = begun /\ \A i \in 1 .. n : a[i] = step[i][a[i - 1]]
  <2> HIDE DEF step
  <2>1. QED
    BY <1>6 DEF Steps
<1>8. ASSUME NEW i \in 1 .. n PROVE a[i] = Sampled(a[i - 1], samples[i])
  <2>1. i - 1 \in 0 .. n
    BY <1>1
  <2>2. a[i - 1] \in Gestured
    BY <1>6, <2>1
  <2>3. QED
    BY <1>7, <2>2
<1> HIDE DEF step
<1>9. a = [i \in 0 .. n |-> IF i = 0 THEN begun ELSE Sampled(a[i - 1], samples[i])]
  BY <1>1, <1>6, <1>7, <1>8
<1>10. after = [i \in 0 .. n |-> IF i = 0 THEN begun ELSE Sampled(after[i - 1], samples[i])]
  BY <1>9
<1> HIDE DEF after
<1>11. after[0] = begun /\ \A i \in 1 .. n : after[i] = Sampled(after[i - 1], samples[i])
  BY <1>1, <1>10
<1>12. after \in [0 .. n -> Gestured]
  <2> DEFINE T == {i \in 0 .. n : after[i] \notin Gestured}
  <2>1. T = {}
    <3>1. SUFFICES ASSUME T # {} PROVE FALSE
      OBVIOUS
    <3>2. T \subseteq Nat
      BY DEF T
    <3> HIDE DEF T
    <3>3. PICK i \in T : \A j \in T : i <= j
      BY <3>1, <3>2, Least
    <3>4. i \in 0 .. n /\ after[i] \notin Gestured
      BY DEF T
    <3>5. i # 0
      BY <1>2, <1>11, <3>4
    <3>6. i - 1 \in 0 .. n /\ i \in 1 .. n /\ ~(i <= i - 1)
      BY <1>1, <3>4, <3>5
    <3>7. after[i - 1] \in Gestured
      BY <3>3, <3>6 DEF T
    <3>8. QED
      BY <1>3, <1>11, <3>4, <3>6, <3>7
  <2>2. QED
    BY <1>10, <2>1
<1>13. QED
  BY <1>5, <1>14, <1>11, <1>12 DEF n, begun

\* What a finger presses that went down at `first' and was at these places.
Stays(first, been) == \A x \in been : HitTest[x] = HitTest[first] /\ Distance(x, first) <= Slop
Presses(first, been) == IF Stays(first, been) THEN HitTest[first] ELSE NoControl

\* A finger that is alone, after the first i places of xs.
Went(s, xs, i, first, been, r) ==
    /\ r \in Gestured /\ SamePinch(s, r)
    /\ r.dragging = s.dragging /\ r.down = s.down /\ r.tapped = s.tapped
    /\ r.last = IF i = 0 THEN s.last ELSE xs[i]
    /\ r.turned = (s.turned \/ (s.dragging /\ \E k \in 1 .. i : xs[k] # s.last))
    /\ r.pressed = Presses(first, been \cup {xs[k] : k \in 1 .. i})

LEMMA Goes ==
    ASSUME NEW s \in Gestured, NEW xs \in Seq(Places), NEW i \in 1 .. Len(xs), NEW first \in Places,
           NEW been \in SUBSET Places, s.down = first, NEW r, Went(s, xs, i - 1, first, been, r)
    PROVE  Went(s, xs, i, first, been, TouchMove(r, xs[i]))
<1> DEFINE x == xs[i]
           q == TouchMove(r, x)
           before == been \cup {xs[k] : k \in 1 .. i - 1}
           now == been \cup {xs[k] : k \in 1 .. i}
<1>1. x \in Places /\ i # 0
  OBVIOUS
<1>2. /\ r \in Gestured /\ SamePinch(s, r)
      /\ r.dragging = s.dragging /\ r.down = s.down /\ r.tapped = s.tapped
      /\ r.last = IF i - 1 = 0 THEN s.last ELSE xs[i - 1]
      /\ r.turned = (s.turned \/ (s.dragging /\ \E k \in 1 .. i - 1 : xs[k] # s.last))
      /\ r.pressed = Presses(first, before)
  BY DEF Went
<1> HIDE DEF x, q
<1>3. /\ q \in Gestured /\ SamePinch(r, q)
      /\ q.dragging = r.dragging /\ q.down = r.down /\ q.tapped = r.tapped /\ q.last = x
      /\ q.turned = (r.turned \/ (r.dragging /\ x # r.last))
      /\ q.pressed = IF Moved(r, x) \/ HitTest[x] # r.pressed THEN NoControl ELSE r.pressed
  BY <1>1, <1>2, MovesTyped DEF q
<1>4. \A k \in 1 .. i : k \in 1 .. i - 1 \/ k = i
  OBVIOUS
<1>5. now = before \cup {x}
  BY <1>4 DEF x
<1>6. Moved(r, x) <=> ~(Distance(x, first) <= Slop)
  <2>1. x \in Nat /\ first \in Nat
    BY <1>1, SpanSizes
  <2>2. Distance(x, first) \in Nat /\ Slop \in Nat
    BY <2>1, SpanSizes
  <2>3. QED
    BY <1>2, <2>2 DEF Moved
<1>7. Stays(first, now) <=> Stays(first, before) /\ HitTest[x] = HitTest[first] /\ Distance(x, first) <= Slop
  <2> HIDE DEF now, before
  <2>1. QED
    BY <1>5 DEF Stays
<1>8. q.pressed = Presses(first, now)
  <2> HIDE DEF now, before
  <2>1. QED
    BY <1>2, <1>3, <1>6, <1>7 DEF Presses
<1>9. (\E k \in 1 .. i : xs[k] # s.last) <=> (\E k \in 1 .. i - 1 : xs[k] # s.last) \/ x # r.last
  <2>1. (\A k \in 1 .. i - 1 : xs[k] = s.last) => r.last = s.last
    <3>1. CASE i - 1 = 0
      BY <1>2, <3>1
    <3>2. CASE i - 1 # 0
      <4>1. i - 1 \in 1 .. i - 1
        BY <3>2
      <4>2. QED
        BY <1>2, <3>2, <4>1
    <3>3. QED
      BY <3>1, <3>2
  <2>2. i \in 1 .. i /\ \A k \in 1 .. i - 1 : k \in 1 .. i
    OBVIOUS
  <2>3. QED
    BY <1>4, <2>1, <2>2 DEF x
<1>10. q.turned = (s.turned \/ (s.dragging /\ \E k \in 1 .. i : xs[k] # s.last))
  <2>1. s.turned \in BOOLEAN /\ s.dragging \in BOOLEAN /\ r.turned \in BOOLEAN
    BY <1>2 DEF Gestured
  <2>2. QED
    BY <1>2, <1>3, <1>9, <2>1
<1>11. SamePinch(s, q)
  BY <1>2, <1>3 DEF SamePinch
<1>12. QED
  BY <1>1, <1>2, <1>3, <1>8, <1>10, <1>11 DEF Went, q, x

LEMMA LoneMoves ==
    ASSUME NEW s \in Gestured, ~s.multitouch, NEW f \in Fingers,
           NEW xs \in Seq(Places), xs # <<>>, NEW samples \in Seq(Ats({f})), Len(samples) = Len(xs),
           \A i \in 1 .. Len(xs) : samples[i][f] = xs[i],
           NEW first \in Places, NEW been \in SUBSET Places, s.down = first, s.pressed = Presses(first, been)
    PROVE  Went(s, xs, Len(xs), first, been, MoveEach(s, samples))
<1> DEFINE n == Len(xs)
           D == {f}
<1>1. n \in Nat /\ n # 0 /\ samples # <<>>
  OBVIOUS
<1>2. D \in SUBSET Fingers /\ D # {} /\ Cardinality(D) = 1
  BY FS_Singleton
<1>3. PICK a \in [0 .. n -> Gestured] :
        /\ a[0] = s /\ MoveEach(s, samples) = a[n]
        /\ \A i \in 1 .. n : a[i] = Sampled(a[i - 1], samples[i])
  <2>1. ~(Cardinality(D) > 1) /\ samples \in Seq(Ats(D)) /\ Len(samples) = n
    BY <1>2
  <2> HIDE DEF D
  <2>2. PICK a \in [0 .. Len(samples) -> Gestured] :
          /\ a[0] = IF Cardinality(D) > 1 /\ ~s.multitouch THEN Multitouch(s) ELSE s
          /\ \A i \in 1 .. Len(samples) : a[i] = Sampled(a[i - 1], samples[i])
          /\ MoveEach(s, samples) = IF Cardinality(D) > 1 \/ ~s.multitouch THEN a[Len(samples)] ELSE s
    BY <1>1, <1>2, <2>1, Observes
  <2>3. QED
    BY <2>1, <2>2
<1>4. ASSUME NEW i \in 1 .. n PROVE a[i] = TouchMove(a[i - 1], xs[i])
  <2>1. DOMAIN samples[i] = D
    BY DEF Ats
  <2>2. (CHOOSE g \in D : TRUE) = f
    OBVIOUS
  <2>3. Cardinality(DOMAIN samples[i]) = 1
    BY <1>2, <2>1
  <2>4. a[i] = Sampled(a[i - 1], samples[i])
    BY <1>3
  <2>5. samples[i][CHOOSE g \in DOMAIN samples[i] : TRUE] = xs[i]
    <3> DEFINE One(S) == CHOOSE g \in S : TRUE
    <3>1. One(D) = f /\ samples[i][f] = xs[i]
      BY <2>2
    <3> HIDE DEF D, One
    <3>2. samples[i][One(DOMAIN samples[i])] = xs[i]
      BY <2>1, <3>1
    <3>3. QED
      BY <3>2 DEF One
  <2> DEFINE x == samples[i][CHOOSE g \in DOMAIN samples[i] : TRUE]
             size == Cardinality(DOMAIN samples[i])
  <2>6. Sampled(a[i - 1], samples[i]) = IF size > 1 THEN UpdatePinch(a[i - 1], samples[i], TRUE) ELSE TouchMove(a[i - 1], x)
    BY DEF Sampled
  <2> HIDE DEF x, size
  <2>7. QED
    BY <2>3, <2>4, <2>5, <2>6 DEF x, size
<1> HIDE DEF D
<1> DEFINE T == {i \in 0 .. n : ~Went(s, xs, i, first, been, a[i])}
<1>5. T = {}
  <2>1. SUFFICES ASSUME T # {} PROVE FALSE
    OBVIOUS
  <2>2. T \subseteq Nat
    BY DEF T
  <2> HIDE DEF T
  <2>3. PICK i \in T : \A j \in T : i <= j
    BY <2>1, <2>2, Least
  <2>4. i \in 0 .. n /\ ~Went(s, xs, i, first, been, a[i])
    BY DEF T
  <2>5. i # 0
    <3>1. been \cup {xs[k] : k \in 1 .. 0} = been
      OBVIOUS
    <3>2. s.turned \in BOOLEAN
      BY DEF Gestured
    <3>3. Went(s, xs, 0, first, been, s)
      BY <3>1, <3>2 DEF Went, SamePinch
    <3>4. QED
      BY <1>3, <2>4, <3>3
  <2>6. i - 1 \in 0 .. n /\ i \in 1 .. Len(xs) /\ ~(i <= i - 1)
    BY <1>1, <2>4, <2>5
  <2>7. Went(s, xs, i - 1, first, been, a[i - 1])
    BY <2>3, <2>6 DEF T
  <2>8. Went(s, xs, i, first, been, TouchMove(a[i - 1], xs[i]))
    BY <2>6, <2>7, Goes
  <2>9. QED
    BY <1>4, <2>4, <2>6, <2>8
<1>6. n \in 0 .. n
  BY <1>1
<1>7. QED
  BY <1>3, <1>5, <1>6

\* The first i steps of the span between two fingers, and what a pinch has made of them.
Spreads(all, f, g, i) ==
    {p \in {<<Distance(all[k][f], all[k][g]), Distance(all[k + 1][f], all[k + 1][g])>> : k \in 1 .. i} :
        p[1] >= MinimumSpan /\ p[2] >= MinimumSpan}
Spread(s, all, f, g, i, r) ==
    /\ r \in Gestured /\ SameTouch(s, r) /\ r.pair = {f, g}
    /\ r.span = Wide(Distance(all[i + 1][f], all[i + 1][g])) /\ r.pinches = Spreads(all, f, g, i)

LEMMA Widens ==
    ASSUME NEW s \in Gestured, NEW D \in SUBSET Fingers, Cardinality(D) >= 2, NEW f \in D, NEW g \in D, f < g,
           NEW all \in Seq(Ats(D)), NEW i \in 1 .. Len(all) - 1, NEW r, Spread(s, all, f, g, i - 1, r)
    PROVE  Spread(s, all, f, g, i, UpdatePinch(r, all[i + 1], TRUE))
<1> DEFINE at == all[i + 1]
           q == UpdatePinch(r, at, TRUE)
           was == Distance(all[i][f], all[i][g])
           is == Distance(at[f], at[g])
<1>1. i \in Nat /\ i \in 1 .. Len(all) /\ i + 1 \in 1 .. Len(all) /\ i - 1 + 1 = i
  OBVIOUS
<1>2. at \in Ats(D) /\ all[i] \in Ats(D)
  BY <1>1
<1>3. was \in Nat /\ is \in Nat /\ MinimumSpan \in Nat /\ MinimumSpan > 0
  <2>1. \A b \in Ats(D) : b[f] \in Nat /\ b[g] \in Nat
    BY SpanSizes DEF Ats
  <2>2. QED
    BY <1>2, <2>1, SpanSizes
<1>4. r \in Gestured /\ SameTouch(s, r) /\ r.pair = {f, g} /\ r.span = Wide(was) /\ r.pinches = Spreads(all, f, g, i - 1)
  BY <1>1 DEF Spread
<1>5. {f, g} \in PairsOf(D) /\ Followed(r, D) = {f, g}
  BY <1>4 DEF PairsOf, Followed
<1>6. Span({f, g}, at) = is
  BY <1>2, <1>5, PairsFacts
<1> HIDE DEF at, q, was, is
<1>7. /\ q \in Gestured /\ SameTouch(r, q) /\ q.pair = {f, g} /\ q.span = Wide(is)
      /\ q.pinches = Scales(r, TRUE, {f, g}, is)
  <2> DEFINE p == {f, g}
             u == UpdatePinch(r, at, TRUE)
  <2>1. p = Followed(r, D) /\ Span(p, at) = is /\ r \in Gestured /\ TRUE \in BOOLEAN
    BY <1>4, <1>5, <1>6
  <2> HIDE DEF p
  <2>2. /\ u \in Gestured /\ SameTouch(r, u) /\ u.pair = Followed(r, D)
        /\ u.span = Wide(Span(Followed(r, D), at))
        /\ u.pinches = Scales(r, TRUE, Followed(r, D), Span(Followed(r, D), at))
    BY <1>2, <2>1, PinchTyped
  <2> HIDE DEF u
  <2>3. u \in Gestured /\ SameTouch(r, u) /\ u.pair = p /\ u.span = Wide(is) /\ u.pinches = Scales(r, TRUE, p, is)
    BY <2>1, <2>2
  <2>4. QED
    BY <2>3 DEF p, q, u
<1>8. \A k \in 1 .. i : k \in 1 .. i - 1 \/ k = i
  BY <1>1
<1>9. i \in 1 .. i /\ \A k \in 1 .. i - 1 : k \in 1 .. i
  BY <1>1
<1>10. Spreads(all, f, g, i) = IF was >= MinimumSpan /\ is >= MinimumSpan
                                 THEN Spreads(all, f, g, i - 1) \cup {<<was, is>>} ELSE Spreads(all, f, g, i - 1)
  <2> DEFINE Step(k) == <<Distance(all[k][f], all[k][g]), Distance(all[k + 1][f], all[k + 1][g])>>
  <2>1. {Step(k) : k \in 1 .. i} = {Step(k) : k \in 1 .. i - 1} \cup {Step(i)}
    <3> HIDE DEF Step
    <3>1. QED
      BY <1>8, <1>9
  <2>2. Step(i) = <<was, is>>
    BY DEF was, is, at
  <2> DEFINE Wides(S) == {p \in S : p[1] >= MinimumSpan /\ p[2] >= MinimumSpan}
             before == {Step(k) : k \in 1 .. i - 1}
             last == <<was, is>>
  <2>3. Spreads(all, f, g, i) = Wides({Step(k) : k \in 1 .. i}) /\ Spreads(all, f, g, i - 1) = Wides(before)
    BY DEF Spreads
  <2>4. last[1] = was /\ last[2] = is
    OBVIOUS
  <2> HIDE DEF Step, before, last
  <2>5. {Step(k) : k \in 1 .. i} = before \cup {last}
    BY <2>1, <2>2 DEF before, last
  <2>6. Wides(before \cup {last}) = IF was >= MinimumSpan /\ is >= MinimumSpan THEN Wides(before) \cup {last}
                                    ELSE Wides(before)
    <3>1. CASE was >= MinimumSpan /\ is >= MinimumSpan
      BY <2>4, <3>1
    <3>2. CASE ~(was >= MinimumSpan /\ is >= MinimumSpan)
      BY <2>4, <3>2
    <3>3. QED
      BY <3>1, <3>2
  <2> HIDE DEF Wides
  <2>7. QED
    BY <2>3, <2>5, <2>6 DEF last
<1>11. Wide(was) >= MinimumSpan <=> was >= MinimumSpan
  BY <1>3 DEF Wide
<1>12. q.pinches = Spreads(all, f, g, i)
  <2>1. Scales(r, TRUE, {f, g}, is) = IF r.span >= MinimumSpan /\ is >= MinimumSpan
                                        THEN r.pinches \cup {<<r.span, is>>} ELSE r.pinches
    BY <1>4 DEF Scales
  <2>2. was >= MinimumSpan => Wide(was) = was
    BY <1>3 DEF Wide
  <2>3. QED
    BY <1>4, <1>7, <1>10, <1>11, <2>1, <2>2
<1>13. SameTouch(s, q)
  BY <1>4, <1>7 DEF SameTouch
<1>14. QED
  BY <1>7, <1>12, <1>13 DEF Spread, q, is, at

LEMMA PairMoves ==
    ASSUME NEW s \in Gestured, s.multitouch, s.pinches = {}, NEW D \in SUBSET Fingers, Cardinality(D) >= 2,
           NEW f \in D, NEW g \in D, f < g, NEW at \in Ats(D), NEW samples \in Seq(Ats(D)), samples # <<>>,
           s.pair = {f, g}, s.span = Wide(Distance(at[f], at[g]))
    PROVE  Spread(s, <<at>> \o samples, f, g, Len(samples), MoveEach(s, samples))
<1> DEFINE n == Len(samples)
           all == <<at>> \o samples
<1>1. n \in Nat /\ n # 0
  OBVIOUS
<1>2. /\ all \in Seq(Ats(D)) /\ Len(all) = n + 1 /\ all[1] = at
      /\ \A i \in 1 .. n : all[i + 1] = samples[i]
  OBVIOUS
<1>3. Cardinality(D) > 1 /\ D # {}
  BY FingersAre
<1>4. PICK a \in [0 .. n -> Gestured] :
        /\ a[0] = s /\ MoveEach(s, samples) = a[n]
        /\ \A i \in 1 .. n : a[i] = Sampled(a[i - 1], samples[i])
  BY <1>3, Observes
<1>5. ASSUME NEW i \in 1 .. n PROVE a[i] = UpdatePinch(a[i - 1], all[i + 1], TRUE)
  <2>1. DOMAIN samples[i] = D /\ all[i + 1] = samples[i]
    BY <1>2 DEF Ats
  <2>2. a[i] = Sampled(a[i - 1], samples[i])
    BY <1>4
  <2>3. QED
    BY <1>3, <2>1, <2>2 DEF Sampled
<1> HIDE DEF all, n
<1> DEFINE T == {i \in 0 .. n : ~Spread(s, all, f, g, i, a[i])}
<1>6. T = {}
  <2>1. SUFFICES ASSUME T # {} PROVE FALSE
    OBVIOUS
  <2>2. T \subseteq Nat
    BY DEF T
  <2> HIDE DEF T
  <2>3. PICK i \in T : \A j \in T : i <= j
    BY <2>1, <2>2, Least
  <2>4. i \in 0 .. n /\ ~Spread(s, all, f, g, i, a[i])
    BY DEF T
  <2>5. i # 0
    <3>1. Spreads(all, f, g, 0) = {}
      BY DEF Spreads
    <3>2. SameTouch(s, s)
      BY DEF SameTouch
    <3>3. Spread(s, all, f, g, 0, s)
      BY <1>2, <3>1, <3>2 DEF Spread
    <3>4. QED
      BY <1>4, <2>4, <3>3
  <2>6. i - 1 \in 0 .. n /\ i \in 1 .. n /\ ~(i <= i - 1) /\ i \in 1 .. Len(all) - 1
    BY <1>1, <1>2, <2>4, <2>5
  <2>7. Spread(s, all, f, g, i - 1, a[i - 1])
    BY <2>3, <2>6 DEF T
  <2>8. Spread(s, all, f, g, i, UpdatePinch(a[i - 1], all[i + 1], TRUE))
    BY <1>2, <2>6, <2>7, Widens
  <2>9. QED
    BY <1>5, <2>4, <2>6, <2>8
<1>7. n \in 0 .. n
  BY <1>1
<1>8. QED
  BY <1>4, <1>6, <1>7 DEF all, n
-------------------------------------------------------------------------------
(* What a touch and its gestures have to do with each other.               *)

Touching ==
    [s : Gestured, at : UNION {Ats(D) : D \in SUBSET Fingers}, live : BOOLEAN, alone : BOOLEAN,
     first : Nat, been : SUBSET Places]
Lone(s, at, first, been) ==
    /\ first \in Places /\ s.down = first /\ s.dragging = (HitTest[first] = NoControl)
    /\ s.pressed = Presses(first, been) /\ \E f \in Fingers : DOMAIN at = {f} /\ at[f] = s.last
Paired(s, at) ==
    \E f, g \in DOMAIN at : f < g /\ s.pair = {f, g} /\ s.span = Wide(Distance(at[f], at[g]))
Fits(s, at, live, alone, first, been) ==
    /\ s.active = live /\ s.multitouch = (live /\ ~alone)
    /\ live => DOMAIN at # {}
    /\ live /\ alone => Lone(s, at, first, been)
    /\ live /\ ~alone /\ Cardinality(DOMAIN at) >= 2 => Paired(s, at)
Whole(t) == t \in Touching /\ Fits(t.s, t.at, t.live, t.alone, t.first, t.been)
Judged(t, e) == LET s == After(t, e).s IN TapsOnce(t, e, s) /\ TurnsAlone(t, e, s) /\ PinchesAsSpread(t, e, s)

LEMMA Assembled ==
    ASSUME NEW s \in Gestured, NEW D \in SUBSET Fingers, NEW at \in Ats(D), NEW live \in BOOLEAN,
           NEW alone \in BOOLEAN, NEW first \in Nat, NEW been \in SUBSET Places,
           Fits(s, at, live, alone, first, been)
    PROVE  Whole([s |-> s, at |-> at, live |-> live, alone |-> alone, first |-> first, been |-> been])
BY DEF Whole, Touching

LEMMA Parts ==
    ASSUME NEW t, Whole(t)
    PROVE  /\ t.s \in Gestured /\ DOMAIN t.at \in SUBSET Fingers /\ t.at \in Ats(DOMAIN t.at)
           /\ t.live \in BOOLEAN /\ t.alone \in BOOLEAN /\ t.first \in Nat /\ t.been \in SUBSET Places
           /\ t.s.active = t.live /\ t.s.multitouch = (t.live /\ ~t.alone)
           /\ t.live => DOMAIN t.at # {}
           /\ t.live /\ t.alone => Lone(t.s, t.at, t.first, t.been)
           /\ t.live /\ ~t.alone /\ Cardinality(DOMAIN t.at) >= 2 => Paired(t.s, t.at)
<1>1. t \in Touching /\ Fits(t.s, t.at, t.live, t.alone, t.first, t.been)
  BY DEF Whole
<1>2. PICK D \in SUBSET Fingers : t.at \in Ats(D)
  BY <1>1 DEF Touching
<1>3. DOMAIN t.at = D
  BY <1>2 DEF Ats
<1>4. t.s \in Gestured /\ t.live \in BOOLEAN /\ t.alone \in BOOLEAN /\ t.first \in Nat /\ t.been \in SUBSET Places
  BY <1>1 DEF Touching
<1>5. QED
  BY <1>1, <1>2, <1>3, <1>4 DEF Fits

LEMMA Silenced ==
    ASSUME NEW s \in Gestured
    PROVE  /\ Silent(s) \in Gestured /\ Silent(s).active = s.active /\ Silent(s).multitouch = s.multitouch
           /\ Silent(s).pair = s.pair /\ Silent(s).span = s.span /\ Silent(s).pressed = s.pressed
           /\ Silent(s).dragging = s.dragging /\ Silent(s).down = s.down /\ Silent(s).last = s.last
           /\ Silent(s).tapped = NoControl /\ Silent(s).turned = FALSE /\ Silent(s).pinches = {}
<1>1. NoControl \in Buttons
  BY HitsAre
<1>2. Silent(s) = [s EXCEPT !.tapped = NoControl, !.turned = FALSE, !.pinches = {}]
  BY DEF Silent
<1>3. QED
  BY <1>1, <1>2 DEF Gestured

LEMMA EventsAre ==
    ASSUME NEW e \in Events
    PROVE  /\ e.kind \in {"down", "pointer_down", "up", "pointer_up", "cancel", "callback", "move"}
           /\ e.kind \in {"down", "pointer_down", "up"} => \E x \in Places : e.xs = <<x>>
           /\ e.kind = "move" => e.xs \in Seq(Places) /\ e.xs # <<>>
<1>1. CASE \E kind \in {"down", "pointer_down", "up"}, x \in Places : e = [kind |-> kind, f |-> 0, xs |-> <<x>>]
  BY <1>1
<1>2. CASE \E f \in Fingers : e = [kind |-> "pointer_up", f |-> f, xs |-> <<>>]
  BY <1>2
<1>3. CASE \E kind \in {"cancel", "callback"} : e = [kind |-> kind, f |-> 0, xs |-> <<>>]
  BY <1>3
<1>4. CASE \E f \in Fingers, xs \in UNION {[1 .. n -> Places] : n \in 1 .. MaxSamples} :
             e = [kind |-> "move", f |-> f, xs |-> xs]
  <2>1. PICK xs \in UNION {[1 .. n -> Places] : n \in 1 .. MaxSamples}, f \in Fingers :
          e = [kind |-> "move", f |-> f, xs |-> xs]
    BY <1>4
  <2>2. PICK n \in 1 .. MaxSamples : xs \in [1 .. n -> Places]
    OBVIOUS
  <2>3. n \in Nat /\ n # 0
    BY TouchAssumption
  <2>4. xs \in Seq(Places) /\ Len(xs) = n
    BY <2>2, <2>3
  <2>5. QED
    BY <2>1, <2>3, <2>4
<1>5. QED
  BY <1>1, <1>2, <1>3, <1>4 DEF Events

\* What a finger or an interruption leaves that neither lifts the last finger nor moves.
LEMMA Unremarkable ==
    ASSUME NEW t, NEW e, e.kind \notin {"up", "move"}, After(t, e).s.tapped = NoControl,
           After(t, e).s.turned = FALSE, After(t, e).s.pinches = {}
    PROVE  Judged(t, e)
BY DEF Judged, TapsOnce, TurnsAlone, PinchesAsSpread

LEMMA DownWhole ==
    ASSUME NEW t, Whole(t), NEW e \in Events, Happens(t, e), e.kind = "down"
    PROVE  Whole(After(t, e)) /\ Judged(t, e)
<1>1. PICK x \in Places : e.xs = <<x>>
  BY EventsAre
<1> DEFINE f == NewFinger(t)
           at == With(t.at, f, x)
           s == Silent(t.s)
           r == Down(s, x)
           after == [s |-> r, at |-> at, live |-> TRUE, alone |-> TRUE, first |-> x, been |-> {x}]
<1>2. DOMAIN t.at = {}
  BY DEF Happens
<1>3. f \in Fingers
  <2>1. Fingers \ {} \in SUBSET Nat /\ Fingers \ {} # {}
    BY TouchAssumption
  <2>2. QED
    BY <1>2, <2>1, MinIs DEF NewFinger
<1>4. After(t, e) = after
  BY <1>1 DEF After
<1> HIDE DEF f
<1>5. at \in Ats({f}) /\ at[f] = x /\ DOMAIN at = {f} /\ {f} \in SUBSET Fingers
  BY <1>2, <1>3 DEF With, Ats
<1>6. s \in Gestured /\ s.tapped = NoControl /\ s.turned = FALSE /\ s.pinches = {}
  BY Parts, Silenced
<1> HIDE DEF s, at
<1>7. /\ r \in Gestured /\ r.active = TRUE /\ r.multitouch = FALSE
      /\ r.pinches = {} /\ r.tapped = NoControl /\ r.turned = FALSE
      /\ r.pressed = HitTest[x] /\ r.dragging = (HitTest[x] = NoControl) /\ r.down = x /\ r.last = x
  BY <1>6, DownTyped, ZenonT(60)
<1> HIDE DEF r
<1>8. x \in Nat /\ Stays(x, {x})
  <2>1. x \in Nat /\ Distance(x, x) = 0 /\ Slop \in Nat
    BY SpanSizes
  <2>2. QED
    BY <2>1 DEF Stays
<1>9. Lone(r, at, x, {x})
  BY <1>3, <1>5, <1>7, <1>8 DEF Lone, Presses
<1>10. Fits(r, at, TRUE, TRUE, x, {x})
  BY <1>5, <1>7, <1>9 DEF Fits
<1>11. Whole(after)
  BY <1>5, <1>7, <1>8, <1>10, Assembled
<1>12. Judged(t, e)
  <2>1. After(t, e).s = r
    BY <1>4
  <2>2. e.kind \notin {"up", "move"}
    OBVIOUS
  <2>3. QED
    BY <1>7, <2>1, <2>2, Unremarkable
<1>13. QED
  BY <1>4, <1>11, <1>12

\* A finger more, or one less of several: D are the fingers that are left.
LEMMA PairedNow ==
    ASSUME NEW s \in Gestured, s.tapped = NoControl, s.turned = FALSE, s.pinches = {},
           NEW D \in SUBSET Fingers, NEW at \in Ats(D)
    PROVE  /\ PointerChange(s, at) \in Gestured
           /\ PointerChange(s, at).active = s.active
           /\ PointerChange(s, at).multitouch = (s.active \/ s.multitouch)
           /\ PointerChange(s, at).tapped = NoControl /\ PointerChange(s, at).turned = FALSE
           /\ PointerChange(s, at).pinches = {}
           /\ s.active /\ Cardinality(D) >= 2 => Paired(PointerChange(s, at), at)
<1>1. s.active \in BOOLEAN /\ s.multitouch \in BOOLEAN /\ FALSE \in BOOLEAN
  BY DEF Gestured
<1>2. CASE ~s.active
  <2>1. PointerChange(s, at) = s
    BY <1>2 DEF PointerChange
  <2>2. QED
    BY <1>1, <1>2, <2>1
<1>3. CASE s.active
  <2> DEFINE r == Multitouch(s)
             p == Followed(r, D)
             q == UpdatePinch(r, at, FALSE)
  <2>1. /\ r \in Gestured /\ r.active = s.active /\ r.multitouch = TRUE /\ r.pinches = {}
        /\ r.tapped = NoControl /\ r.turned = FALSE
    BY CancelTyped
  <2>2. PointerChange(s, at) = q
    BY <1>3 DEF PointerChange
  <2> HIDE DEF r
  <2>3. q \in Gestured /\ SameTouch(r, q)
    BY <1>1, <2>1, PinchTyped
  <2>4. Cardinality(D) < 2 => q.pinches = r.pinches
    BY <1>1, <2>1, PinchTyped
  <2>5. Cardinality(D) >= 2 => /\ p \in PairsOf(D) /\ q.pair = p /\ q.span = Wide(Span(p, at))
                               /\ q.pinches = Scales(r, FALSE, p, Span(p, at))
    BY <1>1, <2>1, PinchTyped
  <2> HIDE DEF p, q
  <2>6. Cardinality(D) \in Nat
    BY FingersAre
  <2>7. q.pinches = {}
    <3>1. CASE Cardinality(D) < 2
      BY <2>1, <2>4, <3>1
    <3>2. CASE Cardinality(D) >= 2
      <4>1. Scales(r, FALSE, p, Span(p, at)) = r.pinches
        BY DEF Scales
      <4>2. QED
        BY <2>1, <2>5, <3>2, <4>1
    <3>3. QED
      BY <2>6, <3>1, <3>2
  <2>8. ASSUME Cardinality(D) >= 2 PROVE Paired(q, at)
    <3>1. p \in PairsOf(D) /\ q.pair = p /\ q.span = Wide(Span(p, at))
      BY <2>5, <2>8
    <3>2. PICK f \in D, g \in D : f < g /\ p = {f, g}
      BY <3>1 DEF PairsOf
    <3>3. Span(p, at) = Distance(at[f], at[g])
      BY <3>1, <3>2, PairsFacts
    <3>4. DOMAIN at = D
      BY DEF Ats
    <3>5. QED
      BY <3>1, <3>2, <3>3, <3>4 DEF Paired
  <2>9. q.active = s.active /\ q.multitouch = TRUE /\ q.tapped = NoControl /\ q.turned = FALSE
    BY <2>1, <2>3 DEF SameTouch
  <2>10. QED
    BY <1>1, <1>3, <2>2, <2>3, <2>7, <2>8, <2>9
<1>4. QED
  BY <1>1, <1>2, <1>3

LEMMA PointerDownWhole ==
    ASSUME NEW t, Whole(t), NEW e \in Events, Happens(t, e), e.kind = "pointer_down"
    PROVE  Whole(After(t, e)) /\ Judged(t, e)
<1>1. PICK x \in Places : e.xs = <<x>>
  BY EventsAre
<1> DEFINE f == NewFinger(t)
           D == DOMAIN t.at \cup {f}
           at == With(t.at, f, x)
           s == Silent(t.s)
           r == PointerChange(s, at)
           after == [s |-> r, at |-> at, live |-> t.live, alone |-> FALSE, first |-> t.first, been |-> {}]
<1>2. DOMAIN t.at \in SUBSET Fingers /\ DOMAIN t.at # {} /\ DOMAIN t.at # Fingers /\ t.at \in Ats(DOMAIN t.at)
  BY Parts DEF Happens
<1>3. f \in Fingers \ DOMAIN t.at
  <2>1. Fingers \ DOMAIN t.at \in SUBSET Nat /\ Fingers \ DOMAIN t.at # {}
    BY <1>2, TouchAssumption
  <2>2. QED
    BY <2>1, MinIs DEF NewFinger
<1>4. After(t, e) = after
  <2>1. After(t, e) = [t EXCEPT !.s = r, !.at = at, !.alone = FALSE, !.been = {}]
    BY <1>1 DEF After
  <2>2. t \in Touching
    BY DEF Whole
  <2> HIDE DEF r, at
  <2>3. QED
    BY <2>1, <2>2 DEF Touching
<1> HIDE DEF f
<1>5. D \in SUBSET Fingers /\ at \in Ats(D) /\ DOMAIN at = D
  BY <1>1, <1>2, <1>3 DEF With, Ats
<1>6. /\ s \in Gestured /\ s.tapped = NoControl /\ s.turned = FALSE /\ s.pinches = {}
      /\ s.active = t.live /\ s.multitouch = (t.live /\ ~t.alone)
  <2>1. t.s \in Gestured /\ t.s.active = t.live /\ t.s.multitouch = (t.live /\ ~t.alone)
    BY Parts
  <2>2. QED
    BY <2>1, Silenced
<1>7. t.live \in BOOLEAN /\ t.alone \in BOOLEAN /\ t.first \in Nat /\ {} \in SUBSET Places
  BY Parts
<1> HIDE DEF s, at, D
<1>8. /\ r \in Gestured /\ r.active = s.active /\ r.multitouch = (s.active \/ s.multitouch)
      /\ r.tapped = NoControl /\ r.turned = FALSE /\ r.pinches = {}
      /\ s.active /\ Cardinality(D) >= 2 => Paired(r, at)
  BY <1>5, <1>6, PairedNow
<1> HIDE DEF r
<1>9. Fits(r, at, t.live, FALSE, t.first, {})
  <2>1. D # {}
    BY DEF D
  <2>2. QED
    BY <1>5, <1>6, <1>7, <1>8, <2>1 DEF Fits
<1>10. Whole(after)
  BY <1>5, <1>7, <1>8, <1>9, Assembled
<1>11. Judged(t, e)
  <2>1. After(t, e).s = r
    BY <1>4
  <2>2. e.kind \notin {"up", "move"}
    OBVIOUS
  <2>3. QED
    BY <1>8, <2>1, <2>2, Unremarkable
<1>12. QED
  BY <1>4, <1>10, <1>11

LEMMA PointerUpWhole ==
    ASSUME NEW t, Whole(t), NEW e \in Events, Happens(t, e), e.kind = "pointer_up"
    PROVE  Whole(After(t, e)) /\ Judged(t, e)
<1> DEFINE D == DOMAIN t.at \ {e.f}
           at == Without(t.at, e.f)
           s == Silent(t.s)
           r == PointerChange(s, at)
           after == [s |-> r, at |-> at, live |-> t.live, alone |-> t.alone, first |-> t.first, been |-> t.been]
<1>1. DOMAIN t.at \in SUBSET Fingers /\ e.f \in DOMAIN t.at /\ DOMAIN t.at # {e.f} /\ t.at \in Ats(DOMAIN t.at)
  BY Parts DEF Happens
<1>2. After(t, e) = after
  <2>1. After(t, e) = [t EXCEPT !.s = r, !.at = at]
    BY DEF After
  <2>2. t \in Touching
    BY DEF Whole
  <2> HIDE DEF r, at
  <2>3. QED
    BY <2>1, <2>2 DEF Touching
<1>3. D \in SUBSET Fingers /\ at \in Ats(D) /\ DOMAIN at = D /\ D # {}
  BY <1>1 DEF Without, Ats
<1>4. /\ s \in Gestured /\ s.tapped = NoControl /\ s.turned = FALSE /\ s.pinches = {}
      /\ s.active = t.live /\ s.multitouch = (t.live /\ ~t.alone)
  <2>1. t.s \in Gestured /\ t.s.active = t.live /\ t.s.multitouch = (t.live /\ ~t.alone)
    BY Parts
  <2>2. QED
    BY <2>1, Silenced
<1>5. t.live \in BOOLEAN /\ t.alone \in BOOLEAN /\ t.first \in Nat /\ t.been \in SUBSET Places
  BY Parts
<1>6. ~(t.live /\ t.alone)
  <2>1. t.live /\ t.alone => \E f \in Fingers : DOMAIN t.at = {f}
    BY Parts DEF Lone
  <2>2. QED
    BY <1>1, <2>1
<1> HIDE DEF s, at, D
<1>7. /\ r \in Gestured /\ r.active = s.active /\ r.multitouch = (s.active \/ s.multitouch)
      /\ r.tapped = NoControl /\ r.turned = FALSE /\ r.pinches = {}
      /\ s.active /\ Cardinality(D) >= 2 => Paired(r, at)
  BY <1>3, <1>4, PairedNow
<1> HIDE DEF r
<1>8. Fits(r, at, t.live, t.alone, t.first, t.been)
  BY <1>3, <1>4, <1>5, <1>6, <1>7 DEF Fits
<1>9. Whole(after)
  BY <1>3, <1>5, <1>7, <1>8, Assembled
<1>10. Judged(t, e)
  <2>1. After(t, e).s = r
    BY <1>2
  <2>2. e.kind \notin {"up", "move"}
    OBVIOUS
  <2>3. QED
    BY <1>7, <2>1, <2>2, Unremarkable
<1>11. QED
  BY <1>2, <1>9, <1>10

LEMMA NoFingers == <<>> \in Ats({}) /\ DOMAIN <<>> = {} /\ {} \in SUBSET Fingers
BY DEF Ats

LEMMA InterruptedWhole ==
    ASSUME NEW t, Whole(t), NEW e \in Events, e.kind \in {"cancel", "callback"}
    PROVE  Whole(After(t, e)) /\ Judged(t, e)
<1> DEFINE at == IF e.kind = "cancel" THEN <<>> ELSE t.at
           s == Silent(t.s)
           r == CancelGestures(s)
           after == [s |-> r, at |-> at, live |-> FALSE, alone |-> FALSE, first |-> t.first, been |-> {}]
<1>1. After(t, e) = after
  <2>1. After(t, e) = [t EXCEPT !.s = r, !.live = FALSE, !.alone = FALSE, !.been = {}, !.at = at]
    BY DEF After
  <2>2. t \in Touching
    BY DEF Whole
  <2> HIDE DEF r, at
  <2>3. QED
    BY <2>1, <2>2 DEF Touching
<1>2. at \in Ats(DOMAIN at) /\ DOMAIN at \in SUBSET Fingers
  BY Parts, NoFingers
<1>3. s \in Gestured /\ s.tapped = NoControl /\ s.turned = FALSE /\ s.pinches = {}
  BY Parts, Silenced
<1>4. t.first \in Nat /\ {} \in SUBSET Places /\ FALSE \in BOOLEAN
  BY Parts
<1> HIDE DEF s, at
<1>5. /\ r \in Gestured /\ r.active = FALSE /\ r.multitouch = FALSE
      /\ r.tapped = NoControl /\ r.turned = FALSE /\ r.pinches = {}
  BY <1>3, CancelTyped
<1> HIDE DEF r
<1>6. Fits(r, at, FALSE, FALSE, t.first, {})
  BY <1>5 DEF Fits
<1>7. Whole(after)
  BY <1>2, <1>4, <1>5, <1>6, Assembled
<1>8. Judged(t, e)
  <2>1. After(t, e).s = r
    BY <1>1
  <2>2. e.kind \notin {"up", "move"}
    OBVIOUS
  <2>3. QED
    BY <1>5, <2>1, <2>2, Unremarkable
<1>9. QED
  BY <1>1, <1>7, <1>8

LEMMA StaysMore ==
    ASSUME NEW first, NEW been, NEW more
    PROVE  Stays(first, been \cup more) <=>
             Stays(first, been) /\ \A x \in more : HitTest[x] = HitTest[first] /\ Distance(x, first) <= Slop
BY DEF Stays

LEMMA UpWhole ==
    ASSUME NEW t, Whole(t), NEW e \in Events, Happens(t, e), e.kind = "up"
    PROVE  Whole(After(t, e)) /\ Judged(t, e)
<1>1. PICK x \in Places : e.xs = <<x>>
  BY EventsAre
<1> DEFINE s == Silent(t.s)
           r == Up(s, x)
           been == Been(t, e.xs)
           after == [s |-> r, at |-> <<>>, live |-> FALSE, alone |-> t.alone, first |-> t.first, been |-> been]
<1>2. After(t, e) = after
  <2>1. After(t, e) = [t EXCEPT !.s = r, !.at = <<>>, !.live = FALSE, !.been = been]
    BY <1>1 DEF After
  <2>2. t \in Touching
    BY DEF Whole
  <2> HIDE DEF r, been
  <2>3. QED
    BY <2>1, <2>2 DEF Touching
<1>3. t.live \in BOOLEAN /\ t.alone \in BOOLEAN /\ t.first \in Nat /\ t.been \in SUBSET Places
  BY Parts
<1>4. been \in SUBSET Places /\ (t.alone => been = t.been \cup {x})
  <2>1. ToSet(e.xs) = {x}
    BY <1>1 DEF ToSet
  <2>2. QED
    BY <1>3, <2>1 DEF Been
<1>5. /\ s \in Gestured /\ s.tapped = NoControl /\ s.turned = FALSE /\ s.pinches = {}
      /\ s.active = t.live /\ s.multitouch = (t.live /\ ~t.alone)
      /\ s.pressed = t.s.pressed /\ s.down = t.s.down
  <2>1. t.s \in Gestured /\ t.s.active = t.live /\ t.s.multitouch = (t.live /\ ~t.alone)
    BY Parts
  <2>2. QED
    BY <2>1, Silenced
<1> HIDE DEF s
<1> DEFINE tap == s.pressed # NoControl /\ HitTest[x] = s.pressed /\ ~Moved(s, x)
<1>6. /\ r \in Gestured /\ r.active = FALSE /\ r.multitouch = FALSE /\ r.turned = FALSE /\ r.pinches = {}
      /\ r.tapped = IF t.live /\ t.alone /\ tap THEN s.pressed ELSE NoControl
  <2>1. CASE ~t.live
    <3>1. r = s
      BY <1>5, <2>1 DEF Up
    <3>2. QED
      BY <1>3, <1>5, <2>1, <3>1
  <2>2. CASE t.live /\ ~t.alone
    <3>1. r = CancelGestures(s)
      BY <1>5, <2>2 DEF Up
    <3>2. /\ CancelGestures(s) \in Gestured
          /\ CancelGestures(s).active = FALSE /\ CancelGestures(s).multitouch = FALSE
          /\ CancelGestures(s).pinches = s.pinches
          /\ CancelGestures(s).tapped = s.tapped /\ CancelGestures(s).turned = s.turned
      BY <1>5, CancelTyped
    <3>3. QED
      BY <1>5, <2>2, <3>1, <3>2
  <2>3. CASE t.live /\ t.alone
    <3> DEFINE u == TouchUp(s, x)
    <3>1. r = CancelGestures(u)
      BY <1>3, <1>5, <2>3 DEF Up
    <3>2. /\ u \in Gestured /\ SamePinch(s, u) /\ u.turned = s.turned
          /\ u.tapped = IF tap THEN s.pressed ELSE s.tapped
      BY <1>5, UpTyped
    <3> HIDE DEF u, tap
    <3>3. /\ CancelGestures(u) \in Gestured
          /\ CancelGestures(u).active = FALSE /\ CancelGestures(u).multitouch = FALSE
          /\ CancelGestures(u).pinches = u.pinches
          /\ CancelGestures(u).tapped = u.tapped /\ CancelGestures(u).turned = u.turned
      BY <3>2, CancelTyped
    <3>4. QED
      BY <1>5, <2>3, <3>1, <3>2, <3>3 DEF SamePinch
  <2>4. QED
    BY <1>3, <2>1, <2>2, <2>3
<1> HIDE DEF r
<1>7. Fits(r, <<>>, FALSE, t.alone, t.first, been)
  BY <1>6 DEF Fits
<1>8. Whole(after)
  <2> HIDE DEF been
  <2>1. FALSE \in BOOLEAN
    OBVIOUS
  <2>2. QED
    BY <1>3, <1>4, <1>6, <1>7, <2>1, NoFingers, Assembled
<1>9. ASSUME t.live /\ t.alone
      PROVE  (IF tap THEN s.pressed ELSE NoControl) = IF Stays(t.first, been) THEN HitTest[t.first] ELSE NoControl
  <2>1. Lone(t.s, t.at, t.first, t.been)
    BY <1>9, Parts
  <2>2. t.first \in Places /\ s.down = t.first /\ s.pressed = Presses(t.first, t.been)
    BY <1>5, <2>1 DEF Lone
  <2>3. Moved(s, x) <=> ~(Distance(x, t.first) <= Slop)
    <3>1. x \in Nat /\ t.first \in Nat
      BY <2>2, SpanSizes
    <3>2. Distance(x, t.first) \in Nat /\ Slop \in Nat
      BY <3>1, SpanSizes
    <3>3. QED
      BY <2>2, <3>2 DEF Moved
  <2>4. Stays(t.first, been) <=> /\ Stays(t.first, t.been) /\ HitTest[x] = HitTest[t.first]
                                 /\ Distance(x, t.first) <= Slop
    <3>1. been = t.been \cup {x}
      BY <1>4, <1>9
    <3>2. Stays(t.first, t.been \cup {x}) <=>
             Stays(t.first, t.been) /\ \A y \in {x} : HitTest[y] = HitTest[t.first] /\ Distance(y, t.first) <= Slop
      BY StaysMore
    <3> HIDE DEF been
    <3>3. QED
      BY <3>1, <3>2
  <2> HIDE DEF been
  <2>5. QED
    BY <2>2, <2>3, <2>4 DEF Presses
<1>10. Judged(t, e)
  <2>1. After(t, e).s = r
    BY <1>2
  <2>2. TapsOnce(t, e, r)
    <3>1. (\A y \in been : HitTest[y] = HitTest[t.first] /\ Distance(y, t.first) <= Slop) <=> Stays(t.first, been)
      BY DEF Stays
    <3> HIDE DEF tap
    <3>2. QED
      BY <1>6, <1>9, <3>1 DEF TapsOnce
  <2>3. TurnsAlone(t, e, r) /\ PinchesAsSpread(t, e, r)
    BY <1>6 DEF TurnsAlone, PinchesAsSpread
  <2>4. QED
    BY <2>1, <2>2, <2>3 DEF Judged
<1>11. QED
  BY <1>2, <1>8, <1>10

LEMMA MoveWhole ==
    ASSUME NEW t, Whole(t), NEW e \in Events, Happens(t, e), e.kind = "move"
    PROVE  Whole(After(t, e)) /\ Judged(t, e)
<1> DEFINE xs == e.xs
           n == Len(xs)
           D == DOMAIN t.at
           samples == Samples(t, e)
           s == Silent(t.s)
           r == Move(s, samples)
           at == Last(samples)
           been == Been(t, xs)
           after == [s |-> r, at |-> at, live |-> t.live, alone |-> t.alone, first |-> t.first, been |-> been]
<1>1. xs \in Seq(Places) /\ xs # <<>> /\ n \in Nat /\ n # 0
  BY EventsAre
<1>2. D \in SUBSET Fingers /\ t.at \in Ats(D) /\ e.f \in D /\ D # {}
  BY Parts DEF Happens
<1>3. After(t, e) = after
  <2>1. After(t, e) = [t EXCEPT !.s = r, !.at = at, !.been = been]
    BY DEF After
  <2>2. t \in Touching
    BY DEF Whole
  <2> HIDE DEF r, at, been
  <2>3. QED
    BY <2>1, <2>2 DEF Touching
<1>4. /\ samples \in Seq(Ats(D)) /\ Len(samples) = n /\ samples # <<>>
      /\ \A i \in 1 .. n : samples[i][e.f] = xs[i]
  <2>1. samples = [i \in 1 .. n |-> [t.at EXCEPT ![e.f] = xs[i]]]
    BY <1>1 DEF Samples
  <2>2. ASSUME NEW i \in 1 .. n
        PROVE  [t.at EXCEPT ![e.f] = xs[i]] \in Ats(D) /\ [t.at EXCEPT ![e.f] = xs[i]][e.f] = xs[i]
    <3>1. xs[i] \in Places
      BY <1>1
    <3> HIDE DEF xs
    <3>2. QED
      BY <1>2, <3>1 DEF Ats
  <2> DEFINE Sample(i) == [t.at EXCEPT ![e.f] = xs[i]]
  <2>3. samples = [i \in 1 .. n |-> Sample(i)] /\ \A i \in 1 .. n : Sample(i) \in Ats(D) /\ Sample(i)[e.f] = xs[i]
    BY <2>1, <2>2
  <2> HIDE DEF samples, n, xs, D, Sample
  <2>4. samples \in [1 .. n -> Ats(D)] /\ \A i \in 1 .. n : samples[i][e.f] = xs[i]
    BY <2>3
  <2>5. samples \in Seq(Ats(D)) /\ Len(samples) = n
    BY <1>1, <2>4
  <2>6. QED
    BY <1>1, <2>4, <2>5
<1>5. t.live \in BOOLEAN /\ t.alone \in BOOLEAN /\ t.first \in Nat /\ t.been \in SUBSET Places
  BY Parts
<1>6. /\ s \in Gestured /\ s.tapped = NoControl /\ s.turned = FALSE /\ s.pinches = {}
      /\ s.active = t.live /\ s.multitouch = (t.live /\ ~t.alone)
      /\ s.pair = t.s.pair /\ s.span = t.s.span /\ s.pressed = t.s.pressed
      /\ s.dragging = t.s.dragging /\ s.down = t.s.down /\ s.last = t.s.last
  <2>1. t.s \in Gestured /\ t.s.active = t.live /\ t.s.multitouch = (t.live /\ ~t.alone)
    BY Parts
  <2>2. QED
    BY <2>1, Silenced
<1>7. at = samples[n] /\ at \in Ats(D) /\ DOMAIN at = D /\ at[e.f] = xs[n]
  <2>1. at = samples[n] /\ n \in 1 .. n
    BY <1>1, <1>4 DEF Last
  <2> HIDE DEF samples, xs, n, D, at
  <2>2. samples[n] \in Ats(D) /\ samples[n][e.f] = xs[n]
    BY <1>4, <2>1
  <2>3. QED
    BY <2>1, <2>2 DEF Ats
<1>8. been \in SUBSET Places /\ (t.alone => been = t.been \cup {xs[k] : k \in 1 .. n})
  <2>1. ToSet(xs) = {xs[k] : k \in 1 .. n} /\ ToSet(xs) \subseteq Places
    BY <1>1 DEF ToSet
  <2> HIDE DEF xs, n
  <2>2. QED
    BY <1>5, <2>1 DEF Been
<1>9. Cardinality(D) \in Nat /\ Cardinality(D) >= 1
  BY <1>2, FingersAre
<1>10. r = IF t.live THEN MoveEach(s, samples) ELSE s
  BY <1>6 DEF Move
<1>11. SUFFICES r \in Gestured /\ Fits(r, at, t.live, t.alone, t.first, been) /\ r.tapped = NoControl
                /\ TurnsAlone(t, e, r) /\ PinchesAsSpread(t, e, r)
  <2>1. TapsOnce(t, e, r)
    BY <1>11 DEF TapsOnce
  <2>2. After(t, e).s = r
    BY <1>3
  <2>3. Judged(t, e)
    <3> HIDE DEF r
    <3>1. QED
      BY <1>11, <2>1, <2>2 DEF Judged
  <2> HIDE DEF r, at, been, D
  <2>4. Whole(after)
    BY <1>2, <1>5, <1>7, <1>8, <1>11, Assembled
  <2>5. QED
    BY <1>3, <2>3, <2>4
<1> HIDE DEF s, samples, at, been, r, xs, n
<1>12. CASE ~t.live
  BY <1>5, <1>6, <1>10, <1>12 DEF Fits, TurnsAlone, PinchesAsSpread
<1>13. CASE t.live /\ t.alone
  <2>1. Lone(t.s, t.at, t.first, t.been)
    BY <1>13, Parts
  <2>2. PICK f \in Fingers : D = {f} /\ t.at[f] = t.s.last
    BY <2>1 DEF Lone
  <2>3. e.f = f /\ Cardinality(D) = 1
    BY <1>2, <2>2, FS_Singleton
  <2>4. t.first \in Places /\ s.down = t.first /\ s.dragging = (HitTest[t.first] = NoControl)
        /\ s.pressed = Presses(t.first, t.been) /\ s.last = t.at[e.f]
    BY <1>6, <2>1, <2>2, <2>3 DEF Lone
  <2>5. ~s.multitouch /\ r = MoveEach(s, samples)
    BY <1>6, <1>10, <1>13
  <2>6. Went(s, xs, n, t.first, t.been, r)
    <3>1. samples \in Seq(Ats({f})) /\ Len(samples) = Len(xs) /\ \A i \in 1 .. Len(xs) : samples[i][f] = xs[i]
      BY <1>4, <2>2, <2>3 DEF n
    <3>2. Went(s, xs, Len(xs), t.first, t.been, MoveEach(s, samples))
      BY <1>1, <1>5, <1>6, <2>4, <2>5, <3>1, LoneMoves
    <3>3. QED
      BY <2>5, <3>2 DEF n
  <2>7. /\ r \in Gestured /\ SamePinch(s, r)
        /\ r.dragging = s.dragging /\ r.down = s.down /\ r.tapped = s.tapped /\ r.last = xs[n]
        /\ r.turned = (s.turned \/ (s.dragging /\ \E k \in 1 .. n : xs[k] # s.last))
        /\ r.pressed = Presses(t.first, t.been \cup {xs[k] : k \in 1 .. n})
    BY <1>1, <2>6 DEF Went
  <2>8. r.pressed = Presses(t.first, been)
    BY <1>8, <1>13, <2>7
  <2>9. Lone(r, at, t.first, been)
    BY <1>7, <2>2, <2>3, <2>4, <2>7, <2>8 DEF Lone
  <2>10. r.active = t.live /\ r.multitouch = (t.live /\ ~t.alone) /\ r.pinches = {}
    BY <1>6, <2>7 DEF SamePinch
  <2>11. Fits(r, at, t.live, t.alone, t.first, been)
    BY <1>7, <1>13, <2>2, <2>9, <2>10 DEF Fits
  <2>12. TurnsAlone(t, e, r)
    <3>1. ToSet(xs) = {xs[k] : k \in 1 .. n}
      BY <1>1 DEF ToSet, n
    <3>2. 1 \in 1 .. n
      BY <1>1
    <3>3. (\E k \in 1 .. n : xs[k] # s.last) <=> ToSet(xs) # {s.last}
      BY <3>1, <3>2
    <3>4. r.turned <=> HitTest[t.first] = NoControl /\ ToSet(xs) # {t.at[e.f]}
      BY <1>6, <2>4, <2>7, <3>3
    <3>5. QED
      BY <1>13, <3>4 DEF TurnsAlone, xs
  <2>13. PinchesAsSpread(t, e, r)
    BY <2>3, <2>10 DEF PinchesAsSpread
  <2>14. QED
    BY <1>6, <2>7, <2>11, <2>12, <2>13
<1>14. CASE t.live /\ ~t.alone /\ Cardinality(D) = 1
  <2>1. r = s
    <3>1. ~(Cardinality(D) > 1) /\ s.multitouch
      <4>1. ~(Cardinality(D) > 1)
        BY <1>14
      <4>2. s.multitouch = (t.live /\ ~t.alone)
        BY <1>6
      <4>3. QED
        BY <1>14, <4>1, <4>2
    <3> HIDE DEF D
    <3>2. \E a \in [0 .. Len(samples) -> Gestured] :
            /\ a[0] = IF Cardinality(D) > 1 /\ ~s.multitouch THEN Multitouch(s) ELSE s
            /\ \A i \in 1 .. Len(samples) : a[i] = Sampled(a[i - 1], samples[i])
            /\ MoveEach(s, samples) = IF Cardinality(D) > 1 \/ ~s.multitouch THEN a[Len(samples)] ELSE s
      BY <1>2, <1>4, <1>6, Observes
    <3>3. MoveEach(s, samples) = s
      BY <3>1, <3>2
    <3>4. QED
      BY <1>10, <1>14, <3>3
  <2>2. Fits(s, at, t.live, t.alone, t.first, been)
    BY <1>2, <1>6, <1>7, <1>14 DEF Fits
  <2>3. TurnsAlone(t, e, s) /\ PinchesAsSpread(t, e, s)
    BY <1>6, <1>14 DEF TurnsAlone, PinchesAsSpread
  <2>4. QED
    BY <1>6, <2>1, <2>2, <2>3
<1>15. CASE t.live /\ ~t.alone /\ Cardinality(D) >= 2
  <2>1. Paired(t.s, t.at)
    BY <1>15, Parts
  <2>2. PICK f \in D, g \in D : f < g /\ s.pair = {f, g} /\ s.span = Wide(Distance(t.at[f], t.at[g]))
    BY <1>6, <2>1 DEF Paired
  <2>3. s.multitouch /\ r = MoveEach(s, samples)
    BY <1>6, <1>10, <1>15
  <2> DEFINE all == <<t.at>> \o samples
  <2>4. all[n + 1] = at /\ Len(all) - 1 = n
    BY <1>1, <1>2, <1>4, <1>7
  <2> HIDE DEF all, D
  <2>5. Spread(s, all, f, g, n, r)
    <3>1. Spread(s, <<t.at>> \o samples, f, g, Len(samples), MoveEach(s, samples))
      BY <1>2, <1>4, <1>6, <1>15, <2>2, <2>3, PairMoves
    <3>2. QED
      BY <1>4, <2>3, <3>1 DEF all
  <2>6. /\ r \in Gestured /\ SameTouch(s, r) /\ r.pair = {f, g}
        /\ r.span = Wide(Distance(at[f], at[g])) /\ r.pinches = Spreads(all, f, g, n)
    BY <2>4, <2>5 DEF Spread
  <2>7. Paired(r, at)
    BY <1>7, <2>2, <2>6 DEF Paired
  <2>8. r.active = t.live /\ r.multitouch = (t.live /\ ~t.alone) /\ r.tapped = NoControl /\ r.turned = FALSE
    BY <1>6, <2>6 DEF SameTouch
  <2>9. Fits(r, at, t.live, t.alone, t.first, been)
    BY <1>2, <1>7, <1>15, <2>7, <2>8 DEF Fits
  <2>10. TurnsAlone(t, e, r)
    BY <1>15, <2>8 DEF TurnsAlone
  <2>11. Spans(all, f, g) = Spreads(all, f, g, n)
    BY <2>4 DEF Spans, Spreads
  <2>12. f # g
    BY <1>2, <2>2, FingersAre
  <2>13. PinchesAsSpread(t, e, r)
    <3>1. r.pinches = Spans(<<t.at>> \o Samples(t, e), f, g)
      BY <2>6, <2>11 DEF all, samples
    <3>2. QED
      BY <2>12, <3>1, <1>15, <1>9 DEF PinchesAsSpread, D
  <2>14. QED
    BY <2>6, <2>8, <2>9, <2>10, <2>13
<1>16. QED
  BY <1>5, <1>9, <1>12, <1>13, <1>14, <1>15

LEMMA StepWhole ==
    ASSUME NEW t, Whole(t), NEW e \in Events, Happens(t, e)
    PROVE  Whole(After(t, e)) /\ Judged(t, e)
<1>1. e.kind \in {"down", "pointer_down", "up", "pointer_up", "cancel", "callback", "move"}
  BY EventsAre
<1>2. CASE e.kind = "down"
  BY <1>2, DownWhole
<1>3. CASE e.kind = "pointer_down"
  BY <1>3, PointerDownWhole
<1>4. CASE e.kind = "pointer_up"
  BY <1>4, PointerUpWhole
<1>5. CASE e.kind = "up"
  BY <1>5, UpWhole
<1>6. CASE e.kind = "move"
  BY <1>6, MoveWhole
<1>7. CASE e.kind \in {"cancel", "callback"}
  BY <1>7, InterruptedWhole
<1>8. QED
  BY <1>1, <1>2, <1>3, <1>4, <1>5, <1>6, <1>7

LEMMA NothingWhole == Whole(Nothing)
<1>1. Untouched \in Gestured /\ Untouched.active = FALSE /\ Untouched.multitouch = FALSE
  <2>1. NoControl \in Buttons /\ 0 \in Nat
    BY HitsAre
  <2>2. QED
    BY <2>1 DEF Untouched, Gestured
<1>2. Fits(Untouched, <<>>, FALSE, FALSE, 0, {})
  BY <1>1 DEF Fits
<1>3. FALSE \in BOOLEAN /\ 0 \in Nat /\ {} \in SUBSET Places
  OBVIOUS
<1>4. QED
  BY <1>1, <1>2, <1>3, NoFingers, Assembled DEF Nothing

\* The touches that are met, as far as MaxEvents goes, are whole.
LEMMA TouchesWhole == \A n \in 0 .. MaxEvents : \A t \in Touches[n] : Whole(t)
<1> DEFINE W == {t \in Touching : Whole(t)}
           step == [n \in 1 .. MaxEvents |-> [T \in SUBSET W |-> OneMore(T)]]
           touches == CHOOSE h : h = [n \in 0 .. MaxEvents |-> IF n = 0 THEN {Nothing} ELSE OneMore(h[n - 1])]
<1>1. MaxEvents \in Nat
  BY TouchAssumption
<1>2. \A t : t \in W <=> Whole(t)
  BY DEF Whole
<1>3. ASSUME NEW T \in SUBSET W PROVE OneMore(T) \in SUBSET W
  <2>1. ASSUME NEW t \in T, NEW e \in Events PROVE (IF Happens(t, e) THEN After(t, e) ELSE t) \in W
    <3>1. Whole(t)
      BY <1>2
    <3>2. Happens(t, e) => Whole(After(t, e))
      BY <3>1, StepWhole
    <3> HIDE DEF W
    <3>3. QED
      BY <1>2, <3>1, <3>2
  <2> HIDE DEF W
  <2>2. QED
    BY <2>1 DEF OneMore
<1>4. {Nothing} \in SUBSET W
  BY <1>2, NothingWhole
<1>5. step \in [1 .. MaxEvents -> [SUBSET W -> SUBSET W]]
  <2> HIDE DEF W
  <2>1. QED
    BY <1>3
<1>6. Touches = touches
  BY DEF Touches
<1> HIDE DEF W
<1>7. PICK f \in [0 .. MaxEvents -> SUBSET W] : Steps(f, MaxEvents, {Nothing}, step)
  <2> HIDE DEF step
  <2>1. QED
    BY <1>1, <1>4, <1>5, StepsExist
<1>8. f[0] = {Nothing} /\ \A n \in 1 .. MaxEvents : f[n] = step[n][f[n - 1]]
  <2> HIDE DEF step
  <2>1. QED
    BY <1>7 DEF Steps
<1>9. ASSUME NEW n \in 1 .. MaxEvents PROVE f[n] = OneMore(f[n - 1])
  <2>1. n - 1 \in 0 .. MaxEvents
    BY <1>1
  <2>2. f[n - 1] \in SUBSET W
    BY <1>7, <2>1
  <2>3. QED
    BY <1>8, <2>2
<1> HIDE DEF step
<1> DEFINE first == {Nothing}
           last == MaxEvents
<1>10. f = [n \in 0 .. last |-> IF n = 0 THEN first ELSE OneMore(f[n - 1])]
  <2> DEFINE S == SUBSET W
  <2>1. last \in Nat /\ f[0] = first /\ f \in [0 .. last -> S]
    BY <1>1, <1>7, <1>8
  <2>2. \A n \in 1 .. last : f[n] = OneMore(f[n - 1])
    BY <1>9
  <2> HIDE DEF first, last, S
  <2>3. DOMAIN f = 0 .. last /\ \A n \in 0 .. last : f[n] = IF n = 0 THEN first ELSE OneMore(f[n - 1])
    BY <2>1, <2>2
  <2>4. QED
    BY <2>1, <2>3
<1>11. touches = [n \in 0 .. MaxEvents |-> IF n = 0 THEN {Nothing} ELSE OneMore(touches[n - 1])]
  BY <1>10
<1> HIDE DEF touches
<1>12. touches[0] = {Nothing} /\ \A n \in 1 .. MaxEvents : touches[n] = OneMore(touches[n - 1])
  <2>1. touches = [n \in 0 .. last |-> IF n = 0 THEN first ELSE OneMore(touches[n - 1])] /\ last \in Nat
    BY <1>1, <1>11
  <2> HIDE DEF first, last
  <2>2. touches[0] = first /\ \A n \in 1 .. last : touches[n] = OneMore(touches[n - 1])
    BY <2>1
  <2>3. QED
    BY <2>2 DEF first, last
<1> DEFINE B == {n \in 0 .. MaxEvents : ~(touches[n] \subseteq W)}
<1>13. B = {}
  <2>1. SUFFICES ASSUME B # {} PROVE FALSE
    OBVIOUS
  <2>2. B \subseteq Nat
    BY DEF B
  <2> HIDE DEF B
  <2>3. PICK n \in B : \A j \in B : n <= j
    BY <2>1, <2>2, Least
  <2>4. n \in 0 .. MaxEvents /\ ~(touches[n] \subseteq W)
    BY DEF B
  <2>5. n # 0
    BY <1>4, <1>12, <2>4
  <2>6. n - 1 \in 0 .. MaxEvents /\ n \in 1 .. MaxEvents /\ ~(n <= n - 1)
    BY <1>1, <2>4, <2>5
  <2>7. touches[n - 1] \subseteq W
    BY <2>3, <2>6 DEF B
  <2>8. QED
    BY <1>3, <1>12, <2>4, <2>6, <2>7
<1>14. QED
  BY <1>2, <1>6, <1>13

(* Whatever the touch, its taps, turns and pinches are what they should be: *)
(* handle_motion() and apply_touch(), for every screen, slop and number of  *)
(* fingers, of samples and of events.                                       *)
THEOREM TouchesAreWhole == EveryTouch
<1>1. SUFFICES ASSUME NEW t \in Touches[MaxEvents], NEW e \in Events, Happens(t, e)
               PROVE  LET s == After(t, e).s
                      IN TapsOnce(t, e, s) /\ TurnsAlone(t, e, s) /\ PinchesAsSpread(t, e, s)
  BY DEF EveryTouch
<1>2. MaxEvents \in 0 .. MaxEvents
  BY TouchAssumption
<1>3. Whole(t)
  BY <1>2, TouchesWhole
<1>4. Judged(t, e)
  BY <1>1, <1>3, StepWhole
<1>5. QED
  BY <1>4 DEF Judged

(* What TLC checks on three fingers holds of every touch: the input that    *)
(* the rendering thread is sent says what the fingers did (gestures.cc and  *)
(* apply_touch() in runtime.cc).                                            *)
THEOREM TouchesStayWhole == Spec => []TapsAreWhole
<1>1. TapsAreWhole
  BY TouchesAreWhole DEF TapsAreWhole
<1>2. QED
  BY <1>1, PTL
===============================================================================
