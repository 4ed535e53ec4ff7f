---------------------------- MODULE NativeRuntime ----------------------------
(***************************************************************************)
(* The bird app's runtime (native_buttons/runtime.cc): the activity's main *)
(* thread queues numbered commands for a rendering thread and, for window  *)
(* and lifecycle callbacks, waits until one is done or a deadline passes.  *)
(*                                                                         *)
(* The rendering thread holds the mutex only to swap the queue and to      *)
(* publish, so a step is what it does between two of those.  Pictures are  *)
(* left out: a draw shows the commands applied so far, is put off, or      *)
(* fails.  The count stands for all that input changes.                    *)
(***************************************************************************)
EXTENDS Integers, Sequences

CONSTANTS
    MaxCount,      \* the count's limit, 999999 in the code
    Unreadable,    \* a count.txt that load_count() rejects
    FilesFirst,    \* what count.txt may hold at first
    RestoredFirst, \* the counts Android may hand back, NotRestored for none
    NotRestored,
    MaxCommands    \* bound: commands queued, timeouts apart

ASSUME ConstantsAssumption ==
    /\ MaxCount \in Nat \ {0} /\ MaxCommands \in Nat
    /\ FilesFirst \subseteq (0 .. MaxCount) \cup {Unreadable}
    /\ RestoredFirst \subseteq (0 .. MaxCount) \cup {NotRestored}
    /\ Unreadable \notin Nat /\ NotRestored \notin Nat

VARIABLES
    commands,   \* Runtime::commands
    readable,   \* commands_fd's counter is not zero
    numbers,    \* Runtime::next_sequence, completed_sequence, completed_redraw_sequence
    published,  \* Runtime::published, as far as it is modelled
    exited,     \* Runtime::exited
    late,       \* Runtime::deadline_failed
    worker,     \* where the rendering thread is
    batch,      \* process_commands(): the commands swapped out
    state,      \* what Runtime confines to the rendering thread
    file,       \* count.txt
    main,       \* where the main thread is, with the command it queued
    activity,   \* what Android has told the main thread
    wanted      \* the count that the user expects from what the activity was told
vars == <<commands, readable, numbers, published, exited, late, worker, batch, state, file,
          main, activity, wanted>>
workerVars == <<worker, batch, state, file, published, exited>>

Inputs == {"add", "reset", "toggle"}
Lifecycle == {"visible", "hidden", "resume", "pause"}
Releasing == {"detach", "stop"}
Awaited == {"redraw", "snapshot"} \cup Releasing
\* "content": any other that is to be seen.
Kinds == Inputs \cup Lifecycle \cup Awaited \cup {"surface", "content", "timeout"}
-------------------------------------------------------------------------------
(* The rendering thread's state.                                           *)

NoCommand == [kind |-> "none", sequence |-> 0]

\* As create_runtime() leaves it.
Fresh(restored) ==
    [count |-> IF restored = NotRestored THEN 0 ELSE restored, saved |-> TRUE, error |-> FALSE,
     paused |-> FALSE, window |-> FALSE, scene |-> FALSE, visible |-> FALSE, resumed |-> FALSE,
     stopping |-> FALSE, dirtyCount |-> FALSE, dirtyVisual |-> FALSE, pending |-> FALSE,
     vsync |-> FALSE, redraw |-> 0, applied |-> 0, drawn |-> 0]

Reported(s) == [count |-> s.count, saved |-> s.saved, error |-> s.error]

Animating(s) == ~s.stopping /\ s.scene /\ ~s.error /\ s.resumed /\ ~s.paused
NeedsFrame(s) == ~s.stopping /\ s.scene /\ ~s.error /\ (s.dirtyVisual \/ (s.resumed /\ ~s.paused))

\* Mutant of NeedsSurfaceCheck: a hidden window's pending redraw has no fallback.
NeedsVisibleCheck(s) == ~s.stopping /\ s.scene /\ ~s.error /\ (s.visible \/ s.resumed)

NeedsSurfaceCheck(s) ==
    ~s.stopping /\ s.scene /\ ~s.error /\ (s.visible \/ s.resumed \/ s.dirtyVisual)

\* schedule_frame()
Scheduled(s) == [s EXCEPT !.pending = @ \/ NeedsFrame(s)]

\* draw(): shown, put off because the surface is not ready, or an error to record.
Draws(s) ==
    IF ~s.scene \/ s.error THEN {s}
    ELSE {[s EXCEPT !.dirtyVisual = FALSE, !.drawn = s.applied],
          [s EXCEPT !.dirtyVisual = TRUE],
          [s EXCEPT !.dirtyVisual = TRUE, !.error = TRUE]}

\* Mutant of Acknowledges: a redraw is done when it was tried.
AcknowledgesTried(s) == s.redraw # 0

\* publish_state(): whether the required redraw is done.
Acknowledges(s) == s.redraw # 0 /\ (~s.dirtyVisual \/ ~s.scene \/ s.error)

\* publish(), and the end of each command.
Publish(s, completed) ==
    /\ published' = Reported(s)
    /\ numbers' = [numbers EXCEPT !.completed = completed,
                                  !.redraw = IF Acknowledges(s) THEN s.redraw ELSE @]
    /\ state' = [s EXCEPT !.redraw = IF Acknowledges(s) THEN 0 ELSE @]

\* load_count()
LoadCount(text) == IF text = Unreadable THEN [ok |-> FALSE, count |-> 0] ELSE [ok |-> TRUE, count |-> text]

\* save_count(): it replaces the file, or fails before or after that; it refuses
\* a count that it could not load.
SaveCount(text, count) ==
    {[ok |-> FALSE, text |-> text]}
    \cup IF count \in 0 .. MaxCount THEN [ok : BOOLEAN, text : {count}] ELSE {}

Outcome(s, text) == [state |-> s, file |-> text]

\* Mutant of Persists: a failed save passes for one that worked.
PersistsAnyway(s) ==
    {Outcome([s EXCEPT !.saved = TRUE, !.dirtyCount = FALSE], text) : text \in {file, s.count}}

\* persist()
Persists(s) ==
    IF ~s.dirtyCount THEN {Outcome(s, file)}
    ELSE {Outcome([s EXCEPT !.saved = result.ok, !.dirtyCount = ~result.ok], result.text) :
             result \in SaveCount(file, s.count)}

\* release_surface()
Released(s) == [s EXCEPT !.scene = FALSE, !.window = FALSE, !.dirtyVisual = FALSE, !.drawn = 0]

\* create_surface()
Creates(s) ==
    LET held == [Released(s) EXCEPT !.window = TRUE]
    IN {[held EXCEPT !.error = TRUE]} \cup Draws([held EXCEPT !.scene = TRUE, !.vsync = FALSE])

\* Mutant of Added: the limit is forgotten.
AddedBeyond(count) == count + 1
Added(count) == IF count = MaxCount THEN count ELSE count + 1

\* apply_control(), and that its command asks for a frame.
Controls(s, control) ==
    {[o EXCEPT !.state.dirtyVisual = TRUE] : o \in Persists(
        CASE control = "add" -> [s EXCEPT !.count = Added(@), !.dirtyCount = TRUE]
          [] control = "reset" -> [s EXCEPT !.count = 0, !.dirtyCount = TRUE]
          [] control = "toggle" -> [s EXCEPT !.paused = ~@])}

\* process_commands(): what one command does.
Applies(s, command) ==
    LET kind == command.kind
        only(states) == {Outcome(t, file) : t \in states}
    IN CASE kind = "surface" -> only(IF s.error THEN {s} ELSE Creates(s))
         [] kind = "detach" -> only({Released(s)})
         [] kind = "redraw" -> only(Draws([s EXCEPT !.redraw = command.sequence]))
         [] kind = "timeout" -> only({[s EXCEPT !.error = TRUE]})
         [] kind = "snapshot" -> only({s})
         [] kind = "visible" -> only({[s EXCEPT !.visible = TRUE, !.dirtyVisual = TRUE]})
         [] kind = "hidden" -> only({[s EXCEPT !.visible = FALSE]})
         [] kind = "resume" -> only({[s EXCEPT !.resumed = TRUE, !.dirtyVisual = TRUE]})
         [] kind = "pause" -> {[o EXCEPT !.state.dirtyVisual = TRUE] :
                                   o \in Persists([s EXCEPT !.resumed = FALSE])}
         [] kind = "content" -> only({[s EXCEPT !.dirtyVisual = TRUE]})
         [] kind = "stop" -> {[o EXCEPT !.state = [Released(o.state) EXCEPT !.stopping = TRUE]] :
                                  o \in Persists(s)}
         [] OTHER -> Controls(s, kind)
-------------------------------------------------------------------------------
(* The rendering thread.                                                   *)

\* worker(): the count is the restored one, or the file's; without a looper it gives up.
Start ==
    /\ worker = "starting"
    /\ LET read == LoadCount(file)
           count == IF activity.restored = NotRestored THEN read.count ELSE activity.restored
           loaded == [state EXCEPT !.count = count, !.saved = read.ok,
                        !.dirtyCount = activity.restored # NotRestored /\ (~read.ok \/ read.count # count)]
       IN \E o \in Persists(loaded), failed \in BOOLEAN :
            /\ Publish([o.state EXCEPT !.error = failed, !.stopping = failed], numbers.completed)
            /\ file' = o.file
            /\ worker' = IF failed THEN "leaving" ELSE "polling"
    /\ UNCHANGED <<commands, readable, exited, late, batch, main, activity, wanted>>

Drain ==
    /\ worker = "polling"
    /\ readable
    /\ readable' = FALSE
    /\ worker' = "swapping"
    /\ UNCHANGED <<commands, numbers, published, exited, late, batch, state, file, main, activity, wanted>>

Swap ==
    /\ worker = "swapping"
    /\ batch' = commands /\ commands' = <<>>
    /\ worker' = "processing"
    /\ UNCHANGED <<readable, numbers, published, exited, late, state, file, main, activity, wanted>>

\* Mutant of Process: the newest command goes first.
ProcessNewest ==
    /\ worker = "processing"
    /\ batch # <<>>
    /\ LET command == batch[Len(batch)]
       IN \E o \in Applies([state EXCEPT !.applied = command.sequence], command) :
            /\ Publish(o.state, command.sequence)
            /\ file' = o.file
    /\ batch' = SubSeq(batch, 1, Len(batch) - 1)
    /\ UNCHANGED <<commands, readable, exited, late, worker, main, activity, wanted>>

Process ==
    /\ worker = "processing"
    /\ batch # <<>>
    /\ \E o \in Applies([state EXCEPT !.applied = Head(batch).sequence], Head(batch)) :
         /\ Publish(o.state, Head(batch).sequence)
         /\ file' = o.file
    /\ batch' = Tail(batch)
    /\ UNCHANGED <<commands, readable, exited, late, worker, main, activity, wanted>>

\* Mutant of EndBatch: the eventfd is read again after the batch.
EndBatchDraining ==
    /\ worker = "processing"
    /\ batch = <<>>
    /\ \E s \in IF state.dirtyVisual /\ (~state.resumed \/ state.paused) /\ ~state.stopping
                THEN Draws(state) ELSE {state} :
         Publish(Scheduled(s), numbers.completed)
    /\ worker' = IF state.stopping THEN "leaving" ELSE "polling"
    /\ readable' = FALSE
    /\ UNCHANGED <<commands, exited, late, batch, file, main, activity, wanted>>

\* After the last command, a scene that does not animate is drawn if it has to be.
EndBatch ==
    /\ worker = "processing"
    /\ batch = <<>>
    /\ \E s \in IF state.dirtyVisual /\ (~state.resumed \/ state.paused) /\ ~state.stopping
                THEN Draws(state) ELSE {state} :
         Publish(Scheduled(s), numbers.completed)
    /\ worker' = IF state.stopping THEN "leaving" ELSE "polling"
    /\ UNCHANGED <<commands, readable, exited, late, batch, file, main, activity, wanted>>

Polls(next) ==
    /\ worker = "polling"
    /\ next
    /\ UNCHANGED <<commands, readable, exited, late, worker, batch, file, main, activity, wanted>>

Unpublished(s) == state' = s /\ UNCHANGED <<published, numbers>>

\* on_frame(): while animating, Choreographer only describes the vsyncs.
OnFrame ==
    LET due == [state EXCEPT !.pending = FALSE]
    IN /\ state.pending
       /\ \/ ~NeedsFrame(due) /\ Unpublished(due)
          \/ /\ NeedsFrame(due)
             /\ \E vsync \in {state.vsync, TRUE} :
                  LET told == [due EXCEPT !.vsync = vsync]
                  IN IF Animating(told) /\ vsync THEN Unpublished(Scheduled(told))
                     ELSE \E s \in Draws(told) : Publish(Scheduled(s), numbers.completed)

\* on_frame_timer(): armed while animating, once the vsyncs are known.
OnFrameTimer ==
    /\ Animating(state) /\ state.vsync
    /\ \E s \in Draws(state) : Publish(s, numbers.completed)

\* check_surface(), every 100 ms: finds a change or not, and retries a draw put off.
CheckSurface ==
    /\ NeedsSurfaceCheck(state)
    /\ \/ Publish([state EXCEPT !.error = TRUE], numbers.completed)
       \/ \E changed \in BOOLEAN :
            LET checked == [state EXCEPT !.dirtyVisual = @ \/ changed]
            IN IF checked.dirtyVisual
                 THEN \E s \in Draws(checked) : Publish(Scheduled(s), numbers.completed)
                 ELSE Unpublished(checked)

\* The thread's last access to Runtime.
Exit ==
    /\ worker = "leaving"
    /\ worker' = "exited"
    /\ exited' = TRUE
    /\ UNCHANGED <<commands, readable, numbers, published, late, batch, state, file, main, activity, wanted>>
-------------------------------------------------------------------------------
(* The main thread.                                                        *)

\* enqueue() under the mutex; commands_fd is written after it.
Enqueue(kind) ==
    LET command == [kind |-> kind, sequence |-> numbers.next + 1]
    IN /\ commands' = Append(commands, command)
       /\ numbers' = [numbers EXCEPT !.next = @ + 1]
       /\ main' = [at |-> "signalling", command |-> command]
       /\ UNCHANGED <<readable, workerVars>>

Idle == main.at = "idle"
Call(kind) ==
    /\ Idle
    /\ numbers.next < MaxCommands
    /\ Enqueue(kind)
    /\ UNCHANGED late

\* synchronize() goes on to wait.
Signal ==
    /\ main.at = "signalling"
    /\ readable' = TRUE
    /\ main' = [main EXCEPT !.at = IF main.command.kind \in Awaited THEN "waiting" ELSE "idle"]
    /\ UNCHANGED <<commands, numbers, late, activity, wanted, workerVars>>

\* Mutant of Pending: the command before it is enough.
PendingPrevious ==
    ~exited /\ (\/ main.command.kind = "stop"
                \/ numbers.completed + 1 < main.command.sequence
                \/ main.command.kind = "redraw" /\ numbers.redraw < main.command.sequence)

Pending ==
    ~exited /\ (\/ main.command.kind = "stop"
                \/ numbers.completed < main.command.sequence
                \/ main.command.kind = "redraw" /\ numbers.redraw < main.command.sequence)

\* synchronize() returns; Android then takes the window, or frees the activity.
Return ==
    /\ main.at = "waiting"
    /\ ~Pending
    /\ main' = [main EXCEPT !.at = IF main.command.kind = "stop" THEN "freed" ELSE "idle"]
    /\ activity' = [activity EXCEPT !.window = @ /\ main.command.kind # "detach"]
    /\ UNCHANGED <<commands, readable, numbers, late, wanted, workerVars>>

(* The deadline passes, three seconds or a second after the first that     *)
(* did; the mutex is let go before anything is done about it.              *)
TimeOut ==
    /\ main.at = "waiting"
    /\ Pending
    /\ late' = TRUE
    /\ main' = [main EXCEPT !.at = "late"]
    /\ UNCHANGED <<commands, readable, numbers, activity, wanted, workerVars>>

Aborts ==
    /\ main.command.kind \in Releasing
    /\ main' = [main EXCEPT !.at = "aborted"]
    /\ UNCHANGED <<commands, readable, numbers, workerVars>>

\* Mutant of EndTimeOut: the rendering thread is not told.
EndTimeOutUntold ==
    /\ main.at = "late"
    /\ \/ Aborts
       \/ /\ main.command.kind \notin Releasing
          /\ main' = [main EXCEPT !.at = "idle"]
          /\ UNCHANGED <<commands, readable, numbers, workerVars>>
    /\ UNCHANGED <<late, activity, wanted>>

\* The process ends rather than let go of what is still in use.
EndTimeOut ==
    /\ main.at = "late"
    /\ \/ Aborts
       \/ main.command.kind \notin Releasing /\ Enqueue("timeout")
    /\ UNCHANGED <<late, activity, wanted>>

\* The activity's callbacks, main.cc.
\* Without memory for the window nothing is queued, and the app is to end.
WindowCreated == /\ ~activity.window
                 /\ \/ Call("surface")
                    \/ Idle /\ UNCHANGED <<commands, readable, numbers, late, main, workerVars>>
                 /\ activity' = [activity EXCEPT !.window = TRUE]
                 /\ UNCHANGED wanted
WindowDestroyed == activity.window /\ Call("detach") /\ UNCHANGED <<activity, wanted>>
RedrawNeeded == activity.window /\ Call("redraw") /\ UNCHANGED <<activity, wanted>>
SaveState == Call("snapshot") /\ UNCHANGED <<activity, wanted>>
Destroy == Call("stop") /\ UNCHANGED <<activity, wanted>>

Shows(visible) == /\ activity.visible # visible
                  /\ Call(IF visible THEN "visible" ELSE "hidden")
                  /\ activity' = [activity EXCEPT !.visible = visible]
                  /\ UNCHANGED wanted
Resumes(resumed) == /\ activity.resumed # resumed
                    /\ Call(IF resumed THEN "resume" ELSE "pause")
                    /\ activity' = [activity EXCEPT !.resumed = resumed]
                    /\ UNCHANGED wanted
\* A resized window tells its old content again; a configuration is told as commands
\* of which the density is to be seen.
WindowResized == activity.window /\ Call("content") /\ UNCHANGED <<activity, wanted>>
ContentChanged == Call("content") /\ UNCHANGED <<activity, wanted>>
ConfigurationChanged == Call("content") /\ UNCHANGED <<activity, wanted>>

\* A tap or a key that reaches a control; without a control it is one more "content".
Input(kind) == /\ Call(kind)
               /\ wanted' = CASE kind = "add" -> IF wanted < MaxCount THEN wanted + 1 ELSE wanted
                              [] kind = "reset" -> 0
                              [] OTHER -> wanted
               /\ UNCHANGED activity
-------------------------------------------------------------------------------
Init ==
    /\ file \in FilesFirst
    /\ \E restored \in RestoredFirst :
         /\ activity = [window |-> FALSE, visible |-> FALSE, resumed |-> FALSE, restored |-> restored]
         /\ state = Fresh(restored)
         /\ published = Reported(Fresh(restored))
         /\ wanted = IF restored # NotRestored THEN restored ELSE LoadCount(file).count
    /\ commands = <<>> /\ readable = FALSE /\ batch = <<>>
    /\ numbers = [next |-> 0, completed |-> 0, redraw |-> 0]
    /\ exited = FALSE /\ late = FALSE
    /\ worker = "starting"
    /\ main = [at |-> "idle", command |-> NoCommand]

Renders ==
    \/ Start \/ Drain \/ Swap \/ Process \/ EndBatch \/ Exit
    \/ Polls(OnFrame) \/ Polls(OnFrameTimer) \/ Polls(CheckSurface)

Calls ==
    \/ WindowCreated \/ WindowDestroyed \/ RedrawNeeded \/ SaveState \/ Destroy
    \/ \E on \in BOOLEAN : Shows(on) \/ Resumes(on)
    \/ WindowResized \/ ContentChanged \/ ConfigurationChanged
    \/ \E kind \in Inputs : Input(kind)

Next == \/ main.at # "aborted" /\ Renders
        \/ Signal \/ Return \/ TimeOut \/ EndTimeOut \/ Calls

(* Both threads run, and a surface that keeps being checked is in the end  *)
(* ready to be drawn on.  Choreographer need not call back, and no         *)
(* deadline need pass.                                                     *)
ChecksDraw == main.at # "aborted" /\ Polls(CheckSurface /\ ~state'.dirtyVisual)
Fairness == /\ WF_vars(main.at # "aborted" /\ (Start \/ Swap \/ Process \/ EndBatch \/ Exit))
            /\ SF_vars(main.at # "aborted" /\ Drain)
            /\ SF_vars(ChecksDraw)
            /\ WF_vars(Signal) /\ WF_vars(Return) /\ WF_vars(EndTimeOut)
Spec == Init /\ [][Next]_vars /\ Fairness
-------------------------------------------------------------------------------
Counts == 0 .. MaxCount
States == [count : Counts, saved : BOOLEAN, error : BOOLEAN, paused : BOOLEAN, window : BOOLEAN,
           scene : BOOLEAN, visible : BOOLEAN, resumed : BOOLEAN, stopping : BOOLEAN,
           dirtyCount : BOOLEAN, dirtyVisual : BOOLEAN, pending : BOOLEAN, vsync : BOOLEAN,
           redraw : Nat, applied : Nat, drawn : Nat]
Commands == [kind : Kinds, sequence : Nat]
TypeOK ==
    /\ commands \in Seq(Commands) /\ batch \in Seq(Commands)
    /\ readable \in BOOLEAN /\ exited \in BOOLEAN /\ late \in BOOLEAN
    /\ numbers \in [next : Nat, completed : Nat, redraw : Nat]
    /\ numbers.completed <= numbers.next /\ numbers.redraw <= numbers.next
    /\ state \in States /\ published \in [count : Counts, saved : BOOLEAN, error : BOOLEAN]
    /\ file \in Counts \cup {Unreadable}
    /\ worker \in {"starting", "polling", "swapping", "processing", "leaving", "exited"}
    /\ main \in [at : {"idle", "signalling", "waiting", "late", "freed", "aborted"},
                 command : Commands \cup {NoCommand}]
    /\ activity \in [window : BOOLEAN, visible : BOOLEAN, resumed : BOOLEAN, restored : RestoredFirst]
    /\ wanted \in Counts

(* "NativeActivity requires drawing to stop before detach returns": once   *)
(* Android has its window back, nothing that the rendering thread holds or *)
(* may yet take from the queue refers to it, after any failure or delay;   *)
(* and destroy() frees Runtime only after the thread's last access.        *)
WindowReleased ==
    /\ ~activity.window =>
        /\ ~state.window
        /\ exited \/ \A queue \in {commands, batch} : \A i \in DOMAIN queue : queue[i].kind # "surface"
    /\ main.at = "freed" => worker = "exited"

(* What the app reports as saved is in the file, whenever a save fails and *)
(* whatever was restored.                                                  *)
SavedIsOnDisk == worker # "starting" /\ published.saved => file = published.count

(* A redraw that returns without an error has shown a frame with every     *)
(* command queued before it, unless there is no scene to show.             *)
RedrawIsShown ==
    [][main.command.kind = "redraw" /\ Return /\ ~published.error =>
        state.drawn >= main.command.sequence \/ ~state.scene]_vars

(* "Lifecycle-only barrier: include startup loading and all previously     *)
(* queued actions": the state that is captured has the user's count.       *)
SnapshotIsCurrent ==
    [][main.command.kind = "snapshot" /\ Return /\ ~published.error =>
        published.count = wanted]_vars

(* Every command that was queued is done, unless the thread has ended: the *)
(* eventfd loses none.                                                     *)
CommandsComplete ==
    \A n \in 1 .. MaxCommands :
        numbers.next = n ~> numbers.completed >= n \/ exited \/ main.at = "aborted"

(* "With a timed fallback when vsync callbacks are unavailable": a redraw  *)
(* that is put off is done in the end though Choreographer may be silent.  *)
RedrawReturns ==
    main.at = "waiting" /\ main.command.kind = "redraw" ~> main.at # "waiting"

(* A redraw or snapshot that timed out ends the app with its error, even   *)
(* if the rendering thread recovers.                                       *)
TimeoutIsFatal == late ~> published.error \/ exited \/ main.at = "aborted"
===============================================================================
