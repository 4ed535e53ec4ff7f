-------------------------------- MODULE Sudoku --------------------------------
(***************************************************************************)
(* The Sudoku app: its main thread (sudoku/app.cc and the callbacks of     *)
(* sudoku/main.cc), the thread that keeps a puzzle ready (generator.cc),   *)
(* and the saved game.  The main thread runs one callback at a time; only  *)
(* where start_game() has emptied the eventfd and not yet taken the        *)
(* generator's mutex can what the other thread does matter to it.          *)
(***************************************************************************)
EXTENDS SudokuGame

CONSTANTS
    Absent,      \* no saved game
    Unreadable,  \* a saved game that decode_game() rejects
    FilesFirst,  \* what the file may hold at first
    Places,      \* bound: what fingers go down on, as hits
    Keys,        \* bound: what keys do, as hits; an arrow selects a cell
    MaxEdits     \* bound: changes of games

\* A saved game was saved by this app; a hit is on the board.
ASSUME AppAssumption ==
    /\ \A file \in FilesFirst \ {Absent, Unreadable} : Kept(file)
    /\ Absent \notin Game /\ Unreadable \notin Game
    /\ \A hit \in Places \cup Keys :
         /\ hit.target = "cell" => hit.index \in Cells
         /\ hit.target = "digit" => hit.index \in Digits
    /\ MaxEdits \in Nat

VARIABLES
    game,   \* App::game
    app,    \* the rest of App, and whether the Activity ticks
    gen,    \* Generator, and where its thread is
    disk,   \* the saved game, and whether the last save succeeded
    main,   \* where the main thread is
    edits   \* counts towards MaxEdits
vars == <<game, app, gen, disk, main, edits>>

Hit(target, index) == [target |-> target, index |-> index]
None == Hit("none", -1)

Launched == [pending |-> FALSE, started |-> FALSE, resumed |-> FALSE, window |-> "none",
             paused |-> FALSE, dialog |-> "none", flash |-> FALSE, shown |-> FALSE,
             clock |-> FALSE, pressed |-> None]
Idling == [at |-> "idle", from |-> "none"]
Ended == [at |-> "dead", from |-> "none"]
Generating == [thread |-> "generating", ready |-> FALSE, readable |-> FALSE, signalled |-> FALSE,
               stopping |-> FALSE]
-------------------------------------------------------------------------------
(* App.                                                                    *)

StatusOf(g) == IF g = NoGame THEN "none" ELSE Status(g)
Playing(g) == StatusOf(g) = "playing"
Progress(g) == Playing(g) /\ (CanUndo(g) \/ g.mistakes > 0)
\* App::renderer: the window's, unless it could not be made.
HasRenderer(a) == a.window \in {"attached", "drawn"}
Running(a, g) == Playing(g) /\ a.resumed /\ HasRenderer(a) /\ ~a.paused /\ a.dialog = "none"
Interactive(a, g) == Playing(g) /\ ~a.paused /\ a.dialog = "none"

\* view = {}
Unviewed(a) == [a EXCEPT !.paused = FALSE, !.dialog = "none", !.pressed = None]

\* update(): the clock, the completion wave, and then the result's dialog.
Updated(a, g) ==
    LET result == StatusOf(g) \in {"won", "lost"} /\ ~a.shown /\ ~a.flash
    IN [a EXCEPT !.clock = Running(a, g),
                 !.shown = @ \/ result,
                 !.paused = @ /\ ~result,
                 !.dialog = IF result THEN Status(g) ELSE @]

\* Mutant of SaveFile: a failed rename goes unnoticed.
SaveUnchecked(d, g) == {[file |-> d.file, saved |-> TRUE], [file |-> g, saved |-> TRUE]}

\* save_file(): it fails before the new file takes the old one's place, or
\* after that, or not at all.
SaveFile(d, g) == {[file |-> d.file, saved |-> FALSE], [file |-> g, saved |-> FALSE],
                   [file |-> g, saved |-> TRUE]}
LoadFile(d) == {d.file, Unreadable}

\* save()
Save(g) == IF g = NoGame THEN UNCHANGED disk ELSE disk' \in SaveFile(disk, g)

\* hit_test(), by what is under the finger.
HitTest(place, a, g) ==
    LET shown == CASE a.dialog # "none" -> place.target \in {"primary", "secondary"}
                   [] place.target \in {"primary", "secondary"} -> FALSE
                   [] place.target = "newGame" -> TRUE
                   [] g = NoGame -> FALSE
                   [] place.target = "pause" -> Playing(g)
                   [] a.paused -> place.target = "cell"
                   [] place.target = "digit" -> Cardinality(Placed(g, place.index)) < Side
                   [] OTHER -> TRUE
    IN IF ~shown THEN None
       ELSE IF a.paused /\ place.target = "cell" THEN Hit("resume", -1) ELSE place

\* activate(): the game after it.
Played(hit, a, g) ==
    IF ~Interactive(a, g) THEN g
    ELSE CASE hit.target = "digit" -> Enters(g, hit.index)
           [] hit.target = "undo" -> Undoes(g)
           [] hit.target = "erase" -> Erases(g)
           [] hit.target = "notes" -> Toggles(g)
           [] OTHER -> g

\* Mutant of Asks: a paused game is replaced without asking.
AsksUnlessPaused(hit, a, g) ==
    hit.target = "newGame" /\ a.dialog = "none" /\ Progress(g) /\ ~a.paused

\* request_new_game() opens a dialog, or starts one as the dialog does.
Asks(hit, a, g) == hit.target = "newGame" /\ a.dialog = "none" /\ Progress(g)
Starts(hit, a, g) == \/ hit.target = "newGame" /\ a.dialog = "none" /\ ~Asks(hit, a, g)
                     \/ hit.target = "primary" /\ a.dialog # "none"

\* activate(): the view after it.
Viewed(hit, a, g) ==
    [a EXCEPT
        !.paused = CASE hit.target = "pause" /\ Playing(g) /\ a.dialog = "none" -> ~@
                     [] hit.target = "resume" -> FALSE
                     [] OTHER -> @,
        !.dialog = CASE Asks(hit, a, g) -> "confirm"
                     [] hit.target \in {"primary", "secondary"} -> "none"
                     [] OTHER -> @,
        !.flash = @ \/ (hit.target = "digit" /\ Interactive(a, g) /\ Completes(g, hit.index) # {}),
        !.pressed = None]
-------------------------------------------------------------------------------
(* The main thread.                                                        *)

Idle == main.at = "idle"
Alive == main.at \in {"idle", "taking"}

\* A callback that changes the view and not the game ends with settle().
Settles(a) == app' = Updated(a, game) /\ UNCHANGED <<game, gen, disk, main, edits>>

\* start_game() up to the mutex: take_puzzle() empties the eventfd.
TakeFrom(caller, a) ==
    /\ app' = a
    /\ gen' = [gen EXCEPT !.readable = FALSE]
    /\ main' = [at |-> "taking", from |-> caller]
    /\ UNCHANGED <<game, disk, edits>>

Edited == edits < MaxEdits /\ edits' = edits + 1

Activate(hit, a) ==
    IF Starts(hit, a, game) THEN TakeFrom(hit.target, Viewed(hit, a, game))
    ELSE LET g == Played(hit, a, game)
         IN /\ game' = g
            /\ app' = Updated(Viewed(hit, a, game), g)
            /\ IF g = game THEN UNCHANGED <<disk, edits>>
               ELSE Edited /\ Save(g)
            /\ UNCHANGED <<gen, main>>

\* touch() and move_selection()
SelectCell(cell, a) ==
    /\ game' = Selects(game, cell)
    /\ app' = Updated(a, game')
    /\ UNCHANGED <<gen, disk, main, edits>>

\* take_puzzle() under the mutex.
Signalled(g) == [g EXCEPT !.signalled = @ \/ g.thread = "waiting"]
Taken(g) == Signalled([g EXCEPT !.ready = FALSE])

\* start_game() ends and its caller updates; create_app() does not.
StartEnds(a) == app' = IF main.from = "create" THEN a ELSE Updated(a, game')

\* Mutant of NoPuzzle: a game that was paused leaves its view behind.
NoPuzzleViewed ==
    /\ main.at = "taking"
    /\ ~gen.ready
    /\ game' = NoGame
    /\ StartEnds([app EXCEPT !.pending = TRUE])
    /\ main' = Idling
    /\ UNCHANGED <<gen, disk, edits>>

\* Mutant of NoPuzzle: the eventfd is emptied after looking for a puzzle.
NoPuzzleDrained ==
    /\ main.at = "taking"
    /\ game' = NoGame
    /\ StartEnds([Unviewed(app) EXCEPT !.pending = TRUE])
    /\ main' = Idling
    /\ gen' = [gen EXCEPT !.readable = FALSE]
    /\ UNCHANGED <<disk, edits>>

\* "The board shows progress until the generator notifies puzzle_fd()"
NoPuzzle ==
    /\ main.at = "taking"
    /\ ~gen.ready
    /\ game' = NoGame
    /\ StartEnds([Unviewed(app) EXCEPT !.pending = TRUE])
    /\ main' = Idling
    /\ UNCHANGED <<gen, disk, edits>>

NewGame ==
    /\ main.at = "taking"
    /\ gen.ready
    /\ gen' = Taken(gen)
    /\ \E puzzle \in Puzzles : game' = Created(puzzle)
    /\ StartEnds([Unviewed(app) EXCEPT !.pending = FALSE, !.shown = FALSE, !.flash = FALSE])
    /\ Save(game')
    /\ main' = Idling
    /\ UNCHANGED edits

\* create_game() fails: "Wait for the generator's next puzzle", with the old game.
NoMemory ==
    /\ main.at = "taking"
    /\ gen.ready
    /\ gen' = Taken(gen)
    /\ game' = game
    /\ StartEnds([app EXCEPT !.pending = TRUE])
    /\ main' = Idling
    /\ UNCHANGED <<disk, edits>>

\* on_puzzle()
OnPuzzle ==
    /\ Idle
    /\ gen.readable
    /\ IF app.pending THEN TakeFrom("puzzle", Updated(app, game))
       ELSE /\ gen' = [gen EXCEPT !.readable = FALSE]
            /\ app' = Updated(app, game)
            /\ UNCHANGED <<game, disk, main, edits>>

\* press()
Presses(key, a) ==
    IF a.dialog # "none" THEN key.target = "enter" /\ Activate(Hit("primary", -1), a)
    ELSE CASE key.target = "enter" -> a.paused /\ Activate(Hit("resume", -1), a)
           [] key.target = "cell" -> game # NoGame /\ ~a.paused /\ SelectCell(key.index, a)
           [] OTHER -> Activate(key, a)

\* handle_key()
Press(key) == Idle /\ Presses(key, [Updated(app, game) EXCEPT !.pressed = None])

\* Back: dismiss()
Back == Idle /\ app.dialog # "none" /\ Activate(Hit("secondary", -1), Updated(app, game))

\* handle_motion() and touch(); nothing can be hit before a frame was shown.
TouchDown(place) ==
    LET a == Updated(app, game)
        hit == HitTest(place, a, game)
    IN /\ Idle /\ app.window = "drawn"
       /\ IF hit.target = "cell" THEN SelectCell(hit.index, [a EXCEPT !.pressed = None])
          ELSE Settles([a EXCEPT !.pressed = hit])

TouchUp(place) ==
    LET a == Updated(app, game)
        hit == HitTest(place, a, game)
    IN /\ Idle /\ app.window = "drawn" /\ app.pressed # None
       /\ IF hit = a.pressed THEN Activate(hit, a) ELSE Settles([a EXCEPT !.pressed = None])

\* cancel_touch(), or a finger that moves off what it went down on.
Untouched(a) == [Updated(a, game) EXCEPT !.pressed = None]
FingerLeaves == Idle /\ app.pressed # None /\ Settles(Untouched(app))
InputDestroyed == /\ Idle /\ app.pressed # None
                  /\ app' = Updated(Untouched(app), game)
                  /\ UNCHANGED <<game, gen, disk, main, edits>>

\* check_surface() and set_content(), which find a change or not.
CheckSurface(a) == {a, IF HasRenderer(a) THEN [a EXCEPT !.pressed = None] ELSE a}
RefreshContent(a) == {a, [a EXCEPT !.pressed = None]}

\* on_tick(), which returns when the check fails.  That is reported as fatal; nothing
\* here depends on it, as what Android then calls is what it may call at any time.
Tick == /\ Idle /\ app.started
        /\ \/ \E a \in CheckSurface(app) : \E b \in RefreshContent(a) : Settles(b)
           \/ HasRenderer(app) /\ UNCHANGED vars

\* on_content_changed(), and on_window_resized() whether its check fails or not
ContentChanged == Idle /\ Settles(Untouched(app))

\* on_configuration_changed(): the density and the touch slop.
ConfigurationChanged == Idle /\ Settles(Untouched(app))

\* draw() shows the frame, puts it off, or fails.
Drawn(a) == {[Updated(a, game) EXCEPT !.window = shown] : shown \in {"drawn", a.window}}

\* on_frame()
Draw == Idle /\ HasRenderer(app) /\ \E a \in Drawn(app) : Settles(a)

\* on_window_redraw() does not settle.
Redraw == /\ Idle /\ app.window # "none"
          /\ \E a \in RefreshContent(app) : app' \in IF HasRenderer(a) THEN Drawn(a) ELSE {a}
          /\ UNCHANGED <<game, gen, disk, main, edits>>

\* attach_window() and detach_window()
Attached(a) == [a EXCEPT !.window = "attached"]
Detached(a) == [a EXCEPT !.window = "none", !.pressed = None, !.clock = FALSE]

\* Without a renderer on_window_created() only reports that, as fatal.
WindowCreated ==
    /\ Idle /\ app.window = "none"
    /\ \/ Settles(Attached(app))
       \/ app' = [app EXCEPT !.window = "refused"] /\ UNCHANGED <<game, gen, disk, main, edits>>

\* Mutant of WindowDestroyed: the clock is not stopped.
WindowDestroyedRunning ==
    /\ Idle /\ app.window # "none"
    /\ app' = [Updated(app, game) EXCEPT !.window = "none", !.pressed = None]
    /\ UNCHANGED <<game, gen, disk, main, edits>>

\* on_window_destroyed() does not settle: detach_window() stops the clock itself.
WindowDestroyed ==
    /\ Idle /\ app.window # "none"
    /\ app' = Detached(Untouched(app))
    /\ UNCHANGED <<game, gen, disk, main, edits>>

Start == Idle /\ ~app.started /\ Settles([app EXCEPT !.started = TRUE])
Stop == /\ Idle /\ app.started /\ ~app.resumed
        /\ app' = [app EXCEPT !.started = FALSE]
        /\ UNCHANGED <<game, gen, disk, main, edits>>

\* set_resumed(), but for the saving.
Resumed(on) == Updated([Untouched(app) EXCEPT !.resumed = on], game)

Resume == Idle /\ app.started /\ ~app.resumed /\ Settles(Resumed(TRUE))

\* on_pause(): set_resumed() saves when the Activity pauses.
Pause == /\ Idle /\ app.resumed
         /\ app' = Resumed(FALSE)
         /\ Save(game)
         /\ UNCHANGED <<game, gen, main, edits>>

\* Mutant of Destroy: the thread is told to stop and not woken.
DestroyUnsignalled ==
    /\ Idle /\ ~app.started /\ app.window = "none"
    /\ gen' = [gen EXCEPT !.stopping = TRUE]
    /\ main' = [at |-> "joining", from |-> "none"]
    /\ game' = NoGame /\ app' = Launched
    /\ UNCHANGED <<disk, edits>>

\* on_destroy(): the generator's destroy() goes on to join its thread.
Destroy ==
    /\ Idle /\ ~app.started /\ app.window = "none"
    /\ gen' = Signalled([gen EXCEPT !.stopping = TRUE])
    /\ main' = [at |-> "joining", from |-> "none"]
    /\ game' = NoGame /\ app' = Launched
    /\ UNCHANGED <<disk, edits>>

Join == /\ main.at = "joining"
        /\ gen.thread = "ended"
        /\ main' = Ended
        /\ gen' = Generating
        /\ UNCHANGED <<game, app, disk, edits>>

\* The process dies; while it saves, as before or after the rename.
Die == /\ Alive
       /\ main' = Ended /\ gen' = Generating /\ app' = Launched /\ game' = NoGame
       /\ UNCHANGED <<disk, edits>>

\* create_app(): the saved game, or a new one.
Launch ==
    /\ main.at = "dead"
    /\ \E file \in LoadFile(disk) :
         IF file \notin {Absent, Unreadable} /\ Loadable(file)
           THEN game' = file /\ main' = Idling
           ELSE game' = NoGame /\ main' = [at |-> "taking", from |-> "create"]
    /\ UNCHANGED <<app, gen, disk, edits>>
-------------------------------------------------------------------------------
(* The generator's thread and the passage of time.                         *)

\* run(): generate_puzzle() fails only when it is cancelled.
Generates ==
    /\ gen.thread = "generating" /\ main.at # "dead"
    /\ \/ /\ gen.stopping
          /\ gen' = [gen EXCEPT !.thread = "ended"]
       \/ gen' = [gen EXCEPT !.ready = TRUE, !.readable = TRUE, !.signalled = FALSE,
                            !.thread = IF gen.stopping THEN "ended" ELSE "waiting"]
    /\ UNCHANGED <<game, app, disk, main, edits>>

\* The thread that waits for `wanted' looks at its conditions again.
Wakes ==
    /\ gen.thread = "waiting" /\ gen.signalled
    /\ gen' = [gen EXCEPT !.signalled = FALSE,
                         !.thread = IF gen.stopping THEN "ended"
                                    ELSE IF gen.ready THEN "waiting" ELSE "generating"]
    /\ UNCHANGED <<game, app, disk, main, edits>>

\* update() in some callback finds that kFlashSeconds have passed.
FlashEnds == Idle /\ app.flash /\ Settles([app EXCEPT !.flash = FALSE])
-------------------------------------------------------------------------------
Init ==
    /\ game = NoGame /\ app = Launched /\ gen = Generating /\ main = Ended /\ edits = 0
    /\ \E file \in FilesFirst : disk = [file |-> file, saved |-> FALSE]

Next ==
    \/ \E key \in Keys : Press(key)
    \/ \E place \in Places : TouchDown(place) \/ TouchUp(place)
    \/ FingerLeaves \/ InputDestroyed \/ ContentChanged \/ ConfigurationChanged
    \/ Back \/ Tick \/ Draw \/ Redraw \/ WindowCreated \/ WindowDestroyed
    \/ Start \/ Stop \/ Resume \/ Pause \/ Destroy \/ Join \/ Die \/ Launch
    \/ OnPuzzle \/ NoPuzzle \/ NewGame \/ NoMemory
    \/ Generates \/ Wakes \/ FlashEnds

(* Both threads run, the looper serves the eventfd, and memory for a game  *)
(* is there in the end.  The user and Android need do nothing.             *)
Fairness ==
    /\ WF_vars(Generates) /\ WF_vars(Wakes) /\ WF_vars(OnPuzzle) /\ WF_vars(NoPuzzle)
    /\ WF_vars(Join) /\ SF_vars(NewGame)
Spec == Init /\ [][Next]_vars /\ Fairness
-------------------------------------------------------------------------------
Views == [pending : BOOLEAN, started : BOOLEAN, resumed : BOOLEAN, window : {"none", "refused", "attached", "drawn"},
          paused : BOOLEAN, dialog : {"none", "confirm", "won", "lost"}, flash : BOOLEAN,
          shown : BOOLEAN, clock : BOOLEAN, pressed : {None, Hit("resume", -1)} \cup Places]

Generators == [thread : {"generating", "waiting", "ended"}, ready : BOOLEAN, readable : BOOLEAN,
               signalled : BOOLEAN, stopping : BOOLEAN]

(* Types, and that no pencil mark hides under a digit.                     *)
TypeOK ==
    /\ game \in Game \cup {NoGame}
    /\ game # NoGame => /\ game.puzzle \in Puzzles
                        /\ \A c \in Cells : game.values[c] # 0 => game.notes[c] = {}
    /\ app \in Views
    /\ gen \in Generators
    /\ disk \in [file : Game \cup {Absent, Unreadable}, saved : BOOLEAN]
    /\ main \in [at : {"idle", "taking", "joining", "dead"},
                 from : {"none", "create", "newGame", "primary", "puzzle"}]
    /\ edits \in 0 .. MaxEdits

(* "The game, including its undo history, is saved ... after every move    *)
(* and when the Activity pauses, so it survives process death": whatever   *)
(* is left on disk can be loaded, and once a save succeeded nothing but    *)
(* the selected cell can be lost.                                          *)
MovesSurvive ==
    /\ disk.file \notin {Absent, Unreadable} => Loadable(disk.file)
    /\ Idle /\ game # NoGame /\ disk.saved => [disk.file EXCEPT !.selected = game.selected] = game

(* The clock runs while the Activity is resumed with a window, the game is *)
(* in progress, and it is neither paused nor showing a dialog (README), and *)
(* only then: between callbacks no stretch of time is added or lost.       *)
ClockRunsWhilePlaying == Idle => app.clock = Running(app, game)

(* "Starting a new game with progress asks for confirmation": when a game  *)
(* with progress is about to be replaced the user said so, or it was kept  *)
(* for want of memory after the user asked for another.                    *)
AskedBeforeReplacing ==
    main.at = "taking" /\ Progress(game) => main.from = "primary" \/ app.pending

(* A dialog is about the game on the screen, the result's waits for the    *)
(* completion wave, and only a game in progress is paused.                 *)
DialogMatches ==
    Idle => /\ app.dialog = "confirm" => Progress(game)
            /\ app.dialog \in {"won", "lost"} => app.dialog = StatusOf(game) /\ ~app.flash
            /\ app.paused => Playing(game)

(* A new game always comes, whatever the eventfd was last read for.        *)
GameArrives == app.pending ~> ~app.pending

(* destroy() wakes the generator's thread wherever it is, and returns.     *)
DestroyReturns == main.at = "joining" ~> main.at = "dead"

(* "Undo restores every cell a move changed": the changes, undone from the *)
(* newest to the oldest, are the boards before each move, also after the   *)
(* oldest were dropped and after the game was saved and loaded.            *)
Rewound(g) ==
    LET n == Len(g.moves)
        start[i \in 1 .. n + 1] == IF i = n + 1 THEN Len(g.changes) + 1 ELSE start[i + 1] - g.moves[i]
        before[i \in 1 .. n + 1] ==
            IF i = n + 1 THEN Board(g)
            ELSE Restored(before[i + 1], SubSeq(g.changes, start[i], start[i + 1] - 1))
    IN [i \in 1 .. n |-> before[i]]
StackOf(g) == IF "values" \in DOMAIN g THEN [now |-> Board(g), past |-> Rewound(g)]
              ELSE [now |-> NoGame, past |-> <<>>]

History == INSTANCE UndoHistory WITH
    Limit <- MaxMoves,
    Fresh <- {Board(Created(puzzle)) : puzzle \in Puzzles} \cup {NoGame},
    now <- StackOf(game).now,
    past <- StackOf(game).past,
    saved <- {StackOf(disk.file)}
ImplementsHistory == [][UNCHANGED <<game, disk>> \/ History!Next]_vars
===============================================================================
