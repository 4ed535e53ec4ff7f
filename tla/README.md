# TLA+ for the phone workspace

This directory specifies the concurrent core of the Android workspace in
`src/`: four native C++ programs (a Chromecast set-up app, a bird animation, a
Sudoku and a GPU benchmark) over one renderer. TLC checks the specifications on
small instances; the TLA+ proof system proves some of their properties for
every instance. Source lines are quoted as `path:line`.

Run a check with `tlc -workers 2 -config MCSessionJoin.cfg MCSession`, and a
proof with `tlapm SessionProofs.tla`.

## 1. What the system is

Each app has one main (UI) thread, driven by an `ALooper`, and at most one
worker thread. Threads share a mutex-guarded structure and wake each other
through an eventfd or a condition variable. A result crosses a thread by copy.
Android, the network and the Chromecasts are the environment.

| Part | State it keeps | Operations | Hard behaviour |
| --- | --- | --- | --- |
| Chromecast session (`chromecast/session.cc`) | command slot (one place), `interrupted`, `shared` and `work` snapshots, remembered devices, two Wi-Fi requests | `search`, `open_device`, `rescan`, `join`, `destroy`, `take_snapshot`; the worker's `run` with `run_search`, `open`, `join_hotspot`, `scan`, `run_join`, `finish` | every command may replace the running one at any point; each flow acquires and releases Android requests; the Chromecast disappears from the network it was asked on as part of normal work; answers are lost |
| Chromecast app (`app.cc`, `view.cc`) | snapshot, awaited command, chosen row, password | taps, Back, Enter, `on_session`, `draw` | what is drawn, what the app knows and what the worker does are three different moments; rows are named by index in all three |
| Chromecast transport (`http.cc`, `json.cc`, `protocol.cc`, `discovery.cc`) | none that outlives a call | bounded GET/POST, parsing, mDNS, subnet sweep | deadlines, bounded sizes |
| Chromecast platform (`android_platform.cc`, `ChromecastActivity.java`) | JNI references, request table, wallpaper picker | Wi-Fi requests, networks, picker | a picker's answer arrives after the next was started |
| Bird app runtime (`native_buttons/runtime.cc`, `main.cc`) | command queue and its three numbers, published state, window, scene, frame pacing, count file | NativeActivity callbacks, `process_commands`, `on_frame`, `check_surface`, `synchronize` | Android's callbacks must not return before the other thread has let go of the window; deadlines; GPU failures; frames put off; a save that fails half way |
| Bird app input (`gestures.cc`, `controls.cc`) | pointer table | motion and key events | taps after pinches |
| Sudoku (`sudoku/game.cc`, `app.cc`, `generator.cc`, `puzzle.cc`, `storage.cc`, `main.cc`) | game, undo history, dialogs, clock; one puzzle kept ready by a thread; the saved game | entering, notes, undo, new game, save; the activity's callbacks | a game requested while no puzzle is ready; history limit; save during a pending game; a process that ends anywhere; deductions that hardly ever apply |
| Renderer (`common/gpu/renderer.cc`) | frames in flight, fences, swapchain | begin, draw, present, rebuild | resources reused before their fence |
| File replacement (three `storage.cc`) | one file | temporary file, `fsync`, `rename`, directory `fsync` | a crash or an error between two steps |
| Activity glue (`chromecast/main.cc`, `sudoku/main.cc`) | window, frame callback, timer of the armed slot, dirty flags | NativeActivity callbacks, tick, redraw | a frame callback that cannot be cancelled outlives the activity; a window is resized without a callback |
| Frame pacing (`chromecast/main.cc`, `native_buttons/runtime.cc`) | interval, cost, lead, floor, hold, windows | one step per frame | a mistaken reset leaves the animation slow for ever, or oscillating |
| GEMM benchmark (`gemm/`) | device buffers, two batches in flight | command line | none: one thread and a queue that runs in order |
| Tools, shaders, build rules | - | - | not program logic |

`PROJECT.json` lists the same parts with what is and is not modelled, and the
hazards, each at its line, with the property that covers it.

### What makes each part correct

- *Hand-over between app and session*: the newest command wins, a stop is never
  lost, the screen never goes back to an older command's report, and no
  notification is lost.
- *Session flows*: no Wi-Fi request is leaked or released twice, on any path and
  through any interruption; success is claimed only with its proof; networks
  that are listed can still be joined; each flow ends, and says how.
- *App*: the Chromecast and the network that are configured are the ones on the
  screen; a progress screen leads to an outcome.
- *Bird runtime*: a window is not used after it was given back, memory not
  after it was freed; a required redraw really showed the newest state;
  "saved" means on disk; saved state is current; every command is done; a
  missed deadline is final on both threads.
- *Bird input*: a tap, a turn and a pinch each come from the fingers that made them.
- *Sudoku*: undo inverts every move, after loading and beyond the history's limit; the saved
  game is one that can be loaded, and no move is lost once saved; the clock
  runs exactly while one plays; no game is replaced unasked; a new game always
  arrives; puzzles have one solution, and are rated by sound deductions.
- *File replacement*: after a crash the file holds the old or the new content.
- *Renderer and activity*: nothing is reset or destroyed while the GPU or the display may
  use it; the window's size is drawn in the end.
- *Pacing*: the frame rate recovers from every disturbance, and what fails is
  retried ever more rarely.

## 2. The modules

| Module | Models | State and actions |
| --- | --- | --- |
| `CommandSlot` | the fields of `Session` guarded by its mutex | operators `Sent` (`send()`), `Taken` (the head of `run()`), `Stopped` (`destroy()`), shared by the next two |
| `LatestCommand` | abstract: "Each command replaces the running one and returns its number" (`session.h`) | four counters; `Issue`, `Serve`, `Show`, `Close` |
| `SessionMailbox` | the threads' hand-over: slot, `shared`, eventfd, `on_session()` | one action per critical section or eventfd call; what a command does is "publishes any number of times" |
| `SessionMailboxProofs` | theorems | inductive invariant, refinement of `LatestCommand` |
| `Session` | every flow of the worker, Android's requests, the Chromecasts | `pc` names the place in the flow; a step runs from one publish, wait, call or flag check to the next |
| `SessionProofs` | theorems | inductive invariant for the requests; what each place of a flow relies on; the list of a search; what success rests on |
| `ChromecastApp` | screens and taps; EXTENDS `Session` | `drawn` (last frame), `snapshot`, and the worker's `work` |
| `ChromecastAppProofs` | theorems; EXTENDS `ChromecastApp`, `SessionProofs` | what screen, app and worker agree on while they drift apart |
| `NativeRuntime` | bird app's two threads | queue, eventfd, numbers, published state, deadlines, window, file |
| `Gestures` | bird app's touches, pinches and taps | pure functions of one event to the next |
| `TouchEvents` | the fingers and the events that Android reports of them; what each touch should lead to; EXTENDS `Gestures` | pure functions; the touches of so many events as a set |
| `NativeRuntimeProofs` | theorems; EXTENDS `MCNativeRuntime` | what the commands still queued will do to window, count and drawing; what every touch leads to |
| `SudokuPuzzle` | solutions, `minimize()`, `rate()` with its deductions, on a board of any size | pure operators on the board's tables |
| `SudokuGame` | rules, history, `decode_game()` | operators on the record `Game` |
| `UndoHistory` | abstract: a board and the boards before it; load puts back a saved one | `Move`, `Undo`, `Begin`, `Load`, `Keep` |
| `Sudoku` | app, generator's thread, saved game, activity; EXTENDS `SudokuGame` | one action per callback; a new game that is taken in two steps |
| `SudokuPuzzleProofs` | theorems about `SudokuPuzzle` on boards of any size | deductions agree with the solution; what the search finds; what `minimize()` leaves |
| `SudokuProofs` | theorems; EXTENDS `MCSudoku`, `SudokuPuzzleProofs` | moves, undo, dropped moves and `decode_game()` for histories of every length; the view, the file, the refinement of `UndoHistory`, the generated puzzles |
| `RendererFrames` | overlay renderer: frames in flight, fences, swapchain; GPU and display | one action from one wait or Vulkan call that may fail to the next |
| `ChromecastActivity` | main thread of the Chromecast app as the renderer's caller; EXTENDS `RendererFrames` | one action per callback |
| `FramePacing` | `pace()` | pure functions of one frame to the next |
| `ChromecastActivityProofs` | theorems; EXTENDS `ChromecastActivity`, `FramePacing` | who may be called back; who uses an image or a frame; vsyncs and the limits of the pace |
| `RecursionProofs` | lemmas | least numbers; a recursive function of numbers exists and is what its equation says |
| `MC*` | instances for TLC; of pure modules, the inputs they are tried on | constants, and reachability as recursive functions |

`FramePacing` and `Gestures` share no state with the modules next to which they are
checked: each is explored as a set of states, by the functions `Disturbed` of
`MCChromecastActivity` and `Touches` of `TouchEvents`, when TLC evaluates an invariant of the run.

`Session` joins "store the snapshot" and "write the eventfd" into one step;
`SessionMailbox` is the module in which they are separate, and shows that the
separation loses nothing. `ChromecastApp` adds the reader's side to `Session`
again with the eventfd as a variable, so the three views can drift apart.

Definitions that start with "Mutant of" in their comment are alternatives used
to see that a property can fail: `PROJECT.json` pairs each with a run.

### Correspondence with the code

*Session.* `slot`, `shared`, `work`, `current` and `known` are the members of
`Session` of those names. `held` is `hotspot_request` and `target_request`;
`here` gathers the locals of the running flow; `elapsed` stands for
`since(start)`: 0 at first, 1 past the first threshold of the loop (widening the
hotspot request, asking for the target network), 2 past its deadline. `android`
is what Android holds: request numbers are reused on purpose, so that a second
release would hit someone else's request. Setup states are the groups that
`protocol.cc` distinguishes. A Chromecast (`cast`) has the network it is on, its
setup hotspot, the networks it saved, and the one it is trying; it joins, is
refused, gets no further, or falls back to a saved network, as the fake of
`fakes.cc` and the branches of `run_join()` expect. Any call may go unanswered,
and a POST may take effect without its answer. `Identified` are the Chromecasts that
`remember()` can tell apart by a MAC address or UDN; the others are listed while they answer
and forgotten. Addresses, ports, JSON, the encryption and message texts are left out.
In `join_hotspot()` the first request, by BSSID or by a name's prefix, and the one
that widens it are both `AskForHotspot`, and the release between them is a step of its own
(`WidenHotspot`), so a refusal of the second finds nothing held. `RequestTarget` releases
and asks in one step, as nothing that can fail stands in between in `request_target()`.

*NativeRuntime.* A deadline that passes takes the main thread two steps: it marks the runtime
under the mutex (`TimeOut`), and then ends the process or queues the command that tells the
other thread (`EndTimeOut`). A window for which no memory is found is not queued. A draw shows the commands applied so far, is put off (surface
out of date or not ready), or fails. The count stands for all that input
changes. Window, visibility, resume and input callbacks come in any order
Android allows, one at a time. `wanted` is the count a user expects from the
input already delivered: it is what a snapshot is compared with. `Unreadable`
is a `count.txt` that `load_count()` rejects.

*Gestures.* The record is `Gestures`, the fields of `Runtime` that
`apply_touch()` changes, and what the event led to: a control that was tapped, a
turn of the camera, and the pairs of spans whose quotient is sent to
`pinch()`. The two threads are one step, since commands are applied in the
order in which they were queued. A finger's identifier is the least free one,
as Android gives them, so the first two of an event are the two least. `TouchEvents`
has what Android reports: DOWN, POINTER_DOWN, MOVE of one finger with one or several batched
positions, POINTER_UP, UP, CANCEL, and a callback of the activity in the middle of a touch.

*Sudoku.* `game`, `app` and `gen` are `App::game`, the rest of `App` and
`Generator`; `disk` is the saved game, and whether the last save succeeded. The
main thread runs one callback at a time, so a callback is one action with all
it calls, `update()` and `save()` included. Only in `start_game()` does the
generator's thread matter in between: after the eventfd was emptied and before the
mutex is taken, where `main.at = "taking"`. A window may be refused (`window = "refused"`: no
renderer, and the activity is told to finish), and a check of its surface may fail; `finishing` is
read by nothing but `report()` there, so callbacks go on. A save may fail before or after
the replacement, and the process may end between any two callbacks. Time is
whether the clock runs; the wave that follows a completed unit is a flag that is
lowered at some later tick. `SudokuPuzzle` has every technique of `rate()`. Where a
technique has several deductions, the code takes the first in the order of its
loops and the model any.

*RendererFrames.* `r` is `Renderer`; `device` is what the GPU and the display have yet to
do. A frame is in flight when its work is `busy`, which it is until its fence
signals; an image is in `shows` while it is being presented. Where the code
waits for fences, the caller waits for the work. `ensure_targets()` reads the size and
transform of the window before that wait, and destroys and builds after it: `Outdated`,
`Retires`, `CreatesTargets`. What may be unavailable,
out of date, suboptimal or failing is a choice at that call. Setting up the device, the
pipelines and the font is one step each, which may fail.

*ChromecastActivity.* `a` has the activity's flags, whether a vsync callback is posted and
the timer armed, and the size and transform last shown. `Fatal` is `report()` of a fatal error, from a
frame, from attaching a window, and from a check of the surface (`SurfaceLost`). A frame starts at some moment after
the timer was armed: when, is left to `FramePacing`.

*FramePacing.* Costs and times are whole numbers of one unit, `kOverlap` and
`kRetryFit` fractions. A frame is late or not and costs one of `Costs`.

## 3. The runs

| Run | Question | Size |
| --- | --- | --- |
| `session_mailbox` | is a command, stop or notification lost; does the screen go back? | 10,608 states |
| `session_join` | four commands interrupting each other anywhere, one Chromecast at home or in setup mode: request accounting, settled screens, honest success, no silent end | 1,149,514 |
| `session_devices` | three Chromecasts that drop off, one on two networks, one without an identity: exact list; every flow ends | 213,274 |
| `chromecast_app` | a user who taps stale frames: right network, right device, progress ends | 516,122 |
| `native_runtime` | two threads, failures and deadlines: what a detach, redraw, snapshot and stop guarantee when they return | 7,676,001 |
| `native_runtime_live` | all commands done, a redraw returns without vsync, a missed deadline is fatal | 182,115 |
| `sudoku` | a 2 x 2 game, its generator, file and activity: moves, undo, clock, dialogs, new games; and puzzles of 4 x 4 | 162,735 |
| `chromecast_activity` | two frames over two images, with resizes, hiding and destruction anywhere; and the pace of frames | 583,595 |
| `wrong_password` | violated: see section 4 | - |
| `stale_prompt` | violated: see section 4 | - |
| `stale_index` | violated: see section 4 | - |
| `stale_fence` | violated: see section 4 | - |

What the passing runs show, property by property:

- `SlotConsistent`, `NoLostNotification`, `EditionsSeen`, `ImplementsLatest`
  (`SessionMailbox`): the flag that interrupts a flow is up exactly while a
  command waits; a password waits only in a join, or in a join that a stop
  replaced; an edition not yet taken always leaves
  the eventfd readable, about to be written, or the app about to copy; the
  threads implement the abstract hand-over.
- `RequestsAccounted`: Android's requests are exactly those remembered, at most
  one, none at exit; so none is released twice, as when widening a hotspot's request is refused. `SettledReleases`: no stage that rests keeps a request or
  promises a prompt. `HotspotKept`: networks listed over a setup hotspot keep it.
  `DoneIsVerified`: "done" means saved on the Chromecast and seen on a network
  that is not its hotspot. `NoSilentEnd`: a command that said anything says how it
  ended. `DevicesListed`: the list has each known device once. `CommandsEnd`:
  no wait in any flow is endless.
- `JoinsAsShown`: the index of a tapped network means the same on all three
  lists when the worker uses it. `ScreenReleases`, `ScreenSettles`: as their names say,
  for what the user sees rather than for what the worker published.
- `WindowReleased`: nothing refers to the window once the
  detach has returned, also from the queue, nor to the runtime once it is freed.
  `SavedIsOnDisk`, `SnapshotIsCurrent`, `RedrawIsShown`: what is reported,
  captured or acknowledged is what happened. `CommandsComplete`,
  `RedrawReturns`, `TimeoutIsFatal`: queued commands are done; a redraw needs no
  vsync callback; after a deadline the app ends with its error.
- `TapsAreWhole`: a control is tapped exactly when the only finger of a touch is lifted that
  never left it, in any sample of any event, nor moved beyond the slop; the
  camera turns exactly with a finger that is alone and went down beside the
  controls; a pinch compares two spans of the same two fingers, and each
  change of them that is large enough is sent.
- `ImplementsHistory`: the game and its file implement `UndoHistory`: undo
  returns to the board before the move, also when older moves were dropped and
  after the game was saved and loaded. `MovesSurvive`: what is on disk can
  be loaded, and after a save that succeeded it is the game on the screen, but for
  the selection. `ClockRunsWhilePlaying`: between callbacks the clock runs
  exactly when the README says so. `AskedBeforeReplacing`, `DialogMatches`: a
  game with progress is not replaced unasked; a dialog is about the game
  on the screen. `GameArrives`, `DestroyReturns`: no order of the two threads loses
  the notification of a puzzle or the signal to stop. `PuzzlesSound`: puzzles
  have one solution and no clue to spare, and no deduction contradicts it.
- `ReleasedWhenIdle`, `FramesAlone`: the swapchain is destroyed only when neither GPU nor
  display uses it; a frame's resources are reused and an image drawn on only when
  they are free. `CallbacksOwned`: a pending callback's activity is not freed,
  and no timer stays armed while paused. `ResizeShown`: the window's size
  and transform are shown in the end, also when a rotation by 180 degrees leaves the size. `PaceRecovers`: once frames are on time the
  floor is gone and the interval fits their cost; when a rate fails again and again
  the hold before the next try grows to its longest.

### Bounds

Every bound is a constant or stands in a `.cfg`.

- `MaxCommands` bounds the numbers given out. Four in `session_join`: search, open, join and one
  that replaces the join anywhere; three in `chromecast_app`: the first
  search, an open, and a join or the command that replaces it; two in
  `session_devices`, since termination and the list concern one flow
  and what the one before it left. `native_runtime` has four queued commands,
  enough for a surface, an input, a redraw or snapshot, and a detach or stop,
  with any number of timeouts on top; three where liveness is checked.
- `MaxEditions = 3` snapshots: one being taken, one stored, one replacing it.
- `ScanAttempts`, `SaveAttempts` and `MaxMisses` (6, 4 and 3 in the code) are 1 or 2:
  with 2 there is a failed attempt that is repeated and a last one that is not.
- `elapsed` has three values because each loop compares the clock with at most
  two thresholds.
- Devices: one where flows are the subject, two or three where lists are. Two devices
  are what it takes for one to stand in another's place; the third has no identity.
- `MaxCount = 1` (999,999 in the code): below the limit, and at it.
- Touches: three fingers, so that one of a pinching pair can be replaced; four places, three of
  them on one control and two of these beyond the slop of one; moves of one
  finger in one or two samples (`MaxSamples`). `MaxEvents = 7` is no bound in effect: seven events
  reach 5,119 touches, and eight no other. (`native_runtime` does not check
  gestures and has 1.)
- Sudoku: `Side = 2`, one solution and one order for `minimize()`: three cells to
  fill, with a right and a wrong digit each. `MaxMoves = 2` and `MaxMistakes = 2` (2,000 and
  3 in the code) are reached and exceeded; the first file may be one with a full history,
  one a digit from its end, or unreadable. `MaxEdits = 1` bounds the changes
  of one process to a game, on top of what the file holds. `Places` and
  `Keys` leave to touches what differs by being a touch, and to keys the rest.
  `ExtremeLevel` and `ExtremeChains` ask nothing of a 2 x 2 puzzle.
- Deductions: all positions of a 4 x 4 board with two or three marks left in a
  cell, one of its row and one of its column, and all with one digit's marks in two lines.
  `TechniquesWork` is assumed of them, and so checked: each technique removes something somewhere.
- Frames: `FrameCount = 2` is the code's number; two images, two sizes and two transforms, one
  change of either or both.
  `Attempts = 2` (4 in the code). `Onward` is FALSE where a present fence that was
  handed over signalled ends the run: section 4. From `Steadies` on the window's surface is available.
- Pacing: 8 frames disturbed in any way, then 80 of one cost. The constants keep the
  order of the code's and divide them by what makes each state of the window, the hold
  and the lead occur within that: `LateLimit` 2 of `PacingWindow` 4 (4 of 120),
  `LastHold` four times `FirstHold` (32 times), costs that fit one, two and three refreshes.

No symmetry is used. `CHECK_DEADLOCK FALSE` stands where the session or activity
may be destroyed, after which nothing remains to do.

### Fairness

- Session: weak fairness of `Worker` and `Tick`. The thread runs, every
  network call has a deadline (`http.cc`, `platform.h`), `pause()` has a timeout, and the
  clock advances. Users, Android and Chromecasts need never act.
- SessionMailbox: weak fairness of each step of the worker and of the UI
  thread's callback and `join`; none for the user.
- ChromecastApp: as Session, and the looper delivers a readable eventfd.
- NativeRuntime: weak fairness of the thread's own steps and of the main
  thread's return. Strong fairness of `Drain`, since the looper serves each descriptor
  that is ready and the thread may be off polling in between; and of a surface
  check that draws: the check has a deadline of its own
  (`native_buttons/runtime.cc:721`) that frames do not starve, and a surface
  that is checked for ever is assumed to become drawable in the end. None for
  Choreographer: a redraw returns without it. None for deadlines: one may pass or not, but once
  it has, the main thread goes on to `EndTimeOut`.
- Sudoku: weak fairness of the generator's thread, of the looper that delivers a
  readable eventfd, and of the main thread within `start_game()` and `destroy()`. `SF(NewGame)`: memory for
  the game is found in the end, if the looper tries again and again.
- ChromecastActivity: weak fairness of the GPU and the display, of each call the caller
  is in, of the vsync callback, of the timer, and of the tick that checks the
  surface, which has a period of its own (`chromecast/main.cc:29`). `SF(Steadies)`:
  a window that is unavailable now and then is available for good some day. None for
  what Android or the user does.

## 4. Where the code and its comments differ

- `wrong_password`: "If the Chromecast comes back on its old network, the join failed, and the
  app says so" (`chromecast/README.md:78`). A Chromecast that has saved a network is given it
  again with a wrong password. It leaves to try it, fails, comes back to the configuration it had
  and reports that network and "connected". `run_join()` takes any such report for the new
  configuration (`chromecast/session.cc:625`), the list of configured networks has the SSID
  (`session.cc:476`), and the app shows success. `FailedJoinNotDone` begins once the Chromecast
  has left (`LeftInVain`), so an early poll that finds it still on its old network is not
  what violates it.
- `stale_index`: the README says that tapping a row joins that Chromecast's hotspot
  (`chromecast/README.md:40`). The row is sent as an index into the app's
  list. If the search finishes between the tap and the worker's turn, its own list has
  the reachable devices first, and the index opens another Chromecast.
- `stale_prompt`: "Android is showing, or may show, a prompt" (`session.h:50`). A
  rescan, or opening a device in reach, that replaces a waiting join releases the request without
  clearing `work.prompt`; later snapshots still promise a prompt.
- `stale_fence`: "Presentation fences keep swapchain images and semaphores alive until the display has
  released them, including during rotation and shutdown"
  (`native_buttons/README.md:32`). `set_overlay_image()` waits for all frames
  (`common/gpu/renderer.cc:1542`), so that the next `begin_frame()` skips the wait
  that resets the presentation fence, and `present()` hands it over signalled.
  A rebuild or shutdown then does not wait for that presentation.

Others, met while modelling and stated here without a run of their own:

- "Saving must be confirmed" (`chromecast/session.cc:479`), but `network_saved()` takes state 62 for
  the target's (`session.cc:470`) and `finish()` takes only the state from the answer to
  `save_wifi` (`session.cc:509`), not the network it is about. With two access points of one LAN:
  a join of the first is replaced, after the Chromecast received it, by a join of the
  second whose POST is lost. The Chromecast is still on the second, unsaved, so `finish()`
  starts; it moves to the first between the check of its network and the POST, and saves that.
  The app then shows success for the second. It was met as a proof that failed:
  `DoneVerifiedUnlessDisturbed` holds for any list of networks as long as the Chromecast is not
  trying another network than the target while it is asked to save: exactly the situation
  above is excluded. In `session_join` only one network is listed, where it cannot happen.
- A required redraw (`chromecast/main.cc:737`) may rebuild the targets for a new size
  and have its last attempts deferred. The surface is then not found changed any more, so the tick
  asks for no frame, and the new size waits for the next input: the exception
  `GivenUp` in `ResizeShown`, against the comment at `chromecast/main.cc:29`.
- A game that `create_game()` cannot allocate leaves the old one on the screen while pending,
  and a later try replaces it; a saved game that cannot be read is replaced by a
  new one. In neither case is the user asked.
- `pace()`: "Slowing down within kUnstable of speeding up doubles the hold"
  (`chromecast/main.cc:56`). When the floor has come down by two or more
  intervals, the first rise doubles the hold and clears `faster_at`, and the second
  sets it back to one second: where late frames force an interval of three or more, the hold never grows.
- "A new surface, detail level, or peak rate starts at the peak rate"
  (`chromecast/main.cc:47`): there `configure_input()` changes the peak period without
  `reset_pacing()`; the bird app's copy calls it (`native_buttons/runtime.cc:666`).

## 5. Proofs

What the proof system proves holds for every value of the constants that
satisfies the named assumptions.

| Theorem | Establishes |
| --- | --- |
| `SessionMailboxProofs!TypeCorrect` | types of the hand-over, for any number of commands and editions |
| `SessionMailboxProofs!SlotStaysConsistent` | `SlotConsistent` |
| `SessionMailboxProofs!NotificationsKept` | `NoLostNotification` |
| `SessionMailboxProofs!RefinesLatest` | initial states and steps map to those of `LatestCommand` or stutter |
| `SessionProofs!RequestsStayAccounted` | `RequestsAccounted`, for any devices, networks, attempts and commands |
| `SessionProofs!TypesKept` | `TypeOK` of `Session` |
| `SessionProofs!RequestsSettled` | `SettledReleases` |
| `SessionProofs!HotspotStaysHeld` | `HotspotKept` |
| `SessionProofs!NoEndIsSilent` | `NoSilentEnd` |
| `SessionProofs!DevicesStayListed` | `DevicesListed`, for any number of Chromecasts and order of answers |
| `SessionProofs!DoneVerifiedUnlessDisturbed` | `DoneIsVerified` for any list of networks, while the Chromecast that is asked to save is not trying another one |
| `ChromecastAppProofs!JoinsStayAsShown` | `JoinsAsShown` |
| `ChromecastAppProofs!ScreensRelease` | `ScreenReleases` |
| `ChromecastActivityProofs!TypesKept` | `TypeOK`, for any number of frames, images and attempts |
| `ChromecastActivityProofs!CallbacksStayOwned` | `CallbacksOwned` |
| `ChromecastActivityProofs!TargetsReleased` | `ReleasedWhenIdle` |
| `ChromecastActivityProofs!FramesStayAlone` | `FramesAlone` |
| `ChromecastActivityProofs!VsyncIsNext` | `VsyncAfter` is the first vsync not before its time, for any refresh period |
| `ChromecastActivityProofs!PaceKeepsLimits` | whatever a frame costs and however late it is, interval, floor, hold and lead keep their limits, a measurement ends, and the rate changes only when cost and lateness ask for it |
| `NativeRuntimeProofs!TypesKept` | `TypeOK`, for any number of commands and greatest count |
| `NativeRuntimeProofs!WindowStaysReleased` | `WindowReleased` |
| `NativeRuntimeProofs!SavedStaysOnDisk` | `SavedIsOnDisk` |
| `NativeRuntimeProofs!RedrawsShown` | `RedrawIsShown` |
| `NativeRuntimeProofs!SnapshotsCurrent` | `SnapshotIsCurrent` |
| `NativeRuntimeProofs!TouchesStayWhole` | `TapsAreWhole`, for any screen and slop and any number of fingers, samples and events |
| `SudokuProofs!TypesKept` | `TypeOK`, for boards of any size |
| `SudokuProofs!MovesStaySaved` | `MovesSurvive` |
| `SudokuProofs!ClockStaysRight` | `ClockRunsWhilePlaying` |
| `SudokuProofs!ProgressIsAskedFor` | `AskedBeforeReplacing` |
| `SudokuProofs!DialogsStayTrue` | `DialogMatches` |
| `SudokuPuzzleProofs!TechniquesSound` | no deduction of any technique contradicts the solution, on a board of any size and boxes of any shape |
| `SudokuPuzzleProofs!RatingSound` | nor does any number of them from a puzzle's clues; a board that is filled is the solution |
| `SudokuPuzzleProofs!SearchFindsAll` | the search finds every completion of a grid and nothing else |
| `SudokuPuzzleProofs!SolutionsAreValid` | from a blank board these are the boards with every digit in every unit |
| `SudokuPuzzleProofs!MinimizedIsMinimal` | what `minimize()` leaves, in any order, has one solution and no clue to spare |
| `SudokuProofs!PuzzlesStaySound` | `PuzzlesSound` |
| `SudokuProofs!HistoryImplemented` | `ImplementsHistory`: every step of the app is one of `UndoHistory` or leaves game and file alone |

### What is assumed

- `BoundsAssumption`, `ActivityAssumption`, `FrameAssumption` and `ConstantsAssumption` of
  `NativeRuntime`: the constants have their types, and bounds that the code has as positive
  numbers are positive.
- `ConstantsAssumption` of `Session`: also, `devices.json` names no Chromecast twice, as
  `remember()` keeps it, and there are finitely many; a Chromecast that says it is connected
  is on a network.
- `GameAssumption`: the boards that the generator works on (`SolutionsMet`) are among what the
  search finds, each order of `minimize()` reaches every cell, and there is a puzzle at all.
  That such puzzles are valid is proved, from `SolutionsAreValid` and `MinimizedIsMinimal`.
- `GestureAssumption`, `TouchAssumption`: places are numbers, the slop is positive, a finite set of
  finger numbers. `PacingAssumption`: periods and limits are positive, and
  `kFirstHold <= kLastHold`, as in `chromecast/main.cc:59`.
- `AppAssumption`: a file found at first that can be read was saved by this app (`Kept`); a tap
  on the board is on a cell of it.
- `FirstCasts`, a hypothesis of the theorem about success: a Chromecast that starts by saying it
  saved its network has it saved. `[]Undisturbed`, another hypothesis of
  `DoneVerifiedUnlessDisturbed`: at each moment at which the worker asks the
  Chromecast to save, it is not trying a network other than the target.

TLC evaluates each assumption on the constants of the runs; each of the inductive
invariants below also passes TLC on the run of its module.

### How the arguments go

*SessionMailbox.* The invariants are not inductive alone: `send()` refuses a
command when a stop is pending, and would then give out a number that never
becomes pending. `StopIsLast` adds that only the UI thread that is joining can
have posted the stop, so `slot.pending = slot.sequence`. The four conjuncts are
established by `Init` and kept by each action, one step per action.

*Session: requests.* `RequestsAccounted` speaks of what Android holds; what keeps it is
where in the flow a request is made. `HeldOK` says that either nothing is held, or
one of the two fields is and Android holds just that request; `PlaceOK` that
`join_hotspot()` is reached with nothing held and waits with the hotspot at
most, so that widening the request or turning to the target network releases
everything before it asks; `SlotOK` that what is taken from the slot is a command, so that
`pc` is a place at which a flow starts. The lemmas follow the code: one for each
way a step can end (`fail()`, `pause()`, a publish, a request), then one for each
group of steps. The theorem holds although the model reuses request numbers: no step
asks for a second network while the session holds one, so none is confused with another.

*Session: flows.* `FullInv` adds what each place of a flow relies on. `Fits` relates the place to
the stage that was announced, to the attempts left, and to the device and network that a join
is about; it is what makes `TypeOK` inductive, since a join must have a listed network
and a count of attempts must have a limit. `SettledOK` and `HotspotOK` state the two
properties of requests for `work`, which the worker changes before it publishes, and of
every place between. `NumbersOK` orders the command numbers, so that a flow that has
published nothing is told from one that has. `DevicesListed` needs facts about `remember()`
and `add_device()` for lists of any length: `RememberAll` keeps a list without repetitions, and the
three parts of the published list are disjoint and together are what is known.

*Session: success.* `ConfirmedInv` is what `finish()` knows between its checks. While it asks
(`Asked`), a Chromecast in state 61 or 62 is on the target, since the only network it may move to
is the target; once its answer or its list said so (`Saved`), the target is saved and stays
so. Most steps are sure of nothing (`Unsure`) and need only that. `Undisturbed` is what the step
of a Chromecast that moves needs. The failed attempt without
it is the first of the disagreements in section 4 without a run.

*ChromecastApp.* `AppInv` follows the index of a tapped network through the three places that
use it: the row drawn (`EnteringOK`), the list of the app (`ListedOK`) and the list of the worker when
it takes the command (`JoinTaken`, `JoinStarted`). They agree because a list on the screen
means that the worker rests (`ScreenOK`), which in turn needs that the app awaits the last
number given out. The steps of `Session` enter through one lemma: a step publishes
what it changes (`Tells`).

*NativeRuntime.* The properties speak of the moment at which a command returns, and the
invariant of all that is still queued. `QueueOK`: batch and queue are numbered without a gap.
`StopOK` and `WindowOK`: no command after a stop, none that brings a window back once
Android has it. `CountOK`: a function from the queued commands to counts leads from the count
that the thread has, or will load, to the one the user expects; each step moves its ends.
`RedrawOK`: what is not acknowledged has yet to be drawn.

*ChromecastActivity.* `OwnersOK` and `CallersOK` say who may be in which step of a frame,
`CallbacksOK` what is armed for whom. `ImagesOK`: an image in use has one user and a fence
to wait for, as long as no fence was handed over signalled (section 4): that condition is
in the properties themselves, as `device.stale`. `HoldsOK`: a frame that is free has no acquisition.

*Sudoku.* `ViewInv` states the view's properties also while `start_game()` is half way, since the
generator's thread acts there. `GameInv` is that a game in memory and one on disk are `Kept`: they can be loaded, a
cell with a digit has no notes, now or among the changes, and the history is within its limits;
and that a save that succeeded is of the game on the screen.
For the refinement, the code keeps a flat list of changes of single cells and a list of
how many belong to each move, and drops old ones at the front; `UndoHistory` has a stack
of boards. `Rewinds` relates them by two functions, the sums of the move lengths (`Sums`) and the
boards they lead back to, and `AppendRewinds`, `TailRewinds` and `FrontRewinds` keep that
relation for a move, a dropped move and an undo. `GameStep` is what the app's
steps do to game and file, and each of its cases is a step of `History`.

*Sudoku's puzzles.* `Fitting` is what the tables of a board owe to its shape, and all that the proofs
about deductions use of it. `Agrees` is the invariant of a rated position: every value is the
solution's and no mark of the solution is gone. There is a lemma for each technique; those with
chains follow a link at a time, as one of its two ends must be the solution's. The search is a
recursive function of grids. That it is the set of all completions is shown by a function that
satisfies its equation, and by refuting a grid with the fewest empty cells at which another
would differ. For `minimize()`, a grid with fewer clues has more
solutions, so a clue that could not go when its turn came cannot go at the end (`Cut`).

*Touches.* `Whole` relates the fingers on the screen to the record of gestures: a lone finger's
pressed control is that of all its places, and all are within the slop; a pair is of
two fingers on the screen, and its span the distance of the last sample. There is one lemma for each kind of
event. The samples of one MOVE are a recursion of their own (`LoneMoves`, `PairMoves`).

*Pacing.* `Limited` is the invariant of the pacing record and is kept by `Pace` for every frame,
by one lemma for each step of the code: window, lead, measurement, faster, slower. `Paced` is what
holds between one frame's record and the next.

*Induction.* The library's induction theorems take an operator as a parameter, which no
installed prover instantiates. Where a list of any length is folded (`Those`, `Restored`, `Total`),
the proofs take the least length at which a statement fails instead (`Least` of `RecursionProofs`, from
the well-foundedness of the naturals, which has no such parameter) and refute it. Recursion is
written as recursive functions; that one of them satisfies its equation is proved in the same way (`StepsExist`).

### Only model-checked, and why

- Liveness, fairness and `ENABLED`, which are beyond this prover: `EditionsSeen`, `CommandsEnd`,
  `ScreenSettles`, `CommandsComplete`, `RedrawReturns`, `TimeoutIsFatal`, `GameArrives`,
  `DestroyReturns`, `ResizeShown`, and that `SessionMailbox` implements the fairness of
  `LatestCommand` (`ImplementsLatest`).
- `PaceRecovers`: that the rate is back within `Calm` frames of one cost is a bound that depends on
  how the constants relate, and does not hold of all that `PacingAssumption` admits.
- `DoneIsVerified` with two or more networks listed, unless `Undisturbed`: it does not hold then.
- The four violations.

## 6. Not modelled, and why

- Bytes: HTTP, JSON, mDNS, encryption, file encodings. The sessions see whether and
  what a device answers.
- Geometry, drawing, shaders, GPU kernels: floating point and GPU commands.
- Texts, logs and toasts.
- The bird app's 3D renderer (shadows, environment, offscreen targets) and the
  set-up of Vulkan, which happens once and either succeeds or ends the app.
- Prediction of vsyncs from Choreographer's timelines, and the reports of late frames.
- The wallpaper picker: Java over Android's executor and `AtomicFile`.
- `chromecast/storage.cc`: the same replacement of a file by rename as the Sudoku's.
- The GEMM benchmark: one thread, GPU kernels and timing.

## 7. Plan

Done: hand-over, session flows, app screens, bird runtime and touches, Sudoku with its
puzzles, renderer's frames, activity and pacing, and the proofs above: every safety property of a run that
is a state machine's, and what `Gestures` and `SudokuPuzzle` compute.

To come, most important first:

1. How long the pace takes to recover, as a function of the constants.
2. The wallpaper picker of `ChromecastActivity.java`: a counter decides which image is shown, the
   executor's order which one is kept.
3. Android's side of the Wi-Fi requests (`android_platform.cc`) as a module of its own, in
   place of the choices `Session` leaves it.
