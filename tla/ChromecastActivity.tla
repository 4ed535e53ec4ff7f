--------------------------- MODULE ChromecastActivity ---------------------------
(***************************************************************************)
(* The main thread of the Chromecast app (chromecast/main.cc, and the      *)
(* window's half of app.cc) over a renderer: what Android calls, the vsync *)
(* callback that cannot be cancelled, the timer that starts a frame just   *)
(* in time for its slot, and redraws.  Its pace is in FramePacing: here,   *)
(* at some moment the timer of an armed slot expires.                      *)
(***************************************************************************)
EXTENDS RendererFrames

CONSTANTS
    Attempts,  \* of redraw() to draw: 4 in the code
    Onward     \* bound: whether to go on once a present fence was handed over signalled
ASSUME ActivityAssumption == Attempts \in Nat \ {0} /\ Onward \in BOOLEAN

VARIABLE a  \* Activity and App
vars == <<r, device, window, main, a>>

Launched ==
    [life |-> "live", resumed |-> FALSE, started |-> FALSE, window |-> FALSE, posted |-> FALSE,
     armed |-> FALSE, vsync |-> FALSE, finishing |-> FALSE, dirty |-> FALSE,
     shown |-> NoSize, turned |-> FALSE]

Init == /\ r = NoRenderer /\ device = Quiet /\ window = FreshWindow
        /\ main = Resting /\ a = Launched

Live == a.life = "live"
Idle == main.at = "idle" /\ Live
Undrawn == UNCHANGED <<r, device, window, main>>

\* update(); what animates, as a wallpaper does, makes what is drawn dirty as an Input does.
Wants(b, alive) == b.dirty /\ alive

\* Mutant of Armed: a paused activity arms the timer too.
ArmedPaused(b, alive) ==
    [b EXCEPT !.armed = ~b.finishing /\ b.vsync /\ Wants(b, alive)]

\* arm_frame()
Armed(b, alive) ==
    [b EXCEPT !.armed = b.resumed /\ ~b.finishing /\ b.vsync /\ Wants(b, alive)]

\* schedule(), and settle(), which schedules if there is something to draw.
Scheduled(b) == [b EXCEPT !.posted = @ \/ (b.resumed /\ ~b.finishing)]
Settled(b, alive) == IF Wants(b, alive) THEN Scheduled(b) ELSE b

Calls(at, from) == main' = [at |-> at, from |-> from, tries |-> 0]
Draws(from) == Calls("prepare", from) /\ UNCHANGED <<r, device, window>>
-------------------------------------------------------------------------------
(* What Android and the user do.                                           *)

\* touch() changes something only when a frame was drawn; set_content() and
\* set_density() only when the insets or the density are others.
Touched(b) == IF b.shown = NoSize THEN {b} ELSE {b, [b EXCEPT !.dirty = TRUE]}
RefreshContent(b) == {b, [b EXCEPT !.dirty = TRUE]}
ConfigureInput(b) == {b, [b EXCEPT !.dirty = TRUE]}
CheckSurface(b) == [b EXCEPT !.dirty = @ \/ (r.alive /\ SurfaceChanged)]

\* report(): ANativeActivity_finish().  What a finishing Activity would draw is left out.
Fatal(b) == [b EXCEPT !.finishing = TRUE, !.dirty = FALSE, !.vsync = FALSE,
                      !.shown = NoSize]

\* on_input(); Back and Enter change the screen also before a frame was drawn.
Input == /\ Idle /\ ~a.finishing
         /\ a' \in {Settled(a, r.alive), Settled([a EXCEPT !.dirty = TRUE], r.alive)}
         /\ Undrawn

\* on_input_destroyed() does not settle.
InputDestroyed == Idle /\ ~a.finishing /\ a' \in Touched(a) /\ Undrawn

SessionEvent == /\ Idle /\ ~a.finishing
                /\ a' = Settled([a EXCEPT !.dirty = TRUE], r.alive)
                /\ Undrawn

ContentChanged == /\ Idle /\ ~a.finishing
                  /\ \E b \in Touched(a) : \E c \in RefreshContent(b) : a' = Settled(c, r.alive)
                  /\ Undrawn

ConfigurationChanged ==
    /\ Idle /\ ~a.finishing
    /\ \E b \in Touched(a) : \E c \in ConfigureInput(b) : \E d \in RefreshContent(c) :
         a' = Settled(d, r.alive)
    /\ Undrawn

\* check_surface() asks Vulkan only about targets that are ready.
SurfaceLost == r.alive /\ r.ready /\ ~r.recreate

WindowResized == /\ Idle /\ ~a.finishing
                 /\ \E b \in Touched(a) : \E c \in RefreshContent(b) :
                      \/ a' = Settled(CheckSurface(c), r.alive)
                      \/ SurfaceLost /\ a' = Fatal(c)
                 /\ Undrawn

\* on_tick()
Tick == /\ Idle /\ ~a.finishing /\ a.started
        /\ \/ \E b \in RefreshContent(CheckSurface(a)) : a' = Settled(b, r.alive)
           \/ SurfaceLost /\ a' = Fatal(a)
        /\ Undrawn

\* Nothing but the surface's size is sure to be found changed.
TickChecks == Tick /\ a' = Settled(CheckSurface(a), r.alive)

Start == Idle /\ ~a.started /\ a' = Settled([a EXCEPT !.started = TRUE], r.alive) /\ Undrawn
Stop == Idle /\ a.started /\ ~a.resumed /\ a' = [a EXCEPT !.started = FALSE] /\ Undrawn
Resume == /\ Idle /\ a.started /\ ~a.resumed /\ ~a.finishing
          /\ a' = Settled([a EXCEPT !.resumed = TRUE, !.armed = FALSE], r.alive)
          /\ Undrawn
Pause == /\ Idle /\ a.resumed
         /\ a' \in Touched(Armed([a EXCEPT !.resumed = FALSE], r.alive))
         /\ Undrawn

WindowCreated ==
    /\ Idle /\ ~a.window
    /\ a' = [a EXCEPT !.window = TRUE, !.shown = NoSize]
    /\ window' = FreshWindow
    /\ Calls("context", "attach") /\ UNCHANGED <<r, device>>

\* detach_window()
Detached(b) == [b EXCEPT !.window = FALSE, !.shown = NoSize]

\* Its destroy() of the renderer waits for the GPU and the display.
WindowDestroyed ==
    /\ Idle /\ a.window /\ WorkDone
    /\ r' = NoRenderer /\ device' = Quiet
    /\ \E b \in Touched(a) : a' = Armed(Detached(b), FALSE)
    /\ window' = FreshWindow /\ UNCHANGED main

Redraw == /\ Idle /\ ~a.finishing /\ r.alive /\ ~window.steady
          /\ a' \in RefreshContent(a) /\ Draws("redraw")

\* wallpaper_ready(): an image, or none, that the renderer gets if there is one.
Wallpaper ==
    /\ Idle /\ ~a.finishing /\ ~window.steady
    /\ IF r.alive THEN Calls("upload", "wallpaper") /\ UNCHANGED a
       ELSE a' = [a EXCEPT !.dirty = TRUE] /\ UNCHANGED main
    /\ UNCHANGED <<r, device, window>>

\* on_destroy()
Destroy == /\ Idle /\ ~a.started /\ ~a.window
           /\ a' = [a EXCEPT !.life = IF a.posted THEN "destroyed" ELSE "freed", !.armed = FALSE]
           /\ Undrawn

\* "The process terminates" rather than releasing what may be in use.
Aborts ==
    /\ \/ main.at = "font"
       \/ main.at = "upload"
       \/ Idle /\ a.window /\ ~WorkDone
       \/ device.stale
    /\ r' = NoRenderer /\ device' = Quiet /\ main' = Resting
    /\ a' = [Launched EXCEPT !.life = "freed"]
    /\ UNCHANGED window

Launch == /\ a.life = "freed" /\ main.at = "idle"
          /\ a' = Launched /\ window' = FreshWindow
          /\ UNCHANGED <<r, device, main>>
-------------------------------------------------------------------------------
(* Frames.                                                                 *)

\* on_frame(): without a refresh period it draws, else it sees to the timer.
OnFrame ==
    /\ main.at = "idle" /\ a.posted
    /\ LET b == [a EXCEPT !.posted = FALSE]
       IN IF a.life = "destroyed" THEN a' = [b EXCEPT !.life = "freed"] /\ Undrawn
          ELSE IF ~a.resumed \/ a.finishing \/ ~Wants(a, r.alive) THEN a' = b /\ Undrawn
          ELSE \/ /\ a' = Scheduled(Armed([b EXCEPT !.vsync = TRUE], r.alive))
                  /\ Undrawn
               \/ ~a.vsync /\ a' = b /\ Draws("frame")

\* A vsync callback without timelines asks for another.
OnFrameEmpty == /\ Idle /\ a.posted /\ a.resumed /\ ~a.finishing /\ Wants(a, r.alive)
                /\ UNCHANGED vars

\* on_frame_timer()
OnFrameTimer ==
    /\ Idle /\ a.armed
    /\ IF ~a.resumed \/ a.finishing \/ ~Wants(a, r.alive)
         THEN a' = [a EXCEPT !.armed = FALSE] /\ Undrawn
         ELSE Draws("timer") /\ UNCHANGED a

Shown == [a EXCEPT !.dirty = FALSE, !.shown = r.built, !.turned = r.turned]

\* draw() returns to who called it: it presented a frame, or deferred it.
Drawn ==
    /\ main.at \in {"shown", "deferred"}
    /\ LET b == IF main.at = "shown" THEN Shown ELSE a
       IN \/ /\ main.from = "timer"
             /\ a' = Settled(Armed(b, r.alive), r.alive) /\ main' = Resting
          \/ /\ main.from = "frame"
             /\ a' = Settled(b, r.alive) /\ main' = Resting
          \/ /\ main.from = "redraw"
             /\ a' = b
             /\ main' = CASE main.at = "shown" -> [main EXCEPT !.at = "wait"]
                          [] main.at = "deferred" /\ main.tries < Attempts - 1 ->
                               [main EXCEPT !.at = "prepare", !.tries = @ + 1]
                          [] OTHER -> Resting
    /\ UNCHANGED <<r, device, window>>

DrawFails ==
    /\ Failing /\ main.from \in {"timer", "frame", "redraw"}
    /\ a' = [Fatal(a) EXCEPT !.armed = @ /\ main.from # "timer"]
    /\ main' = Resting
    /\ UNCHANGED <<r, device, window>>

\* attach_window() returns, or first uploads the wallpaper that there is.
Attached ==
    /\ main.from = "attach"
    /\ \/ /\ main.at = "deferred"
          /\ main' = [main EXCEPT !.at = "upload"] /\ UNCHANGED a
       \/ /\ main.at \in {"deferred", "uploaded"}
          /\ a' = Settled([a EXCEPT !.dirty = TRUE], TRUE)
          /\ main' = Resting
    /\ UNCHANGED <<r, device, window>>

AttachFails ==
    /\ Failing /\ main.from = "attach"
    /\ r' = NoRenderer /\ device' = Quiet
    /\ a' = Fatal(a) /\ main' = Resting
    /\ UNCHANGED window

\* set_wallpaper() returns; an image that cannot be used is no fatal error.
Papered ==
    /\ main.from = "wallpaper"
    /\ \/ /\ main.at = "uploaded"
          /\ a' = Settled(Armed([a EXCEPT !.dirty = TRUE], r.alive), r.alive)
       \/ /\ main.at \in {"upload", "uploaded"}
          /\ a' = Settled(Armed(a, r.alive), r.alive)
    /\ main' = Resting
    /\ UNCHANGED <<r, device, window>>
-------------------------------------------------------------------------------
\* The renderer's steps, on behalf of whoever called it.
Renders ==
    /\ \/ CreatesContext \/ CreatesPipelines \/ CreatesFont
       \/ Unsized \/ Prepared \/ Outdated \/ Retires \/ CreatesTargets \/ TargetsLater
       \/ BeginDeferred \/ AcquiresLater \/ Presents \/ PresentFails
       \/ Uploads \/ WaitsFrame
       \/ \E i \in Images : Acquires(i)
    /\ UNCHANGED a
\* Returning to the caller reads nothing that the hardware changes.
Returning == main.at \in {"shown", "deferred", "failed", "uploaded"}
Hardware ==
    /\ ~Returning
    /\ \/ \E f \in Frames : Executes(f)
       \/ \E i \in Images : Releases(i)
       \/ r.alive /\ (Resizes \/ Steadies)
    /\ UNCHANGED a

\* A signalled present fence leaves everything open: Vulkan promises nothing more.
Defined == Onward \/ ~device.stale
Acts ==
    \/ Renders \/ Hardware \/ Drawn \/ DrawFails \/ Attached \/ AttachFails \/ Papered
    \/ Input \/ InputDestroyed \/ SessionEvent \/ ContentChanged \/ ConfigurationChanged
    \/ WindowResized \/ Tick
    \/ Start \/ Stop \/ Resume \/ Pause \/ Redraw \/ Wallpaper
    \/ WindowCreated \/ WindowDestroyed \/ Destroy \/ Launch
    \/ OnFrame \/ OnFrameEmpty \/ OnFrameTimer
Next == Aborts \/ (Defined /\ Acts)

(* The thread runs, the GPU and the display finish, and the surface is in  *)
(* the end available and undisturbed for as long as its window stays.      *)
Fairness ==
    /\ WF_vars((\E f \in Frames : Executes(f)) /\ ~Returning /\ UNCHANGED a)
    /\ WF_vars((\E i \in Images : Releases(i)) /\ ~Returning /\ UNCHANGED a)
    /\ SF_vars(Steadies /\ r.alive /\ UNCHANGED a)
    /\ WF_vars(Returning /\ (Drawn \/ DrawFails \/ Attached \/ AttachFails \/ Papered))
    /\ WF_vars(Renders)
    /\ WF_vars(TickChecks) /\ WF_vars(OnFrame) /\ WF_vars(OnFrameTimer)
Spec == Init /\ [][Next]_vars /\ Fairness
-------------------------------------------------------------------------------
(* Types; the frames are used in turn.                                     *)
Places == {"idle", "context", "pipelines", "font", "prepare", "retire", "create", "begin", "image",
           "wait", "upload", "uploaded", "shown", "deferred", "failed"}
Callers == {"none", "attach", "timer", "frame", "redraw", "wallpaper"}
Activities == [life : {"live", "destroyed", "freed"}, resumed : BOOLEAN, started : BOOLEAN,
               window : BOOLEAN, posted : BOOLEAN, armed : BOOLEAN, vsync : BOOLEAN,
               finishing : BOOLEAN, dirty : BOOLEAN, shown : Sizes \cup {NoSize}, turned : BOOLEAN]
TypeOK ==
    /\ r \in Renderers /\ device \in Devices /\ window \in Windows
    /\ main \in [at : Places, from : Callers, tries : 0 .. Attempts - 1]
    /\ a \in Activities

\* Nothing that the renderer made is in use by the GPU or the display.
Unused == /\ \A f \in Frames : ~device.busy[f] /\ (device.acquire[f] = "none" \/ Acquired(f))
          /\ \A i \in Images : device.shows[i] = {}

(* "Presentation fences keep swapchain images and semaphores alive until   *)
(* the display has released them, including during rotation and shutdown": *)
(* targets are destroyed only when nothing uses them, as long as no fence  *)
(* was handed to a presentation that was signalled already.                *)
ReleasedWhenIdle ==
    [][r.images /\ ~r'.images /\ a'.life = "live" /\ ~device.stale => Unused]_vars
(* The same without that exception.                                        *)
ReleasedWhenUnused == [][r.images /\ ~r'.images /\ a'.life = "live" => Unused]_vars

(* An image is acquired for a frame that the GPU has finished, with a      *)
(* semaphore that nothing signals; and it is drawn on only when it is no   *)
(* longer being presented.  After a failure nothing is promised.           *)
FramesAlone ==
    [][~device.stale /\ ~a.finishing =>
         /\ main.at = "begin" /\ main'.at = "image" =>
              ~device.busy[r.index] /\ device.acquire[r.index] = "none"
         /\ main.at = "image" /\ main'.at # "image" /\ r'.index # r.index =>
              device.shows[Image] = {} /\ Cardinality(device.held) = 1]_vars

(* "It stops when the app is paused", and without a window: no slot stays  *)
(* armed when a callback returns.  And what a pending callback points to   *)
(* is not freed: it cannot be cancelled, so on_destroy() leaves that to it. *)
CallbacksOwned ==
    /\ Idle /\ (~a.resumed \/ ~r.alive) => ~a.armed
    /\ a.posted => a.life # "freed"

(* "Android can resize or rotate a window after its last callback, so      *)
(* visible windows are checked on this interval": the window's size and    *)
(* transform are drawn in the end, also when nothing else happens.  The    *)
(* exception is an onNativeWindowRedrawNeeded that rebuilds the targets    *)
(* and then defers every attempt: nothing is left that asks for a frame.   *)
Visible == Defined /\ Live /\ a.started /\ a.resumed /\ r.alive /\ ~a.finishing
GivenUp == ~a.dirty /\ Current /\ r.observed = window.size
Matching == a.shown = window.size /\ a.turned = window.turned
ResizeShown == (Visible /\ ~Matching) ~> (Matching \/ ~Visible \/ GivenUp)
===============================================================================
