------------------------ MODULE ChromecastActivityProofs ------------------------
(***************************************************************************)
(* Proofs about ChromecastActivity and RendererFrames, for every number of *)
(* frames in flight, every set of images and every number of attempts: the *)
(* types, who may be called back, and what the GPU and the display use     *)
(* when a frame is drawn or what it is drawn on is destroyed.  And about   *)
(* FramePacing, whatever a refresh, the limits and the frames' costs are.  *)
(***************************************************************************)
EXTENDS ChromecastActivity, FramePacing, RecursionProofs, FiniteSetTheorems, TLAPS

DrawCallers == {"timer", "frame", "redraw"}
Elsewhere == main.at # "idle"
Attaching == Elsewhere /\ main.from = "attach"

(* Who has a renderer: an Activity with a window, and only one that lives. *)
(* Without a renderer the GPU and the display have nothing of ours.        *)
OwnersOK ==
    /\ r.alive => a.window
    /\ a.window => a.life = "live"
    /\ Elsewhere => a.window
    /\ ~r.alive => r = NoRenderer /\ device = Quiet

(* Where the thread may be on whose behalf: only what draws comes to the   *)
(* steps of a frame, only while nothing has failed, and a window that is   *)
(* being attached has had no frame.                                        *)
CallersOK ==
    /\ main.at \in {"context", "pipelines", "font"} => main.from = "attach"
    /\ main.at \in {"begin", "image", "shown", "wait", "failed"} => main.from \in DrawCallers
    /\ main.at \in {"prepare", "retire", "create"} => main.from \in DrawCallers \cup {"attach"}
    /\ Elsewhere /\ main.at # "context" => r.alive
    /\ Elsewhere /\ main.from \in DrawCallers => r.alive /\ ~a.finishing
    /\ Attaching => device = Quiet
    /\ Attaching /\ main.at \in {"context", "pipelines", "font", "prepare", "retire"} => ~r.ready

(* A slot is armed only for a resumed Activity that has a renderer, and no *)
(* callback is left to one that is freed.                                  *)
CallbacksOK ==
    /\ a.armed => a.resumed /\ r.alive /\ ~Attaching
    /\ a.posted => a.life # "freed"

(* As long as no fence was handed over signalled, an image that is in use  *)
(* has one user, and a fence to wait for that is not signalled yet.        *)
ImagesOK ==
    ~device.stale =>
        \A i \in Images :
            /\ device.shows[i] # {} => r.pending[i] /\ ~device.fence[i]
            /\ \A x, y \in device.shows[i] : x = y

(* As long as nothing failed, a frame that the GPU is done with has no     *)
(* acquisition, and the app holds the image of the frame that it draws.    *)
HoldsOK ==
    /\ ~a.finishing /\ main.at # "failed" =>
         \A f \in Frames : \/ device.busy[f] \/ device.acquire[f] = "none"
                           \/ main.at = "image" /\ f = r.index
    /\ ~a.finishing /\ main.at \notin {"image", "failed"} => device.held = {}
    /\ main.at = "image" => \E i \in Images : device.held = {i}

IInv == TypeOK /\ OwnersOK /\ CallersOK /\ CallbacksOK /\ ImagesOK /\ HoldsOK
-------------------------------------------------------------------------------
(* Facts about the operators.                                              *)

LEMMA SizesExist == Sizes # {}
  BY FrameAssumption, FS_EmptySet

LEMMA FreshTyped == FreshWindow \in Windows
  BY SizesExist DEF FreshWindow, Windows

LEMMA FramesTyped ==
    /\ 0 \in Frames
    /\ \A f \in Frames : (f + 1) % FrameCount \in Frames
  BY FrameAssumption DEF Frames

LEMMA NothingTyped == NoRenderer \in Renderers /\ Quiet \in Devices
  BY FramesTyped DEF NoRenderer, Quiet, Renderers, Devices, Unpresented

(* What a callback that runs to its end leaves as it was.                  *)
Alike(b, c) == /\ c \in Activities
               /\ c.life = b.life /\ c.window = b.window /\ c.finishing = b.finishing
               /\ c.resumed = b.resumed

(* arm_frame() arms only what is resumed and has a renderer.               *)
LEMMA ArmedFacts ==
    ASSUME NEW b \in Activities, NEW alive \in BOOLEAN
    PROVE  /\ Alike(b, Armed(b, alive))
           /\ Armed(b, alive).armed => b.resumed /\ alive
           /\ Armed(b, alive).posted = b.posted
  BY DEF Armed, Wants, Activities, Alike

(* schedule() and settle() post a callback and change nothing else.        *)
LEMMA SettledFacts ==
    ASSUME NEW b \in Activities, NEW alive \in BOOLEAN
    PROVE  /\ Alike(b, Settled(b, alive)) /\ Alike(b, Scheduled(b))
           /\ Settled(b, alive).armed = b.armed /\ Scheduled(b).armed = b.armed
  BY DEF Settled, Scheduled, Wants, Activities, Alike

(* touch(), set_content() and the others mark something as to be drawn.    *)
LEMMA DirtyFacts ==
    ASSUME NEW b \in Activities,
           NEW c \in Touched(b) \cup RefreshContent(b) \cup ConfigureInput(b)
                     \cup {CheckSurface(b), [b EXCEPT !.dirty = TRUE]}
    PROVE  Alike(b, c) /\ c.armed = b.armed /\ c.posted = b.posted
  BY DEF Touched, RefreshContent, ConfigureInput, CheckSurface, Activities, Alike, SurfaceChanged, Current
-------------------------------------------------------------------------------
(* What Android and the user do.                                           *)

(* A callback that only marks, posts or arms keeps the invariant.          *)
LEMMA CallbackKeeps ==
    ASSUME IInv, Idle, UNCHANGED <<r, device, main>>, window' \in Windows, Alike(a, a'),
           a'.armed => a.armed \/ (a.resumed /\ r.alive)
    PROVE  IInv'
<1>1. /\ a' \in Activities /\ a'.life = "live" /\ a'.window = a.window
      /\ a'.resumed = a.resumed /\ a'.finishing = a.finishing
  BY DEF Alike, Idle, Live
<1>2. TypeOK'
  BY <1>1 DEF IInv, TypeOK
<1>3. OwnersOK'
  BY <1>1 DEF IInv, OwnersOK, Elsewhere
<1>4. CallersOK'
  BY <1>1 DEF IInv, CallersOK, Elsewhere, Attaching
<1>5. CallbacksOK'
  BY <1>1 DEF IInv, CallbacksOK, Idle, Elsewhere, Attaching
<1>6. ImagesOK' /\ HoldsOK'
  BY <1>1 DEF IInv, ImagesOK, HoldsOK
<1>7. QED
  BY <1>2, <1>3, <1>4, <1>5, <1>6 DEF IInv

(* report() ends an Activity at rest: it arms and posts nothing.           *)
LEMMA FatalKeeps ==
    ASSUME IInv, Idle, Undrawn, NEW b \in Activities, Alike(a, b), b.armed = a.armed, b.posted = a.posted,
           a' = Fatal(b)
    PROVE  IInv'
<1>1. /\ a' \in Activities /\ a'.life = a.life /\ a'.window = a.window /\ a'.resumed = a.resumed
      /\ a'.armed = a.armed /\ a'.posted = a.posted /\ a'.finishing
  BY DEF Fatal, Activities, Alike
<1> USE DEF Undrawn, Idle, Elsewhere, Attaching
<1>2. TypeOK'
  BY <1>1 DEF IInv, TypeOK
<1>3. OwnersOK' /\ CallersOK' /\ CallbacksOK'
  BY <1>1 DEF IInv, OwnersOK, CallersOK, CallbacksOK
<1>4. ImagesOK' /\ HoldsOK'
  BY <1>1 DEF IInv, ImagesOK, HoldsOK
<1>5. QED
  BY <1>2, <1>3, <1>4 DEF IInv

(* check_surface() fails on a tick, or when the window was resized.        *)
LosesSurface ==
    \/ Tick /\ a' = Fatal(a)
    \/ WindowResized /\ \E b \in Touched(a) : \E c \in RefreshContent(b) : a' = Fatal(c)

LEMMA LosesKeeps ==
    ASSUME IInv, LosesSurface
    PROVE  IInv'
<1>1. a \in Activities /\ Alike(a, a)
  BY DEF IInv, TypeOK, Alike
<1>2. Idle /\ Undrawn
  BY DEF LosesSurface, Tick, WindowResized
<1>3. CASE a' = Fatal(a)
  BY <1>1, <1>2, <1>3, FatalKeeps
<1>4. ASSUME NEW b \in Touched(a), NEW c \in RefreshContent(b), a' = Fatal(c)
      PROVE  IInv'
  <2>1. Alike(a, b) /\ b.armed = a.armed /\ b.posted = a.posted
    BY <1>1, DirtyFacts
  <2>2. Alike(b, c) /\ c.armed = b.armed /\ c.posted = b.posted
    BY <2>1, DirtyFacts DEF Alike
  <2>3. QED
    BY <1>2, <1>4, <2>1, <2>2, FatalKeeps DEF Alike
<1>5. QED
  BY <1>3, <1>4 DEF LosesSurface

LEMMA MarksKeep ==
    ASSUME IInv, Input \/ InputDestroyed \/ SessionEvent \/ ContentChanged
                 \/ ConfigurationChanged \/ WindowResized \/ Tick,
           ~LosesSurface
    PROVE  IInv'
<1>1. a \in Activities /\ r.alive \in BOOLEAN /\ window \in Windows
  BY DEF IInv, TypeOK, Renderers
<1>2. Idle /\ Undrawn
  BY DEF Input, InputDestroyed, SessionEvent, ContentChanged, ConfigurationChanged,
         WindowResized, Tick
<1>3. PICK b \in Activities : Alike(a, b) /\ b.armed = a.armed /\ a' \in {b, Settled(b, r.alive)}
  <2>1. Alike(a, a)
    BY <1>1 DEF Alike
  <2>2. CASE Input \/ SessionEvent
    BY <1>1, <2>1, <2>2, DirtyFacts DEF Input, SessionEvent, Alike
  <2>3. CASE InputDestroyed
    BY <1>1, <2>1, <2>3, DirtyFacts DEF InputDestroyed, Alike
  <2>4. CASE ContentChanged
    BY <1>1, <2>1, <2>4, DirtyFacts DEF ContentChanged, Alike
  <2>5. CASE ConfigurationChanged
    <3>1. PICK b \in Touched(a) : \E c \in ConfigureInput(b) : \E d \in RefreshContent(c) :
             a' = Settled(d, r.alive)
      BY <2>5 DEF ConfigurationChanged
    <3>2. PICK c \in ConfigureInput(b) : \E d \in RefreshContent(c) : a' = Settled(d, r.alive)
      BY <3>1
    <3>3. PICK d \in RefreshContent(c) : a' = Settled(d, r.alive)
      BY <3>2
    <3>4. Alike(a, b) /\ b.armed = a.armed
      BY <1>1, DirtyFacts
    <3>5. Alike(b, c) /\ c.armed = b.armed
      BY <3>4, DirtyFacts DEF Alike
    <3>6. Alike(c, d) /\ d.armed = c.armed
      BY <3>5, DirtyFacts DEF Alike
    <3>7. QED
      BY <3>3, <3>4, <3>5, <3>6 DEF Alike
  <2>6. CASE WindowResized
    <3>1. PICK b \in Touched(a) : \E c \in RefreshContent(b) :
             a' = Settled(CheckSurface(c), r.alive)
      BY <2>6 DEF WindowResized, LosesSurface
    <3>2. PICK c \in RefreshContent(b) : a' = Settled(CheckSurface(c), r.alive)
      BY <3>1
    <3>3. Alike(a, b) /\ b.armed = a.armed
      BY <1>1, DirtyFacts
    <3>4. Alike(b, c) /\ c.armed = b.armed
      BY <3>3, DirtyFacts DEF Alike
    <3>5. Alike(c, CheckSurface(c)) /\ CheckSurface(c).armed = c.armed
      BY <3>4, DirtyFacts DEF Alike
    <3>6. QED
      BY <3>2, <3>3, <3>4, <3>5 DEF Alike
  <2>7. CASE Tick
    <3>1. Alike(a, CheckSurface(a)) /\ CheckSurface(a).armed = a.armed
      BY <1>1, DirtyFacts
    <3>2. PICK b \in RefreshContent(CheckSurface(a)) : a' = Settled(b, r.alive)
      BY <2>7 DEF Tick, LosesSurface
    <3>3. Alike(CheckSurface(a), b) /\ b.armed = a.armed
      BY <3>1, DirtyFacts DEF Alike
    <3>4. QED
      BY <3>1, <3>2, <3>3 DEF Alike
  <2>8. QED
    BY <2>2, <2>3, <2>4, <2>5, <2>6, <2>7
<1>4. Alike(b, Settled(b, r.alive)) /\ Settled(b, r.alive).armed = b.armed
  BY <1>1, <1>3, SettledFacts
<1>5. Alike(a, a') /\ a'.armed = a.armed
  BY <1>3, <1>4 DEF Alike
<1>6. QED
  BY <1>1, <1>2, <1>5, CallbackKeeps DEF Undrawn

(* Started and resumed, or no more: a paused Activity arms nothing.        *)
LEMMA LifecycleKeeps ==
    ASSUME IInv, Start \/ Stop \/ Resume \/ Pause
    PROVE  IInv'
<1>1. a \in Activities /\ r.alive \in BOOLEAN /\ UNCHANGED <<r, device, window, main>> /\ Idle
  BY DEF IInv, TypeOK, Renderers, Start, Stop, Resume, Pause, Undrawn
<1>2. /\ a' \in Activities /\ a'.life = a.life /\ a'.window = a.window
      /\ a'.finishing = a.finishing
      /\ a'.armed => a.armed /\ a'.resumed
  <2>1. CASE Start
    <3> DEFINE b == [a EXCEPT !.started = TRUE]
    <3>1. /\ b \in Activities /\ b.life = a.life /\ b.window = a.window /\ b.armed = a.armed
          /\ b.finishing = a.finishing /\ b.resumed = a.resumed
      BY <1>1 DEF Activities
    <3>2. a' = Settled(b, r.alive)
      BY <2>1 DEF Start
    <3> HIDE DEF b
    <3>3. QED
      BY <1>1, <3>1, <3>2, SettledFacts DEF Alike, IInv, CallbacksOK
  <2>2. CASE Stop
    BY <1>1, <2>2 DEF Stop, Activities, IInv, CallbacksOK
  <2>3. CASE Resume
    <3> DEFINE b == [a EXCEPT !.resumed = TRUE, !.armed = FALSE]
    <3>1. /\ b \in Activities /\ b.life = a.life /\ b.window = a.window /\ ~b.armed
          /\ b.finishing = a.finishing
      BY <1>1 DEF Activities
    <3>2. a' = Settled(b, r.alive)
      BY <2>3 DEF Resume
    <3> HIDE DEF b
    <3>3. QED
      BY <1>1, <3>1, <3>2, SettledFacts DEF Alike
  <2>4. CASE Pause
    <3> DEFINE b == [a EXCEPT !.resumed = FALSE]
    <3>1. /\ b \in Activities /\ b.life = a.life /\ b.window = a.window /\ ~b.resumed
          /\ b.finishing = a.finishing
      BY <1>1 DEF Activities
    <3>2. a' \in Touched(Armed(b, r.alive))
      BY <2>4 DEF Pause
    <3> HIDE DEF b
    <3>3. Alike(b, Armed(b, r.alive)) /\ ~Armed(b, r.alive).armed
      BY <1>1, <3>1, ArmedFacts
    <3>4. Alike(Armed(b, r.alive), a') /\ ~a'.armed
      BY <3>2, <3>3, DirtyFacts DEF Alike
    <3>5. QED
      BY <3>1, <3>3, <3>4 DEF Alike
  <2>5. QED
    BY <2>1, <2>2, <2>3, <2>4
<1>3. TypeOK' /\ OwnersOK' /\ CallersOK'
  BY <1>1, <1>2 DEF IInv, TypeOK, OwnersOK, CallersOK, Elsewhere, Attaching
<1>4. CallbacksOK'
  BY <1>1, <1>2 DEF IInv, CallbacksOK, Idle, Live, Elsewhere, Attaching
<1>5. ImagesOK' /\ HoldsOK'
  BY <1>1, <1>2 DEF IInv, ImagesOK, HoldsOK
<1>6. QED
  BY <1>3, <1>4, <1>5 DEF IInv

(* The window comes, changes, and is drawn on request.                     *)
LEMMA CreatedKeeps ==
    ASSUME IInv, WindowCreated
    PROVE  IInv'
<1>1. /\ a \in Activities /\ Idle /\ ~a.window /\ a' = [a EXCEPT !.window = TRUE, !.shown = NoSize]
      /\ window' \in Windows /\ UNCHANGED <<r, device>>
      /\ main' = [at |-> "context", from |-> "attach", tries |-> 0]
  BY FreshTyped DEF IInv, TypeOK, WindowCreated, Calls
<1>2. ~r.alive /\ r = NoRenderer /\ device = Quiet
  BY <1>1 DEF IInv, OwnersOK
<1>3. ~a.armed
  BY <1>2 DEF IInv, CallbacksOK
<1>4. /\ a' \in Activities /\ a'.window /\ a'.life = "live" /\ ~a'.armed
      /\ a'.posted = a.posted /\ a'.finishing = a.finishing
  BY <1>1, <1>3 DEF Activities, Idle, Live
<1>5. TypeOK'
  BY <1>1, <1>4, ActivityAssumption DEF IInv, TypeOK, Places, Callers
<1>6. OwnersOK' /\ CallersOK'
  BY <1>1, <1>2, <1>4 DEF OwnersOK, CallersOK, Elsewhere, Attaching, DrawCallers, NoRenderer
<1>7. CallbacksOK'
  BY <1>4 DEF CallbacksOK
<1>8. ImagesOK' /\ HoldsOK'
  BY <1>1, <1>2, <1>4 DEF ImagesOK, HoldsOK, Quiet, Idle, IInv
<1>9. QED
  BY <1>5, <1>6, <1>7, <1>8 DEF IInv

LEMMA DrawsKeep ==
    ASSUME IInv, Idle, r.alive, ~a.finishing, NEW from \in DrawCallers, Draws(from),
           Alike(a, a'), a'.armed => a.armed
    PROVE  IInv'
<1>1. /\ UNCHANGED <<r, device, window>>
      /\ main' = [at |-> "prepare", from |-> from, tries |-> 0]
  BY DEF Draws, Calls
<1>2. /\ a' \in Activities /\ a'.window = a.window /\ a'.life = a.life
      /\ a'.resumed = a.resumed /\ a'.finishing = a.finishing
  BY DEF Alike
<1>3. TypeOK'
  BY <1>1, <1>2, ActivityAssumption DEF IInv, TypeOK, Places, Callers, DrawCallers
<1>4. OwnersOK' /\ CallersOK'
  BY <1>1, <1>2 DEF IInv, OwnersOK, CallersOK, Elsewhere, Attaching, DrawCallers, Idle
<1>5. CallbacksOK'
  BY <1>1, <1>2 DEF IInv, CallbacksOK, Attaching, DrawCallers, Idle, Live, Elsewhere
<1>6. ImagesOK' /\ HoldsOK'
  BY <1>1, <1>2 DEF IInv, ImagesOK, HoldsOK, Idle
<1>7. QED
  BY <1>3, <1>4, <1>5, <1>6 DEF IInv

LEMMA RedrawKeeps ==
    ASSUME IInv, Redraw
    PROVE  IInv'
<1>1. a \in Activities
  BY DEF IInv, TypeOK
<1>2. Alike(a, a') /\ a'.armed = a.armed
  BY <1>1, DirtyFacts DEF Redraw, Alike
<1>3. QED
  BY <1>2, DrawsKeep DEF Redraw, DrawCallers

LEMMA WallpaperKeeps ==
    ASSUME IInv, Wallpaper
    PROVE  IInv'
<1>1. a \in Activities /\ Idle /\ UNCHANGED <<r, device, window>> /\ window \in Windows
  BY DEF IInv, TypeOK, Wallpaper
<1>2. CASE ~r.alive
  <2>1. Alike(a, a') /\ a'.armed = a.armed /\ UNCHANGED main
    BY <1>1, <1>2, DirtyFacts DEF Wallpaper
  <2>2. QED
    BY <1>1, <2>1, CallbackKeeps
<1>3. CASE r.alive
  <2>1. UNCHANGED a /\ main' = [at |-> "upload", from |-> "wallpaper", tries |-> 0]
    BY <1>3 DEF Wallpaper, Calls
  <2>2. TypeOK'
    BY <1>1, <2>1, ActivityAssumption DEF IInv, TypeOK, Places, Callers
  <2>3. OwnersOK' /\ CallersOK'
    BY <1>1, <1>3, <2>1 DEF IInv, OwnersOK, CallersOK, Elsewhere, Attaching, DrawCallers
  <2>4. CallbacksOK'
    BY <1>1, <2>1 DEF IInv, CallbacksOK, Attaching
  <2>5. ImagesOK' /\ HoldsOK'
    BY <1>1, <2>1 DEF IInv, ImagesOK, HoldsOK, Idle
  <2>6. QED
    BY <2>2, <2>3, <2>4, <2>5 DEF IInv
<1>4. QED
  BY <1>2, <1>3

(* Whatever gives the renderer up leaves the GPU and the display nothing.  *)
LEMMA GivesUpKeeps ==
    ASSUME IInv, r' = NoRenderer, device' = Quiet, main' = Resting, window' \in Windows,
           a' \in Activities, ~a'.armed, a'.posted => a'.life # "freed",
           a'.window => a'.life = "live"
    PROVE  IInv'
<1>1. TypeOK'
  BY NothingTyped, ActivityAssumption DEF TypeOK, Resting, Places, Callers
<1>2. OwnersOK' /\ CallersOK'
  BY DEF OwnersOK, CallersOK, Elsewhere, Attaching, Resting, NoRenderer
<1>3. CallbacksOK'
  BY DEF CallbacksOK
<1>4. ImagesOK' /\ HoldsOK'
  BY DEF ImagesOK, HoldsOK, Quiet, Resting
<1>5. QED
  BY <1>1, <1>2, <1>3, <1>4 DEF IInv

LEMMA DestroyedKeeps ==
    ASSUME IInv, WindowDestroyed
    PROVE  IInv'
<1>1. a \in Activities /\ Idle /\ r' = NoRenderer /\ device' = Quiet /\ UNCHANGED main
  BY DEF IInv, TypeOK, WindowDestroyed
<1>2. PICK b \in Touched(a) : a' = Armed(Detached(b), FALSE)
  BY DEF WindowDestroyed
<1>3. Alike(a, b) /\ b.posted = a.posted
  BY <1>1, DirtyFacts
<1>4. Detached(b) \in Activities /\ Detached(b).life = b.life /\ Detached(b).posted = b.posted
  BY <1>3 DEF Detached, Activities, Alike
<1>5. a' \in Activities /\ ~a'.armed /\ a'.life = "live"
  BY <1>1, <1>2, <1>3, <1>4, ArmedFacts, ZenonT(20) DEF Alike, Idle, Live
<1>6. window' \in Windows
  BY FreshTyped DEF WindowDestroyed
<1>7. TypeOK'
  BY <1>1, <1>5, <1>6, NothingTyped DEF IInv, TypeOK
<1>8. OwnersOK' /\ CallersOK'
  BY <1>1, <1>5 DEF OwnersOK, CallersOK, Elsewhere, Attaching, NoRenderer, Idle
<1>9. CallbacksOK' /\ ImagesOK' /\ HoldsOK'
  BY <1>1, <1>5 DEF CallbacksOK, ImagesOK, HoldsOK, Quiet, Idle
<1>10. QED
  BY <1>7, <1>8, <1>9 DEF IInv

LEMMA EndsKeep ==
    ASSUME IInv, Destroy \/ Aborts \/ Launch
    PROVE  IInv'
<1>1. a \in Activities /\ window \in Windows
  BY DEF IInv, TypeOK
<1>2. Launched \in Activities
  BY DEF Launched, Activities
<1>3. CASE Destroy
  <2>1. /\ Idle /\ ~a.window /\ UNCHANGED <<r, device, window, main>>
        /\ a' = [a EXCEPT !.life = IF a.posted THEN "destroyed" ELSE "freed", !.armed = FALSE]
    BY <1>3 DEF Destroy, Undrawn
  <2>2. /\ a' \in Activities /\ ~a'.armed /\ a'.posted = a.posted /\ ~a'.window
        /\ a'.posted => a'.life # "freed"
        /\ a'.finishing = a.finishing
    BY <1>1, <2>1 DEF Activities
  <2>3. TypeOK' /\ CallersOK' /\ CallbacksOK'
    BY <2>1, <2>2 DEF IInv, TypeOK, CallersOK, CallbacksOK, Idle, Elsewhere, Attaching
  <2>4. OwnersOK'
    BY <2>1, <2>2 DEF IInv, OwnersOK, Idle, Elsewhere
  <2>5. ImagesOK' /\ HoldsOK'
    BY <2>1, <2>2 DEF IInv, ImagesOK, HoldsOK
  <2>6. QED
    BY <2>3, <2>4, <2>5 DEF IInv
<1>4. CASE Aborts
  <2>1. /\ r' = NoRenderer /\ device' = Quiet /\ main' = Resting /\ UNCHANGED window
        /\ a' = [Launched EXCEPT !.life = "freed"]
    BY <1>4 DEF Aborts
  <2>2. a' \in Activities /\ ~a'.armed /\ ~a'.posted /\ ~a'.window
    BY <2>1 DEF Launched, Activities
  <2>3. QED
    BY <1>1, <2>1, <2>2, GivesUpKeeps
<1>5. CASE Launch
  <2>1. /\ a.life = "freed" /\ main.at = "idle" /\ a' = Launched
        /\ window' \in Windows /\ UNCHANGED <<r, device, main>>
    BY <1>5, FreshTyped DEF Launch
  <2>2. ~r.alive /\ r = NoRenderer /\ device = Quiet
    BY <2>1 DEF IInv, OwnersOK
  <2>3. TypeOK'
    BY <1>2, <2>1 DEF IInv, TypeOK
  <2>4. OwnersOK' /\ CallersOK'
    BY <2>1, <2>2 DEF OwnersOK, CallersOK, Elsewhere, Attaching, NoRenderer, Launched
  <2>5. CallbacksOK' /\ ImagesOK' /\ HoldsOK'
    BY <2>1, <2>2 DEF CallbacksOK, ImagesOK, HoldsOK, Quiet, Launched
  <2>6. QED
    BY <2>3, <2>4, <2>5 DEF IInv
<1>6. QED
  BY <1>3, <1>4, <1>5
-------------------------------------------------------------------------------
(* Frames, and the returns of what drew, attached or uploaded.             *)

LEMMA OnFrameKeeps ==
    ASSUME IInv, OnFrame
    PROVE  IInv'
<1>1. a \in Activities /\ main.at = "idle" /\ a.posted /\ window \in Windows /\ r.alive \in BOOLEAN
  BY DEF IInv, TypeOK, OnFrame, Renderers
<1> DEFINE b == [a EXCEPT !.posted = FALSE]
           c == [b EXCEPT !.vsync = TRUE]
<1>2. Alike(a, b) /\ b.armed = a.armed /\ ~b.posted
  BY <1>1 DEF Activities, Alike
<1>3. Alike(a, c)
  BY <1>1 DEF Activities, Alike
<1>4. CASE a.life = "destroyed"
  <2>1. a' = [b EXCEPT !.life = "freed"] /\ Undrawn
    BY <1>4 DEF OnFrame
  <2>2. /\ a' \in Activities /\ ~a'.posted /\ a'.window = a.window /\ a'.armed = a.armed
        /\ a'.finishing = a.finishing /\ a'.resumed = a.resumed
    BY <1>1, <2>1 DEF Activities
  <2>3. ~a.window /\ ~r.alive /\ ~a.armed
    BY <1>4 DEF IInv, OwnersOK, CallbacksOK
  <2>4. TypeOK' /\ OwnersOK' /\ CallersOK' /\ CallbacksOK'
    BY <1>1, <2>1, <2>2, <2>3
    DEF IInv, TypeOK, OwnersOK, CallersOK, CallbacksOK, Undrawn, Elsewhere, Attaching
  <2>5. ImagesOK' /\ HoldsOK'
    BY <2>1, <2>2 DEF IInv, ImagesOK, HoldsOK, Undrawn
  <2>6. QED
    BY <2>4, <2>5 DEF IInv
<1>5. CASE a.life = "live"
  <2>1. Idle
    BY <1>1, <1>5 DEF Idle, Live
  <2>2. CASE a' = b /\ Undrawn
    BY <1>1, <1>2, <2>1, <2>2, CallbackKeeps DEF Undrawn
  <2>3. CASE a' = Scheduled(Armed(c, r.alive)) /\ Undrawn
    <3>1. Alike(c, Armed(c, r.alive)) /\ (Armed(c, r.alive).armed => a.resumed /\ r.alive)
      BY <1>1, <1>3, ArmedFacts DEF Alike
    <3>2. Alike(Armed(c, r.alive), a') /\ a'.armed = Armed(c, r.alive).armed
      BY <1>1, <2>3, <3>1, SettledFacts DEF Alike
    <3>3. Alike(a, a') /\ (a'.armed => a.resumed /\ r.alive)
      BY <1>3, <3>1, <3>2 DEF Alike
    <3>4. QED
      BY <1>1, <2>1, <2>3, <3>3, CallbackKeeps DEF Undrawn
  <2>4. CASE ~a.finishing /\ Wants(a, r.alive) /\ a' = b /\ Draws("frame")
    <3>1. r.alive
      BY <2>4 DEF Wants
    <3>2. QED
      BY <1>2, <2>1, <2>4, <3>1, DrawsKeep DEF DrawCallers
  <2>5. QED
    BY <1>5, <2>2, <2>3, <2>4 DEF OnFrame
<1>6. QED
  BY <1>1, <1>4, <1>5 DEF IInv, CallbacksOK, Activities

LEMMA OnFrameTimerKeeps ==
    ASSUME IInv, OnFrameTimer
    PROVE  IInv'
<1>1. a \in Activities /\ Idle /\ window \in Windows
  BY DEF IInv, TypeOK, OnFrameTimer
<1>2. CASE a' = [a EXCEPT !.armed = FALSE] /\ Undrawn
  <2>1. Alike(a, a') /\ ~a'.armed
    BY <1>1, <1>2 DEF Alike, Activities
  <2>2. QED
    BY <1>1, <1>2, <2>1, CallbackKeeps DEF Undrawn
<1>3. CASE ~a.finishing /\ Wants(a, r.alive) /\ Draws("timer") /\ UNCHANGED a
  <2>1. Alike(a, a') /\ a'.armed = a.armed /\ r.alive
    BY <1>1, <1>3 DEF Alike, Wants
  <2>2. QED
    BY <1>1, <1>3, <2>1, DrawsKeep DEF DrawCallers
<1>4. QED
  BY <1>2, <1>3 DEF OnFrameTimer

(* Returning to rest, with the renderer as it is.                          *)
LEMMA RestsKeep ==
    ASSUME IInv, Elsewhere, main.at \notin {"image", "failed"}, UNCHANGED <<r, device, window>>,
           main' = Resting, Alike(a, a'), a'.armed => a.armed \/ (a.resumed /\ r.alive)
    PROVE  IInv'
<1>1. /\ a' \in Activities /\ a'.life = "live" /\ a'.window = a.window
      /\ a'.resumed = a.resumed /\ a'.finishing = a.finishing
  BY DEF Alike, IInv, OwnersOK
<1>2. TypeOK'
  BY <1>1, ActivityAssumption DEF IInv, TypeOK, Resting, Places, Callers
<1>3. OwnersOK' /\ CallersOK'
  BY <1>1 DEF IInv, OwnersOK, CallersOK, Elsewhere, Attaching, Resting
<1>4. CallbacksOK'
  BY <1>1 DEF IInv, CallbacksOK, Attaching, Resting, Elsewhere
<1>5. ImagesOK' /\ HoldsOK'
  BY <1>1 DEF IInv, ImagesOK, HoldsOK, Resting
<1>6. QED
  BY <1>2, <1>3, <1>4, <1>5 DEF IInv

LEMMA DrawnKeeps ==
    ASSUME IInv, Drawn
    PROVE  IInv'
<1>1. /\ a \in Activities /\ main.at \in {"shown", "deferred"} /\ Elsewhere
      /\ r.alive \in BOOLEAN /\ r.built \in Sizes \cup {NoSize} /\ r.turned \in BOOLEAN
      /\ UNCHANGED <<r, device, window>>
  BY DEF IInv, TypeOK, Drawn, Renderers, Elsewhere
<1> DEFINE b == IF main.at = "shown" THEN Shown ELSE a
<1>2. Alike(a, b) /\ b.armed = a.armed
  <2>1. Alike(a, Shown) /\ Shown.armed = a.armed
    BY <1>1 DEF Shown, Alike, Activities
  <2>2. QED
    BY <1>1, <2>1 DEF Alike
<1> HIDE DEF b
<1>3. CASE main.from = "timer" /\ a' = Settled(Armed(b, r.alive), r.alive) /\ main' = Resting
  <2>1. Alike(b, Armed(b, r.alive)) /\ (Armed(b, r.alive).armed => b.resumed /\ r.alive)
    BY <1>1, <1>2, ArmedFacts DEF Alike
  <2>2. Alike(Armed(b, r.alive), a') /\ a'.armed = Armed(b, r.alive).armed
    BY <1>1, <1>3, <2>1, SettledFacts DEF Alike
  <2>3. Alike(a, a') /\ (a'.armed => a.resumed /\ r.alive)
    BY <1>2, <2>1, <2>2 DEF Alike
  <2>4. QED
    BY <1>1, <1>3, <2>3, RestsKeep
<1>4. CASE main.from = "frame" /\ a' = Settled(b, r.alive) /\ main' = Resting
  <2>1. Alike(b, a') /\ a'.armed = b.armed
    BY <1>1, <1>2, <1>4, SettledFacts DEF Alike
  <2>2. Alike(a, a') /\ a'.armed = a.armed
    BY <1>2, <2>1 DEF Alike
  <2>3. QED
    BY <1>1, <1>4, <2>2, RestsKeep
<1>5. CASE main.from = "redraw" /\ a' = b /\ main' = Resting
  BY <1>1, <1>2, <1>5, RestsKeep
<1>6. CASE /\ main.from = "redraw" /\ a' = b
           /\ \/ main' = [main EXCEPT !.at = "wait"]
              \/ main.tries < Attempts - 1 /\ main' = [main EXCEPT !.at = "prepare", !.tries = @ + 1]
  <2>1. /\ main' \in [at : Places, from : Callers, tries : 0 .. Attempts - 1]
        /\ main'.at \in {"wait", "prepare"} /\ main'.from = "redraw"
    <3>1. /\ main \in [at : Places, from : Callers, tries : 0 .. Attempts - 1]
          /\ {"wait", "prepare"} \subseteq Places
      BY DEF IInv, TypeOK, Places
    <3>2. main.tries < Attempts - 1 => main.tries + 1 \in 0 .. Attempts - 1
      BY <3>1, ActivityAssumption
    <3>3. QED
      BY <1>6, <3>1, <3>2
  <2>2. /\ a' \in Activities /\ a'.window = a.window /\ a'.life = a.life /\ a'.armed = a.armed
        /\ a'.resumed = a.resumed /\ a'.finishing = a.finishing
    BY <1>2, <1>6 DEF Alike
  <2>3. TypeOK'
    BY <1>1, <2>1, <2>2 DEF IInv, TypeOK
  <2>4. OwnersOK' /\ CallersOK'
    BY <1>1, <1>6, <2>1, <2>2 DEF IInv, OwnersOK, CallersOK, Elsewhere, Attaching, DrawCallers
  <2>5. CallbacksOK'
    BY <1>1, <2>1, <2>2 DEF IInv, CallbacksOK, OwnersOK, Attaching, Elsewhere
  <2>6. ImagesOK' /\ HoldsOK'
    BY <1>1, <2>1, <2>2 DEF IInv, ImagesOK, HoldsOK
  <2>7. QED
    BY <2>3, <2>4, <2>5, <2>6 DEF IInv
<1>7. QED
  BY <1>1, <1>3, <1>4, <1>5, <1>6 DEF Drawn, b

LEMMA DrawFailsKeeps ==
    ASSUME IInv, DrawFails
    PROVE  IInv'
<1>1. /\ a \in Activities /\ Elsewhere /\ main.from \in DrawCallers /\ main' = Resting
      /\ UNCHANGED <<r, device, window>> /\ r.alive
      /\ a' = [Fatal(a) EXCEPT !.armed = @ /\ main.from # "timer"]
  BY DEF IInv, TypeOK, CallersOK, DrawFails, Failing, Elsewhere, DrawCallers
<1>2. /\ a' \in Activities /\ a'.life = a.life /\ a'.window = a.window /\ a'.finishing
      /\ a'.resumed = a.resumed /\ a'.posted = a.posted
      /\ a'.armed => a.armed
  BY <1>1 DEF Fatal, Activities
<1>3. TypeOK'
  BY <1>1, <1>2, ActivityAssumption DEF IInv, TypeOK, Resting, Places, Callers
<1>4. OwnersOK' /\ CallersOK' /\ CallbacksOK'
  BY <1>1, <1>2
  DEF IInv, OwnersOK, CallersOK, CallbacksOK, Elsewhere, Attaching, Resting, DrawCallers
<1>5. ImagesOK' /\ HoldsOK'
  BY <1>1, <1>2 DEF IInv, ImagesOK, HoldsOK, Resting
<1>6. QED
  BY <1>3, <1>4, <1>5 DEF IInv

LEMMA AttachedKeeps ==
    ASSUME IInv, Attached
    PROVE  IInv'
<1>1. /\ a \in Activities /\ main.from = "attach" /\ main.at \in {"deferred", "uploaded"}
      /\ UNCHANGED <<r, device, window>> /\ Elsewhere
  BY DEF IInv, TypeOK, Attached, Elsewhere
<1>2. CASE main' = [main EXCEPT !.at = "upload"] /\ UNCHANGED a
  <2>1. /\ main' \in [at : Places, from : Callers, tries : 0 .. Attempts - 1]
        /\ main'.at = "upload" /\ main'.from = "attach"
    BY <1>1, <1>2 DEF IInv, TypeOK, Places
  <2>2. TypeOK'
    BY <1>1, <1>2, <2>1 DEF IInv, TypeOK
  <2>3. OwnersOK' /\ CallersOK' /\ CallbacksOK'
    BY <1>1, <1>2, <2>1
    DEF IInv, OwnersOK, CallersOK, CallbacksOK, Elsewhere, Attaching, DrawCallers
  <2>4. ImagesOK' /\ HoldsOK'
    BY <1>1, <1>2, <2>1 DEF IInv, ImagesOK, HoldsOK
  <2>5. QED
    BY <2>2, <2>3, <2>4 DEF IInv
<1>3. CASE a' = Settled([a EXCEPT !.dirty = TRUE], TRUE) /\ main' = Resting
  <2> DEFINE b == [a EXCEPT !.dirty = TRUE]
  <2>1. Alike(a, b) /\ b.armed = a.armed
    BY <1>1, DirtyFacts
  <2> HIDE DEF b
  <2>2. Alike(b, a') /\ a'.armed = b.armed
    BY <1>3, <2>1, SettledFacts DEF Alike, b
  <2>3. Alike(a, a') /\ a'.armed = a.armed
    BY <2>1, <2>2 DEF Alike
  <2>4. QED
    BY <1>1, <1>3, <2>3, RestsKeep
<1>4. QED
  BY <1>2, <1>3 DEF Attached

LEMMA AttachFailsKeeps ==
    ASSUME IInv, AttachFails
    PROVE  IInv'
<1>1. /\ a \in Activities /\ Attaching /\ window \in Windows /\ UNCHANGED window
      /\ r' = NoRenderer /\ device' = Quiet /\ main' = Resting /\ a' = Fatal(a)
  BY DEF IInv, TypeOK, AttachFails, Attaching, Failing, Elsewhere
<1>2. /\ a' \in Activities /\ a'.life = a.life /\ a'.window = a.window
      /\ a'.armed = a.armed /\ a'.posted = a.posted
  BY <1>1 DEF Fatal, Activities
<1>3. QED
  BY <1>1, <1>2, GivesUpKeeps DEF IInv, OwnersOK, CallbacksOK

LEMMA PaperedKeeps ==
    ASSUME IInv, Papered
    PROVE  IInv'
<1>1. /\ a \in Activities /\ main.at \in {"upload", "uploaded"} /\ Elsewhere
      /\ r.alive \in BOOLEAN /\ UNCHANGED <<r, device, window>> /\ main' = Resting
  BY DEF IInv, TypeOK, Papered, Renderers, Elsewhere
<1>2. PICK b \in {a, [a EXCEPT !.dirty = TRUE]} : a' = Settled(Armed(b, r.alive), r.alive)
  BY DEF Papered
<1>3. Alike(a, b)
  BY <1>1, <1>2, DirtyFacts DEF Alike
<1>4. Alike(b, Armed(b, r.alive)) /\ (Armed(b, r.alive).armed => a.resumed /\ r.alive)
  BY <1>1, <1>3, ArmedFacts DEF Alike
<1>5. Alike(Armed(b, r.alive), a') /\ a'.armed = Armed(b, r.alive).armed
  BY <1>1, <1>2, <1>4, SettledFacts DEF Alike
<1>6. Alike(a, a') /\ (a'.armed => a.resumed /\ r.alive)
  BY <1>3, <1>4, <1>5 DEF Alike
<1>7. QED
  BY <1>1, <1>6, RestsKeep
-------------------------------------------------------------------------------
(* The renderer's steps.                                                   *)

(* A step that goes on for the same caller.                                *)
LEMMA GoesOn ==
    ASSUME IInv, NEW at \in Places, At(at)
    PROVE  /\ main' \in [at : Places, from : Callers, tries : 0 .. Attempts - 1]
           /\ main'.at = at /\ main'.from = main.from
  BY DEF IInv, TypeOK, At

(* Before an image is acquired only the renderer's own state changes.      *)
LEMMA PreparesKeep ==
    ASSUME IInv, CreatesContext \/ CreatesPipelines \/ CreatesFont \/ Unsized \/ Prepared \/ Outdated
                 \/ CreatesTargets \/ TargetsLater \/ BeginDeferred \/ AcquiresLater,
           UNCHANGED a
    PROVE  IInv'
<1> USE DEF CreatesContext, CreatesPipelines, CreatesFont, Unsized, Prepared, Outdated,
            CreatesTargets, TargetsLater, BeginDeferred, AcquiresLater, Ends
<1>1. UNCHANGED <<device, window, a>> /\ r \in Renderers /\ window \in Windows
  BY DEF IInv, TypeOK
<1>2. PICK at \in {"pipelines", "font", "prepare", "retire", "deferred", "begin"} : At(at)
  OBVIOUS
<1>3. /\ main' \in [at : Places, from : Callers, tries : 0 .. Attempts - 1]
      /\ main'.at = at /\ main'.from = main.from
  BY <1>2, GoesOn DEF Places
<1>4. /\ r' \in Renderers /\ r'.pending = r.pending /\ r'.index = r.index
      /\ r'.alive
      /\ at \in {"pipelines", "font", "prepare", "retire"} => r'.ready = r.ready
  <2>1. CASE CreatesContext
    BY <1>1, <2>1 DEF Renderers
  <2>2. CASE CreatesPipelines \/ CreatesFont \/ TargetsLater
    BY <1>1, <2>2 DEF Renderers, IInv, CallersOK, Elsewhere
  <2>3. main.at \in {"prepare", "create", "begin"} => r.alive
    BY DEF IInv, CallersOK, Elsewhere
  <2>4. CASE Unsized \/ BeginDeferred \/ AcquiresLater
    BY <1>1, <1>2, <1>3, <2>3, <2>4, ZenonT(20) DEF Renderers, At
  <2>5. CASE Prepared \/ Outdated
    <3>1. /\ \/ r' = [r EXCEPT !.observed = window.size]
             \/ r' = [r EXCEPT !.built = window.cached, !.turned = window.turned]
          /\ main.at = "prepare"
      BY <2>5
    <3>2. window.size \in Sizes /\ window.cached \in Sizes /\ window.turned \in BOOLEAN
      BY <1>1 DEF Windows
    <3>3. r' \in Renderers /\ r'.pending = r.pending /\ r'.index = r.index /\ r'.alive = r.alive
          /\ r'.ready = r.ready
      BY <1>1, <3>1, <3>2 DEF Renderers
    <3>4. QED
      BY <2>3, <3>1, <3>3
  <2>6. CASE CreatesTargets
    BY <1>1, <1>2, <1>3, <2>3, <2>6 DEF Renderers, Windows, At
  <2>7. QED
    BY <2>1, <2>2, <2>4, <2>5, <2>6
<1>5. /\ main.at \in {"context", "pipelines", "font", "prepare", "create", "begin"}
      /\ at = "begin" => main.from \in DrawCallers
      /\ at \in {"pipelines", "font", "prepare"} => main.at \in {"context", "pipelines", "font"}
      /\ at = "retire" => main.at = "prepare"
  BY <1>2, <1>3 DEF IInv, CallersOK, Current, Attaching, Elsewhere, At, DrawCallers
<1> USE DEF Elsewhere, Attaching, DrawCallers
<1>6. TypeOK'
  BY <1>1, <1>3, <1>4 DEF IInv, TypeOK
<1>7. OwnersOK'
  BY <1>1, <1>3, <1>4, <1>5 DEF IInv, OwnersOK
<1>8. CallersOK'
  BY <1>1, <1>3, <1>4, <1>5 DEF IInv, CallersOK
<1>9. CallbacksOK'
  BY <1>1, <1>3, <1>4, <1>5 DEF IInv, CallbacksOK
<1>10. ImagesOK' /\ HoldsOK'
  BY <1>1, <1>3, <1>4, <1>5 DEF IInv, ImagesOK, HoldsOK
<1>11. QED
  BY <1>6, <1>7, <1>8, <1>9, <1>10 DEF IInv

(* What an image shows, its fence is waited for by who presents it again.  *)
LEMMA NothingShown ==
    ASSUME IInv, ~device.stale, NEW i \in Images, PresentDone(i)
    PROVE  device.shows[i] = {}
  BY DEF IInv, ImagesOK, PresentDone

(* destroy_targets() and set_overlay_image() wait for all there is.        *)
LEMMA WaitsKeep ==
    ASSUME IInv, Retires \/ Uploads \/ WaitsFrame, UNCHANGED a
    PROVE  IInv'
<1> USE DEF Elsewhere, Attaching, DrawCallers
<1>1. r \in Renderers /\ device \in Devices /\ a \in Activities
  BY DEF IInv, TypeOK
<1>2. CASE Retires
  <2>1. /\ main.at = "retire" /\ At("create") /\ UNCHANGED <<window, a>> /\ r.alive
        /\ r' = [Rested EXCEPT !.ready = FALSE, !.images = FALSE]
        /\ device' = [device EXCEPT !.shows = Quiet.shows, !.held = {}, !.fence = Quiet.fence]
    BY <1>2 DEF Retires, IInv, CallersOK
  <2>2. /\ main' \in [at : Places, from : Callers, tries : 0 .. Attempts - 1]
        /\ main'.at = "create" /\ main'.from = main.from
    BY <2>1, GoesOn DEF Places
  <2>3. r' \in Renderers /\ r'.alive /\ ~r'.ready /\ r'.index = r.index
    BY <1>1, <2>1 DEF Renderers, Rested, Unpresented, IInv, TypeOK, Windows
  <2>4. /\ device' \in Devices /\ device'.held = {} /\ device'.stale = device.stale
        /\ device'.busy = device.busy /\ device'.acquire = device.acquire
        /\ device'.shows = Quiet.shows /\ device'.fence = Quiet.fence
    BY <1>1, <2>1, NothingTyped DEF Devices
  <2>5. device = Quiet => device' = Quiet
    <3>1. device = Quiet => device.shows = Quiet.shows /\ device.held = {} /\ device.fence = Quiet.fence
      BY DEF Quiet
    <3>2. device = [device EXCEPT !.shows = device.shows, !.held = device.held, !.fence = device.fence]
      BY <1>1 DEF Devices
    <3>3. QED
      BY <2>1, <3>1, <3>2
  <2>6. TypeOK'
    BY <2>1, <2>2, <2>3, <2>4 DEF IInv, TypeOK
  <2>7. OwnersOK' /\ CallersOK' /\ CallbacksOK'
    BY <2>1, <2>2, <2>3, <2>5 DEF IInv, OwnersOK, CallersOK, CallbacksOK
  <2>8. ImagesOK' /\ HoldsOK'
    BY <2>1, <2>2, <2>3, <2>4 DEF IInv, ImagesOK, HoldsOK, Quiet
  <2>9. QED
    BY <2>6, <2>7, <2>8 DEF IInv
<1>3. CASE Uploads
  <2>1. /\ main.at = "upload" /\ WorkDone /\ r' = Rested /\ At("uploaded")
        /\ UNCHANGED <<device, window, a>> /\ r.alive
    BY <1>3 DEF Uploads, Ends, IInv, CallersOK
  <2>2. /\ main' \in [at : Places, from : Callers, tries : 0 .. Attempts - 1]
        /\ main'.at = "uploaded" /\ main'.from = main.from
    BY <2>1, GoesOn DEF Places
  <2>3. r' \in Renderers /\ r'.alive /\ r'.index = r.index
    BY <1>1, <2>1 DEF Renderers, Rested, Unpresented
  <2>4. ~device.stale => \A i \in Images : device.shows[i] = {}
    BY <2>1, NothingShown DEF WorkDone
  <2>5. TypeOK' /\ OwnersOK' /\ CallersOK' /\ CallbacksOK'
    BY <2>1, <2>2, <2>3 DEF IInv, TypeOK, OwnersOK, CallersOK, CallbacksOK
  <2>6. ImagesOK' /\ HoldsOK'
    BY <2>1, <2>2, <2>3, <2>4 DEF IInv, ImagesOK, HoldsOK
  <2>7. QED
    BY <2>5, <2>6 DEF IInv
<1>4. CASE WaitsFrame
  <2>1. main.at = "wait" /\ main' = Resting /\ UNCHANGED <<r, device, window>> /\ Alike(a, a')
    BY <1>1, <1>4 DEF WaitsFrame, Alike
  <2>2. QED
    BY <2>1, RestsKeep
<1>5. QED
  BY <1>2, <1>3, <1>4

(* begin_frame() acquires an image for a frame that nothing uses.          *)
LEMMA AcquiresKeeps ==
    ASSUME IInv, NEW i \in Images, Acquires(i), UNCHANGED a
    PROVE  IInv'
<1> USE DEF Elsewhere, Attaching, DrawCallers
<1>1. /\ main.at = "begin" /\ At("image") /\ UNCHANGED <<r, window, a>>
      /\ device' = [device EXCEPT !.acquire[r.index] = i, !.held = @ \cup {i}]
      /\ r \in Renderers /\ device \in Devices
      /\ ~a.finishing
  BY DEF Acquires, IInv, TypeOK, CallersOK
<1>2. /\ main' \in [at : Places, from : Callers, tries : 0 .. Attempts - 1]
      /\ main'.at = "image" /\ main'.from = main.from
  BY <1>1, GoesOn DEF Places
<1>3. device.held = {}
  BY <1>1 DEF IInv, HoldsOK
<1>4. /\ device' \in Devices /\ device'.held = {i} /\ device'.stale = device.stale
      /\ device'.busy = device.busy /\ device'.shows = device.shows
      /\ device'.fence = device.fence
      /\ \A f \in Frames \ {r.index} : device'.acquire[f] = device.acquire[f]
  BY <1>1, <1>3 DEF Devices, Renderers
<1>5. TypeOK' /\ OwnersOK' /\ CallersOK' /\ CallbacksOK'
  BY <1>1, <1>2, <1>4 DEF IInv, TypeOK, OwnersOK, CallersOK, CallbacksOK
<1>6. ImagesOK'
  BY <1>1, <1>4 DEF IInv, ImagesOK
<1>7. HoldsOK'
  BY <1>1, <1>2, <1>4 DEF IInv, HoldsOK
<1>8. QED
  BY <1>5, <1>6, <1>7 DEF IInv

(* present(): the frame is submitted, whatever becomes of its presentation. *)
LEMMA PresentsKeeps ==
    ASSUME IInv, Presents \/ PresentFails, UNCHANGED a
    PROVE  IInv'
<1> USE DEF Elsewhere, Attaching, DrawCallers
<1>1. /\ main.at = "image" /\ PresentDone(Image) /\ UNCHANGED a /\ r.alive
      /\ main.from \in DrawCallers /\ ~a.finishing
      /\ r \in Renderers /\ device \in Devices /\ window \in Windows
  BY DEF Presents, PresentFails, IInv, TypeOK, CallersOK
<1>2. device.held = {Image} /\ Image \in Images
  BY <1>1 DEF IInv, HoldsOK, Image
<1> DEFINE image == Image
           left == FenceLeft
<1>3. /\ window' \in Windows
      /\ main' \in [at : Places, from : Callers, tries : 0 .. Attempts - 1]
      /\ main'.at \in {"deferred", "shown", "failed"} /\ main'.from = main.from
  <2>1. CASE Presents
    <3>1. PICK at \in {"deferred", "shown"} : At(at)
      BY <2>1 DEF Presents
    <3>2. window' = [window EXCEPT !.cached = window.size]
      BY <2>1 DEF Presents
    <3>3. window' \in Windows
      BY <1>1, <3>2 DEF Windows
    <3>4. /\ main' \in [at : Places, from : Callers, tries : 0 .. Attempts - 1]
          /\ main'.at = at /\ main'.from = main.from
      BY <3>1, GoesOn DEF Places
    <3>5. QED
      BY <3>1, <3>3, <3>4
  <2>2. CASE PresentFails
    <3>1. main' = [main EXCEPT !.at = "failed", !.tries = 0] /\ UNCHANGED window
      BY <2>2 DEF PresentFails
    <3>2. main \in [at : Places, from : Callers, tries : 0 .. Attempts - 1] /\ "failed" \in Places
      BY DEF IInv, TypeOK, Places
    <3>3. 0 \in 0 .. Attempts - 1
      BY ActivityAssumption
    <3>4. QED
      BY <1>1, <3>1, <3>2, <3>3
  <2>3. QED
    BY <2>1, <2>2
<1>4. /\ left \in BOOLEAN /\ image \in Images /\ device.held = {image}
      /\ ~device.stale => device.shows[image] = {}
  BY <1>1, <1>2, NothingShown DEF FenceLeft
<1>5. Submitted \in Renderers /\ Submitted.alive /\ Submitted.pending = r.pending
  BY <1>1, FramesTyped DEF Submitted, Renderers
<1>6. PICK pending \in BOOLEAN, recreate \in BOOLEAN :
         /\ r' = [Submitted EXCEPT !.pending[image] = pending, !.recreate = recreate]
         /\ \/ /\ pending
               /\ device' = [device EXCEPT !.busy[r.index] = TRUE, !.held = @ \ {image},
                                          !.shows[image] = @ \cup {r.index},
                                          !.fence[image] = left, !.stale = @ \/ left]
            \/ /\ main'.at = "failed"
               /\ device' = [device EXCEPT !.busy[r.index] = TRUE, !.fence[image] = left]
  <2>1. \A set \in BOOLEAN : [Submitted EXCEPT !.pending[image] = set]
            = [Submitted EXCEPT !.pending[image] = set, !.recreate = Submitted.recreate]
    BY <1>5 DEF Renderers
  <2>2. Submitted.recreate \in BOOLEAN
    BY <1>5 DEF Renderers
  <2>3. CASE Presents
    <3>1. PICK outOfDate \in {FALSE, ~window.steady} :
            r' = [Submitted EXCEPT !.pending[image] = TRUE,
                     !.recreate = outOfDate \/ window.size # r.built \/ window.size # r.observed]
      BY <2>3 DEF Presents
    <3>2. (outOfDate \/ window.size # r.built \/ window.size # r.observed) \in BOOLEAN
      BY <1>1 DEF Windows
    <3>3. QED
      BY <2>3, <3>1, <3>2 DEF Presents, Queues
  <2>4. CASE PresentFails
    <3>1. main'.at = "failed"
      BY <2>4 DEF PresentFails, IInv, TypeOK
    <3>2. CASE device' = Queues /\ r' = [Submitted EXCEPT !.pending[Image] = TRUE]
      BY <2>1, <2>2, <3>2 DEF Queues
    <3>3. CASE /\ device' = [device EXCEPT !.busy[r.index] = TRUE, !.fence[Image] = FenceLeft]
               /\ r' = [Submitted EXCEPT !.pending[Image] = FALSE]
      BY <2>1, <2>2, <3>1, <3>3
    <3>4. QED
      BY <2>4, <3>2, <3>3 DEF PresentFails
  <2>5. QED
    BY <2>3, <2>4
<1> HIDE DEF image, left
<1>7. r.index \in Frames
  BY <1>1 DEF Renderers
<1>8. /\ r' \in Renderers /\ r'.alive /\ r'.pending[image] = pending
      /\ \A i \in Images \ {image} : r'.pending[i] = r.pending[i]
  BY <1>4, <1>5, <1>6 DEF Renderers
<1> DEFINE kept ==
             /\ device' \in Devices /\ device'.acquire = device.acquire /\ device'.busy[r.index]
             /\ \A f \in Frames : device.busy[f] => device'.busy[f]
             /\ device'.fence[image] = left
             /\ \A i \in Images \ {image} : /\ device'.shows[i] = device.shows[i]
                                            /\ device'.fence[i] = device.fence[i]
           queued ==
             /\ pending /\ device'.shows[image] = device.shows[image] \cup {r.index}
             /\ device'.held = {}
             /\ ~device'.stale => ~device.stale /\ ~left
           unqueued ==
             /\ main'.at = "failed" /\ device'.shows[image] = device.shows[image]
             /\ device'.stale = device.stale
<1>9. kept
  <2>1. CASE device' = [device EXCEPT !.busy[r.index] = TRUE, !.fence[image] = left]
    BY <1>1, <1>4, <1>7, <2>1 DEF Devices
  <2>2. CASE device' = [device EXCEPT !.busy[r.index] = TRUE, !.held = @ \ {image},
                                      !.shows[image] = @ \cup {r.index},
                                      !.fence[image] = left, !.stale = @ \/ left]
    BY <1>1, <1>4, <1>7, <2>2, ZenonT(20) DEF Devices
  <2>3. QED
    BY <1>6, <2>1, <2>2
<1>10. queued \/ unqueued
  <2>1. CASE /\ main'.at = "failed"
             /\ device' = [device EXCEPT !.busy[r.index] = TRUE, !.fence[image] = left]
    BY <1>1, <1>4, <1>7, <2>1 DEF Devices
  <2>2. CASE /\ pending
             /\ device' = [device EXCEPT !.busy[r.index] = TRUE, !.held = @ \ {image},
                                        !.shows[image] = @ \cup {r.index},
                                        !.fence[image] = left, !.stale = @ \/ left]
    BY <1>1, <1>4, <1>7, <2>2 DEF Devices
  <2>3. QED
    BY <1>6, <2>1, <2>2
<1>11. ~device'.stale => /\ device'.shows[image] # {} => r'.pending[image] /\ ~device'.fence[image]
                         /\ \A x, y \in device'.shows[image] : x = y
  BY <1>4, <1>8, <1>9, <1>10
<1>12. TypeOK'
  BY <1>1, <1>3, <1>8, <1>9 DEF IInv, TypeOK
<1>13. OwnersOK' /\ CallersOK' /\ CallbacksOK'
  BY <1>1, <1>3, <1>8 DEF IInv, OwnersOK, CallersOK, CallbacksOK
<1>14. ImagesOK'
  BY <1>8, <1>9, <1>10, <1>11 DEF IInv, ImagesOK
<1>15. HoldsOK'
  BY <1>1, <1>3, <1>9, <1>10 DEF IInv, HoldsOK
<1>16. QED
  BY <1>12, <1>13, <1>14, <1>15 DEF IInv
-------------------------------------------------------------------------------
(* The GPU, the display and the window.                                    *)

LEMMA ExecutesKeeps ==
    ASSUME IInv, NEW f \in Frames, Executes(f), UNCHANGED a
    PROVE  IInv'
<1> USE DEF Elsewhere, Attaching
<1>1. /\ device.busy[f] /\ device \in Devices /\ UNCHANGED <<r, window, main, a>>
      /\ device' = [device EXCEPT
             !.busy[f] = FALSE, !.acquire[f] = "none",
             !.shows = [i \in Images |-> IF f \in @[i] THEN (@[i] \ {f}) \cup {OnDisplay} ELSE @[i]]]
  BY DEF Executes, IInv, TypeOK
<1>2. device # Quiet
  BY <1>1 DEF Quiet
<1>3. /\ device' \in Devices /\ device'.held = device.held /\ device'.stale = device.stale
      /\ device'.fence = device.fence /\ device'.acquire[f] = "none"
      /\ \A g \in Frames \ {f} : /\ device'.busy[g] = device.busy[g]
                                 /\ device'.acquire[g] = device.acquire[g]
  BY <1>1 DEF Devices
<1>4. \A i \in Images :
         device'.shows[i] = IF f \in device.shows[i] THEN (device.shows[i] \ {f}) \cup {OnDisplay}
                                                    ELSE device.shows[i]
  BY <1>1 DEF Devices
<1>5. TypeOK' /\ CallbacksOK'
  BY <1>1, <1>3 DEF IInv, TypeOK, CallbacksOK
<1>6. OwnersOK' /\ CallersOK'
  BY <1>1, <1>2 DEF IInv, OwnersOK, CallersOK
<1>7. ImagesOK'
  BY <1>1, <1>3, <1>4 DEF IInv, ImagesOK
<1>8. HoldsOK'
  BY <1>1, <1>3 DEF IInv, HoldsOK
<1>9. QED
  BY <1>5, <1>6, <1>7, <1>8 DEF IInv

LEMMA ReleasesKeeps ==
    ASSUME IInv, NEW i \in Images, Releases(i), UNCHANGED a
    PROVE  IInv'
<1> USE DEF Elsewhere, Attaching
<1>1. /\ OnDisplay \in device.shows[i] /\ device \in Devices /\ UNCHANGED <<r, window, main, a>>
      /\ device' = [device EXCEPT !.shows[i] = @ \ {OnDisplay}, !.fence[i] = TRUE]
  BY DEF Releases, IInv, TypeOK
<1>2. device # Quiet
  BY <1>1 DEF Quiet
<1>3. /\ device' \in Devices /\ device'.held = device.held /\ device'.stale = device.stale
      /\ device'.busy = device.busy /\ device'.acquire = device.acquire
      /\ device'.shows[i] = device.shows[i] \ {OnDisplay}
      /\ \A j \in Images \ {i} : /\ device'.shows[j] = device.shows[j]
                                 /\ device'.fence[j] = device.fence[j]
  BY <1>1 DEF Devices
<1>4. TypeOK' /\ CallbacksOK'
  BY <1>1, <1>3 DEF IInv, TypeOK, CallbacksOK
<1>5. OwnersOK' /\ CallersOK'
  BY <1>1, <1>2 DEF IInv, OwnersOK, CallersOK
<1>6. ImagesOK'
  BY <1>1, <1>3 DEF IInv, ImagesOK
<1>7. HoldsOK'
  BY <1>1, <1>3 DEF IInv, HoldsOK
<1>8. QED
  BY <1>4, <1>5, <1>6, <1>7 DEF IInv

LEMMA HardwareKeeps ==
    ASSUME IInv, Hardware
    PROVE  IInv'
<1>1. CASE \E f \in Frames : Executes(f)
  BY <1>1, ExecutesKeeps DEF Hardware
<1>2. CASE \E i \in Images : Releases(i)
  BY <1>2, ReleasesKeeps DEF Hardware
<1>3. CASE Resizes \/ Steadies
  <2>1. UNCHANGED <<r, device, main, a>> /\ window' \in Windows
    BY <1>3 DEF Hardware, Resizes, Steadies, IInv, TypeOK, Windows
  <2>2. TypeOK' /\ OwnersOK' /\ CallersOK' /\ CallbacksOK'
    BY <2>1 DEF IInv, TypeOK, OwnersOK, CallersOK, CallbacksOK, Elsewhere, Attaching
  <2>3. ImagesOK' /\ HoldsOK'
    BY <2>1 DEF IInv, ImagesOK, HoldsOK
  <2>4. QED
    BY <2>2, <2>3 DEF IInv
<1>4. QED
  BY <1>1, <1>2, <1>3 DEF Hardware
-------------------------------------------------------------------------------
(* The theorems.                                                           *)

LEMMA InitHolds == Init => IInv
<1> SUFFICES ASSUME Init PROVE IInv
  OBVIOUS
<1>1. /\ r = NoRenderer /\ device = Quiet /\ window = FreshWindow /\ main = Resting /\ a = Launched
  BY DEF Init
<1>2. TypeOK
  BY <1>1, FreshTyped, NothingTyped, ActivityAssumption
  DEF TypeOK, Resting, Places, Callers, Launched, Activities
<1>3. OwnersOK /\ CallersOK /\ CallbacksOK
  BY <1>1 DEF OwnersOK, CallersOK, CallbacksOK, Elsewhere, Attaching, Resting, Launched, NoRenderer
<1>4. ImagesOK /\ HoldsOK
  BY <1>1 DEF ImagesOK, HoldsOK, Quiet, Resting
<1>5. QED
  BY <1>2, <1>3, <1>4 DEF IInv

LEMMA NextHolds == IInv /\ [Next]_vars => IInv'
<1> SUFFICES ASSUME IInv, [Next]_vars PROVE IInv'
  OBVIOUS
<1>1. CASE Renders
  BY <1>1, PreparesKeep, WaitsKeep, AcquiresKeeps, PresentsKeeps DEF Renders
<1>2. CASE Hardware
  BY <1>2, HardwareKeeps
<1>3. CASE Drawn \/ DrawFails \/ Attached \/ AttachFails \/ Papered
  BY <1>3, DrawnKeeps, DrawFailsKeeps, AttachedKeeps, AttachFailsKeeps, PaperedKeeps
<1>4. CASE \/ Input \/ InputDestroyed \/ SessionEvent \/ ContentChanged
           \/ ConfigurationChanged \/ WindowResized \/ Tick
  BY <1>4, MarksKeep, LosesKeeps
<1>5. CASE Start \/ Stop \/ Resume \/ Pause
  BY <1>5, LifecycleKeeps
<1>6. CASE Redraw \/ Wallpaper \/ WindowCreated \/ WindowDestroyed
  BY <1>6, RedrawKeeps, WallpaperKeeps, CreatedKeeps, DestroyedKeeps
<1>7. CASE Destroy \/ Aborts \/ Launch
  BY <1>7, EndsKeep
<1>8. CASE OnFrame \/ OnFrameTimer
  BY <1>8, OnFrameKeeps, OnFrameTimerKeeps
<1>9. CASE OnFrameEmpty \/ UNCHANGED vars
  BY <1>9 DEF OnFrameEmpty, vars, IInv, TypeOK, OwnersOK, CallersOK, CallbacksOK, ImagesOK, HoldsOK,
              Elsewhere, Attaching
<1>10. QED
  BY <1>1, <1>2, <1>3, <1>4, <1>5, <1>6, <1>7, <1>8, <1>9 DEF Next, Acts

LEMMA InvariantHolds == Spec => []IInv
  BY InitHolds, NextHolds, PTL DEF Spec

(* Every field keeps its type: the index of the frame never leaves the     *)
(* frames, nor the attempts of redraw() what there may be.                 *)
THEOREM TypesKept == Spec => []TypeOK
<1>1. IInv => TypeOK
  BY DEF IInv
<1>2. QED
  BY <1>1, InvariantHolds, PTL

(* No slot stays armed for an Activity that is paused or has no renderer,  *)
(* and what a callback points to is not freed before it came.              *)
THEOREM CallbacksStayOwned == Spec => []CallbacksOwned
<1>1. IInv => CallbacksOwned
  BY DEF IInv, CallbacksOK, CallbacksOwned, TypeOK, Activities, Renderers
<1>2. QED
  BY <1>1, InvariantHolds, PTL

(* What uses an image when everything was waited for: nothing.             *)
LEMMA WorkDoneReleases ==
    ASSUME IInv, ~device.stale, WorkDone
    PROVE  Unused
<1>1. \A i \in Images : device.shows[i] = {}
  BY NothingShown DEF WorkDone
<1>2. device \in Devices
  BY DEF IInv, TypeOK
<1>3. QED
  BY <1>1, <1>2 DEF WorkDone, FrameDone, AcquisitionDone, Unused, Devices
(* Which steps may take the images of a renderer: these four.              *)
LEMMA ImagesTakenBy ==
    ASSUME IInv, [Next]_vars, r.images, ~r'.images
    PROVE  Retires \/ WindowDestroyed \/ AttachFails \/ Aborts
<1>1. r \in Renderers
  BY DEF IInv, TypeOK
<1>2. CASE Renders
  <2>1. r'.images = r.images \/ r'.images \/ Retires
    BY <1>1, <1>2
    DEF Renders, Renderers, CreatesContext, CreatesPipelines, CreatesFont, Unsized, Prepared, Outdated,
        CreatesTargets, TargetsLater, BeginDeferred, AcquiresLater, Uploads, Rested, WaitsFrame, Acquires,
        Presents, PresentFails, Submitted, Ends
  <2>2. QED
    BY <2>1
<1>3. CASE Hardware
  BY <1>3 DEF Hardware, Executes, Releases, Resizes, Steadies
<1>4. CASE Drawn \/ DrawFails \/ Attached \/ Papered \/ WindowCreated
  BY <1>4 DEF Drawn, DrawFails, Attached, Papered, WindowCreated
<1>5. CASE \/ Input \/ InputDestroyed \/ SessionEvent \/ ContentChanged
           \/ ConfigurationChanged \/ WindowResized \/ Tick \/ Start \/ Stop \/ Resume \/ Pause
           \/ Destroy
  BY <1>5 DEF Input, InputDestroyed, SessionEvent, ContentChanged, ConfigurationChanged,
              WindowResized, Tick, Start, Stop, Resume, Pause, Destroy, Undrawn
<1>6. CASE Redraw \/ Wallpaper \/ Launch \/ OnFrame \/ OnFrameTimer \/ OnFrameEmpty \/ UNCHANGED vars
  BY <1>6 DEF Redraw, Wallpaper, Launch, OnFrame, OnFrameTimer, OnFrameEmpty, Draws, Undrawn, vars
<1>7. QED
  BY <1>2, <1>3, <1>4, <1>5, <1>6 DEF Next, Acts

(* The targets are destroyed, by whichever of its ways, only when neither  *)
(* the GPU nor the display uses them, as long as no fence was handed over  *)
(* signalled.                                                              *)
THEOREM TargetsReleased == Spec => ReleasedWhenIdle
<1>1. ASSUME IInv, [Next]_vars, r.images, ~r'.images, a'.life = "live", ~device.stale
      PROVE  Unused
  <2>1. CASE Retires \/ WindowDestroyed
    BY <1>1, <2>1, WorkDoneReleases DEF Retires, WindowDestroyed
  <2>2. CASE AttachFails
    <3>1. device = Quiet
      BY <1>1, <2>2 DEF IInv, CallersOK, AttachFails, Failing, Attaching, Elsewhere
    <3>2. QED
      BY <3>1 DEF Unused, Quiet
  <2>3. CASE Aborts
    BY <1>1, <2>3 DEF Aborts, Launched
  <2>4. QED
    BY <1>1, <2>1, <2>2, <2>3, ImagesTakenBy
<1>2. IInv /\ [Next]_vars => [r.images /\ ~r'.images /\ a'.life = "live" /\ ~device.stale => Unused]_vars
  BY <1>1
<1>3. QED
  BY <1>2, InvariantHolds, PTL DEF Spec, ReleasedWhenIdle

(* Which steps leave the place where an image was acquired for the next    *)
(* frame: a presentation does, or a failure.                               *)
LEMMA ImageLeftBy ==
    ASSUME IInv, [Next]_vars, main.at = "image", r'.index # r.index
    PROVE  Presents \/ PresentFails \/ Aborts
<1>1. r \in Renderers /\ main.from \in DrawCallers
  BY DEF IInv, TypeOK, CallersOK
<1>2. CASE Renders
  BY <1>2
  DEF Renders, CreatesContext, CreatesPipelines, CreatesFont, Unsized, Prepared, Outdated, Retires,
      CreatesTargets, TargetsLater, BeginDeferred, AcquiresLater, Uploads, WaitsFrame, Acquires
<1>3. CASE Hardware
  BY <1>3 DEF Hardware, Executes, Releases, Resizes, Steadies
<1>4. CASE Drawn \/ DrawFails \/ Attached \/ AttachFails \/ Papered
  BY <1>1, <1>4 DEF Drawn, DrawFails, Attached, AttachFails, Papered, DrawCallers
<1>5. CASE \/ Input \/ InputDestroyed \/ SessionEvent \/ ContentChanged
           \/ ConfigurationChanged \/ WindowResized \/ Tick \/ Start \/ Stop \/ Resume \/ Pause
           \/ Destroy
  BY <1>5 DEF Input, InputDestroyed, SessionEvent, ContentChanged, ConfigurationChanged,
              WindowResized, Tick, Start, Stop, Resume, Pause, Destroy, Idle
<1>6. CASE \/ Redraw \/ Wallpaper \/ WindowCreated \/ WindowDestroyed \/ Launch
           \/ OnFrame \/ OnFrameTimer \/ OnFrameEmpty \/ UNCHANGED vars
  BY <1>6 DEF Redraw, Wallpaper, WindowCreated, WindowDestroyed, Launch, OnFrame, OnFrameTimer,
              OnFrameEmpty, Idle, vars
<1>7. QED
  BY <1>2, <1>3, <1>4, <1>5, <1>6 DEF Next, Acts

(* Only begin_frame() goes from its place to where it has an image.        *)
LEMMA ImageComesBy ==
    ASSUME IInv, [Next]_vars, main.at = "begin", main'.at = "image"
    PROVE  \E i \in Images : Acquires(i)
<1>1. main.from \in DrawCallers /\ DOMAIN main = {"at", "from", "tries"}
  BY DEF IInv, TypeOK, CallersOK
<1>2. CASE Renders
  BY <1>1, <1>2
  DEF Renders, CreatesContext, CreatesPipelines, CreatesFont, Unsized, Prepared, Outdated, Retires, CreatesTargets,
      TargetsLater, BeginDeferred, AcquiresLater, Uploads, WaitsFrame, Presents, PresentFails, Ends, At
<1>3. CASE Hardware
  BY <1>3 DEF Hardware, Executes, Releases, Resizes, Steadies
<1>4. CASE Drawn \/ DrawFails \/ Attached \/ AttachFails \/ Papered \/ Aborts
  BY <1>1, <1>4 DEF Drawn, DrawFails, Attached, AttachFails, Papered, Aborts, DrawCallers, Resting
<1>5. CASE \/ Input \/ InputDestroyed \/ SessionEvent \/ ContentChanged
           \/ ConfigurationChanged \/ WindowResized \/ Tick \/ Start \/ Stop \/ Resume \/ Pause
           \/ Destroy
  BY <1>5 DEF Input, InputDestroyed, SessionEvent, ContentChanged, ConfigurationChanged,
              WindowResized, Tick, Start, Stop, Resume, Pause, Destroy, Idle
<1>6. CASE \/ Redraw \/ Wallpaper \/ WindowCreated \/ WindowDestroyed \/ Launch
           \/ OnFrame \/ OnFrameTimer \/ OnFrameEmpty \/ UNCHANGED vars
  BY <1>6 DEF Redraw, Wallpaper, WindowCreated, WindowDestroyed, Launch, OnFrame, OnFrameTimer,
              OnFrameEmpty, Idle, vars
<1>7. QED
  BY <1>2, <1>3, <1>4, <1>5, <1>6 DEF Next, Acts

(* Until something fails, the frame that an image is acquired for is used  *)
(* by nothing, and an image that is drawn on is presented by nothing.      *)
THEOREM FramesStayAlone == Spec => FramesAlone
<1> DEFINE AcquiredAlone == main.at = "begin" /\ main'.at = "image" =>
                          ~device.busy[r.index] /\ device.acquire[r.index] = "none"
           DrawnAlone == main.at = "image" /\ main'.at # "image" /\ r'.index # r.index =>
                       device.shows[Image] = {} /\ Cardinality(device.held) = 1
<1>1. ASSUME IInv, [Next]_vars, ~device.stale, ~a.finishing
      PROVE  AcquiredAlone
  <2> SUFFICES ASSUME main.at = "begin", main'.at = "image"
               PROVE  ~device.busy[r.index] /\ device.acquire[r.index] = "none"
    OBVIOUS
  <2>1. PICK i \in Images : Acquires(i)
    BY <1>1, ImageComesBy
  <2>2. ~device.busy[r.index] /\ r.index \in Frames
    BY <1>1, <2>1 DEF Acquires, FrameFree, FrameDone, IInv, TypeOK, Renderers
  <2>3. QED
    BY <1>1, <2>2 DEF IInv, HoldsOK
<1>2. ASSUME IInv, [Next]_vars, ~device.stale, ~a.finishing
      PROVE  DrawnAlone
  <2> SUFFICES ASSUME main.at = "image", r'.index # r.index
               PROVE  device.shows[Image] = {} /\ Cardinality(device.held) = 1
    OBVIOUS
  <2>1. PresentDone(Image)
    BY <1>1, <1>2, ImageLeftBy DEF Presents, PresentFails, Aborts, Idle
  <2>2. PICK i \in Images : device.held = {i}
    BY <1>2 DEF IInv, HoldsOK
  <2>3. Image \in Images
    BY <2>2 DEF Image
  <2>4. device.shows[Image] = {}
    BY <1>2, <2>1, <2>3, NothingShown
  <2>5. QED
    BY <2>2, <2>4, FS_Singleton
<1>3. IInv /\ [Next]_vars => [~device.stale /\ ~a.finishing => AcquiredAlone /\ DrawnAlone]_vars
  BY <1>1, <1>2
<1>4. QED
  BY <1>3, InvariantHolds, PTL DEF Spec, FramesAlone
-------------------------------------------------------------------------------
(* Frame pacing.                                                           *)

LEMMA Division ==
    ASSUME NEW x \in Int, NEW n \in Nat \ {0}
    PROVE  x \div n \in Int /\ (x \div n) * n <= x /\ x < (x \div n) * n + n
OBVIOUS

\* There is one vsync in each period.
LEMMA OneEach ==
    ASSUME NEW j \in Int, NEW k \in Int, NEW n \in Nat \ {0}, j * n < k * n + n
    PROVE  j <= k
OBVIOUS

LEMMA NextVsync ==
    ASSUME NEW time \in Int, NEW origin \in Int
    PROVE  /\ \E k \in Int : VsyncAfter(time, origin) = origin + k * Refresh
           /\ VsyncAfter(time, origin) >= time /\ VsyncAfter(time, origin) < time + Refresh
<1>1. Refresh \in Nat \ {0}
  BY PacingAssumption
<1>2. CASE time >= origin
  <2> DEFINE x == time - origin + Refresh - 1
             k == x \div Refresh
  <2>1. x \in Int
    BY <1>1
  <2> HIDE DEF x
  <2>2. k \in Int /\ k * Refresh <= x /\ x < k * Refresh + Refresh
    BY <1>1, <2>1, Division
  <2>3. VsyncAfter(time, origin) = origin + k * Refresh
    BY <1>2 DEF VsyncAfter, x
  <2> DEFINE m == k * Refresh
  <2>4. m \in Int
    BY <1>1, <2>2
  <2> HIDE DEF k, m
  <2>5. origin + m >= time /\ origin + m < time + Refresh
    BY <1>1, <2>2, <2>4 DEF x, m
  <2>6. QED
    BY <2>2, <2>3, <2>5 DEF m
<1>3. CASE ~(time >= origin)
  <2> DEFINE x == origin - time
             k == x \div Refresh
  <2>1. x \in Int
    OBVIOUS
  <2> HIDE DEF x
  <2>2. k \in Int /\ k * Refresh <= x /\ x < k * Refresh + Refresh
    BY <1>1, <2>1, Division
  <2>3. VsyncAfter(time, origin) = origin - k * Refresh
    BY <1>3 DEF VsyncAfter, x
  <2> DEFINE m == k * Refresh
  <2>4. m \in Int
    BY <1>1, <2>2
  <2>5. origin - k * Refresh = origin + (-k) * Refresh /\ -k \in Int
    BY <1>1, <2>2
  <2> HIDE DEF k, m
  <2>6. origin - m >= time /\ origin - m < time + Refresh
    BY <1>1, <2>2, <2>4 DEF x, m
  <2>7. QED
    BY <2>3, <2>5, <2>6 DEF m
<1>4. QED
  BY <1>2, <1>3

(* A frame's slot is the next vsync, before the origin and after it, however *)
(* long a refresh takes: vsync_after().                                      *)
THEOREM VsyncIsNext ==
    \A time, origin, k \in Int :
        /\ VsyncAfter(time, origin) >= time /\ \E j \in Int : VsyncAfter(time, origin) = origin + j * Refresh
        /\ origin + k * Refresh >= time => VsyncAfter(time, origin) <= origin + k * Refresh
<1> SUFFICES ASSUME NEW time \in Int, NEW origin \in Int, NEW k \in Int
             PROVE  /\ VsyncAfter(time, origin) >= time
                    /\ \E j \in Int : VsyncAfter(time, origin) = origin + j * Refresh
                    /\ origin + k * Refresh >= time => VsyncAfter(time, origin) <= origin + k * Refresh
  OBVIOUS
<1>1. Refresh \in Nat \ {0}
  BY PacingAssumption
<1>2. PICK j \in Int : VsyncAfter(time, origin) = origin + j * Refresh
  BY NextVsync
<1>3. VsyncAfter(time, origin) >= time /\ VsyncAfter(time, origin) < time + Refresh
  BY NextVsync
<1>4. ASSUME origin + k * Refresh >= time PROVE VsyncAfter(time, origin) <= origin + k * Refresh
  <2> DEFINE m == j * Refresh
             n == k * Refresh
  <2>1. m \in Int /\ n \in Int
    BY <1>1
  <2>2. m < n + Refresh
    <3> HIDE DEF m, n
    <3>1. origin + m < time + Refresh /\ origin + n >= time
      BY <1>2, <1>3, <1>4 DEF m, n
    <3>2. QED
      BY <1>1, <2>1, <3>1
  <2>3. j <= k
    BY <1>1, <2>2, OneEach
  <2>4. m <= n
    BY <1>1, <2>3
  <2> HIDE DEF m, n
  <2>5. QED
    BY <1>2, <2>1, <2>4 DEF m, n
<1>5. QED
  BY <1>2, <1>3, <1>4

(* The limits of a pace.                                                   *)
Paces ==
    [interval : 1 .. MaximumInterval, window : Nat, late : Nat, settling : Nat,
     floor : 1 .. MaximumInterval, best : Nat, previous : Nat, measuring : Nat, measured : Nat,
     hold : Nat, fasterAt : Nat, floorUntil : Nat, retryAt : Nat, lead : Nat]
Led(p) == p.settling <= SettleFrames /\ CostMargin <= p.lead /\ p.lead <= FullLead
\* A measurement ends, however the cost goes on falling.
Bounded(p) ==
    /\ p.measuring <= MeasureFrames /\ p.measured <= 2 * MeasureFrames + 1
    /\ p.measuring > 0 => p.measured + p.measuring <= 2 * MeasureFrames + 1
Counted(p) == p.late < LateLimit /\ p.window < PacingWindow
Held(p) == FirstHold <= p.hold /\ p.hold <= LastHold
Limited(p) == p \in Paces /\ Led(p) /\ Bounded(p) /\ Counted(p) /\ Held(p) /\ p.floor <= p.interval

LEMMA PacingNumbers ==
    /\ Peak \in Nat \ {0} /\ Refresh \in Nat \ {0} /\ MaximumInterval \in Nat \ {0} /\ LateLimit \in Nat \ {0}
    /\ PacingWindow \in Nat \ {0} /\ MeasureFrames \in Nat \ {0} /\ FirstHold \in Nat \ {0}
    /\ LastHold \in Nat \ {0} /\ FirstHold <= LastHold
    /\ SettleFrames \in Nat /\ Unstable \in Nat /\ CostMargin \in Nat /\ LeadStep \in Nat /\ LeadDecay \in Nat
BY PacingAssumption

LEMMA Larger ==
    ASSUME NEW x \in Int, NEW y \in Int
    PROVE  Max({x, y}) = (IF x < y THEN y ELSE x) /\ Min({x, y}) = (IF x < y THEN x ELSE y)
<1>1. Max({x, y}) = IF x < y THEN y ELSE x
  <2>1. \E m \in {x, y} : \A n \in {x, y} : m >= n
    OBVIOUS
  <2>2. Max({x, y}) \in {x, y} /\ \A n \in {x, y} : Max({x, y}) >= n
    BY <2>1 DEF Max
  <2>3. QED
    BY <2>2
<1>2. Min({x, y}) = IF x < y THEN x ELSE y
  <2>1. \E m \in {x, y} : \A n \in {x, y} : m <= n
    OBVIOUS
  <2>2. Min({x, y}) \in {x, y} /\ \A n \in {x, y} : Min({x, y}) <= n
    BY <2>1 DEF Min
  <2>3. QED
    BY <2>2
<1>3. QED
  BY <1>1, <1>2

LEMMA FullLeadIs == FullLead \in Nat /\ CostMargin <= FullLead
BY PacingNumbers, Larger DEF FullLead

\* The steps of pace(): what each of them changes.
LEMMA LeadsLimited ==
    ASSUME NEW p \in Paces, Led(p), Bounded(p), Held(p), p.floor <= p.interval, p.window < PacingWindow,
           NEW late \in Nat
    PROVE  /\ Leads(p, late) \in Paces /\ Led(Leads(p, late)) /\ Bounded(Leads(p, late)) /\ Held(Leads(p, late))
           /\ Leads(p, late).floor <= Leads(p, late).interval /\ Leads(p, late).window < PacingWindow
           /\ Leads(p, late).interval = p.interval
<1>1. p.lead \in Nat /\ p.settling \in Nat /\ p.late \in Nat /\ CostMargin \in Nat /\ LeadDecay \in Nat
      /\ LeadStep \in Nat /\ FullLead \in Nat /\ CostMargin <= FullLead
  BY PacingNumbers, FullLeadIs DEF Paces
<1>2. CostMargin <= p.lead /\ p.lead <= FullLead /\ p.settling <= SettleFrames /\ SettleFrames \in Nat
  BY PacingNumbers DEF Led
<1>3. CASE p.settling > 0
  <2> DEFINE settling == p.settling - 1
  <2>1. settling \in Nat /\ settling <= SettleFrames
    BY <1>1, <1>2, <1>3
  <2>2. Leads(p, late) = [p EXCEPT !.settling = settling]
    BY <1>3 DEF Leads
  <2> HIDE DEF settling
  <2>3. QED
    BY <2>1, <2>2 DEF Paces, Led, Bounded, Held
<1>4. CASE ~(p.settling > 0) /\ late = 0
  <2> DEFINE lead == Max({CostMargin, p.lead - LeadDecay})
  <2>1. lead \in Nat /\ CostMargin <= lead /\ lead <= FullLead
    BY <1>1, <1>2, Larger
  <2>2. Leads(p, late) = [p EXCEPT !.lead = lead]
    BY <1>4 DEF Leads
  <2> HIDE DEF lead
  <2>3. QED
    BY <2>1, <2>2 DEF Paces, Led, Bounded, Held
<1>5. CASE ~(p.settling > 0) /\ late # 0 /\ p.lead < FullLead
  <2> DEFINE more == p.lead + LeadStep * late
             lead == Min({FullLead, more})
  <2>1. more \in Nat /\ p.lead <= more
    <3>1. LeadStep * late \in Nat
      BY <1>1
    <3>2. QED
      BY <1>1, <3>1
  <2>2. Leads(p, late) = [p EXCEPT !.lead = lead]
    BY <1>5 DEF Leads
  <2> HIDE DEF more
  <2>3. lead = IF FullLead < more THEN FullLead ELSE more
    BY <1>1, <2>1, Larger, SMTT(20)
  <2> HIDE DEF lead
  <2>4. lead \in Nat /\ CostMargin <= lead /\ lead <= FullLead
    BY <1>1, <1>2, <2>1, <2>3
  <2>5. QED
    BY <2>2, <2>4 DEF Paces, Led, Bounded, Held
<1>6. CASE ~(p.settling > 0) /\ late # 0 /\ ~(p.lead < FullLead)
  <2> DEFINE sum == p.late + late
  <2>1. sum \in Nat
    BY <1>1
  <2>2. Leads(p, late) = [p EXCEPT !.late = sum]
    BY <1>6 DEF Leads
  <2> HIDE DEF sum
  <2>3. QED
    BY <2>1, <2>2 DEF Paces, Led, Bounded, Held
<1>7. QED
  BY <1>3, <1>4, <1>5, <1>6

LEMMA MeasuresLimited ==
    ASSUME NEW p \in Paces, Led(p), Bounded(p), Held(p), p.floor <= p.interval, p.window < PacingWindow,
           NEW cost \in Nat
    PROVE  LET q == Measures(p, cost)
           IN /\ q \in Paces /\ Led(q) /\ Bounded(q) /\ Held(q) /\ q.floor <= q.interval
              /\ q.window < PacingWindow /\ q.interval = p.interval
<1> DEFINE falling == 100 * cost < 99 * p.previous /\ p.measured < 2 * MeasureFrames
           left == IF p.measuring > 1 \/ ~falling THEN p.measuring - 1 ELSE p.measuring
           best == IF p.measuring = 0 THEN Min({p.best, cost}) ELSE IF left = 0 THEN cost ELSE p.best
           measuring == IF p.measuring = 0 THEN 0 ELSE left
           measured == IF p.measuring = 0 THEN p.measured ELSE p.measured + 1
           q == Measures(p, cost)
<1>1. q = [p EXCEPT !.best = best, !.previous = cost, !.measuring = measuring, !.measured = measured]
  BY DEF Measures
<1>2. /\ p.measuring \in Nat /\ p.measured \in Nat /\ p.best \in Nat /\ p.previous \in Nat
      /\ MeasureFrames \in Nat \ {0} /\ p.measuring <= MeasureFrames /\ p.measured <= 2 * MeasureFrames + 1
      /\ p.measuring > 0 => p.measured + p.measuring <= 2 * MeasureFrames + 1
  BY PacingNumbers DEF Paces, Bounded
<1>3. best \in Nat
  <2>1. p.best \in Nat
    BY <1>2
  <2>2. Min({p.best, cost}) \in Nat
    <3> DEFINE b == p.best
    <3>1. b \in Int /\ cost \in Int /\ b \in Nat
      BY <2>1
    <3> HIDE DEF b
    <3>2. Min({b, cost}) = IF b < cost THEN b ELSE cost
      BY <3>1, Larger
    <3>3. QED
      BY <3>1, <3>2 DEF b
  <2> HIDE DEF left
  <2>3. QED
    BY <2>1, <2>2
<1>4. /\ measuring \in Nat /\ measured \in Nat
      /\ measuring <= MeasureFrames /\ measured <= 2 * MeasureFrames + 1
      /\ measuring > 0 => measured + measuring <= 2 * MeasureFrames + 1
  <2> HIDE DEF best
  <2>1. CASE p.measuring = 0
    BY <1>2, <2>1
  <2>2. CASE p.measuring # 0 /\ (p.measuring > 1 \/ ~falling)
    BY <1>2, <2>2
  <2>3. CASE p.measuring = 1 /\ falling
    BY <1>2, <2>3
  <2>4. QED
    BY <1>2, <2>1, <2>2, <2>3
<1> HIDE DEF best, measuring, measured, q
<1>5. q \in Paces /\ Led(q) /\ Bounded(q) /\ Held(q) /\ q.floor <= q.interval
      /\ q.window < PacingWindow /\ q.interval = p.interval
  BY <1>1, <1>3, <1>4 DEF Paces, Led, Bounded, Held
<1>6. QED
  BY <1>5 DEF q

LEMMA CountsLimited ==
    ASSUME NEW p \in Paces, Led(p), Bounded(p), Held(p), p.floor <= p.interval, p.window < PacingWindow
    PROVE  LET q == Counts(p)
           IN /\ q \in Paces /\ Led(q) /\ Bounded(q) /\ Held(q) /\ Counted(q) /\ q.interval = p.interval
<1> DEFINE q == Counts(p)
           floor == Min({p.interval + 1, MaximumInterval})
<1>1. /\ p.interval \in 1 .. MaximumInterval /\ p.late \in Nat /\ p.window \in Nat
      /\ MaximumInterval \in Nat \ {0} /\ LateLimit \in Nat \ {0} /\ PacingWindow \in Nat \ {0}
  BY PacingNumbers DEF Paces
<1>2. CASE p.late >= LateLimit
  <2>1. q = [p EXCEPT !.floor = floor, !.window = 0, !.late = 0]
    <3>1. ~(p.late < LateLimit)
      BY <1>1, <1>2
    <3>2. QED
      BY <1>2, <3>1 DEF Counts
  <2>2. floor \in 1 .. MaximumInterval
    <3>1. p.interval + 1 \in Int /\ MaximumInterval \in Int
      BY <1>1
    <3>2. floor = IF p.interval + 1 < MaximumInterval THEN p.interval + 1 ELSE MaximumInterval
      BY <3>1, Larger
    <3> HIDE DEF floor
    <3>3. QED
      BY <1>1, <3>2
  <2> HIDE DEF q, floor
  <2>3. q \in Paces
    BY <1>1, <2>1, <2>2 DEF Paces
  <2>4. /\ q.settling = p.settling /\ q.lead = p.lead /\ q.measuring = p.measuring /\ q.measured = p.measured
        /\ q.hold = p.hold /\ q.interval = p.interval /\ q.late = 0 /\ q.window = 0
    BY <2>1 DEF Paces
  <2>5. q \in Paces /\ Led(q) /\ Bounded(q) /\ Held(q) /\ Counted(q) /\ q.interval = p.interval
    BY <1>1, <2>3, <2>4 DEF Led, Bounded, Held, Counted
  <2>6. QED
    BY <2>5 DEF q
<1>3. CASE p.late < LateLimit /\ p.window + 1 = PacingWindow
  <2>1. q = [p EXCEPT !.window = 0, !.late = 0]
    BY <1>1, <1>3 DEF Counts
  <2> HIDE DEF q
  <2>2. q \in Paces
    BY <1>1, <2>1 DEF Paces
  <2>3. /\ q.settling = p.settling /\ q.lead = p.lead /\ q.measuring = p.measuring /\ q.measured = p.measured
        /\ q.hold = p.hold /\ q.interval = p.interval /\ q.late = 0 /\ q.window = 0
    BY <2>1 DEF Paces
  <2>4. q \in Paces /\ Led(q) /\ Bounded(q) /\ Held(q) /\ Counted(q) /\ q.interval = p.interval
    BY <1>1, <2>2, <2>3 DEF Led, Bounded, Held, Counted
  <2>5. QED
    BY <2>4 DEF q
<1>4. CASE p.late < LateLimit /\ p.window + 1 # PacingWindow
  <2> DEFINE frames == p.window + 1
  <2>1. q = [p EXCEPT !.window = frames]
    BY <1>1, <1>4 DEF Counts
  <2>2. frames \in Nat /\ frames < PacingWindow
    BY <1>1, <1>4
  <2> HIDE DEF q, frames
  <2>3. q \in Paces /\ Led(q) /\ Bounded(q) /\ Held(q) /\ Counted(q) /\ q.interval = p.interval
    BY <1>1, <1>4, <2>1, <2>2 DEF Paces, Led, Bounded, Held, Counted
  <2>4. QED
    BY <2>3 DEF q
<1>5. QED
  BY <1>1, <1>2, <1>3, <1>4

LEMMA LowersLimited ==
    ASSUME NEW p \in Paces, Led(p), Bounded(p), Held(p), Counted(p), NEW slot \in Nat
    PROVE  LET q == Lowers(p, slot)
           IN /\ q \in Paces /\ Led(q) /\ Bounded(q) /\ Held(q) /\ Counted(q) /\ q.interval = p.interval
<1> DEFINE q == Lowers(p, slot)
<1>1. CASE p.floor > p.interval
  <2>1. q = [p EXCEPT !.floorUntil = 0]
    BY <1>1 DEF Lowers
  <2> HIDE DEF q
  <2>2. q \in Paces /\ Led(q) /\ Bounded(q) /\ Held(q) /\ Counted(q) /\ q.interval = p.interval
    BY <2>1 DEF Paces, Led, Bounded, Held, Counted
  <2>3. QED
    BY <2>2 DEF q
<1>2. CASE ~(p.floor > p.interval) /\ p.floor > 1 /\ p.late = 0 /\ slot >= p.floorUntil
  <2> DEFINE floor == p.floor - 1
  <2>1. q = [p EXCEPT !.floor = floor]
    BY <1>2 DEF Lowers
  <2>2. floor \in 1 .. MaximumInterval
    BY <1>2, PacingNumbers DEF Paces
  <2> HIDE DEF q, floor
  <2>3. q \in Paces /\ Led(q) /\ Bounded(q) /\ Held(q) /\ Counted(q) /\ q.interval = p.interval
    BY <2>1, <2>2 DEF Paces, Led, Bounded, Held, Counted
  <2>4. QED
    BY <2>3 DEF q
<1>3. CASE ~(p.floor > p.interval) /\ ~(p.floor > 1 /\ p.late = 0 /\ slot >= p.floorUntil)
  BY <1>3 DEF Lowers
<1>4. QED
  BY <1>1, <1>2, <1>3

(* What fits a rate fits every slower one; the rate that fits is the fastest. *)
LEMMA Periods ==
    ASSUME NEW i \in Nat, NEW j \in Nat, i <= j
    PROVE  Period(i) \in Nat /\ Period(j) \in Nat /\ Period(i) <= Period(j)
<1> DEFINE m == i * Peak
           n == j * Peak
<1>1. m \in Nat /\ n \in Nat /\ m <= n /\ Refresh \in Nat
  BY PacingNumbers
<1>2. Period(i) = Max({m, Refresh}) /\ Period(j) = Max({n, Refresh})
  BY DEF Period
<1> HIDE DEF m, n
<1>3. /\ Max({m, Refresh}) = (IF m < Refresh THEN Refresh ELSE m)
      /\ Max({n, Refresh}) = (IF n < Refresh THEN Refresh ELSE n)
  BY <1>1, Larger
<1>4. QED
  BY <1>1, <1>2, <1>3

LEMMA FittingIs ==
    ASSUME NEW cost \in Nat
    PROVE  /\ Fitting(cost) \in 1 .. MaximumInterval
           /\ Fitting(cost) < MaximumInterval => Fits(cost, Fitting(cost))
           /\ \A i \in 1 .. MaximumInterval : i < Fitting(cost) => ~Fits(cost, i)
<1> DEFINE S == {MaximumInterval} \cup {i \in 1 .. MaximumInterval : Fits(cost, i)}
<1>1. S \subseteq 1 .. MaximumInterval /\ S # {} /\ MaximumInterval \in Nat
  BY PacingNumbers
<1>2. \E x \in S : \A y \in S : x <= y
  <2>1. S \subseteq Nat
    BY <1>1
  <2> HIDE DEF S
  <2>2. QED
    BY <1>1, <2>1, Least
<1>3. Fitting(cost) \in S /\ \A y \in S : Fitting(cost) <= y
  <2>1. Fitting(cost) = Min(S)
    BY DEF Fitting
  <2> HIDE DEF S
  <2>2. QED
    BY <1>2, <2>1 DEF Min
<1>4. QED
  BY <1>1, <1>3

LEMMA AlsoAlmost ==
    ASSUME NEW cost \in Nat, NEW i \in Nat, NEW j \in Nat, i <= j, Fits(cost, i)
    PROVE  AlmostFits(cost, j)
<1>1. Period(i) \in Nat /\ Period(j) \in Nat /\ Period(i) <= Period(j)
  BY Periods
<1>2. 5 * cost <= 6 * Period(i)
  BY DEF Fits
<1>3. 2 * cost <= 3 * Period(j)
  BY <1>1, <1>2
<1>4. QED
  BY <1>3 DEF AlmostFits

LEMMA ChosenLimited ==
    ASSUME NEW p \in Paces, Led(p), Bounded(p), Held(p), Counted(p), NEW slot \in Nat
    PROVE  LET q == Chosen(p, slot)
           IN /\ Limited(q) /\ q.best = p.best
              /\ q.interval < p.interval => AlmostFits(q.best, q.interval)
              /\ q.interval > p.interval => q.interval = q.floor \/ ~Fits(q.best, q.interval - 1)
<1> DEFINE retries == Retries(p, slot)
           interval == IF retries THEN p.interval - 1 ELSE Wanted(p)
           fitting == Fitting(p.best)
           now == IF retries THEN Measured(p) ELSE p
           then == CASE interval < p.interval -> [now EXCEPT !.fasterAt = slot]
                     [] interval > p.interval -> Slower(now, slot)
                     [] OTHER -> now
           q == Chosen(p, slot)
<1>1. /\ p.interval \in 1 .. MaximumInterval /\ p.floor \in 1 .. MaximumInterval /\ p.best \in Nat
      /\ MaximumInterval \in Nat \ {0} /\ p.measuring \in Nat
  BY PacingNumbers DEF Paces
<1>2. fitting \in 1 .. MaximumInterval /\ (fitting < MaximumInterval => Fits(p.best, fitting))
      /\ \A i \in 1 .. MaximumInterval : i < fitting => ~Fits(p.best, i)
  BY <1>1, FittingIs
<1> DEFINE rate == IF p.measuring = 0 THEN fitting ELSE p.interval
<1>3. rate \in 1 .. MaximumInterval /\ Wanted(p) = IF p.floor < rate THEN rate ELSE p.floor
  <2>1. rate \in 1 .. MaximumInterval
    BY <1>1, <1>2
  <2>2. Wanted(p) = Max({p.floor, rate})
    BY DEF Wanted
  <2> HIDE DEF rate
  <2>3. QED
    <3>1. p.floor \in Int /\ rate \in Int
      BY <1>1, <2>1
    <3>2. QED
      BY <2>1, <2>2, <3>1, Larger
<1>4. retries => /\ Wanted(p) = p.interval /\ p.interval > 1 /\ p.floor < p.interval
                 /\ AlmostFits(p.best, p.interval - 1)
  BY DEF Retries
<1>5. q = ChangeInterval(then, interval)
  BY DEF Chosen
<1> HIDE DEF retries, fitting, rate
<1>6. interval \in 1 .. MaximumInterval /\ p.floor <= interval
  <2>1. CASE retries
    BY <1>1, <1>4, <2>1
  <2>2. CASE ~retries
    BY <1>1, <1>3, <2>2
  <2>3. QED
    BY <2>1, <2>2
<1>7. ASSUME interval < p.interval PROVE AlmostFits(p.best, interval)
  <2>1. CASE retries
    BY <1>4, <2>1
  <2>2. CASE ~retries
    <3>1. interval = IF p.floor < rate THEN rate ELSE p.floor
      BY <1>3, <2>2
    <3>2. p.measuring = 0
      BY <1>1, <1>7, <3>1 DEF rate
    <3>3. rate = fitting
      BY <3>2 DEF rate
    <3>4. fitting <= interval /\ fitting < MaximumInterval
      BY <1>1, <1>2, <1>6, <1>7, <3>1, <3>3
    <3>5. Fits(p.best, fitting)
      BY <1>2, <3>4
    <3>6. QED
      BY <1>1, <1>2, <1>6, <3>4, <3>5, AlsoAlmost
  <2>3. QED
    BY <2>1, <2>2
<1>8. ASSUME interval > p.interval PROVE interval = p.floor \/ ~Fits(p.best, interval - 1)
  <2>1. ~retries
    BY <1>1, <1>8
  <2>2. interval = IF p.floor < rate THEN rate ELSE p.floor
    BY <1>3, <2>1
  <2>3. CASE ~(p.floor < rate)
    BY <2>2, <2>3
  <2>4. CASE p.floor < rate
    <3>1. interval = rate
      BY <2>2, <2>4
    <3>2. rate = fitting
      BY <1>1, <1>8, <3>1 DEF rate
    <3>3. interval - 1 \in 1 .. MaximumInterval /\ interval - 1 < fitting
      BY <1>1, <1>6, <1>8, <3>1, <3>2
    <3>4. QED
      BY <1>2, <3>3
  <2>5. QED
    BY <2>3, <2>4
<1> DEFINE Same(s) == /\ s \in Paces /\ Led(s) /\ Bounded(s) /\ Held(s) /\ Counted(s)
                      /\ s.interval = p.interval /\ s.floor = p.floor /\ s.best = p.best
<1>9. ASSUME NEW s, Same(s) PROVE Same(Measured(s))
  <2>1. Measured(s) = [s EXCEPT !.measuring = MeasureFrames, !.measured = 0]
    BY DEF Measured
  <2>2. s \in Paces /\ Led(s) /\ Held(s) /\ Counted(s) /\ s.interval = p.interval /\ s.floor = p.floor /\ s.best = p.best
    BY <1>9
  <2> DEFINE u == Measured(s)
             frames == MeasureFrames
  <2>3. u = [s EXCEPT !.measuring = frames, !.measured = 0] /\ frames \in Nat /\ s \in Paces
    BY <2>1, <2>2, PacingNumbers
  <2> HIDE DEF u, frames
  <2>4. u \in Paces
    BY <2>3 DEF Paces
  <2>5. /\ u.interval = s.interval /\ u.floor = s.floor /\ u.best = s.best /\ u.settling = s.settling
        /\ u.lead = s.lead /\ u.hold = s.hold /\ u.late = s.late /\ u.window = s.window
        /\ u.measuring = MeasureFrames /\ u.measured = 0
    BY <2>3 DEF Paces, frames
  <2>6. Led(u) /\ Held(u) /\ Counted(u)
    BY <2>2, <2>5 DEF Led, Held, Counted
  <2>7. Bounded(u)
    BY <2>5, PacingNumbers DEF Bounded
  <2>8. QED
    BY <2>2, <2>4, <2>5, <2>6, <2>7 DEF u
<1>10. Same(now)
  BY <1>9
<1>11. ASSUME NEW s, Same(s) PROVE Same([s EXCEPT !.fasterAt = slot])
  BY <1>11 DEF Paces, Led, Bounded, Held, Counted
<1>12. ASSUME NEW s, Same(s) PROVE Same(Slower(s, slot))
  <2> DEFINE hold == IF s.fasterAt # 0 /\ slot - s.fasterAt < Unstable THEN Min({s.hold * 2, LastHold}) ELSE FirstHold
             until == IF s.floorUntil = 0 THEN slot + hold ELSE s.floorUntil
             retry == slot + hold
             u == [s EXCEPT !.hold = hold, !.fasterAt = 0, !.retryAt = retry, !.floorUntil = until]
  <2>1. s \in Paces /\ s.hold \in Nat /\ FirstHold <= s.hold /\ s.floorUntil \in Nat /\ FirstHold \in Nat
        /\ LastHold \in Nat /\ FirstHold <= LastHold
    BY <1>12, PacingNumbers DEF Paces, Held
  <2>2. hold \in Nat /\ FirstHold <= hold /\ hold <= LastHold
    <3> DEFINE twice == s.hold * 2
    <3>1. twice \in Int /\ FirstHold <= twice /\ LastHold \in Int
      BY <2>1
    <3> HIDE DEF twice
    <3>2. Min({twice, LastHold}) = IF twice < LastHold THEN twice ELSE LastHold
      BY <3>1, Larger
    <3>3. Min({twice, LastHold}) \in Nat /\ FirstHold <= Min({twice, LastHold}) /\ Min({twice, LastHold}) <= LastHold
      BY <2>1, <3>1, <3>2
    <3>4. QED
      BY <2>1, <3>3 DEF twice
  <2>3. Slower(s, slot) = IF s.measuring > 0 THEN Measured(u) ELSE u
    BY <2>1 DEF Slower, Paces
  <2> HIDE DEF hold
  <2>4. until \in Nat /\ retry \in Nat
    BY <2>1, <2>2
  <2> HIDE DEF until, retry
  <2>5. Same(u)
    BY <1>12, <2>2, <2>4 DEF Paces, Led, Bounded, Held, Counted
  <2> HIDE DEF u, Same
  <2>6. Same(Measured(u))
    BY <1>9, <2>5
  <2>7. QED
    BY <2>3, <2>5, <2>6
<1>13. Same(then)
  <2> HIDE DEF now, Same, interval
  <2>1. Same([now EXCEPT !.fasterAt = slot]) /\ Same(Slower(now, slot))
    BY <1>10, <1>11, <1>12
  <2>2. interval \in Int /\ p.interval \in Int
    BY <1>1, <1>6
  <2>3. CASE interval < p.interval
    <3>1. then = [now EXCEPT !.fasterAt = slot]
      BY <2>2, <2>3
    <3>2. QED
      BY <2>1, <3>1
  <2>4. CASE interval > p.interval
    <3>1. then = Slower(now, slot)
      BY <2>2, <2>4
    <3>2. QED
      BY <2>1, <3>1
  <2>5. CASE interval = p.interval
    <3>1. then = now
      BY <2>2, <2>5
    <3>2. QED
      BY <1>10, <3>1
  <2>6. QED
    BY <2>2, <2>3, <2>4, <2>5
<1> HIDE DEF then, interval
<1>14. q \in Paces /\ Led(q) /\ Bounded(q) /\ Counted(q) /\ Held(q) /\ q.interval = interval
       /\ q.floor = p.floor /\ q.best = p.best
  <2>1. CASE interval = then.interval
    <3>1. q = then
      BY <1>5, <2>1 DEF ChangeInterval
    <3> HIDE DEF q
    <3>2. QED
      BY <1>13, <2>1, <3>1
  <2>2. CASE interval # then.interval
    <3>1. q = [then EXCEPT !.interval = interval, !.window = 0, !.late = 0, !.settling = SettleFrames]
      BY <1>5, <2>2 DEF ChangeInterval
    <3> HIDE DEF q
    <3>2. q \in Paces
      BY <1>6, <1>13, <3>1, PacingNumbers DEF Paces
    <3>3. /\ q.settling = SettleFrames /\ q.lead = then.lead /\ q.measuring = then.measuring
          /\ q.measured = then.measured /\ q.hold = then.hold /\ q.interval = interval
          /\ q.late = 0 /\ q.window = 0 /\ q.floor = then.floor /\ q.best = then.best
      BY <1>13, <3>1 DEF Paces
    <3>4. Led(then) /\ Bounded(then) /\ Held(then) /\ then.floor = p.floor /\ then.best = p.best
      BY <1>13
    <3>5. QED
      BY <3>2, <3>3, <3>4, PacingNumbers DEF Led, Bounded, Held, Counted
  <2>3. QED
    BY <2>1, <2>2
<1> HIDE DEF q
<1>15. QED
  BY <1>6, <1>7, <1>8, <1>14 DEF Limited, q

Paced(p, q) ==
    /\ Limited(q)
    /\ q.interval < p.interval => AlmostFits(q.best, q.interval)
    /\ q.interval > p.interval => q.interval = q.floor \/ ~Fits(q.best, q.interval - 1)

(* From the pace that a surface starts with, and whatever each frame costs, *)
(* however many are late and whenever they are: the rate, the floor, the    *)
(* hold and the lead stay within their limits, and a measurement ends,      *)
(* after one frame more than twice kMeasureFrames at most.  A faster rate   *)
(* is one that the measured cost almost fits, and no frame is slower than   *)
(* late frames and that cost require (pace() and reset_pacing()).           *)
THEOREM PaceKeepsLimits ==
    /\ \A previous \in Nat : Limited(ResetPacing(previous))
    /\ \A p, slot, late, cost :
          Limited(p) /\ slot \in Nat /\ late \in Nat /\ cost \in Nat =>
            Paced(p, Pace(p, slot, late, cost))
<1>1. ASSUME NEW previous \in Nat PROVE Limited(ResetPacing(previous))
  <2> DEFINE p == ResetPacing(previous)
  <2>1. p = [interval |-> 1, window |-> 0, late |-> 0, settling |-> SettleFrames,
             floor |-> 1, best |-> 0, previous |-> previous, measuring |-> MeasureFrames, measured |-> 0,
             hold |-> FirstHold, fasterAt |-> 0, floorUntil |-> 0, retryAt |-> 0, lead |-> CostMargin]
    BY DEF ResetPacing
  <2> HIDE DEF p
  <2>2. 1 \in 1 .. MaximumInterval
    BY PacingNumbers
  <2>3. p \in Paces
    BY <2>1, <2>2, PacingNumbers DEF Paces
  <2>4. Led(p)
    BY <2>1, PacingNumbers, FullLeadIs DEF Led
  <2>5. Bounded(p) /\ Counted(p) /\ Held(p) /\ p.floor <= p.interval
    BY <2>1, PacingNumbers DEF Bounded, Counted, Held
  <2>6. QED
    BY <2>3, <2>4, <2>5 DEF Limited, p
<1>2. ASSUME NEW p, Limited(p), NEW slot \in Nat, NEW late \in Nat, NEW cost \in Nat
      PROVE  Paced(p, Pace(p, slot, late, cost))
  <2> DEFINE p1 == Leads(p, late)
             p2 == Measures(p1, cost)
             p3 == Counts(p2)
             p4 == Lowers(p3, slot)
             q == Chosen(p4, slot)
  <2>1. p \in Paces /\ Led(p) /\ Bounded(p) /\ Held(p) /\ p.floor <= p.interval /\ p.window < PacingWindow
    BY <1>2 DEF Limited, Counted
  <2>2. /\ p1 \in Paces /\ Led(p1) /\ Bounded(p1) /\ Held(p1) /\ p1.floor <= p1.interval
        /\ p1.window < PacingWindow /\ p1.interval = p.interval
    BY <2>1, LeadsLimited
  <2> HIDE DEF p1
  <2>3. /\ p2 \in Paces /\ Led(p2) /\ Bounded(p2) /\ Held(p2) /\ p2.floor <= p2.interval
        /\ p2.window < PacingWindow /\ p2.interval = p.interval
    BY <2>2, MeasuresLimited
  <2> HIDE DEF p2
  <2>4. /\ p3 \in Paces /\ Led(p3) /\ Bounded(p3) /\ Held(p3) /\ Counted(p3) /\ p3.interval = p.interval
    BY <2>3, CountsLimited
  <2> HIDE DEF p3
  <2>5. /\ p4 \in Paces /\ Led(p4) /\ Bounded(p4) /\ Held(p4) /\ Counted(p4) /\ p4.interval = p.interval
    BY <2>4, LowersLimited
  <2> HIDE DEF p4
  <2>6. /\ Limited(q)
        /\ q.interval < p4.interval => AlmostFits(q.best, q.interval)
        /\ q.interval > p4.interval => q.interval = q.floor \/ ~Fits(q.best, q.interval - 1)
    BY <2>5, ChosenLimited
  <2>7. Pace(p, slot, late, cost) = q
    BY DEF Pace, p1, p2, p3, p4
  <2> HIDE DEF q
  <2>8. QED
    BY <2>5, <2>6, <2>7 DEF Paced
<1>3. QED
  BY <1>1, <1>2
===============================================================================
