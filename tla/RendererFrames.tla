---------------------------- MODULE RendererFrames ----------------------------
(***************************************************************************)
(* An overlay renderer on a window (common/gpu/renderer.cc): its frames in *)
(* flight, the images of its swapchain, and the fences that tell it what   *)
(* the GPU and the display still use.  The caller is one thread, `main',   *)
(* which blocks where the code waits for a fence; the GPU, the display and *)
(* the window's size move between any two of its steps.  A lost device and *)
(* offscreen renderers are left out.                                       *)
(***************************************************************************)
EXTENDS Integers, FiniteSets

CONSTANTS
    FrameCount,  \* kFrameCount
    Images,      \* the swapchain's images
    Sizes        \* the window's sizes: the first, and what it is resized to

ASSUME FrameAssumption == FrameCount \in Nat \ {0} /\ Images # {} /\ Cardinality(Sizes) = 2

VARIABLES
    r,       \* Renderer
    device,  \* the GPU's queue and the display: what they have yet to do
    window,  \* the ANativeWindow, and the extent and transform that Vulkan reports for it
    main     \* where the calling thread is, and who called

Frames == 0 .. FrameCount - 1
Last == (r.index - 1) % FrameCount
NoSize == "none"
OnDisplay == -1
Unpresented == [i \in Images |-> FALSE]

\* A frame's fences are waited for only when they were handed over since the last
\* wait (in_flight, acquiring): waiting for them is waiting for the work itself.
NoRenderer ==
    [alive |-> FALSE, ready |-> FALSE, recreate |-> FALSE, images |-> FALSE, built |-> NoSize,
     turned |-> FALSE, observed |-> NoSize, index |-> 0, pending |-> Unpresented]

\* Submissions, the image whose acquisition signals a frame's semaphore, presentations
\* (the frame they wait for, then OnDisplay), the images the app holds, the present
\* fences that are signalled, and whether one was handed over signalled.
Quiet ==
    [busy |-> [f \in Frames |-> FALSE], acquire |-> [f \in Frames |-> "none"],
     shows |-> [i \in Images |-> {}], held |-> {}, fence |-> Unpresented, stale |-> FALSE]
Image == CHOOSE i \in device.held : TRUE

\* A window that is not steady may be unavailable for now, at any call.
FreshWindow == LET first == CHOOSE size \in Sizes : TRUE
               IN [size |-> first, cached |-> first, turned |-> FALSE, steady |-> FALSE]

Resting == [at |-> "idle", from |-> "none", tries |-> 0]

Renderers == [alive : BOOLEAN, ready : BOOLEAN, recreate : BOOLEAN, images : BOOLEAN,
              built : Sizes \cup {NoSize}, turned : BOOLEAN, observed : Sizes \cup {NoSize}, index : Frames,
              pending : [Images -> BOOLEAN]]
Devices == [busy : [Frames -> BOOLEAN], acquire : [Frames -> Images \cup {"none"}],
            shows : [Images -> SUBSET (Frames \cup {OnDisplay})], held : SUBSET Images,
            fence : [Images -> BOOLEAN], stale : BOOLEAN]
Windows == [size : Sizes, cached : Sizes, turned : BOOLEAN, steady : BOOLEAN]
At(at) == main' = [main EXCEPT !.at = at]
Ends(at) == At(at) /\ UNCHANGED <<device, window>>
-------------------------------------------------------------------------------
(* The GPU, the display and the window.                                    *)

\* Submissions are executed in order: the oldest is the first from `index' on.
Oldest(f) == \A g \in Frames :
    device.busy[g] => (f - r.index) % FrameCount <= (g - r.index) % FrameCount

\* An acquired image is there once its last presentation is over.
Acquired(f) == device.acquire[f] \in Images /\ device.shows[device.acquire[f]] \ {f} = {}

Executes(f) ==
    /\ device.busy[f] /\ Oldest(f) /\ Acquired(f)
    /\ device' = [device EXCEPT
          !.busy[f] = FALSE, !.acquire[f] = "none",
          !.shows = [i \in Images |-> IF f \in @[i] THEN (@[i] \ {f}) \cup {OnDisplay} ELSE @[i]]]
    /\ UNCHANGED <<r, window, main>>

Releases(i) ==
    /\ OnDisplay \in device.shows[i]
    /\ device' = [device EXCEPT !.shows[i] = @ \ {OnDisplay}, !.fence[i] = TRUE]
    /\ UNCHANGED <<r, window, main>>

\* "Android can cache the Vulkan extent until presentation"; a window that is turned
\* upside down keeps its size.
Resizes ==
    /\ window.size = FreshWindow.size /\ ~window.turned
    /\ \E size \in Sizes, turned \in BOOLEAN : \E cached \in {window.cached, size} :
         /\ turned \/ size # window.size
         /\ window' = [window EXCEPT !.size = size, !.cached = cached, !.turned = turned]
    /\ UNCHANGED <<r, device, main>>

Steadies == main.at = "idle" /\ ~window.steady /\ window' = [window EXCEPT !.steady = TRUE]
            /\ UNCHANGED <<r, device, main>>
-------------------------------------------------------------------------------
(* Waiting.                                                                *)

\* wait_for()
FrameDone(f) == ~device.busy[f]
AcquisitionDone(f) == device.acquire[f] = "none" \/ Acquired(f)
PresentDone(i) == r.pending[i] => device.fence[i]

\* Mutant of WorkDone: "device/queue idle alone cannot release its resources".
QueueDone == \A f \in Frames : FrameDone(f) /\ AcquisitionDone(f)

\* wait_for_work(): "every queue submission and acquisition has a fence".
WorkDone == /\ \A f \in Frames : FrameDone(f) /\ AcquisitionDone(f)
            /\ \A i \in Images : PresentDone(i)
Rested == [r EXCEPT !.pending = Unpresented]

\* The targets are what Vulkan reports.
Current == r.ready /\ ~r.recreate /\ window.cached = r.built /\ window.turned = r.turned

\* Mutant of SurfaceChanged: only what Vulkan reports is compared.
ExtentChanged == ~Current

\* surface_changed()
SurfaceChanged == ~Current \/ window.size # r.observed
-------------------------------------------------------------------------------
(* create(), prepare_frame() and ensure_targets().                         *)

CreatesContext == /\ main.at = "context"
                  /\ r' = [r EXCEPT !.alive = TRUE]
                  /\ Ends("pipelines")
CreatesPipelines == main.at = "pipelines" /\ UNCHANGED r /\ Ends("font")
CreatesFont == main.at = "font" /\ UNCHANGED r /\ Ends("prepare")

\* The surface has no size for now.
Unsized == /\ main.at = "prepare" /\ ~window.steady
           /\ r' = [r EXCEPT !.recreate = TRUE]
           /\ Ends("deferred")

Prepared == /\ main.at = "prepare" /\ Current
            /\ r' = [r EXCEPT !.observed = window.size]
            /\ Ends("begin")

\* The extent and the transform are read before the wait, and built for after it.
Outdated == /\ main.at = "prepare" /\ ~Current
            /\ r' = [r EXCEPT !.built = window.cached, !.turned = window.turned]
            /\ Ends("retire")

\* destroy_targets(), after everything that may use them is over.
Retires ==
    /\ main.at = "retire" /\ WorkDone
    /\ r' = [Rested EXCEPT !.ready = FALSE, !.images = FALSE]
    /\ device' = [device EXCEPT !.shows = Quiet.shows, !.held = {}, !.fence = Quiet.fence]
    /\ At("create") /\ UNCHANGED window

\* create_swapchain() and the other images; prepare_frame() observes the window.
CreatesTargets ==
    /\ main.at = "create"
    /\ r' = [r EXCEPT !.ready = TRUE, !.recreate = FALSE, !.images = TRUE,
                      !.observed = IF main.from = "attach" THEN @ ELSE window.size]
    /\ Ends(IF main.from = "attach" THEN "deferred" ELSE "begin")

\* VK_ERROR_OUT_OF_DATE_KHR: "keep partially built targets unready".
TargetsLater == main.at = "create" /\ ~window.steady /\ UNCHANGED r /\ Ends("deferred")
-------------------------------------------------------------------------------
(* render_overlay(), begin_frame() and present().                          *)

\* "A subsequent window-size change defers the frame".
BeginDeferred == /\ main.at = "begin" /\ SurfaceChanged
                 /\ r' = [r EXCEPT !.recreate = TRUE]
                 /\ Ends("deferred")

\* Mutant of FrameFree: the commands of a frame that the GPU executes are reset.
FrameFreeAtOnce == AcquisitionDone(r.index)

FrameFree == FrameDone(r.index) /\ AcquisitionDone(r.index)

Acquires(i) ==
    /\ main.at = "begin" /\ ~SurfaceChanged /\ FrameFree
    /\ i \notin device.held
    /\ UNCHANGED r
    /\ device' = [device EXCEPT !.acquire[r.index] = i, !.held = @ \cup {i}]
    /\ At("image") /\ UNCHANGED window

\* The image is not there in time, or the swapchain is out of date.
AcquiresLater ==
    /\ main.at = "begin" /\ ~SurfaceChanged /\ FrameFree /\ ~window.steady
    /\ \E outOfDate \in BOOLEAN :
         r' = [r EXCEPT !.recreate = @ \/ outOfDate]
    /\ Ends("deferred")

\* The fence of the image's last presentation, which is reset if it was waited for.
FenceLeft == device.fence[Image] /\ ~r.pending[Image]

\* Mutant of Submitted: the frames are not used in turn.
SubmittedOn == [r EXCEPT !.index = @ + 1]

\* submit() the commands; then the frame is the next one's.
Submitted == [r EXCEPT !.index = (@ + 1) % FrameCount]

\* The presentation is queued, also when the swapchain is found out of date.
Queues == [device EXCEPT !.busy[r.index] = TRUE, !.held = @ \ {Image},
                         !.shows[Image] = @ \cup {r.index},
                         !.fence[Image] = FenceLeft, !.stale = @ \/ FenceLeft]

Presents ==
    /\ main.at = "image" /\ PresentDone(Image)
    /\ device' = Queues
    /\ window' = [window EXCEPT !.cached = window.size]
    /\ \E outOfDate \in {FALSE, ~window.steady} :
         LET stale == outOfDate \/ window.size # r.built \/ window.size # r.observed
         IN /\ r' = [Submitted EXCEPT !.pending[Image] = TRUE, !.recreate = stale]
            /\ At(IF stale THEN "deferred" ELSE "shown")

\* vkQueuePresentKHR() fails with the surface lost, or for want of memory.
PresentFails ==
    /\ main.at = "image" /\ PresentDone(Image)
    /\ \/ device' = Queues /\ r' = [Submitted EXCEPT !.pending[Image] = TRUE]
       \/ /\ device' = [device EXCEPT !.busy[r.index] = TRUE, !.fence[Image] = FenceLeft]
          /\ r' = [Submitted EXCEPT !.pending[Image] = FALSE]
    /\ main' = [main EXCEPT !.at = "failed", !.tries = 0] /\ UNCHANGED window

\* set_overlay_image() waits for everything; the fences stay as they are.
Uploads == /\ main.at = "upload" /\ WorkDone
           /\ r' = Rested
           /\ Ends("uploaded")

\* Any other call may fail, or "a deadline on every GPU wait" pass.
Failing == main.at \in {"context", "pipelines", "font", "prepare", "retire", "create", "begin",
                        "image",
                       "upload", "wait", "failed"}

\* wait_frame()
WaitsFrame == /\ main.at = "wait" /\ FrameDone(Last)
              /\ main' = Resting /\ UNCHANGED <<r, device, window>>
===============================================================================
