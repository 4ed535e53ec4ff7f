-------------------------- MODULE MCChromecastActivity --------------------------
(* Model checking of ChromecastActivity: two frames in flight, two images of  *)
(* the swapchain, and a window that is resized once.  What sets the pace of   *)
(* its timer is checked on the frames that it may have drawn before: first    *)
(* Disturbances of them, each late or not and of any cost, and then Calm.     *)
EXTENDS ChromecastActivity, FramePacing

CONSTANTS Disturbances, Calm, Costs

TwoSizes == {"portrait", "landscape"}

Frame(s, late, cost) ==
    LET p == Pace(s.p, s.slot, late, cost) IN [p |-> p, slot |-> s.slot + Period(p.interval)]
Disturbed[n \in 0 .. Disturbances] ==
    IF n = 0 THEN {[p |-> ResetPacing(previous), slot |-> Peak] : previous \in Costs \cup {0}}
    ELSE {Frame(s, late, cost) : s \in Disturbed[n - 1], late \in 0 .. 1, cost \in Costs}

\* Then no frame is late, or each one is that is drawn faster than every second refresh.
OnTime(cost) ==
    LET after[n \in 0 .. Calm] == IF n = 0 THEN Disturbed[Disturbances]
                                  ELSE {Frame(s, 0, cost) : s \in after[n - 1]}
    IN {s.p : s \in after[Calm]}
Crowded(cost) ==
    LET after[n \in 0 .. Calm] == IF n = 0 THEN Disturbed[Disturbances]
                                  ELSE {Frame(s, IF s.p.interval < 2 THEN 1 ELSE 0, cost) :
                                            s \in after[n - 1]}
    IN {s.p : s \in after[Calm]}

(* The animation is not slow for ever: once frames are on time, the floor   *)
(* is gone and the rate is one that fits their cost, or faster.             *)
NotSlowForEver ==
    \A cost \in Costs : \A p \in OnTime(cost) : p.floor = 1 /\ p.interval <= Fitting(cost)

(* Nor does it oscillate: what late frames forbid, or what almost fits and  *)
(* fails, is tried after holds that have doubled to the longest.            *)
TriedRarely ==
    /\ \A p \in Crowded(Min(Costs)) : p.hold = LastHold
    /\ \A cost \in Costs : \A p \in OnTime(cost) :
         Fitting(cost) > 1 /\ AlmostFits(cost, Fitting(cost) - 1) /\ p.best = cost => p.hold = LastHold

\* "The first predicted vsync at or after the given time."
Vsyncs(origin) == {origin + k * Refresh : k \in -5 .. 5}
SlotsAreVsyncs ==
    \A origin \in 0 .. Refresh : \A time \in -2 * Refresh .. 2 * Refresh :
        VsyncAfter(time, origin) = Min({v \in Vsyncs(origin) : v >= time})

(* Whenever the timer is armed, what happened before leaves a pace that     *)
(* recovers: "a few misses alone are tolerated", and after more of them     *)
(* "the floor steps down".                                                  *)
PaceRecovers == a.armed => NotSlowForEver /\ TriedRarely /\ SlotsAreVsyncs
================================================================================
