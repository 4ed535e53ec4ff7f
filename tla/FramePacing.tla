------------------------------ MODULE FramePacing ------------------------------
(***************************************************************************)
(* At which rate the wallpaper is animated (chromecast/main.cc, a second   *)
(* copy of native_buttons/runtime.cc): a frame every `interval' refreshes, *)
(* chosen from what frames cost and from how many of them are late.  Pure  *)
(* functions of one frame to the next; times and costs are whole numbers   *)
(* of one unit, and kOverlap, kRetryFit and .99f are fractions.            *)
(***************************************************************************)
EXTENDS Integers, FiniteSetsExt

CONSTANTS
    Peak, Refresh,                 \* fastest_period() and vsync_period
    MaximumInterval, LateLimit, PacingWindow, MeasureFrames, SettleFrames,
    FirstHold, LastHold, Unstable, \* durations
    CostMargin, LeadStep, LeadDecay

ASSUME PacingAssumption ==
    /\ {Peak, Refresh, MaximumInterval, LateLimit, PacingWindow, MeasureFrames, FirstHold,
        LastHold} \subseteq Nat \ {0}
    /\ {SettleFrames, Unstable, CostMargin, LeadStep, LeadDecay} \subseteq Nat
    /\ FirstHold <= LastHold

\* Comparisons of a cost with a budget: kOverlap is 6/5, kRetryFit 5/4 of that.
Period(interval) == Max({interval * Peak, Refresh})
Fits(cost, interval) == 5 * cost <= 6 * Period(interval)
AlmostFits(cost, interval) == 2 * cost <= 3 * Period(interval)
Fitting(cost) == Min({MaximumInterval} \cup {i \in 1 .. MaximumInterval : Fits(cost, i)})

\* vsync_after(); \div rounds down, which the code's division does of what is positive.
VsyncAfter(time, origin) ==
    IF time >= origin THEN origin + ((time - origin + Refresh - 1) \div Refresh) * Refresh
    ELSE origin - ((origin - time) \div Refresh) * Refresh

\* change_interval()
ChangeInterval(p, interval) ==
    IF interval = p.interval THEN p
    ELSE [p EXCEPT !.interval = interval, !.window = 0, !.late = 0, !.settling = SettleFrames]

\* reset_pacing(); the cost of the frame before stays.
ResetPacing(previous) ==
    [interval |-> 1, window |-> 0, late |-> 0, settling |-> SettleFrames,
     floor |-> 1, best |-> 0, previous |-> previous, measuring |-> MeasureFrames, measured |-> 0,
     hold |-> FirstHold, fasterAt |-> 0, floorUntil |-> 0, retryAt |-> 0, lead |-> CostMargin]
Measured(p) == [p EXCEPT !.measuring = MeasureFrames, !.measured = 0]
-------------------------------------------------------------------------------
(* pace(), in the order of its steps.                                      *)

FullLead == Max({Refresh, CostMargin})

\* "Late frames first start earlier".
Leads(p, late) ==
    IF p.settling > 0 THEN [p EXCEPT !.settling = @ - 1]
    ELSE IF late = 0 THEN [p EXCEPT !.lead = Max({CostMargin, @ - LeadDecay})]
    ELSE IF p.lead < FullLead THEN [p EXCEPT !.lead = Min({FullLead, @ + LeadStep * late})]
    ELSE [p EXCEPT !.late = @ + late]

Measures(p, cost) ==
    LET falling == 100 * cost < 99 * p.previous /\ p.measured < 2 * MeasureFrames
        left == IF p.measuring > 1 \/ ~falling THEN p.measuring - 1 ELSE p.measuring
        best == IF p.measuring = 0 THEN Min({p.best, cost}) ELSE IF left = 0 THEN cost ELSE p.best
    IN [p EXCEPT !.best = best, !.previous = cost,
                 !.measuring = IF @ = 0 THEN 0 ELSE left,
                 !.measured = IF p.measuring = 0 THEN @ ELSE @ + 1]

Counts(p) ==
    CASE p.late >= LateLimit ->
           [p EXCEPT !.floor = Min({p.interval + 1, MaximumInterval}), !.window = 0, !.late = 0]
      [] p.late < LateLimit /\ p.window + 1 = PacingWindow -> [p EXCEPT !.window = 0, !.late = 0]
      [] OTHER -> [p EXCEPT !.window = @ + 1]

\* Mutant of Lowers: an old hold goes on for a floor that is new.
LowersSooner(p, slot) ==
    IF p.floor > 1 /\ p.late = 0 /\ slot >= p.floorUntil THEN [p EXCEPT !.floor = @ - 1] ELSE p

Lowers(p, slot) ==
    IF p.floor > p.interval THEN [p EXCEPT !.floorUntil = 0]
    ELSE IF p.floor > 1 /\ p.late = 0 /\ slot >= p.floorUntil THEN [p EXCEPT !.floor = @ - 1]
    ELSE p

Wanted(p) == Max({p.floor, IF p.measuring = 0 THEN Fitting(p.best) ELSE p.interval})

\* "After a hold the next faster rate is measured again".
Retries(p, slot) ==
    /\ Wanted(p) = p.interval /\ p.interval > 1 /\ p.floor < p.interval
    /\ p.measuring = 0 /\ p.late = 0 /\ slot >= p.retryAt
    /\ AlmostFits(p.best, p.interval - 1)

Slower(p, slot) ==
    LET hold == IF p.fasterAt # 0 /\ slot - p.fasterAt < Unstable THEN Min({p.hold * 2, LastHold})
                ELSE FirstHold
        q == [p EXCEPT !.hold = hold, !.fasterAt = 0, !.retryAt = slot + hold,
                       !.floorUntil = IF @ = 0 THEN slot + hold ELSE @]
    IN IF p.measuring > 0 THEN Measured(q) ELSE q

Chosen(p, slot) ==
    LET interval == IF Retries(p, slot) THEN p.interval - 1 ELSE Wanted(p)
        q == IF Retries(p, slot) THEN Measured(p) ELSE p
    IN ChangeInterval(CASE interval < p.interval -> [q EXCEPT !.fasterAt = slot]
                        [] interval > p.interval -> Slower(q, slot)
                        [] OTHER -> q,
                      interval)

Pace(p, slot, late, cost) ==
    Chosen(Lowers(Counts(Measures(Leads(p, late), cost)), slot), slot)
===============================================================================
