------------------------------ MODULE TouchEvents ------------------------------
(***************************************************************************)
(* The touches that Android reports to the bird app, event by event, what  *)
(* Gestures makes of them, and what it should make of them.                *)
(***************************************************************************)
EXTENDS Gestures

CONSTANTS
    Fingers,     \* the identifiers of pointers
    MaxSamples,  \* bound: positions that Android batches in one MOVE
    MaxEvents    \* bound: events of the touches that are looked at

ASSUME TouchAssumption ==
    /\ Fingers \subseteq Nat /\ Fingers # {} /\ IsFiniteSet(Fingers)
    /\ MaxSamples \in Nat \ {0} /\ MaxEvents \in Nat

\* A touch: the gestures, the places of the fingers on the screen and, of one that began
\* with a DOWN and was not interrupted, whether it is of one finger, and all its places.
Nothing == [s |-> Untouched, at |-> <<>>, live |-> FALSE, alone |-> FALSE, first |-> 0, been |-> {}]
\* Android gives a new pointer the least identifier that is free.
NewFinger(t) == Min(Fingers \ DOMAIN t.at)
With(at, f, x) == [g \in DOMAIN at \cup {f} |-> IF g = f THEN x ELSE at[g]]
Without(at, f) == [g \in DOMAIN at \ {f} |-> at[g]]
Been(t, xs) == {x \in Places : t.alone /\ (x \in t.been \/ x \in ToSet(xs))}

\* A CANCEL takes the fingers away; a callback of the activity interrupts too, but does not.
\* One finger moves in an event.
Events ==
    {[kind |-> kind, f |-> 0, xs |-> <<x>>] : kind \in {"down", "pointer_down", "up"}, x \in Places}
    \cup {[kind |-> "pointer_up", f |-> f, xs |-> <<>>] : f \in Fingers}
    \cup {[kind |-> kind, f |-> 0, xs |-> <<>>] : kind \in {"cancel", "callback"}}
    \cup {[kind |-> "move", f |-> f, xs |-> xs] :
             f \in Fingers, xs \in UNION {[1 .. n -> Places] : n \in 1 .. MaxSamples}}
Happens(t, e) ==
    LET fingers == DOMAIN t.at
    IN CASE e.kind = "down" -> fingers = {}
         [] e.kind = "pointer_down" -> fingers \notin {{}, Fingers}
         [] e.kind = "pointer_up" -> e.f \in fingers /\ fingers # {e.f}
         [] e.kind = "up" -> Cardinality(fingers) = 1
         [] e.kind = "move" -> e.f \in fingers
         [] OTHER -> TRUE
Samples(t, e) == [i \in DOMAIN e.xs |-> [t.at EXCEPT ![e.f] = e.xs[i]]]

Silent(s) == [s EXCEPT !.tapped = NoControl, !.turned = FALSE, !.pinches = {}]
After(t, e) ==
    LET s == Silent(t.s)
    IN CASE e.kind = "down" ->
              [s |-> Down(s, e.xs[1]), at |-> With(t.at, NewFinger(t), e.xs[1]), live |-> TRUE,
               alone |-> TRUE, first |-> e.xs[1], been |-> {e.xs[1]}]
         [] e.kind = "pointer_down" ->
              LET at == With(t.at, NewFinger(t), e.xs[1])
              IN [t EXCEPT !.s = PointerChange(s, at), !.at = at, !.alone = FALSE, !.been = {}]
         [] e.kind = "pointer_up" ->
              [t EXCEPT !.s = PointerChange(s, Without(t.at, e.f)), !.at = Without(t.at, e.f)]
         [] e.kind = "up" ->
              [t EXCEPT !.s = Up(s, e.xs[1]), !.at = <<>>, !.live = FALSE, !.been = Been(t, e.xs)]
         [] e.kind = "move" ->
              [t EXCEPT !.s = Move(s, Samples(t, e)), !.at = Last(Samples(t, e)), !.been = Been(t, e.xs)]
         [] OTHER ->
              [t EXCEPT !.s = CancelGestures(s), !.live = FALSE, !.alone = FALSE, !.been = {},
                        !.at = IF e.kind = "cancel" THEN <<>> ELSE t.at]
OneMore(touches) == {IF Happens(t, e) THEN After(t, e) ELSE t : t \in touches, e \in Events}
Touches[n \in 0 .. MaxEvents] == IF n = 0 THEN {Nothing} ELSE OneMore(Touches[n - 1])

\* The spans of two fingers before and after each sample of a move, if both can be told.
Spans(samples, f, g) ==
    {p \in {<<Distance(samples[i][f], samples[i][g]), Distance(samples[i + 1][f], samples[i + 1][g])>> :
                i \in 1 .. Len(samples) - 1} : p[1] >= MinimumSpan /\ p[2] >= MinimumSpan}

TapsOnce(t, e, s) ==
    s.tapped = IF /\ e.kind = "up" /\ t.live /\ t.alone
                  /\ \A x \in Been(t, e.xs) : HitTest[x] = HitTest[t.first] /\ Distance(x, t.first) <= Slop
               THEN HitTest[t.first] ELSE NoControl
TurnsAlone(t, e, s) ==
    s.turned <=> /\ e.kind = "move" /\ t.live /\ t.alone /\ HitTest[t.first] = NoControl
                 /\ ToSet(e.xs) # {t.at[e.f]}
PinchesAsSpread(t, e, s) ==
    IF e.kind = "move" /\ t.live /\ Cardinality(DOMAIN t.at) > 1
    THEN \E f, g \in DOMAIN t.at : f # g /\ s.pinches = Spans(<<t.at>> \o Samples(t, e), f, g)
    ELSE s.pinches = {}

(* Whatever order fingers come, move and leave in: a button is tapped when  *)
(* the only finger of a touch is lifted that never left it or moved beyond  *)
(* the slop; a finger that is alone all along turns the camera; the zoom    *)
(* follows the spans of the same two fingers.  "Once a pinch starts, the    *)
(* remaining finger cannot become a button tap or jump the orbit camera."   *)
EveryTouch ==
    \A t \in Touches[MaxEvents], e \in Events :
        Happens(t, e) => LET s == After(t, e).s
                         IN TapsOnce(t, e, s) /\ TurnsAlone(t, e, s) /\ PinchesAsSpread(t, e, s)
================================================================================
