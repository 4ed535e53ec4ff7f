-------------------------------- MODULE Gestures --------------------------------
(***************************************************************************)
(* From Android's pointer events to taps, turns and pinches in the bird    *)
(* app: Gestures on the main thread (native_buttons/gestures.cc), and what *)
(* the rendering thread does, in order, with the touches that it is sent   *)
(* (apply_touch() in runtime.cc).  Pure functions of one event to the      *)
(* next.  The screen has one dimension.                                    *)
(***************************************************************************)
EXTENDS Integers, FiniteSetsExt, SequencesExt

CONSTANTS
    Places,  \* on the screen
    HitTest, \* the control, or NoControl, at each place
    Slop     \* Android's touch slop

NoControl == "none"
ASSUME GestureAssumption == Places \subseteq Nat /\ Slop \in Nat \ {0} /\ DOMAIN HitTest = Places

\* Gestures, the pointer's part of Runtime, and what an event leads to.
Untouched ==
    [active |-> FALSE, multitouch |-> FALSE, pair |-> {}, span |-> 0,
     pressed |-> NoControl, dragging |-> FALSE, down |-> 0, last |-> 0,
     tapped |-> NoControl, turned |-> FALSE, pinches |-> {}]
MinimumSpan == 2 * Slop
Distance(x, y) == IF x < y THEN y - x ELSE x - y
-------------------------------------------------------------------------------
(* apply_touch()                                                           *)

Moved(s, x) == Distance(x, s.down) > Slop
Releases(s) == [s EXCEPT !.pressed = NoControl, !.dragging = FALSE]

TouchDown(s, x) == [s EXCEPT !.pressed = HitTest[x], !.dragging = HitTest[x] = NoControl,
                             !.down = x, !.last = x]
TouchMove(s, x) == [s EXCEPT !.turned = @ \/ (s.dragging /\ x # s.last), !.last = x,
                             !.pressed = IF Moved(s, x) \/ HitTest[x] # @ THEN NoControl ELSE @]
\* "Check the release too, even when Android did not send a MOVE."
TouchUp(s, x) ==
    LET tap == s.pressed # NoControl /\ HitTest[x] = s.pressed /\ ~Moved(s, x)
    IN [Releases(s) EXCEPT !.tapped = IF tap THEN s.pressed ELSE @, !.last = x]
TouchCancel(s) == [Releases(s) EXCEPT !.last = 0]
-------------------------------------------------------------------------------
(* update_pinch(), of the pointers' places without the one that is lifted. *)

FirstTwo(fingers) == LET first == Min(fingers) IN {first, Min(fingers \ {first})}
Span(pair, at) == LET first == Min(pair) IN Distance(at[first], at[Max(pair)])

Pinched(s, scale, pair, span) ==
    [s EXCEPT !.span = span, !.pair = pair,
              !.pinches = IF scale /\ pair = s.pair /\ s.span >= MinimumSpan
                            THEN @ \cup {<<s.span, span>>} ELSE @]

UpdatePinch(s, at, scale) ==
    LET there == DOMAIN at
        pair == IF s.pair # {} /\ s.pair \subseteq there THEN s.pair ELSE FirstTwo(there)
    IN IF Cardinality(there) < 2 THEN [s EXCEPT !.span = 0, !.pair = {}]
       ELSE IF Span(pair, at) < MinimumSpan THEN [s EXCEPT !.span = 0, !.pair = pair]
       ELSE Pinched(s, scale, pair, Span(pair, at))
-------------------------------------------------------------------------------
(* cancel_gestures() and handle_motion()                                   *)

CancelGestures(s) ==
    TouchCancel([s EXCEPT !.active = FALSE, !.multitouch = FALSE, !.span = 0, !.pair = {}])

Down(s, x) == TouchDown([CancelGestures(s) EXCEPT !.active = TRUE], x)

Up(s, x) == IF ~s.active THEN s
            ELSE CancelGestures(IF s.multitouch THEN s ELSE TouchUp(s, x))

\* Another finger comes, or one of several is lifted: `at' is without it.
Multitouch(s) == [TouchCancel(s) EXCEPT !.multitouch = TRUE]
PointerChange(s, at) == IF s.active THEN UpdatePinch(Multitouch(s), at, FALSE) ELSE s

Sampled(s, at) ==
    IF Cardinality(DOMAIN at) > 1 THEN UpdatePinch(s, at, TRUE)
    ELSE TouchMove(s, at[CHOOSE f \in DOMAIN at : TRUE])

\* "Observe them in order so leaving and returning to a button still cancels it."
MoveEach(s, samples) ==
    LET several == Cardinality(DOMAIN samples[1]) > 1
        begun == IF several /\ ~s.multitouch THEN Multitouch(s) ELSE s
        after[i \in 0 .. Len(samples)] ==
            IF i = 0 THEN begun ELSE Sampled(after[i - 1], samples[i])
    IN IF several \/ ~s.multitouch THEN after[Len(samples)] ELSE s

\* Mutant of Move: the samples before the last are left out.
MoveLast(s, samples) == IF s.active THEN MoveEach(s, <<Last(samples)>>) ELSE s

Move(s, samples) == IF s.active THEN MoveEach(s, samples) ELSE s
===============================================================================
