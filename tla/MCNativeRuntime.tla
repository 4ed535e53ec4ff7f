---------------------------- MODULE MCNativeRuntime ----------------------------
(* Model checking of NativeRuntime: with four commands a surface, an input,  *)
(* a redraw or snapshot and a detach or stop meet; timeouts come on top.     *)
(* What the inputs are that it is sent is checked beside it: gestures share  *)
(* nothing with its threads.                                                 *)
EXTENDS NativeRuntime, TouchEvents

NoneRestored == -1
BadFile == -2
Files == {BadFile, 1}
Restored == {NoneRestored, 0}
GoodFile == {1}
NothingRestored == {NoneRestored}

\* A button at two places and one of slop, nothing beside it.
Screen == 0 .. 3
Button == [x \in Screen |-> IF x < 3 THEN "add" ELSE NoControl]

(* The input that the rendering thread is sent is what the touches on the  *)
(* screen say, whatever order fingers come, move and leave in: see         *)
(* EveryTouch (handle_motion() and apply_touch()).                         *)
TapsAreWhole == main.at # "idle" => EveryTouch
================================================================================
