--------------------------- MODULE MCSessionMailbox ---------------------------
(* Model checking of SessionMailbox: three commands and three editions let a *)
(* command be replaced both before and while it runs and publishes.          *)
EXTENDS SessionMailbox
===============================================================================
