------------------------------- MODULE GoTimer -------------------------------
(***************************************************************************)
(* A time.Timer as the two select loops of the program use it: its channel *)
(* holds one value, and Stop says whether the timer was still running.     *)
(***************************************************************************)

\* "zero": a timer nobody made; "running"; "fired": its value waits in the
\* channel; "idle": stopped, or its value has been received.
TimerState == {"zero", "running", "fired", "idle"}

\* `if !timer.Stop() { <-timer.C }`.  Stop panics on a zero timer.  It returns
\* false for a timer that fired or is idle, and then the receive waits for a
\* value: one that has been taken before never comes again.
\* Mutant: nothing is received after Stop.
Drains_stopOnly(timer) == timer # "zero"
Drains(timer) == timer \in {"running", "fired"}
Panics(timer) == timer = "zero"
=============================================================================
