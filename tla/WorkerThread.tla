----------------------------- MODULE WorkerThread -----------------------------
(***************************************************************************)
(* What main.rs relies on about the thread it spawns and joins: the thread *)
(* returns Ok only after a byte was written to the close pipe, and it may  *)
(* fail or panic at any time.  Pollster is shown to implement this, and    *)
(* Lifecycle uses it in place of the thread.                               *)
(***************************************************************************)

VARIABLES state,       \* "run", or the Result that join will return
          close_byte   \* the main thread has written to the close pipe

tvars == <<state, close_byte>>

Init == state = "run" /\ close_byte = FALSE

(* Once the thread has ended its end of the pipe is closed, and a write    *)
(* fails instead.                                                          *)
Notify ==
    /\ state = "run" /\ ~close_byte
    /\ close_byte' = TRUE
    /\ UNCHANGED state

Return ==
    /\ state = "run" /\ close_byte
    /\ state' = "ok"
    /\ UNCHANGED close_byte

Fail ==
    /\ state = "run"
    /\ state' \in {"err", "panic"}
    /\ UNCHANGED close_byte

Next == Notify \/ Return \/ Fail

Spec == Init /\ [][Next]_tvars
================================================================================
