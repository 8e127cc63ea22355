----------------------------- MODULE MCFlipBuffer -----------------------------
(***************************************************************************)
(* Model-checking instance of FlipBuffer: bytes 0 and 1, a few bytes per   *)
(* page, every sequence of calls.                                          *)
(***************************************************************************)
EXTENDS FlipBuffer

MCByte == {0, 1}
================================================================================
