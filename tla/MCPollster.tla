------------------------------- MODULE MCPollster -------------------------------
(***************************************************************************)
(* Pollster with three fds, so that one can be handed out again while      *)
(* events of the others are dispatched, and an epoll_wait that reports two *)
(* of them or one and the close pipe.                                      *)
(***************************************************************************)
EXTENDS Pollster, TLC

FdSymmetry == Permutations(Fd)
================================================================================
