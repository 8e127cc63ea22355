------------------------------- MODULE PolledFds -------------------------------
(***************************************************************************)
(* src/src/polled_fd.rs and the epoll_ctl calls of pollster.rs as          *)
(* operators on a PolledFdSet.  The Rust set has three vectors; here       *)
(*                                                                         *)
(*   existing    the fds of the vector existing                            *)
(*   event       for each of them, the events last given to epoll          *)
(*   new_events  for each of them, the events now asked for; for an fd of  *)
(*               new, the events it was registered with                    *)
(*   new         the fds registered and not yet given to epoll             *)
(*   removed     the fds unregistered and not yet taken from epoll         *)
(*   failed      the method whose assertion failed, or "none"              *)
(*                                                                         *)
(* A failed assertion unwinds the worker thread, so what the set holds     *)
(* after it is never looked at again.                                      *)
(***************************************************************************)
EXTENDS Integers

CONSTANT Fd          \* the file descriptors a channel manager may own

Events == {"IN", "OUT"}   \* EPOLLIN and EPOLLOUT; HUP and ERR need no asking

FdSets == [existing : SUBSET Fd, event : [Fd -> SUBSET Events],
           new_events : [Fd -> SUBSET Events], new : SUBSET Fd,
           removed : SUBSET Fd,
           failed : {"none", "register", "modify", "unregister"}]

(* PolledFdSet::new                                                        *)
EmptyFdSet ==
    [existing |-> {}, event |-> [f \in Fd |-> {}],
     new_events |-> [f \in Fd |-> {}], new |-> {}, removed |-> {},
     failed |-> "none"]

Register(fs, fd, events) ==
    IF fd \in fs.existing \cup fs.new
    THEN [fs EXCEPT !.failed = "register"]
    ELSE [fs EXCEPT !.new = @ \cup {fd}, !.new_events[fd] = events]

(* modify with poll_for_read or poll_for_write: e is asked for or not.     *)
Modify(fs, fd, e, on) ==
    IF fd \notin fs.existing
    THEN [fs EXCEPT !.failed = "modify"]
    ELSE [fs EXCEPT !.new_events[fd] = IF on THEN @ \cup {e} ELSE @ \ {e}]

(* The fd leaves the vector existing.                                      *)
Forgotten(fs, fd) ==
    [fs EXCEPT !.existing = @ \ {fd}, !.event[fd] = {}, !.new_events[fd] = {}]

Unregister(fs, fd) ==
    IF fd \notin fs.existing
    THEN [fs EXCEPT !.failed = "unregister"]
    ELSE [Forgotten(fs, fd) EXCEPT !.removed = @ \cup {fd}]

UnregisterClosed(fs, fd) ==
    IF fd \notin fs.existing
    THEN [fs EXCEPT !.failed = "unregister"]
    ELSE Forgotten(fs, fd)

--------------------------------------------------------------------------------
(* The kernel's side: an epoll instance is the set of its fds and, for     *)
(* each of them, the events it reports.                                    *)

Epolls == [fds : SUBSET Fd, mask : [Fd -> SUBSET Events]]

NoEpoll == [fds |-> {}, mask |-> [f \in Fd |-> {}]]

(* Closing the last descriptor of a file takes it out of the instance.     *)
Closed(ep, fds) ==
    [fds |-> ep.fds \ fds,
     mask |-> [f \in Fd |-> IF f \in fds THEN {} ELSE ep.mask[f]]]

(* apply_updates, in its order: EPOLL_CTL_MOD for what was modified, ADD   *)
(* for what is new, DEL for what was unregistered.  An fd cannot be        *)
(* modified or deleted unless it is in the instance (ENOENT), nor added    *)
(* when it is (EEXIST) or when its file cannot be polled (EPERM).          *)
Dirty(fs) == {f \in fs.existing : fs.event[f] # fs.new_events[f]}

UpdatesAccepted(fs, ep, pollable) ==
    /\ Dirty(fs) \subseteq ep.fds
    /\ fs.new \cap ep.fds = {}
    /\ fs.new \subseteq pollable
    /\ fs.removed \subseteq ep.fds \cup fs.new

UpdatedFds(fs) ==
    [fs EXCEPT !.existing = @ \cup fs.new, !.event = fs.new_events,
               !.new = {}, !.removed = {}]

(* A variant that tells epoll of new fds only.                             *)
UpdatedEpollAddOnly(fs, ep) ==
    [fds |-> (ep.fds \cup fs.new) \ fs.removed,
     mask |-> [f \in Fd |-> IF f \in fs.removed THEN {}
                            ELSE IF f \in fs.new THEN fs.new_events[f] ELSE ep.mask[f]]]

UpdatedEpoll(fs, ep) ==
    [fds |-> (ep.fds \cup fs.new) \ fs.removed,
     mask |-> [f \in Fd |-> IF f \in fs.removed THEN {}
                            ELSE IF f \in Dirty(fs) \cup fs.new
                            THEN fs.new_events[f] ELSE ep.mask[f]]]
================================================================================
