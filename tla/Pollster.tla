------------------------------- MODULE Pollster -------------------------------
(***************************************************************************)
(* src/src/pollster.rs over any ChannelManager that keeps to what this     *)
(* module calls a handler: every call may register, modify and unregister  *)
(* fds, and close and open files, as those of IOSockChannelManager do.     *)
(* (The BlockingChannelManager of the tests does whatever it is told.)     *)
(*                                                                         *)
(* Fds are numbers the kernel hands out again: a file opened in one        *)
(* handler may get the number of a file an earlier handler of the same     *)
(* batch has closed.  What the manager must keep to for that to be safe is *)
(* that a handler drops no fd but the one it was called for, and opens     *)
(* nothing after that; IOSock is shown to implement this specification, so *)
(* its manager does.  The assertions of the PolledFdSet are evaluated, and *)
(* it is a property that those on registering and unregistering hold.      *)
(***************************************************************************)
EXTENDS PolledFds, FiniteSets

CONSTANT MaxFds      \* POLLSTER_MAX_FDS
ASSUME MaxFdsAssumption == MaxFds \in Nat \ {0}

VARIABLES
    pc,          \* "new", "wait", "dispatch", or how run ended: see Endings
    fds,         \* the PolledFdSet
    epoll,       \* the epoll instance
    open,        \* the fds that are open
    mine,        \* those of them the manager still has as its channels
    batch,       \* the actions of this epoll_wait still to be dispatched
    cur,         \* the fds whose event is being dispatched: none or one
    final,       \* final_iteration
    close_byte   \* the close pipe has a byte in it

vars == <<pc, fds, epoll, open, mine, batch, cur, final, close_byte>>

Running == {"new", "wait", "dispatch"}

(* "assert": an assertion on registering or unregistering has failed;      *)
(* "panic": another one has, of the set or of the manager.                 *)
Endings == {"ok", "err", "panic", "assert"}

Acts == {"IN", "OUT", "HUP"}   \* HUP stands for EPOLLHUP and EPOLLERR

NoEvents == [fd \in Fd |-> {}]

Init ==
    /\ pc = "new"
    /\ fds = EmptyFdSet
    /\ epoll = NoEpoll
    /\ open \in SUBSET Fd
    /\ mine \in SUBSET open
    /\ batch = NoEvents
    /\ cur = {}
    /\ final = FALSE
    /\ close_byte = FALSE

(* run has returned or unwound, and the manager and its files are dropped. *)
End(how) ==
    /\ pc \in Running
    /\ pc' = how
    /\ fds' = EmptyFdSet
    /\ epoll' = NoEpoll
    /\ open' = {}
    /\ mine' = {}
    /\ batch' = NoEvents
    /\ cur' = {}
    /\ final' = FALSE
    /\ UNCHANGED close_byte

(* apply_poll_updates of a set; a refusal of epoll_ctl ends run.           *)
ApplyUpdates(fs) ==
    IF UpdatesAccepted(fs, epoll, Fd)
    THEN /\ pc' = "wait"
         /\ fds' = UpdatedFds(fs)
         /\ epoll' = UpdatedEpoll(fs, epoll)
         /\ UNCHANGED <<open, mine, batch, cur, final, close_byte>>
    ELSE End("err")

(* A file can be one epoll does not take (EPERM), and a call of the        *)
(* manager or one of its own assertions may fail: run ends.                *)
Failure == \E how \in {"err", "panic"} : End(how)

(* Pollster::new: initialize registers some of the manager's files.        *)
NewPollster ==
    /\ pc = "new"
    /\ \E wanted \in [Fd -> SUBSET Events], new \in SUBSET mine :
          /\ \A fd \in Fd \ new : wanted[fd] = {}
          /\ ApplyUpdates([EmptyFdSet EXCEPT !.new = new, !.new_events = wanted])

(* epoll::wait returns at most MaxFds targets, the close pipe being one.   *)
Wait ==
    /\ pc = "wait"
    /\ batch' \in [Fd -> SUBSET Acts]
    /\ \A fd \in Fd :
          batch'[fd] # {} => fd \in epoll.fds /\ batch'[fd] \subseteq epoll.mask[fd] \cup {"HUP"}
    /\ final' \in {FALSE, close_byte}
    /\ LET n == Cardinality({fd \in Fd : batch'[fd] # {}}) + (IF final' THEN 1 ELSE 0)
       IN  n \in 1 .. MaxFds
    /\ pc' = "dispatch"
    /\ UNCHANGED <<fds, epoll, open, mine, cur, close_byte>>

(* A variant of Turn that dispatches the actions of a batch in any order.  *)
TurnUnordered(fd, a) == pc = "dispatch" /\ a \in batch[fd]

(* The loop over a batch: its events in any order, the actions of one      *)
(* event together, and IN before OUT before HUP.                           *)
Turn(fd, a) ==
    /\ pc = "dispatch"
    /\ cur \subseteq {fd}
    /\ a \in batch[fd]
    /\ a = "OUT" => "IN" \notin batch[fd]
    /\ a = "HUP" => batch[fd] = {"HUP"}

(* A handler has been called and waits in a system call.                   *)
Enter(fd) ==
    /\ \E a \in Acts : Turn(fd, a)
    /\ cur' = {fd}
    /\ UNCHANGED <<pc, fds, epoll, open, mine, batch, final, close_byte>>

(* The assertion of modify (polled_fd.rs:111) fails for g.                 *)
Refused(fs, g) == Modify(fs, g, "IN", TRUE).failed # "none"

(* The sets that any calls of modify for some of the held fds lead to.     *)
Modified(fs, held) ==
    [existing : {fs.existing}, event : {fs.event}, new : {fs.new},
     removed : {fs.removed}, failed : {fs.failed},
     new_events : {asked \in [Fd -> SUBSET Events] : \A g \in Fd :
                     asked[g] # fs.new_events[g] => g \in held /\ ~Refused(fs, g)}]

(* The handler of a on fd, which has made fs of the set and left files     *)
(* open and held with the manager, modifies some of those and returns; or  *)
(* an assertion of the set fails on the way.                               *)
Returned(fd, a, fs, files, held) ==
    \/ fs.failed # "none" /\ End("assert")
    \/ /\ fs.failed = "none"
       /\ \E g \in held : Refused(fs, g)
       /\ End("panic")
    \/ /\ fs.failed = "none"
       /\ fds' \in Modified(fs, held)
       /\ epoll' = Closed(epoll, open \ files)
       /\ open' = files
       /\ mine' = held
       /\ batch' = [batch EXCEPT ![fd] = @ \ {a}]
       /\ cur' = IF batch[fd] = {a} THEN {} ELSE {fd}
       /\ UNCHANGED <<pc, final, close_byte>>

(* What a handler does about files: nothing,                               *)
KeepFds(fd, a) == Returned(fd, a, fds, open, mine)

(* Variants: a closed fd is unregistered as an open one is; not at all.    *)
CloseFdAsOpen(fd, a) ==
    fd \in mine /\ Returned(fd, a, Unregister(fds, fd), open \ {fd}, mine \ {fd})

CloseFdOnly(fd, a) ==
    fd \in mine /\ Returned(fd, a, fds, open \ {fd}, mine \ {fd})

(* or it closes the file it was called for, if it still has that,          *)
CloseFd(fd, a) ==
    fd \in mine /\ Returned(fd, a, UnregisterClosed(fds, fd), open \ {fd}, mine \ {fd})

(* or leaves it to others,                                                 *)
LeaveFd(fd, a) ==
    fd \in mine /\ Returned(fd, a, Unregister(fds, fd), open, mine \ {fd})

(* or opens one, which gets any number that is free.                       *)
OpenFd(fd, a) ==
    /\ fd \in mine
    /\ \E g \in Fd \ open, events \in SUBSET Events :
          Returned(fd, a, Register(fds, g, events), open \cup {g}, mine \cup {g})

Handler(fd, a) ==
    /\ Turn(fd, a)
    /\ KeepFds(fd, a) \/ CloseFd(fd, a) \/ LeaveFd(fd, a) \/ OpenFd(fd, a)

(* Variants: one that does not get to the end of a batch,                  *)
EndBatchEarly ==
    /\ pc = "dispatch"
    /\ IF final THEN End("ok") ELSE ApplyUpdates(fds)

(* and one that returns as soon as a batch is done.                        *)
EndBatchReturns ==
    /\ pc = "dispatch"
    /\ batch = NoEvents
    /\ End("ok")

(* After the batch: return, or tell epoll what changed.                    *)
EndBatch ==
    /\ pc = "dispatch"
    /\ batch = NoEvents
    /\ IF final THEN End("ok") ELSE ApplyUpdates(fds)

(* The main thread writes to the close pipe.                               *)
Notify ==
    /\ pc \in Running
    /\ ~close_byte
    /\ close_byte' = TRUE
    /\ UNCHANGED <<pc, fds, epoll, open, mine, batch, cur, final>>

Next ==
    \/ NewPollster \/ Wait \/ EndBatch \/ Notify \/ Failure
    \/ \E fd \in Fd : Enter(fd)
    \/ \E fd \in Fd, a \in Acts : Handler(fd, a)

Spec == Init /\ [][Next]_vars

--------------------------------------------------------------------------------
(* Properties.                                                             *)

(* Every variable of the loop has its type.  The manager has no file that  *)
(* is closed, one event is dispatched at a time, and no action is left     *)
(* over outside of a batch.                                                *)
TypeOK ==
    /\ pc \in Running \cup Endings
    /\ fds \in FdSets
    /\ epoll \in Epolls
    /\ open \subseteq Fd /\ mine \subseteq open
    /\ batch \in [Fd -> SUBSET Acts]
    /\ cur \subseteq Fd /\ \A fd, g \in cur : fd = g
    /\ pc # "dispatch" => batch = NoEvents /\ cur = {}
    /\ final \in BOOLEAN /\ close_byte \in BOOLEAN

(* No assertion on registering or unregistering fails (polled_fd.rs:83-97, *)
(* 130, 146), in a manager that looks only at the files it has and never   *)
(* at the set: the number of a file it opens is not registered any more,   *)
(* though it may have been until the handler before; and a file that has   *)
(* an event and is still the manager's is registered and processed.        *)
CallsAccepted == pc # "assert"

(* Whatever a batch of handlers closed, opened and changed, when the loop  *)
(* is back at epoll_wait the PolledFdSet and the kernel agree on every fd, *)
(* and neither has one that is closed (polled_fd.rs:159-185).              *)
InSync ==
    pc = "wait" =>
        /\ fds.existing = epoll.fds /\ epoll.fds \subseteq open
        /\ fds.event = epoll.mask /\ fds.new_events = epoll.mask
        /\ fds.new = {} /\ fds.removed = {}

(* No epoll_ctl that a batch leads to is refused: nothing is modified or   *)
(* removed that a close has already taken out of the instance, nothing is  *)
(* added twice (pollster.rs:50-68, the ? of which would end the loop).     *)
NeverRefused ==
    (pc = "dispatch" /\ batch = NoEvents) => UpdatesAccepted(fds, epoll, Fd)

(* An fd number is handed out again only when no event of the batch is     *)
(* left that was reported for its former file: the actions of one event    *)
(* are dispatched together (pollster.rs:94-105), so that no handler takes  *)
(* the hangup of a file that is gone for one of the file now there.        *)
NoStaleEvent ==
    [][\A fd \in open' \ open : batch[fd] = {} /\ batch'[fd] = {}]_vars

Thread == INSTANCE WorkerThread
          WITH state <- IF pc \in Running THEN "run"
                        ELSE IF pc = "assert" THEN "panic" ELSE pc

(* The loop keeps the contract main.rs relies on when it joins the thread: *)
(* it returns Ok only after the close byte (pollster.rs:84-92, 107-113).   *)
RunsAsThread == Thread!Spec
================================================================================
