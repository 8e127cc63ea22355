----------------------------- MODULE PollsterProofs -----------------------------
(***************************************************************************)
(* Proofs about Pollster, for every set of fds, any number of them open,   *)
(* and every MaxFds.                                                       *)
(***************************************************************************)
EXTENDS Pollster, PolledFdsProofs

(* The inductive invariant.  InSync speaks of the loop at epoll_wait only; *)
(* what carries it there is InStep, which holds in the middle of a batch   *)
(* too.  An event is left to be dispatched only for an fd that is open, or *)
(* for the one whose handler has just closed it; and if the manager still  *)
(* has that file, the set has it among the existing ones.                  *)
Inv ==
    /\ pc \in {"new", "wait", "dispatch", "ok", "err", "panic"}
    /\ open \subseteq Fd /\ mine \subseteq open
    /\ batch \in [Fd -> SUBSET Acts]
    /\ cur \subseteq Fd /\ \A fd, g \in cur : fd = g /\ batch[fd] # {}
    /\ pc # "dispatch" => batch = NoEvents /\ cur = {}
    /\ final \in BOOLEAN /\ close_byte \in BOOLEAN
    /\ InStep(fds, epoll, open)
    /\ pc = "new" => fds = EmptyFdSet /\ epoll = NoEpoll
    /\ pc = "wait" => Settled(fds, epoll)
    /\ \A fd \in Fd : batch[fd] # {} => fd \in open \cup cur
    /\ \A fd \in mine : batch[fd] # {} => fd \in fds.existing
    /\ final => close_byte

(* What the loop relies on at its three places follows from it.            *)
LEMMA InvImplies == Inv => TypeOK /\ CallsAccepted /\ InSync /\ NeverRefused
<1> SUFFICES ASSUME Inv PROVE TypeOK /\ CallsAccepted /\ InSync /\ NeverRefused
  OBVIOUS
<1>1. CallsAccepted
  BY DEF Inv, CallsAccepted
<1>2. InSync
  BY DEF Inv, InSync, Settled, InStep
<1>3. NeverRefused
  <2>1. fds.new \subseteq Fd
    BY DEF Inv, InStep, FdSets
  <2> QED BY <2>1, UpdateInStep DEF Inv, NeverRefused
<1>4. TypeOK
  BY DEF Inv, TypeOK, Running, Endings, InStep
<1> QED BY <1>1, <1>2, <1>3, <1>4

(* Pollster::new starts from nothing.                                      *)
LEMMA InitInv == Init => Inv
BY EmptyInStep DEF Init, Inv, NoEvents

(* run that has ended holds nothing.                                       *)
LEMMA EndInv ==
    ASSUME Inv, NEW how \in {"ok", "err", "panic"}, End(how)
    PROVE  Inv'
<1>1. InStep(fds, epoll, open)'
  BY EmptyInStep DEF End
<1> QED BY <1>1 DEF Inv, End, NoEvents

(* apply_poll_updates of a set in step with the instance is not refused,   *)
(* and the loop is back at epoll_wait with nothing pending.                *)
LEMMA ApplyInv ==
    ASSUME Inv, batch = NoEvents, NEW fs, InStep(fs, epoll, open), ApplyUpdates(fs)
    PROVE  Inv' /\ pc' = "wait"
<1>1. fs.new \subseteq Fd
  BY DEF InStep, FdSets
<1>2. UpdatesAccepted(fs, epoll, Fd)
  BY <1>1, UpdateInStep
<1>3. /\ pc' = "wait" /\ fds' = UpdatedFds(fs) /\ epoll' = UpdatedEpoll(fs, epoll)
      /\ UNCHANGED <<open, mine, batch, cur, final, close_byte>>
  BY <1>2 DEF ApplyUpdates
<1>4. InStep(fds', epoll', open') /\ Settled(fds', epoll')
  BY <1>3, UpdateInStep
<1>5. cur = {}
  BY DEF Inv, NoEvents
<1> QED BY <1>3, <1>4, <1>5 DEF Inv, NoEvents

(* What initialize registers is in step with the empty instance.           *)
LEMMA InitializeInStep ==
    ASSUME NEW files, NEW wanted \in [Fd -> SUBSET Events], NEW new \in SUBSET Fd,
           new \subseteq files, \A fd \in Fd \ new : wanted[fd] = {}
    PROVE  InStep([EmptyFdSet EXCEPT !.new = new, !.new_events = wanted], NoEpoll, files)
BY DEF InStep, EmptyFdSet, NoEpoll, FdSets, Epolls, Events

(* What a handler modifies keeps the set in step.                          *)
LEMMA ModifiedInStep ==
    ASSUME NEW fs, NEW ep, NEW files, InStep(fs, ep, files), NEW held,
           NEW g \in Modified(fs, held)
    PROVE  InStep(g, ep, files) /\ g.existing = fs.existing
<1>1. fs \in FdSets
  BY DEF InStep
<1>2. /\ g.existing = fs.existing /\ g.event = fs.event /\ g.new = fs.new
      /\ g.removed = fs.removed /\ g.failed = fs.failed
      /\ g.new_events \in [Fd -> SUBSET Events]
      /\ \A f \in Fd : g.new_events[f] # fs.new_events[f] => ~Refused(fs, f)
  BY DEF Modified
<1>3. \A f \in Fd : ~Refused(fs, f) => f \in fs.existing
  BY DEF Refused, Modify, InStep, FdSets
<1>4. g \in FdSets
  BY <1>1 DEF Modified, FdSets
<1> QED BY <1>2, <1>3, <1>4 DEF InStep

(* A handler of which no registering and unregistering has failed has left *)
(* the set in step and returns, or unwinds on a modify of its own.  A file *)
(* it has opened has a number no event is left for.                        *)
LEMMA ReturnedInv ==
    ASSUME Inv, NEW fd \in Fd, NEW a \in Acts, Turn(fd, a),
           NEW fs, NEW files \in SUBSET Fd, NEW held \in SUBSET files,
           InStep(fs, Closed(epoll, open \ files), files),
           \A g \in files \ open : batch[g] = {},
           \A g \in held : batch[g] # {} => g \in fs.existing,
           open \ files \subseteq {fd},
           Returned(fd, a, fs, files, held)
    PROVE  /\ Inv'
           /\ \A g \in open' \ open : batch[g] = {} /\ batch'[g] = {}
           /\ End("panic") \/ UNCHANGED <<pc, close_byte>>
<1>1. fs.failed = "none"
  BY DEF InStep
<1>2. CASE End("panic")
  BY <1>2, EndInv DEF End
<1>3. CASE /\ fds' \in Modified(fs, held)
           /\ epoll' = Closed(epoll, open \ files)
           /\ open' = files
           /\ mine' = held
           /\ batch' = [batch EXCEPT ![fd] = @ \ {a}]
           /\ cur' = IF batch[fd] = {a} THEN {} ELSE {fd}
           /\ UNCHANGED <<pc, final, close_byte>>
  <2>1. InStep(fds', epoll', open') /\ fds'.existing = fs.existing
    BY <1>3, ModifiedInStep
  <2>2. pc = "dispatch" /\ cur \subseteq {fd} /\ a \in batch[fd]
    BY DEF Turn
  <2>3. \A g \in Fd : batch'[g] # {} => batch[g] # {} /\ (g = fd => cur' = {fd})
    BY <1>3, <2>2 DEF Inv
  <2>4. \A g \in Fd : batch'[g] # {} => g \in open' \cup cur'
    <3> SUFFICES ASSUME NEW g \in Fd, batch'[g] # {}, g # fd
                 PROVE  g \in open'
      BY <2>3
    <3>1. g \in open
      BY <2>2, <2>3 DEF Inv
    <3> QED BY <1>3, <3>1
  <2>5. \A g \in mine' : batch'[g] # {} => g \in fds'.existing
    BY <1>3, <2>1, <2>3
  <2>6. /\ open' \subseteq Fd /\ mine' \subseteq open' /\ batch' \in [Fd -> SUBSET Acts]
        /\ cur' \subseteq Fd /\ \A f, g \in cur' : f = g /\ batch'[f] # {}
    BY <1>3, <2>2 DEF Inv
  <2>7. Inv'
    BY <1>3, <2>1, <2>2, <2>4, <2>5, <2>6 DEF Inv
  <2>8. \A g \in open' \ open : batch[g] = {} /\ batch'[g] = {}
    BY <1>3, <2>3
  <2> QED BY <1>3, <2>7, <2>8
<1> QED BY <1>1, <1>2, <1>3 DEF Returned

(* A handler keeps to the set's assertions: the fd it was called for is    *)
(* existing if the manager still has it, and a file that it opens is not.  *)
LEMMA HandlerInv ==
    ASSUME Inv, NEW fd \in Fd, NEW a \in Acts, Handler(fd, a)
    PROVE  /\ Inv'
           /\ \A g \in open' \ open : batch[g] = {} /\ batch'[g] = {}
           /\ End("panic") \/ UNCHANGED <<pc, close_byte>>
<1>1. Turn(fd, a) /\ pc = "dispatch" /\ cur \subseteq {fd} /\ a \in batch[fd]
  BY DEF Handler, Turn
<1>2. InStep(fds, epoll, open) /\ open \subseteq Fd /\ mine \subseteq open
  BY DEF Inv
<1>3. fd \in mine => fd \in fds.existing
  BY <1>1 DEF Inv
<1>4. open \ open = {} /\ Closed(epoll, {}) = epoll
  BY <1>2, NothingClosed DEF InStep
<1>5. CASE KeepFds(fd, a)
  BY <1>1, <1>2, <1>4, <1>5, ReturnedInv DEF KeepFds, Inv
<1>6. CASE CloseFd(fd, a)
  <2>1. fd \in mine /\ fd \in fds.existing
    BY <1>3, <1>6 DEF CloseFd
  <2>2. InStep(UnregisterClosed(fds, fd), Closed(epoll, {fd}), open \ {fd})
    BY <1>2, <2>1, UnregisterClosedInStep
  <2>3. open \ (open \ {fd}) = {fd}
    BY <1>2, <2>1
  <2>4. UnregisterClosed(fds, fd).existing = fds.existing \ {fd}
    BY <1>2, <2>1, UnregisterClosedParts DEF InStep
  <2>5. \A g \in mine \ {fd} : batch[g] # {} => g \in UnregisterClosed(fds, fd).existing
    BY <2>4 DEF Inv
  <2>6. Returned(fd, a, UnregisterClosed(fds, fd), open \ {fd}, mine \ {fd})
    BY <1>6 DEF CloseFd
  <2> QED BY <1>1, <1>2, <2>2, <2>3, <2>5, <2>6, ReturnedInv
<1>7. CASE LeaveFd(fd, a)
  <2>1. fd \in mine /\ fd \in fds.existing
    BY <1>3, <1>7 DEF LeaveFd
  <2>2. InStep(Unregister(fds, fd), epoll, open)
    BY <1>2, <2>1, UnregisterInStep
  <2>3. Unregister(fds, fd).existing = fds.existing \ {fd}
    BY <1>2, <2>1, UnregisterParts DEF InStep
  <2>4. \A g \in mine \ {fd} : batch[g] # {} => g \in Unregister(fds, fd).existing
    BY <2>3 DEF Inv
  <2>5. Returned(fd, a, Unregister(fds, fd), open, mine \ {fd})
    BY <1>7 DEF LeaveFd
  <2> QED BY <1>1, <1>2, <1>4, <2>2, <2>4, <2>5, ReturnedInv
<1>8. CASE OpenFd(fd, a)
  <2>1. PICK g \in Fd \ open, events \in SUBSET Events :
          Returned(fd, a, Register(fds, g, events), open \cup {g}, mine \cup {g})
    BY <1>8 DEF OpenFd
  <2>2. fd \in open /\ g # fd
    BY <1>2, <1>8 DEF OpenFd
  <2>3. batch[g] = {}
    BY <1>1, <2>2 DEF Inv
  <2>4. g \notin fds.existing \cup fds.new \cup fds.removed
    BY <1>2 DEF InStep
  <2>5. InStep(Register(fds, g, events), epoll, open \cup {g})
    <3>1. InStep(fds, epoll, open \cup {g})
      BY <1>2, MoreOpenInStep
    <3> QED BY <2>4, <3>1, RegisterInStep
  <2>6. Register(fds, g, events).existing = fds.existing
    BY <1>2, <2>4, RegisterParts DEF InStep
  <2>7. open \ (open \cup {g}) = {} /\ (open \cup {g}) \ open = {g}
    OBVIOUS
  <2>8. \A f \in mine \cup {g} : batch[f] # {} => f \in Register(fds, g, events).existing
    BY <2>3, <2>6 DEF Inv
  <2>9. open \cup {g} \in SUBSET Fd /\ mine \cup {g} \in SUBSET (open \cup {g})
    BY <1>2
  <2> QED BY <1>1, <1>4, <2>1, <2>3, <2>5, <2>7, <2>8, <2>9, ReturnedInv
<1> QED BY <1>5, <1>6, <1>7, <1>8 DEF Handler

--------------------------------------------------------------------------------
(* Pollster::new.                                                          *)
LEMMA NewPollsterInv ==
    ASSUME Inv, NewPollster
    PROVE  Inv' /\ pc' = "wait" /\ UNCHANGED <<open, close_byte>>
<1>1. PICK wanted \in [Fd -> SUBSET Events], new \in SUBSET mine :
        /\ \A fd \in Fd \ new : wanted[fd] = {}
        /\ ApplyUpdates([EmptyFdSet EXCEPT !.new = new, !.new_events = wanted])
  BY DEF NewPollster
<1> DEFINE fs == [EmptyFdSet EXCEPT !.new = new, !.new_events = wanted]
<1>2. InStep(fs, epoll, open)
  <2>1. /\ new \in SUBSET Fd /\ new \subseteq open /\ epoll = NoEpoll
        /\ \A fd \in Fd \ new : wanted[fd] = {}
    BY <1>1 DEF Inv, NewPollster
  <2> QED BY <1>1, <2>1, InitializeInStep
<1>3. ApplyUpdates(fs)
  BY <1>1
<1> HIDE DEF fs
<1>4. Inv' /\ pc' = "wait"
  BY <1>2, <1>3, ApplyInv DEF Inv, NewPollster
<1> QED BY <1>3, <1>4 DEF ApplyUpdates, End

(* epoll_wait reports only what is in the instance, which is open.         *)
LEMMA WaitInv ==
    ASSUME Inv, Wait
    PROVE  Inv'
<1>1. /\ \A fd \in Fd : batch'[fd] # {} => fd \in open' \cup cur'
      /\ \A fd \in mine' : batch'[fd] # {} => fd \in fds'.existing
  BY DEF Inv, Wait, InStep, Settled
<1>2. final' \in BOOLEAN /\ (final' => close_byte')
  <2>1. final' = FALSE \/ final' = close_byte
    BY Zenon DEF Wait
  <2>2. close_byte' = close_byte
    BY Zenon DEF Wait
  <2>3. CASE close_byte = TRUE
    BY <2>1, <2>2, <2>3
  <2>4. CASE close_byte = FALSE
    BY <2>1, <2>4
  <2>5. close_byte = TRUE \/ close_byte = FALSE
    BY DEF Inv
  <2> QED BY <2>3, <2>4, <2>5
<1>3. /\ pc' = "dispatch" /\ batch' \in [Fd -> SUBSET Acts]
      /\ UNCHANGED <<fds, epoll, open, mine, cur, close_byte>>
  BY DEF Wait
<1>4. cur = {} /\ cur' = {}
  BY <1>3 DEF Inv, Wait
<1> QED BY <1>1, <1>2, <1>3, <1>4 DEF Inv

(* After the batch run returns, or the loop is back at epoll_wait.         *)
LEMMA EndBatchInv ==
    ASSUME Inv, EndBatch
    PROVE  Inv' /\ IF final THEN End("ok") ELSE pc' = "wait" /\ UNCHANGED <<open, close_byte>>
<1>1. CASE final
  BY <1>1, EndInv DEF EndBatch
<1>2. CASE ~final
  <2>1. ApplyUpdates(fds)
    BY <1>2 DEF EndBatch
  <2>2. Inv' /\ pc' = "wait"
    BY <2>1, ApplyInv DEF Inv, EndBatch
  <2> QED BY <1>2, <2>1, <2>2 DEF ApplyUpdates, End
<1> QED BY <1>1, <1>2

(* Every step of the loop and of the main thread preserves it.             *)
LEMMA NextInv == Inv /\ [Next]_vars => Inv'
<1> SUFFICES ASSUME Inv, [Next]_vars PROVE Inv'
  OBVIOUS
<1>1. CASE NewPollster
  BY <1>1, NewPollsterInv
<1>2. CASE Wait
  BY <1>2, WaitInv
<1>3. CASE EndBatch
  BY <1>3, EndBatchInv
<1>4. CASE Notify
  BY <1>4 DEF Inv, Notify
<1>5. CASE Failure
  BY <1>5, EndInv DEF Failure
<1>6. ASSUME NEW fd \in Fd, Enter(fd)
      PROVE  Inv'
  BY <1>6 DEF Inv, Enter, Turn
<1>7. ASSUME NEW fd \in Fd, NEW a \in Acts, Handler(fd, a)
      PROVE  Inv'
  BY <1>7, HandlerInv
<1>8. CASE UNCHANGED vars
  BY <1>8 DEF Inv, vars
<1> QED BY <1>1, <1>2, <1>3, <1>4, <1>5, <1>6, <1>7, <1>8 DEF Next

(* The invariant holds throughout.                                         *)
LEMMA Invariance == Spec => []Inv
BY InitInv, NextInv, PTL DEF Spec

(* The variables keep their types, the manager has no file that is closed, *)
(* events are dispatched one at a time and all of a batch before the next  *)
(* epoll_wait (pollster.rs:86-113).                                        *)
THEOREM TypeCorrect == Spec => []TypeOK
BY Invariance, InvImplies, PTL

(* No assertion on registering or unregistering fails, in a manager that   *)
(* looks only at the files it has, whatever files it closes, leaves and    *)
(* opens under numbers the kernel hands out again                          *)
(* (polled_fd.rs:83-97, 130, 146).                                         *)
THEOREM CallsCorrect == Spec => []CallsAccepted
BY Invariance, InvImplies, PTL

(* At every epoll_wait the PolledFdSet and the kernel agree, and nothing   *)
(* closed is polled (polled_fd.rs:159-185).                                *)
THEOREM SyncCorrect == Spec => []InSync
BY Invariance, InvImplies, PTL

(* No epoll_ctl that a batch leads to is refused (pollster.rs:50-68).      *)
THEOREM UpdatesCorrect == Spec => []NeverRefused
BY Invariance, InvImplies, PTL

(* An fd number is handed out again only when no event of its former file  *)
(* is left in the batch (pollster.rs:94-105).                              *)
THEOREM EventsCorrect == Spec => NoStaleEvent
<1> DEFINE Fresh == \A fd \in open' \ open : batch[fd] = {} /\ batch'[fd] = {}
<1>1. Inv /\ [Next]_vars => [Fresh]_vars
  <2> SUFFICES ASSUME Inv, Next PROVE Fresh
    OBVIOUS
  <2>1. CASE NewPollster
    BY <2>1, NewPollsterInv
  <2>2. CASE Wait \/ Notify
    BY <2>2 DEF Wait, Notify
  <2>3. CASE EndBatch
    BY <2>3, EndBatchInv DEF End
  <2>4. CASE Failure
    BY <2>4 DEF Failure, End
  <2>5. ASSUME NEW fd \in Fd, Enter(fd)
        PROVE  Fresh
    BY <2>5 DEF Enter
  <2>6. ASSUME NEW fd \in Fd, NEW a \in Acts, Handler(fd, a)
        PROVE  Fresh
    BY <2>6, HandlerInv
  <2> QED BY <2>1, <2>2, <2>3, <2>4, <2>5, <2>6 DEF Next
<1> QED BY <1>1, Invariance, PTL DEF Spec, NoStaleEvent

--------------------------------------------------------------------------------
(* The worker thread main.rs joins.                                        *)

(* run that ends is a step of the thread: it returns only after the close  *)
(* byte.                                                                   *)
LEMMA EndRefines ==
    ASSUME Inv, NEW how \in {"ok", "err", "panic"}, End(how),
           how = "ok" => close_byte
    PROVE  Thread!Next
BY DEF Inv, End, Running, Thread!Next, Thread!Return, Thread!Fail

(* A step within the loop leaves the thread as it is.                      *)
LEMMA LoopRefines ==
    ASSUME pc \in Running, pc' \in Running, UNCHANGED close_byte
    PROVE  UNCHANGED Thread!tvars
BY DEF Thread!tvars

(* The loop is a worker thread that returns Ok only after the close byte   *)
(* (pollster.rs:84-92, 107-113).                                           *)
THEOREM ThreadCorrect == Spec => RunsAsThread
<1>1. Init => Thread!Init
  BY DEF Init, Running, Thread!Init
<1>2. Inv /\ [Next]_vars => [Thread!Next]_(Thread!tvars)
  <2> SUFFICES ASSUME Inv, [Next]_vars
               PROVE  Thread!Next \/ UNCHANGED Thread!tvars
    OBVIOUS
  <2>1. CASE NewPollster
    BY <2>1, NewPollsterInv, LoopRefines DEF NewPollster, Running
  <2>2. CASE Wait
    BY <2>2, LoopRefines DEF Wait, Running
  <2>3. CASE EndBatch
    <3>1. CASE final
      BY <2>3, <3>1, EndBatchInv, EndRefines DEF Inv
    <3>2. CASE ~final
      BY <2>3, <3>2, EndBatchInv, LoopRefines DEF EndBatch, Running
    <3> QED BY <3>1, <3>2
  <2>4. CASE Notify
    BY <2>4 DEF Inv, Notify, Running, Thread!Next, Thread!Notify
  <2>5. CASE Failure
    BY <2>5, EndRefines DEF Failure
  <2>6. ASSUME NEW fd \in Fd, Enter(fd)
        PROVE  UNCHANGED Thread!tvars
    BY <2>6 DEF Enter, Thread!tvars
  <2>7. ASSUME NEW fd \in Fd, NEW a \in Acts, Handler(fd, a)
        PROVE  Thread!Next \/ UNCHANGED Thread!tvars
    <3>1. End("panic") \/ UNCHANGED <<pc, close_byte>>
      BY <2>7, HandlerInv
    <3> QED BY <3>1, EndRefines DEF Thread!tvars
  <2>8. CASE UNCHANGED vars
    BY <2>8 DEF vars, Thread!tvars
  <2> QED BY <2>1, <2>2, <2>3, <2>4, <2>5, <2>6, <2>7, <2>8 DEF Next
<1> QED BY <1>1, <1>2, Invariance, PTL DEF Spec, RunsAsThread, Thread!Spec
================================================================================
