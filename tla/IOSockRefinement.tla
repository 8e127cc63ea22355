---------------------------- MODULE IOSockRefinement ----------------------------
(***************************************************************************)
(* IOSock implements Pollster: the proof that the loop over this channel   *)
(* manager is the loop over a manager whose handlers are a Pollster's, so  *)
(* that what PollsterProofs shows holds of it.                             *)
(***************************************************************************)
EXTENDS IOSockProofs

(* What the worker is to a Pollster.                                       *)
PcBar == CASE pc \in Running -> pc
           [] pc = "done" -> "ok"
           [] pc \in {"err_new", "err_io", "err_epoll"} -> "err"
           [] OTHER -> "panic"

OpenBar == IF pc \in Running THEN {fd \in Fd : Open(fd)} \cup {"console"} ELSE {}

MineBar == IF pc \in Running THEN {fd \in Fd : Open(fd)} ELSE {}

CurBar == {cur} \ {"none"}

(* The operators of the instance are those of PolledFds.                   *)
LEMMA SameOperators ==
    /\ Loop!EmptyFdSet = EmptyFdSet /\ Loop!NoEpoll = NoEpoll
    /\ Loop!NoEvents = [fd \in Fd |-> {}]
    /\ \A fs, ep, p : Loop!UpdatesAccepted(fs, ep, p) <=> UpdatesAccepted(fs, ep, p)
    /\ \A fs : Loop!UpdatedFds(fs) = UpdatedFds(fs)
    /\ \A fs, ep : Loop!UpdatedEpoll(fs, ep) = UpdatedEpoll(fs, ep)
    /\ \A ep, s : Loop!Closed(ep, s) = Closed(ep, s)
    /\ \A fs, fd : Loop!Unregister(fs, fd) = Unregister(fs, fd)
    /\ \A fs, fd : Loop!UnregisterClosed(fs, fd) = UnregisterClosed(fs, fd)
    /\ \A fs, fd, events : Loop!Register(fs, fd, events) = Register(fs, fd, events)
    /\ Loop!Events = Events /\ Loop!Acts = Acts /\ Loop!Running = Running
<1>1. /\ Loop!EmptyFdSet = EmptyFdSet /\ Loop!NoEpoll = NoEpoll
      /\ Loop!NoEvents = [fd \in Fd |-> {}]
      /\ Loop!Events = Events /\ Loop!Acts = Acts /\ Loop!Running = Running
  BY DEF Loop!EmptyFdSet, EmptyFdSet, Loop!NoEpoll, NoEpoll, Loop!NoEvents, Loop!Events, Events,
         Loop!Acts, Acts, Loop!Running, Running
<1>2. \A fs : Loop!Dirty(fs) = Dirty(fs)
  BY DEF Loop!Dirty, Dirty
<1>3. \A fs, ep, p : Loop!UpdatesAccepted(fs, ep, p) <=> UpdatesAccepted(fs, ep, p)
  BY <1>2 DEF Loop!UpdatesAccepted, UpdatesAccepted
<1>4. \A fs : Loop!UpdatedFds(fs) = UpdatedFds(fs)
  BY DEF Loop!UpdatedFds, UpdatedFds
<1>5. \A fs, ep : Loop!UpdatedEpoll(fs, ep) = UpdatedEpoll(fs, ep)
  BY <1>2 DEF Loop!UpdatedEpoll, UpdatedEpoll
<1>6. \A ep, s : Loop!Closed(ep, s) = Closed(ep, s)
  BY DEF Loop!Closed, Closed
<1>7. \A fs, fd : Loop!Forgotten(fs, fd) = Forgotten(fs, fd)
  BY DEF Loop!Forgotten, Forgotten
<1>8. /\ \A fs, fd : Loop!Unregister(fs, fd) = Unregister(fs, fd)
      /\ \A fs, fd : Loop!UnregisterClosed(fs, fd) = UnregisterClosed(fs, fd)
  BY <1>7 DEF Loop!Unregister, Unregister, Loop!UnregisterClosed, UnregisterClosed
<1>9. \A fs, fd, events : Loop!Register(fs, fd, events) = Register(fs, fd, events)
  BY DEF Loop!Register, Register
<1> QED BY <1>1, <1>3, <1>4, <1>5, <1>6, <1>8, <1>9

(* While the worker runs, the files of the loop are those of the manager.  *)
LEMMA OpenFiles ==
    ASSUME mgr \in Manager, pc \in Running
    PROVE  /\ PcBar = pc /\ OpenBar = Files(mgr) /\ MineBar = Channels(mgr)
           /\ OpenBar \subseteq Fd /\ MineBar \subseteq OpenBar
<1>1. {fd \in Fd : Open(fd)} = Channels(mgr) /\ MineBar = Channels(mgr)
  BY OpenChannels DEF MineBar
<1>2. OpenBar = Channels(mgr) \cup {"console"}
  BY <1>1 DEF OpenBar
<1>3. OpenBar \subseteq Fd
  BY FdNames DEF OpenBar
<1> QED BY <1>1, <1>2, <1>3 DEF PcBar, Files, Running

(* Before Pollster::new.                                                   *)
LEMMA InitRefines == Init => Loop!Init
<1> SUFFICES ASSUME Init PROVE Loop!Init
  OBVIOUS
<1>1. pc = "new" /\ mgr \in Manager /\ mgr.fds = EmptyFdSet /\ CurBar = {}
  BY EmptyManagers DEF Init, CurBar
<1>2. PcBar = "new" /\ OpenBar \in SUBSET Fd /\ MineBar \in SUBSET OpenBar
  BY <1>1, OpenFiles DEF Running
<1>3. batch = Loop!NoEvents /\ epoll = Loop!NoEpoll /\ mgr.fds = Loop!EmptyFdSet
      /\ final = FALSE /\ close_byte = FALSE
  BY <1>1, SameOperators DEF Init
<1> QED BY <1>1, <1>2, <1>3 DEF Loop!Init, PcBar, OpenBar, MineBar, CurBar

(* The worker has returned or unwound, and run with it.                    *)
LEMMA StopRefines ==
    ASSUME Inv, pc \in Running, NEW how \in Ended, Stop(how)
    PROVE  Loop!End(CASE how = "done" -> "ok"
                      [] how \in {"err_new", "err_io", "err_epoll"} -> "err"
                      [] OTHER -> "panic")
<1>1. /\ pc' = how /\ mgr' = Dropped /\ batch' = Loop!NoEvents /\ cur' = "none"
      /\ final' = FALSE /\ epoll' = Loop!NoEpoll /\ UNCHANGED close_byte
  BY SameOperators DEF Stop
<1>2. mgr'.fds = Loop!EmptyFdSet
  BY <1>1, EmptyManagers, SameOperators
<1>3. PcBar \in Loop!Running
  BY SameOperators, OpenFiles DEF Inv
<1>4. /\ PcBar' = CASE how = "done" -> "ok"
                    [] how \in {"err_new", "err_io", "err_epoll"} -> "err"
                    [] OTHER -> "panic"
      /\ OpenBar' = {} /\ MineBar' = {} /\ CurBar' = {}
  BY <1>1 DEF PcBar, OpenBar, MineBar, CurBar, Running, Ended
<1> QED BY <1>1, <1>2, <1>3, <1>4 DEF Loop!End, PcBar, OpenBar, MineBar, CurBar

(* The channels are what they were, and so are the files of the loop.      *)
LEMMA SameFiles ==
    ASSUME pc \in Running, pc' \in Running, mgr'.stdio = mgr.stdio,
           mgr'.client = mgr.client, mgr'.console = mgr.console
    PROVE  OpenBar' = OpenBar /\ MineBar' = MineBar
<1>1. \A fd \in Fd : Open(fd)' = Open(fd)
  BY DEF Open, HasClient
<1> QED BY <1>1 DEF OpenBar, MineBar

(* apply_updates was accepted for the files of this manager, and so is for *)
(* those of any.                                                           *)
LEMMA UpdatesRefine ==
    ASSUME pc \in Running, NEW fs, UpdatesAccepted(fs, epoll, Pollable), pc' = "wait",
           mgr'.fds = UpdatedFds(fs), epoll' = UpdatedEpoll(fs, epoll),
           mgr'.stdio = mgr.stdio, mgr'.client = mgr.client, mgr'.console = mgr.console,
           UNCHANGED <<batch, cur, final, close_byte>>
    PROVE  Loop!ApplyUpdates(fs)
<1>1. UpdatesAccepted(fs, epoll, Fd)
  BY DEF UpdatesAccepted, Pollable
<1>2. Loop!UpdatesAccepted(fs, epoll, Fd)
  BY <1>1, SameOperators
<1>3. mgr'.fds = Loop!UpdatedFds(fs) /\ epoll' = Loop!UpdatedEpoll(fs, epoll)
  BY SameOperators
<1>4. PcBar' = "wait" /\ OpenBar' = OpenBar /\ MineBar' = MineBar /\ CurBar' = CurBar
  BY SameFiles DEF PcBar, CurBar, Running
<1> QED BY <1>2, <1>3, <1>4 DEF Loop!ApplyUpdates, PcBar, OpenBar, MineBar, CurBar

(* Pollster::new.                                                          *)
LEMMA NewPollsterRefines ==
    ASSUME Inv, NewPollster
    PROVE  Loop!Next
<1> DEFINE m == initialize(mgr)
           fs == m.fds
<1>1. pc = "new" /\ pc \in Running /\ mgr = NewManager /\ mgr \in Manager /\ ApplyUpdates(m)
  BY DEF NewPollster, Inv, Running
<1>2. CASE Stop("err_new")
  <2>1. Loop!End("err")
    BY <1>1, <1>2, StopRefines DEF Ended
  <2> QED BY <2>1 DEF Loop!Next, Loop!Failure
<1>3. CASE pc' = "wait"
  <2>1. /\ UpdatesAccepted(fs, epoll, Pollable)
        /\ epoll' = UpdatedEpoll(fs, epoll) /\ mgr' = [m EXCEPT !.fds = UpdatedFds(@)]
        /\ UNCHANGED <<batch, cur, final, close_byte>>
    BY <1>1, <1>3 DEF ApplyUpdates, Stop
  <2>2. Fresh(fs, Fd \ {"client"}) /\ m = [NewManager EXCEPT !.fds = fs]
    BY <1>1, InitializeFresh
  <2>3. fs \in FdSets /\ fs.new \subseteq Fd /\ fs.new_events \in [Fd -> SUBSET Events]
    BY <2>2 DEF Fresh, InStep, FdSets
  <2>4. fs.existing = {} /\ fs.removed = {} /\ fs.new = Fd \ {"client"} /\ fs.failed = "none"
    BY <2>2 DEF Fresh, InStep
  <2>5. fs.event = [f \in Fd |-> {}]
    <3>1. \A f \in Fd : fs.event[f] = {}
      BY <2>2, <2>4 DEF Fresh, InStep
    <3> QED BY <2>3, <3>1 DEF FdSets
  <2>6. \A f \in Fd \ fs.new : fs.new_events[f] = {}
    BY <2>2, <2>4 DEF Fresh, InStep
  <2> HIDE DEF fs
  <2>7. mgr' = [NewManager EXCEPT !.fds = UpdatedFds(fs)]
    BY <2>1, <2>2 DEF NewManager, fs
  <2> HIDE DEF m
  <2>8. /\ mgr'.fds = UpdatedFds(fs) /\ mgr'.stdio = mgr.stdio
        /\ mgr'.client = mgr.client /\ mgr'.console = mgr.console
    BY <1>1, <2>7 DEF Manager
  <2>9. Loop!ApplyUpdates(fs)
    BY <1>1, <1>3, <2>1, <2>8, UpdatesRefine
  <2>10. fs = [Loop!EmptyFdSet EXCEPT !.new = fs.new, !.new_events = fs.new_events]
    <3> DEFINE g == [EmptyFdSet EXCEPT !.new = fs.new, !.new_events = fs.new_events]
    <3>1. /\ EmptyFdSet \in FdSets /\ EmptyFdSet.existing = {} /\ EmptyFdSet.removed = {}
          /\ EmptyFdSet.event = [f \in Fd |-> {}] /\ EmptyFdSet.failed = "none"
      BY EmptyInStep DEF InStep, EmptyFdSet
    <3>2. /\ g \in FdSets /\ g.existing = {} /\ g.removed = {} /\ g.failed = "none"
          /\ g.event = [f \in Fd |-> {}] /\ g.new = fs.new /\ g.new_events = fs.new_events
      BY <2>3, <3>1 DEF FdSets
    <3> HIDE DEF g
    <3>3. \A x, y \in FdSets :
            (/\ x.existing = y.existing /\ x.removed = y.removed /\ x.failed = y.failed
             /\ x.event = y.event /\ x.new = y.new /\ x.new_events = y.new_events) => x = y
      BY DEF FdSets
    <3>4. fs = g
      BY <2>3, <2>4, <2>5, <3>2, <3>3
    <3> QED BY <3>4, SameOperators, Zenon DEF g
  <2>11. fs.new \in SUBSET MineBar
    <3>1. Fd \ {"client"} \subseteq Channels(mgr)
      BY <1>1, FdAssumption DEF Channels, NewManager
    <3> QED BY <1>1, <2>4, <3>1, OpenFiles
  <2>12. fs.new_events \in [Fd -> SUBSET Loop!Events]
    BY <2>3, SameOperators
  <2>13. PcBar = "new"
    BY <1>1, OpenFiles
  <2>14. \E wanted \in [Fd -> SUBSET Loop!Events], new \in SUBSET MineBar :
            /\ \A fd \in Fd \ new : wanted[fd] = {}
            /\ Loop!ApplyUpdates([Loop!EmptyFdSet EXCEPT !.new = new, !.new_events = wanted])
    <3>1. /\ \A fd \in Fd \ fs.new : fs.new_events[fd] = {}
          /\ Loop!ApplyUpdates([Loop!EmptyFdSet EXCEPT !.new = fs.new,
                                                       !.new_events = fs.new_events])
      BY <2>6, <2>9, <2>10, Zenon
    <3> QED BY <2>11, <2>12, <3>1, Zenon
  <2>15. Loop!NewPollster
    BY <2>13, <2>14, Zenon DEF Loop!NewPollster, PcBar, OpenBar, MineBar
  <2> QED BY <2>15 DEF Loop!Next
<1> QED BY <1>2, <1>3, NewPollsterInv

(* The end of a batch.                                                     *)
LEMMA EndBatchRefines ==
    ASSUME Inv, EndBatch
    PROVE  Loop!Next
<1>1. pc = "dispatch" /\ pc \in Running /\ mgr \in Manager /\ batch = Loop!NoEvents
  BY SameOperators DEF EndBatch, Inv, Running
<1>2. PcBar = "dispatch"
  BY <1>1, OpenFiles
<1>3. CASE final
  <2>1. Stop("done")
    BY <1>3, EndBatchInv
  <2>2. Loop!End("ok")
    BY <1>1, <2>1, StopRefines DEF Ended
  <2>3. Loop!EndBatch
    BY <1>1, <1>2, <1>3, <2>2 DEF Loop!EndBatch, PcBar
  <2> QED BY <2>3 DEF Loop!Next
<1>4. CASE ~final
  <2>1. /\ pc' = "wait" /\ mgr' = [mgr EXCEPT !.fds = UpdatedFds(@)]
        /\ epoll' = UpdatedEpoll(mgr.fds, epoll) /\ UpdatesAccepted(mgr.fds, epoll, Pollable)
        /\ UNCHANGED <<batch, cur, final, close_byte>>
    BY <1>4, EndBatchInv
  <2>2. /\ mgr'.fds = UpdatedFds(mgr.fds) /\ mgr'.stdio = mgr.stdio
        /\ mgr'.client = mgr.client /\ mgr'.console = mgr.console
    BY <1>1, <2>1 DEF Manager
  <2>3. Loop!ApplyUpdates(mgr.fds)
    BY <1>1, <2>1, <2>2, UpdatesRefine
  <2>4. Loop!EndBatch
    BY <1>1, <1>2, <1>4, <2>3 DEF Loop!EndBatch, PcBar
  <2> QED BY <2>4 DEF Loop!Next
<1> QED BY <1>3, <1>4

(* A step of the others is a stutter of the loop, or the close byte.       *)
LEMMA AroundRefines ==
    ASSUME Inv, Around
    PROVE  [Loop!Next]_(Loop!vars)
<1>1. UNCHANGED <<pc, mgr, batch, cur, final, epoll>> /\ pc \in {"wait", "dispatch"}
  BY DEF Around, World, worker
<1>2. PcBar' = PcBar /\ OpenBar' = OpenBar /\ MineBar' = MineBar /\ CurBar' = CurBar
  BY <1>1, SameFiles DEF PcBar, CurBar, Running
<1>3. CASE UNCHANGED close_byte
  BY <1>1, <1>2, <1>3 DEF Loop!vars, PcBar, OpenBar, MineBar, CurBar
<1>4. CASE NotifyClose
  <2>1. PcBar = pc /\ PcBar \in Loop!Running
    BY <1>1, SameOperators DEF PcBar, Running
  <2>2. Loop!Notify
    BY <1>1, <1>2, <1>4, <2>1 DEF NotifyClose, Loop!Notify, PcBar, OpenBar, MineBar, CurBar
  <2> QED BY <2>2 DEF Loop!Next
<1> QED BY <1>3, <1>4 DEF Around
--------------------------------------------------------------------------------
(* The handlers.                                                           *)

(* What a handler makes of the set by modifying fds.                       *)
LEMMA AltersModified ==
    ASSUME NEW fs \in FdSets, fs.failed = "none", NEW g, Alters(fs, {}, g),
           NEW held, fs.existing \subseteq held
    PROVE  g \in Loop!Modified(fs, held)
<1>1. /\ g \in FdSets /\ g.existing = fs.existing /\ g.event = fs.event /\ g.new = fs.new
      /\ g.removed = fs.removed /\ g.failed = fs.failed
      /\ \A f \in Fd \ fs.existing : g.new_events[f] = fs.new_events[f]
  BY DEF Alters
<1>2. \A f \in fs.existing : ~Loop!Refused(fs, f)
  BY DEF Loop!Refused, Loop!Modify, FdSets
<1>3. \A f \in Fd : g.new_events[f] # fs.new_events[f] => f \in held /\ ~Loop!Refused(fs, f)
  BY <1>1, <1>2
<1>4. g \in [existing : {fs.existing}, event : {fs.event}, new : {fs.new},
             removed : {fs.removed}, failed : {fs.failed}, new_events : [Fd -> SUBSET Events]]
  BY <1>1 DEF FdSets
<1> QED BY <1>3, <1>4, SameOperators DEF Loop!Modified

(* What a handler makes of it by registering a client first.               *)
LEMMA AltersRegistered ==
    ASSUME NEW fs \in FdSets, fs.failed = "none", "client" \notin fs.existing \cup fs.new,
           NEW g, Alters(fs, {"client"}, g),
           NEW h, h = Register(fs, "client", g.new_events["client"])
    PROVE  /\ h \in FdSets /\ h.failed = "none" /\ h.existing = fs.existing
           /\ g.new_events["client"] \in SUBSET Events
           /\ Alters(h, {}, g)
<1>1. "client" \in Fd
  BY FdNames
<1>2. g \in FdSets /\ g.new_events["client"] \in SUBSET Events
  BY <1>1 DEF Alters, FdSets
<1>3. h = [existing |-> fs.existing, event |-> fs.event,
           new_events |-> [fs.new_events EXCEPT !["client"] = g.new_events["client"]],
           new |-> fs.new \cup {"client"}, removed |-> fs.removed, failed |-> fs.failed]
  BY <1>1, <1>2, RegisterParts
<1>4. h \in FdSets
  BY <1>1, <1>2, <1>3 DEF FdSets
<1>5. \A f \in Fd \ fs.existing : g.new_events[f] = h.new_events[f]
  BY <1>1, <1>3 DEF Alters, FdSets
<1> QED BY <1>2, <1>3, <1>4, <1>5 DEF Alters

(* The turns of the two loops are the same.                                *)
LEMMA TurnRefines ==
    ASSUME Inv, NEW fd \in Fd, NEW a, Turn(fd, a)
    PROVE  Loop!Turn(fd, a)
<1>1. PcBar = "dispatch" /\ CurBar \subseteq {fd}
  BY FdNames DEF Turn, PcBar, CurBar, Running
<1> QED BY <1>1 DEF Turn, Loop!Turn, PcBar, CurBar

(* What the handler of the one loop must do to return in the other: h is   *)
(* the set before the modifications.                                       *)
LEMMA ReturnedRefines ==
    ASSUME Inv, NEW fd \in Fd, NEW a \in Acts,
           NEW h \in FdSets, h.failed = "none", Alters(h, {}, mgr'.fds),
           NEW files, NEW held, h.existing \subseteq held,
           OpenBar' = files, MineBar' = held,
           epoll' = Closed(epoll, OpenBar \ files),
           batch' = [batch EXCEPT ![fd] = @ \ {a}],
           cur' = IF batch[fd] = {a} THEN "none" ELSE fd,
           UNCHANGED <<pc, final, close_byte>>
    PROVE  Loop!Returned(fd, a, h, files, held)
<1>1. mgr'.fds \in Loop!Modified(h, held)
  BY AltersModified
<1>2. /\ CurBar' = IF batch[fd] = {a} THEN {} ELSE {fd}
      /\ PcBar' = PcBar
  BY FdNames DEF CurBar, PcBar
<1>3. epoll' = Loop!Closed(epoll, OpenBar \ files)
  BY SameOperators
<1> QED BY <1>1, <1>2, <1>3 DEF Loop!Returned, PcBar, OpenBar, MineBar, CurBar

(* A handler of the one loop is one of the other.                          *)
LEMMA HandlerRefines ==
    ASSUME Inv, NEW fd \in Fd, NEW a \in Acts, Turn(fd, a),
           Loop!KeepFds(fd, a) \/ Loop!CloseFd(fd, a) \/ Loop!LeaveFd(fd, a) \/ Loop!OpenFd(fd, a)
    PROVE  Loop!Next
<1>1. Loop!Turn(fd, a)
  BY TurnRefines
<1>2. Loop!Handler(fd, a)
  BY <1>1, Zenon DEF Loop!Handler
<1>3. a \in Loop!Acts
  BY SameOperators
<1> QED BY <1>2, <1>3 DEF Loop!Next

(* The handler of an open channel.                                         *)
LEMMA AnsweredRefines ==
    ASSUME Inv, NEW fd \in Fd, NEW a \in Acts, NEW m \in Manager, Answered(fd, a, m)
    PROVE  Loop!Next
<1>1. /\ Turn(fd, a) /\ fd \in mgr.fds.existing
      /\ m.fds.failed = "none" /\ mgr' = m /\ epoll' = Closed(epoll, ClosedFds(m))
      /\ batch' = [batch EXCEPT ![fd] = @ \ {a}]
      /\ cur' = IF batch[fd] = {a} THEN "none" ELSE fd
      /\ UNCHANGED <<pc, final, close_byte>>
  BY DEF Answered, Handled
<1>2. pc = "dispatch" /\ Good(mgr, epoll) /\ mgr \in Manager /\ pc \in Running
  BY <1>1, TurnFacts DEF Running
<1>3. Keeps(mgr, m) \/ Opens(mgr, m) \/ Shuts(mgr, fd, m) \/ Leaves(mgr, fd, m)
  BY <1>1 DEF Answered, Answers
<1>4. /\ OpenBar = Files(mgr) /\ OpenBar' = Files(m)
      /\ MineBar = Channels(mgr) /\ MineBar' = Channels(m)
  <2>1. OpenBar = Files(mgr) /\ MineBar = Channels(mgr)
    BY <1>2, OpenFiles
  <2>2. OpenBar' = {g \in Fd : Open(g)}' \cup {"console"} /\ MineBar' = {g \in Fd : Open(g)}'
    BY <1>1, <1>2 DEF OpenBar, MineBar
  <2>3. m.stdio \subseteq ChildFds
    BY DEF Manager
  <2>4. ASSUME NEW g \in Fd
        PROVE  Open(g)' <=> g \in Channels(m)
    BY <1>1, <2>3, FdAssumption, FdNames DEF Open, Channels
  <2>5. Channels(m) \subseteq Fd
    BY <2>3, FdNames DEF Channels
  <2>6. {g \in Fd : Open(g)}' = Channels(m)
    BY <2>4, <2>5
  <2> QED BY <2>1, <2>2, <2>6 DEF Files
<1>5. mgr.stdio \subseteq ChildFds /\ {"server", "client", "console"} \cap ChildFds = {}
  BY <1>2, FdNames DEF Manager
<1>6. Owned(mgr, epoll) /\ mgr.fds \in FdSets /\ mgr.fds.failed = "none"
  BY <1>2 DEF Good, Owned, InStep
<1>7. /\ mgr.fds.existing \subseteq Channels(mgr) /\ fd \in MineBar
      /\ fd = "client" => HasClient(mgr)
  BY <1>1, <1>4, <1>6, ExistingChannel
<1>8. CASE Keeps(mgr, m)
  <2>1. Files(m) = Files(mgr) /\ Channels(m) = Channels(mgr) /\ ClosedFds(m) = {}
    BY <1>8 DEF Keeps, Files, Channels, ClosedFds, HasClient
  <2>2. Alters(mgr.fds, {}, m.fds)
    BY <1>8 DEF Keeps
  <2>3. OpenBar \ OpenBar = {}
    OBVIOUS
  <2>4. Loop!Returned(fd, a, mgr.fds, OpenBar, MineBar)
    BY <1>1, <1>4, <1>6, <1>7, <2>1, <2>2, <2>3, ReturnedRefines
  <2>5. Loop!KeepFds(fd, a)
    BY <2>4, Zenon DEF Loop!KeepFds, OpenBar, MineBar
  <2> QED BY <1>1, <2>5, HandlerRefines
<1>9. CASE Opens(mgr, m)
  <2> DEFINE h == Register(mgr.fds, "client", m.fds.new_events["client"])
  <2>1. /\ Files(m) = Files(mgr) \cup {"client"} /\ ClosedFds(m) = {}
        /\ Channels(m) = Channels(mgr) \cup {"client"}
    BY <1>9 DEF Opens, Files, Channels, ClosedFds, HasClient
  <2>2. Alters(mgr.fds, {"client"}, m.fds)
    BY <1>9 DEF Opens
  <2>3. "client" \in Fd \ OpenBar /\ "client" \notin mgr.fds.existing \cup mgr.fds.new
    <3>1. "client" \in Fd /\ "client" \notin Channels(mgr)
      BY <1>5, <1>9, FdNames DEF Opens, Channels
    <3> QED BY <1>4, <1>6, <3>1 DEF Owned, Files
  <2>4. /\ h \in FdSets /\ h.failed = "none" /\ h.existing = mgr.fds.existing
        /\ m.fds.new_events["client"] \in SUBSET Events /\ Alters(h, {}, m.fds)
    BY <1>6, <2>2, <2>3, AltersRegistered
  <2> HIDE DEF h
  <2>5. OpenBar \ (OpenBar \cup {"client"}) = {}
    OBVIOUS
  <2>6. Loop!Returned(fd, a, h, OpenBar \cup {"client"}, MineBar \cup {"client"})
    BY <1>1, <1>4, <1>7, <2>1, <2>4, <2>5, ReturnedRefines
  <2>7. /\ m.fds.new_events["client"] \in SUBSET Loop!Events
        /\ Loop!Returned(fd, a, Loop!Register(mgr.fds, "client", m.fds.new_events["client"]),
                         OpenBar \cup {"client"}, MineBar \cup {"client"})
    BY <2>4, <2>6, SameOperators DEF h
  <2>8. Loop!OpenFd(fd, a)
    BY <1>7, <2>3, <2>7, Zenon DEF Loop!OpenFd, OpenBar, MineBar
  <2> QED BY <1>1, <2>8, HandlerRefines
<1>10. CASE Shuts(mgr, fd, m)
  <2> DEFINE h == UnregisterClosed(mgr.fds, fd)
  <2>1. /\ Files(m) = Files(mgr) \ {fd} /\ ClosedFds(m) = {fd}
        /\ Channels(m) = Channels(mgr) \ {fd}
    BY <1>5, <1>7, <1>10, FdNames DEF Shuts, Files, Channels, ClosedFds, HasClient
  <2>2. Alters(h, {}, m.fds)
    BY <1>10 DEF Shuts
  <2>3. h \in FdSets /\ h.failed = "none" /\ h.existing = mgr.fds.existing \ {fd}
    <3>1. InStep(h, Closed(epoll, {fd}), Files(mgr) \ {fd})
      BY <1>1, <1>6, UnregisterClosedInStep DEF Owned
    <3> QED BY <1>1, <1>6, <3>1, UnregisterClosedParts DEF InStep
  <2> HIDE DEF h
  <2>4. OpenBar \ (OpenBar \ {fd}) = {fd}
    BY <1>4, <1>7 DEF Files
  <2>5. Loop!Returned(fd, a, h, OpenBar \ {fd}, MineBar \ {fd})
    BY <1>1, <1>4, <1>7, <2>1, <2>2, <2>3, <2>4, ReturnedRefines
  <2>6. Loop!Returned(fd, a, Loop!UnregisterClosed(mgr.fds, fd), OpenBar \ {fd}, MineBar \ {fd})
    BY <2>5, SameOperators DEF h
  <2>7. Loop!CloseFd(fd, a)
    BY <1>7, <2>6, Zenon DEF Loop!CloseFd, OpenBar, MineBar
  <2> QED BY <1>1, <2>7, HandlerRefines
<1>11. CASE Leaves(mgr, fd, m)
  <2> DEFINE h == Unregister(mgr.fds, fd)
  <2>1. /\ Files(m) = Files(mgr) /\ ClosedFds(m) = {}
        /\ Channels(m) = Channels(mgr) \ {fd}
    BY <1>5, <1>11, FdNames DEF Leaves, Files, Channels, ClosedFds, HasClient
  <2>2. Alters(h, {}, m.fds)
    BY <1>11 DEF Leaves
  <2>3. h \in FdSets /\ h.failed = "none" /\ h.existing = mgr.fds.existing \ {fd}
    <3>1. InStep(h, epoll, Files(mgr))
      BY <1>1, <1>6, UnregisterInStep DEF Owned
    <3> QED BY <1>1, <1>6, <3>1, UnregisterParts DEF InStep
  <2> HIDE DEF h
  <2>4. OpenBar \ OpenBar = {}
    OBVIOUS
  <2>5. Loop!Returned(fd, a, h, OpenBar, MineBar \ {fd})
    BY <1>1, <1>4, <1>7, <2>1, <2>2, <2>3, <2>4, ReturnedRefines
  <2>6. Loop!Returned(fd, a, Loop!Unregister(mgr.fds, fd), OpenBar, MineBar \ {fd})
    BY <2>5, SameOperators DEF h
  <2>7. Loop!LeaveFd(fd, a)
    BY <1>7, <2>6, Zenon DEF Loop!LeaveFd, OpenBar, MineBar
  <2> QED BY <1>1, <2>7, HandlerRefines
<1> QED BY <1>3, <1>8, <1>9, <1>10, <1>11

(* Whatever is dispatched.                                                 *)
LEMMA DispatchedRefines ==
    ASSUME Inv, Dispatched
    PROVE  Loop!Next
<1>1. ASSUME NEW fd \in Fd, NEW a \in Acts, Ignored(fd, a)
      PROVE  Loop!Next
  <2>1. /\ Turn(fd, a) /\ mgr' = mgr
        /\ batch' = [batch EXCEPT ![fd] = @ \ {a}]
        /\ cur' = IF batch[fd] = {a} THEN "none" ELSE fd
        /\ UNCHANGED <<pc, final, close_byte>>
    BY <1>1 DEF Ignored, Handled
  <2>2. pc \in Running /\ mgr \in Manager /\ Good(mgr, epoll)
    BY <2>1, TurnFacts DEF Running
  <2>3. epoll' = Closed(epoll, OpenBar \ OpenBar)
    <3>1. ClosedFds(mgr) = {} /\ OpenBar \ OpenBar = {}
      BY DEF ClosedFds
    <3> QED BY <1>1, <3>1 DEF Ignored, Handled
  <2>4. OpenBar' = OpenBar /\ MineBar' = MineBar
    BY <2>1, <2>2, SameFiles
  <2>5. Keeps(mgr, mgr) /\ Owned(mgr, epoll) /\ mgr.fds \in FdSets /\ mgr.fds.failed = "none"
    BY <2>2, OwnedParts DEF Good, Owned, InStep
  <2>6. mgr.fds.existing \subseteq MineBar
    BY <2>2, <2>5, ExistingChannel, OpenFiles
  <2>7. Loop!Returned(fd, a, mgr.fds, OpenBar, MineBar)
    BY <2>1, <2>3, <2>4, <2>5, <2>6, ReturnedRefines DEF Keeps
  <2>8. Loop!KeepFds(fd, a)
    BY <2>7, Zenon DEF Loop!KeepFds, OpenBar, MineBar
  <2> QED BY <2>1, <2>8, HandlerRefines
<1>2. ASSUME NEW fd \in Fd, PartlyWritten(fd)
      PROVE  Loop!Next
  <2>1. Turn(fd, "OUT") /\ cur' = fd
        /\ UNCHANGED <<pc, mgr, batch, final, epoll, close_byte>>
    BY <1>2 DEF PartlyWritten
  <2>2. Loop!Turn(fd, "OUT") /\ "OUT" \in Loop!Acts /\ pc \in Running
    BY <2>1, TurnRefines, TurnFacts DEF Loop!Acts, Running
  <2>3. CurBar' = {fd} /\ PcBar' = PcBar /\ OpenBar' = OpenBar /\ MineBar' = MineBar
    BY <2>1, <2>2, SameFiles, FdNames DEF CurBar, PcBar
  <2>4. Loop!Enter(fd)
    BY <2>1, <2>2, <2>3 DEF Loop!Enter, PcBar, OpenBar, MineBar, CurBar
  <2> QED BY <2>4 DEF Loop!Next
<1>3. CASE Failed
  <2>1. PICK how \in {"panic_modify", "panic_writable", "err_io"} : Stop(how)
    BY <1>3 DEF Failed
  <2>2. pc \in Running /\ how \in Ended
    BY <1>3, <2>1 DEF Failed, Running, Ended
  <2>3. Loop!End(CASE how = "done" -> "ok"
                   [] how \in {"err_new", "err_io", "err_epoll"} -> "err"
                   [] OTHER -> "panic")
    BY <2>1, <2>2, StopRefines
  <2>4. (CASE how = "done" -> "ok"
           [] how \in {"err_new", "err_io", "err_epoll"} -> "err"
           [] OTHER -> "panic") \in {"err", "panic"}
    BY <2>1
  <2> QED BY <2>3, <2>4 DEF Loop!Next, Loop!Failure
<1> QED BY <1>1, <1>2, <1>3, AnsweredRefines DEF Dispatched
--------------------------------------------------------------------------------
(* epoll_wait.                                                             *)

(* There are finitely many fds.                                            *)
LEMMA FdFinite == IsFiniteSet(Fd) /\ IsFiniteSet(Fd \cup {"close"})
<1>1. IsFiniteSet(ChildFds)
  <2>1. ChildFds = {"pty"} \/ ChildFds = {"stdin", "stdout", "stderr"}
    BY DEF ChildFds
  <2>2. IsFiniteSet({"pty"})
    BY FS_Singleton
  <2>3. IsFiniteSet({"stdin"} \cup {"stdout"} \cup {"stderr"})
    BY FS_Singleton, FS_AddElement
  <2>4. {"stdin", "stdout", "stderr"} = {"stdin"} \cup {"stdout"} \cup {"stderr"}
    OBVIOUS
  <2> QED BY <2>1, <2>2, <2>3, <2>4
<1>2. IsFiniteSet(ChildFds \cup {"server"} \cup {"client"} \cup {"console"} \cup {"close"})
  BY <1>1, FS_AddElement
<1>3. IsFiniteSet(ChildFds \cup {"server"} \cup {"client"} \cup {"console"})
  BY <1>1, FS_AddElement
<1>4. /\ Fd = ChildFds \cup {"server"} \cup {"client"} \cup {"console"}
      /\ Fd \cup {"close"} =
           ChildFds \cup {"server"} \cup {"client"} \cup {"console"} \cup {"close"}
  BY FdAssumption
<1> QED BY <1>2, <1>3, <1>4

(* A batch has no more events than epoll_wait returns, the close pipe's    *)
(* included, and is never empty.                                           *)
LEMMA BatchSize ==
    ASSUME Inv, Wait
    PROVE  /\ final' \in {FALSE, close_byte}
           /\ Cardinality({fd \in Fd : batch'[fd] # {}}) + (IF final' THEN 1 ELSE 0)
                \in 1 .. MaxFds
<1> DEFINE B == {fd \in Fd : batch'[fd] # {}}
<1>1. PICK fds \in SUBSET ReadyFds :
        /\ Cardinality(fds) = Least(MaxFds, Cardinality(ReadyFds))
        /\ batch' = [fd \in Fd |-> IF fd \in fds THEN Ready(fd) ELSE {}]
        /\ final' = ("close" \in fds)
  BY DEF Wait
<1>2. epoll.fds \subseteq Fd /\ ReadyFds # {} /\ close_byte \in BOOLEAN
  BY DEF Inv, Epolls, Wait
<1>3. ReadyFds \subseteq Fd \cup {"close"} /\ ("close" \in ReadyFds => close_byte)
  BY <1>2, FdNames DEF ReadyFds
<1>4. IsFiniteSet(ReadyFds) /\ IsFiniteSet(fds) /\ IsFiniteSet(B)
  BY <1>1, <1>3, FdFinite, FS_Subset
<1>5. Cardinality(ReadyFds) \in Nat \ {0}
  BY <1>2, <1>4, FS_CardinalityType, FS_EmptySet
<1>6. Cardinality(fds) \in 1 .. MaxFds
  BY <1>1, <1>5, SizeAssumption DEF Least
<1>7. B = fds \ {"close"}
  <2>1. \A fd \in Fd : fd \in fds => Ready(fd) # {}
    BY FdNames DEF ReadyFds
  <2>2. \A fd \in Fd : batch'[fd] # {} <=> fd \in fds
    BY <1>1, <2>1
  <2> QED BY <1>3, <2>2, FdNames
<1>8. Cardinality(B) \in Nat
  BY <1>4, FS_CardinalityType
<1>9. CASE "close" \in fds
  <2>1. fds = B \cup {"close"} /\ "close" \notin B
    BY <1>7, <1>9
  <2> HIDE DEF B
  <2>2. Cardinality(fds) = Cardinality(B) + 1
    BY <1>4, <2>1, FS_AddElement
  <2>3. final' = TRUE
    BY <1>1, <1>9, Zenon
  <2>4. close_byte = TRUE
    BY <1>2, <1>3, <1>9, Zenon
  <2>5. Cardinality(B) + 1 \in 1 .. MaxFds
    BY <1>6, <2>2
  <2>6. (IF final' THEN 1 ELSE 0) = 1
    BY <2>3, Zenon
  <2>7. final' \in {FALSE, close_byte}
    BY <2>3, <2>4, Zenon
  <2> QED BY <2>5, <2>6, <2>7 DEF B
<1>10. CASE "close" \notin fds
  <2>1. fds = B
    BY <1>7, <1>10
  <2>2. ("close" \in fds) = FALSE
    BY <1>10
  <2>3. final' = FALSE
    BY <1>1, <2>2, Zenon
  <2>4. (IF final' THEN 1 ELSE 0) = 0 /\ final' \in {FALSE, close_byte}
    BY <2>3, Zenon
  <2> HIDE DEF B
  <2>5. Cardinality(B) + 0 \in 1 .. MaxFds
    BY <1>6, <1>8, <2>1
  <2> QED BY <2>4, <2>5 DEF B
<1> QED BY <1>9, <1>10

(* Both loops count alike.                                                 *)
LEMMA SameCardinality == \A S : Loop!Cardinality(S) = Cardinality(S)
BY DEF Loop!Cardinality, Cardinality

(* The batch is one that a Pollster may get.                               *)
LEMMA WaitRefines ==
    ASSUME Inv, Wait
    PROVE  Loop!Next
<1>1. /\ pc = "wait" /\ pc' = "dispatch" /\ pc \in Running
      /\ UNCHANGED <<mgr, cur, epoll, close_byte>>
  BY DEF Wait, Running
<1>2. PcBar = "wait" /\ PcBar' = "dispatch" /\ OpenBar' = OpenBar /\ MineBar' = MineBar /\ CurBar' = CurBar
  BY <1>1, SameFiles DEF PcBar, CurBar, Running
<1>3. batch' \in [Fd -> SUBSET Loop!Acts]
  BY WaitInv, SameOperators DEF Inv
<1>4. \A fd \in Fd : batch'[fd] # {} =>
        fd \in epoll.fds /\ batch'[fd] \subseteq epoll.mask[fd] \cup {"HUP"}
  BY WaitInv
<1>5. /\ final' \in {FALSE, close_byte}
      /\ Loop!Cardinality({fd \in Fd : batch'[fd] # {}}) + (IF final' THEN 1 ELSE 0)
           \in 1 .. MaxFds
  BY BatchSize, SameCardinality
<1>6. Loop!Wait
  BY <1>1, <1>2, <1>3, <1>4, <1>5 DEF Loop!Wait, PcBar, OpenBar, MineBar, CurBar
<1> QED BY <1>6 DEF Loop!Next

--------------------------------------------------------------------------------
(* The loop over this manager is a Pollster: no handler closes an fd other *)
(* than its own or opens one after closing it, no batch is larger than     *)
(* epoll_wait returns, and run returns Ok only for the close byte          *)
(* (io.rs:278-505, pollster.rs:73-114).                                    *)
THEOREM PollsterCorrect == Spec => ImplementsPollster
<1>1. Init => Loop!Init
  BY InitRefines
<1>2. ASSUME Inv, [Next]_vars
      PROVE  [Loop!Next]_(Loop!vars)
  <2>1. CASE UNCHANGED vars
    <3>1. UNCHANGED <<pc, mgr, batch, cur, final, epoll, close_byte>>
      BY <2>1 DEF vars, worker
    <3>2. PcBar' = PcBar /\ OpenBar' = OpenBar /\ MineBar' = MineBar /\ CurBar' = CurBar
      BY <3>1 DEF PcBar, OpenBar, MineBar, CurBar, Open
    <3> QED BY <3>1, <3>2 DEF Loop!vars, PcBar, OpenBar, MineBar, CurBar
  <2>2. CASE Around
    BY <1>2, <2>2, AroundRefines
  <2>3. CASE NewPollster \/ Wait \/ EndBatch \/ Dispatched
    BY <1>2, <2>3, NewPollsterRefines, WaitRefines, EndBatchRefines, DispatchedRefines
  <2> QED BY <1>2, <2>1, <2>2, <2>3, Steps
<1> QED BY <1>1, <1>2, Invariance, PTL DEF Spec, ImplementsPollster, Loop!Spec
================================================================================
