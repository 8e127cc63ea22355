------------------------------ MODULE IOSockProofs ------------------------------
(***************************************************************************)
(* Proofs about IOSock, for both modes, any number of connections, and any *)
(* sizes of the pages, the pipes, the sockets and the batches.             *)
(***************************************************************************)
EXTENDS IOSock, ChannelManagerProofs, FiniteSetTheorems

(* The types of what the worker talks to.                                  *)
Kernel ==
    /\ pin \in 0 .. PipeCap /\ pout \in 0 .. PipeCap /\ perr \in 0 .. PipeCap
    /\ ends \subseteq ChildFds
    /\ con \in [n : 0 .. ConsoleCap, open : BOOLEAN, pollable : BOOLEAN]
    /\ conn \in [Conns -> Connection]
    /\ backlog \in Seq(Conns)

Lefts == [out : 0 .. OutBytes, err : 0 .. ErrBytes, in : 0 .. InBytes, closes : 0 .. Closes]

(* The events still to be dispatched: for an fd the set has, or for the    *)
(* one whose handler has just dropped it; writes only where there can be   *)
(* room; and reads of the client only while it may be read.                *)
Pending ==
    /\ \A fd \in Fd : batch[fd] # {} => fd \in mgr.fds.existing \/ (cur = fd /\ ~Open(fd))
    /\ \A fd \in Fd : "OUT" \in batch[fd] => fd \in {"client", "console", "stdin", "pty"}
    /\ "IN" \in batch["client"] => client_socket_readable(mgr)
    /\ pc # "dispatch" => \A fd \in Fd : batch[fd] = {}

(* A write in progress has not handed on more than its slice.              *)
InCall == done > 0 => cur # "none" /\ done =< Readable(BufferOf(cur))

(* The inductive invariant.  InterestInSync, OutputWakeup, InputWakeup and *)
(* ConsoleQuiet speak of the worker at epoll_wait; Good is what they come  *)
(* from, and holds between any two handlers of a batch.                    *)
Inv ==
    /\ pc \in Running \cup Ended /\ AssertionsHold
    /\ batch \in [Fd -> SUBSET Acts] /\ cur \in Fd \cup {"none"}
    /\ final \in BOOLEAN /\ close_byte \in BOOLEAN
    /\ done \in 0 .. Capacity
    /\ mgr \in Manager /\ mgr.fds.failed = "none" /\ epoll \in Epolls
    /\ Kernel /\ left \in Lefts
    /\ pc = "new" => mgr = NewManager /\ epoll = NoEpoll
    /\ pc \in {"wait", "dispatch"} => Good(mgr, epoll)
    /\ pc = "wait" => Settled(mgr.fds, epoll)
    /\ Pending /\ InCall
    /\ final => close_byte

(* What the channels of the manager are, as IOSock says it.                *)
LEMMA OpenChannels ==
    ASSUME mgr \in Manager
    PROVE  /\ \A fd \in Fd : Open(fd) <=> fd \in Channels(mgr)
           /\ {fd \in Fd : Open(fd)} = Channels(mgr)
<1>1. mgr.stdio \subseteq ChildFds
  BY DEF Manager
<1>2. ASSUME NEW fd \in Fd
      PROVE  Open(fd) <=> fd \in Channels(mgr)
  BY <1>1, FdAssumption, FdNames DEF Open, Channels
<1>3. Channels(mgr) \subseteq Fd
  BY <1>1, FdNames DEF Channels
<1> QED BY <1>2, <1>3

(* The properties follow from the invariant.                               *)
LEMMA InvImplies ==
    Inv => TypeOK /\ InterestInSync /\ OutputWakeup /\ InputWakeup /\ ConsoleQuiet
                  /\ AssertionsHold
<1> SUFFICES ASSUME Inv
             PROVE  TypeOK /\ InterestInSync /\ OutputWakeup /\ InputWakeup /\ ConsoleQuiet
                           /\ AssertionsHold
  OBVIOUS
<1>1. TypeOK /\ AssertionsHold
  BY DEF Inv, TypeOK, Kernel, Lefts
<1>2. CASE pc # "wait"
  BY <1>1, <1>2 DEF InterestInSync, OutputWakeup, InputWakeup, ConsoleQuiet
<1>3. CASE pc = "wait"
  <2>1. Good(mgr, epoll) /\ Settled(mgr.fds, epoll) /\ mgr \in Manager
    BY <1>3 DEF Inv
  <2>2. epoll.fds = {fd \in Fd : Open(fd)}
    BY <2>1, OpenChannels DEF Good, Owned, Settled
  <2>3. InterestInSync
    BY <2>1, <2>2 DEF InterestInSync, Settled
  <2>4. mgr.fds.new_events = epoll.mask
    BY <2>1 DEF Settled
  <2>5. OutputWakeup /\ InputWakeup /\ ConsoleQuiet
    BY <2>1, <2>4 DEF OutputWakeup, InputWakeup, ConsoleQuiet, Good, OutputAsked, InputAsked,
                      ClientAsked
  <2> QED BY <1>1, <2>3, <2>5
<1> QED BY <1>2, <1>3

(* The empty managers: the new one, and the one that was dropped.          *)
LEMMA EmptyManagers ==
    /\ NewManager \in Manager /\ NewManager.fds = EmptyFdSet /\ NewManager.client = NoConn
    /\ Dropped \in Manager /\ Dropped.fds = EmptyFdSet /\ Dropped.client = NoConn
    /\ EmptyFdSet.failed = "none" /\ NoEpoll \in Epolls
<1>1. /\ EmptyFdSet \in FdSets /\ EmptyFdSet.failed = "none" /\ NoEpoll \in Epolls
  BY EmptyInStep DEF InStep
<1>2. /\ ChildFds \in SUBSET ChildFds /\ {} \in SUBSET ChildFds
      /\ TRUE \in BOOLEAN /\ FALSE \in BOOLEAN
  OBVIOUS
<1>3. NewManager \in Manager
  BY <1>1, <1>2, BareManager, Zenon DEF NewManager
<1>4. NewManager.fds = EmptyFdSet /\ NewManager.client = NoConn
  BY DEF NewManager
<1>5. Dropped \in Manager
  BY <1>3 DEF Dropped, Manager
<1>6. Dropped.fds = NewManager.fds /\ Dropped.client = NewManager.client
  BY <1>3 DEF Dropped, Manager
<1> QED BY <1>1, <1>3, <1>4, <1>5, <1>6
--------------------------------------------------------------------------------
(* Where the worker starts and ends.                                       *)

(* Before Pollster::new.                                                   *)
LEMMA InitInv == Init => Inv
<1> SUFFICES ASSUME Init PROVE Inv
  OBVIOUS
<1>1. Kernel
  <2>1. conn \in [Conns -> Connection]
    <3>1. \A w, r, x \in BOOLEAN :
            [st |-> "idle", c2s |-> 0, s2c |-> 0, wr |-> w, rd |-> r, reset |-> x] \in Connection
      BY SizeAssumption DEF Connection
    <3>2. [st |-> "idle", c2s |-> 0, s2c |-> 0, wr |-> TRUE, rd |-> TRUE, reset |-> FALSE]
             \in Connection
      BY <3>1, Zenon
    <3>3. \A k \in Connection : [c \in Conns |-> k] \in [Conns -> Connection]
      OBVIOUS
    <3>4. conn = [c \in Conns |-> [st |-> "idle", c2s |-> 0, s2c |-> 0, wr |-> TRUE,
                                   rd |-> TRUE, reset |-> FALSE]]
      BY Zenon DEF Init
    <3>5. [c \in Conns |-> [st |-> "idle", c2s |-> 0, s2c |-> 0, wr |-> TRUE,
                            rd |-> TRUE, reset |-> FALSE]] \in [Conns -> Connection]
      BY <3>2, <3>3, Zenon
    <3> QED BY <3>4, <3>5, Zenon
  <2>2. con \in [n : 0 .. ConsoleCap, open : BOOLEAN, pollable : BOOLEAN]
    <3>1. {0} \subseteq 0 .. ConsoleCap
      BY SizeAssumption
    <3>2. {TRUE} \subseteq BOOLEAN
      BY Zenon
    <3>3. \A A, B, C, D : A \subseteq C /\ B \subseteq D =>
            [n : A, open : B, pollable : BOOLEAN] \subseteq [n : C, open : D, pollable : BOOLEAN]
      OBVIOUS
    <3>4. [n : {0}, open : {TRUE}, pollable : BOOLEAN]
             \subseteq [n : 0 .. ConsoleCap, open : BOOLEAN, pollable : BOOLEAN]
      BY <3>1, <3>2, <3>3, Zenon
    <3>5. con \in [n : {0}, open : {TRUE}, pollable : BOOLEAN]
      BY Zenon DEF Init
    <3> QED BY <3>4, <3>5, Zenon
  <2>3. backlog \in Seq(Conns)
    BY DEF Init
  <2>4. /\ pin \in 0 .. PipeCap /\ pout \in 0 .. PipeCap /\ perr \in 0 .. PipeCap
        /\ ends \subseteq ChildFds
    BY SizeAssumption DEF Init
  <2> QED BY <2>1, <2>2, <2>3, <2>4 DEF Kernel
<1>2. left \in Lefts
  BY SizeAssumption DEF Init, Lefts
<1>3. Pending
  BY FdNames DEF Init, Pending
<1>4. done \in 0 .. Capacity /\ InCall
  BY CapacityAssumption DEF Init, InCall
<1>5. pc = "new" /\ mgr = NewManager /\ epoll = NoEpoll /\ cur = "none" /\ final = FALSE
      /\ close_byte = FALSE /\ batch \in [Fd -> SUBSET Acts]
  BY DEF Init
<1>6. mgr \in Manager /\ mgr.fds.failed = "none" /\ epoll \in Epolls
  BY <1>5, EmptyManagers
<1> QED BY <1>1, <1>2, <1>3, <1>4, <1>5, <1>6 DEF Inv, Running, AssertionsHold

(* A connection that is closed is one still.                               *)
LEMMA ClosedConn ==
    ASSUME NEW k \in Connection
    PROVE  CloseConn(k) \in Connection
<1>0. 0 \in 0 .. SockCap
  BY SizeAssumption
<1>1. \A x \in BOOLEAN :
        [k EXCEPT !.st = "closed", !.c2s = 0, !.s2c = 0, !.reset = x] \in Connection
  BY <1>0 DEF Connection
<1>2. FALSE \in BOOLEAN
  OBVIOUS
<1> QED BY <1>1, <1>2, Zenon DEF CloseConn

(* The worker has returned or unwound.                                     *)
LEMMA StopInv ==
    ASSUME Inv, NEW how \in Ended, Stop(how),
           how \notin {"panic_register", "panic_unregister", "panic_readable", "err_epoll"}
    PROVE  Inv'
<1>1. /\ pc' = how /\ mgr' = Dropped /\ batch' = [fd \in Fd |-> {}] /\ cur' = "none"
      /\ final' = FALSE /\ done' = 0 /\ epoll' = NoEpoll /\ backlog' = <<>>
      /\ UNCHANGED <<pin, pout, perr, ends, con, close_byte, left>>
  BY DEF Stop, child
<1>2. conn' \in [Conns -> Connection]
  <2>1. conn' = [c \in Conns |-> IF conn[c].st \in {"backlog", "served"}
                                 THEN CloseConn(conn[c]) ELSE conn[c]]
    BY DEF Stop
  <2>2. \A c \in Conns : conn[c] \in Connection /\ CloseConn(conn[c]) \in Connection
    BY ClosedConn DEF Inv, Kernel
  <2> QED BY <2>1, <2>2
<1>3. Kernel'
  BY <1>1, <1>2 DEF Inv, Kernel
<1>4. mgr' \in Manager /\ mgr'.fds.failed = "none" /\ epoll' \in Epolls
  BY <1>1, EmptyManagers
<1>5. Pending' /\ InCall' /\ done' \in 0 .. Capacity
  BY <1>1, FdNames, CapacityAssumption DEF Pending, InCall
<1>6. pc' \notin {"new", "wait", "dispatch"} /\ AssertionsHold'
  BY <1>1 DEF Ended, AssertionsHold
<1> QED BY <1>1, <1>3, <1>4, <1>5, <1>6 DEF Inv

--------------------------------------------------------------------------------
(* The loop.                                                               *)

(* Pollster::new.                                                          *)
LEMMA NewPollsterInv ==
    ASSUME Inv, NewPollster
    PROVE  Inv' /\ (pc' = "wait" \/ Stop("err_new"))
<1> DEFINE m == initialize(mgr)
<1>1. pc = "new" /\ mgr = NewManager /\ epoll = NoEpoll /\ ApplyUpdates(m)
  BY DEF NewPollster, Inv
<1>2. CASE UpdatesAccepted(m.fds, epoll, Pollable)
  <2>1. /\ epoll' = UpdatedEpoll(m.fds, epoll) /\ mgr' = [m EXCEPT !.fds = UpdatedFds(@)]
        /\ pc' = "wait"
        /\ UNCHANGED <<batch, cur, final, done, child, peers, close_byte, left>>
    BY <1>1, <1>2 DEF ApplyUpdates
  <2>2. Good(mgr', epoll') /\ Settled(mgr'.fds, epoll')
    BY <1>1, <2>1, FirstUpdateGood
  <2>3. mgr' \in Manager /\ mgr'.fds.failed = "none" /\ epoll' \in Epolls
    BY <2>2 DEF Good, Owned, InStep
  <2>4. Kernel'
    BY <2>1 DEF Inv, Kernel, child, peers
  <2>5. Pending'
    BY <1>1, <2>1, FdNames DEF Inv, Pending
  <2>6. InCall'
    <3>1. m.in_buffer = mgr.in_buffer /\ m.out_buffer = mgr.out_buffer /\ mgr \in Manager
      BY <1>1, InitializeFresh DEF initialize, NewManager, Inv
    <3>2. mgr'.in_buffer = mgr.in_buffer /\ mgr'.out_buffer = mgr.out_buffer
      BY <1>1, <2>1, <3>1 DEF initialize, NewManager
    <3> QED BY <2>1, <3>2 DEF Inv, InCall, BufferOf
  <2> QED BY <2>1, <2>2, <2>3, <2>4, <2>5, <2>6 DEF Inv, Running, AssertionsHold
<1>3. CASE ~UpdatesAccepted(m.fds, epoll, Pollable)
  <2>1. Stop("err_new")
    BY <1>1, <1>3 DEF ApplyUpdates
  <2> QED BY <2>1, StopInv DEF Ended
<1> QED BY <1>2, <1>3

(* The end of a batch: no epoll_ctl is refused.                            *)
LEMMA EndBatchInv ==
    ASSUME Inv, EndBatch
    PROVE  /\ Inv'
           /\ IF final THEN Stop("done")
              ELSE /\ pc' = "wait" /\ mgr' = [mgr EXCEPT !.fds = UpdatedFds(@)]
                   /\ epoll' = UpdatedEpoll(mgr.fds, epoll)
                   /\ UpdatesAccepted(mgr.fds, epoll, Pollable)
                   /\ UNCHANGED <<batch, cur, final, done, child, peers, close_byte, left>>
<1>1. CASE final
  <2>1. Stop("done")
    BY <1>1 DEF EndBatch
  <2> QED BY <1>1, <2>1, StopInv DEF Ended
<1>2. CASE ~final
  <2>1. /\ ApplyUpdates(mgr) /\ pc = "dispatch" /\ Good(mgr, epoll)
        /\ batch = [fd \in Fd |-> {}]
    BY <1>2 DEF EndBatch, Inv
  <2>2. "client" \in Pollable
    BY FdNames DEF Pollable
  <2>3. UpdatesAccepted(mgr.fds, epoll, Pollable)
    BY <2>1, <2>2, UpdateGood
  <2>4. /\ epoll' = UpdatedEpoll(mgr.fds, epoll) /\ mgr' = [mgr EXCEPT !.fds = UpdatedFds(@)]
        /\ pc' = "wait"
        /\ UNCHANGED <<batch, cur, final, done, child, peers, close_byte, left>>
    BY <2>1, <2>3 DEF ApplyUpdates
  <2>5. Good(mgr', epoll') /\ Settled(mgr'.fds, epoll')
    BY <2>1, <2>2, <2>4, UpdateGood
  <2>6. mgr' \in Manager /\ mgr'.fds.failed = "none" /\ epoll' \in Epolls
    BY <2>5 DEF Good, Owned, InStep
  <2>7. Kernel'
    BY <2>4 DEF Inv, Kernel, child, peers
  <2>8. Pending'
    BY <2>1, <2>4, FdNames DEF Pending
  <2>9. InCall'
    <3>1. mgr'.in_buffer = mgr.in_buffer /\ mgr'.out_buffer = mgr.out_buffer
      BY <2>4 DEF Inv, Manager
    <3> QED BY <2>4, <3>1 DEF Inv, InCall, BufferOf
  <2>10. Inv'
    BY <2>4, <2>5, <2>6, <2>7, <2>8, <2>9 DEF Inv, Running, AssertionsHold
  <2> QED BY <1>2, <2>3, <2>4, <2>10
<1> QED BY <1>1, <1>2
(* epoll_wait: what is reported was asked for, or is a hangup.             *)
LEMMA WaitInv ==
    ASSUME Inv, Wait
    PROVE  /\ Inv'
           /\ \A fd \in Fd : batch'[fd] # {} =>
                fd \in epoll.fds /\ batch'[fd] \subseteq epoll.mask[fd] \cup {"HUP"}
<1>1. /\ pc = "wait" /\ pc' = "dispatch"
      /\ UNCHANGED <<mgr, cur, done, epoll, child, peers, close_byte, left>>
  BY DEF Wait
<1>2. PICK fds \in SUBSET ReadyFds :
        /\ batch' = [fd \in Fd |-> IF fd \in fds THEN Ready(fd) ELSE {}]
        /\ final' = ("close" \in fds)
  BY DEF Wait
<1>3. Good(mgr, epoll) /\ Settled(mgr.fds, epoll) /\ epoll \in Epolls /\ mgr \in Manager
  BY <1>1 DEF Inv
<1>4. \A fd \in Fd : epoll.mask[fd] \subseteq Acts
  BY <1>3 DEF Epolls, Events, Acts
<1>5. \A fd \in Fd : fd \in fds => fd \in epoll.fds
  BY <1>2, FdNames DEF ReadyFds
<1>6. \A fd \in Fd : Ready(fd) \subseteq epoll.mask[fd] \cup {"HUP"}
  BY DEF Ready
<1>7. batch' \in [Fd -> SUBSET Acts]
  BY <1>2, <1>4, <1>6 DEF Acts
<1>8. \A fd \in Fd : batch'[fd] # {} =>
        fd \in epoll.fds /\ batch'[fd] \subseteq epoll.mask[fd] \cup {"HUP"}
  BY <1>2, <1>5, <1>6
<1>9. final' \in BOOLEAN /\ (final' => close_byte)
  <2>1. "close" \notin epoll.fds
    BY <1>3, FdNames DEF Epolls
  <2>2. close_byte \in BOOLEAN
    BY DEF Inv
  <2>3. "close" \in ReadyFds => close_byte
    BY <2>1 DEF ReadyFds
  <2>4. CASE "close" \in fds
    <3>1. final' = TRUE
      BY <1>2, <2>4, Zenon
    <3> QED BY <2>2, <2>3, <2>4, <3>1, Zenon
  <2>5. CASE "close" \notin fds
    <3>1. ("close" \in fds) = FALSE
      BY <2>5
    <3>2. final' = FALSE
      BY <1>2, <3>1, Zenon
    <3> QED BY <3>2, Zenon
  <2> QED BY <2>4, <2>5
<1>10. Pending'
  <2>1. \A fd \in Fd : batch'[fd] # {} => fd \in mgr.fds.existing
    BY <1>3, <1>8 DEF Settled
  <2>2. \A fd \in Fd : "OUT" \in batch'[fd] => fd \in {"client", "console", "stdin", "pty"}
    <3> SUFFICES ASSUME NEW fd \in Fd, "OUT" \in batch'[fd]
                 PROVE  fd \in {"client", "console", "stdin", "pty"}
      OBVIOUS
    <3>1. "OUT" \in Ready(fd)
      BY <1>2
    <3>2. Room(fd) > 0
      BY <3>1 DEF Ready
    <3> QED BY <3>2 DEF Room
  <2>3. "IN" \in batch'["client"] => client_socket_readable(mgr)
    <3> SUFFICES ASSUME "IN" \in batch'["client"]
                 PROVE  client_socket_readable(mgr)
      OBVIOUS
    <3>1. "IN" \in epoll.mask["client"] /\ "client" \in mgr.fds.existing
      BY <1>8, <2>1, FdNames
    <3>2. HasClient(mgr)
      BY <1>3, <3>1, ExistingChannel DEF Good
    <3>3. mgr.availability # "WriteOnly"
      BY <1>3, <3>1, <3>2 DEF Good, ClientAsked, Settled
    <3> QED BY <3>2, <3>3 DEF client_socket_readable
  <2> QED BY <1>1, <2>1, <2>2, <2>3 DEF Pending, Open, HasClient, client_socket_readable
<1>11. InCall'
  BY <1>1 DEF Inv, InCall, BufferOf
<1>12. Kernel'
  BY <1>1 DEF Inv, Kernel, child, peers
<1>13. Inv'
  BY <1>1, <1>3, <1>7, <1>9, <1>10, <1>11, <1>12 DEF Inv, Running, AssertionsHold
<1> QED BY <1>8, <1>13

(* The environment leaves the worker and the epoll instance alone.         *)
LEMMA WorldInv ==
    ASSUME Inv, World, Kernel', left' \in Lefts, close_byte' \in BOOLEAN,
           close_byte => close_byte'
    PROVE  Inv'
<1>1. UNCHANGED <<pc, mgr, batch, cur, final, done, epoll>>
  BY DEF World, worker
<1>2. Pending' /\ InCall'
  BY <1>1 DEF Inv, Pending, InCall, BufferOf, Open
<1> QED BY <1>1, <1>2 DEF Inv, AssertionsHold
--------------------------------------------------------------------------------
(* Dispatching an event.  The lemmas show that every action of the batch   *)
(* is one of these four, which is all that the invariant, the action       *)
(* property and the refinement need to know of it.                         *)

(* The handler of a on the channel fd returned and left m behind.          *)
Answered(fd, a, m) ==
    /\ Turn(fd, a) /\ fd \in mgr.fds.existing
    /\ Answers(mgr, epoll, fd, m)
    /\ Handled(fd, a, m) /\ Kernel'

(* A write handed on some of its slice and waits for room.                 *)
PartlyWritten(fd) ==
    /\ Turn(fd, "OUT") /\ cur' = fd
    /\ UNCHANGED <<pc, mgr, batch, final, epoll, close_byte, left>>
    /\ done' \in 0 .. Readable(BufferOf(fd)) /\ Kernel'

(* A failed call or assertion that the proofs do not exclude.              *)
Failed == pc = "dispatch" /\ \E how \in {"panic_modify", "panic_writable", "err_io"} : Stop(how)

Dispatched ==
    \/ \E fd \in Fd, a \in Acts, m \in Manager : Answered(fd, a, m)
    \/ \E fd \in Fd, a \in Acts : Ignored(fd, a)
    \/ \E fd \in Fd : PartlyWritten(fd)
    \/ Failed

(* The event of a channel that is open is one for an fd of the set.        *)
LEMMA TurnFacts ==
    ASSUME Inv, NEW fd \in Fd, NEW a, Turn(fd, a)
    PROVE  /\ pc = "dispatch" /\ Good(mgr, epoll) /\ mgr \in Manager /\ a \in Acts
           /\ Open(fd) => fd \in mgr.fds.existing
           /\ done \in 0 .. Readable(BufferOf(fd))
           /\ BufferOf(fd) \in Counts
<1>1. pc = "dispatch" /\ a \in batch[fd] /\ cur \in {fd, "none"}
  BY DEF Turn
<1>2. Good(mgr, epoll) /\ mgr \in Manager /\ a \in Acts
  BY <1>1 DEF Inv
<1>3. Open(fd) => fd \in mgr.fds.existing
  BY <1>1 DEF Inv, Pending
<1>4. BufferOf(fd) \in Counts
  BY <1>2 DEF BufferOf, Manager
<1>5. Readable(BufferOf(fd)) \in 0 .. Capacity
  BY <1>4, CountsBounds
<1>6. done \in Nat /\ (done > 0 => cur # "none" /\ done =< Readable(BufferOf(cur)))
  BY CapacityAssumption DEF Inv, InCall
<1>7. done =< Readable(BufferOf(fd))
  BY <1>1, <1>5, <1>6
<1>8. done \in 0 .. Readable(BufferOf(fd))
  BY <1>5, <1>6, <1>7, CapacityAssumption
<1> QED BY <1>1, <1>2, <1>3, <1>4, <1>8

(* Handled, or the assertion of modify.                                    *)
LEMMA LeaveDispatched ==
    ASSUME Inv, NEW fd \in Fd, NEW a, Turn(fd, a), fd \in mgr.fds.existing,
           NEW m, Answers(mgr, epoll, fd, m),
           (Handled(fd, a, m) /\ Kernel') \/ Panicked(m)
    PROVE  Dispatched
<1>1. pc = "dispatch" /\ a \in Acts
  BY TurnFacts
<1>2. CASE Handled(fd, a, m) /\ Kernel'
  <2>1. m.fds.failed = "none"
    BY <1>2 DEF Handled
  <2>2. m \in Manager
    BY <2>1 DEF Answers, Good, Owned
  <2> QED BY <1>1, <1>2, <2>2 DEF Dispatched, Answered
<1>3. CASE Panicked(m)
  <2>1. m.fds.failed # "none"
    BY <1>3 DEF Panicked
  <2>2. m.fds.failed = "modify"
    BY <2>1 DEF Answers, Good, Owned, InStep
  <2>3. Stop("panic_modify")
    BY <1>3, <2>2 DEF Panicked
  <2> QED BY <1>1, <2>3 DEF Dispatched, Failed
<1> QED BY <1>2, <1>3

(* A handler that has returned leaves the invariant as it found it.        *)
LEMMA AnsweredInv ==
    ASSUME Inv, NEW fd \in Fd, NEW a, NEW m, Answered(fd, a, m)
    PROVE  Inv'
<1>1. /\ Turn(fd, a) /\ fd \in mgr.fds.existing /\ Kernel'
      /\ m.fds.failed = "none" /\ mgr' = m /\ epoll' = Closed(epoll, ClosedFds(m))
      /\ batch' = [batch EXCEPT ![fd] = @ \ {a}]
      /\ cur' = IF batch[fd] = {a} THEN "none" ELSE fd
      /\ done' = 0 /\ UNCHANGED <<pc, final, close_byte, left>>
  BY DEF Answered, Handled
<1>2. pc = "dispatch" /\ Good(mgr, epoll) /\ mgr \in Manager /\ a \in Acts
  BY <1>1, TurnFacts
<1>3. /\ Good(m, Closed(epoll, GoneFds(mgr, m)))
      /\ Keeps(mgr, m) \/ Opens(mgr, m) \/ Shuts(mgr, fd, m) \/ Leaves(mgr, fd, m)
      /\ Degrades(mgr, fd, m)
  BY <1>1 DEF Answered, Answers
<1>4. Good(mgr', epoll') /\ mgr' \in Manager /\ epoll' \in Epolls
  <2>1. ClosedFds(m) = GoneFds(mgr, m)
    BY DEF ClosedFds, GoneFds
  <2>2. Good(mgr', epoll')
    BY <1>1, <1>3, <2>1
  <2> QED BY <2>2 DEF Good, Owned, InStep
<1>5. batch \in [Fd -> SUBSET Acts] /\ Pending
  BY DEF Inv
<1>6. /\ batch' \in [Fd -> SUBSET Acts]
      /\ \A g \in Fd : batch'[g] \subseteq batch[g]
      /\ \A g \in Fd : g # fd => batch'[g] = batch[g]
      /\ batch'[fd] = batch[fd] \ {a}
  BY <1>1, <1>5
<1>7. \A g \in Fd : batch'[g] # {} => g \in mgr'.fds.existing \/ (cur' = g /\ ~Open(g)')
  <2> SUFFICES ASSUME NEW g \in Fd, batch'[g] # {}
               PROVE  g \in m.fds.existing \/ (cur' = g /\ ~Open(g)')
    BY <1>1
  <2>1. CASE g # fd
    <3>1. g \in mgr.fds.existing
      BY <1>1, <1>5, <1>6, <2>1, FdNames DEF Pending, Turn
    <3>2. mgr.fds.existing \ {fd} \subseteq m.fds.existing
      BY <1>2, <1>3 DEF Keeps, Opens, Shuts, Leaves, Alters, UnregisterClosed, Unregister,
                        Forgotten, Manager, FdSets
    <3> QED BY <2>1, <3>1, <3>2
  <2>2. CASE g = fd
    <3>1. cur' = fd
      BY <1>1, <1>6, <2>2
    <3>2. CASE Keeps(mgr, m) \/ Opens(mgr, m)
      BY <1>1, <2>2, <3>2 DEF Keeps, Opens, Alters
    <3>3. CASE Shuts(mgr, fd, m)
      <4>1. \/ fd = "client" /\ m.client = NoConn
            \/ fd \in mgr.stdio /\ fd \notin m.stdio
        BY <3>3 DEF Shuts
      <4>2. mgr.stdio \subseteq ChildFds
        BY <1>2 DEF Manager
      <4>3. ~Open(fd)'
        BY <1>1, <4>1, <4>2, FdNames DEF Open, HasClient
      <4> QED BY <2>2, <3>1, <4>3
    <3>4. CASE Leaves(mgr, fd, m)
      <4>1. ~Open(fd)'
        BY <1>1, <3>4 DEF Leaves, Open
      <4> QED BY <2>2, <3>1, <4>1
    <3> QED BY <1>3, <3>2, <3>3, <3>4
  <2> QED BY <2>1, <2>2
<1>8. "IN" \in batch'["client"] => client_socket_readable(mgr')
  <2> SUFFICES ASSUME "IN" \in batch'["client"]
               PROVE  client_socket_readable(m)
    BY <1>1
  <2>1. "IN" \in batch["client"] /\ HasClient(mgr) /\ mgr.availability # "WriteOnly"
    BY <1>5, <1>6, FdNames DEF Pending, client_socket_readable
  <2>2. fd # "client"
    <3>1. a # "IN" => "IN" \notin batch[fd]
      BY <1>1, <1>2 DEF Turn, Acts
    <3> QED BY <1>6, <2>1, <3>1
  <2>3. m.client = mgr.client
    BY <1>3, <2>1, <2>2 DEF Keeps, Opens, Shuts, Leaves
  <2>4. m.availability = mgr.availability
    BY <1>3, <2>1, <2>2, <2>3 DEF Degrades
  <2> QED BY <2>1, <2>3, <2>4 DEF client_socket_readable, HasClient
<1>9. Pending'
  <2>1. \A g \in Fd : "OUT" \in batch'[g] => g \in {"client", "console", "stdin", "pty"}
    BY <1>5, <1>6 DEF Pending
  <2> QED BY <1>1, <1>2, <1>7, <1>8, <2>1 DEF Pending
<1>10. InCall' /\ done' \in 0 .. Capacity
  BY <1>1, CapacityAssumption DEF InCall
<1>11. cur' \in Fd \cup {"none"}
  BY <1>1
<1> QED BY <1>1, <1>2, <1>4, <1>6, <1>9, <1>10, <1>11 DEF Inv, AssertionsHold
(* The rest of an event whose channel is gone goes nowhere.                *)
LEMMA IgnoredInv ==
    ASSUME Inv, NEW fd \in Fd, NEW a, Ignored(fd, a)
    PROVE  Inv' /\ mgr' = mgr /\ epoll' = epoll
<1>1. /\ Turn(fd, a) /\ ~Open(fd) /\ mgr' = mgr /\ epoll' = Closed(epoll, ClosedFds(mgr))
      /\ batch' = [batch EXCEPT ![fd] = @ \ {a}]
      /\ cur' = IF batch[fd] = {a} THEN "none" ELSE fd
      /\ done' = 0 /\ UNCHANGED <<pc, final, close_byte, left, child, peers>>
  BY DEF Ignored, Handled
<1>2. pc = "dispatch" /\ Good(mgr, epoll) /\ epoll \in Epolls
  BY <1>1, TurnFacts DEF Inv
<1>3. epoll' = epoll
  <2>1. ClosedFds(mgr) = {}
    BY DEF ClosedFds
  <2> QED BY <1>1, <1>2, <2>1, NothingClosed
<1>4. batch \in [Fd -> SUBSET Acts] /\ Pending
  BY DEF Inv
<1>5. /\ batch' \in [Fd -> SUBSET Acts]
      /\ \A g \in Fd : batch'[g] \subseteq batch[g]
      /\ batch'[fd] = batch[fd] \ {a}
  BY <1>1, <1>4
<1>6. \A g \in Fd : batch'[g] # {} => g \in mgr'.fds.existing \/ (cur' = g /\ ~Open(g)')
  <2> SUFFICES ASSUME NEW g \in Fd, batch'[g] # {}
               PROVE  g \in mgr.fds.existing \/ (cur' = g /\ ~Open(g)')
    BY <1>1
  <2>1. CASE g # fd
    BY <1>1, <1>4, <1>5, <2>1, FdNames DEF Pending, Turn
  <2>2. CASE g = fd
    <3>1. Open(fd)' = Open(fd)
      BY <1>1 DEF Open
    <3> QED BY <1>1, <1>5, <2>2, <3>1
  <2> QED BY <2>1, <2>2
<1>7. Pending'
  <2>1. "IN" \in batch'["client"] => client_socket_readable(mgr)
    BY <1>4, <1>5, FdNames DEF Pending
  <2>2. \A g \in Fd : "OUT" \in batch'[g] => g \in {"client", "console", "stdin", "pty"}
    BY <1>4, <1>5 DEF Pending
  <2> QED BY <1>1, <1>2, <1>6, <2>1, <2>2 DEF Pending
<1>8. InCall' /\ done' \in 0 .. Capacity /\ cur' \in Fd \cup {"none"}
  BY <1>1, CapacityAssumption DEF InCall
<1>9. Kernel'
  BY <1>1 DEF Inv, Kernel, child, peers
<1>10. Inv'
  BY <1>1, <1>2, <1>3, <1>5, <1>7, <1>8, <1>9 DEF Inv, AssertionsHold
<1> QED BY <1>1, <1>3, <1>10

(* A write that waits has handed on no more than its slice.                *)
LEMMA PartlyWrittenInv ==
    ASSUME Inv, NEW fd \in Fd, PartlyWritten(fd)
    PROVE  Inv'
<1>1. /\ Turn(fd, "OUT") /\ cur' = fd
      /\ UNCHANGED <<pc, mgr, batch, final, epoll, close_byte, left>>
      /\ done' \in 0 .. Readable(BufferOf(fd)) /\ Kernel'
  BY DEF PartlyWritten
<1>2. pc = "dispatch" /\ BufferOf(fd) \in Counts
  BY <1>1, TurnFacts
<1>3. Readable(BufferOf(fd)) \in 0 .. Capacity
  BY <1>2, CountsBounds
<1>4. done' \in 0 .. Capacity
  BY <1>1, <1>3, CapacityAssumption
<1>5. InCall'
  <2>1. BufferOf(fd)' = BufferOf(fd)
    BY <1>1 DEF BufferOf
  <2>2. done' =< Readable(BufferOf(fd))
    BY <1>1, <1>3
  <2>3. BufferOf(cur)' = BufferOf(fd)
    BY <1>1 DEF BufferOf
  <2> QED BY <1>1, <2>2, <2>3, FdNames DEF InCall
<1>6. Pending'
  <2>1. \A g \in Fd : batch[g] # {} => g \in mgr.fds.existing \/ (cur' = g /\ ~Open(g)')
    BY <1>1, FdNames DEF Inv, Pending, Turn, Open
  <2> QED BY <1>1, <2>1 DEF Inv, Pending
<1> QED BY <1>1, <1>2, <1>4, <1>5, <1>6 DEF Inv, AssertionsHold

(* So the dispatch of an event keeps the invariant.                        *)
LEMMA DispatchedInv ==
    ASSUME Inv, Dispatched
    PROVE  Inv'
<1>1. CASE Failed
  <2>1. PICK how \in {"panic_modify", "panic_writable", "err_io"} : Stop(how)
    BY <1>1 DEF Failed
  <2> QED BY <2>1, StopInv DEF Ended
<1> QED BY <1>1, AnsweredInv, IgnoredInv, PartlyWrittenInv DEF Dispatched
--------------------------------------------------------------------------------
(* What the handlers' system calls do to the streams.                      *)

(* A connection the manager drops is closed.                               *)
LEMMA ConnType ==
    ASSUME NEW m, NEW cs \in [Conns -> Connection]
    PROVE  Conn(m, cs) \in [Conns -> Connection]
<1>1. \A c \in Conns : cs[c] \in Connection /\ CloseConn(cs[c]) \in Connection
  BY ClosedConn
<1> QED BY <1>1 DEF Conn

(* The client of the manager is one of the connections.                    *)
LEMMA ClientConn ==
    ASSUME mgr \in Manager, HasClient(mgr), Kernel
    PROVE  mgr.client \in Conns /\ conn[mgr.client] \in Connection
BY DEF Manager, HasClient, Kernel

(* A write is on the client, the console, or the child's stdin.            *)
LEMMA WriteTarget ==
    ASSUME Inv, NEW fd \in Fd, Turn(fd, "OUT"), Open(fd)
    PROVE  \/ fd = "client" /\ HasClient(mgr)
           \/ fd = "console"
           \/ fd \in {"stdin", "pty"} /\ fd \in mgr.stdio /\ fd = stdin_fd(mgr)
<1>1. fd \in {"client", "console", "stdin", "pty"}
  BY DEF Inv, Pending, Turn
<1>2. CASE fd \in {"stdin", "pty"}
  <2>1. fd \in mgr.stdio /\ mgr.stdio \subseteq ChildFds
    BY <1>2 DEF Open, Inv, Manager
  <2>2. fd = stdin_fd(mgr)
    BY <1>2, <2>1, ModeAssumption DEF ChildFds, stdin_fd, pty_stdin_fd, pipes_stdin_fd
  <2> QED BY <1>2, <2>1, <2>2
<1> QED BY <1>1, <1>2 DEF Open

(* There is never less than no room.                                       *)
LEMMA RoomType ==
    ASSUME Inv, NEW fd \in Fd, Turn(fd, "OUT"), Open(fd)
    PROVE  Room(fd) \in Nat
<1>1. CASE fd = "client"
  <2>1. conn[mgr.client] \in Connection
    BY <1>1, WriteTarget, ClientConn DEF Inv
  <2>2. conn[mgr.client].s2c \in 0 .. SockCap
    BY <2>1 DEF Connection
  <2> QED BY <1>1, <2>2, SizeAssumption DEF Room
<1>2. CASE fd = "console"
  <2>1. con.n \in 0 .. ConsoleCap
    BY DEF Inv, Kernel
  <2> QED BY <1>2, <2>1, SizeAssumption DEF Room
<1>3. CASE fd \in {"stdin", "pty"}
  <2>1. pin \in 0 .. PipeCap
    BY DEF Inv, Kernel
  <2> QED BY <1>3, <2>1, SizeAssumption DEF Room
<1> QED BY <1>1, <1>2, <1>3, WriteTarget

(* A write hands on no more than there is room for.                        *)
LEMMA DeliverKernel ==
    ASSUME Inv, NEW fd \in Fd, Turn(fd, "OUT"), Open(fd), NEW k \in 0 .. Room(fd),
           NEW m, Deliver(fd, k, m)
    PROVE  Kernel'
<1>0. Room(fd) \in Nat /\ Kernel
  BY RoomType DEF Inv
<1>1. /\ UNCHANGED <<pout, perr, ends, backlog>>
      /\ pin' = IF fd = stdin_fd(mgr) THEN pin + k ELSE pin
      /\ con' = IF fd = "console" THEN [con EXCEPT !.n = @ + k] ELSE con
  BY DEF Deliver
<1>2. pin' \in 0 .. PipeCap
  <2>1. pin \in 0 .. PipeCap
    BY <1>0 DEF Kernel
  <2>2. CASE fd = stdin_fd(mgr)
    <3>1. fd \in {"stdin", "pty"}
      BY <2>2, WriteTarget, StdinName, FdNames
    <3>2. k =< PipeCap - pin
      BY <1>0, <3>1 DEF Room
    <3> QED BY <1>1, <2>1, <2>2, <3>2, SizeAssumption
  <2> QED BY <1>1, <2>1, <2>2
<1>3. con' \in [n : 0 .. ConsoleCap, open : BOOLEAN, pollable : BOOLEAN]
  <2>1. con \in [n : 0 .. ConsoleCap, open : BOOLEAN, pollable : BOOLEAN]
    BY <1>0 DEF Kernel
  <2>2. CASE fd = "console"
    <3>1. con.n \in 0 .. ConsoleCap
      BY <2>1
    <3>2. con.n + k \in 0 .. ConsoleCap
      BY <1>0, <2>2, <3>1, SizeAssumption DEF Room
    <3> QED BY <1>1, <2>1, <2>2, <3>2
  <2> QED BY <1>1, <2>1, <2>2
<1>4. conn' \in [Conns -> Connection]
  <2>1. conn \in [Conns -> Connection]
    BY <1>0 DEF Kernel
  <2>2. CASE fd = "client"
    <3>1. mgr.client \in Conns /\ conn[mgr.client] \in Connection
      BY <2>2, WriteTarget, ClientConn DEF Inv
    <3>2. conn[mgr.client].s2c \in 0 .. SockCap
      BY <3>1 DEF Connection
    <3>3. conn[mgr.client].s2c + k \in 0 .. SockCap
      BY <1>0, <2>2, <3>2, SizeAssumption DEF Room
    <3>4. [conn[mgr.client] EXCEPT !.s2c = @ + k] \in Connection
      BY <3>1, <3>3 DEF Connection
    <3>5. [conn EXCEPT ![mgr.client].s2c = @ + k] \in [Conns -> Connection]
      BY <2>1, <3>1, <3>4
    <3> QED BY <2>2, <3>5, ConnType DEF Deliver
  <2>3. CASE fd # "client"
    BY <2>1, <2>3, ConnType DEF Deliver
  <2> QED BY <2>2, <2>3
<1> QED BY <1>0, <1>1, <1>2, <1>3, <1>4 DEF Kernel
--------------------------------------------------------------------------------
(* Every action of the batch is one of the four.                           *)

(* on_readable of the server socket.                                       *)
LEMMA AcceptDispatched ==
    ASSUME Inv, Accept
    PROVE  Dispatched
<1> DEFINE c == Head(backlog)
           m == accept(mgr, c)
<1>1. Turn("server", "IN") /\ backlog # <<>> /\ "server" \in Fd
  BY FdNames DEF Accept
<1>2. Good(mgr, epoll) /\ "server" \in mgr.fds.existing /\ Kernel
  BY <1>1, TurnFacts DEF Open, Inv
<1>3. backlog \in Seq(Conns) /\ conn \in [Conns -> Connection]
  BY <1>2 DEF Kernel
<1>4. c \in Conns /\ Tail(backlog) \in Seq(Conns)
  BY <1>1, <1>3
<1>5. Answers(mgr, epoll, "server", m)
  BY <1>2, <1>4, AcceptAnswers
<1>6. \/ /\ Handled("server", "IN", m)
         /\ backlog' = Tail(backlog)
         /\ conn' = [conn EXCEPT ![c] = IF HasClient(mgr) THEN CloseConn(@)
                                        ELSE [@ EXCEPT !.st = "served"]]
         /\ UNCHANGED <<child, con>>
      \/ Panicked(m)
  BY DEF Accept, Leave
<1>7. ASSUME backlog' = Tail(backlog), UNCHANGED <<child, con>>,
             conn' = [conn EXCEPT ![c] = IF HasClient(mgr) THEN CloseConn(@)
                                         ELSE [@ EXCEPT !.st = "served"]]
      PROVE  Kernel'
  <2>1. conn[c] \in Connection /\ CloseConn(conn[c]) \in Connection
    BY <1>3, <1>4, ClosedConn
  <2>2. [conn[c] EXCEPT !.st = "served"] \in Connection
    BY <2>1 DEF Connection
  <2>3. conn' \in [Conns -> Connection]
    BY <1>3, <1>4, <1>7, <2>1, <2>2
  <2> QED BY <1>2, <1>4, <1>7, <2>3 DEF Kernel, child
<1>8. (Handled("server", "IN", m) /\ Kernel') \/ Panicked(m)
  BY <1>6, <1>7
<1> HIDE DEF m
<1> QED BY <1>1, <1>2, <1>5, <1>8, LeaveDispatched
(* on_readable of the client; its assertion holds.                         *)
LEMMA ClientReadableDispatched ==
    ASSUME Inv, ClientReadable
    PROVE  Dispatched
<1> DEFINE k == conn[mgr.client]
           r == channel_to_buffer(mgr.in_buffer, k.c2s, k.reset)
           m == client_read(mgr, r)
<1>1. Turn("client", "IN") /\ Open("client") /\ "client" \in Fd
  BY FdNames DEF ClientReadable
<1>2. /\ Good(mgr, epoll) /\ mgr \in Manager /\ "client" \in mgr.fds.existing /\ Kernel
      /\ client_socket_readable(mgr)
  BY <1>1, TurnFacts DEF Inv, Pending, Turn
<1>3. mgr.client \in Conns /\ k \in Connection /\ conn \in [Conns -> Connection]
  BY <1>2, ClientConn DEF client_socket_readable, Kernel
<1>4. k.c2s \in 0 .. SockCap /\ k.c2s \in Nat /\ mgr.in_buffer \in Counts
  BY <1>2, <1>3, SizeAssumption DEF Connection, Manager
<1>5. ReadResult(mgr.in_buffer, k.c2s, r)
  BY <1>4, ChannelToBuffer
<1>6. Answers(mgr, epoll, "client", m)
  BY <1>2, <1>5, ClientReadAnswers
<1>7. Leave("client", "IN", m,
            /\ conn' = Conn(m, [conn EXCEPT ![mgr.client] =
                 [k EXCEPT !.c2s = @ - r.took, !.reset = @ /\ k.c2s > 0]])
            /\ UNCHANGED <<child, con, backlog>>)
  BY <1>2 DEF ClientReadable
<1>8. [conn EXCEPT ![mgr.client] =
         [k EXCEPT !.c2s = @ - r.took, !.reset = @ /\ k.c2s > 0]] \in [Conns -> Connection]
  <2>1. r.took \in 0 .. k.c2s
    BY <1>5 DEF ReadResult
  <2>2. k.c2s - r.took \in 0 .. SockCap
    BY <1>4, <2>1, SizeAssumption
  <2>3. \A x \in BOOLEAN, y \in 0 .. SockCap : [k EXCEPT !.c2s = y, !.reset = x] \in Connection
    BY <1>3 DEF Connection
  <2>4. (k.reset /\ k.c2s > 0) \in BOOLEAN
    OBVIOUS
  <2>5. [k EXCEPT !.c2s = k.c2s - r.took, !.reset = k.reset /\ k.c2s > 0] \in Connection
    BY <2>2, <2>3, <2>4, Zenon
  <2>6. \A k3 \in Connection : [conn EXCEPT ![mgr.client] = k3] \in [Conns -> Connection]
    BY <1>3
  <2> DEFINE k3 == [k EXCEPT !.c2s = k.c2s - r.took, !.reset = k.reset /\ k.c2s > 0]
  <2>8. k3 \in Connection
    BY <2>5
  <2> HIDE DEF k3
  <2>9. [conn EXCEPT ![mgr.client] = k3] \in [Conns -> Connection]
    BY <2>6, <2>8
  <2> QED BY <2>9 DEF k3
<1>9. ASSUME conn' = Conn(m, [conn EXCEPT ![mgr.client] =
               [k EXCEPT !.c2s = @ - r.took, !.reset = @ /\ k.c2s > 0]]),
             UNCHANGED <<child, con, backlog>>
      PROVE  Kernel'
  <2>1. conn' \in [Conns -> Connection]
    BY <1>8, <1>9, ConnType, Zenon
  <2> QED BY <1>2, <1>9, <2>1 DEF Kernel, child
<1>10. (Handled("client", "IN", m) /\ Kernel') \/ Panicked(m)
  BY <1>7, <1>9, Zenon DEF Leave
<1> HIDE DEF m
<1> QED BY <1>1, <1>2, <1>6, <1>10, LeaveDispatched

(* on_readable of the child's stdout or pty.                               *)
LEMMA OutputReadableDispatched ==
    ASSUME Inv, NEW fd \in Fd, OutputReadable(fd)
    PROVE  Dispatched
<1> DEFINE r == channel_to_buffer(mgr.out_buffer, pout, FALSE)
           m == output_read(mgr, fd, r)
<1>1. Turn(fd, "IN") /\ Open(fd) /\ fd \in {"stdout", "pty"}
  BY DEF OutputReadable
<1>2. Good(mgr, epoll) /\ mgr \in Manager /\ fd \in mgr.fds.existing /\ Kernel
  BY <1>1, TurnFacts DEF Inv
<1>3. fd \in mgr.stdio /\ pout \in 0 .. PipeCap /\ pout \in Nat /\ mgr.out_buffer \in Counts
  BY <1>1, <1>2, SizeAssumption DEF Open, Kernel, Manager
<1>4. ReadResult(mgr.out_buffer, pout, r)
  BY <1>3, ChannelToBuffer
<1>5. Answers(mgr, epoll, fd, m)
  BY <1>2, <1>3, <1>4, OutputReadAnswers
<1>6. \/ Handled(fd, "IN", m) /\ pout' = pout - r.took /\ UNCHANGED <<pin, perr, ends, peers>>
      \/ Panicked(m)
  BY DEF OutputReadable, Leave
<1>7. r.took \in 0 .. pout
  BY <1>4 DEF ReadResult
<1> HIDE DEF m, r
<1>8. (Handled(fd, "IN", m) /\ Kernel') \/ Panicked(m)
  BY <1>2, <1>3, <1>6, <1>7, SizeAssumption DEF Kernel, peers
<1> QED BY <1>1, <1>2, <1>5, <1>8, LeaveDispatched

(* on_readable of the child's stderr.                                      *)
LEMMA StderrReadableDispatched ==
    ASSUME Inv, StderrReadable
    PROVE  Dispatched
<1> DEFINE r == read_stderr(mgr, pout)
           m == output_read(mgr, "stderr", r)
<1>1. Turn("stderr", "IN") /\ "stderr" \in mgr.stdio
  BY DEF StderrReadable
<1>2. mgr \in Manager /\ Kernel
  BY DEF Inv
<1>3. "stderr" \in Fd /\ pout \in 0 .. PipeCap /\ pout \in Nat /\ Open("stderr")
  BY <1>1, <1>2, SizeAssumption, FdNames DEF Open, Kernel, Manager
<1>4. Good(mgr, epoll) /\ "stderr" \in mgr.fds.existing
  BY <1>1, <1>3, TurnFacts
<1>5. ReadResult(mgr.out_buffer, pout, r)
  BY <1>2, <1>3, ReadStderr
<1>6. Answers(mgr, epoll, "stderr", m)
  BY <1>1, <1>4, <1>5, OutputReadAnswers
<1>7. \/ Handled("stderr", "IN", m) /\ pout' = pout - r.took
           /\ UNCHANGED <<pin, perr, ends, peers>>
      \/ Panicked(m)
  BY DEF StderrReadable, Leave
<1>8. r.took \in 0 .. pout
  BY <1>5 DEF ReadResult
<1> HIDE DEF m, r
<1>9. (Handled("stderr", "IN", m) /\ Kernel') \/ Panicked(m)
  BY <1>2, <1>3, <1>7, <1>8, SizeAssumption DEF Kernel, peers
<1> QED BY <1>1, <1>3, <1>4, <1>6, <1>9, LeaveDispatched

(* What on_writable makes of the manager, whichever fd it is for.          *)
LEMMA WrittenAnswers ==
    ASSUME Inv, NEW fd \in Fd, Turn(fd, "OUT"), Open(fd),
           NEW n \in 0 .. Readable(BufferOf(fd)), NEW failed
    PROVE  Answers(mgr, epoll, fd, written(mgr, fd, buffer_to_channel(BufferOf(fd), n, failed)))
<1> DEFINE w == buffer_to_channel(BufferOf(fd), n, failed)
<1>1. Good(mgr, epoll) /\ fd \in mgr.fds.existing /\ BufferOf(fd) \in Counts
  BY TurnFacts
<1>2. WriteResult(BufferOf(fd), w)
  BY <1>1, BufferToChannel
<1> HIDE DEF w
<1>3. CASE fd = "client"
  <2>1. BufferOf(fd) = mgr.out_buffer /\ written(mgr, fd, w) = client_written(mgr, w)
    BY <1>3 DEF BufferOf, written
  <2> QED BY <1>1, <1>2, <1>3, <2>1, ClientWrittenAnswers DEF w
<1>4. CASE fd = "console"
  <2>1. BufferOf(fd) = mgr.out_buffer /\ written(mgr, fd, w) = console_written(mgr, w)
    BY <1>4 DEF BufferOf, written
  <2> QED BY <1>1, <1>2, <1>4, <2>1, ConsoleWrittenAnswers DEF w
<1>5. CASE fd \in {"stdin", "pty"} /\ fd \in mgr.stdio /\ fd = stdin_fd(mgr)
  <2>1. BufferOf(fd) = mgr.in_buffer /\ written(mgr, fd, w) = stdin_written(mgr, w)
    BY <1>5 DEF BufferOf, written
  <2> QED BY <1>1, <1>2, <1>5, <2>1, StdinWrittenAnswers DEF w
<1> QED BY <1>3, <1>4, <1>5, WriteTarget
(* A write that returns n bytes and puts k of them into the stream.        *)
LEMMA WriteReturns ==
    ASSUME Inv, NEW fd \in Fd, Turn(fd, "OUT"), Open(fd), NEW k \in 0 .. Room(fd),
           NEW n \in 0 .. Readable(BufferOf(fd)), NEW failed, NEW m,
           m = written(mgr, fd, buffer_to_channel(BufferOf(fd), n, failed)),
           Leave(fd, "OUT", m, Deliver(fd, k, m))
    PROVE  Dispatched
<1>1. Answers(mgr, epoll, fd, m) /\ fd \in mgr.fds.existing
  BY WrittenAnswers, TurnFacts
<1>2. (Handled(fd, "OUT", m) /\ Kernel') \/ Panicked(m)
  BY DeliverKernel DEF Leave
<1> QED BY <1>1, <1>2, LeaveDispatched

(* on_writable of any fd.                                                  *)
LEMMA WritableDispatched ==
    ASSUME Inv, NEW fd \in Fd, Writable(fd)
    PROVE  Dispatched
<1> DEFINE b == BufferOf(fd)
           k == Least(Room(fd), Readable(b) - done)
           n == done + k
           m == written(mgr, fd, buffer_to_channel(b, n, FALSE))
<1>1. Turn(fd, "OUT") /\ Open(fd)
  BY DEF Writable, Writing
<1>2. b \in Counts /\ done \in 0 .. Readable(b) /\ Room(fd) \in Nat
  BY <1>1, TurnFacts, RoomType
<1>3. Readable(b) \in Nat
  BY <1>2, CountsBounds, CapacityAssumption
<1>4. k \in 0 .. Room(fd) /\ n \in 0 .. Readable(b)
  BY <1>2, <1>3 DEF Least
<1>5. CASE Leave(fd, "OUT", m, Deliver(fd, k, m))
  <2> HIDE DEF k, n
  <2> QED BY <1>1, <1>4, <1>5, WriteReturns DEF m
<1>6. CASE /\ done' = n /\ cur' = fd
           /\ Deliver(fd, k, mgr)
           /\ UNCHANGED <<pc, mgr, batch, final, epoll, close_byte, left>>
  <2>1. Kernel'
    <3> HIDE DEF k
    <3> QED BY <1>1, <1>4, <1>6, DeliverKernel
  <2>2. PartlyWritten(fd)
    BY <1>1, <1>4, <1>6, <2>1 DEF PartlyWritten
  <2> QED BY <2>2 DEF Dispatched
<1> QED BY <1>5, <1>6 DEF Writable

(* A write whose other end is gone.                                        *)
LEMMA WriteBrokenDispatched ==
    ASSUME Inv, NEW fd \in Fd, WriteBroken(fd)
    PROVE  Dispatched
<1>1. Turn(fd, "OUT") /\ Open(fd)
  BY DEF WriteBroken, Writing
<1>2. BufferOf(fd) \in Counts /\ done \in 0 .. Readable(BufferOf(fd)) /\ Room(fd) \in Nat
  BY <1>1, TurnFacts, RoomType
<1>3. Readable(BufferOf(fd)) \in Nat /\ 0 \in 0 .. Room(fd)
  BY <1>2, CountsBounds, CapacityAssumption
<1>4. PICK n \in IF fd = "console" THEN done .. Readable(BufferOf(fd)) ELSE {done} :
        LET failed == fd = "console" \/ (n = 0 /\ ~ignore_eio(fd))
            m == written(mgr, fd, buffer_to_channel(BufferOf(fd), n, failed))
        IN  Leave(fd, "OUT", m, Deliver(fd, 0, m))
  BY DEF WriteBroken
<1>5. n \in 0 .. Readable(BufferOf(fd))
  BY <1>2, <1>3
<1> QED BY <1>1, <1>3, <1>4, <1>5, WriteReturns

(* A call that waited is interrupted.                                      *)
LEMMA InterruptedDispatched ==
    ASSUME Inv, NEW fd \in Fd, NEW a \in Acts, Interrupted(fd, a)
    PROVE  Dispatched
<1>1. Turn(fd, a) /\ Open(fd) /\ pc = "dispatch"
  BY DEF Interrupted, Blocked, Writing, Turn
<1>2. CASE a = "OUT" /\ done > 0
  <2>1. BufferOf(fd) \in Counts /\ done \in 0 .. Readable(BufferOf(fd)) /\ Room(fd) \in Nat
    BY <1>1, <1>2, TurnFacts, RoomType
  <2>2. 0 \in 0 .. Room(fd)
    BY <2>1
  <2>3. LET m == written(mgr, fd, buffer_to_channel(BufferOf(fd), done, FALSE))
        IN  Leave(fd, "OUT", m, Deliver(fd, 0, m))
    BY <1>2 DEF Interrupted
  <2> QED BY <1>1, <1>2, <2>1, <2>2, <2>3, WriteReturns
<1>3. CASE ~(a = "OUT" /\ done > 0)
  BY <1>1, <1>3 DEF Interrupted, Dispatched, Failed
<1> QED BY <1>2, <1>3

(* on_hangup of any fd.                                                    *)
LEMMA HangupDispatched ==
    ASSUME Inv, NEW fd \in Fd, Hangup(fd)
    PROVE  Dispatched
<1> DEFINE m == on_hangup(mgr, fd)
<1>1. Turn(fd, "HUP") /\ Open(fd)
  BY DEF Hangup
<1>2. Good(mgr, epoll) /\ fd \in mgr.fds.existing /\ mgr \in Manager /\ Kernel
  BY <1>1, TurnFacts DEF Inv
<1>3. Answers(mgr, epoll, fd, m)
  <2>1. CASE fd # "server"
    BY <1>2, <2>1, HangupAnswers
  <2>2. CASE fd = "server"
    <3>1. m = mgr
      BY <1>2, <2>2, HangupAnswers
    <3>2. Keeps(mgr, mgr)
      BY <1>2, OwnedParts DEF Good
    <3>3. Degrades(mgr, fd, mgr)
      BY DEF Degrades
    <3> QED BY <1>2, <3>1, <3>2, <3>3, KeepsAnswers
  <2> QED BY <2>1, <2>2
<1>4. \/ Handled(fd, "HUP", m) /\ conn' = Conn(m, conn) /\ UNCHANGED <<child, con, backlog>>
      \/ Panicked(m)
  BY DEF Hangup, Leave
<1> HIDE DEF m
<1>5. Conn(m, conn) \in [Conns -> Connection]
  BY <1>2, ConnType DEF Kernel
<1>6. (Handled(fd, "HUP", m) /\ Kernel') \/ Panicked(m)
  BY <1>2, <1>4, <1>5 DEF Kernel, child
<1> QED BY <1>1, <1>2, <1>3, <1>6, LeaveDispatched

(* Whatever the worker does at a batch.                                    *)
LEMMA WorkerSteps ==
    ASSUME Inv, Worker \/ \E fd \in Fd, a \in Acts : Interrupted(fd, a)
    PROVE  NewPollster \/ Wait \/ EndBatch \/ Dispatched
<1>1. ASSUME ClientUnwritable
      PROVE  Dispatched
  BY <1>1 DEF ClientUnwritable, Turn, Dispatched, Failed
<1>2. ASSUME NEW fd \in Fd, NEW a \in Acts, Ignored(fd, a)
      PROVE  Dispatched
  BY <1>2 DEF Dispatched
<1> QED BY <1>1, <1>2, AcceptDispatched, ClientReadableDispatched, OutputReadableDispatched,
           StderrReadableDispatched, WritableDispatched, WriteBrokenDispatched,
           HangupDispatched, InterruptedDispatched DEF Worker
--------------------------------------------------------------------------------
(* The environment.                                                        *)

(* All that a step of the others can be: it leaves the worker and epoll    *)
(* alone, and the close byte once written stays.                           *)
Around ==
    /\ World /\ Kernel' /\ left' \in Lefts
    /\ UNCHANGED close_byte \/ NotifyClose

(* One of the closes the bound allows.                                     *)
LEMMA ClosingLefts ==
    ASSUME left \in Lefts, Closing
    PROVE  left' \in Lefts
<1>1. left.closes \in 0 .. Closes /\ left.closes > 0
  BY DEF Lefts, Closing
<1>2. left.closes - 1 \in 0 .. Closes
  BY <1>1, SizeAssumption
<1> QED BY <1>2 DEF Closing, Lefts

(* The child and the main thread.                                          *)
LEMMA ChildAround ==
    ASSUME Inv,
           ChildWrite \/ ChildWriteErr \/ ChildRead \/ NotifyClose
             \/ \E fd \in ChildFds : ChildClose(fd)
    PROVE  Around
<1>1. Kernel /\ left \in Lefts
  BY DEF Inv
<1>2. pin \in 0 .. PipeCap /\ pout \in 0 .. PipeCap /\ perr \in 0 .. PipeCap
  BY <1>1 DEF Kernel
<1>3. left.out \in 0 .. OutBytes /\ left.err \in 0 .. ErrBytes
  BY <1>1 DEF Lefts
<1>4. CASE ChildWrite
  <2>1. /\ World /\ pout < PipeCap /\ left.out > 0 /\ pout' = pout + 1
        /\ left' = [left EXCEPT !.out = @ - 1]
        /\ UNCHANGED <<pin, perr, ends, peers, close_byte>>
    BY <1>4 DEF ChildWrite
  <2>2. pout' \in 0 .. PipeCap
    BY <1>2, <2>1, SizeAssumption
  <2>3. left.out - 1 \in 0 .. OutBytes
    BY <1>3, <2>1, SizeAssumption
  <2>4. left' \in Lefts
    BY <1>1, <2>1, <2>3 DEF Lefts
  <2> QED BY <1>1, <2>1, <2>2, <2>4 DEF Around, Kernel, peers
<1>5. CASE ChildWriteErr
  <2>1. /\ World /\ perr < PipeCap /\ left.err > 0 /\ perr' = perr + 1
        /\ left' = [left EXCEPT !.err = @ - 1]
        /\ UNCHANGED <<pin, pout, ends, peers, close_byte>>
    BY <1>5 DEF ChildWriteErr
  <2>2. perr' \in 0 .. PipeCap
    BY <1>2, <2>1, SizeAssumption
  <2>3. left.err - 1 \in 0 .. ErrBytes
    BY <1>3, <2>1, SizeAssumption
  <2>4. left' \in Lefts
    BY <1>1, <2>1, <2>3 DEF Lefts
  <2> QED BY <1>1, <2>1, <2>2, <2>4 DEF Around, Kernel, peers
<1>6. CASE ChildRead
  <2>1. /\ World /\ pin > 0 /\ pin' = pin - 1
        /\ UNCHANGED <<pout, perr, ends, peers, close_byte, left>>
    BY <1>6 DEF ChildRead
  <2>2. pin' \in 0 .. PipeCap
    BY <1>2, <2>1, SizeAssumption
  <2> QED BY <1>1, <2>1, <2>2 DEF Around, Kernel, peers
<1>7. ASSUME NEW fd \in ChildFds, ChildClose(fd)
      PROVE  Around
  <2>1. /\ World /\ ends' = ends \ {fd} /\ Closing
        /\ pin' = IF fd = ChildIn THEN 0 ELSE pin
        /\ UNCHANGED <<pout, perr, peers, close_byte>>
    BY <1>7 DEF ChildClose
  <2>2. pin' \in 0 .. PipeCap
    BY <1>2, <2>1, SizeAssumption
  <2>3. left' \in Lefts
    BY <1>1, <2>1, ClosingLefts
  <2> QED BY <1>1, <2>1, <2>2, <2>3 DEF Around, Kernel, peers
<1>8. CASE NotifyClose
  <2>1. World /\ UNCHANGED <<child, peers, left>>
    BY <1>8 DEF NotifyClose
  <2> QED BY <1>1, <1>8, <2>1 DEF Around, Kernel, child, peers
<1> QED BY <1>4, <1>5, <1>6, <1>7, <1>8

(* A client changes its own connection.                                    *)
LEMMA ConnAround ==
    ASSUME Inv, World, NEW c \in Conns, NEW k \in Connection,
           conn' = [conn EXCEPT ![c] = k], backlog' \in Seq(Conns), left' \in Lefts,
           UNCHANGED <<child, con, close_byte>>
    PROVE  Around
<1>1. conn' \in [Conns -> Connection]
  BY DEF Inv, Kernel
<1> QED BY <1>1 DEF Inv, Around, Kernel, child

(* The clients.                                                            *)
LEMMA ClientAround ==
    ASSUME Inv, NEW c \in Conns,
           Connect(c) \/ Send(c) \/ PeerClose(c) \/ PeerRead(c)
             \/ \E half \in {"wr", "rd"} : Shutdown(c, half)
    PROVE  Around
<1>1. Kernel /\ left \in Lefts
  BY DEF Inv
<1>2. conn[c] \in Connection /\ backlog \in Seq(Conns) /\ conn \in [Conns -> Connection]
  BY <1>1 DEF Kernel
<1>3. conn[c].c2s \in 0 .. SockCap /\ conn[c].s2c \in 0 .. SockCap /\ left.in \in 0 .. InBytes
  BY <1>1, <1>2 DEF Connection, Lefts
<1>4. CASE Connect(c)
  <2> DEFINE k == [conn[c] EXCEPT !.st = "backlog"]
  <2>1. /\ World /\ conn' = [conn EXCEPT ![c] = k] /\ backlog' = Append(backlog, c)
        /\ UNCHANGED <<child, con, close_byte, left>>
    BY <1>4 DEF Connect
  <2>2. k \in Connection
    BY <1>2 DEF Connection
  <2> HIDE DEF k
  <2>3. backlog' \in Seq(Conns)
    BY <1>2, <2>1
  <2> QED BY <1>1, <2>1, <2>2, <2>3, ConnAround
<1>5. CASE Send(c)
  <2> DEFINE k == [conn[c] EXCEPT !.c2s = @ + 1]
  <2>1. /\ World /\ conn' = [conn EXCEPT ![c] = k]
        /\ conn[c].c2s < SockCap /\ left.in > 0 /\ left' = [left EXCEPT !.in = @ - 1]
        /\ UNCHANGED <<child, con, backlog, close_byte>>
    BY <1>5 DEF Send
  <2>2. conn[c].c2s + 1 \in 0 .. SockCap
    BY <1>3, <2>1, SizeAssumption
  <2>3. k \in Connection
    BY <1>2, <2>2 DEF Connection
  <2> HIDE DEF k
  <2>4. left.in - 1 \in 0 .. InBytes
    BY <1>3, <2>1, SizeAssumption
  <2>5. left' \in Lefts
    BY <1>1, <2>1, <2>4 DEF Lefts
  <2> QED BY <1>2, <2>1, <2>3, <2>5, ConnAround
<1>6. CASE PeerRead(c)
  <2> DEFINE k == [conn[c] EXCEPT !.s2c = @ - 1]
  <2>1. /\ World /\ conn' = [conn EXCEPT ![c] = k] /\ conn[c].s2c > 0
        /\ UNCHANGED <<child, con, backlog, close_byte, left>>
    BY <1>6 DEF PeerRead
  <2>2. conn[c].s2c - 1 \in 0 .. SockCap
    BY <1>3, <2>1, SizeAssumption
  <2>3. k \in Connection
    BY <1>2, <2>2 DEF Connection
  <2> HIDE DEF k
  <2> QED BY <1>1, <1>2, <2>1, <2>3, ConnAround
<1>7. CASE PeerClose(c)
  <2> DEFINE k == [conn[c] EXCEPT !.wr = FALSE, !.rd = FALSE, !.s2c = 0,
                                  !.reset = conn[c].s2c > 0]
  <2>1. World /\ Closing /\ UNCHANGED <<child, con, backlog, close_byte>>
    BY <1>7 DEF PeerClose
  <2>2. conn' = [conn EXCEPT ![c] = k]
    BY <1>7, Zenon DEF PeerClose
  <2>3. k \in Connection
    <3>1. 0 \in 0 .. SockCap
      BY SizeAssumption
    <3>2. \A x, y, z \in BOOLEAN :
            [conn[c] EXCEPT !.wr = x, !.rd = y, !.s2c = 0, !.reset = z] \in Connection
      BY <1>2, <3>1 DEF Connection
    <3>3. FALSE \in BOOLEAN /\ (conn[c].s2c > 0) \in BOOLEAN
      BY <1>3
    <3> QED BY <3>2, <3>3, Zenon
  <2> HIDE DEF k
  <2>4. left' \in Lefts
    BY <1>1, <2>1, ClosingLefts
  <2> QED BY <1>2, <2>1, <2>2, <2>3, <2>4, ConnAround
<1>8. ASSUME NEW half \in {"wr", "rd"}, Shutdown(c, half)
      PROVE  Around
  <2> DEFINE k == [conn[c] EXCEPT ![half] = FALSE]
  <2>1. World /\ Closing /\ UNCHANGED <<child, con, backlog, close_byte>>
    BY <1>8 DEF Shutdown
  <2>2. conn' = [conn EXCEPT ![c] = k]
    BY <1>8, Zenon DEF Shutdown
  <2>3. k \in Connection
    <3>1. \A x \in BOOLEAN : /\ [conn[c] EXCEPT !["wr"] = x] \in Connection
                             /\ [conn[c] EXCEPT !["rd"] = x] \in Connection
      BY <1>2 DEF Connection
    <3>2. FALSE \in BOOLEAN
      OBVIOUS
    <3> QED BY <3>1, <3>2, Zenon
  <2> HIDE DEF k
  <2>4. left' \in Lefts
    BY <1>1, <2>1, ClosingLefts
  <2> QED BY <1>2, <2>1, <2>2, <2>3, <2>4, ConnAround
<1> QED BY <1>4, <1>5, <1>6, <1>7, <1>8

(* The reader of the console.                                              *)
LEMMA ConsoleAround ==
    ASSUME Inv, ConsoleRead \/ ConsoleClose
    PROVE  Around
<1> DEFINE Con == [n : 0 .. ConsoleCap, open : BOOLEAN, pollable : BOOLEAN]
<1>1. Kernel /\ left \in Lefts /\ con \in Con
  BY DEF Inv, Kernel
<1>2. World /\ UNCHANGED <<child, conn, backlog, close_byte>>
  BY DEF ConsoleRead, ConsoleClose
<1>3. con' \in Con
  <2>1. CASE ConsoleRead
    <3>1. con.n \in 0 .. ConsoleCap /\ con.n > 0
      BY <1>1, <2>1 DEF ConsoleRead
    <3>2. con.n - 1 \in 0 .. ConsoleCap
      BY <3>1, SizeAssumption
    <3> QED BY <1>1, <2>1, <3>2 DEF ConsoleRead
  <2>2. CASE ConsoleClose
    <3>1. 0 \in 0 .. ConsoleCap /\ FALSE \in BOOLEAN
      BY SizeAssumption
    <3>2. \A x \in BOOLEAN : [con EXCEPT !.open = x, !.n = 0] \in Con
      BY <1>1, <3>1
    <3>3. con' = [con EXCEPT !.open = FALSE, !.n = 0]
      BY <2>2, Zenon DEF ConsoleClose
    <3> HIDE DEF Con
    <3> QED BY <3>1, <3>2, <3>3, Zenon
  <2> QED BY <2>1, <2>2
<1>4. left' \in Lefts
  BY <1>1, ClosingLefts DEF ConsoleRead, ConsoleClose
<1> QED BY <1>1, <1>2, <1>3, <1>4 DEF Around, Kernel, child

(* Whatever the environment does.                                          *)
LEMMA EnvironmentSteps ==
    ASSUME Inv, Environment
    PROVE  Around
BY ChildAround, ClientAround, ConsoleAround DEF Environment

(* And it keeps the invariant.                                             *)
LEMMA AroundInv ==
    ASSUME Inv, Around
    PROVE  Inv'
<1>1. close_byte' \in BOOLEAN /\ (close_byte => close_byte')
  <2>1. CASE UNCHANGED close_byte
    BY <2>1 DEF Inv
  <2>2. CASE NotifyClose
    <3>1. close_byte' = TRUE
      BY <2>2 DEF NotifyClose
    <3> QED BY <3>1, Zenon
  <2> QED BY <2>1, <2>2 DEF Around
<1> QED BY <1>1, WorldInv DEF Around
--------------------------------------------------------------------------------
(* The theorems.                                                           *)

(* A step of the specification, as the lemmas see it.                      *)
LEMMA Steps ==
    ASSUME Inv, [Next]_vars
    PROVE  NewPollster \/ Wait \/ EndBatch \/ Dispatched \/ Around \/ UNCHANGED vars
BY WorkerSteps, EnvironmentSteps DEF Next

(* Every step keeps the invariant.                                         *)
LEMMA NextInv ==
    ASSUME Inv, [Next]_vars
    PROVE  Inv'
<1>1. CASE UNCHANGED vars
  <2>1. /\ UNCHANGED <<pc, mgr, batch, cur, final, done, epoll, pin, pout, perr, ends>>
        /\ UNCHANGED <<con, conn, backlog, close_byte, left>>
    BY <1>1 DEF vars, worker, child, peers
  <2>2. Kernel'
    BY <2>1 DEF Inv, Kernel
  <2>3. Pending' /\ InCall'
    BY <2>1 DEF Inv, Pending, Open, InCall, BufferOf
  <2> QED BY <2>1, <2>2, <2>3 DEF Inv, AssertionsHold
<1> QED BY <1>1, Steps, NewPollsterInv, WaitInv, EndBatchInv, DispatchedInv, AroundInv

(* The invariant holds throughout.                                         *)
LEMMA Invariance == Spec => []Inv
BY InitInv, NextInv, PTL DEF Spec

(* The types of the whole system, whatever the sizes of its pages, pipes,  *)
(* sockets and batches and however many clients there are.                 *)
THEOREM TypeCorrect == Spec => []TypeOK
<1>1. Inv => TypeOK
  BY InvImplies
<1> QED BY <1>1, Invariance, PTL

(* At epoll_wait the PolledFdSet, the kernel and the manager's channels    *)
(* agree (polled_fd.rs:159-185, io.rs:278-505).                            *)
THEOREM InterestCorrect == Spec => []InterestInSync
<1>1. Inv => InterestInSync
  BY InvImplies
<1> QED BY <1>1, Invariance, PTL

(* Pending output is never left without a wakeup (io.rs:252-255).          *)
THEOREM OutputCorrect == Spec => []OutputWakeup
<1>1. Inv => OutputWakeup
  BY InvImplies
<1> QED BY <1>1, Invariance, PTL

(* Nor is pending input (io.rs:344-349, 451-460).                          *)
THEOREM InputCorrect == Spec => []InputWakeup
<1>1. Inv => InputWakeup
  BY InvImplies
<1> QED BY <1>1, Invariance, PTL

(* The console is not polled while there is a client (io.rs:309-314).      *)
THEOREM ConsoleCorrect == Spec => []ConsoleQuiet
<1>1. Inv => ConsoleQuiet
  BY InvImplies
<1> QED BY <1>1, Invariance, PTL

(* No registration, unregistration, client read or epoll_ctl of a batch    *)
(* fails its assertion (polled_fd.rs:83-97, 130, 146, io.rs:325).          *)
THEOREM AssertionsCorrect == Spec => []AssertionsHold
<1>1. Inv => AssertionsHold
  BY InvImplies
<1> QED BY <1>1, Invariance, PTL

(* A client that stays keeps its halves, or loses one of two.              *)
LEMMA StepDegrades ==
    ASSUME Inv, [Next]_vars, HasClient(mgr), mgr'.client = mgr.client
    PROVE  mgr.availability \in {"ReadWrite", mgr'.availability}
<1>1. ASSUME NEW how, Stop(how)
      PROVE  FALSE
  BY <1>1, EmptyManagers DEF Stop, HasClient
<1>2. CASE NewPollster
  BY <1>2, EmptyManagers DEF NewPollster, Inv, HasClient
<1>3. CASE Wait
  BY <1>3 DEF Wait
<1>4. CASE EndBatch
  <2>1. mgr' = [mgr EXCEPT !.fds = UpdatedFds(@)] /\ mgr \in Manager
    BY <1>1, <1>4, EndBatchInv DEF Inv
  <2> QED BY <2>1 DEF Manager
<1>5. CASE Dispatched
  <2>1. ASSUME NEW fd \in Fd, NEW a \in Acts, NEW m \in Manager, Answered(fd, a, m)
        PROVE  mgr.availability \in {"ReadWrite", mgr'.availability}
    <3>1. mgr' = m /\ m.fds.failed = "none" /\ Answers(mgr, epoll, fd, m)
      BY <2>1 DEF Answered, Handled
    <3>2. Degrades(mgr, fd, m)
      BY <3>1 DEF Answers
    <3> QED BY <3>1, <3>2 DEF Degrades
  <2>2. ASSUME NEW fd \in Fd, NEW a \in Acts, Ignored(fd, a)
        PROVE  mgr.availability \in {"ReadWrite", mgr'.availability}
    BY <2>2 DEF Ignored, Handled
  <2>3. ASSUME NEW fd \in Fd, PartlyWritten(fd)
        PROVE  mgr.availability \in {"ReadWrite", mgr'.availability}
    BY <2>3 DEF PartlyWritten
  <2>4. ~Failed
    BY <1>1 DEF Failed
  <2> QED BY <1>5, <2>1, <2>2, <2>3, <2>4 DEF Dispatched
<1>6. CASE Around \/ UNCHANGED vars
  BY <1>6 DEF Around, World, vars, worker
<1> QED BY <1>2, <1>3, <1>4, <1>5, <1>6, Steps

(* No client gets back a half it has lost (io.rs:330-339, 421-429).        *)
THEOREM AvailabilityCorrect == Spec => AvailabilityDegrades
<1>1. ASSUME Inv, [Next]_vars
      PROVE  [(HasClient(mgr) /\ mgr'.client = mgr.client)
                 => mgr.availability \in {"ReadWrite", mgr'.availability}]_vars
  BY <1>1, StepDegrades
<1> QED BY <1>1, Invariance, PTL DEF Spec, AvailabilityDegrades
================================================================================
