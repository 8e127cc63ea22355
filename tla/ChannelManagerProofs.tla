-------------------------- MODULE ChannelManagerProofs --------------------------
(***************************************************************************)
(* Lemmas about the handlers of ChannelManager, for both modes, any page   *)
(* size and any connections.  Each says that a handler called for an fd    *)
(* the set has takes a manager that is Good to one that is, or fails the   *)
(* assertion of modify; and that it does no more to the set and the files  *)
(* than a handler of the generic Pollster may.                             *)
(***************************************************************************)
EXTENDS ChannelManager, PolledFdsProofs

--------------------------------------------------------------------------------
(* What a manager is like between two handlers.                            *)

(* The fds the manager has a channel for, and those that are open: the     *)
(* console is iosock's own stdout and is never closed.                     *)
Channels(m) ==
    m.stdio \cup {"server"} \cup (IF m.console THEN {"console"} ELSE {})
        \cup (IF HasClient(m) THEN {"client"} ELSE {})

Files(m) == Channels(m) \cup {"console"}

(* The set holds the channels of the manager and is in step with the       *)
(* instance; only a client can be new to it, and only the console removed. *)
Owned(m, ep) ==
    /\ m \in Manager
    /\ InStep(m.fds, ep, Files(m))
    /\ m.fds.existing \cup m.fds.new = Channels(m)
    /\ m.fds.new \subseteq {"client"}
    /\ m.fds.removed \subseteq {"console"}

(* What is asked for: OutputWakeup, InputWakeup and ConsoleQuiet in the    *)
(* middle of a batch, and no reads of a client that has sent its last.     *)
OutputAsked(m) ==
    (WritableSize(m.out_buffer) > 0 /\ PrimaryOutput(m) # "none") =>
        "OUT" \in m.fds.new_events[PrimaryOutput(m)]

InputAsked(m) ==
    (WritableSize(m.in_buffer) > 0 /\ stdin_fd(m) # "none") =>
        "OUT" \in m.fds.new_events[stdin_fd(m)]

ClientAsked(m) ==
    HasClient(m) =>
        /\ "OUT" \notin m.fds.new_events["console"]
        /\ m.availability = "WriteOnly" => "IN" \notin m.fds.new_events["client"]

Good(m, ep) == Owned(m, ep) /\ OutputAsked(m) /\ InputAsked(m) /\ ClientAsked(m)

--------------------------------------------------------------------------------
(* What a handler may do, as a Pollster sees it.                           *)

(* g is fs after the fds of opened were registered and any were modified.  *)
Alters(fs, opened, g) ==
    /\ g \in FdSets
    /\ g.existing = fs.existing /\ g.event = fs.event /\ g.new = fs.new \cup opened
    /\ g.removed = fs.removed /\ g.failed = fs.failed
    /\ \A fd \in Fd \ (fs.existing \cup opened) : g.new_events[fd] = fs.new_events[fd]

(* The handler kept all channels, took on a client, closed its fd, or left *)
(* the console.                                                            *)
Keeps(m, n) ==
    /\ Alters(m.fds, {}, n.fds)
    /\ n.stdio = m.stdio /\ n.client = m.client /\ n.console = m.console

Opens(m, n) ==
    /\ Alters(m.fds, {"client"}, n.fds)
    /\ ~HasClient(m) /\ HasClient(n)
    /\ n.stdio = m.stdio /\ n.console = m.console

Shuts(m, fd, n) ==
    /\ fd \in m.fds.existing /\ Alters(UnregisterClosed(m.fds, fd), {}, n.fds)
    /\ \/ fd = "client" /\ n.client = NoConn /\ n.stdio = m.stdio
       \/ fd \in m.stdio /\ n.client = m.client /\ n.stdio = m.stdio \ {fd}
    /\ n.console = m.console

Leaves(m, fd, n) ==
    /\ fd = "console" /\ fd \in m.fds.existing /\ Alters(Unregister(m.fds, fd), {}, n.fds)
    /\ n.client = m.client /\ n.stdio = m.stdio /\ ~n.console

(* The files that are closed when m has become n.                          *)
GoneFds(m, n) ==
    (m.stdio \ n.stdio) \cup (IF HasClient(m) /\ ~HasClient(n) THEN {"client"} ELSE {})

(* A client that stays has the halves it had, except that its own handler  *)
(* may have taken one of two.                                              *)
Degrades(m, fd, n) ==
    (HasClient(m) /\ n.client = m.client) =>
        n.availability = m.availability \/ (fd = "client" /\ m.availability = "ReadWrite")

(* What every handler of fd does.                                          *)
Answers(m, ep, fd, n) ==
    \/ n.fds.failed = "modify"
    \/ /\ Good(n, Closed(ep, GoneFds(m, n)))
       /\ Keeps(m, n) \/ Opens(m, n) \/ Shuts(m, fd, n) \/ Leaves(m, fd, n)
       /\ Degrades(m, fd, n)

--------------------------------------------------------------------------------
(* The names of the fds differ.                                            *)
LEMMA FdNames ==
    /\ {"server", "client", "console"} \subseteq Fd /\ ChildFds \subseteq Fd
    /\ {"server", "client", "console", "none", "close"} \cap ChildFds = {}
    /\ "none" \notin Fd /\ "close" \notin Fd
    /\ "stdin" \in ChildFds \/ "pty" \in ChildFds
BY FdAssumption, ModeAssumption DEF ChildFds

(* The child's stdin is a channel of the child, or there is none.          *)
LEMMA StdinName ==
    ASSUME NEW m
    PROVE  /\ stdin_fd(m) # "none" => stdin_fd(m) \in m.stdio /\ stdin_fd(m) \in {"stdin", "pty"}
           /\ \A n : n.stdio = m.stdio => stdin_fd(n) = stdin_fd(m)
BY DEF stdin_fd, pipes_stdin_fd, pty_stdin_fd

(* Nothing of Owned depends on the buffers or the availability.            *)
LEMMA OwnedParts ==
    ASSUME NEW m, NEW ep, Owned(m, ep), NEW n \in Manager, n.fds = m.fds,
           n.stdio = m.stdio, n.console = m.console, n.client = m.client
    PROVE  /\ Owned(n, ep) /\ Keeps(m, n)
           /\ PrimaryOutput(n) = PrimaryOutput(m) /\ stdin_fd(n) = stdin_fd(m)
           /\ HasClient(n) = HasClient(m)
<1>1. Channels(n) = Channels(m) /\ Files(n) = Files(m)
  BY DEF Channels, Files, HasClient
<1>2. Owned(n, ep)
  BY <1>1 DEF Owned
<1>3. Keeps(m, n)
  BY <1>2 DEF Keeps, Alters, Owned, InStep
<1>4. PrimaryOutput(n) = PrimaryOutput(m) /\ HasClient(n) = HasClient(m)
  BY DEF PrimaryOutput, HasClient
<1> QED BY <1>2, <1>3, <1>4, StdinName

(* n is m with e asked for on fd, or not.                                  *)
Polled(m, ep, fd, e, on, n) ==
    /\ Owned(n, ep) /\ Keeps(m, n)
    /\ n.availability = m.availability
    /\ n.in_buffer = m.in_buffer /\ n.out_buffer = m.out_buffer
    /\ \A f \in Fd : f # fd => n.fds.new_events[f] = m.fds.new_events[f]
    /\ \A x \in Events : x # e => (x \in n.fds.new_events[fd] <=> x \in m.fds.new_events[fd])
    /\ e \in n.fds.new_events[fd] <=> on

(* modify through poll_for_read or poll_for_write of a channel the set     *)
(* has.                                                                    *)
LEMMA PollOwned ==
    ASSUME NEW m, NEW ep, Owned(m, ep), NEW fd, fd \in m.fds.existing, NEW e \in Events,
           NEW on \in BOOLEAN
    PROVE  Polled(m, ep, fd, e, on, Poll(m, fd, e, on))
<1> DEFINE n == Poll(m, fd, e, on)
<1>1. m \in Manager /\ m.fds \in FdSets /\ fd \in Fd
  BY DEF Owned, Manager, FdSets
<1>2. /\ n.fds = Modify(m.fds, fd, e, on)
      /\ n.availability = m.availability
      /\ n.in_buffer = m.in_buffer /\ n.out_buffer = m.out_buffer
      /\ n.stdio = m.stdio /\ n.client = m.client /\ n.console = m.console
  BY <1>1 DEF Poll, Manager
<1> DEFINE g == Modify(m.fds, fd, e, on)
           v == [m.fds.new_events EXCEPT ![fd] = IF on THEN @ \cup {e} ELSE @ \ {e}]
<1>3. /\ g.existing = m.fds.existing /\ g.event = m.fds.event /\ g.new = m.fds.new
      /\ g.removed = m.fds.removed /\ g.failed = m.fds.failed
      /\ g.new_events = v
  BY <1>1 DEF Modify, FdSets
<1>4. InStep(g, ep, Files(m))
  BY ModifyInStep DEF Owned
<1>5. /\ \A f \in Fd : f # fd => v[f] = m.fds.new_events[f]
      /\ \A x \in Events : x # e => (x \in v[fd] <=> x \in m.fds.new_events[fd])
      /\ e \in v[fd] <=> on
  <2>1. m.fds.new_events \in [Fd -> SUBSET Events]
    BY <1>1 DEF FdSets
  <2> QED BY <1>1, <2>1
<1> HIDE DEF g, v
<1>6. n \in Manager
  <2>1. n = [m EXCEPT !.fds = g]
    BY DEF Poll, g
  <2>2. g \in FdSets
    BY <1>4 DEF InStep
  <2> QED BY <1>1, <2>1, <2>2 DEF Manager
<1>7. n.fds = g
  BY <1>2 DEF g
<1>8. Channels(n) = Channels(m) /\ Files(n) = Files(m)
  BY <1>2 DEF Channels, Files, HasClient
<1>9. Owned(n, ep)
  BY <1>3, <1>4, <1>6, <1>7, <1>8 DEF Owned
<1>10. Keeps(m, n)
  <2>1. \A f \in Fd \ m.fds.existing : g.new_events[f] = m.fds.new_events[f]
    BY <1>3, <1>5
  <2> QED BY <1>2, <1>3, <1>4, <1>7, <2>1 DEF Keeps, Alters, InStep
<1> HIDE DEF n
<1>11. Polled(m, ep, fd, e, on, n)
  BY <1>2, <1>3, <1>5, <1>7, <1>9, <1>10 DEF Polled
<1> QED BY <1>11 DEF n

(* modify of a channel that is still new fails its assertion.              *)
LEMMA PollFails ==
    ASSUME NEW m \in Manager, NEW fd, fd \notin m.fds.existing, NEW e, NEW on
    PROVE  Poll(m, fd, e, on).fds.failed = "modify"
BY DEF Poll, Modify, Manager, FdSets
--------------------------------------------------------------------------------
(* The buffers.                                                            *)

(* A page is never over its size, and flipping keeps the bytes.            *)
LEMMA CountsBounds ==
    ASSUME NEW b \in Counts
    PROVE  /\ b.rd \in 0 .. Capacity /\ b.wr \in 0 .. Capacity
           /\ BeforeRead(b) \in Counts /\ BeforeWrite(b) \in Counts
           /\ WritableSize(BeforeRead(b)) = WritableSize(b)
           /\ WritableSize(BeforeWrite(b)) = WritableSize(b)
           /\ Space(b) \in 0 .. Capacity /\ Readable(b) \in 0 .. Capacity
BY CapacityAssumption DEF Counts, BeforeRead, BeforeWrite, Flip, WritableSize, Space, Readable

(* read_from of no more than there is room for.                            *)
LEMMA AfterReadCounts ==
    ASSUME NEW b \in Counts, NEW k \in 0 .. Space(b)
    PROVE  /\ AfterRead(b, k) \in Counts
           /\ WritableSize(AfterRead(b, k)) = WritableSize(b) + k
<1> DEFINE f == BeforeRead(b)
<1>1. f \in Counts /\ WritableSize(f) = WritableSize(b) /\ Space(b) = Capacity - f.wr
  BY CountsBounds DEF Space
<1>2. AfterRead(b, k) = [f EXCEPT !.wr = @ + k]
  BY DEF AfterRead
<1> HIDE DEF f
<1>3. k + f.wr \in 0 .. Capacity /\ f.rd \in 0 .. Capacity
  BY <1>1, CapacityAssumption DEF Counts
<1> QED BY <1>1, <1>2, <1>3, CapacityAssumption DEF Counts, WritableSize

(* write_to of no more than it offers.                                     *)
LEMMA AfterWriteCounts ==
    ASSUME NEW b \in Counts, NEW n \in 0 .. Readable(b)
    PROVE  /\ AfterWrite(b, n) \in Counts
           /\ WritableSize(AfterWrite(b, n)) = WritableSize(b) - n
<1> DEFINE f == BeforeWrite(b)
<1>1. f \in Counts /\ WritableSize(f) = WritableSize(b) /\ Readable(b) = f.rd
  BY CountsBounds DEF Readable
<1>2. AfterWrite(b, n) = [f EXCEPT !.rd = @ - n]
  BY DEF AfterWrite
<1> HIDE DEF f
<1>3. f.rd - n \in 0 .. Capacity /\ f.wr \in 0 .. Capacity
  BY <1>1, CapacityAssumption DEF Counts
<1> QED BY <1>1, <1>2, <1>3, CapacityAssumption DEF Counts, WritableSize

(* discard drops bytes and adds none.                                      *)
LEMMA DiscardCounts ==
    ASSUME NEW b \in Counts
    PROVE  AfterDiscard(b) \in Counts /\ WritableSize(AfterDiscard(b)) =< WritableSize(b)
BY CapacityAssumption DEF Counts, AfterDiscard, WritableSize

(* What a handler gets from a read: bytes where there were none are        *)
(* announced, and a read that closes the channel brought none.             *)
ReadResult(b, n, r) ==
    /\ r.buf \in Counts /\ r.took \in 0 .. n
    /\ (WritableSize(r.buf) > 0 /\ r.change # "BecameNonEmpty") => WritableSize(b) > 0
    /\ r.should_close => r.change # "BecameNonEmpty"

(* channel_to_buffer, draining or not.                                     *)
LEMMA ChannelToBuffer ==
    ASSUME NEW b \in Counts, NEW n \in Nat, NEW reset
    PROVE  ReadResult(b, n, channel_to_buffer(b, n, reset))
<1> DEFINE r == channel_to_buffer(b, n, reset)
           k == Least(n, Space(b))
<1>0. Space(b) \in Nat /\ WritableSize(b) \in Nat
  BY CountsBounds, CapacityAssumption DEF WritableSize
<1>1. CASE Space(b) = 0
  <2>1. /\ r.buf = b /\ r.took = Least(n, DrainSize) /\ r.change = "None"
    BY <1>1 DEF channel_to_buffer
  <2>2. Least(n, DrainSize) \in 0 .. n
    BY DrainAssumption DEF Least
  <2> HIDE DEF r
  <2>3. ReadResult(b, n, r)
    BY <2>1, <2>2 DEF ReadResult
  <2> QED BY <2>3 DEF r
<1>2. CASE Space(b) # 0
  <2>1. /\ r.buf = AfterRead(b, k) /\ r.took = k /\ r.should_close = (n = 0)
        /\ r.change = ReadChange(b, k)
    BY <1>2 DEF channel_to_buffer
  <2>2. k \in 0 .. n /\ k \in 0 .. Space(b)
    BY <1>0 DEF Least
  <2>3. AfterRead(b, k) \in Counts /\ WritableSize(AfterRead(b, k)) = WritableSize(b) + k
    BY <2>2, AfterReadCounts
  <2>4. ReadChange(b, k) = IF k > 0 /\ WritableSize(b) = 0 THEN "BecameNonEmpty" ELSE "None"
    BY DEF ReadChange
  <2> HIDE DEF r, k
  <2>5. r.should_close => r.change # "BecameNonEmpty"
    <3> SUFFICES ASSUME r.should_close PROVE r.change # "BecameNonEmpty"
      OBVIOUS
    <3>1. n = 0
      BY <2>1
    <3>2. k = 0
      BY <2>2, <3>1
    <3> QED BY <2>1, <2>4, <3>2
  <2>6. (WritableSize(r.buf) > 0 /\ r.change # "BecameNonEmpty") => WritableSize(b) > 0
    BY <1>0, <2>1, <2>2, <2>3, <2>4
  <2>7. r.buf \in Counts /\ r.took \in 0 .. n
    BY <2>1, <2>2, <2>3
  <2>8. ReadResult(b, n, r)
    BY <2>5, <2>6, <2>7 DEF ReadResult
  <2> QED BY <2>8 DEF r
<1> QED BY <1>1, <1>2

(* read_stderr, which is channel_to_buffer of the stdout pipe or nothing.  *)
LEMMA ReadStderr ==
    ASSUME NEW m \in Manager, NEW n \in Nat
    PROVE  ReadResult(m.out_buffer, n, read_stderr(m, n))
<1>1. m.out_buffer \in Counts
  BY DEF Manager
<1>2. CASE "stdout" \in m.stdio
  BY <1>1, <1>2, ChannelToBuffer DEF read_stderr
<1>3. CASE "stdout" \notin m.stdio
  BY <1>1, <1>3 DEF read_stderr, ReadResult
<1> QED BY <1>2, <1>3

(* What a handler gets from a write: a buffer that became empty is said to *)
(* have.                                                                   *)
WriteResult(b, w) ==
    /\ w.buf \in Counts
    /\ WritableSize(w.buf) > 0 => WritableSize(b) > 0 /\ w.change # "BecameEmpty"

(* buffer_to_channel.                                                      *)
LEMMA BufferToChannel ==
    ASSUME NEW b \in Counts, NEW n \in 0 .. Readable(b), NEW failed
    PROVE  WriteResult(b, buffer_to_channel(b, n, failed))
<1> DEFINE w == buffer_to_channel(b, n, failed)
<1>0. WritableSize(b) \in Nat /\ n \in Nat
  BY CountsBounds, CapacityAssumption DEF WritableSize
<1>1. CASE Readable(b) = 0
  BY <1>1 DEF buffer_to_channel, WriteResult
<1>2. CASE Readable(b) # 0
  <2>1. w.buf = AfterWrite(b, n) /\ w.change = WriteChange(b, n)
    BY <1>2 DEF buffer_to_channel
  <2>2. AfterWrite(b, n) \in Counts /\ WritableSize(AfterWrite(b, n)) = WritableSize(b) - n
    BY AfterWriteCounts
  <2>3. WriteChange(b, n) = IF WritableSize(AfterWrite(b, n)) = 0 THEN "BecameEmpty" ELSE "None"
    BY DEF WriteChange
  <2> HIDE DEF w
  <2>4. WriteResult(b, w)
    BY <1>0, <2>1, <2>2, <2>3 DEF WriteResult
  <2> QED BY <2>4 DEF w
<1> QED BY <1>1, <1>2
--------------------------------------------------------------------------------
(* Hangups.                                                                *)

(* g is the set of m without fd.                                           *)
Without(m, fd, g) ==
    /\ g \in FdSets
    /\ g.existing = m.fds.existing \ {fd} /\ g.new = m.fds.new
    /\ \A f \in Fd : f # fd => g.new_events[f] = m.fds.new_events[f]

(* What unregister_closed leaves of the set.                               *)
LEMMA ShutParts ==
    ASSUME NEW m, NEW ep, Owned(m, ep), NEW fd, fd \in m.fds.existing
    PROVE  /\ InStep(UnregisterClosed(m.fds, fd), Closed(ep, {fd}), Files(m) \ {fd})
           /\ Without(m, fd, UnregisterClosed(m.fds, fd))
           /\ UnregisterClosed(m.fds, fd).removed = m.fds.removed
<1> DEFINE g == UnregisterClosed(m.fds, fd)
<1>1. m.fds \in FdSets /\ fd \in Fd
  BY DEF Owned, InStep, FdSets
<1>2. InStep(g, Closed(ep, {fd}), Files(m) \ {fd})
  BY UnregisterClosedInStep DEF Owned
<1>3. g = [existing |-> m.fds.existing \ {fd}, event |-> [m.fds.event EXCEPT ![fd] = {}],
           new_events |-> [m.fds.new_events EXCEPT ![fd] = {}],
           new |-> m.fds.new, removed |-> m.fds.removed, failed |-> m.fds.failed]
  BY <1>1, UnregisterClosedParts
<1> HIDE DEF g
<1>4. /\ g.existing = m.fds.existing \ {fd} /\ g.new = m.fds.new /\ g.removed = m.fds.removed
      /\ g.new_events = [m.fds.new_events EXCEPT ![fd] = {}]
  BY <1>3
<1>5. m.fds.new_events \in [Fd -> SUBSET Events]
  BY <1>1 DEF FdSets
<1>6. \A f \in Fd : f # fd => g.new_events[f] = m.fds.new_events[f]
  BY <1>1, <1>4, <1>5
<1>7. g \in FdSets
  BY <1>2 DEF InStep
<1>8. Without(m, fd, g) /\ g.removed = m.fds.removed
  BY <1>4, <1>6, <1>7 DEF Without
<1> QED BY <1>2, <1>8 DEF g

(* A channel the set has is one of the manager, and it is not new.         *)
LEMMA ExistingChannel ==
    ASSUME NEW m, NEW ep, Owned(m, ep)
    PROVE  /\ m.fds.existing \subseteq Channels(m) /\ m.fds.existing \subseteq Fd
           /\ m.fds.existing \cap m.fds.new = {}
           /\ "client" \in m.fds.existing => HasClient(m) /\ m.fds.new = {}
           /\ "console" \in m.fds.existing <=> m.console
           /\ m.stdio \subseteq ChildFds /\ m.stdio \subseteq m.fds.existing
           /\ \A f \in ChildFds : f \in m.fds.existing => f \in m.stdio
<1>1. m.stdio \subseteq ChildFds
  BY DEF Owned, Manager
<1>2. m.fds.existing \cap m.fds.new = {} /\ m.fds.existing \subseteq Fd
  BY DEF Owned, InStep, FdSets
<1> QED BY <1>1, <1>2, FdNames DEF Owned, Channels

(* on_hangup of the client.                                                *)
LEMMA ClientGoneAnswers ==
    ASSUME NEW m, NEW ep, Good(m, ep), "client" \in m.fds.existing
    PROVE  Answers(m, ep, "client", ClientGone(m))
<1> DEFINE g == UnregisterClosed(m.fds, "client")
           gone == [m EXCEPT !.fds = UnregisterClosed(@, "client"),
                             !.client = NoConn, !.availability = "ReadWrite"]
           ep2 == Closed(ep, {"client"})
<1>1. Owned(m, ep) /\ m \in Manager
  BY DEF Good, Owned
<1>0. InStep(g, ep2, Files(m) \ {"client"}) /\ Without(m, "client", g)
      /\ g.removed = m.fds.removed
  BY <1>1, ShutParts
<1> HIDE DEF g
<1>2. /\ InStep(g, ep2, Files(m) \ {"client"}) /\ g \in FdSets
      /\ g.existing = m.fds.existing \ {"client"} /\ g.new = m.fds.new
      /\ g.removed = m.fds.removed
      /\ \A f \in Fd : f # "client" => g.new_events[f] = m.fds.new_events[f]
  BY <1>0 DEF Without
<1>3. HasClient(m) /\ m.fds.new = {}
  BY <1>1, ExistingChannel
<1>4. /\ gone.fds = g /\ gone.client = NoConn /\ gone.availability = "ReadWrite"
      /\ gone.stdio = m.stdio /\ gone.console = m.console
      /\ gone.in_buffer = m.in_buffer /\ gone.out_buffer = m.out_buffer
      /\ gone \in Manager
  BY <1>1, <1>2 DEF Manager, g
<1> HIDE DEF gone
<1>5. /\ Channels(gone) = Channels(m) \ {"client"} /\ Files(gone) = Files(m) \ {"client"}
      /\ ~HasClient(gone)
  BY <1>1, <1>3, <1>4, FdNames DEF Channels, Files, HasClient, Manager
<1>6. Owned(gone, ep2)
  BY <1>1, <1>2, <1>3, <1>4, <1>5 DEF Owned
<1>7. InputAsked(gone)
  <2>1. stdin_fd(gone) = stdin_fd(m)
    BY <1>4, StdinName
  <2>2. stdin_fd(m) # "none" => stdin_fd(m) \in Fd /\ stdin_fd(m) # "client"
    BY <1>1, StdinName, FdNames DEF Manager
  <2> QED BY <1>2, <1>4, <2>1, <2>2 DEF InputAsked, Good
<1>8. ASSUME NEW n, GoneFds(m, n) = {"client"}, n.console = m.console, n.stdio = m.stdio,
             n.client = NoConn, Good(n, ep2), Alters(g, {}, n.fds)
      PROVE  Answers(m, ep, "client", n)
  <2>1. Shuts(m, "client", n)
    BY <1>8 DEF Shuts, g
  <2>2. Degrades(m, "client", n)
    BY <1>3, <1>8 DEF Degrades, HasClient
  <2> QED BY <1>8, <2>1, <2>2 DEF Answers
<1>9. ASSUME NEW n, n.stdio = m.stdio, n.client = NoConn
      PROVE  GoneFds(m, n) = {"client"}
  BY <1>3, <1>9 DEF GoneFds, HasClient
<1>10. CASE WritableSize(m.out_buffer) > 0 /\ m.console
  <2> DEFINE n == Poll(gone, "console", "OUT", TRUE)
  <2>1. ClientGone(m) = n
    BY <1>10 DEF ClientGone, gone
  <2>2. "console" \in gone.fds.existing
    BY <1>6, <1>4, <1>10, ExistingChannel
  <2>9. Polled(gone, ep2, "console", "OUT", TRUE, n)
    BY <1>6, <2>2, PollOwned DEF Events
  <2> HIDE DEF n
  <2>3. /\ Owned(n, ep2) /\ Keeps(gone, n)
        /\ n.in_buffer = gone.in_buffer /\ n.out_buffer = gone.out_buffer
        /\ \A f \in Fd : f # "console" => n.fds.new_events[f] = gone.fds.new_events[f]
        /\ "OUT" \in n.fds.new_events["console"]
    BY <2>9 DEF Polled
  <2>4. /\ n.stdio = m.stdio /\ n.client = NoConn /\ n.console = m.console
        /\ Alters(g, {}, n.fds)
    BY <1>4, <2>3 DEF Keeps
  <2>5. ~HasClient(n)
    BY <2>4 DEF HasClient
  <2>6. PrimaryOutput(n) = "console"
    BY <1>10, <2>4, <2>5 DEF PrimaryOutput
  <2>7. InputAsked(n)
    <3>1. stdin_fd(n) = stdin_fd(gone)
      BY <1>4, <2>4, StdinName
    <3>2. stdin_fd(gone) # "none" => stdin_fd(gone) \in Fd /\ stdin_fd(gone) # "console"
      BY <1>4, StdinName, FdNames DEF Manager
    <3> QED BY <1>7, <2>3, <3>1, <3>2 DEF InputAsked
  <2>8. Good(n, ep2)
    BY <2>3, <2>5, <2>6, <2>7 DEF Good, OutputAsked, ClientAsked
  <2> QED BY <1>8, <1>9, <2>1, <2>4, <2>8
<1>11. CASE ~(WritableSize(m.out_buffer) > 0 /\ m.console)
  <2>1. ClientGone(m) = gone
    BY <1>11 DEF ClientGone, gone
  <2>2. OutputAsked(gone)
    BY <1>4, <1>5, <1>11 DEF OutputAsked, PrimaryOutput
  <2>3. Good(gone, ep2)
    BY <1>5, <1>6, <1>7, <2>2 DEF Good, ClientAsked
  <2>4. Alters(g, {}, gone.fds)
    BY <1>2, <1>4 DEF Alters
  <2> QED BY <1>4, <1>8, <1>9, <2>1, <2>3, <2>4
<1> QED BY <1>10, <1>11
(* hangup of ChildPipes and of ChildPty.                                   *)
LEMMA ChildGoneAnswers ==
    ASSUME NEW m, NEW ep, Good(m, ep), NEW fd, fd \in m.stdio
    PROVE  Answers(m, ep, fd, hangup(m, fd))
<1> DEFINE g == UnregisterClosed(m.fds, fd)
           n == hangup(m, fd)
           ep2 == Closed(ep, {fd})
<1>1. Owned(m, ep) /\ m \in Manager /\ m.stdio \subseteq ChildFds
  BY DEF Good, Owned, Manager
<1>2. fd \in m.fds.existing /\ fd \in ChildFds /\ fd \in Fd
  BY <1>1, ExistingChannel
<1>3. InStep(g, ep2, Files(m) \ {fd}) /\ Without(m, fd, g) /\ g.removed = m.fds.removed
  BY <1>1, <1>2, ShutParts
<1>4. /\ n.fds = g /\ n.stdio = m.stdio \ {fd} /\ n.client = m.client
      /\ n.availability = m.availability /\ n.console = m.console
      /\ n.in_buffer = m.in_buffer /\ n.out_buffer = m.out_buffer
  <2>1. CASE UsePty
    <3>1. fd = "pty" /\ m.stdio \ {fd} = {}
      BY <1>1, <1>2, <2>1 DEF ChildFds
    <3>2. n = [m EXCEPT !.fds = g, !.stdio = {}]
      BY <2>1, <3>1 DEF hangup, pty_hangup
    <3> HIDE DEF n, g
    <3> QED BY <1>1, <3>1, <3>2 DEF Manager
  <2>2. CASE ~UsePty
    <3>2. n = [m EXCEPT !.fds = g, !.stdio = m.stdio \ {fd}]
      BY <2>2 DEF hangup, pipes_hangup
    <3> HIDE DEF n, g
    <3> QED BY <1>1, <3>2 DEF Manager
  <2> QED BY <2>1, <2>2
<1>5. n \in Manager
  <2>1. n = [m EXCEPT !.fds = g, !.stdio = n.stdio]
    BY <1>4 DEF hangup, pty_hangup, pipes_hangup
  <2>2. g \in FdSets /\ n.stdio \subseteq ChildFds
    BY <1>1, <1>3, <1>4 DEF Without
  <2> HIDE DEF n, g
  <2> DEFINE s == n.stdio
  <2>3. n = [m EXCEPT !.fds = g, !.stdio = s]
    BY <2>1
  <2> HIDE DEF s
  <2> QED BY <1>1, <2>2, <2>3 DEF Manager, s
<1> HIDE DEF n, g, ep2
<1>6. /\ Channels(n) = Channels(m) \ {fd} /\ Files(n) = Files(m) \ {fd}
      /\ HasClient(n) <=> HasClient(m)
  BY <1>2, <1>4, FdNames DEF Channels, Files, HasClient
<1>7. Owned(n, ep2)
  <2>1. g.existing \cup g.new = Channels(n)
    <3>1. fd \notin m.fds.new
      BY <1>1, <1>2, FdNames DEF Owned
    <3> QED BY <1>1, <1>3, <1>6, <3>1 DEF Owned, Without
  <2> QED BY <1>1, <1>3, <1>4, <1>5, <1>6, <2>1 DEF Owned, Without
<1>8. \A f \in Fd : f # fd => n.fds.new_events[f] = m.fds.new_events[f]
  BY <1>3, <1>4 DEF Without
<1>9. fd # "client" /\ fd # "console"
  BY <1>2, FdNames
<1>10. OutputAsked(n)
  <2>1. PrimaryOutput(n) = PrimaryOutput(m) /\ PrimaryOutput(m) \in {"client", "console", "none"}
    BY <1>4, <1>6 DEF PrimaryOutput
  <2> QED BY <1>4, <1>8, <1>9, <2>1, FdNames DEF OutputAsked, Good
<1>11. InputAsked(n)
  <2>1. stdin_fd(n) # "none" => stdin_fd(n) = stdin_fd(m) /\ stdin_fd(n) # fd /\ stdin_fd(n) \in Fd
    BY <1>1, <1>4, FdNames DEF stdin_fd, pty_stdin_fd, pipes_stdin_fd
  <2> QED BY <1>4, <1>8, <2>1 DEF InputAsked, Good
<1>12. ClientAsked(n)
  BY <1>4, <1>6, <1>8, <1>9, FdNames DEF ClientAsked, Good
<1>13. GoneFds(m, n) = {fd}
  BY <1>4, <1>6 DEF GoneFds
<1>14. Shuts(m, fd, n)
  BY <1>2, <1>3, <1>4 DEF Shuts, Alters, g, Without
<1>15. Degrades(m, fd, n)
  BY <1>4 DEF Degrades
<1>16. Answers(m, ep, fd, n)
  BY <1>7, <1>10, <1>11, <1>12, <1>13, <1>14, <1>15 DEF Answers, Good, ep2
<1> QED BY <1>16 DEF n

(* on_hangup of the console, which stays open.                             *)
LEMMA ConsoleGoneAnswers ==
    ASSUME NEW m, NEW ep, Good(m, ep), m.console
    PROVE  Answers(m, ep, "console", ConsoleGone(m))
<1> DEFINE g == Unregister(m.fds, "console")
           n == ConsoleGone(m)
<1>1. Owned(m, ep) /\ m \in Manager /\ m.fds \in FdSets /\ ep \in Epolls
  BY DEF Good, Owned, InStep
<1>2. "console" \in m.fds.existing /\ "console" \in Fd
  BY <1>1, ExistingChannel, FdNames
<1>3. g = [existing |-> m.fds.existing \ {"console"},
           event |-> [m.fds.event EXCEPT !["console"] = {}],
           new_events |-> [m.fds.new_events EXCEPT !["console"] = {}],
           new |-> m.fds.new, removed |-> m.fds.removed \cup {"console"},
           failed |-> m.fds.failed]
  BY <1>1, <1>2, UnregisterParts
<1>4. InStep(g, ep, Files(m))
  BY <1>1, <1>2, UnregisterInStep DEF Owned
<1>5. n = [m EXCEPT !.fds = g, !.console = FALSE]
  BY DEF ConsoleGone
<1> HIDE DEF n, g
<1>6. /\ g \in FdSets /\ g.existing = m.fds.existing \ {"console"} /\ g.new = m.fds.new
      /\ g.removed = m.fds.removed \cup {"console"}
      /\ g.new_events = [m.fds.new_events EXCEPT !["console"] = {}]
  BY <1>3, <1>4 DEF InStep
<1>7. \A f \in Fd : g.new_events[f] = IF f = "console" THEN {} ELSE m.fds.new_events[f]
  BY <1>1, <1>2, <1>6 DEF FdSets
<1>8. /\ n.fds = g /\ n.stdio = m.stdio /\ n.client = m.client
      /\ n.availability = m.availability /\ n.console = FALSE
      /\ n.in_buffer = m.in_buffer /\ n.out_buffer = m.out_buffer /\ n \in Manager
  BY <1>1, <1>5, <1>6 DEF Manager
<1>9. /\ Channels(n) = Channels(m) \ {"console"} /\ Files(n) = Files(m)
      /\ HasClient(n) <=> HasClient(m)
  BY <1>1, <1>8, FdNames DEF Channels, Files, HasClient, Manager
<1>10. Owned(n, ep)
  BY <1>1, <1>4, <1>6, <1>8, <1>9 DEF Owned
<1>11. OutputAsked(n)
  <2>1. PrimaryOutput(n) # "none" => PrimaryOutput(n) = "client" /\ PrimaryOutput(m) = "client"
    BY <1>8, <1>9 DEF PrimaryOutput
  <2> QED BY <1>7, <1>8, <2>1, FdNames DEF OutputAsked, Good
<1>12. InputAsked(n)
  <2>1. stdin_fd(n) = stdin_fd(m)
    BY <1>8, StdinName
  <2>2. stdin_fd(m) # "none" => stdin_fd(m) \in Fd /\ stdin_fd(m) # "console"
    BY <1>1, StdinName, FdNames DEF Manager
  <2> QED BY <1>7, <1>8, <2>1, <2>2 DEF InputAsked, Good
<1>13. ClientAsked(n)
  BY <1>7, <1>8, <1>9, FdNames DEF ClientAsked, Good
<1>14. GoneFds(m, n) = {} /\ Closed(ep, {}) = ep
  BY <1>1, <1>8, <1>9, NothingClosed DEF GoneFds
<1>15. Leaves(m, "console", n)
  BY <1>2, <1>6, <1>8 DEF Leaves, Alters, g
<1>16. Degrades(m, "console", n)
  BY <1>8 DEF Degrades
<1>17. Answers(m, ep, "console", n)
  BY <1>10, <1>11, <1>12, <1>13, <1>14, <1>15, <1>16 DEF Answers, Good
<1> QED BY <1>17 DEF n
(* on_hangup of any channel the set has.                                   *)
LEMMA HangupAnswers ==
    ASSUME NEW m, NEW ep, Good(m, ep), NEW fd, fd \in m.fds.existing
    PROVE  /\ fd # "server" => Answers(m, ep, fd, on_hangup(m, fd))
           /\ fd = "server" => on_hangup(m, fd) = m
<1>1. Owned(m, ep)
  BY DEF Good
<1>2. m.stdio \subseteq ChildFds /\ fd \in Channels(m)
  BY <1>1, ExistingChannel
<1>3. CASE fd = "client"
  <2>0. HasClient(m) /\ fd \notin m.stdio
    BY <1>1, <1>2, <1>3, ExistingChannel, FdNames
  <2>1. on_hangup(m, fd) = ClientGone(m)
    BY <1>3, <2>0 DEF on_hangup
  <2> QED BY <1>3, <2>1, ClientGoneAnswers
<1>4. CASE fd \in m.stdio
  <2>1. on_hangup(m, fd) = hangup(m, fd)
    BY <1>2, <1>4, FdNames DEF on_hangup
  <2> QED BY <1>2, <1>4, <2>1, ChildGoneAnswers, FdNames
<1>5. CASE fd = "console"
  <2>1. m.console /\ fd \notin m.stdio
    BY <1>1, <1>2, <1>5, ExistingChannel, FdNames
  <2>2. on_hangup(m, fd) = ConsoleGone(m)
    BY <1>5, <2>1 DEF on_hangup
  <2> QED BY <1>5, <2>1, <2>2, ConsoleGoneAnswers
<1>6. CASE fd = "server"
  BY <1>2, <1>6, FdNames DEF on_hangup
<1> QED BY <1>2, <1>3, <1>4, <1>5, <1>6 DEF Channels

(* n is m with no byte more in its buffers.                                *)
Lighter(m, n) ==
    /\ n \in Manager /\ n.fds = m.fds /\ n.stdio = m.stdio /\ n.console = m.console
    /\ n.client = m.client /\ n.availability = m.availability
    /\ WritableSize(n.out_buffer) > 0 => WritableSize(m.out_buffer) > 0
    /\ WritableSize(n.in_buffer) > 0 => WritableSize(m.in_buffer) > 0

(* With fewer bytes no more need be asked for, and what a handler does     *)
(* then it does from the start.                                            *)
LEMMA LighterGood ==
    ASSUME NEW m, NEW ep, Good(m, ep), NEW n, Lighter(m, n)
    PROVE  /\ Good(n, ep) /\ Keeps(m, n)
           /\ \A fd : Degrades(m, fd, n)
           /\ \A fd : Answers(m, ep, fd, n)
           /\ \A fd, p : Answers(n, ep, fd, p) => Answers(m, ep, fd, p)
<1>1. /\ n \in Manager /\ n.fds = m.fds /\ n.stdio = m.stdio /\ n.console = m.console
      /\ n.client = m.client /\ n.availability = m.availability
      /\ Owned(m, ep) /\ ep \in Epolls
  BY DEF Lighter, Good, Owned, InStep
<1>2. /\ Owned(n, ep) /\ Keeps(m, n)
      /\ PrimaryOutput(n) = PrimaryOutput(m) /\ stdin_fd(n) = stdin_fd(m)
      /\ HasClient(n) = HasClient(m)
  BY <1>1, OwnedParts
<1>3. Good(n, ep)
  BY <1>1, <1>2 DEF Good, OutputAsked, InputAsked, ClientAsked, Lighter
<1>4. \A fd : Degrades(m, fd, n)
  BY <1>1 DEF Degrades
<1>5. GoneFds(m, n) = {}
  BY <1>1 DEF GoneFds, HasClient
<1>6. Closed(ep, GoneFds(m, n)) = ep
  BY <1>1, <1>5, NothingClosed
<1>7. ASSUME NEW fd
      PROVE  Answers(m, ep, fd, n)
  BY <1>2, <1>3, <1>4, <1>6 DEF Answers
<1>8. ASSUME NEW fd, NEW p, Answers(n, ep, fd, p)
      PROVE  Answers(m, ep, fd, p)
  <2>1. GoneFds(n, p) = GoneFds(m, p)
    BY <1>1 DEF GoneFds, HasClient
  <2>2. Degrades(n, fd, p) => Degrades(m, fd, p)
    BY <1>1 DEF Degrades, HasClient
  <2>3. /\ Keeps(n, p) => Keeps(m, p)
        /\ Opens(n, p) => Opens(m, p)
        /\ Shuts(n, fd, p) => Shuts(m, fd, p)
        /\ Leaves(n, fd, p) => Leaves(m, fd, p)
    BY <1>1 DEF Keeps, Opens, Shuts, Leaves, HasClient
  <2> QED BY <1>8, <2>1, <2>2, <2>3 DEF Answers
<1> QED BY <1>2, <1>3, <1>4, <1>7, <1>8

--------------------------------------------------------------------------------
(* The handlers.                                                           *)

(* on_readable of the server socket: the client takes over the output.     *)
LEMMA AcceptAnswers ==
    ASSUME NEW m, NEW ep, Good(m, ep), NEW c \in Conns
    PROVE  Answers(m, ep, "server", accept(m, c))
<1>1. Owned(m, ep) /\ m \in Manager /\ m.fds \in FdSets /\ ep \in Epolls
  BY DEF Good, Owned, InStep
<1>2. CASE HasClient(m)
  <2>1. accept(m, c) = m
    BY <1>2 DEF accept
  <2>2. Lighter(m, m)
    BY <1>1 DEF Lighter
  <2> QED BY <2>1, <2>2, LighterGood
<1>3. CASE ~HasClient(m)
  <2> DEFINE ev == FirstEvents(m)
             g == Register(m.fds, "client", ev)
             p == Promoted(m, c, ev)
  <2>1. /\ "client" \notin m.fds.existing \cup m.fds.new \cup m.fds.removed
        /\ "client" \in Fd /\ ev \in SUBSET Events
        /\ m.fds.new = {}
    <3>1. "client" \notin Channels(m)
      BY <1>1, <1>3, FdNames DEF Channels, Manager
    <3> QED BY <1>1, <3>1, FdNames DEF Owned, FirstEvents, Events
  <2>2. InStep(g, ep, Files(m) \cup {"client"})
    <3>1. InStep(m.fds, ep, Files(m) \cup {"client"})
      BY <1>1, MoreOpenInStep DEF Owned
    <3> HIDE DEF ev
    <3> QED BY <2>1, <3>1, RegisterInStep
  <2>3. g = [existing |-> m.fds.existing, event |-> m.fds.event,
             new_events |-> [m.fds.new_events EXCEPT !["client"] = ev],
             new |-> m.fds.new \cup {"client"}, removed |-> m.fds.removed,
             failed |-> m.fds.failed]
    BY <1>1, <2>1, RegisterParts
  <2>4. p = [m EXCEPT !.client = c, !.availability = "ReadWrite", !.fds = g]
    BY DEF Promoted
  <2>5. WritableSize(m.out_buffer) > 0 => "OUT" \in ev
    BY DEF FirstEvents
  <2>6. /\ accept(m, c) = IF m.console THEN Poll(p, "console", "OUT", FALSE) ELSE p
    BY <1>3 DEF accept
  <2> HIDE DEF ev, g, p
  <2>7. /\ g \in FdSets /\ g.existing = m.fds.existing /\ g.event = m.fds.event
        /\ g.new = {"client"} /\ g.removed = m.fds.removed /\ g.failed = m.fds.failed
        /\ g.new_events = [m.fds.new_events EXCEPT !["client"] = ev]
    BY <2>1, <2>2, <2>3 DEF InStep
  <2>8. \A f \in Fd : g.new_events[f] = IF f = "client" THEN ev ELSE m.fds.new_events[f]
    BY <1>1, <2>1, <2>7 DEF FdSets
  <2>9. /\ p.fds = g /\ p.client = c /\ p.availability = "ReadWrite" /\ p.stdio = m.stdio
        /\ p.console = m.console /\ p.in_buffer = m.in_buffer
        /\ p.out_buffer = m.out_buffer /\ p \in Manager
    BY <1>1, <2>4, <2>7 DEF Manager
  <2>10. HasClient(p)
    BY <2>9, ConnAssumption DEF HasClient
  <2>11. Channels(p) = Channels(m) \cup {"client"} /\ Files(p) = Files(m) \cup {"client"}
    BY <1>3, <2>9, <2>10 DEF Channels, Files
  <2>12. Owned(p, ep)
    BY <1>1, <2>1, <2>2, <2>7, <2>9, <2>11 DEF Owned
  <2>13. stdin_fd(m) # "none" => stdin_fd(m) \in Fd /\ stdin_fd(m) \notin {"client", "console"}
    BY <1>1, StdinName, FdNames DEF Manager
  <2>14. ASSUME NEW n, Owned(n, ep), Keeps(p, n), n.availability = "ReadWrite",
                n.in_buffer = m.in_buffer, n.out_buffer = m.out_buffer,
                \A f \in Fd : f # "console" => n.fds.new_events[f] = g.new_events[f],
                "OUT" \notin n.fds.new_events["console"]
         PROVE  Answers(m, ep, "server", n)
    <3>1. n.stdio = m.stdio /\ n.client = c /\ n.console = m.console /\ HasClient(n)
      BY <2>9, <2>10, <2>14 DEF Keeps, HasClient
    <3>2. PrimaryOutput(n) = "client"
      BY <3>1 DEF PrimaryOutput
    <3>3. stdin_fd(n) = stdin_fd(m)
      BY <3>1, StdinName
    <3>4. OutputAsked(n)
      BY <2>1, <2>5, <2>8, <2>14, <3>2 DEF OutputAsked
    <3>5. InputAsked(n)
      BY <2>8, <2>13, <2>14, <3>3 DEF InputAsked, Good
    <3>6. ClientAsked(n)
      BY <2>14 DEF ClientAsked
    <3>7. Opens(m, n)
      <4>1. Alters(g, {}, n.fds)
        BY <2>9, <2>14 DEF Keeps
      <4>2. Alters(m.fds, {"client"}, n.fds)
        BY <2>1, <2>7, <2>8, <4>1 DEF Alters
      <4> QED BY <1>3, <3>1, <4>2 DEF Opens
    <3>8. Closed(ep, GoneFds(m, n)) = ep
      <4>1. GoneFds(m, n) = {}
        BY <1>3, <3>1 DEF GoneFds
      <4> QED BY <1>1, <4>1, NothingClosed
    <3>9. Degrades(m, "server", n)
      BY <1>3 DEF Degrades
    <3> QED BY <2>14, <3>4, <3>5, <3>6, <3>7, <3>8, <3>9 DEF Answers, Good
  <2>15. CASE m.console
    <3> DEFINE n == Poll(p, "console", "OUT", FALSE)
    <3>1. "console" \in p.fds.existing
      BY <1>1, <2>7, <2>9, <2>15, ExistingChannel
    <3>2. Polled(p, ep, "console", "OUT", FALSE, n)
      BY <2>12, <3>1, PollOwned DEF Events
    <3>3. accept(m, c) = n
      BY <2>6, <2>15
    <3> HIDE DEF n
    <3>4. /\ Owned(n, ep) /\ Keeps(p, n) /\ n.availability = "ReadWrite"
          /\ n.in_buffer = m.in_buffer /\ n.out_buffer = m.out_buffer
          /\ \A f \in Fd : f # "console" => n.fds.new_events[f] = g.new_events[f]
          /\ "OUT" \notin n.fds.new_events["console"]
      BY <2>9, <3>2 DEF Polled
    <3> QED BY <2>14, <3>3, <3>4
  <2>16. CASE ~m.console
    <3>1. accept(m, c) = p
      BY <2>6, <2>16
    <3>2. p.fds.new_events["console"] = {}
      <4>1. "console" \notin m.fds.existing \cup m.fds.new /\ "console" \in Fd
        BY <1>1, <2>1, <2>16, ExistingChannel, FdNames
      <4>2. m.fds.new_events["console"] = {}
        BY <1>1, <4>1 DEF Owned, InStep
      <4> QED BY <2>8, <2>9, <4>1, <4>2
    <3>3. Keeps(p, p)
      BY <2>7, <2>9 DEF Keeps, Alters
    <3> QED BY <2>9, <2>12, <2>14, <3>1, <3>2, <3>3
  <2> QED BY <2>15, <2>16
<1> QED BY <1>2, <1>3
(* The manager after a read has gone into its in_buffer, or a write out of *)
(* it.                                                                     *)
LEMMA InBufferOwned ==
    ASSUME NEW m, NEW ep, Good(m, ep), NEW b \in Counts,
           NEW n, n = [m EXCEPT !.in_buffer = b]
    PROVE  /\ Owned(n, ep) /\ Keeps(m, n) /\ n \in Manager
           /\ PrimaryOutput(n) = PrimaryOutput(m) /\ stdin_fd(n) = stdin_fd(m)
           /\ HasClient(n) = HasClient(m) /\ n.in_buffer = b
           /\ n.out_buffer = m.out_buffer /\ n.availability = m.availability
           /\ n.fds = m.fds /\ n.stdio = m.stdio /\ n.client = m.client
           /\ n.console = m.console
<1>1. m \in Manager /\ Owned(m, ep)
  BY DEF Good, Owned
<1>2. n \in Manager /\ n.in_buffer = b /\ n.out_buffer = m.out_buffer
      /\ n.availability = m.availability /\ n.fds = m.fds /\ n.stdio = m.stdio
      /\ n.client = m.client /\ n.console = m.console
  BY <1>1 DEF Manager
<1>3. /\ Owned(n, ep) /\ Keeps(m, n)
      /\ PrimaryOutput(n) = PrimaryOutput(m) /\ stdin_fd(n) = stdin_fd(m)
      /\ HasClient(n) = HasClient(m)
  BY <1>1, <1>2, OwnedParts
<1> QED BY <1>2, <1>3

(* The same of its out_buffer.                                             *)
LEMMA OutBufferOwned ==
    ASSUME NEW m, NEW ep, Good(m, ep), NEW b \in Counts,
           NEW n, n = [m EXCEPT !.out_buffer = b]
    PROVE  /\ Owned(n, ep) /\ Keeps(m, n) /\ n \in Manager
           /\ PrimaryOutput(n) = PrimaryOutput(m) /\ stdin_fd(n) = stdin_fd(m)
           /\ HasClient(n) = HasClient(m) /\ n.out_buffer = b
           /\ n.in_buffer = m.in_buffer /\ n.availability = m.availability
           /\ n.fds = m.fds /\ n.stdio = m.stdio /\ n.client = m.client
           /\ n.console = m.console
<1>1. m \in Manager /\ Owned(m, ep)
  BY DEF Good, Owned
<1>2. n \in Manager /\ n.out_buffer = b /\ n.in_buffer = m.in_buffer
      /\ n.availability = m.availability /\ n.fds = m.fds /\ n.stdio = m.stdio
      /\ n.client = m.client /\ n.console = m.console
  BY <1>1 DEF Manager
<1>3. /\ Owned(n, ep) /\ Keeps(m, n)
      /\ PrimaryOutput(n) = PrimaryOutput(m) /\ stdin_fd(n) = stdin_fd(m)
      /\ HasClient(n) = HasClient(m)
  BY <1>1, <1>2, OwnedParts
<1> QED BY <1>2, <1>3

(* A manager that has the channels m had, and asks for what it must, is an *)
(* answer.                                                                 *)
LEMMA KeepsAnswers ==
    ASSUME NEW m, NEW ep, Good(m, ep), NEW n, Good(n, ep), Keeps(m, n), NEW fd,
           Degrades(m, fd, n)
    PROVE  Answers(m, ep, fd, n)
<1>1. GoneFds(m, n) = {}
  BY DEF Keeps, GoneFds, HasClient
<1>2. Closed(ep, GoneFds(m, n)) = ep
  BY <1>1, NothingClosed DEF Good, Owned, InStep
<1> QED BY <1>2 DEF Answers

(* The client keeps its connection and loses one half of it: it is no      *)
(* longer polled for reads.                                                *)
LEMMA HalfGoneAnswers ==
    ASSUME NEW m, NEW ep, Good(m, ep), "client" \in m.fds.existing,
           NEW half \in {"ReadOnly", "WriteOnly"},
           m.availability \in {"ReadWrite", half}, NEW n,
           n = [Poll(m, "client", "IN", FALSE) EXCEPT !.availability = half]
    PROVE  Answers(m, ep, "client", n)
<1> DEFINE p == Poll(m, "client", "IN", FALSE)
<1>1. Owned(m, ep)
  BY DEF Good
<1>2. Polled(m, ep, "client", "IN", FALSE, p)
  BY <1>1, PollOwned DEF Events
<1> HIDE DEF p
<1>3. /\ Owned(p, ep) /\ Keeps(m, p) /\ p \in Manager /\ p.in_buffer = m.in_buffer
      /\ p.out_buffer = m.out_buffer
      /\ \A f \in Fd : f # "client" => p.fds.new_events[f] = m.fds.new_events[f]
      /\ "OUT" \in p.fds.new_events["client"] <=> "OUT" \in m.fds.new_events["client"]
      /\ "IN" \notin p.fds.new_events["client"]
  BY <1>2 DEF Polled, Owned, Events
<1>4. n = [p EXCEPT !.availability = half]
  BY DEF p
<1>5. /\ n \in Manager /\ n.fds = p.fds /\ n.stdio = p.stdio /\ n.console = p.console
      /\ n.client = p.client /\ n.availability = half
      /\ n.in_buffer = p.in_buffer /\ n.out_buffer = p.out_buffer
  BY <1>3, <1>4 DEF Manager
<1>6. Owned(n, ep)
  BY <1>3, <1>5, OwnedParts
<1>7. Keeps(m, n)
  BY <1>3, <1>5 DEF Keeps
<1>8. /\ PrimaryOutput(n) = PrimaryOutput(m) /\ HasClient(n) = HasClient(m)
      /\ stdin_fd(n) = stdin_fd(m)
  BY <1>7, StdinName DEF Keeps, PrimaryOutput, HasClient
<1>9. OutputAsked(n)
  <2>1. PrimaryOutput(m) \in {"client", "console", "none"}
    BY DEF PrimaryOutput
  <2> QED BY <1>3, <1>5, <1>8, <2>1, FdNames DEF OutputAsked, Good
<1>10. InputAsked(n)
  <2>1. stdin_fd(m) # "none" => stdin_fd(m) \in Fd /\ stdin_fd(m) # "client"
    BY <1>1, StdinName, FdNames DEF Owned, Manager
  <2> QED BY <1>3, <1>5, <1>8, <2>1 DEF InputAsked, Good
<1>11. ClientAsked(n)
  BY <1>3, <1>5, <1>8, FdNames DEF ClientAsked, Good
<1>12. Degrades(m, "client", n)
  BY <1>5 DEF Degrades
<1> QED BY <1>6, <1>7, <1>9, <1>10, <1>11, <1>12, KeepsAnswers DEF Good
(* Asking for OUT on fd, for the primary output or for the child's stdin,  *)
(* is an answer once the buffer has bytes for it.                          *)
LEMMA AskOutAnswers ==
    ASSUME NEW m, NEW ep, Good(m, ep), NEW p, Owned(p, ep), Keeps(m, p),
           p.fds = m.fds, p.availability = m.availability,
           NEW fd, fd \in m.fds.existing,
           HasClient(m) => fd # "console",
           OutputAsked(p) \/ fd = PrimaryOutput(m),
           InputAsked(p) \/ fd = stdin_fd(m), NEW f
    PROVE  Answers(m, ep, f, Poll(p, fd, "OUT", TRUE))
<1> DEFINE n == Poll(p, fd, "OUT", TRUE)
<1>1. Polled(p, ep, fd, "OUT", TRUE, n)
  BY PollOwned DEF Events
<1> HIDE DEF n
<1>2. fd \in Fd
  BY ExistingChannel DEF Good
<1>3. /\ Owned(n, ep) /\ Keeps(p, n) /\ n.in_buffer = p.in_buffer
      /\ n.out_buffer = p.out_buffer /\ n.availability = p.availability
      /\ \A g \in Fd : g # fd => n.fds.new_events[g] = p.fds.new_events[g]
      /\ "IN" \in n.fds.new_events[fd] <=> "IN" \in p.fds.new_events[fd]
      /\ "OUT" \in n.fds.new_events[fd]
  BY <1>1 DEF Polled, Events
<1>4. Keeps(m, n)
  BY <1>3 DEF Keeps
<1>5. /\ PrimaryOutput(n) = PrimaryOutput(m) /\ HasClient(n) = HasClient(m)
      /\ PrimaryOutput(p) = PrimaryOutput(m)
      /\ PrimaryOutput(m) \in {"client", "console", "none"}
  BY <1>4 DEF Keeps, PrimaryOutput, HasClient
<1>6. stdin_fd(n) = stdin_fd(m) /\ stdin_fd(p) = stdin_fd(m)
  BY <1>4, StdinName DEF Keeps
<1>7. stdin_fd(m) # "none" => stdin_fd(m) \in Fd
  BY StdinName, FdNames DEF Good, Owned, Manager
<1>8. OutputAsked(n)
  BY <1>3, <1>5, FdNames DEF OutputAsked
<1>9. InputAsked(n)
  BY <1>3, <1>6, <1>7 DEF InputAsked
<1>10. ClientAsked(n)
  BY <1>3, <1>5, FdNames DEF ClientAsked, Good
<1>11. Degrades(m, f, n)
  BY <1>3 DEF Degrades
<1>12. Answers(m, ep, f, n)
  BY <1>3, <1>4, <1>8, <1>9, <1>10, <1>11, KeepsAnswers DEF Good
<1> QED BY <1>12 DEF n

(* on_readable of the client.                                              *)
LEMMA ClientReadAnswers ==
    ASSUME NEW m, NEW ep, Good(m, ep), "client" \in m.fds.existing,
           NEW k, NEW r, ReadResult(m.in_buffer, k, r)
    PROVE  Answers(m, ep, "client", client_read(m, r))
<1> DEFINE n == [m EXCEPT !.in_buffer = r.buf]
<1>0. /\ Owned(m, ep) /\ r.buf \in Counts
      /\ m.availability \in {"ReadWrite", "ReadOnly", "WriteOnly"}
  BY DEF Good, ReadResult, Owned, Manager
<1>1. /\ Owned(n, ep) /\ Keeps(m, n) /\ n \in Manager
      /\ PrimaryOutput(n) = PrimaryOutput(m) /\ stdin_fd(n) = stdin_fd(m)
      /\ HasClient(n) = HasClient(m) /\ n.in_buffer = r.buf
      /\ n.out_buffer = m.out_buffer /\ n.availability = m.availability
      /\ n.fds = m.fds /\ n.stdio = m.stdio /\ n.client = m.client
      /\ n.console = m.console
  BY <1>0, InBufferOwned
<1>2. r.change # "BecameNonEmpty" =>
        /\ Lighter(m, n) /\ Good(n, ep) /\ \A fd : Answers(m, ep, fd, n)
        /\ \A fd, p : Answers(n, ep, fd, p) => Answers(m, ep, fd, p)
  <2>1. r.change # "BecameNonEmpty" => Lighter(m, n)
    BY <1>1 DEF Lighter, ReadResult
  <2> QED BY <2>1, LighterGood
<1>3. CASE r.should_close
  <2>1. r.change # "BecameNonEmpty"
    BY <1>3 DEF ReadResult
  <2>2. CASE m.availability = "ReadOnly"
    <3>1. client_read(m, r) = on_hangup(n, "client")
      BY <1>3, <2>2 DEF client_read
    <3> HIDE DEF n
    <3>2. Answers(n, ep, "client", on_hangup(n, "client"))
      BY <1>1, <1>2, <2>1, HangupAnswers
    <3> QED BY <1>2, <2>1, <3>1, <3>2
  <2>3. CASE m.availability # "ReadOnly"
    <3>1. client_read(m, r) =
            [Poll(n, "client", "IN", FALSE) EXCEPT !.availability = "WriteOnly"]
      BY <1>3, <2>3 DEF client_read
    <3> HIDE DEF n
    <3>2. Good(n, ep) /\ "client" \in n.fds.existing
      BY <1>1, <1>2, <2>1
    <3>3. n.availability \in {"ReadWrite", "WriteOnly"}
      BY <1>0, <1>1, <2>3
    <3>4. Answers(n, ep, "client", client_read(m, r))
      BY <3>1, <3>2, <3>3, HalfGoneAnswers
    <3> QED BY <1>2, <2>1, <3>4
  <2> QED BY <2>2, <2>3
<1>4. CASE ~r.should_close /\ stdin_fd(m) = "none"
  <2> DEFINE p == [n EXCEPT !.out_buffer = AfterDiscard(@)]
  <2>1. client_read(m, r) = p
    BY <1>4 DEF client_read
  <2> HIDE DEF n
  <2>2. /\ AfterDiscard(m.out_buffer) \in Counts
        /\ WritableSize(AfterDiscard(m.out_buffer)) =< WritableSize(m.out_buffer)
    BY <1>0, DiscardCounts DEF Owned, Manager
  <2>3. /\ p \in Manager /\ p.fds = n.fds /\ p.stdio = n.stdio /\ p.console = n.console
        /\ p.client = n.client /\ p.availability = n.availability
        /\ p.out_buffer = AfterDiscard(m.out_buffer) /\ p.in_buffer = n.in_buffer
    BY <1>1, <2>2 DEF Manager
  <2> HIDE DEF p
  <2>4. /\ Owned(p, ep) /\ Keeps(n, p)
        /\ PrimaryOutput(p) = PrimaryOutput(n) /\ stdin_fd(p) = stdin_fd(n)
        /\ HasClient(p) = HasClient(n)
    BY <1>1, <2>3, OwnedParts
  <2>5. Keeps(m, p) /\ Degrades(m, "client", p)
    BY <1>1, <2>3, <2>4 DEF Keeps, Degrades
  <2>6. OutputAsked(p)
    <3>1. WritableSize(p.out_buffer) > 0 => WritableSize(m.out_buffer) > 0
      <4>1. m.out_buffer \in Counts
        BY <1>0 DEF Owned, Manager
      <4>2. WritableSize(m.out_buffer) \in Int /\ WritableSize(AfterDiscard(m.out_buffer)) \in Int
        BY <2>2, <4>1, CapacityAssumption DEF Counts, WritableSize
      <4> QED BY <2>2, <2>3, <4>2
    <3> QED BY <1>1, <2>3, <2>4, <3>1 DEF OutputAsked, Good
  <2>7. InputAsked(p)
    BY <1>1, <1>4, <2>4 DEF InputAsked
  <2>8. ClientAsked(p)
    BY <1>1, <2>3, <2>4 DEF ClientAsked, Good
  <2> QED BY <2>1, <2>4, <2>5, <2>6, <2>7, <2>8, KeepsAnswers DEF Good
<1>5. CASE ~r.should_close /\ stdin_fd(m) # "none" /\ r.change = "BecameNonEmpty"
  <2>1. client_read(m, r) = Poll(n, stdin_fd(m), "OUT", TRUE)
    BY <1>5 DEF client_read
  <2> HIDE DEF n
  <2>2. stdin_fd(m) \in m.fds.existing /\ stdin_fd(m) # "console"
    BY <1>0, <1>5, StdinName, ExistingChannel, FdNames
  <2>3. OutputAsked(n)
    BY <1>1 DEF OutputAsked, Good
  <2> QED BY <1>1, <2>1, <2>2, <2>3, AskOutAnswers
<1>6. CASE ~r.should_close /\ stdin_fd(m) # "none" /\ r.change # "BecameNonEmpty"
  <2>1. client_read(m, r) = n
    BY <1>6 DEF client_read
  <2> HIDE DEF n
  <2> QED BY <1>2, <1>6, <2>1
<1> QED BY <1>3, <1>4, <1>5, <1>6
(* on_readable of the child's output.  A client that was accepted in this  *)
(* batch is not yet one that modify takes.                                 *)
LEMMA OutputReadAnswers ==
    ASSUME NEW m, NEW ep, Good(m, ep), NEW fd, fd \in m.stdio,
           NEW k, NEW r, ReadResult(m.out_buffer, k, r)
    PROVE  Answers(m, ep, fd, output_read(m, fd, r))
<1> DEFINE n == [m EXCEPT !.out_buffer = r.buf]
           no_output == IF r.change = "BecameNonEmpty"
                        THEN PrimaryOutput(m) = "none" ELSE ~has_output_channel(m)
<1>0. /\ Owned(m, ep) /\ r.buf \in Counts /\ fd \in m.fds.existing /\ fd # "server"
  BY ExistingChannel, FdNames DEF Good, ReadResult
<1>1. /\ Owned(n, ep) /\ Keeps(m, n) /\ n \in Manager
      /\ PrimaryOutput(n) = PrimaryOutput(m) /\ stdin_fd(n) = stdin_fd(m)
      /\ HasClient(n) = HasClient(m) /\ n.out_buffer = r.buf
      /\ n.in_buffer = m.in_buffer /\ n.availability = m.availability
      /\ n.fds = m.fds /\ n.stdio = m.stdio /\ n.client = m.client
      /\ n.console = m.console
  BY <1>0, OutBufferOwned
<1>2. r.change # "BecameNonEmpty" =>
        /\ Lighter(m, n) /\ Good(n, ep) /\ Answers(m, ep, fd, n)
        /\ \A p : Answers(n, ep, fd, p) => Answers(m, ep, fd, p)
  <2>1. r.change # "BecameNonEmpty" => Lighter(m, n)
    BY <1>1 DEF Lighter, ReadResult
  <2> QED BY <2>1, LighterGood
<1>3. CASE r.should_close
  <2>1. r.change # "BecameNonEmpty"
    BY <1>3 DEF ReadResult
  <2>2. output_read(m, fd, r) = on_hangup(n, fd)
    BY <1>3 DEF output_read
  <2> HIDE DEF n
  <2>3. Answers(n, ep, fd, on_hangup(n, fd))
    BY <1>0, <1>1, <1>2, <2>1, HangupAnswers
  <2> QED BY <1>2, <2>1, <2>2, <2>3
<1>4. CASE ~r.should_close /\ no_output
  <2> DEFINE p == [n EXCEPT !.out_buffer = AfterDiscard(@)]
  <2>1. output_read(m, fd, r) = p
    BY <1>4 DEF output_read
  <2>2. r.change = "BecameNonEmpty" => PrimaryOutput(m) = "none"
    BY <1>4
  <2> HIDE DEF n, no_output
  <2>3. /\ AfterDiscard(r.buf) \in Counts
        /\ WritableSize(AfterDiscard(r.buf)) =< WritableSize(r.buf)
        /\ WritableSize(r.buf) \in Int /\ WritableSize(AfterDiscard(r.buf)) \in Int
    <3>1. /\ AfterDiscard(r.buf) \in Counts
          /\ WritableSize(AfterDiscard(r.buf)) =< WritableSize(r.buf)
      BY <1>0, DiscardCounts
    <3> QED BY <1>0, <3>1, CapacityAssumption DEF Counts, WritableSize
  <2>4. /\ p \in Manager /\ p.fds = n.fds /\ p.stdio = n.stdio /\ p.console = n.console
        /\ p.client = n.client /\ p.availability = n.availability
        /\ p.out_buffer = AfterDiscard(r.buf) /\ p.in_buffer = n.in_buffer
    BY <1>1, <2>3 DEF Manager
  <2> HIDE DEF p
  <2>5. /\ Owned(p, ep) /\ Keeps(n, p)
        /\ PrimaryOutput(p) = PrimaryOutput(n) /\ stdin_fd(p) = stdin_fd(n)
        /\ HasClient(p) = HasClient(n)
    BY <1>1, <2>4, OwnedParts
  <2>6. Keeps(m, p) /\ Degrades(m, fd, p)
    BY <1>1, <2>4, <2>5 DEF Keeps, Degrades
  <2>7. OutputAsked(p)
    <3>1. CASE PrimaryOutput(m) = "none"
      BY <1>1, <2>5, <3>1 DEF OutputAsked
    <3>2. CASE PrimaryOutput(m) # "none"
      <4>1. WritableSize(p.out_buffer) > 0 => WritableSize(r.buf) > 0
        BY <2>3, <2>4
      <4>2. WritableSize(r.buf) > 0 => WritableSize(m.out_buffer) > 0
        BY <2>2, <3>2 DEF ReadResult
      <4> QED BY <1>1, <2>4, <2>5, <4>1, <4>2 DEF OutputAsked, Good
    <3> QED BY <3>1, <3>2
  <2>8. InputAsked(p)
    BY <1>1, <2>4, <2>5 DEF InputAsked, Good
  <2>9. ClientAsked(p)
    BY <1>1, <2>4, <2>5 DEF ClientAsked, Good
  <2> QED BY <2>1, <2>5, <2>6, <2>7, <2>8, <2>9, KeepsAnswers DEF Good
<1>5. CASE ~r.should_close /\ ~no_output /\ r.change = "BecameNonEmpty"
  <2>1. output_read(m, fd, r) = Poll(n, PrimaryOutput(m), "OUT", TRUE)
    BY <1>5 DEF output_read
  <2> HIDE DEF n
  <2>2. CASE PrimaryOutput(m) \notin m.fds.existing
    BY <1>1, <2>1, <2>2, PollFails DEF Answers
  <2>3. CASE PrimaryOutput(m) \in m.fds.existing
    <3>1. InputAsked(n)
      BY <1>1 DEF InputAsked, Good
    <3>2. HasClient(m) => PrimaryOutput(m) # "console"
      BY DEF PrimaryOutput
    <3> QED BY <1>1, <2>1, <2>3, <3>1, <3>2, AskOutAnswers
  <2> QED BY <2>2, <2>3
<1>6. CASE ~r.should_close /\ ~no_output /\ r.change # "BecameNonEmpty"
  <2>1. output_read(m, fd, r) = n
    BY <1>6 DEF output_read
  <2> HIDE DEF n
  <2> QED BY <1>2, <1>6, <2>1
<1> QED BY <1>3, <1>4, <1>5, <1>6

(* No longer asking for OUT on fd is an answer once the buffer it was      *)
(* asked for is empty.                                                     *)
LEMMA StopOutAnswers ==
    ASSUME NEW m, NEW ep, Good(m, ep), NEW fd, fd \in m.fds.existing,
           fd = PrimaryOutput(m) => WritableSize(m.out_buffer) = 0,
           fd = stdin_fd(m) => WritableSize(m.in_buffer) = 0, NEW f
    PROVE  Answers(m, ep, f, Poll(m, fd, "OUT", FALSE))
<1> DEFINE n == Poll(m, fd, "OUT", FALSE)
<1>0. Owned(m, ep)
  BY DEF Good
<1>1. Polled(m, ep, fd, "OUT", FALSE, n)
  BY <1>0, PollOwned DEF Events
<1> HIDE DEF n
<1>2. fd \in Fd
  BY <1>0, ExistingChannel
<1>3. /\ Owned(n, ep) /\ Keeps(m, n) /\ n.in_buffer = m.in_buffer
      /\ n.out_buffer = m.out_buffer /\ n.availability = m.availability
      /\ \A g \in Fd : g # fd => n.fds.new_events[g] = m.fds.new_events[g]
      /\ "IN" \in n.fds.new_events[fd] <=> "IN" \in m.fds.new_events[fd]
      /\ "OUT" \notin n.fds.new_events[fd]
  BY <1>1 DEF Polled, Events
<1>4. /\ PrimaryOutput(n) = PrimaryOutput(m) /\ HasClient(n) = HasClient(m)
      /\ PrimaryOutput(m) \in {"client", "console", "none"}
  BY <1>3 DEF Keeps, PrimaryOutput, HasClient
<1>5. stdin_fd(n) = stdin_fd(m)
  BY <1>3, StdinName DEF Keeps
<1>6. stdin_fd(m) # "none" => stdin_fd(m) \in Fd
  BY <1>0, StdinName, FdNames DEF Owned, Manager
<1>7. OutputAsked(n)
  BY <1>3, <1>4, FdNames DEF OutputAsked, Good
<1>8. InputAsked(n)
  BY <1>3, <1>5, <1>6 DEF InputAsked, Good
<1>9. ClientAsked(n)
  BY <1>3, <1>4, FdNames DEF ClientAsked, Good
<1>10. Degrades(m, f, n)
  BY <1>3 DEF Degrades
<1>11. Answers(m, ep, f, n)
  BY <1>3, <1>7, <1>8, <1>9, <1>10, KeepsAnswers DEF Good
<1> QED BY <1>11 DEF n

(* on_writable of the client.                                              *)
LEMMA ClientWrittenAnswers ==
    ASSUME NEW m, NEW ep, Good(m, ep), "client" \in m.fds.existing,
           NEW w, WriteResult(m.out_buffer, w)
    PROVE  Answers(m, ep, "client", client_written(m, w))
<1> DEFINE n == [m EXCEPT !.out_buffer = w.buf]
<1>0. w.buf \in Counts /\ m.availability \in {"ReadWrite", "ReadOnly", "WriteOnly"}
  BY DEF WriteResult, Good, Owned, Manager
<1>1. /\ n \in Manager /\ n.out_buffer = w.buf
      /\ n.in_buffer = m.in_buffer /\ n.availability = m.availability
      /\ n.fds = m.fds /\ n.stdio = m.stdio /\ n.client = m.client
      /\ n.console = m.console
  BY <1>0, OutBufferOwned
<1>2. Lighter(m, n)
  BY <1>1 DEF Lighter, WriteResult
<1>3. /\ Good(n, ep) /\ Answers(m, ep, "client", n)
      /\ \A p : Answers(n, ep, "client", p) => Answers(m, ep, "client", p)
  BY <1>2, LighterGood
<1>4. CASE w.should_close /\ m.availability = "WriteOnly"
  <2>1. client_written(m, w) = on_hangup(n, "client")
    BY <1>4 DEF client_written
  <2> HIDE DEF n
  <2> QED BY <1>1, <1>3, <2>1, HangupAnswers
<1>5. CASE w.should_close /\ m.availability # "WriteOnly"
  <2>1. client_written(m, w) =
          [Poll(n, "client", "IN", FALSE) EXCEPT !.availability = "ReadOnly"]
    BY <1>5 DEF client_written
  <2> HIDE DEF n
  <2>2. n.availability \in {"ReadWrite", "ReadOnly"} /\ "client" \in n.fds.existing
    BY <1>0, <1>1, <1>5
  <2> QED BY <1>3, <2>1, <2>2, HalfGoneAnswers
<1>6. CASE ~w.should_close /\ w.change = "BecameEmpty"
  <2>1. client_written(m, w) = Poll(n, "client", "OUT", FALSE)
    BY <1>6 DEF client_written
  <2>2. WritableSize(w.buf) = 0
    BY <1>0, <1>6, CapacityAssumption DEF WriteResult, WritableSize, Counts
  <2>3. stdin_fd(n) # "client"
    BY DEF stdin_fd, pipes_stdin_fd, pty_stdin_fd
  <2> HIDE DEF n
  <2> QED BY <1>1, <1>3, <2>1, <2>2, <2>3, StopOutAnswers
<1>7. CASE ~w.should_close /\ w.change # "BecameEmpty"
  <2>1. client_written(m, w) = n
    BY <1>7 DEF client_written
  <2> HIDE DEF n
  <2> QED BY <1>3, <2>1
<1> QED BY <1>4, <1>5, <1>6, <1>7

(* on_writable of the console.                                             *)
LEMMA ConsoleWrittenAnswers ==
    ASSUME NEW m, NEW ep, Good(m, ep), "console" \in m.fds.existing,
           NEW w, WriteResult(m.out_buffer, w)
    PROVE  Answers(m, ep, "console", console_written(m, w))
<1> DEFINE n == [m EXCEPT !.out_buffer = w.buf]
<1>0. w.buf \in Counts
  BY DEF WriteResult
<1>1. /\ n \in Manager /\ n.out_buffer = w.buf
      /\ n.in_buffer = m.in_buffer /\ n.availability = m.availability
      /\ n.fds = m.fds /\ n.stdio = m.stdio /\ n.client = m.client
      /\ n.console = m.console
  BY <1>0, OutBufferOwned
<1>2. Lighter(m, n)
  BY <1>1 DEF Lighter, WriteResult
<1>3. /\ Good(n, ep) /\ Answers(m, ep, "console", n)
      /\ \A p : Answers(n, ep, "console", p) => Answers(m, ep, "console", p)
  BY <1>2, LighterGood
<1>4. CASE w.should_close
  <2>1. console_written(m, w) = on_hangup(n, "console")
    BY <1>4 DEF console_written
  <2> HIDE DEF n
  <2> QED BY <1>1, <1>3, <2>1, HangupAnswers
<1>5. CASE ~w.should_close /\ w.change = "BecameEmpty"
  <2>1. console_written(m, w) = Poll(n, "console", "OUT", FALSE)
    BY <1>5 DEF console_written
  <2>2. WritableSize(w.buf) = 0
    BY <1>0, <1>5, CapacityAssumption DEF WriteResult, WritableSize, Counts
  <2>3. stdin_fd(n) # "console"
    BY DEF stdin_fd, pipes_stdin_fd, pty_stdin_fd
  <2> HIDE DEF n
  <2> QED BY <1>1, <1>3, <2>1, <2>2, <2>3, StopOutAnswers
<1>6. CASE ~w.should_close /\ w.change # "BecameEmpty"
  <2>1. console_written(m, w) = n
    BY <1>6 DEF console_written
  <2> HIDE DEF n
  <2> QED BY <1>3, <2>1
<1> QED BY <1>4, <1>5, <1>6

(* on_writable of the child's stdin or of the pty.                         *)
LEMMA StdinWrittenAnswers ==
    ASSUME NEW m, NEW ep, Good(m, ep), NEW fd, fd \in m.stdio, fd = stdin_fd(m),
           NEW w, WriteResult(m.in_buffer, w)
    PROVE  Answers(m, ep, fd, stdin_written(m, w))
<1> DEFINE n == [m EXCEPT !.in_buffer = w.buf]
<1>0. /\ w.buf \in Counts /\ Owned(m, ep) /\ fd \in m.fds.existing
      /\ fd \notin {"server", "client", "console", "none"}
  BY ExistingChannel, FdNames DEF WriteResult, Good
<1>1. /\ n \in Manager /\ n.in_buffer = w.buf
      /\ n.out_buffer = m.out_buffer /\ n.availability = m.availability
      /\ n.fds = m.fds /\ n.stdio = m.stdio /\ n.client = m.client
      /\ n.console = m.console
  BY <1>0, InBufferOwned
<1>2. Lighter(m, n)
  BY <1>1 DEF Lighter, WriteResult
<1>3. /\ Good(n, ep) /\ Answers(m, ep, fd, n)
      /\ \A p : Answers(n, ep, fd, p) => Answers(m, ep, fd, p)
  BY <1>2, LighterGood
<1>4. CASE w.should_close
  <2>1. stdin_written(m, w) = on_hangup(n, fd)
    BY <1>4 DEF stdin_written
  <2> HIDE DEF n
  <2> QED BY <1>0, <1>1, <1>3, <2>1, HangupAnswers
<1>5. CASE ~w.should_close /\ w.change = "BecameEmpty" /\ client_socket_readable(m)
  <2>1. stdin_written(m, w) = Poll(n, fd, "OUT", FALSE)
    BY <1>5 DEF stdin_written
  <2>2. WritableSize(w.buf) = 0
    BY <1>0, <1>5, CapacityAssumption DEF WriteResult, WritableSize, Counts
  <2>3. PrimaryOutput(n) # fd
    BY <1>0 DEF PrimaryOutput
  <2> HIDE DEF n
  <2> QED BY <1>0, <1>1, <1>3, <2>1, <2>2, <2>3, StopOutAnswers
<1>6. CASE ~w.should_close /\ ~(w.change = "BecameEmpty" /\ client_socket_readable(m))
  <2>1. stdin_written(m, w) = n
    BY <1>6 DEF stdin_written
  <2> HIDE DEF n
  <2> QED BY <1>3, <2>1
<1> QED BY <1>4, <1>5, <1>6
--------------------------------------------------------------------------------
(* Pollster::new and apply_poll_updates.                                   *)

(* fs was made by registering the fds of new, none of them for writes.     *)
Fresh(fs, new) ==
    /\ InStep(fs, NoEpoll, Fd \ {"client"})
    /\ fs.existing = {} /\ fs.removed = {} /\ fs.new = new
    /\ \A fd \in Fd : "OUT" \notin fs.new_events[fd]

(* One more fd is registered.                                              *)
LEMMA RegisterFresh ==
    ASSUME NEW fs, NEW new, Fresh(fs, new), NEW fd \in Fd \ {"client"}, fd \notin new,
           NEW events \in SUBSET {"IN"}
    PROVE  Fresh(Register(fs, fd, events), new \cup {fd})
<1> DEFINE g == Register(fs, fd, events)
<1>1. fs \in FdSets /\ events \in SUBSET Events
  BY DEF Fresh, InStep, Events
<1>2. fd \notin fs.existing \cup fs.new \cup fs.removed
  BY DEF Fresh
<1>3. InStep(g, NoEpoll, Fd \ {"client"})
  BY <1>1, <1>2, RegisterInStep DEF Fresh
<1>4. g = [existing |-> fs.existing, event |-> fs.event,
           new_events |-> [fs.new_events EXCEPT ![fd] = events],
           new |-> fs.new \cup {fd}, removed |-> fs.removed, failed |-> fs.failed]
  BY <1>1, <1>2, RegisterParts
<1> HIDE DEF g
<1>5. /\ g.existing = {} /\ g.removed = {} /\ g.new = new \cup {fd}
      /\ g.new_events = [fs.new_events EXCEPT ![fd] = events]
  BY <1>4 DEF Fresh
<1>6. \A f \in Fd : "OUT" \notin g.new_events[f]
  BY <1>1, <1>5 DEF Fresh, FdSets
<1>7. Fresh(g, new \cup {fd})
  BY <1>3, <1>5, <1>6 DEF Fresh
<1> QED BY <1>7 DEF g

(* initialize registers every channel the new manager has.                 *)
LEMMA InitializeFresh ==
    /\ Fresh(initialize(NewManager).fds, Fd \ {"client"})
    /\ initialize(NewManager) = [NewManager EXCEPT !.fds = initialize(NewManager).fds]
<1>1. Fresh(EmptyFdSet, {})
  BY EmptyInStep DEF Fresh, EmptyFdSet
<1>2. Fresh(StdioRegistered(EmptyFdSet), ChildFds)
  <2>1. CASE UsePty
    <3>1. "pty" \in Fd \ {"client"} /\ ChildFds = {} \cup {"pty"}
      BY <2>1, FdAssumption DEF ChildFds
    <3>2. Fresh(Register(EmptyFdSet, "pty", {"IN"}), {} \cup {"pty"})
      BY <1>1, <3>1, RegisterFresh
    <3> QED BY <2>1, <3>1, <3>2 DEF StdioRegistered, PtyRegistered
  <2>2. CASE ~UsePty
    <3>1. /\ {"stdin", "stdout", "stderr"} \subseteq Fd \ {"client"}
          /\ ChildFds = (({} \cup {"stdin"}) \cup {"stdout"}) \cup {"stderr"}
      BY <2>2, FdAssumption DEF ChildFds
    <3> DEFINE f1 == Register(EmptyFdSet, "stdin", {})
               f2 == Register(f1, "stdout", {"IN"})
               f3 == Register(f2, "stderr", {"IN"})
    <3>2. Fresh(f1, {} \cup {"stdin"})
      BY <1>1, <3>1, RegisterFresh
    <3> HIDE DEF f1
    <3>3. Fresh(f2, ({} \cup {"stdin"}) \cup {"stdout"})
      BY <3>1, <3>2, RegisterFresh
    <3> HIDE DEF f2
    <3>4. Fresh(f3, (({} \cup {"stdin"}) \cup {"stdout"}) \cup {"stderr"})
      BY <3>1, <3>3, RegisterFresh
    <3>5. f3 = StdioRegistered(EmptyFdSet)
      BY <2>2 DEF StdioRegistered, PipesRegistered, f1, f2
    <3> QED BY <3>1, <3>4, <3>5
  <2> QED BY <2>1, <2>2
<1> DEFINE f4 == Register(StdioRegistered(EmptyFdSet), "server", {"IN"})
           f5 == Register(f4, "console", {})
<1>3. Fresh(f4, ChildFds \cup {"server"})
  BY <1>2, FdNames, RegisterFresh
<1> HIDE DEF f4
<1>4. Fresh(f5, (ChildFds \cup {"server"}) \cup {"console"})
  BY <1>3, FdNames, RegisterFresh
<1> HIDE DEF f5
<1>5. (ChildFds \cup {"server"}) \cup {"console"} = Fd \ {"client"}
  BY FdAssumption, FdNames
<1>6. initialize(NewManager) = [NewManager EXCEPT !.fds = f5]
  BY DEF initialize, f4, f5, NewManager
<1>7. initialize(NewManager).fds = f5
  BY <1>6 DEF NewManager
<1> QED BY <1>4, <1>5, <1>6, <1>7

(* A manager without a client and with empty buffers.                      *)
LEMMA BareManager ==
    ASSUME NEW s \in SUBSET ChildFds, NEW g \in FdSets
    PROVE  \A on \in BOOLEAN :
             [client |-> NoConn, availability |-> "ReadWrite", stdio |-> s, console |-> on,
              in_buffer |-> NoBytes, out_buffer |-> NoBytes, fds |-> g] \in Manager
<1>1. NoBytes \in Counts
  BY CapacityAssumption DEF NoBytes, Counts
<1> QED BY <1>1 DEF Manager

(* apply_updates of what initialize registered.                            *)
LEMMA FirstUpdateGood ==
    ASSUME NEW m, m = initialize(NewManager),
           NEW n, n = [m EXCEPT !.fds = UpdatedFds(@)],
           NEW ep, ep = UpdatedEpoll(m.fds, NoEpoll)
    PROVE  Good(n, ep) /\ Settled(n.fds, ep)
<1> DEFINE g == UpdatedFds(m.fds)
<1>1. Fresh(m.fds, Fd \ {"client"}) /\ m = [NewManager EXCEPT !.fds = m.fds]
  BY InitializeFresh
<1>2. m.fds \in FdSets
  BY <1>1 DEF Fresh, InStep
<1>3. InStep(g, ep, Fd \ {"client"}) /\ Settled(g, ep)
  BY <1>1, UpdateInStep DEF Fresh
<1>4. g.existing = Fd \ {"client"} /\ g.new_events = m.fds.new_events
  BY <1>1, <1>2 DEF UpdatedFds, FdSets, Fresh
<1>5. n = [m EXCEPT !.fds = g]
  OBVIOUS
<1> DEFINE fs == m.fds
<1>13. m = [NewManager EXCEPT !.fds = fs]
  BY <1>1
<1> HIDE DEF g, fs
<1>6. n = [client |-> NoConn, availability |-> "ReadWrite", stdio |-> ChildFds,
           console |-> TRUE, in_buffer |-> NoBytes, out_buffer |-> NoBytes, fds |-> g]
  BY <1>5, <1>13 DEF NewManager
<1>7. NoBytes \in Counts /\ WritableSize(NoBytes) = 0
  BY CapacityAssumption DEF NoBytes, Counts, WritableSize
<1>8. g \in FdSets /\ g.new = {} /\ g.removed = {}
  BY <1>3 DEF InStep, Settled
<1>9. n \in Manager
  <2>1. ChildFds \in SUBSET ChildFds /\ TRUE \in BOOLEAN
    OBVIOUS
  <2>2. [client |-> NoConn, availability |-> "ReadWrite", stdio |-> ChildFds,
         console |-> TRUE, in_buffer |-> NoBytes, out_buffer |-> NoBytes, fds |-> g] \in Manager
    BY <1>8, <2>1, BareManager, Zenon
  <2> QED BY <1>6, <2>2, Zenon
<1>10. /\ n.fds = g /\ n.client = NoConn /\ n.stdio = ChildFds /\ n.console = TRUE
       /\ n.in_buffer = NoBytes /\ n.out_buffer = NoBytes
  BY <1>6
<1>11. ~HasClient(n)
  BY <1>10 DEF HasClient
<1>12. Channels(n) = Fd \ {"client"} /\ Files(n) = Fd \ {"client"}
  BY <1>10, <1>11, FdAssumption, FdNames DEF Channels, Files
<1>14. Owned(n, ep)
  BY <1>3, <1>4, <1>8, <1>9, <1>10, <1>12 DEF Owned
<1> QED BY <1>3, <1>7, <1>10, <1>11, <1>14 DEF Good, OutputAsked, InputAsked, ClientAsked

(* apply_updates after a batch: no epoll_ctl is refused, and what is asked *)
(* for is what epoll then knows.                                           *)
LEMMA UpdateGood ==
    ASSUME NEW m, NEW ep, Good(m, ep), NEW n, n = [m EXCEPT !.fds = UpdatedFds(@)],
           NEW q, q = UpdatedEpoll(m.fds, ep), NEW pollable, "client" \in pollable
    PROVE  /\ UpdatesAccepted(m.fds, ep, pollable)
           /\ Good(n, q) /\ Settled(n.fds, q)
<1> DEFINE g == UpdatedFds(m.fds)
<1>1. Owned(m, ep) /\ m \in Manager /\ InStep(m.fds, ep, Files(m)) /\ m.fds \in FdSets
  BY DEF Good, Owned, InStep
<1>2. UpdatesAccepted(m.fds, ep, pollable)
  BY <1>1, UpdateInStep DEF Owned
<1>3. InStep(g, q, Files(m)) /\ Settled(g, q)
  BY <1>1, UpdateInStep
<1>4. /\ g.existing = m.fds.existing \cup m.fds.new /\ g.new_events = m.fds.new_events
      /\ g.new = {} /\ g.removed = {} /\ g \in FdSets
  BY <1>1 DEF UpdatedFds, FdSets
<1>5. n = [m EXCEPT !.fds = g]
  OBVIOUS
<1> HIDE DEF g
<1>6. /\ n.fds = g /\ n.client = m.client /\ n.stdio = m.stdio /\ n.console = m.console
      /\ n.in_buffer = m.in_buffer /\ n.out_buffer = m.out_buffer
      /\ n.availability = m.availability /\ n \in Manager
  BY <1>1, <1>4, <1>5 DEF Manager
<1>7. /\ Channels(n) = Channels(m) /\ Files(n) = Files(m) /\ HasClient(n) = HasClient(m)
      /\ PrimaryOutput(n) = PrimaryOutput(m)
  BY <1>6 DEF Channels, Files, HasClient, PrimaryOutput
<1>8. stdin_fd(n) = stdin_fd(m)
  BY <1>6, StdinName
<1>9. Owned(n, q)
  BY <1>1, <1>3, <1>4, <1>6, <1>7 DEF Owned
<1>10. OutputAsked(n) /\ InputAsked(n) /\ ClientAsked(n)
  BY <1>4, <1>6, <1>7, <1>8 DEF Good, OutputAsked, InputAsked, ClientAsked
<1> QED BY <1>2, <1>3, <1>6, <1>9, <1>10 DEF Good
================================================================================
