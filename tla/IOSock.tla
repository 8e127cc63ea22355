-------------------------------- MODULE IOSock --------------------------------
(***************************************************************************)
(* The worker thread of iosock and everything it talks to.                 *)
(*                                                                         *)
(* The worker runs Pollster::run over an IOSockChannelManager: it waits on *)
(* epoll, hands each event of the batch to on_readable, on_writable and    *)
(* on_hangup, and after the batch gives the changes of its PolledFdSet to  *)
(* epoll.  Around it are the child (three pipes, or one pty), the clients  *)
(* of the Unix socket, the reader of iosock's own stdout (the console) and *)
(* the main thread, which writes a byte to the close pipe when the child   *)
(* has exited.  They run between any two steps of the worker.              *)
(*                                                                         *)
(* Reads and writes block, as they do in the code: a read step is enabled  *)
(* once there is a byte or the end of the stream, and a write that finds   *)
(* too little room stays in the call until the rest has been taken or the  *)
(* other end is gone.  Streams are counted, not stored: module FlipBuffer  *)
(* shows that BufferCounts tells all that buffer.rs decides by.            *)
(***************************************************************************)
EXTENDS ChannelManager, Sequences, FiniteSets

CONSTANTS
    PipeCap,     \* what the kernel holds of one pipe, or one way of the pty
    SockCap,     \* what it holds of one way of a connection
    ConsoleCap,  \* what it holds of the console
    MaxFds,      \* POLLSTER_MAX_FDS, the events one epoll_wait returns
    OutBytes,    \* bound: bytes the child writes to stdout or the pty
    ErrBytes,    \* bound: bytes the child writes to stderr
    InBytes,     \* bound: bytes all clients send
    Closes       \* bound: ends of streams the others close or shut down

ASSUME SizeAssumption ==
    /\ PipeCap \in Nat \ {0} /\ SockCap \in Nat \ {0} /\ ConsoleCap \in Nat \ {0}
    /\ MaxFds \in Nat \ {0}
    /\ OutBytes \in Nat /\ ErrBytes \in Nat /\ InBytes \in Nat /\ Closes \in Nat

VARIABLES
    (* the worker *)
    pc,          \* where it is: see Running and Ended
    mgr,         \* its IOSockChannelManager, with the PolledFdSet in mgr.fds
    batch,       \* the actions of this epoll_wait still to be dispatched
    cur,         \* the fd whose event is being dispatched, or "none"
    final,       \* final_iteration
    done,        \* the bytes the write call in progress has handed on
    (* the kernel *)
    epoll,       \* the epoll instance
    pin,         \* bytes in the child's stdin pipe, or on the way in of the pty
    pout,        \* bytes in its stdout pipe, or on the way out of the pty
    perr,        \* bytes in its stderr pipe
    ends,        \* the pipes, or the pty, the child side still has open
    con,         \* the console: bytes in it, whether it is read, its kind
    conn,        \* the connections
    backlog,     \* those waiting to be accepted, in order
    close_byte,  \* the main thread has written to the close pipe
    left         \* the bytes the environment may still produce

worker == <<pc, mgr, batch, cur, final, done>>
child  == <<pin, pout, perr, ends>>
peers  == <<con, conn, backlog>>
vars   == <<worker, epoll, child, peers, close_byte, left>>

Running == {"new", "wait", "dispatch"}
Ended   == {"done", "err_new", "err_io", "err_epoll", "panic_modify",
            "panic_register", "panic_unregister", "panic_readable",
            "panic_writable"}

Acts == {"IN", "OUT", "HUP"}   \* HUP stands for EPOLLHUP and EPOLLERR

(* A connection: bytes on the way to the server (c2s) and to the client    *)
(* (s2c), the client's two halves (wr: it may send, rd: it receives), and  *)
(* reset: it was closed with bytes unread, so the next read that finds no  *)
(* bytes fails with ECONNRESET.                                            *)
Connection ==
    [st : {"idle", "backlog", "served", "closed"}, c2s : 0 .. SockCap,
     s2c : 0 .. SockCap, wr : BOOLEAN, rd : BOOLEAN, reset : BOOLEAN]

--------------------------------------------------------------------------------
(* What epoll reports (external: the kernel).                              *)

CanRead(fd) ==
    CASE fd = "server" -> backlog # <<>>
      [] fd = "client" -> conn[mgr.client].c2s > 0 \/ ~conn[mgr.client].wr
      [] fd \in {"stdout", "pty"} -> pout > 0
      [] fd = "stderr" -> perr > 0
      [] OTHER -> FALSE

(* The room a write to fd finds.                                           *)
Room(fd) ==
    CASE fd = "client" -> SockCap - conn[mgr.client].s2c
      [] fd = "console" -> ConsoleCap - con.n
      [] fd \in {"stdin", "pty"} -> PipeCap - pin
      [] OTHER -> 0

(* Writes to fd fail: with EPIPE, or on a pty with EIO.                    *)
Broken(fd) ==
    CASE fd = "client" -> ~conn[mgr.client].rd
      [] fd = "console" -> ~con.open
      [] OTHER -> fd \notin ends

HungUp(fd) ==
    CASE fd = "server" -> FALSE
      [] fd = "client" -> ~conn[mgr.client].wr /\ ~conn[mgr.client].rd
      [] OTHER -> Broken(fd)

(* Level-triggered: what is true of an fd now and is asked for, or is HUP. *)
Ready(fd) ==
    {a \in epoll.mask[fd] : (a = "IN" /\ CanRead(fd)) \/ (a = "OUT" /\ Room(fd) > 0)}
        \cup (IF HungUp(fd) THEN {"HUP"} ELSE {})

ReadyFds ==
    {fd \in epoll.fds : Ready(fd) # {}} \cup (IF close_byte THEN {"close"} ELSE {})

--------------------------------------------------------------------------------
(* The worker.                                                             *)

(* What is left when the worker has returned or unwound: the manager and   *)
(* its descriptors are dropped, every connection with them.                *)
Dropped == [NewManager EXCEPT !.stdio = {}, !.console = FALSE]

CloseConn(c) == [c EXCEPT !.st = "closed", !.c2s = 0, !.s2c = 0, !.reset = FALSE]

Stop(how) ==
    /\ pc' = how
    /\ mgr' = Dropped
    /\ batch' = [fd \in Fd |-> {}]
    /\ cur' = "none"
    /\ final' = FALSE
    /\ done' = 0
    /\ epoll' = NoEpoll
    /\ backlog' = <<>>
    /\ conn' = [c \in Conns |-> IF conn[c].st \in {"backlog", "served"}
                                THEN CloseConn(conn[c]) ELSE conn[c]]
    /\ UNCHANGED <<child, con, close_byte, left>>

Pollable == IF con.pollable THEN Fd ELSE Fd \ {"console"}

(* apply_poll_updates on what m asks for; then the next epoll_wait.        *)
ApplyUpdates(m) ==
    IF UpdatesAccepted(m.fds, epoll, Pollable)
    THEN /\ epoll' = UpdatedEpoll(m.fds, epoll)
         /\ mgr' = [m EXCEPT !.fds = UpdatedFds(@)]
         /\ pc' = "wait"
         /\ UNCHANGED <<batch, cur, final, done, child, peers, close_byte, left>>
    ELSE Stop(IF pc = "new" THEN "err_new" ELSE "err_epoll")

(* Pollster::new                                                           *)
NewPollster == pc = "new" /\ ApplyUpdates(initialize(mgr))

(* epoll::wait: at most MaxFds of the fds that are ready, each with all    *)
(* that is true of it.  The close pipe only sets final_iteration.          *)
Wait ==
    /\ pc = "wait"
    /\ ReadyFds # {}
    /\ pc' = "dispatch"
    /\ \E fds \in SUBSET ReadyFds :
          /\ Cardinality(fds) = Least(MaxFds, Cardinality(ReadyFds))
          /\ batch' = [fd \in Fd |-> IF fd \in fds THEN Ready(fd) ELSE {}]
          /\ final' = ("close" \in fds)
    /\ UNCHANGED <<mgr, cur, done, epoll, child, peers, close_byte, left>>

(* The loop of run: the events in any order, and of one event IN before    *)
(* OUT before HUP.                                                         *)
Turn(fd, a) ==
    /\ pc = "dispatch"
    /\ cur \in {fd, "none"}
    /\ a \in batch[fd]
    /\ a = "OUT" => "IN" \notin batch[fd]
    /\ a = "HUP" => batch[fd] = {"HUP"}

(* The handler of a on fd returned, leaving the manager m.  Files m no     *)
(* longer has were closed, and so left the epoll instance.                 *)
ClosedFds(m) == (mgr.stdio \ m.stdio) \cup
                (IF HasClient(mgr) /\ ~HasClient(m) THEN {"client"} ELSE {})

Handled(fd, a, m) ==
    /\ m.fds.failed = "none"
    /\ mgr' = m
    /\ epoll' = Closed(epoll, ClosedFds(m))
    /\ batch' = [batch EXCEPT ![fd] = @ \ {a}]
    /\ cur' = IF batch[fd] = {a} THEN "none" ELSE fd
    /\ done' = 0
    /\ UNCHANGED <<pc, final, close_byte, left>>

(* A method of the PolledFdSet panicked: the thread unwinds, and what it   *)
(* had just read goes with it.                                             *)
Panicked(m) ==
    /\ m.fds.failed # "none"
    /\ Stop(CASE m.fds.failed = "modify" -> "panic_modify"
              [] m.fds.failed = "register" -> "panic_register"
              [] OTHER -> "panic_unregister")

(* Handled, or a failed assertion of the PolledFdSet.  kernel is what the  *)
(* call did to the streams.  (n is m; bound so, TLC evaluates it once.)    *)
Leave(fd, a, m, kernel) ==
    \E n \in {m} : (Handled(fd, a, n) /\ kernel) \/ Panicked(n)

(* The connections after the manager has become m: one it dropped is closed. *)
Conn(m, cs) ==
    [c \in Conns |-> IF c = mgr.client /\ c # m.client THEN CloseConn(cs[c]) ELSE cs[c]]

Accept ==
    /\ Turn("server", "IN")
    /\ backlog # <<>>
    /\ LET c == Head(backlog)
           m == accept(mgr, c)
       IN  Leave("server", "IN", m,
              /\ backlog' = Tail(backlog)
              /\ conn' = [conn EXCEPT ![c] = IF HasClient(mgr) THEN CloseConn(@)
                                             ELSE [@ EXCEPT !.st = "served"]]
              /\ UNCHANGED <<child, con>>)

(* The manager still has the channel fd.                                   *)
Open(fd) ==
    CASE fd = "client" -> HasClient(mgr)
      [] fd = "console" -> mgr.console
      [] fd = "server" -> TRUE
      [] OTHER -> fd \in mgr.stdio

(* What is left of an event whose channel an earlier part of it closed.    *)
Ignored(fd, a) ==
    /\ Turn(fd, a) /\ ~Open(fd)
    /\ Handled(fd, a, mgr)
    /\ UNCHANGED <<child, peers>>

ClientReadable ==
    /\ Turn("client", "IN") /\ Open("client")
    /\ IF ~client_socket_readable(mgr)
       THEN Stop("panic_readable")
       ELSE LET k == conn[mgr.client]
                r == channel_to_buffer(mgr.in_buffer, k.c2s, k.reset)
                m == client_read(mgr, r)
            IN  /\ k.c2s > 0 \/ ~k.wr
                /\ Leave("client", "IN", m,
                      /\ conn' = Conn(m, [conn EXCEPT ![mgr.client] =
                           [k EXCEPT !.c2s = @ - r.took, !.reset = @ /\ k.c2s > 0]])
                      /\ UNCHANGED <<child, con, backlog>>)

(* read_stdout of the pipe or of the pty, whose EIO is its end.            *)
OutputReadable(fd) ==
    /\ fd \in {"stdout", "pty"}
    /\ Turn(fd, "IN") /\ Open(fd)
    /\ pout > 0 \/ fd \notin ends
    /\ LET r == channel_to_buffer(mgr.out_buffer, pout, FALSE)
           m == output_read(mgr, fd, r)
       IN  Leave(fd, "IN", m, /\ pout' = pout - r.took
                              /\ UNCHANGED <<pin, perr, ends, peers>>)

(* read_stderr, which waits for the stdout pipe.                           *)
StderrReadable ==
    /\ "stderr" \in mgr.stdio /\ Turn("stderr", "IN")
    /\ LET r == read_stderr(mgr, pout)
           m == output_read(mgr, "stderr", r)
       IN  /\ "stdout" \in mgr.stdio => pout > 0 \/ "stdout" \notin ends
           /\ Leave("stderr", "IN", m, /\ pout' = pout - r.took
                                       /\ UNCHANGED <<pin, perr, ends, peers>>)

BufferOf(fd) == IF fd \in {"client", "console"} THEN mgr.out_buffer ELSE mgr.in_buffer

written(m, fd, w) ==
    CASE fd = "client" -> client_written(m, w)
      [] fd = "console" -> console_written(m, w)
      [] OTHER -> stdin_written(m, w)

(* fd takes k bytes.                                                       *)
Deliver(fd, k, m) ==
    /\ pin' = IF fd = stdin_fd(mgr) THEN pin + k ELSE pin
    /\ con' = IF fd = "console" THEN [con EXCEPT !.n = @ + k] ELSE con
    /\ conn' = Conn(m, IF fd = "client" THEN [conn EXCEPT ![mgr.client].s2c = @ + k] ELSE conn)
    /\ UNCHANGED <<pout, perr, ends, backlog>>

(* An on_writable that may write: the client's asserts client_writable.    *)
Writing(fd) ==
    /\ Turn(fd, "OUT") /\ Open(fd)
    /\ fd = "client" => client_socket_writable(mgr)

(* A write call that has handed on done bytes of its slice: with room it   *)
(* hands on more, and returns once it has handed on all of it, which is at *)
(* once when the buffer is empty.                                          *)
Writable(fd) ==
    /\ Writing(fd)
    /\ LET b == BufferOf(fd)
           k == Least(Room(fd), Readable(b) - done)
           n == done + k
       IN  \/ /\ ~Broken(fd) \/ Readable(b) = 0
              /\ n = Readable(b)
              /\ LET m == written(mgr, fd, buffer_to_channel(b, n, FALSE))
                 IN  Leave(fd, "OUT", m, Deliver(fd, k, m))
           \/ /\ ~Broken(fd)
              /\ k > 0 /\ n < Readable(b)
              /\ done' = n /\ cur' = fd
              /\ Deliver(fd, k, mgr)
              /\ UNCHANGED <<pc, mgr, batch, final, epoll, close_byte, left>>

(* The other end goes before all was written: a call that has handed on    *)
(* some returns that count, one that has not fails.  The console goes      *)
(* through Stdout, which may have taken more of the slice than it had      *)
(* written when its flush fails.                                           *)
WriteBroken(fd) ==
    /\ Writing(fd) /\ Broken(fd)
    /\ Readable(BufferOf(fd)) > 0
    /\ \E n \in IF fd = "console" THEN done .. Readable(BufferOf(fd)) ELSE {done} :
          LET failed == fd = "console" \/ (n = 0 /\ ~ignore_eio(fd))
              m == written(mgr, fd, buffer_to_channel(BufferOf(fd), n, failed))
          IN  Leave(fd, "OUT", m, Deliver(fd, 0, m))

ClientUnwritable ==
    /\ Turn("client", "OUT") /\ Open("client")
    /\ ~client_socket_writable(mgr)
    /\ Stop("panic_writable")

Hangup(fd) ==
    /\ Turn(fd, "HUP") /\ Open(fd)
    /\ LET m == on_hangup(mgr, fd)
       IN  Leave(fd, "HUP", m, conn' = Conn(m, conn) /\ UNCHANGED <<child, con, backlog>>)

(* A signal interrupts a call that waits.  A write that has handed on some *)
(* returns that count.  One that has not, or a read, returns EINTR, which  *)
(* channel_manager.rs takes for fatal, on the console too: its Stdout      *)
(* passes a slice that ends a line or exceeds its own buffer straight on.  *)
(* (Where it flushes what it had kept it tries again, which is no step.)   *)
Blocked(fd, a) ==
    \/ /\ a = "OUT" /\ Writing(fd) /\ ~Broken(fd)
       /\ Room(fd) = 0 /\ Readable(BufferOf(fd)) > done
    \/ /\ a = "IN" /\ Turn(fd, a) /\ fd \in {"stdout", "stderr"} /\ Open(fd)
       /\ Open("stdout") /\ pout = 0 /\ "stdout" \in ends

Interrupted(fd, a) ==
    /\ Blocked(fd, a)
    /\ IF a = "OUT" /\ done > 0
       THEN LET m == written(mgr, fd, buffer_to_channel(BufferOf(fd), done, FALSE))
            IN  Leave(fd, a, m, Deliver(fd, 0, m))
       ELSE Stop("err_io")

(* A variant that goes on after the final iteration.                       *)
EndBatchIgnoresFinal ==
    /\ pc = "dispatch"
    /\ batch = [fd \in Fd |-> {}]
    /\ ApplyUpdates(mgr)

(* After the batch: return, or tell epoll what changed.                    *)
EndBatch ==
    /\ pc = "dispatch"
    /\ batch = [fd \in Fd |-> {}]
    /\ IF final THEN Stop("done") ELSE ApplyUpdates(mgr)

Worker ==
    \/ NewPollster
    \/ Wait
    \/ Accept
    \/ ClientReadable
    \/ \E fd \in Fd : OutputReadable(fd)
    \/ StderrReadable
    \/ \E fd \in Fd : Writable(fd) \/ WriteBroken(fd) \/ Hangup(fd)
    \/ \E fd \in Fd, a \in Acts : Ignored(fd, a)
    \/ ClientUnwritable
    \/ EndBatch

--------------------------------------------------------------------------------
(* The child, the clients, the console's reader and the main thread        *)
(* (external).  What they do before Pollster::new, which looks at nothing  *)
(* of theirs, is as good as done right after it, and what they do once the *)
(* worker has ended is left out.                                           *)

World == pc \in {"wait", "dispatch"} /\ UNCHANGED <<worker, epoll>>

(* One of the closes the bound allows.                                     *)
Closing == left.closes > 0 /\ left' = [left EXCEPT !.closes = @ - 1]

ChildOut == IF UsePty THEN "pty" ELSE "stdout"
ChildIn  == IF UsePty THEN "pty" ELSE "stdin"

ChildWrite ==
    /\ World /\ ChildOut \in ends /\ pout < PipeCap /\ left.out > 0
    /\ pout' = pout + 1
    /\ left' = [left EXCEPT !.out = @ - 1]
    /\ UNCHANGED <<pin, perr, ends, peers, close_byte>>

ChildWriteErr ==
    /\ World /\ "stderr" \in ends /\ perr < PipeCap /\ left.err > 0
    /\ perr' = perr + 1
    /\ left' = [left EXCEPT !.err = @ - 1]
    /\ UNCHANGED <<pin, pout, ends, peers, close_byte>>

ChildRead ==
    /\ World /\ ChildIn \in ends /\ pin > 0
    /\ pin' = pin - 1
    /\ UNCHANGED <<pout, perr, ends, peers, close_byte, left>>

(* The child and its descendants have closed a pipe, or the pty.           *)
ChildClose(fd) ==
    /\ World /\ fd \in ends
    /\ ends' = ends \ {fd}
    /\ pin' = IF fd = ChildIn THEN 0 ELSE pin
    /\ Closing
    /\ UNCHANGED <<pout, perr, peers, close_byte>>

(* child.wait returned and main wrote the byte; descendants of the child   *)
(* may live on, with its pipes.                                            *)
NotifyClose ==
    /\ World /\ ~close_byte
    /\ close_byte' = TRUE
    /\ UNCHANGED <<child, peers, left>>

Connected(c) == conn[c].st \in {"backlog", "served"}

Connect(c) ==
    /\ World /\ conn[c].st = "idle"
    /\ conn' = [conn EXCEPT ![c].st = "backlog"]
    /\ backlog' = Append(backlog, c)
    /\ UNCHANGED <<child, con, close_byte, left>>

Send(c) ==
    /\ World /\ Connected(c) /\ conn[c].wr /\ conn[c].c2s < SockCap /\ left.in > 0
    /\ conn' = [conn EXCEPT ![c].c2s = @ + 1]
    /\ left' = [left EXCEPT !.in = @ - 1]
    /\ UNCHANGED <<child, con, backlog, close_byte>>

Shutdown(c, half) ==
    /\ World /\ Connected(c) /\ conn[c][half]
    /\ conn' = [conn EXCEPT ![c][half] = FALSE]
    /\ Closing
    /\ UNCHANGED <<child, con, backlog, close_byte>>

PeerClose(c) ==
    /\ World /\ Connected(c) /\ (conn[c].wr \/ conn[c].rd)
    /\ conn' = [conn EXCEPT ![c] = [@ EXCEPT !.wr = FALSE, !.rd = FALSE,
                                             !.s2c = 0, !.reset = conn[c].s2c > 0]]
    /\ Closing
    /\ UNCHANGED <<child, con, backlog, close_byte>>

PeerRead(c) ==
    /\ World /\ Connected(c) /\ conn[c].s2c > 0
    /\ conn' = [conn EXCEPT ![c].s2c = @ - 1]
    /\ UNCHANGED <<child, con, backlog, close_byte, left>>

ConsoleRead ==
    /\ World /\ con.n > 0
    /\ con' = [con EXCEPT !.n = @ - 1]
    /\ UNCHANGED <<child, conn, backlog, close_byte, left>>

ConsoleClose ==
    /\ World /\ con.open
    /\ con' = [con EXCEPT !.open = FALSE, !.n = 0]
    /\ Closing
    /\ UNCHANGED <<child, conn, backlog, close_byte>>

Environment ==
    \/ ChildWrite \/ ChildWriteErr \/ ChildRead
    \/ \E fd \in ChildFds : ChildClose(fd)
    \/ NotifyClose
    \/ \E c \in Conns : Connect(c) \/ Send(c) \/ PeerClose(c) \/ PeerRead(c)
    \/ \E c \in Conns, half \in {"wr", "rd"} : Shutdown(c, half)
    \/ ConsoleRead \/ ConsoleClose

--------------------------------------------------------------------------------
Init ==
    /\ pc = "new"
    /\ mgr = NewManager
    /\ batch = [fd \in Fd |-> {}]
    /\ cur = "none"
    /\ final = FALSE
    /\ done = 0
    /\ epoll = NoEpoll
    /\ pin = 0 /\ pout = 0 /\ perr = 0
    /\ ends = ChildFds
    /\ con \in [n : {0}, open : {TRUE}, pollable : BOOLEAN]
    /\ conn = [c \in Conns |-> [st |-> "idle", c2s |-> 0, s2c |-> 0, wr |-> TRUE,
                                rd |-> TRUE, reset |-> FALSE]]
    /\ backlog = <<>>
    /\ close_byte = FALSE
    /\ left = [out |-> OutBytes, err |-> ErrBytes, in |-> InBytes, closes |-> Closes]

Next == Worker \/ Environment \/ \E fd \in Fd, a \in Acts : Interrupted(fd, a)

Spec == Init /\ [][Next]_vars

--------------------------------------------------------------------------------
(* Properties.                                                             *)

(* Every part of the worker and of what it talks to has its type.          *)
TypeOK ==
    /\ pc \in Running \cup Ended
    /\ mgr \in Manager
    /\ mgr.fds.failed = "none"
    /\ batch \in [Fd -> SUBSET Acts]
    /\ cur \in Fd \cup {"none"}
    /\ final \in BOOLEAN
    /\ done \in 0 .. Capacity
    /\ epoll \in Epolls
    /\ pin \in 0 .. PipeCap /\ pout \in 0 .. PipeCap /\ perr \in 0 .. PipeCap
    /\ ends \subseteq ChildFds
    /\ con \in [n : 0 .. ConsoleCap, open : BOOLEAN, pollable : BOOLEAN]
    /\ conn \in [Conns -> Connection]
    /\ backlog \in Seq(Conns)
    /\ close_byte \in BOOLEAN
    /\ left \in [out : 0 .. OutBytes, err : 0 .. ErrBytes, in : 0 .. InBytes,
                closes : 0 .. Closes]

(* While the worker waits, the PolledFdSet is what the kernel's epoll      *)
(* instance is, and both are exactly the channels the manager still has:   *)
(* no batch of hangups, accepts and assertions leaves a closed fd polled,  *)
(* an open one forgotten, or a change unapplied (polled_fd.rs:159-185).    *)
InterestInSync ==
    pc = "wait" =>
        /\ mgr.fds.existing = epoll.fds
        /\ mgr.fds.event = epoll.mask
        /\ mgr.fds.new_events = epoll.mask
        /\ mgr.fds.new = {} /\ mgr.fds.removed = {}
        /\ epoll.fds = {fd \in Fd : Open(fd)}

(* Output in the buffer is never stranded: whenever the worker goes to     *)
(* wait with bytes for the primary output channel, it is polling that      *)
(* channel, through every handover between client and console (the NOTE    *)
(* at io.rs:252-255).                                                      *)
OutputWakeup ==
    (pc = "wait" /\ WritableSize(mgr.out_buffer) > 0 /\ PrimaryOutput(mgr) # "none") =>
        "OUT" \in epoll.mask[PrimaryOutput(mgr)]

(* Input in the buffer is never stranded: the worker polls the child's     *)
(* stdin whenever it waits with bytes for it, also after the client that   *)
(* sent them is gone (io.rs:344-349, 451-460).                             *)
InputWakeup ==
    (pc = "wait" /\ WritableSize(mgr.in_buffer) > 0 /\ stdin_fd(mgr) # "none") =>
        "OUT" \in epoll.mask[stdin_fd(mgr)]

(* The console is not polled while a client is the primary output channel: *)
(* no wakeup loop on a channel nobody writes to (io.rs:309-314).           *)
ConsoleQuiet ==
    (pc = "wait" /\ HasClient(mgr)) => "OUT" \notin epoll.mask["console"]

(* The assertions on registration and unregistration (polled_fd.rs:83-97,  *)
(* 130, 146), the one that a client read from is readable (io.rs:325), and *)
(* every epoll_ctl of a batch hold, whatever the order of its events.      *)
AssertionsHold ==
    pc \notin {"panic_register", "panic_unregister", "panic_readable", "err_epoll"}

(* A client loses its halves one at a time and never gets one back; the    *)
(* second loss ends its connection instead (io.rs:330-339, 421-429).       *)
AvailabilityDegrades ==
    [][(HasClient(mgr) /\ mgr'.client = mgr.client)
         => mgr.availability \in {"ReadWrite", mgr'.availability}]_vars

(* The loop this module is, as the generic Pollster sees it.               *)
Loop == INSTANCE Pollster WITH
    pc   <- CASE pc \in Running -> pc
              [] pc = "done" -> "ok"
              [] pc \in {"err_new", "err_io", "err_epoll"} -> "err"
              [] OTHER -> "panic",
    fds  <- mgr.fds,
    open <- IF pc \in Running THEN {fd \in Fd : Open(fd)} \cup {"console"} ELSE {},
    mine <- IF pc \in Running THEN {fd \in Fd : Open(fd)} ELSE {},
    cur  <- {cur} \ {"none"}

(* Over this manager the loop is a Pollster: no handler closes an fd other *)
(* than its own or opens one after closing it, which is what keeps events  *)
(* of a batch from reaching a new file with an old number, and run returns *)
(* Ok only for the close byte (io.rs:278-505, pollster.rs:73-114).         *)
ImplementsPollster == Loop!Spec

--------------------------------------------------------------------------------
(* Liveness.                                                               *)

(* The worker's steps are those of a running thread, and the others keep   *)
(* reading what they are sent unless they close it.  No fairness between   *)
(* fds is assumed: with a pty there are never more than MaxFds ready, so   *)
(* every wait reports them all.                                            *)
WorkerFairness == WF_vars(Worker)

(* While anyone has something to read, someone reads; with the bytes       *)
(* bounded that is as good as fairness to each.                            *)
ReaderFairness == WF_vars(ConsoleRead \/ ChildRead \/ \E c \in Conns : PeerRead(c))

LiveSpec == Spec /\ WorkerFairness /\ ReaderFairness

(* Once the main thread has written the close byte the worker returns (or  *)
(* has died), whatever is still ready, so that join in main.rs returns.    *)
CloseEndsWorker == close_byte ~> pc \in Ended

(* The client the manager holds has closed both its halves.                *)
ClientDead ==
    HasClient(mgr) /\ ~conn[mgr.client].rd /\ ~conn[mgr.client].wr

(* A client that has closed both halves, in whatever order and however the *)
(* worker learns of it, does not keep the only client slot (io.rs:466-482, *)
(* 330-333, 421-423).                                                      *)
DeadClientReleased == ClientDead ~> ~ClientDead

(* Every client that connects, as each does once, is served or turned away *)
(* (io.rs:296-316): none is left waiting in the backlog.                   *)
BacklogAnswered == (backlog # <<>>) ~> (backlog = <<>>)

(* The child is never blocked on a full pipe for good: its output is read, *)
(* drained or discarded even when both pages are full, nobody is left to   *)
(* send it to, or the worker has to wait first for the child to take its   *)
(* input (buffer.rs:43-46, 151-165, io.rs:357-396).                        *)
ChildUnblocked ==
    (pout = PipeCap /\ ChildOut \in ends)
        ~> (pout < PipeCap \/ ChildOut \notin ends \/ pc \in Ended)

--------------------------------------------------------------------------------
(* What comments, assertions and documents of the repository say and the   *)
(* code does not do.                                                       *)

(* polled_fd.rs:111 asserts that an fd passed to modify is registered and  *)
(* processed.                                                              *)
ModifyAssertionHolds == pc # "panic_modify"

(* io.rs:417 asserts that a client that is written to is writable.         *)
WritableAssertionHolds == pc # "panic_writable"

(* io.rs:53: stderr is written into the buffer, so bytes the child wrote   *)
(* to it do not stay in their pipe.                                        *)
StderrRead ==
    (perr > 0 /\ "stderr" \in mgr.stdio) ~> (perr = 0 \/ "stderr" \notin mgr.stdio)

(* io.rs:239-243: the out_buffer is discarded only when there is neither a *)
(* console nor a writable client.                                          *)
DiscardOnlyWithoutOutput ==
    [][\A fd \in Fd :
         ("IN" \in batch[fd] /\ "IN" \notin batch'[fd] /\ pc' = "dispatch"
            /\ has_output_channel(mgr))
         => WritableSize(mgr'.out_buffer) >= WritableSize(mgr.out_buffer)]_vars

(* pollster.rs:430-433: unread data is read before a hangup closes the fd. *)
ReadBeforeHangup ==
    [][(ChildOut \in mgr.stdio /\ ChildOut \notin mgr'.stdio /\ pc' = "dispatch")
         => pout = 0]_vars
================================================================================
