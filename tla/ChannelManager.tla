---------------------------- MODULE ChannelManager ----------------------------
(***************************************************************************)
(* The IOSockChannelManager of src/src/io.rs, with ChildPipes or ChildPty  *)
(* behind it and the helpers of channel_manager.rs: one record, and one    *)
(* operator per part of initialize, on_readable, on_writable and on_hangup *)
(* that takes the record to the record the handler leaves behind.  The     *)
(* system calls a handler makes are in module IOSock; here their result is *)
(* a parameter.                                                            *)
(***************************************************************************)
EXTENDS BufferCounts, PolledFds

CONSTANTS
    UsePty,      \* --pty: the child is on a ChildPty instead of ChildPipes
    Conns,       \* the connections clients may make
    NoConn,      \* no connection
    DrainSize    \* the 8192 bytes read_or_drain reads at once

ChildFds == IF UsePty THEN {"pty"} ELSE {"stdin", "stdout", "stderr"}

ASSUME FdAssumption == Fd = ChildFds \cup {"server", "client", "console"}
ASSUME ModeAssumption == UsePty \in BOOLEAN
ASSUME ConnAssumption == NoConn \notin Conns
ASSUME DrainAssumption == DrainSize \in Nat \ {0}

Manager ==
    [client : Conns \cup {NoConn}, availability : {"ReadWrite", "ReadOnly", "WriteOnly"},
     stdio : SUBSET ChildFds, console : BOOLEAN,
     in_buffer : Counts, out_buffer : Counts, fds : FdSets]

NewManager ==
    [client |-> NoConn, availability |-> "ReadWrite", stdio |-> ChildFds,
     console |-> TRUE, in_buffer |-> NoBytes, out_buffer |-> NoBytes,
     fds |-> EmptyFdSet]

(* initialize of ChildPipes and of ChildPty                                *)
PipesRegistered(fs) ==
    Register(Register(Register(fs, "stdin", {}), "stdout", {"IN"}), "stderr", {"IN"})

(* A variant that polls the pty for writes.                                *)
PtyRegisteredForWrite(fs) == Register(fs, "pty", {"OUT"})

PtyRegistered(fs) == Register(fs, "pty", {"IN"})

StdioRegistered(fs) == IF UsePty THEN PtyRegistered(fs) ELSE PipesRegistered(fs)

(* A variant that does not poll the server socket.                         *)
InitializeServerUnpolled(m) ==
    [m EXCEPT !.fds = Register(Register(StdioRegistered(@), "server", {}), "console", {})]

initialize(m) ==
    [m EXCEPT !.fds = Register(Register(StdioRegistered(@), "server", {"IN"}), "console", {})]

Least(a, b) == IF a <= b THEN a ELSE b

--------------------------------------------------------------------------------
(* IOSockChannelManager: its questions.                                    *)

HasClient(m) == m.client # NoConn

client_socket_readable(m) == HasClient(m) /\ m.availability # "WriteOnly"

client_socket_writable(m) == HasClient(m) /\ m.availability # "ReadOnly"

has_output_channel(m) == m.console \/ client_socket_writable(m)

pipes_stdin_fd(m) == IF "stdin" \in m.stdio THEN "stdin" ELSE "none"

pty_stdin_fd(m) == IF "pty" \in m.stdio THEN "pty" ELSE "none"

stdin_fd(m) == IF UsePty THEN pty_stdin_fd(m) ELSE pipes_stdin_fd(m)

PrimaryOutput(m) ==
    IF HasClient(m) THEN "client" ELSE IF m.console THEN "console" ELSE "none"

Poll(m, fd, e, on) == [m EXCEPT !.fds = Modify(@, fd, e, on)]

--------------------------------------------------------------------------------
(* channel_to_buffer and buffer_to_channel.                                *)

(* A variant that reads into a full page.                                  *)
ReadsIntoFullPage(b, n, reset) ==
    LET k == Least(n, Capacity)
    IN  [buf |-> AfterRead(b, k), took |-> k,
         should_close |-> n = 0, change |-> ReadChange(b, k)]

(* Reading a stream that holds n bytes (none: it is at its end, or reset)  *)
(* into buffer b, or draining it: what the buffer becomes, the bytes taken *)
(* and the pair the caller gets.                                           *)
channel_to_buffer(b, n, reset) ==
    IF Space(b) = 0
    THEN [buf |-> b, took |-> Least(n, DrainSize),
          should_close |-> n = 0 /\ reset, change |-> "None"]
    ELSE LET k == Least(n, Space(b))
         IN  [buf |-> AfterRead(b, k), took |-> k,
              should_close |-> n = 0, change |-> ReadChange(b, k)]

(* A write of buffer b that handed on n bytes; EPIPE, or EIO of a pty, is  *)
(* failed.  Handing on nothing closes the channel, but an empty buffer     *)
(* does not even try.                                                      *)
buffer_to_channel(b, n, failed) ==
    IF Readable(b) = 0
    THEN [buf |-> b, should_close |-> FALSE, change |-> "None"]
    ELSE [buf |-> AfterWrite(b, n), should_close |-> failed \/ n = 0,
          change |-> WriteChange(b, n)]

(* read_stderr of ChildPipes, which reads the stdout pipe and its n bytes, *)
(* and without that pipe does nothing.                                     *)
read_stderr(m, n) ==
    IF "stdout" \in m.stdio THEN channel_to_buffer(m.out_buffer, n, FALSE)
    ELSE [buf |-> m.out_buffer, took |-> 0, should_close |-> FALSE, change |-> "None"]

(* PtyFile: its EIO is a count of 0 and no error.                          *)
ignore_eio(fd) == fd = "pty"

--------------------------------------------------------------------------------
(* IOSockChannelManager: its handlers.  Each one takes the manager to the  *)
(* manager it leaves behind.                                               *)

(* A variant that closes a child's pipe and leaves it in the PolledFdSet.  *)
HangupStaysRegistered(m, fd) == [m EXCEPT !.stdio = @ \ {fd}]

(* ChildPipes::hangup, of the pipe fd, and ChildPty::hangup                *)
pipes_hangup(m, fd) ==
    [m EXCEPT !.fds = UnregisterClosed(@, fd), !.stdio = @ \ {fd}]

pty_hangup(m) == [m EXCEPT !.fds = UnregisterClosed(@, "pty"), !.stdio = {}]

hangup(m, fd) == IF UsePty THEN pty_hangup(m) ELSE pipes_hangup(m, fd)

(* A variant in which nobody takes over the output the client leaves.      *)
ClientGoneNoFallback(m) ==
    [m EXCEPT !.fds = UnregisterClosed(@, "client"), !.client = NoConn,
              !.availability = "ReadWrite"]

(* on_hangup of the client: the console takes over what is pending.        *)
ClientGone(m) ==
    LET gone == [m EXCEPT !.fds = UnregisterClosed(@, "client"),
                          !.client = NoConn, !.availability = "ReadWrite"]
    IN  IF WritableSize(m.out_buffer) > 0 /\ m.console
        THEN Poll(gone, "console", "OUT", TRUE) ELSE gone

(* A variant that forgets the console and leaves it registered.            *)
ConsoleStaysRegistered(m) == [m EXCEPT !.console = FALSE]

(* on_hangup of the console, whose fd stays open.                          *)
ConsoleGone(m) == [m EXCEPT !.fds = Unregister(@, "console"), !.console = FALSE]

(* A variant that overlooks the client.                                    *)
HangupKeepsClient(m, fd) ==
    CASE fd \in m.stdio -> hangup(m, fd)
      [] fd = "console" /\ m.console -> ConsoleGone(m)
      [] OTHER -> m

on_hangup(m, fd) ==
    CASE fd = "client" /\ HasClient(m) -> ClientGone(m)
      [] fd \in m.stdio -> hangup(m, fd)
      [] fd = "console" /\ m.console -> ConsoleGone(m)
      [] OTHER -> m

(* The manager with c registered for its first events.                     *)
Promoted(m, c, events) ==
    [m EXCEPT !.client = c, !.availability = "ReadWrite",
              !.fds = Register(@, "client", events)]

FirstEvents(m) == IF WritableSize(m.out_buffer) > 0 THEN {"IN", "OUT"} ELSE {"IN"}

(* Variants: the console stays polled when a client takes over; the client *)
(* is not polled for the output pending; a second client replaces the      *)
(* first, or is taken on beside it.                                        *)
AcceptKeepsConsole(m, c) ==
    IF HasClient(m) THEN m ELSE Promoted(m, c, FirstEvents(m))

AcceptUnpromoted(m, c) ==
    CASE HasClient(m) -> m
      [] ~HasClient(m) /\ m.console -> Poll(Promoted(m, c, {"IN"}), "console", "OUT", FALSE)
      [] OTHER -> Promoted(m, c, {"IN"})

AcceptReplaces(m, c) ==
    IF HasClient(m) THEN Promoted(ClientGone(m), c, FirstEvents(m))
    ELSE Promoted(m, c, FirstEvents(m))

AcceptSecond(m, c) ==
    IF m.console THEN Poll(Promoted(m, c, FirstEvents(m)), "console", "OUT", FALSE)
    ELSE Promoted(m, c, FirstEvents(m))

(* on_readable of the server socket that accepted c; a second client is    *)
(* dropped.                                                                *)
accept(m, c) ==
    CASE HasClient(m) -> m
      [] ~HasClient(m) /\ m.console ->
           Poll(Promoted(m, c, FirstEvents(m)), "console", "OUT", FALSE)
      [] OTHER -> Promoted(m, c, FirstEvents(m))

(* A variant that keeps polling a client whose sending half is closed.     *)
EofStaysPolled(m, r) ==
    LET n == [m EXCEPT !.in_buffer = r.buf]
    IN  CASE r.should_close /\ m.availability = "ReadOnly" -> on_hangup(n, "client")
          [] r.should_close -> [n EXCEPT !.availability = "WriteOnly"]
          [] OTHER -> n

(* A variant that does not ask for the child's stdin to become writable.   *)
InputUnannounced(m, r) ==
    LET n == [m EXCEPT !.in_buffer = r.buf]
    IN  CASE r.should_close /\ m.availability = "ReadOnly" -> on_hangup(n, "client")
          [] r.should_close -> [Poll(n, "client", "IN", FALSE) EXCEPT !.availability = "WriteOnly"]
          [] OTHER -> n

(* on_readable of the client, after channel_to_buffer returned r.  Input   *)
(* for a child without stdin discards the out_buffer, as the code does.    *)
client_read(m, r) ==
    LET n == [m EXCEPT !.in_buffer = r.buf]
    IN  CASE r.should_close /\ m.availability = "ReadOnly" -> on_hangup(n, "client")
          [] r.should_close /\ m.availability # "ReadOnly" ->
               [Poll(n, "client", "IN", FALSE) EXCEPT !.availability = "WriteOnly"]
          [] ~r.should_close /\ stdin_fd(m) = "none" ->
               [n EXCEPT !.out_buffer = AfterDiscard(@)]
          [] ~r.should_close /\ stdin_fd(m) # "none" /\ r.change = "BecameNonEmpty" ->
               Poll(n, stdin_fd(m), "OUT", TRUE)
          [] OTHER -> n

(* on_readable of the child's stdout, stderr or pty, likewise.             *)
output_read(m, fd, r) ==
    LET n == [m EXCEPT !.out_buffer = r.buf]
        no_output == IF r.change = "BecameNonEmpty"
                     THEN PrimaryOutput(m) = "none" ELSE ~has_output_channel(m)
    IN  CASE r.should_close -> on_hangup(n, fd)
          [] ~r.should_close /\ no_output -> [n EXCEPT !.out_buffer = AfterDiscard(@)]
          [] ~r.should_close /\ ~no_output /\ r.change = "BecameNonEmpty" ->
               Poll(n, PrimaryOutput(m), "OUT", TRUE)
          [] OTHER -> n

(* A variant that forgets the client had closed its sending half before.   *)
EpipeForgetsWriteOnly(m, w) ==
    LET n == [m EXCEPT !.out_buffer = w.buf]
    IN  CASE w.should_close ->
               [Poll(n, "client", "IN", FALSE) EXCEPT !.availability = "ReadOnly"]
          [] ~w.should_close /\ w.change = "BecameEmpty" -> Poll(n, "client", "OUT", FALSE)
          [] OTHER -> n

(* on_writable of the client, after buffer_to_channel returned w.  On a    *)
(* broken pipe the code stops polling for reads, not for writes.           *)
client_written(m, w) ==
    LET n == [m EXCEPT !.out_buffer = w.buf]
    IN  CASE w.should_close /\ m.availability = "WriteOnly" -> on_hangup(n, "client")
          [] w.should_close /\ m.availability # "WriteOnly" ->
               [Poll(n, "client", "IN", FALSE) EXCEPT !.availability = "ReadOnly"]
          [] ~w.should_close /\ w.change = "BecameEmpty" -> Poll(n, "client", "OUT", FALSE)
          [] OTHER -> n

(* on_writable of the console.                                             *)
console_written(m, w) ==
    LET n == [m EXCEPT !.out_buffer = w.buf]
    IN  CASE w.should_close -> on_hangup(n, "console")
          [] ~w.should_close /\ w.change = "BecameEmpty" -> Poll(n, "console", "OUT", FALSE)
          [] OTHER -> n

(* A variant that stops polling after any write.                           *)
StopsAfterAnyWrite(m, w) ==
    LET n == [m EXCEPT !.in_buffer = w.buf]
    IN  CASE w.should_close -> on_hangup(n, stdin_fd(m))
          [] ~w.should_close /\ client_socket_readable(m) -> Poll(n, stdin_fd(m), "OUT", FALSE)
          [] OTHER -> n

(* on_writable of the child's stdin or pty.                                *)
stdin_written(m, w) ==
    LET n == [m EXCEPT !.in_buffer = w.buf]
    IN  CASE w.should_close -> on_hangup(n, stdin_fd(m))
          [] ~w.should_close /\ w.change = "BecameEmpty" /\ client_socket_readable(m) ->
               Poll(n, stdin_fd(m), "OUT", FALSE)
          [] OTHER -> n
================================================================================
