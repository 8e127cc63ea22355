# iosock in TLA+

iosock connects the standard streams of a child process to a Unix domain socket. This
directory specifies its two threads, the worker that moves bytes between the child, a
client and the console, and `main`, which starts the child, passes signals on and cleans
up, and checks them with TLC and TLAPS. Paths such as `io.rs` are files of the
repository's own `src/` directory; `PROJECT.json` maps every definition that models code
to the lines it models.

## The system

| part | state it keeps | operations | talks to |
|---|---|---|---|
| `FlipBuffer` (`buffer.rs`) | two pages, `read_cursor`, `read_max`, `write_cursor` | `read_from`, `read_or_drain`, `write_to`, `discard`, `writable_size` | the stream it is handed; its `BufferStateChange` drives write polling |
| `PolledFdSet` (`polled_fd.rs`) | `existing`, `new`, `removed`; per fd the events epoll has and those wanted | `register`, `modify`, `unregister`, `unregister_closed`, `apply_updates` | filled by the channel manager, emptied by the pollster |
| `Pollster` (`pollster.rs`) | epoll fd, close fd, event array, the set | `new`, `apply_poll_updates`, `run` | calls the channel manager for each event |
| `IOSockChannelManager` (`io.rs`, `channel_manager.rs`) | the client and its availability, the console, the child's stdio, `in_buffer`, `out_buffer` | `initialize`, `on_readable`, `on_writable`, `on_hangup` | all streams, the set |
| `ChildPipes`, `ChildPty` (`io.rs`), `PtyFile` (`pty.rs`) | which of the child's streams are open | `read_stdout`, `read_stderr`, `write_stdin`, `hangup` | the child |
| `Pty` (`pty.rs`) | the master, the window size | `open`, `spawn` with its `pre_exec` closure | the kernel, the child before `exec` |
| `main` (`main.rs`), `die` (`lib.rs`) | listener, close pipe, child, worker | bind, spawn, wait, close byte, join, remove the socket, exit | the worker through the close pipe and `join` |
| signal handlers (`signals.rs`) | `CHILD_PID` | `kill_child_on_signal`, `on_terminate_signal` | the child |

What is hard: epoll hands over a *batch* of events that were true before the
first handler ran, and handlers change what the rest of the batch is about;
changes of interest reach epoll only after the batch. The output has two
possible destinations that take over from one another. A client can close
its two halves separately, and iosock learns of it by EOF, `EPIPE` or a
hangup. Every descriptor blocks. Fd numbers and pids are used again. Signals come
between any two calls, and every call of `main` can fail with a child, a thread and
a socket file already there. Each of these is a hazard in `PROJECT.json`
with the properties that watch it.

What makes each part correct: the buffer is a FIFO queue that reports exactly
when it becomes empty and non-empty; the set and the epoll instance agree
whenever the worker waits; no byte is pending without a wakeup for the channel it
must leave by; a lost client frees its slot; the worker ends when the child has;
the child does not outlive iosock, and iosock exits with the child's status only
when nothing is left behind.

## Modules

| module | contents |
|---|---|
| `ByteQueue` | abstract: a FIFO queue with the results and change reports a `FlipBuffer` gives |
| `FlipBuffer` | `buffer.rs` with pages and cursors; one action per outcome of each method; refines `ByteQueue` |
| `BufferCounts` | the same control on two numbers, the bytes left in the read page and those in the write page |
| `PolledFds` | `polled_fd.rs` as operators on a set, and the epoll instance it is applied to |
| `ChannelManager` | `io.rs` and `channel_manager.rs` as operators from manager to manager |
| `IOSock` | the worker thread, the kernel's side of its descriptors, the child, clients, console, main thread |
| `Pollster` | `pollster.rs` over any channel manager, with fd numbers that are handed out again |
| `WorkerThread` | abstract: what `main` relies on of the thread it joins |
| `Lifecycle` | `main.rs`, `pty.rs` up to `exec`, `signals.rs`, `die`; the child as a process, signals, the socket file |
| `MCFlipBuffer`, `MCPollster` | instances TLC checks (those of `IOSock` and `Lifecycle` are cfg files only) |
| `FlipBufferProofs`, `PollsterProofs`, `LifecycleProofs`, `IOSockProofs` | theorems about the module they are named after, with proofs |
| `IOSockRefinement` | the proof that `IOSock` implements `Pollster` |
| `PolledFdsProofs`, `ChannelManagerProofs` | lemmas about the operators the loops are made of |

`IOSock` extends `ChannelManager`, which extends `BufferCounts` and `PolledFds`.
`FlipBuffer` instantiates `ByteQueue` (the refinement) and `BufferCounts` (to show that
the counts are a sound stand-in for the buffer). `IOSock` is shown to implement
`Pollster` (`ImplementsPollster`), `Pollster` to implement `WorkerThread`
(`RunsAsThread`), and `Lifecycle` uses the actions of `WorkerThread` for its worker:
what is checked of `main` holds with the real worker in that place. A definition that
keeps the name of a Rust function models that function. Operators described as "a
variant" are plausible bugs: `PROJECT.json` lists, for every checked property, one that
breaks it. They are used nowhere else.

### State and steps of IOSock

`mgr` is the `IOSockChannelManager` with its `PolledFdSet` in `mgr.fds`; `batch`
holds what is still to be dispatched of the last `epoll_wait`, `cur` the event
being worked on, `final` is `final_iteration`. `pc` says where `run` is, or how
the thread ended: `done` is `Ok`, `err_*` an `io::Error`, `panic_*` a failed
assertion. A step of the worker is one handler call; a handler that waits in a
`read` is not enabled until there is something to read; a `write` with too little
room is split, and `done` counts what the call has handed on. Handlers are whole:
`ClientReadable`, say, includes the modification of the set, a nested
`on_hangup`, and the closing of the connection. `EndBatch` is the end of the loop
body.

External, from how the code uses it: readiness (`CanRead`, `Room`, `Broken`, `HungUp`,
`Ready`), `epoll_ctl`'s refusals, the streams, and the processes at their other ends.
Facts of Linux that matter and are modelled: HUP and ERR are reported unasked; closing a
file takes it out of epoll; a regular file or `/dev/null` as stdout cannot be polled
(`EPERM`), so that `Pollster::new` fails; closing a socket with unread bytes makes the
peer's next read fail with `ECONNRESET`; a signal interrupts a waiting call (a write to
the console too: what `LineWriter` hands on it writes once); a write to a pty whose
slave is closed fails with `EIO`, which is what `PtyFile::ignore_eio` is for (the event
that it is writable is still reported, which is what the test at `pollster.rs:917-918`
sees; it writes nothing after the hangup). HUP stands for HUP or ERR, which `run` treats
alike.

File descriptors are named by role, so that a number the kernel uses again is the
same name only for `client`. That this is sound is what `Pollster` and
`ImplementsPollster` show: there fds are numbers, and a new file never meets an event
of an old one.

A panic ends the worker's behaviour in `IOSock`. In a debug build the thread unwinds
and `join` returns the panic; a release is built with `panic = "abort"`
(`Cargo.toml:8`) and the whole process ends. `Lifecycle` has both.

What the other processes do before `Pollster::new`, which looks at none of it, is
as good as done right after. Once the worker has ended, nothing more happens.

### Pollster

The loop with nothing known of the manager but what a handler may do: close the file it
was called for (`CloseFd`), leave it to others (`LeaveFd`), open one, which gets any free
number (`OpenFd`), or none of these (`KeepFds`); and in each case modify fds it has, or
fail. `mine` are the files the manager has as its channels. It decides by these and never
looks at the set, as `io.rs` does not, so that the assertions of the set are evaluated
on calls that nothing in the model makes legal: `Register` of the number of a file just
opened, `Unregister` of a file it has. A failed one is the ending `assert`, and
`CallsAccepted` says that there is none. `Modify` of a file opened in the same batch does
fail (`panic`), as it does in the code (`says_modify`). `Enter` is a handler waiting
inside a call.

The rule that a handler drops no file but its own, and having dropped it opens nothing, is
not in the code (the tests' `BlockingChannelManager` registers, modifies and unregisters
what it is told); without it `NoStaleEvent` fails, since the rest of the event would
reach the new file. It is a rule for whoever writes a manager, and `ImplementsPollster`
shows that `io.rs` keeps to it.

### Lifecycle

`todo` is the sequence of calls `main` still has to make, `Program` all of them in order.
A call that fails is `die` (255) or a panic; `ending` and `code` say how iosock
ended. `child.st` walks through the closure given to `pre_exec` (`setsid`, `open`,
three `dup2`, each but the first retried on `EINTR`) to `running`, and after its end from
`zombie` to `reaped`. `CHILD_PID` and each `sigaction` are steps of their own, so that a
signal can come between them. Besides the three signals that get the handler there is
`SIGQUIT`, which stands for all that end a process by default and never get one
(`SIGUSR1`, `SIGALRM`, ...). `hit` collects what the handler's `kill` reached. Chosen
at the start and left open: `--pty`; whether iosock inherited an ignored `SIGCHLD`
(then the kernel reaps the child and `wait` fails, the 255 of `main.rs:130-133`);
whether it is process 1, which the default action of a signal does not end; whether
it aborts on a panic; whether there is a file at the socket path, such as a failed run
leaves. The operator may remove that file and another iosock may bind the path.

## Runs

Passing (TLC checks every behaviour of the instance):

| run | instance | shows |
|---|---|---|
| `flip` | two 3-byte pages, bytes 0 and 1 | `ImplementsQueue` (refinement of `ByteQueue`), `ArmedIffPending`, `CountsAgree`, `TypeOK` |
| `pipes` | pipes, one client, pages and kernel buffers of one byte | `InterestInSync`, `OutputWakeup`, `InputWakeup`, `AssertionsHold`, `AvailabilityDegrades` |
| `clients` | pty, two clients, pages of two bytes, one close, fairness | `InterestInSync`, `ConsoleQuiet`, `AssertionsHold`, `ImplementsPollster` (refinement), `BacklogAnswered` |
| `pty` | pty, one client, pages of two bytes, five bytes of output and two of input, fairness | `TypeOK`, `OutputWakeup`, `InputWakeup`, `ChildUnblocked` |
| `live` | pty, one client, pages of two bytes, two closes, fairness | `OutputWakeup`, `InputWakeup`, `CloseEndsWorker`, `DeadClientReleased`, `ChildUnblocked` |
| `pollster` | three fd numbers, two events per `epoll_wait` | `TypeOK`, `CallsAccepted`, `InSync`, `NeverRefused`, `NoStaleEvent`, `RunsAsThread` (refinement) |
| `lifecycle` | two exit codes, two signals of four kinds, fairness | `TypeOK`, `NoOrphan`, `KillsOwnChild`, `CleanExit`, `ChildOnPty`, `SignalEndsRun`, `ExitEndsRun` |

Two of those deserve a word. `InterestInSync` relates four pieces of state (the
set, its cached events, the epoll instance, the manager's channels) after every
batch. `OutputWakeup` is the NOTE at `io.rs:252-255` as an invariant; it
goes wrong only after a sequence such as: the console is slow, a client takes over,
the child writes, the client leaves.

Some properties of `lifecycle` are exact about what the code does *not* give.
`NoOrphan` starts with the last `sigaction`: before it a signal or a failing
`thread::spawn` leaves the child running. After it an abort does, and so does a signal
without a handler. `SignalEndsRun` leaves out a
signal that process 1 gets before the handlers are there: it is lost, so that a
`podman stop` at that moment shuts nothing down (`README.md:67-68` says it will).
`KillsOwnChild` allows the kill of a stranger between `wait` and exit, when the child's
pid is free. `CleanExit` says when the socket file is certainly gone; after any failure
it stays, and the next run cannot bind.

Violations (TLC finds what a comment, an assertion or the README says to be
false of the code; `PROJECT.json` quotes each):

| run | claim | what happens |
|---|---|---|
| `says_modify` | `modify` only meets processed fds | a client accepted and child output read in one batch: the worker panics |
| `says_writable` | a client that is written to is writable | after `EPIPE` the code stops polling for reads, not writes: the next event panics |
| `says_stderr` | `read_stderr` reads stderr | it reads `self.stdout`, and waits there |
| `says_discard` | output is discarded only without an output channel | input for a child without stdin discards output |
| `says_hangup` | unread data is read before the hangup | one read, then the fd is closed |

Met while modelling and not kept as runs: "terminates the given process when *this*
process receives a non-KILL termination signal" (`signals.rs:45-46`) holds for `SIGHUP`,
`SIGTERM` and `SIGINT` only, and `NoOrphan` has to except the other signals that end a
process; the `&& client_readable` at `io.rs:456` leaves the child's stdin polled with an
empty buffer once the client's sending half is gone, and `epoll_wait` then returns at
once for as long as the pipe has room, against `buffer.rs:39-41`; the worker and a
`cat`-like child can wait in writes to each other for ever, against `buffer.rs:43-46`
(`ChildUnblocked` holds for a child that keeps reading); the pty's master has no
`O_CLOEXEC` and stays open in the child (`pty.rs:42`); `remove_file` removes whatever is
at the path by then; the comment `pollster.rs:10` counts five targets where there are
seven with pipes and a client (the console and the close pipe are not counted); a
console event dispatched after an accept of its batch still writes to the console, and
leaves the client polled with an empty buffer.

### Bounds

`Capacity`, `PipeCap`, `SockCap`, `ConsoleCap` and `DrainSize` are scaled down to 1 or
2, and bytes are bounded by `OutBytes`, `ErrBytes`, `InBytes`, ends closed by the others
by `Closes`. Every branch of the code asks whether a count is 0, equal to `Capacity`, or
which of two is smaller. With pages of one byte a buffer is already empty, in one page,
in two pages, and full; with two there are partly filled pages, reads of two bytes and
writes that wait or that a signal cuts short. Five bytes of output (`pty`) are what it
takes to fill both pages and find one more to drain, and two of input to have the worker
wait in a write to a child that is itself waiting in one. Two closes are what it takes
for a client to lose both halves one by one (`pipes`, `live`), or for a client and the
console to go. Two connections are what it takes for a rejected and a replaced client
(`clients`; there one close, since a replaced client is one that closed its connection
at once); connections are used once, and a third adds only another rejected one. The
theorems on safety hold for any number of both. `MaxFds` is the 5 of the code. No run
with a liveness property uses symmetry, which is unsound for it. `pollster` has three fd
numbers, so that one is reused while events of two others are dispatched, and reports
two of up to four targets at a time, so that some are left out; it uses symmetry on the
numbers and checks no liveness. In `lifecycle`, `MaxSignals` of 2 is what it takes for a
second signal to meet a child that was already sent a `SIGTERM`, or was reaped since;
everything else in it is finite. Deadlock is not checked for `IOSock`, `Pollster` and
`Lifecycle`: thread and process end.

### Fairness

`LiveSpec` of `IOSock` assumes weak fairness of the worker (a running thread) and of the
readers: while the child, the console's reader or a client has something to read, one
of them reads, which with a bounded number of bytes is to say that each does. That
clients read is needed: the worker writes to clients with blocking
calls, and one that stops reading and stays connected keeps the worker in the
call for ever. Then the close byte is never seen, `CloseEndsWorker` fails, and
iosock outlives the child, against "iosock itself exits when the child process
does" (`README.md:63`). No fairness between descriptors is assumed: with a pty there are
five targets, and every `epoll_wait` has room for all that are ready. With pipes
there are seven, and the kernel's round robin would have to be added.

`LiveSpec` of `Lifecycle` assumes that `main` runs and that a child which is sent a
`SIGTERM` ends (one that ignores it keeps iosock waiting, as it should). Nothing is assumed
of the worker: a worker that returns once it is told to is a hypothesis of the two liveness
properties (`WorkerReturns => ...`), as it is not always so. `CloseEndsWorker` is that
hypothesis, under the fairness above; a client that stops reading breaks it, and with it
`README.md:63`. No fairness is assumed of the child otherwise: `ExitEndsRun` and
`SignalEndsRun` start from its end or from a signal.

## Proofs

Every safety property that a passing run checks, invariant, action property or
refinement, is also a theorem: the run has it for one small instance, the theorem for
all values of the constants.

### FlipBuffer

For every `Capacity` in `Nat \ {0}` and every set `Byte` that has `Zero` in it:

- `TypeCorrect`: `Spec => []TypeOK`. `TypeOK` has one conjunct beyond types,
  `read_cursor <= read_max`, and is inductive with it; without it `Advance`
  could leave the page. Lemmas give each method's effect on a well-formed buffer.
- `ArmedCorrect`: `Spec => []ArmedIffPending`. The property and `TypeOK` are
  inductive together: a call's report is right only because the cursors are in
  order.
- `Refinement`: `Spec => ImplementsQueue`. The mapping is `Contents`: the unread
  part of the read page, then the filled part of the write page. A flip keeps
  `Contents` because it happens only with the read page used up; `Store`
  appends to it, `Advance` drops a prefix, `discard` drops a suffix; one step per
  action shows it to be the corresponding step of `ByteQueue`.
- `CountsCorrect`: `Spec => []CountsAgree`, a consequence of `TypeOK` alone.

### Pollster

For every set `Fd` and every `MaxFds` in `Nat \ {0}`: `TypeCorrect`,
`CallsCorrect` (`CallsAccepted`),
`SyncCorrect` (`InSync`), `UpdatesCorrect` (`NeverRefused`), `EventsCorrect`
(`NoStaleEvent`) and `ThreadCorrect` (`RunsAsThread`, the refinement of `WorkerThread`).

`InSync` speaks of the loop at `epoll_wait` and is not inductive: handlers change the
set and close files under the instance, and epoll hears of it later. What holds all
the time is `InStep` (in `PolledFdsProofs`): the instance has what is `existing` and
what was `removed`, `new` is disjoint from both, all of them are open, and the cached
events are the instance's. Each operation of the set keeps `InStep`; `apply_updates` of
a set that is in step is accepted and leaves it `Settled`. For `NoStaleEvent`
the invariant also says that an event is pending only for an fd that is open
or is `cur`, the one whose handler has just closed it. For `CallsAccepted` it says that
a file which has an event pending and is still the manager's is `existing`; that a new
file is not is in `InStep` already. `ReturnedInv` puts the cases of a handler together.

### IOSock

For pipes and pty, every number of connections, and all sizes of the pages, pipes,
sockets, console and batches and all bounds on the environment (`SizeAssumption`:
they are natural numbers, the sizes not 0): `TypeCorrect`, `InterestCorrect`
(`InterestInSync`), `OutputCorrect` (`OutputWakeup`), `InputCorrect` (`InputWakeup`),
`ConsoleCorrect` (`ConsoleQuiet`), `AssertionsCorrect` (`AssertionsHold`),
`AvailabilityCorrect` (`AvailabilityDegrades`), and in `IOSockRefinement`
`PollsterCorrect` (`ImplementsPollster`).

The argument has three layers.

- `ChannelManagerProofs` is about one handler. `Good(m, ep)` is what a manager is
  like between two handlers: its set is in step with the instance and holds exactly its
  channels (only a client can be new, only the console removed); pending
  output and input have write polling *asked for*, applied or not; with a client the
  console is not asked for, and a client that has sent its last is not read. The
  lemmas show of every handler that from a `Good` manager it either fails the assertion
  of `modify` or `Answers`: the result is `Good` for the instance without the files
  it closed, it kept its channels, took on a client, closed its own fd or left the
  console, and a client that stays lost at most one of two halves (`Degrades`).
- `IOSockProofs` is about the batch. `Inv` adds to `Good` what the worker relies on
  when it uses what `epoll_wait` said some handlers ago: `Pending` (an event left
  in the batch is for an fd of the set, or for `cur`, just dropped; reads of the client
  only while it may be read) and `InCall` (a write in progress has not handed on more
  than its slice). Every action of a batch is shown to be one of four (`Dispatched`: a
  handler that answered, an event that is ignored, a write that waits, a failure); the
  invariant, the action property and the refinement are proved of those. At `epoll_wait`
  `Good` and `Settled` give the properties. `Inv` was checked by TLC on the instances
  of `pipes`, `clients` and `pty` before it was proved.
- `IOSockRefinement` maps each of the four to a `Handler`, an `Enter` or a `Failure` of
  `Pollster`: `Answers` names what the handler did about files. `Wait` needs that there are
  finitely many fds, to count the batch with the close pipe.

The failed assertions of `modify` and `on_writable` are not excluded, as they
happen (`says_modify`, `says_writable`); the theorems hold with them, and
`AssertionsCorrect` says that they are the only two.

### Lifecycle

For every set `Codes` of numbers up to 255 and every `MaxSignals` in `Nat`:
`TypeCorrect`, `OrphanCorrect` (`NoOrphan`), `KillCorrect` (`KillsOwnChild`),
`ExitCorrect` (`CleanExit`) and `ChildCorrect` (`ChildOnPty`).

The invariant relates what is left in `todo` to what has come about. `Rank` is the
number of calls left before each call, so that "main has made this call" is a
comparison of lengths (`Made`). `Progress` says what each call made has established
(handlers are there only after `CHILD_PID`, the child is reaped by `wait` or by the kernel
when `SIGCHLD` is ignored, `join` found `ok`), `Stages` how far the child has come
in `pre_exec`, `Struck` what the handler has hit. `KillsOwnChild` needs the order of the
calls: a handler that ran before `CHILD_PID` is set would signal the whole group.

### Only model-checked

Liveness (`CloseEndsWorker`, `DeadClientReleased`, `BacklogAnswered`,
`ChildUnblocked`, `SignalEndsRun`, `ExitEndsRun`): fairness and `ENABLED` are out of the
prover's reach. The violations, which are counterexamples. Nothing else.

What the theorems rest on besides the models: that the counts of `BufferCounts` stand
for the buffer is itself a theorem (`CountsCorrect`), stated of `FlipBuffer` and not
composed with `IOSock`.

## Not modelled

- The line discipline of the pty (echo, `^D`), which is the kernel's, and the numbers of
  the window size (`set_rows`, `set_columns`).
- `exit_after_timeout` and `on_exit_alarm` in `signals.rs`, which iosock does not call.
- What the child's descendants do: they may hold its streams (`IOSock` lets them), and
  as process 1 iosock does not reap them.
- `accept` failing, and fatal errors other than `EINTR`: they end the worker where
  they happen, as `EINTR` does.
- The build files and the stress tests.

## Plan

Done: the buffer, `PolledFds`, `ChannelManager`, `IOSock`, `Pollster`, `WorkerThread` and
`Lifecycle`, their runs, the refinements between them, and the proofs of all their
safety properties. Left:

1. What the theorems say together: that `IOSock` runs as a `WorkerThread`, from
   `PollsterCorrect` and `ThreadCorrect`, and that no client gets an event of the one
   before it, from `EventsCorrect`.
2. The hazards of `PROJECT.json` that have a note in place of a property.
