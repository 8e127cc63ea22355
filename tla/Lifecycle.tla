------------------------------- MODULE Lifecycle -------------------------------
(***************************************************************************)
(* One run of iosock from its first line to its exit: main.rs, the pty     *)
(* setup of pty.rs, signals.rs and die, with the child they start, the     *)
(* signals iosock gets and the socket file.  The worker thread is what     *)
(* WorkerThread says of it.                                                *)
(*                                                                         *)
(* main is the sequence of calls it has still to make.  Any of them may    *)
(* fail, and signals come between any two.  A run may find the socket file *)
(* of an earlier one, which stands for what crashes and failures of that   *)
(* run have left.                                                          *)
(***************************************************************************)
EXTENDS Integers, Sequences

CONSTANTS
    Codes,        \* the exit codes the program may have
    MaxSignals    \* bound: the signals sent to iosock, kill -9 apart

ASSUME CodeAssumption == Codes \subseteq 0 .. 255
ASSUME SignalAssumption == MaxSignals \in Nat

VARIABLES
    todo,         \* the calls main has still to make; none when iosock is gone
    ending,       \* how it ended: see Endings
    code,         \* its exit code
    use_pty,      \* --pty
    ignored,      \* iosock was started with SIGCHLD ignored
    pid1,         \* iosock is process 1 of a container
    aborts,       \* it was built to abort on a panic, as a release is
    file,         \* what is at the socket path
    pty,          \* the calls made on the pty
    child,        \* the child process: see Children
    worker,       \* the worker thread: "none", or the state of a WorkerThread
    close_byte,   \* the close pipe has a byte in it
    child_pid,    \* CHILD_PID: "0" or "child"
    handled,      \* the signals that have the handler
    signals,      \* the signals sent so far
    hit           \* what the kill of the handler has reached

vars == <<todo, ending, code, use_pty, ignored, pid1, aborts, file, pty, child, worker,
          close_byte, child_pid, handled, signals, hit>>

thread  == <<worker, close_byte>>
handler == <<child_pid, handled, signals, hit>>
setting == <<use_pty, ignored, pid1, aborts>>

Endings == {"none", "status", "die", "panic", "abort", "signal", "SIGQUIT", "SIGKILL"}

(* The signals signals.rs installs its handler for, and the others that    *)
(* end a process by default, SIGUSR1, SIGALRM and the like: SIGQUIT stands *)
(* for them all.                                                           *)
Sigs     == {"SIGHUP", "SIGTERM", "SIGINT"}
Defaults == {"SIGQUIT"}

(* The child: where it is (see PreExec), what it has as fds 0 to 2,        *)
(* whether it leads a session, has the pty as its controlling terminal and *)
(* still has the fd the pty was opened with, and whether iosock has sent   *)
(* it a SIGTERM.                                                           *)
Children ==
    [st : {"none", "setsid", "open", "dup0", "dup1", "dup2", "exec", "failed",
           "running", "zombie", "reaped"},
     fds : [0 .. 2 -> {"none", "pipe", "null", "slave"}], leader : BOOLEAN,
     ctty : BOOLEAN, slave_fd : BOOLEAN, termed : BOOLEAN,
     status : Codes \cup {-1}]   \* -1: a signal

Alive(c) == c.st \notin {"none", "zombie", "reaped"}

NoChild ==
    [st |-> "none", fds |-> [f \in 0 .. 2 |-> "none"], leader |-> FALSE,
     ctty |-> FALSE, slave_fd |-> FALSE, termed |-> FALSE, status |-> -1]

--------------------------------------------------------------------------------
(* The order of main.                                                      *)

(* Pty::open, and what Pty::spawn does before it forks                     *)
PtyOpen      == <<"openpt", "grantpt", "unlockpt">>
PtyConfigure == <<"winsize", "tcgetattr", "tcsetattr", "ptsname">>

(* A variant of kill_child_on_signal that sets the pid last.               *)
PidLast == <<"SIGHUP", "SIGTERM", "SIGINT", "pid">>

kill_child_on_signal == <<"pid", "SIGHUP", "SIGTERM", "SIGINT">>

Program(on_pty) ==
    <<"args", "bind", "pipe">>
        \o (IF on_pty THEN PtyOpen \o PtyConfigure ELSE <<>>)
        \o <<"fork", "spawned", "thread">>
        \o kill_child_on_signal
        \o <<"wait", "notify", "join", "remove_file", "exit">>

At(call) == todo # <<>> /\ Head(todo) = call

Advance == todo' = Tail(todo) /\ UNCHANGED <<ending, code>>

(* The process is gone, with its threads.                                  *)
Gone(how, c) == todo' = <<>> /\ ending' = how /\ code' = c

die == Gone("die", 255)

(* A panic of main.                                                        *)
Panic == IF aborts THEN Gone("abort", 0) ELSE Gone("panic", 101)

(* A call that fails ends iosock; one that does not goes on.               *)
OrDie(effect) == (Advance /\ effect) \/ (die /\ UNCHANGED <<file, pty, child, handled>>)

--------------------------------------------------------------------------------
(* The steps of main.                                                      *)

Args ==
    /\ At("args")
    /\ Advance \/ die    \* usage
    /\ UNCHANGED <<setting, file, pty, child, thread, handler>>

(* bind creates the file, and fails when there is one.                     *)
Bind ==
    /\ At("bind")
    /\ OrDie(file = "absent" /\ file' = "mine" /\ UNCHANGED <<pty, child, handled>>)
    /\ UNCHANGED <<setting, thread, child_pid, signals, hit>>

MakePipe ==
    /\ At("pipe")
    /\ Advance \/ die
    /\ UNCHANGED <<setting, file, pty, child, thread, handler>>

PtyCall ==
    /\ \E call \in {"openpt", "grantpt", "unlockpt", "winsize", "tcgetattr",
                    "tcsetattr", "ptsname"} :
          /\ At(call)
          /\ OrDie(pty' = pty \cup {call} /\ UNCHANGED <<file, child, handled>>)
    /\ UNCHANGED <<setting, thread, child_pid, signals, hit>>

(* The fork of Command::spawn; the child sets up fds 0 to 2 first.         *)
Fork ==
    /\ At("fork")
    /\ OrDie(/\ child' = [NoChild EXCEPT
                     !.st = IF use_pty THEN "setsid" ELSE "exec",
                     !.fds = [f \in 0 .. 2 |-> IF use_pty THEN "null" ELSE "pipe"]]
             /\ UNCHANGED <<file, pty, handled>>)
    /\ UNCHANGED <<setting, thread, child_pid, signals, hit>>

(* The rest of Command::spawn: it returns once the child has become the    *)
(* program or is dead.  A child that could not is waited for, and iosock   *)
(* dies; with SIGCHLD ignored that wait fails, which is a panic.           *)
Spawned ==
    /\ At("spawned")
    /\ \/ /\ child.st \in {"running", "zombie", "reaped"}
          /\ Advance
          /\ UNCHANGED child
       \/ /\ child.st = "failed"
          /\ child' = [child EXCEPT !.st = "reaped"]
          /\ IF ignored THEN Panic ELSE die
    /\ UNCHANGED <<setting, file, pty, thread, handler>>

(* thread::spawn, which panics when there can be no thread                 *)
StartWorker ==
    /\ At("thread")
    /\ \/ Advance /\ worker' = "run"
       \/ Panic /\ UNCHANGED worker
    /\ UNCHANGED <<setting, file, pty, child, close_byte, handler>>

SetPid ==
    /\ At("pid")
    /\ Advance
    /\ child_pid' = "child"
    /\ UNCHANGED <<setting, file, pty, child, thread, handled, signals, hit>>

Sigaction ==
    /\ \E s \in Sigs :
          /\ At(s)
          /\ OrDie(handled' = handled \cup {s} /\ UNCHANGED <<file, pty, child>>)
    /\ UNCHANGED <<setting, thread, child_pid, signals, hit>>

(* A variant that stops waiting when the worker has ended.                 *)
WaitForEither ==
    /\ At("wait")
    /\ child.st \in {"zombie", "reaped"} \/ worker \in {"err", "panic"}
    /\ child' = IF child.st = "zombie" THEN [child EXCEPT !.st = "reaped"] ELSE child
    /\ Advance
    /\ UNCHANGED <<setting, file, pty, thread, handler>>

(* child.wait, which tries again after a signal.  With SIGCHLD ignored the *)
(* kernel has reaped the child, and wait fails.                            *)
Wait ==
    /\ At("wait")
    /\ child.st \in {"zombie", "reaped"}
    /\ child' = [child EXCEPT !.st = "reaped"]
    /\ Advance
    /\ UNCHANGED <<setting, file, pty, thread, handler>>

Thread == INSTANCE WorkerThread WITH state <- worker

(* A variant that forgets to tell the worker.                              *)
NotifyForgotten ==
    /\ At("notify")
    /\ Advance
    /\ UNCHANGED <<setting, file, pty, child, thread, handler>>

(* The close byte; a worker that has ended has closed the pipe, and the    *)
(* failure is only reported.                                               *)
Notify ==
    /\ At("notify")
    /\ IF worker = "run" THEN Thread!Notify ELSE UNCHANGED thread
    /\ Advance
    /\ UNCHANGED <<setting, file, pty, child, handler>>

(* A variant that takes any end of the worker for a good one.              *)
JoinAny ==
    /\ At("join") /\ worker # "run"
    /\ Advance
    /\ UNCHANGED <<setting, file, pty, child, thread, handler>>

Join ==
    /\ At("join") /\ worker # "run"
    /\ IF worker = "ok" THEN Advance ELSE die
    /\ UNCHANGED <<setting, file, pty, child, thread, handler>>

(* Whatever is at the path is removed.                                     *)
RemoveFile ==
    /\ At("remove_file")
    /\ OrDie(file # "absent" /\ file' = "absent" /\ UNCHANGED <<pty, child, handled>>)
    /\ UNCHANGED <<setting, thread, child_pid, signals, hit>>

(* A variant that passes on the status of a child a signal ended.          *)
ExitRaw == child.status

(* The code of the last match: the child's, 254 for a signal, 255 for a    *)
(* wait that failed.                                                       *)
ExitCode ==
    CASE ignored -> 255
      [] ~ignored /\ child.status = -1 -> 254
      [] OTHER -> child.status

Exit ==
    /\ At("exit")
    /\ Gone("status", ExitCode)
    /\ UNCHANGED <<setting, file, pty, child, thread, handler>>

Main ==
    \/ Args \/ Bind \/ MakePipe \/ PtyCall \/ Fork \/ Spawned \/ StartWorker
    \/ SetPid \/ Sigaction \/ Wait \/ Notify \/ Join \/ RemoveFile \/ Exit

--------------------------------------------------------------------------------
(* The child between fork and exec: the closure Pty::spawn gives pre_exec. *)

others == <<todo, ending, code, setting, file, pty, thread, handler>>

(* A variant of retry_interrupted that takes EINTR for success.            *)
EintrIsDone(result) == IF result \in {"ok", "EINTR"} THEN "returns" ELSE "fails"

(* retry_interrupted of a call: what it makes of the call's result.        *)
retry_interrupted(result) ==
    CASE result = "ok" -> "returns"
      [] result = "EINTR" -> "again"
      [] OTHER -> "fails"

(* The child in its step st makes a call, which takes it to after; an      *)
(* error goes to the parent and ends the child.                            *)
ChildCall(st, result, after) ==
    /\ child.st = st
    /\ child' = CASE retry_interrupted(result) = "returns" -> after
                  [] retry_interrupted(result) = "again" -> child
                  [] OTHER -> [child EXCEPT !.st = "failed"]
    /\ UNCHANGED others

Setsid ==
    \E result \in {"ok", "EPERM"} :
       ChildCall("setsid", result, [child EXCEPT !.st = "open", !.leader = TRUE])

(* Opening the slave of a pty that is locked fails; without O_NOCTTY it    *)
(* becomes the terminal of a session leader.                               *)
OpenSlave ==
    \E result \in IF {"grantpt", "unlockpt", "ptsname"} \subseteq pty
                  THEN {"ok", "EINTR", "EIO"} ELSE {"EIO"} :
       ChildCall("open", result,
                 [child EXCEPT !.st = "dup0", !.ctty = child.leader /\ result = "ok",
                               !.slave_fd = (result = "ok")])

(* The slave on fd f; after the last one the closure returns and drops     *)
(* slave_fd.                                                               *)
Dup(f, st, after) ==
    \E result \in {"ok", "EINTR", "EBUSY"} :
       ChildCall(st, result,
                 [child EXCEPT !.st = after,
                               !.fds[f] = IF result = "ok" THEN "slave" ELSE @,
                               !.slave_fd = after # "exec"])

Exec ==
    \E result \in {"ok", "ENOENT"} :
       ChildCall("exec", result, [child EXCEPT !.st = "running"])

PreExec ==
    \/ Setsid \/ OpenSlave
    \/ Dup(0, "dup0", "dup1") \/ Dup(1, "dup1", "dup2") \/ Dup(2, "dup2", "exec")
    \/ Exec

--------------------------------------------------------------------------------
(* The worker, and the others (external).                                  *)

(* A panic of the worker is its Result, or the end of the process.         *)
WorkerEnds ==
    /\ todo # <<>>
    /\ Thread!Return \/ Thread!Fail
    /\ IF aborts /\ worker' = "panic" THEN Gone("abort", 0) ELSE UNCHANGED <<todo, ending, code>>
    /\ UNCHANGED <<setting, file, pty, child, handler>>

(* The child exits, or a signal ends it.                                   *)
ChildEnds(status) ==
    /\ Alive(child) /\ child.st # "failed"
    /\ status # -1 => child.st = "running"
    /\ child' = [child EXCEPT !.st = IF ignored THEN "reaped" ELSE "zombie",
                              !.status = status]
    /\ UNCHANGED others

(* What kill(CHILD_PID) reaches.  The pid of a child that was reaped may   *)
(* be someone else's by then.                                              *)
Targets ==
    CASE child_pid = "0" -> {"group"}
      [] child_pid = "child" /\ child.st = "reaped" -> {"stranger", "nobody"}
      [] OTHER -> {"child"}

(* A variant that overlooks the first signal.                              *)
KillUnlessSent ==
    /\ hit' = hit \cup {"child"}
    /\ child' = IF child.st = "running" /\ signals > 0
               THEN [child EXCEPT !.termed = TRUE] ELSE child

(* on_terminate_signal                                                     *)
on_terminate_signal ==
    \E target \in Targets :
       /\ hit' = hit \cup {target}
       /\ child' = IF target = "child" THEN [child EXCEPT !.termed = TRUE] ELSE child

(* A signal: the handler, or the default action, which process 1 is spared. *)
Signal(s) ==
    /\ todo # <<>> /\ signals < MaxSignals
    /\ signals' = signals + 1
    /\ \/ s \in handled /\ on_terminate_signal /\ UNCHANGED <<todo, ending, code>>
       \/ /\ s \notin handled /\ ~pid1
          /\ Gone(IF s \in Sigs THEN "signal" ELSE "SIGQUIT", 0)
          /\ UNCHANGED <<child, hit>>
       \/ s \notin handled /\ pid1 /\ UNCHANGED <<todo, ending, code, child, hit>>
    /\ UNCHANGED <<setting, file, pty, thread, child_pid, handled>>

(* kill -9                                                                 *)
Killed ==
    /\ todo # <<>>
    /\ Gone("SIGKILL", 0)
    /\ UNCHANGED <<setting, file, pty, child, thread, handler>>

(* Someone removes the socket file, or another iosock binds the path.      *)
Operator ==
    /\ file' \in IF file = "absent" THEN {"other"} ELSE {"absent"}
    /\ UNCHANGED <<todo, ending, code, setting, pty, child, thread, handler>>

Environment ==
    \/ WorkerEnds
    \/ \E status \in Codes \cup {-1} : ChildEnds(status)
    \/ \E s \in Sigs \cup Defaults : Signal(s)
    \/ Killed
    \/ Operator

--------------------------------------------------------------------------------
Init ==
    /\ use_pty \in BOOLEAN /\ ignored \in BOOLEAN /\ pid1 \in BOOLEAN /\ aborts \in BOOLEAN
    /\ todo = Program(use_pty)
    /\ ending = "none" /\ code = 0
    /\ file \in {"absent", "other"}
    /\ pty = {}
    /\ child = NoChild
    /\ worker = "none" /\ close_byte = FALSE
    /\ child_pid = "0" /\ handled = {} /\ signals = 0 /\ hit = {}

Next == Main \/ PreExec \/ Environment

Spec == Init /\ [][Next]_vars

--------------------------------------------------------------------------------
(* Properties.                                                             *)

(* Every variable has its type; a code is one a process can exit with.     *)
TypeOK ==
    /\ use_pty \in BOOLEAN /\ ignored \in BOOLEAN /\ pid1 \in BOOLEAN /\ aborts \in BOOLEAN
    /\ \E n \in 0 .. Len(Program(use_pty)) :
          todo = SubSeq(Program(use_pty), n + 1, Len(Program(use_pty)))
    /\ ending \in Endings /\ code \in 0 .. 255
    /\ file \in {"absent", "mine", "other"}
    /\ \A call \in pty : \E i \in 1 .. 7 : (PtyOpen \o PtyConfigure)[i] = call
    /\ child \in Children
    /\ worker \in {"none", "run", "ok", "err", "panic"} /\ close_byte \in BOOLEAN
    /\ child_pid \in {"0", "child"} /\ handled \subseteq Sigs
    /\ signals \in 0 .. MaxSignals
    /\ hit \subseteq {"child", "group", "stranger", "nobody"}

(* Once the handlers are installed no failure of the worker, no failing    *)
(* call of main and none of the three signals that have the handler ends   *)
(* iosock before its child (main.rs:112-124).  Three ways to leave it      *)
(* behind remain: kill -9, a panic that aborts, and the signals that have  *)
(* no handler, of which signals.rs:45-46 says the same as of the others.   *)
NoOrphan ==
    (todo = <<>> /\ Alive(child) /\ handled = Sigs)
        => ending \in {"SIGKILL", "SIGQUIT", "abort"}

(* The handler never signals iosock's own process group, as kill(0) would  *)
(* (signals.rs:10, 17, 48), and another process only after child.wait has  *)
(* returned, or with SIGCHLD ignored the child was reaped without it.      *)
KillsOwnChild ==
    /\ "group" \notin hit
    /\ "stranger" \in hit => ignored \/ \A i \in DOMAIN todo : todo[i] # "wait"

(* iosock exits with a status of the child only when all went well: the    *)
(* child was waited for, the worker returned Ok, the socket file is gone   *)
(* so that the next run can bind, and the code is the child's              *)
(* (main.rs:115-134).                                                      *)
CleanExit ==
    ending = "status" =>
        /\ worker = "ok" /\ close_byte
        /\ child.st = "reaped"
        /\ file # "mine"
        /\ child.status # -1 /\ ~ignored => code = child.status
        /\ child.status = -1 => code \in {254, 255}

(* A program on a pty has all three streams on the slave and no other fd   *)
(* of it, leads a session whose terminal it is, and finds the window size  *)
(* and the output flags set, however often calls of the setup were         *)
(* interrupted (pty.rs:196-235).                                           *)
ChildOnPty ==
    (use_pty /\ child.st = "running") =>
        /\ \A f \in 0 .. 2 : child.fds[f] = "slave"
        /\ child.leader /\ child.ctty /\ ~child.slave_fd
        /\ {"winsize", "tcsetattr"} \subseteq pty

--------------------------------------------------------------------------------
(* Liveness.                                                               *)

(* main runs, and a child that is sent a SIGTERM ends.                     *)
LiveSpec ==
    /\ Spec
    /\ WF_vars(Main)
    /\ WF_vars(child.termed /\ \E status \in Codes \cup {-1} : ChildEnds(status))

(* The worker ends once it has been sent the close byte.  Module IOSock    *)
(* shows when it does (CloseEndsWorker): as long as whoever it writes to   *)
(* reads.  A client that stops reading can keep it in a write for ever.    *)
WorkerReturns == (close_byte /\ worker = "run") ~> (worker # "run" \/ todo = <<>>)

(* A signal ends iosock: by default, or through the child's death, the     *)
(* close byte and the join (signals.rs:17, main.rs:115-134, README.md:     *)
(* 63-65), if the worker returns when it is told to.  Only as process 1 it *)
(* is lost where there is no handler.                                      *)
SignalEndsRun ==
    WorkerReturns => (((signals > 0 /\ ~pid1) \/ hit # {}) ~> (todo = <<>>))

(* The end of the child ends iosock, if the worker returns when it is told *)
(* to: main always tells it, and a worker that has failed, or fails before *)
(* it reads the byte, does not keep main waiting (main.rs:115-124).        *)
ExitEndsRun ==
    WorkerReturns => ((child.st \in {"zombie", "reaped"}) ~> (todo = <<>>))
================================================================================
