---------------------------- MODULE LifecycleProofs ----------------------------
(***************************************************************************)
(* Proofs about Lifecycle, for every set of exit codes, any number of      *)
(* signals, and both modes of main.                                        *)
(***************************************************************************)
EXTENDS Lifecycle, SequenceTheorems, TLAPS

--------------------------------------------------------------------------------
(* Where main is.                                                          *)

PtyCalls == {"openpt", "grantpt", "unlockpt", "winsize", "tcgetattr", "tcsetattr",
             "ptsname"}

Calls == {"args", "bind", "pipe"} \cup PtyCalls \cup Sigs \cup
         {"fork", "spawned", "thread", "pid", "wait", "notify", "join", "remove_file",
          "exit"}

(* How many calls main has to make when it is about to make this one.      *)
Rank(call, on) ==
    CASE call = "exit" -> 1        [] call = "remove_file" -> 2
      [] call = "join" -> 3        [] call = "notify" -> 4
      [] call = "wait" -> 5        [] call = "SIGINT" -> 6
      [] call = "SIGTERM" -> 7     [] call = "SIGHUP" -> 8
      [] call = "pid" -> 9         [] call = "thread" -> 10
      [] call = "spawned" -> 11    [] call = "fork" -> 12
      [] call = "ptsname" -> 13    [] call = "tcsetattr" -> 14
      [] call = "tcgetattr" -> 15  [] call = "winsize" -> 16
      [] call = "unlockpt" -> 17   [] call = "grantpt" -> 18
      [] call = "openpt" -> 19
      [] call = "pipe" -> IF on THEN 20 ELSE 13
      [] call = "bind" -> IF on THEN 21 ELSE 14
      [] call = "args" -> IF on THEN 22 ELSE 15
      [] OTHER -> 0

(* t is what is left of the program of this mode.                          *)
Suffix(t, on) ==
    \E n \in 0 .. Len(Program(on)) : t = SubSeq(Program(on), n + 1, Len(Program(on)))

(* The calls of main on a pty: their number and their ranks.               *)
LEMMA PtyProgram ==
    /\ Len(Program(TRUE)) = 22
    /\ \A j \in 1 .. 22 : Rank(Program(TRUE)[j], TRUE) = 23 - j
<1> DEFINE p == Program(TRUE)
<1>1. Len(p) = 22
  BY DEF Program, kill_child_on_signal, PtyOpen, PtyConfigure
<1>2. /\ p[1] = "args" /\ p[2] = "bind" /\ p[3] = "pipe" /\ p[4] = "openpt"
      /\ p[5] = "grantpt" /\ p[6] = "unlockpt" /\ p[7] = "winsize"
      /\ p[8] = "tcgetattr" /\ p[9] = "tcsetattr" /\ p[10] = "ptsname"
      /\ p[11] = "fork" /\ p[12] = "spawned" /\ p[13] = "thread"
      /\ p[14] = "pid" /\ p[15] = "SIGHUP" /\ p[16] = "SIGTERM"
      /\ p[17] = "SIGINT" /\ p[18] = "wait" /\ p[19] = "notify"
      /\ p[20] = "join" /\ p[21] = "remove_file" /\ p[22] = "exit"
  BY DEF Program, kill_child_on_signal, PtyOpen, PtyConfigure
<1> HIDE DEF p
<1>3. ASSUME NEW j \in 1 .. 22
      PROVE  \/ j = 1 \/ j = 2 \/ j = 3 \/ j = 4 \/ j = 5 \/ j = 6 \/ j = 7
             \/ j = 8 \/ j = 9 \/ j = 10 \/ j = 11 \/ j = 12 \/ j = 13
             \/ j = 14 \/ j = 15 \/ j = 16 \/ j = 17 \/ j = 18 \/ j = 19
             \/ j = 20 \/ j = 21 \/ j = 22
  OBVIOUS
<1> DEFINE r(j) == Rank(p[j], TRUE)
<1>4. /\ r(1) = 22 /\ r(2) = 21 /\ r(3) = 20 /\ r(4) = 19 /\ r(5) = 18
      /\ r(6) = 17 /\ r(7) = 16 /\ r(8) = 15 /\ r(9) = 14 /\ r(10) = 13
      /\ r(11) = 12 /\ r(12) = 11 /\ r(13) = 10 /\ r(14) = 9 /\ r(15) = 8
      /\ r(16) = 7 /\ r(17) = 6 /\ r(18) = 5 /\ r(19) = 4 /\ r(20) = 3
      /\ r(21) = 2 /\ r(22) = 1
  BY <1>2 DEF Rank
<1> HIDE DEF r
<1>5. ASSUME NEW j \in 1 .. 22
      PROVE  r(j) = 23 - j
  BY <1>3, <1>4
<1> QED BY <1>1, <1>5 DEF p, r

(* The calls of main on pipes, likewise.                                   *)
LEMMA PipesProgram ==
    /\ Len(Program(FALSE)) = 15
    /\ \A j \in 1 .. 15 : Rank(Program(FALSE)[j], FALSE) = 16 - j
<1> DEFINE p == Program(FALSE)
<1>1. Len(p) = 15
  BY DEF Program, kill_child_on_signal
<1>2. /\ p[1] = "args" /\ p[2] = "bind" /\ p[3] = "pipe" /\ p[4] = "fork"
      /\ p[5] = "spawned" /\ p[6] = "thread" /\ p[7] = "pid"
      /\ p[8] = "SIGHUP" /\ p[9] = "SIGTERM" /\ p[10] = "SIGINT"
      /\ p[11] = "wait" /\ p[12] = "notify" /\ p[13] = "join"
      /\ p[14] = "remove_file" /\ p[15] = "exit"
  BY DEF Program, kill_child_on_signal
<1> HIDE DEF p
<1>3. ASSUME NEW j \in 1 .. 15
      PROVE  \/ j = 1 \/ j = 2 \/ j = 3 \/ j = 4 \/ j = 5 \/ j = 6 \/ j = 7
             \/ j = 8 \/ j = 9 \/ j = 10 \/ j = 11 \/ j = 12 \/ j = 13
             \/ j = 14 \/ j = 15
  OBVIOUS
<1> DEFINE r(j) == Rank(p[j], FALSE)
<1>4. /\ r(1) = 15 /\ r(2) = 14 /\ r(3) = 13 /\ r(4) = 12 /\ r(5) = 11
      /\ r(6) = 10 /\ r(7) = 9 /\ r(8) = 8 /\ r(9) = 7 /\ r(10) = 6
      /\ r(11) = 5 /\ r(12) = 4 /\ r(13) = 3 /\ r(14) = 2 /\ r(15) = 1
  BY <1>2 DEF Rank
<1> HIDE DEF r
<1>5. ASSUME NEW j \in 1 .. 15
      PROVE  r(j) = 16 - j
  BY <1>3, <1>4
<1> QED BY <1>1, <1>5 DEF p, r

(* Both are sequences of calls.                                            *)
LEMMA ProgramType ==
    ASSUME NEW on \in BOOLEAN
    PROVE  Program(on) \in Seq(Calls)
<1>1. /\ <<"args", "bind", "pipe">> \in Seq(Calls)
      /\ PtyOpen \in Seq(Calls) /\ PtyConfigure \in Seq(Calls) /\ <<>> \in Seq(Calls)
      /\ <<"fork", "spawned", "thread">> \in Seq(Calls)
      /\ kill_child_on_signal \in Seq(Calls)
      /\ <<"wait", "notify", "join", "remove_file", "exit">> \in Seq(Calls)
  BY DEF Calls, PtyCalls, Sigs, PtyOpen, PtyConfigure, kill_child_on_signal
<1>2. \A s, t \in Seq(Calls) : s \o t \in Seq(Calls)
  BY ConcatProperties
<1> QED BY <1>1, <1>2 DEF Program

(* What is left of a sequence, element by element.                         *)
LEMMA SuffixParts ==
    ASSUME NEW S, NEW p \in Seq(S), NEW n \in 0 .. Len(p), NEW t,
           t = SubSeq(p, n + 1, Len(p))
    PROVE  /\ t \in Seq(S) /\ Len(t) = Len(p) - n
           /\ \A i \in 1 .. Len(t) : t[i] = p[n + i]
           /\ t # <<>> => n < Len(p) /\ Tail(t) = SubSeq(p, (n + 1) + 1, Len(p))
OBVIOUS

(* When iosock is gone nothing is left.                                    *)
LEMMA SuffixEmpty ==
    ASSUME NEW on \in BOOLEAN
    PROVE  Suffix(<<>>, on)
<1> DEFINE p == Program(on)
<1>1. p \in Seq(Calls)
  BY ProgramType
<1> HIDE DEF p
<1>2. Len(p) \in 0 .. Len(p) /\ <<>> = SubSeq(p, Len(p) + 1, Len(p))
  BY <1>1
<1> QED BY <1>2 DEF Suffix, p

(* The call at place i of what is left tells how much is left.             *)
LEMMA Places ==
    ASSUME NEW on \in BOOLEAN, NEW t, Suffix(t, on), NEW i \in 1 .. Len(t)
    PROVE  Len(t) - i + 1 = Rank(t[i], on)
<1> DEFINE p == Program(on)
<1>1. PICK n \in 0 .. Len(p) : t = SubSeq(p, n + 1, Len(p))
  BY DEF Suffix
<1>2. p \in Seq(Calls)
  BY ProgramType
<1>3. on = TRUE => Len(p) = 22 /\ \A j \in 1 .. 22 : Rank(p[j], on) = 23 - j
  BY PtyProgram, Zenon
<1>4. on = FALSE => Len(p) = 15 /\ \A j \in 1 .. 15 : Rank(p[j], on) = 16 - j
  BY PipesProgram, Zenon
<1> HIDE DEF p
<1>5. ASSUME NEW j \in 1 .. Len(p)
      PROVE  Rank(p[j], on) = Len(p) + 1 - j
  <2>1. CASE on = TRUE
    <3>1. Len(p) = 22 /\ j \in 1 .. 22
      BY <1>3, <2>1
    <3>2. Rank(p[j], on) = 23 - j
      BY <1>3, <2>1, <3>1, Zenon
    <3> QED BY <3>1, <3>2
  <2>2. CASE on = FALSE
    <3>1. Len(p) = 15 /\ j \in 1 .. 15
      BY <1>4, <2>2
    <3>2. Rank(p[j], on) = 16 - j
      BY <1>4, <2>2, <3>1, Zenon
    <3> QED BY <3>1, <3>2
  <2> QED BY <2>1, <2>2
<1>6. Len(t) = Len(p) - n /\ t[i] = p[n + i] /\ Len(p) \in Nat /\ Len(t) \in Nat
  BY <1>1, <1>2, SuffixParts
<1>7. n + i \in 1 .. Len(p)
  BY <1>6
<1> QED BY <1>5, <1>6, <1>7

(* What a call that returns leaves.                                        *)
LEMMA SuffixTail ==
    ASSUME NEW on \in BOOLEAN, NEW t, Suffix(t, on), t # <<>>
    PROVE  /\ Len(t) \in Nat \ {0} /\ Head(t) = t[1]
           /\ Suffix(Tail(t), on) /\ Len(Tail(t)) = Len(t) - 1
<1> DEFINE p == Program(on)
<1>1. PICK n \in 0 .. Len(p) : t = SubSeq(p, n + 1, Len(p))
  BY DEF Suffix
<1>2. p \in Seq(Calls)
  BY ProgramType
<1> HIDE DEF p
<1>3. t \in Seq(Calls) /\ n < Len(p) /\ Tail(t) = SubSeq(p, (n + 1) + 1, Len(p))
  BY <1>1, <1>2, SuffixParts
<1>4. n + 1 \in 0 .. Len(p)
  BY <1>2, <1>3
<1>5. Suffix(Tail(t), on)
  BY <1>3, <1>4 DEF Suffix, p
<1> QED BY <1>3, <1>5

(* The ranks, call by call.                                                *)
LEMMA Ranks ==
    ASSUME NEW on
    PROVE  /\ Rank("exit", on) = 1 /\ Rank("remove_file", on) = 2
           /\ Rank("join", on) = 3 /\ Rank("notify", on) = 4
           /\ Rank("wait", on) = 5 /\ Rank("SIGINT", on) = 6
           /\ Rank("SIGTERM", on) = 7 /\ Rank("SIGHUP", on) = 8
           /\ Rank("pid", on) = 9 /\ Rank("thread", on) = 10
           /\ Rank("spawned", on) = 11 /\ Rank("fork", on) = 12
           /\ Rank("ptsname", on) = 13 /\ Rank("tcsetattr", on) = 14
           /\ Rank("tcgetattr", on) = 15 /\ Rank("winsize", on) = 16
           /\ Rank("unlockpt", on) = 17 /\ Rank("grantpt", on) = 18
           /\ Rank("openpt", on) = 19
BY DEF Rank

(* Those of the calls before a pty is opened.                              *)
LEMMA EarlyRanks ==
    ASSUME NEW on \in BOOLEAN, NEW call \in {"args", "bind", "pipe"}
    PROVE  Rank(call, on) > 12 /\ (on => Rank(call, on) > 19)
<1>1. /\ Rank("pipe", TRUE) = 20 /\ Rank("bind", TRUE) = 21 /\ Rank("args", TRUE) = 22
      /\ Rank("pipe", FALSE) = 13 /\ Rank("bind", FALSE) = 14 /\ Rank("args", FALSE) = 15
  BY DEF Rank
<1>2. call = "args" \/ call = "bind" \/ call = "pipe"
  OBVIOUS
<1>3. on = TRUE => Rank(call, on) = 20 \/ Rank(call, on) = 21 \/ Rank(call, on) = 22
  BY <1>1, <1>2, Zenon
<1>4. on = FALSE => Rank(call, on) = 13 \/ Rank(call, on) = 14 \/ Rank(call, on) = 15
  BY <1>1, <1>2, Zenon
<1> DEFINE r == Rank(call, on)
<1> HIDE DEF r
<1>5. on = TRUE => r > 19 /\ r > 12
  <2>1. on = TRUE => r = 20 \/ r = 21 \/ r = 22
    BY <1>3, Zenon DEF r
  <2> QED BY <2>1
<1>6. on = FALSE => r > 12
  <2>1. on = FALSE => r = 13 \/ r = 14 \/ r = 15
    BY <1>4, Zenon DEF r
  <2> QED BY <2>1
<1>7. on = TRUE \/ on = FALSE
  OBVIOUS
<1> QED BY <1>5, <1>6, <1>7, Zenon DEF r

--------------------------------------------------------------------------------
(* The inductive invariant.                                                *)

(* main runs and has made this call.                                       *)
Made(call) == todo # <<>> /\ Len(todo) < Rank(call, use_pty)

(* TypeOK, with what is left of the program and the calls on the pty named *)
(* as above.                                                               *)
Typed ==
    /\ use_pty \in BOOLEAN /\ ignored \in BOOLEAN /\ pid1 \in BOOLEAN /\ aborts \in BOOLEAN
    /\ Suffix(todo, use_pty)
    /\ ending \in Endings /\ code \in 0 .. 255
    /\ file \in {"absent", "mine", "other"}
    /\ pty \subseteq PtyCalls
    /\ child \in Children
    /\ worker \in {"none", "run", "ok", "err", "panic"} /\ close_byte \in BOOLEAN
    /\ child_pid \in {"0", "child"} /\ handled \subseteq Sigs
    /\ signals \in 0 .. MaxSignals
    /\ hit \subseteq {"child", "group", "stranger", "nobody"}

(* What the calls main has made have brought about.  A handler is there    *)
(* only once the pid is, and the child is reaped only by child.wait, or by *)
(* the kernel when SIGCHLD is ignored.                                     *)
Progress ==
    /\ todo # <<>> => ending = "none" /\ \A s \in handled : Made(s)
    /\ Made("pid") \/ handled # {} => child_pid = "child"
    /\ Made("wait") => child.st = "reaped"
    /\ (todo # <<>> /\ child.st = "reaped") => ignored \/ Made("wait")
    /\ worker = "ok" => close_byte
    /\ Made("join") => worker = "ok"
    /\ Made("remove_file") => file # "mine"

(* How far a child on a pty has come, and what it has by then.             *)
OnStage(c) ==
    /\ c.st \in {"open", "dup0", "dup1", "dup2", "exec", "running"} => c.leader
    /\ c.st \in {"dup0", "dup1", "dup2", "exec", "running"} => c.ctty
    /\ c.st \in {"dup1", "dup2", "exec", "running"} => c.fds[0] = "slave"
    /\ c.st \in {"dup2", "exec", "running"} => c.fds[1] = "slave"
    /\ c.st \in {"exec", "running"} => c.fds[2] = "slave" /\ ~c.slave_fd

Stages ==
    use_pty =>
        /\ Made("winsize") \/ child.st # "none" => "winsize" \in pty
        /\ Made("tcsetattr") \/ child.st # "none" => "tcsetattr" \in pty
        /\ OnStage(child)

(* What the handler has hit: KillsOwnChild in terms of Made.               *)
Struck ==
    /\ "group" \notin hit
    /\ "stranger" \in hit => ignored \/ todo = <<>> \/ Made("wait")

Inv == Typed /\ Progress /\ Stages /\ Struck /\ NoOrphan /\ CleanExit

(* The names of the calls on the pty are those TypeOK lists by place.      *)
LEMMA PtyNames ==
    ASSUME NEW call \in PtyCalls
    PROVE  \E i \in 1 .. 7 : (PtyOpen \o PtyConfigure)[i] = call
<1> DEFINE p == PtyOpen \o PtyConfigure
<1>1. /\ p[1] = "openpt" /\ p[2] = "grantpt" /\ p[3] = "unlockpt" /\ p[4] = "winsize"
      /\ p[5] = "tcgetattr" /\ p[6] = "tcsetattr" /\ p[7] = "ptsname"
  BY DEF PtyOpen, PtyConfigure
<1> HIDE DEF p
<1>2. \E i \in 1 .. 7 : p[i] = call
  BY <1>1 DEF PtyCalls
<1> QED BY <1>2 DEF p

(* The invariant gives the properties.                                     *)
LEMMA InvImplies ==
    Inv => TypeOK /\ NoOrphan /\ KillsOwnChild /\ CleanExit /\ ChildOnPty
<1> SUFFICES ASSUME Inv
             PROVE  TypeOK /\ NoOrphan /\ KillsOwnChild /\ CleanExit /\ ChildOnPty
  OBVIOUS
<1>1. TypeOK
  BY PtyNames DEF Inv, Typed, TypeOK, Suffix
<1>2. KillsOwnChild
  <2>1. ASSUME Made("wait"), NEW i \in 1 .. Len(todo)
        PROVE  todo[i] # "wait"
    <3>1. Len(todo) - i + 1 = Rank(todo[i], use_pty)
      BY Places DEF Inv, Typed
    <3>2. Len(todo) \in Nat
      BY <2>1, SuffixTail DEF Inv, Typed, Made
    <3>3. Len(todo) < 5 /\ Rank("wait", use_pty) = 5
      BY <2>1, Ranks DEF Made
    <3> QED BY <3>1, <3>2, <3>3
  <2>2. todo # <<>> => DOMAIN todo = 1 .. Len(todo)
    <3>1. PICK n \in 0 .. Len(Program(use_pty)) :
            todo = SubSeq(Program(use_pty), n + 1, Len(Program(use_pty)))
      BY DEF Inv, Typed, Suffix
    <3> QED BY <3>1, SuffixParts, ProgramType DEF Inv, Typed
  <2> QED BY <2>1, <2>2 DEF Inv, Struck, KillsOwnChild
<1>3. ChildOnPty
  BY DEF Inv, Stages, OnStage, ChildOnPty
<1> QED BY <1>1, <1>2, <1>3 DEF Inv

(* Where main is when it is about to make a call.                          *)
LEMMA AtRank ==
    ASSUME Typed, NEW call, At(call)
    PROVE  todo # <<>> /\ Len(todo) \in Nat /\ Len(todo) = Rank(call, use_pty)
<1>1. todo # <<>> /\ Len(todo) \in Nat \ {0} /\ todo[1] = call
  BY SuffixTail DEF Typed, At
<1>2. Len(todo) - 1 + 1 = Rank(todo[1], use_pty)
  BY <1>1, Places DEF Typed
<1> QED BY <1>1, <1>2

(* Where it is when the call has returned.                                 *)
LEMMA AdvanceRank ==
    ASSUME Typed, todo # <<>>, Advance, use_pty' = use_pty
    PROVE  /\ Suffix(todo', use_pty') /\ Len(todo') = Len(todo) - 1
           /\ ending' = ending /\ code' = code
<1>1. use_pty \in BOOLEAN /\ Suffix(todo, use_pty)
  BY DEF Typed
<1> QED BY <1>1, SuffixTail DEF Advance

--------------------------------------------------------------------------------
(* The steps.                                                              *)

(* main starts with all its calls before it.                               *)
LEMMA InitInv == Init => Inv
<1> SUFFICES ASSUME Init PROVE Inv
  OBVIOUS
<1> DEFINE p == Program(use_pty)
<1>1. use_pty \in BOOLEAN /\ todo = p /\ child = NoChild
  BY DEF Init
<1>2. p \in Seq(Calls) /\ p # <<>> /\ Len(p) > 12 /\ (use_pty => Len(p) = 22)
  <2>1. p \in Seq(Calls)
    BY <1>1, ProgramType
  <2>2. use_pty = TRUE => Len(p) = 22
    BY PtyProgram, Zenon
  <2>3. use_pty = FALSE => Len(p) = 15
    BY PipesProgram, Zenon
  <2> HIDE DEF p
  <2>4. use_pty = TRUE \/ use_pty = FALSE
    BY <1>1
  <2>5. Len(p) = 22 \/ Len(p) = 15
    BY <2>2, <2>3, <2>4, Zenon
  <2>6. p # <<>> /\ Len(p) > 12
    <3> DEFINE l == Len(p)
    <3>1. p = <<>> => l = 0
      OBVIOUS
    <3>2. l = 22 \/ l = 15
      BY <2>5
    <3> HIDE DEF l
    <3>3. l > 12 /\ p # <<>>
      BY <3>1, <3>2
    <3> QED BY <3>3 DEF l
  <2>7. use_pty => Len(p) = 22
    BY <2>2, <2>4, Zenon
  <2> QED BY <2>1, <2>6, <2>7
<1>3. Suffix(todo, use_pty)
  <2> HIDE DEF p
  <2>1. 0 \in 0 .. Len(p) /\ p = SubSeq(p, 0 + 1, Len(p))
    BY <1>2
  <2> QED BY <1>1, <2>1 DEF Suffix, p
<1> HIDE DEF p
<1>4. NoChild \in Children /\ NoChild.st = "none"
  BY DEF NoChild, Children
<1>5. Typed
  <2>1. /\ use_pty \in BOOLEAN /\ ignored \in BOOLEAN /\ pid1 \in BOOLEAN
        /\ aborts \in BOOLEAN /\ close_byte \in BOOLEAN
    BY DEF Init
  <2>2. 0 \in 0 .. MaxSignals /\ 0 \in 0 .. 255
    BY SignalAssumption
  <2> QED BY <1>1, <1>3, <1>4, <2>1, <2>2 DEF Init, Typed, Endings
<1>6. Progress /\ Stages /\ Struck
  <2>1. ~Made("pid") /\ ~Made("wait") /\ ~Made("join") /\ ~Made("remove_file")
    BY <1>1, <1>2, Ranks DEF Made
  <2>2. Len(p) = 22 => ~Made("winsize") /\ ~Made("tcsetattr")
    BY <1>1, <1>2, Ranks DEF Made
  <2> QED BY <1>1, <1>2, <1>4, <2>1, <2>2 DEF Init, Progress, Stages, OnStage, Struck
<1>7. NoOrphan /\ CleanExit
  BY <1>1, <1>2 DEF Init, NoOrphan, CleanExit
<1> QED BY <1>5, <1>6, <1>7 DEF Inv

(* The end of iosock other than by exit: it leaves the child only by       *)
(* kill -9, an abort, a signal that has no handler, or before all handlers *)
(* are there.                                                              *)
LEMMA GoneInv ==
    ASSUME Inv, todo # <<>>, NEW how \in Endings \ {"none", "status"}, NEW c \in 0 .. 255,
           Gone(how, c), UNCHANGED <<setting, file, pty, child_pid, handled, hit>>,
           child' = child \/ child' = [child EXCEPT !.st = "reaped"],
           worker' \in {"none", "run", "ok", "err", "panic"}, close_byte' = close_byte,
           worker' = "ok" => close_byte, signals' \in 0 .. MaxSignals,
           (Alive(child') /\ handled = Sigs) => how \in {"SIGKILL", "SIGQUIT", "abort"}
    PROVE  Inv'
<1>1. todo' = <<>> /\ ending' = how /\ code' = c
  BY DEF Gone
<1>2. child' \in Children
  BY DEF Inv, Typed, Children
<1>3. Typed'
  BY <1>1, <1>2, SuffixEmpty DEF Inv, Typed, setting
<1>4. Progress' /\ Struck' /\ NoOrphan' /\ CleanExit'
  BY <1>1 DEF Inv, Progress, Struck, NoOrphan, CleanExit, Made, Typed
<1>5. Stages'
  BY <1>1 DEF Inv, Typed, Children, Stages, OnStage, Made, setting
<1> QED BY <1>3, <1>4, <1>5 DEF Inv

(* A call that fails before the handlers are there, or after the child has *)
(* been waited for, ends iosock.                                           *)
LEMMA DieInv ==
    ASSUME Inv, todo # <<>>, die \/ Panic,
           UNCHANGED <<setting, file, pty, child, thread, handler>>,
           handled # Sigs \/ child.st = "reaped"
    PROVE  Inv'
<1>1. ~Alive(child) \/ handled # Sigs
  BY DEF Alive
<1>2. UNCHANGED <<setting, file, pty, child, child_pid, handled, hit, worker, close_byte,
                  signals>>
  BY DEF thread, handler
<1>3. /\ worker \in {"none", "run", "ok", "err", "panic"} /\ (worker = "ok" => close_byte)
      /\ signals \in 0 .. MaxSignals
  BY DEF Inv, Typed, Progress
<1>4. Gone("die", 255) \/ Gone("panic", 101) \/ Gone("abort", 0)
  BY DEF die, Panic
<1> QED BY <1>1, <1>2, <1>3, <1>4, GoneInv DEF Endings

(* The calls the invariant speaks of.                                      *)
Marks == Sigs \cup {"pid", "wait", "join", "remove_file"}
PtyMarks == {"winsize", "tcsetattr"}

(* A call that returns is then made, and no other.                         *)
LEMMA MadeStep ==
    ASSUME Typed, NEW call \in Calls \ {"exit"}, At(call), Advance, UNCHANGED use_pty
    PROVE  /\ todo # <<>> /\ todo' # <<>> /\ Suffix(todo', use_pty')
           /\ ending' = ending /\ code' = code
           /\ \A c \in Marks : Made(c)' <=> (Made(c) \/ c = call)
           /\ use_pty => \A c \in PtyMarks : Made(c)' <=> (Made(c) \/ c = call)
           /\ ~Made(call)
<1> DEFINE l == Len(todo)
           k == Len(todo')
           r(c) == Rank(c, use_pty)
<1>1. use_pty \in BOOLEAN
  BY DEF Typed
<1>2. todo # <<>> /\ l \in Nat /\ l = r(call)
  BY AtRank
<1>3. Suffix(todo', use_pty') /\ k = l - 1 /\ ending' = ending /\ code' = code
  BY <1>2, AdvanceRank
<1>4. /\ r("exit") = 1 /\ r("remove_file") = 2 /\ r("join") = 3 /\ r("notify") = 4
      /\ r("wait") = 5 /\ r("SIGINT") = 6 /\ r("SIGTERM") = 7 /\ r("SIGHUP") = 8
      /\ r("pid") = 9 /\ r("thread") = 10 /\ r("spawned") = 11 /\ r("fork") = 12
      /\ r("ptsname") = 13 /\ r("tcsetattr") = 14 /\ r("tcgetattr") = 15
      /\ r("winsize") = 16 /\ r("unlockpt") = 17 /\ r("grantpt") = 18
      /\ r("openpt") = 19
  BY Ranks
<1>5. call \in {"args", "bind", "pipe"} => r(call) > 12 /\ (use_pty => r(call) > 19)
  BY <1>1, EarlyRanks
<1>6. todo' = <<>> => k = 0
  OBVIOUS
<1>7. /\ \A c : Made(c) <=> (todo # <<>> /\ l < r(c))
      /\ \A c : Made(c)' <=> (todo' # <<>> /\ k < r(c))
  BY DEF Made
<1> HIDE DEF l, k, r
<1>8. r(call) > 1
  BY <1>2, <1>4, <1>5 DEF Calls, PtyCalls, Sigs
<1>9. todo' # <<>>
  BY <1>2, <1>3, <1>6, <1>8
<1>10. \A c \in Marks : r(c) = r(call) <=> c = call
  BY <1>4, <1>5 DEF Calls, PtyCalls, Sigs, Marks
<1>11. use_pty => \A c \in PtyMarks : r(c) = r(call) <=> c = call
  BY <1>4, <1>5 DEF Calls, PtyCalls, Sigs, PtyMarks
<1>12. \A c \in Marks \cup PtyMarks : r(c) \in Nat
  BY <1>4 DEF Marks, PtyMarks, Sigs
<1>13. \A c \in Marks : Made(c)' <=> (Made(c) \/ c = call)
  BY <1>2, <1>3, <1>7, <1>9, <1>10, <1>12
<1>14. use_pty => \A c \in PtyMarks : Made(c)' <=> (Made(c) \/ c = call)
  BY <1>2, <1>3, <1>7, <1>9, <1>11, <1>12
<1>15. ~Made(call)
  BY <1>2, <1>7
<1> QED BY <1>2, <1>3, <1>9, <1>13, <1>14, <1>15

(* A call that returns hits nothing and leaves nothing behind.             *)
LEMMA AdvanceOthers ==
    ASSUME Inv, NEW call \in Calls \ {"exit"}, At(call), Advance,
           UNCHANGED <<setting, hit>>
    PROVE  Struck' /\ NoOrphan' /\ CleanExit'
<1>1. UNCHANGED use_pty /\ UNCHANGED ignored
  BY DEF setting
<1>2. /\ todo # <<>> /\ todo' # <<>> /\ ending' = ending
      /\ \A c \in Marks : Made(c)' <=> (Made(c) \/ c = call)
  BY <1>1, MadeStep DEF Inv
<1>3. ending' = "none"
  BY <1>2 DEF Inv, Progress
<1> QED BY <1>1, <1>2, <1>3 DEF Inv, Struck, NoOrphan, CleanExit, Marks

(* A call that changes at most what is at the path, the worker or the      *)
(* close pipe.                                                             *)
LEMMA PlainInv ==
    ASSUME Inv, NEW call \in Calls \ ({"exit", "pid", "wait"} \cup Sigs \cup PtyMarks),
           At(call), Advance, UNCHANGED <<setting, pty, child, handler>>,
           file' \in {"absent", "mine", "other"},
           worker' \in {"none", "run", "ok", "err", "panic"}, close_byte' \in BOOLEAN,
           worker' = "ok" => close_byte',
           Made("join") \/ call = "join" => worker' = "ok",
           Made("remove_file") \/ call = "remove_file" => file' # "mine"
    PROVE  Inv'
<1>1. /\ UNCHANGED <<use_pty, ignored, pid1, aborts, pty, child, child_pid, handled, signals, hit>>
      /\ UNCHANGED <<setting, hit>>
  BY DEF setting, handler
<1>2. /\ todo # <<>> /\ todo' # <<>> /\ Suffix(todo', use_pty')
      /\ ending' = ending /\ code' = code
      /\ \A c \in Marks : Made(c)' <=> (Made(c) \/ c = call)
      /\ use_pty => \A c \in PtyMarks : Made(c)' <=> (Made(c) \/ c = call)
  BY <1>1, MadeStep DEF Inv
<1>3. Typed'
  BY <1>1, <1>2 DEF Inv, Typed
<1>4. Progress'
  BY <1>1, <1>2 DEF Inv, Typed, Progress, Marks, Sigs
<1>5. Stages'
  BY <1>1, <1>2 DEF Inv, Stages, OnStage, PtyMarks
<1>6. Struck' /\ NoOrphan' /\ CleanExit'
  BY <1>1, AdvanceOthers
<1> QED BY <1>3, <1>4, <1>5, <1>6 DEF Inv

(* The calls before child.wait find a handler missing.                     *)
LEMMA HandlerMissing ==
    ASSUME Inv, NEW call \in Calls \ {"wait", "notify", "join", "remove_file", "exit"}, At(call)
    PROVE  todo # <<>> /\ handled # Sigs
<1> DEFINE l == Len(todo)
           r(c) == Rank(c, use_pty)
<1>1. todo # <<>> /\ l \in Nat /\ l = r(call)
  BY AtRank DEF Inv
<1>2. /\ r("SIGINT") = 6 /\ r("SIGTERM") = 7 /\ r("SIGHUP") = 8 /\ r("pid") = 9
      /\ r("thread") = 10 /\ r("spawned") = 11 /\ r("fork") = 12 /\ r("ptsname") = 13
      /\ r("tcsetattr") = 14 /\ r("tcgetattr") = 15 /\ r("winsize") = 16
      /\ r("unlockpt") = 17 /\ r("grantpt") = 18 /\ r("openpt") = 19
  BY Ranks
<1>3. call \in {"args", "bind", "pipe"} => r(call) > 12
  BY EarlyRanks DEF Inv, Typed
<1>4. Made("SIGINT") => l < r("SIGINT")
  BY DEF Made
<1> HIDE DEF l, r
<1>5. ~Made("SIGINT")
  BY <1>1, <1>2, <1>3, <1>4 DEF Calls, PtyCalls, Sigs
<1> QED BY <1>1, <1>5 DEF Inv, Progress, Sigs

(* After child.wait has returned the child is reaped.                      *)
LEMMA ChildWaitedFor ==
    ASSUME Inv, NEW call \in {"notify", "join", "remove_file", "exit"}, At(call)
    PROVE  todo # <<>> /\ child.st = "reaped"
<1>1. todo # <<>> /\ Len(todo) = Rank(call, use_pty)
  BY AtRank DEF Inv
<1>2. Made("wait")
  BY <1>1, Ranks DEF Made
<1> QED BY <1>1, <1>2 DEF Inv, Progress

(* The calls of main before the fork.                                      *)
LEMMA SetupInv ==
    ASSUME Inv, Args \/ Bind \/ MakePipe \/ PtyCall
    PROVE  Inv'
<1>1. CASE Args \/ MakePipe
  <2>1. PICK call \in {"args", "pipe"} : At(call)
    BY <1>1 DEF Args, MakePipe
  <2>2. Advance \/ die
    BY <1>1 DEF Args, MakePipe
  <2>3. UNCHANGED <<setting, file, pty, child, thread, handler>>
    BY <1>1 DEF Args, MakePipe
  <2>4. todo # <<>> /\ handled # Sigs
    BY <2>1, HandlerMissing DEF Calls
  <2>5. CASE die
    BY <2>3, <2>4, <2>5, DieInv
  <2>6. CASE Advance
    BY <2>1, <2>3, <2>6, PlainInv
    DEF Calls, Sigs, PtyMarks, Inv, Typed, Progress, thread
  <2> QED BY <2>2, <2>5, <2>6
<1>2. CASE Bind
  <2>1. At("bind") /\ UNCHANGED <<setting, thread, child_pid, signals, hit>>
    BY <1>2 DEF Bind
  <2>2. todo # <<>> /\ handled # Sigs
    BY <2>1, HandlerMissing DEF Calls, Sigs
  <2>3. CASE die /\ UNCHANGED <<file, pty, child, handled>>
    BY <2>1, <2>2, <2>3, DieInv DEF handler
  <2>4. CASE Advance /\ file = "absent" /\ file' = "mine" /\ UNCHANGED <<pty, child, handled>>
    <3>1. ~Made("remove_file")
      <4> DEFINE l == Len(todo)
                 r(c) == Rank(c, use_pty)
      <4>1. l = r("bind") /\ l \in Nat
        BY <2>1, AtRank DEF Inv
      <4>2. r("bind") > 12 /\ r("remove_file") = 2
        BY EarlyRanks, Ranks DEF Inv, Typed
      <4>3. Made("remove_file") => l < r("remove_file")
        BY DEF Made
      <4> HIDE DEF l, r
      <4> QED BY <4>1, <4>2, <4>3
    <3>2. UNCHANGED <<setting, pty, child, handler>> /\ UNCHANGED <<worker, close_byte>>
      BY <2>1, <2>4 DEF handler, thread
    <3> QED BY <2>1, <2>4, <3>1, <3>2, PlainInv
            DEF Calls, Sigs, PtyMarks, Inv, Typed, Progress
  <2> QED BY <1>2, <2>3, <2>4 DEF Bind, OrDie
<1>3. CASE PtyCall
  <2>1. PICK call \in PtyCalls :
          /\ At(call)
          /\ OrDie(pty' = pty \cup {call} /\ UNCHANGED <<file, child, handled>>)
    BY <1>3 DEF PtyCall, PtyCalls
  <2>2. UNCHANGED <<setting, thread, child_pid, signals, hit>>
    BY <1>3 DEF PtyCall
  <2>3. call \in Calls \ {"exit"} /\ call \notin Marks
    BY DEF Calls, PtyCalls, Sigs, Marks
  <2>4. todo # <<>> /\ handled # Sigs
    BY <2>1, HandlerMissing DEF Calls, PtyCalls, Sigs
  <2>5. CASE die /\ UNCHANGED <<file, pty, child, handled>>
    BY <2>2, <2>4, <2>5, DieInv DEF handler
  <2>6. CASE Advance /\ pty' = pty \cup {call} /\ UNCHANGED <<file, child, handled>>
    <3>1. UNCHANGED <<use_pty, ignored, pid1, aborts, file, child, worker, close_byte,
                      child_pid, handled, signals, hit>>
      BY <2>2, <2>6 DEF setting, thread
    <3>2. /\ todo # <<>> /\ todo' # <<>> /\ Suffix(todo', use_pty')
          /\ ending' = ending /\ code' = code
          /\ \A c \in Marks : Made(c)' <=> Made(c)
          /\ use_pty => \A c \in PtyMarks : Made(c)' <=> (Made(c) \/ c = call)
      BY <2>1, <2>3, <2>6, <3>1, MadeStep DEF Inv
    <3>3. Typed'
      BY <2>6, <3>1, <3>2 DEF Inv, Typed
    <3>4. Progress'
      BY <3>1, <3>2 DEF Inv, Typed, Progress, Marks, Sigs
    <3>5. Stages'
      BY <2>6, <3>1, <3>2 DEF Inv, Stages, OnStage, PtyMarks
    <3>6. Struck' /\ NoOrphan' /\ CleanExit'
      BY <2>1, <2>2, <2>3, <2>6, AdvanceOthers
    <3> QED BY <3>3, <3>4, <3>5, <3>6 DEF Inv
  <2> QED BY <2>1, <2>5, <2>6 DEF OrDie
<1> QED BY <1>1, <1>2, <1>3

(* A mark main is not yet past when it makes one of the calls before it.   *)
LEMMA MarksAhead ==
    ASSUME Inv
    PROVE  /\ At("fork") => ~Made("wait") /\ (use_pty => Made("winsize") /\ Made("tcsetattr"))
           /\ At("spawned") => ~Made("wait")
           /\ At("wait") => ~Made("join")
           /\ \A s \in Sigs : At(s) => Made("pid")
<1> DEFINE l == Len(todo)
           r(c) == Rank(c, use_pty)
<1>1. \A c : At(c) => todo # <<>> /\ l \in Nat /\ l = r(c)
  BY AtRank DEF Inv
<1>2. /\ r("join") = 3 /\ r("wait") = 5 /\ r("SIGINT") = 6 /\ r("SIGTERM") = 7
      /\ r("SIGHUP") = 8 /\ r("pid") = 9 /\ r("spawned") = 11 /\ r("fork") = 12
      /\ r("tcsetattr") = 14 /\ r("winsize") = 16
  BY Ranks
<1>3. \A c : Made(c) <=> (todo # <<>> /\ l < r(c))
  BY DEF Made
<1> HIDE DEF l, r
<1> QED BY <1>1, <1>2, <1>3 DEF Sigs

(* The fork of the child.                                                  *)
LEMMA ForkInv ==
    ASSUME Inv, Fork
    PROVE  Inv'
<1>1. At("fork") /\ UNCHANGED <<setting, thread, child_pid, signals, hit>>
  BY DEF Fork
<1>2. todo # <<>> /\ handled # Sigs
  BY <1>1, HandlerMissing DEF Calls, Sigs
<1>3. CASE die /\ UNCHANGED <<file, pty, child, handled>>
  BY <1>1, <1>2, <1>3, DieInv DEF handler
<1> DEFINE c == [NoChild EXCEPT
                   !.st = IF use_pty THEN "setsid" ELSE "exec",
                   !.fds = [f \in 0 .. 2 |-> IF use_pty THEN "null" ELSE "pipe"]]
<1>4. CASE Advance /\ child' = c /\ UNCHANGED <<file, pty, handled>>
  <2>1. c \in Children /\ c.st # "reaped" /\ (use_pty => c.st = "setsid")
    BY DEF NoChild, Children
  <2> HIDE DEF c
  <2>2. UNCHANGED <<use_pty, ignored, pid1, aborts, file, pty, worker, close_byte,
                    child_pid, handled, signals, hit>>
    BY <1>1, <1>4 DEF setting, thread
  <2>3. "fork" \in Calls \ {"exit"} /\ "fork" \notin Marks \cup PtyMarks
    BY DEF Calls, Sigs, Marks, PtyMarks
  <2>4. /\ todo # <<>> /\ todo' # <<>> /\ Suffix(todo', use_pty')
        /\ ending' = ending /\ code' = code
        /\ \A m \in Marks : Made(m)' <=> Made(m)
    BY <1>1, <1>4, <2>2, <2>3, MadeStep DEF Inv
  <2>5. ~Made("wait") /\ (use_pty => Made("winsize") /\ Made("tcsetattr"))
    BY <1>1, MarksAhead
  <2>6. Typed'
    BY <1>4, <2>1, <2>2, <2>4 DEF Inv, Typed
  <2>7. Progress'
    BY <1>4, <2>1, <2>2, <2>4, <2>5 DEF Inv, Typed, Progress, Marks, Sigs
  <2>8. Stages'
    BY <1>4, <2>1, <2>2, <2>5 DEF Inv, Stages, OnStage
  <2>9. Struck' /\ NoOrphan' /\ CleanExit'
    BY <1>1, <1>4, <2>3, AdvanceOthers
  <2> QED BY <2>6, <2>7, <2>8, <2>9 DEF Inv
<1> QED BY <1>3, <1>4 DEF Fork, OrDie

(* The rest of Command::spawn, and thread::spawn.                          *)
LEMMA StartInv ==
    ASSUME Inv, Spawned \/ StartWorker
    PROVE  Inv'
<1>1. CASE Spawned
  <2>1. At("spawned") /\ UNCHANGED <<setting, file, pty, thread, handler>>
    BY <1>1 DEF Spawned
  <2>2. todo # <<>> /\ handled # Sigs
    BY <2>1, HandlerMissing DEF Calls, Sigs
  <2>3. CASE Advance /\ UNCHANGED child
    BY <2>1, <2>3, PlainInv DEF Calls, Sigs, PtyMarks, Inv, Typed, Progress, thread
  <2>4. CASE child' = [child EXCEPT !.st = "reaped"] /\ (Panic \/ die)
    <3>1. UNCHANGED <<setting, file, pty, child_pid, handled, hit>>
      BY <2>1 DEF handler
    <3>2. /\ worker' \in {"none", "run", "ok", "err", "panic"}
          /\ close_byte' = close_byte /\ (worker' = "ok" => close_byte)
          /\ signals' \in 0 .. MaxSignals
      BY <2>1 DEF handler, thread, Inv, Typed, Progress
    <3>3. Gone("die", 255) \/ Gone("panic", 101) \/ Gone("abort", 0)
      BY <2>4 DEF die, Panic
    <3> QED BY <2>2, <2>4, <3>1, <3>2, <3>3, GoneInv DEF Endings
  <2> QED BY <1>1, <2>3, <2>4 DEF Spawned
<1>2. CASE StartWorker
  <2>1. At("thread") /\ UNCHANGED <<setting, file, pty, child, close_byte, handler>>
    BY <1>2 DEF StartWorker
  <2>2. todo # <<>> /\ handled # Sigs
    BY <2>1, HandlerMissing DEF Calls, Sigs
  <2>3. CASE Panic /\ UNCHANGED worker
    BY <2>1, <2>2, <2>3, DieInv DEF thread
  <2>4. CASE Advance /\ worker' = "run"
    <3>1. ~Made("join")
      <4>1. Len(todo) = Rank("thread", use_pty)
        BY <2>1, AtRank DEF Inv
      <4> QED BY <4>1, Ranks DEF Made
    <3> QED BY <2>1, <2>4, <3>1, PlainInv DEF Calls, Sigs, PtyMarks, Inv, Typed, Progress
  <2> QED BY <1>2, <2>3, <2>4 DEF StartWorker
<1> QED BY <1>1, <1>2

(* kill_child_on_signal: the pid, then the handlers.                       *)
LEMMA HandlersInv ==
    ASSUME Inv, SetPid \/ Sigaction
    PROVE  Inv'
<1>1. CASE SetPid
  <2>1. /\ At("pid") /\ Advance /\ child_pid' = "child"
        /\ UNCHANGED <<use_pty, ignored, pid1, aborts, file, pty, child, worker, close_byte,
                       handled, signals, hit>>
        /\ UNCHANGED <<setting, hit>>
    BY <1>1 DEF SetPid, setting, thread
  <2>2. "pid" \in Calls \ {"exit"} /\ "pid" \notin PtyMarks
    BY DEF Calls, Sigs, PtyMarks
  <2>3. /\ todo # <<>> /\ todo' # <<>> /\ Suffix(todo', use_pty')
        /\ ending' = ending /\ code' = code
        /\ \A m \in Marks : Made(m)' <=> (Made(m) \/ m = "pid")
        /\ use_pty => \A m \in PtyMarks : Made(m)' <=> (Made(m) \/ m = "pid")
    BY <2>1, <2>2, MadeStep DEF Inv
  <2>4. Typed'
    BY <2>1, <2>3 DEF Inv, Typed
  <2>5. Progress'
    BY <2>1, <2>3 DEF Inv, Typed, Progress, Marks, Sigs
  <2>6. Stages'
    BY <2>1, <2>3 DEF Inv, Stages, OnStage, PtyMarks
  <2>7. Struck' /\ NoOrphan' /\ CleanExit'
    BY <2>1, <2>2, AdvanceOthers
  <2> QED BY <2>4, <2>5, <2>6, <2>7 DEF Inv
<1>2. CASE Sigaction
  <2>1. PICK s \in Sigs : /\ At(s)
                          /\ OrDie(handled' = handled \cup {s} /\ UNCHANGED <<file, pty, child>>)
    BY <1>2 DEF Sigaction
  <2>2. UNCHANGED <<setting, thread, child_pid, signals, hit>>
    BY <1>2 DEF Sigaction
  <2>3. s \in Calls \ {"exit"} /\ s \in Marks /\ s \notin PtyMarks
    BY DEF Calls, Sigs, Marks, PtyMarks
  <2>4. todo # <<>> /\ handled # Sigs
    BY <2>1, HandlerMissing DEF Calls, Sigs
  <2>5. CASE die /\ UNCHANGED <<file, pty, child, handled>>
    BY <2>2, <2>4, <2>5, DieInv DEF handler
  <2>6. CASE Advance /\ handled' = handled \cup {s} /\ UNCHANGED <<file, pty, child>>
    <3>1. UNCHANGED <<use_pty, ignored, pid1, aborts, file, pty, child, worker, close_byte,
                      child_pid, signals, hit>>
      BY <2>2, <2>6 DEF setting, thread
    <3>2. /\ todo # <<>> /\ todo' # <<>> /\ Suffix(todo', use_pty')
          /\ ending' = ending /\ code' = code
          /\ \A m \in Marks : Made(m)' <=> (Made(m) \/ m = s)
          /\ use_pty => \A m \in PtyMarks : Made(m)' <=> (Made(m) \/ m = s)
      BY <2>1, <2>3, <2>6, <3>1, MadeStep DEF Inv
    <3>3. Made("pid")
      BY <2>1, MarksAhead
    <3>4. Typed'
      BY <2>6, <3>1, <3>2 DEF Inv, Typed
    <3>5. Progress'
      BY <2>3, <2>6, <3>1, <3>2, <3>3 DEF Inv, Typed, Progress, Marks, Sigs
    <3>6. Stages'
      BY <2>3, <2>6, <3>1, <3>2 DEF Inv, Stages, OnStage, PtyMarks
    <3>7. Struck' /\ NoOrphan' /\ CleanExit'
      BY <2>1, <2>2, <2>3, <2>6, AdvanceOthers
    <3> QED BY <3>4, <3>5, <3>6, <3>7 DEF Inv
  <2> QED BY <2>1, <2>5, <2>6 DEF OrDie
<1> QED BY <1>1, <1>2

(* child.wait: from here on the child is reaped.                           *)
LEMMA WaitInv ==
    ASSUME Inv, Wait
    PROVE  Inv'
<1>1. /\ At("wait") /\ Advance /\ child' = [child EXCEPT !.st = "reaped"]
      /\ UNCHANGED <<use_pty, ignored, pid1, aborts, file, pty, worker, close_byte,
                     child_pid, handled, signals, hit>>
      /\ UNCHANGED <<setting, hit>> /\ child.st # "none"
  BY DEF Wait, setting, thread, handler
<1>2. child' \in Children /\ child'.st = "reaped"
  BY <1>1 DEF Inv, Typed, Children
<1>3. "wait" \in Calls \ {"exit"} /\ "wait" \notin PtyMarks
  BY DEF Calls, Sigs, PtyMarks
<1>4. /\ todo # <<>> /\ todo' # <<>> /\ Suffix(todo', use_pty')
      /\ ending' = ending /\ code' = code
      /\ \A m \in Marks : Made(m)' <=> (Made(m) \/ m = "wait")
  BY <1>1, <1>3, MadeStep DEF Inv
<1>5. Typed'
  BY <1>1, <1>2, <1>4 DEF Inv, Typed
<1>6. Progress'
  BY <1>1, <1>2, <1>4 DEF Inv, Typed, Progress, Marks, Sigs
<1>7. Stages'
  BY <1>1, <1>2 DEF Inv, Stages, OnStage
<1>8. Struck' /\ NoOrphan' /\ CleanExit'
  BY <1>1, <1>3, AdvanceOthers
<1> QED BY <1>5, <1>6, <1>7, <1>8 DEF Inv

(* The close byte, the join and the removal of the socket file.            *)
LEMMA FinishInv ==
    ASSUME Inv, Notify \/ Join \/ RemoveFile
    PROVE  Inv'
<1>1. CASE Notify
  <2>1. At("notify") /\ Advance /\ UNCHANGED <<setting, file, pty, child, handler>>
    BY <1>1 DEF Notify
  <2>2. worker' = worker /\ close_byte' \in BOOLEAN /\ (worker = "ok" => close_byte')
    BY <1>1 DEF Notify, thread, Thread!Notify, Inv, Typed, Progress
  <2> QED BY <2>1, <2>2, PlainInv DEF Calls, Sigs, PtyMarks, Inv, Typed, Progress
<1>2. CASE Join
  <2>1. At("join") /\ UNCHANGED <<setting, file, pty, child, thread, handler>>
    BY <1>2 DEF Join
  <2>2. todo # <<>> /\ child.st = "reaped"
    BY <2>1, ChildWaitedFor
  <2>3. CASE worker = "ok" /\ Advance
    BY <2>1, <2>3, PlainInv DEF Calls, Sigs, PtyMarks, Inv, Typed, Progress, thread
  <2>4. CASE die
    BY <2>1, <2>2, <2>4, DieInv
  <2> QED BY <1>2, <2>3, <2>4 DEF Join
<1>3. CASE RemoveFile
  <2>1. At("remove_file") /\ UNCHANGED <<setting, thread, child_pid, signals, hit>>
    BY <1>3 DEF RemoveFile
  <2>2. todo # <<>> /\ child.st = "reaped"
    BY <2>1, ChildWaitedFor
  <2>3. CASE die /\ UNCHANGED <<file, pty, child, handled>>
    BY <2>1, <2>2, <2>3, DieInv DEF handler
  <2>4. CASE Advance /\ file' = "absent" /\ UNCHANGED <<pty, child, handled>>
    BY <2>1, <2>4, PlainInv
    DEF Calls, Sigs, PtyMarks, Inv, Typed, Progress, thread, handler
  <2> QED BY <1>3, <2>3, <2>4 DEF RemoveFile, OrDie
<1> QED BY <1>1, <1>2, <1>3

(* The exit code is one a process can have.                                *)
LEMMA ExitCodeType ==
    ASSUME Typed
    PROVE  ExitCode \in 0 .. 255
<1>1. child.status \in Codes \cup {-1} /\ (ignored \in BOOLEAN)
  BY DEF Typed, Children
<1>2. CASE ignored
  BY <1>2 DEF ExitCode
<1>3. CASE ~ignored /\ child.status = -1
  BY <1>3 DEF ExitCode
<1>4. CASE ~ignored /\ child.status # -1
  <2>1. child.status \in 0 .. 255
    BY <1>1, <1>4, CodeAssumption
  <2>2. ExitCode = child.status
    BY <1>4 DEF ExitCode
  <2> QED BY <2>1, <2>2
<1> QED BY <1>2, <1>3, <1>4

(* exit, which only a run that has done everything reaches.                *)
LEMMA ExitInv ==
    ASSUME Inv, Exit
    PROVE  Inv'
<1>1. /\ At("exit") /\ todo' = <<>> /\ ending' = "status" /\ code' = ExitCode
      /\ UNCHANGED <<use_pty, ignored, pid1, aborts, file, pty, child, worker, close_byte,
                     child_pid, handled, signals, hit>>
  BY DEF Exit, Gone, setting, thread, handler
<1>2. todo # <<>> /\ Len(todo) = Rank("exit", use_pty)
  BY <1>1, AtRank DEF Inv
<1>3. Made("wait") /\ Made("join") /\ Made("remove_file")
  BY <1>2, Ranks DEF Made
<1>4. child.st = "reaped" /\ worker = "ok" /\ close_byte /\ file # "mine"
  BY <1>3 DEF Inv, Progress
<1>5. ExitCode \in 0 .. 255
  BY ExitCodeType DEF Inv
<1>6. Typed'
  BY <1>1, <1>5, SuffixEmpty DEF Inv, Typed, Endings
<1>7. Progress'
  BY <1>1 DEF Inv, Progress, Made
<1>8. Stages'
  BY <1>1 DEF Inv, Stages, OnStage, Made
<1>9. Struck' /\ NoOrphan'
  BY <1>1, <1>4 DEF Inv, Struck, NoOrphan, Alive
<1>10. CleanExit'
  <2>1. child.status # -1 /\ ~ignored => ExitCode = child.status
    BY DEF ExitCode
  <2>2. child.status = -1 => ExitCode \in {254, 255}
    BY DEF ExitCode, Inv, Typed
  <2> QED BY <1>1, <1>4, <2>1, <2>2 DEF CleanExit
<1> QED BY <1>6, <1>7, <1>8, <1>9, <1>10 DEF Inv

--------------------------------------------------------------------------------
(* The child, the worker and the others.                                   *)

(* A step of a child that is there and not yet dead.                       *)
LEMMA ChildStepInv ==
    ASSUME Inv, UNCHANGED others, child.st \notin {"none", "zombie", "reaped"},
           child' \in Children, child'.st # "none", child'.st = "reaped" => ignored,
           use_pty => OnStage(child')
    PROVE  Inv'
<1>1. UNCHANGED <<todo, ending, code, use_pty, ignored, pid1, aborts, file, pty, worker,
                  close_byte, child_pid, handled, signals, hit>>
  BY DEF others, setting, thread, handler
<1>2. \A c : Made(c)' <=> Made(c)
  BY <1>1 DEF Made
<1>3. Typed'
  BY <1>1 DEF Inv, Typed
<1>4. Progress'
  BY <1>1, <1>2 DEF Inv, Progress
<1>5. Stages'
  BY <1>1, <1>2 DEF Inv, Stages
<1>6. Struck' /\ NoOrphan' /\ CleanExit'
  BY <1>1, <1>2 DEF Inv, Struck, NoOrphan, CleanExit, Alive
<1> QED BY <1>3, <1>4, <1>5, <1>6 DEF Inv

(* A call of the child before exec: it returns, is made again or ends the  *)
(* child.                                                                  *)
LEMMA ChildCallInv ==
    ASSUME Inv, NEW st \in {"setsid", "open", "dup0", "dup1", "dup2", "exec"}, NEW result,
           NEW after, ChildCall(st, result, after),
           result = "ok" => /\ after \in Children
                            /\ after.st \in {"open", "dup0", "dup1", "dup2", "exec", "running"}
                            /\ use_pty => OnStage(after)
    PROVE  Inv'
<1>1. child.st = st /\ UNCHANGED others
  BY DEF ChildCall
<1>2. \/ result = "ok" /\ child' = after
      \/ child' = child
      \/ child' = [child EXCEPT !.st = "failed"]
  BY DEF ChildCall, retry_interrupted
<1>3. CASE result = "ok" /\ child' = after
  BY <1>1, <1>3, ChildStepInv
<1>4. CASE child' = child
  BY <1>1, <1>4, ChildStepInv DEF Inv, Typed, Stages
<1>5. CASE child' = [child EXCEPT !.st = "failed"]
  <2>1. child' \in Children /\ child'.st = "failed"
    BY <1>5 DEF Inv, Typed, Children
  <2> QED BY <1>1, <2>1, ChildStepInv DEF OnStage
<1> QED BY <1>2, <1>3, <1>4, <1>5

(* The closure between fork and exec.                                      *)
LEMMA PreExecInv ==
    ASSUME Inv, PreExec
    PROVE  Inv'
<1>0. child \in Children /\ (use_pty => OnStage(child))
  BY DEF Inv, Typed, Stages
<1>1. CASE Setsid
  <2> DEFINE c == [child EXCEPT !.st = "open", !.leader = TRUE]
  <2>1. PICK result : ChildCall("setsid", result, c)
    BY <1>1 DEF Setsid
  <2>2. c \in Children /\ c.st = "open" /\ OnStage(c)
    BY <1>0 DEF Children, OnStage
  <2> HIDE DEF c
  <2> QED BY <2>1, <2>2, ChildCallInv
<1>2. CASE OpenSlave
  <2> DEFINE c(result) == [child EXCEPT !.st = "dup0", !.ctty = child.leader /\ result = "ok",
                                        !.slave_fd = (result = "ok")]
  <2>1. PICK result : ChildCall("open", result, c(result))
    BY <1>2 DEF OpenSlave
  <2>2. child.st = "open"
    BY <2>1 DEF ChildCall
  <2>3. c("ok") \in Children /\ c("ok").st = "dup0" /\ (use_pty => OnStage(c("ok")))
    BY <1>0, <2>2 DEF Children, OnStage
  <2> HIDE DEF c
  <2> QED BY <2>1, <2>3, ChildCallInv
<1>3. ASSUME NEW f \in 0 .. 2, NEW st, NEW to, Dup(f, st, to),
             <<f, st, to>> \in {<<0, "dup0", "dup1">>, <<1, "dup1", "dup2">>, <<2, "dup2", "exec">>}
      PROVE  Inv'
  <2> DEFINE c(result) == [child EXCEPT !.st = to,
                                        !.fds[f] = IF result = "ok" THEN "slave" ELSE @,
                                        !.slave_fd = to # "exec"]
  <2>1. PICK result : ChildCall(st, result, c(result))
    BY <1>3 DEF Dup
  <2>2. child.st = st
    BY <2>1 DEF ChildCall
  <2> DEFINE d == c("ok")
  <2>3. /\ d.st = to /\ d.fds = [child.fds EXCEPT ![f] = "slave"]
        /\ to = "exec" => ~d.slave_fd
        /\ d.leader = child.leader /\ d.ctty = child.ctty
    BY <1>0 DEF Children
  <2>4. d \in Children
    BY <1>0, <1>3 DEF Children
  <2>5. child.fds \in [0 .. 2 -> {"none", "pipe", "null", "slave"}]
    BY <1>0 DEF Children
  <2> HIDE DEF d
  <2>6. use_pty => OnStage(d)
    <3>1. CASE f = 0 /\ st = "dup0" /\ to = "dup1"
      BY <1>0, <2>2, <2>3, <2>5, <3>1 DEF OnStage
    <3>2. CASE f = 1 /\ st = "dup1" /\ to = "dup2"
      BY <1>0, <2>2, <2>3, <2>5, <3>2 DEF OnStage
    <3>3. CASE f = 2 /\ st = "dup2" /\ to = "exec"
      BY <1>0, <2>2, <2>3, <2>5, <3>3 DEF OnStage
    <3> QED BY <1>3, <3>1, <3>2, <3>3
  <2> HIDE DEF c
  <2>7. result = "ok" => c(result) = d
    BY DEF d
  <2> QED BY <1>3, <2>1, <2>3, <2>4, <2>6, <2>7, ChildCallInv
<1>4. CASE Exec
  <2> DEFINE c == [child EXCEPT !.st = "running"]
  <2>1. PICK result : ChildCall("exec", result, c)
    BY <1>4 DEF Exec
  <2>2. child.st = "exec"
    BY <2>1 DEF ChildCall
  <2>3. c \in Children /\ c.st = "running" /\ (use_pty => OnStage(c))
    BY <1>0, <2>2 DEF Children, OnStage
  <2> HIDE DEF c
  <2> QED BY <2>1, <2>3, ChildCallInv
<1> QED BY <1>1, <1>2, <1>3, <1>4 DEF PreExec

(* The child exits, or a signal ends it.                                   *)
LEMMA ChildEndsInv ==
    ASSUME Inv, NEW status \in Codes \cup {-1}, ChildEnds(status)
    PROVE  Inv'
<1>1. /\ child.st \notin {"none", "zombie", "reaped"} /\ UNCHANGED others
      /\ child' = [child EXCEPT !.st = IF ignored THEN "reaped" ELSE "zombie",
                                !.status = status]
  BY DEF ChildEnds, Alive
<1>2. /\ child' \in Children /\ child'.st \in {"reaped", "zombie"}
      /\ child'.st = "reaped" => ignored
  BY <1>1 DEF Inv, Typed, Children
<1> QED BY <1>1, <1>2, ChildStepInv DEF OnStage

(* The worker ends; when a panic aborts, iosock with it.                   *)
LEMMA WorkerEndsInv ==
    ASSUME Inv, WorkerEnds
    PROVE  Inv'
<1>1. /\ todo # <<>> /\ worker = "run" /\ close_byte' = close_byte
      /\ worker' \in {"ok", "err", "panic"} /\ (worker' = "ok" => close_byte)
      /\ UNCHANGED <<use_pty, ignored, pid1, aborts, file, pty, child, child_pid, handled,
                     signals, hit>>
      /\ UNCHANGED <<setting, file, pty, child_pid, handled, hit>>
  BY DEF WorkerEnds, Thread!Return, Thread!Fail, setting, handler
<1>2. CASE Gone("abort", 0)
  <2>1. worker' \in {"none", "run", "ok", "err", "panic"}
    BY <1>1
  <2>2. signals' \in 0 .. MaxSignals
    BY <1>1 DEF Inv, Typed
  <2>3. "abort" \in Endings \ {"none", "status"} /\ 0 \in 0 .. 255
    BY DEF Endings
  <2> QED BY <1>1, <1>2, <2>1, <2>2, <2>3, GoneInv
<1>3. CASE UNCHANGED <<todo, ending, code>>
  <2>1. \A c : Made(c)' <=> Made(c)
    BY <1>1, <1>3 DEF Made
  <2>2. Typed' /\ Progress'
    BY <1>1, <1>3, <2>1 DEF Inv, Typed, Progress
  <2>3. Stages' /\ Struck' /\ NoOrphan' /\ CleanExit'
    BY <1>1, <1>3, <2>1 DEF Inv, Progress, Stages, Struck, NoOrphan, CleanExit
  <2> QED BY <2>2, <2>3 DEF Inv
<1> QED BY <1>2, <1>3 DEF WorkerEnds

(* A signal: with a handler it goes to the child, which is there or was    *)
(* reaped, and without one it ends iosock unless it is process 1.          *)
LEMMA SignalInv ==
    ASSUME Inv, NEW s \in Sigs \cup Defaults, Signal(s)
    PROVE  Inv'
<1>0. signals \in 0 .. MaxSignals /\ signals < MaxSignals /\ signals' = signals + 1
  BY DEF Signal, Inv, Typed
<1>1. /\ todo # <<>> /\ signals' \in 0 .. MaxSignals
      /\ UNCHANGED <<use_pty, ignored, pid1, aborts, file, pty, worker, close_byte, child_pid,
                     handled>>
  <2>1. signals' \in 0 .. MaxSignals
    BY <1>0, SignalAssumption
  <2> QED BY <2>1 DEF Signal, setting, thread
<1>2. CASE /\ s \notin handled
           /\ Gone(IF s \in Sigs THEN "signal" ELSE "SIGQUIT", 0)
           /\ UNCHANGED <<child, hit>>
  <2> DEFINE how == IF s \in Sigs THEN "signal" ELSE "SIGQUIT"
  <2>1. UNCHANGED <<setting, file, pty, child_pid, handled, hit>>
    BY <1>1, <1>2 DEF setting
  <2>2. handled = Sigs => how = "SIGQUIT"
    BY <1>2
  <2>3. /\ worker' \in {"none", "run", "ok", "err", "panic"} /\ close_byte' = close_byte
        /\ worker' = "ok" => close_byte
    BY <1>1 DEF Inv, Typed, Progress
  <2>4. how \in Endings \ {"none", "status"} /\ 0 \in 0 .. 255
    BY DEF Endings
  <2>5. Gone(how, 0) /\ child' = child
    BY <1>2
  <2> QED BY <1>1, <2>1, <2>2, <2>3, <2>4, <2>5, GoneInv
<1>3. ASSUME UNCHANGED <<todo, ending, code>>,
             child' = child \/ child' = [child EXCEPT !.termed = TRUE],
             hit' \subseteq {"child", "group", "stranger", "nobody"}, "group" \notin hit',
             "stranger" \in hit' => "stranger" \in hit \/ child.st = "reaped"
      PROVE  Inv'
  <2>1. \A c : Made(c)' <=> Made(c)
    BY <1>1, <1>3 DEF Made
  <2>2. /\ child' \in Children /\ child'.st = child.st /\ child'.status = child.status
        /\ child'.leader = child.leader /\ child'.ctty = child.ctty
        /\ child'.slave_fd = child.slave_fd /\ child'.fds = child.fds
    <3>1. child \in Children
      BY DEF Inv, Typed
    <3>2. CASE child' = child
      BY <3>1, <3>2
    <3>3. CASE child' = [child EXCEPT !.termed = TRUE]
      <4>1. child' \in Children
        BY <3>1, <3>3 DEF Children
      <4> QED BY <3>1, <3>3, <4>1 DEF Children
    <3> QED BY <1>3, <3>2, <3>3
  <2>3. Typed' /\ Progress'
    <3>1. Typed'
      BY <1>1, <1>3, <2>2 DEF Inv, Typed
    <3>2. Progress'
      BY <1>1, <1>3, <2>1, <2>2 DEF Inv, Progress
    <3> QED BY <3>1, <3>2
  <2>4. Stages'
    BY <1>1, <1>3, <2>1, <2>2 DEF Inv, Stages, OnStage
  <2>5. Struck'
    BY <1>1, <1>3, <2>1 DEF Inv, Progress, Struck
  <2>6. NoOrphan' /\ CleanExit'
    BY <1>1, <1>3, <2>2 DEF Inv, NoOrphan, CleanExit, Alive, Progress
  <2> QED BY <2>3, <2>4, <2>5, <2>6 DEF Inv
<1>4. CASE s \in handled /\ on_terminate_signal /\ UNCHANGED <<todo, ending, code>>
  <2>1. child_pid = "child"
    BY <1>4 DEF Inv, Progress
  <2>2. PICK target \in Targets :
          /\ hit' = hit \cup {target}
          /\ child' = IF target = "child" THEN [child EXCEPT !.termed = TRUE] ELSE child
    BY <1>4 DEF on_terminate_signal
  <2>3. /\ target \in {"child", "stranger", "nobody"}
        /\ target = "stranger" => child.st = "reaped"
    BY <2>1 DEF Targets
  <2> QED BY <1>3, <1>4, <2>2, <2>3 DEF Inv, Typed, Struck
<1>5. CASE UNCHANGED <<todo, ending, code, child, hit>>
  BY <1>3, <1>5 DEF Inv, Typed, Struck
<1> QED BY <1>2, <1>4, <1>5 DEF Signal

(* kill -9, and what others do at the path.                                *)
LEMMA OthersInv ==
    ASSUME Inv, Killed \/ Operator
    PROVE  Inv'
<1>1. CASE Killed
  <2>1. /\ todo # <<>> /\ Gone("SIGKILL", 0)
        /\ UNCHANGED <<setting, file, pty, child, worker, close_byte, child_pid, handled,
                       signals, hit>>
    BY <1>1 DEF Killed, thread, handler
  <2>2. /\ worker' \in {"none", "run", "ok", "err", "panic"}
        /\ worker' = "ok" => close_byte
        /\ signals' \in 0 .. MaxSignals
    BY <2>1 DEF Inv, Typed, Progress
  <2>3. "SIGKILL" \in Endings \ {"none", "status"} /\ 0 \in 0 .. 255
    BY DEF Endings
  <2> QED BY <2>1, <2>2, <2>3, GoneInv
<1>2. CASE Operator
  <2>1. /\ file' \in {"absent", "other"}
        /\ UNCHANGED <<todo, ending, code, use_pty, ignored, pid1, aborts, pty, child, worker,
                       close_byte, child_pid, handled, signals, hit>>
    BY <1>2 DEF Operator, setting, thread, handler
  <2>2. \A c : Made(c)' <=> Made(c)
    BY <2>1 DEF Made
  <2>3. Typed' /\ Progress'
    BY <2>1, <2>2 DEF Inv, Typed, Progress
  <2>4. Stages' /\ Struck' /\ NoOrphan' /\ CleanExit'
    BY <2>1, <2>2 DEF Inv, Stages, Struck, NoOrphan, CleanExit
  <2> QED BY <2>3, <2>4 DEF Inv
<1> QED BY <1>1, <1>2

(* Every step preserves the invariant.                                     *)
LEMMA NextInv == Inv /\ [Next]_vars => Inv'
<1> SUFFICES ASSUME Inv, [Next]_vars PROVE Inv'
  OBVIOUS
<1>1. CASE Main
  BY <1>1, SetupInv, ForkInv, StartInv, HandlersInv, WaitInv, FinishInv, ExitInv DEF Main
<1>2. CASE PreExec
  BY <1>2, PreExecInv
<1>3. CASE Environment
  BY <1>3, WorkerEndsInv, ChildEndsInv, SignalInv, OthersInv DEF Environment
<1>4. CASE UNCHANGED vars
  <2>1. UNCHANGED <<todo, ending, code, use_pty, ignored, pid1, aborts, file, pty, child,
                    worker, close_byte, child_pid, handled, signals, hit>>
    BY <1>4 DEF vars
  <2>2. \A c : Made(c)' <=> Made(c)
    BY <2>1 DEF Made
  <2> QED BY <2>1, <2>2 DEF Inv, Typed, Progress, Stages, Struck, NoOrphan, CleanExit
<1> QED BY <1>1, <1>2, <1>3, <1>4 DEF Next

(* It holds throughout.                                                    *)
LEMMA Invariance == Spec => []Inv
BY InitInv, NextInv, PTL DEF Spec

--------------------------------------------------------------------------------
(* The variables keep their types; what main has left to do is always the  *)
(* rest of one of its two programs, and its exit code is one a process can *)
(* have (main.rs:20-135).                                                  *)
THEOREM TypeCorrect == Spec => []TypeOK
BY Invariance, InvImplies, PTL

(* However many signals come and when, once the handlers are there iosock  *)
(* leaves its child behind only by kill -9, an abort or a signal that has  *)
(* no handler (main.rs:112-124, signals.rs:47-58).                         *)
THEOREM OrphanCorrect == Spec => []NoOrphan
BY Invariance, InvImplies, PTL

(* The handler never signals iosock's own group, nor another process       *)
(* before child.wait has returned (signals.rs:10-20, 48).                  *)
THEOREM KillCorrect == Spec => []KillsOwnChild
BY Invariance, InvImplies, PTL

(* A run that exits with a status has waited for the child, joined a       *)
(* worker that returned Ok, and removed its socket file                    *)
(* (main.rs:115-134).                                                      *)
THEOREM ExitCorrect == Spec => []CleanExit
BY Invariance, InvImplies, PTL

(* A program on a pty finds its streams, its session, its terminal and its *)
(* settings as Pty::spawn promises (pty.rs:196-235).                       *)
THEOREM ChildCorrect == Spec => []ChildOnPty
BY Invariance, InvImplies, PTL
================================================================================
