---------------------------- MODULE PolledFdsProofs ----------------------------
(***************************************************************************)
(* Lemmas about the operations of PolledFds, for every set of fds.  They   *)
(* say how a PolledFdSet and an epoll instance stay in step while handlers *)
(* of a batch change the one and close files under the other; the proofs   *)
(* about Pollster and IOSock cite them.                                    *)
(***************************************************************************)
EXTENDS PolledFds, TLAPS

(* The set fs and the instance ep in the middle of a batch, when files are *)
(* the fds that are open.  The instance has what is existing and what was  *)
(* removed since the last apply_updates, none of it closed and none of it  *)
(* new; event is what the instance was told; and nothing is remembered of  *)
(* an fd that is in neither.                                               *)
InStep(fs, ep, files) ==
    /\ fs \in FdSets /\ fs.failed = "none"
    /\ ep \in Epolls
    /\ fs.existing \cap fs.removed = {}
    /\ fs.new \cap (fs.existing \cup fs.removed) = {}
    /\ ep.fds = fs.existing \cup fs.removed
    /\ fs.existing \cup fs.new \cup fs.removed \subseteq files
    /\ \A fd \in Fd :
          /\ fs.event[fd] = IF fd \in fs.existing THEN ep.mask[fd] ELSE {}
          /\ fd \notin fs.existing \cup fs.new => fs.new_events[fd] = {}
          /\ fd \notin ep.fds => ep.mask[fd] = {}

(* What apply_updates leaves: nothing is pending.                          *)
Settled(fs, ep) ==
    /\ fs.existing = ep.fds
    /\ fs.event = ep.mask /\ fs.new_events = ep.mask
    /\ fs.new = {} /\ fs.removed = {}

(* A new set and a new instance are in step, whatever is open.             *)
LEMMA EmptyInStep ==
    ASSUME NEW files
    PROVE  InStep(EmptyFdSet, NoEpoll, files)
BY DEF InStep, EmptyFdSet, NoEpoll, FdSets, Epolls, Events

(* What register makes of each part of the set when it accepts the fd.     *)
LEMMA RegisterParts ==
    ASSUME NEW fs \in FdSets, NEW fd \in Fd, NEW events \in SUBSET Events,
           fd \notin fs.existing \cup fs.new
    PROVE  Register(fs, fd, events) =
             [existing |-> fs.existing, event |-> fs.event,
              new_events |-> [fs.new_events EXCEPT ![fd] = events],
              new |-> fs.new \cup {fd}, removed |-> fs.removed, failed |-> fs.failed]
BY DEF Register, FdSets

(* What modify makes of them.                                              *)
LEMMA ModifyParts ==
    ASSUME NEW fs \in FdSets, NEW fd \in fs.existing, NEW e, NEW on
    PROVE  Modify(fs, fd, e, on) =
             [existing |-> fs.existing, event |-> fs.event,
              new_events |-> [fs.new_events EXCEPT
                                ![fd] = IF on THEN @ \cup {e} ELSE @ \ {e}],
              new |-> fs.new, removed |-> fs.removed, failed |-> fs.failed]
BY DEF Modify, FdSets

(* What unregister_closed makes of them.                                   *)
LEMMA UnregisterClosedParts ==
    ASSUME NEW fs \in FdSets, NEW fd \in fs.existing
    PROVE  UnregisterClosed(fs, fd) =
             [existing |-> fs.existing \ {fd}, event |-> [fs.event EXCEPT ![fd] = {}],
              new_events |-> [fs.new_events EXCEPT ![fd] = {}],
              new |-> fs.new, removed |-> fs.removed, failed |-> fs.failed]
BY DEF UnregisterClosed, Forgotten, FdSets

(* What unregister makes of them.                                          *)
LEMMA UnregisterParts ==
    ASSUME NEW fs \in FdSets, NEW fd \in fs.existing
    PROVE  Unregister(fs, fd) =
             [existing |-> fs.existing \ {fd}, event |-> [fs.event EXCEPT ![fd] = {}],
              new_events |-> [fs.new_events EXCEPT ![fd] = {}],
              new |-> fs.new, removed |-> fs.removed \cup {fd}, failed |-> fs.failed]
BY DEF Unregister, Forgotten, FdSets

(* register: an open file the set does not have is accepted.               *)
LEMMA RegisterInStep ==
    ASSUME NEW fs, NEW ep, NEW files, InStep(fs, ep, files),
           NEW fd \in Fd, NEW events \in SUBSET Events,
           fd \in files, fd \notin fs.existing \cup fs.new \cup fs.removed
    PROVE  InStep(Register(fs, fd, events), ep, files)
BY RegisterParts DEF InStep, FdSets, Epolls

(* modify of an fd that is existing changes only what is asked for.        *)
LEMMA ModifyInStep ==
    ASSUME NEW fs, NEW ep, NEW files, InStep(fs, ep, files),
           NEW fd \in fs.existing, NEW e \in Events, NEW on \in BOOLEAN
    PROVE  InStep(Modify(fs, fd, e, on), ep, files)
BY ModifyParts DEF InStep, FdSets, Epolls

(* unregister_closed: the file is closed, and with it the fd leaves the    *)
(* instance.                                                               *)
LEMMA UnregisterClosedInStep ==
    ASSUME NEW fs, NEW ep, NEW files, InStep(fs, ep, files), NEW fd \in fs.existing
    PROVE  InStep(UnregisterClosed(fs, fd), Closed(ep, {fd}), files \ {fd})
<1> DEFINE g == UnregisterClosed(fs, fd)
           q == Closed(ep, {fd})
<1>1. fs \in FdSets /\ fd \in Fd /\ ep \in Epolls
  BY DEF InStep, FdSets
<1>2. /\ g.existing = fs.existing \ {fd} /\ g.event = [fs.event EXCEPT ![fd] = {}]
      /\ g.new_events = [fs.new_events EXCEPT ![fd] = {}]
      /\ g.new = fs.new /\ g.removed = fs.removed /\ g.failed = fs.failed
  <2>1. g = [existing |-> fs.existing \ {fd}, event |-> [fs.event EXCEPT ![fd] = {}],
             new_events |-> [fs.new_events EXCEPT ![fd] = {}],
             new |-> fs.new, removed |-> fs.removed, failed |-> fs.failed]
    BY <1>1, UnregisterClosedParts
  <2> HIDE DEF g
  <2> QED BY <2>1
<1>3. g \in FdSets
  <2>1. /\ [fs.event EXCEPT ![fd] = {}] \in [Fd -> SUBSET Events]
        /\ [fs.new_events EXCEPT ![fd] = {}] \in [Fd -> SUBSET Events]
    BY <1>1 DEF FdSets
  <2> QED BY <1>1, <2>1, UnregisterClosedParts DEF FdSets
<1>4. /\ q.fds = ep.fds \ {fd} /\ q \in Epolls
      /\ q.mask = [f \in Fd |-> IF f = fd THEN {} ELSE ep.mask[f]]
  BY <1>1 DEF Closed, Epolls
<1> HIDE DEF g, q
<1>5. ASSUME NEW f \in Fd
      PROVE  /\ g.event[f] = IF f \in g.existing THEN q.mask[f] ELSE {}
             /\ f \notin g.existing \cup g.new => g.new_events[f] = {}
             /\ f \notin q.fds => q.mask[f] = {}
  <2>1. CASE f = fd
    BY <1>1, <1>2, <1>4, <2>1 DEF FdSets
  <2>2. CASE f # fd
    <3>1. g.event[f] = fs.event[f] /\ g.new_events[f] = fs.new_events[f] /\ q.mask[f] = ep.mask[f]
      BY <1>1, <1>2, <1>4, <2>2 DEF FdSets
    <3> QED BY <1>2, <1>4, <2>2, <3>1 DEF InStep
  <2> QED BY <2>1, <2>2
<1>6. InStep(g, q, files \ {fd})
  BY <1>2, <1>3, <1>4, <1>5 DEF InStep
<1> QED BY <1>6 DEF g, q

(* unregister: the file stays open, and in the instance for now.           *)
LEMMA UnregisterInStep ==
    ASSUME NEW fs, NEW ep, NEW files, InStep(fs, ep, files), NEW fd \in fs.existing
    PROVE  InStep(Unregister(fs, fd), ep, files)
<1> DEFINE g == Unregister(fs, fd)
<1>1. fs \in FdSets /\ fd \in Fd /\ ep \in Epolls
  BY DEF InStep, FdSets
<1>2. /\ g.existing = fs.existing \ {fd} /\ g.event = [fs.event EXCEPT ![fd] = {}]
      /\ g.new_events = [fs.new_events EXCEPT ![fd] = {}]
      /\ g.new = fs.new /\ g.removed = fs.removed \cup {fd} /\ g.failed = fs.failed
  <2>1. g = [existing |-> fs.existing \ {fd}, event |-> [fs.event EXCEPT ![fd] = {}],
             new_events |-> [fs.new_events EXCEPT ![fd] = {}],
             new |-> fs.new, removed |-> fs.removed \cup {fd}, failed |-> fs.failed]
    BY <1>1, UnregisterParts
  <2> HIDE DEF g
  <2> QED BY <2>1
<1>3. g \in FdSets
  <2>1. /\ [fs.event EXCEPT ![fd] = {}] \in [Fd -> SUBSET Events]
        /\ [fs.new_events EXCEPT ![fd] = {}] \in [Fd -> SUBSET Events]
    BY <1>1 DEF FdSets
  <2> QED BY <1>1, <2>1, UnregisterParts DEF FdSets
<1> HIDE DEF g
<1>4. ASSUME NEW f \in Fd
      PROVE  /\ g.event[f] = IF f \in g.existing THEN ep.mask[f] ELSE {}
             /\ f \notin g.existing \cup g.new => g.new_events[f] = {}
  <2>1. CASE f = fd
    BY <1>1, <1>2, <2>1 DEF FdSets
  <2>2. CASE f # fd
    <3>1. g.event[f] = fs.event[f] /\ g.new_events[f] = fs.new_events[f]
      BY <1>1, <1>2, <2>2 DEF FdSets
    <3> QED BY <1>2, <2>2, <3>1 DEF InStep
  <2> QED BY <2>1, <2>2
<1>5. InStep(g, ep, files)
  BY <1>2, <1>3, <1>4 DEF InStep
<1> QED BY <1>5 DEF g

(* Closing no file changes nothing.                                        *)
LEMMA NothingClosed ==
    ASSUME NEW ep \in Epolls
    PROVE  Closed(ep, {}) = ep
BY DEF Closed, Epolls

(* Files that are opened keep the two in step.                             *)
LEMMA MoreOpenInStep ==
    ASSUME NEW fs, NEW ep, NEW files, InStep(fs, ep, files), NEW more
    PROVE  InStep(fs, ep, files \cup more)
BY DEF InStep

(* apply_updates of a set that is in step with the instance: no epoll_ctl  *)
(* is refused unless a new file cannot be polled, and nothing is pending   *)
(* afterwards.                                                             *)
LEMMA UpdateInStep ==
    ASSUME NEW fs, NEW ep, NEW files, InStep(fs, ep, files)
    PROVE  /\ \A pollable : fs.new \subseteq pollable => UpdatesAccepted(fs, ep, pollable)
           /\ InStep(UpdatedFds(fs), UpdatedEpoll(fs, ep), files)
           /\ Settled(UpdatedFds(fs), UpdatedEpoll(fs, ep))
<1> DEFINE g == UpdatedFds(fs)
           q == UpdatedEpoll(fs, ep)
<1>1. fs \in FdSets /\ ep \in Epolls
  BY DEF InStep
<1>2. \A pollable : fs.new \subseteq pollable => UpdatesAccepted(fs, ep, pollable)
  BY DEF InStep, UpdatesAccepted, Dirty, FdSets
<1>3. /\ g.existing = fs.existing \cup fs.new
      /\ g.event = fs.new_events /\ g.new_events = fs.new_events
      /\ g.new = {} /\ g.removed = {} /\ g.failed = fs.failed
      /\ g \in FdSets
  BY <1>1 DEF UpdatedFds, FdSets
<1>4. q.fds = fs.existing \cup fs.new
  BY DEF InStep, UpdatedEpoll
<1>5. q.mask = fs.new_events
  <2>1. q.mask = [f \in Fd |-> IF f \in fs.removed THEN {}
                               ELSE IF f \in Dirty(fs) \cup fs.new
                               THEN fs.new_events[f] ELSE ep.mask[f]]
    BY DEF UpdatedEpoll
  <2>2. ASSUME NEW f \in Fd
        PROVE  q.mask[f] = fs.new_events[f]
    BY <2>1 DEF InStep, Dirty
  <2> QED BY <1>1, <2>1, <2>2 DEF FdSets
<1>6. q \in Epolls
  BY <1>1, <1>4, <1>5 DEF FdSets, Epolls, UpdatedEpoll
<1> HIDE DEF g, q
<1>7. InStep(g, q, files)
  BY <1>1, <1>3, <1>4, <1>5, <1>6 DEF InStep
<1>8. Settled(g, q)
  BY <1>3, <1>4, <1>5 DEF Settled
<1> QED BY <1>2, <1>7, <1>8 DEF g, q
================================================================================
