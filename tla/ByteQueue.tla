------------------------------- MODULE ByteQueue -------------------------------
(***************************************************************************)
(* What a FlipBuffer promises to the channel manager: a FIFO queue of at   *)
(* most 2 * Capacity bytes whose calls report exactly the changes between  *)
(* empty and non-empty.  Nothing here speaks of pages or cursors; module   *)
(* FlipBuffer is shown to implement this specification.                    *)
(***************************************************************************)
EXTENDS Integers, Sequences

CONSTANTS Byte,      \* the values a byte can have
          Capacity   \* the size of one page of the buffer

VARIABLES queue,     \* the bytes accepted and not yet handed on, oldest first
          moved,     \* the bytes the last call exchanged with its stream
          result,    \* the CopyResult of the last call
          change     \* the BufferStateChange of the last call

qvars == <<queue, moved, result, change>>

Completed(n) == [tag |-> "IOCompleted", size |-> n]
NotReady     == [tag |-> "BufferNotReady", size |-> 0]
Failed       == [tag |-> "IOError", size |-> 0]

Init ==
    /\ queue = <<>>
    /\ moved = <<>>
    /\ result = NotReady
    /\ change = "None"

(* The change a caller must be told of when q becomes r.                   *)
ChangeFrom(q, r) ==
    IF q = <<>> /\ r # <<>> THEN "BecameNonEmpty"
    ELSE IF q # <<>> /\ r = <<>> THEN "BecameEmpty"
    ELSE "None"

(* Bytes read from a stream go to the tail; the bound is never exceeded.   *)
Put ==
    /\ moved' \in Seq(Byte)
    /\ Len(queue) + Len(moved') <= 2 * Capacity
    /\ queue' = queue \o moved'
    /\ result' = Completed(Len(moved'))
    /\ change' = ChangeFrom(queue, queue')

(* Bytes are refused only when more than one page of them is pending.      *)
Refuse ==
    /\ Len(queue) > Capacity
    /\ result' \in {NotReady, Failed}
    /\ moved' = <<>>
    /\ change' = "None"
    /\ UNCHANGED queue

(* A prefix of the queue is handed to a stream, which may fail afterwards. *)
Take(n) ==
    /\ queue # <<>>
    /\ queue' = SubSeq(queue, n + 1, Len(queue))
    /\ moved' = SubSeq(queue, 1, n)
    /\ result' \in {Completed(n), Failed}
    /\ change' = ChangeFrom(queue, queue')

(* There is nothing to hand on.                                            *)
Starve ==
    /\ queue = <<>>
    /\ moved' = <<>>
    /\ result' = NotReady
    /\ change' = "None"
    /\ UNCHANGED queue

(* The stream failed before it gave or took a byte.                        *)
Fail ==
    /\ moved' = <<>>
    /\ result' = Failed
    /\ change' = "None"
    /\ UNCHANGED queue

(* The newest bytes, at most a page of them, are forgotten.                *)
Forget(n) ==
    /\ Len(queue) - n <= Capacity
    /\ queue' = SubSeq(queue, 1, n)
    /\ moved' = <<>>
    /\ change' = ChangeFrom(queue, queue')
    /\ UNCHANGED result

Next ==
    \/ Put
    \/ Refuse
    \/ \E n \in 0 .. Len(queue) : Take(n)
    \/ Starve
    \/ Fail
    \/ \E n \in 0 .. Len(queue) : Forget(n)

Spec == Init /\ [][Next]_qvars
================================================================================
