----------------------------- MODULE BufferCounts -----------------------------
(***************************************************************************)
(* The control of buffer.rs with the bytes left out: a FlipBuffer is the   *)
(* pair of the bytes unread in its read page (rd = read_max - read_cursor) *)
(* and the bytes in its write page (wr = write_cursor).  Every branch of   *)
(* buffer.rs is decided by these two numbers.  Module FlipBuffer keeps the *)
(* pages and the cursors and shows that these operators count them.        *)
(***************************************************************************)
EXTENDS Integers

CONSTANT Capacity   \* BUFFER_CAPACITY, the size of one page
ASSUME CapacityAssumption == Capacity \in Nat \ {0}

Counts == [rd : 0 .. Capacity, wr : 0 .. Capacity]

NoBytes == [rd |-> 0, wr |-> 0]

(* writable_size                                                           *)
WritableSize(b) == b.rd + b.wr

(* flip_buffers, and the two conditions it is called under                 *)
Flip(b) == [rd |-> b.wr, wr |-> 0]

BeforeRead(b) == IF b.wr = Capacity /\ b.rd = 0 THEN Flip(b) ELSE b

BeforeWrite(b) == IF b.rd = 0 /\ b.wr > 0 THEN Flip(b) ELSE b

(* The length of the slice read_from offers to the reader.                 *)
Space(b) == Capacity - BeforeRead(b).wr

(* read_from when the reader delivers n bytes.                             *)
AfterRead(b, n) == [BeforeRead(b) EXCEPT !.wr = @ + n]

ReadChange(b, n) ==
    IF n > 0 /\ WritableSize(b) = 0 THEN "BecameNonEmpty" ELSE "None"

(* The length of the slice write_to offers to the writer.                  *)
Readable(b) == BeforeWrite(b).rd

(* write_to when the writer takes n bytes.                                 *)
AfterWrite(b, n) == [BeforeWrite(b) EXCEPT !.rd = @ - n]

WriteChange(b, n) ==
    IF WritableSize(AfterWrite(b, n)) = 0 THEN "BecameEmpty" ELSE "None"

(* discard                                                                 *)
AfterDiscard(b) == [b EXCEPT !.wr = 0]
================================================================================
