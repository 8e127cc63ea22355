------------------------------ MODULE FlipBuffer ------------------------------
(***************************************************************************)
(* The double buffer of src/src/buffer.rs: two pages of Capacity bytes, a  *)
(* reader stream filling the write page and a writer stream emptying the   *)
(* read page.  The pages trade places (flip_buffers) when the read page    *)
(* has been emptied.  The buffer is one record with the fields of the Rust *)
(* struct; a Rust slice page[a..b] is SubSeq(page, a + 1, b).              *)
(*                                                                         *)
(* The streams are the environment: a read delivers any bytes that fit in  *)
(* the slice it is given or fails, a write takes any prefix of its slice   *)
(* or fails, and the flush that follows a write may fail by itself.        *)
(***************************************************************************)
EXTENDS Integers, Sequences

CONSTANTS Byte,      \* the values a byte can have
          Zero,      \* the byte heap_buffer fills a new page with
          Capacity   \* BUFFER_CAPACITY
ASSUME CapacityAssumption == Capacity \in Nat \ {0}
ASSUME ZeroAssumption == Zero \in Byte

VARIABLES buf,       \* the FlipBuffer
          moved,     \* the bytes the last call exchanged with its stream
          result,    \* the CopyResult it returned
          change,    \* the BufferStateChange it returned
          armed      \* history: write polling as a caller that follows every
                     \* BufferStateChange would have it

vars == <<buf, moved, result, change, armed>>

Page == [1 .. Capacity -> Byte]

Buffer == [read_page : Page, write_page : Page, read_cursor : 0 .. Capacity,
           read_max : 0 .. Capacity, write_cursor : 0 .. Capacity]

Completed(n) == [tag |-> "IOCompleted", size |-> n]
NotReady     == [tag |-> "BufferNotReady", size |-> 0]
Failed       == [tag |-> "IOError", size |-> 0]

Changes == {"BecameEmpty", "BecameNonEmpty", "None"}

heap_buffer == [i \in 1 .. Capacity |-> Zero]

new == [read_page |-> heap_buffer, write_page |-> heap_buffer,
        read_cursor |-> 0, read_max |-> 0, write_cursor |-> 0]

--------------------------------------------------------------------------------
(* The methods of the buffer.                                              *)

flip_buffers(b) ==
    [read_page |-> b.write_page, write_page |-> b.read_page,
     read_cursor |-> 0, read_max |-> b.write_cursor, write_cursor |-> 0]

is_read_empty(b) == b.read_cursor = b.read_max

is_write_empty(b) == b.write_cursor = 0

is_empty(b) == is_read_empty(b) /\ is_write_empty(b)

writable_size(b) == (b.read_max - b.read_cursor) + b.write_cursor

(* Variants with one plausible slip each.                                  *)
StealWhileUnread(b) == IF b.write_cursor = Capacity THEN flip_buffers(b) ELSE b

EmptyOnReadPageOnly(b) == IF is_read_empty(b) THEN "BecameEmpty" ELSE "None"

WritablePastEnd(b) == Capacity - b.write_cursor + 1

DiscardBothPages(b) == [b EXCEPT !.write_cursor = 0, !.read_cursor = b.read_max]

(* The flip at the start of read_from, and the slice left to read into.    *)
StealReadPage(b) ==
    IF b.write_cursor = Capacity /\ is_read_empty(b) THEN flip_buffers(b) ELSE b

writable(b) == Capacity - b.write_cursor

(* reader.read(slice) delivered s.                                         *)
Store(b, s) ==
    [b EXCEPT !.write_page =
         [i \in 1 .. Capacity |->
            IF i \in b.write_cursor + 1 .. b.write_cursor + Len(s)
            THEN s[i - b.write_cursor] ELSE @[i]],
              !.write_cursor = @ + Len(s)]

(* The change read_from reports for n bytes read into b.                   *)
read_change(b, n) ==
    IF n > 0 /\ is_empty(b) THEN "BecameNonEmpty" ELSE "None"

(* The flip at the start of write_to, and the slice there is to write.     *)
StealWritePage(b) ==
    IF is_read_empty(b) /\ b.write_cursor > 0 THEN flip_buffers(b) ELSE b

readable(b) == b.read_max - b.read_cursor

(* writer.write(slice) took n bytes.                                       *)
Advance(b, n) == [b EXCEPT !.read_cursor = @ + n]

(* The change write_to reports once the cursor stands where b has it.      *)
write_change(b) == IF is_empty(b) THEN "BecameEmpty" ELSE "None"

discarded(b) == [b EXCEPT !.write_cursor = 0]

discard_change(b) ==
    IF is_read_empty(b) /\ ~is_write_empty(b) THEN "BecameEmpty" ELSE "None"

--------------------------------------------------------------------------------
(* The calls.                                                              *)

Init ==
    /\ buf = new
    /\ moved = <<>>
    /\ result = NotReady
    /\ change = "None"
    /\ armed = FALSE

(* What every call ends with: its bytes, its return value, and the polling *)
(* a caller derives from it.                                               *)
Return(s, r, c) ==
    /\ moved' = s
    /\ result' = r
    /\ change' = c
    /\ armed' = ((armed \/ c = "BecameNonEmpty") /\ c # "BecameEmpty")

(* read_from, and read_or_drain while there is room                        *)
ReadOk(s) ==
    LET b == StealReadPage(buf)
    IN  /\ writable(b) > 0
        /\ Len(s) <= writable(b)
        /\ buf' = Store(b, s)
        /\ Return(s, Completed(Len(s)), read_change(buf, Len(s)))

ReadError ==
    /\ writable(StealReadPage(buf)) > 0
    /\ buf' = StealReadPage(buf)
    /\ Return(<<>>, Failed, "None")

(* read_from without room; read_or_drain then drains the reader, which     *)
(* turns the result into an error only when the draining read fails.       *)
ReadNotReady ==
    /\ writable(StealReadPage(buf)) = 0
    /\ buf' = StealReadPage(buf)
    /\ \E r \in {NotReady, Failed} : Return(<<>>, r, "None")

(* write_to: n bytes taken, then flush, which may fail.                    *)
WriteOk(n) ==
    LET b == StealWritePage(buf)
    IN  /\ readable(b) > 0
        /\ n <= readable(b)
        /\ buf' = Advance(b, n)
        /\ \E r \in {Completed(n), Failed} :
              Return(SubSeq(b.read_page, b.read_cursor + 1, b.read_cursor + n),
                     r, write_change(Advance(b, n)))

WriteError ==
    /\ readable(StealWritePage(buf)) > 0
    /\ buf' = StealWritePage(buf)
    /\ Return(<<>>, Failed, "None")

WriteNotReady ==
    /\ readable(StealWritePage(buf)) = 0
    /\ buf' = StealWritePage(buf)
    /\ Return(<<>>, NotReady, "None")

discard ==
    /\ buf' = discarded(buf)
    /\ Return(<<>>, result, discard_change(buf))

(* The byte sequences a stream can deliver into a slice of n bytes.        *)
Chunks(n) == UNION {[1 .. k -> Byte] : k \in 0 .. n}

Next ==
    \/ \E s \in Chunks(Capacity) : ReadOk(s)
    \/ ReadError
    \/ ReadNotReady
    \/ \E n \in 0 .. Capacity : WriteOk(n)
    \/ WriteError
    \/ WriteNotReady
    \/ discard

Spec == Init /\ [][Next]_vars

--------------------------------------------------------------------------------
(* Properties.                                                             *)

(* Every page, cursor and return value has its type, and the cursors of    *)
(* the read page are in order, so that every slice of buffer.rs is inside  *)
(* its page and no usize subtraction underflows.                           *)
TypeOK ==
    /\ buf \in Buffer
    /\ buf.read_cursor <= buf.read_max
    /\ moved \in Seq(Byte)
    /\ result \in [tag : {"IOCompleted", "BufferNotReady", "IOError"},
                   size : 0 .. Capacity]
    /\ change \in Changes
    /\ armed \in BOOLEAN

(* The bytes the buffer holds: what is unread in the read page, then what  *)
(* is in the write page.                                                   *)
Contents(b) ==
    SubSeq(b.read_page, b.read_cursor + 1, b.read_max)
        \o SubSeq(b.write_page, 1, b.write_cursor)

Queue == INSTANCE ByteQueue WITH queue <- Contents(buf)

(* The pages and cursors of FlipBuffer implement a FIFO queue: whatever    *)
(* calls are made, no flip reorders, duplicates or drops a byte, a read is *)
(* refused only when more than a page is pending, and each call reports    *)
(* exactly the change between empty and non-empty that it made.            *)
ImplementsQueue == Queue!Spec

(* A caller that starts polling for write on BecameNonEmpty and stops on   *)
(* BecameEmpty polls exactly while there are bytes to write: no sequence   *)
(* of reads, partial writes, failed flushes, flips and discards makes it   *)
(* miss or keep a wakeup.  io.rs follows the reports of reads and writes   *)
(* so; that of discard it does not look at (io.rs:357, 379, 396).          *)
ArmedIffPending == armed <=> writable_size(buf) > 0

(* The two numbers module BufferCounts works with.                         *)
Count(b) == [rd |-> b.read_max - b.read_cursor, wr |-> b.write_cursor]

C == INSTANCE BufferCounts

(* BufferCounts counts this buffer: every call on the pages and cursors    *)
(* changes the two counts, and reports, as the operators of BufferCounts   *)
(* say; the models that use the counts leave out only the bytes.           *)
CountsAgree ==
    /\ writable_size(buf) = C!WritableSize(Count(buf))
    /\ writable(StealReadPage(buf)) = C!Space(Count(buf))
    /\ readable(StealWritePage(buf)) = C!Readable(Count(buf))
    /\ \A s \in Chunks(writable(StealReadPage(buf))) :
          /\ Count(Store(StealReadPage(buf), s)) = C!AfterRead(Count(buf), Len(s))
          /\ read_change(buf, Len(s)) = C!ReadChange(Count(buf), Len(s))
    /\ \A n \in 0 .. readable(StealWritePage(buf)) :
          LET b == Advance(StealWritePage(buf), n)
          IN  /\ Count(b) = C!AfterWrite(Count(buf), n)
              /\ write_change(b) = C!WriteChange(Count(buf), n)
    /\ Count(discarded(buf)) = C!AfterDiscard(Count(buf))
================================================================================
