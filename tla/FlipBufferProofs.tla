--------------------------- MODULE FlipBufferProofs ---------------------------
(***************************************************************************)
(* Proofs about FlipBuffer, for every set of bytes and every page size.    *)
(***************************************************************************)
EXTENDS FlipBuffer, SequenceTheorems, TLAPS

(* A buffer whose read cursors are in order: the part of TypeOK that is    *)
(* about the buffer alone, preserved by every method.                      *)
WellFormed(b) == b \in Buffer /\ b.read_cursor <= b.read_max

--------------------------------------------------------------------------------
(* What the methods preserve.                                              *)

(* flip_buffers gives a well-formed buffer holding the old write page.     *)
LEMMA FlipWellFormed ==
    ASSUME NEW b, WellFormed(b)
    PROVE  /\ WellFormed(flip_buffers(b))
           /\ Count(flip_buffers(b)) = [rd |-> b.write_cursor, wr |-> 0]
BY CapacityAssumption DEF WellFormed, Buffer, Page, flip_buffers, Count

(* So do the flips read_from and write_to may start with, which change the *)
(* two counts as BufferCounts says.                                        *)
LEMMA StealWellFormed ==
    ASSUME NEW b, WellFormed(b)
    PROVE  /\ WellFormed(StealReadPage(b))
           /\ WellFormed(StealWritePage(b))
           /\ Count(StealReadPage(b)) = C!BeforeRead(Count(b))
           /\ Count(StealWritePage(b)) = C!BeforeWrite(Count(b))
BY FlipWellFormed, CapacityAssumption
DEF WellFormed, Buffer, StealReadPage, StealWritePage, is_read_empty, Count,
    C!BeforeRead, C!BeforeWrite, C!Flip

(* What a stream delivers into a slice of n bytes is at most n bytes.      *)
LEMMA ChunksAreSeqs ==
    ASSUME NEW n \in Nat, NEW s \in Chunks(n)
    PROVE  s \in Seq(Byte) /\ Len(s) \in 0 .. n
<1>1. PICK k \in 0 .. n : s \in [1 .. k -> Byte]
  BY DEF Chunks
<1>2. s \in Seq(Byte) /\ Len(s) = k
  BY <1>1
<1> QED BY <1>2

(* read_from: storing what fits moves the write cursor, within its page.   *)
LEMMA StoreWellFormed ==
    ASSUME NEW b, WellFormed(b), NEW s \in Seq(Byte), Len(s) <= writable(b)
    PROVE  /\ WellFormed(Store(b, s))
           /\ Count(Store(b, s)) = [Count(b) EXCEPT !.wr = @ + Len(s)]
<1> DEFINE p == [i \in 1 .. Capacity |->
                   IF i \in b.write_cursor + 1 .. b.write_cursor + Len(s)
                   THEN s[i - b.write_cursor] ELSE b.write_page[i]]
<1>1. Len(s) \in Nat /\ b.write_cursor \in 0 .. Capacity
      /\ b.write_cursor + Len(s) \in 0 .. Capacity
  BY CapacityAssumption DEF WellFormed, Buffer, writable
<1>2. p \in Page
  <2> SUFFICES ASSUME NEW i \in 1 .. Capacity
               PROVE  p[i] \in Byte
    BY DEF Page
  <2>1. CASE i \in b.write_cursor + 1 .. b.write_cursor + Len(s)
    <3>1. i - b.write_cursor \in 1 .. Len(s)
      BY <1>1, <2>1, CapacityAssumption
    <3> QED BY <2>1, <3>1, ElementOfSeq
  <2>2. CASE i \notin b.write_cursor + 1 .. b.write_cursor + Len(s)
    BY <2>2 DEF WellFormed, Buffer, Page
  <2> QED BY <2>1, <2>2
<1>3. Store(b, s) = [b EXCEPT !.write_page = p, !.write_cursor = @ + Len(s)]
  BY DEF Store
<1> HIDE DEF p
<1> DEFINE t == Store(b, s)
<1>4. b \in Buffer /\ b.read_cursor <= b.read_max
  BY DEF WellFormed
<1>5. t = [read_page |-> b.read_page, write_page |-> p,
           read_cursor |-> b.read_cursor, read_max |-> b.read_max,
           write_cursor |-> b.write_cursor + Len(s)]
  BY <1>3, <1>4 DEF Buffer
<1> HIDE DEF t
<1>6. WellFormed(t)
  BY <1>1, <1>2, <1>4, <1>5 DEF WellFormed, Buffer
<1>7. Count(t) = [Count(b) EXCEPT !.wr = @ + Len(s)]
  BY <1>5 DEF Count
<1> QED BY <1>6, <1>7 DEF t

(* write_to: the read cursor never passes read_max.                        *)
LEMMA AdvanceWellFormed ==
    ASSUME NEW b, WellFormed(b), NEW n \in Nat, n <= readable(b)
    PROVE  /\ WellFormed(Advance(b, n))
           /\ Count(Advance(b, n)) = [Count(b) EXCEPT !.rd = @ - n]
BY CapacityAssumption DEF WellFormed, Buffer, readable, Advance, Count

(* discard rewinds the write cursor and nothing else.                      *)
LEMMA DiscardWellFormed ==
    ASSUME NEW b, WellFormed(b)
    PROVE  /\ WellFormed(discarded(b))
           /\ Count(discarded(b)) = [Count(b) EXCEPT !.wr = 0]
BY CapacityAssumption DEF WellFormed, Buffer, discarded, Count
--------------------------------------------------------------------------------
(* What the methods do to the bytes the buffer holds.                      *)

(* The two slices of a well-formed buffer, element by element.             *)
LEMMA SliceFacts ==
    ASSUME NEW b, WellFormed(b)
    PROVE  LET r == SubSeq(b.read_page, b.read_cursor + 1, b.read_max)
               w == SubSeq(b.write_page, 1, b.write_cursor)
           IN  /\ r \in Seq(Byte) /\ Len(r) = b.read_max - b.read_cursor
               /\ \A i \in 1 .. Len(r) : r[i] = b.read_page[b.read_cursor + i]
               /\ w \in Seq(Byte) /\ Len(w) = b.write_cursor
               /\ \A i \in 1 .. Len(w) : w[i] = b.write_page[i]
<1> DEFINE r == SubSeq(b.read_page, b.read_cursor + 1, b.read_max)
           w == SubSeq(b.write_page, 1, b.write_cursor)
<1>1. /\ b.read_cursor \in 0 .. Capacity /\ b.read_max \in 0 .. Capacity
      /\ b.write_cursor \in 0 .. Capacity /\ b.read_cursor <= b.read_max
      /\ \A i \in 1 .. Capacity : b.read_page[i] \in Byte /\ b.write_page[i] \in Byte
  BY DEF WellFormed, Buffer, Page
<1>2. /\ r \in Seq(Byte) /\ Len(r) = b.read_max - b.read_cursor
      /\ \A i \in 1 .. Len(r) : r[i] = b.read_page[b.read_cursor + i]
  <2>1. \A i \in b.read_cursor + 1 .. b.read_max : b.read_page[i] \in Byte
    BY <1>1, CapacityAssumption
  <2>2. /\ r \in Seq(Byte)
        /\ Len(r) = IF b.read_cursor + 1 <= b.read_max
                    THEN b.read_max - (b.read_cursor + 1) + 1 ELSE 0
        /\ \A i \in 1 .. b.read_max - (b.read_cursor + 1) + 1 :
              r[i] = b.read_page[b.read_cursor + 1 + i - 1]
    BY <1>1, <2>1, SubSeqProperties, CapacityAssumption
  <2> HIDE DEF r
  <2>3. Len(r) = b.read_max - b.read_cursor
    BY <1>1, <2>2, CapacityAssumption
  <2>4. ASSUME NEW i \in 1 .. Len(r) PROVE r[i] = b.read_page[b.read_cursor + i]
    <3>1. b.read_cursor + 1 + i - 1 = b.read_cursor + i
          /\ i \in 1 .. b.read_max - (b.read_cursor + 1) + 1
      BY <1>1, <2>3, CapacityAssumption
    <3> QED BY <2>2, <3>1
  <2> QED BY <2>2, <2>3, <2>4
<1>3. /\ w \in Seq(Byte) /\ Len(w) = b.write_cursor
      /\ \A i \in 1 .. Len(w) : w[i] = b.write_page[i]
  <2>1. \A i \in 1 .. b.write_cursor : b.write_page[i] \in Byte
    BY <1>1, CapacityAssumption
  <2>2. /\ w \in Seq(Byte)
        /\ Len(w) = IF 1 <= b.write_cursor THEN b.write_cursor - 1 + 1 ELSE 0
        /\ \A i \in 1 .. b.write_cursor - 1 + 1 : w[i] = b.write_page[1 + i - 1]
    BY <1>1, <2>1, SubSeqProperties, CapacityAssumption
  <2> HIDE DEF w
  <2>3. Len(w) = b.write_cursor
    BY <1>1, <2>2, CapacityAssumption
  <2>4. ASSUME NEW i \in 1 .. Len(w) PROVE w[i] = b.write_page[i]
    <3>1. 1 + i - 1 = i /\ i \in 1 .. b.write_cursor - 1 + 1
      BY <1>1, <2>3, CapacityAssumption
    <3> QED BY <2>2, <3>1
  <2> QED BY <2>2, <2>3, <2>4
<1> QED BY <1>2, <1>3

(* The contents of a well-formed buffer, element by element: the basis of  *)
(* every statement about them below.                                       *)
LEMMA ContentsFacts ==
    ASSUME NEW b, WellFormed(b)
    PROVE  /\ Contents(b) \in Seq(Byte)
           /\ Len(Contents(b)) = writable_size(b)
           /\ writable_size(b) \in Nat
           /\ \A i \in 1 .. writable_size(b) :
                 Contents(b)[i] = IF i <= readable(b)
                                  THEN b.read_page[b.read_cursor + i]
                                  ELSE b.write_page[i - readable(b)]
<1> DEFINE r == SubSeq(b.read_page, b.read_cursor + 1, b.read_max)
           w == SubSeq(b.write_page, 1, b.write_cursor)
<1>1. /\ r \in Seq(Byte) /\ Len(r) = b.read_max - b.read_cursor
      /\ \A i \in 1 .. Len(r) : r[i] = b.read_page[b.read_cursor + i]
      /\ w \in Seq(Byte) /\ Len(w) = b.write_cursor
      /\ \A i \in 1 .. Len(w) : w[i] = b.write_page[i]
  BY SliceFacts
<1>2. Contents(b) = r \o w
  BY DEF Contents
<1> HIDE DEF r, w
<1>3. /\ r \o w \in Seq(Byte)
      /\ Len(r \o w) = Len(r) + Len(w)
      /\ \A i \in 1 .. Len(r) + Len(w) :
            (r \o w)[i] = IF i <= Len(r) THEN r[i] ELSE w[i - Len(r)]
  BY <1>1, ConcatProperties
<1>4. Len(r) \in Nat /\ Len(w) \in Nat
  BY <1>1, LenProperties
<1>5. ASSUME NEW i \in 1 .. writable_size(b)
      PROVE  Contents(b)[i] = IF i <= readable(b)
                              THEN b.read_page[b.read_cursor + i]
                              ELSE b.write_page[i - readable(b)]
  <2>1. i \in 1 .. Len(r) + Len(w) /\ readable(b) = Len(r)
    BY <1>1, <1>4 DEF writable_size, readable
  <2>2. CASE i <= Len(r)
    <3>1. i \in 1 .. Len(r)
      BY <2>1, <2>2, <1>4
    <3> QED BY <1>1, <1>2, <1>3, <2>1, <2>2, <3>1
  <2>3. CASE ~(i <= Len(r))
    <3>1. i - Len(r) \in 1 .. Len(w)
      BY <2>1, <2>3, <1>4
    <3> QED BY <1>1, <1>2, <1>3, <2>1, <2>3, <3>1
  <2> QED BY <2>2, <2>3
<1> QED BY <1>1, <1>2, <1>3, <1>4, <1>5 DEF writable_size

(* Flipping an emptied read page away leaves the contents as they are.     *)
LEMMA ContentsFlip ==
    ASSUME NEW b, WellFormed(b), is_read_empty(b)
    PROVE  Contents(flip_buffers(b)) = Contents(b)
<1> DEFINE f == flip_buffers(b)
<1>1. WellFormed(f)
  BY FlipWellFormed
<1>2. /\ f.read_page = b.write_page /\ f.read_cursor = 0
      /\ f.read_max = b.write_cursor /\ f.write_cursor = 0
  BY DEF flip_buffers
<1>3. b.read_cursor \in Nat /\ b.read_max = b.read_cursor /\ b.write_cursor \in Nat
  BY CapacityAssumption DEF WellFormed, Buffer, is_read_empty
<1> HIDE DEF f
<1>4. /\ writable_size(f) = b.write_cursor /\ readable(f) = b.write_cursor
      /\ writable_size(b) = b.write_cursor /\ readable(b) = 0
  BY <1>2, <1>3 DEF writable_size, readable
<1>5. \A i \in 1 .. b.write_cursor : Contents(f)[i] = b.write_page[i]
  BY <1>1, <1>2, <1>3, <1>4, ContentsFacts
<1>6. \A i \in 1 .. b.write_cursor : Contents(b)[i] = b.write_page[i]
  BY <1>3, <1>4, ContentsFacts
<1>7. /\ Contents(f) \in Seq(Byte) /\ Contents(b) \in Seq(Byte)
      /\ Len(Contents(f)) = b.write_cursor /\ Len(Contents(b)) = b.write_cursor
  BY <1>1, <1>4, ContentsFacts
<1> HIDE DEF Contents
<1>8. Contents(f) = Contents(b)
  BY <1>5, <1>6, <1>7, SeqEqual
<1> QED BY <1>8 DEF f

(* Neither call that may flip first changes the contents by doing so.      *)
LEMMA ContentsSteal ==
    ASSUME NEW b, WellFormed(b)
    PROVE  /\ Contents(StealReadPage(b)) = Contents(b)
           /\ Contents(StealWritePage(b)) = Contents(b)
BY ContentsFlip DEF StealReadPage, StealWritePage

(* Where byte i of r unread bytes, w in the write page and n new ones is.  *)
LEMMA IndexArithmetic ==
    ASSUME NEW i \in Nat, NEW r \in Nat, NEW w \in Nat, NEW n \in Nat,
           NEW k \in Nat, 1 <= i, w + n <= k, i <= (r + w) + n, ~(i <= r)
    PROVE  /\ i - r \in 1 .. k
           /\ i <= r + w => i - r \in 1 .. w /\ i - r \notin w + 1 .. w + n
           /\ ~(i <= r + w) => /\ i - r \in w + 1 .. w + n
                              /\ (i - r) - w = i - (r + w)
OBVIOUS

(* Storing s appends it.                                                   *)
LEMMA ContentsStore ==
    ASSUME NEW b, WellFormed(b), NEW s \in Seq(Byte), Len(s) <= writable(b)
    PROVE  Contents(Store(b, s)) = Contents(b) \o s
<1> DEFINE t == Store(b, s)
<1>1. /\ b.read_cursor \in Nat /\ b.read_max \in Nat /\ b.write_cursor \in Nat
      /\ b.read_cursor <= b.read_max /\ Len(s) \in Nat
      /\ b.write_cursor + Len(s) <= Capacity
  BY LenProperties, CapacityAssumption DEF WellFormed, Buffer, writable
<1>2. WellFormed(t)
  BY StoreWellFormed
<1>3. /\ t.read_page = b.read_page /\ t.read_cursor = b.read_cursor
      /\ t.read_max = b.read_max /\ t.write_cursor = b.write_cursor + Len(s)
  BY DEF Store, WellFormed, Buffer
<1>4. t.write_page =
         [i \in 1 .. Capacity |->
            IF i \in b.write_cursor + 1 .. b.write_cursor + Len(s)
            THEN s[i - b.write_cursor] ELSE b.write_page[i]]
  BY DEF Store, WellFormed, Buffer
<1> HIDE DEF t
<1>5. /\ readable(t) = readable(b) /\ readable(b) \in Nat
      /\ writable_size(b) = readable(b) + b.write_cursor
      /\ writable_size(t) = writable_size(b) + Len(s)
  BY <1>1, <1>3 DEF readable, writable_size
<1> DEFINE c == Contents(b) u == Contents(t)
<1>6. /\ c \in Seq(Byte) /\ Len(c) = writable_size(b) /\ writable_size(b) \in Nat
      /\ u \in Seq(Byte) /\ Len(u) = writable_size(t)
  BY <1>2, ContentsFacts
<1>7. /\ c \o s \in Seq(Byte) /\ Len(c \o s) = Len(c) + Len(s)
      /\ \A i \in 1 .. Len(c) + Len(s) :
            (c \o s)[i] = IF i <= Len(c) THEN c[i] ELSE s[i - Len(c)]
  BY <1>6, ConcatProperties
<1>8. \A i \in 1 .. writable_size(b) :
         c[i] = IF i <= readable(b) THEN b.read_page[b.read_cursor + i]
                                    ELSE b.write_page[i - readable(b)]
  BY ContentsFacts
<1>9. \A i \in 1 .. writable_size(t) :
         u[i] = IF i <= readable(t) THEN t.read_page[t.read_cursor + i]
                                    ELSE t.write_page[i - readable(t)]
  BY <1>2, ContentsFacts
<1> HIDE DEF c, u
<1>10. ASSUME NEW i \in 1 .. Len(u) PROVE u[i] = (c \o s)[i]
  <2>0. i \in 1 .. writable_size(t) /\ i \in 1 .. Len(c) + Len(s)
    BY <1>5, <1>6
  <2> DEFINE r == readable(b) w == b.write_cursor n == Len(s)
  <2>4. /\ i \in Nat /\ 1 <= i /\ i <= (r + w) + n /\ Len(c) = r + w
        /\ r \in Nat /\ w \in Nat /\ n \in Nat /\ w + n <= Capacity
        /\ readable(t) = r /\ writable_size(b) = r + w /\ Capacity \in Nat
    BY <2>0, <1>1, <1>5, <1>6, CapacityAssumption
  <2> HIDE DEF r, w, n
  <2>5. ~(i <= r) =>
          /\ i - r \in 1 .. Capacity
          /\ i <= r + w => i - r \in 1 .. w /\ i - r \notin w + 1 .. w + n
          /\ ~(i <= r + w) => /\ i - r \in w + 1 .. w + n
                             /\ (i - r) - w = i - (r + w)
    BY <2>4, IndexArithmetic
  <2>1. CASE i <= readable(b)
    <3>1. i \in 1 .. writable_size(b)
      BY <2>1, <1>1, <1>5
    <3>2. u[i] = b.read_page[b.read_cursor + i]
      BY <2>0, <2>1, <1>3, <1>5, <1>9
    <3>3. (c \o s)[i] = c[i]
      BY <2>0, <3>1, <1>6, <1>7
    <3> QED BY <3>1, <3>2, <3>3, <2>1, <1>8
  <2>2. CASE ~(i <= readable(b)) /\ i <= Len(c)
    <3>1. /\ i \in 1 .. writable_size(b)
          /\ i - r \in 1 .. Capacity /\ i - r \notin w + 1 .. w + n
      BY <2>2, <2>4, <2>5 DEF r
    <3>2. u[i] = b.write_page[i - readable(b)]
      BY <2>0, <2>2, <3>1, <1>4, <1>5, <1>9 DEF r, w, n
    <3>3. (c \o s)[i] = c[i]
      BY <2>0, <2>2, <1>7
    <3> QED BY <3>1, <3>2, <3>3, <2>2, <1>8
  <2>3. CASE ~(i <= Len(c))
    <3>1. /\ i - r \in w + 1 .. w + n /\ i - r \in 1 .. Capacity
          /\ (i - r) - w = i - Len(c) /\ ~(i <= r)
      BY <2>3, <2>4, <2>5
    <3>2. u[i] = s[i - Len(c)]
      BY <2>0, <3>1, <1>4, <1>5, <1>9 DEF r, w, n
    <3> QED BY <2>0, <2>3, <3>2, <1>7
  <2> QED BY <2>1, <2>2, <2>3
<1>11. u = c \o s
  BY <1>5, <1>6, <1>7, <1>10, SeqEqual
<1> QED BY <1>11 DEF u, c, t

(* Advancing the read cursor hands on a prefix and keeps the rest.         *)
LEMMA ContentsAdvance ==
    ASSUME NEW b, WellFormed(b), NEW n \in Nat, n <= readable(b)
    PROVE  LET c == Contents(b)
           IN  /\ Contents(Advance(b, n)) = SubSeq(c, n + 1, Len(c))
               /\ SubSeq(b.read_page, b.read_cursor + 1, b.read_cursor + n)
                     = SubSeq(c, 1, n)
<1> DEFINE c == Contents(b)
           t == Advance(b, n)
           u == Contents(t)
           r == readable(b)
           w == b.write_cursor
           m == b.read_cursor
<1>1. /\ m \in Nat /\ w \in Nat /\ r \in Nat /\ n <= r
      /\ m + r = b.read_max /\ b.read_max <= Capacity
      /\ writable_size(b) = r + w /\ Capacity \in Nat
  BY CapacityAssumption DEF WellFormed, Buffer, readable, writable_size
<1>2. WellFormed(t)
  BY AdvanceWellFormed
<1>3. /\ t.read_page = b.read_page /\ t.read_cursor = m + n
      /\ t.write_page = b.write_page
      /\ t.read_max = b.read_max /\ t.write_cursor = w
  BY DEF Advance, WellFormed, Buffer
<1> HIDE DEF t
<1>4. readable(t) = r - n /\ writable_size(t) = (r - n) + w
  BY <1>1, <1>3 DEF readable, writable_size
<1>5. /\ c \in Seq(Byte) /\ Len(c) = r + w
      /\ \A i \in 1 .. r + w : c[i] = IF i <= r THEN b.read_page[m + i]
                                      ELSE b.write_page[i - r]
  BY <1>1, ContentsFacts
<1>6. /\ u \in Seq(Byte) /\ Len(u) = (r - n) + w
      /\ \A i \in 1 .. (r - n) + w :
            u[i] = IF i <= r - n THEN b.read_page[(m + n) + i]
                   ELSE b.write_page[i - (r - n)]
  BY <1>2, <1>3, <1>4, ContentsFacts
<1>7. \A i \in 1 .. m + r : b.read_page[i] \in Byte
  BY <1>1, CapacityAssumption DEF WellFormed, Buffer, Page
<1> HIDE DEF c, u, r, w, m
<1>8. u = SubSeq(c, n + 1, Len(c))
  <2> DEFINE v == SubSeq(c, n + 1, Len(c))
  <2>1. \A i \in n + 1 .. Len(c) : c[i] \in Byte
    BY <1>1, <1>5, ElementOfSeq
  <2>2. /\ v \in Seq(Byte)
        /\ Len(v) = IF n + 1 <= Len(c) THEN Len(c) - (n + 1) + 1 ELSE 0
        /\ \A i \in 1 .. Len(c) - (n + 1) + 1 : v[i] = c[n + 1 + i - 1]
    BY <1>1, <1>5, <2>1, SubSeqProperties
  <2> HIDE DEF v
  <2>3. Len(v) = (r - n) + w
    BY <1>1, <1>5, <2>2
  <2>4. ASSUME NEW i \in 1 .. (r - n) + w PROVE u[i] = v[i]
    <3>1. /\ i \in Nat /\ 1 <= i /\ i <= (r - n) + w
          /\ i \in 1 .. Len(c) - (n + 1) + 1 /\ n + 1 + i - 1 = n + i
          /\ n + i \in 1 .. r + w
      BY <1>1, <1>5
    <3>2. v[i] = c[n + i]
      BY <2>2, <3>1
    <3>3. CASE i <= r - n
      <4>1. n + i <= r /\ m + (n + i) = (m + n) + i
        BY <3>1, <3>3, <1>1
      <4> QED BY <1>5, <1>6, <3>1, <3>2, <3>3, <4>1
    <3>4. CASE ~(i <= r - n)
      <4>1. ~(n + i <= r) /\ (n + i) - r = i - (r - n)
        BY <3>1, <3>4, <1>1
      <4> QED BY <1>5, <1>6, <3>1, <3>2, <3>4, <4>1
    <3> QED BY <3>3, <3>4
  <2>5. u = v
    BY <1>6, <2>2, <2>3, <2>4, SeqEqual
  <2> QED BY <2>5 DEF v
<1>9. SubSeq(b.read_page, m + 1, m + n) = SubSeq(c, 1, n)
  <2> DEFINE p == SubSeq(b.read_page, m + 1, m + n)
             q == SubSeq(c, 1, n)
  <2>1. \A i \in m + 1 .. m + n : b.read_page[i] \in Byte
    BY <1>1, <1>7
  <2>2. \A i \in 1 .. n : c[i] \in Byte
    BY <1>1, <1>5, ElementOfSeq
  <2>3. /\ p \in Seq(Byte)
        /\ Len(p) = IF m + 1 <= m + n THEN (m + n) - (m + 1) + 1 ELSE 0
        /\ \A i \in 1 .. (m + n) - (m + 1) + 1 : p[i] = b.read_page[m + 1 + i - 1]
    BY <1>1, <2>1, SubSeqProperties
  <2>4. /\ q \in Seq(Byte)
        /\ Len(q) = IF 1 <= n THEN n - 1 + 1 ELSE 0
        /\ \A i \in 1 .. n - 1 + 1 : q[i] = c[1 + i - 1]
    BY <1>1, <2>2, SubSeqProperties
  <2> HIDE DEF p, q
  <2>5. Len(p) = n /\ Len(q) = n
    BY <1>1, <2>3, <2>4
  <2>6. ASSUME NEW i \in 1 .. n PROVE p[i] = q[i]
    <3>1. /\ i \in 1 .. (m + n) - (m + 1) + 1 /\ m + 1 + i - 1 = m + i
          /\ i \in 1 .. n - 1 + 1 /\ 1 + i - 1 = i
          /\ i \in 1 .. r + w /\ i <= r
      BY <1>1
    <3> QED BY <1>5, <2>3, <2>4, <3>1
  <2>7. p = q
    BY <2>3, <2>4, <2>5, <2>6, SeqEqual
  <2> QED BY <2>7 DEF p, q
<1> QED BY <1>8, <1>9 DEF c, u, t, m

(* Discarding keeps what is unread in the read page.                       *)
LEMMA ContentsDiscard ==
    ASSUME NEW b, WellFormed(b)
    PROVE  Contents(discarded(b)) = SubSeq(Contents(b), 1, readable(b))
<1> DEFINE c == Contents(b)
           t == discarded(b)
           u == Contents(t)
           r == readable(b)
           w == b.write_cursor
<1>1. r \in Nat /\ w \in Nat /\ writable_size(b) = r + w
  BY CapacityAssumption DEF WellFormed, Buffer, readable, writable_size
<1>2. WellFormed(t)
  BY DiscardWellFormed
<1>3. /\ t.read_page = b.read_page /\ t.read_cursor = b.read_cursor
      /\ t.read_max = b.read_max /\ t.write_cursor = 0
  BY DEF discarded, WellFormed, Buffer
<1> HIDE DEF t
<1>4. readable(t) = r /\ writable_size(t) = r
  BY <1>1, <1>3 DEF readable, writable_size
<1>5. /\ c \in Seq(Byte) /\ Len(c) = r + w
      /\ \A i \in 1 .. r + w : i <= r => c[i] = b.read_page[b.read_cursor + i]
  BY <1>1, ContentsFacts
<1>6. /\ u \in Seq(Byte) /\ Len(u) = r
      /\ \A i \in 1 .. r : i <= r => u[i] = b.read_page[b.read_cursor + i]
  BY <1>2, <1>3, <1>4, ContentsFacts
<1> DEFINE v == SubSeq(c, 1, r)
<1> HIDE DEF c, u, r, w
<1>7. \A i \in 1 .. r : c[i] \in Byte
  BY <1>1, <1>5, ElementOfSeq
<1>8. /\ v \in Seq(Byte)
      /\ Len(v) = IF 1 <= r THEN r - 1 + 1 ELSE 0
      /\ \A i \in 1 .. r - 1 + 1 : v[i] = c[1 + i - 1]
  BY <1>1, <1>7, SubSeqProperties
<1> HIDE DEF v
<1>9. Len(v) = r
  BY <1>1, <1>8
<1>10. ASSUME NEW i \in 1 .. r PROVE u[i] = v[i]
  <2>1. i \in 1 .. r - 1 + 1 /\ 1 + i - 1 = i /\ i \in 1 .. r + w /\ i <= r
    BY <1>1
  <2> QED BY <1>5, <1>6, <1>8, <2>1
<1>11. u = v
  BY <1>6, <1>8, <1>9, <1>10, SeqEqual
<1> QED BY <1>11 DEF u, v, c, t, r

(* The buffer is empty exactly when it holds no bytes.                     *)
LEMMA EmptyFacts ==
    ASSUME NEW b, WellFormed(b)
    PROVE  /\ is_empty(b) <=> Contents(b) = <<>>
           /\ is_empty(b) <=> writable_size(b) = 0
           /\ writable_size(b) \in Nat
           /\ readable(b) \in 0 .. writable_size(b)
           /\ writable_size(b) <= 2 * Capacity
<1>1. /\ b.read_cursor \in Nat /\ b.read_max \in Nat /\ b.write_cursor \in Nat
      /\ b.read_cursor <= b.read_max
      /\ b.read_max <= Capacity /\ b.write_cursor <= Capacity
  BY CapacityAssumption DEF WellFormed, Buffer
<1>2. is_empty(b) <=> writable_size(b) = 0
  <2> DEFINE x == b.read_cursor y == b.read_max z == b.write_cursor
  <2>1. x \in Nat /\ y \in Nat /\ z \in Nat /\ x <= y
    BY <1>1
  <2>2. (is_empty(b) <=> x = y /\ z = 0) /\ writable_size(b) = (y - x) + z
    BY DEF is_empty, is_read_empty, is_write_empty, writable_size
  <2> HIDE DEF x, y, z
  <2> QED BY <2>1, <2>2
<1>3. Contents(b) \in Seq(Byte) /\ Len(Contents(b)) = writable_size(b)
  BY ContentsFacts
<1>4. Contents(b) = <<>> <=> Len(Contents(b)) = 0
  BY <1>3, EmptySeq
<1> QED BY <1>1, <1>2, <1>3, <1>4, CapacityAssumption
        DEF writable_size, readable

--------------------------------------------------------------------------------
(* The calls.                                                              *)

(* What TypeOK says of the buffer.                                         *)
LEMMA TypeGivesWellFormed == TypeOK <=> /\ WellFormed(buf)
                                        /\ moved \in Seq(Byte)
                                        /\ result \in [tag : {"IOCompleted", "BufferNotReady", "IOError"},
                                                       size : 0 .. Capacity]
                                        /\ change \in Changes
                                        /\ armed \in BOOLEAN
BY DEF TypeOK, WellFormed

(* The first state.                                                        *)
LEMMA InitFacts == Init => TypeOK /\ ArmedIffPending /\ Queue!Init
<1> SUFFICES ASSUME Init PROVE TypeOK /\ ArmedIffPending /\ Queue!Init
  OBVIOUS
<1>1. heap_buffer \in Page
  BY ZeroAssumption DEF heap_buffer, Page
<1>2. WellFormed(buf)
  BY <1>1, CapacityAssumption DEF Init, new, WellFormed, Buffer
<1>3. /\ buf.read_cursor = 0 /\ buf.read_max = 0 /\ buf.write_cursor = 0
      /\ moved = <<>> /\ armed = FALSE /\ change = "None" /\ result = NotReady
  BY DEF Init, new
<1>4. writable_size(buf) = 0 /\ is_empty(buf)
  BY <1>3 DEF writable_size, is_empty, is_read_empty, is_write_empty
<1>5. Contents(buf) = <<>>
  BY <1>2, <1>4, EmptyFacts
<1>6. TypeOK
  <2>1. moved \in Seq(Byte)
    BY <1>3
  <2>2. result \in [tag : {"IOCompleted", "BufferNotReady", "IOError"},
                    size : 0 .. Capacity]
    BY <1>3, CapacityAssumption DEF NotReady
  <2> QED BY <1>2, <1>3, <2>1, <2>2 DEF TypeOK, WellFormed, Changes
<1>7. ArmedIffPending
  BY <1>3, <1>4 DEF ArmedIffPending
<1>8. Queue!Init
  BY <1>3, <1>5 DEF Queue!Init, Queue!NotReady, NotReady
<1> QED BY <1>6, <1>7, <1>8

(* What every call has in common: it leaves a well-formed buffer and       *)
(* reports the change it made, so the caller's polling stays right.        *)
LEMMA ReturnFacts ==
    ASSUME TypeOK, ArmedIffPending, WellFormed(buf'),
           NEW s \in Seq(Byte),
           NEW r \in [tag : {"IOCompleted", "BufferNotReady", "IOError"},
                      size : 0 .. Capacity],
           NEW c, c = Queue!ChangeFrom(Contents(buf), Contents(buf')),
           Return(s, r, c)
    PROVE  TypeOK' /\ ArmedIffPending'
<1>1. moved' = s /\ result' = r /\ change' = c
      /\ armed' = ((armed \/ c = "BecameNonEmpty") /\ c # "BecameEmpty")
  BY DEF Return
<1>2. c \in Changes
  BY DEF Queue!ChangeFrom, Changes
<1>3. armed' \in BOOLEAN
  BY <1>1
<1>4. TypeOK'
  BY <1>1, <1>2, <1>3 DEF TypeOK, WellFormed
<1>5. WellFormed(buf)
  BY TypeGivesWellFormed
<1>6. /\ Contents(buf) = <<>> <=> ~(writable_size(buf) > 0)
      /\ Contents(buf') = <<>> <=> ~(writable_size(buf') > 0)
  <2>1. /\ Contents(buf) = <<>> <=> writable_size(buf) = 0
        /\ writable_size(buf) \in Nat
    BY <1>5, EmptyFacts
  <2>2. /\ Contents(buf') = <<>> <=> writable_size(buf') = 0
        /\ writable_size(buf') \in Nat
    BY EmptyFacts
  <2> QED BY <2>1, <2>2
<1>7. armed' <=> writable_size(buf') > 0
  <2> DEFINE e == Contents(buf) = <<>> f == Contents(buf') = <<>>
  <2>1. c = IF e /\ ~f THEN "BecameNonEmpty"
            ELSE IF ~e /\ f THEN "BecameEmpty" ELSE "None"
    BY DEF Queue!ChangeFrom
  <2>2. armed <=> ~e
    BY <1>6 DEF ArmedIffPending
  <2>3. writable_size(buf') > 0 <=> ~f
    BY <1>6
  <2> HIDE DEF e, f
  <2>4. armed' <=> ~f
    <3>1. CASE e /\ ~f  BY <3>1, <2>1, <1>1
    <3>2. CASE ~e /\ f  BY <3>2, <2>1, <1>1
    <3>3. CASE e <=> f
      <4>1. c = "None"
        BY <3>3, <2>1
      <4> QED BY <4>1, <3>3, <2>2, <1>1
    <3> QED BY <3>1, <3>2, <3>3
  <2> QED BY <2>3, <2>4
<1>8. ArmedIffPending'
  BY <1>7 DEF ArmedIffPending
<1> QED BY <1>4, <1>8

(* read_from, delivering bytes, is a Put.                                  *)
LEMMA ReadOkStep ==
    ASSUME TypeOK, ArmedIffPending, NEW s \in Chunks(Capacity), ReadOk(s)
    PROVE  TypeOK' /\ ArmedIffPending' /\ Queue!Put
<1> DEFINE b == StealReadPage(buf)
<1>1. WellFormed(buf) /\ WellFormed(b) /\ Contents(b) = Contents(buf)
  BY TypeGivesWellFormed, StealWellFormed, ContentsSteal
<1>2. s \in Seq(Byte) /\ Len(s) \in 0 .. Capacity
  BY ChunksAreSeqs, CapacityAssumption
<1>3. /\ Len(s) <= writable(b) /\ buf' = Store(b, s)
      /\ Return(s, Completed(Len(s)), read_change(buf, Len(s)))
  BY DEF ReadOk
<1> HIDE DEF b
<1>4. WellFormed(buf') /\ Contents(buf') = Contents(buf) \o s
  BY <1>1, <1>2, <1>3, StoreWellFormed, ContentsStore
<1>5. read_change(buf, Len(s)) = Queue!ChangeFrom(Contents(buf), Contents(buf'))
  <2> DEFINE c == Contents(buf) u == Contents(buf')
  <2>1. /\ c \in Seq(Byte) /\ u \in Seq(Byte) /\ u = c \o s
        /\ Len(u) = Len(c) + Len(s) /\ Len(c) \in Nat /\ Len(s) \in Nat
    BY <1>1, <1>2, <1>4, ContentsFacts, ConcatProperties, LenProperties
  <2>2. is_empty(buf) <=> c = <<>>
    BY <1>1, EmptyFacts
  <2> HIDE DEF c, u
  <2>3. (c = <<>> <=> Len(c) = 0) /\ (u = <<>> <=> Len(u) = 0)
    BY <2>1, EmptySeq
  <2>4. read_change(buf, Len(s)) = Queue!ChangeFrom(c, u)
    BY <2>1, <2>2, <2>3 DEF read_change, Queue!ChangeFrom
  <2> QED BY <2>4 DEF c, u
<1>6. Completed(Len(s)) \in [tag : {"IOCompleted", "BufferNotReady", "IOError"},
                             size : 0 .. Capacity]
  BY <1>2 DEF Completed
<1>7. TypeOK' /\ ArmedIffPending'
  BY <1>2, <1>3, <1>4, <1>5, <1>6, ReturnFacts
<1>8. Len(Contents(buf)) + Len(s) <= 2 * Capacity
  <2>1. Len(Contents(buf')) <= 2 * Capacity
    BY <1>4, ContentsFacts, EmptyFacts
  <2> QED BY <1>1, <1>2, <1>4, <2>1, ContentsFacts, ConcatProperties
<1>9. Queue!Put
  BY <1>2, <1>3, <1>4, <1>5, <1>8
  DEF Queue!Put, Return, Completed, Queue!Completed
<1> QED BY <1>7, <1>9

(* The calls that leave the contents alone.                                *)
LEMMA QuietStep ==
    ASSUME TypeOK, ArmedIffPending,
           buf' = StealReadPage(buf) \/ buf' = StealWritePage(buf),
           NEW r \in {NotReady, Failed}, Return(<<>>, r, "None")
    PROVE  /\ TypeOK' /\ ArmedIffPending'
           /\ moved' = <<>> /\ result' = r /\ change' = "None"
           /\ Contents(buf') = Contents(buf)
<1>1. WellFormed(buf') /\ Contents(buf') = Contents(buf)
  BY TypeGivesWellFormed, StealWellFormed, ContentsSteal
<1>2. Queue!ChangeFrom(Contents(buf), Contents(buf')) = "None"
  BY <1>1 DEF Queue!ChangeFrom
<1>3. r \in [tag : {"IOCompleted", "BufferNotReady", "IOError"},
             size : 0 .. Capacity]
  BY CapacityAssumption DEF NotReady, Failed
<1>4. <<>> \in Seq(Byte)
  OBVIOUS
<1>5. TypeOK' /\ ArmedIffPending'
  BY <1>1, <1>2, <1>3, <1>4, ReturnFacts
<1> QED BY <1>1, <1>5 DEF Return

(* A failing read or write is a Fail, a write without bytes a Starve.      *)
LEMMA ErrorSteps ==
    ASSUME TypeOK, ArmedIffPending, ReadError \/ WriteError
    PROVE  TypeOK' /\ ArmedIffPending' /\ Queue!Fail
<1>1. /\ buf' = StealReadPage(buf) \/ buf' = StealWritePage(buf)
      /\ Return(<<>>, Failed, "None")
  BY DEF ReadError, WriteError
<1>2. /\ TypeOK' /\ ArmedIffPending'
      /\ moved' = <<>> /\ result' = Failed /\ change' = "None"
      /\ Contents(buf') = Contents(buf)
  BY <1>1, QuietStep
<1> QED BY <1>2 DEF Queue!Fail, Queue!Failed, Failed

(* write_to refuses only when the buffer is empty.                         *)
LEMMA WriteNotReadyStep ==
    ASSUME TypeOK, ArmedIffPending, WriteNotReady
    PROVE  TypeOK' /\ ArmedIffPending' /\ Queue!Starve
<1> DEFINE b == StealWritePage(buf)
<1>1. /\ readable(b) = 0 /\ buf' = b
      /\ Return(<<>>, NotReady, "None")
  BY DEF WriteNotReady
<1>2. /\ TypeOK' /\ ArmedIffPending'
      /\ moved' = <<>> /\ result' = NotReady /\ change' = "None"
      /\ Contents(buf') = Contents(buf)
  BY <1>1, QuietStep
<1>3. WellFormed(buf)
  BY TypeGivesWellFormed
<1>4. /\ buf.read_cursor \in Nat /\ buf.read_max \in Nat /\ buf.write_cursor \in Nat
      /\ buf.read_cursor <= buf.read_max
  BY <1>3, CapacityAssumption DEF WellFormed, Buffer
<1>5. is_empty(buf)
  <2>1. CASE is_read_empty(buf) /\ buf.write_cursor > 0
    <3>1. readable(b) = buf.write_cursor
      BY <2>1, <1>4 DEF StealWritePage, flip_buffers, readable
    <3> QED BY <2>1, <3>1, <1>1, <1>4
  <2>2. CASE ~(is_read_empty(buf) /\ buf.write_cursor > 0)
    <3>1. b = buf
      BY <2>2 DEF StealWritePage
    <3>2. buf.read_max - buf.read_cursor = 0
      BY <3>1, <1>1 DEF readable
    <3>3. buf.read_max = buf.read_cursor
      BY <3>2, <1>4
    <3>4. buf.write_cursor = 0
      BY <3>3, <2>2, <1>4 DEF is_read_empty
    <3> QED BY <3>3, <3>4 DEF is_empty, is_read_empty, is_write_empty
  <2> QED BY <2>1, <2>2
<1>6. Contents(buf) = <<>>
  BY <1>3, <1>5, EmptyFacts
<1> QED BY <1>2, <1>6 DEF Queue!Starve, Queue!NotReady, NotReady

(* read_from refuses only when more than a page is pending.                *)
LEMMA ReadNotReadyStep ==
    ASSUME TypeOK, ArmedIffPending, ReadNotReady
    PROVE  TypeOK' /\ ArmedIffPending' /\ Queue!Refuse
<1> DEFINE b == StealReadPage(buf)
<1>1. PICK r \in {NotReady, Failed} :
         writable(b) = 0 /\ buf' = b /\ Return(<<>>, r, "None")
  BY DEF ReadNotReady
<1>2. /\ TypeOK' /\ ArmedIffPending'
      /\ moved' = <<>> /\ result' = r /\ change' = "None"
      /\ Contents(buf') = Contents(buf)
  BY <1>1, QuietStep
<1>3. WellFormed(buf)
  BY TypeGivesWellFormed
<1>4. /\ buf.read_cursor \in Nat /\ buf.read_max \in Nat /\ buf.write_cursor \in Nat
      /\ buf.read_cursor <= buf.read_max /\ buf.write_cursor <= Capacity
      /\ Capacity \in Nat /\ Capacity > 0
  BY <1>3, CapacityAssumption DEF WellFormed, Buffer
<1>5. ~(buf.write_cursor = Capacity /\ is_read_empty(buf))
  <2> SUFFICES ASSUME buf.write_cursor = Capacity /\ is_read_empty(buf)
               PROVE  FALSE
    OBVIOUS
  <2>1. writable(b) = Capacity - 0
    BY DEF StealReadPage, flip_buffers, writable
  <2> QED BY <2>1, <1>1, <1>4
<1>6. buf.write_cursor = Capacity /\ buf.read_cursor # buf.read_max
  <2>1. b = buf
    BY <1>5 DEF StealReadPage
  <2>2. Capacity - buf.write_cursor = 0
    BY <2>1, <1>1 DEF writable
  <2>3. buf.write_cursor = Capacity
    BY <2>2, <1>4
  <2> QED BY <2>3, <1>5 DEF is_read_empty
<1>7. Len(Contents(buf)) > Capacity
  <2>1. Len(Contents(buf)) = (buf.read_max - buf.read_cursor) + buf.write_cursor
    BY <1>3, ContentsFacts DEF writable_size
  <2> QED BY <2>1, <1>4, <1>6
<1> QED BY <1>2, <1>7
        DEF Queue!Refuse, Queue!NotReady, Queue!Failed, NotReady, Failed

(* write_to, handing on n bytes, is a Take, whether or not flush fails.    *)
LEMMA WriteOkStep ==
    ASSUME TypeOK, ArmedIffPending, NEW n \in 0 .. Capacity, WriteOk(n)
    PROVE  /\ TypeOK' /\ ArmedIffPending'
           /\ n \in 0 .. Len(Contents(buf)) /\ Queue!Take(n)
<1> DEFINE b == StealWritePage(buf)
           s == SubSeq(b.read_page, b.read_cursor + 1, b.read_cursor + n)
<1>1. WellFormed(buf) /\ WellFormed(b) /\ Contents(b) = Contents(buf)
  BY TypeGivesWellFormed, StealWellFormed, ContentsSteal
<1>2. PICK r \in {Completed(n), Failed} :
         /\ readable(b) > 0 /\ n <= readable(b) /\ buf' = Advance(b, n)
         /\ Return(s, r, write_change(Advance(b, n)))
  BY DEF WriteOk
<1>n. n \in Nat /\ n <= Capacity
  BY CapacityAssumption
<1> HIDE DEF b
<1>3. /\ WellFormed(buf')
      /\ Contents(buf') = SubSeq(Contents(buf), n + 1, Len(Contents(buf)))
      /\ s = SubSeq(Contents(buf), 1, n)
  BY <1>1, <1>2, <1>n, AdvanceWellFormed, ContentsAdvance
<1>4. n \in 0 .. Len(Contents(buf)) /\ Contents(buf) # <<>>
  <2>1. /\ Len(Contents(b)) = writable_size(b) /\ writable_size(b) \in Nat
        /\ readable(b) \in 0 .. writable_size(b)
    BY <1>1, ContentsFacts, EmptyFacts
  <2>2. Len(Contents(b)) > 0
    BY <2>1, <1>2
  <2>3. Contents(b) # <<>>
    BY <2>2
  <2> QED BY <1>1, <1>2, <1>n, <2>1, <2>3
<1>5. s \in Seq(Byte)
  <2>1. Contents(buf) \in Seq(Byte)
    BY <1>1, ContentsFacts
  <2>2. \A i \in 1 .. n : Contents(buf)[i] \in Byte
    BY <1>4, <2>1, ElementOfSeq, <1>n
  <2>3. SubSeq(Contents(buf), 1, n) \in Seq(Byte)
    <3> HIDE DEF Contents
    <3> QED BY <1>n, <2>2, SubSeqProperties
  <2> QED BY <1>3, <2>3
<1>6. write_change(Advance(b, n))
        = Queue!ChangeFrom(Contents(buf), Contents(buf'))
  <2>1. is_empty(buf') <=> Contents(buf') = <<>>
    BY <1>3, EmptyFacts
  <2> QED BY <1>2, <1>4, <2>1 DEF write_change, Queue!ChangeFrom
<1>7. r \in [tag : {"IOCompleted", "BufferNotReady", "IOError"},
             size : 0 .. Capacity]
  BY <1>n, CapacityAssumption DEF Completed, Failed
<1> HIDE DEF s
<1>8. TypeOK' /\ ArmedIffPending'
  BY <1>2, <1>3, <1>5, <1>6, <1>7, ReturnFacts
<1>9. Queue!Take(n)
  BY <1>2, <1>3, <1>4, <1>6
  DEF Queue!Take, Return, Completed, Failed, Queue!Completed, Queue!Failed
<1> QED BY <1>4, <1>8, <1>9

(* discard is a Forget of what the write page holds.                       *)
LEMMA DiscardStep ==
    ASSUME TypeOK, ArmedIffPending, discard
    PROVE  /\ TypeOK' /\ ArmedIffPending'
           /\ readable(buf) \in 0 .. Len(Contents(buf))
           /\ Queue!Forget(readable(buf))
<1>1. WellFormed(buf)
  BY TypeGivesWellFormed
<1>2. buf' = discarded(buf) /\ Return(<<>>, result, discard_change(buf))
  BY DEF discard
<1>3. /\ WellFormed(buf')
      /\ Contents(buf') = SubSeq(Contents(buf), 1, readable(buf))
  BY <1>1, <1>2, DiscardWellFormed, ContentsDiscard
<1>4. /\ readable(buf) \in 0 .. Len(Contents(buf))
      /\ Len(Contents(buf)) = writable_size(buf)
  BY <1>1, ContentsFacts, EmptyFacts
<1>5. discard_change(buf) = Queue!ChangeFrom(Contents(buf), Contents(buf'))
  <2>1. is_empty(buf) <=> Contents(buf) = <<>>
    BY <1>1, EmptyFacts
  <2>2. is_empty(buf') <=> Contents(buf') = <<>>
    BY <1>3, EmptyFacts
  <2>3. is_read_empty(buf') <=> is_read_empty(buf)
    BY <1>1, <1>2 DEF is_read_empty, discarded, WellFormed, Buffer
  <2>4. is_write_empty(buf')
    BY <1>1, <1>2 DEF is_write_empty, discarded, WellFormed, Buffer
  <2> QED BY <2>1, <2>2, <2>3, <2>4
          DEF is_empty, discard_change, Queue!ChangeFrom
<1>6. /\ <<>> \in Seq(Byte)
      /\ result \in [tag : {"IOCompleted", "BufferNotReady", "IOError"},
                     size : 0 .. Capacity]
  BY DEF TypeOK
<1>7. TypeOK' /\ ArmedIffPending'
  BY <1>2, <1>3, <1>5, <1>6, ReturnFacts
<1>8. Len(Contents(buf)) - readable(buf) <= Capacity
  <2>1. writable_size(buf) - readable(buf) = buf.write_cursor
        /\ buf.write_cursor <= Capacity
    BY <1>1, CapacityAssumption DEF writable_size, readable, WellFormed, Buffer
  <2> QED BY <1>4, <2>1
<1>9. Queue!Forget(readable(buf))
  BY <1>2, <1>3, <1>5, <1>8 DEF Queue!Forget, Return
<1> QED BY <1>4, <1>7, <1>9

(* Every step of the buffer keeps the two invariants and is a step of the  *)
(* queue or leaves it as it is.                                            *)
LEMMA NextStep ==
    ASSUME TypeOK, ArmedIffPending, [Next]_vars
    PROVE  TypeOK' /\ ArmedIffPending' /\ [Queue!Next]_Queue!qvars
<1>1. ASSUME NEW s \in Chunks(Capacity), ReadOk(s)
      PROVE  TypeOK' /\ ArmedIffPending' /\ Queue!Next
  BY <1>1, ReadOkStep DEF Queue!Next
<1>2. CASE ReadError \/ WriteError
  BY <1>2, ErrorSteps DEF Queue!Next
<1>3. CASE ReadNotReady
  BY <1>3, ReadNotReadyStep DEF Queue!Next
<1>4. ASSUME NEW n \in 0 .. Capacity, WriteOk(n)
      PROVE  TypeOK' /\ ArmedIffPending' /\ Queue!Next
  BY <1>4, WriteOkStep DEF Queue!Next
<1>5. CASE WriteNotReady
  BY <1>5, WriteNotReadyStep DEF Queue!Next
<1>6. CASE discard
  BY <1>6, DiscardStep DEF Queue!Next
<1>7. CASE UNCHANGED vars
  <2>1. TypeOK' /\ ArmedIffPending'
    BY <1>7 DEF vars, TypeOK, ArmedIffPending
  <2>2. UNCHANGED Queue!qvars
    BY <1>7 DEF vars, Queue!qvars
  <2> QED BY <2>1, <2>2
<1> QED BY <1>1, <1>2, <1>3, <1>4, <1>5, <1>6, <1>7 DEF Next

--------------------------------------------------------------------------------
(* Theorems.                                                               *)

(* Type correctness: no sequence of reads, writes, errors and discards     *)
(* brings a cursor of FlipBuffer outside its page or past read_max, so no  *)
(* slice of buffer.rs is out of bounds and no subtraction underflows.      *)
THEOREM TypeCorrect == Spec => []TypeOK
<1>1. Init => TypeOK /\ ArmedIffPending
  BY InitFacts
<1>2. TypeOK /\ ArmedIffPending /\ [Next]_vars => (TypeOK /\ ArmedIffPending)'
  BY NextStep
<1> QED BY <1>1, <1>2, PTL DEF Spec

(* Polling on BecameNonEmpty and stopping on BecameEmpty is polling        *)
(* exactly while the buffer holds bytes (buffer.rs:134-142, 186-196,       *)
(* 209-218).                                                               *)
THEOREM ArmedCorrect == Spec => []ArmedIffPending
<1>1. Init => TypeOK /\ ArmedIffPending
  BY InitFacts
<1>2. TypeOK /\ ArmedIffPending /\ [Next]_vars => (TypeOK /\ ArmedIffPending)'
  BY NextStep
<1> QED BY <1>1, <1>2, PTL DEF Spec

(* The two pages and three cursors of buffer.rs implement the FIFO queue   *)
(* of module ByteQueue, for every page size and every set of bytes.        *)
THEOREM Refinement == Spec => ImplementsQueue
<1>1. Init => TypeOK /\ ArmedIffPending /\ Queue!Init
  BY InitFacts
<1>2. TypeOK /\ ArmedIffPending /\ [Next]_vars
         => (TypeOK /\ ArmedIffPending)' /\ [Queue!Next]_Queue!qvars
  BY NextStep
<1> QED BY <1>1, <1>2, PTL DEF Spec, ImplementsQueue, Queue!Spec

(* Counting the bytes of a well-formed buffer.                             *)
LEMMA CountsAgreeStep == TypeOK => CountsAgree
<1> SUFFICES ASSUME TypeOK PROVE CountsAgree
  OBVIOUS
<1> DEFINE r == StealReadPage(buf) w == StealWritePage(buf)
<1>1. /\ WellFormed(buf) /\ WellFormed(r) /\ WellFormed(w)
      /\ Count(r) = C!BeforeRead(Count(buf))
      /\ Count(w) = C!BeforeWrite(Count(buf))
  BY TypeGivesWellFormed, StealWellFormed
<1>2. writable_size(buf) = C!WritableSize(Count(buf))
  BY DEF writable_size, Count, C!WritableSize
<1> HIDE DEF r, w
<1>3. writable(r) = C!Space(Count(buf)) /\ writable(r) \in Nat
  <2>1. Count(r).wr = r.write_cursor /\ r.write_cursor \in 0 .. Capacity
    BY <1>1 DEF Count, WellFormed, Buffer
  <2> QED BY <1>1, <2>1, CapacityAssumption DEF writable, C!Space
<1>4. readable(w) = C!Readable(Count(buf)) /\ readable(w) \in Nat
  <2>1. Count(w).rd = w.read_max - w.read_cursor
    BY DEF Count
  <2>2. w.read_max \in Nat /\ w.read_cursor \in Nat /\ w.read_cursor <= w.read_max
    BY <1>1, CapacityAssumption DEF WellFormed, Buffer
  <2> QED BY <1>1, <2>1, <2>2 DEF readable, C!Readable
<1>5. ASSUME NEW s \in Chunks(writable(r))
      PROVE  /\ Count(Store(r, s)) = C!AfterRead(Count(buf), Len(s))
             /\ read_change(buf, Len(s)) = C!ReadChange(Count(buf), Len(s))
  <2>1. s \in Seq(Byte) /\ Len(s) <= writable(r) /\ Len(s) \in Nat
    BY <1>3, ChunksAreSeqs
  <2>2. Count(Store(r, s)) = [Count(r) EXCEPT !.wr = @ + Len(s)]
    BY <1>1, <2>1, StoreWellFormed
  <2>3. is_empty(buf) <=> C!WritableSize(Count(buf)) = 0
    BY <1>1, <1>2, EmptyFacts
  <2> QED BY <1>1, <2>2, <2>3 DEF C!AfterRead, C!ReadChange, read_change
<1>6. ASSUME NEW n \in 0 .. readable(w)
      PROVE  /\ Count(Advance(w, n)) = C!AfterWrite(Count(buf), n)
             /\ write_change(Advance(w, n)) = C!WriteChange(Count(buf), n)
  <2>1. n \in Nat /\ n <= readable(w)
    BY <1>4
  <2>2. /\ WellFormed(Advance(w, n))
        /\ Count(Advance(w, n)) = [Count(w) EXCEPT !.rd = @ - n]
    BY <1>1, <2>1, AdvanceWellFormed
  <2>3. Count(Advance(w, n)) = C!AfterWrite(Count(buf), n)
    BY <1>1, <2>2 DEF C!AfterWrite
  <2>4. is_empty(Advance(w, n)) <=> C!WritableSize(Count(Advance(w, n))) = 0
    <3>1. is_empty(Advance(w, n)) <=> writable_size(Advance(w, n)) = 0
      BY <2>2, EmptyFacts
    <3>2. writable_size(Advance(w, n)) = C!WritableSize(Count(Advance(w, n)))
      BY DEF writable_size, Count, C!WritableSize
    <3> QED BY <3>1, <3>2
  <2> QED BY <2>3, <2>4 DEF write_change, C!WriteChange
<1>7. Count(discarded(buf)) = C!AfterDiscard(Count(buf))
  BY <1>1, DiscardWellFormed DEF C!AfterDiscard
<1> QED BY <1>2, <1>3, <1>4, <1>5, <1>6, <1>7 DEF CountsAgree, r, w

(* Whatever the buffer went through, the operators of BufferCounts give    *)
(* the counts, the room and the reported change of every further call: the *)
(* model of the event loop may count bytes instead of storing them.        *)
THEOREM CountsCorrect == Spec => []CountsAgree
BY TypeCorrect, CountsAgreeStep, PTL

================================================================================
