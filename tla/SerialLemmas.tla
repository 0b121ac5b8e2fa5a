---------------------------- MODULE SerialLemmas ----------------------------
(***************************************************************************)
(* What the proofs about the serial link have in common: what the          *)
(* functions of fifo.h do to the bytes a fifo holds, for every capacity C  *)
(* and every set B of bytes, and what is known of a stream of bytes that   *)
(* is made of frames.  At the end stands what follows for FifoSpec.        *)
(***************************************************************************)
EXTENDS FifoSpec, SequencesExt, SequenceTheorems, WellFoundedInduction, TLAPS

FifoType(B, C) == [capacity : {C}, size : 0 .. C, tail : 0 .. C - 1,
                   buf : [0 .. C - 1 -> B]]

\* The modulo of __fifo_tail_offset (fifo.h:18) wraps at most once.
LEMMA ModuloOnce ==
  ASSUME NEW cap \in Nat \ {0}, NEW t \in 0 .. cap - 1, NEW o \in 0 .. cap
  PROVE  (t + o) % cap = IF t + o < cap THEN t + o ELSE t + o - cap
<1>1. CASE t + o < cap
  BY <1>1
<1>2. CASE t + o >= cap
  BY <1>2
<1> QED
  BY <1>1, <1>2

LEMMA OffsetValue ==
  ASSUME NEW B, NEW C \in Nat \ {0}, NEW f \in FifoType(B, C), NEW o \in 0 .. C
  PROVE  /\ fifo_tail_offset(f, o) =
              IF f.tail + o < C THEN f.tail + o ELSE f.tail + o - C
         /\ fifo_tail_offset(f, o) \in 0 .. C - 1
<1>1. f.tail \in 0 .. C - 1 /\ f.capacity = C
  BY DEF FifoType
<1>2. fifo_tail_offset(f, o) =
        IF f.tail + o < C THEN f.tail + o ELSE f.tail + o - C
  BY <1>1, ModuloOnce DEF fifo_tail_offset
<1> QED
  BY <1>1, <1>2

\* Two offsets within the buffer name two different bytes.
LEMMA OffsetInjective ==
  ASSUME NEW B, NEW C \in Nat \ {0}, NEW f \in FifoType(B, C), NEW o \in 0 .. C - 1,
         NEW p \in 0 .. C - 1, o # p
  PROVE  fifo_tail_offset(f, o) # fifo_tail_offset(f, p)
<1>1. f.tail \in 0 .. C - 1
  BY DEF FifoType
<1> QED
  BY <1>1, OffsetValue

LEMMA BytesType ==
  ASSUME NEW B, NEW C \in Nat \ {0}, NEW f \in FifoType(B, C)
  PROVE  /\ fifo_bytes(f) \in Seq(B)
         /\ Len(fifo_bytes(f)) = f.size
         /\ \A k \in 1 .. f.size :
              fifo_bytes(f)[k] = f.buf[fifo_tail_offset(f, k - 1)]
<1>1. f.size \in 0 .. C /\ f.buf \in [0 .. C - 1 -> B]
  BY DEF FifoType
<1>2. ASSUME NEW k \in 1 .. f.size
      PROVE  f.buf[fifo_tail_offset(f, k - 1)] \in B
  <2>1. k - 1 \in 0 .. C
    BY <1>1, <1>2
  <2>2. fifo_tail_offset(f, k - 1) \in 0 .. C - 1
    BY <2>1, OffsetValue
  <2> QED
    BY <1>1, <2>2
<1>3. fifo_bytes(f) = [k \in 1 .. f.size |-> f.buf[fifo_tail_offset(f, k - 1)]]
  BY DEF fifo_bytes, fifo_front, fifo_peek
<1>4. f.size \in Nat
  BY <1>1
<1> QED
  BY <1>2, <1>3, <1>4

-----------------------------------------------------------------------------
\* fifo_add_byte (fifo.h:34-37) on a fifo that is not full appends the byte.
LEMMA AddByteAppends ==
  ASSUME NEW B, NEW C \in Nat \ {0}, NEW f \in FifoType(B, C), NEW c \in B, ~fifo_is_full(f)
  PROVE  /\ fifo_add_byte(f, c) \in FifoType(B, C)
         /\ fifo_bytes(fifo_add_byte(f, c)) = Append(fifo_bytes(f), c)
<1> DEFINE g == fifo_add_byte(f, c)
           h == fifo_head_pos(f)
<1>1. /\ f.size \in 0 .. C - 1 /\ f.tail \in 0 .. C - 1
      /\ f.capacity = C
      /\ f.buf \in [0 .. C - 1 -> B]
  BY DEF FifoType, fifo_is_full
<1>2. h \in 0 .. C - 1
  <2>1. f.size \in 0 .. C
    BY <1>1
  <2> QED
    BY <2>1, OffsetValue DEF fifo_head_pos
<1>3. /\ g.size = f.size + 1 /\ g.tail = f.tail /\ g.capacity = C
      /\ g.buf = [f.buf EXCEPT ![h] = c]
  BY <1>1 DEF fifo_add_byte, FifoType
<1>4. g \in FifoType(B, C)
  <2>1. f.size + 1 \in 0 .. C
    BY <1>1
  <2>2. [f.buf EXCEPT ![h] = c] \in [0 .. C - 1 -> B]
    BY <1>1
  <2> HIDE DEF h
  <2> QED
    BY <2>1, <2>2 DEF fifo_add_byte, FifoType, h
<1> HIDE DEF g, h
<1>5. \A o \in Nat : fifo_tail_offset(g, o) = fifo_tail_offset(f, o)
  BY <1>1, <1>3 DEF fifo_tail_offset
<1>6. ASSUME NEW k \in 1 .. f.size + 1
      PROVE  fifo_bytes(g)[k] = Append(fifo_bytes(f), c)[k]
  <2>1. fifo_bytes(g)[k] = g.buf[fifo_tail_offset(f, k - 1)]
    <3>1. k \in 1 .. g.size /\ k - 1 \in Nat
      BY <1>1, <1>3, <1>6
    <3>2. fifo_bytes(g)[k] = g.buf[fifo_tail_offset(g, k - 1)]
      BY <1>4, <3>1, BytesType
    <3> QED
      BY <1>5, <3>1, <3>2
  <2>2. CASE k = f.size + 1
    <3>1. fifo_tail_offset(f, k - 1) = h
      BY <2>2, <1>1 DEF h, fifo_head_pos
    <3>2. g.buf[h] = c
      BY <1>1, <1>2, <1>3
    <3>3. Append(fifo_bytes(f), c)[k] = c
      BY <2>2, <1>1, BytesType
    <3> QED
      BY <2>1, <3>1, <3>2, <3>3
  <2>3. CASE k \in 1 .. f.size
    <3> DEFINE o == k - 1
    <3>0. /\ o \in 0 .. C - 1 /\ o \in 0 .. C /\ o # f.size
          /\ f.size \in 0 .. C - 1
      BY <2>3, <1>1
    <3> HIDE DEF o
    <3>1. fifo_tail_offset(f, k - 1) # h
      BY <3>0, OffsetInjective DEF h, fifo_head_pos, o
    <3>2. fifo_tail_offset(f, k - 1) \in 0 .. C - 1
      BY <3>0, OffsetValue DEF o
    <3>3. g.buf[fifo_tail_offset(f, k - 1)] = f.buf[fifo_tail_offset(f, k - 1)]
      BY <1>1, <1>3, <3>1, <3>2
    <3>4. Append(fifo_bytes(f), c)[k] = fifo_bytes(f)[k]
      BY <2>3, <1>1, BytesType
    <3> QED
      BY <2>1, <2>3, <3>3, <3>4, BytesType
  <2>4. k = f.size + 1 \/ k \in 1 .. f.size
    BY <1>1, <1>6
  <2> QED
    BY <2>2, <2>3, <2>4
<1>7. /\ fifo_bytes(g) \in Seq(B) /\ Len(fifo_bytes(g)) = f.size + 1
      /\ Append(fifo_bytes(f), c) \in Seq(B)
      /\ Len(Append(fifo_bytes(f), c)) = f.size + 1
  BY <1>3, <1>4, BytesType
<1>8. fifo_bytes(g) = Append(fifo_bytes(f), c)
  BY <1>6, <1>7
<1> QED
  BY <1>4, <1>8 DEF g

\* fifo_get_byte (fifo.h:45-50) on a fifo that is not empty takes the oldest.
LEMMA GetByteTakesFirst ==
  ASSUME NEW B, NEW C \in Nat \ {0}, NEW f \in FifoType(B, C), ~fifo_is_empty(f)
  PROVE  /\ fifo_rest(f) \in FifoType(B, C)
         /\ fifo_first(f) \in B
         /\ fifo_bytes(f) # <<>>
         /\ fifo_first(f) = Head(fifo_bytes(f))
         /\ fifo_bytes(fifo_rest(f)) = Tail(fifo_bytes(f))
<1> DEFINE g == fifo_rest(f)
<1>1. /\ f.size \in 1 .. C /\ f.tail \in 0 .. C - 1
      /\ f.capacity = C
      /\ f.buf \in [0 .. C - 1 -> B]
  BY DEF FifoType, fifo_is_empty
<1>2. fifo_tail_offset(f, 1) \in 0 .. C - 1
  <2>1. 1 \in 0 .. C
    OBVIOUS
  <2> QED
    BY <2>1, OffsetValue
<1>3. /\ g.size = f.size - 1 /\ g.tail = fifo_tail_offset(f, 1)
      /\ g.capacity = C /\ g.buf = f.buf
  BY <1>1 DEF fifo_rest, FifoType
<1>4. g \in FifoType(B, C)
  <2>1. f.size - 1 \in 0 .. C
    BY <1>1
  <2> QED
    BY <1>2, <2>1 DEF fifo_rest, FifoType
<1> HIDE DEF g
<1>5. ASSUME NEW o \in 0 .. C - 1
      PROVE  fifo_tail_offset(g, o) = fifo_tail_offset(f, o + 1)
  <2>1. 1 \in 0 .. C /\ o \in 0 .. C /\ o + 1 \in 0 .. C
    BY <1>5
  <2>2. g.tail = IF f.tail + 1 < C THEN f.tail + 1 ELSE f.tail + 1 - C
    BY <1>3, <2>1, OffsetValue
  <2>3. fifo_tail_offset(g, o) =
          IF g.tail + o < C THEN g.tail + o ELSE g.tail + o - C
    BY <1>4, <2>1, OffsetValue
  <2>4. fifo_tail_offset(f, o + 1) =
          IF f.tail + (o + 1) < C THEN f.tail + (o + 1)
                                         ELSE f.tail + (o + 1) - C
    BY <2>1, OffsetValue
  <2>5. C \in Int /\ o \in Int /\ f.tail \in Int
    BY <1>1, <1>5
  <2>6. CASE f.tail + 1 < C
    <3>1. g.tail = f.tail + 1
      BY <2>2, <2>6
    <3> QED
      BY <2>3, <2>4, <2>5, <3>1
  <2>7. CASE ~(f.tail + 1 < C)
    <3>1. g.tail = 0 /\ f.tail = C - 1
      BY <1>1, <2>2, <2>5, <2>7
    <3>2. 0 <= o /\ o < C
      BY <1>5, <2>5
    <3> QED
      BY <2>3, <2>4, <2>5, <3>1, <3>2
  <2> QED
    BY <2>6, <2>7
<1>6. fifo_first(f) \in B /\ fifo_first(f) = Head(fifo_bytes(f)) /\ fifo_bytes(f) # <<>>
  <2>1. fifo_tail_offset(f, 0) = f.tail
    <3>1. 0 \in 0 .. C
      OBVIOUS
    <3>2. fifo_tail_offset(f, 0) =
            IF f.tail + 0 < C THEN f.tail + 0 ELSE f.tail + 0 - C
      BY <3>1, OffsetValue
    <3> QED
      BY <1>1, <3>2
  <2>2. fifo_bytes(f)[1] = f.buf[f.tail] /\ Len(fifo_bytes(f)) > 0
    BY <1>1, <2>1, BytesType
  <2>3. fifo_bytes(f) # <<>> /\ fifo_bytes(f) \in Seq(B)
    BY <2>2, BytesType
  <2> QED
    BY <1>1, <2>2, <2>3 DEF fifo_first
<1>7. ASSUME NEW k \in 1 .. f.size - 1
      PROVE  fifo_bytes(g)[k] = Tail(fifo_bytes(f))[k]
  <2>1. fifo_bytes(g)[k] = f.buf[fifo_tail_offset(g, k - 1)]
    BY <1>1, <1>3, <1>4, <1>7, BytesType
  <2>2. fifo_tail_offset(g, k - 1) = fifo_tail_offset(f, k)
    <3>1. k - 1 \in 0 .. C - 1 /\ (k - 1) + 1 = k
      BY <1>1, <1>7
    <3> QED
      BY <1>5, <3>1
  <2>3. fifo_bytes(f)[k + 1] = f.buf[fifo_tail_offset(f, k)]
    <3>1. k + 1 \in 1 .. f.size /\ (k + 1) - 1 = k
      BY <1>1, <1>7
    <3> QED
      BY <3>1, BytesType
  <2>4. Tail(fifo_bytes(f))[k] = fifo_bytes(f)[k + 1]
    BY <1>1, <1>6, <1>7, BytesType, HeadTailProperties
  <2> QED
    BY <2>1, <2>2, <2>3, <2>4
<1>8. /\ fifo_bytes(g) \in Seq(B) /\ Len(fifo_bytes(g)) = f.size - 1
      /\ Tail(fifo_bytes(f)) \in Seq(B)
      /\ Len(Tail(fifo_bytes(f))) = f.size - 1
  BY <1>1, <1>3, <1>4, <1>6, BytesType, HeadTailProperties
<1>9. fifo_bytes(g) = Tail(fifo_bytes(f))
  BY <1>7, <1>8
<1> QED
  BY <1>4, <1>6, <1>9 DEF g


\* fifo_peek (fifo.h:32) counts from the oldest byte.
LEMMA PeekValue ==
  ASSUME NEW B, NEW C \in Nat \ {0}, NEW f \in FifoType(B, C), NEW o \in 0 .. f.size - 1
  PROVE  fifo_peek(f, o) = fifo_bytes(f)[o + 1]
<1>1. f.size \in 0 .. C
  BY DEF FifoType
<1>2. o + 1 \in 1 .. f.size /\ (o + 1) - 1 = o
  BY <1>1
<1>3. fifo_bytes(f)[o + 1] = f.buf[fifo_tail_offset(f, (o + 1) - 1)]
  BY <1>2, BytesType
<1> QED
  BY <1>2, <1>3 DEF fifo_peek

-----------------------------------------------------------------------------
\* Offsets count from the new tail once bytes have been taken.
LEMMA OffsetAfterDrop ==
  ASSUME NEW B, NEW C \in Nat \ {0}, NEW f \in FifoType(B, C), NEW n \in 0 .. f.size
  PROVE  /\ fifo_drop(f, n) \in FifoType(B, C)
         /\ fifo_drop(f, n).size = f.size - n
         /\ \A o \in 0 .. C - n :
              fifo_tail_offset(fifo_drop(f, n), o) = fifo_tail_offset(f, n + o)
<1> DEFINE g == fifo_drop(f, n)
<1>1. /\ f.size \in 0 .. C /\ f.tail \in 0 .. C - 1 /\ f.capacity = C
      /\ f.buf \in [0 .. C - 1 -> B]
  BY DEF FifoType
<1>2. n \in 0 .. C /\ f.size - n \in 0 .. C
  BY <1>1
<1>3. fifo_tail_offset(f, n) \in 0 .. C - 1
  BY <1>2, OffsetValue
<1>4. /\ g.size = f.size - n /\ g.tail = fifo_tail_offset(f, n)
      /\ g.capacity = C /\ g.buf = f.buf
  BY <1>1 DEF fifo_drop, FifoType
<1>5. g \in FifoType(B, C)
  BY <1>2, <1>3 DEF fifo_drop, FifoType
<1> HIDE DEF g
<1>6. ASSUME NEW o \in 0 .. C - n
      PROVE  fifo_tail_offset(g, o) = fifo_tail_offset(f, n + o)
  <2>1. o \in 0 .. C /\ n + o \in 0 .. C
    BY <1>2
  <2>2. g.tail = IF f.tail + n < C THEN f.tail + n ELSE f.tail + n - C
    BY <1>2, <1>4, OffsetValue
  <2>3. fifo_tail_offset(g, o) = IF g.tail + o < C THEN g.tail + o ELSE g.tail + o - C
    BY <1>5, <2>1, OffsetValue
  <2>4. fifo_tail_offset(f, n + o) =
          IF f.tail + (n + o) < C THEN f.tail + (n + o) ELSE f.tail + (n + o) - C
    BY <2>1, OffsetValue
  <2>5. C \in Int /\ o \in Int /\ n \in Int /\ f.tail \in Int
    BY <1>1, <1>2, <2>1
  <2>6. CASE f.tail + n < C
    <3>1. g.tail = f.tail + n
      BY <2>2, <2>6
    <3> QED
      BY <2>3, <2>4, <2>5, <3>1
  <2>7. CASE ~(f.tail + n < C)
    <3>1. g.tail = f.tail + n - C
      BY <2>2, <2>7
    <3>2. /\ 0 <= o /\ o <= C - n /\ 0 <= f.tail /\ f.tail < C
          /\ n <= C /\ 0 <= n
      BY <1>1, <1>2, <2>5
    <3>3. /\ g.tail + o < C
          /\ ~ (f.tail + (n + o) < C)
      BY <2>5, <2>7, <3>1, <3>2
    <3>4. fifo_tail_offset(g, o) = f.tail + n - C + o
      BY <2>3, <3>1, <3>3
    <3>5. fifo_tail_offset(f, n + o) = f.tail + (n + o) - C
      BY <2>4, <3>3
    <3> QED
      BY <2>5, <3>4, <3>5
  <2> QED
    BY <2>6, <2>7
<1> QED
  BY <1>4, <1>5, <1>6 DEF g

\* fifo_get_buf (fifo.h:52-56) returns the oldest bytes and leaves the others.
LEMMA GetBufTakesFront ==
  ASSUME NEW B, NEW C \in Nat \ {0}, NEW f \in FifoType(B, C), NEW n \in 0 .. f.size
  PROVE  /\ fifo_front(f, n) = SubSeq(fifo_bytes(f), 1, n)
         /\ fifo_drop(f, n) \in FifoType(B, C)
         /\ fifo_bytes(fifo_drop(f, n)) = SubSeq(fifo_bytes(f), n + 1, f.size)
<1> DEFINE g == fifo_drop(f, n)
           s == fifo_bytes(f)
<1>1. f.size \in 0 .. C /\ n \in 0 .. C /\ n \in Nat /\ f.size \in Nat
  <2>1. f.size \in 0 .. C
    BY DEF FifoType
  <2> QED
    BY <2>1
<1>2. g \in FifoType(B, C) /\ g.size = f.size - n /\ g.buf = f.buf
  BY OffsetAfterDrop DEF fifo_drop, FifoType
<1>3. s \in Seq(B) /\ Len(s) = f.size
  BY BytesType
<1> HIDE DEF g, s
<1>4. fifo_front(f, n) = SubSeq(s, 1, n)
  <2>1. ASSUME NEW k \in 1 .. n PROVE fifo_front(f, n)[k] = s[k]
    <3>1. k - 1 \in 0 .. f.size - 1 /\ (k - 1) + 1 = k
      BY <1>1
    <3>2. fifo_peek(f, k - 1) = s[(k - 1) + 1]
      BY <3>1, PeekValue DEF s
    <3> QED
      BY <3>1, <3>2 DEF fifo_front
  <2>2. fifo_front(f, n) = [k \in 1 .. n |-> s[k]]
    BY <2>1 DEF fifo_front
  <2>3. SubSeq(s, 1, n) = [k \in 1 .. n |-> s[k]]
    <3>1. SubSeq(s, 1, n) \in Seq(B) /\ Len(SubSeq(s, 1, n)) = n
      BY <1>1, <1>3, SubSeqProperties
    <3>2. \A k \in 1 .. n : SubSeq(s, 1, n)[k] = s[k]
      BY <1>1, <1>3
    <3> QED
      BY <1>1, <1>3, <3>1, <3>2
  <2> QED
    BY <2>2, <2>3
<1>5. ASSUME NEW k \in 1 .. f.size - n
      PROVE  fifo_bytes(g)[k] = s[n + k]
  <2>1. /\ k \in 1 .. g.size /\ k - 1 \in 0 .. C - n /\ n + (k - 1) = (n + k) - 1
        /\ n + k \in 1 .. f.size
    BY <1>1, <1>2
  <2>2. fifo_bytes(g)[k] = g.buf[fifo_tail_offset(g, k - 1)]
    BY <1>2, <2>1, BytesType
  <2>3. fifo_tail_offset(g, k - 1) = fifo_tail_offset(f, n + (k - 1))
    BY <2>1, OffsetAfterDrop DEF g
  <2>4. s[n + k] = f.buf[fifo_tail_offset(f, (n + k) - 1)]
    BY <2>1, BytesType DEF s
  <2> QED
    BY <1>2, <2>1, <2>2, <2>3, <2>4
<1>6. fifo_bytes(g) = SubSeq(s, n + 1, f.size)
  <2>1. fifo_bytes(g) \in Seq(B) /\ Len(fifo_bytes(g)) = f.size - n
    BY <1>2, BytesType
  <2>2. /\ SubSeq(s, n + 1, f.size) \in Seq(B)
        /\ Len(SubSeq(s, n + 1, f.size)) = f.size - n
    BY <1>1, <1>3
  <2>3. \A k \in 1 .. f.size - n : SubSeq(s, n + 1, f.size)[k] = s[n + k]
    BY <1>1, <1>3
  <2> QED
    BY <1>5, <2>1, <2>2, <2>3
<1> QED
  BY <1>2, <1>4, <1>6 DEF g, s

\* fifo_drop is the loop of fifo_get_buf: one fifo_get_byte for each byte.
LEMMA GetBufIsLoop ==
  ASSUME NEW B, NEW C \in Nat \ {0}, NEW f \in FifoType(B, C)
  PROVE  /\ fifo_drop(f, 0) = f
         /\ \A n \in 0 .. f.size - 1 : fifo_drop(f, n + 1) = fifo_rest(fifo_drop(f, n))
<1>1. f.size \in 0 .. C /\ f.tail \in 0 .. C - 1 /\ f.capacity = C
  BY DEF FifoType
<1>2. fifo_drop(f, 0) = f
  <2>1. fifo_tail_offset(f, 0) = f.tail
    <3>1. 0 \in 0 .. C /\ f.tail + 0 < C
      BY <1>1
    <3> QED
      BY <1>1, <3>1, OffsetValue
  <2>2. f.size - 0 = f.size
    BY <1>1
  <2> QED
    BY <2>1, <2>2 DEF fifo_drop, FifoType
<1>3. ASSUME NEW n \in 0 .. f.size - 1
      PROVE  fifo_drop(f, n + 1) = fifo_rest(fifo_drop(f, n))
  <2>1. n \in 0 .. f.size /\ 1 \in 0 .. C - n /\ f.size - (n + 1) = (f.size - n) - 1
    BY <1>1
  <2>2. fifo_tail_offset(fifo_drop(f, n), 1) = fifo_tail_offset(f, n + 1)
    BY <2>1, OffsetAfterDrop
  <2> DEFINE t == fifo_tail_offset(f, n)
             u == fifo_tail_offset(f, n + 1)
             g == fifo_drop(f, n)
  <2>3. g = [f EXCEPT !.tail = t, !.size = f.size - n]
    BY DEF fifo_drop
  <2>4. fifo_rest(g) = [g EXCEPT !.tail = u, !.size = g.size - 1]
    BY <2>2 DEF fifo_rest
  <2>5. fifo_drop(f, n + 1) = [f EXCEPT !.tail = u, !.size = f.size - (n + 1)]
    BY DEF fifo_drop
  <2> HIDE DEF t, u, g
  <2>6. g.size = f.size - n
    BY <2>3 DEF FifoType
  <2> QED
    BY <2>1, <2>3, <2>4, <2>5, <2>6 DEF FifoType, g
<1> QED
  BY <1>2, <1>3

-----------------------------------------------------------------------------
\* What fifo_add_buf writes: the data behind the bytes of the fifo, no others.
LEMMA AddBufCells ==
  ASSUME NEW B, NEW C \in Nat \ {0}, NEW f \in FifoType(B, C),
         NEW data \in Seq(B), f.size + Len(data) <= C
  PROVE  /\ fifo_add_buf(f, data) \in FifoType(B, C)
         /\ fifo_add_buf(f, data).size = f.size + Len(data)
         /\ fifo_add_buf(f, data).tail = f.tail
         /\ \A o \in 0 .. C - 1 :
              fifo_add_buf(f, data).buf[fifo_tail_offset(f, o)] =
                IF f.size <= o /\ o < f.size + Len(data)
                  THEN data[o - f.size + 1] ELSE f.buf[fifo_tail_offset(f, o)]
<1> DEFINE At(o) == fifo_tail_offset(f, f.size + o - 1)
           b == [k \in DOMAIN f.buf |->
                   IF \E o \in DOMAIN data : At(o) = k
                     THEN data[CHOOSE o \in DOMAIN data : At(o) = k] ELSE f.buf[k]]
           g == fifo_add_buf(f, data)
<1>1. /\ f.size \in 0 .. C /\ f.tail \in 0 .. C - 1 /\ f.capacity = C
      /\ f.buf \in [0 .. C - 1 -> B] /\ DOMAIN data = 1 .. Len(data)
      /\ Len(data) \in Nat
  BY DEF FifoType
<1>2. g = [f EXCEPT !.buf = b, !.size = f.size + Len(data)]
  BY DEF fifo_add_buf
<1>3. b \in [0 .. C - 1 -> B]
  <2>1. ASSUME NEW k \in 0 .. C - 1 PROVE b[k] \in B
    <3>1. CASE \E o \in DOMAIN data : At(o) = k
      <4>1. (CHOOSE o \in DOMAIN data : At(o) = k) \in DOMAIN data
        BY <3>1
      <4>2. data[CHOOSE o \in DOMAIN data : At(o) = k] \in B
        BY <1>1, <4>1
      <4> QED
        BY <1>1, <3>1, <4>2
    <3>2. CASE ~ \E o \in DOMAIN data : At(o) = k
      BY <1>1, <3>2
    <3> QED
      BY <3>1, <3>2
  <2> QED
    BY <1>1, <2>1
<1> HIDE DEF b
<1>4. g.size = f.size + Len(data) /\ g.tail = f.tail /\ g.buf = b
  BY <1>2 DEF FifoType
<1>5. g \in FifoType(B, C)
  <2>1. f.size + Len(data) \in 0 .. C
    BY <1>1
  <2> QED
    BY <1>2, <1>3, <2>1 DEF FifoType
<1> HIDE DEF g
<1>6. ASSUME NEW o \in 0 .. C - 1
      PROVE  b[fifo_tail_offset(f, o)] =
               IF f.size <= o /\ o < f.size + Len(data)
                 THEN data[o - f.size + 1] ELSE f.buf[fifo_tail_offset(f, o)]
  <2> DEFINE k == fifo_tail_offset(f, o)
  <2>1. k \in 0 .. C - 1
    <3>1. o \in 0 .. C
      BY <1>6
    <3> QED
      BY <3>1, OffsetValue
  <2>2. ASSUME NEW i \in DOMAIN data
        PROVE  At(i) = k <=> i = o - f.size + 1
    <3>1. f.size + i - 1 \in 0 .. C - 1
      BY <1>1, <2>2
    <3>2. At(i) = k <=> f.size + i - 1 = o
      BY <3>1, OffsetInjective
    <3> QED
      BY <1>1, <2>2, <3>2
  <2>3. b[k] = IF \E i \in DOMAIN data : At(i) = k
                 THEN data[CHOOSE i \in DOMAIN data : At(i) = k] ELSE f.buf[k]
    BY <1>1, <2>1 DEF b
  <2> HIDE DEF k
  <2> HIDE DEF At
  <2>4. CASE f.size <= o /\ o < f.size + Len(data)
    <3>1. o - f.size + 1 \in DOMAIN data
      BY <1>1, <2>4
    <3>2. (CHOOSE i \in DOMAIN data : At(i) = k) = o - f.size + 1
      BY <2>2, <3>1
    <3>3. \E i \in DOMAIN data : At(i) = k
      BY <2>2, <3>1
    <3>4. b[k] = data[o - f.size + 1]
      BY <2>3, <3>2, <3>3
    <3> QED
      BY <2>4, <3>4 DEF k
  <2>5. CASE ~(f.size <= o /\ o < f.size + Len(data))
    <3>1. \A i \in DOMAIN data : i # o - f.size + 1
      BY <1>1, <2>5
    <3>2. b[k] = f.buf[k]
      BY <2>2, <2>3, <3>1
    <3> QED
      BY <2>5, <3>2 DEF k
  <2> QED
    BY <2>4, <2>5
<1> QED
  BY <1>4, <1>5, <1>6 DEF g

\* fifo_add_buf (fifo.h:39-43) appends data for which there is space.
LEMMA AddBufAppends ==
  ASSUME NEW B, NEW C \in Nat \ {0}, NEW f \in FifoType(B, C),
         NEW data \in Seq(B), f.size + Len(data) <= C
  PROVE  /\ fifo_add_buf(f, data) \in FifoType(B, C)
         /\ fifo_bytes(fifo_add_buf(f, data)) = fifo_bytes(f) \o data
<1> DEFINE g == fifo_add_buf(f, data)
           s == fifo_bytes(f)
<1>1. /\ f.size \in 0 .. C /\ f.size \in Nat /\ Len(data) \in Nat
      /\ f.capacity = C
  <2>1. f.size \in 0 .. C /\ f.capacity = C
    BY DEF FifoType
  <2> QED
    BY <2>1
<1>2. /\ g \in FifoType(B, C) /\ g.size = f.size + Len(data) /\ g.tail = f.tail
  BY AddBufCells
<1>3. s \in Seq(B) /\ Len(s) = f.size
  BY BytesType
<1>4. \A o \in 0 .. C - 1 :
        g.buf[fifo_tail_offset(f, o)] =
          IF f.size <= o /\ o < f.size + Len(data)
            THEN data[o - f.size + 1] ELSE f.buf[fifo_tail_offset(f, o)]
  BY AddBufCells
<1> HIDE DEF g, s
<1>5. \A o : fifo_tail_offset(g, o) = fifo_tail_offset(f, o)
  <2>1. g.capacity = C
    BY <1>2 DEF FifoType
  <2> QED
    BY <1>1, <1>2, <2>1 DEF fifo_tail_offset
<1>6. ASSUME NEW k \in 1 .. f.size + Len(data)
      PROVE  fifo_bytes(g)[k] = (s \o data)[k]
  <2>1. k \in 1 .. g.size /\ k - 1 \in 0 .. C - 1
    BY <1>1, <1>2
  <2>2. fifo_bytes(g)[k] = g.buf[fifo_tail_offset(f, k - 1)]
    BY <1>2, <1>5, <2>1, BytesType
  <2>3. CASE k <= f.size
    <3>1. ~(f.size <= k - 1) /\ k \in 1 .. f.size
      BY <1>1, <2>3
    <3>2. s[k] = f.buf[fifo_tail_offset(f, k - 1)]
      BY <3>1, BytesType DEF s
    <3>3. (s \o data)[k] = s[k]
      BY <1>3, <3>1
    <3> QED
      BY <1>4, <2>1, <2>2, <3>1, <3>2, <3>3
  <2>4. CASE ~(k <= f.size)
    <3>1. /\ f.size <= k - 1 /\ k - 1 < f.size + Len(data)
          /\ (k - 1) - f.size + 1 = k - f.size
      BY <1>1, <2>4
    <3>2. fifo_bytes(g)[k] = data[k - f.size]
      BY <1>4, <2>1, <2>2, <3>1
    <3>3. (s \o data)[k] = data[k - f.size]
      BY <1>1, <1>3, <2>4
    <3> QED
      BY <3>2, <3>3
  <2> QED
    BY <2>3, <2>4
<1>7. /\ fifo_bytes(g) \in Seq(B) /\ Len(fifo_bytes(g)) = f.size + Len(data)
      /\ s \o data \in Seq(B) /\ Len(s \o data) = f.size + Len(data)
  <2>1. fifo_bytes(g) \in Seq(B) /\ Len(fifo_bytes(g)) = g.size
    BY <1>2, BytesType
  <2>2. s \o data \in Seq(B) /\ Len(s \o data) = Len(s) + Len(data)
    BY <1>3, ConcatProperties
  <2> QED
    BY <1>2, <1>3, <2>1, <2>2
<1>8. fifo_bytes(g) = s \o data
  <2> DEFINE x == fifo_bytes(g)
             y == s \o data
  <2>1. x \in Seq(B) /\ y \in Seq(B) /\ Len(x) = Len(y)
    BY <1>7
  <2>2. \A k \in 1 .. Len(x) : x[k] = y[k]
    BY <1>6, <1>7
  <2> HIDE DEF x, y
  <2>3. x = y
    BY <2>1, <2>2, SeqEqual
  <2> QED
    BY <2>3 DEF x, y
<1> QED
  BY <1>2, <1>8 DEF g, s

\* It is the loop of fifo_add_buf: one fifo_add_byte for each byte of the data.
LEMMA AddBufIsLoop ==
  ASSUME NEW B, NEW C \in Nat \ {0}, NEW f \in FifoType(B, C)
  PROVE  /\ fifo_add_buf(f, <<>>) = f
         /\ \A data \in Seq(B), c \in B :
              f.size + Len(data) < C =>
                fifo_add_buf(f, Append(data, c)) = fifo_add_byte(fifo_add_buf(f, data), c)
<1>1. /\ f.size \in 0 .. C /\ f.tail \in 0 .. C - 1 /\ f.capacity = C
      /\ f.buf \in [0 .. C - 1 -> B]
  BY DEF FifoType
<1>2. fifo_add_buf(f, <<>>) = f
  <2> DEFINE b == [k \in DOMAIN f.buf |->
                     IF \E o \in DOMAIN <<>> : fifo_tail_offset(f, f.size + o - 1) = k
                       THEN <<>>[CHOOSE o \in DOMAIN <<>> :
                                   fifo_tail_offset(f, f.size + o - 1) = k]
                       ELSE f.buf[k]]
  <2>1. b = f.buf
    <3>1. DOMAIN <<>> = {}
      OBVIOUS
    <3>2. b = [k \in DOMAIN f.buf |-> f.buf[k]]
      BY <3>1
    <3> QED
      BY <1>1, <3>2
  <2>2. f.size + Len(<<>>) = f.size
    BY <1>1
  <2>3. fifo_add_buf(f, <<>>) = [f EXCEPT !.buf = b, !.size = f.size + Len(<<>>)]
    BY DEF fifo_add_buf
  <2> HIDE DEF b
  <2> QED
    BY <2>1, <2>2, <2>3 DEF FifoType
<1>3. ASSUME NEW data \in Seq(B), NEW c \in B, f.size + Len(data) < C
      PROVE  fifo_add_buf(f, Append(data, c)) = fifo_add_byte(fifo_add_buf(f, data), c)
  <2> DEFINE d == Append(data, c)
             n == Len(data)
             g == fifo_add_buf(f, data)
             h == fifo_add_buf(f, d)
             r == fifo_add_byte(g, c)
             e == fifo_tail_offset(f, f.size + n)
  <2>1. /\ d \in Seq(B) /\ Len(d) = n + 1 /\ n \in Nat
        /\ \A i \in 1 .. n : d[i] = data[i]
        /\ d[n + 1] = c
    OBVIOUS
  <2> HIDE DEF d
  <2>2. f.size + Len(d) <= C /\ f.size + n <= C /\ f.size + n \in 0 .. C - 1
    BY <1>1, <1>3, <2>1
  <2>3. /\ g \in FifoType(B, C) /\ g.size = f.size + n /\ g.tail = f.tail
    BY <1>3, <2>2, AddBufCells
  <2>4. /\ h \in FifoType(B, C) /\ h.size = f.size + (n + 1) /\ h.tail = f.tail
    BY <2>1, <2>2, AddBufCells
  <2>5. fifo_head_pos(g) = e
    BY <1>1, <2>3 DEF fifo_head_pos, fifo_tail_offset, FifoType
  <2>6. /\ r.size = f.size + (n + 1) /\ r.tail = f.tail
        /\ r.buf = [g.buf EXCEPT ![e] = c]
        /\ r \in FifoType(B, C)
    <3>1. ~fifo_is_full(g)
      BY <1>3, <2>2, <2>3 DEF fifo_is_full, FifoType
    <3>2. r \in FifoType(B, C)
      BY <2>3, <3>1, AddByteAppends
    <3>3. /\ r.size = g.size + 1 /\ r.tail = g.tail
          /\ r.buf = [g.buf EXCEPT ![e] = c]
      BY <2>3, <2>5 DEF fifo_add_byte, FifoType
    <3>4. (f.size + n) + 1 = f.size + (n + 1)
      <4>1. f.size \in Int /\ n \in Int
        BY <1>1
      <4> HIDE DEF n
      <4> QED
        BY <4>1
    <3> QED
      BY <2>3, <3>2, <3>3, <3>4
  <2>7. \A o \in 0 .. C - 1 :
          g.buf[fifo_tail_offset(f, o)] =
            IF f.size <= o /\ o < f.size + n
              THEN data[o - f.size + 1] ELSE f.buf[fifo_tail_offset(f, o)]
    BY <1>3, <2>2, AddBufCells
  <2>8. \A o \in 0 .. C - 1 :
          h.buf[fifo_tail_offset(f, o)] =
            IF f.size <= o /\ o < f.size + (n + 1)
              THEN d[o - f.size + 1] ELSE f.buf[fifo_tail_offset(f, o)]
    BY <2>1, <2>2, AddBufCells
  <2> HIDE DEF g, h, r
  <2>9. ASSUME NEW o \in 0 .. C - 1
        PROVE  h.buf[fifo_tail_offset(f, o)] = r.buf[fifo_tail_offset(f, o)]
    <3> DEFINE k == fifo_tail_offset(f, o)
    <3>1. k \in 0 .. C - 1
      <4>1. o \in 0 .. C
        BY <2>9
      <4> QED
        BY <4>1, OffsetValue
    <3>2. g.buf \in [0 .. C - 1 -> B]
      BY <2>3 DEF FifoType
    <3>3. k = e <=> o = f.size + n
      BY <2>2, OffsetInjective
    <3>4. r.buf[k] = IF k = e THEN c ELSE g.buf[k]
      BY <2>6, <3>1, <3>2
    <3>5. g.buf[k] = IF f.size <= o /\ o < f.size + n
                       THEN data[o - f.size + 1] ELSE f.buf[k]
      BY <2>7
    <3>6. h.buf[k] = IF f.size <= o /\ o < f.size + (n + 1)
                       THEN d[o - f.size + 1] ELSE f.buf[k]
      BY <2>8
    <3> HIDE DEF k, e
    <3>7. CASE o = f.size + n
      <4>1. o - f.size + 1 = n + 1 /\ f.size <= o /\ o < f.size + (n + 1)
        BY <1>1, <2>1, <3>7
      <4> QED
        BY <2>1, <3>3, <3>4, <3>6, <3>7, <4>1 DEF k
    <3>8. CASE f.size <= o /\ o < f.size + n
      <4>1. o - f.size + 1 \in 1 .. n /\ o < f.size + (n + 1) /\ o # f.size + n
        BY <1>1, <2>1, <3>8
      <4> QED
        BY <2>1, <3>3, <3>4, <3>5, <3>6, <3>8, <4>1 DEF k
    <3>9. CASE ~(f.size <= o /\ o < f.size + (n + 1))
      <4>1. ~(f.size <= o /\ o < f.size + n) /\ o # f.size + n
        BY <1>1, <2>1, <3>9
      <4> QED
        BY <3>3, <3>4, <3>5, <3>6, <3>9, <4>1 DEF k
    <3>10. \/ o = f.size + n \/ (f.size <= o /\ o < f.size + n)
           \/ ~(f.size <= o /\ o < f.size + (n + 1))
      <4>1. f.size \in Int /\ n \in Int /\ o \in Int
        BY <1>1, <2>9
      <4> HIDE DEF n
      <4> QED
        BY <4>1
    <3> QED
      BY <3>7, <3>8, <3>9, <3>10
  <2>10. ASSUME NEW k \in 0 .. C - 1 PROVE \E o \in 0 .. C - 1 : fifo_tail_offset(f, o) = k
    <3> DEFINE o == IF k >= f.tail THEN k - f.tail ELSE k + C - f.tail
    <3>1. o \in 0 .. C - 1 /\ o \in 0 .. C
      BY <1>1
    <3>2. fifo_tail_offset(f, o) = IF f.tail + o < C THEN f.tail + o ELSE f.tail + o - C
      BY <3>1, OffsetValue
    <3>3. fifo_tail_offset(f, o) = k
      BY <1>1, <3>2
    <3> QED
      BY <3>1, <3>3
  <2>11. h.buf = r.buf
    <3>1. h.buf \in [0 .. C - 1 -> B] /\ r.buf \in [0 .. C - 1 -> B]
      BY <2>4, <2>6 DEF FifoType
    <3>2. ASSUME NEW k \in 0 .. C - 1 PROVE h.buf[k] = r.buf[k]
      BY <2>9, <2>10
    <3> DEFINE x == h.buf
               y == r.buf
    <3>3. x \in [0 .. C - 1 -> B] /\ y \in [0 .. C - 1 -> B]
      BY <3>1
    <3>4. \A k \in 0 .. C - 1 : x[k] = y[k]
      BY <3>2
    <3> HIDE DEF x, y
    <3>5. x = y
      BY <3>3, <3>4
    <3> QED
      BY <3>5 DEF x, y
  <2>12. h = r
    <3>1. h.capacity = C /\ r.capacity = C
      BY <2>4, <2>6 DEF FifoType
    <3>2. h = [capacity |-> h.capacity, size |-> h.size, tail |-> h.tail, buf |-> h.buf]
      BY <2>4 DEF FifoType
    <3>3. r = [capacity |-> r.capacity, size |-> r.size, tail |-> r.tail, buf |-> r.buf]
      BY <2>6 DEF FifoType
    <3> QED
      BY <2>4, <2>6, <2>11, <3>1, <3>2, <3>3
  <2> QED
    BY <2>12 DEF h, r, g, d
<1> QED
  BY <1>2, <1>3

-----------------------------------------------------------------------------
(* Streams of frames                                                       *)

\* Induction over the natural numbers: a set of counterexamples has a least one.
LEMMA LeastNatural ==
  ASSUME NEW T, T \subseteq Nat, T # {}
  PROVE  \E x \in T : \A y \in T : x <= y
<1> DEFINE R == OpToRel(<, Nat)
<1>1. IsWellFoundedOn(R, Nat)
  BY NatLessThanWellFounded
<1>2. \A x, y \in Nat : x < y => <<x, y>> \in R
  BY DEF OpToRel
<1> HIDE DEF R
<1>3. PICK x \in T : \A y \in T : ~ (<<y, x>> \in R)
  BY <1>1, WFMin
<1>4. \A y \in T : ~ (y < x)
  BY <1>2, <1>3
<1> QED
  BY <1>3, <1>4

LEMMA ProductMonotonic ==
  ASSUME NEW a \in Nat, NEW b \in Nat, NEW M \in Nat, a <= b
  PROVE  a * M <= b * M
<1>1. PICK d \in Nat : b = a + d
  <2>1. b - a \in Nat /\ b = a + (b - a)
    OBVIOUS
  <2> QED
    BY <2>1
<1>2. d * M \in Nat
  OBVIOUS
<1>3. b * M = a * M + d * M
  BY <1>1
<1> QED
  BY <1>2, <1>3

LEMMA ConcatIndex ==
  ASSUME NEW S, NEW s \in Seq(S), NEW t \in Seq(S)
  PROVE  /\ s \o t \in Seq(S) /\ Len(s \o t) = Len(s) + Len(t)
         /\ \A k \in 1 .. Len(s) : (s \o t)[k] = s[k]
         /\ \A k \in 1 .. Len(t) : (s \o t)[Len(s) + k] = t[k]
<1> DEFINE u == s \o t
<1>1. /\ u \in Seq(S) /\ Len(u) = Len(s) + Len(t)
      /\ \A k \in 1 .. Len(s) + Len(t) :
           u[k] = IF k <= Len(s) THEN s[k] ELSE t[k - Len(s)]
  BY ConcatProperties
<1>2. Len(s) \in Nat /\ Len(t) \in Nat
  OBVIOUS
<1> HIDE DEF u
<1>3. ASSUME NEW k \in 1 .. Len(s) PROVE u[k] = s[k]
  <2>1. k \in 1 .. Len(s) + Len(t) /\ k <= Len(s)
    BY <1>2
  <2> QED
    BY <1>1, <2>1
<1>4. ASSUME NEW k \in 1 .. Len(t) PROVE u[Len(s) + k] = t[k]
  <2>1. /\ Len(s) + k \in 1 .. Len(s) + Len(t) /\ ~(Len(s) + k <= Len(s))
        /\ (Len(s) + k) - Len(s) = k
    BY <1>2
  <2> QED
    BY <1>1, <2>1
<1> QED
  BY <1>1, <1>3, <1>4 DEF u

\* Taking bytes from the front of the fifo takes them from the stream.
LEMMA DropFromStream ==
  ASSUME NEW S, NEW s \in Seq(S), NEW w \in Seq(S), NEW m \in 0 .. Len(s)
  PROVE  SubSeq(s, m + 1, Len(s)) \o w = SubSeq(s \o w, m + 1, Len(s \o w))
<1> DEFINE a == SubSeq(s, m + 1, Len(s))
           u == s \o w
           b == SubSeq(u, m + 1, Len(u))
           v == a \o w
<1>1. Len(s) \in Nat /\ Len(w) \in Nat /\ m \in Nat /\ m <= Len(s)
  OBVIOUS
<1>2. /\ u \in Seq(S) /\ Len(u) = Len(s) + Len(w)
      /\ \A k \in 1 .. Len(s) : u[k] = s[k]
      /\ \A k \in 1 .. Len(w) : u[Len(s) + k] = w[k]
  BY ConcatIndex
<1> HIDE DEF u
<1>3. /\ a \in Seq(S) /\ Len(a) = Len(s) - m
      /\ \A k \in 1 .. Len(s) - m : a[k] = s[m + k]
  <2>1. \A k \in m + 1 .. Len(s) : s[k] \in S
    BY <1>1
  <2>2. /\ a \in Seq(S) /\ Len(a) = IF m + 1 <= Len(s) THEN Len(s) - (m + 1) + 1 ELSE 0
        /\ \A k \in 1 .. Len(s) - (m + 1) + 1 : a[k] = s[(m + 1) + k - 1]
    BY <1>1, <2>1, SubSeqProperties
  <2> HIDE DEF a
  <2>3. ASSUME NEW k \in 1 .. Len(s) - m PROVE a[k] = s[m + k]
    <3>1. k \in 1 .. Len(s) - (m + 1) + 1 /\ (m + 1) + k - 1 = m + k
      BY <1>1
    <3> QED
      BY <2>2, <3>1
  <2>4. Len(a) = Len(s) - m
    BY <1>1, <2>2
  <2> QED
    BY <2>2, <2>3, <2>4
<1>4. /\ b \in Seq(S) /\ Len(b) = Len(u) - m
      /\ \A k \in 1 .. Len(u) - m : b[k] = u[m + k]
  <2>1. \A k \in m + 1 .. Len(u) : u[k] \in S
    BY <1>1, <1>2
  <2>2. /\ b \in Seq(S) /\ Len(b) = IF m + 1 <= Len(u) THEN Len(u) - (m + 1) + 1 ELSE 0
        /\ \A k \in 1 .. Len(u) - (m + 1) + 1 : b[k] = u[(m + 1) + k - 1]
    BY <1>1, <1>2, <2>1, SubSeqProperties
  <2> HIDE DEF b
  <2>3. ASSUME NEW k \in 1 .. Len(u) - m PROVE b[k] = u[m + k]
    <3>1. k \in 1 .. Len(u) - (m + 1) + 1 /\ (m + 1) + k - 1 = m + k
      BY <1>1, <1>2
    <3> QED
      BY <2>2, <3>1
  <2>4. Len(b) = Len(u) - m
    BY <1>1, <1>2, <2>2
  <2> QED
    BY <2>2, <2>3, <2>4
<1> HIDE DEF a, b
<1>5. /\ v \in Seq(S) /\ Len(v) = Len(a) + Len(w)
      /\ \A k \in 1 .. Len(a) : v[k] = a[k]
      /\ \A k \in 1 .. Len(w) : v[Len(a) + k] = w[k]
  <2>1. a \in Seq(S) /\ w \in Seq(S)
    BY <1>3
  <2> QED
    BY <2>1, ConcatIndex
<1> HIDE DEF v
<1>6. Len(v) = Len(b)
  BY <1>1, <1>2, <1>3, <1>4, <1>5
<1>7. ASSUME NEW k \in 1 .. Len(v) PROVE v[k] = b[k]
  <2>1. k \in 1 .. Len(u) - m
    BY <1>4, <1>6
  <2>2. CASE k <= Len(s) - m
    <3>1. k \in 1 .. Len(a) /\ k \in 1 .. Len(s) - m /\ m + k \in 1 .. Len(s)
      BY <1>1, <1>3, <2>2
    <3> QED
      BY <1>2, <1>3, <1>4, <1>5, <2>1, <3>1
  <2>3. CASE ~(k <= Len(s) - m)
    <3> DEFINE j == k - (Len(s) - m)
    <3>1. j \in 1 .. Len(w) /\ Len(a) + j = k /\ Len(s) + j = m + k
      BY <1>1, <1>2, <1>3, <2>1, <2>3
    <3> HIDE DEF j
    <3> QED
      BY <1>2, <1>4, <1>5, <2>1, <3>1
  <2> QED
    BY <2>2, <2>3
<1>8. v = b
  BY <1>4, <1>5, <1>6, <1>7, SeqEqual
<1> QED
  BY <1>8 DEF v, a, b, u

\* The frame F is what S holds behind position i and up to position j.
Occupies(S, F, i, j) ==
  /\ j = i + Len(F)
  /\ \A k \in 1 .. Len(F) : S[i + k] = F[k]

\* Behind its first b bytes S is made of the frames of q, cut at pos.
Cuts(S, q, b, pos) ==
  /\ pos[0] = b /\ pos[Len(q)] = Len(S)
  /\ \A i, j \in 0 .. Len(q) : i <= j => pos[i] <= pos[j]
  /\ \A k \in 1 .. Len(q) : Occupies(S, q[k], pos[k - 1], pos[k])

Framed(S, q, b) == \E pos \in [0 .. Len(q) -> Nat] : Cuts(S, q, b, pos)

LEMMA FramedEmpty ==
  ASSUME NEW B, NEW S \in Seq(B)
  PROVE  Framed(S, <<>>, Len(S))
<1> DEFINE pos == [k \in 0 .. 0 |-> Len(S)]
<1>1. Len(<<>>) = 0 /\ Len(S) \in Nat
  OBVIOUS
<1>2. pos \in [0 .. Len(<<>>) -> Nat] /\ pos[0] = Len(S)
  BY <1>1
<1>3. /\ \A i, j \in 0 .. Len(<<>>) : i <= j => pos[i] <= pos[j]
      /\ 1 .. Len(<<>>) = {}
  BY <1>1
<1>4. Cuts(S, <<>>, Len(S), pos)
  BY <1>1, <1>2, <1>3 DEF Cuts
<1> QED
  BY <1>2, <1>4 DEF Framed

\* A frame appended to the stream.
LEMMA FramedAppend ==
  ASSUME NEW B, NEW S \in Seq(B), NEW q \in Seq(Seq(B)), NEW b \in Nat,
         Framed(S, q, b), NEW F \in Seq(B)
  PROVE  Framed(S \o F, Append(q, F), b)
<1> DEFINE n == Len(q)
           q1 == Append(q, F)
           S1 == S \o F
<1>1. PICK pos \in [0 .. n -> Nat] : Cuts(S, q, b, pos)
  BY DEF Framed
<1> DEFINE pos1 == [k \in 0 .. n + 1 |-> IF k <= n THEN pos[k] ELSE Len(S) + Len(F)]
<1>2. F \in Seq(B) /\ Len(F) \in Nat /\ n \in Nat /\ Len(S) \in Nat
  OBVIOUS
<1>3. /\ Len(q1) = n + 1 /\ q1[n + 1] = F
      /\ \A k \in 1 .. n : q1[k] = q[k]
  OBVIOUS
<1>4. /\ Len(S1) = Len(S) + Len(F)
      /\ \A k \in 1 .. Len(S) : S1[k] = S[k]
      /\ \A k \in 1 .. Len(F) : S1[Len(S) + k] = F[k]
  BY <1>2, ConcatIndex
<1>5. /\ pos[0] = b /\ pos[n] = Len(S)
      /\ \A i, j \in 0 .. n : i <= j => pos[i] <= pos[j]
      /\ \A k \in 1 .. n : Occupies(S, q[k], pos[k - 1], pos[k])
  BY <1>1 DEF Cuts
<1> HIDE DEF n, q1, S1
<1>6. /\ pos1 \in [0 .. n + 1 -> Nat] /\ pos1[n + 1] = Len(S) + Len(F)
      /\ \A k \in 0 .. n : pos1[k] = pos[k]
  <2>1. n + 1 \in 0 .. n + 1 /\ ~(n + 1 <= n) /\ Len(S) + Len(F) \in Nat
    BY <1>2
  <2>2. \A k \in 0 .. n : k \in 0 .. n + 1 /\ k <= n
    BY <1>2
  <2>3. \A k \in 0 .. n + 1 : k <= n => k \in 0 .. n
    BY <1>2
  <2> QED
    BY <2>1, <2>2, <2>3
<1> HIDE DEF pos1
<1>7. ASSUME NEW i \in 0 .. n + 1, NEW j \in 0 .. n + 1, i <= j
      PROVE  pos1[i] <= pos1[j]
  <2>1. i \in 0 .. n => pos[i] <= Len(S)
    BY <1>2, <1>5
  <2>2. i \in 0 .. n \/ i = n + 1
    BY <1>2
  <2>3. CASE j \in 0 .. n
    <3>1. i \in 0 .. n
      BY <1>2, <1>7, <2>3
    <3>2. pos1[i] = pos[i] /\ pos1[j] = pos[j]
      BY <1>6, <2>3, <3>1
    <3> QED
      BY <1>5, <1>7, <2>3, <3>1, <3>2
  <2>4. CASE j = n + 1
    <3>1. CASE i = n + 1
      BY <1>2, <1>6, <2>4, <3>1
    <3>2. CASE i \in 0 .. n
      <4>1. pos1[i] = pos[i] /\ pos[i] \in Nat
        BY <1>6, <3>2
      <4> QED
        BY <1>2, <1>6, <2>1, <2>4, <3>2, <4>1
    <3> QED
      BY <2>2, <3>1, <3>2
  <2> QED
    BY <1>2, <2>3, <2>4
<1>8. ASSUME NEW k \in 1 .. n + 1
      PROVE  Occupies(S1, q1[k], pos1[k - 1], pos1[k])
  <2>1. k - 1 \in 0 .. n
    BY <1>2
  <2>2. CASE k \in 1 .. n
    <3>1. Occupies(S, q[k], pos[k - 1], pos[k])
      BY <1>5, <2>2
    <3>2. /\ pos1[k - 1] = pos[k - 1] /\ pos1[k] = pos[k] /\ q1[k] = q[k]
          /\ pos[k - 1] \in Nat /\ pos[k] \in Nat /\ q[k] \in Seq(B)
      <4>1. k \in 0 .. n
        BY <2>2
      <4>2. q[k] \in Seq(B)
        BY <2>2 DEF n
      <4> QED
        BY <1>3, <1>6, <2>1, <2>2, <4>1, <4>2
    <3>3. pos[k] <= Len(S)
      BY <1>2, <1>5, <2>2
    <3>4. ASSUME NEW i \in 1 .. Len(q[k])
          PROVE  S1[pos[k - 1] + i] = S[pos[k - 1] + i]
      <4>1. pos[k] = pos[k - 1] + Len(q[k]) /\ Len(q[k]) \in Nat
        BY <3>1, <3>2 DEF Occupies
      <4>2. pos[k - 1] + i \in 1 .. Len(S)
        <5> DEFINE a == pos[k - 1]
                   c == pos[k]
                   m == Len(q[k])
        <5>1. /\ a \in Nat /\ c \in Nat /\ m \in Nat /\ Len(S) \in Nat
              /\ c = a + m /\ c <= Len(S) /\ i \in 1 .. m
          BY <1>2, <3>2, <3>3, <4>1
        <5> HIDE DEF a, c, m
        <5>2. a + i \in 1 .. Len(S)
          BY <5>1
        <5> QED
          BY <5>2 DEF a
      <4> QED
        BY <1>4, <4>2
    <3> QED
      BY <3>1, <3>2, <3>4 DEF Occupies
  <2>3. CASE k = n + 1
    <3>1. pos1[k - 1] = Len(S) /\ pos1[k] = Len(S) + Len(F) /\ q1[k] = F
      <4>1. k - 1 = n /\ n \in 0 .. n
        BY <1>2, <2>3
      <4> QED
        BY <1>3, <1>5, <1>6, <2>3, <4>1
    <3> QED
      BY <1>4, <3>1 DEF Occupies
  <2> QED
    BY <1>2, <2>2, <2>3
<1>9. Cuts(S1, q1, b, pos1)
  <2>1. pos1[0] = b
    BY <1>2, <1>5, <1>6
  <2> QED
    BY <1>3, <1>4, <1>6, <1>7, <1>8, <2>1 DEF Cuts
<1>10. pos1 \in [0 .. Len(q1) -> Nat]
  BY <1>3, <1>6
<1>11. Framed(S1, q1, b)
  BY <1>9, <1>10 DEF Framed
<1> QED
  BY <1>11 DEF S1, q1

\* A byte that belongs to no frame is taken from the stream.
LEMMA FramedTail ==
  ASSUME NEW B, NEW S \in Seq(B), NEW q \in Seq(Seq(B)), NEW b \in Nat \ {0},
         Framed(S, q, b)
  PROVE  S # <<>> /\ Framed(Tail(S), q, b - 1)
<1> DEFINE n == Len(q)
           T == Tail(S)
<1>1. PICK pos \in [0 .. n -> Nat] : Cuts(S, q, b, pos)
  BY DEF Framed
<1>2. n \in Nat /\ Len(S) \in Nat
  OBVIOUS
<1>3. /\ pos[0] = b /\ pos[n] = Len(S)
      /\ \A i, j \in 0 .. n : i <= j => pos[i] <= pos[j]
      /\ \A k \in 1 .. n : Occupies(S, q[k], pos[k - 1], pos[k])
  BY <1>1 DEF Cuts
<1> DEFINE pos1 == [k \in 0 .. n |-> pos[k] - 1]
<1>5. \A k \in 0 .. n : pos[k] \in Nat \ {0}
  <2> HIDE DEF n
  <2> SUFFICES ASSUME NEW k \in 0 .. n PROVE pos[k] \in Nat \ {0}
    OBVIOUS
  <2>1. pos[0] <= pos[k] /\ pos[k] \in Nat /\ 0 \in 0 .. n
    BY <1>2, <1>3
  <2> QED
    BY <1>3, <2>1
<1> HIDE DEF n
<1>6. S # <<>>
  <2>1. pos[n] \in Nat \ {0}
    BY <1>2, <1>5
  <2> QED
    BY <1>3, <2>1
<1>7. /\ T \in Seq(B) /\ Len(T) = Len(S) - 1
      /\ \A i \in 1 .. Len(S) - 1 : T[i] = S[i + 1]
  BY <1>6, HeadTailProperties
<1> HIDE DEF T
<1>8. pos1 \in [0 .. n -> Nat] /\ \A k \in 0 .. n : pos1[k] = pos[k] - 1
  BY <1>5
<1> HIDE DEF pos1
<1>9. \A i, j \in 0 .. n : i <= j => pos1[i] <= pos1[j]
  BY <1>3, <1>5, <1>8
<1>10. ASSUME NEW k \in 1 .. n
       PROVE  Occupies(T, q[k], pos1[k - 1], pos1[k])
  <2>1. k \in 0 .. n /\ k - 1 \in 0 .. n
    BY <1>2
  <2>2. Occupies(S, q[k], pos[k - 1], pos[k]) /\ pos[k] <= Len(S)
    BY <1>2, <1>3, <2>1
  <2>3. q[k] \in Seq(B)
    BY DEF n
  <2> DEFINE F == q[k]
  <2>4. Len(F) \in Nat
    BY <2>3
  <2>5. pos[k] = pos[k - 1] + Len(F) /\ \A i \in 1 .. Len(F) : S[pos[k - 1] + i] = F[i]
    BY <2>2 DEF Occupies
  <2> HIDE DEF F
  <2>6. /\ pos1[k] = pos[k] - 1 /\ pos1[k - 1] = pos[k - 1] - 1
        /\ pos[k] \in Nat \ {0} /\ pos[k - 1] \in Nat \ {0}
    BY <1>5, <1>8, <2>1
  <2>7. pos1[k] = pos1[k - 1] + Len(F)
    BY <2>4, <2>5, <2>6
  <2>8. ASSUME NEW i \in 1 .. Len(F) PROVE T[pos1[k - 1] + i] = F[i]
    <3>1. /\ pos1[k - 1] + i \in 1 .. Len(S) - 1
          /\ (pos1[k - 1] + i) + 1 = pos[k - 1] + i
      <4> DEFINE a == pos[k - 1]
                 c == pos[k]
                 m == Len(F)
      <4>1. /\ a \in Nat \ {0} /\ c \in Nat /\ m \in Nat /\ Len(S) \in Nat
            /\ c = a + m /\ c <= Len(S) /\ i \in 1 .. m /\ pos1[k - 1] = a - 1
        BY <1>2, <2>2, <2>4, <2>5, <2>6
      <4> HIDE DEF a, c, m
      <4>2. a - 1 + i \in 1 .. Len(S) - 1 /\ (a - 1 + i) + 1 = a + i
        BY <4>1
      <4> QED
        BY <4>1, <4>2 DEF a
    <3> QED
      BY <1>7, <2>5, <3>1
  <2> QED
    BY <2>7, <2>8 DEF Occupies, F
<1>11. Cuts(T, q, b - 1, pos1)
  <2>1. pos1[0] = b - 1 /\ pos1[n] = Len(T)
    <3>1. 0 \in 0 .. n /\ n \in 0 .. n
      BY <1>2
    <3> QED
      BY <1>3, <1>7, <1>8, <3>1
  <2> QED
    BY <1>9, <1>10, <2>1 DEF Cuts, n
<1> QED
  BY <1>6, <1>8, <1>11 DEF Framed, T, n

\* A stream without prefix starts with the oldest frame.
LEMMA FramedFront ==
  ASSUME NEW B, NEW S \in Seq(B), NEW q \in Seq(Seq(B)), Framed(S, q, 0),
         S # <<>>
  PROVE  /\ q # <<>> /\ q[1] \in Seq(B)
         /\ Len(q[1]) <= Len(S)
         /\ \A k \in 1 .. Len(q[1]) : S[k] = q[1][k]
<1> DEFINE n == Len(q)
           F == q[1]
<1>1. PICK pos \in [0 .. n -> Nat] : Cuts(S, q, 0, pos)
  BY DEF Framed
<1>2. n \in Nat /\ Len(S) \in Nat /\ Len(S) # 0
  OBVIOUS
<1>3. /\ pos[0] = 0 /\ pos[n] = Len(S)
      /\ \A i, j \in 0 .. n : i <= j => pos[i] <= pos[j]
      /\ \A k \in 1 .. n : Occupies(S, q[k], pos[k - 1], pos[k])
  BY <1>1 DEF Cuts
<1>4. n # 0
  BY <1>2, <1>3
<1>5. q # <<>> /\ q[1] \in Seq(B)
  BY <1>4
<1> HIDE DEF n
<1>6. 1 \in 1 .. n /\ 1 \in 0 .. n /\ n \in 0 .. n /\ 1 - 1 = 0
  BY <1>2, <1>4
<1>7. Occupies(S, q[1], 0, pos[1]) /\ pos[1] <= Len(S)
  BY <1>2, <1>3, <1>6
<1>8. Len(F) \in Nat
  BY <1>5
<1>9. pos[1] = 0 + Len(F) /\ \A k \in 1 .. Len(F) : S[0 + k] = F[k]
  BY <1>7 DEF Occupies
<1> HIDE DEF F
<1>10. pos[1] = Len(F) /\ \A k \in 1 .. Len(F) : S[k] = F[k]
  BY <1>8, <1>9
<1> QED
  BY <1>5, <1>7, <1>10 DEF F

\* Taking the oldest frame leaves the others.
LEMMA FramedPop ==
  ASSUME NEW B, NEW S \in Seq(B), NEW q \in Seq(Seq(B)), Framed(S, q, 0),
         q # <<>>
  PROVE  Framed(SubSeq(S, Len(q[1]) + 1, Len(S)), Tail(q), 0)
<1> DEFINE n == Len(q)
           m == Len(q[1])
           T == SubSeq(S, m + 1, Len(S))
           r == Tail(q)
<1>1. PICK pos \in [0 .. n -> Nat] : Cuts(S, q, 0, pos)
  BY DEF Framed
<1>2. n \in Nat \ {0} /\ Len(S) \in Nat /\ q[1] \in Seq(B)
  OBVIOUS
<1>3. /\ pos[0] = 0 /\ pos[n] = Len(S)
      /\ \A i, j \in 0 .. n : i <= j => pos[i] <= pos[j]
      /\ \A k \in 1 .. n : Occupies(S, q[k], pos[k - 1], pos[k])
  BY <1>1 DEF Cuts
<1>4. r \in Seq(Seq(B)) /\ Len(r) = n - 1 /\ \A k \in 1 .. n - 1 : r[k] = q[k + 1]
  BY HeadTailProperties
<1>5. m \in Nat
  BY <1>2
<1> HIDE DEF n, r
<1>6. pos[1] = m
  <2>1. 1 \in 1 .. n /\ 1 - 1 = 0
    BY <1>2
  <2>2. Occupies(S, q[1], 0, pos[1])
    BY <1>3, <2>1
  <2>3. pos[1] = 0 + m
    BY <2>2 DEF Occupies
  <2> HIDE DEF m
  <2> QED
    BY <1>5, <2>3
<1> HIDE DEF m
<1>7. \A k \in 0 .. n - 1 : k + 1 \in 0 .. n /\ k + 1 \in 1 .. n /\ pos[k + 1] \in Nat
                            /\ m <= pos[k + 1] /\ pos[k + 1] <= Len(S)
  <2> SUFFICES ASSUME NEW k \in 0 .. n - 1
               PROVE  k + 1 \in 0 .. n /\ k + 1 \in 1 .. n /\ pos[k + 1] \in Nat
                      /\ m <= pos[k + 1] /\ pos[k + 1] <= Len(S)
    OBVIOUS
  <2>1. k + 1 \in 0 .. n /\ k + 1 \in 1 .. n /\ 1 \in 0 .. n /\ n \in 0 .. n
        /\ 1 <= k + 1 /\ k + 1 <= n
    BY <1>2
  <2> QED
    BY <1>3, <1>6, <2>1
<1>8. /\ T \in Seq(B) /\ Len(T) = Len(S) - m
      /\ \A k \in 1 .. Len(S) - m : T[k] = S[m + k]
  <2>1. m <= Len(S)
    <3>1. 0 \in 0 .. n - 1
      BY <1>2
    <3> QED
      <4>1. m <= pos[0 + 1] /\ pos[0 + 1] <= Len(S) /\ pos[0 + 1] \in Nat
        BY <1>7, <3>1
      <4> QED
        BY <1>2, <1>5, <4>1
  <2>2. \A k \in m + 1 .. Len(S) : S[k] \in B
    BY <1>2, <1>5
  <2>3. /\ T \in Seq(B)
        /\ Len(T) = IF m + 1 <= Len(S) THEN Len(S) - (m + 1) + 1 ELSE 0
        /\ \A k \in 1 .. Len(S) - (m + 1) + 1 : T[k] = S[(m + 1) + k - 1]
    BY <1>2, <1>5, <2>2, SubSeqProperties
  <2> HIDE DEF T
  <2>4. Len(T) = Len(S) - m
    <3>1. Len(S) \in Nat /\ m \in Nat
      BY <1>2, <1>5
    <3> QED
      BY <2>1, <2>3, <3>1
  <2>5. ASSUME NEW k \in 1 .. Len(S) - m PROVE T[k] = S[m + k]
    <3>1. k \in 1 .. Len(S) - (m + 1) + 1 /\ (m + 1) + k - 1 = m + k
      BY <1>2, <1>5
    <3> QED
      BY <2>3, <3>1
  <2> QED
    BY <2>3, <2>4, <2>5
<1> HIDE DEF T
<1> DEFINE pos1 == [k \in 0 .. n - 1 |-> pos[k + 1] - m]
<1>9. pos1 \in [0 .. n - 1 -> Nat] /\ \A k \in 0 .. n - 1 : pos1[k] = pos[k + 1] - m
  <2>1. \A k \in 0 .. n - 1 : pos[k + 1] - m \in Nat
    BY <1>5, <1>7
  <2> QED
    BY <2>1
<1> HIDE DEF pos1
<1>10. ASSUME NEW i \in 0 .. n - 1, NEW j \in 0 .. n - 1, i <= j
       PROVE  pos1[i] <= pos1[j]
  <2>1. i + 1 <= j + 1
    BY <1>2, <1>10
  <2>2. pos[i + 1] <= pos[j + 1] /\ pos[i + 1] \in Nat /\ pos[j + 1] \in Nat
    BY <1>3, <1>7, <2>1
  <2> QED
    BY <1>5, <1>9, <2>2
<1>11. ASSUME NEW k \in 1 .. n - 1
       PROVE  Occupies(T, r[k], pos1[k - 1], pos1[k])
  <2> DEFINE F == q[k + 1]
  <2>1. /\ k \in 0 .. n - 1 /\ k - 1 \in 0 .. n - 1 /\ (k - 1) + 1 = k
        /\ (k + 1) - 1 = k /\ k + 1 \in 1 .. n
    BY <1>2
  <2>2. Occupies(S, q[k + 1], pos[k], pos[k + 1])
    BY <1>3, <2>1
  <2>3. r[k] = q[k + 1] /\ q[k + 1] \in Seq(B)
    <3>1. q[k + 1] \in Seq(B)
      BY <2>1 DEF n
    <3> QED
      BY <1>4, <3>1
  <2>4. Len(F) \in Nat
    BY <2>3
  <2>5. pos[k + 1] = pos[k] + Len(F) /\ \A i \in 1 .. Len(F) : S[pos[k] + i] = F[i]
    BY <2>2 DEF Occupies
  <2> HIDE DEF F
  <2>6. /\ pos1[k] = pos[k + 1] - m /\ pos1[k - 1] = pos[k] - m
        /\ pos[k + 1] \in Nat /\ pos[k] \in Nat /\ m <= pos[k] /\ pos[k + 1] <= Len(S)
    BY <1>7, <1>9, <2>1
  <2>7. pos1[k] = pos1[k - 1] + Len(F)
    BY <1>5, <2>4, <2>5, <2>6
  <2>8. ASSUME NEW i \in 1 .. Len(F) PROVE T[pos1[k - 1] + i] = F[i]
    <3> DEFINE a == pos[k]
               c == pos[k + 1]
               l == Len(F)
    <3>1. /\ a \in Nat /\ c \in Nat /\ l \in Nat /\ Len(S) \in Nat /\ m \in Nat
          /\ c = a + l /\ c <= Len(S) /\ i \in 1 .. l /\ pos1[k - 1] = a - m /\ m <= a
      BY <1>2, <1>5, <2>4, <2>5, <2>6
    <3>2. S[a + i] = F[i]
      BY <2>5
    <3> HIDE DEF a, c, l
    <3>3. a - m + i \in 1 .. Len(S) - m /\ m + (a - m + i) = a + i
      BY <3>1
    <3> QED
      BY <1>8, <3>1, <3>2, <3>3
  <2> QED
    BY <2>3, <2>7, <2>8 DEF Occupies, F
<1>12. Cuts(T, r, 0, pos1)
  <2>1. 0 \in 0 .. n - 1 /\ n - 1 \in 0 .. n - 1 /\ 0 + 1 = 1 /\ (n - 1) + 1 = n
    BY <1>2
  <2>2. pos1[0] = 0 /\ pos1[n - 1] = Len(T)
    BY <1>3, <1>5, <1>6, <1>8, <1>9, <2>1
  <2> QED
    BY <1>4, <1>10, <1>11, <2>2 DEF Cuts
<1> QED
  BY <1>4, <1>9, <1>12 DEF Framed, T, r, m

\* The bytes of frames of at most M bytes each.
LEMMA FramedBound ==
  ASSUME NEW B, NEW S \in Seq(B), NEW q \in Seq(Seq(B)), Framed(S, q, 0),
         NEW M \in Nat, \A k \in 1 .. Len(q) : Len(q[k]) <= M
  PROVE  Len(S) <= Len(q) * M
<1> DEFINE n == Len(q)
<1>1. PICK pos \in [0 .. n -> Nat] : Cuts(S, q, 0, pos)
  BY DEF Framed
<1>2. n \in Nat
  OBVIOUS
<1>3. /\ pos[0] = 0 /\ pos[n] = Len(S)
      /\ \A k \in 1 .. n : Occupies(S, q[k], pos[k - 1], pos[k])
  BY <1>1 DEF Cuts
<1> DEFINE T == {k \in 0 .. n : ~(pos[k] <= k * M)}
<1>4. T = {}
  <2> SUFFICES ASSUME T # {} PROVE FALSE
    OBVIOUS
  <2>1. T \subseteq Nat
    BY <1>2
  <2> HIDE DEF n
  <2>2. PICK k \in T : \A j \in T : k <= j
    <3> HIDE DEF T
    <3> QED
      BY <2>1, LeastNatural
  <2>3. k \in 0 .. n /\ ~(pos[k] <= k * M)
    OBVIOUS
  <2>4. k # 0
    <3>1. 0 * M = 0
      OBVIOUS
    <3> QED
      BY <1>3, <2>3, <3>1
  <2>5. k \in 1 .. n /\ k - 1 \in 0 .. n /\ k \in Nat
    BY <1>2, <2>3, <2>4
  <2>6. pos[k - 1] <= (k - 1) * M
    <3>1. k - 1 \notin T
      <4> HIDE DEF T
      <4> QED
        BY <2>2, <2>5
    <3> QED
      BY <2>5, <3>1
  <2>7. q[k] \in Seq(B)
    BY <2>5 DEF n
  <2>8. /\ pos[k] = pos[k - 1] + Len(q[k])
        /\ Len(q[k]) <= M /\ Len(q[k]) \in Nat
    <3>1. Occupies(S, q[k], pos[k - 1], pos[k])
      BY <1>3, <2>5
    <3>2. Len(q[k]) <= M
      BY <2>5 DEF n
    <3> QED
      BY <2>7, <3>1, <3>2 DEF Occupies
  <2>9. (k - 1) * M + M = k * M
    BY <2>5
  <2> DEFINE a == pos[k - 1]
             c == pos[k]
             l == Len(q[k])
             x == (k - 1) * M
             y == k * M
  <2>10. /\ a \in Nat /\ c \in Nat /\ l \in Nat /\ x \in Int /\ y \in Int
         /\ a <= x /\ c = a + l /\ l <= M /\ x + M = y /\ ~(c <= y)
    <3>1. a \in Nat /\ c \in Nat
      BY <2>5
    <3>2. x \in Int /\ y \in Int
      BY <2>5
    <3> QED
      BY <2>3, <2>6, <2>8, <2>9, <3>1, <3>2
  <2> HIDE DEF a, c, l, x, y
  <2> QED
    BY <2>10
<1>5. n \in 0 .. n
  BY <1>2
<1> HIDE DEF n
<1>6. pos[n] <= n * M
  BY <1>4, <1>5
<1> QED
  BY <1>3, <1>6 DEF n

\* The stream is the concatenation of the frames.

LEMMA FramedFlat ==
  ASSUME NEW B, NEW S \in Seq(B), NEW q \in Seq(Seq(B)), Framed(S, q, 0)
  PROVE  S = FlattenSeq(q)
<1> DEFINE n == Len(q)
<1>1. PICK pos \in [0 .. n -> Nat] : Cuts(S, q, 0, pos)
  BY DEF Framed
<1>2. n \in Nat /\ Len(S) \in Nat
  OBVIOUS
<1>3. /\ pos[0] = 0 /\ pos[n] = Len(S)
      /\ \A i, j \in 0 .. n : i <= j => pos[i] <= pos[j]
      /\ \A k \in 1 .. n : Occupies(S, q[k], pos[k - 1], pos[k])
  BY <1>1 DEF Cuts
<1>4. \A k \in 1 .. n : q[k] \in Seq(B)
  OBVIOUS
<1> HIDE DEF n
<1>5. q \in Seq(Seq(B)) /\ Len(q) = n
  BY DEF n
<1> DEFINE h == [k \in 1 .. n |-> SubSeq(S, 1, pos[k])]
           Rec(g) == g = [k \in 1 .. n |-> IF k = 1 THEN q[k] ELSE g[k - 1] \o q[k]]
<1>6. ASSUME NEW k \in 1 .. n
      PROVE  SubSeq(S, 1, pos[k]) = IF k = 1 THEN q[k] ELSE SubSeq(S, 1, pos[k - 1]) \o q[k]
  <2> DEFINE a == pos[k - 1]
             c == pos[k]
             P == q[k]
  <2>1. k \in 0 .. n /\ k - 1 \in 0 .. n /\ n \in 0 .. n /\ k - 1 <= k /\ k <= n
    BY <1>2
  <2>2. a \in Nat /\ c \in Nat /\ a <= c /\ c <= Len(S)
    BY <1>3, <2>1
  <2>3. P \in Seq(B) /\ Len(P) \in Nat
    BY <1>4, <1>5
  <2>4. c = a + Len(P) /\ \A i \in 1 .. Len(P) : S[a + i] = P[i]
    BY <1>3, <2>3 DEF Occupies
  <2> HIDE DEF a, c, P
  <2>5. SubSeq(S, a + 1, c) = P
    <3>1. \A i \in a + 1 .. c : S[i] \in B
      BY <1>2, <2>2
    <3> DEFINE U == SubSeq(S, a + 1, c)
    <3>2. /\ U \in Seq(B) /\ Len(U) = IF a + 1 <= c THEN c - (a + 1) + 1 ELSE 0
          /\ \A i \in 1 .. c - (a + 1) + 1 : U[i] = S[(a + 1) + i - 1]
      BY <2>2, <3>1, SubSeqProperties
    <3> HIDE DEF U
    <3>3. Len(U) = Len(P)
      BY <2>2, <2>3, <2>4, <3>2
    <3>4. ASSUME NEW i \in 1 .. Len(U) PROVE U[i] = P[i]
      <4>1. i \in 1 .. Len(P) /\ i \in 1 .. c - (a + 1) + 1 /\ (a + 1) + i - 1 = a + i
        BY <2>2, <2>3, <2>4, <3>3
      <4> QED
        BY <2>4, <3>2, <4>1
    <3>5. U = P
      BY <2>3, <3>2, <3>3, <3>4, SeqEqual
    <3> QED
      BY <3>5 DEF U
  <2>6. CASE k = 1
    <3>1. a = 0
      BY <1>3, <2>6 DEF a
    <3>2. SubSeq(S, 1, c) = P
      BY <2>5, <3>1
    <3> QED
      BY <2>6, <3>2 DEF c, P
  <2>7. CASE k # 1
    <3>1. SubSeq(S, 1, a) \o SubSeq(S, a + 1, c) = SubSeq(S, 1, c)
      <4>1. /\ 1 \in 1 .. Len(S) + 1 /\ a \in 1 - 1 .. Len(S) /\ c \in a .. Len(S)
        BY <1>2, <2>2
      <4> QED
        BY <4>1, ConcatAdjacentSubSeq
    <3> QED
      BY <2>5, <2>7, <3>1 DEF a, c, P
  <2> QED
    BY <2>6, <2>7
<1>7. Rec(h)
  <2>1. ASSUME NEW k \in 1 .. n
        PROVE  h[k] = IF k = 1 THEN q[k] ELSE h[k - 1] \o q[k]
    <3>1. k # 1 => k - 1 \in 1 .. n
      BY <1>2
    <3> QED
      BY <1>6, <3>1
  <2> DEFINE x == [k \in 1 .. n |-> IF k = 1 THEN q[k] ELSE h[k - 1] \o q[k]]
  <2>2. \A k \in 1 .. n : h[k] = x[k]
    BY <2>1
  <2>3. h = x
    BY <2>2
  <2> QED
    BY <2>3
<1> DEFINE f == CHOOSE g : Rec(g)
<1>8. Rec(f)
  BY <1>7
<1>9. n # 0 => FlattenSeq(q) = f[n]
  BY <1>5 DEF FlattenSeq
<1>10. \A k \in 1 .. n : f[k] = IF k = 1 THEN q[k] ELSE f[k - 1] \o q[k]
  <2> HIDE DEF f
  <2> QED
    BY <1>8
<1> HIDE DEF f, Rec
<1> DEFINE T == {k \in 1 .. n : f[k] # SubSeq(S, 1, pos[k])}
<1>11. T = {}
  <2> SUFFICES ASSUME T # {} PROVE FALSE
    OBVIOUS
  <2>1. T \subseteq Nat
    BY <1>2
  <2>2. PICK k \in T : \A j \in T : k <= j
    <3> HIDE DEF T
    <3> QED
      BY <2>1, LeastNatural
  <2>3. k \in 1 .. n /\ f[k] # SubSeq(S, 1, pos[k])
    OBVIOUS
  <2>4. k # 1
    BY <1>6, <1>10, <2>3
  <2>5. k - 1 \in 1 .. n /\ ~(k <= k - 1)
    BY <1>2, <2>3, <2>4
  <2>6. f[k - 1] = SubSeq(S, 1, pos[k - 1])
    <3>1. k - 1 \notin T
      <4> HIDE DEF T
      <4> QED
        BY <2>2, <2>5
    <3> QED
      BY <2>5, <3>1
  <2> QED
    BY <1>6, <1>10, <2>3, <2>4, <2>6
<1>12. CASE n = 0
  <2>1. S = <<>> /\ q = <<>>
    BY <1>2, <1>3, <1>5, <1>12
  <2>2. FlattenSeq(q) = q
    BY <1>5, <1>12 DEF FlattenSeq
  <2> QED
    BY <2>1, <2>2
<1>13. CASE n # 0
  <2>1. n \in 1 .. n
    BY <1>2, <1>13
  <2>2. FlattenSeq(q) = SubSeq(S, 1, Len(S))
    BY <1>3, <1>9, <1>11, <1>13, <2>1
  <2>3. SubSeq(S, 1, Len(S)) = S
    BY SubSeqFull
  <2> QED
    BY <2>2, <2>3
<1> QED
  BY <1>12, <1>13

\* Every sequence of frames is the cut of its concatenation.
LEMMA FlatFramed ==
  ASSUME NEW B, NEW q \in Seq(Seq(B))
  PROVE  FlattenSeq(q) \in Seq(B) /\ Framed(FlattenSeq(q), q, 0)
<1> DEFINE Good(r) == \E S \in Seq(B) : Framed(S, r, 0)
           T == {k \in Nat : \E r \in Seq(Seq(B)) : Len(r) = k /\ ~Good(r)}
<1>1. T = {}
  <2> SUFFICES ASSUME T # {} PROVE FALSE
    OBVIOUS
  <2>1. PICK k \in T : \A j \in T : k <= j
    <3>1. T \subseteq Nat
      OBVIOUS
    <3> HIDE DEF T
    <3> QED
      BY <3>1, LeastNatural
  <2>2. PICK r \in Seq(Seq(B)) : Len(r) = k /\ ~Good(r)
    OBVIOUS
  <2>3. r # <<>>
    <3>1. Framed(<<>>, <<>>, 0) /\ <<>> \in Seq(B)
      <4> HIDE DEF T, Good
      <4> DEFINE e == <<>>
      <4>1. e \in Seq(B) /\ Len(e) = 0 /\ e = <<>>
        OBVIOUS
      <4> HIDE DEF e
      <4>2. Framed(e, <<>>, Len(e))
        BY <4>1, FramedEmpty
      <4> QED
        BY <4>1, <4>2
    <3>2. CASE r = <<>>
      <4> HIDE DEF T
      <4> QED
        BY <2>2, <3>1, <3>2
    <3> QED
      BY <3>2
  <2>4. PICK u \in Seq(Seq(B)), F \in Seq(B) : r = Append(u, F)
    BY <2>2, <2>3, SequenceEmptyOrAppend
  <2>5. Len(u) \in Nat /\ Len(u) < k
    BY <2>2, <2>4
  <2>6. PICK S \in Seq(B) : Framed(S, u, 0)
    <3>1. Len(u) \notin T
      <4> HIDE DEF T
      <4>1. k \in Nat
        BY <2>2
      <4> QED
        BY <2>1, <2>5, <4>1
    <3> QED
      BY <2>5, <3>1
  <2>7. Framed(S \o F, r, 0) /\ S \o F \in Seq(B)
    BY <2>4, <2>6, FramedAppend
  <2> QED
    BY <2>2, <2>7
<1>2. PICK S \in Seq(B) : Framed(S, q, 0)
  <2>1. Len(q) \in Nat /\ Len(q) \notin T
    BY <1>1
  <2> QED
    BY <2>1
<1> QED
  BY <1>2, FramedFlat

\* A frame behind the others, and the first of them.
LEMMA FlattenAppend ==
  ASSUME NEW B, NEW q \in Seq(Seq(B)), NEW F \in Seq(B)
  PROVE  FlattenSeq(Append(q, F)) = FlattenSeq(q) \o F
<1>1. FlattenSeq(q) \in Seq(B) /\ Framed(FlattenSeq(q), q, 0)
  BY FlatFramed
<1>2. Framed(FlattenSeq(q) \o F, Append(q, F), 0)
  BY <1>1, FramedAppend
<1>3. FlattenSeq(q) \o F \in Seq(B) /\ Append(q, F) \in Seq(Seq(B))
  BY <1>1
<1> QED
  BY <1>2, <1>3, FramedFlat

LEMMA FlattenTail ==
  ASSUME NEW B, NEW q \in Seq(Seq(B)), q # <<>>
  PROVE  /\ q[1] \in Seq(B) /\ Tail(q) \in Seq(Seq(B))
         /\ FlattenSeq(Tail(q)) \in Seq(B)
         /\ FlattenSeq(q) = q[1] \o FlattenSeq(Tail(q))
<1> DEFINE S == FlattenSeq(q)
           F == q[1]
           r == Tail(q)
           R == FlattenSeq(r)
           m == Len(F)
<1>1. r \in Seq(Seq(B)) /\ F \in Seq(B) /\ m \in Nat /\ q = <<F>> \o r
  <2>1. F \in Seq(B) /\ r \in Seq(Seq(B))
    OBVIOUS
  <2>2. q = <<F>> \o r
    OBVIOUS
  <2> QED
    BY <2>1, <2>2
<1>2. S \in Seq(B) /\ Framed(S, q, 0)
  BY FlatFramed
<1> HIDE DEF S, R
<1>3. SubSeq(S, m + 1, Len(S)) = R
  <2> DEFINE U == SubSeq(S, m + 1, Len(S))
  <2>1. Framed(U, r, 0)
    BY <1>2, FramedPop
  <2>2. U \in Seq(B)
    BY <1>1, <1>2, SubSeqProperties
  <2> HIDE DEF U, r
  <2>3. U = FlattenSeq(r)
    BY <1>1, <2>1, <2>2, FramedFlat
  <2> QED
    BY <2>3 DEF R, U
<1>4. R \in Seq(B)
  BY <1>1, FlatFramed DEF R
<1>5. m <= Len(S) /\ \A k \in 1 .. m : S[k] = F[k]
  <2>1. CASE S # <<>>
    BY <1>2, <2>1, FramedFront
  <2>2. CASE S = <<>>
    <3>1. PICK pos \in [0 .. Len(q) -> Nat] : Cuts(S, q, 0, pos)
      BY <1>2 DEF Framed
    <3>2. Len(q) \in Nat \ {0} /\ Len(S) = 0
      BY <2>2
    <3>3. /\ 0 \in 0 .. Len(q) /\ 1 \in 0 .. Len(q) /\ 1 \in 1 .. Len(q)
          /\ Len(q) \in 0 .. Len(q) /\ 1 - 1 = 0 /\ 1 <= Len(q)
      BY <3>2
    <3>4. pos[0] = 0 /\ pos[1] \in Nat /\ pos[1] <= 0
      BY <3>1, <3>2, <3>3 DEF Cuts
    <3>5. Occupies(S, F, 0, pos[1])
      BY <3>1, <3>3, <3>4 DEF Cuts
    <3>6. pos[1] = 0 + m
      BY <3>5 DEF Occupies
    <3> HIDE DEF m
    <3>7. m = 0
      BY <1>1, <3>4, <3>6
    <3> QED
      BY <3>2, <3>7
  <2> QED
    BY <2>1, <2>2
<1>6. SubSeq(S, 1, m) = F
  <2> DEFINE U == SubSeq(S, 1, m)
  <2>1. \A k \in 1 .. m : S[k] \in B
    BY <1>1, <1>5
  <2> HIDE DEF F
  <2>2. /\ U \in Seq(B) /\ Len(U) = IF 1 <= m THEN m - 1 + 1 ELSE 0
        /\ \A k \in 1 .. m - 1 + 1 : U[k] = S[1 + k - 1]
    BY <1>1, <2>1, SubSeqProperties
  <2> HIDE DEF U
  <2>3. Len(F) = m
    BY DEF m
  <2> HIDE DEF m
  <2>4. Len(U) = m
    BY <1>1, <2>2
  <2>5. \A k \in 1 .. m : U[k] = F[k]
    <3> TAKE k \in 1 .. m
    <3>1. k \in 1 .. m - 1 + 1 /\ 1 + k - 1 = k
      BY <1>1
    <3> QED
      BY <1>5, <2>2, <3>1
  <2>6. U = F
    BY <1>1, <2>2, <2>3, <2>4, <2>5, SeqEqual
  <2> QED
    BY <2>6 DEF U
<1>7. S = SubSeq(S, 1, m) \o SubSeq(S, m + 1, Len(S))
  <2> HIDE DEF m
  <2>1. 1 \in 1 .. Len(S) + 1 /\ m \in 1 - 1 .. Len(S) /\ Len(S) \in m .. Len(S)
    BY <1>1, <1>2, <1>5
  <2>2. SubSeq(S, 1, m) \o SubSeq(S, m + 1, Len(S)) = SubSeq(S, 1, Len(S))
    BY <1>2, <2>1, ConcatAdjacentSubSeq
  <2> QED
    BY <1>2, <2>2, SubSeqFull
<1> QED
  BY <1>1, <1>3, <1>4, <1>6, <1>7 DEF S, R
-----------------------------------------------------------------------------
(* FifoSpec: the indices of the ring buffer stay inside it, and it         *)
(* implements a bounded queue, for every capacity.                         *)

LEMMA RingInitTyped == RingInit => RingTypeOK
  BY FifoAssumption DEF RingInit, RingTypeOK, FIFO_CREATE

LEMMA RingNextTyped == RingTypeOK /\ [RingNext]_<<fifo, got>> => RingTypeOK'
<1> SUFFICES ASSUME RingTypeOK, [RingNext]_<<fifo, got>> PROVE RingTypeOK'
  OBVIOUS
<1> USE DEF RingTypeOK, FifoType
<1>1. ASSUME NEW c \in Octet, AddByte(c) PROVE RingTypeOK'
  BY <1>1, FifoAssumption, AddByteAppends DEF AddByte
<1>2. CASE GetByte
  BY <1>2, FifoAssumption, GetByteTakesFirst DEF GetByte
<1>3. CASE UNCHANGED <<fifo, got>>
  BY <1>3
<1> QED
  BY <1>1, <1>2, <1>3 DEF RingNext

\* tail stays an index of buf and size within the capacity (fifo.h:34-50), for
\* callers that keep to the tests in ble_phy.c.
THEOREM FifoTypeCorrect == RingSpec => []RingTypeOK
  BY RingInitTyped, RingNextTyped, PTL DEF RingSpec

\* Whole buffers are added and taken like single bytes (fifo.h:39-43, 52-56).
LEMMA TypedBuffers == RingTypeOK => BufferOperations
<1> SUFFICES ASSUME RingTypeOK, NEW n \in 0 .. Capacity
             PROVE  /\ fifo_has_space(fifo, n) =>
                         \A data \in [1 .. n -> Octet] :
                           fifo_bytes(fifo_add_buf(fifo, data)) = fifo_bytes(fifo) \o data
                    /\ n <= fifo.size =>
                         fifo_front(fifo, n) \o fifo_bytes(fifo_drop(fifo, n))
                           = fifo_bytes(fifo)
  BY DEF BufferOperations
<1>1. /\ fifo \in FifoType(Octet, Capacity) /\ fifo.size \in 0 .. Capacity
      /\ fifo.capacity = Capacity
  BY DEF RingTypeOK, FifoType
<1>2. ASSUME fifo_has_space(fifo, n), NEW data \in [1 .. n -> Octet]
      PROVE  fifo_bytes(fifo_add_buf(fifo, data)) = fifo_bytes(fifo) \o data
  <2>1. data \in Seq(Octet) /\ Len(data) = n
    BY <1>2, FifoAssumption
  <2>2. fifo.size + Len(data) <= Capacity
    BY <1>1, <1>2, <2>1, FifoAssumption DEF fifo_has_space
  <2> QED
    BY <1>1, <2>1, <2>2, FifoAssumption, AddBufAppends
<1>3. ASSUME n <= fifo.size
      PROVE  fifo_front(fifo, n) \o fifo_bytes(fifo_drop(fifo, n)) = fifo_bytes(fifo)
  <2> DEFINE s == fifo_bytes(fifo)
  <2>1. n \in 0 .. fifo.size /\ fifo.size \in Nat /\ n \in Nat
    BY <1>1, <1>3, FifoAssumption
  <2>2. s \in Seq(Octet) /\ Len(s) = fifo.size
    BY <1>1, FifoAssumption, BytesType
  <2>3. /\ fifo_front(fifo, n) = SubSeq(s, 1, n)
        /\ fifo_bytes(fifo_drop(fifo, n)) = SubSeq(s, n + 1, fifo.size)
    BY <1>1, <2>1, FifoAssumption, GetBufTakesFront
  <2> HIDE DEF s
  <2>4. SubSeq(s, 1, n) \o SubSeq(s, n + 1, Len(s)) = s
    BY <2>1, <2>2
  <2> QED
    BY <2>2, <2>3, <2>4 DEF s
<1> QED
  BY <1>2, <1>3

\* Data added or taken in one call keeps its order, also where it wraps around
\* the end of the array: for every capacity and every length that fits.
THEOREM BuffersQueue == RingSpec => []BufferOperations
  BY RingInitTyped, RingNextTyped, TypedBuffers, PTL DEF RingSpec

\* The ring buffer of fifo.h implements a bounded queue, for every capacity
\* and every kind of byte.
THEOREM FifoIsQueue == RingSpec => QueueSpec
<1>1. RingInit => Queue!Init
  <2> SUFFICES ASSUME RingInit PROVE Queue!Init
    OBVIOUS
  <2>1. fifo \in FifoType(Octet, Capacity) /\ fifo.size = 0
    <3>1. fifo \in FifoType(Octet, Capacity)
      BY RingInitTyped DEF RingTypeOK, FifoType
    <3>2. fifo.size = 0
      BY DEF RingInit, FIFO_CREATE
    <3> QED
      BY <3>1, <3>2
  <2>2. fifo_bytes(fifo) = <<>>
    BY <2>1, FifoAssumption, BytesType
  <2> QED
    BY <2>2 DEF RingInit, Queue!Init
<1>2. RingTypeOK /\ [RingNext]_<<fifo, got>> => [Queue!Next]_<<fifo_bytes(fifo), got>>
  <2> SUFFICES ASSUME RingTypeOK, [RingNext]_<<fifo, got>>
               PROVE  [Queue!Next]_<<fifo_bytes(fifo), got>>
    OBVIOUS
  <2>1. fifo \in FifoType(Octet, Capacity)
    BY DEF RingTypeOK, FifoType
  <2>2. ASSUME NEW c \in Octet, AddByte(c) PROVE Queue!Put(c)
    <3>1. Len(fifo_bytes(fifo)) < Capacity
      <4>1. Len(fifo_bytes(fifo)) = fifo.size
        BY <2>1, FifoAssumption, BytesType
      <4>2. fifo.size \in 0 .. Capacity /\ fifo.size # Capacity
        BY <2>1, <2>2 DEF AddByte, fifo_is_full, FifoType
      <4> QED
        BY <4>1, <4>2, FifoAssumption
    <3>2. fifo_bytes(fifo)' = Append(fifo_bytes(fifo), c)
      <4>1. fifo_bytes(fifo_add_byte(fifo, c)) = Append(fifo_bytes(fifo), c)
        BY <2>1, <2>2, FifoAssumption, AddByteAppends DEF AddByte
      <4>2. fifo_bytes(fifo)' = fifo_bytes(fifo_add_byte(fifo, c))
        BY <2>2 DEF AddByte, fifo_bytes, fifo_front, fifo_peek, fifo_tail_offset
      <4> QED
        BY <4>1, <4>2
    <3> QED
      BY <2>2, <3>1, <3>2 DEF AddByte, Queue!Put
  <2>3. CASE GetByte
    <3>1. fifo_bytes(fifo)' = fifo_bytes(fifo_rest(fifo))
      BY <2>3 DEF GetByte, fifo_bytes, fifo_front, fifo_peek, fifo_tail_offset
    <3>2. Queue!Get
      BY <2>1, <2>3, <3>1, FifoAssumption, GetByteTakesFirst DEF GetByte, Queue!Get
    <3> QED
      BY <3>2 DEF Queue!Next
  <2>4. CASE UNCHANGED <<fifo, got>>
    BY <2>4 DEF fifo_bytes, fifo_front, fifo_peek, fifo_tail_offset
  <2> QED
    BY <2>2, <2>3, <2>4 DEF RingNext, Queue!Next
<1> QED
  BY RingInitTyped, RingNextTyped, <1>1, <1>2, PTL DEF RingSpec, QueueSpec, Queue!Spec
=============================================================================
