-------------------------------- MODULE Fifo --------------------------------
(***************************************************************************)
(* The ring buffer of the NimBLE bridge (psf_bridge/include/fifo.h).  A    *)
(* struct fifo is the record [capacity, size, tail, buf]; the head is      *)
(* computed, never stored.  The functions check neither for a full nor for *)
(* an empty fifo: that is left to the asserts and tests of their callers   *)
(* in ble_phy.c.                                                           *)
(***************************************************************************)
EXTENDS Naturals, Sequences

FIFO_CREATE(cap, byte) ==
  [capacity |-> cap, size |-> 0, tail |-> 0, buf |-> [k \in 0 .. cap - 1 |-> byte]]

\* Variant of fifo_tail_offset: the offset is not wrapped at the end.
fifo_tail_offset_off_by_one(f, o) == (f.tail + o) % (f.capacity + 1)

\* index of the byte at an offset from the oldest one
fifo_tail_offset(f, o) == (f.tail + o) % f.capacity

fifo_head_pos(f) == fifo_tail_offset(f, f.size)

fifo_is_full(f) == f.capacity = f.size

fifo_get_size(f) == f.size

fifo_is_empty(f) == f.size = 0

\* Variant of fifo_has_space: room for one byte too many.
fifo_has_space_off_by_one(f, n) == f.capacity - f.size + 1 >= n

\* Variant of fifo_has_space: the last byte is never used.
fifo_has_space_strict(f, n) == f.capacity - f.size > n

fifo_has_space(f, n) == f.capacity - f.size >= n

fifo_peek(f, offset) == f.buf[fifo_tail_offset(f, offset)]

fifo_add_byte(f, c) ==
  [f EXCEPT !.buf[fifo_head_pos(f)] = c, !.size = f.size + 1]

\* The loops of fifo_add_buf, for data that fits, and fifo_get_buf are written in
\* closed form: SerialLemmas shows that they take one byte after the other.
fifo_add_buf(f, data) ==
  LET At(o) == fifo_tail_offset(f, f.size + o - 1)
  IN  [f EXCEPT !.buf = [k \in DOMAIN f.buf |->
                           IF \E o \in DOMAIN data : At(o) = k
                             THEN data[CHOOSE o \in DOMAIN data : At(o) = k]
                             ELSE f.buf[k]],
                !.size = f.size + Len(data)]

\* fifo_get_byte returns buf[tail] and leaves the fifo without it
fifo_first(f) == f.buf[f.tail]

fifo_rest(f) == [f EXCEPT !.tail = fifo_tail_offset(f, 1), !.size = f.size - 1]

\* the first n bytes, and the fifo that fifo_get_buf leaves behind
fifo_front(f, n) == [k \in 1 .. n |-> fifo_peek(f, k - 1)]

fifo_drop(f, n) == [f EXCEPT !.tail = fifo_tail_offset(f, n), !.size = f.size - n]

\* the bytes of a fifo, oldest first
fifo_bytes(f) == fifo_front(f, f.size)
=============================================================================
