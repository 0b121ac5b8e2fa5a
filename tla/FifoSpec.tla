------------------------------ MODULE FifoSpec ------------------------------
(***************************************************************************)
(* One fifo between a producer that adds bytes while there is space (the   *)
(* asserts at ble_phy.c:388 and 528) and a consumer that takes bytes while *)
(* there are any (ble_phy.c:163, 368).  It implements BoundedQueue.        *)
(* The names begin with Ring where the modules of the serial link have     *)
(* names of their own: the lemmas on both are one module.                  *)
(***************************************************************************)
EXTENDS Fifo

CONSTANTS
  Octet,    \* uint8_t, abstracted to a small set
  Capacity  \* the cap of FIFO_CREATE (1024)

ASSUME FifoAssumption == Capacity \in Nat \ {0}

VARIABLES fifo, got  \* got: what fifo_get_byte returned last

RingInit ==
  /\ \E byte \in Octet : fifo = FIFO_CREATE(Capacity, byte)
  /\ got \in Octet

AddByte(c) ==
  /\ ~fifo_is_full(fifo)
  /\ fifo' = fifo_add_byte(fifo, c)
  /\ UNCHANGED got

\* Variant of GetByte: the size is left alone.
GetByte_keeps_size ==
  /\ ~fifo_is_empty(fifo)
  /\ got' = fifo_first(fifo)
  /\ fifo' = [fifo EXCEPT !.tail = fifo_tail_offset(fifo, 1)]

GetByte ==
  /\ ~fifo_is_empty(fifo)
  /\ got' = fifo_first(fifo)
  /\ fifo' = fifo_rest(fifo)

RingNext == (\E c \in Octet : AddByte(c)) \/ GetByte

RingSpec == RingInit /\ [][RingNext]_<<fifo, got>>

-----------------------------------------------------------------------------
\* tail stays inside buf and size within the capacity.
RingTypeOK ==
  /\ fifo \in [capacity : {Capacity}, size : 0 .. Capacity,
               tail : 0 .. Capacity - 1, buf : [0 .. Capacity - 1 -> Octet]]
  /\ got \in Octet

\* fifo_add_buf and fifo_get_buf (fifo.h:39-43, 52-56) are queue operations as
\* well: bytes added in one call come out in order behind what was there, also
\* when they wrap around the end of buf.
BufferOperations ==
  \A n \in 0 .. Capacity :
    /\ fifo_has_space(fifo, n) =>
         \A data \in [1 .. n -> Octet] :
           fifo_bytes(fifo_add_buf(fifo, data)) = fifo_bytes(fifo) \o data
    /\ n <= fifo.size =>
         fifo_front(fifo, n) \o fifo_bytes(fifo_drop(fifo, n)) = fifo_bytes(fifo)

Queue == INSTANCE BoundedQueue WITH queue <- fifo_bytes(fifo)

\* The ring buffer behaves like a bounded first-in first-out queue.
QueueSpec == Queue!Spec
=============================================================================
