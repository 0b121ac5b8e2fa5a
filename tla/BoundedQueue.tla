---------------------------- MODULE BoundedQueue ----------------------------
(* What the byte fifos of the NimBLE bridge promise: at most Capacity      *)
(* bytes, which leave in the order in which they came.                     *)
EXTENDS Naturals, Sequences

CONSTANTS
  Octet,    \* what is queued
  Capacity  \* how much fits

VARIABLES queue, got  \* got: the last byte taken

Init == queue = <<>> /\ got \in Octet

Put(c) ==
  /\ Len(queue) < Capacity
  /\ queue' = Append(queue, c)
  /\ UNCHANGED got

Get ==
  /\ queue # <<>>
  /\ got' = Head(queue)
  /\ queue' = Tail(queue)

Next == (\E c \in Octet : Put(c)) \/ Get

Spec == Init /\ [][Next]_<<queue, got>>
=============================================================================
