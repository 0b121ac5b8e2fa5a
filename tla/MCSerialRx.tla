----------------------------- MODULE MCSerialRx -----------------------------
(* Instances of SerialRx: a packet whose bytes look like a header, and a   *)
(* short one.  Frames take 6 and 5 bytes, so two fit into the fifo.        *)
EXTENDS SerialRx

MCPackets == {<<167, 1>>, <<2>>}
=============================================================================
