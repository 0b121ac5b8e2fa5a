----------------------------- MODULE PacketLink -----------------------------
(* What one direction of the serial link between mapper and bridge         *)
(* promises: packets arrive whole, in order, at most once; a restart of    *)
(* the bridge loses what is on its way.                                    *)
EXTENDS Naturals, Sequences

CONSTANT Packets

VARIABLES sent, received

Init == sent = <<>> /\ received = <<>>

Send(p) ==
  /\ sent' = Append(sent, p)
  /\ UNCHANGED received

Receive ==
  /\ Len(received) < Len(sent)
  /\ received' = Append(received, sent[Len(received) + 1])
  /\ UNCHANGED sent

Restart == sent' = <<>> /\ received' = <<>>

Next == (\E p \in Packets : Send(p)) \/ Receive \/ Restart

Spec == Init /\ [][Next]_<<sent, received>>
=============================================================================
