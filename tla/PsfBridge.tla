----------------------------- MODULE PsfBridge -----------------------------
(***************************************************************************)
(* What recv_packet (ble_phy.c) does with a packet it popped: it decides   *)
(* whether the packet fits the channel, hands it to the link layer and     *)
(* keeps handing over empty packets while answers come back.               *)
(*                                                                         *)
(* The link layer is NimBLE's, known here by what the driver says of it:   *)
(* it answers every data packet at once with what its host has queued, or  *)
(* with an empty packet, goes to standby afterwards and rejects packets    *)
(* until it is back.  A standby takes any time, or never ends (when        *)
(* advertising fails to start).  Time passes in units of 10 ms.            *)
(***************************************************************************)
EXTENDS Integers

CONSTANTS
  Iterations,  \* turns of the inner loop (6)
  SleepMin,    \* 20 ms, after every turn
  SleepMax,    \* 200 ms, while the link layer is in standby
  MaxQueued,   \* bound: packets the host queues
  MaxDrops     \* bound: connections the link layer gives up by itself

\* The first conjunct leaves a turn for an empty packet behind a CONNECT_IND.
ASSUME PsfBridgeAssumption ==
  /\ Iterations \in Nat \ {0, 1}
  /\ SleepMin \in Nat \ {0} /\ SleepMax \in Nat
  /\ MaxQueued \in Nat /\ MaxDrops \in Nat

VARIABLES
  task,              \* where the receive task is
  rx,                \* the packet in rx_buf
  i_pkt, rc, slept,  \* locals of the loop
  last_msg_was_conn,
  phy_chan,          \* "adv" for the channels from 37 on, else "data"
  rx_sn, rx_nesn,    \* header bits of the next packet to hand over
  sent_non_empty_pkt,
  standby,           \* the link layer is in standby (ll_state == 0)
  next_chan,         \* the channel it will be on then
  unprompted,        \* it went to standby although no packet was handed over
  warned,            \* the longest sleep behind its last exchange did not do
  sn, nesn,          \* its tx_seqnum and next_exp_seqnum
  flying,            \* its last packet, not acknowledged yet
  txq, fresh,        \* packets queued; those queued since the last exchange
  queued, drops,     \* counters for the bounds
  lost, repeated, rejected  \* what the properties are about

task_vars == <<task, rx, i_pkt, rc, slept, last_msg_was_conn>>
header    == <<rx_sn, rx_nesn>>
ll_vars   == <<standby, next_chan, unprompted, warned>>
link_vars == <<sn, nesn, flying, txq, fresh>>
bounds    == <<queued, drops>>
seen      == <<lost, repeated, rejected>>
vars == <<task_vars, phy_chan, header, sent_non_empty_pkt, ll_vars, link_vars,
          bounds, seen>>

AdvRequests  == {"SCAN_REQ", "CONNECT_IND"}
DataRequests == {"DATA", "TERMINATE_IND"}
Requests     == AdvRequests \union DataRequests

Flip(bit) == 1 - bit

\* The application has begun to advertise; earlier requests are scan requests
\* that BLESUL.reset repeats until one is answered.
Init ==
  /\ task = "wait" /\ rx = "none" /\ i_pkt = 0 /\ rc = 0 /\ slept = 0
  /\ last_msg_was_conn = FALSE
  /\ phy_chan = "adv" /\ rx_sn = 0 /\ rx_nesn = 0
  /\ sent_non_empty_pkt = TRUE
  /\ standby = FALSE /\ next_chan = "adv" /\ unprompted = FALSE /\ warned = FALSE
  /\ sn = 0 /\ nesn = 0 /\ flying = "none" /\ txq = 0 /\ fresh = 0
  /\ queued = 0 /\ drops = 0
  /\ lost = FALSE /\ repeated = FALSE /\ rejected = FALSE

-----------------------------------------------------------------------------
(* The link layer and its host                                             *)

\* Back from standby it sets its channel (ble_phy_setchan), and an advertiser
\* sends one LL_ADV_IND, which is not empty.
LeaveStandby ==
  /\ standby /\ standby' = FALSE
  /\ phy_chan' = next_chan
  /\ unprompted' = FALSE
  /\ sent_non_empty_pkt' = (sent_non_empty_pkt \/ next_chan = "adv")
  /\ UNCHANGED <<next_chan, warned>>

\* 10 ms pass
Elapse == LeaveStandby \/ UNCHANGED <<ll_vars, phy_chan, sent_non_empty_pkt>>

OthersRun == task \in {"wait", "sleep"}

Idle ==
  /\ task = "wait"
  /\ LeaveStandby
  /\ UNCHANGED <<task_vars, header, link_vars, bounds, seen>>

HostQueues ==
  /\ OthersRun /\ next_chan = "data" /\ queued < MaxQueued
  /\ txq' = txq + 1 /\ fresh' = fresh + 1 /\ queued' = queued + 1
  /\ UNCHANGED <<task_vars, phy_chan, header, sent_non_empty_pkt, ll_vars, sn,
                 nesn, flying, drops, seen>>

\* a procedure or the supervision of the connection timed out
LinkDropped ==
  /\ OthersRun /\ next_chan = "data" /\ drops < MaxDrops
  /\ drops' = drops + 1
  /\ standby' = TRUE /\ next_chan' = "adv" /\ unprompted' = TRUE
  /\ warned' = FALSE
  /\ txq' = 0 /\ fresh' = 0 /\ flying' = "none"
  /\ UNCHANGED <<task_vars, phy_chan, header, sent_non_empty_pkt, sn, nesn,
                 queued, seen>>

-----------------------------------------------------------------------------
(* ble_phy_tx, called by the link layer with the bits of the packet        *)

\* Variant of TxHeader: the acknowledged bit is not inverted.
TxHeader_unacknowledged(tx_sn, tx_nesn) ==
  rx_sn' = tx_nesn /\ rx_nesn' = tx_sn

\* Variant of TxHeader: the number to send next is not updated.
TxHeader_keeps_sn(tx_sn, tx_nesn) ==
  UNCHANGED rx_sn /\ rx_nesn' = Flip(tx_sn)

\* on a data channel the next packet handed over acknowledges this one
TxHeader(tx_sn, tx_nesn) ==
  rx_sn' = tx_nesn /\ rx_nesn' = Flip(tx_sn)

\* Variant of TxFlag: empty packets count as well.
TxFlag_empty_too(pdu) == sent_non_empty_pkt' = TRUE

TxFlag(pdu) == sent_non_empty_pkt' = (sent_non_empty_pkt \/ pdu = "data")

-----------------------------------------------------------------------------
(* ble_ll_rx_start and ble_ll_rx_end                                       *)

RejectPdu(pkt) ==
  /\ standby
  /\ rc' = -1
  /\ rejected' = (rejected \/ (pkt \in Requests /\ ~unprompted /\ ~warned))
  /\ UNCHANGED <<phy_chan, header, sent_non_empty_pkt, ll_vars, link_vars, lost,
                 repeated>>

\* an advertiser answers a scan request, and ends advertising to connect
AdvPdu(pkt) ==
  /\ ~standby /\ phy_chan = "adv"
  /\ rc' = 0
  /\ standby' = TRUE /\ unprompted' = FALSE /\ warned' = FALSE
  /\ IF pkt = "CONNECT_IND"
       THEN /\ next_chan' = "data"
            /\ sn' = 0 /\ nesn' = 0 /\ flying' = "none" /\ txq' = 0 /\ fresh' = 0
            /\ UNCHANGED sent_non_empty_pkt
       ELSE /\ sent_non_empty_pkt' = TRUE
            /\ UNCHANGED <<next_chan, link_vars>>
  /\ UNCHANGED <<phy_chan, header, seen>>

\* a packet with the expected sequence number is new, and one that expects the
\* next number acknowledges the last answer; either way an answer goes out
DataPdu(pkt) ==
  /\ ~standby /\ phy_chan = "data"
  /\ rc' = 0
  /\ LET new   == rx_sn = nesn
         acked == flying = "none" \/ rx_nesn # sn
         tx_sn == IF flying # "none" /\ acked THEN Flip(sn) ELSE sn
         pdu   == IF ~acked THEN flying ELSE IF txq > 0 THEN "data" ELSE "empty"
     IN  /\ nesn' = (IF new THEN Flip(nesn) ELSE nesn)
         /\ sn' = tx_sn
         /\ TxHeader(sn', nesn')
         /\ TxFlag(pdu)
         /\ lost' = (lost \/ (pkt # "EMPTY" /\ ~new /\ ~warned))
         /\ repeated' = (repeated \/ (~acked /\ pdu = "data"))
         /\ IF new /\ pkt = "TERMINATE_IND"
              THEN /\ standby' = TRUE /\ next_chan' = "adv"
                   /\ flying' = "none" /\ txq' = 0 /\ fresh' = 0
              ELSE /\ standby' \in BOOLEAN /\ UNCHANGED next_chan
                   /\ flying' = pdu
                   /\ txq' = (IF acked /\ txq > 0 THEN txq - 1 ELSE txq)
                   /\ fresh' = 0
         /\ unprompted' = FALSE /\ warned' = FALSE
  /\ UNCHANGED <<phy_chan, rejected>>

-----------------------------------------------------------------------------
(* The receive task                                                        *)

Accepted(pkt) ==
  \/ phy_chan = "adv" /\ pkt \in AdvRequests
  \/ phy_chan = "data" /\ pkt \in DataRequests

\* Variant of LastMsgWasConn: it is never reset.
LastMsgWasConn_sticky(pkt) ==
  last_msg_was_conn' = (last_msg_was_conn \/ (pkt = "CONNECT_IND" /\ Accepted(pkt)))

LastMsgWasConn(pkt) ==
  last_msg_was_conn' = (pkt = "CONNECT_IND" /\ Accepted(pkt))

\* the packet popped is accepted or dropped; the task hangs on purpose if it
\* finds itself on an advertising channel after a CONNECT_IND
PacketPopped(pkt) ==
  /\ task = "wait"
  /\ \/ /\ last_msg_was_conn /\ phy_chan = "adv"
        /\ task' = "hung"
        /\ UNCHANGED <<rx, i_pkt, rc, slept, last_msg_was_conn>>
     \/ /\ ~(last_msg_was_conn /\ phy_chan = "adv")
        /\ task' = "loop" /\ i_pkt' = 0
        /\ rx' = IF Accepted(pkt) THEN pkt ELSE "none"
        /\ LastMsgWasConn(pkt)
        /\ UNCHANGED <<rc, slept>>
  /\ UNCHANGED <<phy_chan, header, sent_non_empty_pkt, ll_vars, link_vars, bounds,
                 seen>>

\* Variant of ToHandOver: empty packets on an advertising channel, too.
ToHandOver_any_channel == IF rx = "none" THEN "EMPTY" ELSE rx

ToHandOver == IF rx = "none" /\ phy_chan = "data" THEN "EMPTY" ELSE rx

\* one turn up to the sleep; rc is not initialised where nothing is handed over
HandOver ==
  /\ task = "loop"
  /\ task' = "sleep" /\ slept' = 0 /\ rx' = "none"
  /\ \/ /\ ToHandOver = "none" /\ rc' \in {-1, 0}
        /\ UNCHANGED <<phy_chan, header, sent_non_empty_pkt, ll_vars, link_vars, seen>>
     \/ /\ ToHandOver # "none"
        /\ RejectPdu(ToHandOver) \/ AdvPdu(ToHandOver) \/ DataPdu(ToHandOver)
  /\ UNCHANGED <<i_pkt, last_msg_was_conn, bounds>>

\* Variant of KeepSleeping: the sleep does not wait for the link layer.
KeepSleeping_fixed == slept < SleepMin

\* 20 ms, then on while the link layer is in standby
KeepSleeping ==
  slept < SleepMin \/ (rc >= 0 /\ slept < SleepMax /\ standby)

os_time_delay ==
  /\ task = "sleep" /\ KeepSleeping
  /\ slept' = slept + 1
  /\ Elapse
  /\ UNCHANGED <<task, rx, i_pkt, rc, last_msg_was_conn, header, link_vars, bounds,
                 seen>>

\* "WARNING: ll_state == 0, despite 200 ms sleep"
Warning == warned' = (warned \/ (standby /\ slept >= SleepMax))

\* Variant of TurnEnds: the flag is not looked at.
TurnEnds_without_flag ==
  /\ task = "sleep" /\ ~KeepSleeping
  /\ i_pkt' = i_pkt + 1
  /\ task' = IF i_pkt' < Iterations THEN "loop" ELSE "wait"
  /\ Warning
  /\ UNCHANGED <<rx, rc, slept, last_msg_was_conn, phy_chan, header,
                 sent_non_empty_pkt, standby, next_chan, unprompted, link_vars,
                 bounds, seen>>

\* Variant of TurnEnds: one turn too many.
TurnEnds_off_by_one ==
  /\ task = "sleep" /\ ~KeepSleeping
  /\ sent_non_empty_pkt' = FALSE
  /\ i_pkt' = (IF sent_non_empty_pkt THEN 0 ELSE i_pkt) + 1
  /\ task' = IF i_pkt' <= Iterations THEN "loop" ELSE "wait"
  /\ Warning
  /\ UNCHANGED <<rx, rc, slept, last_msg_was_conn, phy_chan, header, standby,
                 next_chan, unprompted, link_vars, bounds, seen>>

\* an answer starts the count again; the loop's increment follows
TurnEnds ==
  /\ task = "sleep" /\ ~KeepSleeping
  /\ sent_non_empty_pkt' = FALSE
  /\ i_pkt' = (IF sent_non_empty_pkt THEN 0 ELSE i_pkt) + 1
  /\ task' = IF i_pkt' < Iterations THEN "loop" ELSE "wait"
  /\ Warning
  /\ UNCHANGED <<rx, rc, slept, last_msg_was_conn, phy_chan, header, standby,
                 next_chan, unprompted, link_vars, bounds, seen>>

RecvTask == HandOver \/ os_time_delay \/ TurnEnds

Next ==
  \/ \E pkt \in Requests : PacketPopped(pkt)
  \/ RecvTask \/ Idle \/ HostQueues \/ LinkDropped

Spec == Init /\ [][Next]_vars

\* the receive task keeps running
FairSpec == Spec /\ WF_vars(RecvTask)

-----------------------------------------------------------------------------
\* The loop counter and the sleep stay within their limits.
TypeOK ==
  /\ task \in {"wait", "loop", "sleep", "hung"}
  /\ rx \in Requests \union {"none"}
  /\ i_pkt \in 0 .. Iterations /\ rc \in {-1, 0} /\ slept \in 0 .. SleepMin + SleepMax
  /\ phy_chan \in {"adv", "data"} /\ next_chan \in {"adv", "data"}
  /\ {rx_sn, rx_nesn, sn, nesn} \subseteq {0, 1}
  /\ flying \in {"none", "empty", "data"}
  /\ txq \in 0 .. MaxQueued /\ fresh \in 0 .. MaxQueued
  /\ queued \in 0 .. MaxQueued /\ drops \in 0 .. MaxDrops
  /\ {last_msg_was_conn, sent_non_empty_pkt, standby, unprompted, warned, lost,
      repeated, rejected} \subseteq BOOLEAN

\* A request of the mapper never looks like a retransmission to the link layer,
\* though the bits the driver keeps (ble_phy.c:37-38, 478-481) outlive the
\* connection they come from: the empty packets behind a CONNECT_IND absorb them,
\* unless the code has warned that the link layer was not ready for these.
NoRequestLost == ~lost

\* The link layer never sends an answer twice: what the driver hands over next
\* always acknowledges it (ble_phy.c:236-239, 480).
NoAnswerRepeated == ~repeated

\* A request that fits the channel is only rejected for standby if the link layer
\* left the connection by itself, or if its standby outlasted the longest sleep,
\* of which the code has warned before (ble_phy.c:266-278: "problematic when a
\* CONNECT_IND is rejected").
AcceptedIsDelivered == ~rejected

\* Only packets for a data channel are handed over on one, and only those for
\* advertising on an advertising channel (ble_phy.c:192-201, 224-231).
RightChannel ==
  task = "loop" =>
    \/ ToHandOver = "none"
    \/ phy_chan = "adv" /\ ToHandOver \in AdvRequests
    \/ phy_chan = "data" /\ ToHandOver \in DataRequests \union {"EMPTY"}

\* When the loop has ended, the answers the host had queued before the last
\* exchange have all been sent (ble_phy.c:255-264, 280-283), if the link layer
\* came back from that exchange within the longest sleep.
AnswersDrained ==
  task = "wait" /\ phy_chan = "data" /\ next_chan = "data" /\ ~warned => txq <= fresh

\* The deliberate hang (ble_phy.c:203-211) only follows a dropped connection, or
\* a standby of which the code has warned.
HangsOnlyAfterDropOrWarning == task = "hung" => drops > 0 \/ warned

\* Every packet popped is dealt with: the loop whose counter is set back by
\* every answer (ble_phy.c:218, 280-283) ends.
LoopEnds == task = "loop" ~> task = "wait"

\* The comment at ble_phy.c:203-205: after a valid CONNECT_IND "we should be on
\* a data channel", so the task never gets to the sleep of line 210 - unless the
\* link layer is still in standby, of which the code has warned.
OnDataChannelAfterConnect == task = "hung" => warned
=============================================================================
