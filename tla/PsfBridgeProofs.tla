-------------------------- MODULE PsfBridgeProofs --------------------------
(* Proofs about PsfBridge, for every loop count and sleep that satisfies   *)
(* PsfBridgeAssumption and standbys of any length: each safety property    *)
(* that TLC checks of it follows from one inductive invariant.             *)
EXTENDS PsfBridge, TLAPS

USE PsfBridgeAssumption

-----------------------------------------------------------------------------
(* The parts of the inductive invariant                                    *)

TaskType ==
  /\ task \in {"wait", "loop", "sleep", "hung"}
  /\ rx \in Requests \union {"none"}
  /\ i_pkt \in 0 .. Iterations
  /\ rc \in {-1, 0}
  /\ slept \in 0 .. SleepMin + SleepMax
  /\ task \in {"loop", "sleep"} => i_pkt < Iterations

LinkType ==
  /\ phy_chan \in {"adv", "data"} /\ next_chan \in {"adv", "data"}
  /\ rx_sn \in {0, 1} /\ rx_nesn \in {0, 1} /\ sn \in {0, 1} /\ nesn \in {0, 1}
  /\ flying \in {"none", "empty", "data"}

\* No answer waits that was not queued.
QueueType ==
  /\ txq \in 0 .. queued /\ fresh \in 0 .. queued
  /\ queued \in 0 .. MaxQueued /\ drops \in 0 .. MaxDrops

FlagType ==
  /\ last_msg_was_conn \in BOOLEAN /\ sent_non_empty_pkt \in BOOLEAN
  /\ standby \in BOOLEAN /\ unprompted \in BOOLEAN /\ warned \in BOOLEAN
  /\ lost \in BOOLEAN /\ repeated \in BOOLEAN /\ rejected \in BOOLEAN

\* What is handed over next acknowledges the answer that is not acknowledged.
Acknowledges == flying # "none" => rx_nesn # sn

\* A standby that a packet has caused is slept through, or the code has warned.
StandbySlept == standby /\ ~unprompted /\ ~warned => task = "sleep" /\ rc = 0

\* The packet to hand over is one that recv_packet has accepted on this channel.
HoldsAccepted ==
  /\ task = "loop" => rx = "none" \/ Accepted(rx)
  /\ task = "sleep" => rx = "none"

\* The channel is next_chan unless the link layer is on its way to it.
ChannelReached ==
  /\ ~standby => phy_chan = next_chan
  /\ unprompted => next_chan = "adv" /\ drops > 0

\* Only the turn that hands over a CONNECT_IND leaves sequence bits of another
\* connection behind, and the next turn hands over an empty packet, unless the
\* code has warned that the link layer is not ready for it.
Synced ==
  next_chan = "data" =>
    \/ rx_sn = nesn \/ warned
    \/ rx = "none" /\ (task = "loop" \/ (task = "sleep" /\ i_pkt = 0))

FirstTurn == rx # "none" => i_pkt = 0

\* The flag is about the packet that is held.
FlagOfHeld == rx # "none" => (last_msg_was_conn <=> rx = "CONNECT_IND")

\* An exchange that sends no answer leaves none that was queued before it.
Drained ==
  /\ next_chan = "data" /\ ~warned
  /\ task = "wait" \/ phy_chan = "adv" \/ (task = "sleep" /\ ~sent_non_empty_pkt)
  => txq <= fresh

\* A CONNECT_IND leads to a data channel unless a connection is dropped or the
\* code has warned.
ConnectLeads ==
  last_msg_was_conn /\ drops = 0 /\ ~warned =>
    \/ task = "loop" /\ rx = "CONNECT_IND" /\ phy_chan = "adv"
    \/ rx = "none" /\ next_chan = "data"

IInv ==
  /\ TaskType /\ LinkType /\ QueueType /\ FlagType
  /\ Acknowledges /\ ~repeated
  /\ StandbySlept /\ ~rejected
  /\ HoldsAccepted /\ ChannelReached
  /\ FirstTurn /\ FlagOfHeld /\ Synced /\ ~lost
  /\ Drained
  /\ ConnectLeads /\ HangsOnlyAfterDropOrWarning

-----------------------------------------------------------------------------
(* The cases of a step                                                     *)

\* A turn of the loop hands over nothing, or a packet the link layer rejects,
\* or takes as an advertiser, or takes on a connection.
HandsNothing ==
  /\ ToHandOver = "none"
  /\ task = "loop" /\ task' = "sleep" /\ slept' = 0 /\ rx' = "none"
  /\ rc' \in {-1, 0}
  /\ UNCHANGED <<phy_chan, header, sent_non_empty_pkt, ll_vars, link_vars, seen>>
  /\ UNCHANGED <<i_pkt, last_msg_was_conn, bounds>>

HandsOver ==
  /\ task = "loop" /\ task' = "sleep" /\ slept' = 0 /\ rx' = "none"
  /\ ToHandOver # "none"
  /\ UNCHANGED <<i_pkt, last_msg_was_conn, bounds>>

\* A step is one of these, or one of the remaining actions of PsfBridge.
LEMMA StepCases ==
  ASSUME [Next]_vars
  PROVE  \/ \E pkt \in Requests : PacketPopped(pkt)
         \/ HandsNothing
         \/ HandsOver /\ RejectPdu(ToHandOver)
         \/ HandsOver /\ AdvPdu(ToHandOver)
         \/ HandsOver /\ DataPdu(ToHandOver)
         \/ os_time_delay \/ TurnEnds
         \/ Idle \/ HostQueues \/ LinkDropped
         \/ UNCHANGED vars
BY DEF Next, RecvTask, HandOver, HandsNothing, HandsOver

-----------------------------------------------------------------------------
(* Each part of the invariant is preserved by every step                   *)

\* The loop counter is below its limit wherever the loop reads it.
LEMMA TaskTypeStep ==
  ASSUME TaskType, [Next]_vars
  PROVE  TaskType'
<1> USE DEF TaskType
<1>1. CASE \E pkt \in Requests : PacketPopped(pkt)
  BY <1>1 DEF PacketPopped
<1>2. CASE HandsNothing
  BY <1>2 DEF HandsNothing
<1>3. CASE HandsOver /\ RejectPdu(ToHandOver)
  BY <1>3 DEF HandsOver, RejectPdu
<1>4. CASE HandsOver /\ AdvPdu(ToHandOver)
  BY <1>4 DEF HandsOver, AdvPdu
<1>5. CASE HandsOver /\ DataPdu(ToHandOver)
  BY <1>5 DEF HandsOver, DataPdu
<1>6. CASE os_time_delay
  BY <1>6 DEF os_time_delay, KeepSleeping
<1>7. CASE TurnEnds
  BY <1>7 DEF TurnEnds, Warning
<1>8. CASE Idle
  BY <1>8 DEF Idle, LeaveStandby, task_vars
<1>9. CASE HostQueues
  BY <1>9 DEF HostQueues, task_vars
<1>10. CASE LinkDropped
  BY <1>10 DEF LinkDropped, task_vars
<1>11. CASE UNCHANGED vars
  BY <1>11 DEF vars, task_vars
<1> QED
  BY StepCases, <1>1, <1>2, <1>3, <1>4, <1>5, <1>6, <1>7, <1>8, <1>9, <1>10,
     <1>11

\* Sequence bits stay bits, and the standby only shrinks once begun.
LEMMA LinkTypeStep ==
  ASSUME LinkType, [Next]_vars
  PROVE  LinkType'
<1> USE DEF LinkType
<1>1. CASE \E pkt \in Requests : PacketPopped(pkt)
  BY <1>1 DEF PacketPopped, header, ll_vars, link_vars
<1>2. CASE HandsNothing
  BY <1>2 DEF HandsNothing, header, ll_vars, link_vars
<1>3. CASE HandsOver /\ RejectPdu(ToHandOver)
  BY <1>3 DEF HandsOver, RejectPdu, header, ll_vars, link_vars
<1>4. CASE HandsOver /\ AdvPdu(ToHandOver)
  BY <1>4 DEF HandsOver, AdvPdu, header, link_vars
<1>5. CASE HandsOver /\ DataPdu(ToHandOver)
  BY <1>5 DEF HandsOver, DataPdu, TxHeader, Flip
<1>6. CASE os_time_delay
  BY <1>6 DEF os_time_delay, header, link_vars, ll_vars, Elapse, LeaveStandby
<1>7. CASE TurnEnds
  BY <1>7 DEF TurnEnds, Warning, header, ll_vars, link_vars
<1>8. CASE Idle
  BY <1>8 DEF Idle, LeaveStandby, header, link_vars, ll_vars
<1>9. CASE HostQueues
  BY <1>9 DEF HostQueues, header, ll_vars
<1>10. CASE LinkDropped
  BY <1>10 DEF LinkDropped, header
<1>11. CASE UNCHANGED vars
  BY <1>11 DEF vars, header, ll_vars, link_vars
<1> QED
  BY StepCases, <1>1, <1>2, <1>3, <1>4, <1>5, <1>6, <1>7, <1>8, <1>9, <1>10,
     <1>11

\* Packets leave the queue of the host only by an exchange.
LEMMA QueueTypeStep ==
  ASSUME QueueType, [Next]_vars
  PROVE  QueueType'
<1> USE DEF QueueType
<1>1. CASE \E pkt \in Requests : PacketPopped(pkt)
  BY <1>1 DEF PacketPopped, link_vars, bounds
<1>2. CASE HandsNothing
  BY <1>2 DEF HandsNothing, link_vars, bounds
<1>3. CASE HandsOver /\ RejectPdu(ToHandOver)
  BY <1>3 DEF HandsOver, RejectPdu, link_vars, bounds
<1>4. CASE HandsOver /\ AdvPdu(ToHandOver)
  BY <1>4 DEF HandsOver, AdvPdu, link_vars, bounds
<1>5. CASE HandsOver /\ DataPdu(ToHandOver)
  BY <1>5 DEF HandsOver, DataPdu, bounds
<1>6. CASE os_time_delay
  BY <1>6 DEF os_time_delay, link_vars, bounds
<1>7. CASE TurnEnds
  BY <1>7 DEF TurnEnds, Warning, link_vars, bounds
<1>8. CASE Idle
  BY <1>8 DEF Idle, LeaveStandby, link_vars, bounds
<1>9. CASE HostQueues
  BY <1>9 DEF HostQueues
<1>10. CASE LinkDropped
  BY <1>10 DEF LinkDropped
<1>11. CASE UNCHANGED vars
  BY <1>11 DEF vars, link_vars, bounds
<1> QED
  BY StepCases, <1>1, <1>2, <1>3, <1>4, <1>5, <1>6, <1>7, <1>8, <1>9, <1>10,
     <1>11

\* The flags stay Boolean.
LEMMA FlagTypeStep ==
  ASSUME FlagType, [Next]_vars
  PROVE  FlagType'
<1> USE DEF FlagType
<1>1. CASE \E pkt \in Requests : PacketPopped(pkt)
  BY <1>1 DEF PacketPopped, ll_vars, seen, LastMsgWasConn
<1>2. CASE HandsNothing
  BY <1>2 DEF HandsNothing, ll_vars, seen
<1>3. CASE HandsOver /\ RejectPdu(ToHandOver)
  BY <1>3 DEF HandsOver, RejectPdu, ll_vars
<1>4. CASE HandsOver /\ AdvPdu(ToHandOver)
  BY <1>4 DEF HandsOver, AdvPdu, seen
<1>5. CASE HandsOver /\ DataPdu(ToHandOver)
  BY <1>5 DEF HandsOver, DataPdu, TxFlag
<1>6. CASE os_time_delay
  BY <1>6 DEF os_time_delay, seen, ll_vars, Elapse, LeaveStandby
<1>7. CASE TurnEnds
  BY <1>7 DEF TurnEnds, Warning, ll_vars, seen
<1>8. CASE Idle
  BY <1>8 DEF Idle, LeaveStandby, task_vars, seen, ll_vars
<1>9. CASE HostQueues
  BY <1>9 DEF HostQueues, task_vars, ll_vars, seen
<1>10. CASE LinkDropped
  BY <1>10 DEF LinkDropped, task_vars, seen
<1>11. CASE UNCHANGED vars
  BY <1>11 DEF vars, task_vars, ll_vars, seen
<1> QED
  BY StepCases, <1>1, <1>2, <1>3, <1>4, <1>5, <1>6, <1>7, <1>8, <1>9, <1>10,
     <1>11

\* ble_phy_tx inverts the number it acknowledges, so the two always differ.
LEMMA AcknowledgesStep ==
  ASSUME LinkType, Acknowledges, ~repeated, [Next]_vars
  PROVE  (Acknowledges /\ ~repeated)'
<1> USE DEF LinkType, Acknowledges
<1>1. CASE \E pkt \in Requests : PacketPopped(pkt)
  BY <1>1 DEF PacketPopped, header, link_vars, seen
<1>2. CASE HandsNothing
  BY <1>2 DEF HandsNothing, header, link_vars, seen
<1>3. CASE HandsOver /\ RejectPdu(ToHandOver)
  BY <1>3 DEF HandsOver, RejectPdu, header, link_vars
<1>4. CASE HandsOver /\ AdvPdu(ToHandOver)
  BY <1>4 DEF HandsOver, AdvPdu, header, link_vars, seen
<1>5. CASE HandsOver /\ DataPdu(ToHandOver)
  <2>1. flying = "none" \/ rx_nesn # sn
    BY <1>5
  <2>2. sn' \in {0, 1} /\ rx_nesn' = 1 - sn'
    BY <1>5, <2>1 DEF DataPdu, TxHeader, Flip
  <2>3. Acknowledges'
    <3>1. CASE sn' = 0
      BY <2>2, <3>1
    <3>2. CASE sn' = 1
      BY <2>2, <3>2
    <3> QED
      BY <2>2, <3>1, <3>2
  <2>4. repeated' = (repeated \/ FALSE)
    BY <1>5, <2>1 DEF DataPdu
  <2> QED
    BY <2>3, <2>4
<1>6. CASE os_time_delay
  BY <1>6 DEF os_time_delay, header, link_vars, seen
<1>7. CASE TurnEnds
  BY <1>7 DEF TurnEnds, Warning, header, link_vars, seen
<1>8. CASE Idle
  BY <1>8 DEF Idle, LeaveStandby, header, link_vars, seen
<1>9. CASE HostQueues
  BY <1>9 DEF HostQueues, header, seen
<1>10. CASE LinkDropped
  BY <1>10 DEF LinkDropped, header, seen
<1>11. CASE UNCHANGED vars
  BY <1>11 DEF vars, header, link_vars, seen
<1> QED
  BY StepCases, <1>1, <1>2, <1>3, <1>4, <1>5, <1>6, <1>7, <1>8, <1>9, <1>10,
     <1>11

\* rx_buf is cleared before the task sleeps, and the channel is set in a sleep.
LEMMA HoldsAcceptedStep ==
  ASSUME HoldsAccepted, [Next]_vars
  PROVE  HoldsAccepted'
<1> USE DEF HoldsAccepted, Accepted
<1>1. CASE \E pkt \in Requests : PacketPopped(pkt)
  BY <1>1 DEF PacketPopped
<1>2. CASE HandsNothing
  BY <1>2 DEF HandsNothing
<1>3. CASE HandsOver /\ RejectPdu(ToHandOver)
  BY <1>3 DEF HandsOver, RejectPdu
<1>4. CASE HandsOver /\ AdvPdu(ToHandOver)
  BY <1>4 DEF HandsOver, AdvPdu
<1>5. CASE HandsOver /\ DataPdu(ToHandOver)
  BY <1>5 DEF HandsOver, DataPdu
<1>6. CASE os_time_delay
  BY <1>6 DEF os_time_delay, Elapse, LeaveStandby
<1>7. CASE TurnEnds
  BY <1>7 DEF TurnEnds, Warning
<1>8. CASE Idle
  BY <1>8 DEF Idle, LeaveStandby, task_vars
<1>9. CASE HostQueues
  BY <1>9 DEF HostQueues, task_vars
<1>10. CASE LinkDropped
  BY <1>10 DEF LinkDropped, task_vars
<1>11. CASE UNCHANGED vars
  BY <1>11 DEF vars, task_vars
<1> QED
  BY StepCases, <1>1, <1>2, <1>3, <1>4, <1>5, <1>6, <1>7, <1>8, <1>9, <1>10,
     <1>11

\* The sleep behind a packet that was taken ends with the standby, or at its
\* limit, and then the code warns.
LEMMA StandbySleptStep ==
  ASSUME TaskType, LinkType, FlagType, StandbySlept, ~rejected, [Next]_vars
  PROVE  (StandbySlept /\ ~rejected)'
<1> USE DEF TaskType, LinkType, FlagType, StandbySlept
<1>1. CASE \E pkt \in Requests : PacketPopped(pkt)
  BY <1>1 DEF PacketPopped, ll_vars, seen
<1>2. CASE HandsNothing
  BY <1>2 DEF HandsNothing, ll_vars, seen
<1>3. CASE HandsOver /\ RejectPdu(ToHandOver)
  BY <1>3 DEF HandsOver, RejectPdu, ll_vars
<1>4. CASE HandsOver /\ AdvPdu(ToHandOver)
  BY <1>4 DEF HandsOver, AdvPdu, seen
<1>5. CASE HandsOver /\ DataPdu(ToHandOver)
  BY <1>5 DEF HandsOver, DataPdu, seen
<1>6. CASE os_time_delay
  BY <1>6 DEF os_time_delay, seen, ll_vars, Elapse, LeaveStandby, KeepSleeping
<1>7. CASE TurnEnds
  BY <1>7 DEF TurnEnds, Warning, ll_vars, seen, KeepSleeping
<1>8. CASE Idle
  BY <1>8 DEF Idle, LeaveStandby, task_vars, seen, ll_vars
<1>9. CASE HostQueues
  BY <1>9 DEF HostQueues, task_vars, ll_vars, seen
<1>10. CASE LinkDropped
  BY <1>10 DEF LinkDropped, task_vars, seen
<1>11. CASE UNCHANGED vars
  BY <1>11 DEF vars, task_vars, ll_vars, seen
<1> QED
  BY StepCases, <1>1, <1>2, <1>3, <1>4, <1>5, <1>6, <1>7, <1>8, <1>9, <1>10,
     <1>11

\* A new channel is reached when standby is over, never before.
LEMMA ChannelReachedStep ==
  ASSUME LinkType, QueueType, FlagType, ChannelReached, [Next]_vars
  PROVE  ChannelReached'
<1> USE DEF LinkType, QueueType, FlagType, ChannelReached
<1>1. CASE \E pkt \in Requests : PacketPopped(pkt)
  BY <1>1 DEF PacketPopped, ll_vars, bounds
<1>2. CASE HandsNothing
  BY <1>2 DEF HandsNothing, ll_vars, bounds
<1>3. CASE HandsOver /\ RejectPdu(ToHandOver)
  BY <1>3 DEF HandsOver, RejectPdu, ll_vars, bounds
<1>4. CASE HandsOver /\ AdvPdu(ToHandOver)
  BY <1>4 DEF HandsOver, AdvPdu, bounds
<1>5. CASE HandsOver /\ DataPdu(ToHandOver)
  BY <1>5 DEF HandsOver, DataPdu, bounds
<1>6. CASE os_time_delay
  BY <1>6 DEF os_time_delay, bounds, ll_vars, Elapse, LeaveStandby
<1>7. CASE TurnEnds
  BY <1>7 DEF TurnEnds, Warning, ll_vars, bounds
<1>8. CASE Idle
  BY <1>8 DEF Idle, LeaveStandby, bounds, ll_vars
<1>9. CASE HostQueues
  BY <1>9 DEF HostQueues, ll_vars
<1>10. CASE LinkDropped
  BY <1>10 DEF LinkDropped
<1>11. CASE UNCHANGED vars
  BY <1>11 DEF vars, ll_vars, bounds
<1> QED
  BY StepCases, <1>1, <1>2, <1>3, <1>4, <1>5, <1>6, <1>7, <1>8, <1>9, <1>10,
     <1>11

\* A request is handed over in the first turn of its loop.
LEMMA FirstTurnStep ==
  ASSUME FirstTurn, HoldsAccepted, [Next]_vars
  PROVE  FirstTurn'
<1> USE DEF FirstTurn, HoldsAccepted
<1>1. CASE \E pkt \in Requests : PacketPopped(pkt)
  BY <1>1 DEF PacketPopped
<1>2. CASE HandsNothing
  BY <1>2 DEF HandsNothing
<1>3. CASE HandsOver /\ RejectPdu(ToHandOver)
  BY <1>3 DEF HandsOver, RejectPdu
<1>4. CASE HandsOver /\ AdvPdu(ToHandOver)
  BY <1>4 DEF HandsOver, AdvPdu
<1>5. CASE HandsOver /\ DataPdu(ToHandOver)
  BY <1>5 DEF HandsOver, DataPdu
<1>6. CASE os_time_delay
  BY <1>6 DEF os_time_delay
<1>7. CASE TurnEnds
  BY <1>7 DEF TurnEnds, Warning
<1>8. CASE Idle
  BY <1>8 DEF Idle, LeaveStandby, task_vars
<1>9. CASE HostQueues
  BY <1>9 DEF HostQueues, task_vars
<1>10. CASE LinkDropped
  BY <1>10 DEF LinkDropped, task_vars
<1>11. CASE UNCHANGED vars
  BY <1>11 DEF vars, task_vars
<1> QED
  BY StepCases, <1>1, <1>2, <1>3, <1>4, <1>5, <1>6, <1>7, <1>8, <1>9, <1>10,
     <1>11

\* recv_packet sets the flag for the packet it accepts.
LEMMA FlagOfHeldStep ==
  ASSUME FlagOfHeld, [Next]_vars
  PROVE  FlagOfHeld'
<1> USE DEF FlagOfHeld
<1>1. CASE \E pkt \in Requests : PacketPopped(pkt)
  <2>1. PICK pkt \in Requests : PacketPopped(pkt)
    BY <1>1
  <2>2. CASE task' = "hung"
    BY <2>1, <2>2 DEF PacketPopped
  <2>3. CASE task' = "loop" /\ Accepted(pkt)
    <3>1. rx' = pkt /\ last_msg_was_conn' = (pkt = "CONNECT_IND")
      BY <2>1, <2>3 DEF PacketPopped, LastMsgWasConn
    <3> QED
      BY <3>1
  <2>4. CASE task' = "loop" /\ ~Accepted(pkt)
    BY <2>1, <2>4 DEF PacketPopped
  <2> QED
    BY <2>1, <2>2, <2>3, <2>4 DEF PacketPopped
<1>2. CASE HandsNothing
  BY <1>2 DEF HandsNothing
<1>3. CASE HandsOver /\ RejectPdu(ToHandOver)
  BY <1>3 DEF HandsOver, RejectPdu
<1>4. CASE HandsOver /\ AdvPdu(ToHandOver)
  BY <1>4 DEF HandsOver, AdvPdu
<1>5. CASE HandsOver /\ DataPdu(ToHandOver)
  BY <1>5 DEF HandsOver, DataPdu
<1>6. CASE os_time_delay
  BY <1>6 DEF os_time_delay
<1>7. CASE TurnEnds
  BY <1>7 DEF TurnEnds, Warning
<1>8. CASE Idle
  BY <1>8 DEF Idle, LeaveStandby, task_vars
<1>9. CASE HostQueues
  BY <1>9 DEF HostQueues, task_vars
<1>10. CASE LinkDropped
  BY <1>10 DEF LinkDropped, task_vars
<1>11. CASE UNCHANGED vars
  BY <1>11 DEF vars, task_vars
<1> QED
  BY StepCases, <1>1, <1>2, <1>3, <1>4, <1>5, <1>6, <1>7, <1>8, <1>9, <1>10,
     <1>11

\* When the loop hands over a packet on a connection, the connection is ready,
\* unless the code has warned that it is not.
LEMMA ReadyOnConnection ==
  ASSUME FlagType, StandbySlept, ChannelReached,
         task = "loop", next_chan = "data", ~warned
  PROVE  ~standby /\ phy_chan = "data"
BY DEF FlagType, StandbySlept, ChannelReached

\* The first packet behind a CONNECT_IND is empty; after it the bits agree.
LEMMA SyncedStep ==
  ASSUME TaskType, LinkType, FlagType, StandbySlept, ChannelReached,
         FirstTurn, Synced, ~lost, [Next]_vars
  PROVE  (Synced /\ ~lost)'
<1> USE DEF TaskType, Synced, FirstTurn
<1>1. CASE \E pkt \in Requests : PacketPopped(pkt)
  BY <1>1 DEF PacketPopped, header, ll_vars, link_vars, seen
<1>2. CASE HandsNothing
  BY <1>2, ReadyOnConnection DEF HandsNothing, header, ll_vars, link_vars,
     seen, ToHandOver
<1>3. CASE HandsOver /\ RejectPdu(ToHandOver)
  BY <1>3, ReadyOnConnection DEF HandsOver, RejectPdu, header, ll_vars,
     link_vars
<1>4. CASE HandsOver /\ AdvPdu(ToHandOver)
  BY <1>4 DEF HandsOver, AdvPdu, header, link_vars, seen, ToHandOver,
     ChannelReached
<1>5. CASE HandsOver /\ DataPdu(ToHandOver)
  <2>1. rx_sn' = nesn'
    BY <1>5 DEF DataPdu, TxHeader
  <2>2. next_chan = "data"
    BY <1>5 DEF DataPdu, ChannelReached
  <2>3. rx_sn = nesn \/ warned \/ ToHandOver = "EMPTY"
    BY <1>5, <2>2 DEF HandsOver, ToHandOver, DataPdu
  <2>4. lost' = (lost \/ FALSE)
    BY <1>5, <2>3 DEF DataPdu
  <2> QED
    BY <2>1, <2>4
<1>6. CASE os_time_delay
  BY <1>6 DEF os_time_delay, header, link_vars, seen, ll_vars, Elapse, LeaveStandby
<1>7. CASE TurnEnds
  <2>1. /\ UNCHANGED <<rx, rx_sn, next_chan, nesn, lost>>
        /\ warned => warned'
        /\ task = "sleep"
    BY <1>7 DEF TurnEnds, Warning, header, link_vars, seen, FlagType
  <2>2. i_pkt = 0 => task' = "loop"
    BY <1>7 DEF TurnEnds, FlagType
  <2> QED
    BY <2>1, <2>2
<1>8. CASE Idle
  BY <1>8 DEF Idle, LeaveStandby, task_vars, header, link_vars, seen, ll_vars
<1>9. CASE HostQueues
  BY <1>9 DEF HostQueues, task_vars, header, ll_vars, seen
<1>10. CASE LinkDropped
  BY <1>10 DEF LinkDropped, task_vars, header, seen
<1>11. CASE UNCHANGED vars
  BY <1>11 DEF vars, task_vars, header, ll_vars, link_vars, seen
<1> QED
  BY StepCases, <1>1, <1>2, <1>3, <1>4, <1>5, <1>6, <1>7, <1>8, <1>9, <1>10,
     <1>11

\* As long as answers come, the loop starts again.
LEMMA DrainedStep ==
  ASSUME QueueType, LinkType, FlagType, StandbySlept, ChannelReached,
         Acknowledges, Drained, [Next]_vars
  PROVE  Drained'
<1> USE DEF QueueType, FlagType, Drained
<1>1. CASE \E pkt \in Requests : PacketPopped(pkt)
  BY <1>1 DEF PacketPopped, ll_vars, link_vars, bounds
<1>2. CASE HandsNothing
  BY <1>2, ReadyOnConnection DEF HandsNothing, ll_vars, link_vars, bounds,
     ToHandOver
<1>3. CASE HandsOver /\ RejectPdu(ToHandOver)
  BY <1>3, ReadyOnConnection DEF HandsOver, RejectPdu, ll_vars, link_vars,
     bounds
<1>4. CASE HandsOver /\ AdvPdu(ToHandOver)
  BY <1>4, ReadyOnConnection DEF HandsOver, AdvPdu, link_vars, bounds,
     ChannelReached
<1>5. CASE HandsOver /\ DataPdu(ToHandOver)
  <2>1. flying = "none" \/ rx_nesn # sn
    BY DEF Acknowledges
  <2>2. phy_chan' = "data" /\ task' = "sleep"
    BY <1>5 DEF HandsOver, DataPdu
  <2>3. CASE txq > 0
    <3>1. sent_non_empty_pkt'
      BY <1>5, <2>1, <2>3 DEF DataPdu, TxFlag
    <3> QED
      BY <2>2, <3>1
  <2>4. CASE txq = 0
    <3>1. txq' = 0 /\ fresh' = 0
      BY <1>5, <2>4 DEF DataPdu
    <3> QED
      BY <3>1
  <2> QED
    BY <2>3, <2>4
<1>6. CASE os_time_delay
  BY <1>6 DEF os_time_delay, link_vars, bounds, ll_vars, Elapse, LeaveStandby, LinkType
<1>7. CASE TurnEnds
  BY <1>7 DEF TurnEnds, Warning, ll_vars, link_vars, bounds
<1>8. CASE Idle
  BY <1>8 DEF Idle, LeaveStandby, task_vars, link_vars, bounds, ll_vars
<1>9. CASE HostQueues
  BY <1>9 DEF HostQueues, task_vars, ll_vars
<1>10. CASE LinkDropped
  BY <1>10 DEF LinkDropped, task_vars
<1>11. CASE UNCHANGED vars
  BY <1>11 DEF vars, task_vars, ll_vars, link_vars, bounds
<1> QED
  BY StepCases, <1>1, <1>2, <1>3, <1>4, <1>5, <1>6, <1>7, <1>8, <1>9, <1>10,
     <1>11

\* From the CONNECT_IND on only a dropped connection leads back to advertising.
LEMMA ConnectLeadsStep ==
  ASSUME TaskType, LinkType, QueueType, FlagType, StandbySlept,
         HoldsAccepted, ChannelReached, FlagOfHeld, ConnectLeads,
         HangsOnlyAfterDropOrWarning, [Next]_vars
  PROVE  (ConnectLeads /\ HangsOnlyAfterDropOrWarning)'
<1> USE DEF QueueType, ConnectLeads, HangsOnlyAfterDropOrWarning
<1>1. CASE \E pkt \in Requests : PacketPopped(pkt)
  <2>1. PICK pkt \in Requests : PacketPopped(pkt)
    BY <1>1
  <2>2. last_msg_was_conn /\ phy_chan = "adv" => drops > 0 \/ warned
    BY <2>1 DEF PacketPopped, ChannelReached, StandbySlept, FlagType
  <2>3. HangsOnlyAfterDropOrWarning'
    BY <2>1, <2>2 DEF PacketPopped, bounds, ll_vars
  <2>4. ConnectLeads'
    BY <2>1, <2>2 DEF PacketPopped, LastMsgWasConn, Accepted, bounds, ll_vars,
                      AdvRequests, DataRequests
  <2> QED
    BY <2>3, <2>4
<1>2. CASE HandsNothing
  BY <1>2, ReadyOnConnection DEF HandsNothing, ll_vars, bounds, ToHandOver,
     Requests, AdvRequests
<1>3. CASE HandsOver /\ RejectPdu(ToHandOver)
  BY <1>3, ReadyOnConnection DEF HandsOver, RejectPdu, ll_vars, bounds,
     StandbySlept, ChannelReached
<1>4. CASE HandsOver /\ AdvPdu(ToHandOver)
  <2>1. rx # "none" /\ ToHandOver = rx
    BY <1>4 DEF HandsOver, AdvPdu, ToHandOver
  <2>2. last_msg_was_conn' => next_chan' = "data"
    BY <1>4, <2>1 DEF HandsOver, AdvPdu, FlagOfHeld
  <2> QED
    BY <1>4, <2>2 DEF HandsOver, AdvPdu, bounds
<1>5. CASE HandsOver /\ DataPdu(ToHandOver)
  <2>1. last_msg_was_conn => ToHandOver # "TERMINATE_IND"
    BY <1>5 DEF HandsOver, FlagOfHeld, ToHandOver
  <2>2. last_msg_was_conn => next_chan' = next_chan
    BY <1>5, <2>1 DEF DataPdu
  <2>3. next_chan = "data"
    BY <1>5 DEF DataPdu, ChannelReached
  <2> QED
    BY <1>5, <2>2, <2>3 DEF HandsOver, DataPdu, bounds
<1>6. CASE os_time_delay
  BY <1>6 DEF os_time_delay, bounds, ll_vars, Elapse, LeaveStandby
<1>7. CASE TurnEnds
  BY <1>7 DEF TurnEnds, Warning, ll_vars, bounds
<1>8. CASE Idle
  BY <1>8 DEF Idle, LeaveStandby, task_vars, bounds, ll_vars
<1>9. CASE HostQueues
  BY <1>9 DEF HostQueues, task_vars, ll_vars
<1>10. CASE LinkDropped
  BY <1>10 DEF LinkDropped, task_vars
<1>11. CASE UNCHANGED vars
  BY <1>11 DEF vars, task_vars, ll_vars, bounds
<1> QED
  BY StepCases, <1>1, <1>2, <1>3, <1>4, <1>5, <1>6, <1>7, <1>8, <1>9, <1>10,
     <1>11

-----------------------------------------------------------------------------
(* The theorems                                                            *)

\* Where the application has begun to advertise, the invariant holds.
LEMMA InitInvariant == ASSUME Init PROVE IInv
<1>1. TaskType
  BY DEF Init, TaskType
<1>2. LinkType
  BY DEF Init, LinkType
<1>3. QueueType
  BY DEF Init, QueueType
<1>4. FlagType
  BY DEF Init, FlagType
<1>5. Acknowledges /\ ~repeated
  BY DEF Init, Acknowledges
<1>6. StandbySlept /\ ~rejected
  BY DEF Init, StandbySlept
<1>7. HoldsAccepted
  BY DEF Init, HoldsAccepted
<1>8. ChannelReached /\ FirstTurn /\ FlagOfHeld /\ Synced /\ ~lost
  BY DEF Init, ChannelReached, FirstTurn, FlagOfHeld, Synced
<1>9. Drained /\ ConnectLeads /\ HangsOnlyAfterDropOrWarning
  BY DEF Init, Drained, ConnectLeads, HangsOnlyAfterDropOrWarning
<1> QED
  BY <1>1, <1>2, <1>3, <1>4, <1>5, <1>6, <1>7, <1>8, <1>9 DEF IInv

\* Every step preserves the invariant.
LEMMA StepInvariant == IInv /\ [Next]_vars => IInv'
BY TaskTypeStep, LinkTypeStep, QueueTypeStep, FlagTypeStep, AcknowledgesStep,
   HoldsAcceptedStep, StandbySleptStep, ChannelReachedStep, FirstTurnStep,
   FlagOfHeldStep, SyncedStep, DrainedStep, ConnectLeadsStep DEF IInv

\* The invariant holds in every reachable state.
LEMMA Invariant == Spec => []IInv
BY InitInvariant, StepInvariant, PTL DEF Spec

\* The loop counter and the sleep of recv_packet stay within their limits
\* (ble_phy.c:218, 266-284), for every number of turns and every sleep.
THEOREM TypeCorrect == Spec => []TypeOK
<1>1. IInv => TypeOK
  BY DEF IInv, TaskType, LinkType, QueueType, FlagType, TypeOK
<1> QED
  BY <1>1, Invariant, PTL

\* What the driver hands over always acknowledges the last answer of the link
\* layer (ble_phy.c:236-239, 480), so no answer is sent twice.
THEOREM NoAnswerRepeatedCorrect == Spec => []NoAnswerRepeated
<1>1. IInv => NoAnswerRepeated
  BY DEF IInv, NoAnswerRepeated
<1> QED
  BY <1>1, Invariant, PTL

\* However long a standby lasts, no request that fits the channel is rejected
\* for one that a packet has caused (ble_phy.c:266-278), unless the longest sleep
\* did not do and the code has warned.
THEOREM AcceptedIsDeliveredCorrect == Spec => []AcceptedIsDelivered
<1>1. IInv => AcceptedIsDelivered
  BY DEF IInv, AcceptedIsDelivered
<1> QED
  BY <1>1, Invariant, PTL

\* A packet is only handed over on the channel it is for (ble_phy.c:192-201,
\* 224-231), although the channel changes while the task sleeps.
THEOREM RightChannelCorrect == Spec => []RightChannel
<1>1. IInv => RightChannel
  BY DEF IInv, LinkType, HoldsAccepted, Accepted, ToHandOver, RightChannel
<1> QED
  BY <1>1, Invariant, PTL

\* No request looks like a retransmission, though the sequence bits the driver
\* keeps outlive a connection (ble_phy.c:37-38, 478-481), if the loop has more
\* than one turn and the code has not warned.
THEOREM NoRequestLostCorrect == Spec => []NoRequestLost
<1>1. IInv => NoRequestLost
  BY DEF IInv, NoRequestLost
<1> QED
  BY <1>1, Invariant, PTL

\* When the loop ends, what the host had queued before the last exchange is
\* sent (ble_phy.c:255-264, 280-283), whatever the number of turns, if the code
\* has not warned since.
THEOREM AnswersDrainedCorrect == Spec => []AnswersDrained
<1>1. IInv => AnswersDrained
  BY DEF IInv, Drained, AnswersDrained
<1> QED
  BY <1>1, Invariant, PTL

\* The deliberate hang (ble_phy.c:203-211) needs a dropped connection, or a
\* standby that outlasted the longest sleep, of which the code has warned.
THEOREM HangCorrect == Spec => []HangsOnlyAfterDropOrWarning
<1>1. IInv => HangsOnlyAfterDropOrWarning
  BY DEF IInv
<1> QED
  BY <1>1, Invariant, PTL
=============================================================================
