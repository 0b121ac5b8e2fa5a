------------------------------ MODULE SerialRx ------------------------------
(***************************************************************************)
(* Requests on their way from the mapper to the NimBLE bridge: the driver  *)
(* frames them (py/NRF52_Driver.py raw_send), the UART hands them over     *)
(* byte by byte to ble_phy_uart_rx_char, which fills serial_rx_buf and     *)
(* wakes the receive task, and the task pops whole packets (ble_phy.c).    *)
(* Tasks of the native Mynewt build are cooperative (MCU_NATIVE_USE_SIGNALS *)
(* is 0), so a callback is atomic and tasks only switch at os_time_delay   *)
(* and at the event queue.                                                 *)
(***************************************************************************)
EXTENDS Naturals, FiniteSets, SequencesExt, Fifo

CONSTANTS
  Packets,          \* BTLE packets without crc, as sequences of bytes
  RxCapacity,       \* FIFO_CREATE(serial_rx_buf, 1024)
  ResetRestartsSut, \* the reset command starts a new bridge process
  MaxOutstanding,   \* bound: requests not yet popped; the mapper paces itself
                    \* by waiting recv_s_min after each request
  MaxSent,          \* bound: requests since the bridge started
  MaxResets         \* bound: resets of the device

NRF52_CMD_DATA == 167          \* 0xA7
NRF52_CMD_CONFIG_LOG_TX == 204 \* 0xCC

uint8 == 0 .. 255

ASSUME SerialRxAssumption ==
  /\ Packets \subseteq Seq(uint8) /\ \A p \in Packets : Len(p) > 0
  /\ RxCapacity \in Nat \ {0}
  /\ ResetRestartsSut \in BOOLEAN
  /\ MaxOutstanding \in Nat /\ MaxSent \in Nat /\ MaxResets \in Nat

VARIABLES
  wire,              \* bytes written to the serial port, not yet received
  resets,            \* resets made by the driver
  pkt_count,         \* bytes ble_phy_uart_rx_char has seen, counted up to 3
  uart_is_connected, \* the two bytes of the config command have arrived
  serial_rx_buf,     \* the fifo of received bytes
  ev_queued,         \* ev_recv_packet is in the event queue of the task
  task,              \* the receive task: "wait", "run" or "delay"
  aborted,           \* an assert of the bridge failed
  sent, received     \* packets sent to this bridge process, packets popped

bridge_vars == <<pkt_count, uart_is_connected, serial_rx_buf, ev_queued, task, aborted>>
vars == <<wire, resets, bridge_vars, sent, received>>

-----------------------------------------------------------------------------
(* Framing                                                                 *)

SumOf(p) == FoldLeft(LAMBDA acc, b : acc + b, 0, p)

\* raw_send: command, little-endian length, packet, sum modulo 256
Frame(p) ==
  <<NRF52_CMD_DATA, Len(p) % 256, Len(p) \div 256>> \o p \o <<SumOf(p) % 256>>

\* set_log_tx(0)
ConfigLogTx == <<NRF52_CMD_CONFIG_LOG_TX, 0>>

\* fifo_get_pkt_len: length of the packet at the front, 0 if it is incomplete
fifo_get_pkt_len(f) ==
  LET len == fifo_peek(f, 1) + 256 * fifo_peek(f, 2)
  IN  IF fifo_get_size(f) > 3 /\ fifo_get_size(f) >= 1 + 2 + len + 1 THEN len ELSE 0

\* its assert
StartsWithCommand(f) == fifo_get_size(f) > 3 => fifo_peek(f, 0) = NRF52_CMD_DATA

\* Variant of PoppedPacket: one byte of the length is not skipped.
PoppedPacket_off_by_one(f) == fifo_front(fifo_drop(f, 2), fifo_get_pkt_len(f))

\* recv_packet skips command and length, reads the packet, skips the checksum
PoppedPacket(f) == fifo_front(fifo_drop(f, 3), fifo_get_pkt_len(f))

\* Variant of AfterPop: the checksum is left in the fifo.
AfterPop_keeps_checksum(f) == fifo_drop(f, 3 + fifo_get_pkt_len(f))

AfterPop(f) == fifo_drop(f, 3 + fifo_get_pkt_len(f) + 1)

-----------------------------------------------------------------------------
(* The driver                                                              *)

\* NRF52.__init__ opens the port and configures the bridge
Init ==
  /\ wire = ConfigLogTx /\ resets = 0
  /\ pkt_count = 0 /\ uart_is_connected = FALSE
  /\ serial_rx_buf = FIFO_CREATE(RxCapacity, 0)
  /\ ev_queued = FALSE /\ task = "wait" /\ aborted = FALSE
  /\ sent = <<>> /\ received = <<>>

raw_send(p) ==
  /\ Len(sent) < MaxSent
  /\ Len(sent) - Len(received) < MaxOutstanding
  /\ wire' = wire \o Frame(p)
  /\ sent' = Append(sent, p)
  /\ UNCHANGED <<resets, bridge_vars, received>>

\* The reset command restarts the SUT - or, as scripts/reset_ci.sh, only
\* succeeds - and the reopened port gets the config command again.
reset_device ==
  /\ resets < MaxResets
  /\ resets' = resets + 1
  /\ IF ResetRestartsSut
       THEN /\ pkt_count' = 0 /\ uart_is_connected' = FALSE
            /\ serial_rx_buf' = FIFO_CREATE(RxCapacity, 0)
            /\ ev_queued' = FALSE /\ task' = "wait" /\ aborted' = FALSE
            /\ wire' = ConfigLogTx
            /\ sent' = <<>> /\ received' = <<>>
       ELSE /\ wire' = wire \o ConfigLogTx
            /\ UNCHANGED <<bridge_vars, sent, received>>

-----------------------------------------------------------------------------
(* The bridge                                                              *)

\* a byte of a packet: the two asserts, then the event if a packet is complete
RxByte(byte) ==
  LET f == fifo_add_byte(serial_rx_buf, byte)
  IN  IF fifo_is_full(serial_rx_buf)
        THEN aborted' = TRUE /\ UNCHANGED <<serial_rx_buf, ev_queued>>
        ELSE /\ serial_rx_buf' = f
             /\ aborted' = ~StartsWithCommand(f)
             /\ ev_queued' = (ev_queued \/ fifo_get_pkt_len(f) > 0)

\* Variant of ble_phy_uart_rx_char: the config value goes into the fifo.
ble_phy_uart_rx_char_off_by_one ==
  /\ wire # <<>> /\ ~aborted
  /\ wire' = Tail(wire)
  /\ pkt_count' = IF pkt_count < 3 THEN pkt_count + 1 ELSE 3
  /\ uart_is_connected' = (uart_is_connected \/ pkt_count = 1)
  /\ IF pkt_count = 0
       THEN aborted' = (Head(wire) # NRF52_CMD_CONFIG_LOG_TX)
            /\ UNCHANGED <<serial_rx_buf, ev_queued>>
       ELSE RxByte(Head(wire))
  /\ UNCHANGED <<resets, task, sent, received>>

ble_phy_uart_rx_char ==
  /\ wire # <<>> /\ ~aborted
  /\ wire' = Tail(wire)
  /\ pkt_count' = IF pkt_count < 3 THEN pkt_count + 1 ELSE 3
  /\ \/ /\ pkt_count = 0
        /\ aborted' = (Head(wire) # NRF52_CMD_CONFIG_LOG_TX)
        /\ UNCHANGED <<uart_is_connected, serial_rx_buf, ev_queued>>
     \/ /\ pkt_count = 1
        /\ uart_is_connected' = TRUE
        /\ UNCHANGED <<serial_rx_buf, ev_queued, aborted>>
     \/ /\ pkt_count >= 2
        /\ RxByte(Head(wire))
        /\ UNCHANGED uart_is_connected
  /\ UNCHANGED <<resets, task, sent, received>>

\* os_eventq_run: the event leaves the queue, then its callback runs
phy_task_recv_func ==
  /\ task = "wait" /\ ev_queued /\ ~aborted
  /\ ev_queued' = FALSE /\ task' = "run"
  /\ UNCHANGED <<wire, resets, pkt_count, uart_is_connected, serial_rx_buf,
                 aborted, sent, received>>

\* Variant of recv_packet: one packet for each event.
recv_packet_without_loop ==
  /\ task = "run" /\ ~aborted
  /\ aborted' = ~StartsWithCommand(serial_rx_buf)
  /\ task' = "wait"
  /\ IF ~aborted' /\ fifo_get_pkt_len(serial_rx_buf) > 0
       THEN /\ received' = Append(received, PoppedPacket(serial_rx_buf))
            /\ serial_rx_buf' = AfterPop(serial_rx_buf)
       ELSE UNCHANGED <<received, serial_rx_buf>>
  /\ UNCHANGED <<wire, resets, pkt_count, uart_is_connected, ev_queued, sent>>

\* the head of the while loop of recv_packet
recv_packet ==
  /\ task = "run" /\ ~aborted
  /\ aborted' = ~StartsWithCommand(serial_rx_buf)
  /\ IF ~aborted' /\ fifo_get_pkt_len(serial_rx_buf) > 0
       THEN /\ received' = Append(received, PoppedPacket(serial_rx_buf))
            /\ serial_rx_buf' = AfterPop(serial_rx_buf)
            /\ task' = "delay"
       ELSE /\ task' = "wait"
            /\ UNCHANGED <<received, serial_rx_buf>>
  /\ UNCHANGED <<wire, resets, pkt_count, uart_is_connected, ev_queued, sent>>

\* Its body hands the packet to the link layer and sleeps, letting others run.
\* It need not end: behind a CONNECT_IND it can sleep for days, and its inner
\* loop goes on while the host queues answers (PsfBridge models both).
RecvDelayOver ==
  /\ task = "delay" /\ ~aborted
  /\ task' = "run"
  /\ UNCHANGED <<wire, resets, pkt_count, uart_is_connected, serial_rx_buf,
                 ev_queued, aborted, sent, received>>

-----------------------------------------------------------------------------
Bridge == ble_phy_uart_rx_char \/ phy_task_recv_func \/ recv_packet \/ RecvDelayOver

Next == (\E p \in Packets : raw_send(p)) \/ reset_device \/ Bridge

Spec == Init /\ [][Next]_vars

\* The UART delivers what is on the wire, and a task that can run does run;
\* nothing makes a body of the loop end.
FairSpec ==
  /\ Spec
  /\ WF_vars(ble_phy_uart_rx_char)
  /\ WF_vars(phy_task_recv_func \/ recv_packet)

-----------------------------------------------------------------------------
\* The fifo never holds more than its capacity nor fewer than no bytes.
TypeOK ==
  /\ wire \in Seq(uint8)
  /\ resets \in 0 .. MaxResets /\ pkt_count \in 0 .. 3
  /\ uart_is_connected \in BOOLEAN /\ ev_queued \in BOOLEAN /\ aborted \in BOOLEAN
  /\ serial_rx_buf \in [capacity : {RxCapacity}, size : 0 .. RxCapacity,
                        tail : 0 .. RxCapacity - 1, buf : [0 .. RxCapacity - 1 -> uint8]]
  /\ task \in {"wait", "run", "delay"}
  /\ sent \in Seq(Packets) /\ received \in Seq(Seq(uint8))

Link == INSTANCE PacketLink

\* The receive task pops the packets raw_send framed, whole, in order, none twice
\* and none skipped (ble_phy.c:145-167), though payload bytes can look like
\* headers; a reset starts over.
LinkSpec == Link!Spec

\* Nothing is lost between driver and task: the fifo and the wire together
\* hold exactly the frames of the packets not yet popped.
StreamIntact ==
  pkt_count >= 2 /\ ~aborted =>
    fifo_bytes(serial_rx_buf) \o wire =
      FlattenSeq([k \in 1 .. Len(sent) - Len(received) |-> Frame(sent[Len(received) + k])])

\* A complete packet never waits for a task that nobody will wake: events are
\* coalesced (ble_phy.c:390-392), so the loop of recv_packet has to see it.
NoLostWakeup ==
  fifo_get_pkt_len(serial_rx_buf) > 0 /\ ~aborted => ev_queued \/ task # "wait"

\* None of the asserts on the receive path fails (ble_phy.c:147, 380, 388).
\* The comment at ble_phy.c:382-384 relies on the same: after the config value
\* "there'll only come ble packets".
OnlyBlePacketsFollow == ~aborted

\* No body of the loop of recv_packet lasts for ever.
BodiesEnd == []<>(task # "delay")

\* Every packet sent is popped, unless the device is reset, or the task stays
\* for ever in the body of the loop for an earlier packet (ble_phy.c:163-285).
EveryPacketReceived ==
  BodiesEnd =>
    \A n \in 1 .. MaxSent :
      Len(sent) >= n /\ resets = 0 ~> Len(received) >= n \/ resets > 0
=============================================================================
