------------------------------ MODULE SerialTx ------------------------------
(***************************************************************************)
(* Answers on their way from the NimBLE bridge to the mapper: ble_phy_tx   *)
(* frames a packet into serial_tx_buf, the UART takes it byte by byte      *)
(* (ble_phy_uart_tx_char), and raw_receive of py/NRF52_Driver.py reads a   *)
(* command without blocking and then blocks for the rest.                  *)
(* Bound: of a reader that is out of step (cut), only the bytes already in *)
(* the fifo are followed, until a reset restarts the bridge.               *)
(***************************************************************************)
EXTENDS Naturals, SequencesExt, Fifo

CONSTANTS
  Packets,      \* BTLE packets with crc, as sequences of bytes
  Notices,      \* other messages of a dongle: logs and checksum errors
  TxCapacity,   \* FIFO_CREATE(serial_tx_buf, 1024)
  WireCapacity, \* what the port buffers for a mapper that does not read
  MaxUnread,    \* bound: answers sent and not yet read
  MaxSent,      \* bound: answers since the last reset
  MaxResets     \* bound: resets of the device

NRF52_CMD_DATA == 167           \* 0xA7
NRF52_CMD_DATA_TX == 187        \* 0xBB
NRF52_CMD_LOG == 127            \* 0x7F

uint8 == 0 .. 255

ASSUME SerialTxAssumption ==
  /\ Packets \subseteq Seq(uint8) /\ Notices \subseteq Seq(uint8)
  /\ TxCapacity \in Nat \ {0} /\ WireCapacity \in Nat \ {0}
  /\ MaxUnread \in Nat /\ MaxSent \in Nat /\ MaxResets \in Nat

VARIABLES
  serial_tx_buf,  \* the fifo of bytes to transmit
  wire,           \* bytes the mapper has not read
  cmd, buf,       \* raw_receive: command and bytes read after it; 0: none
  aborted,        \* the assert of ble_phy_tx failed
  resets,         \* resets made by the driver
  cut,            \* a reset that restarted nothing came amid answers
  sent, received  \* packets transmitted, packets returned

vars == <<serial_tx_buf, wire, cmd, buf, aborted, resets, cut, sent, received>>

Init ==
  /\ serial_tx_buf = FIFO_CREATE(TxCapacity, 0) /\ wire = <<>>
  /\ cmd = 0 /\ buf = <<>>
  /\ aborted = FALSE /\ resets = 0 /\ cut = FALSE
  /\ sent = <<>> /\ received = <<>>

-----------------------------------------------------------------------------
(* The bridge                                                              *)

SumOf(p) == FoldLeft(LAMBDA acc, b : acc + b, 0, p)

\* Variant of Frame: the event counter is left out.
Frame_without_counter(p) ==
  <<NRF52_CMD_DATA, Len(p) % 256, Len(p) \div 256>> \o p \o <<SumOf(p) % 256>>

\* command, length, an unused event counter, the packet, its checksum
Frame(p) ==
  <<NRF52_CMD_DATA, Len(p) % 256, Len(p) \div 256, 0, 0>> \o p \o <<SumOf(p) % 256>>

ble_phy_tx(p) ==
  /\ ~aborted /\ ~cut
  /\ Len(sent) < MaxSent /\ Len(sent) - Len(received) < MaxUnread
  /\ \/ /\ fifo_has_space(serial_tx_buf, Len(Frame(p)))
        /\ serial_tx_buf' = fifo_add_buf(serial_tx_buf, Frame(p))
        /\ sent' = Append(sent, p)
        /\ UNCHANGED aborted
     \/ /\ ~fifo_has_space(serial_tx_buf, Len(Frame(p)))
        /\ aborted' = TRUE
        /\ UNCHANGED <<serial_tx_buf, sent>>
  /\ UNCHANGED <<wire, cmd, buf, resets, cut, received>>

\* a dongle also logs; its messages come between packets
Notice(n) ==
  /\ ~cut
  /\ fifo_is_empty(serial_tx_buf) /\ Len(wire) + Len(n) <= WireCapacity
  /\ wire' = wire \o n
  /\ UNCHANGED <<serial_tx_buf, cmd, buf, aborted, resets, cut, sent, received>>

ble_phy_uart_tx_char ==
  /\ ~fifo_is_empty(serial_tx_buf) /\ Len(wire) < WireCapacity /\ ~aborted
  /\ wire' = Append(wire, fifo_first(serial_tx_buf))
  /\ serial_tx_buf' = fifo_rest(serial_tx_buf)
  /\ UNCHANGED <<cmd, buf, aborted, resets, cut, sent, received>>

-----------------------------------------------------------------------------
(* raw_receive                                                             *)

Size(b) == b[1] + 256 * b[2]

\* a message ends with the checksum behind its packet, or with its text
Complete(c, b) ==
  IF c = NRF52_CMD_LOG
    THEN Len(b) >= 2 /\ Len(b) = 2 + Size(b)
    ELSE Len(b) >= 4 /\ Len(b) = 4 + Size(b) + 1

DataOf(b) == SubSeq(b, 5, Len(b) - 1)

\* the first byte, read without blocking; other commands are complete with it
ReadCommand ==
  /\ cmd = 0 /\ wire # <<>>
  /\ wire' = Tail(wire)
  /\ cmd' = IF Head(wire) \in {NRF52_CMD_DATA, NRF52_CMD_DATA_TX, NRF52_CMD_LOG}
              THEN Head(wire) ELSE 0
  /\ UNCHANGED <<serial_tx_buf, buf, aborted, resets, cut, sent, received>>

\* the rest, for which it blocks; only packets received are returned
ReadRest ==
  /\ cmd # 0 /\ wire # <<>>
  /\ wire' = Tail(wire)
  /\ LET b == Append(buf, Head(wire))
     IN  IF Complete(cmd, b)
           THEN /\ cmd' = 0 /\ buf' = <<>>
                /\ received' = IF cmd = NRF52_CMD_DATA /\ SumOf(DataOf(b)) % 256 = Last(b)
                                 THEN Append(received, DataOf(b)) ELSE received
           ELSE buf' = b /\ UNCHANGED <<cmd, received>>
  /\ UNCHANGED <<serial_tx_buf, aborted, resets, cut, sent>>

\* Variant of reset_device: bytes of the old process stay in the port.
reset_device_keeps_input ==
  /\ cmd = 0 /\ resets < MaxResets
  /\ resets' = resets + 1
  /\ serial_tx_buf' = FIFO_CREATE(TxCapacity, 0)
  /\ aborted' = FALSE /\ cut' = FALSE /\ sent' = <<>> /\ received' = <<>>
  /\ UNCHANGED <<wire, cmd, buf>>

\* Between two calls of raw_receive the driver closes the port, the bridge is
\* restarted, and opening the port drops what was in its buffer.
reset_device ==
  /\ cmd = 0 /\ resets < MaxResets
  /\ resets' = resets + 1
  /\ serial_tx_buf' = FIFO_CREATE(TxCapacity, 0) /\ wire' = <<>>
  /\ aborted' = FALSE /\ cut' = FALSE /\ sent' = <<>> /\ received' = <<>>
  /\ UNCHANGED <<cmd, buf>>

\* The same with a command that restarts nothing (scripts/reset_ci.sh): the
\* port drops what it has and gets from the bridge before it is open again,
\* which need not be whole frames.
reset_device_ci ==
  /\ cmd = 0 /\ resets < MaxResets
  /\ resets' = resets + 1
  /\ wire' = <<>>
  /\ \/ /\ wire = <<>> /\ fifo_is_empty(serial_tx_buf)
        /\ UNCHANGED <<serial_tx_buf, cut>>
     \/ /\ wire # <<>> \/ ~fifo_is_empty(serial_tx_buf)
        /\ \E k \in 0 .. fifo_get_size(serial_tx_buf) :
             /\ aborted => k = 0
             /\ serial_tx_buf' = fifo_drop(serial_tx_buf, k)
        /\ cut' = TRUE
  /\ UNCHANGED <<cmd, buf, aborted, sent, received>>

-----------------------------------------------------------------------------
Device == (\E p \in Packets : ble_phy_tx(p)) \/ (\E n \in Notices : Notice(n))

Next == Device \/ ble_phy_uart_tx_char \/ ReadCommand \/ ReadRest
          \/ reset_device \/ reset_device_ci

Spec == Init /\ [][Next]_vars

\* The UART transmits, and a mapper that receives goes on reading.
FairSpec ==
  /\ Spec
  /\ WF_vars(ble_phy_uart_tx_char) /\ WF_vars(ReadCommand) /\ WF_vars(ReadRest)

-----------------------------------------------------------------------------
\* The fifo and the port never hold more than fits.
TypeOK ==
  /\ serial_tx_buf \in [capacity : {TxCapacity}, size : 0 .. TxCapacity,
                        tail : 0 .. TxCapacity - 1, buf : [0 .. TxCapacity - 1 -> uint8]]
  /\ wire \in Seq(uint8) /\ Len(wire) <= WireCapacity
  /\ cmd \in {0, NRF52_CMD_DATA, NRF52_CMD_DATA_TX, NRF52_CMD_LOG}
  /\ buf \in Seq(uint8)
  /\ aborted \in BOOLEAN /\ resets \in 0 .. MaxResets
  /\ sent \in Seq(Packets) /\ received \in Seq(Packets)

Link == INSTANCE PacketLink

\* raw_receive (NRF52_Driver.py:113-158) returns the packets of ble_phy_tx whole
\* and in order, with logs between them and whatever bytes they contain; it is
\* never out of step with the frames, not even after a reset that restarts the
\* bridge.  After one that restarts nothing it is, once that came amid answers.
LinkSpec == Link!Init /\ [][cut \/ Link!Next]_<<sent, received>>

Unread == FlattenSeq([k \in 1 .. Len(sent) - Len(received) |-> Frame(sent[Len(received) + k])])

\* The assert at ble_phy.c:528 only fails when the answers the mapper has not
\* read do not fit the fifo together with the next one: the fifo is used to its
\* last byte, and what has been read takes no space.
OverflowOnlyIfUnread ==
  aborted /\ ~cut => \E p \in Packets : Len(Unread) + Len(Frame(p)) > TxCapacity

\* A message whose first byte was read is read to its end (the reads at lines
\* 123-130 and 152-155 block without a timeout), unless the bridge aborts
\* or the reader is out of step with the frames.
ReadReturns == cmd # 0 ~> cmd = 0 \/ aborted \/ cut

\* Every answer reaches the mapper, unless the device is reset or the bridge
\* has aborted.
EveryAnswerReturned ==
  \A n \in 1 .. MaxSent :
    Len(sent) >= n /\ resets = 0 ~> Len(received) >= n \/ resets > 0 \/ aborted
=============================================================================
