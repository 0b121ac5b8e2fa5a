--------------------------- MODULE SerialRxProofs ---------------------------
(***************************************************************************)
(* Proofs about SerialRx, for any packets, capacity and bounds: the bytes  *)
(* between the driver and the receive task are always the frames of the    *)
(* packets not yet popped, so the task pops what was sent, in order.       *)
(***************************************************************************)
EXTENDS SerialRx, SerialLemmas

\* raw_send packs the length into two bytes ("<H", NRF52_Driver.py:92), which
\* raises for longer packets.
LengthsFit == \A p \in Packets : Len(p) < 65536

\* What is on the wire: bytes, of which the checksums are computed by a fold.
Byte == uint8 \union {SumOf(p) % 256 : p \in Packets}

-----------------------------------------------------------------------------
(* Lemmas about frames                                                     *)

\* raw_send: a command, the length in two bytes, the packet and its checksum.
LEMMA FrameShape ==
  ASSUME LengthsFit, NEW p \in Packets
  PROVE  /\ p \in Seq(uint8) /\ Len(p) \in Nat \ {0}
         /\ Frame(p) \in Seq(Byte) /\ Len(Frame(p)) = Len(p) + 4
         /\ Frame(p)[1] = NRF52_CMD_DATA
         /\ Frame(p)[2] + 256 * Frame(p)[3] = Len(p)
         /\ \A k \in 1 .. Len(p) : Frame(p)[k + 3] = p[k]
<1>1. p \in Seq(uint8) /\ Len(p) \in Nat \ {0} /\ Len(p) < 65536
  BY SerialRxAssumption DEF LengthsFit
<1> DEFINE n == Len(p)
           c == SumOf(p) % 256
           h == <<NRF52_CMD_DATA, n % 256, n \div 256>>
           t == <<c>>
<1>2. n % 256 \in uint8 /\ n \div 256 \in uint8 /\ (n % 256) + 256 * (n \div 256) = n
  <2>1. n \in Nat /\ n < 65536
    BY <1>1
  <2> HIDE DEF n
  <2> QED
    BY <2>1 DEF uint8
<1>3. uint8 \subseteq Byte /\ c \in Byte
  BY DEF Byte
<1> HIDE DEF c, n
<1>4. /\ h \in Seq(Byte) /\ Len(h) = 3 /\ h[1] = NRF52_CMD_DATA
      /\ h[2] = n % 256 /\ h[3] = n \div 256
  <2>1. NRF52_CMD_DATA \in Byte
    BY <1>3 DEF uint8, NRF52_CMD_DATA
  <2> QED
    BY <1>2, <1>3, <2>1
<1>5. t \in Seq(Byte) /\ Len(t) = 1
  BY <1>3
<1>6. p \in Seq(Byte)
  BY <1>1, <1>3
<1> HIDE DEF h, t
<1>7. n \in Nat /\ Len(p) = n
  BY <1>1 DEF n
<1> DEFINE a == h \o p
<1>8. Frame(p) = a \o t
  BY DEF Frame, h, t, c, n
<1>9. /\ a \in Seq(Byte) /\ Len(a) = 3 + n
      /\ \A k \in 1 .. 3 : a[k] = h[k]
      /\ \A k \in 1 .. n : a[3 + k] = p[k]
  <2>1. /\ a \in Seq(Byte) /\ Len(a) = Len(h) + Len(p)
        /\ \A k \in 1 .. Len(h) : a[k] = h[k]
        /\ \A k \in 1 .. Len(p) : a[Len(h) + k] = p[k]
    <3>1. h \in Seq(Byte) /\ p \in Seq(Byte)
      BY <1>4, <1>6
    <3> QED
      BY <3>1, ConcatIndex
  <2> HIDE DEF a
  <2> QED
    BY <1>4, <1>7, <2>1
<1> HIDE DEF a
<1>10. /\ Frame(p) \in Seq(Byte) /\ Len(Frame(p)) = (3 + n) + 1
       /\ \A k \in 1 .. 3 + n : Frame(p)[k] = a[k]
  <2>1. /\ a \o t \in Seq(Byte) /\ Len(a \o t) = Len(a) + Len(t)
        /\ \A k \in 1 .. Len(a) : (a \o t)[k] = a[k]
    BY <1>5, <1>9, ConcatIndex
  <2>2. Len(a) = 3 + n /\ Len(t) = 1
    BY <1>5, <1>9
  <2> QED
    BY <1>8, <2>1, <2>2
<1>11. Len(Frame(p)) = Len(p) + 4
  BY <1>7, <1>10
<1>12. \A k \in 1 .. 3 : Frame(p)[k] = h[k]
  <2>1. \A k \in 1 .. 3 : k \in 1 .. 3 + n
    BY <1>7
  <2> QED
    BY <1>9, <1>10, <2>1
<1>13. ASSUME NEW k \in 1 .. Len(p) PROVE Frame(p)[k + 3] = p[k]
  <2>1. k + 3 = 3 + k /\ 3 + k \in 1 .. 3 + n
    BY <1>7
  <2> QED
    BY <1>7, <1>9, <1>10, <2>1
<1>14. Frame(p)[1] = h[1] /\ Frame(p)[2] = h[2] /\ Frame(p)[3] = h[3]
  BY <1>12
<1>15. Frame(p)[2] + 256 * Frame(p)[3] = Len(p)
  BY <1>2, <1>4, <1>7, <1>14
<1>16. Frame(p)[1] = NRF52_CMD_DATA
  BY <1>4, <1>14
<1>17. Frame(p) \in Seq(Byte)
  BY <1>10
<1> HIDE DEF h
<1> QED
  BY <1>1, <1>11, <1>13, <1>15, <1>16, <1>17

Frames(q) == [k \in 1 .. Len(q) |-> Frame(q[k])]

LEMMA FramesShape ==
  ASSUME LengthsFit, NEW q \in Seq(Packets)
  PROVE  /\ Frames(q) \in Seq(Seq(Byte)) /\ Len(Frames(q)) = Len(q)
         /\ \A k \in 1 .. Len(q) : Frames(q)[k] = Frame(q[k])
<1>1. \A k \in 1 .. Len(q) : Frame(q[k]) \in Seq(Byte)
  BY FrameShape
<1> QED
  BY <1>1 DEF Frames

LEMMA FramesAppend ==
  ASSUME LengthsFit, NEW q \in Seq(Packets), NEW p \in Packets
  PROVE  Frames(Append(q, p)) = Append(Frames(q), Frame(p))
<1> DEFINE x == Frames(Append(q, p))
           y == Append(Frames(q), Frame(p))
<1>1. /\ Append(q, p) \in Seq(Packets) /\ Len(Append(q, p)) = Len(q) + 1
      /\ Append(q, p)[Len(q) + 1] = p
      /\ \A k \in 1 .. Len(q) : Append(q, p)[k] = q[k]
  BY AppendProperties
<1>2. /\ x \in Seq(Seq(Byte)) /\ Len(x) = Len(q) + 1
      /\ \A k \in 1 .. Len(q) + 1 : x[k] = Frame(Append(q, p)[k])
  BY <1>1, FramesShape
<1>3. /\ y \in Seq(Seq(Byte)) /\ Len(y) = Len(q) + 1
      /\ y[Len(q) + 1] = Frame(p)
      /\ \A k \in 1 .. Len(q) : y[k] = Frame(q[k])
  <2>1. Frame(p) \in Seq(Byte)
    BY FrameShape
  <2>2. /\ Frames(q) \in Seq(Seq(Byte)) /\ Len(Frames(q)) = Len(q)
        /\ \A k \in 1 .. Len(q) : Frames(q)[k] = Frame(q[k])
    BY FramesShape
  <2> QED
    BY <2>1, <2>2, AppendProperties
<1>4. Len(q) \in Nat
  OBVIOUS
<1> HIDE DEF x, y
<1>5. ASSUME NEW k \in 1 .. Len(x) PROVE x[k] = y[k]
  <2>1. k \in 1 .. Len(q) \/ k = Len(q) + 1
    BY <1>2, <1>4
  <2>2. k \in 1 .. Len(q) + 1
    BY <1>2
  <2> QED
    BY <1>1, <1>2, <1>3, <2>1, <2>2
<1>6. x = y
  BY <1>2, <1>3, <1>5, SeqEqual
<1> QED
  BY <1>6 DEF x, y

LEMMA FramesTail ==
  ASSUME LengthsFit, NEW q \in Seq(Packets), q # <<>>
  PROVE  Frames(q) # <<>> /\ Frames(Tail(q)) = Tail(Frames(q))
<1> DEFINE x == Frames(Tail(q))
           y == Tail(Frames(q))
           z == Frames(q)
<1>1. /\ Tail(q) \in Seq(Packets) /\ Len(Tail(q)) = Len(q) - 1
      /\ \A k \in 1 .. Len(Tail(q)) : Tail(q)[k] = q[k + 1]
  BY HeadTailProperties
<1>2. /\ x \in Seq(Seq(Byte)) /\ Len(x) = Len(q) - 1
      /\ \A k \in 1 .. Len(q) - 1 : x[k] = Frame(Tail(q)[k])
  BY <1>1, FramesShape
<1>3. /\ z \in Seq(Seq(Byte)) /\ Len(z) = Len(q)
      /\ \A k \in 1 .. Len(q) : z[k] = Frame(q[k])
  BY FramesShape
<1>4. Len(q) \in Nat \ {0}
  OBVIOUS
<1> HIDE DEF z
<1>5. z # <<>>
  BY <1>3, <1>4
<1>6. /\ y \in Seq(Seq(Byte)) /\ Len(y) = Len(q) - 1
      /\ \A k \in 1 .. Len(q) - 1 : y[k] = z[k + 1]
  BY <1>3, <1>5, HeadTailProperties DEF z
<1> HIDE DEF x, y
<1>7. ASSUME NEW k \in 1 .. Len(x) PROVE x[k] = y[k]
  <2>1. k \in 1 .. Len(q) - 1 /\ k + 1 \in 1 .. Len(q)
    BY <1>2, <1>4
  <2> QED
    BY <1>1, <1>2, <1>3, <1>6, <2>1
<1>8. x = y
  BY <1>2, <1>6, <1>7, SeqEqual
<1> QED
  BY <1>5, <1>8 DEF x, y, z

-----------------------------------------------------------------------------
(* Lemmas about the front of the fifo                                      *)

\* A stream of frames starts with a command, and the packet that recv_packet
\* takes from the fifo is the oldest of those not yet popped (ble_phy.c:143-167).
LEMMA FrontPacket ==
  ASSUME LengthsFit, NEW f \in FifoType(Byte, RxCapacity), NEW w \in Seq(Byte),
         NEW q \in Seq(Packets), Framed(fifo_bytes(f) \o w, Frames(q), 0)
  PROVE  /\ StartsWithCommand(f)
         /\ fifo_get_pkt_len(f) > 0 =>
              /\ q # <<>> /\ PoppedPacket(f) = q[1]
              /\ AfterPop(f) \in FifoType(Byte, RxCapacity)
              /\ Framed(fifo_bytes(AfterPop(f)) \o w, Frames(Tail(q)), 0)
<1> DEFINE s == fifo_bytes(f)
           S == s \o w
           p == q[1]
           F == Frame(p)
           n == Len(p)
<1>0. RxCapacity \in Nat \ {0}
  BY SerialRxAssumption
<1>1. f.size \in 0 .. RxCapacity /\ f.size \in Nat
  <2>1. f.size \in 0 .. RxCapacity
    BY DEF FifoType
  <2> QED
    BY <1>0, <2>1
<1>2. s \in Seq(Byte) /\ Len(s) = f.size
  BY <1>0, BytesType
<1>3. /\ S \in Seq(Byte) /\ Len(S) = Len(s) + Len(w)
      /\ \A k \in 1 .. Len(s) : S[k] = s[k]
  BY <1>2, ConcatIndex
<1> SUFFICES ASSUME f.size > 3
             PROVE  /\ StartsWithCommand(f)
                    /\ fifo_get_pkt_len(f) > 0 =>
                         /\ q # <<>> /\ PoppedPacket(f) = q[1]
                         /\ AfterPop(f) \in FifoType(Byte, RxCapacity)
                         /\ Framed(fifo_bytes(AfterPop(f)) \o w, Frames(Tail(q)), 0)
  BY DEF StartsWithCommand, fifo_get_pkt_len, fifo_get_size
<1>4. S # <<>>
  <2>1. Len(w) \in Nat
    OBVIOUS
  <2>2. Len(S) # 0
    BY <1>1, <1>2, <1>3, <2>1
  <2> QED
    BY <2>2
<1>5. /\ q # <<>> /\ p \in Packets
      /\ Len(F) <= Len(S)
      /\ \A k \in 1 .. Len(F) : S[k] = F[k]
  <2>1. Framed(S, Frames(q), 0)
    OBVIOUS
  <2>2. /\ Frames(q) \in Seq(Seq(Byte)) /\ Len(Frames(q)) = Len(q)
        /\ \A k \in 1 .. Len(q) : Frames(q)[k] = Frame(q[k])
    BY FramesShape
  <2> HIDE DEF S, p, F
  <2>3. /\ Frames(q) # <<>> /\ Len(Frames(q)[1]) <= Len(S)
        /\ \A k \in 1 .. Len(Frames(q)[1]) : S[k] = Frames(q)[1][k]
    BY <1>3, <1>4, <2>1, <2>2, FramedFront
  <2>4. q # <<>> /\ q[1] \in Packets /\ 1 \in 1 .. Len(q)
    BY <2>2, <2>3
  <2>5. Frames(q)[1] = F
    BY <2>2, <2>4 DEF F, p
  <2> QED
    BY <2>3, <2>4, <2>5 DEF p
<1> HIDE DEF S, s
<1>6. /\ n \in Nat \ {0} /\ p \in Seq(uint8) /\ Len(F) = n + 4
      /\ F[1] = NRF52_CMD_DATA /\ F[2] + 256 * F[3] = n
      /\ \A k \in 1 .. n : F[k + 3] = p[k]
  BY <1>5, FrameShape
<1> HIDE DEF p, F, n
<1>7. s[1] = F[1] /\ s[2] = F[2] /\ s[3] = F[3]
  <2>1. 1 \in 1 .. Len(s) /\ 2 \in 1 .. Len(s) /\ 3 \in 1 .. Len(s)
    BY <1>1, <1>2
  <2>2. 1 \in 1 .. Len(F) /\ 2 \in 1 .. Len(F) /\ 3 \in 1 .. Len(F)
    BY <1>6
  <2> QED
    BY <1>3, <1>5, <2>1, <2>2
<1>8. fifo_peek(f, 0) = F[1] /\ fifo_peek(f, 1) = F[2] /\ fifo_peek(f, 2) = F[3]
  <2>1. 0 \in 0 .. f.size - 1 /\ 1 \in 0 .. f.size - 1 /\ 2 \in 0 .. f.size - 1
    BY <1>1
  <2>2. /\ fifo_peek(f, 0) = s[0 + 1] /\ fifo_peek(f, 1) = s[1 + 1]
        /\ fifo_peek(f, 2) = s[2 + 1]
    BY <1>0, <2>1, PeekValue DEF s
  <2> QED
    BY <1>7, <2>2
<1>9. StartsWithCommand(f)
  BY <1>6, <1>8 DEF StartsWithCommand
<1>10. ASSUME fifo_get_pkt_len(f) > 0
       PROVE  /\ PoppedPacket(f) = p
              /\ AfterPop(f) \in FifoType(Byte, RxCapacity)
              /\ Framed(fifo_bytes(AfterPop(f)) \o w, Frames(Tail(q)), 0)
  <2>1. fifo_get_pkt_len(f) = n /\ f.size >= n + 4
    <3>1. fifo_get_pkt_len(f) =
            IF f.size > 3 /\ f.size >= 1 + 2 + n + 1 THEN n ELSE 0
      BY <1>6, <1>8 DEF fifo_get_pkt_len, fifo_get_size
    <3> QED
      BY <1>1, <1>6, <1>10, <3>1
  <2>2. PoppedPacket(f) = p
    <3> DEFINE g == fifo_drop(f, 3)
               x == fifo_bytes(g)
               y == fifo_front(g, n)
    <3>1. 3 \in 0 .. f.size
      BY <1>1
    <3>2. g \in FifoType(Byte, RxCapacity) /\ g.size = f.size - 3
      BY <1>0, <3>1, OffsetAfterDrop
    <3>3. x = SubSeq(s, 3 + 1, f.size)
      BY <1>0, <3>1, GetBufTakesFront DEF s
    <3>4. PoppedPacket(f) = y
      BY <2>1 DEF PoppedPacket
    <3> HIDE DEF g
    <3>5. ASSUME NEW k \in 1 .. n PROVE y[k] = p[k]
      <4>1. y[k] = fifo_peek(g, k - 1)
        BY DEF fifo_front
      <4>2. k - 1 \in 0 .. g.size - 1 /\ (k - 1) + 1 = k
        BY <1>1, <1>6, <2>1, <3>2
      <4>3. fifo_peek(g, k - 1) = x[k]
        BY <1>0, <3>2, <4>2, PeekValue
      <4> HIDE DEF x, y
      <4>4. x[k] = s[k + 3]
        <5>1. \A i \in 3 + 1 .. f.size : s[i] \in Byte
          BY <1>1, <1>2
        <5>2. k \in 1 .. f.size - (3 + 1) + 1 /\ (3 + 1) + k - 1 = k + 3
          BY <1>1, <1>6, <2>1
        <5>3. \A i \in 1 .. f.size - (3 + 1) + 1 :
                SubSeq(s, 3 + 1, f.size)[i] = s[(3 + 1) + i - 1]
          BY <1>1, <5>1, SubSeqProperties
        <5> QED
          BY <3>3, <5>2, <5>3
      <4>5. k + 3 \in 1 .. Len(s) /\ k + 3 \in 1 .. Len(F)
        BY <1>1, <1>2, <1>6, <2>1
      <4> QED
        BY <1>3, <1>5, <1>6, <4>1, <4>3, <4>4, <4>5
    <3>6. y = [k \in 1 .. n |-> y[k]]
      BY DEF fifo_front
    <3>7. p = [k \in 1 .. n |-> p[k]]
      BY <1>6 DEF n
    <3> HIDE DEF y
    <3> QED
      BY <3>4, <3>5, <3>6, <3>7
  <2> DEFINE m == Len(F)
             h == AfterPop(f)
  <2>3. /\ h = fifo_drop(f, m) /\ m \in 0 .. f.size
    <3>1. 3 + n + 1 = n + 4 /\ n + 4 \in 0 .. f.size
      BY <1>1, <1>6, <2>1
    <3> QED
      BY <1>6, <2>1, <3>1 DEF AfterPop
  <2> HIDE DEF m
  <2>4. h \in FifoType(Byte, RxCapacity) /\ fifo_bytes(h) = SubSeq(s, m + 1, f.size)
    BY <1>0, <2>3, GetBufTakesFront DEF s
  <2>5. fifo_bytes(h) \o w = SubSeq(S, m + 1, Len(S))
    <3>1. m \in 0 .. Len(s) /\ s \in Seq(Byte) /\ w \in Seq(Byte)
      BY <1>2, <2>3
    <3>2. SubSeq(s, m + 1, Len(s)) \o w = SubSeq(s \o w, m + 1, Len(s \o w))
      BY <3>1, DropFromStream
    <3> QED
      BY <1>2, <2>4, <3>2 DEF S
  <2>6. Framed(SubSeq(S, m + 1, Len(S)), Frames(Tail(q)), 0)
    <3>1. Framed(S, Frames(q), 0)
      BY DEF S, s
    <3>2. /\ Frames(q) \in Seq(Seq(Byte)) /\ Len(Frames(q)) = Len(q)
          /\ \A k \in 1 .. Len(q) : Frames(q)[k] = Frame(q[k])
      BY FramesShape
    <3>3. Frames(q) # <<>> /\ Frames(Tail(q)) = Tail(Frames(q))
      BY <1>5, FramesTail
    <3>4. m = Len(Frames(q)[1])
      <4>1. 1 \in 1 .. Len(q)
        BY <1>5
      <4> QED
        BY <3>2, <4>1 DEF m, F, p
    <3>5. Framed(SubSeq(S, Len(Frames(q)[1]) + 1, Len(S)), Tail(Frames(q)), 0)
      BY <1>3, <3>1, <3>2, <3>3, FramedPop
    <3> QED
      BY <3>3, <3>4, <3>5
  <2> QED
    BY <2>2, <2>4, <2>5, <2>6
<1> QED
  BY <1>5, <1>9, <1>10 DEF p

-----------------------------------------------------------------------------
(* The inductive invariant                                                 *)

\* sent to this bridge process and not yet popped
Pending == SubSeq(sent, Len(received) + 1, Len(sent))

\* the bytes between the driver and the receive task
Stream == fifo_bytes(serial_rx_buf) \o wire

\* bytes of the config command still to come
Prefix == IF pkt_count = 0 THEN 2 ELSE IF pkt_count = 1 THEN 1 ELSE 0

Types ==
  /\ wire \in Seq(Byte) /\ pkt_count \in 0 .. 3
  /\ serial_rx_buf \in FifoType(Byte, RxCapacity)
  /\ sent \in Seq(Packets) /\ received \in Seq(Packets)
  /\ Len(received) <= Len(sent)

\* The stream starts with what is left of the config command, none of which
\* enters the fifo; behind it are the frames of the packets not yet popped.
StreamInv ==
  ~aborted =>
    /\ pkt_count < 2 => serial_rx_buf.size = 0
    /\ pkt_count = 0 => wire[1] = NRF52_CMD_CONFIG_LOG_TX
    /\ Framed(Stream, Frames(Pending), Prefix)

RxInv == Types /\ StreamInv

LEMMA PendingType ==
  Types => /\ Pending \in Seq(Packets) /\ Len(Pending) = Len(sent) - Len(received)
           /\ \A k \in 1 .. Len(Pending) : Pending[k] = sent[Len(received) + k]
<1> SUFFICES ASSUME Types
             PROVE  /\ Pending \in Seq(Packets)
                    /\ Len(Pending) = Len(sent) - Len(received)
                    /\ \A k \in 1 .. Len(Pending) : Pending[k] = sent[Len(received) + k]
  OBVIOUS
<1> DEFINE n == Len(received)
           P == Pending
<1>1. n \in Nat /\ Len(sent) \in Nat /\ n <= Len(sent) /\ sent \in Seq(Packets)
  BY DEF Types
<1>2. \A k \in n + 1 .. Len(sent) : sent[k] \in Packets
  BY <1>1
<1>3. /\ P \in Seq(Packets)
      /\ Len(P) = IF n + 1 <= Len(sent) THEN Len(sent) - (n + 1) + 1 ELSE 0
      /\ \A k \in 1 .. Len(sent) - (n + 1) + 1 : P[k] = sent[(n + 1) + k - 1]
  BY <1>1, <1>2, SubSeqProperties DEF Pending
<1> HIDE DEF P, n
<1>4. Len(P) = Len(sent) - n
  BY <1>1, <1>3
<1>5. ASSUME NEW k \in 1 .. Len(P) PROVE P[k] = sent[n + k]
  <2>1. k \in 1 .. Len(sent) - (n + 1) + 1 /\ (n + 1) + k - 1 = n + k
    BY <1>1, <1>4
  <2> QED
    BY <1>3, <2>1
<1> QED
  BY <1>3, <1>4, <1>5 DEF P, n

LEMMA StreamType ==
  ASSUME Types
  PROVE  /\ fifo_bytes(serial_rx_buf) \in Seq(Byte)
         /\ Len(fifo_bytes(serial_rx_buf)) = serial_rx_buf.size
         /\ serial_rx_buf.size \in 0 .. RxCapacity
         /\ Stream \in Seq(Byte) /\ Len(Stream) = serial_rx_buf.size + Len(wire)
         /\ serial_rx_buf.size = 0 => Stream = wire
<1> DEFINE s == fifo_bytes(serial_rx_buf)
<1>1. RxCapacity \in Nat \ {0} /\ wire \in Seq(Byte)
      /\ serial_rx_buf \in FifoType(Byte, RxCapacity)
  BY SerialRxAssumption DEF Types
<1>2. s \in Seq(Byte) /\ Len(s) = serial_rx_buf.size
  BY <1>1, BytesType
<1>3. serial_rx_buf.size \in 0 .. RxCapacity
  BY <1>1 DEF FifoType
<1> HIDE DEF s
<1>4. s \o wire \in Seq(Byte) /\ Len(s \o wire) = Len(s) + Len(wire)
  BY <1>1, <1>2, ConcatProperties
<1>5. ASSUME serial_rx_buf.size = 0 PROVE s \o wire = wire
  <2>1. s = <<>>
    BY <1>2, <1>5
  <2> QED
    BY <1>1, <2>1, ConcatEmptySeq
<1> QED
  BY <1>2, <1>3, <1>4, <1>5 DEF Stream, s

\* The same for the next state.
Shapes ==
  /\ Pending \in Seq(Packets) /\ Len(Pending) = Len(sent) - Len(received)
  /\ \A k \in 1 .. Len(Pending) : Pending[k] = sent[Len(received) + k]
  /\ serial_rx_buf.size = 0 => Stream = wire

LEMMA ShapesInv == Types => Shapes
  BY PendingType, StreamType DEF Shapes

LEMMA ShapesNext == Types' => Shapes'
  BY ShapesInv, PTL

\* What a new bridge process and the config command make of the state.
LEMMA FreshBridge ==
  FIFO_CREATE(RxCapacity, 0) \in FifoType(Byte, RxCapacity)
  /\ FIFO_CREATE(RxCapacity, 0).size = 0
  /\ ConfigLogTx \in Seq(Byte) /\ Len(ConfigLogTx) = 2
  /\ ConfigLogTx[1] = NRF52_CMD_CONFIG_LOG_TX
<1>1. 0 \in Byte /\ NRF52_CMD_CONFIG_LOG_TX \in Byte
  BY DEF Byte, uint8, NRF52_CMD_CONFIG_LOG_TX
<1>2. RxCapacity \in Nat \ {0}
  BY SerialRxAssumption
<1>3. FIFO_CREATE(RxCapacity, 0) \in FifoType(Byte, RxCapacity)
  BY <1>1, <1>2 DEF FIFO_CREATE, FifoType
<1>4. FIFO_CREATE(RxCapacity, 0).size = 0
  BY DEF FIFO_CREATE
<1>5. /\ ConfigLogTx \in Seq(Byte) /\ Len(ConfigLogTx) = 2
      /\ ConfigLogTx[1] = NRF52_CMD_CONFIG_LOG_TX
  BY <1>1 DEF ConfigLogTx
<1> QED
  BY <1>3, <1>4, <1>5

Fresh ==
  /\ wire = ConfigLogTx /\ pkt_count = 0
  /\ serial_rx_buf = FIFO_CREATE(RxCapacity, 0)
  /\ sent = <<>> /\ received = <<>>

LEMMA FreshInv == Fresh => RxInv
<1> SUFFICES ASSUME Fresh PROVE RxInv
  OBVIOUS
<1>1. <<>> \in Seq(Packets) /\ Len(<<>>) = 0
  OBVIOUS
<1>2. Types
  BY <1>1, FreshBridge DEF Fresh, Types
<1>3. Pending = <<>>
  BY <1>1, <1>2, PendingType DEF Fresh
<1>4. Stream = ConfigLogTx
  BY <1>2, StreamType, FreshBridge DEF Fresh
<1>5. Framed(Stream, Frames(Pending), Prefix)
  <2>1. Framed(ConfigLogTx, <<>>, Len(ConfigLogTx))
    BY FreshBridge, FramedEmpty
  <2>3. Frames(<<>>) = <<>>
    BY <1>1 DEF Frames
  <2>2. Prefix = 2
    BY DEF Fresh, Prefix
  <2> QED
    BY <1>3, <1>4, <2>1, <2>2, <2>3, FreshBridge
<1> QED
  BY <1>2, <1>5, FreshBridge DEF RxInv, StreamInv, Fresh

LEMMA InitInv == Init => RxInv
  BY FreshInv DEF Init, Fresh

LEMMA ResetInv == ResetRestartsSut /\ reset_device => RxInv'
<1> SUFFICES ASSUME ResetRestartsSut, reset_device PROVE RxInv'
  OBVIOUS
<1>1. Fresh'
  BY DEF reset_device, Fresh
<1>2. Fresh' => RxInv'
  BY FreshInv, PTL
<1> QED
  BY <1>1, <1>2

LEMMA SendInv ==
  ASSUME LengthsFit, RxInv, NEW p \in Packets, raw_send(p)
  PROVE  RxInv'
<1> DEFINE F == Frame(p)
           s == fifo_bytes(serial_rx_buf)
<1>1. /\ wire' = wire \o F /\ sent' = Append(sent, p)
      /\ UNCHANGED <<pkt_count, serial_rx_buf, aborted, received>>
  BY DEF raw_send, bridge_vars
<1>2. /\ Types /\ wire \in Seq(Byte) /\ sent \in Seq(Packets)
      /\ received \in Seq(Packets) /\ Len(received) <= Len(sent)
  BY DEF RxInv, Types
<1>3. F \in Seq(Byte)
  BY FrameShape
<1> HIDE DEF F
<1>4. wire' \in Seq(Byte) /\ \A k \in 1 .. Len(wire) : wire'[k] = wire[k]
  BY <1>1, <1>2, <1>3, ConcatIndex
<1>5. /\ sent' \in Seq(Packets) /\ Len(sent') = Len(sent) + 1
      /\ sent'[Len(sent) + 1] = p
      /\ \A k \in 1 .. Len(sent) : sent'[k] = sent[k]
  BY <1>1, <1>2, AppendProperties
<1>6. Types'
  BY <1>1, <1>2, <1>4, <1>5 DEF Types
<1>7. ASSUME ~aborted'
      PROVE  /\ pkt_count < 2 => serial_rx_buf.size = 0
             /\ pkt_count = 0 => wire'[1] = NRF52_CMD_CONFIG_LOG_TX
             /\ Framed(Stream', Frames(Pending'), Prefix')
  <2>1. /\ pkt_count < 2 => serial_rx_buf.size = 0
        /\ pkt_count = 0 => wire[1] = NRF52_CMD_CONFIG_LOG_TX
        /\ Framed(Stream, Frames(Pending), Prefix)
    BY <1>1, <1>7 DEF RxInv, StreamInv
  <2>2. /\ Stream \in Seq(Byte) /\ Pending \in Seq(Packets)
        /\ Frames(Pending) \in Seq(Seq(Byte))
    BY <1>2, StreamType, PendingType, FramesShape
  <2>3. ASSUME pkt_count = 0 PROVE wire'[1] = NRF52_CMD_CONFIG_LOG_TX
    <3>1. Stream = wire /\ Prefix = 2
      BY <1>2, <2>1, <2>3, StreamType DEF Prefix
    <3>2. wire # <<>>
      BY <2>1, <2>2, <3>1, FramedTail
    <3>3. 1 \in 1 .. Len(wire)
      BY <1>2, <3>2
    <3> QED
      BY <1>4, <2>1, <2>3, <3>3
  <2>4. Stream' = Stream \o F
    <3>1. s \in Seq(Byte)
      BY <1>2, StreamType
    <3>2. Stream' = s \o wire'
      BY <1>1 DEF Stream, fifo_bytes, fifo_front, fifo_peek, fifo_tail_offset
    <3> HIDE DEF s
    <3>3. wire \in Seq(Byte) /\ F \in Seq(Byte)
      BY <1>2, <1>3
    <3>4. s \o (wire \o F) = (s \o wire) \o F
      <4> DEFINE w == wire
      <4>1. w \in Seq(Byte)
        BY <3>3
      <4> HIDE DEF w
      <4>2. s \o (w \o F) = (s \o w) \o F
        BY <3>1, <3>3, <4>1, ConcatAssociative
      <4> QED
        BY <4>2 DEF w
    <3> QED
      BY <1>1, <3>2, <3>4 DEF Stream, s
  <2>5. Pending' = Append(Pending, p)
    <3> DEFINE P == Pending
               Q == Pending'
               R == Append(Pending, p)
    <3>1. /\ Q \in Seq(Packets) /\ Len(Q) = Len(sent') - Len(received')
          /\ \A k \in 1 .. Len(Q) : Q[k] = sent'[Len(received') + k]
      BY <1>6, ShapesNext DEF Shapes
    <3>2. /\ P \in Seq(Packets) /\ Len(P) = Len(sent) - Len(received)
          /\ \A k \in 1 .. Len(P) : P[k] = sent[Len(received) + k]
      BY <1>2, PendingType
    <3> HIDE DEF P, Q
    <3>3. /\ R \in Seq(Packets) /\ Len(R) = Len(P) + 1 /\ R[Len(P) + 1] = p
          /\ \A k \in 1 .. Len(P) : R[k] = P[k]
      BY <3>2, AppendProperties DEF P
    <3> HIDE DEF R
    <3>4. Len(sent) \in Nat /\ Len(received) \in Nat /\ Len(P) \in Nat /\ received' = received
      BY <1>1, <1>2, <3>2
    <3>5. Len(Q) = Len(R)
      BY <1>5, <3>1, <3>2, <3>3, <3>4
    <3>6. ASSUME NEW k \in 1 .. Len(Q) PROVE Q[k] = R[k]
      <4>1. Q[k] = sent'[Len(received) + k]
        BY <3>1, <3>4
      <4>2. CASE k \in 1 .. Len(P)
        <5>1. Len(received) + k \in 1 .. Len(sent)
          BY <3>2, <3>4, <4>2
        <5> QED
          BY <1>5, <3>2, <3>3, <4>1, <4>2, <5>1
      <4>3. CASE k = Len(P) + 1
        <5>1. Len(received) + k = Len(sent) + 1
          BY <3>2, <3>4, <4>3
        <5> QED
          BY <1>5, <3>3, <4>1, <4>3, <5>1
      <4> QED
        BY <3>3, <3>4, <3>5, <4>2, <4>3
    <3>7. Q = R
      BY <3>1, <3>3, <3>5, <3>6, SeqEqual
    <3> QED
      BY <3>7 DEF Q, R
  <2>6. Prefix' = Prefix /\ Prefix \in Nat
    BY <1>1 DEF Prefix
  <2>7. Framed(Stream \o F, Frames(Append(Pending, p)), Prefix)
    <3>1. Framed(Stream \o F, Append(Frames(Pending), F), Prefix)
      BY <1>3, <2>1, <2>2, <2>6, FramedAppend
    <3> QED
      BY <2>2, <3>1, FramesAppend DEF F
  <2> QED
    BY <2>1, <2>3, <2>4, <2>5, <2>6, <2>7
<1> QED
  BY <1>1, <1>6, <1>7 DEF RxInv, StreamInv

LEMMA RxCharInv ==
  ASSUME LengthsFit, RxInv, ble_phy_uart_rx_char
  PROVE  RxInv' /\ (aborted' => pkt_count >= 2 /\ fifo_is_full(serial_rx_buf))
<1> DEFINE f == serial_rx_buf
           c == Head(wire)
<1>1. /\ wire # <<>> /\ ~aborted /\ wire' = Tail(wire)
      /\ pkt_count' = IF pkt_count < 3 THEN pkt_count + 1 ELSE 3
      /\ UNCHANGED <<sent, received>>
  BY DEF ble_phy_uart_rx_char
<1>2. /\ Types /\ wire \in Seq(Byte) /\ pkt_count \in 0 .. 3
      /\ f \in FifoType(Byte, RxCapacity) /\ RxCapacity \in Nat \ {0}
  BY SerialRxAssumption DEF RxInv, Types
<1>3. /\ pkt_count < 2 => f.size = 0
      /\ pkt_count = 0 => wire[1] = NRF52_CMD_CONFIG_LOG_TX
      /\ Framed(Stream, Frames(Pending), Prefix)
  BY <1>1 DEF RxInv, StreamInv
<1>4. /\ Stream \in Seq(Byte) /\ Pending \in Seq(Packets) /\ Pending' = Pending
      /\ Frames(Pending) \in Seq(Seq(Byte))
  BY <1>1, <1>2, StreamType, PendingType, FramesShape DEF Pending
<1>5. /\ c \in Byte /\ c = wire[1] /\ Tail(wire) \in Seq(Byte)
      /\ pkt_count' \in 0 .. 3
  BY <1>1, <1>2, HeadTailProperties
<1>6. CASE pkt_count < 2
  <2>1. serial_rx_buf' = f /\ aborted' = FALSE
    <3>1. CASE pkt_count = 0
      <4>1. /\ aborted' = (c # NRF52_CMD_CONFIG_LOG_TX)
            /\ UNCHANGED <<uart_is_connected, serial_rx_buf, ev_queued>>
        BY <3>1 DEF ble_phy_uart_rx_char
      <4> QED
        BY <1>3, <1>5, <3>1, <4>1
    <3>2. CASE pkt_count = 1
      <4>1. UNCHANGED <<serial_rx_buf, ev_queued, aborted>>
        BY <3>2 DEF ble_phy_uart_rx_char
      <4> QED
        BY <1>1, <4>1
    <3> QED
      <4>1. pkt_count = 0 \/ pkt_count = 1
        BY <1>2, <1>6
      <4> QED
        BY <3>1, <3>2, <4>1
  <2>2. Types'
    BY <1>1, <1>2, <1>5, <2>1 DEF Types
  <2>3. f.size = 0 /\ Stream = wire
    BY <1>2, <1>3, <1>6, StreamType
  <2>4. Stream' = Tail(wire)
    <3>1. serial_rx_buf'.size = 0 => Stream' = wire'
      BY <2>2, ShapesNext DEF Shapes
    <3> QED
      BY <1>1, <2>1, <2>3, <3>1
  <2>5. Prefix \in Nat \ {0} /\ Prefix' = Prefix - 1
    BY <1>1, <1>2, <1>6 DEF Prefix
  <2>6. Framed(Stream', Frames(Pending'), Prefix')
    BY <1>3, <1>4, <2>3, <2>4, <2>5, FramedTail
  <2>7. pkt_count' # 0
    BY <1>1, <1>2
  <2> QED
    BY <2>1, <2>2, <2>3, <2>6, <2>7 DEF RxInv, StreamInv
<1>7. CASE ~(pkt_count < 2)
  <2> DEFINE g == fifo_add_byte(f, c)
  <2>0. pkt_count >= 2 /\ ~(pkt_count' < 2) /\ pkt_count' # 0
    BY <1>1, <1>2, <1>7
  <2>1. RxByte(c)
    BY <1>2, <1>7 DEF ble_phy_uart_rx_char
  <2>2. CASE fifo_is_full(f)
    <3>1. aborted' = TRUE /\ serial_rx_buf' = f
      BY <2>1, <2>2 DEF RxByte
    <3>2. Types'
      BY <1>1, <1>2, <1>5, <3>1 DEF Types
    <3> QED
      BY <2>0, <2>2, <3>1, <3>2 DEF RxInv, StreamInv
  <2>3. CASE ~fifo_is_full(f)
    <3>1. serial_rx_buf' = g /\ aborted' = ~StartsWithCommand(g)
      BY <2>1, <2>3 DEF RxByte
    <3>2. g \in FifoType(Byte, RxCapacity) /\ fifo_bytes(g) = Append(fifo_bytes(f), c)
      BY <1>2, <1>5, <2>3, AddByteAppends
    <3> HIDE DEF g
    <3>3. Types'
      BY <1>1, <1>2, <1>5, <3>1, <3>2 DEF Types
    <3>4. fifo_bytes(g) \o Tail(wire) = Stream
      <4> DEFINE s == fifo_bytes(f)
                 t == Tail(wire)
      <4>1. s \in Seq(Byte) /\ t \in Seq(Byte) /\ <<c>> \in Seq(Byte)
        BY <1>2, <1>5, StreamType
      <4>2. Append(s, c) = s \o <<c>>
        BY <1>5, <4>1, AppendIsConcat
      <4>3. <<c>> \o t = wire
        BY <1>1, <1>2
      <4> HIDE DEF s, t
      <4>4. (s \o <<c>>) \o t = s \o (<<c>> \o t)
        BY <4>1, ConcatAssociative
      <4> QED
        BY <3>2, <4>2, <4>3, <4>4 DEF Stream, s, t
    <3>5. Stream' = Stream
      <4>1. Stream' = fifo_bytes(g) \o Tail(wire)
        BY <1>1, <3>1 DEF Stream, fifo_bytes, fifo_front, fifo_peek, fifo_tail_offset
      <4> QED
        BY <3>4, <4>1
    <3>6. Prefix = 0 /\ Prefix' = 0
      BY <1>2, <1>7, <2>0 DEF Prefix
    <3>7. StartsWithCommand(g)
      BY <1>3, <1>4, <1>5, <3>2, <3>4, <3>6, FrontPacket
    <3> QED
      BY <1>3, <1>4, <2>0, <3>1, <3>3, <3>5, <3>6, <3>7 DEF RxInv, StreamInv
  <2> QED
    BY <2>2, <2>3
<1> QED
  BY <1>6, <1>7

\* recv_packet pops the oldest packet or nothing, and its assert holds.
Popped ==
  /\ Len(received) < Len(sent)
  /\ received' = Append(received, sent[Len(received) + 1])

LEMMA RecvInv ==
  ASSUME LengthsFit, RxInv, recv_packet
  PROVE  RxInv' /\ ~aborted' /\ sent' = sent /\ (received' = received \/ Popped)
<1> DEFINE f == serial_rx_buf
           n == Len(received)
<1>1. /\ ~aborted /\ aborted' = ~StartsWithCommand(f)
      /\ UNCHANGED <<wire, pkt_count, sent>>
  BY DEF recv_packet
<1>2. /\ Types /\ wire \in Seq(Byte) /\ pkt_count \in 0 .. 3
      /\ f \in FifoType(Byte, RxCapacity)
      /\ sent \in Seq(Packets) /\ received \in Seq(Packets)
  BY DEF RxInv, Types
<1>3. /\ pkt_count < 2 => f.size = 0
      /\ pkt_count = 0 => wire[1] = NRF52_CMD_CONFIG_LOG_TX
      /\ Framed(Stream, Frames(Pending), Prefix)
  BY <1>1 DEF RxInv, StreamInv
<1>4. Pending \in Seq(Packets) /\ Prefix' = Prefix
  BY <1>1, <1>2, PendingType DEF Prefix
<1>5. f.size > 3 => pkt_count >= 2 /\ Prefix = 0
  BY <1>2, <1>3 DEF Prefix
<1>6. StartsWithCommand(f)
  <2>1. CASE f.size > 3
    BY <1>2, <1>3, <1>4, <1>5, <2>1, FrontPacket DEF Stream
  <2>2. CASE ~(f.size > 3)
    BY <2>2 DEF StartsWithCommand, fifo_get_size
  <2> QED
    BY <2>1, <2>2
<1>7. CASE fifo_get_pkt_len(f) > 0
  <2>1. f.size > 3
    BY <1>7 DEF fifo_get_pkt_len, fifo_get_size
  <2>2. /\ Pending # <<>> /\ PoppedPacket(f) = Pending[1]
        /\ AfterPop(f) \in FifoType(Byte, RxCapacity)
        /\ Framed(fifo_bytes(AfterPop(f)) \o wire, Frames(Tail(Pending)), 0)
    BY <1>2, <1>3, <1>4, <1>5, <1>7, <2>1, FrontPacket DEF Stream
  <2>3. received' = Append(received, PoppedPacket(f)) /\ serial_rx_buf' = AfterPop(f)
    BY <1>1, <1>6, <1>7 DEF recv_packet
  <2>4. n \in Nat /\ Len(sent) \in Nat /\ n < Len(sent) /\ Pending[1] = sent[n + 1]
    <3>1. Len(Pending) \in Nat /\ Len(Pending) # 0
      BY <1>4, <2>2
    <3>2. /\ Len(Pending) = Len(sent) - n
          /\ \A k \in 1 .. Len(Pending) : Pending[k] = sent[n + k]
      BY <1>2, PendingType
    <3>3. n \in Nat /\ Len(sent) \in Nat /\ 1 \in 1 .. Len(Pending)
      BY <1>2, <3>1
    <3> QED
      BY <3>1, <3>2, <3>3
  <2>5. Popped
    BY <2>2, <2>3, <2>4 DEF Popped
  <2>6. received' \in Seq(Packets) /\ Len(received') = n + 1
    <3>1. sent[n + 1] \in Packets
      BY <1>2, <2>4
    <3> QED
      BY <1>2, <2>2, <2>3, <2>4, <3>1, AppendProperties
  <2>7. Types'
    BY <1>1, <1>2, <2>2, <2>3, <2>4, <2>6 DEF Types
  <2>8. Pending' = Tail(Pending)
    <3>1. Pending' = SubSeq(sent, (n + 1) + 1, Len(sent))
      BY <1>1, <2>6 DEF Pending
    <3>2. n + 1 \in 1 .. Len(sent) /\ Len(sent) \in n + 1 .. Len(sent)
      BY <2>4
    <3>3. Tail(SubSeq(sent, n + 1, Len(sent))) = SubSeq(sent, (n + 1) + 1, Len(sent))
      BY <1>2, <3>2, HeadTailOfSubSeq
    <3> QED
      BY <3>1, <3>3 DEF Pending
  <2>9. Stream' = fifo_bytes(AfterPop(f)) \o wire
    BY <1>1, <2>3 DEF Stream, fifo_bytes, fifo_front, fifo_peek, fifo_tail_offset
  <2>10. StreamInv'
    BY <1>1, <1>2, <1>4, <1>5, <2>1, <2>2, <2>8, <2>9 DEF StreamInv
  <2> QED
    BY <1>1, <1>6, <2>5, <2>7, <2>10 DEF RxInv
<1>8. CASE ~(fifo_get_pkt_len(f) > 0)
  <2>1. received' = received /\ serial_rx_buf' = serial_rx_buf
    BY <1>1, <1>8 DEF recv_packet
  <2>2. Types'
    BY <1>1, <1>2, <2>1 DEF Types, RxInv
  <2>3. Pending' = Pending
    BY <1>1, <2>1 DEF Pending
  <2>4. Stream' = Stream
    BY <1>1, <2>1 DEF Stream, fifo_bytes, fifo_front, fifo_peek, fifo_tail_offset
  <2>5. StreamInv'
    BY <1>1, <1>3, <1>4, <2>1, <2>3, <2>4 DEF StreamInv
  <2> QED
    BY <1>1, <1>6, <2>1, <2>2, <2>5 DEF RxInv
<1> QED
  BY <1>7, <1>8

\* The other steps move neither bytes nor packets.
LEMMA QuietInv ==
  ASSUME RxInv, UNCHANGED <<wire, pkt_count, serial_rx_buf, aborted, sent, received>>
  PROVE  RxInv'
<1>1. Types'
  BY DEF RxInv, Types
<1>2. Pending' = Pending /\ Prefix' = Prefix
  BY DEF Pending, Prefix
<1>3. Stream' = Stream
  BY DEF Stream, fifo_bytes, fifo_front, fifo_peek, fifo_tail_offset
<1>4. StreamInv'
  BY <1>2, <1>3 DEF RxInv, StreamInv
<1> QED
  BY <1>1, <1>4 DEF RxInv

LEMMA NextInv ==
  ASSUME ResetRestartsSut, LengthsFit, RxInv, [Next]_vars
  PROVE  RxInv'
<1>1. ASSUME NEW p \in Packets, raw_send(p) PROVE RxInv'
  BY <1>1, SendInv
<1>2. CASE reset_device
  BY <1>2, ResetInv
<1>3. CASE ble_phy_uart_rx_char
  BY <1>3, RxCharInv
<1>4. CASE phy_task_recv_func
  BY <1>4, QuietInv DEF phy_task_recv_func
<1>5. CASE recv_packet
  BY <1>5, RecvInv
<1>6. CASE RecvDelayOver
  BY <1>6, QuietInv DEF RecvDelayOver
<1>7. CASE UNCHANGED vars
  BY <1>7, QuietInv DEF vars, bridge_vars
<1> QED
  BY <1>1, <1>2, <1>3, <1>4, <1>5, <1>6, <1>7 DEF Next, Bridge

-----------------------------------------------------------------------------
\* The requests the task pops are those the driver sent, whole, in order and none
\* twice, for any packets, capacity and bounds - with a reset command that does
\* restart the bridge (ble_phy.c:145-167, NRF52_Driver.py:89-104, 167-193).
THEOREM RequestsArrive ==
  ASSUME ResetRestartsSut, LengthsFit
  PROVE  Spec => LinkSpec
<1>1. Init => Link!Init
  BY DEF Init, Link!Init
<1>2. RxInv /\ [Next]_vars => [Link!Next]_<<sent, received>>
  <2> SUFFICES ASSUME RxInv, [Next]_vars PROVE [Link!Next]_<<sent, received>>
    OBVIOUS
  <2>1. ASSUME NEW p \in Packets, raw_send(p) PROVE Link!Send(p)
    BY <2>1 DEF raw_send, Link!Send
  <2>2. CASE reset_device
    BY <2>2 DEF reset_device, Link!Next, Link!Restart
  <2>3. CASE ble_phy_uart_rx_char
    BY <2>3 DEF ble_phy_uart_rx_char
  <2>4. CASE phy_task_recv_func
    BY <2>4 DEF phy_task_recv_func
  <2>5. CASE recv_packet
    <3>1. sent' = sent /\ (received' = received \/ Popped)
      BY <2>5, RecvInv
    <3> QED
      BY <3>1 DEF Popped, Link!Next, Link!Receive
  <2>6. CASE RecvDelayOver
    BY <2>6 DEF RecvDelayOver
  <2>7. CASE UNCHANGED vars
    BY <2>7 DEF vars
  <2> QED
    BY <2>1, <2>2, <2>3, <2>4, <2>5, <2>6, <2>7 DEF Next, Bridge, Link!Next
<1> QED
  BY InitInv, NextInv, <1>1, <1>2, PTL DEF Spec, LinkSpec, Link!Spec

LEMMA InvIntact == LengthsFit /\ RxInv => StreamIntact
<1> SUFFICES ASSUME LengthsFit, RxInv, pkt_count >= 2, ~aborted
             PROVE  fifo_bytes(serial_rx_buf) \o wire =
                      FlattenSeq([k \in 1 .. Len(sent) - Len(received) |->
                                    Frame(sent[Len(received) + k])])
  BY DEF StreamIntact
<1>1. Types /\ pkt_count \in 0 .. 3
  BY DEF RxInv, Types
<1>2. Framed(Stream, Frames(Pending), 0)
  BY <1>1 DEF RxInv, StreamInv, Prefix
<1>3. /\ Pending \in Seq(Packets) /\ Len(Pending) = Len(sent) - Len(received)
      /\ \A k \in 1 .. Len(Pending) : Pending[k] = sent[Len(received) + k]
  BY <1>1, PendingType
<1>4. Stream \in Seq(Byte)
  BY <1>1, StreamType
<1>5. Stream = FlattenSeq([k \in 1 .. Len(Pending) |-> Frame(Pending[k])])
  <2>1. Frames(Pending) \in Seq(Seq(Byte))
    BY <1>3, FramesShape
  <2>2. Stream = FlattenSeq(Frames(Pending))
    BY <1>2, <1>4, <2>1, FramedFlat
  <2> QED
    BY <2>2 DEF Frames
<1>6. [k \in 1 .. Len(Pending) |-> Frame(Pending[k])] =
        [k \in 1 .. Len(sent) - Len(received) |-> Frame(sent[Len(received) + k])]
  BY <1>3
<1> QED
  BY <1>5, <1>6 DEF Stream

\* Fifo and wire hold the frames of the packets not yet popped and nothing else,
\* whatever the interleaving of driver, UART and task.
THEOREM NothingLost ==
  ASSUME ResetRestartsSut, LengthsFit
  PROVE  Spec => []StreamIntact
<1>1. RxInv => StreamIntact
  BY InvIntact
<1> QED
  BY <1>1, InitInv, NextInv, PTL DEF Spec

-----------------------------------------------------------------------------
\* As long as the requests on their way fit into the fifo, no assert of the
\* receive path fails: the fifo is never full when a byte comes, and the byte at
\* its front is always the command of a packet (ble_phy.c:147, 380, 388).
THEOREM AssertsHold ==
  ASSUME ResetRestartsSut, LengthsFit, NEW MaxFrame \in Nat,
         \A p \in Packets : Len(Frame(p)) <= MaxFrame,
         MaxOutstanding * MaxFrame <= RxCapacity
  PROVE  Spec => []OnlyBlePacketsFollow
<1> DEFINE Inv == RxInv /\ ~aborted /\ Len(sent) - Len(received) <= MaxOutstanding
<1>0. MaxOutstanding \in Nat /\ RxCapacity \in Nat
  BY SerialRxAssumption
<1>1. Init => Inv
  <2> SUFFICES ASSUME Init PROVE Inv
    OBVIOUS
  <2>1. RxInv
    BY InitInv
  <2>2. ~aborted /\ sent = <<>> /\ received = <<>>
    BY DEF Init
  <2>3. Len(sent) - Len(received) = 0
    BY <2>2
  <2> QED
    BY <1>0, <2>1, <2>2, <2>3
<1>2. Inv /\ [Next]_vars => Inv'
  <2> SUFFICES ASSUME Inv, [Next]_vars PROVE Inv'
    OBVIOUS
  <2>1. RxInv'
    BY NextInv
  <2>2. /\ Types /\ sent \in Seq(Packets) /\ received \in Seq(Packets)
        /\ Len(sent) \in Nat /\ Len(received) \in Nat /\ Len(received) <= Len(sent)
    BY DEF RxInv, Types
  <2> SUFFICES ~aborted' /\ Len(sent') - Len(received') <= MaxOutstanding
    BY <2>1
  <2>3. ASSUME NEW p \in Packets, raw_send(p)
        PROVE  ~aborted' /\ Len(sent') - Len(received') <= MaxOutstanding
    <3>1. /\ Len(sent) - Len(received) < MaxOutstanding /\ sent' = Append(sent, p)
          /\ received' = received /\ aborted' = aborted
      BY <2>3 DEF raw_send, bridge_vars
    <3>2. Len(sent') = Len(sent) + 1
      BY <2>2, <3>1
    <3> QED
      BY <1>0, <2>2, <3>1, <3>2
  <2>4. CASE reset_device
    <3>1. ~aborted' /\ sent' = <<>> /\ received' = <<>>
      BY <2>4 DEF reset_device
    <3>2. Len(sent') - Len(received') = 0
      BY <3>1
    <3> QED
      BY <1>0, <3>1, <3>2
  <2>5. CASE ble_phy_uart_rx_char
    <3>1. UNCHANGED <<sent, received>> /\ wire # <<>>
      BY <2>5 DEF ble_phy_uart_rx_char
    <3>2. ASSUME aborted' PROVE FALSE
      <4>1. pkt_count >= 2 /\ fifo_is_full(serial_rx_buf)
        BY <2>5, <3>2, RxCharInv
      <4>2. serial_rx_buf.size = RxCapacity /\ wire \in Seq(Byte) /\ pkt_count \in 0 .. 3
        BY <2>2, <4>1 DEF Types, FifoType, fifo_is_full
      <4>3. Len(Stream) = RxCapacity + Len(wire) /\ Stream \in Seq(Byte)
        BY <2>2, <4>2, StreamType
      <4>4. Pending \in Seq(Packets) /\ Len(Pending) = Len(sent) - Len(received)
        BY <2>2, PendingType
      <4>5. Framed(Stream, Frames(Pending), 0)
        BY <4>1, <4>2 DEF RxInv, StreamInv, Prefix
      <4>6. Len(Stream) <= Len(Pending) * MaxFrame
        <5>1. /\ Frames(Pending) \in Seq(Seq(Byte))
              /\ Len(Frames(Pending)) = Len(Pending)
              /\ \A k \in 1 .. Len(Pending) : Frames(Pending)[k] = Frame(Pending[k])
          BY <4>4, FramesShape
        <5>2. \A k \in 1 .. Len(Frames(Pending)) : Len(Frames(Pending)[k]) <= MaxFrame
          BY <4>4, <5>1
        <5>3. Len(Stream) <= Len(Frames(Pending)) * MaxFrame
          BY <4>3, <4>5, <5>1, <5>2, FramedBound
        <5> QED
          BY <5>1, <5>3
      <4>7. Len(Pending) * MaxFrame <= MaxOutstanding * MaxFrame
        <5>1. Len(Pending) \in Nat /\ Len(Pending) <= MaxOutstanding
          BY <2>2, <4>4
        <5> QED
          BY <1>0, <5>1, ProductMonotonic
      <4>8. Len(wire) \in Nat /\ Len(wire) # 0
        BY <3>1, <4>2
      <4> DEFINE x == Len(Pending) * MaxFrame
                 y == MaxOutstanding * MaxFrame
                 z == Len(Stream)
                 w == Len(wire)
      <4>9. /\ x \in Int /\ y \in Int /\ z \in Int /\ w \in Nat /\ w # 0
            /\ z = RxCapacity + w /\ z <= x /\ x <= y /\ y <= RxCapacity
        BY <1>0, <2>2, <4>3, <4>4, <4>6, <4>7, <4>8
      <4> HIDE DEF x, y, z, w
      <4> QED
        BY <1>0, <4>9
    <3> QED
      BY <3>1, <3>2
  <2>6. CASE phy_task_recv_func
    BY <2>6 DEF phy_task_recv_func
  <2>7. CASE recv_packet
    <3>1. ~aborted' /\ sent' = sent /\ (received' = received \/ Popped)
      BY <2>7, RecvInv
    <3>2. CASE Popped
      <4>1. Len(received') = Len(received) + 1
        <5>1. sent[Len(received) + 1] \in Packets
          BY <2>2, <3>2 DEF Popped
        <5> QED
          BY <2>2, <3>2, <5>1, AppendProperties DEF Popped
      <4> QED
        BY <1>0, <2>2, <3>1, <4>1
    <3> QED
      BY <3>1, <3>2
  <2>8. CASE RecvDelayOver
    BY <2>8 DEF RecvDelayOver
  <2>9. CASE UNCHANGED vars
    BY <2>9 DEF vars, bridge_vars
  <2> QED
    BY <2>3, <2>4, <2>5, <2>6, <2>7, <2>8, <2>9 DEF Next, Bridge
<1>3. Inv => OnlyBlePacketsFollow
  BY DEF OnlyBlePacketsFollow
<1> HIDE DEF Inv
<1> QED
  BY <1>1, <1>2, <1>3, PTL DEF Spec

-----------------------------------------------------------------------------
\* A complete packet in the fifo always has the task on its way to it, although
\* events are coalesced: with any reset command (ble_phy.c:156-168, 390-392).
THEOREM NoPacketForgotten == Spec => []NoLostWakeup
<1>1. Init => NoLostWakeup
  BY DEF Init, NoLostWakeup, FIFO_CREATE, fifo_get_pkt_len, fifo_get_size
<1>2. NoLostWakeup /\ [Next]_vars => NoLostWakeup'
  <2> SUFFICES ASSUME NoLostWakeup, [Next]_vars PROVE NoLostWakeup'
    OBVIOUS
  <2> DEFINE Ready(f) == fifo_get_pkt_len(f) > 0
  <2>0. ASSUME serial_rx_buf' = serial_rx_buf
        PROVE  Ready(serial_rx_buf)' <=> Ready(serial_rx_buf)
    BY <2>0 DEF fifo_get_pkt_len, fifo_get_size, fifo_peek, fifo_tail_offset
  <2>1. ASSUME NEW p \in Packets, raw_send(p) PROVE NoLostWakeup'
    BY <2>0, <2>1 DEF raw_send, bridge_vars, NoLostWakeup
  <2>2. CASE reset_device
    <3>1. CASE ResetRestartsSut
      BY <2>2, <3>1 DEF reset_device, NoLostWakeup, FIFO_CREATE, fifo_get_pkt_len,
                        fifo_get_size
    <3>2. CASE ~ResetRestartsSut
      BY <2>0, <2>2, <3>2 DEF reset_device, bridge_vars, NoLostWakeup
    <3> QED
      BY <3>1, <3>2
  <2>3. CASE ble_phy_uart_rx_char
    <3>1. ~aborted /\ UNCHANGED task
      BY <2>3 DEF ble_phy_uart_rx_char
    <3>2. CASE UNCHANGED <<serial_rx_buf, ev_queued>>
      BY <2>0, <3>1, <3>2 DEF NoLostWakeup
    <3>3. CASE RxByte(Head(wire))
      <4> DEFINE g == fifo_add_byte(serial_rx_buf, Head(wire))
      <4>1. CASE fifo_is_full(serial_rx_buf)
        BY <3>3, <4>1 DEF RxByte, NoLostWakeup
      <4>2. CASE ~fifo_is_full(serial_rx_buf)
        <5>1. serial_rx_buf' = g /\ ev_queued' = (ev_queued \/ Ready(g))
          BY <3>3, <4>2 DEF RxByte
        <5> HIDE DEF g
        <5>2. Ready(serial_rx_buf)' <=> Ready(g)
          BY <5>1 DEF fifo_get_pkt_len, fifo_get_size, fifo_peek, fifo_tail_offset
        <5> HIDE DEF Ready
        <5>3. Ready(serial_rx_buf)' => ev_queued'
          BY <5>1, <5>2
        <5> QED
          BY <5>3 DEF NoLostWakeup, Ready
      <4> QED
        BY <4>1, <4>2
    <3> QED
      BY <2>3, <3>2, <3>3 DEF ble_phy_uart_rx_char
  <2>4. CASE phy_task_recv_func
    BY <2>4 DEF phy_task_recv_func, NoLostWakeup
  <2>5. CASE recv_packet
    <3>1. ~aborted /\ aborted' = ~StartsWithCommand(serial_rx_buf)
      BY <2>5 DEF recv_packet
    <3>2. CASE ~aborted' /\ Ready(serial_rx_buf)
      BY <2>5, <3>2 DEF recv_packet, NoLostWakeup
    <3>3. CASE ~(~aborted' /\ Ready(serial_rx_buf))
      <4>1. UNCHANGED serial_rx_buf
        BY <2>5, <3>3 DEF recv_packet
      <4> QED
        BY <2>0, <3>3, <4>1 DEF NoLostWakeup
    <3> QED
      BY <3>2, <3>3
  <2>6. CASE RecvDelayOver
    BY <2>6 DEF RecvDelayOver, NoLostWakeup
  <2>7. CASE UNCHANGED vars
    BY <2>0, <2>7 DEF vars, bridge_vars, NoLostWakeup
  <2> QED
    BY <2>1, <2>2, <2>3, <2>4, <2>5, <2>6, <2>7 DEF Next, Bridge
<1> QED
  BY <1>1, <1>2, PTL DEF Spec
=============================================================================
