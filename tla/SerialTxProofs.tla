--------------------------- MODULE SerialTxProofs ---------------------------
(***************************************************************************)
(* Proofs about SerialTx, for any packets, notices, capacities and bounds: *)
(* the bytes between ble_phy_tx and the mapper are always whole messages,  *)
(* of which raw_receive has read a part of the first, so it never loses    *)
(* step with them, unless a reset that restarts nothing comes amid them,   *)
(* and the fifo holds answers the mapper has not read.                     *)
(***************************************************************************)
EXTENDS SerialTx, SerialLemmas

\* ble_phy_tx writes the length of a packet into two bytes (ble_phy.c:511-514).
LengthsFit == \A p \in Packets : Len(p) < 65536

\* the commands behind which raw_receive goes on reading
Longer == {NRF52_CMD_DATA, NRF52_CMD_DATA_TX, NRF52_CMD_LOG}

\* raw_receive is done with a message when it has read its last byte
Whole(m) ==
  m # <<>> /\ IF m[1] \in Longer THEN Complete(m[1], Tail(m)) ELSE Len(m) = 1

\* A dongle's other messages follow the protocol of NRF52_Driver.py:113-158. One
\* with the command of a packet has a wrong checksum: a packet is an answer.
NoticesWhole ==
  \A n \in Notices :
    /\ Whole(n)
    /\ n[1] = NRF52_CMD_DATA => SumOf(DataOf(Tail(n))) % 256 # Last(Tail(n))

\* What is on the wire: bytes, of which the checksums are computed by a fold.
Byte == uint8 \union {SumOf(p) % 256 : p \in Packets}

-----------------------------------------------------------------------------
(* Lemmas about messages                                                   *)

\* ble_phy_tx: a command, the length and the counter in two bytes each, the
\* packet and its checksum.
LEMMA FrameShape ==
  ASSUME LengthsFit, NEW p \in Packets
  PROVE  /\ p \in Seq(uint8) /\ Len(p) \in Nat
         /\ Frame(p) \in Seq(Byte) /\ Len(Frame(p)) = Len(p) + 6
         /\ Frame(p)[1] = NRF52_CMD_DATA
         /\ Frame(p)[2] + 256 * Frame(p)[3] = Len(p)
         /\ \A k \in 1 .. Len(p) : Frame(p)[k + 5] = p[k]
         /\ Frame(p)[Len(p) + 6] = SumOf(p) % 256
<1>1. p \in Seq(uint8) /\ Len(p) \in Nat /\ Len(p) < 65536
  BY SerialTxAssumption DEF LengthsFit
<1> DEFINE n == Len(p)
           c == SumOf(p) % 256
           h == <<NRF52_CMD_DATA, n % 256, n \div 256, 0, 0>>
           t == <<c>>
           F == Frame(p)
<1>2. n % 256 \in uint8 /\ n \div 256 \in uint8 /\ (n % 256) + 256 * (n \div 256) = n
  <2>1. n \in Nat /\ n < 65536
    BY <1>1
  <2> HIDE DEF n
  <2> QED
    BY <2>1 DEF uint8
<1>3. uint8 \subseteq Byte /\ c \in Byte
  BY DEF Byte
<1> HIDE DEF c, n
<1>4. /\ h \in Seq(Byte) /\ Len(h) = 5 /\ h[1] = NRF52_CMD_DATA
      /\ h[2] = n % 256 /\ h[3] = n \div 256
  <2>1. NRF52_CMD_DATA \in Byte /\ 0 \in Byte
    BY <1>3 DEF uint8, NRF52_CMD_DATA
  <2> QED
    BY <1>2, <1>3, <2>1
<1>5. t \in Seq(Byte) /\ Len(t) = 1 /\ t[1] = c
  BY <1>3
<1>6. p \in Seq(Byte) /\ n \in Nat /\ Len(p) = n
  BY <1>1, <1>3 DEF n
<1>7. F = (h \o p) \o t
  BY DEF Frame, n, c
<1> HIDE DEF h, t, F
<1> DEFINE a == h \o p
<1>8. /\ a \in Seq(Byte) /\ Len(a) = 5 + n
      /\ \A k \in 1 .. 5 : a[k] = h[k]
      /\ \A k \in 1 .. n : a[5 + k] = p[k]
  <2>1. /\ a \in Seq(Byte) /\ Len(a) = Len(h) + Len(p)
        /\ \A k \in 1 .. Len(h) : a[k] = h[k]
        /\ \A k \in 1 .. Len(p) : a[Len(h) + k] = p[k]
    <3>1. h \in Seq(Byte) /\ p \in Seq(Byte)
      BY <1>4, <1>6
    <3> QED
      BY <3>1, ConcatIndex
  <2> HIDE DEF a
  <2> QED
    BY <1>4, <1>6, <2>1
<1>9. F = a \o t
  BY <1>7
<1> HIDE DEF a
<1>10. /\ F \in Seq(Byte) /\ Len(F) = n + 6 /\ F[n + 6] = c
       /\ \A k \in 1 .. 5 + n : F[k] = a[k]
  <2>1. /\ a \o t \in Seq(Byte) /\ Len(a \o t) = Len(a) + Len(t)
        /\ \A k \in 1 .. Len(a) : (a \o t)[k] = a[k]
        /\ \A k \in 1 .. Len(t) : (a \o t)[Len(a) + k] = t[k]
    <3>1. a \in Seq(Byte) /\ t \in Seq(Byte)
      BY <1>5, <1>8
    <3> QED
      BY <3>1, ConcatIndex
  <2>2. Len(a) + Len(t) = n + 6 /\ Len(a) + 1 = n + 6 /\ 1 \in 1 .. Len(t)
    BY <1>5, <1>6, <1>8
  <2> QED
    BY <1>5, <1>8, <1>9, <2>1, <2>2
<1>11. F[1] = h[1] /\ F[2] = h[2] /\ F[3] = h[3]
  <2>1. \A k \in 1 .. 3 : k \in 1 .. 5 /\ k \in 1 .. 5 + n
    BY <1>6
  <2> QED
    BY <1>8, <1>10, <2>1
<1>12. \A k \in 1 .. n : F[k + 5] = p[k]
  <2> TAKE k \in 1 .. n
  <2>1. 5 + k = k + 5 /\ 5 + k \in 1 .. 5 + n
    BY <1>6
  <2> QED
    BY <1>8, <1>10, <2>1
<1> QED
  BY <1>1, <1>2, <1>4, <1>6, <1>10, <1>11, <1>12 DEF n, c, F

LEMMA FrameWhole ==
  ASSUME LengthsFit, NEW p \in Packets
  PROVE  Whole(Frame(p))
<1> DEFINE F == Frame(p)
           t == Tail(F)
<1>1. /\ Len(p) \in Nat /\ F \in Seq(Byte) /\ Len(F) = Len(p) + 6
      /\ F[1] = NRF52_CMD_DATA /\ F[2] + 256 * F[3] = Len(p)
  BY FrameShape
<1> HIDE DEF F
<1>2. F # <<>>
  BY <1>1
<1>3. Len(t) = Len(p) + 5 /\ t[1] = F[2] /\ t[2] = F[3]
  <2>1. Len(t) = Len(F) - 1 /\ \A k \in 1 .. Len(t) : t[k] = F[k + 1]
    BY <1>1, <1>2, HeadTailProperties
  <2> HIDE DEF t
  <2>2. Len(t) = Len(p) + 5
    BY <1>1, <2>1
  <2>3. 1 \in 1 .. Len(t) /\ 2 \in 1 .. Len(t)
    BY <1>1, <2>2
  <2> QED
    BY <2>1, <2>2, <2>3
<1> HIDE DEF t
<1>4. Size(t) = Len(p)
  BY <1>1, <1>3 DEF Size
<1>5. Complete(NRF52_CMD_DATA, t)
  BY <1>1, <1>3, <1>4 DEF Complete, NRF52_CMD_DATA, NRF52_CMD_LOG
<1> QED
  BY <1>1, <1>2, <1>5 DEF Whole, Longer, t, F

\* raw_receive finds a message complete at its last byte and not before.
LEMMA CompleteAtEnd ==
  ASSUME NEW m \in Seq(Byte), Whole(m), m[1] \in Longer,
         NEW b \in Seq(Byte), Len(b) < Len(m), \A k \in 1 .. Len(b) : b[k] = m[k + 1]
  PROVE  /\ Len(m) >= 3
         /\ Complete(m[1], b) <=> Len(b) = Len(m) - 1
         /\ Len(b) = Len(m) - 1 => b = Tail(m)
<1> DEFINE t == Tail(m)
<1>1. /\ t \in Seq(Byte) /\ Len(t) = Len(m) - 1
      /\ \A k \in 1 .. Len(t) : t[k] = m[k + 1]
  BY HeadTailProperties DEF Whole
<1>2. Complete(m[1], t) /\ m # <<>>
  BY DEF Whole
<1> HIDE DEF t
<1>3. Len(b) \in Nat /\ Len(t) \in Nat /\ Len(m) \in Nat
  BY <1>1
<1>4. Len(t) >= 2
  BY <1>2, <1>3 DEF Complete
<1>5. Len(b) >= 2 => Size(b) = Size(t)
  <2> SUFFICES ASSUME Len(b) >= 2 PROVE Size(b) = Size(t)
    OBVIOUS
  <2>1. /\ 1 \in 1 .. Len(b) /\ 2 \in 1 .. Len(b)
        /\ 1 \in 1 .. Len(t) /\ 2 \in 1 .. Len(t)
    BY <1>3, <1>4
  <2>2. b[1] = t[1] /\ b[2] = t[2]
    BY <1>1, <2>1
  <2> QED
    BY <2>2 DEF Size
<1>6. Complete(m[1], b) <=> Len(b) = Len(t)
  <2> DEFINE x == Size(t)
  <2>1. CASE Len(b) >= 2
    <3>1. Size(b) = x
      BY <1>5, <2>1
    <3> HIDE DEF x
    <3>2. CASE m[1] = NRF52_CMD_LOG
      <4>1. Len(t) = 2 + x
        BY <1>2, <3>2 DEF Complete, x
      <4> QED
        BY <2>1, <3>1, <3>2, <4>1 DEF Complete
    <3>3. CASE m[1] # NRF52_CMD_LOG
      <4>1. Len(t) >= 4 /\ Len(t) = 4 + x + 1
        BY <1>2, <3>3 DEF Complete, x
      <4>2. Complete(m[1], b) <=> Len(b) >= 4 /\ Len(b) = 4 + x + 1
        BY <3>1, <3>3 DEF Complete
      <4> QED
        BY <4>1, <4>2
    <3> QED
      BY <3>2, <3>3
  <2>2. CASE ~(Len(b) >= 2)
    BY <1>3, <1>4, <2>2 DEF Complete
  <2> QED
    BY <2>1, <2>2
<1>7. Len(b) = Len(t) => b = t
  <2> SUFFICES ASSUME Len(b) = Len(t) PROVE b = t
    OBVIOUS
  <2>1. \A k \in 1 .. Len(b) : b[k] = t[k]
    BY <1>1
  <2> QED
    BY <1>1, <2>1, SeqEqual
<1>8. Len(m) >= 3 /\ (Len(b) = Len(t) <=> Len(b) = Len(m) - 1)
  BY <1>1, <1>3, <1>4
<1> QED
  BY <1>6, <1>7, <1>8 DEF t

\* What raw_receive returns of a frame is its packet, and the checksum is right.
LEMMA FrameData ==
  ASSUME LengthsFit, NEW p \in Packets
  PROVE  /\ DataOf(Tail(Frame(p))) = p
         /\ Last(Tail(Frame(p))) = SumOf(p) % 256
<1> DEFINE F == Frame(p)
           n == Len(p)
           t == Tail(F)
           d == SubSeq(t, 5, n + 4)
<1>1. /\ p \in Seq(uint8) /\ n \in Nat /\ F \in Seq(Byte) /\ Len(F) = n + 6
      /\ \A k \in 1 .. n : F[k + 5] = p[k]
      /\ F[n + 6] = SumOf(p) % 256
  BY FrameShape
<1> HIDE DEF F
<1>2. F # <<>>
  BY <1>1
<1>3. t \in Seq(Byte) /\ Len(t) = n + 5 /\ \A k \in 1 .. n + 5 : t[k] = F[k + 1]
  <2>1. t \in Seq(Byte) /\ Len(t) = Len(F) - 1 /\ \A k \in 1 .. Len(t) : t[k] = F[k + 1]
    BY <1>1, <1>2, HeadTailProperties
  <2> HIDE DEF t, n
  <2>2. Len(t) = n + 5
    BY <1>1, <2>1
  <2> QED
    BY <2>1, <2>2
<1> HIDE DEF t
<1>4. Last(t) = SumOf(p) % 256
  <2>1. n + 5 \in 1 .. n + 5 /\ (n + 5) + 1 = n + 6
    BY <1>1
  <2>2. t[n + 5] = F[n + 6]
    BY <1>3, <2>1
  <2> QED
    BY <1>1, <1>3, <2>2 DEF Last
<1>5. DataOf(t) = d
  <2>1. Len(t) - 1 = n + 4
    BY <1>1, <1>3
  <2> QED
    BY <2>1 DEF DataOf
<1>6. d = p
  <2>1. p \in Seq(Byte) /\ Len(p) = n
    BY <1>1 DEF Byte
  <2> HIDE DEF n
  <2>2. \A k \in 5 .. n + 4 : t[k] \in Byte
    <3> TAKE k \in 5 .. n + 4
    <3>1. k \in 1 .. Len(t)
      BY <1>1, <1>3
    <3> QED
      BY <1>3, <3>1
  <2>3. /\ d \in Seq(Byte) /\ Len(d) = IF 5 <= n + 4 THEN n + 4 - 5 + 1 ELSE 0
        /\ \A k \in 1 .. n + 4 - 5 + 1 : d[k] = t[5 + k - 1]
    BY <1>1, <2>2, SubSeqProperties
  <2> HIDE DEF d
  <2>4. Len(d) = n
    BY <1>1, <2>3
  <2>5. \A k \in 1 .. n : d[k] = p[k]
    <3> TAKE k \in 1 .. n
    <3>1. /\ k \in 1 .. n + 4 - 5 + 1 /\ 5 + k - 1 = k + 4 /\ k + 4 \in 1 .. n + 5
          /\ (k + 4) + 1 = k + 5
      BY <1>1
    <3> QED
      BY <1>1, <1>3, <2>3, <3>1
  <2> QED
    BY <2>1, <2>3, <2>4, <2>5, SeqEqual
<1> QED
  BY <1>4, <1>5, <1>6 DEF t, F

-----------------------------------------------------------------------------
(* Lemmas about messages and answers not yet read                          *)

\* the frames of the answers behind the first i, and how many bytes they are
Behind(s, i) == [k \in 1 .. Len(s) - i |-> Frame(s[i + k])]
Rest(s, i) == Len(FlattenSeq(Behind(s, i)))

\* how many bytes the messages behind the first k are
Left(ms, k) == Len(FlattenSeq(SubSeq(ms, k + 1, Len(ms))))

LEMMA RestAppend ==
  ASSUME LengthsFit, NEW s \in Seq(Packets), NEW i \in 0 .. Len(s)
  PROVE  /\ Behind(s, i) \in Seq(Seq(Byte)) /\ Rest(s, i) \in Nat
         /\ \A p \in Packets : Rest(Append(s, p), i) = Rest(s, i) + Len(Frame(p))
<1>1. Len(s) \in Nat /\ i \in Nat /\ Len(s) - i \in Nat
  OBVIOUS
<1>2. Behind(s, i) \in Seq(Seq(Byte)) /\ Len(Behind(s, i)) = Len(s) - i
      /\ \A k \in 1 .. Len(s) - i : Behind(s, i)[k] = Frame(s[i + k])
  <2>1. \A k \in 1 .. Len(s) - i : Frame(s[i + k]) \in Seq(Byte)
    <3> TAKE k \in 1 .. Len(s) - i
    <3>1. i + k \in 1 .. Len(s)
      BY <1>1
    <3>2. s[i + k] \in Packets
      BY <3>1
    <3> QED
      BY <3>2, FrameShape
  <2> QED
    BY <1>1, <2>1 DEF Behind
<1>3. FlattenSeq(Behind(s, i)) \in Seq(Byte)
  BY <1>2, FlatFramed
<1>4. ASSUME NEW p \in Packets
      PROVE  Rest(Append(s, p), i) = Rest(s, i) + Len(Frame(p))
  <2> DEFINE b == Behind(s, i)
             x == Behind(Append(s, p), i)
             y == Append(b, Frame(p))
             n == Len(s) - i
  <2>1. Frame(p) \in Seq(Byte)
    BY FrameShape
  <2>2. /\ Len(Append(s, p)) = Len(s) + 1 /\ Append(s, p)[Len(s) + 1] = p
        /\ \A k \in 1 .. Len(s) : Append(s, p)[k] = s[k]
    OBVIOUS
  <2>3. Len(s) + 1 - i = n + 1 /\ n \in Nat
    BY <1>1
  <2>4. x = [k \in 1 .. n + 1 |-> Frame(Append(s, p)[i + k])]
    BY <2>2, <2>3 DEF Behind
  <2>5. /\ b \in Seq(Seq(Byte)) /\ Len(b) = n
        /\ \A k \in 1 .. n : b[k] = Frame(s[i + k])
    BY <1>2
  <2> HIDE DEF b
  <2>6. /\ y = [k \in 1 .. n + 1 |-> y[k]] /\ y[n + 1] = Frame(p)
        /\ \A k \in 1 .. n : y[k] = b[k]
    <3>1. /\ y \in Seq(Seq(Byte)) /\ Len(y) = n + 1 /\ y[n + 1] = Frame(p)
          /\ \A k \in 1 .. n : y[k] = b[k]
      BY <2>1, <2>5, AppendProperties
    <3> HIDE DEF y
    <3>2. y = [k \in 1 .. n + 1 |-> y[k]]
      BY <3>1
    <3> QED
      BY <3>1, <3>2
  <2> HIDE DEF x, y
  <2>7. \A k \in 1 .. n + 1 : y[k] = Frame(Append(s, p)[i + k])
    <3> TAKE k \in 1 .. n + 1
    <3>1. CASE k \in 1 .. n
      <4>1. i + k \in 1 .. Len(s)
        BY <1>1, <3>1
      <4> QED
        BY <2>2, <2>5, <2>6, <3>1, <4>1
    <3>2. CASE k = n + 1
      <4>1. i + k = Len(s) + 1
        BY <1>1, <3>2
      <4> QED
        BY <2>2, <2>6, <3>2, <4>1
    <3> QED
      BY <2>3, <3>1, <3>2
  <2>8. x = y
    <3>1. y = [k \in 1 .. n + 1 |-> Frame(Append(s, p)[i + k])]
      BY <2>6, <2>7
    <3> QED
      BY <2>4, <3>1
  <2>9. FlattenSeq(y) = FlattenSeq(b) \o Frame(p)
    BY <2>1, <2>5, FlattenAppend DEF y
  <2>10. FlattenSeq(b) \in Seq(Byte)
    BY <1>3 DEF b
  <2>11. Len(FlattenSeq(b) \o Frame(p)) = Len(FlattenSeq(b)) + Len(Frame(p))
    BY <2>1, <2>10, ConcatProperties
  <2> QED
    BY <2>8, <2>9, <2>11 DEF Rest, x, b
<1> QED
  BY <1>2, <1>3, <1>4 DEF Rest

LEMMA LeftType ==
  ASSUME NEW ms \in Seq(Seq(Byte)), NEW k \in 0 .. Len(ms)
  PROVE  /\ SubSeq(ms, k + 1, Len(ms)) \in Seq(Seq(Byte)) /\ Left(ms, k) \in Nat
         /\ k = Len(ms) => Left(ms, k) = 0
<1> DEFINE r == SubSeq(ms, k + 1, Len(ms))
<1>1. Len(ms) \in Nat /\ k \in Nat
  OBVIOUS
<1>2. r \in Seq(Seq(Byte)) /\ Len(r) = IF k + 1 <= Len(ms) THEN Len(ms) - (k + 1) + 1 ELSE 0
  <2>1. \A j \in k + 1 .. Len(ms) : ms[j] \in Seq(Byte)
    BY <1>1
  <2> QED
    BY <1>1, <2>1, SubSeqProperties
<1> HIDE DEF r
<1>3. FlattenSeq(r) \in Seq(Byte)
  BY <1>2, FlatFramed
<1>4. ASSUME k = Len(ms) PROVE Len(FlattenSeq(r)) = 0
  <2>1. Len(r) = 0
    BY <1>1, <1>2, <1>4
  <2>2. r = <<>>
    BY <1>2, <2>1
  <2>3. FlattenSeq(<<>>) = <<>>
    BY DEF FlattenSeq
  <2> QED
    BY <2>2, <2>3
<1> QED
  BY <1>2, <1>3, <1>4 DEF Left, r

LEMMA LeftAppend ==
  ASSUME NEW ms \in Seq(Seq(Byte)), NEW F \in Seq(Byte), NEW k \in 0 .. Len(ms)
  PROVE  Left(Append(ms, F), k) = Left(ms, k) + Len(F)
<1> DEFINE r == SubSeq(ms, k + 1, Len(ms))
<1>1. r \in Seq(Seq(Byte))
  BY LeftType
<1>2. SubSeq(Append(ms, F), k + 1, Len(Append(ms, F))) = Append(r, F)
  <2>1. <<F>> \in Seq(Seq(Byte))
    OBVIOUS
  <2>2. r \o <<F>> = SubSeq(ms \o <<F>>, k + 1, Len(ms \o <<F>>))
    BY <2>1, DropFromStream
  <2>3. Append(r, F) = r \o <<F>> /\ Append(ms, F) = ms \o <<F>>
    BY <1>1, AppendIsConcat
  <2> QED
    BY <2>2, <2>3
<1>3. FlattenSeq(Append(r, F)) = FlattenSeq(r) \o F /\ FlattenSeq(r) \in Seq(Byte)
  BY <1>1, FlattenAppend, FlatFramed
<1>4. Len(FlattenSeq(r) \o F) = Len(FlattenSeq(r)) + Len(F)
  BY <1>3, ConcatProperties
<1> QED
  BY <1>2, <1>3, <1>4 DEF Left

LEMMA LeftTail ==
  ASSUME NEW ms \in Seq(Seq(Byte)), ms # <<>>, NEW k \in 0 .. Len(ms) - 1
  PROVE  Left(Tail(ms), k) = Left(ms, k + 1)
<1> DEFINE n == Len(ms)
           t == Tail(ms)
           x == SubSeq(t, k + 1, n - 1)
           y == SubSeq(ms, k + 2, n)
<1>1. n \in Nat \ {0} /\ k \in Nat /\ k <= n - 1
  OBVIOUS
<1>2. t \in Seq(Seq(Byte)) /\ Len(t) = n - 1 /\ \A j \in 1 .. n - 1 : t[j] = ms[j + 1]
  BY HeadTailProperties
<1>3. ms \in Seq(Seq(Byte)) /\ Len(ms) = n
  OBVIOUS
<1> HIDE DEF t, n
<1>4. x = y
  <2>1. /\ \A j \in k + 1 .. n - 1 : t[j] \in Seq(Byte)
        /\ \A j \in k + 2 .. n : ms[j] \in Seq(Byte)
    BY <1>1, <1>2, <1>3
  <2> DEFINE l == n - 1 - k
  <2>2. /\ x \in Seq(Seq(Byte))
        /\ Len(x) = IF k + 1 <= n - 1 THEN n - 1 - (k + 1) + 1 ELSE 0
        /\ \A j \in 1 .. n - 1 - (k + 1) + 1 : x[j] = t[k + 1 + j - 1]
    BY <1>1, <2>1, SubSeqProperties
  <2>3. /\ y \in Seq(Seq(Byte))
        /\ Len(y) = IF k + 2 <= n THEN n - (k + 2) + 1 ELSE 0
        /\ \A j \in 1 .. n - (k + 2) + 1 : y[j] = ms[k + 2 + j - 1]
    BY <1>1, <2>1, SubSeqProperties
  <2> HIDE DEF x, y
  <2>4. Len(x) = l /\ Len(y) = l
    BY <1>1, <2>2, <2>3
  <2>5. \A j \in 1 .. l : x[j] = y[j]
    <3> TAKE j \in 1 .. l
    <3>1. /\ j \in 1 .. n - 1 - (k + 1) + 1 /\ j \in 1 .. n - (k + 2) + 1
          /\ k + 1 + j - 1 = k + j /\ k + 2 + j - 1 = (k + j) + 1 /\ k + j \in 1 .. n - 1
      BY <1>1
    <3> QED
      BY <1>2, <2>2, <2>3, <3>1
  <2> QED
    BY <2>2, <2>3, <2>4, <2>5, SeqEqual
<1>5. k + 2 = (k + 1) + 1
  OBVIOUS
<1> QED
  BY <1>2, <1>3, <1>4, <1>5 DEF Left, t

-----------------------------------------------------------------------------
(* Messages and the answers they stand for                                 *)

\* Among the messages ms are the frames of the answers s behind the answers r,
\* in order; the others are notices.  cnt[k] is the number of answers up to the
\* k-th message.  The last z bytes are of answers only: behind each message there
\* are z bytes of answers, or nothing but answers.
Marks(ms, r, s, z, cnt) ==
  /\ cnt[0] = Len(r) /\ cnt[Len(ms)] = Len(s)
  /\ \A k \in 0 .. Len(ms) :
       /\ cnt[k] <= Len(s)
       /\ z <= Rest(s, cnt[k]) \/ Left(ms, k) <= Rest(s, cnt[k])
  /\ \A k \in 1 .. Len(ms) :
       \/ cnt[k] = cnt[k - 1] /\ ms[k] \in Notices
       \/ cnt[k] = cnt[k - 1] + 1 /\ ms[k] = Frame(s[cnt[k]])

Marked(ms, r, s, z) == \E cnt \in [0 .. Len(ms) -> Nat] : Marks(ms, r, s, z, cnt)

LEMMA MarkedEmpty == Marked(<<>>, <<>>, <<>>, 0)
<1> DEFINE cnt == [k \in 0 .. 0 |-> 0]
<1>1. Len(<<>>) = 0 /\ 1 .. 0 = {} /\ \A k \in 0 .. 0 : k = 0
  OBVIOUS
<1>2. Left(<<>>, 0) = 0
  <2>1. <<>> \in Seq(Seq(Byte)) /\ 0 \in 0 .. Len(<<>>)
    BY <1>1
  <2> QED
    BY <1>1, <2>1, LeftType
<1>3. Rest(<<>>, 0) = 0
  <2>1. Behind(<<>>, 0) = <<>>
    BY <1>1 DEF Behind
  <2>2. FlattenSeq(<<>>) = <<>>
    BY DEF FlattenSeq
  <2> QED
    BY <1>1, <2>1, <2>2 DEF Rest
<1>4. cnt \in [0 .. Len(<<>>) -> Nat] /\ cnt[0] = 0
  BY <1>1
<1> HIDE DEF cnt
<1>5. Marks(<<>>, <<>>, <<>>, 0, cnt)
  BY <1>1, <1>2, <1>3, <1>4 DEF Marks
<1> QED
  BY <1>4, <1>5 DEF Marked

\* An answer sent: it is behind everything else.
LEMMA MarkedSend ==
  ASSUME LengthsFit, NEW ms \in Seq(Seq(Byte)), NEW r \in Seq(Packets),
         NEW s \in Seq(Packets), NEW z \in Nat, Marked(ms, r, s, z), NEW p \in Packets
  PROVE  Marked(Append(ms, Frame(p)), r, Append(s, p), z + Len(Frame(p)))
<1> DEFINE n == Len(ms)
           F == Frame(p)
           ms1 == Append(ms, F)
           s1 == Append(s, p)
<1>1. PICK cnt \in [0 .. n -> Nat] : Marks(ms, r, s, z, cnt)
  BY DEF Marked
<1> DEFINE cnt1 == [k \in 0 .. n + 1 |-> IF k <= n THEN cnt[k] ELSE Len(s) + 1]
<1>2. n \in Nat /\ Len(s) \in Nat /\ Len(r) \in Nat
  OBVIOUS
<1>3. F \in Seq(Byte) /\ Len(F) \in Nat
  BY FrameShape
<1> HIDE DEF F
<1>4. /\ ms1 \in Seq(Seq(Byte)) /\ Len(ms1) = n + 1 /\ ms1[n + 1] = F
      /\ \A k \in 1 .. n : ms1[k] = ms[k]
  BY <1>3, AppendProperties
<1>5. /\ s1 \in Seq(Packets) /\ Len(s1) = Len(s) + 1 /\ s1[Len(s) + 1] = p
      /\ \A k \in 1 .. Len(s) : s1[k] = s[k]
  BY AppendProperties
<1>6. /\ cnt[0] = Len(r) /\ cnt[n] = Len(s)
      /\ \A k \in 0 .. n :
           /\ cnt[k] <= Len(s)
           /\ z <= Rest(s, cnt[k]) \/ Left(ms, k) <= Rest(s, cnt[k])
      /\ \A k \in 1 .. n :
           \/ cnt[k] = cnt[k - 1] /\ ms[k] \in Notices
           \/ cnt[k] = cnt[k - 1] + 1 /\ ms[k] = Frame(s[cnt[k]])
  BY <1>1 DEF Marks
<1> HIDE DEF n, ms1, s1
<1>7. /\ cnt1 \in [0 .. n + 1 -> Nat] /\ cnt1[n + 1] = Len(s) + 1
      /\ \A k \in 0 .. n : cnt1[k] = cnt[k]
  <2>1. n + 1 \in 0 .. n + 1 /\ ~(n + 1 <= n) /\ Len(s) + 1 \in Nat
    BY <1>2
  <2>2. \A k \in 0 .. n : k \in 0 .. n + 1 /\ k <= n
    BY <1>2
  <2> QED
    BY <1>1, <2>1, <2>2
<1> HIDE DEF cnt1
<1>8. ASSUME NEW k \in 0 .. n
      PROVE  /\ cnt1[k] <= Len(s1)
             /\ \/ z + Len(F) <= Rest(s1, cnt1[k])
                \/ Left(ms1, k) <= Rest(s1, cnt1[k])
  <2>1. cnt[k] \in 0 .. Len(s) /\ cnt1[k] = cnt[k]
    BY <1>2, <1>6, <1>7
  <2> DEFINE a == Rest(s, cnt[k])
             b == Left(ms, k)
  <2>2. Rest(s1, cnt[k]) = a + Len(F) /\ a \in Nat
    BY <2>1, RestAppend DEF s1, F
  <2>3. Left(ms1, k) = b + Len(F) /\ b \in Nat
    BY <1>3, LeftAppend, LeftType DEF n, ms1
  <2>4. z <= a \/ b <= a
    BY <1>6
  <2> HIDE DEF a, b
  <2>5. z + Len(F) <= a + Len(F) \/ b + Len(F) <= a + Len(F)
    BY <1>3, <2>2, <2>3, <2>4
  <2>6. cnt1[k] <= Len(s1)
    BY <1>2, <1>5, <2>1
  <2> QED
    BY <2>1, <2>2, <2>3, <2>5, <2>6
<1>9. /\ cnt1[n + 1] <= Len(s1)
      /\ \/ z + Len(F) <= Rest(s1, cnt1[n + 1])
         \/ Left(ms1, n + 1) <= Rest(s1, cnt1[n + 1])
  <2>1. n + 1 \in 0 .. Len(ms1) /\ Len(s) + 1 \in 0 .. Len(s1) /\ n + 1 = Len(ms1)
    BY <1>2, <1>4, <1>5
  <2>2. Left(ms1, n + 1) = 0
    BY <1>4, <2>1, LeftType
  <2>3. Rest(s1, Len(s) + 1) \in Nat
    BY <1>5, <2>1, RestAppend
  <2> QED
    BY <1>2, <1>5, <1>7, <2>2, <2>3
<1>10. ASSUME NEW k \in 1 .. n + 1
       PROVE  \/ cnt1[k] = cnt1[k - 1] /\ ms1[k] \in Notices
              \/ cnt1[k] = cnt1[k - 1] + 1 /\ ms1[k] = Frame(s1[cnt1[k]])
  <2>1. CASE k \in 1 .. n
    <3>1. k \in 0 .. n /\ k - 1 \in 0 .. n
      BY <1>2, <2>1
    <3>2. cnt1[k] = cnt[k] /\ cnt1[k - 1] = cnt[k - 1] /\ ms1[k] = ms[k]
      BY <1>4, <1>7, <2>1, <3>1
    <3>3. CASE cnt[k] = cnt[k - 1] /\ ms[k] \in Notices
      BY <3>2, <3>3
    <3>4. CASE cnt[k] = cnt[k - 1] + 1 /\ ms[k] = Frame(s[cnt[k]])
      <4>1. cnt[k - 1] \in Nat /\ cnt[k] <= Len(s) /\ cnt[k] \in Nat
        BY <1>1, <1>6, <3>1
      <4>2. cnt[k] \in 1 .. Len(s)
        BY <1>2, <3>4, <4>1
      <4> QED
        BY <1>5, <3>2, <3>4, <4>2
    <3> QED
      BY <1>6, <2>1, <3>3, <3>4
  <2>2. CASE k = n + 1
    <3>1. k - 1 = n /\ n \in 0 .. n
      BY <1>2, <2>2
    <3>2. cnt1[k] = Len(s) + 1 /\ cnt1[k - 1] = Len(s)
      BY <1>6, <1>7, <2>2, <3>1
    <3> QED
      BY <1>4, <1>5, <2>2, <3>2 DEF F
  <2> QED
    BY <1>2, <2>1, <2>2
<1>11. Marks(ms1, r, s1, z + Len(F), cnt1)
  <2>1. cnt1[0] = Len(r)
    <3>1. 0 \in 0 .. n
      BY <1>2
    <3> QED
      BY <1>6, <1>7, <3>1
  <2>2. cnt1[n + 1] = Len(s1)
    BY <1>5, <1>7
  <2>3. \A k \in 0 .. n + 1 :
          /\ cnt1[k] <= Len(s1)
          /\ \/ z + Len(F) <= Rest(s1, cnt1[k])
             \/ Left(ms1, k) <= Rest(s1, cnt1[k])
    <3>1. \A k \in 0 .. n + 1 : k \in 0 .. n \/ k = n + 1
      BY <1>2
    <3> QED
      BY <1>8, <1>9, <3>1
  <2> QED
    BY <1>4, <1>10, <2>1, <2>2, <2>3 DEF Marks
<1> QED
  BY <1>4, <1>7, <1>11 DEF Marked, ms1, s1, F

\* A notice: it comes when there is nothing in the fifo.
LEMMA MarkedNotice ==
  ASSUME LengthsFit, NEW ms \in Seq(Seq(Byte)), NEW r \in Seq(Packets),
         NEW s \in Seq(Packets), NEW z, Marked(ms, r, s, z),
         NEW m \in Notices, m \in Seq(Byte)
  PROVE  Marked(Append(ms, m), r, s, 0)
<1> DEFINE n == Len(ms)
           ms1 == Append(ms, m)
<1>1. PICK cnt \in [0 .. n -> Nat] : Marks(ms, r, s, z, cnt)
  BY DEF Marked
<1> DEFINE cnt1 == [k \in 0 .. n + 1 |-> IF k <= n THEN cnt[k] ELSE Len(s)]
<1>2. n \in Nat /\ Len(s) \in Nat
  OBVIOUS
<1>3. /\ ms1 \in Seq(Seq(Byte)) /\ Len(ms1) = n + 1 /\ ms1[n + 1] = m
      /\ \A k \in 1 .. n : ms1[k] = ms[k]
  BY AppendProperties
<1>4. /\ cnt[0] = Len(r) /\ cnt[n] = Len(s)
      /\ \A k \in 0 .. n : cnt[k] <= Len(s)
      /\ \A k \in 1 .. n :
           \/ cnt[k] = cnt[k - 1] /\ ms[k] \in Notices
           \/ cnt[k] = cnt[k - 1] + 1 /\ ms[k] = Frame(s[cnt[k]])
  BY <1>1 DEF Marks
<1> HIDE DEF n, ms1
<1>5. /\ cnt1 \in [0 .. n + 1 -> Nat] /\ cnt1[n + 1] = Len(s)
      /\ \A k \in 0 .. n : cnt1[k] = cnt[k]
  <2>1. n + 1 \in 0 .. n + 1 /\ ~(n + 1 <= n)
    BY <1>2
  <2>2. \A k \in 0 .. n : k \in 0 .. n + 1 /\ k <= n
    BY <1>2
  <2> QED
    BY <1>1, <1>2, <2>1, <2>2
<1> HIDE DEF cnt1
<1>6. ASSUME NEW k \in 0 .. n + 1
      PROVE  cnt1[k] <= Len(s) /\ 0 <= Rest(s, cnt1[k])
  <2>1. cnt1[k] \in 0 .. Len(s)
    <3>1. k \in 0 .. n \/ k = n + 1
      BY <1>2
    <3> QED
      BY <1>2, <1>4, <1>5, <3>1
  <2>2. Rest(s, cnt1[k]) \in Nat
    BY <2>1, RestAppend
  <2> QED
    BY <1>2, <2>1, <2>2
<1>7. ASSUME NEW k \in 1 .. n + 1
      PROVE  \/ cnt1[k] = cnt1[k - 1] /\ ms1[k] \in Notices
             \/ cnt1[k] = cnt1[k - 1] + 1 /\ ms1[k] = Frame(s[cnt1[k]])
  <2>1. CASE k \in 1 .. n
    <3>1. k \in 0 .. n /\ k - 1 \in 0 .. n
      BY <1>2, <2>1
    <3> QED
      BY <1>3, <1>4, <1>5, <2>1, <3>1
  <2>2. CASE k = n + 1
    <3>1. k - 1 = n /\ n \in 0 .. n
      BY <1>2, <2>2
    <3> QED
      BY <1>3, <1>4, <1>5, <2>2, <3>1
  <2> QED
    BY <1>2, <2>1, <2>2
<1>8. Marks(ms1, r, s, 0, cnt1)
  <2>1. cnt1[0] = Len(r)
    <3>1. 0 \in 0 .. n
      BY <1>2
    <3> QED
      BY <1>4, <1>5, <3>1
  <2> QED
    BY <1>3, <1>5, <1>6, <1>7, <2>1 DEF Marks
<1> QED
  BY <1>3, <1>5, <1>8 DEF Marked, ms1

\* The UART has taken bytes from the fifo.
LEMMA MarkedLess ==
  ASSUME LengthsFit, NEW ms \in Seq(Seq(Byte)), NEW r \in Seq(Packets),
         NEW s \in Seq(Packets), NEW z \in Nat, NEW y \in Nat, y <= z, Marked(ms, r, s, z)
  PROVE  Marked(ms, r, s, y)
<1>1. PICK cnt \in [0 .. Len(ms) -> Nat] : Marks(ms, r, s, z, cnt)
  BY DEF Marked
<1>2. ASSUME NEW k \in 0 .. Len(ms)
      PROVE  y <= Rest(s, cnt[k]) \/ Left(ms, k) <= Rest(s, cnt[k])
  <2>1. cnt[k] \in 0 .. Len(s)
    <3>1. cnt[k] \in Nat /\ Len(s) \in Nat
      BY <1>1
    <3>2. cnt[k] <= Len(s)
      BY <1>1 DEF Marks
    <3> QED
      BY <3>1, <3>2
  <2>2. Rest(s, cnt[k]) \in Nat
    BY <2>1, RestAppend
  <2>3. z <= Rest(s, cnt[k]) \/ Left(ms, k) <= Rest(s, cnt[k])
    BY <1>1 DEF Marks
  <2> QED
    BY <2>2, <2>3
<1>3. Marks(ms, r, s, y, cnt)
  BY <1>1, <1>2 DEF Marks
<1> QED
  BY <1>3 DEF Marked

\* The first message read: it is a notice, or the oldest answer not yet read.
LEMMA MarkedPop ==
  ASSUME NEW ms \in Seq(Seq(Byte)), NEW r \in Seq(Packets),
         NEW s \in Seq(Packets), NEW z, Marked(ms, r, s, z), ms # <<>>
  PROVE  \/ ms[1] \in Notices /\ Marked(Tail(ms), r, s, z)
         \/ /\ Len(r) < Len(s) /\ ms[1] = Frame(s[Len(r) + 1])
            /\ Marked(Tail(ms), Append(r, s[Len(r) + 1]), s, z)
<1> DEFINE n == Len(ms)
           t == Tail(ms)
<1>1. PICK cnt \in [0 .. n -> Nat] : Marks(ms, r, s, z, cnt)
  BY DEF Marked
<1> DEFINE cnt1 == [k \in 0 .. n - 1 |-> cnt[k + 1]]
<1>2. n \in Nat \ {0} /\ Len(s) \in Nat /\ Len(r) \in Nat
  OBVIOUS
<1>3. t \in Seq(Seq(Byte)) /\ Len(t) = n - 1 /\ \A k \in 1 .. n - 1 : t[k] = ms[k + 1]
  BY HeadTailProperties
<1>4. /\ cnt[0] = Len(r) /\ cnt[n] = Len(s)
      /\ \A k \in 0 .. n :
           /\ cnt[k] <= Len(s)
           /\ z <= Rest(s, cnt[k]) \/ Left(ms, k) <= Rest(s, cnt[k])
      /\ \A k \in 1 .. n :
           \/ cnt[k] = cnt[k - 1] /\ ms[k] \in Notices
           \/ cnt[k] = cnt[k - 1] + 1 /\ ms[k] = Frame(s[cnt[k]])
  BY <1>1 DEF Marks
<1>5. \A k \in 0 .. n - 1 : Left(t, k) = Left(ms, k + 1)
  BY LeftTail
<1> HIDE DEF n, t
<1>6. /\ cnt1 \in [0 .. n - 1 -> Nat] /\ \A k \in 0 .. n - 1 : cnt1[k] = cnt[k + 1]
      /\ \A k \in 0 .. n - 1 : k + 1 \in 0 .. n /\ k + 1 \in 1 .. n
  <2>1. \A k \in 0 .. n - 1 : k + 1 \in 0 .. n /\ k + 1 \in 1 .. n
    BY <1>2
  <2> QED
    BY <1>1, <2>1
<1> HIDE DEF cnt1
<1>7. ASSUME NEW q \in Seq(Packets), Len(q) = cnt[1] PROVE Marked(t, q, s, z)
  <2>1. 0 \in 0 .. n - 1 /\ n - 1 \in 0 .. n - 1 /\ 0 + 1 = 1 /\ (n - 1) + 1 = n
    BY <1>2
  <2>2. cnt1[0] = Len(q) /\ cnt1[n - 1] = Len(s)
    BY <1>4, <1>6, <1>7, <2>1
  <2>3. \A k \in 0 .. n - 1 :
          /\ cnt1[k] <= Len(s)
          /\ z <= Rest(s, cnt1[k]) \/ Left(t, k) <= Rest(s, cnt1[k])
    BY <1>4, <1>5, <1>6
  <2>4. ASSUME NEW k \in 1 .. n - 1
        PROVE  \/ cnt1[k] = cnt1[k - 1] /\ t[k] \in Notices
               \/ cnt1[k] = cnt1[k - 1] + 1 /\ t[k] = Frame(s[cnt1[k]])
    <3>1. /\ k \in 0 .. n - 1 /\ k - 1 \in 0 .. n - 1 /\ (k - 1) + 1 = k
          /\ (k + 1) - 1 = k /\ k + 1 \in 1 .. n
      BY <1>2
    <3>2. cnt1[k] = cnt[k + 1] /\ cnt1[k - 1] = cnt[k] /\ t[k] = ms[k + 1]
      BY <1>3, <1>6, <3>1
    <3>3. \/ cnt[k + 1] = cnt[k] /\ ms[k + 1] \in Notices
          \/ cnt[k + 1] = cnt[k] + 1 /\ ms[k + 1] = Frame(s[cnt[k + 1]])
      BY <1>4, <3>1
    <3> QED
      BY <3>2, <3>3
  <2>5. Marks(t, q, s, z, cnt1)
    BY <1>3, <2>2, <2>3, <2>4 DEF Marks
  <2> QED
    BY <1>3, <1>6, <2>5 DEF Marked
<1>8. 1 \in 1 .. n /\ 1 \in 0 .. n /\ 1 - 1 = 0
  BY <1>2
<1>9. CASE cnt[1] = cnt[0] /\ ms[1] \in Notices
  BY <1>4, <1>7, <1>9 DEF t
<1>10. CASE cnt[1] = cnt[0] + 1 /\ ms[1] = Frame(s[cnt[1]])
  <2>1. cnt[1] = Len(r) + 1 /\ Len(r) < Len(s)
    BY <1>2, <1>4, <1>8, <1>10
  <2>2. s[Len(r) + 1] \in Packets
    BY <1>2, <2>1
  <2>3. Append(r, s[Len(r) + 1]) \in Seq(Packets)
        /\ Len(Append(r, s[Len(r) + 1])) = Len(r) + 1
    BY <2>2, AppendProperties
  <2> QED
    BY <1>7, <1>10, <2>1, <2>3 DEF t
<1> QED
  BY <1>4, <1>8, <1>9, <1>10

\* No more bytes are marked than there are of answers not yet read.
LEMMA MarkedBound ==
  ASSUME LengthsFit, NEW ms \in Seq(Seq(Byte)), NEW r \in Seq(Packets),
         NEW s \in Seq(Packets), Len(r) <= Len(s), NEW z \in Nat, Marked(ms, r, s, z),
         z <= Len(FlattenSeq(ms))
  PROVE  z <= Rest(s, Len(r)) /\ Rest(s, Len(r)) \in Nat
<1>1. PICK cnt \in [0 .. Len(ms) -> Nat] : Marks(ms, r, s, z, cnt)
  BY DEF Marked
<1>2. 0 \in 0 .. Len(ms) /\ Len(r) \in 0 .. Len(s)
  OBVIOUS
<1>3. z <= Rest(s, Len(r)) \/ Left(ms, 0) <= Rest(s, Len(r))
  BY <1>1, <1>2 DEF Marks
<1>4. Left(ms, 0) = Len(FlattenSeq(ms))
  <2>1. SubSeq(ms, 0 + 1, Len(ms)) = ms
    BY SubSeqFull
  <2> QED
    BY <2>1 DEF Left
<1>5. Rest(s, Len(r)) \in Nat /\ Left(ms, 0) \in Nat
  BY <1>2, RestAppend, LeftType
<1> QED
  BY <1>3, <1>4, <1>5

-----------------------------------------------------------------------------
(* The inductive invariant                                                 *)

\* what raw_receive has read of a message
Begun == IF cmd = 0 THEN <<>> ELSE <<cmd>> \o buf

\* the bytes between ble_phy_tx and what raw_receive returns
Stream == (Begun \o wire) \o fifo_bytes(serial_tx_buf)

Types ==
  /\ serial_tx_buf \in FifoType(Byte, TxCapacity)
  /\ wire \in Seq(Byte)
  /\ cmd \in {0} \union Longer /\ buf \in Seq(Byte)
  /\ cmd = 0 => buf = <<>>
  /\ sent \in Seq(Packets) /\ received \in Seq(Packets)
  /\ Len(received) <= Len(sent)

\* The stream is made of whole messages, of which raw_receive has not yet read
\* the first one; the answers among them are those sent and not received.
Messages(ms) ==
  /\ Stream = FlattenSeq(ms)
  /\ \A k \in 1 .. Len(ms) : Whole(ms[k])
  /\ cmd # 0 => ms # <<>> /\ Len(Begun) < Len(ms[1])
  /\ Marked(ms, received, sent, serial_tx_buf.size)

TxInv == Types /\ \E ms \in Seq(Seq(Byte)) : Messages(ms)

LEMMA StreamType ==
  ASSUME Types
  PROVE  /\ Begun \in Seq(Byte) /\ Len(Begun) = IF cmd = 0 THEN 0 ELSE Len(buf) + 1
         /\ cmd # 0 => Begun[1] = cmd /\ \A k \in 1 .. Len(buf) : Begun[k + 1] = buf[k]
         /\ fifo_bytes(serial_tx_buf) \in Seq(Byte)
         /\ Len(fifo_bytes(serial_tx_buf)) = serial_tx_buf.size
         /\ serial_tx_buf.size \in 0 .. TxCapacity /\ serial_tx_buf.size \in Nat
         /\ Stream \in Seq(Byte) /\ serial_tx_buf.size <= Len(Stream)
<1> DEFINE f == fifo_bytes(serial_tx_buf)
<1>1. TxCapacity \in Nat \ {0} /\ serial_tx_buf \in FifoType(Byte, TxCapacity)
      /\ wire \in Seq(Byte) /\ buf \in Seq(Byte) /\ cmd \in {0} \union Longer
  BY SerialTxAssumption DEF Types
<1>2. f \in Seq(Byte) /\ Len(f) = serial_tx_buf.size
  BY <1>1, BytesType
<1>3. serial_tx_buf.size \in 0 .. TxCapacity
  BY <1>1 DEF FifoType
<1>4. /\ Begun \in Seq(Byte) /\ Len(Begun) = IF cmd = 0 THEN 0 ELSE Len(buf) + 1
      /\ cmd # 0 => Begun[1] = cmd /\ \A k \in 1 .. Len(buf) : Begun[k + 1] = buf[k]
  <2>1. CASE cmd = 0
    BY <2>1 DEF Begun
  <2>2. CASE cmd # 0
    <3>1. cmd \in Byte
      BY <1>1, <2>2 DEF Longer, Byte, uint8, NRF52_CMD_DATA, NRF52_CMD_DATA_TX,
                        NRF52_CMD_LOG
    <3> DEFINE c == <<cmd>>
               u == c \o buf
    <3>2. c \in Seq(Byte) /\ Len(c) = 1 /\ c[1] = cmd /\ 1 \in 1 .. 1
      BY <3>1
    <3> HIDE DEF c
    <3>3. /\ u \in Seq(Byte) /\ Len(u) = Len(c) + Len(buf)
          /\ \A k \in 1 .. Len(c) : u[k] = c[k]
          /\ \A k \in 1 .. Len(buf) : u[Len(c) + k] = buf[k]
      <4>1. c \in Seq(Byte) /\ buf \in Seq(Byte)
        BY <1>1, <3>2
      <4> QED
        BY <4>1, ConcatIndex
    <3>4. Begun = u
      BY <2>2 DEF Begun, c
    <3> HIDE DEF u
    <3>5. Len(buf) \in Nat /\ \A k \in 1 .. Len(buf) : 1 + k = k + 1
      BY <1>1
    <3>6. Len(u) = Len(buf) + 1
      BY <3>2, <3>3, <3>5
    <3> QED
      BY <2>2, <3>2, <3>3, <3>4, <3>5, <3>6
  <2> QED
    BY <2>1, <2>2
<1> HIDE DEF f
<1>5. Stream \in Seq(Byte) /\ serial_tx_buf.size <= Len(Stream)
  <2> DEFINE b == Begun \o wire
  <2>1. b \in Seq(Byte) /\ Len(b) \in Nat
    BY <1>1, <1>4
  <2> HIDE DEF b
  <2>2. b \o f \in Seq(Byte) /\ Len(b \o f) = Len(b) + Len(f)
    BY <1>2, <2>1, ConcatProperties
  <2>3. Len(f) \in Nat
    BY <1>2
  <2> QED
    BY <1>2, <2>1, <2>2, <2>3 DEF Stream, b, f
<1>6. serial_tx_buf.size \in Nat
  BY <1>2
<1> QED
  BY <1>2, <1>3, <1>4, <1>5, <1>6 DEF f

\* What is at the start of the stream is the first message.
LEMMA FirstMessage ==
  ASSUME NEW ms \in Seq(Seq(Byte)), ms # <<>>, NEW b \in Seq(Byte), NEW w \in Seq(Byte),
         NEW f \in Seq(Byte), (b \o w) \o f = FlattenSeq(ms),
         Len(b) <= Len(ms[1])
  PROVE  \A k \in 1 .. Len(b) : b[k] = ms[1][k]
<1> DEFINE S == (b \o w) \o f
           m == ms[1]
           R == FlattenSeq(Tail(ms))
<1>1. m \in Seq(Byte) /\ R \in Seq(Byte) /\ S = m \o R
  BY FlattenTail
<1>2. /\ b \o w \in Seq(Byte) /\ Len(b \o w) = Len(b) + Len(w)
      /\ \A k \in 1 .. Len(b) : (b \o w)[k] = b[k]
  BY ConcatIndex
<1>3. \A k \in 1 .. Len(b \o w) : S[k] = (b \o w)[k]
  BY <1>2, ConcatIndex
<1>4. \A k \in 1 .. Len(m) : S[k] = m[k]
  <2>1. \A k \in 1 .. Len(m) : (m \o R)[k] = m[k]
    BY <1>1, ConcatIndex
  <2> QED
    BY <1>1, <2>1
<1>5. Len(b) \in Nat /\ Len(w) \in Nat /\ Len(m) \in Nat /\ Len(b) <= Len(m)
  BY <1>1
<1> HIDE DEF S, m, R
<1> SUFFICES ASSUME NEW k \in 1 .. Len(b) PROVE b[k] = m[k]
  BY DEF m
<1>6. k \in 1 .. Len(b \o w) /\ k \in 1 .. Len(m)
  BY <1>2, <1>5
<1> QED
  BY <1>2, <1>3, <1>4, <1>6

LEMMA Regroup ==
  \A x, y, z \in Seq(Byte) : (x \o y) \o z = x \o (y \o z)
<1> TAKE x, y, z \in Seq(Byte)
<1> QED
  BY ConcatAssociative

\* When the first message has been read, the others are left.
LEMMA FirstRead ==
  ASSUME NEW ms \in Seq(Seq(Byte)), ms # <<>>, NEW b \in Seq(Byte), NEW w \in Seq(Byte),
         NEW f \in Seq(Byte), (b \o w) \o f = FlattenSeq(ms), b = ms[1]
  PROVE  w \o f = FlattenSeq(Tail(ms))
<1> DEFINE R == FlattenSeq(Tail(ms))
<1>1. R \in Seq(Byte) /\ b \o (w \o f) = b \o R
  <2>1. R \in Seq(Byte) /\ FlattenSeq(ms) = b \o R
    BY FlattenTail
  <2>2. (b \o w) \o f = b \o (w \o f)
    BY Regroup
  <2> QED
    BY <2>1, <2>2
<1>2. w \o f \in Seq(Byte)
  BY ConcatProperties
<1> QED
  BY <1>1, <1>2, ConcatSimplifications

-----------------------------------------------------------------------------
(* Each step keeps the invariant                                           *)

\* What the driver and a new bridge process start with.
Fresh ==
  /\ serial_tx_buf = FIFO_CREATE(TxCapacity, 0) /\ wire = <<>>
  /\ cmd = 0 /\ buf = <<>>
  /\ sent = <<>> /\ received = <<>>

LEMMA FreshInv == Fresh => TxInv
<1> SUFFICES ASSUME Fresh PROVE TxInv
  OBVIOUS
<1>1. <<>> \in Seq(Packets) /\ <<>> \in Seq(Byte) /\ <<>> \in Seq(Seq(Byte)) /\ Len(<<>>) = 0
  OBVIOUS
<1>2. serial_tx_buf \in FifoType(Byte, TxCapacity) /\ serial_tx_buf.size = 0
  <2>1. TxCapacity \in Nat \ {0} /\ 0 \in Byte
    BY SerialTxAssumption DEF Byte, uint8
  <2> QED
    BY <2>1 DEF Fresh, FIFO_CREATE, FifoType
<1>3. Types
  BY <1>1, <1>2 DEF Fresh, Types
<1>4. Stream = <<>>
  <2>1. Len(fifo_bytes(serial_tx_buf)) = 0 /\ fifo_bytes(serial_tx_buf) \in Seq(Byte)
    BY <1>2, <1>3, StreamType
  <2>2. fifo_bytes(serial_tx_buf) = <<>>
    BY <2>1
  <2> QED
    BY <2>2 DEF Fresh, Stream, Begun
<1>5. FlattenSeq(<<>>) = <<>> /\ 1 .. 0 = {}
  BY DEF FlattenSeq
<1>6. Messages(<<>>)
  BY <1>1, <1>2, <1>4, <1>5, MarkedEmpty DEF Messages, Fresh
<1> QED
  BY <1>1, <1>3, <1>6 DEF TxInv

LEMMA InitInv == Init => TxInv /\ ~cut
  BY FreshInv DEF Init, Fresh

\* Between two messages raw_receive holds no bytes, in step or not.
BetweenMessages == cmd = 0 => buf = <<>>

\* What holds in every state: the reader is in step unless a reset cut a frame.
IInv == BetweenMessages /\ (cut \/ TxInv)

LEMMA ResetInv == BetweenMessages /\ reset_device => TxInv'
<1> SUFFICES ASSUME BetweenMessages, reset_device PROVE TxInv'
  OBVIOUS
<1>1. Fresh'
  BY DEF BetweenMessages, reset_device, Fresh
<1>2. Fresh' => TxInv'
  BY FreshInv, PTL
<1> QED
  BY <1>1, <1>2

LEMMA QuietInv ==
  ASSUME TxInv, UNCHANGED <<serial_tx_buf, wire, cmd, buf, sent, received>>
  PROVE  TxInv'
<1>1. Types'
  BY DEF TxInv, Types
<1>2. Begun' = Begun
  BY DEF Begun
<1>3. Stream' = Stream
  BY <1>2 DEF Stream, fifo_bytes, fifo_front, fifo_peek, fifo_tail_offset
<1>4. PICK ms \in Seq(Seq(Byte)) : Messages(ms)
  BY DEF TxInv
<1>5. Messages(ms)'
  BY <1>2, <1>3, <1>4 DEF Messages
<1> QED
  BY <1>1, <1>5 DEF TxInv

\* A message that joins the others at their end.
LEMMA WholeAppend ==
  ASSUME NEW ms \in Seq(Seq(Byte)), \A k \in 1 .. Len(ms) : Whole(ms[k]),
         NEW m \in Seq(Byte), Whole(m)
  PROVE  /\ Append(ms, m) \in Seq(Seq(Byte))
         /\ \A k \in 1 .. Len(Append(ms, m)) : Whole(Append(ms, m)[k])
         /\ ms # <<>> => Append(ms, m) # <<>> /\ Append(ms, m)[1] = ms[1]
<1> DEFINE u == Append(ms, m)
<1>1. /\ u \in Seq(Seq(Byte)) /\ u # <<>> /\ Len(u) = Len(ms) + 1
      /\ u[Len(ms) + 1] = m /\ \A k \in 1 .. Len(ms) : u[k] = ms[k]
  BY AppendProperties
<1>2. Len(ms) \in Nat
  OBVIOUS
<1> HIDE DEF u
<1>3. ASSUME NEW k \in 1 .. Len(u) PROVE Whole(u[k])
  <2>1. k \in 1 .. Len(ms) \/ k = Len(ms) + 1
    BY <1>1, <1>2
  <2> QED
    BY <1>1, <2>1
<1>4. ms # <<>> => 1 \in 1 .. Len(ms)
  BY <1>2
<1> QED
  BY <1>1, <1>3, <1>4 DEF u

LEMMA SendInv ==
  ASSUME LengthsFit, TxInv, NEW p \in Packets, ble_phy_tx(p)
  PROVE  TxInv'
<1> DEFINE F == Frame(p)
           f == serial_tx_buf
           b == Begun \o wire
<1>1. CASE ~fifo_has_space(f, Len(F))
  BY <1>1, QuietInv DEF ble_phy_tx
<1>2. CASE fifo_has_space(f, Len(F))
  <2>1. /\ f' = fifo_add_buf(f, F) /\ sent' = Append(sent, p)
        /\ UNCHANGED <<wire, cmd, buf, received>>
    BY <1>2 DEF ble_phy_tx
  <2>2. /\ Types /\ f \in FifoType(Byte, TxCapacity) /\ TxCapacity \in Nat \ {0}
        /\ sent \in Seq(Packets) /\ received \in Seq(Packets) /\ wire \in Seq(Byte)
        /\ Len(received) <= Len(sent)
    BY SerialTxAssumption DEF TxInv, Types
  <2>3. F \in Seq(Byte) /\ Len(F) \in Nat /\ Whole(F)
    BY FrameShape, FrameWhole
  <2>4. PICK ms \in Seq(Seq(Byte)) : Messages(ms)
    BY DEF TxInv
  <2>5. f.size \in Nat /\ f.size + Len(F) <= TxCapacity
    <3>1. f.size \in 0 .. TxCapacity /\ f.capacity = TxCapacity
      BY <2>2 DEF FifoType
    <3> QED
      BY <1>2, <2>2, <2>3, <3>1 DEF fifo_has_space
  <2>6. f' \in FifoType(Byte, TxCapacity) /\ fifo_bytes(fifo_add_buf(f, F)) = fifo_bytes(f) \o F
    BY <2>1, <2>2, <2>3, <2>5, AddBufAppends
  <2>7. f'.size = f.size + Len(F)
    BY <2>1 DEF fifo_add_buf
  <2> HIDE DEF F
  <2>8. sent' \in Seq(Packets) /\ Len(sent') = Len(sent) + 1
    BY <2>1, <2>2, AppendProperties
  <2>9. Types'
    <3>1. Len(received) <= Len(sent) + 1
      BY <2>2
    <3> QED
      BY <2>1, <2>2, <2>6, <2>8, <3>1 DEF Types
  <2>10. Begun' = Begun
    BY <2>1 DEF Begun
  <2>11. Stream' = Stream \o F
    <3>1. Begun \in Seq(Byte) /\ fifo_bytes(f) \in Seq(Byte)
      BY <2>2, StreamType
    <3>2. b \in Seq(Byte)
      BY <2>2, <3>1
    <3>3. Stream' = b \o fifo_bytes(fifo_add_buf(f, F))
      BY <2>1, <2>10 DEF Stream, fifo_bytes, fifo_front, fifo_peek, fifo_tail_offset
    <3> HIDE DEF b
    <3>4. (b \o fifo_bytes(f)) \o F = b \o (fifo_bytes(f) \o F)
      BY <2>3, <3>1, <3>2, Regroup
    <3> QED
      BY <2>6, <3>3, <3>4 DEF Stream, b
  <2> DEFINE ms1 == Append(ms, F)
  <2>12. FlattenSeq(ms1) = FlattenSeq(ms) \o F
    BY <2>3, FlattenAppend
  <2>13. /\ ms1 \in Seq(Seq(Byte)) /\ \A k \in 1 .. Len(ms1) : Whole(ms1[k])
         /\ ms # <<>> => ms1 # <<>> /\ ms1[1] = ms[1]
    BY <2>3, <2>4, WholeAppend DEF Messages
  <2>14. Marked(ms1, received, Append(sent, p), f.size + Len(F))
    BY <2>2, <2>4, <2>5, MarkedSend DEF Messages, F
  <2> HIDE DEF ms1
  <2>15. Messages(ms1)'
    BY <2>1, <2>4, <2>7, <2>10, <2>11, <2>12, <2>13, <2>14 DEF Messages
  <2> QED
    BY <2>9, <2>13, <2>15 DEF TxInv
<1> QED
  BY <1>1, <1>2

LEMMA NoticeInv ==
  ASSUME LengthsFit, NoticesWhole, TxInv, NEW n \in Notices, Notice(n)
  PROVE  TxInv'
<1> DEFINE f == fifo_bytes(serial_tx_buf)
<1>1. /\ serial_tx_buf.size = 0 /\ wire' = wire \o n
      /\ UNCHANGED <<serial_tx_buf, cmd, buf, sent, received>>
  BY DEF Notice, fifo_is_empty
<1>2. /\ Types /\ wire \in Seq(Byte)
      /\ sent \in Seq(Packets) /\ received \in Seq(Packets)
  BY DEF TxInv, Types
<1>3. n \in Seq(Byte) /\ Whole(n)
  BY SerialTxAssumption DEF NoticesWhole, Byte
<1>4. PICK ms \in Seq(Seq(Byte)) : Messages(ms)
  BY DEF TxInv
<1>5. Types'
  <2>1. wire' \in Seq(Byte)
    BY <1>1, <1>2, <1>3, ConcatProperties
  <2> QED
    BY <1>1, <1>2, <2>1 DEF Types
<1>6. Begun' = Begun
  BY <1>1 DEF Begun
<1>7. Stream' = Stream \o n
  <2>1. Begun \in Seq(Byte) /\ f \in Seq(Byte) /\ Len(f) = 0
    BY <1>1, <1>2, StreamType
  <2>2. f = <<>>
    BY <2>1
  <2>3. Stream' = (Begun \o (wire \o n)) \o f
    BY <1>1, <1>6 DEF Stream, fifo_bytes, fifo_front, fifo_peek, fifo_tail_offset
  <2> HIDE DEF f
  <2>4. Begun \o (wire \o n) = (Begun \o wire) \o n
    BY <1>2, <1>3, <2>1, Regroup
  <2>5. (Begun \o wire) \o n \in Seq(Byte) /\ Begun \o wire \in Seq(Byte)
    BY <1>2, <1>3, <2>1, ConcatProperties
  <2>6. Stream' = (Begun \o wire) \o n
    BY <2>2, <2>3, <2>4, <2>5, ConcatEmptySeq
  <2>7. Stream = Begun \o wire
    BY <2>2, <2>5, ConcatEmptySeq DEF Stream, f
  <2> QED
    BY <2>6, <2>7
<1> DEFINE ms1 == Append(ms, n)
<1>8. FlattenSeq(ms1) = FlattenSeq(ms) \o n
  BY <1>3, FlattenAppend
<1>9. /\ ms1 \in Seq(Seq(Byte)) /\ \A k \in 1 .. Len(ms1) : Whole(ms1[k])
      /\ ms # <<>> => ms1 # <<>> /\ ms1[1] = ms[1]
  BY <1>3, <1>4, WholeAppend DEF Messages
<1>10. Marked(ms1, received, sent, 0)
  BY <1>2, <1>3, <1>4, MarkedNotice DEF Messages
<1> HIDE DEF ms1
<1>11. Messages(ms1)'
  BY <1>1, <1>4, <1>6, <1>7, <1>8, <1>9, <1>10 DEF Messages
<1> QED
  BY <1>5, <1>9, <1>11 DEF TxInv

LEMMA TxCharInv ==
  ASSUME LengthsFit, TxInv, ble_phy_uart_tx_char
  PROVE  TxInv'
<1> DEFINE f == serial_tx_buf
           c == fifo_first(f)
           s == fifo_bytes(f)
<1>1. /\ ~fifo_is_empty(f) /\ wire' = Append(wire, c) /\ f' = fifo_rest(f)
      /\ UNCHANGED <<cmd, buf, sent, received>>
  BY DEF ble_phy_uart_tx_char
<1>2. /\ Types /\ wire \in Seq(Byte) /\ f \in FifoType(Byte, TxCapacity)
      /\ TxCapacity \in Nat \ {0}
      /\ sent \in Seq(Packets) /\ received \in Seq(Packets)
  BY SerialTxAssumption DEF TxInv, Types
<1>3. /\ f' \in FifoType(Byte, TxCapacity) /\ c \in Byte
      /\ s # <<>> /\ c = Head(s) /\ fifo_bytes(fifo_rest(f)) = Tail(s)
  BY <1>1, <1>2, GetByteTakesFirst
<1>4. f.size \in Nat \ {0} /\ f'.size = f.size - 1
  <2>1. f.size \in 0 .. TxCapacity /\ f.size # 0
    BY <1>1, <1>2 DEF FifoType, fifo_is_empty
  <2>2. f'.size = f.size - 1
    BY <1>1 DEF fifo_rest
  <2> QED
    BY <1>2, <2>1, <2>2
<1>5. PICK ms \in Seq(Seq(Byte)) : Messages(ms)
  BY DEF TxInv
<1>6. s \in Seq(Byte) /\ Begun \in Seq(Byte)
  BY <1>2, StreamType
<1>7. Begun' = Begun
  BY <1>1 DEF Begun
<1>8. Stream' = Stream
  <2>1. Stream' = (Begun \o Append(wire, c)) \o fifo_bytes(fifo_rest(f))
    BY <1>1, <1>7 DEF Stream, fifo_bytes, fifo_front, fifo_peek, fifo_tail_offset
  <2> HIDE DEF s, c
  <2> DEFINE t == Tail(s)
             e == <<c>>
  <2>2. t \in Seq(Byte) /\ e \in Seq(Byte) /\ s = e \o t
    BY <1>3, <1>6
  <2>3. Append(wire, c) = wire \o e
    BY <1>2, <1>3, AppendIsConcat
  <2> HIDE DEF t, e
  <2>4. wire \o e \in Seq(Byte) /\ Begun \o wire \in Seq(Byte)
    BY <1>2, <1>6, <2>2, ConcatProperties
  <2>5. Begun \o (wire \o e) = (Begun \o wire) \o e
    <3>1. Begun \in Seq(Byte) /\ wire \in Seq(Byte) /\ e \in Seq(Byte)
      BY <1>2, <1>6, <2>2
    <3> QED
      BY ONLY <3>1, Regroup
  <2>6. ((Begun \o wire) \o e) \o t = (Begun \o wire) \o (e \o t)
    BY <2>2, <2>4, Regroup
  <2>7. Stream' = (Begun \o wire) \o s
    BY <1>3, <2>1, <2>2, <2>3, <2>5, <2>6 DEF t
  <2> QED
    BY <2>7 DEF Stream, s
<1>9. Types'
  <2>1. wire' \in Seq(Byte)
    BY <1>1, <1>2, <1>3, AppendProperties
  <2> QED
    BY <1>1, <1>2, <1>3, <2>1 DEF Types
<1>10. Marked(ms, received, sent, f.size - 1)
  <2>1. f.size - 1 \in Nat /\ f.size - 1 <= f.size /\ f.size \in Nat
    BY <1>4
  <2> QED
    BY <1>2, <1>5, <2>1, MarkedLess DEF Messages
<1>11. Messages(ms)'
  BY <1>1, <1>4, <1>5, <1>7, <1>8, <1>10 DEF Messages
<1> QED
  BY <1>9, <1>11 DEF TxInv

\* raw_receive takes the next byte: it belongs to the first message.
LEMMA ReadByte ==
  ASSUME TxInv, wire # <<>>
  PROVE  \E ms \in Seq(Seq(Byte)) :
           LET b == Begun \o <<Head(wire)>>
               w == Tail(wire)
               f == fifo_bytes(serial_tx_buf)
           IN  /\ Messages(ms) /\ ms # <<>> /\ ms[1] \in Seq(Byte) /\ Whole(ms[1])
               /\ Head(wire) \in Byte /\ w \in Seq(Byte) /\ f \in Seq(Byte)
               /\ b \in Seq(Byte) /\ Len(b) = Len(Begun) + 1 /\ Len(b) <= Len(ms[1])
               /\ b[Len(b)] = Head(wire)
               /\ \A k \in 1 .. Len(Begun) : b[k] = Begun[k]
               /\ (b \o w) \o f = FlattenSeq(ms)
               /\ \A k \in 1 .. Len(b) : b[k] = ms[1][k]
               /\ b = ms[1] => w \o f = FlattenSeq(Tail(ms))
<1> DEFINE c == Head(wire)
           e == <<c>>
           b == Begun \o e
           w == Tail(wire)
           f == fifo_bytes(serial_tx_buf)
<1>1. PICK ms \in Seq(Seq(Byte)) : Messages(ms)
  BY DEF TxInv
<1>2. Types /\ wire \in Seq(Byte)
  BY DEF TxInv, Types
<1>3. c \in Byte /\ w \in Seq(Byte) /\ wire = e \o w
  BY <1>2
<1>4. e \in Seq(Byte) /\ Len(e) = 1 /\ e[1] = c
  BY <1>3
<1>5. /\ Begun \in Seq(Byte) /\ Len(Begun) = IF cmd = 0 THEN 0 ELSE Len(buf) + 1
      /\ f \in Seq(Byte)
  BY <1>2, StreamType
<1> HIDE DEF c, e, w, f
<1>6. /\ b \in Seq(Byte) /\ Len(b) = Len(Begun) + 1 /\ b[Len(Begun) + 1] = c
      /\ \A k \in 1 .. Len(Begun) : b[k] = Begun[k]
  <2>1. /\ b \in Seq(Byte) /\ Len(b) = Len(Begun) + Len(e)
        /\ \A k \in 1 .. Len(Begun) : b[k] = Begun[k]
        /\ \A k \in 1 .. Len(e) : b[Len(Begun) + k] = e[k]
    <3>1. Begun \in Seq(Byte) /\ e \in Seq(Byte)
      BY <1>4, <1>5
    <3> QED
      BY <3>1, ConcatIndex
  <2> HIDE DEF b
  <2>2. 1 \in 1 .. Len(e)
    BY <1>4
  <2> QED
    BY <1>4, <2>1, <2>2
<1>7. (b \o w) \o f = FlattenSeq(ms)
  <2>1. (Begun \o e) \o w = Begun \o (e \o w)
    BY <1>3, <1>4, <1>5, Regroup
  <2>2. Stream = FlattenSeq(ms)
    BY <1>1 DEF Messages
  <2> QED
    BY <1>3, <2>1, <2>2 DEF Stream, f
<1> HIDE DEF b
<1>8. ms # <<>>
  <2> SUFFICES ASSUME ms = <<>> PROVE FALSE
    OBVIOUS
  <2>1. (b \o w) \o f = <<>>
    BY <1>7 DEF FlattenSeq
  <2>2. b \o w \in Seq(Byte) /\ Len(b \o w) = Len(b) + Len(w)
    BY <1>3, <1>6, ConcatProperties
  <2>3. Len((b \o w) \o f) = Len(b \o w) + Len(f)
    BY <1>5, <2>2, ConcatProperties
  <2>4. Len(b) \in Nat /\ Len(w) \in Nat /\ Len(f) \in Nat /\ Len(b) # 0
    <3>1. Len(Begun) \in Nat
      BY <1>5
    <3> QED
      BY <1>3, <1>5, <1>6, <3>1
  <2>5. Len((b \o w) \o f) = 0
    BY <2>1
  <2> QED
    BY <2>2, <2>3, <2>4, <2>5
<1>9. ms[1] \in Seq(Byte) /\ Whole(ms[1])
  <2>1. 1 \in 1 .. Len(ms)
    BY <1>8
  <2> QED
    BY <1>1, <2>1 DEF Messages
<1>10. Len(b) <= Len(ms[1])
  <2>1. Len(Begun) \in Nat /\ Len(ms[1]) \in Nat \ {0}
    BY <1>5, <1>9 DEF Whole
  <2>2. Len(Begun) < Len(ms[1])
    <3>1. CASE cmd = 0
      BY <1>5, <2>1, <3>1
    <3>2. CASE cmd # 0
      BY <1>1, <3>2 DEF Messages
    <3> QED
      BY <3>1, <3>2
  <2> QED
    BY <1>6, <2>1, <2>2
<1>11. \A k \in 1 .. Len(b) : b[k] = ms[1][k]
  BY <1>3, <1>5, <1>6, <1>7, <1>8, <1>10, FirstMessage
<1>12. ASSUME b = ms[1] PROVE w \o f = FlattenSeq(Tail(ms))
  BY <1>3, <1>5, <1>6, <1>7, <1>8, <1>12, FirstRead
<1>13. b[Len(b)] = c
  BY <1>6
<1> QED
  BY <1>1, <1>3, <1>5, <1>6, <1>7, <1>8, <1>9, <1>10, <1>11, <1>12, <1>13 DEF b, e, c, w, f

\* The first message is done: the rest of the stream is the other messages.
LEMMA MessageRead ==
  ASSUME NEW ms \in Seq(Seq(Byte)), Messages(ms), ms # <<>>,
         cmd' = 0, Types', serial_tx_buf' = serial_tx_buf,
         wire' \o fifo_bytes(serial_tx_buf) = FlattenSeq(Tail(ms)),
         Marked(Tail(ms), received', sent', serial_tx_buf.size)
  PROVE  TxInv'
<1> DEFINE t == Tail(ms)
<1>1. t \in Seq(Seq(Byte)) /\ \A k \in 1 .. Len(t) : Whole(t[k])
  <2>1. /\ t \in Seq(Seq(Byte)) /\ Len(t) = Len(ms) - 1
        /\ \A k \in 1 .. Len(t) : t[k] = ms[k + 1]
    BY HeadTailProperties
  <2> HIDE DEF t
  <2>2. \A k \in 1 .. Len(t) : k + 1 \in 1 .. Len(ms)
    BY <2>1
  <2> QED
    BY <2>1, <2>2 DEF Messages
<1>2. Stream' = wire' \o fifo_bytes(serial_tx_buf)
  <2>1. wire' \in Seq(Byte)
    BY DEF Types
  <2>2. <<>> \o wire' = wire'
    BY <2>1, ConcatEmptySeq
  <2>3. Begun' = <<>>
    BY DEF Begun
  <2> QED
    BY <2>2, <2>3 DEF Stream, fifo_bytes, fifo_front, fifo_peek, fifo_tail_offset
<1>3. Messages(t)'
  <2> HIDE DEF t
  <2>1. Marked(t, received', sent', serial_tx_buf'.size)
    BY DEF t
  <2>2. Stream' = FlattenSeq(t)
    BY <1>2 DEF t
  <2> QED
    BY <1>1, <2>1, <2>2 DEF Messages
<1> QED
  BY <1>1, <1>3 DEF TxInv

LEMMA ReadCommandInv ==
  ASSUME LengthsFit, TxInv, ReadCommand
  PROVE  TxInv'
<1> DEFINE c == Head(wire)
           e == <<c>>
           w == Tail(wire)
           f == fifo_bytes(serial_tx_buf)
<1>1. /\ cmd = 0 /\ wire # <<>> /\ wire' = w
      /\ cmd' = IF c \in Longer THEN c ELSE 0
      /\ UNCHANGED <<serial_tx_buf, buf, sent, received>>
  BY DEF ReadCommand, Longer
<1>2. /\ Types /\ buf = <<>> /\ sent \in Seq(Packets) /\ received \in Seq(Packets)
  BY <1>1 DEF TxInv, Types
<1>3. Begun = <<>> /\ Len(Begun) = 0
  BY <1>1 DEF Begun
<1>4. PICK ms \in Seq(Seq(Byte)) :
        /\ Messages(ms) /\ ms # <<>> /\ ms[1] \in Seq(Byte) /\ Whole(ms[1])
        /\ c \in Byte /\ w \in Seq(Byte) /\ f \in Seq(Byte)
        /\ (e \o w) \o f = FlattenSeq(ms)
        /\ c = ms[1][1]
        /\ e = ms[1] => w \o f = FlattenSeq(Tail(ms))
  <2>1. PICK ms \in Seq(Seq(Byte)) :
        /\ Messages(ms) /\ ms # <<>> /\ ms[1] \in Seq(Byte) /\ Whole(ms[1])
        /\ c \in Byte /\ w \in Seq(Byte) /\ f \in Seq(Byte)
        /\ Len(Begun \o e) = Len(Begun) + 1
        /\ (Begun \o e)[Len(Begun \o e)] = c
        /\ ((Begun \o e) \o w) \o f = FlattenSeq(ms)
        /\ \A k \in 1 .. Len(Begun \o e) : (Begun \o e)[k] = ms[1][k]
        /\ Begun \o e = ms[1] => w \o f = FlattenSeq(Tail(ms))
    BY <1>1, ReadByte
  <2>2. e \in Seq(Byte) /\ Begun \o e = e /\ Len(e) = 1 /\ e[1] = c
    <3>1. e \in Seq(Byte) /\ Len(e) = 1 /\ e[1] = c
      BY <2>1
    <3> HIDE DEF e
    <3> QED
      BY <1>3, <3>1, ConcatEmptySeq
  <2> HIDE DEF c, e, w, f
  <2>3. c = ms[1][1]
    <3>1. 1 \in 1 .. Len(Begun \o e)
      BY <2>2
    <3> QED
      BY <2>1, <2>2, <3>1
  <2> QED
    BY <2>1, <2>2, <2>3
<1> DEFINE m == ms[1]
<1>5. CASE c \in Longer
  <2>1. cmd' = c /\ c # 0
    BY <1>1, <1>5 DEF Longer, NRF52_CMD_DATA, NRF52_CMD_DATA_TX, NRF52_CMD_LOG
  <2>2. Begun' = e
    <3>1. e \o <<>> = e
      BY <1>4, ConcatEmptySeq
    <3> QED
      BY <1>1, <1>2, <2>1, <3>1 DEF Begun
  <2>3. Types'
    BY <1>1, <1>2, <1>4, <1>5, <2>1 DEF Types
  <2>4. Stream' = FlattenSeq(ms)
    BY <1>1, <1>4, <2>2 DEF Stream, fifo_bytes, fifo_front, fifo_peek, fifo_tail_offset
  <2>5. Len(e) = 1 /\ Len(m) >= 3
    <3> DEFINE t == Tail(m)
    <3>1. m \in Seq(Byte) /\ m # <<>> /\ Complete(m[1], t)
      BY <1>4, <1>5 DEF Whole
    <3>2. Len(t) = Len(m) - 1 /\ Len(m) \in Nat /\ Len(t) \in Nat
      <4> HIDE DEF m
      <4> QED
        BY <3>1, HeadTailProperties
    <3> HIDE DEF t, m
    <3>3. Len(t) >= 2
      BY <3>1, <3>2 DEF Complete
    <3> QED
      BY <3>2, <3>3
  <2>6. Messages(ms)'
    <3>1. Len(Begun') < Len(ms[1])
      <4>1. Len(m) \in Nat
        BY <1>4
      <4> QED
        BY <2>2, <2>5, <4>1
    <3> QED
      BY <1>1, <1>4, <2>4, <3>1 DEF Messages
  <2> QED
    BY <2>3, <2>6 DEF TxInv
<1>6. CASE c \notin Longer
  <2>1. cmd' = 0
    BY <1>1, <1>6
  <2>2. Types'
    BY <1>1, <1>2, <1>4, <2>1 DEF Types
  <2>3. e = m
    <3>1. Len(m) = 1
      BY <1>4, <1>6 DEF Whole
    <3>2. e \in Seq(Byte) /\ Len(e) = 1 /\ e[1] = m[1] /\ m \in Seq(Byte)
      BY <1>4
    <3>3. \A k \in 1 .. Len(e) : e[k] = m[k]
      BY <3>2
    <3> HIDE DEF e, m
    <3> QED
      BY <3>1, <3>2, <3>3, SeqEqual
  <2>4. Marked(Tail(ms), received, sent, serial_tx_buf.size)
    <3>1. ~(Len(received) < Len(sent) /\ m = Frame(sent[Len(received) + 1]))
      <4> SUFFICES ASSUME Len(received) < Len(sent), m = Frame(sent[Len(received) + 1])
                   PROVE  FALSE
        OBVIOUS
      <4>1. Len(received) + 1 \in 1 .. Len(sent)
        BY <1>2
      <4>2. sent[Len(received) + 1] \in Packets
        BY <1>2, <4>1
      <4>3. m[1] = NRF52_CMD_DATA
        BY <4>2, FrameShape
      <4> QED
        BY <1>4, <1>6, <4>3 DEF Longer
    <3>2. Marked(ms, received, sent, serial_tx_buf.size)
      BY <1>4 DEF Messages
    <3> QED
      BY <1>2, <1>4, <3>1, <3>2, MarkedPop
  <2>5. wire' \o f = FlattenSeq(Tail(ms))
    BY <1>1, <1>4, <2>3
  <2>6. serial_tx_buf' = serial_tx_buf /\ received' = received /\ sent' = sent
    BY <1>1
  <2> QED
    BY <1>4, <2>1, <2>2, <2>4, <2>5, <2>6, MessageRead
<1> QED
  BY <1>5, <1>6

\* The packet of an answer is returned when its last byte is read, and nothing
\* else is returned.
Returned ==
  /\ Len(received) < Len(sent)
  /\ received' = Append(received, sent[Len(received) + 1])

LEMMA ReadRestInv ==
  ASSUME LengthsFit, NoticesWhole, TxInv, ReadRest
  PROVE  TxInv' /\ (received' = received \/ Returned)
<1> DEFINE c == Head(wire)
           e == <<c>>
           w == Tail(wire)
           f == fifo_bytes(serial_tx_buf)
           b == Append(buf, c)
           d == Begun \o e
<1>1. /\ cmd # 0 /\ wire # <<>> /\ wire' = w
      /\ UNCHANGED <<serial_tx_buf, sent>>
      /\ IF Complete(cmd, b)
           THEN /\ cmd' = 0 /\ buf' = <<>>
                /\ received' = IF cmd = NRF52_CMD_DATA /\ SumOf(DataOf(b)) % 256 = Last(b)
                                 THEN Append(received, DataOf(b)) ELSE received
           ELSE buf' = b /\ cmd' = cmd /\ received' = received
  BY DEF ReadRest
<1>2. /\ Types /\ buf \in Seq(Byte) /\ sent \in Seq(Packets) /\ received \in Seq(Packets)
      /\ Len(received) <= Len(sent) /\ cmd \in Longer
  BY <1>1 DEF TxInv, Types
<1>3. PICK ms \in Seq(Seq(Byte)) :
        /\ Messages(ms) /\ ms # <<>> /\ ms[1] \in Seq(Byte) /\ Whole(ms[1])
        /\ c \in Byte /\ w \in Seq(Byte) /\ f \in Seq(Byte)
        /\ d \in Seq(Byte) /\ Len(d) = Len(Begun) + 1 /\ Len(d) <= Len(ms[1])
        /\ d[Len(d)] = c
        /\ \A k \in 1 .. Len(Begun) : d[k] = Begun[k]
        /\ (d \o w) \o f = FlattenSeq(ms)
        /\ \A k \in 1 .. Len(d) : d[k] = ms[1][k]
        /\ d = ms[1] => w \o f = FlattenSeq(Tail(ms))
  BY <1>1, ReadByte
<1> DEFINE m == ms[1]
<1>4. /\ Len(Begun) = Len(buf) + 1 /\ Begun[1] = cmd
      /\ \A k \in 1 .. Len(buf) : Begun[k + 1] = buf[k]
  BY <1>1, <1>2, StreamType
<1>5. d = <<cmd>> \o b
  <2>1. Begun = <<cmd>> \o buf /\ b = buf \o e
    <3>1. b = buf \o e
      BY <1>2, <1>3, AppendIsConcat
    <3> QED
      BY <1>1, <3>1 DEF Begun
  <2>2. e \in Seq(Byte) /\ <<cmd>> \in Seq(Byte)
    BY <1>2, <1>3 DEF Longer, Byte, uint8, NRF52_CMD_DATA, NRF52_CMD_DATA_TX, NRF52_CMD_LOG
  <2> DEFINE x == <<cmd>>
  <2>3. (x \o buf) \o e = x \o (buf \o e)
    <3> HIDE DEF x, e
    <3> QED
      BY <1>2, <2>2, Regroup DEF x
  <2> QED
    BY <2>1, <2>3
<1>6. b \in Seq(Byte) /\ Len(b) = Len(buf) + 1 /\ b[Len(buf) + 1] = c
      /\ \A k \in 1 .. Len(buf) : b[k] = buf[k]
  BY <1>2, <1>3, AppendProperties
<1>7. Len(buf) \in Nat /\ Len(m) \in Nat /\ m \in Seq(Byte)
  BY <1>2, <1>3
<1> HIDE DEF c, e, w, f, b, d, m
<1>8. Len(d) = Len(b) + 1 /\ Len(b) < Len(m) /\ Len(b) \in Nat
  BY <1>3, <1>4, <1>6, <1>7 DEF m
<1>9. cmd = m[1] /\ \A k \in 1 .. Len(b) : b[k] = m[k + 1]
  <2>1. 1 \in 1 .. Len(Begun) /\ 1 \in 1 .. Len(d)
    BY <1>4, <1>7, <1>8
  <2>2. cmd = m[1]
    BY <1>3, <1>4, <2>1 DEF m
  <2>3. ASSUME NEW k \in 1 .. Len(b) PROVE b[k] = m[k + 1]
    <3>1. k + 1 \in 1 .. Len(d)
      BY <1>8
    <3>2. d[k + 1] = m[k + 1]
      BY <1>3, <3>1 DEF m
    <3>3. CASE k \in 1 .. Len(buf)
      <4>1. k + 1 \in 1 .. Len(Begun)
        BY <1>4, <1>7, <3>3
      <4> QED
        BY <1>3, <1>4, <1>6, <3>2, <3>3, <4>1
    <3>4. CASE k = Len(buf) + 1
      <4>1. k + 1 = Len(d)
        BY <1>6, <1>8, <3>4
      <4> QED
        BY <1>3, <1>6, <3>2, <3>4, <4>1
    <3> QED
      BY <1>6, <1>7, <3>3, <3>4
  <2> QED
    BY <2>2, <2>3
<1>10. /\ Complete(cmd, b) <=> Len(b) = Len(m) - 1
       /\ Len(b) = Len(m) - 1 => b = Tail(m)
  <2>1. Whole(m) /\ m[1] \in Longer
    BY <1>2, <1>3, <1>9 DEF m
  <2> QED
    BY <1>6, <1>7, <1>8, <1>9, <2>1, CompleteAtEnd
<1>11. Marked(ms, received, sent, serial_tx_buf.size)
  BY <1>3 DEF Messages
<1>12. CASE ~Complete(cmd, b)
  <2>1. buf' = b /\ cmd' = cmd /\ received' = received
    BY <1>1, <1>12
  <2>2. Begun' = d
    BY <1>1, <1>5, <2>1 DEF Begun
  <2>3. Types'
    BY <1>1, <1>2, <1>3, <1>6, <2>1 DEF Types
  <2>4. Stream' = FlattenSeq(ms)
    BY <1>1, <1>3, <2>2 DEF Stream, fifo_bytes, fifo_front, fifo_peek, fifo_tail_offset, f
  <2>5. Len(d) < Len(m)
    BY <1>7, <1>8, <1>10, <1>12
  <2>6. Messages(ms)'
    BY <1>1, <1>3, <1>11, <2>1, <2>2, <2>4, <2>5 DEF Messages, m
  <2> QED
    BY <2>1, <2>3, <2>6 DEF TxInv
<1>13. CASE Complete(cmd, b)
  <2>1. cmd' = 0 /\ buf' = <<>> /\ b = Tail(m) /\ Len(d) = Len(m)
    BY <1>1, <1>7, <1>8, <1>10, <1>13
  <2>2. received' = IF cmd = NRF52_CMD_DATA /\ SumOf(DataOf(b)) % 256 = Last(b)
                      THEN Append(received, DataOf(b)) ELSE received
    BY <1>1, <1>13
  <2>3. d = m
    <3>1. d \in Seq(Byte) /\ \A k \in 1 .. Len(d) : d[k] = m[k]
      BY <1>3 DEF m
    <3> QED
      BY <1>7, <2>1, <3>1, SeqEqual
  <2>4. wire' \o f = FlattenSeq(Tail(ms))
    BY <1>1, <1>3, <2>3 DEF m
  <2>5. ASSUME received' \in Seq(Packets), Len(received') <= Len(sent) PROVE Types'
    BY <1>1, <1>2, <1>3, <2>1, <2>5 DEF Types
  <2>6. CASE m \in Notices /\ Marked(Tail(ms), received, sent, serial_tx_buf.size)
    <3>1. received' = received
      <4>1. cmd = NRF52_CMD_DATA => SumOf(DataOf(b)) % 256 # Last(b)
        BY <1>9, <2>1, <2>6 DEF NoticesWhole
      <4> QED
        BY <2>2, <4>1
    <3>2. Types'
      BY <1>2, <2>5, <3>1
    <3>3. Marked(Tail(ms), received', sent', serial_tx_buf.size)
      BY <1>1, <2>6, <3>1
    <3>4. TxInv'
      BY <1>1, <1>3, <2>1, <2>4, <3>2, <3>3, MessageRead DEF f
    <3> QED
      BY <3>1, <3>4
  <2>7. CASE /\ Len(received) < Len(sent) /\ m = Frame(sent[Len(received) + 1])
             /\ Marked(Tail(ms), Append(received, sent[Len(received) + 1]), sent,
                       serial_tx_buf.size)
    <3> DEFINE p == sent[Len(received) + 1]
    <3>1. p \in Packets
      <4>1. Len(received) + 1 \in 1 .. Len(sent)
        BY <1>2, <2>7
      <4> QED
        BY <1>2, <4>1
    <3>2. cmd = NRF52_CMD_DATA /\ DataOf(b) = p /\ Last(b) = SumOf(p) % 256
      <4> HIDE DEF p
      <4>1. m = Frame(p)
        BY <2>7 DEF p
      <4>2. m[1] = NRF52_CMD_DATA
        BY <3>1, <4>1, FrameShape
      <4>3. DataOf(Tail(m)) = p /\ Last(Tail(m)) = SumOf(p) % 256
        BY <3>1, <4>1, FrameData
      <4> QED
        BY <1>9, <2>1, <4>2, <4>3
    <3>3. received' = Append(received, p)
      BY <2>2, <3>2
    <3>4. received' \in Seq(Packets) /\ Len(received') = Len(received) + 1
      BY <1>2, <3>1, <3>3, AppendProperties
    <3>5. Types'
      <4>1. Len(received') <= Len(sent)
        BY <1>2, <2>7, <3>4
      <4> QED
        BY <2>5, <3>4, <4>1
    <3>6. Marked(Tail(ms), received', sent', serial_tx_buf.size)
      BY <1>1, <2>7, <3>3
    <3>7. TxInv'
      BY <1>1, <1>3, <2>1, <2>4, <3>5, <3>6, MessageRead DEF f
    <3> QED
      BY <2>7, <3>3, <3>7 DEF Returned
  <2> QED
    BY <1>2, <1>3, <1>11, <2>6, <2>7, MarkedPop DEF m
<1> QED
  BY <1>12, <1>13

\* While the reader is in step, every step keeps it so or is a reset that
\* restarts nothing amid answers.
LEMMA InStepNext ==
  ASSUME LengthsFit, NoticesWhole, TxInv, [Next]_vars
  PROVE  TxInv' \/ cut'
<1>1. ASSUME NEW p \in Packets, ble_phy_tx(p) PROVE TxInv'
  BY <1>1, SendInv
<1>2. ASSUME NEW n \in Notices, Notice(n) PROVE TxInv'
  BY <1>2, NoticeInv
<1>3. CASE ble_phy_uart_tx_char
  BY <1>3, TxCharInv
<1>4. CASE ReadCommand
  BY <1>4, ReadCommandInv
<1>5. CASE ReadRest
  BY <1>5, ReadRestInv
<1>6. CASE reset_device
  BY <1>6, ResetInv DEF TxInv, Types, BetweenMessages
<1>7. CASE reset_device_ci
  <2>1. CASE wire = <<>> /\ fifo_is_empty(serial_tx_buf)
    BY <1>7, <2>1, QuietInv DEF reset_device_ci
  <2>2. CASE ~(wire = <<>> /\ fifo_is_empty(serial_tx_buf))
    BY <1>7, <2>2 DEF reset_device_ci
  <2> QED
    BY <2>1, <2>2
<1>8. CASE UNCHANGED vars
  BY <1>8, QuietInv DEF vars
<1> QED
  BY <1>1, <1>2, <1>3, <1>4, <1>5, <1>6, <1>7, <1>8 DEF Next, Device

\* A reader that is out of step stays so until the bridge is restarted.
LEMMA OutOfStepNext ==
  ASSUME BetweenMessages, cut, [Next]_vars
  PROVE  TxInv' \/ cut'
<1>1. CASE reset_device
  BY <1>1, ResetInv
<1>2. CASE ~reset_device
  BY <1>2 DEF Next, Device, ble_phy_tx, Notice, ble_phy_uart_tx_char, ReadCommand,
     ReadRest, reset_device_ci, vars
<1> QED
  BY <1>1, <1>2

LEMMA NextInv ==
  ASSUME LengthsFit, NoticesWhole, IInv, [Next]_vars
  PROVE  IInv'
<1>1. BetweenMessages'
  BY DEF IInv, BetweenMessages, Next, Device, ble_phy_tx, Notice,
     ble_phy_uart_tx_char, ReadCommand, ReadRest, reset_device, reset_device_ci, vars
<1>2. TxInv' \/ cut'
  BY InStepNext, OutOfStepNext DEF IInv
<1> QED
  BY <1>1, <1>2 DEF IInv

-----------------------------------------------------------------------------
\* raw_receive (NRF52_Driver.py:113-158) returns what ble_phy_tx was given,
\* whole, in order and at most once: each of its steps is one of PacketLink or
\* changes nothing there, whatever bytes the packets contain, and across resets
\* that restart the bridge; after one that restarts nothing, unless it came amid
\* answers.
THEOREM AnswersArrive ==
  ASSUME LengthsFit, NoticesWhole
  PROVE  Spec => LinkSpec
<1>1. Init => Link!Init
  BY DEF Init, Link!Init
<1>2. IInv /\ [Next]_vars => [cut \/ Link!Next]_<<sent, received>>
  <2> SUFFICES ASSUME TxInv, [Next]_vars PROVE [Link!Next]_<<sent, received>>
    BY DEF IInv
  <2>1. ASSUME NEW p \in Packets, ble_phy_tx(p)
        PROVE  Link!Send(p) \/ UNCHANGED <<sent, received>>
    BY <2>1 DEF ble_phy_tx, Link!Send
  <2>2. ASSUME NEW n \in Notices, Notice(n) PROVE UNCHANGED <<sent, received>>
    BY <2>2 DEF Notice
  <2>3. CASE ble_phy_uart_tx_char
    BY <2>3 DEF ble_phy_uart_tx_char
  <2>4. CASE ReadCommand
    BY <2>4 DEF ReadCommand
  <2>5. CASE ReadRest
    <3>1. sent' = sent /\ (received' = received \/ Returned)
      BY <2>5, ReadRestInv DEF ReadRest
    <3> QED
      BY <3>1 DEF Returned, Link!Next, Link!Receive
  <2>6. CASE reset_device
    BY <2>6 DEF reset_device, Link!Next, Link!Restart
  <2>7. CASE reset_device_ci
    BY <2>7 DEF reset_device_ci
  <2>8. CASE UNCHANGED vars
    BY <2>8 DEF vars
  <2> QED
    BY <2>1, <2>2, <2>3, <2>4, <2>5, <2>6, <2>7, <2>8 DEF Next, Device, Link!Next
<1>3. Init => IInv
  BY InitInv DEF Init, IInv, BetweenMessages
<1> QED
  BY NextInv, <1>1, <1>2, <1>3, PTL DEF Spec, LinkSpec

\* Once the assert of ble_phy.c:528 has failed, the fifo stays as it was.
AbortedFull ==
  aborted /\ ~cut => \E p \in Packets : ~fifo_has_space(serial_tx_buf, Len(Frame(p)))

\* The assert fails only when the answers the mapper has not read do not fit the
\* fifo with the next one: what has been read takes no space, and no notice does.
\* (Of a reader that is out of step nothing is said.)
THEOREM OverflowOnlyUnread ==
  ASSUME LengthsFit, NoticesWhole
  PROVE  Spec => []OverflowOnlyIfUnread
<1>1. Init => AbortedFull
  BY DEF Init, AbortedFull
<1>2. AbortedFull /\ [Next]_vars => AbortedFull'
  <2> SUFFICES ASSUME AbortedFull, [Next]_vars PROVE AbortedFull'
    OBVIOUS
  <2>1. ASSUME UNCHANGED <<serial_tx_buf, aborted, cut>> PROVE AbortedFull'
    BY <2>1 DEF AbortedFull, fifo_has_space
  <2>2. ASSUME NEW p \in Packets, ble_phy_tx(p) PROVE AbortedFull'
    <3>1. CASE fifo_has_space(serial_tx_buf, Len(Frame(p)))
      BY <2>2, <3>1 DEF ble_phy_tx, AbortedFull
    <3>2. CASE ~fifo_has_space(serial_tx_buf, Len(Frame(p)))
      <4>1. serial_tx_buf' = serial_tx_buf
        BY <2>2, <3>2 DEF ble_phy_tx
      <4> QED
        BY <3>2, <4>1 DEF AbortedFull, fifo_has_space
    <3> QED
      BY <3>1, <3>2
  <2>3. ASSUME NEW n \in Notices, Notice(n) PROVE AbortedFull'
    BY <2>1, <2>3 DEF Notice
  <2>4. CASE ble_phy_uart_tx_char
    BY <2>4 DEF ble_phy_uart_tx_char, AbortedFull
  <2>5. CASE ReadCommand
    BY <2>1, <2>5 DEF ReadCommand
  <2>6. CASE ReadRest
    BY <2>1, <2>6 DEF ReadRest
  <2>7. CASE reset_device
    BY <2>7 DEF reset_device, AbortedFull
  <2>8. CASE reset_device_ci
    <3>1. UNCHANGED <<serial_tx_buf, aborted, cut>> \/ cut'
      BY <2>8 DEF reset_device_ci
    <3> QED
      BY <2>1, <3>1 DEF AbortedFull
  <2>9. CASE UNCHANGED vars
    BY <2>1, <2>9 DEF vars
  <2> QED
    BY <2>2, <2>3, <2>4, <2>5, <2>6, <2>7, <2>8, <2>9 DEF Next, Device
<1>3. IInv /\ AbortedFull => OverflowOnlyIfUnread
  <2> SUFFICES ASSUME TxInv, AbortedFull, aborted, ~cut
               PROVE  \E p \in Packets : Len(Unread) + Len(Frame(p)) > TxCapacity
    BY DEF OverflowOnlyIfUnread, IInv
  <2> DEFINE z == serial_tx_buf.size
  <2>1. PICK p \in Packets : ~fifo_has_space(serial_tx_buf, Len(Frame(p)))
    BY DEF AbortedFull
  <2>2. /\ Types /\ serial_tx_buf \in FifoType(Byte, TxCapacity) /\ TxCapacity \in Nat
        /\ sent \in Seq(Packets) /\ received \in Seq(Packets) /\ Len(received) <= Len(sent)
    BY SerialTxAssumption DEF TxInv, Types
  <2>3. serial_tx_buf.capacity = TxCapacity
    BY <2>2 DEF FifoType
  <2>4. z \in Nat /\ z <= Len(Stream)
    BY <2>2, StreamType
  <2>5. PICK ms \in Seq(Seq(Byte)) : Messages(ms)
    BY DEF TxInv
  <2>6. z <= Rest(sent, Len(received)) /\ Rest(sent, Len(received)) \in Nat
    BY <2>2, <2>4, <2>5, MarkedBound DEF Messages
  <2>7. Rest(sent, Len(received)) = Len(Unread)
    BY DEF Rest, Behind, Unread
  <2>8. Len(Frame(p)) \in Nat
    <3>1. Len(p) \in Nat /\ Len(Frame(p)) = Len(p) + 6
      BY FrameShape
    <3> QED
      BY <3>1
  <2> HIDE DEF z
  <2>9. z + Len(Frame(p)) > TxCapacity
    BY <2>1, <2>2, <2>3, <2>4, <2>8 DEF fifo_has_space, z
  <2>10. Len(Unread) + Len(Frame(p)) > TxCapacity
    <3> DEFINE u == Len(Unread)
               l == Len(Frame(p))
    <3>1. u \in Nat /\ l \in Nat /\ z <= u /\ z + l > TxCapacity
      BY <2>6, <2>7, <2>8, <2>9
    <3> HIDE DEF u, l
    <3>2. u + l > TxCapacity
      BY <2>2, <2>4, <3>1
    <3> QED
      BY <3>2 DEF u, l
  <2> QED
    BY <2>10
<1>4. Init => IInv
  BY InitInv DEF Init, IInv, BetweenMessages
<1> QED
  BY NextInv, <1>1, <1>2, <1>3, <1>4, PTL DEF Spec
=============================================================================
