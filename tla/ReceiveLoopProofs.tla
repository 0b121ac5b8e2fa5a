------------------------- MODULE ReceiveLoopProofs -------------------------
(***************************************************************************)
(* Proofs about ReceiveLoop: with time limits that fit what the peripheral *)
(* keeps to, no answer is left when the mapper stops receiving.            *)
(*                                                                         *)
(* The invariant looks ahead: it follows what is_rsp_complete will be      *)
(* asked, packet by packet, while the mapper reads what is in the port.    *)
(***************************************************************************)
EXTENDS ReceiveLoop, FiniteSetTheorems, WellFoundedInduction, TLAPS

Enc == req = "ENC_REQ"

Summary == [kinds : SUBSET Kinds, cyclic : 0 .. CyclicLong, expected : 0 .. 3]
View    == [pkts : Summary, t : Nat]

\* what the next question to is_rsp_complete will be about
Now == [pkts |-> IF Enc THEN res_pkts ELSE packets, t |-> IF Enc THEN time_all ELSE time]

\* and what it is about when pkt has been read
Reads(x, pkt, enc) ==
  IF pkt = "OTHER" THEN [x EXCEPT !.t = After(x.t, 1)]
    ELSE [pkts |-> Add(x.pkts, pkt),
          t |-> IF pkt = "ASK" /\ ~enc THEN 0 ELSE After(x.t, 1)]

IsRun(run, x, s, enc) ==
  /\ run \in [0 .. Len(s) -> View] /\ run[0] = x
  /\ \A j \in 1 .. Len(s) : run[j] = Reads(run[j - 1], s[j], enc)

\* The mapper goes on whatever the request and the flavour are.
GoesOn(x, tmin) ==
  /\ ~sequence_seems_complete(x.pkts)
  /\ x.t < RecvMax
  /\ x.pkts = None => x.t < tmin
  /\ "SCAN_RSP" \notin x.pkts.kinds

-----------------------------------------------------------------------------
(* The invariant                                                           *)

Backlog ==
  \/ Len(port) <= MaxBacklog
  \/ receiving /\ phase = Interval /\ Len(port) = MaxBacklog + 1

OneQuestion ==
  /\ waits => \E k \in DOMAIN port :
                port[k] = "ASK" /\ (pending # <<>> => gap <= Len(port) - k)
  /\ \A k \in DOMAIN port : port[k] = "ASK" =>
       waits /\ \A j \in DOMAIN port : j > k => port[j] \notin Expect \union {"ASK"}

MinOfRequest == req # "SCAN_REQ" => recv_s_min = RecvMin

ScanLast == \A k \in DOMAIN pending : pending[k] = "SCAN_RSP" => k = Len(pending)

GapInv == pending # <<>> => gap < CyclicLong /\ (due = 0 => gap < CyclicShort)

AnswersFit == pending # <<>> => Len(pending) * Longest + Spare <= RecvMax

\* cyclic packets that may come before the next answer
GapLeft == IF waits THEN GapFirst ELSE IF gap <= GapFirst THEN GapFirst - gap ELSE 0

\* Time for the next answer, for those behind it, to read them, and for the
\* questions that do not start it again.
GapTime      == GapLeft * Interval
AnswersTime  == (Len(pending) - 1) * Longest
QuestionTime == IF Enc THEN (MaxAsks - asks) * (Longest + Spare) ELSE 0
Answering    == GapTime + AnswersTime + Spare + QuestionTime

NoRaw == \A k \in DOMAIN port : port[k] # "RAW"

TimeLeft == receiving /\ pending # <<>> /\ NoRaw =>
  /\ ~waits => Now.t + phase + Answering <= RecvMax
  /\ waits /\ Enc => \A k \in DOMAIN port :
       port[k] = "ASK" => Now.t + k + Interval + Answering <= RecvMax

\* what is known when the port is read, while answers are to come
Ahead(y) ==
  /\ y.pkts.expected = due /\ y.pkts.cyclic <= gap
  /\ "SCAN_RSP" \notin y.pkts.kinds
  /\ y.pkts = None => Now.t + phase + Spare <= recv_s_min
  /\ ~waits \/ Enc => y.t <= Now.t + Len(port)
  /\ waits /\ ~Enc => \A k \in DOMAIN port : port[k] = "ASK" => y.t <= Len(port) - k

GoesOnUpTo(run, n) == \A j \in 1 .. n : GoesOn(run[j], recv_s_min)

RawFirst(run) == \E k \in DOMAIN port : port[k] = "RAW" /\ GoesOnUpTo(run, k - 1)

ReachesAll(run) ==
  /\ \A k \in DOMAIN port : port[k] \in Expect => GoesOnUpTo(run, k - 1)
  /\ pending # <<>> => GoesOnUpTo(run, Len(port)) /\ Ahead(run[Len(port)])

Missing == pending # <<>> \/ \E k \in DOMAIN port : port[k] \in Expect

LookAhead == receiving /\ Missing =>
  \E run \in [0 .. Len(port) -> View] :
    IsRun(run, Now, port, Enc) /\ (RawFirst(run) \/ ReachesAll(run))

AllCollected ==
  ~receiving => pending = <<>> /\ \A k \in DOMAIN port : port[k] \notin Expect

\* what holds as long as nothing has misled the mapper
Sound == /\ OneQuestion /\ ScanLast /\ GapInv /\ AnswersFit /\ TimeLeft
         /\ AllCollected /\ LookAhead

IInv == TypeOK /\ Backlog /\ MinOfRequest /\ (misled \/ Sound)

-----------------------------------------------------------------------------
(* The operators                                                           *)

LEMMA ConstantTypes ==
  /\ RecvMin \in Nat /\ RecvMax \in Nat /\ ConnectMax \in Nat /\ MaxTime \in Nat
  /\ CyclicShort \in Nat /\ CyclicLong \in Nat /\ ResetTime \in Nat
  /\ GapFirst \in Nat /\ GapNext \in Nat /\ MaxBacklog \in Nat /\ MaxOthers \in Nat
  /\ MaxAsks \in Nat /\ MaxRaw \in Nat /\ Interval \in Nat /\ Interval > 0
  /\ RecvMin <= MaxTime /\ ScanMins \subseteq Nat
  BY ReceiveLoopAssumption

LEMMA NoneType == None \in Summary
  BY ConstantTypes DEF None, Summary

LEMMA NextExpectedType ==
  ASSUME NEW n \in 0 .. 3, NEW pkt
  PROVE  NextExpected(n, pkt) \in 0 .. 3
  BY DEF NextExpected

LEMMA KindFacts ==
  ASSUME NEW pkt \in Packets
  PROVE  Kind(pkt) \in Kinds /\ (Kind(pkt) = "SCAN_RSP" <=> pkt = "SCAN_RSP")
  BY DEF Kind, Kinds

\* what is known of a list of packets after one more
LEMMA AddType ==
  ASSUME NEW s \in Summary, NEW pkt \in Packets
  PROVE  /\ Add(s, pkt) \in Summary
         /\ Add(s, pkt) # None
         /\ Add(s, pkt).kinds = s.kinds \union {Kind(pkt)}
         /\ pkt \in Cyclic => /\ Add(s, pkt).expected = s.expected
                              /\ Add(s, pkt).cyclic <= s.cyclic + 1
         /\ pkt \notin Cyclic => /\ Add(s, pkt).expected = NextExpected(s.expected, pkt)
                                 /\ Add(s, pkt).cyclic = 0
<1>1. s.kinds \in SUBSET Kinds /\ s.cyclic \in 0 .. CyclicLong /\ s.expected \in 0 .. 3
      /\ s = [kinds |-> s.kinds, cyclic |-> s.cyclic, expected |-> s.expected]
  BY DEF Summary
<1>4. Kind(pkt) \in Kinds
  BY KindFacts
<1>2. CASE pkt \in Cyclic
  <2> DEFINE c == IF s.cyclic < CyclicLong THEN s.cyclic + 1 ELSE s.cyclic
  <2>1. Add(s, pkt) = [kinds |-> s.kinds \union {Kind(pkt)}, cyclic |-> c, expected |-> s.expected]
    BY <1>1, <1>2 DEF Add
  <2>2. c \in 0 .. CyclicLong /\ c <= s.cyclic + 1
    BY <1>1, ConstantTypes
  <2> HIDE DEF c
  <2> QED
    BY <1>1, <1>2, <1>4, <2>1, <2>2 DEF Summary, None
<1>3. CASE pkt \notin Cyclic
  <2>1. NextExpected(s.expected, pkt) \in 0 .. 3
    BY <1>1, NextExpectedType
  <2>2. Add(s, pkt) = [kinds |-> s.kinds \union {Kind(pkt)}, cyclic |-> 0,
                       expected |-> NextExpected(s.expected, pkt)]
    BY <1>3 DEF Add
  <2> QED
    BY <1>1, <1>3, <1>4, <2>1, <2>2, ConstantTypes DEF Summary, None
<1> QED
  BY <1>2, <1>3

LEMMA AfterType ==
  ASSUME NEW t \in Nat, NEW d \in Nat
  PROVE  After(t, d) \in Nat /\ After(t, d) <= MaxTime /\ After(t, d) <= t + d
  BY ConstantTypes DEF After

LEMMA ReadsType ==
  ASSUME NEW x \in View, NEW pkt \in Packets \union {"OTHER"}, NEW enc \in BOOLEAN
  PROVE  Reads(x, pkt, enc) \in View /\ Reads(x, pkt, enc).t <= x.t + 1
<1>1. x.pkts \in Summary /\ x.t \in Nat
  BY DEF View
<1>2. CASE pkt = "OTHER"
  BY <1>1, <1>2, AfterType DEF Reads, View
<1>3. CASE pkt # "OTHER"
  <2>1. Add(x.pkts, pkt) \in Summary
    BY <1>1, <1>3, AddType
  <2> QED
    BY <1>1, <1>3, <2>1, AfterType DEF Reads, View
<1> QED
  BY <1>2, <1>3

\* GoesOn is enough in each flavour, for each request (BLESUL_NimBLE.py:23-41,
\* BLESUL_nRF52840DKNimBLE.py:20-34).
LEMMA GoesOnNotComplete ==
  ASSUME InTime, NEW x \in View, NEW tmin \in Nat, GoesOn(x, tmin)
  PROVE  ~ is_rsp_complete(x.pkts, x.t, tmin)
<1>1. x.t \in Nat /\ x.t < RecvMax /\ RecvMax \in Nat /\ ConnectMax \in Nat /\ RecvMax <= ConnectMax
  BY ConstantTypes DEF View, GoesOn, InTime
<1>2. ~ StopReceiving(x.pkts, x.t, tmin, RecvMax) /\ ~ StopReceiving(x.pkts, x.t, tmin, ConnectMax)
  BY <1>1 DEF StopReceiving, GoesOn
<1> QED
  BY <1>1, <1>2 DEF is_rsp_complete, GoesOn

Ports == Seq(Packets \union {"OTHER"})

LEMMA AppendFacts ==
  ASSUME NEW S, NEW s \in Seq(S), NEW e \in S
  PROVE  /\ Append(s, e) \in Seq(S) /\ Len(s) \in Nat
         /\ Len(Append(s, e)) = Len(s) + 1
         /\ DOMAIN Append(s, e) = DOMAIN s \union {Len(s) + 1}
         /\ DOMAIN s = 1 .. Len(s)
         /\ \A k \in DOMAIN s : Append(s, e)[k] = s[k] /\ k <= Len(s)
         /\ Append(s, e)[Len(s) + 1] = e
  OBVIOUS

LEMMA TailFacts ==
  ASSUME NEW S, NEW s \in Seq(S), s # <<>>
  PROVE  /\ Tail(s) \in Seq(S) /\ Head(s) = s[1] /\ Head(s) \in S
         /\ Len(s) \in Nat /\ Len(s) >= 1 /\ Len(Tail(s)) = Len(s) - 1
         /\ DOMAIN s = 1 .. Len(s) /\ DOMAIN Tail(s) = 1 .. Len(s) - 1
         /\ \A k \in DOMAIN Tail(s) : k + 1 \in DOMAIN s /\ Tail(s)[k] = s[k + 1]
         /\ \A k \in DOMAIN s : k = 1 \/ (k - 1 \in DOMAIN Tail(s) /\ Tail(s)[k - 1] = s[k])
  OBVIOUS

\* One more packet in the port: what was ahead stays ahead.
LEMMA RunExtends ==
  ASSUME NEW s \in Ports, NEW pkt \in Packets \union {"OTHER"}, NEW enc \in BOOLEAN,
         NEW x, NEW run, IsRun(run, x, s, enc)
  PROVE  \E longer : /\ IsRun(longer, x, Append(s, pkt), enc)
                     /\ \A j \in 0 .. Len(s) : longer[j] = run[j]
                     /\ longer[Len(s) + 1] = Reads(run[Len(s)], pkt, enc)
<1> DEFINE n == Len(s)
           last == Reads(run[n], pkt, enc)
           longer == [j \in 0 .. n + 1 |-> IF j = n + 1 THEN last ELSE run[j]]
<1>1. n \in Nat /\ Len(Append(s, pkt)) = n + 1 /\ Append(s, pkt)[n + 1] = pkt
      /\ \A k \in 1 .. n : Append(s, pkt)[k] = s[k]
  BY DEF Ports
<1>2. run \in [0 .. n -> View] /\ run[0] = x /\ \A j \in 1 .. n : run[j] = Reads(run[j - 1], s[j], enc)
  BY DEF IsRun
<1>3. last \in View
  BY <1>1, <1>2, ReadsType
<1> HIDE DEF last
<1>4. longer \in [0 .. n + 1 -> View]
  BY <1>1, <1>2, <1>3
<1>5. longer[0] = x /\ longer[n + 1] = last /\ \A j \in 0 .. n : longer[j] = run[j]
  BY <1>1, <1>2
<1>6. ASSUME NEW j \in 1 .. n + 1
      PROVE  longer[j] = Reads(longer[j - 1], Append(s, pkt)[j], enc)
  <2>1. CASE j = n + 1
    <3>1. longer[j] = last /\ longer[j - 1] = run[n] /\ Append(s, pkt)[j] = pkt
      BY <1>1, <1>5, <2>1
    <3> QED
      BY <3>1 DEF last
  <2>2. CASE j # n + 1
    <3>1. j \in 1 .. n /\ j - 1 \in 0 .. n /\ j \in 0 .. n
      BY <1>1, <2>2
    <3>2. longer[j] = run[j] /\ longer[j - 1] = run[j - 1] /\ Append(s, pkt)[j] = s[j]
      BY <1>1, <1>5, <3>1
    <3> QED
      BY <1>2, <3>1, <3>2
  <2> QED
    BY <2>1, <2>2
<1> HIDE DEF longer
<1>7. IsRun(longer, x, Append(s, pkt), enc)
  BY <1>1, <1>4, <1>5, <1>6 DEF IsRun
<1> QED
  BY <1>5, <1>7 DEF last

\* One packet read: the rest of what was ahead is ahead.
LEMMA RunShifts ==
  ASSUME NEW s \in Ports, s # <<>>, NEW enc \in BOOLEAN,
         NEW x, NEW run, IsRun(run, x, s, enc)
  PROVE  \E rest : /\ IsRun(rest, Reads(x, Head(s), enc), Tail(s), enc)
                   /\ \A j \in 0 .. Len(Tail(s)) : rest[j] = run[j + 1]
<1> DEFINE n == Len(s)
           rest == [j \in 0 .. n - 1 |-> run[j + 1]]
<1>1. n \in Nat /\ n >= 1 /\ Len(Tail(s)) = n - 1 /\ Head(s) = s[1]
      /\ \A k \in 1 .. n - 1 : Tail(s)[k] = s[k + 1]
  BY DEF Ports
<1>2. run \in [0 .. n -> View] /\ run[0] = x /\ \A j \in 1 .. n : run[j] = Reads(run[j - 1], s[j], enc)
  BY DEF IsRun
<1>3. rest \in [0 .. n - 1 -> View]
  BY <1>1, <1>2
<1>4. \A j \in 0 .. n - 1 : rest[j] = run[j + 1]
  OBVIOUS
<1>5. rest[0] = Reads(x, Head(s), enc)
  <2>1. 1 \in 1 .. n /\ 0 \in 0 .. n - 1 /\ 1 - 1 = 0 /\ 0 + 1 = 1
    BY <1>1
  <2>2. run[1] = Reads(run[0], s[1], enc)
    BY <1>2, <2>1
  <2> QED
    BY <1>1, <1>2, <1>4, <2>1, <2>2
<1> HIDE DEF rest
<1>6. ASSUME NEW j \in 1 .. n - 1
      PROVE  rest[j] = Reads(rest[j - 1], Tail(s)[j], enc)
  <2>1. j + 1 \in 1 .. n /\ j \in 0 .. n - 1 /\ j - 1 \in 0 .. n - 1
        /\ (j - 1) + 1 = j /\ (j + 1) - 1 = j
    BY <1>1
  <2>2. run[j + 1] = Reads(run[j], s[j + 1], enc)
    BY <1>2, <2>1
  <2>3. rest[j] = run[j + 1] /\ rest[j - 1] = run[j]
    BY <1>4, <2>1
  <2> QED
    BY <1>1, <2>2, <2>3
<1>7. IsRun(rest, Reads(x, Head(s), enc), Tail(s), enc)
  BY <1>1, <1>3, <1>5, <1>6 DEF IsRun
<1> QED
  BY <1>1, <1>4, <1>7

-----------------------------------------------------------------------------
(* Types                                                                   *)

LEMMA IntervalSize ==
  ASSUME NEW a \in Nat, NEW b \in Nat, a <= b
  PROVE  IsFiniteSet(a + 1 .. b) /\ Cardinality(a + 1 .. b) = b - a
<1>1. CASE a = b
  <2>1. a + 1 .. b = {}
    BY <1>1
  <2> QED
    BY <1>1, <2>1, FS_EmptySet
<1>2. CASE a # b
  BY <1>2, FS_Interval
<1> QED
  BY <1>1, <1>2

\* The cyclic packets at the end of the port are not more than there are packets,
\* nor than there are behind a question.
LEMMA LastCyclicSize ==
  ASSUME NEW s \in Ports
  PROVE  /\ IsFiniteSet(LastCyclic(s)) /\ Cardinality(LastCyclic(s)) \in Nat
         /\ Cardinality(LastCyclic(s)) <= Len(s)
         /\ \A k \in DOMAIN s : s[k] = "ASK" => Cardinality(LastCyclic(s)) <= Len(s) - k
<1>1. Len(s) \in Nat /\ DOMAIN s = 1 .. Len(s)
  BY DEF Ports
<1>2. ASSUME NEW a \in 0 .. Len(s), LastCyclic(s) \subseteq a + 1 .. Len(s)
      PROVE  /\ IsFiniteSet(LastCyclic(s)) /\ Cardinality(LastCyclic(s)) \in Nat
             /\ Cardinality(LastCyclic(s)) <= Len(s) - a
  <2>1. IsFiniteSet(a + 1 .. Len(s)) /\ Cardinality(a + 1 .. Len(s)) = Len(s) - a
    BY <1>1, IntervalSize
  <2>2. IsFiniteSet(LastCyclic(s)) /\ Cardinality(LastCyclic(s)) <= Cardinality(a + 1 .. Len(s))
    BY <1>2, <2>1, FS_Subset
  <2> QED
    BY <2>1, <2>2, FS_CardinalityType
<1>3. LastCyclic(s) \subseteq 0 + 1 .. Len(s)
  BY <1>1 DEF LastCyclic
<1>4. ASSUME NEW k \in DOMAIN s, s[k] = "ASK" PROVE LastCyclic(s) \subseteq k + 1 .. Len(s)
  BY <1>1, <1>4 DEF LastCyclic, Cyclic
<1>5. 0 \in 0 .. Len(s) /\ \A k \in DOMAIN s : k \in 0 .. Len(s)
  BY <1>1
<1>6. /\ IsFiniteSet(LastCyclic(s)) /\ Cardinality(LastCyclic(s)) \in Nat
      /\ Cardinality(LastCyclic(s)) <= Len(s) - 0
  BY <1>2, <1>3, <1>5
<1>7. \A k \in DOMAIN s : s[k] = "ASK" => Cardinality(LastCyclic(s)) <= Len(s) - k
  BY <1>2, <1>4, <1>5
<1> QED
  BY <1>1, <1>6, <1>7

MapperTypes ==
  /\ packets \in Summary /\ res_pkts \in Summary /\ receiving \in BOOLEAN
  /\ time \in 0 .. MaxTime /\ time_all \in 0 .. MaxTime

\* What a turn leaves in the mapper's variables.
LEMMA TurnType ==
  ASSUME TypeOK, NEW p \in Summary, NEW q \in Summary,
         NEW t \in 0 .. MaxTime, NEW ta \in 0 .. MaxTime, TurnEnds(p, q, t, ta)
  PROVE  MapperTypes'
<1>1. CASE req = "ENC_REQ"
  <2>1. EncTurnEnds(p, q, t, ta)
    BY <1>1 DEF TurnEnds
  <2>2. packets' = None /\ time' \in {0, t} /\ receiving' \in {TRUE, FALSE, receiving}
        /\ res_pkts' = q /\ time_all' = ta
    BY <2>1, Zenon DEF EncTurnEnds
  <2>3. receiving \in BOOLEAN /\ 0 \in 0 .. MaxTime
    BY ConstantTypes DEF TypeOK
  <2> QED
    BY <2>2, <2>3, NoneType DEF MapperTypes
<1>2. CASE req # "ENC_REQ"
  BY <1>2 DEF MapperTypes, TypeOK, TurnEnds, Summary
<1> QED
  BY <1>1, <1>2

LEMMA TypeFacts ==
  ASSUME TypeOK
  PROVE  /\ port \in Ports /\ Len(port) \in Nat /\ DOMAIN port = 1 .. Len(port)
         /\ packets \in Summary /\ res_pkts \in Summary
         /\ time \in Nat /\ time_all \in Nat /\ time <= MaxTime /\ time_all <= MaxTime
         /\ phase \in Nat /\ phase <= Interval /\ receiving \in BOOLEAN /\ waits \in BOOLEAN
         /\ pending \in Seq(Expect) /\ Len(pending) \in Nat
         /\ gap \in Nat /\ due \in 0 .. 3 /\ asks \in Nat /\ asks <= MaxAsks
         /\ recv_s_min \in ScanMins \union {RecvMin} /\ recv_s_min \in Nat
  BY ConstantTypes DEF TypeOK, Ports, Summary

\* What a turn of receive() changes, except for a Raw packet.
LEMMA TurnTypeOK ==
  ASSUME TypeOK, receiving, phase > 0, phase' = phase - 1,
         MapperTypes', port' \in Ports, pending' \in Seq(Expect), waits' \in BOOLEAN,
         misled' \in BOOLEAN,
         UNCHANGED <<flavour, reset_cmd, req, recv_s_min, bounds, gap, due>>
  PROVE  TypeOK'
<1>1. phase' \in 0 .. Interval
  BY ConstantTypes DEF TypeOK
<1>2. /\ {packets', res_pkts'} \subseteq Summary /\ receiving' \in BOOLEAN
      /\ time' \in 0 .. MaxTime /\ time_all' \in 0 .. MaxTime
  BY DEF MapperTypes
<1> QED
  BY <1>1, <1>2 DEF TypeOK, Ports, Summary, bounds

LEMMA NewTimes ==
  ASSUME TypeOK
  PROVE  /\ After(time, 1) \in 0 .. MaxTime /\ After(time_all, 1) \in 0 .. MaxTime
         /\ After(time, 1 + ResetTime) \in 0 .. MaxTime
         /\ After(time_all, 1 + ResetTime) \in 0 .. MaxTime /\ 0 \in 0 .. MaxTime
<1>1. time \in Nat /\ time_all \in Nat /\ 1 \in Nat /\ 1 + ResetTime \in Nat
  BY TypeFacts, ConstantTypes
<1>2. ASSUME NEW t \in Nat, NEW d \in Nat PROVE After(t, d) \in 0 .. MaxTime
  BY AfterType, ConstantTypes
<1>3. 0 \in 0 .. MaxTime
  BY ConstantTypes
<1> QED
  BY ONLY <1>1, <1>2, <1>3

LEMMA ReceiveTypeOK == TypeOK /\ receive => TypeOK'
<1> SUFFICES ASSUME TypeOK, receive PROVE TypeOK'
  OBVIOUS
<1>1. /\ receiving /\ phase > 0 /\ phase' = phase - 1
      /\ UNCHANGED <<flavour, reset_cmd, req, recv_s_min, bounds>>
  BY DEF receive
<1>2. /\ port \in Ports /\ packets \in Summary /\ res_pkts \in Summary
      /\ pending \in Seq(Expect) /\ waits \in BOOLEAN /\ misled \in BOOLEAN
  BY TypeFacts DEF TypeOK
<1>3. \A pkt \in Packets : Add(packets, pkt) \in Summary /\ Add(res_pkts, pkt) \in Summary
  BY <1>2, AddType
<1>4. port # <<>> => Tail(port) \in Ports
  BY <1>2, TailFacts DEF Ports
<1>5. CASE NothingToRead
  <2>1. TurnEnds(packets, res_pkts, After(time, 1), After(time_all, 1))
        /\ UNCHANGED <<port, dev_vars, misled>>
    BY <1>5 DEF NothingToRead
  <2>2. MapperTypes'
    BY <1>2, <2>1, NewTimes, TurnType
  <2> QED
    BY <1>1, <1>2, <2>1, <2>2, TurnTypeOK DEF dev_vars
<1>6. CASE Ignored
  <2>1. TurnEnds(packets, res_pkts, After(time, 1), After(time_all, 1))
        /\ port # <<>> /\ port' = Tail(port) /\ UNCHANGED <<dev_vars, misled>>
    BY <1>6 DEF Ignored
  <2>2. MapperTypes'
    BY <1>2, <2>1, NewTimes, TurnType
  <2> QED
    BY <1>1, <1>2, <1>4, <2>1, <2>2, TurnTypeOK DEF dev_vars
<1>7. CASE Received
  <2>1. PacketEnds(Head(port), After(time, 1), After(time_all, 1))
        /\ Head(port) \in Packets
        /\ port # <<>> /\ port' = Tail(port) /\ UNCHANGED <<dev_vars, misled>>
    BY <1>7 DEF Received, Packets
  <2>2. MapperTypes'
    BY <1>3, <2>1, NewTimes, TurnType DEF PacketEnds
  <2> QED
    BY <1>1, <1>2, <1>4, <2>1, <2>2, TurnTypeOK DEF dev_vars
<1>8. CASE Asked
  <2>1. PacketEnds("ASK", 0, After(time_all, 1))
        /\ "ASK" \in Packets /\ waits' = FALSE
        /\ port # <<>> /\ port' = Tail(port) /\ UNCHANGED <<pending, gap, due, misled>>
    BY <1>8 DEF Asked, Packets
  <2>2. MapperTypes'
    BY <1>3, <2>1, NewTimes, TurnType DEF PacketEnds
  <2> QED
    BY <1>1, <1>2, <1>4, <2>1, <2>2, TurnTypeOK
<1>9. CASE RawReceived
  <2>1. PacketEnds("RAW", After(time, 1 + ResetTime), After(time_all, 1 + ResetTime))
        /\ "RAW" \in Packets /\ port # <<>> /\ ResetsDevice /\ UNCHANGED <<gap, due>>
    BY <1>9 DEF RawReceived, Packets
  <2>2. MapperTypes'
    BY <1>3, <2>1, NewTimes, TurnType DEF PacketEnds
  <2>3. /\ port' \in {<<>>, Tail(port)} /\ pending' \in {<<>>, pending}
        /\ waits' \in {FALSE, waits} /\ misled' \in {TRUE, misled}
    BY <2>1 DEF ResetsDevice
  <2>4. <<>> \in Ports /\ <<>> \in Seq(Expect)
    BY DEF Ports
  <2> QED
    BY <1>1, <1>2, <1>4, <2>1, <2>2, <2>3, <2>4, TurnTypeOK
<1> QED
  BY <1>5, <1>6, <1>7, <1>8, <1>9 DEF receive

\* Only one connection event comes between two turns of the loop.
LEMMA BacklogBound ==
  ASSUME TypeOK, Backlog, receiving => phase = 0
  PROVE  Len(port) <= MaxBacklog
  BY ConstantTypes DEF Backlog

LEMMA DueType ==
  ASSUME TypeOK, NEW pkt
  PROVE  Due(pkt) \in 0 .. 3
  BY TypeFacts DEF Due

\* a connection event that sends pkt
LEMMA SentTypeOK ==
  ASSUME TypeOK, NEW pkt \in Packets \union {"OTHER"}, Sends(pkt), phase' \in 0 .. Interval,
         pending' \in Seq(Expect), waits' \in BOOLEAN, due' \in 0 .. 3,
         gap' \in 0 .. CyclicLong + MaxBacklog, misled' \in BOOLEAN,
         others' \in 0 .. MaxOthers, asks' \in 0 .. MaxAsks, raws' \in 0 .. MaxRaw,
         UNCHANGED mapper_vars
  PROVE  TypeOK'
<1>1. port' \in Seq(Packets \union {"OTHER"})
  BY DEF Sends, TypeOK
<1> QED
  BY <1>1 DEF TypeOK, mapper_vars

LEMMA EventTypeOK == TypeOK /\ ConnectionEvent => TypeOK'
<1> SUFFICES ASSUME TypeOK, ConnectionEvent PROVE TypeOK'
  OBVIOUS
<1>1. phase' \in 0 .. Interval /\ UNCHANGED mapper_vars
      /\ misled' = misled /\ misled' \in BOOLEAN
  BY ConstantTypes DEF ConnectionEvent, TypeOK
<1>2. /\ pending \in Seq(Expect) /\ waits \in BOOLEAN /\ due \in 0 .. 3
      /\ gap \in 0 .. CyclicLong + MaxBacklog
      /\ others \in 0 .. MaxOthers /\ asks \in 0 .. MaxAsks /\ raws \in 0 .. MaxRaw
  BY DEF TypeOK
<1>3. 0 \in 0 .. CyclicLong + MaxBacklog
  BY ConstantTypes
<1>4. CASE Answer
  <2>1. /\ Sends(Head(pending)) /\ pending' = Tail(pending) /\ pending # <<>>
        /\ gap' = 0 /\ due' = Due(Head(pending)) /\ UNCHANGED <<waits, bounds>>
    BY <1>4 DEF Answer
  <2>2. Head(pending) \in Packets /\ pending' \in Seq(Expect)
    BY <1>2, <2>1, TailFacts DEF Packets
  <2> QED
    BY <1>1, <1>2, <1>3, <2>1, <2>2, DueType, SentTypeOK DEF bounds
<1>5. CASE SendsCyclic
  <2>1. /\ Sends(CyclicPacket) /\ UNCHANGED <<pending, waits, due, bounds>>
        /\ gap' = IF gap < CyclicLong THEN gap + 1 ELSE gap
    BY <1>5 DEF SendsCyclic
  <2>2. CyclicPacket \in Packets
    BY DEF CyclicPacket, Packets, Cyclic
  <2>3. gap' \in 0 .. CyclicLong + MaxBacklog
    BY <1>2, <2>1, ConstantTypes
  <2> QED
    BY <1>1, <1>2, <2>1, <2>2, <2>3, SentTypeOK DEF bounds
<1>6. CASE Ask
  <2>1. /\ Sends("ASK") /\ UNCHANGED <<pending, others, raws>> /\ waits' = TRUE
        /\ gap' = 0 /\ due' = Due("ASK") /\ asks < MaxAsks /\ asks' = asks + 1
    BY <1>6 DEF Ask
  <2>2. "ASK" \in Packets /\ asks' \in 0 .. MaxAsks
    BY <1>2, <2>1, ConstantTypes DEF Packets
  <2> QED
    BY <1>1, <1>2, <1>3, <2>1, <2>2, DueType, SentTypeOK
<1>7. CASE SendsRaw
  <2>1. /\ Sends("RAW") /\ UNCHANGED <<pending, waits, others, asks>>
        /\ gap' = 0 /\ due' = Due("RAW") /\ raws < MaxRaw /\ raws' = raws + 1
    BY <1>7 DEF SendsRaw
  <2>2. "RAW" \in Packets /\ raws' \in 0 .. MaxRaw
    BY <1>2, <2>1, ConstantTypes DEF Packets
  <2> QED
    BY <1>1, <1>2, <1>3, <2>1, <2>2, DueType, SentTypeOK
<1>8. CASE Silent
  BY <1>1, <1>8 DEF Silent, TypeOK, mapper_vars, dev_vars, bounds
<1> QED
  BY <1>4, <1>5, <1>6, <1>7, <1>8 DEF ConnectionEvent

LEMMA SendTypeOK == \A r \in DOMAIN Answers : TypeOK /\ Backlog /\ Send(r) => TypeOK'
<1> SUFFICES ASSUME NEW r \in DOMAIN Answers, TypeOK, Backlog, Send(r) PROVE TypeOK'
  OBVIOUS
<1>1. /\ ~receiving /\ req' = r /\ receiving' = TRUE
      /\ recv_s_min' \in ScanMins \union {RecvMin}
      /\ packets' = None /\ time' = 0 /\ res_pkts' = None /\ time_all' = 0
      /\ (\E a \in Answers[r] : pending' = pending \o a) /\ misled' \in BOOLEAN
      /\ gap' = Cardinality(LastCyclic(port))
      /\ due' \in 0 .. 3
      /\ others' = 0 /\ asks' = 0 /\ raws' = 0
      /\ UNCHANGED <<flavour, reset_cmd, port, phase, waits>>
  <2>1. misled' = ((misled /\ LeftOver) \/ \E k \in DOMAIN port : port[k] = "LATE")
    BY DEF Send
  <2>2. misled' \in BOOLEAN
    BY <2>1, Zenon
  <2>3. /\ recv_s_min' \in (IF r = "SCAN_REQ" THEN ScanMins ELSE {RecvMin})
        /\ due' = IF \E k \in DOMAIN port : port[k] = "ASK" THEN 0 ELSE 1
    BY DEF Send
  <2>4. recv_s_min' \in ScanMins \union {RecvMin} /\ due' \in 0 .. 3
    BY <2>3
  <2>5. \E a \in Answers[r] : pending' = pending \o a
    BY DEF Send
  <2>6. /\ ~receiving /\ req' = r /\ receiving' = TRUE
        /\ packets' = None /\ time' = 0 /\ res_pkts' = None /\ time_all' = 0
        /\ gap' = Cardinality(LastCyclic(port))
        /\ others' = 0 /\ asks' = 0 /\ raws' = 0
        /\ UNCHANGED <<flavour, reset_cmd, port, phase, waits>>
    BY DEF Send
  <2> QED
    BY <2>2, <2>4, <2>5, <2>6
<1>2. pending' \in Seq(Expect)
  <2>1. \A a \in Answers[r] : a \in Seq(Expect)
    BY ReceiveLoopAssumption
  <2> QED
    BY <1>1, <2>1, TypeFacts
<1>3. gap' \in 0 .. CyclicLong + MaxBacklog
  <2>1. Len(port) <= MaxBacklog /\ port \in Ports
    BY <1>1, BacklogBound, TypeFacts
  <2>2. Cardinality(LastCyclic(port)) \in Nat /\ Cardinality(LastCyclic(port)) <= Len(port)
    BY <2>1, LastCyclicSize
  <2> QED
    BY <1>1, <2>1, <2>2, TypeFacts, ConstantTypes
<1>4. {packets', res_pkts'} \subseteq Summary
  BY <1>1, NoneType
<1>5. /\ 0 \in 0 .. MaxTime /\ 0 \in 0 .. MaxOthers /\ 0 \in 0 .. MaxAsks /\ 0 \in 0 .. MaxRaw
  BY ConstantTypes
<1> QED
  BY <1>1, <1>2, <1>3, <1>4, <1>5 DEF TypeOK, Summary

LEMMA OtherTypeOK ==
  TypeOK /\ (Other \/ LateScanRsp \/ TimePasses \/ UNCHANGED vars) => TypeOK'
<1> SUFFICES ASSUME TypeOK, Other \/ LateScanRsp \/ TimePasses \/ UNCHANGED vars
             PROVE  TypeOK'
  OBVIOUS
<1>1. CASE Other
  <2>1. /\ Sends("OTHER") /\ others < MaxOthers /\ others' = others + 1
        /\ UNCHANGED <<mapper_vars, phase, dev_vars, misled, asks, raws>>
    BY <1>1 DEF Other
  <2>2. others' \in 0 .. MaxOthers
    BY <2>1, ConstantTypes DEF TypeOK
  <2> QED
    BY <2>1, <2>2, SentTypeOK DEF TypeOK, dev_vars
<1>4. CASE LateScanRsp
  <2>1. /\ Sends("LATE") /\ others < MaxOthers /\ others' = others + 1
        /\ misled' \in BOOLEAN
        /\ UNCHANGED <<mapper_vars, phase, dev_vars, asks, raws>>
    BY <1>4 DEF LateScanRsp
  <2>2. others' \in 0 .. MaxOthers /\ "LATE" \in Packets
    BY <2>1, ConstantTypes DEF TypeOK, Packets
  <2> QED
    BY <2>1, <2>2, SentTypeOK DEF TypeOK, dev_vars
<1>2. CASE TimePasses
  <2>1. phase' \in 0 .. Interval
    BY <1>2, ConstantTypes DEF TimePasses, TypeOK
  <2> QED
    BY <1>2, <2>1 DEF TimePasses, TypeOK, mapper_vars, dev_vars, bounds
<1>3. CASE UNCHANGED vars
  BY <1>3 DEF TypeOK, vars, mapper_vars, dev_vars, bounds
<1> QED
  BY <1>1, <1>2, <1>3, <1>4

LEMMA NextTypeOK == TypeOK /\ Backlog /\ [Next]_vars => TypeOK'
  BY ReceiveTypeOK, EventTypeOK, SendTypeOK, OtherTypeOK DEF Next

LEMMA InitTypeOK == Init => TypeOK /\ Backlog
<1> SUFFICES ASSUME Init PROVE TypeOK /\ Backlog
  OBVIOUS
<1>1. {packets, res_pkts} \subseteq Summary
  BY NoneType DEF Init
<1>2. Backlog
  BY ConstantTypes DEF Init, Backlog
<1>3. /\ 0 \in 0 .. MaxTime /\ 0 \in 0 .. MaxOthers /\ 0 \in 0 .. MaxAsks /\ 0 \in 0 .. MaxRaw
      /\ 0 \in 0 .. CyclicLong + MaxBacklog /\ 0 \in 0 .. 3
  BY ConstantTypes
<1>5. <<flavour, reset_cmd>> \in Mappers
  <2>1. PICK m \in Mappers : flavour = m[1] /\ reset_cmd = m[2]
    BY DEF Init
  <2>2. m \in Flavours \X ResetCmds
    BY ReceiveLoopAssumption
  <2>3. m = <<m[1], m[2]>>
    BY <2>2
  <2> QED
    BY <2>1, <2>3
<1>4. port \in Seq(Packets \union {"OTHER"}) /\ pending \in Seq(Expect)
  BY DEF Init
<1> QED
  BY <1>1, <1>2, <1>3, <1>4, <1>5 DEF Init, TypeOK, Summary

LEMMA NextBacklog == TypeOK /\ Backlog /\ [Next]_vars => Backlog'
<1> SUFFICES ASSUME TypeOK, Backlog, [Next]_vars PROVE Backlog'
  OBVIOUS
<1>1. /\ port \in Ports /\ Len(port) \in Nat /\ MaxBacklog \in Nat
      /\ Interval \in Nat /\ Interval > 0
  BY TypeFacts, ConstantTypes
<1>2. ASSUME NEW r \in DOMAIN Answers, Send(r) PROVE Backlog'
  BY <1>1, <1>2 DEF Send, Backlog
<1>3. CASE receive
  <2>1. Len(port') <= MaxBacklog
    <3>1. CASE port = <<>>
      BY <1>1, <1>3, <3>1 DEF receive, NothingToRead, Ignored, Received, Asked, RawReceived,
                                   ResetsDevice
    <3>2. CASE port # <<>>
      <4>1. port' = Tail(port) \/ port' = <<>>
        BY <1>3, <3>2 DEF receive, NothingToRead, Ignored, Received, Asked, RawReceived,
                                   ResetsDevice
      <4>2. Len(Tail(port)) = Len(port) - 1
        BY <1>1, <3>2, TailFacts DEF Ports
      <4>3. Len(port) <= MaxBacklog + 1
        BY <1>1 DEF Backlog
      <4>4. port' = <<>> => Len(port') <= MaxBacklog
        BY <1>1
      <4>5. Len(Tail(port)) <= MaxBacklog
        BY <1>1, <4>2, <4>3
      <4> QED
        BY <4>1, <4>4, <4>5
    <3> QED
      BY <3>1, <3>2
  <2> QED
    BY <2>1 DEF Backlog
<1>4. CASE ConnectionEvent
  <2>1. /\ phase = 0 /\ phase' = Interval /\ receiving' = receiving
        /\ receiving \/ Len(port) < MaxBacklog
    BY <1>4 DEF ConnectionEvent, mapper_vars
  <2>2. Len(port) <= MaxBacklog
    BY <2>1, BacklogBound
  <2>3. port' = port \/ \E pkt \in Packets : Sends(pkt)
    <3>1. ASSUME Answer PROVE Head(pending) \in Packets /\ Sends(Head(pending))
      BY <3>1, TypeFacts, TailFacts DEF Answer, Packets
    <3> QED
      BY <1>4, <3>1 DEF ConnectionEvent, SendsCyclic, Ask, SendsRaw, Silent, CyclicPacket,
                        Packets, Cyclic
  <2>4. Len(port') <= Len(port) + 1 /\ Len(port') \in Nat
    BY <1>1, <2>3, AppendFacts DEF Sends, Ports
  <2>5. CASE receiving
    BY <1>1, <2>1, <2>2, <2>4, <2>5 DEF Backlog
  <2>6. CASE ~receiving
    <3>1. Len(port') <= MaxBacklog
      BY <1>1, <2>1, <2>4, <2>6
    <3> QED
      BY <3>1 DEF Backlog
  <2> QED
    BY <2>5, <2>6
<1>5. CASE Other
  <2>1. Len(port') = Len(port) + 1 /\ Len(port) < MaxBacklog
    BY <1>1, <1>5, AppendFacts DEF Other, Sends, Ports
  <2> QED
    BY <1>1, <2>1 DEF Backlog
<1>8. CASE LateScanRsp
  <2>1. Len(port') = Len(port) + 1 /\ Len(port) < MaxBacklog
    BY <1>1, <1>8, AppendFacts DEF LateScanRsp, Sends, Ports, Packets
  <2> QED
    BY <1>1, <2>1 DEF Backlog
<1>6. CASE TimePasses
  <2>1. ~receiving /\ port' = port
    BY <1>6 DEF TimePasses
  <2> QED
    BY <2>1 DEF Backlog
<1>7. CASE UNCHANGED vars
  BY <1>7 DEF Backlog, vars, mapper_vars
<1> QED
  BY <1>2, <1>3, <1>4, <1>5, <1>6, <1>7, <1>8 DEF Next

\* Every variable keeps its type, the count of expected answers above all
\* (BLESUL.py:374).
THEOREM TypeCorrect == Spec => []TypeOK
<1>1. TypeOK /\ Backlog /\ [Next]_vars => (TypeOK /\ Backlog)'
  BY NextTypeOK, NextBacklog
<1> QED
  BY InitTypeOK, <1>1, PTL DEF Spec

-----------------------------------------------------------------------------
(* What the steps do                                                       *)

\* the three kinds of turns: nothing in the port, a packet, a Raw packet
Pauses ==
  /\ port = <<>> /\ port' = <<>> /\ UNCHANGED <<pending, waits, gap, due>>

ReadsOne ==
  /\ port # <<>> /\ Head(port) # "RAW" /\ port' = Tail(port)
  /\ waits' = IF Head(port) = "ASK" THEN FALSE ELSE waits
  /\ UNCHANGED <<pending, gap, due>>

Clears ==
  /\ port # <<>> /\ Head(port) = "RAW"
  /\ port' = <<>> /\ pending' = <<>> /\ waits' = FALSE

\* what the turn asks is_rsp_complete
Asks ==
  IF port = <<>> THEN [Now EXCEPT !.t = After(Now.t, 1)] ELSE Reads(Now, Head(port), Enc)

LEMMA NowType == TypeOK => Now \in View /\ Now.t <= MaxTime
  BY TypeFacts DEF Now, View

LEMMA AsksType == TypeOK => Asks \in View
<1> SUFFICES ASSUME TypeOK PROVE Asks \in View
  OBVIOUS
<1>1. Now \in View /\ Now.pkts \in Summary /\ Now.t \in Nat
  BY NowType DEF View
<1>2. CASE port = <<>>
  BY <1>1, <1>2, AfterType DEF Asks, View
<1>3. CASE port # <<>>
  <2>1. Head(port) \in Packets \union {"OTHER"}
    BY <1>3, TypeFacts, TailFacts DEF Ports
  <2> QED
    BY <1>1, <1>3, <2>1, ReadsType DEF Asks, Enc
<1> QED
  BY <1>2, <1>3

LEMMA TurnCases ==
  ASSUME TypeOK, receive, ~misled'
  PROVE  /\ receiving /\ phase > 0 /\ phase' = phase - 1
         /\ UNCHANGED <<flavour, req, recv_s_min, asks>>
         /\ Pauses \/ ReadsOne \/ Clears
<1>1. /\ receiving /\ phase > 0 /\ phase' = phase - 1
      /\ UNCHANGED <<flavour, req, recv_s_min, asks>>
  BY DEF receive, bounds
<1>2. CASE NothingToRead
  BY <1>1, <1>2 DEF NothingToRead, Pauses, dev_vars
<1>3. CASE Ignored
  BY <1>1, <1>3 DEF Ignored, ReadsOne, dev_vars
<1>4. CASE Received
  BY <1>1, <1>4 DEF Received, ReadsOne, dev_vars, Cyclic, Expect
<1>5. CASE Asked
  BY <1>1, <1>5 DEF Asked, ReadsOne
<1>6. CASE RawReceived
  BY <1>1, <1>6 DEF RawReceived, ResetsDevice, Clears
<1> QED
  BY <1>1, <1>2, <1>3, <1>4, <1>5, <1>6 DEF receive

\* The end of a turn, for all requests alike.
LEMMA TurnEndsView ==
  ASSUME TypeOK, MinOfRequest, receiving, UNCHANGED req, NEW p, NEW q, NEW t, NEW ta,
         TurnEnds(p, q, t, ta)
  PROVE  /\ receiving' => Now' = [pkts |-> IF Enc THEN q ELSE p, t |-> IF Enc THEN ta ELSE t]
         /\ ~ is_rsp_complete(IF Enc THEN q ELSE p, IF Enc THEN ta ELSE t, recv_s_min)
              => receiving'
<1>1. CASE req = "ENC_REQ"
  <2>1. EncTurnEnds(p, q, t, ta)
    BY <1>1 DEF TurnEnds
  <2>2. res_pkts' = q /\ time_all' = ta
    BY <2>1 DEF EncTurnEnds
  <2>3. ~ is_rsp_complete(q, ta, RecvMin) => receiving'
    BY <2>1, Zenon DEF EncTurnEnds
  <2>4. recv_s_min = RecvMin /\ Enc /\ Enc'
    BY <1>1 DEF MinOfRequest, Enc
  <2>5. Now' = [pkts |-> q, t |-> ta]
    BY <2>2, <2>4 DEF Now
  <2> QED
    BY <2>3, <2>4, <2>5
<1>2. CASE req # "ENC_REQ"
  <2>1. packets' = p /\ time' = t /\ receiving' = ~ is_rsp_complete(p, t, recv_s_min)
    BY <1>2 DEF TurnEnds
  <2>2. ~Enc /\ ~Enc'
    BY <1>2 DEF Enc
  <2>3. Now' = [pkts |-> p, t |-> t]
    BY <2>1, <2>2 DEF Now
  <2> QED
    BY <2>1, <2>2, <2>3
<1> QED
  BY <1>1, <1>2

LEMMA TurnView ==
  ASSUME TypeOK, MinOfRequest, receive, ~misled', ~Clears
  PROVE  /\ receiving' => Now' = Asks
         /\ ~ is_rsp_complete(Asks.pkts, Asks.t, recv_s_min) => receiving'
<1>1. receiving /\ UNCHANGED req
  BY DEF receive
<1>2. Now.pkts = (IF Enc THEN res_pkts ELSE packets) /\ Now.t = (IF Enc THEN time_all ELSE time)
      /\ Now = [pkts |-> Now.pkts, t |-> Now.t]
  BY DEF Now
<1>3. ASSUME TurnEnds(packets, res_pkts, After(time, 1), After(time_all, 1)),
             port = <<>> \/ Head(port) = "OTHER"
      PROVE  /\ receiving' => Now' = Asks
             /\ ~ is_rsp_complete(Asks.pkts, Asks.t, recv_s_min) => receiving'
  <2>1. Asks = [pkts |-> IF Enc THEN res_pkts ELSE packets,
                t |-> IF Enc THEN After(time_all, 1) ELSE After(time, 1)]
    BY <1>2, <1>3 DEF Asks, Reads
  <2>2. /\ Asks.pkts = (IF Enc THEN res_pkts ELSE packets)
        /\ Asks.t = (IF Enc THEN After(time_all, 1) ELSE After(time, 1))
    BY <2>1
  <2> QED
    BY <1>1, <1>3, <2>1, <2>2, TurnEndsView
<1>4. ASSUME NEW t, PacketEnds(Head(port), t, After(time_all, 1)),
             port # <<>>, Head(port) # "OTHER",
             t = IF Head(port) = "ASK" THEN 0 ELSE After(time, 1)
      PROVE  /\ receiving' => Now' = Asks
             /\ ~ is_rsp_complete(Asks.pkts, Asks.t, recv_s_min) => receiving'
  <2> DEFINE p == Add(packets, Head(port))
             q == Add(res_pkts, Head(port))
  <2>1. Asks = [pkts |-> IF Enc THEN q ELSE p, t |-> IF Enc THEN After(time_all, 1) ELSE t]
    BY <1>2, <1>4 DEF Asks, Reads
  <2>2. Asks.pkts = (IF Enc THEN q ELSE p) /\ Asks.t = (IF Enc THEN After(time_all, 1) ELSE t)
    BY <2>1
  <2>3. TurnEnds(p, q, t, After(time_all, 1))
    BY <1>4 DEF PacketEnds
  <2> HIDE DEF p, q
  <2> QED
    BY <1>1, <2>1, <2>2, <2>3, TurnEndsView
<1>5. CASE NothingToRead
  BY <1>3, <1>5 DEF NothingToRead
<1>6. CASE Ignored
  BY <1>3, <1>6 DEF Ignored
<1>7. CASE Received
  BY <1>4, <1>7 DEF Received, Cyclic, Expect
<1>8. CASE Asked
  BY <1>4, <1>8 DEF Asked
<1>9. CASE RawReceived
  BY <1>9 DEF RawReceived, ResetsDevice, Clears
<1> QED
  BY <1>5, <1>6, <1>7, <1>8, <1>9 DEF receive

-----------------------------------------------------------------------------
(* The parts of the invariant that do not look ahead                       *)

LEMMA ShiftedFacts ==
  ASSUME TypeOK, port # <<>>, port' = Tail(port)
  PROVE  /\ Len(port) \in Nat /\ Len(port) >= 1 /\ Len(port') = Len(port) - 1
         /\ Head(port) = port[1] /\ 1 \in DOMAIN port /\ DOMAIN port = 1 .. Len(port)
         /\ DOMAIN port' = 1 .. Len(port) - 1
         /\ \A k \in DOMAIN port' : k + 1 \in DOMAIN port /\ port'[k] = port[k + 1]
         /\ \A k \in DOMAIN port : k = 1 \/ (k - 1 \in DOMAIN port' /\ port'[k - 1] = port[k])
  BY TypeFacts, TailFacts DEF Ports

LEMMA SentFacts ==
  ASSUME TypeOK, NEW pkt \in Packets \union {"OTHER"}, Sends(pkt)
  PROVE  /\ Len(port) \in Nat /\ Len(port') = Len(port) + 1 /\ Len(port) + 1 \in DOMAIN port'
         /\ DOMAIN port' = DOMAIN port \union {Len(port) + 1}
         /\ DOMAIN port = 1 .. Len(port)
         /\ \A k \in DOMAIN port : port'[k] = port[k] /\ k <= Len(port)
         /\ port'[Len(port) + 1] = pkt
  BY TypeFacts, AppendFacts DEF Ports, Sends

LEMMA HeadPending ==
  ASSUME TypeOK, pending # <<>>
  PROVE  /\ Head(pending) \in Expect /\ Head(pending) \in Packets
         /\ Head(pending) = pending[1]
         /\ Len(pending) \in Nat /\ Len(pending) >= 1 /\ Len(Tail(pending)) = Len(pending) - 1
         /\ Tail(pending) # <<>> => Len(pending) >= 2
         /\ 1 \in DOMAIN pending
         /\ \A k \in DOMAIN Tail(pending) : k + 1 \in DOMAIN pending
                                            /\ Tail(pending)[k] = pending[k + 1]
<1>1. pending \in Seq(Expect)
  BY TypeFacts
<1>2. Tail(pending) # <<>> => Len(pending) >= 2
  BY <1>1
<1> QED
  BY <1>1, <1>2, TailFacts DEF Packets

\* a packet comes that is no question
LEMMA NoQuestionSent ==
  ASSUME TypeOK, OneQuestion, NEW pkt \in Packets \union {"OTHER"}, Sends(pkt), pkt # "ASK",
         waits => pkt \notin Expect, waits' = waits,
         waits /\ pending' # <<>> => pending # <<>> /\ gap' \in Nat /\ gap' <= gap + 1
  PROVE  OneQuestion'
<1> USE SentFacts
<1>1. gap \in Nat
  BY TypeFacts
<1>2. ASSUME waits'
      PROVE  \E k \in DOMAIN port' :
               port'[k] = "ASK" /\ (pending' # <<>> => gap' <= Len(port') - k)
  <2>1. PICK k \in DOMAIN port : port[k] = "ASK" /\ (pending # <<>> => gap <= Len(port) - k)
    BY <1>2 DEF OneQuestion
  <2>2. k \in DOMAIN port' /\ port'[k] = "ASK" /\ k \in Nat /\ k <= Len(port)
    BY <2>1
  <2>3. pending' # <<>> => gap' <= Len(port') - k
    BY <1>1, <1>2, <2>1, <2>2
  <2> QED
    BY <2>2, <2>3
<1>3. ASSUME NEW k \in DOMAIN port', port'[k] = "ASK"
      PROVE  waits' /\ \A j \in DOMAIN port' : j > k => port'[j] \notin Expect \union {"ASK"}
  <2>1. k \in DOMAIN port /\ port[k] = "ASK"
    BY <1>3
  <2>2. waits /\ \A j \in DOMAIN port : j > k => port[j] \notin Expect \union {"ASK"}
    BY <2>1 DEF OneQuestion
  <2>3. pkt \notin Expect \union {"ASK"}
    BY <2>2
  <2> QED
    BY <2>2, <2>3
<1> QED
  BY <1>2, <1>3 DEF OneQuestion

LEMMA TurnOneQuestion ==
  ASSUME TypeOK, OneQuestion, receive, ~misled'
  PROVE  OneQuestion'
<1>1. CASE Pauses
  BY <1>1 DEF Pauses, OneQuestion
<1>2. CASE Clears
  BY <1>2 DEF Clears, OneQuestion
<1>3. CASE ReadsOne
  <2> USE ShiftedFacts
  <2>1. /\ port # <<>> /\ port' = Tail(port) /\ UNCHANGED <<pending, gap, due>>
        /\ waits' = IF Head(port) = "ASK" THEN FALSE ELSE waits
    BY <1>3 DEF ReadsOne
  <2>2. gap \in Nat
    BY TypeFacts
  <2>3. ASSUME waits'
        PROVE  \E k \in DOMAIN port' :
                 port'[k] = "ASK" /\ (pending' # <<>> => gap' <= Len(port') - k)
    <3>1. waits /\ port[1] # "ASK"
      BY <2>1, <2>3
    <3>2. PICK k \in DOMAIN port : port[k] = "ASK" /\ (pending # <<>> => gap <= Len(port) - k)
      BY <3>1 DEF OneQuestion
    <3>3. k # 1
      BY <3>1, <3>2
    <3>4. k - 1 \in DOMAIN port' /\ port'[k - 1] = "ASK" /\ k \in Nat
      BY <2>1, <3>2, <3>3
    <3>5. Len(port') - (k - 1) = Len(port) - k
      BY <2>1, <3>4
    <3> QED
      BY <2>1, <3>2, <3>4, <3>5
  <2>4. ASSUME NEW k \in DOMAIN port', port'[k] = "ASK"
        PROVE  waits' /\ \A j \in DOMAIN port' : j > k => port'[j] \notin Expect \union {"ASK"}
    <3>1. k + 1 \in DOMAIN port /\ port[k + 1] = "ASK" /\ k \in Nat /\ k + 1 > 1
      BY <2>1, <2>4
    <3>2. waits /\ \A j \in DOMAIN port : j > k + 1 => port[j] \notin Expect \union {"ASK"}
      BY <3>1 DEF OneQuestion
    <3>3. Head(port) # "ASK"
      <4>1. 1 \in DOMAIN port /\ Head(port) = port[1]
        BY <2>1
      <4> QED
        BY <3>1, <4>1 DEF OneQuestion
    <3>4. ASSUME NEW j \in DOMAIN port', j > k PROVE port'[j] \notin Expect \union {"ASK"}
      <4>1. j + 1 \in DOMAIN port /\ port'[j] = port[j + 1] /\ j + 1 > k + 1
        BY <2>1, <3>1, <3>4
      <4> QED
        BY <3>2, <4>1
    <3> QED
      BY <2>1, <3>2, <3>3, <3>4
  <2> QED
    BY <2>3, <2>4 DEF OneQuestion
<1> QED
  BY <1>1, <1>2, <1>3, TurnCases

LEMMA EventOneQuestion ==
  ASSUME TypeOK, OneQuestion, ConnectionEvent
  PROVE  OneQuestion'
<1>1. gap \in Nat
  BY TypeFacts
<1>2. CASE Answer
  <2>1. /\ Sends(Head(pending)) /\ pending # <<>> /\ ~waits /\ waits' = waits
    BY <1>2 DEF Answer
  <2>2. Head(pending) \in Packets /\ Head(pending) # "ASK"
    BY <2>1, HeadPending DEF Expect
  <2> QED
    BY <2>1, <2>2, NoQuestionSent
<1>3. CASE SendsCyclic
  <2>1. /\ Sends(CyclicPacket) /\ UNCHANGED <<pending, waits>>
        /\ gap' \in Nat /\ gap' <= gap + 1
    BY <1>1, <1>3 DEF SendsCyclic
  <2>2. CyclicPacket \in Packets /\ CyclicPacket # "ASK" /\ CyclicPacket \notin Expect
    BY DEF CyclicPacket, Packets, Cyclic, Expect
  <2> QED
    BY <2>1, <2>2, NoQuestionSent
<1>4. CASE Ask
  <2>1. /\ Sends("ASK") /\ ~waits /\ waits' = TRUE /\ gap' = 0 /\ "ASK" \in Packets
    BY <1>4 DEF Ask, Packets
  <2> USE SentFacts
  <2>2. \A k \in DOMAIN port : port[k] # "ASK"
    BY <2>1 DEF OneQuestion
  <2>3. Len(port) + 1 \in DOMAIN port' /\ port'[Len(port) + 1] = "ASK"
        /\ gap' <= Len(port') - (Len(port) + 1)
    BY <2>1
  <2>4. ASSUME NEW k \in DOMAIN port', port'[k] = "ASK"
        PROVE  \A j \in DOMAIN port' : j > k => port'[j] \notin Expect \union {"ASK"}
    <3>1. k = Len(port) + 1 /\ \A j \in DOMAIN port' : ~ (j > k)
      BY <2>1, <2>2, <2>4
    <3> QED
      BY <3>1
  <2> QED
    BY <2>1, <2>3, <2>4 DEF OneQuestion
<1>5. CASE SendsRaw
  <2>1. /\ Sends("RAW") /\ UNCHANGED <<pending, waits>> /\ gap' = 0
        /\ "RAW" \in Packets /\ "RAW" # "ASK" /\ "RAW" \notin Expect
    BY <1>5 DEF SendsRaw, Packets, Expect
  <2>2. gap' \in Nat /\ gap' <= gap + 1
    BY <1>1, <2>1
  <2> QED
    BY <2>1, <2>2, NoQuestionSent
<1>6. CASE Silent
  BY <1>6 DEF Silent, OneQuestion, dev_vars
<1> QED
  BY <1>2, <1>3, <1>4, <1>5, <1>6 DEF ConnectionEvent

LEMMA SendOneQuestion ==
  ASSUME TypeOK, OneQuestion, NEW r \in DOMAIN Answers, Send(r)
  PROVE  OneQuestion'
<1>1. gap' = Cardinality(LastCyclic(port)) /\ UNCHANGED <<port, waits>>
  BY DEF Send
<1>2. \A k \in DOMAIN port : port[k] = "ASK" => gap' <= Len(port) - k
  BY <1>1, LastCyclicSize, TypeFacts
<1> QED
  BY <1>1, <1>2 DEF OneQuestion

LEMMA NextOneQuestion ==
  ASSUME TypeOK, OneQuestion, [Next]_vars, ~misled'
  PROVE  OneQuestion'
<1>1. CASE Other
  <2>1. Sends("OTHER") /\ UNCHANGED <<pending, waits, gap>> /\ "OTHER" \notin Expect
        /\ gap <= gap + 1 /\ gap \in Nat
    BY <1>1, TypeFacts DEF Other, dev_vars, Expect
  <2> QED
    BY <2>1, NoQuestionSent
<1>3. CASE LateScanRsp
  <2>1. Sends("LATE") /\ UNCHANGED <<pending, waits, gap>> /\ "LATE" \in Packets \ Expect
        /\ gap <= gap + 1 /\ gap \in Nat
    BY <1>3, TypeFacts DEF LateScanRsp, dev_vars, Packets, Expect
  <2> QED
    BY <2>1, NoQuestionSent
<1>2. CASE TimePasses \/ UNCHANGED vars
  BY <1>2 DEF TimePasses, vars, dev_vars, OneQuestion
<1> QED
  BY <1>1, <1>2, <1>3, TurnOneQuestion, EventOneQuestion, SendOneQuestion DEF Next

LEMMA ProductGrows ==
  ASSUME NEW a \in Nat, NEW b \in Nat, NEW m \in Nat, a <= b
  PROVE  a * m <= b * m /\ a * m \in Nat /\ b * m \in Nat
<1>1. PICK d \in Nat : b = a + d
  <2>1. b - a \in Nat /\ b = a + (b - a)
    OBVIOUS
  <2> QED
    BY <2>1
<1>2. d * m \in Nat /\ a * m \in Nat
  OBVIOUS
<1>3. b * m = a * m + d * m
  BY <1>1
<1> QED
  BY <1>2, <1>3

LEMMA LongestType == Longest \in Nat /\ Spare \in Nat /\ Spare > 0
<1>1. GapFirst + 1 \in Nat /\ Interval \in Nat /\ MaxBacklog \in Nat
  BY ConstantTypes
<1> QED
  BY <1>1, ProductGrows DEF Longest, Spare

LEMMA TypesAfter ==
  ASSUME TypeOK'
  PROVE  /\ gap' \in Nat /\ due' \in 0 .. 3
         /\ port' \in Ports /\ Len(port') \in Nat /\ DOMAIN port' = 1 .. Len(port')
<1>1. port' \in Ports /\ gap' \in Nat /\ due' \in 0 .. 3
  BY ConstantTypes DEF TypeOK, Ports
<1> QED
  BY <1>1 DEF Ports

LEMMA NextMinOfRequest ==
  ASSUME MinOfRequest, [Next]_vars
  PROVE  MinOfRequest'
<1>1. ASSUME NEW r \in DOMAIN Answers, Send(r) PROVE MinOfRequest'
  BY <1>1 DEF Send, MinOfRequest
<1>2. UNCHANGED <<req, recv_s_min>> => MinOfRequest'
  BY DEF MinOfRequest
<1> QED
  BY <1>1, <1>2 DEF Next, receive, ConnectionEvent, Other, LateScanRsp,
                     TimePasses, vars, mapper_vars

\* The answers to a request are the only ones that are to come.
LEMMA SendFacts ==
  ASSUME TypeOK, AllCollected, NEW r \in DOMAIN Answers, Send(r)
  PROVE  ~receiving /\ pending = <<>> /\ pending' \in Answers[r]
<1>1. ~receiving /\ pending = <<>>
  BY DEF Send, AllCollected
<1>2. PICK a \in Answers[r] : pending' = pending \o a
  BY DEF Send
<1>3. a \in Seq(Expect)
  BY ReceiveLoopAssumption
<1>4. pending' = a
  BY <1>1, <1>2, <1>3
<1> QED
  BY <1>1, <1>4

\* what becomes of the answers that are to come
LEMMA PendingCases ==
  ASSUME TypeOK, AllCollected, [Next]_vars, ~misled'
  PROVE  \/ pending' = pending \/ pending' = <<>>
         \/ pending # <<>> /\ pending' = Tail(pending) /\ gap' = 0
         \/ \E r \in DOMAIN Answers : Send(r) /\ pending' \in Answers[r]
<1>1. receive => pending' = pending \/ pending' = <<>>
  BY TurnCases DEF Pauses, ReadsOne, Clears
<1>2. ConnectionEvent => pending' = pending \/ (pending # <<>> /\ pending' = Tail(pending) /\ gap' = 0)
  BY DEF ConnectionEvent, Answer, SendsCyclic, Ask, SendsRaw, Silent, dev_vars
<1> QED
  BY <1>1, <1>2, SendFacts DEF Next, Other, LateScanRsp, TimePasses, vars, dev_vars

LEMMA NextScanLast ==
  ASSUME InTime, TypeOK, ScanLast, AllCollected, [Next]_vars, ~misled'
  PROVE  ScanLast'
<1>1. CASE pending' = pending \/ pending' = <<>>
  BY <1>1 DEF ScanLast
<1>2. CASE pending # <<>> /\ pending' = Tail(pending)
  <2>1. ASSUME NEW k \in DOMAIN pending', pending'[k] = "SCAN_RSP" PROVE k = Len(pending')
    <3>1. pending' \in Seq(Expect)
      BY <1>2, TypeFacts, TailFacts
    <3>2. k + 1 \in DOMAIN pending /\ pending[k + 1] = "SCAN_RSP" /\ Len(pending') = Len(pending) - 1
          /\ k \in Nat /\ Len(pending) \in Nat
      BY <1>2, <2>1, <3>1, HeadPending
    <3> QED
      BY <3>2 DEF ScanLast
  <2> QED
    BY <2>1 DEF ScanLast
<1>3. ASSUME NEW r \in DOMAIN Answers, pending' \in Answers[r] PROVE ScanLast'
  BY <1>3 DEF ScanLast, InTime
<1> QED
  BY <1>1, <1>2, <1>3, PendingCases

LEMMA NextAnswersFit ==
  ASSUME InTime, TypeOK, AnswersFit, AllCollected, [Next]_vars, ~misled'
  PROVE  AnswersFit'
<1>1. CASE pending' = pending \/ pending' = <<>>
  BY <1>1 DEF AnswersFit
<1>2. CASE pending # <<>> /\ pending' = Tail(pending)
  <2> DEFINE n == Len(pending)
             m == Len(pending')
  <2>1. n \in Nat /\ m \in Nat /\ m <= n
    BY <1>2, HeadPending
  <2>2. n * Longest + Spare <= RecvMax
    BY <1>2 DEF AnswersFit
  <2> HIDE DEF n, m
  <2>3. m * Longest <= n * Longest /\ m * Longest \in Nat /\ n * Longest \in Nat
    BY <2>1, LongestType, ProductGrows
  <2>4. m * Longest + Spare <= RecvMax
    BY <2>2, <2>3, LongestType, ConstantTypes
  <2> QED
    BY <2>4 DEF AnswersFit, m, Longest, Spare
<1>3. ASSUME NEW r \in DOMAIN Answers, pending' \in Answers[r] PROVE AnswersFit'
  BY <1>3 DEF AnswersFit, InTime, Longest, Spare
<1> QED
  BY <1>1, <1>2, <1>3, PendingCases

\* The gaps do not count to the limits of sequence_seems_complete.
LEMMA NextGapInv ==
  ASSUME InTime, TypeOK, Backlog, GapInv, [Next]_vars, ~misled', TypeOK', Backlog', OneQuestion'
  PROVE  GapInv'
<1>1. /\ GapNext < CyclicShort /\ GapFirst < CyclicLong /\ GapNext <= GapFirst
      /\ MaxBacklog < CyclicShort /\ MaxBacklog < CyclicLong
      /\ GapNext \in Nat /\ GapFirst \in Nat /\ CyclicShort \in Nat /\ CyclicLong \in Nat
      /\ MaxBacklog \in Nat
  BY ConstantTypes DEF InTime
<1>2. gap \in Nat /\ gap' \in Nat /\ due \in 0 .. 3 /\ due' \in 0 .. 3
  BY TypeFacts, TypesAfter 
<1>3. ASSUME gap' <= MaxBacklog PROVE GapInv'
  BY <1>1, <1>2, <1>3 DEF GapInv
<1>4. CASE pending' = <<>> \/ UNCHANGED <<pending, gap, due>>
  BY <1>4 DEF GapInv
<1>5. ASSUME NEW r \in DOMAIN Answers, Send(r) PROVE GapInv'
  <2>1. ~receiving /\ gap' = Cardinality(LastCyclic(port))
    BY <1>5 DEF Send
  <2>2. Cardinality(LastCyclic(port)) <= Len(port) /\ Len(port) <= MaxBacklog
        /\ Cardinality(LastCyclic(port)) \in Nat /\ Len(port) \in Nat
    BY <2>1, BacklogBound, TypeFacts, LastCyclicSize
  <2>3. gap' <= MaxBacklog
    BY <1>1, <2>1, <2>2
  <2> QED
    BY <1>3, <2>3
<1>6. CASE receive
  BY <1>4, <1>6, TurnCases DEF Pauses, ReadsOne, Clears
<1>7. CASE ConnectionEvent
  <2>1. CASE SendsCyclic /\ pending # <<>>
    <3>1. /\ pending' = pending /\ waits' = waits /\ due' = due
          /\ gap' <= gap + 1
          /\ ~waits => gap < (IF due > 0 THEN GapFirst ELSE GapNext)
      BY <1>2, <2>1 DEF SendsCyclic
    <3>2. CASE ~waits
      BY <1>1, <1>2, <3>1, <3>2 DEF GapInv
    <3>3. CASE waits
      <4>1. PICK k \in DOMAIN port' : gap' <= Len(port') - k
        BY <2>1, <3>1, <3>3 DEF OneQuestion
      <4>2. Len(port') \in Nat /\ DOMAIN port' = 1 .. Len(port')
        BY TypesAfter
      <4>3. Len(port') <= MaxBacklog \/ Len(port') = MaxBacklog + 1
        BY DEF Backlog
      <4>4. k \in Nat /\ k >= 1
        BY <4>2
      <4>5. gap' <= MaxBacklog
        <5> DEFINE n == Len(port')
                   g == gap'
        <5>1. n \in Nat /\ g \in Nat /\ g <= n - k
          BY <1>2, <4>1, <4>2
        <5>2. n <= MaxBacklog \/ n = MaxBacklog + 1
          BY <4>3
        <5> HIDE DEF n, g
        <5>3. g <= MaxBacklog
          BY <1>1, <4>4, <5>1, <5>2
        <5> QED
          BY <5>3 DEF g
      <4> QED
        BY <1>3, <4>5
    <3> QED
      BY <3>2, <3>3
  <2>2. CASE SendsCyclic /\ pending = <<>>
    BY <1>4, <2>2 DEF SendsCyclic
  <2>3. CASE Answer \/ Ask \/ SendsRaw
    <3>1. gap' = 0
      BY <2>3 DEF Answer, Ask, SendsRaw
    <3> QED
      BY <1>1, <1>3, <3>1
  <2>4. CASE Silent
    BY <1>4, <2>4 DEF Silent, dev_vars
  <2> QED
    BY <1>7, <2>1, <2>2, <2>3, <2>4 DEF ConnectionEvent
<1>8. CASE Other \/ LateScanRsp \/ TimePasses \/ UNCHANGED vars
  BY <1>4, <1>8 DEF Other, LateScanRsp, TimePasses, vars, dev_vars
<1> QED
  BY <1>5, <1>6, <1>7, <1>8 DEF Next

-----------------------------------------------------------------------------
(* The time limit                                                          *)

LEMMA LongestIs == Longest = GapFirst * Interval + Interval /\ GapFirst * Interval \in Nat
<1>1. GapFirst \in Nat /\ Interval \in Nat
  BY ConstantTypes
<1> QED
  BY <1>1 DEF Longest

LEMMA GapProduct ==
  ASSUME NEW g \in 0 .. GapFirst
  PROVE  /\ g * Interval \in Nat /\ g * Interval + Interval <= Longest
         /\ g > 0 => (g - 1) * Interval + Interval = g * Interval
<1>1. GapFirst \in Nat /\ Interval \in Nat /\ g \in Nat /\ g <= GapFirst
  BY ConstantTypes
<1>2. g * Interval \in Nat /\ g * Interval <= GapFirst * Interval
  BY <1>1, ProductGrows
<1>3. g > 0 => (g - 1) * Interval + Interval = g * Interval
  BY <1>1
<1> QED
  BY <1>1, <1>2, <1>3, LongestIs

LEMMA AnswersProduct ==
  ASSUME NEW n \in Nat, n >= 1
  PROVE  (n - 1) * Longest \in Nat /\ (n - 1) * Longest + Longest = n * Longest
<1>1. n - 1 \in Nat /\ Longest \in Nat
  BY LongestType
<1>2. (n - 1) * Longest \in Nat
  BY <1>1, ProductGrows
<1>3. (n - 1) * Longest + Longest = n * Longest
  BY <1>1
<1> QED
  BY <1>2, <1>3

LEMMA QuestionProduct ==
  ASSUME NEW a \in Nat, a <= MaxAsks
  PROVE  /\ (MaxAsks - a) * (Longest + Spare) \in Nat
         /\ a < MaxAsks => (MaxAsks - (a + 1)) * (Longest + Spare) + (Longest + Spare)
                             = (MaxAsks - a) * (Longest + Spare)
<1> DEFINE m == Longest + Spare
           d == MaxAsks - a
<1>1. m \in Nat /\ d \in Nat /\ MaxAsks \in Nat
  BY LongestType, ConstantTypes
<1>2. d * m \in Nat
  BY <1>1, ProductGrows
<1>3. a < MaxAsks => MaxAsks - (a + 1) = d - 1
  BY <1>1
<1> HIDE DEF m, d
<1>4. (d - 1) * m + m = d * m
  BY <1>1
<1>5. a < MaxAsks => (MaxAsks - (a + 1)) * m + m = d * m
  BY <1>3, <1>4
<1> QED
  BY <1>2, <1>5 DEF m, d

LEMMA GapLeftType ==
  ASSUME NEW w \in BOOLEAN, NEW g \in Nat
  PROVE  (IF w THEN GapFirst ELSE IF g <= GapFirst THEN GapFirst - g ELSE 0) \in 0 .. GapFirst
  BY ConstantTypes

\* the parts of Answering, now and in the next state
LEMMA TimeTypes ==
  ASSUME TypeOK, pending # <<>>
  PROVE  /\ GapLeft \in 0 .. GapFirst /\ GapTime = GapLeft * Interval
         /\ GapTime \in Nat /\ GapTime + Interval <= Longest
         /\ waits => GapTime + Interval = Longest
         /\ AnswersTime \in Nat /\ AnswersTime + Longest = Len(pending) * Longest
         /\ QuestionTime \in Nat
<1>1. gap \in Nat /\ waits \in BOOLEAN /\ asks \in Nat /\ asks <= MaxAsks
  BY TypeFacts
<1>2. GapLeft \in 0 .. GapFirst
  BY <1>1, GapLeftType DEF GapLeft
<1>3. GapTime = GapLeft * Interval
  BY DEF GapTime
<1>4. GapTime \in Nat /\ GapTime + Interval <= Longest
  BY <1>2, <1>3, GapProduct
<1>5. waits => GapTime + Interval = Longest
  BY <1>3, LongestIs DEF GapLeft
<1>6. AnswersTime \in Nat /\ AnswersTime + Longest = Len(pending) * Longest
  BY HeadPending, AnswersProduct DEF AnswersTime
<1>7. QuestionTime \in Nat
  BY <1>1, QuestionProduct DEF QuestionTime
<1> QED
  BY <1>2, <1>3, <1>4, <1>5, <1>6, <1>7

LEMMA TimeTypesAfter ==
  ASSUME TypeOK', pending' # <<>>
  PROVE  /\ GapLeft' \in 0 .. GapFirst /\ GapTime' = GapLeft' * Interval
         /\ GapTime' \in Nat /\ GapTime' + Interval <= Longest
         /\ waits' => GapTime' + Interval = Longest
         /\ AnswersTime' \in Nat /\ AnswersTime' + Longest = Len(pending') * Longest
         /\ QuestionTime' \in Nat
<1>1. gap' \in Nat /\ waits' \in BOOLEAN /\ asks' \in Nat /\ asks' <= MaxAsks
      /\ pending' \in Seq(Expect)
  BY ConstantTypes DEF TypeOK
<1>2. GapLeft' \in 0 .. GapFirst
  BY <1>1, GapLeftType DEF GapLeft
<1>3. GapTime' = GapLeft' * Interval
  BY DEF GapTime
<1>4. GapTime' \in Nat /\ GapTime' + Interval <= Longest
  BY <1>2, <1>3, GapProduct
<1>5. waits' => GapTime' + Interval = Longest
  BY <1>3, LongestIs DEF GapLeft
<1>6. AnswersTime' \in Nat /\ AnswersTime' + Longest = Len(pending') * Longest
  <2>1. Len(pending') \in Nat /\ Len(pending') >= 1
    BY <1>1
  <2>2. AnswersTime' = (Len(pending') - 1) * Longest
    BY DEF AnswersTime, Longest
  <2> QED
    BY <2>1, <2>2, AnswersProduct
<1>7. QuestionTime' \in Nat
  <2>1. (MaxAsks - asks') * (Longest + Spare) \in Nat
    BY <1>1, QuestionProduct
  <2> QED
    BY <2>1 DEF QuestionTime, Longest, Spare
<1> QED
  BY <1>2, <1>3, <1>4, <1>5, <1>6, <1>7

TimeLeftHolds ==
  /\ ~waits => Now.t + phase + Answering <= RecvMax
  /\ waits /\ Enc => \A k \in DOMAIN port :
       port[k] = "ASK" => Now.t + k + Interval + Answering <= RecvMax

\* A turn takes one unit, which the connection event comes nearer or the question
\* moves up.
LEMMA PauseTimeLeft ==
  ASSUME TypeOK, OneQuestion, MinOfRequest, TimeLeft, receive, ~misled', Pauses,
         receiving', pending' # <<>>
  PROVE  TimeLeftHolds'
<1>1. /\ port = <<>> /\ port' = <<>> /\ UNCHANGED <<pending, waits, gap, req, asks>>
      /\ receiving /\ phase \in Nat /\ phase > 0 /\ phase' = phase - 1
  BY TurnCases, TypeFacts DEF Pauses
<1>2. ~waits
  BY <1>1 DEF OneQuestion
<1>3. Now.t + phase + Answering <= RecvMax
  BY <1>1, <1>2 DEF TimeLeft, NoRaw
<1>4. Answering' = Answering
  BY <1>1 DEF Answering, GapTime, AnswersTime, QuestionTime, GapLeft, Enc, Longest, Spare
<1>5. Now'.t \in Nat /\ Now.t \in Nat /\ Now'.t <= Now.t + 1
  <2>1. Now' = [Now EXCEPT !.t = After(Now.t, 1)]
    BY <1>1, TurnView DEF Asks, Clears
  <2>2. Now \in View /\ Now.t \in Nat
    BY NowType DEF View
  <2>3. Now'.t = After(Now.t, 1)
    BY <2>1, <2>2 DEF View
  <2> QED
    BY <2>2, <2>3, AfterType
<1>6. Answering \in Nat
  BY <1>1, TimeTypes, LongestType DEF Answering
<1> DEFINE u == Now'.t
<1> HIDE DEF u
<1>7. u + (phase - 1) + Answering <= RecvMax
  BY <1>1, <1>3, <1>5, <1>6, ConstantTypes DEF u
<1> QED
  BY <1>1, <1>2, <1>4, <1>7 DEF TimeLeftHolds, u

LEMMA ReadTimeLeft ==
  ASSUME InTime, TypeOK, OneQuestion, MinOfRequest, AnswersFit, TimeLeft, receive, ~misled',
         ReadsOne, receiving', pending' # <<>>, NoRaw', TypeOK'
  PROVE  TimeLeftHolds'
<1>1. /\ port # <<>> /\ Head(port) # "RAW" /\ port' = Tail(port)
      /\ waits' = IF Head(port) = "ASK" THEN FALSE ELSE waits
      /\ UNCHANGED <<pending, gap, due, req, asks>>
      /\ receiving /\ phase \in Nat /\ phase > 0 /\ phase' = phase - 1 /\ phase <= Interval
      /\ waits \in BOOLEAN
  BY TurnCases, TypeFacts DEF ReadsOne
<1>2. NoRaw
  BY <1>1, ShiftedFacts DEF NoRaw
<1>3. TimeLeftHolds
  BY <1>1, <1>2 DEF TimeLeft, TimeLeftHolds
<1>4. Now' = Reads(Now, Head(port), Enc) /\ Head(port) \in Packets \union {"OTHER"}
  BY <1>1, TurnView, TypeFacts, TailFacts DEF Asks, Clears, Ports
<1>5. Now \in View /\ Now.t \in Nat /\ Now'.t \in Nat /\ Now'.t <= Now.t + 1
  BY <1>4, NowType, ReadsType DEF View, Enc
<1>6. /\ GapTime' \in Nat /\ GapTime' + Interval <= Longest
      /\ AnswersTime' = AnswersTime /\ QuestionTime' = QuestionTime
      /\ AnswersTime \in Nat /\ QuestionTime \in Nat /\ GapTime \in Nat
      /\ AnswersTime + Longest = Len(pending) * Longest
      /\ waits => GapTime + Interval = Longest
      /\ Longest \in Nat /\ Spare \in Nat /\ Interval \in Nat /\ RecvMax \in Nat
      /\ Answering = GapTime + AnswersTime + Spare + QuestionTime
      /\ Answering' = GapTime' + AnswersTime' + Spare + QuestionTime'
  BY <1>1, TimeTypes, TimeTypesAfter, LongestType, ConstantTypes
     DEF Answering, AnswersTime, QuestionTime, Enc, Longest, Spare
<1> DEFINE t == Now.t
           u == Now'.t
           ph == phase'
           a == Answering
           b == Answering'
           gt == GapTime
           gu == GapTime'
           rest == AnswersTime + Spare + QuestionTime
<1>7. /\ t \in Nat /\ u \in Nat /\ u <= t + 1 /\ ph = phase - 1 /\ ph \in Nat
      /\ a = gt + rest /\ b = gu + rest /\ a \in Nat /\ b \in Nat /\ rest \in Nat
      /\ gt \in Nat /\ gu \in Nat /\ gu + Interval <= Longest
      /\ waits => gt + Interval = Longest
  <2>1. ph = phase - 1 /\ ph \in Nat
    BY <1>1
  <2>2. t \in Nat /\ u \in Nat /\ u <= t + 1
    BY <1>5
  <2>3. gt \in Nat /\ gu \in Nat /\ gu + Interval <= Longest /\ (waits => gt + Interval = Longest)
    BY <1>6
  <2>4. rest \in Nat
    BY <1>6
  <2>5. a = gt + rest /\ b = gu + rest
    BY <1>6
  <2> HIDE DEF gt, gu, rest, a, b
  <2>6. a \in Nat /\ b \in Nat
    BY <2>3, <2>4, <2>5
  <2> QED
    BY <2>1, <2>2, <2>3, <2>4, <2>5, <2>6
<1>8. CASE Head(port) = "ASK"
  <2>1. waits /\ ~waits'
    BY <1>1, <1>8, ShiftedFacts DEF OneQuestion
  <2>2. CASE Enc
    <3>1. t + 1 + Interval + a <= RecvMax
      BY <1>1, <1>3, <1>8, <2>1, <2>2, ShiftedFacts DEF TimeLeftHolds
    <3> HIDE DEF t, u, ph, a, b, gt, gu, rest
    <3>2. b <= a
      BY <1>6, <1>7, <2>1
    <3>3. u + ph + b <= RecvMax
      BY <1>1, <1>6, <1>7, <3>1, <3>2
    <3> QED
      BY <2>1, <3>3 DEF TimeLeftHolds, u, ph, b
  <2>3. CASE ~Enc
    <3>1. u = 0
      BY <1>4, <1>8, <2>3 DEF Reads
    <3>2. QuestionTime' = 0
      BY <1>6, <2>3 DEF QuestionTime
    <3>3. Len(pending) * Longest + Spare <= RecvMax
      BY <1>1 DEF AnswersFit
    <3> DEFINE c == Len(pending) * Longest
    <3>4. rest + Longest = c + Spare
      BY <1>6, <3>2
    <3>5. c + Spare <= RecvMax
      BY <3>3
    <3>6. c \in Nat
      BY <1>6
    <3> HIDE DEF t, u, ph, a, b, c, gt, gu, rest
    <3>7. u + ph + b <= RecvMax
      BY <1>1, <1>6, <1>7, <3>1, <3>4, <3>5, <3>6
    <3> QED
      BY <2>1, <3>7 DEF TimeLeftHolds, u, ph, b
  <2> QED
    BY <2>2, <2>3
<1>9. CASE Head(port) # "ASK"
  <2>1. waits' = waits /\ b = a
    BY <1>1, <1>9 DEF Answering, GapTime, AnswersTime, QuestionTime, GapLeft, Enc, Longest, Spare
  <2>2. ASSUME ~waits PROVE u + ph + b <= RecvMax
    <3>1. t + phase + a <= RecvMax
      BY <1>3, <2>2 DEF TimeLeftHolds
    <3> HIDE DEF t, u, ph, a, b, gt, gu, rest
    <3> QED
      BY <1>1, <1>6, <1>7, <2>1, <3>1
  <2>3. ASSUME waits, Enc, NEW k \in DOMAIN port', port'[k] = "ASK"
        PROVE  u + k + Interval + b <= RecvMax
    <3>1. k + 1 \in DOMAIN port /\ port[k + 1] = "ASK" /\ k \in Nat
      BY <1>1, <2>3, ShiftedFacts
    <3>2. t + (k + 1) + Interval + a <= RecvMax
      BY <1>3, <2>3, <3>1 DEF TimeLeftHolds
    <3> HIDE DEF t, u, ph, a, b, gt, gu, rest
    <3> QED
      BY <1>1, <1>6, <1>7, <2>1, <3>1, <3>2
  <2>4. Enc' = Enc
    BY <1>1 DEF Enc
  <2> QED
    BY <2>1, <2>2, <2>3, <2>4 DEF TimeLeftHolds
<1> QED
  BY <1>8, <1>9

\* A connection event: an answer, a cyclic packet or a question is paid from
\* the time left for them.
LEMMA EventTimeLeft ==
  ASSUME InTime, TypeOK, Backlog, OneQuestion, TimeLeft, ConnectionEvent,
         receiving', pending' # <<>>, NoRaw', TypeOK'
  PROVE  TimeLeftHolds'
<1>1. /\ phase = 0 /\ phase' = Interval /\ UNCHANGED mapper_vars /\ receiving
  BY DEF ConnectionEvent, mapper_vars
<1>2. Now' = Now /\ Enc' = Enc /\ Now.t \in Nat
  BY <1>1, NowType DEF Now, Enc, mapper_vars, View
<1>3. /\ GapFirst \in Nat /\ GapNext \in Nat /\ GapNext <= GapFirst /\ GapFirst < CyclicLong
      /\ CyclicLong \in Nat /\ RecvMax \in Nat /\ Interval \in Nat /\ MaxBacklog \in Nat
      /\ Longest \in Nat /\ Spare \in Nat /\ Spare = MaxBacklog + 1
      /\ Longest = GapFirst * Interval + Interval /\ GapFirst * Interval \in Nat
      /\ gap \in Nat /\ due \in 0 .. 3 /\ waits \in BOOLEAN /\ asks \in Nat /\ asks <= MaxAsks
  BY ConstantTypes, LongestType, LongestIs, TypeFacts DEF InTime, Spare
<1> DEFINE t == Now.t
           a == Answering
           b == Answering'
           gt == GapTime
           gu == GapTime'
           at == AnswersTime
           au == AnswersTime'
           qt == QuestionTime
           qu == QuestionTime'
<1>4. /\ gu \in Nat /\ gu + Interval <= Longest /\ au \in Nat /\ qu \in Nat
      /\ GapLeft' \in 0 .. GapFirst /\ gu = GapLeft' * Interval
  BY TimeTypesAfter
<1>5. /\ a = gt + at + Spare + qt /\ b = gu + au + Spare + qu
  BY DEF Answering, Spare
<1>6. pending # <<>> => /\ gt \in Nat /\ gt + Interval <= Longest /\ at \in Nat /\ qt \in Nat
                        /\ GapLeft \in 0 .. GapFirst /\ gt = GapLeft * Interval
                        /\ waits => gt + Interval = Longest
                        /\ AnswersTime + Longest = Len(pending) * Longest
  BY TimeTypes
<1>13. /\ t \in Nat /\ gu \in Nat /\ gu + Interval <= Longest /\ au \in Nat /\ qu \in Nat
       /\ Interval \in Nat /\ Longest \in Nat /\ Spare \in Nat /\ RecvMax \in Nat
       /\ GapFirst * Interval \in Nat /\ Longest = GapFirst * Interval + Interval
  BY <1>2, <1>3, <1>4
<1>7. ASSUME NEW pkt \in Packets, Sends(pkt), pending # <<>> PROVE TimeLeftHolds
  <2>1. NoRaw
    BY <1>7, SentFacts DEF NoRaw
  <2> QED
    BY <1>1, <1>7, <2>1 DEF TimeLeft, TimeLeftHolds
<1>8. CASE Answer
  <2>1. /\ pending # <<>> /\ ~waits /\ Sends(Head(pending)) /\ pending' = Tail(pending)
        /\ gap' = 0 /\ waits' = waits /\ asks' = asks /\ Head(pending) \in Packets
    BY <1>8, HeadPending DEF Answer, bounds
  <2>2. t + 0 + a <= RecvMax
    BY <1>1, <1>7, <2>1 DEF TimeLeftHolds
  <2>3. GapLeft' = GapFirst
    BY <1>3, <2>1 DEF GapLeft
  <2>4. qu = qt
    BY <2>1, <1>2 DEF QuestionTime, Longest, Spare
  <2>5. au + Longest = at
    <3>1. Len(pending) \in Nat /\ Len(Tail(pending)) = Len(pending) - 1 /\ Len(pending) - 1 >= 1
      BY <2>1, HeadPending
    <3>2. au = ((Len(pending) - 1) - 1) * Longest /\ at = (Len(pending) - 1) * Longest
      BY <2>1, <3>1 DEF AnswersTime, Longest
    <3> QED
      BY <3>1, <3>2, AnswersProduct
  <2>6. gu = GapFirst * Interval
    BY <1>4, <2>3
  <2>7. gt \in Nat /\ at \in Nat /\ qt \in Nat
    BY <1>6, <2>1
  <2> HIDE DEF t, a, b, gt, gu, at, au, qt, qu
  <2>8. t + Interval + b <= RecvMax
    BY ONLY <1>5, <1>13, <2>2, <2>4, <2>5, <2>6, <2>7
  <2> QED
    BY <1>1, <1>2, <2>1, <2>8 DEF TimeLeftHolds, t, b
<1>9. CASE SendsCyclic
  <2>1. /\ Sends(CyclicPacket) /\ UNCHANGED <<pending, waits, asks>> /\ pending # <<>>
        /\ ~waits => gap < (IF due > 0 THEN GapFirst ELSE GapNext)
        /\ gap' = (IF gap < CyclicLong THEN gap + 1 ELSE gap)
    BY <1>9 DEF SendsCyclic, bounds
  <2>2. CyclicPacket \in Packets /\ CyclicPacket # "ASK"
    BY DEF CyclicPacket, Packets, Cyclic
  <2>3. TimeLeftHolds
    BY <1>7, <2>1, <2>2
  <2>4. qu = qt /\ au = at
    BY <2>1, <1>2 DEF QuestionTime, AnswersTime, Longest, Spare
  <2>5. CASE ~waits
    <3>1. gap < GapFirst /\ gap' = gap + 1
      BY <1>3, <2>1, <2>5
    <3>2. GapLeft' = GapLeft - 1 /\ GapLeft > 0
      BY <1>3, <2>1, <2>5, <3>1 DEF GapLeft
    <3>3. gu + Interval = gt
      BY <1>4, <1>6, <2>1, <3>2, GapProduct
    <3>4. t + 0 + a <= RecvMax
      BY <1>1, <2>3, <2>5 DEF TimeLeftHolds
    <3>5. gt \in Nat /\ at \in Nat /\ qt \in Nat
      BY <1>6, <2>1
    <3> HIDE DEF t, a, b, gt, gu, at, au, qt, qu
    <3>6. t + Interval + b <= RecvMax
      BY ONLY <1>5, <1>13, <2>4, <3>3, <3>4, <3>5
    <3> QED
      BY <1>1, <1>2, <2>1, <2>5, <3>6 DEF TimeLeftHolds, t, b
  <2>6. CASE waits
    <3>1. gu = gt
      BY <1>4, <1>6, <2>1, <2>6 DEF GapLeft
    <3>2. b = a
      BY <1>5, <2>4, <3>1
    <3>3. \A k \in DOMAIN port' : port'[k] = "ASK" => k \in DOMAIN port /\ port[k] = "ASK"
      BY <2>1, <2>2, SentFacts
    <3> QED
      BY <1>2, <2>1, <2>3, <2>6, <3>2, <3>3 DEF TimeLeftHolds
  <2> QED
    BY <1>3, <2>5, <2>6
<1>10. CASE Ask
  <2>1. /\ Sends("ASK") /\ pending' = pending /\ waits' = TRUE /\ ~waits
        /\ asks < MaxAsks /\ asks' = asks + 1 /\ "ASK" \in Packets /\ pending # <<>>
    BY <1>10 DEF Ask, Packets
  <2>2. t + 0 + a <= RecvMax
    BY <1>1, <1>7, <2>1 DEF TimeLeftHolds
  <2>3. CASE ~Enc
    BY <1>2, <2>1, <2>3 DEF TimeLeftHolds
  <2>4. CASE Enc
    <3>1. au = at
      BY <2>1 DEF AnswersTime, Longest
    <3>2. qu + (Longest + Spare) = qt
      <4>1. qt = (MaxAsks - asks) * (Longest + Spare)
        BY <2>4 DEF QuestionTime
      <4>2. qu = (MaxAsks - (asks + 1)) * (Longest + Spare)
        BY <1>2, <2>1, <2>4 DEF QuestionTime, Longest, Spare
      <4> QED
        BY <1>3, <2>1, <4>1, <4>2, QuestionProduct
    <3>3. ASSUME NEW k \in DOMAIN port', port'[k] = "ASK"
          PROVE  t + k + Interval + b <= RecvMax
      <4>1. k \in Nat /\ k <= Len(port) + 1 /\ Len(port) \in Nat
        BY <2>1, SentFacts
      <4>2. Len(port) <= MaxBacklog
        BY <1>1, BacklogBound
      <4>3. k \in Nat /\ k <= Spare
        BY <1>3, <4>1, <4>2
      <4>4. gt \in Nat /\ at \in Nat /\ qt \in Nat
        BY <1>6, <2>1
      <4> HIDE DEF t, a, b, gt, gu, at, au, qt, qu
      <4>5. k + Interval + b <= a
        BY ONLY <1>5, <1>13, <3>1, <3>2, <4>3, <4>4
      <4>6. a \in Nat /\ b \in Nat
        BY ONLY <1>5, <1>13, <4>4
      <4> QED
        BY ONLY <1>13, <2>2, <4>3, <4>5, <4>6
    <3> QED
      BY <1>2, <2>1, <3>3 DEF TimeLeftHolds
  <2> QED
    BY <2>3, <2>4
<1>11. CASE SendsRaw
  <2>1. Sends("RAW") /\ "RAW" \in Packets
    BY <1>11 DEF SendsRaw, Packets
  <2>2. Len(port) + 1 \in DOMAIN port' /\ port'[Len(port) + 1] = "RAW"
    BY <2>1, SentFacts
  <2> QED
    BY <2>2 DEF NoRaw
<1>12. CASE Silent
  BY <1>12 DEF Silent, dev_vars
<1> QED
  BY <1>8, <1>9, <1>10, <1>11, <1>12 DEF ConnectionEvent

LEMMA SendTimeLeft ==
  ASSUME InTime, TypeOK, Backlog, AllCollected, NEW r \in DOMAIN Answers, Send(r),
         pending' # <<>>, TypeOK'
  PROVE  TimeLeftHolds'
<1>1. /\ ~receiving /\ req' = r /\ asks' = 0 /\ UNCHANGED <<port, phase, waits>>
      /\ pending' \in Answers[r] /\ time' = 0 /\ time_all' = 0
  BY SendFacts DEF Send
<1>2. Now'.t = 0
  BY <1>1 DEF Now
<1>3. /\ Len(port) \in Nat /\ DOMAIN port = 1 .. Len(port) /\ Len(port) <= MaxBacklog
      /\ phase \in Nat /\ phase <= Interval
  BY <1>1, BacklogBound, TypeFacts
<1>4. /\ Longest \in Nat /\ Spare \in Nat /\ Interval \in Nat /\ RecvMax \in Nat
      /\ MaxBacklog \in Nat /\ MaxAsks \in Nat
  BY LongestType, ConstantTypes
<1> DEFINE b == Answering'
           gu == GapTime'
           au == AnswersTime'
           qu == QuestionTime'
           c == Len(pending') * Longest
           q == MaxAsks * (Longest + Spare)
<1>5. gu \in Nat /\ gu + Interval <= Longest /\ au \in Nat /\ au + Longest = c
  BY TimeTypesAfter
<1>6. b = gu + au + Spare + qu
  BY DEF Answering, Spare
<1>7. qu = IF Enc' THEN q ELSE 0
  <2>1. MaxAsks - 0 = MaxAsks
    BY <1>4
  <2> QED
    BY <1>1, <2>1 DEF QuestionTime, Longest, Spare
<1>8. c + Spare <= RecvMax /\ (Enc' => c + Spare + q + MaxBacklog <= RecvMax)
  BY <1>1 DEF InTime, Enc
<1>9. q \in Nat
  BY <1>4, ProductGrows
<1>10. c \in Nat
  <2>1. c = au + Longest
    BY <1>5
  <2> QED
    BY <1>4, <1>5, <2>1
<1> HIDE DEF b, gu, au, qu, c, q
<1>11. phase + b <= RecvMax
  BY <1>3, <1>4, <1>5, <1>6, <1>7, <1>8, <1>9, <1>10
<1>12. ASSUME Enc', NEW k \in DOMAIN port PROVE k + Interval + b <= RecvMax
  <2>1. k \in Nat /\ k <= MaxBacklog
    BY <1>3, <1>4
  <2>2. qu = q /\ c + Spare + q + MaxBacklog <= RecvMax
    BY <1>7, <1>8, <1>12
  <2> QED
    BY <1>4, <1>5, <1>6, <1>9, <1>10, <2>1, <2>2
<1>13. b \in Nat
  BY <1>4, <1>5, <1>6, <1>7, <1>9
<1>14. Now'.t + phase' + b <= RecvMax
  BY <1>1, <1>2, <1>3, <1>11, <1>13
<1>15. ASSUME Enc', NEW k \in DOMAIN port' PROVE Now'.t + k + Interval + b <= RecvMax
  <2>1. k \in DOMAIN port /\ k \in Nat
    BY <1>1, <1>3, <1>15
  <2> QED
    BY <1>2, <1>4, <1>12, <1>13, <1>15, <2>1
<1> QED
  BY <1>14, <1>15 DEF TimeLeftHolds, b

LEMMA NextTimeLeft ==
  ASSUME InTime, TypeOK, Backlog, OneQuestion, MinOfRequest, AnswersFit, AllCollected,
         TimeLeft, [Next]_vars, ~misled', TypeOK'
  PROVE  TimeLeft'
<1> SUFFICES ASSUME receiving', pending' # <<>>, NoRaw' PROVE TimeLeftHolds'
  BY DEF TimeLeft, TimeLeftHolds
<1>1. CASE receive
  <2>1. ~Clears
    BY DEF Clears
  <2> QED
    BY <1>1, <2>1, TurnCases, PauseTimeLeft, ReadTimeLeft
<1>2. CASE Other \/ LateScanRsp
  <2>1. /\ UNCHANGED <<mapper_vars, phase, dev_vars, asks>>
        /\ \E pkt \in Packets \union {"OTHER"} : pkt # "ASK" /\ Sends(pkt)
    BY <1>2 DEF Other, LateScanRsp, Packets
  <2>2. /\ \A k \in DOMAIN port : k \in DOMAIN port' /\ port'[k] = port[k]
        /\ \A k \in DOMAIN port' : port'[k] = "ASK" => k \in DOMAIN port /\ port[k] = "ASK"
    BY <2>1, SentFacts
  <2>3. NoRaw /\ receiving /\ pending # <<>>
    BY <2>1, <2>2 DEF NoRaw, mapper_vars, dev_vars
  <2>4. TimeLeftHolds
    BY <2>3 DEF TimeLeft, TimeLeftHolds
  <2>5. Now' = Now /\ Enc' = Enc /\ Answering' = Answering
    BY <2>1 DEF Now, Enc, Answering, GapTime, AnswersTime, QuestionTime, GapLeft, Longest,
                Spare, mapper_vars, dev_vars
  <2> QED
    BY <2>1, <2>2, <2>4, <2>5 DEF TimeLeftHolds, dev_vars
<1>3. CASE TimePasses
  BY <1>3 DEF TimePasses, mapper_vars
<1>4. CASE UNCHANGED vars
  BY <1>4 DEF TimeLeft, TimeLeftHolds, NoRaw, Now, Enc, Answering, GapTime, AnswersTime,
              QuestionTime, GapLeft, Longest, Spare, vars, mapper_vars, dev_vars, bounds
<1> QED
  BY <1>1, <1>2, <1>3, <1>4, EventTimeLeft, SendTimeLeft DEF Next

-----------------------------------------------------------------------------
(* Packets left in the port from before                                    *)

LEMMA LeastNatural ==
  ASSUME NEW T, T \subseteq Nat, T # {}
  PROVE  \E x \in T : \A y \in T : x <= y
<1> DEFINE R == OpToRel(<, Nat)
<1>1. IsWellFoundedOn(R, Nat)
  BY NatLessThanWellFounded
<1>2. \A x, y \in Nat : x < y => <<x, y>> \in R
  BY DEF OpToRel
<1> HIDE DEF R
<1>3. PICK x \in T : \A y \in T : ~ (<<y, x>> \in R)
  BY <1>1, WFMin
<1>4. \A y \in T : ~ (y < x)
  BY <1>2, <1>3
<1> QED
  BY <1>3, <1>4

Fresh == [pkts |-> None, t |-> 0]

\* j packets without a Raw one have not told the mapper to stop
Harmless(x, j) ==
  /\ x.pkts.cyclic <= j
  /\ x.pkts.expected \in {0, 1}
  /\ x.pkts.expected = 0 => x.pkts.cyclic + 1 <= j
  /\ "SCAN_RSP" \notin x.pkts.kinds
  /\ x.t <= j

NoRawUpTo(s, j) == \A i \in 1 .. j : s[i] # "RAW"

\* what a new request finds in the port, and what the peripheral is known to owe
Leftover(run, s, enc) ==
  /\ IsRun(run, Fresh, s, enc)
  /\ \A j \in 0 .. Len(s) : NoRawUpTo(s, j) => Harmless(run[j], j)
  /\ NoRawUpTo(s, Len(s)) =>
       /\ run[Len(s)].pkts.expected = IF \E k \in DOMAIN s : s[k] = "ASK" THEN 0 ELSE 1
       /\ run[Len(s)].pkts.cyclic <= Cardinality(LastCyclic(s))
       /\ ~enc => \A k \in DOMAIN s : s[k] = "ASK" => run[Len(s)].t <= Len(s) - k

LEMMA FreshType == Fresh \in View /\ Harmless(Fresh, 0)
<1>1. Fresh.pkts = None /\ Fresh.t = 0
  BY DEF Fresh
<1>2. None.kinds = {} /\ None.cyclic = 0 /\ None.expected = 1
  BY DEF None
<1> QED
  BY <1>1, <1>2, NoneType DEF Fresh, View, Harmless

LEMMA LeftoverNone ==
  ASSUME NEW enc \in BOOLEAN
  PROVE  \E run : Leftover(run, <<>>, enc)
<1> DEFINE run == [j \in 0 .. 0 |-> Fresh]
<1>1. Len(<<>>) = 0 /\ DOMAIN <<>> = {} /\ (1 .. 0) = {}
  OBVIOUS
<1>2. run \in [0 .. 0 -> View] /\ run[0] = Fresh
  BY FreshType
<1> HIDE DEF run
<1>3. IsRun(run, Fresh, <<>>, enc)
  BY <1>1, <1>2 DEF IsRun
<1>4. \A j \in 0 .. Len(<<>>) : Harmless(run[j], j)
  BY <1>1, <1>2, FreshType
<1>5. run[0].pkts.expected = 1 /\ run[0].pkts.cyclic = 0
  BY <1>2 DEF Fresh, None
<1>6. Cardinality(LastCyclic(<<>>)) = 0
  <2>1. LastCyclic(<<>>) = {}
    BY <1>1 DEF LastCyclic
  <2> QED
    BY <2>1, FS_EmptySet
<1>7. Leftover(run, <<>>, enc)
  BY <1>1, <1>3, <1>4, <1>5, <1>6 DEF Leftover
<1> QED
  BY <1>7

\* one more packet that is none the mapper expects
LEMMA HarmlessReads ==
  ASSUME NEW x \in View, NEW j \in Nat, Harmless(x, j), NEW enc \in BOOLEAN,
         NEW pkt \in Packets \union {"OTHER"}, pkt \notin Expect \union {"RAW", "LATE"}
  PROVE  /\ Harmless(Reads(x, pkt, enc), j + 1)
         /\ pkt = "OTHER" => Reads(x, pkt, enc).pkts = x.pkts
         /\ pkt \in Cyclic => /\ Reads(x, pkt, enc).pkts.expected = x.pkts.expected
                              /\ Reads(x, pkt, enc).pkts.cyclic <= x.pkts.cyclic + 1
         /\ pkt = "ASK" => /\ Reads(x, pkt, enc).pkts.expected = 0
                           /\ Reads(x, pkt, enc).pkts.cyclic = 0
                           /\ ~enc => Reads(x, pkt, enc).t = 0
         /\ Reads(x, pkt, enc).t <= x.t + 1
<1> DEFINE y == Reads(x, pkt, enc)
<1>1. x.pkts \in Summary /\ x.t \in Nat /\ x.pkts.cyclic \in Nat
      /\ y \in View /\ y.t <= x.t + 1 /\ y.t \in Nat /\ y.pkts.cyclic \in Nat
  BY ReadsType DEF View, Summary
<1>2. pkt = "OTHER" \/ pkt \in Cyclic \/ pkt = "ASK"
  BY DEF Packets
<1>3. pkt = "OTHER" => y.pkts = x.pkts
  BY <1>1 DEF Reads, View
<1>4. pkt # "OTHER" => pkt \in Packets /\ y.pkts = Add(x.pkts, pkt)
  BY DEF Reads
<1>5. pkt \in Cyclic => pkt # "OTHER" /\ y.pkts.kinds = x.pkts.kinds \union {Kind(pkt)}
                        /\ y.pkts.expected = x.pkts.expected
                        /\ y.pkts.cyclic <= x.pkts.cyclic + 1
  BY <1>1, <1>4, AddType DEF Cyclic
<1>6. pkt = "ASK" => y.pkts.kinds = x.pkts.kinds \union {Kind(pkt)} /\ y.pkts.cyclic = 0
                     /\ y.pkts.expected = NextExpected(x.pkts.expected, pkt)
  BY <1>1, <1>4, AddType DEF Cyclic
<1>7. pkt = "ASK" => y.pkts.expected = 0
  BY <1>6 DEF NextExpected, Harmless
<1>8. pkt = "ASK" /\ ~enc => y.t = 0
  BY DEF Reads
<1> HIDE DEF y
<1>9. Harmless(y, j + 1)
  <2>1. y.t <= j + 1
    BY <1>1 DEF Harmless
  <2>2. "SCAN_RSP" \notin y.pkts.kinds
    BY <1>2, <1>3, <1>5, <1>6 DEF Harmless, Cyclic, Kind, Kinds
  <2>3. CASE pkt = "OTHER"
    BY <1>1, <1>3, <2>1, <2>2, <2>3 DEF Harmless
  <2>4. CASE pkt \in Cyclic
    BY <1>1, <1>5, <2>1, <2>2, <2>4 DEF Harmless
  <2>5. CASE pkt = "ASK"
    BY <1>1, <1>6, <1>7, <2>1, <2>2, <2>5 DEF Harmless
  <2> QED
    BY <1>2, <2>3, <2>4, <2>5
<1> QED
  BY <1>1, <1>3, <1>5, <1>6, <1>7, <1>8, <1>9 DEF y

\* The cyclic packets at the end of the port, after one more packet.
LEMMA LastCyclicAppend ==
  ASSUME NEW s \in Ports, NEW pkt \in Packets \union {"OTHER"}
  PROVE  /\ pkt \in Cyclic =>
              Cardinality(LastCyclic(Append(s, pkt))) = Cardinality(LastCyclic(s)) + 1
         /\ pkt = "OTHER" => LastCyclic(Append(s, pkt)) = LastCyclic(s)
<1> DEFINE n == Len(s)
           q == Append(s, pkt)
<1>1. /\ n \in Nat /\ DOMAIN q = DOMAIN s \union {n + 1} /\ DOMAIN s = 1 .. n
      /\ \A k \in DOMAIN s : q[k] = s[k] /\ k <= n
      /\ q[n + 1] = pkt
  BY AppendFacts DEF Ports
<1> HIDE DEF q
<1>2. IsFiniteSet(LastCyclic(s)) /\ Cardinality(LastCyclic(s)) \in Nat
  BY LastCyclicSize
<1>3. ASSUME pkt \in Cyclic
      PROVE  Cardinality(LastCyclic(q)) = Cardinality(LastCyclic(s)) + 1
  <2>1. pkt # "ASK"
    BY <1>3 DEF Cyclic
  <2>2. LastCyclic(q) = LastCyclic(s) \union {n + 1}
    BY <1>1, <1>3, <2>1 DEF LastCyclic
  <2>3. n + 1 \notin LastCyclic(s)
    BY <1>1 DEF LastCyclic
  <2> QED
    BY <1>2, <2>2, <2>3, FS_AddElement
<1>4. ASSUME pkt = "OTHER"
      PROVE  LastCyclic(q) = LastCyclic(s)
  <2>1. pkt \notin Cyclic /\ pkt # "ASK"
    BY <1>4 DEF Cyclic
  <2> QED
    BY <1>1, <2>1 DEF LastCyclic
<1> QED
  BY <1>3, <1>4 DEF q

LEMMA LeftoverAppend ==
  ASSUME NEW s \in Ports, NEW enc \in BOOLEAN, NEW run, Leftover(run, s, enc),
         NEW pkt \in Packets \union {"OTHER"}, pkt \notin Expect \union {"LATE"}
  PROVE  \E longer : Leftover(longer, Append(s, pkt), enc)
<1> DEFINE n == Len(s)
           q == Append(s, pkt)
<1>1. /\ q \in Ports /\ n \in Nat /\ Len(q) = n + 1
      /\ DOMAIN q = DOMAIN s \union {n + 1} /\ DOMAIN s = 1 .. n
      /\ \A k \in DOMAIN s : q[k] = s[k] /\ k <= n
      /\ q[n + 1] = pkt
  BY AppendFacts DEF Ports
<1>2. IsRun(run, Fresh, s, enc) /\ run \in [0 .. n -> View]
  BY DEF Leftover, IsRun
<1>3. PICK longer : /\ IsRun(longer, Fresh, q, enc)
                    /\ \A j \in 0 .. n : longer[j] = run[j]
                    /\ longer[n + 1] = Reads(run[n], pkt, enc)
  BY <1>2, RunExtends
<1>4. run[n] \in View /\ n \in 0 .. n
  BY <1>1, <1>2
<1>5. Cardinality(LastCyclic(s)) \in Nat /\ Cardinality(LastCyclic(q)) \in Nat
  BY <1>1, LastCyclicSize
<1>6. /\ pkt \in Cyclic => Cardinality(LastCyclic(q)) = Cardinality(LastCyclic(s)) + 1
      /\ pkt = "OTHER" => LastCyclic(q) = LastCyclic(s)
  BY LastCyclicAppend
<1> HIDE DEF q
<1>7. ASSUME NEW j \in 0 .. n, NoRawUpTo(q, j)
      PROVE  Harmless(longer[j], j) /\ NoRawUpTo(s, j)
  <2>1. NoRawUpTo(s, j)
    BY <1>1, <1>7 DEF NoRawUpTo
  <2> QED
    BY <1>3, <2>1 DEF Leftover
<1>8. ASSUME NoRawUpTo(q, n + 1)
      PROVE  /\ Harmless(longer[n + 1], n + 1)
             /\ longer[n + 1].pkts.expected = IF \E k \in DOMAIN q : q[k] = "ASK" THEN 0 ELSE 1
             /\ longer[n + 1].pkts.cyclic <= Cardinality(LastCyclic(q))
             /\ ~enc => \A k \in DOMAIN q : q[k] = "ASK" => longer[n + 1].t <= (n + 1) - k
  <2> DEFINE x == run[n]
             y == Reads(x, pkt, enc)
  <2>1. NoRawUpTo(q, n) /\ pkt # "RAW"
    BY <1>1, <1>8 DEF NoRawUpTo
  <2>2. Harmless(x, n) /\ NoRawUpTo(s, n)
    BY <1>3, <1>4, <1>7, <2>1
  <2>3. /\ x.pkts.expected = IF \E k \in DOMAIN s : s[k] = "ASK" THEN 0 ELSE 1
        /\ x.pkts.cyclic <= Cardinality(LastCyclic(s))
        /\ ~enc => \A k \in DOMAIN s : s[k] = "ASK" => x.t <= n - k
    BY <2>2 DEF Leftover
  <2>4. /\ Harmless(y, n + 1)
        /\ pkt = "OTHER" => y.pkts = x.pkts
        /\ pkt \in Cyclic => y.pkts.expected = x.pkts.expected /\ y.pkts.cyclic <= x.pkts.cyclic + 1
        /\ pkt = "ASK" => /\ y.pkts.expected = 0 /\ y.pkts.cyclic = 0
                          /\ ~enc => y.t = 0
        /\ y.t <= x.t + 1
    BY <1>1, <1>4, <2>1, <2>2, HarmlessReads
  <2>5. x \in View /\ y \in View
    BY <1>4, ReadsType
  <2>6. x.pkts.cyclic \in Nat /\ y.pkts.cyclic \in Nat /\ x.t \in Nat /\ y.t \in Nat
    BY <2>5 DEF View, Summary
  <2> HIDE DEF x, y
  <2>7. pkt = "OTHER" \/ pkt \in Cyclic \/ pkt = "ASK"
    BY <2>1 DEF Packets
  <2>8. pkt # "ASK" => ((\E k \in DOMAIN q : q[k] = "ASK") <=> \E k \in DOMAIN s : s[k] = "ASK")
    BY <1>1
  <2>9. pkt = "ASK" => \E k \in DOMAIN q : q[k] = "ASK"
    BY <1>1
  <2>10. y.pkts.expected = IF \E k \in DOMAIN q : q[k] = "ASK" THEN 0 ELSE 1
    <3>1. pkt \in Cyclic \/ pkt = "OTHER" => pkt # "ASK"
      BY DEF Cyclic
    <3> QED
      BY <2>3, <2>4, <2>7, <2>8, <2>9, <3>1
  <2>11. y.pkts.cyclic <= Cardinality(LastCyclic(q))
    BY <1>5, <1>6, <2>3, <2>4, <2>6, <2>7
  <2>12. ASSUME ~enc, NEW k \in DOMAIN q, q[k] = "ASK" PROVE y.t <= (n + 1) - k
    <3>1. k \in 1 .. n + 1
      BY <1>1
    <3>2. CASE pkt = "ASK"
      BY <1>1, <2>4, <2>12, <3>1, <3>2
    <3>3. CASE pkt # "ASK"
      <4>1. k \in DOMAIN s /\ s[k] = "ASK"
        BY <1>1, <2>12, <3>3
      <4>2. x.t <= n - k /\ y.t <= x.t + 1
        BY <2>3, <2>4, <2>12, <4>1
      <4> QED
        BY <1>1, <2>6, <3>1, <4>2
    <3> QED
      BY <3>2, <3>3
  <2>13. longer[n + 1] = y
    BY <1>3 DEF x, y
  <2> QED
    BY <2>4, <2>10, <2>11, <2>12, <2>13
<1>9. \A j \in 0 .. n + 1 : NoRawUpTo(q, j) => Harmless(longer[j], j)
  <2>1. \A j \in 0 .. n + 1 : j \in 0 .. n \/ j = n + 1
    BY <1>1
  <2> QED
    BY <1>7, <1>8, <2>1
<1>10. Leftover(longer, q, enc)
  BY <1>1, <1>3, <1>8, <1>9 DEF Leftover
<1> QED
  BY <1>10 DEF q

LEMMA LeftoverRun ==
  ASSUME NEW s \in Ports, \A k \in DOMAIN s : s[k] \notin Expect \union {"LATE"},
         NEW enc \in BOOLEAN
  PROVE  \E run : Leftover(run, s, enc)
<1> DEFINE Unread(r) == /\ \A k \in DOMAIN r : r[k] \notin Expect \union {"LATE"}
                        /\ ~ \E run : Leftover(run, r, enc)
           T == {n \in Nat : \E r \in Ports : Len(r) = n /\ Unread(r)}
<1>1. SUFFICES ASSUME Unread(s) PROVE FALSE
  OBVIOUS
<1>2. Len(s) \in T
  BY <1>1 DEF Ports
<1>3. PICK n \in T : \A m \in T : n <= m
  <2>1. T \subseteq Nat /\ T # {}
    BY <1>2
  <2> HIDE DEF T
  <2> QED
    BY <2>1, LeastNatural
<1>4. PICK r \in Ports : Len(r) = n /\ Unread(r)
  BY <1>3
<1>5. n \in Nat /\ n # 0
  <2>1. n = 0 => r = <<>>
    BY <1>4 DEF Ports
  <2> QED
    BY <1>3, <1>4, <2>1, LeftoverNone
<1> DEFINE q == SubSeq(r, 1, n - 1)
<1>6. /\ q \in Ports /\ Len(q) = n - 1 /\ n - 1 \in Nat
      /\ \A k \in DOMAIN q : k \in DOMAIN r /\ q[k] = r[k]
      /\ r = Append(q, r[n]) /\ n \in DOMAIN r /\ r[n] \in Packets \union {"OTHER"}
  BY <1>4, <1>5 DEF Ports
<1> HIDE DEF q
<1>7. PICK run : Leftover(run, q, enc)
  <2>1. n - 1 \notin T
    BY <1>3, <1>5
  <2>2. \A k \in DOMAIN q : q[k] \notin Expect \union {"LATE"}
    BY <1>4, <1>6
  <2> QED
    BY <1>6, <2>1, <2>2
<1>8. r[n] \notin Expect \union {"LATE"}
  BY <1>4, <1>6
<1>9. \E longer : Leftover(longer, Append(q, r[n]), enc)
  BY <1>6, <1>7, <1>8, LeftoverAppend
<1> QED
  BY <1>4, <1>6, <1>9

-----------------------------------------------------------------------------
(* The mapper goes on while answers are to come                            *)

LEMMA GoesOnIf ==
  ASSUME NEW y \in View, NEW g \in Nat, NEW tmin \in Nat,
         y.pkts.cyclic <= g, g < CyclicLong, y.pkts.expected = 0 => g < CyclicShort,
         "SCAN_RSP" \notin y.pkts.kinds, y.t < RecvMax, y.pkts = None => y.t < tmin
  PROVE  GoesOn(y, tmin)
<1>1. y.pkts.cyclic \in Nat /\ CyclicShort \in Nat /\ CyclicLong \in Nat
  BY ConstantTypes DEF View, Summary
<1>2. ~ sequence_seems_complete(y.pkts)
  BY <1>1 DEF sequence_seems_complete
<1> QED
  BY <1>2 DEF GoesOn

\* Whoever is at y when the port has been read goes on.
LEMMA AheadGoesOn ==
  ASSUME TypeOK', Backlog', OneQuestion', GapInv', AnswersFit', TimeLeftHolds',
         pending' # <<>>, NEW y \in View, Ahead(y)'
  PROVE  GoesOn(y, recv_s_min')
<1> DEFINE n  == Len(port')
           t  == Now'.t
           ph == phase'
           a  == Answering'
           c  == Len(pending') * Longest
           m  == recv_s_min'
<1>1. /\ n \in Nat /\ DOMAIN port' = 1 .. n /\ gap' \in Nat
      /\ Spare \in Nat /\ Spare = MaxBacklog + 1 /\ MaxBacklog \in Nat /\ RecvMax \in Nat
      /\ Interval \in Nat /\ Interval > 0 /\ y.t \in Nat
  BY TypesAfter, LongestType, ConstantTypes DEF Spare, View
<1>2. t \in Nat /\ ph \in Nat /\ m \in Nat /\ waits' \in BOOLEAN /\ pending' \in Seq(Expect)
  <2>1. time' \in Nat /\ time_all' \in Nat
    BY ConstantTypes DEF TypeOK
  <2>2. t \in Nat
    BY <2>1 DEF Now
  <2>3. /\ phase' \in 0 .. Interval /\ recv_s_min' \in ScanMins \union {RecvMin}
        /\ waits' \in BOOLEAN /\ pending' \in Seq(Expect)
    BY DEF TypeOK
  <2>4. ph \in Nat /\ m \in Nat
    BY <2>3, ConstantTypes
  <2> QED
    BY <2>2, <2>3, <2>4
<1>3. a \in Nat /\ a >= Spare
  <2> DEFINE g == GapTime'
             b == AnswersTime'
             q == QuestionTime'
  <2>1. a = g + b + Spare + q
    BY DEF Answering, Spare
  <2>2. g \in Nat /\ b \in Nat /\ q \in Nat
    BY TimeTypesAfter
  <2> HIDE DEF a, g, b, q
  <2> QED
    BY <1>1, <2>1, <2>2
<1>4. n <= MaxBacklog \/ (n = MaxBacklog + 1 /\ ph = Interval)
  BY DEF Backlog
<1>5. /\ ~waits' => t + ph + a <= RecvMax
      /\ waits' /\ Enc' => \A k \in DOMAIN port' :
           port'[k] = "ASK" => t + k + Interval + a <= RecvMax
  BY DEF TimeLeftHolds
<1>6. /\ y.pkts = None => t + ph + Spare <= m
      /\ ~waits' \/ Enc' => y.t <= t + n
      /\ waits' /\ ~Enc' => \A k \in DOMAIN port' : port'[k] = "ASK" => y.t <= n - k
  BY DEF Ahead, Spare
<1>7. waits' => \E k \in DOMAIN port' : port'[k] = "ASK"
  BY DEF OneQuestion
<1>8. c + Spare <= RecvMax /\ c \in Nat
  <2>1. Len(pending') \in Nat
    BY <1>2
  <2> QED
    BY <2>1, LongestType, ProductGrows DEF AnswersFit, Longest, Spare
<1> HIDE DEF n, t, ph, a, c, m
<1>9. y.t < RecvMax /\ (y.pkts = None => y.t < m)
  <2>1. CASE ~waits'
    BY <1>1, <1>2, <1>3, <1>4, <1>5, <1>6, <2>1
  <2>2. CASE waits' /\ Enc'
    <3>1. PICK k \in DOMAIN port' : port'[k] = "ASK"
      BY <1>7, <2>2
    <3>2. k \in Nat /\ k >= 1 /\ t + k + Interval + a <= RecvMax /\ y.t <= t + n
      BY <1>1, <1>5, <1>6, <2>2, <3>1
    <3> QED
      BY <1>1, <1>2, <1>3, <1>4, <1>6, <3>2
  <2>3. CASE waits' /\ ~Enc'
    <3>1. PICK k \in DOMAIN port' : port'[k] = "ASK"
      BY <1>7, <2>3
    <3>2. k \in Nat /\ k >= 1 /\ y.t <= n - k
      BY <1>1, <1>6, <2>3, <3>1
    <3> QED
      BY <1>1, <1>2, <1>4, <1>6, <1>8, <3>2
  <2> QED
    BY <1>2, <2>1, <2>2, <2>3
<1>10. /\ y.pkts.cyclic <= gap' /\ gap' < CyclicLong /\ (due' = 0 => gap' < CyclicShort)
       /\ y.pkts.expected = due' /\ "SCAN_RSP" \notin y.pkts.kinds
  BY DEF Ahead, GapInv
<1>11. GoesOn(y, m)
  BY <1>1, <1>2, <1>9, <1>10, GoesOnIf
<1> QED
  BY <1>11 DEF m

\* A packet comes: what is known of the times.
LEMMA SentAhead ==
  ASSUME TypeOK, UNCHANGED mapper_vars,
         NEW pkt \in Packets \union {"OTHER"}, Sends(pkt),
         NEW x \in View, Ahead(x), NEW y \in View, y = Reads(x, pkt, Enc),
         y.pkts.expected = due', y.pkts.cyclic <= gap', "SCAN_RSP" \notin y.pkts.kinds,
         y.pkts = None => x.pkts = None /\ phase' = phase,
         IF pkt = "ASK" THEN ~waits ELSE waits' = waits
  PROVE  Ahead(y)'
<1>1. Now' = Now /\ Enc' = Enc /\ recv_s_min' = recv_s_min /\ Enc \in BOOLEAN
  BY DEF mapper_vars, Now, Enc
<1>2. y.t <= x.t + 1 /\ y.t \in Nat /\ x.t \in Nat /\ Now.t \in Nat
  BY <1>1, ReadsType, NowType DEF View
<1>3. y.pkts = None => Now'.t + phase' + Spare <= recv_s_min'
  BY <1>1 DEF Ahead
<1>4. ~waits' \/ Enc' => y.t <= Now'.t + Len(port')
  <2>1. Len(port) \in Nat /\ Len(port') = Len(port) + 1
    BY SentFacts
  <2>2. ~waits' \/ Enc' => x.t <= Now.t + Len(port)
    BY <1>1 DEF Ahead
  <2>3. ~waits' \/ Enc' => y.t <= Now.t + (Len(port) + 1)
    BY <1>2, <2>1, <2>2
  <2> QED
    BY <1>1, <2>1, <2>3
<1>5. ASSUME waits', ~Enc', NEW k \in DOMAIN port', port'[k] = "ASK"
      PROVE  y.t <= Len(port') - k
  <2>1. /\ Len(port) \in Nat /\ Len(port') = Len(port) + 1
        /\ DOMAIN port' = DOMAIN port \union {Len(port) + 1}
        /\ DOMAIN port = 1 .. Len(port)
        /\ \A j \in DOMAIN port : port'[j] = port[j]
        /\ port'[Len(port) + 1] = pkt
    BY SentFacts
  <2>2. CASE pkt = "ASK"
    <3>1. y.t = 0
      BY <1>1, <1>5, <2>2 DEF Reads
    <3>2. k \in 1 .. Len(port) + 1
      BY <2>1
    <3> QED
      BY <2>1, <3>1, <3>2
  <2>3. CASE pkt # "ASK"
    <3>1. k \in DOMAIN port /\ port[k] = "ASK" /\ waits
      BY <1>5, <2>1, <2>3
    <3>2. x.t <= Len(port) - k
      BY <1>1, <1>5, <3>1 DEF Ahead
    <3>3. k \in Nat
      BY <2>1, <3>1
    <3>4. y.t <= (Len(port) + 1) - k
      BY <1>2, <2>1, <3>2, <3>3
    <3> QED
      BY <2>1, <3>4
  <2> QED
    BY <2>2, <2>3
<1> QED
  BY <1>3, <1>4, <1>5 DEF Ahead, Spare

\* A packet comes: the run to it is one longer, and the new end goes on if
\* answers are still to come.
LEMMA SentLookAhead ==
  ASSUME TypeOK, LookAhead, receiving, UNCHANGED mapper_vars,
         NEW pkt \in Packets \union {"OTHER"}, Sends(pkt),
         pending' # <<>> \/ pkt \in Expect => pending # <<>>,
         TypeOK', Backlog', OneQuestion', GapInv', AnswersFit', TimeLeft',
         \A x, y \in View : Ahead(x) /\ y = Reads(x, pkt, Enc) /\ pkt # "RAW"
                            /\ pending # <<>> /\ pending' # <<>> => Ahead(y)'
  PROVE  LookAhead'
<1> SUFFICES ASSUME Missing'
             PROVE  \E run \in [0 .. Len(port') -> View] :
                      IsRun(run, Now', port', Enc') /\ (RawFirst(run)' \/ ReachesAll(run)')
  BY DEF LookAhead
<1>0. PICK n \in Nat : n = Len(port)
  BY TypeFacts
<1>1. Now' = Now /\ Enc' = Enc /\ recv_s_min' = recv_s_min /\ receiving' /\ Enc \in BOOLEAN
  BY DEF mapper_vars, Now, Enc
<1>2. /\ n \in Nat /\ Len(port') = n + 1 /\ n + 1 \in DOMAIN port'
      /\ DOMAIN port' = DOMAIN port \union {n + 1}
      /\ DOMAIN port = 1 .. n
      /\ \A k \in DOMAIN port : port'[k] = port[k] /\ k <= n
      /\ port'[n + 1] = pkt
      /\ port' = Append(port, pkt) /\ port \in Ports
  BY <1>0, SentFacts, TypeFacts DEF Sends
<1>3. Missing
  <2>1. CASE pending' # <<>>
    BY <2>1 DEF Missing
  <2>2. CASE pending' = <<>>
    <3>1. PICK k \in DOMAIN port' : port'[k] \in Expect
      BY <2>2 DEF Missing
    <3> QED
      BY <1>2, <3>1 DEF Missing
  <2> QED
    BY <2>1, <2>2
<1>4. PICK run \in [0 .. n -> View] :
        IsRun(run, Now, port, Enc) /\ (RawFirst(run) \/ ReachesAll(run))
  BY <1>0, <1>3 DEF LookAhead
<1>5. PICK longer : /\ IsRun(longer, Now, port', Enc)
                    /\ \A j \in 0 .. n : longer[j] = run[j]
                    /\ longer[n + 1] = Reads(run[n], pkt, Enc)
  BY <1>0, <1>1, <1>2, <1>4, RunExtends
<1>6. longer \in [0 .. Len(port') -> View]
  BY <1>5 DEF IsRun
<1>7. ASSUME NEW k \in 0 .. n, GoesOnUpTo(run, k) PROVE GoesOnUpTo(longer, k)'
  <2>1. \A j \in 1 .. k : j \in 0 .. n
    BY <1>2
  <2> QED
    BY <1>1, <1>5, <1>7, <2>1 DEF GoesOnUpTo
<1>8. \A k \in DOMAIN port : k - 1 \in 0 .. n /\ k \in DOMAIN port'
  BY <1>2
<1>9. CASE RawFirst(run)
  <2>1. PICK k \in DOMAIN port : port[k] = "RAW" /\ GoesOnUpTo(run, k - 1)
    BY <1>9 DEF RawFirst
  <2>2. port'[k] = "RAW" /\ GoesOnUpTo(longer, k - 1)' /\ k \in DOMAIN port'
    BY <1>2, <1>7, <1>8, <2>1
  <2>3. RawFirst(longer)'
    BY <2>2 DEF RawFirst
  <2> QED
    BY <1>1, <1>5, <1>6, <2>3
<1>10. CASE ReachesAll(run) /\ pending = <<>>
  <2>1. pending' = <<>> /\ pkt \notin Expect
    BY <1>10
  <2>2. ASSUME NEW k \in DOMAIN port', port'[k] \in Expect PROVE GoesOnUpTo(longer, k - 1)'
    <3>1. k \in DOMAIN port /\ port[k] \in Expect
      BY <1>2, <2>1, <2>2
    <3>2. GoesOnUpTo(run, k - 1)
      BY <1>10, <3>1 DEF ReachesAll
    <3> QED
      BY <1>7, <1>8, <3>1, <3>2
  <2>3. ReachesAll(longer)'
    BY <2>1, <2>2 DEF ReachesAll
  <2> QED
    BY <1>1, <1>5, <1>6, <2>3
<1>11. CASE ReachesAll(run) /\ pending # <<>> /\ ~RawFirst(run)
  <2>1. GoesOnUpTo(run, n) /\ Ahead(run[n])
    BY <1>0, <1>11 DEF ReachesAll
  <2>2. GoesOnUpTo(longer, n)'
    BY <1>2, <1>7, <2>1
  <2>3. ASSUME NEW k \in DOMAIN port' PROVE GoesOnUpTo(longer, k - 1)'
    <3>1. \A j \in 1 .. k - 1 : j \in 1 .. n
      BY <1>2
    <3> QED
      BY <2>2, <3>1 DEF GoesOnUpTo
  <2>4. CASE pkt = "RAW"
    <3>1. RawFirst(longer)'
      BY <1>2, <2>3, <2>4 DEF RawFirst
    <3> QED
      BY <1>1, <1>5, <1>6, <3>1
  <2>5. CASE pending' = <<>>
    <3>1. ReachesAll(longer)'
      BY <2>3, <2>5 DEF ReachesAll
    <3> QED
      BY <1>1, <1>5, <1>6, <3>1
  <2>6. CASE pkt # "RAW" /\ pending' # <<>>
    <3>1. NoRaw
      <4>1. ASSUME NEW k \in DOMAIN port PROVE GoesOnUpTo(run, k - 1)
        <5>1. \A j \in 1 .. k - 1 : j \in 1 .. n
          BY <1>2
        <5> QED
          BY <2>1, <5>1 DEF GoesOnUpTo
      <4> QED
        BY <1>11, <4>1 DEF NoRaw, RawFirst
    <3>2. NoRaw'
      BY <1>2, <2>6, <3>1 DEF NoRaw
    <3>3. TimeLeftHolds'
      BY <1>1, <2>6, <3>2 DEF TimeLeft, TimeLeftHolds
    <3>4. run[n] \in View /\ longer[n + 1] \in View
      BY <1>2, <1>4, <1>6
    <3>5. Ahead(longer[n + 1])'
      BY <1>5, <1>11, <2>1, <2>6, <3>4
    <3>6. GoesOn(longer[n + 1], recv_s_min')
      BY <2>6, <3>3, <3>4, <3>5, AheadGoesOn
    <3>7. GoesOnUpTo(longer, n + 1)'
      <4>1. \A j \in 1 .. n + 1 : j \in 1 .. n \/ j = n + 1
        BY <1>2
      <4> QED
        BY <2>2, <3>6, <4>1 DEF GoesOnUpTo
    <3>8. ReachesAll(longer)'
      BY <1>2, <2>3, <3>5, <3>7 DEF ReachesAll
    <3> QED
      BY <1>1, <1>5, <1>6, <3>8
  <2> QED
    BY <2>4, <2>5, <2>6
<1> QED
  BY <1>4, <1>9, <1>10, <1>11

\* what a packet adds to what is known ahead
LEMMA ReadsAdds ==
  ASSUME NEW x \in View, NEW pkt \in Packets, NEW enc \in BOOLEAN, NEW y, y = Reads(x, pkt, enc)
  PROVE  /\ y \in View /\ y.pkts # None
         /\ pkt \in Cyclic => /\ y.pkts.expected = x.pkts.expected
                              /\ y.pkts.cyclic <= x.pkts.cyclic + 1
         /\ pkt \notin Cyclic => /\ y.pkts.expected = NextExpected(x.pkts.expected, pkt)
                                 /\ y.pkts.cyclic = 0
         /\ "SCAN_RSP" \in y.pkts.kinds => "SCAN_RSP" \in x.pkts.kinds \/ pkt = "SCAN_RSP"
         /\ x.pkts.cyclic \in Nat /\ y.pkts.cyclic \in Nat
<1>1. pkt # "OTHER"
  BY DEF Packets, Cyclic, Expect
<1>2. x.pkts \in Summary /\ y \in View
  BY <1>1, ReadsType DEF View
<1>3. y.pkts = Add(x.pkts, pkt)
  BY <1>1 DEF Reads
<1> QED
  BY <1>2, <1>3, AddType, KindFacts, ConstantTypes DEF View, Summary

LEMMA EventLookAhead ==
  ASSUME InTime, TypeOK, ScanLast, GapInv, LookAhead, ConnectionEvent, receiving,
         TypeOK', Backlog', OneQuestion', GapInv', AnswersFit', TimeLeft'
  PROVE  LookAhead'
<1>1. UNCHANGED mapper_vars /\ Enc \in BOOLEAN
  BY DEF ConnectionEvent, Enc
<1>2. due \in 0 .. 3 /\ gap \in Nat
  BY TypeFacts
<1>3. CASE Answer
  <2> DEFINE pkt == Head(pending)
  <2>1. /\ pending # <<>> /\ ~waits /\ Sends(pkt) /\ pending' = Tail(pending)
        /\ gap' = 0 /\ due' = Due(pkt) /\ waits' = waits
    BY <1>3 DEF Answer
  <2>2. pkt \in Packets /\ pkt \notin Cyclic /\ pkt # "ASK" /\ pkt # "RAW"
    BY <2>1, HeadPending DEF Expect, Cyclic
  <2>3. pending' # <<>> => pkt # "SCAN_RSP"
    <3>1. pending' # <<>> => Len(pending) >= 2 /\ Len(pending) \in Nat /\ 1 \in DOMAIN pending
                             /\ pkt = pending[1]
      BY <2>1, HeadPending
    <3> QED
      BY <3>1 DEF ScanLast
  <2> HIDE DEF pkt
  <2>4. ASSUME NEW x \in View, NEW y \in View, Ahead(x), y = Reads(x, pkt, Enc), pending' # <<>>
        PROVE  Ahead(y)'
    <3>1. x.pkts.expected = due /\ "SCAN_RSP" \notin x.pkts.kinds
      BY <2>4 DEF Ahead
    <3>2. /\ y.pkts # None /\ (pkt # "SCAN_RSP" => "SCAN_RSP" \notin y.pkts.kinds) /\ y.pkts.cyclic = 0
          /\ y.pkts.expected = NextExpected(due, pkt)
      BY <1>1, <2>2, <2>4, <3>1, ReadsAdds
    <3>3. NextExpected(due, pkt) = Due(pkt)
      BY DEF NextExpected, Due
    <3> QED
      BY <1>1, <2>1, <2>2, <2>3, <2>4, <3>1, <3>2, <3>3, SentAhead
  <2> QED
    BY <1>1, <2>1, <2>2, <2>4, SentLookAhead
<1>4. CASE SendsCyclic
  <2> DEFINE pkt == CyclicPacket
  <2>1. /\ Sends(pkt) /\ UNCHANGED <<pending, waits, due>>
        /\ gap' = IF gap < CyclicLong THEN gap + 1 ELSE gap
    BY <1>4 DEF SendsCyclic
  <2>2. /\ pkt \in Packets /\ pkt \in Cyclic /\ pkt # "ASK" /\ pkt # "SCAN_RSP"
        /\ pkt \notin Expect
    BY DEF CyclicPacket, Packets, Cyclic, Expect
  <2> HIDE DEF pkt
  <2>3. ASSUME NEW x \in View, NEW y \in View, Ahead(x), y = Reads(x, pkt, Enc), pending # <<>>
        PROVE  Ahead(y)'
    <3>1. /\ x.pkts.expected = due /\ "SCAN_RSP" \notin x.pkts.kinds /\ x.pkts.cyclic <= gap
      BY <2>3 DEF Ahead
    <3>2. /\ y.pkts # None /\ (pkt # "SCAN_RSP" => "SCAN_RSP" \notin y.pkts.kinds)
          /\ y.pkts.cyclic <= x.pkts.cyclic + 1 /\ y.pkts.expected = due
          /\ x.pkts.cyclic \in Nat /\ y.pkts.cyclic \in Nat
      BY <1>1, <2>2, <2>3, <3>1, ReadsAdds
    <3>3. gap' = gap + 1
      BY <1>2, <2>1, <2>3, ConstantTypes DEF GapInv
    <3>4. y.pkts.cyclic <= gap'
      BY <1>2, <3>1, <3>2, <3>3
    <3> QED
      BY <1>1, <2>1, <2>2, <2>3, <3>1, <3>2, <3>4, SentAhead
  <2> QED
    BY <1>1, <2>1, <2>2, <2>3, SentLookAhead
<1>5. CASE Ask
  <2>1. /\ Sends("ASK") /\ pending' = pending /\ ~waits /\ gap' = 0 /\ due' = Due("ASK")
    BY <1>5 DEF Ask
  <2>2. "ASK" \in Packets /\ "ASK" \notin Cyclic /\ "ASK" \notin Expect
    BY DEF Packets, Cyclic, Expect
  <2>3. ASSUME NEW x \in View, NEW y \in View, Ahead(x), y = Reads(x, "ASK", Enc)
        PROVE  Ahead(y)'
    <3>1. x.pkts.expected = due /\ "SCAN_RSP" \notin x.pkts.kinds
      BY <2>3 DEF Ahead
    <3>2. /\ y.pkts # None /\ "SCAN_RSP" \notin y.pkts.kinds /\ y.pkts.cyclic = 0
          /\ y.pkts.expected = NextExpected(due, "ASK")
      BY <1>1, <2>2, <2>3, <3>1, ReadsAdds
    <3>3. NextExpected(due, "ASK") = Due("ASK")
      BY DEF NextExpected, Due
    <3> QED
      BY <1>1, <2>1, <2>2, <2>3, <3>1, <3>2, <3>3, SentAhead
  <2> QED
    BY <1>1, <2>1, <2>2, <2>3, SentLookAhead
<1>6. CASE SendsRaw
  <2>1. Sends("RAW") /\ pending' = pending
    BY <1>6 DEF SendsRaw
  <2>2. "RAW" \in Packets /\ "RAW" \notin Expect
    BY DEF Packets, Expect
  <2> QED
    BY <1>1, <2>1, <2>2, SentLookAhead
<1>7. CASE Silent
  <2>1. pending = <<>> /\ UNCHANGED <<mapper_vars, port, pending>>
    BY <1>1, <1>7 DEF Silent, dev_vars
  <2>2. Now' = Now /\ Enc' = Enc /\ Missing' = Missing
    BY <2>1 DEF Now, Enc, Missing, mapper_vars
  <2>3. SUFFICES ASSUME receiving, Missing
                 PROVE  \E run \in [0 .. Len(port) -> View] :
                          IsRun(run, Now, port, Enc) /\ (RawFirst(run)' \/ ReachesAll(run)')
    BY <2>1, <2>2 DEF LookAhead
  <2>4. PICK run \in [0 .. Len(port) -> View] :
          IsRun(run, Now, port, Enc) /\ (RawFirst(run) \/ ReachesAll(run))
    BY <2>3 DEF LookAhead
  <2>5. (RawFirst(run) => RawFirst(run)') /\ (ReachesAll(run) => ReachesAll(run)')
    BY <2>1 DEF RawFirst, ReachesAll, GoesOnUpTo, mapper_vars
  <2> QED
    BY <2>4, <2>5
<1> QED
  BY <1>3, <1>4, <1>5, <1>6, <1>7 DEF ConnectionEvent

\* a scan response nobody waits for, when no answer is expected
LEMMA LateLookAhead ==
  ASSUME TypeOK, LookAhead, LateScanRsp, receiving, ~misled',
         TypeOK', Backlog', OneQuestion', GapInv', AnswersFit', TimeLeft'
  PROVE  LookAhead'
<1>1. /\ Sends("LATE") /\ UNCHANGED <<mapper_vars, phase, pending, waits, gap, due>>
      /\ Enc \in BOOLEAN /\ due = 0 /\ gap \in Nat
  <2>1. ~ (due > 0)
    BY DEF LateScanRsp
  <2>2. due = 0 /\ gap \in Nat
    BY <2>1, TypeFacts
  <2> QED
    BY <2>2 DEF LateScanRsp, dev_vars, Enc
<1>2. "LATE" \in Packets /\ "LATE" \notin Expect \union Cyclic
  BY DEF Packets, Expect, Cyclic
<1>3. ASSUME NEW x \in View, NEW y \in View, Ahead(x), y = Reads(x, "LATE", Enc)
      PROVE  Ahead(y)'
  <2>1. x.pkts.expected = 0 /\ "SCAN_RSP" \notin x.pkts.kinds
    BY <1>1, <1>3 DEF Ahead
  <2>2. /\ y.pkts # None /\ "SCAN_RSP" \notin y.pkts.kinds /\ y.pkts.cyclic = 0
        /\ y.pkts.expected = NextExpected(0, "LATE")
    BY <1>1, <1>2, <1>3, <2>1, ReadsAdds
  <2>3. NextExpected(0, "LATE") = 0
    BY DEF NextExpected
  <2> QED
    BY <1>1, <1>2, <1>3, <2>2, <2>3, SentAhead
<1> QED
  BY <1>1, <1>2, <1>3, SentLookAhead

LEMMA OtherLookAhead ==
  ASSUME TypeOK, LookAhead, Other, receiving,
         TypeOK', Backlog', OneQuestion', GapInv', AnswersFit', TimeLeft'
  PROVE  LookAhead'
<1>1. /\ Sends("OTHER") /\ UNCHANGED <<mapper_vars, phase, pending, waits, gap, due>>
      /\ Enc \in BOOLEAN /\ "OTHER" \notin Expect
  BY DEF Other, dev_vars, Enc, Expect
<1>2. ASSUME NEW x \in View, NEW y \in View, Ahead(x), y = Reads(x, "OTHER", Enc)
      PROVE  Ahead(y)'
  <2>1. y.pkts = x.pkts
    BY <1>2 DEF Reads, View
  <2>2. /\ x.pkts.expected = due /\ x.pkts.cyclic <= gap /\ "SCAN_RSP" \notin x.pkts.kinds
    BY <1>2 DEF Ahead
  <2> QED
    BY <1>1, <1>2, <2>1, <2>2, SentAhead
<1> QED
  BY <1>1, <1>2, SentLookAhead

\* A turn with nothing in the port: the mapper goes on as long as an answer is to come.
LEMMA PauseLookAhead ==
  ASSUME InTime, TypeOK, OneQuestion, MinOfRequest, GapInv, TimeLeft, LookAhead,
         receive, ~misled', Pauses, Missing'
  PROVE  receiving' /\ LookAhead'
<1>1. /\ port = <<>> /\ port' = <<>> /\ UNCHANGED <<pending, waits, gap, due, req, recv_s_min>>
      /\ receiving /\ phase \in Nat /\ phase > 0 /\ phase' = phase - 1
  BY TurnCases, TypeFacts DEF Pauses, receive
<1>2. Len(port) = 0 /\ Len(port') = 0 /\ DOMAIN port = {} /\ DOMAIN port' = {}
  BY <1>1
<1>3. ~waits /\ ~waits' /\ NoRaw
  BY <1>1, <1>2 DEF OneQuestion, NoRaw
<1>4. pending # <<>> /\ pending' # <<>> /\ Missing
  BY <1>1, <1>2 DEF Missing
<1>5. PICK run \in [0 .. Len(port) -> View] :
        IsRun(run, Now, port, Enc) /\ (RawFirst(run) \/ ReachesAll(run))
  BY <1>1, <1>4 DEF LookAhead
<1>6. Ahead(Now)
  <2>1. run[0] = Now
    BY <1>5 DEF IsRun
  <2>2. ~RawFirst(run)
    BY <1>2 DEF RawFirst
  <2> QED
    BY <1>2, <1>4, <1>5, <2>1, <2>2 DEF ReachesAll
<1>7. /\ Now \in View /\ Now.t \in Nat /\ Asks \in View /\ Asks.t \in Nat /\ Asks.t <= Now.t + 1
      /\ Asks.pkts = Now.pkts
  <2>1. Now \in View /\ Now.t \in Nat
    BY NowType DEF View
  <2>2. Asks = [Now EXCEPT !.t = After(Now.t, 1)]
    BY <1>1 DEF Asks
  <2>3. Asks.t = After(Now.t, 1) /\ Asks.pkts = Now.pkts
    BY <2>1, <2>2 DEF View
  <2> QED
    BY <2>1, <2>3, AsksType, AfterType
<1>8. Answering \in Nat /\ Answering >= Spare /\ Spare \in Nat /\ Spare > 0
  <2> DEFINE g == GapTime
             a == AnswersTime
             q == QuestionTime
  <2>1. g \in Nat /\ a \in Nat /\ q \in Nat
    BY <1>4, TimeTypes
  <2>2. Answering = g + a + Spare + q
    BY DEF Answering
  <2> HIDE DEF g, a, q
  <2> QED
    BY <2>1, <2>2, LongestType
<1>9. Now.t + phase + Answering <= RecvMax
  BY <1>1, <1>3, <1>4 DEF TimeLeft
<1>10. Asks.t < RecvMax
  BY <1>1, <1>7, <1>8, <1>9, ConstantTypes
<1>11. recv_s_min \in Nat /\ (Asks.pkts = None => Asks.t < recv_s_min)
  <2>1. recv_s_min \in Nat
    BY TypeFacts
  <2>2. Asks.pkts = None => Now.t + phase + Spare <= recv_s_min
    BY <1>6, <1>7 DEF Ahead
  <2> QED
    BY <1>1, <1>7, <1>8, <2>1, <2>2
<1>12. GoesOn(Asks, recv_s_min)
  <2>1. /\ Asks.pkts.cyclic <= gap /\ gap < CyclicLong /\ (due = 0 => gap < CyclicShort)
        /\ Asks.pkts.expected = due /\ "SCAN_RSP" \notin Asks.pkts.kinds
    BY <1>4, <1>6, <1>7 DEF Ahead, GapInv
  <2>2. gap \in Nat
    BY TypeFacts
  <2> QED
    BY <1>7, <1>10, <1>11, <2>1, <2>2, GoesOnIf
<1>13. receiving' /\ Now' = Asks /\ Enc' = Enc
  <2>1. ~ is_rsp_complete(Asks.pkts, Asks.t, recv_s_min)
    BY <1>7, <1>11, <1>12, GoesOnNotComplete
  <2> QED
    BY <1>1, <2>1, TurnView DEF Clears, Enc
<1>14. PICK y \in View : y = Asks
  BY <1>7
<1>15. Ahead(y)'
  <2> DEFINE t == Now.t
             u == Now'.t
             ph == phase'
  <2>1. u = y.t /\ u \in Nat /\ u <= t + 1 /\ t \in Nat /\ ph = phase - 1
    BY <1>1, <1>7, <1>13, <1>14
  <2>2. y.pkts = None => t + phase + Spare <= recv_s_min
    BY <1>6, <1>7, <1>14 DEF Ahead
  <2> HIDE DEF t, u, ph
  <2>3. y.pkts = None => u + ph + Spare <= recv_s_min
    BY <1>1, <1>8, <1>11, <2>1, <2>2
  <2>4. y.t <= u + 0
    BY <2>1
  <2>5. /\ y.pkts.expected = due' /\ y.pkts.cyclic <= gap' /\ "SCAN_RSP" \notin y.pkts.kinds
    BY <1>1, <1>6, <1>7, <1>14 DEF Ahead
  <2> QED
    BY <1>1, <1>2, <1>3, <2>3, <2>4, <2>5 DEF Ahead, Spare, u, ph
<1> DEFINE now == [j \in 0 .. 0 |-> y]
<1>16. now \in [0 .. 0 -> View] /\ now[0] = y
  OBVIOUS
<1> HIDE DEF now
<1>17. IsRun(now, y, port', Enc')
  BY <1>2, <1>16 DEF IsRun
<1>18. ReachesAll(now)'
  <2>1. GoesOnUpTo(now, 0)'
    BY DEF GoesOnUpTo
  <2>2. now[0] = y /\ now[Len(port')] = y
    BY <1>2, <1>16
  <2> QED
    BY <1>2, <1>15, <2>1, <2>2 DEF ReachesAll
<1> QED
  BY <1>2, <1>13, <1>14, <1>16, <1>17, <1>18 DEF LookAhead

\* A turn that reads a packet which is no Raw one.
LEMMA ReadLookAhead ==
  ASSUME InTime, TypeOK, OneQuestion, MinOfRequest, LookAhead, receive, ~misled',
         ReadsOne, Missing'
  PROVE  receiving' /\ LookAhead'
<1>1. /\ port # <<>> /\ Head(port) # "RAW" /\ port' = Tail(port) /\ port \in Ports
      /\ waits' = IF Head(port) = "ASK" THEN FALSE ELSE waits
      /\ UNCHANGED <<pending, gap, due, req, recv_s_min>>
      /\ receiving /\ phase \in Nat /\ phase > 0 /\ phase' = phase - 1
      /\ Enc \in BOOLEAN /\ Enc' = Enc /\ waits \in BOOLEAN /\ recv_s_min \in Nat
  BY TurnCases, TypeFacts DEF ReadsOne, receive, Enc
<1>2. PICK n \in Nat : n = Len(port)
  BY TypeFacts
<1>3. /\ n >= 1 /\ Len(port') = n - 1 /\ Head(port) = port[1] /\ 1 \in DOMAIN port
      /\ DOMAIN port = 1 .. n /\ DOMAIN port' = 1 .. n - 1
      /\ \A k \in DOMAIN port' : k + 1 \in DOMAIN port /\ port'[k] = port[k + 1]
      /\ \A k \in DOMAIN port : k = 1 \/ (k - 1 \in DOMAIN port' /\ port'[k - 1] = port[k])
  BY <1>1, <1>2, ShiftedFacts
<1>4. Missing
  <2>1. CASE pending' # <<>>
    BY <1>1, <2>1 DEF Missing
  <2>2. CASE pending' = <<>>
    <3>1. PICK k \in DOMAIN port' : port'[k] \in Expect
      BY <2>2 DEF Missing
    <3> QED
      BY <1>3, <3>1 DEF Missing
  <2> QED
    BY <2>1, <2>2
<1>5. PICK run \in [0 .. n -> View] :
        IsRun(run, Now, port, Enc) /\ (RawFirst(run) \/ ReachesAll(run))
  BY <1>1, <1>2, <1>4 DEF LookAhead
<1>6. run[1] = Asks /\ run[1] \in View /\ Reads(Now, Head(port), Enc) = Asks
  <2>1. run[0] = Now /\ run[1] = Reads(run[1 - 1], port[1], Enc) /\ 1 - 1 = 0
    BY <1>2, <1>3, <1>5 DEF IsRun
  <2>2. Asks = Reads(Now, Head(port), Enc)
    BY <1>1 DEF Asks
  <2>3. run[1] = Reads(Now, port[1], Enc)
    BY <2>1
  <2> QED
    BY <1>3, <2>2, <2>3, AsksType
<1>7. GoesOn(run[1], recv_s_min)
  <2>1. ASSUME NEW k \in Nat, k >= 1, GoesOnUpTo(run, k) PROVE GoesOn(run[1], recv_s_min)
    BY <2>1 DEF GoesOnUpTo
  <2>2. CASE RawFirst(run)
    <3>1. PICK k \in DOMAIN port : port[k] = "RAW" /\ GoesOnUpTo(run, k - 1)
      BY <2>2 DEF RawFirst
    <3>2. k # 1
      BY <1>1, <1>3, <3>1
    <3>3. k - 1 \in Nat /\ k - 1 >= 1
      BY <1>3, <3>1, <3>2
    <3> QED
      BY <2>1, <3>1, <3>3
  <2>3. CASE ReachesAll(run) /\ pending # <<>>
    BY <1>2, <1>3, <2>1, <2>3 DEF ReachesAll
  <2>4. CASE ReachesAll(run) /\ pending = <<>>
    <3>1. PICK k \in DOMAIN port' : port'[k] \in Expect
      BY <1>1, <2>4 DEF Missing
    <3>2. k + 1 \in DOMAIN port /\ port[k + 1] \in Expect
      BY <1>3, <3>1
    <3>3. GoesOnUpTo(run, (k + 1) - 1)
      BY <2>4, <3>2 DEF ReachesAll
    <3>4. (k + 1) - 1 = k /\ k \in Nat /\ k >= 1
      BY <1>3, <3>1
    <3> QED
      BY <2>1, <3>3, <3>4
  <2> QED
    BY <1>5, <2>2, <2>3, <2>4
<1>8. receiving' /\ Now' = Asks
  <2>1. ~ is_rsp_complete(Asks.pkts, Asks.t, recv_s_min)
    BY <1>1, <1>6, <1>7, GoesOnNotComplete
  <2> QED
    BY <1>1, <2>1, TurnView DEF Clears
<1>9. /\ Now.t \in Nat /\ Now'.t \in Nat /\ Now'.t <= Now.t + 1
      /\ Head(port) # "ASK" \/ Enc => Now'.t = Now.t + 1
      /\ Head(port) = "ASK" /\ ~Enc => Now'.t = 0
  <2>1. Now \in View /\ Now.t \in Nat /\ Asks \in View /\ Asks.t \in Nat
    BY NowType, AsksType DEF View
  <2>2. Asks.t < RecvMax /\ RecvMax \in Nat /\ MaxTime \in Nat /\ RecvMax <= MaxTime
    BY <1>6, <1>7, ReceiveLoopAssumption DEF GoesOn
  <2>3. Asks.t = IF Head(port) = "ASK" /\ ~Enc THEN 0 ELSE After(Now.t, 1)
    BY <1>6, <2>1 DEF Reads, View
  <2>4. After(Now.t, 1) <= Now.t + 1 /\ (After(Now.t, 1) < MaxTime => After(Now.t, 1) = Now.t + 1)
    BY <2>1, <2>2 DEF After
  <2>5. After(Now.t, 1) \in Nat
    BY <2>1, AfterType
  <2>6. Asks.t < MaxTime
    BY <2>1, <2>2
  <2>7. CASE Head(port) = "ASK" /\ ~Enc
    BY <1>8, <2>1, <2>3, <2>7
  <2>8. CASE ~ (Head(port) = "ASK" /\ ~Enc)
    <3>1. Asks.t = After(Now.t, 1)
      BY <2>3, <2>8
    <3>2. Asks.t = Now.t + 1
      BY <2>4, <2>6, <3>1
    <3> QED
      BY <1>8, <2>1, <2>8, <3>2
  <2> QED
    BY <2>7, <2>8
<1>10. PICK rest : /\ IsRun(rest, Asks, port', Enc)
                   /\ \A j \in 0 .. n - 1 : rest[j] = run[j + 1]
  BY <1>1, <1>3, <1>5, <1>6, RunShifts
<1>11. rest \in [0 .. Len(port') -> View]
  BY <1>10 DEF IsRun
<1>12. ASSUME NEW k \in 1 .. n, GoesOnUpTo(run, k) PROVE GoesOnUpTo(rest, k - 1)'
  <2>1. ASSUME NEW j \in 1 .. k - 1 PROVE GoesOn(rest[j], recv_s_min)
    <3>1. j \in 0 .. n - 1 /\ j + 1 \in 1 .. k
      BY <1>2
    <3> QED
      BY <1>10, <1>12, <3>1 DEF GoesOnUpTo
  <2> QED
    BY <1>1, <2>1 DEF GoesOnUpTo
<1>13. CASE RawFirst(run)
  <2>1. PICK k \in DOMAIN port : port[k] = "RAW" /\ GoesOnUpTo(run, k - 1)
    BY <1>13 DEF RawFirst
  <2>2. k # 1
    BY <1>1, <1>3, <2>1
  <2>3. k - 1 \in DOMAIN port' /\ port'[k - 1] = "RAW" /\ k - 1 \in 1 .. n
    BY <1>3, <2>1, <2>2
  <2>4. GoesOnUpTo(rest, (k - 1) - 1)'
    BY <1>12, <2>1, <2>3
  <2>5. RawFirst(rest)'
    BY <2>3, <2>4 DEF RawFirst
  <2> QED
    BY <1>1, <1>8, <1>10, <1>11, <2>5 DEF LookAhead
<1>14. CASE ReachesAll(run)
  <2>1. ASSUME NEW k \in DOMAIN port', port'[k] \in Expect PROVE GoesOnUpTo(rest, k - 1)'
    <3>1. k + 1 \in DOMAIN port /\ port[k + 1] \in Expect /\ (k + 1) - 1 = k /\ k \in 1 .. n
      BY <1>3, <2>1
    <3>2. GoesOnUpTo(run, (k + 1) - 1)
      BY <1>14, <3>1 DEF ReachesAll
    <3> QED
      BY <1>12, <3>1, <3>2
  <2>2. ASSUME pending' # <<>> PROVE GoesOnUpTo(rest, n - 1)' /\ Ahead(rest[n - 1])'
    <3>1. GoesOnUpTo(run, n) /\ Ahead(run[n])
      BY <1>1, <1>2, <1>14, <2>2 DEF ReachesAll
    <3>2. GoesOnUpTo(rest, n - 1)'
      BY <1>3, <1>12, <3>1
    <3>3. PICK y \in View : y = run[n] /\ y = rest[n - 1]
      <4>1. n - 1 \in 0 .. n - 1 /\ (n - 1) + 1 = n /\ n \in 0 .. n
        BY <1>3
      <4> QED
        BY <1>10, <4>1
    <3> DEFINE t == Now.t
               u == Now'.t
               ph == phase'
    <3>4. /\ t \in Nat /\ u \in Nat /\ u <= t + 1 /\ ph = phase - 1 /\ y.t \in Nat
          /\ Head(port) # "ASK" \/ Enc => u = t + 1
          /\ Head(port) = "ASK" /\ ~Enc => u = 0
      BY <1>1, <1>9 DEF View
    <3>5. /\ y.pkts.expected = due' /\ y.pkts.cyclic <= gap' /\ "SCAN_RSP" \notin y.pkts.kinds
          /\ y.pkts = None => t + phase + Spare <= recv_s_min
          /\ ~waits \/ Enc => y.t <= t + n
          /\ waits /\ ~Enc => \A k \in DOMAIN port : port[k] = "ASK" => y.t <= n - k
      BY <1>1, <1>2, <3>1, <3>3 DEF Ahead
    <3> HIDE DEF t, u, ph
    <3>6. y.pkts = None => u + ph + Spare <= recv_s_min
      BY <1>1, <3>4, <3>5, LongestType
    <3>7. ~waits' \/ Enc => y.t <= u + (n - 1)
      <4>1. CASE ~waits \/ Enc
        <5>1. Head(port) # "ASK" \/ Enc
          BY <1>3, <4>1 DEF OneQuestion
        <5> QED
          BY <3>4, <3>5, <4>1, <5>1
      <4>2. CASE waits /\ ~Enc
        <5>1. ~waits' => Head(port) = "ASK"
          BY <1>1, <4>2
        <5>2. ~waits' => y.t <= n - 1 /\ u = 0
          BY <1>3, <3>4, <3>5, <4>2, <5>1
        <5> QED
          BY <3>4, <4>2, <5>2
      <4> QED
        BY <1>1, <4>1, <4>2
    <3>8. ASSUME waits', ~Enc, NEW k \in DOMAIN port', port'[k] = "ASK"
          PROVE  y.t <= (n - 1) - k
      <4>1. k + 1 \in DOMAIN port /\ port[k + 1] = "ASK" /\ k \in Nat
        BY <1>3, <3>8
      <4>2. waits
        BY <1>1, <3>8
      <4>3. y.t <= n - (k + 1)
        BY <3>5, <3>8, <4>1, <4>2
      <4> QED
        BY <3>4, <4>1, <4>3
    <3>9. Ahead(y)'
      BY <1>1, <1>3, <3>5, <3>6, <3>7, <3>8 DEF Ahead, Spare, u, ph
    <3> QED
      BY <3>2, <3>3, <3>9
  <2>3. ReachesAll(rest)'
    BY <1>3, <2>1, <2>2 DEF ReachesAll
  <2> QED
    BY <1>1, <1>8, <1>10, <1>11, <2>3 DEF LookAhead
<1> QED
  BY <1>5, <1>13, <1>14

\* A request is sent: what is left in the port does not make the mapper stop.
LEMMA SendLookAhead ==
  ASSUME InTime, TypeOK, Backlog, AllCollected, NEW r \in DOMAIN Answers, Send(r), ~misled'
  PROVE  LookAhead'
<1>1. /\ ~receiving /\ req' = r /\ port' = port /\ UNCHANGED <<phase, waits>>
      /\ recv_s_min' \in ScanMins \union {RecvMin} /\ pending' \in Answers[r]
      /\ gap' = Cardinality(LastCyclic(port))
      /\ due' = IF \E k \in DOMAIN port : port[k] = "ASK" THEN 0 ELSE 1
      /\ packets' = None /\ time' = 0 /\ res_pkts' = None /\ time_all' = 0
  BY SendFacts DEF Send
<1>2. PICK n \in Nat : n = Len(port)
  BY TypeFacts
<1>3. /\ port \in Ports /\ DOMAIN port = 1 .. n /\ n <= MaxBacklog
      /\ phase \in Nat /\ phase <= Interval
  BY <1>1, <1>2, TypeFacts, BacklogBound
<1>4. \A k \in DOMAIN port : port[k] \notin Expect \union {"LATE"}
  BY <1>1 DEF Send, AllCollected
<1>5. Now' = Fresh /\ Fresh.t = 0
  BY <1>1 DEF Now, Fresh
<1>6. SUFFICES ASSUME Missing'
               PROVE  \E run \in [0 .. n -> View] :
                        IsRun(run, Fresh, port, Enc') /\ (RawFirst(run)' \/ ReachesAll(run)')
  BY <1>1, <1>2, <1>5 DEF LookAhead
<1>7. pending' # <<>>
  BY <1>1, <1>4, <1>6 DEF Missing
<1>8. PICK enc \in BOOLEAN : enc = Enc'
  BY DEF Enc
<1>9. PICK run : Leftover(run, port, enc)
  BY <1>3, <1>4, LeftoverRun
<1>10. IsRun(run, Fresh, port, enc) /\ run \in [0 .. n -> View]
  BY <1>2, <1>9 DEF Leftover, IsRun
<1>11. /\ MaxBacklog \in Nat /\ MaxBacklog < CyclicShort /\ MaxBacklog < CyclicLong
       /\ CyclicShort \in Nat /\ CyclicLong \in Nat /\ RecvMax \in Nat /\ Interval \in Nat
       /\ Spare \in Nat /\ Spare = MaxBacklog + 1 /\ Spare <= RecvMax
       /\ recv_s_min' \in Nat /\ Interval + Spare <= recv_s_min'
  <2>1. Len(pending') * Longest + Spare <= RecvMax
    BY <1>1, <1>7 DEF InTime
  <2>2. Len(pending') * Longest \in Nat
    <3>1. Len(pending') \in Nat
      BY <1>1, <1>7, ReceiveLoopAssumption
    <3> QED
      BY <3>1, LongestType, ProductGrows
  <2> DEFINE c == Len(pending') * Longest
  <2>3. c \in Nat /\ c + Spare <= RecvMax
    BY <2>1, <2>2
  <2> HIDE DEF c
  <2>4. Spare <= RecvMax
    BY <2>3, LongestType, ConstantTypes
  <2>5. recv_s_min' \in Nat /\ Interval + Spare <= recv_s_min'
    BY <1>1, ConstantTypes DEF InTime
  <2> QED
    BY <2>4, <2>5, ConstantTypes, LongestType DEF InTime, Spare
<1>12. ASSUME NEW j \in 0 .. n, NoRawUpTo(port, j)
       PROVE  GoesOn(run[j], recv_s_min') /\ Harmless(run[j], j)
  <2>1. Harmless(run[j], j)
    BY <1>2, <1>9, <1>12 DEF Leftover
  <2>2. run[j] \in View
    BY <1>10
  <2>3. /\ run[j].pkts.cyclic <= j /\ run[j].t <= j /\ "SCAN_RSP" \notin run[j].pkts.kinds
        /\ run[j].t \in Nat
    BY <2>1, <2>2 DEF Harmless, View
  <2>4. j \in Nat /\ j <= MaxBacklog
    BY <1>3, <1>11
  <2>5. j < CyclicLong /\ j < CyclicShort /\ run[j].t < RecvMax /\ run[j].t < recv_s_min'
    BY <1>11, <2>3, <2>4
  <2> QED
    BY <1>11, <2>1, <2>2, <2>3, <2>4, <2>5, GoesOnIf
<1>13. ASSUME NEW j \in 0 .. n, NoRawUpTo(port, j) PROVE GoesOnUpTo(run, j)'
  <2>1. ASSUME NEW i \in 1 .. j PROVE GoesOn(run[i], recv_s_min')
    <3>1. i \in 0 .. n /\ \A h \in 1 .. i : h \in 1 .. j
      BY <1>2
    <3>2. NoRawUpTo(port, i)
      BY <1>13, <3>1 DEF NoRawUpTo
    <3> QED
      BY <1>12, <3>1, <3>2
  <2> QED
    BY <2>1 DEF GoesOnUpTo
<1>14. CASE \E k \in DOMAIN port : port[k] = "RAW"
  <2> DEFINE T == {k \in DOMAIN port : port[k] = "RAW"}
  <2>1. T \subseteq Nat /\ T # {}
    BY <1>3, <1>14
  <2>2. PICK k \in T : \A i \in T : k <= i
    BY <2>1, LeastNatural
  <2>3. k \in 1 .. n /\ port[k] = "RAW" /\ k - 1 \in 0 .. n
    BY <1>3, <2>2
  <2>4. NoRawUpTo(port, k - 1)
    <3>1. ASSUME NEW i \in 1 .. k - 1, port[i] = "RAW" PROVE FALSE
      <4>1. i \in T /\ i < k
        BY <1>3, <2>3, <3>1
      <4> QED
        BY <2>2, <2>3, <4>1
    <3> QED
      BY <3>1 DEF NoRawUpTo
  <2>5. GoesOnUpTo(run, k - 1)'
    BY <1>13, <2>3, <2>4
  <2>6. RawFirst(run)'
    BY <1>1, <1>3, <2>3, <2>5 DEF RawFirst
  <2> QED
    BY <1>8, <1>10, <2>6
<1>15. CASE ~ \E k \in DOMAIN port : port[k] = "RAW"
  <2>1. NoRawUpTo(port, n) /\ n \in 0 .. n
    BY <1>3, <1>15 DEF NoRawUpTo
  <2>2. GoesOnUpTo(run, n)' /\ Harmless(run[n], n)
    BY <1>12, <1>13, <2>1
  <2>3. PICK y \in View : y = run[n]
    BY <1>10, <2>1
  <2>4. /\ y.pkts.expected = due' /\ y.pkts.cyclic <= gap' /\ "SCAN_RSP" \notin y.pkts.kinds
        /\ y.t <= n /\ y.t \in Nat
        /\ ~enc => \A k \in DOMAIN port : port[k] = "ASK" => y.t <= n - k
    BY <1>1, <1>2, <1>9, <2>1, <2>2, <2>3 DEF Leftover, Harmless, View
  <2>5. 0 + phase + Spare <= recv_s_min' /\ y.t <= 0 + n
    BY <1>3, <1>11, <2>4
  <2>6. Ahead(y)'
    BY <1>1, <1>2, <1>5, <1>8, <2>4, <2>5 DEF Ahead, Spare
  <2>7. ReachesAll(run)'
    BY <1>1, <1>2, <1>4, <2>2, <2>3, <2>6 DEF ReachesAll
  <2> QED
    BY <1>8, <1>10, <2>7
<1> QED
  BY <1>14, <1>15

-----------------------------------------------------------------------------
(* No answer is left                                                       *)

LEMMA NextLookAhead ==
  ASSUME InTime, TypeOK, Backlog, MinOfRequest, Sound, [Next]_vars, ~misled',
         TypeOK', Backlog', OneQuestion', GapInv', AnswersFit', TimeLeft'
  PROVE  LookAhead' /\ AllCollected'
<1> USE DEF Sound
<1>1. AllCollected <=> (~receiving => ~Missing)
  BY DEF AllCollected, Missing
<1>2. AllCollected' <=> (~receiving' => ~Missing')
  BY DEF AllCollected, Missing
<1>3. CASE receive
  <2>1. Clears => ~Missing'
    BY DEF Clears, Missing
  <2>2. Missing' => receiving' /\ LookAhead'
    BY <1>3, <2>1, TurnCases, PauseLookAhead, ReadLookAhead
  <2>3. ~Missing' => LookAhead'
    BY DEF LookAhead
  <2> QED
    BY <1>2, <2>2, <2>3
<1>4. ASSUME ConnectionEvent \/ Other \/ LateScanRsp \/ TimePasses PROVE receiving' = receiving
  BY <1>4 DEF ConnectionEvent, Other, LateScanRsp, TimePasses, mapper_vars
<1>5. CASE ConnectionEvent
  <2>1. CASE receiving
    BY <1>2, <1>4, <1>5, <2>1, EventLookAhead
  <2>2. CASE ~receiving
    <3>1. pending = <<>> /\ ~receiving'
      BY <1>4, <1>5, <2>2 DEF AllCollected
    <3>2. /\ pending' = <<>>
          /\ port' = port \/ \E pkt \in Packets \ Expect : Sends(pkt)
      BY <1>5, <3>1, <2>2
         DEF ConnectionEvent, Answer, SendsCyclic, Ask, SendsRaw, Silent, dev_vars,
             CyclicPacket, Packets, Cyclic, Expect
    <3>3. \A k \in DOMAIN port : port[k] \notin Expect
      BY <2>2 DEF AllCollected
    <3>4. \A k \in DOMAIN port' : port'[k] \notin Expect
      <4>1. ASSUME NEW pkt \in Packets \ Expect, Sends(pkt)
            PROVE  \A k \in DOMAIN port' : port'[k] \notin Expect
        BY <3>3, <4>1, SentFacts
      <4> QED
        BY <3>2, <3>3, <4>1
    <3> QED
      BY <3>1, <3>2, <3>4 DEF LookAhead, AllCollected
  <2> QED
    BY <2>1, <2>2
<1>6. CASE Other \/ LateScanRsp
  <2>1. CASE receiving
    BY <1>2, <1>4, <1>6, <2>1, OtherLookAhead, LateLookAhead
  <2>2. CASE ~receiving
    <3>1. ~receiving' /\ pending' = pending
          /\ \E pkt \in (Packets \union {"OTHER"}) \ Expect : Sends(pkt)
      BY <1>4, <1>6, <2>2 DEF Other, LateScanRsp, dev_vars, Packets, Expect
    <3>2. pending = <<>> /\ \A k \in DOMAIN port : port[k] \notin Expect
      BY <2>2 DEF AllCollected
    <3>3. \A k \in DOMAIN port' : port'[k] \notin Expect
      BY <3>1, <3>2, SentFacts
    <3> QED
      BY <3>1, <3>2, <3>3 DEF LookAhead, AllCollected
  <2> QED
    BY <2>1, <2>2
<1>7. CASE \E r \in DOMAIN Answers : Send(r)
  <2>1. receiving'
    BY <1>7 DEF Send
  <2> QED
    BY <1>2, <1>7, <2>1, SendLookAhead
<1>8. CASE TimePasses
  <2>1. ~receiving /\ UNCHANGED <<receiving, port, pending>>
    BY <1>8 DEF TimePasses, mapper_vars, dev_vars
  <2> QED
    BY <2>1 DEF LookAhead, AllCollected
<1>9. CASE UNCHANGED vars
  <2>1. UNCHANGED vars
    BY <1>9
  <2>2. AllCollected'
    BY <2>1 DEF AllCollected, vars, mapper_vars, dev_vars
  <2>3. LookAhead'
    BY <2>1 DEF LookAhead, Missing, RawFirst, ReachesAll, GoesOnUpTo, Ahead, Now, Enc,
                vars, mapper_vars, dev_vars
  <2> QED
    BY <2>2, <2>3
<1> QED
  BY <1>3, <1>5, <1>6, <1>7, <1>8, <1>9 DEF Next

LEMMA IInvInit == Init => IInv
<1> SUFFICES ASSUME Init PROVE IInv
  OBVIOUS
<1>1. ~receiving /\ pending = <<>> /\ port = <<>> /\ ~waits /\ req = "SCAN_REQ"
  BY DEF Init
<1>2. DOMAIN port = {} /\ DOMAIN pending = {}
  BY <1>1
<1> QED
  BY <1>1, <1>2, InitTypeOK
     DEF IInv, Sound, OneQuestion, MinOfRequest, ScanLast, GapInv, AnswersFit, TimeLeft,
         AllCollected, LookAhead

\* What is left after the mapper was misled has been read when a request is sent.
LEMMA SendSound ==
  ASSUME TypeOK, misled, NEW r \in DOMAIN Answers, Send(r), ~misled'
  PROVE  Sound
<1>1. ~receiving /\ ~LeftOver
  BY DEF Send
<1>2. pending = <<>> /\ ~waits /\ \A k \in DOMAIN port : port[k] \notin Expect \union {"ASK"}
  BY <1>1 DEF LeftOver
<1>3. DOMAIN pending = {}
  BY <1>2
<1> QED
  BY <1>1, <1>2, <1>3 DEF Sound, OneQuestion, ScanLast, GapInv, AnswersFit, TimeLeft,
                          AllCollected, LookAhead

\* All other steps leave a mapper misled that is.
LEMMA StaysMisled ==
  ASSUME TypeOK, [Next]_vars, misled, ~misled'
  PROVE  \E r \in DOMAIN Answers : Send(r)
<1>1. ~receive
  BY DEF receive, NothingToRead, Ignored, Received, Asked, RawReceived, ResetsDevice
<1> QED
  BY <1>1 DEF Next, ConnectionEvent, Other, LateScanRsp, TimePasses, vars

LEMMA SoundNext ==
  ASSUME InTime, TypeOK, Backlog, MinOfRequest, Sound, [Next]_vars, TypeOK', Backlog', ~misled'
  PROVE  Sound'
<1>1. OneQuestion /\ ScanLast /\ GapInv /\ AnswersFit /\ TimeLeft /\ AllCollected
  BY DEF Sound
<1>2. OneQuestion' /\ ScanLast' /\ AnswersFit'
  BY <1>1, NextOneQuestion, NextScanLast, NextAnswersFit
<1>3. GapInv'
  BY <1>1, <1>2, NextGapInv
<1>4. TimeLeft'
  BY <1>1, <1>2, NextTimeLeft
<1>5. LookAhead' /\ AllCollected'
  BY <1>2, <1>3, <1>4, NextLookAhead
<1> QED
  BY <1>2, <1>3, <1>4, <1>5 DEF Sound

LEMMA IInvNext == InTime /\ IInv /\ [Next]_vars => IInv'
<1> SUFFICES ASSUME InTime, IInv, [Next]_vars PROVE IInv'
  OBVIOUS
<1>1. TypeOK /\ Backlog /\ MinOfRequest /\ (misled \/ Sound)
  BY DEF IInv
<1>2. TypeOK' /\ Backlog' /\ MinOfRequest'
  BY <1>1, NextTypeOK, NextBacklog, NextMinOfRequest
<1>3. ASSUME ~misled' PROVE Sound'
  <2>1. Sound
    BY <1>1, <1>3, StaysMisled, SendSound
  <2> QED
    BY <1>1, <1>2, <1>3, <2>1, SoundNext
<1> QED
  BY <1>2, <1>3 DEF IInv

\* When the mapper stops receiving, every answer has been read, for all mappers,
\* time limits, counts of cyclic packets and answers that are InTime: nothing the
\* peripheral, others, questions or Raw packets do in between makes
\* is_rsp_complete (BLESUL.py:368-385) true too early in receive() (417-488) or in
\* ll_ctrl_enc_req() (230-257), whatever was left in the port.  This includes a
\* Raw packet if the device is reset, and a late scan response if no answer is
\* due; else the mapper is misled (AnswersCollected), until a request is sent
\* with nothing left over from before, from when on the theorem holds again.
THEOREM AllAnswersCollected == InTime => (Spec => []AnswersCollected)
<1> SUFFICES ASSUME InTime PROVE Spec => []AnswersCollected
  OBVIOUS
<1>1. Init => IInv
  BY IInvInit
<1>2. IInv /\ [Next]_vars => IInv'
  BY IInvNext
<1>3. IInv => AnswersCollected
  BY DEF IInv, Sound, AllCollected, AnswersCollected
<1> QED
  BY <1>1, <1>2, <1>3, PTL DEF Spec
=============================================================================
