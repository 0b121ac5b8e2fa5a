----------------------------- MODULE ReceiveLoop -----------------------------
(***************************************************************************)
(* How long the mapper listens for answers (py/BLESUL.py): receive(), the  *)
(* heuristic is_rsp_complete() with its variants for two flavours, the     *)
(* packet-by-packet reception of ll_ctrl_enc_req(), and handle_packet(),   *)
(* with which a flavour answers questions of the peripheral on its own.    *)
(*                                                                         *)
(* One turn of the loop of receive() takes one unit of time (10 ms).  A    *)
(* connected peripheral sends one packet in every connection event: an     *)
(* answer if it has one, else an empty ("cyclic") packet.                  *)
(***************************************************************************)
EXTENDS Integers, Sequences, FiniteSets

CONSTANTS
  Mappers,     \* the mappers: pairs of a flavour and its reset command
  Answers,     \* what each request may be answered with: sequences of packets
  RecvMin,     \* recv_s_min
  RecvMax,     \* recv_s_max
  ConnectMax,  \* recv_s_max of these flavours for a CONNECT_IND
  ScanMins,    \* recv_s_min of the scan requests in reset()
  CyclicShort, \* cyclic packets behind the last expected answer (5)
  CyclicLong,  \* cyclic packets without it (10)
  ResetTime,   \* reset_device() takes at least one second
  Interval,    \* time between two connection events
  GapFirst,    \* most cyclic packets before an answer the mapper expects
  GapNext,     \* most cyclic packets before one it does not expect
  MaxTime,     \* bound: times from here on are not told apart
  MaxBacklog,  \* bound: packets waiting in the serial port
  MaxOthers,   \* bound: packets nobody asked for during one request
  MaxLeft,     \* bound: answers left over when a request is sent
  MaxAsks,     \* bound: questions of the peripheral during one request
  MaxRaw       \* bound: Raw packets during one request

Cyclic  == {"ADV_IND", "DATA"}
Expect  == {"SCAN_RSP", "RSP", "ENC_RSP", "START_ENC_RSP"}
\* LATE: a scan response that comes late or once more
Packets == Cyclic \union Expect \union {"ASK", "RAW", "LATE"}

\* of the mapper: BLESUL stands for those that change nothing here
Flavours == {"BLESUL", "NimBLE", "nRF52840DKNimBLE", "IntelAX200BlueZ"}

\* for a device reset: none, one that restarts nothing (scripts/reset_ci.sh), one
\* that restarts the device
ResetCmds == {"none", "nothing", "device"}

ASSUME ReceiveLoopAssumption ==
  /\ Mappers \subseteq Flavours \X ResetCmds
  /\ \A r \in DOMAIN Answers : Answers[r] \subseteq Seq(Expect)
  /\ {RecvMin, RecvMax, ConnectMax, CyclicShort, CyclicLong, ResetTime, GapFirst,
      GapNext, MaxTime, MaxBacklog, MaxOthers, MaxLeft, MaxAsks, MaxRaw} \subseteq Nat
  /\ \A t \in ScanMins \union {RecvMin, RecvMax, ConnectMax} : t <= MaxTime
  /\ ScanMins \subseteq Nat /\ Interval \in Nat \ {0}

VARIABLES
  flavour, reset_cmd,  \* of the mapper, fixed
  req,           \* the last request sent
  receiving,     \* the mapper is in receive() for it
  recv_s_min,    \* its argument
  packets, time, \* receive(): a summary of packets, time since time_start
  res_pkts, time_all,  \* ll_ctrl_enc_req(): the same around its receive() calls
  port,          \* packets in the serial port; "OTHER": not for this mapper
  phase,         \* time to the next connection event
  pending,       \* answers the peripheral has not sent yet
  waits,         \* it has asked something and waits for the answer
  gap,           \* cyclic packets since its last other one
  due,           \* answers it is known to owe
  misled,        \* something has upset the count or the time of receive()
  others, asks, raws  \* counters for the bounds

mapper_vars == <<flavour, reset_cmd, req, receiving, recv_s_min, packets, time,
                 res_pkts, time_all>>
dev_vars    == <<pending, waits, gap, due>>
bounds      == <<others, asks, raws>>
vars == <<mapper_vars, port, phase, dev_vars, misled, bounds>>

-----------------------------------------------------------------------------
(* is_rsp_complete                                                         *)

\* Variant of NextExpected: no packet announces others.
NextExpected_plain(n, pkt) == IF n > 0 THEN n - 1 ELSE 0

\* Variant of NextExpected: more answers than expected are counted, too.
NextExpected_negative(n, pkt) ==
  CASE pkt = "ENC_RSP" -> 1
    [] pkt = "START_ENC_RSP" -> 3
    [] OTHER -> n - 1

\* n_add_expect: the packets that further ones follow
NextExpected(n, pkt) ==
  CASE pkt = "ENC_RSP" -> 1
    [] pkt = "START_ENC_RSP" -> 3
    [] OTHER -> IF n > 0 THEN n - 1 ELSE 0

\* the kinds of packets that flavours look for, and all others
Kinds == {"ADV_IND", "SCAN_RSP", "ANY"}
Kind(pkt) == IF pkt \in Kinds THEN pkt ELSE "ANY"

\* What is_rsp_complete asks of a list of packets: the kinds in it, how many
\* cyclic packets it ends with (up to the limit), how many answers are expected.
None == [kinds |-> {}, cyclic |-> 0, expected |-> 1]

Add(pkts, pkt) ==
  IF pkt \in Cyclic
    THEN [pkts EXCEPT !.kinds = @ \union {Kind(pkt)},
                      !.cyclic = IF @ < CyclicLong THEN @ + 1 ELSE @]
    ELSE [kinds |-> pkts.kinds \union {Kind(pkt)}, cyclic |-> 0,
          expected |-> NextExpected(pkts.expected, pkt)]

\* Variant of sequence_seems_complete: one cyclic packet less is enough.
sequence_seems_complete_off_by_one(pkts) ==
  \/ pkts.expected = 0 /\ pkts.cyclic >= CyclicShort - 1
  \/ pkts.cyclic >= CyclicLong

sequence_seems_complete(pkts) ==
  \/ pkts.expected = 0 /\ pkts.cyclic >= CyclicShort
  \/ pkts.cyclic >= CyclicLong

\* BLESUL.is_rsp_complete
StopReceiving(pkts, t, tmin, tmax) ==
  \/ t >= tmax /\ t >= tmin
  \/ t >= tmin /\ sequence_seems_complete(pkts)

\* Variant of is_rsp_complete: a silent peripheral is waited for.
is_rsp_complete_patient(pkts, t, tmin) ==
  t >= tmin /\ sequence_seems_complete(pkts)

OnNimBLE == flavour \in {"NimBLE", "nRF52840DKNimBLE"}

\* with what BLESUL_NimBLE and BLESUL_nRF52840DKNimBLE do before it
is_rsp_complete(pkts, t, tmin) ==
  IF OnNimBLE /\ req = "CONNECT_IND"
    THEN StopReceiving(pkts, t, tmin, ConnectMax)
    ELSE \/ OnNimBLE /\ t >= tmin /\ pkts = None
         \/ flavour = "NimBLE" /\ {"ADV_IND", "SCAN_RSP"} \subseteq pkts.kinds
         \/ StopReceiving(pkts, t, tmin, RecvMax)

-----------------------------------------------------------------------------
Init ==
  /\ \E m \in Mappers : flavour = m[1] /\ reset_cmd = m[2]
  /\ misled = FALSE
  /\ req = "SCAN_REQ" /\ receiving = FALSE /\ recv_s_min = RecvMin
  /\ packets = None /\ time = 0 /\ res_pkts = None /\ time_all = 0
  /\ port = <<>> /\ phase \in 0 .. Interval
  /\ pending = <<>> /\ waits = FALSE /\ gap = 0 /\ due = 0
  /\ others = 0 /\ asks = 0 /\ raws = 0

-----------------------------------------------------------------------------
(* The peripheral                                                          *)

CyclicPacket == IF req = "SCAN_REQ" THEN "ADV_IND" ELSE "DATA"

Sends(pkt) == port' = Append(port, pkt)

\* ENC_RSP is followed by one packet, START_ENC_RSP by three
Due(pkt) ==
  IF pkt = "ENC_RSP" THEN 1 ELSE IF pkt = "START_ENC_RSP" THEN 3
    ELSE IF due > 0 THEN due - 1 ELSE 0

Answer ==
  /\ pending # <<>> /\ ~waits
  /\ Sends(Head(pending)) /\ pending' = Tail(pending)
  /\ gap' = 0 /\ due' = Due(Head(pending))
  /\ UNCHANGED <<waits, bounds>>

\* The gaps are those of a peripheral that can answer: one that waits cannot.
SendsCyclic ==
  /\ pending # <<>> /\ ~waits => gap < (IF due > 0 THEN GapFirst ELSE GapNext)
  /\ Sends(CyclicPacket)
  /\ gap' = IF gap < CyclicLong THEN gap + 1 ELSE gap
  /\ UNCHANGED <<pending, waits, due, bounds>>

\* BlueZ wants to know something before it goes on.
Ask ==
  /\ flavour = "IntelAX200BlueZ" /\ asks < MaxAsks /\ ~waits
  /\ asks' = asks + 1
  /\ Sends("ASK") /\ waits' = TRUE /\ gap' = 0 /\ due' = Due("ASK")
  /\ UNCHANGED <<pending, others, raws>>

SendsRaw ==
  /\ raws < MaxRaw /\ receiving
  /\ raws' = raws + 1
  /\ Sends("RAW") /\ gap' = 0 /\ due' = Due("RAW")
  /\ UNCHANGED <<pending, waits, others, asks>>

\* out of range, or the connection is gone
Silent ==
  /\ pending = <<>>
  /\ UNCHANGED <<port, dev_vars, bounds>>

ConnectionEvent ==
  /\ phase = 0 /\ (receiving \/ Len(port) < MaxBacklog)
  /\ phase' = Interval
  /\ Answer \/ SendsCyclic \/ Ask \/ SendsRaw \/ Silent
  /\ UNCHANGED <<mapper_vars, misled>>

\* an advertisement of another device, a packet with a wrong MIC
Other ==
  /\ others < MaxOthers /\ Len(port) < MaxBacklog
  /\ others' = others + 1
  /\ Sends("OTHER")
  /\ UNCHANGED <<mapper_vars, phase, dev_vars, misled, asks, raws>>

\* With these the output filters reckon (nRF52840DKNimBLE, ArduinoNanoESP32).  It
\* counts as the answer the mapper expects, if it still expects one.
LateScanRsp ==
  /\ flavour \in {"BLESUL", "nRF52840DKNimBLE"}
  /\ others < MaxOthers /\ Len(port) < MaxBacklog
  /\ others' = others + 1
  /\ Sends("LATE")
  /\ misled' = (misled \/ due > 0)
  /\ UNCHANGED <<mapper_vars, phase, dev_vars, asks, raws>>

-----------------------------------------------------------------------------
(* The mapper                                                              *)

\* packets in the port that is_rsp_complete will count as cyclic ones at the end
LastCyclic(s) ==
  {k \in DOMAIN s : s[k] \in Cyclic /\ \A j \in DOMAIN s : j > k => s[j] # "ASK"}

\* what earlier requests have left, late scan responses apart
LeftOver ==
  pending # <<>> \/ waits \/ \E k \in DOMAIN port : port[k] \in Expect \union {"ASK"}

\* Packets left in the port will be counted for this request.
Send(r) ==
  /\ ~receiving /\ Len(pending) <= MaxLeft
  /\ req' = r /\ receiving' = TRUE
  /\ recv_s_min' \in (IF r = "SCAN_REQ" THEN ScanMins ELSE {RecvMin})
  /\ packets' = None /\ time' = 0 /\ res_pkts' = None /\ time_all' = 0
  /\ \E a \in Answers[r] : pending' = pending \o a
  /\ gap' = Cardinality(LastCyclic(port))
  /\ due' = IF \E k \in DOMAIN port : port[k] = "ASK" THEN 0 ELSE 1
  /\ misled' = ((misled /\ LeftOver) \/ \E k \in DOMAIN port : port[k] = "LATE")
  /\ others' = 0 /\ asks' = 0 /\ raws' = 0
  /\ UNCHANGED <<flavour, reset_cmd, port, phase, waits>>

TimePasses == ~receiving /\ phase > 0 /\ phase' = phase - 1
              /\ UNCHANGED <<mapper_vars, port, dev_vars, misled, bounds>>

After(t, d) == IF t + d < MaxTime THEN t + d ELSE MaxTime

\* ll_ctrl_enc_req() takes the packets one by one, and looks at the time and at
\* all packets after each of them.
EncTurnEnds(pkts, all, t, t_all) ==
  /\ time_all' = t_all /\ res_pkts' = all
  /\ IF pkts # None \/ is_rsp_complete(None, t, RecvMin)
       THEN /\ packets' = None /\ time' = 0
            /\ receiving' = ~is_rsp_complete(all, t_all, RecvMin)
       ELSE packets' = None /\ time' = t /\ UNCHANGED receiving

\* the end of a turn, with what has been received since the call and in all
TurnEnds(pkts, all, t, t_all) ==
  IF req = "ENC_REQ"
    THEN EncTurnEnds(pkts, all, t, t_all)
    ELSE /\ packets' = pkts /\ time' = t
         /\ receiving' = ~is_rsp_complete(pkts, t, recv_s_min)
         /\ UNCHANGED <<res_pkts, time_all>>

\* the same of a turn that has received pkt
PacketEnds(pkt, t, t_all) == TurnEnds(Add(packets, pkt), Add(res_pkts, pkt), t, t_all)

NothingToRead ==
  /\ port = <<>>
  /\ TurnEnds(packets, res_pkts, After(time, 1), After(time_all, 1))
  /\ UNCHANGED <<port, dev_vars, misled>>

\* is_target() or the check of the MIC fails
Ignored ==
  /\ port # <<>> /\ Head(port) = "OTHER"
  /\ port' = Tail(port)
  /\ TurnEnds(packets, res_pkts, After(time, 1), After(time_all, 1))
  /\ UNCHANGED <<dev_vars, misled>>

Received ==
  /\ port # <<>> /\ Head(port) \in Cyclic \union Expect \union {"LATE"}
  /\ port' = Tail(port)
  /\ PacketEnds(Head(port), After(time, 1), After(time_all, 1))
  /\ UNCHANGED <<dev_vars, misled>>

\* Variant of Asked: the timer goes on.
Asked_timer_goes_on ==
  /\ port # <<>> /\ Head(port) = "ASK"
  /\ port' = Tail(port)
  /\ waits' = FALSE
  /\ PacketEnds("ASK", After(time, 1), After(time_all, 1))
  /\ UNCHANGED <<pending, gap, due, misled>>

\* handle_packet() has an answer, which is sent, and the timer starts again
Asked ==
  /\ port # <<>> /\ Head(port) = "ASK"
  /\ port' = Tail(port)
  /\ waits' = FALSE
  /\ PacketEnds("ASK", 0, After(time_all, 1))
  /\ UNCHANGED <<pending, gap, due, misled>>

\* What reset_device() of the driver does to the port and to the device: without
\* a command it returns at once, with one it opens the port again.
ResetsDevice ==
  \/ /\ reset_cmd = "device"
     /\ port' = <<>> /\ pending' = <<>> /\ waits' = FALSE /\ UNCHANGED misled
  \/ /\ reset_cmd # "device"
     /\ port' = IF reset_cmd = "none" THEN Tail(port) ELSE <<>>
     /\ misled' = TRUE /\ UNCHANGED <<pending, waits>>

\* A Raw packet: the device is reset, or is not, and a second is gone either way.
\* What comes in that second comes between two requests here.
RawReceived ==
  /\ port # <<>> /\ Head(port) = "RAW"
  /\ ResetsDevice
  /\ PacketEnds("RAW", After(time, 1 + ResetTime), After(time_all, 1 + ResetTime))
  /\ UNCHANGED <<gap, due>>

receive ==
  /\ receiving /\ phase > 0
  /\ phase' = phase - 1
  /\ NothingToRead \/ Ignored \/ Received \/ Asked \/ RawReceived
  /\ UNCHANGED <<flavour, reset_cmd, req, recv_s_min, bounds>>

-----------------------------------------------------------------------------
Next ==
  \/ \E r \in DOMAIN Answers : Send(r)
  \/ receive \/ ConnectionEvent \/ Other \/ LateScanRsp \/ TimePasses

Spec == Init /\ [][Next]_vars

\* The interpreter thread runs, and connection events come.
FairSpec == Spec /\ WF_vars(receive) /\ WF_vars(ConnectionEvent)

-----------------------------------------------------------------------------
\* most time between two answers, and to read what may be in the port
Longest == (GapFirst + 1) * Interval
Spare   == MaxBacklog + 1

\* The time limits fit the peripheral: gaps end before the mapper loses patience,
\* what a request may be answered with fits recv_s_max, and a SCAN_RSP ends it.
InTime ==
  /\ GapNext < CyclicShort /\ GapFirst < CyclicLong /\ GapNext <= GapFirst
  /\ MaxBacklog < CyclicShort /\ MaxBacklog < CyclicLong
  /\ ConnectMax >= RecvMax
  /\ \A t \in ScanMins \union {RecvMin} : Interval + Spare <= t
  /\ \A r \in DOMAIN Answers : \A a \in Answers[r] : a # <<>> =>
       /\ Len(a) * Longest + Spare <= RecvMax
       /\ r = "ENC_REQ" =>
            Len(a) * Longest + Spare + MaxAsks * (Longest + Spare) + MaxBacklog <= RecvMax
       /\ \A k \in DOMAIN a : a[k] = "SCAN_RSP" => k = Len(a)

-----------------------------------------------------------------------------
\* The count of expected answers never runs below zero nor above what a packet
\* announces, however many come (BLESUL.py:374), and nothing else loses its shape.
TypeOK ==
  /\ <<flavour, reset_cmd>> \in Mappers
  /\ req \in DOMAIN Answers \union {"SCAN_REQ"} /\ receiving \in BOOLEAN
  /\ recv_s_min \in ScanMins \union {RecvMin}
  /\ {packets, res_pkts} \subseteq
       [kinds : SUBSET Kinds, cyclic : 0 .. CyclicLong, expected : 0 .. 3]
  /\ time \in 0 .. MaxTime /\ time_all \in 0 .. MaxTime
  /\ port \in Seq(Packets \union {"OTHER"})
  /\ phase \in 0 .. Interval /\ pending \in Seq(Expect)
  /\ waits \in BOOLEAN /\ misled \in BOOLEAN
  /\ due \in 0 .. 3 /\ gap \in 0 .. CyclicLong + MaxBacklog
  /\ others \in 0 .. MaxOthers /\ asks \in 0 .. MaxAsks /\ raws \in 0 .. MaxRaw

\* When the mapper stops receiving, every answer to the request has arrived and
\* been read, so that none can be attributed to the next request - as long as
\* the peripheral keeps to its gaps (BLESUL.py:368-385, 417-488, 230-257).  Two
\* things upset it until all that is left has been read: a Raw packet costs a
\* second (line 195) although the device is not reset (NRF52_Driver.py:168-170),
\* and a late scan response takes the place of an answer that is expected
\* (line 374); one that comes when none is expected does no harm.
AnswersCollected ==
  ~receiving /\ ~misled =>
    pending = <<>> /\ \A k \in DOMAIN port : port[k] \notin Expect

\* Whatever arrives, receive() returns: each question of the peripheral starts
\* the timer again (line 483), but not for ever.
ReceiveReturns == receiving ~> ~receiving
=============================================================================
