------------------------- MODULE LinkEncryptionProofs -------------------------
(***************************************************************************)
(* Proofs about LinkEncryption: the two ends agree between requests,       *)
(* neither meets a packet it cannot open, and reset() pays a trouble for   *)
(* every time it resets the device.                                        *)
(*                                                                         *)
(* The agreement is stated for the packets on their way as well: once the  *)
(* mapper has read them it will agree with the peripheral, and each is     *)
(* sealed with the key, IV and counter it will have by then.               *)
(***************************************************************************)
EXTENDS LinkEncryption, SequenceTheorems, TLAPS

-----------------------------------------------------------------------------
(* Types                                                                   *)

NonceType == {0} \union Nonces
PairingType == {0} \union Pairings
KeyType == PairingType \X NonceType
ScanPhase == {"scan", "scan_receive", "reset_device", "raised"}
Places == {"ready", "length", "reset"} \union ScanPhase \union Receiving
Kinds == Short \union AdvPackets \union SmPackets \union {"ENC_RSP", "RSP", "SM_FAILED", "STALE"}
PeerType == [enc : BOOLEAN, key : KeyType, iv : NonceType, tx : Nat, rx : Nat,
             ltk : PairingType, pairing : PairingType, stage : {"none", "feature", "confirm"}]
PacketType == [kind : Kinds, n : NonceType \union PairingType, enc : SealType]

\* What a packet carries is what its kind says; advertisements are plain.
Packet == {p \in PacketType :
  /\ p.kind = "ENC_RSP" => p.n \in NonceType
  /\ p.kind \in SmPackets => p.n \in PairingType
  /\ p.kind \in AdvPackets => p.enc = Plain}

MapperTypes ==
  /\ flavour \in Flavours /\ pc \in Places
  /\ req \in DataRequests \union AdvRequests \union {"none"}
  /\ found \in BOOLEAN /\ scan_i \in 0 .. ScanTries
  /\ encrypted \in BOOLEAN /\ enc_tx_pkt_count \in Nat /\ enc_rx_pkt_count \in Nat
  /\ conn_iv \in NonceType /\ conn_session_key \in KeyType
  /\ conn_ltk \in PairingType /\ confirm \in PairingType
  /\ random \in PairingType /\ server \in PairingType

PeerTypes ==
  /\ peer \in PeerType /\ link \in {"up", "none", "lost"}
  /\ connecting \in BOOLEAN /\ advertising \in BOOLEAN
  /\ troubles \in 0 .. MaxTroubles /\ refused \in BOOLEAN
  /\ broken \in BOOLEAN /\ needless \in BOOLEAN

Types == MapperTypes /\ PeerTypes /\ ul \in Seq(Packet)

-----------------------------------------------------------------------------
(* Packets on their way                                                    *)

AllIn(s, K) == \A k \in 1 .. Len(s) : s[k].kind \in K
HasAdv(s) == \E k \in 1 .. Len(s) : s[k].kind \in AdvPackets

\* nothing but advertisements behind an advertisement
DataFirst(s) ==
  \A j, k \in 1 .. Len(s) :
    j < k /\ s[j].kind \in AdvPackets => s[k].kind \in AdvPackets

-----------------------------------------------------------------------------
(* Facts that hold however much goes wrong                                 *)

LinkPlace ==
  /\ link = "none" => peer = Fresh
  /\ advertising => link = "none"
  /\ Bridge => ~connecting

AdvKinds == AdvPackets \union {"STALE"}

MapperPlace ==
  /\ pc = "scan_receive" => ~connecting
  /\ pc \in {"ready", "length", "reset"} => ~found
  /\ pc = "enc_req" => req = "ENC_REQ"
  /\ pc \in ScanPhase => ~encrypted /\ AllIn(ul, AdvKinds)

PlaceInv == LinkPlace /\ MapperPlace

\* What reset() has paid: a trouble for every failure from ScanResetFrom on.
Paid(n) == troubles >= scan_i - ScanResetFrom + n

PaidInv ==
  /\ pc = "scan" /\ scan_i > ScanResetFrom =>
       Paid(0) /\ link = "none" /\ ~connecting /\ (advertising \/ Paid(1))
  /\ pc = "scan_receive" =>
       /\ scan_i < ScanTries
       /\ scan_i >= ScanResetFrom =>
            /\ Paid(0)
            /\ \/ found \/ Paid(1)
               \/ \E k \in 1 .. Len(ul) : ul[k].kind = "SCAN_RSP"
  /\ pc = "reset_device" => scan_i > ScanResetFrom /\ Paid(0)
  /\ pc = "raised" => troubles >= ScanTries - ScanResetFrom

-----------------------------------------------------------------------------
(* Facts that hold while nothing got lost or came late                     *)

Quiet == troubles = 0
Between == pc \notin Receiving

LinkQuiet ==
  /\ link = "none" => advertising
  /\ link = "lost" => ~Bridge

QuietInv ==
  Quiet =>
    /\ LinkQuiet
    /\ Between => ~connecting
    /\ pc \in ScanPhase \/ (pc = "reset" /\ Bridge) => link # "up"

\* The flavour whose dongle may keep the advertisement to itself is left out.
Seen == AdvSeen \/ flavour # "nRF52840DKNimBLE"

\* Data packets come first, and all answers are read before the next request.
\* Whoever still encrypts though the bridge has no connection will be told.
OnTheirWay ==
  /\ AllIn(ul, Kinds \ {"STALE"}) /\ DataFirst(ul)
  /\ Between => /\ ~Bridge \/ link = "up" => ul = <<>>
                /\ AllIn(ul, AdvPackets)
  /\ Bridge /\ link = "none" =>
       HasAdv(ul) \/ (~encrypted /\ AllIn(ul, AdvPackets))

OnTheirWayInv == Quiet /\ Seen => OnTheirWay

\* how a packet has to be sealed for the mapper to open it
Seal(iv, count) == IF encrypted THEN <<conn_session_key, iv, count>> ELSE Plain

\* an LL_PAUSE_ENC_RSP has been read: encryption ends with the request
Paused == req = "PAUSE_ENC_REQ" /\ found

\* what is the mapper's when it has read p
EncryptedAfter(p) == p.kind = "START_ENC_REQ" \/ (encrypted /\ p.kind # "PAUSE_ENC_RSP")
CountAfter == IF encrypted THEN enc_rx_pkt_count + 1 ELSE enc_rx_pkt_count
ServerAfter(p) == IF p.kind = "PAIRING_RSP" THEN p.n ELSE server
LtkAfter(p) == IF p.kind = "SM_RANDOM" /\ server = p.n THEN p.n ELSE conn_ltk

\* peer agrees with a mapper that has these values
PairedWith(srv, ltk) ==
  /\ peer.stage # "none" => srv = peer.pairing
  /\ peer.ltk # 0 => ltk = peer.ltk

EncryptsWith(enc, key, iv, tx, rx) ==
  /\ enc = peer.enc
  /\ peer.enc => key = peer.key /\ iv = peer.iv /\ tx = peer.rx /\ rx = peer.tx

\* The first answer to LL_ENC_REQ and the one behind it.
EncAnswers ==
  LET p == ul[1]
      q == ul[2]
  IN  /\ p.kind = "ENC_RSP" /\ q.kind \in {"START_ENC_REQ", "REJECT_IND"}
      /\ p.enc = Seal(conn_iv, enc_rx_pkt_count)
      /\ q.enc = Seal(p.n, enc_rx_pkt_count + 1)

\* Between two packets of an answer; or behind an advertisement, which ends
\* the encryption, there is a new connection.
InSync ==
  \/ /\ ul = <<>> /\ PairedWith(server, conn_ltk)
     /\ EncryptsWith(encrypted /\ ~Paused, conn_session_key, conn_iv,
                     enc_tx_pkt_count, enc_rx_pkt_count)
  \/ /\ Len(ul) = 1 /\ ~Paused
     /\ ul[1].kind \notin AdvPackets \union {"ENC_RSP"}
     /\ ul[1].enc = Seal(conn_iv, enc_rx_pkt_count)
     /\ ul[1].kind = "START_ENC_REQ" => pc = "enc_req"
     /\ ul[1].kind = "PAUSE_ENC_RSP" => req = "PAUSE_ENC_REQ"
     /\ PairedWith(ServerAfter(ul[1]), LtkAfter(ul[1]))
     /\ EncryptsWith(EncryptedAfter(ul[1]), conn_session_key, conn_iv,
                     enc_tx_pkt_count, CountAfter)
  \/ /\ Len(ul) = 2 /\ pc = "enc_req" /\ EncAnswers
     /\ enc_tx_pkt_count = 0 /\ enc_rx_pkt_count = 0
     /\ ul[2].kind # "START_ENC_REQ" => ~encrypted
     /\ PairedWith(server, conn_ltk)
     /\ EncryptsWith(ul[2].kind = "START_ENC_REQ",
                     IF encrypted THEN conn_session_key ELSE bt_crypto_e(conn_ltk, ul[1].n),
                     ul[1].n, 0, IF encrypted THEN 2 ELSE 0)
  \/ ul # <<>> /\ AllIn(ul, AdvPackets) /\ peer = Fresh

\* The peripheral refused to restart the encryption and has counted more
\* packets than the mapper sent since: it will drop the connection.
Doomed ==
  /\ refused /\ encrypted /\ peer.enc /\ enc_tx_pkt_count < peer.rx
  /\ req # "PAUSE_ENC_REQ"
  /\ \/ ul = <<>>
     \/ Len(ul) = 1 /\ ul[1].kind = "REJECT_IND" /\ ul[1].enc # Plain

SyncInv == Quiet /\ Seen /\ link = "up" => InSync \/ Doomed

\* What a connection that has ended left on its way can be opened.
Readable ==
  /\ \A k \in 3 .. Len(ul) : ul[k].kind \in AdvPackets
  /\ Len(ul) >= 1 /\ ul[1].kind \notin AdvPackets =>
       ul[1].enc = Seal(conn_iv, enc_rx_pkt_count)
  /\ Len(ul) >= 2 /\ ul[2].kind \notin AdvPackets => pc = "enc_req" /\ EncAnswers

ReadableInv == Quiet /\ Seen /\ ~refused /\ link # "up" => Readable

\* A dongle that connects unseen is one of a mapper that no longer encrypts.
ConnectingInv ==
  Quiet /\ Seen /\ connecting =>
    /\ flavour = "BLESUL" => ~encrypted
    /\ ul = <<>> /\ pc = "receive" /\ req = "CONNECT_IND"

SafeInv == (Seen => ~broken) /\ ~needless

Inv == Types /\ PlaceInv /\ PaidInv /\ QuietInv /\ OnTheirWayInv
         /\ ConnectingInv /\ SyncInv /\ ReadableInv /\ SafeInv

-----------------------------------------------------------------------------
(* What the peripheral does with a packet                                  *)

AdvInd == [kind |-> "ADV_IND", n |-> 0, enc |-> Plain]
ScanRsp == [kind |-> "SCAN_RSP", n |-> 0, enc |-> Plain]

\* A sealed packet can be told from a plain one.
LEMMA SealedIsNotPlain ==
  ASSUME NEW key, NEW iv, NEW count
  PROVE  <<key, iv, count>> # Plain
<1>1. Len(<<key, iv, count>>) = 3 /\ Len(<<>>) = 0
  OBVIOUS
<1> QED
  BY <1>1 DEF Plain

LEMMA AdvPacketType ==
  /\ AdvInd \in Packet /\ ScanRsp \in Packet
  /\ ble_phy_tx(Fresh, "ADV_IND", 0) = AdvInd
  /\ ble_phy_tx(Fresh, "SCAN_RSP", 0) = ScanRsp
  BY DEF AdvInd, ScanRsp, Packet, PacketType, Kinds, AdvPackets, SmPackets, NonceType, SealType,
         ble_phy_tx, Fresh

LEMMA FreshType == Fresh \in PeerType
<1>1. NoKey \in KeyType
  BY DEF NoKey, KeyType, PairingType, NonceType
<1> QED
  BY <1>1 DEF Fresh, PeerType, PairingType, NonceType

\* A packet the peripheral sends is of a proper type, and so is its own state.
LEMMA SendsType ==
  ASSUME NEW q \in PeerType, NEW kind \in Kinds, NEW n \in NonceType \union PairingType
  PROVE  /\ Counted(q) \in PeerType
         /\ ble_phy_tx(q, kind, n) \in PacketType
         /\ ble_phy_tx(q, kind, n).kind = kind
         /\ ble_phy_tx(q, kind, n).n = n
<1>1. Counted(q) \in PeerType
  BY DEF Counted, PeerType
<1>2. <<q.key, q.iv, q.tx>> \in KeyType \X NonceType \X Nat
  BY DEF PeerType
<1>3. (IF q.enc THEN <<q.key, q.iv, q.tx>> ELSE Plain) \in SealType
  BY <1>2 DEF SealType, KeyType, NonceType, PairingType
<1> QED
  BY <1>1, <1>3 DEF ble_phy_tx, PacketType

\* An advertisement starts, or that is a trouble.
LEMMA AdvertiseCases ==
  ASSUME Types, NEW sent \in Seq(Packet), bleprph_advertise(sent)
  PROVE  \/ /\ advertising' = TRUE /\ troubles' = troubles
            /\ ul' = IF Bridge THEN Append(sent, AdvInd) ELSE sent
         \/ /\ advertising' = FALSE /\ troubles' = troubles + 1
            /\ troubles < MaxTroubles /\ ul' = sent
  BY AdvPacketType DEF bleprph_advertise, Trouble

LEMMA AdvertiseType ==
  ASSUME Types, NEW sent \in Seq(Packet), bleprph_advertise(sent)
  PROVE  /\ ul' \in Seq(Packet) /\ advertising' \in BOOLEAN
         /\ troubles' \in 0 .. MaxTroubles /\ troubles' >= troubles
<1>1. Append(sent, AdvInd) \in Seq(Packet)
  BY AdvPacketType
<1>2. troubles \in 0 .. MaxTroubles /\ MaxTroubles \in Nat
  BY LinkEncryptionAssumption DEF Types, PeerTypes
<1>3. \/ /\ advertising' = TRUE /\ troubles' = troubles
         /\ ul' = IF Bridge THEN Append(sent, AdvInd) ELSE sent
      \/ /\ advertising' = FALSE /\ troubles' = troubles + 1
         /\ troubles < MaxTroubles /\ ul' = sent
  BY AdvertiseCases
<1>4. ul' \in Seq(Packet)
  BY <1>1, <1>3
<1>5. troubles' \in 0 .. MaxTroubles /\ troubles' >= troubles
  BY <1>2, <1>3
<1> QED
  BY <1>3, <1>4, <1>5

DataPacket == {p \in Packet : p.kind \notin AdvPackets \union {"STALE"}}

\* At most two packets are sent for a request.
Answers ==
  \/ ul' = ul
  \/ \E p \in DataPacket : ul' = Append(ul, p)
  \/ \E p, q \in DataPacket : ul' = ul \o <<p, q>>

Stays ==
  /\ UNCHANGED <<link, advertising, troubles>>
  /\ peer' \in PeerType /\ refused' \in BOOLEAN
  /\ Answers

LEMMA SendsStays ==
  ASSUME Types, NEW q \in PeerType, NEW kind \in Kinds \ (AdvPackets \union {"STALE"}),
         NEW n \in NonceType \union PairingType,
         kind = "ENC_RSP" => n \in NonceType, kind \in SmPackets => n \in PairingType,
         Sends(q, kind, n)
  PROVE  /\ peer' \in PeerType
         /\ \E p \in DataPacket : ul' = Append(ul, p)
  BY SendsType DEF Sends, DataPacket, Packet

\* The answer to LL_ENC_REQ in two packets.
LEMMA EncRspStays ==
  ASSUME Types, NEW q \in PeerType, NEW n \in Nonces, NEW on \in BOOLEAN,
         NEW last \in {"START_ENC_REQ", "REJECT_IND"}, EncRsp(q, n, last, on)
  PROVE  /\ peer' \in PeerType
         /\ \E p1, p2 \in DataPacket : ul' = ul \o <<p1, p2>>
<1> DEFINE q1 == [q EXCEPT !.tx = 0, !.rx = 0]
           c  == Counted(q1)
           q2 == [c EXCEPT !.iv = n,
                    !.key = IF q.enc THEN @ ELSE bt_crypto_e(q.ltk, n)]
           p1 == ble_phy_tx(q1, "ENC_RSP", n)
           p2 == ble_phy_tx(q2, last, 0)
<1>1. q1 \in PeerType
  BY DEF PeerType
<1>2. c \in PeerType
  BY <1>1, SendsType DEF Kinds, NonceType
<1>3. bt_crypto_e(q.ltk, n) \in KeyType /\ n \in NonceType
  BY DEF bt_crypto_e, KeyType, PeerType, NonceType
<1>4. q2 \in PeerType
  BY <1>2, <1>3 DEF PeerType
<1>5. p1 \in PacketType /\ p1.kind = "ENC_RSP" /\ p1.n = n
  BY <1>1, <1>3, SendsType DEF Kinds
<1>6. p2 \in PacketType /\ p2.kind = last
  BY <1>4, SendsType DEF Kinds, Short, NonceType
<1>7. p1 \in DataPacket /\ p2 \in DataPacket
  BY <1>3, <1>5, <1>6 DEF DataPacket, Packet, AdvPackets, SmPackets
<1>8. ul' = ul \o <<p1, p2>> /\ peer' = [Counted(q2) EXCEPT !.enc = on]
  BY DEF EncRsp
<1>9. Counted(q2) \in PeerType
  BY <1>4, SendsType DEF Kinds, NonceType
<1> HIDE DEF q1, q2, p1, p2
<1>10. [Counted(q2) EXCEPT !.enc = on] \in PeerType
  BY <1>9 DEF PeerType
<1> QED
  BY <1>7, <1>8, <1>10

\* The peripheral's end of a connection whose encryption has been paused.
PausedPeer(q) == [Fresh EXCEPT !.ltk = q.ltk, !.pairing = q.pairing, !.stage = q.stage]

LEMMA HandlesCases ==
  ASSUME Types, NEW r \in DataRequests, NEW q \in PeerType, Handles(r, q)
  PROVE  Stays \/ (r = "TERMINATE_IND" /\ Disconnected /\ UNCHANGED refused)
<1> DEFINE Silent == peer' = q /\ refused' = (refused \/ (r = "ENC_REQ" /\ q.enc))
<1> USE DEF Kinds, Short, AdvPackets, SmPackets
<1>1. ASSUME r = "ENC_REQ", HandlesEncReq(q), UNCHANGED <<link, advertising, troubles>>
      PROVE  Stays
  <2>1. CASE \E n \in Nonces : EncRsp(q, n, "START_ENC_REQ", TRUE) /\ UNCHANGED refused
    BY <1>1, <2>1, EncRspStays DEF Stays, Answers, Types, PeerTypes
  <2>2. CASE \E n \in Nonces : EncRsp(q, n, "REJECT_IND", FALSE) /\ UNCHANGED refused
    BY <1>1, <2>2, EncRspStays DEF Stays, Answers, Types, PeerTypes
  <2>3. CASE Sends(q, "REJECT_IND", 0) /\ refused' = (refused \/ q.enc)
    BY <1>1, <2>3, SendsStays DEF Stays, Answers, Types, PeerTypes, NonceType
  <2> QED
    BY <1>1, <2>1, <2>2, <2>3 DEF HandlesEncReq
<1>2. ASSUME \/ r = "REQ" /\ Sends(q, "RSP", 0)
             \/ r = "START_ENC_RSP" /\ q.enc /\ Sends(q, "START_ENC_RSP", 0),
             UNCHANGED <<link, advertising, troubles, refused>>
      PROVE  Stays
  BY <1>2, SendsStays DEF Stays, Answers, Types, PeerTypes, NonceType
<1>3. ASSUME r = "PAUSE_ENC_REQ",
             peer' = PausedPeer(q),
             ul' = Append(ul, ble_phy_tx(q, "PAUSE_ENC_RSP", 0)),
             UNCHANGED <<link, advertising, troubles, refused>>
      PROVE  Stays
  <2>1. peer' \in PeerType
    BY <1>3, FreshType DEF PeerType, PausedPeer
  <2>2. ble_phy_tx(q, "PAUSE_ENC_RSP", 0) \in DataPacket
    BY SendsType DEF DataPacket, Packet, NonceType
  <2> QED
    BY <1>3, <2>1, <2>2 DEF Stays, Answers, Types, PeerTypes
<1>4. ASSUME HandlesSm(r, q), UNCHANGED <<link, advertising, troubles, refused>>
      PROVE  Stays
  <2>1. ASSUME NEW s \in PeerType, NEW n \in PairingType,
               NEW kind \in SmPackets \union {"SM_FAILED"}, Sends(s, kind, n)
        PROVE  Stays
    BY <1>4, <2>1, SendsStays DEF Stays, Answers, Types, PeerTypes
  <2>2. ASSUME NEW n \in Pairings
        PROVE  [q EXCEPT !.pairing = n, !.stage = "feature", !.ltk = 0] \in PeerType
    BY DEF PeerType, PairingType
  <2>3. /\ [q EXCEPT !.stage = IF confirm = q.pairing THEN "confirm" ELSE "none"] \in PeerType
        /\ [q EXCEPT !.stage = "none", !.ltk = q.pairing] \in PeerType
        /\ [q EXCEPT !.stage = "none"] \in PeerType
        /\ q.pairing \in PairingType /\ 0 \in PairingType /\ Pairings \subseteq PairingType
    BY DEF PeerType, PairingType
  <2> QED
    BY <1>4, <2>1, <2>2, <2>3 DEF HandlesSm
<1>5. ASSUME Silent, UNCHANGED <<link, advertising, ul, troubles>>
      PROVE  Stays
  BY <1>5 DEF Stays, Answers, Types, PeerTypes, PeerType
<1>6. CASE r = "TERMINATE_IND" /\ Disconnected /\ UNCHANGED refused
  BY <1>6
<1> HIDE DEF Kinds, Short, AdvPackets, SmPackets, Silent
<1>7. \/ /\ r = "ENC_REQ" /\ HandlesEncReq(q)
         /\ UNCHANGED <<link, advertising, troubles>>
      \/ /\ \/ r = "REQ" /\ Sends(q, "RSP", 0)
            \/ r = "START_ENC_RSP" /\ q.enc /\ Sends(q, "START_ENC_RSP", 0)
         /\ UNCHANGED <<link, advertising, troubles, refused>>
      \/ /\ r = "PAUSE_ENC_REQ"
         /\ peer' = PausedPeer(q)
         /\ ul' = Append(ul, ble_phy_tx(q, "PAUSE_ENC_RSP", 0))
         /\ UNCHANGED <<link, advertising, troubles, refused>>
      \/ HandlesSm(r, q) /\ UNCHANGED <<link, advertising, troubles, refused>>
      \/ Silent /\ UNCHANGED <<link, advertising, ul, troubles>>
      \/ r = "TERMINATE_IND" /\ Disconnected /\ UNCHANGED refused
  BY DEF Handles, PausedPeer, Silent
<1> QED
  BY <1>1, <1>2, <1>3, <1>4, <1>5, <1>6, <1>7

\* The peripheral has no connection to take the packet in, or keeps the
\* connection, or ends it.
LEMMA TakesDataCases ==
  ASSUME Types, NEW r \in DataRequests, NEW e, TakesData(r, e)
  PROVE  /\ UNCHANGED connecting
         /\ \/ /\ link # "up"
               /\ UNCHANGED <<peer, link, advertising, ul, troubles, refused, broken>>
            \/ link = "up" /\ Stays
            \/ link = "up" /\ Disconnected /\ UNCHANGED refused
         /\ broken' = (broken \/ (link = "up" /\ ~Opens(r, e) /\ ~Disturbed))
<1> DEFINE q == [peer EXCEPT !.rx = IF e = Plain THEN @ ELSE @ + 1]
<1>1. peer \in PeerType /\ broken \in BOOLEAN
  BY DEF Types, PeerTypes
<1>2. q \in PeerType
  BY <1>1 DEF PeerType
<1>3. ASSUME link = "up", Opens(r, e), Handles(r, q), UNCHANGED broken
      PROVE  link = "up" /\ (Stays \/ (Disconnected /\ UNCHANGED refused))
  BY <1>2, <1>3, HandlesCases
<1>4. ASSUME link = "up", Sends(peer, "UNKNOWN_RSP", 0) \/ UNCHANGED <<peer, ul>>,
             UNCHANGED <<link, advertising, troubles, refused>>
      PROVE  Stays
  BY <1>1, <1>4, SendsStays
     DEF Stays, Answers, Types, PeerTypes, NonceType, Kinds, Short, AdvPackets, SmPackets
<1> HIDE DEF q
<1>5. /\ UNCHANGED connecting
      /\ \/ /\ link # "up"
            /\ UNCHANGED <<peer, link, advertising, ul, troubles, refused, broken>>
         \/ /\ link = "up" /\ Opens(r, e)
            /\ Handles(r, q)
            /\ UNCHANGED broken
         \/ /\ link = "up" /\ ~Opens(r, e) /\ peer.enc
            /\ Disconnected
            /\ broken' = (broken \/ ~Disturbed) /\ UNCHANGED refused
         \/ /\ link = "up" /\ ~Opens(r, e) /\ ~peer.enc
            /\ Sends(peer, "UNKNOWN_RSP", 0) \/ UNCHANGED <<peer, ul>>
            /\ broken' = (broken \/ ~Disturbed)
            /\ UNCHANGED <<link, advertising, troubles, refused>>
  BY DEF TakesData, q
<1> QED
  BY <1>1, <1>3, <1>4, <1>5

-----------------------------------------------------------------------------
(* Types                                                                   *)

\* Sequences of packets, for what the actions do to them.
LEMMA PacketSequences ==
  ASSUME NEW s \in Seq(Packet)
  PROVE  /\ \A p \in Packet : Append(s, p) \in Seq(Packet)
         /\ \A p, q \in Packet : s \o <<p, q>> = Append(Append(s, p), q)
         /\ s # <<>> => /\ Tail(s) \in Seq(Packet) /\ Head(s) \in Packet
                        /\ Head(s) = s[1] /\ Len(s) >= 1 /\ Len(Tail(s)) = Len(s) - 1
                        /\ \A k \in 1 .. Len(s) - 1 : Tail(s)[k] = s[k + 1]
<1>1. \A p \in Packet : Append(s, p) \in Seq(Packet)
  OBVIOUS
<1>2. ASSUME NEW p \in Packet, NEW q \in Packet
      PROVE  s \o <<p, q>> = Append(Append(s, p), q)
  <2> DEFINE l == s \o <<p, q>>
             r == Append(Append(s, p), q)
  <2>1. l \in Seq(Packet) /\ Len(l) = Len(s) + 2
    OBVIOUS
  <2>2. r \in Seq(Packet) /\ Len(r) = Len(s) + 2
    OBVIOUS
  <2>3. \A k \in 1 .. Len(s) + 2 : l[k] = r[k]
    OBVIOUS
  <2> HIDE DEF l, r
  <2> QED
    BY <2>1, <2>2, <2>3
<1>3. ASSUME s # <<>>
      PROVE  /\ Tail(s) \in Seq(Packet) /\ Head(s) \in Packet
             /\ Head(s) = s[1] /\ Len(s) >= 1 /\ Len(Tail(s)) = Len(s) - 1
             /\ \A k \in 1 .. Len(s) - 1 : Tail(s)[k] = s[k + 1]
  BY <1>3
<1> QED
  BY <1>1, <1>2, <1>3

LEMMA AnswersType ==
  ASSUME Types, Answers
  PROVE  ul' \in Seq(Packet)
<1>1. ul \in Seq(Packet)
  BY DEF Types
<1>2. \A p \in DataPacket : p \in Packet
  BY DEF DataPacket
<1>3. ASSUME NEW p \in DataPacket, NEW q \in DataPacket, ul' = ul \o <<p, q>>
      PROVE  ul' \in Seq(Packet)
  <2>1. ul' = Append(Append(ul, p), q) /\ Append(ul, p) \in Seq(Packet)
    BY <1>1, <1>2, <1>3, PacketSequences
  <2> QED
    BY <1>2, <2>1
<1>4. ASSUME NEW p \in DataPacket, ul' = Append(ul, p)
      PROVE  ul' \in Seq(Packet)
  BY <1>1, <1>2, <1>4
<1> QED
  BY <1>1, <1>3, <1>4 DEF Answers

LEMMA DisconnectedType ==
  ASSUME Types, Disconnected
  PROVE  /\ peer' \in PeerType /\ link' \in {"up", "none", "lost"}
         /\ ul' \in Seq(Packet) /\ advertising' \in BOOLEAN
         /\ troubles' \in 0 .. MaxTroubles
  BY FreshType, AdvertiseType DEF Disconnected, Types

LEMMA TakesDataType ==
  ASSUME Types, NEW r \in DataRequests, NEW e, TakesData(r, e), UNCHANGED needless
  PROVE  PeerTypes' /\ ul' \in Seq(Packet)
<1>1. PeerTypes /\ ul \in Seq(Packet)
  BY DEF Types
<1>2. broken' \in BOOLEAN /\ connecting' \in BOOLEAN /\ needless' \in BOOLEAN
  BY <1>1, TakesDataCases DEF PeerTypes
<1>3. CASE UNCHANGED <<peer, link, advertising, ul, troubles, refused, broken>>
  BY <1>1, <1>2, <1>3 DEF PeerTypes
<1>4. CASE Stays
  BY <1>1, <1>2, <1>4, AnswersType DEF Stays, PeerTypes
<1>5. CASE Disconnected /\ UNCHANGED refused
  BY <1>1, <1>2, <1>5, DisconnectedType DEF PeerTypes
<1> QED
  BY <1>3, <1>4, <1>5, TakesDataCases

LEMMA ConnectsType ==
  ASSUME Types, NEW sent \in Seq(Packet), Connects(sent)
  PROVE  /\ peer' \in PeerType /\ link' \in {"up", "none", "lost"}
         /\ ul' \in Seq(Packet) /\ advertising' \in BOOLEAN
         /\ troubles' \in 0 .. MaxTroubles
<1>1. CASE /\ peer' = Fresh /\ link' = "up" /\ advertising' = FALSE /\ ul' = sent
           /\ UNCHANGED troubles
  BY <1>1, FreshType DEF Types, PeerTypes
<1>2. CASE bleprph_advertise(sent) /\ UNCHANGED <<peer, link>>
  BY <1>2, AdvertiseType DEF Types, PeerTypes
<1> QED
  BY <1>1, <1>2 DEF Connects

LEMMA TakesAdvType ==
  ASSUME Types, NEW r \in AdvRequests, TakesAdv(r), UNCHANGED needless
  PROVE  PeerTypes' /\ ul' \in Seq(Packet)
<1>1. PeerTypes /\ ul \in Seq(Packet)
  BY DEF Types
<1>2. CASE /\ ul' = ul \o <<AdvInd, ScanRsp>> /\ connecting' = FALSE
           /\ UNCHANGED <<peer, link, advertising, troubles, refused, broken>>
  <2>1. ul' \in Seq(Packet)
    BY <1>1, <1>2, AdvPacketType
  <2> QED
    BY <1>1, <1>2, <2>1 DEF PeerTypes
<1>3. CASE Connects(ul) /\ UNCHANGED <<connecting, refused, broken>>
  BY <1>1, <1>3, ConnectsType DEF PeerTypes
<1>4. CASE /\ connecting' = (r = "CONNECT_IND" /\ ~Bridge)
           /\ link' = IF link = "up" /\ ~Bridge THEN "lost" ELSE link
           /\ UNCHANGED <<peer, advertising, ul, troubles, refused, broken>>
  <2>1. connecting' \in BOOLEAN /\ link' \in {"up", "none", "lost"}
    BY <1>1, <1>4 DEF PeerTypes
  <2> QED
    BY <1>1, <1>4, <2>1 DEF PeerTypes
<1> QED
  BY <1>2, <1>3, <1>4, AdvPacketType DEF TakesAdv

LEMMA SendType ==
  ASSUME Types, NEW r \in DataRequests \union AdvRequests, send(r), UNCHANGED needless
  PROVE  PeerTypes' /\ ul' \in Seq(Packet) /\ enc_tx_pkt_count' \in Nat
<1>1. enc_tx_pkt_count' \in Nat
  BY DEF send, Types, MapperTypes
<1>2. CASE r \in AdvRequests
  BY <1>1, <1>2, TakesAdvType DEF send
<1>3. CASE r \notin AdvRequests
  BY <1>1, <1>3, TakesDataType DEF send
<1> QED
  BY <1>2, <1>3

\* What the mapper reads from a packet is of a proper type.
LEMMA ReceivePacketType ==
  ASSUME Types, ReceivePacket
  PROVE  Types'
<1> DEFINE pkt == Head(ul)
<1>1. MapperTypes /\ PeerTypes /\ ul \in Seq(Packet)
  BY DEF Types
<1>2. ul # <<>> /\ pkt \in Packet /\ Tail(ul) \in Seq(Packet)
  BY <1>1, PacketSequences DEF ReceivePacket, HasPacket
<1> HIDE DEF pkt
<1>3. ul' \in Seq(Packet) /\ PeerTypes'
  BY <1>1, <1>2 DEF ReceivePacket, PeerTypes, peer_vars, flags
<1>4. /\ flavour' \in Flavours /\ pc' \in Places /\ scan_i' \in 0 .. ScanTries
      /\ req' \in DataRequests \union AdvRequests \union {"none"}
      /\ enc_tx_pkt_count' \in Nat
  BY <1>1 DEF ReceivePacket, MapperTypes
<1>5. enc_rx_pkt_count' \in Nat /\ found' \in BOOLEAN
  BY <1>1 DEF ReceivePacket, CountsRx, MapperTypes
<1>6. /\ server' \in PairingType /\ confirm' \in PairingType
      /\ random' \in PairingType /\ conn_ltk' \in PairingType
  <2>1. smp_process(pkt)
    BY DEF ReceivePacket, pkt
  <2> QED
    BY <1>1, <1>2, <2>1 DEF smp_process, MapperTypes, Packet, SmPackets
<1>7. /\ conn_iv' \in NonceType /\ conn_session_key' \in KeyType
      /\ encrypted' \in BOOLEAN
  <2>1. CASE pc = "enc_req" /\ pkt.kind = "ENC_RSP"
    <3>1. TakesEncRsp(pkt, StillEncrypted(pkt))
      BY <2>1 DEF ReceivePacket, pkt
    <3>2. pkt.n \in NonceType
      BY <1>2, <2>1 DEF Packet
    <3>3. bt_crypto_e(conn_ltk, pkt.n) \in KeyType
      BY <1>1, <3>2 DEF MapperTypes, bt_crypto_e, KeyType
    <3>4. StillEncrypted(pkt) \in BOOLEAN
      BY <1>1 DEF StillEncrypted
    <3> QED
      BY <1>1, <3>1, <3>2, <3>3, <3>4 DEF TakesEncRsp, MapperTypes
  <2>2. CASE ~(pc = "enc_req" /\ pkt.kind = "ENC_RSP")
    BY <1>1, <2>2 DEF ReceivePacket, pkt, MapperTypes
  <2> QED
    BY <2>1, <2>2
<1> QED
  BY <1>3, <1>4, <1>5, <1>6, <1>7 DEF Types, MapperTypes

LEMMA RebootsType ==
  ASSUME Types, Reboots
  PROVE  /\ peer' \in PeerType /\ link' \in {"up", "none", "lost"}
         /\ connecting' \in BOOLEAN /\ advertising' \in BOOLEAN
         /\ ul' \in Seq(Packet) /\ troubles' \in 0 .. MaxTroubles
<1>1. <<>> \in Seq(Packet)
  OBVIOUS
<1> QED
  BY <1>1, FreshType, AdvertiseType DEF Reboots

LEMMA AnswersSeenType ==
  ASSUME Types, AnswersSeen
  PROVE  troubles' \in 0 .. MaxTroubles /\ troubles' >= troubles
  BY LinkEncryptionAssumption DEF AnswersSeen, Trouble, Types, PeerTypes

LEMMA InitTypes ==
  ASSUME Init
  PROVE  Types
<1>1. NoKey \in KeyType /\ 0 \in NonceType /\ 0 \in PairingType
  BY DEF NoKey, KeyType, NonceType, PairingType
<1>2. ul \in Seq(Packet)
  BY DEF Init
<1>3. /\ {found, encrypted, connecting, advertising, refused, broken, needless} \subseteq BOOLEAN
      /\ scan_i = 0 /\ enc_tx_pkt_count = 0 /\ enc_rx_pkt_count = 0 /\ troubles = 0
  BY DEF Init
<1>4. scan_i \in 0 .. ScanTries /\ troubles \in 0 .. MaxTroubles
  BY <1>3, LinkEncryptionAssumption
<1>5. MapperTypes
  BY <1>1, <1>3, <1>4 DEF Init, MapperTypes, Places, ScanPhase, DataRequests
<1>6. PeerTypes
  BY <1>3, <1>4, FreshType DEF Init, PeerTypes
<1> QED
  BY <1>2, <1>5, <1>6 DEF Types

LEMMA TypesStep ==
  ASSUME Types, PaidInv, Next
  PROVE  Types'
<1>0. MapperTypes /\ PeerTypes /\ ul \in Seq(Packet)
  BY DEF Types
<1> USE LinkEncryptionAssumption DEF Places, ScanPhase, Receiving
<1>1. ASSUME NEW r \in DataRequests, Request(r)
      PROVE  Types'
  <2>1. PeerTypes' /\ ul' \in Seq(Packet) /\ enc_tx_pkt_count' \in Nat
    BY <1>1, SendType DEF Request
  <2>2. server' \in PairingType
    BY <1>0, <1>1 DEF Request, sm_pairing_req_pre, MapperTypes, PairingType
  <2> QED
    BY <1>0, <1>1, <2>1, <2>2 DEF Request, Types, MapperTypes
<1>2. ASSUME NEW r \in AdvRequests, AdvRequest(r)
      PROVE  Types'
  <2>1. PeerTypes' /\ ul' \in Seq(Packet) /\ enc_tx_pkt_count' \in Nat
    BY <1>2, SendType DEF AdvRequest
  <2>2. encrypted' \in BOOLEAN
    BY <1>0, <1>2 DEF AdvRequest, ll_adv_scan_req_pre, ll_adv_connect_ind_pre
  <2> QED
    BY <1>0, <1>2, <2>1, <2>2 DEF AdvRequest, Types, MapperTypes, smp_vars
<1>3. CASE ll_ctrl_enc_req
  <2>1. PeerTypes' /\ ul' \in Seq(Packet)
    BY <1>3, TakesDataType DEF ll_ctrl_enc_req, DataRequests
  <2> QED
    BY <1>0, <1>3, <2>1 DEF ll_ctrl_enc_req, Types, MapperTypes, smp_vars, DataRequests
<1>4. CASE SkipPacket
  <2>1. ul' \in Seq(Packet)
    BY <1>0, <1>4, PacketSequences DEF SkipPacket
  <2> QED
    BY <1>0, <1>4, <2>1
       DEF SkipPacket, Types, MapperTypes, PeerTypes, crypto_vars, smp_vars, peer_vars, flags
<1>5. CASE ReceivePacket
  BY <1>5, ReceivePacketType
<1>6. CASE ReceiveBroken
  <2>1. ul' \in Seq(Packet)
    BY <1>0, <1>6, PacketSequences DEF ReceiveBroken, HasPacket
  <2>2. enc_rx_pkt_count' \in Nat /\ broken' \in BOOLEAN
    BY <1>0, <1>6 DEF ReceiveBroken, CountsRx, MapperTypes, PeerTypes
  <2> QED
    BY <1>0, <1>6, <2>1, <2>2
       DEF ReceiveBroken, Types, MapperTypes, PeerTypes, smp_vars, peer_vars
<1>7. CASE ReceiveGarbage
  <2>1. /\ peer' \in PeerType /\ link' \in {"up", "none", "lost"}
        /\ connecting' \in BOOLEAN /\ advertising' \in BOOLEAN
        /\ ul' \in Seq(Packet) /\ troubles' \in 0 .. MaxTroubles
    BY <1>0, <1>7, PacketSequences, RebootsType
       DEF ReceiveGarbage, HasPacket, peer_vars, PeerTypes
  <2>2. broken' \in BOOLEAN
    BY <1>0, <1>7 DEF ReceiveGarbage, PeerTypes
  <2> QED
    BY <1>0, <1>7, <2>1, <2>2
       DEF ReceiveGarbage, Types, MapperTypes, PeerTypes, crypto_vars, smp_vars
<1>8. CASE EndReceive
  <2>1. troubles' \in 0 .. MaxTroubles
    BY <1>8, AnswersSeenType DEF EndReceive
  <2>2. encrypted' \in BOOLEAN
    BY <1>0, <1>8 DEF EndReceive, MapperTypes
  <2> QED
    BY <1>0, <1>8, <2>1, <2>2
       DEF EndReceive, Types, MapperTypes, PeerTypes, smp_vars, peer_vars
<1>9. CASE reset_terminate
  <2>1. PeerTypes' /\ ul' \in Seq(Packet) /\ enc_tx_pkt_count' \in Nat
    BY <1>9, SendType DEF reset_terminate, DataRequests
  <2> QED
    BY <1>0, <1>9, <2>1 DEF reset_terminate, Types, MapperTypes, smp_vars
<1>10. CASE reset
  <2>1. Stale \in Packet
    BY DEF Stale, Packet, PacketType, Kinds, SmPackets, AdvPackets, NonceType, SealType
  <2>2. ul' \in Seq(Packet)
    BY <1>0, <1>10, <2>1 DEF reset
  <2>3. NoKey \in KeyType /\ 0 \in NonceType /\ 0 \in PairingType
    BY DEF NoKey, KeyType, NonceType, PairingType
  <2>4. link' \in {"up", "none", "lost"}
    BY <1>0, <1>10 DEF reset, PeerTypes
  <2>5. encrypted' \in BOOLEAN /\ scan_i' = 0
    BY <1>10 DEF reset
  <2>7. scan_i' \in 0 .. ScanTries
    BY <2>5
  <2>8. MapperTypes'
    BY <1>0, <1>10, <2>3, <2>5, <2>7 DEF reset, MapperTypes
  <2>6. PeerTypes'
    BY <1>0, <1>10, <2>4 DEF reset, PeerTypes, flags
  <2> QED
    BY <2>2, <2>6, <2>8 DEF Types
<1>11. CASE ScanRequest
  <2>1. PeerTypes' /\ ul' \in Seq(Packet) /\ enc_tx_pkt_count' \in Nat
    BY <1>11, SendType DEF ScanRequest, AdvRequests
  <2> QED
    BY <1>0, <1>11, <2>1 DEF ScanRequest, Types, MapperTypes, smp_vars, AdvRequests
<1>12. CASE ScanAnswered
  <2>1. \/ troubles' = 0 /\ refused' = FALSE
        \/ troubles < MaxTroubles /\ troubles' = troubles + 1 /\ UNCHANGED refused
    BY <1>12 DEF ScanAnswered, Trouble
  <2>2. refused' \in BOOLEAN
    BY <1>0, <2>1 DEF PeerTypes
  <2>5. troubles' = 0 \/ (troubles < MaxTroubles /\ troubles' = troubles + 1)
    BY <2>1
  <2>6. troubles' \in 0 .. MaxTroubles
    BY <1>0, <2>5 DEF PeerTypes
  <2>7. found' \in BOOLEAN /\ scan_i' = 0
    BY <1>12 DEF ScanAnswered
  <2>8. scan_i' \in 0 .. ScanTries
    BY <2>7
  <2>3. MapperTypes'
    BY <1>0, <1>12, <2>7, <2>8 DEF ScanAnswered, MapperTypes, crypto_vars, smp_vars
  <2>4. PeerTypes' /\ ul' = ul
    BY <1>0, <1>12, <2>2, <2>6 DEF ScanAnswered, PeerTypes, peer_vars
  <2> QED
    BY <1>0, <2>3, <2>4 DEF Types
<1>13. CASE ScanFailed
  <2>1. troubles' \in 0 .. MaxTroubles
    BY <1>13, AnswersSeenType DEF ScanFailed
  <2>2. scan_i' \in 0 .. ScanTries
    BY <1>0, <1>13 DEF ScanFailed, MapperTypes, PaidInv
  <2> QED
    BY <1>0, <1>13, <2>1, <2>2
       DEF ScanFailed, Types, MapperTypes, PeerTypes, crypto_vars, smp_vars, peer_vars
<1>14. CASE reset_device
  <2>1. needless' \in BOOLEAN
    BY <1>0, <1>14 DEF reset_device, PeerTypes
  <2> QED
    BY <1>0, <1>14, <2>1, RebootsType
       DEF reset_device, Types, MapperTypes, PeerTypes, crypto_vars, smp_vars
<1>15. CASE ScanExhausted
  BY <1>0, <1>15
     DEF ScanExhausted, Types, MapperTypes, PeerTypes, crypto_vars, smp_vars, peer_vars, flags
<1>16. CASE LinkEnds
  BY <1>0, <1>16, DisconnectedType
     DEF LinkEnds, Types, MapperTypes, PeerTypes, crypto_vars, smp_vars
<1>17. CASE DongleConnects
  <2>1. Append(ul, AdvInd) \in Seq(Packet)
    BY <1>0, AdvPacketType
  <2>2. PICK sent \in Seq(Packet) : Connects(sent)
    BY <1>0, <1>17, <2>1, AdvPacketType DEF DongleConnects
  <2> QED
    BY <1>0, <1>17, <2>2, ConnectsType
       DEF DongleConnects, Types, MapperTypes, PeerTypes, crypto_vars, smp_vars
<1>18. CASE Lose
  <2>1. ul' \in Seq(Packet) /\ troubles' \in 0 .. MaxTroubles
    BY <1>0, <1>18, PacketSequences DEF Lose, Trouble, PeerTypes
  <2> QED
    BY <1>0, <1>18, <2>1
       DEF Lose, Types, MapperTypes, PeerTypes, crypto_vars, smp_vars, peer_vars
<1> QED
  BY <1>1, <1>2, <1>3, <1>4, <1>5, <1>6, <1>7, <1>8, <1>9, <1>10, <1>11, <1>12, <1>13,
     <1>14, <1>15, <1>16, <1>17, <1>18
     DEF Next, Requests, Receives, Resets, Peripheral

-----------------------------------------------------------------------------
(* Where the mapper and the two ends of the connection are                 *)

\* Adding a packet or taking one keeps what is said of all packets.
LEMMA AllInSequences ==
  ASSUME NEW s \in Seq(Packet), NEW K
  PROVE  /\ AllIn(<<>>, K)
         /\ \A p \in Packet : AllIn(s, K) /\ p.kind \in K => AllIn(Append(s, p), K)
         /\ s # <<>> /\ AllIn(s, K) => AllIn(Tail(s), K) /\ Head(s).kind \in K
<1>1. ASSUME NEW p \in Packet, AllIn(s, K), p.kind \in K
      PROVE  AllIn(Append(s, p), K)
  BY <1>1 DEF AllIn
<1>2. ASSUME s # <<>>, AllIn(s, K)
      PROVE  AllIn(Tail(s), K) /\ Head(s).kind \in K
  <2>1. /\ Head(s) = s[1] /\ Len(s) \in Nat /\ Len(s) >= 1 /\ Len(Tail(s)) = Len(s) - 1
        /\ \A k \in 1 .. Len(s) - 1 : Tail(s)[k] = s[k + 1]
    BY <1>2, PacketSequences
  <2> QED
    BY <1>2, <2>1 DEF AllIn
<1> QED
  BY <1>1, <1>2 DEF AllIn

LEMMA AdvKind == AdvInd.kind \in AdvPackets /\ ScanRsp.kind \in AdvPackets
  BY DEF AdvInd, ScanRsp, AdvPackets

LEMMA DisconnectedPlace ==
  ASSUME Disconnected, connecting' = connecting, flavour' = flavour, LinkPlace
  PROVE  LinkPlace'
  BY DEF Disconnected, LinkPlace, Bridge

LEMMA TakesDataPlace ==
  ASSUME Types, LinkPlace, NEW r \in DataRequests, NEW e, TakesData(r, e), flavour' = flavour
  PROVE  LinkPlace'
<1>1. connecting' = connecting
  BY DEF TakesData
<1>2. CASE UNCHANGED <<peer, link, advertising>>
  BY <1>1, <1>2 DEF LinkPlace, Bridge
<1>3. CASE link = "up" /\ Stays
  BY <1>1, <1>3 DEF LinkPlace, Stays, Bridge
<1>4. CASE Disconnected
  BY <1>1, <1>4, DisconnectedPlace
<1> QED
  BY <1>2, <1>3, <1>4, TakesDataCases

LEMMA ConnectsPlace ==
  ASSUME LinkPlace, advertising, NEW sent, Connects(sent), connecting' => connecting,
         flavour' = flavour
  PROVE  LinkPlace'
  BY DEF LinkPlace, Connects, bleprph_advertise, Bridge

LEMMA TakesAdvPlace ==
  ASSUME LinkPlace, NEW r \in AdvRequests, TakesAdv(r), flavour' = flavour
  PROVE  LinkPlace' /\ (r = "SCAN_REQ" => ~connecting')
<1>1. CASE /\ advertising /\ connecting' = FALSE
           /\ UNCHANGED <<peer, link, advertising, troubles>>
  BY <1>1 DEF LinkPlace
<1>2. CASE /\ r = "CONNECT_IND" /\ advertising /\ Connects(ul) /\ UNCHANGED connecting
  BY <1>2, ConnectsPlace
<1>3. CASE /\ connecting' = (r = "CONNECT_IND" /\ ~Bridge)
           /\ link' = IF link = "up" /\ ~Bridge THEN "lost" ELSE link
           /\ UNCHANGED <<peer, advertising>>
  BY <1>3 DEF LinkPlace, Bridge
<1> QED
  BY <1>1, <1>2, <1>3 DEF TakesAdv

LEMMA RebootsPlace ==
  ASSUME Reboots
  PROVE  LinkPlace' /\ ~connecting'
  BY DEF Reboots, LinkPlace

\* What a scan adds to the packets on their way, and a new start of the device.
LEMMA ScanKinds ==
  ASSUME Types, NEW K, AdvPackets \subseteq K, AllIn(ul, K)
  PROVE  /\ AllIn(ul \o <<AdvInd, ScanRsp>>, K)
         /\ \A s \in {ul, <<>>} : bleprph_advertise(s) => AllIn(ul', K)
<1>1. ul \in Seq(Packet) /\ <<>> \in Seq(Packet)
  BY DEF Types
<1>2. ul \o <<AdvInd, ScanRsp>> = Append(Append(ul, AdvInd), ScanRsp)
  BY <1>1, AdvPacketType, PacketSequences
<1>3. AllIn(ul \o <<AdvInd, ScanRsp>>, K)
  <2>1. Append(ul, AdvInd) \in Seq(Packet) /\ AllIn(Append(ul, AdvInd), K)
    BY <1>1, AdvPacketType, AdvKind, AllInSequences
  <2> QED
    BY <1>2, <2>1, AdvPacketType, AdvKind, AllInSequences
<1>4. ASSUME NEW s \in {ul, <<>>}, bleprph_advertise(s)
      PROVE  AllIn(ul', K)
  <2>1. s \in Seq(Packet) /\ AllIn(s, K)
    BY <1>1, <1>4, AllInSequences
  <2>2. AllIn(Append(s, AdvInd), K)
    BY <2>1, AdvPacketType, AdvKind, AllInSequences
  <2>3. ul' = s \/ ul' = Append(s, AdvInd)
    BY <1>4, <2>1, AdvertiseCases
  <2> QED
    BY <2>1, <2>2, <2>3
<1> QED
  BY <1>3, <1>4

LEMMA PlaceStep ==
  ASSUME Types, PlaceInv, Next
  PROVE  PlaceInv'
<1>0. /\ LinkPlace /\ MapperPlace /\ ul \in Seq(Packet)
      /\ pc \in Places /\ found \in BOOLEAN
  BY DEF PlaceInv, Types, MapperTypes
<1>a. UNCHANGED <<flavour, peer_vars>> => LinkPlace'
  BY <1>0 DEF LinkPlace, peer_vars, Bridge
<1>b. /\ ul # <<>> /\ ul' = Tail(ul) /\ AllIn(ul, AdvKinds) => AllIn(ul', AdvKinds)
  BY <1>0, AllInSequences
<1>c. bleprph_advertise(ul) \/ bleprph_advertise(<<>>) =>
        (AllIn(ul, AdvKinds) => AllIn(ul', AdvKinds))
  BY ScanKinds DEF AdvKinds
<1> USE DEF ScanPhase, Receiving
<1>1. ASSUME NEW r \in DataRequests, Request(r)
      PROVE  PlaceInv'
  <2>1. r \notin AdvRequests
    BY DEF DataRequests, AdvRequests
  <2>2. LinkPlace'
    BY <1>0, <1>1, <2>1, TakesDataPlace DEF Request, send
  <2> QED
    BY <1>1, <2>2 DEF Request, PlaceInv, MapperPlace
<1>2. ASSUME NEW r \in AdvRequests, AdvRequest(r)
      PROVE  PlaceInv'
  <2>1. LinkPlace'
    BY <1>0, <1>2, TakesAdvPlace DEF AdvRequest, send
  <2> QED
    BY <1>2, <2>1 DEF AdvRequest, PlaceInv, MapperPlace
<1>3. CASE ll_ctrl_enc_req
  <2>1. LinkPlace'
    BY <1>0, <1>3, TakesDataPlace DEF ll_ctrl_enc_req, DataRequests
  <2> QED
    BY <1>3, <2>1 DEF ll_ctrl_enc_req, PlaceInv, MapperPlace
<1>4. CASE SkipPacket
  BY <1>0, <1>4, <1>a, <1>b
     DEF SkipPacket, PlaceInv, MapperPlace, crypto_vars, peer_vars
<1>5. CASE ReceivePacket
  <2>1. LinkPlace' /\ connecting' = connecting
    BY <1>5, <1>a DEF ReceivePacket, peer_vars
  <2>2. pc \in ScanPhase => ~encrypted'
    BY <1>0, <1>5 DEF ReceivePacket, MapperPlace, StillEncrypted
  <2> QED
    BY <1>0, <1>5, <1>b, <2>1, <2>2 DEF ReceivePacket, HasPacket, PlaceInv, MapperPlace
<1>6. CASE ReceiveBroken
  BY <1>0, <1>6, <1>a, <1>b
     DEF ReceiveBroken, HasPacket, PlaceInv, MapperPlace, peer_vars
<1>7. CASE ReceiveGarbage
  <2>1. LinkPlace' /\ (connecting' => connecting)
    BY <1>7, <1>a, RebootsPlace DEF ReceiveGarbage, peer_vars
  <2>2. AllIn(ul, AdvKinds) => AllIn(ul', AdvKinds)
    BY <1>7, <1>b, <1>c DEF ReceiveGarbage, HasPacket, Reboots
  <2> QED
    BY <1>0, <1>7, <2>1, <2>2
       DEF ReceiveGarbage, HasPacket, PlaceInv, MapperPlace, crypto_vars
<1>8. CASE EndReceive
  BY <1>0, <1>8, <1>a DEF EndReceive, PlaceInv, MapperPlace
<1>9. CASE reset_terminate
  <2>1. LinkPlace'
    BY <1>0, <1>9, TakesDataPlace DEF reset_terminate, send, DataRequests, AdvRequests
  <2> QED
    BY <1>0, <1>9, <2>1 DEF reset_terminate, PlaceInv, MapperPlace
<1>10. CASE reset
  <2>1. LinkPlace'
    BY <1>0, <1>10 DEF reset, LinkPlace, Bridge
  <2>2. AllIn(ul', AdvKinds)
    <3>1. ul' = [k \in 1 .. Len(ul) |-> IF ul[k].kind \in AdvPackets THEN ul[k] ELSE Stale]
      BY <1>0, <1>10 DEF reset
    <3>2. Len(ul') = Len(ul)
      BY <1>0, <3>1
    <3> QED
      BY <3>1, <3>2 DEF AllIn, AdvKinds, Stale
  <2> QED
    BY <1>0, <1>10, <2>1, <2>2 DEF reset, PlaceInv, MapperPlace
<1>11. CASE ScanRequest
  <2>1. TakesAdv("SCAN_REQ") /\ flavour' = flavour
    BY <1>11 DEF ScanRequest, send, AdvRequests
  <2>2. LinkPlace' /\ ~connecting'
    BY <1>0, <2>1, TakesAdvPlace DEF AdvRequests
  <2>3. AllIn(ul, AdvKinds) /\ ~encrypted
    BY <1>0, <1>11 DEF ScanRequest, MapperPlace
  <2>4. ul' = ul \/ ul' = ul \o <<AdvInd, ScanRsp>>
    BY <2>1, AdvPacketType DEF TakesAdv
  <2>5. AllIn(ul', AdvKinds)
    BY <2>3, <2>4, ScanKinds DEF AdvKinds
  <2> QED
    BY <1>11, <2>2, <2>3, <2>5 DEF ScanRequest, PlaceInv, MapperPlace
<1>12. CASE ScanAnswered
  BY <1>0, <1>12, <1>a DEF ScanAnswered, PlaceInv, MapperPlace
<1>13. CASE ScanFailed
  BY <1>0, <1>13, <1>a DEF ScanFailed, PlaceInv, MapperPlace, crypto_vars
<1>14. CASE reset_device
  BY <1>0, <1>14, <1>c, RebootsPlace
     DEF reset_device, Reboots, PlaceInv, MapperPlace, crypto_vars
<1>15. CASE ScanExhausted
  BY <1>0, <1>15, <1>a DEF ScanExhausted, PlaceInv, MapperPlace, crypto_vars
<1>16. CASE LinkEnds
  <2>1. LinkPlace'
    BY <1>0, <1>16, DisconnectedPlace DEF LinkEnds
  <2> QED
    BY <1>0, <1>16, <1>c, <2>1 DEF LinkEnds, Disconnected, PlaceInv, MapperPlace, crypto_vars
<1>17. CASE DongleConnects
  <2>1. PICK sent \in {ul, Append(ul, AdvInd)} : Connects(sent)
    BY <1>17, AdvPacketType DEF DongleConnects
  <2>2. LinkPlace'
    BY <1>0, <1>17, <2>1, ConnectsPlace DEF DongleConnects
  <2>3. AllIn(ul, AdvKinds) => AllIn(ul', AdvKinds)
    <3>1. SUFFICES ASSUME AllIn(ul, AdvKinds) PROVE AllIn(ul', AdvKinds)
      OBVIOUS
    <3>2. sent \in Seq(Packet) /\ AllIn(sent, AdvKinds)
      <4>1. Append(ul, AdvInd) \in Seq(Packet)
        BY <1>0, AdvPacketType
      <4>2. AllIn(Append(ul, AdvInd), AdvKinds)
        BY <1>0, <3>1, AdvPacketType, AdvKind, AllInSequences DEF AdvKinds
      <4> QED
        BY <1>0, <3>1, <4>1, <4>2
    <3>3. ul' = sent \/ ul' = Append(sent, AdvInd)
      BY <2>1, <3>2, AdvertiseCases DEF Connects
    <3> QED
      BY <3>2, <3>3, AdvPacketType, AdvKind, AllInSequences DEF AdvKinds
  <2> QED
    BY <1>0, <1>17, <2>2, <2>3 DEF DongleConnects, PlaceInv, MapperPlace, crypto_vars
<1>18. CASE Lose
  BY <1>0, <1>18, <1>a, <1>b DEF Lose, PlaceInv, MapperPlace, crypto_vars, peer_vars
<1> QED
  BY <1>1, <1>2, <1>3, <1>4, <1>5, <1>6, <1>7, <1>8, <1>9, <1>10, <1>11, <1>12, <1>13,
     <1>14, <1>15, <1>16, <1>17, <1>18
     DEF Next, Requests, Receives, Resets, Peripheral

-----------------------------------------------------------------------------
(* While nothing got lost or came late: the link                           *)

LEMMA QuietAdvertises ==
  ASSUME Types, NEW s \in Seq(Packet), bleprph_advertise(s), Quiet'
  PROVE  /\ Quiet /\ advertising' = TRUE
         /\ ul' = IF Bridge THEN Append(s, AdvInd) ELSE s
<1>1. troubles \in Nat
  BY LinkEncryptionAssumption DEF Types, PeerTypes
<1>2. ~(troubles' = troubles + 1)
  BY <1>1 DEF Quiet
<1> QED
  BY <1>2, AdvertiseCases DEF Quiet

LEMMA TakesDataQuiet ==
  ASSUME Types, NEW r \in DataRequests, NEW e, TakesData(r, e), flavour' = flavour, Quiet'
  PROVE  /\ Quiet /\ (LinkQuiet => LinkQuiet')
         /\ link' = link \/ (link' = "none" /\ Disconnected)
         /\ connecting' = connecting
<1>1. CASE UNCHANGED <<link, advertising, troubles>>
  BY <1>1 DEF LinkQuiet, Quiet, Bridge, TakesData
<1>2. CASE Disconnected
  <2>1. bleprph_advertise(ul) /\ link' = "none"
    BY <1>2 DEF Disconnected
  <2>2. Quiet /\ advertising'
    BY <2>1, QuietAdvertises DEF Types
  <2> QED
    BY <1>2, <2>1, <2>2 DEF LinkQuiet, TakesData
<1> QED
  BY <1>1, <1>2, TakesDataCases DEF Stays

LEMMA TakesAdvQuiet ==
  ASSUME Types, LinkPlace, NEW r \in AdvRequests, TakesAdv(r), flavour' = flavour, Quiet'
  PROVE  /\ Quiet /\ (LinkQuiet => LinkQuiet')
         /\ r = "SCAN_REQ" /\ link # "up" => link' # "up"
<1>1. CASE UNCHANGED <<link, advertising, troubles>>
  BY <1>1 DEF LinkQuiet, Quiet, Bridge
<1>2. CASE r = "CONNECT_IND" /\ advertising /\ Connects(ul)
  <2>1. CASE link' = "up" /\ troubles' = troubles
    BY <1>2, <2>1 DEF LinkQuiet, Quiet
  <2>2. CASE bleprph_advertise(ul) /\ UNCHANGED link
    <3>1. Quiet /\ advertising'
      BY <2>2, QuietAdvertises DEF Types
    <3> QED
      BY <1>2, <2>2, <3>1 DEF LinkQuiet, Bridge
  <2> QED
    BY <1>2, <2>1, <2>2 DEF Connects
<1>3. CASE /\ link' = IF link = "up" /\ ~Bridge THEN "lost" ELSE link
           /\ UNCHANGED <<advertising, troubles>>
  BY <1>3 DEF LinkQuiet, Quiet, Bridge
<1> QED
  BY <1>1, <1>2, <1>3 DEF TakesAdv

\* Between two requests both encrypt or none.
LEMMA BothEncrypt ==
  ASSUME Types, PlaceInv, OnTheirWayInv, SyncInv, Quiet, Seen, link = "up",
         pc \in {"ready", "length"}
  PROVE  ul = <<>> /\ encrypted = peer.enc /\ (InSync \/ Doomed)
<1>1. ul = <<>> /\ ~found
  BY DEF OnTheirWayInv, OnTheirWay, PlaceInv, MapperPlace, Between, Receiving
<1>2. encrypted \in BOOLEAN /\ peer.enc \in BOOLEAN /\ Len(ul) = 0
  BY <1>1 DEF Types, MapperTypes, PeerTypes, PeerType
<1>3. CASE Doomed
  BY <1>1, <1>2, <1>3 DEF Doomed
<1>4. CASE InSync
  <2>1. EncryptsWith(encrypted /\ ~Paused, conn_session_key, conn_iv,
                     enc_tx_pkt_count, enc_rx_pkt_count)
    BY <1>1, <1>2, <1>4 DEF InSync
  <2> QED
    BY <1>1, <1>2, <1>4, <2>1 DEF EncryptsWith, Paused
<1> QED
  BY <1>3, <1>4 DEF SyncInv

\* The bridge ends the connection when it is told to.
LEMMA TerminateEnds ==
  ASSUME Types, PlaceInv, OnTheirWayInv, SyncInv, Quiet, Seen, link = "up", pc = "ready",
         TakesData("TERMINATE_IND", Crypt)
  PROVE  Disconnected
<1>1. encrypted = peer.enc
  BY BothEncrypt
<1>2. ~peer.enc => Opens("TERMINATE_IND", Crypt)
  BY <1>1 DEF Opens, Crypt
<1>3. ASSUME NEW q, Handles("TERMINATE_IND", q)
      PROVE  Disconnected
  BY <1>3 DEF Handles, HandlesSm
<1> QED
  BY <1>2, <1>3 DEF TakesData

LEMMA QuietStep ==
  ASSUME Types, PlaceInv, QuietInv, OnTheirWayInv, SyncInv, Next, Quiet'
  PROVE  QuietInv' /\ (Quiet \/ ScanAnswered)
<1>0. LinkPlace /\ MapperPlace /\ troubles \in Nat /\ ul \in Seq(Packet)
  BY LinkEncryptionAssumption DEF PlaceInv, Types, PeerTypes
<1>t. Trouble => FALSE
  BY <1>0 DEF Trouble, Quiet
<1>e. <<>> \in Seq(Packet)
  OBVIOUS
<1>a. UNCHANGED <<flavour, link, advertising, troubles>> => Quiet /\ (LinkQuiet => LinkQuiet')
  BY DEF Quiet, LinkQuiet, Bridge
<1>b. AnswersSeen => Quiet /\ ul = <<>> /\ ~connecting
  BY <1>t DEF AnswersSeen, Quiet
<1> USE DEF ScanPhase, Receiving, Between
<1>1. ASSUME NEW r \in DataRequests, Request(r)
      PROVE  QuietInv' /\ Quiet
  <2>1. r \notin AdvRequests
    BY DEF DataRequests, AdvRequests
  <2>2. TakesData(r, Crypt) /\ flavour' = flavour
    BY <1>1, <2>1 DEF Request, send
  <2>3. Quiet /\ (LinkQuiet => LinkQuiet')
    BY <2>2, TakesDataQuiet
  <2> QED
    BY <1>1, <2>3 DEF Request, QuietInv
<1>2. ASSUME NEW r \in AdvRequests, AdvRequest(r)
      PROVE  QuietInv' /\ Quiet
  <2>1. TakesAdv(r) /\ flavour' = flavour
    BY <1>2 DEF AdvRequest, send
  <2>2. Quiet /\ (LinkQuiet => LinkQuiet')
    BY <1>0, <2>1, TakesAdvQuiet
  <2> QED
    BY <1>2, <2>2 DEF AdvRequest, QuietInv
<1>3. CASE ll_ctrl_enc_req
  <2>1. TakesData("ENC_REQ", Crypt) /\ flavour' = flavour
    BY <1>3 DEF ll_ctrl_enc_req
  <2>2. Quiet /\ (LinkQuiet => LinkQuiet')
    BY <2>1, TakesDataQuiet DEF DataRequests
  <2> QED
    BY <1>3, <2>2 DEF ll_ctrl_enc_req, QuietInv
<1>4. CASE SkipPacket \/ ReceivePacket \/ ReceiveBroken
  <2>1. UNCHANGED <<flavour, pc, peer_vars, troubles>>
    BY <1>4 DEF SkipPacket, ReceivePacket, ReceiveBroken, flags
  <2> QED
    BY <1>a, <2>1 DEF QuietInv, peer_vars, Bridge
<1>5. CASE ReceiveGarbage
  <2>1. pc' = pc /\ flavour' = flavour
    BY <1>5 DEF ReceiveGarbage
  <2>2. CASE UNCHANGED <<peer_vars, troubles>>
    BY <1>a, <2>1, <2>2 DEF QuietInv, peer_vars, Bridge
  <2>3. CASE Reboots
    <3>1. Quiet /\ advertising' = TRUE /\ link' = "none" /\ connecting' = FALSE
      BY <1>e, <2>3, QuietAdvertises DEF Reboots
    <3> QED
      BY <3>1 DEF QuietInv, LinkQuiet
  <2> QED
    BY <1>5, <2>2, <2>3 DEF ReceiveGarbage
<1>6. CASE EndReceive
  BY <1>a, <1>b, <1>6 DEF EndReceive, QuietInv, peer_vars, AnswersSeen
<1>7. CASE reset_terminate
  <2>1. TakesData("TERMINATE_IND", Crypt) /\ flavour' = flavour /\ pc = "ready" /\ pc' = "reset"
    BY <1>7 DEF reset_terminate, send, AdvRequests
  <2>2. Quiet /\ (LinkQuiet => LinkQuiet') /\ (link # "up" => link' # "up")
        /\ connecting' = connecting
    BY <2>1, TakesDataQuiet DEF DataRequests
  <2>3. Bridge => link' # "up"
    <3>1. CASE link = "up"
      <4>1. Bridge => Seen
        BY DEF Bridge, Seen
      <4> QED
        BY <2>1, <2>2, <3>1, <4>1, TerminateEnds DEF Disconnected
    <3> QED
      BY <2>2, <3>1
  <2> QED
    BY <2>1, <2>2, <2>3 DEF QuietInv, Bridge
<1>8. CASE reset
  <2>1. Quiet /\ ~connecting /\ LinkQuiet /\ (Bridge => link # "up")
    BY <1>8 DEF reset, flags, QuietInv, Quiet
  <2> QED
    BY <1>8, <2>1 DEF reset, QuietInv, LinkQuiet, Bridge
<1>9. CASE ScanRequest
  <2>1. TakesAdv("SCAN_REQ") /\ flavour' = flavour /\ pc = "scan" /\ pc' = "scan_receive"
    BY <1>9 DEF ScanRequest, send, AdvRequests
  <2>2. Quiet /\ (LinkQuiet => LinkQuiet') /\ (link # "up" => link' # "up")
    BY <1>0, <2>1, TakesAdvQuiet DEF AdvRequests
  <2> QED
    BY <2>1, <2>2 DEF QuietInv
<1>10. CASE ScanAnswered
  <2>1. ul = <<>> /\ link = "none" /\ advertising /\ ~connecting
    BY <1>0, <1>10, <1>t DEF ScanAnswered, MapperPlace
  <2> QED
    BY <1>10, <2>1 DEF ScanAnswered, QuietInv, LinkQuiet, peer_vars
<1>11. CASE ScanFailed
  <2>1. pc = "scan_receive" /\ pc' \in {"scan", "reset_device"} /\ ~connecting
    BY <1>0, <1>11 DEF ScanFailed, MapperPlace
  <2> QED
    BY <1>a, <1>b, <1>11, <2>1 DEF ScanFailed, QuietInv, peer_vars, AnswersSeen
<1>12. CASE reset_device
  <2>1. Quiet /\ advertising' = TRUE /\ link' = "none" /\ connecting' = FALSE
    BY <1>e, <1>12, QuietAdvertises DEF reset_device, Reboots
  <2> QED
    BY <2>1 DEF QuietInv, LinkQuiet
<1>13. CASE ScanExhausted
  BY <1>a, <1>13 DEF ScanExhausted, QuietInv, peer_vars, flags
<1>14. CASE LinkEnds
  <2>1. Quiet /\ advertising' = TRUE /\ link' = "none"
    BY <1>0, <1>14, QuietAdvertises DEF LinkEnds, Disconnected
  <2> QED
    BY <1>14, <2>1 DEF LinkEnds, QuietInv, LinkQuiet
<1>15. CASE DongleConnects
  <2>1. PICK sent \in {ul, Append(ul, AdvInd)} : Connects(sent)
    BY <1>15, AdvPacketType DEF DongleConnects
  <2>2. sent \in Seq(Packet)
    BY <1>0, AdvPacketType
  <2>3. pc' = pc /\ flavour' = flavour /\ connecting /\ advertising /\ connecting' = FALSE
    BY <1>15 DEF DongleConnects
  <2>4. pc # "scan_receive"
    BY <1>0, <2>3 DEF MapperPlace
  <2>5. CASE link' = "up" /\ troubles' = troubles
    BY <2>3, <2>4, <2>5 DEF Quiet, QuietInv, LinkQuiet
  <2>6. CASE bleprph_advertise(sent) /\ UNCHANGED link
    <3>1. Quiet /\ advertising' = TRUE
      BY <2>2, <2>6, QuietAdvertises
    <3> QED
      BY <2>3, <2>6, <3>1 DEF QuietInv, LinkQuiet, Bridge
  <2> QED
    BY <2>1, <2>5, <2>6 DEF Connects
<1>16. CASE Lose
  BY <1>16, <1>t DEF Lose
<1> QED
  BY <1>1, <1>2, <1>3, <1>4, <1>5, <1>6, <1>7, <1>8, <1>9, <1>10, <1>11, <1>12, <1>13,
     <1>14, <1>15, <1>16
     DEF Next, Requests, Receives, Resets, Peripheral

-----------------------------------------------------------------------------
(* reset() pays a trouble for every time it resets the device              *)

AnswerComing(s) == \E k \in 1 .. Len(s) : s[k].kind = "SCAN_RSP"

LEMMA AnswerStays ==
  ASSUME NEW s \in Seq(Packet)
  PROVE  /\ \A p \in Packet : AnswerComing(s) => AnswerComing(Append(s, p))
         /\ AnswerComing(s \o <<AdvInd, ScanRsp>>)
         /\ AnswerComing(s) => s # <<>>
         /\ AnswerComing(s) => Head(s).kind = "SCAN_RSP" \/ AnswerComing(Tail(s))
<1>1. ASSUME NEW p \in Packet, AnswerComing(s)
      PROVE  AnswerComing(Append(s, p))
  BY <1>1 DEF AnswerComing
<1>2. AnswerComing(s \o <<AdvInd, ScanRsp>>)
  <2> DEFINE t == Append(s, AdvInd)
  <2>1. s \o <<AdvInd, ScanRsp>> = Append(t, ScanRsp) /\ t \in Seq(Packet)
    BY AdvPacketType, PacketSequences
  <2> HIDE DEF t
  <2>2. /\ Append(t, ScanRsp)[Len(t) + 1] = ScanRsp
        /\ Len(t) + 1 \in 1 .. Len(Append(t, ScanRsp))
    BY <2>1
  <2> QED
    BY <2>1, <2>2 DEF AnswerComing, ScanRsp
<1>3. AnswerComing(s) => s # <<>>
  BY DEF AnswerComing
<1>4. ASSUME AnswerComing(s), Head(s).kind # "SCAN_RSP"
      PROVE  AnswerComing(Tail(s))
  <2>1. PICK k \in 1 .. Len(s) : s[k].kind = "SCAN_RSP"
    BY <1>4 DEF AnswerComing
  <2>2. /\ Len(s) \in Nat /\ Head(s) = s[1] /\ Len(Tail(s)) = Len(s) - 1
        /\ \A j \in 1 .. Len(s) - 1 : Tail(s)[j] = s[j + 1]
    BY <1>3, <1>4, PacketSequences
  <2>3. k # 1
    BY <1>4, <2>1, <2>2
  <2>4. k - 1 \in 1 .. Len(s) - 1 /\ (k - 1) + 1 = k
    BY <2>1, <2>2, <2>3
  <2> QED
    BY <2>1, <2>2, <2>4 DEF AnswerComing
<1> QED
  BY <1>1, <1>2, <1>3, <1>4

\* An advertisement that starts adds to what is on its way and to the troubles.
LEMMA AdvertisePays ==
  ASSUME Types, bleprph_advertise(ul)
  PROVE  troubles' >= troubles /\ (AnswerComing(ul) => AnswerComing(ul'))
<1>1. ul \in Seq(Packet)
  BY DEF Types
<1>2. ul' = ul \/ ul' = Append(ul, AdvInd)
  BY <1>1, AdvertiseCases
<1> QED
  BY <1>1, <1>2, AdvertiseType, AdvPacketType, AnswerStays

\* In reset() every packet for us can be read.
LEMMA ScanReadable ==
  ASSUME Types, PlaceInv, pc = "scan_receive", HasPacket
  PROVE  Decrypted(Head(ul))
<1>1. ul \in Seq(Packet) /\ ul # <<>>
  BY DEF Types, HasPacket
<1>2. AllIn(ul, AdvKinds) /\ ~encrypted
  BY DEF PlaceInv, MapperPlace, ScanPhase
<1>3. Head(ul) \in Packet /\ Head(ul).kind \in AdvPackets
  BY <1>1, <1>2, PacketSequences, AllInSequences DEF HasPacket, is_target, AdvKinds
<1> QED
  BY <1>2, <1>3 DEF Packet, Decrypted, Decrypts, StillEncrypted

LEMMA PaidStep ==
  ASSUME Types, PlaceInv, PaidInv, QuietInv, Next
  PROVE  PaidInv'
<1>0. /\ LinkPlace /\ MapperPlace /\ ul \in Seq(Packet)
      /\ troubles \in Nat /\ scan_i \in Nat /\ scan_i <= ScanTries
      /\ ScanTries \in Nat /\ ScanResetFrom \in Nat /\ ScanResetFrom <= ScanTries
  BY LinkEncryptionAssumption DEF PlaceInv, Types, MapperTypes, PeerTypes
<1>p. /\ pc = "scan" /\ scan_i > ScanResetFrom =>
           Paid(0) /\ link = "none" /\ ~connecting /\ (advertising \/ Paid(1))
      /\ pc = "scan_receive" =>
           /\ scan_i < ScanTries
           /\ scan_i >= ScanResetFrom => Paid(0) /\ (found \/ Paid(1) \/ AnswerComing(ul))
      /\ pc = "reset_device" => scan_i > ScanResetFrom /\ Paid(0)
      /\ pc = "raised" => troubles >= ScanTries - ScanResetFrom
  BY DEF PaidInv, AnswerComing
<1>q. SUFFICES
      /\ pc' = "scan" /\ scan_i' > ScanResetFrom =>
           Paid(0)' /\ link' = "none" /\ ~connecting' /\ (advertising' \/ Paid(1)')
      /\ pc' = "scan_receive" =>
           /\ scan_i' < ScanTries
           /\ scan_i' >= ScanResetFrom => Paid(0)' /\ (found' \/ Paid(1)' \/ AnswerComing(ul'))
      /\ pc' = "reset_device" => scan_i' > ScanResetFrom /\ Paid(0)'
      /\ pc' = "raised" => troubles' >= ScanTries - ScanResetFrom
  BY DEF PaidInv, AnswerComing
<1>1. CASE pc' \notin ScanPhase
  BY <1>1 DEF ScanPhase
<1>2. CASE SkipPacket /\ pc = "scan_receive"
  <2>1. AnswerComing(ul) => AnswerComing(ul')
    BY <1>0, <1>2, AnswerStays DEF SkipPacket, is_target
  <2> QED
    BY <1>p, <1>2, <2>1 DEF SkipPacket, flags, Paid
<1>3. CASE ReceivePacket /\ pc = "scan_receive"
  <2>1. AnswerComing(ul) => found' \/ AnswerComing(ul')
    <3>1. Head(ul).kind = "SCAN_RSP" => Awaited(Head(ul))
      BY <1>3 DEF Awaited
    <3> QED
      BY <1>0, <1>3, <3>1, AnswerStays DEF ReceivePacket
  <2>2. found => found'
    BY <1>3 DEF ReceivePacket
  <2> QED
    BY <1>p, <1>3, <2>1, <2>2 DEF ReceivePacket, flags, Paid
<1>4. CASE (ReceiveBroken \/ ReceiveGarbage) /\ pc = "scan_receive"
  BY <1>4, ScanReadable DEF ReceiveBroken, ReceiveGarbage
<1>5. CASE reset
  BY <1>0, <1>5 DEF reset
<1>6. CASE ScanRequest
  <2>1. /\ TakesAdv("SCAN_REQ") /\ pc = "scan" /\ pc' = "scan_receive"
        /\ scan_i < ScanTries /\ scan_i' = scan_i
        /\ scan_i >= ScanResetFrom => Bridge \/ link # "lost"
    BY <1>6 DEF ScanRequest, send, AdvRequests
  <2>2. CASE advertising
    <3>1. AnswerComing(ul') /\ troubles' = troubles
      BY <1>0, <2>1, <2>2, AdvPacketType, AnswerStays DEF TakesAdv
    <3> QED
      BY <1>0, <1>p, <2>1, <3>1 DEF Paid
  <2>3. CASE ~advertising
    <3>1. troubles' = troubles
      BY <2>1, <2>3 DEF TakesAdv
    <3>2. scan_i = ScanResetFrom => troubles # 0
      BY <1>0, <2>1, <2>3 DEF QuietInv, Quiet, LinkQuiet, ScanPhase, Types, PeerTypes
    <3> QED
      BY <1>0, <1>p, <2>1, <2>3, <3>1, <3>2 DEF Paid
  <2> QED
    BY <2>2, <2>3
<1>7. CASE ScanFailed
  <2>1. /\ pc = "scan_receive" /\ ~found /\ AnswersSeen /\ scan_i' = scan_i + 1
        /\ pc' = IF scan_i >= ScanResetFrom THEN "reset_device" ELSE "scan"
    BY <1>7 DEF ScanFailed
  <2>2. (troubles' = troubles /\ ul = <<>>) \/ troubles' = troubles + 1
    BY <2>1 DEF AnswersSeen, Trouble
  <2>3. AnswerComing(ul) => ul # <<>>
    BY <1>0, AnswerStays
  <2> QED
    BY <1>0, <1>p, <2>1, <2>2, <2>3 DEF Paid
<1>8. CASE reset_device
  <2>1. <<>> \in Seq(Packet)
    OBVIOUS
  <2>2. \/ advertising' = TRUE /\ troubles' = troubles
        \/ troubles' = troubles + 1
    BY <1>8, <2>1, AdvertiseCases DEF reset_device, Reboots
  <2>3. pc = "reset_device" /\ pc' = "scan" /\ scan_i' = scan_i /\ link' = "none" /\ ~connecting'
    BY <1>8 DEF reset_device, Reboots
  <2> QED
    BY <1>0, <1>p, <2>2, <2>3 DEF Paid
<1>9. CASE ScanExhausted
  BY <1>0, <1>p, <1>9 DEF ScanExhausted, flags, Paid
<1>10. CASE LinkEnds
  <2>1. /\ pc' = pc /\ scan_i' = scan_i /\ found' = found /\ link # "none"
        /\ troubles' >= troubles /\ troubles' \in Nat
        /\ AnswerComing(ul) => AnswerComing(ul')
    BY <1>10, AdvertisePays, AdvertiseType DEF LinkEnds, Disconnected, Types
  <2> QED
    BY <1>0, <1>p, <2>1 DEF Paid
<1>11. CASE DongleConnects
  <2>1. PICK sent \in {ul, Append(ul, AdvInd)} : Connects(sent)
    BY <1>11, AdvPacketType DEF DongleConnects
  <2>2. sent \in Seq(Packet)
    BY <1>0, AdvPacketType
  <2>3. troubles' >= troubles /\ troubles' \in Nat
    BY <1>0, <2>1, <2>2, AdvertiseType DEF Connects
  <2>4. connecting /\ pc' = pc /\ scan_i' = scan_i
    BY <1>11 DEF DongleConnects
  <2> QED
    BY <1>0, <1>p, <2>3, <2>4 DEF Paid, MapperPlace
<1>12. CASE Lose
  <2>1. /\ troubles' = troubles + 1 /\ UNCHANGED <<pc, scan_i, found, link, connecting, advertising>>
    BY <1>12 DEF Lose, Trouble, peer_vars
  <2> QED
    BY <1>0, <1>p, <2>1 DEF Paid
<1>13. ASSUME NEW r, Request(r) \/ AdvRequest(r)
       PROVE  pc' \notin ScanPhase
  BY <1>13 DEF Request, AdvRequest, ScanPhase
<1>14. ll_ctrl_enc_req \/ EndReceive \/ reset_terminate \/ ScanAnswered => pc' \notin ScanPhase
  BY DEF ll_ctrl_enc_req, EndReceive, reset_terminate, ScanAnswered, ScanPhase
<1>15. (SkipPacket \/ ReceivePacket \/ ReceiveBroken \/ ReceiveGarbage) /\ pc # "scan_receive"
         => pc' \notin ScanPhase
  BY DEF SkipPacket, ReceivePacket, ReceiveBroken, ReceiveGarbage, HasPacket, Receiving, ScanPhase
<1> QED
  BY <1>1, <1>2, <1>3, <1>4, <1>5, <1>6, <1>7, <1>8, <1>9, <1>10, <1>11, <1>12, <1>13, <1>14,
     <1>15
     DEF Next, Requests, Receives, Resets, Peripheral

-----------------------------------------------------------------------------
(* While nothing got lost or came late: the packets on their way           *)

Fits(s) == AllIn(s, Kinds \ {"STALE"}) /\ DataFirst(s)

LEMMA OrderedSequences ==
  ASSUME NEW s \in Seq(Packet)
  PROVE  /\ Fits(<<>>) /\ ~HasAdv(<<>>)
         /\ \A p \in Packet : p.kind \in AdvPackets /\ Fits(s) =>
              Fits(Append(s, p)) /\ HasAdv(Append(s, p))
         /\ s # <<>> /\ Fits(s) =>
              /\ Fits(Tail(s))
              /\ Head(s).kind \in AdvPackets => AllIn(Tail(s), AdvPackets)
         /\ s # <<>> /\ HasAdv(s) => Head(s).kind \in AdvPackets \/ HasAdv(Tail(s))
         /\ AllIn(s, AdvPackets) => Fits(s)
<1>0. AdvPackets \subseteq Kinds \ {"STALE"}
  BY DEF AdvPackets, Kinds
<1>1. Fits(<<>>) /\ ~HasAdv(<<>>)
  BY DEF Fits, AllIn, DataFirst, HasAdv
<1>2. ASSUME NEW p \in Packet, p.kind \in AdvPackets, Fits(s)
      PROVE  Fits(Append(s, p)) /\ HasAdv(Append(s, p))
  <2> DEFINE t == Append(s, p)
  <2>1. /\ Len(t) = Len(s) + 1 /\ t[Len(s) + 1] = p /\ Len(s) \in Nat
        /\ \A k \in 1 .. Len(s) : t[k] = s[k]
    OBVIOUS
  <2> HIDE DEF t
  <2>2. AllIn(t, Kinds \ {"STALE"}) /\ HasAdv(t)
    BY <1>0, <1>2, <2>1 DEF Fits, AllIn, HasAdv
  <2>3. DataFirst(t)
    BY <1>2, <2>1 DEF Fits, DataFirst
  <2> QED
    BY <2>2, <2>3 DEF Fits, t
<1>3. ASSUME s # <<>>
      PROVE  /\ Fits(s) =>
                  /\ Fits(Tail(s))
                  /\ Head(s).kind \in AdvPackets => AllIn(Tail(s), AdvPackets)
             /\ HasAdv(s) => Head(s).kind \in AdvPackets \/ HasAdv(Tail(s))
  <2> DEFINE t == Tail(s)
  <2>1. /\ Len(s) \in Nat /\ Len(s) >= 1 /\ Len(t) = Len(s) - 1 /\ Head(s) = s[1]
        /\ \A k \in 1 .. Len(s) - 1 : t[k] = s[k + 1]
    BY <1>3, PacketSequences
  <2>2. Fits(s) => AllIn(t, Kinds \ {"STALE"})
    BY <1>3, AllInSequences DEF Fits
  <2> HIDE DEF t
  <2>3. ASSUME DataFirst(s)
        PROVE  DataFirst(t)
    <3> SUFFICES ASSUME NEW j \in 1 .. Len(t), NEW k \in 1 .. Len(t), j < k,
                        t[j].kind \in AdvPackets
                 PROVE  t[k].kind \in AdvPackets
      BY DEF DataFirst
    <3>1. /\ j + 1 \in 1 .. Len(s) /\ k + 1 \in 1 .. Len(s) /\ j + 1 < k + 1
          /\ t[j] = s[j + 1] /\ t[k] = s[k + 1]
      BY <2>1
    <3> QED
      BY <2>3, <3>1 DEF DataFirst
  <2>4. DataFirst(s) /\ Head(s).kind \in AdvPackets => AllIn(t, AdvPackets)
    BY <2>1 DEF DataFirst, AllIn
  <2>5. ASSUME HasAdv(s), Head(s).kind \notin AdvPackets
        PROVE  HasAdv(t)
    <3>1. PICK k \in 1 .. Len(s) : s[k].kind \in AdvPackets
      BY <2>5 DEF HasAdv
    <3>2. k - 1 \in 1 .. Len(t) /\ t[k - 1] = s[k]
      BY <2>1, <2>5, <3>1
    <3> QED
      BY <3>1, <3>2 DEF HasAdv
  <2> QED
    BY <2>2, <2>3, <2>4, <2>5 DEF Fits, t
<1>4. AllIn(s, AdvPackets) => Fits(s)
  BY <1>0 DEF AllIn, Fits, DataFirst
<1> QED
  BY <1>1, <1>2, <1>3, <1>4

LEMMA AdvertiseOnTheirWay ==
  ASSUME Types, NEW s \in Seq(Packet), bleprph_advertise(s), Quiet', Fits(s)
  PROVE  /\ Fits(ul') /\ (AllIn(s, AdvPackets) => AllIn(ul', AdvPackets))
         /\ IF Bridge THEN HasAdv(ul') ELSE ul' = s
<1>1. ul' = IF Bridge THEN Append(s, AdvInd) ELSE s
  BY QuietAdvertises
<1>2. Fits(Append(s, AdvInd)) /\ HasAdv(Append(s, AdvInd))
  BY AdvPacketType, AdvKind, OrderedSequences
<1>3. AllIn(s, AdvPackets) => AllIn(Append(s, AdvInd), AdvPackets)
  BY AdvPacketType, AdvKind, AllInSequences
<1> QED
  BY <1>1, <1>2, <1>3

\* What is answered to a request comes before all advertisements.
LEMMA AnswersFit ==
  ASSUME Answers, ul = <<>>
  PROVE  Fits(ul')
<1>1. \A p \in DataPacket : p.kind \in Kinds \ {"STALE"} /\ p.kind \notin AdvPackets
  BY DEF DataPacket, Packet, PacketType
<1>2. CASE ul' = ul
  BY <1>2 DEF Fits, AllIn, DataFirst
<1>3. ASSUME NEW p \in DataPacket, ul' = Append(ul, p)
      PROVE  Fits(ul')
  <2>1. ul' = <<p>>
    BY <1>3
  <2> QED
    BY <1>1, <2>1 DEF Fits, AllIn, DataFirst
<1>4. ASSUME NEW p \in DataPacket, NEW q \in DataPacket, ul' = ul \o <<p, q>>
      PROVE  Fits(ul')
  <2>1. ul' = <<p, q>>
    BY <1>4
  <2>2. Len(ul') = 2 /\ ul'[1] = p /\ ul'[2] = q
    BY <2>1
  <2> QED
    BY <1>1, <2>2 DEF Fits, AllIn, DataFirst
<1> QED
  BY <1>2, <1>3, <1>4 DEF Answers

LEMMA TakesDataOnTheirWay ==
  ASSUME Types, OnTheirWay, Between, Quiet', NEW r \in DataRequests, NEW e, TakesData(r, e)
  PROVE  /\ Fits(ul')
         /\ Bridge /\ link' = "none" => HasAdv(ul') \/ UNCHANGED <<ul, link>>
         /\ link' # "up" => AllIn(ul', AdvPackets) /\ (~Bridge => ul' = <<>>)
<1>1. /\ Fits(ul) /\ ul \in Seq(Packet) /\ (~Bridge \/ link = "up" => ul = <<>>)
      /\ AllIn(ul, AdvPackets)
  BY DEF OnTheirWay, Fits, Types
<1>2. CASE link # "up" /\ UNCHANGED <<link, ul>>
  BY <1>1, <1>2
<1>3. CASE link = "up" /\ Stays
  <2>1. ul = <<>> /\ Answers /\ link' = "up"
    BY <1>1, <1>3 DEF Stays
  <2> QED
    BY <2>1, AnswersFit
<1>4. CASE Disconnected
  <2>1. bleprph_advertise(ul)
    BY <1>4 DEF Disconnected
  <2> QED
    BY <1>1, <2>1, AdvertiseOnTheirWay
<1> QED
  BY <1>2, <1>3, <1>4, TakesDataCases

LEMMA OnTheirWayStep ==
  ASSUME Types, PlaceInv, QuietInv, OnTheirWayInv, SyncInv, Next
  PROVE  OnTheirWayInv'
<1>0. SUFFICES ASSUME Quiet', Seen'
               PROVE  /\ Fits(ul')
                      /\ Between' => /\ ~Bridge' \/ link' = "up" => ul' = <<>>
                                     /\ AllIn(ul', AdvPackets)
                      /\ Bridge' /\ link' = "none" =>
                           HasAdv(ul') \/ (~encrypted' /\ AllIn(ul', AdvPackets))
  BY DEF OnTheirWayInv, OnTheirWay, Fits
<1> DEFINE Goal == /\ Fits(ul')
                   /\ Between' => /\ ~Bridge' \/ link' = "up" => ul' = <<>>
                                  /\ AllIn(ul', AdvPackets)
                   /\ Bridge' /\ link' = "none" =>
                        HasAdv(ul') \/ (~encrypted' /\ AllIn(ul', AdvPackets))
<1>f. (Bridge' <=> Bridge) /\ (Seen' <=> Seen) /\ flavour' = flavour
  BY DEF Next, Requests, Receives, Resets, Peripheral, Request, AdvRequest, ll_ctrl_enc_req,
         SkipPacket, ReceivePacket, ReceiveBroken, ReceiveGarbage, EndReceive, reset_terminate,
         reset, ScanRequest, ScanAnswered, ScanFailed, reset_device, ScanExhausted, LinkEnds,
         DongleConnects, Lose, Bridge, Seen
<1>e. /\ <<>> \in Seq(Packet) /\ Fits(<<>>) /\ AllIn(<<>>, AdvPackets) /\ ~HasAdv(<<>>)
  <2>1. <<>> \in Seq(Packet)
    OBVIOUS
  <2> QED
    BY <2>1, OrderedSequences, AllInSequences
<1>1. CASE ScanAnswered
  <2>1. ul' = <<>> /\ ~encrypted' /\ troubles \in Nat
    BY <1>0, <1>1, LinkEncryptionAssumption
       DEF ScanAnswered, Trouble, Quiet, Types, PeerTypes, PlaceInv, MapperPlace, ScanPhase,
           crypto_vars
  <2> QED
    BY <1>e, <2>1
<1>2. CASE ~ScanAnswered
<2>q. QuietInv' /\ Quiet
  BY <1>0, <1>2, QuietStep
<2>0. /\ Fits(ul) /\ OnTheirWay /\ LinkPlace /\ MapperPlace /\ ul \in Seq(Packet)
      /\ Between => /\ ~Bridge \/ link = "up" => ul = <<>>
                    /\ AllIn(ul, AdvPackets)
      /\ Bridge /\ link = "none" =>
           HasAdv(ul) \/ (~encrypted /\ AllIn(ul, AdvPackets))
  BY <1>0, <1>f, <2>q DEF OnTheirWayInv, OnTheirWay, Fits, PlaceInv, Types
<2>a. ul # <<>> /\ ul' = Tail(ul) => Fits(ul') /\ (AllIn(ul, AdvPackets) => AllIn(ul', AdvPackets))
  BY <2>0, OrderedSequences, AllInSequences
<2>b. AnswersSeen => ul = <<>>
  BY <1>0, LinkEncryptionAssumption DEF AnswersSeen, Trouble, Quiet, Types, PeerTypes
<2>c. HasPacket => ul # <<>> /\ Head(ul) \in Packet /\ pc \in Receiving
  BY <2>0, PacketSequences DEF HasPacket
<2> USE DEF ScanPhase, Receiving, Between
<2> HIDE DEF Goal
<2>1. ASSUME NEW r \in DataRequests, Request(r)
      PROVE  Goal
  <3>1. r \notin AdvRequests
    BY DEF DataRequests, AdvRequests
  <3>2. TakesData(r, Crypt) /\ encrypted' = encrypted /\ pc \in {"ready", "length"} /\ pc' = "receive"
    BY <2>1, <3>1 DEF Request, send
  <3>3. Fits(ul') /\ (Bridge /\ link' = "none" => HasAdv(ul') \/ UNCHANGED <<ul, link>>)
    BY <1>0, <2>0, <3>2, TakesDataOnTheirWay
  <3> QED
    BY <1>f, <2>0, <3>2, <3>3 DEF Goal
<2>2. ASSUME NEW r \in AdvRequests, AdvRequest(r)
      PROVE  Goal
  <3>1. TakesAdv(r) /\ (encrypted' => encrypted) /\ pc = "ready" /\ pc' = "receive"
    BY <2>2 DEF AdvRequest, send, ll_adv_scan_req_pre, ll_adv_connect_ind_pre
  <3>2. CASE ul' = ul \o <<AdvInd, ScanRsp>>
    <4> DEFINE t == Append(ul, AdvInd)
    <4>1. ul' = Append(t, ScanRsp) /\ t \in Seq(Packet) /\ Fits(t)
      BY <2>0, <3>2, AdvPacketType, AdvKind, PacketSequences, OrderedSequences
    <4> HIDE DEF t
    <4>2. Fits(ul') /\ HasAdv(ul')
      BY <4>1, AdvPacketType, AdvKind, OrderedSequences
    <4> QED
      BY <3>1, <4>2 DEF Goal
  <3>3. CASE bleprph_advertise(ul)
    <4>1. Fits(ul') /\ (Bridge => HasAdv(ul'))
      BY <1>0, <2>0, <3>3, AdvertiseOnTheirWay
    <4> QED
      BY <1>f, <3>1, <4>1 DEF Goal
  <3>4. CASE ul' = ul /\ (link' = "none" => link = "none")
    BY <1>f, <2>0, <3>1, <3>4 DEF Goal
  <3> QED
    BY <3>1, <3>2, <3>3, <3>4, AdvPacketType DEF TakesAdv, Connects
<2>3. CASE ll_ctrl_enc_req
  <3>1. TakesData("ENC_REQ", Crypt) /\ encrypted' = encrypted /\ pc = "ready" /\ pc' = "enc_req"
    BY <2>3 DEF ll_ctrl_enc_req
  <3>2. Fits(ul') /\ (Bridge /\ link' = "none" => HasAdv(ul') \/ UNCHANGED <<ul, link>>)
    BY <1>0, <2>0, <3>1, TakesDataOnTheirWay DEF DataRequests
  <3> QED
    BY <1>f, <2>0, <3>1, <3>2 DEF Goal
<2>4. CASE SkipPacket
  <3>1. ul # <<>> /\ ~is_target(Head(ul)) /\ pc \in Receiving /\ ul \in Seq(Packet)
    BY <2>0, <2>4 DEF SkipPacket
  <3>2. Head(ul).kind \in Kinds \ {"STALE"}
    BY <2>0, <3>1, AllInSequences DEF Fits
  <3> QED
    BY <3>1, <3>2 DEF is_target
<2>5. CASE ReceivePacket \/ ReceiveBroken
  <3>1. HasPacket /\ ul' = Tail(ul) /\ pc' = pc /\ link' = link
    BY <2>5 DEF ReceivePacket, ReceiveBroken, peer_vars
  <3>2. Head(ul).kind \in AdvPackets => AllIn(Tail(ul), AdvPackets)
    BY <2>0, <2>c, <3>1, OrderedSequences
  <3>3. HasAdv(ul) => Head(ul).kind \in AdvPackets \/ HasAdv(Tail(ul))
    BY <2>0, <2>c, <3>1, OrderedSequences
  <3>4. Head(ul).kind \in AdvPackets => ~encrypted'
    <4>1. Head(ul).kind \in AdvPackets =>
            ~StillEncrypted(Head(ul)) /\ Head(ul).kind \notin {"ENC_RSP", "START_ENC_REQ"}
      BY DEF StillEncrypted, AdvPackets
    <4> QED
      BY <2>5, <4>1 DEF ReceivePacket, ReceiveBroken, Decrypts
  <3>5. AllIn(ul, AdvPackets) => Head(ul).kind \in AdvPackets
    BY <2>0, <2>c, <3>1, AllInSequences
  <3> QED
    BY <1>f, <2>0, <2>a, <2>c, <3>1, <3>2, <3>3, <3>4, <3>5 DEF Goal
<2>6. CASE ReceiveGarbage
  <3>1. pc' = pc /\ HasPacket /\ encrypted' = encrypted
    BY <2>6 DEF ReceiveGarbage, crypto_vars
  <3>2. CASE ul' = Tail(ul) /\ UNCHANGED <<peer_vars, troubles>>
    <4>1. Head(ul).kind \notin AdvPackets
      BY <2>6, <2>c, <3>1 DEF ReceiveGarbage, Decrypted, Packet, Decrypts, StillEncrypted
    <4>2. HasAdv(ul) => HasAdv(Tail(ul))
      BY <2>0, <2>c, <3>1, <4>1, OrderedSequences
    <4>3. ~AllIn(ul, AdvPackets)
      BY <2>0, <2>c, <3>1, <4>1, AllInSequences
    <4> QED
      BY <1>f, <2>0, <2>a, <2>c, <3>1, <3>2, <4>2, <4>3 DEF Goal, peer_vars
  <3>3. CASE Reboots
    <4>1. Fits(ul') /\ AllIn(ul', AdvPackets) /\ (IF Bridge THEN HasAdv(ul') ELSE ul' = <<>>)
      BY <1>0, <1>e, <3>3, AdvertiseOnTheirWay DEF Reboots
    <4>2. link' = "none"
      BY <3>3 DEF Reboots
    <4> QED
      BY <1>f, <4>1, <4>2 DEF Goal
  <3> QED
    BY <2>6, <3>2, <3>3 DEF ReceiveGarbage
<2>7. CASE EndReceive
  <3>1. ul = <<>> /\ ul' = ul /\ link' = link /\ (encrypted' => encrypted)
    BY <2>7, <2>b DEF EndReceive, peer_vars
  <3> QED
    BY <1>e, <1>f, <2>0, <3>1 DEF Goal
<2>8. CASE reset_terminate
  <3>1. /\ TakesData("TERMINATE_IND", Crypt) /\ encrypted' = encrypted
        /\ pc = "ready" /\ pc' = "reset"
    BY <2>8 DEF reset_terminate, send, AdvRequests
  <3>2. /\ Fits(ul') /\ (Bridge /\ link' = "none" => HasAdv(ul') \/ UNCHANGED <<ul, link>>)
        /\ link' # "up" => AllIn(ul', AdvPackets) /\ (~Bridge => ul' = <<>>)
    BY <1>0, <2>0, <3>1, TakesDataOnTheirWay DEF DataRequests
  <3>3. link' # "up"
    <4>1. CASE link = "up"
      BY <1>0, <1>f, <2>q, <3>1, <4>1, TerminateEnds DEF Disconnected
    <4>2. CASE link # "up"
      BY <1>0, <3>1, <4>2, <1>f, TakesDataQuiet DEF DataRequests
    <4> QED
      BY <4>1, <4>2
  <3> QED
    BY <1>f, <2>0, <3>1, <3>2, <3>3 DEF Goal
<2>9. CASE reset
  <3>1. /\ Between /\ ul' = [k \in DOMAIN ul |-> IF ul[k].kind \in AdvPackets THEN ul[k] ELSE Stale]
        /\ ~encrypted' /\ link' # "up" /\ AllIn(ul, AdvPackets)
    BY <2>0, <2>9 DEF reset
  <3>2. ul' = ul
    <4>1. ul' = [k \in 1 .. Len(ul) |-> ul[k]]
      BY <2>0, <3>1 DEF AllIn
    <4> QED
      BY <2>0, <4>1
  <3> QED
    BY <1>f, <2>0, <3>1, <3>2 DEF Goal
<2>10. CASE ScanRequest
  <3>1. TakesAdv("SCAN_REQ") /\ pc = "scan" /\ pc' = "scan_receive" /\ encrypted' = encrypted
    BY <2>10 DEF ScanRequest, send, AdvRequests
  <3>2. CASE ul' = ul \o <<AdvInd, ScanRsp>>
    <4> DEFINE t == Append(ul, AdvInd)
    <4>1. ul' = Append(t, ScanRsp) /\ t \in Seq(Packet) /\ Fits(t)
      BY <2>0, <3>2, AdvPacketType, AdvKind, PacketSequences, OrderedSequences
    <4> HIDE DEF t
    <4>2. Fits(ul') /\ HasAdv(ul')
      BY <4>1, AdvPacketType, AdvKind, OrderedSequences
    <4> QED
      BY <3>1, <4>2 DEF Goal
  <3>3. CASE ul' = ul /\ (link' = "none" => link = "none")
    BY <1>f, <2>0, <3>1, <3>3 DEF Goal
  <3> QED
    BY <3>1, <3>2, <3>3, AdvPacketType DEF TakesAdv
<2>11. CASE ScanFailed
  <3>1. ul' = <<>> /\ ~encrypted'
    BY <2>0, <2>11, <2>b DEF ScanFailed, crypto_vars, MapperPlace
  <3> QED
    BY <1>e, <3>1 DEF Goal
<2>12. CASE reset_device
  <3>1. Fits(ul') /\ AllIn(ul', AdvPackets) /\ (IF Bridge THEN HasAdv(ul') ELSE ul' = <<>>)
    BY <1>0, <1>e, <2>12, AdvertiseOnTheirWay DEF reset_device, Reboots
  <3>2. link' = "none"
    BY <2>12 DEF reset_device, Reboots
  <3> QED
    BY <1>f, <3>1, <3>2 DEF Goal
<2>13. CASE ScanExhausted
  BY <1>f, <2>0, <2>13 DEF ScanExhausted, Goal, crypto_vars, peer_vars
<2>14. CASE LinkEnds
  <3>1. bleprph_advertise(ul) /\ link' = "none" /\ pc' = pc
    BY <2>14 DEF LinkEnds, Disconnected
  <3>2. /\ Fits(ul') /\ (AllIn(ul, AdvPackets) => AllIn(ul', AdvPackets))
        /\ IF Bridge THEN HasAdv(ul') ELSE ul' = ul
    BY <1>0, <2>0, <3>1, AdvertiseOnTheirWay
  <3> QED
    BY <1>f, <2>0, <3>1, <3>2 DEF Goal
<2>15. CASE DongleConnects
  <3>1. PICK sent \in {ul, Append(ul, AdvInd)} : Connects(sent)
    BY <2>15, AdvPacketType DEF DongleConnects
  <3>2. Append(ul, AdvInd) \in Seq(Packet) /\ Fits(Append(ul, AdvInd))
    BY <2>0, AdvPacketType, AdvKind, OrderedSequences
  <3>3. sent \in Seq(Packet) /\ Fits(sent)
    BY <2>0, <3>2
  <3>4. ~Bridge /\ pc' = pc /\ pc \in Receiving
    BY <2>0, <2>15, <2>q DEF DongleConnects, LinkPlace, QuietInv
  <3>5. Fits(ul')
    BY <1>0, <3>1, <3>3, AdvertiseOnTheirWay DEF Connects
  <3> QED
    BY <1>f, <3>4, <3>5 DEF Goal
<2>16. CASE Lose
  BY <1>0, <2>16, LinkEncryptionAssumption DEF Lose, Trouble, Quiet, Types, PeerTypes
<2> QED
  BY <1>2, <2>1, <2>2, <2>3, <2>4, <2>5, <2>6, <2>7, <2>8, <2>9, <2>10, <2>11, <2>12, <2>13,
     <2>14, <2>15, <2>16
     DEF Goal, Next, Requests, Receives, Resets, Peripheral
<1> QED
  BY <1>1, <1>2

\* Nothing but the end of a connection happens while the dongle waits for an
\* advertisement.
LEMMA ConnectingStep ==
  ASSUME Types, PlaceInv, QuietInv, OnTheirWayInv, SyncInv, ConnectingInv, Next
  PROVE  ConnectingInv'
<1>0. SUFFICES ASSUME Quiet', Seen', connecting'
               PROVE  /\ flavour' = "BLESUL" => ~encrypted'
                      /\ ul' = <<>> /\ pc' = "receive" /\ req' = "CONNECT_IND"
  BY DEF ConnectingInv
<1>1. CASE ScanAnswered
  BY <1>0, <1>1 DEF ScanAnswered, peer_vars, PlaceInv, MapperPlace
<1>2. CASE \E r \in DataRequests : Request(r)
  BY <1>0, <1>2, QuietStep
     DEF Request, send, DataRequests, AdvRequests, TakesData, ScanAnswered, QuietInv, Between,
         Receiving
<1>3. ASSUME NEW r \in AdvRequests, AdvRequest(r)
      PROVE  /\ flavour' = "BLESUL" => ~encrypted'
             /\ ul' = <<>> /\ pc' = "receive" /\ req' = "CONNECT_IND"
  <2>1. /\ TakesAdv(r) /\ pc = "ready" /\ pc' = "receive" /\ req' = r /\ flavour' = flavour
        /\ encrypted' = (encrypted /\ (IF r = "SCAN_REQ" THEN Bridge ELSE flavour # "BLESUL"))
    BY <1>3 DEF AdvRequest, send, ll_adv_scan_req_pre, ll_adv_connect_ind_pre
  <2>2. Quiet /\ Seen /\ ~connecting
    BY <1>0, <1>3, <2>1, QuietStep DEF ScanAnswered, QuietInv, Between, Receiving, Seen
  <2>3. r = "CONNECT_IND" /\ ~Bridge /\ ul' = ul
    BY <1>0, <2>1, <2>2 DEF TakesAdv
  <2>4. ul = <<>>
    BY <2>1, <2>2, <2>3 DEF OnTheirWayInv, OnTheirWay, Between, Receiving
  <2> QED
    BY <2>1, <2>3, <2>4
<1>4. CASE ll_ctrl_enc_req \/ reset_terminate \/ reset \/ ScanRequest \/ ScanFailed
             \/ reset_device \/ ScanExhausted
  <2>1. connecting' = connecting \/ ~connecting'
    BY <1>4 DEF ll_ctrl_enc_req, reset_terminate, reset, ScanRequest, ScanFailed, reset_device,
                ScanExhausted, peer_vars, send, TakesAdv, TakesData, Reboots, AdvRequests
  <2>2. pc \notin Receiving \/ pc = "scan_receive"
    BY <1>4 DEF ll_ctrl_enc_req, reset_terminate, reset, ScanRequest, ScanFailed, reset_device,
                ScanExhausted, Receiving
  <2>3. ~ScanAnswered \/ pc = "scan_receive"
    BY DEF ScanAnswered
  <2> QED
    BY <1>0, <2>1, <2>2, <2>3, QuietStep DEF QuietInv, Between, PlaceInv, MapperPlace
<1>5. CASE SkipPacket \/ ReceivePacket \/ ReceiveBroken \/ ReceiveGarbage \/ EndReceive
             \/ LinkEnds \/ DongleConnects
  <2>1. ~ScanAnswered
    BY <1>0, <1>1 DEF ScanAnswered, peer_vars, PlaceInv, MapperPlace
  <2>2. Quiet /\ Seen /\ flavour' = flavour
    BY <1>0, <1>5, <2>1, QuietStep
       DEF SkipPacket, ReceivePacket, ReceiveBroken, ReceiveGarbage, EndReceive, LinkEnds,
           DongleConnects, Seen
  <2>3. connecting
    BY <1>0, <1>5 DEF SkipPacket, ReceivePacket, ReceiveBroken, ReceiveGarbage, EndReceive,
                      LinkEnds, DongleConnects, peer_vars, Reboots
  <2>4. /\ flavour = "BLESUL" => ~encrypted
        /\ ul = <<>> /\ pc = "receive" /\ req = "CONNECT_IND"
    BY <2>2, <2>3 DEF ConnectingInv
  <2>5. LinkEnds
    <3>1. ~EndReceive
      BY <1>0, <2>3, LinkEncryptionAssumption
         DEF EndReceive, AnswersSeen, Trouble, Quiet, Types, PeerTypes
    <3> QED
      BY <1>0, <1>5, <2>4, <3>1
         DEF SkipPacket, ReceivePacket, ReceiveBroken, ReceiveGarbage, HasPacket, DongleConnects
  <2>6. ~Bridge /\ ul \in Seq(Packet)
    BY <2>3 DEF PlaceInv, LinkPlace, Types
  <2>7. ul' = ul
    BY <1>0, <2>5, <2>6, QuietAdvertises DEF LinkEnds, Disconnected
  <2> QED
    BY <2>4, <2>5, <2>7 DEF LinkEnds, crypto_vars
<1>6. CASE Lose
  BY <1>0, <1>6, LinkEncryptionAssumption DEF Lose, Trouble, Quiet, Types, PeerTypes
<1> QED
  BY <1>1, <1>2, <1>3, <1>4, <1>5, <1>6 DEF Next, Requests, Receives, Resets, Peripheral

-----------------------------------------------------------------------------
(* While nothing got lost or came late: the two ends of the connection     *)

LEMMA CountedFields ==
  ASSUME NEW q \in PeerType
  PROVE  /\ Counted(q) \in PeerType
         /\ Counted(q).enc = q.enc /\ Counted(q).key = q.key /\ Counted(q).iv = q.iv
         /\ Counted(q).rx = q.rx /\ Counted(q).ltk = q.ltk
         /\ Counted(q).pairing = q.pairing /\ Counted(q).stage = q.stage
         /\ Counted(q).tx = IF q.enc THEN q.tx + 1 ELSE q.tx
  BY DEF Counted, PeerType

\* Both ends agree and nothing is on its way.
Agree ==
  /\ ul = <<>> /\ PairedWith(server, conn_ltk)
  /\ EncryptsWith(encrypted, conn_session_key, conn_iv, enc_tx_pkt_count, enc_rx_pkt_count)

\* the peripheral when it has taken a packet of the mapper
Heard == [peer EXCEPT !.rx = IF Crypt = Plain THEN @ ELSE @ + 1]

LEMMA HeardFields ==
  ASSUME Types
  PROVE  /\ Heard \in PeerType
         /\ Heard.enc = peer.enc /\ Heard.key = peer.key /\ Heard.iv = peer.iv
         /\ Heard.tx = peer.tx /\ Heard.ltk = peer.ltk
         /\ Heard.pairing = peer.pairing /\ Heard.stage = peer.stage
         /\ Heard.rx = IF encrypted THEN peer.rx + 1 ELSE peer.rx
<1>1. peer \in PeerType /\ encrypted \in BOOLEAN
  BY DEF Types, MapperTypes, PeerTypes
<1>2. (Crypt = Plain) <=> ~encrypted
  BY <1>1, SealedIsNotPlain DEF Crypt
<1> QED
  BY <1>1, <1>2 DEF Heard, PeerType

\* The peripheral can open what a mapper sends that agrees with it.
LEMMA AgreeOpens ==
  ASSUME Types, Agree, NEW r, TakesData(r, Crypt), link = "up"
  PROVE  Handles(r, Heard) /\ broken' = broken
<1>1. Opens(r, Crypt)
  <2>1. encrypted \in BOOLEAN /\ peer.enc \in BOOLEAN
    BY DEF Types, MapperTypes, PeerTypes, PeerType
  <2> QED
    BY <2>1 DEF Opens, Crypt, Agree, EncryptsWith
<1> QED
  BY <1>1 DEF TakesData, Heard

\* A packet that is sent when both agree can be opened.
LEMMA AgreeSeals ==
  ASSUME Types, Agree, NEW s \in PeerType, NEW kind, NEW n,
         s.enc = peer.enc, s.key = peer.key, s.iv = peer.iv, s.tx = peer.tx,
         ul' = Append(ul, ble_phy_tx(s, kind, n)),
         UNCHANGED <<encrypted, conn_session_key, conn_iv, enc_rx_pkt_count>>
  PROVE  /\ Len(ul') = 1 /\ ul'[1].kind = kind /\ ul'[1].n = n
         /\ ul'[1].enc = Seal(conn_iv, enc_rx_pkt_count)'
<1> DEFINE p == ble_phy_tx(s, kind, n)
<1>1. ul' = <<p>>
  BY DEF Agree
<1>2. (IF s.enc THEN <<s.key, s.iv, s.tx>> ELSE Plain) = Seal(conn_iv, enc_rx_pkt_count)'
  BY DEF Agree, EncryptsWith, Seal
<1>3. p.kind = kind /\ p.n = n /\ p.enc = IF s.enc THEN <<s.key, s.iv, s.tx>> ELSE Plain
  BY DEF ble_phy_tx
<1> HIDE DEF p
<1>4. Len(ul') = 1 /\ ul'[1] = p
  BY <1>1
<1> QED
  BY <1>2, <1>3, <1>4

\* An answer in one packet that says nothing of the encryption.
LEMMA AnswerInSync ==
  ASSUME Types, Agree, NEW s \in PeerType, NEW kind, NEW n, Sends(s, kind, n),
         s.enc = peer.enc, s.key = peer.key, s.iv = peer.iv, s.tx = peer.tx,
         s.rx = Heard.rx,
         kind \notin AdvPackets \union {"ENC_RSP", "START_ENC_REQ", "PAUSE_ENC_RSP"},
         UNCHANGED <<encrypted, conn_session_key, conn_iv, enc_rx_pkt_count>>,
         enc_tx_pkt_count' = IF encrypted THEN enc_tx_pkt_count + 1 ELSE enc_tx_pkt_count,
         ~found',
         s.stage # "none" =>
           (IF kind = "PAIRING_RSP" THEN n ELSE server') = s.pairing,
         s.ltk # 0 =>
           (IF kind = "SM_RANDOM" /\ server' = n THEN n ELSE conn_ltk') = s.ltk
  PROVE  InSync'
<1>1. ul' = Append(ul, ble_phy_tx(s, kind, n)) /\ peer' = Counted(s)
  BY DEF Sends
<1>2. /\ Len(ul') = 1 /\ ul'[1].kind = kind /\ ul'[1].n = n
      /\ ul'[1].enc = Seal(conn_iv, enc_rx_pkt_count)'
  BY <1>1, AgreeSeals
<1>3. ~Paused'
  BY DEF Paused
<1>4. PairedWith(ServerAfter(ul[1]), LtkAfter(ul[1]))'
  BY <1>1, <1>2, CountedFields DEF PairedWith, ServerAfter, LtkAfter
<1>5. EncryptsWith(EncryptedAfter(ul[1]), conn_session_key, conn_iv,
                   enc_tx_pkt_count, CountAfter)'
  <2>1. EncryptedAfter(ul[1])' = encrypted
    BY <1>2 DEF EncryptedAfter, Types, MapperTypes
  <2>2. /\ encrypted = peer.enc
        /\ encrypted => /\ conn_session_key = peer.key /\ conn_iv = peer.iv
                        /\ enc_tx_pkt_count = peer.rx /\ enc_rx_pkt_count = peer.tx
    BY DEF Agree, EncryptsWith
  <2>3. /\ peer'.enc = encrypted
        /\ encrypted => /\ peer'.key = conn_session_key /\ peer'.iv = conn_iv
                        /\ peer'.rx = enc_tx_pkt_count + 1 /\ peer'.tx = enc_rx_pkt_count + 1
    BY <1>1, <2>2, CountedFields, HeardFields
  <2>4. encrypted => CountAfter' = enc_rx_pkt_count + 1
    BY DEF CountAfter
  <2> QED
    BY <2>1, <2>3, <2>4 DEF EncryptsWith
<1> QED
  BY <1>2, <1>3, <1>4, <1>5 DEF InSync

LEMMA SilenceInSync ==
  ASSUME Types, Agree, peer' = Heard, ul' = ul,
         UNCHANGED <<encrypted, conn_session_key, conn_iv, enc_rx_pkt_count, server, conn_ltk>>,
         enc_tx_pkt_count' = IF encrypted THEN enc_tx_pkt_count + 1 ELSE enc_tx_pkt_count,
         ~found'
  PROVE  InSync'
<1>1. PairedWith(server, conn_ltk)'
  BY HeardFields DEF Agree, PairedWith
<1>2. EncryptsWith(encrypted /\ ~Paused, conn_session_key, conn_iv,
                   enc_tx_pkt_count, enc_rx_pkt_count)'
  BY HeardFields DEF Agree, EncryptsWith, Paused, Types, MapperTypes, PeerTypes, PeerType
<1> QED
  BY <1>1, <1>2 DEF InSync, Agree

LEMMA RequestInSync ==
  ASSUME Types, Agree, link = "up", link' = "up", NEW r \in DataRequests \ {"ENC_REQ"},
         Request(r)
  PROVE  InSync'
<1>1. /\ TakesData(r, Crypt) /\ req' = r /\ ~found'
      /\ enc_tx_pkt_count' = IF encrypted THEN enc_tx_pkt_count + 1 ELSE enc_tx_pkt_count
      /\ UNCHANGED <<encrypted, conn_session_key, conn_iv, enc_rx_pkt_count, conn_ltk>>
      /\ server' = IF r = "PAIRING_REQ" THEN 0 ELSE server
  BY DEF Request, send, DataRequests, AdvRequests, sm_pairing_req_pre
<1>2. Handles(r, Heard)
  BY <1>1, AgreeOpens
<1>h. /\ Heard \in PeerType
      /\ Heard.enc = peer.enc /\ Heard.key = peer.key /\ Heard.iv = peer.iv
      /\ Heard.tx = peer.tx /\ Heard.ltk = peer.ltk
      /\ Heard.pairing = peer.pairing /\ Heard.stage = peer.stage
      /\ Heard.rx = IF encrypted THEN peer.rx + 1 ELSE peer.rx
  BY HeardFields
<1>p. PairedWith(server, conn_ltk)
  BY DEF Agree
<1> USE DEF AdvPackets
<1>3. CASE r = "REQ" /\ Sends(Heard, "RSP", 0)
  BY <1>1, <1>3, <1>h, <1>p, AnswerInSync DEF PairedWith
<1>4. CASE r = "START_ENC_RSP" /\ Sends(Heard, "START_ENC_RSP", 0)
  BY <1>1, <1>4, <1>h, <1>p, AnswerInSync DEF PairedWith
<1>5. CASE /\ r = "PAUSE_ENC_REQ" /\ peer' = PausedPeer(Heard)
           /\ ul' = Append(ul, ble_phy_tx(Heard, "PAUSE_ENC_RSP", 0))
  <2>1. /\ Len(ul') = 1 /\ ul'[1].kind = "PAUSE_ENC_RSP"
        /\ ul'[1].enc = Seal(conn_iv, enc_rx_pkt_count)'
    BY <1>1, <1>5, <1>h, AgreeSeals
  <2>2. /\ peer'.enc = FALSE /\ peer'.ltk = peer.ltk /\ peer'.pairing = peer.pairing
        /\ peer'.stage = peer.stage
    BY <1>5, <1>h DEF PausedPeer, Fresh
  <2>3. ~Paused'
    BY <1>1 DEF Paused
  <2>4. PairedWith(ServerAfter(ul[1]), LtkAfter(ul[1]))'
    BY <1>1, <1>5, <1>p, <2>1, <2>2 DEF PairedWith, ServerAfter, LtkAfter
  <2>5. EncryptsWith(EncryptedAfter(ul[1]), conn_session_key, conn_iv,
                     enc_tx_pkt_count, CountAfter)'
    BY <2>1, <2>2 DEF EncryptsWith, EncryptedAfter
  <2> QED
    BY <1>1, <1>5, <2>1, <2>3, <2>4, <2>5 DEF InSync
<1>6. CASE HandlesSm(r, Heard)
  <2>1. ASSUME NEW n \in Pairings, r = "PAIRING_REQ",
               Sends([Heard EXCEPT !.pairing = n, !.stage = "feature", !.ltk = 0],
                     "PAIRING_RSP", n)
        PROVE  InSync'
    <3> DEFINE s == [Heard EXCEPT !.pairing = n, !.stage = "feature", !.ltk = 0]
    <3>1. /\ s \in PeerType /\ s.enc = Heard.enc /\ s.key = Heard.key /\ s.iv = Heard.iv
          /\ s.tx = Heard.tx /\ s.rx = Heard.rx /\ s.pairing = n /\ s.ltk = 0
      BY <1>h DEF PeerType, PairingType
    <3> HIDE DEF s
    <3>2. Sends(s, "PAIRING_RSP", n)
      BY <2>1 DEF s
    <3> QED
      BY <1>1, <1>h, <3>1, <3>2, AnswerInSync
  <2>2. CASE /\ r = "SM_CONFIRM" /\ Heard.stage = "feature"
             /\ Sends([Heard EXCEPT !.stage = IF confirm = Heard.pairing THEN "confirm" ELSE "none"],
                      "SM_CONFIRM", Heard.pairing)
    <3> DEFINE s == [Heard EXCEPT !.stage = IF confirm = Heard.pairing THEN "confirm" ELSE "none"]
    <3>1. /\ s \in PeerType /\ s.enc = Heard.enc /\ s.key = Heard.key /\ s.iv = Heard.iv
          /\ s.tx = Heard.tx /\ s.rx = Heard.rx /\ s.pairing = Heard.pairing /\ s.ltk = Heard.ltk
      BY <1>h DEF PeerType
    <3> HIDE DEF s
    <3>2. Sends(s, "SM_CONFIRM", Heard.pairing)
      BY <2>2 DEF s
    <3> QED
      BY <1>1, <1>h, <1>p, <2>2, <3>1, <3>2, AnswerInSync DEF PairedWith
  <2>3. CASE /\ r = "SM_RANDOM" /\ Heard.stage = "confirm"
             /\ Sends([Heard EXCEPT !.stage = "none", !.ltk = Heard.pairing],
                      "SM_RANDOM", Heard.pairing)
    <3> DEFINE s == [Heard EXCEPT !.stage = "none", !.ltk = Heard.pairing]
    <3>1. /\ s \in PeerType /\ s.enc = Heard.enc /\ s.key = Heard.key /\ s.iv = Heard.iv
          /\ s.tx = Heard.tx /\ s.rx = Heard.rx /\ s.stage = "none" /\ s.ltk = Heard.pairing
      BY <1>h DEF PeerType
    <3> HIDE DEF s
    <3>2. Sends(s, "SM_RANDOM", Heard.pairing)
      BY <2>3 DEF s
    <3> QED
      BY <1>1, <1>h, <1>p, <2>3, <3>1, <3>2, AnswerInSync DEF PairedWith
  <2>4. CASE Sends([Heard EXCEPT !.stage = "none"], "SM_FAILED", 0)
    <3> DEFINE s == [Heard EXCEPT !.stage = "none"]
    <3>1. /\ s \in PeerType /\ s.enc = Heard.enc /\ s.key = Heard.key /\ s.iv = Heard.iv
          /\ s.tx = Heard.tx /\ s.rx = Heard.rx /\ s.stage = "none" /\ s.ltk = Heard.ltk
      BY <1>h DEF PeerType
    <3> HIDE DEF s
    <3>2. Sends(s, "SM_FAILED", 0)
      BY <2>4 DEF s
    <3> QED
      BY <1>1, <1>h, <1>p, <3>1, <3>2, AnswerInSync DEF PairedWith
  <2> QED
    BY <1>6, <2>1, <2>2, <2>3, <2>4 DEF HandlesSm
<1>7. CASE r # "PAIRING_REQ" /\ peer' = Heard /\ ul' = ul
  BY <1>1, <1>7, SilenceInSync
<1>8. CASE Disconnected
  BY <1>8 DEF Disconnected
<1> QED
  BY <1>2, <1>3, <1>4, <1>5, <1>6, <1>7, <1>8 DEF Handles, PausedPeer

\* The answer to LL_ENC_REQ in two packets, each sealed with what the mapper
\* will have by then.
LEMMA EncAnswersInSync ==
  ASSUME Types, Agree, NEW n \in Nonces, NEW on \in BOOLEAN,
         NEW last \in {"START_ENC_REQ", "REJECT_IND"},
         EncRsp(Heard, n, last, on),
         on => last = "START_ENC_REQ" /\ Heard.ltk # 0,
         ~on => last = "REJECT_IND" /\ ~encrypted,
         pc' = "enc_req", enc_tx_pkt_count' = 0, enc_rx_pkt_count' = 0,
         UNCHANGED <<encrypted, conn_session_key, conn_iv, server, conn_ltk>>
  PROVE  InSync'
<1> DEFINE q1 == [Heard EXCEPT !.tx = 0, !.rx = 0]
           c  == Counted(q1)
           q2 == [c EXCEPT !.iv = n,
                    !.key = IF Heard.enc THEN @ ELSE bt_crypto_e(Heard.ltk, n)]
           p1 == ble_phy_tx(q1, "ENC_RSP", n)
           p2 == ble_phy_tx(q2, last, 0)
<1>a. /\ encrypted = peer.enc /\ encrypted \in BOOLEAN
      /\ encrypted => conn_session_key = peer.key /\ conn_iv = peer.iv
      /\ PairedWith(server, conn_ltk) /\ ul = <<>>
  BY DEF Agree, EncryptsWith, Types, MapperTypes
<1>h. /\ Heard \in PeerType
      /\ Heard.enc = peer.enc /\ Heard.key = peer.key /\ Heard.iv = peer.iv
      /\ Heard.ltk = peer.ltk
      /\ Heard.pairing = peer.pairing /\ Heard.stage = peer.stage
  BY HeardFields
<1>1. /\ q1 \in PeerType /\ q1.enc = Heard.enc /\ q1.key = Heard.key /\ q1.iv = Heard.iv
      /\ q1.tx = 0 /\ q1.rx = 0 /\ q1.ltk = Heard.ltk
      /\ q1.pairing = Heard.pairing /\ q1.stage = Heard.stage
  BY <1>h DEF PeerType
<1>2. /\ c \in PeerType /\ c.enc = Heard.enc /\ c.key = Heard.key
      /\ c.tx = (IF Heard.enc THEN 1 ELSE 0) /\ c.rx = 0 /\ c.ltk = Heard.ltk
      /\ c.pairing = Heard.pairing /\ c.stage = Heard.stage
  <2> HIDE DEF q1
  <2>1. c.tx = IF q1.enc THEN q1.tx + 1 ELSE q1.tx
    BY <1>1, CountedFields
  <2>2. /\ c \in PeerType /\ c.enc = q1.enc /\ c.key = q1.key /\ c.rx = q1.rx /\ c.ltk = q1.ltk
        /\ c.pairing = q1.pairing /\ c.stage = q1.stage
    BY <1>1, CountedFields
  <2> HIDE DEF c
  <2> QED
    BY <1>1, <2>1, <2>2
<1>3. bt_crypto_e(Heard.ltk, n) \in KeyType /\ n \in NonceType
  BY <1>h DEF bt_crypto_e, KeyType, PeerType, NonceType
<1> HIDE DEF q1, c
<1>4. /\ q2 \in PeerType /\ q2.enc = Heard.enc /\ q2.iv = n
      /\ q2.key = (IF Heard.enc THEN Heard.key ELSE bt_crypto_e(Heard.ltk, n))
      /\ q2.tx = (IF Heard.enc THEN 1 ELSE 0) /\ q2.rx = 0 /\ q2.ltk = Heard.ltk
      /\ q2.pairing = Heard.pairing /\ q2.stage = Heard.stage
  BY <1>2, <1>3 DEF PeerType
<1>5. /\ p1.kind = "ENC_RSP" /\ p1.n = n
      /\ p1.enc = IF encrypted THEN <<conn_session_key, conn_iv, 0>> ELSE Plain
  <2>1. /\ p1.kind = "ENC_RSP" /\ p1.n = n
        /\ p1.enc = IF q1.enc THEN <<q1.key, q1.iv, q1.tx>> ELSE Plain
    BY DEF ble_phy_tx
  <2> QED
    BY <1>1, <1>a, <1>h, <2>1
<1>6. /\ p2.kind = last
      /\ p2.enc = IF encrypted THEN <<conn_session_key, n, 1>> ELSE Plain
  <2>1. p2.kind = last /\ p2.enc = IF q2.enc THEN <<q2.key, q2.iv, q2.tx>> ELSE Plain
    BY DEF ble_phy_tx
  <2> QED
    BY <1>4, <1>a, <1>h, <2>1
<1>7. ul' = ul \o <<p1, p2>> /\ peer' = [Counted(q2) EXCEPT !.enc = on]
  BY DEF EncRsp, c, q1
<1> HIDE DEF q2, p1, p2
<1>8. /\ Counted(q2) \in PeerType
      /\ Counted(q2).key = q2.key /\ Counted(q2).iv = n /\ Counted(q2).rx = 0
      /\ Counted(q2).tx = (IF Heard.enc THEN 2 ELSE 0)
      /\ Counted(q2).ltk = Heard.ltk
      /\ Counted(q2).pairing = Heard.pairing /\ Counted(q2).stage = Heard.stage
  <2>1. Counted(q2).tx = IF q2.enc THEN q2.tx + 1 ELSE q2.tx
    BY <1>4, CountedFields
  <2>2. /\ Counted(q2) \in PeerType /\ Counted(q2).key = q2.key /\ Counted(q2).iv = q2.iv
        /\ Counted(q2).rx = q2.rx /\ Counted(q2).ltk = q2.ltk
        /\ Counted(q2).pairing = q2.pairing /\ Counted(q2).stage = q2.stage
    BY <1>4, CountedFields
  <2> QED
    BY <1>4, <2>1, <2>2
<1>9. Len(ul') = 2 /\ ul'[1] = p1 /\ ul'[2] = p2
  <2>1. ul' = <<p1, p2>>
    BY <1>7, <1>a
  <2> QED
    BY <2>1
<1>10. /\ peer'.enc = on /\ peer'.iv = n /\ peer'.rx = 0
       /\ peer'.key = (IF encrypted THEN conn_session_key ELSE bt_crypto_e(peer.ltk, n))
       /\ peer'.tx = (IF encrypted THEN 2 ELSE 0)
       /\ peer'.ltk = peer.ltk /\ peer'.pairing = peer.pairing /\ peer'.stage = peer.stage
  <2> DEFINE d == Counted(q2)
  <2>1. peer' = [d EXCEPT !.enc = on] /\ d \in PeerType
    BY <1>7, <1>8
  <2> HIDE DEF d
  <2>2. /\ peer'.enc = on /\ peer'.iv = d.iv /\ peer'.rx = d.rx /\ peer'.key = d.key
        /\ peer'.tx = d.tx /\ peer'.ltk = d.ltk /\ peer'.pairing = d.pairing
        /\ peer'.stage = d.stage
    BY <2>1 DEF PeerType
  <2> QED
    BY <1>4, <1>8, <1>a, <1>h, <2>2 DEF d
<1>11. EncAnswers'
  BY <1>5, <1>6, <1>9 DEF EncAnswers, Seal
<1>12. PairedWith(server, conn_ltk)'
  BY <1>10, <1>a DEF PairedWith
<1>13. EncryptsWith(ul[2].kind = "START_ENC_REQ",
                    IF encrypted THEN conn_session_key ELSE bt_crypto_e(conn_ltk, ul[1].n),
                    ul[1].n, 0, IF encrypted THEN 2 ELSE 0)'
  <2>1. on => conn_ltk = peer.ltk
    BY <1>a, <1>h DEF PairedWith
  <2>2. on <=> last = "START_ENC_REQ"
    OBVIOUS
  <2> QED
    BY <1>5, <1>6, <1>9, <1>10, <2>1, <2>2 DEF EncryptsWith
<1> QED
  BY <1>6, <1>9, <1>11, <1>12, <1>13 DEF InSync

\* Whoever restarts an encryption that the peripheral will not restart has
\* forgotten how many packets it has sent.
LEMMA EncRequestInSync ==
  ASSUME Types, Agree, link = "up", link' = "up", ll_ctrl_enc_req
  PROVE  InSync' \/ Doomed'
<1>1. /\ TakesData("ENC_REQ", Crypt) /\ req' = "ENC_REQ" /\ pc' = "enc_req" /\ ~found'
      /\ enc_tx_pkt_count' = 0 /\ enc_rx_pkt_count' = 0
      /\ UNCHANGED <<encrypted, conn_session_key, conn_iv, conn_ltk, server>>
  BY DEF ll_ctrl_enc_req, smp_vars
<1>2. Handles("ENC_REQ", Heard)
  BY <1>1, AgreeOpens
<1>h. /\ Heard \in PeerType
      /\ Heard.enc = peer.enc /\ Heard.ltk = peer.ltk
      /\ Heard.pairing = peer.pairing /\ Heard.stage = peer.stage
      /\ Heard.rx = IF encrypted THEN peer.rx + 1 ELSE peer.rx
  BY HeardFields
<1>a. /\ encrypted = peer.enc /\ encrypted \in BOOLEAN /\ peer.rx \in Nat
      /\ PairedWith(server, conn_ltk) /\ ul = <<>>
  BY DEF Agree, EncryptsWith, Types, MapperTypes, PeerTypes, PeerType
<1>3. ASSUME NEW n \in Nonces, Heard.ltk # 0, EncRsp(Heard, n, "START_ENC_REQ", TRUE)
      PROVE  InSync'
  BY <1>1, <1>3, EncAnswersInSync
<1>4. ASSUME NEW n \in Nonces, ~Heard.enc, EncRsp(Heard, n, "REJECT_IND", FALSE)
      PROVE  InSync'
  BY <1>1, <1>4, <1>a, <1>h, EncAnswersInSync
<1>5. CASE Sends(Heard, "REJECT_IND", 0) /\ refused' = (refused \/ Heard.enc)
  <2> DEFINE p == ble_phy_tx(Heard, "REJECT_IND", 0)
  <2>1. p.kind = "REJECT_IND" /\ (p.enc = Plain <=> ~encrypted)
    <3>1. p.kind = "REJECT_IND"
          /\ p.enc = IF Heard.enc THEN <<Heard.key, Heard.iv, Heard.tx>> ELSE Plain
      BY DEF ble_phy_tx
    <3> QED
      BY <1>a, <1>h, <3>1, SealedIsNotPlain
  <2>2. ul' = <<p>> /\ peer' = Counted(Heard)
    BY <1>5, <1>a DEF Sends
  <2> HIDE DEF p
  <2>3. Len(ul') = 1 /\ ul'[1] = p
    BY <2>2
  <2>4. /\ peer'.enc = encrypted /\ peer'.ltk = peer.ltk /\ peer'.pairing = peer.pairing
        /\ peer'.stage = peer.stage /\ peer'.rx = Heard.rx
    BY <1>a, <1>h, <2>2, CountedFields
  <2>5. CASE encrypted
    <3>1. enc_tx_pkt_count' < peer'.rx
      BY <1>1, <1>a, <1>h, <2>4, <2>5
    <3> QED
      BY <1>1, <1>5, <1>a, <1>h, <2>1, <2>3, <2>4, <2>5, <3>1 DEF Doomed
  <2>6. CASE ~encrypted
    <3>1. PairedWith(ServerAfter(ul[1]), LtkAfter(ul[1]))'
      BY <1>1, <1>a, <2>1, <2>3, <2>4 DEF PairedWith, ServerAfter, LtkAfter
    <3>2. ul'[1].enc = Seal(conn_iv, enc_rx_pkt_count)' /\ ~EncryptedAfter(ul[1])' /\ ~peer'.enc
      BY <1>1, <2>1, <2>3, <2>4, <2>6 DEF Seal, EncryptedAfter
    <3>3. EncryptsWith(EncryptedAfter(ul[1]), conn_session_key, conn_iv,
                       enc_tx_pkt_count, CountAfter)'
      <4>1. EncryptedAfter(ul[1])' = FALSE /\ peer'.enc = FALSE
        BY <1>1, <1>a, <2>1, <2>3, <2>4, <2>6 DEF EncryptedAfter
      <4> QED
        BY <4>1 DEF EncryptsWith
    <3> QED
      BY <1>1, <2>1, <2>3, <3>1, <3>2, <3>3 DEF InSync, Paused, AdvPackets
  <2> QED
    BY <1>a, <2>5, <2>6
<1>6. CASE peer' = Heard /\ refused' = (refused \/ Heard.enc) /\ ul' = ul
  <2>1. CASE encrypted
    <3>1. enc_tx_pkt_count' < peer'.rx
      BY <1>1, <1>6, <1>a, <1>h, <2>1
    <3> QED
      BY <1>1, <1>6, <1>a, <1>h, <2>1, <3>1 DEF Doomed
  <2>2. CASE ~encrypted
    <3>1. PairedWith(server, conn_ltk)'
      BY <1>1, <1>6, <1>a, <1>h DEF PairedWith
    <3>2. EncryptsWith(encrypted /\ ~Paused, conn_session_key, conn_iv,
                       enc_tx_pkt_count, enc_rx_pkt_count)'
      BY <1>1, <1>6, <1>a, <1>h, <2>2 DEF EncryptsWith
    <3> QED
      BY <1>6, <1>a, <3>1, <3>2 DEF InSync
  <2> QED
    BY <1>a, <2>1, <2>2
<1> QED
  BY <1>2, <1>3, <1>4, <1>5, <1>6 DEF Handles, HandlesEncReq, HandlesSm

\* The peripheral ends a connection in which it has counted more than was sent.
LEMMA DoomedEnds ==
  ASSUME Types, Doomed, link = "up", NEW r \in DataRequests, TakesData(r, Crypt)
  PROVE  Disconnected /\ refused
<1>1. ~Opens(r, Crypt) /\ peer.enc /\ refused
  <2>1. /\ refused /\ encrypted /\ peer.enc /\ enc_tx_pkt_count < peer.rx
        /\ enc_tx_pkt_count \in Nat /\ peer.rx \in Nat
    BY DEF Doomed, Types, MapperTypes, PeerTypes, PeerType
  <2>2. enc_tx_pkt_count # peer.rx
    BY <2>1
  <2>3. Crypt = <<conn_session_key, conn_iv, enc_tx_pkt_count>> /\ Crypt # Plain
    BY <2>1, SealedIsNotPlain DEF Crypt
  <2>4. Crypt # <<peer.key, peer.iv, peer.rx>>
    BY <2>2, <2>3
  <2> QED
    BY <2>1, <2>3, <2>4 DEF Opens
<1> QED
  BY <1>1 DEF TakesData

\* The mapper can read what is on its way from a peripheral that agrees.
LEMMA InSyncOpens ==
  ASSUME Types, InSync, HasPacket
  PROVE  Decrypted(Head(ul))
<1>1. /\ ul \in Seq(Packet) /\ ul # <<>> /\ Head(ul) = ul[1] /\ Len(ul) >= 1
      /\ Head(ul) \in Packet /\ encrypted \in BOOLEAN
  BY PacketSequences DEF Types, MapperTypes, HasPacket
<1> DEFINE p == Head(ul)
<1>2. p.kind \notin AdvPackets => p.enc = Seal(conn_iv, enc_rx_pkt_count)
  BY <1>1, AllInSequences DEF InSync, EncAnswers, AdvPackets
<1>3. CASE p.kind \in AdvPackets
  BY <1>1, <1>3 DEF Packet, Decrypted, Decrypts, StillEncrypted
<1>4. CASE p.kind \notin AdvPackets /\ encrypted
  <2>1. p.enc = <<conn_session_key, conn_iv, enc_rx_pkt_count>> /\ p.enc # Plain
    BY <1>2, <1>4, SealedIsNotPlain DEF Seal
  <2> QED
    BY <1>4, <2>1 DEF Decrypted, Decrypts, StillEncrypted
<1>5. CASE p.kind \notin AdvPackets /\ ~encrypted
  BY <1>2, <1>5 DEF Seal, Decrypted, Decrypts, StillEncrypted
<1> QED
  BY <1>1, <1>3, <1>4, <1>5

\* A packet of one, or the second of two.
LEMMA ReceiveOneInSync ==
  ASSUME Types, PlaceInv, ReceivePacket, Len(ul) = 1, ~Paused,
         ul[1].kind \notin AdvPackets \union {"ENC_RSP"},
         ul[1].enc = Seal(conn_iv, enc_rx_pkt_count),
         ul[1].kind = "START_ENC_REQ" => pc = "enc_req",
         ul[1].kind = "PAUSE_ENC_RSP" => req = "PAUSE_ENC_REQ",
         PairedWith(ServerAfter(ul[1]), LtkAfter(ul[1])),
         EncryptsWith(EncryptedAfter(ul[1]), conn_session_key, conn_iv,
                      enc_tx_pkt_count, CountAfter)
  PROVE  InSync'
<1> DEFINE p == Head(ul)
<1>1. /\ ul \in Seq(Packet) /\ p = ul[1] /\ p \in Packet
      /\ encrypted \in BOOLEAN /\ found \in BOOLEAN
  BY PacketSequences DEF Types, MapperTypes, ReceivePacket, HasPacket
<1>2. ul' = <<>>
  BY <1>1 DEF ReceivePacket
<1> HIDE DEF p
<1>3. /\ UNCHANGED <<pc, req, conn_iv, conn_session_key, enc_tx_pkt_count, peer>>
      /\ CountsRx(p) /\ found' = (found \/ Awaited(p)) /\ smp_process(p)
      /\ encrypted' = (StillEncrypted(p) \/ (pc = "enc_req" /\ p.kind = "START_ENC_REQ"))
  BY <1>1 DEF ReceivePacket, peer_vars, p
<1>4. (Decrypts(p) <=> encrypted) /\ (StillEncrypted(p) <=> encrypted)
  BY <1>1, SealedIsNotPlain DEF Decrypts, StillEncrypted, Seal
<1>5. enc_rx_pkt_count' = CountAfter
  BY <1>3, <1>4 DEF CountsRx, CountAfter
<1>6. server' = ServerAfter(p) /\ conn_ltk' = LtkAfter(p)
  BY <1>3 DEF smp_process, ServerAfter, LtkAfter
<1>7. Paused' <=> p.kind = "PAUSE_ENC_RSP"
  <2>1. Awaited(p) <=> req = "PAUSE_ENC_REQ" /\ p.kind = "PAUSE_ENC_RSP"
    BY <1>1 DEF Awaited, AdvPackets
  <2> QED
    BY <1>1, <1>3, <2>1 DEF Paused
<1>8. (encrypted /\ ~Paused)' = EncryptedAfter(p)
  BY <1>1, <1>3, <1>4, <1>7 DEF EncryptedAfter
<1>9. PairedWith(server, conn_ltk)'
  BY <1>1, <1>3, <1>6 DEF PairedWith
<1>10. EncryptsWith(encrypted /\ ~Paused, conn_session_key, conn_iv,
                    enc_tx_pkt_count, enc_rx_pkt_count)'
  <2>1. /\ EncryptedAfter(p) = peer.enc
        /\ peer.enc => /\ conn_session_key = peer.key /\ conn_iv = peer.iv
                       /\ enc_tx_pkt_count = peer.rx /\ CountAfter = peer.tx
    BY <1>1 DEF EncryptsWith
  <2> QED
    BY <1>3, <1>5, <1>8, <2>1 DEF EncryptsWith
<1> QED
  BY <1>2, <1>9, <1>10 DEF InSync

\* The first of two: what the mapper computes from it opens the second.
LEMMA ReceiveEncRspInSync ==
  ASSUME Types, PlaceInv, ReceivePacket,
         Len(ul) = 2, pc = "enc_req", EncAnswers,
         enc_tx_pkt_count = 0, enc_rx_pkt_count = 0,
         ul[2].kind # "START_ENC_REQ" => ~encrypted,
         PairedWith(server, conn_ltk),
         EncryptsWith(ul[2].kind = "START_ENC_REQ",
                      IF encrypted THEN conn_session_key ELSE bt_crypto_e(conn_ltk, ul[1].n),
                      ul[1].n, 0, IF encrypted THEN 2 ELSE 0)
  PROVE  InSync'
<1> DEFINE p == ul[1]
           q == ul[2]
<1>1. /\ ul \in Seq(Packet) /\ Head(ul) = p /\ encrypted \in BOOLEAN
      /\ Len(ul') = 1 /\ ul'[1] = q
  <2>1. ul \in Seq(Packet) /\ ul # <<>> /\ ul' = Tail(ul) /\ encrypted \in BOOLEAN
    BY DEF Types, MapperTypes, ReceivePacket, HasPacket
  <2>2. /\ Head(ul) = p /\ Len(Tail(ul)) = Len(ul) - 1
        /\ \A k \in 1 .. Len(ul) - 1 : Tail(ul)[k] = ul[k + 1]
    BY <2>1, PacketSequences
  <2>3. 1 \in 1 .. Len(ul) - 1 /\ 1 + 1 = 2 /\ Len(ul) - 1 = 1
    OBVIOUS
  <2> QED
    BY <2>1, <2>2, <2>3
<1>2. /\ p.kind = "ENC_RSP" /\ q.kind \in {"START_ENC_REQ", "REJECT_IND"}
      /\ p.enc = Seal(conn_iv, 0) /\ q.enc = Seal(p.n, 1)
      /\ q.kind # "START_ENC_REQ" => ~encrypted
  BY DEF EncAnswers
<1>3. /\ q.kind = "START_ENC_REQ" <=> peer.enc
      /\ peer.enc => /\ (IF encrypted THEN conn_session_key ELSE bt_crypto_e(conn_ltk, p.n)) = peer.key
                     /\ p.n = peer.iv /\ peer.rx = 0
                     /\ peer.tx = IF encrypted THEN 2 ELSE 0
  BY DEF EncryptsWith, Types, PeerTypes, PeerType
<1> HIDE DEF p, q
<1>4. (Decrypts(p) <=> encrypted) /\ (StillEncrypted(p) <=> encrypted)
  BY <1>1, <1>2, SealedIsNotPlain DEF Decrypts, StillEncrypted, Seal, AdvPackets
<1>5. /\ UNCHANGED <<pc, req, enc_tx_pkt_count, peer>>
      /\ CountsRx(p) /\ smp_process(p) /\ TakesEncRsp(p, StillEncrypted(p))
  BY <1>1, <1>2 DEF ReceivePacket, peer_vars
<1>6. /\ conn_iv' = p.n /\ encrypted' = encrypted
      /\ conn_session_key' = IF encrypted THEN conn_session_key ELSE bt_crypto_e(conn_ltk, p.n)
      /\ enc_rx_pkt_count' = IF encrypted THEN 1 ELSE 0
  BY <1>1, <1>4, <1>5 DEF TakesEncRsp, CountsRx, StillEncrypted
<1>7. server' = server /\ conn_ltk' = conn_ltk
  BY <1>2, <1>5 DEF smp_process
<1>8. q.enc = Seal(conn_iv, enc_rx_pkt_count)'
  BY <1>1, <1>2, <1>6 DEF Seal
<1>9. ~Paused'
  BY <1>5 DEF Paused, PlaceInv, MapperPlace
<1>10. PairedWith(ServerAfter(ul[1]), LtkAfter(ul[1]))'
  BY <1>1, <1>2, <1>5, <1>7 DEF PairedWith, ServerAfter, LtkAfter
<1>11. EncryptsWith(EncryptedAfter(ul[1]), conn_session_key, conn_iv,
                    enc_tx_pkt_count, CountAfter)'
  <2>1. EncryptedAfter(ul[1])' = peer.enc
    BY <1>1, <1>2, <1>3, <1>6 DEF EncryptedAfter, Types, PeerTypes, PeerType
  <2>2. CountAfter' = IF encrypted THEN 2 ELSE 0
    BY <1>1, <1>6 DEF CountAfter
  <2> QED
    BY <1>3, <1>5, <1>6, <2>1, <2>2 DEF EncryptsWith
<1> QED
  BY <1>1, <1>2, <1>5, <1>8, <1>9, <1>10, <1>11 DEF InSync, AdvPackets

LEMMA ReceiveInSync ==
  ASSUME Types, PlaceInv, ReceivePacket, InSync \/ Doomed
  PROVE  InSync' \/ Doomed'
<1> DEFINE p == Head(ul)
<1>1. /\ ul \in Seq(Packet) /\ ul # <<>> /\ Tail(ul) \in Seq(Packet) /\ p = ul[1] /\ p \in Packet
      /\ encrypted \in BOOLEAN
  BY PacketSequences DEF Types, MapperTypes, ReceivePacket, HasPacket
<1>2. /\ UNCHANGED <<pc, req, enc_tx_pkt_count, peer, refused>> /\ smp_process(p)
      /\ ul' = Tail(ul)
      /\ p.kind # "ENC_RSP" =>
           encrypted' = (StillEncrypted(p) \/ (pc = "enc_req" /\ p.kind = "START_ENC_REQ"))
  BY DEF ReceivePacket, peer_vars, flags
<1>3. CASE AllIn(ul, AdvPackets) /\ peer = Fresh
  <2>1. p.kind \in AdvPackets /\ AllIn(ul', AdvPackets)
    BY <1>1, <1>2, <1>3, AllInSequences
  <2>2. ~encrypted'
    BY <1>2, <2>1 DEF StillEncrypted, AdvPackets
  <2>3. CASE ul' = <<>>
    <3>1. PairedWith(server, conn_ltk)'
      BY <1>2, <1>3 DEF PairedWith, Fresh
    <3>2. EncryptsWith(encrypted /\ ~Paused, conn_session_key, conn_iv,
                       enc_tx_pkt_count, enc_rx_pkt_count)'
      BY <1>2, <1>3, <2>2 DEF EncryptsWith, Fresh
    <3> QED
      BY <2>3, <3>1, <3>2 DEF InSync
  <2>4. CASE ul' # <<>>
    BY <1>2, <1>3, <2>1, <2>4 DEF InSync
  <2> QED
    BY <2>3, <2>4
<1>4. CASE InSync /\ Len(ul) = 1 /\ ~AllIn(ul, AdvPackets)
  BY <1>1, <1>4, ReceiveOneInSync DEF InSync
<1>5. CASE InSync /\ Len(ul) # 1 /\ ~AllIn(ul, AdvPackets)
  BY <1>1, <1>5, ReceiveEncRspInSync DEF InSync
<1>6. CASE Doomed
  <2>1. /\ refused /\ encrypted /\ peer.enc /\ enc_tx_pkt_count < peer.rx
        /\ req # "PAUSE_ENC_REQ" /\ Len(ul) = 1 /\ p.kind = "REJECT_IND"
    BY <1>1, <1>6 DEF Doomed
  <2>2. encrypted'
    BY <1>2, <2>1 DEF StillEncrypted, AdvPackets
  <2>3. ul' = <<>>
    <3>1. Len(Tail(ul)) = 0
      BY <1>1, <2>1, PacketSequences
    <3> QED
      BY <1>1, <1>2, <3>1
  <2> QED
    BY <1>2, <2>1, <2>2, <2>3 DEF Doomed
<1>7. InSync => (AllIn(ul, AdvPackets) => peer = Fresh)
  <2>1. AllIn(ul, AdvPackets) => p.kind \in AdvPackets
    BY <1>1, AllInSequences
  <2> QED
    BY <1>1, <2>1 DEF InSync, EncAnswers, AdvPackets
<1> QED
  BY <1>3, <1>4, <1>5, <1>6, <1>7

LEMMA SyncStep ==
  ASSUME Types, PlaceInv, QuietInv, OnTheirWayInv, SyncInv, ConnectingInv, Next
  PROVE  SyncInv'
<1>0. SUFFICES ASSUME Quiet', Seen', link' = "up"
               PROVE  InSync' \/ Doomed'
  BY DEF SyncInv
<1>f. (Bridge' <=> Bridge) /\ (Seen' <=> Seen) /\ flavour' = flavour
  BY DEF Next, Requests, Receives, Resets, Peripheral, Request, AdvRequest, ll_ctrl_enc_req,
         SkipPacket, ReceivePacket, ReceiveBroken, ReceiveGarbage, EndReceive, reset_terminate,
         reset, ScanRequest, ScanAnswered, ScanFailed, reset_device, ScanExhausted, LinkEnds,
         DongleConnects, Lose, Bridge, Seen
<1>1. ~ScanAnswered
  BY <1>0, LinkEncryptionAssumption
     DEF ScanAnswered, Trouble, Quiet, Types, PeerTypes, peer_vars
<1>2. QuietInv' /\ Quiet /\ Seen
  BY <1>0, <1>1, <1>f, QuietStep
<1>3. /\ link = "up" => InSync \/ Doomed
      /\ LinkPlace /\ MapperPlace /\ OnTheirWay /\ ul \in Seq(Packet)
      /\ encrypted \in BOOLEAN
  BY <1>2 DEF SyncInv, PlaceInv, OnTheirWayInv, Types, MapperTypes
<1>4. ASSUME link = "up", pc \in {"ready", "length"}
      PROVE  /\ ul = <<>> /\ ~Paused
             /\ InSync => Agree
  <2>1. ul = <<>> /\ ~found
    BY <1>3, <1>4 DEF OnTheirWay, MapperPlace, Between, Receiving
  <2>2. InSync => PairedWith(server, conn_ltk) /\ EncryptsWith(encrypted /\ ~Paused,
                    conn_session_key, conn_iv, enc_tx_pkt_count, enc_rx_pkt_count)
    BY <2>1 DEF InSync
  <2>3. (encrypted /\ ~Paused) = encrypted
    BY <1>3, <2>1 DEF Paused
  <2> QED
    BY <2>1, <2>2, <2>3 DEF Agree, Paused
<1>5. ASSUME NEW r \in DataRequests, Request(r)
      PROVE  InSync' \/ Doomed'
  <2>1. TakesData(r, Crypt) /\ r # "ENC_REQ" /\ pc \in {"ready", "length"}
    BY <1>5 DEF Request, send, DataRequests, AdvRequests
  <2>2. link = "up" /\ ~Disconnected
    BY <1>0, <2>1, TakesDataCases DEF Disconnected
  <2>3. ~Doomed
    BY <2>1, <2>2, DoomedEnds
  <2> QED
    BY <1>0, <1>3, <1>4, <1>5, <2>1, <2>2, <2>3, RequestInSync
<1>6. CASE ll_ctrl_enc_req
  <2>1. TakesData("ENC_REQ", Crypt) /\ "ENC_REQ" \in DataRequests /\ pc = "ready"
    BY <1>6 DEF ll_ctrl_enc_req, DataRequests
  <2>2. link = "up" /\ ~Disconnected
    BY <1>0, <2>1, TakesDataCases DEF Disconnected
  <2>3. ~Doomed
    BY <2>1, <2>2, DoomedEnds
  <2> QED
    BY <1>0, <1>3, <1>4, <1>6, <2>1, <2>2, <2>3, EncRequestInSync
<1>7. ASSUME NEW r \in AdvRequests, AdvRequest(r)
      PROVE  InSync' \/ Doomed'
  <2>1. /\ TakesAdv(r) /\ pc = "ready" /\ req' = r /\ ~found'
        /\ encrypted' = (encrypted /\ (IF r = "SCAN_REQ" THEN Bridge ELSE flavour # "BLESUL"))
        /\ UNCHANGED <<enc_tx_pkt_count, enc_rx_pkt_count, conn_iv, conn_session_key,
                       server, conn_ltk, refused>>
    BY <1>7 DEF AdvRequest, send, ll_adv_scan_req_pre, ll_adv_connect_ind_pre, smp_vars, TakesAdv
  <2>2. CASE link = "up"
    <3>1. Bridge /\ peer' = peer /\ ul' = ul /\ encrypted' = encrypted
      BY <1>0, <1>3, <2>1, <2>2 DEF TakesAdv, LinkPlace, Bridge
    <3>2. r # "PAUSE_ENC_REQ" /\ ul = <<>>
      BY <1>4, <2>1, <2>2 DEF AdvRequests
    <3>3. CASE Doomed
      <4>1. UNCHANGED <<enc_tx_pkt_count, encrypted, peer, refused, ul>> /\ req' # "PAUSE_ENC_REQ"
        BY <2>1, <3>1, <3>2
      <4> QED
        BY <3>2, <3>3, <4>1 DEF Doomed
    <3>4. CASE Agree
      <4>1. PairedWith(server, conn_ltk)'
        BY <2>1, <3>1, <3>4 DEF Agree, PairedWith
      <4>2. EncryptsWith(encrypted /\ ~Paused, conn_session_key, conn_iv,
                         enc_tx_pkt_count, enc_rx_pkt_count)'
        <5>1. (encrypted /\ ~Paused)' = encrypted
          BY <1>3, <2>1, <3>1 DEF Paused
        <5> QED
          BY <2>1, <3>1, <3>4, <5>1 DEF Agree, EncryptsWith
      <4> QED
        BY <3>1, <3>2, <4>1, <4>2 DEF InSync
    <3> QED
      BY <1>3, <1>4, <2>1, <2>2, <3>3, <3>4
  <2>3. CASE link # "up"
    <3>1. peer' = Fresh /\ ul' = ul /\ Bridge /\ link = "none"
      BY <1>0, <1>3, <2>1, <2>3 DEF TakesAdv, Connects, LinkPlace
    <3>2. AllIn(ul, AdvPackets) /\ (HasAdv(ul) \/ ~encrypted)
      BY <1>3, <2>1, <3>1 DEF OnTheirWay, Between, Receiving
    <3>3. CASE ul = <<>>
      <4>1. ~HasAdv(ul)
        BY <3>3 DEF HasAdv
      <4>2. PairedWith(server, conn_ltk)'
        BY <3>1 DEF PairedWith, Fresh
      <4>3. EncryptsWith(encrypted /\ ~Paused, conn_session_key, conn_iv,
                         enc_tx_pkt_count, enc_rx_pkt_count)'
        BY <2>1, <3>1, <3>2, <4>1 DEF EncryptsWith, Fresh
      <4> QED
        BY <3>1, <3>3, <4>2, <4>3 DEF InSync
    <3>4. CASE ul # <<>>
      BY <3>1, <3>2, <3>4 DEF InSync
    <3> QED
      BY <3>3, <3>4
  <2> QED
    BY <2>2, <2>3
<1>8. CASE SkipPacket
  <2>1. ul # <<>> /\ ~is_target(Head(ul)) /\ AllIn(ul, Kinds \ {"STALE"})
    BY <1>3, <1>8 DEF SkipPacket, OnTheirWay
  <2> QED
    BY <1>3, <2>1, AllInSequences DEF is_target
<1>9. CASE ReceivePacket
  <2>1. link = "up"
    BY <1>0, <1>9 DEF ReceivePacket, peer_vars
  <2> QED
    BY <1>3, <1>9, <2>1, ReceiveInSync
<1>10. CASE ReceiveBroken
  <2>1. /\ link = "up" /\ HasPacket /\ ~Decrypted(Head(ul)) /\ ul' = Tail(ul)
        /\ UNCHANGED <<req, encrypted, enc_tx_pkt_count, peer, refused>>
    BY <1>0, <1>10 DEF ReceiveBroken, peer_vars
  <2>2. Doomed
    BY <1>3, <2>1, InSyncOpens
  <2>3. ul' = <<>>
    <3>1. ul # <<>> /\ (ul = <<>> \/ Len(ul) = 1)
      BY <2>1, <2>2 DEF HasPacket, Doomed
    <3>2. Len(Tail(ul)) = 0 /\ Tail(ul) \in Seq(Packet)
      BY <1>3, <3>1, PacketSequences
    <3> QED
      BY <2>1, <3>2
  <2> QED
    BY <2>1, <2>2, <2>3 DEF Doomed
<1>11. CASE ReceiveGarbage
  <2>1. link = "up" /\ HasPacket /\ ~Decrypted(Head(ul)) /\ ~Decrypts(Head(ul))
    BY <1>0, <1>11 DEF ReceiveGarbage, peer_vars, Reboots
  <2>2. Doomed
    BY <1>3, <2>1, InSyncOpens
  <2>3. Decrypts(Head(ul))
    <3>1. /\ encrypted /\ Len(ul) = 1 /\ ul[1].kind = "REJECT_IND" /\ ul[1].enc # Plain
          /\ Head(ul) = ul[1]
      BY <1>3, <2>1, <2>2, PacketSequences DEF Doomed, HasPacket
    <3> QED
      BY <3>1 DEF Decrypts, StillEncrypted, AdvPackets
  <2> QED
    BY <2>1, <2>3
<1>12. CASE EndReceive
  <2>1. /\ link = "up" /\ ul = <<>> /\ ul' = ul /\ peer' = peer /\ refused' = refused
        /\ req' = "none" /\ ~found'
        /\ encrypted' = (encrypted /\ ~Paused)
        /\ UNCHANGED <<enc_tx_pkt_count, enc_rx_pkt_count, conn_iv, conn_session_key,
                       server, conn_ltk>>
    BY <1>0, <1>12, LinkEncryptionAssumption
       DEF EndReceive, AnswersSeen, Trouble, Quiet, Types, PeerTypes, peer_vars, smp_vars, Paused
  <2>2. CASE Doomed
    BY <2>1, <2>2 DEF Doomed, Paused
  <2>3. CASE InSync
    <3>1. PairedWith(server, conn_ltk)
          /\ EncryptsWith(encrypted /\ ~Paused, conn_session_key, conn_iv,
                          enc_tx_pkt_count, enc_rx_pkt_count)
      BY <2>1, <2>3 DEF InSync
    <3>2. PairedWith(server, conn_ltk)'
      BY <2>1, <3>1 DEF PairedWith
    <3>3. (encrypted /\ ~Paused)' = (encrypted /\ ~Paused)
      BY <2>1 DEF Paused
    <3>4. EncryptsWith(encrypted /\ ~Paused, conn_session_key, conn_iv,
                       enc_tx_pkt_count, enc_rx_pkt_count)'
      BY <2>1, <3>1, <3>3 DEF EncryptsWith
    <3> QED
      BY <2>1, <3>2, <3>4 DEF InSync
  <2> QED
    BY <1>3, <2>1, <2>2, <2>3
<1>13. CASE reset_terminate
  <2>1. TakesData("TERMINATE_IND", Crypt) /\ pc = "ready"
    BY <1>13 DEF reset_terminate, send, AdvRequests
  <2>2. link = "up"
    BY <1>0, <2>1, TakesDataCases DEF Disconnected, DataRequests
  <2> QED
    BY <1>0, <1>2, <2>1, <2>2, TerminateEnds DEF Disconnected
<1>14. CASE reset \/ ScanRequest \/ ScanFailed \/ reset_device \/ ScanExhausted
  <2>1. pc' \in ScanPhase
    BY <1>14 DEF reset, ScanRequest, ScanFailed, reset_device, ScanExhausted, ScanPhase
  <2> QED
    BY <1>0, <1>2, <2>1 DEF QuietInv
<1>15. CASE LinkEnds
  BY <1>0, <1>15 DEF LinkEnds, Disconnected
<1>16. CASE DongleConnects
  <2>1. /\ connecting /\ advertising /\ link = "none"
        /\ UNCHANGED <<encrypted, enc_tx_pkt_count, enc_rx_pkt_count, conn_iv,
                       conn_session_key, server, conn_ltk>>
    BY <1>3, <1>16 DEF DongleConnects, LinkPlace, crypto_vars, smp_vars
  <2>2. PICK seen \in {TRUE, AdvSeen} :
          Connects(IF seen THEN Append(ul, AdvInd) ELSE ul)
    BY <1>16, AdvPacketType DEF DongleConnects
  <2>3. /\ peer' = Fresh /\ ul' = (IF seen THEN Append(ul, AdvInd) ELSE ul)
    BY <1>0, <2>1, <2>2 DEF Connects
  <2>4. ul = <<>> /\ (flavour = "BLESUL" => ~encrypted) /\ ~Bridge
    BY <1>2, <1>3, <2>1 DEF ConnectingInv, LinkPlace
  <2>5. CASE seen
    <3>1. ul' = <<AdvInd>>
      BY <2>3, <2>4, <2>5
    <3>2. ul' # <<>> /\ AllIn(ul', AdvPackets)
      BY <3>1, AdvKind DEF AllIn
    <3> QED
      BY <2>3, <3>2 DEF InSync
  <2>6. CASE ~seen
    <3>1. flavour = "BLESUL"
      BY <1>2, <2>2, <2>4, <2>6 DEF Seen, Bridge, Flavours, Types, MapperTypes
    <3>2. ul' = <<>> /\ ~encrypted'
      BY <2>1, <2>3, <2>4, <2>6, <3>1
    <3>3. PairedWith(server, conn_ltk)'
      BY <2>3 DEF PairedWith, Fresh
    <3>4. EncryptsWith(encrypted /\ ~Paused, conn_session_key, conn_iv,
                       enc_tx_pkt_count, enc_rx_pkt_count)'
      BY <2>3, <3>2 DEF EncryptsWith, Fresh
    <3> QED
      BY <3>2, <3>3, <3>4 DEF InSync
  <2> QED
    BY <2>5, <2>6
<1>17. CASE Lose
  BY <1>0, <1>17, LinkEncryptionAssumption DEF Lose, Trouble, Quiet, Types, PeerTypes
<1> QED
  BY <1>1, <1>5, <1>6, <1>7, <1>8, <1>9, <1>10, <1>11, <1>12, <1>13, <1>14, <1>15, <1>16, <1>17
     DEF Next, Requests, Receives, Resets, Peripheral

-----------------------------------------------------------------------------
(* What a connection leaves on its way when it ends                        *)

LEMMA AdvReadable ==
  ASSUME ul \in Seq(Packet), AllIn(ul, AdvPackets)
  PROVE  Readable
  BY DEF Readable, AllIn

LEMMA InSyncReadable ==
  ASSUME Types, InSync
  PROVE  Readable
<1>1. ul \in Seq(Packet)
  BY DEF Types
<1>2. CASE AllIn(ul, AdvPackets)
  BY <1>1, <1>2, AdvReadable
<1>3. CASE ul = <<>>
  BY <1>3 DEF Readable
<1>4. CASE Len(ul) = 1 /\ ul[1].enc = Seal(conn_iv, enc_rx_pkt_count)
  BY <1>4 DEF Readable
<1>5. CASE Len(ul) = 2 /\ pc = "enc_req" /\ EncAnswers
  BY <1>5 DEF Readable, EncAnswers
<1> QED
  BY <1>2, <1>3, <1>4, <1>5 DEF InSync

LEMMA ReadableOpens ==
  ASSUME Types, Readable, HasPacket
  PROVE  Decrypted(Head(ul))
<1>1. /\ ul # <<>> /\ Head(ul) = ul[1] /\ Len(ul) >= 1
      /\ Head(ul) \in Packet /\ encrypted \in BOOLEAN
  BY PacketSequences DEF Types, MapperTypes, HasPacket
<1> DEFINE p == Head(ul)
<1>2. CASE p.kind \in AdvPackets
  BY <1>1, <1>2 DEF Packet, Decrypted, Decrypts, StillEncrypted
<1>3. CASE p.kind \notin AdvPackets
  <2>1. p.enc = Seal(conn_iv, enc_rx_pkt_count)
    BY <1>1, <1>3 DEF Readable
  <2> QED
    BY <1>1, <1>3, <2>1, SealedIsNotPlain DEF Seal, Decrypted, Decrypts, StillEncrypted
<1> QED
  BY <1>2, <1>3

\* An advertisement that starts is behind everything else.
LEMMA AdvertiseReadable ==
  ASSUME Types, Readable, bleprph_advertise(ul), Quiet',
         UNCHANGED <<pc, encrypted, conn_session_key, conn_iv, enc_rx_pkt_count>>
  PROVE  Readable'
<1>1. ul \in Seq(Packet) /\ (ul' = ul \/ ul' = Append(ul, AdvInd))
  BY QuietAdvertises DEF Types
<1>2. CASE ul' = ul
  BY <1>2 DEF Readable, EncAnswers, Seal
<1>3. CASE ul' = Append(ul, AdvInd)
  <2>1. /\ Len(ul') = Len(ul) + 1 /\ Len(ul) \in Nat
        /\ ul'[Len(ul) + 1] = AdvInd
        /\ \A k \in 1 .. Len(ul) : ul'[k] = ul[k]
    BY <1>1, <1>3
  <2>2. \A k \in 3 .. Len(ul') : ul'[k].kind \in AdvPackets
    BY <2>1, AdvKind DEF Readable
  <2>3. Len(ul') >= 1 /\ ul'[1].kind \notin AdvPackets =>
          ul'[1].enc = Seal(conn_iv, enc_rx_pkt_count)'
    BY <2>1, AdvKind DEF Readable, Seal
  <2>4. Len(ul') >= 2 /\ ul'[2].kind \notin AdvPackets => pc' = "enc_req" /\ EncAnswers'
    <3>1. SUFFICES ASSUME Len(ul') >= 2, ul'[2].kind \notin AdvPackets
                   PROVE  pc' = "enc_req" /\ EncAnswers'
      OBVIOUS
    <3>2. Len(ul) >= 2 /\ ul'[1] = ul[1] /\ ul'[2] = ul[2]
      BY <2>1, <3>1, AdvKind
    <3>3. pc = "enc_req" /\ EncAnswers
      BY <3>1, <3>2 DEF Readable
    <3> QED
      BY <3>2, <3>3 DEF EncAnswers, Seal
  <2> QED
    BY <2>2, <2>3, <2>4 DEF Readable
<1> QED
  BY <1>1, <1>2, <1>3

LEMMA ReceiveReadable ==
  ASSUME Types, Readable, Fits(ul), ReceivePacket
  PROVE  Readable'
<1> DEFINE p == ul[1]
<1>1. /\ ul \in Seq(Packet) /\ ul # <<>> /\ Head(ul) = p /\ ul' = Tail(ul) /\ ul' \in Seq(Packet)
      /\ Len(ul) \in Nat /\ Len(ul) >= 1 /\ Len(ul') = Len(ul) - 1
      /\ \A k \in 1 .. Len(ul) - 1 : ul'[k] = ul[k + 1]
      /\ encrypted \in BOOLEAN
  BY PacketSequences DEF Types, MapperTypes, ReceivePacket, HasPacket
<1> HIDE DEF p
<1>2. CASE p.kind \in AdvPackets
  <2>1. AllIn(ul', AdvPackets)
    BY <1>1, <1>2, OrderedSequences
  <2> QED
    BY <2>1 DEF Readable, AllIn
<1>3. CASE p.kind \notin AdvPackets
  <2>1. \A k \in 2 .. Len(ul') : ul'[k].kind \in AdvPackets
    BY <1>1 DEF Readable
  <2>2. ASSUME Len(ul') >= 1, ul'[1].kind \notin AdvPackets
        PROVE  ul'[1].enc = Seal(conn_iv, enc_rx_pkt_count)'
    <3>1. Len(ul) >= 2 /\ ul'[1] = ul[2]
      BY <1>1, <2>2
    <3>2. pc = "enc_req" /\ EncAnswers
      BY <2>2, <3>1 DEF Readable
    <3>3. /\ p.kind = "ENC_RSP" /\ p.enc = Seal(conn_iv, enc_rx_pkt_count)
          /\ ul'[1].enc = Seal(p.n, enc_rx_pkt_count + 1)
      BY <3>1, <3>2 DEF EncAnswers, p
    <3>4. (Decrypts(p) <=> encrypted) /\ (StillEncrypted(p) <=> encrypted)
      BY <1>1, <3>3, SealedIsNotPlain DEF Decrypts, StillEncrypted, Seal, AdvPackets
    <3>5. CountsRx(p) /\ TakesEncRsp(p, StillEncrypted(p))
      BY <1>1, <3>2, <3>3 DEF ReceivePacket
    <3>6. /\ conn_iv' = p.n /\ encrypted' = encrypted
          /\ encrypted => /\ conn_session_key' = conn_session_key
                          /\ enc_rx_pkt_count' = enc_rx_pkt_count + 1
      BY <1>1, <3>4, <3>5 DEF TakesEncRsp, CountsRx, StillEncrypted
    <3> QED
      BY <3>3, <3>6 DEF Seal
  <2> QED
    BY <1>1, <2>1, <2>2 DEF Readable
<1> QED
  BY <1>2, <1>3

LEMMA ReadableStep ==
  ASSUME Types, PlaceInv, QuietInv, OnTheirWayInv, SyncInv, ConnectingInv, ReadableInv, Next
  PROVE  ReadableInv'
<1>0. SUFFICES ASSUME Quiet', Seen', ~refused', link' # "up"
               PROVE  Readable'
  BY DEF ReadableInv
<1>t. AllIn(ul', AdvPackets) => Readable'
  BY DEF Readable, AllIn
<1>f. Seen' <=> Seen
  BY DEF Next, Requests, Receives, Resets, Peripheral, Request, AdvRequest, ll_ctrl_enc_req,
         SkipPacket, ReceivePacket, ReceiveBroken, ReceiveGarbage, EndReceive, reset_terminate,
         reset, ScanRequest, ScanAnswered, ScanFailed, reset_device, ScanExhausted, LinkEnds,
         DongleConnects, Lose, Seen
<1>1. ul' = <<>> => Readable'
  BY DEF Readable
<1>2. CASE ScanAnswered
  BY <1>0, <1>1, <1>2, LinkEncryptionAssumption
     DEF ScanAnswered, Trouble, Quiet, Types, PeerTypes
<1>3. CASE ~ScanAnswered
<2>q. QuietInv' /\ Quiet /\ Seen /\ OnTheirWay /\ OnTheirWay' /\ Fits(ul) /\ ul \in Seq(Packet)
      /\ LinkPlace
  BY <1>0, <1>3, <1>f, QuietStep, OnTheirWayStep
     DEF OnTheirWayInv, OnTheirWay, Fits, Types, PlaceInv
<2>1. ASSUME Between'
      PROVE  Readable'
  <3>1. AllIn(ul', AdvPackets)
    BY <2>q, <2>1 DEF OnTheirWay
  <3> QED
    BY <1>t, <3>1
<2> USE DEF Receiving, Between
<2>2. ASSUME NEW r \in DataRequests, NEW e, TakesData(r, e), Between
      PROVE  Readable'
  <3>1. AllIn(ul', AdvPackets)
    BY <1>0, <2>2, <2>q, TakesDataOnTheirWay
  <3> QED
    BY <1>t, <3>1
<2>3. ASSUME NEW r \in AdvRequests, TakesAdv(r), Between
      PROVE  Readable'
  <3>1. AllIn(ul, AdvPackets)
    BY <2>q, <2>3 DEF OnTheirWay
  <3>2. AllIn(ul', AdvPackets)
    <4>1. AdvPackets \subseteq AdvPackets
      OBVIOUS
    <4>2. ul' = ul \/ ul' = ul \o <<AdvInd, ScanRsp>> \/ bleprph_advertise(ul)
      BY <2>3, AdvPacketType DEF TakesAdv, Connects
    <4> QED
      BY <3>1, <4>1, <4>2, ScanKinds
  <3> QED
    BY <1>t, <3>2
<2>4. CASE \E r \in DataRequests : Request(r)
  BY <2>2, <2>4 DEF Request, send, DataRequests, AdvRequests
<2>5. CASE \E r \in AdvRequests : AdvRequest(r)
  BY <2>3, <2>5 DEF AdvRequest, send
<2>6. CASE ll_ctrl_enc_req
  BY <2>2, <2>6 DEF ll_ctrl_enc_req, DataRequests
<2>7. CASE ScanRequest
  BY <2>3, <2>7 DEF ScanRequest, send, AdvRequests
<2>8. CASE EndReceive \/ reset_terminate \/ reset \/ ScanFailed \/ reset_device \/ ScanExhausted
  <3>1. pc' \notin Receiving
    BY <2>8 DEF EndReceive, reset_terminate, reset, ScanFailed, reset_device, ScanExhausted
  <3> QED
    BY <2>1, <3>1
<2>9. CASE SkipPacket
  <3>1. ul # <<>> /\ ~is_target(Head(ul))
    BY <2>9 DEF SkipPacket
  <3> QED
    BY <2>q, <3>1, AllInSequences DEF is_target, Fits
<2>10. CASE ReceivePacket
  <3>1. Readable
    BY <1>0, <2>10, <2>q DEF ReceivePacket, peer_vars, flags, ReadableInv
  <3> QED
    BY <2>10, <2>q, <3>1, ReceiveReadable
<2>11. CASE ReceiveBroken \/ ReceiveGarbage
  <3>1. ~refused /\ HasPacket /\ ~Decrypted(Head(ul))
    BY <1>0, <2>11 DEF ReceiveBroken, ReceiveGarbage
  <3> QED
    BY <2>q, <3>1, InSyncOpens, ReadableOpens DEF SyncInv, ReadableInv, Doomed
<2>12. CASE LinkEnds
  <3>1. ~refused /\ bleprph_advertise(ul)
        /\ UNCHANGED <<pc, encrypted, conn_session_key, conn_iv, enc_rx_pkt_count>>
    BY <1>0, <2>12 DEF LinkEnds, Disconnected, crypto_vars
  <3>2. Readable
    BY <2>q, <3>1, InSyncReadable DEF SyncInv, ReadableInv, Doomed
  <3> QED
    BY <1>0, <3>1, <3>2, AdvertiseReadable
<2>13. CASE DongleConnects
  <3>1. connecting /\ ~Bridge
    BY <2>q, <2>13 DEF DongleConnects, LinkPlace
  <3>2. PICK sent \in {ul, Append(ul, AdvInd)} : Connects(sent)
    BY <2>13, AdvPacketType DEF DongleConnects
  <3>3. sent \in Seq(Packet)
    BY <2>q, AdvPacketType
  <3>4. ul' = sent
    BY <1>0, <3>1, <3>2, <3>3, QuietAdvertises DEF Connects
  <3>5. ul = <<>>
    BY <2>q, <3>1 DEF ConnectingInv
  <3>6. AllIn(ul, AdvPackets) /\ AllIn(Append(ul, AdvInd), AdvPackets)
    BY <2>q, <3>5, AdvPacketType, AdvKind, AllInSequences
  <3> QED
    BY <1>t, <3>4, <3>6
<2>14. CASE Lose
  BY <1>0, <2>14, LinkEncryptionAssumption DEF Lose, Trouble, Quiet, Types, PeerTypes
<2> QED
  BY <1>3, <2>4, <2>5, <2>6, <2>7, <2>8, <2>9, <2>10, <2>11, <2>12, <2>13, <2>14
     DEF Next, Requests, Receives, Resets, Peripheral
<1> QED
  BY <1>2, <1>3

-----------------------------------------------------------------------------
(* Nothing is broken and no device is reset without need                   *)

\* What the mapper sends can be opened.
LEMMA SentIsOpened ==
  ASSUME Types, PlaceInv, OnTheirWayInv, SyncInv, Seen, ~Disturbed, link = "up",
         pc \in {"ready", "length"}, NEW r
  PROVE  Opens(r, Crypt)
<1>1. Quiet /\ ~refused
  BY LinkEncryptionAssumption DEF Disturbed, Quiet, Types, PeerTypes
<1>2. /\ ul = <<>> /\ encrypted = peer.enc /\ (InSync \/ Doomed) /\ ~found
      /\ encrypted \in BOOLEAN
  BY <1>1, BothEncrypt DEF Types, MapperTypes, PlaceInv, MapperPlace
<1>3. EncryptsWith(encrypted /\ ~Paused, conn_session_key, conn_iv,
                   enc_tx_pkt_count, enc_rx_pkt_count)
  BY <1>1, <1>2 DEF InSync, Doomed
<1> QED
  BY <1>2, <1>3 DEF EncryptsWith, Opens, Crypt

\* What the mapper receives can be opened.
LEMMA ReceivedIsOpened ==
  ASSUME Types, SyncInv, ReadableInv, Seen, ~Disturbed, HasPacket
  PROVE  Decrypted(Head(ul))
<1>1. Quiet /\ ~refused
  BY LinkEncryptionAssumption DEF Disturbed, Quiet, Types, PeerTypes
<1> QED
  BY <1>1, InSyncOpens, ReadableOpens DEF SyncInv, ReadableInv, Doomed

LEMMA SafeStep ==
  ASSUME Types, PlaceInv, PaidInv, OnTheirWayInv, SyncInv, ReadableInv, SafeInv, Next
  PROVE  SafeInv'
<1>f. Seen' <=> Seen
  BY DEF Next, Requests, Receives, Resets, Peripheral, Request, AdvRequest, ll_ctrl_enc_req,
         SkipPacket, ReceivePacket, ReceiveBroken, ReceiveGarbage, EndReceive, reset_terminate,
         reset, ScanRequest, ScanAnswered, ScanFailed, reset_device, ScanExhausted, LinkEnds,
         DongleConnects, Lose, Seen
<1>1. UNCHANGED <<broken, needless>> => SafeInv'
  BY <1>f DEF SafeInv
<1>2. ASSUME NEW r \in DataRequests, TakesData(r, Crypt), pc \in {"ready", "length"},
             needless' = needless
      PROVE  SafeInv'
  BY <1>2, <1>f, TakesDataCases, SentIsOpened DEF SafeInv
<1>3. CASE \E r \in DataRequests : Request(r)
  BY <1>2, <1>3 DEF Request, send, DataRequests, AdvRequests
<1>4. CASE \E r \in AdvRequests : AdvRequest(r)
  BY <1>1, <1>4 DEF AdvRequest, send, TakesAdv
<1>5. CASE ll_ctrl_enc_req
  BY <1>2, <1>5 DEF ll_ctrl_enc_req, DataRequests
<1>6. CASE reset_terminate
  BY <1>2, <1>6 DEF reset_terminate, send, DataRequests, AdvRequests
<1>7. CASE ReceiveBroken \/ ReceiveGarbage
  <2>1. /\ HasPacket /\ ~Decrypted(Head(ul)) /\ needless' = needless
        /\ broken' = (broken \/ ~Disturbed)
    BY <1>7 DEF ReceiveBroken, ReceiveGarbage
  <2> QED
    BY <1>f, <2>1, ReceivedIsOpened DEF SafeInv
<1>8. CASE reset_device
  <2>1. pc = "reset_device" /\ needless' = (needless \/ ~Disturbed) /\ broken' = broken
    BY <1>8 DEF reset_device
  <2>2. troubles > 0
    BY <2>1, LinkEncryptionAssumption DEF PaidInv, Paid, Types, MapperTypes, PeerTypes
  <2> QED
    BY <1>f, <2>1, <2>2 DEF SafeInv, Disturbed
<1>9. CASE ScanRequest
  BY <1>1, <1>9 DEF ScanRequest, send, TakesAdv, AdvRequests
<1>10. CASE SkipPacket \/ ReceivePacket \/ EndReceive \/ reset \/ ScanAnswered \/ ScanFailed
              \/ ScanExhausted \/ LinkEnds \/ DongleConnects \/ Lose
  BY <1>1, <1>10 DEF SkipPacket, ReceivePacket, EndReceive, reset, ScanAnswered, ScanFailed,
                     ScanExhausted, LinkEnds, DongleConnects, Lose, flags
<1> QED
  BY <1>3, <1>4, <1>5, <1>6, <1>7, <1>8, <1>9, <1>10
     DEF Next, Requests, Receives, Resets, Peripheral

-----------------------------------------------------------------------------
(* The invariant                                                           *)

LEMMA InitInv ==
  ASSUME Init
  PROVE  Inv
<1>1. Types
  BY InitTypes
<1>2. ul = <<>> /\ AllIn(ul, AdvKinds) /\ pc = "scan" /\ scan_i = 0 /\ ~encrypted
  BY DEF Init, AllIn
<1>3. PlaceInv
  BY <1>2 DEF Init, PlaceInv, LinkPlace, MapperPlace
<1>4. PaidInv
  BY <1>2, LinkEncryptionAssumption DEF PaidInv
<1>5. QuietInv
  BY DEF Init, QuietInv, LinkQuiet, Between, Receiving, Quiet
<1>6. OnTheirWayInv
  BY <1>2 DEF OnTheirWayInv, OnTheirWay, AllIn, DataFirst
<1>7. ConnectingInv /\ SyncInv /\ SafeInv
  BY DEF Init, ConnectingInv, SyncInv, SafeInv
<1>8. ReadableInv
  BY <1>2 DEF ReadableInv, Readable
<1> QED
  BY <1>1, <1>3, <1>4, <1>5, <1>6, <1>7, <1>8 DEF Inv

LEMMA InvStep ==
  ASSUME Inv, Next
  PROVE  Inv'
<1>1. /\ Types /\ PlaceInv /\ PaidInv /\ QuietInv /\ OnTheirWayInv
      /\ ConnectingInv /\ SyncInv /\ ReadableInv /\ SafeInv
  BY DEF Inv
<1>2. Types' /\ PlaceInv' /\ PaidInv'
  BY <1>1, TypesStep, PlaceStep, PaidStep
<1>3. QuietInv'
  BY <1>1, QuietStep DEF QuietInv
<1>4. OnTheirWayInv' /\ ConnectingInv' /\ SyncInv'
  BY <1>1, OnTheirWayStep, ConnectingStep, SyncStep
<1>5. ReadableInv' /\ SafeInv'
  BY <1>1, ReadableStep, SafeStep
<1> QED
  BY <1>2, <1>3, <1>4, <1>5 DEF Inv

LEMMA InvStutter ==
  ASSUME Inv, UNCHANGED vars
  PROVE  Inv'
<1>1. /\ UNCHANGED <<flavour, pc, req, found, scan_i, ul>>
      /\ UNCHANGED <<encrypted, enc_tx_pkt_count, enc_rx_pkt_count, conn_iv, conn_session_key>>
      /\ UNCHANGED <<conn_ltk, confirm, random, server>>
      /\ UNCHANGED <<peer, link, connecting, advertising, troubles, refused, broken, needless>>
  BY DEF vars, crypto_vars, smp_vars, peer_vars, flags
<1>2. Types' /\ PlaceInv' /\ PaidInv'
  BY <1>1 DEF Inv, Types, MapperTypes, PeerTypes, PlaceInv, LinkPlace, MapperPlace, AllIn, Bridge,
              PaidInv, Paid
<1>3. QuietInv' /\ OnTheirWayInv' /\ ConnectingInv'
  BY <1>1 DEF Inv, QuietInv, LinkQuiet, Quiet, Between, Bridge, OnTheirWayInv, OnTheirWay, Seen,
              AllIn, DataFirst, HasAdv, ConnectingInv
<1>4. (InSync \/ Doomed) => InSync' \/ Doomed'
  BY <1>1 DEF InSync, Doomed, Paused, PairedWith, EncryptsWith, EncAnswers, Seal, EncryptedAfter,
              CountAfter, ServerAfter, LtkAfter, AllIn
<1>5. SyncInv'
  BY <1>1, <1>4 DEF Inv, SyncInv, Quiet, Seen
<1>6. ReadableInv' /\ SafeInv'
  BY <1>1 DEF Inv, ReadableInv, Readable, EncAnswers, Seal, Quiet, Seen, SafeInv
<1> QED
  BY <1>2, <1>3, <1>5, <1>6 DEF Inv

\* How the two ends, and what is on its way between them, belong together: the
\* agreement of mapper (BLESUL.py:201-264, 417-467) and peripheral is inductive
\* only with the packets that are still to be read.
THEOREM LinkInvariant == Spec => []Inv
<1>1. Init => Inv
  BY InitInv
<1>2. Inv /\ [Next]_vars => Inv'
  BY InvStep, InvStutter
<1> QED
  BY <1>1, <1>2, PTL DEF Spec

-----------------------------------------------------------------------------
(* The properties                                                          *)

\* The packets counted with one key: reset() alone sends one past the bound.
TxInv ==
  /\ enc_tx_pkt_count <= MaxSent + 1
  /\ pc # "reset" => enc_tx_pkt_count <= MaxSent

LEMMA TxStep ==
  ASSUME Types, TxInv, Next
  PROVE  TxInv'
<1>0. MaxSent \in Nat /\ enc_tx_pkt_count \in Nat
  BY LinkEncryptionAssumption DEF Types, MapperTypes
<1>1. CASE \E r \in DataRequests : Request(r)
  BY <1>0, <1>1 DEF Request, send, WithinBound, TxInv
<1>2. CASE ll_ctrl_enc_req
  BY <1>0, <1>2 DEF ll_ctrl_enc_req, TxInv
<1>3. CASE reset_terminate
  BY <1>0, <1>3 DEF reset_terminate, send, TxInv
<1>4. CASE reset
  BY <1>0, <1>4 DEF reset, TxInv
<1>5. ASSUME enc_tx_pkt_count' = enc_tx_pkt_count, pc # "reset"
      PROVE  TxInv'
  BY <1>0, <1>5 DEF TxInv
<1>6. CASE \E r \in AdvRequests : AdvRequest(r)
  BY <1>5, <1>6 DEF AdvRequest, send
<1>7. CASE ScanRequest
  BY <1>5, <1>7 DEF ScanRequest, send, AdvRequests
<1>8. CASE SkipPacket \/ ReceivePacket \/ ReceiveBroken \/ ReceiveGarbage \/ EndReceive
             \/ ScanAnswered \/ ScanFailed \/ reset_device \/ ScanExhausted
  BY <1>5, <1>8 DEF SkipPacket, ReceivePacket, ReceiveBroken, ReceiveGarbage, EndReceive,
                    ScanAnswered, ScanFailed, reset_device, ScanExhausted, HasPacket, Receiving,
                    crypto_vars
<1>9. CASE LinkEnds \/ DongleConnects \/ Lose
  BY <1>0, <1>9 DEF LinkEnds, DongleConnects, Lose, TxInv, crypto_vars
<1> QED
  BY <1>1, <1>2, <1>3, <1>4, <1>6, <1>7, <1>8, <1>9
     DEF Next, Requests, Receives, Resets, Peripheral

LEMMA TypesGiveTypeOK ==
  ASSUME Types, TxInv
  PROVE  TypeOK
<1>1. /\ MapperTypes /\ PeerTypes /\ ul \in Seq(Packet) /\ MaxSent \in Nat
  BY LinkEncryptionAssumption DEF Types
<1>2. /\ peer.iv \in NonceType /\ peer.key \in KeyType
      /\ peer.ltk \in PairingType /\ peer.pairing \in PairingType
  BY <1>1 DEF PeerTypes, PeerType
<1>3. \A k \in DOMAIN ul : ul[k].enc \in SealType
  BY <1>1 DEF Packet, PacketType
<1>4. enc_tx_pkt_count \in 0 .. MaxSent + 1
  BY <1>1 DEF MapperTypes, TxInv
<1>5. pc \in {"ready", "length", "reset", "scan", "reset_device", "raised"} \union Receiving
  BY <1>1 DEF MapperTypes, Places, ScanPhase, Receiving
<1>6. /\ {conn_iv, peer.iv} \subseteq NonceType
      /\ {conn_session_key, peer.key} \subseteq KeyType
  BY <1>1, <1>2 DEF MapperTypes
<1>7. {conn_ltk, confirm, random, server, peer.ltk, peer.pairing} \subseteq PairingType
  BY <1>1, <1>2 DEF MapperTypes
<1>8. {found, encrypted, connecting, advertising, refused, broken, needless} \subseteq BOOLEAN
  BY <1>1 DEF MapperTypes, PeerTypes
<1>9. /\ flavour \in Flavours /\ scan_i \in 0 .. ScanTries /\ enc_rx_pkt_count \in Nat
      /\ link \in {"up", "none", "lost"} /\ troubles \in 0 .. MaxTroubles
  BY <1>1 DEF MapperTypes, PeerTypes
<1> QED
  BY <1>3, <1>4, <1>5, <1>6, <1>7, <1>8, <1>9 DEF TypeOK, NonceType, PairingType, KeyType

\* Every variable of mapper and peripheral keeps its type (the attributes of
\* BLESUL and the link-layer state of the peripheral), in particular no packet
\* is sealed with anything but a key, an IV and a counter; the mapper counts no
\* more packets than it has encrypted.
THEOREM TypeCorrect == Spec => []TypeOK
<1>1. Init => TxInv
  BY LinkEncryptionAssumption DEF Init, TxInv
<1>2. Inv /\ TxInv /\ [Next]_vars => TxInv'
  <2>1. ASSUME Inv, TxInv, Next
        PROVE  TxInv'
    BY <2>1, TxStep DEF Inv
  <2>2. ASSUME TxInv, UNCHANGED vars
        PROVE  TxInv'
    BY <2>2 DEF TxInv, vars, crypto_vars
  <2> QED
    BY <2>1, <2>2
<1>3. Inv /\ TxInv => TypeOK
  BY TypesGiveTypeOK DEF Inv
<1> QED
  BY <1>1, <1>2, <1>3, LinkInvariant, PTL DEF Spec

\* reset() gets its scan response without resetting the device whenever nothing
\* came late or got lost in the query before (BLESUL.py:143-189), for any number
\* of scans, keys, pairings and packets and with each flavour.
THEOREM ResetNeedsNoDevice == Spec => []ResetWithoutDevice
<1>1. Inv => ResetWithoutDevice
  BY DEF Inv, SafeInv, ResetWithoutDevice
<1> QED
  BY <1>1, LinkInvariant, PTL

\* However the two ends disagree, each reset of the device in reset() (BLESUL.py:
\* 143-189) takes a trouble more: a reset() that raises has met all of them.
THEOREM ResetExhaustsTroubles == Spec => []ResetSucceeds
<1>1. Inv => ResetSucceeds
  BY DEF Inv, PaidInv, ResetSucceeds
<1> QED
  BY <1>1, LinkInvariant, PTL

\* Between two requests mapper and peripheral agree on encryption, key, IV and
\* counters (BLESUL.py:201-264, 417-467), whatever was paired, encrypted, paused
\* and connected before; a dongle of flavour nRF52840DKNimBLE has to pass on the
\* advertisement it connects to.
THEOREM EndsAgree == Spec => [](Seen => Agreement)
<1>1. ASSUME Inv, Seen, pc = "ready", link = "up", ul = <<>>, ~Disturbed
      PROVE  /\ encrypted = peer.enc
             /\ encrypted => /\ conn_session_key = peer.key /\ conn_iv = peer.iv
                             /\ enc_tx_pkt_count = peer.rx /\ enc_rx_pkt_count = peer.tx
  <2>1. Types /\ PlaceInv /\ OnTheirWayInv /\ SyncInv
    BY <1>1 DEF Inv
  <2>2. Quiet /\ ~refused /\ ~found /\ encrypted \in BOOLEAN
    BY <1>1, <2>1, LinkEncryptionAssumption
       DEF Disturbed, Quiet, Types, MapperTypes, PeerTypes, PlaceInv, MapperPlace
  <2>3. InSync /\ encrypted = peer.enc
    BY <1>1, <2>1, <2>2, BothEncrypt DEF Doomed
  <2>4. EncryptsWith(encrypted /\ ~Paused, conn_session_key, conn_iv,
                     enc_tx_pkt_count, enc_rx_pkt_count)
    BY <1>1, <2>3 DEF InSync
  <2> QED
    BY <2>3, <2>4 DEF EncryptsWith
<1>2. Inv => (Seen => Agreement)
  BY <1>1 DEF Agreement
<1> QED
  BY <1>2, LinkInvariant, PTL

\* The same for all flavours, of dongles that pass the advertisement on.
THEOREM EndsAgreeIfSeen ==
  ASSUME AdvSeen
  PROVE  Spec => []Agreement
<1>1. Seen
  BY DEF Seen
<1>2. (Seen => Agreement) => Agreement
  BY <1>1
<1> QED
  BY <1>2, EndsAgree, PTL

\* "This should not happen" (BLESUL.py:469, 452) does not: neither end meets a
\* packet that it cannot open, though the two packets that answer a second
\* LL_ENC_REQ are sealed differently and a connection may end at any time.
THEOREM NoneBroken == Spec => [](Seen => NothingBroken)
<1>1. Inv => (Seen => NothingBroken)
  BY DEF Inv, SafeInv, NothingBroken
<1> QED
  BY <1>1, LinkInvariant, PTL

\* The same for all flavours, of dongles that pass the advertisement on.
THEOREM NoneBrokenIfSeen ==
  ASSUME AdvSeen
  PROVE  Spec => []NothingBroken
<1>1. (Seen => NothingBroken) => NothingBroken
  BY DEF Seen
<1> QED
  BY <1>1, NoneBroken, PTL

=============================================================================
