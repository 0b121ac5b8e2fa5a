---------------------------- MODULE LinkEncryption ----------------------------
(***************************************************************************)
(* Link-layer encryption between the mapper (py/BLESUL.py) and a NimBLE    *)
(* peripheral: the encrypted flag, keys, IV and packet counters of both,   *)
(* the pairing that gives them a key, and reset(), which has to work       *)
(* whatever state they are in.  The peripheral is the test application on  *)
(* NimBLE's link layer, behind the bridge (flavour NimBLE: ble_phy.c) or   *)
(* behind a radio dongle (the other flavours).                             *)
(*                                                                         *)
(* Cryptography is symbolic: a packet is opened with exactly the key, IV   *)
(* and counter it was sealed with.  One number stands for SKD_P and IV_P   *)
(* of an LL_ENC_RSP, one for the keys a pairing agrees on; 0 is all zeros. *)
(***************************************************************************)
EXTENDS Naturals, SequencesExt

CONSTANTS
  Nonces,         \* what the peripheral draws for an LL_ENC_RSP
  Pairings,       \* pairings
  ScanTries,      \* scan requests of reset() before it raises (32)
  ScanResetFrom,  \* index of the first failure that resets the device (28)
  AdvSeen,        \* the dongle passes on the advertisement it connects to
  MaxSent,        \* bound: packets encrypted with one key and IV
  MaxTroubles     \* bound: answers late or lost, advertising failed, in a query

Flavours == {"BLESUL", "NimBLE", "nRF52840DKNimBLE"}

ASSUME LinkEncryptionAssumption ==
  /\ 0 \notin Nonces /\ 0 \notin Pairings
  /\ ScanTries \in Nat /\ ScanResetFrom \in 0 .. ScanTries
  /\ AdvSeen \in BOOLEAN
  /\ MaxSent \in Nat /\ MaxTroubles \in Nat

VARIABLES
  flavour,            \* of the mapper, fixed
  pc, req, found,     \* where it is; the request; its awaited answer is there
  scan_i,             \* i of the loop in reset()
  encrypted, enc_tx_pkt_count, enc_rx_pkt_count, conn_iv, conn_session_key,
  conn_ltk, confirm, random, \* as in BLESUL
  server,             \* the pairing BLESMPServer is in
  peer,               \* the peripheral's end of its connection
  link,               \* "up", "none", or "lost": only the peripheral keeps it
  connecting,         \* the dongle waits for an advertisement to connect to
  advertising,        \* the test application is advertising
  ul,                 \* packets on their way to the mapper
  troubles, refused,  \* what happened in this query: see Disturbed
  broken, needless    \* without that: a wrong MIC, a device reset in reset()

crypto_vars == <<encrypted, enc_tx_pkt_count, enc_rx_pkt_count, conn_iv, conn_session_key>>
smp_vars    == <<conn_ltk, confirm, random, server>>
peer_vars   == <<peer, link, connecting, advertising>>
flags       == <<troubles, refused, broken, needless>>
vars == <<flavour, pc, req, found, scan_i, crypto_vars, smp_vars, peer_vars, ul, flags>>

Bridge == flavour = "NimBLE"

Short == {"START_ENC_REQ", "START_ENC_RSP", "PAUSE_ENC_REQ", "PAUSE_ENC_RSP",
          "TERMINATE_IND", "REJECT_IND", "UNKNOWN_RSP"} \* payload under 5 bytes
AdvPackets == {"ADV_IND", "SCAN_RSP"}
SmPackets  == {"PAIRING_RSP", "SM_CONFIRM", "SM_RANDOM"}
AdvRequests  == {"SCAN_REQ", "CONNECT_IND"}
DataRequests == {"REQ", "ENC_REQ", "START_ENC_RSP", "PAUSE_ENC_REQ", "TERMINATE_IND",
                 "PAIRING_REQ", "SM_CONFIRM", "SM_RANDOM"}
Receiving == {"receive", "enc_req", "scan_receive"}

Plain == <<>>

\* a data packet of the connection that reset() has left
Stale == [kind |-> "STALE", n |-> 0, enc |-> Plain]
NoKey == <<0, 0>>

\* bt_crypto_e(ltk, skd)
bt_crypto_e(key, skd) == <<key, skd>>

Fresh == [enc |-> FALSE, key |-> NoKey, iv |-> 0, tx |-> 0, rx |-> 0,
          ltk |-> 0, pairing |-> 0, stage |-> "none"]

\* in this query something happened that the mapper cannot know of
Disturbed == troubles > 0 \/ refused

Init ==
  /\ flavour \in Flavours
  /\ pc = "scan" /\ req = "none" /\ found = FALSE /\ scan_i = 0
  /\ encrypted = FALSE /\ enc_tx_pkt_count = 0 /\ enc_rx_pkt_count = 0
  /\ conn_iv = 0 /\ conn_session_key = NoKey
  /\ conn_ltk = 0 /\ confirm = 0 /\ random = 0 /\ server = 0
  /\ peer = Fresh /\ link = "none" /\ connecting = FALSE /\ advertising = TRUE
  /\ ul = <<>>
  /\ troubles = 0 /\ refused = FALSE /\ broken = FALSE /\ needless = FALSE

-----------------------------------------------------------------------------
(* The peripheral: test application, link layer and PHY                    *)

Trouble == troubles < MaxTroubles /\ troubles' = troubles + 1

\* ble_phy_tx(): sealed if encryption is on, a packet with payload always
ble_phy_tx(q, kind, n) ==
  [kind |-> kind, n |-> n, enc |-> IF q.enc THEN <<q.key, q.iv, q.tx>> ELSE Plain]

Counted(q) == [q EXCEPT !.tx = IF q.enc THEN @ + 1 ELSE @]

\* An advertisement starts; the bridge sends it at once and only once.
bleprph_advertise(sent) ==
  \/ /\ advertising' = TRUE /\ UNCHANGED troubles
     /\ ul' = IF Bridge THEN Append(sent, ble_phy_tx(Fresh, "ADV_IND", 0)) ELSE sent
  \/ /\ Trouble /\ advertising' = FALSE
     /\ ul' = sent

\* BLE_GAP_EVENT_DISCONNECT
Disconnected == peer' = Fresh /\ link' = "none" /\ bleprph_advertise(ul)

\* the peripheral has a wrong MIC, loses the dongle or times out
LinkEnds ==
  /\ link \in {"up", "lost"}
  /\ Disconnected
  /\ UNCHANGED <<flavour, pc, req, found, scan_i, crypto_vars, smp_vars,
                 connecting, refused, broken, needless>>

\* recv_packet() decrypts what has 5 bytes of payload or more; a radio all.
Opens(r, e) ==
  IF peer.enc
    THEN e = <<peer.key, peer.iv, peer.rx>> \/ (Bridge /\ e = Plain /\ r \in Short)
    ELSE e = Plain

\* LL_ENC_RSP still with the old key and IV, what follows with the new ones;
\* an encrypted link keeps its session key.
EncRsp(q, n, last, on) ==
  LET q1 == [q EXCEPT !.tx = 0, !.rx = 0]
      q2 == [Counted(q1) EXCEPT !.iv = n,
               !.key = IF q.enc THEN @ ELSE bt_crypto_e(q.ltk, n)]
  IN  /\ peer' = [Counted(q2) EXCEPT !.enc = on]
      /\ ul' = ul \o <<ble_phy_tx(q1, "ENC_RSP", n), ble_phy_tx(q2, last, 0)>>

Sends(q, kind, n) == peer' = Counted(q) /\ ul' = Append(ul, ble_phy_tx(q, kind, n))

NewNonce(n) == n \notin {conn_iv, conn_session_key[2], peer.iv, peer.key[2]}
NewPairing(n) == n \notin {conn_ltk, confirm, random, server, peer.ltk, peer.pairing}

HandlesEncReq(q) ==
  \/ /\ q.ltk # 0
     /\ \E n \in Nonces : NewNonce(n) /\ EncRsp(q, n, "START_ENC_REQ", TRUE)
     /\ UNCHANGED refused
  \/ /\ ~q.enc \* no key: the host refuses after the LL_ENC_RSP
     /\ \E n \in Nonces : NewNonce(n) /\ EncRsp(q, n, "REJECT_IND", FALSE)
     /\ UNCHANGED refused
  \/ Sends(q, "REJECT_IND", 0) /\ refused' = (refused \/ q.enc)

\* legacy pairing; the values it exchanges are those of one pairing or not
HandlesSm(r, q) ==
  \/ /\ r = "PAIRING_REQ"
     /\ \E n \in Pairings :
          NewPairing(n) /\ Sends([q EXCEPT !.pairing = n, !.stage = "feature", !.ltk = 0],
                                 "PAIRING_RSP", n)
  \/ /\ r = "SM_CONFIRM" /\ q.stage = "feature"
     /\ Sends([q EXCEPT !.stage = IF confirm = q.pairing THEN "confirm" ELSE "none"],
              "SM_CONFIRM", q.pairing)
  \/ /\ r = "SM_RANDOM" /\ q.stage = "confirm" /\ random = q.pairing
     /\ Sends([q EXCEPT !.stage = "none", !.ltk = q.pairing], "SM_RANDOM", q.pairing)
  \/ /\ r \in {"PAIRING_REQ", "SM_CONFIRM", "SM_RANDOM"}
     /\ Sends([q EXCEPT !.stage = "none"], "SM_FAILED", 0)

\* A request that is understood may also be left without an answer, but not
\* one that begins a pairing.
Handles(r, q) ==
  \/ /\ r = "ENC_REQ" /\ HandlesEncReq(q)
     /\ UNCHANGED <<link, advertising, troubles>>
  \/ /\ \/ r = "REQ" /\ Sends(q, "RSP", 0)
        \/ r = "START_ENC_RSP" /\ q.enc /\ Sends(q, "START_ENC_RSP", 0)
        \/ /\ r = "PAUSE_ENC_REQ"
           /\ peer' = [Fresh EXCEPT !.ltk = q.ltk, !.pairing = q.pairing, !.stage = q.stage]
           /\ ul' = Append(ul, ble_phy_tx(q, "PAUSE_ENC_RSP", 0))
        \/ HandlesSm(r, q)
     /\ UNCHANGED <<link, advertising, troubles, refused>>
  \/ /\ r \notin {"TERMINATE_IND", "PAIRING_REQ"}
     /\ peer' = q /\ refused' = (refused \/ (r = "ENC_REQ" /\ q.enc))
     /\ UNCHANGED <<link, advertising, ul, troubles>>
  \/ r = "TERMINATE_IND" /\ Disconnected /\ UNCHANGED refused

\* A data packet of the mapper reaches the peripheral, sealed with e or Plain.
TakesData(r, e) ==
  /\ UNCHANGED connecting
  /\ \/ /\ link # "up"
        /\ UNCHANGED <<peer, link, advertising, ul, troubles, refused, broken>>
     \/ /\ link = "up" /\ Opens(r, e)
        /\ Handles(r, [peer EXCEPT !.rx = IF e = Plain THEN @ ELSE @ + 1])
        /\ UNCHANGED broken
     \/ /\ link = "up" /\ ~Opens(r, e) /\ peer.enc \* MIC failure
        /\ Disconnected
        /\ broken' = (broken \/ ~Disturbed) /\ UNCHANGED refused
     \/ /\ link = "up" /\ ~Opens(r, e) /\ ~peer.enc \* an unknown opcode
        /\ \/ Sends(peer, "UNKNOWN_RSP", 0)
           \/ UNCHANGED <<peer, ul>>
        /\ broken' = (broken \/ ~Disturbed)
        /\ UNCHANGED <<link, advertising, troubles, refused>>

\* CONNECT_IND has been sent: BLE_GAP_EVENT_CONNECT, established or failed
Connects(sent) ==
  \/ /\ peer' = Fresh /\ link' = "up" /\ advertising' = FALSE /\ ul' = sent
     /\ UNCHANGED troubles
  \/ bleprph_advertise(sent) /\ UNCHANGED <<peer, link>>

\* A request on the advertising channel.  The bridge drops it in a connection
\* (ble_phy.c:194), the dongle leaves the connection for it.
TakesAdv(r) ==
  /\ UNCHANGED <<refused, broken>>
  /\ \/ /\ r = "SCAN_REQ" /\ advertising
        /\ ul' = ul \o <<ble_phy_tx(Fresh, "ADV_IND", 0), ble_phy_tx(Fresh, "SCAN_RSP", 0)>>
        /\ connecting' = FALSE
        /\ UNCHANGED <<peer, link, advertising, troubles>>
     \/ /\ r = "CONNECT_IND" /\ Bridge /\ advertising
        /\ Connects(ul)
        /\ UNCHANGED connecting
     \/ /\ ~advertising \/ (r = "CONNECT_IND" /\ ~Bridge)
        /\ connecting' = (r = "CONNECT_IND" /\ ~Bridge)
        /\ link' = IF link = "up" /\ ~Bridge THEN "lost" ELSE link
        /\ UNCHANGED <<peer, advertising, ul, troubles>>

DongleConnects ==
  /\ connecting /\ advertising
  /\ connecting' = FALSE
  /\ \E seen \in {TRUE, AdvSeen} :
       Connects(IF seen THEN Append(ul, ble_phy_tx(Fresh, "ADV_IND", 0)) ELSE ul)
  /\ UNCHANGED <<flavour, pc, req, found, scan_i, crypto_vars, smp_vars, refused,
                 broken, needless>>

\* bytes lost in the dongle or in the serial port
Lose ==
  /\ ul # <<>> /\ Trouble
  /\ ul' = Tail(ul)
  /\ UNCHANGED <<flavour, pc, req, found, scan_i, crypto_vars, smp_vars, peer_vars,
                 refused, broken, needless>>
-----------------------------------------------------------------------------
(* The mapper                                                              *)

Crypt == IF encrypted THEN <<conn_session_key, conn_iv, enc_tx_pkt_count>> ELSE Plain

\* Variant of send: packets that are not encrypted count as well.
send_counts_plain(r) ==
  IF r \in AdvRequests
    THEN TakesAdv(r) /\ UNCHANGED enc_tx_pkt_count
    ELSE TakesData(r, Crypt) /\ enc_tx_pkt_count' = enc_tx_pkt_count + 1

\* send(): encrypts data packets only, and counts those
send(r) ==
  IF r \in AdvRequests
    THEN TakesAdv(r) /\ UNCHANGED enc_tx_pkt_count
    ELSE /\ TakesData(r, Crypt)
         /\ enc_tx_pkt_count' = IF encrypted THEN enc_tx_pkt_count + 1 ELSE enc_tx_pkt_count

WithinBound == (encrypted => enc_tx_pkt_count < MaxSent) /\ peer.tx < MaxSent + 3

sm_pairing_req_pre(r) == server' = IF r = "PAIRING_REQ" THEN 0 ELSE server

\* step() up to receive(), for a request without a function of its own; also
\* the LL_LENGTH_REQ behind a CONNECT_IND
Request(r) ==
  /\ \/ pc = "ready" /\ r \notin {"SCAN_REQ", "CONNECT_IND", "ENC_REQ"}
     \/ pc = "length" /\ r = "REQ"
  /\ WithinBound
  /\ send(r)
  /\ pc' = "receive" /\ req' = r /\ found' = FALSE
  /\ sm_pairing_req_pre(r)
  /\ UNCHANGED <<flavour, scan_i, encrypted, enc_rx_pkt_count, conn_iv, conn_session_key,
                 conn_ltk, confirm, random, needless>>

\* NimBLE replaces ll_adv_scan_req and so has no ll_adv_scan_req_pre.
ll_adv_scan_req_pre == encrypted' = (encrypted /\ Bridge)

\* Both NimBLE flavours replace ll_adv_connect_ind.
ll_adv_connect_ind_pre == encrypted' = (encrypted /\ flavour # "BLESUL")

AdvRequest(r) ==
  /\ pc = "ready"
  /\ send(r)
  /\ IF r = "SCAN_REQ" THEN ll_adv_scan_req_pre ELSE ll_adv_connect_ind_pre
  /\ pc' = "receive" /\ req' = r /\ found' = FALSE
  /\ UNCHANGED <<flavour, scan_i, enc_rx_pkt_count, conn_iv, conn_session_key,
                 smp_vars, needless>>

\* Variant of ll_ctrl_enc_req: the counters are left as they are.
ll_ctrl_enc_req_keeps_counters ==
  /\ pc = "ready" /\ WithinBound
  /\ send("ENC_REQ")
  /\ pc' = "enc_req" /\ req' = "ENC_REQ" /\ found' = FALSE
  /\ UNCHANGED <<flavour, scan_i, encrypted, enc_rx_pkt_count, conn_iv,
                 conn_session_key, smp_vars, needless>>

\* ll_ctrl_enc_req: both counters are zero from here on, whatever is answered
ll_ctrl_enc_req ==
  /\ pc = "ready" /\ WithinBound
  /\ TakesData("ENC_REQ", Crypt)
  /\ enc_tx_pkt_count' = 0 /\ enc_rx_pkt_count' = 0
  /\ pc' = "enc_req" /\ req' = "ENC_REQ" /\ found' = FALSE
  /\ UNCHANGED <<flavour, scan_i, encrypted, conn_iv, conn_session_key, smp_vars,
                 needless>>

\* a data packet with another access address is not for us
is_target(pkt) == pkt.kind # "STALE"

SkipPacket ==
  /\ pc \in Receiving /\ ul # <<>> /\ ~is_target(Head(ul))
  /\ ul' = Tail(ul)
  /\ UNCHANGED <<flavour, pc, req, found, scan_i, crypto_vars, smp_vars, peer_vars, flags>>

HasPacket == pc \in Receiving /\ ul # <<>> /\ is_target(Head(ul))

\* A BTLE_ADV packet ends the encryption before it is looked at.
StillEncrypted(pkt) == encrypted /\ pkt.kind \notin AdvPackets

\* receive() decrypts from 5 bytes of payload on.
Decrypts(pkt) == StillEncrypted(pkt) /\ (pkt.enc # Plain \/ pkt.kind \notin Short)

Decrypted(pkt) ==
  IF Decrypts(pkt) THEN pkt.enc = <<conn_session_key, conn_iv, enc_rx_pkt_count>>
                   ELSE pkt.enc = Plain

\* smp_process: what BLESMPServer answers is kept for the next requests.
smp_process(pkt) ==
  /\ server' = IF pkt.kind = "PAIRING_RSP" THEN pkt.n ELSE server
  /\ confirm' = IF pkt.kind = "PAIRING_RSP" THEN pkt.n ELSE confirm
  /\ random' = IF pkt.kind = "SM_CONFIRM" /\ server = pkt.n THEN pkt.n ELSE random
  /\ conn_ltk' = IF pkt.kind = "SM_RANDOM" /\ server = pkt.n THEN pkt.n ELSE conn_ltk

\* Variant of TakesEncRsp: the session key is always computed again.
TakesEncRsp_new_key(pkt, enc) ==
  /\ conn_iv' = pkt.n
  /\ conn_session_key' = bt_crypto_e(conn_ltk, pkt.n)
  /\ encrypted' = enc

\* the body of the loop of ll_ctrl_enc_req
TakesEncRsp(pkt, enc) ==
  /\ conn_iv' = pkt.n
  /\ conn_session_key' = IF enc THEN conn_session_key ELSE bt_crypto_e(conn_ltk, pkt.n)
  /\ encrypted' = enc

CountsRx(pkt) ==
  enc_rx_pkt_count' = IF Decrypts(pkt) THEN enc_rx_pkt_count + 1 ELSE enc_rx_pkt_count

Awaited(pkt) ==
  \/ pc = "scan_receive" /\ pkt.kind = "SCAN_RSP"
  \/ req = "PAUSE_ENC_REQ" /\ pkt.kind = "PAUSE_ENC_RSP"

ReceivePacket ==
  /\ HasPacket /\ Decrypted(Head(ul))
  /\ LET pkt == Head(ul)
         enc == StillEncrypted(pkt)
     IN  /\ CountsRx(pkt)
         /\ found' = (found \/ Awaited(pkt))
         /\ smp_process(pkt)
         /\ IF pc = "enc_req" /\ pkt.kind = "ENC_RSP"
              THEN TakesEncRsp(pkt, enc)
              ELSE /\ encrypted' = (enc \/ (pc = "enc_req" /\ pkt.kind = "START_ENC_REQ"))
                   /\ UNCHANGED <<conn_iv, conn_session_key>>
  /\ ul' = Tail(ul)
  /\ UNCHANGED <<flavour, pc, req, scan_i, enc_tx_pkt_count, peer_vars, flags>>

\* a wrong MIC: the packet counts, but nobody hears of it
ReceiveBroken ==
  /\ HasPacket /\ ~Decrypted(Head(ul)) /\ Decrypts(Head(ul))
  /\ CountsRx(Head(ul))
  /\ broken' = (broken \/ ~Disturbed)
  /\ ul' = Tail(ul)
  /\ UNCHANGED <<flavour, pc, req, found, scan_i, encrypted, enc_tx_pkt_count, conn_iv,
                 conn_session_key, smp_vars, peer_vars, troubles, refused, needless>>

\* reset_device(): the test application starts anew, bleprph_on_sync
Reboots ==
  /\ peer' = Fresh /\ link' = "none" /\ connecting' = FALSE
  /\ bleprph_advertise(<<>>)

\* A sealed packet, read as it is, is nonsense or "Raw": then the device is reset.
ReceiveGarbage ==
  /\ HasPacket /\ ~Decrypted(Head(ul)) /\ ~Decrypts(Head(ul))
  /\ broken' = (broken \/ ~Disturbed)
  /\ \/ ul' = Tail(ul) /\ UNCHANGED <<peer_vars, troubles>>
     \/ Reboots
  /\ UNCHANGED <<flavour, pc, req, found, scan_i, crypto_vars, smp_vars, refused, needless>>

\* receive() ends; if an answer is still to come, that is a trouble
AnswersSeen ==
  IF ul = <<>> /\ ~connecting THEN UNCHANGED troubles ELSE Trouble

\* with ll_ctrl_pause_enc_req_post
EndReceive ==
  /\ pc \in {"receive", "enc_req"}
  /\ AnswersSeen
  /\ encrypted' = (encrypted /\ ~(req = "PAUSE_ENC_REQ" /\ found))
  /\ pc' = IF req = "CONNECT_IND" /\ flavour # "BLESUL" THEN "length" ELSE "ready"
  /\ req' = "none" /\ found' = FALSE
  /\ UNCHANGED <<flavour, scan_i, enc_tx_pkt_count, enc_rx_pkt_count, conn_iv,
                 conn_session_key, smp_vars, peer_vars, ul, refused, broken, needless>>

-----------------------------------------------------------------------------
(* reset()                                                                 *)

\* Variant of reset_terminate: the old connection is only forgotten.
reset_terminate_omitted ==
  /\ pc = "ready"
  /\ pc' = "reset"
  /\ UNCHANGED <<flavour, req, found, scan_i, crypto_vars, smp_vars, peer_vars, ul, flags>>

reset_terminate ==
  /\ pc = "ready"
  /\ send("TERMINATE_IND")
  /\ pc' = "reset"
  /\ UNCHANGED <<flavour, req, found, scan_i, encrypted, enc_rx_pkt_count, conn_iv,
                 conn_session_key, smp_vars, needless>>

\* a new access address: what is still on its way has the old one
reset ==
  /\ pc = "reset"
  /\ pc' = "scan" /\ scan_i' = 0
  /\ encrypted' = FALSE /\ enc_tx_pkt_count' = 0 /\ enc_rx_pkt_count' = 0
  /\ conn_iv' = 0 /\ conn_session_key' = NoKey
  /\ conn_ltk' = 0 /\ confirm' = 0 /\ random' = 0
  /\ ul' = [k \in DOMAIN ul |-> IF ul[k].kind \in AdvPackets THEN ul[k] ELSE Stale]
  /\ link' = IF link = "up" THEN "lost" ELSE link
  /\ UNCHANGED <<flavour, req, found, server, peer, connecting, advertising, flags>>

\* The scans before ScanResetFrom outlast a connection the dongle has left.
ScanRequest ==
  /\ pc = "scan" /\ scan_i < ScanTries
  /\ scan_i >= ScanResetFrom => Bridge \/ link # "lost"
  /\ send("SCAN_REQ")
  /\ pc' = "scan_receive" /\ req' = "SCAN_REQ" /\ found' = FALSE
  /\ UNCHANGED <<flavour, scan_i, encrypted, enc_rx_pkt_count, conn_iv, conn_session_key,
                 smp_vars, needless>>

\* What was wrong in the last query is past, unless packets of it are left.
ScanAnswered ==
  /\ pc = "scan_receive" /\ found
  /\ pc' = "ready" /\ req' = "none" /\ found' = FALSE /\ scan_i' = 0
  /\ IF ul = <<>> /\ link = "none" /\ advertising
       THEN troubles' = 0 /\ refused' = FALSE
       ELSE Trouble /\ UNCHANGED refused
  /\ UNCHANGED <<flavour, crypto_vars, smp_vars, peer_vars, ul,
                 broken, needless>>

\* Variant of ScanFailed: the device is never reset.
ScanFailed_without_reset ==
  /\ pc = "scan_receive" /\ ~found
  /\ scan_i' = scan_i + 1 /\ req' = "none" /\ pc' = "scan"
  /\ AnswersSeen
  /\ UNCHANGED <<flavour, found, crypto_vars, smp_vars, peer_vars, ul, refused,
                 broken, needless>>

ScanFailed ==
  /\ pc = "scan_receive" /\ ~found
  /\ scan_i' = scan_i + 1 /\ req' = "none"
  /\ pc' = IF scan_i >= ScanResetFrom THEN "reset_device" ELSE "scan"
  /\ AnswersSeen
  /\ UNCHANGED <<flavour, found, crypto_vars, smp_vars, peer_vars, ul, refused,
                 broken, needless>>

reset_device ==
  /\ pc = "reset_device"
  /\ pc' = "scan"
  /\ Reboots
  /\ needless' = (needless \/ ~Disturbed)
  /\ UNCHANGED <<flavour, req, found, scan_i, crypto_vars, smp_vars, refused, broken>>

ScanExhausted ==
  /\ pc = "scan" /\ scan_i = ScanTries
  /\ pc' = "raised"
  /\ UNCHANGED <<flavour, req, found, scan_i, crypto_vars, smp_vars, peer_vars, ul, flags>>

-----------------------------------------------------------------------------
Requests == (\E r \in DataRequests : Request(r)) \/ (\E r \in AdvRequests : AdvRequest(r))
              \/ ll_ctrl_enc_req

Receives == SkipPacket \/ ReceivePacket \/ ReceiveBroken \/ ReceiveGarbage \/ EndReceive

Resets == reset_terminate \/ reset \/ ScanRequest \/ ScanAnswered \/ ScanFailed
            \/ reset_device \/ ScanExhausted

Peripheral == LinkEnds \/ DongleConnects \/ Lose

Next == Requests \/ Receives \/ Resets \/ Peripheral

Spec == Init /\ [][Next]_vars

-----------------------------------------------------------------------------
SealType == {Plain} \union ((({0} \union Pairings) \X ({0} \union Nonces))
                              \X ({0} \union Nonces) \X Nat)

\* The counter of sent packets is bounded by what one key may be used for: only
\* encrypted packets count (BLESUL.py:324-338), and a new IV starts it at zero.
TypeOK ==
  /\ flavour \in Flavours
  /\ pc \in {"ready", "length", "reset", "scan", "reset_device", "raised"} \union Receiving
  /\ scan_i \in 0 .. ScanTries
  /\ enc_tx_pkt_count \in 0 .. MaxSent + 1 /\ enc_rx_pkt_count \in Nat
  /\ {conn_iv, peer.iv} \subseteq {0} \union Nonces
  /\ {conn_ltk, confirm, random, server, peer.ltk, peer.pairing} \subseteq {0} \union Pairings
  /\ {conn_session_key, peer.key} \subseteq ({0} \union Pairings) \X ({0} \union Nonces)
  /\ link \in {"up", "none", "lost"}
  /\ \A k \in DOMAIN ul : ul[k].enc \in SealType
  /\ troubles \in 0 .. MaxTroubles
  /\ {found, encrypted, connecting, advertising, refused, broken, needless} \subseteq BOOLEAN

\* Between two requests both ends agree whether they encrypt, with which key
\* and IV, and on what the other has counted - after any sequence of pairing,
\* starting, restarting and pausing encryption, and new connections
\* (BLESUL.py:201-264, 417-467) - unless an answer came late or got lost, or
\* the peripheral refused to restart an encryption.
Agreement ==
  (pc = "ready" /\ link = "up" /\ ul = <<>> /\ ~Disturbed) =>
    /\ encrypted = peer.enc
    /\ encrypted => /\ conn_session_key = peer.key /\ conn_iv = peer.iv
                    /\ enc_tx_pkt_count = peer.rx /\ enc_rx_pkt_count = peer.tx

\* "This should not happen" (BLESUL.py:469, 452): neither end meets a packet
\* it cannot open, under the same condition, though key, IV and counters change
\* between the two answers to a second LL_ENC_REQ (BLESUL.py:226-229).
NothingBroken == ~broken

\* reset() gets its scan response without resetting the device (BLESUL.py:
\* 143-189), under the same condition, whatever state the query left behind.
ResetWithoutDevice == ~needless

\* However the two ends disagree, and though the application may fail to start
\* advertising, which nobody repeats (main.c:91-96): to exhaust reset() takes as
\* many troubles as it resets the device.
ResetSucceeds == pc = "raised" => troubles >= ScanTries - ScanResetFrom

\* "A connect indication always switches to a new unencrypted connection"
\* (comment at BLESUL.py:215): the first request in a new connection is plain.
\* The flavour NimBLE says that it does otherwise (BLESUL_NimBLE.py:43-44, 56-57).
ConnectIsPlain ==
  (pc = "length" /\ link = "up" /\ ul = <<>> /\ ~Disturbed /\ ~Bridge) => ~encrypted
=============================================================================
