---------------------------- MODULE MCReceiveLoop ----------------------------
(* An instance of ReceiveLoop with scaled times and counts.                 *)
EXTENDS ReceiveLoop

MCAnswers ==
  [r \in {"SCAN_REQ", "CONNECT_IND", "PAIRING_REQ", "ENC_REQ", "START_ENC_RSP"} |->
     CASE r = "SCAN_REQ"      -> {<<>>, <<"SCAN_RSP">>}
       [] r = "CONNECT_IND"   -> {<<>>}
       [] r = "PAIRING_REQ"   -> {<<>>, <<"RSP", "RSP">>}
       [] r = "ENC_REQ"       -> {<<"RSP">>, <<"ENC_RSP", "RSP">>}
       [] r = "START_ENC_RSP" -> {<<"START_ENC_RSP", "RSP", "RSP", "RSP">>}]

\* BLESUL itself has no reset command; CI is NimBLE with one that does nothing.
MCMappers ==
  {"BLESUL", "NimBLE", "nRF52840DKNimBLE", "IntelAX200BlueZ"} \X {"device"}
    \union {<<"BLESUL", "none">>, <<"NimBLE", "nothing">>}

MCScanMins == {7}

\* what the proofs about all instances assume holds of this one
ASSUME MCInTime == InTime
=============================================================================
