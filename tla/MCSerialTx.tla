----------------------------- MODULE MCSerialTx -----------------------------
(* Instances of SerialTx: a packet that looks like a header, one that looks *)
(* like a log, a log message and a checksum error.                          *)
EXTENDS SerialTx

MCPackets == {<<167, 1>>, <<127>>}
MCNotices == {<<127, 1, 0, 167>>, <<168>>, <<187, 1, 0, 0, 0, 9, 9>>}
=============================================================================
