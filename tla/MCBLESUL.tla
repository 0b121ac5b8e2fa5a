------------------------------ MODULE MCBLESUL ------------------------------
(* Instances of BLESUL with the rules of the nRF52840 flavour.             *)
EXTENDS BLESUL

\* pairing inputs and the answers that matter to the rule below
MCInputs  == {"LL_ADV_CONNECT_IND", "SM_PAIRING_REQ"}
MCOutputs == {{}, {"SM_FAILED"}, {"SM_FAILED", "UPDATE_REQ"}}
MCFilters == {"UPDATE_REQ"}

\* BLESUL_nRF52840.is_last_sym_suspicious
MCIsSuspicious(ins, outs) ==
  /\ Len(ins) >= 2
  /\ ins[Len(ins) - 1] = "LL_ADV_CONNECT_IND"
  /\ ins[Len(ins)] = "SM_PAIRING_REQ"
  /\ "SM_FAILED" \in outs[Len(outs)]

\* BLESUL_ArduinoNanoESP32, without a reset command
ArduinoInputs  == {"LL_ADV_CONNECT_IND", "LL_CTRL_PAUSE_ENC_REQ"}
ArduinoOutputs == {{}, {"LL_CTRL_REJECT_IND"}}

ArduinoIsSuspicious(ins, outs) ==
  /\ Len(ins) >= 2
  /\ ins[Len(ins) - 1] = "LL_ADV_CONNECT_IND"
  /\ ins[Len(ins)] = "LL_CTRL_PAUSE_ENC_REQ"
  /\ "LL_CTRL_REJECT_IND" \notin outs[Len(outs)]
=============================================================================
