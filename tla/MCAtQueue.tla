------------------------------ MODULE MCAtQueue ------------------------------
(* Values of AtQueue's constants for TLC.                                  *)
EXTENDS AtQueue

C(res, ignore) == [res |-> res, ignore |-> ignore]

(* the shape of at_enque_initialization: mandatory and optional commands *)
MCInit == <<C("OK", FALSE), C("OK", TRUE)>>
(* at_enque_ping *)
MCPing == <<C("OK", TRUE)>>
(* at_enque_dial: CLIR and D may fail, CLCC may not *)
MCDial == <<C("OK", TRUE), C("OK", TRUE), C("OK", FALSE)>>
(* at_enque_pdu: CMGS expects the prompt, then the text; a message is read *)
(* and deleted in the same way (at_enque_retrive_sms)                      *)
MCSms == <<C("PROMPT", FALSE), C("OK", FALSE)>>

MCScripts == {MCDial, MCSms}
=============================================================================
