----------------------------- MODULE MCService -----------------------------
(* Two devices that differ in their settings; the modem may refuse what    *)
(* the driver means to live with, and two commands that end the connection. *)
EXTENDS Service

Config(optional, callwaiting) ==
  [resetdongle |-> optional, u2diag |-> optional, disablesms |-> FALSE,
   autodeletesms |-> ~optional, callwaiting |-> callwaiting]
MCConfigs == {Config(TRUE, "auto"), Config(FALSE, "disallowed")}
MCTolerated == {"CVOICE", "CSCS", "CSQ", "CMGS", "SMSTEXT", "CUSD", "CMGR", "CMGD",
                "CCWA_SET", "CCWA_STATUS", "COPS"}
MCRefuses == {"CGMM", "CNMI"} \cup MCTolerated
=============================================================================
