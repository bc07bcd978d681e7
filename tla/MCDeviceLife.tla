---------------------------- MODULE MCDeviceLife ----------------------------
(* DeviceLife for TLC; its constants are given in the configurations. *)
EXTENDS DeviceLife
=============================================================================
