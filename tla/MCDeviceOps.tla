----------------------------- MODULE MCDeviceOps -----------------------------
(* DeviceOps on a session of MaxOps operations; the values are in the cfgs. *)
EXTENDS DeviceOps
==============================================================================
