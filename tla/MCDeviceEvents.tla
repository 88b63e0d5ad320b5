---------------------------- MODULE MCDeviceEvents ----------------------------
(* Model checking of DeviceEvents.                                           *)
EXTENDS DeviceEvents, TLC
=============================================================================
