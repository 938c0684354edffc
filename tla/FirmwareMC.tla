------------------------------- MODULE FirmwareMC -------------------------------
(***************************************************************************)
(* Firmware with one transfer more than the camera can hold traces of: the *)
(* host's, the register read before it, and the bytes left from another.   *)
(***************************************************************************)
EXTENDS Firmware
=============================================================================
