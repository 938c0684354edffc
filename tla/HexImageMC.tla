------------------------------- MODULE HexImageMC -------------------------------
(***************************************************************************)
(* HexImage with bytes of three values, so that there is an unsupported    *)
(* type, records of up to two bytes and every text of up to two lines.     *)
(***************************************************************************)
EXTENDS HexImage
=============================================================================
