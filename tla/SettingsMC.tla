------------------------------- MODULE SettingsMC -------------------------------
(***************************************************************************)
(* Settings with an array of 4 by 4 pixels, packets of 8 and rows of two   *)
(* units of time.  Callers ask for the right half of the array, for a      *)
(* window that is no whole number of packets and for one outside; for a    *)
(* gain that is none and one of the digital part of the ladder, Init's     *)
(* being the first of the analog part; and for no exposure, one shorter    *)
(* than a row and one whose added time the request cannot hold.            *)
(***************************************************************************)
EXTENDS Settings

MCWindows == {<<2, 0, 2, 4>>, <<2, 2, 2, 2>>, <<2, 0, 4, 4>>}
MCGains == {0, 8}
MCOffsets == {-1, 3}
MCExposures == {0, 1, 18}
MCDigitalGain == [g \in 1 .. GainMax |-> IF g <= 7 THEN 32 ELSE 35]
=============================================================================
