-------------------------------- MODULE ConnectMC --------------------------------
(***************************************************************************)
(* Connect with two processes, images of two records, and two attempts of  *)
(* WaitForCamera: one that may come too early and one more.                *)
(***************************************************************************)
EXTENDS Connect

CONSTANTS p1, p2

MCProc == {p1, p2}
=============================================================================
