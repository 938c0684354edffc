-------------------------------- MODULE PmsnapMC --------------------------------
(***************************************************************************)
(* Pmsnap with the windows of the README, every beginning of them, and     *)
(* what one wrong token makes of them; a millisecond of two ticks, a       *)
(* deadline of two, and timeouts that wrap at four.                        *)
(***************************************************************************)
EXTENDS Pmsnap

Full == <<"n", "x", "n", "+", "n", "+", "n">>

MCRoiTexts ==
    {SubSeq(Full, 1, k) : k \in 0 .. 7}
        \cup {[Full EXCEPT ![i] = t] : i \in 1 .. 7, t \in {"n", "x", "-", "?"}}
        \cup {<<"n", "x", "n", "?">>, <<"-", "n", "x", "n">>,
              <<"n", "x", "n", "+", "-", "n", "+", "n">>, Full \o <<"?">>}
=============================================================================
