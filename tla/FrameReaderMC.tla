----------------------------- MODULE FrameReaderMC -----------------------------
(***************************************************************************)
(* FrameReader on a wire of bits: a magic of two bytes in a trailer of     *)
(* three, frames of two pixels, reads of at most three bytes, so that a    *)
(* trailer can straddle any number of reads and the read-ahead can hold    *)
(* part of a frame, and pixels can look like a magic.                      *)
(***************************************************************************)
EXTENDS FrameReaderTime

MCByte == {0, 1}
MCValue == [b \in MCByte |-> b]
MCMagic == <<1, 0>>
=============================================================================
