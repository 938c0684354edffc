------------------------------ MODULE FrameStream ------------------------------
(***************************************************************************)
(* What camera.go promises of the pixel stream, without chunks, buffers,   *)
(* read-ahead or retries: a cursor over the bytes received.  The bytes in  *)
(* front of it leave only as a whole frame with a trailer, as rejected     *)
(* pixels, as the gap before the first trailer found, or all at once when  *)
(* the stream is given up.  Module FrameReader implements it.              *)
(***************************************************************************)
EXTENDS Integers, Sequences

CONSTANTS
    Byte, Value, Magic, FrameTrailer, FrameBytes   \* as in FrameReader

VARIABLES
    stream,     \* the bytes received in front of the cursor
    frame       \* the image just handed out, <<>> when there is none

vars == <<stream, frame>>

WireFrame == FrameBytes + FrameTrailer

MarkerAt(s, i) ==
    /\ i + FrameTrailer - 1 <= Len(s)
    /\ \A k \in 1 .. Len(Magic) : Value[s[i + k - 1]] = Magic[k]

From(s, i) == SubSeq(s, i, Len(s))

Whole == MarkerAt(stream, FrameBytes + 1)

Init ==
    /\ stream = <<>>
    /\ frame = <<>>

\* Bytes arrive; while a boundary is sought, bytes where no trailer can begin
\* any more may be dropped.
Arrive ==
    /\ \E cut \in 0 .. Len(stream) :
          /\ \A i \in 1 .. cut : ~MarkerAt(stream, i)
          /\ cut > 0 => cut <= Len(stream) - FrameTrailer + 1
          /\ Len(stream') >= Len(stream) - cut
          /\ SubSeq(stream', 1, Len(stream) - cut) = From(stream, cut + 1)
    /\ frame' = <<>>

\* A frame is handed out, or thrown away by Settle; the capture may end with it.
Deliver ==
    /\ Whole
    /\ stream' \in {From(stream, WireFrame + 1), <<>>}
    /\ frame' \in {SubSeq(stream, 1, FrameBytes), <<>>}

\* The bytes after the pixels are not a trailer, but one may begin there.
Reject ==
    /\ Len(stream) >= WireFrame
    /\ ~Whole
    /\ stream' = From(stream, FrameBytes + 1)
    /\ frame' = <<>>

SkipToFirstMarker ==
    /\ \E i \in 1 .. Len(stream) :
          /\ MarkerAt(stream, i)
          /\ \A j \in 1 .. i - 1 : ~MarkerAt(stream, j)
          /\ stream' = From(stream, i + FrameTrailer)
    /\ frame' = <<>>

Abandon ==
    /\ stream' = <<>>
    /\ frame' = <<>>

\* The next call begins: the caller has the image.
Release ==
    /\ frame' = <<>>
    /\ UNCHANGED stream

Next == Arrive \/ Deliver \/ Reject \/ SkipToFirstMarker \/ Abandon \/ Release

Spec == Init /\ [][Next]_vars
=============================================================================
