-------------------------------- MODULE CaptureMC --------------------------------
(***************************************************************************)
(* Capture with frames of two packets.  A trailer is a byte shorter than a *)
(* packet, so, as 5 and 512, its length and a packet's have no common      *)
(* divisor.  Dark pixels do not look like a magic.                         *)
(***************************************************************************)
EXTENDS Capture

MCByte == (1 .. MaxFrames) \X (1 .. WireFrame)
MCMagic == <<1>>
MCValue == [b \in MCByte |-> IF b[2] = FrameBytes + 1 THEN 1 ELSE 0]

ASSUME DarkScene == NoLookAlike
ASSUME ShortRun == FewFrames

\* The state without what nothing reads again: fed, which is history of module
\* FrameReader's properties, and the locals of a call that has returned or of the
\* routine that is not running.  States that agree on the rest have the same steps
\* and satisfy the same properties of Capture.
LiveState == <<
    call, goal, step, streaming, carry, result, device, urb, history,
    IF call = "none" THEN <<>> ELSE <<rejected, rearmed>>,
    IF step = "scan" THEN <<polls, scan>> ELSE <<>>,
    IF step = "read" \/ Delivered THEN <<image, trail>> ELSE <<>> >>
=============================================================================
