------------------------------ MODULE FrameReader ------------------------------
(***************************************************************************)
(* The host side of image capture: Start, Stop, Settle, Frame and Snap of  *)
(* camera.go, and the routines they share (readFrame, take, settle1 and    *)
(* settleOnce).                                                            *)
(*                                                                         *)
(* The wire carries frames of FrameBytes pixels, each followed by a        *)
(* trailer of FrameTrailer bytes that opens with Magic.  The host reads    *)
(* chunks that respect no boundary.  Nothing is assumed here of the        *)
(* device: a bulk read may return any bytes, nothing, an error or a        *)
(* timeout.  Module Capture puts a device on the other end.                *)
(*                                                                         *)
(* Each action is the code between two transfers.  One call runs at a      *)
(* time: a Camera has no lock of its own and is used by one goroutine.     *)
(*                                                                         *)
(* A definition whose name ends in Slip is used nowhere: it is the one     *)
(* that follows it with a plausible mistake, which a property must notice. *)
(***************************************************************************)
EXTENDS Integers, Sequences

CONSTANTS
    Byte,           \* what a bulk read delivers, one element per byte
    Value,          \* [Byte -> Int]: the value the host sees in it
    Magic,          \* the first bytes of a trailer (frameMagic)
    FrameTrailer,   \* bytes in a trailer
    FrameBytes,     \* bytes of pixels in a frame (Camera.FrameBytes)
    SettleChunk,    \* bytes asked for by one read while settling
    MaxBulk,        \* most bytes one BulkRead of the transport returns
    MaxPolls,       \* reads that fit in one settling window
    TimeoutResults  \* what BulkRead may return on a timeout: "negative" is
                    \* (-1, nil), as transport_linux.go; "error" is (n, err),
                    \* as transport_darwin.go

ASSUME ReaderAssumption ==
    /\ Value \in [Byte -> Int]
    /\ Magic \in Seq(Int)
    /\ FrameTrailer \in Nat
    /\ Len(Magic) \in 1 .. FrameTrailer
    /\ FrameBytes \in Nat \ {0}
    /\ SettleChunk \in Nat \ {0}
    /\ MaxBulk \in Nat \ {0}
    /\ MaxPolls \in Nat \ {0}
    /\ TimeoutResults \subseteq {"negative", "error"}

VARIABLES
    call,       \* the exported method in progress
    goal,       \* what the call is after: a boundary, a frame to discard, the
                \* caller's image; kept when the call returns
    step,       \* where the call is: arming, scanning, reading, panicked
    rejected,   \* the current Frame has rejected one wire frame
    rearmed,    \* the current settle1 has armed the scan again
    polls,      \* reads left before the settling window is over
    streaming,  \* Camera.streaming
    carry,      \* Camera.carry: bytes read ahead of the frame that needed them
    scan,       \* the local buffer of settleOnce
    image,      \* the pixels copied to the caller's buffer
    trail,      \* Camera.trail: the bytes after the pixels
    result,     \* what the last call returned
    fed         \* history: every byte the current readFrame or settleOnce was
                \* given, the carry it began with included

vars == <<call, goal, step, rejected, rearmed, polls, streaming, carry, scan,
          image, trail, result, fed>>

WireFrame == FrameBytes + FrameTrailer

Smaller(a, b) == IF a < b THEN a ELSE b

\* The byte sequences a read of at most n bytes can return, when it returns any.
Chunks(n) == UNION {[1 .. k -> Byte] : k \in 1 .. n}

ReadChunks == Chunks(Smaller(WireFrame, MaxBulk))
ScanChunks == Chunks(Smaller(SettleChunk, MaxBulk))

\* A whole trailer begins at position i of s, as far as its magic tells.
MarkerAt(s, i) ==
    /\ i + FrameTrailer - 1 <= Len(s)
    /\ \A k \in 1 .. Len(Magic) : Value[s[i + k - 1]] = Magic[k]

\* Only the first byte compared.
HasMagicSlip(t) == Value[t[1]] = Magic[1]

HasMagic(t) == MarkerAt(t, 1)

HasMarker(s) == \E i \in 1 .. Len(s) : MarkerAt(s, i)

FirstMarker(s, i) ==
    /\ i \in 1 .. Len(s)
    /\ MarkerAt(s, i)
    /\ \A j \in 1 .. i - 1 : ~MarkerAt(s, j)

From(s, i) == SubSeq(s, i, Len(s))

\* One byte too few.
MayStraddleSlip(s) ==
    IF Len(s) > FrameTrailer - 2 THEN From(s, Len(s) - FrameTrailer + 3) ELSE s

\* The part of a buffer without a marker that may still hold the start of one.
MayStraddle(s) ==
    IF Len(s) > FrameTrailer - 1 THEN From(s, Len(s) - FrameTrailer + 2) ELSE s

-----------------------------------------------------------------------------
(* take: how many bytes of src go to a frame that has got bytes already, and
   how many of those are pixels.                                             *)
Room(got, src) == Smaller(WireFrame - got, Len(src))

\* The pixels got so far forgotten.
PixelsSlip(got, src) == Smaller(FrameBytes, Room(got, src))

Pixels(got, src) ==
    IF got < FrameBytes THEN Smaller(FrameBytes - got, Room(got, src)) ELSE 0

Take(img, trl, src) ==
    LET got == Len(img) + Len(trl)
        room == Room(got, src)
        pixels == Pixels(got, src)
    IN  /\ image' = img \o SubSeq(src, 1, pixels)
        /\ trail' = trl \o SubSeq(src, pixels + 1, room)
        /\ carry' = From(src, room + 1)

Got == Len(image) + Len(trail)

-----------------------------------------------------------------------------
(* Ways into and out of a routine.                                           *)

\* readFrame starts, with c as the read-ahead.
EnterRead(c) ==
    /\ step' = "read"
    /\ Take(<<>>, <<>>, c)
    /\ scan' = <<>>
    /\ fed' = c

\* settleOnce starts, with c as the read-ahead.
EnterScan(c) ==
    /\ step' = "scan"
    /\ polls' = MaxPolls
    /\ scan' = c
    /\ fed' = c
    /\ carry' = <<>>
    /\ image' = <<>>
    /\ trail' = <<>>

Return(r) ==
    /\ call' = "none"
    /\ step' = "none"
    /\ result' = r

\* What is left on return: c, except that Snap stops the camera.
Leave(c) ==
    IF call = "Snap"
    THEN streaming' = FALSE /\ carry' = <<>>
    ELSE carry' = c /\ UNCHANGED streaming

\* Frame reports the misalignment it met first, whatever failed later.
Failure(e) == IF rejected THEN "misaligned" ELSE e

Forget == /\ image' = <<>>
          /\ trail' = <<>>
          /\ scan' = <<>>
          /\ fed' = <<>>

Panic ==
    /\ step' = "panicked"
    /\ UNCHANGED <<call, goal, rejected, rearmed, polls, streaming, carry, scan,
                   image, trail, result, fed>>

-----------------------------------------------------------------------------
(* The caller.                                                               *)

Call(m, g) ==
    /\ call = "none"
    /\ call' = m
    /\ goal' = g
    /\ result' = "none"
    /\ rejected' = FALSE
    /\ rearmed' = FALSE

CallStart ==
    /\ Call("Start", "none")
    /\ step' = "arm"
    /\ Forget
    /\ UNCHANGED <<polls, streaming, carry>>

CallSnap ==
    /\ Call("Snap", "boundary")
    /\ step' = "arm"
    /\ Forget
    /\ UNCHANGED <<polls, streaming, carry>>

CallSettle ==
    /\ Call("Settle", "boundary")
    /\ EnterScan(carry)
    /\ UNCHANGED streaming

CallFrame ==
    /\ Call("Frame", "image")
    /\ EnterRead(carry)
    /\ UNCHANGED <<polls, streaming>>

\* The caller's buffer is smaller than a frame.
CallFrameShort ==
    /\ call = "none"
    /\ result' = "short"
    /\ UNCHANGED <<call, goal, step, rejected, rearmed, polls, streaming, carry,
                   scan, image, trail, fed>>

\* The read-ahead kept.
CallStopSlip ==
    /\ call = "none"
    /\ goal' = "none"
    /\ result' \in {"nil", "io"}
    /\ streaming' = FALSE
    /\ Forget
    /\ UNCHANGED <<call, step, rejected, rearmed, polls, carry>>

\* ClearHalt's error does not undo what Stop has cleared.
CallStop ==
    /\ call = "none"
    /\ goal' = "none"
    /\ result' \in {"nil", "io"}
    /\ streaming' = FALSE
    /\ carry' = <<>>
    /\ Forget
    /\ UNCHANGED <<call, step, rejected, rearmed, polls>>

-----------------------------------------------------------------------------
(* Start: called by the user, by Snap, and by settle1 to re-arm.             *)

ArmOk ==
    /\ step = "arm"
    /\ streaming' = TRUE
    /\ IF call = "Start"
       THEN /\ Return("nil")
            /\ carry' = <<>>
            /\ UNCHANGED <<polls, scan, image, trail, fed>>
       ELSE /\ EnterScan(<<>>)
            /\ UNCHANGED <<call, result>>
    /\ UNCHANGED <<goal, rejected, rearmed>>

\* Snap stops the camera only if its own Start succeeded.
ArmFails ==
    /\ step = "arm"
    /\ Return(Failure("io"))
    /\ carry' = <<>>
    /\ streaming' = IF call = "Snap" /\ rearmed THEN FALSE ELSE streaming
    /\ UNCHANGED <<goal, rejected, rearmed, polls, scan, image, trail, fed>>

-----------------------------------------------------------------------------
(* readFrame, and what Frame, Settle and Snap do when it returns.            *)

Reading == step = "read" /\ Got < WireFrame

ReadData(chunk) ==
    /\ Reading
    /\ fed' = fed \o chunk
    /\ Take(image, trail, chunk)
    /\ UNCHANGED <<call, goal, step, rejected, rearmed, polls, streaming, scan,
                   result>>

\* The read returned an error, or no bytes.
ReadFails ==
    /\ Reading
    /\ Return(Failure("io"))
    /\ Leave(<<>>)
    /\ UNCHANGED <<goal, rejected, rearmed, polls, scan, image, trail, fed>>

\* A length of -1 passes both tests of readFrame and is then used as an index.
ReadTimeout ==
    /\ Reading
    /\ \/ "negative" \in TimeoutResults /\ Panic
       \/ "error" \in TimeoutResults /\ ReadFails

\* The frame Settle throws away: Snap goes on to the caller's.
ReadNextImage ==
    /\ step = "read"
    /\ Got = WireFrame
    /\ HasMagic(trail)
    /\ goal = "discard"
    /\ call = "Snap"
    /\ goal' = "image"
    /\ rejected' = FALSE
    /\ EnterRead(carry)
    /\ UNCHANGED <<call, rearmed, polls, streaming, result>>

ReadValid ==
    /\ step = "read"
    /\ Got = WireFrame
    /\ HasMagic(trail)
    /\ ~(goal = "discard" /\ call = "Snap")
    /\ Return("nil")
    /\ Leave(carry)
    /\ UNCHANGED <<goal, rejected, rearmed, polls, scan, image, trail, fed>>

\* The rejected trailer dropped with the pixels.
ReadRejectedSlip ==
    /\ step = "read"
    /\ Got = WireFrame
    /\ ~HasMagic(trail)
    /\ ~rejected
    /\ rejected' = TRUE
    /\ rearmed' = FALSE
    /\ EnterScan(carry)
    /\ UNCHANGED <<call, goal, streaming, result>>

\* The first rejection: Frame calls settle1 and will read once more.
ReadRejected ==
    /\ step = "read"
    /\ Got = WireFrame
    /\ ~HasMagic(trail)
    /\ ~rejected
    /\ rejected' = TRUE
    /\ rearmed' = FALSE
    /\ EnterScan(trail \o carry)
    /\ UNCHANGED <<call, goal, streaming, result>>

\* A retry that retries.
ReadRejectedAgainSlip ==
    /\ step = "read"
    /\ Got = WireFrame
    /\ ~HasMagic(trail)
    /\ rejected
    /\ rearmed' = FALSE
    /\ EnterScan(trail \o carry)
    /\ UNCHANGED <<call, goal, rejected, streaming, result>>

\* The retry is rejected too.
ReadRejectedAgain ==
    /\ step = "read"
    /\ Got = WireFrame
    /\ ~HasMagic(trail)
    /\ rejected
    /\ Return("misaligned")
    /\ Leave(trail \o carry)
    /\ UNCHANGED <<goal, rejected, rearmed, polls, scan, image, trail, fed>>

-----------------------------------------------------------------------------
(* settleOnce, and what settle1 does when it returns.                        *)

Scanning == step = "scan" /\ ~HasMarker(scan)

\* The frame after the boundary not thrown away: Settle returns, Snap takes it.
ScanFoundStaleSlip ==
    /\ step = "scan"
    /\ \E i \in 1 .. Len(scan) :
          /\ FirstMarker(scan, i)
          /\ IF goal = "boundary" /\ call = "Settle"
             THEN /\ Return("nil")
                  /\ Take(<<>>, <<>>, From(scan, i + FrameTrailer))
                  /\ UNCHANGED <<scan, fed>>
             ELSE /\ EnterRead(From(scan, i + FrameTrailer))
                  /\ UNCHANGED <<call, result>>
    /\ goal' = IF goal = "boundary" THEN "image" ELSE goal
    /\ UNCHANGED <<rejected, rearmed, polls, streaming>>

\* The read-ahead begins after the magic, not after the trailer.
ScanFoundSlip ==
    /\ step = "scan"
    /\ \E i \in 1 .. Len(scan) :
          /\ FirstMarker(scan, i)
          /\ EnterRead(From(scan, i + Len(Magic)))
    /\ goal' = IF goal = "boundary" THEN "discard" ELSE goal
    /\ UNCHANGED <<call, rejected, rearmed, polls, streaming, result>>

\* A boundary: the bytes after the trailer are the read-ahead of the next frame.
ScanFound ==
    /\ step = "scan"
    /\ \E i \in 1 .. Len(scan) :
          /\ FirstMarker(scan, i)
          /\ EnterRead(From(scan, i + FrameTrailer))
    /\ goal' = IF goal = "boundary" THEN "discard" ELSE goal
    /\ UNCHANGED <<call, rejected, rearmed, polls, streaming, result>>

\* No deadline.
ScanDataSlip(chunk) ==
    /\ Scanning
    /\ polls' = polls - 1
    /\ scan' = MayStraddle(scan) \o chunk
    /\ fed' = fed \o chunk
    /\ UNCHANGED <<call, goal, step, rejected, rearmed, streaming, carry, image,
                   trail, result>>

ScanData(chunk) ==
    /\ Scanning
    /\ polls > 1
    /\ polls' = polls - 1
    /\ scan' = MayStraddle(scan) \o chunk
    /\ fed' = fed \o chunk
    /\ UNCHANGED <<call, goal, step, rejected, rearmed, streaming, carry, image,
                   trail, result>>

\* Re-armed as often as there is no boundary.
NoBoundarySlip ==
    /\ rearmed' = TRUE
    /\ step' = "arm"
    /\ carry' = <<>>
    /\ Forget
    /\ UNCHANGED <<call, goal, rejected, polls, streaming, result>>

\* settleOnce returned ErrMisaligned: settle1 re-arms, once.
NoBoundary ==
    \/ /\ ~rearmed
       /\ rearmed' = TRUE
       /\ step' = "arm"
       /\ carry' = <<>>
       /\ Forget
       /\ UNCHANGED <<call, goal, rejected, polls, streaming, result>>
    \/ /\ rearmed
       /\ Return("misaligned")
       /\ Leave(<<>>)
       /\ UNCHANGED <<goal, rejected, rearmed, polls, scan, image, trail, fed>>

\* Bytes arrived, but only as the window closed: they are not looked at.
ScanLate == Scanning /\ NoBoundary

\* A read of no bytes.
ScanEmpty == Scanning /\ NoBoundary

ScanFails ==
    /\ Scanning
    /\ Return(Failure("io"))
    /\ Leave(<<>>)
    /\ UNCHANGED <<goal, rejected, rearmed, polls, scan, image, trail, fed>>

ScanTimeout ==
    /\ Scanning
    /\ \/ "negative" \in TimeoutResults /\ Panic
       \/ "error" \in TimeoutResults /\ ScanFails

-----------------------------------------------------------------------------
Init ==
    /\ call = "none"
    /\ goal = "none"
    /\ step = "none"
    /\ rejected = FALSE
    /\ rearmed = FALSE
    /\ polls = MaxPolls
    /\ streaming = FALSE
    /\ carry = <<>>
    /\ scan = <<>>
    /\ image = <<>>
    /\ trail = <<>>
    /\ result = "none"
    /\ fed = <<>>

Caller ==
    CallStart \/ CallSnap \/ CallSettle \/ CallFrame \/ CallFrameShort \/ CallStop

Arm == ArmOk \/ ArmFails

Read ==
    \/ \E chunk \in ReadChunks : ReadData(chunk)
    \/ ReadFails
    \/ ReadTimeout
    \/ ReadNextImage
    \/ ReadValid
    \/ ReadRejected
    \/ ReadRejectedAgain

Scan ==
    \/ ScanFound
    \/ \E chunk \in ScanChunks : ScanData(chunk)
    \/ ScanLate
    \/ ScanEmpty
    \/ ScanFails
    \/ ScanTimeout

\* A call in progress: each transfer ends, and the code after it runs.
Progress == Arm \/ Read \/ Scan

Next == Caller \/ Progress

Spec == Init /\ [][Next]_vars

-----------------------------------------------------------------------------
(* Properties.                                                               *)

TypeOK ==
    /\ call \in {"none", "Start", "Settle", "Frame", "Snap"}
    /\ goal \in {"none", "boundary", "discard", "image"}
    /\ step \in {"none", "arm", "scan", "read", "panicked"}
    /\ rejected \in BOOLEAN
    /\ rearmed \in BOOLEAN
    /\ polls \in 1 .. MaxPolls
    /\ streaming \in BOOLEAN
    /\ carry \in Seq(Byte)
    /\ scan \in Seq(Byte)
    /\ image \in Seq(Byte)
    /\ trail \in Seq(Byte)
    /\ result \in {"none", "nil", "misaligned", "io", "short"}
    /\ fed \in Seq(Byte)

(* While a frame is read, the pixels, the trailer and the read-ahead are the
   bytes received, in order, each exactly once, and nothing is read ahead of a
   frame that is still short: take, the carry it starts from and the carry it
   leaves agree at every split of the stream into chunks (camera.go:475-495). *)
Contiguous ==
    step = "read" =>
        /\ fed = image \o trail \o carry
        /\ Got < WireFrame => carry = <<>>
        /\ trail # <<>> => Len(image) = FrameBytes

(* While settling, the buffer is the end of what was received, and no trailer
   begins in what was cut off it: a marker that straddles reads is never lost
   to the trimming of camera.go:568-570.                                     *)
NothingSkipped ==
    step = "scan" =>
        LET cut == Len(fed) - Len(scan)
        IN  /\ cut >= 0
            /\ scan = From(fed, cut + 1)
            /\ \A i \in 1 .. cut : ~MarkerAt(fed, i)

(* An image is handed out only if a trailer follows its last pixel on the wire,
   and it is then the FrameBytes received before that trailer, whatever was
   rejected or scanned on the way (camera.go:450-451, 497).                  *)
OnlyValidated ==
    (call = "none" /\ result = "nil" /\ goal = "image") =>
        /\ image = SubSeq(fed, 1, FrameBytes)
        /\ MarkerAt(fed, FrameBytes + 1)

(* A resync ends at the first trailer of everything received since it began, and
   the next frame starts with the byte after it (camera.go:561-567).         *)
ResyncFindsFirst ==
    [][(step = "scan" /\ step' = "read") =>
          \E i \in 1 .. Len(fed) :
             /\ FirstMarker(fed, i)
             /\ fed' = From(fed, i + FrameTrailer)]_vars

(* A resync after a rejected frame looks at every byte after the rejected
   pixels: a marker may begin inside the rejected trailer (camera.go:498-499). *)
RejectKeepsTail ==
    [][(step = "read" /\ step' = "scan") =>
          fed' = From(fed, FrameBytes + 1)]_vars

(* What any return leaves for the next call is nothing, with three exceptions: after
   a frame Settle and Frame leave what was received behind its trailer, after a
   second rejection what follows the rejected pixels, and Frame with a short buffer
   what there was.  So no byte from before an error, a Stop, a Start or a Snap
   enters a later frame; nor does one from before a re-arm, which scans from nothing
   (camera.go:419, 434, 467-501, 560, 572-583, 593).                         *)
OnlyReadAheadLeft ==
    [][/\ call' = "none" =>
             \/ carry' = <<>>
             \/ /\ call \in {"Settle", "Frame"}
                /\ step = "read"
                /\ \/ result' = "nil" /\ carry' = From(fed, WireFrame + 1)
                   \/ result' = "misaligned" /\ carry' = From(fed, FrameBytes + 1)
             \/ result' = "short" /\ carry' = carry
       /\ (step = "arm" /\ step' = "scan") => fed' = <<>>]_vars

(* Frame reads at most two wire frames and arms the scan at most once: once it
   has rejected a frame it never starts over (camera.go:453-463).            *)
OneRetry ==
    [][(call = "Frame" /\ call' = "Frame" /\ rejected) =>
          /\ rejected'
          /\ step = "read" => step' \in {"read", "panicked"}
          /\ (step = "scan" /\ step' = "arm") => ~rearmed]_vars

(* camera.go:543-544: "A previous interrupted run can leave the endpoint stalled;
   re-arm once if no frame boundary appeared during the settling window."  A
   window in which nothing at all arrives is one: the read times out.        *)
SilentWindowRearms == [][(ScanTimeout /\ ~rearmed) => step' = "arm"]_vars

-----------------------------------------------------------------------------
(* The bytes in front of the reader's cursor, and the image it has handed out. *)
Pending ==
    CASE step = "read" -> image \o trail \o carry
      [] step = "scan" -> scan
      [] OTHER         -> carry

HandedOut ==
    IF call = "none" /\ result = "nil" /\ goal = "image" THEN image ELSE <<>>

Stream == INSTANCE FrameStream WITH stream <- Pending, frame <- HandedOut

(* The chunked, buffered, retrying reader is a cursor over the bytes received
   that gives up a byte only with a whole frame, a rejected frame's pixels, a gap
   without a trailer, or the whole capture (camera.go:418-602).              *)
ImplementsStream == Stream!Spec

=============================================================================
