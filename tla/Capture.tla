--------------------------------- MODULE Capture ---------------------------------
(***************************************************************************)
(* FrameReader with the camera on the other end of the wire: the sensor    *)
(* that reads out frames whatever anybody does, the FX2 endpoint FIFO the  *)
(* pixels go through, the interrupt that ends each frame, the firmware's   *)
(* main loop, and the USB transfer a bulk read makes of FIFO packets.      *)
(*                                                                         *)
(* Every byte carries the number of the frame it belongs to and its place  *)
(* there, so that a property can tell which bytes an image is made of.     *)
(* The host sees only its Value.                                           *)
(*                                                                         *)
(* The sensor, the FIFO and the USB controller are hardware: they are      *)
(* modelled from how the firmware and the transports program and use them. *)
(***************************************************************************)
EXTENDS FrameReader

CONSTANTS
    Packet,         \* bytes the FIFO commits as a packet by itself
    FifoDepth,      \* packets the FIFO holds
    MaxFrames,      \* bound: the sensor stops after this many frames
    AddedExposure   \* whether added_ms is not zero

ASSUME CaptureAssumption ==
    /\ Packet \in Nat
    /\ FrameTrailer < Packet            \* a trailer is a short packet; 5 and 512
    /\ \A t \in 1 .. Packet - 1 : (t * FrameTrailer) % Packet # 0
    /\ FrameBytes % Packet = 0          \* SetROI: a whole number of packets
    /\ FifoDepth \in Nat \ {0}
    /\ MaxFrames \in Nat \ {0}
    /\ AddedExposure \in BOOLEAN
    /\ Byte = (1 .. MaxFrames) \X (1 .. WireFrame)
    /\ \A f \in 1 .. MaxFrames, k \in 1 .. Len(Magic) :
          Value[<<f, FrameBytes + k>>] = Magic[k]       \* frame_end

\* Bytes in the order of the sensor read as a magic only where a trailer begins: the
\* scene's share in what follows, which no code ensures.
InOrder(s) ==
    \A i, j \in 1 .. Len(s) :
        i < j => \/ s[i][1] < s[j][1]
                 \/ s[i][1] = s[j][1] /\ s[i][2] < s[j][2]

NoLookAlike ==
    \A m \in [1 .. Len(Magic) -> Byte] :
        (InOrder(m) /\ \A k \in 1 .. Len(Magic) : Value[m[k]] = Magic[k])
            => m[1][2] = FrameBytes + 1

\* Too few frames for an image to be made of their trailers alone; see WholeFrame.
FewFrames == MaxFrames <= Packet

VARIABLES
    frame,          \* the frame the sensor is reading out, or will next
    pos,            \* its pixels read out so far
    fifo,           \* EP2: committed packets
    part,           \* EP2: the packet being filled
    running,        \* IFCONFIG_STREAM has been set (streaming in main.c)
    gated,          \* the main loop is in delay_ms, pixel transfer off
    pending,        \* frame_pending
    urb,            \* the bytes of the transfer in progress
    startedAt,      \* history: frame when Start was last called, re-arming aside
    armedAt,        \* history: frame when the scan was last armed
    intact,         \* history: since then neither side lost a byte that counts
    synced,         \* history: since then settling has found a boundary
    markerLost      \* history: since then a trailer was lost

device == <<frame, pos, fifo, part, running, gated, pending>>
history == <<startedAt, armedAt, intact, synced, markerLost>>
captureVars == <<vars, device, urb, history>>

PixelByte == <<frame, pos + 1>>
Trailer == [k \in 1 .. FrameTrailer |-> <<frame, FrameBytes + k>>]

FifoFull == Len(fifo) = FifoDepth

-----------------------------------------------------------------------------
(* The device.                                                               *)

\* The frame in progress when the scan is armed may lose what it likes: nothing of
\* it is looked at but its trailer.
Counts(lost) == lost /\ frame > armedAt

\* A pixel while the slave FIFO is disconnected or full is gone.
PixelLost ==
    /\ pos' = pos + 1
    /\ intact' = (intact /\ ~Counts(TRUE))
    /\ UNCHANGED <<fifo, part, synced, markerLost, startedAt, armedAt>>

PixelStored ==
    /\ pos' = pos + 1
    /\ IF Len(part) + 1 = Packet
       THEN /\ fifo' = Append(fifo, Append(part, PixelByte))
            /\ part' = <<>>
       ELSE /\ part' = Append(part, PixelByte)
            /\ UNCHANGED fifo
    /\ UNCHANGED history

SensorPixel ==
    /\ frame <= MaxFrames
    /\ pos < FrameBytes
    /\ IF running /\ ~gated /\ ~FifoFull THEN PixelStored ELSE PixelLost
    /\ UNCHANGED <<vars, frame, running, gated, pending, urb>>

\* The packet being filled sent, short, before the trailer.
FrameEndSlip ==
    /\ frame <= MaxFrames
    /\ pos = FrameBytes
    /\ pos' = 0
    /\ frame' = frame + 1
    /\ pending' = TRUE
    /\ part' = <<>>
    /\ fifo' = IF FifoFull THEN fifo
               ELSE IF part = <<>> THEN Append(fifo, Trailer)
               ELSE Append(Append(fifo, part), Trailer)
    /\ markerLost' = (markerLost \/ FifoFull)
    /\ intact' = (intact /\ ~Counts(FifoFull))
    /\ UNCHANGED <<vars, running, gated, urb, startedAt, armedAt, synced>>

\* frame_end: the trailer goes out as a packet of its own, over whatever the
\* packet being filled holds, streaming or not.
FrameEnd ==
    /\ frame <= MaxFrames
    /\ pos = FrameBytes
    /\ pos' = 0
    /\ frame' = frame + 1
    /\ pending' = TRUE
    /\ part' = <<>>
    /\ fifo' = IF FifoFull THEN fifo ELSE Append(fifo, Trailer)
    /\ markerLost' = (markerLost \/ FifoFull)
    /\ intact' = (intact /\ ~Counts(FifoFull \/ part # <<>>))
    /\ UNCHANGED <<vars, running, gated, urb, startedAt, armedAt, synced>>

\* The main loop takes up a finished frame: with added exposure it turns the pixel
\* transfer off and waits.
MainLoopGates ==
    /\ pending
    /\ ~gated
    /\ pending' = FALSE
    /\ gated' = (AddedExposure /\ running)
    /\ UNCHANGED <<vars, frame, pos, fifo, part, running, urb, history>>

MainLoopResumes ==
    /\ gated
    /\ gated' = FALSE
    /\ UNCHANGED <<vars, frame, pos, fifo, part, running, pending, urb, history>>

Device == SensorPixel \/ FrameEnd \/ MainLoopGates \/ MainLoopResumes

-----------------------------------------------------------------------------
(* Start at the device: REQ_BEGIN_SCAN.                                      *)

\* stream_start: the FIFO is reset and pixel transfer turned on.
BeginScan ==
    /\ fifo' = <<>>
    /\ part' = <<>>
    /\ running' = TRUE
    /\ UNCHANGED <<frame, pos, gated, pending>>

\* The main loop answers requests only while it is not waiting in delay_ms.
StartDone ==
    /\ ArmOk
    /\ ~gated
    /\ BeginScan
    /\ startedAt' = IF rearmed THEN startedAt ELSE frame
    /\ armedAt' = frame
    /\ intact' = TRUE
    /\ synced' = FALSE
    /\ markerLost' = FALSE
    /\ UNCHANGED urb

\* A request that fails, or is carried out and not answered in time.
StartFails ==
    /\ ArmFails
    /\ \/ UNCHANGED device
       \/ ~gated /\ BeginScan
    /\ intact' = FALSE
    /\ UNCHANGED <<urb, startedAt, armedAt, synced, markerLost>>

-----------------------------------------------------------------------------
(* A bulk read: a transfer ends with a short packet or when it is full, and  *)
(* fails when a packet does not fit in what is left of it.                   *)

Waiting == Reading \/ Scanning

Asked == Smaller(IF step = "read" THEN WireFrame ELSE SettleChunk, MaxBulk)

Arrived == urb \o Head(fifo)

Ends == Len(Head(fifo)) < Packet \/ Len(Arrived) = Asked

Fits == Len(Arrived) <= Asked

Gone == /\ intact' = FALSE
        /\ UNCHANGED <<startedAt, armedAt, synced, markerLost>>

TransferGrows ==
    /\ Waiting
    /\ fifo # <<>>
    /\ Fits
    /\ ~Ends
    /\ urb' = Arrived
    /\ fifo' = Tail(fifo)
    /\ UNCHANGED <<vars, frame, pos, part, running, gated, pending, history>>

TransferEnds ==
    /\ fifo # <<>>
    /\ Fits
    /\ Ends
    /\ \/ (ReadData(Arrived) \/ ScanData(Arrived)) /\ UNCHANGED history
       \/ ScanLate /\ Gone
    /\ urb' = <<>>
    /\ fifo' = Tail(fifo)
    /\ UNCHANGED <<frame, pos, part, running, gated, pending>>

TransferOverflows ==
    /\ fifo # <<>>
    /\ ~Fits
    /\ ReadFails \/ ScanFails
    /\ Gone
    /\ urb' = <<>>
    /\ fifo' = Tail(fifo)
    /\ UNCHANGED <<frame, pos, part, running, gated, pending>>

\* What has arrived by the timeout is lost (linux) or is what is read (darwin).
TransferTimesOut ==
    /\ \/ /\ "error" \in TimeoutResults
          /\ urb # <<>>
          /\ ReadData(urb) \/ ScanData(urb)
          /\ UNCHANGED history
       \/ /\ "negative" \in TimeoutResults \/ urb = <<>>
          /\ ReadTimeout \/ ScanTimeout
          /\ Gone
    /\ urb' = <<>>
    /\ UNCHANGED device

TransferFails ==
    /\ ReadFails \/ ScanFails
    /\ Gone
    /\ urb' = <<>>
    /\ UNCHANGED device

Transfer ==
    TransferGrows \/ TransferEnds \/ TransferOverflows \/ TransferTimesOut
        \/ TransferFails

-----------------------------------------------------------------------------
(* The host between transfers.                                               *)

HostCalls ==
    /\ CallStart \/ CallSnap \/ CallSettle \/ CallFrame
    /\ UNCHANGED <<device, urb, history>>

\* The read-ahead is dropped; the device is not told.
HostStops ==
    /\ CallStop
    /\ Gone
    /\ UNCHANGED <<device, urb>>

HostReads ==
    \/ /\ ReadNextImage
       /\ UNCHANGED <<device, urb, history>>
    \/ /\ ReadValid
       /\ intact' = (intact /\ call # "Snap")
       /\ UNCHANGED <<device, urb, startedAt, armedAt, synced, markerLost>>
    \/ /\ ReadRejected \/ ReadRejectedAgain
       /\ Gone
       /\ UNCHANGED <<device, urb>>

HostFinds ==
    /\ ScanFound
    /\ synced' = TRUE
    /\ UNCHANGED <<device, urb, startedAt, armedAt, intact, markerLost>>

Host ==
    HostCalls \/ HostStops \/ StartDone \/ StartFails \/ HostReads \/ HostFinds

-----------------------------------------------------------------------------
CaptureInit ==
    /\ Init
    /\ frame = 1
    /\ pos = 0
    /\ fifo = <<>>
    /\ part = <<>>
    /\ running = FALSE
    /\ gated = FALSE
    /\ pending = FALSE
    /\ urb = <<>>
    /\ startedAt = 1
    /\ armedAt = 1
    /\ intact = FALSE
    /\ synced = FALSE
    /\ markerLost = FALSE

CaptureNext == Device \/ Transfer \/ Host

CaptureSpec == CaptureInit /\ [][CaptureNext]_captureVars

-----------------------------------------------------------------------------
(* Properties.                                                               *)

\* The device's variables keep their types and bounds: a packet being filled is
\* short, and exists only while the FIFO has room for it (main.c:33-45).
CaptureTypeOK ==
    /\ frame \in 1 .. MaxFrames + 1
    /\ pos \in 0 .. FrameBytes
    /\ fifo \in Seq(Seq(Byte)) /\ Len(fifo) <= FifoDepth
    /\ part \in Seq(Byte) /\ Len(part) < Packet
    /\ FifoFull => part = <<>>
    /\ {running, gated, pending, intact, synced, markerLost} \subseteq BOOLEAN
    /\ gated => running
    /\ urb \in Seq(Byte) /\ Len(urb) < WireFrame + SettleChunk
    /\ startedAt \in 1 .. armedAt /\ armedAt \in 1 .. MaxFrames + 1

Delivered == call = "none" /\ result = "nil" /\ goal = "image"

OneFrame(img) == \E f \in 1 .. MaxFrames : img = [k \in 1 .. FrameBytes |-> <<f, k>>]

(* As long as every trailer since the last Start got into the FIFO, an image is
   one whole frame of the sensor: pixels lost to a full FIFO or to the gate, a
   trailer written over a partial packet, or a read begun anywhere never make an
   image of parts of frames.  This is what SetROI's whole number of packets buys
   (camera.go:152, main.c:31-32): an image with a trailer in it would need as many
   of them as a packet has bytes.  FewFrames leaves out that image, of 512 frames
   that lost all their pixels and no trailer.                                *)
WholeFrame == (Delivered /\ ~markerLost) => OneFrame(image)

(* camera.go:450-451: "a partially aligned image is never returned as valid". *)
NeverPartial == Delivered => OneFrame(image)

\* What the next Frame has to read: what is left over, what the device holds.
Unread == {carry, part} \cup {fifo[n] : n \in 1 .. Len(fifo)}

(* After a Start, whatever there is to read when Settle returns, on the host and in
   the device, and the image Snap returns, is of frames that began after the one in
   which Start's settings can first have been in effect all along: never the frame
   in progress, nor the one after it.  The re-arming in a resync is no such Start:
   Frame hands out the first frame after it (camera.go:453-463, 524-525).    *)
SettledIsFresh ==
    [][(call' = "none" /\ result' = "nil") =>
          /\ call = "Settle" =>
                /\ \A s \in Unread' : \A i \in 1 .. Len(s) : s[i][1] >= startedAt + 2
                /\ frame' >= startedAt + 2
          /\ call = "Snap" =>
                \A i \in 1 .. Len(image') : image'[i][1] >= startedAt + 2]_captureVars

(* Once settling has found a boundary, and as long as neither side loses a byte, no
   frame is rejected: short packets, capped transfers and read-ahead never move the
   reader off the boundary (camera.go:466-504).                              *)
NoFalseAlarm ==
    [][(ReadRejected \/ ReadRejectedAgain) => ~(intact /\ synced)]_captureVars

=============================================================================
