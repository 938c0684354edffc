-------------------------------- MODULE Firmware --------------------------------
(***************************************************************************)
(* The control path of the camera: the main loop of main.c, which polls    *)
(* for a control request, carries it out and then looks whether a frame    *)
(* has ended, in which case it holds pixel transfer for the added          *)
(* exposure; the endpoint-0 handshake of usb.c; and a host (ControlOut and *)
(* ControlIn of the transports) that makes one transfer at a time and may  *)
(* give any of them up.                                                    *)
(*                                                                         *)
(* The 8051 waits by spinning: in delay_ms, and in ep0_recv until the data *)
(* of a request is there.  A SETUP packet is accepted by the hardware      *)
(* whatever the 8051 does, overwrites SETUPDAT, disarms endpoint 0 and     *)
(* refuses the status stage until the 8051 allows it.                      *)
(*                                                                         *)
(* A transfer has an id that nothing in the camera is still known by.  It  *)
(* asks for register id, and its data, if it has any, is id too, so that a *)
(* write of another value than the register's own is one that mixes two    *)
(* transfers.                                                              *)
(***************************************************************************)
EXTENDS Naturals

CONSTANTS
    Ids,        \* transfers that are told apart
    Attempts,   \* of one transfer: 4 on darwin (pm_control), 1 on linux
    Blanking,   \* the sensor's vertical blanking, in units of its pixels' readout
    Added       \* the added exposure, in such units

ASSUME FirmwareAssumption ==
    /\ Ids \in Nat /\ Ids >= 3
    /\ Attempts \in Nat \ {0}
    /\ Blanking \in Nat \ {0}
    /\ Added \in Nat

VARIABLES
    id, kind,   \* the host's transfer: a request with data to the device, the one
                \* that begins a scan, one with data to the host, one without, one
                \* that is unknown
    stage,      \* where the host is in it
    tries,      \* attempts made of it
    result,     \* how the last one ended
    answer,     \* the register whose value a read was given, Zeros or None
    sudav,      \* USBIRQ.SUDAV: a SETUP packet has arrived
    busy,       \* EP0CS.BUSY: endpoint 0 is armed
    count,      \* EP0BCL
    buf,        \* EP0BUF: the transfer it is from, or Zeros
    nak,        \* EP0CS.HSNAK not yet cleared: the status stage waits
    stalled,    \* EP0CS.STALL
    pc,         \* where the 8051 is
    reg,        \* vendor_request's reg
    left,       \* units left of delay_ms
    row,        \* units of the frame gone by: the blanking, then the pixels
    pending,    \* frame_pending
    whole,      \* no pixel of the current frame was held back
    done,       \* history: times the transfer was carried out as asked
    stray,      \* history: during it, something was carried out that is not its own
    tainted     \* history: a transfer was given up and the 8051 has not been at
                \* rest at the beginning of one since

host == <<id, kind, stage, tries, result, answer>>
ep0 == <<sudav, busy, count, buf, nak, stalled>>
sensor == <<row, pending, whole>>
history == <<done, stray, tainted>>
vars == <<host, ep0, pc, left, reg, sensor, history>>

\* What stands for two zero bytes, and for no answer yet.
Zeros == Ids
None == Ids + 1

Kinds == {"write", "scan", "read", "plain", "unknown"}

ToDevice == {"write", "scan"}

FirstStage == IF kind \in ToDevice \union {"read"} THEN "data" ELSE "status"

\* A name that nothing the 8051 still holds is known by.
Fresh == CHOOSE i \in 0 .. Ids - 1 : i \notin {reg, buf}

\* The 8051 owes no earlier transfer anything.
AtRest == ~sudav /\ pc \in {"poll", "gate", "delay"}

-----------------------------------------------------------------------------
(* The host.                                                                 *)

\* A SETUP packet reaches the hardware.
Setup ==
    /\ sudav' = TRUE
    /\ busy' = FALSE
    /\ nak' = TRUE
    /\ stalled' = FALSE
    /\ UNCHANGED <<count, buf>>

Begin(k) ==
    /\ stage = "idle"
    /\ id' = Fresh
    /\ kind' = k
    /\ stage' = FirstStage'
    /\ tries' = 1
    /\ answer' = None
    /\ Setup
    /\ done' = 0
    /\ stray' = FALSE
    /\ tainted' = (tainted /\ ~AtRest)
    /\ UNCHANGED <<result, pc, left, reg, sensor>>

\* Endpoint 0 is armed: the data stage goes through.
Data ==
    /\ stage = "data"
    /\ busy
    /\ busy' = FALSE
    /\ stage' = "status"
    /\ IF kind \in ToDevice
       THEN buf' = id /\ count' = 2 /\ answer' = answer
       ELSE answer' = (IF count = 0 THEN Zeros ELSE buf) /\ UNCHANGED <<buf, count>>
    /\ UNCHANGED <<id, kind, tries, result, sudav, nak, stalled, pc, left, reg, sensor,
                   history>>

Ends(r) ==
    /\ stage' = "idle"
    /\ result' = r
    /\ UNCHANGED <<id, kind, tries, answer>>

Status ==
    /\ stage = "status"
    /\ ~nak /\ ~stalled
    /\ Ends("ok")
    /\ UNCHANGED <<ep0, pc, left, reg, sensor, history>>

\* One attempt more than there are.
RetrySlip ==
    /\ tries <= Attempts
    /\ tries' = tries + 1
    /\ stage' = FirstStage
    /\ Setup
    /\ UNCHANGED <<id, kind, result, answer>>

Retry ==
    /\ tries < Attempts
    /\ tries' = tries + 1
    /\ stage' = FirstStage
    /\ Setup
    /\ UNCHANGED <<id, kind, result, answer>>

Errs == Ends("error") /\ UNCHANGED ep0

Refused ==
    /\ stage # "idle"
    /\ stalled
    /\ Retry \/ (tries = Attempts /\ Errs)
    /\ UNCHANGED <<pc, left, reg, sensor, history>>

\* The transfer times out, or fails on the bus, or its process is killed; some
\* errors are not worth another attempt.
GiveUp ==
    /\ stage # "idle"
    /\ Retry \/ Errs
    /\ tainted' = TRUE
    /\ UNCHANGED <<pc, left, reg, sensor, done, stray>>

-----------------------------------------------------------------------------
(* The 8051.                                                                 *)

Arm(n) == busy' = TRUE /\ count' = n

Poll ==
    /\ pc = "poll"
    /\ pc' = IF sudav THEN "decode" ELSE "gate"
    /\ sudav' = FALSE
    /\ UNCHANGED <<host, busy, count, buf, nak, stalled, left, reg, sensor, history>>

\* SETUPDAT is read byte by byte: wIndex first, bRequest after it.
Decode ==
    /\ pc = "decode"
    /\ reg' = id
    /\ pc' = "dispatch"
    /\ UNCHANGED <<host, ep0, left, sensor, history>>

Dispatch ==
    /\ pc = "dispatch"
    /\ pc' = CASE kind = "write" -> "arm"
               [] kind = "scan" -> "armScan"
               [] kind = "read" -> "fetch"
               [] kind = "plain" -> "ack"
               [] kind = "unknown" -> "stall"
    /\ UNCHANGED <<host, ep0, left, reg, sensor, history>>

\* The count of the data before left where it is.
ArmRecvSlip ==
    /\ pc \in {"arm", "armScan"}
    /\ busy' = TRUE
    /\ pc' = IF pc = "arm" THEN "recv" ELSE "recvScan"
    /\ UNCHANGED <<host, sudav, count, buf, nak, stalled, left, reg, sensor, history>>

\* ep0_recv: arm endpoint 0, then spin.
ArmRecv ==
    /\ pc \in {"arm", "armScan"}
    /\ Arm(0)
    /\ pc' = IF pc = "arm" THEN "recv" ELSE "recvScan"
    /\ UNCHANGED <<host, sudav, buf, nak, stalled, left, reg, sensor, history>>

\* The transfer is carried out, or something that nobody asks for any more.
CarryOut(asked) ==
    /\ done' = IF asked /\ done <= Attempts THEN done + 1 ELSE done
    /\ stray' = (stray \/ ~asked)
    /\ UNCHANGED tainted

\* sensor_write, with what endpoint 0 holds and the register read before.
Write == CarryOut(reg = id /\ buf = id)

\* The wait left out.
RecvSlip ==
    /\ pc = "recv"
    /\ IF count >= 2 THEN Write ELSE UNCHANGED history
    /\ pc' = "ack"
    /\ UNCHANGED <<host, ep0, left, reg, sensor>>

\* Waiting for the data rather than for endpoint 0 to be free.
RecvDataSlip ==
    /\ pc = "recv"
    /\ count >= 2
    /\ Write
    /\ pc' = "ack"
    /\ UNCHANGED <<host, ep0, left, reg, sensor>>

Recv ==
    /\ pc = "recv"
    /\ ~busy
    /\ IF count >= 2 THEN Write ELSE UNCHANGED history
    /\ pc' = "ack"
    /\ UNCHANGED <<host, ep0, left, reg, sensor>>

\* stream_start, whatever ep0_recv has received, if anything.
RecvScan ==
    /\ pc = "recvScan"
    /\ ~busy
    /\ CarryOut(reg = id)
    /\ pc' = "ack"
    /\ UNCHANGED <<host, ep0, left, reg, sensor>>

\* sensor_read, or zeros when the sensor does not answer, and two bytes to send.
Fetch ==
    /\ pc = "fetch"
    /\ buf' \in {reg, Zeros}
    /\ Arm(2)
    /\ pc' = "ack"
    /\ UNCHANGED <<host, sudav, nak, stalled, left, reg, sensor, history>>

Ack ==
    /\ pc = "ack"
    /\ nak' = FALSE
    /\ pc' = "gate"
    /\ UNCHANGED <<host, sudav, busy, count, buf, stalled, left, reg, sensor, history>>

Stall ==
    /\ pc = "stall"
    /\ stalled' = TRUE
    /\ pc' = "gate"
    /\ UNCHANGED <<host, sudav, busy, count, buf, nak, left, reg, sensor, history>>

Pixels == row = Blanking

\* A frame has ended: pixel transfer is off for the added exposure.
Gates ==
    /\ pc = "gate"
    /\ pc' = IF pending THEN "delay" ELSE "poll"
    /\ left' = IF pending THEN Added ELSE left
    /\ whole' = (whole /\ ~(pending /\ Pixels))
    /\ UNCHANGED <<host, busy, count, buf, nak, stalled, reg, row, history>>

\* SUDAV cleared once more, behind the request.
GateLateClearSlip ==
    /\ Gates
    /\ pending' = FALSE
    /\ sudav' = FALSE

\* frame_pending not cleared.
GateSlip ==
    /\ Gates
    /\ UNCHANGED <<sudav, pending>>

Gate ==
    /\ Gates
    /\ pending' = FALSE
    /\ UNCHANGED sudav

\* delay_ms returns, not before its time.
DelayEnds ==
    /\ pc = "delay"
    /\ left = 0
    /\ pc' = "poll"
    /\ UNCHANGED <<host, ep0, left, reg, sensor, history>>

Loop ==
    \/ Poll \/ Decode \/ Dispatch \/ ArmRecv \/ Recv \/ RecvScan \/ Fetch \/ Ack
    \/ Stall \/ Gate \/ DelayEnds

-----------------------------------------------------------------------------
(* The sensor.  Its clock is never stopped and it waits for nobody: time goes by
   for it and for delay_ms, whatever the 8051 is doing.                      *)

TimePasses == left' = IF pc = "delay" /\ left > 0 THEN left - 1 ELSE left

\* The blanking, and at its end the pixels: lost from the start when the gate is closed.
SensorBlanks ==
    /\ row < Blanking
    /\ row' = row + 1
    /\ whole' = IF row + 1 = Blanking THEN pc # "delay" ELSE whole
    /\ TimePasses
    /\ UNCHANGED <<host, ep0, pc, reg, pending, history>>

\* frame_end interrupts the 8051 anywhere.
FrameEnd ==
    /\ Pixels
    /\ row' = 0
    /\ pending' = TRUE
    /\ TimePasses
    /\ UNCHANGED <<host, ep0, pc, reg, whole, history>>

Tick == SensorBlanks \/ FrameEnd

-----------------------------------------------------------------------------
Init ==
    /\ id = 0 /\ kind = "plain" /\ stage = "idle" /\ tries = 1
    /\ result = "ok" /\ answer = None
    /\ sudav = FALSE /\ busy = FALSE /\ count = 0 /\ buf = Zeros
    /\ nak = FALSE /\ stalled = FALSE
    /\ pc = "poll" /\ left = 0 /\ reg = 0
    /\ row = 0 /\ pending = FALSE /\ whole = TRUE
    /\ done = 0 /\ stray = FALSE /\ tainted = FALSE

Next ==
    \/ \E k \in Kinds : Begin(k)
    \/ Data \/ Status \/ Refused \/ GiveUp
    \/ Loop
    \/ Tick

Spec == Init /\ [][Next]_vars

\* The 8051 runs on, the sensor reads out, and the host's controller repeats a
\* stage until it is let through.  The host owes no transfer, and no give-up.
FairSpec ==
    /\ Spec
    /\ WF_vars(Loop)
    /\ WF_vars(Data) /\ WF_vars(Status) /\ WF_vars(Refused)
    /\ WF_vars(Tick)

-----------------------------------------------------------------------------
(* Properties.                                                               *)

FirmwareTypeOK ==
    /\ id \in 0 .. Ids - 1
    /\ kind \in Kinds
    /\ stage \in {"idle", "data", "status"}
    /\ tries \in 1 .. Attempts
    /\ result \in {"ok", "error"}
    /\ answer \in 0 .. None
    /\ count \in {0, 2}
    /\ buf \in 0 .. Zeros
    /\ pc \in {"poll", "decode", "dispatch", "arm", "recv", "armScan", "recvScan",
               "fetch", "ack", "stall", "gate", "delay"}
    /\ reg \in 0 .. Ids - 1
    /\ left \in 0 .. Added
    /\ row \in 0 .. Blanking
    /\ {sudav, busy, nak, stalled, pending, whole, stray, tainted} \subseteq BOOLEAN
    /\ done \in 0 .. Attempts + 1

(* A transfer the host counts as done has been carried out exactly once, with
   its own register and its own data, and a read has been given its own
   register: the status stage is never let through early, no packet is taken for
   another's, none is handled twice.  This holds for every transfer but those
   reached by one that was given up, and a transfer is reached only while the
   8051 is still busy with what came before (usb.c:88-95, 166-179; main.c:117-137,
   251-255).                                                                 *)
ExactUnlessGivenUp ==
    (stage = "idle" /\ result = "ok" /\ ~tainted) =>
        /\ ~stray
        /\ kind \in ToDevice => done = 1
        /\ kind = "read" => answer \in {id, Zeros}

(* Whatever is given up, a request that looks at its data is carried out at most once
   for each attempt made of it: a packet handled twice, or a spin that a later packet
   ends, finds no data (usb.c:88-95, main.c:124, 152-179).  Module Settings takes
   this for granted of its writes.  The one that begins a scan does not look
   (main.c:195-198) and may be carried out more often: the FIFO is then reset once
   more, behind the host's back.                                             *)
AtMostOncePerAttempt == kind # "scan" => done <= tries

(* ep0_recv spins without a limit (usb.c:92); as long as the host comes back, with
   whatever request, the main loop does too.                                 *)
SpinEnds == ([]<><<\E k \in Kinds : Begin(k)>>_vars) => []<>(pc = "poll")

(* As long as the host gives nothing up, every transfer comes to an end: no SETUP
   packet is lost between the test of SUDAV, its clearing and the handling
   (main.c:252-254), and none waits for one that has been served.            *)
Answered == []~tainted => (stage # "idle" ~> stage = "idle")

\* The 8051 keeps up with the sensor: when time passes it is waiting, in delay_ms or
\* for a host that does not come back, or it has no frame to take up.
KeepsUp ==
    \/ pc = "delay" /\ left > 0
    \/ pc \in {"recv", "recvScan"} /\ busy
    \/ pc # "delay" /\ ~pending

(* README.md:92-93: "The first image can take several exposure periods to
   arrive."  Left alone by the host, and with an 8051 that takes less than a unit of
   time for what it does, the gate of main.c:257-266 again and again lets a whole
   frame through.                                                            *)
FramesGetThrough ==
    (<>[](stage = "idle") /\ <>[][Tick => KeepsUp]_vars)
        => []<><<FrameEnd /\ whole>>_vars
=============================================================================
