----------------------------- MODULE FirmwareProofs -----------------------------
(***************************************************************************)
(* Proofs about Firmware, for any number of transfer names and attempts:   *)
(* that no request that looks at its data is carried out more often than   *)
(* it was attempted, whatever is given up, and that a transfer which       *)
(* nothing given up has reached is carried out exactly once.               *)
(*                                                                         *)
(* Part 1 is the inductive invariant, part 2 shows that every action keeps *)
(* it, part 3 has the theorems.                                            *)
(***************************************************************************)
EXTENDS Firmware, TLAPS

-----------------------------------------------------------------------------
(* Part 1: the inductive invariant.                                          *)

Resting == {"poll", "gate", "delay"}

Spinning == {"recv", "recvScan"}

States == Resting \union Spinning
            \union {"decode", "dispatch", "arm", "armScan", "fetch", "ack", "stall"}

HostTypes ==
    /\ id \in 0 .. Ids - 1
    /\ kind \in Kinds
    /\ stage \in {"idle", "data", "status"}
    /\ tries \in 1 .. Attempts
    /\ result \in {"ok", "error"}
    /\ answer \in 0 .. None

CameraTypes ==
    /\ sudav \in BOOLEAN /\ busy \in BOOLEAN /\ nak \in BOOLEAN /\ stalled \in BOOLEAN
    /\ count \in {0, 2}
    /\ buf \in 0 .. Zeros
    /\ pc \in States
    /\ reg \in 0 .. Ids - 1
    /\ left \in 0 .. Added
    /\ row \in 0 .. Blanking
    /\ pending \in BOOLEAN /\ whole \in BOOLEAN

HistoryTypes ==
    /\ done \in 0 .. Attempts + 1
    /\ stray \in BOOLEAN /\ tainted \in BOOLEAN

\* Data that ep0_recv is about to write, as the host's transfer asks.
Held == pc = "recv" /\ count = 2 /\ reg = id /\ buf = id

\* What has been carried out, is about to be and may still be sent: never more than
\* the attempts made.  A scan is begun for a transfer that asked for it.
Counted ==
    /\ pc = "recv" /\ busy => count = 0
    /\ pc \in {"armScan", "recvScan"} /\ reg = id => kind = "scan"
    /\ kind # "scan" =>
          /\ done <= tries
          /\ stage = "data" \/ Held => done < tries
          /\ stage = "data" /\ Held => done + 1 < tries

\* The host has asked and the 8051 has not begun to answer.
Asked ==
    /\ stage = FirstStage
    /\ done = 0
    /\ ~busy /\ nak /\ ~stalled

\* What was asked has been done, but for the host to fetch the answer.
Served ==
    /\ kind \in ToDevice => stage # "data" /\ done = 1
    /\ kind = "read" =>
          IF stage = "data" THEN busy /\ count = 2 /\ buf \in {id, Zeros}
                            ELSE answer \in {id, Zeros}
    /\ kind = "plain" => stage # "data"

\* The kinds of transfer that the 8051 is in each of its states for.
Serves(state) ==
    CASE state \in {"arm", "recv"} -> {"write"}
      [] state \in {"armScan", "recvScan"} -> {"scan"}
      [] state = "fetch" -> {"read"}
      [] state = "stall" -> {"unknown"}
      [] state = "ack" -> {"write", "scan", "read", "plain"}
      [] OTHER -> Kinds

\* As long as nothing given up reaches the transfer, the 8051 serves it and nothing
\* else, one stage after the other.
InStep ==
    /\ ~stray
    /\ stage = "idle" => AtRest
    /\ sudav => pc \in Resting
    /\ sudav \/ pc \in {"decode", "dispatch", "arm", "armScan", "fetch", "stall"} => Asked
    /\ pc \in States \ (Resting \union {"decode"}) => reg = id
    /\ kind \in Serves(pc)
    /\ pc \in Spinning =>
          /\ done = 0 /\ nak /\ ~stalled
          /\ \/ stage = "data" /\ busy
             \/ stage = "status" /\ ~busy /\ count = 2 /\ buf = id
    /\ pc = "ack" => nak /\ ~stalled /\ Served
    /\ AtRest => IF kind = "unknown" THEN stalled /\ done = 0 ELSE ~stalled /\ Served

Inv ==
    /\ HostTypes
    /\ CameraTypes
    /\ HistoryTypes
    /\ Counted
    /\ ~tainted => InStep

-----------------------------------------------------------------------------
(* Part 2: every action keeps the invariant.                                 *)

\* Three names are enough for one that is none of two.
LEMMA FreshIsNew ==
    ASSUME HostTypes, CameraTypes
    PROVE  Fresh \in 0 .. Ids - 1 /\ Fresh \notin {reg, buf}
<1>1. \E i \in {0, 1, 2} : i \notin {reg, buf}
    OBVIOUS
<1>2. \E i \in 0 .. Ids - 1 : i \notin {reg, buf}
    BY <1>1, FirmwareAssumption DEF FirmwareAssumption
<1>. QED  BY <1>2 DEF Fresh

\* Every variable stays in its range.
LEMMA TypesKept ==
    ASSUME HostTypes, CameraTypes, HistoryTypes,
           Next
    PROVE  HostTypes' /\ CameraTypes' /\ HistoryTypes'
<1>. USE DEF Kinds, ToDevice, FirstStage, States, Spinning, Resting, Zeros, None, HostTypes, CameraTypes, HistoryTypes
<1>1. ASSUME NEW k \in Kinds, Begin(k)
      PROVE  HostTypes' /\ CameraTypes' /\ HistoryTypes'
    <2>1. HostTypes'
        BY <1>1, FreshIsNew, FirmwareAssumption DEF FirmwareAssumption, Begin
    <2>2. CameraTypes'
        BY <1>1 DEF Begin, Setup, sensor
    <2>3. HistoryTypes'
        <3>1. (tainted /\ ~AtRest) \in BOOLEAN /\ 0 \in 0 .. Attempts + 1
            BY FirmwareAssumption DEF FirmwareAssumption, AtRest
        <3>. QED  BY <1>1, <3>1 DEF Begin
    <2>. QED  BY <2>1, <2>2, <2>3
<1>2. CASE Data
    <2>1. HostTypes'
        BY <1>2, FirmwareAssumption DEF FirmwareAssumption, Data, HostTypes
    <2>2. id \in 0 .. Zeros
        BY FirmwareAssumption DEF FirmwareAssumption
    <2>3. buf' \in 0 .. Zeros /\ count' \in {0, 2}
        BY <1>2, <2>2 DEF Data
    <2>4. CameraTypes' /\ HistoryTypes'
        BY <1>2, <2>3 DEF Data, sensor, history
    <2>. QED  BY <2>1, <2>4
<1>3. CASE Status
    BY <1>3 DEF Status, Ends, host, ep0, sensor, history
<1>4. CASE Refused
    <2>1. tries < Attempts => tries + 1 \in 1 .. Attempts
        BY FirmwareAssumption DEF FirmwareAssumption
    <2>2. HostTypes'
        BY <1>4, <2>1 DEF Refused, Retry, Errs, Ends
    <2>3. CameraTypes'
        BY <1>4 DEF Refused, Retry, Setup, Errs, ep0, sensor
    <2>4. HistoryTypes'
        BY <1>4 DEF Refused, history
    <2>. QED  BY <2>2, <2>3, <2>4
<1>5. CASE GiveUp
    <2>1. tries < Attempts => tries + 1 \in 1 .. Attempts
        BY FirmwareAssumption DEF FirmwareAssumption
    <2>2. HostTypes'
        BY <1>5, <2>1 DEF GiveUp, Retry, Errs, Ends
    <2>3. CameraTypes'
        BY <1>5 DEF GiveUp, Retry, Setup, Errs, ep0, sensor
    <2>4. HistoryTypes'
        BY <1>5 DEF GiveUp, history
    <2>. QED  BY <2>2, <2>3, <2>4
<1>6. CASE Poll
    <2>1. HostTypes'
        BY <1>6 DEF Poll, host, sensor, history, HostTypes
    <2>2. CameraTypes'
        BY <1>6 DEF Poll, host, sensor, history, CameraTypes
    <2>3. HistoryTypes'
        BY <1>6 DEF Poll, host, sensor, history, HistoryTypes
    <2>. QED  BY <2>1, <2>2, <2>3
<1>7. CASE Decode
    BY <1>7 DEF Decode, host, ep0, sensor, history
<1>8. CASE Dispatch
    BY <1>8 DEF Dispatch, host, ep0, sensor, history
<1>9. CASE ArmRecv
    BY <1>9 DEF ArmRecv, Arm, host, ep0, sensor, history
<1>10. CASE Recv
    <2>1. HostTypes' /\ CameraTypes'
        BY <1>10 DEF Recv, host, ep0, sensor
    <2>2. done <= Attempts => done + 1 \in 0 .. Attempts + 1
        BY FirmwareAssumption DEF FirmwareAssumption
    <2>3. (stray \/ ~(reg = id /\ buf = id)) \in BOOLEAN
        OBVIOUS
    <2>4. HistoryTypes'
        BY <1>10, <2>2, <2>3 DEF Recv, Write, CarryOut, history
    <2>. QED  BY <2>1, <2>4
<1>11. CASE RecvScan
    <2>1. HostTypes' /\ CameraTypes'
        BY <1>11 DEF RecvScan, host, ep0, sensor
    <2>2. done <= Attempts => done + 1 \in 0 .. Attempts + 1
        BY FirmwareAssumption DEF FirmwareAssumption
    <2>3. (stray \/ ~(reg = id)) \in BOOLEAN
        OBVIOUS
    <2>4. HistoryTypes'
        BY <1>11, <2>2, <2>3 DEF RecvScan, CarryOut, history
    <2>. QED  BY <2>1, <2>4
<1>12. CASE Fetch
    BY <1>12, FirmwareAssumption DEF FirmwareAssumption, Fetch, Arm, host, ep0, sensor, history
<1>13. CASE Ack
    <2>1. HostTypes'
        BY <1>13 DEF Ack, host, sensor, history, HostTypes
    <2>2. CameraTypes'
        BY <1>13 DEF Ack, host, sensor, history, CameraTypes
    <2>3. HistoryTypes'
        BY <1>13 DEF Ack, host, sensor, history, HistoryTypes
    <2>. QED  BY <2>1, <2>2, <2>3
<1>14. CASE Stall
    BY <1>14 DEF Stall, host, ep0, sensor, history
<1>15. CASE Gate
    <2>1. HostTypes' /\ HistoryTypes'
        BY <1>15 DEF Gate, Gates, Pixels, host, history
    <2>2. (whole /\ ~(pending /\ row = Blanking)) \in BOOLEAN
        OBVIOUS
    <2>3. left' \in 0 .. Added
        BY <1>15, FirmwareAssumption DEF Gate, Gates, FirmwareAssumption
    <2>4. CameraTypes'
        BY <1>15, <2>2, <2>3 DEF Gate, Gates, Pixels, ep0
    <2>. QED  BY <2>1, <2>4
<1>16. CASE DelayEnds
    BY <1>16 DEF DelayEnds, host, ep0, sensor, history
<1>17. CASE SensorBlanks
    <2>1. HostTypes' /\ HistoryTypes'
        BY <1>17 DEF SensorBlanks, host, history
    <2>2. left' \in 0 .. Added /\ row' \in 0 .. Blanking
        BY <1>17, FirmwareAssumption DEF SensorBlanks, TimePasses, FirmwareAssumption
    <2>3. whole' \in BOOLEAN
        <3>1. (pc # "delay") \in BOOLEAN
            OBVIOUS
        <3>2. whole' = (pc # "delay") \/ whole' = whole
            BY <1>17 DEF SensorBlanks
        <3>. QED  BY <3>1, <3>2
    <2>4. UNCHANGED <<ep0, pc, reg, pending>>
        BY <1>17 DEF SensorBlanks
    <2>5. CameraTypes'
        BY <2>2, <2>3, <2>4 DEF ep0
    <2>. QED  BY <2>1, <2>5
<1>18. CASE FrameEnd
    <2>1. HostTypes' /\ HistoryTypes'
        BY <1>18 DEF FrameEnd, host, history
    <2>2. left' \in 0 .. Added /\ row' \in 0 .. Blanking
        BY <1>18, FirmwareAssumption DEF FrameEnd, TimePasses, FirmwareAssumption
    <2>3. CameraTypes'
        BY <1>18, <2>2 DEF FrameEnd, ep0
    <2>. QED  BY <2>1, <2>3
<1>. QED
    BY <1>1, <1>2, <1>3, <1>4, <1>5, <1>6, <1>7, <1>8, <1>9, <1>10, <1>11, <1>12, <1>13,
       <1>14, <1>15, <1>16, <1>17, <1>18 DEF Next, Loop, Tick

\* No action carries out more than is counted.
LEMMA CountedKept ==
    ASSUME HostTypes, CameraTypes, HistoryTypes, Counted,
           Next
    PROVE  Counted'
<1>. USE DEF HostTypes, CameraTypes, HistoryTypes, Counted, Held, Zeros, ToDevice, FirstStage
<1>1. ASSUME NEW k \in Kinds, Begin(k)
      PROVE  Counted'
    BY <1>1, FreshIsNew, FirmwareAssumption DEF FirmwareAssumption, Begin, Setup, sensor
<1>2. CASE Data
    BY <1>2, FirmwareAssumption DEF FirmwareAssumption, Data, host, ep0, sensor, history
<1>3. CASE Status
    BY <1>3 DEF Status, Ends, host, ep0, sensor, history
<1>4. CASE Refused
    <2>1. CASE Retry
        BY <1>4, <2>1, FirmwareAssumption DEF FirmwareAssumption, Refused, Retry, Setup, history
    <2>2. CASE Errs
        BY <1>4, <2>2 DEF Refused, Errs, Ends, ep0, history
    <2>. QED  BY <1>4, <2>1, <2>2 DEF Refused
<1>5. CASE GiveUp
    BY <1>5, FirmwareAssumption
    DEF FirmwareAssumption, GiveUp, Retry, Setup, Errs, Ends, host, ep0, sensor, history
<1>6. CASE Poll
    BY <1>6 DEF Poll, host, ep0, sensor, history
<1>7. CASE Decode
    BY <1>7 DEF Decode, host, ep0, sensor, history
<1>8. CASE Dispatch
    <2>1. /\ kind = "write" => pc' = "arm"
          /\ kind = "scan" => pc' = "armScan"
          /\ kind = "read" => pc' = "fetch"
          /\ kind = "plain" => pc' = "ack"
          /\ kind = "unknown" => pc' = "stall"
        BY <1>8 DEF Dispatch
    <2>2. kind \in {"write", "scan", "read", "plain", "unknown"}
        BY DEF Kinds
    <2>3. pc' \notin {"recv", "recvScan"} /\ (pc' = "armScan" => kind = "scan")
        BY <2>1, <2>2
    <2>. QED  BY <1>8, <2>3 DEF Dispatch, host, ep0, history
<1>9. CASE ArmRecv
    BY <1>9 DEF ArmRecv, Arm, host, ep0, sensor, history
<1>10. CASE Recv
    BY <1>10, FirmwareAssumption DEF FirmwareAssumption, Recv, Write, CarryOut, host, ep0, sensor, history
<1>11. CASE RecvScan
    BY <1>11, FirmwareAssumption DEF FirmwareAssumption, RecvScan, CarryOut, host, ep0, sensor,
       history
<1>12. CASE Fetch
    BY <1>12, FirmwareAssumption DEF FirmwareAssumption, Fetch, Arm, host, ep0, sensor, history
<1>13. CASE Ack
    BY <1>13 DEF Ack, host, ep0, sensor, history
<1>14. CASE Stall
    BY <1>14 DEF Stall, host, ep0, sensor, history
<1>15. CASE Gate
    BY <1>15 DEF Gate, Gates, Pixels, host, ep0, sensor, history
<1>16. CASE DelayEnds
    BY <1>16 DEF DelayEnds, host, ep0, sensor, history
<1>17. CASE SensorBlanks
    BY <1>17 DEF SensorBlanks, TimePasses, host, ep0, sensor, history
<1>18. CASE FrameEnd
    BY <1>18 DEF FrameEnd, Pixels, TimePasses, host, ep0, sensor, history
<1>. QED
    BY <1>1, <1>2, <1>3, <1>4, <1>5, <1>6, <1>7, <1>8, <1>9, <1>10, <1>11, <1>12, <1>13,
       <1>14, <1>15, <1>16, <1>17, <1>18 DEF Next, Loop, Tick

\* While nothing given up reaches it, the transfer and the 8051 stay in step.
LEMMA InStepKept ==
    ASSUME HostTypes, CameraTypes, HistoryTypes, Counted, ~tainted => InStep,
           Next, ~tainted'
    PROVE  InStep'
<1>. USE DEF CameraTypes, HistoryTypes, InStep, Asked, FirstStage, Served, Serves, AtRest,
      States, Spinning, Resting, Kinds, ToDevice
<1>1. ASSUME NEW k \in Kinds, Begin(k)
      PROVE  InStep'
    BY <1>1, FreshIsNew, FirmwareAssumption DEF FirmwareAssumption, Begin, Setup, sensor, HostTypes
<1>2. CASE Data
    BY <1>2, FirmwareAssumption DEF FirmwareAssumption, Data, host, ep0, sensor, history
<1>3. CASE Status
    BY <1>3 DEF Status, Ends, host, ep0, sensor, history
<1>4. CASE Refused
    <2>1. CASE Retry
        BY <1>4, <2>1, FirmwareAssumption DEF FirmwareAssumption, Refused, Retry, Setup, history
    <2>2. CASE Errs
        BY <1>4, <2>2 DEF Refused, Errs, Ends, ep0, history
    <2>. QED  BY <1>4, <2>1, <2>2 DEF Refused
<1>5. CASE GiveUp
    BY <1>5, FirmwareAssumption
    DEF FirmwareAssumption, GiveUp, Retry, Setup, Errs, Ends, host, ep0, sensor, history
<1>6. CASE Poll
    BY <1>6 DEF Poll, host, ep0, sensor, history
<1>7. CASE Decode
    BY <1>7 DEF Decode, host, ep0, sensor, history
<1>8. CASE Dispatch
    BY <1>8 DEF Dispatch, host, ep0, sensor, history
<1>9. CASE ArmRecv
    BY <1>9 DEF ArmRecv, Arm, host, ep0, sensor, history
<1>10. CASE Recv
    BY <1>10, FirmwareAssumption DEF FirmwareAssumption, Recv, Write, CarryOut, host, ep0, sensor, history
<1>11. CASE RecvScan
    BY <1>11, FirmwareAssumption DEF FirmwareAssumption, RecvScan, CarryOut, host, ep0, sensor,
       history
<1>12. CASE Fetch
    BY <1>12, FirmwareAssumption DEF FirmwareAssumption, Fetch, Arm, host, ep0, sensor, history
<1>13. CASE Ack
    BY <1>13 DEF Ack, host, ep0, sensor, history
<1>14. CASE Stall
    BY <1>14 DEF Stall, host, ep0, sensor, history
<1>15. CASE Gate
    BY <1>15 DEF Gate, Gates, Pixels, host, ep0, sensor, history
<1>16. CASE DelayEnds
    BY <1>16 DEF DelayEnds, host, ep0, sensor, history
<1>17. CASE SensorBlanks
    BY <1>17 DEF SensorBlanks, TimePasses, host, ep0, sensor, history
<1>18. CASE FrameEnd
    BY <1>18 DEF FrameEnd, Pixels, TimePasses, host, ep0, sensor, history
<1>. QED
    BY <1>1, <1>2, <1>3, <1>4, <1>5, <1>6, <1>7, <1>8, <1>9, <1>10, <1>11, <1>12, <1>13,
       <1>14, <1>15, <1>16, <1>17, <1>18 DEF Next, Loop, Tick

-----------------------------------------------------------------------------
(* Part 3: the theorems.                                                     *)

\* At power-on the 8051 polls, and the last transfer, none, is over.
LEMMA InitInv ==
    ASSUME Init
    PROVE  Inv
<1>1. HostTypes /\ CameraTypes /\ HistoryTypes
    <2>1. HostTypes
        BY FirmwareAssumption DEF FirmwareAssumption, Init, HostTypes, Kinds, None
    <2>2. CameraTypes
        <3>1. Zeros \in 0 .. Zeros /\ 0 \in 0 .. Ids - 1
            BY FirmwareAssumption DEF FirmwareAssumption, Zeros
        <3>2. 0 \in 0 .. Added /\ 0 \in 0 .. Blanking
            BY FirmwareAssumption DEF FirmwareAssumption
        <3>. QED  BY <3>1, <3>2 DEF Init, CameraTypes, States, Spinning, Resting
    <2>3. HistoryTypes
        <3>1. 0 \in 0 .. Attempts + 1
            BY FirmwareAssumption DEF FirmwareAssumption
        <3>. QED  BY <3>1 DEF Init, HistoryTypes
    <2>. QED  BY <2>1, <2>2, <2>3
<1>2. Counted
    BY FirmwareAssumption DEF FirmwareAssumption, Init, Counted, Held, Zeros
<1>3. InStep
    BY DEF Init, InStep, AtRest, Resting, States, Served, Serves, Kinds, ToDevice, Spinning
<1>. QED  BY <1>1, <1>2, <1>3 DEF Inv

\* Every step of the host, the 8051 and the sensor keeps the invariant.
LEMMA NextInv ==
    ASSUME Inv, [Next]_vars
    PROVE  Inv'
<1>1. CASE Next
    <2>1. HostTypes' /\ CameraTypes' /\ HistoryTypes' /\ Counted'
        BY <1>1, TypesKept, CountedKept DEF Inv
    <2>2. ~tainted' => InStep'
        BY <1>1, InStepKept DEF Inv
    <2>. QED  BY <2>1, <2>2 DEF Inv
<1>2. CASE UNCHANGED vars
    BY <1>2 DEF vars, host, ep0, sensor, history, Inv, HostTypes, CameraTypes, HistoryTypes,
       Counted, Held, InStep, Asked, FirstStage, Served, AtRest
<1>. QED  BY <1>1, <1>2

(* Part 1 holds in every state of the specification: what is carried out is counted,
   and while nothing given up reaches it a transfer and the 8051 stay in step
   (usb.c:88-95, main.c:117-137, 251-255). *)
THEOREM FirmwareInvariant == Spec => []Inv
BY InitInv, NextInv, PTL DEF Spec

(* The host, the control endpoint and the 8051 are in one of their states (main.c,
   usb.c). *)
THEOREM FirmwareTypes == Spec => []FirmwareTypeOK
<1>1. Inv => FirmwareTypeOK
    BY DEF Inv, HostTypes, CameraTypes, HistoryTypes, States, Spinning, Resting, FirmwareTypeOK
<1>. QED  BY <1>1, FirmwareInvariant, PTL

(* Whatever is given up, and with any number of attempts, no request that looks at its
   data is carried out more often than it was attempted (usb.c:88-95, main.c:124,
   152-179): data that the spin of ep0_recv holds is counted as an attempt that nobody
   has used up yet.  Of the one that begins a scan and does not look this is not so, and
   not claimed (main.c:195-198).                                             *)
THEOREM OncePerAttempt == Spec => []AtMostOncePerAttempt
<1>1. Inv => AtMostOncePerAttempt
    BY DEF Inv, Counted, AtMostOncePerAttempt
<1>. QED  BY <1>1, FirmwareInvariant, PTL

(* A transfer that the host counts as done, and that nothing given up has reached, was
   carried out exactly once, with its own register and data; a read was given its own
   register (usb.c:88-95, 166-179; main.c:117-137, 251-255). *)
THEOREM ExactlyOnce == Spec => []ExactUnlessGivenUp
<1>1. Inv => ExactUnlessGivenUp
    BY DEF Inv, InStep, Served, ToDevice, ExactUnlessGivenUp
<1>. QED  BY <1>1, FirmwareInvariant, PTL
=============================================================================
