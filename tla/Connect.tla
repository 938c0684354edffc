--------------------------------- MODULE Connect ---------------------------------
(***************************************************************************)
(* From a plugged-in camera to a device that answers: Connect, LoadImage,  *)
(* WaitForCamera and probe of fx2.go, Open and Close of the transports,    *)
(* and the load command of pmsnap.  Several processes may try at once.     *)
(*                                                                         *)
(* The camera starts in a boot loader, is given its firmware over USB,     *)
(* leaves the bus and comes back under another product number.  It may be  *)
(* unplugged at any time, an interrupted capture may leave it deaf, and a  *)
(* process may end at any point.                                           *)
(*                                                                         *)
(* Each action of a process is one call of the transport and the code up   *)
(* to the next.  A definition whose name ends in Slip is used nowhere: it  *)
(* is the one that follows it with a plausible mistake, which a property   *)
(* must notice.                                                            *)
(***************************************************************************)
EXTENDS Integers

CONSTANTS
    Proc,           \* processes that use the camera
    Records,        \* records in a firmware image
    MaxPolls,       \* attempts that fit in WaitForCamera's deadline
    MaxFaults       \* bound: transfers and opens that fail for no reason below

ASSUME ConnectAssumption ==
    /\ Records \in Nat \ {0}
    /\ MaxPolls \in Nat \ {0}
    /\ MaxFaults \in Nat

VARIABLES
    bus,        \* the product number on the bus: "boot", "camera" or "absent"
    cpu,        \* the 8051: in the loader, halted, released (to run what was
                \* downloaded), starting, looping (main's loop), hung
    ram,        \* the image each record of the memory is of
    deaf,       \* the camera answers no control transfer until it is reset
    test,       \* the sensor's register regDigitalTest
    pc,         \* what each process is about to do
    job,        \* the image a process downloads: "good" is the embedded one,
                \* "other" that of pmsnap -firmware
    handle,     \* its Device: "none", "live", or "dead" when what it was opened
                \* on has left the bus
    next,       \* the record it writes next
    polls,      \* the attempts WaitForCamera has left
    value,      \* what probe has read
    faults,
    tampered,   \* history: pmsnap -firmware has halted the 8051 since power-on
    excused     \* history: processes whose call has met a reason to fail

device == <<bus, cpu, ram, deaf, test>>
process == <<pc, job, handle, next, polls, value>>
vars == <<device, process, faults, tampered, excused>>

Busy(p) == pc[p] \notin {"idle", "connected"}

Whole(image) == \A r \in 1 .. Records : ram[r] = image

\* The FX2's own hardware answers requests to write its memory.
HearsLoader(p) == handle[p] = "live" /\ ~deaf

Answers(p) == HearsLoader(p) /\ bus = "camera" /\ cpu = "looping"

Lost == [p \in Proc |-> IF handle[p] = "live" THEN "dead" ELSE handle[p]]

Fault == faults < MaxFaults /\ faults' = faults + 1

-----------------------------------------------------------------------------
(* The camera.                                                               *)

Unplug ==
    /\ bus' = "absent"
    /\ cpu' = "loader"
    /\ deaf' = FALSE
    /\ handle' = Lost
    /\ tampered' = FALSE
    /\ excused' = Proc
    /\ ram' = [r \in 1 .. Records |-> "none"]
    /\ test' = "unset"
    /\ UNCHANGED <<pc, job, next, polls, value, faults>>

Plug ==
    /\ bus = "absent"
    /\ cpu = "loader"
    /\ bus' = "boot"
    /\ UNCHANGED <<cpu, ram, deaf, test, process, faults, tampered, excused>>

\* main: the firmware replaces the descriptors.  An image other than the embedded
\* one may do anything.
LeavesBus ==
    /\ cpu = "released"
    /\ bus' = "absent"
    /\ cpu' \in IF Whole("good") THEN {"starting"} ELSE {"starting", "hung"}
    /\ handle' = Lost
    /\ UNCHANGED <<ram, deaf, test, pc, job, next, polls, value, faults, tampered,
                   excused>>

Enumerates ==
    /\ cpu = "starting"
    /\ bus = "absent"
    /\ bus' = "camera"
    /\ UNCHANGED <<cpu, ram, deaf, test, process, faults, tampered, excused>>

\* main's loop is reached: the sensor has its power-on registers.
Loops ==
    /\ cpu = "starting"
    /\ bus = "camera"
    /\ cpu' \in IF Whole("good") THEN {"looping"} ELSE {"looping", "hung"}
    /\ test' = "unset"
    /\ UNCHANGED <<bus, ram, deaf, process, faults, tampered, excused>>

Camera == Unplug \/ Plug \/ LeavesBus \/ Enumerates \/ Loops

-----------------------------------------------------------------------------
(* Ways through a process.                                                   *)

Goes(p, where) == pc' = [pc EXCEPT ![p] = where]

Opened(p) == handle' = [handle EXCEPT ![p] = "live"]

Close(p) == handle' = [handle EXCEPT ![p] = "none"]

\* The locals of a call are gone with it.
Forgets(p) ==
    /\ job' = [job EXCEPT ![p] = "good"]
    /\ next' = [next EXCEPT ![p] = 1]
    /\ polls' = [polls EXCEPT ![p] = 0]
    /\ value' = [value EXCEPT ![p] = "unset"]

Returns(p) ==
    /\ Goes(p, "idle")
    /\ Close(p)
    /\ Forgets(p)

\* Close forgotten when a download fails.
DownloadFailsSlip(p) ==
    /\ Goes(p, "idle")
    /\ Forgets(p)
    /\ UNCHANGED handle

DownloadFails(p) == Returns(p)

Waits(p) ==
    /\ Goes(p, "wait")
    /\ Close(p)
    /\ job' = [job EXCEPT ![p] = "good"]
    /\ next' = [next EXCEPT ![p] = 1]
    /\ polls' = [polls EXCEPT ![p] = MaxPolls]
    /\ value' = [value EXCEPT ![p] = "unset"]

\* Another attempt without a look at the clock.
AttemptFailsSlip(p) ==
    /\ Goes(p, "wait")
    /\ Close(p)
    /\ value' = [value EXCEPT ![p] = "unset"]
    /\ UNCHANGED <<job, next, polls>>

\* WaitForCamera sleeps, or gives up.
AttemptFails(p) ==
    IF polls[p] > 1
    THEN /\ Goes(p, "wait")
         /\ Close(p)
         /\ polls' = [polls EXCEPT ![p] = @ - 1]
         /\ value' = [value EXCEPT ![p] = "unset"]
         /\ UNCHANGED <<job, next>>
    ELSE Returns(p)

\* probe fails: the first time Connect resets the camera.
ProbeFails(p) ==
    IF polls[p] = 0
    THEN Goes(p, "reset") /\ UNCHANGED <<job, handle, next, polls, value>>
    ELSE AttemptFails(p)

-----------------------------------------------------------------------------
(* A process.                                                                *)

\* What already speaks against a call when it begins.
Doubtful(p, image) ==
    \/ image = "other"
    \/ bus = "absent"
    \/ cpu \in {"released", "starting"}
    \/ tampered
    \/ \E q \in Proc \ {p} : pc[q] # "idle"

\* Attached: Connect, or pmsnap's load, looks for a camera.
Begin(p, image) ==
    /\ pc[p] = "idle"
    /\ Goes(p, IF bus = "absent" THEN "idle"
               ELSE IF bus = "camera" /\ image = "good" THEN "openCamera"
               ELSE IF bus = "camera" THEN "openToReplace"
               ELSE "openBoot")
    /\ job' = [job EXCEPT ![p] = IF bus = "absent" THEN "good" ELSE image]
    /\ excused' = (excused \ {p}) \union (IF Doubtful(p, image) THEN {p} ELSE {})
                     \union {q \in Proc \ {p} : Busy(q)}
    /\ UNCHANGED <<device, handle, next, polls, value, faults, tampered>>

Wanted(p) == IF pc[p] = "openBoot" THEN "boot" ELSE "camera"

\* Interface 0 not claimed.
CanOpenSlip(p) == bus = Wanted(p)

\* The device is there and nobody else has it open.
CanOpen(p) ==
    /\ bus = Wanted(p)
    /\ \A q \in Proc : handle[q] # "live"

Opening(p) == pc[p] \in {"openCamera", "openToReplace", "openBoot", "wait"}

OpenOk(p) ==
    /\ Opening(p)
    /\ CanOpen(p)
    /\ Opened(p)
    /\ Goes(p, IF pc[p] \in {"openBoot", "openToReplace"} THEN "halt" ELSE "identity")
    /\ UNCHANGED <<device, job, next, polls, value, faults, tampered, excused>>

OpenFails(p) ==
    /\ Opening(p)
    /\ \/ ~CanOpen(p) /\ UNCHANGED <<faults, excused>>
       \/ CanOpen(p) /\ Fault /\ excused' = excused \union {p}
    /\ IF pc[p] = "wait" THEN AttemptFails(p) ELSE Returns(p)
    /\ UNCHANGED <<device, tampered>>

\* A transfer p makes: it fails when it cannot succeed, and for other reasons.
FailsUnless(p, able) ==
    \/ ~able /\ UNCHANGED <<faults, excused>>
    \/ able /\ Fault /\ excused' = excused \union {p}

\* What the request p is making does to the camera when it is carried out.
Carried(p) ==
    CASE pc[p] = "write"    -> test' = value[p] /\ UNCHANGED <<bus, cpu, ram, deaf>>
      [] pc[p] = "halt"     -> cpu' = "halted" /\ UNCHANGED <<bus, ram, deaf, test>>
      [] pc[p] = "download" ->
            /\ ram' = [ram EXCEPT ![next[p]] = job[p]]
            /\ UNCHANGED <<bus, cpu, deaf, test>>
      [] pc[p] = "run"      -> cpu' = "released" /\ UNCHANGED <<bus, ram, deaf, test>>
      [] OTHER              -> UNCHANGED device

Tampers(p) == tampered' = (tampered \/ (pc[p] = "halt" /\ job[p] = "other"))

\* A request of p fails: it cannot succeed, or it does for another reason, carried
\* out or not.
RequestFails(p, able) ==
    \/ ~able /\ UNCHANGED <<device, faults, tampered, excused>>
    \/ /\ able
       /\ Fault
       /\ excused' = excused \union {p}
       /\ Carried(p) \/ UNCHANGED device
       /\ Tampers(p)

\* probe: the identity, the register, and the register back.
ProbeIdentity(p) ==
    /\ pc[p] = "identity"
    /\ Answers(p)
    /\ Goes(p, "read")
    /\ UNCHANGED <<device, job, handle, next, polls, value, faults, tampered, excused>>

\* A read the sensor does not answer is answered with zeros.
ProbeRead(p) ==
    /\ pc[p] = "read"
    /\ Answers(p)
    /\ Goes(p, "write")
    /\ \/ value' = [value EXCEPT ![p] = test] /\ UNCHANGED faults
       \/ value' = [value EXCEPT ![p] = "zeros"] /\ Fault
    /\ UNCHANGED <<device, job, handle, next, polls, tampered, excused>>

ProbeWrite(p) ==
    /\ pc[p] = "write"
    /\ Answers(p)
    /\ Goes(p, "connected")
    /\ Carried(p)
    /\ Forgets(p)
    /\ UNCHANGED <<handle, faults, tampered, excused>>

ProbeStepFails(p) ==
    /\ pc[p] \in {"identity", "read", "write"}
    /\ RequestFails(p, Answers(p))
    /\ ProbeFails(p)

\* The reset left out.
ResetSlip(p) ==
    /\ pc[p] = "reset"
    /\ Waits(p)
    /\ UNCHANGED <<device, faults, tampered, excused>>

\* Its result is ignored.
Reset(p) ==
    /\ pc[p] = "reset"
    /\ \/ deaf' = (deaf /\ handle[p] # "live") /\ UNCHANGED <<faults, excused>>
       \/ Fault /\ excused' = excused \union {p} /\ UNCHANGED deaf
    /\ Waits(p)
    /\ UNCHANGED <<bus, cpu, ram, test, tampered>>

\* LoadImage: halt the 8051, write the records, let it run.
Halt(p) ==
    /\ pc[p] = "halt"
    /\ HearsLoader(p)
    /\ Carried(p)
    /\ Tampers(p)
    /\ next' = [next EXCEPT ![p] = 1]
    /\ Goes(p, "download")
    /\ UNCHANGED <<job, handle, polls, value, faults, excused>>

\* The last record left out.
WriteRecordSlip(p) ==
    /\ pc[p] = "download"
    /\ HearsLoader(p)
    /\ Carried(p)
    /\ IF next[p] + 1 < Records
       THEN next' = [next EXCEPT ![p] = @ + 1] /\ UNCHANGED pc
       ELSE Goes(p, "run") /\ UNCHANGED next
    /\ UNCHANGED <<job, handle, polls, value, faults, tampered, excused>>

WriteRecord(p) ==
    /\ pc[p] = "download"
    /\ HearsLoader(p)
    /\ Carried(p)
    /\ IF next[p] < Records
       THEN next' = [next EXCEPT ![p] = @ + 1] /\ UNCHANGED pc
       ELSE Goes(p, "run") /\ UNCHANGED next
    /\ UNCHANGED <<job, handle, polls, value, faults, tampered, excused>>

RunImage(p) ==
    /\ pc[p] = "run"
    /\ HearsLoader(p)
    /\ Carried(p)
    /\ Waits(p)
    /\ UNCHANGED <<faults, tampered, excused>>

\* Nothing is undone: the 8051 may be left halted, or running.
DownloadStepFails(p) ==
    /\ pc[p] \in {"halt", "download", "run"}
    /\ RequestFails(p, HearsLoader(p))
    /\ DownloadFails(p)

\* Close, by a process that has a camera.
Disconnect(p) ==
    /\ pc[p] = "connected"
    /\ Returns(p)
    /\ UNCHANGED <<device, faults, tampered, excused>>

\* The process ends; interrupted in a capture, it may leave the camera deaf.
Crash(p) ==
    /\ pc[p] # "idle"
    /\ Returns(p)
    /\ \/ deaf' = (deaf \/ (pc[p] = "connected" /\ handle[p] = "live"))
       \/ UNCHANGED deaf
    /\ excused' = excused \union {p}
    /\ UNCHANGED <<bus, cpu, ram, test, faults, tampered>>

Step(p) ==
    \/ OpenOk(p)
    \/ OpenFails(p)
    \/ ProbeIdentity(p)
    \/ ProbeRead(p)
    \/ ProbeWrite(p)
    \/ ProbeStepFails(p)
    \/ Reset(p)
    \/ Halt(p)
    \/ WriteRecord(p)
    \/ RunImage(p)
    \/ DownloadStepFails(p)

Init ==
    /\ bus = "absent"
    /\ cpu = "loader"
    /\ ram = [r \in 1 .. Records |-> "none"]
    /\ deaf = FALSE
    /\ test = "unset"
    /\ pc = [p \in Proc |-> "idle"]
    /\ job = [p \in Proc |-> "good"]
    /\ handle = [p \in Proc |-> "none"]
    /\ next = [p \in Proc |-> 1]
    /\ polls = [p \in Proc |-> 0]
    /\ value = [p \in Proc |-> "unset"]
    /\ faults = 0
    /\ tampered = FALSE
    /\ excused = {}

Next ==
    \/ Camera
    \/ \E p \in Proc :
          \/ \E image \in {"good", "other"} : Begin(p, image)
          \/ Step(p)
          \/ Disconnect(p)
          \/ Crash(p)

Spec == Init /\ [][Next]_vars

\* Every transfer ends, and a process runs on.  The camera owes nothing.
FairSpec == Spec /\ \A p \in Proc : WF_vars(Step(p))
-----------------------------------------------------------------------------
(* Properties.                                                               *)

\* The camera and the processes are in one of their states, and a live Device is
\* held by one process at a time, of a camera on the bus (fx2.go:139-202).
ConnectTypeOK ==
    /\ bus \in {"absent", "boot", "camera"}
    /\ cpu \in {"loader", "halted", "released", "starting", "looping", "hung"}
    /\ ram \in [1 .. Records -> {"none", "good", "other"}]
    /\ deaf \in BOOLEAN
    /\ test \in {"unset", "zeros"}
    /\ pc \in [Proc -> {"idle", "openCamera", "openBoot", "openToReplace", "identity",
                       "read", "write", "reset", "wait", "halt", "download", "run",
                       "connected"}]
    /\ handle \in [Proc -> {"none", "live", "dead"}]
    /\ \A p, q \in Proc : handle[p] = "live" /\ handle[q] = "live" => p = q
    /\ (\E p \in Proc : handle[p] = "live") => bus # "absent"
    /\ next \in [Proc -> 1 .. Records]
    /\ polls \in [Proc -> 0 .. MaxPolls]
    /\ faults \in 0 .. MaxFaults

(* A Connect that failed, on any of its ways out, has left no Device open: one that
   did would keep the interface claimed and every later attempt out
   (fx2.go:143-202).                                                         *)
NoDeviceLeft ==
    \A p \in Proc :
        pc[p] \in {"idle", "openCamera", "openBoot", "openToReplace", "wait"} =>
            handle[p] = "none"

(* The 8051 is let run only with all of one image in memory: whatever failed,
   crashed or was unplugged before, and whoever else downloads, it never runs a mix
   of two or a part of one (fx2.go:95-123).                                  *)
RunsWholeImage ==
    [][cpu' = "released" => Whole("good") \/ Whole("other")]_vars

(* While a process has the camera no other halts it or changes its memory, resets it
   or leaves it deaf, or writes back to the register it probes a value read before:
   what Open's claim of the interface is for (transport_linux.go:102-105).   *)
HolderUndisturbed ==
    [][\A p \in Proc :
          (pc[p] = "connected" /\ pc'[p] = "connected" /\ handle'[p] = "live") =>
              UNCHANGED <<cpu, ram, deaf, test>>]_vars

(* Connect fails only for a reason of its own call: nothing plugged in, or still
   starting, when it looked; a transfer or an open that fails on a camera that
   answers; another process at work; an image of the user's; a firmware that takes
   longer than the deadline to start.  Whatever earlier calls, crashes, half a
   download or a capture cut short left behind, it recovers without being unplugged
   (fx2.go:160-202).                                                         *)
FailsForAReason ==
    [][\A p \in Proc :
          (Busy(p) /\ pc'[p] = "idle") =>
              p \in excused' \/ cpu \in {"released", "starting"}]_vars

(* Every attempt to connect ends, whatever the camera does: the attempts of
   WaitForCamera are bounded, and so is each (fx2.go:139-158).               *)
EveryAttemptEnds == \A p \in Proc : Busy(p) ~> ~Busy(p)

(* fx2.go:125: "Exercise both control-transfer directions without changing the
   register value."                                                          *)
ProbeKeepsRegister == [][\A p \in Proc : ProbeWrite(p) => UNCHANGED test]_vars
=============================================================================
