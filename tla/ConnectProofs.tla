----------------------------- MODULE ConnectProofs -----------------------------
(***************************************************************************)
(* Proofs about Connect, for any processes, images, deadlines and faults.  *)
(*                                                                         *)
(* Part 1 is the inductive invariant, part 2 shows that every action keeps *)
(* it, part 3 has the theorems.                                            *)
(***************************************************************************)
EXTENDS Connect, TLAPS

-----------------------------------------------------------------------------
(* Part 1: the inductive invariant.  ConnectTypeOK, here in three parts, already
   says that at most one Device is live.  The rest says what the process that holds
   it may count on, what an embedded image leaves behind, and how far a call without
   an excuse has come.                                                       *)

States == {"idle", "openCamera", "openBoot", "openToReplace", "identity", "read",
           "write", "reset", "wait", "halt", "download", "run", "connected"}

CameraTypes ==
    /\ bus \in {"absent", "boot", "camera"}
    /\ cpu \in {"loader", "halted", "released", "starting", "looping", "hung"}
    /\ ram \in [1 .. Records -> {"none", "good", "other"}]
    /\ deaf \in BOOLEAN
    /\ test \in {"unset", "zeros"}
    /\ faults \in 0 .. MaxFaults
    /\ tampered \in BOOLEAN

ProcessTypes ==
    /\ pc \in [Proc -> States]
    /\ handle \in [Proc -> {"none", "live", "dead"}]
    /\ job \in [Proc -> {"good", "other"}]
    /\ next \in [Proc -> 1 .. Records]
    /\ polls \in [Proc -> 0 .. MaxPolls]
    /\ value \in [Proc -> {"unset", "zeros"}]

OneLive ==
    /\ \A p, q \in Proc : handle[p] = "live" /\ handle[q] = "live" => p = q
    /\ \A p \in Proc : handle[p] = "live" => bus # "absent"

\* WaitForCamera counts from its deadline down; nothing else has attempts.
PollsFit ==
    \A p \in Proc :
        /\ pc[p] = "wait" => polls[p] > 0
        /\ pc[p] \in {"idle", "openCamera", "openBoot", "openToReplace", "halt",
                      "download", "run", "reset", "connected"} => polls[p] = 0

\* A download in progress has halted the 8051 and written the records before next.
Downloading ==
    \A p \in Proc :
        (pc[p] \in {"download", "run"} /\ handle[p] = "live") =>
            /\ cpu = "halted"
            /\ job[p] = "other" => tampered
            /\ \A r \in 1 .. Records :
                  (pc[p] = "run" \/ r < next[p]) => ram[r] = job[p]

\* The 8051 has been released to run an image as a whole.
ReleasedWhole == cpu = "released" => Whole("good") \/ Whole("other")

\* A camera whose identity was read and whose handle has not died since still loops.
HolderLoops ==
    \A p \in Proc :
        (pc[p] \in {"read", "write", "connected"} /\ handle[p] = "live") =>
            cpu = "looping"

\* What is on the bus, by what the 8051 is doing.
BusFits ==
    /\ cpu = "looping" => bus = "camera"
    /\ cpu = "starting" => bus \in {"absent", "camera"}
    /\ cpu = "loader" => bus \in {"absent", "boot"}
    /\ deaf => cpu = "looping"

\* Only one who replaces the firmware with another downloads to a running camera.
GoodToBoot ==
    \A p \in Proc :
        /\ pc[p] = "openToReplace" => job[p] = "other"
        /\ (pc[p] \in {"halt", "download", "run"} /\ handle[p] = "live"
              /\ job[p] = "good") => bus = "boot"

\* Until an image of the user's is downloaded, what runs is the embedded one.
Untampered ==
    ~tampered =>
        /\ \A r \in 1 .. Records : ram[r] # "other"
        /\ cpu # "hung"
        /\ cpu \in {"starting", "looping"} => Whole("good")
        /\ cpu \in {"halted", "released"} => bus = "boot"

\* A call that has met no reason to fail: it is alone, and the camera is where the
\* call left it.
Sound(p) ==
    /\ \A q \in Proc \ {p} : pc[q] = "idle"
    /\ job[p] = "good"
    /\ ~tampered
    /\ pc[p] # "openToReplace"
    /\ pc[p] = "openBoot" => bus = "boot" /\ cpu \in {"loader", "halted"}
    /\ pc[p] \in {"openCamera", "reset"} => bus = "camera" /\ cpu = "looping"
    /\ pc[p] \in {"halt", "download", "run"} =>
          handle[p] = "live" /\ bus = "boot" /\ cpu \in {"loader", "halted"}
    /\ pc[p] \in {"identity", "read", "write", "reset"} =>
          handle[p] = "live" /\ bus = "camera" /\ cpu \in {"starting", "looping"}
    /\ pc[p] \in {"identity", "read", "write"} =>
          IF polls[p] = 0 THEN cpu = "looping" ELSE ~deaf
    /\ pc[p] = "wait" => ~deaf /\ cpu \in {"released", "starting", "looping"}

AloneWithoutExcuse == \A p \in Proc : Busy(p) /\ p \notin excused => Sound(p)

Inv ==
    /\ CameraTypes
    /\ ProcessTypes
    /\ OneLive
    /\ NoDeviceLeft
    /\ PollsFit
    /\ Downloading
    /\ ReleasedWhole
    /\ HolderLoops
    /\ BusFits
    /\ GoodToBoot
    /\ Untampered
    /\ AloneWithoutExcuse

-----------------------------------------------------------------------------
(* Part 2: every action keeps the invariant. *)

\* p has closed its Device and is idle, or waits with attempts left.
EndsUp(p, where) ==
    /\ pc' = [pc EXCEPT ![p] = where]
    /\ handle' = [handle EXCEPT ![p] = "none"]
    /\ ProcessTypes'
    /\ \A q \in Proc \ {p} :
          job'[q] = job[q] /\ next'[q] = next[q] /\ polls'[q] = polls[q]
    /\ polls'[p] = 0 <=> where = "idle"
    /\ where = "wait" => job'[p] = "good" \/ job'[p] = job[p]

\* A call that returns without a camera has closed its Device.
LEMMA ReturnsEnds ==
    ASSUME ProcessTypes, NEW p \in Proc, Returns(p)
    PROVE  EndsUp(p, "idle")
BY ConnectAssumption DEF ConnectAssumption, ProcessTypes, States, Returns, Goes, Close,
   Forgets, EndsUp

\* WaitForCamera begins without a Device and with all its attempts.
LEMMA WaitsEnds ==
    ASSUME ProcessTypes, NEW p \in Proc, Waits(p)
    PROVE  EndsUp(p, "wait")
BY ConnectAssumption DEF ConnectAssumption, ProcessTypes, States, Waits, Goes, Close, EndsUp

\* An attempt of WaitForCamera that fails leaves one fewer, or ends the call.
LEMMA AttemptFailsEnds ==
    ASSUME ProcessTypes, NEW p \in Proc, AttemptFails(p)
    PROVE  \E where \in {"idle", "wait"} : EndsUp(p, where)
<1>1. CASE polls[p] > 1
    <2>1. polls[p] - 1 \in 1 .. MaxPolls
        BY <1>1, ConnectAssumption DEF ConnectAssumption, ProcessTypes
    <2>2. EndsUp(p, "wait")
        BY <1>1, <2>1 DEF AttemptFails, ProcessTypes, States, Goes, Close, EndsUp
    <2>. QED  BY <2>2
<1>2. CASE ~(polls[p] > 1)
    <2>1. Returns(p)
        BY <1>2 DEF AttemptFails
    <2>. QED  BY <2>1, ReturnsEnds
<1>. QED  BY <1>1, <1>2

\* A process that ends up without a Device keeps what is said of processes alone.
LEMMA EndsUpOk ==
    ASSUME Inv, NEW p \in Proc, NEW where \in {"idle", "wait"}, EndsUp(p, where), bus' = bus
    PROVE  ProcessTypes' /\ OneLive' /\ NoDeviceLeft' /\ PollsFit'
<1>. USE DEF Inv, EndsUp, ProcessTypes
<1>1. OneLive'
    BY DEF OneLive
<1>2. NoDeviceLeft'
    BY DEF NoDeviceLeft
<1>3. PollsFit'
    BY ConnectAssumption DEF ConnectAssumption, PollsFit
<1>. QED  BY <1>1, <1>2, <1>3

\* With the camera as it was, nobody else notices.
LEMMA EndsUpHolders ==
    ASSUME Inv, NEW p \in Proc, NEW where \in {"idle", "wait"}, EndsUp(p, where),
           UNCHANGED <<bus, cpu, ram, deaf, tampered>>
    PROVE  /\ Downloading' /\ HolderLoops' /\ GoodToBoot'
           /\ ReleasedWhole' /\ BusFits' /\ Untampered'
<1>. USE DEF Inv, EndsUp, ProcessTypes
<1>1. Downloading'
    BY DEF Downloading
<1>2. HolderLoops' /\ GoodToBoot'
    BY DEF HolderLoops, GoodToBoot
<1>3. ReleasedWhole' /\ BusFits' /\ Untampered'
    BY DEF ReleasedWhole, Whole, BusFits, Untampered
<1>. QED  BY <1>1, <1>2, <1>3

\* A camera unplugged is excuse enough for everybody, and every Device is dead.
LEMMA UnplugInv ==
    ASSUME Inv, Unplug
    PROVE  Inv'
<1>. USE DEF Inv, Unplug, Lost
<1>1. CameraTypes'
    BY ConnectAssumption DEF ConnectAssumption, CameraTypes
<1>2. ProcessTypes'
    BY ConnectAssumption DEF ConnectAssumption, ProcessTypes, States
<1>3. OneLive'
    BY DEF OneLive, ProcessTypes
<1>4. NoDeviceLeft' /\ PollsFit'
    BY DEF NoDeviceLeft, PollsFit, ProcessTypes
<1>5. Downloading'
    BY DEF Downloading, ProcessTypes
<1>6. ReleasedWhole'
    BY DEF ReleasedWhole, Whole, ProcessTypes
<1>7. HolderLoops' /\ BusFits'
    BY DEF HolderLoops, BusFits, ProcessTypes
<1>8. GoodToBoot'
    BY DEF GoodToBoot, ProcessTypes
<1>9. Untampered'
    BY DEF Untampered, Whole, ProcessTypes
<1>10. AloneWithoutExcuse'
    BY DEF AloneWithoutExcuse, Sound, Busy, ProcessTypes
<1>. QED  BY <1>1, <1>2, <1>3, <1>4, <1>5, <1>6, <1>7, <1>8, <1>9, <1>10

\* Plugged in, the boot loader holds no firmware and nobody has it open.
LEMMA PlugInv ==
    ASSUME Inv, Plug
    PROVE  Inv'
<1>. USE DEF Inv, Plug, process
<1>1. CameraTypes'
    BY ConnectAssumption DEF ConnectAssumption, CameraTypes
<1>2. ProcessTypes'
    BY ConnectAssumption DEF ConnectAssumption, ProcessTypes, States
<1>3. OneLive'
    BY DEF OneLive, ProcessTypes
<1>4. NoDeviceLeft' /\ PollsFit'
    BY DEF NoDeviceLeft, PollsFit, ProcessTypes
<1>5. Downloading'
    BY DEF Downloading, ProcessTypes
<1>6. ReleasedWhole'
    BY DEF ReleasedWhole, Whole, ProcessTypes
<1>7. HolderLoops' /\ BusFits'
    BY DEF HolderLoops, BusFits, ProcessTypes
<1>8. GoodToBoot'
    BY DEF GoodToBoot, ProcessTypes
<1>9. Untampered'
    BY DEF Untampered, Whole, ProcessTypes
<1>10. AloneWithoutExcuse'
    BY DEF AloneWithoutExcuse, Sound, Busy, ProcessTypes
<1>. QED  BY <1>1, <1>2, <1>3, <1>4, <1>5, <1>6, <1>7, <1>8, <1>9, <1>10

\* The firmware released was a whole image; on leaving the bus no Device survives.
LEMMA LeavesBusInv ==
    ASSUME Inv, LeavesBus
    PROVE  Inv'
<1>. USE DEF Inv, LeavesBus, Lost, Whole
<1>1. CameraTypes'
    BY ConnectAssumption DEF ConnectAssumption, CameraTypes
<1>2. ProcessTypes'
    BY ConnectAssumption DEF ConnectAssumption, ProcessTypes, States
<1>3. OneLive'
    BY DEF OneLive, ProcessTypes
<1>4. NoDeviceLeft' /\ PollsFit'
    BY DEF NoDeviceLeft, PollsFit, ProcessTypes
<1>5. Downloading'
    BY DEF Downloading, ProcessTypes
<1>6. ReleasedWhole'
    BY DEF ReleasedWhole, Whole, ProcessTypes
<1>7. HolderLoops' /\ BusFits'
    BY DEF HolderLoops, BusFits, ProcessTypes
<1>8. GoodToBoot'
    BY DEF GoodToBoot, ProcessTypes
<1>9. Untampered'
    BY DEF Untampered, Whole, ReleasedWhole, ProcessTypes
<1>10. AloneWithoutExcuse'
    BY DEF AloneWithoutExcuse, Sound, Busy, Untampered, ReleasedWhole, Whole, ProcessTypes
<1>. QED  BY <1>1, <1>2, <1>3, <1>4, <1>5, <1>6, <1>7, <1>8, <1>9, <1>10

\* The camera comes back while nobody can have it open.
LEMMA EnumeratesInv ==
    ASSUME Inv, Enumerates
    PROVE  Inv'
<1>. USE DEF Inv, Enumerates, process
<1>1. CameraTypes'
    BY ConnectAssumption DEF ConnectAssumption, CameraTypes
<1>2. ProcessTypes'
    BY ConnectAssumption DEF ConnectAssumption, ProcessTypes, States
<1>3. OneLive'
    BY DEF OneLive, ProcessTypes
<1>4. NoDeviceLeft' /\ PollsFit'
    BY DEF NoDeviceLeft, PollsFit, ProcessTypes
<1>5. Downloading'
    BY DEF Downloading, ProcessTypes
<1>6. ReleasedWhole'
    BY DEF ReleasedWhole, Whole, ProcessTypes
<1>7. HolderLoops' /\ BusFits'
    BY DEF HolderLoops, BusFits, ProcessTypes
<1>8. GoodToBoot'
    BY DEF GoodToBoot, ProcessTypes
<1>9. Untampered'
    BY DEF Untampered, Whole, ProcessTypes
<1>10. AloneWithoutExcuse'
    BY DEF AloneWithoutExcuse, Sound, Busy, ProcessTypes
<1>. QED  BY <1>1, <1>2, <1>3, <1>4, <1>5, <1>6, <1>7, <1>8, <1>9, <1>10

\* Only the embedded image is known to reach main's loop.
LEMMA LoopsInv ==
    ASSUME Inv, Loops
    PROVE  Inv'
<1>. USE DEF Inv, Loops, process, Whole
<1>1. CameraTypes'
    BY ConnectAssumption DEF ConnectAssumption, CameraTypes
<1>2. ProcessTypes'
    BY ConnectAssumption DEF ConnectAssumption, ProcessTypes, States
<1>3. OneLive'
    BY DEF OneLive, ProcessTypes
<1>4. NoDeviceLeft' /\ PollsFit'
    BY DEF NoDeviceLeft, PollsFit, ProcessTypes
<1>5. Downloading'
    BY DEF Downloading, ProcessTypes
<1>6. ReleasedWhole'
    BY DEF ReleasedWhole, Whole, ProcessTypes
<1>7. HolderLoops' /\ BusFits'
    BY DEF HolderLoops, BusFits, ProcessTypes
<1>8. GoodToBoot'
    BY DEF GoodToBoot, ProcessTypes
<1>9. Untampered'
    BY DEF Untampered, Whole, ProcessTypes
<1>10. AloneWithoutExcuse'
    BY DEF AloneWithoutExcuse, Sound, Busy, Untampered, ProcessTypes
<1>. QED  BY <1>1, <1>2, <1>3, <1>4, <1>5, <1>6, <1>7, <1>8, <1>9, <1>10

\* A call that has no reason to doubt finds the camera where Sound puts it.
LEMMA BeginInv ==
    ASSUME Inv, NEW p \in Proc, NEW image \in {"good", "other"}, Begin(p, image)
    PROVE  Inv'
<1>. USE DEF Inv, Begin, Goes, Doubtful, Busy, device
<1>1. CameraTypes'
    BY ConnectAssumption DEF ConnectAssumption, CameraTypes
<1>2. ProcessTypes'
    BY ConnectAssumption DEF ConnectAssumption, ProcessTypes, States
<1>3. OneLive'
    BY DEF OneLive, ProcessTypes
<1>4. NoDeviceLeft' /\ PollsFit'
    BY DEF NoDeviceLeft, PollsFit, ProcessTypes
<1>5. Downloading'
    BY DEF Downloading, ProcessTypes
<1>6. ReleasedWhole'
    BY DEF ReleasedWhole, Whole, ProcessTypes
<1>7. HolderLoops' /\ BusFits'
    BY DEF HolderLoops, BusFits, ProcessTypes
<1>8. GoodToBoot'
    BY DEF GoodToBoot, ProcessTypes
<1>9. Untampered'
    BY DEF Untampered, Whole, ProcessTypes
<1>10. AloneWithoutExcuse'
    BY DEF AloneWithoutExcuse, Sound, Busy, Untampered, BusFits, NoDeviceLeft,
       ProcessTypes, CameraTypes
<1>. QED  BY <1>1, <1>2, <1>3, <1>4, <1>5, <1>6, <1>7, <1>8, <1>9, <1>10

\* Open claims the interface: the Device that is opened is the only live one.
LEMMA OpenOkInv ==
    ASSUME Inv, NEW p \in Proc, OpenOk(p)
    PROVE  Inv'
<1>. USE DEF Inv, OpenOk, Opening, CanOpen, Wanted, Opened, Goes, device
<1>1. CameraTypes'
    BY ConnectAssumption DEF ConnectAssumption, CameraTypes
<1>2. ProcessTypes'
    BY ConnectAssumption DEF ConnectAssumption, ProcessTypes, States
<1>3. OneLive'
    BY DEF OneLive, ProcessTypes
<1>4. NoDeviceLeft' /\ PollsFit'
    BY DEF NoDeviceLeft, PollsFit, ProcessTypes
<1>5. Downloading'
    BY DEF Downloading, ProcessTypes
<1>6. ReleasedWhole'
    BY DEF ReleasedWhole, Whole, ProcessTypes
<1>7. HolderLoops' /\ BusFits'
    BY DEF HolderLoops, BusFits, ProcessTypes
<1>8. GoodToBoot'
    BY DEF GoodToBoot, ProcessTypes
<1>9. Untampered'
    BY DEF Untampered, Whole, ProcessTypes
<1>10. AloneWithoutExcuse'
    BY DEF AloneWithoutExcuse, Sound, Busy, PollsFit, BusFits, Untampered, ProcessTypes
<1>. QED  BY <1>1, <1>2, <1>3, <1>4, <1>5, <1>6, <1>7, <1>8, <1>9, <1>10

\* An open that fails although it could have succeeded is an excuse.
LEMMA OpenFailsInv ==
    ASSUME Inv, NEW p \in Proc, OpenFails(p)
    PROVE  Inv'
<1>. USE DEF Inv
<1>1. /\ UNCHANGED <<bus, cpu, ram, deaf, test, tampered>>
      /\ faults' \in 0 .. MaxFaults
      /\ excused \subseteq excused'
      /\ p \in excused' \/ ~CanOpen(p)
    BY ConnectAssumption DEF ConnectAssumption, OpenFails, Fault, device, CameraTypes
<1>2. PICK where \in {"idle", "wait"} : EndsUp(p, where)
    BY AttemptFailsEnds, ReturnsEnds DEF OpenFails, Opening
<1>3. ProcessTypes' /\ OneLive' /\ NoDeviceLeft' /\ PollsFit'
    BY <1>1, <1>2, EndsUpOk
<1>4. CameraTypes'
    BY <1>1 DEF CameraTypes
<1>5. /\ Downloading' /\ HolderLoops' /\ GoodToBoot'
      /\ ReleasedWhole' /\ BusFits' /\ Untampered'
    BY <1>1, <1>2, EndsUpHolders
<1>6. AloneWithoutExcuse'
    <2>1. pc[p] \in {"openCamera", "openBoot", "openToReplace", "wait"}
        BY DEF OpenFails, Opening
    <2>2. ASSUME NEW q \in Proc, Busy(q)', q \notin excused'
          PROVE  Sound(q)'
        <3>1. q = p
            BY <1>1, <1>2, <2>1, <2>2 DEF EndsUp, AloneWithoutExcuse, Sound, Busy, ProcessTypes
        <3>2. Sound(p) /\ where = "wait" /\ pc[p] = "wait"
            BY <1>1, <1>2, <2>1, <2>2, <3>1 DEF EndsUp, OpenFails, Returns, Goes, Close,
               AloneWithoutExcuse, Busy, ProcessTypes
        <3>. QED  BY <1>1, <1>2, <3>1, <3>2 DEF EndsUp, Sound, ProcessTypes
    <2>. QED  BY <2>2 DEF AloneWithoutExcuse
<1>. QED  BY <1>3, <1>4, <1>5, <1>6

\* A camera that gives its identity loops, and goes on until its Device dies.
LEMMA ProbeIdentityInv ==
    ASSUME Inv, NEW p \in Proc, ProbeIdentity(p)
    PROVE  Inv'
<1>. USE DEF Inv, ProbeIdentity, Answers, HearsLoader, Goes, device
<1>1. CameraTypes'
    BY ConnectAssumption DEF ConnectAssumption, CameraTypes
<1>2. ProcessTypes'
    BY ConnectAssumption DEF ConnectAssumption, ProcessTypes, States
<1>3. OneLive'
    BY DEF OneLive, ProcessTypes
<1>4. NoDeviceLeft' /\ PollsFit'
    BY DEF NoDeviceLeft, PollsFit, ProcessTypes
<1>5. Downloading'
    BY DEF Downloading, ProcessTypes
<1>6. ReleasedWhole'
    BY DEF ReleasedWhole, Whole, ProcessTypes
<1>7. HolderLoops' /\ BusFits'
    BY DEF HolderLoops, BusFits, ProcessTypes
<1>8. GoodToBoot'
    BY DEF GoodToBoot, ProcessTypes
<1>9. Untampered'
    BY DEF Untampered, Whole, ProcessTypes
<1>10. AloneWithoutExcuse'
    BY DEF AloneWithoutExcuse, Sound, Busy, ProcessTypes
<1>. QED  BY <1>1, <1>2, <1>3, <1>4, <1>5, <1>6, <1>7, <1>8, <1>9, <1>10

\* Reading the register changes nothing that the invariant speaks of.
LEMMA ProbeReadInv ==
    ASSUME Inv, NEW p \in Proc, ProbeRead(p)
    PROVE  Inv'
<1>. USE DEF Inv, ProbeRead, Answers, HearsLoader, Goes, device, Fault
<1>1. CameraTypes'
    BY ConnectAssumption DEF ConnectAssumption, CameraTypes
<1>2. ProcessTypes'
    BY ConnectAssumption DEF ConnectAssumption, ProcessTypes, States, CameraTypes
<1>3. OneLive'
    BY DEF OneLive, ProcessTypes
<1>4. NoDeviceLeft' /\ PollsFit'
    BY DEF NoDeviceLeft, PollsFit, ProcessTypes
<1>5. Downloading'
    BY DEF Downloading, ProcessTypes
<1>6. ReleasedWhole'
    BY DEF ReleasedWhole, Whole, ProcessTypes
<1>7. HolderLoops' /\ BusFits'
    BY DEF HolderLoops, BusFits, ProcessTypes
<1>8. GoodToBoot'
    BY DEF GoodToBoot, ProcessTypes
<1>9. Untampered'
    BY DEF Untampered, Whole, ProcessTypes
<1>10. AloneWithoutExcuse'
    BY DEF AloneWithoutExcuse, Sound, Busy, ProcessTypes
<1>. QED  BY <1>1, <1>2, <1>3, <1>4, <1>5, <1>6, <1>7, <1>8, <1>9, <1>10

\* Writing it back leaves a connected camera that loops.
LEMMA ProbeWriteInv ==
    ASSUME Inv, NEW p \in Proc, ProbeWrite(p)
    PROVE  Inv'
<1>. USE DEF Inv, ProbeWrite, Answers, HearsLoader, Goes, Carried, Forgets
<1>1. CameraTypes'
    BY ConnectAssumption DEF ConnectAssumption, CameraTypes, ProcessTypes
<1>2. ProcessTypes'
    BY ConnectAssumption DEF ConnectAssumption, ProcessTypes, States
<1>3. OneLive'
    BY DEF OneLive, ProcessTypes
<1>4. NoDeviceLeft' /\ PollsFit'
    BY DEF NoDeviceLeft, PollsFit, ProcessTypes
<1>5. Downloading'
    BY DEF Downloading, ProcessTypes
<1>6. ReleasedWhole'
    BY DEF ReleasedWhole, Whole, ProcessTypes
<1>7. HolderLoops' /\ BusFits'
    BY DEF HolderLoops, BusFits, ProcessTypes
<1>8. GoodToBoot'
    BY DEF GoodToBoot, ProcessTypes
<1>9. Untampered'
    BY DEF Untampered, Whole, ProcessTypes
<1>10. AloneWithoutExcuse'
    BY DEF AloneWithoutExcuse, Sound, Busy, ProcessTypes
<1>. QED  BY <1>1, <1>2, <1>3, <1>4, <1>5, <1>6, <1>7, <1>8, <1>9, <1>10

\* A probe that fails leads to the reset, or to WaitForCamera's next attempt.
LEMMA ProbeStepFailsInv ==
    ASSUME Inv, NEW p \in Proc, ProbeStepFails(p)
    PROVE  Inv'
<1>. USE DEF Inv
<1>1. pc[p] \in {"identity", "read", "write"}
    BY DEF ProbeStepFails
<1>2. /\ UNCHANGED <<bus, cpu, ram, deaf, tampered>>
      /\ test' \in {"unset", "zeros"}
      /\ faults' \in 0 .. MaxFaults
      /\ excused \subseteq excused'
      /\ p \in excused' \/ ~Answers(p)
    BY <1>1, ConnectAssumption DEF ConnectAssumption, ProbeStepFails, RequestFails, Carried,
       Tampers, Fault, device, CameraTypes, ProcessTypes
<1>3. CameraTypes'
    BY <1>2 DEF CameraTypes
<1>4. CASE polls[p] = 0
    <2>1. pc' = [pc EXCEPT ![p] = "reset"] /\ UNCHANGED <<job, handle, next, polls, value>>
        BY <1>4 DEF ProbeStepFails, ProbeFails, Goes
    <2>2. ProcessTypes' /\ OneLive'
        BY <1>2, <2>1 DEF ProcessTypes, States, OneLive
    <2>3. NoDeviceLeft' /\ PollsFit'
        BY <1>4, <2>1 DEF NoDeviceLeft, PollsFit, ProcessTypes
    <2>4. Downloading' /\ HolderLoops' /\ GoodToBoot'
        BY <1>2, <2>1 DEF Downloading, HolderLoops, GoodToBoot, ProcessTypes
    <2>5. ReleasedWhole' /\ BusFits' /\ Untampered'
        BY <1>2 DEF ReleasedWhole, Whole, BusFits, Untampered
    <2>6. AloneWithoutExcuse'
        BY <1>1, <1>2, <1>4, <2>1 DEF AloneWithoutExcuse, Sound, Busy, ProcessTypes
    <2>. QED  BY <1>3, <2>2, <2>3, <2>4, <2>5, <2>6
<1>5. CASE polls[p] # 0
    <2>1. PICK where \in {"idle", "wait"} : EndsUp(p, where)
        BY <1>5, AttemptFailsEnds DEF ProbeStepFails, ProbeFails
    <2>2. ProcessTypes' /\ OneLive' /\ NoDeviceLeft' /\ PollsFit'
        BY <1>2, <2>1, EndsUpOk
    <2>3. /\ Downloading' /\ HolderLoops' /\ GoodToBoot'
          /\ ReleasedWhole' /\ BusFits' /\ Untampered'
        BY <1>2, <2>1, EndsUpHolders
    <2>4. AloneWithoutExcuse'
        BY <1>1, <1>2, <1>5, <2>1 DEF EndsUp, AloneWithoutExcuse, Sound, Busy, ProcessTypes
    <2>. QED  BY <1>3, <2>2, <2>3, <2>4
<1>. QED  BY <1>4, <1>5

\* The reset cures a deaf camera, unless it fails, which is an excuse.
LEMMA ResetInv ==
    ASSUME Inv, NEW p \in Proc, Reset(p)
    PROVE  Inv'
<1>. USE DEF Inv
<1>1. /\ UNCHANGED <<bus, cpu, ram, test, tampered>>
      /\ pc[p] = "reset"
      /\ deaf' \in BOOLEAN /\ (deaf' => deaf)
      /\ faults' \in 0 .. MaxFaults
      /\ excused \subseteq excused'
      /\ p \in excused' \/ ~deaf' \/ handle[p] # "live"
    <2>1. CASE deaf' = (deaf /\ handle[p] # "live") /\ UNCHANGED <<faults, excused>>
        BY <2>1 DEF Reset, CameraTypes
    <2>2. CASE Fault /\ excused' = excused \union {p} /\ UNCHANGED deaf
        BY <2>2, ConnectAssumption DEF ConnectAssumption, Reset, Fault, CameraTypes
    <2>. QED  BY <2>1, <2>2 DEF Reset
<1>2. EndsUp(p, "wait")
    BY WaitsEnds DEF Reset
<1>3. ProcessTypes' /\ OneLive' /\ NoDeviceLeft' /\ PollsFit'
    BY <1>1, <1>2, EndsUpOk
<1>4. CameraTypes'
    BY <1>1 DEF CameraTypes
<1>5. Downloading' /\ HolderLoops' /\ GoodToBoot'
    BY <1>1, <1>2 DEF EndsUp, Downloading, HolderLoops, GoodToBoot, ProcessTypes
<1>6. ReleasedWhole' /\ BusFits' /\ Untampered'
    BY <1>1 DEF ReleasedWhole, Whole, BusFits, Untampered
<1>7. AloneWithoutExcuse'
    BY <1>1, <1>2 DEF EndsUp, AloneWithoutExcuse, Sound, Busy, ProcessTypes
<1>. QED  BY <1>3, <1>4, <1>5, <1>6, <1>7

\* The holder halts the 8051; nobody else can be in a download with a live Device.
LEMMA HaltInv ==
    ASSUME Inv, NEW p \in Proc, Halt(p)
    PROVE  Inv'
<1>. USE DEF Inv, Halt, HearsLoader, Carried, Tampers, Goes
<1>1. CameraTypes'
    BY ConnectAssumption DEF ConnectAssumption, CameraTypes
<1>2. ProcessTypes'
    BY ConnectAssumption DEF ConnectAssumption, ProcessTypes, States
<1>3. OneLive'
    BY DEF OneLive, ProcessTypes
<1>4. NoDeviceLeft' /\ PollsFit'
    BY DEF NoDeviceLeft, PollsFit, ProcessTypes
<1>5. Downloading'
    <2>. SUFFICES ASSUME NEW q \in Proc, pc'[q] \in {"download", "run"}, handle'[q] = "live"
                  PROVE  q = p /\ cpu' = "halted" /\ pc'[q] = "download" /\ next'[q] = 1
                            /\ (job'[q] = "other" => tampered')
        BY DEF Downloading
    <2>. QED  BY DEF OneLive, ProcessTypes
<1>6. ReleasedWhole'
    BY DEF ReleasedWhole, Whole, ProcessTypes
<1>7. HolderLoops' /\ BusFits'
    BY DEF HolderLoops, BusFits, ProcessTypes, OneLive
<1>8. GoodToBoot'
    BY DEF GoodToBoot, ProcessTypes
<1>9. Untampered'
    BY DEF Untampered, Whole, GoodToBoot, ProcessTypes
<1>10. AloneWithoutExcuse'
    BY DEF AloneWithoutExcuse, Sound, Busy, ProcessTypes
<1>. QED  BY <1>1, <1>2, <1>3, <1>4, <1>5, <1>6, <1>7, <1>8, <1>9, <1>10

\* One more record of the holder's image is in memory.
LEMMA WriteRecordInv ==
    ASSUME Inv, NEW p \in Proc, WriteRecord(p)
    PROVE  Inv'
<1>. USE ConnectAssumption DEF ConnectAssumption, Inv, CameraTypes,
      ProcessTypes, States, OneLive, WriteRecord, HearsLoader, Carried, Goes
<1>1. CameraTypes'
    <2>1. ram' = [ram EXCEPT ![next[p]] = job[p]] /\ next[p] \in 1 .. Records
        OBVIOUS
    <2>2. ram' \in [1 .. Records -> {"none", "good", "other"}]
        BY <2>1
    <2>. QED  BY <2>2
<1>2. ProcessTypes'
    <2>1. next[p] < Records => next[p] + 1 \in 1 .. Records
        OBVIOUS
    <2>2. next' \in [Proc -> 1 .. Records] /\ pc' \in [Proc -> States]
        BY <2>1
    <2>. QED  BY <2>2
<1>3. OneLive'
    OBVIOUS
<1>4. NoDeviceLeft' /\ PollsFit'
    BY DEF NoDeviceLeft, PollsFit
<1>5. Downloading'
    BY DEF Downloading
<1>6. ReleasedWhole'
    BY DEF ReleasedWhole, Whole, Downloading
<1>7. HolderLoops' /\ BusFits'
    BY DEF HolderLoops, BusFits
<1>8. GoodToBoot'
    BY DEF GoodToBoot
<1>9. Untampered'
    BY DEF Untampered, Whole, Downloading
<1>10. AloneWithoutExcuse'
    BY DEF AloneWithoutExcuse, Sound, Busy
<1>. QED  BY <1>1, <1>2, <1>3, <1>4, <1>5, <1>6, <1>7, <1>8, <1>9, <1>10

\* The 8051 is released with all of the holder's image in memory.
LEMMA RunImageInv ==
    ASSUME Inv, NEW p \in Proc, RunImage(p)
    PROVE  Inv'
<1>. USE DEF Inv, RunImage, HearsLoader, Carried, Waits, Goes, Close
<1>1. CameraTypes'
    BY ConnectAssumption DEF ConnectAssumption, CameraTypes
<1>2. ProcessTypes'
    BY ConnectAssumption DEF ConnectAssumption, ProcessTypes, States
<1>3. OneLive'
    BY DEF OneLive, ProcessTypes
<1>4. NoDeviceLeft' /\ PollsFit'
    BY ConnectAssumption DEF ConnectAssumption, NoDeviceLeft, PollsFit, ProcessTypes
<1>5. Downloading'
    BY DEF Downloading, ProcessTypes, OneLive
<1>6. ReleasedWhole'
    BY DEF ReleasedWhole, Whole, Downloading, ProcessTypes
<1>7. HolderLoops' /\ BusFits'
    BY DEF HolderLoops, BusFits, ProcessTypes, OneLive
<1>8. GoodToBoot'
    BY DEF GoodToBoot, ProcessTypes
<1>9. Untampered'
    BY DEF Untampered, Whole, GoodToBoot, Downloading, ProcessTypes
<1>10. AloneWithoutExcuse'
    BY DEF AloneWithoutExcuse, Sound, Busy, ProcessTypes
<1>. QED  BY <1>1, <1>2, <1>3, <1>4, <1>5, <1>6, <1>7, <1>8, <1>9, <1>10

\* A download cut short closes its Device, whatever it has done to the camera.
LEMMA DownloadStepFailsInv ==
    ASSUME Inv, NEW p \in Proc, DownloadStepFails(p)
    PROVE  Inv'
<1>. USE DEF Inv
<1>1. pc[p] \in {"halt", "download", "run"}
    BY DEF DownloadStepFails
<1>2. EndsUp(p, "idle")
    BY ReturnsEnds DEF DownloadStepFails, DownloadFails
<1>3. /\ UNCHANGED <<bus, deaf, test>>
      /\ faults' \in 0 .. MaxFaults
      /\ excused \subseteq excused'
      /\ p \in excused' \/ ~HearsLoader(p)
    BY <1>1, ConnectAssumption DEF ConnectAssumption, DownloadStepFails, RequestFails, Carried,
       Fault, device, CameraTypes
\* What the request may have done: nothing, all it asks for, or no more than be counted.
<1>4. \/ UNCHANGED <<cpu, ram, tampered>>
      \/ /\ HearsLoader(p)
         /\ tampered' = (tampered \/ (pc[p] = "halt" /\ job[p] = "other"))
         /\ \/ UNCHANGED <<cpu, ram>>
            \/ pc[p] = "halt" /\ cpu' = "halted" /\ UNCHANGED ram
            \/ pc[p] = "download" /\ ram' = [ram EXCEPT ![next[p]] = job[p]] /\ UNCHANGED cpu
            \/ pc[p] = "run" /\ cpu' = "released" /\ UNCHANGED ram
    BY <1>1 DEF DownloadStepFails, RequestFails, Carried, Tampers, device
<1>5. ProcessTypes' /\ OneLive' /\ NoDeviceLeft' /\ PollsFit'
    BY <1>2, <1>3, EndsUpOk
<1>6. CASE UNCHANGED <<cpu, ram, tampered>>
    <2>1. /\ Downloading' /\ HolderLoops' /\ GoodToBoot'
          /\ ReleasedWhole' /\ BusFits' /\ Untampered'
        BY <1>2, <1>3, <1>6, EndsUpHolders
    <2>2. CameraTypes'
        BY <1>3, <1>6 DEF CameraTypes
    <2>3. AloneWithoutExcuse'
        BY <1>1, <1>2, <1>3, <1>6 DEF EndsUp, AloneWithoutExcuse, Sound, Busy, ProcessTypes
    <2>. QED  BY <1>5, <2>1, <2>2, <2>3
<1>7. CASE /\ HearsLoader(p)
           /\ tampered' = (tampered \/ (pc[p] = "halt" /\ job[p] = "other"))
           /\ \/ UNCHANGED <<cpu, ram>>
              \/ pc[p] = "halt" /\ cpu' = "halted" /\ UNCHANGED ram
              \/ pc[p] = "download" /\ ram' = [ram EXCEPT ![next[p]] = job[p]] /\ UNCHANGED cpu
              \/ pc[p] = "run" /\ cpu' = "released" /\ UNCHANGED ram
    <2>1. handle[p] = "live" /\ \A q \in Proc : handle'[q] # "live"
        BY <1>2, <1>7 DEF EndsUp, HearsLoader, OneLive, ProcessTypes
    <2>2. CameraTypes'
        BY <1>3, <1>7 DEF CameraTypes, ProcessTypes
    <2>3. Downloading' /\ HolderLoops'
        BY <2>1 DEF Downloading, HolderLoops
    <2>4. GoodToBoot'
        BY <1>2, <2>1 DEF EndsUp, GoodToBoot, ProcessTypes
    <2>5. pc[p] = "run" => Whole("good") \/ Whole("other")
        BY <2>1 DEF Downloading, Whole, ProcessTypes
    <2>6. pc[p] = "download" => cpu = "halted"
        BY <2>1 DEF Downloading
    <2>7. ReleasedWhole'
        BY <1>7, <2>5, <2>6 DEF ReleasedWhole, Whole
    <2>8. BusFits'
        BY <1>3, <1>7, <2>1 DEF BusFits, Downloading, OneLive, HearsLoader
    <2>9. Untampered'
        <3>. SUFFICES ASSUME ~tampered' PROVE Untampered'
            BY DEF Untampered
        <3>1. ~tampered /\ job[p] = "good" /\ bus = "boot"
            BY <1>1, <1>7, <2>1 DEF GoodToBoot, Downloading, ProcessTypes
        <3>2. cpu # "looping" /\ cpu # "starting"
            BY <2>1, <3>1 DEF BusFits
        <3>3. \A r \in 1 .. Records : ram'[r] # "other"
            BY <1>7, <3>1 DEF Untampered, CameraTypes, ProcessTypes
        <3>. QED  BY <1>3, <1>7, <3>1, <3>2, <3>3 DEF Untampered
    <2>10. p \in excused'
        BY <1>3, <1>7
    <2>11. AloneWithoutExcuse'
        BY <1>1, <1>2, <1>3, <2>10 DEF EndsUp, AloneWithoutExcuse, Sound, Busy, ProcessTypes
    <2>. QED  BY <1>5, <2>2, <2>3, <2>4, <2>7, <2>8, <2>9, <2>11
<1>. QED  BY <1>4, <1>6, <1>7

\* Close gives the interface back.
LEMMA DisconnectInv ==
    ASSUME Inv, NEW p \in Proc, Disconnect(p)
    PROVE  Inv'
<1>. USE DEF Inv, Disconnect, Returns, Close, Forgets, Goes, device
<1>1. CameraTypes'
    BY ConnectAssumption DEF ConnectAssumption, CameraTypes
<1>2. ProcessTypes'
    BY ConnectAssumption DEF ConnectAssumption, ProcessTypes, States
<1>3. OneLive'
    BY DEF OneLive, ProcessTypes
<1>4. NoDeviceLeft' /\ PollsFit'
    BY DEF NoDeviceLeft, PollsFit, ProcessTypes
<1>5. Downloading'
    BY DEF Downloading, ProcessTypes
<1>6. ReleasedWhole'
    BY DEF ReleasedWhole, Whole, ProcessTypes
<1>7. HolderLoops' /\ BusFits'
    BY DEF HolderLoops, BusFits, ProcessTypes
<1>8. GoodToBoot'
    BY DEF GoodToBoot, ProcessTypes
<1>9. Untampered'
    BY DEF Untampered, Whole, ProcessTypes
<1>10. AloneWithoutExcuse'
    BY DEF AloneWithoutExcuse, Sound, Busy, ProcessTypes
<1>. QED  BY <1>1, <1>2, <1>3, <1>4, <1>5, <1>6, <1>7, <1>8, <1>9, <1>10

\* A process that ends has its Device closed for it.
LEMMA CrashInv ==
    ASSUME Inv, NEW p \in Proc, Crash(p)
    PROVE  Inv'
<1>. USE DEF Inv, Crash, Returns, Close, Forgets, Goes
<1>1. CameraTypes'
    BY ConnectAssumption DEF ConnectAssumption, CameraTypes
<1>2. ProcessTypes'
    BY ConnectAssumption DEF ConnectAssumption, ProcessTypes, States
<1>3. OneLive'
    BY DEF OneLive, ProcessTypes
<1>4. NoDeviceLeft' /\ PollsFit'
    BY DEF NoDeviceLeft, PollsFit, ProcessTypes
<1>5. Downloading'
    BY DEF Downloading, ProcessTypes
<1>6. ReleasedWhole'
    BY DEF ReleasedWhole, Whole, ProcessTypes
<1>7. HolderLoops' /\ BusFits'
    BY DEF HolderLoops, BusFits, ProcessTypes, OneLive, CameraTypes
<1>8. GoodToBoot'
    BY DEF GoodToBoot, ProcessTypes
<1>9. Untampered'
    BY DEF Untampered, Whole, ProcessTypes
<1>10. AloneWithoutExcuse'
    BY DEF AloneWithoutExcuse, Sound, Busy, ProcessTypes
<1>. QED  BY <1>1, <1>2, <1>3, <1>4, <1>5, <1>6, <1>7, <1>8, <1>9, <1>10

-----------------------------------------------------------------------------
(* Part 3: the theorems.                                                     *)

\* Nothing plugged in and nobody at work: the invariant holds.
LEMMA InitInv ==
    ASSUME Init
    PROVE  Inv
<1>1. CameraTypes
    <2>1. ram \in [1 .. Records -> {"none", "good", "other"}] /\ 0 \in 0 .. MaxFaults
        BY ConnectAssumption DEF ConnectAssumption, Init
    <2>. QED  BY <2>1 DEF Init, CameraTypes
<1>2. ProcessTypes
    BY ConnectAssumption DEF ConnectAssumption, Init, ProcessTypes, States
<1>3. OneLive /\ NoDeviceLeft
    BY DEF Init, OneLive, NoDeviceLeft
<1>4. PollsFit /\ Downloading /\ ReleasedWhole /\ HolderLoops /\ BusFits /\ GoodToBoot
    BY DEF Init, PollsFit, Downloading, ReleasedWhole, HolderLoops, BusFits, GoodToBoot
<1>5. Untampered /\ AloneWithoutExcuse
    BY DEF Init, Untampered, AloneWithoutExcuse, Busy
<1>. QED  BY <1>1, <1>2, <1>3, <1>4, <1>5 DEF Inv

\* A step that changes nothing keeps the invariant.
LEMMA StutterInv ==
    ASSUME Inv, UNCHANGED vars
    PROVE  Inv'
BY DEF Inv, vars, device, process, CameraTypes, ProcessTypes, OneLive, NoDeviceLeft,
   PollsFit, Downloading, ReleasedWhole, Whole, HolderLoops, BusFits, GoodToBoot, Untampered,
   AloneWithoutExcuse, Sound, Busy

\* Every step of the camera, of a process or of its user keeps the invariant.
LEMMA NextInv ==
    ASSUME Inv, [Next]_vars
    PROVE  Inv'
<1>1. CASE Camera
    BY <1>1, UnplugInv, PlugInv, LeavesBusInv, EnumeratesInv, LoopsInv DEF Camera
<1>2. ASSUME NEW p \in Proc, NEW image \in {"good", "other"}, Begin(p, image)
      PROVE  Inv'
    BY <1>2, BeginInv
<1>3. ASSUME NEW p \in Proc, Step(p)
      PROVE  Inv'
    BY <1>3, OpenOkInv, OpenFailsInv, ProbeIdentityInv, ProbeReadInv, ProbeWriteInv,
       ProbeStepFailsInv, ResetInv, HaltInv, WriteRecordInv, RunImageInv,
       DownloadStepFailsInv DEF Step
<1>4. ASSUME NEW p \in Proc, Disconnect(p) \/ Crash(p)
      PROVE  Inv'
    BY <1>4, DisconnectInv, CrashInv
<1>5. CASE UNCHANGED vars
    BY <1>5, StutterInv
<1>. QED  BY <1>1, <1>2, <1>3, <1>4, <1>5 DEF Next

(* Part 1 holds in every state of the specification: the Device that is live is the
   only one and knows what the camera does (fx2.go:95-202, transport_linux.go:81-111). *)
THEOREM ConnectInvariant == Spec => []Inv
<1>. QED  BY InitInv, NextInv, PTL DEF Spec

(* The camera and the processes are in one of their states, and at most one Device is
   live, of a camera on the bus (fx2.go:139-202). *)
THEOREM ConnectTypes == Spec => []ConnectTypeOK
<1>1. Inv => ConnectTypeOK
    BY DEF Inv, CameraTypes, ProcessTypes, States, OneLive, ConnectTypeOK
<1>. QED  BY <1>1, ConnectInvariant, PTL

(* Whatever way a Connect goes wrong, it leaves no Device open (fx2.go:143-202). *)
THEOREM NothingLeftOpen == Spec => []NoDeviceLeft
<1>1. Inv => NoDeviceLeft
    BY DEF Inv
<1>. QED  BY <1>1, ConnectInvariant, PTL

(* The 8051 is let run only with all of one image in memory, for any number of
   processes that download, fail, crash and are unplugged (fx2.go:95-123). *)
THEOREM NoMixRuns == Spec => RunsWholeImage
<1>1. Inv /\ Inv' /\ [Next]_vars => [cpu' = "released" => Whole("good") \/ Whole("other")]_vars
    <2>. SUFFICES ASSUME Inv, Inv', Next, cpu' = "released"
                  PROVE  Whole("good") \/ Whole("other")
        OBVIOUS
    <2>1. CASE cpu = "released"
        BY <2>1 DEF Inv, ReleasedWhole
    <2>2. CASE cpu # "released"
        <3>1. UNCHANGED ram
            BY <2>2 DEF Next, Camera, Unplug, Plug, LeavesBus, Enumerates, Loops, Begin, Step,
               OpenOk, OpenFails, ProbeIdentity, ProbeRead, ProbeWrite, ProbeStepFails, Reset,
               Halt, WriteRecord, RunImage, DownloadStepFails, Disconnect, Crash, Carried,
               RequestFails, device
        <3>. QED  BY <3>1 DEF Inv, ReleasedWhole, Whole
    <2>. QED  BY <2>1, <2>2
<1>. QED  BY <1>1, ConnectInvariant, PTL DEF Spec, RunsWholeImage

\* A step of one process leaves what another is about to do, and its Device.
LEMMA StepIsOwn ==
    ASSUME NEW p \in Proc, NEW q \in Proc, p # q, ProcessTypes, Step(q)
    PROVE  pc'[p] = pc[p] /\ handle'[p] = handle[p]
BY DEF ProcessTypes, Step, OpenOk, OpenFails, ProbeIdentity, ProbeRead, ProbeWrite,
   ProbeStepFails, ProbeFails, AttemptFails, Reset, Halt, WriteRecord, RunImage,
   DownloadStepFails, DownloadFails, Returns, Waits, Opened, Goes, Close, Forgets

\* Without a live Device a process changes nothing in the camera.
LEMMA DeadHandsOff ==
    ASSUME NEW q \in Proc, handle[q] # "live", deaf \in BOOLEAN, Step(q)
    PROVE  UNCHANGED <<cpu, ram, deaf, test>>
BY DEF Step, OpenOk, OpenFails, ProbeIdentity, ProbeRead, ProbeWrite, ProbeStepFails, Reset,
   Halt, WriteRecord, RunImage, DownloadStepFails, RequestFails, HearsLoader, Answers, device

(* While a process has the camera, no other halts it, resets it, leaves it deaf or
   changes its memory or the register probe writes (transport_linux.go:102-105). *)
THEOREM Undisturbed == Spec => HolderUndisturbed
<1>1. ASSUME Inv, Next, NEW p \in Proc,
             pc[p] = "connected", pc'[p] = "connected", handle'[p] = "live"
      PROVE  UNCHANGED <<cpu, ram, deaf, test>>
    <2>1. CASE Camera
        BY <1>1, <2>1 DEF Inv, HolderLoops, ProcessTypes, Camera, Unplug, Plug, LeavesBus,
           Enumerates, Loops, Lost, process
    <2>2. ASSUME NEW q \in Proc, Step(q)
          PROVE  UNCHANGED <<cpu, ram, deaf, test>>
        <3>1. q # p
            BY <1>1, <2>2 DEF Step, OpenOk, OpenFails, Opening, ProbeIdentity, ProbeRead,
               ProbeWrite, ProbeStepFails, Reset, Halt, WriteRecord, RunImage,
               DownloadStepFails
        <3>2. handle[q] # "live"
            BY <1>1, <2>2, <3>1, StepIsOwn DEF Inv, OneLive
        <3>3. deaf \in BOOLEAN
            BY <1>1 DEF Inv, CameraTypes
        <3>. QED  BY <2>2, <3>2, <3>3, DeadHandsOff
    <2>3. ASSUME NEW q \in Proc, Crash(q)
          PROVE  UNCHANGED <<cpu, ram, deaf, test>>
        <3>1. q # p /\ handle[p] = "live"
            BY <1>1, <2>3 DEF Inv, ProcessTypes, Crash, Returns, Goes, Close
        <3>2. handle[q] # "live"
            BY <1>1, <3>1 DEF Inv, OneLive
        <3>3. deaf \in BOOLEAN
            BY <1>1 DEF Inv, CameraTypes
        <3>. QED  BY <2>3, <3>2, <3>3 DEF Crash
    <2>4. CASE \E q \in Proc : \/ Disconnect(q)
                            \/ \E image \in {"good", "other"} : Begin(q, image)
        BY <2>4 DEF Begin, Disconnect, device
    <2>. QED  BY <1>1, <2>1, <2>2, <2>3, <2>4 DEF Next
<1>2. Inv /\ [Next]_vars =>
          [\A p \in Proc :
             (pc[p] = "connected" /\ pc'[p] = "connected" /\ handle'[p] = "live") =>
                 UNCHANGED <<cpu, ram, deaf, test>>]_vars
    BY <1>1
<1>. QED  BY <1>2, ConnectInvariant, PTL DEF Spec, HolderUndisturbed

(* Connect fails only for a reason of its own call, whatever earlier calls have left
   behind (fx2.go:160-202).  An attempt that comes to nothing was a download, an open, a
   probe of WaitForCamera or an end of its process; for each, Sound says that the request
   could have succeeded, so that its failure is a reason. *)
THEOREM Reasons == Spec => FailsForAReason
<1>1. ASSUME Inv, Next, NEW p \in Proc, Busy(p), pc'[p] = "idle",
             cpu \notin {"released", "starting"}
      PROVE  p \in excused'
    <2>1. \/ OpenFails(p) \/ ProbeStepFails(p) \/ DownloadStepFails(p) \/ Crash(p)
        <3>1. CASE Camera
            BY <1>1, <3>1 DEF Camera, Unplug, Plug, LeavesBus, Enumerates, Loops, process, Busy
        <3>2. ASSUME NEW q \in Proc, q # p,
                     Step(q) \/ Disconnect(q) \/ Crash(q)
                       \/ \E image \in {"good", "other"} : Begin(q, image)
              PROVE  pc'[p] = pc[p]
            BY <1>1, <3>2, StepIsOwn DEF Inv, ProcessTypes, Disconnect, Crash, Begin, Returns, Goes
        <3>3. ~Disconnect(p) /\ \A image \in {"good", "other"} : ~Begin(p, image)
            BY <1>1 DEF Busy, Disconnect, Begin
        <3>4. ~(OpenOk(p) \/ ProbeIdentity(p) \/ ProbeRead(p) \/ ProbeWrite(p) \/ Reset(p)
                 \/ Halt(p) \/ WriteRecord(p) \/ RunImage(p))
            BY <1>1 DEF Inv, ProcessTypes, Busy, OpenOk, ProbeIdentity, ProbeRead, ProbeWrite,
               Reset, Halt, WriteRecord, RunImage, Waits, Goes
        <3>. QED  BY <1>1, <3>1, <3>2, <3>3, <3>4 DEF Next, Step, Busy
    <2>2. CASE Crash(p)
        BY <2>2 DEF Crash
    <2>3. CASE OpenFails(p)
        <3>1. p \in excused' \/ (~CanOpen(p) /\ UNCHANGED excused)
            BY <2>3 DEF OpenFails
        <3>2. CASE ~CanOpen(p) /\ UNCHANGED excused /\ p \notin excused
            <4>1. Sound(p)
                BY <1>1, <3>2 DEF Inv, AloneWithoutExcuse
            <4>2. \A q \in Proc : handle[q] = "none"
                BY <1>1, <2>3, <4>1 DEF Inv, NoDeviceLeft, Sound, OpenFails, Opening
            <4>3. bus = Wanted(p)
                BY <1>1, <2>3, <4>1 DEF Inv, Sound, OpenFails, Opening, Wanted, BusFits
            <4>. QED  BY <3>2, <4>2, <4>3 DEF CanOpen
        <3>. QED  BY <3>1, <3>2
    <2>4. CASE ProbeStepFails(p)
        <3>1. p \in excused' \/ (~Answers(p) /\ UNCHANGED excused)
            BY <2>4 DEF ProbeStepFails, RequestFails
        <3>2. CASE ~Answers(p) /\ UNCHANGED excused /\ p \notin excused
            <4>1. Sound(p) /\ pc[p] \in {"identity", "read", "write"}
                BY <1>1, <2>4, <3>2 DEF Inv, AloneWithoutExcuse, ProbeStepFails
            <4>2. polls[p] # 0
                BY <1>1, <2>4 DEF Inv, ProcessTypes, ProbeStepFails, ProbeFails, Goes
            <4>. QED  BY <1>1, <3>2, <4>1, <4>2 DEF Sound, Answers, HearsLoader
        <3>. QED  BY <3>1, <3>2
    <2>5. CASE DownloadStepFails(p)
        <3>1. p \in excused' \/ (~HearsLoader(p) /\ UNCHANGED excused)
            BY <2>5 DEF DownloadStepFails, RequestFails
        <3>2. CASE ~HearsLoader(p) /\ UNCHANGED excused /\ p \notin excused
            <4>1. Sound(p) /\ pc[p] \in {"halt", "download", "run"}
                BY <1>1, <2>5, <3>2 DEF Inv, AloneWithoutExcuse, DownloadStepFails
            <4>. QED  BY <1>1, <3>2, <4>1 DEF Inv, BusFits, CameraTypes, Sound, HearsLoader
        <3>. QED  BY <3>1, <3>2
    <2>. QED  BY <2>1, <2>2, <2>3, <2>4, <2>5
<1>2. Inv /\ [Next]_vars =>
          [\A p \in Proc :
              (Busy(p) /\ pc'[p] = "idle") =>
                  p \in excused' \/ cpu \in {"released", "starting"}]_vars
    BY <1>1
<1>. QED  BY <1>2, ConnectInvariant, PTL DEF Spec, FailsForAReason
=============================================================================
