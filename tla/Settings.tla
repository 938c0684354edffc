-------------------------------- MODULE Settings --------------------------------
(***************************************************************************)
(* The settings of a Camera: Init, SetROI, SetDepth, SetOffset, SetGain    *)
(* and SetExposure of camera.go, the control requests each one makes, and  *)
(* what the firmware's vendor_request does with them.                      *)
(*                                                                         *)
(* A setter writes registers one request at a time and puts the setting in *)
(* the Camera when the last one has been answered.  Any request may fail,  *)
(* applied or not; the firmware answers a sensor write the sensor refused  *)
(* like any other; and the process may end anywhere, leaving the device as *)
(* it is for the next one to open.                                         *)
(*                                                                         *)
(* A call that is refused (a value out of range, a change during a run)    *)
(* changes nothing and is not a step.  The sensor's own reset is taken to  *)
(* restore nothing, so that no setting may rely on it.                     *)
(*                                                                         *)
(* A definition whose name ends in Slip is used nowhere: it is the one     *)
(* that follows it with a plausible mistake, which a property must notice. *)
(***************************************************************************)
EXTENDS Integers, Sequences, FiniteSets

CONSTANTS
    Windows, Gains, Offsets, Exposures,     \* bounds: what callers ask for
    Width, Height, AddrOrigin, Blanking,
    Packet,             \* pixels in a packet (512)
    OffsetMax, OffsetBias,
    GainMax,
    DigitalGain,        \* the value of regGlobalGain for each gain step
    RowTime, MaxRows,   \* rowTimeUs and maxRows; times are in one small unit
    Millisecond,
    AddedModulus,       \* what the request for added exposure can hold (2^24)
    DefaultExposure,
    Attempts,           \* times a transport makes a request that fails: 1 on
                        \* linux, 4 in pm_control
    MaxFaults,          \* bound: requests that go wrong
    MaxMixed            \* bound: geometries there are pixels of at a time

ASSUME SettingsAssumption ==
    /\ \A w \in Windows : w \in Int \X Int \X Int \X Int
    /\ Gains \subseteq Int /\ Offsets \subseteq Int /\ Exposures \subseteq Int
    /\ {Width, Height, Packet, GainMax, RowTime, MaxRows, Millisecond,
        AddedModulus, DefaultExposure, Attempts} \subseteq Nat \ {0}
    /\ {AddrOrigin, Blanking, OffsetMax, OffsetBias, MaxFaults, MaxMixed} \subseteq Nat
    /\ DigitalGain \in [1 .. GainMax -> 0 .. 255]
    \* Init asks for the whole array, which SetROI accepts.
    /\ Width % 2 = 0 /\ Height % 2 = 0 /\ (Width * Height) % Packet = 0

VARIABLES
    open,           \* the Camera: closed, opening (OpenCamera in Init), open
    cache,          \* what the Camera says of each setting
    digitalTest,    \* Camera.digitalTest: <<the fixed bits, the column bits>>
    streaming,      \* Camera.streaming
    stages,         \* the settings the call in progress has yet to finish, as
                    \* <<setting, value>>; the first is being written
    todo,           \* the requests that are left of it, as <<register, value>>
    device,         \* the registers of the sensor and of the FX2
    sequencer,      \* the words fed to the sensor's sequencer
    ahead,          \* the geometries Camera.carry holds pixels of
    queued,         \* the geometries the endpoint's FIFO holds pixels of
    leftover,       \* history: when the window or the depth was last set the FIFO
                    \* held pixels of another, and it has not been reset since
    confirmed,      \* history: settings whose last setter succeeded, every write
                    \* having reached the sensor
    dropped,        \* history: a write of the current setter did not
    faults          \* requests that have gone wrong

host == <<open, cache, digitalTest, streaming, stages, todo>>
pixels == <<ahead, queued, leftover>>
vars == <<host, device, sequencer, pixels, confirmed, dropped, faults>>

Setting == {"window", "depth", "offset", "gain", "exposure"}

\* Registers of the FX2: a request that is answered has been carried out.
Bridge == {"speed", "mode", "added", "running"}

Hold == 0       \* resetRegisterHold
Run == 1        \* resetRegisterRun
FixedBits == 1  \* the bits of 0x5330 SetGain keeps
ColumnBits == 3 \* those it sets, all ones in 0x5330

PowerOn == [
    reset |-> Hold, xStart |-> 0, yStart |-> 0, xEnd |-> 0, yEnd |-> 0,
    frameLength |-> 0, readout |-> 0, pedestal |-> 0, digitalTest |-> <<0, 0>>,
    dac |-> "low", globalGain |-> 0, rows |-> 1,
    speed |-> 12, mode |-> 0, added |-> 0, running |-> FALSE]

NoSettings == [
    window |-> <<0, 0, 0, 0>>, depth |-> 0, offset |-> 0, gain |-> 0,
    exposure |-> [rows |-> 0, ms |-> 0]]

-----------------------------------------------------------------------------
(* What each setting is made of.                                             *)

\* Packets not asked about.
WindowOkSlip(x, y, w, h) ==
    /\ x >= 0 /\ y >= 0 /\ w > 0 /\ h > 0
    /\ x % 2 = 0 /\ y % 2 = 0 /\ w % 2 = 0 /\ h % 2 = 0
    /\ x + w <= Width /\ y + h <= Height

WindowOk(x, y, w, h) ==
    /\ x >= 0 /\ y >= 0 /\ w > 0 /\ h > 0
    /\ x % 2 = 0 /\ y % 2 = 0 /\ w % 2 = 0 /\ h % 2 = 0
    /\ (w * h) % Packet = 0
    /\ x + w <= Width /\ y + h <= Height

WindowOps(x, y, w, h) == <<
    <<"reset", Hold>>,
    <<"xStart", AddrOrigin + x>>,
    <<"yStart", AddrOrigin + y>>,
    <<"xEnd", AddrOrigin + x + w - 1>>,
    <<"yEnd", AddrOrigin + y + h - 1>>,
    <<"frameLength", h + Blanking>>,
    <<"reset", Run>> >>

DepthMode(bits) == IF bits = 12 THEN 1 ELSE 0

\* The ladder: two DAC settings for each of the column gains.
Columns(g) == IF g <= 7 THEN (g - 1) \div 2 ELSE 3
Dac(g) == IF g <= 7 /\ g % 2 = 1 THEN "low" ELSE "high"

\* The column bits only added to.
WithColumnsSlip(test, g) ==
    <<test[1], IF Columns(g) > test[2] THEN Columns(g) ELSE test[2]>>

WithColumns(test, g) == <<test[1], Columns(g)>>

GainOps(g) == <<
    <<"digitalTest", WithColumns(digitalTest, g)>>,
    <<"dac", Dac(g)>>,
    <<"globalGain", DigitalGain[g]>> >>

\* No row for a time shorter than one.
ProgrammedSlip(t) ==
    IF t <= RowTime * MaxRows
    THEN [rows |-> t \div RowTime, ms |-> 0]
    ELSE [rows |-> MaxRows, ms |-> (t - RowTime * MaxRows) \div Millisecond]

\* A positive time as rows of the sensor and milliseconds of the bridge.
Programmed(t) ==
    IF t < RowTime THEN [rows |-> 1, ms |-> 0]
    ELSE IF t <= RowTime * MaxRows
    THEN [rows |-> t \div RowTime, ms |-> 0]
    ELSE [rows |-> MaxRows, ms |-> (t - RowTime * MaxRows) \div Millisecond]

ExposureOps(e) == << <<"added", e.ms % AddedModulus>>, <<"rows", e.rows>> >>

\* The sequencer not rewound.
InitCmosSlip == <<
    <<"reset", Hold>>,
    <<"sequence", 1>>, <<"sequence", 2>>, <<"sequence", 1>>,
    <<"pedestal", 200>>,
    <<"dac", "low">> >>

\* The table, as far as settings and the sequencer are concerned: the registers
\* nothing else writes are left out, and the 276 words are three.
InitCmos == <<
    <<"reset", Hold>>,
    <<"rewind", 0>>,
    <<"sequence", 1>>, <<"sequence", 2>>, <<"sequence", 1>>,
    <<"pedestal", 200>>,
    <<"dac", "low">> >>

\* Init up to its setters; the readout setup's registers are one.
SetupOps ==
    << <<"speed", 12>> >> \o InitCmos \o <<
        <<"digitalTest", <<FixedBits, ColumnBits>> >>,
        <<"reset", Run>>,
        <<"readout", 1>> >>

InitStages == <<
    <<"setup", 0>>,
    <<"window", <<0, 0, Width, Height>> >>,
    <<"depth", 8>>,
    <<"offset", 0>>,
    <<"gain", 1>>,
    <<"exposure", Programmed(DefaultExposure)>> >>

Ops(s, v) ==
    CASE s = "setup"    -> SetupOps
      [] s = "window"   -> WindowOps(v[1], v[2], v[3], v[4])
      [] s = "depth"    -> << <<"mode", DepthMode(v)>> >>
      [] s = "offset"   -> << <<"pedestal", v + OffsetBias>> >>
      [] s = "gain"     -> GainOps(v)
      [] s = "exposure" -> ExposureOps(v)

-----------------------------------------------------------------------------
(* A setter.                                                                 *)

Idle == open = "open" /\ stages = <<>>

\* The first of the stages begins.
Begin(ss) ==
    LET s == Head(ss)[1]
        v == Head(ss)[2]
    IN  /\ stages' = ss
        /\ todo' = Ops(s, v)
        /\ digitalTest' = CASE s = "setup" -> <<FixedBits, ColumnBits>>
                            [] s = "gain"  -> WithColumns(digitalTest, v)
                            [] OTHER       -> digitalTest
        /\ confirmed' = confirmed \ {s}
        /\ dropped' = FALSE

Set(s, v) ==
    /\ Begin(<< <<s, v>> >>)
    /\ UNCHANGED <<open, cache, streaming, device, sequencer, pixels, faults>>

SetROI(x, y, w, h) ==
    /\ Idle
    /\ ~streaming
    /\ WindowOk(x, y, w, h)
    /\ Set("window", <<x, y, w, h>>)

\* Allowed during a run.
SetDepthSlip(bits) ==
    /\ Idle
    /\ Set("depth", bits)

SetDepth(bits) ==
    /\ Idle
    /\ ~streaming
    /\ Set("depth", bits)

SetOffset(n) ==
    /\ Idle
    /\ n \in 0 .. OffsetMax
    /\ Set("offset", n)

SetGain(g) ==
    /\ Idle
    /\ g \in 1 .. GainMax
    /\ Set("gain", g)

SetExposure(t) ==
    /\ Idle
    /\ t > 0
    /\ Set("exposure", Programmed(t))

\* The sensor has answered with its chip version: Init goes on to set it up.
OpenCamera ==
    /\ open = "closed"
    /\ open' = "opening"
    /\ Begin(InitStages)
    /\ UNCHANGED <<cache, streaming, device, sequencer, pixels, faults>>

Closed ==
    /\ open' = "closed"
    /\ cache' = NoSettings
    /\ digitalTest' = <<0, 0>>
    /\ streaming' = FALSE
    /\ stages' = <<>>
    /\ todo' = <<>>
    /\ ahead' = {}
    /\ confirmed' = {}
    /\ dropped' = FALSE
    /\ UNCHANGED <<queued, leftover>>

\* A setter gives up where it is; OpenCamera closes the device.
Fails ==
    IF open = "opening"
    THEN Closed
    ELSE /\ stages' = <<>>
         /\ todo' = <<>>
         /\ UNCHANGED <<open, cache, digitalTest, streaming, pixels, confirmed,
                        dropped>>

\* What the device does with a request it carries out this many times.
Applied(op, times) ==
    CASE times = 0           -> UNCHANGED <<device, sequencer>>
      [] op[1] = "rewind"    -> sequencer' = <<>> /\ UNCHANGED device
      [] op[1] = "sequence"  ->
            /\ sequencer' = sequencer \o [k \in 1 .. times |-> op[2]]
            /\ UNCHANGED device
      [] OTHER               ->
            /\ device' = [device EXCEPT ![op[1]] = op[2]]
            /\ UNCHANGED sequencer

(* One request: the device carried it out this many times, and it is answered or
   not in the end.  A write the sensor does not acknowledge is answered too.  *)
Request(times, answered) ==
    /\ todo # <<>>
    /\ (times = 0 /\ answered) => Head(todo)[1] \notin Bridge
    /\ IF times = 1 /\ answered
       THEN UNCHANGED faults
       ELSE faults < MaxFaults /\ faults' = faults + 1
    /\ Applied(Head(todo), times)
    /\ IF answered
       THEN /\ todo' = Tail(todo)
            /\ dropped' = (dropped \/ times = 0)
            /\ UNCHANGED <<open, cache, digitalTest, streaming, stages, pixels,
                           confirmed>>
       ELSE Fails

\* The read-ahead kept when the depth changes.
AheadAfterSlip(s) == IF s = "window" THEN {} ELSE ahead

\* A new geometry makes the read-ahead meaningless.
AheadAfter(s) == IF s \in {"window", "depth"} THEN {} ELSE ahead

\* What the sensor reads out, and the bridge makes of it.
DeviceGeometry ==
    <<device.xStart, device.yStart, device.xEnd, device.yEnd, device.mode>>

\* Every request has been answered: the Camera takes the setting, and Init goes on
\* to its next one.
SettingDone ==
    /\ stages # <<>>
    /\ todo = <<>>
    /\ LET s == Head(stages)[1]
           v == Head(stages)[2]
           sure == IF dropped THEN confirmed ELSE confirmed \union {s}
       IN  /\ cache' = IF s \in Setting THEN [cache EXCEPT ![s] = v] ELSE cache
           /\ ahead' = AheadAfter(s)
           /\ leftover' = IF s \in {"window", "depth"}
                          THEN \E g \in queued : g # DeviceGeometry
                          ELSE leftover
           /\ IF Len(stages) = 1
              THEN /\ stages' = <<>>
                   /\ open' = "open"
                   /\ confirmed' = sure
                   /\ dropped' = FALSE
                   /\ UNCHANGED <<digitalTest, todo>>
              ELSE /\ LET next == Tail(stages)
                          g == Head(next)[2]
                      IN  /\ stages' = next
                          /\ todo' = Ops(Head(next)[1], g)
                          /\ digitalTest' = IF Head(next)[1] = "gain"
                                            THEN WithColumns(digitalTest, g)
                                            ELSE digitalTest
                   /\ confirmed' = sure
                   /\ dropped' = FALSE
                   /\ UNCHANGED open
    /\ UNCHANGED <<streaming, device, sequencer, queued, faults>>

-----------------------------------------------------------------------------
(* What else meets the settings.                                             *)

\* ClearHalt, then the request to begin a scan, which resets the FIFO: either may fail.
Start(running, started) ==
    /\ Idle
    /\ started => running
    /\ device' = [device EXCEPT !.running = @ \/ running]
    /\ streaming' = (streaming \/ started)
    /\ ahead' = {}
    /\ queued' = IF running THEN {} ELSE queued
    /\ leftover' = (leftover /\ ~running)
    /\ UNCHANGED <<open, cache, digitalTest, stages, todo, sequencer, confirmed,
                   dropped, faults>>

\* The device goes on streaming.
Stop ==
    /\ Idle
    /\ streaming' = FALSE
    /\ ahead' = {}
    /\ UNCHANGED <<open, cache, digitalTest, stages, todo, device, sequencer, queued,
                   leftover, confirmed, dropped, faults>>

\* The sensor reads out a frame, or the part of one there is room for, of the window
\* and at the depth its registers say at this moment, whoever is writing them.
DeviceStreams ==
    /\ device.running
    /\ device.reset = Run
    /\ Cardinality(ahead \union queued \union {DeviceGeometry}) <= MaxMixed
    /\ queued' = queued \union {DeviceGeometry}
    /\ UNCHANGED <<host, device, sequencer, ahead, leftover, confirmed, dropped,
                   faults>>

\* Settle or Frame, in a run or not: what it has read comes from the read-ahead and the
\* FIFO, whatever they hold, and so does what it leaves in both.
Capture ==
    /\ Idle
    /\ queued' \in SUBSET queued
    /\ ahead' \in SUBSET (ahead \union queued)
    /\ UNCHANGED <<host, device, sequencer, leftover, confirmed, dropped, faults>>

\* Close, or the end of the process at any point.
Exit ==
    /\ open # "closed"
    /\ Closed
    /\ UNCHANGED <<device, sequencer, faults>>

\* Unplugged between two processes, and its firmware loaded again.
PowerCycle ==
    /\ open = "closed"
    /\ device' = PowerOn
    /\ sequencer' = <<>>
    /\ queued' = {}
    /\ leftover' = FALSE
    /\ UNCHANGED <<host, ahead, confirmed, dropped, faults>>

Init ==
    /\ open = "closed"
    /\ cache = NoSettings
    /\ digitalTest = <<0, 0>>
    /\ streaming = FALSE
    /\ stages = <<>>
    /\ todo = <<>>
    /\ device = PowerOn
    /\ sequencer = <<>>
    /\ ahead = {}
    /\ queued = {}
    /\ leftover = FALSE
    /\ confirmed = {}
    /\ dropped = FALSE
    /\ faults = 0

Next ==
    \/ OpenCamera
    \/ \E w \in Windows : SetROI(w[1], w[2], w[3], w[4])
    \/ \E bits \in {8, 12} : SetDepth(bits)
    \/ \E n \in Offsets : SetOffset(n)
    \/ \E g \in Gains : SetGain(g)
    \/ \E t \in Exposures : SetExposure(t)
    \/ \E times \in 0 .. Attempts, answered \in BOOLEAN : Request(times, answered)
    \/ SettingDone
    \/ \E running, started \in BOOLEAN : Start(running, started)
    \/ Stop
    \/ DeviceStreams
    \/ Capture
    \/ Exit
    \/ PowerCycle

Spec == Init /\ [][Next]_vars

-----------------------------------------------------------------------------
(* Properties.                                                               *)

\* The Camera's fields are those of accepted values, and every register is one its
\* width allows (camera.go:99-121, main.c:171-177).
SettingsTypeOK ==
    /\ open \in {"closed", "opening", "open"}
    /\ cache.window = <<0, 0, 0, 0>> \/ cache.window \in Windows
          \/ cache.window = <<0, 0, Width, Height>>
    /\ cache.depth \in {0, 8, 12}
    /\ cache.offset \in 0 .. OffsetMax
    /\ cache.gain \in 0 .. GainMax
    /\ cache.exposure \in [rows : 0 .. MaxRows, ms : Nat]
    /\ digitalTest \in (0 .. 1) \X (0 .. 3)
    /\ streaming \in BOOLEAN
    /\ Len(stages) <= Len(InitStages)
    /\ Len(todo) <= Len(SetupOps)
    /\ device.rows \in 1 .. MaxRows
    /\ device.added \in 0 .. AddedModulus - 1
    /\ device.mode \in {0, 1}
    /\ leftover \in BOOLEAN
    /\ confirmed \subseteq Setting \union {"setup"}
    /\ faults \in 0 .. MaxFaults

InForce(s) ==
    CASE s = "window"   ->
            LET w == cache.window
            IN  /\ device.reset = Run
                /\ device.xStart = AddrOrigin + w[1]
                /\ device.yStart = AddrOrigin + w[2]
                /\ device.xEnd + 1 - device.xStart = w[3]
                /\ device.yEnd + 1 - device.yStart = w[4]
                /\ device.frameLength = w[4] + Blanking
      [] s = "depth"    -> device.mode = (IF cache.depth = 8 THEN 0 ELSE 1)
      [] s = "offset"   -> device.pedestal = cache.offset + OffsetBias
      [] s = "gain"     ->
            /\ device.digitalTest = <<FixedBits, Columns(cache.gain)>>
            /\ device.dac = Dac(cache.gain)
            /\ device.globalGain = DigitalGain[cache.gain]
      [] s = "exposure" ->
            /\ device.rows = cache.exposure.rows
            /\ device.added = cache.exposure.ms % AddedModulus
            /\ device.speed = 12
      [] s = "setup"    -> device.readout = 1

(* Whatever other setters did since, failed or cut short, and in whatever state an
   earlier process left the device: a setting whose last setter succeeded, with
   every write acknowledged by the sensor, is what the device holds.  Setters share
   registers with Init and with each other and never undo one another
   (camera.go:139-412).                                                      *)
ConfirmedInForce == \A s \in confirmed : InForce(s)

(* With the window and the depth confirmed, the frames the device sends have the
   length Frame counts, are a whole number of packets at either depth, and lie in
   the array (camera.go:122-128, 152-172).                                   *)
WholePackets ==
    (open = "open" /\ {"window", "depth"} \subseteq confirmed) =>
        LET w == device.xEnd + 1 - device.xStart
            h == device.yEnd + 1 - device.yStart
            bytes == w * h * (1 + device.mode)
        IN  /\ bytes = cache.window[3] * cache.window[4]
                          * (IF cache.depth = 12 THEN 2 ELSE 1)
            /\ bytes % Packet = 0
            /\ device.xStart >= AddrOrigin /\ device.xEnd < AddrOrigin + Width
            /\ device.yStart >= AddrOrigin /\ device.yEnd < AddrOrigin + Height

\* The device's geometry when it holds what the Camera counts by.
CountedGeometry ==
    LET w == cache.window
    IN  <<AddrOrigin + w[1], AddrOrigin + w[2], AddrOrigin + w[1] + w[3] - 1,
          AddrOrigin + w[2] + w[4] - 1, DepthMode(cache.depth)>>

(* With the window and the depth confirmed, whatever Frame has to read in a run, left
   over from the last or waiting in the device, is of the geometry it counts by: no
   pixel of an old window or depth, nor of a half-written one, gets into a frame of
   the new one, though a stopped camera goes on streaming and the setters do not
   empty its FIFO.  Out of a run this holds only if the FIFO had none of them when
   the window or depth was set: then what SetROI and SetDepth drop is all there was,
   and the rest waits for a Start (camera.go:174, 197, 419, main.c:97-108).  *)
ReadAheadFits ==
    ({"window", "depth"} \subseteq confirmed /\ (streaming \/ ~leftover)) =>
        \A g \in ahead \union queued : g = CountedGeometry

(* During a run neither side's idea of a frame changes (HARDWARE.md:64:
   "Camera.SetROI rejects changes during a capture run").                    *)
GeometryFixedInRun ==
    [][(streaming /\ streaming') =>
          UNCHANGED <<DeviceGeometry, cache.window, cache.depth>>]_vars

(* regs.go:11-12: "Writes to 0x3086 feed successive words into the sequencer;
   preserve their order and repetitions".  Once Init's setup has succeeded, with no
   write refused by the sensor, the sequencer holds the table's words, each as often
   as the table.                                                             *)
SequencerInOrder ==
    "setup" \in confirmed => sequencer = <<1, 2, 1>>
=============================================================================
