# PoleMaster in TLA+

A TLA+ development of the PoleMaster driver: the Go package `polemaster` (camera,
transports, firmware download), the `pmsnap` command, and the firmware of the FX2
USB bridge in `firmware/fw`. Paths below are relative to `src/`.

The camera is a MT9M034 sensor behind an FX2. The FX2 boots into a loader, is given
its firmware over USB, leaves the bus and comes back as another product. From then on
the host sets registers by control requests and reads pixels from a bulk endpoint. The
sensor reads out frames all the time; nothing on the wire says where one begins but a
trailer of five bytes that an interrupt writes after each frame.

## Inventory

| Part | Source | State | Operations | What makes it hard | Correct when |
| --- | --- | --- | --- | --- | --- |
| frame reader | `camera.go` 418-606 | `carry`, `trail`, `streaming`, locals of `readFrame` and `settleOnce` | `Start`, `Stop`, `Settle`, `Frame`, `Snap` | reads end anywhere; markers straddle reads and hide in rejected trailers; resync inside retry inside settle | bytes stay in order, no marker is missed, only validated images are handed out, an error or a `Stop` leaves nothing, every call returns |
| capture path | `fw/main.c` 31-108, 257-268; transports' `BulkRead` | EP2 FIFO, `frame_pending`, `streaming`, IFCONFIG | `frame_end` interrupt, gate of the main loop, `stream_start`, USB transfer | three clocks: sensor, 8051, host; a full FIFO; a trailer written over a partial packet | an image is one frame; settled frames are fresh; intact streams are never rejected |
| settings | `camera.go` 103-414, `regs.go`, `fw/main.c` 110-179 | the Camera's copies, registers of sensor and bridge, sequencer | `Init`, `SetROI`, `SetDepth`, `SetOffset`, `SetGain`, `SetExposure`, `Close` | setters of many requests that fail half way; unacknowledged sensor writes; repeated requests; a device that goes on streaming while it is set, or left by a dead process | a confirmed setting is in force; frame lengths agree; nothing changes in a run |
| connection | `fx2.go` 70-202, transports' `Open`, `Close`, `Reset`; `cmd/pmsnap/main.go` 90-116 | product on the bus, 8051, its memory, handles, polls | `Connect`, `LoadImage`, `WaitForCamera`, `probe`, `load` | re-enumeration while polling; several processes; unplugging; a camera left deaf | no Device leaks, no mixed image runs, a holder is left alone, it recovers, it ends |
| HEX parser | `fx2.go` 22-68 | line, records | `parseHex` | records with and without checksum in one text | what is written is read, only bad text is refused |
| transports | `transport_*.go` | file descriptor or interface, mutex | control, bulk, reset, open, close | a timeout is a value on linux and an error on darwin; retries on darwin; what is left of a deadline becomes 32 bits of milliseconds, 0 meaning no timeout | modelled where the results are used |
| firmware control path | `fw/usb.c`, `fw/i2c.c`, `fw/main.c` 117-201, 251-269 | EP0, SUDAV, `frame_pending`, the place of the main loop | `usb_setup`, `vendor_request`, `ep0_recv`, `sensor_*`, the gate | busy waits, for the data stage and for added exposure, while the host gives up and comes back | what is answered was carried out, once, with its own data; the loop always comes back; frames get through |
| `pmsnap` | `cmd/pmsnap/main.go` | camera, files, exit status, the clock | `list`, `load`, `info`, `snap`, `regs`, `parseROI`, `writePGM` | many ways out, explicit and deferred; deadlines | the status tells the files, the camera is stopped and closed on every way out, a command ends |
| pixel, identity and version decoding; statistics | `camera.go`, `cmd/pmsnap` | none | | | not modelled: expressions over their input |

The parts meet as follows. `Connect` yields a Device; `OpenCamera` gives it to a Camera
and runs `Init`; setters and the reader share `streaming`, `carry` and the geometry. The
bridge's main loop is shared by control requests and the added-exposure gate, its FIFO
by the sensor's pixels, the frame-end interrupt and the host's transfers. Several
processes share a camera only through the operating system's claim of the interface. `pmsnap` sees the reader as windows with a deadline, and the firmware as
requests that are answered in time or not.

## Modules

| Module | Models | With |
| --- | --- | --- |
| `FrameStream` | what the reader promises: a cursor over the bytes received | abstract specification |
| `FrameReader` | the reader of `camera.go` against any device | implements `FrameStream` |
| `FrameReaderTime` | which of its reads have a timeout | extends `FrameReader` |
| `Capture` | sensor, FIFO, interrupt, gate, USB transfer | extends `FrameReader` |
| `Settings` | `Init` and the setters against the registers and what is streamed meanwhile | |
| `Connect` | processes, loader, re-enumeration | |
| `HexImage` | `parseHex` | |
| `Firmware` | main loop, endpoint 0, gate; a host that gives up | |
| `Pmsnap` | the command's steps, files and exit; deadlines and timeouts | |
| `...Proofs` | theorems about the module of that name | TLAPS |
| `Induction` | induction on the naturals, for the proofs | |

Each but `FrameStream`, `FrameReaderTime` and the proofs has a module ending in `MC` that gives
the values of its constants. A definition whose name ends in `Slip` belongs to no behaviour: it is the definition after it with a
plausible mistake (a dropped guard, an off-by-one, a missing reset), and is what each
property has been tried against.

### FrameReader

One action is the code between two transfers. `call` is the exported method, `goal` what
it is after, `step` the routine it is in: `arm` (in `Start`), `read` (`readFrame`), `scan`
(`settleOnce`). `rejected` and `rearmed` are the program counters of `Frame` (before or
after its one resync) and of `settle1`. `carry` and `trail` are the Camera's fields,
`image` the filled part of the caller's buffer, `scan` the local buffer; `fed` is history.

`EnterRead` and `EnterScan` are the entries of the routines, with what they do to the
read-ahead; `Take` is `take`. `ReadData`/`ScanData` are a read that returns bytes,
`ReadFails`/`ScanFails` one that returns an error, `ScanEmpty` one without bytes,
`ReadTimeout`/`ScanTimeout` a timeout, whose result differs by transport
(`TimeoutResults`): on darwin an error, on linux a length of -1 and no error, which both
tests let through and which is then an index - a panic. `ScanLate` is the read that
returns as the deadline passes. A read may return any bytes at all: what the device
sends is the business of `Capture`. `CallFrameShort` is `Frame` with a small buffer, the
one error that leaves the read-ahead as it was; `OnlyReadAheadLeft` names it, and the
other cases in which a call leaves bytes for the next.

`FrameReaderTime` adds `late`: the transports make no timeout of less than a millisecond,
so that a read begun that late ends only when the device sends or fails. Such a read may
begin at any point (`ReadBegins`), and nothing is owed to it (`Overtime`).

### Capture

Extends `FrameReader` with the other end. Every byte is a pair (frame, place in it), so
that properties can say of which frame an image is; the host sees only `Value`. `SensorPixel`
is the sensor and the slave FIFO: a pixel is stored, or lost when transfer is off, gated or
the FIFO is full. `FrameEnd` is the interrupt; `MainLoopGates`/`MainLoopResumes` the added
exposure of `main`; `BeginScan` is `stream_start`, which a `Start` that fails may have caused too. A bulk read becomes a transfer of
packets: it ends with a short packet or a full buffer, fails when a packet does not fit,
and a timeout loses what has arrived (linux) or returns it (darwin). `startedAt`, `armedAt`,
`intact`, `synced` and `markerLost` are history.

### Settings

A setter is a list of requests (`Ops`), made one at a time by `Request(times, answered)`:
carried out `times` times by the device, answered in the end or not. `times = 0` and
answered is a sensor write the sensor did not acknowledge, which `main.c` 120-124 does not
report. `Attempts` is 1 on linux and 4 on darwin, whose `pm_control` repeats a failed request.
`Init` is the stages `InitStages`. `device` has the registers that meet a setting. `Exit` is
`Close` or the end of the process anywhere; the next `OpenCamera` finds the device as
it was left. `confirmed` is history: the settings whose last setter succeeded with every
write acknowledged.

Nothing but its power stops the device streaming once it has begun a scan: `DeviceStreams`
may put pixels of the geometry its registers hold at that moment (`DeviceGeometry`) into the
FIFO (`queued`), between the requests of a setter as well. `Capture` is what `Settle` and
`Frame` do to them: bytes are read, whatever they are of, and some are kept (`ahead`).
`SetROI`, `SetDepth`, `Start` and `Stop` drop what is kept, only `Start` resets the FIFO.
`ReadAheadFits` compares both with what the Camera counts by (`CountedGeometry`). It
holds in every run; out of one, only if the FIFO was empty of other geometries when
the window or the depth was set (`leftover`): `Frame` without `Start` after `SetROI` reads the
old window's pixels.

### Connect

The camera is `bus` (the product on the bus), `cpu` (loader, halted, released, starting,
looping, hung), `ram` (of which image each record is), `deaf` (an interrupted capture
left control transfers unanswered) and `test`, the register `probe` touches. A process
walks `Connect` (`pc`): open, `probe` (identity, read, write), reset on the same handle,
`WaitForCamera`; or open, halt, download, run, wait. A handle dies when its device leaves the
bus. `Crash` ends a process anywhere. `excused` is history: the calls that met a reason to
fail, so that `FailsForAReason` can say that there is no other.

### HexImage

One step a line, over every text of up to `MaxLines` lines. The reference is the writer's
side: `Encodings` are the two ways to write a record.

### Firmware

`pc` is where the 8051 is: at the test of SUDAV (`poll`), in `usb_setup` and
`vendor_request` (`decode` reads wIndex, `dispatch` bRequest, `arm` and `recv` are
`ep0_recv`, `armScan` and `recvScan` the same for BEGIN_SCAN, `fetch` the sensor read, `ack` and
`stall` the end), at the test of `frame_pending` (`gate`) or in `delay_ms`. The host makes one
transfer at a time (`stage`), of one of five kinds, and may give up at any point, to make the
next attempt (`pm_control`), another transfer, or none for a while. A transfer's `id` is its
register and its data, so that a write which mixes two transfers is seen (`stray`), and
`answer` says whose register a read was given.

The hardware of endpoint 0 is external, taken from how `usb.c` uses it: a SETUP packet
is accepted at any time, overwrites SETUPDAT, sets SUDAV and HSNAK, and clears BUSY
and a stall; EP0BCL written arms the endpoint in the direction of the request in SETUPDAT,
and read gives what was last received or written.

The sensor's clock waits for nobody: `Tick` is a unit of its time, of the vertical blanking
(`SensorBlanks`) or the whole of the pixels (`FrameEnd`, which interrupts), and of `delay_ms`'s.
`whole` says whether no pixel of the frame in progress was held back.

`ExactUnlessGivenUp` excludes the transfers a given-up one reaches (`tainted`). There the
damage is real: a request left unserved during an added exposure is served with the next
one's SETUPDAT or data, so that a write can put one transfer's value in another's register
(a window of microseconds) and a read can answer the next (about as long as an I2C
read); TLC reaches both. `AtMostOncePerAttempt` holds even there, for the requests that look
at what `ep0_recv` has received. BEGIN_SCAN does not (195-198): one packet handled twice
resets the FIFO once more than the host has asked for, which TLC also reaches when the
property is stated for every kind.

### Pmsnap

`todo` is the list of steps left of the command (`Steps`). A step succeeds (`Step`) or fails.
In `open` (`InOpen`) a failing step closes the camera itself (`OpenStepFails`), since nothing
is deferred before `open` has returned; elsewhere (`StepFails`) the error is returned and what
`deferred` holds is done, last things first (`DeferredStop`, `DeferredClose`), before `Exit`. A
panic does what is deferred too, and ends with status 2. `Create`, `Header` and `Pixels` are
`writePGM`, with what is in the file after each; `lost` is history, a `Close` of a file that
failed unnoticed. The steps `settle1` and `discard` are `Settle`, and `frame` is `Frame`; each
opens windows with a deadline, of which `left` ticks are left: `scan` is a `settleOnce`,
`rescan` the one after `settle1` has re-armed, `read` a `readFrame`, `retry` the one after a
resync, which may fail but not start over (`Misaligned`, `Boundary`). `Timeout` is what a
transport makes of what is left, `wait` what remains of a transfer's time. In `settleOnce` the
deadline is tested between reads; in `readFrame` it is not, and only the timeout ends a
read.

## Runs

| Run | Shows | Bounds |
| --- | --- | --- |
| `reader` | types; `Contiguous`; `NothingSkipped`; `OnlyValidated`; `ResyncFindsFirst`, `RejectKeepsTail`, `OnlyReadAheadLeft`, `OneRetry`; `EveryCallReturns`; `FrameReader` implements `FrameStream` | wire of bits, magic of 2 in a trailer of 3, frames of 2, reads of up to 3, 3 reads a window, both results of a timeout, any read late |
| `silent` | a silent settling window is not re-armed (found violated) | the same |
| `capture` | `WholeFrame`, `SettledIsFresh`, `NoFalseAlarm` | 3 frames of 2 packets of 3, trailer of 2, FIFO of 2 packets, with the gate; dead variables left out of the fingerprint (`VIEW LiveState`) |
| `capture_partial` | an image of parts of two frames (found violated) | the same, without the gate |
| `settings` | `ConfirmedInForce`, `WholePackets`, `ReadAheadFits`, `SequencerInOrder`, `GeometryFixedInRun` | 1 request that goes wrong, pixels of 2 geometries at a time, any number of setters and processes |
| `settings_retry` | a repeated request feeds the sequencer twice (found violated) | the same, pixels of 1 geometry, 2 attempts |
| `connect` | `NoDeviceLeft`, `RunsWholeImage`, `HolderUndisturbed`, `FailsForAReason`, `EveryAttemptEnds` | 2 processes, 2 records, 2 polls, 2 faults |
| `connect_probe` | `probe` may write zeros (found violated) | 1 fault |
| `firmware` | `ExactUnlessGivenUp`, `AtMostOncePerAttempt`, `SpinEnds`, `Answered`, `FramesGetThrough` | 3 transfers told apart, 2 attempts, a blanking of 2 units and an added exposure of 1 |
| `firmware_gate` | with one as long as the blanking, no frame gets through (found violated) | an added exposure of 2 |
| `pmsnap` | `ExitTellsTheFiles`, `ClosedOnce`, `WindowAsWritten`, `OnlyLateReadsOutlast`, `CommandEnds` | 2 frames of 2 reads, a millisecond of 2 ticks, a deadline of 2 ms, timeouts modulo 4 |
| `hex` | `ReadsWhatIsWritten`, `RefusesOnlyBadText` | bytes of 3 values, up to 2 bytes after a header, 2 lines |

Why the bounds are enough:

- Reader. With a magic shorter than its trailer, two byte values and reads of any length
  up to less than a wire frame, a marker can straddle two or three reads, start inside a
  rejected trailer or look like pixels, and the read-ahead can hold a part of a frame. A
  call reads at most three frames and the variables do not count, so the state space is
  finite without a constraint. The transports differ in the result of a timeout only, and
  each timeout may have either.
- Capture. Three frames are the one in progress at `Start`, the one `Settle` throws away
  and the first that may be returned; the FIFO of two packets fills in a frame. A trailer
  of 2 and packets of 3 have no common divisor, as 5 and 512. `FewFrames`, which the run
  satisfies, leaves out one case: 512 frames that lose every pixel and no trailer are a
  packet's length of trailers. `WholeFrame` says so, and it is listed as a hazard.
- Settings. Values are one per branch of the code (accepted, refused, shorter than a row,
  longer than the rows and than the request can hold; analog and digital gain). The one fault
  is a setter cut short or a write not acknowledged, anywhere; the proofs allow any number.
  Pixels of two geometries are those of an old window or depth, or of a half-written one,
  and the new.
- Connect. Two processes are a holder and a contender, or two that download. Two polls are
  one that comes too early and one that can succeed. `MaxFaults` bounds only transfers that
  fail for no modelled reason; crashes and unplugging are not bounded.
- Firmware. What the camera can still hold of earlier transfers is a register read and a
  buffer: with three ids a new transfer is never mistaken for one of them. Two attempts are one
  that is overtaken and one that overtakes; linux makes the first only. Two units of blanking
  let an added exposure be shorter, or as long. Nothing else counts, so that no constraint is
  needed.
- Pmsnap. Timeouts modulo 4 ms with a deadline of 2 ms have a time left of more than one,
  exactly one, a part of one, none and less than none, down to a whole turn of the modulus.
  Two frames are one that fails and one before or after it. The windows of a step are the
  code's own and finite. The window texts are every beginning of the full form and every one
  wrong token in it. That a budget is less than 2^32 ms is assumed (`PmsnapAssumption`):
  `SetExposure` accepts exposures of 25 days and more, and a timeout of 2^32 ms wraps.
- Hex. Three byte values give a data, an end and an unsupported type, counts from 0 to 2
  and wrong checksums; two lines let one follow an end record, a blank or a bad line.

Deadlock is checked in `settings`, `connect` and `firmware`. It is not where the
modelled system stops: `reader` (a panic), `capture` (the sensor stops at `MaxFrames`),
`hex` (the parser returns) and `pmsnap` (the process exits).

Fairness. `FrameReaderTime!FairSpec` has weak fairness of `InTime`, the code of a call whose next
read is begun with a millisecond of its window left: such a read has a timeout on both
transports, and the goroutine runs on. The device and the caller owe nothing, and a read begun
later need not end: `EveryCallReturns` says that a call returns, panics or stays in one such
read. `Connect!FairSpec` has weak fairness of each process's steps, for the same reason; the
camera owes nothing, so that it may never come back. `Firmware!FairSpec` has weak fairness of
the 8051's loop, which nothing stops, of the stages of a transfer, which the host's controller
repeats until they are let through, and of the sensor's clock; the host need not begin or give
up anything, and `SpinEnds` says what it must do. How fast the 8051 is against the sensor is a
hypothesis of `FramesGetThrough` (`KeepsUp`): from some time on a unit of the sensor's time passes
only in `delay_ms` or with nothing pending, which its microseconds against milliseconds of
blanking justify. `Pmsnap!FairSpec` has weak fairness of the process, of time and of a timeout
that is over; the camera need not answer, and `CommandEnds` excludes the reads without a
timeout. Liveness is checked without symmetry.

## Findings

1. `silent`, on linux: a timed-out bulk read is (-1, nil), and the reader panics.
2. `silent`, on darwin: it is an error, and `settle1` does not re-arm as its comment
   (`camera.go` 543-544) says.
3. `capture_partial`: a lost trailer with exactly a frame of lost pixels gives an image of two
   frames; `camera.go` 450-451 says that never happens.
4. `settings_retry`: `pm_control` repeats writes to the sequencer's port, against `regs.go` 11-12.
5. `firmware_gate`: the gate of `main` is closed for the added exposure from the end of a
   frame, while the sensor reads on. When it is longer than the sensor's blanking the next
   frame has begun, its end sets `frame_pending` again, and no frame gets through, from about
   34 s of exposure on (17.06 s of the sensor's, at most 16.8 s of them blanking, and as much
   added); the README (92-93) says the first image can take several exposures.
6. `connect_probe`: `probe` writes back zeros when the read failed inside the firmware,
   against the comment at `fx2.go` 125.

Met while modelling, with no run of their own:

- An added exposure of 2^24 ms (4.7 hours) or more is truncated and reported in full
  (`camera.go` 404-413); `Settings` has the truncation (`AddedModulus`).
- `parseROI` takes `640x480+320` and `640x480junk` for `640x480`, although its error (162)
  says the window is of the form WxH+X+Y; `WindowAsWritten` is about the texts of the two forms
  and those that do not begin like either, and says nothing of these.
- A read begun with less than a millisecond left has no timeout, and one begun later
  almost 50 days (`transport_linux.go` 169, `transport_darwin.go` 296). On darwin a read
  that times out with some bytes is a success (182) and leads straight to such a read: a
  camera that stops in the middle of a frame leaves `Frame` waiting. `CommandEnds`
  excludes it (`late`).
- `writePGM` does not report a failed `Close` (283); `ExitTellsTheFiles` excludes it (`lost`).
- `ControlIn`'s count is not looked at by `ReadReg` (`camera.go` 220).

## Proofs

Each theorem holds for every value of the constants that satisfies its module's
assumption; the runs are small instances. Each module proves `Init => Inv` and
`Inv /\ [Next]_vars => Inv'`, one lemma or step per action, and the properties from `Inv`.
Every `Inv` held in TLC before it was proved.

| Module | Proved |
| --- | --- |
| `FrameReaderProofs` | `TypeOK`, `Contiguous`, `NothingSkipped`, `OnlyValidated`, `ResyncFindsFirst`, `RejectKeepsTail`, `OnlyReadAheadLeft`, `OneRetry`, `ImplementsStream` |
| `CaptureProofs` | `CaptureTypeOK`; that `CaptureSpec` implements `FrameReader`'s `Spec`; `WholeFrame`, `SettledIsFresh`, `NoFalseAlarm` |
| `SettingsProofs` | `SettingsTypeOK`, `ConfirmedInForce`, `WholePackets`, `ReadAheadFits`, `SequencerInOrder`, `GeometryFixedInRun` |
| `ConnectProofs` | `ConnectTypeOK`, `NoDeviceLeft`, `RunsWholeImage`, `HolderUndisturbed`, `FailsForAReason` |
| `FirmwareProofs` | `FirmwareTypeOK`, `AtMostOncePerAttempt`, `ExactUnlessGivenUp` |
| `HexImageProofs` | `ReadsWhatIsWritten`, `RefusesOnlyBadText` |
| `PmsnapProofs` | `PmsnapTypeOK`, `ExitTellsTheFiles`, `OnlyLateReadsOutlast`, `WindowAsWritten`, `ClosedOnce` |

### What is assumed

- `ReaderAssumption`: any set of bytes, any magic no longer than its trailer, any positive
  frame, chunk and window, either transport.
- `CaptureAssumption`: a trailer is shorter than a packet and no number of trailers less
  than a packet's bytes is a whole number of packets (5 and 512 have no common divisor);
  frames are whole packets, as `SetROI` makes them (`camera.go` 152); `frame_end` writes the
  magic. These are facts of the code. Two more are hypotheses of the theorems that need
  them, because no code makes them true. `NoLookAlike`: the pixels do not show a
  magic of their own; where they do, a reader can take them for a boundary. `FewFrames`:
  the run has no more frames than a packet has bytes; only `OneFrameOnly` needs it (see
  `WholeFrame`). `CaptureMC` assumes both of its instance, so that TLC evaluates them.
- `SettingsAssumption`: the array is even in both directions and a whole number of packets
  (`camera.go` 50-51, 315), without which the full window that `Init` writes would not
  be one that `SetROI` accepts. `Sequencer` has `Attempts = 1`, linux, as a hypothesis; with
  more it is false, which is the run `settings_retry`.
- `PmsnapAssumption`: deadlines lie between a millisecond and what 32 bits can hold; window
  texts are sequences of the tokens `Sscanf` can tell apart.
- `ConnectAssumption`, `FirmwareAssumption`: positive bounds, and at least three names of
  transfers, so that there is always a new one.

### FrameReaderProofs

`Inv` is `TypeOK`, `Contiguous`, `NothingSkipped` and `OnlyValidated` with three parts more,
without which it is not inductive:

- `CallShape`: a step in progress belongs to a call in progress. Without it an action
  could return from no call, and `OnlyValidated` speaks of what is returned.
- `ReadShape`: how much of a frame has been read bounds its pixels and its trailer, and the
  pixels are complete before the trailer begins. `Contiguous` needs it to put the next
  chunk behind the last byte, `OnlyValidated` to know that a complete frame is `FrameBytes`
  pixels and a trailer.
- `ScanShape`: what is kept while settling is at least as long as a straddling marker.
  `NothingSkipped` needs it for the marker that begins in what is cut next.

Part 1 of the module is about ends of sequences and markers in them, part 2 about `take`
(`RoomAndPixels`, `TakeSplits`: what goes to the pixels, to the trailer and to the
read-ahead is the chunk, in order), part 3 has one lemma per action, part 4 the theorems.

Part 5 is the refinement: under the mapping of `FrameReader`, each action is one step of
`FrameStream`'s cursor or leaves it alone. It needs one fact more, `ScanTakesAll` (while
settling there is no read-ahead beside the buffer), for a panic.

### CaptureProofs

Every byte on its way is in a buffer of the host (`Held`), in a packet of the FIFO or in the
packet being filled. `CaptureInv` says of them:

- `WireInv` (for any scene): the order of the bytes is the sensor's (`Ordered`), a packet is
  a whole trailer or a packet of one frame's pixels, and the host holds no half of a
  trailer (`Units`); nothing is ahead of the sensor. That the host never sees half a
  trailer is what a short packet ends a transfer for.
- `PhaseInv`, behind `WholeFrame`: as long as no trailer was lost, the place of every trailer in
  the buffer is a number of packets and of the trailers before it (`Phased`). An image whose
  marker is where it should be then has a whole number of trailers' lengths in
  it that is a whole number of packets: none, or a packet's length of them, which
  `FewFrames` excludes.
- `AgeInv`, behind `SettledIsFresh`: what is on its way is at least as new as the stage of
  `settle1` or `Snap` needs.
- `GaplessInv`, behind `NoFalseAlarm`: with no byte lost, the bytes follow each other without
  a gap (`Num` numbers them), and a settled reader is at the first byte of a frame.

Part 2 is arithmetic modulo a packet, part 3 one lemma for each thing that can happen to
bytes on their way (a pixel stored, a packet committed, a trailer written, a packet
taken, a buffer cut), part 4 the actions.

The attempt to prove `SettledIsFresh` as it was first stated, about the last arming, failed:
a resync in `Frame` arms the scan again and hands out the first frame after it. TLC finds
it with seven frames of one packet, after 66 steps; three frames are too few for a retry
and what comes after it. The property is about the last `Start` of the caller now
(`startedAt`).

### The others

- Settings. `Progress`: what is left of `todo` is the end of the list of requests of the
  setting in progress, and what comes before it is in the device (`Written`), unless a write
  was dropped. That a setter writes nothing of another's is a lemma on `Ops`. `Staged`
  says that a setting in progress is not confirmed, and which are while `Init` runs.
  `ReadAheadFits` needs `Flow`: while the window and the depth are confirmed the device's
  geometry does not change, so that what it streams and what there is to read are of one, once
  the FIFO had nothing else; and `ConfirmedInForce` says that this one is the Camera's.
- Connect. `OneLive`, `Downloading` (the records before `next` are this image's, for a live
  handle) and `ReleasedWhole` give `RunsWholeImage`; `HolderLoops` gives `HolderUndisturbed`.
  `FailsForAReason` needs the history of the camera: `Untampered`, `GoodToBoot`, `BusFits`, and
  `Sound`, what a call without an excuse finds at each place.
- Firmware. `Counted`: what was carried out, what `ep0_recv` holds and what the host may still
  send are never more than the attempts; it needs nothing else. `InStep`: an untainted
  transfer's `stage` and the 8051's `pc` agree.
- Pmsnap. `Placed`: `todo` is the end of the command's steps, and its length says what each
  file holds. `Held` says, for each place in a command, what there is of the camera and what is
  deferred: open and nothing deferred within `open`, and from there on as much deferred as there
  is to be done (`Matched`). `ClosedOnce` follows from `Matched`, which every way out has to
  establish; one of `open`'s without its `Close` does not. `WindowFits`: a wait is within what is left of its window, unless it began late.
  `WindowAsWritten` is about a text of any length: part 5 of the module shows, number by
  number, that `Behind` is where a beginning in form ends, which is the same for all of them,
  and that a text of the shorter form is too short to begin like the longer.
- HexImage. Part 2: a line is accepted just when some writer writes it (`TakenIsWritten`), which
  needs that the fold of `Sum` over a line and one byte more adds that byte (`SumAppend`).
  `Behind`: the lines behind the next are blank or records, and the record of each is at its
  place in `out`. The lines that count are a set of numbers and `Place` a cardinality, because
  the provers know nothing of `SelectSeq`.
- `Induction` proves induction on the naturals from the well-foundedness of `<`, stated of a
  set instead of an operator, which is what the provers here can use. The proofs about
  recursive functions, folds and long sequences (`Steps`, `Sum`, the bytes on their way) rest
  on it.

Only model-checked: liveness under fairness (`EveryCallReturns`, `EveryAttemptEnds`, `SpinEnds`,
`Answered`, `FramesGetThrough`, `CommandEnds`), which the provers do not do. Every other
property of a run that passes is a theorem.

## Not modelled

- `Pixels12`, `Identity`, `FirmwareVersion`, `FramePeriod`, `stats`, what is printed and the
  flags: single expressions or I/O. `Describe` and `Attached`'s lists likewise.
- The firmware's descriptors, and the I2C bits: a sensor transaction is acknowledged or not.
- Time, except in `Pmsnap`: elsewhere deadlines are counts of reads and attempts, and a
  late answer is a choice. `Firmware` knows only whether the added exposure is longer
  than a frame period.
- A Device's mutex: a Camera is used by one goroutine.
- `Attach` without `Init`, and a chip of another version.

## Plan

Done, in this order: `FrameReader` with `FrameStream`, its proofs, `Capture`, `Settings`,
`Connect`, `HexImage`, `Firmware`, `Pmsnap`; then the proofs of these. Left, most important
first:

1. What liveness rests on, as theorems: for each of the properties that are only
   model-checked, a number that every step of the call, the attempt or the command makes
   smaller. The fairness then says only that steps are taken.
2. The hazards without a property, in `PROJECT.json`.
3. Which records a damaged line can be taken for (`fx2.go` 42), as a theorem about `BodyOk`.
