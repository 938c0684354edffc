--------------------------------- MODULE Pmsnap ---------------------------------
(***************************************************************************)
(* The pmsnap command against a clock: list, info, snap and regs of        *)
(* cmd/pmsnap/main.go, step by step, with what each does when a step fails *)
(* and what is deferred; and, for the steps that wait for frames, the      *)
(* windows of camera.go (one settleOnce or one readFrame, each with its    *)
(* deadline), which of them follows which, and the timeouts the transports *)
(* make of what is left of them.                                           *)
(* What a window reads is module FrameReader's business, load is Connect's.*)
(*                                                                         *)
(* The clock counts parts of a millisecond, Ms of which make one: what is  *)
(* left of a deadline is cut to whole milliseconds and then converted to   *)
(* an unsigned integer of a fixed width, in which 0 means no timeout.      *)
(***************************************************************************)
EXTENDS Integers, Sequences

CONSTANTS
    RoiTexts,       \* what -roi may be, as sequences of tokens; <<>> is absent
    MaxFrames,      \* largest -frames
    Ms,             \* ticks of the clock in a millisecond
    Wrap,           \* timeouts are taken modulo Wrap milliseconds (2^32)
    Budget,         \* ticks from the opening of a window to its deadline
    Chunks,         \* reads that fill a frame
    TimeoutResults  \* as in module FrameReader

ASSUME PmsnapAssumption ==
    /\ MaxFrames \in Nat
    /\ {Ms, Wrap, Chunks} \subseteq Nat \ {0}
    /\ Budget \in Ms .. (Wrap - 1) * Ms
    /\ TimeoutResults \subseteq {"negative", "error"}
    /\ RoiTexts \subseteq Seq({"n", "x", "+", "-", "?"})

VARIABLES
    cmd, frames, roi,   \* the arguments
    todo,       \* steps left of the command
    err,        \* what the command has returned, when it has
    camera,     \* "closed", "open" or "started"
    deferred,   \* calls that are deferred, the last of them the first to be made
    px,         \* frames taken: px holds the last of them
    files,      \* what is in the file of each frame
    lost,       \* history: closing a file failed
    window,     \* the window in progress: a settleOnce, the one after its re-arm, a
                \* readFrame, or the one after a resync
    left,       \* ticks to its deadline, negative after it
    got,        \* chunks of the frame there are; of a settleOnce, whether any came
    wait,       \* ticks until the transfer in progress times out
    late,       \* history: a transfer began in the last millisecond, or later
    exit        \* status of the process

args == <<cmd, frames, roi>>
clock == <<window, left, got, wait, late>>
vars == <<args, todo, err, camera, deferred, px, files, lost, clock, exit>>

-----------------------------------------------------------------------------
(* parseROI.  Tokens are "n" (digits), "x", "+", "-" and "?" (anything else).
   Sscanf stops at the first token that does not match, and does not look behind
   its format; %d takes a sign.                                              *)

Token(s, i) == IF i <= Len(s) THEN s[i] ELSE "end"

\* The place behind the number at i, or 0.
AfterNumber(s, i) ==
    LET j == IF Token(s, i) \in {"+", "-"} THEN i + 1 ELSE i
    IN  IF Token(s, j) = "n" THEN j + 1 ELSE 0

\* Behind k numbers of the format, the literals between them being lit, or 0.
Behind(s, lit, k) ==
    LET f[n \in 1 .. k] ==
            IF n = 1 THEN AfterNumber(s, 1)
            ELSE IF f[n - 1] # 0 /\ Token(s, f[n - 1]) = lit[n - 1]
                 THEN AfterNumber(s, f[n - 1] + 1)
                 ELSE 0
    IN  f[k]

Literals == <<"x", "+", "+">>

\* Two numbers taken for enough.
ParseROISlip(s) ==
    IF Behind(s, Literals, 2) # 0 THEN 2 ELSE 0

\* The numbers taken from the text: none (refused), two or four.
ParseROI(s) ==
    IF Behind(s, Literals, 4) # 0 THEN 4
    ELSE IF Behind(s, Literals, 2) # 0 THEN 2 ELSE 0

-----------------------------------------------------------------------------
(* The commands as sequences of steps.                                       *)

OpenSteps ==
    <<"OpenCamera">> \o (IF roi = <<>> THEN <<>> ELSE <<"parseROI", "SetROI">>)
        \o <<"SetDepth", "SetOffset", "SetGain", "SetExposure">>

Repeated(steps, n) ==
    LET f[k \in 0 .. n] == IF k = 0 THEN <<>> ELSE f[k - 1] \o steps IN f[n]

Steps ==
    CASE cmd = "list" -> <<"Attached">>
      [] cmd = "regs" -> <<"Connect", "argument", "ReadReg">>
      [] cmd = "info" -> OpenSteps \o <<"Identity", "ReadReg", "FirmwareVersion">>
      [] cmd = "snap" ->
            OpenSteps \o <<"Start", "settle1", "discard">>
                \o Repeated(<<"frame", "Create", "header", "pixels">>, frames)

\* The steps of open once it has the camera: each of them closes it when it fails.
InOpen == {"parseROI", "SetROI", "SetDepth", "SetOffset", "SetGain", "SetExposure"}

\* The steps that wait for frames, and those that write one to a file.
Captures == {"settle1", "discard", "frame"}
FileSteps == {"Create", "header", "pixels"}

Running == exit = "none" /\ err = "none"
Doing(step) == Running /\ todo # <<>> /\ Head(todo) = step

Return(e) == err' = e /\ todo' = <<>>

Goes == todo' = Tail(todo) /\ UNCHANGED err

\* A step that leaves nothing behind but what it did to the camera.  Once there is one
\* to be closed, by regs or from open, the caller defers that; and Start its Stop.
Step ==
    /\ Running /\ todo # <<>>
    /\ Head(todo) \notin Captures \cup FileSteps
    /\ Head(todo) = "parseROI" => ParseROI(roi) # 0
    /\ Goes
    /\ camera' = CASE Head(todo) \in {"OpenCamera", "Connect"} -> "open"
                   [] Head(todo) = "Start" -> "started"
                   [] OTHER -> camera
    /\ deferred' = CASE Head(todo) \in {"SetExposure", "Connect"} -> <<"Close">>
                     [] Head(todo) = "Start" -> Append(deferred, "Stop")
                     [] OTHER -> deferred
    /\ UNCHANGED <<args, px, files, lost, clock, exit>>

StepFails ==
    /\ Running /\ todo # <<>>
    /\ Head(todo) \notin Captures \cup InOpen
    /\ Return("error")
    /\ UNCHANGED <<args, camera, deferred, px, files, lost, clock, exit>>

\* One of the ways out of open without its Close.
OpenStepFailsSlip ==
    /\ Running /\ todo # <<>>
    /\ Head(todo) \in InOpen
    /\ Head(todo) = "parseROI" => ParseROI(roi) = 0
    /\ Return("error")
    /\ camera' = IF Head(todo) = "SetGain" THEN camera ELSE "closed"
    /\ UNCHANGED <<args, deferred, px, files, lost, clock, exit>>

\* Nothing is deferred yet: open itself closes the camera.
OpenStepFails ==
    /\ Running /\ todo # <<>>
    /\ Head(todo) \in InOpen
    /\ Head(todo) = "parseROI" => ParseROI(roi) = 0
    /\ Return("error")
    /\ camera' = "closed"
    /\ UNCHANGED <<args, deferred, px, files, lost, clock, exit>>

\* writePGM: the file is emptied, and has the frame with its last byte.
File(f) == files' = [files EXCEPT ![px] = f]

Create ==
    /\ Doing("Create")
    /\ File("partial")
    /\ Goes
    /\ UNCHANGED <<args, camera, deferred, px, lost, clock, exit>>

Header ==
    /\ Doing("header")
    /\ Goes
    /\ UNCHANGED <<args, camera, deferred, px, files, lost, clock, exit>>

\* The result of the write not returned.
PixelsSlip ==
    /\ Doing("pixels")
    /\ \/ File("whole") /\ UNCHANGED lost
       \/ UNCHANGED <<files, lost>>
       \/ File("partial") /\ lost' = TRUE
    /\ Goes
    /\ UNCHANGED <<args, camera, deferred, px, clock, exit>>

\* The deferred Close may fail, and nobody is told.
Pixels ==
    /\ Doing("pixels")
    /\ \/ File("whole") /\ UNCHANGED lost
       \/ File("partial") /\ lost' = TRUE
    /\ Goes
    /\ UNCHANGED <<args, camera, deferred, px, clock, exit>>

Done ==
    /\ Running /\ todo = <<>>
    /\ Return("nil")
    /\ UNCHANGED <<args, camera, deferred, px, files, lost, clock, exit>>

\* What is deferred is done when the function returns, or panics, last things first.
Deferred(call) ==
    /\ err # "none" /\ deferred # <<>>
    /\ deferred[Len(deferred)] = call
    /\ deferred' = SubSeq(deferred, 1, Len(deferred) - 1)
    /\ UNCHANGED <<args, todo, err, px, files, lost, clock, exit>>

DeferredStop == Deferred("Stop") /\ camera' = "open"

DeferredClose == Deferred("Close") /\ camera' = "closed"

Status == CASE err = "nil" -> "0" [] err = "error" -> "1" [] err = "panic" -> "2"

Exit ==
    /\ err # "none" /\ exit = "none" /\ deferred = <<>>
    /\ exit' = Status
    /\ UNCHANGED <<args, todo, err, camera, deferred, px, files, lost, clock>>

-----------------------------------------------------------------------------
(* Windows.                                                                  *)

Idle == -1      \* wait: no transfer in progress
Forever == -2   \* wait: a transfer without a timeout

\* time.Duration.Milliseconds rounds towards zero.
Milliseconds(t) == IF t >= 0 THEN t \div Ms ELSE -((-t) \div Ms)

\* The conversion left out.
TimeoutSlip(t) == IF Milliseconds(t) = 0 THEN Forever ELSE Milliseconds(t) * Ms

\* Rounded up.
TimeoutUpSlip(t) ==
    LET ms == ((t + Ms - 1) \div Ms) % Wrap IN IF ms = 0 THEN Forever ELSE ms * Ms

\* The time a transport allows a read when t is left.
Timeout(t) ==
    LET ms == Milliseconds(t) % Wrap IN IF ms = 0 THEN Forever ELSE ms * Ms

Settling == {"scan", "rescan"}
Reading == {"read", "retry"}

\* A readFrame begins with what has been read ahead, all of a frame perhaps.
Open(w) ==
    /\ window' = w
    /\ left' = Budget
    /\ got' \in IF w \in Reading THEN 0 .. Chunks ELSE {0}
    /\ wait' = Idle
    /\ UNCHANGED late

Closed == window' = "none" /\ left' = 0 /\ got' = 0 /\ wait' = Idle /\ UNCHANGED late

WindowOpens ==
    /\ Running /\ todo # <<>> /\ window = "none"
    /\ Head(todo) \in Captures
    /\ Open(IF Head(todo) = "settle1" THEN "scan" ELSE "read")
    /\ UNCHANGED <<todo, err>>
    /\ UNCHANGED <<args, camera, deferred, px, files, lost, exit>>

\* The retry is given a resync and a retry of its own.
MisalignedSlip ==
    \/ /\ window # "rescan"
       /\ Open(IF window = "scan" THEN "rescan" ELSE "scan")
       /\ UNCHANGED <<todo, err>>
    \/ window \in Settling /\ Closed /\ Return("error")

\* Frame looks for a boundary once, settle1 re-arms once, which may fail.
Misaligned ==
    \/ window = "read" /\ Open("scan") /\ UNCHANGED <<todo, err>>
    \/ window = "scan" /\ Open("rescan") /\ UNCHANGED <<todo, err>>
    \/ window # "read" /\ Closed /\ Return("error")

Fails == Closed /\ Return("error")

\* The marker is among the bytes there are: of a resync, those it begins with already.
Boundary ==
    /\ window \in Settling /\ wait = Idle
    /\ got > 0 \/ (window = "scan" /\ Head(todo) # "settle1")
    /\ \/ Head(todo) = "settle1" /\ Closed /\ Goes
       \/ Head(todo) # "settle1" /\ Open("retry") /\ UNCHANGED <<todo, err>>
    /\ UNCHANGED <<args, camera, deferred, px, files, lost, exit>>

ReadBegins ==
    /\ window # "none" /\ wait = Idle
    /\ window \in Reading => got < Chunks
    /\ wait' = Timeout(left)
    /\ late' = (late \/ left < Ms)
    /\ UNCHANGED <<args, todo, err, camera, deferred, px, files, lost, window, left, got,
                   exit>>

\* Bytes, all the same whether they ended the transfer or its timeout did.  Behind its
\* deadline a settleOnce does not look at them.
Arrives ==
    \/ window \in Settling /\ left < 0 /\ Misaligned
    \/ /\ window \in Settling => left >= 0
       /\ got' = IF window \in Settling THEN 1 ELSE got + 1
       /\ wait' = Idle
       /\ UNCHANGED <<todo, err, window, left, late>>

ReadReturns ==
    /\ wait # Idle
    /\ \/ Arrives
       \/ window \in Settling /\ Misaligned     \* no bytes
       \/ Fails
    /\ UNCHANGED <<args, camera, deferred, px, files, lost, exit>>

\* A result of -1 is used as an index.
Panic == Closed /\ Return("panic")

ReadTimesOut ==
    /\ wait = 0
    /\ \/ "error" \in TimeoutResults /\ (Arrives \/ Fails)
       \/ "negative" \in TimeoutResults /\ Panic
    /\ UNCHANGED <<args, camera, deferred, px, files, lost, exit>>

\* readFrame has all of a frame: its trailer is right or not.
FrameRead ==
    /\ window \in Reading /\ got = Chunks
    /\ \/ /\ Closed /\ Goes
          /\ px' = IF Head(todo) = "frame" THEN px + 1 ELSE px
       \/ Misaligned /\ UNCHANGED px
    /\ UNCHANGED <<args, camera, deferred, files, lost, exit>>

\* A transfer ends when its timeout is over; the process may be slow anywhere.
Tick ==
    /\ window # "none" /\ wait # 0
    /\ left > -(Wrap * Ms)
    /\ left' = left - 1
    /\ wait' = IF wait > 0 THEN wait - 1 ELSE wait
    /\ UNCHANGED <<args, todo, err, camera, deferred, px, files, lost, window, got, late,
                   exit>>

-----------------------------------------------------------------------------
Init ==
    /\ cmd \in {"list", "info", "snap", "regs"}
    /\ frames \in 0 .. MaxFrames
    /\ roi \in RoiTexts
    /\ todo = Steps
    /\ err = "none" /\ exit = "none" /\ camera = "closed" /\ deferred = <<>>
    /\ px = 0 /\ files = [i \in 1 .. frames |-> "old"] /\ lost = FALSE
    /\ window = "none" /\ left = 0 /\ got = 0 /\ wait = Idle /\ late = FALSE

Command ==
    \/ Step \/ StepFails \/ OpenStepFails \/ Create \/ Header \/ Pixels \/ Done
    \/ DeferredStop \/ DeferredClose \/ Exit
    \/ WindowOpens \/ Boundary \/ ReadBegins \/ FrameRead

Next == Command \/ ReadReturns \/ ReadTimesOut \/ Tick

Spec == Init /\ [][Next]_vars

\* The process runs, time passes, and a timeout is kept.  The camera owes nothing.
FairSpec == Spec /\ WF_vars(Command) /\ WF_vars(ReadTimesOut) /\ WF_vars(Tick)

-----------------------------------------------------------------------------
(* Properties.                                                               *)

PmsnapTypeOK ==
    /\ err \in {"none", "nil", "error", "panic"}
    /\ exit \in {"none", "0", "1", "2"}
    /\ camera \in {"closed", "open", "started"}
    /\ deferred \in {<<>>, <<"Close">>, <<"Close", "Stop">>}
    /\ px \in 0 .. frames
    /\ files \in [1 .. frames -> {"old", "partial", "whole"}]
    /\ window \in Settling \cup Reading \cup {"none"}
    /\ left \in -(Wrap * Ms) .. Budget
    /\ got \in 0 .. Chunks
    /\ wait \in Forever .. (Wrap - 1) * Ms
    /\ {lost, late} \subseteq BOOLEAN

(* Status 0 of snap means every file asked for is there, whole; and in any case a
   file is touched only when all before it are whole, and is whole only if its
   frame was taken: a failure costs the frame it happens in and those after it,
   no other.  A Close that fails is the one thing not told (main.go:218-244,
   278-302).                                                                 *)
ExitTellsTheFiles ==
    cmd = "snap" =>
        /\ (exit = "0" /\ ~lost) => \A i \in 1 .. frames : files[i] = "whole"
        /\ \A i \in 1 .. frames :
              files[i] # "old" =>
                  /\ i <= px
                  /\ lost \/ \A j \in 1 .. i - 1 : files[j] = "whole"

(* However a command ends, a panic included, the camera it opened is closed; and it is
   closed once, the run it started being stopped before.  Before open has returned
   this is up to each of its ways out, behind it to what info, snap and regs have
   deferred by then (main.go:121-154, 167-172, 201-214, 247-252).           *)
ClosedOnce ==
    /\ [](exit # "none" => camera = "closed")
    /\ [][Len(deferred') < Len(deferred) => camera # "closed"]_vars

\* The texts that say k numbers, each with or without a sign.
Writings(k) ==
    LET number == {<<"n">>, <<"+", "n">>, <<"-", "n">>}
        f[n \in 1 .. k] ==
            IF n = 1 THEN number
            ELSE {w \o <<Literals[n - 1]>> \o v : w \in f[n - 1], v \in number}
    IN  f[k]

BeginsWith(s, k) ==
    \E w \in Writings(k) : Len(w) <= Len(s) /\ SubSeq(s, 1, Len(w)) = w

(* "WxH+X+Y, or WxH starting at the corner" (README.md, -roi): of a text of the one
   form parseROI takes the four numbers, of one of the other the two, and a text that
   does not even begin like that is refused (main.go:156-165).  Of a text that begins
   like it and goes on otherwise nothing is said.                            *)
WindowAsWritten ==
    /\ roi \in Writings(4) => ParseROI(roi) = 4
    /\ roi \in Writings(2) => ParseROI(roi) = 2
    /\ ~BeginsWith(roi, 2) => ParseROI(roi) = 0

(* A transfer that begins with at least a millisecond left is over by the
   deadline of its window, whatever the conversion does with what is left:
   only one that begins later can outlast it, and then without a limit
   (camera.go:479-481, 556-571; transport_linux.go:169; transport_darwin.go:296). *)
OnlyLateReadsOutlast == (wait # Idle /\ left < 0) => late

(* With no such transfer every command ends, whatever the camera does or does
   not send (camera.go:452-464, 479-496, 540-586; main.go:201-245).                   *)
CommandEnds == []~late => <>(exit # "none")
=============================================================================
