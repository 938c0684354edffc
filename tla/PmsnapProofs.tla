------------------------------ MODULE PmsnapProofs ------------------------------
(***************************************************************************)
(* Proofs about Pmsnap, for any number of frames and any clock: what the   *)
(* exit status says of the files, that a read is over by the deadline of   *)
(* its window unless it begins late, and what parseROI takes of a text.    *)
(*                                                                         *)
(* Part 1 is the inductive invariant, part 2 is about the steps of a       *)
(* command, part 3 about the timeouts, part 4 shows that every action      *)
(* keeps the invariant, part 5 is about parseROI, part 6 has the theorems. *)
(***************************************************************************)
EXTENDS Pmsnap, SequenceTheorems, Induction, TLAPS

-----------------------------------------------------------------------------
(* Part 1: the inductive invariant.                                          *)

Frame == <<"frame", "Create", "header", "pixels">>

FrameSteps == {"frame", "Create", "header", "pixels"}

OtherSteps ==
    {"OpenCamera", "parseROI", "SetROI", "SetDepth", "SetOffset", "SetGain",
     "SetExposure", "Identity", "ReadReg", "FirmwareVersion", "Attached", "Connect",
     "argument", "Start", "settle1", "discard"}

\* The steps of snap before its first frame.
First == Len(OpenSteps) + 3

Types ==
    /\ cmd \in {"list", "info", "snap", "regs"}
    /\ frames \in 0 .. MaxFrames
    /\ roi \in RoiTexts
    /\ PmsnapTypeOK
    /\ err # "none" => todo = <<>>

AllOld == px = 0 /\ \A i \in 1 .. frames : files[i] = "old"

\* The files after r steps of the frame that follows the j-th.
Written(j, r) ==
    /\ px = IF r = 0 THEN j ELSE j + 1
    /\ \A i \in 1 .. j : lost \/ files[i] = "whole"
    /\ \A i \in j + 1 .. frames :
          files[i] = IF i = j + 1 /\ r \in {2, 3} THEN "partial" ELSE "old"

\* The k-th step of snap is the next.
Taken(k) ==
    \E j \in 0 .. frames, r \in 0 .. 3 :
        /\ k = First + 1 + 4 * j + r
        /\ r # 0 => j < frames
        /\ Written(j, r)

Placed ==
    err = "none" =>
        \E k \in 1 .. Len(Steps) + 1 :
            /\ todo = SubSeq(Steps, k, Len(Steps))
            /\ IF cmd = "snap" /\ k > First THEN Taken(k) ELSE AllOld

AllWhole == \A i \in 1 .. frames : lost \/ files[i] = "whole"

InOrder ==
    /\ \A i \in 1 .. frames :
          files[i] # "old" =>
              /\ i <= px
              /\ lost \/ \A j \in 1 .. i - 1 : files[j] = "whole"
    /\ (err = "nil" /\ cmd = "snap") => AllWhole

WindowFits ==
    /\ window # "none" =>
          /\ Running /\ todo # <<>> /\ Head(todo) \in Captures
          /\ Head(todo) = "settle1" => window \in Settling
    /\ wait # Idle =>
          /\ window # "none"
          /\ window \in Reading => got < Chunks
          /\ late \/ (0 <= wait /\ wait <= left)

Keeps(c, d) == camera = c /\ deferred = d

\* What the command has of the camera when its k-th step is the next.
Held(k) ==
    /\ (k = 1 \/ cmd = "list") => Keeps("closed", <<>>)
    /\ (cmd = "regs" /\ k > 1) => Keeps("open", <<"Close">>)
    /\ (cmd \in {"info", "snap"} /\ k \in 2 .. Len(OpenSteps)) => Keeps("open", <<>>)
    /\ (cmd = "info" /\ k > Len(OpenSteps)) => Keeps("open", <<"Close">>)
    /\ (cmd = "snap" /\ k = Len(OpenSteps) + 1) => Keeps("open", <<"Close">>)
    /\ (cmd = "snap" /\ k > Len(OpenSteps) + 1) => Keeps("started", <<"Close", "Stop">>)

\* What is deferred is what there is to be done.
Matched ==
    \/ Keeps("closed", <<>>)
    \/ Keeps("open", <<"Close">>)
    \/ Keeps("started", <<"Close", "Stop">>)

\* Or open has not returned.
InHand == Keeps("open", <<>>) \/ Matched

Position == Len(Steps) - Len(todo) + 1

Handle == IF err = "none" THEN Held(Position) ELSE Matched

Exits ==
    /\ exit # "none" => err # "none" /\ deferred = <<>>
    /\ exit = "0" => err = "nil"

Inv == Types /\ Placed /\ InOrder /\ WindowFits /\ Handle /\ Exits

-----------------------------------------------------------------------------
(* Part 2: the steps of a command.                                           *)

\* The constants, one by one.
LEMMA Constants ==
    /\ MaxFrames \in Nat
    /\ Ms \in Nat /\ Ms > 0 /\ Wrap \in Nat /\ Wrap > 0
    /\ Chunks \in Nat /\ Chunks > 0
    /\ Budget \in Nat /\ Budget >= Ms /\ Budget <= (Wrap - 1) * Ms
    /\ TimeoutResults \subseteq {"negative", "error"}
    /\ RoiTexts \subseteq Seq({"n", "x", "+", "-", "?"})
<1>1. \A c \in {Ms, Wrap, Chunks} : c \in Nat /\ c > 0
    BY PmsnapAssumption DEF PmsnapAssumption
<1>2. Budget \in Int /\ Budget >= Ms /\ Budget <= (Wrap - 1) * Ms
    <2>1. Ms \in Int /\ (Wrap - 1) * Ms \in Int
        BY <1>1
    <2>. QED  BY <2>1, PmsnapAssumption DEF PmsnapAssumption
<1>. QED  BY <1>1, <1>2, PmsnapAssumption DEF PmsnapAssumption

\* The function that Repeated is the last value of.
Repeats(f, steps, n) ==
    f = [k \in 0 .. n |-> IF k = 0 THEN <<>> ELSE f[k - 1] \o steps]

\* There is one.
LEMMA RepeatsExists ==
    ASSUME NEW steps, NEW n \in Nat
    PROVE  \E f : Repeats(f, steps, n)
<1>. DEFINE S == {m \in Nat : \E f : Repeats(f, steps, m)}
<1>1. 0 \in S
    <2>1. Repeats([k \in 0 .. 0 |-> <<>>], steps, 0)
        BY DEF Repeats
    <2>. QED  BY <2>1
<1>2. ASSUME NEW m \in Nat, m \in S PROVE m + 1 \in S
    <2>1. PICK f : Repeats(f, steps, m)
        BY <1>2
    <2>2. \A k \in 0 .. m : f[k] = IF k = 0 THEN <<>> ELSE f[k - 1] \o steps
        BY <2>1 DEF Repeats
    <2>. DEFINE g == [k \in 0 .. m + 1 |-> IF k = m + 1 THEN f[m] \o steps ELSE f[k]]
    <2>3. ASSUME NEW k \in 0 .. m + 1
          PROVE  g[k] = IF k = 0 THEN <<>> ELSE g[k - 1] \o steps
        <3>1. CASE k = m + 1
            <4>1. k - 1 = m /\ k # 0 /\ g[m] = f[m]
                BY <3>1
            <4>. QED  BY <3>1, <4>1
        <3>2. CASE k \in 0 .. m
            <4>1. g[k] = f[k] /\ (k # 0 => g[k - 1] = f[k - 1])
                BY <3>2
            <4>. QED  BY <2>2, <3>2, <4>1
        <3>3. k = m + 1 \/ k \in 0 .. m
            OBVIOUS
        <3>. QED  BY <3>1, <3>2, <3>3
    <2>4. Repeats(g, steps, m + 1)
        BY <2>3 DEF Repeats
    <2>. QED  BY <2>4
<1>. HIDE DEF S
<1>3. n \in S
    BY <1>1, <1>2, Induct
<1>. QED  BY <1>3 DEF S

\* Repeated is the steps of each frame, one after the other.
LEMMA RepeatedFrames ==
    ASSUME NEW n \in Nat
    PROVE  /\ Repeated(Frame, n) \in Seq(FrameSteps)
           /\ Len(Repeated(Frame, n)) = 4 * n
           /\ \A j \in 0 .. n - 1, r \in 1 .. 4 : Repeated(Frame, n)[4 * j + r] = Frame[r]
<1>. DEFINE f == CHOOSE g : g = [k \in 0 .. n |-> IF k = 0 THEN <<>> ELSE g[k - 1] \o Frame]
<1>1. Repeated(Frame, n) = f[n]
    BY DEF Repeated
<1>2. Repeats(f, Frame, n)
    BY RepeatsExists DEF Repeats
<1>. HIDE DEF f
<1>3. \A k \in 0 .. n : f[k] = IF k = 0 THEN <<>> ELSE f[k - 1] \o Frame
    BY <1>2 DEF Repeats
<1>. DEFINE Fits(k) ==
                /\ f[k] \in Seq(FrameSteps)
                /\ Len(f[k]) = 4 * k
                /\ \A j \in 0 .. k - 1, r \in 1 .. 4 : f[k][4 * j + r] = Frame[r]
            S == {k \in Nat : k <= n => Fits(k)}
<1>4. 0 \in S
    <2>1. f[0] = <<>>
        BY <1>3
    <2>2. Fits(0)
        BY <2>1
    <2>. QED  BY <2>2
<1>5. ASSUME NEW k \in Nat, k \in S PROVE k + 1 \in S
    <2>. SUFFICES ASSUME k + 1 <= n PROVE Fits(k + 1)
        OBVIOUS
    <2>1. Fits(k)
        BY <1>5
    <2>2. f[k + 1] = f[k] \o Frame
        <3>1. k + 1 \in 0 .. n /\ k + 1 # 0 /\ (k + 1) - 1 = k
            OBVIOUS
        <3>. QED  BY <1>3, <3>1
    <2>3. Frame \in Seq(FrameSteps) /\ Len(Frame) = 4
        <3>1. Frame \in Seq(FrameSteps)
            BY DEF Frame, FrameSteps
        <3>2. Len(Frame) = 4
            BY DEF Frame
        <3>. QED  BY <3>1, <3>2
    <2>. DEFINE a == f[k]
                b == f[k + 1]
    <2>4. a \in Seq(FrameSteps) /\ Len(a) = 4 * k /\ b = a \o Frame
        BY <2>1, <2>2
    <2>. HIDE DEF a, b, Fits
    <2>5. /\ b \in Seq(FrameSteps) /\ Len(b) = 4 * k + 4
          /\ \A i \in 1 .. 4 * k + 4 : b[i] = IF i <= 4 * k THEN a[i] ELSE Frame[i - 4 * k]
        <3>1. /\ a \o Frame \in Seq(FrameSteps)
              /\ Len(a \o Frame) = Len(a) + Len(Frame)
              /\ \A i \in 1 .. Len(a) + Len(Frame) :
                    (a \o Frame)[i] = IF i <= Len(a) THEN a[i] ELSE Frame[i - Len(a)]
            BY <2>3, <2>4, ConcatProperties
        <3>2. Len(a) = 4 * k /\ Len(Frame) = 4 /\ b = a \o Frame
            BY <2>3, <2>4
        <3>. QED  BY <3>1, <3>2
    <2>6. ASSUME NEW j \in 0 .. (k + 1) - 1, NEW r \in 1 .. 4
          PROVE  b[4 * j + r] = Frame[r]
        <3>1. 4 * j + r \in 1 .. 4 * k + 4
            OBVIOUS
        <3>2. CASE j = k
            <4>1. ~(4 * j + r <= 4 * k) /\ (4 * j + r) - 4 * k = r
                BY <3>2
            <4>. QED  BY <2>5, <3>1, <4>1
        <3>3. CASE j \in 0 .. k - 1
            <4>1. 4 * j + r <= 4 * k
                BY <3>3
            <4>2. a[4 * j + r] = Frame[r]
                BY <2>1, <3>3 DEF Fits, a
            <4>. QED  BY <2>5, <3>1, <4>1, <4>2
        <3>4. j = k \/ j \in 0 .. k - 1
            OBVIOUS
        <3>. QED  BY <3>2, <3>3, <3>4
    <2>7. 4 * (k + 1) = 4 * k + 4
        OBVIOUS
    <2>. QED  BY <2>5, <2>6, <2>7 DEF Fits, b
<1>. HIDE DEF S
<1>6. n \in S
    BY <1>4, <1>5, Induct
<1>7. Fits(n)
    BY <1>6 DEF S
<1>. QED  BY <1>1, <1>7

\* What every command begins with: no frame, and none of what writes one.
LEMMA OpenStepsFit ==
    /\ OpenSteps \in Seq(OtherSteps)
    /\ Len(OpenSteps) \in Nat
    /\ \A i \in 1 .. Len(OpenSteps) : OpenSteps[i] \notin Captures \cup FrameSteps
<1>. DEFINE Quiet == OtherSteps \ Captures
<1>1. OpenSteps \in Seq(Quiet)
    <2>1. CASE roi = <<>>
        <3>1. OpenSteps = <<"OpenCamera">> \o <<>>
                              \o <<"SetDepth", "SetOffset", "SetGain", "SetExposure">>
            BY <2>1 DEF OpenSteps
        <3>. QED  BY <3>1 DEF OtherSteps, Captures
    <2>2. CASE roi # <<>>
        <3>1. OpenSteps = <<"OpenCamera">> \o <<"parseROI", "SetROI">>
                              \o <<"SetDepth", "SetOffset", "SetGain", "SetExposure">>
            BY <2>2 DEF OpenSteps
        <3>. QED  BY <3>1 DEF OtherSteps, Captures
    <2>. QED  BY <2>1, <2>2
<1>2. Quiet \subseteq OtherSteps /\ Quiet \intersect (Captures \cup FrameSteps) = {}
    BY DEF OtherSteps, Captures, FrameSteps
<1>. HIDE DEF Quiet
<1>3. Len(OpenSteps) \in Nat /\ \A i \in 1 .. Len(OpenSteps) : OpenSteps[i] \in Quiet
    BY <1>1, ElementOfSeq, LenProperties
<1>. QED  BY <1>1, <1>2, <1>3, SeqMonotonic

\* The commands that take no frame.
LEMMA QuietSteps ==
    ASSUME cmd \in {"list", "info", "regs"}
    PROVE  /\ Steps \in Seq(OtherSteps)
           /\ Len(Steps) \in Nat
           /\ \A i \in 1 .. Len(Steps) : Steps[i] \notin Captures \cup FrameSteps
<1>. DEFINE Quiet == OtherSteps \ Captures
<1>1. Steps \in Seq(Quiet)
    <2>1. CASE cmd = "list"
        BY <2>1 DEF Steps, OtherSteps, Captures
    <2>2. CASE cmd = "regs"
        BY <2>2 DEF Steps, OtherSteps, Captures
    <2>3. CASE cmd = "info"
        <3>1. Steps = OpenSteps \o <<"Identity", "ReadReg", "FirmwareVersion">>
            BY <2>3 DEF Steps
        <3>2. <<"Identity", "ReadReg", "FirmwareVersion">> \in Seq(Quiet)
            BY DEF OtherSteps, Captures
        <3>3. OpenSteps \in Seq(Quiet)
            <4>1. \A i \in 1 .. Len(OpenSteps) : OpenSteps[i] \in Quiet
                BY OpenStepsFit, ElementOfSeq
            <4>. QED  BY <4>1, OpenStepsFit
        <3>. QED  BY <3>1, <3>2, <3>3, ConcatProperties
    <2>. QED  BY <2>1, <2>2, <2>3
<1>2. Quiet \subseteq OtherSteps /\ Quiet \intersect (Captures \cup FrameSteps) = {}
    BY DEF OtherSteps, Captures, FrameSteps
<1>. HIDE DEF Quiet
<1>3. Len(Steps) \in Nat /\ \A i \in 1 .. Len(Steps) : Steps[i] \in Quiet
    BY <1>1, ElementOfSeq, LenProperties
<1>. QED  BY <1>1, <1>2, <1>3, SeqMonotonic

\* The steps of snap.
LEMMA SnapSteps ==
    ASSUME cmd = "snap", frames \in Nat
    PROVE  /\ Steps \in Seq(OtherSteps \cup FrameSteps)
           /\ First \in Nat
           /\ Len(Steps) = First + 4 * frames
           /\ \A i \in 1 .. First : Steps[i] \notin FrameSteps
           /\ \A j \in 0 .. frames - 1, r \in 1 .. 4 : Steps[First + 4 * j + r] = Frame[r]
<1>. DEFINE T == OtherSteps \cup FrameSteps
            mid == <<"Start", "settle1", "discard">>
            a == OpenSteps \o mid
            b == Repeated(Frame, frames)
<1>1. Steps = a \o b
    BY DEF Steps, Frame
<1>2. mid \in Seq(OtherSteps) /\ Len(mid) = 3
    <2>1. mid \in Seq(OtherSteps)
        BY DEF OtherSteps
    <2>. QED  BY <2>1
<1>3. OpenSteps \in Seq(OtherSteps) /\ Len(OpenSteps) \in Nat
    BY OpenStepsFit
<1>. HIDE DEF mid
<1>4. a \in Seq(OtherSteps) /\ Len(a) = First /\ First \in Nat
    <2>1. a \in Seq(OtherSteps) /\ Len(a) = Len(OpenSteps) + Len(mid)
        BY <1>2, <1>3, ConcatProperties
    <2>2. First = Len(OpenSteps) + 3
        BY DEF First
    <2>. QED  BY <1>2, <1>3, <2>1, <2>2
<1>5. /\ b \in Seq(FrameSteps) /\ Len(b) = 4 * frames
      /\ \A j \in 0 .. frames - 1, r \in 1 .. 4 : b[4 * j + r] = Frame[r]
    BY RepeatedFrames
<1>. HIDE DEF a, b
<1>6. OtherSteps \subseteq T /\ FrameSteps \subseteq T
    OBVIOUS
<1>7. a \in Seq(T) /\ b \in Seq(T)
    BY <1>4, <1>5, <1>6, SeqMonotonic
<1>8. /\ Steps \in Seq(T) /\ Len(Steps) = First + 4 * frames
      /\ \A i \in 1 .. First + 4 * frames :
            Steps[i] = IF i <= First THEN a[i] ELSE b[i - First]
    <2>1. /\ a \o b \in Seq(T)
          /\ Len(a \o b) = Len(a) + Len(b)
          /\ \A i \in 1 .. Len(a) + Len(b) :
                (a \o b)[i] = IF i <= Len(a) THEN a[i] ELSE b[i - Len(a)]
        BY <1>7, ConcatProperties
    <2>. QED  BY <1>1, <1>4, <1>5, <2>1
<1>9. ASSUME NEW i \in 1 .. First PROVE Steps[i] \notin FrameSteps
    <2>1. i \in 1 .. First + 4 * frames /\ i <= First
        BY <1>4
    <2>2. a[i] \in OtherSteps
        BY <1>4, ElementOfSeq
    <2>3. OtherSteps \intersect FrameSteps = {}
        BY DEF OtherSteps, FrameSteps
    <2>. QED  BY <1>8, <2>1, <2>2, <2>3
<1>10. ASSUME NEW j \in 0 .. frames - 1, NEW r \in 1 .. 4
       PROVE  Steps[First + 4 * j + r] = Frame[r]
    <2>1. /\ First + 4 * j + r \in 1 .. First + 4 * frames
          /\ ~(First + 4 * j + r <= First)
          /\ (First + 4 * j + r) - First = 4 * j + r
        BY <1>4
    <2>. QED  BY <1>5, <1>8, <2>1
<1>. QED  BY <1>4, <1>8, <1>9, <1>10

\* Where a command is.
LEMMA StepsRest ==
    ASSUME cmd \in {"list", "info", "snap", "regs"}, frames \in Nat,
           NEW k \in 1 .. Len(Steps) + 1
    PROVE  LET rest == SubSeq(Steps, k, Len(Steps))
           IN  /\ Len(Steps) \in Nat /\ Len(rest) = Len(Steps) - k + 1
               /\ rest = <<>> <=> k = Len(Steps) + 1
               /\ rest # <<>> => /\ k \in 1 .. Len(Steps)
                                 /\ Head(rest) = Steps[k]
                                 /\ Tail(rest) = SubSeq(Steps, k + 1, Len(Steps))
<1>. DEFINE T == OtherSteps \cup FrameSteps
<1>1. Steps \in Seq(T) /\ Len(Steps) \in Nat
    <2>1. CASE cmd = "snap"
        <3>1. First + 4 * frames \in Nat
            BY <2>1, SnapSteps
        <3>. QED  BY <2>1, <3>1, SnapSteps
    <2>2. CASE cmd # "snap"
        <3>1. OtherSteps \subseteq T
            OBVIOUS
        <3>. QED  BY <2>2, <3>1, QuietSteps, SeqMonotonic
    <2>. QED  BY <2>1, <2>2
<1>. DEFINE n == Len(Steps)
            R == Steps
<1>2. R \in Seq(T) /\ n \in Nat /\ n = Len(R)
    BY <1>1
<1>. HIDE DEF n, R, T
<1>3. k \in 1 .. n + 1
    BY DEF n
<1>4. CASE k = n + 1
    <2>1. SubSeq(R, k, n) = <<>>
        BY <1>2, <1>4, SubSeqEmpty
    <2>2. Len(SubSeq(R, k, n)) = n - k + 1
        BY <1>2, <1>4, <2>1
    <2>. QED  BY <1>2, <1>4, <2>1, <2>2 DEF n, R
<1>5. CASE k \in 1 .. n
    <2>1. Head(SubSeq(R, k, n)) = R[k] /\ Tail(SubSeq(R, k, n)) = SubSeq(R, k + 1, n)
        BY <1>2, <1>5, HeadTailOfSubSeq
    <2>2. Len(SubSeq(R, k, n)) = n - k + 1
        <3>1. \A i \in k .. n : R[i] \in T
            BY <1>2, <1>5, ElementOfSeq
        <3>. QED  BY <1>2, <1>5, <3>1, SubSeqProperties
    <2>3. SubSeq(R, k, n) # <<>>
        <3>1. Len(SubSeq(R, k, n)) # 0
            BY <1>2, <1>5, <2>2
        <3>. QED  BY <3>1, EmptySeq
    <2>4. k # n + 1
        BY <1>2, <1>5
    <2>. QED  BY <1>2, <1>5, <2>1, <2>2, <2>3, <2>4 DEF n, R
<1>. QED  BY <1>2, <1>3, <1>4, <1>5

-----------------------------------------------------------------------------
(* Part 3: timeouts.                                                         *)

\* A number is its quotient's multiple and its remainder.
LEMMA DivMod ==
    ASSUME NEW a \in Int, NEW b \in Int, b > 0
    PROVE  /\ a = b * (a \div b) + (a % b)
           /\ a \div b \in Int
           /\ a % b \in 0 .. b - 1
OBVIOUS

\* The timeout of a read fits its type, and is no more than what is left of the window
\* when that is a millisecond at least.
LEMMA TimeoutFits ==
    ASSUME NEW t \in Int, t <= Budget
    PROVE  /\ Timeout(t) \in Forever .. (Wrap - 1) * Ms
           /\ Timeout(t) # Idle
           /\ t >= Ms => 0 <= Timeout(t) /\ Timeout(t) <= t
<1>. DEFINE m == Milliseconds(t)
            ms == m % Wrap
<1>1. m \in Int
    <2>1. CASE t >= 0
        BY <2>1, DivMod, Constants DEF Milliseconds
    <2>2. CASE ~(t >= 0)
        <3>1. (-t) \div Ms \in Int
            BY DivMod, Constants
        <3>. QED  BY <2>2, <3>1 DEF Milliseconds
    <2>. QED  BY <2>1, <2>2
<1>2. t >= Ms => m \in 1 .. Wrap - 1 /\ m * Ms <= t
    <2>. SUFFICES ASSUME t >= Ms PROVE m \in 1 .. Wrap - 1 /\ m * Ms <= t
        OBVIOUS
    <2>. DEFINE q == t \div Ms
                c == t % Ms
    <2>1. t = Ms * q + c /\ q \in Int /\ c \in 0 .. Ms - 1
        BY DivMod, Constants
    <2>2. m = q
        BY Constants DEF Milliseconds
    <2>. HIDE DEF q, c, m
    <2>3. q >= 1
        <3>1. SUFFICES ASSUME q <= 0 PROVE FALSE
            BY <2>1
        <3>2. Ms * q <= 0
            BY <2>1, <3>1, Constants
        <3>. QED  BY <2>1, <3>2, Constants
    <2>4. q <= Wrap - 1
        <3>1. SUFFICES ASSUME q >= Wrap PROVE FALSE
            BY <2>1, Constants
        <3>2. Ms * q >= Ms * Wrap
            BY <2>1, <3>1, Constants
        <3>3. Ms * Wrap = (Wrap - 1) * Ms + Ms
            BY Constants
        <3>. QED  BY <2>1, <3>2, <3>3, Constants
    <2>5. q * Ms <= t
        BY <2>1, Constants
    <2>. QED  BY <2>1, <2>2, <2>3, <2>4, <2>5
<1>. HIDE DEF m
<1>3. ms \in 0 .. Wrap - 1
    BY <1>1, DivMod, Constants
<1>4. m \in 1 .. Wrap - 1 => ms = m
    BY Constants
<1>5. Timeout(t) = IF ms = 0 THEN Forever ELSE ms * Ms
    BY DEF Timeout, m
<1>. HIDE DEF ms
<1>6. ms * Ms \in 0 .. (Wrap - 1) * Ms
    <2>1. ms * Ms \in Int /\ (Wrap - 1) * Ms \in Int /\ ms * Ms >= 0
        BY <1>3, Constants
    <2>2. ms * Ms <= (Wrap - 1) * Ms
        BY <1>3, Constants
    <2>. QED  BY <2>1, <2>2
<1>. QED  BY <1>2, <1>3, <1>4, <1>5, <1>6, Constants DEF Forever, Idle

-----------------------------------------------------------------------------
(* Part 4: every action keeps the invariant.                                 *)

\* A command that goes on is at one of its steps: one that has to do with a frame, or
\* one before the first frame.
LEMMA AtAStep ==
    ASSUME Inv, Running, todo # <<>>
    PROVE  \E k \in 1 .. Len(Steps) :
               /\ Tail(todo) = SubSeq(Steps, k + 1, Len(Steps))
               /\ \/ /\ Head(todo) \notin FrameSteps
                     /\ cmd = "snap" => k <= First
                     /\ cmd # "snap" => Head(todo) \notin Captures
                     /\ AllOld
                  \/ /\ cmd = "snap"
                     /\ \E j \in 0 .. frames - 1, r \in 0 .. 3 :
                            /\ k = First + 1 + 4 * j + r
                            /\ Head(todo) = Frame[r + 1]
                            /\ Written(j, r)
<1>1. PICK k \in 1 .. Len(Steps) + 1 :
          /\ todo = SubSeq(Steps, k, Len(Steps))
          /\ IF cmd = "snap" /\ k > First THEN Taken(k) ELSE AllOld
    BY DEF Inv, Placed, Running
<1>2. cmd \in {"list", "info", "snap", "regs"} /\ frames \in Nat
    BY Constants DEF Inv, Types
<1>3. /\ k \in 1 .. Len(Steps) /\ Len(Steps) \in Nat
      /\ Head(todo) = Steps[k]
      /\ Tail(todo) = SubSeq(Steps, k + 1, Len(Steps))
    BY <1>1, <1>2, StepsRest
<1>4. CASE cmd # "snap"
    <2>1. Head(todo) \notin Captures \cup FrameSteps
        BY <1>2, <1>3, <1>4, QuietSteps
    <2>. QED  BY <1>1, <1>3, <1>4, <2>1
<1>5. CASE cmd = "snap" /\ k <= First
    <2>1. First \in Nat /\ k \in 1 .. First
        BY <1>2, <1>3, <1>5, SnapSteps
    <2>2. Head(todo) \notin FrameSteps
        BY <1>2, <1>3, <1>5, <2>1, SnapSteps
    <2>3. ~(k > First)
        BY <1>3, <1>5, <2>1
    <2>. QED  BY <1>1, <1>3, <1>5, <2>2, <2>3
<1>6. CASE cmd = "snap" /\ k > First
    <2>1. PICK j \in 0 .. frames, r \in 0 .. 3 :
              k = First + 1 + 4 * j + r /\ (r # 0 => j < frames) /\ Written(j, r)
        BY <1>1, <1>6 DEF Taken
    <2>2. First \in Nat /\ Len(Steps) = First + 4 * frames
        BY <1>2, <1>6, SnapSteps
    <2>3. j \in 0 .. frames - 1
        BY <1>2, <1>3, <2>1, <2>2
    <2>4. Steps[First + 4 * j + (r + 1)] = Frame[r + 1]
        <3>1. r + 1 \in 1 .. 4
            OBVIOUS
        <3>. QED  BY <1>2, <1>6, <2>3, <3>1, SnapSteps
    <2>5. k = First + 4 * j + (r + 1)
        BY <1>2, <2>1, <2>2
    <2>. QED  BY <1>3, <1>6, <2>1, <2>3, <2>4, <2>5
<1>7. cmd # "snap" \/ (cmd = "snap" /\ k <= First) \/ (cmd = "snap" /\ k > First)
    <2>1. cmd = "snap" => First \in Nat
        BY <1>2, SnapSteps
    <2>. QED  BY <1>3, <2>1
<1>. QED  BY <1>4, <1>5, <1>6, <1>7

\* Files written one after the other are in order.
LEMMA WrittenInOrder ==
    ASSUME frames' \in Nat, NEW j \in 0 .. frames', NEW r \in 0 .. 3, Written(j, r)'
    PROVE  \A i \in 1 .. frames' :
               files'[i] # "old" =>
                   /\ i <= px'
                   /\ lost' \/ \A m \in 1 .. i - 1 : files'[m] = "whole"
<1>. SUFFICES ASSUME NEW i \in 1 .. frames', files'[i] # "old"
              PROVE  i <= px' /\ (lost' \/ \A m \in 1 .. i - 1 : files'[m] = "whole")
    OBVIOUS
<1>1. /\ px' = (IF r = 0 THEN j ELSE j + 1)
      /\ \A m \in 1 .. j : lost' \/ files'[m] = "whole"
    BY DEF Written
<1>2. i <= j \/ (i = j + 1 /\ r \in {2, 3})
    <2>1. ASSUME i > j PROVE i = j + 1 /\ r \in {2, 3}
        <3>1. i \in j + 1 .. frames'
            BY <2>1
        <3>. QED  BY <3>1 DEF Written
    <2>. QED  BY <2>1
<1>. QED  BY <1>1, <1>2

\* The command's own variables, when they stay as they are.
LEMMA CommandKept ==
    ASSUME Inv, UNCHANGED <<args, todo, err, px, files, lost>>
    PROVE  Placed' /\ InOrder'
<1>1. Steps' = Steps /\ First' = First
    BY DEF args, Steps, OpenSteps, First
<1>2. \A k : Taken(k)' <=> Taken(k)
    BY <1>1 DEF Taken, Written, args
<1>. QED  BY <1>1, <1>2 DEF Inv, Placed, InOrder, AllOld, AllWhole, args

\* A command that has failed leaves the files.
LEMMA ErrorKept ==
    ASSUME Inv, err' \in {"error", "panic"}, UNCHANGED <<args, px, files, lost>>
    PROVE  Placed' /\ InOrder'
BY DEF Inv, Placed, InOrder, args

\* A step before the first frame is done.
LEMMA QuietGoes ==
    ASSUME Inv, Running, todo # <<>>, Head(todo) \notin FrameSteps,
           todo' = Tail(todo), UNCHANGED <<args, err, px, files, lost>>
    PROVE  Placed' /\ InOrder'
<1>1. PICK k \in 1 .. Len(Steps) :
          /\ Tail(todo) = SubSeq(Steps, k + 1, Len(Steps))
          /\ \/ /\ cmd = "snap" => k <= First
                /\ AllOld
             \/ \E r \in 0 .. 3 : Head(todo) = Frame[r + 1]
    BY AtAStep
<1>2. \A r \in 0 .. 3 : Frame[r + 1] \in FrameSteps
    BY DEF Frame, FrameSteps
<1>3. (cmd = "snap" => k <= First) /\ AllOld
    BY <1>1, <1>2
<1>4. cmd \in {"list", "info", "snap", "regs"} /\ frames \in Nat
    BY Constants DEF Inv, Types
<1>5. Steps' = Steps /\ First' = First /\ (AllOld' <=> AllOld)
    BY DEF args, Steps, OpenSteps, First, AllOld
<1>6. Len(Steps) \in Nat /\ k + 1 \in 1 .. Len(Steps) + 1
    <2>1. k \in 1 .. Len(Steps) + 1
        OBVIOUS
    <2>2. Len(Steps) \in Nat
        BY <1>4, <2>1, StepsRest
    <2>. QED  BY <2>2
<1>7. ASSUME cmd = "snap", k + 1 > First PROVE Taken(k + 1)'
    <2>1. First \in Nat /\ k = First
        BY <1>3, <1>4, <1>6, <1>7, SnapSteps
    <2>2. Written(0, 0)'
        BY <1>3, <1>4, <1>5 DEF Written, AllOld, args
    <2>3. k + 1 = First + 1 + 4 * 0 + 0 /\ 0 \in 0 .. frames /\ 0 \in 0 .. 3
        BY <1>4, <2>1
    <2>. QED  BY <1>5, <2>2, <2>3 DEF Taken, args
<1>8. Placed'
    <2>1. IF cmd' = "snap" /\ k + 1 > First' THEN Taken(k + 1)' ELSE AllOld'
        BY <1>3, <1>5, <1>7 DEF args
    <2>. QED  BY <1>1, <1>5, <1>6, <2>1 DEF Placed
<1>. QED  BY <1>8 DEF Inv, InOrder, AllWhole, Running, args

\* A step of a frame is done.
LEMMA FrameGoes ==
    ASSUME Inv, Running, cmd = "snap", NEW k \in 1 .. Len(Steps),
           NEW j \in 0 .. frames - 1, NEW r \in 0 .. 3, k = First + 1 + 4 * j + r,
           todo' = SubSeq(Steps, k + 1, Len(Steps)), UNCHANGED <<args, err>>,
           IF r = 3 THEN Written(j + 1, 0)' ELSE Written(j, r + 1)'
    PROVE  Placed' /\ InOrder'
<1>1. frames \in Nat /\ frames' = frames /\ cmd' = "snap"
    BY Constants DEF Inv, Types, args
<1>2. Steps' = Steps /\ First' = First
    BY DEF args, Steps, OpenSteps, First
<1>3. First \in Nat /\ Len(Steps) = First + 4 * frames
    BY <1>1, SnapSteps
<1>4. PICK n \in 0 .. frames, q \in 0 .. 3 :
          k + 1 = First + 1 + 4 * n + q /\ (q # 0 => n < frames) /\ Written(n, q)'
    <2>1. CASE r = 3
        <3>1. k + 1 = First + 1 + 4 * (j + 1) + 0 /\ j + 1 \in 0 .. frames /\ 0 \in 0 .. 3
            BY <1>1, <1>3, <2>1
        <3>. QED  BY <2>1, <3>1
    <2>2. CASE r # 3
        <3>1. /\ k + 1 = First + 1 + 4 * j + (r + 1)
              /\ j \in 0 .. frames /\ j < frames /\ r + 1 \in 0 .. 3
            BY <1>1, <1>3, <2>2
        <3>. QED  BY <2>2, <3>1
    <2>. QED  BY <2>1, <2>2
<1>5. Placed'
    <2>1. Taken(k + 1)'
        BY <1>1, <1>2, <1>4 DEF Taken
    <2>2. k + 1 \in 1 .. Len(Steps) + 1 /\ k + 1 > First
        BY <1>1, <1>3
    <2>. QED  BY <1>1, <1>2, <2>1, <2>2 DEF Placed
<1>6. InOrder'
    <2>1. \A i \in 1 .. frames' :
              files'[i] # "old" =>
                  i <= px' /\ (lost' \/ \A m \in 1 .. i - 1 : files'[m] = "whole")
        BY <1>1, <1>4, WrittenInOrder
    <2>. QED  BY <2>1 DEF InOrder, Running
<1>. QED  BY <1>5, <1>6

\* A command that is at a step without a window has none open.
LEMMA NoWindow ==
    ASSUME Inv, Running => (todo = <<>> \/ Head(todo) \notin Captures)
    PROVE  window = "none" /\ wait = Idle
<1>1. window = "none"
    <2>1. window # "none" => Running /\ todo # <<>> /\ Head(todo) \in Captures
        BY DEF Inv, WindowFits
    <2>. QED  BY <2>1
<1>. QED  BY <1>1 DEF Inv, WindowFits

\* Where open's steps are.
LEMMA OpenNames ==
    /\ Len(OpenSteps) \in Nat /\ Len(OpenSteps) >= 2
    /\ OpenSteps[1] = "OpenCamera"
    /\ \A k \in 2 .. Len(OpenSteps) : /\ OpenSteps[k] \in InOpen
                                      /\ OpenSteps[k] = "SetExposure" <=> k = Len(OpenSteps)
<1>. DEFINE a == <<"OpenCamera">>
            b == IF roi = <<>> THEN <<>> ELSE <<"parseROI", "SetROI">>
            c == <<"SetDepth", "SetOffset", "SetGain", "SetExposure">>
            u == a \o b
<1>1. a \in Seq(OtherSteps)
    BY DEF OtherSteps
<1>2. b \in Seq(OtherSteps)
    <2>1. <<"parseROI", "SetROI">> \in Seq(OtherSteps)
        BY DEF OtherSteps
    <2>. QED  BY <2>1, EmptySeq
<1>3. c \in Seq(OtherSteps)
    BY DEF OtherSteps
<1>4. Len(a) = 1 /\ a[1] = "OpenCamera"
    OBVIOUS
<1>5. /\ b # <<>> => Len(b) = 2 /\ b[1] = "parseROI" /\ b[2] = "SetROI"
      /\ b = <<>> => Len(b) = 0
    <2>1. CASE roi = <<>>
        BY <2>1, EmptySeq
    <2>2. CASE roi # <<>>
        <3>1. b = <<"parseROI", "SetROI">>
            BY <2>2
        <3>2. /\ Len(<<"parseROI", "SetROI">>) = 2 /\ <<"parseROI", "SetROI">>[1] = "parseROI"
              /\ <<"parseROI", "SetROI">>[2] = "SetROI"
            OBVIOUS
        <3>3. <<"parseROI", "SetROI">> # <<>>
            OBVIOUS
        <3>. QED  BY <3>1, <3>2, <3>3
    <2>. QED  BY <2>1, <2>2
<1>6. /\ Len(c) = 4 /\ c[1] = "SetDepth" /\ c[2] = "SetOffset" /\ c[3] = "SetGain"
      /\ c[4] = "SetExposure"
    OBVIOUS
<1>. HIDE DEF a, b, c
<1>7. Len(b) \in {0, 2} /\ \A i \in 1 .. Len(b) : b[i] \in {"parseROI", "SetROI"}
    <2>1. \A i \in 1 .. 2 : i = 1 \/ i = 2
        OBVIOUS
    <2>2. \A i \in 1 .. 0 : FALSE
        OBVIOUS
    <2>. QED  BY <1>5, <2>1, <2>2
<1>8. \A i \in 1 .. 4 : /\ c[i] \in InOpen
                        /\ c[i] = "SetExposure" <=> i = 4
    <2>1. \A i \in 1 .. 4 : i = 1 \/ i = 2 \/ i = 3 \/ i = 4
        OBVIOUS
    <2>. QED  BY <1>6, <2>1 DEF InOpen
<1>9. /\ u \in Seq(OtherSteps) /\ Len(u) = Len(b) + 1
      /\ \A i \in 1 .. Len(b) + 1 : u[i] = IF i <= 1 THEN a[i] ELSE b[i - 1]
    <2>1. Len(a) + Len(b) = Len(b) + 1
        BY <1>4, <1>7
    <2>2. /\ u \in Seq(OtherSteps) /\ Len(u) = Len(a) + Len(b)
          /\ \A i \in 1 .. Len(a) + Len(b) : u[i] = IF i <= Len(a) THEN a[i] ELSE b[i - Len(a)]
        BY <1>1, <1>2, ConcatProperties
    <2>. HIDE DEF u
    <2>. QED  BY <1>4, <2>1, <2>2
<1>. HIDE DEF u
<1>10. /\ Len(u \o c) = Len(b) + 5
       /\ \A i \in 1 .. Len(b) + 5 :
             (u \o c)[i] = IF i <= Len(b) + 1 THEN u[i] ELSE c[i - (Len(b) + 1)]
    <2>1. Len(u) + Len(c) = Len(b) + 5
        BY <1>6, <1>7, <1>9
    <2>. QED  BY <1>3, <1>9, <2>1, ConcatProperties
<1>11. OpenSteps = u \o c
    BY DEF OpenSteps, u, a, b, c
<1>. DEFINE n == Len(b)
            v == u \o c
<1>. HIDE DEF n, v
<1>12. v[1] = "OpenCamera"
    <2>1. 1 \in 1 .. n + 5 /\ 1 \in 1 .. n + 1 /\ 1 <= n + 1
        BY <1>7 DEF n
    <2>. QED  BY <1>4, <1>9, <1>10, <2>1 DEF n, v
<1>13. ASSUME NEW i \in 2 .. n + 5
       PROVE  v[i] \in InOpen /\ (v[i] = "SetExposure" <=> i = n + 5)
    <2>1. CASE i <= n + 1
        <3>1. i \in 1 .. n + 5 /\ i \in 1 .. n + 1 /\ i - 1 \in 1 .. n /\ ~(i <= 1) /\ i # n + 5
            BY <1>7, <2>1 DEF n
        <3>2. v[i] = b[i - 1]
            BY <1>9, <1>10, <2>1, <3>1 DEF n, v
        <3>3. b[i - 1] \in {"parseROI", "SetROI"}
            BY <1>7, <3>1 DEF n
        <3>. QED  BY <3>1, <3>2, <3>3 DEF InOpen
    <2>2. CASE ~(i <= n + 1)
        <3>1. i \in 1 .. n + 5 /\ i - (n + 1) \in 1 .. 4 /\ (i - (n + 1) = 4 <=> i = n + 5)
            BY <1>7, <2>2 DEF n
        <3>2. v[i] = c[i - (n + 1)]
            BY <1>10, <2>2, <3>1 DEF n, v
        <3>. QED  BY <1>8, <3>1, <3>2
    <2>. QED  BY <2>1, <2>2
<1>14. n \in Nat /\ n + 5 \in Nat /\ n + 5 >= 2
    BY <1>7 DEF n
<1>. QED  BY <1>10, <1>11, <1>12, <1>13, <1>14 DEF n, v

\* The steps that open, start or fail with the camera, by their place.
LEMMA StepNames ==
    ASSUME cmd \in {"list", "info", "snap", "regs"}, frames \in Nat
    PROVE  /\ Len(Steps) \in Nat
           /\ cmd = "list" => Len(Steps) = 1 /\ Steps[1] = "Attached"
           /\ cmd = "regs" => /\ Len(Steps) = 3 /\ Steps[1] = "Connect"
                              /\ \A k \in 2 .. 3 : Steps[k] \in {"argument", "ReadReg"}
           /\ cmd \in {"info", "snap"} =>
                 /\ Len(Steps) > Len(OpenSteps)
                 /\ \A k \in 1 .. Len(OpenSteps) : Steps[k] = OpenSteps[k]
           /\ cmd = "info" =>
                 \A k \in Len(OpenSteps) + 1 .. Len(Steps) :
                     Steps[k] \in {"Identity", "ReadReg", "FirmwareVersion"}
           /\ cmd = "snap" =>
                 /\ Len(Steps) > Len(OpenSteps) + 1
                 /\ Steps[Len(OpenSteps) + 1] = "Start"
                 /\ \A k \in Len(OpenSteps) + 2 .. Len(Steps) :
                        Steps[k] \in {"settle1", "discard"} \cup FrameSteps
<1>1. CASE cmd = "list"
    <2>1. Steps = <<"Attached">>
        BY <1>1 DEF Steps
    <2>. QED  BY <1>1, <2>1
<1>2. CASE cmd = "regs"
    <2>1. Steps = <<"Connect", "argument", "ReadReg">>
        BY <1>2 DEF Steps
    <2>. DEFINE u == <<"Connect", "argument", "ReadReg">>
    <2>2. Len(u) = 3 /\ u[1] = "Connect" /\ u[2] = "argument" /\ u[3] = "ReadReg"
        OBVIOUS
    <2>3. \A k \in 2 .. 3 : k \in {2, 3}
        OBVIOUS
    <2>4. Steps = u
        BY <2>1
    <2>. HIDE DEF u
    <2>. QED  BY <1>2, <2>2, <2>3, <2>4
<1>. DEFINE n == Len(OpenSteps)
            a == OpenSteps
<1>3. a \in Seq(OtherSteps) /\ n \in Nat /\ n >= 2 /\ n = Len(a)
    BY OpenStepsFit, OpenNames
<1>. HIDE DEF n, a
<1>4. CASE cmd = "info"
    <2>. DEFINE b == <<"Identity", "ReadReg", "FirmwareVersion">>
    <2>1. Steps = a \o b
        BY <1>4 DEF Steps, a
    <2>2. /\ b \in Seq(OtherSteps) /\ Len(b) = 3
          /\ \A k \in 1 .. 3 : b[k] \in {"Identity", "ReadReg", "FirmwareVersion"}
        <3>1. b \in Seq(OtherSteps)
            BY DEF OtherSteps
        <3>2. Len(b) = 3 /\ b[1] = "Identity" /\ b[2] = "ReadReg" /\ b[3] = "FirmwareVersion"
            OBVIOUS
        <3>3. \A k \in 1 .. 3 : k \in {1, 2, 3}
            OBVIOUS
        <3>. HIDE DEF b
        <3>. QED  BY <3>1, <3>2, <3>3
    <2>. HIDE DEF b
    <2>3. /\ Len(Steps) = n + 3
          /\ \A k \in 1 .. n + 3 : Steps[k] = IF k <= n THEN a[k] ELSE b[k - n]
        <3>1. /\ Len(a \o b) = Len(a) + Len(b)
              /\ \A k \in 1 .. Len(a) + Len(b) :
                    (a \o b)[k] = IF k <= Len(a) THEN a[k] ELSE b[k - Len(a)]
            BY <1>3, <2>2, ConcatProperties
        <3>2. Len(a) = n /\ Len(b) = 3 /\ Steps = a \o b
            BY <1>3, <2>1, <2>2
        <3>. QED  BY <3>1, <3>2
    <2>4. \A k \in 1 .. n : k \in 1 .. n + 3 /\ k <= n
        BY <1>3
    <2>5. \A k \in n + 1 .. n + 3 : k \in 1 .. n + 3 /\ ~(k <= n) /\ k - n \in 1 .. 3
        BY <1>3
    <2>6. \A k \in 1 .. n : Steps[k] = a[k]
        BY <2>3, <2>4
    <2>7. \A k \in n + 1 .. n + 3 :
              Steps[k] \in {"Identity", "ReadReg", "FirmwareVersion"}
        BY <2>2, <2>3, <2>5
    <2>. QED  BY <1>3, <1>4, <2>3, <2>6, <2>7 DEF n, a
<1>5. CASE cmd = "snap"
    <2>. DEFINE b == <<"Start", "settle1", "discard">>
                c == Repeated(Frame, frames)
                d == a \o b
    <2>1. Steps = d \o c
        BY <1>5 DEF Steps, a, Frame
    <2>2. /\ b \in Seq(OtherSteps) /\ Len(b) = 3
          /\ b[1] = "Start" /\ b[2] = "settle1" /\ b[3] = "discard"
        <3>1. b \in Seq(OtherSteps)
            BY DEF OtherSteps
        <3>. QED  BY <3>1
    <2>3. c \in Seq(FrameSteps) /\ Len(c) = 4 * frames
        BY RepeatedFrames
    <2>4. 4 * frames \in Nat
        OBVIOUS
    <2>. HIDE DEF b, c
    <2>5. /\ d \in Seq(OtherSteps) /\ Len(d) = n + 3
          /\ \A k \in 1 .. n + 3 : d[k] = IF k <= n THEN a[k] ELSE b[k - n]
        <3>1. /\ a \o b \in Seq(OtherSteps)
              /\ Len(a \o b) = Len(a) + Len(b)
              /\ \A k \in 1 .. Len(a) + Len(b) :
                    (a \o b)[k] = IF k <= Len(a) THEN a[k] ELSE b[k - Len(a)]
            BY <1>3, <2>2, ConcatProperties
        <3>2. Len(a) = n /\ Len(b) = 3
            BY <1>3, <2>2
        <3>. QED  BY <3>1, <3>2
    <2>. HIDE DEF d
    <2>6. /\ Len(Steps) = n + 3 + Len(c) /\ Len(c) \in Nat
          /\ \A k \in 1 .. n + 3 + Len(c) :
                Steps[k] = IF k <= n + 3 THEN d[k] ELSE c[k - (n + 3)]
        <3>. DEFINE T == OtherSteps \cup FrameSteps
        <3>1. OtherSteps \subseteq T /\ FrameSteps \subseteq T
            OBVIOUS
        <3>2. d \in Seq(T) /\ c \in Seq(T)
            BY <2>3, <2>5, <3>1, SeqMonotonic
        <3>. HIDE DEF T
        <3>3. /\ Len(d \o c) = Len(d) + Len(c)
              /\ \A k \in 1 .. Len(d) + Len(c) :
                    (d \o c)[k] = IF k <= Len(d) THEN d[k] ELSE c[k - Len(d)]
            BY <3>2, ConcatProperties
        <3>4. Len(d) = n + 3 /\ Steps = d \o c /\ Len(c) \in Nat
            BY <2>1, <2>3, <2>4, <2>5
        <3>. QED  BY <3>3, <3>4
    <2>7. ASSUME NEW k \in 1 .. n PROVE Steps[k] = a[k]
        <3>1. k \in 1 .. n + 3 + Len(c) /\ k <= n + 3 /\ k \in 1 .. n + 3 /\ k <= n
            BY <1>3, <2>6
        <3>. QED  BY <2>5, <2>6, <3>1
    <2>8. Steps[n + 1] = "Start" /\ Steps[n + 2] = "settle1" /\ Steps[n + 3] = "discard"
        <3>1. ASSUME NEW i \in 1 .. 3 PROVE Steps[n + i] = b[i]
            <4>1. /\ n + i \in 1 .. n + 3 + Len(c) /\ n + i <= n + 3
                  /\ n + i \in 1 .. n + 3 /\ ~(n + i <= n) /\ (n + i) - n = i
                BY <1>3, <2>6
            <4>. QED  BY <2>5, <2>6, <4>1
        <3>. QED  BY <2>2, <3>1
    <2>9. ASSUME NEW k \in n + 4 .. n + 3 + Len(c) PROVE Steps[k] \in FrameSteps
        <3>1. /\ k \in 1 .. n + 3 + Len(c) /\ ~(k <= n + 3)
              /\ k - (n + 3) \in 1 .. Len(c)
            BY <1>3, <2>6
        <3>2. c[k - (n + 3)] \in FrameSteps
            BY <2>3, <3>1, ElementOfSeq
        <3>. QED  BY <2>6, <3>1, <3>2
    <2>10. \A k \in n + 2 .. n + 3 + Len(c) :
               k = n + 2 \/ k = n + 3 \/ k \in n + 4 .. n + 3 + Len(c)
        BY <1>3, <2>6
    <2>11. \A k \in n + 2 .. Len(Steps) : Steps[k] \in {"settle1", "discard"} \cup FrameSteps
        BY <2>6, <2>8, <2>9, <2>10
    <2>12. Len(Steps) \in Nat /\ Len(Steps) > n + 1 /\ Len(Steps) > n
        BY <1>3, <2>6
    <2>. QED  BY <1>5, <2>7, <2>8, <2>11, <2>12 DEF n, a
<1>. QED  BY <1>1, <1>2, <1>4, <1>5

\* The steps of list and of regs.
LEMMA Places ==
    ASSUME cmd \in {"list", "regs"}, frames \in Nat, NEW k \in 1 .. Len(Steps)
    PROVE  /\ cmd = "list" => k = 1 /\ Steps[k] = "Attached"
           /\ cmd = "regs" => \/ k = 1 /\ Steps[k] = "Connect"
                              \/ k > 1 /\ Steps[k] \in {"argument", "ReadReg"}
<1>1. ASSUME cmd = "list" PROVE k = 1 /\ Steps[k] = "Attached"
    <2>1. Len(Steps) = 1 /\ Steps[1] = "Attached"
        BY <1>1, StepNames
    <2>. QED  BY <2>1
<1>2. ASSUME cmd = "regs"
      PROVE  \/ k = 1 /\ Steps[k] = "Connect"
             \/ k > 1 /\ Steps[k] \in {"argument", "ReadReg"}
    <2>1. /\ Len(Steps) = 3 /\ Steps[1] = "Connect"
          /\ \A i \in 2 .. 3 : Steps[i] \in {"argument", "ReadReg"}
        BY <1>2, StepNames
    <2>2. k = 1 \/ (k > 1 /\ k \in 2 .. 3)
        BY <2>1
    <2>. QED  BY <2>1, <2>2
<1>. QED  BY <1>1, <1>2

\* The place of a command that goes on.
LEMMA PositionFits ==
    ASSUME Inv, err = "none"
    PROVE  /\ cmd \in {"list", "info", "snap", "regs"} /\ frames \in Nat
           /\ Len(Steps) \in Nat /\ Position \in 1 .. Len(Steps) + 1
           /\ todo = <<>> <=> Position = Len(Steps) + 1
           /\ todo # <<>> => /\ Position \in 1 .. Len(Steps)
                             /\ Head(todo) = Steps[Position]
                             /\ Len(Steps) - Len(Tail(todo)) + 1 = Position + 1
<1>1. PICK k \in 1 .. Len(Steps) + 1 : todo = SubSeq(Steps, k, Len(Steps))
    BY DEF Inv, Placed
<1>2. cmd \in {"list", "info", "snap", "regs"} /\ frames \in Nat
    BY Constants DEF Inv, Types
<1>3. /\ Len(Steps) \in Nat
      /\ todo = <<>> <=> k = Len(Steps) + 1
      /\ todo # <<>> => /\ k \in 1 .. Len(Steps)
                        /\ Head(todo) = Steps[k]
                        /\ Tail(todo) = SubSeq(Steps, k + 1, Len(Steps))
    BY <1>1, <1>2, StepsRest
<1>4. \A i \in 1 .. Len(Steps) + 1 : Len(SubSeq(Steps, i, Len(Steps))) = Len(Steps) - i + 1
    BY <1>2, StepsRest
<1>5. Position = k
    <2>1. Len(todo) = Len(Steps) - k + 1
        BY <1>1, <1>4
    <2>. QED  BY <1>3, <2>1 DEF Position
<1>6. todo # <<>> => Len(Steps) - Len(Tail(todo)) + 1 = Position + 1
    <2>1. SUFFICES ASSUME todo # <<>> PROVE Len(Steps) - Len(Tail(todo)) + 1 = Position + 1
        OBVIOUS
    <2>2. k + 1 \in 1 .. Len(Steps) + 1
        BY <1>3, <2>1
    <2>3. Tail(todo) = SubSeq(Steps, k + 1, Len(Steps))
        BY <1>3, <2>1
    <2>4. Len(SubSeq(Steps, k + 1, Len(Steps))) = Len(Steps) - (k + 1) + 1
        BY <1>4, <2>2, Zenon
    <2>5. \A i, j \in Int : i - (i - (j + 1) + 1) + 1 = j + 1
        OBVIOUS
    <2>6. Len(Tail(todo)) = Len(Steps) - (k + 1) + 1
        BY <2>3, <2>4
    <2>7. Len(Steps) - (Len(Steps) - (k + 1) + 1) + 1 = k + 1
        BY <1>3, <2>5
    <2>. QED  BY <1>5, <2>6, <2>7
<1>. QED  BY <1>2, <1>3, <1>5, <1>6

\* Both calls deferred, and one of them done.
LEMMA BothDeferred ==
    /\ Append(<<"Close">>, "Stop") = <<"Close", "Stop">>
    /\ SubSeq(<<"Close", "Stop">>, 1, 1) = <<"Close">>
<1>. DEFINE S == {"Close", "Stop"}
            a == <<"Close">>
            b == <<"Close", "Stop">>
            c == Append(a, "Stop")
<1>1. a \in Seq(S) /\ b \in Seq(S)
    OBVIOUS
<1>2. Len(a) = 1 /\ a[1] = "Close" /\ Len(b) = 2 /\ b[1] = "Close" /\ b[2] = "Stop"
    OBVIOUS
<1>3. "Stop" \in S
    OBVIOUS
<1>. HIDE DEF S, a, b
<1>4. c \in Seq(S) /\ Len(c) = 2 /\ c[1] = "Close" /\ c[2] = "Stop"
    <2>1. 1 \in 1 .. Len(a)
        BY <1>2
    <2>2. /\ c \in Seq(S) /\ Len(c) = Len(a) + 1
          /\ \A i \in 1 .. Len(a) : c[i] = a[i]
          /\ c[Len(a) + 1] = "Stop"
        BY <1>1, <1>3, AppendProperties
    <2>3. Len(a) + 1 = 2
        BY <1>2
    <2>. HIDE DEF c
    <2>. QED  BY <1>2, <2>1, <2>2, <2>3
<1>5. c = b
    <2>. HIDE DEF c
    <2>1. \A i \in 1 .. 2 : i = 1 \/ i = 2
        OBVIOUS
    <2>2. Len(c) = Len(b) /\ \A i \in 1 .. Len(c) : c[i] = b[i]
        BY <1>2, <1>4, <2>1
    <2>. QED  BY <1>1, <1>4, <2>2, SeqEqual
<1>6. SubSeq(b, 1, 1) = a
    <2>1. 1 \in 1 .. Len(b)
        BY <1>2
    <2>2. SubSeq(b, 1, 1) = <<b[1]>> \o SubSeq(b, 2, 1)
        BY <1>1, <2>1, SubSeqRecursiveFirst
    <2>3. SubSeq(b, 2, 1) = <<>>
        BY SubSeqEmpty
    <2>4. <<b[1]>> = a
        BY <1>2 DEF a
    <2>. QED  BY <1>1, <2>2, <2>3, <2>4, ConcatEmptySeq
<1>. QED  BY <1>5, <1>6 DEF a, b

\* What open does not close itself when it fails, is deferred.
LEMMA HandleReturns ==
    ASSUME Inv, Running, todo = <<>> \/ Head(todo) \notin InOpen
    PROVE  Matched
<1>. DEFINE k == Position
            n == Len(OpenSteps)
<1>1. /\ cmd \in {"list", "info", "snap", "regs"} /\ frames \in Nat
      /\ Len(Steps) \in Nat /\ k \in 1 .. Len(Steps) + 1
      /\ todo = <<>> <=> k = Len(Steps) + 1
      /\ todo # <<>> => Head(todo) = Steps[k]
    BY PositionFits DEF Running
<1>2. Held(k)
    BY DEF Inv, Handle, Running
<1>3. n \in Nat /\ n >= 2 /\ \A i \in 2 .. n : OpenSteps[i] \in InOpen
    BY OpenNames
<1>. HIDE DEF k
<1>4. CASE cmd = "list"
    BY <1>2, <1>4 DEF Held, Matched
<1>5. CASE cmd = "regs"
    <2>1. k = 1 \/ k > 1
        BY <1>1
    <2>. QED  BY <1>2, <1>5, <2>1 DEF Held, Matched
<1>6. CASE cmd \in {"info", "snap"}
    <2>1. k \notin 2 .. n
        <3>1. SUFFICES ASSUME k \in 2 .. n PROVE FALSE
            OBVIOUS
        <3>2. Len(Steps) > n /\ \A i \in 1 .. n : Steps[i] = OpenSteps[i]
            BY <1>1, <1>6, StepNames
        <3>3. k # Len(Steps) + 1 /\ k \in 1 .. n
            BY <1>1, <1>3, <3>1, <3>2
        <3>. QED  BY <1>1, <1>3, <3>1, <3>2, <3>3
    <2>2. k = 1 \/ k = n + 1 \/ k > n + 1
        BY <1>1, <1>3, <2>1
    <2>3. k = n + 1 => k > n
        BY <1>3
    <2>4. k > n + 1 => k > n
        BY <1>1, <1>3
    <2>. HIDE DEF n
    <2>. QED  BY <1>2, <1>6, <2>2, <2>3, <2>4 DEF Held, Matched, n
<1>. QED  BY <1>1, <1>4, <1>5, <1>6

\* Before open has returned nothing is deferred.
LEMMA HandleInOpen ==
    ASSUME Inv, Running, todo # <<>>, Head(todo) \in InOpen
    PROVE  deferred = <<>>
<1>. DEFINE k == Position
            n == Len(OpenSteps)
<1>1. /\ cmd \in {"list", "info", "snap", "regs"} /\ frames \in Nat
      /\ Len(Steps) \in Nat /\ k \in 1 .. Len(Steps) /\ Head(todo) = Steps[k]
    BY PositionFits DEF Running
<1>2. Held(k)
    BY DEF Inv, Handle, Running
<1>3. n \in Nat /\ n >= 2
    BY OpenNames
<1>. HIDE DEF k
<1>4. cmd \in {"info", "snap"}
    <2>1. cmd # "list"
        <3>1. cmd = "list" => Steps[k] = "Attached"
            BY <1>1, Places
        <3>. QED  BY <1>1, <3>1 DEF InOpen
    <2>2. cmd # "regs"
        <3>1. cmd = "regs" => Steps[k] \in {"Connect", "argument", "ReadReg"}
            BY <1>1, Places
        <3>. QED  BY <1>1, <3>1 DEF InOpen
    <2>. QED  BY <1>1, <2>1, <2>2
<1>5. k \in 1 .. n
    <2>1. SUFFICES ASSUME k \in n + 1 .. Len(Steps) PROVE FALSE
        BY <1>1, <1>3
    <2>2. CASE cmd = "info"
        <3>1. Steps[k] \in {"Identity", "ReadReg", "FirmwareVersion"}
            BY <1>1, <2>1, <2>2, StepNames
        <3>. QED  BY <1>1, <3>1 DEF InOpen
    <2>3. CASE cmd = "snap"
        <3>1. k = n + 1 \/ k \in n + 2 .. Len(Steps)
            BY <1>1, <1>3, <2>1
        <3>2. Steps[k] \in {"Start", "settle1", "discard"} \cup FrameSteps
            BY <1>1, <2>3, <3>1, StepNames
        <3>. QED  BY <1>1, <3>2 DEF InOpen, FrameSteps
    <2>. QED  BY <1>4, <2>2, <2>3
<1>6. k = 1 \/ k \in 2 .. n
    BY <1>1, <1>5
<1>. HIDE DEF n
<1>. QED  BY <1>2, <1>4, <1>6 DEF Held, Keeps, n

\* What the next step has of the camera.
LEMMA HandleGoes ==
    ASSUME Inv, Running, todo # <<>>, todo' = Tail(todo), UNCHANGED <<args, err>>,
           camera' = (CASE Head(todo) \in {"OpenCamera", "Connect"} -> "open"
                        [] Head(todo) = "Start" -> "started"
                        [] OTHER -> camera),
           deferred' = (CASE Head(todo) \in {"SetExposure", "Connect"} -> <<"Close">>
                          [] Head(todo) = "Start" -> Append(deferred, "Stop")
                          [] OTHER -> deferred)
    PROVE  Handle' /\ InHand'
<1>. DEFINE n == Len(OpenSteps)
            step == Head(todo)
<1>0. PICK k : k = Position
    OBVIOUS
<1>1. /\ cmd \in {"list", "info", "snap", "regs"} /\ frames \in Nat
      /\ Len(Steps) \in Nat /\ k \in 1 .. Len(Steps) /\ step = Steps[k]
      /\ Len(Steps) - Len(Tail(todo)) + 1 = k + 1
    BY <1>0, PositionFits DEF Running
<1>2. Held(k)
    BY <1>0 DEF Inv, Handle, Running
<1>3. /\ n \in Nat /\ n >= 2 /\ OpenSteps[1] = "OpenCamera"
      /\ \A i \in 2 .. n : OpenSteps[i] \in InOpen /\ (OpenSteps[i] = "SetExposure" <=> i = n)
    BY OpenNames
<1>4. /\ step \in {"OpenCamera", "Connect"} => camera' = "open"
      /\ step = "Start" => camera' = "started" /\ deferred' = Append(deferred, "Stop")
      /\ step \notin {"OpenCamera", "Connect", "Start"} => camera' = camera
      /\ step \in {"SetExposure", "Connect"} => deferred' = <<"Close">>
      /\ step \notin {"SetExposure", "Connect", "Start"} => deferred' = deferred
    BY Zenon
<1>5. Steps' = Steps /\ OpenSteps' = OpenSteps /\ cmd' = cmd
    BY DEF args, Steps, OpenSteps
<1>6. Position' = k + 1
    BY <1>1, <1>5 DEF Position
<1>. HIDE DEF step
<1>7. Held(k + 1)' /\ InHand'
    <2>1. CASE cmd = "list"
        <3>1. step = "Attached"
            BY <1>1, <2>1, Places
        <3>2. Keeps("closed", <<>>)'
            BY <1>2, <1>4, <2>1, <3>1 DEF Held, Keeps
        <3>. QED  BY <1>5, <2>1, <3>2 DEF Held, InHand, Matched
    <2>2. CASE cmd = "regs"
        <3>1. \/ k = 1 /\ step = "Connect"
              \/ k > 1 /\ step \in {"argument", "ReadReg"}
            BY <1>1, <2>2, Places
        <3>2. k + 1 > 1 /\ k + 1 # 1
            BY <1>1
        <3>3. Keeps("open", <<"Close">>)'
            <4>1. CASE step = "Connect"
                BY <1>4, <4>1 DEF Keeps
            <4>2. CASE k > 1 /\ step \in {"argument", "ReadReg"}
                <5>1. Keeps("open", <<"Close">>)
                    BY <1>2, <2>2, <4>2 DEF Held
                <5>. QED  BY <1>4, <4>2, <5>1 DEF Keeps
            <4>. QED  BY <3>1, <4>1, <4>2
        <3>. QED  BY <1>5, <2>2, <3>2, <3>3 DEF Held, InHand, Matched
    <2>3. CASE cmd \in {"info", "snap"} /\ k \in 1 .. n
        <3>1. step = OpenSteps[k]
            BY <1>1, <2>3, StepNames
        <3>2. k + 1 # 1 /\ ~(k + 1 > n + 1)
            BY <1>3, <2>3
        <3>3. CASE k = n
            <4>1. step = "SetExposure" /\ k \in 2 .. n
                BY <1>3, <3>1, <3>3
            <4>2. Keeps("open", <<>>)
                BY <1>2, <2>3, <4>1 DEF Held
            <4>3. Keeps("open", <<"Close">>)'
                BY <1>4, <4>1, <4>2 DEF Keeps
            <4>4. k + 1 \notin 2 .. n
                BY <1>3, <3>3
            <4>5. k + 1 = n + 1 /\ k + 1 > n
                BY <1>3, <3>3
            <4>. QED  BY <1>5, <2>3, <3>2, <4>3, <4>4, <4>5 DEF Held, InHand, Matched
        <3>4. CASE k # n
            <4>1. Keeps("open", <<>>)'
                <5>1. CASE k = 1
                    <6>1. step = "OpenCamera" /\ Keeps("closed", <<>>)
                        BY <1>2, <1>3, <3>1, <5>1 DEF Held
                    <6>. QED  BY <1>4, <6>1 DEF Keeps
                <5>2. CASE k \in 2 .. n
                    <6>1. step \in InOpen \ {"SetExposure"} /\ Keeps("open", <<>>)
                        BY <1>2, <1>3, <2>3, <3>1, <3>4, <5>2 DEF Held
                    <6>. QED  BY <1>4, <6>1 DEF Keeps, InOpen
                <5>3. k = 1 \/ k \in 2 .. n
                    BY <1>3, <2>3
                <5>. QED  BY <5>1, <5>2, <5>3
            <4>2. k + 1 \in 2 .. n /\ ~(k + 1 > n) /\ k + 1 # n + 1
                BY <1>3, <2>3, <3>4
            <4>. QED  BY <1>5, <2>3, <3>2, <4>1, <4>2 DEF Held, InHand
        <3>. QED  BY <3>3, <3>4
    <2>4. CASE cmd = "info" /\ k \in n + 1 .. Len(Steps)
        <3>1. step \in {"Identity", "ReadReg", "FirmwareVersion"}
            BY <1>1, <2>4, StepNames
        <3>2. k > n /\ k + 1 > n /\ k + 1 # 1 /\ k + 1 \notin 2 .. n
            BY <1>1, <1>3, <2>4
        <3>3. Keeps("open", <<"Close">>)
            BY <1>2, <2>4, <3>2 DEF Held
        <3>4. Keeps("open", <<"Close">>)'
            BY <1>4, <3>1, <3>3 DEF Keeps
        <3>. QED  BY <1>5, <2>4, <3>2, <3>4 DEF Held, InHand, Matched
    <2>5. CASE cmd = "snap" /\ k \in n + 1 .. Len(Steps)
        <3>1. k + 1 > n + 1 /\ k + 1 # n + 1 /\ k + 1 # 1 /\ k + 1 \notin 2 .. n
            BY <1>1, <1>3, <2>5
        <3>2. Keeps("started", <<"Close", "Stop">>)'
            <4>1. CASE k = n + 1
                <5>1. step = "Start"
                    BY <1>1, <2>5, <4>1, StepNames
                <5>2. Keeps("open", <<"Close">>)
                    BY <1>2, <2>5, <4>1 DEF Held
                <5>3. Append(<<"Close">>, "Stop") = <<"Close", "Stop">>
                    BY BothDeferred
                <5>. QED  BY <1>4, <5>1, <5>2, <5>3 DEF Keeps
            <4>2. CASE k # n + 1
                <5>1. k \in n + 2 .. Len(Steps) /\ k > n + 1
                    BY <1>1, <1>3, <2>5, <4>2
                <5>2. step \in {"settle1", "discard"} \cup FrameSteps
                    BY <1>1, <2>5, <5>1, StepNames
                <5>3. Keeps("started", <<"Close", "Stop">>)
                    BY <1>2, <2>5, <5>1 DEF Held
                <5>. QED  BY <1>4, <5>2, <5>3 DEF Keeps, FrameSteps
            <4>. QED  BY <4>1, <4>2
        <3>. QED  BY <1>5, <2>5, <3>1, <3>2 DEF Held, InHand, Matched
    <2>6. k \in 1 .. n \/ k \in n + 1 .. Len(Steps)
        BY <1>1, <1>3
    <2>. QED  BY <1>1, <2>1, <2>2, <2>3, <2>4, <2>5, <2>6
<1>. QED  BY <1>6, <1>7 DEF Handle, Running

\* What there is of the camera, at any place.
LEMMA HandleTypes ==
    ASSUME cmd \in {"list", "info", "snap", "regs"}, NEW k \in Nat, k >= 1, Held(k)
    PROVE  InHand
<1>. DEFINE n == Len(OpenSteps)
<1>1. n \in Nat /\ n >= 2
    BY OpenNames
<1>2. k = 1 \/ k > 1
    OBVIOUS
<1>3. k = 1 \/ k \in 2 .. n \/ k = n + 1 \/ k > n + 1
    BY <1>1
<1>4. (k = n + 1 \/ k > n + 1) => k > n
    BY <1>1
<1>. HIDE DEF n
<1>. QED  BY <1>2, <1>3, <1>4 DEF Held, Matched, InHand, n

\* A step that does nothing to the camera.
LEMMA HandleGoesOn ==
    ASSUME Inv, Running, todo # <<>>, Head(todo) \in Captures \cup FrameSteps,
           todo' = Tail(todo), UNCHANGED <<args, err, camera, deferred>>
    PROVE  Handle'
<1>1. Head(todo) \notin {"OpenCamera", "Connect", "Start", "SetExposure"}
    BY DEF Captures, FrameSteps
<1>. QED  BY <1>1, HandleGoes

\* The camera, when it and the command stay as they are.
LEMMA HandleKept ==
    ASSUME Inv, UNCHANGED <<args, todo, err, camera, deferred>>
    PROVE  Handle'
<1>1. Position' = Position /\ OpenSteps' = OpenSteps
    BY DEF args, Steps, OpenSteps, Position
<1>2. \A k : Held(k)' <=> Held(k)
    BY <1>1 DEF Held, Keeps, args
<1>. QED  BY <1>1, <1>2 DEF Inv, Handle, Matched, Keeps

\* A command returns with its camera as it is.
LEMMA HandleReturned ==
    ASSUME Inv, Running, todo = <<>> \/ Head(todo) \notin InOpen,
           err' # "none", UNCHANGED <<camera, deferred>>
    PROVE  Handle'
<1>1. Matched
    BY HandleReturns
<1>. QED  BY <1>1 DEF Handle, Matched, Keeps

\* A step that leaves nothing behind.
LEMMA StepInv ==
    ASSUME Inv, Step
    PROVE  Inv'
<1>1. /\ Running /\ todo # <<>> /\ todo' = Tail(todo)
      /\ Head(todo) \notin Captures \cup {"Create", "header", "pixels"}
      /\ UNCHANGED <<args, err, px, files, lost, clock, exit>>
    BY DEF Step, Goes, FileSteps
<1>2. Head(todo) \notin FrameSteps
    BY <1>1 DEF FrameSteps, Captures
<1>3. Placed' /\ InOrder'
    BY <1>1, <1>2, QuietGoes
<1>4. window = "none" /\ wait = Idle
    BY <1>1, NoWindow
<1>5. Handle' /\ InHand'
    BY <1>1, HandleGoes DEF Step
<1>6. Types'
    BY <1>1, <1>5 DEF Inv, Types, PmsnapTypeOK, Running, args, clock, InHand, Matched, Keeps
<1>7. WindowFits' /\ Exits'
    BY <1>1, <1>4 DEF Inv, WindowFits, Exits, Running, clock
<1>. QED  BY <1>3, <1>5, <1>6, <1>7 DEF Inv

\* A step fails, and the command with it.
LEMMA StepFailsInv ==
    ASSUME Inv, StepFails \/ OpenStepFails
    PROVE  Inv'
<1>1. /\ Running /\ todo # <<>> /\ todo' = <<>> /\ err' = "error"
      /\ Head(todo) \notin Captures
      /\ UNCHANGED <<args, deferred, px, files, lost, clock, exit>>
    BY DEF StepFails, OpenStepFails, Return, InOpen, Captures
<1>2. Placed' /\ InOrder'
    BY <1>1, ErrorKept
<1>3. window = "none" /\ wait = Idle
    BY <1>1, NoWindow
<1>4. Handle' /\ camera' \in {"closed", "open", "started"}
    <2>1. CASE StepFails
        <3>1. Handle'
            BY <1>1, <2>1, HandleReturned DEF StepFails
        <3>. QED  BY <2>1, <3>1 DEF StepFails, Inv, Types, PmsnapTypeOK
    <2>2. CASE OpenStepFails
        <3>1. deferred = <<>> /\ camera' = "closed"
            BY <1>1, <2>2, HandleInOpen DEF OpenStepFails
        <3>. QED  BY <1>1, <3>1 DEF Handle, Matched, Keeps
    <2>. QED  BY <2>1, <2>2
<1>5. Types'
    BY <1>1, <1>4 DEF Inv, Types, PmsnapTypeOK, args, clock
<1>6. WindowFits' /\ Exits'
    BY <1>1, <1>3 DEF Inv, WindowFits, Exits, Running, clock
<1>. QED  BY <1>2, <1>4, <1>5, <1>6 DEF Inv

\* At a step that writes a file.
LEMMA AtAFile ==
    ASSUME Inv, Running, todo # <<>>, Head(todo) \in FrameSteps
    PROVE  /\ cmd = "snap" /\ frames \in Nat
           /\ \E k \in 1 .. Len(Steps), j \in 0 .. frames - 1, r \in 0 .. 3 :
                  /\ Tail(todo) = SubSeq(Steps, k + 1, Len(Steps))
                  /\ k = First + 1 + 4 * j + r
                  /\ Written(j, r)
                  /\ Head(todo) = Frame[r + 1]
<1>1. frames \in Nat
    BY Constants DEF Inv, Types
<1>. QED  BY <1>1, AtAStep

\* The steps of a frame, by name.
LEMMA FrameNames ==
    ASSUME NEW r \in 0 .. 3
    PROVE  /\ Frame[r + 1] = "frame" <=> r = 0
           /\ Frame[r + 1] = "Create" <=> r = 1
           /\ Frame[r + 1] = "header" <=> r = 2
           /\ Frame[r + 1] = "pixels" <=> r = 3
<1>1. r \in {0, 1, 2, 3}
    OBVIOUS
<1>2. 0 + 1 = 1 /\ 1 + 1 = 2 /\ 2 + 1 = 3 /\ 3 + 1 = 4
    OBVIOUS
<1>. QED  BY <1>1, <1>2 DEF Frame

\* A file is created, its header and its pixels are written.
LEMMA FileInv ==
    ASSUME Inv, Create \/ Header \/ Pixels
    PROVE  Inv'
<1>1. /\ Running /\ todo # <<>> /\ todo' = Tail(todo)
      /\ Head(todo) \in {"Create", "header", "pixels"}
      /\ UNCHANGED <<args, err, camera, deferred, px, clock, exit>>
    BY DEF Create, Header, Pixels, Doing, Goes
<1>2. Head(todo) \in FrameSteps /\ Head(todo) \notin Captures
    BY <1>1 DEF FrameSteps, Captures
<1>3. cmd = "snap" /\ frames \in Nat
    BY <1>1, <1>2, AtAFile
<1>4. PICK k \in 1 .. Len(Steps), j \in 0 .. frames - 1, r \in 0 .. 3 :
          /\ Tail(todo) = SubSeq(Steps, k + 1, Len(Steps))
          /\ k = First + 1 + 4 * j + r
          /\ Written(j, r)
          /\ Head(todo) = Frame[r + 1]
    BY <1>1, <1>2, AtAFile
<1>5. files \in [1 .. frames -> {"old", "partial", "whole"}] /\ lost \in BOOLEAN
    BY DEF Inv, Types, PmsnapTypeOK
<1>6. r # 0
    BY <1>1, <1>4, FrameNames
<1>7. px = j + 1 /\ px \in 1 .. frames
    BY <1>3, <1>4, <1>6 DEF Written
<1>8. /\ IF r = 3 THEN Written(j + 1, 0)' ELSE Written(j, r + 1)'
      /\ files' \in [1 .. frames -> {"old", "partial", "whole"}] /\ lost' \in BOOLEAN
    <2>1. CASE Create
        <3>1. r = 1 /\ files' = [files EXCEPT ![px] = "partial"] /\ UNCHANGED lost
            BY <1>4, <2>1, FrameNames DEF Create, Doing, File
        <3>2. Written(j, 2)'
            BY <1>1, <1>3, <1>4, <1>5, <1>7, <3>1 DEF Written, args
        <3>3. files' \in [1 .. frames -> {"old", "partial", "whole"}]
            BY <1>5, <1>7, <3>1
        <3>4. r + 1 = 2 /\ r # 3
            BY <3>1
        <3>. QED  BY <1>5, <3>1, <3>2, <3>3, <3>4
    <2>2. CASE Header
        <3>1. r = 2 /\ UNCHANGED <<files, lost>>
            BY <1>4, <2>2, FrameNames DEF Header, Doing
        <3>2. Written(j, 3)'
            BY <1>1, <1>3, <1>4, <1>5, <1>7, <3>1 DEF Written, args
        <3>3. r + 1 = 3 /\ r # 3
            BY <3>1
        <3>. QED  BY <1>5, <3>1, <3>2, <3>3
    <2>3. CASE Pixels
        <3>1. /\ r = 3
              /\ \/ files' = [files EXCEPT ![px] = "whole"] /\ UNCHANGED lost
                 \/ files' = [files EXCEPT ![px] = "partial"] /\ lost' = TRUE
            BY <1>4, <2>3, FrameNames DEF Pixels, Doing, File
        <3>2. Written(j + 1, 0)'
            <4>1. \A i \in 1 .. j + 1 : i = px \/ i \in 1 .. j
                BY <1>7
            <4>2. \A i \in 1 .. j : lost \/ files[i] = "whole"
                BY <1>4 DEF Written
            <4>3. \A i \in j + 2 .. frames : files[i] = "old"
                BY <1>4 DEF Written
            <4>4. \A i \in 1 .. j + 1 : lost' \/ files'[i] = "whole"
                BY <1>3, <1>5, <1>7, <3>1, <4>1, <4>2
            <4>5. \A i \in (j + 1) + 1 .. frames : files'[i] = "old"
                BY <1>3, <1>5, <1>7, <3>1, <4>3
            <4>. QED  BY <1>1, <1>7, <4>4, <4>5 DEF Written, args
        <3>3. files' \in [1 .. frames -> {"old", "partial", "whole"}] /\ lost' \in BOOLEAN
            BY <1>5, <1>7, <3>1
        <3>. QED  BY <3>1, <3>2, <3>3
    <2>. QED  BY <2>1, <2>2, <2>3
<1>9. Placed' /\ InOrder'
    BY <1>1, <1>3, <1>4, <1>8, FrameGoes
<1>10. window = "none" /\ wait = Idle
    BY <1>1, <1>2, NoWindow
<1>11. Types'
    BY <1>1, <1>8 DEF Inv, Types, PmsnapTypeOK, Running, args, clock
<1>12. WindowFits' /\ Exits'
    BY <1>1, <1>10 DEF Inv, WindowFits, Exits, Running, clock
<1>13. Handle'
    BY <1>1, <1>2, HandleGoesOn
<1>. QED  BY <1>9, <1>11, <1>12, <1>13 DEF Inv

\* Every step has been taken, and every file written.
LEMMA DoneInv ==
    ASSUME Inv, Done
    PROVE  Inv'
<1>1. /\ Running /\ todo = <<>> /\ todo' = <<>> /\ err' = "nil"
      /\ UNCHANGED <<args, camera, deferred, px, files, lost, clock, exit>>
    BY DEF Done, Return
<1>2. window = "none" /\ wait = Idle
    BY <1>1, NoWindow
<1>3. cmd \in {"list", "info", "snap", "regs"} /\ frames \in Nat
    BY Constants DEF Inv, Types
<1>4. ASSUME cmd = "snap" PROVE AllWhole
    <2>1. PICK k \in 1 .. Len(Steps) + 1 :
              /\ todo = SubSeq(Steps, k, Len(Steps))
              /\ IF cmd = "snap" /\ k > First THEN Taken(k) ELSE AllOld
        BY <1>1 DEF Inv, Placed, Running
    <2>2. First \in Nat /\ Len(Steps) = First + 4 * frames
        BY <1>3, <1>4, SnapSteps
    <2>3. k = First + 4 * frames + 1
        BY <1>1, <1>3, <2>1, <2>2, StepsRest
    <2>4. PICK j \in 0 .. frames, r \in 0 .. 3 :
              k = First + 1 + 4 * j + r /\ (r # 0 => j < frames) /\ Written(j, r)
        BY <1>3, <1>4, <2>1, <2>2, <2>3 DEF Taken
    <2>5. j = frames
        BY <1>3, <2>2, <2>3, <2>4
    <2>. QED  BY <2>4, <2>5 DEF Written, AllWhole
<1>5. Placed' /\ InOrder'
    BY <1>1, <1>4 DEF Inv, Placed, InOrder, AllWhole, args
<1>6. Types'
    BY <1>1 DEF Inv, Types, PmsnapTypeOK, args, clock
<1>7. WindowFits' /\ Exits'
    BY <1>1, <1>2 DEF Inv, WindowFits, Exits, Running, clock
<1>8. Handle'
    BY <1>1, HandleReturned
<1>. QED  BY <1>5, <1>6, <1>7, <1>8 DEF Inv

\* What is deferred, and the end of the process.
LEMMA EndInv ==
    ASSUME Inv, DeferredStop \/ DeferredClose \/ Exit
    PROVE  Inv'
<1>1. /\ err # "none"
      /\ UNCHANGED <<args, todo, err, px, files, lost, clock>>
    BY DEF DeferredStop, DeferredClose, Deferred, Exit
<1>2. window = "none" /\ wait = Idle
    BY <1>1, NoWindow DEF Running
<1>3. Placed' /\ InOrder'
    BY <1>1, CommandKept
<1>4. Matched
    BY <1>1 DEF Inv, Handle
<1>5. Matched' /\ exit' \in {"none", "0", "1", "2"} /\ Exits'
    <2>1. CASE DeferredStop \/ DeferredClose
        <3>1. /\ deferred # <<>> /\ UNCHANGED exit
              /\ deferred' = SubSeq(deferred, 1, Len(deferred) - 1)
            BY <2>1 DEF DeferredStop, DeferredClose, Deferred
        <3>2. exit = "none"
            BY <3>1 DEF Inv, Exits, Types, PmsnapTypeOK
        <3>3. CASE deferred = <<"Close">>
            <4>1. deferred[Len(deferred)] = "Close" /\ SubSeq(deferred, 1, Len(deferred) - 1) = <<>>
                <5>1. Len(<<"Close">>) = 1 /\ <<"Close">>[1] = "Close"
                    OBVIOUS
                <5>2. SubSeq(<<"Close">>, 1, 0) = <<>>
                    OBVIOUS
                <5>. QED  BY <3>3, <5>1, <5>2
            <4>2. camera' = "closed" /\ deferred' = <<>>
                BY <2>1, <3>1, <4>1 DEF DeferredStop, DeferredClose, Deferred
            <4>. QED  BY <3>1, <3>2, <4>2 DEF Matched, Keeps, Exits
        <3>4. CASE deferred = <<"Close", "Stop">>
            <4>1. /\ deferred[Len(deferred)] = "Stop"
                  /\ SubSeq(deferred, 1, Len(deferred) - 1) = <<"Close">>
                <5>1. Len(<<"Close", "Stop">>) = 2 /\ <<"Close", "Stop">>[2] = "Stop"
                    OBVIOUS
                <5>2. SubSeq(<<"Close", "Stop">>, 1, 1) = <<"Close">>
                    BY BothDeferred
                <5>. QED  BY <3>4, <5>1, <5>2
            <4>2. camera' = "open" /\ deferred' = <<"Close">>
                BY <2>1, <3>1, <4>1 DEF DeferredStop, DeferredClose, Deferred
            <4>. QED  BY <3>1, <3>2, <4>2 DEF Matched, Keeps, Exits
        <3>. QED  BY <1>4, <3>1, <3>3, <3>4 DEF Matched, Keeps
    <2>2. CASE Exit
        <3>1. exit' = Status /\ deferred = <<>> /\ UNCHANGED <<camera, deferred>>
            BY <2>2 DEF Exit
        <3>2. err \in {"nil", "error", "panic"}
            BY <1>1 DEF Inv, Types, PmsnapTypeOK
        <3>3. /\ err = "nil" => Status = "0"
              /\ err = "error" => Status = "1"
              /\ err = "panic" => Status = "2"
            BY DEF Status
        <3>4. Status \in {"0", "1", "2"} /\ (Status = "0" => err = "nil")
            BY <3>2, <3>3
        <3>. QED  BY <1>1, <1>4, <3>1, <3>4 DEF Matched, Keeps, Exits
    <2>. QED  BY <2>1, <2>2
<1>6. Types'
    BY <1>1, <1>5 DEF Inv, Types, PmsnapTypeOK, args, clock, Matched, Keeps
<1>7. WindowFits'
    BY <1>1, <1>2 DEF WindowFits, clock
<1>8. Handle'
    BY <1>1, <1>5 DEF Handle
<1>. QED  BY <1>3, <1>5, <1>6, <1>7, <1>8 DEF Inv

\* A window is opened.
LEMMA OpenFits ==
    ASSUME NEW w \in Settling \cup Reading, Open(w)
    PROVE  /\ window' = w /\ wait' = Idle /\ UNCHANGED late
           /\ window' \in Settling \cup Reading \cup {"none"}
           /\ left' \in -(Wrap * Ms) .. Budget
           /\ got' \in 0 .. Chunks /\ wait' \in Forever .. (Wrap - 1) * Ms
<1>1. /\ window' = w /\ left' = Budget /\ wait' = Idle /\ UNCHANGED late
      /\ got' \in IF w \in Reading THEN 0 .. Chunks ELSE {0}
    BY DEF Open
<1>2. Wrap * Ms \in Nat /\ (Wrap - 1) * Ms \in Nat
    BY Constants
<1>3. left' \in -(Wrap * Ms) .. Budget /\ wait' \in Forever .. (Wrap - 1) * Ms
    BY <1>1, <1>2, Constants DEF Forever, Idle
<1>4. got' \in 0 .. Chunks
    BY <1>1, Constants
<1>. QED  BY <1>1, <1>3, <1>4

\* A window is closed.
LEMMA ClosedFits ==
    ASSUME Closed
    PROVE  /\ window' \in Settling \cup Reading \cup {"none"}
           /\ left' \in -(Wrap * Ms) .. Budget
           /\ got' \in 0 .. Chunks /\ wait' \in Forever .. (Wrap - 1) * Ms
           /\ UNCHANGED late
           /\ WindowFits'
<1>1. window' = "none" /\ left' = 0 /\ got' = 0 /\ wait' = Idle /\ UNCHANGED late
    BY DEF Closed
<1>2. Wrap * Ms \in Nat /\ (Wrap - 1) * Ms \in Nat
    BY Constants
<1>. QED  BY <1>1, <1>2, Constants DEF Forever, Idle, WindowFits

\* A window opens at a step, the first of it or another.
LEMMA OpenInv ==
    ASSUME Inv, Running, todo # <<>>, Head(todo) \in Captures,
           NEW w \in Settling \cup Reading, Open(w),
           Head(todo) = "settle1" => w \in Settling,
           UNCHANGED <<todo, err>>, UNCHANGED <<args, camera, deferred, px, files, lost, exit>>
    PROVE  Inv'
<1>1. Placed' /\ InOrder' /\ Handle'
    BY CommandKept, HandleKept
<1>2. Types'
    BY OpenFits DEF Inv, Types, PmsnapTypeOK, args
<1>3. WindowFits' /\ Exits'
    BY OpenFits DEF Inv, WindowFits, Exits, Running
<1>. QED  BY <1>1, <1>2, <1>3 DEF Inv

\* The window of a step opens.
LEMMA WindowOpensInv ==
    ASSUME Inv, WindowOpens
    PROVE  Inv'
<1>. DEFINE w == IF Head(todo) = "settle1" THEN "scan" ELSE "read"
<1>1. /\ Running /\ todo # <<>> /\ Head(todo) \in Captures
      /\ Open(w) /\ UNCHANGED <<todo, err>>
      /\ UNCHANGED <<args, camera, deferred, px, files, lost, exit>>
    BY DEF WindowOpens
<1>2. w \in Settling \cup Reading /\ (Head(todo) = "settle1" => w \in Settling)
    BY DEF Settling, Reading
<1>. HIDE DEF w
<1>. QED  BY <1>1, <1>2, OpenInv

\* A read in progress: the command waits in its window.
LEMMA Waiting ==
    ASSUME Inv, wait # Idle \/ window # "none"
    PROVE  /\ Running /\ todo # <<>> /\ Head(todo) \in Captures
           /\ window \in Settling \cup Reading
           /\ Head(todo) = "settle1" => window \in Settling
BY DEF Inv, WindowFits, Types, PmsnapTypeOK

\* The step's call fails, or panics.
LEMMA FailsInv ==
    ASSUME Inv, Fails \/ Panic, Running, todo # <<>>, Head(todo) \in Captures,
           UNCHANGED <<args, camera, deferred, px, files, lost, exit>>
    PROVE  Inv'
<1>1. Closed /\ err' \in {"error", "panic"} /\ todo' = <<>>
    BY DEF Fails, Panic, Return
<1>2. Types'
    BY <1>1, ClosedFits DEF Inv, Types, PmsnapTypeOK, args
<1>3. Exits'
    BY <1>1 DEF Inv, Exits, Running
<1>4. Handle'
    <2>1. Head(todo) \notin InOpen
        BY DEF Captures, InOpen
    <2>. QED  BY <1>1, <2>1, HandleReturned
<1>. QED  BY <1>1, <1>2, <1>3, <1>4, ClosedFits, ErrorKept DEF Inv

\* Another window opens for the step, or its call fails.
LEMMA MisalignedInv ==
    ASSUME Inv, Misaligned, window # "none",
           UNCHANGED <<args, camera, deferred, px, files, lost, exit>>
    PROVE  Inv'
<1>1. /\ Running /\ todo # <<>> /\ Head(todo) \in Captures
      /\ window \in Settling \cup Reading
    BY Waiting
<1>2. CASE Fails
    BY <1>1, <1>2, FailsInv
<1>3. CASE ~Fails
    <2>1. PICK w \in {"scan", "rescan"} : Open(w) /\ UNCHANGED <<todo, err>>
        BY <1>3 DEF Misaligned, Fails
    <2>2. w \in Settling \cup Reading /\ w \in Settling
        BY <2>1 DEF Settling
    <2>. QED  BY <1>1, <2>1, <2>2, OpenInv
<1>. QED  BY <1>2, <1>3

\* A boundary is found: settling is over, or the frame is read once more.
LEMMA BoundaryInv ==
    ASSUME Inv, Boundary
    PROVE  Inv'
<1>1. window \in Settling /\ UNCHANGED <<args, camera, deferred, px, files, lost, exit>>
    BY DEF Boundary
<1>2. Running /\ todo # <<>> /\ Head(todo) \in Captures
    BY <1>1, Waiting DEF Settling
<1>3. CASE Head(todo) = "settle1" /\ Closed /\ Goes
    <2>1. todo' = Tail(todo) /\ UNCHANGED err
        BY <1>3 DEF Goes
    <2>2. Head(todo) \notin FrameSteps
        BY <1>3 DEF FrameSteps
    <2>3. Placed' /\ InOrder'
        BY <1>1, <1>2, <2>1, <2>2, QuietGoes
    <2>4. Handle'
        BY <1>1, <1>2, <2>1, HandleGoesOn
    <2>5. Types'
        BY <1>1, <1>2, <1>3, <2>1, ClosedFits DEF Inv, Types, PmsnapTypeOK, Running, args
    <2>6. Exits'
        BY <1>1, <2>1 DEF Inv, Exits
    <2>. QED  BY <1>3, <2>3, <2>4, <2>5, <2>6, ClosedFits DEF Inv
<1>4. CASE Head(todo) # "settle1" /\ Open("retry") /\ UNCHANGED <<todo, err>>
    <2>1. "retry" \in Settling \cup Reading
        BY DEF Reading
    <2>. QED  BY <1>1, <1>2, <1>4, <2>1, OpenInv
<1>. QED  BY <1>3, <1>4 DEF Boundary

\* A read begins, with the timeout its transport makes of what is left.
LEMMA ReadBeginsInv ==
    ASSUME Inv, ReadBegins
    PROVE  Inv'
<1>1. /\ window # "none" /\ (window \in Reading => got < Chunks) /\ wait' = Timeout(left)
      /\ late' = (late \/ left < Ms)
      /\ UNCHANGED <<args, todo, err, camera, deferred, px, files, lost, window, left, got,
                     exit>>
    BY DEF ReadBegins
<1>2. Placed' /\ InOrder'
    BY <1>1, CommandKept
<1>3. left \in Int /\ left <= Budget
    <2>1. left \in -(Wrap * Ms) .. Budget /\ Wrap * Ms \in Nat
        BY Constants DEF Inv, Types, PmsnapTypeOK
    <2>. QED  BY <2>1, Constants
<1>4. wait' \in Forever .. (Wrap - 1) * Ms
    BY <1>1, <1>3, TimeoutFits
<1>5. late' \in BOOLEAN
    BY <1>1 DEF Inv, Types, PmsnapTypeOK
<1>6. Types'
    BY <1>1, <1>4, <1>5 DEF Inv, Types, PmsnapTypeOK, args
<1>7. late' \/ (0 <= wait' /\ wait' <= left')
    <2>1. left < Ms => late'
        BY <1>1
    <2>2. left >= Ms => 0 <= wait' /\ wait' <= left'
        <3>1. left >= Ms => 0 <= Timeout(left) /\ Timeout(left) <= left
            BY <1>3, TimeoutFits
        <3>. QED  BY <1>1, <3>1
    <2>. QED  BY <1>3, <2>1, <2>2, Constants
<1>8. WindowFits' /\ Exits'
    BY <1>1, <1>7 DEF Inv, WindowFits, Exits, Running
<1>9. Handle'
    BY <1>1, HandleKept
<1>. QED  BY <1>2, <1>6, <1>8, <1>9 DEF Inv

\* Bytes arrive: a boundary may be among them, or a chunk of the frame.
LEMMA ArrivesInv ==
    ASSUME Inv, wait # Idle, Arrives,
           UNCHANGED <<args, camera, deferred, px, files, lost, exit>>
    PROVE  Inv'
<1>1. /\ Running /\ todo # <<>> /\ Head(todo) \in Captures /\ window # "none"
      /\ window \in Settling \cup Reading
    BY Waiting DEF Inv, WindowFits
<1>2. CASE Misaligned
    BY <1>1, <1>2, MisalignedInv
<1>3. CASE /\ got' = IF window \in Settling THEN 1 ELSE got + 1
           /\ wait' = Idle
           /\ UNCHANGED <<todo, err, window, left, late>>
    <2>1. Placed' /\ InOrder' /\ Handle'
        BY <1>3, CommandKept, HandleKept
    <2>2. got' \in 0 .. Chunks /\ wait' \in Forever .. (Wrap - 1) * Ms
        <3>1. got \in 0 .. Chunks /\ (window \in Reading => got < Chunks)
            BY DEF Inv, WindowFits, Types, PmsnapTypeOK
        <3>2. (Wrap - 1) * Ms \in Nat
            BY Constants
        <3>3. wait' \in Forever .. (Wrap - 1) * Ms
            BY <1>3, <3>2 DEF Forever, Idle
        <3>. QED  BY <1>1, <1>3, <3>1, <3>3, Constants
    <2>3. Types'
        BY <1>3, <2>2 DEF Inv, Types, PmsnapTypeOK, args
    <2>4. WindowFits' /\ Exits'
        BY <1>1, <1>3 DEF Inv, WindowFits, Exits, Running
    <2>. QED  BY <2>1, <2>3, <2>4 DEF Inv
<1>. QED  BY <1>2, <1>3 DEF Arrives

\* All of a frame has been read.
LEMMA FrameReadInv ==
    ASSUME Inv, FrameRead
    PROVE  Inv'
<1>1. window \in Reading /\ UNCHANGED <<args, camera, deferred, files, lost, exit>>
    BY DEF FrameRead
<1>2. /\ Running /\ todo # <<>> /\ Head(todo) \in {"discard", "frame"} /\ window # "none"
      /\ Head(todo) \in Captures
    BY <1>1, Waiting DEF Reading, Settling, Captures
<1>3. CASE Misaligned /\ UNCHANGED px
    BY <1>1, <1>2, <1>3, MisalignedInv
<1>4. CASE /\ Closed /\ Goes
           /\ px' = IF Head(todo) = "frame" THEN px + 1 ELSE px
    <2>1. todo' = Tail(todo) /\ UNCHANGED err
        BY <1>4 DEF Goes
    <2>2. Placed' /\ InOrder' /\ px' \in 0 .. frames
        <3>1. CASE Head(todo) = "discard"
            <4>1. UNCHANGED px /\ px \in 0 .. frames
                BY <1>4, <3>1 DEF Inv, Types, PmsnapTypeOK
            <4>2. Head(todo) \notin FrameSteps
                BY <3>1 DEF FrameSteps
            <4>. QED  BY <1>1, <1>2, <2>1, <4>1, <4>2, QuietGoes
        <3>2. CASE Head(todo) = "frame"
            <4>1. Head(todo) \in FrameSteps
                BY <3>2 DEF FrameSteps
            <4>2. cmd = "snap" /\ frames \in Nat
                BY <1>2, <4>1, AtAFile
            <4>3. PICK k \in 1 .. Len(Steps), j \in 0 .. frames - 1, r \in 0 .. 3 :
                      /\ Tail(todo) = SubSeq(Steps, k + 1, Len(Steps))
                      /\ k = First + 1 + 4 * j + r
                      /\ Written(j, r)
                      /\ Head(todo) = Frame[r + 1]
                BY <1>2, <4>1, AtAFile
            <4>4. r = 0
                BY <3>2, <4>3, FrameNames
            <4>5. px = j /\ px' = j + 1
                BY <1>4, <3>2, <4>3, <4>4 DEF Written
            <4>6. Written(j, 1)'
                BY <1>1, <4>2, <4>3, <4>4, <4>5 DEF Written, args
            <4>7. Placed' /\ InOrder'
                <5>1. r # 3 /\ r + 1 = 1
                    BY <4>4
                <5>. QED  BY <1>1, <1>2, <2>1, <4>2, <4>3, <4>6, <5>1, FrameGoes
            <4>. QED  BY <4>2, <4>5, <4>7
        <3>. QED  BY <1>2, <3>1, <3>2
    <2>3. Types'
        BY <1>1, <1>2, <1>4, <2>1, <2>2, ClosedFits DEF Inv, Types, PmsnapTypeOK, Running, args
    <2>4. Exits' /\ Handle'
        BY <1>1, <1>2, <2>1, HandleGoesOn DEF Inv, Exits
    <2>. QED  BY <1>4, <2>2, <2>3, <2>4, ClosedFits DEF Inv
<1>. QED  BY <1>3, <1>4 DEF FrameRead

\* Time passes.
LEMMA TickInv ==
    ASSUME Inv, Tick
    PROVE  Inv'
<1>1. /\ window # "none" /\ wait # 0 /\ left > -(Wrap * Ms) /\ left' = left - 1
      /\ wait' = IF wait > 0 THEN wait - 1 ELSE wait
      /\ UNCHANGED <<args, todo, err, camera, deferred, px, files, lost, window, got, late,
                     exit>>
    BY DEF Tick
<1>2. Placed' /\ InOrder'
    BY <1>1, CommandKept
<1>3. /\ left \in -(Wrap * Ms) .. Budget /\ wait \in Forever .. (Wrap - 1) * Ms
      /\ Wrap * Ms \in Nat /\ (Wrap - 1) * Ms \in Nat
    BY Constants DEF Inv, Types, PmsnapTypeOK
<1>4. left' \in -(Wrap * Ms) .. Budget /\ wait' \in Forever .. (Wrap - 1) * Ms
    BY <1>1, <1>3, Constants DEF Forever
<1>5. Types'
    BY <1>1, <1>4 DEF Inv, Types, PmsnapTypeOK, args
<1>6. WindowFits' /\ Exits'
    <2>1. wait' # Idle => wait # Idle
        BY <1>1, <1>3 DEF Idle
    <2>2. (0 <= wait /\ wait <= left) => (0 <= wait' /\ wait' <= left')
        BY <1>1, <1>3, Constants DEF Forever
    <2>. QED  BY <1>1, <2>1, <2>2 DEF Inv, WindowFits, Exits, Running
<1>7. Handle'
    BY <1>1, HandleKept
<1>. QED  BY <1>2, <1>5, <1>6, <1>7 DEF Inv

\* The command has just begun.
LEMMA InitInv ==
    ASSUME Init
    PROVE  Inv
<1>1. cmd \in {"list", "info", "snap", "regs"} /\ frames \in 0 .. MaxFrames /\ frames \in Nat
    BY Constants DEF Init
<1>2. Types
    <2>1. Wrap * Ms \in Nat /\ (Wrap - 1) * Ms \in Nat
        BY Constants
    <2>2. /\ 0 \in 0 .. frames /\ 0 \in -(Wrap * Ms) .. Budget /\ 0 \in 0 .. Chunks
          /\ Idle \in Forever .. (Wrap - 1) * Ms
        BY <1>1, <2>1, Constants DEF Idle, Forever
    <2>3. files \in [1 .. frames -> {"old", "partial", "whole"}]
        BY DEF Init
    <2>. QED  BY <1>1, <2>2, <2>3 DEF Init, Types, PmsnapTypeOK
<1>3. Placed
    <2>1. Len(Steps) \in Nat /\ Steps = SubSeq(Steps, 1, Len(Steps))
        <3>1. CASE cmd = "snap"
            <4>1. First + 4 * frames \in Nat
                BY <1>1, <3>1, SnapSteps
            <4>. QED  BY <1>1, <3>1, <4>1, SnapSteps, SubSeqFull
        <3>2. CASE cmd # "snap"
            BY <1>1, <3>2, QuietSteps, SubSeqFull
        <3>. QED  BY <3>1, <3>2
    <2>2. 1 \in 1 .. Len(Steps) + 1
        BY <2>1
    <2>3. AllOld
        BY DEF Init, AllOld
    <2>4. cmd = "snap" => ~(1 > First)
        <3>1. Len(OpenSteps) \in Nat
            BY OpenStepsFit
        <3>. QED  BY <3>1 DEF First
    <2>. QED  BY <2>1, <2>2, <2>3, <2>4 DEF Init, Placed
<1>4. InOrder /\ WindowFits /\ Exits
    BY DEF Init, InOrder, WindowFits, Exits
<1>5. Handle
    <2>1. Len(Steps) \in Nat
        BY <1>1, StepNames
    <2>2. Position = 1
        BY <2>1 DEF Init, Position
    <2>3. Len(OpenSteps) \in Nat /\ Len(OpenSteps) >= 2
        BY OpenNames
    <2>4. Held(1)
        BY <1>1, <2>3 DEF Init, Held, Keeps
    <2>. QED  BY <2>2, <2>4 DEF Init, Handle
<1>. QED  BY <1>2, <1>3, <1>4, <1>5 DEF Inv

\* The actions, one after the other.
LEMMA NextInv ==
    ASSUME Inv, [Next]_vars
    PROVE  Inv'
<1>1. ASSUME Step PROVE Inv'
    BY <1>1, StepInv
<1>2. ASSUME StepFails \/ OpenStepFails PROVE Inv'
    BY <1>2, StepFailsInv
<1>3. ASSUME Create \/ Header \/ Pixels PROVE Inv'
    BY <1>3, FileInv
<1>4. ASSUME Done PROVE Inv'
    BY <1>4, DoneInv
<1>5. ASSUME DeferredStop \/ DeferredClose \/ Exit PROVE Inv'
    BY <1>5, EndInv
<1>6. ASSUME WindowOpens PROVE Inv'
    BY <1>6, WindowOpensInv
<1>7. ASSUME ReadBegins PROVE Inv'
    BY <1>7, ReadBeginsInv
<1>8. ASSUME FrameRead PROVE Inv'
    BY <1>8, FrameReadInv
<1>9. ASSUME ReadReturns PROVE Inv'
    <2>1. /\ wait # Idle /\ UNCHANGED <<args, camera, deferred, px, files, lost, exit>>
          /\ Arrives \/ Misaligned \/ Fails
        BY <1>9 DEF ReadReturns
    <2>2. Running /\ todo # <<>> /\ Head(todo) \in Captures /\ window # "none"
        BY <2>1, Waiting DEF Inv, WindowFits
    <2>. QED  BY <2>1, <2>2, ArrivesInv, MisalignedInv, FailsInv
<1>10. ASSUME ReadTimesOut PROVE Inv'
    <2>1. /\ wait = 0 /\ UNCHANGED <<args, camera, deferred, px, files, lost, exit>>
          /\ Arrives \/ Fails \/ Panic
        BY <1>10 DEF ReadTimesOut
    <2>2. wait # Idle /\ Running /\ todo # <<>> /\ Head(todo) \in Captures
        BY <2>1, Waiting DEF Idle
    <2>. QED  BY <2>1, <2>2, ArrivesInv, FailsInv
<1>11. ASSUME Tick PROVE Inv'
    BY <1>11, TickInv
<1>12. ASSUME Boundary PROVE Inv'
    BY <1>12, BoundaryInv
<1>13. ASSUME UNCHANGED vars PROVE Inv'
    <2>1. Placed' /\ InOrder' /\ Handle'
        BY <1>13, CommandKept, HandleKept DEF vars
    <2>. QED  BY <1>13, <2>1
              DEF vars, clock, args, Inv, Types, PmsnapTypeOK, WindowFits, Exits, Running
<1>. QED  BY <1>1, <1>2, <1>3, <1>4, <1>5, <1>6, <1>7, <1>8, <1>9, <1>10, <1>11, <1>12,
             <1>13 DEF Next, Command

-----------------------------------------------------------------------------
(* Part 5: parseROI takes what is written.                                   *)

Texts == {"n", "x", "+", "-", "?"}

Numbers == {<<"n">>, <<"+", "n">>, <<"-", "n">>}

\* The text has v at i.
Has(s, v, i) == i + Len(v) - 1 <= Len(s) /\ \A m \in 1 .. Len(v) : s[i + m - 1] = v[m]

\* The function that Behind is the last value of.
Reads(f, s, k) ==
    f = [n \in 1 .. k |->
            IF n = 1 THEN AfterNumber(s, 1)
            ELSE IF f[n - 1] # 0 /\ Token(s, f[n - 1]) = Literals[n - 1]
                 THEN AfterNumber(s, f[n - 1] + 1)
                 ELSE 0]

\* What is written goes on with a literal and a number.
Longer(W, n) == {w \o <<Literals[n]>> \o v : w \in W, v \in Numbers}

\* The function that Writings is the last value of.
Writes(f, k) == f = [n \in 1 .. k |-> IF n = 1 THEN Numbers ELSE Longer(f[n - 1], n - 1)]

\* There is one.
LEMMA ReadsExists ==
    ASSUME NEW s, NEW k \in 1 .. 4
    PROVE  \E f : Reads(f, s, k)
<1>. DEFINE More(e, n) == IF e # 0 /\ Token(s, e) = Literals[n] THEN AfterNumber(s, e + 1)
                          ELSE 0
            e1 == AfterNumber(s, 1)
            e2 == More(e1, 1)
            e3 == More(e2, 2)
            e4 == More(e3, 3)
            f == [n \in 1 .. k |-> IF n = 1 THEN e1 ELSE IF n = 2 THEN e2
                                   ELSE IF n = 3 THEN e3 ELSE e4]
<1>1. ASSUME NEW n \in 1 .. k
      PROVE  f[n] = IF n = 1 THEN e1 ELSE More(f[n - 1], n - 1)
    <2>. HIDE DEF More, e1, e2, e3, e4
    <2>1. n \in {1, 2, 3, 4}
        OBVIOUS
    <2>2. CASE n = 1
        BY <2>2
    <2>3. CASE n = 2
        <3>1. f[n] = e2 /\ f[n - 1] = e1 /\ n - 1 = 1
            BY <2>3
        <3>. QED  BY <2>3, <3>1 DEF e2
    <2>4. CASE n = 3
        <3>1. f[n] = e3 /\ f[n - 1] = e2 /\ n - 1 = 2
            BY <2>4
        <3>. QED  BY <2>4, <3>1 DEF e3
    <2>5. CASE n = 4
        <3>1. f[n] = e4 /\ f[n - 1] = e3 /\ n - 1 = 3
            BY <2>5
        <3>. QED  BY <2>5, <3>1 DEF e4
    <2>. QED  BY <2>1, <2>2, <2>3, <2>4, <2>5
<1>2. f = [n \in 1 .. k |-> IF n = 1 THEN e1 ELSE More(f[n - 1], n - 1)]
    <2>. HIDE DEF More, e1, e2, e3, e4
    <2>. QED  BY <1>1
<1>3. Reads(f, s, k)
    <2>. HIDE DEF f
    <2>. QED  BY <1>2 DEF Reads, More, e1
<1>. QED  BY <1>3

\* And one of this.
LEMMA WritesExists ==
    ASSUME NEW k \in 1 .. 4
    PROVE  \E f : Writes(f, k)
<1>. DEFINE w2 == Longer(Numbers, 1)
            w3 == Longer(w2, 2)
            w4 == Longer(w3, 3)
            f == [n \in 1 .. k |-> IF n = 1 THEN Numbers ELSE IF n = 2 THEN w2
                                   ELSE IF n = 3 THEN w3 ELSE w4]
<1>1. ASSUME NEW n \in 1 .. k
      PROVE  f[n] = IF n = 1 THEN Numbers ELSE Longer(f[n - 1], n - 1)
    <2>. HIDE DEF w2, w3, w4
    <2>1. n \in {1, 2, 3, 4}
        OBVIOUS
    <2>2. CASE n = 1
        BY <2>2
    <2>3. CASE n = 2
        <3>1. f[n] = w2 /\ f[n - 1] = Numbers /\ n - 1 = 1
            BY <2>3
        <3>. QED  BY <2>3, <3>1 DEF w2
    <2>4. CASE n = 3
        <3>1. f[n] = w3 /\ f[n - 1] = w2 /\ n - 1 = 2
            BY <2>4
        <3>. QED  BY <2>4, <3>1 DEF w3
    <2>5. CASE n = 4
        <3>1. f[n] = w4 /\ f[n - 1] = w3 /\ n - 1 = 3
            BY <2>5
        <3>. QED  BY <2>5, <3>1 DEF w4
    <2>. QED  BY <2>1, <2>2, <2>3, <2>4, <2>5
<1>2. f = [n \in 1 .. k |-> IF n = 1 THEN Numbers ELSE Longer(f[n - 1], n - 1)]
    <2>. HIDE DEF w2, w3, w4
    <2>. QED  BY <1>1
<1>3. Writes(f, k)
    <2>. HIDE DEF f
    <2>. QED  BY <1>2 DEF Writes
<1>. QED  BY <1>3

\* Four numbers are two first.
LEMMA BehindShorter ==
    ASSUME NEW s
    PROVE  Behind(s, Literals, 4) # 0 => Behind(s, Literals, 2) # 0
<1>. DEFINE f == CHOOSE g : Reads(g, s, 4)
            e == CHOOSE g : Reads(g, s, 2)
<1>1. Behind(s, Literals, 4) = f[4] /\ Behind(s, Literals, 2) = e[2]
    <2>1. Behind(s, Literals, 4) = f[4]
        BY DEF Behind, Reads
    <2>2. Behind(s, Literals, 2) = e[2]
        BY DEF Behind, Reads
    <2>. QED  BY <2>1, <2>2
<1>2. Reads(f, s, 4) /\ Reads(e, s, 2)
    <2>1. \E g : Reads(g, s, 4)
        BY ReadsExists
    <2>2. \E g : Reads(g, s, 2)
        BY ReadsExists
    <2>. QED  BY <2>1, <2>2
<1>. HIDE DEF f, e
<1>3. /\ f[1] = AfterNumber(s, 1) /\ e[1] = AfterNumber(s, 1)
      /\ \A n \in 2 .. 4 :
            f[n] = IF f[n - 1] # 0 /\ Token(s, f[n - 1]) = Literals[n - 1]
                   THEN AfterNumber(s, f[n - 1] + 1) ELSE 0
      /\ e[2] = IF e[1] # 0 /\ Token(s, e[1]) = Literals[1]
                THEN AfterNumber(s, e[1] + 1) ELSE 0
    BY <1>2 DEF Reads
<1>4. /\ f[2] = IF f[1] # 0 /\ Token(s, f[1]) = Literals[1]
                THEN AfterNumber(s, f[1] + 1) ELSE 0
      /\ f[4] # 0 => f[3] # 0
      /\ f[3] # 0 => f[2] # 0
    <2>1. 2 \in 2 .. 4 /\ 3 \in 2 .. 4 /\ 4 \in 2 .. 4 /\ 2 - 1 = 1 /\ 3 - 1 = 2 /\ 4 - 1 = 3
        OBVIOUS
    <2>. QED  BY <1>3, <2>1
<1>. QED  BY <1>1, <1>3, <1>4

\* A number is taken exactly where one is written.
LEMMA NumberTaken ==
    ASSUME NEW s \in Seq(Texts), NEW i \in Nat \ {0}
    PROVE  /\ AfterNumber(s, i) # 0 =>
                  \E v \in Numbers : Has(s, v, i) /\ AfterNumber(s, i) = i + Len(v)
           /\ \A v \in Numbers : Has(s, v, i) => AfterNumber(s, i) = i + Len(v)
<1>1. Len(s) \in Nat
    BY LenProperties
<1>2. \A m \in Nat \ {0} : m <= Len(s) => Token(s, m) = s[m]
    BY <1>1 DEF Token
<1>3. \A m \in Nat \ {0} : ~(m <= Len(s)) => Token(s, m) = "end"
    BY <1>1 DEF Token
<1>4. /\ Has(s, <<"n">>, i) <=> i <= Len(s) /\ s[i] = "n"
      /\ \A c \in {"+", "-"} :
            Has(s, <<c, "n">>, i) <=> i + 1 <= Len(s) /\ s[i] = c /\ s[i + 1] = "n"
    <2>1. Has(s, <<"n">>, i) <=> i <= Len(s) /\ s[i] = "n"
        <3>1. i + 1 - 1 = i /\ Len(<<"n">>) = 1
            OBVIOUS
        <3>. QED  BY <1>1, <3>1 DEF Has
    <2>2. ASSUME NEW c \in {"+", "-"}
          PROVE  Has(s, <<c, "n">>, i) <=> i + 1 <= Len(s) /\ s[i] = c /\ s[i + 1] = "n"
        <3>. DEFINE v == <<c, "n">>
        <3>1. /\ i + 1 - 1 = i /\ i + 2 - 1 = i + 1
              /\ Len(v) = 2 /\ v[1] = c /\ v[2] = "n"
            OBVIOUS
        <3>. HIDE DEF v
        <3>2. \A m \in 1 .. 2 : m = 1 \/ m = 2
            OBVIOUS
        <3>. QED  BY <1>1, <3>1, <3>2 DEF Has, v
    <2>. QED  BY <2>1, <2>2
<1>5. /\ Len(<<"n">>) = 1 /\ \A c \in {"+", "-"} : Len(<<c, "n">>) = 2
    OBVIOUS
<1>6. CASE Token(s, i) \in {"+", "-"}
    <2>1. i <= Len(s) /\ s[i] = Token(s, i) /\ i + 1 \in Nat \ {0}
        BY <1>2, <1>3, <1>6
    <2>2. AfterNumber(s, i) = IF Token(s, i + 1) = "n" THEN i + 2 ELSE 0
        BY <1>6 DEF AfterNumber
    <2>3. Token(s, i + 1) = "n" <=> i + 1 <= Len(s) /\ s[i + 1] = "n"
        BY <1>2, <1>3, <2>1
    <2>. QED  BY <1>4, <1>5, <1>6, <2>1, <2>2, <2>3 DEF Numbers
<1>7. CASE Token(s, i) \notin {"+", "-"}
    <2>1. AfterNumber(s, i) = IF Token(s, i) = "n" THEN i + 1 ELSE 0
        BY <1>7 DEF AfterNumber
    <2>2. Token(s, i) = "n" <=> i <= Len(s) /\ s[i] = "n"
        BY <1>2, <1>3
    <2>3. ASSUME NEW c \in {"+", "-"}, Has(s, <<c, "n">>, i) PROVE FALSE
        <3>1. i + 1 <= Len(s) /\ s[i] = c
            BY <1>4, <2>3
        <3>2. i <= Len(s)
            BY <1>1, <3>1
        <3>. QED  BY <1>2, <1>7, <3>1, <3>2
    <2>. QED  BY <1>4, <1>5, <2>1, <2>2, <2>3 DEF Numbers
<1>. QED  BY <1>6, <1>7

\* A text, a literal and a number in a row.
LEMMA InARow ==
    ASSUME NEW w \in Seq(Texts), NEW c \in Texts, NEW v \in Seq(Texts), NEW s \in Seq(Texts)
    PROVE  LET u == w \o <<c>> \o v
           IN  /\ u \in Seq(Texts) /\ Len(u) = Len(w) + 1 + Len(v)
               /\ Has(s, u, 1) <=> /\ Has(s, w, 1)
                                   /\ Len(w) + 1 <= Len(s) /\ s[Len(w) + 1] = c
                                   /\ Has(s, v, Len(w) + 2)
<1>. DEFINE a == w \o <<c>>
            u == a \o v
            n == Len(w)
<1>1. n \in Nat /\ Len(v) \in Nat /\ Len(s) \in Nat
    BY LenProperties
<1>2. <<c>> \in Seq(Texts) /\ Len(<<c>>) = 1 /\ <<c>>[1] = c
    OBVIOUS
<1>3. /\ a \in Seq(Texts) /\ Len(a) = n + 1
      /\ \A i \in 1 .. n + 1 : a[i] = IF i <= n THEN w[i] ELSE c
    <2>. DEFINE b == <<c>>
    <2>1. b \in Seq(Texts) /\ Len(b) = 1 /\ b[1] = c /\ a = w \o b
        BY <1>2
    <2>. HIDE DEF a, b
    <2>2. /\ a \in Seq(Texts) /\ Len(a) = n + Len(b)
          /\ \A i \in 1 .. n + Len(b) : a[i] = IF i <= n THEN w[i] ELSE b[i - n]
        BY <2>1, ConcatProperties
    <2>3. \A i \in 1 .. n + 1 : ~(i <= n) => i - n = 1
        BY <1>1
    <2>. QED  BY <2>1, <2>2, <2>3
<1>. HIDE DEF a
<1>4. /\ u \in Seq(Texts) /\ Len(u) = Len(a) + Len(v)
      /\ \A i \in 1 .. Len(a) + Len(v) : u[i] = IF i <= Len(a) THEN a[i] ELSE v[i - Len(a)]
    BY <1>3, ConcatProperties
<1>. HIDE DEF u
<1>5. /\ Len(u) = n + 1 + Len(v)
      /\ \A i \in 1 .. n : u[i] = w[i]
      /\ u[n + 1] = c
      /\ \A m \in 1 .. Len(v) : u[n + 1 + m] = v[m]
    <2>1. \A i \in 1 .. n : i \in 1 .. Len(a) + Len(v) /\ i <= Len(a) /\ i \in 1 .. n + 1
        BY <1>1, <1>3
    <2>2. n + 1 \in 1 .. Len(a) + Len(v) /\ n + 1 <= Len(a) /\ ~(n + 1 <= n)
        BY <1>1, <1>3
    <2>3. \A m \in 1 .. Len(v) : /\ n + 1 + m \in 1 .. Len(a) + Len(v)
                                 /\ ~(n + 1 + m <= Len(a))
                                 /\ (n + 1 + m) - Len(a) = m
        BY <1>1, <1>3
    <2>. QED  BY <1>1, <1>3, <1>4, <2>1, <2>2, <2>3
<1>6. Has(s, u, 1) <=> Len(u) <= Len(s) /\ \A i \in 1 .. Len(u) : s[i] = u[i]
    BY <1>1, <1>5 DEF Has
<1>7. Has(s, w, 1) <=> n <= Len(s) /\ \A i \in 1 .. n : s[i] = w[i]
    BY <1>1 DEF Has
<1>8. Has(s, v, n + 2) <=> /\ n + 1 + Len(v) <= Len(s)
                           /\ \A m \in 1 .. Len(v) : s[n + 1 + m] = v[m]
    <2>1. \A m \in 1 .. Len(v) : n + 2 + m - 1 = n + 1 + m
        BY <1>1
    <2>2. n + 2 + Len(v) - 1 = n + 1 + Len(v)
        BY <1>1
    <2>. QED  BY <2>1, <2>2 DEF Has
<1>9. ASSUME NEW i \in 1 .. Len(u)
      PROVE  i \in 1 .. n \/ i = n + 1 \/ \E m \in 1 .. Len(v) : i = n + 1 + m
    <2>1. \A p, q \in Nat : \A l \in 1 .. p + 1 + q :
              \/ l \in 1 .. p \/ l = p + 1
              \/ l - p - 1 \in 1 .. q /\ l = p + 1 + (l - p - 1)
        OBVIOUS
    <2>2. i \in 1 .. n + 1 + Len(v)
        BY <1>5
    <2>3. \/ i \in 1 .. n \/ i = n + 1
          \/ i - n - 1 \in 1 .. Len(v) /\ i = n + 1 + (i - n - 1)
        BY <1>1, <2>1, <2>2
    <2>. QED  BY <2>3
<1>10. Has(s, u, 1) => /\ Has(s, w, 1)
                       /\ n + 1 <= Len(s) /\ s[n + 1] = c
                       /\ Has(s, v, n + 2)
    <2>. SUFFICES ASSUME Has(s, u, 1)
                  PROVE  /\ Has(s, w, 1)
                         /\ n + 1 <= Len(s) /\ s[n + 1] = c
                         /\ Has(s, v, n + 2)
        OBVIOUS
    <2>1. \A i \in 1 .. n : i \in 1 .. Len(u)
        BY <1>1, <1>5
    <2>2. n + 1 \in 1 .. Len(u)
        BY <1>1, <1>5
    <2>3. \A m \in 1 .. Len(v) : n + 1 + m \in 1 .. Len(u)
        BY <1>1, <1>5
    <2>. QED  BY <1>1, <1>5, <1>6, <1>7, <1>8, <2>1, <2>2, <2>3
<1>11. (/\ Has(s, w, 1)
        /\ n + 1 <= Len(s) /\ s[n + 1] = c
        /\ Has(s, v, n + 2)) => Has(s, u, 1)
    <2>. SUFFICES ASSUME Has(s, w, 1), n + 1 <= Len(s), s[n + 1] = c, Has(s, v, n + 2)
                  PROVE  Has(s, u, 1)
        OBVIOUS
    <2>1. ASSUME NEW i \in 1 .. Len(u) PROVE s[i] = u[i]
        <3>1. CASE i \in 1 .. n
            BY <1>5, <1>7, <3>1
        <3>2. CASE i = n + 1
            BY <1>5, <3>2
        <3>3. CASE \E m \in 1 .. Len(v) : i = n + 1 + m
            BY <1>5, <1>8, <3>3
        <3>. QED  BY <1>9, <3>1, <3>2, <3>3
    <2>2. Len(u) <= Len(s)
        BY <1>5, <1>8
    <2>. QED  BY <1>6, <2>1, <2>2
<1>. QED  BY <1>4, <1>5, <1>10, <1>11 DEF u, a

\* How long a text of k numbers is.
LEMMA WritingsLength ==
    /\ \A w \in Writings(2) : Len(w) \in Nat /\ Len(w) <= 5
    /\ \A w \in Writings(4) : Len(w) \in Nat /\ Len(w) >= 7
<1>1. ASSUME NEW k \in {2, 4}
      PROVE  \A w \in Writings(k) : Len(w) \in Nat /\ 2 * k - 1 <= Len(w) /\ Len(w) <= 3 * k - 1
    <2>. DEFINE W == CHOOSE g : Writes(g, k)
                Fits(n) == /\ W[n] \subseteq Seq(Texts)
                           /\ \A w \in W[n] : /\ Len(w) \in Nat
                                              /\ 2 * n - 1 <= Len(w) /\ Len(w) <= 3 * n - 1
    <2>1. Writings(k) = W[k]
        BY DEF Writings, Writes, Longer, Numbers
    <2>2. Writes(W, k)
        <3>1. \E g : Writes(g, k)
            BY WritesExists
        <3>. QED  BY <3>1
    <2>. HIDE DEF W
    <2>3. W[1] = Numbers /\ \A n \in 1 .. k - 1 : W[n + 1] = Longer(W[n], n)
        <3>1. \A n \in 1 .. k : W[n] = IF n = 1 THEN Numbers ELSE Longer(W[n - 1], n - 1)
            BY <2>2 DEF Writes
        <3>2. \A n \in 1 .. k - 1 : n + 1 \in 1 .. k /\ n + 1 # 1 /\ (n + 1) - 1 = n
            OBVIOUS
        <3>. QED  BY <3>1, <3>2
    <2>4. Numbers \subseteq Seq(Texts) /\ \A v \in Numbers : Len(v) \in {1, 2}
        <3>1. Numbers \subseteq Seq(Texts)
            BY DEF Numbers, Texts
        <3>2. Len(<<"n">>) = 1 /\ Len(<<"+", "n">>) = 2 /\ Len(<<"-", "n">>) = 2
            OBVIOUS
        <3>. QED  BY <3>1, <3>2 DEF Numbers
    <2>5. Fits(1)
        <3>1. W[1] \subseteq Seq(Texts)
            BY <2>3, <2>4
        <3>2. \A w \in W[1] : Len(w) \in {1, 2}
            BY <2>3, <2>4
        <3>3. \A l \in {1, 2} : l \in Nat /\ 2 * 1 - 1 <= l /\ l <= 3 * 1 - 1
            OBVIOUS
        <3>. QED  BY <3>1, <3>2, <3>3
    <2>6. ASSUME NEW n \in 1 .. k - 1, Fits(n), n \in {1, 2, 3} PROVE Fits(n + 1)
        <3>1. ASSUME NEW u \in W[n + 1]
              PROVE  /\ u \in Seq(Texts) /\ Len(u) \in Nat
                     /\ 2 * (n + 1) - 1 <= Len(u) /\ Len(u) <= 3 * (n + 1) - 1
            <4>1. PICK w \in W[n], v \in Numbers : u = w \o <<Literals[n]>> \o v
                <5>1. u \in Longer(W[n], n)
                    <6>1. W[n + 1] = Longer(W[n], n)
                        BY <2>3, Zenon
                    <6>. QED  BY <3>1, <6>1
                <5>. DEFINE c == Literals[n]
                            V == W[n]
                <5>2. Longer(V, n) = {w \o <<c>> \o v : w \in V, v \in Numbers}
                    BY DEF Longer
                <5>. HIDE DEF c, V
                <5>3. u \in {w \o <<c>> \o v : w \in V, v \in Numbers}
                    BY <5>1, <5>2 DEF V
                <5>4. \E w \in V, v \in Numbers : u = w \o <<c>> \o v
                    BY <5>3
                <5>. QED  BY <5>4 DEF c, V
            <4>2. Literals[n] \in Texts
                BY <2>6 DEF Literals, Texts
            <4>3. w \in Seq(Texts) /\ v \in Seq(Texts)
                BY <2>4, <2>6
            <4>4. u \in Seq(Texts) /\ Len(u) = Len(w) + 1 + Len(v)
                BY <4>1, <4>2, <4>3, InARow
            <4>5. Len(w) \in Nat /\ 2 * n - 1 <= Len(w) /\ Len(w) <= 3 * n - 1
                BY <2>6
            <4>6. Len(v) \in {1, 2}
                BY <2>4
            <4>7. \A i, l \in Nat : \A m \in {1, 2} :
                      (2 * i - 1 <= l /\ l <= 3 * i - 1) =>
                          /\ l + 1 + m \in Nat
                          /\ 2 * (i + 1) - 1 <= l + 1 + m /\ l + 1 + m <= 3 * (i + 1) - 1
                OBVIOUS
            <4>8. n \in Nat
                OBVIOUS
            <4>9. /\ Len(w) + 1 + Len(v) \in Nat
                  /\ 2 * (n + 1) - 1 <= Len(w) + 1 + Len(v)
                  /\ Len(w) + 1 + Len(v) <= 3 * (n + 1) - 1
                BY <4>5, <4>6, <4>7, <4>8
            <4>. QED  BY <4>4, <4>9
        <3>. QED  BY <3>1
    <2>. HIDE DEF Fits
    <2>7. Fits(2)
        <3>1. Fits(1 + 1)
            BY <2>5, <2>6
        <3>. QED  BY <3>1
    <2>8. k = 4 => Fits(4)
        <3>1. SUFFICES ASSUME k = 4 PROVE Fits(4)
            OBVIOUS
        <3>2. Fits(2 + 1)
            BY <2>6, <2>7, <3>1
        <3>3. Fits(3 + 1)
            BY <2>6, <3>1, <3>2
        <3>. QED  BY <3>3
    <2>9. Fits(k)
        BY <2>7, <2>8
    <2>. QED  BY <2>1, <2>9 DEF Fits
<1>2. \A w \in Writings(2) : Len(w) \in Nat /\ Len(w) <= 3 * 2 - 1
    BY <1>1
<1>3. \A w \in Writings(4) : Len(w) \in Nat /\ 2 * 4 - 1 <= Len(w)
    BY <1>1
<1>. QED  BY <1>2, <1>3

\* Numbers of the format are taken exactly from the texts that begin with them.
LEMMA BehindIsWritten ==
    ASSUME NEW s \in Seq(Texts), NEW k \in 1 .. 4
    PROVE  Behind(s, Literals, k) # 0 <=> BeginsWith(s, k)
<1>. DEFINE f == CHOOSE g : Reads(g, s, k)
            W == CHOOSE g : Writes(g, k)
<1>1. Behind(s, Literals, k) = f[k] /\ Writings(k) = W[k]
    <2>1. Behind(s, Literals, k) = f[k]
        BY DEF Behind, Reads
    <2>2. Writings(k) = W[k]
        BY DEF Writings, Writes, Longer, Numbers
    <2>. QED  BY <2>1, <2>2
<1>2. Reads(f, s, k) /\ Writes(W, k)
    <2>1. Reads(f, s, k)
        BY ReadsExists
    <2>2. Writes(W, k)
        BY WritesExists
    <2>. QED  BY <2>1, <2>2
<1>. HIDE DEF f, W
<1>3. /\ f[1] = AfterNumber(s, 1) /\ W[1] = Numbers
      /\ \A n \in 1 .. k - 1 :
            /\ f[n + 1] = IF f[n] # 0 /\ Token(s, f[n]) = Literals[n]
                          THEN AfterNumber(s, f[n] + 1) ELSE 0
            /\ W[n + 1] = Longer(W[n], n)
    <2>1. 1 \in 1 .. k
        OBVIOUS
    <2>2. \A n \in 1 .. k - 1 : n + 1 \in 1 .. k /\ n + 1 # 1 /\ (n + 1) - 1 = n
        OBVIOUS
    <2>3. \A n \in 1 .. k :
              f[n] = IF n = 1 THEN AfterNumber(s, 1)
                     ELSE IF f[n - 1] # 0 /\ Token(s, f[n - 1]) = Literals[n - 1]
                          THEN AfterNumber(s, f[n - 1] + 1)
                          ELSE 0
        BY <1>2 DEF Reads
    <2>4. \A n \in 1 .. k : W[n] = IF n = 1 THEN Numbers ELSE Longer(W[n - 1], n - 1)
        BY <1>2 DEF Writes
    <2>. QED  BY <2>1, <2>2, <2>3, <2>4
<1>4. Len(s) \in Nat
    BY LenProperties
<1>5. Numbers \subseteq Seq(Texts)
    BY DEF Numbers, Texts
<1>. DEFINE Agrees(n) ==
                /\ W[n] \subseteq Seq(Texts)
                /\ f[n] # 0 => \E w \in W[n] : Has(s, w, 1) /\ f[n] = Len(w) + 1
                /\ \A w \in W[n] : Has(s, w, 1) => f[n] = Len(w) + 1
<1>6. Agrees(1)
    <2>1. \A v \in Numbers : Len(v) \in Nat /\ 1 + Len(v) = Len(v) + 1
        BY <1>5, LenProperties
    <2>. QED  BY <1>3, <1>5, <2>1, NumberTaken
<1>7. ASSUME NEW n \in 1 .. k - 1, Agrees(n) PROVE Agrees(n + 1)
    <2>. DEFINE c == Literals[n]
                e == f[n]
                d == f[n + 1]
                V == W[n]
                U == W[n + 1]
    <2>1. c \in Texts /\ c # "end"
        <3>1. n \in {1, 2, 3}
            OBVIOUS
        <3>. QED  BY <3>1 DEF Literals, Texts
    <2>2. /\ d = IF e # 0 /\ Token(s, e) = c THEN AfterNumber(s, e + 1) ELSE 0
          /\ U = {w \o <<c>> \o v : w \in V, v \in Numbers}
        <3>1. /\ d = IF e # 0 /\ Token(s, e) = c THEN AfterNumber(s, e + 1) ELSE 0
              /\ U = Longer(V, n)
            BY <1>3
        <3>2. Longer(V, n) = {w \o <<c>> \o v : w \in V, v \in Numbers}
            BY DEF Longer
        <3>. HIDE DEF c, e, d, V, U
        <3>. QED  BY <3>1, <3>2
    <2>3. /\ V \subseteq Seq(Texts)
          /\ e # 0 => \E w \in V : Has(s, w, 1) /\ e = Len(w) + 1
          /\ \A w \in V : Has(s, w, 1) => e = Len(w) + 1
        BY <1>7
    <2>. HIDE DEF c, e, d, V, U
    <2>4. ASSUME NEW u \in U PROVE u \in Seq(Texts)
        <3>1. PICK w \in V, v \in Numbers : u = w \o <<c>> \o v
            BY <2>2
        <3>. QED  BY <1>5, <2>1, <2>3, <3>1, InARow
    <2>5. ASSUME d # 0
          PROVE  \E u \in U : Has(s, u, 1) /\ d = Len(u) + 1
        <3>1. e # 0 /\ Token(s, e) = c /\ d = AfterNumber(s, e + 1)
            BY <2>2, <2>5
        <3>2. PICK w \in V : Has(s, w, 1) /\ e = Len(w) + 1
            BY <2>3, <3>1
        <3>3. w \in Seq(Texts) /\ Len(w) \in Nat
            BY <2>3, <3>2, LenProperties
        <3>4. e <= Len(s) /\ s[e] = c
            BY <2>1, <3>1 DEF Token
        <3>5. e + 1 \in Nat \ {0} /\ e + 1 = Len(w) + 2
            BY <3>2, <3>3
        <3>6. PICK v \in Numbers : Has(s, v, e + 1) /\ d = (e + 1) + Len(v)
            BY <2>5, <3>1, <3>5, NumberTaken
        <3>7. v \in Seq(Texts) /\ Len(v) \in Nat
            BY <1>5, <3>6, LenProperties
        <3>. DEFINE u == w \o <<c>> \o v
        <3>8. u \in U
            BY <2>2, <3>2, <3>6
        <3>9. Has(s, u, 1) /\ Len(u) = Len(w) + 1 + Len(v)
            BY <2>1, <3>2, <3>3, <3>4, <3>5, <3>6, <3>7, InARow
        <3>. HIDE DEF u
        <3>10. d = Len(u) + 1
            BY <3>3, <3>5, <3>6, <3>7, <3>9
        <3>. QED  BY <3>8, <3>9, <3>10
    <2>6. ASSUME NEW u \in U, Has(s, u, 1)
          PROVE  d = Len(u) + 1
        <3>1. PICK w \in V, v \in Numbers : u = w \o <<c>> \o v
            BY <2>2
        <3>2. /\ w \in Seq(Texts) /\ Len(w) \in Nat /\ v \in Seq(Texts) /\ Len(v) \in Nat
            BY <1>5, <2>3, LenProperties
        <3>3. /\ Len(u) = Len(w) + 1 + Len(v) /\ Has(s, w, 1)
              /\ Len(w) + 1 <= Len(s) /\ s[Len(w) + 1] = c
              /\ Has(s, v, Len(w) + 2)
            BY <2>1, <2>6, <3>1, <3>2, InARow
        <3>4. e = Len(w) + 1 /\ e # 0 /\ Token(s, e) = c
            BY <2>3, <3>2, <3>3 DEF Token
        <3>5. e + 1 \in Nat \ {0} /\ e + 1 = Len(w) + 2
            BY <3>2, <3>4
        <3>6. AfterNumber(s, e + 1) = (e + 1) + Len(v)
            BY <3>3, <3>5, NumberTaken
        <3>. QED  BY <2>2, <3>2, <3>3, <3>4, <3>5, <3>6
    <2>. QED  BY <2>4, <2>5, <2>6 DEF d, U
<1>. HIDE DEF Agrees
<1>8. Agrees(k)
    <2>1. k \in {1, 2, 3, 4}
        OBVIOUS
    <2>2. CASE k = 1
        BY <1>6, <2>2
    <2>3. CASE k = 2
        <3>1. Agrees(1 + 1)
            BY <1>6, <1>7, <2>3
        <3>. QED  BY <2>3, <3>1
    <2>4. CASE k = 3
        <3>1. Agrees(1 + 1)
            BY <1>6, <1>7, <2>4
        <3>2. Agrees(2 + 1)
            BY <1>7, <2>4, <3>1
        <3>. QED  BY <2>4, <3>2
    <2>5. CASE k = 4
        <3>1. Agrees(1 + 1)
            BY <1>6, <1>7, <2>5
        <3>2. Agrees(2 + 1)
            BY <1>7, <2>5, <3>1
        <3>3. Agrees(3 + 1)
            BY <1>7, <2>5, <3>2
        <3>. QED  BY <2>5, <3>3
    <2>. QED  BY <2>1, <2>2, <2>3, <2>4, <2>5
<1>9. ASSUME NEW w \in W[k]
      PROVE  Has(s, w, 1) <=> Len(w) <= Len(s) /\ SubSeq(s, 1, Len(w)) = w
    <2>1. w \in Seq(Texts) /\ Len(w) \in Nat
        BY <1>8, LenProperties DEF Agrees
    <2>2. Has(s, w, 1) <=> Len(w) <= Len(s) /\ \A i \in 1 .. Len(w) : s[i] = w[i]
        BY <1>4, <2>1 DEF Has
    <2>3. ASSUME Len(w) <= Len(s)
          PROVE  /\ SubSeq(s, 1, Len(w)) \in Seq(Texts)
                 /\ Len(SubSeq(s, 1, Len(w))) = Len(w)
                 /\ \A i \in 1 .. Len(w) : SubSeq(s, 1, Len(w))[i] = s[i]
        <3>1. \A i \in 1 .. Len(w) : s[i] \in Texts
            BY <1>4, <2>1, <2>3, ElementOfSeq
        <3>2. /\ SubSeq(s, 1, Len(w)) \in Seq(Texts)
              /\ Len(SubSeq(s, 1, Len(w))) = IF 1 <= Len(w) THEN Len(w) - 1 + 1 ELSE 0
              /\ \A i \in 1 .. Len(w) - 1 + 1 : SubSeq(s, 1, Len(w))[i] = s[1 + i - 1]
            BY <2>1, <3>1, SubSeqProperties
        <3>3. Len(w) - 1 + 1 = Len(w) /\ \A i \in 1 .. Len(w) : 1 + i - 1 = i
            BY <2>1
        <3>. QED  BY <2>1, <3>2, <3>3
    <2>4. ASSUME Len(w) <= Len(s), SubSeq(s, 1, Len(w)) = w
          PROVE  \A i \in 1 .. Len(w) : s[i] = w[i]
        BY <2>3, <2>4
    <2>5. ASSUME Len(w) <= Len(s), \A i \in 1 .. Len(w) : s[i] = w[i]
          PROVE  SubSeq(s, 1, Len(w)) = w
        BY <2>1, <2>3, <2>5, SeqEqual
    <2>. QED  BY <2>2, <2>4, <2>5
<1>10. f[k] # 0 <=> \E w \in W[k] : Has(s, w, 1)
    <2>1. \A w \in W[k] : Len(w) + 1 # 0
        BY <1>8, LenProperties DEF Agrees
    <2>. QED  BY <1>8, <2>1 DEF Agrees
<1>. QED  BY <1>1, <1>9, <1>10 DEF BeginsWith

-----------------------------------------------------------------------------
(* Part 6: the theorems.                                                     *)

(* The invariant holds throughout: a command is at one of its steps, with the files
   that the steps before it have written (main.go:121-302).                  *)
THEOREM PmsnapInvariant == Spec => []Inv
<1>1. Init => Inv
    BY InitInv
<1>2. Inv /\ [Next]_vars => Inv'
    BY NextInv
<1>. QED  BY <1>1, <1>2, PTL DEF Spec

(* The variables keep their types, whatever the clock makes of a timeout
   (main.go:201-302, camera.go:479-586).                                     *)
THEOREM PmsnapTypes == Spec => []PmsnapTypeOK
<1>1. Inv => PmsnapTypeOK
    BY DEF Inv, Types
<1>. QED  BY <1>1, PmsnapInvariant, PTL

(* For any number of frames: status 0 means that every file is there, whole, unless
   closing one failed; and a failure costs the frame it happens in and those after
   it, no other (main.go:218-244, 278-302).                                  *)
THEOREM ExitTells == Spec => []ExitTellsTheFiles
<1>1. Inv => ExitTellsTheFiles
    <2>1. SUFFICES ASSUME Inv, cmd = "snap" PROVE ExitTellsTheFiles
        BY DEF ExitTellsTheFiles
    <2>2. (exit = "0" /\ ~lost) => \A i \in 1 .. frames : files[i] = "whole"
        BY <2>1 DEF Inv, Exits, InOrder, AllWhole
    <2>. QED  BY <2>1, <2>2 DEF Inv, InOrder, ExitTellsTheFiles
<1>. QED  BY <1>1, PmsnapInvariant, PTL

(* A transfer that begins with a millisecond left is over by the deadline of its
   window, for every deadline that the transports' unsigned timeouts can hold
   (camera.go:479-481, 556-571; transport_linux.go:169; transport_darwin.go:296). *)
THEOREM LateReads == Spec => []OnlyLateReadsOutlast
<1>1. Inv => OnlyLateReadsOutlast
    <2>1. SUFFICES ASSUME Inv, wait # Idle, left < 0, ~late PROVE FALSE
        BY DEF OnlyLateReadsOutlast
    <2>2. 0 <= wait /\ wait <= left
        BY <2>1 DEF Inv, WindowFits
    <2>3. left \in Int /\ wait \in Int
        <3>1. Wrap * Ms \in Int /\ (Wrap - 1) * Ms \in Int
            BY Constants
        <3>. QED  BY <2>1, <3>1 DEF Inv, Types, PmsnapTypeOK, Forever
    <2>. QED  BY <2>1, <2>2, <2>3
<1>. QED  BY <1>1, PmsnapInvariant, PTL

(* On every way out of a command the camera is closed, once, and a run was stopped
   before that (main.go:121-154, 167-172, 201-214, 247-252).                 *)
THEOREM ClosedInOrder == Spec => ClosedOnce
<1>1. Inv => (exit # "none" => camera = "closed")
    BY DEF Inv, Exits, Handle, Matched, Keeps
<1>2. Inv /\ Inv' => (Len(deferred') < Len(deferred) => camera # "closed")
    <2>. SUFFICES ASSUME Inv, Inv', camera = "closed"
                  PROVE  ~(Len(deferred') < Len(deferred))
        OBVIOUS
    <2>1. deferred = <<>>
        <3>1. CASE err = "none"
            <4>1. Held(Position) /\ Position \in Nat /\ Position >= 1
                BY <3>1, PositionFits DEF Inv, Handle
            <4>2. cmd \in {"list", "info", "snap", "regs"}
                BY DEF Inv, Types
            <4>. QED  BY <4>1, <4>2, HandleTypes DEF InHand, Matched, Keeps
        <3>2. CASE err # "none"
            BY <3>2 DEF Inv, Handle, Matched, Keeps
        <3>. QED  BY <3>1, <3>2
    <2>2. deferred' \in {<<>>, <<"Close">>, <<"Close", "Stop">>}
        BY DEF Inv, Types, PmsnapTypeOK
    <2>3. Len(<<>>) = 0 /\ Len(<<"Close">>) = 1 /\ Len(<<"Close", "Stop">>) = 2
        OBVIOUS
    <2>4. Len(deferred) = 0 /\ Len(deferred') \in {0, 1, 2}
        BY <2>1, <2>2, <2>3
    <2>. QED  BY <2>4
<1>3. Inv /\ Inv' /\ [Next]_vars => [Len(deferred') < Len(deferred) => camera # "closed"]_vars
    BY <1>2
<1>. QED  BY <1>1, <1>3, PmsnapInvariant, PTL DEF Spec, ClosedOnce

(* Of a text of any length in one of the two forms, each number with or without a sign,
   parseROI takes the numbers of that form, and none of a text that does not begin like
   one of them (main.go:156-165).                                            *)
THEOREM AsWritten == Spec => []WindowAsWritten
<1>1. Inv => WindowAsWritten
    <2>. SUFFICES ASSUME Inv PROVE WindowAsWritten
        OBVIOUS
    <2>1. roi \in Seq(Texts) /\ Len(roi) \in Nat
        <3>1. roi \in Seq(Texts)
            BY Constants DEF Inv, Types, Texts
        <3>. QED  BY <3>1, LenProperties
    <2>2. /\ Behind(roi, Literals, 2) # 0 <=> BeginsWith(roi, 2)
          /\ Behind(roi, Literals, 4) # 0 <=> BeginsWith(roi, 4)
        BY <2>1, BehindIsWritten
    <2>3. SubSeq(roi, 1, Len(roi)) = roi
        BY <2>1, SubSeqFull
    <2>4. ASSUME roi \in Writings(4) PROVE ParseROI(roi) = 4
        <3>1. BeginsWith(roi, 4)
            BY <2>1, <2>3, <2>4 DEF BeginsWith
        <3>. QED  BY <2>2, <3>1 DEF ParseROI
    <2>5. ASSUME roi \in Writings(2) PROVE ParseROI(roi) = 2
        <3>1. BeginsWith(roi, 2)
            BY <2>1, <2>3, <2>5 DEF BeginsWith
        <3>2. ~BeginsWith(roi, 4)
            <4>1. \A w \in Writings(4) : Len(w) >= 7 /\ Len(w) \in Nat
                BY WritingsLength
            <4>2. Len(roi) <= 5
                BY <2>5, WritingsLength
            <4>. QED  BY <2>1, <4>1, <4>2 DEF BeginsWith
        <3>. QED  BY <2>2, <3>1, <3>2 DEF ParseROI
    <2>6. ASSUME ~BeginsWith(roi, 2) PROVE ParseROI(roi) = 0
        BY <2>2, <2>6, BehindShorter DEF ParseROI
    <2>. QED  BY <2>4, <2>5, <2>6 DEF WindowAsWritten
<1>. QED  BY <1>1, PmsnapInvariant, PTL
=============================================================================
