----------------------------- MODULE SettingsProofs -----------------------------
(***************************************************************************)
(* Proofs about Settings, for any array, packets, ladder and calls: that a *)
(* setting whose setter succeeded is what the device holds, whatever came  *)
(* in between, and what follows for the frames that are read.              *)
(*                                                                         *)
(* Part 1 is the inductive invariant, part 2 is about the requests of each *)
(* setter, part 3 shows that every action keeps the invariant, part 4 has  *)
(* the theorems.                                                           *)
(***************************************************************************)
EXTENDS Settings, SequenceTheorems, TLAPS

-----------------------------------------------------------------------------
(* Part 1: the inductive invariant.                                          *)

Stage == Setting \union {"setup"}

Registers == {"reset", "xStart", "yStart", "xEnd", "yEnd", "frameLength", "readout",
              "pedestal", "digitalTest", "dac", "globalGain", "rows",
              "speed", "mode", "added", "running"}

\* The values that a setter, or Init, is asked for.
Valid(s, v) ==
    CASE s = "setup"    -> v = 0
      [] s = "window"   -> /\ v \in Windows \union { <<0, 0, Width, Height>> }
                           /\ WindowOk(v[1], v[2], v[3], v[4])
      [] s = "depth"    -> v \in {8, 12}
      [] s = "offset"   -> v \in 0 .. OffsetMax
      [] s = "gain"     -> v \in 1 .. GainMax
      [] s = "exposure" -> v \in [rows : 1 .. MaxRows, ms : Nat]

\* The requests of a stage; those of a gain keep the fixed bits, whatever the column
\* bits were.
Requests(s, v) ==
    IF s = "gain"
    THEN << <<"digitalTest", <<FixedBits, Columns(v)>> >>,
            <<"dac", Dac(v)>>,
            <<"globalGain", DigitalGain[v]>> >>
    ELSE Ops(s, v)

\* What they write.
Touched(s) ==
    CASE s = "setup"    -> {"speed", "reset", "rewind", "sequence", "pedestal", "dac",
                            "digitalTest", "readout"}
      [] s = "window"   -> {"reset", "xStart", "yStart", "xEnd", "yEnd", "frameLength"}
      [] s = "depth"    -> {"mode"}
      [] s = "offset"   -> {"pedestal"}
      [] s = "gain"     -> {"digitalTest", "dac", "globalGain"}
      [] s = "exposure" -> {"added", "rows"}

\* What the device holds when the requests before the k-th have reached it.
Written(s, v, k) ==
    CASE s = "setup"    ->
            /\ k > 11 => device.readout = 1
            /\ Attempts = 1 =>
                  /\ k = 4 => sequencer = <<>>
                  /\ k = 5 => sequencer = <<1>>
                  /\ k = 6 => sequencer = <<1, 2>>
                  /\ k > 6 => sequencer = <<1, 2, 1>>
      [] s = "window"   ->
            /\ k > 2 => device.xStart = AddrOrigin + v[1]
            /\ k > 3 => device.yStart = AddrOrigin + v[2]
            /\ k > 4 => device.xEnd = AddrOrigin + v[1] + v[3] - 1
            /\ k > 5 => device.yEnd = AddrOrigin + v[2] + v[4] - 1
            /\ k > 6 => device.frameLength = v[4] + Blanking
            /\ k > 7 => device.reset = Run
      [] s = "depth"    -> k > 1 => device.mode = DepthMode(v)
      [] s = "offset"   -> k > 1 => device.pedestal = v + OffsetBias
      [] s = "gain"     ->
            /\ k > 1 => device.digitalTest = <<FixedBits, Columns(v)>>
            /\ k > 2 => device.dac = Dac(v)
            /\ k > 3 => device.globalGain = DigitalGain[v]
      [] s = "exposure" ->
            /\ k > 1 => device.added = v.ms % AddedModulus
            /\ k > 2 => device.rows = v.rows

HostTypes ==
    /\ open \in {"closed", "opening", "open"}
    /\ cache = [s \in Setting |-> cache[s]]
    /\ \A s \in Setting : cache[s] = NoSettings[s] \/ Valid(s, cache[s])
    /\ digitalTest \in (0 .. 1) \X (0 .. 3)
    /\ streaming \in BOOLEAN
    /\ dropped \in BOOLEAN
    /\ faults \in 0 .. MaxFaults
    /\ confirmed \subseteq Stage

DeviceTypes ==
    /\ device = [r \in Registers |-> device[r]]
    /\ device.rows \in 1 .. MaxRows
    /\ device.added \in 0 .. AddedModulus - 1
    /\ device.mode \in {0, 1}
    /\ device.speed = 12
    /\ device.xEnd \in Int /\ device.yEnd \in Int

\* The setting that is being written, and its value.
Writing == Head(stages)[1]
Value == Head(stages)[2]

\* Who is at work, and on what.
Staged ==
    /\ stages = <<>> => todo = <<>> /\ open # "opening"
    /\ open = "closed" => stages = <<>> /\ confirmed = {}
    /\ open # "closed" => digitalTest[1] = FixedBits
    /\ open = "opening" =>
          \E m \in 1 .. 6 :
              /\ stages = SubSeq(InitStages, m, 6)
              /\ confirmed \subseteq {InitStages[i][1] : i \in 1 .. m - 1}
    /\ (open = "open" /\ stages # <<>>) =>
          /\ stages = << <<Writing, Value>> >>
          /\ Writing \in Setting \ confirmed
          /\ Valid(Writing, Value)
    /\ streaming => open = "open"
    /\ streaming /\ stages # <<>> => Writing \notin {"window", "depth"}

\* How far it has come, and that what it has written is there.
Progress ==
    stages # <<>> =>
        \E k \in 1 .. Len(Requests(Writing, Value)) + 1 :
            /\ todo = SubSeq(Requests(Writing, Value), k, Len(Requests(Writing, Value)))
            /\ ~dropped => Written(Writing, Value, k)

\* What was confirmed is one of the values asked for, and the sequencer's words are
\* those of the table as long as no request is repeated.
Confirmed ==
    /\ ConfirmedInForce
    /\ \A s \in confirmed \intersect Setting : Valid(s, cache[s])
    /\ Attempts = 1 => SequencerInOrder

Inv ==
    /\ HostTypes
    /\ DeviceTypes
    /\ Staged
    /\ Progress
    /\ Confirmed

-----------------------------------------------------------------------------
(* Part 2: the requests of each setter.                                      *)

\* A number is its quotient's multiple and its remainder.
LEMMA DivMod ==
    ASSUME NEW a \in Int, NEW b \in Int, b > 0
    PROVE  /\ a = b * (a \div b) + (a % b)
           /\ a \div b \in Int
           /\ a % b \in 0 .. b - 1
OBVIOUS

\* The constants, one by one.
LEMMA Constants ==
    /\ Width \in Nat /\ Width > 0 /\ Height \in Nat /\ Height > 0
    /\ Packet \in Nat /\ Packet > 0 /\ GainMax \in Nat /\ GainMax > 0
    /\ RowTime \in Nat /\ RowTime > 0 /\ MaxRows \in Nat /\ MaxRows > 0
    /\ Millisecond \in Nat /\ Millisecond > 0
    /\ AddedModulus \in Nat /\ AddedModulus > 0
    /\ DefaultExposure \in Nat /\ DefaultExposure > 0 /\ Attempts \in Nat /\ Attempts > 0
    /\ AddrOrigin \in Nat /\ Blanking \in Nat /\ OffsetMax \in Nat
    /\ OffsetBias \in Nat /\ MaxFaults \in Nat
<1>1. \A c \in {Width, Height, Packet, GainMax, RowTime, MaxRows, Millisecond,
                AddedModulus, DefaultExposure, Attempts} : c \in Nat \ {0}
    BY SettingsAssumption DEF SettingsAssumption
<1>2. \A c \in {AddrOrigin, Blanking, OffsetMax, OffsetBias, MaxFaults} : c \in Nat
    BY SettingsAssumption DEF SettingsAssumption
<1>3. \A c \in Nat \ {0} : c \in Nat /\ c > 0
    OBVIOUS
<1>. QED  BY <1>1, <1>2, <1>3

\* Each setter makes between one and eleven requests.
LEMMA RequestsAreSeq ==
    ASSUME NEW s \in Stage, NEW v
    PROVE  /\ \E S : Requests(s, v) \in Seq(S)
           /\ Len(Requests(s, v)) = CASE s = "setup" -> 11 [] s = "window" -> 7
                                      [] s = "depth" -> 1 [] s = "offset" -> 1
                                      [] s = "gain" -> 3 [] s = "exposure" -> 2
<1>. USE DEF Requests, Ops
<1>1. CASE s = "setup"
    <2>. DEFINE A == << <<"speed", 12>> >>
                B == << <<"digitalTest", <<FixedBits, ColumnBits>> >>, <<"reset", Run>>,
                        <<"readout", 1>> >>
                S == {A[1], B[1], B[2], B[3]} \union {InitCmos[i] : i \in 1 .. 7}
    <2>1. A \in Seq(S) /\ Len(A) = 1
        OBVIOUS
    <2>2. InitCmos \in Seq(S) /\ Len(InitCmos) = 7
        BY DEF InitCmos
    <2>3. B \in Seq(S) /\ Len(B) = 3
        OBVIOUS
    <2>. HIDE DEF A, B, S
    <2>4. A \o InitCmos \in Seq(S)
        BY <2>1, <2>2, ConcatProperties
    <2>6. SetupOps \in Seq(S)
        <3>1. (A \o InitCmos) \o B \in Seq(S)
            BY <2>3, <2>4, ConcatProperties
        <3>. QED  BY <3>1 DEF SetupOps, A, B
    <2>7. Len(SetupOps) = 11
        BY DEF SetupOps, InitCmos
    <2>. QED  BY <1>1, <2>6, <2>7
<1>2. CASE s = "window"
    <2>. DEFINE W == WindowOps(v[1], v[2], v[3], v[4])
    <2>1. W \in Seq({W[1], W[2], W[3], W[4], W[5], W[6], W[7]}) /\ Len(W) = 7
        BY DEF WindowOps
    <2>. QED  BY <1>2, <2>1
<1>3. CASE s = "depth"
    <2>1. Requests(s, v) \in Seq({<<"mode", DepthMode(v)>>}) /\ Len(Requests(s, v)) = 1
        BY <1>3
    <2>. QED  BY <1>3, <2>1
<1>4. CASE s = "offset"
    <2>1. /\ Requests(s, v) \in Seq({<<"pedestal", v + OffsetBias>>})
          /\ Len(Requests(s, v)) = 1
        BY <1>4
    <2>. QED  BY <1>4, <2>1
<1>5. CASE s = "gain"
    <2>. DEFINE G == Requests(s, v)
    <2>1. G \in Seq({G[1], G[2], G[3]}) /\ Len(G) = 3
        BY <1>5
    <2>. QED  BY <1>5, <2>1
<1>6. CASE s = "exposure"
    <2>. DEFINE E == ExposureOps(v)
    <2>1. E \in Seq({E[1], E[2]}) /\ Len(E) = 2
        BY DEF ExposureOps
    <2>. QED  BY <1>6, <2>1
<1>. QED  BY <1>1, <1>2, <1>3, <1>4, <1>5, <1>6 DEF Stage, Setting

\* Init's are those of its table between the bridge's speed and the readout.
LEMMA SetupRequests ==
    /\ SetupOps[1] = <<"speed", 12>> /\ SetupOps[2] = <<"reset", Hold>>
    /\ SetupOps[3] = <<"rewind", 0>> /\ SetupOps[4] = <<"sequence", 1>>
    /\ SetupOps[5] = <<"sequence", 2>> /\ SetupOps[6] = <<"sequence", 1>>
    /\ SetupOps[7] = <<"pedestal", 200>> /\ SetupOps[8] = <<"dac", "low">>
    /\ SetupOps[9] = <<"digitalTest", <<FixedBits, ColumnBits>> >>
    /\ SetupOps[10] = <<"reset", Run>> /\ SetupOps[11] = <<"readout", 1>>
BY DEF SetupOps, InitCmos

\* A window is four integers.
LEMMA WindowsAreInts ==
    ASSUME NEW w \in Windows \union { <<0, 0, Width, Height>> }
    PROVE  /\ w[1] \in Int /\ w[2] \in Int /\ w[3] \in Int /\ w[4] \in Int
           /\ w = <<w[1], w[2], w[3], w[4]>>
<1>1. w \in Int \X Int \X Int \X Int
    <2>1. <<0, 0, Width, Height>> \in Int \X Int \X Int \X Int
        BY Constants
    <2>. QED  BY <2>1, SettingsAssumption DEF SettingsAssumption
<1>. QED  BY <1>1

\* A request is of its own setter's registers, with a value they can hold.
LEMMA RequestFits ==
    ASSUME NEW s \in Stage, NEW v, Valid(s, v), NEW k \in 1 .. Len(Requests(s, v))
    PROVE  LET op == Requests(s, v)[k]
           IN  /\ op[1] \in Touched(s)
               /\ op[1] = "rows" => op[2] \in 1 .. MaxRows
               /\ op[1] = "added" => op[2] \in 0 .. AddedModulus - 1
               /\ op[1] = "mode" => op[2] \in {0, 1}
               /\ op[1] = "speed" => op[2] = 12
               /\ op[1] \in {"xEnd", "yEnd"} => op[2] \in Int
<1>. DEFINE op == Requests(s, v)[k]
<1>. USE DEF Requests, Ops, Touched, Valid
<1>1. CASE s = "setup"
    <2>1. k \in {1, 2, 3, 4, 5, 6, 7, 8, 9, 10, 11}
        <3>1. Len(Requests(s, v)) = 11
            BY <1>1, RequestsAreSeq
        <3>2. \A i \in 1 .. 11 : i \in {1, 2, 3, 4, 5, 6, 7, 8, 9, 10, 11}
            OBVIOUS
        <3>. QED  BY <3>1, <3>2
    <2>2. op = SetupOps[k]
        BY <1>1
    <2>. HIDE DEF op
    <2>3. /\ op[1] \in Touched("setup")
          /\ op[1] \notin {"rows", "added", "mode", "xEnd", "yEnd"}
          /\ op[1] = "speed" => op[2] = 12
        BY <2>1, <2>2, SetupRequests
    <2>. QED  BY <1>1, <2>3 DEF op
<1>2. CASE s = "window"
    <2>1. k \in 1 .. 7
        BY <1>2, RequestsAreSeq
    <2>2. v[1] \in Int /\ v[2] \in Int /\ v[3] \in Int /\ v[4] \in Int
        BY <1>2, WindowsAreInts
    <2>. QED  BY <1>2, <2>1, <2>2, Constants DEF WindowOps
<1>3. CASE s = "depth"
    <2>1. k = 1
        BY <1>3, RequestsAreSeq
    <2>. QED  BY <1>3, <2>1 DEF DepthMode
<1>4. CASE s = "offset"
    <2>1. k = 1
        BY <1>4, RequestsAreSeq
    <2>. QED  BY <1>4, <2>1
<1>5. CASE s = "gain"
    <2>1. k \in 1 .. 3
        BY <1>5, RequestsAreSeq
    <2>. QED  BY <1>5, <2>1
<1>6. CASE s = "exposure"
    <2>1. k \in 1 .. 2
        BY <1>6, RequestsAreSeq
    <2>2. v.ms \in Nat /\ v.rows \in 1 .. MaxRows
        BY <1>6
    <2>3. \A n \in Nat : n % AddedModulus \in 0 .. AddedModulus - 1
        BY DivMod, Constants
    <2>. QED  BY <1>6, <2>1, <2>2, <2>3 DEF ExposureOps
<1>. QED  BY <1>1, <1>2, <1>3, <1>4, <1>5, <1>6 DEF Stage, Setting

\* A request carried out leaves what the others have written.
LEMMA OthersKept ==
    ASSUME DeviceTypes, NEW op, NEW times \in 0 .. Attempts, Applied(op, times),
           NEW s \in Setting, op[1] \in Touched(s),
           NEW t \in Stage \ {s}, InForce(t), UNCHANGED cache
    PROVE  InForce(t)'
<1>1. device' = device \/ device' = [device EXCEPT ![op[1]] = op[2]]
    BY DEF Applied
<1>. USE <1>1 DEF DeviceTypes, Registers, Touched, Stage, Setting
<1>2. CASE t = "setup"
    BY <1>2 DEF InForce
<1>3. CASE t = "window"
    BY <1>3 DEF InForce
<1>4. CASE t = "depth"
    BY <1>4 DEF InForce
<1>5. CASE t = "offset"
    BY <1>5 DEF InForce
<1>6. CASE t = "gain"
    BY <1>6 DEF InForce
<1>7. CASE t = "exposure"
    BY <1>7 DEF InForce
<1>. QED  BY <1>2, <1>3, <1>4, <1>5, <1>6, <1>7

\* Registers keep their ranges, and no other setter feeds the sequencer.
LEMMA DeviceKept ==
    ASSUME DeviceTypes, NEW s \in Stage, NEW v, Valid(s, v),
           NEW k \in 1 .. Len(Requests(s, v)),
           NEW times \in 0 .. Attempts, Applied(Requests(s, v)[k], times)
    PROVE  DeviceTypes' /\ (s # "setup" => UNCHANGED sequencer)
<1>. DEFINE op == Requests(s, v)[k]
<1>1. /\ op[1] \in Touched(s)
      /\ op[1] = "rows" => op[2] \in 1 .. MaxRows
      /\ op[1] = "added" => op[2] \in 0 .. AddedModulus - 1
      /\ op[1] = "mode" => op[2] \in {0, 1}
      /\ op[1] = "speed" => op[2] = 12
      /\ op[1] \in {"xEnd", "yEnd"} => op[2] \in Int
    BY RequestFits
<1>2. Applied(op, times)
    OBVIOUS
<1>. HIDE DEF op
<1>3. \/ device' = device
      \/ op[1] \in Registers /\ device' = [device EXCEPT ![op[1]] = op[2]]
    BY <1>1, <1>2 DEF Applied, Touched, Stage, Setting, Registers
<1>4. s # "setup" => UNCHANGED sequencer
    BY <1>1, <1>2 DEF Applied, Touched, Stage, Setting
<1>5. DeviceTypes'
    BY <1>1, <1>3 DEF DeviceTypes, Registers
<1>. QED  BY <1>4, <1>5

\* The sequencer's words, one more at a time.
LEMMA Feed12 == <<1>> \o [i \in 1 .. 1 |-> 2] = <<1, 2>>
<1>. DEFINE t == <<1>> \o [i \in 1 .. 1 |-> 2]
<1>1. /\ <<1>> \in Seq({1, 2}) /\ Len(<<1>>) = 1
      /\ [i \in 1 .. 1 |-> 2] \in Seq({1, 2}) /\ Len([i \in 1 .. 1 |-> 2]) = 1
      /\ <<1, 2>> \in Seq({1, 2}) /\ Len(<<1, 2>>) = 2
    OBVIOUS
<1>2. t \in Seq({1, 2}) /\ Len(t) = 2 /\ t[1] = 1 /\ t[2] = 2
    BY <1>1, ConcatProperties
<1>. HIDE DEF t
<1>3. t = <<1, 2>>
    BY <1>1, <1>2, SeqEqual
<1>. QED  BY <1>3 DEF t

\* The third of them.
LEMMA Feed121 == <<1, 2>> \o [i \in 1 .. 1 |-> 1] = <<1, 2, 1>>
<1>. DEFINE t == <<1, 2>> \o [i \in 1 .. 1 |-> 1]
<1>1. /\ <<1, 2>> \in Seq({1, 2}) /\ Len(<<1, 2>>) = 2
      /\ [i \in 1 .. 1 |-> 1] \in Seq({1, 2}) /\ Len([i \in 1 .. 1 |-> 1]) = 1
      /\ <<1, 2, 1>> \in Seq({1, 2}) /\ Len(<<1, 2, 1>>) = 3
    OBVIOUS
<1>2. t \in Seq({1, 2}) /\ Len(t) = 3 /\ t[1] = 1 /\ t[2] = 2 /\ t[3] = 1
    BY <1>1, ConcatProperties
<1>. HIDE DEF t
<1>3. t = <<1, 2, 1>>
    BY <1>1, <1>2, SeqEqual
<1>. QED  BY <1>3 DEF t

\* A request that reaches the device brings its setter one further.
LEMMA WrittenGrows ==
    ASSUME DeviceTypes, NEW s \in Stage, NEW v, Valid(s, v),
           NEW k \in 1 .. Len(Requests(s, v)), Written(s, v, k),
           NEW times \in 1 .. Attempts, Applied(Requests(s, v)[k], times)
    PROVE  Written(s, v, k + 1)'
<1>. DEFINE op == Requests(s, v)[k]
<1>1. /\ op[1] \in Registers \ {"rewind", "sequence"}
            => device' = [device EXCEPT ![op[1]] = op[2]] /\ UNCHANGED sequencer
      /\ op[1] = "rewind" => sequencer' = <<>> /\ UNCHANGED device
      /\ op[1] = "sequence" =>
            sequencer' = sequencer \o [i \in 1 .. times |-> op[2]] /\ UNCHANGED device
    BY DEF Applied, Registers
<1>. HIDE DEF op
<1>0. device = [r \in Registers |-> device[r]]
    BY DEF DeviceTypes
<1>2. CASE s = "setup"
    <2>1. k \in {1, 2, 3, 4, 5, 6, 7, 8, 9, 10, 11} /\ op = SetupOps[k]
        <3>1. Len(Requests(s, v)) = 11
            BY <1>2, RequestsAreSeq
        <3>2. \A i \in 1 .. 11 : i \in {1, 2, 3, 4, 5, 6, 7, 8, 9, 10, 11}
            OBVIOUS
        <3>. QED  BY <1>2, <3>1, <3>2 DEF op, Requests, Ops
    <2>2. k + 1 > 11 => device'.readout = 1
        BY <1>0, <1>1, <2>1, SetupRequests DEF Registers
    <2>3. ASSUME Attempts = 1
          PROVE  /\ k + 1 = 4 => sequencer' = <<>>
                 /\ k + 1 = 5 => sequencer' = <<1>>
                 /\ k + 1 = 6 => sequencer' = <<1, 2>>
                 /\ k + 1 > 6 => sequencer' = <<1, 2, 1>>
        <3>1. times = 1
            BY <2>3
        <3>2. CASE k \notin {4, 5, 6}
            BY <1>1, <1>2, <2>1, <2>3, <3>2, SetupRequests DEF Written, Registers
        <3>3. CASE k = 4
            <4>1. sequencer' = <<>> \o [i \in 1 .. 1 |-> 1]
                BY <1>1, <1>2, <2>1, <2>3, <3>1, <3>3, SetupRequests DEF Written
            <4>2. <<>> \o [i \in 1 .. 1 |-> 1] = <<1>>
                OBVIOUS
            <4>. QED  BY <3>3, <4>1, <4>2
        <3>4. CASE k = 5
            <4>1. sequencer' = <<1>> \o [i \in 1 .. 1 |-> 2]
                <5>1. sequencer = <<1>>
                    BY <1>2, <2>3, <3>4 DEF Written
                <5>2. op = <<"sequence", 2>>
                    BY <2>1, <3>4, SetupRequests
                <5>. QED  BY <1>1, <3>1, <5>1, <5>2
            <4>2. <<1>> \o [i \in 1 .. 1 |-> 2] = <<1, 2>>
                BY Feed12
            <4>. QED  BY <3>4, <4>1, <4>2
        <3>5. CASE k = 6
            <4>1. sequencer' = <<1, 2>> \o [i \in 1 .. 1 |-> 1]
                <5>1. sequencer = <<1, 2>>
                    BY <1>2, <2>3, <3>5 DEF Written
                <5>2. op = <<"sequence", 1>>
                    BY <2>1, <3>5, SetupRequests
                <5>. QED  BY <1>1, <3>1, <5>1, <5>2
            <4>2. <<1, 2>> \o [i \in 1 .. 1 |-> 1] = <<1, 2, 1>>
                BY Feed121
            <4>. QED  BY <3>5, <4>1, <4>2
        <3>. QED  BY <3>2, <3>3, <3>4, <3>5
    <2>. QED  BY <1>2, <2>2, <2>3 DEF Written
<1>3. CASE s = "window"
    <2>1. k \in 1 .. 7 /\ op = WindowOps(v[1], v[2], v[3], v[4])[k]
        BY <1>3, RequestsAreSeq DEF op, Requests, Ops
    <2>2. /\ k = 1 => op = <<"reset", Hold>>
          /\ k = 2 => op = <<"xStart", AddrOrigin + v[1]>>
          /\ k = 3 => op = <<"yStart", AddrOrigin + v[2]>>
          /\ k = 4 => op = <<"xEnd", AddrOrigin + v[1] + v[3] - 1>>
          /\ k = 5 => op = <<"yEnd", AddrOrigin + v[2] + v[4] - 1>>
          /\ k = 6 => op = <<"frameLength", v[4] + Blanking>>
          /\ k = 7 => op = <<"reset", Run>>
        BY <2>1 DEF WindowOps
    <2>3. k \in {1, 2, 3, 4, 5, 6, 7}
        BY <2>1
    <2>4. /\ op[1] \in Registers \ {"rewind", "sequence"}
          /\ device' = [device EXCEPT ![op[1]] = op[2]]
        BY <1>1, <2>2, <2>3 DEF Registers
    <2>. QED  BY <1>0, <1>3, <2>2, <2>3, <2>4 DEF Written, Registers
<1>4. CASE s = "depth"
    <2>1. k = 1 /\ op = <<"mode", DepthMode(v)>>
        BY <1>4, RequestsAreSeq DEF op, Requests, Ops
    <2>. QED  BY <1>0, <1>1, <1>4, <2>1 DEF Written, Registers
<1>5. CASE s = "offset"
    <2>1. k = 1 /\ op = <<"pedestal", v + OffsetBias>>
        BY <1>5, RequestsAreSeq DEF op, Requests, Ops
    <2>. QED  BY <1>0, <1>1, <1>5, <2>1 DEF Written, Registers
<1>6. CASE s = "gain"
    <2>1. k \in 1 .. 3
        BY <1>6, RequestsAreSeq
    <2>2. /\ k = 1 => op = <<"digitalTest", <<FixedBits, Columns(v)>> >>
          /\ k = 2 => op = <<"dac", Dac(v)>>
          /\ k = 3 => op = <<"globalGain", DigitalGain[v]>>
        BY <1>6, <2>1 DEF op, Requests
    <2>. QED  BY <1>0, <1>1, <1>6, <2>1, <2>2 DEF Written, Registers
<1>7. CASE s = "exposure"
    <2>1. k \in 1 .. 2 /\ op = ExposureOps(v)[k]
        BY <1>7, RequestsAreSeq DEF op, Requests, Ops
    <2>. QED  BY <1>0, <1>1, <1>7, <2>1 DEF Written, ExposureOps, Registers
<1>. QED  BY <1>2, <1>3, <1>4, <1>5, <1>6, <1>7 DEF Stage, Setting

\* With the last request answered, the device holds what the setter was asked for.
LEMMA WrittenIsInForce ==
    ASSUME NEW s \in Stage, NEW v, Valid(s, v), DeviceTypes,
           Written(s, v, Len(Requests(s, v)) + 1), UNCHANGED <<device, sequencer>>,
           s \in Setting => cache'[s] = v
    PROVE  /\ InForce(s)'
           /\ (s = "setup" /\ Attempts = 1) => sequencer' = <<1, 2, 1>>
<1>1. CASE s = "setup"
    <2>1. Written("setup", v, 12)
        <3>1. Len(Requests(s, v)) = 11
            BY <1>1, RequestsAreSeq
        <3>2. Len(Requests(s, v)) + 1 = 12
            BY <3>1
        <3>. QED  BY <1>1, <3>2
    <2>. QED  BY <1>1, <2>1 DEF Written, InForce
<1>2. CASE s = "window"
    <2>1. Written("window", v, 8)
        <3>1. Len(Requests(s, v)) = 7
            BY <1>2, RequestsAreSeq
        <3>2. Len(Requests(s, v)) + 1 = 8
            BY <3>1
        <3>. QED  BY <1>2, <3>2
    <2>2. v[1] \in Int /\ v[2] \in Int /\ v[3] \in Int /\ v[4] \in Int
        <3>1. v \in Windows \/ v = <<0, 0, Width, Height>>
            BY <1>2 DEF Valid
        <3>2. v \in Windows => v \in Int \X Int \X Int \X Int
            BY SettingsAssumption DEF SettingsAssumption
        <3>. QED  BY <3>1, <3>2, Constants
    <2>3. cache'.window = v
        BY <1>2 DEF Setting
    <2>4. /\ device'.reset = Run /\ device'.frameLength = v[4] + Blanking
          /\ device'.xStart = AddrOrigin + v[1] /\ device'.xEnd = AddrOrigin + v[1] + v[3] - 1
          /\ device'.yStart = AddrOrigin + v[2] /\ device'.yEnd = AddrOrigin + v[2] + v[4] - 1
        BY <2>1 DEF Written
    <2>5. /\ device'.xEnd + 1 - device'.xStart = v[3]
          /\ device'.yEnd + 1 - device'.yStart = v[4]
        <3>1. \A a, b, c \in Int : (a + b + c - 1) + 1 - (a + b) = c
            OBVIOUS
        <3>2. AddrOrigin \in Int
            BY Constants
        <3>3. (AddrOrigin + v[1] + v[3] - 1) + 1 - (AddrOrigin + v[1]) = v[3]
            BY <2>2, <3>1, <3>2
        <3>4. (AddrOrigin + v[2] + v[4] - 1) + 1 - (AddrOrigin + v[2]) = v[4]
            BY <2>2, <3>1, <3>2
        <3>. QED  BY <2>4, <3>3, <3>4
    <2>. QED  BY <1>2, <2>3, <2>4, <2>5 DEF InForce
<1>3. CASE s = "depth"
    <2>1. Written("depth", v, 2)
        <3>1. Len(Requests(s, v)) = 1
            BY <1>3, RequestsAreSeq
        <3>2. Len(Requests(s, v)) + 1 = 2
            BY <3>1
        <3>. QED  BY <1>3, <3>2
    <2>. QED  BY <1>3, <2>1 DEF Written, InForce, Setting, DepthMode, Valid
<1>4. CASE s = "offset"
    <2>1. Written("offset", v, 2)
        <3>1. Len(Requests(s, v)) = 1
            BY <1>4, RequestsAreSeq
        <3>2. Len(Requests(s, v)) + 1 = 2
            BY <3>1
        <3>. QED  BY <1>4, <3>2
    <2>. QED  BY <1>4, <2>1 DEF Written, InForce, Setting
<1>5. CASE s = "gain"
    <2>1. Written("gain", v, 4)
        <3>1. Len(Requests(s, v)) = 3
            BY <1>5, RequestsAreSeq
        <3>2. Len(Requests(s, v)) + 1 = 4
            BY <3>1
        <3>. QED  BY <1>5, <3>2
    <2>. QED  BY <1>5, <2>1 DEF Written, InForce, Setting
<1>6. CASE s = "exposure"
    <2>1. Written("exposure", v, 3)
        <3>1. Len(Requests(s, v)) = 2
            BY <1>6, RequestsAreSeq
        <3>2. Len(Requests(s, v)) + 1 = 3
            BY <3>1
        <3>. QED  BY <1>6, <3>2
    <2>. QED  BY <1>6, <2>1 DEF Written, InForce, Setting, DeviceTypes
<1>. QED  BY <1>1, <1>2, <1>3, <1>4, <1>5, <1>6 DEF Stage, Setting

\* A positive time is at least one row and no more than the sensor has.
LEMMA ProgrammedFits ==
    ASSUME NEW t \in Int, t > 0
    PROVE  Programmed(t) \in [rows : 1 .. MaxRows, ms : Nat]
<1>1. CASE t < RowTime
    BY <1>1, Constants DEF Programmed
<1>2. CASE t >= RowTime /\ t <= RowTime * MaxRows
    <2>. DEFINE q == t \div RowTime
    <2>1. t = RowTime * q + (t % RowTime) /\ q \in Int /\ t % RowTime \in 0 .. RowTime - 1
        BY DivMod, Constants
    <2>2. Programmed(t) = [rows |-> q, ms |-> 0]
        BY <1>2, Constants DEF Programmed
    <2>. HIDE DEF q
    <2>3. q >= 1
        <3>1. SUFFICES ASSUME q <= 0 PROVE FALSE
            BY <2>1
        <3>2. RowTime * q <= 0
            BY <2>1, <3>1, Constants
        <3>. QED  BY <1>2, <2>1, <3>2, Constants
    <2>4. q <= MaxRows
        <3>1. SUFFICES ASSUME q >= MaxRows + 1 PROVE FALSE
            BY <2>1, Constants
        <3>2. RowTime * q >= RowTime * (MaxRows + 1)
            BY <2>1, <3>1, Constants
        <3>3. RowTime * (MaxRows + 1) = RowTime * MaxRows + RowTime
            BY Constants
        <3>. QED  BY <1>2, <2>1, <3>2, <3>3, Constants
    <2>. QED  BY <2>1, <2>2, <2>3, <2>4, Constants
<1>3. CASE t >= RowTime /\ t > RowTime * MaxRows
    <2>. DEFINE a == t - RowTime * MaxRows
                q == a \div Millisecond
    <2>1. a \in Int /\ a > 0
        BY <1>3, Constants
    <2>2. /\ a = Millisecond * q + (a % Millisecond)
          /\ q \in Int /\ a % Millisecond \in 0 .. Millisecond - 1
        BY <2>1, DivMod, Constants
    <2>3. Programmed(t) = [rows |-> MaxRows, ms |-> q]
        BY <1>3, Constants DEF Programmed
    <2>. HIDE DEF a, q
    <2>4. q >= 0
        <3>1. SUFFICES ASSUME q <= -1 PROVE FALSE
            BY <2>2
        <3>2. Millisecond * q <= Millisecond * (-1)
            BY <2>2, <3>1, Constants
        <3>. QED  BY <2>1, <2>2, <3>2, Constants
    <2>. QED  BY <2>2, <2>3, <2>4, Constants
<1>. QED  BY <1>1, <1>2, <1>3, Constants

\* What Init asks for are values that the setters accept.
LEMMA InitStagesFit ==
    ASSUME NEW m \in 1 .. 6
    PROVE  /\ InitStages[m][1] \in Stage
           /\ InitStages[m][1] = "setup" <=> m = 1
           /\ Valid(InitStages[m][1], InitStages[m][2])
           /\ InitStages[m] = <<InitStages[m][1], InitStages[m][2]>>
           /\ \A i \in 1 .. 6 : InitStages[i][1] = InitStages[m][1] => i = m
<1>1. Valid("window", <<0, 0, Width, Height>>)
    <2>1. WindowOk(0, 0, Width, Height)
        BY SettingsAssumption, Constants DEF SettingsAssumption, WindowOk
    <2>. QED  BY <2>1 DEF Valid
<1>2. Valid("exposure", Programmed(DefaultExposure))
    BY ProgrammedFits, Constants DEF Valid
<1>3. Valid("gain", 1) /\ Valid("offset", 0) /\ Valid("depth", 8) /\ Valid("setup", 0)
    BY Constants DEF Valid
<1>4. \A i \in 1 .. 6 : i \in {1, 2, 3, 4, 5, 6}
    OBVIOUS
<1>5. /\ InitStages[1] = <<"setup", 0>>
      /\ InitStages[2] = <<"window", <<0, 0, Width, Height>> >>
      /\ InitStages[3] = <<"depth", 8>> /\ InitStages[4] = <<"offset", 0>>
      /\ InitStages[5] = <<"gain", 1>>
      /\ InitStages[6] = <<"exposure", Programmed(DefaultExposure)>>
    BY DEF InitStages
<1>6. Valid(InitStages[m][1], InitStages[m][2])
    BY <1>1, <1>2, <1>3, <1>4, <1>5
<1>7. /\ InitStages[m][1] \in Stage
      /\ InitStages[m][1] = "setup" <=> m = 1
      /\ InitStages[m] = <<InitStages[m][1], InitStages[m][2]>>
    BY <1>4, <1>5 DEF Stage, Setting
<1>8. \A i \in 1 .. 6 : InitStages[i][1] = InitStages[m][1] => i = m
    BY <1>4, <1>5
<1>. QED  BY <1>6, <1>7, <1>8

\* Init is six stages, taken one after the other.
LEMMA InitStagesRest ==
    ASSUME NEW m \in 1 .. 6
    PROVE  /\ SubSeq(InitStages, m, 6) # <<>>
           /\ Head(SubSeq(InitStages, m, 6)) = InitStages[m]
           /\ Tail(SubSeq(InitStages, m, 6)) = SubSeq(InitStages, m + 1, 6)
           /\ Len(SubSeq(InitStages, m, 6)) = 7 - m
           /\ SubSeq(InitStages, 1, 6) = InitStages
<1>. DEFINE S == {InitStages[i] : i \in 1 .. 6}
<1>1. InitStages \in Seq(S) /\ Len(InitStages) = 6
    BY DEF InitStages
<1>. HIDE DEF S
<1>2. /\ Head(SubSeq(InitStages, m, 6)) = InitStages[m]
      /\ Tail(SubSeq(InitStages, m, 6)) = SubSeq(InitStages, m + 1, 6)
    BY <1>1, HeadTailOfSubSeq
<1>3. Len(SubSeq(InitStages, m, 6)) = 7 - m
    <2>1. \A i \in m .. 6 : InitStages[i] \in S
        BY DEF S
    <2>. QED  BY <2>1, SubSeqProperties
<1>4. SubSeq(InitStages, m, 6) # <<>>
    <2>1. Len(SubSeq(InitStages, m, 6)) # 0
        BY <1>3
    <2>. QED  BY <2>1, EmptySeq
<1>5. SubSeq(InitStages, 1, 6) = InitStages
    BY <1>1, SubSeqFull
<1>. QED  BY <1>2, <1>3, <1>4, <1>5

\* What is left of a setter's requests.
LEMMA RequestsRest ==
    ASSUME NEW s \in Stage, NEW v, NEW k \in 1 .. Len(Requests(s, v)) + 1
    PROVE  LET n == Len(Requests(s, v))
               rest == SubSeq(Requests(s, v), k, n)
           IN  /\ rest = <<>> <=> k = n + 1
               /\ k <= n => /\ Head(rest) = Requests(s, v)[k]
                            /\ Tail(rest) = SubSeq(Requests(s, v), k + 1, n)
               /\ Len(rest) <= 11
               /\ SubSeq(Requests(s, v), 1, n) = Requests(s, v)
<1>. DEFINE R == Requests(s, v)
            n == Len(R)
<1>1. n \in 1 .. 11
    BY RequestsAreSeq DEF Stage, Setting
<1>2. PICK S : R \in Seq(S)
    BY RequestsAreSeq
<1>. HIDE DEF R, n
<1>3. n = Len(R) /\ k \in 1 .. n + 1
    BY DEF R, n
<1>4. k <= n => Head(SubSeq(R, k, n)) = R[k] /\ Tail(SubSeq(R, k, n)) = SubSeq(R, k + 1, n)
    BY <1>1, <1>2, <1>3, HeadTailOfSubSeq
<1>5. Len(SubSeq(R, k, n)) = n - k + 1
    <2>1. \A i \in k .. n : R[i] \in S
        BY <1>1, <1>2, <1>3, ElementOfSeq
    <2>2. Len(SubSeq(R, k, n)) = IF k <= n THEN n - k + 1 ELSE 0
        BY <1>1, <1>3, <2>1, SubSeqProperties
    <2>. QED  BY <1>1, <1>3, <2>2
<1>6. k = n + 1 => SubSeq(R, k, n) = <<>>
    BY <1>1, <1>3, SubSeqEmpty
<1>7. SubSeq(R, 1, n) = R
    BY <1>2, <1>3, SubSeqFull
<1>8. SubSeq(R, k, n) = <<>> => k = n + 1
    <2>1. SubSeq(R, k, n) = <<>> => Len(SubSeq(R, k, n)) = 0
        BY EmptySeq
    <2>. QED  BY <1>1, <1>3, <1>5, <2>1
<1>9. Len(SubSeq(R, k, n)) <= 11
    BY <1>1, <1>3, <1>5
<1>. QED  BY <1>4, <1>6, <1>7, <1>8, <1>9 DEF R, n

\* With the fixed bits where Init put them, a setter's requests depend on its value
\* alone.
LEMMA OpsAreRequests ==
    ASSUME NEW s \in Stage, NEW v, s = "gain" => digitalTest[1] = FixedBits
    PROVE  Ops(s, v) = Requests(s, v)
<1>1. CASE s = "gain"
    <2>1. Ops(s, v) = GainOps(v)
        BY <1>1 DEF Ops
    <2>2. WithColumns(digitalTest, v) = <<FixedBits, Columns(v)>>
        BY <1>1 DEF WithColumns
    <2>. QED  BY <1>1, <2>1, <2>2 DEF GainOps, Requests
<1>2. CASE s # "gain"
    BY <1>2 DEF Requests
<1>. QED  BY <1>1, <1>2

\* Before the first of them, nothing is written.
LEMMA NothingWritten ==
    ASSUME NEW s \in Stage, NEW v
    PROVE  Written(s, v, 1) /\ Written(s, v, 1)'
<1>1. CASE s = "setup"
    BY <1>1 DEF Written
<1>2. CASE s = "window"
    BY <1>2 DEF Written
<1>3. CASE s = "depth"
    BY <1>3 DEF Written
<1>4. CASE s = "offset"
    BY <1>4 DEF Written
<1>5. CASE s = "gain"
    BY <1>5 DEF Written
<1>6. CASE s = "exposure"
    BY <1>6 DEF Written
<1>. QED  BY <1>1, <1>2, <1>3, <1>4, <1>5, <1>6 DEF Stage, Setting

\* A gain of the ladder has a column gain of two bits.
LEMMA ColumnsFit ==
    ASSUME NEW g \in 1 .. GainMax
    PROVE  Columns(g) \in 0 .. 3
<1>1. CASE g <= 7
    <2>1. g \in {1, 2, 3, 4, 5, 6, 7}
        BY <1>1, Constants
    <2>2. Columns(g) = (g - 1) \div 2
        BY <1>1 DEF Columns
    <2>. QED  BY <2>1, <2>2
<1>2. CASE ~(g <= 7)
    BY <1>2 DEF Columns
<1>. QED  BY <1>1, <1>2

-----------------------------------------------------------------------------
(* Part 3: every action keeps the invariant.                                 *)

\* The setting being written is of an open Camera, or one that Init opens, with a
\* value that was accepted; it is not confirmed any more.
LEMMA WritingFits ==
    ASSUME HostTypes, Staged, stages # <<>>
    PROVE  /\ Writing \in Stage \ confirmed
           /\ Valid(Writing, Value)
           /\ open # "closed"
           /\ Writing = "setup" => open = "opening" /\ confirmed = {}
<1>1. open \in {"opening", "open"}
    BY DEF HostTypes, Staged
<1>2. CASE open = "open"
    BY <1>2 DEF Staged, Stage, Setting
<1>3. CASE open = "opening"
    <2>1. PICK m \in 1 .. 6 :
              /\ stages = SubSeq(InitStages, m, 6)
              /\ confirmed \subseteq {InitStages[i][1] : i \in 1 .. m - 1}
        BY <1>3 DEF Staged
    <2>2. Writing = InitStages[m][1] /\ Value = InitStages[m][2]
        BY <2>1, InitStagesRest DEF Writing, Value
    <2>3. InitStages[m][1] \notin {InitStages[i][1] : i \in 1 .. m - 1}
        BY InitStagesFit
    <2>4. m = 1 => confirmed = {}
        BY <2>1
    <2>. QED  BY <1>3, <2>1, <2>2, <2>3, <2>4, InitStagesFit
<1>. QED  BY <1>1, <1>2, <1>3

\* A Camera that is closed has nothing, whatever the device holds.
LEMMA ClosedInv ==
    ASSUME Closed, DeviceTypes', faults' \in 0 .. MaxFaults
    PROVE  Inv'
<1>1. HostTypes'
    <2>1. NoSettings = [s \in Setting |-> NoSettings[s]]
        BY DEF NoSettings, Setting
    <2>2. cache' = NoSettings /\ digitalTest' = <<0, 0>>
        BY DEF Closed
    <2>3. /\ cache' = [s \in Setting |-> cache'[s]]
          /\ \A s \in Setting : cache'[s] = NoSettings[s]
        BY <2>1, <2>2
    <2>4. <<0, 0>> \in (0 .. 1) \X (0 .. 3)
        OBVIOUS
    <2>. QED  BY <2>2, <2>3, <2>4 DEF Closed, HostTypes
<1>2. Staged' /\ Progress'
    BY DEF Closed, Staged, Progress
<1>3. Confirmed'
    BY DEF Closed, Confirmed, ConfirmedInForce, SequencerInOrder
<1>. QED  BY <1>1, <1>2, <1>3 DEF Inv

\* What a Camera has confirmed stays so when its setters are in force still.
LEMMA ConfirmedKept ==
    ASSUME Confirmed, confirmed' \subseteq confirmed, UNCHANGED <<cache, sequencer>>,
           \A t \in confirmed' : InForce(t)'
    PROVE  Confirmed'
BY DEF Confirmed, ConfirmedInForce, SequencerInOrder

\* Whether a setting is in force depends on the device and on the Camera's field.
LEMMA InForceDepends ==
    ASSUME NEW t \in Stage, UNCHANGED device, t \in Setting => cache'[t] = cache[t],
           InForce(t)
    PROVE  InForce(t)'
<1>1. CASE t = "setup"
    BY <1>1 DEF InForce
<1>2. CASE t = "window"
    BY <1>2 DEF InForce, Setting
<1>3. CASE t = "depth"
    BY <1>3 DEF InForce, Setting
<1>4. CASE t = "offset"
    BY <1>4 DEF InForce, Setting
<1>5. CASE t = "gain"
    BY <1>5 DEF InForce, Setting
<1>6. CASE t = "exposure"
    BY <1>6 DEF InForce, Setting
<1>. QED  BY <1>1, <1>2, <1>3, <1>4, <1>5, <1>6 DEF Stage, Setting

\* A setter begins: its setting is not confirmed any more, and nothing is written yet.
LEMMA SetInv ==
    ASSUME Inv, Idle, NEW s \in Setting, NEW v, Valid(s, v), Set(s, v),
           s \in {"window", "depth"} => ~streaming
    PROVE  Inv'
<1>. DEFINE R == Requests(s, v)
<1>1. /\ stages' = << <<s, v>> >> /\ todo' = Ops(s, v)
      /\ digitalTest' = IF s = "gain" THEN WithColumns(digitalTest, v) ELSE digitalTest
      /\ confirmed' = confirmed \ {s} /\ dropped' = FALSE
      /\ UNCHANGED <<open, cache, streaming, device, sequencer, faults>>
    BY DEF Set, Begin, Setting
<1>2. Head(stages') = <<s, v>> /\ stages' # <<>>
    BY <1>1
<1>3. Writing' = s /\ Value' = v
    BY <1>2 DEF Writing, Value
<1>4. open = "open" /\ stages = <<>> /\ digitalTest[1] = FixedBits
    BY DEF Idle, Inv, Staged
<1>5. digitalTest' \in (0 .. 1) \X (0 .. 3) /\ digitalTest'[1] = FixedBits
    <2>1. s = "gain" => Columns(v) \in 0 .. 3
        BY ColumnsFit DEF Valid
    <2>2. digitalTest \in (0 .. 1) \X (0 .. 3)
        BY DEF Inv, HostTypes
    <2>. QED  BY <1>1, <1>4, <2>1, <2>2 DEF WithColumns
<1>6. HostTypes' /\ DeviceTypes'
    <2>1. \A t, w : Valid(t, w)' <=> Valid(t, w)
        BY DEF Valid
    <2>. QED  BY <1>1, <1>5, <2>1 DEF Inv, HostTypes, DeviceTypes
<1>7. Staged'
    <2>1. Valid(s, v)'
        BY DEF Valid
    <2>. QED  BY <1>1, <1>2, <1>3, <1>4, <1>5, <2>1 DEF Inv, HostTypes, Staged
<1>8. Progress'
    <2>1. todo' = SubSeq(R, 1, Len(R)) /\ 1 \in 1 .. Len(R) + 1
        BY <1>1, <1>4, OpsAreRequests, RequestsRest, RequestsAreSeq DEF Stage, Setting
    <2>2. Written(s, v, 1)'
        BY NothingWritten DEF Stage
    <2>3. Requests(s, v)' = R
        BY DEF Requests, Ops
    <2>. QED  BY <1>1, <1>3, <2>1, <2>2, <2>3 DEF Progress
<1>9. Confirmed'
    BY <1>1, InForceDepends, ConfirmedKept DEF Inv, HostTypes, Confirmed, ConfirmedInForce
<1>. QED  BY <1>6, <1>7, <1>8, <1>9 DEF Inv

\* A request, answered or not and carried out or not: what other setters have written
\* stays, and one that is answered and reached the device is one more of this one's.
LEMMA RequestInv ==
    ASSUME Inv, NEW times \in 0 .. Attempts, NEW answered \in BOOLEAN,
           Request(times, answered)
    PROVE  Inv'
<1>1. stages # <<>>
    BY DEF Inv, Staged, Request
<1>2. PICK s, v : s = Writing /\ v = Value
    OBVIOUS
<1>. DEFINE R == Requests(s, v)
            n == Len(R)
<1>3. /\ s \in Stage \ confirmed /\ Valid(s, v) /\ open # "closed"
      /\ s = "setup" => open = "opening" /\ confirmed = {}
    BY <1>1, <1>2, WritingFits DEF Inv
<1>4. PICK k \in 1 .. n + 1 : todo = SubSeq(R, k, n) /\ (~dropped => Written(s, v, k))
    BY <1>1, <1>2 DEF Inv, Progress
<1>5. n \in 1 .. 11
    BY <1>3, RequestsAreSeq DEF Stage, Setting
<1>6. k \in 1 .. n /\ Head(todo) = R[k] /\ Tail(todo) = SubSeq(R, k + 1, n)
    BY <1>3, <1>4, <1>5, RequestsRest DEF Request
<1>7. Applied(R[k], times)
    BY <1>6 DEF Request
<1>8. faults' \in 0 .. MaxFaults
    <2>1. faults' = faults \/ (faults < MaxFaults /\ faults' = faults + 1)
        BY DEF Request
    <2>2. faults \in 0 .. MaxFaults
        BY DEF Inv, HostTypes
    <2>. QED  BY <2>1, <2>2, Constants
<1>9. DeviceTypes' /\ (s # "setup" => UNCHANGED sequencer)
    BY <1>3, <1>6, <1>7, DeviceKept DEF Inv
<1>10. CASE ~answered /\ open = "opening"
    BY <1>8, <1>9, <1>10, ClosedInv DEF Request, Fails
<1>11. CASE answered \/ open = "open"
    <2>1. UNCHANGED <<open, cache, digitalTest, streaming, confirmed>>
        BY <1>11 DEF Request, Fails
    <2>2. dropped' \in BOOLEAN
        BY <1>11 DEF Request, Fails, Inv, HostTypes
    <2>3. HostTypes'
        <3>1. \A t, w : Valid(t, w)' <=> Valid(t, w)
            BY DEF Valid
        <3>. QED  BY <1>8, <2>1, <2>2, <3>1 DEF Inv, HostTypes
    <2>4. \A t \in confirmed' : InForce(t)'
        <3>. SUFFICES ASSUME NEW t \in confirmed PROVE InForce(t)'
            BY <2>1
        <3>1. InForce(t) /\ t \in Stage \ {s} /\ s \in Setting
            BY <1>3 DEF Inv, Confirmed, ConfirmedInForce, HostTypes, Stage
        <3>2. R[k][1] \in Touched(s)
            BY <1>3, <1>6, RequestFits
        <3>. QED  BY <1>7, <2>1, <3>1, <3>2, OthersKept DEF Inv
    <2>5. Confirmed'
        <3>1. CASE s # "setup"
            BY <1>9, <2>1, <2>4, <3>1, ConfirmedKept DEF Inv
        <3>2. CASE s = "setup"
            BY <1>3, <2>1, <3>2 DEF Confirmed, ConfirmedInForce, SequencerInOrder
        <3>. QED  BY <3>1, <3>2
    <2>6. Staged' /\ Progress'
        <3>1. CASE ~answered
            <4>1. stages' = <<>> /\ todo' = <<>> /\ open = "open"
                BY <1>11, <3>1 DEF Request, Fails
            <4>. QED  BY <2>1, <4>1 DEF Inv, Staged, Progress
        <3>2. CASE answered
            <4>1. stages' = stages /\ todo' = SubSeq(R, k + 1, n)
                BY <1>6, <3>2 DEF Request
            <4>2. Staged'
                <5>1. Valid(s, v)'
                    BY <1>3 DEF Valid
                <5>. QED  BY <1>1, <1>2, <2>1, <4>1, <5>1 DEF Inv, Staged, Writing, Value
            <4>3. ~dropped' => Written(s, v, k + 1)'
                <5>. SUFFICES ASSUME ~dropped' PROVE Written(s, v, k + 1)'
                    OBVIOUS
                <5>1. ~dropped /\ times \in 1 .. Attempts
                    <6>1. dropped' = (dropped \/ times = 0)
                        BY <3>2 DEF Request
                    <6>2. ~dropped /\ times # 0
                        BY <6>1
                    <6>. QED  BY <6>2, Constants
                <5>. QED  BY <1>3, <1>4, <1>6, <1>7, <5>1, WrittenGrows DEF Inv
            <4>4. Requests(s, v)' = R
                BY DEF Requests, Ops
            <4>5. Writing' = s /\ Value' = v
                BY <1>2, <4>1 DEF Writing, Value
            <4>6. k + 1 \in 1 .. n + 1
                BY <1>5, <1>6
            <4>. QED  BY <4>1, <4>2, <4>3, <4>4, <4>5, <4>6 DEF Progress
        <3>. QED  BY <3>1, <3>2
    <2>. QED  BY <1>9, <2>3, <2>5, <2>6 DEF Inv
<1>12. open \in {"opening", "open"}
    BY <1>3 DEF Inv, HostTypes
<1>. QED  BY <1>10, <1>11, <1>12

\* The Camera takes the setting, and Init goes on to its next one.
LEMMA SettingDoneInv ==
    ASSUME Inv, SettingDone
    PROVE  Inv'
<1>1. PICK s, v : s = Writing /\ v = Value
    OBVIOUS
<1>. DEFINE R == Requests(s, v)
            n == Len(R)
            sure == IF dropped THEN confirmed ELSE confirmed \union {s}
<1>2. /\ s \in Stage \ confirmed /\ Valid(s, v) /\ open # "closed"
      /\ s = "setup" => open = "opening" /\ confirmed = {}
    BY <1>1, WritingFits DEF Inv, SettingDone
<1>3. /\ cache' = IF s \in Setting THEN [cache EXCEPT ![s] = v] ELSE cache
      /\ confirmed' = sure /\ dropped' = FALSE
      /\ UNCHANGED <<streaming, device, sequencer, faults>>
    BY <1>1 DEF SettingDone, Writing, Value
<1>4. ~dropped => Written(s, v, n + 1)
    <2>1. PICK k \in 1 .. n + 1 : todo = SubSeq(R, k, n) /\ (~dropped => Written(s, v, k))
        BY <1>1 DEF Inv, Progress, SettingDone
    <2>2. k = n + 1
        BY <1>2, <2>1, RequestsRest DEF SettingDone
    <2>. QED  BY <2>1, <2>2
<1>5. /\ s \in Setting => cache'[s] = v
      /\ \A t \in Setting \ {s} : cache'[t] = cache[t]
      /\ cache' = [t \in Setting |-> cache'[t]]
    BY <1>3 DEF Inv, HostTypes
<1>6. digitalTest[1] = FixedBits /\ digitalTest \in (0 .. 1) \X (0 .. 3)
    BY <1>2 DEF Inv, Staged, HostTypes
<1>7. DeviceTypes'
    BY <1>3 DEF Inv, DeviceTypes
<1>8. Confirmed'
    <2>1. ASSUME NEW t \in confirmed', t # s
          PROVE  InForce(t)' /\ (t \in Setting => Valid(t, cache'[t]))
        <3>1. t \in confirmed
            BY <1>3, <2>1
        <3>2. InForce(t) /\ t \in Stage /\ (t \in Setting => Valid(t, cache[t]))
            BY <3>1 DEF Inv, HostTypes, Confirmed, ConfirmedInForce
        <3>3. t \in Setting => cache'[t] = cache[t]
            BY <1>5, <2>1
        <3>. QED  BY <1>3, <3>2, <3>3, InForceDepends
    <2>2. ASSUME s \in confirmed'
          PROVE  InForce(s)' /\ ((s = "setup" /\ Attempts = 1) => sequencer' = <<1, 2, 1>>)
        <3>1. ~dropped
            BY <1>2, <1>3, <2>2
        <3>. QED  BY <1>2, <1>3, <1>4, <1>5, <3>1, WrittenIsInForce DEF Inv
    <2>3. ConfirmedInForce'
        BY <2>1, <2>2 DEF ConfirmedInForce
    <2>4. (\A t \in confirmed \intersect Setting : Valid(t, cache[t]))'
        BY <1>2, <1>5, <2>1 DEF Valid
    <2>5. Attempts = 1 => SequencerInOrder'
        <3>1. "setup" \in confirmed' /\ s # "setup" => "setup" \in confirmed
            BY <1>3
        <3>. QED  BY <1>3, <2>2, <3>1 DEF Inv, Confirmed, SequencerInOrder
    <2>. QED  BY <2>3, <2>4, <2>5 DEF Confirmed
<1>9. HostTypes' /\ Staged' /\ Progress' => Inv'
    BY <1>7, <1>8 DEF Inv
<1>10. Valid(s, v)' /\ \A t, w : Valid(t, w)' <=> Valid(t, w)
    BY <1>2 DEF Valid
<1>11. confirmed' \subseteq Stage
    BY <1>2, <1>3 DEF Inv, HostTypes
<1>12. open' \in {"opening", "open"} /\ digitalTest' \in (0 .. 1) \X (0 .. 3)
          => HostTypes'
    <2>1. \A t \in Setting : (cache[t] = NoSettings[t] \/ Valid(t, cache[t]))'
        BY <1>2, <1>5, <1>10 DEF Inv, HostTypes
    <2>. QED  BY <1>3, <1>5, <1>11, <2>1 DEF Inv, HostTypes
<1>13. streaming' => open = "open"
    BY <1>3 DEF Inv, Staged
<1>14. CASE Len(stages) = 1
    <2>1. stages' = <<>> /\ todo' = <<>> /\ open' = "open" /\ UNCHANGED digitalTest
        BY <1>14 DEF SettingDone
    <2>2. Staged' /\ Progress'
        BY <1>6, <2>1 DEF Staged, Progress
    <2>. QED  BY <1>6, <1>9, <1>12, <2>1, <2>2
<1>15. CASE Len(stages) # 1
    <2>1. open = "opening"
        <3>1. open = "open" => stages = << <<s, v>> >>
            BY <1>1 DEF Inv, Staged, SettingDone
        <3>2. open = "open" => Len(stages) = 1
            BY <3>1
        <3>. QED  BY <1>2, <1>15, <3>2 DEF Inv, HostTypes
    <2>2. PICK m \in 1 .. 6 :
              /\ stages = SubSeq(InitStages, m, 6)
              /\ confirmed \subseteq {InitStages[i][1] : i \in 1 .. m - 1}
        BY <2>1 DEF Inv, Staged
    <2>3. m \in 1 .. 5 /\ m + 1 \in 1 .. 6
        <3>1. Len(stages) = 7 - m
            BY <2>2, InitStagesRest
        <3>. QED  BY <1>15, <3>1
    <2>4. s = InitStages[m][1]
        BY <1>1, <2>2, InitStagesRest DEF Writing
    <2>. DEFINE next == InitStages[m + 1]
                t == next[1]
                g == next[2]
    <2>5. Tail(stages) = SubSeq(InitStages, m + 1, 6)
        BY <2>2, InitStagesRest
    <2>6. Head(Tail(stages)) = next /\ Tail(stages) # <<>>
        BY <2>3, <2>5, InitStagesRest
    <2>7. /\ t \in Stage /\ t # "setup" /\ Valid(t, g) /\ next = <<t, g>>
        BY <2>3, InitStagesFit
    <2>8. /\ stages' = SubSeq(InitStages, m + 1, 6)
          /\ todo' = Ops(t, g)
          /\ digitalTest' = IF t = "gain" THEN WithColumns(digitalTest, g) ELSE digitalTest
          /\ open' = "opening"
        BY <1>15, <2>1, <2>5, <2>6 DEF SettingDone
    <2>. HIDE DEF next, t, g
    <2>9. digitalTest' \in (0 .. 1) \X (0 .. 3) /\ digitalTest'[1] = FixedBits
        <3>1. t = "gain" => Columns(g) \in 0 .. 3
            BY <2>7, ColumnsFit DEF Valid
        <3>. QED  BY <1>6, <2>8, <3>1 DEF WithColumns
    <2>10. Writing' = t /\ Value' = g /\ stages' # <<>>
        <3>1. stages' = Tail(stages)
            BY <2>5, <2>8
        <3>2. Head(stages') = <<t, g>> /\ stages' # <<>>
            BY <2>6, <2>7, <3>1
        <3>. QED  BY <3>2 DEF Writing, Value
    <2>11. confirmed' \subseteq {InitStages[i][1] : i \in 1 .. (m + 1) - 1}
        BY <1>3, <2>2, <2>3, <2>4
    <2>12. ~streaming'
        BY <1>13, <2>1
    <2>13. Staged'
        BY <2>3, <2>8, <2>9, <2>10, <2>11, <2>12 DEF Staged
    <2>14. Progress'
        <3>1. todo' = SubSeq(Requests(t, g), 1, Len(Requests(t, g)))
            BY <1>6, <2>7, <2>8, OpsAreRequests, RequestsRest, RequestsAreSeq DEF Stage, Setting
        <3>2. 1 \in 1 .. Len(Requests(t, g)) + 1
            BY <2>7, RequestsAreSeq DEF Stage, Setting
        <3>3. Written(t, g, 1)'
            BY <2>7, NothingWritten
        <3>4. Requests(t, g)' = Requests(t, g)
            BY <2>7 DEF Requests, Ops
        <3>. QED  BY <2>10, <3>1, <3>2, <3>3, <3>4 DEF Progress
    <2>. QED  BY <1>9, <1>12, <2>8, <2>9, <2>13, <2>14
<1>. QED  BY <1>14, <1>15

\* Init begins: its six stages are all to do, and nothing is confirmed.
LEMMA OpenCameraInv ==
    ASSUME Inv, OpenCamera
    PROVE  Inv'
<1>1. /\ open = "closed" /\ open' = "opening" /\ stages' = InitStages
      /\ UNCHANGED <<cache, streaming, device, sequencer, faults>>
      /\ confirmed = {} /\ ~streaming /\ confirmed' = {}
      /\ dropped' = FALSE
    BY DEF OpenCamera, Begin, Inv, Staged
<1>2. Head(InitStages) = <<"setup", 0>> /\ InitStages # <<>>
    BY DEF InitStages
<1>3. todo' = Ops("setup", 0) /\ digitalTest' = <<FixedBits, ColumnBits>>
    BY <1>2 DEF OpenCamera, Begin
<1>4. Writing' = "setup" /\ Value' = 0 /\ stages' # <<>>
    BY <1>1, <1>2 DEF Writing, Value
<1>5. <<FixedBits, ColumnBits>> \in (0 .. 1) \X (0 .. 3)
    BY DEF FixedBits, ColumnBits
<1>6. HostTypes'
    <2>1. \A t, w : Valid(t, w)' <=> Valid(t, w)
        BY DEF Valid
    <2>. QED  BY <1>1, <1>3, <1>5, <2>1 DEF Inv, HostTypes
<1>7. DeviceTypes'
    BY <1>1 DEF Inv, DeviceTypes
<1>8. Staged'
    <2>1. stages' = SubSeq(InitStages, 1, 6) /\ 1 \in 1 .. 6
        BY <1>1, InitStagesRest
    <2>2. confirmed' \subseteq {InitStages[i][1] : i \in 1 .. 1 - 1}
        BY <1>1
    <2>3. digitalTest'[1] = FixedBits
        BY <1>3
    <2>. QED  BY <1>1, <1>4, <2>1, <2>2, <2>3 DEF Staged
<1>9. Progress'
    <2>. DEFINE R == Requests("setup", 0)
    <2>1. R = Ops("setup", 0) /\ Requests("setup", 0)' = R
        BY DEF Requests, Ops
    <2>2. R = SubSeq(R, 1, Len(R)) /\ 1 \in 1 .. Len(R) + 1
        BY RequestsRest, RequestsAreSeq DEF Stage
    <2>3. Written("setup", 0, 1)'
        BY NothingWritten DEF Stage
    <2>. QED  BY <1>3, <1>4, <2>1, <2>2, <2>3 DEF Progress
<1>10. Confirmed'
    BY <1>1 DEF Confirmed, ConfirmedInForce, SequencerInOrder
<1>. QED  BY <1>6, <1>7, <1>8, <1>9, <1>10 DEF Inv

\* A run begins or does not; the sensor's registers and the bridge's are as they were.
LEMMA StartInv ==
    ASSUME Inv, NEW running \in BOOLEAN, NEW started \in BOOLEAN, Start(running, started)
    PROVE  Inv'
<1>1. /\ open = "open" /\ stages = <<>>
      /\ device' = [device EXCEPT !.running = @ \/ running]
      /\ streaming' = (streaming \/ started)
      /\ UNCHANGED <<open, cache, digitalTest, stages, todo, sequencer, confirmed,
                     dropped, faults>>
    BY DEF Start, Idle
<1>2. device = [r \in Registers |-> device[r]]
    BY DEF Inv, DeviceTypes
<1>3. /\ \A r \in Registers \ {"running"} : device'[r] = device[r]
      /\ device' = [r \in Registers |-> device'[r]]
    BY <1>1, <1>2
<1>4. HostTypes' /\ Staged' /\ Progress'
    <2>1. \A t, w : Valid(t, w)' <=> Valid(t, w)
        BY DEF Valid
    <2>2. streaming' \in BOOLEAN
        BY <1>1
    <2>3. HostTypes'
        BY <1>1, <2>1, <2>2 DEF Inv, HostTypes
    <2>4. Staged'
        BY <1>1 DEF Inv, Staged
    <2>. QED  BY <1>1, <2>3, <2>4 DEF Progress
<1>5. DeviceTypes'
    BY <1>3 DEF Inv, DeviceTypes, Registers
<1>6. Confirmed'
    <2>1. ASSUME NEW t \in confirmed' PROVE InForce(t)'
        <3>1. t \in Stage /\ InForce(t)
            BY <1>1 DEF Inv, HostTypes, Confirmed, ConfirmedInForce
        <3>2. CASE t \in {"setup", "depth", "offset", "gain"}
            BY <1>1, <1>3, <3>1, <3>2 DEF InForce, Registers
        <3>3. CASE t = "window"
            BY <1>1, <1>3, <3>1, <3>3 DEF InForce, Registers
        <3>4. CASE t = "exposure"
            BY <1>1, <1>3, <3>1, <3>4 DEF InForce, Registers
        <3>. QED  BY <3>1, <3>2, <3>3, <3>4 DEF Stage, Setting
    <2>. QED  BY <1>1, <2>1, ConfirmedKept DEF Inv
<1>. QED  BY <1>4, <1>5, <1>6 DEF Inv

\* The Camera stops, or what has been read or is to be read changes.
LEMMA QuietInv ==
    ASSUME Inv, streaming' = streaming \/ streaming' = FALSE,
           UNCHANGED <<open, cache, digitalTest, stages, todo, device, sequencer,
                       confirmed, dropped, faults>>
    PROVE  Inv'
<1>1. HostTypes'
    <2>1. \A t, w : Valid(t, w)' <=> Valid(t, w)
        BY DEF Valid
    <2>. QED  BY <2>1 DEF Inv, HostTypes
<1>2. DeviceTypes'
    BY DEF Inv, DeviceTypes
<1>3. Writing' = Writing /\ Value' = Value
    BY DEF Writing, Value
<1>4. Staged'
    <2>1. Valid(Writing, Value)' <=> Valid(Writing, Value)
        BY <1>3 DEF Valid
    <2>. QED  BY <1>3, <2>1 DEF Inv, Staged
<1>5. Progress'
    <2>1. \A s, v, k : Written(s, v, k)' <=> Written(s, v, k)
        BY DEF Written
    <2>2. \A s, v : Requests(s, v)' = Requests(s, v)
        BY DEF Requests, Ops, GainOps, WithColumns
    <2>. QED  BY <1>3, <2>1, <2>2 DEF Inv, Progress
<1>6. Confirmed'
    BY InForceDepends, ConfirmedKept DEF Inv, HostTypes, Confirmed, ConfirmedInForce
<1>. QED  BY <1>1, <1>2, <1>4, <1>5, <1>6 DEF Inv

\* What the sensor and the bridge hold when they are powered.
LEMMA PowerOnFits ==
    /\ PowerOn = [r \in Registers |-> PowerOn[r]]
    /\ PowerOn.rows \in 1 .. MaxRows /\ PowerOn.added \in 0 .. AddedModulus - 1
    /\ PowerOn.mode \in {0, 1} /\ PowerOn.speed = 12
    /\ PowerOn.xEnd \in Int /\ PowerOn.yEnd \in Int
<1>1. PowerOn = [r \in Registers |-> PowerOn[r]]
    BY DEF PowerOn, Registers
<1>2. /\ PowerOn.rows = 1 /\ PowerOn.added = 0 /\ PowerOn.xEnd = 0 /\ PowerOn.yEnd = 0
      /\ PowerOn.mode = 0 /\ PowerOn.speed = 12
    BY DEF PowerOn
<1>. QED  BY <1>1, <1>2, Constants

\* A device that nobody has open may lose everything.
LEMMA PowerCycleInv ==
    ASSUME Inv, PowerCycle
    PROVE  Inv'
<1>1. /\ open = "closed" /\ stages = <<>> /\ confirmed = {}
      /\ device' = PowerOn /\ UNCHANGED <<host, confirmed, dropped, faults>>
    BY DEF PowerCycle, Inv, Staged
<1>2. HostTypes'
    <2>1. \A t, w : Valid(t, w)' <=> Valid(t, w)
        BY DEF Valid
    <2>. QED  BY <1>1, <2>1 DEF Inv, HostTypes, host
<1>3. DeviceTypes'
    BY <1>1, PowerOnFits DEF DeviceTypes
<1>4. Staged' /\ Progress' /\ Confirmed'
    BY <1>1 DEF Inv, Staged, Progress, Confirmed, ConfirmedInForce, SequencerInOrder, host
<1>. QED  BY <1>2, <1>3, <1>4 DEF Inv

\* Nobody has opened the camera.
LEMMA InitInv ==
    ASSUME Init
    PROVE  Inv
<1>1. HostTypes
    <2>1. NoSettings = [s \in Setting |-> NoSettings[s]]
        BY DEF NoSettings, Setting
    <2>2. <<0, 0>> \in (0 .. 1) \X (0 .. 3)
        OBVIOUS
    <2>3. 0 \in 0 .. MaxFaults
        BY Constants
    <2>. QED  BY <2>1, <2>2, <2>3 DEF Init, HostTypes
<1>2. DeviceTypes
    BY PowerOnFits DEF Init, DeviceTypes
<1>3. Staged /\ Progress /\ Confirmed
    BY DEF Init, Staged, Progress, Confirmed, ConfirmedInForce, SequencerInOrder
<1>. QED  BY <1>1, <1>2, <1>3 DEF Inv

\* The actions, one after the other.
LEMMA NextInv ==
    ASSUME Inv, [Next]_vars
    PROVE  Inv'
<1>1. ASSUME OpenCamera PROVE Inv'
    BY <1>1, OpenCameraInv
<1>2. ASSUME NEW w \in Windows, SetROI(w[1], w[2], w[3], w[4]) PROVE Inv'
    <2>1. w = <<w[1], w[2], w[3], w[4]>>
        BY WindowsAreInts
    <2>2. Idle /\ ~streaming /\ Set("window", w) /\ WindowOk(w[1], w[2], w[3], w[4])
        BY <1>2, <2>1 DEF SetROI
    <2>3. Valid("window", w) /\ "window" \in Setting
        BY <2>2 DEF Valid, Setting
    <2>. QED  BY <2>2, <2>3, SetInv
<1>3. ASSUME NEW bits \in {8, 12}, SetDepth(bits) PROVE Inv'
    <2>1. Valid("depth", bits) /\ "depth" \in Setting
        BY DEF Valid, Setting
    <2>. QED  BY <1>3, <2>1, SetInv DEF SetDepth
<1>4. ASSUME NEW n \in Offsets, SetOffset(n) PROVE Inv'
    <2>1. Valid("offset", n) /\ "offset" \in Setting
        BY <1>4 DEF Valid, Setting, SetOffset
    <2>. QED  BY <1>4, <2>1, SetInv DEF SetOffset
<1>5. ASSUME NEW g \in Gains, SetGain(g) PROVE Inv'
    <2>1. Valid("gain", g) /\ "gain" \in Setting
        BY <1>5 DEF Valid, Setting, SetGain
    <2>. QED  BY <1>5, <2>1, SetInv DEF SetGain
<1>6. ASSUME NEW t \in Exposures, SetExposure(t) PROVE Inv'
    <2>1. t \in Int /\ t > 0
        BY <1>6, SettingsAssumption DEF SettingsAssumption, SetExposure
    <2>2. Valid("exposure", Programmed(t)) /\ "exposure" \in Setting
        BY <2>1, ProgrammedFits DEF Valid, Setting
    <2>. QED  BY <1>6, <2>2, SetInv DEF SetExposure
<1>7. ASSUME NEW times \in 0 .. Attempts, NEW answered \in BOOLEAN,
             Request(times, answered)
      PROVE  Inv'
    BY <1>7, RequestInv
<1>8. ASSUME SettingDone PROVE Inv'
    BY <1>8, SettingDoneInv
<1>9. ASSUME NEW running \in BOOLEAN, NEW started \in BOOLEAN, Start(running, started)
      PROVE  Inv'
    BY <1>9, StartInv
<1>10. ASSUME Stop PROVE Inv'
    BY <1>10, QuietInv DEF Stop
<1>11. ASSUME DeviceStreams \/ Capture PROVE Inv'
    BY <1>11, QuietInv DEF DeviceStreams, Capture, host
<1>12. ASSUME Exit PROVE Inv'
    <2>1. DeviceTypes' /\ faults' \in 0 .. MaxFaults
        BY <1>12 DEF Exit, Inv, DeviceTypes, HostTypes
    <2>. QED  BY <1>12, <2>1, ClosedInv DEF Exit
<1>13. ASSUME PowerCycle PROVE Inv'
    BY <1>13, PowerCycleInv
<1>14. ASSUME UNCHANGED vars PROVE Inv'
    BY <1>14, QuietInv DEF vars, host
<1>. QED  BY <1>1, <1>2, <1>3, <1>4, <1>5, <1>6, <1>7, <1>8, <1>9, <1>10, <1>11, <1>12,
             <1>13, <1>14 DEF Next

\* Only the setters of the window and of the depth write a register of the geometry.
LEMMA GeometryKept ==
    ASSUME Inv, NEW times \in 0 .. Attempts, NEW answered \in BOOLEAN,
           Request(times, answered), Writing \notin {"window", "depth"}
    PROVE  UNCHANGED DeviceGeometry
<1>1. stages # <<>>
    BY DEF Inv, Staged, Request
<1>2. PICK s, v : s = Writing /\ v = Value
    OBVIOUS
<1>. DEFINE R == Requests(s, v)
<1>3. s \in Stage \ {"window", "depth"} /\ Valid(s, v)
    BY <1>1, <1>2, WritingFits DEF Inv
<1>4. PICK k \in 1 .. Len(R) + 1 : todo = SubSeq(R, k, Len(R))
    BY <1>1, <1>2 DEF Inv, Progress
<1>5. Len(R) \in 1 .. 11
    BY <1>3, RequestsAreSeq DEF Stage, Setting
<1>6. k \in 1 .. Len(R) /\ Head(todo) = R[k]
    BY <1>3, <1>4, <1>5, RequestsRest DEF Request
<1>7. R[k][1] \in Touched(s)
    BY <1>3, <1>6, RequestFits
<1>8. R[k][1] \notin {"xStart", "yStart", "xEnd", "yEnd", "mode"}
    BY <1>3, <1>7 DEF Touched, Stage, Setting
<1>9. device' = device \/ device' = [device EXCEPT ![R[k][1]] = R[k][2]]
    BY <1>6 DEF Request, Applied
<1>10. device = [r \in Registers |-> device[r]]
    BY DEF Inv, DeviceTypes
<1>. HIDE DEF R
<1>. QED  BY <1>8, <1>9, <1>10 DEF DeviceGeometry, Registers

\* What there is to read is of the geometry of the device, unless the FIFO held something
\* else when it was set; Start has thrown that away.
Flow ==
    /\ leftover \in BOOLEAN
    /\ streaming => ~leftover
    /\ {"window", "depth"} \subseteq confirmed /\ ~leftover =>
          \A g \in ahead \union queued : g = DeviceGeometry

LEMMA FlowStep ==
    ASSUME Inv, Flow, [Next]_vars
    PROVE  Flow'
<1>1. ASSUME confirmed' \subseteq confirmed, UNCHANGED <<streaming, device, pixels>>
      PROVE  Flow'
    BY <1>1 DEF Flow, pixels, DeviceGeometry
<1>2. ASSUME OpenCamera PROVE Flow'
    BY <1>1, <1>2 DEF OpenCamera, Begin
<1>3. ASSUME NEW s, NEW v, Set(s, v) PROVE Flow'
    BY <1>1, <1>3 DEF Set, Begin
<1>4. ASSUME Closed PROVE Flow'
    BY <1>4 DEF Closed, Flow
<1>5. ASSUME NEW times \in 0 .. Attempts, NEW answered \in BOOLEAN,
             Request(times, answered)
      PROVE  Flow'
    <2>1. CASE ~answered /\ open = "opening"
        BY <1>4, <1>5, <2>1 DEF Request, Fails
    <2>2. CASE answered \/ open # "opening"
        <3>1. UNCHANGED <<streaming, pixels, confirmed>>
            BY <1>5, <2>2 DEF Request, Fails
        <3>2. {"window", "depth"} \subseteq confirmed => UNCHANGED DeviceGeometry
            <4>1. stages # <<>>
                BY <1>5 DEF Inv, Staged, Request
            <4>2. Writing \notin confirmed
                BY <4>1, WritingFits DEF Inv
            <4>. QED  BY <1>5, <4>2, GeometryKept
        <3>. QED  BY <3>1, <3>2 DEF Flow, pixels
    <2>. QED  BY <2>1, <2>2
<1>6. ASSUME SettingDone PROVE Flow'
    <2>1. /\ UNCHANGED <<streaming, device, queued>>
          /\ ahead' = AheadAfter(Writing)
          /\ leftover' = IF Writing \in {"window", "depth"}
                         THEN \E g \in queued : g # DeviceGeometry
                         ELSE leftover
          /\ confirmed' \in {confirmed, confirmed \union {Writing}}
        BY <1>6 DEF SettingDone, Writing
    <2>2. UNCHANGED DeviceGeometry
        BY <2>1 DEF DeviceGeometry
    <2>3. CASE Writing \in {"window", "depth"}
        <3>1. ~streaming
            BY <1>6, <2>3 DEF Inv, Staged, SettingDone
        <3>2. ahead' = {} /\ leftover' = (\E g \in queued : g # DeviceGeometry)
            BY <2>1, <2>3 DEF AheadAfter
        <3>. QED  BY <2>1, <2>2, <3>1, <3>2 DEF Flow
    <2>4. CASE Writing \notin {"window", "depth"}
        <3>1. ahead' = ahead /\ leftover' = leftover
            BY <2>1, <2>4 DEF AheadAfter
        <3>. QED  BY <2>1, <2>2, <2>4, <3>1 DEF Flow
    <2>. QED  BY <2>3, <2>4
<1>7. ASSUME NEW running \in BOOLEAN, NEW started \in BOOLEAN, Start(running, started)
      PROVE  Flow'
    <2>1. UNCHANGED DeviceGeometry
        <3>1. device = [r \in Registers |-> device[r]]
            BY DEF Inv, DeviceTypes
        <3>. QED  BY <1>7, <3>1 DEF Start, DeviceGeometry, Registers
    <2>2. /\ started => running
          /\ streaming' = (streaming \/ started) /\ ahead' = {}
          /\ queued' = IF running THEN {} ELSE queued
          /\ leftover' = (leftover /\ ~running) /\ confirmed' = confirmed
        BY <1>7 DEF Start
    <2>3. CASE running
        BY <2>2, <2>3 DEF Flow
    <2>4. CASE ~running
        <3>1. started = FALSE
            BY <2>2, <2>4
        <3>2. /\ streaming' = streaming /\ ahead' = {} /\ queued' = queued
              /\ leftover' = leftover
            BY <2>2, <2>4, <3>1 DEF Flow, Inv, HostTypes
        <3>. QED  BY <2>1, <2>2, <3>2 DEF Flow
    <2>. QED  BY <2>3, <2>4
<1>8. ASSUME Stop PROVE Flow'
    BY <1>8 DEF Stop, Flow, DeviceGeometry
<1>9. ASSUME DeviceStreams PROVE Flow'
    BY <1>9 DEF DeviceStreams, Flow, DeviceGeometry, host
<1>10. ASSUME Capture PROVE Flow'
    BY <1>10 DEF Capture, Flow, DeviceGeometry, host
<1>11. ASSUME Exit PROVE Flow'
    BY <1>4, <1>11 DEF Exit
<1>12. ASSUME PowerCycle PROVE Flow'
    BY <1>12 DEF PowerCycle, Flow, Inv, Staged, host
<1>13. ASSUME UNCHANGED vars PROVE Flow'
    BY <1>1, <1>13 DEF vars, host
<1>. QED  BY <1>2, <1>3, <1>5, <1>6, <1>7, <1>8, <1>9, <1>10, <1>11, <1>12, <1>13
          DEF Next, SetROI, SetDepth, SetOffset, SetGain, SetExposure

-----------------------------------------------------------------------------
(* Part 4: the theorems.                                                     *)

(* The invariant holds throughout: whatever a Camera has confirmed is in the device,
   every setter in progress has written what its answered requests say, and pixels of
   another geometry are where Flow says (camera.go:99-432).                  *)
THEOREM SettingsInvariant == Spec => [](Inv /\ Flow)
<1>1. Init => Inv /\ Flow
    BY InitInv DEF Init, Flow
<1>2. Inv /\ Flow /\ [Next]_vars => Inv' /\ Flow'
    BY NextInv, FlowStep
<1>. QED  BY <1>1, <1>2, PTL DEF Spec

\* A stage's value and the requests left of it are bounded by those of Init.
LEMMA StagesFit ==
    ASSUME Inv
    PROVE  Len(stages) <= Len(InitStages) /\ Len(todo) <= Len(SetupOps)
<1>1. Len(InitStages) = 6 /\ Len(SetupOps) = 11
    BY DEF InitStages, SetupOps, InitCmos
<1>2. CASE stages = <<>>
    <2>1. Len(stages) = 0 /\ Len(todo) = 0
        BY <1>2 DEF Inv, Staged
    <2>. QED  BY <1>1, <2>1
<1>3. CASE stages # <<>>
    <2>1. Len(todo) <= 11
        BY <1>3, RequestsRest, WritingFits DEF Inv, Progress
    <2>2. Len(stages) <= 6
        <3>1. open = "open" \/ open = "opening"
            BY <1>3 DEF Inv, HostTypes, Staged
        <3>2. CASE open = "open"
            <4>1. Len(stages) = 1
                BY <1>3, <3>2 DEF Inv, Staged
            <4>. QED  BY <4>1
        <3>3. CASE open = "opening"
            <4>1. PICK m \in 1 .. 6 : stages = SubSeq(InitStages, m, 6)
                BY <3>3 DEF Inv, Staged
            <4>2. Len(stages) = 7 - m
                BY <4>1, InitStagesRest
            <4>. QED  BY <4>2
        <3>. QED  BY <3>1, <3>2, <3>3
    <2>. QED  BY <1>1, <2>1, <2>2
<1>. QED  BY <1>2, <1>3

(* The Camera's fields are those of values its setters accept, and every register of
   the bridge holds what its width allows (camera.go:99-121, main.c:171-177).  *)
THEOREM SettingsTypes == Spec => []SettingsTypeOK
<1>1. Inv /\ Flow => SettingsTypeOK
    <2>1. SUFFICES ASSUME Inv, Flow PROVE SettingsTypeOK
        OBVIOUS
    <2>2. \A s \in Setting : cache[s] = NoSettings[s] \/ Valid(s, cache[s])
        BY <2>1 DEF Inv, HostTypes
    <2>3. \/ cache.window = <<0, 0, 0, 0>>
          \/ cache.window \in Windows
          \/ cache.window = <<0, 0, Width, Height>>
        BY <2>2 DEF Setting, NoSettings, Valid
    <2>4. cache.depth \in {0, 8, 12}
        BY <2>2 DEF Setting, NoSettings, Valid
    <2>5. cache.offset \in 0 .. OffsetMax
        <3>1. cache.offset = 0 \/ cache.offset \in 0 .. OffsetMax
            BY <2>2 DEF Setting, NoSettings, Valid
        <3>. QED  BY <3>1, Constants
    <2>6. cache.gain \in 0 .. GainMax
        <3>1. cache.gain = 0 \/ cache.gain \in 1 .. GainMax
            BY <2>2 DEF Setting, NoSettings, Valid
        <3>. QED  BY <3>1, Constants
    <2>7. cache.exposure \in [rows : 0 .. MaxRows, ms : Nat]
        <3>1. \/ cache.exposure = [rows |-> 0, ms |-> 0]
              \/ cache.exposure \in [rows : 1 .. MaxRows, ms : Nat]
            BY <2>2 DEF Setting, NoSettings, Valid
        <3>. QED  BY <3>1, Constants
    <2>. QED  BY <2>1, <2>3, <2>4, <2>5, <2>6, <2>7, StagesFit
              DEF SettingsTypeOK, Inv, HostTypes, DeviceTypes, Stage, Flow
<1>. QED  BY <1>1, SettingsInvariant, PTL

(* A setting whose last setter succeeded, with every write acknowledged, is what the
   device holds, whatever other setters did since and whatever an earlier process
   left there (camera.go:139-412).                                           *)
THEOREM ConfirmedStays == Spec => []ConfirmedInForce
<1>1. Inv => ConfirmedInForce
    BY DEF Inv, Confirmed
<1>. QED  BY <1>1, SettingsInvariant, PTL

\* A confirmed window and depth are the geometry of the device.
LEMMA CountedIsDevice ==
    ASSUME Inv, {"window", "depth"} \subseteq confirmed
    PROVE  DeviceGeometry = CountedGeometry
<1>. DEFINE w == cache.window
<1>1. InForce("window") /\ InForce("depth")
    BY DEF Inv, Confirmed, ConfirmedInForce
<1>2. Valid("window", cache.window) /\ Valid("depth", cache.depth)
    BY DEF Inv, Confirmed, Setting
<1>3. w[1] \in Int /\ w[2] \in Int /\ w[3] \in Int /\ w[4] \in Int
    BY <1>2, WindowsAreInts DEF Valid
<1>4. /\ device.xStart = AddrOrigin + w[1] /\ device.yStart = AddrOrigin + w[2]
      /\ device.xEnd + 1 - device.xStart = w[3]
      /\ device.yEnd + 1 - device.yStart = w[4]
    BY <1>1 DEF InForce
<1>5. device.mode = DepthMode(cache.depth)
    BY <1>1, <1>2 DEF InForce, Valid, DepthMode
<1>6. device.xEnd \in Int /\ device.yEnd \in Int
    BY DEF Inv, DeviceTypes
<1>7. /\ device.xEnd = AddrOrigin + w[1] + w[3] - 1
      /\ device.yEnd = AddrOrigin + w[2] + w[4] - 1
    <2>. HIDE DEF w
    <2>. QED  BY <1>3, <1>4, <1>6, Constants
<1>. QED  BY <1>4, <1>5, <1>7 DEF DeviceGeometry, CountedGeometry

(* With the window and the depth confirmed, what there is to read in a run, on the host
   and in the FIFO, is of the geometry Frame counts by; out of a run it is if the FIFO
   held nothing else when they were set (camera.go:174, 197, 419, main.c:97-108).  *)
THEOREM ReadAhead == Spec => []ReadAheadFits
<1>1. Inv /\ Flow => ReadAheadFits
    BY CountedIsDevice DEF Flow, ReadAheadFits
<1>. QED  BY <1>1, SettingsInvariant, PTL

(* When no request is repeated, as on linux, the sequencer of a Camera whose setup
   succeeded holds the words of its table, each as often and in that order
   (regs.go:11-12).  A transport that repeats one breaks it: see Settings_retry.  *)
THEOREM Sequencer == Attempts = 1 => (Spec => []SequencerInOrder)
<1>. SUFFICES ASSUME Attempts = 1 PROVE Spec => []SequencerInOrder
    OBVIOUS
<1>1. Inv => SequencerInOrder
    BY DEF Inv, Confirmed
<1>. QED  BY <1>1, SettingsInvariant, PTL

\* Twice a whole number of packets is one.
LEMMA Twice ==
    ASSUME NEW a \in Int, NEW b \in Int, b > 0, a % b = 0
    PROVE  (a * 2) % b = 0
<1>. DEFINE q == a \div b
<1>1. a = b * q + (a % b) /\ q \in Int
    BY DivMod
<1>. HIDE DEF q
<1>2. a * 2 = b * (q * 2) /\ q * 2 \in Int
    BY <1>1
<1>3. \A r \in Int : (b * r) % b = 0
    OBVIOUS
<1>. QED  BY <1>2, <1>3

(* With the window and the depth confirmed, the device's frames have the length that
   Frame counts, are a whole number of packets at either depth, and lie in the array
   (camera.go:122-128, 152-172).                                             *)
THEOREM Packets == Spec => []WholePackets
<1>1. Inv => WholePackets
    <2>. SUFFICES ASSUME Inv, "window" \in confirmed, "depth" \in confirmed
                  PROVE  WholePackets
        BY DEF WholePackets
    <2>. DEFINE c == cache.window
                x == c[1]
                y == c[2]
                w == c[3]
                h == c[4]
    <2>1. InForce("window") /\ InForce("depth")
        BY DEF Inv, Confirmed, ConfirmedInForce
    <2>2. Valid("window", cache.window) /\ Valid("depth", cache.depth)
        BY DEF Inv, Confirmed, Setting
    <2>3. x \in Int /\ y \in Int /\ w \in Int /\ h \in Int
        BY <2>2, WindowsAreInts DEF Valid
    <2>4. /\ x >= 0 /\ y >= 0 /\ w > 0 /\ h > 0 /\ (w * h) % Packet = 0
          /\ x + w <= Width /\ y + h <= Height
        BY <2>2 DEF Valid, WindowOk
    <2>5. /\ device.xStart = AddrOrigin + x /\ device.yStart = AddrOrigin + y
          /\ device.xEnd + 1 - device.xStart = w /\ device.yEnd + 1 - device.yStart = h
        BY <2>1 DEF InForce
    <2>6. device.xEnd \in Int /\ device.yEnd \in Int
        BY DEF Inv, DeviceTypes
    <2>7. /\ device.mode = (IF cache.depth = 8 THEN 0 ELSE 1)
          /\ cache.depth \in {8, 12}
        BY <2>1, <2>2 DEF InForce, Valid
    <2>. DEFINE bytes == w * h * (IF cache.depth = 12 THEN 2 ELSE 1)
                sent == (device.xEnd + 1 - device.xStart) * (device.yEnd + 1 - device.yStart)
                            * (1 + device.mode)
    <2>8. sent = bytes
        BY <2>3, <2>5, <2>7
    <2>9. bytes % Packet = 0
        <3>1. w * h \in Int /\ (w * h * 2) % Packet = 0
            BY <2>3, <2>4, Twice, Constants
        <3>2. w * h * 1 = w * h
            BY <2>3
        <3>. QED  BY <2>4, <2>7, <3>1, <3>2
    <2>10. /\ device.xStart >= AddrOrigin /\ device.xEnd < AddrOrigin + Width
           /\ device.yStart >= AddrOrigin /\ device.yEnd < AddrOrigin + Height
        <3>. HIDE DEF x, y, w, h
        <3>. QED  BY <2>3, <2>4, <2>5, <2>6, Constants
    <2>. QED  BY <2>8, <2>9, <2>10 DEF WholePackets
<1>. QED  BY <1>1, SettingsInvariant, PTL

(* During a run neither side's idea of a frame changes: no setter of the window or the
   depth is in progress, and none of the others writes one of its registers
   (HARDWARE.md:64, camera.go:144-172).                                      *)
THEOREM GeometryFixed == Spec => GeometryFixedInRun
<1>. DEFINE Fixed == (streaming /\ streaming') =>
                        UNCHANGED <<DeviceGeometry, cache.window, cache.depth>>
<1>1. ASSUME Inv, [Next]_vars, streaming, streaming'
      PROVE  UNCHANGED <<DeviceGeometry, cache.window, cache.depth>>
    <2>1. /\ open = "open"
          /\ stages # <<>> => /\ Writing \in Setting \ {"window", "depth"}
                              /\ stages = << <<Writing, Value>> >>
        BY <1>1 DEF Inv, Staged
    <2>2. CASE UNCHANGED <<device, cache>>
        BY <2>2 DEF DeviceGeometry
    <2>3. ASSUME NEW times \in 0 .. Attempts, NEW answered \in BOOLEAN,
                 Request(times, answered)
          PROVE  UNCHANGED <<DeviceGeometry, cache>>
        <3>1. stages # <<>>
            BY <1>1, <2>3 DEF Inv, Staged, Request
        <3>2. UNCHANGED DeviceGeometry
            BY <1>1, <2>1, <2>3, <3>1, GeometryKept
        <3>. QED  BY <2>1, <2>3, <3>2 DEF Request, Fails
    <2>4. ASSUME SettingDone PROVE UNCHANGED <<device, cache.window, cache.depth>>
        <3>1. Head(stages)[1] \notin {"window", "depth"}
            BY <2>1, <2>4 DEF SettingDone, Writing
        <3>2. cache = [s \in Setting |-> cache[s]]
            BY <1>1 DEF Inv, HostTypes
        <3>. QED  BY <2>4, <3>1, <3>2 DEF SettingDone, Setting
    <2>5. ASSUME NEW running \in BOOLEAN, NEW started \in BOOLEAN, Start(running, started)
          PROVE  UNCHANGED <<DeviceGeometry, cache>>
        <3>1. device = [r \in Registers |-> device[r]]
            BY <1>1 DEF Inv, DeviceTypes
        <3>. QED  BY <2>5, <3>1 DEF Start, DeviceGeometry, Registers
    <2>6. CASE UNCHANGED vars
        BY <2>2, <2>6 DEF vars, host
    <2>7. ~OpenCamera /\ ~PowerCycle /\ ~Exit
        BY <1>1, <2>1 DEF OpenCamera, PowerCycle, Exit, Closed
    <2>. QED  BY <1>1, <2>2, <2>3, <2>4, <2>5, <2>6, <2>7
              DEF Next, SetROI, SetDepth, SetOffset, SetGain, SetExposure, Set, Stop,
                  DeviceStreams, Capture, DeviceGeometry, host
<1>2. Inv /\ [Next]_vars => [Fixed]_vars
    BY <1>1
<1>. QED  BY <1>2, SettingsInvariant, PTL DEF Spec, GeometryFixedInRun
=============================================================================
