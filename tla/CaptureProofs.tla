------------------------------ MODULE CaptureProofs ------------------------------
(***************************************************************************)
(* Proofs about Capture: FrameReader with the camera on the wire, for      *)
(* every frame, packet, trailer and FIFO size, chunk and number of frames. *)
(*                                                                         *)
(* Part 1 is the inductive invariant; part 2 arithmetic; part 3 what can   *)
(* happen to the bytes on their way, as lemmas about a buffer h, the       *)
(* packets q and the packet p being filled; part 4 the steps of the        *)
(* capture; part 5 the theorems.                                           *)
(***************************************************************************)
EXTENDS Capture, FrameReaderProofs, Induction

-----------------------------------------------------------------------------
(* Part 1: the inductive invariant.                                          *)

(* Every byte on its way is in one of three places: held by the host (used by no
   frame yet, in the transfer in progress or before it), in a packet of the FIFO,
   or in the packet being filled.                                            *)

Fore == IF step \in {"read", "scan"} THEN fed ELSE carry

Held == Fore \o urb

Before(x, y) ==
    \/ x[1] < y[1]
    \/ x[1] = y[1] /\ x[2] < y[2]

AllBefore(s, t) == \A i \in 1 .. Len(s), j \in 1 .. Len(t) : Before(s[i], t[j])

\* A trailer of its own, whole; or pixels of one frame.
IsTrailer(t) == \E f \in 1 .. MaxFrames : t = [k \in 1 .. FrameTrailer |-> <<f, FrameBytes + k>>]

IsPixels(t) ==
    /\ Len(t) = Packet
    /\ \A k \in 1 .. Len(t) : t[k][1] = t[1][1] /\ t[k][2] <= FrameBytes

Units(h, q, p, fr) ==
    /\ h \in Seq(Byte)
    /\ q \in Seq(Seq(Byte))
    /\ p \in Seq(Byte)
    /\ \A n \in 1 .. Len(q) : IsTrailer(q[n]) \/ IsPixels(q[n])
    /\ \A k \in 1 .. Len(p) : p[k][1] = fr /\ p[k][2] <= FrameBytes
    /\ \A i \in 1 .. Len(h) :
          h[i][2] = FrameBytes + 1 =>
             /\ i + FrameTrailer - 1 <= Len(h)
             /\ h[i + FrameTrailer - 1] = <<h[i][1], WireFrame>>

Ordered(h, q, p) ==
    /\ InOrder(h) /\ InOrder(p) /\ AllBefore(h, p)
    /\ \A n \in 1 .. Len(q) : InOrder(q[n]) /\ AllBefore(h, q[n]) /\ AllBefore(q[n], p)
    /\ \A n, m \in 1 .. Len(q) : n < m => AllBefore(q[n], q[m])

\* The sensor has read out this byte.
Past(x, fr, po) == x[1] < fr \/ (x[1] = fr /\ x[2] <= po)

ReadOut(s, fr, po) == \A i \in 1 .. Len(s) : Past(s[i], fr, po)

Flight(h, q, p, fr, po) ==
    /\ Units(h, q, p, fr)
    /\ Ordered(h, q, p)
    /\ ReadOut(h, fr, po) /\ ReadOut(p, fr, po)
    /\ \A n \in 1 .. Len(q) : ReadOut(q[n], fr, po)

(* As long as no trailer is lost, the frame number goes up with each of them and
   with nothing else.                                                        *)

After(t) == t[1][1] + (IF Len(t) < Packet THEN 1 ELSE 0)

Turns(q, fr) ==
    /\ \A n \in 1 .. Len(q) - 1 : q[n + 1][1][1] = After(q[n])
    /\ q # <<>> => fr = After(q[Len(q)])

\* The frame of the next packet.
Upcoming(q, fr) == IF q = <<>> THEN fr ELSE q[1][1][1]

Multiple(a) == a % Packet = 0

(* The buffer starts a number of packets and of whole trailers behind the first byte
   of frame s that came: where trailers begin, and where the buffer ends, tell how
   many trailers that is.                                                    *)
Phased(h, q, fr, s) ==
    /\ s <= Upcoming(q, fr)
    /\ Multiple(Len(h) - FrameTrailer * (Upcoming(q, fr) - s))
    /\ \A i \in 1 .. Len(h) :
          /\ h[i][1] >= s
          /\ h[i][2] = FrameBytes + 1 =>
                Multiple((i - 1) - FrameTrailer * (h[i][1] - s))

InPhase(h, q, fr) == \E s \in 1 .. MaxFrames + 1 : Phased(h, q, fr, s)

(* As long as neither side loses a byte that counts, the bytes follow each other
   without a gap from the first trailer that may have been looked for.       *)

Num(x) == x[1] * WireFrame + x[2]

\* The number of the byte before packet n.
Begin(q, p, fr, po, n) ==
    IF n <= Len(q) THEN Num(q[n][1]) - 1 ELSE fr * WireFrame + po - Len(p)

Counted(x, a) == x[1] > a \/ x[2] > FrameBytes

Gapless(h, q, p, fr, po, a) ==
    /\ \A n \in 1 .. Len(q) :
          Counted(q[n][1], a) =>
             /\ \A k \in 1 .. Len(q[n]) : Num(q[n][k]) = Begin(q, p, fr, po, n) + k
             /\ Begin(q, p, fr, po, n) + Len(q[n]) = Begin(q, p, fr, po, n + 1)
    /\ fr > a => \A k \in 1 .. Len(p) :
                    Num(p[k]) = Begin(q, p, fr, po, Len(q) + 1) + k
    /\ \A i \in 1 .. Len(h) :
          Counted(h[i], a) => Num(h[i]) = Begin(q, p, fr, po, 1) - (Len(h) - i)

\* The buffer starts with the first byte of a frame.
AtFrame(h, q, p, fr, po) ==
    \E f \in 1 .. MaxFrames + 1 : Begin(q, p, fr, po, 1) - Len(h) = f * WireFrame

\* Nothing on its way is of a frame before n.
NoneOlder(h, q, fr, n) ==
    /\ fr >= n
    /\ \A i \in 1 .. Len(h) : h[i][1] >= n
    /\ \A m \in 1 .. Len(q) : \A k \in 1 .. Len(q[m]) : q[m][k][1] >= n

UrbFits == urb # <<>> => Waiting /\ Len(urb) <= Asked

\* What a call is after, and when.
Plan ==
    /\ call \in {"Settle", "Frame", "Snap"} => goal # "none"
    /\ call = "Settle" => goal # "image"
    /\ step \in {"read", "scan"} => goal # "none"
    /\ step = "read" => goal # "boundary"
    /\ step = "arm" /\ ~rearmed => goal \in {"none", "boundary"}

\* What holds whatever is lost and whatever the scene looks like.
WireInv ==
    /\ MappedInv
    /\ Plan
    /\ CaptureTypeOK
    /\ armedAt <= frame
    /\ UrbFits
    /\ Flight(Held, fifo, part, frame, pos)

\* Trailers are where the sizes of packets put them.
PhaseInv == ~markerLost => Turns(fifo, frame) /\ InPhase(Held, fifo, frame)

\* What is on its way is at least as new as the call in progress needs it.
AgeInv ==
    /\ NoneOlder(Held, fifo, frame, armedAt)
    /\ call # "none" /\ goal = "discard" =>
          NoneOlder(Held, fifo, frame, startedAt + 1)
    /\ call = "Snap" /\ goal = "image" =>
          NoneOlder(Held, fifo, frame, startedAt + 2)

\* With no byte lost, a settled reader is at the start of a frame.
GaplessInv ==
    intact =>
        /\ Gapless(Held, fifo, part, frame, pos, armedAt)
        /\ synced =>
              /\ NoneOlder(Held, fifo, frame, armedAt + 1)
              /\ AtFrame(Held, fifo, part, frame, pos)

CaptureInv ==
    /\ WireInv
    /\ PhaseInv
    /\ AgeInv
    /\ GaplessInv

-----------------------------------------------------------------------------
(* Part 2: arithmetic.                                                       *)

LEMMA Sizes ==
    /\ Packet \in Nat /\ FrameTrailer \in Nat /\ FrameBytes \in Nat
    /\ WireFrame \in Nat /\ MaxFrames \in Nat /\ FifoDepth \in Nat
    /\ FrameTrailer >= 1 /\ FrameTrailer < Packet /\ FrameBytes >= 1
    /\ WireFrame = FrameBytes + FrameTrailer
    /\ MaxFrames >= 1 /\ FifoDepth >= 1
BY WireFrameNat, CaptureAssumption DEF CaptureAssumption

LEMMA Bytes ==
    /\ \A b \in Byte : b[1] \in 1 .. MaxFrames /\ b[2] \in 1 .. WireFrame /\ b = <<b[1], b[2]>>
    /\ \A f \in 1 .. MaxFrames, k \in 1 .. WireFrame : <<f, k>> \in Byte
BY CaptureAssumption DEF CaptureAssumption

LEMMA SuccProduct == \A a, w \in Int : w * (a + 1) = w * a + w /\ w * 0 = 0
OBVIOUS

LEMMA Products ==
    /\ \A a, b, w \in Int : (a + b) * w = a * w + b * w
    /\ \A a, b, w \in Int : (a - b) * w = a * w - b * w
OBVIOUS

LEMMA AtLeastOnce == \A k \in Int, w \in Nat : k >= 1 => k * w >= w
<1>. SUFFICES ASSUME NEW k \in Int, NEW w \in Nat, k >= 1
              PROVE  k * w >= w
    OBVIOUS
<1>1. (k - 1) * w >= 0
    BY k - 1 \in Nat
<1>2. k * w = (k - 1) * w + w
    OBVIOUS
<1>3. k * w \in Int /\ (k - 1) * w \in Int
    OBVIOUS
<1>. QED  BY <1>1, <1>2, <1>3

LEMMA MultipleIs ==
    ASSUME NEW a \in Int
    PROVE  Multiple(a) <=> \E k \in Int : a = k * Packet
<1>1. Packet \in Int /\ Packet > 0
    BY Sizes
<1>2. ASSUME Multiple(a) PROVE \E k \in Int : a = k * Packet
    <2>1. a = Packet * (a \div Packet) + (a % Packet) /\ a \div Packet \in Int
        BY <1>1
    <2>2. a = (a \div Packet) * Packet
        BY <1>1, <1>2, <2>1 DEF Multiple
    <2>. QED  BY <2>1, <2>2
<1>3. ASSUME NEW k \in Int, a = k * Packet PROVE Multiple(a)
    <2> DEFINE q == a \div Packet
               r == a % Packet
    <2>1. a = Packet * q + r /\ q \in Int /\ r \in 0 .. Packet - 1
        BY <1>1
    <2> HIDE DEF q, r
    <2>2. (k - q) * Packet = r /\ (q - k) * Packet = 0 - r
        BY <1>1, <1>3, <2>1, Products
    <2>3. ~(k - q >= 1) /\ ~(q - k >= 1)
        <3>1. k - q \in Int /\ q - k \in Int /\ Packet \in Nat
            BY <1>1, <2>1
        <3>2. k - q >= 1 => (k - q) * Packet >= Packet
            BY <3>1, AtLeastOnce
        <3>3. q - k >= 1 => (q - k) * Packet >= Packet
            BY <3>1, AtLeastOnce
        <3>. QED  BY <1>1, <2>1, <2>2, <3>2, <3>3
    <2>4. k - q = 0
        BY <2>1, <2>3
    <2>5. r = 0
        BY <1>1, <2>1, <2>2, <2>4
    <2>. QED  BY <2>5 DEF Multiple, r
<1>. QED  BY <1>2, <1>3

LEMMA Multiples ==
    /\ Multiple(0) /\ Multiple(Packet) /\ Multiple(FrameBytes)
    /\ \A a, b \in Int : Multiple(a) /\ Multiple(b) => Multiple(a + b) /\ Multiple(a - b)
<1>1. Packet \in Int /\ FrameBytes \in Int
    BY Sizes
<1>2. Multiple(0)
    BY <1>1, MultipleIs, 0 = 0 * Packet
<1>3. Multiple(Packet)
    BY <1>1, MultipleIs, Packet = 1 * Packet
<1>4. Multiple(FrameBytes)
    BY CaptureAssumption DEF CaptureAssumption, Multiple
<1>5. ASSUME NEW a \in Int, NEW b \in Int, Multiple(a), Multiple(b)
      PROVE  Multiple(a + b) /\ Multiple(a - b)
    <2>1. PICK i \in Int : a = i * Packet
        BY <1>5, MultipleIs
    <2>2. PICK j \in Int : b = j * Packet
        BY <1>5, MultipleIs
    <2>3. a + b = (i + j) * Packet /\ a - b = (i - j) * Packet
        BY <1>1, <2>1, <2>2, Products
    <2>4. i + j \in Int /\ i - j \in Int /\ a + b \in Int /\ a - b \in Int
        OBVIOUS
    <2>. QED  BY <2>3, <2>4, MultipleIs
<1>. QED  BY <1>2, <1>3, <1>4, <1>5

\* Fewer trailers than a packet has bytes never make whole packets.
LEMMA TooFewTrailers ==
    ASSUME NEW t \in 0 .. Packet - 1, Multiple(FrameTrailer * t)
    PROVE  t = 0
<1>1. t # 0 => t \in 1 .. Packet - 1 /\ FrameTrailer * t = t * FrameTrailer
    BY Sizes
<1>. QED  BY <1>1, CaptureAssumption DEF CaptureAssumption, Multiple

\* A byte is known by its number.
LEMMA Numbers ==
    ASSUME NEW f \in Int, NEW g \in Int, NEW i \in 1 .. WireFrame, NEW j \in 1 .. WireFrame,
           f * WireFrame + i = g * WireFrame + j
    PROVE  f = g /\ i = j
<1>1. WireFrame \in Nat /\ f * WireFrame \in Int /\ g * WireFrame \in Int
    BY Sizes
<1>2. /\ (f - g) * WireFrame = f * WireFrame - g * WireFrame
      /\ (g - f) * WireFrame = g * WireFrame - f * WireFrame
    BY <1>1, Products
<1>3. /\ f - g >= 1 => (f - g) * WireFrame >= WireFrame
      /\ g - f >= 1 => (g - f) * WireFrame >= WireFrame
    BY <1>1, AtLeastOnce
<1>4. ~(f - g >= 1) /\ ~(g - f >= 1)
    <2>1. (f - g) * WireFrame = j - i /\ (g - f) * WireFrame = i - j
        BY <1>1, <1>2
    <2>. QED  BY <1>1, <1>3, <2>1
<1>5. f = g
    BY <1>4
<1>. QED  BY <1>1, <1>5

-----------------------------------------------------------------------------
(* Part 3: bytes on their way.  Joined, IsEnd, Shorter, Longer and
   Added say of sequences what the proofs use of \o, From, Tail and Append.  *)

Joined(u, s, t) ==
    /\ u \in Seq(Byte)
    /\ Len(u) = Len(s) + Len(t)
    /\ \A i \in 1 .. Len(s) : u[i] = s[i]
    /\ \A i \in 1 .. Len(t) : u[Len(s) + i] = t[i]

LEMMA Join ==
    ASSUME NEW s \in Seq(Byte), NEW t \in Seq(Byte)
    PROVE  Joined(s \o t, s, t)
<1>1. Len(s) \in Nat /\ Len(t) \in Nat
    BY LenProperties
<1>2. /\ s \o t \in Seq(Byte)
      /\ Len(s \o t) = Len(s) + Len(t)
      /\ \A i \in 1 .. Len(s) + Len(t) :
            (s \o t)[i] = IF i <= Len(s) THEN s[i] ELSE t[i - Len(s)]
    BY ConcatProperties
<1> DEFINE u == s \o t
<1> HIDE DEF u
<1>3. \A i \in 1 .. Len(s) + Len(t) : u[i] = IF i <= Len(s) THEN s[i] ELSE t[i - Len(s)]
    BY <1>2 DEF u
<1>4. ASSUME NEW i \in 1 .. Len(s) PROVE u[i] = s[i]
    BY <1>1, <1>3
<1>5. ASSUME NEW i \in 1 .. Len(t) PROVE u[Len(s) + i] = t[i]
    <2>1. /\ Len(s) + i \in 1 .. Len(s) + Len(t)
          /\ ~(Len(s) + i <= Len(s))
          /\ (Len(s) + i) - Len(s) = i
        BY <1>1
    <2>. QED  BY <1>3, <2>1
<1>. QED  BY <1>2, <1>4, <1>5 DEF u, Joined

IsEnd(u, s, c) ==
    /\ u \in Seq(Byte)
    /\ Len(u) = Len(s) - c
    /\ \A i \in 1 .. Len(u) : u[i] = s[c + i]

LEMMA IsFrom ==
    ASSUME NEW s \in Seq(Byte), NEW c \in 0 .. Len(s)
    PROVE  IsEnd(From(s, c + 1), s, c)
BY FromProperties DEF IsEnd

\* A packet leaves the FIFO; a packet is committed.
Shorter(r, q) ==
    /\ r \in Seq(Seq(Byte))
    /\ Len(q) \in Nat /\ Len(q) >= 1 /\ Len(r) = Len(q) - 1
    /\ q[1] \in Seq(Byte)
    /\ \A n \in 1 .. Len(r) : r[n] = q[n + 1]
    /\ r = <<>> <=> Len(r) = 0

LEMMA Leaves ==
    ASSUME NEW q \in Seq(Seq(Byte)), q # <<>>
    PROVE  Shorter(Tail(q), q) /\ Head(q) = q[1]
<1>1. Len(q) \in Nat /\ Len(q) >= 1
    BY LenProperties, EmptySeq
<1>2. /\ Tail(q) \in Seq(Seq(Byte)) /\ Len(Tail(q)) = Len(q) - 1
      /\ \A n \in 1 .. Len(Tail(q)) : Tail(q)[n] = q[n + 1]
      /\ Head(q) = q[1]
    BY HeadTailProperties, LenProperties
<1>3. q[1] \in Seq(Byte)
    BY <1>1, ElementOfSeq
<1>4. Tail(q) = <<>> <=> Len(Tail(q)) = 0
    BY <1>2, EmptySeq
<1>. QED  BY <1>1, <1>2, <1>3, <1>4 DEF Shorter

Longer(r, q, t) ==
    /\ r \in Seq(Seq(Byte))
    /\ Len(q) \in Nat /\ Len(r) = Len(q) + 1
    /\ \A n \in 1 .. Len(q) : r[n] = q[n]
    /\ r[Len(q) + 1] = t
    /\ r # <<>>
    /\ q = <<>> <=> Len(q) = 0

LEMMA Commits ==
    ASSUME NEW q \in Seq(Seq(Byte)), NEW t \in Seq(Byte)
    PROVE  Longer(Append(q, t), q, t)
<1>1. /\ Append(q, t) \in Seq(Seq(Byte)) /\ Append(q, t) # <<>>
      /\ Len(Append(q, t)) = Len(q) + 1
      /\ \A i \in 1 .. Len(q) : Append(q, t)[i] = q[i]
      /\ Append(q, t)[Len(q) + 1] = t
    BY AppendProperties
<1>2. Len(q) \in Nat /\ (q = <<>> <=> Len(q) = 0)
    BY LenProperties, EmptySeq
<1>. QED  BY <1>1, <1>2 DEF Longer

\* A byte joins the packet being filled.
Added(u, s, b) ==
    /\ u \in Seq(Byte)
    /\ Len(s) \in Nat /\ Len(u) = Len(s) + 1
    /\ \A i \in 1 .. Len(s) : u[i] = s[i]
    /\ u[Len(s) + 1] = b

LEMMA Fills ==
    ASSUME NEW s \in Seq(Byte), NEW b \in Byte
    PROVE  Added(Append(s, b), s, b)
<1>1. /\ Append(s, b) \in Seq(Byte)
      /\ Len(Append(s, b)) = Len(s) + 1
      /\ \A i \in 1 .. Len(s) : Append(s, b)[i] = s[i]
      /\ Append(s, b)[Len(s) + 1] = b
    BY AppendProperties
<1>2. Len(s) \in Nat
    BY LenProperties
<1>. QED  BY <1>1, <1>2 DEF Added

\* Each byte of a joined sequence is one of its parts'.
LEMMA JoinedByte ==
    ASSUME NEW s \in Seq(Byte), NEW t \in Seq(Byte), NEW u, Joined(u, s, t),
           NEW i \in 1 .. Len(u)
    PROVE  \/ i \in 1 .. Len(s) /\ u[i] = s[i]
           \/ \E j \in 1 .. Len(t) : i = Len(s) + j /\ u[i] = t[j]
<1>1. Len(s) \in Nat /\ Len(t) \in Nat /\ i \in 1 .. Len(s) + Len(t)
    BY LenProperties DEF Joined
<1>2. CASE i <= Len(s)
    BY <1>1, <1>2 DEF Joined
<1>3. CASE i > Len(s)
    <2>1. i - Len(s) \in 1 .. Len(t) /\ i = Len(s) + (i - Len(s))
        BY <1>1, <1>3
    <2>2. u[Len(s) + (i - Len(s))] = t[i - Len(s)]
        BY <2>1 DEF Joined
    <2>. QED  BY <2>1, <2>2
<1>. QED  BY <1>1, <1>2, <1>3

\* Where a trailer that begins at i ends.
LEMMA TrailerEnd ==
    ASSUME NEW i \in Int, NEW n \in Int
    PROVE  /\ i >= 1 /\ i + FrameTrailer - 1 <= n => i + FrameTrailer - 1 \in 1 .. n
           /\ \A c \in Int : c + (i + FrameTrailer - 1) = (c + i) + FrameTrailer - 1
           /\ i = n + 1 => i + FrameTrailer - 1 = n + FrameTrailer
BY Sizes

LEMMA OrderIs ==
    ASSUME NEW s
    PROVE  InOrder(s) <=> \A i, j \in 1 .. Len(s) : i < j => Before(s[i], s[j])
BY DEF InOrder, Before

LEMMA JoinedOrder ==
    ASSUME NEW s \in Seq(Byte), NEW t \in Seq(Byte), NEW u, Joined(u, s, t),
           InOrder(s), InOrder(t), AllBefore(s, t)
    PROVE  InOrder(u)
<1>1. Len(s) \in Nat /\ Len(t) \in Nat
    BY LenProperties
<1>2. ASSUME NEW i \in 1 .. Len(u), NEW j \in 1 .. Len(u), i < j
      PROVE  Before(u[i], u[j])
    <2>1. CASE i \in 1 .. Len(s) /\ u[i] = s[i] /\ j \in 1 .. Len(s) /\ u[j] = s[j]
        BY <1>2, <2>1, OrderIs
    <2>2. CASE /\ i \in 1 .. Len(s) /\ u[i] = s[i]
               /\ \E k \in 1 .. Len(t) : j = Len(s) + k /\ u[j] = t[k]
        BY <2>2 DEF AllBefore
    <2>3. ASSUME NEW k \in 1 .. Len(t), i = Len(s) + k, u[i] = t[k],
                 NEW m \in 1 .. Len(t), j = Len(s) + m, u[j] = t[m]
          PROVE  Before(u[i], u[j])
        <3>1. k < m
            BY <1>1, <1>2, <2>3
        <3>. QED  BY <2>3, <3>1, OrderIs
    <2>4. CASE /\ j \in 1 .. Len(s)
               /\ \E k \in 1 .. Len(t) : i = Len(s) + k
        BY <1>1, <1>2, <2>4
    <2>5. /\ \/ i \in 1 .. Len(s) /\ u[i] = s[i]
             \/ \E k \in 1 .. Len(t) : i = Len(s) + k /\ u[i] = t[k]
          /\ \/ j \in 1 .. Len(s) /\ u[j] = s[j]
             \/ \E k \in 1 .. Len(t) : j = Len(s) + k /\ u[j] = t[k]
        BY JoinedByte
    <2>. QED  BY <2>1, <2>2, <2>3, <2>4, <2>5
<1>. QED  BY <1>2, OrderIs

LEMMA JoinedBefore ==
    ASSUME NEW s \in Seq(Byte), NEW t \in Seq(Byte), NEW u, Joined(u, s, t), NEW v
    PROVE  /\ AllBefore(s, v) /\ AllBefore(t, v) => AllBefore(u, v)
           /\ AllBefore(v, s) /\ AllBefore(v, t) => AllBefore(v, u)
<1>1. ASSUME AllBefore(s, v), AllBefore(t, v), NEW i \in 1 .. Len(u), NEW j \in 1 .. Len(v)
      PROVE  Before(u[i], v[j])
    BY <1>1, JoinedByte DEF AllBefore
<1>2. ASSUME AllBefore(v, s), AllBefore(v, t), NEW i \in 1 .. Len(u), NEW j \in 1 .. Len(v)
      PROVE  Before(v[j], u[i])
    BY <1>2, JoinedByte DEF AllBefore
<1>. QED  BY <1>1, <1>2 DEF AllBefore

\* What a packet is made of.
LEMMA PacketShape ==
    ASSUME NEW t \in Seq(Byte), IsTrailer(t) \/ IsPixels(t)
    PROVE  /\ Len(t) \in 1 .. Packet /\ t[1][1] \in 1 .. MaxFrames
           /\ \A k \in 1 .. Len(t) : t[k][1] = t[1][1] /\ t[k] \in Byte
           /\ IsTrailer(t) =>
                 /\ Len(t) = FrameTrailer
                 /\ \A k \in 1 .. Len(t) : t[k] = <<t[1][1], FrameBytes + k>>
           /\ IsPixels(t) =>
                 /\ Len(t) = Packet
                 /\ \A k \in 1 .. Len(t) : t[k][2] \in 1 .. FrameBytes
           /\ IsTrailer(t) <=> Len(t) < Packet
<1>1. ASSUME IsTrailer(t)
      PROVE  /\ Len(t) = FrameTrailer /\ t[1][1] \in 1 .. MaxFrames
             /\ \A k \in 1 .. Len(t) : t[k] = <<t[1][1], FrameBytes + k>> /\ t[k][1] = t[1][1]
    <2>1. PICK f \in 1 .. MaxFrames : t = [k \in 1 .. FrameTrailer |-> <<f, FrameBytes + k>>]
        BY <1>1 DEF IsTrailer
    <2>2. DOMAIN t = 1 .. Len(t) /\ Len(t) \in Nat
        BY LenProperties
    <2>3. Len(t) = FrameTrailer
        BY <2>1, <2>2, Sizes
    <2>4. \A k \in 1 .. FrameTrailer : t[k] = <<f, FrameBytes + k>>
        BY <2>1
    <2>5. 1 \in 1 .. FrameTrailer
        BY Sizes
    <2>. QED  BY <2>3, <2>4, <2>5
<1>2. \A k \in 1 .. Len(t) : t[k] \in Byte
    BY ElementOfSeq
<1>3. CASE IsTrailer(t)
    BY <1>1, <1>2, <1>3, Sizes DEF IsPixels
<1>4. CASE ~IsTrailer(t)
    <2>1. IsPixels(t) /\ Len(t) = Packet /\ 1 \in 1 .. Len(t)
        BY <1>4, Sizes DEF IsPixels
    <2>2. \A k \in 1 .. Len(t) : t[k][2] \in 1 .. FrameBytes
        BY <1>2, <2>1, Bytes, Sizes DEF IsPixels
    <2>3. t[1][1] \in 1 .. MaxFrames
        BY <1>2, <2>1, Bytes
    <2>. QED  BY <1>2, <1>4, <2>1, <2>2, <2>3, Sizes DEF IsPixels
<1>. QED  BY <1>3, <1>4

\* Of a FIFO: its packets are sequences of bytes.
LEMMA PacketBytes ==
    ASSUME NEW q \in Seq(Seq(Byte)), NEW n \in 1 .. Len(q)
    PROVE  q[n] \in Seq(Byte) /\ Len(q[n]) \in Nat
BY ElementOfSeq, LenProperties

\* The oldest packet goes to the host.
LEMMA FlightMoves ==
    ASSUME NEW h, NEW q, NEW p, NEW fr \in Int, NEW po \in Int, Flight(h, q, p, fr, po),
           NEW u, NEW r, Joined(u, h, q[1]), Shorter(r, q)
    PROVE  Flight(u, r, p, fr, po)
<1> DEFINE t == q[1]
<1>1. h \in Seq(Byte) /\ q \in Seq(Seq(Byte)) /\ p \in Seq(Byte) /\ t \in Seq(Byte)
    BY DEF Flight, Units, Shorter
<1>2. Len(h) \in Nat /\ Len(t) \in Nat /\ 1 \in 1 .. Len(q) /\ Len(q) \in Nat
    BY <1>1, LenProperties DEF Shorter
<1>3. \A n \in 1 .. Len(r) : n + 1 \in 1 .. Len(q) /\ r[n] = q[n + 1]
    BY <1>2 DEF Shorter
<1>4. IsTrailer(t) \/ IsPixels(t)
    BY <1>2 DEF Flight, Units
<1>5. InOrder(h) /\ InOrder(t) /\ AllBefore(h, t) /\ AllBefore(h, p) /\ AllBefore(t, p)
    BY <1>2 DEF Flight, Ordered
<1>6. \A n \in 1 .. Len(r) :
        InOrder(r[n]) /\ AllBefore(h, r[n]) /\ AllBefore(t, r[n]) /\ AllBefore(r[n], p)
    <2>. SUFFICES ASSUME NEW n \in 1 .. Len(r)
                  PROVE  /\ InOrder(r[n]) /\ AllBefore(h, r[n]) /\ AllBefore(t, r[n])
                         /\ AllBefore(r[n], p)
        OBVIOUS
    <2>1. n + 1 \in 1 .. Len(q) /\ r[n] = q[n + 1] /\ 1 < n + 1
        BY <1>2, <1>3 DEF Shorter
    <2>. QED  BY <1>2, <2>1 DEF Flight, Ordered
<1>7. \A n, m \in 1 .. Len(r) : n < m => AllBefore(r[n], r[m])
    <2>. SUFFICES ASSUME NEW n \in 1 .. Len(r), NEW m \in 1 .. Len(r), n < m
                  PROVE  AllBefore(r[n], r[m])
        OBVIOUS
    <2>1. /\ n + 1 \in 1 .. Len(q) /\ r[n] = q[n + 1]
          /\ m + 1 \in 1 .. Len(q) /\ r[m] = q[m + 1] /\ n + 1 < m + 1
        BY <1>2, <1>3 DEF Shorter
    <2>. QED  BY <2>1 DEF Flight, Ordered
<1> HIDE DEF t
<1>8. Joined(u, h, t)
    BY DEF t
<1>9. h \in Seq(Byte) /\ t \in Seq(Byte) /\ Len(h) \in Nat
    BY <1>1, <1>2
<1>10. \A i \in 1 .. Len(u) :
          \/ i \in 1 .. Len(h) /\ u[i] = h[i]
          \/ \E j \in 1 .. Len(t) : i = Len(h) + j /\ u[i] = t[j]
    BY <1>9, <1>8, JoinedByte
<1>11. Ordered(u, r, p)
    <2>1. InOrder(u)
        BY <1>1, <1>5, <1>8, JoinedOrder
    <2>2. AllBefore(u, p)
        BY <1>1, <1>5, <1>8, JoinedBefore
    <2>3. \A n \in 1 .. Len(r) : AllBefore(u, r[n])
        BY <1>1, <1>6, <1>8, JoinedBefore
    <2>. QED  BY <1>6, <1>7, <2>1, <2>2, <2>3 DEF Flight, Ordered
<1>12. ASSUME NEW i \in 1 .. Len(u), u[i][2] = FrameBytes + 1
       PROVE  /\ i + FrameTrailer - 1 <= Len(u)
              /\ u[i + FrameTrailer - 1] = <<u[i][1], WireFrame>>
    <2>1. Len(u) = Len(h) + Len(t)
        BY <1>8 DEF Joined
    <2>2. CASE i \in 1 .. Len(h) /\ u[i] = h[i]
        <3>1. /\ i + FrameTrailer - 1 <= Len(h)
              /\ h[i + FrameTrailer - 1] = <<h[i][1], WireFrame>>
            BY <1>12, <2>2 DEF Flight, Units
        <3>2. i + FrameTrailer - 1 \in 1 .. Len(h)
            <4>1. i \in Int /\ i >= 1 /\ Len(h) \in Int
                BY <1>9, <2>2
            <4>. QED  BY <3>1, <4>1, TrailerEnd
        <3>3. u[i + FrameTrailer - 1] = h[i + FrameTrailer - 1]
            BY <1>8, <3>2 DEF Joined
        <3>. QED  BY <1>2, <2>1, <2>2, <3>1, <3>3, Sizes
    <2>3. ASSUME NEW j \in 1 .. Len(t), i = Len(h) + j, u[i] = t[j]
          PROVE  /\ i + FrameTrailer - 1 <= Len(u)
                 /\ u[i + FrameTrailer - 1] = <<u[i][1], WireFrame>>
        <3>1. IsTrailer(t)
            <4>1. t[j][2] = FrameBytes + 1
                BY <1>12, <2>3
            <4>. QED  BY <1>1, <1>4, <4>1, PacketShape, Sizes
        <3>2. /\ Len(t) = FrameTrailer
              /\ \A k \in 1 .. Len(t) : t[k] = <<t[1][1], FrameBytes + k>>
            BY <1>1, <1>4, <3>1, PacketShape
        <3>3. j = 1
            <4>1. t[j][2] = FrameBytes + j
                BY <3>2
            <4>. QED  BY <1>12, <2>3, <4>1, Sizes
        <3>4. u[Len(h) + FrameTrailer] = t[FrameTrailer] /\ FrameTrailer \in 1 .. Len(t)
            BY <1>8, <3>2, Sizes DEF Joined
        <3>5. t[FrameTrailer] = <<t[1][1], WireFrame>> /\ t[1][1] = u[i][1]
            BY <2>3, <3>2, <3>3, <3>4 DEF WireFrame
        <3>6. i + FrameTrailer - 1 = Len(h) + FrameTrailer
            BY <1>2, <2>3, <3>3, TrailerEnd
        <3>7. Len(h) + FrameTrailer <= Len(u)
            BY <1>2, <2>1, <3>2, Sizes
        <3>. QED  BY <3>4, <3>5, <3>6, <3>7
    <2>4. \/ i \in 1 .. Len(h) /\ u[i] = h[i]
          \/ \E j \in 1 .. Len(t) : i = Len(h) + j /\ u[i] = t[j]
        BY <1>10
    <2>. QED  BY <2>2, <2>3, <2>4
<1>13. Units(u, r, p, fr)
    <2>1. \A n \in 1 .. Len(r) : IsTrailer(r[n]) \/ IsPixels(r[n])
        BY <1>3 DEF Flight, Units
    <2>2. u \in Seq(Byte) /\ r \in Seq(Seq(Byte))
        BY <1>8 DEF Joined, Shorter
    <2>. QED  BY <1>1, <1>12, <2>1, <2>2 DEF Flight, Units
<1>14. ReadOut(u, fr, po) /\ \A n \in 1 .. Len(r) : ReadOut(r[n], fr, po)
    <2>1. ReadOut(h, fr, po) /\ ReadOut(t, fr, po)
        BY <1>2 DEF Flight, t
    <2>2. ReadOut(u, fr, po)
        <3>1. ASSUME NEW i \in 1 .. Len(u) PROVE Past(u[i], fr, po)
            <4>1. \/ i \in 1 .. Len(h) /\ u[i] = h[i]
                  \/ \E j \in 1 .. Len(t) : i = Len(h) + j /\ u[i] = t[j]
                BY <1>10
            <4>. QED  BY <2>1, <4>1 DEF ReadOut
        <3>. QED  BY <3>1 DEF ReadOut
    <2>. QED  BY <1>3, <2>2 DEF Flight
<1>. QED  BY <1>11, <1>13, <1>14 DEF Flight

\* The host gives up bytes from the front of its buffer.
LEMMA FlightCut ==
    ASSUME NEW h, NEW q, NEW p, NEW fr \in Int, NEW po \in Int, Flight(h, q, p, fr, po),
           NEW c \in 0 .. Len(h), NEW u, IsEnd(u, h, c)
    PROVE  Flight(u, q, p, fr, po)
<1>1. Len(h) \in Nat /\ Len(u) = Len(h) - c /\ h \in Seq(Byte)
    BY LenProperties DEF Flight, Units, IsEnd
<1>2. \A i \in 1 .. Len(u) : c + i \in 1 .. Len(h) /\ u[i] = h[c + i]
    BY <1>1 DEF IsEnd
<1>3. Ordered(u, q, p)
    <2>1. InOrder(u)
        <3>1. ASSUME NEW i \in 1 .. Len(u), NEW j \in 1 .. Len(u), i < j
              PROVE  Before(u[i], u[j])
            <4>1. c + i \in 1 .. Len(h) /\ c + j \in 1 .. Len(h) /\ c + i < c + j
                BY <1>2, <3>1
            <4>. QED  BY <1>2, <4>1, OrderIs DEF Flight, Ordered
        <3>. QED  BY <3>1, OrderIs
    <2>2. \A v : AllBefore(h, v) => AllBefore(u, v)
        BY <1>2 DEF AllBefore
    <2>. QED  BY <2>1, <2>2 DEF Flight, Ordered
<1>4. ASSUME NEW i \in 1 .. Len(u), u[i][2] = FrameBytes + 1
      PROVE  /\ i + FrameTrailer - 1 <= Len(u)
             /\ u[i + FrameTrailer - 1] = <<u[i][1], WireFrame>>
    <2>1. /\ (c + i) + FrameTrailer - 1 <= Len(h)
          /\ h[(c + i) + FrameTrailer - 1] = <<h[c + i][1], WireFrame>>
        BY <1>2, <1>4 DEF Flight, Units
    <2>2. (c + i) + FrameTrailer - 1 <= Len(h)
        BY <2>1
    <2>3. i + FrameTrailer - 1 \in 1 .. Len(u) /\ c + (i + FrameTrailer - 1) = (c + i) + FrameTrailer - 1
        <3>1. \A a, b, t, n \in Int : (a + b) + t - 1 <= n => b + t - 1 <= n - a
            OBVIOUS
        <3>2. c \in Int /\ i \in Int /\ FrameTrailer \in Int /\ Len(h) \in Int /\ Len(u) = Len(h) - c
            BY <1>1, Sizes
        <3>3. i + FrameTrailer - 1 <= Len(h) - c
            BY <2>2, <3>1, <3>2
        <3>4. i + FrameTrailer - 1 <= Len(u)
            BY <3>2, <3>3
        <3>. QED  BY <1>1, <3>4, TrailerEnd
    <2>. QED  BY <1>2, <2>1, <2>3
<1>5. Units(u, q, p, fr)
    <2>1. u \in Seq(Byte)
        BY DEF IsEnd
    <2>. QED  BY <1>4, <2>1 DEF Flight, Units
<1>6. ReadOut(u, fr, po)
    BY <1>2 DEF Flight, ReadOut
<1>. QED  BY <1>3, <1>5, <1>6 DEF Flight

\* The host gives up all it holds.
LEMMA FlightEmpty ==
    ASSUME NEW h, NEW q, NEW p, NEW fr \in Int, NEW po \in Int, Flight(h, q, p, fr, po)
    PROVE  Flight(<<>>, q, p, fr, po)
<1> DEFINE e == <<>>
<1>1. e \in Seq(Byte) /\ Len(e) = 0
    BY EmptySeq
<1> HIDE DEF e
<1>2. Units(e, q, p, fr)
    BY <1>1 DEF Flight, Units
<1>3. Ordered(e, q, p) /\ ReadOut(e, fr, po)
    <2>1. InOrder(e) /\ ReadOut(e, fr, po) /\ \A v : AllBefore(e, v)
        BY <1>1 DEF InOrder, AllBefore, ReadOut
    <2>. QED  BY <2>1 DEF Flight, Ordered
<1>4. Flight(e, q, p, fr, po)
    BY <1>2, <1>3 DEF Flight
<1>. QED  BY <1>4 DEF e

\* The packet being filled is dropped.
LEMMA FlightDrop ==
    ASSUME NEW h, NEW q, NEW p, NEW fr \in Int, NEW po \in Int, Flight(h, q, p, fr, po)
    PROVE  Flight(h, q, <<>>, fr, po)
<1> DEFINE e == <<>>
<1>1. e \in Seq(Byte) /\ Len(e) = 0
    BY EmptySeq
<1> HIDE DEF e
<1>2. Units(h, q, e, fr)
    BY <1>1 DEF Flight, Units
<1>3. Ordered(h, q, e) /\ ReadOut(e, fr, po)
    <2>1. InOrder(e) /\ ReadOut(e, fr, po) /\ \A v : AllBefore(v, e)
        BY <1>1 DEF InOrder, AllBefore, ReadOut
    <2>. QED  BY <2>1 DEF Flight, Ordered
<1>4. Flight(h, q, e, fr, po)
    BY <1>2, <1>3 DEF Flight
<1>. QED  BY <1>4 DEF e

\* A packet is committed behind those in the FIFO.
LEMMA FlightCommit ==
    ASSUME NEW h, NEW q, NEW p, NEW fr \in Int, NEW po \in Int, Flight(h, q, <<>>, fr, po),
           NEW t \in Seq(Byte), IsTrailer(t) \/ IsPixels(t), InOrder(t), ReadOut(t, fr, po),
           AllBefore(h, t), \A n \in 1 .. Len(q) : AllBefore(q[n], t),
           NEW r, Longer(r, q, t)
    PROVE  Flight(h, r, <<>>, fr, po)
<1>1. Len(q) \in Nat /\ Len(r) = Len(q) + 1 /\ r[Len(q) + 1] = t /\ r \in Seq(Seq(Byte))
      /\ \A n \in 1 .. Len(q) : r[n] = q[n]
    BY DEF Longer
<1>2. Len(<<>>) = 0
    BY EmptySeq
<1>3. \A n \in 1 .. Len(r) :
          /\ IsTrailer(r[n]) \/ IsPixels(r[n])
          /\ InOrder(r[n]) /\ AllBefore(h, r[n]) /\ ReadOut(r[n], fr, po)
          /\ AllBefore(r[n], <<>>)
    <2>. SUFFICES ASSUME NEW n \in 1 .. Len(r)
                  PROVE  /\ IsTrailer(r[n]) \/ IsPixels(r[n])
                         /\ InOrder(r[n]) /\ AllBefore(h, r[n]) /\ ReadOut(r[n], fr, po)
                         /\ AllBefore(r[n], <<>>)
        OBVIOUS
    <2>1. AllBefore(r[n], <<>>)
        BY <1>2 DEF AllBefore
    <2>2. CASE n = Len(q) + 1
        BY <1>1, <2>1, <2>2
    <2>3. CASE n # Len(q) + 1
        <3>1. n \in 1 .. Len(q) /\ r[n] = q[n]
            BY <1>1, <2>3
        <3>. QED  BY <2>1, <3>1 DEF Flight, Units, Ordered
    <2>. QED  BY <2>2, <2>3
<1>4. \A n, m \in 1 .. Len(r) : n < m => AllBefore(r[n], r[m])
    <2>. SUFFICES ASSUME NEW n \in 1 .. Len(r), NEW m \in 1 .. Len(r), n < m
                  PROVE  AllBefore(r[n], r[m])
        OBVIOUS
    <2>1. n \in 1 .. Len(q) /\ r[n] = q[n]
        BY <1>1
    <2>2. CASE m = Len(q) + 1
        BY <1>1, <2>1, <2>2
    <2>3. CASE m # Len(q) + 1
        <3>1. m \in 1 .. Len(q) /\ r[m] = q[m]
            BY <1>1, <2>3
        <3>. QED  BY <2>1, <3>1 DEF Flight, Ordered
    <2>. QED  BY <2>2, <2>3
<1>. QED  BY <1>1, <1>3, <1>4 DEF Flight, Units, Ordered

\* The sensor goes on.
LEMMA FlightPasses ==
    ASSUME NEW h, NEW q, NEW p, NEW fr \in Int, NEW po \in Int, Flight(h, q, p, fr, po),
           NEW fr2 \in Int, NEW po2 \in Int,
           \/ fr2 = fr /\ po2 >= po
           \/ fr2 > fr /\ p = <<>>
    PROVE  Flight(h, q, p, fr2, po2)
<1>1. \A x \in Byte : Past(x, fr, po) => Past(x, fr2, po2)
    BY Bytes DEF Past
<1>2. \A s \in Seq(Byte) : ReadOut(s, fr, po) => ReadOut(s, fr2, po2)
    <2>. SUFFICES ASSUME NEW s \in Seq(Byte), ReadOut(s, fr, po), NEW i \in 1 .. Len(s)
                  PROVE  Past(s[i], fr2, po2)
        BY DEF ReadOut
    <2>1. s[i] \in Byte
        BY ElementOfSeq
    <2>. QED  BY <1>1, <2>1 DEF ReadOut
<1>3. \A n \in 1 .. Len(q) : ReadOut(q[n], fr2, po2)
    BY <1>2, PacketBytes DEF Flight, Units
<1>4. Units(h, q, p, fr2)
    <2>1. p = <<>> => Len(p) = 0
        BY EmptySeq
    <2>. QED  BY <2>1 DEF Flight, Units
<1>. QED  BY <1>2, <1>3, <1>4 DEF Flight, Units

\* What the sensor reads out next is behind every byte on its way.
LEMMA FlightAdds ==
    ASSUME NEW h, NEW q, NEW p, NEW fr \in Int, NEW po \in Int, Flight(h, q, p, fr, po),
           <<fr, po + 1>> \in Byte, po + 1 <= FrameBytes,
           NEW u, Added(u, p, <<fr, po + 1>>)
    PROVE  /\ Flight(h, q, u, fr, po + 1)
           /\ InOrder(u) /\ AllBefore(h, u) /\ \A n \in 1 .. Len(q) : AllBefore(q[n], u)
<1> DEFINE b == <<fr, po + 1>>
<1>1. Len(p) \in Nat /\ Len(u) = Len(p) + 1 /\ u \in Seq(Byte)
      /\ (\A i \in 1 .. Len(p) : u[i] = p[i]) /\ u[Len(p) + 1] = b
    BY DEF Added
<1>2. b[1] = fr /\ b[2] = po + 1
    OBVIOUS
<1> HIDE DEF b
<1>3. \A s \in Seq(Byte) : ReadOut(s, fr, po) => \A i \in 1 .. Len(s) : Before(s[i], b)
    <2>. SUFFICES ASSUME NEW s \in Seq(Byte), ReadOut(s, fr, po), NEW i \in 1 .. Len(s)
                  PROVE  Before(s[i], b)
        OBVIOUS
    <2>1. s[i] \in Byte
        BY ElementOfSeq
    <2>2. s[i][1] \in Int /\ s[i][2] \in Int
        BY <2>1, Bytes
    <2>. QED  BY <1>2, <2>2 DEF ReadOut, Past, Before
<1>4. \A s \in Seq(Byte) : ReadOut(s, fr, po) /\ AllBefore(s, p) => AllBefore(s, u)
    <2>. SUFFICES ASSUME NEW s \in Seq(Byte), ReadOut(s, fr, po), AllBefore(s, p),
                         NEW i \in 1 .. Len(s), NEW j \in 1 .. Len(u)
                  PROVE  Before(s[i], u[j])
        BY DEF AllBefore
    <2>1. CASE j = Len(p) + 1
        BY <1>1, <1>3, <2>1
    <2>2. CASE j # Len(p) + 1
        <3>1. j \in 1 .. Len(p) /\ u[j] = p[j]
            BY <1>1, <2>2
        <3>. QED  BY <3>1 DEF AllBefore
    <2>. QED  BY <2>1, <2>2
<1>5. h \in Seq(Byte) /\ p \in Seq(Byte) /\ q \in Seq(Seq(Byte))
      /\ ReadOut(h, fr, po) /\ ReadOut(p, fr, po) /\ AllBefore(h, p) /\ InOrder(p)
      /\ \A n \in 1 .. Len(q) : /\ q[n] \in Seq(Byte) /\ ReadOut(q[n], fr, po)
                                /\ AllBefore(q[n], p)
    BY PacketBytes DEF Flight, Units, Ordered
<1>6. AllBefore(h, u) /\ \A n \in 1 .. Len(q) : AllBefore(q[n], u)
    BY <1>4, <1>5
<1>7. InOrder(u)
    <2>1. ASSUME NEW i \in 1 .. Len(u), NEW j \in 1 .. Len(u), i < j
          PROVE  Before(u[i], u[j])
        <3>1. i \in 1 .. Len(p) /\ u[i] = p[i]
            BY <1>1, <2>1
        <3>2. CASE j = Len(p) + 1
            BY <1>1, <1>3, <1>5, <3>1, <3>2
        <3>3. CASE j # Len(p) + 1
            <4>1. j \in 1 .. Len(p) /\ u[j] = p[j]
                BY <1>1, <3>3
            <4>. QED  BY <1>5, <2>1, <3>1, <4>1, OrderIs
        <3>. QED  BY <3>2, <3>3
    <2>. QED  BY <2>1, OrderIs
<1>8. Flight(h, q, p, fr, po + 1)
    BY FlightPasses
<1>9. \A k \in 1 .. Len(u) : u[k][1] = fr /\ u[k][2] <= FrameBytes /\ Past(u[k], fr, po + 1)
    <2>. SUFFICES ASSUME NEW k \in 1 .. Len(u)
                  PROVE  u[k][1] = fr /\ u[k][2] <= FrameBytes /\ Past(u[k], fr, po + 1)
        OBVIOUS
    <2>1. CASE k = Len(p) + 1
        BY <1>1, <1>2, <2>1 DEF Past
    <2>2. CASE k # Len(p) + 1
        <3>1. k \in 1 .. Len(p) /\ u[k] = p[k]
            BY <1>1, <2>2
        <3>. QED  BY <1>8, <3>1 DEF Flight, Units, ReadOut
    <2>. QED  BY <2>1, <2>2
<1>10. Flight(h, q, u, fr, po + 1)
    BY <1>1, <1>6, <1>7, <1>8, <1>9 DEF Flight, Units, Ordered, ReadOut
<1>. QED  BY <1>6, <1>7, <1>10

\* The first packet is of the upcoming frame, and the next of the one it leads to.
LEMMA TurnsMove ==
    ASSUME NEW q, NEW fr, NEW r, Shorter(r, q), q # <<>>, Turns(q, fr)
    PROVE  /\ Turns(r, fr)
           /\ Upcoming(q, fr) = q[1][1][1]
           /\ Upcoming(r, fr) = After(q[1])
<1>1. Len(q) \in Nat /\ Len(q) >= 1 /\ Len(r) = Len(q) - 1 /\ (r = <<>> <=> Len(r) = 0)
      /\ \A n \in 1 .. Len(r) : r[n] = q[n + 1]
    BY DEF Shorter
<1>2. ASSUME NEW n \in 1 .. Len(r) - 1
      PROVE  r[n + 1][1][1] = After(r[n])
    <2>1. n \in 1 .. Len(r) /\ n + 1 \in 1 .. Len(r) /\ n + 1 \in 1 .. Len(q) - 1
        BY <1>1
    <2>. QED  BY <1>1, <2>1 DEF Turns
<1>3. r # <<>> => r[Len(r)] = q[Len(q)]
    <2>1. r # <<>> => Len(r) \in 1 .. Len(r) /\ Len(r) + 1 = Len(q)
        BY <1>1
    <2>. QED  BY <1>1, <2>1
<1>4. CASE r = <<>>
    <2>1. Len(q) = 1
        BY <1>1, <1>4
    <2>. QED  BY <1>2, <1>4, <2>1 DEF Turns, Upcoming
<1>5. CASE r # <<>>
    <2>1. 1 \in 1 .. Len(r) /\ 1 \in 1 .. Len(q) - 1
        BY <1>1, <1>5
    <2>2. r[1] = q[1 + 1] /\ q[1 + 1][1][1] = After(q[1])
        BY <1>1, <2>1 DEF Turns
    <2>. QED  BY <1>2, <1>3, <1>5, <2>2 DEF Turns, Upcoming
<1>. QED  BY <1>4, <1>5

\* A packet of the frame in progress is committed.
LEMMA TurnsCommit ==
    ASSUME NEW q, NEW fr, NEW t, NEW r, Longer(r, q, t), Turns(q, fr), t[1][1] = fr
    PROVE  /\ Turns(r, After(t))
           /\ Upcoming(r, After(t)) = Upcoming(q, fr)
<1>1. /\ Len(q) \in Nat /\ Len(r) = Len(q) + 1
      /\ \A n \in 1 .. Len(q) : r[n] = q[n]
      /\ r[Len(q) + 1] = t
      /\ r # <<>>
      /\ q = <<>> <=> Len(q) = 0
    BY DEF Longer
<1>2. ASSUME NEW n \in 1 .. Len(r) - 1
      PROVE  r[n + 1][1][1] = After(r[n])
    <2>1. CASE n = Len(q)
        BY <1>1, <1>2, <2>1 DEF Turns
    <2>2. CASE n # Len(q)
        <3>1. n \in 1 .. Len(q) - 1 /\ n \in 1 .. Len(q) /\ n + 1 \in 1 .. Len(q)
            BY <1>1, <2>2
        <3>. QED  BY <1>1, <3>1 DEF Turns
    <2>. QED  BY <2>1, <2>2
<1>3. Turns(r, After(t))
    BY <1>1, <1>2 DEF Turns
<1>4. Upcoming(r, After(t)) = Upcoming(q, fr)
    BY <1>1 DEF Upcoming
<1>. QED  BY <1>3, <1>4

\* The upcoming frame is one, and nothing held is of a later frame.
LEMMA UpcomingRange ==
    ASSUME NEW h, NEW q, NEW p, NEW fr \in 1 .. MaxFrames + 1, NEW po \in 0 .. FrameBytes,
           Flight(h, q, p, fr, po)
    PROVE  /\ Upcoming(q, fr) \in 1 .. MaxFrames + 1
           /\ \A i \in 1 .. Len(h) :
                 h[i][2] = WireFrame => h[i][1] + 1 <= Upcoming(q, fr)
<1>1. h \in Seq(Byte) /\ q \in Seq(Seq(Byte))
    BY DEF Flight, Units
<1>2. CASE q = <<>>
    <2>1. \A i \in 1 .. Len(h) : Past(h[i], fr, po) /\ h[i] \in Byte
        BY <1>1, ElementOfSeq DEF Flight, ReadOut
    <2>2. ASSUME NEW i \in 1 .. Len(h), h[i][2] = WireFrame
          PROVE  h[i][1] + 1 <= fr
        <3>1. h[i][1] \in Int /\ ~(WireFrame <= po)
            BY <2>1, Bytes, Sizes
        <3>. QED  BY <2>1, <2>2, <3>1 DEF Past
    <2>. QED  BY <1>2, <2>2 DEF Upcoming
<1>3. CASE q # <<>>
    <2>1. 1 \in 1 .. Len(q)
        BY <1>1, <1>3, LenProperties, EmptySeq
    <2>2. q[1] \in Seq(Byte) /\ (IsTrailer(q[1]) \/ IsPixels(q[1])) /\ AllBefore(h, q[1])
        BY <1>1, <2>1, PacketBytes DEF Flight, Units, Ordered
    <2>3. q[1][1][1] \in 1 .. MaxFrames /\ 1 \in 1 .. Len(q[1]) /\ q[1][1] \in Byte
        <3>1. Len(q[1]) \in 1 .. Packet
            BY <2>2, PacketShape
        <3>2. 1 \in 1 .. Len(q[1])
            BY <3>1, Sizes
        <3>. QED  BY <2>2, <3>2, PacketShape
    <2>4. ASSUME NEW i \in 1 .. Len(h), h[i][2] = WireFrame
          PROVE  h[i][1] + 1 <= q[1][1][1]
        <3>1. h[i] \in Byte /\ Before(h[i], q[1][1])
            BY <1>1, <2>2, <2>3, ElementOfSeq DEF AllBefore
        <3>2. h[i][1] \in Int /\ q[1][1][2] <= WireFrame /\ q[1][1][2] \in Int
            BY <2>3, <3>1, Bytes
        <3>. QED  BY <2>3, <2>4, <3>1, <3>2, Sizes DEF Before
    <2>. QED  BY <1>3, <2>3, <2>4, Sizes DEF Upcoming
<1>. QED  BY <1>2, <1>3

\* Whole trailers, so many and one more.
LEMMA TrailerSum ==
    /\ \A a, b \in Int : FrameTrailer * (a + 1 - b) = FrameTrailer * (a - b) + FrameTrailer
    /\ \A a, b, c \in Int :
          FrameTrailer * (a - c) - FrameTrailer * (b - c) = FrameTrailer * (a - b)
    /\ \A a \in Int : FrameTrailer * (a - a) = 0
    /\ \A a, b \in Int : FrameTrailer * (a - b) \in Int
<1>1. FrameTrailer \in Int
    BY Sizes
<1>2. \A a \in Int, n \in Int : n * (a + 1) = n * a + n
    OBVIOUS
<1>3. \A a, b, n \in Int : n * (a - b) = n * a - n * b
    OBVIOUS
<1>4. \A a, b \in Int : a + 1 - b = (a - b) + 1 /\ a - b \in Int
    OBVIOUS
<1>5. \A a, b \in Int : FrameTrailer * (a + 1 - b) = FrameTrailer * (a - b) + FrameTrailer
    BY <1>1, <1>2, <1>4
<1>6. ASSUME NEW a \in Int, NEW b \in Int, NEW c \in Int
      PROVE  FrameTrailer * (a - c) - FrameTrailer * (b - c) = FrameTrailer * (a - b)
    <2>1. /\ FrameTrailer * (a - c) = FrameTrailer * a - FrameTrailer * c
          /\ FrameTrailer * (b - c) = FrameTrailer * b - FrameTrailer * c
          /\ FrameTrailer * (a - b) = FrameTrailer * a - FrameTrailer * b
        BY <1>1, <1>3
    <2>2. /\ FrameTrailer * a \in Int /\ FrameTrailer * b \in Int /\ FrameTrailer * c \in Int
        BY <1>1
    <2>. QED  BY <2>1, <2>2
<1>7. \A a \in Int : a - a = 0 /\ FrameTrailer * 0 = 0
    BY <1>1
<1>8. \A a, b \in Int : FrameTrailer * (a - b) \in Int
    BY <1>1, <1>4
<1>. QED  BY <1>5, <1>6, <1>7, <1>8

\* The oldest packet goes to the host.
LEMMA PhaseMoves ==
    ASSUME NEW h, NEW q, NEW p, NEW fr \in 1 .. MaxFrames + 1, NEW po \in 0 .. FrameBytes,
           Flight(h, q, p, fr, po), Turns(q, fr), NEW s \in Int, Phased(h, q, fr, s),
           q # <<>>, NEW u, NEW r, Joined(u, h, q[1]), Shorter(r, q)
    PROVE  Phased(u, r, fr, s)
<1> DEFINE t == q[1]
           up == Upcoming(q, fr)
<1>1. h \in Seq(Byte) /\ t \in Seq(Byte) /\ (IsTrailer(t) \/ IsPixels(t))
    <2>1. 1 \in 1 .. Len(q)
        BY DEF Shorter
    <2>. QED  BY <2>1 DEF Flight, Units, Shorter
<1>2. /\ up = t[1][1]
      /\ Upcoming(r, fr) = up + (IF Len(t) < Packet THEN 1 ELSE 0)
      /\ up \in Int
    <2>1. up = t[1][1] /\ Upcoming(r, fr) = After(t)
        BY TurnsMove
    <2>2. up \in 1 .. MaxFrames + 1
        BY UpcomingRange
    <2>3. up \in Int
        BY <2>2, Sizes
    <2>. QED  BY <2>1, <2>3 DEF After
<1>3. /\ Len(h) \in Nat /\ Len(t) \in Nat
      /\ Len(u) = Len(h) + Len(t)
    BY <1>1, LenProperties DEF Joined
<1>4. /\ s <= up
      /\ Multiple(Len(h) - FrameTrailer * (up - s))
      /\ \A i \in 1 .. Len(h) :
          /\ h[i][1] >= s
          /\ h[i][2] = FrameBytes + 1 => Multiple((i - 1) - FrameTrailer * (h[i][1] - s))
    BY DEF Phased
<1>5. Joined(u, h, t)
    OBVIOUS
<1> HIDE DEF t, up
<1> DEFINE x == FrameTrailer * (up - s)
<1>6. x \in Int /\ FrameTrailer * (up + 1 - s) = x + FrameTrailer
    BY <1>2, TrailerSum
<1> HIDE DEF x
<1>7. Multiple(Len(u) - FrameTrailer * (Upcoming(r, fr) - s)) /\ s <= Upcoming(r, fr)
    <2>1. CASE IsTrailer(t)
        <3>1. Len(t) = FrameTrailer /\ Upcoming(r, fr) = up + 1
            BY <1>1, <1>2, <2>1, PacketShape, Sizes
        <3>2. Len(u) - (x + FrameTrailer) = Len(h) - x
            BY <1>3, <1>6, <3>1, Sizes
        <3>3. Multiple(Len(u) - (x + FrameTrailer))
            BY <1>4, <3>2 DEF x
        <3>4. FrameTrailer * (Upcoming(r, fr) - s) = x + FrameTrailer
            <4> DEFINE n == Upcoming(r, fr)
            <4>1. n = up + 1
                BY <3>1
            <4> HIDE DEF n
            <4>2. FrameTrailer * (n - s) = x + FrameTrailer
                <5>1. up \in Int /\ n \in Int /\ FrameTrailer \in Int
                    BY <1>2, <4>1, Sizes
                <5>. QED  BY <1>6, <4>1, <5>1
            <4>. QED  BY <4>2 DEF n
        <3>5. s <= up + 1
            BY <1>2, <1>4
        <3>. QED  BY <3>1, <3>3, <3>4, <3>5
    <2>2. CASE IsPixels(t)
        <3>1. Len(t) = Packet /\ Upcoming(r, fr) = up
            BY <1>1, <1>2, <2>2, PacketShape, Sizes
        <3>2. Len(u) - x = (Len(h) - x) + Packet /\ Len(h) - x \in Int /\ Packet \in Int
            BY <1>3, <1>6, <3>1, Sizes
        <3>3. Multiple(Len(u) - x)
            <4>1. Multiple(Len(h) - x)
                BY <1>4 DEF x
            <4>. QED  BY <3>2, <4>1, Multiples
        <3>. QED  BY <1>4, <3>1, <3>3 DEF x
    <2>. QED  BY <1>1, <2>1, <2>2
<1>8. ASSUME NEW i \in 1 .. Len(u)
      PROVE  /\ u[i][1] >= s
             /\ u[i][2] = FrameBytes + 1 => Multiple((i - 1) - FrameTrailer * (u[i][1] - s))
    <2>1. CASE i \in 1 .. Len(h) /\ u[i] = h[i]
        BY <1>4, <2>1
    <2>2. ASSUME NEW j \in 1 .. Len(t), i = Len(h) + j, u[i] = t[j]
          PROVE  /\ u[i][1] >= s
                 /\ u[i][2] = FrameBytes + 1
                       => Multiple((i - 1) - FrameTrailer * (u[i][1] - s))
        <3>1. u[i][1] = up
            BY <1>1, <1>2, <2>2, PacketShape
        <3>2. ASSUME u[i][2] = FrameBytes + 1
              PROVE  i - 1 = Len(h)
            <4>1. IsTrailer(t)
                <5>1. t[j][2] = FrameBytes + 1
                    BY <2>2, <3>2
                <5>. QED  BY <1>1, <5>1, PacketShape, Sizes
            <4>2. t[j] = <<t[1][1], FrameBytes + j>>
                BY <1>1, <4>1, PacketShape
            <4>3. j = 1
                <5>1. t[j][2] = FrameBytes + j
                    BY <4>2
                <5>. QED  BY <2>2, <3>2, <5>1, Sizes
            <4>. QED  BY <1>3, <2>2, <4>3
        <3>. QED  BY <1>4, <3>1, <3>2
    <2>3. \/ i \in 1 .. Len(h) /\ u[i] = h[i]
          \/ \E j \in 1 .. Len(t) : i = Len(h) + j /\ u[i] = t[j]
        BY <1>1, <1>5, JoinedByte
    <2>. QED  BY <2>1, <2>2, <2>3
<1>. QED  BY <1>7, <1>8 DEF Phased

\* The pixels of a rejected frame are whole packets.
LEMMA PhaseRejects ==
    ASSUME NEW h \in Seq(Byte), NEW q, NEW fr, Upcoming(q, fr) \in Int,
           NEW s \in Int, Phased(h, q, fr, s),
           FrameBytes <= Len(h), NEW u, IsEnd(u, h, FrameBytes)
    PROVE  Phased(u, q, fr, s)
<1> DEFINE up == Upcoming(q, fr)
           x == FrameTrailer * (up - s)
<1>1. /\ Len(h) \in Nat /\ FrameBytes \in Nat
      /\ Len(u) = Len(h) - FrameBytes
      /\ \A i \in 1 .. Len(u) : u[i] = h[FrameBytes + i]
    BY LenProperties, Sizes DEF IsEnd
<1>2. x \in Int
    BY TrailerSum
<1>3. Multiple(Len(h) - x) /\ s <= up
    BY DEF Phased
<1>4. Multiple(Len(u) - x)
    <2> HIDE DEF x
    <2>1. Len(u) - x = (Len(h) - x) - FrameBytes /\ Len(h) - x \in Int
        BY <1>1, <1>2
    <2>. QED  BY <1>1, <1>3, <2>1, Multiples
<1>5. ASSUME NEW i \in 1 .. Len(u)
      PROVE  /\ u[i][1] >= s
             /\ u[i][2] = FrameBytes + 1 => Multiple((i - 1) - FrameTrailer * (u[i][1] - s))
    <2>1. FrameBytes + i \in 1 .. Len(h) /\ u[i] = h[FrameBytes + i]
        BY <1>1
    <2>2. h[FrameBytes + i] \in Byte
        BY <2>1, ElementOfSeq
    <2> DEFINE y == FrameTrailer * (u[i][1] - s)
    <2>3. y \in Int /\ u[i][1] >= s
        <3>1. u[i][1] \in Int /\ h[FrameBytes + i][1] >= s
            BY <2>1, <2>2, Bytes DEF Phased
        <3>. QED  BY <2>1, <3>1, TrailerSum
    <2>4. ASSUME u[i][2] = FrameBytes + 1
          PROVE  Multiple((i - 1) - y)
        <3>1. Multiple(((FrameBytes + i) - 1) - y)
            BY <2>1, <2>4 DEF Phased
        <3> HIDE DEF y
        <3>2. /\ (i - 1) - y = (((FrameBytes + i) - 1) - y) - FrameBytes
              /\ ((FrameBytes + i) - 1) - y \in Int
            BY <1>1, <2>3
        <3>. QED  BY <1>1, <3>1, <3>2, Multiples
    <2>. QED  BY <2>3, <2>4
<1>. QED  BY <1>3, <1>4, <1>5 DEF Phased

\* Behind a trailer, the first byte is of the frame after it.
LEMMA PhaseFinds ==
    ASSUME NEW h, NEW q, NEW p, NEW fr \in 1 .. MaxFrames + 1, NEW po \in 0 .. FrameBytes,
           Flight(h, q, p, fr, po), NEW s \in Int, Phased(h, q, fr, s),
           NEW i \in 1 .. Len(h), h[i][2] = FrameBytes + 1,
           NEW u, IsEnd(u, h, i + FrameTrailer - 1)
    PROVE  /\ Phased(u, q, fr, h[i][1] + 1)
           /\ h[i][1] + 1 \in 1 .. MaxFrames + 1
<1> DEFINE up == Upcoming(q, fr)
           f == h[i][1]
           c == i + FrameTrailer - 1
           x == FrameTrailer * (up - s)
           y == FrameTrailer * (f - s)
<1>1. h \in Seq(Byte) /\ InOrder(h)
    BY DEF Flight, Units, Ordered
<1>2. /\ Len(h) \in Nat /\ FrameTrailer \in Nat /\ FrameTrailer >= 1
      /\ c \in Int /\ c = (i - 1) + FrameTrailer
      /\ Len(u) = Len(h) - c
      /\ \A k \in 1 .. Len(u) : u[k] = h[c + k]
    <2>1. Len(h) \in Nat /\ FrameTrailer \in Nat /\ FrameTrailer >= 1
        BY <1>1, LenProperties, Sizes
    <2>2. c \in Int /\ c = (i - 1) + FrameTrailer
        BY <2>1
    <2>3. Len(u) = Len(h) - c /\ \A k \in 1 .. Len(u) : u[k] = h[c + k]
        BY DEF IsEnd
    <2>. QED  BY <2>1, <2>2, <2>3
<1>3. c <= Len(h) /\ h[c] = <<f, WireFrame>> /\ c \in 1 .. Len(h)
    <2>1. c <= Len(h) /\ h[c] = <<f, WireFrame>>
        BY DEF Flight, Units
    <2>. QED  BY <1>2, <2>1
<1>4. f \in 1 .. MaxFrames /\ up \in 1 .. MaxFrames + 1 /\ f + 1 <= up
    <2>1. h[i] \in Byte
        BY <1>1, ElementOfSeq
    <2>2. /\ up \in 1 .. MaxFrames + 1
          /\ h[c][2] = WireFrame => h[c][1] + 1 <= up
        BY <1>3, UpcomingRange
    <2>3. h[c][2] = WireFrame /\ h[c][1] = f
        BY <1>3
    <2>. QED  BY <2>1, <2>2, <2>3, Bytes
<1>5. x \in Int /\ y \in Int /\ f \in Int /\ up \in Int /\ MaxFrames \in Nat
    <2>1. f \in Int /\ up \in Int /\ MaxFrames \in Nat
        <3> HIDE DEF f, up, x, y
        <3>. QED  BY <1>4, Sizes
    <2>. QED  BY <2>1, TrailerSum
<1>6. \A a, b \in Int : a - b = a + 1 - (b + 1) /\ b + 1 \in Int
    OBVIOUS
<1>7. FrameTrailer * (up - (f + 1)) = (x - y) - FrameTrailer
    <2>1. x - y = FrameTrailer * (up - f)
        BY <1>5, TrailerSum
    <2> DEFINE z == FrameTrailer * (up - (f + 1))
    <2>2. FrameTrailer * (up - f) = z + FrameTrailer /\ z \in Int
        <3>1. up - f = up + 1 - (f + 1) /\ f + 1 \in Int
            BY <1>6, <1>5
        <3>2. FrameTrailer * (up + 1 - (f + 1)) = z + FrameTrailer /\ z \in Int
            BY <1>5, <3>1, TrailerSum
        <3>. QED  BY <3>1, <3>2
    <2> HIDE DEF z, x, y
    <2>3. z = (x - y) - FrameTrailer
        BY <1>2, <1>5, <2>1, <2>2
    <2>. QED  BY <2>3 DEF z
<1>8. Multiple(Len(h) - x) /\ Multiple((i - 1) - y)
    BY DEF Phased
<1>9. Multiple(Len(u) - FrameTrailer * (up - (f + 1)))
    <2> HIDE DEF x, y, c
    <2>1. Len(u) - ((x - y) - FrameTrailer) = (Len(h) - x) - ((i - 1) - y)
        BY <1>2, <1>5
    <2>2. Len(h) - x \in Int /\ (i - 1) - y \in Int
        BY <1>2, <1>5
    <2>. QED  BY <1>7, <1>8, <2>1, <2>2, Multiples
<1>10. ASSUME NEW k \in 1 .. Len(u)
      PROVE  /\ u[k][1] >= f + 1
             /\ u[k][2] = FrameBytes + 1
                   => Multiple((k - 1) - FrameTrailer * (u[k][1] - (f + 1)))
    <2>1. c + k \in 1 .. Len(h) /\ u[k] = h[c + k] /\ c < c + k
        BY <1>2, <1>3
    <2>2. u[k] \in Byte
        BY <1>1, <2>1, ElementOfSeq
    <2>3. Before(h[c], u[k])
        BY <1>1, <1>3, <2>1, OrderIs
    <2>4. u[k][1] \in Int /\ u[k][1] >= f + 1
        <3>1. u[k][1] \in Int /\ u[k][2] <= WireFrame /\ u[k][2] \in Int
            BY <2>2, Bytes
        <3>2. h[c][1] = f /\ h[c][2] = WireFrame
            BY <1>3
        <3> DEFINE n == u[k][1]
        <3> HIDE DEF f, n, x, y
        <3>3. WireFrame \in Nat /\ (f < n \/ (f = n /\ WireFrame < u[k][2]))
            BY <2>3, <3>2, Sizes DEF Before, n
        <3>4. n \in Int /\ n >= f + 1
            BY <1>5, <3>1, <3>3 DEF n
        <3>. QED  BY <3>4 DEF n
    <2> DEFINE g == u[k][1]
               v == FrameTrailer * (g - s)
               w == FrameTrailer * (g - (f + 1))
    <2>5. v \in Int /\ w = (v - y) - FrameTrailer
        <3>1. v \in Int /\ v - y = FrameTrailer * (g - f)
            BY <1>5, <2>4, TrailerSum
        <3>2. FrameTrailer * (g - f) = w + FrameTrailer /\ w \in Int
            <4>1. g - f = g + 1 - (f + 1) /\ f + 1 \in Int /\ g \in Int
                BY <1>6, <1>5, <2>4
            <4>2. FrameTrailer * (g + 1 - (f + 1)) = w + FrameTrailer /\ w \in Int
                BY <4>1, TrailerSum
            <4>. QED  BY <4>1, <4>2
        <3> HIDE DEF v, w, y
        <3>. QED  BY <1>2, <1>5, <3>1, <3>2
    <2>6. ASSUME u[k][2] = FrameBytes + 1
          PROVE  Multiple((k - 1) - w)
        <3>1. Multiple(((c + k) - 1) - v)
            BY <2>1, <2>6 DEF Phased
        <3> HIDE DEF v, w, y, c
        <3>2. \A a, b, d, e, z \in Int :
                  (d - 1) - ((e - z) - b) = (((((a - 1) + b) + d) - 1) - e) - ((a - 1) - z)
            OBVIOUS
        <3>3. /\ (k - 1) - w = (((c + k) - 1) - v) - ((i - 1) - y)
              /\ ((c + k) - 1) - v \in Int /\ (i - 1) - y \in Int
            <4>1. k \in Int /\ i \in Int /\ FrameTrailer \in Int
                BY <1>2
            <4>2. (k - 1) - ((v - y) - FrameTrailer)
                     = (((((i - 1) + FrameTrailer) + k) - 1) - v) - ((i - 1) - y)
                BY <1>5, <2>5, <3>2, <4>1
            <4>3. (k - 1) - w = (((c + k) - 1) - v) - ((i - 1) - y)
                BY <1>2, <2>5, <4>2, Zenon
            <4>4. ((c + k) - 1) - v \in Int /\ (i - 1) - y \in Int
                BY <1>2, <1>5, <2>5, <4>1
            <4>. QED  BY <4>3, <4>4
        <3>. QED  BY <1>8, <3>1, <3>3, Multiples
    <2>. QED  BY <2>4, <2>6
<1>11. f + 1 \in 1 .. MaxFrames + 1
    <2> HIDE DEF f, up, x, y
    <2>. QED  BY <1>4, <1>5
<1>. QED  BY <1>4, <1>9, <1>10, <1>11 DEF Phased

\* With nothing held, the first byte is of the upcoming frame.
LEMMA PhaseEmpty ==
    ASSUME NEW q, NEW fr, Upcoming(q, fr) \in 1 .. MaxFrames + 1
    PROVE  InPhase(<<>>, q, fr)
<1> DEFINE up == Upcoming(q, fr)
<1>1. Len(<<>>) = 0 /\ up \in Int
    BY EmptySeq
<1>2. 0 - FrameTrailer * (up - up) = 0
    BY <1>1, TrailerSum
<1>3. Phased(<<>>, q, fr, up)
    BY <1>1, <1>2, Multiples DEF Phased
<1>. QED  BY <1>3 DEF InPhase

-----------------------------------------------------------------------------
(* Bytes by their numbers, and buffers without a gap.                        *)

\* The numbers of bytes.
LEMMA NumIs ==
    /\ \A b \in Byte : /\ Num(b) \in Int /\ b[1] \in Int /\ b[2] \in Int
                       /\ b[2] >= 1 /\ b[2] <= WireFrame
    /\ \A f, k \in Int : Num(<<f, k>>) = f * WireFrame + k
    /\ \A f \in Int : f * WireFrame \in Int /\ (f + 1) * WireFrame = f * WireFrame + WireFrame
<1>1. WireFrame \in Int
    BY Sizes
<1>2. \A f \in Int : f * WireFrame \in Int
    BY <1>1
<1>3. \A f \in Int : (f + 1) * WireFrame = f * WireFrame + WireFrame
    <2>1. \A f \in Int : (f + 1) * WireFrame = f * WireFrame + 1 * WireFrame
        BY <1>1, Products
    <2>2. 1 * WireFrame = WireFrame
        BY <1>1
    <2>. QED  BY <2>1, <2>2
<1>4. \A b \in Byte : b[1] \in Int /\ b[2] \in Int /\ b[2] >= 1 /\ b[2] <= WireFrame
    <2>. SUFFICES ASSUME NEW b \in Byte
                  PROVE  b[1] \in Int /\ b[2] \in Int /\ b[2] >= 1 /\ b[2] <= WireFrame
        OBVIOUS
    <2>1. b[1] \in 1 .. MaxFrames /\ b[2] \in 1 .. WireFrame
        BY Bytes
    <2>. QED  BY <2>1, Sizes
<1>5. \A b \in Byte : Num(b) \in Int
    <2>. SUFFICES ASSUME NEW b \in Byte
                  PROVE  Num(b) \in Int
        OBVIOUS
    <2>1. b[1] * WireFrame \in Int /\ b[2] \in Int
        BY <1>2, <1>4
    <2>. QED  BY <2>1 DEF Num
<1>6. \A f, k \in Int : Num(<<f, k>>) = f * WireFrame + k
    BY DEF Num
<1>. QED  BY <1>2, <1>3, <1>4, <1>5, <1>6

\* The first byte of a packet in the FIFO.
LEMMA FirstByte ==
    ASSUME NEW h, NEW q, NEW p, NEW fr \in Int, NEW po \in Int, Flight(h, q, p, fr, po),
           NEW n \in 1 .. Len(q)
    PROVE  /\ q[n] \in Seq(Byte) /\ 1 \in 1 .. Len(q[n]) /\ q[n][1] \in Byte
           /\ Len(q[n]) \in Nat
           /\ Num(q[n][1]) \in Int
           /\ (IsTrailer(q[n]) \/ IsPixels(q[n]))
<1>1. q \in Seq(Seq(Byte)) /\ (IsTrailer(q[n]) \/ IsPixels(q[n]))
    BY DEF Flight, Units
<1>2. q[n] \in Seq(Byte) /\ Len(q[n]) \in Nat
    BY <1>1, PacketBytes
<1>3. 1 \in 1 .. Len(q[n]) /\ q[n][1] \in Byte
    <2>1. Len(q[n]) \in 1 .. Packet
        BY <1>1, <1>2, PacketShape
    <2>2. 1 \in 1 .. Len(q[n])
        BY <2>1, Sizes
    <2>. QED  BY <1>2, <2>2, ElementOfSeq
<1>. QED  BY <1>1, <1>2, <1>3, NumIs

LEMMA BeginInt ==
    ASSUME NEW h, NEW q, NEW p, NEW fr \in Int, NEW po \in Int, Flight(h, q, p, fr, po),
           NEW n \in Int, n >= 1
    PROVE  Begin(q, p, fr, po, n) \in Int
<1>1. Len(q) \in Nat /\ Len(p) \in Nat
    BY LenProperties DEF Flight, Units
<1>2. n <= Len(q) => Num(q[n][1]) - 1 \in Int
    <2>1. n <= Len(q) => n \in 1 .. Len(q)
        BY <1>1
    <2>. QED  BY <2>1, FirstByte
<1>3. fr * WireFrame + po - Len(p) \in Int
    <2>1. fr * WireFrame \in Int
        BY NumIs
    <2>. QED  BY <1>1, <2>1
<1>. QED  BY <1>2, <1>3 DEF Begin

\* What comes after a byte that counts counts.
LEMMA CountedAfter ==
    ASSUME NEW a \in Int, NEW x \in Byte, NEW y \in Byte, Before(x, y), x[1] >= a, Counted(x, a)
    PROVE  Counted(y, a)
<1>1. /\ x[1] \in Int /\ x[2] \in Int
      /\ y[1] \in Int /\ y[2] \in Int /\ FrameBytes \in Int
    BY NumIs, Sizes
<1>. QED  BY <1>1 DEF Before, Counted

\* All bytes of a packet count, or none.
LEMMA CountedTogether ==
    ASSUME NEW t \in Seq(Byte), IsTrailer(t) \/ IsPixels(t), NEW a \in Int, NEW k \in 1 .. Len(t)
    PROVE  Counted(t[k], a) <=> Counted(t[1], a)
<1>1. 1 \in 1 .. Len(t) /\ t[k][1] = t[1][1] /\ t[k] \in Byte /\ t[1] \in Byte
    <2>1. Len(t) \in 1 .. Packet /\ t[k][1] = t[1][1] /\ t[k] \in Byte
        BY PacketShape
    <2>2. 1 \in 1 .. Len(t)
        BY <2>1, Sizes
    <2>. QED  BY <2>1, <2>2, PacketShape
<1>2. CASE IsTrailer(t)
    <2>1. t[k] = <<t[1][1], FrameBytes + k>> /\ t[1] = <<t[1][1], FrameBytes + 1>>
        BY <1>1, <1>2, PacketShape
    <2>2. t[k][2] = FrameBytes + k /\ t[1][2] = FrameBytes + 1
        BY <2>1
    <2>3. t[k][2] > FrameBytes /\ t[1][2] > FrameBytes
        BY <2>2, Sizes
    <2>. QED  BY <2>3 DEF Counted
<1>3. CASE IsPixels(t)
    <2>1. t[k][2] <= FrameBytes /\ t[1][2] <= FrameBytes
        BY <1>1, <1>3 DEF IsPixels
    <2>. QED  BY <1>1, <2>1, NumIs, Sizes DEF Counted
<1>. QED  BY <1>2, <1>3

\* Before the first byte of a, nothing counts.
LEMMA NothingCounts ==
    ASSUME NEW h, NEW q, NEW p, NEW fr \in Int, NEW po \in 0 .. FrameBytes,
           Flight(h, q, p, fr, po), NEW a \in Int, NoneOlder(h, q, fr, a), fr <= a
    PROVE  /\ \A i \in 1 .. Len(h) : ~Counted(h[i], a)
           /\ \A n \in 1 .. Len(q) : ~Counted(q[n][1], a)
<1>1. po \in Int /\ FrameBytes \in Int /\ po <= FrameBytes
    BY Sizes
<1>2. ASSUME NEW x \in Byte, Past(x, fr, po), x[1] >= a
      PROVE  ~Counted(x, a)
    BY <1>1, <1>2, NumIs DEF Past, Counted
<1>3. ASSUME NEW i \in 1 .. Len(h)
      PROVE  ~Counted(h[i], a)
    <2>1. h[i] \in Byte /\ Past(h[i], fr, po) /\ h[i][1] >= a
        BY ElementOfSeq DEF Flight, Units, ReadOut, NoneOlder
    <2>. QED  BY <1>2, <2>1
<1>4. ASSUME NEW n \in 1 .. Len(q)
      PROVE  ~Counted(q[n][1], a)
    <2>1. 1 \in 1 .. Len(q[n]) /\ q[n][1] \in Byte
        BY <1>1, FirstByte
    <2>2. Past(q[n][1], fr, po) /\ q[n][1][1] >= a
        BY <2>1 DEF Flight, ReadOut, NoneOlder
    <2>. QED  BY <1>2, <2>1, <2>2
<1>. QED  BY <1>3, <1>4

LEMMA GaplessVacuous ==
    ASSUME NEW h, NEW q, NEW p, NEW fr \in Int, NEW po, NEW a \in Int,
           \A i \in 1 .. Len(h) : ~Counted(h[i], a),
           \A n \in 1 .. Len(q) : ~Counted(q[n][1], a),
           fr > a => p = <<>>
    PROVE  Gapless(h, q, p, fr, po, a)
<1>1. Len(<<>>) = 0
    BY EmptySeq
<1>. QED  BY <1>1 DEF Gapless

LEMMA BeginMoves ==
    ASSUME NEW q, NEW r, Shorter(r, q), NEW p, NEW fr, NEW po, NEW n \in Int, n >= 1
    PROVE  Begin(r, p, fr, po, n) = Begin(q, p, fr, po, n + 1)
<1>1. Len(q) \in Nat /\ Len(r) = Len(q) - 1
      /\ (n <= Len(r) => n \in 1 .. Len(r))
    BY DEF Shorter
<1>2. n <= Len(r) <=> n + 1 <= Len(q)
    BY <1>1
<1>3. n <= Len(r) => r[n] = q[n + 1]
    BY <1>1 DEF Shorter
<1>. QED  BY <1>2, <1>3 DEF Begin

\* The oldest packet goes to the host.
LEMMA GaplessMoves ==
    ASSUME NEW h, NEW q, NEW p, NEW fr \in Int, NEW po \in Int, Flight(h, q, p, fr, po),
           NEW a \in Int, NoneOlder(h, q, fr, a), Gapless(h, q, p, fr, po, a),
           NEW u, NEW r, Joined(u, h, q[1]), Shorter(r, q)
    PROVE  /\ Gapless(u, r, p, fr, po, a)
           /\ Counted(q[1][1], a) => Begin(r, p, fr, po, 1) - Len(u) = Begin(q, p, fr, po, 1) - Len(h)
<1> DEFINE t == q[1]
           b1 == Begin(q, p, fr, po, 1)
           b2 == Begin(r, p, fr, po, 1)
<1>1. /\ h \in Seq(Byte) /\ Len(h) \in Nat /\ Len(q) \in Nat /\ Len(r) = Len(q) - 1
      /\ 1 \in 1 .. Len(q)
    BY LenProperties DEF Flight, Units, Shorter
<1>2. /\ t \in Seq(Byte) /\ 1 \in 1 .. Len(t) /\ t[1] \in Byte /\ Len(t) \in Nat
      /\ (IsTrailer(t) \/ IsPixels(t))
    BY <1>1, FirstByte
<1>3. b2 = Begin(q, p, fr, po, 1 + 1)
    BY BeginMoves
<1>4. b1 \in Int /\ b2 \in Int
    BY <1>3, BeginInt
<1>5. Len(u) = Len(h) + Len(t)
    BY DEF Joined
<1>6. Counted(t[1], a) => /\ \A k \in 1 .. Len(t) : Num(t[k]) = b1 + k
                          /\ b1 + Len(t) = b2
    BY <1>1, <1>3 DEF Gapless
<1>7. \A i \in 1 .. Len(h) : Counted(h[i], a) => Num(h[i]) = b1 - (Len(h) - i)
    BY DEF Gapless
<1>8. \A i \in 1 .. Len(h) : Counted(h[i], a) => Counted(t[1], a)
    <2>. SUFFICES ASSUME NEW i \in 1 .. Len(h), Counted(h[i], a)
                  PROVE  Counted(t[1], a)
        OBVIOUS
    <2>1. h[i] \in Byte /\ h[i][1] >= a
        BY <1>1, ElementOfSeq DEF NoneOlder
    <2>2. Before(h[i], t[1])
        BY <1>1, <1>2 DEF Flight, Ordered, AllBefore
    <2>. QED  BY <1>2, <2>1, <2>2, CountedAfter
<1>9. Joined(u, h, t)
    OBVIOUS
<1> HIDE DEF t, b1, b2
<1>10. ASSUME NEW i \in 1 .. Len(u), Counted(u[i], a)
       PROVE  Num(u[i]) = b2 - (Len(u) - i)
    <2>1. CASE i \in 1 .. Len(h) /\ u[i] = h[i]
        <3>1. Num(u[i]) = b1 - (Len(h) - i) /\ b1 + Len(t) = b2
            BY <1>6, <1>7, <1>8, <1>10, <2>1
        <3>. QED  BY <1>1, <1>2, <1>4, <1>5, <2>1, <3>1
    <2>2. ASSUME NEW j \in 1 .. Len(t), i = Len(h) + j, u[i] = t[j]
          PROVE  Num(u[i]) = b2 - (Len(u) - i)
        <3>1. Counted(t[1], a)
            BY <1>2, <1>10, <2>2, CountedTogether
        <3>2. Num(u[i]) = b1 + j /\ b1 + Len(t) = b2
            BY <1>6, <2>2, <3>1
        <3>3. Len(h) \in Int /\ Len(t) \in Int /\ j \in Int
            BY <1>1, <1>2
        <3>. QED  BY <1>4, <1>5, <2>2, <3>2, <3>3
    <2>3. \/ i \in 1 .. Len(h) /\ u[i] = h[i]
          \/ \E j \in 1 .. Len(t) : i = Len(h) + j /\ u[i] = t[j]
        BY <1>1, <1>2, <1>9, JoinedByte
    <2>. QED  BY <2>1, <2>2, <2>3
<1>11. ASSUME NEW n \in 1 .. Len(r), Counted(r[n][1], a)
       PROVE  /\ \A k \in 1 .. Len(r[n]) : Num(r[n][k]) = Begin(r, p, fr, po, n) + k
              /\ Begin(r, p, fr, po, n) + Len(r[n]) = Begin(r, p, fr, po, n + 1)
    <2>1. n + 1 \in 1 .. Len(q) /\ r[n] = q[n + 1] /\ n \in Int /\ n >= 1
          /\ n + 1 \in Int /\ n + 1 >= 1
        BY <1>1 DEF Shorter
    <2>2. Begin(r, p, fr, po, n) = Begin(q, p, fr, po, n + 1)
          /\ Begin(r, p, fr, po, n + 1) = Begin(q, p, fr, po, (n + 1) + 1)
        BY <2>1, BeginMoves
    <2>. QED  BY <1>11, <2>1, <2>2 DEF Gapless
<1>12. fr > a => \A k \in 1 .. Len(p) : Num(p[k]) = Begin(r, p, fr, po, Len(r) + 1) + k
    <2>1. Begin(r, p, fr, po, Len(r) + 1) = Begin(q, p, fr, po, (Len(r) + 1) + 1)
        BY <1>1, BeginMoves
    <2>2. (Len(r) + 1) + 1 = Len(q) + 1
        BY <1>1
    <2>. QED  BY <2>1, <2>2 DEF Gapless
<1>13. Gapless(u, r, p, fr, po, a)
    BY <1>10, <1>11, <1>12 DEF Gapless, b2
<1>14. Counted(t[1], a) => b2 - Len(u) = b1 - Len(h)
    BY <1>1, <1>2, <1>4, <1>5, <1>6
<1>. QED  BY <1>13, <1>14 DEF t, b1, b2

\* The host gives up bytes from the front of its buffer.
LEMMA GaplessCut ==
    ASSUME NEW h, NEW q, NEW p, NEW fr \in Int, NEW po \in Int, Flight(h, q, p, fr, po),
           NEW a \in Int, Gapless(h, q, p, fr, po, a), NEW c \in 0 .. Len(h), NEW u, IsEnd(u, h, c)
    PROVE  Gapless(u, q, p, fr, po, a)
<1> DEFINE b1 == Begin(q, p, fr, po, 1)
<1>1. Len(h) \in Nat /\ b1 \in Int
    <2>1. Len(h) \in Nat
        BY LenProperties DEF Flight, Units
    <2>2. 1 \in Int /\ 1 >= 1
        OBVIOUS
    <2>. QED  BY <2>1, <2>2, BeginInt
<1>2. ASSUME NEW i \in 1 .. Len(u), Counted(u[i], a)
      PROVE  Num(u[i]) = b1 - (Len(u) - i)
    <2>1. Len(u) = Len(h) - c /\ u[i] = h[c + i] /\ c + i \in 1 .. Len(h)
        BY <1>1 DEF IsEnd
    <2>2. Num(h[c + i]) = b1 - (Len(h) - (c + i))
        BY <1>2, <2>1 DEF Gapless
    <2> HIDE DEF b1
    <2>3. Len(h) - (c + i) = Len(u) - i
        BY <1>1, <2>1
    <2>. QED  BY <2>1, <2>2, <2>3
<1>. QED  BY <1>2 DEF Gapless

LEMMA GaplessEmpty ==
    ASSUME NEW h, NEW q, NEW p, NEW fr, NEW po, NEW a, Gapless(h, q, p, fr, po, a)
    PROVE  Gapless(<<>>, q, p, fr, po, a)
<1>1. Len(<<>>) = 0
    BY EmptySeq
<1>. QED  BY <1>1 DEF Gapless

\* The sensor reads out a pixel into the packet being filled.
LEMMA GaplessAdds ==
    ASSUME NEW h, NEW q, NEW p, NEW fr \in Int, NEW po \in Int, Flight(h, q, p, fr, po),
           NEW a \in Int, Gapless(h, q, p, fr, po, a),
           NEW u, Added(u, p, <<fr, po + 1>>)
    PROVE  /\ Gapless(h, q, u, fr, po + 1, a)
           /\ \A n \in Int : Begin(q, u, fr, po + 1, n) = Begin(q, p, fr, po, n)
<1>1. Len(p) \in Nat /\ Len(u) = Len(p) + 1
      /\ (\A i \in 1 .. Len(p) : u[i] = p[i]) /\ u[Len(p) + 1] = <<fr, po + 1>>
    BY DEF Added
<1>2. fr * WireFrame \in Int /\ Num(<<fr, po + 1>>) = fr * WireFrame + (po + 1)
    BY NumIs
<1>3. fr * WireFrame + (po + 1) - Len(u) = fr * WireFrame + po - Len(p)
    BY <1>1, <1>2
<1>4. \A n \in Int : Begin(q, u, fr, po + 1, n) = Begin(q, p, fr, po, n)
    BY <1>3 DEF Begin
<1>5. Len(q) \in Nat
    BY LenProperties DEF Flight, Units
<1>6. ASSUME fr > a, NEW k \in 1 .. Len(u)
      PROVE  Num(u[k]) = Begin(q, p, fr, po, Len(q) + 1) + k
    <2>1. CASE k = Len(p) + 1
        <3>1. Begin(q, p, fr, po, Len(q) + 1) = fr * WireFrame + po - Len(p)
            BY <1>5 DEF Begin
        <3>. QED  BY <1>1, <1>2, <2>1, <3>1
    <2>2. CASE k # Len(p) + 1
        <3>1. k \in 1 .. Len(p) /\ u[k] = p[k]
            BY <1>1, <2>2
        <3>. QED  BY <1>6, <3>1 DEF Gapless
    <2>. QED  BY <2>1, <2>2
<1>7. Begin(q, u, fr, po + 1, Len(q) + 1) = Begin(q, p, fr, po, Len(q) + 1)
    BY <1>4, <1>5
<1>8. Begin(q, u, fr, po + 1, 1) = Begin(q, p, fr, po, 1)
    BY <1>4
<1>9. \A n \in 1 .. Len(q) :
          /\ Begin(q, u, fr, po + 1, n) = Begin(q, p, fr, po, n)
          /\ Begin(q, u, fr, po + 1, n + 1) = Begin(q, p, fr, po, n + 1)
    BY <1>4
<1>. QED  BY <1>4, <1>6, <1>7, <1>8, <1>9 DEF Gapless

\* A packet is committed: t, which is p, or a trailer behind an empty packet.
LEMMA GaplessCommit ==
    ASSUME NEW h, NEW q, NEW p, NEW fr \in Int, NEW po \in Int, Flight(h, q, p, fr, po),
           NEW a \in Int, Gapless(h, q, p, fr, po, a),
           NEW t \in Seq(Byte), 1 \in 1 .. Len(t), NEW r, Longer(r, q, t),
           NEW fr2 \in Int, NEW po2 \in Int,
           LET b == fr * WireFrame + po - Len(p)
           IN  /\ \A k \in 1 .. Len(t) : Num(t[k]) = b + k
               /\ b + Len(t) = fr2 * WireFrame + po2
    PROVE  /\ Gapless(h, r, <<>>, fr2, po2, a)
           /\ Begin(r, <<>>, fr2, po2, 1) = Begin(q, p, fr, po, 1)
<1> DEFINE b == fr * WireFrame + po - Len(p)
           c == fr2 * WireFrame + po2
<1>1. Len(p) \in Nat /\ Len(t) \in Nat
    BY LenProperties DEF Flight, Units
<1>2. b \in Int /\ c \in Int
    BY <1>1, NumIs
<1>3. (\A k \in 1 .. Len(t) : Num(t[k]) = b + k) /\ b + Len(t) = c /\ Num(t[1]) = b + 1
    OBVIOUS
<1>4. c - Len(<<>>) = c
    BY <1>2, EmptySeq
<1>5. Len(q) \in Nat /\ Len(r) = Len(q) + 1 /\ r[Len(q) + 1] = t
      /\ \A n \in 1 .. Len(q) : r[n] = q[n]
    BY DEF Longer
<1>6. \A n \in 1 .. Len(q) + 1 : Begin(r, <<>>, fr2, po2, n) = Begin(q, p, fr, po, n)
    <2>. SUFFICES ASSUME NEW n \in 1 .. Len(q) + 1
                  PROVE  Begin(r, <<>>, fr2, po2, n) = Begin(q, p, fr, po, n)
        OBVIOUS
    <2>1. CASE n = Len(q) + 1
        <3>1. Begin(r, <<>>, fr2, po2, n) = Num(t[1]) - 1
            BY <1>5, <2>1 DEF Begin
        <3>2. Begin(q, p, fr, po, n) = b
            BY <1>5, <2>1 DEF Begin
        <3> HIDE DEF b, c
        <3>. QED  BY <1>2, <1>3, <3>1, <3>2
    <2>2. CASE n # Len(q) + 1
        <3>1. n \in 1 .. Len(q) /\ n <= Len(r)
            BY <1>5, <2>2
        <3>2. r[n] = q[n] /\ n <= Len(q)
            BY <1>5, <3>1
        <3>. QED  BY <3>1, <3>2 DEF Begin
    <2>. QED  BY <2>1, <2>2
<1>7. Begin(r, <<>>, fr2, po2, Len(r) + 1) = c /\ Begin(q, p, fr, po, Len(q) + 1) = b
    <2>1. Begin(r, <<>>, fr2, po2, Len(r) + 1) = c - Len(<<>>)
        <3>1. ~(Len(r) + 1 <= Len(r))
            BY <1>5
        <3>2. WireFrame \in Int
            BY Sizes
        <3>. QED  BY <1>2, <3>1, <3>2 DEF Begin
    <2>2. ~(Len(q) + 1 <= Len(q))
        BY <1>5
    <2>. QED  BY <1>4, <2>1, <2>2 DEF Begin
<1> HIDE DEF b, c
<1>8. ASSUME NEW n \in 1 .. Len(r), Counted(r[n][1], a)
      PROVE  /\ \A k \in 1 .. Len(r[n]) : Num(r[n][k]) = Begin(r, <<>>, fr2, po2, n) + k
             /\ Begin(r, <<>>, fr2, po2, n) + Len(r[n]) = Begin(r, <<>>, fr2, po2, n + 1)
    <2>1. CASE n = Len(q) + 1
        <3>1. Begin(r, <<>>, fr2, po2, n) = b /\ r[n] = t /\ n + 1 = Len(r) + 1
            BY <1>5, <1>6, <1>7, <2>1
        <3>. QED  BY <1>3, <1>7, <3>1
    <2>2. CASE n # Len(q) + 1
        <3>1. n \in 1 .. Len(q) /\ r[n] = q[n]
            BY <1>5, <2>2
        <3>2. n \in 1 .. Len(q) + 1 /\ n + 1 \in 1 .. Len(q) + 1
            BY <1>5, <3>1
        <3>. QED  BY <1>6, <1>8, <3>1, <3>2 DEF Gapless
    <2>. QED  BY <2>1, <2>2
<1>9. Begin(r, <<>>, fr2, po2, 1) = Begin(q, p, fr, po, 1)
    BY <1>5, <1>6
<1>10. Len(<<>>) = 0
    BY EmptySeq
<1>. QED  BY <1>8, <1>9, <1>10 DEF Gapless

\* Nothing older: what is behind a trailer is of a later frame.
LEMMA NoneOlderBehind ==
    ASSUME NEW h, NEW q, NEW p, NEW fr \in Int, NEW po \in 0 .. FrameBytes,
           Flight(h, q, p, fr, po), NEW f \in Int, NEW c \in 1 .. Len(h),
           h[c] = <<f, WireFrame>>, NEW u, IsEnd(u, h, c)
    PROVE  NoneOlder(u, q, fr, f + 1)
<1>1. po \in Int /\ po < WireFrame /\ WireFrame \in Int
    BY Sizes
<1>2. h \in Seq(Byte) /\ InOrder(h) /\ h[c] \in Byte /\ Past(h[c], fr, po) /\ Len(h) \in Nat
    BY ElementOfSeq, LenProperties DEF Flight, Units, Ordered, ReadOut
<1>3. h[c][1] = f /\ h[c][2] = WireFrame
    OBVIOUS
<1>4. \A x \in Byte : Before(h[c], x) => x[1] >= f + 1
    <2>. SUFFICES ASSUME NEW x \in Byte, Before(h[c], x)
                  PROVE  x[1] >= f + 1
        OBVIOUS
    <2>1. x[1] \in Int /\ x[2] \in Int /\ x[2] <= WireFrame
        BY NumIs
    <2>. QED  BY <1>1, <1>3, <2>1 DEF Before
<1>5. fr >= f + 1
    BY <1>1, <1>2, <1>3 DEF Past
<1>6. ASSUME NEW i \in 1 .. Len(u)
      PROVE  u[i][1] >= f + 1
    <2>1. u[i] = h[c + i] /\ c + i \in 1 .. Len(h) /\ c < c + i
        BY <1>2 DEF IsEnd
    <2>2. Before(h[c], h[c + i]) /\ h[c + i] \in Byte
        BY <1>2, <2>1, OrderIs, ElementOfSeq
    <2>. QED  BY <1>4, <2>1, <2>2
<1>7. ASSUME NEW n \in 1 .. Len(q), NEW k \in 1 .. Len(q[n])
      PROVE  q[n][k][1] >= f + 1
    <2>1. q[n] \in Seq(Byte) /\ q[n][k] \in Byte
        BY <1>1, FirstByte, ElementOfSeq
    <2>2. Before(h[c], q[n][k])
        BY DEF Flight, Ordered, AllBefore
    <2>. QED  BY <1>4, <2>1, <2>2
<1>. QED  BY <1>5, <1>6, <1>7 DEF NoneOlder

-----------------------------------------------------------------------------
(* Part 4: the steps.  What a step does to the bytes on their way is one of five
   things at the host, or the device's own.                                  *)

Keeps == Held' = Held /\ UNCHANGED <<frame, pos, fifo, part, history>>

Delivers ==
    /\ fifo # <<>>
    /\ Joined(Held', Held, Head(fifo))
    /\ fifo' = Tail(fifo)
    /\ UNCHANGED <<frame, pos, part, history>>

Drops ==
    /\ Held' = <<>>
    /\ fifo' = fifo \/ (fifo # <<>> /\ fifo' = Tail(fifo))
    /\ intact' = FALSE
    /\ UNCHANGED <<frame, pos, part, startedAt, armedAt, synced, markerLost>>

Rejects ==
    /\ FrameBytes \in 0 .. Len(Held)
    /\ Held' = From(Held, FrameBytes + 1)
    /\ intact' = FALSE
    /\ UNCHANGED <<frame, pos, fifo, part, startedAt, armedAt, synced, markerLost>>

FindsAt(i) ==
    /\ MarkerAt(Held, i)
    /\ Held' = From(Held, i + FrameTrailer)

Finds ==
    /\ \E i \in 1 .. Len(Held) : FindsAt(i)
    /\ intact' \in {intact, FALSE}
    /\ UNCHANGED <<frame, pos, fifo, part, startedAt, armedAt, markerLost>>

\* What the host holds, and what a transfer adds to it.
LEMMA HeldIs ==
    ASSUME WireInv
    PROVE  /\ fed \in Seq(Byte) /\ carry \in Seq(Byte) /\ urb \in Seq(Byte)
           /\ Fore \in Seq(Byte) /\ Held \in Seq(Byte)
           /\ ~Waiting => urb = <<>> /\ Held = Fore
<1>1. fed \in Seq(Byte) /\ carry \in Seq(Byte) /\ urb \in Seq(Byte)
    BY DEF WireInv, MappedInv, Inv, TypeOK, CaptureTypeOK
<1>2. Fore \in Seq(Byte)
    BY <1>1 DEF Fore
<1>3. Held \in Seq(Byte)
    BY <1>1, <1>2, Closed DEF Held
<1>4. ~Waiting => urb = <<>> /\ Held = Fore
    BY <1>2, ConcatEmptySeq DEF WireInv, UrbFits, Held
<1>. QED  BY <1>1, <1>2, <1>3, <1>4

LEMMA Arrivals ==
    ASSUME WireInv, fifo # <<>>
    PROVE  /\ Head(fifo) \in Seq(Byte) /\ Len(Head(fifo)) \in 1 .. Packet
           /\ Arrived \in Seq(Byte) /\ Len(Arrived) \in Nat /\ Len(Arrived) >= 1
           /\ Tail(fifo) \in Seq(Seq(Byte)) /\ Len(Tail(fifo)) = Len(fifo) - 1
           /\ Fore \o Arrived = Held \o Head(fifo)
           /\ Joined(Held \o Head(fifo), Held, Head(fifo))
<1>1. fifo \in Seq(Seq(Byte))
    BY DEF WireInv, CaptureTypeOK
<1>2. Shorter(Tail(fifo), fifo) /\ Head(fifo) = fifo[1]
    BY <1>1, Leaves
<1>3. 1 \in 1 .. Len(fifo)
    BY <1>2 DEF Shorter
<1>4. Head(fifo) \in Seq(Byte) /\ (IsTrailer(Head(fifo)) \/ IsPixels(Head(fifo)))
    BY <1>2, <1>3 DEF WireInv, Flight, Units, Shorter
<1>5. Len(Head(fifo)) \in 1 .. Packet
    BY <1>4, PacketShape
<1>6. Arrived \in Seq(Byte) /\ Len(Arrived) = Len(urb) + Len(Head(fifo)) /\ Len(urb) \in Nat
    BY <1>4, HeldIs, ConcatProperties, LenProperties DEF Arrived
<1>7. Len(Arrived) \in Nat /\ Len(Arrived) >= 1
    BY <1>5, <1>6, Sizes
<1>8. Fore \o Arrived = Held \o Head(fifo)
    BY <1>4, HeldIs, Associative DEF Arrived, Held
<1>9. Joined(Held \o Head(fifo), Held, Head(fifo))
    BY <1>4, HeldIs, Join
<1>. QED  BY <1>2, <1>4, <1>5, <1>6, <1>7, <1>8, <1>9 DEF Shorter

\* Whatever arrives, a read can return it.
LEMMA AskedIs ==
    /\ Asked \in Nat /\ Asked < WireFrame + SettleChunk
    /\ \A s \in Seq(Byte) :
          s # <<>> /\ Len(s) <= Asked =>
             /\ step = "read" => s \in ReadChunks
             /\ step = "scan" => s \in ScanChunks
<1>1. SettleChunk \in Nat /\ SettleChunk >= 1 /\ MaxBulk \in Nat
    BY ReaderAssumption DEF ReaderAssumption
<1>2. Asked \in Nat /\ Asked < WireFrame + SettleChunk
    BY <1>1, Sizes DEF Asked, Smaller
<1>3. ASSUME NEW s \in Seq(Byte), s # <<>>, Len(s) <= Asked
      PROVE  s \in Chunks(Asked)
    <2>1. Len(s) \in 1 .. Asked
        BY <1>2, <1>3, LenProperties, EmptySeq
    <2>2. s \in [1 .. Len(s) -> Byte]
        BY LenProperties
    <2>. QED  BY <2>1, <2>2 DEF Chunks
<1>4. /\ step = "read" => ReadChunks = Chunks(Asked)
      /\ step = "scan" => ScanChunks = Chunks(Asked)
    BY DEF ReadChunks, ScanChunks, Asked
<1>. QED  BY <1>2, <1>3, <1>4

\* The wire does only what FrameReader allows of it.
LEMMA IsReaderStep ==
    ASSUME WireInv, [CaptureNext]_captureVars
    PROVE  [Next]_vars
<1>1. ASSUME NEW s \in Seq(Byte), s # <<>>, Len(s) <= Asked, ReadData(s) \/ ScanData(s)
      PROVE  Next
    <2>1. CASE ReadData(s)
        <3>1. s \in ReadChunks
            BY <1>1, <2>1, AskedIs DEF ReadData, Reading
        <3>. QED  BY <2>1, <3>1 DEF Next, Progress, Read
    <2>2. CASE ScanData(s)
        <3>1. s \in ScanChunks
            BY <1>1, <2>2, AskedIs DEF ScanData, Scanning
        <3>. QED  BY <2>2, <3>1 DEF Next, Progress, Scan
    <2>. QED  BY <1>1, <2>1, <2>2
<1>2. CASE Device \/ UNCHANGED captureVars
    BY <1>2 DEF Device, SensorPixel, FrameEnd, MainLoopGates, MainLoopResumes, captureVars
<1>3. CASE Transfer
    <2>1. CASE TransferGrows
        BY <2>1 DEF TransferGrows
    <2>2. CASE TransferEnds
        <3>1. Arrived \in Seq(Byte) /\ Arrived # <<>>
            BY <2>2, Arrivals, EmptySeq DEF TransferEnds
        <3>2. CASE ReadData(Arrived) \/ ScanData(Arrived)
            BY <1>1, <2>2, <3>1, <3>2 DEF TransferEnds, Fits
        <3>. QED  BY <2>2, <3>2 DEF TransferEnds, Next, Progress, Scan
    <2>3. CASE TransferOverflows \/ TransferFails
        BY <2>3 DEF TransferOverflows, TransferFails, Next, Progress, Read, Scan
    <2>4. CASE TransferTimesOut
        <3>1. CASE urb # <<>> /\ (ReadData(urb) \/ ScanData(urb))
            BY <1>1, <3>1, HeldIs DEF WireInv, UrbFits
        <3>. QED  BY <2>4, <3>1 DEF TransferTimesOut, Next, Progress, Read, Scan
    <2>. QED  BY <1>3, <2>1, <2>2, <2>3, <2>4 DEF Transfer
<1>4. CASE Host
    BY <1>4 DEF Host, HostCalls, HostStops, StartDone, StartFails, HostReads, HostFinds,
                Next, Caller, Progress, Arm, Read, Scan
<1>. QED  BY <1>2, <1>3, <1>4 DEF CaptureNext

LEMMA DeviceKeeps ==
    ASSUME Device
    PROVE  Held' = Held /\ UNCHANGED <<vars, urb, startedAt, armedAt, synced>>
BY DEF Device, SensorPixel, PixelLost, PixelStored, FrameEnd, MainLoopGates,
       MainLoopResumes, Held, Fore, vars, history

LEMMA ReadTransfer ==
    ASSUME WireInv, NEW s \in Seq(Byte), ReadData(s) \/ ScanData(s), urb' = <<>>
    PROVE  Held' = Fore \o s /\ UNCHANGED <<call, goal>>
<1>1. step' = step /\ step \in {"read", "scan"} /\ fed' = fed \o s /\ UNCHANGED <<call, goal>>
    BY DEF ReadData, ScanData, Reading, Scanning
<1>2. Fore' = Fore \o s /\ Held' = Fore' \o <<>>
    BY <1>1 DEF Fore, Held
<1>3. Fore \o s \in Seq(Byte)
    BY HeldIs, Closed
<1>. QED  BY <1>1, <1>2, <1>3, ConcatEmptySeq

LEMMA FailedTransfer ==
    ASSUME WireInv, ReadFails \/ ScanFails \/ ReadTimeout \/ ScanTimeout \/ ScanLate, urb' = <<>>
    PROVE  Held' = <<>> /\ goal' = goal /\ call' \in {call, "none"}
<1>1. ASSUME ReadFails \/ ScanFails
      PROVE  carry' = <<>> /\ step' = "none" /\ goal' = goal /\ call' = "none"
    BY <1>1 DEF ReadFails, ScanFails, Return, Leave
<1>2. ASSUME ScanLate
      PROVE  carry' = <<>> /\ step' \in {"none", "arm"} /\ goal' = goal /\ call' \in {call, "none"}
    BY <1>2 DEF ScanLate, NoBoundary, Return, Leave
<1>3. ASSUME Panic, Waiting
      PROVE  carry' = <<>> /\ step' = "panicked" /\ goal' = goal /\ call' = call
    BY <1>3 DEF Panic, Waiting, Reading, Scanning, WireInv, MappedInv, ScanTakesAll, Inv,
                Contiguous
<1>4. carry' = <<>> /\ step' \in {"none", "arm", "panicked"} /\ goal' = goal
      /\ call' \in {call, "none"}
    BY <1>1, <1>2, <1>3 DEF ReadTimeout, ScanTimeout, Waiting
<1>5. Held' = <<>> \o <<>>
    BY <1>4 DEF Held, Fore
<1>. QED  BY <1>4, <1>5, ConcatEmptySeq, EmptySeq

LEMMA TransferSteps ==
    ASSUME WireInv, Transfer
    PROVE  /\ Keeps \/ Delivers \/ Drops
           /\ goal' = goal /\ call' \in {call, "none"}
<1>1. CASE TransferGrows
    <2>1. fifo # <<>> /\ urb' = Arrived /\ fifo' = Tail(fifo)
          /\ UNCHANGED <<vars, frame, pos, part, history>>
        BY <1>1 DEF TransferGrows
    <2>2. Held' = Fore \o Arrived
        BY <2>1 DEF Held, Fore, vars
    <2>3. Delivers
        BY <2>1, <2>2, Arrivals DEF Delivers
    <2>. QED  BY <2>1, <2>3 DEF vars
<1>2. CASE TransferEnds
    <2>1. fifo # <<>> /\ fifo' = Tail(fifo) /\ urb' = <<>> /\ UNCHANGED <<frame, pos, part>>
        BY <1>2 DEF TransferEnds
    <2>2. CASE (ReadData(Arrived) \/ ScanData(Arrived)) /\ UNCHANGED history
        <3>1. Held' = Fore \o Arrived /\ UNCHANGED <<call, goal>>
            BY <2>1, <2>2, Arrivals, ReadTransfer
        <3>. QED  BY <2>1, <2>2, <3>1, Arrivals DEF Delivers
    <2>3. CASE ScanLate /\ Gone
        BY <2>1, <2>3, FailedTransfer DEF Drops, Gone
    <2>. QED  BY <1>2, <2>2, <2>3 DEF TransferEnds
<1>3. CASE TransferOverflows
    BY <1>3, FailedTransfer DEF TransferOverflows, Drops, Gone
<1>4. CASE TransferTimesOut
    <2>1. urb' = <<>> /\ UNCHANGED <<frame, pos, fifo, part>>
        BY <1>4 DEF TransferTimesOut, device
    <2>2. CASE (ReadData(urb) \/ ScanData(urb)) /\ UNCHANGED history
        <3>1. Held' = Fore \o urb /\ UNCHANGED <<call, goal>>
            BY <2>1, <2>2, HeldIs, ReadTransfer
        <3>. QED  BY <2>1, <2>2, <3>1 DEF Keeps, Held
    <2>3. CASE (ReadTimeout \/ ScanTimeout) /\ Gone
        BY <2>1, <2>3, FailedTransfer DEF Drops, Gone
    <2>. QED  BY <1>4, <2>2, <2>3 DEF TransferTimesOut
<1>5. CASE TransferFails
    BY <1>5, FailedTransfer DEF TransferFails, Drops, Gone, device
<1>. QED  BY <1>1, <1>2, <1>3, <1>4, <1>5 DEF Transfer

\* Between transfers the host holds what it has been given, and nothing else.
LEMMA CallerKeeps ==
    ASSUME WireInv, HostCalls
    PROVE  Keeps
<1>1. call = "none" /\ step = "none" /\ ~Waiting
    BY DEF HostCalls, CallStart, CallSnap, CallSettle, CallFrame, Call, WireInv, MappedInv,
           Inv, CallShape, Waiting, Reading, Scanning
<1>2. Held = carry /\ urb' = <<>> /\ Held' = Fore' \o <<>>
    BY <1>1, HeldIs DEF HostCalls, Fore, Held
<1>3. Fore' = carry
    BY DEF HostCalls, CallStart, CallSnap, CallSettle, CallFrame, EnterScan, EnterRead, Fore
<1>. QED  BY <1>2, <1>3, HeldIs, ConcatEmptySeq DEF HostCalls, Keeps, device

LEMMA IdleUrb ==
    ASSUME WireInv, step \in {"none", "arm"} \/ (step = "read" /\ Got = WireFrame)
                    \/ (step = "scan" /\ HasMarker(scan)), urb' = urb
    PROVE  urb' = <<>> /\ Held = Fore /\ Held' = Fore' \o <<>>
<1>1. ~Waiting
    BY Sizes DEF Waiting, Reading, Scanning
<1>2. urb = <<>> /\ Held = Fore
    BY <1>1, HeldIs
<1>. QED  BY <1>2 DEF Held

LEMMA StopDrops ==
    ASSUME WireInv, HostStops
    PROVE  Drops
<1>1. step = "none" /\ step' = "none" /\ carry' = <<>> /\ urb' = urb
    BY DEF HostStops, CallStop, WireInv, MappedInv, Inv, CallShape
<1>2. Held' = <<>> \o <<>>
    BY <1>1, IdleUrb DEF Fore
<1>. QED  BY <1>2, ConcatEmptySeq, EmptySeq DEF HostStops, Gone, Drops, device

\* Where a valid frame and a rejected one leave the reader.
LEMMA WholeRead ==
    ASSUME WireInv, step = "read", Got = WireFrame
    PROVE  /\ Held = fed /\ image = SubSeq(fed, 1, FrameBytes)
           /\ FrameBytes \in 0 .. Len(fed) /\ trail \o carry = From(fed, FrameBytes + 1)
           /\ trail \o carry \in Seq(Byte)
           /\ HasMagic(trail) <=> MarkerAt(fed, FrameBytes + 1)
           /\ FrameBytes + 1 \in 1 .. Len(fed)
           /\ carry = From(fed, FrameBytes + 1 + FrameTrailer)
<1>1. Held = fed
    BY HeldIs, Sizes DEF Waiting, Reading, Scanning, Fore
<1>2. Inv
    BY DEF WireInv, MappedInv
<1>3. /\ image = SubSeq(fed, 1, FrameBytes)
      /\ FrameBytes \in 0 .. Len(fed) /\ trail \o carry = From(fed, FrameBytes + 1)
      /\ trail \o carry \in Seq(Byte)
      /\ HasMagic(trail) <=> MarkerAt(fed, FrameBytes + 1)
    BY <1>2, ValidFrame
<1>4. InProgress(image, trail) /\ carry \in Seq(Byte) /\ trail \in Seq(Byte) /\ fed \in Seq(Byte)
    BY <1>2 DEF Inv, ReadShape, TypeOK
<1>5. Len(trail) = FrameTrailer
    BY <1>4, WholeWireFrame DEF Got
<1>6. Len(fed) \in Nat /\ Len(carry) \in Nat /\ Len(trail \o carry) = FrameTrailer + Len(carry)
      /\ Len(trail \o carry) = Len(fed) - FrameBytes
    BY <1>3, <1>4, <1>5, FromProperties, ConcatProperties, LenProperties
<1>7. FrameBytes + 1 \in 1 .. Len(fed) /\ FrameBytes + FrameTrailer <= Len(fed)
    BY <1>6, Sizes
<1>8. carry = From(fed, FrameBytes + 1 + FrameTrailer)
    <2>1. FrameTrailer \in 0 .. Len(fed) - FrameBytes /\ FrameTrailer \in 0 .. Len(trail)
        BY <1>5, <1>6, <1>7, Sizes
    <2>2. From(From(fed, FrameBytes + 1), FrameTrailer + 1)
             = From(fed, FrameBytes + FrameTrailer + 1)
        BY <1>3, <1>4, <2>1, FromFrom
    <2>3. From(trail \o carry, FrameTrailer + 1) = From(trail, FrameTrailer + 1) \o carry
        BY <1>4, <2>1, FromConcat
    <2>4. From(trail, FrameTrailer + 1) = <<>>
        BY <1>4, <1>5, <2>1, SubSeqEmpty, Sizes DEF From
    <2>5. carry = From(fed, FrameBytes + FrameTrailer + 1)
        BY <1>3, <1>4, <2>2, <2>3, <2>4, ConcatEmptySeq
    <2>6. FrameBytes + FrameTrailer + 1 = FrameBytes + 1 + FrameTrailer
        BY Sizes
    <2>. QED  BY <2>5, <2>6
<1>. QED  BY <1>1, <1>3, <1>7, <1>8

LEMMA ReadsStep ==
    ASSUME WireInv, HostReads
    PROVE  /\ ReadNextImage => Finds /\ FindsAt(FrameBytes + 1) /\ intact' = intact
           /\ ReadValid /\ call # "Snap" =>
                 Finds /\ FindsAt(FrameBytes + 1) /\ intact' = intact
           /\ ReadValid /\ call = "Snap" => Drops
           /\ ReadRejected \/ ReadRejectedAgain => Rejects \/ Drops
           /\ synced' = synced
<1>1. step = "read" /\ Got = WireFrame /\ urb' = urb /\ UNCHANGED <<device, synced>>
    BY DEF HostReads, ReadNextImage, ReadValid, ReadRejected, ReadRejectedAgain, Gone, history
<1>2. Held' = Fore' \o <<>> /\ fed \in Seq(Byte)
    BY <1>1, IdleUrb, HeldIs
<1>3. Held = fed /\ FrameBytes \in 0 .. Len(fed) /\ FrameBytes + 1 \in 1 .. Len(fed)
      /\ trail \o carry = From(fed, FrameBytes + 1) /\ trail \o carry \in Seq(Byte)
      /\ carry = From(fed, FrameBytes + 1 + FrameTrailer) /\ carry \in Seq(Byte)
      /\ (HasMagic(trail) <=> MarkerAt(fed, FrameBytes + 1))
    BY <1>1, WholeRead, HeldIs
<1>4. ASSUME ReadNextImage
      PROVE  Finds /\ FindsAt(FrameBytes + 1) /\ intact' = intact
    <2>1. Fore' = carry /\ HasMagic(trail) /\ UNCHANGED history
        BY <1>4 DEF ReadNextImage, EnterRead, Fore, HostReads, ReadValid, ReadRejected,
                    ReadRejectedAgain, Return, EnterScan
    <2>2. FindsAt(FrameBytes + 1)
        BY <1>2, <1>3, <2>1, ConcatEmptySeq DEF FindsAt
    <2>. QED  BY <1>1, <1>3, <2>1, <2>2 DEF Finds, device, history
<1>5. ASSUME ReadValid, call # "Snap"
      PROVE  Finds /\ FindsAt(FrameBytes + 1) /\ intact' = intact
    <2>1. Fore' = carry /\ HasMagic(trail)
        BY <1>5 DEF ReadValid, Return, Leave, Fore
    <2>2. FindsAt(FrameBytes + 1)
        BY <1>2, <1>3, <2>1, ConcatEmptySeq DEF FindsAt
    <2>3. intact' = (intact /\ call # "Snap") /\ UNCHANGED <<startedAt, armedAt, markerLost>>
        BY <1>5 DEF HostReads, ReadValid, ReadNextImage, ReadRejected, ReadRejectedAgain
    <2>4. intact' = intact
        <3>1. intact \in BOOLEAN
            BY DEF WireInv, CaptureTypeOK
        <3>. QED  BY <1>5, <2>3, <3>1
    <2>. QED  BY <1>1, <1>3, <2>2, <2>3, <2>4 DEF Finds, device
<1>6. ASSUME ReadValid, call = "Snap"
      PROVE  Drops
    <2>1. Fore' = <<>>
        BY <1>6 DEF ReadValid, Return, Leave, Fore
    <2>2. intact' = FALSE /\ UNCHANGED <<startedAt, armedAt, markerLost>>
        BY <1>6 DEF HostReads, ReadValid, ReadNextImage, ReadRejected, ReadRejectedAgain
    <2>3. Held' = <<>>
        BY <1>2, <2>1, ConcatEmptySeq, EmptySeq
    <2>. QED  BY <1>1, <2>2, <2>3 DEF Drops, device
<1>7. ASSUME ReadRejected \/ ReadRejectedAgain
      PROVE  Rejects \/ Drops
    <2>1. Gone
        BY <1>7 DEF HostReads, ReadValid, ReadNextImage, ReadRejected, ReadRejectedAgain
    <2>2. Fore' = trail \o carry \/ Fore' = <<>>
        BY <1>7 DEF ReadRejected, ReadRejectedAgain, EnterScan, Return, Leave, Fore
    <2>3. Held' = Fore'
        BY <1>2, <1>3, <2>2, ConcatEmptySeq, EmptySeq
    <2>. QED  BY <1>1, <1>3, <2>1, <2>2, <2>3 DEF Drops, Rejects, Gone, device
<1>. QED  BY <1>1, <1>4, <1>5, <1>6, <1>7

LEMMA FindsStep ==
    ASSUME WireInv, HostFinds
    PROVE  Finds /\ intact' = intact /\ synced' = TRUE
<1>1. step = "scan" /\ step' = "read" /\ HasMarker(scan)
    BY DEF HostFinds, ScanFound, EnterRead, FirstMarker, HasMarker
<1>2. Held = fed /\ Held' = Fore' \o <<>> /\ fed \in Seq(Byte)
    BY <1>1, IdleUrb, HeldIs DEF HostFinds, Fore
<1>3. PICK i \in 1 .. Len(fed) :
              /\ FirstMarker(fed, i)
              /\ From(fed, i + FrameTrailer) \in Seq(Byte)
              /\ EnterRead(From(fed, i + FrameTrailer))
    BY FoundFirst DEF HostFinds, WireInv, MappedInv
<1>4. Fore' = From(fed, i + FrameTrailer)
    BY <1>3 DEF EnterRead, Fore
<1>5. FindsAt(i)
    BY <1>2, <1>3, <1>4, ConcatEmptySeq DEF FindsAt, FirstMarker
<1>. QED  BY <1>2, <1>5 DEF HostFinds, Finds, device

\* The device is started: or a Start that failed may have started it all the same.
Resets == Held' = <<>> /\ BeginScan

LEMMA StartSteps ==
    ASSUME WireInv, StartDone \/ StartFails
    PROVE  /\ StartDone => Resets
           /\ StartFails => Drops \/ (Resets /\ intact' = FALSE
                                      /\ UNCHANGED <<startedAt, armedAt, synced, markerLost>>)
<1>1. step = "arm" /\ urb' = urb
    BY DEF StartDone, StartFails, ArmOk, ArmFails
<1>2. Held' = Fore' \o <<>>
    BY <1>1, IdleUrb
<1>3. Fore' = <<>>
    BY DEF StartDone, StartFails, ArmOk, ArmFails, EnterScan, Return, Fore
<1>4. Held' = <<>>
    BY <1>2, <1>3, ConcatEmptySeq, EmptySeq
<1>. QED  BY <1>4 DEF StartDone, StartFails, Resets, Drops, device

\* The trailer of the frame being read out.
LEMMA TrailerIs ==
    ASSUME frame \in 1 .. MaxFrames
    PROVE  /\ Trailer \in Seq(Byte) /\ IsTrailer(Trailer) /\ Len(Trailer) = FrameTrailer
           /\ \A k \in 1 .. FrameTrailer : Trailer[k] = <<frame, FrameBytes + k>>
<1>1. \A k \in 1 .. FrameTrailer : <<frame, FrameBytes + k>> \in Byte
    <2>1. \A k \in 1 .. FrameTrailer : FrameBytes + k \in 1 .. WireFrame
        BY Sizes
    <2>. QED  BY <2>1, Bytes
<1>2. Trailer \in [1 .. FrameTrailer -> Byte]
    BY <1>1 DEF Trailer
<1>3. FrameTrailer \in Nat
    BY Sizes
<1>4. Trailer \in Seq(Byte)
    BY <1>2, <1>3
<1>5. Len(Trailer) = FrameTrailer
    BY <1>3 DEF Trailer
<1>. QED  BY <1>4, <1>5 DEF Trailer, IsTrailer

LEMMA WireTypes ==
    ASSUME WireInv
    PROVE  /\ frame \in 1 .. MaxFrames + 1 /\ pos \in 0 .. FrameBytes
           /\ frame \in Int /\ pos \in Int
           /\ fifo \in Seq(Seq(Byte)) /\ part \in Seq(Byte)
           /\ Flight(Held, fifo, part, frame, pos)
<1>1. frame \in 1 .. MaxFrames + 1 /\ pos \in 0 .. FrameBytes
    BY DEF WireInv, CaptureTypeOK
<1>2. frame \in Int /\ pos \in Int
    BY <1>1, Sizes
<1>. QED  BY <1>1, <1>2 DEF WireInv, CaptureTypeOK

\* A pixel taken into the packet being filled.
LEMMA PixelIs ==
    ASSUME WireInv, frame <= MaxFrames, pos < FrameBytes
    PROVE  /\ PixelByte \in Byte /\ PixelByte = <<frame, pos + 1>> /\ pos + 1 <= FrameBytes
           /\ Added(Append(part, PixelByte), part, PixelByte)
           /\ Flight(Held, fifo, Append(part, PixelByte), frame, pos + 1)
           /\ InOrder(Append(part, PixelByte)) /\ AllBefore(Held, Append(part, PixelByte))
           /\ \A n \in 1 .. Len(fifo) : AllBefore(fifo[n], Append(part, PixelByte))
           /\ Len(part) + 1 = Packet => IsPixels(Append(part, PixelByte))
           /\ Longer(Append(fifo, Append(part, PixelByte)), fifo, Append(part, PixelByte))
<1> DEFINE u == Append(part, PixelByte)
<1>1. frame \in 1 .. MaxFrames /\ pos + 1 \in 1 .. WireFrame /\ pos + 1 <= FrameBytes
    BY WireTypes, Sizes
<1>2. PixelByte \in Byte /\ PixelByte = <<frame, pos + 1>>
    BY <1>1, Bytes DEF PixelByte
<1>3. Added(u, part, PixelByte)
    BY <1>2, WireTypes, Fills
<1> HIDE DEF u
<1>4. /\ Flight(Held, fifo, u, frame, pos + 1)
      /\ InOrder(u) /\ AllBefore(Held, u) /\ \A n \in 1 .. Len(fifo) : AllBefore(fifo[n], u)
    BY <1>1, <1>2, <1>3, WireTypes, FlightAdds
<1>5. ASSUME Len(part) + 1 = Packet
      PROVE  IsPixels(u)
    <2>1. Len(u) = Packet /\ 1 \in 1 .. Len(u)
        BY <1>3, <1>5, Sizes DEF Added
    <2>2. \A k \in 1 .. Len(u) : u[k][1] = frame /\ u[k][2] <= FrameBytes
        BY <1>4 DEF Flight, Units
    <2>. QED  BY <2>1, <2>2 DEF IsPixels
<1>6. u \in Seq(Byte)
    BY <1>3 DEF Added
<1>7. Longer(Append(fifo, u), fifo, u)
    BY <1>6, WireTypes, Commits
<1>. QED  BY <1>1, <1>2, <1>3, <1>4, <1>5, <1>7 DEF u

LEMMA PixelFlight ==
    ASSUME WireInv, SensorPixel
    PROVE  Flight(Held', fifo', part', frame', pos')
<1>1. Held' = Held /\ frame' = frame /\ pos' = pos + 1 /\ frame <= MaxFrames /\ pos < FrameBytes
    BY DeviceKeeps DEF Device, SensorPixel, PixelStored, PixelLost
<1>2. CASE PixelLost
    <2>1. pos + 1 \in Int /\ pos + 1 >= pos
        BY WireTypes
    <2>2. Flight(Held, fifo, part, frame, pos + 1)
        BY <2>1, WireTypes, FlightPasses
    <2>. QED  BY <1>1, <1>2, <2>2 DEF PixelLost
<1>3. CASE PixelStored
    <2> DEFINE u == Append(part, PixelByte)
    <2>1. /\ Flight(Held, fifo, u, frame, pos + 1)
          /\ InOrder(u) /\ AllBefore(Held, u) /\ \A n \in 1 .. Len(fifo) : AllBefore(fifo[n], u)
          /\ Len(part) + 1 = Packet => IsPixels(u)
          /\ Longer(Append(fifo, u), fifo, u)
        BY <1>1, PixelIs
    <2> HIDE DEF u
    <2>2. CASE Len(part) + 1 = Packet
        <3>1. frame \in Int /\ pos + 1 \in Int
            BY WireTypes
        <3>2. Flight(Held, fifo, <<>>, frame, pos + 1)
            BY <2>1, <3>1, FlightDrop
        <3>3. u \in Seq(Byte) /\ ReadOut(u, frame, pos + 1)
            BY <2>1 DEF Flight, Units
        <3>4. Flight(Held, Append(fifo, u), <<>>, frame, pos + 1)
            BY <2>1, <2>2, <3>1, <3>2, <3>3, FlightCommit
        <3>5. fifo' = Append(fifo, u) /\ part' = <<>>
            BY <1>3, <2>2 DEF PixelStored, u
        <3>. QED  BY <1>1, <3>4, <3>5
    <2>3. CASE Len(part) + 1 # Packet
        <3>1. fifo' = fifo /\ part' = u
            BY <1>3, <2>3 DEF PixelStored, u
        <3>. QED  BY <1>1, <2>1, <3>1
    <2>. QED  BY <2>2, <2>3
<1>. QED  BY <1>2, <1>3 DEF SensorPixel

LEMMA FrameEndFlight ==
    ASSUME WireInv, FrameEnd
    PROVE  /\ Flight(Held', fifo', part', frame', pos')
           /\ ~FifoFull => Longer(fifo', fifo, Trailer)
<1>1. /\ Held' = Held /\ frame' = frame + 1 /\ pos' = 0 /\ part' = <<>> /\ pos = FrameBytes
      /\ fifo' = IF FifoFull THEN fifo ELSE Append(fifo, Trailer)
    BY DeviceKeeps DEF Device, FrameEnd
<1>2. frame \in 1 .. MaxFrames /\ frame \in Int /\ frame + 1 \in Int /\ frame + 1 > frame
    BY WireTypes, Sizes DEF FrameEnd
<1>3. Flight(Held, fifo, <<>>, frame, pos)
    BY WireTypes, FlightDrop
<1>4. Flight(Held, fifo, <<>>, frame + 1, 0)
    BY <1>2, <1>3, WireTypes, FlightPasses
<1>5. /\ Trailer \in Seq(Byte) /\ IsTrailer(Trailer) /\ Len(Trailer) = FrameTrailer
      /\ \A k \in 1 .. FrameTrailer : Trailer[k] = <<frame, FrameBytes + k>>
    BY <1>2, TrailerIs
<1> DEFINE t == Trailer
<1> HIDE DEF t
<1>6. Longer(Append(fifo, t), fifo, t)
    BY <1>5, WireTypes, Commits DEF t
<1>7. \A k \in 1 .. Len(t) : t[k][1] = frame /\ t[k][2] = FrameBytes + k
    BY <1>5 DEF t
<1>8. InOrder(t)
    <2>1. ASSUME NEW i \in 1 .. Len(t), NEW j \in 1 .. Len(t), i < j
          PROVE  Before(t[i], t[j])
        BY <1>7, <2>1, Sizes DEF Before
    <2>. QED  BY <2>1, OrderIs
<1>9. ReadOut(t, frame + 1, 0)
    BY <1>2, <1>7 DEF ReadOut, Past
<1>10. \A s \in Seq(Byte) : ReadOut(s, frame, pos) => AllBefore(s, t)
    <2>. SUFFICES ASSUME NEW s \in Seq(Byte), ReadOut(s, frame, pos),
                         NEW i \in 1 .. Len(s), NEW k \in 1 .. Len(t)
                  PROVE  Before(s[i], t[k])
        BY DEF AllBefore
    <2>1. s[i] \in Byte
        BY ElementOfSeq
    <2>2. s[i][1] \in Int /\ s[i][2] \in Int /\ Past(s[i], frame, FrameBytes)
        BY <1>1, <2>1, Bytes DEF ReadOut
    <2>3. k \in Int /\ k >= 1 /\ t[k][1] = frame /\ t[k][2] = FrameBytes + k
        BY <1>7
    <2>. QED  BY <1>2, <2>2, <2>3, Sizes DEF Past, Before
<1>11. AllBefore(Held, t) /\ \A n \in 1 .. Len(fifo) : AllBefore(fifo[n], t)
    BY <1>10, WireTypes, PacketBytes, HeldIs DEF Flight
<1>12. Flight(Held, Append(fifo, t), <<>>, frame + 1, 0)
    BY <1>2, <1>4, <1>5, <1>6, <1>8, <1>9, <1>11, FlightCommit DEF t
<1>. QED  BY <1>1, <1>4, <1>6, <1>12 DEF t

\* Where a trailer found in the buffer ends.
LEMMA FoundEnd ==
    ASSUME WireInv, NEW i \in 1 .. Len(Held), FindsAt(i)
    PROVE  /\ i + FrameTrailer - 1 \in 0 .. Len(Held)
           /\ IsEnd(Held', Held, i + FrameTrailer - 1)
<1> DEFINE c == i + FrameTrailer - 1
<1>1. c <= Len(Held) /\ Len(Held) \in Nat
    BY HeldIs, LenProperties DEF FindsAt, MarkerAt
<1>2. c \in 0 .. Len(Held) /\ c + 1 = i + FrameTrailer
    BY <1>1, Sizes
<1> HIDE DEF c
<1>3. IsEnd(From(Held, c + 1), Held, c)
    BY <1>2, HeldIs, IsFrom
<1>. QED  BY <1>2, <1>3 DEF c, FindsAt

LEMMA HostFlight ==
    ASSUME WireInv, Keeps \/ Delivers \/ Drops \/ Rejects \/ Finds \/ Resets,
           frame' = frame, pos' = pos
    PROVE  Flight(Held', fifo', part', frame', pos')
<1>1. /\ frame \in Int /\ pos \in Int /\ fifo \in Seq(Seq(Byte))
      /\ Flight(Held, fifo, part, frame, pos)
    BY WireTypes
<1>2. CASE Keeps
    BY <1>1, <1>2 DEF Keeps
<1>3. CASE Delivers
    <2>1. Shorter(fifo', fifo) /\ Joined(Held', Held, fifo[1]) /\ part' = part
        BY <1>1, <1>3, Leaves DEF Delivers
    <2>. QED  BY <1>1, <2>1, FlightMoves
<1>4. CASE Drops
    <2>1. Flight(<<>>, fifo, part, frame, pos)
        BY <1>1, FlightEmpty
    <2>2. CASE fifo' = fifo
        BY <1>4, <2>1, <2>2 DEF Drops
    <2>3. CASE fifo # <<>> /\ fifo' = Tail(fifo)
        <3>1. Shorter(fifo', fifo) /\ fifo[1] \in Seq(Byte)
            BY <1>1, <2>3, Leaves DEF Shorter
        <3>2. <<>> \in Seq(Byte)
            BY EmptySeq
        <3> DEFINE u == <<>> \o fifo[1]
        <3>3. Joined(u, <<>>, fifo[1])
            BY <3>1, <3>2, Join
        <3> HIDE DEF u
        <3>4. Flight(u, fifo', part, frame, pos)
            BY <1>1, <2>1, <3>1, <3>3, FlightMoves
        <3>5. Flight(<<>>, fifo', part, frame, pos)
            BY <1>1, <3>4, FlightEmpty
        <3>. QED  BY <1>4, <3>5 DEF Drops
    <2>. QED  BY <1>4, <2>2, <2>3 DEF Drops
<1>5. CASE Rejects
    <2>1. IsEnd(Held', Held, FrameBytes) /\ FrameBytes \in 0 .. Len(Held)
        BY <1>5, HeldIs, IsFrom DEF Rejects
    <2>. QED  BY <1>1, <1>5, <2>1, FlightCut DEF Rejects
<1>6. CASE Finds
    <2>1. PICK i \in 1 .. Len(Held) : FindsAt(i)
        BY <1>6 DEF Finds
    <2>. QED  BY <1>1, <1>6, <2>1, FoundEnd, FlightCut DEF Finds
<1>7. CASE Resets
    <2>1. Held' = <<>> /\ fifo' = <<>> /\ part' = <<>>
        BY <1>7 DEF Resets, BeginScan
    <2>2. Flight(<<>>, <<>>, <<>>, frame, pos)
        <3>1. <<>> \in Seq(Byte) /\ <<>> \in Seq(Seq(Byte)) /\ Len(<<>>) = 0
            BY EmptySeq
        <3>. QED  BY <3>1 DEF Flight, Units, Ordered, InOrder, AllBefore, ReadOut
    <2>. QED  BY <2>1, <2>2
<1>. QED  BY <1>2, <1>3, <1>4, <1>5, <1>6, <1>7

LEMMA HostSteps ==
    ASSUME WireInv, Transfer \/ Host
    PROVE  /\ Keeps \/ Delivers \/ Drops \/ Rejects \/ Finds \/ Resets
           /\ StartDone \/ StartFails \/ Keeps \/ Delivers \/ Drops \/ Rejects \/ Finds
           /\ frame' = frame /\ pos' = pos
<1>1. CASE Transfer
    BY <1>1, TransferSteps DEF Keeps, Delivers, Drops
<1>2. CASE HostCalls
    BY <1>2, CallerKeeps DEF Keeps
<1>3. CASE HostStops
    BY <1>3, StopDrops DEF Drops
<1>4. CASE StartDone \/ StartFails
    BY <1>4, StartSteps DEF Resets, BeginScan, Drops
<1>5. CASE HostReads
    <2>1. ReadNextImage \/ ReadValid \/ ReadRejected \/ ReadRejectedAgain
        BY <1>5 DEF HostReads
    <2>. QED  BY <1>5, <2>1, ReadsStep DEF Drops, Rejects, Finds
<1>6. CASE HostFinds
    BY <1>6, FindsStep DEF Finds
<1>. QED  BY <1>1, <1>2, <1>3, <1>4, <1>5, <1>6 DEF Host

LEMMA FlightStep ==
    ASSUME WireInv, CaptureNext
    PROVE  Flight(Held', fifo', part', frame', pos')
<1>1. CASE SensorPixel
    BY <1>1, PixelFlight
<1>2. CASE FrameEnd
    BY <1>2, FrameEndFlight
<1>3. CASE MainLoopGates \/ MainLoopResumes
    BY <1>3, DeviceKeeps, WireTypes DEF Device, MainLoopGates, MainLoopResumes
<1>4. CASE Transfer \/ Host
    BY <1>4, HostSteps, HostFlight
<1>. QED  BY <1>1, <1>2, <1>3, <1>4 DEF CaptureNext, Device

LEMMA PlanStep ==
    ASSUME Inv, Plan, Next
    PROVE  Plan'
<1>1. CASE Caller
    BY <1>1 DEF Caller, CallStart, CallSnap, CallSettle, CallFrame, CallFrameShort, CallStop,
                Call, EnterScan, EnterRead, Inv, CallShape, Plan
<1>2. CASE Arm
    BY <1>2 DEF Arm, ArmOk, ArmFails, Return, EnterScan, Inv, TypeOK, CallShape, Plan
<1>3. CASE Read
    BY <1>3 DEF Read, ReadData, Reading, ReadFails, ReadTimeout, Panic, Return, ReadNextImage,
                EnterRead, ReadValid, ReadRejected, EnterScan, ReadRejectedAgain, Plan
<1>4. CASE Scan
    BY <1>4 DEF Scan, ScanFound, EnterRead, ScanData, Scanning, ScanLate, ScanEmpty, NoBoundary,
                ScanFails, ScanTimeout, Panic, Return, Plan
<1>. QED  BY <1>1, <1>2, <1>3, <1>4 DEF Next, Progress

\* Who touches the transfer in progress, and when.
LEMMA UrbStep ==
    ASSUME WireInv, CaptureNext
    PROVE  /\ urb' \in Seq(Byte) /\ Len(urb') < WireFrame + SettleChunk
           /\ UrbFits'
<1>1. Len(<<>>) < WireFrame + SettleChunk /\ <<>> \in Seq(Byte)
    BY Sizes, EmptySeq, ReaderAssumption DEF ReaderAssumption
<1>2. CASE urb' = <<>>
    BY <1>1, <1>2 DEF UrbFits
<1>3. CASE TransferGrows
    <2>1. urb' = Arrived /\ Len(Arrived) <= Asked /\ Waiting /\ UNCHANGED vars
        BY <1>3 DEF TransferGrows, Fits
    <2>2. Arrived \in Seq(Byte) /\ Len(Arrived) \in Nat
        BY <1>3, Arrivals DEF TransferGrows
    <2>3. Len(Arrived) < WireFrame + SettleChunk
        BY <2>1, <2>2, AskedIs, Sizes, ReaderAssumption DEF ReaderAssumption
    <2>4. Waiting' /\ Asked' = Asked
        BY <2>1 DEF vars, Waiting, Reading, Scanning, Got, Asked
    <2>. QED  BY <2>1, <2>2, <2>3, <2>4 DEF UrbFits
<1>4. CASE Device
    <2>1. urb' = urb /\ UNCHANGED vars
        BY <1>4, DeviceKeeps
    <2>2. Waiting' = Waiting /\ Asked' = Asked
        BY <2>1 DEF vars, Waiting, Reading, Scanning, Got, Asked
    <2>. QED  BY <2>1, <2>2 DEF WireInv, CaptureTypeOK, UrbFits
<1>5. CASE Transfer
    BY <1>2, <1>3, <1>5 DEF Transfer, TransferEnds, TransferOverflows, TransferTimesOut,
                            TransferFails
<1>6. CASE Host
    <2>1. urb' = urb
        BY <1>6 DEF Host, HostCalls, HostStops, StartDone, StartFails, HostReads, HostFinds
    <2>2. \/ step \in {"none", "arm"}
          \/ step = "read" /\ Got = WireFrame
          \/ step = "scan" /\ HasMarker(scan)
        BY <1>6 DEF Host, HostCalls, CallStart, CallSnap, CallSettle, CallFrame, Call,
                    HostStops, CallStop, StartDone, ArmOk, StartFails, ArmFails, HostReads,
                    ReadNextImage, ReadValid, ReadRejected, ReadRejectedAgain, HostFinds,
                    ScanFound, FirstMarker, HasMarker, WireInv, MappedInv, Inv, CallShape
    <2>3. urb' = <<>>
        BY <2>1, <2>2, IdleUrb
    <2>. QED  BY <1>2, <2>3
<1>. QED  BY <1>4, <1>5, <1>6 DEF CaptureNext

\* The FIFO's room, and the packet that is filled only while there is some.
LEMMA FifoStep ==
    ASSUME WireInv, CaptureNext
    PROVE  /\ fifo' \in Seq(Seq(Byte)) /\ part' \in Seq(Byte)
           /\ Len(fifo') <= FifoDepth /\ Len(part') < Packet
           /\ FifoFull' => part' = <<>>
<1>1. fifo' \in Seq(Seq(Byte)) /\ part' \in Seq(Byte)
    BY FlightStep DEF Flight, Units
<1>2. /\ Len(fifo) \in Nat /\ Len(part) \in Nat /\ FifoDepth \in Nat /\ FifoDepth >= 1
      /\ Len(fifo) <= FifoDepth /\ Len(part) < Packet /\ (FifoFull => part = <<>>)
      /\ Len(<<>>) = 0
    BY WireTypes, LenProperties, Sizes, EmptySeq DEF WireInv, CaptureTypeOK
<1>3. CASE UNCHANGED <<fifo, part>>
    BY <1>1, <1>2, <1>3 DEF FifoFull
<1>4. CASE fifo # <<>> /\ fifo' = Tail(fifo) /\ part' = part
    <2>1. Len(fifo') = Len(fifo) - 1
        BY <1>4, Arrivals
    <2>2. Len(fifo') <= FifoDepth /\ ~FifoFull'
        BY <1>2, <2>1 DEF FifoFull
    <2>. QED  BY <1>1, <1>2, <1>4, <2>2
<1>5. CASE fifo' = <<>> /\ part' = <<>>
    <2>1. Len(fifo') = 0 /\ Len(part') = 0
        BY <1>2, <1>5
    <2>. QED  BY <1>1, <1>2, <1>5, <2>1, Sizes DEF FifoFull
<1>6. CASE SensorPixel
    <2>1. CASE PixelStored /\ ~FifoFull
        <3> DEFINE u == Append(part, PixelByte)
        <3>1. Longer(Append(fifo, u), fifo, u) /\ Added(u, part, PixelByte)
            BY <1>6, PixelIs DEF SensorPixel
        <3> HIDE DEF u
        <3>2. Len(Append(fifo, u)) = Len(fifo) + 1 /\ Len(u) = Len(part) + 1
            BY <3>1 DEF Longer, Added
        <3>3. CASE Len(part) + 1 = Packet
            <4>1. fifo' = Append(fifo, u) /\ part' = <<>>
                BY <2>1, <3>3 DEF PixelStored, u
            <4>2. Len(fifo') <= FifoDepth /\ Len(part') < Packet
                BY <1>2, <2>1, <3>2, <4>1, Sizes DEF FifoFull
            <4>. QED  BY <1>1, <4>1, <4>2
        <3>4. CASE Len(part) + 1 # Packet
            <4>1. fifo' = fifo /\ part' = u
                BY <2>1, <3>4 DEF PixelStored, u
            <4>2. Len(part') < Packet
                BY <1>2, <3>2, <3>4, <4>1, Sizes
            <4>3. ~FifoFull'
                BY <2>1, <4>1 DEF FifoFull
            <4>. QED  BY <1>1, <1>2, <4>1, <4>2, <4>3
        <3>. QED  BY <3>3, <3>4
    <2>. QED  BY <1>3, <1>6, <2>1 DEF SensorPixel, PixelLost
<1>7. CASE FrameEnd
    <2>1. part' = <<>> /\ Len(part') = 0 /\ Len(part') < Packet
        BY <1>2, <1>7, Sizes DEF FrameEnd
    <2>2. CASE FifoFull
        BY <1>1, <1>2, <1>7, <2>1, <2>2 DEF FrameEnd
    <2>3. CASE ~FifoFull
        <3>1. Len(fifo') = Len(fifo) + 1
            BY <1>7, <2>3, FrameEndFlight DEF Longer
        <3>. QED  BY <1>1, <1>2, <2>1, <2>3, <3>1 DEF FifoFull
    <2>. QED  BY <2>2, <2>3
<1>8. CASE MainLoopGates \/ MainLoopResumes
    BY <1>3, <1>8 DEF MainLoopGates, MainLoopResumes
<1>9. CASE Transfer \/ Host
    BY <1>3, <1>4, <1>5, <1>9, HostSteps DEF Keeps, Delivers, Drops, Rejects, Finds, Resets,
                                             BeginScan
<1>. QED  BY <1>6, <1>7, <1>8, <1>9 DEF CaptureNext, Device

LEMMA WireStep ==
    ASSUME WireInv, [CaptureNext]_captureVars
    PROVE  WireInv'
<1>1. CASE UNCHANGED captureVars
    <2>1. MappedInv'
        BY <1>1, IsReaderStep, MappedStep DEF WireInv
    <2>2. Plan' /\ CaptureTypeOK' /\ UrbFits' /\ armedAt' <= frame'
        BY <1>1 DEF WireInv, Plan, CaptureTypeOK, UrbFits, Waiting, Reading, Scanning, Got,
                    Asked, FifoFull, captureVars, vars, device, history
    <2>3. Held' = Held /\ UNCHANGED <<fifo, part, frame, pos>>
        BY <1>1 DEF Held, Fore, captureVars, vars, device
    <2>. QED  BY <2>1, <2>2, <2>3, WireTypes DEF WireInv
<1>2. CASE CaptureNext
    <2>1. MappedInv' /\ Plan'
        <3>1. [Next]_vars
            BY <1>2, IsReaderStep
        <3>2. CASE UNCHANGED vars
            <4>1. Plan
                BY DEF WireInv
            <4>2. MappedInv'
                BY <3>1, MappedStep DEF WireInv
            <4>. QED  BY <3>2, <4>1, <4>2 DEF vars, Plan
        <3>. QED  BY <3>1, <3>2, MappedStep, PlanStep DEF WireInv, MappedInv
    <2>2. frame' \in 1 .. MaxFrames + 1 /\ pos' \in 0 .. FrameBytes
        <3>1. CASE SensorPixel
            <4>1. frame' = frame /\ pos' = pos + 1 /\ pos < FrameBytes
                BY <3>1 DEF SensorPixel, PixelStored, PixelLost
            <4>. QED  BY <4>1, WireTypes, Sizes
        <3>2. CASE FrameEnd
            BY <3>2, WireTypes, Sizes DEF FrameEnd
        <3>3. CASE MainLoopGates \/ MainLoopResumes
            BY <3>3, WireTypes DEF MainLoopGates, MainLoopResumes
        <3>4. CASE Transfer \/ Host
            BY <3>4, WireTypes, HostSteps
        <3>. QED  BY <1>2, <3>1, <3>2, <3>3, <3>4 DEF CaptureNext, Device
    <2>3. startedAt' \in 1 .. armedAt' /\ armedAt' \in 1 .. MaxFrames + 1 /\ armedAt' <= frame'
        <3>1. /\ startedAt \in 1 .. armedAt /\ armedAt \in 1 .. MaxFrames + 1
              /\ armedAt <= frame /\ frame \in 1 .. MaxFrames + 1 /\ MaxFrames \in Nat
            BY WireTypes, Sizes DEF WireInv, CaptureTypeOK
        <3>2. CASE Device
            <4>1. startedAt' = startedAt /\ armedAt' = armedAt
                BY <3>2, DeviceKeeps
            <4>2. frame' \in {frame, frame + 1}
                BY <3>2 DEF Device, SensorPixel, FrameEnd, MainLoopGates, MainLoopResumes
            <4>. QED  BY <3>1, <4>1, <4>2
        <3>3. CASE StartDone
            BY <3>1, <3>3 DEF StartDone, BeginScan
        <3>4. CASE (Transfer \/ Host) /\ ~StartDone
            <4>1. frame' = frame
                BY <3>4, HostSteps
            <4>2. startedAt' = startedAt /\ armedAt' = armedAt
                BY <3>4 DEF Transfer, TransferGrows, TransferEnds, TransferOverflows,
                            TransferTimesOut, TransferFails, Host, HostCalls, HostStops,
                            StartFails, HostReads, HostFinds, Gone, history
            <4>. QED  BY <3>1, <4>1, <4>2
        <3>. QED  BY <1>2, <3>2, <3>3, <3>4 DEF CaptureNext
    <2>4. /\ {running', gated', pending', intact', synced', markerLost'} \subseteq BOOLEAN
          /\ gated' => running'
        <3>1. /\ running \in BOOLEAN /\ gated \in BOOLEAN /\ pending \in BOOLEAN
              /\ intact \in BOOLEAN /\ synced \in BOOLEAN /\ markerLost \in BOOLEAN
              /\ AddedExposure \in BOOLEAN /\ (gated => running)
            BY CaptureAssumption DEF WireInv, CaptureTypeOK, CaptureAssumption
        <3>2. CASE Device
            <4>1. running' = running /\ synced' = synced
                BY <3>2 DEF Device, SensorPixel, PixelLost, PixelStored, FrameEnd,
                            MainLoopGates, MainLoopResumes, history
            <4>2. gated' = gated \/ gated' = FALSE \/ gated' = (AddedExposure /\ running)
                BY <3>2 DEF Device, SensorPixel, FrameEnd, MainLoopGates, MainLoopResumes
            <4>3. pending' = pending \/ pending' = TRUE \/ pending' = FALSE
                BY <3>2 DEF Device, SensorPixel, FrameEnd, MainLoopGates, MainLoopResumes
            <4>4. /\ \/ intact' = intact
                     \/ intact' = (intact /\ ~Counts(TRUE))
                     \/ intact' = (intact /\ ~Counts(FifoFull \/ part # <<>>))
                  /\ markerLost' = markerLost \/ markerLost' = (markerLost \/ FifoFull)
                BY <3>2 DEF Device, SensorPixel, PixelLost, PixelStored, FrameEnd,
                            MainLoopGates, MainLoopResumes, history
            <4>5. gated' \in BOOLEAN /\ (gated' => running')
                <5>1. running \in BOOLEAN /\ gated \in BOOLEAN /\ AddedExposure \in BOOLEAN
                      /\ running' = running /\ (gated => running)
                    BY <3>1, <4>1
                <5>2. CASE gated' = gated
                    BY <5>1, <5>2
                <5>3. CASE gated' = FALSE
                    BY <5>1, <5>3
                <5>4. CASE gated' = (AddedExposure /\ running)
                    BY <5>1, <5>4
                <5>. QED  BY <4>2, <5>2, <5>3, <5>4
            <4>6. pending' \in BOOLEAN /\ intact' \in BOOLEAN /\ markerLost' \in BOOLEAN
                BY <3>1, <4>3, <4>4
            <4>. QED  BY <3>1, <4>1, <4>5, <4>6
        <3>3. CASE Transfer
            <4>1. /\ UNCHANGED <<running, gated, pending, synced, markerLost>>
                  /\ intact' = intact \/ intact' = FALSE
                BY <3>3 DEF Transfer, TransferGrows, TransferEnds, TransferOverflows,
                            TransferTimesOut, TransferFails, Gone, device, history
            <4>2. intact' \in BOOLEAN
                BY <3>1, <4>1
            <4>. QED  BY <3>1, <4>1, <4>2
        <3>4. CASE Host
            <4>1. CASE HostCalls \/ HostStops \/ HostFinds
                <5>1. /\ UNCHANGED <<running, gated, pending, markerLost>>
                      /\ intact' = intact \/ intact' = FALSE
                      /\ synced' = synced \/ synced' = TRUE
                    BY <4>1 DEF HostCalls, HostStops, HostFinds, Gone, device, history
                <5>2. intact' \in BOOLEAN /\ synced' \in BOOLEAN
                    BY <3>1, <5>1
                <5>. QED  BY <3>1, <5>1, <5>2
            <4>2. CASE StartDone \/ StartFails
                <5>1. /\ UNCHANGED <<gated, pending>>
                      /\ running' = running \/ running' = TRUE
                      /\ intact' = FALSE \/ intact' = TRUE
                      /\ synced' = synced \/ synced' = FALSE
                      /\ markerLost' = markerLost \/ markerLost' = FALSE
                    BY <4>2 DEF StartDone, StartFails, BeginScan, device
                <5>2. /\ running' \in BOOLEAN /\ intact' \in BOOLEAN
                      /\ synced' \in BOOLEAN /\ markerLost' \in BOOLEAN
                    BY <3>1, <5>1
                <5>3. gated' => running'
                    <6>1. gated' = gated /\ (gated => running)
                        BY <3>1, <5>1
                    <6>2. running' = running \/ running' = TRUE
                        BY <5>1
                    <6>. QED  BY <6>1, <6>2
                <5>. QED  BY <3>1, <5>1, <5>2, <5>3
            <4>3. CASE HostReads
                <5>1. UNCHANGED <<running, gated, pending, synced, markerLost>>
                      /\ (intact' = intact \/ intact' = (intact /\ call # "Snap") \/ intact' = FALSE)
                    BY <4>3 DEF HostReads, Gone, device, history
                <5>. QED  BY <3>1, <5>1
            <4>. QED  BY <3>4, <4>1, <4>2, <4>3 DEF Host
        <3>. QED  BY <1>2, <3>2, <3>3, <3>4 DEF CaptureNext
    <2>5. CaptureTypeOK'
        <3>1. /\ fifo' \in Seq(Seq(Byte)) /\ part' \in Seq(Byte)
              /\ Len(fifo') <= FifoDepth /\ Len(part') < Packet
              /\ FifoFull' => part' = <<>>
              /\ urb' \in Seq(Byte) /\ Len(urb') < WireFrame + SettleChunk
            BY <1>2, FifoStep, UrbStep
        <3>. QED  BY <2>2, <2>3, <2>4, <3>1 DEF CaptureTypeOK
    <2>. QED  BY <1>2, <2>1, <2>3, <2>5, UrbStep, FlightStep DEF WireInv
<1>. QED  BY <1>1, <1>2

LEMMA WireInit == CaptureInit => WireInv
<1>. SUFFICES ASSUME CaptureInit
              PROVE  WireInv
    OBVIOUS
<1>1. MappedInv
    BY MappedInit DEF CaptureInit
<1>2. <<>> \in Seq(Byte) /\ <<>> \in Seq(Seq(Byte)) /\ Len(<<>>) = 0
    BY EmptySeq
<1>3. CaptureTypeOK /\ armedAt <= frame /\ UrbFits
    <2>1. /\ fifo = <<>> /\ part = <<>> /\ urb = <<>> /\ frame = 1 /\ pos = 0
          /\ startedAt = 1 /\ armedAt = 1
          /\ running = FALSE /\ gated = FALSE /\ pending = FALSE
          /\ intact = FALSE /\ synced = FALSE /\ markerLost = FALSE
        BY DEF CaptureInit
    <2>2. SettleChunk \in Nat
        BY ReaderAssumption DEF ReaderAssumption
    <2>3. 1 \in 1 .. MaxFrames + 1 /\ 0 \in 0 .. FrameBytes /\ 1 \in 1 .. 1
          /\ 0 <= FifoDepth /\ 0 < Packet /\ 0 < WireFrame + SettleChunk
        BY <2>2, Sizes
    <2>4. {running, gated, pending, intact, synced, markerLost} \subseteq BOOLEAN
        BY <2>1
    <2>5. /\ fifo \in Seq(Seq(Byte)) /\ part \in Seq(Byte) /\ urb \in Seq(Byte)
          /\ Len(fifo) = 0 /\ Len(part) = 0 /\ Len(urb) = 0
        BY <1>2, <2>1
    <2>. QED  BY <2>1, <2>3, <2>4, <2>5 DEF CaptureTypeOK, UrbFits
<1>4. Plan
    BY DEF CaptureInit, Init, Plan
<1>5. Held = <<>> /\ frame \in Int /\ pos \in Int
    BY <1>2, ConcatEmptySeq DEF CaptureInit, Init, Held, Fore
<1>6. Flight(Held, fifo, part, frame, pos)
    <2>1. Held = <<>> /\ fifo = <<>> /\ part = <<>>
        BY <1>5 DEF CaptureInit
    <2>. QED  BY <1>2, <2>1 DEF Flight, Units, Ordered, InOrder, AllBefore, ReadOut
<1>. QED  BY <1>1, <1>3, <1>4, <1>6 DEF WireInv

-----------------------------------------------------------------------------
(* The ages of bytes, and trailers found.                                    *)

LEMMA Looks ==
    ASSUME NoLookAlike, NEW h \in Seq(Byte), InOrder(h), NEW i \in 1 .. Len(h), MarkerAt(h, i)
    PROVE  h[i][2] = FrameBytes + 1
<1> DEFINE m == [k \in 1 .. Len(Magic) |-> h[i + k - 1]]
<1>1. Len(Magic) \in 1 .. FrameTrailer /\ Len(h) \in Nat /\ FrameTrailer \in Nat
    BY ReaderAssumption, LenProperties DEF ReaderAssumption
<1>2. i + FrameTrailer - 1 <= Len(h) /\ \A k \in 1 .. Len(Magic) : Value[h[i + k - 1]] = Magic[k]
    BY DEF MarkerAt
<1>3. \A k \in 1 .. Len(Magic) : i + k - 1 \in 1 .. Len(h)
    BY <1>1, <1>2
<1>4. \A k \in 1 .. Len(Magic) : h[i + k - 1] \in Byte
    BY <1>3, ElementOfSeq
<1>5. m \in [1 .. Len(Magic) -> Byte] /\ (\A k \in 1 .. Len(Magic) : m[k] = h[i + k - 1])
    BY <1>4
<1>6. Len(m) = Len(Magic)
    BY <1>1 DEF m
<1>7. 1 \in 1 .. Len(Magic) /\ m[1] = h[i]
    <2>1. 1 \in 1 .. Len(Magic) /\ i + 1 - 1 = i
        BY <1>1
    <2>. QED  BY <1>5, <2>1
<1> HIDE DEF m
<1>8. InOrder(m)
    <2>1. ASSUME NEW j \in 1 .. Len(m), NEW k \in 1 .. Len(m), j < k
          PROVE  Before(m[j], m[k])
        <3>1. /\ i + j - 1 \in 1 .. Len(h) /\ i + k - 1 \in 1 .. Len(h) /\ i + j - 1 < i + k - 1
              /\ m[j] = h[i + j - 1] /\ m[k] = h[i + k - 1]
            BY <1>1, <1>3, <1>5, <1>6, <2>1
        <3>. QED  BY <3>1, OrderIs
    <2>. QED  BY <2>1, OrderIs
<1>9. \A k \in 1 .. Len(Magic) : Value[m[k]] = Magic[k]
    BY <1>2, <1>5
<1>. QED  BY <1>5, <1>7, <1>8, <1>9 DEF NoLookAlike

\* What the host takes for a trailer is one.
LEMMA FoundTrailer ==
    ASSUME NoLookAlike, WireInv, NEW i \in 1 .. Len(Held), MarkerAt(Held, i)
    PROVE  /\ Held[i][2] = FrameBytes + 1
           /\ Held[i][1] \in 1 .. MaxFrames /\ Held[i][1] \in Int
           /\ i + FrameTrailer - 1 \in 1 .. Len(Held)
           /\ Held[i + FrameTrailer - 1] = <<Held[i][1], WireFrame>>
<1>1. Held \in Seq(Byte) /\ InOrder(Held) /\ Len(Held) \in Nat
    BY HeldIs, LenProperties DEF WireInv, Flight, Ordered
<1>2. Held[i][2] = FrameBytes + 1
    BY <1>1, Looks
<1>3. i + FrameTrailer - 1 <= Len(Held) /\ Held[i + FrameTrailer - 1] = <<Held[i][1], WireFrame>>
    BY <1>2 DEF WireInv, Flight, Units
<1>4. i + FrameTrailer - 1 \in 1 .. Len(Held)
    BY <1>1, <1>3, TrailerEnd
<1>5. Held[i] \in Byte
    BY <1>1, ElementOfSeq
<1>. QED  BY <1>2, <1>3, <1>4, <1>5, Bytes, NumIs

LEMMA OlderWeaker ==
    ASSUME WireInv, NEW n \in Int, NEW m \in Int, m <= n
    PROVE  /\ NoneOlder(Held, fifo, frame, n) => NoneOlder(Held, fifo, frame, m)
           /\ NoneOlder(Held', fifo', frame', n) /\ WireInv'
                 => NoneOlder(Held', fifo', frame', m)
<1>1. ASSUME NEW h, NEW q, NEW p, NEW fr \in Int, NEW po \in Int, Flight(h, q, p, fr, po),
             NoneOlder(h, q, fr, n)
      PROVE  NoneOlder(h, q, fr, m)
    <2>1. ASSUME NEW i \in 1 .. Len(h) PROVE h[i][1] >= m
        <3>1. h[i] \in Byte
            BY <1>1, ElementOfSeq DEF Flight, Units
        <3>2. h[i][1] \in Int /\ h[i][1] >= n
            BY <1>1, <3>1, NumIs DEF NoneOlder
        <3>. QED  BY <3>2
    <2>2. ASSUME NEW j \in 1 .. Len(q), NEW k \in 1 .. Len(q[j]) PROVE q[j][k][1] >= m
        <3>1. q[j][k] \in Byte
            BY <1>1, FirstByte, ElementOfSeq
        <3>2. q[j][k][1] \in Int /\ q[j][k][1] >= n
            BY <1>1, <3>1, NumIs DEF NoneOlder
        <3>. QED  BY <3>2
    <2>3. fr >= m
        BY <1>1 DEF NoneOlder
    <2>. QED  BY <2>1, <2>2, <2>3 DEF NoneOlder
<1>2. WireInv' => /\ frame' \in Int /\ pos' \in Int
                  /\ Flight(Held', fifo', part', frame', pos')
    BY Sizes DEF WireInv, CaptureTypeOK
<1>. QED  BY <1>1, <1>2, WireTypes

\* No step of the host makes what is on its way older; neither does the device.
LEMMA OlderHost ==
    ASSUME WireInv, Keeps \/ Delivers \/ Drops \/ Rejects \/ Finds \/ Resets, frame' = frame,
           NEW n \in Int, NoneOlder(Held, fifo, frame, n)
    PROVE  NoneOlder(Held', fifo', frame', n)
<1>1. /\ frame >= n /\ \A i \in 1 .. Len(Held) : Held[i][1] >= n
      /\ \A m \in 1 .. Len(fifo) : \A k \in 1 .. Len(fifo[m]) : fifo[m][k][1] >= n
    BY DEF NoneOlder
<1>2. Len(<<>>) = 0
    BY EmptySeq
<1>3. ASSUME fifo # <<>>, fifo' = Tail(fifo)
      PROVE  \A m \in 1 .. Len(fifo') : \A k \in 1 .. Len(fifo'[m]) : fifo'[m][k][1] >= n
    <2>1. Shorter(fifo', fifo)
        BY <1>3, WireTypes, Leaves
    <2>2. \A m \in 1 .. Len(fifo') : m + 1 \in 1 .. Len(fifo) /\ fifo'[m] = fifo[m + 1]
        BY <2>1 DEF Shorter
    <2>. QED  BY <1>1, <2>2
<1>4. ASSUME NEW c \in 0 .. Len(Held), IsEnd(Held', Held, c)
      PROVE  \A i \in 1 .. Len(Held') : Held'[i][1] >= n
    <2>1. Len(Held) \in Nat
        BY HeldIs, LenProperties
    <2>2. \A i \in 1 .. Len(Held') : c + i \in 1 .. Len(Held) /\ Held'[i] = Held[c + i]
        BY <1>4, <2>1 DEF IsEnd
    <2>. QED  BY <1>1, <2>2
<1>5. CASE Keeps
    BY <1>5 DEF Keeps
<1>6. CASE Delivers
    <2>1. Joined(Held', Held, fifo[1]) /\ 1 \in 1 .. Len(fifo) /\ fifo[1] \in Seq(Byte)
        BY <1>6, WireTypes, Leaves DEF Delivers, Shorter
    <2>2. ASSUME NEW i \in 1 .. Len(Held')
          PROVE  Held'[i][1] >= n
        <3> DEFINE u == Held'
                   s == Held
                   t == fifo[1]
        <3>1. s \in Seq(Byte) /\ t \in Seq(Byte) /\ Joined(u, s, t) /\ i \in 1 .. Len(u)
            BY <2>1, HeldIs
        <3> HIDE DEF u, s, t
        <3>2. \/ i \in 1 .. Len(s) /\ u[i] = s[i]
              \/ \E j \in 1 .. Len(t) : i = Len(s) + j /\ u[i] = t[j]
            BY <3>1, JoinedByte
        <3>. QED  BY <1>1, <2>1, <3>2 DEF u, s, t
    <2>. QED  BY <1>1, <1>3, <1>6, <2>2 DEF NoneOlder, Delivers
<1>7. CASE Drops
    BY <1>1, <1>2, <1>3, <1>7 DEF Drops, NoneOlder
<1>8. CASE Rejects
    <2>1. IsEnd(Held', Held, FrameBytes) /\ FrameBytes \in 0 .. Len(Held)
        BY <1>8, HeldIs, IsFrom DEF Rejects
    <2>. QED  BY <1>1, <1>4, <1>8, <2>1 DEF Rejects, NoneOlder
<1>9. CASE Finds
    <2>1. PICK i \in 1 .. Len(Held) : FindsAt(i)
        BY <1>9 DEF Finds
    <2>2. \A j \in 1 .. Len(Held') : Held'[j][1] >= n
        BY <1>4, <2>1, FoundEnd
    <2>. QED  BY <1>1, <1>9, <2>2 DEF Finds, NoneOlder
<1>10. CASE Resets
    BY <1>1, <1>2, <1>10 DEF Resets, BeginScan, NoneOlder
<1>. QED  BY <1>5, <1>6, <1>7, <1>8, <1>9, <1>10

LEMMA OlderDevice ==
    ASSUME WireInv, Device, NEW n \in Int, NoneOlder(Held, fifo, frame, n)
    PROVE  NoneOlder(Held', fifo', frame', n)
<1>1. /\ frame >= n /\ \A i \in 1 .. Len(Held) : Held[i][1] >= n
      /\ \A m \in 1 .. Len(fifo) : \A k \in 1 .. Len(fifo[m]) : fifo[m][k][1] >= n
      /\ Held' = Held /\ frame \in Int
    BY DeviceKeeps, WireTypes DEF NoneOlder
<1>2. frame' >= n
    <2>1. frame' \in {frame, frame + 1}
        BY DEF Device, SensorPixel, FrameEnd, MainLoopGates, MainLoopResumes
    <2>. QED  BY <1>1, <2>1
<1>3. CASE fifo' = fifo
    BY <1>1, <1>2, <1>3 DEF NoneOlder
<1>4. ASSUME NEW t, Longer(fifo', fifo, t), \A k \in 1 .. Len(t) : t[k][1] = frame
      PROVE  NoneOlder(Held', fifo', frame', n)
    <2>1. ASSUME NEW m \in 1 .. Len(fifo'), NEW k \in 1 .. Len(fifo'[m])
          PROVE  fifo'[m][k][1] >= n
        <3>1. /\ Len(fifo) \in Nat /\ Len(fifo') = Len(fifo) + 1 /\ fifo'[Len(fifo) + 1] = t
              /\ \A j \in 1 .. Len(fifo) : fifo'[j] = fifo[j]
            BY <1>4 DEF Longer
        <3>2. CASE m = Len(fifo) + 1
            BY <1>1, <1>4, <2>1, <3>1, <3>2
        <3>3. CASE m # Len(fifo) + 1
            <4>1. m \in 1 .. Len(fifo) /\ fifo'[m] = fifo[m]
                BY <3>1, <3>3
            <4>. QED  BY <1>1, <2>1, <4>1
        <3>. QED  BY <3>2, <3>3
    <2>. QED  BY <1>1, <1>2, <2>1 DEF NoneOlder
<1>5. CASE SensorPixel
    <2> DEFINE u == Append(part, PixelByte)
    <2>1. /\ Longer(Append(fifo, u), fifo, u)
          /\ \A k \in 1 .. Len(u) : u[k][1] = frame
        BY <1>5, PixelIs DEF SensorPixel, Flight, Units
    <2>2. fifo' = fifo \/ fifo' = Append(fifo, u)
        BY <1>5 DEF SensorPixel, PixelStored, PixelLost
    <2> HIDE DEF u
    <2>. QED  BY <1>3, <1>4, <2>1, <2>2
<1>6. CASE FrameEnd
    <2>1. \A k \in 1 .. Len(Trailer) : Trailer[k][1] = frame
        BY <1>6, TrailerIs, WireTypes, Sizes DEF FrameEnd
    <2>2. fifo' = fifo \/ Longer(fifo', fifo, Trailer)
        BY <1>6, FrameEndFlight DEF FrameEnd
    <2>. QED  BY <1>3, <1>4, <2>1, <2>2
<1>. QED  BY <1>3, <1>5, <1>6 DEF Device, MainLoopGates, MainLoopResumes

\* Behind a trailer that was found everything is younger.
LEMMA OlderFinds ==
    ASSUME NoLookAlike, WireInv, Finds, NEW n \in Int, NoneOlder(Held, fifo, frame, n),
           WireInv'
    PROVE  NoneOlder(Held', fifo', frame', n + 1)
<1>1. PICK i \in 1 .. Len(Held) : FindsAt(i)
    BY DEF Finds
<1> DEFINE f == Held[i][1]
           c == i + FrameTrailer - 1
<1>2. c \in 1 .. Len(Held) /\ Held[c] = <<f, WireFrame>> /\ f \in Int /\ f >= n
      /\ IsEnd(Held', Held, c)
    BY <1>1, FoundTrailer, FoundEnd DEF FindsAt, NoneOlder
<1> HIDE DEF f, c
<1>3. NoneOlder(Held', fifo, frame, f + 1)
    BY <1>2, WireTypes, NoneOlderBehind
<1>4. NoneOlder(Held', fifo', frame', f + 1)
    BY <1>3 DEF Finds
<1>5. f + 1 \in Int /\ n + 1 \in Int /\ n + 1 <= f + 1
    BY <1>2
<1>. QED  BY <1>4, <1>5, OlderWeaker

LEMMA Ages ==
    ASSUME WireInv
    PROVE  /\ armedAt \in Int /\ startedAt \in Int /\ startedAt <= armedAt
           /\ startedAt + 1 \in Int /\ (startedAt + 1) + 1 = startedAt + 2
           /\ startedAt + 1 <= armedAt + 1 /\ armedAt + 1 \in Int /\ startedAt + 2 \in Int
BY DEF WireInv, CaptureTypeOK

LEMMA AgeStep ==
    ASSUME NoLookAlike, WireInv, WireInv', AgeInv, [CaptureNext]_captureVars
    PROVE  AgeInv'
<1> DEFINE Older(n) == NoneOlder(Held, fifo, frame, n)
           OlderPrime(n) == NoneOlder(Held', fifo', frame', n)
<1>1. /\ Older(armedAt)
      /\ call # "none" /\ goal = "discard" => Older(startedAt + 1)
      /\ call = "Snap" /\ goal = "image" => Older(startedAt + 2)
    BY DEF AgeInv
<1>2. SUFFICES /\ OlderPrime(armedAt')
               /\ call' # "none" /\ goal' = "discard" => OlderPrime(startedAt' + 1)
               /\ call' = "Snap" /\ goal' = "image" => OlderPrime(startedAt' + 2)
    BY DEF AgeInv
<1>3. ASSUME Transfer \/ Host, NEW n \in Int, Older(n)
      PROVE  OlderPrime(n)
    BY <1>3, HostSteps, OlderHost
<1>4. ASSUME Device \/ Transfer \/ Host, NEW n \in Int, Older(n)
      PROVE  OlderPrime(n)
    BY <1>3, <1>4, OlderDevice
<1>5. ASSUME Finds, NEW n \in Int, Older(n)
      PROVE  OlderPrime(n + 1)
    BY <1>5, OlderFinds
<1>6. CASE UNCHANGED captureVars
    <2>1. UNCHANGED <<fifo, frame, armedAt, startedAt, call, goal>> /\ Held' = Held
        BY <1>6 DEF captureVars, vars, device, history, Held, Fore
    <2>. QED  BY <1>1, <2>1
<1> HIDE DEF Older, OlderPrime
<1>7. CASE Device
    <2>1. UNCHANGED <<armedAt, startedAt, call, goal>>
        BY <1>7, DeviceKeeps DEF vars
    <2>. QED  BY <1>1, <1>4, <1>7, <2>1, Ages
<1>8. ASSUME Transfer \/ Host, UNCHANGED <<armedAt, startedAt>>, goal' = goal, call' \in {call, "none"}
      PROVE  AgeInv'
    BY <1>1, <1>3, <1>8, Ages DEF AgeInv, OlderPrime
<1>9. CASE Transfer
    <2>1. UNCHANGED <<armedAt, startedAt>>
        BY <1>9 DEF Transfer, TransferGrows, TransferEnds, TransferOverflows,
                    TransferTimesOut, TransferFails, Gone, history
    <2>. QED  BY <1>8, <1>9, <2>1, TransferSteps DEF AgeInv, OlderPrime
<1>10. CASE HostCalls
    <2>1. UNCHANGED <<armedAt, startedAt>> /\ goal' # "discard" /\ (call' = "Snap" => goal' # "image")
        BY <1>10 DEF HostCalls, CallStart, CallSnap, CallSettle, CallFrame, Call, history
    <2>. QED  BY <1>1, <1>3, <1>10, <2>1, Ages DEF Host
<1>11. CASE HostStops \/ StartFails
    <2>1. UNCHANGED <<armedAt, startedAt>> /\ call' = "none"
        BY <1>11 DEF HostStops, CallStop, Gone, StartFails, ArmFails, Return
    <2>. QED  BY <1>1, <1>3, <1>11, <2>1, Ages DEF Host
<1>12. CASE StartDone
    <2>1. /\ step = "arm" /\ armedAt' = frame /\ frame' = frame /\ fifo' = <<>> /\ goal' = goal
          /\ call' \in {call, "none"} /\ startedAt' = (IF rearmed THEN startedAt ELSE frame)
        BY <1>12 DEF StartDone, ArmOk, BeginScan, Return
    <2>2. Held' = <<>>
        BY <1>12, StartSteps DEF Resets
    <2>3. OlderPrime(frame)
        BY <2>1, <2>2, WireTypes, EmptySeq DEF OlderPrime, NoneOlder
    <2>4. goal' \in {"discard", "image"} => startedAt' = startedAt
        BY <2>1 DEF WireInv, Plan
    <2>. QED  BY <1>1, <1>3, <1>12, <2>1, <2>3, <2>4, Ages DEF Host
<1>13. CASE HostReads
    <2>1. UNCHANGED <<armedAt, startedAt>>
        BY <1>13 DEF HostReads, Gone, history
    <2>2. CASE ReadNextImage
        <3>1. call = "Snap" /\ goal = "discard" /\ goal' = "image"
            BY <2>2 DEF ReadNextImage
        <3>2. Finds
            BY <1>13, <2>2, ReadsStep
        <3>3. OlderPrime(startedAt + 2)
            BY <1>1, <1>5, <3>1, <3>2, Ages
        <3>. QED  BY <1>1, <1>3, <1>13, <2>1, <3>1, <3>3, Ages DEF Host
    <2>3. CASE ReadValid \/ ReadRejected \/ ReadRejectedAgain
        <3>1. goal' = goal /\ call' \in {call, "none"}
            BY <2>3 DEF ReadValid, ReadRejected, ReadRejectedAgain, Return
        <3>. QED  BY <1>8, <1>13, <2>1, <3>1 DEF Host, AgeInv, OlderPrime
    <2>. QED  BY <1>13, <2>2, <2>3 DEF HostReads
<1>14. CASE HostFinds
    <2>1. /\ UNCHANGED <<armedAt, startedAt, call>>
          /\ goal' = IF goal = "boundary" THEN "discard" ELSE goal
        BY <1>14 DEF HostFinds, ScanFound
    <2>2. Finds
        BY <1>14, FindsStep
    <2>3. CASE goal = "boundary"
        <3>1. OlderPrime(armedAt + 1)
            BY <1>1, <1>5, <2>2, Ages
        <3>2. OlderPrime(startedAt + 1)
            BY <3>1, Ages, OlderWeaker DEF OlderPrime
        <3>. QED  BY <1>1, <1>3, <1>14, <2>1, <2>3, <3>2, Ages DEF Host
    <2>4. CASE goal # "boundary"
        BY <1>8, <1>14, <2>1, <2>4 DEF Host, AgeInv, OlderPrime
    <2>. QED  BY <2>3, <2>4
<1>. QED  BY <1>6, <1>7, <1>9, <1>10, <1>11, <1>12, <1>13, <1>14 DEF CaptureNext, Host

-----------------------------------------------------------------------------
(* The bytes without a gap.                                                  *)

\* While the frame armed in is not over, nothing counts yet.
LEMMA GaplessBefore ==
    ASSUME WireInv', AgeInv', frame' <= armedAt', ~synced'
    PROVE  GaplessInv'
<1> DEFINE h == Held'
           q == fifo'
           p == part'
           fr == frame'
           po == pos'
           a == armedAt'
<1>1. /\ fr \in Int /\ po \in Int /\ po \in 0 .. FrameBytes /\ a \in Int
      /\ Flight(h, q, p, fr, po)
    BY Sizes DEF WireInv, CaptureTypeOK
<1>2. NoneOlder(h, q, fr, a)
    BY DEF AgeInv
<1>3. fr <= a
    OBVIOUS
<1> HIDE DEF h, q, p, fr, po, a
<1>4. Gapless(h, q, p, fr, po, a)
    <2>1. /\ \A i \in 1 .. Len(h) : ~Counted(h[i], a)
          /\ \A n \in 1 .. Len(q) : ~Counted(q[n][1], a)
        BY <1>1, <1>2, <1>3, NothingCounts
    <2>2. fr > a => p = <<>>
        BY <1>1, <1>3
    <2>. QED  BY <1>1, <2>1, <2>2, GaplessVacuous
<1>. QED  BY <1>4 DEF GaplessInv, h, q, p, fr, po, a

LEMMA GaplessPixel ==
    ASSUME WireInv, AgeInv, GaplessInv, SensorPixel, frame > armedAt, intact'
    PROVE  GaplessInv'
<1>1. /\ Held' = Held /\ UNCHANGED <<frame, armedAt, synced>> /\ armedAt \in Int
      /\ frame <= MaxFrames /\ pos < FrameBytes
    BY DeviceKeeps, Ages DEF Device, SensorPixel
<1>2. PixelStored /\ intact
    <2>1. PixelLost => intact' = (intact /\ ~(frame > armedAt))
        BY DEF PixelLost, Counts
    <2>. QED  BY <2>1 DEF SensorPixel, PixelStored, history
<1> DEFINE u == Append(part, PixelByte)
<1>3. /\ Flight(Held, fifo, u, frame, pos + 1) /\ Added(u, part, PixelByte)
      /\ PixelByte = <<frame, pos + 1>>
      /\ Longer(Append(fifo, u), fifo, u)
    BY <1>1, PixelIs
<1>4. /\ pos' = pos + 1
      /\ \/ Len(part) + 1 = Packet /\ fifo' = Append(fifo, u) /\ part' = <<>>
         \/ fifo' = fifo /\ part' = u
    BY <1>2 DEF PixelStored
<1>5. Gapless(Held, fifo, part, frame, pos, armedAt)
    BY <1>2 DEF GaplessInv
<1> HIDE DEF u
<1>6. /\ Gapless(Held, fifo, u, frame, pos + 1, armedAt)
      /\ Begin(fifo, u, frame, pos + 1, 1) = Begin(fifo, part, frame, pos, 1)
    BY <1>1, <1>3, <1>5, WireTypes, GaplessAdds
<1>7. Gapless(Held, fifo', part', frame, pos', armedAt)
      /\ Begin(fifo', part', frame, pos', 1) = Begin(fifo, part, frame, pos, 1)
    <2>1. CASE fifo' = fifo /\ part' = u
        BY <1>4, <1>6, <2>1
    <2>2. CASE Len(part) + 1 = Packet /\ fifo' = Append(fifo, u) /\ part' = <<>>
        <3> DEFINE b == frame * WireFrame + (pos + 1) - Len(u)
        <3>1. u \in Seq(Byte) /\ Len(u) = Packet /\ 1 \in 1 .. Len(u) /\ Len(u) \in Int
              /\ pos + 1 \in Int /\ frame \in Int
            BY <1>3, <2>2, WireTypes, Sizes DEF Added
        <3>2. Len(fifo) \in Nat /\ Begin(fifo, u, frame, pos + 1, Len(fifo) + 1) = b
            BY <1>3 DEF Longer, Begin
        <3>3. \A k \in 1 .. Len(u) : Num(u[k]) = b + k
            BY <1>6, <3>2 DEF Gapless
        <3>4. b + Len(u) = frame * WireFrame + (pos + 1)
            <4>1. frame * WireFrame \in Int
                BY <3>1, NumIs
            <4>. QED  BY <3>1, <4>1
        <3>5. LET c == frame * WireFrame + (pos + 1) - Len(u)
              IN  /\ \A k \in 1 .. Len(u) : Num(u[k]) = c + k
                  /\ c + Len(u) = frame * WireFrame + (pos + 1)
            BY <3>3, <3>4
        <3> HIDE DEF b
        <3>6. /\ Gapless(Held, fifo', <<>>, frame, pos + 1, armedAt)
              /\ Begin(fifo', <<>>, frame, pos + 1, 1) = Begin(fifo, u, frame, pos + 1, 1)
            <4> DEFINE y == pos + 1
            <4>1. /\ Flight(Held, fifo, u, frame, y) /\ Gapless(Held, fifo, u, frame, y, armedAt)
                  /\ Longer(fifo', fifo, u) /\ y \in Int /\ frame \in Int /\ armedAt \in Int
                  /\ u \in Seq(Byte) /\ 1 \in 1 .. Len(u)
                BY <1>1, <1>3, <1>6, <2>2, <3>1
            <4>2. LET c == frame * WireFrame + y - Len(u)
                  IN  /\ \A k \in 1 .. Len(u) : Num(u[k]) = c + k
                      /\ c + Len(u) = frame * WireFrame + y
                BY <3>5
            <4> HIDE DEF y
            <4>3. /\ Gapless(Held, fifo', <<>>, frame, y, armedAt)
                  /\ Begin(fifo', <<>>, frame, y, 1) = Begin(fifo, u, frame, y, 1)
                BY <4>1, <4>2, GaplessCommit
            <4>. QED  BY <4>3 DEF y
        <3>. QED  BY <1>4, <1>6, <2>2, <3>6
    <2>. QED  BY <1>4, <2>1, <2>2
<1>8. ASSUME synced
      PROVE  /\ NoneOlder(Held', fifo', frame', armedAt + 1)
             /\ AtFrame(Held, fifo', part', frame, pos')
    BY <1>1, <1>2, <1>7, <1>8, OlderDevice, Ages DEF Device, GaplessInv, AtFrame
<1>. QED  BY <1>1, <1>7, <1>8 DEF GaplessInv

LEMMA GaplessFrameEnd ==
    ASSUME WireInv, AgeInv, GaplessInv, FrameEnd, frame >= armedAt, intact'
    PROVE  GaplessInv'
<1>1. /\ Held' = Held /\ UNCHANGED <<armedAt, synced>> /\ armedAt \in Int
      /\ frame' = frame + 1 /\ pos' = 0 /\ part' = <<>> /\ pos = FrameBytes
      /\ frame \in 1 .. MaxFrames /\ frame \in Int /\ pos \in 0 .. FrameBytes
    <2>1. Held' = Held /\ UNCHANGED <<armedAt, synced>>
        BY DeviceKeeps DEF Device
    <2>2. frame <= MaxFrames /\ frame' = frame + 1 /\ pos' = 0 /\ part' = <<>> /\ pos = FrameBytes
        BY DEF FrameEnd
    <2>. QED  BY <2>1, <2>2, WireTypes, Ages, Sizes
<1>2. intact /\ ~(FifoFull /\ frame > armedAt) /\ ~(part # <<>> /\ frame > armedAt)
    BY DEF FrameEnd, Counts
<1>3. Gapless(Held, fifo, part, frame, pos, armedAt)
    BY <1>2 DEF GaplessInv
<1>4. frame > armedAt \/ frame = armedAt
    BY <1>1
<1>5. ASSUME synced
      PROVE  /\ frame > armedAt
             /\ NoneOlder(Held, fifo, frame, armedAt + 1)
             /\ AtFrame(Held, fifo, part, frame, pos)
    BY <1>1, <1>2, <1>5 DEF GaplessInv, NoneOlder
<1>6. ASSUME frame = armedAt
      PROVE  /\ \A i \in 1 .. Len(Held) : ~Counted(Held[i], armedAt)
             /\ \A n \in 1 .. Len(fifo) : ~Counted(fifo[n][1], armedAt)
    <2>1. NoneOlder(Held, fifo, frame, armedAt) /\ frame <= armedAt
        BY <1>1, <1>6 DEF AgeInv
    <2>. QED  BY <1>1, <2>1, WireTypes, NothingCounts
<1>7. CASE FifoFull
    <2>1. fifo' = fifo /\ frame = armedAt /\ ~synced
        BY <1>2, <1>4, <1>5, <1>7 DEF FrameEnd
    <2>2. Gapless(Held, fifo, <<>>, frame + 1, 0, armedAt)
        BY <1>1, <1>6, <2>1, GaplessVacuous
    <2>. QED  BY <1>1, <2>1, <2>2 DEF GaplessInv
<1>8. CASE ~FifoFull
    <2>1. Gapless(Held, fifo, <<>>, frame, pos, armedAt)
        <3>1. CASE part = <<>>
            BY <1>3, <3>1
        <3>2. CASE part # <<>>
            BY <1>1, <1>2, <1>4, <1>6, <3>2, GaplessVacuous
        <3>. QED  BY <3>1, <3>2
    <2> DEFINE t == Trailer
    <2>2. /\ t \in Seq(Byte) /\ Len(t) = FrameTrailer /\ 1 \in 1 .. Len(t)
          /\ \A k \in 1 .. FrameTrailer : t[k] = <<frame, FrameBytes + k>>
        BY <1>1, TrailerIs, Sizes
    <2>3. Longer(fifo', fifo, t)
        BY <1>8, FrameEndFlight
    <2>4. Flight(Held, fifo, <<>>, frame, pos) /\ pos \in Int
        BY <1>1, WireTypes, FlightDrop
    <2> HIDE DEF t
    <2>5. /\ frame * WireFrame \in Int /\ (frame + 1) * WireFrame = frame * WireFrame + WireFrame
          /\ \A k \in Int : Num(<<frame, k>>) = frame * WireFrame + k
        BY <1>1, NumIs
    <2>6. frame * WireFrame + pos - Len(<<>>) = frame * WireFrame + FrameBytes
        BY <1>1, <2>5, EmptySeq, Sizes
    <2>7. \A k \in 1 .. Len(t) : Num(t[k]) = (frame * WireFrame + FrameBytes) + k
        <3>. SUFFICES ASSUME NEW k \in 1 .. Len(t)
                      PROVE  Num(t[k]) = (frame * WireFrame + FrameBytes) + k
            OBVIOUS
        <3>1. t[k] = <<frame, FrameBytes + k>> /\ FrameBytes + k \in Int /\ k \in Int
              /\ FrameBytes \in Int
            BY <2>2, Sizes
        <3>2. Num(t[k]) = frame * WireFrame + (FrameBytes + k)
            BY <2>5, <3>1
        <3>. QED  BY <2>5, <3>1, <3>2
    <2>8. (frame * WireFrame + FrameBytes) + Len(t) = (frame + 1) * WireFrame + 0
        BY <2>2, <2>5, Sizes
    <2>9. LET c == frame * WireFrame + pos - Len(<<>>)
          IN  /\ \A k \in 1 .. Len(t) : Num(t[k]) = c + k
              /\ c + Len(t) = (frame + 1) * WireFrame + 0
        BY <2>6, <2>7, <2>8
    <2>10. frame + 1 \in Int /\ 0 \in Int
        BY <1>1
    <2>11. /\ Gapless(Held, fifo', <<>>, frame + 1, 0, armedAt)
           /\ Begin(fifo', <<>>, frame + 1, 0, 1) = Begin(fifo, <<>>, frame, pos, 1)
        <3> DEFINE fr == frame + 1
        <3>1. LET c == frame * WireFrame + pos - Len(<<>>)
              IN  /\ \A k \in 1 .. Len(t) : Num(t[k]) = c + k
                  /\ c + Len(t) = fr * WireFrame + 0
            BY <2>9
        <3>2. fr \in Int
            BY <2>10
        <3> HIDE DEF fr
        <3>3. /\ Gapless(Held, fifo', <<>>, fr, 0, armedAt)
              /\ Begin(fifo', <<>>, fr, 0, 1) = Begin(fifo, <<>>, frame, pos, 1)
            BY <1>1, <2>1, <2>2, <2>3, <2>4, <2>10, <3>1, <3>2, GaplessCommit
        <3>. QED  BY <3>3 DEF fr
    <2>12. ASSUME synced
           PROVE  /\ NoneOlder(Held', fifo', frame', armedAt + 1)
                  /\ AtFrame(Held, fifo', <<>>, frame + 1, 0)
        <3>1. part = <<>>
            BY <1>2, <1>5, <2>12
        <3>. QED  BY <1>5, <2>11, <2>12, <3>1, OlderDevice, Ages DEF Device, AtFrame
    <2>. QED  BY <1>1, <2>11, <2>12 DEF GaplessInv
<1>. QED  BY <1>7, <1>8

LEMMA GaplessHost ==
    ASSUME NoLookAlike, WireInv, WireInv', AgeInv, GaplessInv,
           Keeps \/ Delivers \/ Finds, frame' = frame, pos' = pos, intact'
    PROVE  GaplessInv'
<1>1. intact /\ part' = part /\ armedAt' = armedAt /\ armedAt \in Int
    BY Ages DEF Keeps, Delivers, Finds, history
<1>2. /\ Gapless(Held, fifo, part, frame, pos, armedAt)
      /\ synced => /\ NoneOlder(Held, fifo, frame, armedAt + 1)
                   /\ AtFrame(Held, fifo, part, frame, pos)
      /\ NoneOlder(Held, fifo, frame, armedAt)
    BY <1>1 DEF GaplessInv, AgeInv
<1>3. ASSUME synced, Keeps \/ Delivers
      PROVE  NoneOlder(Held', fifo', frame', armedAt + 1)
    BY <1>2, <1>3, OlderHost, Ages
<1>4. CASE Keeps
    <2>1. UNCHANGED <<fifo, synced>> /\ Held' = Held
        BY <1>4 DEF Keeps, history
    <2>. QED  BY <1>1, <1>2, <2>1 DEF GaplessInv
<1>5. CASE Delivers
    <2>1. /\ Shorter(fifo', fifo) /\ Joined(Held', Held, fifo[1]) /\ synced' = synced
          /\ 1 \in 1 .. Len(fifo)
        BY <1>5, WireTypes, Leaves DEF Delivers, history, Shorter
    <2>2. /\ Gapless(Held', fifo', part, frame, pos, armedAt)
          /\ Counted(fifo[1][1], armedAt) => Begin(fifo', part, frame, pos, 1) - Len(Held')
                                                = Begin(fifo, part, frame, pos, 1) - Len(Held)
        BY <1>1, <1>2, <2>1, WireTypes, GaplessMoves
    <2>3. ASSUME synced
          PROVE  Counted(fifo[1][1], armedAt)
        <3>1. fifo[1][1] \in Byte /\ 1 \in 1 .. Len(fifo[1])
            BY <2>1, WireTypes, FirstByte
        <3>2. fifo[1][1][1] >= armedAt + 1 /\ fifo[1][1][1] \in Int
            BY <1>2, <2>1, <2>3, <3>1, NumIs DEF NoneOlder
        <3>. QED  BY <1>1, <3>2 DEF Counted
    <2>4. synced => AtFrame(Held', fifo', part, frame, pos)
        BY <1>2, <2>2, <2>3 DEF AtFrame
    <2>. QED  BY <1>1, <1>3, <1>5, <2>1, <2>2, <2>4 DEF GaplessInv
<1>6. CASE Finds
    <2>1. PICK i \in 1 .. Len(Held) : FindsAt(i)
        BY <1>6 DEF Finds
    <2> DEFINE f == Held[i][1]
               c == i + FrameTrailer - 1
               b1 == Begin(fifo, part, frame, pos, 1)
    <2>2. /\ c \in 1 .. Len(Held) /\ Held[c] = <<f, WireFrame>> /\ f \in 1 .. MaxFrames
          /\ f \in Int /\ IsEnd(Held', Held, c) /\ c \in 0 .. Len(Held)
        BY <2>1, FoundTrailer, FoundEnd DEF FindsAt
    <2> HIDE DEF f, c
    <2>3. fifo' = fifo
        BY <1>6 DEF Finds
    <2>4. Gapless(Held', fifo, part, frame, pos, armedAt)
        BY <1>1, <1>2, <2>2, WireTypes, GaplessCut
    <2>5. NoneOlder(Held', fifo', frame', armedAt + 1)
        BY <1>1, <1>2, <1>6, OlderFinds
    <2>6. b1 \in Int /\ Len(Held) \in Int /\ Len(Held') = Len(Held) - c /\ c \in Int
        <3>1. b1 \in Int
            BY WireTypes, BeginInt
        <3>2. Len(Held) \in Nat
            BY HeldIs, LenProperties
        <3>. QED  BY <2>2, <3>1, <3>2 DEF IsEnd
    <2>7. Counted(Held[c], armedAt)
        <3>1. Held[c][2] = WireFrame /\ WireFrame > FrameBytes
            BY <2>2, Sizes
        <3>. QED  BY <3>1 DEF Counted
    <2>8. Num(Held[c]) = b1 - (Len(Held) - c)
        BY <1>2, <2>2, <2>7 DEF Gapless
    <2> HIDE DEF b1
    <2>9. f * WireFrame + WireFrame = (f + 1) * WireFrame /\ Num(Held[c]) = f * WireFrame + WireFrame
        BY <2>2, NumIs, Sizes
    <2>10. b1 - Len(Held') = (f + 1) * WireFrame
        BY <2>6, <2>8, <2>9
    <2>11. f + 1 \in 1 .. MaxFrames + 1
        BY <2>2, Sizes
    <2>12. AtFrame(Held', fifo, part, frame, pos)
        BY <2>10, <2>11 DEF AtFrame, b1
    <2>. QED  BY <1>1, <2>3, <2>4, <2>5, <2>12 DEF GaplessInv
<1>. QED  BY <1>4, <1>5, <1>6

LEMMA GaplessStep ==
    ASSUME NoLookAlike, WireInv, WireInv', AgeInv, AgeInv', GaplessInv,
           [CaptureNext]_captureVars
    PROVE  GaplessInv'
<1>1. SUFFICES ASSUME intact'
               PROVE  GaplessInv'
    BY DEF GaplessInv
<1>2. CASE UNCHANGED captureVars
    <2>1. UNCHANGED <<fifo, part, frame, pos, armedAt, synced, intact>> /\ Held' = Held
        BY <1>2 DEF captureVars, vars, device, history, Held, Fore
    <2>. QED  BY <2>1 DEF GaplessInv
<1>3. CASE Device
    <2>1. /\ armedAt' = armedAt /\ armedAt \in Int /\ frame \in Int
          /\ frame' \in {frame, frame + 1}
        BY <1>3, DeviceKeeps, WireTypes, Ages
           DEF Device, SensorPixel, FrameEnd, MainLoopGates, MainLoopResumes
    <2>2. CASE frame' <= armedAt
        <3>1. intact /\ synced' = synced
            <4>1. \/ intact' = intact
                  \/ intact' = (intact /\ ~Counts(TRUE))
                  \/ intact' = (intact /\ ~Counts(FifoFull \/ part # <<>>))
                BY <1>3 DEF Device, SensorPixel, PixelLost, PixelStored, FrameEnd,
                            MainLoopGates, MainLoopResumes, history
            <4>. QED  BY <1>1, <1>3, <4>1, DeviceKeeps
        <3>2. synced => frame >= armedAt + 1
            BY <3>1 DEF GaplessInv, NoneOlder
        <3>3. ~synced'
            BY <2>1, <2>2, <3>1, <3>2
        <3>. QED  BY <2>1, <2>2, <3>3, GaplessBefore
    <2>3. CASE SensorPixel /\ ~(frame' <= armedAt)
        <3>1. frame' = frame
            BY <2>3 DEF SensorPixel
        <3>. QED  BY <1>1, <2>1, <2>3, <3>1, GaplessPixel
    <2>4. CASE FrameEnd /\ ~(frame' <= armedAt)
        <3>1. frame' = frame + 1
            BY <2>4 DEF FrameEnd
        <3>. QED  BY <1>1, <2>1, <2>4, <3>1, GaplessFrameEnd
    <2>5. CASE MainLoopGates \/ MainLoopResumes
        <3>1. Keeps
            BY <1>3, <2>5, DeviceKeeps DEF MainLoopGates, MainLoopResumes, Keeps
        <3>. QED  BY <1>1, <3>1, GaplessHost DEF Keeps
    <2>. QED  BY <1>3, <2>2, <2>3, <2>4, <2>5 DEF Device
<1>4. CASE StartDone
    <2>1. Held' = <<>> /\ fifo' = <<>> /\ part' = <<>> /\ armedAt' = frame' /\ synced' = FALSE
        BY <1>4, StartSteps DEF StartDone, Resets, BeginScan
    <2>. QED  BY <2>1, GaplessBefore, WireTypes DEF WireInv, CaptureTypeOK
<1>5. CASE (Transfer \/ Host) /\ ~StartDone
    <2>1. ~StartFails
        BY <1>1 DEF StartFails
    <2>2. ~Drops /\ ~Rejects
        BY <1>1 DEF Drops, Rejects
    <2>. QED  BY <1>1, <1>5, <2>1, <2>2, HostSteps, GaplessHost
<1>. QED  BY <1>2, <1>3, <1>4, <1>5 DEF CaptureNext, Host

-----------------------------------------------------------------------------
(* The frame numbers and the phase.                                          *)

\* A commit changes neither the phase of the buffer nor the order of the frames.
LEMMA PhaseCommit ==
    ASSUME WireInv, NEW t, Longer(fifo', fifo, t), t[1][1] = frame, frame' = After(t),
           Held' = Held, Turns(fifo, frame), InPhase(Held, fifo, frame)
    PROVE  Turns(fifo', frame') /\ InPhase(Held', fifo', frame')
<1>1. Turns(fifo', After(t)) /\ Upcoming(fifo', After(t)) = Upcoming(fifo, frame)
    BY TurnsCommit
<1>. QED  BY <1>1 DEF InPhase, Phased

LEMMA PhaseDevice ==
    ASSUME WireInv, PhaseInv, Device, ~markerLost'
    PROVE  Turns(fifo', frame') /\ InPhase(Held', fifo', frame')
<1>1. Held' = Held
    BY DeviceKeeps
<1>2. CASE fifo' = fifo /\ frame' = frame /\ markerLost' = markerLost
    BY <1>1, <1>2 DEF PhaseInv
<1>3. CASE SensorPixel
    <2> DEFINE u == Append(part, PixelByte)
    <2>1. frame' = frame /\ frame <= MaxFrames /\ pos < FrameBytes /\ markerLost' = markerLost
        BY <1>3 DEF SensorPixel, PixelLost, PixelStored, history
    <2>2. \/ fifo' = fifo
          \/ Len(part) + 1 = Packet /\ fifo' = Append(fifo, u)
        BY <1>3 DEF SensorPixel, PixelLost, PixelStored
    <2>3. /\ Longer(Append(fifo, u), fifo, u) /\ Added(u, part, PixelByte)
          /\ Flight(Held, fifo, u, frame, pos + 1)
        BY <2>1, PixelIs
    <2> HIDE DEF u
    <2>4. CASE Len(part) + 1 = Packet /\ fifo' = Append(fifo, u)
        <3>1. Len(u) = Packet /\ 1 \in 1 .. Len(u)
            BY <2>3, <2>4, Sizes DEF Added
        <3>2. u[1][1] = frame
            BY <2>3, <3>1 DEF Flight, Units
        <3>3. After(u) = frame
            BY <3>1, <3>2, Sizes, WireTypes DEF After
        <3>. QED  BY <1>1, <2>1, <2>3, <2>4, <3>2, <3>3, PhaseCommit DEF PhaseInv
    <2>. QED  BY <1>2, <2>1, <2>2, <2>4
<1>4. CASE FrameEnd
    <2>1. frame' = frame + 1 /\ frame \in 1 .. MaxFrames /\ ~FifoFull /\ ~markerLost
        <3>1. /\ frame' = frame + 1 /\ frame <= MaxFrames
              /\ markerLost' = (markerLost \/ FifoFull)
            BY <1>4 DEF FrameEnd
        <3>2. ~FifoFull /\ ~markerLost
            BY <3>1, Zenon
        <3>. QED  BY <3>1, <3>2, WireTypes, Sizes
    <2>2. /\ Longer(fifo', fifo, Trailer) /\ Len(Trailer) = FrameTrailer
          /\ Trailer[1] = <<frame, FrameBytes + 1>>
        BY <1>4, <2>1, FrameEndFlight, TrailerIs, Sizes
    <2>3. After(Trailer) = frame'
        BY <2>1, <2>2, Sizes DEF After
    <2>. QED  BY <1>1, <2>1, <2>2, <2>3, PhaseCommit DEF PhaseInv
<1>. QED  BY <1>2, <1>3, <1>4 DEF Device, MainLoopGates, MainLoopResumes, history

LEMMA PhaseHost ==
    ASSUME NoLookAlike, WireInv, WireInv', PhaseInv, ~markerLost,
           Keeps \/ Delivers \/ Drops \/ Rejects \/ Finds, frame' = frame
    PROVE  Turns(fifo', frame') /\ InPhase(Held', fifo', frame')
<1>1. Turns(fifo, frame)
    BY DEF PhaseInv
<1>2. PICK s \in 1 .. MaxFrames + 1 : Phased(Held, fifo, frame, s)
    BY DEF PhaseInv, InPhase
<1>3. s \in Int
    OBVIOUS
<1>4. Upcoming(fifo, frame) \in 1 .. MaxFrames + 1 /\ Upcoming(fifo, frame) \in Int
    <2>1. Upcoming(fifo, frame) \in 1 .. MaxFrames + 1
        BY WireTypes, UpcomingRange
    <2>. QED  BY <2>1, Sizes
<1>5. Upcoming(fifo', frame') \in 1 .. MaxFrames + 1
    <2>1. /\ frame' \in 1 .. MaxFrames + 1 /\ pos' \in 0 .. FrameBytes
          /\ Flight(Held', fifo', part', frame', pos')
        BY DEF WireInv, CaptureTypeOK
    <2> DEFINE h == Held'
               q == fifo'
               p == part'
               fr == frame'
               po == pos'
    <2>2. fr \in 1 .. MaxFrames + 1 /\ po \in 0 .. FrameBytes /\ Flight(h, q, p, fr, po)
        BY <2>1
    <2> HIDE DEF h, q, p, fr, po
    <2>3. Upcoming(q, fr) \in 1 .. MaxFrames + 1
        BY <2>2, UpcomingRange
    <2>. QED  BY <2>3 DEF q, fr
<1>6. ASSUME fifo # <<>>, fifo' = Tail(fifo)
      PROVE  Shorter(fifo', fifo) /\ Head(fifo) = fifo[1] /\ Turns(fifo', frame)
    <2>1. Shorter(fifo', fifo) /\ Head(fifo) = fifo[1]
        BY <1>6, WireTypes, Leaves
    <2>. QED  BY <1>1, <1>6, <2>1, TurnsMove
<1>7. CASE Keeps
    BY <1>1, <1>2, <1>7 DEF Keeps, InPhase
<1>8. CASE Delivers
    <2>1. /\ Shorter(fifo', fifo) /\ Turns(fifo', frame) /\ Joined(Held', Held, fifo[1])
          /\ fifo # <<>>
        BY <1>6, <1>8 DEF Delivers
    <2>2. Phased(Held', fifo', frame, s)
        BY <1>1, <1>2, <1>3, <2>1, WireTypes, PhaseMoves
    <2>. QED  BY <2>1, <2>2 DEF InPhase
<1>9. CASE Drops
    <2>1. Turns(fifo', frame') /\ Held' = <<>>
        BY <1>1, <1>6, <1>9 DEF Drops
    <2>. QED  BY <1>5, <2>1, PhaseEmpty
<1>10. CASE Rejects
    <2>1. /\ IsEnd(Held', Held, FrameBytes) /\ FrameBytes <= Len(Held) /\ fifo' = fifo
          /\ Held \in Seq(Byte)
        BY <1>10, HeldIs, IsFrom DEF Rejects
    <2>2. Phased(Held', fifo, frame, s)
        BY <1>2, <1>3, <1>4, <2>1, PhaseRejects
    <2>. QED  BY <1>1, <2>1, <2>2 DEF InPhase
<1>11. CASE Finds
    <2>1. PICK i \in 1 .. Len(Held) : FindsAt(i)
        BY <1>11 DEF Finds
    <2>2. Held[i][2] = FrameBytes + 1 /\ IsEnd(Held', Held, i + FrameTrailer - 1) /\ fifo' = fifo
        BY <1>11, <2>1, FoundTrailer, FoundEnd DEF FindsAt, Finds
    <2>3. Phased(Held', fifo, frame, Held[i][1] + 1) /\ Held[i][1] + 1 \in 1 .. MaxFrames + 1
        BY <1>2, <1>3, <2>2, WireTypes, PhaseFinds
    <2>. QED  BY <1>1, <2>2, <2>3 DEF InPhase
<1>. QED  BY <1>7, <1>8, <1>9, <1>10, <1>11

LEMMA PhaseStep ==
    ASSUME NoLookAlike, WireInv, WireInv', PhaseInv, [CaptureNext]_captureVars
    PROVE  PhaseInv'
<1>1. SUFFICES ASSUME ~markerLost'
               PROVE  Turns(fifo', frame') /\ InPhase(Held', fifo', frame')
    BY DEF PhaseInv
<1>2. CASE UNCHANGED captureVars
    <2>1. UNCHANGED <<fifo, frame, markerLost>> /\ Held' = Held
        BY <1>2 DEF captureVars, vars, device, history, Held, Fore
    <2>. QED  BY <1>1, <2>1 DEF PhaseInv
<1>3. CASE Device
    BY <1>1, <1>3, PhaseDevice
<1>4. ASSUME Resets
      PROVE  Turns(fifo', frame') /\ InPhase(Held', fifo', frame')
    <2>1. Held' = <<>> /\ fifo' = <<>> /\ frame' = frame
        BY <1>4 DEF Resets, BeginScan
    <2>2. Turns(<<>>, frame)
        BY EmptySeq DEF Turns
    <2>3. Upcoming(<<>>, frame) = frame /\ frame \in 1 .. MaxFrames + 1
        BY WireTypes DEF Upcoming
    <2>. QED  BY <2>1, <2>2, <2>3, PhaseEmpty
<1>5. CASE Transfer \/ Host
    <2>1. CASE StartDone
        BY <1>4, <2>1, StartSteps
    <2>2. CASE Keeps \/ Delivers \/ Drops \/ Rejects \/ Finds
        <3>1. markerLost' = markerLost
            BY <2>2 DEF Keeps, Delivers, Drops, Rejects, Finds, history
        <3>. QED  BY <1>1, <1>5, <2>2, <3>1, HostSteps, PhaseHost
    <2>3. CASE StartFails
        BY <1>4, <2>2, <2>3, StartSteps
    <2>. QED  BY <1>5, <2>1, <2>2, <2>3, HostSteps
<1>. QED  BY <1>2, <1>3, <1>5 DEF CaptureNext

-----------------------------------------------------------------------------
(* The image.                                                                *)

\* Numbers that go up from one to the next, as many as there is room for.
LEMMA Ladder ==
    ASSUME NEW N \in Nat, NEW a, \A i \in 1 .. N : a[i] \in 1 .. N,
           \A i, j \in 1 .. N : i < j => a[i] < a[j]
    PROVE  \A i \in 1 .. N : a[i] = i
<1> DEFINE S == {n \in Nat : n \in 1 .. N => a[n] >= n}
           T == {n \in Nat : n \in 0 .. N - 1 => a[N - n] <= N - n}
<1>1. Nat \subseteq S
    <2>1. 0 \in S
        OBVIOUS
    <2>2. ASSUME NEW n \in Nat, n \in S
          PROVE  n + 1 \in S
        <3>. SUFFICES ASSUME n + 1 \in 1 .. N
                      PROVE  a[n + 1] >= n + 1
            OBVIOUS
        <3>1. CASE n = 0
            BY <3>1
        <3>2. CASE n # 0
            <4>1. n \in 1 .. N /\ a[n] >= n /\ a[n] < a[n + 1]
                BY <2>2, <3>2
            <4>2. a[n] \in Int /\ a[n + 1] \in Int
                BY <4>1
            <4>. QED  BY <4>1, <4>2
        <3>. QED  BY <3>1, <3>2
    <2> HIDE DEF S
    <2>. QED  BY <2>1, <2>2, Induct
<1>2. Nat \subseteq T
    <2>1. 0 \in T
        OBVIOUS
    <2>2. ASSUME NEW n \in Nat, n \in T
          PROVE  n + 1 \in T
        <3>. SUFFICES ASSUME n + 1 \in 0 .. N - 1
                      PROVE  a[N - (n + 1)] <= N - (n + 1)
            OBVIOUS
        <3>1. n \in 0 .. N - 1 /\ N - n \in 1 .. N /\ N - (n + 1) \in 1 .. N
              /\ N - (n + 1) < N - n
            OBVIOUS
        <3>2. a[N - n] <= N - n
            BY <2>2, <3>1
        <3>3. a[N - (n + 1)] < a[N - n] /\ a[N - n] \in Int /\ a[N - (n + 1)] \in Int
            BY <3>1
        <3>. QED  BY <3>1, <3>2, <3>3
    <2> HIDE DEF T
    <2>. QED  BY <2>1, <2>2, Induct
<1>3. ASSUME NEW i \in 1 .. N
      PROVE  a[i] = i
    <2>1. a[i] >= i
        BY <1>1
    <2>2. N - i \in Nat /\ N - i \in 0 .. N - 1 /\ N - (N - i) = i
        OBVIOUS
    <2>3. a[i] <= i
        BY <1>2, <2>2
    <2>. QED  BY <2>1, <2>3
<1>. QED  BY <1>3

\* A trailer where the phase allows one: everything in front of it is one frame.
LEMMA OnePhase ==
    ASSUME FewFrames, NEW h, NEW q, NEW p, NEW fr \in 1 .. MaxFrames + 1, NEW po \in 0 .. FrameBytes,
           Flight(h, q, p, fr, po), NEW s \in 1 .. MaxFrames + 1, Phased(h, q, fr, s),
           FrameBytes + 1 \in 1 .. Len(h), h[FrameBytes + 1][2] = FrameBytes + 1
    PROVE  \A i \in 1 .. FrameBytes : h[i] = <<h[FrameBytes + 1][1], i>>
<1> DEFINE b == h[FrameBytes + 1]
           g == b[1]
           t == g - s
<1>1. h \in Seq(Byte) /\ InOrder(h) /\ b \in Byte /\ Len(h) \in Nat
    BY ElementOfSeq, LenProperties DEF Flight, Units, Ordered
<1>2. g \in 1 .. MaxFrames /\ g >= s /\ g \in Int /\ s \in Int
    <2>1. g \in 1 .. MaxFrames /\ g \in Int
        BY <1>1, Bytes, NumIs
    <2>2. g >= s
        BY DEF Phased
    <2>. QED  BY <2>1, <2>2
<1>3. t \in 0 .. Packet - 1
    BY <1>2, Sizes DEF FewFrames
<1>4. Multiple(FrameBytes - FrameTrailer * t)
    <2>1. Multiple(((FrameBytes + 1) - 1) - FrameTrailer * t)
        BY DEF Phased
    <2>2. (FrameBytes + 1) - 1 = FrameBytes
        BY Sizes
    <2>. QED  BY <2>1, <2>2
<1>5. FrameTrailer * t \in Int /\ FrameBytes \in Int
    BY <1>2, TrailerSum, Sizes
<1>6. Multiple(FrameTrailer * t)
    <2> DEFINE x == FrameTrailer * t
    <2>1. x \in Int /\ FrameBytes \in Int /\ Multiple(FrameBytes - x)
        BY <1>4, <1>5
    <2> HIDE DEF x
    <2>2. Multiple(FrameBytes - (FrameBytes - x)) /\ FrameBytes - (FrameBytes - x) = x
        BY <2>1, Multiples
    <2>3. Multiple(x)
        BY <2>2
    <2>. QED  BY <2>3 DEF x
<1>7. g = s
    <2> HIDE DEF g
    <2>1. t = 0
        BY <1>3, <1>6, TooFewTrailers
    <2>. QED  BY <1>2, <2>1
<1> HIDE DEF b, g
<1>8. ASSUME NEW i \in 1 .. FrameBytes
      PROVE  /\ i \in 1 .. Len(h) /\ h[i] \in Byte /\ h[i][1] = g /\ h[i][2] \in 1 .. FrameBytes
    <2>1. i \in 1 .. Len(h) /\ i < FrameBytes + 1
        BY <1>1, Sizes
    <2>2. h[i] \in Byte /\ h[i][1] >= s /\ Before(h[i], b)
        BY <1>1, <2>1, ElementOfSeq, OrderIs DEF Phased, b
    <2>3. b[1] = g /\ b[2] = FrameBytes + 1
        BY DEF b, g
    <2>4. h[i][1] \in Int /\ h[i][2] \in Int /\ h[i][2] >= 1
        BY <2>2, NumIs
    <2>. QED  BY <1>2, <1>7, <2>1, <2>2, <2>3, <2>4, Sizes DEF Before
<1> DEFINE a == [i \in 1 .. FrameBytes |-> h[i][2]]
<1>9. \A i, j \in 1 .. FrameBytes : i < j => a[i] < a[j]
    <2>. SUFFICES ASSUME NEW i \in 1 .. FrameBytes, NEW j \in 1 .. FrameBytes, i < j
                  PROVE  h[i][2] < h[j][2]
        OBVIOUS
    <2>1. /\ i \in 1 .. Len(h) /\ j \in 1 .. Len(h)
          /\ h[i][1] = g /\ h[j][1] = g
        BY <1>8
    <2>2. Before(h[i], h[j])
        BY <1>1, <2>1, OrderIs
    <2>. QED  BY <1>2, <2>1, <2>2 DEF Before
<1>10. \A i \in 1 .. FrameBytes : a[i] \in 1 .. FrameBytes
    BY <1>8
<1>11. \A i \in 1 .. FrameBytes : a[i] = h[i][2]
    OBVIOUS
<1> HIDE DEF a
<1>12. \A i \in 1 .. FrameBytes : a[i] = i
    BY <1>9, <1>10, Ladder, Sizes
<1>13. ASSUME NEW i \in 1 .. FrameBytes
       PROVE  h[i] = <<g, i>>
    BY <1>8, <1>11, <1>12, Bytes
<1>. QED  BY <1>13 DEF g, b

\* What the host takes for a valid frame.
LEMMA ValidRead ==
    ASSUME NoLookAlike, WireInv, step = "read", Got = WireFrame, HasMagic(trail)
    PROVE  /\ Held = fed /\ FrameBytes + 1 \in 1 .. Len(Held)
           /\ image = SubSeq(Held, 1, FrameBytes) /\ Held \in Seq(Byte)
           /\ FrameBytes + 1 + FrameTrailer - 1 \in 1 .. Len(Held)
           /\ carry = From(Held, FrameBytes + 1 + FrameTrailer)
           /\ Held[FrameBytes + 1][2] = FrameBytes + 1
           /\ Held[FrameBytes + 1][1] \in 1 .. MaxFrames
           /\ Held[FrameBytes + 1 + FrameTrailer - 1] = <<Held[FrameBytes + 1][1], WireFrame>>
<1>1. /\ Held = fed /\ image = SubSeq(fed, 1, FrameBytes)
      /\ MarkerAt(fed, FrameBytes + 1) /\ FrameBytes + 1 \in 1 .. Len(fed)
      /\ carry = From(fed, FrameBytes + 1 + FrameTrailer)
    BY WholeRead
<1> DEFINE i == FrameBytes + 1
<1>2. i \in 1 .. Len(Held) /\ MarkerAt(Held, i)
    BY <1>1
<1> HIDE DEF i
<1>3. /\ Held[i][2] = FrameBytes + 1 /\ Held[i][1] \in 1 .. MaxFrames
      /\ i + FrameTrailer - 1 \in 1 .. Len(Held)
      /\ Held[i + FrameTrailer - 1] = <<Held[i][1], WireFrame>>
    BY <1>2, FoundTrailer
<1>. QED  BY <1>1, <1>2, <1>3, HeldIs DEF i

LEMMA WholeImage ==
    ASSUME NoLookAlike, FewFrames, WireInv, PhaseInv, ~markerLost,
           step = "read", Got = WireFrame, HasMagic(trail)
    PROVE  OneFrame(image)
<1> DEFINE g == Held[FrameBytes + 1][1]
<1>1. PICK s \in 1 .. MaxFrames + 1 : Phased(Held, fifo, frame, s)
    BY DEF PhaseInv, InPhase
<1>2. \A i \in 1 .. FrameBytes : Held[i] = <<g, i>>
    BY <1>1, ValidRead, WireTypes, OnePhase
<1>3. g \in 1 .. MaxFrames /\ image = SubSeq(Held, 1, FrameBytes) /\ Held \in Seq(Byte)
      /\ FrameBytes + 1 \in 1 .. Len(Held)
    BY ValidRead
<1> HIDE DEF g
<1>4. image = [k \in 1 .. FrameBytes |-> <<g, k>>]
    <2>1. FrameBytes \in Nat /\ FrameBytes >= 1
        BY Sizes
    <2>2. /\ 1 \in 1 .. Len(Held) + 1 /\ FrameBytes \in 1 - 1 .. Len(Held)
        <3>1. Len(Held) \in Nat
            BY <1>3, LenProperties
        <3>. QED  BY <1>3, <2>1, <3>1
    <2>3. /\ image \in Seq(Byte) /\ Len(image) = FrameBytes
          /\ \A k \in 1 .. FrameBytes : image[k] = Held[k]
        <3>1. /\ SubSeq(Held, 1, FrameBytes) \in Seq(Byte)
              /\ Len(SubSeq(Held, 1, FrameBytes)) = (FrameBytes - 1) + 1
              /\ \A k \in 1 .. (FrameBytes - 1) + 1 :
                    SubSeq(Held, 1, FrameBytes)[k] = Held[1 + k - 1]
            BY <1>3, <2>1, <2>2, SubSeqProperties
        <3>2. (FrameBytes - 1) + 1 = FrameBytes /\ \A k \in 1 .. FrameBytes : 1 + k - 1 = k
            BY <2>1
        <3>. QED  BY <1>3, <3>1, <3>2
    <2>4. image \in [1 .. FrameBytes -> Byte]
        BY <2>3, LenProperties
    <2>. QED  BY <1>2, <2>3, <2>4
<1>. QED  BY <1>3, <1>4 DEF OneFrame

\* A call that succeeds has read a frame, or had none to read.
LEMMA ReturnsNil ==
    ASSUME Inv, Next, call' = "none", result' = "nil"
    PROVE  ReadValid \/ (goal' = "none" /\ call \in {"none", "Start"})
<1>1. CASE Caller
    BY <1>1 DEF Caller, CallStart, CallSnap, CallSettle, CallFrame, CallFrameShort, CallStop,
                Call
<1>2. CASE Arm
    BY <1>2 DEF Arm, ArmOk, ArmFails, Return, Failure, Inv, CallShape
<1>3. call # "none" \/ Caller
    BY DEF Next, Progress, Arm, ArmOk, ArmFails, Read, ReadData, Reading, ReadFails, ReadTimeout,
           ReadNextImage, ReadValid, ReadRejected, ReadRejectedAgain, Scan, ScanFound, ScanData,
           Scanning, ScanLate, ScanEmpty, ScanFails, ScanTimeout, Inv, CallShape
<1>4. CASE Read /\ call # "none"
    BY <1>4 DEF Read, ReadData, ReadFails, ReadTimeout, Panic, Return, Failure, ReadNextImage,
                ReadRejected, ReadRejectedAgain
<1>5. CASE Scan /\ call # "none"
    BY <1>5 DEF Scan, ScanFound, ScanData, ScanLate, ScanEmpty, NoBoundary, ScanFails,
                ScanTimeout, Panic, Return, Failure
<1>. QED  BY <1>1, <1>2, <1>3, <1>4, <1>5 DEF Next, Progress

\* Nothing moves in the device while a call returns for having read a frame.
LEMMA ValidKeeps ==
    ASSUME WireInv, CaptureNext, ReadValid, call' = "none", result' = "nil",
           call \in {"Settle", "Snap"}
    PROVE  UNCHANGED device
<1>1. step = "read" /\ Got = WireFrame /\ call # "none" /\ goal # "boundary"
    BY DEF ReadValid, WireInv, Plan
<1>2. CASE Device
    BY <1>1, <1>2 DEF Device, SensorPixel, FrameEnd, MainLoopGates, MainLoopResumes, vars
<1>3. CASE Transfer
    BY <1>1, <1>3, Sizes DEF Transfer, TransferGrows, TransferEnds, TransferOverflows,
        TransferTimesOut, TransferFails, Waiting, Reading, Scanning, ReadData, ScanData, ScanLate,
        ReadFails, ScanFails, ReadTimeout, ScanTimeout
<1>4. CASE Host
    BY <1>1, <1>4 DEF Host, HostCalls, HostStops, StartDone, ArmOk, StartFails, ArmFails,
        HostReads, HostFinds, ScanFound, CallStart, CallSnap, CallSettle, CallFrame, CallStop, Call
<1>. QED  BY <1>2, <1>3, <1>4 DEF CaptureNext

LEMMA WholeStep ==
    ASSUME NoLookAlike, FewFrames, WireInv, PhaseInv, WholeFrame, [CaptureNext]_captureVars
    PROVE  WholeFrame'
<1>1. SUFFICES ASSUME Delivered', ~markerLost'
               PROVE  OneFrame(image')
    BY DEF WholeFrame, OneFrame
<1>2. call' = "none" /\ result' = "nil" /\ goal' = "image"
    BY <1>1 DEF Delivered
<1>3. [Next]_vars /\ Inv
    BY IsReaderStep DEF WireInv, MappedInv
<1>4. \/ UNCHANGED vars
      \/ ReadValid
    BY <1>2, <1>3, ReturnsNil
<1>5. ~StartDone
    BY <1>4 DEF StartDone, ArmOk, Return, EnterScan, ReadValid, vars
<1>6. ~markerLost
    <2>1. markerLost' = markerLost \/ markerLost' = (markerLost \/ FifoFull)
        <3>1. CASE UNCHANGED captureVars
            BY <3>1 DEF captureVars, history
        <3>2. CASE Device
            BY <3>2 DEF Device, SensorPixel, PixelLost, PixelStored, FrameEnd,
                        MainLoopGates, MainLoopResumes, history
        <3>3. CASE Transfer
            BY <3>3 DEF Transfer, TransferGrows, TransferEnds, TransferOverflows,
                        TransferTimesOut, TransferFails, Gone, history
        <3>4. CASE Host
            BY <1>5, <3>4 DEF Host, HostCalls, HostStops, StartFails, HostReads, HostFinds,
                              Gone, history
        <3>. QED  BY <3>1, <3>2, <3>3, <3>4 DEF CaptureNext
    <2>2. markerLost => markerLost'
        BY <2>1, Zenon
    <2>. QED  BY <1>1, <2>2
<1>7. CASE UNCHANGED vars
    <2>1. Delivered /\ image' = image
        BY <1>2, <1>7 DEF vars, Delivered
    <2>. QED  BY <1>6, <2>1 DEF WholeFrame
<1>8. CASE ReadValid
    <2>1. step = "read" /\ Got = WireFrame /\ HasMagic(trail) /\ image' = image
        BY <1>8 DEF ReadValid
    <2>2. OneFrame(image)
        BY <1>6, <2>1, WholeImage
    <2>. QED  BY <2>1, <2>2
<1>. QED  BY <1>4, <1>7, <1>8

LEMMA FreshImage ==
    ASSUME NoLookAlike, WireInv, AgeInv, ReadValid, call = "Snap"
    PROVE  \A i \in 1 .. Len(image') : image'[i][1] >= startedAt + 2
<1>1. /\ step = "read" /\ Got = WireFrame /\ HasMagic(trail) /\ image' = image
      /\ goal # "discard"
    BY DEF ReadValid
<1>2. goal = "image"
    BY <1>1 DEF WireInv, Plan, MappedInv, Inv, TypeOK
<1>3. \A i \in 1 .. Len(Held) : Held[i][1] >= startedAt + 2
    BY <1>2 DEF AgeInv, NoneOlder
<1>4. /\ image = SubSeq(Held, 1, FrameBytes) /\ Held \in Seq(Byte)
      /\ FrameBytes + 1 \in 1 .. Len(Held)
    BY <1>1, ValidRead
<1>5. Len(image) = FrameBytes /\ \A i \in 1 .. FrameBytes : image[i] = Held[i]
    <2>1. FrameBytes \in Nat /\ FrameBytes >= 1 /\ Len(Held) \in Nat
        BY <1>4, LenProperties, Sizes
    <2>2. \A i \in 1 .. FrameBytes : Held[i] \in Byte
        BY <1>4, <2>1, ElementOfSeq
    <2>3. /\ Len(SubSeq(Held, 1, FrameBytes)) = (FrameBytes - 1) + 1
          /\ \A k \in 1 .. (FrameBytes - 1) + 1 :
                SubSeq(Held, 1, FrameBytes)[k] = Held[1 + k - 1]
        BY <2>1, <2>2, SubSeqProperties
    <2>4. (FrameBytes - 1) + 1 = FrameBytes /\ \A k \in 1 .. FrameBytes : 1 + k - 1 = k
        BY <2>1
    <2>. QED  BY <1>4, <2>3, <2>4
<1>6. \A i \in 1 .. FrameBytes : i \in 1 .. Len(Held)
    BY <1>4, LenProperties, Sizes
<1>. QED  BY <1>1, <1>3, <1>5, <1>6

LEMMA FreshUnread ==
    ASSUME NoLookAlike, WireInv, AgeInv, ReadValid, call = "Settle",
           UNCHANGED device
    PROVE  /\ \A s \in Unread' : \A i \in 1 .. Len(s) : s[i][1] >= startedAt + 2
           /\ frame' >= startedAt + 2
<1>1. /\ step = "read" /\ Got = WireFrame /\ HasMagic(trail) /\ carry' = carry
      /\ fifo' = fifo /\ part' = part /\ frame' = frame
    BY DEF ReadValid, Leave, device
<1>2. goal = "discard"
    BY <1>1 DEF WireInv, Plan, MappedInv, Inv, TypeOK
<1>3. NoneOlder(Held, fifo, frame, startedAt + 1)
    BY <1>2 DEF AgeInv
<1> DEFINE c == FrameBytes + 1 + FrameTrailer - 1
           f == Held[FrameBytes + 1][1]
<1>4. /\ c \in 1 .. Len(Held) /\ Held[c] = <<f, WireFrame>> /\ f \in Int
      /\ FrameBytes + 1 \in 1 .. Len(Held) /\ Held \in Seq(Byte)
      /\ carry = From(Held, FrameBytes + 1 + FrameTrailer)
    BY <1>1, ValidRead
<1>5. c + 1 = FrameBytes + 1 + FrameTrailer /\ c \in 0 .. Len(Held)
    BY <1>4, Sizes
<1>6. f >= startedAt + 1
    BY <1>3, <1>4 DEF NoneOlder
<1> HIDE DEF c, f
<1>7. IsEnd(carry, Held, c)
    BY <1>4, <1>5, IsFrom
<1>8. NoneOlder(carry, fifo, frame, f + 1)
    BY <1>4, <1>7, WireTypes, NoneOlderBehind
<1>9. /\ carry \in Seq(Byte) /\ fifo \in Seq(Seq(Byte)) /\ part \in Seq(Byte)
      /\ frame \in Int /\ frame >= f + 1
      /\ \A i \in 1 .. Len(carry) : carry[i][1] >= f + 1
      /\ \A n \in 1 .. Len(fifo) : \A i \in 1 .. Len(fifo[n]) : fifo[n][i][1] >= f + 1
      /\ \A i \in 1 .. Len(part) : part[i][1] = frame
    BY <1>8, HeldIs, WireTypes DEF NoneOlder, WireInv, Flight, Units
<1>10. ASSUME NEW s \in Unread, NEW i \in 1 .. Len(s)
       PROVE  s[i][1] >= startedAt + 2
    <2>1. s \in Seq(Byte) /\ s[i][1] >= f + 1
        <3>1. CASE s = carry
            BY <1>9, <3>1
        <3>2. CASE s = part
            BY <1>9, <3>2
        <3>3. CASE s \in {fifo[n] : n \in 1 .. Len(fifo)}
            <4>1. PICK n \in 1 .. Len(fifo) : s = fifo[n]
                BY <3>3
            <4>2. fifo[n] \in Seq(Byte)
                BY <1>9, ElementOfSeq
            <4>. QED  BY <1>9, <4>1, <4>2
        <3>. QED  BY <3>1, <3>2, <3>3 DEF Unread
    <2>2. s[i][1] \in Int
        BY <2>1, ElementOfSeq, NumIs
    <2>. QED  BY <1>4, <1>6, <2>1, <2>2, Ages
<1>11. Unread' = Unread
    BY <1>1 DEF Unread
<1>12. frame' >= startedAt + 2
    BY <1>1, <1>4, <1>6, <1>9, Ages
<1>. QED  BY <1>10, <1>11, <1>12

\* In a stream without a gap, a frame read from the boundary ends with its trailer.
LEMMA InPlace ==
    ASSUME WireInv, GaplessInv, intact, synced, step = "read", Got = WireFrame
    PROVE  HasMagic(trail)
<1>1. /\ Held = fed /\ FrameBytes \in 0 .. Len(fed)
      /\ HasMagic(trail) <=> MarkerAt(fed, FrameBytes + 1)
    BY WholeRead
<1>2. Held \in Seq(Byte) /\ Len(Held) \in Nat
    BY HeldIs, LenProperties
<1>3. FrameBytes + FrameTrailer <= Len(Held)
    <2>1. InProgress(image, trail) /\ trail \in Seq(Byte) /\ carry \in Seq(Byte) /\ image \in Seq(Byte)
          /\ fed = image \o trail \o carry
        BY DEF WireInv, MappedInv, Inv, ReadShape, TypeOK, Contiguous
    <2>2. Len(image \o trail) = Len(image) + Len(trail) /\ image \o trail \in Seq(Byte)
        BY <2>1, ConcatProperties
    <2>3. Len(fed) = Len(image \o trail) + Len(carry)
        BY <2>1, <2>2, ConcatProperties
    <2>4. Len(image) \in Nat /\ Len(trail) \in Nat /\ Len(carry) \in Nat
        BY <2>1, LenProperties
    <2>. QED  BY <1>1, <2>2, <2>3, <2>4, Sizes DEF Got
<1> DEFINE b1 == Begin(fifo, part, frame, pos, 1)
<1>4. /\ Gapless(Held, fifo, part, frame, pos, armedAt)
      /\ NoneOlder(Held, fifo, frame, armedAt + 1)
      /\ AtFrame(Held, fifo, part, frame, pos)
    BY DEF GaplessInv
<1>5. PICK f \in 1 .. MaxFrames + 1 : b1 - Len(Held) = f * WireFrame
    BY <1>4 DEF AtFrame
<1>6. b1 \in Int /\ f \in Int /\ f * WireFrame \in Int
    BY WireTypes, BeginInt, NumIs
<1>7. \A i \in 1 .. Len(Held) : Counted(Held[i], armedAt) => Num(Held[i]) = b1 - (Len(Held) - i)
    BY <1>4 DEF Gapless
<1> HIDE DEF b1
<1>8. ASSUME NEW i \in 1 .. WireFrame
      PROVE  i \in 1 .. Len(Held) /\ Held[i] = <<f, i>> /\ f \in 1 .. MaxFrames
    <2>1. i \in 1 .. Len(Held)
        BY <1>2, <1>3, Sizes
    <2>2. Held[i] \in Byte
        BY <1>2, <2>1, ElementOfSeq
    <2>3. /\ Held[i][1] \in 1 .. MaxFrames /\ Held[i][2] \in 1 .. WireFrame
          /\ Held[i] = <<Held[i][1], Held[i][2]>> /\ Held[i][1] \in Int
        BY <2>2, Bytes, NumIs
    <2>4. Counted(Held[i], armedAt)
        <3>1. Held[i][1] >= armedAt + 1
            BY <1>4, <2>1 DEF NoneOlder
        <3>. QED  BY <2>3, <3>1, Ages DEF Counted
    <2>5. Num(Held[i]) = f * WireFrame + i
        <3>1. Num(Held[i]) = b1 - (Len(Held) - i)
            BY <1>7, <2>1, <2>4
        <3>. QED  BY <1>2, <1>5, <1>6, <3>1
    <2>6. Held[i][1] * WireFrame + Held[i][2] = f * WireFrame + i
        BY <2>5 DEF Num
    <2>7. Held[i][1] = f /\ Held[i][2] = i
        BY <1>6, <2>3, <2>6, Numbers
    <2>. QED  BY <2>1, <2>3, <2>7
<1>9. ASSUME NEW k \in 1 .. Len(Magic)
      PROVE  Value[fed[(FrameBytes + 1) + k - 1]] = Magic[k]
    <2>1. Len(Magic) \in 1 .. FrameTrailer
        BY ReaderAssumption DEF ReaderAssumption
    <2>2. FrameBytes + k \in 1 .. WireFrame /\ (FrameBytes + 1) + k - 1 = FrameBytes + k
        BY <2>1, Sizes
    <2>3. Held[FrameBytes + k] = <<f, FrameBytes + k>> /\ f \in 1 .. MaxFrames
        BY <1>8, <2>2
    <2>4. Value[<<f, FrameBytes + k>>] = Magic[k]
        BY <2>3, CaptureAssumption DEF CaptureAssumption
    <2>. QED  BY <1>1, <2>2, <2>3, <2>4
<1>10. (FrameBytes + 1) + FrameTrailer - 1 <= Len(fed)
    BY <1>1, <1>2, <1>3, Sizes
<1>. QED  BY <1>1, <1>9, <1>10 DEF MarkerAt

LEMMA CaptureInitInv == CaptureInit => CaptureInv
<1>. SUFFICES ASSUME CaptureInit
              PROVE  CaptureInv
    OBVIOUS
<1>1. WireInv
    BY WireInit
<1>2. Held = <<>> /\ fifo = <<>> /\ frame = 1 /\ armedAt = 1 /\ Len(<<>>) = 0
    <2>1. step = "none" /\ carry = <<>> /\ urb = <<>>
        BY DEF CaptureInit, Init
    <2>2. Held = <<>> \o <<>>
        BY <2>1 DEF Held, Fore
    <2>. QED  BY <2>2, ConcatEmptySeq, EmptySeq DEF CaptureInit
<1>3. PhaseInv
    <2>1. Turns(fifo, frame)
        BY <1>2 DEF Turns
    <2>2. Upcoming(fifo, frame) = frame /\ frame \in 1 .. MaxFrames + 1
        BY <1>1, <1>2, WireTypes DEF Upcoming
    <2>3. InPhase(<<>>, fifo, frame)
        BY <2>2, PhaseEmpty
    <2>. QED  BY <1>2, <2>1, <2>3 DEF PhaseInv
<1>4. AgeInv
    BY <1>2 DEF CaptureInit, Init, AgeInv, NoneOlder
<1>5. GaplessInv
    BY DEF CaptureInit, GaplessInv
<1>. QED  BY <1>1, <1>3, <1>4, <1>5 DEF CaptureInv

LEMMA CaptureStepInv ==
    ASSUME NoLookAlike, CaptureInv, [CaptureNext]_captureVars
    PROVE  CaptureInv'
<1>1. WireInv'
    BY WireStep DEF CaptureInv
<1>2. AgeInv'
    BY <1>1, AgeStep DEF CaptureInv
<1>3. PhaseInv'
    BY <1>1, PhaseStep DEF CaptureInv
<1>4. GaplessInv'
    BY <1>1, <1>2, GaplessStep DEF CaptureInv
<1>. QED  BY <1>1, <1>2, <1>3, <1>4 DEF CaptureInv

-----------------------------------------------------------------------------
(* Part 5: the theorems.  The first two hold whatever the scene looks like.  *)

\* No step of the sensor, the FIFO, the firmware or the host takes a variable out of its
\* type or a queue out of its bounds (main.c:22-75, camera.go:418-602).
THEOREM CaptureTypes == CaptureSpec => []CaptureTypeOK
<1>1. WireInv => CaptureTypeOK
    BY DEF WireInv
<1>. QED  BY WireInit, WireStep, <1>1, PTL DEF CaptureSpec

\* The camera on the wire does nothing FrameReader does not allow for: what is proved
\* of the reader against every stream holds of it here (camera.go:418-602).
THEOREM CaptureReads == CaptureSpec => Spec
<1>1. CaptureInit => Init
    BY DEF CaptureInit
<1>. QED  BY WireInit, WireStep, IsReaderStep, <1>1, PTL DEF CaptureSpec, Spec

\* With a scene that shows no magic of its own the inductive invariant holds: of what is
\* on its way, in which order and at which place of a frame the host is, and how old what
\* it holds can be (main.c:22-75, camera.go:418-602).
THEOREM CaptureInvariant ==
    ASSUME NoLookAlike
    PROVE  CaptureSpec => []CaptureInv
<1>1. CaptureInit => CaptureInv
    BY CaptureInitInv
<1>2. CaptureInv /\ [CaptureNext]_captureVars => CaptureInv'
    BY CaptureStepInv
<1>. QED  BY <1>1, <1>2, PTL DEF CaptureSpec

\* An image handed out while no trailer was lost is one whole frame of the sensor
\* (camera.go:152, 450-451, main.c:31-33).
THEOREM OneFrameOnly ==
    ASSUME NoLookAlike, FewFrames
    PROVE  CaptureSpec => []WholeFrame
<1>1. CaptureInit => WholeFrame
    BY DEF CaptureInit, Init, WholeFrame, Delivered
<1>2. CaptureInv /\ WholeFrame /\ [CaptureNext]_captureVars => WholeFrame'
    BY WholeStep DEF CaptureInv
<1>. QED  BY CaptureInvariant, <1>1, <1>2, PTL DEF CaptureSpec

\* What is left to read when Settle returns, on the host or in the device, and the image
\* of Snap, is never of the frame in progress when Start was called, nor of the one after
\* it (camera.go:524-536).
THEOREM SettlesFresh ==
    ASSUME NoLookAlike
    PROVE  CaptureSpec => SettledIsFresh
<1>1. ASSUME CaptureInv, CaptureNext, call' = "none", result' = "nil"
      PROVE  /\ call = "Settle" =>
                   /\ \A s \in Unread' : \A i \in 1 .. Len(s) : s[i][1] >= startedAt + 2
                   /\ frame' >= startedAt + 2
             /\ call = "Snap" =>
                   \A i \in 1 .. Len(image') : image'[i][1] >= startedAt + 2
    <2>1. WireInv /\ AgeInv /\ [Next]_vars /\ Inv
        BY <1>1, IsReaderStep DEF CaptureInv, WireInv, MappedInv
    <2>2. call \in {"Settle", "Snap"} => ReadValid
        BY <1>1, <2>1, ReturnsNil DEF vars
    <2>3. call \in {"Settle", "Snap"} => UNCHANGED device
        BY <1>1, <2>1, <2>2, ValidKeeps
    <2>. QED  BY <2>1, <2>2, <2>3, FreshImage, FreshUnread
<1>2. CaptureInv /\ [CaptureNext]_captureVars =>
        [(call' = "none" /\ result' = "nil") =>
            /\ call = "Settle" =>
                  /\ \A s \in Unread' : \A i \in 1 .. Len(s) : s[i][1] >= startedAt + 2
                  /\ frame' >= startedAt + 2
            /\ call = "Snap" =>
                  \A i \in 1 .. Len(image') : image'[i][1] >= startedAt + 2]_captureVars
    BY <1>1
<1>. QED  BY CaptureInvariant, <1>2, PTL DEF CaptureSpec, SettledIsFresh

\* Settled, and with no byte lost, the reader rejects no frame (camera.go:466-504).
THEOREM RejectsForAReason ==
    ASSUME NoLookAlike
    PROVE  CaptureSpec => NoFalseAlarm
<1>1. CaptureInv /\ [CaptureNext]_captureVars =>
        [(ReadRejected \/ ReadRejectedAgain) => ~(intact /\ synced)]_captureVars
    <2>1. CaptureInv /\ (ReadRejected \/ ReadRejectedAgain) => ~(intact /\ synced)
        BY InPlace DEF CaptureInv, ReadRejected, ReadRejectedAgain
    <2>. QED  BY <2>1
<1>. QED  BY CaptureInvariant, <1>1, PTL DEF CaptureSpec, NoFalseAlarm

=============================================================================
