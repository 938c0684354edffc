--------------------------- MODULE FrameReaderProofs ---------------------------
(***************************************************************************)
(* Proofs about FrameReader, for every wire, magic, frame and chunk size.  *)
(*                                                                         *)
(* Part 1 is about sequences and markers, part 2 about take, part 3 the    *)
(* inductive invariant, part 4 the theorems, part 5 the refinement.        *)
(***************************************************************************)
EXTENDS FrameReader, SequenceTheorems, TLAPS

-----------------------------------------------------------------------------
(* Part 1: ends of sequences, and markers in them.                           *)

LEMMA WireFrameNat ==
    /\ WireFrame \in Nat
    /\ FrameBytes \in Nat
    /\ FrameTrailer \in Nat
    /\ FrameBytes >= 1
    /\ FrameTrailer >= 1
    /\ WireFrame = FrameBytes + FrameTrailer
BY ReaderAssumption DEF ReaderAssumption, WireFrame

LEMMA ChunksAreSeqs ==
    ASSUME NEW n \in Int, NEW chunk \in Chunks(n)
    PROVE  /\ chunk \in Seq(Byte)
           /\ Len(chunk) \in 1 .. n
<1>1. PICK k \in 1 .. n : chunk \in [1 .. k -> Byte]
    BY DEF Chunks
<1>2. chunk \in Seq(Byte) /\ Len(chunk) = k
    BY <1>1
<1>. QED  BY <1>2

LEMMA Associative ==
    \A s, t, u \in Seq(Byte) : (s \o t) \o u = s \o (t \o u)
BY ConcatAssociative

LEMMA Closed ==
    ASSUME NEW s \in Seq(Byte), NEW t \in Seq(Byte)
    PROVE  s \o t \in Seq(Byte)
BY ConcatProperties

\* (An operator, so that the lemma is applied without unfolding concatenations.)
SameBytes(a, b, c, d, e) ==
    ((a \o b) \o (c \o d)) \o e = (a \o c) \o ((b \o d) \o e)

\* Bytes keep their order when a chunk goes to the pixels or to the trailer, but
\* not to the pixels of a frame whose trailer has begun.
LEMMA Regroup ==
    ASSUME NEW a \in Seq(Byte), NEW b \in Seq(Byte), NEW c \in Seq(Byte),
           NEW d \in Seq(Byte), NEW e \in Seq(Byte),
           b = <<>> \/ c = <<>>
    PROVE  SameBytes(a, b, c, d, e)
<1>1. a \o <<>> = a /\ <<>> \o d = d
    BY ConcatEmptySeq
<1>2. (a \o b) \o (c \o d) = (a \o c) \o (b \o d)
    <2>1. CASE b = <<>>
        <3>1. (a \o b) \o (c \o d) = a \o (c \o d)
            BY <1>1, <2>1
        <3>2. (a \o c) \o (b \o d) = (a \o c) \o d
            BY <1>1, <2>1
        <3>3. (a \o c) \o d = a \o (c \o d)
            BY Associative
        <3>. QED  BY <3>1, <3>2, <3>3
    <2>2. CASE c = <<>>
        <3>1. (a \o b) \o (c \o d) = (a \o b) \o d
            BY <1>1, <2>2
        <3>2. (a \o c) \o (b \o d) = a \o (b \o d)
            BY <1>1, <2>2
        <3>3. (a \o b) \o d = a \o (b \o d)
            BY Associative
        <3>. QED  BY <3>1, <3>2, <3>3
    <2>. QED  BY <2>1, <2>2
<1>3. a \o c \in Seq(Byte) /\ b \o d \in Seq(Byte)
    BY Closed
<1>4. ((a \o c) \o (b \o d)) \o e = (a \o c) \o ((b \o d) \o e)
    BY ONLY <1>3, e \in Seq(Byte), Associative, SMTT(30)
<1>. QED  BY <1>2, <1>4 DEF SameBytes

\* What From returns.
LEMMA FromProperties ==
    ASSUME NEW s \in Seq(Byte), NEW c \in 0 .. Len(s)
    PROVE  /\ From(s, c + 1) \in Seq(Byte)
           /\ Len(From(s, c + 1)) = Len(s) - c
           /\ \A i \in 1 .. Len(s) - c : From(s, c + 1)[i] = s[c + i]
BY SubSeqProperties DEF From

\* The end of an end.
LEMMA FromFrom ==
    ASSUME NEW s \in Seq(Byte), NEW c \in 0 .. Len(s), NEW d \in 0 .. Len(s) - c
    PROVE  From(From(s, c + 1), d + 1) = From(s, c + d + 1)
<1>1. /\ From(s, c + 1) \in Seq(Byte)
      /\ Len(From(s, c + 1)) = Len(s) - c
      /\ \A i \in 1 .. Len(s) - c : From(s, c + 1)[i] = s[c + i]
    BY FromProperties
<1>2. /\ From(From(s, c + 1), d + 1) \in Seq(Byte)
      /\ Len(From(From(s, c + 1), d + 1)) = Len(s) - c - d
      /\ \A i \in 1 .. Len(s) - c - d :
            From(From(s, c + 1), d + 1)[i] = From(s, c + 1)[d + i]
    <2> DEFINE u == From(s, c + 1)
    <2>1. u \in Seq(Byte) /\ Len(u) = Len(s) - c /\ d \in 0 .. Len(u)
        BY <1>1
    <2> HIDE DEF u
    <2>2. /\ From(u, d + 1) \in Seq(Byte)
          /\ Len(From(u, d + 1)) = Len(u) - d
          /\ \A i \in 1 .. Len(u) - d : From(u, d + 1)[i] = u[d + i]
        BY <2>1, FromProperties
    <2>. QED  BY <2>1, <2>2 DEF u
<1>3. /\ From(s, (c + d) + 1) \in Seq(Byte)
      /\ Len(From(s, (c + d) + 1)) = Len(s) - (c + d)
      /\ \A i \in 1 .. Len(s) - (c + d) : From(s, (c + d) + 1)[i] = s[(c + d) + i]
    <2>1. c + d \in 0 .. Len(s)
        BY LenProperties
    <2>. QED  BY <2>1, FromProperties
<1>4. \A i \in 1 .. Len(s) - c - d :
          From(From(s, c + 1), d + 1)[i] = From(s, (c + d) + 1)[i]
    <2>. SUFFICES ASSUME NEW i \in 1 .. Len(s) - c - d
                  PROVE  From(From(s, c + 1), d + 1)[i] = From(s, (c + d) + 1)[i]
        OBVIOUS
    <2>1. d + i \in 1 .. Len(s) - c /\ i \in 1 .. Len(s) - (c + d)
        BY LenProperties
    <2>2. From(s, c + 1)[d + i] = s[c + (d + i)]
        BY <1>1, <2>1
    <2>3. c + (d + i) = (c + d) + i
        BY <2>1
    <2>. QED  BY <1>2, <1>3, <2>1, <2>2, <2>3
<1>5. c + d + 1 = (c + d) + 1 /\ Len(s) - c - d = Len(s) - (c + d)
    BY LenProperties
<1>. QED  BY <1>2, <1>3, <1>4, <1>5, SeqEqual

\* The end of a concatenation.
LEMMA FromConcat ==
    ASSUME NEW s \in Seq(Byte), NEW t \in Seq(Byte), NEW c \in 0 .. Len(s)
    PROVE  From(s \o t, c + 1) = From(s, c + 1) \o t
<1>1. /\ s \o t \in Seq(Byte)
      /\ Len(s \o t) = Len(s) + Len(t)
      /\ \A i \in 1 .. Len(s) + Len(t) :
            (s \o t)[i] = IF i <= Len(s) THEN s[i] ELSE t[i - Len(s)]
    BY ConcatProperties
<1>2. /\ From(s, c + 1) \in Seq(Byte)
      /\ Len(From(s, c + 1)) = Len(s) - c
      /\ \A i \in 1 .. Len(s) - c : From(s, c + 1)[i] = s[c + i]
    BY FromProperties
<1>3. c \in 0 .. Len(s \o t)
    BY <1>1, LenProperties
<1>4. /\ From(s \o t, c + 1) \in Seq(Byte)
      /\ Len(From(s \o t, c + 1)) = Len(s) + Len(t) - c
      /\ \A i \in 1 .. Len(s) + Len(t) - c : From(s \o t, c + 1)[i] = (s \o t)[c + i]
    <2> DEFINE u == s \o t
    <2>1. u \in Seq(Byte) /\ Len(u) = Len(s) + Len(t) /\ c \in 0 .. Len(u)
        BY <1>1, <1>3
    <2> HIDE DEF u
    <2>2. /\ From(u, c + 1) \in Seq(Byte)
          /\ Len(From(u, c + 1)) = Len(u) - c
          /\ \A i \in 1 .. Len(u) - c : From(u, c + 1)[i] = u[c + i]
        BY <2>1, FromProperties
    <2>. QED  BY <2>1, <2>2 DEF u
<1>5. /\ From(s, c + 1) \o t \in Seq(Byte)
      /\ Len(From(s, c + 1) \o t) = Len(s) - c + Len(t)
      /\ \A i \in 1 .. Len(s) - c + Len(t) :
            (From(s, c + 1) \o t)[i] =
                IF i <= Len(s) - c THEN From(s, c + 1)[i] ELSE t[i - (Len(s) - c)]
    <2> DEFINE u == From(s, c + 1)
    <2>1. u \in Seq(Byte) /\ Len(u) = Len(s) - c
        BY <1>2
    <2> HIDE DEF u
    <2>2. /\ u \o t \in Seq(Byte)
          /\ Len(u \o t) = Len(u) + Len(t)
          /\ \A i \in 1 .. Len(u) + Len(t) :
                (u \o t)[i] = IF i <= Len(u) THEN u[i] ELSE t[i - Len(u)]
        BY <2>1, ConcatProperties
    <2>. QED  BY <2>1, <2>2 DEF u
<1>6. Len(s) + Len(t) - c = Len(s) - c + Len(t)
    BY LenProperties
<1>7. \A i \in 1 .. Len(s) - c + Len(t) :
          From(s \o t, c + 1)[i] = (From(s, c + 1) \o t)[i]
    <2>. SUFFICES ASSUME NEW i \in 1 .. Len(s) - c + Len(t)
                  PROVE  From(s \o t, c + 1)[i] = (From(s, c + 1) \o t)[i]
        OBVIOUS
    <2>1. Len(s) \in Nat /\ Len(t) \in Nat
        BY LenProperties
    <2>2. From(s \o t, c + 1)[i] = (s \o t)[c + i] /\ c + i \in 1 .. Len(s) + Len(t)
        BY <1>4, <1>6, <2>1
    <2>3. CASE i <= Len(s) - c
        <3>1. i \in 1 .. Len(s) - c /\ c + i <= Len(s)
            BY <2>1, <2>3
        <3>. QED  BY <1>1, <1>2, <1>5, <2>2, <2>3, <3>1
    <2>4. CASE ~(i <= Len(s) - c)
        <3>1. ~(c + i <= Len(s)) /\ (c + i) - Len(s) = i - (Len(s) - c)
            BY <2>1, <2>4
        <3>. QED  BY <1>1, <1>5, <2>2, <2>4, <3>1
    <2>. QED  BY <2>3, <2>4
<1>. QED  BY <1>4, <1>5, <1>6, <1>7, SeqEqual

\* Bytes that arrive later do not change what a whole trailer says.
LEMMA MarkerInPrefix ==
    ASSUME NEW s \in Seq(Byte), NEW t \in Seq(Byte), NEW i \in Nat \ {0},
           i + FrameTrailer - 1 <= Len(s)
    PROVE  MarkerAt(s \o t, i) <=> MarkerAt(s, i)
<1>1. /\ Len(Magic) \in 1 .. FrameTrailer
      /\ FrameTrailer \in Nat
      /\ Len(s) \in Nat /\ Len(t) \in Nat
    BY ReaderAssumption, LenProperties DEF ReaderAssumption
<1>2. /\ Len(s \o t) = Len(s) + Len(t)
      /\ \A k \in 1 .. Len(s) + Len(t) :
            (s \o t)[k] = IF k <= Len(s) THEN s[k] ELSE t[k - Len(s)]
    BY ConcatProperties
<1>3. i + FrameTrailer - 1 <= Len(s \o t)
    BY <1>1, <1>2
<1>4. \A k \in 1 .. Len(Magic) : (s \o t)[i + k - 1] = s[i + k - 1]
    <2>. SUFFICES ASSUME NEW k \in 1 .. Len(Magic)
                  PROVE  (s \o t)[i + k - 1] = s[i + k - 1]
        OBVIOUS
    <2>1. i + k - 1 \in 1 .. Len(s) + Len(t) /\ i + k - 1 <= Len(s)
        BY <1>1
    <2>. QED  BY <1>2, <2>1
<1>. QED  BY <1>3, <1>4 DEF MarkerAt

\* A marker in the end of s is that marker of s.
LEMMA MarkerInSuffix ==
    ASSUME NEW s \in Seq(Byte), NEW c \in 0 .. Len(s), NEW i \in Nat \ {0}
    PROVE  MarkerAt(From(s, c + 1), i) <=> MarkerAt(s, c + i)
<1>1. /\ Len(Magic) \in 1 .. FrameTrailer
      /\ FrameTrailer \in Nat
      /\ Len(s) \in Nat
    BY ReaderAssumption, LenProperties DEF ReaderAssumption
<1>2. /\ Len(From(s, c + 1)) = Len(s) - c
      /\ \A k \in 1 .. Len(s) - c : From(s, c + 1)[k] = s[c + k]
    BY FromProperties
<1>3. i + FrameTrailer - 1 <= Len(From(s, c + 1)) <=> c + i + FrameTrailer - 1 <= Len(s)
    BY <1>1, <1>2
<1>4. ASSUME i + FrameTrailer - 1 <= Len(From(s, c + 1)), NEW k \in 1 .. Len(Magic)
      PROVE  From(s, c + 1)[i + k - 1] = s[c + i + k - 1]
    <2>1. i + k - 1 \in 1 .. Len(s) - c /\ c + (i + k - 1) = c + i + k - 1
        BY <1>1, <1>2, <1>4
    <2>. QED  BY <1>2, <2>1
<1>. QED  BY <1>3, <1>4 DEF MarkerAt

-----------------------------------------------------------------------------
(* Part 2: take.                                                             *)

\* What is copied never exceeds what is there or what is missing.
LEMMA RoomAndPixels ==
    ASSUME NEW src \in Seq(Byte), NEW got \in 0 .. WireFrame
    PROVE  /\ Room(got, src) \in 0 .. Len(src)
           /\ Room(got, src) <= WireFrame - got
           /\ Room(got, src) < WireFrame - got => Room(got, src) = Len(src)
           /\ Pixels(got, src) \in 0 .. Room(got, src)
           /\ got < FrameBytes => Pixels(got, src) <= FrameBytes - got
           /\ got < FrameBytes /\ Pixels(got, src) < FrameBytes - got
                => Pixels(got, src) = Room(got, src)
           /\ got >= FrameBytes => Pixels(got, src) = 0
<1>1. Len(src) \in Nat
    BY LenProperties
<1>2. /\ Room(got, src) \in 0 .. Len(src)
      /\ Room(got, src) <= WireFrame - got
      /\ Room(got, src) < WireFrame - got => Room(got, src) = Len(src)
    BY <1>1, WireFrameNat DEF Room, Smaller
<1>. QED  BY <1>1, <1>2, WireFrameNat DEF Pixels, Smaller

\* The state of a frame in progress: pixels first, then the trailer.
InProgress(img, trl) ==
    /\ img \in Seq(Byte)
    /\ trl \in Seq(Byte)
    /\ Len(img) <= FrameBytes
    /\ Len(img) + Len(trl) <= WireFrame
    /\ trl # <<>> => Len(img) = FrameBytes

\* Take, as a relation between the frame before, a chunk, and the frame after.
Taken(img, trl, src, img2, trl2, rest) ==
    LET got == Len(img) + Len(trl)
        room == Room(got, src)
        pixels == Pixels(got, src)
    IN  /\ img2 = img \o SubSeq(src, 1, pixels)
        /\ trl2 = trl \o SubSeq(src, pixels + 1, room)
        /\ rest = From(src, room + 1)

NoneLost(img, trl, src, img2, trl2, rest) ==
    img2 \o trl2 \o rest = img \o trl \o src

\* Any chunk is split between pixels, trailer and read-ahead without loss,
\* repetition or reordering.
LEMMA TakeSplits ==
    ASSUME NEW img, NEW trl, InProgress(img, trl), NEW src \in Seq(Byte),
           NEW img2, NEW trl2, NEW rest, Taken(img, trl, src, img2, trl2, rest)
    PROVE  /\ InProgress(img2, trl2)
           /\ rest \in Seq(Byte)
           /\ NoneLost(img, trl, src, img2, trl2, rest)
           /\ Len(img2) + Len(trl2) < WireFrame => rest = <<>>
<1> DEFINE got == Len(img) + Len(trl)
           room == Room(got, src)
           pixels == Pixels(got, src)
           p == SubSeq(src, 1, pixels)
           t == SubSeq(src, pixels + 1, room)
           r == From(src, room + 1)
<1>1. /\ Len(img) \in Nat /\ Len(trl) \in Nat /\ Len(src) \in Nat
      /\ got \in 0 .. WireFrame
      /\ img \in Seq(Byte) /\ trl \in Seq(Byte)
    BY LenProperties, WireFrameNat DEF InProgress
<1>2. /\ room \in 0 .. Len(src)
      /\ room <= WireFrame - got
      /\ room < WireFrame - got => room = Len(src)
      /\ pixels \in 0 .. room
      /\ got < FrameBytes => pixels <= FrameBytes - got
      /\ got < FrameBytes /\ pixels < FrameBytes - got => pixels = room
      /\ got >= FrameBytes => pixels = 0
    BY <1>1, RoomAndPixels
<1>3. img2 = img \o p /\ trl2 = trl \o t /\ rest = r
    BY DEF Taken
<1> HIDE DEF got, room, pixels
<1>4. p \in Seq(Byte) /\ Len(p) = pixels
    <2>1. \A i \in 1 .. pixels : src[i] \in Byte
        BY <1>1, <1>2, ElementOfSeq
    <2>. QED  BY <1>2, <2>1, SubSeqProperties
<1>5. t \in Seq(Byte) /\ Len(t) = room - pixels
    <2>1. \A i \in pixels + 1 .. room : src[i] \in Byte
        BY <1>1, <1>2, ElementOfSeq
    <2>. QED  BY <1>2, <2>1, SubSeqProperties
<1>6. r \in Seq(Byte) /\ Len(r) = Len(src) - room
    BY <1>2, FromProperties
<1> HIDE DEF p, t, r
<1>7. /\ img2 \in Seq(Byte) /\ Len(img2) = Len(img) + pixels
      /\ trl2 \in Seq(Byte) /\ Len(trl2) = Len(trl) + (room - pixels)
    BY <1>1, <1>3, <1>4, <1>5, ConcatProperties
<1>8. p \o t \o r = src
    <2>1. /\ 1 \in 1 .. Len(src) + 1
          /\ pixels \in 1 - 1 .. Len(src)
          /\ room \in pixels .. Len(src)
          /\ room \in 1 - 1 .. Len(src)
          /\ Len(src) \in room .. Len(src)
        BY <1>1, <1>2
    <2>2. p \o t = SubSeq(src, 1, room)
        BY <2>1, ConcatAdjacentSubSeq, Zenon DEF p, t
    <2>3. SubSeq(src, 1, room) \o r = SubSeq(src, 1, Len(src))
        BY <2>1, ConcatAdjacentSubSeq, Zenon DEF From, r
    <2>. QED  BY <2>2, <2>3, SubSeqFull
<1>0. /\ img \in Seq(Byte) /\ trl \in Seq(Byte)
     /\ p \in Seq(Byte) /\ t \in Seq(Byte) /\ r \in Seq(Byte)
    BY <1>1, <1>4, <1>5, <1>6
<1>9. pixels > 0 => trl = <<>>
    BY <1>1, <1>2, WireFrameNat DEF InProgress, got
<1>10. img2 \o trl2 \o rest = img \o trl \o src
    <2>1. p = <<>> \/ trl = <<>>
        BY <1>2, <1>9, SubSeqEmpty DEF p
    <2>2. SameBytes(img, p, trl, t, r)
        BY <1>0, <2>1, Regroup
    <2>. QED  BY <1>3, <1>8, <2>2 DEF SameBytes
<1>11. InProgress(img2, trl2)
    <2>1. Len(img2) <= FrameBytes /\ Len(img2) + Len(trl2) <= WireFrame
        BY <1>1, <1>2, <1>7, WireFrameNat DEF InProgress, got
    <2>2. trl2 # <<>> => Len(img2) = FrameBytes
        <3>. SUFFICES ASSUME trl2 # <<>>
                      PROVE  Len(img2) = FrameBytes
            OBVIOUS
        <3>1. Len(trl2) > 0
            BY <1>7, EmptySeq
        <3>2. CASE trl # <<>>
            BY <1>1, <1>2, <1>7, <1>9, <3>2, WireFrameNat DEF InProgress
        <3>3. CASE trl = <<>>
            <4>1. Len(trl) = 0 /\ got = Len(img) /\ room > pixels
                BY <1>1, <1>2, <1>7, <3>1, <3>3 DEF got
            <4>2. CASE got < FrameBytes
                BY <1>1, <1>2, <1>7, <4>1, <4>2, WireFrameNat
            <4>3. CASE got >= FrameBytes
                BY <1>1, <1>2, <1>7, <4>1, <4>3, WireFrameNat DEF InProgress
            <4>. QED  BY <1>1, <4>2, <4>3, WireFrameNat
        <3>. QED  BY <3>2, <3>3
    <2>. QED  BY <1>7, <2>1, <2>2 DEF InProgress
<1>12. Len(img2) + Len(trl2) < WireFrame => rest = <<>>
    <2>. SUFFICES ASSUME Len(img2) + Len(trl2) < WireFrame
                  PROVE  rest = <<>>
        OBVIOUS
    <2>1. room = Len(src)
        BY <1>1, <1>2, <1>7, WireFrameNat DEF got
    <2>. QED  BY <1>1, <1>3, <2>1, SubSeqEmpty DEF From, r
<1>. QED  BY <1>3, <1>6, <1>10, <1>11, <1>12 DEF NoneLost

-----------------------------------------------------------------------------
(* Part 3: the inductive invariant.                                          *)

(* Contiguous and OnlyValidated say nothing of a frame's shape, and NothingSkipped
   lets the cut reach into a trailer that is not whole yet; neither is inductive
   without that.                                                             *)

\* A step belongs to a call, and Start is after no image.
CallShape ==
    /\ call = "none" <=> step = "none"
    /\ call = "Start" => goal = "none"

\* A frame being read is in progress.
ReadShape == step = "read" => InProgress(image, trail)

\* What has been cut while scanning leaves the room of an unfinished trailer.
ScanShape ==
    step = "scan" =>
        (Len(fed) > Len(scan) => Len(scan) >= FrameTrailer - 1)

Inv ==
    /\ TypeOK
    /\ CallShape
    /\ ReadShape
    /\ Contiguous
    /\ ScanShape
    /\ NothingSkipped
    /\ OnlyValidated

\* A whole wire frame holds all its pixels.
LEMMA WholeWireFrame ==
    ASSUME InProgress(image, trail), Len(image) + Len(trail) = WireFrame
    PROVE  /\ Len(image) = FrameBytes
           /\ Len(trail) = FrameTrailer
<1>1. Len(image) \in Nat /\ Len(trail) \in Nat
    BY LenProperties DEF InProgress
<1>2. trail # <<>>
    BY <1>1, WireFrameNat, EmptySeq DEF InProgress
<1>. QED  BY <1>1, <1>2, WireFrameNat DEF InProgress

\* readFrame starts in a good state, whatever it was left to read first.
LEMMA EnterReadOk ==
    ASSUME NEW c \in Seq(Byte), EnterRead(c)
    PROVE  /\ step' = "read"
           /\ carry' \in Seq(Byte) /\ scan' \in Seq(Byte) /\ image' \in Seq(Byte)
           /\ trail' \in Seq(Byte) /\ fed' \in Seq(Byte)
           /\ ReadShape' /\ Contiguous' /\ ScanShape' /\ NothingSkipped'
<1>1. InProgress(<<>>, <<>>)
    BY WireFrameNat, EmptySeq DEF InProgress
<1>2. Taken(<<>>, <<>>, c, image', trail', carry')
    BY DEF EnterRead, Take, Taken
<1>3. /\ InProgress(image', trail')
      /\ carry' \in Seq(Byte)
      /\ NoneLost(<<>>, <<>>, c, image', trail', carry')
      /\ Len(image') + Len(trail') < WireFrame => carry' = <<>>
    BY <1>1, <1>2, TakeSplits
<1>4. <<>> \o <<>> \o c = c
    BY ConcatEmptySeq
<1>5. step' = "read" /\ fed' = c /\ scan' = <<>>
    BY DEF EnterRead
<1>6. ReadShape'
    BY <1>3 DEF ReadShape, InProgress
<1>7. Contiguous'
    BY <1>3, <1>4, <1>5 DEF Contiguous, Got, InProgress, NoneLost
<1>. QED  BY <1>3, <1>5, <1>6, <1>7 DEF InProgress, ScanShape, NothingSkipped

\* settleOnce starts in a good state.
LEMMA EnterScanOk ==
    ASSUME NEW c \in Seq(Byte), EnterScan(c)
    PROVE  /\ step' = "scan" /\ polls' \in 1 .. MaxPolls
           /\ carry' \in Seq(Byte) /\ scan' \in Seq(Byte) /\ image' \in Seq(Byte)
           /\ trail' \in Seq(Byte) /\ fed' \in Seq(Byte)
           /\ ReadShape' /\ Contiguous' /\ ScanShape' /\ NothingSkipped'
<1>1. /\ step' = "scan" /\ polls' \in 1 .. MaxPolls
      /\ scan' = c /\ fed' = c /\ carry' = <<>> /\ image' = <<>> /\ trail' = <<>>
    BY ReaderAssumption DEF EnterScan, ReaderAssumption
<1>2. Len(c) \in Nat /\ c = From(c, 1)
    BY LenProperties, SubSeqFull DEF From
<1>3. NothingSkipped'
    BY <1>1, <1>2 DEF NothingSkipped
<1>. QED  BY <1>1, <1>2, <1>3 DEF ReadShape, Contiguous, ScanShape

\* The invariant holds before the first call (camera.go:418-602).
THEOREM InitInv == Init => Inv
<1>. SUFFICES ASSUME Init
              PROVE  Inv
    OBVIOUS
<1>1. TypeOK
    <2>1. MaxPolls \in 1 .. MaxPolls /\ <<>> \in Seq(Byte)
        BY ReaderAssumption, EmptySeq DEF ReaderAssumption
    <2>. QED  BY <2>1 DEF Init, TypeOK
<1>. QED  BY <1>1 DEF Init, Inv, CallShape, ReadShape, Contiguous, ScanShape,
                  NothingSkipped, OnlyValidated

\* A call that returns keeps only its result, image and bytes.
LEMMA ReturnOk ==
    ASSUME Inv, NEW r \in {"nil", "misaligned", "io", "short"}, Return(r),
           UNCHANGED <<goal, rejected, rearmed, polls, scan, image, trail, fed>>,
           streaming' \in BOOLEAN, carry' \in Seq(Byte), OnlyValidated'
    PROVE  Inv'
<1>1. TypeOK'
    BY DEF Inv, TypeOK, Return
<1>. QED  BY <1>1 DEF Inv, Return, CallShape, ReadShape, Contiguous, ScanShape,
                  NothingSkipped

\* A call that returns an error hands out nothing.
LEMMA ErrorOk ==
    ASSUME Inv, NEW r \in {"misaligned", "io"}, Return(r), NEW c \in Seq(Byte), Leave(c),
           UNCHANGED <<goal, rejected, rearmed, polls, scan, image, trail, fed>>
    PROVE  Inv'
<1>1. streaming' \in BOOLEAN /\ carry' \in Seq(Byte)
    BY EmptySeq DEF Leave, Inv, TypeOK
<1>2. OnlyValidated'
    BY DEF Return, OnlyValidated
<1>. QED  BY <1>1, <1>2, ReturnOk

LEMMA FailureType ==
    ASSUME NEW e \in {"misaligned", "io"}
    PROVE  Failure(e) \in {"misaligned", "io"}
BY DEF Failure

-----------------------------------------------------------------------------
(* The caller.                                                               *)
LEMMA CallerInv ==
    ASSUME Inv, Caller
    PROVE  Inv'
<1>1. CASE CallStart
    <2>1. TypeOK'
        BY <1>1, EmptySeq DEF CallStart, Call, Forget, Inv, TypeOK
    <2>. QED  BY <1>1, <2>1 DEF CallStart, Call, Inv, CallShape, ReadShape, Contiguous,
                            ScanShape, NothingSkipped, OnlyValidated
<1>2. CASE CallSnap
    <2>1. TypeOK'
        BY <1>2, EmptySeq DEF CallSnap, Call, Forget, Inv, TypeOK
    <2>. QED  BY <1>2, <2>1 DEF CallSnap, Call, Inv, CallShape, ReadShape, Contiguous,
                            ScanShape, NothingSkipped, OnlyValidated
<1>3. CASE CallSettle
    <2>1. carry \in Seq(Byte) /\ EnterScan(carry)
        BY <1>3 DEF CallSettle, Inv, TypeOK
    <2>2. /\ call' = "Settle" /\ goal' = "boundary" /\ result' = "none"
          /\ rejected' = FALSE /\ rearmed' = FALSE /\ streaming' = streaming
        BY <1>3 DEF CallSettle, Call
    <2>3. TypeOK'
        BY <2>1, <2>2, EnterScanOk DEF Inv, TypeOK
    <2>4. CallShape' /\ OnlyValidated'
        BY <2>1, <2>2, EnterScanOk DEF CallShape, OnlyValidated
    <2>. QED  BY <2>1, <2>3, <2>4, EnterScanOk DEF Inv
<1>4. CASE CallFrame
    <2>1. carry \in Seq(Byte) /\ EnterRead(carry)
        BY <1>4 DEF CallFrame, Inv, TypeOK
    <2>2. /\ call' = "Frame" /\ goal' = "image" /\ result' = "none"
          /\ rejected' = FALSE /\ rearmed' = FALSE /\ streaming' = streaming
          /\ polls' = polls
        BY <1>4 DEF CallFrame, Call
    <2>3. TypeOK'
        BY <2>1, <2>2, EnterReadOk DEF Inv, TypeOK
    <2>4. CallShape' /\ OnlyValidated'
        BY <2>1, <2>2, EnterReadOk DEF CallShape, OnlyValidated
    <2>. QED  BY <2>1, <2>3, <2>4, EnterReadOk DEF Inv
<1>5. CASE CallFrameShort
    <2>1. TypeOK'
        BY <1>5 DEF CallFrameShort, Inv, TypeOK
    <2>. QED  BY <1>5, <2>1 DEF CallFrameShort, Inv, CallShape, ReadShape, Contiguous,
                            ScanShape, NothingSkipped, OnlyValidated
<1>6. CASE CallStop
    <2>1. TypeOK'
        BY <1>6, EmptySeq DEF CallStop, Forget, Inv, TypeOK
    <2>. QED  BY <1>6, <2>1 DEF CallStop, Forget, Inv, CallShape, ReadShape, Contiguous,
                            ScanShape, NothingSkipped, OnlyValidated
<1>. QED  BY <1>1, <1>2, <1>3, <1>4, <1>5, <1>6 DEF Caller

-----------------------------------------------------------------------------
(* Arming.                                                                   *)
LEMMA ArmInv ==
    ASSUME Inv, Arm
    PROVE  Inv'
<1>1. CASE ArmOk /\ call = "Start"
    <2>1. /\ Return("nil") /\ carry' = <<>> /\ streaming' = TRUE
          /\ UNCHANGED <<goal, rejected, rearmed, polls, scan, image, trail, fed>>
        BY <1>1 DEF ArmOk
    <2>2. OnlyValidated'
        BY <1>1, <2>1 DEF OnlyValidated, Inv, CallShape
    <2>. QED  BY <2>1, <2>2, ReturnOk, EmptySeq
<1>2. CASE ArmOk /\ call # "Start"
    <2>1. /\ EnterScan(<<>>) /\ streaming' = TRUE /\ call' = call /\ result' = result
          /\ UNCHANGED <<goal, rejected, rearmed>>
        BY <1>2 DEF ArmOk
    <2>2. call # "none"
        BY <1>2 DEF ArmOk, Inv, CallShape
    <2>3. TypeOK'
        BY <2>1, EnterScanOk, EmptySeq DEF Inv, TypeOK
    <2>4. CallShape' /\ OnlyValidated'
        BY <1>2, <2>1, <2>2, EnterScanOk, EmptySeq DEF CallShape, OnlyValidated
    <2>. QED  BY <2>1, <2>3, <2>4, EnterScanOk, EmptySeq DEF Inv
<1>3. CASE ArmFails
    <2>1. Failure("io") \in {"misaligned", "io"}
        BY FailureType
    <2>2. /\ Return(Failure("io")) /\ carry' = <<>> /\ streaming' \in BOOLEAN
          /\ UNCHANGED <<goal, rejected, rearmed, polls, scan, image, trail, fed>>
        BY <1>3 DEF ArmFails, Inv, TypeOK
    <2>3. OnlyValidated'
        BY <2>1, <2>2 DEF Return, OnlyValidated
    <2>. QED  BY <2>1, <2>2, <2>3, ReturnOk, EmptySeq
<1>. QED  BY <1>1, <1>2, <1>3 DEF Arm

-----------------------------------------------------------------------------
(* Reading a frame.                                                          *)

LEMMA PanicInv ==
    ASSUME Inv, Panic, call # "none"
    PROVE  Inv'
<1>1. TypeOK'
    BY DEF Panic, Inv, TypeOK
<1>. QED  BY <1>1 DEF Panic, Inv, CallShape, ReadShape, Contiguous, ScanShape,
                  NothingSkipped, OnlyValidated

LEMMA ReadDataInv ==
    ASSUME Inv, NEW chunk \in Seq(Byte), ReadData(chunk)
    PROVE  Inv'
<1>1. /\ step = "read" /\ step' = "read" /\ Got < WireFrame /\ fed' = fed \o chunk
      /\ Taken(image, trail, chunk, image', trail', carry')
      /\ UNCHANGED <<call, goal, rejected, rearmed, polls, streaming, scan, result>>
    BY DEF ReadData, Reading, Take, Taken
<1>2. /\ InProgress(image, trail)
      /\ fed = image \o trail \o carry
      /\ carry = <<>>
    BY <1>1 DEF Inv, ReadShape, Contiguous
<1>3. /\ InProgress(image', trail')
      /\ carry' \in Seq(Byte)
      /\ NoneLost(image, trail, chunk, image', trail', carry')
      /\ Len(image') + Len(trail') < WireFrame => carry' = <<>>
    BY <1>1, <1>2, TakeSplits
<1>4. fed = image \o trail /\ fed \in Seq(Byte)
    <2>1. image \o trail \in Seq(Byte)
        BY <1>2, Closed DEF InProgress
    <2>. QED  BY <1>2, <2>1, ConcatEmptySeq
<1>5. fed' = image' \o trail' \o carry'
    BY <1>1, <1>3, <1>4 DEF NoneLost
<1>6. fed' \in Seq(Byte)
    BY <1>1, <1>4, Closed
<1>7. TypeOK'
    BY <1>1, <1>3, <1>6 DEF Inv, TypeOK, InProgress
<1>8. Contiguous'
    BY <1>3, <1>5 DEF Contiguous, Got, InProgress
<1>. QED  BY <1>1, <1>3, <1>7, <1>8 DEF Inv, CallShape, ReadShape, ScanShape,
                  NothingSkipped, OnlyValidated, InProgress

\* What a whole wire frame that ends in a trailer hands out.
LEMMA ValidFrame ==
    ASSUME Inv, step = "read", Got = WireFrame
    PROVE  /\ image = SubSeq(fed, 1, FrameBytes)
           /\ trail \o carry = From(fed, FrameBytes + 1)
           /\ fed \in Seq(Byte) /\ FrameBytes \in 0 .. Len(fed)
           /\ HasMagic(trail) <=> MarkerAt(fed, FrameBytes + 1)
           /\ trail \o carry \in Seq(Byte)
<1>1. /\ InProgress(image, trail) /\ carry \in Seq(Byte)
      /\ image \in Seq(Byte) /\ trail \in Seq(Byte)
      /\ fed = image \o trail \o carry
    BY DEF Inv, ReadShape, Contiguous, InProgress, TypeOK
<1>2. Len(image) = FrameBytes /\ Len(trail) = FrameTrailer
    BY <1>1, WholeWireFrame DEF Got
<1> DEFINE rest == trail \o carry
<1>3. /\ rest \in Seq(Byte)
      /\ Len(rest) = Len(trail) + Len(carry)
    BY <1>1, ConcatProperties
<1>4. fed = image \o rest
    BY <1>1, Associative
<1> HIDE DEF rest
<1>5. /\ fed \in Seq(Byte)
      /\ Len(fed) = Len(image) + Len(rest)
    BY <1>1, <1>3, <1>4, ConcatProperties
<1>6. /\ FrameBytes \in 0 .. Len(fed)
      /\ FrameBytes \in 0 .. Len(image)
      /\ Len(carry) \in Nat
    BY <1>1, <1>2, <1>3, <1>5, WireFrameNat, LenProperties
<1>7. rest = From(fed, FrameBytes + 1)
    <2>1. From(image \o rest, FrameBytes + 1) = From(image, FrameBytes + 1) \o rest
        BY <1>1, <1>3, <1>6, FromConcat
    <2>2. From(image, FrameBytes + 1) = <<>>
        BY <1>2, <1>6, SubSeqEmpty DEF From
    <2>. QED  BY <1>3, <1>4, <2>1, <2>2, ConcatEmptySeq
<1>8. image = SubSeq(fed, 1, FrameBytes)
    <2>1. FrameBytes \in 1 .. Len(image) /\ 1 \in 1 .. Len(image)
        BY <1>2, WireFrameNat
    <2>2. SubSeq(image \o rest, 1, FrameBytes) = SubSeq(image, 1, FrameBytes)
        BY <1>1, <1>3, <2>1, SubSeqOfConcat1
    <2>. QED  BY <1>1, <1>2, <1>4, <2>2, SubSeqFull
<1>9. HasMagic(trail) <=> MarkerAt(fed, FrameBytes + 1)
    <2>1. MarkerAt(trail \o carry, 1) <=> MarkerAt(trail, 1)
        BY <1>1, <1>2, WireFrameNat, MarkerInPrefix
    <2>2. \A i \in Nat \ {0} :
              MarkerAt(From(fed, FrameBytes + 1), i) <=> MarkerAt(fed, FrameBytes + i)
        BY <1>5, <1>6, MarkerInSuffix
    <2>3. MarkerAt(From(fed, FrameBytes + 1), 1) <=> MarkerAt(fed, FrameBytes + 1)
        BY <2>2
    <2>. QED  BY <1>7, <2>1, <2>3 DEF HasMagic, rest
<1>. QED  BY <1>3, <1>5, <1>6, <1>7, <1>8, <1>9 DEF rest

LEMMA ReadInv ==
    ASSUME Inv, Read
    PROVE  Inv'
<1>1. ASSUME NEW chunk \in ReadChunks, ReadData(chunk)
      PROVE  Inv'
    <2>1. Smaller(WireFrame, MaxBulk) \in Int
        BY WireFrameNat, ReaderAssumption DEF Smaller, ReaderAssumption
    <2>2. chunk \in Seq(Byte)
        BY <2>1, ChunksAreSeqs DEF ReadChunks
    <2>. QED  BY <1>1, <2>2, ReadDataInv
<1>2. CASE ReadFails
    BY <1>2, FailureType, ErrorOk, EmptySeq DEF ReadFails
<1>3. CASE ReadTimeout
    <2>1. call # "none"
        BY <1>3 DEF ReadTimeout, Reading, Inv, CallShape
    <2>. QED  BY <1>2, <1>3, <2>1, PanicInv DEF ReadTimeout
<1>4. CASE ReadNextImage
    <2>1. /\ EnterRead(carry) /\ goal' = "image" /\ rejected' = FALSE
          /\ call = "Snap" /\ step = "read"
          /\ UNCHANGED <<call, rearmed, polls, streaming, result>>
        BY <1>4 DEF ReadNextImage
    <2>2. carry \in Seq(Byte)
        BY DEF Inv, TypeOK
    <2>3. TypeOK'
        BY <2>1, <2>2, EnterReadOk DEF Inv, TypeOK
    <2>4. CallShape' /\ OnlyValidated'
        BY <2>1, <2>2, EnterReadOk DEF CallShape, OnlyValidated
    <2>. QED  BY <2>1, <2>2, <2>3, <2>4, EnterReadOk DEF Inv
<1>5. CASE ReadValid
    <2>1. /\ step = "read" /\ Got = WireFrame /\ HasMagic(trail)
          /\ Return("nil") /\ Leave(carry)
          /\ UNCHANGED <<goal, rejected, rearmed, polls, scan, image, trail, fed>>
        BY <1>5 DEF ReadValid
    <2>2. streaming' \in BOOLEAN /\ carry' \in Seq(Byte)
        BY <2>1, EmptySeq DEF Leave, Inv, TypeOK
    <2>3. image = SubSeq(fed, 1, FrameBytes) /\ MarkerAt(fed, FrameBytes + 1)
        BY <2>1, ValidFrame
    <2>4. OnlyValidated'
        BY <2>1, <2>3 DEF OnlyValidated, MarkerAt
    <2>. QED  BY <2>1, <2>2, <2>4, ReturnOk
<1>6. CASE ReadRejected
    <2>1. /\ EnterScan(trail \o carry) /\ rejected' = TRUE /\ rearmed' = FALSE
          /\ step = "read"
          /\ UNCHANGED <<call, goal, streaming, result>>
        BY <1>6 DEF ReadRejected
    <2>2. trail \o carry \in Seq(Byte)
        BY Closed DEF Inv, TypeOK
    <2>3. TypeOK'
        BY <2>1, <2>2, EnterScanOk DEF Inv, TypeOK
    <2>4. CallShape' /\ OnlyValidated'
        BY <2>1, <2>2, EnterScanOk DEF Inv, CallShape, OnlyValidated
    <2>. QED  BY <2>1, <2>2, <2>3, <2>4, EnterScanOk DEF Inv
<1>7. CASE ReadRejectedAgain
    <2>1. trail \o carry \in Seq(Byte)
        BY Closed DEF Inv, TypeOK
    <2>. QED  BY <1>7, <2>1, ErrorOk DEF ReadRejectedAgain
<1>. QED  BY <1>1, <1>2, <1>3, <1>4, <1>5, <1>6, <1>7 DEF Read

-----------------------------------------------------------------------------
(* Scanning for a boundary.                                                  *)

\* What scanning knows of the bytes it has been given: where its buffer starts,
\* and that a marker it finds there is the first of them all.
LEMMA ScanCut ==
    ASSUME Inv, step = "scan"
    PROVE  \E cut \in 0 .. Len(fed) :
              /\ Len(scan) = Len(fed) - cut
              /\ scan = From(fed, cut + 1)
              /\ \A i \in 1 .. cut : ~MarkerAt(fed, i)
              /\ cut > 0 => Len(scan) >= FrameTrailer - 1
              /\ \A i \in Nat \ {0} : MarkerAt(scan, i) <=> MarkerAt(fed, cut + i)
<1> DEFINE cut == Len(fed) - Len(scan)
<1>1. fed \in Seq(Byte) /\ scan \in Seq(Byte) /\ Len(fed) \in Nat /\ Len(scan) \in Nat
    BY LenProperties DEF Inv, TypeOK
<1>2. /\ cut >= 0
      /\ scan = From(fed, cut + 1)
      /\ \A i \in 1 .. cut : ~MarkerAt(fed, i)
      /\ Len(fed) > Len(scan) => Len(scan) >= FrameTrailer - 1
    BY DEF Inv, NothingSkipped, ScanShape
<1>3. cut \in 0 .. Len(fed) /\ Len(scan) = Len(fed) - cut
      /\ (cut > 0 => Len(scan) >= FrameTrailer - 1)
    BY <1>1, <1>2
<1> HIDE DEF cut
<1>4. \A i \in Nat \ {0} : MarkerAt(scan, i) <=> MarkerAt(fed, cut + i)
    BY <1>1, <1>2, <1>3, MarkerInSuffix
<1>. QED  BY <1>2, <1>3, <1>4

\* Trimming keeps the bytes of the buffer where a trailer may still begin.
LEMMA TrimKeeps ==
    ASSUME NEW s \in Seq(Byte)
    PROVE  \E d \in 0 .. Len(s) :
              /\ MayStraddle(s) = From(s, d + 1)
              /\ d > 0 => d = Len(s) - (FrameTrailer - 1)
<1>1. Len(s) \in Nat
    BY LenProperties
<1>2. CASE Len(s) > FrameTrailer - 1
    <2>1. Len(s) - (FrameTrailer - 1) \in 0 .. Len(s)
        BY <1>1, <1>2, WireFrameNat
    <2>2. MayStraddle(s) = From(s, (Len(s) - (FrameTrailer - 1)) + 1)
        <3>1. Len(s) - FrameTrailer + 2 = (Len(s) - (FrameTrailer - 1)) + 1
            BY <1>1, WireFrameNat
        <3>. QED  BY <1>2, <3>1 DEF MayStraddle
    <2>. QED  BY <2>1, <2>2
<1>3. CASE ~(Len(s) > FrameTrailer - 1)
    <2>1. MayStraddle(s) = From(s, 0 + 1)
        BY <1>3, SubSeqFull DEF MayStraddle, From
    <2>. QED  BY <1>1, <2>1
<1>. QED  BY <1>2, <1>3

LEMMA ScanDataInv ==
    ASSUME Inv, NEW chunk \in Seq(Byte), ScanData(chunk)
    PROVE  Inv'
<1>1. /\ step = "scan" /\ step' = "scan" /\ ~HasMarker(scan)
      /\ polls > 1 /\ polls' = polls - 1
      /\ scan' = MayStraddle(scan) \o chunk
      /\ fed' = fed \o chunk
      /\ UNCHANGED <<call, goal, rejected, rearmed, streaming, carry, image, trail, result>>
    BY DEF ScanData, Scanning
<1>2. fed \in Seq(Byte) /\ scan \in Seq(Byte) /\ polls \in 1 .. MaxPolls
      /\ Len(fed) \in Nat /\ Len(scan) \in Nat /\ Len(chunk) \in Nat
    BY LenProperties DEF Inv, TypeOK
<1>3. PICK cut \in 0 .. Len(fed) :
              /\ Len(scan) = Len(fed) - cut
              /\ scan = From(fed, cut + 1)
              /\ \A i \in 1 .. cut : ~MarkerAt(fed, i)
              /\ cut > 0 => Len(scan) >= FrameTrailer - 1
              /\ \A i \in Nat \ {0} : MarkerAt(scan, i) <=> MarkerAt(fed, cut + i)
    BY <1>1, ScanCut
<1>4. PICK d \in 0 .. Len(scan) :
              /\ MayStraddle(scan) = From(scan, d + 1)
              /\ d > 0 => d = Len(scan) - (FrameTrailer - 1)
    BY <1>2, TrimKeeps
<1>5. cut + d \in 0 .. Len(fed) /\ d \in 0 .. Len(fed) - cut
    BY <1>2, <1>3, <1>4
<1>6. MayStraddle(scan) = From(fed, cut + d + 1)
    BY <1>2, <1>3, <1>4, <1>5, FromFrom
<1>7. scan' = From(fed', (cut + d) + 1)
    <2> DEFINE k == cut + d
    <2>1. k \in 0 .. Len(fed) /\ MayStraddle(scan) = From(fed, k + 1)
        BY <1>5, <1>6
    <2> HIDE DEF k
    <2>2. From(fed \o chunk, k + 1) = From(fed, k + 1) \o chunk
        BY <1>2, <2>1, FromConcat
    <2>. QED  BY <1>1, <2>1, <2>2 DEF k
<1>8. /\ fed' \in Seq(Byte)
      /\ Len(fed') = Len(fed) + Len(chunk)
    BY <1>1, <1>2, ConcatProperties
<1>9. /\ scan' \in Seq(Byte)
      /\ Len(scan') = Len(fed') - (cut + d)
    <2> DEFINE k == cut + d
               f == fed'
    <2>1. k \in 0 .. Len(f) /\ f \in Seq(Byte) /\ scan' = From(f, k + 1)
        BY <1>2, <1>5, <1>7, <1>8
    <2> HIDE DEF k, f
    <2>2. scan' \in Seq(Byte) /\ Len(scan') = Len(f) - k
        BY <2>1, FromProperties
    <2>. QED  BY <2>2 DEF k, f
<1>10. cut + d > 0 => (cut + d) + (FrameTrailer - 1) <= Len(fed)
    <2>1. /\ FrameTrailer \in Nat /\ Len(fed) \in Nat /\ Len(scan) \in Nat
          /\ cut \in Nat /\ d \in Nat
          /\ Len(scan) = Len(fed) - cut
          /\ d > 0 => d = Len(scan) - (FrameTrailer - 1)
          /\ cut > 0 => Len(scan) >= FrameTrailer - 1
        BY <1>2, <1>3, <1>4, WireFrameNat
    <2>. QED  BY ONLY <2>1
<1>11. ASSUME NEW i \in 1 .. cut + d
       PROVE  ~MarkerAt(fed', i)
    <2>1. i \in Nat \ {0} /\ i + FrameTrailer - 1 <= Len(fed)
        BY <1>2, <1>5, <1>10, WireFrameNat
    <2>2. MarkerAt(fed', i) <=> MarkerAt(fed, i)
        BY <1>1, <1>2, <2>1, MarkerInPrefix
    <2>3. CASE i <= cut
        BY <1>3, <2>1, <2>2, <2>3
    <2>4. CASE i > cut
        <3>1. i - cut \in Nat \ {0} /\ cut + (i - cut) = i /\ i - cut \in 1 .. Len(scan)
            BY <1>2, <1>3, <1>4, <2>1, <2>4
        <3>2. ~MarkerAt(scan, i - cut)
            BY <1>1, <3>1 DEF HasMarker
        <3>. QED  BY <1>3, <2>2, <3>1, <3>2
    <2>. QED  BY <1>2, <1>3, <2>1, <2>3, <2>4
<1>12. NothingSkipped'
    <2>1. Len(fed') - Len(scan') = cut + d
        BY <1>2, <1>5, <1>8, <1>9
    <2>. QED  BY <1>5, <1>7, <1>11, <2>1 DEF NothingSkipped
<1>13. ScanShape'
    BY <1>2, <1>5, <1>8, <1>9, <1>10, WireFrameNat DEF ScanShape
<1>14. TypeOK'
    <2>1. polls' \in 1 .. MaxPolls
        BY <1>1, <1>2, ReaderAssumption DEF ReaderAssumption
    <2>. QED  BY <1>1, <1>8, <1>9, <2>1 DEF Inv, TypeOK
<1>. QED  BY <1>1, <1>12, <1>13, <1>14 DEF Inv, CallShape, ReadShape, Contiguous,
                                          OnlyValidated

\* Where ScanFound takes the reader: behind the first trailer of all it was given.
LEMMA FoundFirst ==
    ASSUME Inv, ScanFound
    PROVE  \E i \in 1 .. Len(fed) :
              /\ FirstMarker(fed, i)
              /\ From(fed, i + FrameTrailer) \in Seq(Byte)
              /\ EnterRead(From(fed, i + FrameTrailer))
<1>1. step = "scan"
    BY DEF ScanFound
<1>2. PICK j \in 1 .. Len(scan) :
              /\ FirstMarker(scan, j)
              /\ EnterRead(From(scan, j + FrameTrailer))
    BY DEF ScanFound
<1>3. PICK cut \in 0 .. Len(fed) :
              /\ Len(scan) = Len(fed) - cut
              /\ scan = From(fed, cut + 1)
              /\ \A i \in 1 .. cut : ~MarkerAt(fed, i)
              /\ cut > 0 => Len(scan) >= FrameTrailer - 1
              /\ \A i \in Nat \ {0} : MarkerAt(scan, i) <=> MarkerAt(fed, cut + i)
    BY <1>1, ScanCut
<1>4. fed \in Seq(Byte) /\ scan \in Seq(Byte) /\ Len(fed) \in Nat /\ Len(scan) \in Nat
    BY LenProperties DEF Inv, TypeOK
<1>5. /\ MarkerAt(scan, j)
      /\ j + FrameTrailer - 1 <= Len(scan)
      /\ \A k \in 1 .. j - 1 : ~MarkerAt(scan, k)
    BY <1>2 DEF FirstMarker, MarkerAt
<1>6. cut + j \in 1 .. Len(fed)
    BY <1>2, <1>3, <1>4
<1>7. FirstMarker(fed, cut + j)
    <2>1. MarkerAt(fed, cut + j)
        BY <1>3, <1>5
    <2>2. ASSUME NEW i \in 1 .. (cut + j) - 1
          PROVE  ~MarkerAt(fed, i)
        <3>1. CASE i <= cut
            BY <1>3, <3>1
        <3>2. CASE i > cut
            <4>1. i - cut \in 1 .. j - 1 /\ i - cut \in Nat \ {0} /\ cut + (i - cut) = i
                BY <1>4, <3>2
            <4>. QED  BY <1>3, <1>5, <4>1
        <3>. QED  BY <1>4, <3>1, <3>2
    <2>. QED  BY <1>6, <2>1, <2>2 DEF FirstMarker
<1>8. /\ From(scan, j + FrameTrailer) = From(fed, (cut + j) + FrameTrailer)
      /\ From(fed, (cut + j) + FrameTrailer) \in Seq(Byte)
    <2> DEFINE d == j + FrameTrailer - 1
    <2>1. d \in 0 .. Len(fed) - cut /\ d + 1 = j + FrameTrailer
          /\ cut + d \in 0 .. Len(fed) /\ cut + d + 1 = (cut + j) + FrameTrailer
        BY <1>3, <1>4, <1>5, WireFrameNat
    <2> HIDE DEF d
    <2>2. From(From(fed, cut + 1), d + 1) = From(fed, cut + d + 1)
        BY <1>4, <2>1, FromFrom
    <2>3. From(fed, (cut + d) + 1) \in Seq(Byte)
        BY <1>4, <2>1, FromProperties
    <2>. QED  BY <1>3, <2>1, <2>2, <2>3
<1>. QED  BY <1>2, <1>6, <1>7, <1>8

LEMMA ScanFoundInv ==
    ASSUME Inv, ScanFound
    PROVE  Inv'
<1>1. PICK c \in Seq(Byte) : EnterRead(c)
    BY FoundFirst
<1>2. /\ step = "scan"
      /\ goal' = IF goal = "boundary" THEN "discard" ELSE goal
      /\ UNCHANGED <<call, rejected, rearmed, polls, streaming, result>>
    BY DEF ScanFound
<1>3. TypeOK'
    BY <1>1, <1>2, EnterReadOk DEF Inv, TypeOK
<1>4. CallShape' /\ OnlyValidated'
    BY <1>1, <1>2, EnterReadOk DEF Inv, CallShape, OnlyValidated
<1>. QED  BY <1>1, <1>3, <1>4, EnterReadOk DEF Inv

LEMMA NoBoundaryInv ==
    ASSUME Inv, Scanning, NoBoundary
    PROVE  Inv'
<1>1. step = "scan" /\ call # "none"
    BY DEF Scanning, Inv, CallShape
<1>2. CASE rearmed
    BY <1>2, ErrorOk, EmptySeq DEF NoBoundary
<1>3. CASE ~rearmed
    <2>1. /\ rearmed' = TRUE /\ step' = "arm" /\ carry' = <<>>
          /\ image' = <<>> /\ trail' = <<>> /\ scan' = <<>> /\ fed' = <<>>
          /\ UNCHANGED <<call, goal, rejected, polls, streaming, result>>
        BY <1>3 DEF NoBoundary, Forget
    <2>2. TypeOK'
        BY <2>1, EmptySeq DEF Inv, TypeOK
    <2>. QED  BY <1>1, <2>1, <2>2 DEF Inv, CallShape, ReadShape, Contiguous, ScanShape,
                                   NothingSkipped, OnlyValidated
<1>. QED  BY <1>2, <1>3

LEMMA ScanInv ==
    ASSUME Inv, Scan
    PROVE  Inv'
<1>1. CASE ScanFound
    BY <1>1, ScanFoundInv
<1>2. ASSUME NEW chunk \in ScanChunks, ScanData(chunk)
      PROVE  Inv'
    <2>1. Smaller(SettleChunk, MaxBulk) \in Int
        BY ReaderAssumption DEF Smaller, ReaderAssumption
    <2>2. chunk \in Seq(Byte)
        BY <2>1, ChunksAreSeqs DEF ScanChunks
    <2>. QED  BY <1>2, <2>2, ScanDataInv
<1>3. CASE ScanLate \/ ScanEmpty
    BY <1>3, NoBoundaryInv DEF ScanLate, ScanEmpty
<1>4. CASE ScanFails
    BY <1>4, FailureType, ErrorOk, EmptySeq DEF ScanFails
<1>5. CASE ScanTimeout
    <2>1. call # "none"
        BY <1>5 DEF ScanTimeout, Scanning, Inv, CallShape
    <2>. QED  BY <1>4, <1>5, <2>1, PanicInv DEF ScanTimeout
<1>. QED  BY <1>1, <1>2, <1>3, <1>4, <1>5 DEF Scan

LEMMA StutterInv ==
    ASSUME Inv, UNCHANGED vars
    PROVE  Inv'
<1>1. TypeOK'
    BY DEF vars, Inv, TypeOK
<1>2. Contiguous'
    BY DEF vars, Inv, Contiguous, Got
<1>3. NothingSkipped'
    BY DEF vars, Inv, NothingSkipped
<1>4. OnlyValidated'
    BY DEF vars, Inv, OnlyValidated, MarkerAt
<1>. QED  BY <1>1, <1>2, <1>3, <1>4 DEF vars, Inv, CallShape, ReadShape, ScanShape,
                                        InProgress

-----------------------------------------------------------------------------
(* Part 4: the theorems.                                                     *)

\* The inductive invariant holds of every behaviour of the reader.
THEOREM ReaderInvariant == Spec => []Inv
<1>1. Inv /\ [Next]_vars => Inv'
    BY CallerInv, ArmInv, ReadInv, ScanInv, StutterInv DEF Next, Progress
<1>. QED  BY InitInv, <1>1, PTL DEF Spec

\* The variables keep their types (camera.go:418-602).
THEOREM ReaderTypes == Spec => []TypeOK
<1>1. Inv => TypeOK
    BY DEF Inv
<1>. QED  BY ReaderInvariant, <1>1, PTL

\* However the stream is cut into reads, the pixels, trailer and read-ahead of a frame
\* are the bytes received, in order and each once (camera.go:475-495, 506-522).
THEOREM ReaderContiguous == Spec => []Contiguous
<1>1. Inv => Contiguous
    BY DEF Inv
<1>. QED  BY ReaderInvariant, <1>1, PTL

\* No read boundary hides a trailer from a scan (camera.go:561-570).
THEOREM ReaderSkipsNothing == Spec => []NothingSkipped
<1>1. Inv => NothingSkipped
    BY DEF Inv
<1>. QED  BY ReaderInvariant, <1>1, PTL

\* An image is handed out only with a trailer right behind its pixels on the wire
\* (camera.go:450-451, 497).
THEOREM ReaderOnlyValidated == Spec => []OnlyValidated
<1>1. Inv => OnlyValidated
    BY DEF Inv
<1>. QED  BY ReaderInvariant, <1>1, PTL

\* A resync ends behind the first trailer of everything received since it began
\* (camera.go:561-567).
THEOREM ReaderResyncs == Spec => ResyncFindsFirst
<1>1. ASSUME Inv, [Next]_vars, step = "scan", step' = "read"
      PROVE  \E i \in 1 .. Len(fed) :
                /\ FirstMarker(fed, i)
                /\ fed' = From(fed, i + FrameTrailer)
    <2>1. ScanFound
        BY <1>1 DEF Next, vars, Caller, CallStart, CallSnap, CallSettle, CallFrame,
                    CallFrameShort, CallStop, Call, EnterScan, Inv, CallShape, Progress,
                    Arm, ArmOk, ArmFails, Return, Read, ReadData, ReadFails, ReadTimeout,
                    Reading, Panic, ReadNextImage, ReadValid, ReadRejected,
                    ReadRejectedAgain, Scan, ScanData, ScanLate, ScanEmpty, NoBoundary,
                    ScanFails, ScanTimeout, Scanning
    <2>. QED  BY <1>1, <2>1, FoundFirst DEF EnterRead
<1>2. Inv /\ [Next]_vars =>
          [(step = "scan" /\ step' = "read") =>
              \E i \in 1 .. Len(fed) :
                 /\ FirstMarker(fed, i)
                 /\ fed' = From(fed, i + FrameTrailer)]_vars
    BY <1>1
<1>. QED  BY ReaderInvariant, <1>2, PTL DEF Spec, ResyncFindsFirst

\* A resync after a rejected frame is given every byte behind the rejected pixels
\* (camera.go:498-499).
THEOREM ReaderKeepsTail == Spec => RejectKeepsTail
<1>1. ASSUME Inv, [Next]_vars, step = "read", step' = "scan"
      PROVE  fed' = From(fed, FrameBytes + 1)
    <2>1. ReadRejected
        BY <1>1 DEF Next, vars, Caller, CallStart, CallSnap, CallSettle, CallFrame,
                    CallFrameShort, CallStop, Call, EnterRead, Inv, CallShape, Progress,
                    Arm, ArmOk, ArmFails, Return, Read, ReadData, ReadFails, ReadTimeout,
                    Panic, ReadNextImage, ReadValid, ReadRejectedAgain, Scan, ScanFound,
                    ScanData, ScanLate, ScanEmpty, NoBoundary, ScanFails, ScanTimeout,
                    Scanning
    <2>2. Got = WireFrame /\ fed' = trail \o carry
        BY <2>1 DEF ReadRejected, EnterScan
    <2>. QED  BY <1>1, <2>2, ValidFrame
<1>2. Inv /\ [Next]_vars =>
          [(step = "read" /\ step' = "scan") => fed' = From(fed, FrameBytes + 1)]_vars
    BY <1>1
<1>. QED  BY ReaderInvariant, <1>2, PTL DEF Spec, RejectKeepsTail

\* The read-ahead of a complete frame is what was received behind its trailer.
LEMMA BehindTheTrailer ==
    ASSUME Inv, step = "read", Got = WireFrame
    PROVE  carry = From(fed, WireFrame + 1)
<1>1. /\ InProgress(image, trail) /\ carry \in Seq(Byte)
      /\ image \in Seq(Byte) /\ trail \in Seq(Byte)
      /\ fed = image \o trail \o carry
    BY DEF Inv, ReadShape, Contiguous, InProgress, TypeOK
<1> DEFINE frame == image \o trail
<1>2. frame \in Seq(Byte) /\ Len(frame) = WireFrame
    BY <1>1, ConcatProperties DEF Got
<1> HIDE DEF frame
<1>3. WireFrame \in 0 .. Len(frame) /\ Len(frame) - WireFrame = 0
    BY <1>2, WireFrameNat
<1>4. From(frame \o carry, WireFrame + 1) = From(frame, WireFrame + 1) \o carry
    BY <1>1, <1>2, <1>3, FromConcat
<1>5. From(frame, WireFrame + 1) = <<>>
    BY <1>2, <1>3, FromProperties, EmptySeq
<1>6. <<>> \o carry = carry
    BY <1>1, ConcatEmptySeq
<1>. QED  BY <1>1, <1>4, <1>5, <1>6 DEF frame

\* Start does nothing but arm the scan.
StartOnlyArms == call = "Start" => step = "arm"

LEMMA StartArms == Spec => []StartOnlyArms
<1>1. Init => StartOnlyArms
    BY DEF Init, StartOnlyArms
<1>2. ASSUME StartOnlyArms, Next
      PROVE  StartOnlyArms'
    <2>1. CASE Caller
        BY <1>2, <2>1 DEF Caller, Call, CallStart, CallSnap, CallSettle, CallFrame,
                          CallFrameShort, CallStop, StartOnlyArms
    <2>2. CASE Arm
        BY <1>2, <2>2 DEF Arm, ArmOk, ArmFails, Return, StartOnlyArms
    <2>3. CASE Read
        BY <1>2, <2>3 DEF Read, ReadData, ReadFails, ReadTimeout, Reading, Panic,
                          ReadNextImage, ReadValid, ReadRejected, ReadRejectedAgain,
                          Return, StartOnlyArms
    <2>4. CASE Scan
        BY <1>2, <2>4 DEF Scan, ScanFound, ScanData, ScanLate, ScanEmpty, Scanning,
                          NoBoundary, ScanFails, ScanTimeout, Panic, Return, StartOnlyArms
    <2>. QED  BY <1>2, <2>1, <2>2, <2>3, <2>4 DEF Next, Progress
<1>3. StartOnlyArms /\ [Next]_vars => StartOnlyArms'
    BY <1>2 DEF vars, StartOnlyArms
<1>. QED  BY <1>1, <1>3, PTL DEF Spec

\* Whatever way a call returns, Stop included, the next one finds nothing read ahead
\* but what is behind the frame that was read last, and a re-arm scans from nothing
\* (camera.go:419, 434, 467-501, 560, 572-583, 593).
THEOREM ReaderLeavesReadAhead == Spec => OnlyReadAheadLeft
<1> DEFINE Left == \/ carry' = <<>>
                   \/ /\ call \in {"Settle", "Frame"}
                      /\ step = "read"
                      /\ \/ result' = "nil" /\ carry' = From(fed, WireFrame + 1)
                         \/ result' = "misaligned" /\ carry' = From(fed, FrameBytes + 1)
                   \/ result' = "short" /\ carry' = carry
<1>1. ASSUME Inv, StartOnlyArms, Next, call' = "none"
      PROVE  Left
    <2>1. CASE Caller
        BY <1>1, <2>1 DEF Caller, Call, CallStart, CallSnap, CallSettle, CallFrame,
                          CallFrameShort, CallStop
    <2>2. CASE Arm
        BY <1>1, <2>2 DEF Arm, ArmOk, ArmFails, Return, Inv, CallShape
    <2>3. CASE Read /\ ~ReadRejectedAgain /\ ~ReadValid
        BY <1>1, <2>3 DEF Read, ReadData, ReadFails, ReadTimeout, Reading, Panic,
                          ReadNextImage, ReadRejected, Return, Leave, Inv, CallShape
    <2>4. CASE ReadValid \/ ReadRejectedAgain
        <3>1. Got = WireFrame /\ step = "read" /\ call # "none"
            BY <1>1, <2>4 DEF ReadRejectedAgain, ReadValid, Inv, CallShape
        <3>2. CASE call = "Snap"
            BY <2>4, <3>2 DEF ReadRejectedAgain, ReadValid, Leave
        <3>3. CASE call # "Snap"
            <4>1. \/ result' = "nil" /\ carry' = carry
                  \/ result' = "misaligned" /\ carry' = trail \o carry
                BY <2>4, <3>3 DEF ReadRejectedAgain, ReadValid, Leave, Return
            <4>2. call \in {"Settle", "Frame"}
                BY <1>1, <3>1, <3>3 DEF Inv, TypeOK, StartOnlyArms
            <4>. QED  BY <1>1, <3>1, <4>1, <4>2, BehindTheTrailer, ValidFrame
        <3>. QED  BY <3>2, <3>3
    <2>5. CASE Scan
        BY <1>1, <2>5 DEF Scan, ScanFound, ScanData, ScanLate, ScanEmpty, Scanning,
                          NoBoundary, ScanFails, ScanTimeout, Panic, Return, Leave,
                          Inv, CallShape
    <2>. QED  BY <1>1, <2>1, <2>2, <2>3, <2>4, <2>5 DEF Next, Progress, Read
<1>2. ASSUME Inv, Next, step = "arm", step' = "scan"
      PROVE  fed' = <<>>
    <2>1. call # "none"
        BY <1>2 DEF Inv, CallShape
    <2>2. ArmOk
        BY <1>2, <2>1 DEF Next, Progress, Caller, Call, CallStart, CallSnap, CallSettle,
                    CallFrame, CallFrameShort, CallStop, Arm, ArmFails, Return, Read,
                    ReadData, ReadFails, ReadTimeout, Reading, Panic, ReadNextImage,
                    ReadValid, ReadRejected, ReadRejectedAgain, Scan, ScanFound,
                    ScanData, ScanLate, ScanEmpty, NoBoundary, ScanFails, ScanTimeout,
                    Scanning
    <2>. QED  BY <1>2, <2>2 DEF ArmOk, EnterScan, Return
<1>3. Inv /\ StartOnlyArms /\ [Next]_vars =>
          [/\ call' = "none" => Left
           /\ (step = "arm" /\ step' = "scan") => fed' = <<>>]_vars
    BY <1>1, <1>2
<1>. QED  BY ReaderInvariant, StartArms, <1>3, PTL DEF Spec, OnlyReadAheadLeft

\* Once Frame has rejected a frame it does not forget it, does not resync for another
\* rejection and arms the scan at most once (camera.go:453-463, 537-549).
THEOREM ReaderRetriesOnce == Spec => OneRetry
<1>1. ASSUME Inv, [Next]_vars, call = "Frame", call' = "Frame", rejected
      PROVE  /\ rejected'
             /\ step = "read" => step' \in {"read", "panicked"}
             /\ (step = "scan" /\ step' = "arm") => ~rearmed
    <2>1. CASE UNCHANGED vars
        BY <1>1, <2>1 DEF vars
    <2>2. ~Caller
        BY <1>1 DEF Caller, Call, CallStart, CallSnap, CallSettle, CallFrame,
                    CallFrameShort, CallStop
    <2>3. CASE Arm
        BY <1>1, <2>3 DEF Arm, ArmOk, ArmFails
    <2>4. CASE Read
        BY <1>1, <2>4 DEF Read, ReadData, Reading, ReadFails, ReadTimeout, Panic,
                          ReadNextImage, ReadValid, ReadRejected, ReadRejectedAgain,
                          Return
    <2>5. CASE Scan
        BY <1>1, <2>5 DEF Scan, ScanFound, EnterRead, ScanData, ScanLate, ScanEmpty,
                          Scanning, NoBoundary, ScanFails, ScanTimeout, Panic, Return
    <2>. QED  BY <1>1, <2>1, <2>2, <2>3, <2>4, <2>5 DEF Next, Progress
<1>2. Inv /\ [Next]_vars =>
          [(call = "Frame" /\ call' = "Frame" /\ rejected) =>
              /\ rejected'
              /\ step = "read" => step' \in {"read", "panicked"}
              /\ (step = "scan" /\ step' = "arm") => ~rearmed]_vars
    BY <1>1
<1>. QED  BY ReaderInvariant, <1>2, PTL DEF Spec, OneRetry

-----------------------------------------------------------------------------
(* Part 5: the refinement.  FrameReader implements FrameStream: every step of the
   reader is a step of the cursor over the bytes received, or a stutter.  What
   part 3 shows of the reader is nearly enough.  One fact is added: while scanning
   there is no read-ahead beside the buffer, so that a read that panics leaves
   nothing behind the cursor.                                                *)

ScanTakesAll == step = "scan" => carry = <<>>

MappedInv == Inv /\ ScanTakesAll

LEMMA MappedInit == Init => MappedInv
<1>1. Init => ScanTakesAll
    BY DEF Init, ScanTakesAll
<1>. QED  BY InitInv, <1>1 DEF MappedInv

LEMMA MappedStep == MappedInv /\ [Next]_vars => MappedInv'
<1>1. Inv /\ [Next]_vars => Inv'
    BY CallerInv, ArmInv, ReadInv, ScanInv, StutterInv DEF Next, Progress
<1>2. ASSUME MappedInv, [Next]_vars
      PROVE  ScanTakesAll'
    <2>1. CASE UNCHANGED vars
        BY <1>2, <2>1 DEF vars, MappedInv, ScanTakesAll
    <2>2. CASE Caller
        BY <1>2, <2>2 DEF Caller, CallStart, CallSnap, CallSettle, EnterScan, CallFrame,
                          EnterRead, CallFrameShort, CallStop, ScanTakesAll, MappedInv
    <2>3. CASE Arm
        BY <2>3 DEF Arm, ArmOk, ArmFails, EnterScan, Return, ScanTakesAll
    <2>4. CASE Read
        BY <2>4 DEF Read, ReadData, Reading, ReadFails, ReadTimeout, Panic, Return,
                    ReadNextImage, EnterRead, ReadValid, ReadRejected, EnterScan,
                    ReadRejectedAgain, ScanTakesAll
    <2>5. CASE Scan
        BY <1>2, <2>5 DEF Scan, ScanFound, EnterRead, ScanData, ScanLate, ScanEmpty,
                          NoBoundary, ScanFails, ScanTimeout, Panic, Return,
                          ScanTakesAll, MappedInv
    <2>. QED  BY <1>2, <2>1, <2>2, <2>3, <2>4, <2>5 DEF Next, Progress
<1>. QED  BY <1>1, <1>2 DEF MappedInv

\* Both modules mean the same bytes.
LEMMA SameMarkers ==
    ASSUME NEW s, NEW i
    PROVE  Stream!MarkerAt(s, i) <=> MarkerAt(s, i)
BY DEF Stream!MarkerAt, MarkerAt

LEMMA SameEnds ==
    ASSUME NEW s, NEW i
    PROVE  Stream!From(s, i) = From(s, i)
BY DEF Stream!From, From

LEMMA NothingHandedOut ==
    ASSUME call' # "none" \/ result' # "nil" \/ goal' # "image"
    PROVE  HandedOut' = <<>>
BY DEF HandedOut

\* A step that leaves nothing in front of the cursor.
LEMMA Abandons ==
    ASSUME step' # "read", step' = "scan" => scan' = <<>>, step' # "scan" => carry' = <<>>,
           call' # "none" \/ result' # "nil" \/ goal' # "image"
    PROVE  Stream!Next
<1>1. Pending' = <<>>
    BY DEF Pending
<1>. QED  BY <1>1, NothingHandedOut DEF Stream!Next, Stream!Abandon

\* A call begins: what was read ahead is what it reads first.
LEMMA CallerSteps ==
    ASSUME MappedInv, Caller
    PROVE  Stream!Next
<1>1. call = "none" /\ step = "none" /\ Pending = carry /\ carry \in Seq(Byte)
    BY DEF MappedInv, Inv, TypeOK, CallShape, Pending, Caller, Call, CallStart, CallSnap,
           CallSettle, CallFrame, CallFrameShort, CallStop
<1>2. CASE CallStop
    BY <1>1, <1>2, Abandons DEF CallStop
<1>3. ASSUME Pending' = carry, HandedOut' = <<>>
      PROVE  Stream!Next
    BY <1>1, <1>3 DEF Stream!Next, Stream!Release
<1>4. CASE CallStart \/ CallSnap
    <2>1. Pending' = carry /\ call' # "none"
        BY <1>4 DEF CallStart, CallSnap, Call, Pending
    <2>. QED  BY <1>3, <2>1, NothingHandedOut
<1>5. CASE CallSettle
    <2>1. Pending' = carry /\ call' # "none"
        BY <1>5 DEF CallSettle, Call, EnterScan, Pending
    <2>. QED  BY <1>3, <2>1, NothingHandedOut
<1>6. CASE CallFrame
    <2>1. EnterRead(carry) /\ call' # "none"
        BY <1>6 DEF CallFrame, Call
    <2>2. step' = "read" /\ fed' = carry /\ Contiguous'
        BY <1>1, <2>1, EnterReadOk DEF EnterRead
    <2>3. Pending' = carry
        BY <2>2 DEF Pending, Contiguous
    <2>. QED  BY <1>3, <2>1, <2>3, NothingHandedOut
<1>7. CASE CallFrameShort
    <2>1. Pending' = carry /\ result' # "nil"
        BY <1>1, <1>7 DEF CallFrameShort, Pending
    <2>. QED  BY <1>3, <2>1, NothingHandedOut
<1>. QED  BY <1>2, <1>4, <1>5, <1>6, <1>7 DEF Caller

\* Arming starts from nothing, whether it works or not.
LEMMA ArmSteps ==
    ASSUME MappedInv, Arm
    PROVE  Stream!Next
<1>1. step # "none" /\ call # "none" /\ (call = "Start" => goal = "none")
    BY DEF MappedInv, Inv, CallShape, Arm, ArmOk, ArmFails
<1>2. CASE ArmOk
    BY <1>1, <1>2, Abandons DEF ArmOk, Return, EnterScan
<1>3. CASE ArmFails
    <2>1. result' # "nil"
        BY <1>3, FailureType DEF ArmFails, Return
    <2>. QED  BY <1>3, <2>1, Abandons DEF ArmFails, Return
<1>. QED  BY <1>2, <1>3 DEF Arm

\* A call that fails gives the stream up.
LEMMA FailureSteps ==
    ASSUME NEW e \in {"misaligned", "io"}, Return(e), Leave(<<>>)
    PROVE  Stream!Next
BY Abandons DEF Return, Leave

\* A chunk arrives: d bytes of the n in front of the cursor may be dropped.
LEMMA Arrives ==
    ASSUME Pending \in Seq(Byte), NEW chunk \in Seq(Byte), NEW d \in 0 .. Len(Pending),
           \A i \in 1 .. d : ~MarkerAt(Pending, i),
           d > 0 => d <= Len(Pending) - FrameTrailer + 1,
           Pending' = From(Pending, d + 1) \o chunk,
           call' # "none"
    PROVE  Stream!Next
<1> DEFINE p == Pending
           kept == From(p, d + 1)
<1>1. Len(p) \in Nat /\ kept \in Seq(Byte) /\ Len(kept) = Len(p) - d
    BY LenProperties, FromProperties
<1>2. Len(kept \o chunk) >= Len(p) - d
    <2> HIDE DEF kept, p
    <2>1. Len(kept \o chunk) = Len(kept) + Len(chunk) /\ Len(chunk) \in Nat
        BY <1>1, ConcatProperties, LenProperties
    <2>. QED  BY <1>1, <2>1
<1>3. SubSeq(kept \o chunk, 1, Len(p) - d) = kept
    <2> HIDE DEF kept, p
    <2>1. CASE Len(p) - d = 0
        <3>1. kept = <<>> /\ kept \o chunk = chunk
            BY <1>1, <2>1, EmptySeq, ConcatEmptySeq
        <3>. QED  BY <2>1, <3>1, SubSeqEmpty
    <2>2. CASE Len(p) - d # 0
        <3>1. Len(p) - d \in 1 .. Len(kept) /\ 1 \in 1 .. Len(kept)
            BY <1>1, <2>2
        <3>2. SubSeq(kept \o chunk, 1, Len(p) - d) = SubSeq(kept, 1, Len(kept))
            BY <1>1, <3>1, SubSeqOfConcat1
        <3>. QED  BY <1>1, <3>2, SubSeqFull
    <2>. QED  BY <2>1, <2>2
<1>4. HandedOut' = <<>>
    BY NothingHandedOut
<1>5. Stream!Arrive
    BY <1>2, <1>3, <1>4, SameMarkers, SameEnds DEF Stream!Arrive
<1>. QED  BY <1>5 DEF Stream!Next

LEMMA ReadDataSteps ==
    ASSUME MappedInv, NEW chunk \in Seq(Byte), ReadData(chunk)
    PROVE  Stream!Next
<1>1. /\ step = "read" /\ step' = "read" /\ fed' = fed \o chunk /\ call' = call
      /\ call # "none" /\ fed \in Seq(Byte) /\ Len(fed) \in Nat
    BY LenProperties DEF ReadData, Reading, MappedInv, Inv, TypeOK, CallShape
<1>2. Pending = fed
    BY <1>1 DEF MappedInv, Inv, Contiguous, Pending
<1>3. Pending' = fed \o chunk
    <2>1. Inv'
        BY ReadDataInv DEF MappedInv
    <2>. QED  BY <1>1, <2>1 DEF Inv, Contiguous, Pending
<1>4. Pending' = From(Pending, 0 + 1) \o chunk
    <2>1. SubSeq(fed, 1, Len(fed)) = fed
        BY <1>1, SubSeqFull
    <2>2. From(fed, 0 + 1) = fed
        BY <2>1 DEF From
    <2>. QED  BY <1>2, <1>3, <2>2
<1>5. 0 \in 0 .. Len(Pending) /\ Pending \in Seq(Byte) /\ call' # "none"
    BY <1>1, <1>2
<1>6. (\A i \in 1 .. 0 : ~MarkerAt(Pending, i)) /\ ~(0 > 0)
    OBVIOUS
<1>. QED  BY <1>4, <1>5, <1>6, Arrives

\* A whole wire frame, as the cursor sees it.
LEMMA WholeFrameSteps ==
    ASSUME MappedInv, step = "read", Got = WireFrame
    PROVE  /\ Len(Pending) >= WireFrame
           /\ Stream!Whole <=> HasMagic(trail)
           /\ image = SubSeq(Pending, 1, FrameBytes)
           /\ trail \o carry = From(Pending, FrameBytes + 1)
           /\ carry = From(Pending, WireFrame + 1)
<1>1. Pending = fed /\ fed \in Seq(Byte) /\ Inv
    BY DEF MappedInv, Inv, Contiguous, Pending, TypeOK
<1>2. /\ image = SubSeq(fed, 1, FrameBytes)
      /\ trail \o carry = From(fed, FrameBytes + 1)
      /\ FrameBytes \in 0 .. Len(fed)
      /\ HasMagic(trail) <=> MarkerAt(fed, FrameBytes + 1)
    BY <1>1, ValidFrame
<1>3. Stream!Whole <=> HasMagic(trail)
    BY <1>1, <1>2, SameMarkers DEF Stream!Whole
<1>4. /\ trail \in Seq(Byte) /\ carry \in Seq(Byte)
      /\ Len(trail) = FrameTrailer /\ Len(carry) \in Nat /\ Len(fed) \in Nat
    BY <1>1, WholeWireFrame, LenProperties DEF Inv, TypeOK, ReadShape, Got
<1>5. Len(From(fed, FrameBytes + 1)) = Len(fed) - FrameBytes
    BY <1>1, <1>2, FromProperties
<1>6. Len(trail \o carry) = FrameTrailer + Len(carry)
    BY <1>4, ConcatProperties
<1>7. Len(fed) >= WireFrame /\ FrameTrailer \in 0 .. Len(fed) - FrameBytes
    BY <1>2, <1>4, <1>5, <1>6, WireFrameNat
<1>8. From(trail \o carry, FrameTrailer + 1) = carry
    <2>1. FrameTrailer \in 0 .. Len(trail)
        BY <1>4, WireFrameNat
    <2>2. From(trail \o carry, FrameTrailer + 1) = From(trail, FrameTrailer + 1) \o carry
        BY <1>4, <2>1, FromConcat
    <2>3. From(trail, FrameTrailer + 1) = <<>>
        BY <1>4, <2>1, SubSeqEmpty DEF From
    <2>. QED  BY <1>4, <2>2, <2>3, ConcatEmptySeq
<1>9. From(From(fed, FrameBytes + 1), FrameTrailer + 1) = From(fed, WireFrame + 1)
    BY <1>1, <1>2, <1>7, FromFrom DEF WireFrame
<1>. QED  BY <1>1, <1>2, <1>3, <1>7, <1>8, <1>9

LEMMA ReadSteps ==
    ASSUME MappedInv, Read
    PROVE  Stream!Next
<1>1. ASSUME NEW chunk \in ReadChunks, ReadData(chunk)
      PROVE  Stream!Next
    <2>1. Smaller(WireFrame, MaxBulk) \in Int
        BY WireFrameNat, ReaderAssumption DEF Smaller, ReaderAssumption
    <2>2. chunk \in Seq(Byte)
        BY <2>1, ChunksAreSeqs DEF ReadChunks
    <2>. QED  BY <1>1, <2>2, ReadDataSteps
<1>2. CASE ReadFails
    BY <1>2, FailureType, FailureSteps DEF ReadFails
<1>3. CASE ReadTimeout
    <2>1. ASSUME Panic, Reading
          PROVE  Stream!Next
        <3>1. carry = <<>> /\ call # "none"
            BY <2>1 DEF Reading, MappedInv, Inv, Contiguous, CallShape
        <3>. QED  BY <2>1, <3>1, Abandons DEF Panic
    <2>. QED  BY <1>2, <1>3, <2>1 DEF ReadTimeout
<1>4. CASE ReadNextImage
    <2>1. /\ step = "read" /\ Got = WireFrame /\ HasMagic(trail) /\ EnterRead(carry)
          /\ call' = call /\ call # "none" /\ carry \in Seq(Byte)
        BY <1>4 DEF ReadNextImage, MappedInv, Inv, CallShape, TypeOK
    <2>2. step' = "read" /\ fed' = carry /\ Contiguous'
        BY <2>1, EnterReadOk DEF EnterRead
    <2>3. Pending' = From(Pending, WireFrame + 1)
        BY <2>1, <2>2, WholeFrameSteps DEF Pending, Contiguous
    <2>. QED  BY <2>1, <2>3, WholeFrameSteps, NothingHandedOut, SameEnds
              DEF Stream!Next, Stream!Deliver, Stream!WireFrame, WireFrame
<1>5. CASE ReadValid
    <2>1. /\ step = "read" /\ Got = WireFrame /\ HasMagic(trail)
          /\ step' = "none" /\ image' = image /\ carry' \in {carry, <<>>}
        BY <1>5 DEF ReadValid, Return, Leave
    <2>2. Pending' \in {From(Pending, WireFrame + 1), <<>>}
        BY <2>1, WholeFrameSteps DEF Pending
    <2>3. HandedOut' \in {SubSeq(Pending, 1, FrameBytes), <<>>}
        BY <2>1, WholeFrameSteps DEF HandedOut
    <2>. QED  BY <2>1, <2>2, <2>3, WholeFrameSteps, SameEnds
              DEF Stream!Next, Stream!Deliver, Stream!WireFrame, WireFrame
<1>6. CASE ReadRejected
    <2>1. /\ step = "read" /\ Got = WireFrame /\ ~HasMagic(trail)
          /\ EnterScan(trail \o carry) /\ call' = call /\ call # "none"
        BY <1>6 DEF ReadRejected, MappedInv, Inv, CallShape
    <2>2. Pending' = From(Pending, FrameBytes + 1)
        BY <2>1, WholeFrameSteps DEF EnterScan, Pending
    <2>. QED  BY <2>1, <2>2, WholeFrameSteps, NothingHandedOut, SameEnds
              DEF Stream!Next, Stream!Reject, Stream!WireFrame, WireFrame
<1>7. CASE ReadRejectedAgain
    <2>1. /\ step = "read" /\ Got = WireFrame /\ ~HasMagic(trail)
          /\ step' = "none" /\ carry' \in {trail \o carry, <<>>} /\ result' = "misaligned"
        BY <1>7 DEF ReadRejectedAgain, Return, Leave
    <2>2. CASE carry' = <<>>
        BY <2>1, <2>2, Abandons
    <2>3. CASE carry' = trail \o carry
        <3>1. Pending' = From(Pending, FrameBytes + 1)
            BY <2>1, <2>3, WholeFrameSteps DEF Pending
        <3>. QED  BY <2>1, <3>1, WholeFrameSteps, NothingHandedOut, SameEnds
                  DEF Stream!Next, Stream!Reject, Stream!WireFrame, WireFrame
    <2>. QED  BY <2>1, <2>2, <2>3
<1>. QED  BY <1>1, <1>2, <1>3, <1>4, <1>5, <1>6, <1>7 DEF Read

LEMMA ScanDataSteps ==
    ASSUME MappedInv, NEW chunk \in Seq(Byte), ScanData(chunk)
    PROVE  Stream!Next
<1>1. /\ step = "scan" /\ step' = "scan" /\ ~HasMarker(scan) /\ call' = call
      /\ scan' = MayStraddle(scan) \o chunk
      /\ call # "none" /\ scan \in Seq(Byte) /\ Len(scan) \in Nat
    BY LenProperties DEF ScanData, Scanning, MappedInv, Inv, TypeOK, CallShape
<1>2. PICK d \in 0 .. Len(scan) :
              /\ MayStraddle(scan) = From(scan, d + 1)
              /\ d > 0 => d = Len(scan) - (FrameTrailer - 1)
    BY <1>1, TrimKeeps
<1>3. Pending = scan /\ Pending' = scan'
    BY <1>1 DEF Pending
<1>4. \A i \in 1 .. d : ~MarkerAt(scan, i)
    <2>1. \A i \in 1 .. d : i \in 1 .. Len(scan)
        BY <1>1
    <2>. QED  BY <1>1, <2>1 DEF HasMarker
<1>5. d > 0 => d <= Len(scan) - FrameTrailer + 1
    BY <1>1, <1>2, WireFrameNat
<1>. QED  BY <1>1, <1>2, <1>3, <1>4, <1>5, Arrives

LEMMA ScanSteps ==
    ASSUME MappedInv, Scan
    PROVE  Stream!Next
<1>0. call # "none" /\ step = "scan"
    BY DEF Scan, ScanFound, ScanData, ScanLate, ScanEmpty, ScanFails, ScanTimeout,
           Scanning, MappedInv, Inv, CallShape
<1>1. CASE ScanFound
    <2>1. PICK i \in 1 .. Len(scan) :
                  FirstMarker(scan, i) /\ EnterRead(From(scan, i + FrameTrailer))
        BY <1>1 DEF ScanFound
    <2>2. scan \in Seq(Byte) /\ Len(scan) \in Nat /\ i + FrameTrailer - 1 \in 0 .. Len(scan)
        <3>1. scan \in Seq(Byte) /\ Len(scan) \in Nat
            BY LenProperties DEF MappedInv, Inv, TypeOK
        <3>. QED  BY <2>1, <3>1, WireFrameNat DEF FirstMarker, MarkerAt
    <2>3. From(scan, i + FrameTrailer) \in Seq(Byte)
        <3> DEFINE k == i + FrameTrailer - 1
        <3>1. k \in 0 .. Len(scan) /\ k + 1 = i + FrameTrailer
            BY <2>2, WireFrameNat
        <3> HIDE DEF k
        <3>2. From(scan, k + 1) \in Seq(Byte)
            BY <2>2, <3>1, FromProperties
        <3>. QED  BY <3>1, <3>2
    <2>4. step' = "read" /\ fed' = From(scan, i + FrameTrailer) /\ Contiguous'
        BY <2>1, <2>3, EnterReadOk DEF EnterRead
    <2>5. Pending = scan /\ Pending' = From(scan, i + FrameTrailer)
        BY <1>0, <2>4 DEF Pending, Contiguous
    <2>6. HandedOut' = <<>>
        BY <1>0, <1>1, NothingHandedOut DEF ScanFound
    <2>. QED  BY <2>1, <2>5, <2>6, SameMarkers, SameEnds
              DEF Stream!Next, Stream!SkipToFirstMarker, FirstMarker
<1>2. ASSUME NEW chunk \in ScanChunks, ScanData(chunk)
      PROVE  Stream!Next
    <2>1. Smaller(SettleChunk, MaxBulk) \in Int
        BY ReaderAssumption DEF Smaller, ReaderAssumption
    <2>2. chunk \in Seq(Byte)
        BY <2>1, ChunksAreSeqs DEF ScanChunks
    <2>. QED  BY <1>2, <2>2, ScanDataSteps
<1>3. CASE ScanLate \/ ScanEmpty
    <2>1. CASE rearmed
        BY <1>3, <2>1, FailureSteps DEF ScanLate, ScanEmpty, NoBoundary
    <2>2. CASE ~rearmed
        BY <1>0, <1>3, <2>2, Abandons DEF ScanLate, ScanEmpty, NoBoundary
    <2>. QED  BY <2>1, <2>2
<1>4. CASE ScanFails
    BY <1>4, FailureType, FailureSteps DEF ScanFails
<1>5. CASE ScanTimeout
    <2>1. ASSUME Panic
          PROVE  Stream!Next
        <3>1. carry = <<>>
            BY <1>0 DEF MappedInv, ScanTakesAll
        <3>. QED  BY <1>0, <2>1, <3>1, Abandons DEF Panic
    <2>. QED  BY <1>4, <1>5, <2>1 DEF ScanTimeout
<1>. QED  BY <1>1, <1>2, <1>3, <1>4, <1>5 DEF Scan

\* The chunked, buffered, retrying reader is a cursor over the bytes received that
\* gives up a byte only with a whole frame, a rejected frame's pixels, a gap without
\* a trailer, or the whole capture (camera.go:418-602).
THEOREM ReaderImplementsStream == Spec => ImplementsStream
<1>1. Spec => []MappedInv
    BY MappedInit, MappedStep, PTL DEF Spec
<1>2. Init => Stream!Init
    BY DEF Init, Stream!Init, Pending, HandedOut
<1>3. MappedInv /\ [Next]_vars => [Stream!Next]_(Stream!vars)
    <2>1. UNCHANGED vars => UNCHANGED Stream!vars
        BY DEF vars, Stream!vars, Pending, HandedOut
    <2>. QED  BY <2>1, CallerSteps, ArmSteps, ReadSteps, ScanSteps DEF Next, Progress
<1>. QED  BY <1>1, <1>2, <1>3, PTL DEF Spec, Stream!Spec, ImplementsStream

=============================================================================
