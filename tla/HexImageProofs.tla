----------------------------- MODULE HexImageProofs -----------------------------
(***************************************************************************)
(* Proofs about HexImage, for texts of any length, lines of any length and *)
(* bytes of any size: what is returned is what was written, and only a     *)
(* text that is not well formed is refused.                                *)
(*                                                                         *)
(* Part 1 is about sums, part 2 shows that the parser accepts of a line    *)
(* exactly what a writer may have written, part 3 is the inductive         *)
(* invariant, part 4 has the theorems.                                     *)
(***************************************************************************)
EXTENDS HexImage, FiniteSetTheorems, SequenceTheorems, Induction, TLAPS

-----------------------------------------------------------------------------
(* Part 1: sums.  Sum folds over the set of places of a line, from the last
   down; what is needed of it is that a byte more is added to it.            *)

\* The function FoldLeft takes its value of: the sum of the bytes in these places.
SumsAt(g, s, n) ==
    g = [S \in SUBSET (1 .. n) |->
            IF S = {} THEN 0 ELSE (g[S \ {Max(S)}] + s[Max(S)]) % ByteSize]

LEMMA SizeOfByte == ByteSize \in Nat /\ ByteSize > 2
BY HexAssumption DEF HexAssumption

LEMMA MaxOf ==
    ASSUME NEW S, S \subseteq Int, NEW m \in S, \A y \in S : m >= y
    PROVE  Max(S) = m
<1>1. \A x \in S : (\A y \in S : x >= y) => x = m
    <2>1. \A a, b \in Int : a >= b /\ b >= a => a = b
        OBVIOUS
    <2>. QED  BY <2>1
<1>. QED  BY <1>1 DEF Max

\* A set of places that is not empty has a last one.
LEMMA MaxIn ==
    ASSUME NEW n \in Nat, NEW S \in SUBSET (1 .. n), S # {}
    PROVE  Max(S) \in S
<1>. DEFINE Back == {n - x : x \in S}
<1>1. Back \subseteq Nat /\ Back # {}
    OBVIOUS
<1>2. PICK m \in Back : \A b \in Back : m <= b
    BY <1>1, LeastNat
<1>3. PICK x \in S : m = n - x
    BY <1>2
<1>4. \A y \in S : x >= y
    <2>1. ASSUME NEW y \in S PROVE x >= y
        <3>1. n - y \in Back /\ x \in Int /\ y \in Int
            OBVIOUS
        <3>2. n - x <= n - y
            <4>. HIDE DEF Back
            <4>. QED  BY <1>2, <1>3, <3>1
        <3>. QED  BY <3>1, <3>2
    <2>. QED  BY <2>1
<1>. QED  BY <1>4, MaxOf

\* There is such a function.
LEMMA SumsExist ==
    ASSUME NEW s, NEW n \in Nat
    PROVE  \E g : SumsAt(g, s, n)
<1>. DEFINE N == {m \in Nat : \E g : SumsAt(g, s, m)}
<1>1. 0 \in N
    <2>. DEFINE e == [S \in SUBSET (1 .. 0) |-> 0]
    <2>1. \A S \in SUBSET (1 .. 0) : S = {}
        OBVIOUS
    <2>2. SumsAt(e, s, 0)
        BY <2>1 DEF SumsAt
    <2>. QED  BY <2>2
<1>2. ASSUME NEW m \in Nat, m \in N PROVE m + 1 \in N
    <2>1. PICK g : SumsAt(g, s, m)
        BY <1>2
    <2>. DEFINE v(h, S) == IF S = {} THEN 0 ELSE (h[S \ {Max(S)}] + s[Max(S)]) % ByteSize
                h == [S \in SUBSET (1 .. m + 1) |->
                        IF m + 1 \in S THEN (g[S \ {m + 1}] + s[m + 1]) % ByteSize ELSE g[S]]
    <2>2. ASSUME NEW S \in SUBSET (1 .. m + 1)
          PROVE  h[S] = v(h, S)
        <3>1. CASE m + 1 \in S
            <4>1. Max(S) = m + 1
                <5>1. S \subseteq Int /\ \A y \in S : m + 1 >= y
                    BY <2>2
                <5>. QED  BY <3>1, <5>1, MaxOf
            <4>2. S \ {m + 1} \in SUBSET (1 .. m)
                BY <2>2
            <4>3. h[S \ {m + 1}] = g[S \ {m + 1}]
                BY <4>2
            <4>4. h[S] = (g[S \ {m + 1}] + s[m + 1]) % ByteSize
                BY <3>1
            <4>5. S # {}
                BY <3>1
            <4>. HIDE DEF h
            <4>. QED  BY <4>1, <4>3, <4>4, <4>5
        <3>2. CASE m + 1 \notin S
            <4>1. S \in SUBSET (1 .. m)
                BY <3>2
            <4>2. h[S] = g[S]
                BY <3>2
            <4>3. g[S] = v(g, S)
                BY <2>1, <4>1 DEF SumsAt
            <4>4. S # {} => h[S \ {Max(S)}] = g[S \ {Max(S)}]
                <5>1. S \ {Max(S)} \in SUBSET (1 .. m) /\ m + 1 \notin S \ {Max(S)}
                    BY <4>1, <3>2
                <5>2. S \ {Max(S)} \in SUBSET (1 .. m + 1)
                    BY <2>2
                <5>. QED  BY <5>1, <5>2
            <4>. HIDE DEF h
            <4>. QED  BY <4>2, <4>3, <4>4
        <3>. QED  BY <3>1, <3>2
    <2>3. SumsAt(h, s, m + 1)
        <3>1. h = [S \in SUBSET (1 .. m + 1) |-> h[S]]
            OBVIOUS
        <3>. HIDE DEF h
        <3>. QED  BY <2>2, <3>1 DEF SumsAt
    <2>. QED  BY <2>3
<1>3. Nat \subseteq N
    <2>. HIDE DEF N
    <2>. QED  BY <1>1, <1>2, Induct
<1>. QED  BY <1>3

\* The sum of a line is a value of such a function.
LEMMA SumIs ==
    ASSUME NEW s, NEW n \in Nat, DOMAIN s = 1 .. n
    PROVE  \E g : SumsAt(g, s, n) /\ Sum(s) = g[1 .. n]
<1>. DEFINE g == CHOOSE g : SumsAt(g, s, n)
<1>1. SumsAt(g, s, n)
    BY SumsExist
<1>2. Sum(s) = g[1 .. n]
    BY Zenon DEF Sum, FoldLeft, MapThenFoldSet, SumsAt
<1>. QED  BY <1>1, <1>2

\* Sums of the first places, one place more at a time.
Partial(p, s, n) ==
    /\ p[0] = 0
    /\ \A k \in 1 .. n : p[k] = (p[k - 1] + s[k]) % ByteSize

LEMMA SumByPlaces ==
    ASSUME NEW s, NEW n \in Nat, DOMAIN s = 1 .. n
    PROVE  \E p : Partial(p, s, n) /\ Sum(s) = p[n]
<1>1. PICK g : SumsAt(g, s, n) /\ Sum(s) = g[1 .. n]
    BY SumIs
<1>. DEFINE p == [k \in 0 .. n |-> g[1 .. k]]
<1>2. p[0] = 0
    <2>1. 1 .. 0 = {} /\ {} \in SUBSET (1 .. n)
        OBVIOUS
    <2>2. g[{}] = 0
        BY <1>1, <2>1 DEF SumsAt
    <2>. QED  BY <2>1, <2>2
<1>3. ASSUME NEW k \in 1 .. n
      PROVE  p[k] = (p[k - 1] + s[k]) % ByteSize
    <2>. DEFINE S == 1 .. k
    <2>1. S \in SUBSET (1 .. n) /\ k \in S /\ S \subseteq Int /\ \A y \in S : k >= y
        OBVIOUS
    <2>2. S \ {k} = 1 .. k - 1
        OBVIOUS
    <2>3. g[S] = (g[S \ {k}] + s[k]) % ByteSize
        <3>. HIDE DEF S
        <3>1. Max(S) = k
            BY <2>1, MaxOf
        <3>. QED  BY <1>1, <2>1, <3>1 DEF SumsAt
    <2>4. p[k] = g[S] /\ p[k - 1] = g[1 .. k - 1]
        OBVIOUS
    <2>. HIDE DEF S, p
    <2>. QED  BY <2>2, <2>3, <2>4
<1>4. p[n] = g[1 .. n]
    OBVIOUS
<1>. HIDE DEF p
<1>. QED  BY <1>1, <1>2, <1>3, <1>4 DEF Partial

\* A sum is a byte.
LEMMA PartialType ==
    ASSUME NEW n \in Nat, NEW s \in [1 .. n -> Int], NEW p, Partial(p, s, n)
    PROVE  \A k \in 0 .. n : p[k] \in Byte
<1>. DEFINE K == {k \in Nat : k <= n => p[k] \in Byte}
<1>1. 0 \in K
    BY SizeOfByte DEF Partial, Byte
<1>2. ASSUME NEW k \in Nat, k \in K PROVE k + 1 \in K
    <2>1. SUFFICES ASSUME k + 1 <= n PROVE p[k + 1] \in Byte
        OBVIOUS
    <2>2. p[k] \in Byte /\ k + 1 \in 1 .. n /\ (k + 1) - 1 = k
        BY <1>2, <2>1
    <2>3. p[k + 1] = (p[k] + s[k + 1]) % ByteSize
        BY <2>2 DEF Partial
    <2>4. p[k] + s[k + 1] \in Int
        BY <2>2, SizeOfByte DEF Byte
    <2>5. \A a, b \in Int : b > 0 => a % b \in 0 .. b - 1
        OBVIOUS
    <2>. QED  BY <2>3, <2>4, <2>5, SizeOfByte DEF Byte
<1>3. Nat \subseteq K
    <2>. HIDE DEF K
    <2>. QED  BY <1>1, <1>2, Induct
<1>. QED  BY <1>3

\* Bytes that are the same have the same sums.
LEMMA PartialSame ==
    ASSUME NEW n \in Nat, NEW s, NEW t, \A k \in 1 .. n : s[k] = t[k],
           NEW p, Partial(p, s, n), NEW q, Partial(q, t, n)
    PROVE  p[n] = q[n]
<1>. DEFINE K == {k \in Nat : k <= n => p[k] = q[k]}
<1>1. 0 \in K
    BY DEF Partial
<1>2. ASSUME NEW k \in Nat, k \in K PROVE k + 1 \in K
    <2>1. SUFFICES ASSUME k + 1 <= n PROVE p[k + 1] = q[k + 1]
        OBVIOUS
    <2>2. p[k] = q[k] /\ k + 1 \in 1 .. n /\ (k + 1) - 1 = k
        BY <1>2, <2>1
    <2>3. /\ p[k + 1] = (p[k] + s[k + 1]) % ByteSize
          /\ q[k + 1] = (q[k] + t[k + 1]) % ByteSize
        BY <2>2 DEF Partial
    <2>. QED  BY <2>2, <2>3
<1>3. Nat \subseteq K
    <2>. HIDE DEF K
    <2>. QED  BY <1>1, <1>2, Induct
<1>. QED  BY <1>3

\* A byte more is added to the sum.
LEMMA SumAppend ==
    ASSUME NEW s \in Seq(Byte), NEW c \in Byte
    PROVE  Sum(s) \in Byte /\ Sum(Append(s, c)) = (Sum(s) + c) % ByteSize
<1>. DEFINE n == Len(s)
            t == Append(s, c)
<1>1. n \in Nat /\ DOMAIN s = 1 .. n /\ s \in [1 .. n -> Int]
    <2>1. s \in [1 .. n -> Byte] /\ Byte \subseteq Int
        BY LenProperties, SizeOfByte DEF Byte
    <2>2. n \in Nat
        BY LenProperties
    <2>. HIDE DEF n
    <2>. QED  BY <2>1, <2>2
<1>2. /\ DOMAIN t = 1 .. n + 1 /\ t[n + 1] = c
      /\ \A k \in 1 .. n : t[k] = s[k]
    BY AppendProperties, LenProperties
<1>. HIDE DEF n, t
<1>3. PICK p : Partial(p, s, n) /\ Sum(s) = p[n]
    BY <1>1, SumByPlaces
<1>4. PICK q : Partial(q, t, n + 1) /\ Sum(t) = q[n + 1]
    BY <1>1, <1>2, SumByPlaces
<1>5. Partial(q, t, n) /\ q[n + 1] = (q[n] + c) % ByteSize
    <2>1. \A k \in 1 .. n : k \in 1 .. n + 1
        BY <1>1
    <2>2. n + 1 \in 1 .. n + 1 /\ (n + 1) - 1 = n
        BY <1>1
    <2>. QED  BY <1>2, <1>4, <2>1, <2>2 DEF Partial
<1>6. p[n] = q[n]
    BY <1>1, <1>2, <1>3, <1>5, PartialSame
<1>7. p[n] \in Byte
    BY <1>1, <1>3, PartialType
<1>. QED  BY <1>3, <1>4, <1>5, <1>6, <1>7 DEF t

-----------------------------------------------------------------------------
(* Part 2: a line is accepted if and only if some writer writes it.          *)

Line(raw) == raw \in Seq(Byte) /\ Len(raw) > 0

\* The bytes a record is written with, a checksum aside.
Written(type, rec) == <<Len(rec.data), rec.addr, type>> \o rec.data

\* The record that is in the line, of k bytes of data.
Record(raw, k) == [addr |-> raw[2], data |-> SubSeq(raw, Header + 1, Header + k)]

LEMMA LinesAre ==
    ASSUME NEW raw \in Lines
    PROVE  raw = Blank \/ raw = Garbage \/ (Line(raw) /\ Len(raw) <= Header + MaxData)
<1>1. ASSUME NEW k \in 1 .. Header + MaxData, raw \in [1 .. k -> Byte]
      PROVE  Line(raw) /\ Len(raw) <= Header + MaxData
    <2>1. k \in Nat /\ raw \in Seq(Byte)
        BY <1>1
    <2>2. Len(raw) = k
        BY <1>1, <2>1, LenProperties
    <2>. QED  BY <1>1, <2>1, <2>2 DEF Line
<1>. QED  BY <1>1 DEF Lines

\* Garbage is shorter than any header.
LEMMA GarbageIs == Len(Garbage) = 1 /\ Garbage \in Seq(0 .. ByteSize)
BY SizeOfByte DEF Garbage

\* What a record of the line is written with, byte by byte.
LEMMA WrittenIs ==
    ASSUME NEW raw, Line(raw), NEW k \in Nat, Len(raw) >= Header + k, NEW type
    PROVE  LET w == Written(type, Record(raw, k))
           IN  /\ Len(w) = Header + k
               /\ w[1] = k /\ w[2] = raw[2] /\ w[3] = type
               /\ \A i \in Header + 1 .. Header + k : w[i] = raw[i]
               /\ DOMAIN w = 1 .. Header + k
               /\ \E S : w \in Seq(S)
               /\ Record(raw, k).data \in Seq(Byte)
               /\ Len(Record(raw, k).data) = k
<1>. DEFINE d == SubSeq(raw, Header + 1, Header + k)
            S == Byte \union {k, raw[2], type}
            h == <<k, raw[2], type>>
<1>1. d \in Seq(Byte) /\ Len(d) = k /\ \A i \in 1 .. k : d[i] = raw[Header + i]
    <2>1. Len(raw) \in Nat /\ \A i \in Header + 1 .. Header + k : raw[i] \in Byte
        BY LenProperties, ElementOfSeq DEF Line, Header
    <2>2. Header + 1 \in 1 .. Len(raw) + 1 /\ Header + k \in Header .. Len(raw)
        BY <2>1 DEF Header
    <2>. QED  BY <2>1, <2>2, SubSeqProperties DEF Line, Header
<1>2. h \in Seq(S) /\ Len(h) = 3 /\ h[1] = k /\ h[2] = raw[2] /\ h[3] = type
    OBVIOUS
<1>3. d \in Seq(S)
    <2>1. Byte \subseteq S
        OBVIOUS
    <2>. HIDE DEF d, S
    <2>. QED  BY <1>1, <2>1, SeqMonotonic
<1>4. Record(raw, k).data = d /\ Written(type, Record(raw, k)) = h \o d
    BY <1>1 DEF Record, Written
<1>. DEFINE w == h \o d
<1>. HIDE DEF d, S, h
<1>5. /\ w \in Seq(S) /\ Len(w) = 3 + k
      /\ \A i \in 1 .. 3 + k : w[i] = IF i <= 3 THEN h[i] ELSE d[i - 3]
    <2>1. /\ w \in Seq(S) /\ Len(w) = Len(h) + Len(d)
          /\ \A i \in 1 .. Len(h) + Len(d) :
                w[i] = IF i <= Len(h) THEN h[i] ELSE d[i - Len(h)]
        BY <1>2, <1>3, ConcatProperties
    <2>2. Len(h) = 3 /\ Len(d) = k
        BY <1>1, <1>2
    <2>. HIDE DEF w
    <2>. QED  BY <2>1, <2>2
<1>6. w[1] = k /\ w[2] = raw[2] /\ w[3] = type
    BY <1>2, <1>5
<1>7. \A i \in Header + 1 .. Header + k : w[i] = raw[i]
    <2>1. SUFFICES ASSUME NEW i \in Header + 1 .. Header + k PROVE w[i] = raw[i]
        OBVIOUS
    <2>2. i \in 1 .. 3 + k /\ ~(i <= 3) /\ i - 3 \in 1 .. k /\ Header + (i - 3) = i
        BY DEF Header
    <2>3. w[i] = d[i - 3]
        BY <1>5, <2>2
    <2>. HIDE DEF w
    <2>. QED  BY <1>1, <2>2, <2>3
<1>8. DOMAIN w = 1 .. Header + k /\ Len(w) = Header + k
    <2>. HIDE DEF w
    <2>. QED  BY <1>5, LenProperties DEF Header
<1>. HIDE DEF w
<1>9. Written(type, Record(raw, k)) = w
    BY <1>4 DEF w
<1>. QED  BY <1>1, <1>4, <1>5, <1>6, <1>7, <1>8, <1>9

\* Without a checksum.
LEMMA PlainLine ==
    ASSUME NEW raw, Line(raw), NEW k \in Nat, Len(raw) >= Header + k, NEW type
    PROVE  raw = Written(type, Record(raw, k)) <=>
             Len(raw) = Header + k /\ raw[1] = k /\ raw[3] = type
<1>. DEFINE w == Written(type, Record(raw, k))
<1>1. /\ Len(w) = Header + k /\ w[1] = k /\ w[2] = raw[2] /\ w[3] = type
      /\ \A i \in Header + 1 .. Header + k : w[i] = raw[i]
      /\ \E S : w \in Seq(S)
    BY WrittenIs
<1>. HIDE DEF w
<1>2. ASSUME Len(raw) = Header + k, raw[1] = k, raw[3] = type
      PROVE  raw = w
    <2>1. ASSUME NEW i \in 1 .. Header + k PROVE raw[i] = w[i]
        <3>1. i = 1 \/ i = 2 \/ i = 3 \/ i \in Header + 1 .. Header + k
            BY DEF Header
        <3>. QED  BY <1>1, <1>2, <3>1
    <2>2. PICK S : w \in Seq(S)
        BY <1>1
    <2>3. raw \in Seq(Byte \union S) /\ w \in Seq(Byte \union S)
        BY <2>2, SeqMonotonic DEF Line
    <2>. QED  BY <1>1, <1>2, <2>1, <2>3, SeqEqual
<1>3. raw = w => Len(raw) = Header + k /\ raw[1] = k /\ raw[3] = type
    BY <1>1
<1>. QED  BY <1>2, <1>3 DEF w

\* A checksum makes the sum 0, and nothing else does.
LEMMA ChecksumIs ==
    ASSUME NEW s \in Seq(Byte), NEW c \in Byte
    PROVE  Sum(Append(s, c)) = 0 <=> c = Checksum(s)
<1>1. \A a, b \in 0 .. ByteSize - 1 : (a + b) % ByteSize = 0 <=> b = (ByteSize - a) % ByteSize
    <2>1. SUFFICES ASSUME NEW a \in 0 .. ByteSize - 1, NEW b \in 0 .. ByteSize - 1
                   PROVE  (a + b) % ByteSize = 0 <=> b = (ByteSize - a) % ByteSize
        OBVIOUS
    <2>. DEFINE n == ByteSize
    <2>1a. n \in Nat /\ n > 2 /\ a \in Int /\ b \in Int /\ 0 <= a /\ a < n /\ 0 <= b /\ b < n
        BY SizeOfByte
    <2>. HIDE DEF n
    <2>2. \A x, m \in Int : m > 0 /\ 0 <= x /\ x < m => x % m = x
        OBVIOUS
    <2>3. \A x, m \in Int : m > 0 /\ m <= x /\ x < m + m => x % m = x - m
        <3>1. SUFFICES ASSUME NEW x \in Int, NEW m \in Int, m > 0, m <= x, x < m + m
                       PROVE  x % m = x - m
            OBVIOUS
        <3>2. x - m \in Int /\ 0 <= x - m /\ x - m < m /\ x = m * 1 + (x - m)
            BY <3>1
        <3>. QED  BY <3>1, <3>2
    <2>4. CASE a = 0
        <3>1. (n - a) % n = 0
            <4>1. n - a = n
                BY <2>1a, <2>4
            <4>2. n % n = n - n
                BY <2>1a, <2>3
            <4>. QED  BY <2>1a, <4>1, <4>2
        <3>2. (a + b) % n = b
            <4>1. a + b = b
                BY <2>1a, <2>4
            <4>. QED  BY <2>1a, <2>2, <4>1
        <3>. QED  BY <3>1, <3>2 DEF n
    <2>5. CASE a > 0
        <3>1. (n - a) % n = n - a
            <4>1. n - a \in Int /\ 0 <= n - a /\ n - a < n
                BY <2>1a, <2>5
            <4>. QED  BY <2>1a, <2>2, <4>1
        <3>2. CASE a + b < n
            <4>1. (a + b) % n = a + b
                <5>1. a + b \in Int /\ 0 <= a + b
                    BY <2>1a
                <5>. QED  BY <2>1a, <2>2, <3>2, <5>1
            <4>2. a + b # 0 /\ b # n - a
                BY <2>1a, <2>5, <3>2
            <4>. QED  BY <3>1, <4>1, <4>2 DEF n
        <3>3. CASE a + b >= n
            <4>1. (a + b) % n = (a + b) - n
                <5>1. a + b \in Int /\ n <= a + b /\ a + b < n + n
                    BY <2>1a, <3>3
                <5>. QED  BY <2>1a, <2>3, <5>1
            <4>2. (a + b) - n = 0 <=> b = n - a
                BY <2>1a
            <4>. QED  BY <3>1, <4>1, <4>2 DEF n
        <3>. QED  BY <2>1a, <3>2, <3>3
    <2>. QED  BY <2>1a, <2>4, <2>5
<1>. QED  BY <1>1, SumAppend DEF Checksum, Byte

\* With one.
LEMMA CheckedLine ==
    ASSUME NEW raw, Line(raw), NEW k \in Nat, Len(raw) >= Header + k, NEW type
    PROVE  LET w == Written(type, Record(raw, k))
           IN  raw = Append(w, Checksum(w)) <=>
                 /\ Len(raw) = Header + k + 1 /\ raw[1] = k /\ raw[3] = type
                 /\ Sum(raw) = 0
<1>. DEFINE w == Written(type, Record(raw, k))
            n == Header + k
<1>1. /\ Len(w) = n /\ w[1] = k /\ w[2] = raw[2] /\ w[3] = type
      /\ \A i \in Header + 1 .. n : w[i] = raw[i]
      /\ \E S : w \in Seq(S)
    BY WrittenIs
<1>0. n \in Nat /\ n >= 3 /\ n = Header + k
    BY DEF Header
<1>. HIDE DEF w, n
<1>2. \A i \in 1 .. Len(raw) : raw[i] \in Byte
    BY ElementOfSeq DEF Line
<1>2a. Len(raw) \in Nat /\ Len(raw) >= n /\ raw \in Seq(Byte)
    BY <1>0, LenProperties DEF Line
<1>3. ASSUME raw[1] = k, raw[3] = type
      PROVE  w \in Seq(Byte) /\ \A i \in 1 .. n : w[i] = raw[i]
    <2>1. \A i \in 1 .. n : w[i] = raw[i]
        <3>1. \A i \in 1 .. n : i = 1 \/ i = 2 \/ i = 3 \/ i \in Header + 1 .. n
            BY <1>0 DEF Header
        <3>. QED  BY <1>1, <1>3, <3>1
    <2>2. \A i \in 1 .. n : w[i] \in Byte
        BY <1>0, <1>2, <1>2a, <2>1
    <2>3. PICK S : w \in Seq(S)
        BY <1>1
    <2>4. w \in [1 .. n -> Byte]
        BY <1>1, <2>2, <2>3, LenProperties
    <2>. QED  BY <1>0, <2>1, <2>4
<1>4. ASSUME raw = Append(w, Checksum(w))
      PROVE  Len(raw) = n + 1 /\ raw[1] = k /\ raw[3] = type /\ Sum(raw) = 0
    <2>1. PICK S : w \in Seq(S)
        BY <1>1
    <2>. DEFINE c == Checksum(w)
                T == S \union {c}
    <2>2. w \in Seq(T) /\ c \in T
        <3>. HIDE DEF c
        <3>. QED  BY <2>1, SeqMonotonic
    <2>. HIDE DEF c, T
    <2>3. /\ Len(Append(w, c)) = n + 1
          /\ \A i \in 1 .. n : Append(w, c)[i] = w[i]
          /\ Append(w, c)[n + 1] = c
        BY <1>1, <2>2, AppendProperties
    <2>4. raw = Append(w, c)
        BY <1>4 DEF c
    <2>5. Len(raw) = n + 1 /\ raw[1] = k /\ raw[3] = type
        BY <1>0, <1>1, <2>3, <2>4
    <2>6. w \in Seq(Byte)
        BY <1>3, <2>5
    <2>7. c \in Byte
        <3>1. raw[n + 1] = c /\ n + 1 \in 1 .. Len(raw)
            BY <1>0, <2>3, <2>4, <2>5
        <3>. QED  BY <1>2, <3>1
    <2>8. Sum(raw) = 0
        BY <2>4, <2>6, <2>7, ChecksumIs DEF c
    <2>. QED  BY <2>5, <2>8
<1>5. ASSUME Len(raw) = n + 1, raw[1] = k, raw[3] = type, Sum(raw) = 0
      PROVE  raw = Append(w, Checksum(w))
    <2>. DEFINE c == raw[n + 1]
                t == Append(w, c)
    <2>1. w \in Seq(Byte) /\ \A i \in 1 .. n : w[i] = raw[i]
        BY <1>3, <1>5
    <2>2. c \in Byte
        <3>1. n + 1 \in 1 .. Len(raw)
            BY <1>0, <1>5
        <3>. QED  BY <1>2, <3>1
    <2>3. t \in Seq(Byte) /\ Len(t) = n + 1 /\ t[n + 1] = c /\ \A i \in 1 .. n : t[i] = w[i]
        <3>. HIDE DEF c
        <3>. QED  BY <1>1, <2>1, <2>2, AppendProperties
    <2>4. \A i \in 1 .. n + 1 : t[i] = raw[i]
        <3>1. \A i \in 1 .. n + 1 : i \in 1 .. n \/ i = n + 1
            BY <1>0
        <3>2. t[n + 1] = raw[n + 1]
            BY <2>3
        <3>. HIDE DEF t, c
        <3>. QED  BY <2>1, <2>3, <3>1, <3>2
    <2>5. raw = t
        <3>. HIDE DEF t, c
        <3>. QED  BY <1>2a, <1>5, <2>3, <2>4, SeqEqual
    <2>6. Sum(Append(w, c)) = 0
        BY <1>5, <2>5
    <2>7. c = Checksum(w)
        <3>. HIDE DEF c, t
        <3>. QED  BY <2>1, <2>2, <2>6, ChecksumIs
    <2>. HIDE DEF c
    <2>. QED  BY <2>5, <2>7
<1>6. n + 1 = Header + k + 1
    BY DEF n
<1>. QED  BY <1>4, <1>5, <1>6 DEF w

\* What parseHex takes for a record of a type.
Takes(type, raw) == raw # Blank /\ Bytes(raw) /\ BodyOk(raw) /\ Type(raw) = type

\* A line of which as many bytes are declared as it has is taken just when it has been
\* written.
LEMMA TakenIsWritten ==
    ASSUME NEW raw \in Lines, NEW type
    PROVE  /\ IsRecord(type, raw) <=> Takes(type, raw)
           /\ Takes(type, raw) => raw \in Encodings(type, Record(raw, Count(raw)))
<1>1. ASSUME NEW k \in Nat, Line(raw), Len(raw) >= Header + k
      PROVE  raw \in Encodings(type, Record(raw, k)) <=>
                /\ raw[1] = k /\ raw[3] = type
                /\ Len(raw) = Header + k \/ (Len(raw) = Header + k + 1 /\ Sum(raw) = 0)
    <2>. DEFINE w == Written(type, Record(raw, k))
    <2>1. Encodings(type, Record(raw, k)) = {w, Append(w, Checksum(w))}
        BY DEF Encodings, Written
    <2>2. raw = w <=> Len(raw) = Header + k /\ raw[1] = k /\ raw[3] = type
        BY <1>1, PlainLine
    <2>3. raw = Append(w, Checksum(w)) <=>
             /\ Len(raw) = Header + k + 1 /\ raw[1] = k /\ raw[3] = type
             /\ Sum(raw) = 0
        BY <1>1, CheckedLine
    <2>. HIDE DEF w
    <2>. QED  BY <2>1, <2>2, <2>3
<1>2. CASE Line(raw) /\ Len(raw) <= Header + MaxData
    <2>1. Len(raw) \in Nat /\ raw # Blank /\ raw \in Seq(Byte)
        BY <1>2, LenProperties DEF Line, Blank
    <2>2. \A i \in 1 .. Len(raw) : raw[i] \in Byte
        BY <1>2, ElementOfSeq DEF Line
    <2>3. raw # Garbage
        <3>1. Garbage[1] = ByteSize /\ ByteSize \notin Byte
            BY SizeOfByte DEF Garbage, Byte
        <3>2. 1 \in 1 .. Len(raw)
            BY <1>2, <2>1 DEF Line
        <3>. QED  BY <2>2, <3>1, <3>2
    <2>4. ASSUME IsRecord(type, raw) PROVE Takes(type, raw)
        <3>1. PICK k \in 0 .. MaxData : Len(raw) >= Header + k /\ raw \in Encodings(type, Record(raw, k))
            BY <2>4 DEF IsRecord, Record
        <3>2. /\ raw[1] = k /\ raw[3] = type
              /\ Len(raw) = Header + k \/ (Len(raw) = Header + k + 1 /\ Sum(raw) = 0)
            BY <1>1, <1>2, <3>1
        <3>3. Len(raw) >= Header
            BY <2>1, <3>1 DEF Header
        <3>4. BodyOk(raw)
            <4>1. Len(raw) = Header + k => Len(raw) - Header = k
                BY <2>1 DEF Header
            <4>2. Len(raw) = Header + k + 1 => Len(raw) - Header = k + 1
                BY <2>1 DEF Header
            <4>. QED  BY <3>2, <4>1, <4>2 DEF BodyOk, Rest, Count
        <3>. QED  BY <2>1, <2>3, <3>2, <3>3, <3>4 DEF Takes, Bytes, Type
    <2>5. ASSUME Takes(type, raw)
          PROVE  IsRecord(type, raw) /\ raw \in Encodings(type, Record(raw, Count(raw)))
        <3>. DEFINE k == raw[1]
        <3>1. Len(raw) >= Header /\ raw[3] = type
            BY <2>5 DEF Takes, Bytes, Type
        <3>2. k \in Nat
            <4>1. 1 \in 1 .. Len(raw)
                BY <2>1, <3>1 DEF Header
            <4>. QED  BY <2>2, <4>1, SizeOfByte DEF Byte
        <3>. HIDE DEF k
        <3>3. Len(raw) - Header = k \/ (Len(raw) - Header = k + 1 /\ Sum(raw) = 0)
            BY <2>5 DEF Takes, BodyOk, Rest, Count, k
        <3>4. Len(raw) = Header + k \/ (Len(raw) = Header + k + 1 /\ Sum(raw) = 0)
            <4>1. Len(raw) - Header = k => Len(raw) = Header + k
                BY <2>1, <3>2 DEF Header
            <4>2. Len(raw) - Header = k + 1 => Len(raw) = Header + k + 1
                BY <2>1, <3>2 DEF Header
            <4>. QED  BY <3>3, <4>1, <4>2
        <3>5. Len(raw) >= Header + k
            BY <2>1, <3>2, <3>4 DEF Header
        <3>6. k \in 0 .. MaxData
            <4>1. Len(raw) <= Header + MaxData /\ MaxData \in Nat
                BY <1>2, HexAssumption DEF HexAssumption
            <4>. QED  BY <2>1, <3>2, <3>5, <4>1 DEF Header
        <3>7. raw \in Encodings(type, Record(raw, k))
            BY <1>1, <1>2, <3>1, <3>2, <3>4, <3>5 DEF k
        <3>. QED  BY <3>5, <3>6, <3>7 DEF IsRecord, Record, Count, k
    <2>. QED  BY <2>4, <2>5
<1>3. CASE raw = Blank \/ raw = Garbage
    <2>1. ~Takes(type, raw)
        BY <1>3 DEF Takes, Bytes
    <2>2. Len(raw) = 0 \/ Len(raw) = 1
        BY <1>3, GarbageIs DEF Blank
    <2>3. \A k \in 0 .. MaxData : ~(Len(raw) >= Header + k)
        <3>1. \A a, k \in Int : (a = 0 \/ a = 1) /\ k >= 0 => ~(a >= 3 + k)
            OBVIOUS
        <3>2. \A k \in 0 .. MaxData : k \in Int /\ k >= 0
            BY HexAssumption DEF HexAssumption
        <3>3. Len(raw) \in Int
            BY <2>2
        <3>. QED  BY <2>2, <3>1, <3>2, <3>3 DEF Header
    <2>. QED  BY <2>1, <2>3 DEF IsRecord
<1>. QED  BY <1>2, <1>3, LinesAre

-----------------------------------------------------------------------------
(* Part 3: the inductive invariant.                                          *)

\* The lines up to the n-th that are not blank.
Filled(n) == {j \in 1 .. n : text[j] # Blank}

\* Behind the next line are blank lines and records, and the records have been read.
Behind ==
    /\ \A j \in 1 .. line - 1 : text[j] = Blank \/ IsRecord(Data, text[j])
    /\ Len(out) = Cardinality(Filled(line - 1))
    /\ \A i \in Filled(line - 1) :
          text[i] \in Encodings(Data, out[Cardinality(Filled(i))])

\* The line at which the parser has returned is the reason.
Returned ==
    /\ result = "records" => line > Len(text) \/ IsRecord(End, text[line])
    /\ result = "refused" =>
          /\ line <= Len(text)
          /\ text[line] # Blank
          /\ ~IsRecord(Data, text[line])
          /\ ~IsRecord(End, text[line])

Types ==
    /\ text \in Seq(Lines)
    /\ line \in 1 .. Len(text) + 1
    /\ \E S : out \in Seq(S)

Inv == Types /\ Behind /\ Returned

LEMMA FilledIs ==
    ASSUME NEW n \in Nat
    PROVE  /\ IsFiniteSet(Filled(n)) /\ Cardinality(Filled(n)) \in Nat
           /\ Cardinality(Filled(n + 1)) =
                 Cardinality(Filled(n)) + (IF text[n + 1] = Blank THEN 0 ELSE 1)
<1>1. IsFiniteSet(Filled(n)) /\ Cardinality(Filled(n)) \in Nat
    <2>1. Filled(n) \in SUBSET (1 .. n)
        BY DEF Filled
    <2>2. IsFiniteSet(1 .. n)
        BY FS_Interval
    <2>3. IsFiniteSet(Filled(n))
        BY <2>1, <2>2, FS_Subset
    <2>. QED  BY <2>3, FS_CardinalityType
<1>2. Filled(n + 1) = IF text[n + 1] = Blank THEN Filled(n) ELSE Filled(n) \union {n + 1}
    BY DEF Filled
<1>3. n + 1 \notin Filled(n)
    BY DEF Filled
<1>. QED  BY <1>1, <1>2, <1>3, FS_AddElement

\* The places of records do not go down.
LEMMA FilledFits ==
    ASSUME NEW n \in Nat, NEW i \in Filled(n)
    PROVE  Cardinality(Filled(i)) \in 1 .. Cardinality(Filled(n))
<1>1. i \in 1 .. n /\ i \in Filled(i) /\ Filled(i) \in SUBSET Filled(n)
    BY DEF Filled
<1>2. i \in Nat /\ Filled(i) # {}
    BY <1>1
<1>3. Cardinality(Filled(i)) \in Nat /\ Cardinality(Filled(n)) \in Nat
    BY <1>2, FilledIs
<1>4. Cardinality(Filled(i)) <= Cardinality(Filled(n)) /\ Cardinality(Filled(i)) # 0
    BY <1>1, <1>2, FilledIs, FS_Subset, FS_EmptySet
<1>. QED  BY <1>3, <1>4

LEMMA InitInv == Init => Inv
<1>. SUFFICES ASSUME Init PROVE Inv
    OBVIOUS
<1>1. text \in Seq(Lines) /\ Len(text) \in Nat
    <2>1. PICK k \in 0 .. MaxLines : text \in [1 .. k -> Lines]
        BY DEF Init
    <2>2. k \in Nat
        BY HexAssumption DEF HexAssumption
    <2>3. text \in Seq(Lines)
        BY <2>1, <2>2
    <2>. QED  BY <2>3, LenProperties
<1>2. Types
    BY <1>1, EmptySeq DEF Init, Types
<1>3. Behind
    <2>1. Filled(0) = {} /\ line - 1 = 0
        BY DEF Filled, Init
    <2>2. Cardinality({}) = 0
        BY FS_EmptySet
    <2>3. out = <<>> /\ Len(out) = 0
        BY EmptySeq DEF Init
    <2>4. \A j \in 1 .. line - 1 : FALSE
        BY <2>1
    <2>5. \A i \in Filled(line - 1) : FALSE
        BY <2>1
    <2>6. Len(out) = Cardinality(Filled(line - 1))
        BY <2>1, <2>2, <2>3
    <2>. QED  BY <2>4, <2>5, <2>6 DEF Behind
<1>. QED  BY <1>2, <1>3 DEF Inv, Returned, Init

\* The next line, one of the text's.
LEMMA ReadIs ==
    ASSUME Types, line <= Len(text)
    PROVE  /\ Read \in Lines /\ line \in Nat /\ line \in 1 .. Len(text)
           /\ line - 1 \in Nat /\ line + 1 \in 1 .. Len(text) + 1 /\ (line - 1) + 1 = line
           /\ (line + 1) - 1 = line
<1>1. Len(text) \in Nat
    BY LenProperties DEF Types
<1>2. line \in 1 .. Len(text)
    BY <1>1 DEF Types
<1>. QED  BY <1>1, <1>2, ElementOfSeq DEF Types, Read

LEMMA BlankInv == Inv /\ line <= Len(text) /\ result = "none" /\ SkipBlank => Inv'
<1>. SUFFICES ASSUME Inv, line <= Len(text), result = "none", SkipBlank PROVE Inv'
    OBVIOUS
<1>1. /\ text[line] = Blank /\ line' = line + 1 /\ text' = text /\ out' = out
      /\ result' = result
    BY DEF SkipBlank, Read
<1>2. /\ line - 1 \in Nat /\ line + 1 \in 1 .. Len(text) + 1 /\ (line - 1) + 1 = line
      /\ (line + 1) - 1 = line
    BY ReadIs DEF Inv
<1>3. Filled(line) = Filled(line - 1)
    BY <1>1, <1>2 DEF Filled
<1>4. Types'
    BY <1>1, <1>2 DEF Inv, Types
<1>5. Behind'
    <2>1. \A j \in 1 .. line : j \in 1 .. line - 1 \/ j = line
        BY <1>2
    <2>2. \A j \in 1 .. line : text[j] = Blank \/ IsRecord(Data, text[j])
        BY <1>1, <2>1 DEF Inv, Behind
    <2>3. /\ Len(out) = Cardinality(Filled(line))
          /\ \A i \in Filled(line) : text[i] \in Encodings(Data, out[Cardinality(Filled(i))])
        BY <1>3 DEF Inv, Behind
    <2>. QED  BY <1>1, <1>2, <2>2, <2>3 DEF Behind, Filled
<1>. QED  BY <1>1, <1>4, <1>5 DEF Inv, Returned

LEMMA DataInv == Inv /\ line <= Len(text) /\ result = "none" /\ DataRecord => Inv'
<1>. SUFFICES ASSUME Inv, line <= Len(text), result = "none", DataRecord PROVE Inv'
    OBVIOUS
<1>. DEFINE rec == Record(text[line], Count(text[line]))
<1>1. /\ Takes(Data, text[line]) /\ line' = line + 1 /\ text' = text
      /\ out' = Append(out, rec) /\ result' = result
    BY DEF DataRecord, Read, Accepted, Takes, Record, Address
<1>. HIDE DEF rec
<1>2. /\ text[line] \in Lines
      /\ line - 1 \in Nat /\ line + 1 \in 1 .. Len(text) + 1 /\ (line - 1) + 1 = line
      /\ (line + 1) - 1 = line
    BY ReadIs DEF Inv, Read
<1>3. IsRecord(Data, text[line]) /\ text[line] \in Encodings(Data, rec)
    BY <1>1, <1>2, TakenIsWritten DEF rec
<1>4. text[line] # Blank
    BY <1>1 DEF Takes
<1>5. /\ Cardinality(Filled(line - 1)) \in Nat
      /\ Cardinality(Filled(line)) = Cardinality(Filled(line - 1)) + 1
    BY <1>2, <1>4, FilledIs
<1>6. PICK S : out \in Seq(S)
    BY DEF Inv, Types
<1>7. /\ \E T : out' \in Seq(T)
      /\ Len(out') = Len(out) + 1
      /\ \A n \in 1 .. Len(out) : out'[n] = out[n]
      /\ out'[Len(out) + 1] = rec
    <2>. DEFINE T == S \union {rec}
    <2>1. out \in Seq(T) /\ rec \in T
        BY <1>6, SeqMonotonic
    <2>. HIDE DEF T
    <2>. QED  BY <1>1, <2>1, AppendProperties
<1>8. Types'
    BY <1>1, <1>2, <1>7 DEF Inv, Types
<1>9. Behind'
    <2>1. \A j \in 1 .. line : j \in 1 .. line - 1 \/ j = line
        BY <1>2
    <2>2. \A j \in 1 .. line : text[j] = Blank \/ IsRecord(Data, text[j])
        BY <1>3, <2>1 DEF Inv, Behind
    <2>3. Len(out') = Cardinality(Filled(line))
        BY <1>5, <1>7 DEF Inv, Behind
    <2>4. ASSUME NEW i \in Filled(line)
          PROVE  text[i] \in Encodings(Data, out'[Cardinality(Filled(i))])
        <3>1. CASE i = line
            <4>1. Cardinality(Filled(i)) = Len(out) + 1
                BY <1>5, <3>1 DEF Inv, Behind
            <4>. QED  BY <1>3, <1>7, <3>1, <4>1
        <3>2. CASE i # line
            <4>1. i \in Filled(line - 1)
                BY <1>2, <2>1, <3>2 DEF Filled
            <4>2. Cardinality(Filled(i)) \in 1 .. Len(out)
                BY <1>2, <4>1, FilledFits DEF Inv, Behind
            <4>3. text[i] \in Encodings(Data, out[Cardinality(Filled(i))])
                BY <4>1 DEF Inv, Behind
            <4>. QED  BY <1>7, <4>2, <4>3
        <3>. QED  BY <3>1, <3>2
    <2>. QED  BY <1>1, <1>2, <2>2, <2>3, <2>4 DEF Behind, Filled
<1>. QED  BY <1>1, <1>8, <1>9 DEF Inv, Returned

\* The parser returns: only the reason is to be shown.
LEMMA ReturnInv ==
    ASSUME Inv, NEW r, Returns(r), Returned'
    PROVE  Inv'
<1>1. text' = text /\ line' = line /\ out' = out
    BY DEF Returns
<1>. QED  BY <1>1 DEF Inv, Types, Behind, Filled

LEMMA NextInv == Inv /\ [Next]_vars => Inv'
<1>. SUFFICES ASSUME Inv, [Next]_vars PROVE Inv'
    OBVIOUS
<1>1. CASE Exhausted /\ Next
    <2>1. Returned'
        BY <1>1 DEF Exhausted, Returns, Returned
    <2>. QED  BY <1>1, <2>1, ReturnInv DEF Exhausted
<1>2. CASE result = "none" /\ line <= Len(text) /\ SkipBlank
    BY <1>2, BlankInv
<1>3. CASE result = "none" /\ line <= Len(text) /\ DataRecord
    BY <1>3, DataInv
<1>4. CASE result = "none" /\ line <= Len(text) /\ EndRecord
    <2>1. text[line] \in Lines
        BY <1>4, ReadIs DEF Inv, Read
    <2>2. Takes(End, text[line])
        BY <1>4 DEF EndRecord, Accepted, Read, Takes
    <2>3. IsRecord(End, text[line])
        BY <2>1, <2>2, TakenIsWritten
    <2>4. Returned'
        BY <1>4, <2>3 DEF EndRecord, Returns, Returned
    <2>. QED  BY <1>4, <2>4, ReturnInv DEF EndRecord
<1>5. CASE result = "none" /\ line <= Len(text) /\ Refuse
    <2>1. text[line] \in Lines
        BY <1>5, ReadIs DEF Inv, Read
    <2>2. text[line] # Blank /\ ~Takes(Data, text[line]) /\ ~Takes(End, text[line])
        BY <1>5 DEF Refuse, Accepted, Read, Takes
    <2>3. ~IsRecord(Data, text[line]) /\ ~IsRecord(End, text[line])
        BY <2>1, <2>2, TakenIsWritten
    <2>4. Returned'
        BY <1>5, <2>2, <2>3 DEF Refuse, Returns, Returned
    <2>. QED  BY <1>5, <2>4, ReturnInv DEF Refuse
<1>6. CASE UNCHANGED vars
    BY <1>6 DEF vars, Inv, Types, Behind, Filled, Returned
<1>. QED  BY <1>1, <1>2, <1>3, <1>4, <1>5, <1>6 DEF Next

-----------------------------------------------------------------------------
(* Part 4: the theorems.                                                     *)

\* A line that has been read, or is blank, is not an end record.
LEMMA NotTheEnd ==
    ASSUME Inv, NEW j \in 1 .. line - 1
    PROVE  ~IsRecord(End, text[j])
<1>1. Len(text) \in Nat /\ line \in 1 .. Len(text) + 1
    BY LenProperties DEF Inv, Types
<1>2. j \in 1 .. Len(text)
    BY <1>1
<1>3. text[j] \in Lines
    BY <1>2, ElementOfSeq DEF Inv, Types
<1>4. text[j] = Blank \/ Takes(Data, text[j])
    BY <1>3, TakenIsWritten DEF Inv, Behind
<1>5. ~Takes(End, text[j])
    BY <1>4 DEF Takes, Data, End
<1>. QED  BY <1>3, <1>5, TakenIsWritten

\* The lines behind the next are those that have been taken, one record each
\* (fx2.go:24-67).
THEOREM HexInvariant == Spec => []Inv
<1>. QED  BY InitInv, NextInv, PTL DEF Spec

\* For texts and lines of any length: the records returned are those that were written,
\* in order, each with its bytes, and nothing after the end record (fx2.go:22-68).
THEOREM ReadAsWritten == Spec => []ReadsWhatIsWritten
<1>1. Inv => ReadsWhatIsWritten
    <2>. SUFFICES ASSUME Inv, result = "records" PROVE ReadsWhatIsWritten
        BY DEF ReadsWhatIsWritten
    <2>1. Len(text) \in Nat /\ line \in 1 .. Len(text) + 1 /\ line - 1 \in Nat
        BY LenProperties DEF Inv, Types
    <2>2. ASSUME NEW i \in DataLines PROVE i \in Filled(line - 1)
        <3>1. i \in 1 .. Len(text) /\ text[i] # Blank
            BY DEF DataLines
        <3>2. CASE line > Len(text)
            BY <2>1, <3>1, <3>2 DEF Filled
        <3>3. CASE line <= Len(text) /\ IsRecord(End, text[line])
            <4>1. line \notin 1 .. i
                BY <3>3 DEF DataLines
            <4>2. i \in 1 .. line - 1
                BY <2>1, <3>1, <4>1
            <4>. QED  BY <3>1, <4>2 DEF Filled
        <3>. QED  BY <2>1, <3>2, <3>3 DEF Inv, Returned
    <2>3. ASSUME NEW i \in Filled(line - 1) PROVE i \in DataLines
        <3>1. i \in 1 .. line - 1 /\ text[i] # Blank
            BY DEF Filled
        <3>2. i \in 1 .. Len(text)
            BY <2>1, <3>1
        <3>3. \A j \in 1 .. i : j \in 1 .. line - 1
            BY <2>1, <3>1
        <3>. QED  BY <3>1, <3>2, <3>3, NotTheEnd DEF DataLines
    <2>4. DataLines = Filled(line - 1)
        BY <2>2, <2>3
    <2>5. WellFormed
        BY <2>4 DEF WellFormed, Inv, Behind, Filled
    <2>6. ASSUME NEW i \in DataLines
          PROVE  text[i] \in Encodings(Data, out[Place(i)])
        <3>1. {j \in DataLines : j <= i} = Filled(i)
            <4>1. i \in 1 .. line - 1
                BY <2>4 DEF Filled
            <4>. QED  BY <2>1, <2>4, <4>1 DEF Filled
        <3>. QED  BY <2>4, <3>1 DEF Place, Inv, Behind
    <2>. QED  BY <2>4, <2>5, <2>6 DEF ReadsWhatIsWritten, Inv, Behind
<1>. QED  BY <1>1, HexInvariant, PTL

\* For texts and lines of any length: a text that is refused has, before its first end
\* record, a line that is no record (fx2.go:29-64).
THEOREM RefusedForAReason == Spec => []RefusesOnlyBadText
<1>1. Inv => RefusesOnlyBadText
    <2>. SUFFICES ASSUME Inv, result = "refused" PROVE ~WellFormed
        BY DEF RefusesOnlyBadText
    <2>1. /\ line <= Len(text) /\ text[line] # Blank
          /\ ~IsRecord(Data, text[line]) /\ ~IsRecord(End, text[line])
        BY DEF Inv, Returned
    <2>2. line \in 1 .. Len(text) /\ \A j \in 1 .. line : j \in 1 .. line - 1 \/ j = line
        <3>1. line \in 1 .. Len(text) /\ line \in Nat
            BY <2>1, ReadIs DEF Inv
        <3>. QED  BY <3>1
    <2>3. \A j \in 1 .. line : ~IsRecord(End, text[j])
        BY <2>1, <2>2, NotTheEnd
    <2>4. line \in DataLines
        BY <2>1, <2>2, <2>3 DEF DataLines
    <2>. QED  BY <2>1, <2>4 DEF WellFormed
<1>. QED  BY <1>1, HexInvariant, PTL
=============================================================================
