-------------------------------- MODULE HexImage --------------------------------
(***************************************************************************)
(* parseHex of fx2.go: the records of a firmware image in Intel HEX, with  *)
(* or without checksums, one line at a time, against a definition of what  *)
(* such a text says.                                                       *)
(*                                                                         *)
(* A line is what is left of it when blanks are trimmed: nothing, something*)
(* that is not a colon and whole bytes, or bytes.  The two bytes of an     *)
(* address are one here.  A definition whose name ends in Slip is used     *)
(* nowhere: it is the one that follows it with a plausible mistake, which  *)
(* a property must notice.                                                 *)
(***************************************************************************)
EXTENDS Integers, Sequences, FiniteSets, SequencesExt

CONSTANTS
    ByteSize,       \* values of a byte (256)
    MaxData,        \* bound: bytes after a line's header
    MaxLines        \* bound: lines of a text

ASSUME HexAssumption ==
    /\ ByteSize \in Nat /\ ByteSize > 2
    /\ MaxData \in Nat
    /\ MaxLines \in Nat

VARIABLES
    text,       \* the lines
    line,       \* the line to be read next
    out,        \* the records read so far
    result      \* "none" until the parser returns: "records" or "refused"

vars == <<text, line, out, result>>

Byte == 0 .. ByteSize - 1

Header == 3     \* a count, an address, a type

Data == 0
End == 1

\* A line is a sequence of bytes, none when it is blank; garbage is written as one
\* that is no byte.
Blank == <<>>
Garbage == <<ByteSize>>

Lines == {Blank, Garbage} \union
         UNION {[1 .. k -> Byte] : k \in 1 .. Header + MaxData}

Sum(raw) == FoldLeft(LAMBDA a, b : (a + b) % ByteSize, 0, raw)

Count(raw) == raw[1]
Address(raw) == raw[2]
Type(raw) == raw[3]
Rest(raw) == Len(raw) - Header

\* A checksum taken for granted.
BodyOkSlip(raw) == Rest(raw) \in {Count(raw), Count(raw) + 1}

\* As many bytes as declared, or those and a checksum that validates.
BodyOk(raw) ==
    \/ Rest(raw) = Count(raw)
    \/ Rest(raw) = Count(raw) + 1 /\ Sum(raw) = 0

\* The bytes of a header refused for want of one more.
BytesSlip(raw) == raw # Garbage /\ Len(raw) > Header

Bytes(raw) == raw # Garbage /\ Len(raw) >= Header

Read == text[line]

Returns(r) ==
    /\ result' = r
    /\ UNCHANGED <<text, line, out>>

SkipBlank ==
    /\ Read = Blank
    /\ line' = line + 1
    /\ UNCHANGED <<text, out, result>>

Accepted == Read # Blank /\ Bytes(Read) /\ BodyOk(Read)

\* No colon, no whole bytes, too short, a length or a checksum that is wrong, or an
\* unsupported type.
Refuse ==
    /\ Read # Blank
    /\ ~(Accepted /\ Type(Read) \in {Data, End})
    /\ Returns("refused")

DataRecord ==
    /\ Accepted
    /\ Type(Read) = Data
    /\ out' = Append(out, [addr |-> Address(Read),
                           data |-> SubSeq(Read, Header + 1, Header + Count(Read))])
    /\ line' = line + 1
    /\ UNCHANGED <<text, result>>

EndRecord ==
    /\ Accepted
    /\ Type(Read) = End
    /\ Returns("records")

\* The text ends without an end record.
Exhausted ==
    /\ line > Len(text)
    /\ Returns("records")

Init ==
    /\ text \in UNION {[1 .. k -> Lines] : k \in 0 .. MaxLines}
    /\ line = 1
    /\ out = <<>>
    /\ result = "none"

Next ==
    /\ result = "none"
    /\ \/ line <= Len(text) /\ (SkipBlank \/ Refuse \/ DataRecord \/ EndRecord)
       \/ Exhausted

Spec == Init /\ [][Next]_vars

-----------------------------------------------------------------------------
(* What a text says, from the writer's side.                                 *)

Checksum(bytes) == (ByteSize - Sum(bytes)) % ByteSize

\* The two ways to write a record of a type.
Encodings(type, rec) ==
    LET bytes == <<Len(rec.data), rec.addr, type>> \o rec.data
    IN  {bytes, Append(bytes, Checksum(bytes))}

\* Some record, its address and its data in their places, is written so.
IsRecord(type, raw) ==
    \E k \in 0 .. MaxData :
        /\ Len(raw) >= Header + k
        /\ raw \in Encodings(type, [addr |-> raw[2],
                                    data |-> SubSeq(raw, Header + 1, Header + k)])

\* The lines that count, by number: those before the first end record, but for blank
\* ones.
DataLines ==
    {i \in 1 .. Len(text) :
        text[i] # Blank /\ \A j \in 1 .. i : ~IsRecord(End, text[j])}

WellFormed == \A i \in DataLines : IsRecord(Data, text[i])

\* The place of a line among them.
Place(i) == Cardinality({j \in DataLines : j <= i})

-----------------------------------------------------------------------------
(* Properties.                                                               *)

(* What is returned is what was written: the records of the data lines up to the
   first end record, in order, each with the bytes its writer put in, with or
   without a checksum; nothing after the end record is looked at
   (fx2.go:22-68).                                                           *)
ReadsWhatIsWritten ==
    result = "records" =>
        /\ WellFormed
        /\ Len(out) = Cardinality(DataLines)
        /\ \A i \in DataLines : text[i] \in Encodings(Data, out[Place(i)])

(* Only a text that is not well formed is refused: a mixture of records with and
   without checksums, blank lines, records without data and whatever follows an end
   record are all taken (fx2.go:44-54).                                      *)
RefusesOnlyBadText == result = "refused" => ~WellFormed
=============================================================================
