------------------------------- MODULE LevinHeader -----------------------------
(***************************************************************************)
(* The header of a Levin packet (go/node/levin/header.go), as operators on *)
(* sequences of bytes, and the integers it is made of.                     *)
(*                                                                         *)
(* The code has 8-bit bytes and integers of 1, 2, 4 and 8 of them.  Both   *)
(* are constants here, so that every boundary of the formats is met with   *)
(* numbers and lengths that TLC can handle; the definitions are those of   *)
(* the code when Base = 256 and Widths = <<1, 2, 4, 8>>.                   *)
(***************************************************************************)
EXTENDS Integers, Sequences

CONSTANTS
    Base,      \* values of a byte
    Widths,    \* bytes of the four sizes of integer
    MaxPayloadSize  \* the package's limit on a payload, in bytes

\* A byte has six to eight bits: the type tags need the six.
ASSUME CodecAssumption ==
    /\ Base \in {64, 128, 256}
    /\ Widths \in [1..4 -> Nat]
    /\ Widths[1] = 1
    /\ \A i \in 1..3 : Widths[i] < Widths[i + 1]
    /\ MaxPayloadSize \in Nat

ByteRange == 0..(Base - 1)

\* Values of an unsigned integer of w bytes: 0 .. Word(w) - 1.
Word(w) ==
    LET power[i \in 0..w] == IF i = 0 THEN 1 ELSE Base * power[i - 1]
    IN  power[w]

\* binary.LittleEndian.PutUintXX, after the conversion to the unsigned type.
LittleEndian(n, w) == [i \in 1..w |-> ((n % Word(w)) \div Word(i - 1)) % Base]

\* binary.LittleEndian.UintXX
FromLittleEndian(bytes) ==
    LET upTo[i \in 0..Len(bytes)] ==
            IF i = 0 THEN 0 ELSE upTo[i - 1] + bytes[i] * Word(i - 1)
    IN  upTo[Len(bytes)]

\* Values of a signed integer of w bytes.
SignedWord(w) == (0 - Word(w) \div 2)..(Word(w) \div 2 - 1)

\* The conversion of an unsigned integer of w bytes to the signed type.
Signed(n, w) == IF n >= Word(w) \div 2 THEN n - Word(w) ELSE n

\* A failed core.Result.
Fail == [ok |-> FALSE]

\* buf[off:]
From(buf, off) == SubSeq(buf, off + 1, Len(buf))

--------------------------------------------------------------------------------
\* header.go.  The signature 0x0101010101012101, as many bytes as it has.
Signature == [i \in 1..Widths[4] |-> IF i = 2 THEN 33 ELSE 1]

HeaderSize == 2 * Widths[4] + 1 + 4 * Widths[3]

\* The header's fields, in their order; the signature is the same for all.
EncodeHeader(h) ==
    Signature
      \o LittleEndian(h.PayloadSize, Widths[4])
      \o <<IF h.ExpectResponse THEN 1 ELSE 0>>
      \o LittleEndian(h.Command, Widths[3])
      \o LittleEndian(h.ReturnCode, Widths[3])
      \o LittleEndian(h.Flags, Widths[3])
      \o LittleEndian(h.ProtocolVersion, Widths[3])

\* A foreign signature and a payload above the package's limit are refused.
DecodeHeader(buf) ==
    LET at == 2 * Widths[4] + 1
        size == FromLittleEndian(SubSeq(buf, Widths[4] + 1, 2 * Widths[4]))
        field(i) == FromLittleEndian(SubSeq(buf, at + (i - 1) * Widths[3] + 1,
                                                 at + i * Widths[3]))
    IN  IF SubSeq(buf, 1, Widths[4]) # Signature \/ size > MaxPayloadSize THEN Fail
        ELSE [ok |-> TRUE,
              val |-> [PayloadSize |-> size, ExpectResponse |-> buf[at] = 1,
                       Command |-> field(1),
                       ReturnCode |-> Signed(field(2), Widths[3]),
                       Flags |-> field(3), ProtocolVersion |-> field(4)]]
================================================================================
