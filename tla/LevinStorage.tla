------------------------------- MODULE LevinStorage ----------------------------
(***************************************************************************)
(* The payloads of a levin.Connection: sections in the portable storage    *)
(* format, which the application encodes before a call and decodes from    *)
(* what ReadPacket returns.                                                *)
(***************************************************************************)
EXTENDS Levin, LevinCodec

\* The application's side of a call: it encodes its section, or has no payload.
Encoded(section) == IF section = <<>> THEN Bytes(<<>>) ELSE EncodeStorage(section[1])

Types == 1..(ArrayFlag + TypeObject)

\* What the application finds in a section: for every name, the accessors that
\* answer and what they answer.
Fields(section) ==
    [name \in DOMAIN section |->
        {<<t, As(t, section[name]).val>> :
            t \in {u \in Types : As(u, section[name]).ok}}]

\* A length reads back whatever follows it, and no beginning of it does.
LengthExact(v) ==
    LET bytes == PackVarint(v)
    IN  /\ UnpackVarint(Append(bytes, 0)) = Read(v, Len(bytes))
        /\ \A n \in 0..(Len(bytes) - 1) : ~UnpackVarint(SubSeq(bytes, 1, n)).ok

\* A payload on its way reads back, through DecodeStorage and the accessors, as
\* exactly the section that was encoded, and no part of it that has lost its
\* last bytes reads as a section at all.  Nor do lengths and counts at the limits
\* of the four sizes of varint (varint.go:14), most of which are too large for
\* the sections of a run, read as others.
StorageExact ==
    \A w \in Writers :
        (wpc[w] = "payload") =>
            LET bytes == Call(w).payload.bytes
                back == DecodeStorage(bytes)
            IN  /\ back.ok
                /\ Fields(back.val) = Fields(Call(w).section[1])
                /\ \A n \in 0..(Len(bytes) - 1) : ~DecodeStorage(SubSeq(bytes, 1, n)).ok
                /\ \A i \in 1..4 : LengthExact(VarintMax(i))
                /\ \A i \in 1..3 : LengthExact(VarintMax(i) + 1)
================================================================================
