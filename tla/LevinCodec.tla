------------------------------- MODULE LevinCodec ------------------------------
(***************************************************************************)
(* The formats of payloads in go/node/levin: the epee varint (varint.go)   *)
(* and the portable storage (storage.go), as pure operators on sequences   *)
(* of bytes.                                                               *)
(***************************************************************************)
EXTENDS LevinHeader, SequencesExt

\* A core.Result that has read a value and consumed bytes.
Read(value, used) == [ok |-> TRUE, val |-> value, used |-> used]

--------------------------------------------------------------------------------
\* varint.go: the largest value of each width; two bits of it are the mark.
VarintMax(i) == Word(Widths[i]) \div 4 - 1

MutVarintSize(v) ==
    IF \E i \in 1..3 : v <= VarintMax(i) + 1
      THEN CHOOSE i \in 1..3 : /\ v <= VarintMax(i) + 1
                               /\ \A j \in 1..(i - 1) : v > VarintMax(j) + 1
      ELSE 4

\* The case of PackVarint's switch: the smallest width that holds v, and the
\* largest one for everything else.
VarintSize(v) ==
    IF \E i \in 1..3 : v <= VarintMax(i)
      THEN CHOOSE i \in 1..3 : /\ v <= VarintMax(i)
                               /\ \A j \in 1..(i - 1) : v > VarintMax(j)
      ELSE 4

\* (v << 2) | mark, little-endian; the bits shifted out of the word are lost.
PackVarint(v) ==
    LET i == VarintSize(v) IN LittleEndian(v * 4 + (i - 1), Widths[i])

\* The mark in the low two bits of the first byte says how many bytes follow.
UnpackVarint(buf) ==
    IF Len(buf) = 0 THEN Fail ELSE
    LET w == Widths[(buf[1] % 4) + 1]
    IN  IF Len(buf) < w THEN Fail
        ELSE Read(FromLittleEndian(SubSeq(buf, 1, w)) \div 4, w)

--------------------------------------------------------------------------------
\* storage.go: the type tags.  A Section is a function from names to Values, a
\* Value a type tag and what the Go struct holds for it; names and strings are
\* sequences of bytes.
TypeInt64 == 1
TypeInt32 == 2
TypeInt16 == 3
TypeInt8 == 4
TypeUint64 == 5
TypeUint32 == 6
TypeUint16 == 7
TypeUint8 == 8
TypeDouble == 9
TypeString == 10
TypeBool == 11
TypeObject == 12
ArrayFlag == Base \div 2

\* Bytes of the values of fixed size.  A double is its bit pattern, which
\* math.Float64bits and Float64frombits carry over unchanged.
FixedWidth ==
    [t \in {TypeInt64, TypeUint64, TypeDouble} |-> Widths[4]] @@
    [t \in {TypeInt32, TypeUint32} |-> Widths[3]] @@
    [t \in {TypeInt16, TypeUint16} |-> Widths[2]] @@
    [t \in {TypeInt8, TypeUint8} |-> Widths[1]]

SignedTypes == {TypeInt64, TypeInt32, TypeInt16, TypeInt8}

\* The order of slices.Sorted on names: bytewise, a prefix first.
NameLess(a, b) ==
    \/ IsStrictPrefix(a, b)
    \/ \E i \in 1..Len(a) :
          /\ i <= Len(b)
          /\ a[i] < b[i]
          /\ SubSeq(a, 1, i - 1) = SubSeq(b, 1, i - 1)

\* The results of encoding some parts one after the other: the first failure,
\* or the bytes of all of them.
Joined(parts) ==
    IF \E i \in DOMAIN parts : ~parts[i].ok THEN Fail
    ELSE [ok |-> TRUE, bytes |-> FlattenSeq([i \in DOMAIN parts |-> parts[i].bytes])]

Bytes(s) == [ok |-> TRUE, bytes |-> s]

\* A varint length and the bytes of a string.
EncodeString(s) == PackVarint(Len(s)) \o s

RECURSIVE encodeSection(_), encodeValue(_), encodeArray(_)

\* Element count, then name, tag and value of each entry in the order of names.
encodeSection(s) ==
    LET keys == SetToSortSeq(DOMAIN s, NameLess)
        entry(name) ==
            IF Len(name) > Base - 1 THEN Fail
            ELSE Joined(<<Bytes(<<Len(name)>> \o name \o <<s[name].type>>),
                          encodeValue(s[name])>>)
    IN  Joined(<<Bytes(PackVarint(Len(keys)))>>
                 \o [i \in DOMAIN keys |-> entry(keys[i])])

\* One value, without its tag.
encodeValue(v) ==
    CASE v.type >= ArrayFlag -> encodeArray(v)
      [] v.type \in DOMAIN FixedWidth ->
             Bytes(LittleEndian(v.val, FixedWidth[v.type]))
      [] v.type = TypeBool -> Bytes(<<IF v.val THEN 1 ELSE 0>>)
      [] v.type = TypeString -> Bytes(EncodeString(v.val))
      [] v.type = TypeObject -> encodeSection(v.val)
      [] OTHER -> Fail

\* Element count and elements; only these four types have arrays.
encodeArray(v) ==
    LET elem == v.type - ArrayFlag
        element(e) ==
            CASE elem \in {TypeUint64, TypeUint32} ->
                     Bytes(LittleEndian(e, FixedWidth[elem]))
              [] elem = TypeString -> Bytes(EncodeString(e))
              [] elem = TypeObject -> encodeSection(e)
    IN  IF elem \notin {TypeUint64, TypeUint32, TypeString, TypeObject} THEN Fail
        ELSE Joined(<<Bytes(PackVarint(Len(v.val)))>>
                      \o [i \in DOMAIN v.val |-> element(v.val[i])])

StorageSignatureA == 16847105
StorageSignatureB == 16908545
StorageVersion == 1

StorageHeader ==
    LittleEndian(StorageSignatureA, Widths[3])
      \o LittleEndian(StorageSignatureB, Widths[3]) \o <<StorageVersion>>

EncodeStorage(s) == Joined(<<Bytes(StorageHeader), encodeSection(s)>>)

--------------------------------------------------------------------------------
\* What op makes of something that was read, or the failure to read it.
Then(result, op(_)) == IF result.ok THEN op(result) ELSE Fail

\* The first n items that item(off) reads from a buffer, each where the one
\* before it ended: their values in order and the offset after the last one.
RECURSIVE Items(_, _, _)
Items(item(_), n, off) ==
    IF n = 0 THEN Read(<<>>, off)
    ELSE Then(item(off),
              LAMBDA first :
                Then(Items(item, n - 1, off + first.used),
                     LAMBDA rest : Read(<<first.val>> \o rest.val, rest.used)))

\* An integer of w bytes, unsigned.
DecodeFixed(buf, w) ==
    IF Len(buf) < w THEN Fail ELSE Read(FromLittleEndian(SubSeq(buf, 1, w)), w)

\* A varint length and that many bytes.
DecodeString(buf) ==
    Then(UnpackVarint(buf),
         LAMBDA size :
           IF Len(buf) - size.used < size.val THEN Fail
           ELSE Read(SubSeq(buf, size.used + 1, size.used + size.val),
                     size.used + size.val))

RECURSIVE decodeSection(_), decodeValue(_, _), decodeArray(_, _)

\* Element count, then the entries; an entry overwrites an earlier one of the
\* same name.
decodeSection(buf) ==
    LET entry(off) ==
            LET rest == From(buf, off)
                start == rest[1] + 2   \* after the name's length, the name, the tag
            IN  IF Len(rest) = 0 \/ Len(rest) < start THEN Fail
                ELSE Then(decodeValue(From(rest, start), rest[start]),
                          LAMBDA v : Read([name |-> SubSeq(rest, 2, start - 1),
                                           val |-> v.val], start + v.used))
        LastOf(name, entries) ==
            entries[SelectLastInSeq(entries, LAMBDA e : e.name = name)].val
        section(items) ==
            Read([name \in {e.name : e \in ToSet(items.val)} |-> LastOf(name, items.val)],
                 items.used)
    IN  Then(UnpackVarint(buf),
             LAMBDA count : Then(Items(entry, count.val, count.used), section))

\* One value of the type tag that was read before it.
decodeValue(buf, tag) ==
    LET Held(v) == CASE tag \in SignedTypes -> Signed(v, FixedWidth[tag])
                     [] tag = TypeBool -> v # 0
                     [] OTHER -> v
    IN  IF tag >= ArrayFlag THEN decodeArray(buf, tag)
        ELSE Then(CASE tag \in DOMAIN FixedWidth -> DecodeFixed(buf, FixedWidth[tag])
                    [] tag = TypeBool -> DecodeFixed(buf, 1)
                    [] tag = TypeString -> DecodeString(buf)
                    [] tag = TypeObject -> decodeSection(buf)
                    [] OTHER -> Fail,
                  LAMBDA r : Read([type |-> tag, val |-> Held(r.val)], r.used))

\* Element count and elements of an array.
decodeArray(buf, tag) ==
    LET elem == tag - ArrayFlag
        element(off) ==
            CASE elem \in {TypeUint64, TypeUint32} ->
                     DecodeFixed(From(buf, off), FixedWidth[elem])
              [] elem = TypeString -> DecodeString(From(buf, off))
              [] elem = TypeObject -> decodeSection(From(buf, off))
        array(items) == Read([type |-> tag, val |-> items.val], items.used)
    IN  IF elem \notin {TypeUint64, TypeUint32, TypeString, TypeObject} THEN Fail
        ELSE Then(UnpackVarint(buf),
                  LAMBDA count : Then(Items(element, count.val, count.used), array))

\* The header must be this package's; bytes after the root section are ignored.
DecodeStorage(data) ==
    IF ~IsPrefix(StorageHeader, data) THEN Fail
    ELSE decodeSection(From(data, Len(StorageHeader)))

\* Uint64Val, StringVal, ObjectArrayVal, ...: a value of a type.
Val(type, v) == [type |-> type, val |-> v]

\* AsUint64, AsString, AsSectionArray, ...: what a value of that type holds.
As(type, v) == IF v.type # type THEN Fail ELSE [ok |-> TRUE, val |-> v.val]
================================================================================
