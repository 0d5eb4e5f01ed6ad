------------------------------- MODULE LevinProofs -----------------------------
(***************************************************************************)
(* A Levin connection, whose goroutines, two-part writes and broken-off    *)
(* reads implement a channel of whole packets: for every number of         *)
(* goroutines, every calls they make, every width of a byte and of the     *)
(* header's fields, every size limit and every place a call may stop at.   *)
(*                                                                         *)
(* The parts: little-endian integers; the header as bytes and back; where  *)
(* the frames of a sequence of calls lie in the stream, and what a write   *)
(* or a read does to that; the invariant; each action as a step of the     *)
(* channel.                                                                *)
(***************************************************************************)
EXTENDS Levin, WellFoundedInduction, TLAPS

\* Induction over the naturals, for a set.
LEMMA Induction ==
    ASSUME NEW S, 0 \in S, \A n \in Nat : n \in S => n + 1 \in S
    PROVE  \A n \in Nat : n \in S
<1> SUFFICES ASSUME NEW m \in Nat, m \notin S PROVE FALSE
  OBVIOUS
<1> DEFINE T == Nat \ S
<1>1. T \subseteq Nat /\ T # {}
  OBVIOUS
<1>2. PICK x \in T : \A y \in T : ~ (<<y, x>> \in OpToRel(<, Nat))
  BY <1>1, NatLessThanWellFounded, WFMin, Zenon
<1>3. x - 1 \in T
  <2>1. x \in Nat /\ x \notin S
    BY <1>2, Zenon
  <2>2. x # 0
    BY <2>1
  <2>3. x - 1 \in Nat /\ (x - 1) + 1 = x
    BY <2>1, <2>2
  <2> QED BY <2>1, <2>3
<1>4. <<x - 1, x>> \in Nat \X Nat
  BY <1>3
<1>5. <<x - 1, x>> \in OpToRel(<, Nat)
  BY <1>4 DEF OpToRel
<1> QED BY <1>2, <1>3, <1>5, Zenon

--------------------------------------------------------------------------------
\* The powers of Base that the recursion in Word computes.
PowersTo(f, w) == f = [i \in 0..w |-> IF i = 0 THEN 1 ELSE Base * f[i - 1]]

LEMMA PowersExist ==
    ASSUME NEW w \in Nat
    PROVE  \E f : PowersTo(f, w)
<1> DEFINE S == {k \in Nat : \E f : PowersTo(f, k)}
<1>1. 0 \in S
  <2>1. PowersTo([i \in 0..0 |-> 1], 0)
    BY DEF PowersTo
  <2> QED BY <2>1
<1>2. ASSUME NEW k \in Nat, k \in S PROVE k + 1 \in S
  <2>1. PICK f : PowersTo(f, k)
    BY <1>2
  <2> DEFINE g == [i \in 0..(k + 1) |-> IF i <= k THEN f[i] ELSE Base * f[k]]
  <2>2. ASSUME NEW i \in 0..(k + 1)
        PROVE  g[i] = IF i = 0 THEN 1 ELSE Base * g[i - 1]
    BY <2>1 DEF PowersTo
  <2>3. PowersTo(g, k + 1)
    BY <2>2, Zenon DEF PowersTo
  <2> QED BY <2>3
<1> HIDE DEF S
<1>3. w \in S
  BY <1>1, <1>2, Induction
<1> QED BY <1>3 DEF S

LEMMA WordPower ==
    ASSUME NEW w \in Nat
    PROVE  \E f : PowersTo(f, w) /\ Word(w) = f[w]
<1> DEFINE f == CHOOSE power :
                    power = [i \in 0..w |-> IF i = 0 THEN 1 ELSE Base * power[i - 1]]
<1>1. \E power : power = [i \in 0..w |-> IF i = 0 THEN 1 ELSE Base * power[i - 1]]
  BY PowersExist, Zenon DEF PowersTo
<1>2. PowersTo(f, w)
  BY <1>1, Zenon DEF PowersTo
<1>3. Word(w) = f[w]
  BY DEF Word
<1> QED BY <1>2, <1>3, Zenon

\* Word(w) is Base to the w.
LEMMA WordStep ==
    ASSUME NEW w \in Nat
    PROVE  Word(w + 1) = Base * Word(w)
<1>1. PICK f : PowersTo(f, w) /\ Word(w) = f[w]
  BY WordPower
<1>2. PICK g : PowersTo(g, w + 1) /\ Word(w + 1) = g[w + 1]
  BY WordPower
<1> DEFINE S == {i \in Nat : i <= w => f[i] = g[i]}
<1>3. 0 \in S
  BY <1>1, <1>2 DEF PowersTo
<1>4. ASSUME NEW i \in Nat, i \in S PROVE i + 1 \in S
  <2> SUFFICES ASSUME i + 1 <= w PROVE f[i + 1] = g[i + 1]
    OBVIOUS
  <2>1. f[i] = g[i]
    BY <1>4
  <2>2. f[i + 1] = Base * f[i]
    BY <1>1 DEF PowersTo
  <2>3. g[i + 1] = Base * g[i]
    BY <1>2 DEF PowersTo
  <2> QED BY <2>1, <2>2, <2>3
<1> HIDE DEF S
<1>5. w \in S
  BY <1>3, <1>4, Induction
<1>6. f[w] = g[w]
  BY <1>5 DEF S
<1>7. g[w + 1] = Base * g[w]
  BY <1>2 DEF PowersTo
<1> QED BY <1>1, <1>2, <1>6, <1>7

LEMMA WordZero == Word(0) = 1
<1>1. PICK f : PowersTo(f, 0) /\ Word(0) = f[0]
  BY WordPower
<1> QED BY <1>1 DEF PowersTo

LEMMA WordNat ==
    ASSUME NEW w \in Nat
    PROVE  Word(w) \in Nat /\ Word(w) > 0
<1> DEFINE S == {k \in Nat : Word(k) \in Nat /\ Word(k) > 0}
<1>1. 0 \in S
  BY WordZero
<1>2. ASSUME NEW k \in Nat, k \in S PROVE k + 1 \in S
  <2>1. Word(k) \in Nat /\ Word(k) > 0
    BY <1>2
  <2>2. Base * Word(k) \in Nat /\ Base * Word(k) > 0
    BY <2>1, CodecAssumption
  <2>3. Word(k + 1) = Base * Word(k)
    BY WordStep
  <2> QED BY <2>2, <2>3
<1> HIDE DEF S
<1>3. w \in S
  BY <1>1, <1>2, Induction
<1> QED BY <1>3 DEF S

LEMMA WordOfBytes ==
    ASSUME NEW w \in Nat, w > 0
    PROVE  Word(w) >= Base
<1>1. Word(w) = Base * Word(w - 1)
  BY WordStep
<1>2. Word(w - 1) \in Nat /\ Word(w - 1) > 0
  BY WordNat
<1> QED BY <1>1, <1>2, CodecAssumption

--------------------------------------------------------------------------------
\* The remainder of a division is the only number below the divisor that makes
\* up the difference to a multiple of it.
LEMMA RemainderUnique ==
    ASSUME NEW a \in Int, NEW b \in Nat, b > 0, NEW q \in Int, NEW r \in Int,
           a = b * q + r, 0 <= r, r < b
    PROVE  a % b = r
<1> DEFINE p == a \div b
           s == a % b
<1>1. p \in Int /\ s \in Int /\ a = b * p + s /\ 0 <= s /\ s < b
  OBVIOUS
<1> HIDE DEF p, s
<1>2. b * (q - p) = s - r
  BY <1>1
<1>3. q = p
  <2>1. CASE q > p
    <3>1. b * (q - p) >= b
      BY <2>1, <1>1
    <3> QED BY <3>1, <1>2, <1>1
  <2>2. CASE q < p
    <3>1. b * (q - p) <= 0 - b
      BY <2>2, <1>1
    <3> QED BY <3>1, <1>2, <1>1
  <2> QED BY <2>1, <2>2, <1>1
<1>4. s = r
  BY <1>1, <1>2, <1>3
<1> QED BY <1>4 DEF s

\* One more byte of a number.
LEMMA NextByte ==
    ASSUME NEW m \in Nat, NEW v \in Nat, v > 0
    PROVE  m % (Base * v) = (m % v) + ((m \div v) % Base) * v
<1> DEFINE q == m \div v
           r == m % v
           p == q \div Base
           d == q % Base
<1>1. q \in Nat /\ r \in Nat /\ m = v * q + r /\ r < v
  OBVIOUS
<1>2. p \in Nat /\ d \in Nat /\ q = Base * p + d /\ d < Base
  BY <1>1, CodecAssumption
<1>3. Base \in Nat /\ Base > 0
  BY CodecAssumption
<1> HIDE DEF q, r, p, d
<1>4. v * q = (Base * v) * p + d * v
  BY <1>1, <1>2, <1>3
<1>5. m = (Base * v) * p + (r + d * v)
  BY <1>1, <1>4, <1>2, <1>3
<1>6. r + d * v < Base * v
  <2>1. (d + 1) * v <= Base * v
    BY <1>2, <1>3
  <2>2. (d + 1) * v = d * v + v
    BY <1>2
  <2> QED BY <1>1, <1>2, <1>3, <2>1, <2>2
<1>7. Base * v \in Nat /\ Base * v > 0 /\ r + d * v \in Nat
  BY <1>1, <1>2, <1>3
<1>8. m % (Base * v) = r + d * v
  <2> DEFINE b == Base * v
             e == r + d * v
  <2>1. b \in Nat /\ b > 0 /\ e \in Int /\ 0 <= e /\ e < b /\ m = b * p + e
    BY <1>5, <1>6, <1>7
  <2>2. m \in Int /\ p \in Int
    BY <1>2
  <2> HIDE DEF b, e
  <2>3. m % b = e
    BY <2>1, <2>2, RemainderUnique
  <2> QED BY <2>3 DEF b, e
<1> QED BY <1>8 DEF r, d, q

\* What the recursion in FromLittleEndian adds up.
SumsTo(f, bytes, k) ==
    f = [i \in 0..k |-> IF i = 0 THEN 0 ELSE f[i - 1] + bytes[i] * Word(i - 1)]

LEMMA SumsExist ==
    ASSUME NEW bytes \in Seq(ByteRange)
    PROVE  \E f : SumsTo(f, bytes, Len(bytes))
<1> DEFINE S == {k \in Nat : \E f : SumsTo(f, bytes, k)}
<1>1. 0 \in S
  <2>1. SumsTo([i \in 0..0 |-> 0], bytes, 0)
    BY DEF SumsTo
  <2> QED BY <2>1
<1>2. ASSUME NEW k \in Nat, k \in S PROVE k + 1 \in S
  <2>1. PICK f : SumsTo(f, bytes, k)
    BY <1>2
  <2> DEFINE next == f[k] + bytes[k + 1] * Word(k)
             g == [i \in 0..(k + 1) |-> IF i <= k THEN f[i] ELSE next]
  <2>2. ASSUME NEW i \in 0..(k + 1)
        PROVE  g[i] = IF i = 0 THEN 0 ELSE g[i - 1] + bytes[i] * Word(i - 1)
    <3>1. CASE i = k + 1
      BY <3>1
    <3>2. CASE i <= k
      BY <2>1, <3>2 DEF SumsTo
    <3> QED BY <3>1, <3>2
  <2>3. SumsTo(g, bytes, k + 1)
    BY <2>2 DEF SumsTo
  <2> QED BY <2>3
<1> HIDE DEF S
<1>3. \A k \in Nat : k \in S
  BY <1>1, <1>2, Induction
<1>4. Len(bytes) \in S
  BY <1>3
<1> QED BY <1>4 DEF S

LEMMA SumOf ==
    ASSUME NEW bytes \in Seq(ByteRange)
    PROVE  \E f : SumsTo(f, bytes, Len(bytes)) /\ FromLittleEndian(bytes) = f[Len(bytes)]
<1> DEFINE f == CHOOSE upTo :
                    upTo = [i \in 0..Len(bytes) |->
                              IF i = 0 THEN 0
                              ELSE upTo[i - 1] + bytes[i] * Word(i - 1)]
<1>1. \E upTo : SumsTo(upTo, bytes, Len(bytes))
  BY SumsExist
<1>2. SumsTo(f, bytes, Len(bytes))
  BY <1>1, Zenon DEF SumsTo
<1>3. FromLittleEndian(bytes) = f[Len(bytes)]
  BY DEF FromLittleEndian
<1> QED BY <1>2, <1>3, Zenon

LEMMA LittleEndianBytes ==
    ASSUME NEW n \in Int, NEW w \in Nat
    PROVE  /\ LittleEndian(n, w) \in Seq(ByteRange)
           /\ Len(LittleEndian(n, w)) = w
<1>1. n % Word(w) \in Nat
  BY WordNat
<1>2. ASSUME NEW i \in 1..w PROVE ((n % Word(w)) \div Word(i - 1)) % Base \in ByteRange
  <2> DEFINE m == n % Word(w)
             v == Word(i - 1)
  <2>1. v \in Nat /\ v > 0
    BY WordNat
  <2> HIDE DEF m, v
  <2>2. m \in Nat
    BY <1>1 DEF m
  <2>3. m \div v \in Nat
    BY <2>1, <2>2
  <2>4. (m \div v) % Base \in ByteRange
    BY <2>3, CodecAssumption DEF ByteRange
  <2> QED BY <2>4 DEF m, v
<1> QED BY <1>2 DEF LittleEndian

\* An integer that is written and read back is the one that was written, as an
\* unsigned integer of that width (binary.LittleEndian, header.go:66-91).
LEMMA LittleEndianBack ==
    ASSUME NEW n \in Int, NEW w \in Nat
    PROVE  FromLittleEndian(LittleEndian(n, w)) = n % Word(w)
<1> DEFINE bytes == LittleEndian(n, w)
           m == n % Word(w)
<1>1. bytes \in Seq(ByteRange) /\ Len(bytes) = w
  BY LittleEndianBytes
<1>2. m \in Nat /\ m < Word(w)
  BY WordNat
<1>3. \A i \in 1..w : bytes[i] = (m \div Word(i - 1)) % Base
  BY DEF LittleEndian
<1> HIDE DEF bytes, m
<1>4. PICK f : SumsTo(f, bytes, Len(bytes)) /\ FromLittleEndian(bytes) = f[w]
  BY <1>1, SumOf
<1> DEFINE S == {i \in Nat : i <= w => f[i] = m % Word(i)}
<1>5. 0 \in S
  <2>1. f[0] = 0
    BY <1>4, <1>1 DEF SumsTo
  <2> QED BY <2>1, <1>2, WordZero
<1>6. ASSUME NEW i \in Nat, i \in S PROVE i + 1 \in S
  <2> SUFFICES ASSUME i + 1 <= w PROVE f[i + 1] = m % Word(i + 1)
    OBVIOUS
  <2>1. f[i + 1] = f[i] + bytes[i + 1] * Word(i)
    BY <1>4, <1>1 DEF SumsTo
  <2>2. bytes[i + 1] = (m \div Word(i)) % Base
    BY <1>3
  <2>3. Word(i) \in Nat /\ Word(i) > 0
    BY WordNat
  <2>4. m % (Base * Word(i)) = (m % Word(i)) + ((m \div Word(i)) % Base) * Word(i)
    BY <1>2, <2>3, NextByte
  <2>5. f[i] = m % Word(i)
    BY <1>6
  <2> QED BY <2>1, <2>2, <2>4, <2>5, WordStep
<1> HIDE DEF S
<1>7. w \in S
  BY <1>5, <1>6, Induction
<1>8. f[w] = m % Word(w)
  BY <1>7 DEF S
<1>9. m % Word(w) = m
  BY <1>2, WordNat
<1> QED BY <1>4, <1>8, <1>9 DEF bytes, m

\* The same for a signed integer.
LEMMA SignedBack ==
    ASSUME NEW w \in Nat, NEW n \in SignedWord(w)
    PROVE  Signed(n % Word(w), w) = n
<1> DEFINE v == Word(w)
           h == v \div 2
<1>1. v \in Nat /\ v > 0
  BY WordNat
<1>2. h \in Nat /\ 2 * h <= v /\ n \in Int /\ 0 - h <= n /\ n < h
  BY <1>1 DEF SignedWord
<1>3. Signed(n % v, w) = IF n % v >= h THEN (n % v) - v ELSE n % v
  BY DEF Signed
<1> HIDE DEF v, h
<1>4. CASE n >= 0
  <2>1. n % v = n
    BY <1>1, <1>2, <1>4
  <2> QED BY <2>1, <1>2, <1>3, <1>4 DEF v
<1>5. CASE n < 0
  <2>1. n + v \in Int /\ 0 <= n + v /\ n + v < v /\ n = v * (0 - 1) + (n + v)
    BY <1>1, <1>2, <1>5
  <2>2. n % v = n + v
    BY <2>1, <1>1, <1>2, RemainderUnique
  <2>3. n % v >= h
    BY <2>2, <1>1, <1>2
  <2> QED BY <2>2, <2>3, <1>1, <1>2, <1>3 DEF v
<1> QED BY <1>2, <1>4, <1>5

--------------------------------------------------------------------------------
\* Parts of a concatenation.
Part(t, i, j) == SubSeq(t, i + 1, j)

Keeps(t, s, p) ==
    /\ \A i, j \in Nat : 1 <= i /\ j <= p => SubSeq(t, i, j) = SubSeq(s, i, j)
    /\ \A i \in 1..p : t[i] = s[i]

LEMMA KeepsMore ==
    ASSUME NEW t, NEW s, NEW r, NEW p \in Nat, NEW q \in Nat, q <= p,
           Keeps(t, s, p), Keeps(s, r, q)
    PROVE  Keeps(t, r, q)
<1>1. ASSUME NEW i \in Nat, NEW j \in Nat, 1 <= i, j <= q
      PROVE  SubSeq(t, i, j) = SubSeq(r, i, j)
  <2>1. j <= p
    BY <1>1
  <2>2. SubSeq(t, i, j) = SubSeq(s, i, j)
    BY <1>1, <2>1, Zenon DEF Keeps
  <2>3. SubSeq(s, i, j) = SubSeq(r, i, j)
    BY <1>1, Zenon DEF Keeps
  <2> QED BY <2>2, <2>3, Zenon
<1>2. ASSUME NEW i \in 1..q PROVE t[i] = r[i]
  <2>1. i \in 1..p
    OBVIOUS
  <2> QED BY <2>1 DEF Keeps
<1> QED BY <1>1, <1>2, Zenon DEF Keeps

LEMMA KeepsPart ==
    ASSUME NEW t, NEW s, NEW p \in Nat, NEW q \in Nat, Keeps(t, s, q)
    PROVE  Part(t, p, q) = Part(s, p, q)
<1>1. p + 1 \in Nat /\ 1 <= p + 1 /\ q <= q
  OBVIOUS
<1> QED BY <1>1, Zenon DEF Keeps, Part

Joins(t, s, x, m, k) ==
    /\ t \in Seq(ByteRange)
    /\ Len(t) = m + k
    /\ Part(t, m, m + k) = x
    /\ Keeps(t, s, m)
    /\ \A i \in 1..k : t[m + i] = x[i]

LEMMA Concatenation ==
    ASSUME NEW s \in Seq(ByteRange), NEW x \in Seq(ByteRange),
           NEW m \in Nat, NEW k \in Nat, Len(s) = m, Len(x) = k
    PROVE  Joins(s \o x, s, x, m, k)
<1>1. s \o x \in Seq(ByteRange)
  OBVIOUS
<1>2. Len(s \o x) = m + k
  OBVIOUS
<1>3. Part(s \o x, m, m + k) = x
  BY DEF Part
<1>4. ASSUME NEW i \in Nat, NEW j \in Nat, 1 <= i, j <= m
      PROVE  SubSeq(s \o x, i, j) = SubSeq(s, i, j)
  BY <1>4
<1>5. \A i \in 1..m : (s \o x)[i] = s[i]
  OBVIOUS
<1>6. \A i \in 1..k : (s \o x)[m + i] = x[i]
  BY SMTT(30)
<1>7. Keeps(s \o x, s, m)
  BY <1>4, <1>5, Zenon DEF Keeps
<1> QED BY <1>1, <1>2, <1>3, <1>6, <1>7 DEF Joins

\* Where the fields of a header are.  The p's are the offsets at which they end.
HeaderAt(t, a, b, one, d, e, f, g, u, v, p3, p4, p5, p6) ==
    /\ t \in Seq(ByteRange)
    /\ Len(t) = p6 + v
    /\ Part(t, 0, u) = a
    /\ Part(t, u, u + u) = b
    /\ t[p3] = one
    /\ Part(t, p3, p3 + v) = d
    /\ Part(t, p4, p4 + v) = e
    /\ Part(t, p5, p5 + v) = f
    /\ Part(t, p6, p6 + v) = g

LEMMA HeaderParts ==
    ASSUME NEW a \in Seq(ByteRange), NEW b \in Seq(ByteRange), NEW c \in Seq(ByteRange), NEW d \in Seq(ByteRange),
           NEW e \in Seq(ByteRange), NEW f \in Seq(ByteRange), NEW g \in Seq(ByteRange),
           NEW u \in Nat, NEW v \in Nat, Len(a) = u, Len(b) = u, Len(c) = 1,
           Len(d) = v, Len(e) = v, Len(f) = v, Len(g) = v,
           NEW p2 \in Nat, NEW p3 \in Nat, NEW p4 \in Nat, NEW p5 \in Nat, NEW p6 \in Nat,
           u + u = p2, p2 + 1 = p3, p3 + v = p4, p4 + v = p5, p5 + v = p6
    PROVE  HeaderAt(a \o b \o c \o d \o e \o f \o g, a, b, c[1], d, e, f, g, u, v,
                  p3, p4, p5, p6)
<1> DEFINE t2 == a \o b
           t3 == t2 \o c
           t4 == t3 \o d
           t5 == t4 \o e
           t6 == t5 \o f
           t7 == t6 \o g
<1>2. Joins(t2, a, b, u, u)
  BY Concatenation
<1>a. Part(a, 0, u) = a
  BY DEF Part
<1> HIDE DEF t2
<1>b. t2 \in Seq(ByteRange) /\ Len(t2) = p2
  BY <1>2 DEF Joins
<1>3. Joins(t3, t2, c, p2, 1)
  BY <1>b, Concatenation, Zenon
<1>c. t3[p3] = c[1]
  <2>1. t3[p2 + 1] = c[1]
    BY <1>3, 1 \in 1..1 DEF Joins
  <2> QED BY <2>1, Zenon
<1> HIDE DEF t3
<1>d. t3 \in Seq(ByteRange) /\ Len(t3) = p3
  BY <1>3 DEF Joins
<1>4. Joins(t4, t3, d, p3, v)
  BY <1>d, Concatenation
<1> HIDE DEF t4
<1>e. t4 \in Seq(ByteRange) /\ Len(t4) = p4
  BY <1>4 DEF Joins
<1>5. Joins(t5, t4, e, p4, v)
  BY <1>e, Concatenation
<1> HIDE DEF t5
<1>f. t5 \in Seq(ByteRange) /\ Len(t5) = p5
  BY <1>5 DEF Joins
<1>6. Joins(t6, t5, f, p5, v)
  BY <1>f, Concatenation
<1> HIDE DEF t6
<1>g. t6 \in Seq(ByteRange) /\ Len(t6) = p6
  BY <1>6 DEF Joins
<1>7. Joins(t7, t6, g, p6, v)
  BY <1>g, Concatenation
<1>h. t7 = a \o b \o c \o d \o e \o f \o g
  BY DEF t7, t6, t5, t4, t3, t2
<1> HIDE DEF t7
<1>i. u <= p2 /\ p2 <= p3 /\ p3 <= p4 /\ p4 <= p5 /\ p5 <= p6
  OBVIOUS
<1>8. /\ Keeps(t2, a, u) /\ Keeps(t3, t2, p2) /\ Keeps(t4, t3, p3)
      /\ Keeps(t5, t4, p4) /\ Keeps(t6, t5, p5) /\ Keeps(t7, t6, p6)
  BY <1>2, <1>3, <1>4, <1>5, <1>6, <1>7, Zenon DEF Joins
<1>9. Keeps(t7, t5, p5)
  BY <1>8, <1>i, KeepsMore
<1>10. Keeps(t7, t4, p4)
  BY <1>8, <1>9, <1>i, KeepsMore
<1>11. Keeps(t7, t3, p3)
  BY <1>8, <1>10, <1>i, KeepsMore
<1>12. Keeps(t7, t2, p2)
  BY <1>8, <1>11, <1>i, KeepsMore
<1>13. Keeps(t7, a, u)
  BY <1>8, <1>12, <1>i, KeepsMore
<1>14. Part(t7, 0, u) = Part(a, 0, u)
  BY <1>13, KeepsPart
<1>15. /\ Part(t7, u, p2) = Part(t2, u, p2)
       /\ Part(t7, p3, p4) = Part(t4, p3, p4)
       /\ Part(t7, p4, p5) = Part(t5, p4, p5)
       /\ Part(t7, p5, p6) = Part(t6, p5, p6)
  <2>1. Part(t7, u, p2) = Part(t2, u, p2)
    BY <1>12, KeepsPart
  <2>2. Part(t7, p3, p4) = Part(t4, p3, p4)
    BY <1>10, KeepsPart
  <2>3. Part(t7, p4, p5) = Part(t5, p4, p5)
    BY <1>9, KeepsPart
  <2>4. Part(t7, p5, p6) = Part(t6, p5, p6)
    BY <1>8, KeepsPart
  <2> QED BY <2>1, <2>2, <2>3, <2>4, Zenon
<1>16. t7[p3] = t3[p3]
  <2>1. p3 \in 1..p3
    OBVIOUS
  <2> QED BY <2>1, <1>11, Zenon DEF Keeps
<1>17. /\ t7 \in Seq(ByteRange) /\ Len(t7) = p6 + v
       /\ Part(t2, u, u + u) = b
       /\ Part(t4, p3, p3 + v) = d
       /\ Part(t5, p4, p4 + v) = e
       /\ Part(t6, p5, p5 + v) = f
       /\ Part(t7, p6, p6 + v) = g
  BY <1>2, <1>4, <1>5, <1>6, <1>7, Zenon DEF Joins
<1> DEFINE t == a \o b \o c \o d \o e \o f \o g
<1>18. t = t7
  BY <1>h
<1>19. u + u = p2 /\ p3 + v = p4 /\ p4 + v = p5 /\ p5 + v = p6
  OBVIOUS
<1> HIDE DEF t
<1>20. /\ Part(t, 0, u) = a /\ Part(t, u, u + u) = b /\ t[p3] = c[1]
       /\ Part(t, p3, p3 + v) = d
       /\ Part(t, p4, p4 + v) = e
       /\ Part(t, p5, p5 + v) = f
       /\ Part(t, p6, p6 + v) = g
  BY <1>a, <1>c, <1>14, <1>15, <1>16, <1>17, <1>18, <1>19, Zenon
<1>21. t \in Seq(ByteRange) /\ Len(t) = p6 + v
  BY <1>17, <1>18, Zenon
<1> QED BY <1>20, <1>21, Zenon DEF t, HeaderAt

\* The same fields as DecodeHeader addresses them.
Decoded(raw, u, v, p3, p4, p5, p6) ==
    DecodeHeader(raw) =
      IF \/ Part(raw, 0, u) # Signature
         \/ FromLittleEndian(Part(raw, u, u + u)) > MaxPayloadSize
        THEN Fail
      ELSE [ok |-> TRUE,
            val |-> [PayloadSize |-> FromLittleEndian(Part(raw, u, u + u)),
                     ExpectResponse |-> raw[p3] = 1,
                     Command |-> FromLittleEndian(Part(raw, p3, p3 + v)),
                     ReturnCode |-> Signed(FromLittleEndian(Part(raw, p4, p4 + v)), v),
                     Flags |-> FromLittleEndian(Part(raw, p5, p5 + v)),
                     ProtocolVersion |-> FromLittleEndian(Part(raw, p6, p6 + v))]]

LEMMA DecodedParts ==
    ASSUME NEW raw, NEW u \in Nat, NEW v \in Nat, u = Widths[4], v = Widths[3],
           NEW p3 \in Nat, NEW p4 \in Nat, NEW p5 \in Nat, NEW p6 \in Nat,
           u + u + 1 = p3, p3 + v = p4, p4 + v = p5, p5 + v = p6
    PROVE  Decoded(raw, u, v, p3, p4, p5, p6)
<1> DEFINE at == 2 * Widths[4] + 1
           field(k) == SubSeq(raw, at + (k - 1) * Widths[3] + 1, at + k * Widths[3])
<1>1. /\ 0 + 1 = 1 /\ 2 * Widths[4] = u + u /\ at = p3
      /\ at + (1 - 1) * Widths[3] + 1 = p3 + 1 /\ at + 1 * Widths[3] = p3 + v
      /\ at + (2 - 1) * Widths[3] + 1 = p4 + 1 /\ at + 2 * Widths[3] = p4 + v
      /\ at + (3 - 1) * Widths[3] + 1 = p5 + 1 /\ at + 3 * Widths[3] = p5 + v
      /\ at + (4 - 1) * Widths[3] + 1 = p6 + 1 /\ at + 4 * Widths[3] = p6 + v
  OBVIOUS
<1>2. /\ SubSeq(raw, 1, Widths[4]) = Part(raw, 0, u)
      /\ SubSeq(raw, Widths[4] + 1, 2 * Widths[4]) = Part(raw, u, u + u)
      /\ raw[at] = raw[p3]
  BY <1>1, Zenon DEF Part
<1>3. field(1) = Part(raw, p3, p3 + v) /\ field(2) = Part(raw, p4, p4 + v)
  BY <1>1, Zenon DEF Part
<1>4. field(3) = Part(raw, p5, p5 + v) /\ field(4) = Part(raw, p6, p6 + v)
  BY <1>1, Zenon DEF Part
<1>5. DecodeHeader(raw) =
        LET size == FromLittleEndian(SubSeq(raw, Widths[4] + 1, 2 * Widths[4]))
        IN  IF SubSeq(raw, 1, Widths[4]) # Signature \/ size > MaxPayloadSize THEN Fail
            ELSE [ok |-> TRUE,
                  val |-> [PayloadSize |-> size, ExpectResponse |-> raw[at] = 1,
                           Command |-> FromLittleEndian(field(1)),
                           ReturnCode |-> Signed(FromLittleEndian(field(2)), Widths[3]),
                           Flags |-> FromLittleEndian(field(3)),
                           ProtocolVersion |-> FromLittleEndian(field(4))]]
  BY DEF DecodeHeader
<1>6. u = Widths[4] /\ v = Widths[3]
  OBVIOUS
<1> HIDE DEF field, at
<1> QED BY <1>2, <1>3, <1>4, <1>5, <1>6, ZenonT(30) DEF Decoded

LEMMA WidthsGrow ==
    /\ Widths[3] \in Nat /\ Widths[3] > 0
    /\ Widths[4] \in Nat /\ Widths[4] > 0
<1>1. Widths[1] \in Nat /\ Widths[2] \in Nat /\ Widths[3] \in Nat /\ Widths[4] \in Nat
  BY CodecAssumption
<1>2. Widths[1] = 1 /\ \A i \in 1..3 : Widths[i] < Widths[i + 1]
  BY CodecAssumption
<1>3. Widths[1] < Widths[1 + 1] /\ Widths[2] < Widths[2 + 1] /\ Widths[3] < Widths[3 + 1]
  BY <1>2
<1> QED BY <1>1, <1>2, <1>3

\* The values the fields of a header can hold.
IsHeader(h) ==
    /\ h.PayloadSize \in 0..(Word(Widths[4]) - 1)
    /\ h.ExpectResponse \in BOOLEAN
    /\ h.Command \in 0..(Word(Widths[3]) - 1)
    /\ h.ReturnCode \in SignedWord(Widths[3])
    /\ h.Flags \in 0..(Word(Widths[3]) - 1)
    /\ h.ProtocolVersion \in 0..(Word(Widths[3]) - 1)

LEMMA UnsignedBack ==
    ASSUME NEW w \in Nat, NEW n \in 0..(Word(w) - 1)
    PROVE  FromLittleEndian(LittleEndian(n, w)) = n
<1>1. Word(w) \in Nat /\ Word(w) > 0
  BY WordNat
<1>2. n \in Int /\ n % Word(w) = n
  BY <1>1
<1> QED BY <1>2, LittleEndianBack

LEMMA SignatureBytes ==
    ASSUME NEW u \in Nat, Widths[4] = u
    PROVE  Signature \in Seq(ByteRange) /\ Len(Signature) = u
BY CodecAssumption DEF Signature, ByteRange

\* DecodeHeader gives back what EncodeHeader was given (header.go:62-99): every
\* field keeps its value, a negative return code included; a header that
\* announces more than the package's limit is refused.
THEOREM HeaderRoundTrip ==
    ASSUME NEW h, IsHeader(h)
    PROVE  /\ EncodeHeader(h) \in Seq(ByteRange)
           /\ Len(EncodeHeader(h)) = HeaderSize
           /\ SubSeq(EncodeHeader(h), 1, Len(Signature)) = Signature
           /\ DecodeHeader(EncodeHeader(h)) =
                IF h.PayloadSize > MaxPayloadSize THEN Fail
                ELSE [ok |-> TRUE,
                      val |-> [PayloadSize |-> h.PayloadSize,
                               ExpectResponse |-> h.ExpectResponse,
                               Command |-> h.Command, ReturnCode |-> h.ReturnCode,
                               Flags |-> h.Flags, ProtocolVersion |-> h.ProtocolVersion]]
<1> DEFINE u == Widths[4]
           v == Widths[3]
           p2 == u + u
           p3 == u + u + 1
           p4 == p3 + v
           p5 == p4 + v
           p6 == p5 + v
           b == LittleEndian(h.PayloadSize, u)
           c == <<IF h.ExpectResponse THEN 1 ELSE 0>>
           d == LittleEndian(h.Command, v)
           e == LittleEndian(h.ReturnCode, v)
           f == LittleEndian(h.Flags, v)
           g == LittleEndian(h.ProtocolVersion, v)
           t == Signature \o b \o c \o d \o e \o f \o g
<1>1. u \in Nat /\ v \in Nat /\ u > 0 /\ v > 0
  BY WidthsGrow
<1>2. EncodeHeader(h) = t
  BY DEF EncodeHeader
<1>3. HeaderSize = p6 + v
  BY <1>1 DEF HeaderSize
<1>4. /\ p3 \in Nat /\ p4 \in Nat /\ p5 \in Nat /\ p6 \in Nat /\ u + u \in Nat
      /\ u + u + 1 = p3 /\ p3 + v = p4 /\ p4 + v = p5 /\ p5 + v = p6
      /\ p2 \in Nat /\ u + u = p2 /\ p2 + 1 = p3
  BY <1>1
<1>5. /\ h.PayloadSize \in Int /\ h.Command \in Int /\ h.ReturnCode \in Int
      /\ h.Flags \in Int /\ h.ProtocolVersion \in Int
  <2>1. Word(u) \in Nat /\ Word(v) \in Nat
    BY <1>1, WordNat
  <2> QED BY <2>1 DEF IsHeader, SignedWord
<1>6. Signature \in Seq(ByteRange) /\ Len(Signature) = u
  BY <1>1, SignatureBytes
<1>7. b \in Seq(ByteRange) /\ Len(b) = u
  BY <1>1, <1>5, LittleEndianBytes, Zenon
<1>8. c \in Seq(ByteRange) /\ Len(c) = 1
  BY CodecAssumption DEF ByteRange
<1>9. (c[1] = 1) = h.ExpectResponse
  BY DEF IsHeader
<1>10. d \in Seq(ByteRange) /\ Len(d) = v /\ e \in Seq(ByteRange) /\ Len(e) = v
  BY <1>1, <1>5, LittleEndianBytes, Zenon
<1>11. f \in Seq(ByteRange) /\ Len(f) = v /\ g \in Seq(ByteRange) /\ Len(g) = v
  BY <1>1, <1>5, LittleEndianBytes, Zenon
<1>12. /\ FromLittleEndian(b) = h.PayloadSize
       /\ FromLittleEndian(d) = h.Command
       /\ FromLittleEndian(f) = h.Flags
       /\ FromLittleEndian(g) = h.ProtocolVersion
  BY <1>1, UnsignedBack DEF IsHeader
<1>13. Signed(FromLittleEndian(e), v) = h.ReturnCode
  <2>1. FromLittleEndian(e) = h.ReturnCode % Word(v)
    BY <1>1, <1>5, LittleEndianBack
  <2> QED BY <2>1, <1>1, SignedBack DEF IsHeader
<1> HIDE DEF b, c, d, e, f, g, p2, p3, p4, p5, p6, u, v
<1>14. HeaderAt(t, Signature, b, c[1], d, e, f, g, u, v, p3, p4, p5, p6)
  BY <1>1, <1>4, <1>6, <1>7, <1>8, <1>10, <1>11, HeaderParts, ZenonT(30)
<1> HIDE DEF t
<1>15. DecodeHeader(t) =
         IF Part(t, 0, u) # Signature \/ FromLittleEndian(Part(t, u, u + u)) > MaxPayloadSize
           THEN Fail
         ELSE [ok |-> TRUE,
               val |-> [PayloadSize |-> FromLittleEndian(Part(t, u, u + u)),
                        ExpectResponse |-> t[p3] = 1,
                        Command |-> FromLittleEndian(Part(t, p3, p3 + v)),
                        ReturnCode |-> Signed(FromLittleEndian(Part(t, p4, p4 + v)), v),
                        Flags |-> FromLittleEndian(Part(t, p5, p5 + v)),
                        ProtocolVersion |-> FromLittleEndian(Part(t, p6, p6 + v))]]
  <2>1. u = Widths[4] /\ v = Widths[3]
    BY DEF u, v
  <2>2. Decoded(t, u, v, p3, p4, p5, p6)
    BY <2>1, <1>1, <1>4, DecodedParts, Zenon
  <2> QED BY <2>2, Zenon DEF Decoded
<1>16. SubSeq(t, 1, Len(Signature)) = Signature
  <2>1. 0 + 1 = 1
    OBVIOUS
  <2> QED BY <2>1, <1>6, <1>14, Zenon DEF Part, HeaderAt
<1>17. DecodeHeader(t) =
         IF h.PayloadSize > MaxPayloadSize THEN Fail
         ELSE [ok |-> TRUE,
               val |-> [PayloadSize |-> h.PayloadSize,
                        ExpectResponse |-> h.ExpectResponse,
                        Command |-> h.Command, ReturnCode |-> h.ReturnCode,
                        Flags |-> h.Flags, ProtocolVersion |-> h.ProtocolVersion]]
  BY <1>9, <1>12, <1>13, <1>14, <1>15, Zenon DEF HeaderAt
<1> QED BY <1>2, <1>3, <1>14, <1>16, <1>17, Zenon DEF HeaderAt

--------------------------------------------------------------------------------
Sendable == {call \in AllCalls : call.payload.ok}

HeaderBytes(call) == EncodeHeader(HeaderOf(call))

Frame(call) == HeaderBytes(call) \o call.payload.bytes

\* The headers that WritePacket and WriteResponse build (connection.go:66-93) can
\* be encoded, and read back as they are.
LEMMA HeaderOfCall ==
    ASSUME NEW call \in Sendable
    PROVE  IsHeader(HeaderOf(call))
<1>1. Callable(call) /\ call.payload.ok
  BY LevinAssumption DEF Sendable
<1>2. Word(Widths[3]) \in Nat /\ Word(Widths[3]) >= 64
  BY WidthsGrow, WordOfBytes, WordNat, CodecAssumption
<1>3. Word(Widths[4]) \in Nat
  BY WidthsGrow, WordNat
<1>4. HeaderOf(call).PayloadSize \in 0..(Word(Widths[4]) - 1)
  <2>1. call.payload.bytes \in Seq(ByteRange) /\ Len(call.payload.bytes) < Word(Widths[4])
    BY <1>1 DEF Callable
  <2>2. Len(call.payload.bytes) \in Nat
    BY <2>1
  <2>3. HeaderOf(call).PayloadSize = Len(call.payload.bytes)
    BY DEF HeaderOf
  <2> QED BY <2>1, <2>2, <2>3, <1>3
<1>5. HeaderOf(call).ExpectResponse \in BOOLEAN
  BY DEF HeaderOf
<1>6. HeaderOf(call).Command \in 0..(Word(Widths[3]) - 1)
  BY <1>1 DEF HeaderOf, Callable
<1>7. HeaderOf(call).ReturnCode \in SignedWord(Widths[3])
  <2>1. CASE call.kind = "packet"
    BY <2>1, <1>2 DEF HeaderOf, ReturnOK, SignedWord
  <2>2. CASE call.kind = "response"
    BY <2>2, <1>1 DEF HeaderOf, Callable
  <2> QED BY <2>1, <2>2, <1>1 DEF Callable
<1>8. /\ HeaderOf(call).Flags \in 0..(Word(Widths[3]) - 1)
      /\ HeaderOf(call).ProtocolVersion \in 0..(Word(Widths[3]) - 1)
  BY <1>2 DEF HeaderOf, FlagRequest, FlagResponse, LevinProtocolVersion
<1> QED BY <1>4, <1>5, <1>6, <1>7, <1>8 DEF IsHeader

LEMMA HeaderBack ==
    ASSUME NEW call \in Sendable
    PROVE  /\ HeaderBytes(call) \in Seq(ByteRange)
           /\ Len(HeaderBytes(call)) = HeaderSize
           /\ SubSeq(HeaderBytes(call), 1, Len(Signature)) = Signature
           /\ DecodeHeader(HeaderBytes(call)) =
                IF HeaderOf(call).PayloadSize > MaxPayloadSize THEN Fail
                ELSE [ok |-> TRUE, val |-> HeaderOf(call)]
<1> DEFINE h == HeaderOf(call)
<1>1. IsHeader(h)
  BY HeaderOfCall, SMTT(30)
<1>2. h = [PayloadSize |-> h.PayloadSize, ExpectResponse |-> h.ExpectResponse,
           Command |-> h.Command, ReturnCode |-> h.ReturnCode,
           Flags |-> h.Flags, ProtocolVersion |-> h.ProtocolVersion]
  BY DEF HeaderOf
<1> HIDE DEF h
<1>3. /\ EncodeHeader(h) \in Seq(ByteRange)
      /\ Len(EncodeHeader(h)) = HeaderSize
      /\ SubSeq(EncodeHeader(h), 1, Len(Signature)) = Signature
      /\ DecodeHeader(EncodeHeader(h)) =
           IF h.PayloadSize > MaxPayloadSize THEN Fail
           ELSE [ok |-> TRUE,
                 val |-> [PayloadSize |-> h.PayloadSize,
                          ExpectResponse |-> h.ExpectResponse,
                          Command |-> h.Command, ReturnCode |-> h.ReturnCode,
                          Flags |-> h.Flags, ProtocolVersion |-> h.ProtocolVersion]]
  BY <1>1, HeaderRoundTrip, Zenon
<1>4. DecodeHeader(EncodeHeader(h)) =
        IF h.PayloadSize > MaxPayloadSize THEN Fail ELSE [ok |-> TRUE, val |-> h]
  BY <1>2, <1>3, Zenon
<1>5. HeaderBytes(call) = EncodeHeader(h)
  BY DEF h, HeaderBytes
<1> QED BY <1>3, <1>4, <1>5, Zenon DEF h

\* The size of a call's payload, as its header announces it.
Size(call) == HeaderOf(call).PayloadSize

LEMMA FrameParts ==
    ASSUME NEW call \in Sendable
    PROVE  /\ Size(call) \in Nat /\ Size(call) = Len(call.payload.bytes)
           /\ call.payload.bytes \in Seq(ByteRange)
           /\ HeaderSize \in Nat /\ HeaderSize > 0
           /\ Frame(call) \in Seq(ByteRange)
           /\ Len(Frame(call)) = HeaderSize + Size(call)
           /\ \A i \in 1..HeaderSize : Frame(call)[i] = HeaderBytes(call)[i]
           /\ \A i \in 1..Size(call) : Frame(call)[HeaderSize + i] = call.payload.bytes[i]
<1>1. call.payload.bytes \in Seq(ByteRange)
  BY LevinAssumption DEF Sendable, Callable
<1>2. Size(call) = Len(call.payload.bytes)
  BY DEF Size, HeaderOf
<1>3. HeaderSize \in Nat /\ HeaderSize > 0
  BY WidthsGrow DEF HeaderSize
<1>4. HeaderBytes(call) \in Seq(ByteRange) /\ Len(HeaderBytes(call)) = HeaderSize
  BY HeaderBack
<1> DEFINE t == HeaderBytes(call)
           x == call.payload.bytes
           k == Size(call)
           m == HeaderSize
<1>5. k \in Nat
  BY <1>1, <1>2
<1>6. Frame(call) = t \o x
  BY DEF Frame
<1> HIDE DEF t, x, k, m
<1>7. t \in Seq(ByteRange) /\ Len(t) = m /\ m \in Nat /\ x \in Seq(ByteRange) /\ Len(x) = k
  BY <1>1, <1>2, <1>3, <1>4 DEF t, x, k, m
<1>8. Joins(Frame(call), t, x, m, k)
  BY <1>5, <1>6, <1>7, Concatenation
<1>9. /\ Frame(call) \in Seq(ByteRange) /\ Len(Frame(call)) = m + k
      /\ \A i \in 1..m : Frame(call)[i] = t[i]
      /\ \A i \in 1..k : Frame(call)[m + i] = x[i]
  BY <1>8, Zenon DEF Joins, Keeps
<1> QED BY <1>1, <1>2, <1>3, <1>5, <1>9, SMTT(30) DEF t, x, k, m

--------------------------------------------------------------------------------
\* As far as str covers the bytes from position p on, they are those of f.
Holds(str, p, f) ==
    \A i \in 1..Len(f) : p + i \in 1..Len(str) => str[p + i] = f[i]

\* More bytes after the end of f.
LEMMA HoldsMore ==
    ASSUME NEW str \in Seq(ByteRange), NEW x \in Seq(ByteRange), NEW f \in Seq(ByteRange),
           NEW p \in Int, p + Len(f) <= Len(str), Holds(str, p, f)
    PROVE  Holds(str \o x, p, f)
<1> DEFINE t == str \o x
           m == Len(str)
           l == Len(f)
<1>1. m \in Nat /\ l \in Nat /\ \A i \in 1..m : t[i] = str[i]
  OBVIOUS
<1>2. ASSUME NEW i \in 1..l, p + i \in 1..Len(t)
      PROVE  t[p + i] = f[i]
  <2>1. p + i \in 1..m
    BY <1>1, <1>2
  <2>2. str[p + i] = f[i]
    BY <2>1 DEF Holds
  <2> HIDE DEF t, m
  <2> QED BY <1>1, <2>1, <2>2
<1> QED BY <1>2 DEF Holds

\* The header of a frame is written.
LEMMA HoldsHeader ==
    ASSUME NEW str \in Seq(ByteRange), NEW call \in Sendable
    PROVE  Holds(str \o HeaderBytes(call), Len(str), Frame(call))
<1> DEFINE x == HeaderBytes(call)
           f == Frame(call)
           t == str \o x
           m == Len(str)
           k == HeaderSize
<1>1. x \in Seq(ByteRange) /\ Len(x) = k /\ k \in Nat /\ m \in Nat
  BY HeaderBack, FrameParts
<1>2. \A i \in 1..k : f[i] = x[i]
  BY FrameParts
<1>3. f \in Seq(ByteRange)
  BY FrameParts
<1> HIDE DEF x, f, k
<1>4. Len(t) = m + k /\ \A i \in 1..k : t[m + i] = x[i]
  BY <1>1
<1> HIDE DEF t, m
<1>5. ASSUME NEW i \in 1..Len(f), m + i \in 1..Len(t)
      PROVE  t[m + i] = f[i]
  <2>1. i \in 1..k
    BY <1>1, <1>3, <1>4, <1>5
  <2> QED BY <2>1, <1>2, <1>4
<1> QED BY <1>5 DEF Holds, t, m, x, f

\* The payload of a frame is written after its header.
LEMMA HoldsPayload ==
    ASSUME NEW str \in Seq(ByteRange), NEW call \in Sendable, NEW p \in Int,
           p + HeaderSize = Len(str), Holds(str, p, Frame(call))
    PROVE  Holds(str \o call.payload.bytes, p, Frame(call))
<1> DEFINE x == call.payload.bytes
           f == Frame(call)
           t == str \o x
           m == Len(str)
           k == HeaderSize
           n == Size(call)
<1>1. x \in Seq(ByteRange) /\ Len(x) = n /\ n \in Nat /\ k \in Nat /\ m \in Nat
  BY FrameParts
<1>2. f \in Seq(ByteRange) /\ Len(f) = k + n /\ \A i \in 1..n : f[k + i] = x[i]
  BY FrameParts
<1>3. p + k = m /\ Holds(str, p, f)
  OBVIOUS
<1> HIDE DEF x, f, k, n
<1>4. /\ Len(t) = m + n
      /\ \A i \in 1..m : t[i] = str[i]
      /\ \A i \in 1..n : t[m + i] = x[i]
  BY <1>1
<1>5. \A i \in 1..Len(f) : p + i \in 1..m => str[p + i] = f[i]
  BY <1>3 DEF Holds
<1> HIDE DEF t, m
<1>6. ASSUME NEW i \in 1..Len(f), p + i \in 1..Len(t)
      PROVE  t[p + i] = f[i]
  <2>1. CASE i <= k
    <3>1. p + i \in 1..m
      BY <1>1, <1>3, <1>6, <2>1
    <3> QED BY <3>1, <1>4, <1>5
  <2>2. CASE i > k
    <3>1. i - k \in 1..n /\ m + (i - k) = p + i /\ k + (i - k) = i
      BY <1>1, <1>2, <1>3, <2>2
    <3>2. t[m + (i - k)] = x[i - k] /\ f[k + (i - k)] = x[i - k]
      BY <3>1, <1>2, <1>4
    <3> QED BY <3>1, <3>2
  <2> QED BY <2>1, <2>2, <1>1, <1>2
<1> QED BY <1>6 DEF Holds, t, x, f

\* Bytes are read.
LEMMA HoldsFrom ==
    ASSUME NEW str \in Seq(ByteRange), NEW f \in Seq(ByteRange), NEW p \in Int,
           NEW k \in Nat, k <= Len(str), Holds(str, p, f)
    PROVE  Holds(From(str, k), p - k, f)
<1> DEFINE t == From(str, k)
           m == Len(str)
<1>1. m \in Nat /\ Len(f) \in Nat /\ k <= m
  OBVIOUS
<1>2. Len(t) = m - k /\ \A i \in 1..(m - k) : t[i] = str[k + i]
  BY DEF From
<1> HIDE DEF t
<1>3. ASSUME NEW i \in 1..Len(f), (p - k) + i \in 1..Len(t)
      PROVE  t[(p - k) + i] = f[i]
  <2>1. (p - k) + i \in 1..(m - k) /\ p + i \in 1..m /\ k + ((p - k) + i) = p + i
    BY <1>1, <1>2, <1>3
  <2>2. str[p + i] = f[i]
    BY <2>1, SMTT(30) DEF Holds
  <2>3. t[(p - k) + i] = str[k + ((p - k) + i)]
    BY <2>1, <1>2
  <2> QED BY <2>1, <2>2, <2>3, SMTT(30)
<1> QED BY <1>3 DEF Holds, t

LEMMA FromBytes ==
    ASSUME NEW str \in Seq(ByteRange), NEW k \in Nat, k <= Len(str)
    PROVE  From(str, k) \in Seq(ByteRange) /\ Len(From(str, k)) = Len(str) - k
BY DEF From

\* What the reader finds when it has a whole header, or a whole payload.
LEMMA HeaderFound ==
    ASSUME NEW str \in Seq(ByteRange), NEW call \in Sendable,
           Holds(str, 0, Frame(call)), HeaderSize <= Len(str)
    PROVE  SubSeq(str, 1, HeaderSize) = HeaderBytes(call)
<1> DEFINE x == HeaderBytes(call)
           f == Frame(call)
           k == HeaderSize
           n == Size(call)
<1>1. x \in Seq(ByteRange) /\ Len(x) = k /\ k \in Nat /\ n \in Nat
  BY HeaderBack, FrameParts, SMTT(30)
<1>2. Len(f) = k + n /\ \A i \in 1..k : f[i] = x[i]
  BY FrameParts
<1>3. \A i \in 1..Len(f) : 0 + i \in 1..Len(str) => str[0 + i] = f[i]
  BY DEF Holds
<1>4. k <= Len(str)
  OBVIOUS
<1> HIDE DEF x, f, k, n
<1>5. ASSUME NEW i \in 1..k PROVE str[i] = x[i]
  <2>1. i \in 1..Len(f) /\ 0 + i = i /\ i \in 1..Len(str)
    BY <1>1, <1>2, <1>4
  <2> QED BY <2>1, <1>2, <1>3
<1>6. SubSeq(str, 1, k) = x
  BY <1>1, <1>4, <1>5
<1> QED BY <1>6 DEF k, x

LEMMA PayloadFound ==
    ASSUME NEW str \in Seq(ByteRange), NEW call \in Sendable,
           Holds(str, 0 - HeaderSize, Frame(call)), Size(call) <= Len(str)
    PROVE  SubSeq(str, 1, Size(call)) = call.payload.bytes
<1> DEFINE x == call.payload.bytes
           f == Frame(call)
           k == HeaderSize
           n == Size(call)
<1>1. x \in Seq(ByteRange) /\ Len(x) = n /\ k \in Nat /\ n \in Nat
  BY FrameParts
<1>2. Len(f) = k + n /\ \A i \in 1..n : f[k + i] = x[i]
  BY FrameParts
<1>3. \A i \in 1..Len(f) : (0 - k) + i \in 1..Len(str) => str[(0 - k) + i] = f[i]
  BY DEF Holds
<1>4. n <= Len(str)
  OBVIOUS
<1> HIDE DEF x, f, k, n
<1>5. ASSUME NEW i \in 1..n PROVE str[i] = x[i]
  <2>1. k + i \in 1..Len(f) /\ (0 - k) + (k + i) = i /\ i \in 1..Len(str)
    BY <1>1, <1>2, <1>4
  <2>2. str[(0 - k) + (k + i)] = f[k + i]
    BY <2>1, <1>3
  <2> QED BY <2>1, <2>2, <1>2
<1>6. SubSeq(str, 1, n) = x
  BY <1>1, <1>4, <1>5
<1> QED BY <1>6 DEF n, x

--------------------------------------------------------------------------------
\* The frames of the calls cs after the first r follow one another, the one of
\* cs[j] from position at[j] on; str shows them as far as it goes.
Laid(at, cs, r, str) ==
    /\ \A j \in (r + 1)..Len(cs) : at[j + 1] = at[j] + Len(Frame(cs[j]))
    /\ \A j, k \in (r + 1)..(Len(cs) + 1) : j <= k => at[j] <= at[k]
    /\ \A j \in (r + 1)..Len(cs) : Holds(str, at[j], Frame(cs[j]))

\* They begin at start, and end within str if a write was cut short, otherwise
\* owed bytes after it.
InPlace(cs, r, str, start, cut, owed) ==
    \E at \in [Nat -> Int] :
        /\ Laid(at, cs, r, str)
        /\ at[r + 1] = start
        /\ IF cut THEN at[Len(cs) + 1] <= Len(str) ELSE at[Len(cs) + 1] = Len(str) + owed

LEMMA NothingInPlace == InPlace(<<>>, 0, <<>>, 0, FALSE, 0)
<1> DEFINE at == [i \in Nat |-> 0]
<1>1. at \in [Nat -> Int] /\ at[0 + 1] = 0 /\ at[Len(<<>>) + 1] = Len(<<>>) + 0
  OBVIOUS
<1>2. at[0 + 1] <= at[0 + 1] /\ (0 + 1)..Len(<<>>) = {} /\ (0 + 1)..(Len(<<>>) + 1) = {0 + 1}
  OBVIOUS
<1>3. Laid(at, <<>>, 0, <<>>)
  <2> HIDE DEF at
  <2> QED BY <1>2 DEF Laid
<1> HIDE DEF at
<1> QED BY <1>1, <1>3 DEF InPlace

LEMMA LeqTransitive == \A a, b, c \in Int : a <= b /\ b <= c => a <= c
OBVIOUS

LEMMA Joined ==
    ASSUME NEW a \in Seq(ByteRange), NEW b \in Seq(ByteRange)
    PROVE  /\ a \o b \in Seq(ByteRange) /\ Len(a \o b) = Len(a) + Len(b)
           /\ Len(a) \in Nat /\ Len(b) \in Nat
OBVIOUS

LEMMA AppendCall ==
    ASSUME NEW cs \in Seq(Sendable), NEW call \in Sendable
    PROVE  /\ Append(cs, call) \in Seq(Sendable)
           /\ Len(cs) \in Nat /\ Len(Append(cs, call)) = Len(cs) + 1
           /\ \A j \in 1..Len(cs) : Append(cs, call)[j] = cs[j]
           /\ Append(cs, call)[Len(cs) + 1] = call
OBVIOUS

\* Frames have a length, so that positions grow.
LEMMA FrameLength ==
    ASSUME NEW cs \in Seq(Sendable), NEW j \in 1..Len(cs)
    PROVE  /\ cs[j] \in Sendable /\ Frame(cs[j]) \in Seq(ByteRange)
           /\ Len(Frame(cs[j])) \in Nat
<1>1. cs[j] \in Sendable
  OBVIOUS
<1>2. Frame(cs[j]) \in Seq(ByteRange)
  BY <1>1, FrameParts
<1> QED BY <1>1, <1>2

\* A frame that str has no part of yet, begun by writing its header.
LEMMA BeginFrame ==
    ASSUME NEW cs \in Seq(Sendable), NEW call \in Sendable, NEW r \in Nat,
           r <= Len(cs), NEW str \in Seq(ByteRange), NEW start \in Int,
           InPlace(cs, r, str, start, FALSE, 0)
    PROVE  InPlace(Append(cs, call), r, str \o HeaderBytes(call), start, FALSE, Size(call))
<1> DEFINE n == Len(cs)
           ds == Append(cs, call)
           x == HeaderBytes(call)
           tr == str \o x
<1>1. PICK at \in [Nat -> Int] :
        Laid(at, cs, r, str) /\ at[r + 1] = start /\ at[n + 1] = Len(str) + 0
  BY Zenon DEF InPlace
<1> DEFINE bt == [at EXCEPT ![n + 2] = at[n + 1] + Len(Frame(call))]
<1>2. n \in Nat /\ ds \in Seq(Sendable) /\ Len(ds) = n + 1
      /\ (\A j \in 1..n : ds[j] = cs[j]) /\ ds[n + 1] = call
  BY AppendCall, ZenonT(30)
<1>3. x \in Seq(ByteRange) /\ Len(x) = HeaderSize /\ HeaderSize \in Nat /\ Size(call) \in Nat
      /\ Len(Frame(call)) = HeaderSize + Size(call)
  BY HeaderBack, FrameParts
<1>4. Len(str) \in Nat /\ Len(tr) = Len(str) + HeaderSize
  BY <1>3, Joined, Zenon
<1> HIDE DEF x, tr
<1>5. bt \in [Nat -> Int] /\ bt[n + 2] = at[n + 1] + Len(Frame(call))
      /\ (\A j \in Nat : j <= n + 1 => bt[j] = at[j])
  <2>1. n \in Nat /\ at[n + 1] + Len(Frame(call)) \in Int
    BY <1>2, <1>3, SMTT(30)
  <2> HIDE DEF n
  <2> QED BY <2>1
<1> HIDE DEF n, ds, bt
<1>p. /\ \A j \in (r + 1)..n : at[j + 1] = at[j] + Len(Frame(cs[j]))
      /\ \A j, k \in (r + 1)..(n + 1) : j <= k => at[j] <= at[k]
      /\ \A j \in (r + 1)..n : Holds(str, at[j], Frame(cs[j]))
      /\ \A j \in Nat : at[j] \in Int
  BY <1>1, Zenon DEF Laid, n
<1>q. r <= n /\ at[n + 1] = Len(str) /\ \A j \in 1..n : Frame(cs[j]) \in Seq(ByteRange)
  <2>1. at[n + 1] = Len(str) + 0 /\ r <= n
    BY <1>1 DEF n
  <2>2. \A j \in 1..n : Frame(cs[j]) \in Seq(ByteRange)
    BY FrameLength, Zenon DEF n
  <2> QED BY <2>1, <2>2, <1>4
<1>6. \A j \in (r + 1)..Len(ds) : bt[j + 1] = bt[j] + Len(Frame(ds[j]))
  <2> SUFFICES ASSUME NEW j \in (r + 1)..(n + 1)
               PROVE  bt[j + 1] = bt[j] + Len(Frame(ds[j]))
    BY <1>2
  <2>1. CASE j = n + 1
    BY <2>1, <1>2, <1>5, SMTT(30)
  <2>2. CASE j # n + 1
    <3>1. j \in (r + 1)..n /\ j \in 1..n /\ j \in Nat /\ j + 1 \in Nat /\ j + 1 <= n + 1
          /\ j <= n + 1
      BY <1>2, <2>2
    <3>2. at[j + 1] = at[j] + Len(Frame(cs[j]))
      BY <1>p, <3>1, SMTT(30)
    <3> QED BY <3>1, <3>2, <1>2, <1>5, SMTT(30)
  <2> QED BY <2>1, <2>2, SMTT(30)
<1>7. \A j, k \in (r + 1)..(Len(ds) + 1) : j <= k => bt[j] <= bt[k]
  <2> SUFFICES ASSUME NEW j \in (r + 1)..(n + 2), NEW k \in (r + 1)..(n + 2), j <= k
               PROVE  bt[j] <= bt[k]
    <3>1. Len(ds) + 1 = (n + 1) + 1
      BY <1>2, ZenonT(30)
    <3>2. (n + 1) + 1 = n + 2
      BY <1>2
    <3> QED BY <3>1, <3>2, Zenon
  <2>1. CASE k <= n + 1
    <3>1. j \in (r + 1)..(n + 1) /\ k \in (r + 1)..(n + 1) /\ j \in Nat /\ k \in Nat
          /\ j <= n + 1
      BY <1>2, <2>1
    <3>2. bt[j] = at[j] /\ bt[k] = at[k]
      BY <3>1, <2>1, <1>5, ZenonT(30)
    <3>3. at[j] <= at[k]
      BY <3>1, <2>1, <1>p
    <3> QED BY <3>2, <3>3, ZenonT(30)
  <2>2. CASE k = n + 2 /\ j = n + 2
    <3>1. n + 2 \in Nat
      BY <1>2
    <3>2. bt[n + 2] \in Int
      BY <3>1, <1>5, Zenon
    <3>3. \A a \in Int : a <= a
      OBVIOUS
    <3> QED BY <2>2, <3>2, <3>3, ZenonT(30)
  <2>3. CASE k = n + 2 /\ j <= n + 1
    <3>1. n + 1 \in (r + 1)..(n + 1) /\ j \in (r + 1)..(n + 1) /\ j \in Nat
      BY <1>2, <1>q, <2>3
    <3>2. at[j] <= at[n + 1]
      BY <2>3, <3>1, <1>p, ZenonT(30)
    <3>8. bt[j] = at[j]
      BY <2>3, <3>1, <1>5, SMTT(30)
    <3>9. n + 1 \in Nat
      BY <1>2
    <3>5. bt[j] = at[j] /\ at[j] \in Int /\ at[n + 1] \in Int
      BY <3>1, <3>8, <3>9, SMTT(30)
    <3>3. bt[k] = at[n + 1] + Len(Frame(call))
      BY <2>3, <1>5, SMTT(30)
    <3>4. Len(Frame(call)) \in Nat
      BY <1>3
    <3>6. \A a, b \in Int : a <= b => a <= b + Len(Frame(call))
      BY <3>4
    <3>7. at[j] <= at[n + 1] + Len(Frame(call))
      BY <3>2, <3>5, <3>6, ZenonT(30)
    <3> QED BY <3>3, <3>5, <3>7, SMTT(30)
  <2>4. k <= n + 1 \/ (k = n + 2 /\ j = n + 2) \/ (k = n + 2 /\ j <= n + 1)
    BY <1>2
  <2> QED BY <2>1, <2>2, <2>3, <2>4
<1>8. \A j \in (r + 1)..Len(ds) : Holds(tr, bt[j], Frame(ds[j]))
  <2> SUFFICES ASSUME NEW j \in (r + 1)..(n + 1)
               PROVE  Holds(tr, bt[j], Frame(ds[j]))
    BY <1>2
  <2>1. CASE j = n + 1
    <3>1. Holds(tr, Len(str), Frame(call))
      BY HoldsHeader, SMTT(30) DEF tr, x
    <3>2. bt[j] = Len(str) /\ ds[j] = call
      BY <2>1, <1>q, <1>2, <1>5, SMTT(30)
    <3> QED BY <3>1, <3>2
  <2>2. CASE j # n + 1
    <3>1. j \in (r + 1)..n /\ j \in 1..n /\ j \in Nat /\ j + 1 \in (r + 1)..(n + 1)
          /\ j <= n + 1 /\ n + 1 \in (r + 1)..(n + 1) /\ j + 1 <= n + 1 /\ j + 1 \in Nat
      BY <1>2, <2>2
    <3>2. at[j + 1] = at[j] + Len(Frame(cs[j])) /\ at[j + 1] <= at[n + 1]
          /\ Holds(str, at[j], Frame(cs[j]))
      BY <1>p, <3>1, ZenonT(30)
    <3>3. at[j] + Len(Frame(cs[j])) <= Len(str) /\ at[j] \in Int
      BY <3>1, <3>2, <1>p, <1>q, SMTT(30)
    <3>4. Frame(cs[j]) \in Seq(ByteRange)
      BY <3>1, <1>q
    <3>5. Holds(tr, at[j], Frame(cs[j]))
      BY <3>2, <3>3, <3>4, <1>3, HoldsMore, ZenonT(30) DEF tr
    <3>6. bt[j] = at[j] /\ ds[j] = cs[j]
      BY <3>1, <1>2, <1>5, ZenonT(30)
    <3> QED BY <3>5, <3>6, SMTT(30)
  <2> QED BY <2>1, <2>2, SMTT(30)
<1>9. Laid(bt, ds, r, tr)
  BY <1>6, <1>7, <1>8, SMTT(30) DEF Laid
<1>10. bt[r + 1] = start
  <2>1. r + 1 \in Nat /\ r + 1 <= n + 1
    BY <1>2, <1>q, SMTT(30)
  <2> QED BY <2>1, <1>1, <1>5, SMTT(30)
<1>11. bt[Len(ds) + 1] = Len(tr) + Size(call)
  <2>1. Len(ds) + 1 = n + 2 /\ at[n + 1] = Len(str)
    BY <1>q, <1>2
  <2>2. bt[n + 2] = Len(str) + Len(Frame(call))
    BY <2>1, <1>5
  <2> QED BY <2>1, <2>2, <1>3, <1>4, SMTT(30)
<1> QED BY <1>5, <1>9, <1>10, <1>11, Zenon DEF InPlace, ds, tr, x

\* The reader is not past a frame of which bytes are in the stream or owed.
LEMMA StillUnread ==
    ASSUME NEW cs \in Seq(Sendable), NEW r \in Nat, r <= Len(cs),
           NEW str \in Seq(ByteRange), NEW start \in Int, start <= 0,
           NEW owed \in Nat, Len(str) + owed > 0,
           InPlace(cs, r, str, start, FALSE, owed)
    PROVE  r < Len(cs)
<1>1. PICK at \in [Nat -> Int] :
        at[r + 1] = start /\ at[Len(cs) + 1] = Len(str) + owed
  BY Zenon DEF InPlace
<1>2. Len(cs) \in Nat
  OBVIOUS
<1>3. r # Len(cs)
  <2> SUFFICES ASSUME r = Len(cs) PROVE FALSE
    OBVIOUS
  <2>1. start = Len(str) + owed
    BY <1>1, Zenon
  <2> QED BY <2>1
<1> QED BY <1>2, <1>3

\* What is due next lies where the reader is.
LEMMA DueIsNext ==
    ASSUME NEW cs \in Seq(Sendable), NEW r \in Nat, r < Len(cs),
           NEW str \in Seq(ByteRange), NEW start \in Int, NEW cut \in BOOLEAN, NEW owed,
           InPlace(cs, r, str, start, cut, owed)
    PROVE  Holds(str, start, Frame(cs[r + 1]))
<1>1. PICK at \in [Nat -> Int] : Laid(at, cs, r, str) /\ at[r + 1] = start
  BY Zenon DEF InPlace
<1>2. r + 1 \in (r + 1)..Len(cs)
  OBVIOUS
<1> QED BY <1>1, <1>2, Zenon DEF Laid

\* k bytes are read.
LEMMA Consume ==
    ASSUME NEW cs \in Seq(Sendable), NEW r \in Nat, r <= Len(cs),
           NEW str \in Seq(ByteRange), NEW start \in Int,
           NEW cut \in BOOLEAN, NEW owed \in Nat, NEW k \in Nat, k <= Len(str),
           InPlace(cs, r, str, start, cut, owed)
    PROVE  InPlace(cs, r, From(str, k), start - k, cut, owed)
<1> DEFINE n == Len(cs)
           tr == From(str, k)
<1>1. PICK at \in [Nat -> Int] :
        /\ Laid(at, cs, r, str) /\ at[r + 1] = start
        /\ IF cut THEN at[n + 1] <= Len(str) ELSE at[n + 1] = Len(str) + owed
  BY Zenon DEF InPlace
<1> DEFINE bt == [j \in Nat |-> at[j] - k]
<1>2. n \in Nat /\ Len(str) \in Nat /\ r <= n
  BY SMTT(30)
<1>3. Len(tr) = Len(str) - k
  BY FromBytes
<1>4. bt \in [Nat -> Int] /\ \A j \in Nat : bt[j] = at[j] - k /\ at[j] \in Int
  BY SMTT(30)
<1>5. /\ \A j \in (r + 1)..n : at[j + 1] = at[j] + Len(Frame(cs[j]))
      /\ \A i, j \in (r + 1)..(n + 1) : i <= j => at[i] <= at[j]
      /\ \A j \in (r + 1)..n : Holds(str, at[j], Frame(cs[j]))
  BY <1>1, Zenon DEF Laid
<1>6. \A j \in 1..n : Frame(cs[j]) \in Seq(ByteRange) /\ Len(Frame(cs[j])) \in Nat
  BY FrameLength
<1> HIDE DEF n, tr, bt
<1>7. ASSUME NEW j \in (r + 1)..n
      PROVE  /\ bt[j + 1] = bt[j] + Len(Frame(cs[j]))
             /\ Holds(tr, bt[j], Frame(cs[j]))
  <2>1. j \in Nat /\ j + 1 \in Nat /\ j \in 1..n
    BY <1>2
  <2>2. at[j + 1] = at[j] + Len(Frame(cs[j])) /\ Holds(str, at[j], Frame(cs[j]))
    BY <1>5
  <2>3. bt[j] = at[j] - k /\ bt[j + 1] = at[j + 1] - k /\ at[j] \in Int
    BY <2>1, <1>4
  <2>4. Frame(cs[j]) \in Seq(ByteRange) /\ Len(Frame(cs[j])) \in Nat
    BY <2>1, <1>6
  <2>5. Holds(tr, at[j] - k, Frame(cs[j]))
    BY <2>2, <2>3, <2>4, HoldsFrom, ZenonT(30) DEF tr
  <2>6. \A a, l \in Int : (a + l) - k = (a - k) + l
    OBVIOUS
  <2>8. at[j] \in Int /\ Len(Frame(cs[j])) \in Int
    BY <2>3, <2>4
  <2>7. (at[j] + Len(Frame(cs[j]))) - k = (at[j] - k) + Len(Frame(cs[j]))
    BY <2>6, <2>8, Zenon
  <2> QED BY <2>2, <2>3, <2>5, <2>7, Zenon
<1>8. ASSUME NEW i \in (r + 1)..(n + 1), NEW j \in (r + 1)..(n + 1), i <= j
      PROVE  bt[i] <= bt[j]
  <2>1. at[i] <= at[j]
    BY <1>5, <1>8
  <2>2. i \in Nat /\ j \in Nat
    BY <1>2
  <2>3. bt[i] = at[i] - k /\ bt[j] = at[j] - k /\ at[i] \in Int /\ at[j] \in Int
    BY <2>2, <1>4
  <2>4. \A a, b \in Int : a <= b => a - k <= b - k
    OBVIOUS
  <2>5. at[i] - k <= at[j] - k
    BY <2>1, <2>3, <2>4, SMTT(30)
  <2> QED BY <2>3, <2>5, Zenon
<1>9. Laid(bt, cs, r, tr)
  BY <1>7, <1>8, Zenon DEF Laid, n
<1>10. bt[r + 1] = start - k
  BY <1>1, <1>4
<1>11. IF cut THEN bt[n + 1] <= Len(tr) ELSE bt[n + 1] = Len(tr) + owed
  <2>0. n + 1 \in Nat
    BY <1>2
  <2>1. bt[n + 1] = at[n + 1] - k /\ at[n + 1] \in Int
    BY <2>0, <1>4, Zenon
  <2> DEFINE e == at[n + 1]
             l == Len(str)
  <2>2. e \in Int /\ l \in Nat /\ Len(tr) = l - k /\ bt[n + 1] = e - k
    BY <2>1, <1>2, <1>3, SMTT(30)
  <2>3. IF cut THEN e <= l ELSE e = l + owed
    BY <1>1
  <2> HIDE DEF e, l
  <2>4. CASE cut
    BY <2>2, <2>3, <2>4, SMTT(30)
  <2>5. CASE ~cut
    BY <2>2, <2>3, <2>5
  <2> QED BY <2>4, <2>5
<1> QED BY <1>4, <1>9, <1>10, <1>11, ZenonT(30) DEF InPlace, n, tr

\* The reader has consumed a whole frame.
LEMMA FrameDone ==
    ASSUME NEW cs \in Seq(Sendable), NEW r \in Nat, r < Len(cs),
           NEW str \in Seq(ByteRange), NEW cut \in BOOLEAN, NEW owed \in Nat,
           InPlace(cs, r, str, 0 - Len(Frame(cs[r + 1])), cut, owed)
    PROVE  InPlace(cs, r + 1, str, 0, cut, owed)
<1> DEFINE n == Len(cs)
           l == Len(Frame(cs[r + 1]))
<1>1. PICK at \in [Nat -> Int] :
        /\ Laid(at, cs, r, str) /\ at[r + 1] = 0 - l
        /\ IF cut THEN at[n + 1] <= Len(str) ELSE at[n + 1] = Len(str) + owed
  BY Zenon DEF InPlace
<1>2. n \in Nat /\ r < n
  OBVIOUS
<1>3. /\ \A j \in (r + 1)..n : at[j + 1] = at[j] + Len(Frame(cs[j]))
      /\ \A i, j \in (r + 1)..(n + 1) : i <= j => at[i] <= at[j]
      /\ \A j \in (r + 1)..n : Holds(str, at[j], Frame(cs[j]))
  BY <1>1, Zenon DEF Laid
<1>4. l \in Nat
  BY FrameLength
<1> HIDE DEF n
<1>5. r + 1 \in (r + 1)..n
  BY <1>2
<1>6. at[(r + 1) + 1] = at[r + 1] + l
  BY <1>3, <1>5, ZenonT(30)
<1> HIDE DEF l
<1>7. at[(r + 1) + 1] = 0
  BY <1>1, <1>4, <1>6, SMTT(30)
<1>8. ((r + 1) + 1)..n \subseteq (r + 1)..n /\ ((r + 1) + 1)..(n + 1) \subseteq (r + 1)..(n + 1)
  BY <1>2, SMTT(30)
<1>9. Laid(at, cs, r + 1, str)
  BY <1>3, <1>8, Zenon DEF Laid, n
<1> QED BY <1>1, <1>7, <1>9, ZenonT(30) DEF InPlace, n

\* The payload is written after the header.
LEMMA EndFrame ==
    ASSUME NEW cs \in Seq(Sendable), NEW call \in Sendable, NEW r \in Nat,
           r <= Len(cs), NEW str \in Seq(ByteRange), NEW start \in Int,
           InPlace(Append(cs, call), r, str, start, FALSE, Size(call))
    PROVE  InPlace(Append(cs, call), r, str \o call.payload.bytes, start, FALSE, 0)
<1> DEFINE n == Len(cs)
           ds == Append(cs, call)
           x == call.payload.bytes
           tr == str \o x
<1>1. n \in Nat /\ ds \in Seq(Sendable) /\ Len(ds) = n + 1
      /\ (\A j \in 1..n : ds[j] = cs[j]) /\ ds[n + 1] = call /\ r <= n
  BY AppendCall, ZenonT(30)
<1>2. x \in Seq(ByteRange) /\ Len(x) = Size(call) /\ HeaderSize \in Nat /\ Size(call) \in Nat
      /\ Len(Frame(call)) = HeaderSize + Size(call)
  BY FrameParts
<1>3. Len(str) \in Nat /\ Len(tr) = Len(str) + Size(call)
  BY <1>2, Joined, Zenon
<1>4. PICK at \in [Nat -> Int] :
        Laid(at, ds, r, str) /\ at[r + 1] = start /\ at[Len(ds) + 1] = Len(str) + Size(call)
  BY Zenon DEF InPlace
<1>5. /\ \A j \in (r + 1)..Len(ds) : at[j + 1] = at[j] + Len(Frame(ds[j]))
      /\ \A i, j \in (r + 1)..(Len(ds) + 1) : i <= j => at[i] <= at[j]
      /\ \A j \in (r + 1)..Len(ds) : Holds(str, at[j], Frame(ds[j]))
  BY <1>4, Zenon DEF Laid
<1>6. \A j \in 1..Len(ds) : Frame(ds[j]) \in Seq(ByteRange)
  BY <1>1, FrameLength, Zenon
<1> HIDE DEF n, ds, x, tr
<1>7. at[n + 1] \in Int /\ at[n + 1] + HeaderSize = Len(str)
  <2>0. \A a, b \in Nat : b <= a => a + 1 \in (b + 1)..(a + 1) /\ a + 1 \in Nat
    OBVIOUS
  <2>1. n + 1 \in (r + 1)..Len(ds) /\ n + 1 \in Nat
    BY <2>0, <1>1, Zenon
  <2>2. at[(n + 1) + 1] = at[n + 1] + Len(Frame(ds[n + 1]))
    BY <1>5, <2>1, Zenon
  <2> DEFINE a == at[n + 1]
  <2>3. at[Len(ds) + 1] = a + Len(Frame(call))
    BY <1>1, <2>2, Zenon
  <2>4. a \in Int
    BY <2>1
  <2>5. Len(str) + Size(call) = a + (HeaderSize + Size(call))
    BY <1>2, <1>4, <2>3, Zenon
  <2> DEFINE m == Len(str)
             h == HeaderSize
             k == Size(call)
  <2>7. m \in Nat /\ h \in Nat /\ k \in Nat /\ m + k = a + (h + k)
    BY <1>2, <1>3, <2>5, ZenonT(30)
  <2> HIDE DEF a, m, h, k
  <2>8. a + h = m
    BY <2>4, <2>7
  <2>6. a + HeaderSize = Len(str)
    BY <2>8 DEF m, h
  <2> QED BY <2>4, <2>6, Zenon DEF a
<1>8. ASSUME NEW j \in (r + 1)..Len(ds)
      PROVE  Holds(tr, at[j], Frame(ds[j]))
  <2>1. Holds(str, at[j], Frame(ds[j]))
    BY <1>5, Zenon
  <2>2. CASE j = n + 1
    <3>1. Holds(str, at[n + 1], Frame(call))
      BY <2>1, <2>2, <1>1, ZenonT(30)
    <3>2. Holds(tr, at[n + 1], Frame(call))
      BY <3>1, <1>7, HoldsPayload, SMTT(30) DEF tr, x
    <3> QED BY <3>2, <2>2, <1>1, Zenon
  <2>3. CASE j # n + 1
    <3>0. j \in (r + 1)..(n + 1) /\ n \in Nat /\ r <= n
      BY <1>1, Zenon
    <3>8. j + 1 \in (r + 1)..((n + 1) + 1) /\ n + 1 \in (r + 1)..((n + 1) + 1)
      BY <3>0, <2>3
    <3>9. j + 1 <= n + 1 /\ j \in Nat /\ j \in 1..(n + 1)
      BY <3>0, <2>3
    <3>1. j + 1 \in (r + 1)..(Len(ds) + 1) /\ n + 1 \in (r + 1)..(Len(ds) + 1)
          /\ j + 1 <= n + 1 /\ j \in Nat /\ j \in 1..Len(ds)
      BY <3>8, <3>9, <1>1, Zenon
    <3>2. at[j + 1] <= at[n + 1] /\ at[j + 1] = at[j] + Len(Frame(ds[j]))
      BY <3>1, <1>5, ZenonT(30)
    <3>3. Frame(ds[j]) \in Seq(ByteRange) /\ at[j] \in Int
      BY <3>1, <1>6
    <3> DEFINE e == at[j] + Len(Frame(ds[j]))
    <3>4. e \in Int /\ e <= at[n + 1]
      BY <3>2, <3>3
    <3> HIDE DEF e
    <3>7. Len(str) \in Int /\ at[n + 1] <= Len(str)
      <4>1. \A a \in Int : \A h, m \in Nat : a + h = m => a <= m
        OBVIOUS
      <4>2. Len(str) \in Int
        BY <1>3
      <4> QED BY <4>1, <4>2, <1>2, <1>3, <1>7, ZenonT(30)
    <3>5. e <= Len(str)
      BY <3>4, <3>7, <1>7, LeqTransitive, ZenonT(30)
    <3>6. at[j] + Len(Frame(ds[j])) <= Len(str)
      BY <3>5 DEF e
    <3> QED BY <2>1, <3>3, <3>6, <1>2, HoldsMore, Zenon DEF tr
  <2> QED BY <2>2, <2>3
<1>9. Laid(at, ds, r, tr)
  BY <1>5, <1>8, ZenonT(30) DEF Laid
<1>10. at[Len(ds) + 1] = Len(tr) + 0
  BY <1>2, <1>3, <1>4
<1> QED BY <1>4, <1>9, <1>10, ZenonT(30) DEF InPlace, ds, tr, x

\* More bytes after the frames, when no more of them is owed.
LEMMA MoreBytes ==
    ASSUME NEW cs \in Seq(Sendable), NEW r \in Nat, r <= Len(cs),
           NEW str \in Seq(ByteRange), NEW x \in Seq(ByteRange), NEW start \in Int,
           NEW cut \in BOOLEAN, InPlace(cs, r, str, start, cut, 0), NEW owed
    PROVE  InPlace(cs, r, str \o x, start, TRUE, owed)
<1> DEFINE n == Len(cs)
           tr == str \o x
<1>1. PICK at \in [Nat -> Int] :
        /\ Laid(at, cs, r, str) /\ at[r + 1] = start
        /\ IF cut THEN at[n + 1] <= Len(str) ELSE at[n + 1] = Len(str) + 0
  BY Zenon DEF InPlace
<1>2. n \in Nat /\ r <= n /\ n + 1 \in Nat
  BY SMTT(30)
<1>3. Len(str) \in Nat /\ Len(x) \in Nat /\ Len(tr) = Len(str) + Len(x)
  BY Joined
<1>4. /\ \A j \in (r + 1)..n : at[j + 1] = at[j] + Len(Frame(cs[j]))
      /\ \A i, j \in (r + 1)..(n + 1) : i <= j => at[i] <= at[j]
      /\ \A j \in (r + 1)..n : Holds(str, at[j], Frame(cs[j]))
  BY <1>1, Zenon DEF Laid
<1>5. \A j \in 1..n : Frame(cs[j]) \in Seq(ByteRange)
  BY FrameLength
<1> HIDE DEF n, tr
<1>6. at[n + 1] \in Int /\ at[n + 1] <= Len(str)
  <2> DEFINE e == at[n + 1]
             m == Len(str)
  <2>1. e \in Int /\ m \in Nat /\ (IF cut THEN e <= m ELSE e = m + 0)
    BY <1>1, <1>2, <1>3, SMTT(30)
  <2> HIDE DEF e, m
  <2>2. e <= m
    BY <2>1
  <2> QED BY <2>1, <2>2, SMTT(30) DEF e, m
<1>7. ASSUME NEW j \in (r + 1)..n
      PROVE  Holds(tr, at[j], Frame(cs[j]))
  <2>1. Holds(str, at[j], Frame(cs[j])) /\ at[j + 1] = at[j] + Len(Frame(cs[j]))
    BY <1>4, Zenon
  <2>2. j + 1 \in (r + 1)..(n + 1) /\ n + 1 \in (r + 1)..(n + 1)
        /\ j + 1 <= n + 1 /\ j \in Nat /\ j \in 1..n
    BY <1>2
  <2>3. at[j + 1] <= at[n + 1]
    BY <2>2, <1>4, Zenon
  <2>4. Frame(cs[j]) \in Seq(ByteRange) /\ at[j] \in Int
    BY <2>2, <1>5
  <2> DEFINE e == at[j] + Len(Frame(cs[j]))
  <2>5. e \in Int /\ e <= at[n + 1]
    BY <2>1, <2>3, <2>4, SMTT(30)
  <2> HIDE DEF e
  <2>8. Len(str) \in Int
    BY <1>3
  <2>6. e <= Len(str)
    BY <2>5, <2>8, <1>6, LeqTransitive, ZenonT(30)
  <2>7. at[j] + Len(Frame(cs[j])) <= Len(str)
    BY <2>6 DEF e
  <2> QED BY <2>1, <2>4, <2>7, HoldsMore, SMTT(30) DEF tr
<1>8. Laid(at, cs, r, tr)
  BY <1>4, <1>7, ZenonT(30) DEF Laid, n
<1>9. at[n + 1] <= Len(tr)
  BY <1>3, <1>6, SMTT(30)
<1> QED BY <1>1, <1>8, <1>9, Zenon DEF InPlace, n, tr

\* The last frame is given up before its payload: the others are in the stream
\* whole.
LEMMA GiveUpFrame ==
    ASSUME NEW cs \in Seq(Sendable), NEW call \in Sendable, NEW r \in Nat,
           r <= Len(cs), NEW str \in Seq(ByteRange), NEW start \in Int,
           InPlace(Append(cs, call), r, str, start, FALSE, Size(call))
    PROVE  InPlace(cs, r, str, start, TRUE, 0)
<1> DEFINE n == Len(cs)
           ds == Append(cs, call)
<1>1. n \in Nat /\ ds \in Seq(Sendable) /\ Len(ds) = n + 1
      /\ (\A j \in 1..n : ds[j] = cs[j]) /\ ds[n + 1] = call /\ r <= n
  BY AppendCall, Zenon
<1>2. HeaderSize \in Nat /\ Size(call) \in Nat /\ Len(Frame(call)) = HeaderSize + Size(call)
  BY FrameParts
<1>3. Len(str) \in Nat
  OBVIOUS
<1>4. PICK at \in [Nat -> Int] :
        Laid(at, ds, r, str) /\ at[r + 1] = start /\ at[Len(ds) + 1] = Len(str) + Size(call)
  BY Zenon DEF InPlace
<1>5. /\ \A j \in (r + 1)..Len(ds) : at[j + 1] = at[j] + Len(Frame(ds[j]))
      /\ \A i, j \in (r + 1)..(Len(ds) + 1) : i <= j => at[i] <= at[j]
      /\ \A j \in (r + 1)..Len(ds) : Holds(str, at[j], Frame(ds[j]))
  BY <1>4, Zenon DEF Laid
<1> HIDE DEF n, ds
<1>6. /\ (r + 1)..n \subseteq (r + 1)..Len(ds) /\ (r + 1)..n \subseteq 1..n
      /\ (r + 1)..(n + 1) \subseteq (r + 1)..(Len(ds) + 1)
  BY <1>1
<1>7. Laid(at, cs, r, str)
  <2>1. /\ \A j \in (r + 1)..n : at[j + 1] = at[j] + Len(Frame(cs[j]))
        /\ \A i, j \in (r + 1)..(n + 1) : i <= j => at[i] <= at[j]
        /\ \A j \in (r + 1)..n : Holds(str, at[j], Frame(cs[j]))
    BY <1>1, <1>5, <1>6, ZenonT(30)
  <2> QED BY <2>1, Zenon DEF Laid, n
<1>8. at[n + 1] <= Len(str)
  <2>0. \A a, b \in Nat : b <= a => a + 1 \in (b + 1)..(a + 1) /\ a + 1 \in Nat
    OBVIOUS
  <2>1. n + 1 \in (r + 1)..Len(ds) /\ n + 1 \in Nat
    BY <2>0, <1>1, Zenon
  <2>2. at[(n + 1) + 1] = at[n + 1] + Len(Frame(ds[n + 1]))
    BY <1>5, <2>1, Zenon
  <2> DEFINE a == at[n + 1]
  <2>3. at[Len(ds) + 1] = a + Len(Frame(call))
    BY <1>1, <2>2, Zenon
  <2>4. a \in Int
    BY <2>1
  <2>5. Len(str) + Size(call) = a + (HeaderSize + Size(call))
    BY <1>2, <1>4, <2>3, ZenonT(30)
  <2> DEFINE m == Len(str)
             h == HeaderSize
             k == Size(call)
  <2>7. m \in Nat /\ h \in Nat /\ k \in Nat /\ m + k = a + (h + k)
    BY <1>2, <1>3, <2>5, ZenonT(30)
  <2> HIDE DEF a, m, h, k
  <2>8. a <= m
    BY <2>4, <2>7
  <2>6. a <= Len(str)
    BY <2>8 DEF m, h
  <2> QED BY <2>6, SMTT(30) DEF a
<1> QED BY <1>4, <1>7, <1>8, Zenon DEF InPlace, n

--------------------------------------------------------------------------------
\* The reader is at the frame of cs[r + 1]: before it, or after its header.
Aligned(cs, r, str, stage, h, cut, owed) ==
    /\ str \in Seq(ByteRange)
    /\ r <= Len(cs)
    /\ InPlace(cs, r, str, IF stage = "payload" THEN 0 - HeaderSize ELSE 0, cut, owed)
    /\ stage = "payload" => r < Len(cs) /\ h = HeaderOf(cs[r + 1])

LEMMA HeaderSizes ==
    HeaderSize \in Nat /\ HeaderSize > 0 /\ Len(Signature) <= HeaderSize /\ Len(Signature) \in Nat
<1> DEFINE a == Widths[3]
           b == Widths[4]
<1>1. a \in Nat /\ b \in Nat /\ HeaderSize = 2 * b + 1 + 4 * a
  BY WidthsGrow DEF HeaderSize
<1>2. Len(Signature) = b
  BY <1>1, SignatureBytes
<1> HIDE DEF a, b
<1> QED BY <1>1, <1>2

LEMMA StartInt ==
    ASSUME NEW stage
    PROVE  /\ (IF stage = "payload" THEN 0 - HeaderSize ELSE 0) \in Int
           /\ (IF stage = "payload" THEN 0 - HeaderSize ELSE 0) <= 0
<1>1. HeaderSize \in Nat
  BY WidthsGrow DEF HeaderSize
<1> QED BY <1>1

LEMMA AlignedBegin ==
    ASSUME NEW cs \in Seq(Sendable), NEW call \in Sendable, NEW r \in Nat, NEW str,
           NEW stage, NEW h, Aligned(cs, r, str, stage, h, FALSE, 0)
    PROVE  Aligned(Append(cs, call), r, str \o HeaderBytes(call), stage, h, FALSE, Size(call))
<1> DEFINE start == IF stage = "payload" THEN 0 - HeaderSize ELSE 0
           ds == Append(cs, call)
<1>1. /\ str \in Seq(ByteRange) /\ r <= Len(cs) /\ InPlace(cs, r, str, start, FALSE, 0)
      /\ stage = "payload" => r < Len(cs) /\ h = HeaderOf(cs[r + 1])
  BY Zenon DEF Aligned
<1>2. start \in Int
  BY StartInt, Zenon
<1> HIDE DEF start
<1>3. InPlace(ds, r, str \o HeaderBytes(call), start, FALSE, Size(call))
  BY <1>1, <1>2, BeginFrame, ZenonT(30)
<1>4. HeaderBytes(call) \in Seq(ByteRange)
  BY HeaderBack
<1>5. str \o HeaderBytes(call) \in Seq(ByteRange)
  BY <1>1, <1>4, Joined
<1>6. Len(ds) = Len(cs) + 1 /\ \A j \in 1..Len(cs) : ds[j] = cs[j]
  BY AppendCall, ZenonT(30)
<1> HIDE DEF ds
<1>7. r <= Len(ds) /\ (r < Len(cs) => r < Len(ds) /\ ds[r + 1] = cs[r + 1])
  BY <1>1, <1>6
<1> QED BY <1>1, <1>3, <1>5, <1>7, Zenon DEF Aligned, start, ds

\* While bytes of a frame are owed, the reader has not returned it.
LEMMA AlignedOwed ==
    ASSUME NEW cs \in Seq(Sendable), NEW call \in Sendable, NEW r \in Nat, NEW str,
           NEW stage, NEW h, Aligned(Append(cs, call), r, str, stage, h, FALSE, Size(call)),
           Size(call) > 0
    PROVE  r <= Len(cs)
<1> DEFINE start == IF stage = "payload" THEN 0 - HeaderSize ELSE 0
           ds == Append(cs, call)
<1>1. str \in Seq(ByteRange) /\ r <= Len(ds) /\ InPlace(ds, r, str, start, FALSE, Size(call))
  BY Zenon DEF Aligned
<1>2. start \in Int /\ start <= 0
  BY StartInt, Zenon
<1>3. ds \in Seq(Sendable) /\ Len(ds) = Len(cs) + 1
  BY AppendCall, ZenonT(30)
<1>4. Size(call) \in Nat
  BY FrameParts
<1> HIDE DEF start, ds
<1>5. Len(str) + Size(call) > 0
  BY <1>1, <1>4
<1>6. r < Len(ds)
  BY <1>1, <1>2, <1>3, <1>4, <1>5, StillUnread, ZenonT(30)
<1>7. Len(cs) \in Nat
  OBVIOUS
<1> QED BY <1>3, <1>6, <1>7

LEMMA AlignedEnd ==
    ASSUME NEW cs \in Seq(Sendable), NEW call \in Sendable, NEW r \in Nat, NEW str,
           NEW stage, NEW h, Aligned(Append(cs, call), r, str, stage, h, FALSE, Size(call)),
           Size(call) > 0
    PROVE  Aligned(Append(cs, call), r, str \o call.payload.bytes, stage, h, FALSE, 0)
<1> DEFINE start == IF stage = "payload" THEN 0 - HeaderSize ELSE 0
           ds == Append(cs, call)
<1>1. /\ str \in Seq(ByteRange) /\ r <= Len(ds) /\ InPlace(ds, r, str, start, FALSE, Size(call))
      /\ stage = "payload" => r < Len(ds) /\ h = HeaderOf(ds[r + 1])
  BY Zenon DEF Aligned
<1>2. start \in Int
  BY StartInt, Zenon
<1>3. r <= Len(cs)
  BY AlignedOwed, Zenon
<1> HIDE DEF start
<1>4. InPlace(ds, r, str \o call.payload.bytes, start, FALSE, 0)
  BY <1>1, <1>2, <1>3, EndFrame, ZenonT(30)
<1>5. call.payload.bytes \in Seq(ByteRange)
  BY FrameParts
<1>6. str \o call.payload.bytes \in Seq(ByteRange)
  BY <1>1, <1>5, Joined
<1> HIDE DEF ds
<1> QED BY <1>1, <1>4, <1>6, Zenon DEF Aligned, start, ds

LEMMA AlignedMore ==
    ASSUME NEW cs \in Seq(Sendable), NEW r \in Nat, NEW str, NEW x \in Seq(ByteRange),
           NEW stage, NEW h, NEW cut \in BOOLEAN, Aligned(cs, r, str, stage, h, cut, 0)
    PROVE  Aligned(cs, r, str \o x, stage, h, TRUE, 0)
<1> DEFINE start == IF stage = "payload" THEN 0 - HeaderSize ELSE 0
<1>1. /\ str \in Seq(ByteRange) /\ r <= Len(cs) /\ InPlace(cs, r, str, start, cut, 0)
      /\ stage = "payload" => r < Len(cs) /\ h = HeaderOf(cs[r + 1])
  BY Zenon DEF Aligned
<1>2. start \in Int
  BY StartInt, Zenon
<1> HIDE DEF start
<1>3. InPlace(cs, r, str \o x, start, TRUE, 0)
  BY <1>1, <1>2, MoreBytes, ZenonT(30)
<1>4. str \o x \in Seq(ByteRange)
  BY <1>1, Joined
<1> QED BY <1>1, <1>3, <1>4, Zenon DEF Aligned, start

LEMMA AlignedGiveUp ==
    ASSUME NEW cs \in Seq(Sendable), NEW call \in Sendable, NEW r \in Nat, NEW str,
           NEW x \in Seq(ByteRange), NEW stage, NEW h,
           Aligned(Append(cs, call), r, str, stage, h, FALSE, Size(call)),
           r < Len(cs)
    PROVE  Aligned(cs, r, str \o x, stage, h, TRUE, 0)
<1> DEFINE start == IF stage = "payload" THEN 0 - HeaderSize ELSE 0
           ds == Append(cs, call)
<1>1. /\ str \in Seq(ByteRange) /\ InPlace(ds, r, str, start, FALSE, Size(call))
      /\ stage = "payload" => h = HeaderOf(ds[r + 1])
  BY Zenon DEF Aligned
<1>2. start \in Int
  BY StartInt, Zenon
<1>3. r \in Nat /\ Len(cs) \in Nat /\ r <= Len(cs) /\ r + 1 \in 1..Len(cs)
  BY SMTT(30)
<1>4. ds[r + 1] = cs[r + 1]
  BY <1>3, AppendCall
<1> HIDE DEF start
<1>5. InPlace(cs, r, str, start, TRUE, 0)
  BY <1>1, <1>2, <1>3, GiveUpFrame, ZenonT(30)
<1> HIDE DEF ds
<1>6. Aligned(cs, r, str, stage, h, TRUE, 0)
  BY <1>1, <1>3, <1>4, <1>5, ZenonT(30) DEF Aligned, start
<1> QED BY <1>6, AlignedMore, Zenon

\* What the reader finds at a header: the one of the frame that is due.
AtHeader(cs, r, str, cut, owed) ==
    /\ r < Len(cs) /\ cs[r + 1] \in Sendable
    /\ SubSeq(str, 1, HeaderSize) = HeaderBytes(cs[r + 1])
    /\ SubSeq(str, 1, Len(Signature)) = Signature
    /\ Aligned(cs, r, From(str, HeaderSize), "payload", HeaderOf(cs[r + 1]), cut, owed)
    /\ \A h2 : Size(cs[r + 1]) = 0 =>
          Aligned(cs, r + 1, From(str, HeaderSize), "header", h2, cut, owed)

\* What it finds at a payload.
AtPayload(cs, r, str, h, cut, owed) ==
    /\ r < Len(cs) /\ cs[r + 1] \in Sendable /\ h = HeaderOf(cs[r + 1])
    /\ SubSeq(str, 1, h.PayloadSize) = cs[r + 1].payload.bytes
    /\ \A h2 : Aligned(cs, r + 1, From(str, h.PayloadSize), "header", h2, cut, owed)

LEMMA AlignedHeader ==
    ASSUME NEW cs \in Seq(Sendable), NEW r \in Nat, NEW str, NEW h,
           NEW cut \in BOOLEAN, NEW owed \in Nat, cut => r < Len(cs),
           Aligned(cs, r, str, "header", h, cut, owed), HeaderSize <= Len(str)
    PROVE  AtHeader(cs, r, str, cut, owed)
<1>1. str \in Seq(ByteRange) /\ r <= Len(cs) /\ InPlace(cs, r, str, 0, cut, owed)
  BY Zenon DEF Aligned
<1>2. HeaderSize \in Nat /\ HeaderSize > 0 /\ Len(Signature) <= HeaderSize /\ Len(Signature) \in Nat
  BY HeaderSizes, Zenon
<1>3. r < Len(cs)
  <2>1. Len(str) + owed > 0
    BY <1>1, <1>2
  <2>2. CASE ~cut
    <3>1. InPlace(cs, r, str, 0, FALSE, owed)
      BY <1>1, <2>2, ZenonT(30)
    <3>2. 0 \in Int /\ 0 <= 0
      OBVIOUS
    <3> QED BY <1>1, <2>1, <3>1, <3>2, StillUnread, ZenonT(30)
  <2> QED BY <2>2
<1> DEFINE c == cs[r + 1]
           k == HeaderSize
           tr == From(str, k)
<1>4. c \in Sendable /\ r + 1 \in 1..Len(cs)
  BY <1>3
<1>5. Holds(str, 0, Frame(c))
  BY <1>1, <1>3, DueIsNext, SMTT(30)
<1> HIDE DEF c
<1>6. SubSeq(str, 1, HeaderSize) = HeaderBytes(c)
  BY <1>1, <1>4, <1>5, HeaderFound
<1>7. SubSeq(str, 1, Len(Signature)) = Signature
  <2>1. SubSeq(HeaderBytes(c), 1, Len(Signature)) = Signature
    BY <1>4, HeaderBack
  <2> DEFINE l == Len(Signature)
             x == SubSeq(str, 1, k)
  <2>2. l \in Nat /\ l <= k /\ k \in Nat /\ k <= Len(str)
    BY <1>2
  <2>3. SubSeq(x, 1, l) = Signature
    BY <2>1, <1>6, ZenonT(30)
  <2> HIDE DEF k, l
  <2>4. SubSeq(x, 1, l) = SubSeq(str, 1, l)
    BY <1>1, <2>2
  <2> QED BY <2>3, <2>4, ZenonT(30) DEF l
<1>8. k \in Nat /\ k <= Len(str)
  BY <1>2
<1>9. tr \in Seq(ByteRange)
  BY <1>1, <1>8, FromBytes, SMTT(30)
<1> HIDE DEF k
<1>10. InPlace(cs, r, tr, 0 - k, cut, owed)
  BY <1>1, <1>8, Consume, SMTT(30)
<1> HIDE DEF tr
<1>11. Aligned(cs, r, tr, "payload", HeaderOf(cs[r + 1]), cut, owed)
  BY <1>1, <1>3, <1>9, <1>10, ZenonT(30) DEF Aligned, k
<1>12. ASSUME NEW h2, Size(c) = 0
       PROVE  Aligned(cs, r + 1, tr, "header", h2, cut, owed)
  <2>1. Len(Frame(c)) = k + Size(c) /\ k \in Nat
    BY <1>4, FrameParts, SMTT(30) DEF k
  <2>2. Len(Frame(c)) = k
    BY <1>12, <2>1
  <2>3. InPlace(cs, r, tr, 0 - Len(Frame(cs[r + 1])), cut, owed)
    BY <1>10, <2>2, ZenonT(30) DEF c
  <2>4. InPlace(cs, r + 1, tr, 0, cut, owed)
    BY <1>3, <1>9, <2>3, FrameDone, SMTT(30)
  <2>5. r + 1 <= Len(cs)
    BY <1>4
  <2>6. "header" # "payload"
    OBVIOUS
  <2> QED BY <1>9, <2>4, <2>5, <2>6, ZenonT(30) DEF Aligned
<1> QED BY <1>3, <1>4, <1>6, <1>7, <1>11, <1>12, ZenonT(30) DEF AtHeader, c, tr, k

LEMMA AlignedPayload ==
    ASSUME NEW cs \in Seq(Sendable), NEW r \in Nat, NEW str, NEW h,
           NEW cut \in BOOLEAN, NEW owed \in Nat,
           Aligned(cs, r, str, "payload", h, cut, owed), h.PayloadSize <= Len(str)
    PROVE  AtPayload(cs, r, str, h, cut, owed)
<1>1. /\ str \in Seq(ByteRange) /\ InPlace(cs, r, str, 0 - HeaderSize, cut, owed)
      /\ r < Len(cs) /\ h = HeaderOf(cs[r + 1])
  BY ZenonT(30) DEF Aligned
<1> DEFINE c == cs[r + 1]
           k == HeaderSize
           n == Size(c)
           tr == From(str, n)
<1>2. c \in Sendable /\ r + 1 \in 1..Len(cs)
  BY <1>1
<1>3. h.PayloadSize = n
  BY <1>1, ZenonT(30) DEF Size
<1>4. k \in Nat /\ n \in Nat /\ Len(Frame(c)) = k + n
  BY <1>2, FrameParts, SMTT(30)
<1>5. 0 - k \in Int
  BY <1>4, SMTT(30)
<1>6. Holds(str, 0 - k, Frame(c))
  BY <1>1, <1>5, DueIsNext, SMTT(30)
<1>7. n <= Len(str)
  BY <1>3, SMTT(30)
<1>8. SubSeq(str, 1, n) = c.payload.bytes
  <2> HIDE DEF c
  <2> QED BY <1>1, <1>2, <1>6, <1>7, PayloadFound, SMTT(30)
<1> HIDE DEF n, k
<1>9. tr \in Seq(ByteRange)
  BY <1>1, <1>4, <1>7, FromBytes, SMTT(30)
<1>10. InPlace(cs, r, tr, (0 - k) - n, cut, owed)
  <2>1. InPlace(cs, r, str, 0 - k, cut, owed) /\ r <= Len(cs)
    BY <1>1 DEF k
  <2> QED BY <1>1, <1>4, <1>5, <1>7, <2>1, Consume, SMTT(30)
<1> HIDE DEF tr
<1>11. (0 - k) - n = 0 - Len(Frame(cs[r + 1]))
  <2>1. (0 - k) - n = 0 - (k + n)
    BY <1>4
  <2> QED BY <2>1, <1>4, ZenonT(30)
<1>12. InPlace(cs, r, tr, 0 - Len(Frame(cs[r + 1])), cut, owed)
  BY <1>10, <1>11, ZenonT(30)
<1>13. InPlace(cs, r + 1, tr, 0, cut, owed)
  BY <1>1, <1>9, <1>12, FrameDone, SMTT(30)
<1>14. r + 1 <= Len(cs) /\ "header" # "payload"
  BY <1>2
<1>15. \A h2 : Aligned(cs, r + 1, tr, "header", h2, cut, owed)
  BY <1>9, <1>13, <1>14, ZenonT(30) DEF Aligned
<1> QED BY <1>1, <1>2, <1>3, <1>8, <1>15, ZenonT(30) DEF AtPayload, tr

\* A read that gives up before its first byte.
LEMMA AlignedNone ==
    ASSUME NEW cs \in Seq(Sendable), NEW r \in Nat, NEW str, NEW h, NEW h2,
           NEW cut \in BOOLEAN, NEW owed \in Nat,
           Aligned(cs, r, str, "header", h, cut, owed)
    PROVE  Aligned(cs, r, From(str, 0), "header", h2, cut, owed)
<1>1. str \in Seq(ByteRange) /\ r <= Len(cs) /\ InPlace(cs, r, str, 0, cut, owed)
  BY Zenon DEF Aligned
<1>2. From(str, 0) \in Seq(ByteRange) /\ 0 <= Len(str)
  BY <1>1, FromBytes, SMTT(30)
<1>3. InPlace(cs, r, From(str, 0), 0 - 0, cut, owed)
  BY <1>1, <1>2, Consume, SMTT(30)
<1>4. 0 - 0 = 0 /\ "header" # "payload"
  OBVIOUS
<1> QED BY <1>1, <1>2, <1>3, <1>4, ZenonT(30) DEF Aligned

--------------------------------------------------------------------------------
\* Begun and the bytes still owed to it, as functions of the state.
BegunBy(stage, cl, s, cut) ==
    LET writing == {w \in Writers : stage[w] = "payload"}
    IN  IF cut \/ writing = {} THEN s
        ELSE Append(s, Head(cl[CHOOSE w \in writing : TRUE]))

OwedBy(stage, cl, cut) ==
    LET writing == {w \in Writers : stage[w] = "payload"}
    IN  IF cut \/ writing = {} THEN 0 ELSE Size(Head(cl[CHOOSE w \in writing : TRUE]))

Owed == OwedBy(wpc, calls, torn)

LEMMA BegunNone ==
    ASSUME NEW stage, NEW cl, NEW s, NEW cut, cut \/ \A w \in Writers : stage[w] # "payload"
    PROVE  BegunBy(stage, cl, s, cut) = s /\ OwedBy(stage, cl, cut) = 0
BY DEF BegunBy, OwedBy

LEMMA BegunOne ==
    ASSUME NEW stage, NEW cl, NEW s, NEW w \in Writers, stage[w] = "payload",
           \A v \in Writers : stage[v] = "payload" => v = w
    PROVE  /\ BegunBy(stage, cl, s, FALSE) = Append(s, Head(cl[w]))
           /\ OwedBy(stage, cl, FALSE) = Size(Head(cl[w]))
<1>1. {v \in Writers : stage[v] = "payload"} = {w}
  OBVIOUS
<1>2. (CHOOSE v \in {w} : TRUE) = w /\ {w} # {}
  OBVIOUS
<1> QED BY <1>1, <1>2 DEF BegunBy, OwedBy

LevinTypes ==
    /\ calls \in [Writers -> Seq(AllCalls)]
    /\ wpc \in [Writers -> {"call", "header", "payload"}]
    /\ torn \in BOOLEAN /\ lost \in BOOLEAN
    /\ sent \in Seq(Sendable)
    /\ rpc \in {"header", "payload"}
    /\ \E S : returned \in Seq(S)

\* A goroutine that is in writeFrame holds the write lock.
LockInv ==
    \A w \in Writers :
        /\ wpc[w] # "call" => writeMu = w /\ calls[w] # <<>> /\ Call(w).payload.ok
        /\ wpc[w] = "payload" => Call(w).payload.bytes # <<>>

\* Until the reader loses its place, or comes to the end of what was written
\* before a write was cut short, it is at the frame that is due.
StreamInv ==
    (~lost /\ (torn => Len(returned) < Len(Begun))) =>
        Aligned(Begun, Len(returned), stream, rpc, hdr, torn, Owed)

\* ReadPacket goes on to a payload only within the limits.
LimitInv == rpc = "payload" => ~(hdr.PayloadSize > MaxPayloadSize) /\ ~TooBig(hdr)

\* The inductive invariant.
LevinInv == LevinTypes /\ LockInv /\ StreamInv /\ LimitInv

LEMMA CallFacts ==
    ASSUME LevinTypes, NEW w \in Writers, calls[w] # <<>>
    PROVE  /\ Call(w) \in AllCalls /\ Tail(calls[w]) \in Seq(AllCalls)
           /\ Call(w).payload.ok => Call(w) \in Sendable
<1>1. calls[w] \in Seq(AllCalls)
  BY DEF LevinTypes
<1>2. Head(calls[w]) \in AllCalls /\ Tail(calls[w]) \in Seq(AllCalls)
  BY <1>1
<1> QED BY <1>2 DEF Call, Sendable

LEMMA BegunState ==
    /\ Begun = BegunBy(wpc, calls, sent, torn)
    /\ Begun' = BegunBy(wpc', calls', sent', torn')
    /\ Owed' = OwedBy(wpc', calls', torn')
BY Zenon DEF Begun, BegunBy, Owed, Call

\* At most one frame is begun and not whole.
LEMMA BegunCases ==
    ASSUME LevinTypes, LockInv
    PROVE  /\ Begun \in Seq(Sendable) /\ Owed \in Nat
           /\ torn => Begun = sent /\ Owed = 0
           /\ \A w \in Writers : wpc[w] = "header" => Begun = sent /\ Owed = 0
           /\ \A w \in Writers : wpc[w] = "payload" /\ ~torn =>
                 Begun = Append(sent, Call(w)) /\ Owed = Size(Call(w))
<1>1. ASSUME torn \/ \A w \in Writers : wpc[w] # "payload"
      PROVE  Begun = sent /\ Owed = 0
  <2>1. BegunBy(wpc, calls, sent, torn) = sent /\ OwedBy(wpc, calls, torn) = 0
    BY <1>1, BegunNone
  <2> QED BY <2>1, BegunState, ZenonT(30) DEF Owed
<1>2. ASSUME NEW w \in Writers, wpc[w] = "payload", ~torn
      PROVE  /\ Begun = Append(sent, Call(w)) /\ Owed = Size(Call(w))
             /\ Begun \in Seq(Sendable) /\ Owed \in Nat
  <2>1. wpc[w] # "call" /\ \A v \in Writers : wpc[v] = "payload" => wpc[v] # "call"
    BY <1>2
  <2>2. \A v \in Writers : wpc[v] = "payload" => v = w
    BY <2>1, ZenonT(30) DEF LockInv
  <2>3. torn = FALSE
    BY <1>2 DEF LevinTypes
  <2>4. Begun = Append(sent, Call(w)) /\ Owed = Size(Call(w))
    BY <1>2, <2>2, <2>3, BegunOne, BegunState, ZenonT(30) DEF Owed, Call
  <2>5. Call(w) \in Sendable
    BY <2>1, CallFacts, ZenonT(30) DEF LockInv
  <2>6. Append(sent, Call(w)) \in Seq(Sendable) /\ Size(Call(w)) \in Nat
    BY <2>5, AppendCall, FrameParts, SMTT(30) DEF LevinTypes
  <2> QED BY <2>4, <2>6, ZenonT(30)
<1>3. \A w \in Writers : wpc[w] = "header" => \A v \in Writers : wpc[v] # "payload"
  <2> SUFFICES ASSUME NEW w \in Writers, wpc[w] = "header", NEW v \in Writers, wpc[v] = "payload"
               PROVE  FALSE
    BY Zenon
  <2>1. wpc[w] # "call" /\ wpc[v] # "call" /\ wpc[w] # wpc[v]
    OBVIOUS
  <2>2. w = v
    BY <2>1, Zenon DEF LockInv
  <2> QED BY <2>1, <2>2
<1>4. sent \in Seq(Sendable) /\ 0 \in Nat /\ torn \in BOOLEAN
  BY DEF LevinTypes
<1>5. Begun \in Seq(Sendable) /\ Owed \in Nat
  BY <1>1, <1>2, <1>4, ZenonT(30)
<1> QED BY <1>1, <1>2, <1>3, <1>5, ZenonT(30)

--------------------------------------------------------------------------------
LEMMA AppendResult ==
    ASSUME NEW q, \E S : q \in Seq(S), NEW x
    PROVE  /\ \E S : Append(q, x) \in Seq(S)
           /\ Len(q) \in Nat /\ Len(Append(q, x)) = Len(q) + 1
           /\ SubSeq(Append(q, x), 1, Len(q)) = q
<1>1. PICK S : q \in Seq(S)
  OBVIOUS
<1> DEFINE T == S \cup {x}
<1>2. q \in Seq(T) /\ x \in T
  BY <1>1
<1> HIDE DEF T
<1>3. Append(q, x) \in Seq(T)
  BY <1>2
<1>4. Len(q) \in Nat /\ Len(Append(q, x)) = Len(q) + 1
  BY <1>2
<1>5. SubSeq(Append(q, x), 1, Len(q)) = q
  BY <1>2
<1> QED BY <1>3, <1>4, <1>5

\* A writer's step leaves the types, and the lock with who is in writeFrame.
LEMMA WriterKeeps ==
    ASSUME LevinTypes, LockInv, NEW w \in Writers, WriterStep(w)
    PROVE  LevinTypes' /\ LockInv'
<1>0. /\ calls \in [Writers -> Seq(AllCalls)] /\ wpc \in [Writers -> {"call", "header", "payload"}]
      /\ sent \in Seq(Sendable)
  BY SMTT(30) DEF LevinTypes
<1>1. UNCHANGED readerVars
  BY DEF WriterStep, Unencodable, Lock, Write, WriteFails
<1>2. ASSUME Return(w), calls[w] # <<>>
      PROVE  /\ calls' \in [Writers -> Seq(AllCalls)]
             /\ wpc' \in [Writers -> {"call", "header", "payload"}]
             /\ wpc'[w] = "call"
             /\ \A v \in Writers : v # w => wpc'[v] = wpc[v] /\ calls'[v] = calls[v]
  <2>1. Tail(calls[w]) \in Seq(AllCalls)
    BY <1>2, CallFacts
  <2> QED BY <1>0, <1>2, <2>1, SMTT(30) DEF Return
<1>3. wpc[w] \in {"header", "payload"} =>
        calls[w] # <<>> /\ writeMu = w /\ Call(w) \in Sendable
  <2> SUFFICES ASSUME wpc[w] \in {"header", "payload"}
               PROVE  calls[w] # <<>> /\ writeMu = w /\ Call(w) \in Sendable
    OBVIOUS
  <2>1. wpc[w] # "call"
    BY SMTT(30)
  <2> QED BY <2>1, CallFacts, ZenonT(30) DEF LockInv
\* Once w has returned, the others are as they were, and none of them is in
\* writeFrame when w was.
<1>4. ASSUME Return(w), calls[w] # <<>>,
             writeMu' = writeMu \/ \A v \in Writers : v # w => wpc[v] = "call"
      PROVE  LockInv'
  <2> SUFFICES ASSUME NEW v \in Writers
               PROVE  /\ wpc'[v] # "call" =>
                            writeMu' = v /\ calls'[v] # <<>> /\ Head(calls'[v]).payload.ok
                      /\ wpc'[v] = "payload" => Head(calls'[v]).payload.bytes # <<>>
    BY SMTT(30) DEF LockInv, Call
  <2>1. CASE v = w
    BY <1>2, <1>4, <2>1, SMTT(30)
  <2>2. CASE v # w
    <3>1. wpc'[v] = wpc[v] /\ calls'[v] = calls[v]
      BY <1>2, <1>4, <2>2, SMTT(30)
    <3>2. CASE wpc[v] = "call"
      BY <3>1, <3>2, SMTT(30)
    <3>3. CASE wpc[v] # "call"
      BY <1>4, <2>2, <3>1, <3>3, ZenonT(30) DEF LockInv, Call
    <3> QED BY <3>2, <3>3, SMTT(30)
  <2> QED BY <2>1, <2>2, SMTT(30)
<1>5. wpc[w] \in {"header", "payload"} => \A v \in Writers : v # w => wpc[v] = "call"
  BY <1>3, ZenonT(30) DEF LockInv
<1>6. CASE Unencodable(w)
  <2>1. Return(w) /\ calls[w] # <<>> /\ writeMu' = writeMu /\ UNCHANGED <<sent, torn>>
    BY <1>6, SMTT(30) DEF Unencodable
  <2>2. LevinTypes'
    BY <2>1, <1>1, <1>2, SMTT(30) DEF LevinTypes, readerVars
  <2> QED BY <2>1, <2>2, <1>4, SMTT(30)
<1>7. CASE Lock(w)
  <2>1. /\ wpc[w] = "call" /\ calls[w] # <<>> /\ Call(w).payload.ok /\ writeMu = Free
        /\ writeMu' = w /\ wpc' = [wpc EXCEPT ![w] = "header"]
        /\ UNCHANGED <<calls, sent, torn>>
    BY <1>7, SMTT(30) DEF Lock
  <2>2. LevinTypes'
    BY <2>1, <1>0, <1>1, SMTT(30) DEF LevinTypes, readerVars
  <2>3. LockInv'
    <3> SUFFICES ASSUME NEW v \in Writers
                 PROVE  /\ wpc'[v] # "call" =>
                              writeMu' = v /\ calls[v] # <<>> /\ Call(v).payload.ok
                        /\ wpc'[v] = "payload" => Call(v).payload.bytes # <<>>
      BY <2>1, SMTT(30) DEF LockInv, Call
    <3>1. CASE v = w
      <4>1. wpc'[v] = "header"
        BY <2>1, <3>1, <1>0, SMTT(30)
      <4> QED BY <2>1, <3>1, <4>1, SMTT(30)
    <3>2. CASE v # w
      <4>1. wpc'[v] = wpc[v]
        BY <2>1, <3>2, <1>0, SMTT(30)
      <4>2. wpc[v] = "call"
        BY <2>1, LevinAssumption, ZenonT(30) DEF LockInv
      <4> QED BY <4>1, <4>2, SMTT(30)
    <3> QED BY <3>1, <3>2, SMTT(30)
  <2> QED BY <2>2, <2>3, SMTT(30)
<1>8. CASE Write(w)
  <2>1. wpc[w] \in {"header", "payload"} /\ UNCHANGED torn
    BY <1>8, SMTT(30) DEF Write
  <2>2. CASE wpc[w] = "header" /\ Call(w).payload.bytes # <<>>
    <3>1. wpc' = [wpc EXCEPT ![w] = "payload"] /\ UNCHANGED <<calls, writeMu, sent>>
      BY <1>8, <2>2, SMTT(30) DEF Write
    <3>2. LevinTypes'
      BY <3>1, <2>1, <1>0, <1>1, SMTT(30) DEF LevinTypes, readerVars
    <3>3. LockInv'
      <4> SUFFICES ASSUME NEW v \in Writers
                   PROVE  /\ wpc'[v] # "call" =>
                                writeMu = v /\ calls[v] # <<>> /\ Call(v).payload.ok
                          /\ wpc'[v] = "payload" => Call(v).payload.bytes # <<>>
        BY <3>1, SMTT(30) DEF LockInv, Call
      <4>1. CASE v = w
        <5>1. wpc[w] # "call"
          BY <2>2
        <5>2. writeMu = w /\ calls[w] # <<>> /\ Call(w).payload.ok
          BY <5>1, ZenonT(30) DEF LockInv
        <5> QED BY <4>1, <5>2, <2>2, SMTT(30)
      <4>2. CASE v # w
        <5>1. wpc'[v] = wpc[v]
          BY <3>1, <4>2, <1>0, SMTT(30)
        <5> QED BY <5>1, ZenonT(30) DEF LockInv
      <4> QED BY <4>1, <4>2, SMTT(30)
    <3> QED BY <3>2, <3>3
  <2>3. CASE ~(wpc[w] = "header" /\ Call(w).payload.bytes # <<>>)
    <3>1. Return(w) /\ sent' = (IF torn THEN sent ELSE Append(sent, Call(w)))
      BY <1>8, <2>3, SMTT(30) DEF Write
    <3>2. sent' \in Seq(Sendable)
      BY <3>1, <2>1, <1>0, <1>3, SMTT(30)
    <3>3. LevinTypes'
      BY <3>1, <3>2, <2>1, <1>1, <1>2, <1>3, SMTT(30) DEF LevinTypes, readerVars
    <3> QED BY <3>1, <3>3, <2>1, <1>3, <1>4, <1>5, SMTT(30)
  <2> QED BY <2>2, <2>3, SMTT(30)
<1>9. CASE WriteFails(w)
  <2>1. wpc[w] \in {"header", "payload"} /\ Return(w) /\ UNCHANGED sent /\ torn' \in BOOLEAN
    BY <1>9, SMTT(30) DEF WriteFails, LevinTypes
  <2>2. LevinTypes'
    BY <2>1, <1>1, <1>2, <1>3, SMTT(30) DEF LevinTypes, readerVars
  <2> QED BY <2>1, <2>2, <1>3, <1>4, <1>5, SMTT(30)
<1> QED BY <1>6, <1>7, <1>8, <1>9, SMTT(30) DEF WriterStep

SameBegun(pd, dl, pb, cl, s, cut) ==
    BegunBy(pd, dl, s, cut) = BegunBy(pb, cl, s, cut) /\ OwedBy(pd, dl, cut) = OwedBy(pb, cl, cut)

LEMMA BegunSame ==
    ASSUME NEW pb, NEW cl, NEW pd, NEW dl, NEW s, NEW cut,
           \A v \in Writers : pd[v] = "payload" <=> pb[v] = "payload",
           \A v \in Writers : pb[v] = "payload" => dl[v] = cl[v]
    PROVE  SameBegun(pd, dl, pb, cl, s, cut)
<1> DEFINE W == {v \in Writers : pb[v] = "payload"}
           V == {v \in Writers : pd[v] = "payload"}
           u == CHOOSE v \in W : TRUE
<1>1. V = W
  OBVIOUS
<1>2. W # {} => dl[u] = cl[u]
  <2> SUFFICES ASSUME W # {} PROVE dl[u] = cl[u]
    OBVIOUS
  <2>1. u \in W
    OBVIOUS
  <2> QED BY <2>1, SMTT(30)
<1>3. /\ BegunBy(pb, cl, s, cut) = (IF cut \/ W = {} THEN s ELSE Append(s, Head(cl[u])))
      /\ OwedBy(pb, cl, cut) = (IF cut \/ W = {} THEN 0 ELSE Size(Head(cl[u])))
  BY Zenon DEF BegunBy, OwedBy
<1>4. /\ BegunBy(pd, dl, s, cut) = (IF cut \/ W = {} THEN s ELSE Append(s, Head(dl[u])))
      /\ OwedBy(pd, dl, cut) = (IF cut \/ W = {} THEN 0 ELSE Size(Head(dl[u])))
  <2>1. /\ BegunBy(pd, dl, s, cut) =
             (IF cut \/ V = {} THEN s ELSE Append(s, Head(dl[CHOOSE v \in V : TRUE])))
        /\ OwedBy(pd, dl, cut) =
             (IF cut \/ V = {} THEN 0 ELSE Size(Head(dl[CHOOSE v \in V : TRUE])))
    BY Zenon DEF BegunBy, OwedBy
  <2> HIDE DEF V, W
  <2> QED BY <2>1, <1>1, ZenonT(30)
<1> HIDE DEF W, u
<1>5. CASE W = {}
  BY <1>3, <1>4, <1>5, ZenonT(30) DEF SameBegun
<1>6. CASE W # {}
  <2>1. dl[u] = cl[u]
    BY <1>2, <1>6, ZenonT(30)
  <2>2. /\ BegunBy(pb, cl, s, cut) = BegunBy(pd, dl, s, cut)
        /\ OwedBy(pb, cl, cut) = OwedBy(pd, dl, cut)
    BY <2>1, <1>3, <1>4
  <2> QED BY <2>2, Zenon DEF SameBegun
<1> QED BY <1>5, <1>6, SMTT(30)

PromisedBy(cs) == [i \in DOMAIN cs |-> Meant(cs[i])]

LEMMA PromisedState == Promised = PromisedBy(Begun) /\ Promised' = PromisedBy(Begun')
BY Zenon DEF Promised, PromisedBy

LEMMA PromisedFacts ==
    ASSUME NEW cs \in Seq(Sendable)
    PROVE  /\ PromisedBy(cs) \in Seq({Meant(call) : call \in Sendable})
           /\ Len(PromisedBy(cs)) = Len(cs) /\ Len(cs) \in Nat
           /\ \A i \in 1..Len(cs) : PromisedBy(cs)[i] = Meant(cs[i])
BY SMTT(30) DEF PromisedBy

LEMMA PromisedAppend ==
    ASSUME NEW cs \in Seq(Sendable), NEW call \in Sendable
    PROVE  /\ Len(PromisedBy(Append(cs, call))) = Len(PromisedBy(cs)) + 1
           /\ SubSeq(PromisedBy(Append(cs, call)), 1, Len(PromisedBy(cs))) = PromisedBy(cs)
<1> DEFINE ds == Append(cs, call)
           p == PromisedBy(cs)
           q == PromisedBy(ds)
           n == Len(cs)
           S == {Meant(c) : c \in Sendable}
<1>1. ds \in Seq(Sendable) /\ Len(ds) = n + 1 /\ n \in Nat /\ \A j \in 1..n : ds[j] = cs[j]
  BY AppendCall, Zenon
<1>2. p \in Seq(S) /\ Len(p) = n /\ \A i \in 1..n : p[i] = Meant(cs[i])
  BY PromisedFacts, Zenon
<1>3. q \in Seq(S) /\ Len(q) = Len(ds) /\ \A i \in 1..Len(ds) : q[i] = Meant(ds[i])
  BY <1>1, PromisedFacts, ZenonT(30)
<1> HIDE DEF ds, p, q, n, S
<1>4. \A i \in 1..n : q[i] = p[i]
  BY <1>1, <1>2, <1>3, SMTT(30)
<1>5. SubSeq(q, 1, n) = p
  BY <1>1, <1>2, <1>3, <1>4, SMTT(30)
<1> QED BY <1>1, <1>2, <1>3, <1>5, SMTT(30) DEF p, q, ds

LEMMA PromisedWithout ==
    ASSUME NEW cs \in Seq(Sendable), NEW call \in Sendable
    PROVE  /\ PromisedBy(Append(cs, call)) # <<>>
           /\ SubSeq(PromisedBy(Append(cs, call)), 1, Len(PromisedBy(Append(cs, call))) - 1) =
                PromisedBy(cs)
<1> DEFINE p == PromisedBy(cs)
           q == PromisedBy(Append(cs, call))
<1>1. Len(q) = Len(p) + 1 /\ SubSeq(q, 1, Len(p)) = p
  BY PromisedAppend, SMTT(30)
<1>2. Len(p) \in Nat
  BY PromisedFacts, SMTT(30)
<1> HIDE DEF p, q
<1>3. Len(q) - 1 = Len(p) /\ q # <<>>
  BY <1>1, <1>2, SMTT(30)
<1> QED BY <1>1, <1>3, SMTT(30) DEF p, q

--------------------------------------------------------------------------------
\* A step of the connection is a step of the channel, or none.
Follows == [Channel!ChanNext]_(Channel!chanVars)

\* Nothing of what the channel shows changes, nor where the reader is.
LEMMA QuietStep ==
    ASSUME LevinInv, Begun' = Begun, Owed' = Owed,
           UNCHANGED <<torn, stream, rpc, hdr, returned, lost>>
    PROVE  StreamInv' /\ Follows
<1>1. Promised' = Promised
  BY PromisedState, ZenonT(30)
<1>2. Follows
  BY <1>1 DEF Follows, Channel!chanVars
<1>3. StreamInv'
  BY SMTT(30) DEF LevinInv, StreamInv
<1> QED BY <1>2, <1>3, SMTT(30)

\* A goroutine takes the lock, or finds that there is nothing to write.
LEMMA PreparingFollows ==
    ASSUME LevinInv, NEW w \in Writers, Unencodable(w) \/ Lock(w)
    PROVE  StreamInv' /\ Follows
<1>0. /\ calls \in [Writers -> Seq(AllCalls)]
      /\ wpc \in [Writers -> {"call", "header", "payload"}]
  BY SMTT(30) DEF LevinInv, LevinTypes
<1>1. /\ UNCHANGED <<sent, torn, stream, rpc, hdr, returned, lost>>
      /\ wpc[w] = "call"
      /\ \/ wpc' = [wpc EXCEPT ![w] = "call"] /\ calls' = [calls EXCEPT ![w] = Tail(@)]
         \/ wpc' = [wpc EXCEPT ![w] = "header"] /\ calls' = calls
  BY SMTT(30) DEF Unencodable, Lock, Return, readerVars
<1>2. /\ \A v \in Writers : wpc'[v] = "payload" <=> wpc[v] = "payload"
      /\ \A v \in Writers : wpc[v] = "payload" => calls'[v] = calls[v]
  <2> SUFFICES ASSUME NEW v \in Writers
               PROVE  /\ wpc'[v] = "payload" <=> wpc[v] = "payload"
                      /\ wpc[v] = "payload" => calls'[v] = calls[v]
    BY ZenonT(30)
  <2>1. CASE v = w
    BY <2>1, <1>0, <1>1, SMTT(30)
  <2>2. CASE v # w
    BY <2>2, <1>0, <1>1, SMTT(30)
  <2> QED BY <2>1, <2>2
<1>3. SameBegun(wpc', calls', wpc, calls, sent, torn)
  BY <1>2, BegunSame, ZenonT(30)
<1>4. sent' = sent /\ torn' = torn
  BY <1>1
<1>5. Begun' = Begun /\ Owed' = Owed
  BY <1>3, <1>4, BegunState, ZenonT(30) DEF SameBegun, Owed
<1> QED BY <1>1, <1>5, QuietStep, SMTT(30)

\* What w writes, and whose frame it is part of.
LEMMA BufferIs ==
    ASSUME LevinTypes, LockInv, NEW w \in Writers, wpc[w] \in {"header", "payload"}
    PROVE  /\ Call(w) \in Sendable
           /\ wpc[w] = "header" => Buffer(w) = HeaderBytes(Call(w))
           /\ wpc[w] = "payload" => Buffer(w) = Call(w).payload.bytes /\ Size(Call(w)) > 0
           /\ Buffer(w) \in Seq(ByteRange)
           /\ \A v \in Writers : v # w => wpc[v] = "call"
<1>1. wpc[w] # "call"
  OBVIOUS
<1>2. Call(w) \in Sendable
  BY <1>1, CallFacts, ZenonT(30) DEF LockInv
<1>3. wpc[w] = "header" => Buffer(w) = HeaderBytes(Call(w))
  BY DEF Buffer, HeaderBytes
<1>4. wpc[w] = "payload" => Buffer(w) = Call(w).payload.bytes
  BY SMTT(30) DEF Buffer
<1> DEFINE x == Call(w).payload.bytes
<1>5. x \in Seq(ByteRange) /\ Size(Call(w)) = Len(x)
  BY <1>2, FrameParts, SMTT(30)
<1>6. wpc[w] = "payload" => Size(Call(w)) > 0
  <2> SUFFICES ASSUME wpc[w] = "payload" PROVE Len(x) > 0
    BY <1>5
  <2>1. x # <<>>
    BY ZenonT(30) DEF LockInv
  <2> HIDE DEF x
  <2> QED BY <1>5, <2>1, SMTT(30)
<1>7. HeaderBytes(Call(w)) \in Seq(ByteRange)
  BY <1>2, HeaderBack, SMTT(30)
<1>8. Buffer(w) \in Seq(ByteRange)
  BY <1>3, <1>4, <1>5, <1>7, SMTT(30)
<1>9. \A v \in Writers : v # w => wpc[v] = "call"
  BY <1>1, Zenon DEF LockInv
<1> QED BY <1>2, <1>3, <1>4, <1>6, <1>8, <1>9, SMTT(30)

\* After w's step nobody is writing a payload, or only w is.
LEMMA BegunAfter ==
    ASSUME LevinTypes, LockInv, NEW w \in Writers, wpc[w] \in {"header", "payload"}
    PROVE  /\ Return(w) => Begun' = sent' /\ Owed' = 0
           /\ torn' => Begun' = sent' /\ Owed' = 0
           /\ wpc' = [wpc EXCEPT ![w] = "payload"] /\ calls' = calls /\ torn' = FALSE =>
                Begun' = Append(sent', Call(w)) /\ Owed' = Size(Call(w))
<1>0. wpc \in [Writers -> {"call", "header", "payload"}]
  BY DEF LevinTypes
<1>1. \A v \in Writers : v # w => wpc[v] = "call"
  BY BufferIs, Zenon
<1>2. ASSUME Return(w) PROVE Begun' = sent' /\ Owed' = 0
  <2>1. \A v \in Writers : wpc'[v] # "payload"
    BY <1>0, <1>1, <1>2, SMTT(30) DEF Return
  <2>2. BegunBy(wpc', calls', sent', torn') = sent' /\ OwedBy(wpc', calls', torn') = 0
    BY <2>1, BegunNone, SMTT(30)
  <2> QED BY <2>2, BegunState, ZenonT(30)
<1>3. ASSUME torn' PROVE Begun' = sent' /\ Owed' = 0
  <2>1. BegunBy(wpc', calls', sent', torn') = sent' /\ OwedBy(wpc', calls', torn') = 0
    BY <1>3, Zenon DEF BegunBy, OwedBy
  <2> QED BY <2>1, BegunState, Zenon
<1>4. ASSUME wpc' = [wpc EXCEPT ![w] = "payload"], calls' = calls, torn' = FALSE
      PROVE  Begun' = Append(sent', Call(w)) /\ Owed' = Size(Call(w))
  <2>1. wpc'[w] = "payload" /\ \A v \in Writers : wpc'[v] = "payload" => v = w
    BY <1>0, <1>1, <1>4, SMTT(30)
  <2>2. /\ BegunBy(wpc', calls', sent', FALSE) = Append(sent', Head(calls'[w]))
        /\ OwedBy(wpc', calls', FALSE) = Size(Head(calls'[w]))
    BY <2>1, BegunOne, ZenonT(30)
  <2>3. Head(calls'[w]) = Call(w)
    BY <1>4, ZenonT(30) DEF Call
  <2> QED BY <1>4, <2>2, <2>3, BegunState, ZenonT(30)
<1> QED BY <1>2, <1>3, <1>4, ZenonT(30)

\* The network takes the buffer: the header begins a frame, the payload ends it.
LEMMA WriteFollows ==
    ASSUME LevinInv, NEW w \in Writers, Write(w)
    PROVE  StreamInv' /\ Follows
<1> DEFINE c == Call(w)
           r == Len(returned)
<1>0. LevinTypes /\ LockInv /\ StreamInv /\ torn \in BOOLEAN /\ lost \in BOOLEAN /\ sent \in Seq(Sendable)
  BY SMTT(30) DEF LevinInv, LevinTypes
<1>1. /\ wpc[w] \in {"header", "payload"}
      /\ stream' = stream \o Buffer(w)
      /\ UNCHANGED <<torn, rpc, hdr, returned, lost>>
  BY SMTT(30) DEF Write, readerVars
<1>2. /\ c \in Sendable /\ Buffer(w) \in Seq(ByteRange)
      /\ wpc[w] = "header" => Buffer(w) = HeaderBytes(c)
      /\ wpc[w] = "payload" => Buffer(w) = c.payload.bytes /\ Size(c) > 0
  BY <1>0, <1>1, BufferIs, SMTT(30)
<1>3. r \in Nat
  BY <1>0, AppendResult DEF LevinTypes
<1> HIDE DEF c, r
<1>4. CASE torn
  <2>1. Begun = sent /\ Owed = 0
    BY <1>0, <1>4, BegunCases, SMTT(30)
  <2>2. torn' /\ torn' = TRUE /\ torn = TRUE
    BY <1>0, <1>1, <1>4, SMTT(30)
  <2>3. Begun' = sent' /\ Owed' = 0
    BY <1>0, <1>1, <2>2, BegunAfter, SMTT(30)
  <2>4. sent' = sent
    BY <1>4 DEF Write
  <2>5. Begun' = Begun
    BY <2>1, <2>3, <2>4, SMTT(30)
  <2>6. Follows
    <3>1. Promised' = Promised
      BY <2>5, PromisedState, ZenonT(30)
    <3> QED BY <3>1, <1>1 DEF Follows, Channel!chanVars
  <2>7. StreamInv'
    <3> SUFFICES ASSUME ~lost, r < Len(sent)
                 PROVE  Aligned(sent, r, stream \o Buffer(w), rpc, hdr, TRUE, 0)
      BY <1>1, <2>1, <2>2, <2>3, <2>4, ZenonT(30) DEF StreamInv, r
    <3>1. Aligned(sent, r, stream, rpc, hdr, TRUE, 0)
      BY <1>0, <2>1, <2>2, ZenonT(30) DEF StreamInv, r
    <3> QED BY <3>1, <1>0, <1>2, <1>3, AlignedMore, ZenonT(30)
  <2> QED BY <2>6, <2>7, SMTT(30)
<1>5. CASE ~torn /\ wpc[w] = "header"
  <2>1. Begun = sent /\ Owed = 0
    BY <1>0, <1>5, BegunCases, SMTT(30)
  <2>2. torn = FALSE /\ torn' = FALSE
    BY <1>0, <1>1, <1>5, SMTT(30)
  <2>3. Begun' = Append(sent, c) /\ Owed' = Size(c)
    <3>1. CASE c.payload.bytes # <<>>
      <4>1. wpc' = [wpc EXCEPT ![w] = "payload"] /\ calls' = calls /\ sent' = sent
        BY <3>1, <1>5 DEF Write, c
      <4>2. Begun' = Append(sent', c) /\ Owed' = Size(c)
        BY <4>1, <2>2, <1>0, <1>1, BegunAfter, ZenonT(30) DEF c
      <4> QED BY <4>1, <4>2, ZenonT(30)
    <3>2. CASE c.payload.bytes = <<>>
      <4>1. Return(w) /\ sent' = Append(sent, c)
        BY <3>2, <1>5 DEF Write, c
      <4>2. Begun' = sent' /\ Owed' = 0
        BY <4>1, <1>0, <1>1, BegunAfter, ZenonT(30)
      <4>3. Size(c) = Len(c.payload.bytes) /\ Len(<<>>) = 0
        BY <1>2, FrameParts, SMTT(30)
      <4> QED BY <4>1, <4>2, <4>3, <3>2, ZenonT(30)
    <3> QED BY <3>1, <3>2
  <2>4. Follows
    <3>1. Promised = PromisedBy(sent) /\ Promised' = PromisedBy(Append(sent, c))
      BY <2>1, <2>3, PromisedState, ZenonT(30)
    <3>2. Len(Promised') = Len(Promised) + 1 /\ SubSeq(Promised', 1, Len(Promised)) = Promised
      BY <3>1, <1>0, <1>2, PromisedAppend, SMTT(30)
    <3>3. Channel!ChanSend
      BY <3>2, <1>1, <1>5, SMTT(30) DEF Channel!ChanSend
    <3> QED BY <3>3 DEF Follows, Channel!ChanNext
  <2>5. StreamInv'
    <3> SUFFICES ASSUME ~lost
                 PROVE  Aligned(Append(sent, c), r, stream \o HeaderBytes(c), rpc, hdr, FALSE, Size(c))
      BY <1>1, <1>2, <1>5, <2>2, <2>3, ZenonT(30) DEF StreamInv, r
    <3>1. Aligned(sent, r, stream, rpc, hdr, FALSE, 0)
      BY <1>0, <2>1, <2>2, ZenonT(30) DEF StreamInv, r
    <3> QED BY <3>1, <1>0, <1>2, <1>3, AlignedBegin, ZenonT(30)
  <2> QED BY <2>4, <2>5
<1>6. CASE ~torn /\ wpc[w] = "payload"
  <2>1. Begun = Append(sent, c) /\ Owed = Size(c)
    BY <1>0, <1>6, BegunCases, SMTT(30) DEF c
  <2>2. torn = FALSE /\ torn' = FALSE
    BY <1>0, <1>1, <1>6, SMTT(30)
  <2>3. Return(w) /\ sent' = Append(sent, c)
    BY <1>6 DEF Write, c
  <2>4. Begun' = Append(sent, c) /\ Owed' = 0
    BY <2>3, <1>0, <1>1, BegunAfter, ZenonT(30)
  <2>5. Follows
    <3>1. Promised' = Promised
      BY <2>1, <2>4, PromisedState, ZenonT(30)
    <3> QED BY <3>1, <1>1 DEF Follows, Channel!chanVars
  <2>6. StreamInv'
    <3> SUFFICES ASSUME ~lost
                 PROVE  Aligned(Append(sent, c), r, stream \o c.payload.bytes, rpc, hdr, FALSE, 0)
      BY <1>1, <1>2, <1>6, <2>2, <2>4, ZenonT(30) DEF StreamInv, r
    <3>1. Aligned(Append(sent, c), r, stream, rpc, hdr, FALSE, Size(c))
      BY <1>0, <2>1, <2>2, ZenonT(30) DEF StreamInv, r
    <3> QED BY <3>1, <1>0, <1>2, <1>3, <1>6, AlignedEnd, ZenonT(30)
  <2> QED BY <2>5, <2>6
<1> QED BY <1>0, <1>1, <1>4, <1>5, <1>6, SMTT(30)

\* A write stops part-way, or before its first byte.
LEMMA WriteFailsFollows ==
    ASSUME LevinInv, NEW w \in Writers, WriteFails(w)
    PROVE  StreamInv' /\ Follows
<1> DEFINE c == Call(w)
           r == Len(returned)
<1>0. LevinTypes /\ LockInv /\ StreamInv /\ torn \in BOOLEAN /\ lost \in BOOLEAN /\ sent \in Seq(Sendable)
  BY DEF LevinInv, LevinTypes
<1>1. /\ wpc[w] \in {"header", "payload"} /\ Return(w)
      /\ UNCHANGED <<sent, rpc, hdr, returned, lost>>
  BY SMTT(30) DEF WriteFails, readerVars
<1>2. /\ c \in Sendable /\ Buffer(w) \in Seq(ByteRange)
      /\ wpc[w] = "payload" => Size(c) > 0
  BY <1>0, <1>1, BufferIs, SMTT(30)
<1>3. r \in Nat /\ Len(sent) \in Nat
  BY <1>0, AppendResult, SMTT(30) DEF LevinTypes
<1>4. PICK n \in Nat : /\ n <= Len(Buffer(w))
                       /\ stream' = stream \o SubSeq(Buffer(w), 1, n)
                       /\ torn' = (torn \/ wpc[w] = "payload" \/ n > 0)
  <2>1. PICK n \in Cuts \cap 0..(Len(Buffer(w)) - 1) :
               /\ stream' = stream \o SubSeq(Buffer(w), 1, n)
               /\ torn' = (torn \/ wpc[w] = "payload" \/ n > 0)
    BY SMTT(30) DEF WriteFails
  <2>2. n \in Nat /\ n <= Len(Buffer(w))
    BY <1>2
  <2> QED BY <2>1, <2>2, SMTT(30)
<1> DEFINE x == SubSeq(Buffer(w), 1, n)
<1>5. x \in Seq(ByteRange) /\ (n = 0 => x = <<>>)
  BY <1>2, <1>4, SMTT(30)
<1>6. Begun' = sent /\ Owed' = 0 /\ sent' = sent
  <2>1. Begun' = sent' /\ Owed' = 0
    BY <1>0, <1>1, BegunAfter, ZenonT(30)
  <2> QED BY <2>1, <1>1
<1>7. stream' = stream \o x
  BY <1>4
<1> HIDE DEF c, r, x
\* The stream goes on as before, and the frames already in it are whole.
<1>8. ASSUME Begun = sent, Owed = 0, torn' = TRUE
      PROVE  StreamInv'
  <2> SUFFICES ASSUME ~lost, r < Len(sent)
               PROVE  Aligned(sent, r, stream \o x, rpc, hdr, TRUE, 0)
    BY <1>1, <1>6, <1>7, <1>8, ZenonT(30) DEF StreamInv, r
  <2>1. Aligned(sent, r, stream, rpc, hdr, torn, 0)
    BY <1>0, <1>8, SMTT(30) DEF StreamInv, r
  <2> QED BY <2>1, <1>0, <1>3, <1>5, AlignedMore, ZenonT(30)
<1>9. CASE torn
  <2>1. Begun = sent /\ Owed = 0
    BY <1>0, <1>9, BegunCases, SMTT(30)
  <2>2. torn' = TRUE /\ torn = TRUE
    BY <1>0, <1>4, <1>9, ZenonT(30)
  <2>3. Promised' = Promised
    BY <2>1, <1>6, PromisedState, ZenonT(30)
  <2>4. Follows
    BY <2>2, <2>3, <1>1, SMTT(30) DEF Follows, Channel!chanVars
  <2> QED BY <2>1, <2>2, <2>4, <1>8, SMTT(30)
<1>10. CASE ~torn /\ wpc[w] = "header"
  <2>1. Begun = sent /\ Owed = 0
    BY <1>0, <1>10, BegunCases, SMTT(30)
  <2>2. Promised' = Promised
    BY <2>1, <1>6, PromisedState, Zenon
  <2>3. CASE n > 0
    <3>1. torn' = TRUE
      BY <2>3, <1>4, ZenonT(30)
    <3>2. Channel!ChanTear
      BY <2>2, <3>1, <1>1, <1>10, SMTT(30) DEF Channel!ChanTear
    <3> QED BY <2>1, <3>1, <3>2, <1>8, SMTT(30) DEF Follows, Channel!ChanNext
  <2>4. CASE n = 0
    <3>1. torn' = FALSE /\ torn = FALSE
      BY <2>4, <1>0, <1>4, <1>10, SMTT(30)
    <3>2. Follows
      BY <2>2, <3>1, <1>1, ZenonT(30) DEF Follows, Channel!chanVars
    <3>3. StreamInv'
      <4> SUFFICES ASSUME ~lost
                   PROVE  Aligned(sent, r, stream \o x, rpc, hdr, FALSE, 0)
        BY <1>1, <1>6, <1>7, <3>1, ZenonT(30) DEF StreamInv, r
      <4>1. Aligned(sent, r, stream, rpc, hdr, FALSE, 0)
        BY <1>0, <2>1, <3>1, ZenonT(30) DEF StreamInv, r
      <4>2. stream \in Seq(ByteRange)
        BY <4>1, ZenonT(30) DEF Aligned
      <4>3. x = <<>>
        BY <1>5, <2>4, SMTT(30)
      <4>4. stream \o x = stream
        BY <4>2, <4>3, SMTT(30)
      <4> QED BY <4>1, <4>4, ZenonT(30)
    <3> QED BY <3>2, <3>3, SMTT(30)
  <2> QED BY <2>3, <2>4, <1>4, SMTT(30)
<1>11. CASE ~torn /\ wpc[w] = "payload"
  <2>1. Begun = Append(sent, c) /\ Owed = Size(c)
    BY <1>0, <1>11, BegunCases, SMTT(30) DEF c
  <2>2. torn = FALSE /\ torn' = TRUE
    BY <1>0, <1>4, <1>11, ZenonT(30)
  <2>3. ~lost => Aligned(Append(sent, c), r, stream, rpc, hdr, FALSE, Size(c))
    BY <1>0, <2>1, <2>2, ZenonT(30) DEF StreamInv, r
  <2>4. ~lost => r <= Len(sent)
    BY <2>3, <1>0, <1>2, <1>3, <1>11, AlignedOwed, ZenonT(30)
  <2>5. Follows
    <3>1. Promised = PromisedBy(Append(sent, c)) /\ Promised' = PromisedBy(sent)
      BY <2>1, <1>6, PromisedState, ZenonT(30)
    <3>2. Promised # <<>> /\ Promised' = SubSeq(Promised, 1, Len(Promised) - 1)
      BY <3>1, <1>0, <1>2, PromisedWithout, SMTT(30)
    <3>3. Len(Promised') = Len(sent)
      BY <3>1, <1>0, PromisedFacts, ZenonT(30)
    <3>4. lost \/ Len(returned) <= Len(Promised')
      BY <2>4, <3>3, ZenonT(30) DEF r
    <3>5. Channel!ChanTear
      BY <3>2, <3>4, <2>2, <1>1, SMTT(30) DEF Channel!ChanTear
    <3> QED BY <3>5 DEF Follows, Channel!ChanNext
  <2>6. StreamInv'
    <3> SUFFICES ASSUME ~lost, r < Len(sent)
                 PROVE  Aligned(sent, r, stream \o x, rpc, hdr, TRUE, 0)
      BY <1>1, <1>6, <1>7, <2>2, ZenonT(30) DEF StreamInv, r
    <3> QED BY <2>3, <1>0, <1>2, <1>3, <1>5, AlignedGiveUp, ZenonT(30)
  <2> QED BY <2>5, <2>6
<1> QED BY <1>0, <1>1, <1>9, <1>10, <1>11, SMTT(30)

\* A step of the reader leaves the types, and the lock.
LEMMA ReaderKeeps ==
    ASSUME LevinTypes, LockInv, ReadHeader \/ ReadPayload \/ ReadFails
    PROVE  /\ LevinTypes' /\ LockInv' /\ UNCHANGED writerVars
           /\ Begun' = Begun /\ Owed' = Owed /\ Promised' = Promised
<1>1. UNCHANGED writerVars
  BY DEF ReadHeader, ReadPayload, ReadFails
<1>2. LockInv'
  BY <1>1, ZenonT(30) DEF LockInv, writerVars, Call
<1>3. lost' \in BOOLEAN
  BY ZenonT(30) DEF ReadHeader, ReadPayload, ReadFails, LevinTypes
<1>4. rpc' \in {"header", "payload"}
  BY DEF ReadHeader, ReadPayload, ReadFails, LevinTypes
<1>5. \E S : returned' \in Seq(S)
  <2>1. returned' = returned \/ \E y : returned' = Append(returned, y)
    BY DEF ReadHeader, ReadPayload, ReadFails
  <2>2. \E S : returned \in Seq(S)
    BY DEF LevinTypes
  <2>3. CASE returned' = returned
    BY <2>2, <2>3
  <2>4. CASE \E y : returned' = Append(returned, y)
    <3>1. PICK y : returned' = Append(returned, y)
      BY <2>4
    <3>2. \E S : Append(returned, y) \in Seq(S)
      BY <2>2, AppendResult, ZenonT(30)
    <3> QED BY <3>1, <3>2, ZenonT(30)
  <2> QED BY <2>1, <2>3, <2>4, ZenonT(30)
<1>6. LevinTypes'
  BY <1>1, <1>3, <1>4, <1>5, SMTT(30) DEF LevinTypes, writerVars
<1>7. wpc' = wpc /\ calls' = calls /\ sent' = sent /\ torn' = torn
  BY <1>1 DEF writerVars
<1>8. Begun' = Begun /\ Owed' = Owed
  BY <1>7, BegunState, ZenonT(30) DEF Owed
<1>9. Promised' = Promised
  BY <1>8, PromisedState, ZenonT(30)
<1> QED BY <1>1, <1>2, <1>6, <1>8, <1>9, SMTT(30)

\* The packet that the channel has due is the one the next call asked for.
LEMMA DuePacket ==
    ASSUME LevinTypes, LockInv, ~lost, Len(returned) < Len(Begun)
    PROVE  /\ Channel!HasDue
           /\ Channel!Due = Meant(Begun[Len(returned) + 1])
<1> DEFINE r == Len(returned)
           cs == Begun
           p == Promised
<1>1. cs \in Seq(Sendable) /\ r \in Nat
  BY BegunCases, AppendResult DEF LevinTypes
<1>2. p = PromisedBy(cs)
  BY PromisedState, Zenon
<1> HIDE DEF p, cs, r
<1>3. Len(p) = Len(cs) /\ \A i \in 1..Len(cs) : p[i] = Meant(cs[i])
  BY <1>1, <1>2, PromisedFacts, ZenonT(30)
<1>4. r < Len(cs) /\ Len(cs) \in Nat
  BY <1>1 DEF r, cs
<1>5. r + 1 \in 1..Len(cs)
  BY <1>1, <1>4, SMTT(30)
<1>6. p[r + 1] = Meant(cs[r + 1]) /\ r < Len(p)
  BY <1>3, <1>4, <1>5, SMTT(30)
<1> QED BY <1>6, SMTT(30) DEF Channel!HasDue, Channel!Due, p, cs, r

\* Whatever a reader returns that has lost its place, or has come to the end of
\* what was written before a write was cut short.
LEMMA GarbledFollows ==
    ASSUME LevinTypes, LockInv, lost \/ (torn /\ ~(Len(returned) < Len(Begun))),
           ReadHeader \/ ReadPayload \/ ReadFails
    PROVE  StreamInv' /\ Follows
<1> DEFINE r == Len(returned)
<1>0. torn \in BOOLEAN /\ lost \in BOOLEAN /\ \E S : returned \in Seq(S)
  BY DEF LevinTypes
<1>1. UNCHANGED writerVars /\ Begun' = Begun /\ Promised' = Promised
  BY ReaderKeeps
<1>2. torn' = torn
  BY <1>1, Zenon DEF writerVars
<1>3. lost => lost'
  BY Zenon DEF ReadHeader, ReadPayload, ReadFails
<1>4. Begun \in Seq(Sendable) /\ r \in Nat
  BY <1>0, BegunCases, AppendResult, ZenonT(30)
<1>5. Len(Promised) = Len(Begun) /\ Len(Begun) \in Nat
  <2>1. Promised = PromisedBy(Begun)
    BY PromisedState, ZenonT(30)
  <2> QED BY <1>4, <2>1, PromisedFacts, ZenonT(30)
<1>6. returned' = returned \/ \E y : returned' = Append(returned, y)
  BY DEF ReadHeader, ReadPayload, ReadFails
<1>7. returned' = returned \/ (Len(returned') = r + 1 /\ SubSeq(returned', 1, r) = returned)
  BY <1>0, <1>6, AppendResult, SMTT(30)
<1>8. Len(returned') \in Nat /\ r <= Len(returned')
  BY <1>4, <1>7
<1>9. lost' \/ (torn' /\ ~(Len(returned') < Len(Begun)))
  <2>1. CASE lost
    BY <2>1, <1>3
  <2>2. CASE torn /\ ~(r < Len(Begun))
    <3> DEFINE m == Len(Begun)
               q == Len(returned')
    <3>1. m \in Nat /\ q \in Nat /\ r \in Nat /\ r <= q /\ ~(r < m)
      BY <2>2, <1>4, <1>5, <1>8, SMTT(30)
    <3> HIDE DEF m, q, r
    <3>2. ~(q < m)
      BY <3>1
    <3> QED BY <2>2, <3>2, <1>2, SMTT(30) DEF q, m
  <2> QED BY <2>1, <2>2
<1>10. StreamInv'
  BY <1>1, <1>9, ZenonT(30) DEF StreamInv
<1>11. Follows
  <2>1. CASE returned' # returned
    <3>1. lost \/ (torn /\ Len(returned) >= Len(Promised))
      BY <1>4, <1>5, SMTT(30)
    <3>2. Channel!ChanGarbled
      BY <2>1, <3>1, <1>1, <1>2, <1>3, <1>7, SMTT(30) DEF Channel!ChanGarbled
    <3> QED BY <3>2 DEF Follows, Channel!ChanNext
  <2>2. CASE returned' = returned /\ lost' = lost
    BY <2>2, <1>1, <1>2, SMTT(30) DEF Follows, Channel!chanVars
  <2>3. CASE returned' = returned /\ lost' # lost
    <3>1. ~lost /\ lost'
      <4>1. lost' \in BOOLEAN
        BY ReaderKeeps, SMTT(30) DEF LevinTypes
      <4> QED BY <2>3, <4>1, <1>0, <1>3, SMTT(30)
    <3>2. Channel!ChanLose
      BY <2>3, <3>1, <1>1, <1>2, SMTT(30) DEF Channel!ChanLose
    <3> QED BY <3>2 DEF Follows, Channel!ChanNext
  <2> QED BY <2>1, <2>2, <2>3, SMTT(30)
<1> QED BY <1>10, <1>11, SMTT(30)

\* ReadPacket has a header: it refuses the packet, returns it, or goes on to its
\* payload.
LEMMA ReadHeaderFollows ==
    ASSUME LevinInv, ~lost, torn => Len(returned) < Len(Begun), ReadHeader
    PROVE  StreamInv' /\ Follows
<1> DEFINE r == Len(returned)
           cs == Begun
           c == cs[r + 1]
           str == stream
           x == SubSeq(str, 1, HeaderSize)
           tr == From(str, HeaderSize)
           d == DecodeHeader(x)
<1>0. LevinTypes /\ LockInv /\ torn \in BOOLEAN /\ \E S : returned \in Seq(S)
  BY DEF LevinInv, LevinTypes
<1>1. cs \in Seq(Sendable) /\ Owed \in Nat /\ r \in Nat
  BY <1>0, BegunCases, AppendResult, ZenonT(30)
<1>2. rpc = "header" /\ Len(str) >= HeaderSize /\ stream' = tr
  BY Zenon DEF ReadHeader
<1>3. UNCHANGED writerVars /\ Begun' = cs /\ Owed' = Owed /\ Promised' = Promised
  BY <1>0, ReaderKeeps, SMTT(30)
<1>4. torn' = torn
  BY <1>3 DEF writerVars
<1>5. Aligned(cs, r, str, "header", hdr, torn, Owed)
  BY <1>2, ZenonT(30) DEF LevinInv, StreamInv
<1>6. HeaderSize <= Len(str)
  BY <1>2, <1>5, HeaderSizes, SMTT(30) DEF Aligned
<1>7. torn => r < Len(cs)
  BY ZenonT(30)
<1>8. \/ /\ d.ok => TooBig(d.val)
         /\ returned' = Append(returned, Fail)
         /\ lost' = (lost \/ SubSeq(str, 1, Len(Signature)) = Signature)
      \/ /\ d.ok /\ ~TooBig(d.val) /\ d.val.PayloadSize = 0
         /\ returned' = Append(returned, Packet(d.val, <<>>))
         /\ UNCHANGED <<rpc, hdr, lost>>
      \/ /\ d.ok /\ ~TooBig(d.val) /\ d.val.PayloadSize > 0
         /\ rpc' = "payload" /\ hdr' = d.val
         /\ UNCHANGED <<returned, lost>>
  BY DEF ReadHeader
<1> HIDE DEF cs, r, str
<1>9. /\ r < Len(cs) /\ c \in Sendable /\ x = HeaderBytes(c)
      /\ SubSeq(str, 1, Len(Signature)) = Signature
      /\ Aligned(cs, r, tr, "payload", HeaderOf(c), torn, Owed)
      /\ \A h2 : Size(c) = 0 => Aligned(cs, r + 1, tr, "header", h2, torn, Owed)
  <2>1. AtHeader(cs, r, str, torn, Owed)
    BY <1>0, <1>1, <1>5, <1>6, <1>7, AlignedHeader, ZenonT(30)
  <2> QED BY <2>1, Zenon DEF AtHeader
<1> HIDE DEF c, x, tr
<1>10. d = (IF Size(c) > MaxPayloadSize THEN Fail ELSE [ok |-> TRUE, val |-> HeaderOf(c)])
  BY <1>9, HeaderBack, ZenonT(30) DEF Size
<1> HIDE DEF d
<1>11. Size(c) \in Nat /\ Size(c) = Len(c.payload.bytes) /\ c.payload.bytes \in Seq(ByteRange)
  BY <1>9, FrameParts, SMTT(30)
<1>12. MaxPayloadSize \in Nat /\ ConnMaxPayload \in Nat
  BY CodecAssumption, LevinAssumption, SMTT(30)
<1>13. Channel!HasDue /\ Channel!Due = Meant(c)
  BY <1>0, <1>9, DuePacket, SMTT(30) DEF r, cs, c
<1>14. FitsReader(Meant(c)) <=> Size(c) <= MaxPayloadSize /\ Size(c) <= ConnMaxPayload
  BY <1>11, <1>12, SMTT(30) DEF FitsReader, TooBig, Meant, Packet, Size
<1>15. /\ d.ok <=> Size(c) <= MaxPayloadSize
       /\ d.ok => d.val = HeaderOf(c) /\ d.val.PayloadSize = Size(c)
                  /\ (TooBig(d.val) <=> Size(c) > ConnMaxPayload)
  <2>1. CASE Size(c) > MaxPayloadSize
    <3>1. ~d.ok
      BY <2>1, <1>10, SMTT(30) DEF Fail
    <3>2. ~(Size(c) <= MaxPayloadSize)
      BY <2>1, <1>11, <1>12, SMTT(30)
    <3> QED BY <3>1, <3>2, ZenonT(30)
  <2>2. CASE ~(Size(c) > MaxPayloadSize)
    <3>1. d.ok /\ d.val = HeaderOf(c)
      BY <2>2, <1>10, SMTT(30)
    <3>2. Size(c) <= MaxPayloadSize
      BY <2>2, <1>11, <1>12, SMTT(30)
    <3> QED BY <3>1, <3>2, ZenonT(30) DEF TooBig, Size
  <2> QED BY <2>1, <2>2, SMTT(30)
<1>19. Size(c) <= ConnMaxPayload <=> ~(Size(c) > ConnMaxPayload)
  BY <1>11, <1>12, SMTT(30)
<1>16. CASE /\ d.ok => TooBig(d.val)
            /\ returned' = Append(returned, Fail)
            /\ lost' = (lost \/ SubSeq(str, 1, Len(Signature)) = Signature)
  <2>1. lost'
    BY <1>9, <1>16, ZenonT(30)
  <2>2. ~FitsReader(Meant(c))
    BY <1>14, <1>15, <1>16, <1>19, ZenonT(30)
  <2>3. Channel!ChanRefuse
    BY <2>1, <2>2, <1>3, <1>4, <1>13, <1>16, SMTT(30) DEF Channel!ChanRefuse
  <2>4. StreamInv'
    BY <2>1, ZenonT(30) DEF StreamInv
  <2> QED BY <2>3, <2>4 DEF Follows, Channel!ChanNext
<1>17. CASE /\ d.ok /\ ~TooBig(d.val) /\ d.val.PayloadSize = 0
            /\ returned' = Append(returned, Packet(d.val, <<>>))
            /\ UNCHANGED <<rpc, hdr, lost>>
  <2>0. Size(c) = 0
    BY <1>15, <1>17, ZenonT(30)
  <2>9. Size(c) <= MaxPayloadSize /\ ~(Size(c) > ConnMaxPayload)
    BY <1>15, <1>17, ZenonT(30)
  <2>1. Size(c) = 0 /\ FitsReader(Meant(c))
    BY <2>0, <2>9, <1>14, <1>19, ZenonT(30)
  <2>2. c.payload.bytes = <<>>
    BY <2>1, <1>11, SMTT(30)
  <2>3. returned' = Append(returned, Meant(c))
    BY <2>2, <1>15, <1>17, SMTT(30) DEF Meant
  <2>4. Channel!ChanReceive
    BY <2>1, <2>3, <1>3, <1>4, <1>13, <1>17, SMTT(30) DEF Channel!ChanReceive
  <2>5. Len(returned') = r + 1
    BY <2>3, <1>0, AppendResult, SMTT(30) DEF r
  <2>6. Aligned(cs, r + 1, tr, "header", hdr, torn, Owed)
    BY <2>1, <1>9, ZenonT(30)
  <2>7. StreamInv'
    BY <2>5, <2>6, <1>2, <1>3, <1>4, <1>17, SMTT(30) DEF StreamInv
  <2> QED BY <2>4, <2>7, SMTT(30) DEF Follows, Channel!ChanNext
<1>18. CASE /\ d.ok /\ ~TooBig(d.val) /\ d.val.PayloadSize > 0
            /\ rpc' = "payload" /\ hdr' = d.val
            /\ UNCHANGED <<returned, lost>>
  <2>1. Follows
    BY <1>3, <1>4, <1>18, SMTT(30) DEF Follows, Channel!chanVars
  <2>2. hdr' = HeaderOf(c) /\ Len(returned') = r
    BY <1>15, <1>18, ZenonT(30) DEF r
  <2>3. StreamInv'
    BY <2>2, <1>2, <1>3, <1>4, <1>9, <1>18, ZenonT(30) DEF StreamInv
  <2> QED BY <2>1, <2>3, SMTT(30)
<1> QED BY <1>8, <1>16, <1>17, <1>18, SMTT(30)

\* ReadPacket has the payload: the packet it returns is the one that is due.
LEMMA ReadPayloadFollows ==
    ASSUME LevinInv, ~lost, torn => Len(returned) < Len(Begun), ReadPayload
    PROVE  StreamInv' /\ Follows
<1> DEFINE r == Len(returned)
           cs == Begun
           c == cs[r + 1]
           str == stream
           h == hdr
           k == h.PayloadSize
           x == SubSeq(str, 1, k)
           tr == From(str, k)
<1>0. LevinTypes /\ LockInv /\ torn \in BOOLEAN /\ \E S : returned \in Seq(S)
  BY DEF LevinInv, LevinTypes
<1>1. cs \in Seq(Sendable) /\ Owed \in Nat /\ r \in Nat
  BY <1>0, BegunCases, AppendResult, Zenon
<1>2. /\ rpc = "payload" /\ Len(str) >= k /\ stream' = tr /\ rpc' = "header"
      /\ returned' = Append(returned, Packet(h, x)) /\ hdr' = NoHeader /\ lost' = lost
  BY DEF ReadPayload
<1>3. UNCHANGED writerVars /\ Begun' = cs /\ Owed' = Owed /\ Promised' = Promised
  BY <1>0, ReaderKeeps, SMTT(30)
<1>4. torn' = torn
  BY <1>3 DEF writerVars
<1>5. Aligned(cs, r, str, "payload", h, torn, Owed)
  BY <1>2, ZenonT(30) DEF LevinInv, StreamInv
<1>6. ~(h.PayloadSize > MaxPayloadSize) /\ ~TooBig(h)
  BY <1>2, SMTT(30) DEF LevinInv, LimitInv
<1> HIDE DEF cs, r, str, h
<1>7. k <= Len(str)
  <2>1. r < Len(cs) /\ h = HeaderOf(cs[r + 1]) /\ str \in Seq(ByteRange)
    BY <1>5, ZenonT(30) DEF Aligned
  <2>2. c \in Sendable
    BY <1>1, <2>1
  <2>3. k = Size(c)
    BY <2>1, ZenonT(30) DEF Size
  <2>5. Size(c) \in Nat
    BY <2>2, FrameParts, SMTT(30)
  <2>6. Len(str) \in Nat
    BY <2>1
  <2>4. k \in Nat /\ Len(str) \in Nat
    BY <2>3, <2>5, <2>6, ZenonT(30)
  <2> QED BY <2>4, <1>2, SMTT(30)
<1>8. /\ r < Len(cs) /\ c \in Sendable /\ h = HeaderOf(c) /\ x = c.payload.bytes
      /\ Aligned(cs, r + 1, tr, "header", NoHeader, torn, Owed)
  <2>1. AtPayload(cs, r, str, h, torn, Owed)
    BY <1>0, <1>1, <1>5, <1>7, AlignedPayload, ZenonT(30)
  <2> QED BY <2>1, ZenonT(30) DEF AtPayload
<1> HIDE DEF c, k, x, tr
<1>9. Channel!HasDue /\ Channel!Due = Meant(c)
  BY <1>0, <1>8, DuePacket, SMTT(30) DEF r, cs, c
<1>10. returned' = Append(returned, Meant(c))
  BY <1>2, <1>8, ZenonT(30) DEF Meant
<1>14. FitsReader(Meant(c))
  BY <1>6, <1>8, SMTT(30) DEF FitsReader, Meant, Packet
<1>11. Channel!ChanReceive
  BY <1>2, <1>3, <1>4, <1>14, <1>9, <1>10, SMTT(30) DEF Channel!ChanReceive
<1>12. Len(returned') = r + 1
  BY <1>0, <1>10, AppendResult, SMTT(30) DEF r
<1>13. StreamInv'
  BY <1>2, <1>3, <1>4, <1>8, <1>12, SMTT(30) DEF StreamInv
<1> QED BY <1>11, <1>13 DEF Follows, Channel!ChanNext

\* ReadPacket gives up: inside a packet it loses its place.
LEMMA ReadFailsFollows ==
    ASSUME LevinInv, ~lost, torn => Len(returned) < Len(Begun), ReadFails
    PROVE  StreamInv' /\ Follows
<1> DEFINE r == Len(returned)
           cs == Begun
<1>0. LevinTypes /\ LockInv /\ torn \in BOOLEAN /\ \E S : returned \in Seq(S)
  BY DEF LevinInv, LevinTypes
<1>1. cs \in Seq(Sendable) /\ Owed \in Nat /\ r \in Nat
  BY <1>0, BegunCases, AppendResult, Zenon
<1>2. PICK n \in Cuts : stream' = From(stream, n) /\ lost' = (lost \/ rpc = "payload" \/ n > 0)
  BY SMTT(30) DEF ReadFails
<1>3. n \in Nat /\ rpc' = "header" /\ hdr' = NoHeader /\ returned' = returned
  BY LevinAssumption, SMTT(30) DEF ReadFails
<1>4. UNCHANGED writerVars /\ Begun' = cs /\ Owed' = Owed /\ Promised' = Promised
  BY <1>0, ReaderKeeps, SMTT(30)
<1>5. torn' = torn
  BY <1>4 DEF writerVars
<1>6. CASE lost'
  <2>1. Channel!ChanLose
    BY <1>3, <1>4, <1>5, <1>6, SMTT(30) DEF Channel!ChanLose
  <2>2. StreamInv'
    BY <1>6, ZenonT(30) DEF StreamInv
  <2> QED BY <2>1, <2>2, SMTT(30) DEF Follows, Channel!ChanNext
<1>7. CASE ~lost'
  <2>1. n = 0 /\ rpc # "payload" /\ lost' = lost
    <3>1. ~(n > 0) /\ rpc # "payload"
      BY <1>2, <1>7, ZenonT(30)
    <3>2. lost' \in BOOLEAN /\ lost \in BOOLEAN
      BY <1>0, ReaderKeeps, SMTT(30) DEF LevinTypes
    <3> QED BY <3>1, <3>2, <1>3, <1>7, SMTT(30)
  <2>2. Follows
    BY <2>1, <1>3, <1>4, <1>5, SMTT(30) DEF Follows, Channel!chanVars
  <2>3. rpc = "header" /\ stream' = From(stream, 0)
    BY <2>1, <1>0, <1>2, SMTT(30) DEF LevinTypes
  <2>4. Aligned(cs, r, stream, "header", hdr, torn, Owed)
    BY <2>3, Zenon DEF LevinInv, StreamInv
  <2> HIDE DEF cs, r
  <2>5. Aligned(cs, r, From(stream, 0), "header", NoHeader, torn, Owed)
    BY <2>4, <1>0, <1>1, AlignedNone, ZenonT(30)
  <2>6. StreamInv'
    BY <2>3, <2>5, <1>3, <1>4, <1>5, SMTT(30) DEF StreamInv, r
  <2> QED BY <2>2, <2>6, SMTT(30)
<1> QED BY <1>6, <1>7, SMTT(30)

LEMMA LimitKept ==
    ASSUME LimitInv, LevinNext
    PROVE  LimitInv'
<1>1. CASE UNCHANGED <<rpc, hdr>>
  BY <1>1, SMTT(30) DEF LimitInv, TooBig
<1>2. CASE rpc' = "header"
  BY <1>2, SMTT(30) DEF LimitInv
<1>3. CASE ReadHeader /\ rpc' # "header" /\ ~(UNCHANGED <<rpc, hdr>>)
  <2> DEFINE d == DecodeHeader(SubSeq(stream, 1, HeaderSize))
  <2>1. d.ok /\ ~TooBig(d.val) /\ hdr' = d.val
    BY <1>3, Zenon DEF ReadHeader
  <2>2. d.ok => ~(d.val.PayloadSize > MaxPayloadSize)
    BY ZenonT(30) DEF DecodeHeader, Fail
  <2> HIDE DEF d
  <2> QED BY <2>1, <2>2 DEF LimitInv, TooBig
<1>4. \/ UNCHANGED <<rpc, hdr>> \/ rpc' = "header" \/ ReadHeader
  BY DEF LevinNext, WriterStep, Unencodable, Lock, Write, WriteFails, Close,
         ReadPayload, ReadFails, readerVars
<1> QED BY <1>1, <1>2, <1>3, <1>4, SMTT(30)

\* Every step of a goroutine or of the network keeps the invariant, and is a step
\* of the channel or none.
LEMMA LevinStep ==
    ASSUME LevinInv, [LevinNext]_levinVars
    PROVE  LevinInv' /\ Follows
<1>0. LevinTypes /\ LockInv /\ LimitInv /\ StreamInv
  BY DEF LevinInv
<1>1. CASE LevinNext
  <2>0. LimitInv'
    BY <1>0, <1>1, LimitKept, SMTT(30)
  <2>1. ASSUME NEW w \in Writers, WriterStep(w)
        PROVE  LevinInv' /\ Follows
    <3>1. LevinTypes' /\ LockInv'
      BY <1>0, <2>1, WriterKeeps, SMTT(30)
    <3>2. StreamInv' /\ Follows
      BY <2>1, PreparingFollows, WriteFollows, WriteFailsFollows, ZenonT(30) DEF WriterStep
    <3> QED BY <2>0, <3>1, <3>2, ZenonT(30) DEF LevinInv
  <2>2. CASE Close
    <3>1. UNCHANGED <<calls, wpc, writeMu, sent, torn, stream, rpc, hdr, returned, lost>>
      BY <2>2, SMTT(30) DEF Close, readerVars
    <3>2. LevinTypes' /\ LockInv'
      BY <3>1, <1>0, SMTT(30) DEF LevinTypes, LockInv, Call
    <3>3. Begun' = Begun /\ Owed' = Owed
      BY <3>1, BegunState, SMTT(30) DEF Owed
    <3>4. StreamInv' /\ Follows
      BY <3>1, <3>3, QuietStep, SMTT(30)
    <3> QED BY <2>0, <3>2, <3>4, ZenonT(30) DEF LevinInv
  <2>3. CASE ReadHeader \/ ReadPayload \/ ReadFails
    <3>1. LevinTypes' /\ LockInv'
      BY <1>0, <2>3, ReaderKeeps, SMTT(30)
    <3>2. CASE lost \/ (torn /\ ~(Len(returned) < Len(Begun)))
      <4>1. StreamInv' /\ Follows
        BY <1>0, <2>3, <3>2, GarbledFollows, SMTT(30)
      <4> QED BY <2>0, <3>1, <4>1, Zenon DEF LevinInv
    <3>3. CASE ~lost /\ (torn => Len(returned) < Len(Begun))
      <4>1. StreamInv' /\ Follows
        BY <2>3, <3>3, ReadHeaderFollows, ReadPayloadFollows, ReadFailsFollows, ZenonT(30)
      <4> QED BY <2>0, <3>1, <4>1, Zenon DEF LevinInv
    <3> QED BY <3>2, <3>3, ZenonT(30)
  <2> QED BY <1>1, <2>1, <2>2, <2>3, SMTT(30) DEF LevinNext
<1>2. CASE UNCHANGED levinVars
  <2>1. UNCHANGED <<calls, wpc, writeMu, sent, torn, stream, rpc, hdr, returned, lost>>
    BY <1>2, SMTT(30) DEF levinVars, writerVars, readerVars
  <2>2. LevinTypes' /\ LockInv' /\ LimitInv'
    BY <2>1, <1>0, SMTT(30) DEF LevinTypes, LockInv, LimitInv, TooBig, Call
  <2>3. Begun' = Begun /\ Owed' = Owed
    BY <2>1, BegunState DEF Owed
  <2>4. StreamInv' /\ Follows
    BY <2>1, <2>3, QuietStep
  <2> QED BY <2>2, <2>4, ZenonT(30) DEF LevinInv
<1> QED BY <1>1, <1>2, SMTT(30)

LEMMA LevinStarts ==
    ASSUME LevinInit
    PROVE  LevinInv /\ Channel!ChanInit
<1>1. /\ calls \in Programs /\ wpc = [w \in Writers |-> "call"] /\ stream = <<>>
      /\ rpc = "header" /\ sent = <<>> /\ returned = <<>> /\ torn = FALSE /\ lost = FALSE
  BY DEF LevinInit
<1>2. LevinTypes
  <2>1. calls \in [Writers -> Seq(AllCalls)]
    BY <1>1, LevinAssumption, SMTT(30)
  <2>2. returned \in Seq({})
    BY <1>1
  <2>3. \E S : returned \in Seq(S)
    BY <2>2, ZenonT(30)
  <2>4. sent \in Seq(Sendable)
    BY <1>1, SMTT(30)
  <2> QED BY <1>1, <2>1, <2>3, <2>4, ZenonT(30) DEF LevinTypes
<1>3. LockInv /\ LimitInv
  BY <1>1 DEF LockInv, LimitInv
<1>4. Begun = <<>> /\ Owed = 0
  <2>1. \A w \in Writers : wpc[w] # "payload"
    BY <1>1, SMTT(30)
  <2>2. BegunBy(wpc, calls, sent, torn) = sent /\ OwedBy(wpc, calls, torn) = 0
    BY <2>1, BegunNone, SMTT(30)
  <2> QED BY <1>1, <2>2, BegunState, ZenonT(30) DEF Owed
<1>5. Len(returned) = 0 /\ <<>> \in Seq(ByteRange) /\ Len(<<>>) = 0 /\ 0 <= 0
  BY <1>1
<1>6. Aligned(<<>>, 0, <<>>, "header", hdr, FALSE, 0)
  <2>1. "header" # "payload"
    OBVIOUS
  <2> QED BY <2>1, <1>5, NothingInPlace, ZenonT(30) DEF Aligned
<1>7. StreamInv
  BY <1>1, <1>4, <1>5, <1>6, ZenonT(30) DEF StreamInv
<1>8. Promised = <<>>
  <2>1. Promised = PromisedBy(<<>>)
    BY <1>4, PromisedState, ZenonT(30)
  <2>2. PromisedBy(<<>>) = <<>>
    BY DEF PromisedBy
  <2> QED BY <2>1, <2>2
<1>9. Channel!ChanInit
  BY <1>1, <1>8 DEF Channel!ChanInit
<1> QED BY <1>2, <1>3, <1>7, <1>9, SMTT(30) DEF LevinInv

\* In every state of a connection: a goroutine between the two writes of
\* writeFrame holds the lock, and until a call stops inside a frame the bytes in
\* the stream are, from the reader's place on, the frames that are due, the last
\* without the payload that is still to be written (connection.go).
THEOREM LevinInvariant == LevinSpec => []LevinInv
<1>1. LevinInit => LevinInv
  BY LevinStarts
<1>2. LevinInv /\ [LevinNext]_levinVars => LevinInv'
  BY LevinStep
<1> QED BY <1>1, <1>2, PTL DEF LevinSpec

\* Packets written by any number of goroutines arrive whole, each once and in
\* order, however their writes and reads interleave and wherever they stop:
\* connection.go's write lock, its two writes to the network for a frame, and
\* the bytes of header.go implement a channel of packets.
THEOREM LevinImplementsChannel == LevinSpec => FramesArriveWhole
<1>1. LevinInit => Channel!ChanInit
  BY LevinStarts
<1>2. LevinInv /\ [LevinNext]_levinVars => [Channel!ChanNext]_(Channel!chanVars)
  BY LevinStep DEF Follows
<1> QED BY <1>1, <1>2, LevinInvariant, PTL DEF LevinSpec, FramesArriveWhole, Channel!ChanSpec
================================================================================
