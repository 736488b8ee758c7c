-------------------------- MODULE JWKEncodingProofs --------------------------
(***************************************************************************)
(* A Signer's JWK is read back as the Signer's key, and its thumbprint     *)
(* names that key, for every curve, key, byte size and int width.          *)
(***************************************************************************)
EXTENDS JWKEncoding, TLAPS, WellFoundedInduction, SequenceTheorems

-----------------------------------------------------------------------------
(* Lemmas: the operators on bytes.                                         *)

Less == {ab \in Nat \X Nat : ab[1] < ab[2]}

LEMMA LessIsWellFounded == IsWellFoundedOn(Less, Nat)
BY NatLessThanWellFounded, Zenon DEF OpToRel, Less

\* Some index comes first.
LEMMA LeastElement ==
  ASSUME NEW T, T \subseteq Nat, T # {}
  PROVE  \E i \in T : \A j \in T : i <= j
<1>1. PICK i \in T : \A j \in T : ~ (<<j, i>> \in Less)
  BY LessIsWellFounded, WFMin
<1>2. ASSUME NEW j \in T PROVE i <= j
  <2>1. i \in Nat /\ j \in Nat
    OBVIOUS
  <2>2. ~ (j < i)
    BY <1>1, <2>1 DEF Less
  <2> QED
    BY <2>1, <2>2
<1> QED
  BY <1>2

LEMMA BytesFacts ==
  ASSUME NEW b \in Bytes
  PROVE  /\ Len(b) \in Nat
         /\ DOMAIN b = 1..Len(b)
         /\ \A i \in 1..Len(b) : b[i] \in 0..(Base - 1)
<1> DEFINE S == 0..(Base - 1)
<1>1. b \in Seq(S)
  BY DEF Bytes
<1> HIDE DEF S
<1>2. Len(b) \in Nat /\ DOMAIN b = 1..Len(b)
  BY <1>1, LenProperties
<1>3. \A i \in 1..Len(b) : b[i] \in S
  BY <1>1, ElementOfSeq
<1> QED
  BY <1>2, <1>3 DEF S

\* Two byte sequences of one length with the same bytes are the same.
LEMMA BytesEqual ==
  ASSUME NEW b \in Bytes, NEW c \in Bytes, Len(b) = Len(c),
         \A i \in 1..Len(b) : b[i] = c[i]
  PROVE  b = c
BY SeqEqual DEF Bytes

LEMMA ZerosFacts ==
  ASSUME NEW n \in Nat
  PROVE  /\ Zeros(n) \in Bytes
         /\ Len(Zeros(n)) = n
         /\ \A i \in 1..n : Zeros(n)[i] = 0
<1>1. 0 \in 0..(Base - 1)
  BY BytesAssumption
<1>2. Zeros(n) \in [1..n -> 0..(Base - 1)]
  BY <1>1 DEF Zeros
<1>3. Zeros(n) \in Bytes
  BY <1>2, SeqDef DEF Bytes
<1>4. \A i \in 1..n : Zeros(n)[i] = 0
  BY DEF Zeros
<1>5. DOMAIN Zeros(n) = 1..n /\ DOMAIN Zeros(n) = 1..Len(Zeros(n)) /\ Len(Zeros(n)) \in Nat
  BY <1>3, BytesFacts DEF Zeros
<1> QED
  BY <1>3, <1>4, <1>5

\* SetBytes drops the leading zeros, and exactly those.
LEMMA SetBytesDropsZeros ==
  ASSUME NEW b \in Bytes
  PROVE  \E first \in 1..(Len(b) + 1) :
           /\ SetBytes(b) = SubSeq(b, first, Len(b))
           /\ \A j \in 1..(first - 1) : b[j] = 0
           /\ first <= Len(b) => b[first] # 0
<1> DEFINE T == {i \in 1..(Len(b) + 1) : i <= Len(b) => b[i] # 0}
           F(i) == /\ \A j \in 1..(i - 1) : b[j] = 0
                   /\ i <= Len(b) => b[i] # 0
           first == CHOOSE i \in 1..(Len(b) + 1) : F(i)
<1>1. Len(b) \in Nat
  BY BytesFacts
<1>2. Len(b) + 1 \in T /\ T \subseteq Nat
  BY <1>1
<1>3. PICK i \in T : \A j \in T : i <= j
  BY <1>2, LeastElement
<1>4. i \in 1..(Len(b) + 1) /\ F(i)
  BY <1>1, <1>3
<1>5. first \in 1..(Len(b) + 1) /\ F(first)
  BY <1>4, Zenon
<1>6. SetBytes(b) = SubSeq(b, first, Len(b))
  BY Zenon DEF SetBytes
<1> QED
  BY <1>5, <1>6, Zenon

-----------------------------------------------------------------------------
(* A point is put together of its coordinates and taken apart again.       *)

LEMMA CurveFacts ==
  ASSUME NEW crv \in Curves, NEW p \in Points[crv]
  PROVE  /\ CoordinateSize[crv] \in Nat \ {0}
         /\ p[1] \in Bytes /\ p[2] \in Bytes /\ p = <<p[1], p[2]>>
         /\ Minimal(p[1]) /\ Minimal(p[2])
         /\ Len(p[1]) <= CoordinateSize[crv] /\ Len(p[2]) <= CoordinateSize[crv]
<1>1. p \in Bytes \X Bytes
  BY CurvesAssumption
<1> QED
  BY <1>1, CurvesAssumption

\* The window of a sequence that holds the bytes of b is b.
LEMMA Window ==
  ASSUME NEW enc, NEW m \in Nat, NEW b \in Bytes, \A i \in 1..Len(b) : enc[m + i] = b[i]
  PROVE  SubSeq(enc, m + 1, m + Len(b)) = b
<1> DEFINE lo == m + 1
           hi == m + Len(b)
           s == SubSeq(enc, lo, hi)
<1>1. Len(b) \in Nat /\ (\A i \in 1..Len(b) : b[i] \in 0..(Base - 1))
  BY BytesFacts
<1>2. lo \in Int /\ hi \in Int /\ hi - lo + 1 = Len(b)
  BY <1>1
<1>3. ASSUME NEW i \in lo..hi PROVE enc[i] \in 0..(Base - 1)
  <2>1. i - m \in 1..Len(b) /\ m + (i - m) = i
    BY <1>1
  <2>2. enc[i] = b[i - m]
    BY <2>1
  <2> QED
    BY <1>1, <2>1, <2>2
<1> HIDE DEF lo, hi
<1>4. /\ SubSeq(enc, lo, hi) \in Bytes
      /\ Len(SubSeq(enc, lo, hi)) = IF lo <= hi THEN hi - lo + 1 ELSE 0
      /\ \A i \in 1..(hi - lo + 1) : SubSeq(enc, lo, hi)[i] = enc[lo + i - 1]
  BY <1>2, <1>3, SubSeqProperties DEF Bytes
<1>5. Len(s) = Len(b)
  BY <1>1, <1>2, <1>4 DEF lo, hi
<1>6. ASSUME NEW i \in 1..Len(b) PROVE s[i] = b[i]
  <2>1. lo + i - 1 = m + i
    BY <1>1 DEF lo
  <2>2. s[i] = enc[lo + i - 1]
    BY <1>2, <1>4
  <2> QED
    BY <2>1, <2>2
<1> QED
  BY <1>4, <1>5, <1>6, BytesEqual DEF lo, hi

-----------------------------------------------------------------------------
(* Zeros in front of an integer.                                           *)

\* w is z behind zeros.
IsPadded(w, z) ==
  /\ w \in Bytes /\ z \in Bytes
  /\ Len(w) \in Nat /\ Len(z) \in Nat /\ Len(z) <= Len(w)
  /\ \A i \in 1..Len(w) :
       w[i] = IF i <= Len(w) - Len(z) THEN 0 ELSE z[i - (Len(w) - Len(z))]

LEMMA PaddedToItself ==
  ASSUME NEW z \in Bytes
  PROVE  IsPadded(z, z)
<1>1. Len(z) \in Nat /\ Len(z) - Len(z) = 0
  BY BytesFacts
<1>2. ASSUME NEW i \in 1..Len(z) PROVE ~ (i <= 0) /\ i - 0 = i
  BY <1>1
<1> QED
  BY <1>1, <1>2 DEF IsPadded

LEMMA ZerosInFront ==
  ASSUME NEW z \in Bytes, NEW k \in Nat
  PROVE  IsPadded(Zeros(k) \o z, z) /\ Len(Zeros(k) \o z) = k + Len(z)
<1> DEFINE o == Zeros(k)
           w == o \o z
<1>1. o \in Bytes /\ Len(o) = k /\ \A i \in 1..k : o[i] = 0
  BY ZerosFacts
<1>2. Len(z) \in Nat
  BY BytesFacts
<1> HIDE DEF o
<1>3. /\ w \in Bytes
      /\ Len(w) = Len(o) + Len(z)
      /\ \A i \in 1..(Len(o) + Len(z)) : w[i] = IF i <= Len(o) THEN o[i] ELSE z[i - Len(o)]
  BY <1>1, ConcatProperties DEF Bytes
<1> HIDE DEF w
<1>4. Len(w) = k + Len(z) /\ Len(w) - Len(z) = k /\ Len(w) \in Nat /\ Len(z) <= Len(w)
  BY <1>1, <1>2, <1>3
<1>5. ASSUME NEW i \in 1..Len(w) PROVE w[i] = IF i <= k THEN 0 ELSE z[i - k]
  <2>1. i <= k => i \in 1..k
    BY <1>4
  <2> QED
    BY <1>1, <1>3, <2>1
<1>6. IsPadded(w, z)
  BY <1>2, <1>3, <1>4, <1>5 DEF IsPadded
<1> QED
  BY <1>4, <1>6 DEF w, o

\* Zeros in front of zeros are zeros in front.
LEMMA PaddedTwice ==
  ASSUME NEW v, NEW w, NEW z, IsPadded(v, w), IsPadded(w, z)
  PROVE  IsPadded(v, z)
<1>1. /\ v \in Bytes /\ z \in Bytes
      /\ Len(v) \in Nat /\ Len(w) \in Nat /\ Len(z) \in Nat
      /\ Len(w) <= Len(v) /\ Len(z) <= Len(w)
  BY DEF IsPadded
<1>2. ASSUME NEW i \in 1..Len(v)
      PROVE  v[i] = IF i <= Len(v) - Len(z) THEN 0 ELSE z[i - (Len(v) - Len(z))]
  <2>1. CASE i <= Len(v) - Len(w)
    <3>1. v[i] = 0
      BY <2>1 DEF IsPadded
    <3>2. i <= Len(v) - Len(z)
      BY <1>1, <2>1
    <3> QED
      BY <3>1, <3>2
  <2>2. CASE ~ (i <= Len(v) - Len(w))
    <3> DEFINE j == i - (Len(v) - Len(w))
    <3>1. j \in 1..Len(w)
      BY <1>1, <2>2
    <3>2. /\ j <= Len(w) - Len(z) <=> i <= Len(v) - Len(z)
          /\ j - (Len(w) - Len(z)) = i - (Len(v) - Len(z))
      BY <1>1
    <3>3. v[i] = w[j]
      BY <2>2 DEF IsPadded
    <3> HIDE DEF j
    <3>4. w[j] = IF j <= Len(w) - Len(z) THEN 0 ELSE z[j - (Len(w) - Len(z))]
      BY <3>1 DEF IsPadded
    <3> QED
      BY <3>2, <3>3, <3>4
  <2> QED
    BY <2>1, <2>2
<1>3. Len(z) <= Len(v)
  BY <1>1
<1> QED
  BY <1>1, <1>2, <1>3 DEF IsPadded

LEMMA LeftPadIsPadded ==
  ASSUME NEW w, NEW z, IsPadded(w, z), NEW n \in Nat
  PROVE  /\ IsPadded(leftPad(w, n), z)
         /\ Len(w) <= n => Len(leftPad(w, n)) = n
<1>1. w \in Bytes /\ Len(w) \in Nat
  BY DEF IsPadded
<1>2. CASE Len(w) >= n
  <2>1. leftPad(w, n) = w
    BY <1>2 DEF leftPad
  <2> QED
    BY <1>1, <1>2, <2>1
<1>3. CASE ~ (Len(w) >= n)
  <2>1. n - Len(w) \in Nat /\ (n - Len(w)) + Len(w) = n
    BY <1>1, <1>3
  <2>2. leftPad(w, n) = Zeros(n - Len(w)) \o w
    BY <1>3 DEF leftPad
  <2>3. IsPadded(leftPad(w, n), w) /\ Len(leftPad(w, n)) = (n - Len(w)) + Len(w)
    BY <1>1, <2>1, <2>2, ZerosInFront
  <2> QED
    BY <2>1, <2>3, PaddedTwice
<1> QED
  BY <1>2, <1>3

\* They are nothing to it.
LEMMA PaddedIsRead ==
  ASSUME NEW w, NEW z, IsPadded(w, z), Minimal(z)
  PROVE  SetBytes(w) = z
<1> DEFINE k == Len(w) - Len(z)
<1>1. /\ w \in Bytes /\ z \in Bytes /\ Len(w) \in Nat /\ Len(z) \in Nat /\ k \in Nat
      /\ k + Len(z) = Len(w)
      /\ \A i \in 1..Len(w) : w[i] = IF i <= k THEN 0 ELSE z[i - k]
  BY DEF IsPadded
<1>2. PICK first \in 1..(Len(w) + 1) :
        /\ SetBytes(w) = SubSeq(w, first, Len(w))
        /\ \A j \in 1..(first - 1) : w[j] = 0
        /\ first <= Len(w) => w[first] # 0
  BY <1>1, SetBytesDropsZeros
<1> HIDE DEF k
<1>3. ~ (first <= k)
  <2>1. CASE first <= k
    <3>1. first <= Len(w) /\ first \in 1..Len(w)
      BY <1>1, <2>1
    <3>2. w[first] = 0
      BY <1>1, <2>1, <3>1
    <3> QED
      BY <1>2, <3>1, <3>2
  <2> QED
    BY <2>1
<1>4. ~ (first > k + 1)
  <2>1. CASE first > k + 1
    <3>1. k + 1 \in 1..(first - 1) /\ k + 1 \in 1..Len(w) /\ ~ (k + 1 <= k) /\ Len(z) > 0
      BY <1>1, <2>1
    <3>2. w[k + 1] = z[(k + 1) - k] /\ (k + 1) - k = 1
      BY <1>1, <3>1
    <3>3. w[k + 1] = 0
      BY <1>2, <3>1
    <3> QED
      BY <3>1, <3>2, <3>3 DEF Minimal
  <2> QED
    BY <2>1
<1>5. first = k + 1
  BY <1>1, <1>3, <1>4
<1>6. ASSUME NEW i \in 1..Len(z) PROVE w[k + i] = z[i]
  <2>1. k + i \in 1..Len(w) /\ ~ (k + i <= k) /\ (k + i) - k = i
    BY <1>1
  <2> QED
    BY <1>1, <2>1
<1>7. SubSeq(w, k + 1, k + Len(z)) = z
  BY <1>1, <1>6, Window
<1> QED
  BY <1>1, <1>2, <1>5, <1>7

\* A sign byte in front of b is a zero in front of it.
LEMMA SignByteIsPadded ==
  ASSUME NEW b \in Bytes
  PROVE  IsPadded(<<0>> \o b, b) /\ Len(<<0>> \o b) = 1 + Len(b)
<1>1. Zeros(1) = <<0>>
  BY DEF Zeros
<1>2. IsPadded(Zeros(1) \o b, b) /\ Len(Zeros(1) \o b) = 1 + Len(b)
  BY ZerosInFront
<1> QED
  BY <1>1, <1>2

-----------------------------------------------------------------------------
(* What is written is read.                                                *)

\* A member w that was written for a coordinate of this size is taken for X: X
\* is what the size leaves of it.
Reads(w, size, X) ==
  /\ X \in Bytes /\ Len(X) = size
  /\ Len(leftPad(w, size)) \in Nat /\ Len(leftPad(w, size)) >= size
  /\ \A i \in 1..size : leftPad(w, size)[i] = X[i]

\* What a pair of coordinates is parsed to.
PointAt(crv, x, y) ==
  IF <<x, y>> \in Points[crv] THEN Decoded(ECKey(crv, x, y)) ELSE Failed("ErrInvalidKey")

(* Whatever the two members were, the point is the pair of coordinates     *)
(* they are taken for, or none (ecUncompressedPoint, ParsePoint).          *)
LEMMA PointRead ==
  ASSUME NEW crv \in Curves, NEW x, NEW y, NEW X, NEW Y,
         Reads(x, CoordinateSize[crv], X), Reads(y, CoordinateSize[crv], Y)
  PROVE  ParsePoint(crv, ecUncompressedPoint(crv, x, y))
           = PointAt(crv, SetBytes(X), SetBytes(Y))
<1> DEFINE size == CoordinateSize[crv]
           PX == leftPad(x, size)
           PY == leftPad(y, size)
           enc0 == <<4>> \o Zeros(2 * size)
           enc == ecUncompressedPoint(crv, x, y)
<1>1. /\ size \in Nat /\ size >= 1
      /\ X \in Bytes /\ Y \in Bytes /\ Len(X) = size /\ Len(Y) = size
      /\ Len(PX) \in Nat /\ Len(PX) >= size /\ \A i \in 1..size : PX[i] = X[i]
      /\ Len(PY) \in Nat /\ Len(PY) >= size /\ \A i \in 1..size : PY[i] = Y[i]
  BY CurvesAssumption DEF Reads
<1>2. /\ \A i \in 1..size : X[i] \in 0..(Base - 1) /\ Y[i] \in 0..(Base - 1)
  BY <1>1, BytesFacts
<1>3. /\ DOMAIN enc0 = 1..(1 + 2 * size)
      /\ enc0[1] = 4
  <2>1. 2 * size \in Nat
    BY <1>1
  <2>2. Zeros(2 * size) \in Seq(Int) /\ Len(Zeros(2 * size)) = 2 * size
    <3>1. Zeros(2 * size) \in Bytes /\ Len(Zeros(2 * size)) = 2 * size
      BY <2>1, ZerosFacts
    <3>2. 0..(Base - 1) \subseteq Int
      OBVIOUS
    <3> QED
      BY <3>1, <3>2, SeqMonotonic DEF Bytes
  <2>3. <<4>> \in Seq(Int) /\ Len(<<4>>) = 1 /\ <<4>>[1] = 4
    OBVIOUS
  <2>4. /\ enc0 \in Seq(Int)
        /\ Len(enc0) = 1 + 2 * size
        /\ \A i \in 1..(1 + 2 * size) :
             enc0[i] = IF i <= 1 THEN <<4>>[i] ELSE Zeros(2 * size)[i - 1]
    BY <2>2, <2>3, ConcatProperties
  <2>5. 1 \in 1..(1 + 2 * size)
    BY <1>1
  <2> QED
    BY <2>3, <2>4, <2>5, LenProperties
<1> HIDE DEF enc0
<1>4. enc = Copied(Copied(enc0, 1, PX), 1 + size, PY)
  BY DEF ecUncompressedPoint, enc0
<1> HIDE DEF PX, PY
<1>5. enc = [i \in 1..(1 + 2 * size) |->
               IF i > 1 + size /\ i - (1 + size) <= Len(PY) THEN PY[i - (1 + size)]
               ELSE IF i > 1 /\ i - 1 <= Len(PX) THEN PX[i - 1] ELSE enc0[i]]
  BY <1>1, <1>3, <1>4 DEF Copied
<1>6. enc[1] = 4
  BY <1>1, <1>3, <1>5
<1>7. /\ \A i \in 1..size : enc[1 + i] = X[i]
      /\ \A i \in 1..size : enc[(1 + size) + i] = Y[i]
  <2>1. ASSUME NEW i \in 1..size PROVE enc[1 + i] = X[i]
    <3>1. /\ 1 + i \in 1..(1 + 2 * size) /\ (1 + i) - 1 = i
          /\ 1 + i > 1 /\ i <= size /\ i <= Len(PX) /\ ~ (1 + i > 1 + size)
      BY <1>1
    <3>2. enc[1 + i] = PX[i]
      BY <1>5, <3>1
    <3> QED
      BY <1>1, <3>2
  <2>2. ASSUME NEW i \in 1..size PROVE enc[(1 + size) + i] = Y[i]
    <3>1. /\ (1 + size) + i \in 1..(1 + 2 * size)
          /\ ((1 + size) + i) - (1 + size) = i
          /\ (1 + size) + i > 1 + size /\ i <= size /\ i <= Len(PY)
      BY <1>1
    <3>2. enc[(1 + size) + i] = PY[i]
      BY <1>5, <3>1
    <3> QED
      BY <1>1, <3>2
  <2> QED
    BY <2>1, <2>2
<1>8. Len(enc) = 1 + 2 * size
  BY <1>1, <1>5
<1>9. SubSeq(enc, 2, 1 + size) = X
  <2>1. SubSeq(enc, 1 + 1, 1 + Len(X)) = X
    <3> DEFINE m == 1
    <3> HIDE DEF enc, m
    <3>1. \A i \in 1..Len(X) : enc[m + i] = X[i]
      BY <1>1, <1>7 DEF m
    <3>2. m \in Nat
      BY DEF m
    <3>3. SubSeq(enc, m + 1, m + Len(X)) = X
      BY <1>1, <3>1, <3>2, Window
    <3> QED
      BY <3>3 DEF m
  <2> QED
    BY <1>1, <2>1
<1>10. SubSeq(enc, 2 + size, 1 + 2 * size) = Y
  <2>1. 1 + size \in Nat /\ (1 + size) + 1 = 2 + size /\ (1 + size) + Len(Y) = 1 + 2 * size
    <3>1. size \in Nat /\ Len(Y) = size
      BY <1>1
    <3> QED
      BY <3>1
  <2>2. SubSeq(enc, (1 + size) + 1, (1 + size) + Len(Y)) = Y
    <3> DEFINE m == 1 + size
    <3> HIDE DEF enc, m
    <3>1. \A i \in 1..Len(Y) : enc[m + i] = Y[i]
      BY <1>1, <1>7 DEF m
    <3>2. m \in Nat
      BY <1>1 DEF m
    <3>3. SubSeq(enc, m + 1, m + Len(Y)) = Y
      BY <1>1, <3>1, <3>2, Window
    <3> QED
      BY <3>3 DEF m
  <2> QED
    BY <2>1, <2>2
<1> HIDE DEF enc
<1>11. ParsePoint(crv, enc) = PointAt(crv, SetBytes(X), SetBytes(Y))
  BY <1>6, <1>8, <1>9, <1>10 DEF ParsePoint, PointAt
<1> QED
  BY <1>11 DEF enc

-----------------------------------------------------------------------------
(* Keys.                                                                   *)

LEMMA ECKeyFacts ==
  ASSUME NEW key \in ECKeys
  PROVE  \E crv \in Curves : \E p \in Points[crv] : key = ECKey(crv, p[1], p[2])
BY DEF ECKeys

LEMMA RSAKeyFacts ==
  ASSUME NEW key \in RSAKeys
  PROVE  /\ key = RSAKey(key.n, key.e) /\ key.kty = "RSA"
         /\ key.n \in Bytes /\ Minimal(key.n) /\ key.n # NotBase64
         /\ key.e \in Bytes /\ Minimal(key.e) /\ key.e # NotBase64
<1>1. /\ key = [kty |-> "RSA", n |-> key.n, e |-> key.e]
      /\ key.n \in Bytes /\ Minimal(key.n) /\ key.e \in Bytes /\ Minimal(key.e)
  BY RSAKeysAssumption
<1> QED
  BY <1>1, NotBase64Assumption DEF RSAKey

\* A member that has room is taken for the integer it pads.
LEMMA FittingIsRead ==
  ASSUME NEW w, NEW z, IsPadded(w, z), Minimal(z), NEW size \in Nat, Len(w) <= size
  PROVE  \E X : Reads(w, size, X) /\ SetBytes(X) = z
<1> DEFINE X == leftPad(w, size)
<1>1. IsPadded(X, z) /\ Len(X) = size
  BY LeftPadIsPadded
<1>2. SetBytes(X) = z
  BY <1>1, PaddedIsRead
<1>3. X \in Bytes
  BY <1>1 DEF IsPadded
<1> HIDE DEF X
<1>4. Len(X) >= size
  BY <1>1
<1> QED
  BY <1>1, <1>2, <1>3, <1>4 DEF Reads, X

LEMMA EmptyFacts == <<>> \in Bytes /\ Len(<<>>) = 0 /\ Minimal(<<>>)
BY DEF Bytes, Minimal

\* A sign byte too much: the last byte goes.
LEMMA OverlongIsCut ==
  ASSUME NEW b \in Bytes, Minimal(b), Len(b) > 0
  PROVE  \E X : Reads(<<0>> \o b, Len(b), X) /\ SetBytes(X) = SubSeq(b, 1, Len(b) - 1)
<1> DEFINE n == Len(b)
           w == <<0>> \o b
           c == SubSeq(b, 1, n - 1)
           X == SubSeq(w, 1, n)
<1>1. n \in Nat /\ n >= 1 /\ \A i \in 1..n : b[i] \in 0..(Base - 1)
  BY BytesFacts
<1>2. IsPadded(w, b) /\ Len(w) = 1 + n
  BY SignByteIsPadded
<1>3. w \in Bytes /\ \A i \in 1..(1 + n) : w[i] \in 0..(Base - 1)
  <2>1. w \in Bytes
    BY <1>2 DEF IsPadded
  <2> QED
    BY <1>2, <2>1, BytesFacts
<1>4. \A i \in 1..(1 + n) : w[i] = IF i <= 1 THEN 0 ELSE b[i - 1]
  <2> HIDE DEF w, n
  <2>1. (1 + n) - n = 1
    BY <1>1
  <2> QED
    BY <1>2, <2>1 DEF IsPadded, n
<1> HIDE DEF w, n
<1>5. c \in Bytes /\ Len(c) = n - 1 /\ \A i \in 1..(n - 1) : c[i] = b[i]
  <2>1. /\ c \in Bytes
        /\ Len(c) = IF 1 <= n - 1 THEN (n - 1) - 1 + 1 ELSE 0
        /\ \A i \in 1..((n - 1) - 1 + 1) : c[i] = b[1 + i - 1]
    <3>1. n - 1 \in Int /\ \A i \in 1..(n - 1) : b[i] \in 0..(Base - 1)
      BY <1>1
    <3> QED
      BY <3>1, SubSeqProperties DEF Bytes
  <2>2. (n - 1) - 1 + 1 = n - 1 /\ (~ (1 <= n - 1) => n - 1 = 0)
    BY <1>1
  <2>3. ASSUME NEW i \in 1..(n - 1) PROVE 1 + i - 1 = i
    BY <1>1
  <2> HIDE DEF c
  <2> QED
    BY <2>1, <2>2, <2>3
<1>6. X \in Bytes /\ Len(X) = n /\ \A i \in 1..n : X[i] = w[i]
  <2>1. /\ X \in Bytes
        /\ Len(X) = IF 1 <= n THEN n - 1 + 1 ELSE 0
        /\ \A i \in 1..(n - 1 + 1) : X[i] = w[1 + i - 1]
    <3>1. n \in Int /\ \A i \in 1..n : w[i] \in 0..(Base - 1)
      BY <1>1, <1>3
    <3> QED
      BY <3>1, SubSeqProperties DEF Bytes
  <2>2. n - 1 + 1 = n /\ 1 <= n
    BY <1>1
  <2>3. ASSUME NEW i \in 1..n PROVE 1 + i - 1 = i
    BY <1>1
  <2> HIDE DEF X
  <2> QED
    BY <2>1, <2>2, <2>3
<1> HIDE DEF c, X
<1>7. IsPadded(X, c)
  <2>1. Len(X) - Len(c) = 1 /\ Len(c) <= Len(X) /\ Len(c) \in Nat /\ Len(X) \in Nat
    BY <1>1, <1>5, <1>6
  <2>2. ASSUME NEW i \in 1..Len(X) PROVE X[i] = IF i <= 1 THEN 0 ELSE c[i - 1]
    <3>1. i \in 1..n /\ i \in 1..(1 + n) /\ (~ (i <= 1) => i - 1 \in 1..(n - 1))
      BY <1>1, <1>6
    <3>2. X[i] = w[i]
      BY <1>6, <3>1
    <3>3. ~ (i <= 1) => c[i - 1] = b[i - 1]
      BY <1>5, <3>1
    <3> QED
      BY <1>4, <3>1, <3>2, <3>3
  <2> QED
    BY <1>5, <1>6, <2>1, <2>2 DEF IsPadded
<1>8. Minimal(c)
  <2>1. ASSUME Len(c) > 0 PROVE c[1] = b[1] /\ b[1] # 0
    <3>1. 1 \in 1..(n - 1)
      BY <1>1, <1>5, <2>1
    <3> QED
      BY <1>5, <3>1 DEF Minimal
  <2> QED
    BY <2>1 DEF Minimal
<1>9. SetBytes(X) = c
  BY <1>7, <1>8, PaddedIsRead
<1>10. Reads(w, n, X)
  <2>1. leftPad(w, n) = w /\ Len(w) >= n
    BY <1>1, <1>2 DEF leftPad, w, n
  <2> QED
    BY <1>1, <1>2, <1>6, <2>1 DEF Reads, w, n
<1> QED
  BY <1>9, <1>10 DEF w, n, c

(* However another library wrote a coordinate, what is Left of it is read  *)
(* (leftPad, ecUncompressedPoint).                                         *)
LEMMA CoordinateRead ==
  ASSUME NEW size \in Nat, NEW b \in Bytes, Minimal(b), Len(b) <= size, size > 0,
         NEW s \in Styles, Write(s, b, size) # NotBase64
  PROVE  \E X : Reads(Write(s, b, size), size, X) /\ SetBytes(X) = Left(b, s, size)
<1> DEFINE w == Write(s, b, size)
<1>0. Len(b) \in Nat /\ IsPadded(b, b)
  BY BytesFacts, PaddedToItself
<1>1. CASE s = "fixed"
  <2>1. size - Len(b) \in Nat /\ (size - Len(b)) + Len(b) = size
    BY <1>0
  <2>2. w = Zeros(size - Len(b)) \o b
    BY <1>1 DEF Write, FillBytes
  <2> HIDE DEF w
  <2>3. IsPadded(w, b) /\ Len(w) <= size
    BY <2>1, <2>2, ZerosInFront
  <2>4. Left(b, s, size) = b
    BY <1>1 DEF Left
  <2> QED
    BY <2>3, <2>4, FittingIsRead DEF w
<1>2. CASE s = "stripped"
  <2>1. w = b /\ Left(b, s, size) = b
    BY <1>2 DEF Write, Left
  <2> QED
    BY <1>0, <2>1, FittingIsRead
<1>3. CASE s = "signed" /\ ~ NeedsSignByte(b)
  <2>1. w = b /\ Left(b, s, size) = b
    BY <1>3 DEF Write, Left
  <2> QED
    BY <1>0, <2>1, FittingIsRead
<1>4. CASE s = "signed" /\ NeedsSignByte(b) /\ Len(b) # size
  <2>1. w = <<0>> \o b /\ Left(b, s, size) = b
    BY <1>4 DEF Write, Left
  <2> HIDE DEF w
  <2>2. IsPadded(w, b) /\ Len(w) = 1 + Len(b)
    BY <2>1, SignByteIsPadded
  <2>3. Len(w) <= size
    BY <1>0, <1>4, <2>2
  <2> QED
    BY <2>1, <2>2, <2>3, FittingIsRead DEF w
<1>5. CASE s = "signed" /\ NeedsSignByte(b) /\ Len(b) = size
  <2>1. w = <<0>> \o b /\ Left(b, s, size) = SubSeq(b, 1, size - 1)
    BY <1>5 DEF Write, Left
  <2> QED
    BY <1>5, <2>1, OverlongIsCut
<1>6. CASE s = "text"
  BY <1>6 DEF Write
<1>7. CASE s = "missing"
  <2> DEFINE z == <<>>
  <2>1. w = z /\ Left(b, s, size) = z
    BY <1>7 DEF Write, Left
  <2>2. z \in Bytes /\ Len(z) = 0 /\ Minimal(z)
    BY EmptyFacts
  <2> HIDE DEF z
  <2>3. IsPadded(z, z) /\ Len(z) <= size
    BY <2>2, PaddedToItself
  <2> QED
    BY <2>1, <2>2, <2>3, FittingIsRead
<1> QED
  BY <1>1, <1>2, <1>3, <1>4, <1>5, <1>6, <1>7 DEF Styles

LEMMA EmptyStaysEmpty == SetBytes(<<>>) = <<>> /\ Int64(<<>>) = <<>>
<1> DEFINE w == <<>>
<1>1. w \in Bytes /\ Len(w) = 0 /\ Minimal(w)
  BY EmptyFacts
<1> HIDE DEF w
<1>2. SetBytes(w) = w
  BY <1>1, PaddedToItself, PaddedIsRead
<1>3. FitsInt(w)
  BY <1>1, BytesAssumption DEF FitsInt
<1>4. Int64(w) = SetBytes(w)
  BY <1>1, <1>3, BytesAssumption DEF Int64
<1> QED
  BY <1>2, <1>4 DEF w

(* However another library wrote an integer, it is taken for that integer, *)
(* or for zero when it is not there (SetBytes).                            *)
LEMMA IntegerRead ==
  ASSUME NEW b \in Bytes, Minimal(b), NEW s \in Styles, Write(s, b, Len(b)) # NotBase64
  PROVE  /\ SetBytes(Write(s, b, Len(b))) \in {b, <<>>}
         /\ s # "missing" => SetBytes(Write(s, b, Len(b))) = b
<1> DEFINE w == Write(s, b, Len(b))
<1>1. CASE s = "missing"
  <2>1. w = <<>>
    BY <1>1 DEF Write
  <2> QED
    BY <1>1, <2>1, EmptyStaysEmpty
<1>2. CASE s # "missing"
  <2>1. IsPadded(w, b)
    <3>1. CASE s = "fixed"
      <4>1. Len(b) - Len(b) \in Nat
        BY BytesFacts
      <4>2. w = Zeros(Len(b) - Len(b)) \o b
        BY <3>1 DEF Write, FillBytes
      <4> HIDE DEF w
      <4> QED
        BY <4>1, <4>2, ZerosInFront
    <3>2. CASE w = b
      BY <3>2, PaddedToItself
    <3>3. CASE w = <<0>> \o b
      BY <3>3, SignByteIsPadded
    <3>4. s # "fixed" => w = b \/ w = <<0>> \o b
      BY <1>2 DEF Write, Styles
    <3> QED
      BY <3>1, <3>2, <3>3, <3>4
  <2>2. SetBytes(w) = b
    BY <2>1, PaddedIsRead
  <2> QED
    BY <2>2
<1> QED
  BY <1>1, <1>2

-----------------------------------------------------------------------------
(* A key that was written, and is read.                                    *)

\* Both parameters are base64url.
Readable(key, styles) ==
  LET p == WriteKey(key, styles)
  IN  IF key.kty = "RSA" THEN NotBase64 \notin {p.n, p.e} ELSE NotBase64 \notin {p.x, p.y}

LEMMA UnreadableIsRefused ==
  ASSUME NEW key \in ECKeys \union RSAKeys, NEW styles, ~ Readable(key, styles)
  PROVE  publicKey(WriteKey(key, styles)) = Failed("ErrInvalidKey")
<1> DEFINE p == WriteKey(key, styles)
<1>1. CASE key \in ECKeys
  <2>1. key.kty = "EC" /\ p.kty = "EC" /\ NotBase64 \in {p.x, p.y}
    BY <1>1, ECKeyFacts DEF Readable, WriteKey, ECKey
  <2> HIDE DEF p
  <2> QED
    BY <2>1 DEF publicKey, p
<1>2. CASE key \in RSAKeys
  <2>1. p.kty = "RSA" /\ NotBase64 \in {p.n, p.e}
    BY <1>2, RSAKeyFacts DEF Readable, WriteKey, RSAKey
  <2> HIDE DEF p
  <2> QED
    BY <2>1 DEF publicKey, p
<1> QED
  BY <1>1, <1>2

\* An EC key is read as what is left of its coordinates, if that is a point.
LEMMA ECKeyRead ==
  ASSUME NEW crv \in Curves, NEW p \in Points[crv],
         NEW styles \in Styles \X Styles, Readable(ECKey(crv, p[1], p[2]), styles)
  PROVE  publicKey(WriteKey(ECKey(crv, p[1], p[2]), styles))
           = PointAt(crv, Left(p[1], styles[1], CoordinateSize[crv]),
                          Left(p[2], styles[2], CoordinateSize[crv]))
<1> DEFINE size == CoordinateSize[crv]
           x == Write(styles[1], p[1], size)
           y == Write(styles[2], p[2], size)
<1>1. /\ p[1] \in Bytes /\ Minimal(p[1]) /\ Len(p[1]) <= size
      /\ p[2] \in Bytes /\ Minimal(p[2]) /\ Len(p[2]) <= size
      /\ size \in Nat /\ size > 0 /\ styles[1] \in Styles /\ styles[2] \in Styles
  BY CurveFacts
<1>2. WriteKey(ECKey(crv, p[1], p[2]), styles) = ECKey(crv, x, y)
  BY DEF WriteKey, ECKey
<1>3. x # NotBase64 /\ y # NotBase64
  BY <1>2 DEF Readable, ECKey
<1>4. PICK X : Reads(x, size, X) /\ SetBytes(X) = Left(p[1], styles[1], size)
  BY <1>1, <1>3, CoordinateRead
<1>5. PICK Y : Reads(y, size, Y) /\ SetBytes(Y) = Left(p[2], styles[2], size)
  BY <1>1, <1>3, CoordinateRead
<1> HIDE DEF x, y
<1>6. ParsePoint(crv, ecUncompressedPoint(crv, x, y)) = PointAt(crv, SetBytes(X), SetBytes(Y))
  BY <1>4, <1>5, PointRead
<1>7. publicKey(ECKey(crv, x, y)) = ParsePoint(crv, ecUncompressedPoint(crv, x, y))
  BY <1>3 DEF publicKey, ECKey
<1> QED
  BY <1>2, <1>4, <1>5, <1>6, <1>7

\* An RSA key is read as itself, or without what was missing.
LEMMA RSAKeyRead ==
  ASSUME NEW key \in RSAKeys, FitsInt(key.e),
         NEW styles \in Styles \X Styles, Readable(key, styles)
  PROVE  /\ publicKey(WriteKey(key, styles)).err = NoError
         /\ Usable(publicKey(WriteKey(key, styles)).key) =>
              publicKey(WriteKey(key, styles)) = Decoded(key)
         /\ styles[1] # "missing" /\ styles[2] # "missing" =>
              publicKey(WriteKey(key, styles)) = Decoded(key)
<1> DEFINE n == Write(styles[1], key.n, Len(key.n))
           e == Write(styles[2], key.e, Len(key.e))
           d == publicKey(WriteKey(key, styles))
<1>1. WriteKey(key, styles) = RSAKey(n, e)
  BY RSAKeyFacts DEF WriteKey
<1>2. n # NotBase64 /\ e # NotBase64
  BY <1>1, RSAKeyFacts DEF Readable, RSAKey
<1>3. /\ SetBytes(n) \in {key.n, <<>>} /\ (styles[1] # "missing" => SetBytes(n) = key.n)
      /\ SetBytes(e) \in {key.e, <<>>} /\ (styles[2] # "missing" => SetBytes(e) = key.e)
  <2>1. styles[1] \in Styles /\ styles[2] \in Styles
    OBVIOUS
  <2> QED
    BY <1>2, <2>1, RSAKeyFacts, IntegerRead
<1> HIDE DEF n, e
<1>4. d = Decoded(RSAKey(SetBytes(n), Int64(SetBytes(e))))
  BY <1>1, <1>2 DEF publicKey, RSAKey
<1> HIDE DEF d
<1>5. Int64(key.e) = key.e
  <2>1. SetBytes(key.e) = key.e /\ Len(key.e) <= IntBytes
    BY RSAKeyFacts, PaddedToItself, PaddedIsRead DEF FitsInt
  <2> QED
    BY <2>1 DEF Int64
<1>6. SetBytes(n) = key.n /\ SetBytes(e) = key.e => d = Decoded(key)
  BY <1>4, <1>5, RSAKeyFacts
<1>7. Usable(d.key) => SetBytes(n) # <<>> /\ SetBytes(e) # <<>>
  <2>1. d.key = RSAKey(SetBytes(n), Int64(SetBytes(e)))
    BY <1>4 DEF Decoded
  <2> QED
    BY <2>1, EmptyStaysEmpty DEF Usable, RSAKey
<1>8. d.err = NoError
  BY <1>4 DEF Decoded
<1> QED
  BY <1>3, <1>6, <1>7, <1>8 DEF d

(* A key written with all its bytes, or without the leading zeros, is read *)
(* as that key (leftPad, ecUncompressedPoint, publicKey).                  *)
LEMMA ShortFormIsRead ==
  ASSUME NEW key \in ECKeys \union RSAKeys, key.kty = "RSA" => FitsInt(key.e),
         NEW styles \in Styles \X Styles,
         styles[1] \in {"fixed", "stripped"}, styles[2] \in {"fixed", "stripped"}
  PROVE  publicKey(WriteKey(key, styles)) = Decoded(key)
<1>1. ASSUME NEW b \in Bytes, NEW size \in Nat, Len(b) <= size, NEW u \in {"fixed", "stripped"}
      PROVE  Write(u, b, size) # NotBase64 /\ Left(b, u, size) = b
  <2>1. size - Len(b) \in Nat
    BY <1>1, BytesFacts
  <2>2. Zeros(size - Len(b)) \o b \in Bytes
    BY <2>1, ZerosInFront DEF IsPadded
  <2> QED
    BY <2>2, NotBase64Assumption DEF Write, FillBytes, Left
<1>2. CASE key \in ECKeys
  <2>1. PICK crv \in Curves : \E p \in Points[crv] : key = ECKey(crv, p[1], p[2])
    BY <1>2, ECKeyFacts
  <2>2. PICK p \in Points[crv] : key = ECKey(crv, p[1], p[2])
    BY <2>1
  <2> DEFINE size == CoordinateSize[crv]
  <2>3. /\ p[1] \in Bytes /\ Len(p[1]) <= size /\ p[2] \in Bytes /\ Len(p[2]) <= size
        /\ size \in Nat /\ <<p[1], p[2]>> \in Points[crv]
    BY CurveFacts
  <2>4. /\ Write(styles[1], p[1], size) # NotBase64 /\ Left(p[1], styles[1], size) = p[1]
        /\ Write(styles[2], p[2], size) # NotBase64 /\ Left(p[2], styles[2], size) = p[2]
    BY <1>1, <2>3
  <2>5. Readable(key, styles)
    BY <2>2, <2>4 DEF Readable, WriteKey, ECKey
  <2>6. publicKey(WriteKey(key, styles)) = PointAt(crv, p[1], p[2])
    BY <2>2, <2>4, <2>5, ECKeyRead
  <2> QED
    BY <2>2, <2>3, <2>6 DEF PointAt
<1>3. CASE key \in RSAKeys
  <2>1. key.kty = "RSA" /\ key.n \in Bytes /\ key.e \in Bytes
    BY <1>3, RSAKeyFacts
  <2>2. Len(key.n) \in Nat /\ Len(key.e) \in Nat
    BY <2>1, BytesFacts
  <2>3. Len(key.n) <= Len(key.n) /\ Len(key.e) <= Len(key.e)
    BY <2>2
  <2>4. /\ Write(styles[1], key.n, Len(key.n)) # NotBase64
        /\ Write(styles[2], key.e, Len(key.e)) # NotBase64
    BY <1>1, <2>1, <2>2, <2>3
  <2>5. Readable(key, styles)
    BY <2>1, <2>4 DEF Readable, WriteKey, RSAKey
  <2> QED
    BY <1>3, <2>1, <2>5, RSAKeyRead
<1> QED
  BY <1>2, <1>3

-----------------------------------------------------------------------------
(* What a Signer writes.                                                   *)

FillsUp(b, size) == FillBytes(b, size) \in Bytes /\ Len(FillBytes(b, size)) = size

LEMMA FilledUp ==
  ASSUME NEW b \in Bytes, NEW size \in Nat, Len(b) <= size
  PROVE  FillsUp(b, size)
<1>1. size - Len(b) \in Nat /\ (size - Len(b)) + Len(b) = size
  BY BytesFacts
<1> QED
  BY <1>1, ZerosInFront DEF FillsUp, FillBytes, IsPadded

\* The point is put together and taken apart into the same two coordinates.
LEMMA PointIsSliced ==
  ASSUME NEW crv \in Curves, NEW p \in Points[crv]
  PROVE  LET key  == ECKey(crv, p[1], p[2])
             size == CoordinateSize[crv]
         IN  /\ WriteError(key) = NoError
             /\ Params(key) = ECKey(crv, FillBytes(p[1], size), FillBytes(p[2], size))
<1> DEFINE key  == ECKey(crv, p[1], p[2])
           size == CoordinateSize[crv]
           A    == FillBytes(p[1], size)
           B    == FillBytes(p[2], size)
           f    == <<4>>
           AB   == A \o B
           raw  == f \o AB
<1>1. size \in Nat /\ size > 0
  BY CurveFacts
<1>2. A \in Bytes /\ Len(A) = size /\ B \in Bytes /\ Len(B) = size
  BY <1>1, CurveFacts, FilledUp DEF FillsUp
<1>3. PointBytes(key) = raw
  BY DEF PointBytes, ECKey
<1> HIDE DEF A, B
<1>4. /\ AB \in Bytes /\ Len(AB) = size + size
      /\ \A i \in 1..(size + size) : AB[i] = IF i <= size THEN A[i] ELSE B[i - size]
  <2>1. /\ AB \in Bytes /\ Len(AB) = Len(A) + Len(B)
        /\ \A i \in 1..(Len(A) + Len(B)) :
             AB[i] = IF i <= Len(A) THEN A[i] ELSE B[i - Len(A)]
    BY <1>2, ConcatProperties DEF Bytes
  <2> QED
    BY <1>2, <2>1
<1> HIDE DEF AB
<1>5. f \in Seq(Int) /\ Len(f) = 1 /\ f[1] = 4
  OBVIOUS
<1> HIDE DEF f
<1>6. /\ Len(raw) = 1 + (size + size)
      /\ \A i \in 1..(1 + (size + size)) : raw[i] = IF i <= 1 THEN f[i] ELSE AB[i - 1]
  <2>1. AB \in Seq(Int)
    <3>1. 0..(Base - 1) \subseteq Int
      OBVIOUS
    <3> QED
      BY <1>4, <3>1, SeqMonotonic DEF Bytes
  <2>2. /\ Len(raw) = Len(f) + Len(AB)
        /\ \A i \in 1..(Len(f) + Len(AB)) :
             raw[i] = IF i <= Len(f) THEN f[i] ELSE AB[i - Len(f)]
    BY <1>5, <2>1, ConcatProperties
  <2> QED
    BY <1>4, <1>5, <2>2
<1> HIDE DEF raw, size
<1>7. raw[1] = 4 /\ Len(raw) = 1 + 2 * size
  BY <1>1, <1>5, <1>6
<1>8. ASSUME NEW i \in 1..size PROVE raw[1 + i] = A[i] /\ raw[(1 + size) + i] = B[i]
  <2>1. /\ 1 + i \in 1..(1 + (size + size)) /\ ~ (1 + i <= 1) /\ (1 + i) - 1 = i
        /\ i \in 1..(size + size) /\ i <= size
    BY <1>1
  <2>2. /\ (1 + size) + i \in 1..(1 + (size + size)) /\ ~ ((1 + size) + i <= 1)
        /\ ((1 + size) + i) - 1 = size + i /\ size + i \in 1..(size + size)
        /\ ~ (size + i <= size) /\ (size + i) - size = i
    BY <1>1
  <2>3. raw[1 + i] = A[i]
    BY <1>4, <1>6, <2>1
  <2>4. raw[(1 + size) + i] = AB[size + i]
    BY <1>6, <2>2
  <2>5. AB[size + i] = B[i]
    BY <1>4, <2>2
  <2> QED
    BY <2>3, <2>4, <2>5
<1>9. SubSeq(raw, 2, 1 + size) = A
  <2> DEFINE m == 1
  <2>1. m \in Nat /\ \A i \in 1..Len(A) : raw[m + i] = A[i]
    BY <1>2, <1>8
  <2> HIDE DEF m
  <2>2. SubSeq(raw, m + 1, m + Len(A)) = A
    BY <1>2, <2>1, Window
  <2> QED
    BY <1>2, <2>2 DEF m
<1>10. SubSeq(raw, 2 + size, 1 + 2 * size) = B
  <2> DEFINE m == 1 + size
  <2>1. m \in Nat /\ \A i \in 1..Len(B) : raw[m + i] = B[i]
    BY <1>1, <1>2, <1>8
  <2> HIDE DEF m
  <2>2. SubSeq(raw, m + 1, m + Len(B)) = B
    BY <1>2, <2>1, Window
  <2>3. m + 1 = 2 + size /\ m + Len(B) = 1 + 2 * size
    BY <1>1, <1>2 DEF m
  <2> QED
    BY <2>2, <2>3
<1>11. Coordinates(raw, size) = [x |-> A, y |-> B]
  BY <1>9, <1>10 DEF Coordinates
<1>12. key.kty = "EC" /\ key.crv = crv /\ <<key.x, key.y>> \in Points[crv]
  BY CurveFacts DEF ECKey
<1> HIDE DEF key
<1>13. WriteError(key) = NoError
  BY <1>3, <1>7, <1>12 DEF WriteError, When, size
<1>14. Params(key) = ECKey(crv, A, B)
  BY <1>3, <1>11, <1>12 DEF Params, size
<1> QED
  BY <1>13, <1>14 DEF key, A, B, size

\* A Signer's key is written in full, and read back.
LEMMA OwnKeyRoundTrip ==
  ASSUME NEW key \in SignerKeys
  PROVE  publicKey(Params(key)) = Decoded(key)
<1>1. key \in ECKeys \union RSAKeys /\ (key.kty = "RSA" => FitsInt(key.e))
  BY ECKeyFacts DEF SignerKeys, ECKey
<1>2. CASE key \in ECKeys
  <2> DEFINE styles == <<"fixed", "fixed">>
  <2>1. PICK crv \in Curves : \E p \in Points[crv] : key = ECKey(crv, p[1], p[2])
    BY <1>2, ECKeyFacts
  <2>2. PICK p \in Points[crv] : key = ECKey(crv, p[1], p[2])
    BY <2>1
  <2>3. Params(key) = ECKey(crv, FillBytes(p[1], CoordinateSize[crv]),
                                 FillBytes(p[2], CoordinateSize[crv]))
    BY <2>2, PointIsSliced
  <2>4. WriteKey(key, styles) = Params(key)
    BY <2>2, <2>3 DEF WriteKey, Write, ECKey
  <2>5. /\ styles \in Styles \X Styles
        /\ styles[1] \in {"fixed", "stripped"} /\ styles[2] \in {"fixed", "stripped"}
    BY DEF Styles
  <2> HIDE DEF styles
  <2> QED
    BY <1>1, <2>4, <2>5, ShortFormIsRead
<1>3. CASE key \in RSAKeys
  <2> DEFINE styles == <<"stripped", "stripped">>
  <2>1. WriteKey(key, styles) = Params(key)
    BY <1>3, RSAKeyFacts DEF WriteKey, Write, Params
  <2>2. /\ styles \in Styles \X Styles
        /\ styles[1] \in {"fixed", "stripped"} /\ styles[2] \in {"fixed", "stripped"}
    BY DEF Styles
  <2> HIDE DEF styles
  <2> QED
    BY <1>1, <2>1, <2>2, ShortFormIsRead
<1> QED
  BY <1>1, <1>2, <1>3

\* RFC 7638: what is hashed tells the parameters, and they tell the key.
LEMMA ThumbprintInjective ==
  ASSUME NEW k \in SignerKeys, NEW l \in SignerKeys
  PROVE  Thumbprint(Params(k)) = Thumbprint(Params(l)) <=> k = l
<1>1. SUFFICES ASSUME Thumbprint(Params(k)) = Thumbprint(Params(l)) PROVE k = l
  OBVIOUS
<1>2. ASSUME NEW a \in ECKeys
      PROVE  /\ Params(a) = ECKey(Params(a).crv, Params(a).x, Params(a).y)
             /\ Thumbprint(Params(a)).print
                  = <<"EC", Params(a).crv, Params(a).x, Params(a).y>>
  <2>1. PICK crv \in Curves : \E p \in Points[crv] : a = ECKey(crv, p[1], p[2])
    BY ECKeyFacts
  <2>2. PICK p \in Points[crv] : a = ECKey(crv, p[1], p[2])
    BY <2>1
  <2>3. Params(a) = ECKey(crv, FillBytes(p[1], CoordinateSize[crv]),
                               FillBytes(p[2], CoordinateSize[crv]))
    BY <2>2, PointIsSliced
  <2> QED
    BY <2>3 DEF ECKey, Thumbprint
<1>3. ASSUME NEW b \in RSAKeys
      PROVE  Params(b) = b /\ Thumbprint(Params(b)).print = <<"RSA", b.e, b.n>>
  <2>1. Params(b) = b
    BY RSAKeyFacts DEF Params
  <2> QED
    BY <2>1, RSAKeyFacts DEF Thumbprint
<1>4. Params(k) = Params(l)
  <2>1. CASE k \in ECKeys /\ l \in ECKeys
    <3> DEFINE p == Params(k)
               q == Params(l)
    <3>1. /\ p = ECKey(p.crv, p.x, p.y)
          /\ q = ECKey(q.crv, q.x, q.y)
          /\ <<"EC", p.crv, p.x, p.y>> = <<"EC", q.crv, q.x, q.y>>
      BY <1>1, <1>2, <2>1
    <3> HIDE DEF p, q
    <3>2. p.crv = q.crv /\ p.x = q.x /\ p.y = q.y
      BY <3>1
    <3> QED
      BY <3>1, <3>2 DEF p, q
  <2>2. CASE k \in RSAKeys /\ l \in RSAKeys
    <3>1. <<"RSA", k.e, k.n>> = <<"RSA", l.e, l.n>>
      BY <1>1, <1>3, <2>2
    <3> QED
      BY <2>2, <3>1, RSAKeyFacts
  <2>3. ASSUME NEW a \in ECKeys, NEW b \in RSAKeys
        PROVE  Thumbprint(Params(a)) # Thumbprint(Params(b))
    BY <1>2, <1>3
  <2> QED
    BY <1>1, <2>1, <2>2, <2>3 DEF SignerKeys
<1>5. Decoded(k) = Decoded(l)
  BY <1>4, OwnKeyRoundTrip
<1> QED
  BY <1>5 DEF Decoded

-----------------------------------------------------------------------------
(* The inductive invariant: a publication is what its publisher made of    *)
(* its key, and what was decoded is what is published.                     *)

OwnPublication(j) ==
  /\ j.key \in SignerKeys
  /\ \E kid \in {NoKid} \union {[given |-> g] : g \in GivenKids} :
       j.jwk = publicJWK(j.key, kid) /\ (j.given <=> kid # NoKid)

OtherPublication(j) ==
  /\ j.key \in ECKeys \union RSAKeys
  /\ j.styles \in Styles \X Styles
  /\ j.jwk.params = WriteKey(j.key, j.styles)

PublishedInv ==
  /\ jwk.by \in {"nobody", "signer", "other", "unknown"}
  /\ jwk.by = "signer" => OwnPublication(jwk)
  /\ jwk.by = "other" => OtherPublication(jwk)
  /\ jwk.by = "unknown" => jwk.jwk.params \in OtherParams
  /\ jwk.by = "nobody" => jwk = Nothing
  /\ earlier # Nothing => OwnPublication(earlier)

DecodedInv ==
  decoded # Nothing => jwk # Nothing /\ decoded = publicKey(jwk.jwk.params)

IInv == PublishedInv /\ DecodedInv

LEMMA InitIInv == Init => IInv
BY DEF Init, IInv, PublishedInv, DecodedInv, Nothing

LEMMA NextIInv == IInv /\ [Next]_vars => IInv'
<1> SUFFICES ASSUME IInv, [Next]_vars PROVE IInv'
  OBVIOUS
<1> USE DEF IInv
<1>1. CASE Publish
  <2>1. PICK key \in SignerKeys, kid \in {NoKid} \union {[given |-> g] : g \in GivenKids} :
          jwk' = [by |-> "signer", key |-> key, jwk |-> publicJWK(key, kid),
                  given |-> kid # NoKid]
    BY <1>1 DEF Publish
  <2>2. OwnPublication(jwk')
    BY <2>1 DEF OwnPublication
  <2>3. jwk'.by = "signer"
    BY <2>1
  <2>4. earlier' # Nothing => OwnPublication(earlier')
    BY <1>1 DEF Publish, PublishedInv, OwnPublication
  <2>5. PublishedInv'
    <3>1. jwk'.by \notin {"other", "unknown", "nobody"}
      BY <2>3
    <3> QED
      BY <2>2, <2>3, <2>4, <3>1 DEF PublishedInv, OwnPublication, OtherPublication, Nothing
  <2>6. decoded' = Nothing
    BY <1>1 DEF Publish
  <2> QED
    BY <2>5, <2>6 DEF DecodedInv, Nothing
<1>2. CASE PublishElsewhere
  <2>1. PICK key \in ECKeys \union RSAKeys, styles \in Styles \X Styles :
          jwk' = [by |-> "other", key |-> key, styles |-> styles,
                  jwk |-> [params |-> WriteKey(key, styles), kid |-> NoKid]]
    BY <1>2 DEF PublishElsewhere
  <2>2. OtherPublication(jwk') /\ jwk'.by = "other"
    BY <2>1 DEF OtherPublication
  <2>3. decoded' = Nothing /\ earlier' = earlier
    BY <1>2 DEF PublishElsewhere
  <2> QED
    BY <2>2, <2>3 DEF PublishedInv, DecodedInv, OwnPublication, OtherPublication, Nothing
<1>3. CASE PublishUnknown
  BY <1>3 DEF PublishUnknown, PublishedInv, DecodedInv, OwnPublication, Nothing
<1>4. CASE Decode
  BY <1>4 DEF Decode, PublishedInv, DecodedInv, OwnPublication, OtherPublication
<1>5. CASE UNCHANGED vars
  BY <1>5 DEF vars, PublishedInv, DecodedInv, OwnPublication, OtherPublication
<1> QED
  BY <1>1, <1>2, <1>3, <1>4, <1>5 DEF Next

THEOREM Inductive == Spec => []IInv
BY InitIInv, NextIInv, PTL DEF Spec

\* What is published is what was written of the key.
LEMMA OwnParams ==
  ASSUME NEW j, OwnPublication(j)
  PROVE  j.key \in SignerKeys /\ j.jwk.params = Params(j.key)
<1>1. PICK kid : j.jwk = publicJWK(j.key, kid)
  BY DEF OwnPublication
<1>2. publicJWK(j.key, kid).params = Params(j.key)
  BY DEF publicJWK
<1> QED
  BY <1>1, <1>2 DEF OwnPublication

-----------------------------------------------------------------------------
(* For every curve, key and byte size, a Signer writes both coordinates in *)
(* full, and a Verifier that reads its JWK gets the Signer's own public    *)
(* key (publicJWK, publicKey).                                             *)
THEOREM OwnKeyIsReadBack == Spec => []OwnKeyComesBack
<1>1. ASSUME IInv, jwk.by = "signer", jwk.key.kty = "EC"
      PROVE  /\ Len(jwk.jwk.params.x) = CoordinateSize[jwk.key.crv]
             /\ Len(jwk.jwk.params.y) = CoordinateSize[jwk.key.crv]
  <2>1. jwk.key \in SignerKeys /\ jwk.jwk.params = Params(jwk.key)
    BY <1>1, OwnParams DEF IInv, PublishedInv
  <2>2. jwk.key \in ECKeys
    BY <1>1, <2>1, RSAKeyFacts DEF SignerKeys
  <2>3. PICK crv \in Curves : \E p \in Points[crv] : jwk.key = ECKey(crv, p[1], p[2])
    BY <2>2, ECKeyFacts
  <2>4. PICK p \in Points[crv] : jwk.key = ECKey(crv, p[1], p[2])
    BY <2>3
  <2>5. Params(jwk.key) = ECKey(crv, FillBytes(p[1], CoordinateSize[crv]),
                                     FillBytes(p[2], CoordinateSize[crv]))
    BY <2>4, PointIsSliced
  <2>6. FillsUp(p[1], CoordinateSize[crv]) /\ FillsUp(p[2], CoordinateSize[crv])
    BY CurveFacts, FilledUp
  <2> QED
    BY <2>1, <2>4, <2>5, <2>6 DEF FillsUp, ECKey
<1>2. ASSUME IInv, jwk.by = "signer", decoded # Nothing
      PROVE  decoded = Decoded(jwk.key)
  <2>1. jwk.key \in SignerKeys /\ jwk.jwk.params = Params(jwk.key)
    BY <1>2, OwnParams DEF IInv, PublishedInv
  <2> QED
    BY <1>2, <2>1, OwnKeyRoundTrip DEF IInv, DecodedInv
<1>3. IInv => OwnKeyComesBack
  BY <1>1, <1>2 DEF OwnKeyComesBack, Read
<1> QED
  BY <1>3, Inductive, PTL

(* For every curve and key, leading zeros may be left out or not: a key of *)
(* another library is read as that key (leftPad, ecUncompressedPoint).     *)
THEOREM LeadingZerosDoNotMatter == Spec => []ShortFormsAreRead
<1>1. ASSUME IInv PROVE ShortFormsAreRead
  <2> SUFFICES ASSUME decoded # Nothing, jwk.by = "other",
                      \A i \in {1, 2} : jwk.styles[i] \in {"fixed", "stripped"},
                      jwk.key.kty = "RSA" => FitsInt(jwk.key.e)
               PROVE  decoded = Decoded(jwk.key)
    BY DEF ShortFormsAreRead, Read
  <2>1. /\ jwk.key \in ECKeys \union RSAKeys /\ jwk.styles \in Styles \X Styles
        /\ decoded = publicKey(WriteKey(jwk.key, jwk.styles))
    BY <1>1 DEF IInv, PublishedInv, OtherPublication, DecodedInv
  <2> QED
    BY <2>1, ShortFormIsRead
<1> QED
  BY <1>1, Inductive, PTL

LEMMA UnknownRefused ==
  ASSUME NEW p \in OtherParams
  PROVE  publicKey(p) = Failed("ErrInvalidKey")
BY OtherParamsAssumption DEF publicKey

(* For every curve, every key and every way the other library wrote it,    *)
(* publicKey never makes another usable key of a key, but for a coordinate *)
(* that is missing or a byte too long, of which the theorem says what it   *)
(* is taken for; and it makes no key of a type or curve it does not know.  *)
THEOREM KeysAreNotConfused == Spec => []NeverAnotherKey
<1>1. ASSUME IInv, Good PROVE jwk.by # "unknown"
  <2> SUFFICES ASSUME jwk.by = "unknown" PROVE FALSE
    OBVIOUS
  <2>1. decoded = Failed("ErrInvalidKey")
    BY <1>1, UnknownRefused DEF IInv, PublishedInv, DecodedInv, Good, Read
  <2> QED
    BY <1>1, <2>1 DEF Good, Failed, NoError
<1>2. ASSUME IInv, Good, jwk.by = "other"
      PROVE  /\ jwk.key \in ECKeys \union RSAKeys /\ jwk.styles \in Styles \X Styles
             /\ decoded = publicKey(WriteKey(jwk.key, jwk.styles))
             /\ decoded.err = NoError /\ Readable(jwk.key, jwk.styles)
  <2>1. /\ jwk.key \in ECKeys \union RSAKeys /\ jwk.styles \in Styles \X Styles
        /\ decoded = publicKey(WriteKey(jwk.key, jwk.styles))
        /\ decoded.err = NoError
    BY <1>2 DEF IInv, PublishedInv, OtherPublication, DecodedInv, Good, Read
  <2>2. Failed("ErrInvalidKey").err # NoError
    BY DEF Failed, NoError
  <2> QED
    BY <2>1, <2>2, UnreadableIsRefused
<1>3. ASSUME IInv, Good, jwk.by = "other", jwk.key.kty = "RSA",
             Usable(decoded.key), FitsInt(jwk.key.e)
      PROVE  decoded.key = jwk.key
  <2>1. jwk.key \in RSAKeys
    BY <1>2, <1>3, ECKeyFacts DEF ECKey
  <2>2. decoded = Decoded(jwk.key)
    BY <1>2, <1>3, <2>1, RSAKeyRead
  <2> QED
    BY <2>2 DEF Decoded
<1>4. ASSUME IInv, Good, jwk.by = "other", jwk.key.kty = "EC"
      PROVE  LET size == CoordinateSize[jwk.key.crv]
             IN  /\ decoded.key = ECKey(jwk.key.crv, Left(jwk.key.x, jwk.styles[1], size),
                                                     Left(jwk.key.y, jwk.styles[2], size))
                 /\ decoded.key \in ECKeys
  <2>1. jwk.key \in ECKeys
    BY <1>2, <1>4, RSAKeyFacts
  <2>2. PICK crv \in Curves : \E p \in Points[crv] : jwk.key = ECKey(crv, p[1], p[2])
    BY <2>1, ECKeyFacts
  <2>3. PICK p \in Points[crv] : jwk.key = ECKey(crv, p[1], p[2])
    BY <2>2
  <2>4. jwk.key.crv = crv /\ jwk.key.x = p[1] /\ jwk.key.y = p[2]
    BY <2>3 DEF ECKey
  <2> DEFINE x == Left(p[1], jwk.styles[1], CoordinateSize[crv])
             y == Left(p[2], jwk.styles[2], CoordinateSize[crv])
  <2>5. decoded = PointAt(crv, x, y)
    BY <1>2, <1>4, <2>3, ECKeyRead
  <2>6. decoded.err = NoError
    BY <1>2, <1>4
  <2> HIDE DEF x, y
  <2>7. <<x, y>> \in Points[crv] /\ decoded = Decoded(ECKey(crv, x, y))
    BY <2>5, <2>6 DEF PointAt, Failed, NoError
  <2>8. decoded.key = ECKey(crv, x, y)
    BY <2>7 DEF Decoded
  <2>9. ECKey(crv, x, y) \in ECKeys
    <3> DEFINE q == <<x, y>>
    <3>1. q \in Points[crv] /\ ECKey(crv, q[1], q[2]) = ECKey(crv, x, y)
      BY <2>7
    <3> HIDE DEF q
    <3> QED
      BY <3>1 DEF ECKeys
  <2> QED
    BY <2>4, <2>8, <2>9 DEF x, y
<1>5. IInv => NeverAnotherKey
  BY <1>1, <1>3, <1>4 DEF NeverAnotherKey
<1> QED
  BY <1>5, Inductive, PTL

(* For all keys, a Signer's thumbprint kid changes exactly when its key    *)
(* does (publicJWK, rsaThumbprint, ecThumbprint).                          *)
THEOREM ThumbprintIsTheKeys == Spec => []ThumbprintNamesTheKey
<1>1. ASSUME NEW j, OwnPublication(j), ~ j.given
      PROVE  j.jwk.kid = Thumbprint(Params(j.key))
  <2>1. j.jwk = publicJWK(j.key, NoKid)
    BY <1>1 DEF OwnPublication
  <2> QED
    BY <2>1 DEF publicJWK
<1>2. ASSUME IInv PROVE ThumbprintNamesTheKey
  BY <1>1, <1>2, ThumbprintInjective
     DEF IInv, PublishedInv, OwnPublication, ThumbprintNamesTheKey
<1> QED
  BY <1>2, Inductive, PTL
=============================================================================
