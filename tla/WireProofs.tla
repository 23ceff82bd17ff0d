------------------------------ MODULE WireProofs ------------------------------
(***************************************************************************)
(* Proofs about Packets and Wire.                                           *)
(***************************************************************************)
EXTENDS Wire, PacketProofs

-----------------------------------------------------------------------------
(* Bytes at a place of a packet.                                            *)

\* A sequence of n bytes.
AreBytes(b, n) == b \in Seq(Byte) /\ Len(b) = n

\* d has the bytes b behind its first p ones.
Has(d, p, b) == p + Len(b) <= Len(d) /\ \A k \in 1 .. Len(b) : d[p + k] = b[k]

\* Lengths of parts put together add up.
LEMMA Glued ==
  ASSUME NEW n \in Nat, NEW m \in Nat, NEW a, AreBytes(a, n), NEW b, AreBytes(b, m)
  PROVE  AreBytes(a \o b, n + m)
BY Joined DEF AreBytes, Joins

\* Bytes that hold two parts one behind the other hold each.
LEMMA HasBoth ==
  ASSUME NEW d \in Seq(Byte), NEW p \in Nat, NEW n \in Nat, NEW m \in Nat,
         NEW a, AreBytes(a, n), NEW b, AreBytes(b, m), Has(d, p, a \o b)
  PROVE  Has(d, p, a) /\ Has(d, p + n, b)
<1> DEFINE c == a \o b
<1>1. /\ Len(c) = n + m
      /\ \A k \in 1 .. n : c[k] = a[k]
      /\ \A k \in 1 .. m : c[n + k] = b[k]
  <2>1. a \in Seq(Byte) /\ b \in Seq(Byte) /\ Len(a) = n /\ Len(b) = m
    BY DEF AreBytes
  <2>2. Joins(c, a, b)
    BY <2>1, Joined
  <2> HIDE DEF c
  <2> QED
    BY <2>1, <2>2 DEF Joins
<1>2. p + Len(c) <= Len(d) /\ \A k \in 1 .. Len(c) : d[p + k] = c[k]
  BY DEF Has
<1> HIDE DEF c
<1>3. Len(d) \in Nat /\ Len(a) = n /\ Len(b) = m
  BY DEF AreBytes
<1>4. Has(d, p, a)
  BY <1>1, <1>2, <1>3 DEF Has
<1>5. ASSUME NEW k \in 1 .. m PROVE d[(p + n) + k] = b[k]
  <2>1. n + k \in 1 .. Len(c) /\ p + (n + k) = (p + n) + k
    BY <1>1
  <2> QED
    BY <1>1, <1>2, <2>1
<1>6. Has(d, p + n, b)
  BY <1>1, <1>2, <1>3, <1>5 DEF Has
<1> QED
  BY <1>4, <1>6

\* A packet stands at the start of the frame it is in.
LEMMA HasFront ==
  ASSUME NEW p \in Seq(Byte), NEW tail \in Seq(Byte)
  PROVE  p \o tail \in Seq(Byte) /\ Has(p \o tail, 0, p)
<1> DEFINE w == p \o tail
<1>1. w \in Seq(Byte) /\ Joins(w, p, tail)
  BY Joined
<1> HIDE DEF w
<1>2. Len(p) \in Nat /\ Len(tail) \in Nat
  OBVIOUS
<1>3. Has(w, 0, p)
  BY <1>1, <1>2 DEF Joins, Has
<1> QED
  BY <1>1, <1>3 DEF w

LEMMA HasItself ==
  ASSUME NEW p \in Seq(Byte)
  PROVE  Has(p, 0, p)
BY DEF Has

\* Part of a packet from an offset, counted from 0.
LEMMA SliceIs ==
  ASSUME NEW d \in Seq(Byte), NEW p \in Nat, NEW n \in Nat, p + n <= Len(d)
  PROVE  /\ AreBytes(Slice(d, p, n), n)
         /\ \A k \in 1 .. n : Slice(d, p, n)[k] = d[p + k]
<1>1. Len(d) \in Nat
  OBVIOUS
<1>2. Slice(d, p, n) = [k \in 1 .. ((p + n) - (p + 1) + 1) |-> d[(p + 1) + k - 1]]
  BY SMT DEF Slice
<1>3. (p + n) - (p + 1) + 1 = n /\ \A k \in 1 .. n : (p + 1) + k - 1 = p + k
  OBVIOUS
<1>4. Slice(d, p, n) = [k \in 1 .. n |-> d[p + k]]
  BY <1>2, <1>3
<1>5. \A k \in 1 .. n : d[p + k] \in Byte
  BY <1>1
<1>6. Slice(d, p, n) \in [1 .. n -> Byte]
  BY <1>4, <1>5
<1> QED
  BY <1>4, <1>6, SeqDef, LenProperties DEF AreBytes

LEMMA SameBytesAreOne ==
  ASSUME NEW n \in Nat, NEW a, AreBytes(a, n), NEW b, AreBytes(b, n),
         \A k \in 1 .. n : a[k] = b[k]
  PROVE  a = b
BY SeqEqual DEF AreBytes

\* The bytes held at a place are the slice there.
LEMMA SliceHas ==
  ASSUME NEW d \in Seq(Byte), NEW p \in Nat, NEW n \in Nat, NEW b, AreBytes(b, n), Has(d, p, b)
  PROVE  Slice(d, p, n) = b
<1>1. p + n <= Len(d) /\ \A k \in 1 .. n : d[p + k] = b[k]
  BY DEF Has, AreBytes
<1>2. AreBytes(Slice(d, p, n), n) /\ \A k \in 1 .. n : Slice(d, p, n)[k] = d[p + k]
  BY <1>1, SliceIs
<1> HIDE DEF AreBytes
<1> QED
  BY <1>1, <1>2, SameBytesAreOne

\* What the writer makes of a number.
LEMMA IntIsBytes ==
  ASSUME NEW n \in Int
  PROVE  AreBytes(PutInt(n), 4)
BY IntBytes DEF AreBytes

LEMMA ShortIsBytes ==
  ASSUME NEW n \in Int
  PROVE  AreBytes(PutShort(n), 2)
BY ShortBytes DEF AreBytes

\* An integer is read where it was written.
LEMMA IntAtHas ==
  ASSUME NEW d \in Seq(Byte), NEW p \in Nat, NEW n, IsInt32(n), Has(d, p, PutInt(n))
  PROVE  IntAt(d, p) = n
<1>1. n \in Int
  BY DEF IsInt32
<1>2. \A k \in 1 .. 4 : d[p + k] = PutInt(n)[k]
  BY <1>1, IntBytes DEF Has
<1> QED
  BY <1>2, IntRead DEF IntAt

LEMMA OneByte ==
  ASSUME NEW b \in Byte
  PROVE  AreBytes(<<b>>, 1)
BY DEF AreBytes

\* d has the byte b behind its first p ones.
HasByte(d, p, b) == p + 1 <= Len(d) /\ d[p + 1] = b

LEMMA ByteHas ==
  ASSUME NEW d \in Seq(Byte), NEW p \in Nat, NEW b, Has(d, p, <<b>>)
  PROVE  HasByte(d, p, b)
BY DEF Has, HasByte

LEMMA HasOne ==
  ASSUME NEW d, NEW p \in Nat, NEW b, p + 1 <= Len(d), d[p + 1] = b
  PROVE  Has(d, p, <<b>>)
BY DEF Has

\* What follows the first byte of a packet.
LEMMA BodyOf ==
  ASSUME NEW w \in Seq(Byte), NEW b, HasByte(w, 0, b)
  PROVE  /\ SubSeq(w, 2, Len(w)) \in Seq(Byte)
         /\ \A p \in Nat \ {0}, c \in Seq(Byte) : Has(w, p, c) => Has(SubSeq(w, 2, Len(w)), p - 1, c)
         /\ \A p \in Nat \ {0}, c \in Byte : HasByte(w, p, c) => HasByte(SubSeq(w, 2, Len(w)), p - 1, c)
<1> DEFINE n == Len(w) - 1
           body == SubSeq(w, 2, Len(w))
<1>1. Len(w) \in Nat /\ 1 <= Len(w)
  BY DEF HasByte
<1>2. n \in Nat /\ 1 + n = Len(w)
  BY <1>1
<1>3. body = Slice(w, 1, n)
  BY <1>2 DEF Slice
<1> HIDE DEF n, body
<1>4. AreBytes(body, n) /\ \A k \in 1 .. n : body[k] = w[1 + k]
  BY <1>2, <1>3, SliceIs
<1>5. ASSUME NEW q \in Nat \ {0}, NEW c \in Seq(Byte), Has(w, q, c)
      PROVE  Has(body, q - 1, c)
  <2> DEFINE p == q - 1
  <2>1. p \in Nat /\ q = p + 1
    OBVIOUS
  <2> HIDE DEF p
  <2>2. Len(c) \in Nat /\ p + Len(c) <= n
    BY <1>1, <1>2, <1>5, <2>1 DEF Has
  <2>3. ASSUME NEW k \in 1 .. Len(c) PROVE body[p + k] = c[k]
    <3>1. p + k \in 1 .. n /\ 1 + (p + k) = q + k
      BY <1>2, <2>1, <2>2
    <3>2. body[p + k] = w[1 + (p + k)]
      BY <1>4, <3>1
    <3>3. w[q + k] = c[k]
      BY <1>5 DEF Has
    <3> QED
      BY <3>1, <3>2, <3>3
  <2>4. Has(body, p, c)
    BY <1>4, <2>2, <2>3 DEF Has, AreBytes
  <2> QED
    BY <2>4 DEF p
<1>6. ASSUME NEW q \in Nat \ {0}, NEW c \in Byte, HasByte(w, q, c)
      PROVE  HasByte(body, q - 1, c)
  <2>1. q \in 1 .. n /\ (q - 1) + 1 = q /\ 1 + q = q + 1
    BY <1>1, <1>2, <1>6 DEF HasByte
  <2>2. w[q + 1] = c /\ body[q] = w[1 + q] /\ Len(body) = n
    BY <1>4, <1>6, <2>1 DEF HasByte, AreBytes
  <2> QED
    BY <2>1, <2>2 DEF HasByte
<1> QED
  BY <1>4, <1>5, <1>6 DEF body, AreBytes

-----------------------------------------------------------------------------
(* A value behind others.                                                   *)

LEMMA Appended ==
  ASSUME NEW U, NEW s \in Seq(U), NEW x \in U, NEW t \in Seq(U), Len(t) = Len(s) + 1,
         \A i \in 1 .. Len(s) : t[i] = s[i], t[Len(s) + 1] = x
  PROVE  Append(s, x) = t
<1> DEFINE u == Append(s, x)
<1>1. u \in Seq(U) /\ Len(u) = Len(s) + 1 /\ u[Len(s) + 1] = x /\ \A i \in 1 .. Len(s) : u[i] = s[i]
  OBVIOUS
<1> HIDE DEF u
<1>2. \A i \in 1 .. Len(t) : i \in 1 .. Len(s) \/ i = Len(s) + 1
  OBVIOUS
<1>3. \A i \in 1 .. Len(t) : u[i] = t[i]
  BY <1>1, <1>2
<1>4. u = [i \in 1 .. Len(u) |-> u[i]] /\ t = [i \in 1 .. Len(t) |-> t[i]]
  BY <1>1
<1>5. u = t
  BY <1>1, <1>3, <1>4
<1> QED
  BY <1>5 DEF u

\* A reader's values, and the one it read next.
With(g, v) == Append(g, v)

LEMMA Append0 ==
  ASSUME NEW x
  PROVE  With(<<>>, x) = <<x>>
BY DEF With

LEMMA Append1 ==
  ASSUME NEW x1, NEW x
  PROVE  With(<<x1>>, x) = <<x1, x>>
<1> DEFINE s == <<x1>>
           t == <<x1, x>>
           U == {x1, x}
<1>1. s \in Seq(U) /\ Len(s) = 1 /\ t \in Seq(U) /\ Len(t) = 2 /\ x \in U
  OBVIOUS
<1>2. t[1] = s[1] /\ t[2] = x
  OBVIOUS
<1> HIDE DEF s, t, U
<1>3. \A i \in 1 .. Len(s) : t[i] = s[i]
  BY <1>1, <1>2
<1>4. Len(t) = Len(s) + 1 /\ t[Len(s) + 1] = x
  BY <1>1, <1>2
<1>5. Append(s, x) = t
  BY <1>1, <1>3, <1>4, Appended
<1> QED
  BY <1>5 DEF s, t, With

LEMMA Append2 ==
  ASSUME NEW x1, NEW x2, NEW x
  PROVE  With(<<x1, x2>>, x) = <<x1, x2, x>>
<1> DEFINE s == <<x1, x2>>
           t == <<x1, x2, x>>
           U == {x1, x2, x}
<1>1. s \in Seq(U) /\ Len(s) = 2 /\ t \in Seq(U) /\ Len(t) = 3 /\ x \in U
  OBVIOUS
<1>2. t[1] = s[1] /\ t[2] = s[2] /\ t[3] = x
  OBVIOUS
<1> HIDE DEF s, t, U
<1>3. \A i \in 1 .. Len(s) : t[i] = s[i]
  BY <1>1, <1>2
<1>4. Len(t) = Len(s) + 1 /\ t[Len(s) + 1] = x
  BY <1>1, <1>2
<1>5. Append(s, x) = t
  BY <1>1, <1>3, <1>4, Appended
<1> QED
  BY <1>5 DEF s, t, With

LEMMA Append3 ==
  ASSUME NEW x1, NEW x2, NEW x3, NEW x
  PROVE  With(<<x1, x2, x3>>, x) = <<x1, x2, x3, x>>
<1> DEFINE s == <<x1, x2, x3>>
           t == <<x1, x2, x3, x>>
           U == {x1, x2, x3, x}
<1>1. s \in Seq(U) /\ Len(s) = 3 /\ t \in Seq(U) /\ Len(t) = 4 /\ x \in U
  OBVIOUS
<1>2. t[1] = s[1] /\ t[2] = s[2] /\ t[3] = s[3] /\ t[4] = x
  OBVIOUS
<1> HIDE DEF s, t, U
<1>3. \A i \in 1 .. Len(s) : t[i] = s[i]
  BY <1>1, <1>2
<1>4. Len(t) = Len(s) + 1 /\ t[Len(s) + 1] = x
  BY <1>1, <1>2
<1>5. Append(s, x) = t
  BY <1>1, <1>3, <1>4, Appended
<1> QED
  BY <1>5 DEF s, t, With

LEMMA Append4 ==
  ASSUME NEW x1, NEW x2, NEW x3, NEW x4, NEW x
  PROVE  With(<<x1, x2, x3, x4>>, x) = <<x1, x2, x3, x4, x>>
<1> DEFINE s == <<x1, x2, x3, x4>>
           t == <<x1, x2, x3, x4, x>>
           U == {x1, x2, x3, x4, x}
<1>1. s \in Seq(U) /\ Len(s) = 4 /\ t \in Seq(U) /\ Len(t) = 5 /\ x \in U
  OBVIOUS
<1>2. t[1] = s[1] /\ t[2] = s[2] /\ t[3] = s[3] /\ t[4] = s[4] /\ t[5] = x
  OBVIOUS
<1> HIDE DEF s, t, U
<1>3. \A i \in 1 .. Len(s) : t[i] = s[i]
  BY <1>1, <1>2
<1>4. Len(t) = Len(s) + 1 /\ t[Len(s) + 1] = x
  BY <1>1, <1>2
<1>5. Append(s, x) = t
  BY <1>1, <1>3, <1>4, Appended
<1> QED
  BY <1>5 DEF s, t, With

LEMMA Append5 ==
  ASSUME NEW x1, NEW x2, NEW x3, NEW x4, NEW x5, NEW x
  PROVE  With(<<x1, x2, x3, x4, x5>>, x) = <<x1, x2, x3, x4, x5, x>>
<1> DEFINE s == <<x1, x2, x3, x4, x5>>
           t == <<x1, x2, x3, x4, x5, x>>
           U == {x1, x2, x3, x4, x5, x}
<1>1. s \in Seq(U) /\ Len(s) = 5 /\ t \in Seq(U) /\ Len(t) = 6 /\ x \in U
  OBVIOUS
<1>2. t[1] = s[1] /\ t[2] = s[2] /\ t[3] = s[3] /\ t[4] = s[4] /\ t[5] = s[5] /\ t[6] = x
  OBVIOUS
<1> HIDE DEF s, t, U
<1>3. \A i \in 1 .. Len(s) : t[i] = s[i]
  BY <1>1, <1>2
<1>4. Len(t) = Len(s) + 1 /\ t[Len(s) + 1] = x
  BY <1>1, <1>2
<1>5. Append(s, x) = t
  BY <1>1, <1>3, <1>4, Appended
<1> QED
  BY <1>5 DEF s, t, With

LEMMA Append6 ==
  ASSUME NEW x1, NEW x2, NEW x3, NEW x4, NEW x5, NEW x6, NEW x
  PROVE  With(<<x1, x2, x3, x4, x5, x6>>, x) = <<x1, x2, x3, x4, x5, x6, x>>
<1> DEFINE s == <<x1, x2, x3, x4, x5, x6>>
           t == <<x1, x2, x3, x4, x5, x6, x>>
           U == {x1, x2, x3, x4, x5, x6, x}
<1>1. s \in Seq(U) /\ Len(s) = 6 /\ t \in Seq(U) /\ Len(t) = 7 /\ x \in U
  OBVIOUS
<1>2. t[1] = s[1] /\ t[2] = s[2] /\ t[3] = s[3] /\ t[4] = s[4] /\ t[5] = s[5] /\ t[6] = s[6] /\ t[7] = x
  OBVIOUS
<1> HIDE DEF s, t, U
<1>3. \A i \in 1 .. Len(s) : t[i] = s[i]
  BY <1>1, <1>2
<1>4. Len(t) = Len(s) + 1 /\ t[Len(s) + 1] = x
  BY <1>1, <1>2
<1>5. Append(s, x) = t
  BY <1>1, <1>3, <1>4, Appended
<1> QED
  BY <1>5 DEF s, t, With

LEMMA Append7 ==
  ASSUME NEW x1, NEW x2, NEW x3, NEW x4, NEW x5, NEW x6, NEW x7, NEW x
  PROVE  With(<<x1, x2, x3, x4, x5, x6, x7>>, x) = <<x1, x2, x3, x4, x5, x6, x7, x>>
<1> DEFINE s == <<x1, x2, x3, x4, x5, x6, x7>>
           t == <<x1, x2, x3, x4, x5, x6, x7, x>>
           U == {x1, x2, x3, x4, x5, x6, x7, x}
<1>1. s \in Seq(U) /\ Len(s) = 7 /\ t \in Seq(U) /\ Len(t) = 8 /\ x \in U
  OBVIOUS
<1>2. t[1] = s[1] /\ t[2] = s[2] /\ t[3] = s[3] /\ t[4] = s[4] /\ t[5] = s[5] /\ t[6] = s[6] /\ t[7] = s[7] /\ t[8] = x
  OBVIOUS
<1> HIDE DEF s, t, U
<1>3. \A i \in 1 .. Len(s) : t[i] = s[i]
  BY <1>1, <1>2
<1>4. Len(t) = Len(s) + 1 /\ t[Len(s) + 1] = x
  BY <1>1, <1>2
<1>5. Append(s, x) = t
  BY <1>1, <1>3, <1>4, Appended
<1> QED
  BY <1>5 DEF s, t, With

LEMMA Append8 ==
  ASSUME NEW x1, NEW x2, NEW x3, NEW x4, NEW x5, NEW x6, NEW x7, NEW x8, NEW x
  PROVE  With(<<x1, x2, x3, x4, x5, x6, x7, x8>>, x) = <<x1, x2, x3, x4, x5, x6, x7, x8, x>>
<1> DEFINE s == <<x1, x2, x3, x4, x5, x6, x7, x8>>
           t == <<x1, x2, x3, x4, x5, x6, x7, x8, x>>
           U == {x1, x2, x3, x4, x5, x6, x7, x8, x}
<1>1. s \in Seq(U) /\ Len(s) = 8 /\ t \in Seq(U) /\ Len(t) = 9 /\ x \in U
  OBVIOUS
<1>2. t[1] = s[1] /\ t[2] = s[2] /\ t[3] = s[3] /\ t[4] = s[4] /\ t[5] = s[5] /\ t[6] = s[6] /\ t[7] = s[7] /\ t[8] = s[8] /\ t[9] = x
  OBVIOUS
<1> HIDE DEF s, t, U
<1>3. \A i \in 1 .. Len(s) : t[i] = s[i]
  BY <1>1, <1>2
<1>4. Len(t) = Len(s) + 1 /\ t[Len(s) + 1] = x
  BY <1>1, <1>2
<1>5. Append(s, x) = t
  BY <1>1, <1>3, <1>4, Appended
<1> QED
  BY <1>5 DEF s, t, With

-----------------------------------------------------------------------------
(* What the readers make of one field.                                      *)

LEMMA HasFollows ==
  ASSUME NEW d, NEW p, NEW b, Has(d, p, b)
  PROVE  Follows(d, p, b) /\ p + Len(b) <= Len(d)
BY DEF Has, Follows

\* A reader that is at p, with the values g.
At(d, p, g) == Reader(d, p, TRUE, g)

\* A field of any type that is there is read.
LEMMA ReadsItem ==
  ASSUME NEW item, Writable(item), item.type # "double",
         NEW d \in Seq(Byte), NEW p \in Nat, Has(d, p, PutValue(item)), NEW g
  PROVE  /\ PutValue(item) \in Seq(Byte)
         /\ GetValue(At(d, p, g), item)
              = At(d, p + Len(PutValue(item)), With(g, item.val))
<1>1. Follows(d, p, PutValue(item)) /\ p + Len(PutValue(item)) <= Len(d)
  BY HasFollows
<1>2. PutValue(item) \in Seq(Byte) /\ ComesBack(item, d, p)
  BY <1>1, GetPut
<1>3. ReadOrCut(GetValue(At(d, p, g), item), d, p, Len(PutValue(item)), item.val, g)
  BY <1>2 DEF ComesBack, At
<1> QED
  BY <1>1, <1>2, <1>3 DEF ReadOrCut, With, At

\* The readers, at a place that holds what a writer has put.
LEMMA ReadsByte ==
  ASSUME NEW b \in Byte, NEW d \in Seq(Byte), NEW p \in Nat, HasByte(d, p, b), NEW g
  PROVE  ReadByte(At(d, p, g)) = At(d, p + 1, With(g, b))
<1> DEFINE item == [type |-> "byte", val |-> b]
<1>1. Writable(item) /\ PutValue(item) = <<b>> /\ item.type # "double" /\ item.val = b
  BY DEF Writable, PutValue
<1>2. GetValue(At(d, p, g), item) = ReadByte(At(d, p, g))
  BY DEF GetValue
<1>3. Len(<<b>>) = 1
  OBVIOUS
<1>4. Has(d, p, <<b>>)
  BY HasOne DEF HasByte
<1> HIDE DEF item
<1>5. Has(d, p, PutValue(item))
  BY <1>1, <1>4
<1> QED
  BY <1>1, <1>2, <1>3, <1>5, ReadsItem

LEMMA ReadsShort ==
  ASSUME NEW n, IsInt16(n), NEW d \in Seq(Byte), NEW p \in Nat, Has(d, p, PutShort(n)), NEW g
  PROVE  ReadShort(At(d, p, g)) = At(d, p + 2, With(g, n))
<1> DEFINE item == [type |-> "short", val |-> n]
<1>1. Writable(item) /\ PutValue(item) = PutShort(n) /\ item.type # "double" /\ item.val = n
  BY DEF Writable, PutValue
<1>2. GetValue(At(d, p, g), item) = ReadShort(At(d, p, g))
  BY DEF GetValue
<1>3. Len(PutShort(n)) = 2
  BY ShortBytes DEF IsInt16
<1> HIDE DEF item
<1>4. Has(d, p, PutValue(item))
  BY <1>1
<1>5. GetValue(At(d, p, g), item)
        = At(d, p + Len(PutValue(item)), With(g, item.val))
  BY <1>1, <1>4, ReadsItem, Zenon
<1> QED
  BY <1>1, <1>2, <1>3, <1>5, Zenon

LEMMA ReadsInt ==
  ASSUME NEW n, IsInt32(n), NEW d \in Seq(Byte), NEW p \in Nat, Has(d, p, PutInt(n)), NEW g
  PROVE  ReadInt(At(d, p, g)) = At(d, p + 4, With(g, n))
<1> DEFINE item == [type |-> "int", val |-> n]
<1>1. Writable(item) /\ PutValue(item) = PutInt(n) /\ item.type # "double" /\ item.val = n
  BY DEF Writable, PutValue
<1>2. GetValue(At(d, p, g), item) = ReadInt(At(d, p, g))
  BY DEF GetValue
<1>3. Len(PutInt(n)) = 4
  BY IntBytes DEF IsInt32
<1> HIDE DEF item
<1>4. Has(d, p, PutValue(item))
  BY <1>1
<1>5. GetValue(At(d, p, g), item)
        = At(d, p + Len(PutValue(item)), With(g, item.val))
  BY <1>1, <1>4, ReadsItem, Zenon
<1> QED
  BY <1>1, <1>2, <1>3, <1>5, Zenon

LEMMA ReadsBytes ==
  ASSUME NEW n \in Nat, NEW b, AreBytes(b, n),
         NEW d \in Seq(Byte), NEW p \in Nat, Has(d, p, b), NEW g
  PROVE  ReadBytes(At(d, p, g), n) = At(d, p + n, With(g, b))
<1> DEFINE item == [type |-> "bytes", val |-> b]
<1>1. Writable(item) /\ PutValue(item) = b /\ item.type # "double" /\ item.val = b
  BY DEF Writable, PutValue, AreBytes
<1>2. GetValue(At(d, p, g), item) = ReadBytes(At(d, p, g), n)
  BY DEF GetValue, AreBytes
<1>3. Len(b) = n
  BY DEF AreBytes
<1> HIDE DEF item
<1>4. Has(d, p, PutValue(item))
  BY <1>1
<1>5. GetValue(At(d, p, g), item)
        = At(d, p + Len(PutValue(item)), With(g, item.val))
  BY <1>1, <1>4, ReadsItem, Zenon
<1> QED
  BY <1>1, <1>2, <1>3, <1>5, Zenon

\* A string's bytes.
LEMMA StringIsBytes ==
  ASSUME NEW s \in Texts
  PROVE  AreBytes(PutString(s), Len(PutString(s))) /\ Len(PutString(s)) \in Nat
<1> DEFINE item == [type |-> "string", val |-> s]
<1>1. Writable(item) /\ PutValue(item) = PutString(s)
  BY DEF Writable, PutValue, Texts
<1> HIDE DEF item
<1> QED
  BY <1>1, PutsBytes DEF AreBytes

LEMMA ReadsString ==
  ASSUME NEW s \in Texts, NEW d \in Seq(Byte), NEW p \in Nat, Has(d, p, PutString(s)), NEW g
  PROVE  ReadString(At(d, p, g)) = At(d, p + Len(PutString(s)), With(g, s))
<1> DEFINE item == [type |-> "string", val |-> s]
<1>1. Writable(item) /\ PutValue(item) = PutString(s) /\ item.type # "double" /\ item.val = s
  BY DEF Writable, PutValue, Texts
<1>2. GetValue(At(d, p, g), item) = ReadString(At(d, p, g))
  BY DEF GetValue
<1> HIDE DEF item
<1> QED
  BY <1>1, <1>2, ReadsItem

-----------------------------------------------------------------------------
(* Frames, as their readers see them.                                       *)

LEMMA ZerosAreBytes ==
  ASSUME NEW n \in Nat
  PROVE  AreBytes(Zeros(n), n) /\ \A k \in 1 .. n : Zeros(n)[k] = 0
<1>1. Zeros(n) \in [1 .. n -> Byte] /\ \A k \in 1 .. n : Zeros(n)[k] = 0
  BY DEF Zeros, Byte
<1> QED
  BY <1>1, SeqDef, LenProperties DEF AreBytes

LEMMA PadIsNat ==
  ASSUME NEW p \in Seq(Byte)
  PROVE  Pad(p) \in Nat
<1>1. Len(p) \in Nat
  OBVIOUS
<1> QED
  BY <1>1 DEF Pad

\* w is a sequence of bytes that starts with packet p.
Carries(w, p) == w \in Seq(Byte) /\ Has(w, 0, p)

\* What a frame adds stays behind the packet.
LEMMA TailCarries ==
  ASSUME NEW p \in Seq(Byte), NEW n \in Nat, NEW b \in Sums
  PROVE  Carries(p \o Zeros(n) \o <<b, b, b, b>>, p)
<1> DEFINE z == Zeros(n)
           c == <<b, b, b, b>>
           t == z \o c
<1>1. z \in Seq(Byte) /\ c \in Seq(Byte)
  BY ZerosAreBytes, SumsAssumption DEF AreBytes
<1> HIDE DEF z, c
<1>2. (p \o z) \o c = p \o t
  BY <1>1, ConcatAssociative
<1>3. t \in Seq(Byte)
  BY <1>1, ConcatProperties
<1> HIDE DEF t
<1>4. Carries(p \o t, p)
  BY <1>3, HasFront DEF Carries
<1> QED
  BY <1>2, <1>4 DEF z, c

LEMMA FramedCarries ==
  ASSUME NEW p \in Seq(Byte), NEW w \in Framed(p)
  PROVE  Carries(w, p)
<1>1. PICK b \in Sums : w = p \o Zeros(Pad(p)) \o <<b, b, b, b>>
  BY DEF Framed
<1> QED
  BY <1>1, PadIsNat, TailCarries

LEMMA FirstFramedCarries ==
  ASSUME NEW p \in Seq(Byte), NEW w \in FirstFramed(p)
  PROVE  Carries(w, p)
<1>1. PICK b \in Sums : w = p \o Zeros(18) \o <<b, b, b, b>>
  BY DEF FirstFramed
<1> QED
  BY <1>1, TailCarries

LEMMA GSFramedCarries ==
  ASSUME NEW p \in Seq(Byte), NEW w \in GSFramed(p)
  PROVE  Carries(w, p)
<1>1. w = p \o Zeros(Pad(p)) /\ Zeros(Pad(p)) \in Seq(Byte)
  BY PadIsNat, ZerosAreBytes DEF GSFramed, AreBytes
<1> QED
  BY <1>1, HasFront DEF Carries

-----------------------------------------------------------------------------
(* The packets of a game server that registers.                             *)

\* The modulus is read as it was sent.
LEMMA InitLSIsRead ==
  ASSUME NEW revision, IsInt32(revision), NEW m, AreBytes(m, 64)
  PROVE  /\ InitLS(revision, m) \in Seq(Byte)
         /\ \A w : Carries(w, InitLS(revision, m)) =>
              ReadInitLS(w) = [ok |-> TRUE, revision |-> revision, modulus |-> m]
<1> DEFINE a == <<0>> \o PutInt(revision)
           b == a \o PutInt(64)
<1>1. AreBytes(<<0>>, 1) /\ AreBytes(PutInt(revision), 4) /\ AreBytes(PutInt(64), 4)
  BY OneByte, IntIsBytes DEF IsInt32, Byte
<1>2. AreBytes(a, 5) /\ AreBytes(b, 9) /\ AreBytes(b \o m, 73)
  <2>1. AreBytes(a, 1 + 4)
    BY <1>1, Glued
  <2>2. AreBytes(b, 5 + 4)
    BY <1>1, <2>1, Glued
  <2>3. AreBytes(b \o m, 9 + 64)
    BY <2>2, Glued
  <2> QED
    BY <2>1, <2>2, <2>3
<1>3. InitLS(revision, m) = b \o m
  <2>1. SubSeq(m, 1, 64) = m
    BY SubSeqFull DEF AreBytes
  <2>2. Len(m) >= 64
    BY DEF AreBytes
  <2>3. (IF Len(m) >= 64 THEN SubSeq(m, 1, 64) ELSE LeftPad(m, 64)) = m
    BY <2>1, <2>2
  <2> QED
    BY <2>3, Zenon DEF InitLS
<1> HIDE DEF a, b
<1>4. ASSUME NEW w, Carries(w, b \o m)
      PROVE  ReadInitLS(w) = [ok |-> TRUE, revision |-> revision, modulus |-> m]
  <2>1. w \in Seq(Byte) /\ Has(w, 0, b) /\ Has(w, 9, m)
    BY <1>2, <1>4, HasBoth DEF Carries
  <2>2. Has(w, 0, a) /\ Has(w, 5, PutInt(64))
    BY <1>1, <1>2, <2>1, HasBoth DEF b
  <2>3. Has(w, 0, <<0>>) /\ Has(w, 1, PutInt(revision))
    BY <1>1, <2>1, <2>2, HasBoth DEF a
  <2>4. w[1] = 0 /\ Len(w) >= 73
    BY <2>1, <2>3, ByteHas DEF Has, HasByte, AreBytes
  <2>5. IntAt(w, 5) = 64 /\ IntAt(w, 1) = revision
    BY <2>1, <2>2, <2>3, IntAtHas DEF IsInt32
  <2>6. Slice(w, 9, 64) = m
    BY <2>1, SliceHas
  <2>7. ~ (w[1] # 0 \/ Len(w) < 73 \/ IntAt(w, 5) # 64)
    BY <2>1, <2>4, <2>5
  <2> QED
    BY <2>5, <2>6, <2>7, Zenon DEF ReadInitLS
<1> QED
  BY <1>2, <1>3, <1>4 DEF AreBytes


LEMMA LeastIs ==
  ASSUME NEW S \in SUBSET Nat, S # {}
  PROVE  Least(S) \in S /\ \A n \in S : Least(S) <= n
<1>1. \E m \in S : \A n \in S : m <= n
  BY LeastExists
<1> QED
  BY <1>1 DEF Least

\* Leading zeros that a number loses come back when it is made a block again.
LEMMA PadSignificant ==
  ASSUME NEW n \in Nat, NEW b, AreBytes(b, n)
  PROVE  LeftPad(Significant(b), n) = b
<1> DEFINE digits == {i \in DOMAIN b : b[i] # 0}
           first == Least(digits)
<1>1. b \in Seq(Byte) /\ Len(b) = n /\ DOMAIN b = 1 .. n
  BY DEF AreBytes
<1>2. CASE digits = {}
  <2>1. Significant(b) = <<>>
    BY <1>2 DEF Significant
  <2>2. LeftPad(Significant(b), n) = Zeros(n)
    <3>1. Zeros(n) \in Seq(Byte) /\ n - Len(<<>>) = n
      BY ZerosAreBytes DEF AreBytes
    <3>2. Zeros(n) \o <<>> = Zeros(n)
      BY <3>1, ConcatEmptySeq
    <3>3. LeftPad(<<>>, n) = Zeros(n)
      BY <3>1, <3>2, Zenon DEF LeftPad
    <3> QED
      BY <2>1, <3>3
  <2>3. \A k \in 1 .. n : Zeros(n)[k] = b[k]
    BY <1>1, <1>2, ZerosAreBytes
  <2> QED
    BY <2>2, <2>3, ZerosAreBytes, SameBytesAreOne
<1>3. CASE digits # {}
  <2>0. digits \in SUBSET Nat
    BY <1>1
  <2>1. first \in digits /\ \A i \in digits : first <= i
    BY <1>3, <2>0, LeastIs
  <2>2. first \in 1 .. n /\ \A k \in 1 .. n : k < first => b[k] = 0
    <3>1. first \in 1 .. n /\ \A k \in 1 .. n : b[k] # 0 => k \in digits
      BY <1>1, <2>1
    <3> HIDE DEF first, digits
    <3> QED
      BY <2>1, <3>1
  <2>3. Significant(b) = SubSeq(b, first, n)
    BY <1>1, <1>3 DEF Significant
  <2> DEFINE skipped == first - 1
             rest == n - skipped
  <2> HIDE DEF digits, first
  <2>4. skipped \in Nat /\ rest \in Nat /\ skipped + rest = n /\ skipped + 1 = first
    BY <2>2
  <2>5. Significant(b) = Slice(b, skipped, rest)
    BY <2>3, <2>4 DEF Slice
  <2> HIDE DEF skipped, rest
  <2>6. /\ AreBytes(Slice(b, skipped, rest), rest)
        /\ \A k \in 1 .. rest : Slice(b, skipped, rest)[k] = b[skipped + k]
    BY <1>1, <2>4, SliceIs
  <2>7. n - Len(Significant(b)) = skipped
    BY <2>4, <2>5, <2>6 DEF AreBytes
  <2>8. LeftPad(Significant(b), n) = Zeros(skipped) \o Slice(b, skipped, rest)
    BY <2>5, <2>7 DEF LeftPad
  <2> DEFINE c == Zeros(skipped) \o Slice(b, skipped, rest)
  <2>9. AreBytes(c, n)
    BY <2>4, <2>6, ZerosAreBytes, Glued
  <2>10. Joins(c, Zeros(skipped), Slice(b, skipped, rest))
    BY <2>4, <2>6, ZerosAreBytes, Joined DEF AreBytes
  <2>11. ASSUME NEW k \in 1 .. n PROVE c[k] = b[k]
    <3>1. CASE k <= skipped
      <4>1. k \in 1 .. skipped /\ k < first
        BY <2>2, <2>4, <3>1
      <4>2. c[k] = Zeros(skipped)[k] /\ Zeros(skipped)[k] = 0
        BY <2>4, <2>10, <4>1, ZerosAreBytes DEF Joins, AreBytes
      <4> QED
        BY <2>2, <4>1, <4>2
    <3>2. CASE ~ (k <= skipped)
      <4> DEFINE j == k - skipped
      <4>1. j \in 1 .. rest /\ skipped + j = k
        BY <2>4, <3>2
      <4> HIDE DEF j
      <4>2. c[skipped + j] = Slice(b, skipped, rest)[j]
        BY <2>4, <2>6, <2>10, <4>1, ZerosAreBytes DEF Joins, AreBytes
      <4> QED
        BY <2>6, <4>1, <4>2
    <3> QED
      BY <3>1, <3>2
  <2> HIDE DEF c
  <2> QED
    BY <2>8, <2>9, <2>11, SameBytesAreOne DEF c
<1> QED
  BY <1>2, <1>3


\* The key comes out of its RSA block, leading zeros included.
LEMMA BlowFishKeyIsRead ==
  ASSUME NEW key, AreBytes(key, 40)
  PROVE  /\ SendBlowFishKey(key) \in Seq(Byte)
         /\ \A w : Carries(w, SendBlowFishKey(key)) =>
              ParseBlowFishKey(SubSeq(w, 2, Len(w))) = [ok |-> TRUE, key |-> key]
<1> DEFINE block == Zeros(24) \o key
<1>1. AreBytes(<<0>>, 1) /\ AreBytes(Zeros(24), 24) /\ AreBytes(block, 64)
  <2>1. 0 \in Byte /\ 24 \in Nat /\ 24 + 40 = 64
    BY DEF Byte
  <2>2. AreBytes(<<0>>, 1) /\ AreBytes(Zeros(24), 24)
    BY <2>1, OneByte, ZerosAreBytes, Zenon
  <2>3. \A x, y : AreBytes(x, 24) /\ AreBytes(y, 40) => AreBytes(x \o y, 24 + 40)
    BY Glued
  <2>4. AreBytes(block, 24 + 40)
    BY <2>2, <2>3, Zenon
  <2> QED
    BY <2>1, <2>2, <2>4
<1>2. LeftPad(key, 64) = block
  <2>1. 64 - Len(key) = 24
    BY DEF AreBytes
  <2> QED
    BY <2>1 DEF LeftPad
<1> HIDE DEF block
<1>3. SendBlowFishKey(key) = <<0>> \o block
  BY <1>1, <1>2, PadSignificant DEF SendBlowFishKey, RSAEncrypt
<1>4. <<0>> \o block \in Seq(Byte)
  BY <1>1, Glued DEF AreBytes
<1>5. ASSUME NEW w, Carries(w, << 0 >> \o block)
      PROVE  ParseBlowFishKey(SubSeq(w, 2, Len(w))) = [ok |-> TRUE, key |-> key]
  <2> DEFINE body == SubSeq(w, 2, Len(w))
  <2>1. w \in Seq(Byte) /\ Has(w, 0, <<0>>) /\ Has(w, 1, block)
    BY <1>1, <1>5, HasBoth DEF Carries
  <2>2. body \in Seq(Byte) /\ Has(body, 0, block)
    <3>1. HasByte(w, 0, 0) /\ block \in Seq(Byte) /\ 1 - 1 = 0
      BY <1>1, <2>1, ByteHas DEF AreBytes
    <3> QED
      BY <2>1, <3>1, BodyOf
  <2> HIDE DEF body
  <2>3. Slice(body, 0, 64) = block /\ Len(body) \in Nat /\ Len(body) >= 64
    <3>1. Len(block) = 64 /\ Len(body) \in Nat
      BY <1>1, <2>2 DEF AreBytes
    <3>2. Len(body) >= 64
      BY <2>2, <3>1 DEF Has
    <3>3. Slice(body, 0, 64) = block
      BY <1>1, <2>2, SliceHas
    <3> QED
      BY <3>1, <3>2, <3>3
  <2>4. RSADecryptNoPadding(block, 64) = block
    BY <1>1, PadSignificant DEF RSADecryptNoPadding
  <2>5. Slice(block, 24, 40) = key
    <3>1. block \in Seq(Byte) /\ Has(block, 0, block)
      BY <1>1, HasItself DEF AreBytes
    <3>2. block = Zeros(24) \o key
      BY DEF block
    <3>3. Has(block, 0, Zeros(24) \o key)
      BY <3>1, <3>2
    <3>4. Has(block, 24, key)
      BY <1>1, <3>1, <3>3, HasBoth
    <3> QED
      BY <3>1, <3>4, SliceHas
  <2>6. ~ (Len(body) < 64)
    BY <2>3
  <2>7. Slice(RSADecryptNoPadding(Slice(body, 0, 64), 64), 24, 40) = key
    BY <2>3, <2>4, <2>5
  <2>8. ParseBlowFishKey(body) = [ok |-> TRUE, key |-> key]
    BY <2>6, <2>7, Zenon DEF ParseBlowFishKey
  <2> QED
    BY <2>8 DEF body
<1> QED
  BY <1>3, <1>4, <1>5

\* The bytes one behind the other.
LEMMA HasFour ==
  ASSUME NEW d \in Seq(Byte), NEW p \in Nat, NEW b1, NEW b2, NEW b3, NEW b4,
         Has(d, p, <<b1, b2, b3, b4>>)
  PROVE  HasByte(d, p, b1) /\ HasByte(d, p + 1, b2) /\ HasByte(d, p + 2, b3) /\ HasByte(d, p + 3, b4)
<1> DEFINE b == <<b1, b2, b3, b4>>
<1>1. Len(b) = 4 /\ b[1] = b1 /\ b[2] = b2 /\ b[3] = b3 /\ b[4] = b4
  OBVIOUS
<1> HIDE DEF b
<1>2. p + 4 <= Len(d) /\ \A k \in 1 .. 4 : d[p + k] = b[k]
  BY <1>1 DEF Has, b
<1>3. d[p + 1] = b1 /\ d[p + 2] = b2 /\ d[p + 3] = b3 /\ d[p + 4] = b4
  BY <1>1, <1>2
<1>4. (p + 1) + 1 = p + 2 /\ (p + 2) + 1 = p + 3 /\ (p + 3) + 1 = p + 4
  OBVIOUS
<1>5. p + 1 <= Len(d) /\ p + 2 <= Len(d) /\ p + 3 <= Len(d) /\ p + 4 <= Len(d)
  BY <1>2
<1> QED
  BY <1>3, <1>4, <1>5 DEF HasByte

LEMMA FixedIsField ==
  ASSUME NEW n \in Nat, NEW b, AreBytes(b, n)
  PROVE  Fixed(b, n) = b
<1>1. Fixed(b, n) = [i \in 1 .. n |-> b[i]]
  BY DEF Fixed, AreBytes
<1>2. AreBytes(Fixed(b, n), n) /\ \A i \in 1 .. n : Fixed(b, n)[i] = b[i]
  <2>1. Fixed(b, n) \in [1 .. n -> Byte]
    BY <1>1 DEF AreBytes
  <2> QED
    BY <1>1, <2>1, SeqDef, LenProperties DEF AreBytes
<1> QED
  BY <1>2, SameBytesAreOne

\* Parts of a packet one behind the other.
LEMMA HasThree ==
  ASSUME NEW d \in Seq(Byte), NEW p \in Nat, NEW n \in Nat, NEW m \in Nat, NEW l \in Nat,
         NEW a, AreBytes(a, n), NEW b, AreBytes(b, m), NEW c, AreBytes(c, l), Has(d, p, a \o b \o c)
  PROVE  /\ AreBytes(a \o b \o c, n + m + l)
         /\ Has(d, p, a) /\ Has(d, p + n, b) /\ Has(d, p + n + m, c)
<1> DEFINE ab == a \o b
           nm == n + m
<1>1. AreBytes(ab, nm) /\ nm \in Nat
  BY Glued
<1>2. Has(d, p, ab \o c)
  OBVIOUS
<1> HIDE DEF ab, nm
<1>3. Has(d, p, ab) /\ Has(d, p + nm, c)
  BY <1>1, <1>2, HasBoth
<1>4. Has(d, p, a \o b)
  BY <1>3 DEF ab
<1>5. Has(d, p, a) /\ Has(d, p + n, b)
  BY <1>4, HasBoth
<1>6. AreBytes(ab \o c, nm + l)
  BY <1>1, Glued
<1>7. p + nm = p + n + m /\ nm + l = n + m + l
  BY DEF nm
<1> QED
  BY <1>3, <1>5, <1>6, <1>7 DEF ab

\* A number of sixteen bits as ReadShort gives it.
AsInt16(n) == IF n < 32768 THEN n ELSE n - 65536

LEMMA SixteenBits ==
  ASSUME NEW n, IsUint16(n)
  PROVE  IsInt16(AsInt16(n)) /\ PutShort(AsInt16(n)) = PutShort(n) /\ SameUint16(AsInt16(n), n)
<1>1. n \in Nat /\ n < 65536
  BY DEF IsUint16
<1>2. CASE n < 32768
  <2>1. AsInt16(n) = n
    BY <1>2 DEF AsInt16
  <2>2. IsInt16(n)
    BY <1>1, <1>2 DEF IsInt16
  <2>3. n % 65536 = n
    BY <1>1
  <2> QED
    BY <1>2, <2>1, <2>2, <2>3 DEF SameUint16
<1>3. CASE ~(n < 32768)
  <2> DEFINE m == n - 65536
  <2>1. m % 256 = n % 256 /\ (m \div 256) % 256 = (n \div 256) % 256 /\ m % 65536 = n
    BY <1>1
  <2>2. IsInt16(m)
    BY <1>1, <1>3 DEF IsInt16
  <2>3. AsInt16(n) = m
    BY <1>3 DEF AsInt16
  <2> HIDE DEF m
  <2>4. PutShort(m) = PutShort(n)
    BY <2>1 DEF PutShort
  <2>5. SameUint16(m, n)
    BY <1>3, <2>1 DEF SameUint16
  <2> QED
    BY <2>2, <2>3, <2>4, <2>5
<1> QED
  BY <1>2, <1>3

LEMMA GameServerFields ==
  ASSUME NEW g \in GameServers
  PROVE  /\ g.id \in Byte /\ g.alternate \in BOOLEAN
         /\ IsUint16(g.maxPlayers) /\ IsUint16(g.port) /\ AreBytes(g.hexID, 32)
<1>1. /\ g \in [id : Byte, alternate : BOOLEAN, maxPlayers : Nat, port : Nat, hexID : Seq(Byte)]
      /\ IsUint16(g.maxPlayers) /\ IsUint16(g.port) /\ Len(g.hexID) = 32
  BY GameServersAssumption
<1> QED
  BY <1>1 DEF AreBytes

\* What a game server registers with is read as it was written, the port and the limit
\* as int16.
LEMMA GameServerAuthIsRead ==
  ASSUME NEW g \in GameServers
  PROVE  /\ SendGameServerAuth(g) \in Seq(Byte)
         /\ \A w : Carries(w, SendGameServerAuth(g)) =>
              ParseGameServerAuth(SubSeq(w, 2, Len(w)))
                = [ok |-> TRUE, id |-> g.id, alternate |-> g.alternate, maxPlayers |-> AsInt16(g.maxPlayers),
                   port |-> AsInt16(g.port), hexID |-> g.hexID]
<1> DEFINE alt == IF g.alternate THEN 1 ELSE 0
           mp  == AsInt16(g.maxPlayers)
           pt  == AsInt16(g.port)
           a   == <<1, g.id, alt, 0>>
           b   == a \o PutShort(mp) \o PutShort(pt)
           c   == b \o <<0>> \o g.hexID
<1>1. /\ g.id \in Byte /\ g.alternate \in BOOLEAN /\ IsInt16(mp) /\ IsInt16(pt)
      /\ AreBytes(g.hexID, 32) /\ 0 \in Byte
  BY GameServerFields, SixteenBits DEF Byte
<1>2. alt \in Byte /\ (alt # 0 <=> g.alternate)
  BY <1>1 DEF Byte
<1>3. SendGameServerAuth(g) = c
  <2>1. PutShort(mp) = PutShort(g.maxPlayers) /\ PutShort(pt) = PutShort(g.port)
    BY GameServerFields, SixteenBits
  <2> HIDE DEF mp, pt
  <2> QED
    BY <1>1, <2>1, FixedIsField DEF SendGameServerAuth
<1> HIDE DEF alt, mp, pt
<1>4. /\ AreBytes(a, 4) /\ AreBytes(PutShort(mp), 2) /\ AreBytes(PutShort(pt), 2)
      /\ AreBytes(<<0>>, 1)
  <2>1. a \in Seq(Byte) /\ Len(a) = 4
    BY <1>1, <1>2 DEF Byte
  <2> QED
    BY <1>1, <2>1, ShortIsBytes, OneByte DEF IsInt16, AreBytes, Byte
<1> HIDE DEF a
<1>5. AreBytes(b, 8) /\ c \in Seq(Byte)
  <2>1. AreBytes(a \o PutShort(mp), 4 + 2)
    BY <1>4, Glued
  <2>2. AreBytes(b, 6 + 2)
    BY <1>4, <2>1, Glued
  <2>3. AreBytes(b \o <<0>>, 8 + 1)
    BY <1>4, <2>2, Glued
  <2>4. AreBytes(c, 9 + 32)
    BY <1>1, <2>3, Glued
  <2> QED
    BY <2>2, <2>4 DEF AreBytes
<1> HIDE DEF b
<1>6. ASSUME NEW w, Carries(w, c)
      PROVE  ParseGameServerAuth(SubSeq(w, 2, Len(w)))
               = [ok |-> TRUE, id |-> g.id, alternate |-> g.alternate, maxPlayers |-> mp,
                  port |-> pt, hexID |-> g.hexID]
  <2> DEFINE body == SubSeq(w, 2, Len(w))
  <2>1. w \in Seq(Byte) /\ Has(w, 0, b \o <<0>> \o g.hexID)
    BY <1>6 DEF Carries
  <2>2. Has(w, 0, b) /\ Has(w, 8, <<0>>) /\ Has(w, 9, g.hexID)
    BY <1>1, <1>4, <1>5, <2>1, HasThree
  <2>3. Has(w, 0, a \o PutShort(mp) \o PutShort(pt))
    BY <2>2 DEF b
  <2>4. Has(w, 0, a) /\ Has(w, 4, PutShort(mp)) /\ Has(w, 6, PutShort(pt))
    BY <1>4, <2>1, <2>3, HasThree
  <2>5. Has(w, 0, <<1, g.id, alt, 0>>)
    BY <2>4 DEF a
  <2>6. /\ HasByte(w, 0, 1) /\ HasByte(w, 1, g.id) /\ HasByte(w, 2, alt) /\ HasByte(w, 3, 0)
        /\ HasByte(w, 8, 0)
    BY <2>1, <2>2, <2>5, HasFour, ByteHas
  <2>7. /\ g.hexID \in Seq(Byte) /\ PutShort(mp) \in Seq(Byte) /\ PutShort(pt) \in Seq(Byte)
    BY <1>1, <1>4 DEF AreBytes
  <2>8. body \in Seq(Byte)
    BY <2>1, <2>6, BodyOf
  <2>23. /\ \A p \in Nat \ {0}, x \in Seq(Byte) : Has(w, p, x) => Has(body, p - 1, x)
        /\ \A p \in Nat \ {0}, x \in Byte : HasByte(w, p, x) => HasByte(body, p - 1, x)
    BY <2>1, <2>6, BodyOf
  <2> HIDE DEF body
  <2>9. /\ HasByte(body, 0, g.id) /\ HasByte(body, 1, alt) /\ HasByte(body, 2, 0)
        /\ Has(body, 3, PutShort(mp)) /\ Has(body, 5, PutShort(pt))
        /\ HasByte(body, 7, 0) /\ Has(body, 8, g.hexID)
    <3>1. 1 - 1 = 0 /\ 2 - 1 = 1 /\ 3 - 1 = 2 /\ 4 - 1 = 3 /\ 6 - 1 = 5 /\ 8 - 1 = 7 /\ 9 - 1 = 8
      OBVIOUS
    <3> QED
      BY <1>1, <1>2, <2>2, <2>4, <2>6, <2>7, <2>23, <3>1
  <2> DEFINE g0 == <<>>
             g1 == <<g.id>>
             g2 == <<g.id, alt>>
             g3 == <<g.id, alt, 0>>
             g4 == <<g.id, alt, 0, mp>>
             g5 == <<g.id, alt, 0, mp, pt>>
             g6 == <<g.id, alt, 0, mp, pt, 0>>
             g7 == <<g.id, alt, 0, mp, pt, 0, g.hexID>>
  <2>10. NewReader(body) = At(body, 0, g0)
    BY DEF NewReader, Reader, At
  <2>11. /\ With(g0, g.id) = g1 /\ With(g1, alt) = g2 /\ With(g2, 0) = g3
         /\ With(g3, mp) = g4 /\ With(g4, pt) = g5 /\ With(g5, 0) = g6
         /\ With(g6, g.hexID) = g7
    BY Append0, Append1, Append2, Append3, Append4, Append5, Append6
  <2>12. At(body, 40, g7).ok /\ At(body, 40, g7).got = g7
    BY DEF Reader, At
  <2>13. g7[1] = g.id /\ g7[2] = alt /\ g7[4] = mp /\ g7[5] = pt /\ g7[7] = g.hexID
    OBVIOUS
  <2> HIDE DEF g0, g1, g2, g3, g4, g5, g6, g7
  <2>14. ReadByte(ReadByte(ReadByte(At(body, 0, g0)))) = At(body, 3, g3)
    BY <1>1, <1>2, <2>8, <2>9, <2>11, ReadsByte
  <2>15. ReadShort(ReadShort(At(body, 3, g3))) = At(body, 7, g5)
    BY <1>1, <2>8, <2>9, <2>11, ReadsShort
  <2>16. ReadBytes(ReadByte(At(body, 7, g5)), 32) = At(body, 40, g7)
    BY <1>1, <2>8, <2>9, <2>11, ReadsByte, ReadsBytes
  <2> DEFINE ids   == ReadByte(ReadByte(ReadByte(NewReader(body))))
             ports == ReadShort(ReadShort(ids))
             r     == ReadBytes(ReadByte(ports), 32)
  <2>17. r = At(body, 40, g7)
    BY <2>10, <2>14, <2>15, <2>16, Zenon
  <2>18. ParseGameServerAuth(body)
           = IF ~r.ok THEN Malformed
             ELSE [ok |-> TRUE, id |-> r.got[1], alternate |-> r.got[2] # 0,
                   maxPlayers |-> r.got[4], port |-> r.got[5], hexID |-> r.got[7]]
    BY Zenon DEF ParseGameServerAuth
  <2> HIDE DEF r
  <2>19. /\ r.ok /\ r.got[1] = g.id /\ r.got[2] = alt /\ r.got[4] = mp
         /\ r.got[5] = pt /\ r.got[7] = g.hexID
    BY <2>12, <2>13, <2>17, Zenon
  <2>20. ParseGameServerAuth(body)
           = [ok |-> TRUE, id |-> g.id, alternate |-> alt # 0, maxPlayers |-> mp,
              port |-> pt, hexID |-> g.hexID]
    BY <2>18, <2>19, Zenon
  <2> QED
    BY <1>1, <1>2, <2>20 DEF body
<1> HIDE DEF c
<1> QED
  BY <1>3, <1>5, <1>6 DEF mp, pt

-----------------------------------------------------------------------------
(* Packets of a first byte and integers.                                    *)

\* A packet's first part.
LEMMA CarriesFirst ==
  ASSUME NEW a \in Seq(Byte), NEW b \in Seq(Byte), NEW w, Carries(w, a \o b)
  PROVE  Carries(w, a)
<1>1. AreBytes(a, Len(a)) /\ AreBytes(b, Len(b)) /\ Len(a) \in Nat /\ Len(b) \in Nat
  BY DEF AreBytes
<1> QED
  BY <1>1, HasBoth DEF Carries

LEMMA CarriesItself ==
  ASSUME NEW p \in Seq(Byte)
  PROVE  Carries(p, p)
BY HasItself DEF Carries

LEMMA TailIsBody ==
  ASSUME NEW w \in Seq(Byte), w # <<>>
  PROVE  Tail(w) = SubSeq(w, 2, Len(w))
OBVIOUS

LEMMA HasTwo ==
  ASSUME NEW d \in Seq(Byte), NEW p \in Nat, NEW b1, NEW b2, Has(d, p, <<b1, b2>>)
  PROVE  HasByte(d, p, b1) /\ HasByte(d, p + 1, b2)
<1> DEFINE b == <<b1, b2>>
<1>1. Len(b) = 2 /\ b[1] = b1 /\ b[2] = b2
  OBVIOUS
<1> HIDE DEF b
<1>2. p + 2 <= Len(d) /\ \A k \in 1 .. 2 : d[p + k] = b[k]
  BY <1>1 DEF Has, b
<1> QED
  BY <1>1, <1>2 DEF HasByte

LEMMA TwoBytesCarried ==
  ASSUME NEW b1 \in Byte, NEW b2 \in Byte
  PROVE  /\ <<b1, b2>> \in Seq(Byte)
         /\ \A w : Carries(w, <<b1, b2>>) => w[1] = b1 /\ w[2] = b2 /\ Len(w) >= 2
<1>1. ASSUME NEW w, Carries(w, <<b1, b2>>) PROVE w[1] = b1 /\ w[2] = b2 /\ Len(w) >= 2
  BY <1>1, HasTwo DEF Carries, HasByte
<1> QED
  BY <1>1

\* One integer behind the first byte.
LEMMA OneIntCarried ==
  ASSUME NEW t \in Byte, NEW n, IsInt32(n)
  PROVE  /\ <<t>> \o PutInt(n) \in Seq(Byte)
         /\ \A w : Carries(w, <<t>> \o PutInt(n)) =>
              /\ w[1] = t /\ Has(w, 1, PutInt(n)) /\ Len(w) >= 5
              /\ SubSeq(w, 2, Len(w)) \in Seq(Byte) /\ Len(SubSeq(w, 2, Len(w))) >= 4
              /\ Has(SubSeq(w, 2, Len(w)), 0, PutInt(n)) /\ IntAt(SubSeq(w, 2, Len(w)), 0) = n
<1>1. AreBytes(<<t>>, 1) /\ AreBytes(PutInt(n), 4)
  BY OneByte, IntIsBytes DEF IsInt32
<1>2. AreBytes(<<t>> \o PutInt(n), 5)
  <2>1. AreBytes(<<t>> \o PutInt(n), 1 + 4)
    BY <1>1, Glued
  <2> QED
    BY <2>1
<1>3. ASSUME NEW w, Carries(w, <<t>> \o PutInt(n))
      PROVE  /\ w[1] = t /\ Has(w, 1, PutInt(n)) /\ Len(w) >= 5
             /\ SubSeq(w, 2, Len(w)) \in Seq(Byte) /\ Len(SubSeq(w, 2, Len(w))) >= 4
             /\ Has(SubSeq(w, 2, Len(w)), 0, PutInt(n)) /\ IntAt(SubSeq(w, 2, Len(w)), 0) = n
  <2> DEFINE body == SubSeq(w, 2, Len(w))
  <2>1. w \in Seq(Byte) /\ Has(w, 0, <<t>>) /\ Has(w, 1, PutInt(n))
    BY <1>1, <1>3, HasBoth DEF Carries
  <2>2. HasByte(w, 0, t)
    BY <2>1, ByteHas
  <2>3. w[1] = t /\ Len(w) >= 5
    BY <1>1, <2>1, <2>2 DEF HasByte, Has, AreBytes
  <2>4. body \in Seq(Byte) /\ Has(body, 0, PutInt(n))
    <3>1. PutInt(n) \in Seq(Byte) /\ 1 - 1 = 0
      BY <1>1 DEF AreBytes
    <3> QED
      BY <2>1, <2>2, <3>1, BodyOf
  <2> HIDE DEF body
  <2>5. Len(body) >= 4
    <3>1. 0 + Len(PutInt(n)) <= Len(body) /\ Len(PutInt(n)) = 4
      BY <1>1, <2>4 DEF Has, AreBytes
    <3>2. Len(body) \in Nat
      BY <2>4, LenProperties
    <3> QED
      BY <3>1, <3>2
  <2>6. IntAt(body, 0) = n
    BY <2>4, IntAtHas
  <2> QED
    BY <2>1, <2>3, <2>4, <2>5, <2>6 DEF body
<1> QED
  BY <1>2, <1>3 DEF AreBytes

\* Two of them.
LEMMA TwoIntsCarried ==
  ASSUME NEW t \in Byte, NEW m, IsInt32(m), NEW n, IsInt32(n)
  PROVE  /\ <<t>> \o PutInt(m) \o PutInt(n) \in Seq(Byte)
         /\ \A w : Carries(w, <<t>> \o PutInt(m) \o PutInt(n)) =>
              /\ w[1] = t /\ Len(w) >= 9 /\ IntAt(w, 1) = m /\ IntAt(w, 5) = n
              /\ SubSeq(w, 2, Len(w)) \in Seq(Byte) /\ Len(SubSeq(w, 2, Len(w))) >= 8
              /\ IntAt(SubSeq(w, 2, Len(w)), 0) = m /\ IntAt(SubSeq(w, 2, Len(w)), 4) = n
<1> DEFINE a == <<t>> \o PutInt(m)
<1>1. a \in Seq(Byte) /\ AreBytes(a, 5) /\ AreBytes(PutInt(n), 4) /\ AreBytes(PutInt(m), 4)
  <2>1. AreBytes(<<t>>, 1) /\ AreBytes(PutInt(m), 4) /\ AreBytes(PutInt(n), 4)
    BY OneByte, IntIsBytes DEF IsInt32
  <2>2. AreBytes(a, 1 + 4)
    BY <2>1, Glued
  <2> QED
    BY <2>1, <2>2 DEF AreBytes
<1>2. a \o PutInt(n) \in Seq(Byte)
  BY <1>1, Glued DEF AreBytes
<1>3. ASSUME NEW w, Carries(w, a \o PutInt(n))
      PROVE  /\ w[1] = t /\ Len(w) >= 9 /\ IntAt(w, 1) = m /\ IntAt(w, 5) = n
             /\ SubSeq(w, 2, Len(w)) \in Seq(Byte) /\ Len(SubSeq(w, 2, Len(w))) >= 8
             /\ IntAt(SubSeq(w, 2, Len(w)), 0) = m /\ IntAt(SubSeq(w, 2, Len(w)), 4) = n
  <2> DEFINE body == SubSeq(w, 2, Len(w))
  <2>1. Carries(w, a)
    BY <1>1, <1>3, CarriesFirst DEF AreBytes
  <2>2. /\ w[1] = t /\ Has(w, 1, PutInt(m)) /\ Len(w) >= 5
        /\ body \in Seq(Byte) /\ IntAt(body, 0) = m
    BY <2>1, OneIntCarried
  <2> HIDE DEF a
  <2>3. w \in Seq(Byte) /\ Has(w, 5, PutInt(n))
    BY <1>1, <1>3, HasBoth DEF Carries
  <2>4. Len(w) >= 9
    BY <1>1, <2>3 DEF Has, AreBytes
  <2>5. IntAt(w, 1) = m /\ IntAt(w, 5) = n
    BY <2>2, <2>3, IntAtHas
  <2>6. Has(body, 4, PutInt(n))
    <3>1. HasByte(w, 0, t) /\ PutInt(n) \in Seq(Byte) /\ 5 - 1 = 4
      BY <1>1, <2>2 DEF HasByte, AreBytes
    <3> QED
      BY <2>3, <3>1, BodyOf
  <2>7. Len(body) >= 8 /\ IntAt(body, 4) = n
    <3> HIDE DEF body
    <3>1. Len(body) >= 8
      BY <1>1, <2>2, <2>6 DEF Has, AreBytes
    <3>2. IntAt(body, 4) = n
      BY <2>2, <2>6, IntAtHas
    <3> QED
      BY <3>1, <3>2
  <2> QED
    BY <2>2, <2>4, <2>5, <2>7
<1> QED
  BY <1>2, <1>3

LEMMA ZerosInSeq ==
  ASSUME NEW n \in Nat
  PROVE  Zeros(n) \in Seq(Byte)
BY ZerosAreBytes DEF AreBytes

LEMMA ConcatInSeq ==
  ASSUME NEW a \in Seq(Byte), NEW b \in Seq(Byte)
  PROVE  a \o b \in Seq(Byte)
BY Joined

\* The answers of the login server to a login and to a choice of a server.
LEMMA LoginOkIsRead ==
  ASSUME NEW m, IsInt32(m), NEW n, IsInt32(n)
  PROVE  /\ LoginOk(m, n) \in Seq(Byte)
         /\ \A w : Carries(w, LoginOk(m, n)) =>
              ReadLoginOk(w) = [answer |-> "ok", ok1 |-> m, ok2 |-> n]
<1> DEFINE a == <<3>> \o PutInt(m) \o PutInt(n)
           b == a \o Zeros(8)
           c == b \o PutInt(1002)
           d == c \o Zeros(12)
<1>1. 3 \in Byte /\ IsInt32(1002)
  BY DEF Byte, IsInt32
<1>2. /\ Zeros(8) \in Seq(Byte) /\ Zeros(12) \in Seq(Byte) /\ Zeros(16) \in Seq(Byte)
      /\ PutInt(1002) \in Seq(Byte)
  BY ZerosInSeq, IntIsBytes DEF AreBytes
<1>3. /\ a \in Seq(Byte)
      /\ \A w : Carries(w, a) => w[1] = 3 /\ Len(w) >= 9 /\ IntAt(w, 1) = m /\ IntAt(w, 5) = n
  BY <1>1, TwoIntsCarried
<1> HIDE DEF a
<1>4. b \in Seq(Byte)
  BY <1>2, <1>3, ConcatInSeq
<1> HIDE DEF b
<1>5. c \in Seq(Byte)
  BY <1>2, <1>4, ConcatInSeq
<1> HIDE DEF c
<1>6. d \in Seq(Byte)
  BY <1>2, <1>5, ConcatInSeq
<1> HIDE DEF d
<1>7. d \o Zeros(16) \in Seq(Byte)
  BY <1>2, <1>6, ConcatInSeq
<1>8. LoginOk(m, n) = d \o Zeros(16)
  BY DEF LoginOk, a, b, c, d
<1>9. ASSUME NEW w, Carries(w, d \o Zeros(16))
      PROVE  ReadLoginOk(w) = [answer |-> "ok", ok1 |-> m, ok2 |-> n]
  <2>1. Carries(w, d)
    BY <1>2, <1>6, <1>9, CarriesFirst
  <2>2. Carries(w, c)
    BY <1>2, <1>5, <2>1, CarriesFirst DEF d
  <2>3. Carries(w, b)
    BY <1>2, <1>4, <2>2, CarriesFirst DEF c
  <2>4. Carries(w, a)
    BY <1>2, <1>3, <2>3, CarriesFirst DEF b
  <2>5. w[1] = 3 /\ Len(w) >= 9 /\ IntAt(w, 1) = m /\ IntAt(w, 5) = n
    BY <1>3, <2>4
  <2>6. w[1] # 1 /\ w[1] # 2 /\ w[1] # 4
    BY <2>5
  <2> QED
    BY <2>5, <2>6, Zenon DEF ReadLoginOk
<1> QED
  BY <1>7, <1>8, <1>9

\* A refusal of two bytes is read with its reason.
LEMMA LoginFailIsRead ==
  ASSUME NEW reason \in Byte
  PROVE  /\ LoginFail(reason) \in Seq(Byte)
         /\ \A w : Carries(w, LoginFail(reason)) =>
              ReadLoginOk(w) = [answer |-> "fail", reason |-> reason]
<1>1. ASSUME NEW w, w[1] = 1, w[2] = reason
      PROVE  ReadLoginOk(w) = [answer |-> "fail", reason |-> reason]
  <2>1. w[1] # 3 /\ w[1] # 2 /\ w[1] # 4
    BY <1>1
  <2> QED
    BY <1>1, <2>1, Zenon DEF ReadLoginOk
<1>2. 1 \in Byte
  BY DEF Byte
<1>3. /\ LoginFail(reason) \in Seq(Byte)
      /\ \A w : Carries(w, LoginFail(reason)) => w[1] = 1 /\ w[2] = reason
  BY <1>2, TwoBytesCarried DEF LoginFail
<1> QED
  BY <1>1, <1>3

LEMMA AccountKickedIsRead ==
  ASSUME NEW reason \in Byte
  PROVE  /\ AccountKicked(reason) \in Seq(Byte)
         /\ \A w : Carries(w, AccountKicked(reason)) =>
              ReadLoginOk(w) = [answer |-> "kicked", reason |-> reason]
<1>1. 2 \in Byte /\ IsInt32(reason) /\ reason \in Int
  BY DEF Byte, IsInt32
<1>2. PutInt(reason)[1] = reason /\ Len(PutInt(reason)) = 4
  <2>1. PutInt(reason)[1] = reason % 256 /\ Len(PutInt(reason)) = 4
    BY <1>1 DEF PutInt
  <2>2. reason % 256 = reason
    BY SMT DEF Byte
  <2> QED
    BY <2>1, <2>2
<1>3. ASSUME NEW w, Carries(w, << 2 >> \o PutInt(reason))
      PROVE  ReadLoginOk(w) = [answer |-> "kicked", reason |-> reason]
  <2>1. w[1] = 2 /\ Has(w, 1, PutInt(reason))
    BY <1>1, <1>3, OneIntCarried
  <2>2. w[1 + 1] = reason /\ 1 + 1 = 2
    BY <1>2, <2>1 DEF Has
  <2>3. w[1] # 3 /\ w[1] # 1 /\ w[1] # 4 /\ w[2] = reason
    BY <2>1, <2>2
  <2> QED
    BY <2>1, <2>3, Zenon DEF ReadLoginOk
<1> QED
  BY <1>1, <1>3, OneIntCarried DEF AccountKicked

\* The play pair is read as it was written.
LEMMA PlayOkIsRead ==
  ASSUME NEW m, IsInt32(m), NEW n, IsInt32(n)
  PROVE  /\ PlayOk(m, n) \in Seq(Byte)
         /\ \A w : Carries(w, PlayOk(m, n)) =>
              ReadPlayOk(w) = [answer |-> "ok", ok1 |-> m, ok2 |-> n]
<1>1. 7 \in Byte
  BY DEF Byte
<1>2. /\ PlayOk(m, n) \in Seq(Byte)
      /\ \A w : Carries(w, PlayOk(m, n)) =>
           w[1] = 7 /\ Len(w) >= 9 /\ IntAt(w, 1) = m /\ IntAt(w, 5) = n
  BY <1>1, TwoIntsCarried DEF PlayOk
<1>3. ASSUME NEW w, w[1] = 7, Len(w) >= 9, IntAt(w, 1) = m, IntAt(w, 5) = n
      PROVE  ReadPlayOk(w) = [answer |-> "ok", ok1 |-> m, ok2 |-> n]
  <2>1. w[1] # 6
    BY <1>3
  <2> QED
    BY <1>3, <2>1, Zenon DEF ReadPlayOk
<1> QED
  BY <1>2, <1>3

LEMMA PlayFailIsRead ==
  ASSUME NEW reason \in Byte
  PROVE  /\ PlayFail(reason) \in Seq(Byte)
         /\ \A w : Carries(w, PlayFail(reason)) =>
              ReadPlayOk(w) = [answer |-> "fail", reason |-> reason]
<1>1. ASSUME NEW w, w[1] = 6, w[2] = reason
      PROVE  ReadPlayOk(w) = [answer |-> "fail", reason |-> reason]
  <2>1. w[1] # 7
    BY <1>1
  <2> QED
    BY <1>1, <2>1, Zenon DEF ReadPlayOk
<1>2. 6 \in Byte
  BY DEF Byte
<1>3. /\ PlayFail(reason) \in Seq(Byte)
      /\ \A w : Carries(w, PlayFail(reason)) => w[1] = 6 /\ w[2] = reason
  BY <1>2, TwoBytesCarried DEF PlayFail
<1> QED
  BY <1>1, <1>3

LEMMA ElementsOfSeq ==
  ASSUME NEW S, NEW s \in Seq(S)
  PROVE  \A i \in 1 .. Len(s) : s[i] \in S
OBVIOUS

LEMMA WiderSeq ==
  ASSUME NEW S, NEW T, S \subseteq T, NEW s \in Seq(S)
  PROVE  s \in Seq(T)
OBVIOUS

\* An account's name is one of the strings a packet may hold.
LEMMA NamesAreTexts ==
  ASSUME NEW s \in Seq(1 .. 127)
  PROVE  s \in Texts
<1> DEFINE S == 1 .. 127
<1>1. S \subseteq Nat /\ \A c \in S : IsChar(c)
  BY DEF IsChar, IsLow, IsHigh
<1>2. s \in Seq(S)
  OBVIOUS
<1> HIDE DEF S
<1>3. (\A i \in 1 .. Len(s) : s[i] \in S) /\ s \in Seq(Nat)
  BY <1>1, <1>2, ElementsOfSeq, WiderSeq
<1> QED
  BY <1>1, <1>3 DEF Texts

\* A packet of two bytes and another part.
LEMMA AuthResponseIsRead ==
  ASSUME NEW id \in Byte, NEW name \in Texts
  PROVE  /\ AuthResponse(id, name) \in Seq(Byte)
         /\ \A w : Carries(w, AuthResponse(id, name)) =>
              ReadAuthResponse(w) = [answer |-> "ok", id |-> id]
<1> DEFINE a == <<2, id>>
<1>1. 2 \in Byte
  BY DEF Byte
<1>2. /\ a \in Seq(Byte)
      /\ \A w : Carries(w, a) => w[1] = 2 /\ w[2] = id /\ Len(w) >= 2
  BY <1>1, TwoBytesCarried
<1>3. PutString(name) \in Seq(Byte)
  BY StringIsBytes DEF AreBytes
<1> HIDE DEF a
<1>4. a \o PutString(name) \in Seq(Byte)
  BY <1>2, <1>3, ConcatInSeq
<1>5. ASSUME NEW w, Carries(w, a \o PutString(name))
      PROVE  ReadAuthResponse(w) = [answer |-> "ok", id |-> id]
  <2>1. Carries(w, a)
    BY <1>2, <1>3, <1>5, CarriesFirst
  <2>2. w[1] = 2 /\ w[2] = id /\ Len(w) >= 2
    BY <1>2, <2>1
  <2>3. w[1] # 1
    BY <2>2
  <2> QED
    BY <2>2, <2>3, Zenon DEF ReadAuthResponse
<1>6. AuthResponse(id, name) = a \o PutString(name)
  BY DEF AuthResponse, a
<1> QED
  BY <1>4, <1>5, <1>6

LEMMA LoginServerFailIsRead ==
  ASSUME NEW reason \in Byte
  PROVE  /\ LoginServerFail(reason) \in Seq(Byte)
         /\ \A w : Carries(w, LoginServerFail(reason)) =>
              ReadAuthResponse(w) = [answer |-> "fail", reason |-> reason]
<1>1. ASSUME NEW w, w[1] = 1, w[2] = reason, Len(w) >= 2
      PROVE  ReadAuthResponse(w) = [answer |-> "fail", reason |-> reason]
  <2>1. w[1] # 2
    BY <1>1
  <2> QED
    BY <1>1, <2>1, Zenon DEF ReadAuthResponse
<1>2. 1 \in Byte
  BY DEF Byte
<1>3. /\ LoginServerFail(reason) \in Seq(Byte)
      /\ \A w : Carries(w, LoginServerFail(reason)) => w[1] = 1 /\ w[2] = reason /\ Len(w) >= 2
  BY <1>2, TwoBytesCarried DEF LoginServerFail
<1> QED
  BY <1>1, <1>3

\* A string behind the first byte.
LEMMA StringCarried ==
  ASSUME NEW t \in Byte, NEW s \in Texts
  PROVE  /\ <<t>> \o PutString(s) \in Seq(Byte)
         /\ \A w : Carries(w, <<t>> \o PutString(s)) =>
              /\ w[1] = t /\ SubSeq(w, 2, Len(w)) \in Seq(Byte)
              /\ Has(w, 1, PutString(s)) /\ Has(SubSeq(w, 2, Len(w)), 0, PutString(s))
              /\ ReadString(NewReader(SubSeq(w, 2, Len(w))))
                   = At(SubSeq(w, 2, Len(w)), Len(PutString(s)), With(<<>>, s))
<1> DEFINE n == Len(PutString(s))
<1>1. AreBytes(<<t>>, 1) /\ AreBytes(PutString(s), n) /\ n \in Nat
  BY OneByte, StringIsBytes
<1>2. <<t>> \o PutString(s) \in Seq(Byte)
  BY <1>1, ConcatInSeq DEF AreBytes
<1>3. ASSUME NEW w, Carries(w, <<t>> \o PutString(s))
      PROVE  /\ w[1] = t /\ SubSeq(w, 2, Len(w)) \in Seq(Byte)
             /\ Has(w, 1, PutString(s)) /\ Has(SubSeq(w, 2, Len(w)), 0, PutString(s))
             /\ ReadString(NewReader(SubSeq(w, 2, Len(w)))) = At(SubSeq(w, 2, Len(w)), n, With(<<>>, s))
  <2> DEFINE body == SubSeq(w, 2, Len(w))
             g0 == <<>>
  <2>1. w \in Seq(Byte) /\ Has(w, 0, <<t>>) /\ Has(w, 1, PutString(s))
    BY <1>1, <1>3, HasBoth DEF Carries
  <2>2. HasByte(w, 0, t)
    BY <2>1, ByteHas
  <2>3. w[1] = t
    BY <2>2 DEF HasByte
  <2>4. body \in Seq(Byte) /\ Has(body, 0, PutString(s))
    <3>1. PutString(s) \in Seq(Byte) /\ 1 - 1 = 0
      BY <1>1 DEF AreBytes
    <3> QED
      BY <2>1, <2>2, <3>1, BodyOf
  <2>5. NewReader(body) = At(body, 0, g0)
    BY DEF NewReader, Reader, At
  <2> HIDE DEF body, g0
  <2>6. ReadString(At(body, 0, g0)) = At(body, 0 + n, With(g0, s)) /\ 0 + n = n
    BY <1>1, <2>4, ReadsString
  <2>7. ReadString(NewReader(body)) = At(body, n, With(g0, s))
    BY <2>5, <2>6
  <2> QED
    BY <2>1, <2>3, <2>4, <2>7 DEF body, g0
<1> QED
  BY <1>2, <1>3

\* What the listener takes the packet of a player who enters for: one who leaves.
LEMMA EnteringUnderstood ==
  ASSUME NEW s \in Texts
  PROVE  /\ PlayerInGame(s) \in Seq(Byte)
         /\ \A w : Carries(w, PlayerInGame(s)) => UnderstoodReport(w) = [report |-> "left", accounts |-> <<s>>]
<1>1. 3 \in Byte /\ PlayerInGame(s) = <<3>> \o PutString(s)
  BY DEF Byte, PlayerInGame
<1>2. ASSUME NEW w, Carries(w, PlayerInGame(s))
      PROVE  UnderstoodReport(w) = [report |-> "left", accounts |-> <<s>>]
  <2> DEFINE body == SubSeq(w, 2, Len(w))
             n == Len(PutString(s))
             left == ParsePlayerLogout(body)
             online == ParsePlayerInGame(body)
             status == ParseServerStatus(body)
  <2>1. w[1] = 3 /\ ReadString(NewReader(body)) = At(body, n, With(<<>>, s))
    BY <1>1, <1>2, StringCarried
  <2>2. UnderstoodReport(w) =
          CASE w[1] = 2 /\ online.ok -> [report |-> "online", accounts |-> online.accounts]
            [] w[1] = 3 /\ left.ok   -> [report |-> "left", accounts |-> <<left.account>>]
            [] w[1] = 6 /\ status.ok -> [report |-> "status", attrs |-> status.attrs]
            [] OTHER -> [report |-> "refused"]
    BY Zenon DEF UnderstoodReport
  <2> HIDE DEF body, n, online, status
  <2>3. At(body, n, With(<<>>, s)).ok /\ At(body, n, With(<<>>, s)).got = <<s>>
    BY Append0 DEF At, Reader
  <2>4. <<s>>[1] = s
    OBVIOUS
  <2>5. left = [ok |-> TRUE, account |-> s]
    BY <2>1, <2>3, <2>4, Zenon DEF ParsePlayerLogout
  <2> HIDE DEF left
  <2>6. left.ok /\ left.account = s
    BY <2>5
  <2> QED
    BY <2>1, <2>2, <2>6
<1> QED
  BY <1>1, <1>2, StringCarried

\* And that of one who leaves is refused.
LEMMA LeavingUnderstood ==
  ASSUME NEW s \in Texts
  PROVE  /\ PlayerLogout(s) \in Seq(Byte)
         /\ \A w : Carries(w, PlayerLogout(s)) => UnderstoodReport(w) = [report |-> "refused"]
<1>1. 4 \in Byte /\ PlayerLogout(s) = <<4>> \o PutString(s)
  BY DEF Byte, PlayerLogout
<1>2. ASSUME NEW w, Carries(w, PlayerLogout(s)) PROVE w[1] = 4
  BY <1>1, <1>2, StringCarried
<1>3. ASSUME NEW w, w[1] = 4 PROVE UnderstoodReport(w) = [report |-> "refused"]
  BY <1>3 DEF UnderstoodReport
<1> QED
  BY <1>1, <1>2, <1>3, StringCarried

\* The session id comes back.
LEMMA GameGuardIsRead ==
  ASSUME NEW session, IsInt32(session)
  PROVE  /\ SendAuthGameGuard(session) \in Seq(Byte)
         /\ \A w : Carries(w, SendAuthGameGuard(session)) =>
              ParseAuthGameGuard(SubSeq(w, 2, Len(w))) = [ok |-> TRUE, session |-> session]
<1> DEFINE a == <<7>> \o PutInt(session)
<1>1. 7 \in Byte /\ Zeros(16) \in Seq(Byte)
  BY ZerosInSeq DEF Byte
<1>2. /\ a \in Seq(Byte)
      /\ \A w : Carries(w, a) =>
           /\ SubSeq(w, 2, Len(w)) \in Seq(Byte) /\ Len(SubSeq(w, 2, Len(w))) >= 4
           /\ IntAt(SubSeq(w, 2, Len(w)), 0) = session
  BY <1>1, OneIntCarried
<1>3. SendAuthGameGuard(session) = a \o Zeros(16)
  BY DEF SendAuthGameGuard
<1> HIDE DEF a
<1>4. a \o Zeros(16) \in Seq(Byte)
  BY <1>1, <1>2, ConcatInSeq
<1>5. ASSUME NEW w, Carries(w, a \o Zeros(16))
      PROVE  ParseAuthGameGuard(SubSeq(w, 2, Len(w))) = [ok |-> TRUE, session |-> session]
  <2> DEFINE body == SubSeq(w, 2, Len(w))
  <2>1. Carries(w, a)
    BY <1>1, <1>2, <1>5, CarriesFirst
  <2>2. body \in Seq(Byte) /\ Len(body) >= 4 /\ IntAt(body, 0) = session
    BY <1>2, <2>1
  <2> HIDE DEF body
  <2>3. ~ (Len(body) < 4)
    BY <2>2
  <2>4. ParseAuthGameGuard(body) = [ok |-> TRUE, session |-> session]
    BY <2>2, <2>3, Zenon DEF ParseAuthGameGuard
  <2> QED
    BY <2>4 DEF body
<1> QED
  BY <1>3, <1>4, <1>5

LEMMA GGAuthIsBytes ==
  ASSUME NEW session, IsInt32(session)
  PROVE  GGAuth(session) \in Seq(Byte)
<1>1. 11 \in Byte /\ Zeros(16) \in Seq(Byte)
  BY ZerosInSeq DEF Byte
<1>2. <<11>> \o PutInt(session) \in Seq(Byte)
  BY <1>1, OneIntCarried
<1> QED
  BY <1>1, <1>2, ConcatInSeq DEF GGAuth

LEMMA FixedInSeq ==
  ASSUME NEW b \in Seq(Byte), NEW n \in Nat
  PROVE  AreBytes(Fixed(b, n), n)
<1>1. \A i \in 1 .. n : (IF i <= Len(b) THEN b[i] ELSE 0) \in Byte
  <2>1. 0 \in Byte /\ Len(b) \in Nat
    BY DEF Byte
  <2>2. \A i \in 1 .. Len(b) : b[i] \in Byte
    BY ElementsOfSeq
  <2>3. ASSUME NEW i \in 1 .. n PROVE (IF i <= Len(b) THEN b[i] ELSE 0) \in Byte
    <3>1. i <= Len(b) => i \in 1 .. Len(b)
      BY <2>1
    <3> QED
      BY <2>1, <2>2, <3>1
  <2> QED
    BY <2>3
<1>2. Fixed(b, n) \in [1 .. n -> Byte]
  BY <1>1 DEF Fixed
<1> QED
  BY <1>2, SeqDef, LenProperties DEF AreBytes

LEMMA RequestAuthLoginIsBytes ==
  ASSUME NEW c \in Credentials
  PROVE  SendRequestAuthLogin(c.login, c.password) \in Seq(Byte)
<1> DEFINE f == Zeros(94) \o Fixed(c.login, 14)
           g == f \o Fixed(c.password, 16)
           block == g \o Zeros(4)
<1>1. c.login \in Seq(Byte) /\ c.password \in Seq(Byte)
  <2>1. c.login \in Seq(1 .. 127) /\ c.password \in Seq(1 .. 127)
    BY CredentialsAssumption
  <2>2. 1 .. 127 \subseteq Byte
    BY DEF Byte
  <2> QED
    BY <2>1, <2>2, WiderSeq
<1>2. /\ AreBytes(Zeros(94), 94) /\ AreBytes(Fixed(c.login, 14), 14)
      /\ AreBytes(Fixed(c.password, 16), 16) /\ AreBytes(Zeros(4), 4)
  BY <1>1, ZerosAreBytes, FixedInSeq
<1>3. AreBytes(block, 128)
  <2>1. AreBytes(f, 94 + 14)
    BY <1>2, Glued
  <2> HIDE DEF f
  <2>2. AreBytes(g, 108 + 16)
    BY <1>2, <2>1, Glued
  <2> HIDE DEF g
  <2>3. AreBytes(block, 124 + 4)
    BY <1>2, <2>2, Glued
  <2> QED
    BY <2>3
<1>4. SendRequestAuthLogin(c.login, c.password) = <<0>> \o LeftPad(Significant(block), 128)
  BY DEF SendRequestAuthLogin, RSAEncrypt
<1> HIDE DEF block
<1>5. LeftPad(Significant(block), 128) = block
  BY <1>3, PadSignificant
<1>6. <<0>> \in Seq(Byte) /\ block \in Seq(Byte)
  BY <1>3 DEF AreBytes, Byte
<1> QED
  BY <1>4, <1>5, <1>6, ConcatInSeq

\* The login pair comes back with a request.
LEMMA RequestServerListIsRead ==
  ASSUME NEW m, IsInt32(m), NEW n, IsInt32(n)
  PROVE  ParseRequestServerList(Tail(SendRequestServerList(m, n)))
           = [ok |-> TRUE, ok1 |-> m, ok2 |-> n]
<1> DEFINE w == SendRequestServerList(m, n)
           body == SubSeq(w, 2, Len(w))
<1>1. 5 \in Byte
  BY DEF Byte
<1>2. /\ w \in Seq(Byte)
      /\ \A v : Carries(v, w) =>
           /\ Len(v) >= 9 /\ SubSeq(v, 2, Len(v)) \in Seq(Byte) /\ Len(SubSeq(v, 2, Len(v))) >= 8
           /\ IntAt(SubSeq(v, 2, Len(v)), 0) = m /\ IntAt(SubSeq(v, 2, Len(v)), 4) = n
  BY <1>1, TwoIntsCarried DEF SendRequestServerList
<1> HIDE DEF w
<1>3. Carries(w, w)
  BY <1>2, CarriesItself
<1>4. /\ Len(w) >= 9 /\ body \in Seq(Byte) /\ Len(body) >= 8
      /\ IntAt(body, 0) = m /\ IntAt(body, 4) = n
  BY <1>2, <1>3
<1>5. Tail(w) = body
  <2>1. w # <<>>
    BY <1>4
  <2> QED
    BY <1>2, <2>1, TailIsBody
<1> HIDE DEF body
<1>6. ~ (Len(body) < 8)
  BY <1>4
<1>7. ParseRequestServerList(body) = [ok |-> TRUE, ok1 |-> m, ok2 |-> n]
  BY <1>4, <1>6, Zenon DEF ParseRequestServerList
<1> QED
  BY <1>5, <1>7 DEF w

\* And with the choice of a server.
LEMMA RequestServerLoginIsRead ==
  ASSUME NEW m, IsInt32(m), NEW n, IsInt32(n), NEW id \in Byte
  PROVE  /\ SendRequestServerLogin(m, n, id) \in Seq(Byte)
         /\ \A w : Carries(w, SendRequestServerLogin(m, n, id)) =>
              ParseRequestServerLogin(SubSeq(w, 2, Len(w)))
                = [ok |-> TRUE, ok1 |-> m, ok2 |-> n, id |-> id]
<1> DEFINE a == <<2>> \o PutInt(m) \o PutInt(n)
<1>1. 2 \in Byte
  BY DEF Byte
<1>2. /\ a \in Seq(Byte)
      /\ \A w : Carries(w, a) =>
           /\ w[1] = 2 /\ Len(w) >= 9
           /\ SubSeq(w, 2, Len(w)) \in Seq(Byte) /\ Len(SubSeq(w, 2, Len(w))) >= 8
           /\ IntAt(SubSeq(w, 2, Len(w)), 0) = m /\ IntAt(SubSeq(w, 2, Len(w)), 4) = n
  BY <1>1, TwoIntsCarried
<1>3. AreBytes(a, 9) /\ AreBytes(<<id>>, 1)
  <2>1. AreBytes(<<2>>, 1) /\ AreBytes(PutInt(m), 4) /\ AreBytes(PutInt(n), 4)
    BY <1>1, OneByte, IntIsBytes DEF IsInt32
  <2>2. AreBytes(<<2>> \o PutInt(m), 1 + 4)
    BY <2>1, Glued
  <2>3. AreBytes(a, 5 + 4)
    BY <2>1, <2>2, Glued
  <2> QED
    BY <2>3, OneByte
<1>4. SendRequestServerLogin(m, n, id) = a \o <<id>>
  BY DEF SendRequestServerLogin
<1> HIDE DEF a
<1>5. a \o <<id>> \in Seq(Byte)
  BY <1>3, Glued DEF AreBytes
<1>6. ASSUME NEW w, Carries(w, a \o <<id>>)
      PROVE  ParseRequestServerLogin(SubSeq(w, 2, Len(w)))
               = [ok |-> TRUE, ok1 |-> m, ok2 |-> n, id |-> id]
  <2> DEFINE body == SubSeq(w, 2, Len(w))
  <2>1. Carries(w, a)
    BY <1>3, <1>6, CarriesFirst DEF AreBytes
  <2>2. w[1] = 2 /\ Len(w) >= 9 /\ body \in Seq(Byte) /\ IntAt(body, 0) = m /\ IntAt(body, 4) = n
    BY <1>2, <2>1
  <2>3. w \in Seq(Byte) /\ Has(w, 9, <<id>>)
    BY <1>3, <1>6, HasBoth DEF Carries
  <2>4. HasByte(w, 0, 2) /\ HasByte(w, 9, id)
    BY <2>2, <2>3, ByteHas DEF HasByte
  <2>5. HasByte(body, 8, id)
    <3>1. 9 \in Nat \ {0} /\ 9 - 1 = 8
      OBVIOUS
    <3> QED
      BY <2>3, <2>4, <3>1, BodyOf
  <2> HIDE DEF body
  <2>6. body[9] = id /\ ~ (Len(body) < 9)
    <3>1. 8 + 1 <= Len(body) /\ body[8 + 1] = id /\ Len(body) \in Nat /\ 8 + 1 = 9
      BY <2>2, <2>5 DEF HasByte
    <3> QED
      BY <3>1
  <2>7. ParseRequestServerLogin(body) = [ok |-> TRUE, ok1 |-> m, ok2 |-> n, id |-> id]
    BY <2>2, <2>6, Zenon DEF ParseRequestServerLogin
  <2> QED
    BY <2>7 DEF body
<1> QED
  BY <1>4, <1>5, <1>6

\* The key of a game server's client is read as it was sent.
LEMMA KeyPacketIsRead ==
  ASSUME NEW key, AreBytes(key, 16)
  PROVE  /\ KeyPacket(key) \in Seq(Byte)
         /\ ReadKeyPacket(KeyPacket(key)) = [ok |-> TRUE, key |-> key]
<1> DEFINE a == <<46, 1>>
           w == a \o key
<1>1. AreBytes(a, 2)
  BY DEF AreBytes, Byte
<1>2. a[1] = 46 /\ a[2] = 1 /\ Len(a) = 2
  OBVIOUS
<1> HIDE DEF a
<1>3. w \in Seq(Byte) /\ Has(w, 0, a \o key)
  <2>1. w \in Seq(Byte)
    BY <1>1, Glued DEF AreBytes
  <2> QED
    BY <2>1, HasItself
<1> HIDE DEF w
<1>4. Has(w, 0, a) /\ Has(w, 2, key)
  BY <1>1, <1>3, HasBoth
<1>5. w[1] = 46 /\ w[2] = 1
  <2>1. w[0 + 1] = a[1] /\ w[0 + 2] = a[2] /\ 0 + 1 = 1 /\ 0 + 2 = 2
    BY <1>2, <1>4 DEF Has
  <2> QED
    BY <1>2, <2>1
<1>6. Slice(w, 2, 16) = key
  BY <1>3, <1>4, SliceHas
<1>7. ~ (w[1] # 46 \/ w[2] # 1)
  BY <1>5
<1>8. ReadKeyPacket(w) = [ok |-> TRUE, key |-> key]
  BY <1>6, <1>7, Zenon DEF ReadKeyPacket
<1>9. KeyPacket(key) = w
  BY DEF KeyPacket, w, a
<1> QED
  BY <1>3, <1>8, <1>9

\* A version is accepted if it is the right one.
LEMMA VersionIsRead ==
  ASSUME NEW revision, IsInt32(revision)
  PROVE  /\ SendProtocolVersion(revision) \in Seq(Byte)
         /\ \A w : Carries(w, SendProtocolVersion(revision)) =>
              ParseProtocolVersion(SubSeq(w, 2, Len(w)))
                = [ok |-> TRUE, valid |-> revision = ProtocolRevision]
<1>1. 14 \in Byte
  BY DEF Byte
<1>2. SendProtocolVersion(revision) \in Seq(Byte)
  BY <1>1, OneIntCarried DEF SendProtocolVersion
<1>3. ASSUME NEW w, Carries(w, << 14 >> \o PutInt(revision))
      PROVE  ParseProtocolVersion(SubSeq(w, 2, Len(w)))
               = [ok |-> TRUE, valid |-> revision = ProtocolRevision]
  <2> DEFINE body == SubSeq(w, 2, Len(w))
             g0 == <<>>
             g1 == <<revision>>
  <2>1. body \in Seq(Byte) /\ Has(body, 0, PutInt(revision))
    BY <1>1, <1>3, OneIntCarried
  <2>2. NewReader(body) = At(body, 0, g0) /\ With(g0, revision) = g1
    BY Append0 DEF NewReader, Reader, At
  <2>3. At(body, 4, g1).ok /\ At(body, 4, g1).got = g1 /\ g1[1] = revision
    BY DEF Reader, At
  <2> HIDE DEF body, g0, g1
  <2>4. ReadInt(At(body, 0, g0)) = At(body, 4, g1)
    BY <2>1, <2>2, ReadsInt
  <2>5. ParseProtocolVersion(body) = [ok |-> TRUE, valid |-> revision = ProtocolRevision]
    <3> DEFINE r == ReadInt(NewReader(body))
               Version(v) == [ok |-> TRUE, valid |-> v = ProtocolRevision]
    <3>1. ParseProtocolVersion(body) = IF ~r.ok THEN Malformed ELSE Version(r.got[1])
      BY Zenon DEF ParseProtocolVersion
    <3>2. r = At(body, 4, g1)
      BY <2>2, <2>4
    <3> HIDE DEF r, Version
    <3>3. r.ok /\ r.got[1] = revision
      BY <2>3, <3>2
    <3>4. ParseProtocolVersion(body) = Version(revision)
      BY <3>1, <3>3, Zenon
    <3> QED
      BY <3>4 DEF Version
  <2> QED
    BY <2>5 DEF body
<1> QED
  BY <1>2, <1>3 DEF SendProtocolVersion

-----------------------------------------------------------------------------
(* The packets with a session key.                                          *)

IsKey(sk) ==
  /\ sk \in [login1 : Int, login2 : Int, play1 : Int, play2 : Int]
  /\ IsInt32(sk.login1) /\ IsInt32(sk.login2) /\ IsInt32(sk.play1) /\ IsInt32(sk.play2)

LEMMA KeyOfFields ==
  ASSUME NEW sk, IsKey(sk)
  PROVE  SessionKey(sk.play1, sk.play2, sk.login1, sk.login2) = sk
BY DEF IsKey, SessionKey

\* Four integers in a row.
Ints(a, b, c, d) == PutInt(a) \o PutInt(b) \o PutInt(c) \o PutInt(d)

LEMMA IntsAreBytes ==
  ASSUME NEW a, IsInt32(a), NEW b, IsInt32(b), NEW c, IsInt32(c), NEW d, IsInt32(d)
  PROVE  AreBytes(Ints(a, b, c, d), 16)
<1> DEFINE ab == PutInt(a) \o PutInt(b)
           abc == ab \o PutInt(c)
<1>1. AreBytes(PutInt(a), 4) /\ AreBytes(PutInt(b), 4) /\ AreBytes(PutInt(c), 4) /\ AreBytes(PutInt(d), 4)
  BY IntIsBytes DEF IsInt32
<1>2. AreBytes(ab, 4 + 4)
  BY <1>1, Glued
<1> HIDE DEF ab
<1>3. AreBytes(abc, 8 + 4)
  BY <1>1, <1>2, Glued
<1> HIDE DEF abc
<1>4. AreBytes(abc \o PutInt(d), 12 + 4)
  BY <1>1, <1>3, Glued
<1> QED
  BY <1>4 DEF abc, ab, Ints

LEMMA ReadsKey ==
  ASSUME NEW a, IsInt32(a), NEW b, IsInt32(b), NEW c, IsInt32(c), NEW e, IsInt32(e),
         NEW d \in Seq(Byte), NEW p \in Nat, Has(d, p, Ints(a, b, c, e)), NEW g
  PROVE  ReadKey(At(d, p, g)) = At(d, p + 16, With(With(With(With(g, a), b), c), e))
<1> DEFINE ab == PutInt(a) \o PutInt(b)
           abc == ab \o PutInt(c)
<1>1. AreBytes(PutInt(a), 4) /\ AreBytes(PutInt(b), 4) /\ AreBytes(PutInt(c), 4) /\ AreBytes(PutInt(e), 4)
  BY IntIsBytes DEF IsInt32
<1>2. AreBytes(ab, 8)
  <2>1. AreBytes(ab, 4 + 4)
    BY <1>1, Glued
  <2> QED
    BY <2>1
<1>3. Has(d, p, abc \o PutInt(e))
  BY DEF Ints
<1>4. AreBytes(abc, 12)
  <2> HIDE DEF ab
  <2>1. AreBytes(abc, 8 + 4)
    BY <1>1, <1>2, Glued
  <2> QED
    BY <2>1
<1> HIDE DEF abc
<1>5. Has(d, p, abc) /\ Has(d, p + 12, PutInt(e))
  BY <1>1, <1>3, <1>4, HasBoth
<1>6. Has(d, p, ab \o PutInt(c))
  BY <1>5 DEF abc
<1> HIDE DEF ab
<1>7. Has(d, p, ab) /\ Has(d, p + 8, PutInt(c))
  BY <1>1, <1>2, <1>6, HasBoth
<1>8. Has(d, p, PutInt(a) \o PutInt(b))
  BY <1>7 DEF ab
<1>9. Has(d, p, PutInt(a)) /\ Has(d, p + 4, PutInt(b))
  BY <1>1, <1>8, HasBoth
<1> DEFINE g1 == With(g, a)
           g2 == With(g1, b)
           g3 == With(g2, c)
           p1 == p + 4
           p2 == p + 8
           p3 == p + 12
<1>10. p1 \in Nat /\ p2 \in Nat /\ p3 \in Nat /\ p1 + 4 = p2 /\ p2 + 4 = p3 /\ p3 + 4 = p + 16
  OBVIOUS
<1> HIDE DEF p1, p2, p3
<1>11. Has(d, p1, PutInt(b)) /\ Has(d, p2, PutInt(c)) /\ Has(d, p3, PutInt(e)) /\ p + 4 = p1
  BY <1>5, <1>7, <1>9 DEF p1, p2, p3
<1>12. ReadInt(At(d, p, g)) = At(d, p1, g1)
  BY <1>9, <1>11, ReadsInt
<1> HIDE DEF g1
<1>13. ReadInt(At(d, p1, g1)) = At(d, p2, g2)
  BY <1>10, <1>11, ReadsInt
<1> HIDE DEF g2
<1>14. ReadInt(At(d, p2, g2)) = At(d, p3, g3)
  BY <1>10, <1>11, ReadsInt
<1> HIDE DEF g3
<1>15. ReadInt(At(d, p3, g3)) = At(d, p + 16, With(g3, e))
  BY <1>10, <1>11, ReadsInt
<1>16. ReadKey(At(d, p, g)) = At(d, p + 16, With(g3, e))
  BY <1>12, <1>13, <1>14, <1>15 DEF ReadKey
<1> QED
  BY <1>16 DEF g1, g2, g3

KeyInts(sk) == Ints(sk.play1, sk.play2, sk.login1, sk.login2)

\* A string and a session key behind the first byte.
NamedKey(t, s, sk) == <<t>> \o PutString(s) \o KeyInts(sk)

LEMMA NamedKeyCarried ==
  ASSUME NEW t \in Byte, NEW s \in Texts, NEW sk, IsKey(sk)
  PROVE  /\ NamedKey(t, s, sk) \in Seq(Byte)
         /\ Len(NamedKey(t, s, sk)) = Len(PutString(s)) + 17
         /\ \A w : Carries(w, NamedKey(t, s, sk)) =>
              /\ w[1] = t /\ SubSeq(w, 2, Len(w)) \in Seq(Byte)
              /\ ReadKey(ReadString(NewReader(SubSeq(w, 2, Len(w)))))
                   = At(SubSeq(w, 2, Len(w)), Len(PutString(s)) + 16,
                        <<s, sk.play1, sk.play2, sk.login1, sk.login2>>)
<1> DEFINE n == Len(PutString(s))
           a == <<t>> \o PutString(s)
           k == KeyInts(sk)
<1>1. AreBytes(<<t>>, 1) /\ AreBytes(PutString(s), n) /\ n \in Nat
  BY OneByte, StringIsBytes
<1>2. IsInt32(sk.play1) /\ IsInt32(sk.play2) /\ IsInt32(sk.login1) /\ IsInt32(sk.login2)
  BY DEF IsKey
<1>3. AreBytes(a, 1 + n) /\ AreBytes(k, 16)
  BY <1>1, <1>2, Glued, IntsAreBytes DEF KeyInts
<1>4. AreBytes(a \o k, (1 + n) + 16)
  <2> HIDE DEF a, k
  <2> QED
    BY <1>1, <1>3, Glued
<1>5. ASSUME NEW w, Carries(w, a \o k)
      PROVE  /\ w[1] = t /\ SubSeq(w, 2, Len(w)) \in Seq(Byte)
             /\ ReadKey(ReadString(NewReader(SubSeq(w, 2, Len(w)))))
                  = At(SubSeq(w, 2, Len(w)), n + 16,
                       <<s, sk.play1, sk.play2, sk.login1, sk.login2>>)
  <2> DEFINE body == SubSeq(w, 2, Len(w))
             g0 == <<>>
             g1 == <<s>>
             g2 == <<s, sk.play1>>
             g3 == <<s, sk.play1, sk.play2>>
             g4 == <<s, sk.play1, sk.play2, sk.login1>>
             g5 == <<s, sk.play1, sk.play2, sk.login1, sk.login2>>
  <2>1. w \in Seq(Byte) /\ Has(w, 0, a) /\ Has(w, 1 + n, k)
    <3> HIDE DEF a, k
    <3> QED
      BY <1>1, <1>3, <1>5, HasBoth DEF Carries
  <2>2. Carries(w, a)
    BY <2>1 DEF Carries
  <2>3. /\ w[1] = t /\ body \in Seq(Byte)
        /\ ReadString(NewReader(body)) = At(body, n, With(g0, s))
    BY <2>2, StringCarried
  <2>4. Has(body, n, Ints(sk.play1, sk.play2, sk.login1, sk.login2))
    <3>1. HasByte(w, 0, t)
      BY <1>1, <2>1, <2>3, HasBoth, ByteHas
    <3>2. k \in Seq(Byte) /\ 1 + n \in Nat \ {0} /\ (1 + n) - 1 = n
      BY <1>1, <1>3 DEF AreBytes
    <3> HIDE DEF k
    <3>3. Has(body, (1 + n) - 1, k)
      BY <2>1, <3>1, <3>2, BodyOf
    <3> QED
      BY <3>2, <3>3 DEF k, KeyInts
  <2>5. /\ With(g0, s) = g1 /\ With(g1, sk.play1) = g2 /\ With(g2, sk.play2) = g3
        /\ With(g3, sk.login1) = g4 /\ With(g4, sk.login2) = g5
    BY Append0, Append1, Append2, Append3, Append4
  <2> HIDE DEF g0, g1, g2, g3, g4, g5, body
  <2>6. ReadKey(At(body, n, g1)) = At(body, n + 16, g5)
    <3>1. ReadKey(At(body, n, g1))
            = At(body, n + 16,
                 With(With(With(With(g1, sk.play1), sk.play2), sk.login1), sk.login2))
      BY <1>1, <1>2, <2>3, <2>4, ReadsKey
    <3> QED
      BY <2>5, <3>1
  <2>7. ReadKey(ReadString(NewReader(body))) = At(body, n + 16, g5)
    BY <2>3, <2>5, <2>6
  <2> QED
    BY <2>3, <2>7 DEF body, g5
<1>6. NamedKey(t, s, sk) = a \o k
  BY DEF NamedKey
<1>7. a \o k \in Seq(Byte) /\ Len(a \o k) = n + 17
  BY <1>1, <1>4 DEF AreBytes
<1> QED
  BY <1>5, <1>6, <1>7

\* A name and a session key are read as they were written: by the login server,
LEMMA PlayerAuthRequestIsRead ==
  ASSUME NEW s \in Texts, NEW sk, IsKey(sk)
  PROVE  /\ SendPlayerAuthRequest(s, sk) \in Seq(Byte)
         /\ \A w : Carries(w, SendPlayerAuthRequest(s, sk)) =>
              ParsePlayerAuthRequest(SubSeq(w, 2, Len(w))) = [ok |-> TRUE, account |-> s, key |-> sk]
<1>1. SendPlayerAuthRequest(s, sk) = NamedKey(5, s, sk) /\ 5 \in Byte
  BY DEF SendPlayerAuthRequest, NamedKey, PlayFirst, KeyInts, Ints, Byte
<1>2. ASSUME NEW w, Carries(w, NamedKey(5, s, sk))
      PROVE  ParsePlayerAuthRequest(SubSeq(w, 2, Len(w))) = [ok |-> TRUE, account |-> s, key |-> sk]
  <2> DEFINE body == SubSeq(w, 2, Len(w))
             n == Len(PutString(s)) + 16
             g == <<s, sk.play1, sk.play2, sk.login1, sk.login2>>
  <2>1. ReadKey(ReadString(NewReader(body))) = At(body, n, g)
    BY <1>1, <1>2, NamedKeyCarried
  <2>2. g[1] = s /\ g[2] = sk.play1 /\ g[3] = sk.play2 /\ g[4] = sk.login1 /\ g[5] = sk.login2
    OBVIOUS
  <2> HIDE DEF body, g, n
  <2>3. At(body, n, g).ok /\ At(body, n, g).got = g
    BY DEF At, Reader
  <2>4. SessionKey(g[2], g[3], g[4], g[5]) = sk
    BY <2>2, KeyOfFields
  <2>5. ParsePlayerAuthRequest(body) = [ok |-> TRUE, account |-> s, key |-> sk]
    BY <2>1, <2>2, <2>3, <2>4, Zenon DEF ParsePlayerAuthRequest
  <2> QED
    BY <2>5 DEF body
<1>3. NamedKey(5, s, sk) \in Seq(Byte)
  BY <1>1, NamedKeyCarried
<1> QED
  BY <1>1, <1>2, <1>3

\* n zero bytes.
AllZero(b, n) == AreBytes(b, n) /\ \A k \in 1 .. n : b[k] = 0

LEMMA GluedZeros ==
  ASSUME NEW n \in Nat, NEW m \in Nat, NEW a, AllZero(a, n), NEW b, AllZero(b, m)
  PROVE  AllZero(a \o b, n + m)
<1> DEFINE c == a \o b
<1>1. AreBytes(a, n) /\ AreBytes(b, m) /\ (\A k \in 1 .. n : a[k] = 0) /\ \A k \in 1 .. m : b[k] = 0
  BY DEF AllZero
<1>2. AreBytes(c, n + m)
  BY <1>1, Glued
<1>3. Joins(c, a, b)
  BY <1>1, Joined DEF AreBytes
<1>4. (\A k \in 1 .. n : c[k] = a[k]) /\ \A k \in 1 .. m : c[n + k] = b[k]
  BY <1>1, <1>3 DEF Joins, AreBytes
<1> HIDE DEF c
<1>5. ASSUME NEW k \in 1 .. (n + m) PROVE c[k] = 0
  <2>1. k \in 1 .. n \/ (k - n \in 1 .. m /\ n + (k - n) = k)
    OBVIOUS
  <2> QED
    BY <1>1, <1>4, <2>1
<1> QED
  BY <1>2, <1>5 DEF AllZero, c

LEMMA ZerosAreInts == Zeros(16) = Ints(0, 0, 0, 0)
<1> DEFINE z == Ints(0, 0, 0, 0)
           z4 == PutInt(0)
           z8 == z4 \o z4
           z12 == z8 \o z4
<1>1. AreBytes(z4, 4) /\ z4 = <<0, 0, 0, 0>>
  BY IntIsBytes DEF PutInt
<1>2. AllZero(z4, 4)
  BY <1>1 DEF AllZero
<1> HIDE DEF z4
<1>3. AllZero(z8, 4 + 4)
  BY <1>2, GluedZeros
<1> HIDE DEF z8
<1>4. AllZero(z12, 8 + 4)
  BY <1>2, <1>3, GluedZeros
<1> HIDE DEF z12
<1>5. z = z12 \o z4
  BY DEF z12, z8, z4, Ints
<1> HIDE DEF z
<1>6. AllZero(z, 12 + 4)
  <2>1. AllZero(z12 \o z4, 12 + 4)
    BY <1>2, <1>4, GluedZeros
  <2> QED
    BY <1>5, <2>1, Zenon
<1>7. AreBytes(z, 16) /\ \A k \in 1 .. 16 : z[k] = 0
  BY <1>6 DEF AllZero
<1>8. AreBytes(Zeros(16), 16) /\ \A k \in 1 .. 16 : Zeros(16)[k] = 0
  BY ZerosAreBytes
<1>9. \A k \in 1 .. 16 : Zeros(16)[k] = z[k]
  BY <1>7, <1>8
<1>10. Zeros(16) = z
  BY <1>7, <1>8, <1>9, SameBytesAreOne
<1> QED
  BY <1>10 DEF z

\* and by the game server, whose packet has sixteen bytes more, read as a second key.
LEMMA AuthLoginIsRead ==
  ASSUME NEW s \in Texts, NEW sk, IsKey(sk)
  PROVE  /\ SendAuthLogin(s, sk) \in Seq(Byte)
         /\ \A w : Carries(w, SendAuthLogin(s, sk)) =>
              ParseAuthLogin(SubSeq(w, 2, Len(w))) = [ok |-> TRUE, account |-> s, key |-> sk]
<1> DEFINE a == NamedKey(8, s, sk)
           n == Len(PutString(s)) + 16
           z == Ints(0, 0, 0, 0)
<1>1. 8 \in Byte /\ IsInt32(0) /\ AreBytes(z, 16) /\ n \in Nat
  <2>1. 8 \in Byte /\ IsInt32(0)
    BY DEF Byte, IsInt32
  <2>2. Len(PutString(s)) \in Nat
    BY StringIsBytes
  <2> QED
    BY <2>1, <2>2, IntsAreBytes
<1>2. /\ a \in Seq(Byte) /\ Len(a) = 1 + n
      /\ \A w : Carries(w, a) =>
           /\ w[1] = 8 /\ SubSeq(w, 2, Len(w)) \in Seq(Byte)
           /\ ReadKey(ReadString(NewReader(SubSeq(w, 2, Len(w)))))
                = At(SubSeq(w, 2, Len(w)), n, <<s, sk.play1, sk.play2, sk.login1, sk.login2>>)
  <2>1. Len(PutString(s)) \in Nat
    BY StringIsBytes
  <2> QED
    BY <1>1, <2>1, NamedKeyCarried
<1>3. SendAuthLogin(s, sk) = a \o z
  BY ZerosAreInts DEF SendAuthLogin, NamedKey, PlayFirst, KeyInts, Ints
<1> HIDE DEF a
<1>4. a \o z \in Seq(Byte)
  BY <1>1, <1>2, ConcatInSeq DEF AreBytes
<1>5. ASSUME NEW w, Carries(w, a \o z)
      PROVE  ParseAuthLogin(SubSeq(w, 2, Len(w))) = [ok |-> TRUE, account |-> s, key |-> sk]
  <2> DEFINE body == SubSeq(w, 2, Len(w))
             g5 == <<s, sk.play1, sk.play2, sk.login1, sk.login2>>
             g6 == <<s, sk.play1, sk.play2, sk.login1, sk.login2, 0>>
             g7 == <<s, sk.play1, sk.play2, sk.login1, sk.login2, 0, 0>>
             g8 == <<s, sk.play1, sk.play2, sk.login1, sk.login2, 0, 0, 0>>
             g9 == <<s, sk.play1, sk.play2, sk.login1, sk.login2, 0, 0, 0, 0>>
  <2>1. AreBytes(a, 1 + n)
    BY <1>2 DEF AreBytes
  <2>2. w \in Seq(Byte) /\ Has(w, 0, a) /\ Has(w, 1 + n, z)
    <3> HIDE DEF z, n
    <3> QED
      BY <1>1, <1>5, <2>1, HasBoth DEF Carries
  <2>3. Carries(w, a)
    BY <2>2 DEF Carries
  <2>4. w[1] = 8 /\ body \in Seq(Byte) /\ ReadKey(ReadString(NewReader(body))) = At(body, n, g5)
    BY <1>2, <2>3
  <2>5. Has(body, n, Ints(0, 0, 0, 0))
    <3>1. HasByte(w, 0, 8)
      <4>1. 1 + n <= Len(w) /\ Len(w) \in Nat
        BY <1>2, <2>2 DEF Has
      <4> QED
        BY <1>1, <2>4, <4>1 DEF HasByte
    <3>2. z \in Seq(Byte) /\ 1 + n \in Nat \ {0} /\ (1 + n) - 1 = n
      BY <1>1 DEF AreBytes
    <3> HIDE DEF z
    <3>3. Has(body, (1 + n) - 1, z)
      BY <2>2, <3>1, <3>2, BodyOf
    <3> QED
      BY <3>2, <3>3 DEF z
  <2>6. /\ With(g5, 0) = g6 /\ With(g6, 0) = g7 /\ With(g7, 0) = g8 /\ With(g8, 0) = g9
    BY Append5, Append6, Append7, Append8
  <2>7. g9[1] = s /\ g9[2] = sk.play1 /\ g9[3] = sk.play2 /\ g9[4] = sk.login1 /\ g9[5] = sk.login2
    OBVIOUS
  <2> HIDE DEF body, g5, g6, g7, g8, g9, n, z
  <2>8. ReadKey(At(body, n, g5)) = At(body, n + 16, g9)
    <3>1. ReadKey(At(body, n, g5)) = At(body, n + 16, With(With(With(With(g5, 0), 0), 0), 0))
      BY <1>1, <2>4, <2>5, ReadsKey
    <3> QED
      BY <2>6, <3>1
  <2>9. At(body, n + 16, g9).ok /\ At(body, n + 16, g9).got = g9
    BY DEF At, Reader
  <2>10. SessionKey(g9[2], g9[3], g9[4], g9[5]) = sk
    BY <2>7, KeyOfFields
  <2>11. ParseAuthLogin(body) = [ok |-> TRUE, account |-> s, key |-> sk]
    BY <2>4, <2>7, <2>8, <2>9, <2>10, Zenon DEF ParseAuthLogin
  <2> QED
    BY <2>11 DEF body
<1> QED
  BY <1>3, <1>4, <1>5

\* What a reader that has read one more value says of it.
LEMMA WithOne ==
  ASSUME NEW x, NEW y, With(<<>>, x) = With(<<>>, y)
  PROVE  x = y
<1>1. <<x>> = <<y>>
  BY Append0
<1>2. <<x>>[1] = x /\ <<y>>[1] = y
  OBVIOUS
<1> QED
  BY <1>1, <1>2

\* The null units of what is unread, and the units before the m-th.
Nulls(r) == {k \in 1 .. ((Len(r.data) - r.pos) \div 2) : UnitAt(r, k) = 0}
Before(r, m) == [k \in 1 .. (m - 1) |-> UnitAt(r, k)]

\* A string that is read at p: its first null unit, and the runes of the units before it.
LEMMA UnitsOfString ==
  ASSUME NEW d \in Seq(Byte), NEW p \in Nat, NEW n \in Nat, NEW s,
         ReadString(At(d, p, <<>>)) = At(d, p + n, With(<<>>, s))
  PROVE  LET r == At(d, p, <<>>) IN
         /\ Nulls(r) # {} /\ Nulls(r) \in SUBSET Nat /\ n = 2 * Least(Nulls(r))
         /\ Runes(Before(r, Least(Nulls(r)))) = s
<1> DEFINE g0 == <<>>
           r == At(d, p, g0)
           nulls == Nulls(r)
           m == Least(nulls)
           v == Runes(Before(r, m))
           last == At(d, p + n, With(g0, s))
<1>1. r.data = d /\ r.pos = p /\ r.ok /\ r.got = g0 /\ last.ok /\ last.pos = p + n /\ last.got = With(g0, s)
  BY DEF At, Reader
<1>3. ReadString(r) = last
  OBVIOUS
<1> HIDE DEF last
<1>4. ReadString(r) = IF ~r.ok \/ nulls = {} THEN Fail(r) ELSE Read(r, 2 * m, v)
  BY Zenon DEF ReadString, Nulls, Before
<1> HIDE DEF v, m
<1>5. ~ Fail(r).ok
  BY DEF Fail, At, Reader
<1>6. nulls # {} /\ Read(r, 2 * m, v) = last
  BY <1>1, <1>3, <1>4, <1>5
<1>7. ~ (~r.ok \/ r.pos + 2 * m > Len(r.data))
  <2>1. CASE ~r.ok \/ r.pos + 2 * m > Len(r.data)
    <3>1. Read(r, 2 * m, v) = Fail(r)
      BY <2>1 DEF Read
    <3> QED
      BY <1>1, <1>5, <1>6, <3>1
  <2> QED
    BY <2>1
<1>8. Read(r, 2 * m, v) = [r EXCEPT !.pos = @ + 2 * m, !.got = Append(@, v)]
  BY <1>7 DEF Read
<1>9. last.pos = p + 2 * m /\ last.got = With(g0, v)
  <2>1. /\ [r EXCEPT !.pos = @ + 2 * m, !.got = Append(@, v)].pos = r.pos + 2 * m
        /\ [r EXCEPT !.pos = @ + 2 * m, !.got = Append(@, v)].got = Append(r.got, v)
    BY DEF At, Reader
  <2> QED
    BY <1>1, <1>6, <1>8, <2>1 DEF With
<1>10. v = s
  <2>1. With(<<>>, v) = With(<<>>, s)
    BY <1>1, <1>9
  <2> QED
    BY <2>1, WithOne
<1>11. nulls \in SUBSET Nat /\ m \in Nat
  <2> HIDE DEF r
  <2>1. nulls \in SUBSET Nat
    BY DEF Nulls
  <2> HIDE DEF nulls
  <2> QED
    BY <1>6, <2>1, LeastIs DEF m
<1>12. n = 2 * m
  BY <1>1, <1>9, <1>11
<1> QED
  BY <1>6, <1>10, <1>11, <1>12 DEF v, m

\* The verdict is read as it was written, behind a name that ends with its null.
LEMMA PlayerAuthResponseIsRead ==
  ASSUME NEW s \in Texts, NEW success \in BOOLEAN
  PROVE  /\ PlayerAuthResponse(s, success) \in Seq(Byte)
         /\ \A w : Carries(w, PlayerAuthResponse(s, success)) =>
              ReadPlayerAuthResponse(w) = [ok |-> TRUE, account |-> s, result |-> success]
<1> DEFINE b == IF success THEN 1 ELSE 0
           n == Len(PutString(s))
           a == <<3>> \o PutString(s)
<1>1. b \in Byte /\ 3 \in Byte /\ (b = 1 <=> success)
  BY DEF Byte
<1>2. PlayerAuthResponse(s, success) = a \o <<b>>
  BY DEF PlayerAuthResponse
<1> HIDE DEF b
<1>3. n \in Nat /\ AreBytes(<<3>>, 1) /\ AreBytes(PutString(s), n) /\ AreBytes(<<b>>, 1)
  BY <1>1, StringIsBytes, OneByte
<1>4. AreBytes(a, 1 + n)
  BY <1>3, Glued
<1>5. a \o <<b>> \in Seq(Byte)
  <2> HIDE DEF a
  <2> QED
    BY <1>3, <1>4, ConcatInSeq DEF AreBytes
<1>6. ASSUME NEW w, Carries(w, a \o <<b>>)
      PROVE  ReadPlayerAuthResponse(w) = [ok |-> TRUE, account |-> s, result |-> success]
  <2> DEFINE r == At(w, 1, <<>>)
             nulls == Nulls(r)
             m == Least(nulls)
             half == (Len(w) - 1) \div 2
  <2>1. w \in Seq(Byte) /\ Has(w, 0, a) /\ Has(w, 1 + n, <<b>>)
    <3> HIDE DEF a
    <3> QED
      BY <1>3, <1>4, <1>6, HasBoth DEF Carries
  <2>2. Carries(w, a) /\ HasByte(w, 1 + n, b)
    BY <1>3, <2>1, ByteHas DEF Carries
  <2>3. w[1] = 3 /\ Has(w, 1, PutString(s))
    BY <1>1, <2>2, StringCarried
  <2>4. ReadString(r) = At(w, 1 + n, With(<<>>, s))
    BY <2>1, <2>3, ReadsString
  <2>5. nulls # {} /\ nulls \in SUBSET Nat /\ n = 2 * m /\ Runes(Before(r, m)) = s
    BY <1>3, <2>1, <2>4, UnitsOfString
  <2>6. \A k \in Nat \ {0} : w[2*k] + 256 * w[2*k + 1] = UnitAt(r, k)
    <3>1. r.data = w /\ r.pos = 1
      BY DEF At, Reader
    <3> HIDE DEF r
    <3>2. ASSUME NEW k \in Nat \ {0} PROVE w[2*k] + 256 * w[2*k + 1] = UnitAt(r, k)
      <4>1. 1 + (2*k - 1) = 2*k /\ 1 + 2*k = 2*k + 1
        OBVIOUS
      <4> QED
        BY <3>1, <4>1 DEF UnitAt, Ahead
    <3> QED
      BY <3>2
  <2>7. nulls = {k \in 1 .. half : w[2*k] + 256 * w[2*k + 1] = 0}
    <3>1. r.data = w /\ r.pos = 1 /\ half \in Int
      BY <2>1 DEF At, Reader
    <3>2. nulls = {k \in 1 .. half : UnitAt(r, k) = 0}
      BY <3>1 DEF Nulls
    <3> HIDE DEF half, r
    <3>3. \A k \in 1 .. half : k \in Nat \ {0}
      BY <3>1
    <3>4. \A k \in 1 .. half : w[2*k] + 256 * w[2*k + 1] = UnitAt(r, k)
      BY <2>6, <3>3
    <3> QED
      BY <3>2, <3>4
  <2>8. m \in Nat
    <3> HIDE DEF nulls
    <3> QED
      BY <2>5, LeastIs
  <2> HIDE DEF m
  <2>14. Before(r, m) = [k \in 1 .. (m - 1) |-> w[2*k] + 256 * w[2*k + 1]]
    <3> HIDE DEF r
    <3>1. \A k \in 1 .. (m - 1) : k \in Nat \ {0}
      BY <2>8
    <3>2. \A k \in 1 .. (m - 1) : w[2*k] + 256 * w[2*k + 1] = UnitAt(r, k)
      BY <2>6, <3>1
    <3> QED
      BY <3>2 DEF Before
  <2> HIDE DEF r, nulls
  <2>9. 2 * m + 2 = (1 + n) + 1
    BY <2>5, <2>8
  <2>10. ~ (w[1] # 3 \/ 2 * m + 1 >= Len(w)) /\ w[2 * m + 2] = b
    <3>1. (1 + n) + 1 <= Len(w) /\ w[(1 + n) + 1] = b /\ Len(w) \in Nat
      BY <2>1, <2>2 DEF HasByte
    <3> QED
      BY <2>3, <2>8, <2>9, <3>1
  <2>11. (w[2 * m + 2] = 1) = success
    BY <1>1, <2>10
  <2> DEFINE units == [k \in 1 .. (m - 1) |-> w[2*k] + 256 * w[2*k + 1]]
  <2>12. Runes(units) = s
    BY <2>5, <2>14
  <2>13. ReadPlayerAuthResponse(w) = [ok |-> TRUE, account |-> Runes(units), result |-> w[2 * m + 2] = 1]
    <3> DEFINE Unit(k) == w[2*k] + 256 * w[2*k + 1]
               zero == {k \in 1 .. ((Len(w) - 1) \div 2) : Unit(k) = 0}
               read == IF zero = {} THEN (Len(w) - 1) \div 2 ELSE Least(zero)
               before == [k \in 1 .. (IF zero = {} THEN read ELSE read - 1) |-> Unit(k)]
    <3>1. zero = nulls
      BY <2>7
    <3>2. ReadPlayerAuthResponse(w)
            = IF w[1] # 3 \/ 2 * read + 1 >= Len(w) THEN Malformed
              ELSE [ok |-> TRUE, account |-> Runes(before), result |-> w[2 * read + 2] = 1]
      BY Zenon DEF ReadPlayerAuthResponse
    <3> HIDE DEF zero
    <3>3. read = m
      BY <2>5, <3>1 DEF m
    <3>4. before = units
      BY <2>5, <3>1, <3>3
    <3> HIDE DEF read, before, units
    <3> QED
      BY <2>10, <3>2, <3>3, <3>4, Zenon
  <2> QED
    BY <2>11, <2>12, <2>13, Zenon
<1> QED
  BY <1>2, <1>5, <1>6

-----------------------------------------------------------------------------
(* Parts in a loop.                                                         *)

\* n parts, each a sequence of bytes.
AreParts(parts, n) == parts \in [1 .. n -> Seq(Byte)]

\* f has the first parts, one behind the other.
Chained(f, parts, n) ==
  /\ f \in [0 .. n -> Seq(Byte)]
  /\ f[0] = <<>> /\ \A i \in 1 .. n : f[i] = f[i - 1] \o parts[i]

\* A loop that writes has put each part behind those before.
LEMMA ChainIsBytes ==
  ASSUME NEW n \in Nat, NEW parts, AreParts(parts, n)
  PROVE  \E f : Chained(f, parts, n) /\ Chain(parts) = f[n]
<1> DEFINE Bs == Seq(Byte)
           Add(a, i) == a \o parts[i]
           step == [ja \in (1 .. n) \X Bs |-> Add(ja[2], ja[1])]
           Written1(f) == [i \in 0 .. n |-> IF i = 0 THEN <<>> ELSE f[i - 1] \o parts[i]]
           upTo == CHOOSE f : f = Written1(f)
<1>1. Len(parts) = n
  BY LenProperties, SeqDef DEF AreParts
<1>2. \A i \in 1 .. n : parts[i] \in Bs
  BY DEF AreParts
<1>3. ASSUME NEW i \in 1 .. n, NEW a \in Bs PROVE Add(a, i) \in Bs
  <2> DEFINE b == parts[i]
  <2>1. b \in Seq(Byte)
    BY <1>2
  <2> HIDE DEF b
  <2>2. a \o b \in Seq(Byte)
    BY <2>1, ConcatInSeq
  <2> QED
    BY <2>2 DEF b
<1> HIDE DEF Add
<1>4. step \in [(1 .. n) \X Bs -> Bs]
  <2> HIDE DEF Bs
  <2> QED
    BY <1>3
<1>5. PICK f \in [0 .. n -> Bs] : Recursive(f, n, <<>>, step)
  <2> HIDE DEF step
  <2>1. <<>> \in Bs
    OBVIOUS
  <2> HIDE DEF Bs
  <2> QED
    BY <1>4, <2>1, RecursionUpTo
<1>6. f = Written1(f)
  <2>1. ASSUME NEW i \in 1 .. n PROVE f[i] = Add(f[i - 1], i)
    <3> HIDE DEF Bs
    <3>1. f[i - 1] \in Bs
      OBVIOUS
    <3>2. step[<<i, f[i - 1]>>] = Add(f[i - 1], i)
      BY <3>1
    <3> HIDE DEF step
    <3> QED
      BY <1>5, <3>2 DEF Recursive
  <2>2. f[0] = <<>>
    <3> HIDE DEF step
    <3> QED
      BY <1>5, Zenon DEF Recursive
  <2>3. f = [i \in 0 .. n |-> IF i = 0 THEN <<>> ELSE Add(f[i - 1], i)]
    <3> HIDE DEF Bs
    <3>1. ASSUME NEW i \in 0 .. n PROVE f[i] = IF i = 0 THEN <<>> ELSE Add(f[i - 1], i)
      <4>1. i = 0 \/ i \in 1 .. n
        OBVIOUS
      <4>2. i \in 1 .. n => i # 0
        OBVIOUS
      <4> QED
        BY <2>1, <2>2, <4>1, <4>2, Zenon
    <3>2. f = [i \in 0 .. n |-> f[i]]
      BY Zenon
    <3> QED
      BY <3>1, <3>2, Zenon
  <2> QED
    BY <2>3, Zenon DEF Add
<1>7. Chain(parts) = upTo[n]
  BY <1>1 DEF Chain
<1>8. upTo = Written1(upTo)
  <2> HIDE DEF Written1
  <2> QED
    BY <1>6
<1> HIDE DEF upTo, step
<1>9. upTo[0] = <<>> /\ \A i \in 1 .. n : upTo[i] = upTo[i - 1] \o parts[i]
  <2>1. \A i \in 0 .. n : upTo[i] = IF i = 0 THEN <<>> ELSE upTo[i - 1] \o parts[i]
    BY <1>8
  <2>2. 0 \in 0 .. n /\ \A i \in 1 .. n : i \in 0 .. n /\ i # 0
    OBVIOUS
  <2> QED
    BY <2>1, <2>2, Zenon
<1>10. upTo = [i \in 0 .. n |-> upTo[i]]
  BY <1>8
<1> DEFINE Good == {i \in 0 .. n : upTo[i] \in Bs}
<1>11. 0 \in Good
  <2>1. 0 \in 0 .. n /\ <<>> \in Bs
    OBVIOUS
  <2> HIDE DEF Bs
  <2> QED
    BY <1>9, <2>1
<1>12. ASSUME NEW m \in 0 .. (n - 1), m \in Good PROVE m + 1 \in Good
  <2> DEFINE i == m + 1
  <2>1. i \in 1 .. n /\ i - 1 = m /\ i \in 0 .. n
    OBVIOUS
  <2> HIDE DEF i
  <2>2. upTo[i] = upTo[m] \o parts[i]
    BY <1>9, <2>1
  <2>3. upTo[m] \in Bs /\ parts[i] \in Bs
    BY <1>2, <1>12, <2>1
  <2>4. upTo[i] \in Bs
    BY <2>2, <2>3, ConcatInSeq
  <2> QED
    BY <2>1, <2>4 DEF i
<1> HIDE DEF Good
<1>13. \A i \in 0 .. n : i \in Good
  BY <1>11, <1>12, AllUpTo
<1>14. upTo \in [0 .. n -> Bs]
  <2>1. \A i \in 0 .. n : upTo[i] \in Bs
    BY <1>13 DEF Good
  <2> HIDE DEF Bs
  <2> QED
    BY <1>10, <2>1
<1> QED
  BY <1>7, <1>9, <1>14 DEF Chained

\* The two loops of the readers.
ReadItem(kind, r) == IF kind = "string" THEN ReadString(r) ELSE ReadInt(ReadInt(r))

Runs(f, kind, r, n) == f = [i \in 0 .. n |-> IF i = 0 THEN r ELSE ReadItem(kind, f[i - 1])]

\* A loop that reads: the readers after each turn form a function.
LEMMA LoopExists ==
  ASSUME NEW n \in Nat, NEW kind, NEW r
  PROVE  \E f : Runs(f, kind, r, n)
<1> DEFINE Good == {m \in 0 .. n : \E f : Runs(f, kind, r, m)}
<1>1. 0 \in Good
  <2> DEFINE f == [i \in 0 .. 0 |-> r]
  <2>1. \A i \in 0 .. 0 : i = 0
    OBVIOUS
  <2>2. Runs(f, kind, r, 0)
    BY <2>1 DEF Runs
  <2>3. 0 \in 0 .. n
    OBVIOUS
  <2> QED
    BY <2>2, <2>3
<1>2. ASSUME NEW m \in 0 .. (n - 1), m \in Good PROVE m + 1 \in Good
  <2>1. PICK f : Runs(f, kind, r, m)
    BY <1>2
  <2> DEFINE g == [i \in 0 .. (m + 1) |-> IF i = m + 1 THEN ReadItem(kind, f[m]) ELSE f[i]]
  <2>2. \A i \in 0 .. m : f[i] = IF i = 0 THEN r ELSE ReadItem(kind, f[i - 1])
    BY <2>1 DEF Runs
  <2>3. ASSUME NEW i \in 0 .. (m + 1)
        PROVE  g[i] = IF i = 0 THEN r ELSE ReadItem(kind, g[i - 1])
    <3>1. CASE i = m + 1
      <4>1. i # 0 /\ i - 1 = m /\ i - 1 \in 0 .. (m + 1) /\ i - 1 # m + 1
        BY <3>1
      <4>2. g[i] = ReadItem(kind, f[m]) /\ g[i - 1] = f[m]
        BY <3>1, <4>1
      <4> QED
        BY <4>1, <4>2
    <3>2. CASE i # m + 1
      <4>1. i \in 0 .. m /\ g[i] = f[i]
        BY <3>2
      <4>2. i # 0 => i - 1 \in 0 .. (m + 1) /\ i - 1 # m + 1
        BY <4>1
      <4>3. i # 0 => g[i - 1] = f[i - 1]
        BY <4>2
      <4> HIDE DEF g
      <4> QED
        BY <2>2, <4>1, <4>3
    <3> QED
      BY <3>1, <3>2
  <2>4. g = [i \in 0 .. (m + 1) |-> g[i]]
    OBVIOUS
  <2> HIDE DEF g
  <2>5. Runs(g, kind, r, m + 1)
    BY <2>3, <2>4 DEF Runs
  <2>6. m + 1 \in 0 .. n
    OBVIOUS
  <2> QED
    BY <2>5, <2>6
<1> HIDE DEF Good
<1>3. n \in Good
  <2>1. \A m \in 0 .. n : m \in Good
    BY <1>1, <1>2, AllUpTo
  <2> QED
    BY <2>1
<1> QED
  BY <1>3 DEF Good

\* f is what a loop of n reads makes of the reader r.
Loops(f, kind, r, n) ==
  f[0] = r /\ \A i \in 1 .. n : f[i] = ReadItem(kind, f[i - 1])

LEMMA LoopOf ==
  ASSUME NEW n \in Nat, NEW kind, NEW r, NEW f, Runs(f, kind, r, n)
  PROVE  Loops(f, kind, r, n)
<1>1. \A i \in 0 .. n : f[i] = IF i = 0 THEN r ELSE ReadItem(kind, f[i - 1])
  BY DEF Runs
<1>2. 0 \in 0 .. n /\ \A i \in 1 .. n : i \in 0 .. n /\ i # 0
  OBVIOUS
<1> QED
  BY <1>1, <1>2, Zenon DEF Loops

\* The two loops of the parsers.
LEMMA StringsAreRead ==
  ASSUME NEW n \in Nat, NEW r
  PROVE  \E f : Loops(f, "string", r, n) /\ ReadStrings(r, n) = f[n]
<1> DEFINE Steps(f) == [i \in 0 .. n |-> IF i = 0 THEN r ELSE ReadString(f[i - 1])]
           upTo == CHOOSE f : f = Steps(f)
<1>1. PICK f : Runs(f, "string", r, n)
  BY LoopExists
<1>2. \A x : ReadItem("string", x) = ReadString(x)
  BY DEF ReadItem
<1>3. f = Steps(f)
  BY <1>1, <1>2, Zenon DEF Runs
<1>4. upTo = Steps(upTo)
  <2> HIDE DEF Steps
  <2> QED
    BY <1>3
<1>5. ReadStrings(r, n) = upTo[n]
  BY DEF ReadStrings
<1> HIDE DEF upTo
<1>6. Runs(upTo, "string", r, n)
  BY <1>2, <1>4, Zenon DEF Runs
<1> QED
  BY <1>5, <1>6, LoopOf

LEMMA PairsAreRead ==
  ASSUME NEW n \in Nat, NEW r
  PROVE  \E f : Loops(f, "pair", r, n) /\ ReadPairs(r, n) = f[n]
<1> DEFINE Steps(f) == [i \in 0 .. n |-> IF i = 0 THEN r ELSE ReadInt(ReadInt(f[i - 1]))]
           upTo == CHOOSE f : f = Steps(f)
<1>1. PICK f : Runs(f, "pair", r, n)
  BY LoopExists
<1>2. \A x : ReadItem("pair", x) = ReadInt(ReadInt(x))
  BY DEF ReadItem
<1>3. f = Steps(f)
  BY <1>1, <1>2, Zenon DEF Runs
<1>4. upTo = Steps(upTo)
  <2> HIDE DEF Steps
  <2> QED
    BY <1>3
<1>5. ReadPairs(r, n) = upTo[n]
  BY DEF ReadPairs
<1> HIDE DEF upTo
<1>6. Runs(upTo, "pair", r, n)
  BY <1>2, <1>4, Zenon DEF Runs
<1> QED
  BY <1>5, <1>6, LoopOf

-----------------------------------------------------------------------------
(* The list of servers.                                                     *)

LEMMA ChainInSeq ==
  ASSUME NEW n \in Nat, NEW parts, AreParts(parts, n)
  PROVE  Chain(parts) \in Seq(Byte)
<1>1. PICK f : Chained(f, parts, n) /\ Chain(parts) = f[n]
  BY ChainIsBytes
<1>2. n \in 0 .. n
  OBVIOUS
<1> QED
  BY <1>1, <1>2 DEF Chained

\* The attributes of a game server are bytes.
LEMMA StatusIsBytes ==
  ASSUME NEW id \in Byte, NEW attrs \in Seq(Byte \X Int)
  PROVE  ServerStatus(id, attrs) \in Seq(Byte)
<1> DEFINE n == Len(attrs)
           parts == [i \in DOMAIN attrs |-> <<attrs[i][1]>> \o PutInt(attrs[i][2])]
           front == <<6, id, n % 256>>
<1>1. n \in Nat /\ DOMAIN attrs = 1 .. n
  OBVIOUS
<1>2. ASSUME NEW i \in 1 .. n PROVE <<attrs[i][1]>> \o PutInt(attrs[i][2]) \in Seq(Byte)
  <2>1. attrs[i] \in Byte \X Int
    BY <1>1
  <2> DEFINE a == <<attrs[i][1]>>
             b == PutInt(attrs[i][2])
  <2>2. a \in Seq(Byte) /\ b \in Seq(Byte)
    BY <2>1, IntIsBytes DEF AreBytes
  <2> HIDE DEF a, b
  <2>3. a \o b \in Seq(Byte)
    BY <2>2, ConcatInSeq
  <2> QED
    BY <2>3 DEF a, b
<1>3. AreParts(parts, n)
  BY <1>1, <1>2 DEF AreParts
<1>4. front \in Seq(Byte)
  <2> HIDE DEF n
  <2>1. n % 256 \in Byte /\ 6 \in Byte
    BY <1>1 DEF Byte
  <2> QED
    BY <2>1
<1>5. ServerStatus(id, attrs) = front \o Chain(parts)
  BY DEF ServerStatus
<1> HIDE DEF front, parts, n
<1>6. Chain(parts) \in Seq(Byte)
  BY <1>1, <1>3, ChainInSeq
<1> QED
  BY <1>4, <1>5, <1>6, ConcatInSeq

IsServer(s) == s.id \in Byte /\ s.ip \in Seq(Byte) /\ s.port \in Int

LEMMA EntryIsBytes ==
  ASSUME NEW s, IsServer(s)
  PROVE  ServerEntry(s) \in Seq(Byte)
<1> DEFINE a == <<s.id>>
           b == a \o s.ip
           port == PutInt(s.port)
           c == b \o port
           zeros == <<0, 0>>
           d == c \o zeros
           e == d \o PutShort(0)
           f == e \o PutShort(1000)
           g == f \o <<1>>
           h == g \o PutInt(1)
<1>1. a \in Seq(Byte) /\ s.ip \in Seq(Byte)
  BY OneByte DEF AreBytes, IsServer
<1>2. port \in Seq(Byte) /\ PutShort(0) \in Seq(Byte) /\ PutShort(1000) \in Seq(Byte) /\ PutInt(1) \in Seq(Byte)
  BY IntIsBytes, ShortIsBytes DEF AreBytes, IsServer
<1>3. zeros \in Seq(Byte) /\ <<1>> \in Seq(Byte) /\ <<0>> \in Seq(Byte)
  BY DEF Byte
<1> HIDE DEF a, port, zeros
<1>4. b \in Seq(Byte)
  BY <1>1, ConcatInSeq
<1> HIDE DEF b
<1>5. c \in Seq(Byte)
  BY <1>2, <1>4, ConcatInSeq
<1> HIDE DEF c
<1>6. d \in Seq(Byte)
  BY <1>3, <1>5, ConcatInSeq
<1> HIDE DEF d
<1>7. e \in Seq(Byte)
  BY <1>2, <1>6, ConcatInSeq
<1> HIDE DEF e
<1>8. f \in Seq(Byte)
  BY <1>2, <1>7, ConcatInSeq
<1> HIDE DEF f
<1>9. g \in Seq(Byte)
  BY <1>3, <1>8, ConcatInSeq
<1> HIDE DEF g
<1>10. h \in Seq(Byte)
  BY <1>2, <1>9, ConcatInSeq
<1> HIDE DEF h
<1>11. h \o <<0>> \in Seq(Byte)
  BY <1>3, <1>10, ConcatInSeq
<1>12. ServerEntry(s) = h \o <<0>>
  BY DEF ServerEntry, a, b, port, c, zeros, d, e, f, g, h
<1> QED
  BY <1>11, <1>12

\* A list short enough for a count of one byte.
FewServers(n) == n \in Nat /\ n < 256

AreServers(servers, n) == DOMAIN servers = 1 .. n /\ \A i \in 1 .. n : IsServer(servers[i])

LastServer(servers) == IF servers = <<>> THEN 0 ELSE servers[1].id

LEMMA FewIsByte ==
  ASSUME NEW n, FewServers(n)
  PROVE  n \in Nat /\ n \in Byte /\ n % 256 = n
BY DEF FewServers, Byte

LEMMA ThreeBytesCarried ==
  ASSUME NEW b1 \in Byte, NEW b2 \in Byte, NEW b3 \in Byte
  PROVE  /\ <<b1, b2, b3>> \in Seq(Byte)
         /\ \A w : Carries(w, <<b1, b2, b3>>) => w[1] = b1 /\ w[2] = b2 /\ w[3] = b3
<1> DEFINE b == <<b1, b2, b3>>
<1>1. b \in Seq(Byte) /\ Len(b) = 3 /\ b[1] = b1 /\ b[2] = b2 /\ b[3] = b3
  OBVIOUS
<1> HIDE DEF b
<1>2. ASSUME NEW w, Carries(w, b) PROVE w[1] = b1 /\ w[2] = b2 /\ w[3] = b3
  <2>1. \A k \in 1 .. 3 : w[0 + k] = b[k]
    BY <1>1, <1>2 DEF Carries, Has
  <2>2. w[0 + 1] = b[1] /\ w[0 + 2] = b[2] /\ w[0 + 3] = b[3]
    BY <2>1
  <2> QED
    BY <1>1, <2>2
<1> QED
  BY <1>1, <1>2 DEF b

\* A list of servers is told from the other answers, and read with its length.
LEMMA ServerListIsRead ==
  ASSUME NEW servers, FewServers(Len(servers)), AreServers(servers, Len(servers)), LastServer(servers) \in Byte
  PROVE  /\ ServerList(servers) \in Seq(Byte)
         /\ \A w : Carries(w, ServerList(servers)) =>
              /\ ReadLoginOk(w) = [answer |-> "list"]
              /\ ReadServerList(w) = [ok |-> TRUE, count |-> Len(servers), last |-> LastServer(servers)]
<1> DEFINE n == Len(servers)
           last == LastServer(servers)
           entries == [i \in DOMAIN servers |-> ServerEntry(servers[i])]
           counts == [i \in DOMAIN servers |-> <<servers[i].id, 0, 0>>]
           a == <<4, n, last>>
           b == a \o Chain(entries)
           c == b \o PutShort(0)
           d == c \o <<n>>
           e == d \o Chain(counts)
<1>1. n \in Nat /\ n \in Byte /\ n % 256 = n /\ last \in Byte
  BY FewIsByte
<1>2. ServerList(servers) = e
  <2>1. Len(servers) % 256 = Len(servers)
    BY <1>1
  <2> QED
    BY <2>1 DEF ServerList, LastServer
<1> HIDE DEF n, last
<1>3. DOMAIN servers = 1 .. n /\ \A i \in 1 .. n : IsServer(servers[i])
  BY DEF AreServers, n
<1>4. AreParts(entries, n)
  <2>1. \A i \in 1 .. n : ServerEntry(servers[i]) \in Seq(Byte)
    BY <1>3, EntryIsBytes
  <2>2. entries = [i \in 1 .. n |-> ServerEntry(servers[i])]
    BY <1>3
  <2> HIDE DEF entries
  <2> QED
    BY <2>1, <2>2 DEF AreParts
<1>5. AreParts(counts, n)
  <2>1. ASSUME NEW i \in 1 .. n PROVE <<servers[i].id, 0, 0>> \in Seq(Byte)
    <3> DEFINE x == servers[i].id
    <3>1. x \in Byte /\ 0 \in Byte
      BY <1>3 DEF IsServer, Byte
    <3> HIDE DEF x
    <3>2. <<x, 0, 0>> \in Seq(Byte)
      BY <3>1
    <3> QED
      BY <3>2 DEF x
  <2>2. counts = [i \in 1 .. n |-> <<servers[i].id, 0, 0>>]
    BY <1>3
  <2> HIDE DEF counts
  <2> QED
    BY <2>1, <2>2 DEF AreParts
<1> HIDE DEF entries, counts
<1>6. /\ Chain(entries) \in Seq(Byte) /\ Chain(counts) \in Seq(Byte)
      /\ PutShort(0) \in Seq(Byte) /\ <<n>> \in Seq(Byte)
  BY <1>1, <1>4, <1>5, ChainInSeq, ShortIsBytes, OneByte DEF AreBytes
<1>7. a \in Seq(Byte) /\ \A w : Carries(w, a) => w[1] = 4 /\ w[2] = n /\ w[3] = last
  <2>1. 4 \in Byte
    BY DEF Byte
  <2> QED
    BY <1>1, <2>1, ThreeBytesCarried
<1> HIDE DEF a
<1>8. b \in Seq(Byte)
  BY <1>6, <1>7, ConcatInSeq
<1> HIDE DEF b
<1>9. c \in Seq(Byte)
  BY <1>6, <1>8, ConcatInSeq
<1> HIDE DEF c
<1>10. d \in Seq(Byte)
  BY <1>6, <1>9, ConcatInSeq
<1> HIDE DEF d
<1>11. e \in Seq(Byte)
  BY <1>6, <1>10, ConcatInSeq
<1> HIDE DEF e
<1>12. ASSUME NEW w, Carries(w, e)
       PROVE  /\ ReadLoginOk(w) = [answer |-> "list"]
              /\ ReadServerList(w) = [ok |-> TRUE, count |-> n, last |-> last]
  <2>1. Carries(w, d)
    BY <1>6, <1>10, <1>12, CarriesFirst DEF e
  <2>2. Carries(w, c)
    BY <1>6, <1>9, <2>1, CarriesFirst DEF d
  <2>3. Carries(w, b)
    BY <1>6, <1>8, <2>2, CarriesFirst DEF c
  <2>4. Carries(w, a)
    BY <1>6, <1>7, <2>3, CarriesFirst DEF b
  <2>5. w[1] = 4 /\ w[2] = n /\ w[3] = last
    BY <1>7, <2>4
  <2>6. w[1] # 1 /\ w[1] # 2 /\ w[1] # 3
    BY <2>5
  <2> QED
    BY <2>5, <2>6, Zenon DEF ReadLoginOk, ReadServerList
<1> QED
  BY <1>2, <1>11, <1>12 DEF n, last

-----------------------------------------------------------------------------
(* The scrambled modulus.                                                   *)

\* Two blocks of n bytes, behind a and b bytes, that have no byte in common.
Apart(a, b, n, len) ==
  /\ a \in Nat /\ b \in Nat /\ n \in Nat /\ a + n <= len /\ b + n <= len
  /\ a + n <= b \/ b + n <= a

\* Byte i is in the block of n bytes behind a bytes.
Inside(i, a, n) == i - 1 \in a .. (a + n - 1)

LEMMA InsideApart ==
  ASSUME NEW len \in Nat, NEW a, NEW b, NEW n, Apart(a, b, n, len), NEW i \in 1 .. len
  PROVE  /\ Inside(i, a, n) => /\ i - a + b \in 1 .. len /\ Inside(i - a + b, b, n)
                               /\ ~Inside(i - a + b, a, n) /\ (i - a + b) - b + a = i
         /\ Inside(i, b, n) => ~Inside(i, a, n)
BY DEF Apart, Inside

\* A step of the scrambling changes one block by another one that it leaves alone,
LEMMA XorIsBytes ==
  ASSUME NEW len \in Nat, NEW a, NEW b, NEW n, Apart(a, b, n, len), NEW s, AreBytes(s, len)
  PROVE  /\ AreBytes(XorBlock(s, a, b, n), len)
         /\ \A i \in 1 .. len : /\ Inside(i, a, n) => XorBlock(s, a, b, n)[i] = XorByte(s[i], s[i - a + b])
                                /\ ~Inside(i, a, n) => XorBlock(s, a, b, n)[i] = s[i]
<1> DEFINE t == XorBlock(s, a, b, n)
<1>1. s \in Seq(Byte) /\ Len(s) = len /\ DOMAIN s = 1 .. len /\ \A i \in 1 .. len : s[i] \in Byte
  BY DEF AreBytes
<1>2. t = [i \in 1 .. len |-> IF Inside(i, a, n) THEN XorByte(s[i], s[i - a + b]) ELSE s[i]]
  BY <1>1, Zenon DEF XorBlock, Inside
<1> HIDE DEF t
<1>3. \A i \in 1 .. len : /\ Inside(i, a, n) => t[i] = XorByte(s[i], s[i - a + b])
                          /\ ~Inside(i, a, n) => t[i] = s[i]
  BY <1>2, Zenon
<1>4. ASSUME NEW i \in 1 .. len PROVE t[i] \in Byte
  <2>1. CASE Inside(i, a, n)
    <3>1. i - a + b \in 1 .. len
      BY <2>1, InsideApart
    <3>2. s[i] \in Byte /\ s[i - a + b] \in Byte
      BY <1>1, <3>1
    <3> QED
      BY <1>3, <2>1, <3>2, XorByteAssumption
  <2>2. CASE ~Inside(i, a, n)
    BY <1>1, <1>3, <2>2
  <2> QED
    BY <2>1, <2>2
<1>5. t = [i \in 1 .. len |-> t[i]]
  BY <1>2
<1>6. t \in [1 .. len -> Byte]
  BY <1>4, <1>5, Zenon
<1>7. AreBytes(t, len)
  BY <1>6, SeqDef, LenProperties DEF AreBytes
<1> QED
  BY <1>3, <1>7 DEF t

\* so that the step made twice changes nothing;
LEMMA XorTwice ==
  ASSUME NEW len \in Nat, NEW a, NEW b, NEW n, Apart(a, b, n, len), NEW s, AreBytes(s, len)
  PROVE  XorBlock(XorBlock(s, a, b, n), a, b, n) = s
<1> DEFINE t == XorBlock(s, a, b, n)
           u == XorBlock(t, a, b, n)
<1>1. /\ AreBytes(t, len)
      /\ \A i \in 1 .. len : /\ Inside(i, a, n) => t[i] = XorByte(s[i], s[i - a + b])
                             /\ ~Inside(i, a, n) => t[i] = s[i]
  BY XorIsBytes
<1> HIDE DEF t
<1>2. /\ AreBytes(u, len)
      /\ \A i \in 1 .. len : /\ Inside(i, a, n) => u[i] = XorByte(t[i], t[i - a + b])
                             /\ ~Inside(i, a, n) => u[i] = t[i]
  BY <1>1, XorIsBytes
<1> HIDE DEF u
<1>3. ASSUME NEW i \in 1 .. len PROVE u[i] = s[i]
  <2>1. CASE Inside(i, a, n)
    <3> DEFINE j == i - a + b
    <3>1. j \in 1 .. len /\ ~Inside(j, a, n)
      BY <2>1, InsideApart
    <3>2. u[i] = XorByte(t[i], t[j]) /\ t[i] = XorByte(s[i], s[j])
      BY <1>1, <1>2, <2>1
    <3> HIDE DEF j
    <3>3. t[j] = s[j]
      BY <1>1, <3>1
    <3>4. s[i] \in Byte /\ s[j] \in Byte
      BY <3>1 DEF AreBytes
    <3> QED
      BY <3>2, <3>3, <3>4, XorByteAssumption
  <2>2. CASE ~Inside(i, a, n)
    BY <1>1, <1>2, <2>2
  <2> QED
    BY <2>1, <2>2
<1>4. u = s
  BY <1>2, <1>3, SameBytesAreOne
<1> QED
  BY <1>4 DEF u, t

LEMMA ExchangeIsBytes ==
  ASSUME NEW len \in Nat, NEW a, NEW b, NEW n, Apart(a, b, n, len), Apart(b, a, n, len), NEW s, AreBytes(s, len)
  PROVE  /\ AreBytes(Exchange(s, a, b, n), len)
         /\ \A i \in 1 .. len : /\ Inside(i, a, n) => Exchange(s, a, b, n)[i] = s[i - a + b]
                                /\ Inside(i, b, n) => Exchange(s, a, b, n)[i] = s[i - b + a]
                                /\ ~Inside(i, a, n) /\ ~Inside(i, b, n) => Exchange(s, a, b, n)[i] = s[i]
<1> DEFINE t == Exchange(s, a, b, n)
<1>1. s \in Seq(Byte) /\ Len(s) = len /\ DOMAIN s = 1 .. len /\ \A i \in 1 .. len : s[i] \in Byte
  BY DEF AreBytes
<1>2. t = [i \in 1 .. len |-> IF Inside(i, a, n) THEN s[i - a + b]
                              ELSE IF Inside(i, b, n) THEN s[i - b + a] ELSE s[i]]
  BY <1>1, Zenon DEF Exchange, Inside
<1> HIDE DEF t
<1>3. ASSUME NEW i \in 1 .. len
      PROVE  /\ Inside(i, a, n) => t[i] = s[i - a + b]
             /\ Inside(i, b, n) => t[i] = s[i - b + a]
             /\ ~Inside(i, a, n) /\ ~Inside(i, b, n) => t[i] = s[i]
  <2>1. Inside(i, b, n) => ~Inside(i, a, n)
    BY InsideApart
  <2> QED
    BY <1>2, <2>1, Zenon
<1>4. ASSUME NEW i \in 1 .. len PROVE t[i] \in Byte
  <2>1. Inside(i, a, n) => i - a + b \in 1 .. len
    BY InsideApart
  <2>2. Inside(i, b, n) => i - b + a \in 1 .. len
    BY InsideApart
  <2> QED
    BY <1>1, <1>3, <2>1, <2>2
<1>5. t = [i \in 1 .. len |-> t[i]]
  BY <1>2
<1>6. t \in [1 .. len -> Byte]
  BY <1>4, <1>5, Zenon
<1>7. AreBytes(t, len)
  BY <1>6, SeqDef, LenProperties DEF AreBytes
<1> QED
  BY <1>3, <1>7 DEF t

\* nor does the exchange made twice.
LEMMA ExchangeTwice ==
  ASSUME NEW len \in Nat, NEW a, NEW b, NEW n, Apart(a, b, n, len), Apart(b, a, n, len), NEW s, AreBytes(s, len)
  PROVE  Exchange(Exchange(s, a, b, n), a, b, n) = s
<1> DEFINE t == Exchange(s, a, b, n)
           u == Exchange(t, a, b, n)
<1>1. /\ AreBytes(t, len)
      /\ \A i \in 1 .. len : /\ Inside(i, a, n) => t[i] = s[i - a + b]
                             /\ Inside(i, b, n) => t[i] = s[i - b + a]
                             /\ ~Inside(i, a, n) /\ ~Inside(i, b, n) => t[i] = s[i]
  BY ExchangeIsBytes
<1> HIDE DEF t
<1>2. /\ AreBytes(u, len)
      /\ \A i \in 1 .. len : /\ Inside(i, a, n) => u[i] = t[i - a + b]
                             /\ Inside(i, b, n) => u[i] = t[i - b + a]
                             /\ ~Inside(i, a, n) /\ ~Inside(i, b, n) => u[i] = t[i]
  BY <1>1, ExchangeIsBytes
<1> HIDE DEF u
<1>3. ASSUME NEW i \in 1 .. len PROVE u[i] = s[i]
  <2>1. CASE Inside(i, a, n)
    <3> DEFINE j == i - a + b
    <3>1. j \in 1 .. len /\ Inside(j, b, n) /\ j - b + a = i
      BY <2>1, InsideApart
    <3>2. u[i] = t[j]
      BY <1>2, <2>1
    <3> HIDE DEF j
    <3> QED
      BY <1>1, <3>1, <3>2
  <2>2. CASE Inside(i, b, n)
    <3> DEFINE j == i - b + a
    <3>1. j \in 1 .. len /\ Inside(j, a, n) /\ j - a + b = i
      BY <2>2, InsideApart
    <3>2. u[i] = t[j]
      BY <1>2, <2>2
    <3> HIDE DEF j
    <3> QED
      BY <1>1, <3>1, <3>2
  <2>3. CASE ~Inside(i, a, n) /\ ~Inside(i, b, n)
    BY <1>1, <1>2, <2>3
  <2> QED
    BY <2>1, <2>2, <2>3
<1>4. u = s
  BY <1>2, <1>3, SameBytesAreOne
<1> QED
  BY <1>4 DEF u, t

\* Unscrambling undoes scrambling.
LEMMA ModulusComesBack ==
  ASSUME NEW m, AreBytes(m, 128)
  PROVE  AreBytes(ScrambleModulus(m), 128) /\ UnscrambleModulus(ScrambleModulus(m)) = m
<1>1. /\ Apart(0, 77, 4, 128) /\ Apart(77, 0, 4, 128) /\ Apart(0, 64, 64, 128)
      /\ Apart(13, 52, 4, 128) /\ Apart(64, 0, 64, 128)
  BY DEF Apart
<1> DEFINE s1 == Exchange(m, 0, 77, 4)
           s2 == XorBlock(s1, 0, 64, 64)
           s3 == XorBlock(s2, 13, 52, 4)
           s4 == XorBlock(s3, 64, 0, 64)
<1>2. ScrambleModulus(m) = s4
  BY DEF ScrambleModulus
<1>3. AreBytes(s1, 128) /\ Exchange(s1, 0, 77, 4) = m
  BY <1>1, ExchangeIsBytes, ExchangeTwice
<1> HIDE DEF s1
<1>4. AreBytes(s2, 128) /\ XorBlock(s2, 0, 64, 64) = s1
  BY <1>1, <1>3, XorIsBytes, XorTwice
<1> HIDE DEF s2
<1>5. AreBytes(s3, 128) /\ XorBlock(s3, 13, 52, 4) = s2
  BY <1>1, <1>4, XorIsBytes, XorTwice
<1> HIDE DEF s3
<1>6. AreBytes(s4, 128) /\ XorBlock(s4, 64, 0, 64) = s3
  BY <1>1, <1>5, XorIsBytes, XorTwice
<1> HIDE DEF s4
<1>7. UnscrambleModulus(s4) = m
  BY <1>3, <1>4, <1>5, <1>6, Zenon DEF UnscrambleModulus
<1> QED
  BY <1>2, <1>6, <1>7

LEMMA ConstantsAreBytes == AreBytes(GGConstants, 16)
<1>1. ASSUME NEW x \in Int, NEW y \in Int, NEW z \in Int, NEW u \in Int
      PROVE  AreBytes(PutInt(x) \o PutInt(y) \o PutInt(z) \o PutInt(u), 16)
  <2> DEFINE a == PutInt(x)
             b == PutInt(y)
             c == PutInt(z)
             d == PutInt(u)
  <2>1. AreBytes(a, 4) /\ AreBytes(b, 4) /\ AreBytes(c, 4) /\ AreBytes(d, 4)
    BY IntIsBytes
  <2> HIDE DEF a, b, c, d
  <2>2. AreBytes(a \o b, 4 + 4)
    BY <2>1, Glued
  <2> DEFINE e == a \o b
  <2>3. AreBytes(e, 8)
    BY <2>2
  <2> HIDE DEF e
  <2>4. AreBytes(e \o c, 8 + 4)
    BY <2>1, <2>3, Glued
  <2> DEFINE f == e \o c
  <2>5. AreBytes(f, 12)
    BY <2>4
  <2> HIDE DEF f
  <2>6. AreBytes(f \o d, 12 + 4)
    BY <2>1, <2>5, Glued
  <2>7. AreBytes(f \o d, 16)
    BY <2>6
  <2> QED
    BY <2>7 DEF a, b, c, d, e, f
<1> QED
  BY <1>1 DEF GGConstants

\* The greeting is read as it was written.
LEMMA InitIsRead ==
  ASSUME NEW session, IsInt32(session), NEW scrambled, AreBytes(scrambled, 128), NEW key, AreBytes(key, 16)
  PROVE  /\ Init(session, scrambled, key) \in Seq(Byte)
         /\ \A w : Carries(w, Init(session, scrambled, key)) =>
              ReadInitPacket(w) = [ok |-> TRUE, session |-> session, revision |-> ProtocolRevisionInit,
                                   modulus |-> UnscrambleModulus(scrambled), key |-> key]
<1> DEFINE zero == <<0>>
           rev == PutInt(ProtocolRevisionInit)
           a == zero \o PutInt(session)
           b == a \o rev
           c == b \o scrambled
           gg == GGConstants
           d == c \o gg
           e == d \o key
<1>1. AreBytes(zero, 1) /\ AreBytes(PutInt(session), 4) /\ AreBytes(gg, 16)
  BY OneByte, IntIsBytes, ConstantsAreBytes DEF IsInt32, Byte
<1>2. AreBytes(rev, 4) /\ IsInt32(ProtocolRevisionInit)
  BY IntIsBytes DEF ProtocolRevisionInit, IsInt32
<1>3. Init(session, scrambled, key) = e \o zero
  BY DEF Init
<1> HIDE DEF zero, rev, gg
<1>4. AreBytes(a, 1 + 4)
  BY <1>1, Glued
<1>5. AreBytes(a, 5)
  BY <1>4
<1> HIDE DEF a
<1>6. AreBytes(b, 5 + 4)
  BY <1>2, <1>5, Glued
<1>7. AreBytes(b, 9)
  BY <1>6
<1> HIDE DEF b
<1>8. AreBytes(c, 9 + 128)
  BY <1>7, Glued
<1>9. AreBytes(c, 137)
  BY <1>8
<1> HIDE DEF c
<1>10. AreBytes(d, 137 + 16)
  BY <1>1, <1>9, Glued
<1>11. AreBytes(d, 153)
  BY <1>10
<1> HIDE DEF d
<1>12. AreBytes(e, 153 + 16)
  BY <1>11, Glued
<1>13. AreBytes(e, 169)
  BY <1>12
<1> HIDE DEF e
<1>14. AreBytes(e \o zero, 169 + 1)
  BY <1>1, <1>13, Glued
<1>15. AreBytes(e \o zero, 170)
  BY <1>14
<1>16. ASSUME NEW w, Carries(w, e \o zero)
       PROVE  ReadInitPacket(w) = [ok |-> TRUE, session |-> session, revision |-> ProtocolRevisionInit,
                                   modulus |-> UnscrambleModulus(scrambled), key |-> key]
  <2>1. w \in Seq(Byte) /\ Has(w, 0, e) /\ Len(w) >= 170
    <3>1. w \in Seq(Byte) /\ Has(w, 0, e \o zero)
      BY <1>16 DEF Carries
    <3>2. Has(w, 0, e)
      BY <1>1, <1>13, <3>1, HasBoth
    <3>3. 0 + Len(e \o zero) <= Len(w) /\ Len(e \o zero) = 170
      BY <1>15, <3>1 DEF Has, AreBytes
    <3> QED
      BY <3>1, <3>2, <3>3
  <2>2. Has(w, 0, d) /\ Has(w, 153, key)
    <3>1. Has(w, 0, d \o key)
      BY <2>1 DEF e
    <3>2. Has(w, 0, d) /\ Has(w, 0 + 153, key)
      BY <1>11, <2>1, <3>1, HasBoth
    <3> QED
      BY <3>2
  <2>3. Has(w, 0, c)
    <3>1. Has(w, 0, c \o gg)
      BY <2>2 DEF d
    <3> QED
      BY <1>1, <1>9, <2>1, <3>1, HasBoth
  <2>4. Has(w, 0, b) /\ Has(w, 9, scrambled)
    <3>1. Has(w, 0, b \o scrambled)
      BY <2>3 DEF c
    <3>2. Has(w, 0, b) /\ Has(w, 0 + 9, scrambled)
      BY <1>7, <2>1, <3>1, HasBoth
    <3> QED
      BY <3>2
  <2>5. Has(w, 0, a) /\ Has(w, 5, rev)
    <3>1. Has(w, 0, a \o rev)
      BY <2>4 DEF b
    <3>2. Has(w, 0, a) /\ Has(w, 0 + 5, rev)
      BY <1>2, <1>5, <2>1, <3>1, HasBoth
    <3> QED
      BY <3>2
  <2>6. Has(w, 0, zero) /\ Has(w, 1, PutInt(session))
    <3>1. Has(w, 0, zero \o PutInt(session))
      BY <2>5 DEF a
    <3>2. Has(w, 0, zero) /\ Has(w, 0 + 1, PutInt(session))
      BY <1>1, <2>1, <3>1, HasBoth
    <3> QED
      BY <3>2
  <2>7. w[1] = 0
    BY <2>1, <2>6, ByteHas DEF zero, HasByte
  <2>8. IntAt(w, 1) = session
    BY <2>1, <2>6, IntAtHas
  <2>9. IntAt(w, 5) = ProtocolRevisionInit
    BY <1>2, <2>1, <2>5, IntAtHas DEF rev
  <2>10. Slice(w, 9, 128) = scrambled /\ Slice(w, 153, 16) = key
    BY <2>1, <2>2, <2>4, SliceHas
  <2>11. ~ (w[1] # 0 \/ Len(w) < 170)
    BY <2>1, <2>7
  <2> QED
    BY <2>8, <2>9, <2>10, <2>11, Zenon DEF ReadInitPacket
<1> QED
  BY <1>3, <1>15, <1>16 DEF AreBytes

-----------------------------------------------------------------------------
(* A packet that is cut.                                                    *)

\* c is the beginning of d.
Prefix(c, d) ==
  /\ c \in Seq(Byte) /\ d \in Seq(Byte) /\ Len(c) <= Len(d)
  /\ \A k \in 1 .. Len(c) : c[k] = d[k]

\* A cut body is a prefix of it.
LEMMA CutIsPrefix ==
  ASSUME NEW d \in Seq(Byte), NEW n \in 0 .. (Len(d) - 1)
  PROVE  Prefix(SubSeq(d, 1, n), d)
<1>1. n \in Nat /\ 0 + n <= Len(d)
  OBVIOUS
<1>2. SubSeq(d, 1, n) = Slice(d, 0, n)
  BY DEF Slice
<1>3. AreBytes(Slice(d, 0, n), n) /\ \A k \in 1 .. n : Slice(d, 0, n)[k] = d[0 + k]
  BY <1>1, SliceIs
<1>4. \A k \in 1 .. n : 0 + k = k
  OBVIOUS
<1> DEFINE c == Slice(d, 0, n)
<1>5. c \in Seq(Byte) /\ Len(c) = n /\ \A k \in 1 .. n : c[k] = d[k]
  BY <1>3, <1>4 DEF AreBytes
<1> HIDE DEF c
<1>6. Prefix(c, d)
  BY <1>1, <1>5 DEF Prefix
<1> QED
  BY <1>2, <1>6 DEF c

IsReader(r) == r \in [data : Seq(Byte), pos : Nat, ok : BOOLEAN, got : {r.got}]

\* What the reader r of the cut packet has read, the reader s of the whole has too.
Follower(c, d, r, s) ==
  /\ IsReader(r) /\ IsReader(s) /\ r.data = c /\ s.data = d
  /\ r.ok => s.ok /\ s.pos = r.pos /\ s.got = r.got

LEMMA FailFields ==
  ASSUME NEW r, IsReader(r)
  PROVE  IsReader(Fail(r)) /\ Fail(r).data = r.data /\ ~Fail(r).ok
BY DEF IsReader, Fail

LEMMA ReadFields ==
  ASSUME NEW r, IsReader(r), NEW n \in Nat, NEW v
  PROVE  /\ IsReader(Read(r, n, v)) /\ Read(r, n, v).data = r.data
         /\ Read(r, n, v).ok => r.ok /\ r.pos + n <= Len(r.data)
         /\ r.ok /\ r.pos + n <= Len(r.data) =>
              /\ Read(r, n, v).ok /\ Read(r, n, v).pos = r.pos + n
              /\ Read(r, n, v).got = With(r.got, v)
<1> DEFINE p == r.pos + n
           g == With(r.got, v)
           t == [r EXCEPT !.pos = p, !.got = g]
<1>1. p \in Nat /\ r.pos \in Nat /\ Len(r.data) \in Nat /\ r.ok \in BOOLEAN
  BY DEF IsReader
<1>2. Read(r, n, v) = IF ~r.ok \/ p > Len(r.data) THEN Fail(r) ELSE t
  BY Zenon DEF Read, With
<1> HIDE DEF p, g
<1> DEFINE R == [data : Seq(Byte), pos : Nat, ok : BOOLEAN, got : {r.got, g}]
           u == [r EXCEPT !.pos = p]
<1>3. u \in R /\ u.data = r.data /\ u.ok = r.ok /\ u.pos = p
  BY <1>1 DEF IsReader
<1>8. t = [u EXCEPT !.got = g]
  OBVIOUS
<1> HIDE DEF t, u
<1>9. t \in R /\ t.data = u.data /\ t.ok = u.ok /\ t.pos = u.pos /\ t.got = g
  BY <1>3, <1>8
<1>4. IsReader(t) /\ t.data = r.data /\ t.ok = r.ok /\ t.pos = p /\ t.got = g
  BY <1>3, <1>9 DEF IsReader
<1>5. IsReader(Fail(r)) /\ Fail(r).data = r.data /\ ~Fail(r).ok
  BY FailFields
<1>6. CASE ~r.ok \/ p > Len(r.data)
  <2>1. Read(r, n, v) = Fail(r)
    BY <1>2, <1>6
  <2>2. p > Len(r.data) => ~(p <= Len(r.data))
    BY <1>1
  <2>3. ~ (r.ok /\ p <= Len(r.data))
    BY <1>6, <2>2
  <2> QED
    BY <1>5, <2>1, <2>3 DEF p
<1>7. CASE ~ (~r.ok \/ p > Len(r.data))
  <2>1. Read(r, n, v) = t
    BY <1>2, <1>7
  <2>2. r.ok /\ p <= Len(r.data)
    BY <1>1, <1>7
  <2> QED
    BY <1>4, <2>1, <2>2 DEF p, g
<1> QED
  BY <1>6, <1>7

\* A read of the prefix fails or does what it does on the whole.
LEMMA FollowRead ==
  ASSUME NEW c, NEW d, Prefix(c, d), NEW r, NEW s, Follower(c, d, r, s), NEW n \in Nat, NEW v, NEW w,
         r.ok /\ r.pos + n <= Len(c) => v = w
  PROVE  Follower(c, d, Read(r, n, v), Read(s, n, w))
<1> DEFINE t == Read(r, n, v)
           u == Read(s, n, w)
<1>1. IsReader(r) /\ IsReader(s) /\ r.data = c /\ s.data = d /\ (r.ok => s.ok /\ s.pos = r.pos /\ s.got = r.got)
  BY DEF Follower
<1>2. /\ IsReader(t) /\ t.data = r.data /\ (t.ok => r.ok /\ r.pos + n <= Len(r.data))
      /\ r.ok /\ r.pos + n <= Len(r.data) => t.ok /\ t.pos = r.pos + n /\ t.got = With(r.got, v)
  BY <1>1, ReadFields
<1>3. /\ IsReader(u) /\ u.data = s.data
      /\ s.ok /\ s.pos + n <= Len(s.data) => u.ok /\ u.pos = s.pos + n /\ u.got = With(s.got, w)
  BY <1>1, ReadFields
<1> HIDE DEF t, u
<1>4. ASSUME t.ok PROVE u.ok /\ u.pos = t.pos /\ u.got = t.got
  <2>1. r.ok /\ r.pos + n <= Len(c) /\ v = w
    BY <1>1, <1>2, <1>4
  <2>2. s.ok /\ s.pos = r.pos /\ s.got = r.got
    BY <1>1, <2>1
  <2>3. s.pos + n <= Len(s.data)
    <3>1. r.pos \in Nat /\ Len(c) \in Nat /\ Len(d) \in Nat /\ Len(c) <= Len(d)
      BY <1>1 DEF IsReader, Prefix
    <3>2. r.pos + n <= Len(d)
      BY <2>1, <3>1
    <3> QED
      BY <1>1, <2>2, <3>2
  <2>4. u.ok /\ u.pos = s.pos + n /\ u.got = With(s.got, w)
    BY <1>3, <2>2, <2>3
  <2>5. t.pos = r.pos + n /\ t.got = With(r.got, v)
    BY <1>1, <1>2, <2>1
  <2> QED
    BY <2>1, <2>2, <2>4, <2>5
<1>5. Follower(c, d, t, u)
  BY <1>1, <1>2, <1>3, <1>4 DEF Follower
<1> QED
  BY <1>5 DEF t, u

\* What follows in the cut packet follows in the whole.
LEMMA AheadFollows ==
  ASSUME NEW c, NEW d, Prefix(c, d), NEW r, NEW s, Follower(c, d, r, s), r.ok,
         NEW k \in Nat \ {0}, r.pos + k <= Len(c)
  PROVE  Ahead(r, k) = Ahead(s, k)
<1>1. r.data = c /\ s.data = d /\ s.pos = r.pos /\ r.pos \in Nat
  BY DEF Follower, IsReader
<1>2. Len(c) \in Nat
  BY DEF Prefix
<1> DEFINE j == r.pos + k
<1>3. j \in 1 .. Len(c)
  BY <1>1, <1>2
<1>4. Ahead(r, k) = c[j] /\ Ahead(s, k) = d[j]
  BY <1>1 DEF Ahead
<1> HIDE DEF j
<1>5. c[j] = d[j]
  BY <1>3 DEF Prefix
<1> QED
  BY <1>4, <1>5

LEMMA AheadsFollow ==
  ASSUME NEW c, NEW d, Prefix(c, d), NEW r, NEW s, Follower(c, d, r, s), r.ok,
         NEW n \in Nat, r.pos + n <= Len(c)
  PROVE  \A k \in 1 .. n : Ahead(r, k) = Ahead(s, k)
<1> SUFFICES ASSUME NEW k \in 1 .. n
             PROVE  Ahead(r, k) = Ahead(s, k)
  OBVIOUS
<1>1. r.pos \in Nat /\ Len(c) \in Nat
  BY DEF Follower, IsReader, Prefix
<1>2. k \in Nat \ {0} /\ r.pos + k <= Len(c)
  BY <1>1
<1> QED
  BY <1>2, AheadFollows

LEMMA FollowByte ==
  ASSUME NEW c, NEW d, Prefix(c, d), NEW r, NEW s, Follower(c, d, r, s)
  PROVE  Follower(c, d, ReadByte(r), ReadByte(s))
<1>1. ASSUME r.ok, r.pos + 1 <= Len(c) PROVE Ahead(r, 1) = Ahead(s, 1)
  BY <1>1, AheadFollows
<1> QED
  BY <1>1, FollowRead DEF ReadByte

LEMMA FollowShort ==
  ASSUME NEW c, NEW d, Prefix(c, d), NEW r, NEW s, Follower(c, d, r, s)
  PROVE  Follower(c, d, ReadShort(r), ReadShort(s))
<1> DEFINE v == Short(Ahead(r, 1), Ahead(r, 2))
           w == Short(Ahead(s, 1), Ahead(s, 2))
<1>1. ASSUME r.ok, r.pos + 2 <= Len(c) PROVE v = w
  <2>1. \A k \in 1 .. 2 : Ahead(r, k) = Ahead(s, k)
    BY <1>1, AheadsFollow
  <2>2. Ahead(r, 1) = Ahead(s, 1) /\ Ahead(r, 2) = Ahead(s, 2)
    BY <2>1
  <2> QED
    BY <2>2
<1> HIDE DEF v, w
<1>2. Follower(c, d, Read(r, 2, v), Read(s, 2, w))
  BY <1>1, FollowRead
<1> QED
  BY <1>2 DEF ReadShort, v, w

LEMMA FollowInt ==
  ASSUME NEW c, NEW d, Prefix(c, d), NEW r, NEW s, Follower(c, d, r, s)
  PROVE  Follower(c, d, ReadInt(r), ReadInt(s))
<1> DEFINE v == IntAhead(r, 1)
           w == IntAhead(s, 1)
<1>1. ASSUME r.ok, r.pos + 4 <= Len(c) PROVE v = w
  <2>1. \A k \in 1 .. 4 : Ahead(r, k) = Ahead(s, k)
    BY <1>1, AheadsFollow
  <2>2. /\ Ahead(r, 1) = Ahead(s, 1) /\ Ahead(r, 1 + 1) = Ahead(s, 1 + 1)
        /\ Ahead(r, 1 + 2) = Ahead(s, 1 + 2) /\ Ahead(r, 1 + 3) = Ahead(s, 1 + 3)
    BY <2>1
  <2> QED
    BY <2>2 DEF IntAhead
<1> HIDE DEF v, w
<1>2. Follower(c, d, Read(r, 4, v), Read(s, 4, w))
  BY <1>1, FollowRead
<1> QED
  BY <1>2 DEF ReadInt, v, w

LEMMA FollowBytes ==
  ASSUME NEW c, NEW d, Prefix(c, d), NEW r, NEW s, Follower(c, d, r, s), NEW n \in Nat
  PROVE  Follower(c, d, ReadBytes(r, n), ReadBytes(s, n))
<1> DEFINE v == SubSeq(r.data, r.pos + 1, r.pos + n)
           w == SubSeq(s.data, s.pos + 1, s.pos + n)
<1>1. ASSUME r.ok, r.pos + n <= Len(c) PROVE v = w
  <2>1. r.data = c /\ s.data = d /\ s.pos = r.pos /\ r.pos \in Nat
    BY <1>1 DEF Follower, IsReader
  <2>2. c \in Seq(Byte) /\ d \in Seq(Byte) /\ Len(c) <= Len(d) /\ Len(c) \in Nat /\ Len(d) \in Nat
    BY DEF Prefix
  <2>3. v = Slice(c, r.pos, n) /\ w = Slice(d, r.pos, n)
    BY <2>1 DEF Slice
  <2> HIDE DEF v, w
  <2> DEFINE p == r.pos
  <2>4. p \in Nat /\ p + n <= Len(c) /\ p + n <= Len(d)
    BY <1>1, <2>1, <2>2
  <2> HIDE DEF p
  <2>5. /\ AreBytes(Slice(c, p, n), n) /\ \A k \in 1 .. n : Slice(c, p, n)[k] = c[p + k]
        /\ AreBytes(Slice(d, p, n), n) /\ \A k \in 1 .. n : Slice(d, p, n)[k] = d[p + k]
    BY <2>2, <2>4, SliceIs
  <2>6. \A k \in 1 .. n : c[p + k] = d[p + k]
    <3>1. \A k \in 1 .. n : p + k \in 1 .. Len(c)
      BY <2>2, <2>4
    <3> QED
      BY <3>1 DEF Prefix
  <2>7. Slice(c, p, n) = Slice(d, p, n)
    BY <2>5, <2>6, SameBytesAreOne
  <2> QED
    BY <2>3, <2>7 DEF p
<1> HIDE DEF v, w
<1>2. Follower(c, d, Read(r, n, v), Read(s, n, w))
  BY <1>1, FollowRead
<1>3. ReadBytes(r, n) = Read(r, n, v) /\ ReadBytes(s, n) = Read(s, n, w)
  BY DEF ReadBytes, v, w
<1> QED
  BY <1>2, <1>3

LEMMA FollowKey ==
  ASSUME NEW c, NEW d, Prefix(c, d), NEW r, NEW s, Follower(c, d, r, s)
  PROVE  Follower(c, d, ReadKey(r), ReadKey(s))
BY FollowInt DEF ReadKey

LEMMA FollowNew ==
  ASSUME NEW c, NEW d, Prefix(c, d)
  PROVE  Follower(c, d, NewReader(c), NewReader(d))
BY DEF Follower, IsReader, NewReader, Prefix

LEMMA UnitsInRoom ==
  ASSUME NEW l \in Nat, NEW p \in Nat, NEW k \in 1 .. ((l - p) \div 2)
  PROVE  k \in Nat \ {0} /\ p + 2 * k <= l
<1> DEFINE h == (l - p) \div 2
<1>1. h \in Int /\ 2 * h <= l - p
  OBVIOUS
<1>2. k \in 1 .. h
  OBVIOUS
<1> HIDE DEF h
<1> QED
  BY <1>1, <1>2

\* So does a string, whose end lies in the prefix or is not found,
LEMMA FollowString ==
  ASSUME NEW c, NEW d, Prefix(c, d), NEW r, NEW s, Follower(c, d, r, s)
  PROVE  Follower(c, d, ReadString(r), ReadString(s))
<1> DEFINE Room(x) == (Len(x.data) - x.pos) \div 2
           Zero(x) == {k \in 1 .. Room(x) : UnitAt(x, k) = 0}
           Text(x, n) == Runes([k \in 1 .. (n - 1) |-> UnitAt(x, k)])
           A == Zero(r)
           B == Zero(s)
           m == Least(A)
           n == Least(B)
           v == Text(r, m)
           w == Text(s, n)
<1>1. /\ ReadString(r) = IF ~r.ok \/ A = {} THEN Fail(r) ELSE Read(r, 2 * m, v)
      /\ ReadString(s) = IF ~s.ok \/ B = {} THEN Fail(s) ELSE Read(s, 2 * n, w)
  BY Zenon DEF ReadString
<1>2. /\ IsReader(r) /\ IsReader(s) /\ r.data = c /\ s.data = d
      /\ r.ok => s.ok /\ s.pos = r.pos /\ s.got = r.got
  BY DEF Follower
<1>3. r.pos \in Nat /\ s.pos \in Nat
  BY <1>2 DEF IsReader
<1>4. Len(c) \in Nat /\ Len(d) \in Nat /\ Len(c) <= Len(d)
  BY DEF Prefix
<1>5. A \in SUBSET Nat /\ B \in SUBSET Nat
  OBVIOUS
<1>6. (A # {} => m \in A /\ \A k \in A : m <= k) /\ (B # {} => n \in B /\ \A k \in B : n <= k)
  BY <1>5, LeastIs
<1>7. \A k \in Nat \ {0} : r.pos + 2 * k <= Len(c) => k \in 1 .. Room(r)
  BY <1>2, <1>3, <1>4
<1>8. \A k \in 1 .. Room(r) : k \in Nat \ {0} /\ r.pos + 2 * k <= Len(c)
  BY <1>2, <1>3, <1>4, UnitsInRoom
<1>9. \A k \in 1 .. Room(s) : k \in Nat \ {0} /\ s.pos + 2 * k <= Len(d)
  BY <1>2, <1>3, <1>4, UnitsInRoom
<1>10. \A k \in Nat \ {0} : s.pos + 2 * k <= Len(d) => k \in 1 .. Room(s)
  BY <1>2, <1>3, <1>4
<1> HIDE DEF Room
<1>11. ASSUME r.ok, NEW k \in 1 .. Room(r)
       PROVE  k \in 1 .. Room(s) /\ UnitAt(r, k) = UnitAt(s, k)
  <2>1. k \in Nat \ {0} /\ r.pos + 2 * k <= Len(c)
    BY <1>8
  <2>2. s.pos = r.pos /\ r.pos + 2 * k <= Len(d)
    BY <1>2, <1>3, <1>4, <1>11, <2>1
  <2>3. k \in 1 .. Room(s)
    BY <1>10, <2>1, <2>2
  <2> DEFINE e == 2 * k
             o == 2 * k - 1
  <2>4. e \in Nat \ {0} /\ o \in Nat \ {0} /\ r.pos + e <= Len(c) /\ r.pos + o <= Len(c)
    BY <1>3, <1>4, <2>1
  <2> HIDE DEF e, o
  <2>5. Ahead(r, e) = Ahead(s, e) /\ Ahead(r, o) = Ahead(s, o)
    BY <1>11, <2>4, AheadFollows
  <2>6. UnitAt(r, k) = UnitAt(s, k)
    BY <2>5, Zenon DEF UnitAt, e, o
  <2> QED
    BY <2>3, <2>6
<1>12. ASSUME r.ok, A # {} PROVE B # {} /\ n = m /\ v = w
  <2>1. m \in 1 .. Room(r) /\ UnitAt(r, m) = 0 /\ \A k \in A : m <= k
    BY <1>6, <1>12
  <2>2. m \in 1 .. Room(s) /\ UnitAt(s, m) = 0
    BY <1>11, <1>12, <2>1
  <2>3. m \in B
    BY <2>2
  <2>4. n \in B /\ n <= m
    BY <1>6, <2>3
  <2>5. n \in 1 .. Room(s) /\ UnitAt(s, n) = 0
    BY <2>4
  <2> HIDE DEF A, B, m, n
  <2>6. n \in Nat \ {0} /\ m \in Nat \ {0}
    BY <1>8, <1>9, <2>1, <2>5
  <2>7. \A k \in Nat \ {0} : k <= m => k \in 1 .. Room(r)
    <3> SUFFICES ASSUME NEW k \in Nat \ {0}, k <= m
                 PROVE  k \in 1 .. Room(r)
      OBVIOUS
    <3>1. r.pos + 2 * m <= Len(c)
      BY <1>8, <2>1
    <3>2. r.pos + 2 * k <= Len(c)
      BY <1>3, <1>4, <2>6, <3>1
    <3> QED
      BY <1>7, <3>2
  <2>8. n \in 1 .. Room(r) /\ UnitAt(r, n) = UnitAt(s, n)
    BY <1>11, <1>12, <2>4, <2>6, <2>7
  <2>9. n \in A
    BY <2>5, <2>8 DEF A
  <2>10. n = m
    BY <2>1, <2>4, <2>6, <2>9
  <2>11. \A k \in 1 .. (m - 1) : UnitAt(r, k) = UnitAt(s, k)
    <3> SUFFICES ASSUME NEW k \in 1 .. (m - 1)
                 PROVE  UnitAt(r, k) = UnitAt(s, k)
      OBVIOUS
    <3>1. k \in Nat \ {0} /\ k <= m
      BY <2>6
    <3> QED
      BY <1>11, <1>12, <2>7, <3>1
  <2>12. [k \in 1 .. (m - 1) |-> UnitAt(r, k)] = [k \in 1 .. (m - 1) |-> UnitAt(s, k)]
    BY <2>11
  <2>13. v = w
    BY <2>10, <2>12, Zenon
  <2> QED
    BY <2>3, <2>10, <2>13
<1>13. IsReader(ReadString(s)) /\ ReadString(s).data = d
  <2>1. CASE ~s.ok \/ B = {}
    BY <1>1, <1>2, <2>1, FailFields
  <2>2. CASE ~ (~s.ok \/ B = {})
    <3>1. n \in B
      BY <1>6, <2>2
    <3>2. n \in 1 .. Room(s)
      BY <3>1
    <3>3. 2 * n \in Nat
      BY <1>9, <3>2
    <3> HIDE DEF B, n, w
    <3>4. ReadString(s) = Read(s, 2 * n, w)
      BY <1>1, <2>2
    <3> QED
      BY <1>2, <3>3, <3>4, ReadFields
  <2> QED
    BY <2>1, <2>2
<1>14. CASE ~r.ok \/ A = {}
  <2>1. ReadString(r) = Fail(r)
    BY <1>1, <1>14
  <2>2. IsReader(Fail(r)) /\ Fail(r).data = c /\ ~Fail(r).ok
    BY <1>2, FailFields
  <2> QED
    BY <1>13, <2>1, <2>2 DEF Follower
<1>15. CASE ~ (~r.ok \/ A = {})
  <2>1. r.ok /\ A # {} /\ s.ok
    BY <1>2, <1>15
  <2>2. B # {} /\ n = m /\ v = w
    BY <1>12, <2>1
  <2>3. 2 * m \in Nat
    <3>1. m \in 1 .. Room(r)
      BY <1>6, <2>1
    <3> QED
      BY <1>8, <3>1
  <2> HIDE DEF A, B, m, n, v, w
  <2>4. ReadString(r) = Read(r, 2 * m, v) /\ ReadString(s) = Read(s, 2 * m, v)
    BY <1>1, <2>1, <2>2
  <2> QED
    BY <2>3, <2>4, FollowRead
<1> QED
  BY <1>14, <1>15

\* and a loop of reads.
LEMMA FollowLoop ==
  ASSUME NEW c, NEW d, Prefix(c, d), NEW r, NEW s, Follower(c, d, r, s), NEW n \in Nat,
         NEW kind \in {"string", "pair"}, NEW f, Loops(f, kind, r, n), NEW h, Loops(h, kind, s, n)
  PROVE  Follower(c, d, f[n], h[n])
<1> DEFINE Good == {i \in 0 .. n : Follower(c, d, f[i], h[i])}
<1>1. 0 \in Good
  <2>1. f[0] = r /\ h[0] = s
    BY DEF Loops
  <2>2. 0 \in 0 .. n
    OBVIOUS
  <2> QED
    BY <2>1, <2>2
<1>2. ASSUME NEW j \in 0 .. (n - 1), j \in Good PROVE j + 1 \in Good
  <2> DEFINE i == j + 1
  <2>1. i \in 1 .. n /\ i \in 0 .. n /\ i - 1 = j
    OBVIOUS
  <2> HIDE DEF i
  <2>2. Follower(c, d, f[j], h[j])
    BY <1>2
  <2>3. f[i] = ReadItem(kind, f[j]) /\ h[i] = ReadItem(kind, h[j])
    BY <2>1 DEF Loops
  <2>4. CASE kind = "string"
    <3>1. f[i] = ReadString(f[j]) /\ h[i] = ReadString(h[j])
      BY <2>3, <2>4, Zenon DEF ReadItem
    <3>2. Follower(c, d, f[i], h[i])
      BY <2>2, <3>1, FollowString
    <3> QED
      BY <2>1, <3>2 DEF i
  <2>5. CASE kind = "pair"
    <3>1. f[i] = ReadInt(ReadInt(f[j])) /\ h[i] = ReadInt(ReadInt(h[j]))
      <4>1. kind # "string"
        BY <2>5
      <4> QED
        BY <2>3, <4>1, Zenon DEF ReadItem
    <3>2. Follower(c, d, f[i], h[i])
      BY <2>2, <3>1, FollowInt
    <3> QED
      BY <2>1, <3>2 DEF i
  <2> QED
    BY <2>4, <2>5
<1> HIDE DEF Good
<1>3. \A i \in 0 .. n : i \in Good
  BY <1>1, <1>2, AllUpTo
<1>4. n \in 0 .. n
  OBVIOUS
<1> QED
  BY <1>3, <1>4 DEF Good

LEMMA FollowStrings ==
  ASSUME NEW c, NEW d, Prefix(c, d), NEW r, NEW s, Follower(c, d, r, s), NEW n \in Nat
  PROVE  Follower(c, d, ReadStrings(r, n), ReadStrings(s, n))
<1>1. PICK f : Loops(f, "string", r, n) /\ ReadStrings(r, n) = f[n]
  BY StringsAreRead
<1>2. PICK h : Loops(h, "string", s, n) /\ ReadStrings(s, n) = h[n]
  BY StringsAreRead
<1> QED
  BY <1>1, <1>2, FollowLoop

LEMMA FollowPairs ==
  ASSUME NEW c, NEW d, Prefix(c, d), NEW r, NEW s, Follower(c, d, r, s), NEW n \in Nat
  PROVE  Follower(c, d, ReadPairs(r, n), ReadPairs(s, n))
<1>1. PICK f : Loops(f, "pair", r, n) /\ ReadPairs(r, n) = f[n]
  BY PairsAreRead
<1>2. PICK h : Loops(h, "pair", s, n) /\ ReadPairs(s, n) = h[n]
  BY PairsAreRead
<1> QED
  BY <1>1, <1>2, FollowLoop

\* So no parser takes a prefix for another packet.
LEMMA CutGameServerAuth ==
  ASSUME NEW c, NEW d, Prefix(c, d)
  PROVE  SameOrRefused(ParseGameServerAuth(c), ParseGameServerAuth(d))
<1> DEFINE R(x) == ReadBytes(ReadByte(ReadShort(ReadShort(ReadByte(ReadByte(ReadByte(NewReader(x))))))), 32)
           Result(g) == [ok |-> TRUE, id |-> g[1], alternate |-> g[2] # 0,
                         maxPlayers |-> g[4], port |-> g[5], hexID |-> g[7]]
           r == R(c)
           s == R(d)
<1>1. Follower(c, d, r, s)
  <2>1. Follower(c, d, ReadByte(ReadByte(ReadByte(NewReader(c)))), ReadByte(ReadByte(ReadByte(NewReader(d)))))
    BY FollowNew, FollowByte
  <2> DEFINE a == ReadByte(ReadByte(ReadByte(NewReader(c))))
             b == ReadByte(ReadByte(ReadByte(NewReader(d))))
  <2> HIDE DEF a, b
  <2>2. Follower(c, d, ReadByte(ReadShort(ReadShort(a))), ReadByte(ReadShort(ReadShort(b))))
    BY <2>1, FollowByte, FollowShort DEF a, b
  <2>3. Follower(c, d, ReadBytes(ReadByte(ReadShort(ReadShort(a))), 32), ReadBytes(ReadByte(ReadShort(ReadShort(b))), 32))
    BY <2>2, FollowBytes
  <2> QED
    BY <2>3 DEF a, b
<1>2. /\ ParseGameServerAuth(c) = IF ~r.ok THEN Malformed ELSE Result(r.got)
      /\ ParseGameServerAuth(d) = IF ~s.ok THEN Malformed ELSE Result(s.got)
  BY Zenon DEF ParseGameServerAuth
<1> HIDE DEF R
<1>3. r.ok => s.ok /\ s.got = r.got
  BY <1>1 DEF Follower
<1>4. ~Malformed.ok /\ Result(s.got).ok
  BY DEF Malformed
<1> HIDE DEF Result
<1> QED
  BY <1>2, <1>3, <1>4 DEF SameOrRefused

LEMMA CutPlayerAuthRequest ==
  ASSUME NEW c, NEW d, Prefix(c, d)
  PROVE  SameOrRefused(ParsePlayerAuthRequest(c), ParsePlayerAuthRequest(d))
<1> DEFINE R(x) == ReadKey(ReadString(NewReader(x)))
           Result(g) == [ok |-> TRUE, account |-> g[1], key |-> SessionKey(g[2], g[3], g[4], g[5])]
           r == R(c)
           s == R(d)
<1>1. Follower(c, d, r, s)
  BY FollowNew, FollowString, FollowKey
<1>2. /\ ParsePlayerAuthRequest(c) = IF ~r.ok THEN Malformed ELSE Result(r.got)
      /\ ParsePlayerAuthRequest(d) = IF ~s.ok THEN Malformed ELSE Result(s.got)
  BY Zenon DEF ParsePlayerAuthRequest
<1> HIDE DEF R
<1>3. r.ok => s.ok /\ s.got = r.got
  BY <1>1 DEF Follower
<1>4. ~Malformed.ok /\ Result(s.got).ok
  BY DEF Malformed
<1> HIDE DEF Result
<1> QED
  BY <1>2, <1>3, <1>4 DEF SameOrRefused

LEMMA CutAuthLogin ==
  ASSUME NEW c, NEW d, Prefix(c, d)
  PROVE  SameOrRefused(ParseAuthLogin(c), ParseAuthLogin(d))
<1> DEFINE R(x) == ReadKey(ReadKey(ReadString(NewReader(x))))
           Result(g) == [ok |-> TRUE, account |-> g[1], key |-> SessionKey(g[2], g[3], g[4], g[5])]
           r == R(c)
           s == R(d)
<1>1. Follower(c, d, r, s)
  BY FollowNew, FollowString, FollowKey
<1>2. /\ ParseAuthLogin(c) = IF ~r.ok THEN Malformed ELSE Result(r.got)
      /\ ParseAuthLogin(d) = IF ~s.ok THEN Malformed ELSE Result(s.got)
  BY Zenon DEF ParseAuthLogin
<1> HIDE DEF R
<1>3. r.ok => s.ok /\ s.got = r.got
  BY <1>1 DEF Follower
<1>4. ~Malformed.ok /\ Result(s.got).ok
  BY DEF Malformed
<1> HIDE DEF Result
<1> QED
  BY <1>2, <1>3, <1>4 DEF SameOrRefused

\* The count in front of a list is an integer.
LEMMA CountIsInt ==
  ASSUME NEW d \in Seq(Byte)
  PROVE  /\ ReadShort(NewReader(d)).ok => ReadShort(NewReader(d)).got[1] \in Int
         /\ ReadInt(NewReader(d)).ok => ReadInt(NewReader(d)).got[1] \in Int
<1> DEFINE r == NewReader(d)
           v == Short(Ahead(r, 1), Ahead(r, 2))
           w == IntAhead(r, 1)
           g == <<>>
<1>1. IsReader(r) /\ r.data = d /\ r.pos = 0 /\ r.got = g
  BY DEF IsReader, NewReader
<1>2. ASSUME NEW k \in Nat \ {0}, 0 + k <= Len(d) PROVE Ahead(r, k) \in Byte /\ Signed(Ahead(r, k)) \in Int /\ Ahead(r, k) \in Int
  <2>1. Ahead(r, k) = d[0 + k]
    BY <1>1 DEF Ahead
  <2>2. d[0 + k] \in Byte
    BY <1>2
  <2> DEFINE x == Ahead(r, k)
  <2>3. x \in Byte
    BY <2>1, <2>2
  <2> HIDE DEF x
  <2>4. x \in Int
    BY <2>3 DEF Byte
  <2>5. Signed(x) \in Int
    BY <2>4 DEF Signed
  <2> QED
    BY <2>3, <2>4, <2>5 DEF x
<1> HIDE DEF r
<1>3. ASSUME ReadShort(r).ok PROVE ReadShort(r).got[1] \in Int
  <2>1. ReadShort(r) = Read(r, 2, v)
    BY DEF ReadShort
  <2>2. 0 + 2 <= Len(d)
    <3> HIDE DEF v
    <3>1. Read(r, 2, v).ok => r.ok /\ r.pos + 2 <= Len(r.data)
      BY <1>1, ReadFields
    <3> QED
      BY <1>1, <1>3, <2>1, <3>1
  <2>3. v \in Int
    <3>1. 0 + 1 <= Len(d)
      BY <2>2
    <3>2. Ahead(r, 1) \in Int /\ Signed(Ahead(r, 2)) \in Int
      BY <1>2, <2>2, <3>1
    <3> QED
      BY <3>2 DEF Short
  <2> HIDE DEF v, g
  <2>4. Read(r, 2, v).got = With(g, v)
    <3>1. /\ Read(r, 2, v).ok => r.ok /\ r.pos + 2 <= Len(r.data)
          /\ r.ok /\ r.pos + 2 <= Len(r.data) => Read(r, 2, v).got = With(r.got, v)
      BY <1>1, ReadFields
    <3> QED
      BY <1>1, <1>3, <2>1, <3>1
  <2>5. With(g, v) = <<v>>
    BY Append0 DEF g
  <2> QED
    BY <2>1, <2>3, <2>4, <2>5
<1>4. ASSUME ReadInt(r).ok PROVE ReadInt(r).got[1] \in Int
  <2>1. ReadInt(r) = Read(r, 4, w)
    BY DEF ReadInt
  <2>2. 0 + 4 <= Len(d)
    <3> HIDE DEF w
    <3>1. Read(r, 4, w).ok => r.ok /\ r.pos + 4 <= Len(r.data)
      BY <1>1, ReadFields
    <3> QED
      BY <1>1, <1>4, <2>1, <3>1
  <2>3. w \in Int
    <3>1. 0 + 1 <= Len(d) /\ 0 + 2 <= Len(d) /\ 0 + 3 <= Len(d)
      BY <2>2
    <3>2. Ahead(r, 1) \in Int /\ Ahead(r, 2) \in Int /\ Ahead(r, 3) \in Int /\ Signed(Ahead(r, 4)) \in Int
      BY <1>2, <2>2, <3>1
    <3>3. w = LongWord(Ahead(r, 1), Ahead(r, 2), Ahead(r, 3), Ahead(r, 4))
      BY DEF IntAhead
    <3> QED
      BY <3>2, <3>3 DEF LongWord
  <2> HIDE DEF w, g
  <2>4. Read(r, 4, w).got = With(g, w)
    <3>1. /\ Read(r, 4, w).ok => r.ok /\ r.pos + 4 <= Len(r.data)
          /\ r.ok /\ r.pos + 4 <= Len(r.data) => Read(r, 4, w).got = With(r.got, w)
      BY <1>1, ReadFields
    <3> QED
      BY <1>1, <1>4, <2>1, <3>1
  <2>5. With(g, w) = <<w>>
    BY Append0 DEF g
  <2> QED
    BY <2>1, <2>3, <2>4, <2>5
<1> QED
  BY <1>3, <1>4 DEF r

LEMMA CutPlayerInGame ==
  ASSUME NEW c, NEW d, Prefix(c, d)
  PROVE  SameOrRefused(ParsePlayerInGame(c), ParsePlayerInGame(d))
<1> DEFINE a == ReadShort(NewReader(c))
           b == ReadShort(NewReader(d))
           R(x) == ReadStrings(x, x.got[1])
           r == R(a)
           s == R(b)
           Bad(x) == ~x.ok \/ x.got[1] < 0 \/ x.got[1] > MaxAccounts
           Result(g) == [ok |-> TRUE, accounts |-> Tail(g)]
<1>1. Follower(c, d, a, b) /\ (a.ok => a.got[1] \in Int)
  BY FollowNew, FollowShort, CountIsInt DEF Prefix
<1>2. /\ ParsePlayerInGame(c) = IF Bad(a) \/ ~r.ok THEN Malformed ELSE Result(r.got)
      /\ ParsePlayerInGame(d) = IF Bad(b) \/ ~s.ok THEN Malformed ELSE Result(s.got)
  BY Zenon DEF ParsePlayerInGame
<1>3. ~Bad(a) => ~Bad(b) /\ a.got[1] \in Nat /\ b.got[1] = a.got[1]
  BY <1>1 DEF Follower, MaxAccounts
<1>4. ASSUME ~Bad(a), r.ok PROVE ~Bad(b) /\ s.ok /\ s.got = r.got
  <2> HIDE DEF Bad, a, b
  <2> DEFINE n == a.got[1]
  <2>1. ~Bad(b) /\ n \in Nat /\ b.got[1] = n
    BY <1>3, <1>4
  <2> HIDE DEF n
  <2>2. Follower(c, d, ReadStrings(a, n), ReadStrings(b, n))
    BY <1>1, <2>1, FollowStrings
  <2>3. r = ReadStrings(a, n) /\ s = ReadStrings(b, n)
    BY <2>1 DEF n
  <2> HIDE DEF R
  <2> QED
    BY <1>4, <2>1, <2>2, <2>3 DEF Follower
<1> HIDE DEF R, Bad, a, b
<1>5. ~Malformed.ok /\ Result(s.got).ok
  BY DEF Malformed
<1> HIDE DEF Result
<1> QED
  BY <1>2, <1>4, <1>5 DEF SameOrRefused

LEMMA CutPlayerLogout ==
  ASSUME NEW c, NEW d, Prefix(c, d)
  PROVE  SameOrRefused(ParsePlayerLogout(c), ParsePlayerLogout(d))
<1> DEFINE a == ReadString(NewReader(c))
           b == ReadString(NewReader(d))
           Result(g) == [ok |-> TRUE, account |-> g[1]]
<1>1. Follower(c, d, a, b)
  BY FollowNew, FollowString
<1>2. /\ ParsePlayerLogout(c) = IF ~a.ok THEN Malformed ELSE Result(a.got)
      /\ ParsePlayerLogout(d) = IF ~b.ok THEN Malformed ELSE Result(b.got)
  BY Zenon DEF ParsePlayerLogout
<1> HIDE DEF a, b
<1>3. a.ok => b.ok /\ b.got = a.got
  BY <1>1 DEF Follower
<1>4. ~Malformed.ok /\ Result(b.got).ok
  BY DEF Malformed
<1> HIDE DEF Result
<1> QED
  BY <1>2, <1>3, <1>4 DEF SameOrRefused

LEMMA CutServerStatus ==
  ASSUME NEW c, NEW d, Prefix(c, d)
  PROVE  SameOrRefused(ParseServerStatus(c), ParseServerStatus(d))
<1> DEFINE a == ReadInt(NewReader(c))
           b == ReadInt(NewReader(d))
           R(x) == ReadPairs(x, x.got[1])
           r == R(a)
           s == R(b)
           Bad(x) == ~x.ok \/ x.got[1] < 0 \/ x.got[1] > MaxAttrs
           Result(n, g) == [ok |-> TRUE, attrs |-> [i \in 1 .. n |-> <<g[2 * i], g[2 * i + 1]>>]]
<1>1. Follower(c, d, a, b) /\ (a.ok => a.got[1] \in Int)
  BY FollowNew, FollowInt, CountIsInt DEF Prefix
<1>2. /\ ParseServerStatus(c) = IF Bad(a) \/ ~r.ok THEN Malformed ELSE Result(a.got[1], r.got)
      /\ ParseServerStatus(d) = IF Bad(b) \/ ~s.ok THEN Malformed ELSE Result(b.got[1], s.got)
  BY Zenon DEF ParseServerStatus
<1>3. ~Bad(a) => ~Bad(b) /\ a.got[1] \in Nat /\ b.got[1] = a.got[1]
  BY <1>1 DEF Follower, MaxAttrs
<1>4. ASSUME ~Bad(a), r.ok PROVE ~Bad(b) /\ s.ok /\ s.got = r.got /\ b.got[1] = a.got[1]
  <2> HIDE DEF Bad, a, b
  <2> DEFINE n == a.got[1]
  <2>1. ~Bad(b) /\ n \in Nat /\ b.got[1] = n
    BY <1>3, <1>4
  <2> HIDE DEF n
  <2>2. Follower(c, d, ReadPairs(a, n), ReadPairs(b, n))
    BY <1>1, <2>1, FollowPairs
  <2>3. r = ReadPairs(a, n) /\ s = ReadPairs(b, n)
    BY <2>1 DEF n
  <2> HIDE DEF R
  <2>4. s.ok /\ s.got = r.got
    BY <1>4, <2>2, <2>3 DEF Follower
  <2> QED
    BY <2>1, <2>4 DEF n
<1> HIDE DEF R, Bad, a, b
<1>5. ~Malformed.ok /\ Result(b.got[1], s.got).ok
  BY DEF Malformed
<1> HIDE DEF Result
<1> QED
  BY <1>2, <1>4, <1>5 DEF SameOrRefused

LEMMA SliceFollows ==
  ASSUME NEW c, NEW d, Prefix(c, d), NEW p \in Nat, NEW n \in Nat, p + n <= Len(c)
  PROVE  Slice(c, p, n) = Slice(d, p, n)
<1>1. c \in Seq(Byte) /\ d \in Seq(Byte) /\ Len(c) <= Len(d) /\ Len(c) \in Nat /\ Len(d) \in Nat
  BY DEF Prefix
<1>2. p + n <= Len(d)
  BY <1>1
<1>3. /\ AreBytes(Slice(c, p, n), n) /\ \A k \in 1 .. n : Slice(c, p, n)[k] = c[p + k]
      /\ AreBytes(Slice(d, p, n), n) /\ \A k \in 1 .. n : Slice(d, p, n)[k] = d[p + k]
  BY <1>1, <1>2, SliceIs
<1>4. \A k \in 1 .. n : c[p + k] = d[p + k]
  <2>1. \A k \in 1 .. n : p + k \in 1 .. Len(c)
    BY <1>1
  <2> QED
    BY <2>1 DEF Prefix
<1> QED
  BY <1>3, <1>4, SameBytesAreOne

LEMMA IntFollows ==
  ASSUME NEW c, NEW d, Prefix(c, d), NEW p \in Nat, p + 4 <= Len(c)
  PROVE  IntAt(c, p) = IntAt(d, p)
<1>1. \A k \in 1 .. 4 : p + k \in 1 .. Len(c)
  BY DEF Prefix
<1>2. \A k \in 1 .. 4 : c[p + k] = d[p + k]
  BY <1>1 DEF Prefix
<1>3. c[p + 1] = d[p + 1] /\ c[p + 2] = d[p + 2] /\ c[p + 3] = d[p + 3] /\ c[p + 4] = d[p + 4]
  BY <1>2
<1> QED
  BY <1>3 DEF IntAt

LEMMA CutBlowFishKey ==
  ASSUME NEW c, NEW d, Prefix(c, d)
  PROVE  SameOrRefused(ParseBlowFishKey(c), ParseBlowFishKey(d))
<1> DEFINE Result(x) == [ok |-> TRUE, key |-> Slice(RSADecryptNoPadding(Slice(x, 0, 64), 64), 24, 40)]
<1>1. /\ ParseBlowFishKey(c) = IF Len(c) < 64 THEN Malformed ELSE Result(c)
      /\ ParseBlowFishKey(d) = IF Len(d) < 64 THEN Malformed ELSE Result(d)
  BY Zenon DEF ParseBlowFishKey
<1>2. ~(Len(c) < 64) => ~(Len(d) < 64) /\ 0 + 64 <= Len(c)
  BY DEF Prefix
<1>3. ~(Len(c) < 64) => Result(c) = Result(d)
  <2>1. ~(Len(c) < 64) => Slice(c, 0, 64) = Slice(d, 0, 64)
    BY <1>2, SliceFollows
  <2> QED
    BY <2>1, Zenon
<1>4. ~Malformed.ok /\ Result(d).ok
  BY DEF Malformed
<1> HIDE DEF Result
<1> QED
  BY <1>1, <1>2, <1>3, <1>4 DEF SameOrRefused

LEMMA CutAuthGameGuard ==
  ASSUME NEW c, NEW d, Prefix(c, d)
  PROVE  SameOrRefused(ParseAuthGameGuard(c), ParseAuthGameGuard(d))
<1> DEFINE Result(x) == [ok |-> TRUE, session |-> IntAt(x, 0)]
<1>1. /\ ParseAuthGameGuard(c) = IF Len(c) < 4 THEN Malformed ELSE Result(c)
      /\ ParseAuthGameGuard(d) = IF Len(d) < 4 THEN Malformed ELSE Result(d)
  BY Zenon DEF ParseAuthGameGuard
<1>2. ~(Len(c) < 4) => ~(Len(d) < 4) /\ 0 + 4 <= Len(c)
  BY DEF Prefix
<1>3. ~(Len(c) < 4) => Result(c) = Result(d)
  BY <1>2, IntFollows
<1>4. ~Malformed.ok /\ Result(d).ok
  BY DEF Malformed
<1> HIDE DEF Result
<1> QED
  BY <1>1, <1>2, <1>3, <1>4 DEF SameOrRefused

LEMMA CutRequestServerLogin ==
  ASSUME NEW c, NEW d, Prefix(c, d)
  PROVE  SameOrRefused(ParseRequestServerLogin(c), ParseRequestServerLogin(d))
<1> DEFINE Result(x) == [ok |-> TRUE, ok1 |-> IntAt(x, 0), ok2 |-> IntAt(x, 4), id |-> x[9]]
<1>1. /\ ParseRequestServerLogin(c) = IF Len(c) < 9 THEN Malformed ELSE Result(c)
      /\ ParseRequestServerLogin(d) = IF Len(d) < 9 THEN Malformed ELSE Result(d)
  BY Zenon DEF ParseRequestServerLogin
<1>2. ~(Len(c) < 9) => ~(Len(d) < 9) /\ 0 + 4 <= Len(c) /\ 4 + 4 <= Len(c) /\ 9 \in 1 .. Len(c)
  BY DEF Prefix
<1>3. ~(Len(c) < 9) => IntAt(c, 0) = IntAt(d, 0) /\ IntAt(c, 4) = IntAt(d, 4) /\ c[9] = d[9]
  BY <1>2, IntFollows DEF Prefix
<1>4. ~(Len(c) < 9) => Result(c) = Result(d)
  BY <1>3
<1>5. ~Malformed.ok /\ Result(d).ok
  BY DEF Malformed
<1> HIDE DEF Result
<1> QED
  BY <1>1, <1>2, <1>4, <1>5 DEF SameOrRefused

\* No prefix of a packet is taken for another packet, whatever the packet is.
LEMMA WireCutNeverMisread ==
  ASSUME wire \in Seq(Byte), Body \in Seq(Byte)
  PROVE  CutBodyNeverMisread
<1> DEFINE d == Body
<1> SUFFICES ASSUME NEW n \in 0 .. (Len(Body) - 1)
             PROVE  LET cut == SubSeq(Body, 1, n) IN
                    CASE turn = "bfKey"   -> SameOrRefused(ParseBlowFishKey(cut), ParseBlowFishKey(Body))
                      [] turn = "auth"    -> SameOrRefused(ParseGameServerAuth(cut), ParseGameServerAuth(Body))
                      [] turn \in {"online", "left"} ->
                           /\ SameOrRefused(ParsePlayerInGame(cut), ParsePlayerInGame(Body))
                           /\ SameOrRefused(ParsePlayerLogout(cut), ParsePlayerLogout(Body))
                      [] turn = "status"  -> SameOrRefused(ParseServerStatus(cut), ParseServerStatus(Body))
                      [] turn = "gg"      -> SameOrRefused(ParseAuthGameGuard(cut), ParseAuthGameGuard(Body))
                      [] turn = "choice"  -> SameOrRefused(ParseRequestServerLogin(cut), ParseRequestServerLogin(Body))
                      [] turn = "ticket"  -> SameOrRefused(ParseAuthLogin(cut), ParseAuthLogin(Body))
                      [] turn = "request" -> SameOrRefused(ParsePlayerAuthRequest(cut), ParsePlayerAuthRequest(Body))
                      [] OTHER            -> TRUE
  BY DEF CutBodyNeverMisread
<1> DEFINE c == SubSeq(Body, 1, n)
<1>1. Prefix(c, Body)
  BY CutIsPrefix
<1> HIDE DEF c
<1>2. /\ SameOrRefused(ParseBlowFishKey(c), ParseBlowFishKey(Body))
      /\ SameOrRefused(ParseGameServerAuth(c), ParseGameServerAuth(Body))
      /\ SameOrRefused(ParsePlayerInGame(c), ParsePlayerInGame(Body))
      /\ SameOrRefused(ParsePlayerLogout(c), ParsePlayerLogout(Body))
      /\ SameOrRefused(ParseServerStatus(c), ParseServerStatus(Body))
      /\ SameOrRefused(ParseAuthGameGuard(c), ParseAuthGameGuard(Body))
      /\ SameOrRefused(ParseRequestServerLogin(c), ParseRequestServerLogin(Body))
      /\ SameOrRefused(ParseAuthLogin(c), ParseAuthLogin(Body))
      /\ SameOrRefused(ParsePlayerAuthRequest(c), ParsePlayerAuthRequest(Body))
  BY <1>1, CutBlowFishKey, CutGameServerAuth, CutPlayerInGame, CutPlayerLogout, CutServerStatus, CutAuthGameGuard,
     CutRequestServerLogin, CutAuthLogin, CutPlayerAuthRequest
<1> QED
  BY <1>2, Zenon DEF c

-----------------------------------------------------------------------------
(* The two conversations.                                                   *)

Body2(w) == SubSeq(w, 2, Len(w))

\* Topics are brought up in this order, in either conversation.
Order ==
  [greeting |-> 1, credentials |-> 2, modulus512 |-> 1, bfKey |-> 2, registration |-> 3,
   answer |-> 4, sk |-> 4, servers |-> 4, online |-> 5, status |-> 5, left |-> 5,
   list |-> 5, choice |-> 6, playAnswer |-> 7, gameKey |-> 8, version |-> 9, state |-> 10,
   ticket |-> 11, request |-> 12, verdict |-> 13]

UpTo(s, k) == \A t \in DOMAIN s : t \in DOMAIN Order /\ Order[t] <= k

\* Topics that are heard as they were said.
Exact == {"modulus512", "bfKey", "greeting", "gameKey", "answer", "list", "choice",
          "playAnswer", "version", "ticket", "request", "verdict"}

\* A registration r read where g was written, and a report r that is refused or about
\* the players of v.
SameRegistration(r, g) ==
  /\ r.id = g.id /\ r.alternate = g.alternate /\ r.hexID = g.hexID
  /\ SameUint16(r.maxPlayers, g.maxPlayers) /\ SameUint16(r.port, g.port)

NotOfOthers(r, v) == r.report # "refused" => r.accounts = v.accounts

Understood(s, h) ==
  /\ \A t \in DOMAIN h : t \in DOMAIN s
  /\ \A t \in DOMAIN h : t \in Exact => h[t] = s[t]
  /\ "registration" \in DOMAIN h => SameRegistration(h["registration"], s["registration"])
  /\ "online" \in DOMAIN h => NotOfOthers(h["online"], s["online"])
  /\ "left" \in DOMAIN h => NotOfOthers(h["left"], s["left"])
  /\ "verdict" \in DOMAIN h =>
       /\ "credentials" \in DOMAIN h
       /\ h["verdict"].result <=> h["credentials"].login = s["credentials"].login

\* What each step needs of the packet under way and of what was said before.
AtStart(w, s, h) == UpTo(s, 0)

AtInitLS(w, s, h) ==
  /\ UpTo(s, 1) /\ "modulus512" \in DOMAIN s
  /\ ReadInitLS(w) = [ok |-> TRUE, revision |-> ProtocolRevision, modulus |-> s["modulus512"]]

AtBfKey(w, s, h) ==
  /\ UpTo(s, 2) /\ "bfKey" \in DOMAIN s
  /\ ParseBlowFishKey(Body2(w)) = [ok |-> TRUE, key |-> s["bfKey"]]

AtRegister(w, s, h) == UpTo(s, 2)

Registration(g) ==
  [ok |-> TRUE, id |-> g.id, alternate |-> g.alternate, maxPlayers |-> AsInt16(g.maxPlayers),
   port |-> AsInt16(g.port), hexID |-> g.hexID]

AtAuth(w, s, h) ==
  /\ UpTo(s, 3) /\ "registration" \in DOMAIN s /\ s["registration"] \in GameServers
  /\ ParseGameServerAuth(Body2(w)) = Registration(s["registration"])

AtAnswer(w, s, h) ==
  /\ UpTo(s, 4) /\ "answer" \in DOMAIN s
  /\ ReadAuthResponse(w) = s["answer"]

\* The player reported, if one has been.
OfPlayer(v) == \E a \in Texts : v.accounts = <<a>>
AtPlayers(w, s, h) == UpTo(s, 5) /\ ("online" \in DOMAIN s => OfPlayer(s["online"]))

AtOnline(w, s, h) ==
  AtPlayers(w, s, h) /\ "online" \in DOMAIN s /\ NotOfOthers(UnderstoodReport(w), s["online"])

AtStatus(w, s, h) == AtPlayers(w, s, h) /\ "status" \in DOMAIN s

AtLeft(w, s, h) ==
  AtPlayers(w, s, h) /\ "left" \in DOMAIN s /\ NotOfOthers(UnderstoodReport(w), s["left"])

Greeted(s) ==
  /\ "greeting" \in DOMAIN s /\ IsInt32(s["greeting"].session)
  /\ s["greeting"] = [session |-> s["greeting"].session, modulus |-> s["greeting"].modulus, key |-> s["greeting"].key]

AtInit(w, s, h) ==
  /\ UpTo(s, 1) /\ Greeted(s)
  /\ ReadInitPacket(w) = [ok |-> TRUE, session |-> s["greeting"].session, revision |-> ProtocolRevisionInit,
                          modulus |-> s["greeting"].modulus, key |-> s["greeting"].key]

AtGg(w, s, h) ==
  /\ UpTo(s, 1) /\ Greeted(s)
  /\ ParseAuthGameGuard(Body2(w)) = [ok |-> TRUE, session |-> s["greeting"].session]

AtGgAuth(w, s, h) == UpTo(s, 1)

Named(s) == "credentials" \in DOMAIN s /\ s["credentials"] \in Credentials

AtCredentials(w, s, h) == UpTo(s, 2) /\ Named(s)

\* An account that has logged in, and its session key.
Account(s, h) ==
  /\ Named(s) /\ "credentials" \in DOMAIN h
  /\ "sk" \in DOMAIN s /\ s["sk"] \in SessionKeys
  /\ "servers" \in DOMAIN s /\ s["servers"] \in ServerLists

LoginPair(sk) == [answer |-> "ok", ok1 |-> sk.login1, ok2 |-> sk.login2]
PlayPair(sk)  == [answer |-> "ok", ok1 |-> sk.play1, ok2 |-> sk.play2]

AtLoginAnswer(w, s, h) ==
  /\ UpTo(s, 4) /\ Account(s, h) /\ "answer" \in DOMAIN s
  /\ s["answer"].answer = "ok" => s["answer"] = LoginPair(s["sk"])
  /\ ReadLoginOk(w) = s["answer"]

\* The client knows the login pair of its session key.
LoggedIn(s, h) == Account(s, h) /\ "answer" \in DOMAIN h /\ h["answer"] = LoginPair(s["sk"])

AtList(w, s, h) == UpTo(s, 4) /\ LoggedIn(s, h)

AtListed(w, s, h) ==
  /\ UpTo(s, 5) /\ LoggedIn(s, h) /\ "list" \in DOMAIN s
  /\ ReadServerList(w) = s["list"]

AtChoice(w, s, h) ==
  /\ UpTo(s, 6) /\ LoggedIn(s, h) /\ "choice" \in DOMAIN s
  /\ ParseRequestServerLogin(Body2(w))
       = [ok |-> TRUE, ok1 |-> s["sk"].login1, ok2 |-> s["sk"].login2, id |-> s["choice"]]

AtPlayAnswer(w, s, h) ==
  /\ UpTo(s, 7) /\ LoggedIn(s, h) /\ "playAnswer" \in DOMAIN s
  /\ s["playAnswer"].answer = "ok" => s["playAnswer"] = PlayPair(s["sk"])
  /\ ReadPlayOk(w) = s["playAnswer"]

\* And the play pair.
Admitted(s, h) == LoggedIn(s, h) /\ "playAnswer" \in DOMAIN h /\ h["playAnswer"] = PlayPair(s["sk"])

AtGame(w, s, h) == UpTo(s, 7) /\ Admitted(s, h)

AtGameKey(w, s, h) ==
  /\ UpTo(s, 8) /\ Admitted(s, h) /\ "gameKey" \in DOMAIN s
  /\ ReadKeyPacket(w) = [ok |-> TRUE, key |-> s["gameKey"]]

AtVersion(w, s, h) ==
  /\ UpTo(s, 9) /\ Admitted(s, h) /\ "version" \in DOMAIN s /\ s["version"] \in BOOLEAN
  /\ ParseProtocolVersion(Body2(w)) = [ok |-> TRUE, valid |-> s["version"]]

AtEnter(w, s, h) == UpTo(s, 10) /\ Admitted(s, h)

Ticket(s) == [account |-> s["credentials"].login, key |-> s["sk"]]
TicketRead(s) == [ok |-> TRUE, account |-> s["credentials"].login, key |-> s["sk"]]

AtTicket(w, s, h) ==
  /\ UpTo(s, 11) /\ Account(s, h) /\ "ticket" \in DOMAIN s /\ s["ticket"] = Ticket(s)
  /\ ParseAuthLogin(Body2(w)) = TicketRead(s)

AtAsk(w, s, h) == UpTo(s, 11) /\ Account(s, h) /\ "ticket" \in DOMAIN h /\ h["ticket"] = Ticket(s)

AtRequest(w, s, h) ==
  /\ UpTo(s, 12) /\ Account(s, h) /\ "request" \in DOMAIN s /\ s["request"] = Ticket(s)
  /\ ParsePlayerAuthRequest(Body2(w)) = TicketRead(s)

AtVerdict(w, s, h) ==
  /\ Account(s, h) /\ "verdict" \in DOMAIN s
  /\ s["verdict"].result <=> h["credentials"].login = s["credentials"].login
  /\ ReadPlayerAuthResponse(w) = s["verdict"]

Stage(t, w, s, h) ==
  /\ t = "start" => AtStart(w, s, h)
  /\ t = "initLS" => AtInitLS(w, s, h)
  /\ t = "bfKey" => AtBfKey(w, s, h)
  /\ t = "register" => AtRegister(w, s, h)
  /\ t = "auth" => AtAuth(w, s, h)
  /\ t = "answer" => AtAnswer(w, s, h)
  /\ t = "players" => AtPlayers(w, s, h)
  /\ t = "online" => AtOnline(w, s, h)
  /\ t = "status" => AtStatus(w, s, h)
  /\ t = "left" => AtLeft(w, s, h)
  /\ t = "login" => AtStart(w, s, h)
  /\ t = "init" => AtInit(w, s, h)
  /\ t = "gg" => AtGg(w, s, h)
  /\ t = "ggAuth" => AtGgAuth(w, s, h)
  /\ t = "credentials" => AtCredentials(w, s, h)
  /\ t = "loginAnswer" => AtLoginAnswer(w, s, h)
  /\ t = "list" => AtList(w, s, h)
  /\ t = "listed" => AtListed(w, s, h)
  /\ t = "choice" => AtChoice(w, s, h)
  /\ t = "playAnswer" => AtPlayAnswer(w, s, h)
  /\ t = "game" => AtGame(w, s, h)
  /\ t = "gameKey" => AtGameKey(w, s, h)
  /\ t = "version" => AtVersion(w, s, h)
  /\ t = "enter" => AtEnter(w, s, h)
  /\ t = "ticket" => AtTicket(w, s, h)
  /\ t = "ask" => AtAsk(w, s, h)
  /\ t = "request" => AtRequest(w, s, h)
  /\ t = "verdict" => AtVerdict(w, s, h)

Consistent(t, w, s, h) == t \in Turns /\ w \in Seq(Byte) /\ Understood(s, h) /\ Stage(t, w, s, h)

\* The inductive invariant.
WireInv == Consistent(turn, wire, said, heard)

\* g is f with the value v for t, unless f has one.
Learned(g, f, t, v) ==
  /\ DOMAIN g = DOMAIN f \cup {t} /\ t \in DOMAIN g
  /\ \A x \in DOMAIN f : x \in DOMAIN g /\ g[x] = f[x]
  /\ t \notin DOMAIN f => g[t] = v

\* A topic that is learnt; the others stay.
LEMMA LearnsFields ==
  ASSUME NEW f, NEW t, NEW v
  PROVE  Learned(Learns(f, t, v), f, t, v)
BY DEF Learns, Learned

\* A new topic.
LEMMA SaysNew ==
  ASSUME NEW s, NEW k \in Nat, UpTo(s, k), NEW t \in DOMAIN Order, k < Order[t], NEW v
  PROVE  /\ UpTo(Learns(s, t, v), Order[t])
         /\ t \in DOMAIN Learns(s, t, v) /\ Learns(s, t, v)[t] = v
         /\ \A x \in DOMAIN s : x \in DOMAIN Learns(s, t, v) /\ Learns(s, t, v)[x] = s[x]
<1> DEFINE f == Learns(s, t, v)
<1>0. Learned(f, s, t, v)
  BY LearnsFields
<1> HIDE DEF f
<1>1. /\ DOMAIN f = DOMAIN s \cup {t} /\ t \in DOMAIN f
      /\ \A x \in DOMAIN s : x \in DOMAIN f /\ f[x] = s[x]
      /\ t \notin DOMAIN s => f[t] = v
  BY <1>0 DEF Learned
<1>2. Order \in [DOMAIN Order -> Nat]
  BY DEF Order
<1>3. t \notin DOMAIN s
  BY <1>2 DEF UpTo
<1>4. UpTo(f, Order[t])
  BY <1>1, <1>2 DEF UpTo
<1> QED
  BY <1>1, <1>3, <1>4 DEF f

\* What has been understood stays so when something is said,
LEMMA SayingKeepsUnderstood ==
  ASSUME NEW s, NEW h, Understood(s, h), NEW t, NEW v
  PROVE  Understood(Learns(s, t, v), h)
<1> DEFINE f == Learns(s, t, v)
<1>0. Learned(f, s, t, v)
  BY LearnsFields
<1> HIDE DEF f
<1>1. \A x \in DOMAIN s : x \in DOMAIN f /\ f[x] = s[x]
  BY <1>0 DEF Learned
<1>2. Understood(f, h)
  BY <1>1 DEF Understood
<1> QED
  BY <1>2 DEF f

\* and when something is heard as it was said;
LEMMA HearingExactly ==
  ASSUME NEW s, NEW h, Understood(s, h), NEW t \in Exact, t # "verdict", t \in DOMAIN s
  PROVE  Understood(s, Learns(h, t, s[t]))
<1> DEFINE g == Learns(h, t, s[t])
<1>0. Learned(g, h, t, s[t])
  BY LearnsFields
<1> HIDE DEF g
<1>1. /\ DOMAIN g = DOMAIN h \cup {t} /\ t \in DOMAIN g
      /\ \A x \in DOMAIN h : x \in DOMAIN g /\ g[x] = h[x]
      /\ t \notin DOMAIN h => g[t] = s[t]
  BY <1>0 DEF Learned
<1>2. t \notin {"registration", "online", "left", "credentials"}
  BY DEF Exact
<1>3. g[t] = s[t]
  BY <1>1 DEF Understood
<1>4. Understood(s, g)
  BY <1>1, <1>2, <1>3 DEF Understood
<1> QED
  BY <1>4 DEF g

\* a registration is heard with its port and limit as int16;
LEMMA HearingRegistration ==
  ASSUME NEW s, NEW h, Understood(s, h), "registration" \in DOMAIN s, NEW r, SameRegistration(r, s["registration"])
  PROVE  Understood(s, Learns(h, "registration", r))
<1> DEFINE g == Learns(h, "registration", r)
<1>0. Learned(g, h, "registration", r)
  BY LearnsFields
<1> HIDE DEF g
<1>1. /\ DOMAIN g = DOMAIN h \cup {"registration"}
      /\ \A x \in DOMAIN h : x \in DOMAIN g /\ g[x] = h[x]
      /\ "registration" \notin DOMAIN h => g["registration"] = r
  BY <1>0 DEF Learned
<1>2. "registration" \notin Exact
  BY DEF Exact
<1>3. SameRegistration(g["registration"], s["registration"])
  BY <1>1 DEF Understood
<1>4. Understood(s, g)
  BY <1>1, <1>2, <1>3 DEF Understood
<1> QED
  BY <1>4 DEF g

\* of a report about a player, whatever it is taken for, only that player is heard;
LEMMA HearingReport ==
  ASSUME NEW s, NEW h, Understood(s, h), NEW t \in {"online", "status", "left"}, t \in DOMAIN s, NEW r,
         t # "status" => NotOfOthers(r, s[t])
  PROVE  Understood(s, Learns(h, t, r))
<1> DEFINE g == Learns(h, t, r)
<1>0. Learned(g, h, t, r)
  BY LearnsFields
<1> HIDE DEF g
<1>1. /\ DOMAIN g = DOMAIN h \cup {t}
      /\ \A x \in DOMAIN h : x \in DOMAIN g /\ g[x] = h[x]
      /\ t \notin DOMAIN h => g[t] = r
  BY <1>0 DEF Learned
<1>2. t \notin Exact
  BY DEF Exact
<1>3. t # "status" => NotOfOthers(g[t], s[t])
  BY <1>1 DEF Understood
<1>4. Understood(s, g)
  BY <1>1, <1>2, <1>3 DEF Understood
<1> QED
  BY <1>4 DEF g

\* a name and a password may be heard in another form;
LEMMA HearingCredentials ==
  ASSUME NEW s, NEW h, Understood(s, h), "credentials" \in DOMAIN s, NEW v
  PROVE  Understood(s, Learns(h, "credentials", v))
<1> DEFINE g == Learns(h, "credentials", v)
<1>0. Learned(g, h, "credentials", v)
  BY LearnsFields
<1> HIDE DEF g
<1>1. /\ DOMAIN g = DOMAIN h \cup {"credentials"}
      /\ \A x \in DOMAIN h : x \in DOMAIN g /\ g[x] = h[x]
  BY <1>0 DEF Learned
<1>2. "credentials" \notin Exact
  BY DEF Exact
<1>3. Understood(s, g)
  BY <1>1, <1>2 DEF Understood
<1> QED
  BY <1>3 DEF g

\* and the verdict is on just that.
LEMMA HearingVerdict ==
  ASSUME NEW s, NEW h, Understood(s, h), "verdict" \in DOMAIN s, "credentials" \in DOMAIN h,
         s["verdict"].result <=> h["credentials"].login = s["credentials"].login
  PROVE  Understood(s, Learns(h, "verdict", s["verdict"]))
<1> DEFINE g == Learns(h, "verdict", s["verdict"])
<1>0. Learned(g, h, "verdict", s["verdict"])
  BY LearnsFields
<1> HIDE DEF g
<1>1. /\ DOMAIN g = DOMAIN h \cup {"verdict"}
      /\ \A x \in DOMAIN h : x \in DOMAIN g /\ g[x] = h[x]
      /\ "verdict" \notin DOMAIN h => g["verdict"] = s["verdict"]
  BY <1>0 DEF Learned
<1>2. "verdict" \in Exact
  BY DEF Exact
<1>3. g["verdict"] = s["verdict"]
  BY <1>1, <1>2 DEF Understood
<1>4. Understood(s, g)
  BY <1>1, <1>2, <1>3 DEF Understood
<1> QED
  BY <1>4 DEF g

\* The order of the topics, as SMT needs it.
LEMMA Orders ==
  /\ DOMAIN Order = {"greeting", "credentials", "modulus512", "bfKey", "registration", "answer", "sk",
                     "servers", "online", "status", "left", "list", "choice", "playAnswer", "gameKey",
                     "version", "state", "ticket", "request", "verdict"}
  /\ Order["greeting"] = 1 /\ Order["credentials"] = 2 /\ Order["modulus512"] = 1 /\ Order["bfKey"] = 2
  /\ Order["registration"] = 3 /\ Order["answer"] = 4 /\ Order["sk"] = 4 /\ Order["servers"] = 4
  /\ Order["online"] = 5 /\ Order["status"] = 5 /\ Order["left"] = 5 /\ Order["list"] = 5
  /\ Order["choice"] = 6 /\ Order["playAnswer"] = 7 /\ Order["gameKey"] = 8 /\ Order["version"] = 9
  /\ Order["state"] = 10 /\ Order["ticket"] = 11 /\ Order["request"] = 12 /\ Order["verdict"] = 13
BY DEF Order

\* f has what s has.
Keeps(f, s) == \A x \in DOMAIN s : x \in DOMAIN f /\ f[x] = s[x]

\* f is s with the value v for the new topic t.
Told1(f, s, t, v) == t \in DOMAIN f /\ f[t] = v /\ Keeps(f, s)

\* A topic behind all the others is new.
LEMMA Tells ==
  ASSUME NEW s, NEW k \in Nat, UpTo(s, k), NEW t \in DOMAIN Order, NEW n \in Nat, Order[t] = n, k < n,
         NEW v, NEW f, f = Learns(s, t, v)
  PROVE  UpTo(f, n) /\ Told1(f, s, t, v)
BY SaysNew DEF Told1, Keeps

\* A report that has not been made yet.
LEMMA TellsReport ==
  ASSUME NEW s, UpTo(s, 5), NEW t \in {"online", "status", "left"}, t \notin DOMAIN s,
         NEW v, NEW f, f = Learns(s, t, v)
  PROVE  UpTo(f, 5) /\ Told1(f, s, t, v) /\ DOMAIN f = DOMAIN s \cup {t}
<1>1. Learned(f, s, t, v)
  BY LearnsFields
<1>2. t \in DOMAIN Order /\ Order[t] <= 5
  BY Orders
<1>3. UpTo(f, 5)
  BY <1>1, <1>2 DEF UpTo, Learned
<1> QED
  BY <1>1, <1>3 DEF Learned, Told1, Keeps

LEMMA LearnsKeeps ==
  ASSUME NEW s, NEW t, NEW v, NEW f, f = Learns(s, t, v)
  PROVE  Keeps(f, s) /\ t \in DOMAIN f
<1>1. Learned(f, s, t, v)
  BY LearnsFields
<1> QED
  BY <1>1 DEF Learned, Keeps

\* A framed packet is bytes and carries the packet.
LEMMA Framed1 ==
  ASSUME NEW p \in Seq(Byte), NEW w \in Framed(p)
  PROVE  w \in Seq(Byte) /\ Carries(w, p)
BY FramedCarries DEF Carries

LEMMA GSFramed1 ==
  ASSUME NEW p \in Seq(Byte), NEW w \in GSFramed(p)
  PROVE  w \in Seq(Byte) /\ Carries(w, p)
BY GSFramedCarries DEF Carries

\* The steps of the game server's conversation.  The login server sends its modulus.
LEMMA GreetGameServerStep ==
  ASSUME WireInv, GreetGameServer
  PROVE  WireInv'
<1> DEFINE p == InitLS(ProtocolRevision, Modulus512)
<1>1. /\ turn = "start" /\ turn' = "initLS" /\ wire' \in Framed(p)
      /\ said' = Learns(said, "modulus512", Modulus512) /\ heard' = heard
  BY DEF GreetGameServer, Goes, Means
<1>2. UpTo(said, 0) /\ Understood(said, heard)
  BY <1>1 DEF WireInv, Consistent, Stage, AtStart
<1>3. /\ p \in Seq(Byte)
      /\ \A w : Carries(w, p) => ReadInitLS(w) = [ok |-> TRUE, revision |-> ProtocolRevision, modulus |-> Modulus512]
  <2>1. IsInt32(ProtocolRevision) /\ AreBytes(Modulus512, 64)
    BY ModuliAssumption DEF IsInt32, ProtocolRevision, AreBytes
  <2> QED
    BY <2>1, InitLSIsRead
<1> HIDE DEF p
<1>4. wire' \in Seq(Byte) /\ Carries(wire', p)
  BY <1>1, <1>3, Framed1
<1>5. UpTo(said', 1) /\ Told1(said', said, "modulus512", Modulus512)
  BY <1>1, <1>2, Orders, Tells
<1>6. AtInitLS(wire', said', heard')
  BY <1>3, <1>4, <1>5, Zenon DEF AtInitLS, Told1
<1>7. Understood(said', heard')
  BY <1>1, <1>2, SayingKeepsUnderstood
<1> QED
  BY <1>1, <1>4, <1>6, <1>7 DEF WireInv, Consistent, Stage, Turns

LEMMA KeepsSelf == \A s : Keeps(s, s)
BY DEF Keeps

\* What a step relies on stays when more is said and heard.
LEMMA KeepsAccount ==
  ASSUME NEW s, NEW f, Keeps(f, s), NEW h, NEW g, Keeps(g, h), Account(s, h)
  PROVE  /\ Account(f, g) /\ f["credentials"] = s["credentials"] /\ g["credentials"] = h["credentials"]
         /\ f["sk"] = s["sk"] /\ f["servers"] = s["servers"]
BY DEF Keeps, Account, Named

LEMMA KeepsLoggedIn ==
  ASSUME NEW s, NEW f, Keeps(f, s), NEW h, NEW g, Keeps(g, h), LoggedIn(s, h)
  PROVE  LoggedIn(f, g) /\ g["answer"] = h["answer"]
<1>1. Account(f, g) /\ f["sk"] = s["sk"]
  BY KeepsAccount DEF LoggedIn
<1>2. "answer" \in DOMAIN g /\ g["answer"] = h["answer"]
  BY DEF Keeps, LoggedIn
<1> QED
  BY <1>1, <1>2 DEF LoggedIn

LEMMA KeepsAdmitted ==
  ASSUME NEW s, NEW f, Keeps(f, s), NEW h, NEW g, Keeps(g, h), Admitted(s, h)
  PROVE  Admitted(f, g) /\ g["playAnswer"] = h["playAnswer"]
<1>1. LoggedIn(f, g) /\ f["sk"] = s["sk"]
  BY KeepsAccount, KeepsLoggedIn DEF Admitted, LoggedIn
<1>2. "playAnswer" \in DOMAIN g /\ g["playAnswer"] = h["playAnswer"]
  BY DEF Keeps, Admitted
<1> QED
  BY <1>1, <1>2 DEF Admitted

LEMMA EmptyInSeq == <<>> \in Seq(Byte)
OBVIOUS

\* The game server answers with its Blowfish key.
LEMMA SendKeyStep ==
  ASSUME WireInv, SendKey
  PROVE  WireInv'
<1>1. PICK k \in BFKeys :
        /\ turn = "initLS" /\ turn' = "bfKey" /\ wire' \in GSFramed(SendBlowFishKey(k))
        /\ heard' = Learns(heard, "modulus512", ReadInitLS(wire).modulus)
        /\ said' = Learns(said, "bfKey", k)
  BY DEF SendKey, Goes, Means, Hears
<1> DEFINE p == SendBlowFishKey(k)
<1>2. AtInitLS(wire, said, heard) /\ Understood(said, heard)
  BY <1>1 DEF WireInv, Consistent, Stage
<1>3. /\ p \in Seq(Byte)
      /\ \A w : Carries(w, p) => ParseBlowFishKey(SubSeq(w, 2, Len(w))) = [ok |-> TRUE, key |-> k]
  <2>1. AreBytes(k, 40)
    BY KeysAssumption DEF AreBytes
  <2> QED
    BY <2>1, BlowFishKeyIsRead
<1>4. wire' \in GSFramed(p)
  BY <1>1
<1> HIDE DEF p
<1>5. wire' \in Seq(Byte) /\ Carries(wire', p)
  BY <1>3, <1>4, GSFramed1
<1>6. UpTo(said', 2) /\ Told1(said', said, "bfKey", k)
  <2>1. UpTo(said, 1)
    BY <1>2 DEF AtInitLS
  <2> QED
    BY <2>1, <1>1, Orders, Tells
<1>7. AtBfKey(wire', said', heard')
  BY <1>3, <1>5, <1>6, Zenon DEF AtBfKey, Told1, Body2
<1>8. Understood(said', heard')
  <2>1. "modulus512" \in DOMAIN said /\ ReadInitLS(wire).modulus = said["modulus512"]
    BY <1>2 DEF AtInitLS
  <2>2. Understood(said, heard')
    BY <2>1, <1>1, <1>2, HearingExactly DEF Exact
  <2> QED
    BY <2>2, <1>1, SayingKeepsUnderstood
<1> QED
  BY <1>1, <1>5, <1>7, <1>8 DEF WireInv, Consistent, Stage, Turns

\* The login server takes the Blowfish key.
LEMMA HandleBlowFishKeyStep ==
  ASSUME WireInv, HandleBlowFishKey
  PROVE  WireInv'
<1>1. /\ turn = "bfKey" /\ turn' = "register" /\ wire' = <<>> /\ said' = said
      /\ heard' = Learns(heard, "bfKey", ParseBlowFishKey(Body).key)
  BY DEF HandleBlowFishKey, Goes, Hears
<1>2. AtBfKey(wire, said, heard) /\ Understood(said, heard)
  BY <1>1 DEF WireInv, Consistent, Stage
<1>3. "bfKey" \in DOMAIN said /\ ParseBlowFishKey(Body).key = said["bfKey"]
  BY <1>2 DEF AtBfKey, Body, Body2
<1>4. Understood(said', heard')
  BY <1>1, <1>2, <1>3, HearingExactly DEF Exact
<1>5. AtRegister(wire', said', heard')
  BY <1>1, <1>2 DEF AtRegister, AtBfKey
<1> QED
  BY <1>1, <1>4, <1>5, EmptyInSeq DEF WireInv, Consistent, Stage, Turns

\* The game server asks to be registered.
LEMMA SendRegistrationStep ==
  ASSUME WireInv, SendRegistration
  PROVE  WireInv'
<1>1. PICK g \in GameServers :
        /\ turn = "register" /\ turn' = "auth" /\ wire' \in GSFramed(SendGameServerAuth(g))
        /\ said' = Learns(said, "registration", g) /\ heard' = heard
  BY DEF SendRegistration, Goes, Means
<1> DEFINE p == SendGameServerAuth(g)
<1>2. UpTo(said, 2) /\ Understood(said, heard)
  BY <1>1 DEF WireInv, Consistent, Stage, AtRegister
<1>3. /\ p \in Seq(Byte)
      /\ \A w : Carries(w, p) => ParseGameServerAuth(SubSeq(w, 2, Len(w))) = Registration(g)
  BY GameServerAuthIsRead DEF Registration
<1>4. wire' \in GSFramed(p)
  BY <1>1
<1> HIDE DEF p
<1>5. wire' \in Seq(Byte) /\ Carries(wire', p)
  BY <1>3, <1>4, GSFramed1
<1>6. UpTo(said', 3) /\ Told1(said', said, "registration", g)
  BY <1>1, <1>2, Orders, Tells
<1>7. AtAuth(wire', said', heard')
  BY <1>3, <1>5, <1>6, Zenon DEF AtAuth, Told1, Body2
<1>8. Understood(said', heard')
  BY <1>1, <1>2, SayingKeepsUnderstood
<1> QED
  BY <1>1, <1>5, <1>7, <1>8 DEF WireInv, Consistent, Stage, Turns

\* The name in the answer to a registration.
LEMMA NameIsText == <<66>> \in Texts
<1>1. <<66>> \in Seq(1 .. 127)
  OBVIOUS
<1> QED
  BY <1>1, NamesAreTexts

\* The listener answers a registration.
LEMMA HandleRegistrationStep ==
  ASSUME WireInv, HandleRegistration
  PROVE  WireInv'
<1> DEFINE r == ParseGameServerAuth(Body)
           record == [id |-> r.id, alternate |-> r.alternate, maxPlayers |-> r.maxPlayers,
                      port |-> r.port, hexID |-> r.hexID]
<1>1. /\ turn = "auth" /\ turn' = "answer"
      /\ heard' = Learns(heard, "registration", record)
      /\ \/ wire' \in Framed(AuthResponse(r.id, <<66>>)) /\ said' = Learns(said, "answer", [answer |-> "ok", id |-> r.id])
         \/ \E reason \in {3, 4} : /\ wire' \in Framed(LoginServerFail(reason))
                                   /\ said' = Learns(said, "answer", [answer |-> "fail", reason |-> reason])
  BY DEF HandleRegistration, Goes, Means, Hears
<1>2. AtAuth(wire, said, heard) /\ Understood(said, heard)
  BY <1>1 DEF WireInv, Consistent, Stage
<1>3. /\ UpTo(said, 3) /\ "registration" \in DOMAIN said /\ said["registration"] \in GameServers
      /\ r = Registration(said["registration"])
  BY <1>2 DEF AtAuth, Body, Body2
<1>4. SameRegistration(record, said["registration"]) /\ r.id \in Byte
  <2> DEFINE g == said["registration"]
  <2>1. g.id \in Byte /\ IsUint16(g.maxPlayers) /\ IsUint16(g.port)
    BY <1>3, GameServerFields
  <2> HIDE DEF g
  <2>2. /\ r.id = g.id /\ r.alternate = g.alternate /\ r.maxPlayers = AsInt16(g.maxPlayers)
        /\ r.port = AsInt16(g.port) /\ r.hexID = g.hexID
    BY <1>3 DEF Registration, g
  <2> HIDE DEF r
  <2>3. SameUint16(r.maxPlayers, g.maxPlayers) /\ SameUint16(r.port, g.port)
    BY <2>1, <2>2, SixteenBits
  <2> QED
    BY <2>1, <2>2, <2>3 DEF SameRegistration, g
<1> HIDE DEF r, record
<1>5. Understood(said, heard')
  BY <1>1, <1>2, <1>3, <1>4, HearingRegistration
<1>6. \E p, v : /\ p \in Seq(Byte) /\ wire' \in Framed(p) /\ said' = Learns(said, "answer", v)
                /\ \A w : Carries(w, p) => ReadAuthResponse(w) = v
  <2>1. CASE wire' \in Framed(AuthResponse(r.id, <<66>>)) /\ said' = Learns(said, "answer", [answer |-> "ok", id |-> r.id])
    <3> DEFINE name == <<66>>
               p == AuthResponse(r.id, name)
               v == [answer |-> "ok", id |-> r.id]
    <3>1. name \in Texts
      BY NameIsText
    <3>2. wire' \in Framed(p) /\ said' = Learns(said, "answer", v)
      BY <2>1
    <3> HIDE DEF name
    <3>3. p \in Seq(Byte) /\ \A w : Carries(w, p) => ReadAuthResponse(w) = v
      BY <3>1, <1>4, AuthResponseIsRead
    <3> HIDE DEF p, v
    <3> QED
      BY <3>2, <3>3
  <2>2. ASSUME NEW reason \in {3, 4}, wire' \in Framed(LoginServerFail(reason)),
               said' = Learns(said, "answer", [answer |-> "fail", reason |-> reason])
        PROVE  \E p, v : /\ p \in Seq(Byte) /\ wire' \in Framed(p) /\ said' = Learns(said, "answer", v)
                         /\ \A w : Carries(w, p) => ReadAuthResponse(w) = v
    <3>1. reason \in Byte
      BY DEF Byte
    <3> QED
      BY <3>1, <2>2, LoginServerFailIsRead, Zenon
  <2> QED
    BY <1>1, <2>1, <2>2
<1>7. PICK p, v : /\ p \in Seq(Byte) /\ wire' \in Framed(p) /\ said' = Learns(said, "answer", v)
                  /\ \A w : Carries(w, p) => ReadAuthResponse(w) = v
  BY <1>6
<1>8. wire' \in Seq(Byte) /\ Carries(wire', p)
  BY <1>7, Framed1
<1>9. UpTo(said', 4) /\ Told1(said', said, "answer", v)
  BY <1>3, <1>7, Orders, Tells
<1>10. AtAnswer(wire', said', heard')
  BY <1>7, <1>8, <1>9, Zenon DEF AtAnswer, Told1
<1>11. Understood(said', heard')
  BY <1>5, <1>7, SayingKeepsUnderstood
<1> QED
  BY <1>1, <1>8, <1>10, <1>11 DEF WireInv, Consistent, Stage, Turns

\* The game server reads the answer.
LEMMA ReadAnswerStep ==
  ASSUME WireInv, ReadAnswer
  PROVE  WireInv'
<1>1. /\ turn = "answer" /\ turn' \in {"players", "end"} /\ wire' = <<>> /\ said' = said
      /\ heard' = Learns(heard, "answer", ReadAuthResponse(wire))
  BY DEF ReadAnswer, Goes, Hears
<1>2. AtAnswer(wire, said, heard) /\ Understood(said, heard)
  BY <1>1 DEF WireInv, Consistent, Stage
<1>3. "answer" \in DOMAIN said /\ ReadAuthResponse(wire) = said["answer"]
  BY <1>2 DEF AtAnswer
<1>4. Understood(said', heard')
  BY <1>1, <1>2, <1>3, HearingExactly DEF Exact
<1>5. AtPlayers(wire', said', heard')
  <2>1. UpTo(said, 4)
    BY <1>2 DEF AtAnswer
  <2>2. UpTo(said, 5) /\ "online" \notin DOMAIN said
    BY <2>1, Orders DEF UpTo
  <2> QED
    BY <1>1, <2>2 DEF AtPlayers
<1> QED
  BY <1>1, <1>4, <1>5, EmptyInSeq DEF WireInv, Consistent, Stage, Turns

\* What a report is made of.
LEMMA ReportFields ==
  ASSUME NEW rep \in Reports
  PROVE  rep.id \in Byte /\ rep.account \in Texts /\ rep.attrs \in Seq(Byte \X Int)
BY ReportsAssumption

\* The game server reports a player who enters.
LEMMA ReportOnlineStep ==
  ASSUME WireInv, ReportOnline
  PROVE  WireInv'
<1>1. PICK rep \in Reports :
        /\ turn = "players" /\ turn' = "online" /\ "online" \notin DOMAIN said
        /\ wire' \in GSFramed(PlayerInGame(rep.account))
        /\ said' = Learns(said, "online", [report |-> "online", accounts |-> <<rep.account>>]) /\ heard' = heard
  BY DEF ReportOnline, Goes, Means
<1> DEFINE a == rep.account
           p == PlayerInGame(a)
           v == [report |-> "online", accounts |-> <<a>>]
<1>2. UpTo(said, 5) /\ Understood(said, heard)
  BY <1>1 DEF WireInv, Consistent, Stage, AtPlayers
<1>3. a \in Texts /\ wire' \in GSFramed(p) /\ said' = Learns(said, "online", v)
  BY <1>1, ReportFields
<1> HIDE DEF a
<1>4. v.accounts = <<a>>
  OBVIOUS
<1>5. p \in Seq(Byte) /\ \A w : Carries(w, p) => UnderstoodReport(w) = [report |-> "left", accounts |-> <<a>>]
  BY <1>3, EnteringUnderstood
<1> HIDE DEF p, v
<1>6. wire' \in Seq(Byte) /\ Carries(wire', p)
  BY <1>3, <1>5, GSFramed1
<1>7. UpTo(said', 5) /\ Told1(said', said, "online", v)
  BY <1>1, <1>2, <1>3, TellsReport
<1>8. OfPlayer(v) /\ NotOfOthers(UnderstoodReport(wire'), v)
  <2>1. UnderstoodReport(wire').accounts = <<a>>
    BY <1>5, <1>6
  <2> QED
    BY <1>3, <1>4, <2>1 DEF OfPlayer, NotOfOthers
<1>9. AtOnline(wire', said', heard')
  BY <1>7, <1>8, Zenon DEF AtOnline, AtPlayers, Told1
<1>10. Understood(said', heard')
  BY <1>1, <1>2, <1>3, SayingKeepsUnderstood
<1> QED
  BY <1>1, <1>6, <1>9, <1>10 DEF WireInv, Consistent, Stage, Turns

\* The game server reports its attributes.
LEMMA ReportStatusStep ==
  ASSUME WireInv, ReportStatus
  PROVE  WireInv'
<1>1. PICK rep \in Reports :
        /\ turn = "players" /\ turn' = "status" /\ "status" \notin DOMAIN said
        /\ wire' \in GSFramed(ServerStatus(rep.id, rep.attrs))
        /\ said' = Learns(said, "status", [report |-> "status", attrs |-> rep.attrs]) /\ heard' = heard
  BY DEF ReportStatus, Goes, Means
<1> DEFINE p == ServerStatus(rep.id, rep.attrs)
           v == [report |-> "status", attrs |-> rep.attrs]
<1>2. AtPlayers(wire, said, heard) /\ Understood(said, heard)
  BY <1>1 DEF WireInv, Consistent, Stage
<1>3. p \in Seq(Byte) /\ wire' \in GSFramed(p) /\ said' = Learns(said, "status", v)
  BY <1>1, ReportFields, StatusIsBytes
<1> HIDE DEF p, v
<1>4. wire' \in Seq(Byte)
  BY <1>3, GSFramed1
<1>5. UpTo(said', 5) /\ Told1(said', said, "status", v) /\ DOMAIN said' = DOMAIN said \cup {"status"}
  BY <1>1, <1>2, <1>3, TellsReport DEF AtPlayers
<1>6. AtStatus(wire', said', heard')
  BY <1>2, <1>5 DEF AtStatus, AtPlayers, Told1, Keeps
<1>7. Understood(said', heard')
  BY <1>1, <1>2, <1>3, SayingKeepsUnderstood
<1> QED
  BY <1>1, <1>4, <1>6, <1>7 DEF WireInv, Consistent, Stage, Turns

\* The game server reports that the player leaves.
LEMMA ReportLeftStep ==
  ASSUME WireInv, ReportLeft
  PROVE  WireInv'
<1> DEFINE a == said["online"].accounts[1]
           p == PlayerLogout(a)
           v == [report |-> "left", accounts |-> <<a>>]
<1>1. /\ turn = "players" /\ turn' = "left" /\ "online" \in DOMAIN said /\ "left" \notin DOMAIN said
      /\ wire' \in GSFramed(p) /\ said' = Learns(said, "left", v) /\ heard' = heard
  BY DEF ReportLeft, Goes, Means
<1>2. AtPlayers(wire, said, heard) /\ Understood(said, heard)
  BY <1>1 DEF WireInv, Consistent, Stage
<1>3. a \in Texts
  <2>1. PICK b \in Texts : said["online"].accounts = <<b>>
    BY <1>1, <1>2 DEF AtPlayers, OfPlayer
  <2> QED
    BY <2>1
<1> HIDE DEF a
<1>4. p \in Seq(Byte) /\ \A w : Carries(w, p) => UnderstoodReport(w) = [report |-> "refused"]
  BY <1>3, LeavingUnderstood
<1> HIDE DEF p, v
<1>5. wire' \in Seq(Byte) /\ Carries(wire', p)
  BY <1>1, <1>4, GSFramed1
<1>6. UpTo(said', 5) /\ Told1(said', said, "left", v) /\ DOMAIN said' = DOMAIN said \cup {"left"}
  BY <1>1, <1>2, TellsReport DEF AtPlayers
<1>7. NotOfOthers(UnderstoodReport(wire'), v)
  <2>1. UnderstoodReport(wire').report = "refused"
    BY <1>4, <1>5
  <2> QED
    BY <2>1 DEF NotOfOthers
<1>8. AtPlayers(wire', said', heard')
  BY <1>2, <1>6 DEF AtPlayers, Told1, Keeps
<1>9. AtLeft(wire', said', heard')
  BY <1>6, <1>7, <1>8, Zenon DEF AtLeft, Told1
<1>10. Understood(said', heard')
  BY <1>1, <1>2, SayingKeepsUnderstood
<1> QED
  BY <1>1, <1>5, <1>9, <1>10 DEF WireInv, Consistent, Stage, Turns

\* The login server takes a report for what it may.
LEMMA HandleReportStep ==
  ASSUME WireInv, HandleReport
  PROVE  WireInv'
<1> DEFINE r == UnderstoodReport(wire)
<1>1. PICK topic \in {"online", "status", "left"} :
        /\ turn = topic /\ turn' \in {"players", "end"} /\ wire' = <<>> /\ said' = said
        /\ heard' = Learns(heard, topic, r)
  BY DEF HandleReport, Goes, Hears
<1> HIDE DEF r
<1>2. /\ AtPlayers(wire, said, heard) /\ topic \in DOMAIN said /\ Understood(said, heard)
      /\ topic # "status" => NotOfOthers(r, said[topic])
  BY <1>1 DEF WireInv, Consistent, Stage, AtOnline, AtStatus, AtLeft, r
<1>3. Understood(said', heard')
  BY <1>1, <1>2, HearingReport
<1>4. AtPlayers(wire', said', heard')
  BY <1>1, <1>2 DEF AtPlayers
<1> QED
  BY <1>1, <1>3, <1>4, EmptyInSeq DEF WireInv, Consistent, Stage, Turns

LEMMA FirstFramed1 ==
  ASSUME NEW p \in Seq(Byte), NEW w \in FirstFramed(p)
  PROVE  w \in Seq(Byte) /\ Carries(w, p)
BY FirstFramedCarries DEF Carries

LEMMA ByteOfBytes ==
  ASSUME NEW n \in Nat, NEW b, AreBytes(b, n), NEW i \in 1 .. n
  PROVE  b[i] \in Byte
BY ElementOfSeq DEF AreBytes

\* Sixteen bytes of the public modulus.
LEMMA PartOfModulus ==
  ASSUME NEW m, AreBytes(m, 128), NEW a \in Int, NEW b \in Int, 1 <= a, a <= b, b <= 128, b - a + 1 = 16
  PROVE  AreBytes(SubSeq(m, a, b), 16)
<1>1. m \in Seq(Byte) /\ Len(m) = 128
  BY DEF AreBytes
<1>2. \A i \in a .. b : m[i] \in Byte
  <2>1. \A i \in 1 .. 128 : m[i] \in Byte
    BY ByteOfBytes
  <2>2. \A i \in a .. b : i \in 1 .. 128
    OBVIOUS
  <2> QED
    BY <2>1, <2>2
<1>3. SubSeq(m, a, b) \in Seq(Byte) /\ Len(SubSeq(m, a, b)) = 16
  BY <1>2, SubSeqProperties
<1> QED
  BY <1>3 DEF AreBytes

\* The login server greets a client.
LEMMA GreetClientStep ==
  ASSUME WireInv, GreetClient
  PROVE  WireInv'
<1> DEFINE key == SubSeq(Modulus1024, 1, 16)
           scrambled == ScrambleModulus(Modulus1024)
<1>1. PICK session \in Sessions :
        /\ turn = "login" /\ turn' = "init" /\ wire' \in FirstFramed(Init(session, scrambled, key))
        /\ said' = Learns(said, "greeting", [session |-> session, modulus |-> Modulus1024, key |-> key])
        /\ heard' = heard
  BY DEF GreetClient, Goes, Means
<1> DEFINE p == Init(session, scrambled, key)
           v == [session |-> session, modulus |-> Modulus1024, key |-> key]
<1>2. UpTo(said, 0) /\ Understood(said, heard)
  BY <1>1 DEF WireInv, Consistent, Stage, AtStart
<1>3. /\ AreBytes(key, 16) /\ AreBytes(scrambled, 128) /\ UnscrambleModulus(scrambled) = Modulus1024
      /\ IsInt32(session)
  <2>1. AreBytes(Modulus1024, 128)
    BY ModuliAssumption DEF AreBytes
  <2>4. AreBytes(key, 16)
    BY <2>1, PartOfModulus
  <2> QED
    BY <2>1, <2>4, ModulusComesBack, SessionsAssumption
<1> HIDE DEF key, scrambled
<1>4. /\ p \in Seq(Byte)
      /\ \A w : Carries(w, p) =>
           ReadInitPacket(w) = [ok |-> TRUE, session |-> session, revision |-> ProtocolRevisionInit,
                                modulus |-> Modulus1024, key |-> key]
  BY <1>3, InitIsRead
<1>5. wire' \in FirstFramed(p) /\ said' = Learns(said, "greeting", v)
  BY <1>1
<1>6. v.session = session /\ v.modulus = Modulus1024 /\ v.key = key
      /\ v = [session |-> v.session, modulus |-> v.modulus, key |-> v.key]
  OBVIOUS
<1> HIDE DEF p, v
<1>7. wire' \in Seq(Byte) /\ Carries(wire', p)
  BY <1>4, <1>5, FirstFramed1
<1>8. UpTo(said', 1) /\ Told1(said', said, "greeting", v)
  BY <1>2, <1>5, Orders, Tells
<1>9. "greeting" \in DOMAIN said' /\ said'["greeting"] = v
  BY <1>8 DEF Told1
<1>10. Greeted(said')
  BY <1>3, <1>6, <1>9, Zenon DEF Greeted
<1>11. ReadInitPacket(wire') = [ok |-> TRUE, session |-> said'["greeting"].session, revision |-> ProtocolRevisionInit,
                                modulus |-> said'["greeting"].modulus, key |-> said'["greeting"].key]
  BY <1>4, <1>6, <1>7, <1>9, Zenon
<1>12. AtInit(wire', said', heard')
  BY <1>8, <1>10, <1>11, Zenon DEF AtInit
<1>13. Understood(said', heard')
  BY <1>1, <1>2, SayingKeepsUnderstood
<1> QED
  BY <1>1, <1>7, <1>12, <1>13 DEF WireInv, Consistent, Stage, Turns

\* The client answers.
LEMMA AnswerGreetingStep ==
  ASSUME WireInv, AnswerGreeting
  PROVE  WireInv'
<1> DEFINE r == ReadInitPacket(wire)
           g == said["greeting"]
           session == g.session
           p == SendAuthGameGuard(session)
<1>1. /\ turn = "init" /\ turn' = "gg" /\ said' = said
      /\ heard' = Learns(heard, "greeting", [session |-> r.session, modulus |-> r.modulus, key |-> r.key])
      /\ wire' \in Framed(SendAuthGameGuard(r.session))
  BY DEF AnswerGreeting, Goes, Hears
<1>2. AtInit(wire, said, heard) /\ Understood(said, heard)
  BY <1>1 DEF WireInv, Consistent, Stage
<1>3. /\ UpTo(said, 1) /\ Greeted(said)
      /\ r = [ok |-> TRUE, session |-> g.session, revision |-> ProtocolRevisionInit,
              modulus |-> g.modulus, key |-> g.key]
  BY <1>2 DEF AtInit
<1>4. r.session = g.session /\ r.modulus = g.modulus /\ r.key = g.key
  BY <1>3
<1>5. /\ "greeting" \in DOMAIN said /\ IsInt32(session)
      /\ g = [session |-> g.session, modulus |-> g.modulus, key |-> g.key]
  BY <1>3 DEF Greeted
<1> HIDE DEF r, g
<1>6. heard' = Learns(heard, "greeting", g)
  BY <1>1, <1>4, <1>5
<1>7. Understood(said', heard')
  BY <1>1, <1>2, <1>5, <1>6, HearingExactly DEF Exact, g
<1>8. wire' \in Framed(p)
  BY <1>1, <1>4
<1> HIDE DEF session
<1>9. /\ p \in Seq(Byte)
      /\ \A w : Carries(w, p) => ParseAuthGameGuard(SubSeq(w, 2, Len(w))) = [ok |-> TRUE, session |-> session]
  BY <1>5, GameGuardIsRead
<1> HIDE DEF p
<1>10. wire' \in Seq(Byte) /\ Carries(wire', p)
  BY <1>8, <1>9, Framed1
<1>11. ParseAuthGameGuard(Body2(wire')) = [ok |-> TRUE, session |-> said'["greeting"].session]
  BY <1>1, <1>9, <1>10, Zenon DEF Body2, session, g
<1>12. AtGg(wire', said', heard')
  BY <1>1, <1>3, <1>11 DEF AtGg
<1> QED
  BY <1>1, <1>7, <1>10, <1>12 DEF WireInv, Consistent, Stage, Turns

\* The login server gets its session id back.
LEMMA HandleGameGuardStep ==
  ASSUME WireInv, HandleGameGuard
  PROVE  WireInv'
<1> DEFINE r == ParseAuthGameGuard(Body)
           p == GGAuth(r.session)
<1>1. /\ turn = "gg" /\ said' = said /\ heard' = heard
      /\ r.session = said["greeting"].session => turn' = "ggAuth" /\ wire' \in Framed(p)
  BY DEF HandleGameGuard
<1>2. AtGg(wire, said, heard) /\ Understood(said, heard)
  BY <1>1 DEF WireInv, Consistent, Stage
<1>3. UpTo(said, 1) /\ Greeted(said) /\ r = [ok |-> TRUE, session |-> said["greeting"].session]
  BY <1>2 DEF AtGg, Body, Body2
<1>4. r.session = said["greeting"].session /\ IsInt32(r.session)
  BY <1>3 DEF Greeted
<1> HIDE DEF r
<1>5. turn' = "ggAuth" /\ wire' \in Framed(p)
  BY <1>1, <1>4
<1>6. p \in Seq(Byte)
  BY <1>4, GGAuthIsBytes
<1> HIDE DEF p
<1>7. wire' \in Seq(Byte)
  BY <1>5, <1>6, Framed1
<1>8. AtGgAuth(wire', said', heard') /\ Understood(said', heard')
  BY <1>1, <1>2, <1>3 DEF AtGgAuth
<1> QED
  BY <1>5, <1>7, <1>8 DEF WireInv, Consistent, Stage, Turns

\* The client sends its name and password.
LEMMA SendCredentialsStep ==
  ASSUME WireInv, SendCredentials
  PROVE  WireInv'
<1>1. PICK c \in Credentials :
        /\ turn = "ggAuth" /\ turn' = "credentials"
        /\ wire' \in Framed(SendRequestAuthLogin(c.login, c.password))
        /\ said' = Learns(said, "credentials", c) /\ heard' = heard
  BY DEF SendCredentials, Goes, Means
<1> DEFINE p == SendRequestAuthLogin(c.login, c.password)
<1>2. UpTo(said, 1) /\ Understood(said, heard)
  BY <1>1 DEF WireInv, Consistent, Stage, AtGgAuth
<1>3. p \in Seq(Byte) /\ wire' \in Framed(p)
  BY <1>1, RequestAuthLoginIsBytes
<1> HIDE DEF p
<1>4. wire' \in Seq(Byte)
  BY <1>3, Framed1
<1>5. UpTo(said', 2) /\ Told1(said', said, "credentials", c)
  BY <1>1, <1>2, Orders, Tells
<1>6. AtCredentials(wire', said', heard')
  BY <1>5 DEF AtCredentials, Named, Told1
<1>7. Understood(said', heard')
  BY <1>1, <1>2, SayingKeepsUnderstood
<1> QED
  BY <1>1, <1>4, <1>6, <1>7 DEF WireInv, Consistent, Stage, Turns

\* A session key and a list of servers.
LEMMA SessionKeyIsKey ==
  ASSUME NEW sk \in SessionKeys
  PROVE  IsKey(sk)
BY SessionKeysAssumption DEF IsKey

\* A list of servers fits its packet.
LEMMA ServerFields ==
  ASSUME NEW servers \in ServerLists
  PROVE  FewServers(Len(servers)) /\ AreServers(servers, Len(servers)) /\ LastServer(servers) \in Byte
<1> DEFINE R == [id : Byte, ip : Seq(Byte), port : Nat]
<1>1. \A s \in R : IsServer(s) /\ s.id \in Byte
  BY DEF IsServer
<1>2. servers \in Seq(R) /\ Len(servers) < 256
  BY ServerListsAssumption, Zenon
<1> HIDE DEF R
<1>3. Len(servers) \in Nat /\ DOMAIN servers = 1 .. Len(servers) /\ \A i \in 1 .. Len(servers) : servers[i] \in R
  BY <1>2
<1>4. FewServers(Len(servers)) /\ AreServers(servers, Len(servers))
  BY <1>1, <1>2, <1>3 DEF FewServers, AreServers
<1>5. servers = <<>> => LastServer(servers) \in Byte
  BY DEF LastServer, Byte
<1>6. servers # <<>> => LastServer(servers) \in Byte
  <2>1. servers # <<>> => servers[1] \in R
    BY <1>2
  <2> QED
    BY <1>1, <2>1 DEF LastServer
<1> QED
  BY <1>4, <1>5, <1>6

\* The topics of a login.
LEMMA TellsLogin ==
  ASSUME NEW s, UpTo(s, 2), NEW v, NEW sk, NEW servers, NEW f,
         f = Learns(Learns(Learns(s, "answer", v), "sk", sk), "servers", servers)
  PROVE  /\ UpTo(f, 4) /\ Told1(f, s, "answer", v) /\ Told1(f, s, "sk", sk) /\ Told1(f, s, "servers", servers)
<1> DEFINE a == Learns(s, "answer", v)
           b == Learns(a, "sk", sk)
<1>1. Learned(a, s, "answer", v) /\ Learned(b, a, "sk", sk) /\ Learned(f, b, "servers", servers)
  BY LearnsFields
<1> HIDE DEF a, b
<1>2. \A t \in DOMAIN s : t \in DOMAIN Order /\ Order[t] <= 2 /\ t # "answer" /\ t # "sk" /\ t # "servers"
  BY Orders DEF UpTo
<1>3. DOMAIN a = DOMAIN s \cup {"answer"} /\ a["answer"] = v /\ \A x \in DOMAIN s : a[x] = s[x]
  BY <1>1, <1>2 DEF Learned
<1>4. DOMAIN b = DOMAIN a \cup {"sk"} /\ b["sk"] = sk /\ \A x \in DOMAIN a : b[x] = a[x]
  BY <1>1, <1>2, <1>3 DEF Learned
<1>5. DOMAIN f = DOMAIN b \cup {"servers"} /\ f["servers"] = servers /\ \A x \in DOMAIN b : f[x] = b[x]
  BY <1>1, <1>2, <1>3, <1>4 DEF Learned
<1>6. Keeps(f, s)
  BY <1>3, <1>4, <1>5 DEF Keeps
<1>7. /\ "answer" \in DOMAIN f /\ f["answer"] = v
      /\ "sk" \in DOMAIN f /\ f["sk"] = sk
      /\ "servers" \in DOMAIN f /\ f["servers"] = servers
  BY <1>3, <1>4, <1>5
<1>8. UpTo(f, 4)
  <2> SUFFICES ASSUME NEW t \in DOMAIN f
               PROVE  t \in DOMAIN Order /\ Order[t] <= 4
    BY DEF UpTo
  <2>1. t \in DOMAIN s \/ t = "answer" \/ t = "sk" \/ t = "servers"
    BY <1>3, <1>4, <1>5
  <2>2. Order \in [DOMAIN Order -> Nat]
    BY DEF Order
  <2> QED
    BY <1>2, <2>1, <2>2, Orders
<1> QED
  BY <1>6, <1>7, <1>8 DEF Told1

\* p is read as the answer v to the login with the session key sk.
AnswersLogin(p, v, sk) ==
  /\ p \in Seq(Byte) /\ \A w : Carries(w, p) => ReadLoginOk(w) = v
  /\ v.answer = "ok" => v = LoginPair(sk)

LEMMA LoginAnswers ==
  ASSUME NEW sk \in SessionKeys, NEW servers \in ServerLists
  PROVE  /\ AnswersLogin(LoginOk(sk.login1, sk.login2), LoginPair(sk), sk)
         /\ AnswersLogin(ServerList(servers), [answer |-> "list"], sk)
         /\ AnswersLogin(AccountKicked(32), [answer |-> "kicked", reason |-> 32], sk)
         /\ AnswersLogin(LoginFail(2), [answer |-> "fail", reason |-> 2], sk)
<1>1. IsInt32(sk.login1) /\ IsInt32(sk.login2)
  BY SessionKeysAssumption
<1>2. 32 \in Byte /\ 2 \in Byte
  BY DEF Byte
<1>3. AnswersLogin(LoginOk(sk.login1, sk.login2), LoginPair(sk), sk)
  BY <1>1, LoginOkIsRead DEF AnswersLogin, LoginPair
<1>4. AnswersLogin(ServerList(servers), [answer |-> "list"], sk)
  <2>1. FewServers(Len(servers)) /\ AreServers(servers, Len(servers)) /\ LastServer(servers) \in Byte
    BY ServerFields
  <2> DEFINE v == [answer |-> "list"]
  <2>2. v.answer # "ok"
    OBVIOUS
  <2>3. ServerList(servers) \in Seq(Byte) /\ \A w : Carries(w, ServerList(servers)) => ReadLoginOk(w) = v
    BY <2>1, ServerListIsRead
  <2> HIDE DEF v
  <2>4. AnswersLogin(ServerList(servers), v, sk)
    BY <2>2, <2>3 DEF AnswersLogin
  <2> QED
    BY <2>4 DEF v
<1>5. AnswersLogin(AccountKicked(32), [answer |-> "kicked", reason |-> 32], sk)
  <2> DEFINE v == [answer |-> "kicked", reason |-> 32]
  <2>1. v.answer # "ok"
    OBVIOUS
  <2>2. AccountKicked(32) \in Seq(Byte) /\ \A w : Carries(w, AccountKicked(32)) => ReadLoginOk(w) = v
    BY <1>2, AccountKickedIsRead
  <2> HIDE DEF v
  <2>3. AnswersLogin(AccountKicked(32), v, sk)
    BY <2>1, <2>2 DEF AnswersLogin
  <2> QED
    BY <2>3 DEF v
<1>6. AnswersLogin(LoginFail(2), [answer |-> "fail", reason |-> 2], sk)
  <2> DEFINE v == [answer |-> "fail", reason |-> 2]
  <2>1. v.answer # "ok"
    OBVIOUS
  <2>2. LoginFail(2) \in Seq(Byte) /\ \A w : Carries(w, LoginFail(2)) => ReadLoginOk(w) = v
    BY <1>2, LoginFailIsRead
  <2> HIDE DEF v
  <2>3. AnswersLogin(LoginFail(2), v, sk)
    BY <2>1, <2>2 DEF AnswersLogin
  <2> QED
    BY <2>3 DEF v
<1> QED
  BY <1>3, <1>4, <1>5, <1>6

\* The login server answers a login.
LEMMA HandleCredentialsStep ==
  ASSUME WireInv, HandleCredentials
  PROVE  WireInv'
<1> DEFINE Login(v, sk, servers) == Learns(Learns(Learns(said, "answer", v), "sk", sk), "servers", servers)
<1>1. /\ turn = "credentials" /\ turn' = "loginAnswer"
      /\ \E sk \in SessionKeys, servers \in ServerLists : \E c, p, v :
           /\ heard' = Learns(heard, "credentials", c)
           /\ wire' \in Framed(p) /\ said' = Login(v, sk, servers)
           /\ \/ p = LoginOk(sk.login1, sk.login2) /\ v = LoginPair(sk)
              \/ p = ServerList(servers) /\ v = [answer |-> "list"]
              \/ p = AccountKicked(32) /\ v = [answer |-> "kicked", reason |-> 32]
              \/ p = LoginFail(2) /\ v = [answer |-> "fail", reason |-> 2]
  <2> DEFINE r == ParseRequestAuthLogin(Body)
             c == IF r.ok THEN [login |-> r.login, password |-> r.password]
                          ELSE [login |-> <<>>, password |-> <<>>]
             list == [answer |-> "list"]
             kicked == [answer |-> "kicked", reason |-> 32]
             fail == [answer |-> "fail", reason |-> 2]
  <2>1. turn = "credentials" /\ turn' = "loginAnswer" /\ heard' = Learns(heard, "credentials", c)
    BY DEF HandleCredentials, Goes, Hears
  <2>2. PICK sk \in SessionKeys, servers \in ServerLists :
          \/ wire' \in Framed(LoginOk(sk.login1, sk.login2)) /\ said' = Login(LoginPair(sk), sk, servers)
          \/ wire' \in Framed(ServerList(servers)) /\ said' = Login(list, sk, servers)
          \/ wire' \in Framed(AccountKicked(32)) /\ said' = Login(kicked, sk, servers)
          \/ wire' \in Framed(LoginFail(2)) /\ said' = Login(fail, sk, servers)
    BY DEF HandleCredentials, LoginPair
  <2> HIDE DEF c, list, kicked, fail, Login
  <2>3. \E p, v : /\ wire' \in Framed(p) /\ said' = Login(v, sk, servers)
                  /\ \/ p = LoginOk(sk.login1, sk.login2) /\ v = LoginPair(sk)
                     \/ p = ServerList(servers) /\ v = list
                     \/ p = AccountKicked(32) /\ v = kicked
                     \/ p = LoginFail(2) /\ v = fail
    BY <2>2, Zenon
  <2> QED
    BY <2>1, <2>3 DEF list, kicked, fail
<1>2. PICK sk \in SessionKeys, servers \in ServerLists : \E c, p, v :
        /\ heard' = Learns(heard, "credentials", c)
        /\ wire' \in Framed(p) /\ said' = Login(v, sk, servers)
        /\ \/ p = LoginOk(sk.login1, sk.login2) /\ v = LoginPair(sk)
           \/ p = ServerList(servers) /\ v = [answer |-> "list"]
           \/ p = AccountKicked(32) /\ v = [answer |-> "kicked", reason |-> 32]
           \/ p = LoginFail(2) /\ v = [answer |-> "fail", reason |-> 2]
  BY <1>1
<1>3. PICK c, p, v :
        /\ heard' = Learns(heard, "credentials", c)
        /\ wire' \in Framed(p) /\ said' = Login(v, sk, servers)
        /\ AnswersLogin(p, v, sk)
  BY <1>2, LoginAnswers, Zenon
<1>4. UpTo(said, 2) /\ Named(said) /\ Understood(said, heard)
  BY <1>1 DEF WireInv, Consistent, Stage, AtCredentials
<1>5. wire' \in Seq(Byte) /\ Carries(wire', p)
  BY <1>3, Framed1 DEF AnswersLogin
<1>6. /\ UpTo(said', 4) /\ Told1(said', said, "answer", v)
      /\ Told1(said', said, "sk", sk) /\ Told1(said', said, "servers", servers)
  BY <1>3, <1>4, TellsLogin
<1>7. Keeps(heard', heard) /\ "credentials" \in DOMAIN heard'
  BY <1>3, LearnsKeeps
<1>8. Account(said', heard')
  BY <1>4, <1>6, <1>7 DEF Account, Named, Told1, Keeps
<1>9. /\ "answer" \in DOMAIN said' /\ said'["answer"] = v /\ said'["sk"] = sk
      /\ ReadLoginOk(wire') = v /\ (v.answer = "ok" => v = LoginPair(sk))
  BY <1>3, <1>5, <1>6 DEF AnswersLogin, Told1
<1>10. AtLoginAnswer(wire', said', heard')
  BY <1>6, <1>8, <1>9, Zenon DEF AtLoginAnswer
<1>11. Understood(said', heard')
  <2>1. Understood(said, heard')
    BY <1>3, <1>4, HearingCredentials DEF Named
  <2> QED
    BY <2>1, <1>3, SayingKeepsUnderstood
<1> QED
  BY <1>1, <1>5, <1>10, <1>11 DEF WireInv, Consistent, Stage, Turns

\* The client reads the answer to its login.
LEMMA ReadLoginAnswerStep ==
  ASSUME WireInv, ReadLoginAnswer
  PROVE  WireInv'
<1> DEFINE r == ReadLoginOk(wire)
<1>1. /\ turn = "loginAnswer" /\ wire' = <<>> /\ said' = said /\ heard' = Learns(heard, "answer", r)
      /\ turn' = IF r.answer = "ok" THEN "list" ELSE "end"
  BY DEF ReadLoginAnswer, Goes, Hears
<1>2. AtLoginAnswer(wire, said, heard) /\ Understood(said, heard)
  BY <1>1 DEF WireInv, Consistent, Stage
<1>3. /\ UpTo(said, 4) /\ Account(said, heard) /\ "answer" \in DOMAIN said /\ r = said["answer"]
      /\ r.answer = "ok" => said["answer"] = LoginPair(said["sk"])
  BY <1>2 DEF AtLoginAnswer
<1> HIDE DEF r
<1>4. Understood(said', heard')
  BY <1>1, <1>2, <1>3, HearingExactly DEF Exact
<1>5. Keeps(heard', heard) /\ "answer" \in DOMAIN heard'
  BY <1>1, LearnsKeeps
<1>6. heard'["answer"] = said'["answer"]
  BY <1>4, <1>5 DEF Understood, Exact
<1>7. Account(said', heard')
  BY <1>1, <1>3, <1>5, KeepsSelf, KeepsAccount
<1>8. r.answer = "ok" => AtList(wire', said', heard')
  BY <1>1, <1>3, <1>5, <1>6, <1>7 DEF AtList, LoggedIn
<1> QED
  BY <1>1, <1>4, <1>8, EmptyInSeq DEF WireInv, Consistent, Stage, Turns

\* A client that has logged in knows the login pair.
LEMMA LoggedInPair ==
  ASSUME NEW s, NEW h, LoggedIn(s, h)
  PROVE  /\ s["sk"] \in SessionKeys /\ s["servers"] \in ServerLists
         /\ h["answer"].ok1 = s["sk"].login1 /\ h["answer"].ok2 = s["sk"].login2
         /\ IsInt32(s["sk"].login1) /\ IsInt32(s["sk"].login2)
         /\ IsInt32(s["sk"].play1) /\ IsInt32(s["sk"].play2)
<1>1. s["sk"] \in SessionKeys /\ s["servers"] \in ServerLists /\ h["answer"] = LoginPair(s["sk"])
  BY DEF LoggedIn, Account
<1>2. h["answer"].ok1 = s["sk"].login1 /\ h["answer"].ok2 = s["sk"].login2
  BY <1>1 DEF LoginPair
<1> QED
  BY <1>1, <1>2, SessionKeysAssumption

\* The login server sends the list of servers.
LEMMA RequestListStep ==
  ASSUME WireInv, RequestList
  PROVE  WireInv'
<1> DEFINE a == heard["answer"]
           r == ParseRequestServerList(Tail(SendRequestServerList(a.ok1, a.ok2)))
           servers == said["servers"]
           p == ServerList(servers)
           v == [ok |-> TRUE, count |-> Len(servers), last |-> LastServer(servers)]
<1>1. /\ turn = "list" /\ turn' = "listed" /\ heard' = heard /\ said' = Learns(said, "list", v)
      /\ (r.ok1 = said["sk"].login1 /\ r.ok2 = said["sk"].login2) => wire' \in Framed(p)
  BY DEF RequestList, Goes, Means, LastServer
<1>2. UpTo(said, 4) /\ LoggedIn(said, heard) /\ Understood(said, heard)
  BY <1>1 DEF WireInv, Consistent, Stage, AtList
<1>3. /\ servers \in ServerLists /\ a.ok1 = said["sk"].login1 /\ a.ok2 = said["sk"].login2
      /\ IsInt32(a.ok1) /\ IsInt32(a.ok2)
  BY <1>2, LoggedInPair
<1> HIDE DEF a, servers
<1>4. r = [ok |-> TRUE, ok1 |-> a.ok1, ok2 |-> a.ok2]
  BY <1>3, RequestServerListIsRead
<1> HIDE DEF r
<1>5. wire' \in Framed(p)
  BY <1>1, <1>3, <1>4
<1>6. p \in Seq(Byte) /\ \A w : Carries(w, p) => ReadServerList(w) = v
  <2>1. FewServers(Len(servers)) /\ AreServers(servers, Len(servers)) /\ LastServer(servers) \in Byte
    BY <1>3, ServerFields
  <2> QED
    BY <2>1, ServerListIsRead
<1> HIDE DEF p, v
<1>7. wire' \in Seq(Byte) /\ Carries(wire', p)
  BY <1>5, <1>6, Framed1
<1>8. UpTo(said', 5) /\ Told1(said', said, "list", v)
  BY <1>1, <1>2, Orders, Tells
<1>9. LoggedIn(said', heard')
  BY <1>1, <1>2, <1>8, KeepsSelf, KeepsLoggedIn DEF Told1
<1>10. AtListed(wire', said', heard')
  BY <1>6, <1>7, <1>8, <1>9, Zenon DEF AtListed, Told1
<1>11. Understood(said', heard')
  BY <1>1, <1>2, SayingKeepsUnderstood
<1> QED
  BY <1>1, <1>7, <1>10, <1>11 DEF WireInv, Consistent, Stage, Turns

\* The client chooses a server.
LEMMA ChooseServerStep ==
  ASSUME WireInv, ChooseServer
  PROVE  WireInv'
<1> DEFINE a == heard["answer"]
<1>1. PICK id \in {1, 2, 255} :
        /\ turn = "listed" /\ turn' = "choice" /\ heard' = Learns(heard, "list", ReadServerList(wire))
        /\ wire' \in Framed(SendRequestServerLogin(a.ok1, a.ok2, id)) /\ said' = Learns(said, "choice", id)
  BY DEF ChooseServer, Goes, Means, Hears
<1> DEFINE p == SendRequestServerLogin(a.ok1, a.ok2, id)
<1>2. AtListed(wire, said, heard) /\ Understood(said, heard)
  BY <1>1 DEF WireInv, Consistent, Stage
<1>3. /\ UpTo(said, 5) /\ LoggedIn(said, heard) /\ "list" \in DOMAIN said /\ ReadServerList(wire) = said["list"]
  BY <1>2 DEF AtListed
<1>4. /\ a.ok1 = said["sk"].login1 /\ a.ok2 = said["sk"].login2
      /\ IsInt32(a.ok1) /\ IsInt32(a.ok2)
  BY <1>3, LoggedInPair
<1>5. id \in Byte
  BY DEF Byte
<1> HIDE DEF a
<1>6. /\ p \in Seq(Byte)
      /\ \A w : Carries(w, p) => ParseRequestServerLogin(Body2(w))
                                   = [ok |-> TRUE, ok1 |-> a.ok1, ok2 |-> a.ok2, id |-> id]
  BY <1>4, <1>5, RequestServerLoginIsRead DEF Body2
<1>7. wire' \in Framed(p)
  BY <1>1
<1> HIDE DEF p
<1>8. wire' \in Seq(Byte) /\ Carries(wire', p)
  BY <1>6, <1>7, Framed1
<1>9. UpTo(said', 6) /\ Told1(said', said, "choice", id)
  BY <1>1, <1>3, Orders, Tells
<1>10. Keeps(said', said) /\ Keeps(heard', heard)
  BY <1>1, <1>9, LearnsKeeps DEF Told1
<1>11. LoggedIn(said', heard') /\ said'["sk"] = said["sk"]
  BY <1>3, <1>10, KeepsLoggedIn, KeepsAccount DEF LoggedIn
<1>12. ParseRequestServerLogin(Body2(wire'))
         = [ok |-> TRUE, ok1 |-> said'["sk"].login1, ok2 |-> said'["sk"].login2, id |-> said'["choice"]]
  <2>1. ParseRequestServerLogin(Body2(wire')) = [ok |-> TRUE, ok1 |-> a.ok1, ok2 |-> a.ok2, id |-> id]
    BY <1>6, <1>8
  <2>2. said'["choice"] = id
    BY <1>9 DEF Told1
  <2> QED
    BY <1>4, <1>11, <2>1, <2>2
<1>13. AtChoice(wire', said', heard')
  <2>1. "choice" \in DOMAIN said'
    BY <1>9 DEF Told1
  <2> QED
    BY <1>9, <1>11, <1>12, <2>1 DEF AtChoice
<1>14. Understood(said', heard')
  <2>1. Understood(said, heard')
    BY <1>1, <1>2, <1>3, HearingExactly DEF Exact
  <2> QED
    BY <2>1, <1>1, SayingKeepsUnderstood
<1> QED
  BY <1>1, <1>8, <1>13, <1>14 DEF WireInv, Consistent, Stage, Turns

\* p is read as the answer v to the choice of a server with the session key sk.
AnswersChoice(p, v, sk) ==
  /\ p \in Seq(Byte) /\ \A w : Carries(w, p) => ReadPlayOk(w) = v
  /\ v.answer = "ok" => v = PlayPair(sk)

LEMMA ChoiceAnswers ==
  ASSUME NEW sk, IsInt32(sk.play1), IsInt32(sk.play2)
  PROVE  /\ AnswersChoice(PlayOk(sk.play1, sk.play2), PlayPair(sk), sk)
         /\ AnswersChoice(PlayFail(15), [answer |-> "fail", reason |-> 15], sk)
<1>1. AnswersChoice(PlayOk(sk.play1, sk.play2), PlayPair(sk), sk)
  BY PlayOkIsRead DEF AnswersChoice, PlayPair
<1>2. AnswersChoice(PlayFail(15), [answer |-> "fail", reason |-> 15], sk)
  <2> DEFINE v == [answer |-> "fail", reason |-> 15]
  <2>1. v.answer # "ok"
    OBVIOUS
  <2>2. 15 \in Byte
    BY DEF Byte
  <2>3. PlayFail(15) \in Seq(Byte) /\ \A w : Carries(w, PlayFail(15)) => ReadPlayOk(w) = v
    BY <2>2, PlayFailIsRead
  <2> HIDE DEF v
  <2>4. AnswersChoice(PlayFail(15), v, sk)
    BY <2>1, <2>3 DEF AnswersChoice
  <2> QED
    BY <2>4 DEF v
<1> QED
  BY <1>1, <1>2

\* The login server answers the choice.
LEMMA HandleChoiceStep ==
  ASSUME WireInv, HandleChoice
  PROVE  WireInv'
<1> DEFINE r == ParseRequestServerLogin(Body)
           sk == said["sk"]
           fail == [answer |-> "fail", reason |-> 15]
<1>1. /\ turn = "choice" /\ turn' = "playAnswer" /\ heard' = Learns(heard, "choice", r.id)
      /\ (r.ok1 = sk.login1 /\ r.ok2 = sk.login2) =>
           \/ wire' \in Framed(PlayOk(sk.play1, sk.play2)) /\ said' = Learns(said, "playAnswer", PlayPair(sk))
           \/ wire' \in Framed(PlayFail(15)) /\ said' = Learns(said, "playAnswer", fail)
  BY DEF HandleChoice, Goes, Means, Hears, PlayPair
<1>2. AtChoice(wire, said, heard) /\ Understood(said, heard)
  BY <1>1 DEF WireInv, Consistent, Stage
<1>3. /\ UpTo(said, 6) /\ LoggedIn(said, heard) /\ "choice" \in DOMAIN said
      /\ r = [ok |-> TRUE, ok1 |-> sk.login1, ok2 |-> sk.login2, id |-> said["choice"]]
  BY <1>2 DEF AtChoice, Body, Body2
<1>4. IsInt32(sk.play1) /\ IsInt32(sk.play2)
  BY <1>3, LoggedInPair
<1> HIDE DEF r, sk
<1>5. r.ok1 = sk.login1 /\ r.ok2 = sk.login2 /\ r.id = said["choice"]
  BY <1>3
<1>6. \E p, v : wire' \in Framed(p) /\ said' = Learns(said, "playAnswer", v) /\ AnswersChoice(p, v, sk)
  <2>1. AnswersChoice(PlayOk(sk.play1, sk.play2), PlayPair(sk), sk) /\ AnswersChoice(PlayFail(15), fail, sk)
    BY <1>4, ChoiceAnswers
  <2> HIDE DEF fail
  <2> QED
    BY <1>1, <1>5, <2>1
<1>7. PICK p, v : wire' \in Framed(p) /\ said' = Learns(said, "playAnswer", v) /\ AnswersChoice(p, v, sk)
  BY <1>6
<1>8. wire' \in Seq(Byte) /\ Carries(wire', p)
  BY <1>7, Framed1 DEF AnswersChoice
<1>9. UpTo(said', 7) /\ Told1(said', said, "playAnswer", v)
  BY <1>3, <1>7, Orders, Tells
<1>10. Keeps(said', said) /\ Keeps(heard', heard)
  BY <1>1, <1>9, LearnsKeeps DEF Told1
<1>11. LoggedIn(said', heard') /\ said'["sk"] = sk
  BY <1>3, <1>10, KeepsLoggedIn, KeepsAccount DEF LoggedIn, sk
<1>12. AtPlayAnswer(wire', said', heard')
  BY <1>7, <1>8, <1>9, <1>11, Zenon DEF AtPlayAnswer, AnswersChoice, Told1
<1>13. Understood(said', heard')
  <2>1. heard' = Learns(heard, "choice", said["choice"])
    BY <1>1, <1>5
  <2>2. Understood(said, heard')
    BY <1>2, <1>3, <2>1, HearingExactly DEF Exact
  <2> QED
    BY <2>2, <1>7, SayingKeepsUnderstood
<1> QED
  BY <1>1, <1>8, <1>12, <1>13 DEF WireInv, Consistent, Stage, Turns

\* The client reads the answer to its choice.
LEMMA ReadPlayAnswerStep ==
  ASSUME WireInv, ReadPlayAnswer
  PROVE  WireInv'
<1> DEFINE r == ReadPlayOk(wire)
<1>1. /\ turn = "playAnswer" /\ wire' = <<>> /\ said' = said /\ heard' = Learns(heard, "playAnswer", r)
      /\ turn' = IF r.answer = "ok" THEN "game" ELSE "end"
  BY DEF ReadPlayAnswer, Goes, Hears
<1>2. AtPlayAnswer(wire, said, heard) /\ Understood(said, heard)
  BY <1>1 DEF WireInv, Consistent, Stage
<1>3. /\ UpTo(said, 7) /\ LoggedIn(said, heard) /\ "playAnswer" \in DOMAIN said /\ r = said["playAnswer"]
      /\ r.answer = "ok" => said["playAnswer"] = PlayPair(said["sk"])
  BY <1>2 DEF AtPlayAnswer
<1> HIDE DEF r
<1>4. Understood(said', heard')
  BY <1>1, <1>2, <1>3, HearingExactly DEF Exact
<1>5. Keeps(heard', heard) /\ "playAnswer" \in DOMAIN heard'
  BY <1>1, LearnsKeeps
<1>6. heard'["playAnswer"] = said'["playAnswer"]
  BY <1>4, <1>5 DEF Understood, Exact
<1>7. LoggedIn(said', heard')
  BY <1>1, <1>3, <1>5, KeepsSelf, KeepsLoggedIn
<1>8. r.answer = "ok" => AtGame(wire', said', heard')
  BY <1>1, <1>3, <1>5, <1>6, <1>7 DEF AtGame, Admitted
<1> QED
  BY <1>1, <1>4, <1>8, EmptyInSeq DEF WireInv, Consistent, Stage, Turns

\* The game server sends a key.
LEMMA GreetPlayerStep ==
  ASSUME WireInv, GreetPlayer
  PROVE  WireInv'
<1> DEFINE key == SubSeq(Modulus1024, 17, 32)
           p == KeyPacket(key)
<1>1. /\ turn = "game" /\ turn' = "gameKey" /\ wire' = p /\ heard' = heard
      /\ said' = Learns(said, "gameKey", key)
  BY DEF GreetPlayer, Goes, Means
<1>2. UpTo(said, 7) /\ Admitted(said, heard) /\ Understood(said, heard)
  BY <1>1 DEF WireInv, Consistent, Stage, AtGame
<1>3. AreBytes(key, 16)
  <2>1. AreBytes(Modulus1024, 128)
    BY ModuliAssumption DEF AreBytes
  <2> QED
    BY <2>1, PartOfModulus
<1> HIDE DEF key
<1>4. p \in Seq(Byte) /\ ReadKeyPacket(p) = [ok |-> TRUE, key |-> key]
  BY <1>3, KeyPacketIsRead
<1> HIDE DEF p
<1>5. UpTo(said', 8) /\ Told1(said', said, "gameKey", key)
  BY <1>1, <1>2, Orders, Tells
<1>6. Admitted(said', heard')
  BY <1>1, <1>2, <1>5, KeepsSelf, KeepsAdmitted DEF Told1
<1>7. AtGameKey(wire', said', heard')
  BY <1>1, <1>4, <1>5, <1>6, Zenon DEF AtGameKey, Told1
<1>8. Understood(said', heard')
  BY <1>1, <1>2, SayingKeepsUnderstood
<1> QED
  BY <1>1, <1>4, <1>7, <1>8 DEF WireInv, Consistent, Stage, Turns

\* The client tells its version.
LEMMA SendVersionStep ==
  ASSUME WireInv, SendVersion
  PROVE  WireInv'
<1> DEFINE r == ReadKeyPacket(wire)
           Valid(revision) == revision = ProtocolRevision
           Revisions == {ProtocolRevision, 39321}
<1>1. PICK revision \in Revisions :
        /\ turn = "gameKey" /\ turn' = "version" /\ heard' = Learns(heard, "gameKey", r.key)
        /\ wire' \in Framed(SendProtocolVersion(revision))
        /\ said' = Learns(said, "version", Valid(revision))
  BY DEF SendVersion, Goes, Means, Hears
<1> DEFINE p == SendProtocolVersion(revision)
           v == Valid(revision)
<1>2. AtGameKey(wire, said, heard) /\ Understood(said, heard)
  BY <1>1 DEF WireInv, Consistent, Stage
<1>3. /\ UpTo(said, 8) /\ Admitted(said, heard) /\ "gameKey" \in DOMAIN said
      /\ r = [ok |-> TRUE, key |-> said["gameKey"]]
  BY <1>2 DEF AtGameKey
<1>4. r.key = said["gameKey"]
  BY <1>3
<1> HIDE DEF r
<1>5. IsInt32(revision)
  BY DEF IsInt32, ProtocolRevision
<1> HIDE DEF Revisions
<1>6. /\ p \in Seq(Byte)
      /\ \A w : Carries(w, p) => ParseProtocolVersion(Body2(w)) = [ok |-> TRUE, valid |-> v]
  BY <1>5, VersionIsRead DEF Body2
<1>7. wire' \in Framed(p) /\ said' = Learns(said, "version", v) /\ v \in BOOLEAN
  BY <1>1
<1> HIDE DEF p, v, Valid
<1>8. wire' \in Seq(Byte) /\ Carries(wire', p)
  BY <1>6, <1>7, Framed1
<1>9. UpTo(said', 9) /\ Told1(said', said, "version", v)
  BY <1>3, <1>7, Orders, Tells
<1>10. Keeps(said', said) /\ Keeps(heard', heard)
  BY <1>1, <1>9, LearnsKeeps DEF Told1
<1>11. Admitted(said', heard')
  BY <1>3, <1>10, KeepsAdmitted
<1>12. AtVersion(wire', said', heard')
  <2>1. ParseProtocolVersion(Body2(wire')) = [ok |-> TRUE, valid |-> v]
    BY <1>6, <1>8
  <2> QED
    BY <1>7, <1>9, <1>11, <2>1, Zenon DEF AtVersion, Told1
<1>13. Understood(said', heard')
  <2>1. Understood(said, heard')
    BY <1>1, <1>2, <1>3, <1>4, HearingExactly DEF Exact
  <2> QED
    BY <2>1, <1>7, SayingKeepsUnderstood
<1> QED
  BY <1>1, <1>8, <1>12, <1>13 DEF WireInv, Consistent, Stage, Turns

\* The game server checks the version.
LEMMA HandleVersionStep ==
  ASSUME WireInv, HandleVersion
  PROVE  WireInv'
<1> DEFINE r == ParseProtocolVersion(Body)
           good == r.ok /\ r.valid
<1>1. PICK state \in ClientStates :
        /\ turn = "version" /\ turn' \in {"enter", "end"} /\ wire' = <<>>
        /\ heard' = Learns(heard, "version", good) /\ said' = Learns(said, "state", state)
  BY DEF HandleVersion, Goes, Means, Hears
<1>2. AtVersion(wire, said, heard) /\ Understood(said, heard)
  BY <1>1 DEF WireInv, Consistent, Stage
<1>3. /\ UpTo(said, 9) /\ Admitted(said, heard) /\ "version" \in DOMAIN said /\ said["version"] \in BOOLEAN
      /\ r = [ok |-> TRUE, valid |-> said["version"]]
  BY <1>2 DEF AtVersion, Body, Body2
<1> HIDE DEF r
<1>4. good = said["version"]
  <2>1. r.ok = TRUE /\ r.valid = said["version"]
    BY <1>3
  <2> QED
    BY <1>3, <2>1
<1> HIDE DEF good
<1>5. heard' = Learns(heard, "version", said["version"])
  BY <1>1, <1>4
<1>6. UpTo(said', 10) /\ Told1(said', said, "state", state)
  BY <1>1, <1>3, Orders, Tells
<1>7. Keeps(said', said) /\ Keeps(heard', heard)
  BY <1>1, <1>6, LearnsKeeps DEF Told1
<1>8. AtEnter(wire', said', heard')
  BY <1>3, <1>6, <1>7, KeepsAdmitted DEF AtEnter
<1>9. Understood(said', heard')
  <2>1. Understood(said, heard')
    BY <1>2, <1>3, <1>5, HearingExactly DEF Exact
  <2> QED
    BY <2>1, <1>1, SayingKeepsUnderstood
<1> QED
  BY <1>1, <1>8, <1>9, EmptyInSeq DEF WireInv, Consistent, Stage, Turns

\* The client of an account knows its session key when it has been admitted.
LEMMA AdmittedKey ==
  ASSUME NEW s, NEW h, Admitted(s, h)
  PROVE  /\ s["sk"] \in SessionKeys /\ s["credentials"].login \in Texts
         /\ SessionKey(h["playAnswer"].ok1, h["playAnswer"].ok2, h["answer"].ok1, h["answer"].ok2) = s["sk"]
<1> DEFINE sk == s["sk"]
<1>1. /\ sk \in SessionKeys /\ s["credentials"] \in Credentials
      /\ h["answer"] = LoginPair(sk) /\ h["playAnswer"] = PlayPair(sk)
  BY DEF Admitted, LoggedIn, Account, Named
<1> HIDE DEF sk
<1>2. /\ h["answer"].ok1 = sk.login1 /\ h["answer"].ok2 = sk.login2
      /\ h["playAnswer"].ok1 = sk.play1 /\ h["playAnswer"].ok2 = sk.play2
  BY <1>1 DEF LoginPair, PlayPair
<1>3. SessionKey(sk.play1, sk.play2, sk.login1, sk.login2) = sk
  <2>1. sk \in [login1 : Int, login2 : Int, play1 : Int, play2 : Int]
    BY <1>1, SessionKeysAssumption
  <2> QED
    BY <2>1 DEF SessionKey
<1>4. s["credentials"].login \in Texts
  BY <1>1, CredentialsAssumption, NamesAreTexts
<1> QED
  BY <1>1, <1>2, <1>3, <1>4 DEF sk

\* The client enters.
LEMMA EnterStep ==
  ASSUME WireInv, Enter
  PROVE  WireInv'
<1> DEFINE a == heard["answer"]
           b == heard["playAnswer"]
           name == said["credentials"].login
           sk == said["sk"]
           key == SessionKey(b.ok1, b.ok2, a.ok1, a.ok2)
           p == SendAuthLogin(name, key)
           v == [account |-> name, key |-> sk]
<1>1. /\ turn = "enter" /\ turn' = "ticket" /\ heard' = heard
      /\ wire' \in Framed(p) /\ said' = Learns(said, "ticket", v)
  BY DEF Enter, Goes, Means
<1>2. UpTo(said, 10) /\ Admitted(said, heard) /\ Understood(said, heard)
  BY <1>1 DEF WireInv, Consistent, Stage, AtEnter
<1>3. sk \in SessionKeys /\ name \in Texts /\ key = sk
  BY <1>2, AdmittedKey
<1>4. Account(said, heard)
  BY <1>2 DEF Admitted, LoggedIn
<1>5. v = Ticket(said)
  BY DEF Ticket
<1> HIDE DEF name, sk, key, v
<1>6. /\ p \in Seq(Byte)
      /\ \A w : Carries(w, p) => ParseAuthLogin(Body2(w)) = [ok |-> TRUE, account |-> name, key |-> sk]
  BY <1>3, SessionKeyIsKey, AuthLoginIsRead DEF Body2
<1> HIDE DEF p
<1>7. wire' \in Seq(Byte) /\ Carries(wire', p)
  BY <1>1, <1>6, Framed1
<1>8. UpTo(said', 11) /\ Told1(said', said, "ticket", v)
  BY <1>1, <1>2, Orders, Tells
<1>9. Account(said', heard') /\ said'["credentials"] = said["credentials"] /\ said'["sk"] = said["sk"]
  BY <1>1, <1>4, <1>8, KeepsSelf, KeepsAccount DEF Told1
<1>10. Ticket(said') = Ticket(said) /\ TicketRead(said') = TicketRead(said)
  BY <1>9 DEF Ticket, TicketRead
<1>11. ParseAuthLogin(Body2(wire')) = TicketRead(said)
  BY <1>6, <1>7 DEF TicketRead, name, sk
<1>12. AtTicket(wire', said', heard')
  BY <1>5, <1>8, <1>9, <1>10, <1>11, Zenon DEF AtTicket, Told1
<1>13. Understood(said', heard')
  BY <1>1, <1>2, SayingKeepsUnderstood
<1> QED
  BY <1>1, <1>7, <1>12, <1>13 DEF WireInv, Consistent, Stage, Turns

\* The game server reads who enters.
LEMMA HandleEnterStep ==
  ASSUME WireInv, HandleEnter
  PROVE  WireInv'
<1> DEFINE r == ParseAuthLogin(Body)
           v == [account |-> r.account, key |-> r.key]
<1>1. /\ turn = "ticket" /\ wire' = <<>> /\ said' = said
      /\ \/ turn' = "end" /\ heard' = heard
         \/ turn' \in {"ask", "end"} /\ heard' = Learns(heard, "ticket", v)
  BY DEF HandleEnter, Hears
<1>2. AtTicket(wire, said, heard) /\ Understood(said, heard)
  BY <1>1 DEF WireInv, Consistent, Stage
<1>3. /\ UpTo(said, 11) /\ Account(said, heard) /\ "ticket" \in DOMAIN said /\ said["ticket"] = Ticket(said)
      /\ r = TicketRead(said)
  BY <1>2 DEF AtTicket, Body, Body2
<1>4. v = said["ticket"]
  <2>1. r.account = said["credentials"].login /\ r.key = said["sk"]
    BY <1>3 DEF TicketRead
  <2> QED
    BY <1>3, <2>1 DEF Ticket
<1> HIDE DEF v
<1>5. CASE turn' = "end" /\ heard' = heard
  <2>1. Understood(said', heard')
    BY <1>1, <1>2, <1>5
  <2> QED
    BY <1>1, <1>5, <2>1, EmptyInSeq DEF WireInv, Consistent, Stage, Turns
<1>6. CASE turn' \in {"ask", "end"} /\ heard' = Learns(heard, "ticket", v)
  <2>1. Understood(said', heard')
    BY <1>1, <1>2, <1>3, <1>4, <1>6, HearingExactly DEF Exact
  <2>2. Keeps(heard', heard) /\ "ticket" \in DOMAIN heard'
    BY <1>6, LearnsKeeps
  <2>3. heard'["ticket"] = said'["ticket"]
    BY <2>1, <2>2 DEF Understood, Exact
  <2>4. Account(said', heard')
    BY <1>1, <1>3, <2>2, KeepsSelf, KeepsAccount
  <2>5. AtAsk(wire', said', heard')
    BY <1>1, <1>3, <2>2, <2>3, <2>4 DEF AtAsk
  <2> QED
    BY <1>1, <1>6, <2>1, <2>5, EmptyInSeq DEF WireInv, Consistent, Stage, Turns
<1> QED
  BY <1>1, <1>5, <1>6

\* An account's name is a text and its key a key.
LEMMA AccountFields ==
  ASSUME NEW s, NEW h, Account(s, h)
  PROVE  IsKey(s["sk"]) /\ s["credentials"].login \in Texts
BY SessionKeyIsKey, CredentialsAssumption, NamesAreTexts DEF Account, Named

\* The game server asks the login server.
LEMMA AskStep ==
  ASSUME WireInv, Ask
  PROVE  WireInv'
<1> DEFINE t == heard["ticket"]
           p == SendPlayerAuthRequest(t.account, t.key)
<1>1. /\ turn = "ask" /\ turn' = "request" /\ heard' = heard
      /\ wire' \in GSFramed(p) /\ said' = Learns(said, "request", t)
  BY DEF Ask, Goes, Means
<1>2. UpTo(said, 11) /\ Account(said, heard) /\ t = Ticket(said) /\ Understood(said, heard)
  BY <1>1 DEF WireInv, Consistent, Stage, AtAsk
<1>3. t.account = said["credentials"].login /\ t.key = said["sk"]
  BY <1>2 DEF Ticket
<1> HIDE DEF t
<1>4. IsKey(t.key) /\ t.account \in Texts
  BY <1>2, <1>3, AccountFields
<1>5. /\ p \in Seq(Byte)
      /\ \A w : Carries(w, p) => ParsePlayerAuthRequest(Body2(w)) = [ok |-> TRUE, account |-> t.account, key |-> t.key]
  BY <1>4, PlayerAuthRequestIsRead DEF Body2
<1> HIDE DEF p
<1>6. wire' \in Seq(Byte) /\ Carries(wire', p)
  BY <1>1, <1>5, GSFramed1
<1>7. UpTo(said', 12) /\ Told1(said', said, "request", t)
  BY <1>1, <1>2, Orders, Tells
<1>8. Account(said', heard') /\ said'["credentials"] = said["credentials"] /\ said'["sk"] = said["sk"]
  BY <1>1, <1>2, <1>7, KeepsSelf, KeepsAccount DEF Told1
<1>9. Ticket(said') = Ticket(said) /\ TicketRead(said') = TicketRead(said)
  BY <1>8 DEF Ticket, TicketRead
<1>10. ParsePlayerAuthRequest(Body2(wire')) = TicketRead(said)
  BY <1>3, <1>5, <1>6 DEF TicketRead
<1>11. AtRequest(wire', said', heard')
  BY <1>2, <1>7, <1>8, <1>9, <1>10, Zenon DEF AtRequest, Told1
<1>12. Understood(said', heard')
  BY <1>1, <1>2, SayingKeepsUnderstood
<1> QED
  BY <1>1, <1>6, <1>11, <1>12 DEF WireInv, Consistent, Stage, Turns

\* The login server answers.
LEMMA HandleRequestStep ==
  ASSUME WireInv, HandleRequest
  PROVE  WireInv'
<1> DEFINE r == ParsePlayerAuthRequest(Body)
           good == r.account = heard["credentials"].login /\ r.key = said["sk"]
           ticket == [account |-> r.account, key |-> r.key]
           name == r.account
           p == PlayerAuthResponse(name, good)
           v == [ok |-> TRUE, account |-> name, result |-> good]
<1>1. /\ turn = "request" /\ turn' = "verdict" /\ heard' = Learns(heard, "request", ticket)
      /\ wire' \in Framed(p) /\ said' = Learns(said, "verdict", v)
  BY DEF HandleRequest, Goes, Means, Hears
<1>2. AtRequest(wire, said, heard) /\ Understood(said, heard)
  BY <1>1 DEF WireInv, Consistent, Stage
<1>3. /\ UpTo(said, 12) /\ Account(said, heard) /\ "request" \in DOMAIN said /\ said["request"] = Ticket(said)
      /\ r = TicketRead(said)
  BY <1>2 DEF AtRequest, Body, Body2
<1>4. r.account = said["credentials"].login /\ r.key = said["sk"]
  BY <1>3 DEF TicketRead
<1>5. ticket = said["request"]
  BY <1>3, <1>4 DEF Ticket
<1>6. name \in Texts
  BY <1>3, <1>4, AccountFields
<1>7. good \in BOOLEAN /\ (good <=> heard["credentials"].login = said["credentials"].login)
  BY <1>4
<1> HIDE DEF r, ticket, name, good
<1>8. p \in Seq(Byte) /\ \A w : Carries(w, p) => ReadPlayerAuthResponse(w) = v
  BY <1>6, <1>7, PlayerAuthResponseIsRead
<1>9. v.result = good
  OBVIOUS
<1> HIDE DEF p, v
<1>10. wire' \in Seq(Byte) /\ Carries(wire', p)
  BY <1>1, <1>8, Framed1
<1>11. UpTo(said', 13) /\ Told1(said', said, "verdict", v)
  BY <1>1, <1>3, Orders, Tells
<1>12. Keeps(said', said) /\ Keeps(heard', heard)
  BY <1>1, <1>11, LearnsKeeps DEF Told1
<1>13. /\ Account(said', heard')
       /\ said'["credentials"] = said["credentials"] /\ heard'["credentials"] = heard["credentials"]
  BY <1>3, <1>12, KeepsAccount
<1>14. "verdict" \in DOMAIN said' /\ said'["verdict"] = v
  BY <1>11 DEF Told1
<1>15. said'["verdict"].result <=> heard'["credentials"].login = said'["credentials"].login
  BY <1>7, <1>9, <1>13, <1>14, Zenon
<1>16. AtVerdict(wire', said', heard')
  BY <1>8, <1>10, <1>13, <1>14, <1>15, Zenon DEF AtVerdict
<1>17. Understood(said', heard')
  <2>1. Understood(said, heard')
    BY <1>1, <1>2, <1>3, <1>5, HearingExactly DEF Exact
  <2> QED
    BY <2>1, <1>1, SayingKeepsUnderstood
<1> QED
  BY <1>1, <1>10, <1>16, <1>17 DEF WireInv, Consistent, Stage, Turns

\* The game server reads the verdict.
LEMMA ReadVerdictStep ==
  ASSUME WireInv, ReadVerdict
  PROVE  WireInv'
<1>1. /\ turn = "verdict" /\ turn' = "end" /\ wire' = <<>> /\ said' = said
      /\ heard' = Learns(heard, "verdict", ReadPlayerAuthResponse(wire))
  BY DEF ReadVerdict, Goes, Hears
<1>2. AtVerdict(wire, said, heard) /\ Understood(said, heard)
  BY <1>1 DEF WireInv, Consistent, Stage
<1>3. /\ "verdict" \in DOMAIN said /\ "credentials" \in DOMAIN heard
      /\ said["verdict"].result <=> heard["credentials"].login = said["credentials"].login
      /\ ReadPlayerAuthResponse(wire) = said["verdict"]
  BY <1>2 DEF AtVerdict, Account
<1>4. Understood(said', heard')
  BY <1>1, <1>2, <1>3, HearingVerdict
<1> QED
  BY <1>1, <1>4, EmptyInSeq DEF WireInv, Consistent, Stage, Turns

\* A step in which nothing changes.
LEMMA WireStutter ==
  ASSUME WireInv, UNCHANGED wireVars
  PROVE  WireInv'
BY DEF WireInv, wireVars

\* Before either conversation nothing has been said.
LEMMA WireStarts ==
  ASSUME WireInit
  PROVE  WireInv
<1>1. DOMAIN said = {} /\ DOMAIN heard = {} /\ wire = <<>> /\ turn \in {"start", "login"}
  BY DEF WireInit
<1>2. Understood(said, heard) /\ AtStart(wire, said, heard)
  BY <1>1 DEF Understood, AtStart, UpTo
<1> QED
  BY <1>1, <1>2, EmptyInSeq DEF WireInv, Consistent, Stage, Turns

\* Every step keeps the invariant.
LEMMA WireSteps ==
  ASSUME WireInv, [WireNext]_wireVars
  PROVE  WireInv'
<1>1. CASE GreetGameServer \/ SendKey \/ HandleBlowFishKey \/ SendRegistration \/ HandleRegistration \/ ReadAnswer
  BY <1>1, GreetGameServerStep, SendKeyStep, HandleBlowFishKeyStep, SendRegistrationStep, HandleRegistrationStep,
     ReadAnswerStep, Zenon
<1>2. CASE ReportOnline \/ ReportStatus \/ ReportLeft \/ HandleReport
  BY <1>2, ReportOnlineStep, ReportStatusStep, ReportLeftStep, HandleReportStep, Zenon
<1>3. CASE GreetClient \/ AnswerGreeting \/ HandleGameGuard \/ SendCredentials \/ HandleCredentials \/ ReadLoginAnswer
  BY <1>3, GreetClientStep, AnswerGreetingStep, HandleGameGuardStep, SendCredentialsStep, HandleCredentialsStep,
     ReadLoginAnswerStep, Zenon
<1>4. CASE RequestList \/ ChooseServer \/ HandleChoice \/ ReadPlayAnswer
  BY <1>4, RequestListStep, ChooseServerStep, HandleChoiceStep, ReadPlayAnswerStep, Zenon
<1>5. CASE GreetPlayer \/ SendVersion \/ HandleVersion \/ Enter \/ HandleEnter
  BY <1>5, GreetPlayerStep, SendVersionStep, HandleVersionStep, EnterStep, HandleEnterStep, Zenon
<1>6. CASE Ask \/ HandleRequest \/ ReadVerdict
  BY <1>6, AskStep, HandleRequestStep, ReadVerdictStep, Zenon
<1>7. CASE Done \/ UNCHANGED wireVars
  BY <1>7, WireStutter, Zenon DEF Done
<1> QED
  BY <1>1, <1>2, <1>3, <1>4, <1>5, <1>6, <1>7, Zenon DEF WireNext

\* What the invariant says of the conversations.
LEMMA WireInvImplies ==
  ASSUME WireInv
  PROVE  EachUnderstands
<1>1. turn \in Turns /\ wire \in Seq(Byte) /\ Understood(said, heard)
  BY DEF WireInv, Consistent
<1>2. WireTypeOK
  BY <1>1 DEF WireTypeOK, Understood
<1>3. KeysAgree /\ RegistrationAgrees
  BY <1>1 DEF KeysAgree, RegistrationAgrees, Agree, Understood, Exact, SameRegistration
<1>4. NoOtherPlayer
  BY <1>1 DEF NoOtherPlayer, Understood, NotOfOthers
<1>5. KeyComesBack
  <2>1. "verdict" \in DOMAIN heard => heard["verdict"] = said["verdict"]
    BY <1>1 DEF Understood, Exact
  <2>2. Agree({"ticket", "request", "verdict"})
    BY <1>1 DEF Agree, Understood, Exact
  <2> QED
    BY <1>1, <2>2 DEF KeyComesBack, Understood
<1>6. CutBodyNeverMisread
  <2>1. Body \in Seq(Byte)
    <3>1. ASSUME NEW i \in 2 .. Len(wire)
          PROVE  wire[i] \in Byte
      BY <1>1, ElementsOfSeq
    <3>2. Len(wire) \in Int /\ 2 \in Int
      BY <1>1
    <3> QED
      BY <3>1, <3>2, SubSeqProperties DEF Body
  <2> QED
    BY <1>1, <2>1, WireCutNeverMisread
<1> QED
  BY <1>2, <1>3, <1>4, <1>5, <1>6 DEF EachUnderstands

\* In both conversations, whatever keys, registrations, reported players, ASCII names and
\* passwords, lists of servers and states of a client there are: keys, answers and session
\* keys arrive as they were sent, a registration with the sixteen bits of its port and its
\* limit, no report is taken for one about another player, and no prefix of a packet for
\* another packet (gslistener/handler.go, login/handler.go and gameserver/handler.go
\* against testutil/gsclient.go, client.go and gameclient.go).
THEOREM WireTheorem == WireSpec => []EachUnderstands
<1>1. WireInit => WireInv
  BY WireStarts
<1>2. WireInv /\ [WireNext]_wireVars => WireInv'
  BY WireSteps
<1>3. WireInv => EachUnderstands
  BY WireInvImplies
<1> QED
  BY <1>1, <1>2, <1>3, PTL DEF WireSpec
=============================================================================
