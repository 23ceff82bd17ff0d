---------------------------- MODULE PacketProofs ----------------------------
(***************************************************************************)
(* Proofs about FrameSizes and Framing, for any payloads, buffer lengths    *)
(* and keys and any width of a byte, and about Codec and CodecStream, for   *)
(* any values the writer takes.  From the bottom up: induction and          *)
(* recursion up to a bound; words and their bytes; words in a buffer; the   *)
(* checksum sums to zero; the pass over a first packet is undone; sizes     *)
(* fit; each writer makes a frame that its reader accepts.  On top of these *)
(* the inductive invariant FramingInv: what is in flight is a frame for     *)
(* each payload on its way, under the key its reader will use.              *)
(*                                                                         *)
(* Then what is in a payload: the bytes of each type and the number they    *)
(* spell; the units of a string and the characters read from them; what one *)
(* read makes of one write, whole or cut; and CodecInv: the values of a     *)
(* packet lie in it one behind the other.                                   *)
(*                                                                         *)
(* Last, Rsa, for any size of a block and any primes a key may be made of:  *)
(* congruences and powers, Fermat's little theorem from the binomial one,   *)
(* the exponent by squaring, the two ways of undoing it, the digits of a    *)
(* number; and RsaInv: what is on the wire was made with the server's key   *)
(* from a number below its modulus.                                         *)
(***************************************************************************)
EXTENDS Framing, CodecStream, Rsa, SequenceTheorems, WellFoundedInduction, TLAPS

-----------------------------------------------------------------------------
(* Induction and recursion up to a bound.                                   *)

LEMMA LeastExists ==
  ASSUME NEW S \in SUBSET Nat, S # {}
  PROVE  \E m \in S : \A n \in S : m <= n
<1>1. IsWellFoundedOn(OpToRel(<, Nat), Nat)
  BY NatLessThanWellFounded, Zenon
<1>2. PICK m \in S : \A n \in S : ~ (<<n, m>> \in OpToRel(<, Nat))
  BY <1>1, WFMin, Zenon
<1>3. \A n \in S : ~ (n < m)
  BY <1>2, Zenon DEF OpToRel
<1> QED
  BY <1>3

\* A set that has 0, and with every number below n the next one, has all up to n.
LEMMA AllUpTo ==
  ASSUME NEW n \in Nat, NEW Good, 0 \in Good,
         \A j \in 0 .. (n - 1) : j \in Good => j + 1 \in Good
  PROVE  \A j \in 0 .. n : j \in Good
<1> DEFINE Bad == {j \in 0 .. n : j \notin Good}
<1> SUFFICES ASSUME Bad # {} PROVE FALSE
  OBVIOUS
<1>1. Bad \in SUBSET Nat
  OBVIOUS
<1>2. PICK m \in Bad : \A j \in Bad : m <= j
  BY <1>1, LeastExists
<1>3. m \in 1 .. n /\ m - 1 \in 0 .. (n - 1)
  BY <1>2
<1>4. m - 1 \in Good
  BY <1>2, <1>3
<1>5. (m - 1) + 1 \in Good
  BY <1>3, <1>4
<1> QED
  BY <1>2, <1>3, <1>5

\* f is defined from its value at the number before.
Recursive(f, n, base, step) == f[0] = base /\ \A j \in 1 .. n : f[j] = step[<<j, f[j - 1]>>]

\* There is such a function up to any bound.
LEMMA RecursionUpTo ==
  ASSUME NEW n \in Nat, NEW S, NEW base \in S, NEW step \in [(1 .. n) \X S -> S]
  PROVE  \E f \in [0 .. n -> S] : Recursive(f, n, base, step)
<1> DEFINE Defined(f, m) == Recursive(f, m, base, step)
           Good == {m \in 0 .. n : \E f \in [0 .. m -> S] : Defined(f, m)}
<1> USE DEF Recursive
<1>1. 0 \in Good
  <2>1. [j \in 0 .. 0 |-> base] \in [0 .. 0 -> S] /\ [j \in 0 .. 0 |-> base][0] = base
    OBVIOUS
  <2>2. Defined([j \in 0 .. 0 |-> base], 0)
    BY <2>1
  <2>3. 0 \in 0 .. n
    OBVIOUS
  <2> HIDE DEF Defined
  <2> QED
    BY <2>1, <2>2, <2>3
<1>2. ASSUME NEW m \in 0 .. (n - 1), m \in Good PROVE m + 1 \in Good
  <2>1. PICK f \in [0 .. m -> S] : Defined(f, m)
    BY <1>2
  <2> DEFINE last == step[<<m + 1, f[m]>>]
             g    == [j \in 0 .. (m + 1) |-> IF j = m + 1 THEN last ELSE f[j]]
  <2>2. f[m] \in S /\ m + 1 \in 1 .. n
    OBVIOUS
  <2>3. last \in S
    BY <2>2
  <2>4. g \in [0 .. (m + 1) -> S]
    BY <2>3
  <2>5. g[0] = base
    BY <2>1
  <2>6. ASSUME NEW j \in 1 .. (m + 1) PROVE g[j] = step[<<j, g[j - 1]>>]
    <3>1. g[j - 1] = f[j - 1]
      OBVIOUS
    <3>2. CASE j = m + 1
      <4>1. j - 1 = m /\ g[j] = last
        BY <3>2
      <4> QED
        BY <3>1, <3>2, <4>1
    <3>3. CASE j # m + 1
      <4>1. j \in 1 .. m
        BY <3>3
      <4> QED
        BY <2>1, <3>1, <4>1
    <3> QED
      BY <3>2, <3>3
  <2>7. Defined(g, m + 1)
    BY <2>5, <2>6
  <2>8. m + 1 \in 0 .. n
    OBVIOUS
  <2> HIDE DEF Defined, g
  <2> QED
    BY <2>4, <2>7, <2>8
<1> HIDE DEF Good
<1>3. n \in Good
  BY <1>1, <1>2, AllUpTo
<1> QED
  BY <1>3 DEF Good

-----------------------------------------------------------------------------
(* Words and bytes.                                                         *)

LEMMA BaseIsNat == Base \in Nat /\ Base >= 2 /\ Symbols \subseteq Nat /\ 0 \in Symbols
BY BaseAssumption DEF Symbols

\* A quotient is below any bound that the number is below Base times.
LEMMA QuotientBelow ==
  ASSUME NEW w \in Nat, NEW bound \in Nat, w < Base * bound
  PROVE  /\ w \div Base \in Nat /\ w \div Base < bound
         /\ w % Base \in Symbols /\ w = (w % Base) + Base * (w \div Base)
<1> DEFINE q == w \div Base
           r == w % Base
<1>1. q \in Nat /\ r \in 0 .. (Base - 1) /\ w = r + Base * q
  BY BaseIsNat
<1> HIDE DEF q, r
<1>2. q < bound
  <2> SUFFICES ASSUME q >= bound PROVE FALSE
    BY <1>1
  <2>1. Base * q >= Base * bound
    BY <1>1, BaseIsNat
  <2>2. Base * q \in Nat /\ Base * bound \in Nat
    BY <1>1, BaseIsNat
  <2> QED
    BY <1>1, <2>1, <2>2
<1> QED
  BY <1>1, <1>2 DEF q, r, Symbols

\* A number below Base and a multiple of Base are what % and \div take apart.
LEMMA LowByte ==
  ASSUME NEW b \in Symbols, NEW rest \in Nat
  PROVE  (b + Base * rest) % Base = b /\ (b + Base * rest) \div Base = rest
<1> DEFINE w == b + Base * rest
           q == w \div Base
           r == w % Base
<1>1. w \in Nat /\ Base * rest \in Nat
  BY BaseIsNat
<1>2. q \in Nat /\ r \in 0 .. (Base - 1) /\ w = r + Base * q
  BY <1>1, BaseIsNat
<1>3. b \in 0 .. (Base - 1)
  BY DEF Symbols
<1> HIDE DEF q, r
<1>4. r + Base * q = b + Base * rest
  BY <1>2
<1>5. q = rest
  <2>1. CASE q < rest
    <3>1. Base * (q + 1) <= Base * rest
      BY <1>2, <2>1, BaseIsNat
    <3>2. Base * (q + 1) = Base * q + Base
      BY <1>2, BaseIsNat
    <3> QED
      BY <1>1, <1>2, <1>3, <1>4, <3>1, <3>2, BaseIsNat
  <2>2. CASE q > rest
    <3>1. Base * (rest + 1) <= Base * q
      BY <1>2, <2>2, BaseIsNat
    <3>2. Base * (rest + 1) = Base * rest + Base
      BY BaseIsNat
    <3> QED
      BY <1>1, <1>2, <1>3, <1>4, <3>1, <3>2, BaseIsNat
  <2> QED
    BY <1>2, <2>1, <2>2
<1>6. r = b
  BY <1>1, <1>2, <1>3, <1>4, <1>5, BaseIsNat
<1> QED
  BY <1>5, <1>6 DEF q, r

\* The bytes of a word make the word.
LEMMA BytesOfWord ==
  ASSUME NEW w \in Words
  PROVE  /\ \A d \in 1 .. 4 : BytesOf(w)[d] \in Symbols
         /\ BytesOf(w)[1] + Base * (BytesOf(w)[2] + Base * (BytesOf(w)[3] + Base * BytesOf(w)[4])) = w
<1> DEFINE second == w \div Base
           third  == second \div Base
           fourth == third \div Base
<1>1. Base * Base \in Nat /\ Base * (Base * Base) \in Nat
  BY BaseIsNat
<1>2. WordValues = Base * (Base * (Base * Base)) /\ WordValues \in Nat
  BY BaseIsNat, <1>1 DEF WordValues
<1>3. w \in Nat /\ w < Base * (Base * (Base * Base))
  BY <1>2 DEF Words
<1>4. /\ second \in Nat /\ second < Base * (Base * Base)
      /\ w % Base \in Symbols /\ w = (w % Base) + Base * second
  BY <1>1, <1>3, QuotientBelow
<1>5. /\ third \in Nat /\ third < Base * Base
      /\ second % Base \in Symbols /\ second = (second % Base) + Base * third
  BY <1>1, <1>4, QuotientBelow
<1>6. /\ fourth \in Nat /\ fourth < Base
      /\ third % Base \in Symbols /\ third = (third % Base) + Base * fourth
  BY <1>5, BaseIsNat, QuotientBelow
<1>7. fourth \in Symbols /\ fourth % Base = fourth
  <2>1. fourth \in Symbols
    BY <1>6, BaseIsNat DEF Symbols
  <2>2. (fourth + Base * 0) % Base = fourth /\ fourth + Base * 0 = fourth
    BY <1>6, <2>1, BaseIsNat, LowByte
  <2> QED
    BY <2>1, <2>2
<1>8. BytesOf(w) = <<w % Base, second % Base, third % Base, fourth % Base>>
  BY DEF BytesOf
<1> HIDE DEF second, third, fourth
<1>9. /\ BytesOf(w)[1] = w % Base /\ BytesOf(w)[2] = second % Base
      /\ BytesOf(w)[3] = third % Base /\ BytesOf(w)[4] = fourth
  BY <1>7, <1>8
<1> QED
  BY <1>4, <1>5, <1>6, <1>7, <1>9

\* Four bytes make a word, and are the bytes of it.
LEMMA WordOfBytes ==
  ASSUME NEW b1 \in Symbols, NEW b2 \in Symbols, NEW b3 \in Symbols, NEW b4 \in Symbols
  PROVE  LET w == b1 + Base * (b2 + Base * (b3 + Base * b4)) IN
         w \in Words /\ BytesOf(w) = <<b1, b2, b3, b4>>
<1> DEFINE z == b3 + Base * b4
           y == b2 + Base * z
           w == b1 + Base * y
<1>1. z \in Nat /\ z < Base * Base
  <2>1. Base * b4 \in Nat /\ Base * b4 <= Base * (Base - 1) /\ Base * (Base - 1) = Base * Base - Base
    BY BaseIsNat DEF Symbols
  <2>2. b3 \in Nat /\ b3 < Base /\ Base * Base \in Nat
    BY BaseIsNat DEF Symbols
  <2> QED
    BY <2>1, <2>2, BaseIsNat
<1>2. b4 \in Nat
  BY BaseIsNat
<1>3. z % Base = b3 /\ z \div Base = b4
  BY <1>2, LowByte
<1>4. b4 % Base = b4
  <2>1. (b4 + Base * 0) % Base = b4 /\ b4 + Base * 0 = b4
    BY BaseIsNat, LowByte
  <2> QED
    BY <2>1
<1> HIDE DEF z
<1>5. y \in Nat /\ y < Base * (Base * Base)
  <2>1. Base * Base \in Nat
    BY BaseIsNat
  <2>2. Base * z \in Nat /\ Base * z <= Base * (Base * Base - 1)
    BY <1>1, <2>1, BaseIsNat
  <2>3. Base * (Base * Base - 1) = Base * (Base * Base) - Base /\ Base * (Base * Base) \in Nat
    BY <2>1, BaseIsNat
  <2>4. b2 \in Nat /\ b2 < Base
    BY BaseIsNat DEF Symbols
  <2> QED
    BY <2>2, <2>3, <2>4, BaseIsNat
<1>6. y % Base = b2 /\ y \div Base = z
  BY <1>1, LowByte
<1> HIDE DEF y
<1>7. w \in Nat /\ w < WordValues /\ WordValues \in Nat
  <2>1. Base * Base \in Nat /\ Base * (Base * Base) \in Nat
    BY BaseIsNat
  <2>2. Base * y \in Nat /\ Base * y <= Base * (Base * (Base * Base) - 1)
    BY <1>5, <2>1, BaseIsNat
  <2>3. /\ Base * (Base * (Base * Base) - 1) = Base * (Base * (Base * Base)) - Base
        /\ WordValues = Base * (Base * (Base * Base))
        /\ WordValues \in Nat
    BY <2>1, BaseIsNat DEF WordValues
  <2>4. b1 \in Nat /\ b1 < Base
    BY BaseIsNat DEF Symbols
  <2> QED
    BY <2>2, <2>3, <2>4, BaseIsNat
<1>8. w % Base = b1 /\ w \div Base = y
  BY <1>5, LowByte
<1>9. BytesOf(w) = <<b1, b2, b3, b4>>
  BY <1>3, <1>4, <1>6, <1>8 DEF BytesOf
<1>10. w = b1 + Base * (b2 + Base * (b3 + Base * b4))
  BY DEF y, z
<1>11. w \in Words
  BY <1>7, BaseIsNat DEF Words
<1> HIDE DEF w
<1> QED
  BY <1>9, <1>10, <1>11

-----------------------------------------------------------------------------
(* Words in a buffer.                                                       *)

LEMMA WordsAreNats == WordValues \in Nat /\ WordValues >= 2 /\ 0 \in Words /\ Words \subseteq Nat
<1>1. Base * Base \in Nat /\ Base * Base >= 2
  BY BaseIsNat
<1>2. Base * Base * Base \in Nat /\ Base * Base * Base >= 2
  BY <1>1, BaseIsNat
<1>3. WordValues \in Nat /\ WordValues >= 2
  BY <1>2, BaseIsNat DEF WordValues
<1> QED
  BY <1>3 DEF Words

LEMMA WordInBuffer ==
  ASSUME NEW n \in Nat, NEW b \in [1 .. n -> Symbols], NEW i \in Nat, i + 4 <= n
  PROVE  /\ WordAt(b, i) \in Words
         /\ \A d \in 1 .. 4 : BytesOf(WordAt(b, i))[d] = b[i + d]
<1>1. /\ b[i + 1] \in Symbols /\ b[i + 2] \in Symbols
      /\ b[i + 3] \in Symbols /\ b[i + 4] \in Symbols
  OBVIOUS
<1>2. /\ WordAt(b, i) \in Words
      /\ BytesOf(WordAt(b, i)) = <<b[i + 1], b[i + 2], b[i + 3], b[i + 4]>>
  BY <1>1, WordOfBytes DEF WordAt
<1>3. ASSUME NEW d \in 1 .. 4
      PROVE  <<b[i + 1], b[i + 2], b[i + 3], b[i + 4]>>[d] = b[i + d]
  <2>1. d = 1 \/ d = 2 \/ d = 3 \/ d = 4
    OBVIOUS
  <2> QED
    BY <2>1
<1> QED
  BY <1>2, <1>3

\* The count bytes of b behind i are those of c behind k.
SameBytes(b, i, c, k, count) == \A d \in 1 .. count : b[i + d] = c[k + d]

LEMMA SameWord ==
  ASSUME NEW b, NEW c, NEW i \in Nat, NEW k \in Nat, SameBytes(b, i, c, k, 4)
  PROVE  WordAt(b, i) = WordAt(c, k)
<1> USE DEF SameBytes
<1>1. b[i + 1] = c[k + 1] /\ b[i + 2] = c[k + 2] /\ b[i + 3] = c[k + 3] /\ b[i + 4] = c[k + 4]
  OBVIOUS
<1> QED
  BY <1>1 DEF WordAt

\* Words to write, and c, what writing them makes of b, byte by byte.
AreWords(words) == DOMAIN words \subseteq Nat /\ \A j \in DOMAIN words : words[j] \in Words

HasWords(c, b, n, off, words) ==
  /\ c \in [1 .. n -> Symbols]
  /\ \A j \in Nat, d \in 1 .. 4 :
       off + 4 * j + d <= n =>
         c[off + 4 * j + d] = IF j \in DOMAIN words THEN BytesOf(words[j])[d]
                              ELSE b[off + 4 * j + d]
  /\ \A k \in 1 .. n : k <= off => c[k] = b[k]

LEMMA PutWordsBytes ==
  ASSUME NEW n \in Nat, NEW b \in [1 .. n -> Symbols], NEW off \in Nat,
         NEW words, AreWords(words)
  PROVE  HasWords(PutWords(b, off, words), b, n, off, words)
<1> USE DEF AreWords
<1> DEFINE c == PutWords(b, off, words)
           NewByte(k) == LET at == k - 1 - off IN
             IF at \div 4 \in DOMAIN words THEN BytesOf(words[at \div 4])[(at % 4) + 1] ELSE b[k]
<1>1. c = [k \in 1 .. n |-> NewByte(k)]
  BY DEF PutWords
<1>2. ASSUME NEW k \in 1 .. n PROVE NewByte(k) \in Symbols
  <2> DEFINE at == k - 1 - off
  <2>1. (at % 4) + 1 \in 1 .. 4
    OBVIOUS
  <2>2. at \div 4 \in DOMAIN words => BytesOf(words[at \div 4])[(at % 4) + 1] \in Symbols
    BY <2>1, BytesOfWord
  <2> QED
    BY <2>2
<1>3. c \in [1 .. n -> Symbols]
  BY <1>1, <1>2
<1>4. ASSUME NEW j \in Nat, NEW d \in 1 .. 4, off + 4 * j + d <= n
      PROVE  c[off + 4 * j + d] = IF j \in DOMAIN words THEN BytesOf(words[j])[d]
                                  ELSE b[off + 4 * j + d]
  <2> DEFINE k == off + 4 * j + d
  <2>1. k \in 1 .. n /\ (k - 1 - off) \div 4 = j /\ ((k - 1 - off) % 4) + 1 = d
    BY <1>4
  <2>2. c[k] = NewByte(k)
    BY <1>1, <2>1
  <2> HIDE DEF k
  <2>3. NewByte(k) = IF j \in DOMAIN words THEN BytesOf(words[j])[d] ELSE b[k]
    BY <2>1
  <2> QED
    BY <2>2, <2>3 DEF k
<1>5. ASSUME NEW k \in 1 .. n, k <= off PROVE c[k] = b[k]
  <2>1. (k - 1 - off) \div 4 \notin Nat
    BY <1>5
  <2>2. NewByte(k) = b[k]
    BY <2>1
  <2> QED
    BY <1>1, <2>2
<1> HIDE DEF c
<1> QED
  BY <1>3, <1>4, <1>5 DEF HasWords, c

\* PutWords word by word.
HoldsWords(c, b, n, off, words) ==
  \A j \in Nat :
    off + 4 * j + 4 <= n =>
      WordAt(c, off + 4 * j) = IF j \in DOMAIN words THEN words[j] ELSE WordAt(b, off + 4 * j)

LEMMA PutWordsWords ==
  ASSUME NEW n \in Nat, NEW b \in [1 .. n -> Symbols], NEW off \in Nat,
         NEW words, AreWords(words)
  PROVE  HoldsWords(PutWords(b, off, words), b, n, off, words)
<1> SUFFICES ASSUME NEW j \in Nat, off + 4 * j + 4 <= n
             PROVE  WordAt(PutWords(b, off, words), off + 4 * j) =
                      IF j \in DOMAIN words THEN words[j] ELSE WordAt(b, off + 4 * j)
  BY DEF HoldsWords
<1> DEFINE c == PutWords(b, off, words)
           i == off + 4 * j
<1>0. HasWords(c, b, n, off, words)
  BY PutWordsBytes
<1> HIDE DEF c
<1>1. \A d \in 1 .. 4 : c[i + d] = IF j \in DOMAIN words THEN BytesOf(words[j])[d] ELSE b[i + d]
  <2> SUFFICES ASSUME NEW d \in 1 .. 4
               PROVE  c[i + d] = IF j \in DOMAIN words THEN BytesOf(words[j])[d] ELSE b[i + d]
    OBVIOUS
  <2>1. off + 4 * j + d <= n
    OBVIOUS
  <2> QED
    BY <1>0, <2>1 DEF HasWords
<1>2. CASE j \in DOMAIN words
  <2> USE DEF AreWords
  <2>1. /\ c[i + 1] = BytesOf(words[j])[1] /\ c[i + 2] = BytesOf(words[j])[2]
        /\ c[i + 3] = BytesOf(words[j])[3] /\ c[i + 4] = BytesOf(words[j])[4]
    BY <1>1, <1>2
  <2>2. WordAt(c, i) = words[j]
    BY <1>2, <2>1, BytesOfWord DEF WordAt
  <2> QED
    BY <1>2, <2>2 DEF c
<1>3. CASE j \notin DOMAIN words
  <2>1. i \in Nat /\ SameBytes(c, i, b, i, 4)
    BY <1>1, <1>3 DEF SameBytes
  <2>2. WordAt(c, i) = WordAt(b, i)
    BY <2>1, SameWord
  <2> QED
    BY <1>3, <2>2 DEF c
<1> QED
  BY <1>2, <1>3

-----------------------------------------------------------------------------
(* The sum.                                                                 *)

\* The count words of b behind off are words.
Readable(b, off, count) == \A j \in 0 .. (count - 1) : WordAt(b, off + 4 * j) \in Words

AreSums(sum, b, off, count) ==
  /\ sum \in [0 .. count -> Words] /\ sum[0] = 0
  /\ \A j \in 1 .. count : sum[j] = XorOf(sum[j - 1], WordAt(b, off + 4 * (j - 1)))

LEMMA SumsStep ==
  ASSUME NEW b, NEW off \in Nat, NEW count \in Nat, Readable(b, off, count)
  PROVE  AreSums(SumsOf(b, off, count), b, off, count)
<1> USE DEF Readable
<1> DEFINE step == [ja \in (1 .. count) \X Words |-> XorOf(ja[2], WordAt(b, off + 4 * (ja[1] - 1)))]
           Sum(f) == [j \in 0 .. count |->
                        IF j = 0 THEN 0 ELSE XorOf(f[j - 1], WordAt(b, off + 4 * (j - 1)))]
           sum == SumsOf(b, off, count)
<1>1. step \in [(1 .. count) \X Words -> Words]
  <2> SUFFICES ASSUME NEW j \in 1 .. count, NEW a \in Words
               PROVE  XorOf(a, WordAt(b, off + 4 * (j - 1))) \in Words
    OBVIOUS
  <2>1. j - 1 \in 0 .. (count - 1)
    OBVIOUS
  <2> QED
    BY <2>1, XorAssumption
<1>2. PICK f \in [0 .. count -> Words] : Recursive(f, count, 0, step)
  <2> HIDE DEF step
  <2>1. 0 \in Words
    BY WordsAreNats
  <2> QED
    BY <1>1, <2>1, RecursionUpTo
<1>3. \A j \in 1 .. count : f[j] = XorOf(f[j - 1], WordAt(b, off + 4 * (j - 1)))
  <2> SUFFICES ASSUME NEW j \in 1 .. count
               PROVE  f[j] = XorOf(f[j - 1], WordAt(b, off + 4 * (j - 1)))
    OBVIOUS
  <2>1. f[j - 1] \in Words
    OBVIOUS
  <2>2. step[<<j, f[j - 1]>>] = XorOf(f[j - 1], WordAt(b, off + 4 * (j - 1)))
    BY <2>1
  <2> QED
    BY <1>2, <2>2 DEF Recursive
<1>4. f = Sum(f)
  BY <1>2, <1>3 DEF Recursive
<1>5. sum = CHOOSE g : g = Sum(g)
  BY DEF SumsOf
<1>6. sum = Sum(sum)
  <2> HIDE DEF Sum, sum
  <2> QED
    BY <1>4, <1>5
<1> HIDE DEF sum
<1>7. sum[0] = 0 /\ \A j \in 1 .. count : sum[j] = XorOf(sum[j - 1], WordAt(b, off + 4 * (j - 1)))
  BY <1>6
<1>8. DOMAIN sum = 0 .. count /\ sum = [j \in 0 .. count |-> sum[j]]
  BY <1>6
<1>9. \A j \in 0 .. count : sum[j] \in Words
  <2> DEFINE Good == {j \in 0 .. count : sum[j] \in Words}
  <2>1. 0 \in Good
    BY <1>7, WordsAreNats
  <2>2. ASSUME NEW j \in 0 .. (count - 1), j \in Good PROVE j + 1 \in Good
    <3>1. j + 1 \in 1 .. count /\ (j + 1) - 1 = j
      OBVIOUS
    <3>2. sum[j + 1] = XorOf(sum[j], WordAt(b, off + 4 * j))
      BY <1>7, <3>1
    <3>3. sum[j + 1] \in Words
      BY <2>2, <3>2, XorAssumption
    <3> QED
      BY <3>1, <3>3
  <2> HIDE DEF Good
  <2>3. \A j \in 0 .. count : j \in Good
    BY <2>1, <2>2, AllUpTo
  <2> QED
    BY <2>3 DEF Good
<1>10. sum \in [0 .. count -> Words]
  BY <1>8, <1>9
<1> QED
  BY <1>7, <1>10 DEF sum, AreSums

SameWords(b, off, c, at, count) ==
  \A j \in 0 .. (count - 1) : WordAt(b, off + 4 * j) = WordAt(c, at + 4 * j)

\* The same words have the same sum, however far the sums go on.
LEMMA SameSum ==
  ASSUME NEW b, NEW c, NEW off \in Nat, NEW at \in Nat, NEW count \in Nat, NEW more \in Nat,
         NEW s, NEW t, AreSums(s, b, off, count), AreSums(t, c, at, more),
         count <= more, SameWords(b, off, c, at, count)
  PROVE  s[count] = t[count]
<1> DEFINE Good == {j \in 0 .. count : s[j] = t[j]}
<1>1. /\ s[0] = 0
      /\ \A j \in 1 .. count : s[j] = XorOf(s[j - 1], WordAt(b, off + 4 * (j - 1)))
  BY DEF AreSums
<1>2. /\ t[0] = 0
      /\ \A j \in 1 .. more : t[j] = XorOf(t[j - 1], WordAt(c, at + 4 * (j - 1)))
  BY DEF AreSums
<1>3. 0 \in Good
  BY <1>1, <1>2
<1>4. ASSUME NEW j \in 0 .. (count - 1), j \in Good PROVE j + 1 \in Good
  <2>0. WordAt(b, off + 4 * j) = WordAt(c, at + 4 * j)
    BY DEF SameWords
  <2>1. j + 1 \in 1 .. count /\ j + 1 \in 1 .. more /\ (j + 1) - 1 = j /\ j + 1 \in 0 .. count
    OBVIOUS
  <2>2. s[j + 1] = XorOf(s[j], WordAt(b, off + 4 * j))
    BY <1>1, <2>1
  <2>3. t[j + 1] = XorOf(t[j], WordAt(c, at + 4 * j))
    BY <1>2, <2>1
  <2> QED
    BY <1>4, <2>0, <2>1, <2>2, <2>3
<1> HIDE DEF Good
<1>5. \A j \in 0 .. count : j \in Good
  BY <1>3, <1>4, AllUpTo
<1> QED
  BY <1>5 DEF Good

\* What the checksum puts behind the bytes it is of.
LEMMA AppendsSum ==
  ASSUME NEW n \in Nat, NEW b \in [1 .. n -> Symbols], NEW off \in Nat,
         NEW size \in Nat, size % 4 = 0, size >= 8, off + size <= n
  PROVE  LET last == size \div 4 - 1
             word == [j \in {last} |-> SumsOf(b, off, last)[last]]
         IN  /\ SumsOf(b, off, last)[last] \in Words /\ AreWords(word)
             /\ AppendChecksum(b, off, size) = PutWords(b, off, word)
             /\ AppendChecksum(b, off, size) \in [1 .. n -> Symbols]
<1> DEFINE last == size \div 4 - 1
           sum  == SumsOf(b, off, last)
           word == [j \in {last} |-> sum[last]]
<1>1. last \in Nat /\ size = 4 * last + 4 /\ (size - 4) \div 4 = last
  OBVIOUS
<1>2. AppendChecksum(b, off, size) = PutWords(b, off, word)
  BY <1>1 DEF AppendChecksum, SumOf
<1> HIDE DEF last
<1>3. Readable(b, off, last)
  <2> SUFFICES ASSUME NEW j \in 0 .. (last - 1) PROVE WordAt(b, off + 4 * j) \in Words
    BY DEF Readable
  <2>1. off + 4 * j \in Nat /\ off + 4 * j + 4 <= n
    BY <1>1
  <2> QED
    BY <2>1, WordInBuffer
<1>4. sum[last] \in Words
  <2>1. AreSums(sum, b, off, last)
    BY <1>1, <1>3, SumsStep
  <2> QED
    BY <1>1, <2>1 DEF AreSums
<1> HIDE DEF sum
<1>5. AreWords(word)
  BY <1>1, <1>4 DEF AreWords
<1> HIDE DEF word
<1>6. HasWords(PutWords(b, off, word), b, n, off, word)
  BY <1>5, PutWordsBytes
<1> QED
  BY <1>2, <1>4, <1>5, <1>6 DEF HasWords, word, sum, last

\* The bytes behind off that a checksum was appended to have the sum zero, and all
\* but the last word as they were.
LEMMA ChecksumVerifies ==
  ASSUME NEW n \in Nat, NEW b \in [1 .. n -> Symbols], NEW off \in Nat,
         NEW size \in Nat, size % 4 = 0, size >= 8, off + size <= n,
         NEW data \in [1 .. size -> Symbols],
         SameBytes(data, 0, AppendChecksum(b, off, size), off, size)
  PROVE  /\ SumOf(data, 0, size) = 0
         /\ SameBytes(data, 0, b, off, size - 4)
<1> DEFINE last == size \div 4 - 1
           sum  == SumsOf(b, off, last)
           c    == AppendChecksum(b, off, size)
           word == [j \in {last} |-> sum[last]]
<1>1. last \in Nat /\ size = 4 * last + 4 /\ size \div 4 = last + 1 /\ (size - 4) \div 4 = last
  OBVIOUS
<1>3. sum[last] \in Words
  BY AppendsSum
<1>4. c = PutWords(b, off, word)
  BY <1>1 DEF AppendChecksum, SumOf
<1> HIDE DEF last
<1>2. \A j \in 0 .. last : /\ WordAt(b, off + 4 * j) \in Words
                           /\ WordAt(data, 0 + 4 * j) \in Words
  <2> SUFFICES ASSUME NEW j \in 0 .. last
               PROVE  /\ WordAt(b, off + 4 * j) \in Words
                      /\ WordAt(data, 0 + 4 * j) \in Words
    OBVIOUS
  <2>1. off + 4 * j \in Nat /\ off + 4 * j + 4 <= n
    BY <1>1
  <2>2. 0 + 4 * j \in Nat /\ 0 + 4 * j + 4 <= size
    BY <1>1
  <2> QED
    BY <2>1, <2>2, WordInBuffer
<1> HIDE DEF c
<1>5. DOMAIN word = {last} /\ AreWords(word) /\ word[last] = sum[last]
  BY <1>1, <1>3 DEF AreWords
<1> HIDE DEF word
<1>6. HasWords(c, b, n, off, word)
  BY <1>4, <1>5, PutWordsBytes
<1>7. /\ c \in [1 .. n -> Symbols]
      /\ \A j \in Nat, d \in 1 .. 4 :
           off + 4 * j + d <= n /\ j # last => c[off + 4 * j + d] = b[off + 4 * j + d]
  BY <1>5, <1>6 DEF HasWords
<1>8. \A j \in 0 .. last :
        WordAt(c, off + 4 * j) = IF j = last THEN sum[last] ELSE WordAt(b, off + 4 * j)
  <2> SUFFICES ASSUME NEW j \in 0 .. last
               PROVE  WordAt(c, off + 4 * j) =
                        IF j = last THEN sum[last] ELSE WordAt(b, off + 4 * j)
    OBVIOUS
  <2>1. j \in Nat /\ off + 4 * j + 4 <= n
    BY <1>1
  <2>2. WordAt(c, off + 4 * j) = IF j \in DOMAIN word THEN word[j] ELSE WordAt(b, off + 4 * j)
    <3>1. HoldsWords(c, b, n, off, word)
      BY <1>4, <1>5, PutWordsWords
    <3> QED
      BY <2>1, <3>1 DEF HoldsWords
  <2> QED
    BY <1>5, <2>2
<1> HIDE DEF sum
<1>9. \A k \in 1 .. size : data[k] = c[off + k]
  BY DEF c, SameBytes
<1>10. \A j \in 0 .. last : WordAt(data, 0 + 4 * j) = WordAt(c, off + 4 * j)
  <2> SUFFICES ASSUME NEW j \in 0 .. last
               PROVE  WordAt(data, 0 + 4 * j) = WordAt(c, off + 4 * j)
    OBVIOUS
  <2> DEFINE i == 0 + 4 * j
             k == off + 4 * j
  <2>1. i \in Nat /\ k \in Nat /\ k = off + i /\ i + 4 <= size
    BY <1>1
  <2> HIDE DEF i, k
  <2>2. SameBytes(data, i, c, k, 4)
    <3> SUFFICES ASSUME NEW d \in 1 .. 4 PROVE data[i + d] = c[k + d]
      BY DEF SameBytes
    <3>1. i + d \in 1 .. size /\ off + (i + d) = k + d
      BY <2>1
    <3> QED
      BY <1>9, <3>1
  <2>3. WordAt(data, i) = WordAt(c, k)
    BY <2>1, <2>2, SameWord
  <2> QED
    BY <2>3 DEF i, k
<1>11. SumOf(data, 0, size) = 0
  <2> DEFINE all == last + 1
             t   == SumsOf(data, 0, all)
  <2>1. all \in Nat /\ last <= all /\ all - 1 = last /\ all \in 1 .. all /\ size \div 4 = all
    BY <1>1
  <2> HIDE DEF all
  <2>2. Readable(data, 0, all)
    BY <1>2, <2>1 DEF Readable
  <2>3. AreSums(t, data, 0, all)
    BY <2>1, <2>2, SumsStep
  <2>4. AreSums(sum, b, off, last) /\ SameWords(b, off, data, 0, last)
    <3>1. Readable(b, off, last)
      BY <1>1, <1>2 DEF Readable
    <3>2. SameWords(b, off, data, 0, last)
      BY <1>1, <1>8, <1>10 DEF SameWords
    <3> QED
      BY <1>1, <3>1, <3>2, SumsStep DEF sum
  <2> HIDE DEF t
  <2>9. sum[last] = t[last]
    BY <1>1, <2>1, <2>3, <2>4, SameSum
  <2>5. t[all] = XorOf(t[last], WordAt(data, 0 + 4 * last))
    BY <2>1, <2>3 DEF AreSums
  <2>6. WordAt(data, 0 + 4 * last) = sum[last]
    BY <1>1, <1>8, <1>10
  <2>7. t[all] = 0
    BY <1>3, <2>9, <2>5, <2>6, XorAssumption
  <2> QED
    BY <2>1, <2>7 DEF SumOf, t
<1>12. ASSUME NEW k \in 1 .. (size - 4) PROVE data[k] = b[off + k]
  <2> DEFINE j == (k - 1) \div 4
             d == ((k - 1) % 4) + 1
  <2>1. j \in Nat /\ d \in 1 .. 4 /\ off + 4 * j + d = off + k /\ j # last /\ off + k <= n
    BY <1>1
  <2> HIDE DEF j, d
  <2>2. c[off + k] = b[off + k]
    BY <1>7, <2>1
  <2> QED
    BY <1>9, <2>2
<1> QED
  BY <1>11, <1>12 DEF SameBytes

-----------------------------------------------------------------------------
(* The hidden words of a first packet.                                      *)

\* Words are added and taken away modulo WordValues.
LEMMA WordsAddUp ==
  ASSUME NEW a \in Words, NEW w \in Words
  PROVE  /\ (a + w) % WordValues \in Words
         /\ (a - w) % WordValues \in Words
         /\ (((a + w) % WordValues) - w) % WordValues = a
<1>1. a \in 0 .. (WordValues - 1) /\ w \in 0 .. (WordValues - 1) /\ WordValues \in Nat /\ WordValues >= 2
  BY WordsAreNats DEF Words
<1>2. (a + w) % WordValues \in 0 .. (WordValues - 1) /\ (a - w) % WordValues \in 0 .. (WordValues - 1)
  BY <1>1
<1>3. (a + w) % WordValues = IF a + w < WordValues THEN a + w ELSE a + w - WordValues
  BY <1>1
<1>4. (((a + w) % WordValues) - w) % WordValues = a
  <2>1. CASE a + w < WordValues
    <3>1. ((a + w) % WordValues) - w = a
      BY <1>1, <1>3, <2>1
    <3>2. a % WordValues = a
      BY <1>1
    <3> QED
      BY <3>1, <3>2
  <2>2. CASE a + w >= WordValues
    <3>1. ((a + w) % WordValues) - w = a - WordValues
      BY <1>1, <1>3, <2>2
    <3>2. (a - WordValues) % WordValues = a
      BY <1>1
    <3> QED
      BY <3>1, <3>2
  <2> QED
    BY <1>1, <2>1, <2>2
<1> QED
  BY <1>2, <1>4 DEF Words

AreGrown(ecx, b, off, size, key) ==
  /\ ecx \in [0 .. Hidden(size) -> Words] /\ ecx[0] = key
  /\ \A j \in 1 .. Hidden(size) : ecx[j] = (ecx[j - 1] + WordAt(b, off + 4 * j)) % WordValues

\* The words from the first hidden one to the last, and the one behind them.
Hideable(b, off, size) == \A j \in 1 .. (Hidden(size) + 1) : WordAt(b, off + 4 * j) \in Words

LEMMA GrowingStep ==
  ASSUME NEW b, NEW off \in Nat, NEW size \in Nat, size >= 12, NEW key \in Words,
         Hideable(b, off, size)
  PROVE  AreGrown(Growing(b, off, size, key), b, off, size, key)
<1> DEFINE count == Hidden(size)
           step  == [ja \in (1 .. count) \X Words |-> (ja[2] + WordAt(b, off + 4 * ja[1])) % WordValues]
           Ecx(f) == [j \in 0 .. count |-> IF j = 0 THEN key ELSE (f[j - 1] + WordAt(b, off + 4 * j)) % WordValues]
           ecx   == Growing(b, off, size, key)
<1>0. count \in Nat /\ size \div 4 = count + 3
  BY DEF Hidden
<1>1. key \in Words
  OBVIOUS
<1>2. \A j \in 1 .. count, a \in Words : (a + WordAt(b, off + 4 * j)) % WordValues \in Words
  <2> SUFFICES ASSUME NEW j \in 1 .. count, NEW a \in Words
               PROVE  (a + WordAt(b, off + 4 * j)) % WordValues \in Words
    OBVIOUS
  <2>1. j \in 1 .. (count + 1)
    BY <1>0
  <2>2. WordAt(b, off + 4 * j) \in Words
    BY <2>1 DEF Hideable
  <2> QED
    BY <2>2, WordsAddUp
<1> HIDE DEF count
<1>3. step \in [(1 .. count) \X Words -> Words]
  BY <1>2
<1>4. PICK f \in [0 .. count -> Words] : Recursive(f, count, key, step)
  <2> HIDE DEF step
  <2> QED
    BY <1>0, <1>1, <1>3, RecursionUpTo
<1>5. \A j \in 1 .. count : f[j] = (f[j - 1] + WordAt(b, off + 4 * j)) % WordValues
  <2> SUFFICES ASSUME NEW j \in 1 .. count PROVE f[j] = (f[j - 1] + WordAt(b, off + 4 * j)) % WordValues
    OBVIOUS
  <2>1. f[j - 1] \in Words
    BY <1>0
  <2>2. step[<<j, f[j - 1]>>] = (f[j - 1] + WordAt(b, off + 4 * j)) % WordValues
    BY <2>1
  <2> QED
    BY <1>4, <2>2 DEF Recursive
<1>6. f = Ecx(f)
  BY <1>4, <1>5 DEF Recursive
<1>7. ecx = CHOOSE g : g = Ecx(g)
  BY DEF Growing, count
<1>8. ecx = Ecx(ecx)
  <2> HIDE DEF Ecx, ecx
  <2> QED
    BY <1>6, <1>7
<1> HIDE DEF ecx
<1>9. /\ ecx[0] = key
      /\ \A j \in 1 .. count : ecx[j] = (ecx[j - 1] + WordAt(b, off + 4 * j)) % WordValues
  BY <1>0, <1>8
<1>10. DOMAIN ecx = 0 .. count /\ ecx = [j \in 0 .. count |-> ecx[j]]
  BY <1>8
<1>11. \A j \in 0 .. count : ecx[j] \in Words
  <2> DEFINE Good == {j \in 0 .. count : ecx[j] \in Words}
  <2>1. 0 \in Good
    BY <1>0, <1>1, <1>9
  <2>2. ASSUME NEW j \in 0 .. (count - 1), j \in Good PROVE j + 1 \in Good
    <3>1. j + 1 \in 1 .. count /\ (j + 1) - 1 = j /\ ecx[j] \in Words
      BY <1>0, <2>2
    <3>2. ecx[j + 1] \in Words
      <4> DEFINE i == j + 1
      <4>1. i \in 1 .. count /\ ecx[i - 1] \in Words
        BY <1>0, <3>1
      <4> HIDE DEF i
      <4>2. ecx[i] \in Words
        BY <1>2, <1>9, <4>1
      <4> QED
        BY <4>2 DEF i
    <3> QED
      BY <3>1, <3>2
  <2> HIDE DEF Good
  <2>3. \A j \in 0 .. count : j \in Good
    BY <1>0, <2>1, <2>2, AllUpTo
  <2> QED
    BY <2>3 DEF Good
<1>12. ecx \in [0 .. count -> Words]
  BY <1>10, <1>11
<1> QED
  BY <1>9, <1>12 DEF ecx, AreGrown, count

AreShrunk(ecx, b, off, size) ==
  /\ ecx \in [0 .. Hidden(size) -> Words]
  /\ ecx[0] = WordAt(b, off + 4 * (Hidden(size) + 1))
  /\ \A j \in 1 .. Hidden(size) :
       ecx[j] = (ecx[j - 1] - XorOf(WordAt(b, off + 4 * (Hidden(size) + 1 - j)), ecx[j - 1])) % WordValues

LEMMA ShrinkingStep ==
  ASSUME NEW b, NEW off \in Nat, NEW size \in Nat, size >= 12,
         Hideable(b, off, size)
  PROVE  AreShrunk(Shrinking(b, off, size), b, off, size)
<1> DEFINE count == Hidden(size)
           step  == [ja \in (1 .. count) \X Words |-> (ja[2] - XorOf(WordAt(b, off + 4 * (count + 1 - ja[1])), ja[2])) % WordValues]
           Ecx(f) == [j \in 0 .. count |-> IF j = 0 THEN WordAt(b, off + 4 * (count + 1)) ELSE (f[j - 1] - XorOf(WordAt(b, off + 4 * (count + 1 - j)), f[j - 1])) % WordValues]
           ecx   == Shrinking(b, off, size)
<1>0. count \in Nat /\ size \div 4 = count + 3
  BY DEF Hidden
<1>1. WordAt(b, off + 4 * (count + 1)) \in Words
  BY <1>0 DEF Hideable
<1>2. \A j \in 1 .. count, a \in Words : (a - XorOf(WordAt(b, off + 4 * (count + 1 - j)), a)) % WordValues \in Words
  <2> SUFFICES ASSUME NEW j \in 1 .. count, NEW a \in Words
               PROVE  (a - XorOf(WordAt(b, off + 4 * (count + 1 - j)), a)) % WordValues \in Words
    OBVIOUS
  <2> DEFINE i == count + 1 - j
             w == XorOf(WordAt(b, off + 4 * i), a)
  <2>1. i \in 1 .. (count + 1)
    BY <1>0
  <2> HIDE DEF i
  <2>2. WordAt(b, off + 4 * i) \in Words
    BY <2>1 DEF Hideable
  <2>3. w \in Words
    BY <2>2, XorAssumption
  <2> HIDE DEF w
  <2>4. (a - w) % WordValues \in Words
    BY <2>3, WordsAddUp
  <2> QED
    BY <2>4 DEF w, i
<1> HIDE DEF count
<1>3. step \in [(1 .. count) \X Words -> Words]
  BY <1>2
<1>4. PICK f \in [0 .. count -> Words] : Recursive(f, count, WordAt(b, off + 4 * (count + 1)), step)
  <2> HIDE DEF step
  <2> QED
    BY <1>0, <1>1, <1>3, RecursionUpTo
<1>5. \A j \in 1 .. count : f[j] = (f[j - 1] - XorOf(WordAt(b, off + 4 * (count + 1 - j)), f[j - 1])) % WordValues
  <2> SUFFICES ASSUME NEW j \in 1 .. count PROVE f[j] = (f[j - 1] - XorOf(WordAt(b, off + 4 * (count + 1 - j)), f[j - 1])) % WordValues
    OBVIOUS
  <2>1. f[j - 1] \in Words
    BY <1>0
  <2>2. step[<<j, f[j - 1]>>] = (f[j - 1] - XorOf(WordAt(b, off + 4 * (count + 1 - j)), f[j - 1])) % WordValues
    BY <2>1
  <2> QED
    BY <1>4, <2>2 DEF Recursive
<1>6. f = Ecx(f)
  BY <1>4, <1>5 DEF Recursive
<1>7. ecx = CHOOSE g : g = Ecx(g)
  BY DEF Shrinking, count
<1>8. ecx = Ecx(ecx)
  <2> HIDE DEF Ecx, ecx
  <2> QED
    BY <1>6, <1>7
<1> HIDE DEF ecx
<1>9. /\ ecx[0] = WordAt(b, off + 4 * (count + 1))
      /\ \A j \in 1 .. count : ecx[j] = (ecx[j - 1] - XorOf(WordAt(b, off + 4 * (count + 1 - j)), ecx[j - 1])) % WordValues
  BY <1>0, <1>8
<1>10. DOMAIN ecx = 0 .. count /\ ecx = [j \in 0 .. count |-> ecx[j]]
  BY <1>8
<1>11. \A j \in 0 .. count : ecx[j] \in Words
  <2> DEFINE Good == {j \in 0 .. count : ecx[j] \in Words}
  <2>1. 0 \in Good
    BY <1>0, <1>1, <1>9
  <2>2. ASSUME NEW j \in 0 .. (count - 1), j \in Good PROVE j + 1 \in Good
    <3>1. j + 1 \in 1 .. count /\ (j + 1) - 1 = j /\ ecx[j] \in Words
      BY <1>0, <2>2
    <3>2. ecx[j + 1] \in Words
      <4> DEFINE i == j + 1
      <4>1. i \in 1 .. count /\ ecx[i - 1] \in Words
        BY <1>0, <3>1
      <4> HIDE DEF i
      <4>2. ecx[i] \in Words
        BY <1>2, <1>9, <4>1
      <4> QED
        BY <4>2 DEF i
    <3> QED
      BY <3>1, <3>2
  <2> HIDE DEF Good
  <2>3. \A j \in 0 .. count : j \in Good
    BY <1>0, <2>1, <2>2, AllUpTo
  <2> QED
    BY <2>3 DEF Good
<1>12. ecx \in [0 .. count -> Words]
  BY <1>10, <1>11
<1> QED
  BY <1>9, <1>12 DEF ecx, AreShrunk, count

\* What the first packet's words become.
LEMMA HidesWords ==
  ASSUME NEW n \in Nat, NEW b \in [1 .. n -> Symbols], NEW off \in Nat,
         NEW size \in Nat, size % 4 = 0, size >= 12, off + size <= n, NEW key \in Words
  PROVE  LET h  == Hidden(size)
             g  == Growing(b, off, size, key)
             to == [j \in 1 .. (h + 1) |-> IF j > h THEN g[h] ELSE XorOf(WordAt(b, off + 4 * j), g[j])]
         IN  /\ AreGrown(g, b, off, size, key) /\ AreWords(to)
             /\ EncXORPass(b, off, size, key) = PutWords(b, off, to)
             /\ EncXORPass(b, off, size, key) \in [1 .. n -> Symbols]
<1> DEFINE h  == Hidden(size)
           g  == Growing(b, off, size, key)
           to == [j \in 1 .. (h + 1) |-> IF j > h THEN g[h] ELSE XorOf(WordAt(b, off + 4 * j), g[j])]
<1>1. h \in Nat /\ size = 4 * h + 12
  BY DEF Hidden
<1>2. EncXORPass(b, off, size, key) = PutWords(b, off, to)
  BY DEF EncXORPass
<1>3. \A j \in 1 .. (h + 1) : WordAt(b, off + 4 * j) \in Words
  <2> SUFFICES ASSUME NEW j \in 1 .. (h + 1) PROVE WordAt(b, off + 4 * j) \in Words
    OBVIOUS
  <2> HIDE DEF h
  <2>1. off + 4 * j \in Nat /\ off + 4 * j + 4 <= n
    BY <1>1
  <2> QED
    BY <2>1, WordInBuffer
<1>4. AreGrown(g, b, off, size, key)
  <2>1. Hideable(b, off, size)
    BY <1>3 DEF Hideable
  <2> QED
    BY <2>1, GrowingStep
<1> HIDE DEF g
<1>5. g \in [0 .. h -> Words]
  BY <1>4 DEF AreGrown
<1> HIDE DEF h
<1>6. AreWords(to)
  <2>1. ASSUME NEW j \in 1 .. (h + 1) PROVE to[j] \in Words
    <3>1. CASE j > h
      BY <1>1, <1>5, <3>1
    <3>2. CASE ~ (j > h)
      <4>1. g[j] \in Words /\ WordAt(b, off + 4 * j) \in Words
        BY <1>1, <1>3, <1>5, <3>2
      <4>2. XorOf(WordAt(b, off + 4 * j), g[j]) \in Words
        BY <4>1, XorAssumption
      <4> QED
        BY <3>2, <4>2
    <3> QED
      BY <3>1, <3>2
  <2>2. DOMAIN to = 1 .. (h + 1)
    OBVIOUS
  <2> HIDE DEF to
  <2> QED
    BY <1>1, <2>1, <2>2 DEF AreWords
<1> HIDE DEF to
<1>7. HasWords(PutWords(b, off, to), b, n, off, to)
  BY <1>6, PutWordsBytes
<1> QED
  BY <1>2, <1>4, <1>6, <1>7 DEF HasWords, to, g, h

\* What hides the words of a first packet is undone, from the last word to the
\* first: all but the last two words come back.
LEMMA XorPassUndone ==
  ASSUME NEW n \in Nat, NEW b \in [1 .. n -> Symbols], NEW off \in Nat,
         NEW size \in Nat, size % 4 = 0, size >= 12, off + size <= n, NEW key \in Words,
         NEW data \in [1 .. size -> Symbols],
         SameBytes(data, 0, EncXORPass(b, off, size, key), off, size)
  PROVE  /\ DecXORPass(data, 0, size) \in [1 .. size -> Symbols]
         /\ SameBytes(DecXORPass(data, 0, size), 0, b, off, size - 8)
<1> DEFINE h  == Hidden(size)
           g  == Growing(b, off, size, key)
           c  == EncXORPass(b, off, size, key)
           to == [j \in 1 .. (h + 1) |-> IF j > h THEN g[h] ELSE XorOf(WordAt(b, off + 4 * j), g[j])]
           s  == Shrinking(data, 0, size)
           back == [j \in 1 .. h |-> XorOf(WordAt(data, 0 + 4 * j), s[h - j])]
<1>1. h \in Nat /\ size = 4 * h + 12
  BY DEF Hidden
<1>2. c = PutWords(b, off, to)
  BY DEF EncXORPass
<1>3. DecXORPass(data, 0, size) = PutWords(data, 0, back)
  BY DEF DecXORPass
<1>4. \A j \in 0 .. (h + 2) : /\ WordAt(b, off + 4 * j) \in Words
                              /\ WordAt(data, 0 + 4 * j) \in Words
  <2> SUFFICES ASSUME NEW j \in 0 .. (h + 2)
               PROVE  /\ WordAt(b, off + 4 * j) \in Words
                      /\ WordAt(data, 0 + 4 * j) \in Words
    OBVIOUS
  <2> HIDE DEF h
  <2>1. off + 4 * j \in Nat /\ off + 4 * j + 4 <= n
    BY <1>1
  <2>2. 0 + 4 * j \in Nat /\ 0 + 4 * j + 4 <= size
    BY <1>1
  <2> QED
    BY <2>1, <2>2, WordInBuffer
<1>5. AreGrown(g, b, off, size, key) /\ AreWords(to)
  BY HidesWords
<1>6. AreShrunk(s, data, 0, size)
  <2>1. Hideable(data, 0, size)
    BY <1>1, <1>4 DEF Hideable
  <2>2. 0 \in Nat
    OBVIOUS
  <2> QED
    BY <2>1, <2>2, ShrinkingStep
<1> HIDE DEF c, g, s
<1>7. /\ g \in [0 .. h -> Words]
      /\ \A j \in 1 .. h : g[j] = (g[j - 1] + WordAt(b, off + 4 * j)) % WordValues
  BY <1>5 DEF AreGrown
<1>8. /\ s[0] = WordAt(data, 0 + 4 * (h + 1))
      /\ \A j \in 1 .. h :
           s[j] = (s[j - 1] - XorOf(WordAt(data, 0 + 4 * (h + 1 - j)), s[j - 1])) % WordValues
  BY <1>6 DEF AreShrunk
<1> HIDE DEF h
<1>9. DOMAIN to = 1 .. (h + 1)
  OBVIOUS
<1>10. /\ to[h + 1] = g[h]
       /\ \A j \in 1 .. h : to[j] = XorOf(WordAt(b, off + 4 * j), g[j])
  BY <1>1
<1> HIDE DEF to
<1>11. HasWords(c, b, n, off, to) /\ HoldsWords(c, b, n, off, to)
  BY <1>2, <1>5, PutWordsBytes, PutWordsWords
<1>13. \A j \in 1 .. (h + 1) : WordAt(data, 0 + 4 * j) = to[j]
  <2> SUFFICES ASSUME NEW j \in 1 .. (h + 1) PROVE WordAt(data, 0 + 4 * j) = to[j]
    OBVIOUS
  <2> DEFINE i == 0 + 4 * j
             k == off + 4 * j
  <2>1. i \in Nat /\ k \in Nat /\ k = off + i /\ i + 4 <= size /\ k + 4 <= n /\ j \in Nat
    BY <1>1
  <2>2. WordAt(c, k) = to[j]
    BY <1>9, <1>11, <2>1 DEF HoldsWords
  <2> HIDE DEF i, k
  <2>3. SameBytes(data, i, c, k, 4)
    <3> SUFFICES ASSUME NEW d \in 1 .. 4 PROVE data[i + d] = c[k + d]
      BY DEF SameBytes
    <3>1. i + d \in 1 .. size /\ off + (i + d) = k + d /\ 0 + (i + d) = i + d
      BY <2>1
    <3>2. data[0 + (i + d)] = c[off + (i + d)]
      BY <3>1 DEF SameBytes, c
    <3> QED
      BY <3>1, <3>2
  <2>4. WordAt(data, i) = WordAt(c, k)
    BY <2>1, <2>3, SameWord
  <2> QED
    BY <2>2, <2>4 DEF i, k
<1>14. \A j \in 1 .. h : XorOf(WordAt(data, 0 + 4 * j), g[j]) = WordAt(b, off + 4 * j)
  <2> SUFFICES ASSUME NEW j \in 1 .. h
               PROVE  XorOf(WordAt(data, 0 + 4 * j), g[j]) = WordAt(b, off + 4 * j)
    OBVIOUS
  <2>1. WordAt(data, 0 + 4 * j) = XorOf(WordAt(b, off + 4 * j), g[j])
    BY <1>1, <1>10, <1>13
  <2>2. g[j] \in Words /\ WordAt(b, off + 4 * j) \in Words
    BY <1>1, <1>4, <1>7
  <2> QED
    BY <2>1, <2>2, XorAssumption
<1>15. \A j \in 0 .. h : s[j] = g[h - j]
  <2> DEFINE Good == {j \in 0 .. h : s[j] = g[h - j]}
  <2>1. 0 \in Good
    <3>1. s[0] = to[h + 1]
      BY <1>1, <1>8, <1>13
    <3> QED
      BY <1>1, <1>10, <3>1
  <2>2. ASSUME NEW j \in 0 .. (h - 1), j \in Good PROVE j + 1 \in Good
    <3> DEFINE i == h - j
    <3>1. i \in 1 .. h /\ j + 1 \in 1 .. h /\ (j + 1) - 1 = j /\ h + 1 - (j + 1) = i /\ h - (j + 1) = i - 1
      BY <1>1
    <3>2. s[j] = g[i]
      BY <2>2
    <3> HIDE DEF i
    <3>3. s[j + 1] = (s[j] - XorOf(WordAt(data, 0 + 4 * i), s[j])) % WordValues
      BY <1>8, <3>1
    <3>4. s[j + 1] = (g[i] - WordAt(b, off + 4 * i)) % WordValues
      BY <1>14, <3>1, <3>2, <3>3
    <3>5. /\ g[i] = (g[i - 1] + WordAt(b, off + 4 * i)) % WordValues
          /\ g[i - 1] \in Words /\ WordAt(b, off + 4 * i) \in Words
      BY <1>1, <1>4, <1>7, <3>1
    <3>6. s[j + 1] = g[i - 1]
      BY <3>4, <3>5, WordsAddUp
    <3> QED
      BY <1>1, <3>1, <3>6
  <2> HIDE DEF Good
  <2>3. \A j \in 0 .. h : j \in Good
    BY <1>1, <2>1, <2>2, AllUpTo
  <2> QED
    BY <2>3 DEF Good
<1>16. \A j \in 1 .. h : back[j] = WordAt(b, off + 4 * j)
  <2> SUFFICES ASSUME NEW j \in 1 .. h PROVE back[j] = WordAt(b, off + 4 * j)
    OBVIOUS
  <2>1. h - j \in 0 .. h /\ h - (h - j) = j
    BY <1>1
  <2>2. s[h - j] = g[j]
    BY <1>15, <2>1
  <2> QED
    BY <1>14, <2>2
<1>17. DOMAIN back = 1 .. h /\ AreWords(back)
  <2>1. DOMAIN back = 1 .. h
    OBVIOUS
  <2> HIDE DEF back
  <2> QED
    BY <1>1, <1>4, <1>16, <2>1 DEF AreWords
<1> HIDE DEF back
<1>18. HasWords(DecXORPass(data, 0, size), data, size, 0, back)
  <2>1. 0 \in Nat
    OBVIOUS
  <2> QED
    BY <1>3, <1>17, <2>1, PutWordsBytes
<1>19. ASSUME NEW k \in 1 .. (size - 8) PROVE DecXORPass(data, 0, size)[0 + k] = b[off + k]
  <2> DEFINE j == (k - 1) \div 4
             d == ((k - 1) % 4) + 1
             e == DecXORPass(data, 0, size)
  <2>1. j \in 0 .. h /\ d \in 1 .. 4 /\ 0 + 4 * j + d = k /\ k <= size /\ 0 + k = k /\ k \in 1 .. size
    BY <1>1
  <2>2. off + 4 * j \in Nat /\ (off + 4 * j) + d = off + k /\ off + 4 * j + d <= n /\ off + 4 * j + 4 <= n
    BY <1>1, <2>1
  <2> HIDE DEF j, d, e
  <2>3. e[0 + 4 * j + d] = IF j \in DOMAIN back THEN BytesOf(back[j])[d] ELSE data[0 + 4 * j + d]
    <3>1. HasWords(e, data, size, 0, back)
      BY <1>18 DEF e
    <3>2. j \in Nat /\ d \in 1 .. 4 /\ 0 + 4 * j + d <= size
      BY <1>1, <2>1
    <3> QED
      BY <3>1, <3>2 DEF HasWords
  <2>4. CASE j \in 1 .. h
    <3>1. e[k] = BytesOf(WordAt(b, off + 4 * j))[d]
      BY <1>16, <1>17, <2>1, <2>3, <2>4
    <3>2. BytesOf(WordAt(b, off + 4 * j))[d] = b[(off + 4 * j) + d]
      BY <2>1, <2>2, WordInBuffer
    <3> QED
      BY <2>1, <2>2, <3>1, <3>2 DEF e
  <2>5. CASE j \notin 1 .. h
    <3>1. e[k] = data[k]
      BY <1>17, <2>1, <2>3, <2>5
    <3>2. data[0 + k] = c[off + k]
      BY <2>1 DEF SameBytes, c
    <3>3. j \in Nat /\ j \notin DOMAIN to /\ off + 4 * j + d = off + k
      BY <1>1, <1>9, <2>1, <2>2, <2>5
    <3>4. c[off + 4 * j + d] = b[off + 4 * j + d]
      BY <1>11, <2>1, <2>2, <3>3 DEF HasWords
    <3> QED
      BY <2>1, <3>1, <3>2, <3>3, <3>4 DEF e
  <2> QED
    BY <2>4, <2>5
<1>20. DecXORPass(data, 0, size) \in [1 .. size -> Symbols]
  BY <1>18 DEF HasWords
<1> QED
  BY <1>19, <1>20 DEF SameBytes

-----------------------------------------------------------------------------
(* Frames.                                                                  *)

KeyNames == {"default", "new", "dynamic", "unknown", "static"}

AFrame  == [total : Nat, key : KeyNames, data : Seq(Symbols)]
Buffers == [1 .. SendBuf -> Symbols]

\* A frame in flight, in one piece.
Whole(f) ==
  /\ f \in AFrame
  /\ f.total = Header + Len(f.data) /\ f.total <= SendBuf
  /\ Len(f.data) % Block = 0 /\ Len(f.data) >= Block

\* A first frame of payload p, and a later one.
FirstFrame(f, p) ==
  LET size == Len(f.data)  back == DecXORPass(f.data, 0, size) IN
  /\ Whole(f) /\ Len(p) <= size
  /\ back \in [1 .. size -> Symbols]
  /\ \A k \in 1 .. Len(p) : back[k] = p[k]

LaterFrame(f, p) ==
  LET size == Len(f.data) IN
  /\ Whole(f) /\ Len(p) <= size - Checksum
  /\ SumOf(f.data, 0, size) = 0
  /\ \A k \in 1 .. Len(p) : f.data[k] = p[k]
  /\ \A k \in (Len(p) + 1) .. (size - Checksum) : f.data[k] = 0

FrameOf(f, p) == IF f.key = "static" THEN FirstFrame(f, p) ELSE LaterFrame(f, p)

\* A writer that accepts p makes a frame of it under this key.
Makes(w, p, key) ==
  w.ok => /\ FrameOf(w.frame, p) /\ w.frame \in AFrame /\ w.frame.key = key
          /\ w.buf \in Buffers

\* A reader gets p.
Arrives(r, p) == r.ok /\ SubSeq(r.bytes, 1, Len(p)) = p

\* The buffer holds payload p behind the header, and zeros behind that.
Holds(b, p) ==
  /\ b \in Buffers /\ p \in Seq(Symbols)
  /\ \A k \in 1 .. SendBuf : k > Header => b[k] = IF k <= Header + Len(p) THEN p[k - Header] ELSE 0

LEMMA RoundUpIsUp ==
  ASSUME NEW n \in Nat
  PROVE  RoundUp(n) \in Nat /\ n <= RoundUp(n) /\ RoundUp(n) < n + Block /\ RoundUp(n) % Block = 0
BY DEF RoundUp, Block

LEMMA Sizes ==
  ASSUME NEW n \in Nat
  PROVE  /\ FirstSize(n) \in Nat /\ FirstSize(n) % Block = 0 /\ FirstSize(n) >= n + 16
         /\ LaterSize(n) \in Nat /\ LaterSize(n) % Block = 0 /\ LaterSize(n) >= n + Checksum
         /\ LaterSize(n) >= Block /\ LaterSize(n) <= n + 11 /\ LaterSize(n) <= RoundUp(n) + 8
         /\ GSSize(n) = LaterSize(n)
<1>1. /\ RoundUp(n + 8) \in Nat /\ n + 8 <= RoundUp(n + 8) /\ RoundUp(n + 8) % Block = 0
      /\ RoundUp(n + Checksum) \in Nat /\ n + Checksum <= RoundUp(n + Checksum)
      /\ RoundUp(n + Checksum) < n + Checksum + Block /\ RoundUp(n + Checksum) % Block = 0
      /\ RoundUp(n) \in Nat /\ n <= RoundUp(n) /\ RoundUp(n) % Block = 0
  BY RoundUpIsUp DEF Checksum
<1>2. GSSize(n) = LaterSize(n)
  BY DEF GSSize, LaterSize, RoundUp, Block, Checksum
<1>3. FirstSize(n) \in Nat /\ FirstSize(n) % Block = 0 /\ FirstSize(n) >= n + 16
  BY <1>1 DEF FirstSize, Block
<1>4. /\ LaterSize(n) \in Nat /\ LaterSize(n) % Block = 0 /\ LaterSize(n) >= n + Checksum
      /\ LaterSize(n) >= Block /\ LaterSize(n) <= n + 11
  BY <1>1 DEF LaterSize, Block, Checksum
<1>5. LaterSize(n) <= RoundUp(n) + 8
  BY DEF LaterSize, RoundUp, Block, Checksum
<1> QED
  BY <1>2, <1>3, <1>4, <1>5

LEMMA BufferIsSequence ==
  ASSUME NEW n \in Nat, NEW b \in [1 .. n -> Symbols]
  PROVE  b \in Seq(Symbols) /\ Len(b) = n
BY SeqDef, LenProperties

LEMMA Filled ==
  ASSUME NEW b \in Buffers, NEW p \in Seq(Symbols), \A k \in 1 .. SendBuf : b[k] = 0
  PROVE  Holds(Fill(b, p), p)
<1>1. Len(p) \in Nat /\ \A k \in 1 .. Len(p) : p[k] \in Symbols
  OBVIOUS
<1>2. DOMAIN b = 1 .. SendBuf /\ SendBuf \in Nat
  BY BuffersAssumption DEF Buffers
<1>3. ASSUME NEW k \in 1 .. SendBuf
      PROVE  /\ Fill(b, p)[k] \in Symbols
             /\ k > Header => Fill(b, p)[k] = IF k <= Header + Len(p) THEN p[k - Header] ELSE 0
  <2>1. Fill(b, p)[k] = IF k \in (Header + 1) .. (Header + Len(p)) THEN p[k - Header] ELSE b[k]
    BY <1>2 DEF Fill
  <2>2. CASE k \in (Header + 1) .. (Header + Len(p))
    <3>1. k - Header \in 1 .. Len(p)
      BY <1>1, <2>2 DEF Header
    <3> QED
      BY <1>1, <1>2, <2>1, <2>2, <3>1 DEF Header
  <2>3. CASE k \notin (Header + 1) .. (Header + Len(p))
    BY <1>1, <1>2, <2>1, <2>3, BaseIsNat DEF Header, Buffers
  <2> QED
    BY <2>2, <2>3
<1>4. Fill(b, p) \in Buffers
  <2>1. DOMAIN Fill(b, p) = 1 .. SendBuf /\ Fill(b, p) = [k \in 1 .. SendBuf |-> Fill(b, p)[k]]
    BY <1>2 DEF Fill
  <2> QED
    BY <1>3, <2>1 DEF Buffers
<1> QED
  BY <1>3, <1>4 DEF Holds

LEMMA ServersBuffer ==
  ASSUME NEW b \in Buffers, NEW p \in Seq(Symbols)
  PROVE  Holds(Fill(FromPool(b), p), p)
<1>1. Len(b) = SendBuf /\ DOMAIN b = 1 .. SendBuf /\ SendBuf \in Nat
  BY BufferIsSequence, BuffersAssumption DEF Buffers
<1>2. FromPool(b) = [k \in 1 .. SendBuf |-> 0]
  BY <1>1 DEF FromPool, Cleared
<1>3. FromPool(b) \in Buffers /\ \A k \in 1 .. SendBuf : FromPool(b)[k] = 0
  BY <1>2, BaseIsNat DEF Buffers
<1> QED
  BY <1>3, Filled

LEMMA ClientsBuffer ==
  ASSUME NEW p \in Seq(Symbols)
  PROVE  Holds(Fill([k \in 1 .. SendBuf |-> 0], p), p)
<1> DEFINE z == [k \in 1 .. SendBuf |-> 0]
<1>1. z \in Buffers /\ \A k \in 1 .. SendBuf : z[k] = 0
  BY BaseIsNat DEF Buffers
<1> HIDE DEF z
<1>2. Holds(Fill(z, p), p)
  BY <1>1, Filled
<1> QED
  BY <1>2 DEF z

\* The writers clear what is clear already.
LEMMA ClearsNothing ==
  ASSUME NEW b, NEW p, Holds(b, p), NEW to
  PROVE  Cleared(b, Header + Len(p), to) = b
<1>1. DOMAIN b = 1 .. SendBuf /\ Len(p) \in Nat /\ SendBuf \in Nat
  BY BuffersAssumption DEF Holds, Buffers
<1>2. b = [k \in 1 .. SendBuf |-> b[k]]
  BY DEF Holds, Buffers
<1>3. ASSUME NEW k \in 1 .. SendBuf, k \in (Header + Len(p) + 1) .. to PROVE b[k] = 0
  <2>1. k > Header /\ ~ (k <= Header + Len(p))
    BY <1>1, <1>3 DEF Header
  <2> QED
    BY <2>1 DEF Holds
<1>4. Cleared(b, Header + Len(p), to) =
        [k \in 1 .. SendBuf |-> IF k \in (Header + Len(p) + 1) .. to THEN 0 ELSE b[k]]
  BY <1>1 DEF Cleared
<1>5. \A k \in 1 .. SendBuf : (IF k \in (Header + Len(p) + 1) .. to THEN 0 ELSE b[k]) = b[k]
  BY <1>3
<1> HIDE DEF Header
<1> QED
  BY <1>2, <1>4, <1>5

\* What is cut out of a buffer.
LEMMA CutOut ==
  ASSUME NEW b \in Buffers, NEW size \in Nat, Header + size <= SendBuf
  PROVE  LET data == SubSeq(b, Header + 1, Header + size) IN
         /\ data \in [1 .. size -> Symbols] /\ data \in Seq(Symbols) /\ Len(data) = size
         /\ SameBytes(data, 0, b, Header, size)
<1> DEFINE data == SubSeq(b, Header + 1, Header + size)
<1>1. b \in Seq(Symbols) /\ Len(b) = SendBuf
  BY BufferIsSequence, BuffersAssumption DEF Buffers
<1>2. data \in Seq(Symbols) /\ Len(data) = size /\ \A k \in 1 .. size : data[k] = b[Header + k]
  <2>1. Header + 1 \in 1 .. (Len(b) + 1) /\ Header + size \in Header .. Len(b)
    BY <1>1, BuffersAssumption DEF Header
  <2>2. /\ data \in Seq(Symbols)
        /\ Len(data) = IF Header + 1 <= Header + size THEN (Header + size) - (Header + 1) + 1 ELSE 0
        /\ \A k \in 1 .. ((Header + size) - (Header + 1) + 1) : data[k] = b[(Header + 1) + k - 1]
    BY <1>1, <2>1, SubSeqProperties DEF Header
  <2> QED
    BY <2>2 DEF Header
<1>3. data \in [1 .. size -> Symbols]
  BY <1>2, LenProperties
<1> HIDE DEF data
<1>4. SameBytes(data, 0, b, Header, size)
  BY <1>2 DEF SameBytes
<1> QED
  BY <1>2, <1>3, <1>4 DEF data

LEMMA UsedIsBuffer ==
  ASSUME NEW b \in Buffers, NEW size
  PROVE  Used(b, size) \in Buffers
<1>1. Base - 1 \in Symbols
  BY BaseIsNat DEF Symbols
<1> QED
  BY <1>1 DEF Used, Buffers

LEMMA FrameIsWhole ==
  ASSUME NEW b \in Buffers, NEW key \in KeyNames, NEW size \in Nat, size % Block = 0, size >= Block,
         Header + size <= SendBuf
  PROVE  /\ Whole(Frame(b, key, size))
         /\ Frame(b, key, size).data = SubSeq(b, Header + 1, Header + size)
         /\ Frame(b, key, size).key = key
<1> DEFINE data == SubSeq(b, Header + 1, Header + size)
           f == Frame(b, key, size)
<1>1. data \in Seq(Symbols) /\ Len(data) = size
  BY CutOut
<1> HIDE DEF data
<1>2. f = [total |-> Header + size, key |-> key, data |-> data]
  BY DEF Frame, data
<1> HIDE DEF f
<1>3. f.total = Header + size /\ f.key = key /\ f.data = data
  BY <1>2
<1>4. f \in AFrame
  BY <1>1, <1>2 DEF AFrame, Header
<1>5. Whole(f)
  BY <1>1, <1>3, <1>4 DEF Whole
<1> QED
  BY <1>3, <1>5 DEF f, data

\* A later frame, whoever writes it.
LEMMA LaterMakes ==
  ASSUME NEW b, NEW p, Holds(b, p), NEW key \in KeyNames \ {"static"},
         Header + LaterSize(Len(p)) <= SendBuf
  PROVE  Makes(Written(AppendChecksum(b, Header, LaterSize(Len(p))), key, LaterSize(Len(p))), p, key)
<1> DEFINE n    == Len(p)
           size == LaterSize(n)
           c    == AppendChecksum(b, Header, size)
           f    == Frame(c, key, size)
           w    == Written(c, key, size)
           data == SubSeq(c, Header + 1, Header + size)
<1>0. n \in Nat /\ b \in Buffers /\ SendBuf \in Nat /\ Header \in Nat
  BY BuffersAssumption DEF Holds, Header
<1>1. size \in Nat /\ size % Block = 0 /\ size >= n + Checksum /\ size >= Block /\ Header + size <= SendBuf
  <2> HIDE DEF n
  <2> QED
    BY <1>0, Sizes DEF n
<1> HIDE DEF size
<1>2. size % 4 = 0 /\ size >= 8
  BY <1>1 DEF Block
<1>3. c \in Buffers
  BY <1>0, <1>1, <1>2, AppendsSum DEF Buffers
<1> HIDE DEF c
<1>4. data \in [1 .. size -> Symbols] /\ Len(data) = size /\ SameBytes(data, 0, c, Header, size)
  BY <1>1, <1>3, CutOut
<1> HIDE DEF data
<1>5. SumOf(data, 0, size) = 0 /\ SameBytes(data, 0, b, Header, size - 4)
  BY <1>0, <1>1, <1>2, <1>4, ChecksumVerifies DEF Buffers, c
<1>6. Whole(f) /\ f.data = data /\ f.key = key
  BY <1>1, <1>3, FrameIsWhole DEF data
<1> HIDE DEF f
<1>7. ASSUME NEW k \in 1 .. (size - Checksum)
      PROVE  data[k] = IF k <= n THEN p[k] ELSE 0
  <2>1. 0 + k = k /\ Header + k \in 1 .. SendBuf /\ Header + k > Header /\ (Header + k) - Header = k
        /\ (Header + k <= Header + n <=> k <= n)
    BY <1>0, <1>1 DEF Header, Checksum
  <2>2. data[0 + k] = b[Header + k]
    BY <1>5 DEF SameBytes, Checksum
  <2>3. b[Header + k] = IF Header + k <= Header + n THEN p[(Header + k) - Header] ELSE 0
    BY <2>1 DEF Holds
  <2> QED
    BY <2>1, <2>2, <2>3
<1>8. LaterFrame(f, p)
  <2>1. \A k \in 1 .. n : k \in 1 .. (size - Checksum) /\ k <= n
    BY <1>0, <1>1 DEF Checksum
  <2>2. \A k \in (n + 1) .. (size - Checksum) : k \in 1 .. (size - Checksum) /\ ~ (k <= n)
    BY <1>0, <1>1 DEF Checksum
  <2>3. n <= size - Checksum
    BY <1>0, <1>1 DEF Checksum
  <2> HIDE DEF n
  <2>4. /\ \A k \in 1 .. n : data[k] = p[k]
        /\ \A k \in (n + 1) .. (size - Checksum) : data[k] = 0
    BY <1>7, <2>1, <2>2
  <2> QED
    BY <1>4, <1>5, <1>6, <2>3, <2>4 DEF LaterFrame, n
<1>9. w.frame = f /\ w.buf \in Buffers
  BY <1>3, UsedIsBuffer DEF Written, f
<1>10. f \in AFrame
  BY <1>6 DEF Whole
<1> HIDE DEF w
<1>11. Makes(w, p, key)
  BY <1>6, <1>8, <1>9, <1>10 DEF Makes, FrameOf
<1> QED
  BY <1>11 DEF w, c, size, n

LEMMA FirstMakes ==
  ASSUME NEW b, NEW p, Holds(b, p), NEW xorKey \in Words,
         Header + FirstSize(Len(p)) <= SendBuf
  PROVE  Makes(Written(EncXORPass(b, Header, FirstSize(Len(p)), xorKey), "static", FirstSize(Len(p))),
               p, "static")
<1> DEFINE n    == Len(p)
           size == FirstSize(n)
           c    == EncXORPass(b, Header, size, xorKey)
           f    == Frame(c, "static", size)
           w    == Written(c, "static", size)
           data == SubSeq(c, Header + 1, Header + size)
           back == DecXORPass(data, 0, size)
<1>0. n \in Nat /\ b \in Buffers /\ SendBuf \in Nat /\ Header \in Nat /\ "static" \in KeyNames
  BY BuffersAssumption DEF Holds, Header, KeyNames
<1>1. size \in Nat /\ size % Block = 0 /\ size >= n + 16 /\ Header + size <= SendBuf
  <2> HIDE DEF n
  <2> QED
    BY <1>0, Sizes DEF n
<1> HIDE DEF size
<1>2. size % 4 = 0 /\ size >= 12 /\ size >= Block
  BY <1>0, <1>1 DEF Block
<1>3. c \in Buffers
  BY <1>0, <1>1, <1>2, HidesWords DEF Buffers
<1> HIDE DEF c
<1>4. data \in [1 .. size -> Symbols] /\ Len(data) = size /\ SameBytes(data, 0, c, Header, size)
  BY <1>1, <1>3, CutOut
<1> HIDE DEF data
<1>5. back \in [1 .. size -> Symbols] /\ SameBytes(back, 0, b, Header, size - 8)
  <2>1. /\ SendBuf \in Nat /\ b \in [1 .. SendBuf -> Symbols] /\ Header \in Nat
        /\ size \in Nat /\ size % 4 = 0 /\ size >= 12 /\ Header + size <= SendBuf
        /\ data \in [1 .. size -> Symbols]
    BY <1>0, <1>1, <1>2, <1>4 DEF Buffers
  <2>2. SameBytes(data, 0, EncXORPass(b, Header, size, xorKey), Header, size)
    BY <1>4 DEF c
  <2> QED
    BY <2>1, <2>2, XorPassUndone
<1> HIDE DEF back
<1>6. Whole(f) /\ f.data = data /\ f.key = "static"
  BY <1>0, <1>1, <1>2, <1>3, FrameIsWhole DEF data
<1> HIDE DEF f
<1>7. ASSUME NEW k \in 1 .. n PROVE back[k] = p[k]
  <2>1. 0 + k = k /\ k \in 1 .. (size - 8) /\ Header + k \in 1 .. SendBuf /\ Header + k > Header
        /\ (Header + k) - Header = k /\ Header + k <= Header + n
    BY <1>0, <1>1 DEF Header
  <2>2. back[0 + k] = b[Header + k]
    BY <1>5, <2>1 DEF SameBytes
  <2>3. b[Header + k] = IF Header + k <= Header + n THEN p[(Header + k) - Header] ELSE 0
    BY <2>1 DEF Holds
  <2> QED
    BY <2>1, <2>2, <2>3
<1>8. FirstFrame(f, p)
  <2>1. n <= size
    BY <1>0, <1>1
  <2> HIDE DEF n
  <2> QED
    BY <1>4, <1>5, <1>6, <1>7, <2>1 DEF FirstFrame, n, back
<1>9. w.frame = f /\ w.buf \in Buffers
  BY <1>3, UsedIsBuffer DEF Written, f
<1>10. f \in AFrame
  BY <1>6 DEF Whole
<1> HIDE DEF w
<1>11. Makes(w, p, "static")
  BY <1>6, <1>8, <1>9, <1>10 DEF Makes, FrameOf
<1> QED
  BY <1>11 DEF w, c, size, n

Ends == [first : BOOLEAN, key : KeyNames]

LEMMA RefusedMakesNothing ==
  ASSUME NEW p, NEW key
  PROVE  Makes(Refused, p, key)
BY DEF Makes, Refused

\* The writers of the server and of the game client, of the login client, and of
\* the server for the game servers.
LEMMA WritePacketMakes ==
  ASSUME NEW b, NEW p, Holds(b, p), NEW enc \in Ends, enc.key # "static", NEW xorKey \in Words,
         enc.first => Header + FirstSize(Len(p)) <= SendBuf
  PROVE  Makes(WritePacket(b, Len(p), enc, xorKey), p, IF enc.first THEN "static" ELSE enc.key)
<1> DEFINE n   == Len(p)
           key == IF enc.first THEN "static" ELSE enc.key
<1>1. n \in Nat /\ SendBuf \in Nat /\ enc.first \in BOOLEAN /\ enc.key \in KeyNames \ {"static"}
  BY BuffersAssumption DEF Holds, Ends
<1>2. Len(b) = SendBuf
  BY <1>1, BufferIsSequence DEF Holds, Buffers
<1>3. CASE ~ WriterAccepts(Len(b), n) \/ ~ EncryptAccepts(Len(b), n)
  <2>1. WritePacket(b, n, enc, xorKey) = Refused
    <3>1. CASE ~ WriterAccepts(Len(b), n)
      BY <3>1 DEF WritePacket
    <3>2. CASE WriterAccepts(Len(b), n) /\ ~ EncryptAccepts(Len(b), n)
      BY <3>2, ClearsNothing DEF WritePacket, EncryptPacket
    <3> QED
      BY <1>3, <3>1, <3>2
  <2> QED
    BY <2>1, RefusedMakesNothing
<1>4. CASE WriterAccepts(Len(b), n) /\ EncryptAccepts(Len(b), n)
  <2>1. WritePacket(b, n, enc, xorKey) = EncryptPacket(b, n, enc, xorKey)
    BY <1>4, ClearsNothing DEF WritePacket
  <2>2. CASE enc.first
    <3>1. EncryptPacket(b, n, enc, xorKey) = Written(EncXORPass(b, Header, FirstSize(n), xorKey), "static", FirstSize(n))
      BY <1>4, <2>2 DEF EncryptPacket
    <3> QED
      BY <2>1, <2>2, <3>1, FirstMakes
  <2>3. CASE ~ enc.first
    <3>1. EncryptPacket(b, n, enc, xorKey) = Written(AppendChecksum(b, Header, LaterSize(n)), enc.key, LaterSize(n))
      BY <1>4, <2>3, ClearsNothing DEF EncryptPacket
    <3>2. Header + LaterSize(n) <= SendBuf
      <4>1. /\ RoundUp(n) \in Nat /\ LaterSize(n) \in Nat /\ LaterSize(n) <= RoundUp(n) + 8
            /\ Header + RoundUp(n) + 8 <= SendBuf
        <5> HIDE DEF n
        <5> QED
          BY <1>1, <1>2, <1>4, Sizes, RoundUpIsUp DEF EncryptAccepts
      <4> QED
        BY <1>1, <4>1 DEF Header
    <3> QED
      BY <1>1, <2>1, <2>3, <3>1, <3>2, LaterMakes
  <2> QED
    BY <1>1, <2>2, <2>3
<1> QED
  BY <1>3, <1>4

LEMMA ClientMakes ==
  ASSUME NEW b, NEW p, Holds(b, p), NEW enc \in Ends, enc.key # "static"
  PROVE  Makes(EncryptPacketClient(b, Len(p), enc), p, enc.key)
<1>1. enc.key \in KeyNames \ {"static"}
  BY DEF Ends
<1>2. Len(b) = SendBuf
  BY BuffersAssumption, BufferIsSequence DEF Holds, Buffers
<1>3. CASE ClientAccepts(Len(b), Len(p))
  <2>1. EncryptPacketClient(b, Len(p), enc) =
          Written(AppendChecksum(b, Header, LaterSize(Len(p))), enc.key, LaterSize(Len(p)))
    BY <1>3, ClearsNothing DEF EncryptPacketClient
  <2>2. Header + LaterSize(Len(p)) <= SendBuf
    BY <1>2, <1>3 DEF ClientAccepts
  <2> QED
    BY <1>1, <2>1, <2>2, LaterMakes
<1>4. CASE ~ ClientAccepts(Len(b), Len(p))
  BY <1>4, RefusedMakesNothing DEF EncryptPacketClient
<1> QED
  BY <1>3, <1>4

LEMMA GSMakes ==
  ASSUME NEW b, NEW p, Holds(b, p), NEW enc \in Ends, enc.key # "static"
  PROVE  Makes(GSWritePacket(b, Len(p), enc), p, enc.key)
<1> DEFINE n == Len(p)
<1>1. enc.key \in KeyNames \ {"static"} /\ n \in Nat /\ SendBuf \in Nat
  BY BuffersAssumption DEF Holds, Ends
<1>2. Len(b) = SendBuf
  BY BuffersAssumption, BufferIsSequence DEF Holds, Buffers
<1>3. CASE GSAccepts(Len(b), n)
  <2>1. GSSize(n) = LaterSize(n) /\ LaterSize(n) \in Nat /\ LaterSize(n) <= n + 11
    BY <1>1, Sizes
  <2>2. GSWritePacket(b, n, enc) = Written(AppendChecksum(b, Header, LaterSize(n)), enc.key, LaterSize(n))
    BY <1>3, <2>1 DEF GSWritePacket
  <2>3. n <= SendBuf - 18
    BY <1>2, <1>3 DEF GSAccepts, Header, Spare
  <2>4. Header + LaterSize(n) <= SendBuf
    BY <1>1, <2>1, <2>3 DEF Header
  <2> QED
    BY <1>1, <2>2, <2>4, LaterMakes
<1>4. CASE ~ GSAccepts(Len(b), n)
  BY <1>4, RefusedMakesNothing DEF GSWritePacket
<1> QED
  BY <1>3, <1>4

\* The readers.
LEMMA FrontOf ==
  ASSUME NEW n \in Nat, NEW s \in [1 .. n -> Symbols], NEW p \in Seq(Symbols), Len(p) <= n,
         \A k \in 1 .. Len(p) : s[k] = p[k]
  PROVE  SubSeq(s, 1, Len(p)) = p
<1> DEFINE t == SubSeq(s, 1, Len(p))
<1>1. s \in Seq(Symbols) /\ Len(s) = n /\ Len(p) \in Nat
  BY BufferIsSequence
<1>2. t \in Seq(Symbols) /\ Len(t) = Len(p) /\ \A k \in 1 .. Len(p) : t[k] = s[k]
  BY <1>1
<1> HIDE DEF t
<1>3. t = p
  BY <1>2, SeqEqual
<1> QED
  BY <1>3 DEF t

LEMMA LaterIsRead ==
  ASSUME NEW f, NEW p \in Seq(Symbols), LaterFrame(f, p)
  PROVE  /\ ~ LengthRefused(f, ReadBuf) /\ f.total # Header /\ (f.total - Header) % Block = 0
         /\ VerifyChecksum(f.data, 0, f.total - Header)
         /\ SubSeq(f.data, 1, Len(p)) = p
         /\ SubSeq(SubSeq(f.data, 1, f.total - Header - Checksum), 1, Len(p)) = p
<1> DEFINE size == Len(f.data)
<1>1. /\ f.data \in Seq(Symbols) /\ size \in Nat /\ size >= Block /\ size % Block = 0
      /\ f.total = Header + size /\ f.total <= SendBuf
  BY DEF LaterFrame, Whole, AFrame
<1>2. /\ SendBuf \in Nat /\ ReadBuf \in Nat /\ SendBuf <= ReadBuf /\ Len(p) \in Nat
      /\ Len(p) <= size - Checksum
  BY BuffersAssumption DEF LaterFrame
<1>3. f.data \in [1 .. size -> Symbols]
  BY <1>1, LenProperties
<1>4. SumOf(f.data, 0, size) = 0 /\ \A k \in 1 .. Len(p) : f.data[k] = p[k]
  BY DEF LaterFrame
<1> HIDE DEF size
<1>5. f.total - Header = size /\ ~ LengthRefused(f, ReadBuf) /\ f.total # Header
  BY <1>1, <1>2 DEF LengthRefused, Header, Block
<1>6. VerifyChecksum(f.data, 0, size)
  BY <1>1, <1>4 DEF VerifyChecksum, Block
<1>7. SubSeq(f.data, 1, Len(p)) = p
  BY <1>1, <1>2, <1>3, <1>4, FrontOf DEF Checksum
<1>8. SubSeq(SubSeq(f.data, 1, size - Checksum), 1, Len(p)) = p
  <2> DEFINE most == size - Checksum
             t == SubSeq(f.data, 1, most)
  <2>1. most \in Nat /\ most <= size /\ Len(p) <= most
    BY <1>1, <1>2 DEF Checksum, Block
  <2> HIDE DEF most
  <2>2. t \in Seq(Symbols) /\ Len(t) = most /\ \A k \in 1 .. most : t[k] = f.data[k]
    BY <1>1, <2>1 DEF size
  <2> HIDE DEF t
  <2>3. t \in [1 .. most -> Symbols] /\ \A k \in 1 .. Len(p) : t[k] = p[k]
    BY <1>2, <1>4, <2>1, <2>2, LenProperties
  <2> QED
    BY <2>1, <2>3, FrontOf DEF t, most
<1> QED
  BY <1>1, <1>5, <1>6, <1>7, <1>8

LEMMA ReadersRead ==
  ASSUME NEW f, NEW p \in Seq(Symbols), FrameOf(f, p), NEW enc, f.key = enc.key, f.key # "static"
  PROVE  /\ Arrives(ReadPacket(f, enc, ReadBuf), p)
         /\ Arrives(GSReadPacket(f, enc, ReadBuf), p)
         /\ Arrives(GSClientRead(f, enc, ReadBuf), p)
<1>1. LaterFrame(f, p)
  BY DEF FrameOf
<1>2. /\ ~ LengthRefused(f, ReadBuf) /\ f.total # Header /\ (f.total - Header) % Block = 0
      /\ VerifyChecksum(f.data, 0, f.total - Header)
      /\ SubSeq(f.data, 1, Len(p)) = p
      /\ SubSeq(SubSeq(f.data, 1, f.total - Header - Checksum), 1, Len(p)) = p
  BY <1>1, LaterIsRead
<1>3. \A bytes : SubSeq(bytes, 1, Len(p)) = p => Arrives([ok |-> TRUE, bytes |-> bytes], p)
  BY DEF Arrives
<1>4. Arrives(ReadPacket(f, enc, ReadBuf), p)
  BY <1>2, <1>3 DEF ReadPacket
<1>5. Arrives(GSReadPacket(f, enc, ReadBuf), p)
  BY <1>2, <1>3 DEF GSReadPacket
<1>6. Arrives(GSClientRead(f, enc, ReadBuf), p)
  BY <1>2, <1>3 DEF GSClientRead
<1> QED
  BY <1>4, <1>5, <1>6

LEMMA ReadFirstReads ==
  ASSUME NEW f, NEW p \in Seq(Symbols), FrameOf(f, p), f.key = "static"
  PROVE  Arrives(ReadFirst(f, ReadBuf), p)
<1> DEFINE size == Len(f.data)
           back == DecXORPass(f.data, 0, size)
<1>1. FirstFrame(f, p)
  BY DEF FrameOf
<1>2. /\ size \in Nat /\ f.total = Header + size /\ f.total <= SendBuf
      /\ Len(p) <= size /\ Len(p) \in Nat
  BY <1>1 DEF FirstFrame, Whole, AFrame
<1>3. back \in [1 .. size -> Symbols] /\ \A k \in 1 .. Len(p) : back[k] = p[k]
  BY <1>1 DEF FirstFrame
<1> HIDE DEF size, back
<1>4. f.total - Header = size /\ ~ LengthRefused(f, ReadBuf)
  BY <1>2, BuffersAssumption DEF LengthRefused, Header
<1>5. SubSeq(back, 1, Len(p)) = p
  BY <1>2, <1>3, FrontOf
<1>6. ReadFirst(f, ReadBuf) = [ok |-> TRUE, bytes |-> back]
  BY <1>4 DEF ReadFirst, back
<1> QED
  BY <1>5, <1>6 DEF Arrives

-----------------------------------------------------------------------------
(* The invariant.                                                           *)

\* What is in flight is a frame for each payload that is on its way.
InFlight(frames, payloads) ==
  /\ frames \in Seq(AFrame) /\ payloads \in Seq(Seq(Symbols)) /\ Len(frames) = Len(payloads)
  /\ \A i \in 1 .. Len(frames) : FrameOf(frames[i], payloads[i])

AllUnder(frames, key) == \A i \in 1 .. Len(frames) : frames[i].key = key

\* The first frame is under one key, the others under another.
FirstUnder(frames, key, later) ==
  \A i \in 1 .. Len(frames) : frames[i].key = IF i = 1 THEN key ELSE later

Types ==
  /\ proto \in Protocols /\ open \in BOOLEAN /\ sent \in 0 .. MaxSent
  /\ srv \in Ends /\ cli \in Ends
  /\ spare \in Buffers

\* Nothing has happened before the greeting, and nothing is sent before the client sends.
Started ==
  /\ sent = 0 => up = <<>>
  /\ sent = 0 /\ ~open => /\ down = <<>>
                          /\ cli.key = IF proto = "gs" THEN "default" ELSE "unknown"

\* Which keys the ends have and the frames in flight are under, for the clients of
\* the login server, the game servers, and the clients of the game server.
LoginKeys ==
  /\ srv.key = "dynamic" /\ cli.key \in {"unknown", "dynamic"}
  /\ srv.first <=> sent = 0 /\ ~open
  /\ sent = 0 => Len(down) <= 1
  /\ cli.key = "unknown" => sent = 0 /\ AllUnder(down, "static")
  /\ cli.key = "dynamic" => AllUnder(down, "dynamic")
  /\ AllUnder(up, "dynamic")

GSKeys ==
  /\ ~srv.first /\ srv.key \in {"default", "new"}
  /\ cli.key = IF sent = 0 THEN "default" ELSE "new"
  /\ srv.key = "default" => Len(up) = sent /\ FirstUnder(up, "default", "new")
  /\ srv.key = "new" => sent > 0 /\ AllUnder(up, "new")
  /\ AllUnder(down, cli.key)

GameKeys ==
  /\ srv.key = "dynamic" /\ cli.key \in {"unknown", "dynamic"} /\ down = <<>>
  /\ cli.first <=> sent = 0
  /\ open => Len(up) = sent
  /\ open /\ up # <<>> => up[1].key = "static"

KeysInv ==
  /\ proto = "login" => LoginKeys
  /\ proto = "gs" => GSKeys
  /\ proto = "game" => GameKeys

FramingInv ==
  /\ Types /\ InFlight(up, asked) /\ InFlight(down, told)
  /\ Started /\ KeysInv /\ Delivered

-----------------------------------------------------------------------------
(* Frames that come and go.                                                 *)

LEMMA InFlightMore ==
  ASSUME NEW frames, NEW payloads, InFlight(frames, payloads),
         NEW f \in AFrame, NEW p \in Seq(Symbols), FrameOf(f, p)
  PROVE  InFlight(Append(frames, f), Append(payloads, p))
<1> DEFINE n == Len(frames)
           S == Seq(Symbols)
<1>1. /\ frames \in Seq(AFrame) /\ payloads \in Seq(S) /\ Len(payloads) = n /\ n \in Nat
      /\ \A i \in 1 .. n : FrameOf(frames[i], payloads[i])
  BY DEF InFlight
<1> HIDE DEF n, S
<1>2. /\ Append(frames, f) \in Seq(AFrame) /\ Len(Append(frames, f)) = n + 1
      /\ \A i \in 1 .. n : Append(frames, f)[i] = frames[i]
      /\ Append(frames, f)[n + 1] = f
  BY <1>1, AppendProperties DEF n
<1>3. /\ Append(payloads, p) \in Seq(S) /\ Len(Append(payloads, p)) = n + 1
      /\ \A i \in 1 .. n : Append(payloads, p)[i] = payloads[i]
      /\ Append(payloads, p)[n + 1] = p
  BY <1>1, AppendProperties DEF S
<1>4. ASSUME NEW i \in 1 .. (n + 1) PROVE FrameOf(Append(frames, f)[i], Append(payloads, p)[i])
  <2>1. CASE i = n + 1
    BY <1>2, <1>3, <2>1
  <2>2. CASE i # n + 1
    <3>1. i \in 1 .. n
      BY <1>1, <2>2
    <3> QED
      BY <1>1, <1>2, <1>3, <3>1
  <2> QED
    BY <2>1, <2>2
<1> QED
  BY <1>2, <1>3, <1>4 DEF InFlight, S

LEMMA InFlightNext ==
  ASSUME NEW frames, NEW payloads, InFlight(frames, payloads), frames # <<>>
  PROVE  /\ Head(frames) = frames[1] /\ Head(frames) \in AFrame /\ Head(payloads) \in Seq(Symbols)
         /\ FrameOf(Head(frames), Head(payloads))
         /\ InFlight(Tail(frames), Tail(payloads))
<1> DEFINE n == Len(frames)
           S == Seq(Symbols)
<1>1. /\ frames \in Seq(AFrame) /\ payloads \in Seq(S) /\ Len(payloads) = n /\ n \in Nat
      /\ \A i \in 1 .. n : FrameOf(frames[i], payloads[i])
  BY DEF InFlight
<1> HIDE DEF S
<1>2. n >= 1 /\ payloads # <<>>
  BY <1>1, EmptySeq
<1>3. /\ Head(frames) = frames[1] /\ Head(frames) \in AFrame
      /\ Tail(frames) \in Seq(AFrame) /\ Len(Tail(frames)) = n - 1
      /\ \A i \in 1 .. (n - 1) : Tail(frames)[i] = frames[i + 1]
  BY <1>1, <1>2, HeadTailProperties
<1>4. /\ Head(payloads) = payloads[1] /\ Head(payloads) \in S
      /\ Tail(payloads) \in Seq(S) /\ Len(Tail(payloads)) = n - 1
      /\ \A i \in 1 .. (n - 1) : Tail(payloads)[i] = payloads[i + 1]
  BY <1>1, <1>2, HeadTailProperties
<1> HIDE DEF n
<1>5. ASSUME NEW i \in 1 .. (n - 1) PROVE FrameOf(Tail(frames)[i], Tail(payloads)[i])
  <2>1. i + 1 \in 1 .. n
    BY <1>1
  <2> QED
    BY <1>1, <1>3, <1>4, <2>1
<1>6. FrameOf(Head(frames), Head(payloads))
  BY <1>1, <1>2, <1>3, <1>4
<1> QED
  BY <1>3, <1>4, <1>5, <1>6 DEF InFlight, S

LEMMA UnderMore ==
  ASSUME NEW frames \in Seq(AFrame), NEW f \in AFrame
  PROVE  /\ Len(Append(frames, f)) = Len(frames) + 1 /\ Append(frames, f) # <<>>
         /\ frames # <<>> => Append(frames, f)[1] = frames[1]
         /\ frames = <<>> => Append(frames, f)[1] = f
         /\ \A key : AllUnder(frames, key) /\ f.key = key => AllUnder(Append(frames, f), key)
         /\ \A key, later :
              /\ FirstUnder(frames, key, later)
              /\ f.key = IF frames = <<>> THEN key ELSE later
              => FirstUnder(Append(frames, f), key, later)
<1> DEFINE n == Len(frames)
           g == Append(frames, f)
<1>1. /\ n \in Nat /\ Len(g) = n + 1 /\ g # <<>>
      /\ \A i \in 1 .. n : g[i] = frames[i]
      /\ g[n + 1] = f
  BY AppendProperties
<1>2. (frames = <<>> => n = 0) /\ (frames # <<>> => n >= 1)
  BY EmptySeq
<1> HIDE DEF n, g
<1>3. ASSUME NEW key, AllUnder(frames, key), f.key = key PROVE AllUnder(g, key)
  <2> SUFFICES ASSUME NEW i \in 1 .. (n + 1) PROVE g[i].key = key
    BY <1>1 DEF AllUnder
  <2>1. i = n + 1 \/ i \in 1 .. n
    BY <1>1
  <2> QED
    BY <1>1, <1>3, <2>1 DEF AllUnder, n
<1>4. ASSUME NEW key, NEW later, FirstUnder(frames, key, later),
             f.key = IF frames = <<>> THEN key ELSE later
      PROVE  FirstUnder(g, key, later)
  <2> SUFFICES ASSUME NEW i \in 1 .. (n + 1) PROVE g[i].key = IF i = 1 THEN key ELSE later
    BY <1>1 DEF FirstUnder
  <2>1. CASE i \in 1 .. n
    BY <1>1, <1>4, <2>1 DEF FirstUnder, n
  <2>2. CASE i = n + 1
    <3>1. (i = 1) <=> (frames = <<>>)
      BY <1>1, <1>2, <2>2
    <3> QED
      BY <1>1, <1>4, <2>2, <3>1
  <2> QED
    BY <1>1, <2>1, <2>2
<1>5. (frames # <<>> => g[1] = frames[1]) /\ (frames = <<>> => g[1] = f)
  BY <1>1, <1>2
<1> QED
  BY <1>1, <1>3, <1>4, <1>5 DEF n, g

LEMMA UnderNext ==
  ASSUME NEW frames \in Seq(AFrame), frames # <<>>
  PROVE  /\ Len(Tail(frames)) = Len(frames) - 1 /\ Len(frames) >= 1
         /\ Len(frames) <= 1 => Tail(frames) = <<>>
         /\ \A key : AllUnder(frames, key) => AllUnder(Tail(frames), key) /\ Head(frames).key = key
         /\ \A key, later :
              FirstUnder(frames, key, later) => AllUnder(Tail(frames), later) /\ Head(frames).key = key
<1> DEFINE n == Len(frames)
           t == Tail(frames)
<1>1. /\ n \in Nat /\ n >= 1 /\ Len(t) = n - 1 /\ t \in Seq(AFrame)
      /\ Head(frames) = frames[1]
      /\ \A i \in 1 .. (n - 1) : t[i] = frames[i + 1]
  BY EmptySeq, HeadTailProperties
<1>2. n <= 1 => t = <<>>
  BY <1>1, EmptySeq
<1> HIDE DEF n, t
<1>3. ASSUME NEW key, AllUnder(frames, key) PROVE AllUnder(t, key) /\ frames[1].key = key
  BY <1>1, <1>3 DEF AllUnder, n
<1>4. ASSUME NEW key, NEW later, FirstUnder(frames, key, later)
      PROVE  AllUnder(t, later) /\ frames[1].key = key
  BY <1>1, <1>4 DEF AllUnder, FirstUnder, n
<1> QED
  BY <1>1, <1>2, <1>3, <1>4 DEF n, t

-----------------------------------------------------------------------------
(* The invariant is kept.                                                   *)

LEMMA PayloadFacts ==
  /\ \A p \in Payloads \cup Greetings : p \in Seq(Symbols)
  /\ \A p \in Greetings : Header + FirstSize(Len(p)) <= SendBuf
  /\ \A k \in XorKeys : k \in Words
  /\ 0 \in Words /\ MaxSent \in Nat /\ Protocols \subseteq {"login", "gs", "game"}
BY PayloadsAssumption, GreetingsAssumption, WordsAreNats, ProtocolsAssumption

LEMMA Initially == FramingInit => FramingInv
<1> SUFFICES ASSUME FramingInit PROVE FramingInv
  OBVIOUS
<1> USE DEF FramingInit
<1>1. Types
  <2>1. srv \in Ends /\ cli \in Ends
    BY DEF Ends, KeyNames
  <2>2. spare \in Buffers
    <3>1. 0 \in Symbols /\ Base - 1 \in Symbols
      BY BaseIsNat DEF Symbols
    <3> QED
      BY <3>1 DEF Buffers
  <2>3. sent \in 0 .. MaxSent
    BY PayloadFacts
  <2> QED
    BY <2>1, <2>2, <2>3 DEF Types
<1>2. InFlight(up, asked) /\ InFlight(down, told)
  BY DEF InFlight
<1>3. Started
  BY DEF Started
<1>4. KeysInv
  <2>0. Len(up) = 0 /\ Len(down) = 0 /\ \A key : AllUnder(up, key) /\ AllUnder(down, key)
    BY DEF AllUnder
  <2>1. ASSUME proto = "login" PROVE LoginKeys
    <3>1. srv.first = TRUE /\ srv.key = "dynamic" /\ cli.key = "unknown"
      BY <2>1
    <3> QED
      BY <2>0, <3>1 DEF LoginKeys
  <2>2. ASSUME proto = "gs" PROVE GSKeys
    <3>1. srv.first = FALSE /\ srv.key = "default" /\ cli.key = "default"
      BY <2>2
    <3> QED
      BY <2>0, <3>1 DEF GSKeys, FirstUnder
  <2>3. ASSUME proto = "game" PROVE GameKeys
    <3>1. srv.key = "dynamic" /\ cli.key = "unknown" /\ cli.first = TRUE
      BY <2>3
    <3> QED
      BY <2>0, <3>1 DEF GameKeys
  <2> QED
    BY <2>1, <2>2, <2>3 DEF KeysInv
<1>5. Delivered
  BY DEF Delivered, Nothing
<1> QED
  BY <1>1, <1>2, <1>3, <1>4, <1>5 DEF FramingInv

\* The server has sent w, which its writer made of p.
LEMMA Replied ==
  ASSUME FramingInv, NEW p \in Seq(Symbols), NEW w, NEW key, Makes(w, p, key), w.ok, Replies(w, p)
  PROVE  /\ InFlight(down, told)' /\ spare' \in Buffers /\ srv' \in Ends
         /\ srv'.key = srv.key /\ srv'.first = FALSE
         /\ w.frame \in AFrame /\ w.frame.key = key /\ down' = Append(down, w.frame)
<1>1. FrameOf(w.frame, p) /\ w.frame \in AFrame /\ w.frame.key = key /\ w.buf \in Buffers
  BY DEF Makes
<1>2. down' = Append(down, w.frame) /\ told' = Append(told, p) /\ spare' = w.buf
  BY DEF Replies
<1>3. InFlight(down', told')
  BY <1>1, <1>2, InFlightMore DEF FramingInv
<1>4. srv' \in Ends /\ srv'.key = srv.key /\ srv'.first = FALSE
  BY DEF Replies, Ends, FramingInv, Types
<1> QED
  BY <1>1, <1>2, <1>3, <1>4

LEMMA GreetKeeps ==
  ASSUME FramingInv, Greet
  PROVE  FramingInv'
<1>1. /\ Types /\ InFlight(up, asked) /\ InFlight(down, told)
      /\ Started /\ KeysInv /\ Delivered
  BY DEF FramingInv
<1>2. /\ sent = 0 /\ ~open /\ got = Nothing /\ open' = TRUE
      /\ UNCHANGED <<proto, up, asked, sent, got>>
  BY DEF Greet
<1>3. InFlight(up, asked)' /\ up = <<>> /\ down = <<>>
  BY <1>1, <1>2 DEF Started
<1>4. Delivered'
  BY <1>1, <1>2 DEF Delivered, Nothing
<1>5. proto \in {"login", "gs", "game"} /\ srv \in Ends /\ cli \in Ends
  BY <1>1, PayloadFacts DEF Types
<1>6. CASE proto = "game"
  <2>1. cli' = [cli EXCEPT !.key = "dynamic"] /\ UNCHANGED <<srv, spare, down, told>>
    BY <1>6 DEF Greet
  <2>2. cli' \in Ends /\ cli'.key = "dynamic" /\ cli'.first = cli.first
    BY <1>5, <2>1 DEF Ends, KeyNames
  <2>3. Types'
    BY <1>1, <1>2, <2>1, <2>2 DEF Types
  <2>4. InFlight(down, told)'
    BY <1>1, <2>1
  <2>5. Started'
    BY <1>2, <1>3 DEF Started
  <2>6. GameKeys'
    BY <1>1, <1>2, <1>3, <1>6, <2>1, <2>2 DEF KeysInv, GameKeys
  <2> QED
    BY <1>2, <1>3, <1>4, <1>6, <2>3, <2>4, <2>5, <2>6 DEF FramingInv, KeysInv
<1>7. CASE proto # "game"
  <2>1. PICK p \in Greetings, k \in XorKeys :
               LET b == Fill(FromPool(spare), p)
                   w == IF proto = "gs" THEN GSWritePacket(b, Len(p), srv) ELSE WritePacket(b, Len(p), srv, k)
               IN  w.ok /\ Replies(w, p)
    BY <1>7 DEF Greet
  <2> DEFINE b == Fill(FromPool(spare), p)
             w == IF proto = "gs" THEN GSWritePacket(b, Len(p), srv) ELSE WritePacket(b, Len(p), srv, k)
             key == IF proto = "gs" THEN "default" ELSE "static"
  <2>2. w.ok /\ Replies(w, p)
    BY <2>1
  <2>3. UNCHANGED cli
    BY <1>7 DEF Greet
  <2>4. p \in Seq(Symbols) /\ k \in Words /\ Header + FirstSize(Len(p)) <= SendBuf
    BY PayloadFacts
  <2>5. Holds(b, p)
    BY <1>1, <2>4, ServersBuffer DEF Types
  <2> HIDE DEF b
  <2>6. Makes(w, p, key)
    <3>1. CASE proto = "gs"
      <4>1. srv.key = "default"
        BY <1>1, <1>2, <1>5, <3>1 DEF KeysInv, GSKeys
      <4>2. Makes(GSWritePacket(b, Len(p), srv), p, srv.key)
        BY <1>5, <2>5, <4>1, GSMakes
      <4> QED
        BY <3>1, <4>1, <4>2
    <3>2. CASE proto = "login"
      <4>1. srv.key = "dynamic" /\ srv.first
        BY <1>1, <1>2, <3>2 DEF KeysInv, LoginKeys
      <4>2. Makes(WritePacket(b, Len(p), srv, k), p, IF srv.first THEN "static" ELSE srv.key)
        BY <1>5, <2>4, <2>5, <4>1, WritePacketMakes
      <4> QED
        BY <3>2, <4>1, <4>2
    <3> QED
      BY <1>5, <1>7, <3>1, <3>2
  <2> HIDE DEF w, key
  <2>7. /\ InFlight(down, told)' /\ spare' \in Buffers /\ srv' \in Ends
        /\ srv'.key = srv.key /\ srv'.first = FALSE
        /\ w.frame \in AFrame /\ w.frame.key = key /\ down' = Append(down, w.frame)
    BY <2>2, <2>4, <2>6, Replied
  <2>8. AllUnder(down', key) /\ Len(down') = 1
    <3>1. down' = <<w.frame>>
      BY <1>3, <2>7
    <3> QED
      BY <2>7, <3>1 DEF AllUnder
  <2>9. Types'
    BY <1>1, <1>2, <2>3, <2>7 DEF Types
  <2>10. Started'
    BY <1>2, <1>3 DEF Started
  <2>11. proto = "login" => LoginKeys'
    <3> SUFFICES ASSUME proto = "login" PROVE LoginKeys'
      OBVIOUS
    <3>1. LoginKeys /\ key = "static" /\ cli.key = "unknown"
      BY <1>1, <1>2 DEF KeysInv, key, Started
    <3> QED
      BY <1>2, <1>3, <2>3, <2>7, <2>8, <3>1 DEF LoginKeys
  <2>12. proto = "gs" => GSKeys'
    <3> SUFFICES ASSUME proto = "gs" PROVE GSKeys'
      OBVIOUS
    <3>1. GSKeys /\ key = "default" /\ cli.key = "default"
      BY <1>1, <1>2 DEF KeysInv, key, Started
    <3> QED
      BY <1>2, <1>3, <2>3, <2>7, <2>8, <3>1 DEF GSKeys
  <2>13. KeysInv'
    BY <1>2, <1>7, <2>11, <2>12 DEF KeysInv
  <2> QED
    BY <1>3, <1>4, <2>7, <2>9, <2>10, <2>13 DEF FramingInv
<1> QED
  BY <1>6, <1>7

LEMMA ClientReadsKeeps ==
  ASSUME FramingInv, ClientReads
  PROVE  FramingInv'
<1> DEFINE f == Head(down)
           r == CASE proto = "gs" -> GSClientRead(f, cli, ReadBuf)
                  [] proto = "login" /\ cli.key = "unknown" -> ReadFirst(f, ReadBuf)
                  [] OTHER -> ReadPacket(f, cli, ReadBuf)
<1>1. /\ Types /\ InFlight(up, asked) /\ InFlight(down, told)
      /\ Started /\ KeysInv /\ Delivered
  BY DEF FramingInv
<1>2. /\ down # <<>>
      /\ got' = [end |-> "client", ok |-> r.ok, meant |-> Head(told), bytes |-> r.bytes]
      /\ cli' = IF r.ok /\ cli.key = "unknown" THEN [cli EXCEPT !.key = "dynamic"] ELSE cli
      /\ down' = Tail(down) /\ told' = Tail(told)
      /\ UNCHANGED <<proto, srv, spare, up, asked, sent, open>>
  BY DEF ClientReads
<1> HIDE DEF r
<1>3. proto \in {"login", "gs"}
  BY <1>1, <1>2, PayloadFacts DEF Types, KeysInv, GameKeys
<1>4. /\ f \in AFrame /\ Head(told) \in Seq(Symbols) /\ FrameOf(f, Head(told))
      /\ InFlight(Tail(down), Tail(told)) /\ down \in Seq(AFrame)
  BY <1>1, <1>2, InFlightNext DEF InFlight
<1>5. /\ \A key : AllUnder(down, key) => AllUnder(Tail(down), key) /\ f.key = key
      /\ Len(down) <= 1 => Tail(down) = <<>>
      /\ Len(down) <= 1 => Len(Tail(down)) <= 1
  BY <1>2, <1>4, UnderNext
<1> HIDE DEF f
<1>6. Arrives(r, Head(told))
  <2>1. CASE proto = "gs"
    <3>1. f.key = cli.key /\ f.key # "static"
      BY <1>1, <1>5, <2>1 DEF KeysInv, GSKeys
    <3>2. r = GSClientRead(f, cli, ReadBuf)
      BY <2>1 DEF r, f
    <3> QED
      BY <1>4, <3>1, <3>2, ReadersRead
  <2>2. CASE proto = "login" /\ cli.key = "unknown"
    <3>1. f.key = "static"
      BY <1>1, <1>5, <2>2 DEF KeysInv, LoginKeys
    <3>2. r = ReadFirst(f, ReadBuf)
      BY <2>2 DEF r, f
    <3> QED
      BY <1>4, <3>1, <3>2, ReadFirstReads
  <2>3. CASE proto = "login" /\ cli.key # "unknown"
    <3>1. f.key = cli.key /\ f.key # "static"
      BY <1>1, <1>5, <2>3 DEF KeysInv, LoginKeys
    <3>2. r = ReadPacket(f, cli, ReadBuf)
      BY <2>3 DEF r, f
    <3> QED
      BY <1>4, <3>1, <3>2, ReadersRead
  <2> QED
    BY <1>3, <2>1, <2>2, <2>3
<1>7. r.ok /\ SubSeq(r.bytes, 1, Len(Head(told))) = Head(told)
  BY <1>6 DEF Arrives
<1>8. Delivered'
  BY <1>2, <1>3, <1>7 DEF Delivered
<1>9. InFlight(down, told)' /\ InFlight(up, asked)'
  BY <1>1, <1>2, <1>4
<1>10. /\ cli' \in Ends /\ cli'.first = cli.first
       /\ cli'.key = IF cli.key = "unknown" THEN "dynamic" ELSE cli.key
  <2>1. cli \in Ends
    BY <1>1 DEF Types
  <2>2. cli' = IF cli.key = "unknown" THEN [cli EXCEPT !.key = "dynamic"] ELSE cli
    BY <1>2, <1>7
  <2> QED
    BY <2>1, <2>2 DEF Ends, KeyNames
<1>11. Types'
  BY <1>1, <1>2, <1>10 DEF Types
<1>12. sent = 0 => open
  BY <1>1, <1>2 DEF Types, Started
<1>13. Started'
  BY <1>1, <1>2, <1>12 DEF Started
<1>14. proto = "login" => LoginKeys'
  <2> SUFFICES ASSUME proto = "login" PROVE LoginKeys'
    OBVIOUS
  <2>1. LoginKeys
    BY <1>1 DEF KeysInv
  <2>2. cli.key = "unknown" => Tail(down) = <<>>
    BY <1>5, <2>1 DEF LoginKeys
  <2>3. cli'.key = "dynamic"
    BY <1>10, <2>1 DEF LoginKeys
  <2>4. AllUnder(down', "dynamic")
    <3>1. CASE cli.key = "unknown"
      BY <1>2, <2>2, <3>1 DEF AllUnder
    <3>2. CASE cli.key = "dynamic"
      BY <1>2, <1>5, <2>1, <3>2 DEF LoginKeys
    <3> QED
      BY <2>1, <3>1, <3>2 DEF LoginKeys
  <2> QED
    BY <1>2, <1>5, <2>1, <2>3, <2>4 DEF LoginKeys
<1>15. proto = "gs" => GSKeys'
  <2> SUFFICES ASSUME proto = "gs" PROVE GSKeys'
    OBVIOUS
  <2>1. GSKeys /\ cli' = cli
    BY <1>1, <1>2 DEF KeysInv, GSKeys
  <2> QED
    BY <1>2, <1>5, <2>1 DEF GSKeys
<1>16. KeysInv'
  BY <1>2, <1>3, <1>14, <1>15 DEF KeysInv
<1> QED
  BY <1>8, <1>9, <1>11, <1>13, <1>16 DEF FramingInv

LEMMA ClientSendsKeeps ==
  ASSUME FramingInv, ClientSends
  PROVE  FramingInv'
<1>1. /\ Types /\ InFlight(up, asked) /\ InFlight(down, told)
      /\ Started /\ KeysInv /\ Delivered
  BY DEF FramingInv
<1>2. PICK p \in IF proto = "game" /\ cli.first THEN Greetings ELSE Payloads, k \in XorKeys :
       LET b == Fill([i \in 1 .. SendBuf |-> 0], p)
           w == CASE proto = "game" -> WritePacket(b, Len(p), cli, k)
                  [] OTHER -> EncryptPacketClient(b, Len(p), cli)
       IN  /\ w.ok
           /\ up' = Append(up, w.frame)
           /\ asked' = Append(asked, p)
  BY DEF ClientSends
<1> DEFINE b == Fill([i \in 1 .. SendBuf |-> 0], p)
           w == CASE proto = "game" -> WritePacket(b, Len(p), cli, k)
                  [] OTHER -> EncryptPacketClient(b, Len(p), cli)
           key == IF proto = "game" /\ cli.first THEN "static" ELSE cli.key
<1>3. w.ok /\ up' = Append(up, w.frame) /\ asked' = Append(asked, p)
  BY <1>2
<1>4. /\ sent < MaxSent /\ open
      /\ cli.key # "unknown" /\ (proto = "gs" /\ sent = 0 => down = <<>>)
      /\ cli' = [first |-> cli.first /\ proto # "game", key |-> IF proto = "gs" THEN "new" ELSE cli.key]
      /\ sent' = sent + 1
      /\ UNCHANGED <<proto, srv, spare, down, told, got, open>>
  BY DEF ClientSends
<1>5. /\ p \in Seq(Symbols) /\ k \in Words
      /\ proto = "game" /\ cli.first => Header + FirstSize(Len(p)) <= SendBuf
  BY PayloadFacts
<1>6. /\ proto \in {"login", "gs", "game"} /\ srv \in Ends /\ cli \in Ends /\ open \in BOOLEAN
      /\ sent \in 0 .. MaxSent /\ MaxSent \in Nat
  BY <1>1, PayloadFacts DEF Types
<1>7. Holds(b, p)
  BY <1>5, ClientsBuffer
<1> HIDE DEF b
<1>8. cli.key # "static" /\ cli.first \in BOOLEAN
  BY <1>1, <1>6 DEF Ends, KeysInv, LoginKeys, GSKeys, GameKeys
<1>9. Makes(w, p, key)
  <2>1. CASE proto = "game"
    <3>1. Makes(WritePacket(b, Len(p), cli, k), p, IF cli.first THEN "static" ELSE cli.key)
      BY <1>5, <1>6, <1>7, <1>8, <2>1, WritePacketMakes
    <3> QED
      BY <2>1, <3>1
  <2>2. CASE proto # "game"
    <3>1. Makes(EncryptPacketClient(b, Len(p), cli), p, cli.key)
      BY <1>6, <1>7, <1>8, ClientMakes
    <3> QED
      BY <2>2, <3>1
  <2> QED
    BY <2>1, <2>2
<1> HIDE DEF w, key
<1>10. w.frame \in AFrame /\ w.frame.key = key /\ FrameOf(w.frame, p)
  BY <1>3, <1>9 DEF Makes
<1>11. InFlight(up, asked)' /\ InFlight(down, told)' /\ up \in Seq(AFrame) /\ Len(up) \in Nat
  BY <1>1, <1>3, <1>4, <1>5, <1>10, InFlightMore DEF InFlight
<1>12. /\ Len(up') = Len(up) + 1 /\ up' # <<>>
       /\ up # <<>> => up'[1] = up[1]
       /\ up = <<>> => up'[1] = w.frame
       /\ AllUnder(up, key) => AllUnder(up', key)
       /\ \A first, later : /\ FirstUnder(up, first, later)
                            /\ key = IF up = <<>> THEN first ELSE later
                            => FirstUnder(up', first, later)
  BY <1>3, <1>10, <1>11, UnderMore
<1>13. Delivered'
  BY <1>1, <1>4 DEF Delivered
<1>14. /\ cli' \in Ends /\ cli'.key = IF proto = "gs" THEN "new" ELSE cli.key
       /\ proto = "game" => cli'.first = FALSE
       /\ sent' \in 0 .. MaxSent /\ sent' > 0 /\ sent' # 0
  <2>1. sent' \in 0 .. MaxSent /\ sent' > 0 /\ sent' # 0
    BY <1>4, <1>6
  <2>2. cli'.key = IF proto = "gs" THEN "new" ELSE cli.key
    BY <1>4
  <2>3. cli'.first = (cli.first /\ proto # "game")
    BY <1>4
  <2>4. cli' \in Ends
    <3>1. cli.key \in KeyNames /\ "new" \in KeyNames
      BY <1>6 DEF Ends, KeyNames
    <3>2. (IF proto = "gs" THEN "new" ELSE cli.key) \in KeyNames
      BY <3>1
    <3>3. (cli.first /\ proto # "game") \in BOOLEAN
      OBVIOUS
    <3> QED
      BY <1>4, <3>2, <3>3 DEF Ends
  <2> QED
    BY <2>1, <2>2, <2>3, <2>4
<1>15. Types'
  BY <1>1, <1>4, <1>14 DEF Types
<1>16. Started'
  BY <1>14 DEF Started
<1>17. proto = "login" => LoginKeys'
  <2> SUFFICES ASSUME proto = "login" PROVE LoginKeys'
    OBVIOUS
  <2>1. LoginKeys
    BY <1>1 DEF KeysInv
  <2>2. key = "dynamic" /\ cli.key = "dynamic" /\ cli'.key = "dynamic"
    BY <1>4, <1>14, <2>1 DEF key, LoginKeys
  <2> QED
    BY <1>4, <1>12, <1>14, <2>1, <2>2 DEF LoginKeys
<1>18. proto = "gs" => GSKeys'
  <2> SUFFICES ASSUME proto = "gs" PROVE GSKeys'
    OBVIOUS
  <2>1. GSKeys
    BY <1>1 DEF KeysInv
  <2>2. key = cli.key /\ cli'.key = "new"
    BY <1>14 DEF key
  <2>3. srv.key = "default" => Len(up') = sent' /\ FirstUnder(up', "default", "new")
    <3> SUFFICES ASSUME srv.key = "default" PROVE Len(up') = sent' /\ FirstUnder(up', "default", "new")
      OBVIOUS
    <3>1. Len(up) = sent /\ FirstUnder(up, "default", "new")
      BY <2>1 DEF GSKeys
    <3>2. sent = 0 <=> up = <<>>
      BY <1>11, <3>1, EmptySeq
    <3>3. key = IF up = <<>> THEN "default" ELSE "new"
      BY <2>1, <2>2, <3>2 DEF GSKeys
    <3> QED
      BY <1>4, <1>12, <3>1, <3>3
  <2>4. srv.key = "new" => AllUnder(up', "new")
    BY <1>12, <2>1, <2>2 DEF GSKeys
  <2>5. AllUnder(down', "new")
    <3>1. CASE sent = 0
      BY <1>4, <3>1 DEF AllUnder
    <3>2. CASE sent # 0
      BY <1>4, <2>1, <3>2 DEF GSKeys
    <3> QED
      BY <3>1, <3>2
  <2> QED
    BY <1>4, <1>14, <2>1, <2>2, <2>3, <2>4, <2>5 DEF GSKeys
<1>19. proto = "game" => GameKeys'
  <2> SUFFICES ASSUME proto = "game" PROVE GameKeys'
    OBVIOUS
  <2>1. GameKeys
    BY <1>1 DEF KeysInv
  <2>2. up'[1].key = "static"
    <3>1. CASE up = <<>>
      <4>1. sent = 0
        BY <1>4, <2>1, <3>1 DEF GameKeys
      <4>2. key = "static"
        BY <2>1, <4>1 DEF key, GameKeys
      <4> QED
        BY <1>10, <1>12, <3>1, <4>2
    <3>2. CASE up # <<>>
      BY <1>4, <1>12, <2>1, <3>2 DEF GameKeys
    <3> QED
      BY <3>1, <3>2
  <2> QED
    BY <1>4, <1>6, <1>12, <1>14, <2>1, <2>2 DEF GameKeys
<1>20. KeysInv'
  BY <1>4, <1>17, <1>18, <1>19 DEF KeysInv
<1> QED
  BY <1>11, <1>13, <1>15, <1>16, <1>20 DEF FramingInv

LEMMA ServerHandlesKeeps ==
  ASSUME FramingInv, ServerHandles
  PROVE  FramingInv'
<1> DEFINE f == Head(up)
           r == IF proto = "gs" THEN GSReadPacket(f, srv, ReadBuf) ELSE ReadPacket(f, srv, ReadBuf)
           Answers ==
             /\ proto # "game" /\ (proto = "gs" => srv.key = "new")
             /\ \E p \in Payloads :
                  LET b == Fill(FromPool(spare), p)
                      w == IF proto = "gs" THEN GSWritePacket(b, Len(p), srv)
                           ELSE WritePacket(b, Len(p), srv, 0)
                  IN  IF w.ok THEN Replies(w, p) /\ UNCHANGED open
                      ELSE open' = FALSE /\ UNCHANGED <<srv, spare, down, told>>
           Quiet == srv' = SwitchKey(srv) /\ UNCHANGED <<spare, down, told, open>>
           Closes == open' = FALSE /\ UNCHANGED <<srv, spare, down, told>>
<1>1. /\ Types /\ InFlight(up, asked) /\ InFlight(down, told)
      /\ Started /\ KeysInv /\ Delivered
  BY DEF FramingInv
<1>2. /\ up # <<>> /\ open
      /\ up' = Tail(up) /\ asked' = Tail(asked)
      /\ got' = [end |-> "server", ok |-> r.ok, meant |-> Head(asked), bytes |-> r.bytes]
      /\ IF ~r.ok THEN Closes ELSE Answers \/ Quiet
      /\ UNCHANGED <<proto, cli, sent>>
  BY DEF ServerHandles
<1> HIDE DEF r, Answers, Quiet, Closes
<1>3. /\ proto \in {"login", "gs", "game"} /\ srv \in Ends /\ cli \in Ends /\ spare \in Buffers
      /\ sent \in 0 .. MaxSent /\ MaxSent \in Nat
  BY <1>1, PayloadFacts DEF Types
<1>4. /\ f = up[1] /\ f \in AFrame /\ Head(asked) \in Seq(Symbols) /\ FrameOf(f, Head(asked))
      /\ InFlight(Tail(up), Tail(asked)) /\ up \in Seq(AFrame)
  BY <1>1, <1>2, InFlightNext DEF InFlight
<1>5. /\ \A key : AllUnder(up, key) => AllUnder(Tail(up), key) /\ f.key = key
      /\ \A key, later : FirstUnder(up, key, later) => AllUnder(Tail(up), later) /\ f.key = key
  BY <1>2, <1>4, UnderNext
<1> HIDE DEF f
<1>6. sent > 0 /\ sent # 0
  BY <1>1, <1>2, <1>3 DEF Started
<1>7. Started'
  BY <1>2, <1>6 DEF Started
<1>8. InFlight(up, asked)'
  BY <1>2, <1>4
<1>9. CASE proto = "game"
  <2>1. GameKeys
    BY <1>1, <1>9 DEF KeysInv
  <2>2. f.key # srv.key
    BY <1>2, <1>4, <2>1 DEF GameKeys
  <2>3. r = Failed
    BY <1>9, <2>2 DEF r, ReadPacket
  <2>4. ~ r.ok
    BY <2>3 DEF Failed
  <2>5. open' = FALSE /\ UNCHANGED <<srv, spare, down, told>>
    BY <1>2, <2>4 DEF Closes
  <2>6. Types'
    BY <1>1, <1>2, <2>5 DEF Types
  <2>7. InFlight(down, told)'
    BY <1>1, <2>5
  <2>8. Delivered'
    BY <1>2, <1>9, <2>4, <2>5 DEF Delivered
  <2>9. GameKeys'
    BY <1>2, <2>1, <2>5 DEF GameKeys
  <2>10. KeysInv'
    BY <1>2, <1>9, <2>9 DEF KeysInv
  <2> QED
    BY <1>7, <1>8, <2>6, <2>7, <2>8, <2>10 DEF FramingInv
<1>10. CASE proto # "game"
  <2>1. /\ proto = "login" => LoginKeys
        /\ proto = "gs" => GSKeys
    BY <1>1 DEF KeysInv
  <2>2. f.key = srv.key /\ f.key # "static"
    <3>1. CASE proto = "login"
      BY <1>5, <2>1, <3>1 DEF LoginKeys
    <3>2. CASE proto = "gs"
      BY <1>5, <2>1, <3>2 DEF GSKeys
    <3> QED
      BY <1>3, <1>10, <3>1, <3>2
  <2>3. Arrives(r, Head(asked))
    <3>1. Arrives(ReadPacket(f, srv, ReadBuf), Head(asked)) /\ Arrives(GSReadPacket(f, srv, ReadBuf), Head(asked))
      BY <1>4, <2>2, ReadersRead
    <3> QED
      BY <3>1 DEF r
  <2>4. r.ok /\ SubSeq(r.bytes, 1, Len(Head(asked))) = Head(asked)
    BY <2>3 DEF Arrives
  <2>5. Delivered'
    BY <1>2, <1>10, <2>4 DEF Delivered
  \* Behind the frame that is read all are under the key that the server has afterwards.
  <2>6. proto = "login" => AllUnder(up', "dynamic")
    BY <1>2, <1>5, <2>1 DEF LoginKeys
  <2>7. proto = "gs" => AllUnder(up', "new") /\ (srv.key = "new" => cli.key = "new")
    BY <1>2, <1>5, <1>6, <2>1 DEF GSKeys
  <2>8. CASE Quiet
    <3>1. srv' = SwitchKey(srv) /\ UNCHANGED <<spare, down, told, open>>
      BY <2>8 DEF Quiet
    <3>2. srv' \in Ends /\ srv'.first = srv.first /\ srv'.key = IF proto = "gs" THEN "new" ELSE srv.key
      BY <1>3, <3>1 DEF SwitchKey, Ends, KeyNames
    <3>3. Types'
      BY <1>1, <1>2, <3>1, <3>2 DEF Types
    <3>4. InFlight(down, told)'
      BY <1>1, <3>1
    <3>5. proto = "login" => LoginKeys'
      BY <1>2, <1>6, <2>1, <2>6, <3>1, <3>2 DEF LoginKeys
    <3>6. proto = "gs" => GSKeys'
      BY <1>2, <1>6, <2>1, <2>7, <3>1, <3>2 DEF GSKeys
    <3>7. KeysInv'
      BY <1>2, <1>10, <3>5, <3>6 DEF KeysInv
    <3> QED
      BY <1>7, <1>8, <2>5, <3>3, <3>4, <3>7 DEF FramingInv
  <2>9. CASE Answers
    <3>1. PICK p \in Payloads :
                  LET b == Fill(FromPool(spare), p)
                      w == IF proto = "gs" THEN GSWritePacket(b, Len(p), srv)
                           ELSE WritePacket(b, Len(p), srv, 0)
                  IN  IF w.ok THEN Replies(w, p) /\ UNCHANGED open
                      ELSE open' = FALSE /\ UNCHANGED <<srv, spare, down, told>>
      BY <2>9 DEF Answers
    <3> DEFINE b == Fill(FromPool(spare), p)
               w == IF proto = "gs" THEN GSWritePacket(b, Len(p), srv)
                    ELSE WritePacket(b, Len(p), srv, 0)
    <3>2. IF w.ok THEN Replies(w, p) /\ UNCHANGED open
          ELSE open' = FALSE /\ UNCHANGED <<srv, spare, down, told>>
      BY <3>1
    <3>3. p \in Seq(Symbols) /\ 0 \in Words
      BY PayloadFacts
    <3>4. Holds(b, p)
      BY <1>3, <3>3, ServersBuffer
    <3> HIDE DEF b
    <3>5. srv.first = FALSE /\ srv.key # "static" /\ (proto = "gs" => srv.key = "new")
      <4>1. proto = "gs" => srv.key = "new"
        BY <2>9 DEF Answers
      <4>2. srv.first \in BOOLEAN
        BY <1>3 DEF Ends
      <4> QED
        BY <1>2, <1>3, <1>6, <1>10, <2>1, <4>1, <4>2 DEF LoginKeys, GSKeys
    <3>6. Makes(w, p, srv.key)
      <4>1. Makes(GSWritePacket(b, Len(p), srv), p, srv.key)
        BY <1>3, <3>4, <3>5, GSMakes
      <4>2. Makes(WritePacket(b, Len(p), srv, 0), p, IF srv.first THEN "static" ELSE srv.key)
        BY <1>3, <3>3, <3>4, <3>5, WritePacketMakes
      <4> QED
        BY <3>5, <4>1, <4>2
    <3> HIDE DEF w
    <3>7. CASE w.ok
      <4>1. /\ InFlight(down, told)' /\ spare' \in Buffers /\ srv' \in Ends
            /\ srv'.key = srv.key /\ srv'.first = FALSE
            /\ w.frame \in AFrame /\ w.frame.key = srv.key /\ down' = Append(down, w.frame)
            /\ open' = open
        BY <3>2, <3>3, <3>6, <3>7, Replied
      <4>2. down \in Seq(AFrame)
        BY <1>1 DEF InFlight
      <4>3. \A key : AllUnder(down, key) /\ srv.key = key => AllUnder(down', key)
        BY <4>1, <4>2, UnderMore
      <4>4. Types'
        BY <1>1, <1>2, <4>1 DEF Types
      <4>5. proto = "login" => LoginKeys'
        <5> SUFFICES ASSUME proto = "login" PROVE LoginKeys'
          OBVIOUS
        <5>1. LoginKeys /\ cli.key = "dynamic"
          BY <1>6, <2>1 DEF LoginKeys
        <5>2. AllUnder(down', "dynamic")
          BY <4>3, <5>1 DEF LoginKeys
        <5> QED
          BY <1>2, <1>6, <2>6, <4>1, <5>1, <5>2 DEF LoginKeys
      <4>6. proto = "gs" => GSKeys'
        <5> SUFFICES ASSUME proto = "gs" PROVE GSKeys'
          OBVIOUS
        <5>1. GSKeys /\ cli.key = "new" /\ srv.key = "new"
          BY <2>1, <2>7, <3>5
        <5>2. AllUnder(down', "new")
          BY <4>3, <5>1 DEF GSKeys
        <5> QED
          BY <1>2, <1>6, <2>7, <4>1, <5>1, <5>2 DEF GSKeys
      <4>7. KeysInv'
        BY <1>2, <1>10, <4>5, <4>6 DEF KeysInv
      <4> QED
        BY <1>7, <1>8, <2>5, <4>1, <4>4, <4>7 DEF FramingInv
    <3>8. CASE ~ w.ok
      <4>1. open' = FALSE /\ UNCHANGED <<srv, spare, down, told>>
        BY <3>2, <3>8
      <4>2. Types'
        BY <1>1, <1>2, <4>1 DEF Types
      <4>3. InFlight(down, told)'
        BY <1>1, <4>1
      <4>4. proto = "login" => LoginKeys'
        BY <1>2, <1>6, <2>1, <2>6, <4>1 DEF LoginKeys
      <4>5. proto = "gs" => GSKeys'
        BY <1>2, <1>6, <2>1, <2>7, <3>5, <4>1 DEF GSKeys
      <4>6. KeysInv'
        BY <1>2, <1>10, <4>4, <4>5 DEF KeysInv
      <4> QED
        BY <1>7, <1>8, <2>5, <4>2, <4>3, <4>6 DEF FramingInv
    <3> QED
      BY <3>7, <3>8
  <2> QED
    BY <1>2, <2>4, <2>8, <2>9
<1> QED
  BY <1>9, <1>10

LEMMA FramingNextKeeps == FramingInv /\ [FramingNext]_framingVars => FramingInv'
<1> SUFFICES ASSUME FramingInv, [FramingNext]_framingVars PROVE FramingInv'
  OBVIOUS
<1>1. CASE Greet
  BY <1>1, GreetKeeps
<1>2. CASE ClientReads
  BY <1>2, ClientReadsKeeps
<1>3. CASE ClientSends
  BY <1>3, ClientSendsKeeps
<1>4. CASE ServerHandles
  BY <1>4, ServerHandlesKeeps
<1>5. CASE UNCHANGED framingVars
  <2>1. UNCHANGED <<proto, srv, cli, spare, up, down, asked, told, sent, got, open>>
    BY <1>5 DEF framingVars
  <2> QED
    BY <2>1 DEF FramingInv, Types, InFlight, Started, KeysInv, LoginKeys, GSKeys, GameKeys,
                AllUnder, FirstUnder, Delivered
<1> QED
  BY <1>1, <1>2, <1>3, <1>4, <1>5 DEF FramingNext

LEMMA FramingHolds == FramingSpec => []FramingInv
<1>1. FramingInit => FramingInv
  BY Initially
<1>2. FramingInv /\ [FramingNext]_framingVars => FramingInv'
  BY FramingNextKeeps
<1> QED
  BY <1>1, <1>2, PTL DEF FramingSpec

-----------------------------------------------------------------------------
(* The theorems.                                                            *)

LEMMA InvArrives == FramingInv => PayloadsArrive
<1> SUFFICES ASSUME FramingInv PROVE PayloadsArrive
  OBVIOUS
<1>1. /\ Types /\ InFlight(up, asked) /\ InFlight(down, told)
      /\ KeysInv /\ Delivered
  BY DEF FramingInv
<1>2. proto \in {"login", "gs", "game"} /\ up \in Seq(AFrame) /\ down \in Seq(AFrame)
  BY <1>1, PayloadFacts DEF Types, InFlight
<1>3. FramingTypeOK
  <2>1. {srv.key, cli.key} \subseteq {"default", "new", "dynamic", "unknown"}
    BY <1>1, <1>2 DEF KeysInv, LoginKeys, GSKeys, GameKeys
  <2>2. spare \in Seq(Symbols) /\ Len(spare) = SendBuf
    BY <1>1, BufferIsSequence, BuffersAssumption DEF Types, Buffers
  <2> QED
    BY <1>1, <2>1, <2>2 DEF FramingTypeOK, Types, InFlight
<1>4. KeysInStep
  <2>1. \A i \in 1 .. Len(down) : down[i].key \in {cli.key, "static"}
    BY <1>1, <1>2 DEF KeysInv, LoginKeys, GSKeys, GameKeys, AllUnder
  <2>2. up # <<>> /\ proto # "game" => up[1].key = srv.key
    <3> SUFFICES ASSUME up # <<>>, proto # "game" PROVE up[1].key = srv.key
      OBVIOUS
    <3>1. 1 \in 1 .. Len(up)
      BY <1>2, EmptySeq
    <3> QED
      BY <1>1, <1>2, <3>1 DEF KeysInv, LoginKeys, GSKeys, AllUnder, FirstUnder
  <2> QED
    BY <2>1, <2>2 DEF KeysInStep
<1> QED
  BY <1>1, <1>3, <1>4 DEF PayloadsArrive

LEMMA FrameFits ==
  ASSUME NEW f, NEW p, FrameOf(f, p)
  PROVE  /\ f.total = Header + Len(f.data) /\ Len(f.data) % Block = 0
         /\ f.total <= SendBuf /\ Len(f.data) <= ReadBuf
<1>1. Whole(f)
  BY DEF FrameOf, FirstFrame, LaterFrame
<1>2. /\ f.total = Header + Len(f.data) /\ f.total <= SendBuf
      /\ Len(f.data) % Block = 0 /\ f.data \in Seq(Symbols) /\ Len(f.data) \in Nat
  BY <1>1 DEF Whole, AFrame
<1> QED
  BY <1>2, BuffersAssumption DEF Header

LEMMA InvClean == FramingInv => NothingElseLeaves
<1> SUFFICES ASSUME FramingInv PROVE NothingElseLeaves
  OBVIOUS
<1>1. InFlight(up, asked) /\ InFlight(down, told)
  BY DEF FramingInv
<1>2. /\ up \in Seq(AFrame) /\ \A i \in 1 .. Len(up) : FrameOf(up[i], asked[i])
      /\ down \in Seq(AFrame) /\ \A i \in 1 .. Len(down) : FrameOf(down[i], told[i])
  BY <1>1 DEF InFlight
<1>3. PaddingIsClean
  <2> SUFFICES ASSUME NEW i \in 1 .. Len(down), down[i].key # "static",
                      NEW k \in (Len(told[i]) + 1) .. (Len(down[i].data) - 4)
               PROVE  down[i].data[k] = 0
    BY DEF PaddingIsClean
  <2>1. LaterFrame(down[i], told[i])
    BY <1>2 DEF FrameOf
  <2> QED
    BY <2>1 DEF LaterFrame, Checksum
<1>4. FramesFit
  <2> SUFFICES ASSUME NEW f \in {up[i] : i \in DOMAIN up} \cup {down[i] : i \in DOMAIN down}
               PROVE  /\ f.total = Header + Len(f.data) /\ Len(f.data) % Block = 0
                      /\ f.total <= SendBuf /\ Len(f.data) <= ReadBuf
    BY DEF FramesFit
  <2>1. DOMAIN up = 1 .. Len(up) /\ DOMAIN down = 1 .. Len(down)
    BY <1>2
  <2>2. \E p : FrameOf(f, p)
    BY <1>2, <2>1
  <2> QED
    BY <2>2, FrameFits
<1> QED
  BY <1>3, <1>4 DEF NothingElseLeaves

\* Every payload between the login server and its clients or the game servers arrives,
\* whole, in order and under the key that both ends are using, the first packet's
\* pass and the switch of a game server's key included.
THEOREM PayloadsTheorem == FramingSpec => []PayloadsArrive
<1>1. FramingInv => PayloadsArrive
  BY InvArrives
<1> QED
  BY <1>1, FramingHolds, PTL

\* Behind a payload nothing leaves but zeros and the sum, whatever the buffer was
\* used for before, and every frame fits in the buffers of both ends.
THEOREM PaddingTheorem == FramingSpec => []NothingElseLeaves
<1>1. FramingInv => NothingElseLeaves
  BY InvClean
<1> QED
  BY <1>1, FramingHolds, PTL

-----------------------------------------------------------------------------
(* The writer's bytes.                                                      *)

\* One sequence behind another.
Joins(c, a, b) ==
  /\ Len(c) = Len(a) + Len(b)
  /\ \A k \in 1 .. Len(a) : c[k] = a[k]
  /\ \A k \in 1 .. Len(b) : c[Len(a) + k] = b[k]

LEMMA Joined ==
  ASSUME NEW S, NEW a \in Seq(S), NEW b \in Seq(S)
  PROVE  a \o b \in Seq(S) /\ Joins(a \o b, a, b)
<1> DEFINE c == a \o b
<1>1. c \in Seq(S) /\ Len(c) = Len(a) + Len(b) /\ Len(a) \in Nat /\ Len(b) \in Nat
  BY ConcatProperties, LenProperties
<1>2. \A k \in 1 .. (Len(a) + Len(b)) : c[k] = IF k <= Len(a) THEN a[k] ELSE b[k - Len(a)]
  BY ConcatProperties
<1> HIDE DEF c
<1>3. \A k \in 1 .. Len(a) : c[k] = a[k]
  BY <1>1, <1>2
<1>4. ASSUME NEW k \in 1 .. Len(b) PROVE c[Len(a) + k] = b[k]
  <2> DEFINE i == Len(a) + k
  <2>1. i \in 1 .. (Len(a) + Len(b)) /\ ~ (i <= Len(a)) /\ i - Len(a) = k
    BY <1>1
  <2> HIDE DEF i
  <2>2. c[i] = b[i - Len(a)]
    BY <1>2, <2>1
  <2> QED
    BY <2>1, <2>2 DEF i
<1> QED
  BY <1>1, <1>3, <1>4 DEF c, Joins

ShortDigits(b, n) == b[1] = n % 256 /\ b[2] = (n \div 256) % 256

LEMMA ShortBytes ==
  ASSUME NEW n \in Int
  PROVE  PutShort(n) \in Seq(Byte) /\ Len(PutShort(n)) = 2 /\ ShortDigits(PutShort(n), n)
<1>1. n % 256 \in Byte /\ (n \div 256) % 256 \in Byte
  BY DEF Byte
<1> QED
  BY <1>1 DEF PutShort, ShortDigits

IntDigits(b, n) ==
  /\ b[1] = n % 256 /\ b[2] = (n \div 256) % 256
  /\ b[3] = (n \div 65536) % 256 /\ b[4] = (n \div 16777216) % 256

LEMMA IntBytes ==
  ASSUME NEW n \in Int
  PROVE  PutInt(n) \in Seq(Byte) /\ Len(PutInt(n)) = 4 /\ IntDigits(PutInt(n), n)
<1>1. /\ n % 256 \in Byte /\ (n \div 256) % 256 \in Byte
      /\ (n \div 65536) % 256 \in Byte /\ (n \div 16777216) % 256 \in Byte
  BY SMT DEF Byte
<1> QED
  BY SMT, <1>1 DEF PutInt, IntDigits

LEMMA LongBytes ==
  ASSUME NEW low \in Int, NEW high \in Int
  PROVE  /\ PutLong(<<low, high>>) \in Seq(Byte) /\ Len(PutLong(<<low, high>>)) = 8
         /\ \A k \in 1 .. 4 : /\ PutLong(<<low, high>>)[k] = PutInt(low)[k]
                              /\ PutLong(<<low, high>>)[4 + k] = PutInt(high)[k]
<1> DEFINE a == PutInt(low)
           b == PutInt(high)
<1>1. a \in Seq(Byte) /\ Len(a) = 4 /\ b \in Seq(Byte) /\ Len(b) = 4
  BY IntBytes
<1>2. PutLong(<<low, high>>) = a \o b
  BY DEF PutLong
<1> HIDE DEF a, b
<1>3. a \o b \in Seq(Byte) /\ Joins(a \o b, a, b)
  BY <1>1, Joined
<1>4. \A k \in 1 .. 4 : (a \o b)[k] = a[k] /\ (a \o b)[4 + k] = b[k]
  BY <1>1, <1>3 DEF Joins
<1>5. Len(a \o b) = 8
  BY <1>1, <1>3 DEF Joins
<1> QED
  BY <1>2, <1>3, <1>4, <1>5 DEF a, b

\* Two's complement of two and of four bytes.
LEMMA ShortBack ==
  ASSUME NEW n, IsInt16(n)
  PROVE  n \in Int /\ Short(n % 256, (n \div 256) % 256) = n
<1> DEFINE q == n \div 256
           b == n % 256
           top == q % 256
<1>0. n \in Int /\ -32768 <= n /\ n < 32768
  BY DEF IsInt16
<1>1. n = 256 * q + b /\ 0 <= b /\ b < 256 /\ q \in Int /\ b \in Int
  BY <1>0
<1>2. -128 <= q /\ q < 128
  <2> HIDE DEF q, b
  <2> QED
    BY <1>0, <1>1
<1>3. top = IF q < 0 THEN q + 256 ELSE q
  BY <1>1, <1>2
<1> HIDE DEF q, b, top
<1>4. Signed(top) = q
  BY <1>1, <1>2, <1>3 DEF Signed
<1>5. Short(b, top) = n
  BY <1>1, <1>4 DEF Short
<1> QED
  BY <1>0, <1>5 DEF q, b, top

LEMMA IntBack ==
  ASSUME NEW n, IsInt32(n)
  PROVE  /\ n \in Int
         /\ LongWord(n % 256, (n \div 256) % 256, (n \div 65536) % 256, (n \div 16777216) % 256) = n
<1> DEFINE q1 == n \div 256
           q2 == n \div 65536
           q3 == n \div 16777216
           b0 == n % 256
           top == q3 % 256
<1>0. n \in Int /\ -2147483647 - 1 <= n /\ n <= 2147483647
  BY SMT DEF IsInt32
<1>1. n = 256 * q1 + b0 /\ 0 <= b0 /\ b0 < 256 /\ q1 \in Int /\ b0 \in Int
  BY SMT, <1>0
<1>2. q1 = 256 * q2 + (q1 % 256) /\ q1 % 256 \in Int /\ q2 \in Int
  BY SMT, <1>0
<1>3. q2 = 256 * q3 + (q2 % 256) /\ q2 % 256 \in Int /\ q3 \in Int
  BY SMT, <1>0
<1>4. -128 <= q3 /\ q3 < 128
  BY SMT, <1>0
<1>5. top = IF q3 < 0 THEN q3 + 256 ELSE q3
  BY SMT, <1>3, <1>4
<1> HIDE DEF q1, q2, q3, b0, top
<1>6. Signed(top) = q3
  BY SMT, <1>3, <1>4, <1>5 DEF Signed
<1>7. LongWord(b0, q1 % 256, q2 % 256, top) = n
  BY SMT, <1>1, <1>2, <1>3, <1>6 DEF LongWord
<1> QED
  BY SMT, <1>0, <1>7 DEF q1, q2, q3, b0, top

-----------------------------------------------------------------------------
(* Doubles: the bits are some 8 bytes, whatever the reader makes of them.   *)

LEMMA FractionIsNat == Fraction \in Nat \ {0}
BY DEF Fraction

LEMMA PowersOfTwo == TwoTo \in [0 .. Fraction -> Nat] /\ TwoTo[0] = 1
<1> DEFINE n == Fraction
           step == [ja \in (1 .. n) \X Nat |-> 2 * ja[2]]
           Twice(f) == [i \in 0 .. n |-> IF i = 0 THEN 1 ELSE 2 * f[i - 1]]
<1>0. n \in Nat \ {0}
  BY FractionIsNat
<1>1. step \in [(1 .. n) \X Nat -> Nat]
  OBVIOUS
<1>2. PICK f \in [0 .. n -> Nat] : Recursive(f, n, 1, step)
  <2> HIDE DEF step, n
  <2> QED
    BY <1>0, <1>1, RecursionUpTo
<1>5. TwoTo = CHOOSE g : g = Twice(g)
  BY DEF TwoTo
<1> HIDE DEF n
<1>3. \A i \in 1 .. n : f[i] = 2 * f[i - 1]
  <2> SUFFICES ASSUME NEW i \in 1 .. n PROVE f[i] = 2 * f[i - 1]
    OBVIOUS
  <2>1. f[i - 1] \in Nat
    BY <1>0
  <2>2. step[<<i, f[i - 1]>>] = 2 * f[i - 1]
    BY <2>1
  <2> QED
    BY <1>2, <2>2 DEF Recursive
<1>4. f = Twice(f)
  BY <1>2, <1>3 DEF Recursive
<1>6. TwoTo = Twice(TwoTo)
  <2> HIDE DEF Twice
  <2> QED
    BY <1>4, <1>5
<1>7. DOMAIN TwoTo = 0 .. n /\ TwoTo[0] = 1 /\ \A i \in 1 .. n : TwoTo[i] = 2 * TwoTo[i - 1]
  BY <1>0, <1>6
<1>8. \A i \in 0 .. n : TwoTo[i] \in Nat
  <2> DEFINE Good == {i \in 0 .. n : TwoTo[i] \in Nat}
  <2>1. 0 \in Good
    BY <1>0, <1>7
  <2>2. ASSUME NEW i \in 0 .. (n - 1), i \in Good PROVE i + 1 \in Good
    <3>1. i + 1 \in 1 .. n /\ (i + 1) - 1 = i
      BY <1>0
    <3>2. TwoTo[i + 1] = 2 * TwoTo[i]
      BY <1>7, <3>1
    <3> QED
      BY <2>2, <3>1, <3>2
  <2> HIDE DEF Good
  <2>3. \A i \in 0 .. n : i \in Good
    BY <1>0, <2>1, <2>2, AllUpTo
  <2> QED
    BY <2>3 DEF Good
<1>9. TwoTo \in [0 .. n -> Nat]
  BY <1>6, <1>7, <1>8
<1> QED
  BY <1>7, <1>9 DEF n

\* A number of at most Fraction bits has a highest one.
LEMMA HighestBit ==
  ASSUME NEW k \in Nat \ {0}, k < TwoTo[Fraction]
  PROVE  \E i \in 0 .. (Fraction - 1) : TwoTo[i] <= k /\ k < TwoTo[i + 1]
<1> DEFINE Above == {i \in 0 .. Fraction : k < TwoTo[i]}
<1>1. TwoTo \in [0 .. Fraction -> Nat] /\ TwoTo[0] = 1 /\ Fraction \in Nat \ {0}
  BY PowersOfTwo, FractionIsNat
<1>2. Above \in SUBSET Nat /\ Fraction \in Above /\ 0 \notin Above
  BY <1>1
<1>3. PICK m \in Above : \A i \in Above : m <= i
  BY <1>2, LeastExists
<1>4. m \in 1 .. Fraction /\ k < TwoTo[m]
  BY <1>1, <1>2, <1>3
<1>5. m - 1 \in 0 .. (Fraction - 1) /\ m - 1 \notin Above
  BY <1>1, <1>3, <1>4
<1>6. TwoTo[m - 1] <= k /\ (m - 1) + 1 = m
  BY <1>1, <1>4, <1>5
<1> QED
  BY <1>4, <1>5, <1>6

LEMMA DoubleBytes ==
  ASSUME NEW k \in Nat, k < TwoTo[Fraction]
  PROVE  PutDouble(k) \in Seq(Byte) /\ Len(PutDouble(k)) = 8
<1>1. \E high \in Int : Float64bits(k) = <<0, high>>
  <2>1. CASE k = 0
    BY <2>1 DEF Float64bits
  <2>2. CASE k # 0
    <3> DEFINE e == CHOOSE i \in 0 .. (Fraction - 1) : TwoTo[i] <= k /\ k < TwoTo[i + 1]
               one == TwoTo[Fraction]
               unit == TwoTo[Fraction - e]
               high == (1022 + e) * one + k * unit
    <3>1. e \in 0 .. (Fraction - 1)
      BY <2>2, HighestBit
    <3>2. Float64bits(k) = <<0, high>>
      BY <2>2 DEF Float64bits
    <3> HIDE DEF e
    <3>3. one \in Nat /\ unit \in Nat
      BY <3>1, PowersOfTwo, FractionIsNat
    <3> HIDE DEF one, unit
    <3>4. e \in Int
      BY <3>1, FractionIsNat
    <3>5. high \in Int
      BY <3>3, <3>4
    <3> HIDE DEF high
    <3> QED
      BY <3>2, <3>5
  <2> QED
    BY <2>1, <2>2
<1>2. PICK high \in Int : Float64bits(k) = <<0, high>>
  BY <1>1
<1>3. PutDouble(k) = PutLong(<<0, high>>)
  BY <1>2 DEF PutDouble
<1> QED
  BY <1>3, LongBytes

-----------------------------------------------------------------------------
(* A string: the units of its characters, each unit in two bytes.           *)

HighUnit(c) == (c - 65536) \div 1024 + 55296
LowUnit(c)  == ((c - 65536) % 1024) + 56320

Together(high, low) == (high - 55296) * 1024 + (low - 56320) + 65536

IsUnit(n)  == n \in Nat /\ n < 65536
OneUnit(c) == c <= 65535

LEMMA PairBack ==
  ASSUME NEW c \in Nat, IsChar(c), ~ OneUnit(c)
  PROVE  /\ IsUnit(HighUnit(c)) /\ IsHigh(HighUnit(c))
         /\ IsUnit(LowUnit(c)) /\ IsLow(LowUnit(c))
         /\ Together(HighUnit(c), LowUnit(c)) = c
<1> DEFINE d == c - 65536
           q == d \div 1024
           r == d % 1024
<1>1. d \in Nat /\ d < 1048576
  BY SMT DEF IsChar, OneUnit
<1>2. d = 1024 * q + r /\ r \in Nat /\ r < 1024 /\ q \in Nat
  BY SMT, <1>1
<1> HIDE DEF q, r
<1>3. q < 1024
  BY SMT, <1>1, <1>2
<1>4. HighUnit(c) = q + 55296 /\ LowUnit(c) = r + 56320
  BY SMT DEF HighUnit, LowUnit, q, r
<1> QED
  BY SMT, <1>2, <1>3, <1>4 DEF IsHigh, IsLow, IsUnit, Together

\* The units of u behind from and up to to are those of c.
RuneAt(u, from, to, c) ==
  IF OneUnit(c) THEN to = from + 1 /\ u[to] = c
  ELSE to = from + 2 /\ u[from + 1] = HighUnit(c) /\ u[to] = LowUnit(c)

\* u is the units of the first n characters of s; the i-th ends at at[i].
Spells(u, s, n, at) ==
  /\ u \in Seq(Nat) /\ at \in [0 .. n -> 0 .. Len(u)] /\ at[0] = 0 /\ at[n] = Len(u)
  /\ \A i \in 1 .. n : RuneAt(u, at[i - 1], at[i], s[i])

AllChars(s) == s \in Seq(Nat) /\ \A i \in 1 .. Len(s) : IsChar(s[i])

\* The reader's steps over the units.
PairAt(u, k) == k \in 1 .. (Len(u) - 1) /\ IsHigh(u[k]) /\ IsLow(u[k + 1])
RuneRead(u, k) == IF PairAt(u, k) THEN Together(u[k], u[k + 1])
                  ELSE IF IsHigh(u[k]) \/ IsLow(u[k]) THEN 65533 ELSE u[k]

AreRead(f, u) ==
  /\ f[0] = <<>>
  /\ \A k \in 1 .. Len(u) : f[k] = IF PairAt(u, k - 1) THEN f[k - 1] ELSE Append(f[k - 1], RuneRead(u, k))

LEMMA RunesAreRead ==
  ASSUME NEW u \in Seq(Nat)
  PROVE  \E f : AreRead(f, u) /\ Runes(u) = f[Len(u)]
<1> DEFINE n == Len(u)
           step == [ja \in (1 .. n) \X Seq(Int) |->
                      IF PairAt(u, ja[1] - 1) THEN ja[2] ELSE Append(ja[2], RuneRead(u, ja[1]))]
           Read1(f) == [k \in 0 .. n |-> IF k = 0 THEN <<>> ELSE IF PairAt(u, k - 1) THEN f[k - 1]
                                         ELSE Append(f[k - 1], RuneRead(u, k))]
           read == CHOOSE f : f = Read1(f)
<1>0. n \in Nat
  OBVIOUS
<1>1. \A k \in 1 .. n : RuneRead(u, k) \in Int
  <2> SUFFICES ASSUME NEW k \in 1 .. n PROVE RuneRead(u, k) \in Int
    OBVIOUS
  <2>1. u[k] \in Int
    OBVIOUS
  <2>2. ASSUME PairAt(u, k) PROVE u[k + 1] \in Int
    <3>1. k + 1 \in 1 .. n
      BY <2>2 DEF PairAt
    <3> QED
      BY <3>1
  <2>3. ASSUME NEW x \in Int, NEW y \in Int PROVE Together(x, y) \in Int
    BY SMT DEF Together
  <2>4. 65533 \in Int
    BY SMT
  <2>5. CASE PairAt(u, k)
    <3>1. u[k + 1] \in Int
      BY <2>2, <2>5
    <3>2. Together(u[k], u[k + 1]) \in Int
      BY <2>1, <2>3, <3>1
    <3> QED
      BY SMT, <2>5, <3>2 DEF RuneRead
  <2>6. CASE ~ PairAt(u, k)
    BY SMT, <2>1, <2>4, <2>6 DEF RuneRead
  <2> QED
    BY <2>5, <2>6
<1>2. step \in [(1 .. n) \X Seq(Int) -> Seq(Int)]
  <2> SUFFICES ASSUME NEW k \in 1 .. n, NEW a \in Seq(Int)
               PROVE  Append(a, RuneRead(u, k)) \in Seq(Int)
    OBVIOUS
  <2> QED
    BY <1>1, AppendProperties
<1>3. PICK f \in [0 .. n -> Seq(Int)] : Recursive(f, n, <<>>, step)
  <2> HIDE DEF step, n
  <2>1. <<>> \in Seq(Int)
    OBVIOUS
  <2> QED
    BY <1>0, <1>2, <2>1, RecursionUpTo
<1>4. \A k \in 1 .. n : f[k] = IF PairAt(u, k - 1) THEN f[k - 1] ELSE Append(f[k - 1], RuneRead(u, k))
  <2> SUFFICES ASSUME NEW k \in 1 .. n
               PROVE  f[k] = IF PairAt(u, k - 1) THEN f[k - 1] ELSE Append(f[k - 1], RuneRead(u, k))
    OBVIOUS
  <2>1. f[k - 1] \in Seq(Int)
    OBVIOUS
  <2>2. step[<<k, f[k - 1]>>] = IF PairAt(u, k - 1) THEN f[k - 1] ELSE Append(f[k - 1], RuneRead(u, k))
    BY <2>1
  <2> HIDE DEF step
  <2> QED
    BY <1>3, <2>2 DEF Recursive
<1>5. f = Read1(f)
  <2>1. f[0] = <<>>
    BY <1>3 DEF Recursive
  <2>2. ASSUME NEW k \in 0 .. n PROVE f[k] = Read1(f)[k]
    <3>1. CASE k = 0
      BY <2>1, <3>1
    <3>2. CASE k # 0
      <4>1. k \in 1 .. n
        BY <1>0, <3>2
      <4>2. f[k] = IF PairAt(u, k - 1) THEN f[k - 1] ELSE Append(f[k - 1], RuneRead(u, k))
        BY <1>4, <4>1
      <4> QED
        BY <3>2, <4>2, Zenon
    <3> QED
      BY <3>1, <3>2
  <2> HIDE DEF step
  <2> QED
    BY <2>2
<1>6. Runes(u) = read[n]
  BY DEF Runes, PairAt, RuneRead, Together
<1>7. read = Read1(read)
  <2> HIDE DEF Read1
  <2> QED
    BY <1>5
<1> HIDE DEF read
<1>8. \A k \in 0 .. n : read[k] = IF k = 0 THEN <<>> ELSE IF PairAt(u, k - 1) THEN read[k - 1]
                                  ELSE Append(read[k - 1], RuneRead(u, k))
  BY <1>7
<1>9. AreRead(read, u)
  <2>1. read[0] = <<>>
    BY <1>0, <1>8
  <2>2. \A k \in 1 .. n : read[k] = IF PairAt(u, k - 1) THEN read[k - 1]
                                    ELSE Append(read[k - 1], RuneRead(u, k))
    BY <1>0, <1>8
  <2> QED
    BY <2>1, <2>2 DEF AreRead
<1> QED
  BY <1>6, <1>9

Front(s, n) == [j \in 1 .. n |-> s[j]]

\* The first m characters of a string.
LEMMA FrontIs ==
  ASSUME NEW s \in Seq(Nat), NEW m \in 0 .. Len(s)
  PROVE  Front(s, m) \in Seq(Nat) /\ Len(Front(s, m)) = m /\ \A j \in 1 .. m : Front(s, m)[j] = s[j]
<1> DEFINE g == [j \in 1 .. m |-> s[j]]
<1>1. \A j \in 1 .. m : s[j] \in Nat
  OBVIOUS
<1>2. m \in Nat /\ g \in [1 .. m -> Nat]
  BY <1>1
<1>3. g \in Seq(Nat)
  BY <1>2
<1>4. Len(g) = m
  BY <1>2, <1>3, DOMAIN g = 1 .. m
<1>5. \A j \in 1 .. m : g[j] = s[j]
  OBVIOUS
<1> QED
  BY <1>3, <1>4, <1>5, Zenon DEF Front

\* The reader that comes to the end of a character has read the characters so far.
LEMMA ReadsOneMore ==
  ASSUME NEW s, AllChars(s), NEW u, NEW at, Spells(u, s, Len(s), at),
         NEW f, AreRead(f, u), NEW i \in 1 .. Len(s),
         f[at[i - 1]] = Front(s, i - 1), ~ PairAt(u, at[i - 1])
  PROVE  f[at[i]] = Front(s, i) /\ ~ PairAt(u, at[i])
<1> DEFINE n == Len(u)
           h == at[i - 1]
           t == at[i]
           c == s[i]
<1>1. n \in Nat /\ h \in 0 .. n /\ t \in 0 .. n /\ RuneAt(u, h, t, c)
  <2>1. i - 1 \in 0 .. Len(s) /\ i \in 0 .. Len(s)
    BY DEF AllChars
  <2>2. u \in Seq(Nat) /\ at \in [0 .. Len(s) -> 0 .. Len(u)] /\ RuneAt(u, h, t, c)
    BY DEF Spells
  <2>3. h \in 0 .. n /\ t \in 0 .. n
    BY <2>1, <2>2
  <2>4. n \in Nat
    BY <2>2
  <2> QED
    BY <2>2, <2>3, <2>4
<1>2. c \in Nat /\ IsChar(c)
  BY DEF AllChars
<1>3. Append(Front(s, i - 1), c) = Front(s, i)
  <2> DEFINE m == i - 1
             g == Front(s, m)
             a == Append(g, c)
  <2>1. m \in Nat /\ m + 1 = i /\ s \in Seq(Nat) /\ i \in 1 .. Len(s)
    BY DEF AllChars
  <2> HIDE DEF m
  <2>2. m \in 0 .. Len(s)
    BY <2>1
  <2>3. g \in Seq(Nat) /\ Len(g) = m /\ \A j \in 1 .. m : g[j] = s[j]
    BY <2>1, <2>2, FrontIs, Zenon
  <2> HIDE DEF g
  <2>4. /\ a \in Seq(Nat) /\ Len(a) = m + 1 /\ \A j \in 1 .. m : a[j] = g[j]
        /\ a[m + 1] = c
    BY <1>2, <2>1, <2>3, AppendProperties
  <2> HIDE DEF a
  <2>5. ASSUME NEW j \in 1 .. (m + 1) PROVE a[j] = s[j]
    <3>1. CASE j = m + 1
      BY <2>1, <2>4, <3>1 DEF c
    <3>2. CASE j # m + 1
      <4>1. j \in 1 .. m
        BY <2>1, <3>2
      <4> QED
        BY <2>3, <2>4, <4>1
    <3> QED
      BY <3>1, <3>2
  <2>6. a = [j \in 1 .. (m + 1) |-> s[j]]
    BY <2>1, <2>4, <2>5
  <2>7. a = Front(s, i)
    BY <2>1, <2>6 DEF Front
  <2> QED
    BY <2>7 DEF a, g, m
<1>4. \A k \in 1 .. n : f[k] = IF PairAt(u, k - 1) THEN f[k - 1] ELSE Append(f[k - 1], RuneRead(u, k))
  BY DEF AreRead
<1> HIDE DEF n, h, t, c
<1>5. f[h] = Front(s, i - 1) /\ ~ PairAt(u, h)
  BY DEF h
<1>6. CASE OneUnit(c)
  <2>1. t = h + 1 /\ u[t] = c
    BY <1>1, <1>6 DEF RuneAt
  <2>2. ~ IsHigh(u[t]) /\ ~ IsLow(u[t])
    BY SMT, <1>2, <2>1 DEF IsChar
  <2>3. ~ PairAt(u, t)
    BY <2>2 DEF PairAt
  <2>4. RuneRead(u, t) = c
    BY <2>1, <2>2, <2>3 DEF RuneRead
  <2>5. t \in 1 .. n /\ t - 1 = h
    BY <1>1, <2>1
  <2>6. f[t] = Append(f[h], c)
    BY <1>4, <1>5, <2>4, <2>5
  <2> QED
    BY <1>3, <1>5, <2>3, <2>6 DEF t
<1>7. CASE ~ OneUnit(c)
  <2>1. t = h + 2 /\ u[h + 1] = HighUnit(c) /\ u[t] = LowUnit(c)
    BY <1>1, <1>7 DEF RuneAt
  <2>2. IsHigh(u[h + 1]) /\ IsLow(u[t]) /\ Together(u[h + 1], u[t]) = c
    BY <1>2, <1>7, <2>1, PairBack
  <2>3. h + 1 \in 1 .. (n - 1) /\ h + 1 \in 1 .. n /\ (h + 1) + 1 = t /\ (h + 1) - 1 = h
    BY <1>1, <2>1
  <2>4. PairAt(u, h + 1)
    BY <2>2, <2>3 DEF PairAt, n
  <2>5. RuneRead(u, h + 1) = c
    BY <2>2, <2>3, <2>4 DEF RuneRead
  <2>6. f[h + 1] = Append(f[h], c)
    BY <1>4, <1>5, <2>3, <2>5
  <2>7. t \in 1 .. n /\ t - 1 = h + 1
    BY <1>1, <2>1
  <2>8. f[t] = f[h + 1]
    BY <1>4, <2>4, <2>7
  <2>9. ~ PairAt(u, t)
    <3>1. u[t] \in Nat
      BY <1>2, <1>7, <2>1, PairBack DEF IsUnit
    <3>2. ~ IsHigh(u[t])
      BY SMT, <2>2, <3>1 DEF IsLow, IsHigh
    <3> QED
      BY <3>2 DEF PairAt
  <2> QED
    BY <1>3, <1>5, <2>6, <2>8, <2>9 DEF t
<1> QED
  BY <1>6, <1>7

\* What the units spell is what is read from them.
LEMMA RunesBack ==
  ASSUME NEW s, AllChars(s), NEW u, NEW at, Spells(u, s, Len(s), at)
  PROVE  Runes(u) = s
<1> DEFINE n == Len(s)
<1>1. u \in Seq(Nat) /\ at[0] = 0 /\ at[n] = Len(u) /\ s \in Seq(Nat) /\ n \in Nat
  BY DEF Spells, AllChars
<1>2. PICK f : AreRead(f, u) /\ Runes(u) = f[Len(u)]
  BY <1>1, RunesAreRead
<1> DEFINE Good == {i \in 0 .. n : f[at[i]] = Front(s, i) /\ ~ PairAt(u, at[i])}
<1>3. 0 \in Good
  <2>1. Front(s, 0) = <<>>
    BY DEF Front
  <2>2. f[0] = <<>>
    BY <1>2 DEF AreRead
  <2>3. ~ PairAt(u, 0)
    BY <1>1 DEF PairAt
  <2> QED
    BY <1>1, <2>1, <2>2, <2>3
<1>4. ASSUME NEW i \in 0 .. (n - 1), i \in Good PROVE i + 1 \in Good
  <2> DEFINE j == i + 1
  <2>1. j \in 1 .. n /\ j - 1 = i /\ j \in 0 .. n
    BY <1>1
  <2> HIDE DEF j
  <2>2. f[at[j - 1]] = Front(s, j - 1) /\ ~ PairAt(u, at[j - 1])
    BY <1>4, <2>1
  <2>3. f[at[j]] = Front(s, j) /\ ~ PairAt(u, at[j])
    BY <1>2, <2>1, <2>2, ReadsOneMore
  <2>4. j \in Good
    BY <2>1, <2>3
  <2> QED
    BY <2>4 DEF j
<1> HIDE DEF Good
<1>5. n \in Good
  <2>1. \A i \in 0 .. n : i \in Good
    BY <1>1, <1>3, <1>4, AllUpTo
  <2> QED
    BY <1>1, <2>1
<1>6. f[Len(u)] = Front(s, n)
  BY <1>1, <1>5 DEF Good
<1>7. Front(s, n) = s
  BY <1>1 DEF Front
<1> QED
  BY <1>2, <1>6, <1>7

\* Two bytes for each unit of u.
InBytes(b, u) ==
  /\ b \in Seq(Byte) /\ u \in Seq(Nat) /\ Len(b) = 2 * Len(u)
  /\ \A k \in 1 .. Len(u) : b[2 * k - 1] + 256 * b[2 * k] = u[k]

\* u is where v begins.
Extends(v, u) == Len(u) <= Len(v) /\ \A k \in 1 .. Len(u) : v[k] = u[k]

LEMMA AddUnit ==
  ASSUME NEW b, NEW u, InBytes(b, u), NEW n, IsUnit(n)
  PROVE  /\ InBytes(b \o PutShort(n), Append(u, n)) /\ Extends(Append(u, n), u)
         /\ Len(Append(u, n)) = Len(u) + 1 /\ Append(u, n)[Len(u) + 1] = n
<1> DEFINE w == PutShort(n)
           c == b \o w
           v == Append(u, n)
           m == Len(u)
<1>0. n \in Nat /\ n \in Int
  BY SMT DEF IsUnit
<1>1. b \in Seq(Byte) /\ u \in Seq(Nat) /\ Len(b) = 2 * m /\ m \in Nat
  BY DEF InBytes
<1>2. w \in Seq(Byte) /\ Len(w) = 2 /\ ShortDigits(w, n)
  BY <1>0, ShortBytes
<1>3. w[1] + 256 * w[2] = n
  <2>1. (n % 256) + 256 * ((n \div 256) % 256) = n
    BY SMT DEF IsUnit
  <2> QED
    BY <1>2, <2>1 DEF ShortDigits
<1> HIDE DEF w
<1>4. c \in Seq(Byte) /\ Joins(c, b, w)
  BY <1>1, <1>2, Joined
<1>5. v \in Seq(Nat) /\ Len(v) = m + 1 /\ v[m + 1] = n /\ \A k \in 1 .. m : v[k] = u[k]
  BY <1>0, <1>1, AppendProperties
<1> HIDE DEF c, v
<1>6. /\ Len(c) = 2 * m + 2 /\ c[2 * m + 1] = w[1] /\ c[2 * m + 2] = w[2]
      /\ \A k \in 1 .. (2 * m) : c[k] = b[k]
  BY <1>1, <1>2, <1>4 DEF Joins
<1>7. Extends(v, u)
  BY <1>1, <1>5 DEF Extends
<1>8. ASSUME NEW k \in 1 .. (m + 1) PROVE c[2 * k - 1] + 256 * c[2 * k] = v[k]
  <2>1. CASE k = m + 1
    <3>1. 2 * k - 1 = 2 * m + 1 /\ 2 * k = 2 * m + 2
      BY <1>1, <2>1
    <3> QED
      BY <1>3, <1>5, <1>6, <2>1, <3>1
  <2>2. CASE k # m + 1
    <3>1. k \in 1 .. m /\ 2 * k - 1 \in 1 .. (2 * m) /\ 2 * k \in 1 .. (2 * m)
      BY <1>1, <2>2
    <3>2. b[2 * k - 1] + 256 * b[2 * k] = u[k]
      BY <3>1 DEF InBytes, m
    <3>3. c[2 * k - 1] = b[2 * k - 1] /\ c[2 * k] = b[2 * k]
      BY <1>6, <3>1
    <3>4. v[k] = u[k]
      BY <1>5, <3>1
    <3> QED
      BY <3>2, <3>3, <3>4
  <2> QED
    BY <2>1, <2>2
<1>9. Len(c) = 2 * (m + 1)
  BY <1>1, <1>6
<1>10. InBytes(c, v)
  BY <1>4, <1>5, <1>8, <1>9 DEF InBytes
<1> QED
  BY <1>5, <1>7, <1>10 DEF c, v, w, m

LEMMA ExtendsFurther ==
  ASSUME NEW u \in Seq(Nat), NEW v \in Seq(Nat), NEW w \in Seq(Nat), Extends(v, u), Extends(w, v)
  PROVE  Extends(w, u)
<1>1. Len(u) \in Nat /\ Len(v) \in Nat /\ Len(w) \in Nat
  OBVIOUS
<1>2. Len(u) <= Len(w)
  BY <1>1 DEF Extends
<1>3. ASSUME NEW k \in 1 .. Len(u) PROVE w[k] = u[k]
  <2>1. k \in 1 .. Len(v)
    BY <1>1 DEF Extends
  <2> QED
    BY <2>1 DEF Extends
<1> QED
  BY <1>2, <1>3 DEF Extends

\* A character's bytes behind those of other units.
LEMMA AddRune ==
  ASSUME NEW b, NEW u, InBytes(b, u), NEW c \in Nat, IsChar(c)
  PROVE  /\ PutRune(c) \in Seq(Byte)
         /\ \E v : InBytes(b \o PutRune(c), v) /\ Extends(v, u) /\ RuneAt(v, Len(u), Len(v), c)
<1>1. CASE OneUnit(c)
  <2> DEFINE v == Append(u, c)
  <2>1. PutRune(c) = PutShort(c)
    BY <1>1, SMT DEF PutRune, OneUnit
  <2>2. IsUnit(c) /\ c \in Int
    BY SMT, <1>1 DEF OneUnit, IsUnit
  <2>3. /\ InBytes(b \o PutShort(c), v) /\ Extends(v, u) /\ Len(v) = Len(u) + 1
        /\ v[Len(u) + 1] = c
    BY <2>2, AddUnit
  <2> HIDE DEF v
  <2>4. RuneAt(v, Len(u), Len(v), c)
    BY <1>1, <2>3 DEF RuneAt
  <2> QED
    BY <2>1, <2>2, <2>3, <2>4, ShortBytes
<1>2. CASE ~ OneUnit(c)
  <2> DEFINE high == HighUnit(c)
             low == LowUnit(c)
             first == PutShort(high)
             second == PutShort(low)
             v == Append(u, high)
             w == Append(v, low)
  <2>1. PutRune(c) = first \o second
    BY <1>2, SMT DEF PutRune, OneUnit, HighUnit, LowUnit
  <2>2. IsUnit(high) /\ IsUnit(low)
    BY <1>2, PairBack
  <2> HIDE DEF high, low
  <2>3. first \in Seq(Byte) /\ second \in Seq(Byte)
    <3>1. high \in Int /\ low \in Int
      BY SMT, <2>2 DEF IsUnit
    <3> QED
      BY <3>1, ShortBytes
  <2>4. /\ InBytes(b \o first, v) /\ Extends(v, u) /\ Len(v) = Len(u) + 1
        /\ v[Len(u) + 1] = high
    BY <2>2, AddUnit
  <2>5. /\ InBytes((b \o first) \o second, w) /\ Extends(w, v) /\ Len(w) = Len(v) + 1
        /\ w[Len(v) + 1] = low
    <3> HIDE DEF v, first
    <3> QED
      BY <2>2, <2>4, AddUnit
  <2> HIDE DEF first, second, v, w
  <2>6. b \in Seq(Byte) /\ u \in Seq(Nat) /\ v \in Seq(Nat) /\ w \in Seq(Nat)
    BY <2>4, <2>5 DEF InBytes
  <2>7. (b \o first) \o second = b \o (first \o second)
    <3>1. \A x, y, z \in Seq(Byte) : (x \o y) \o z = x \o (y \o z)
      BY ConcatAssociative
    <3> QED
      BY <2>3, <2>6, <3>1
  <2>8. Extends(w, u)
    BY <2>4, <2>5, <2>6, ExtendsFurther
  <2>9. RuneAt(w, Len(u), Len(w), c)
    <3>1. Len(w) = Len(u) + 2 /\ w[Len(w)] = low
      BY <2>4, <2>5, <2>6
    <3>2. w[Len(u) + 1] = high
      <4>1. Len(u) + 1 \in 1 .. Len(v)
        BY <2>4, <2>6
      <4> QED
        BY <2>4, <2>5, <4>1 DEF Extends
    <3> QED
      BY <1>2, <3>1, <3>2 DEF RuneAt, high, low
  <2>10. PutRune(c) \in Seq(Byte)
    BY <2>1, <2>3, Joined
  <2> QED
    BY <2>1, <2>5, <2>7, <2>8, <2>9, <2>10
<1> QED
  BY <1>1, <1>2

\* Where characters end does not change when units are added.
LEMMA SpellsOneMore ==
  ASSUME NEW s, AllChars(s), NEW i \in 1 .. Len(s), NEW u, NEW at, Spells(u, s, i - 1, at),
         NEW v \in Seq(Nat), Extends(v, u), RuneAt(v, Len(u), Len(v), s[i])
  PROVE  \E more : Spells(v, s, i, more)
<1> DEFINE more == [j \in 0 .. i |-> IF j = i THEN Len(v) ELSE at[j]]
<1>1. /\ u \in Seq(Nat) /\ at \in [0 .. (i - 1) -> 0 .. Len(u)] /\ at[0] = 0
      /\ at[i - 1] = Len(u) /\ \A j \in 1 .. (i - 1) : RuneAt(u, at[j - 1], at[j], s[j])
  BY DEF Spells
<1>2. i \in Nat \ {0} /\ Len(u) \in Nat /\ Len(v) \in Nat /\ Len(u) <= Len(v)
  BY <1>1 DEF AllChars, Extends
<1>3. ASSUME NEW j \in 0 .. (i - 1) PROVE more[j] = at[j] /\ at[j] \in 0 .. Len(u)
  <2>1. j \in 0 .. i /\ j # i
    BY <1>2
  <2>2. at[j] \in 0 .. Len(u)
    BY <1>1
  <2> QED
    BY <2>1, <2>2
<1>4. more \in [0 .. i -> 0 .. Len(v)]
  <2> SUFFICES ASSUME NEW j \in 0 .. i PROVE more[j] \in 0 .. Len(v)
    OBVIOUS
  <2>1. CASE j = i
    BY <1>2, <2>1
  <2>2. CASE j # i
    <3>1. j \in 0 .. (i - 1)
      BY <1>2, <2>2
    <3>2. more[j] \in 0 .. Len(u)
      BY <1>3, <3>1
    <3> QED
      BY <1>2, <3>2
  <2> QED
    BY <2>1, <2>2
<1>5. more[0] = 0 /\ more[i] = Len(v) /\ more[i - 1] = Len(u)
  BY <1>1, <1>2
<1> HIDE DEF more
<1>6. ASSUME NEW j \in 1 .. i PROVE RuneAt(v, more[j - 1], more[j], s[j])
  <2>1. CASE j = i
    BY <1>5, <2>1
  <2>2. CASE j # i
    <3>1. j \in 1 .. (i - 1) /\ j - 1 \in 0 .. (i - 1) /\ j \in 0 .. (i - 1)
      BY <1>2, <2>2
    <3> DEFINE from == at[j - 1]
               to == at[j]
    <3>2. more[j - 1] = from /\ more[j] = to /\ from \in 0 .. Len(u) /\ to \in 0 .. Len(u)
      BY <1>3, <3>1
    <3>3. RuneAt(u, from, to, s[j])
      BY <1>1, <3>1
    <3> HIDE DEF from, to
    <3>4. to \in 1 .. Len(u) => v[to] = u[to]
      BY DEF Extends
    <3>5. from + 1 \in 1 .. Len(u) => v[from + 1] = u[from + 1]
      BY DEF Extends
    <3>6. RuneAt(v, from, to, s[j])
      <4>1. CASE OneUnit(s[j])
        <5>1. to \in 1 .. Len(u)
          BY <1>2, <3>2, <3>3, <4>1 DEF RuneAt
        <5> QED
          BY <3>3, <3>4, <4>1, <5>1 DEF RuneAt
      <4>2. CASE ~ OneUnit(s[j])
        <5>1. to \in 1 .. Len(u) /\ from + 1 \in 1 .. Len(u)
          BY <1>2, <3>2, <3>3, <4>2 DEF RuneAt
        <5> QED
          BY <3>3, <3>4, <3>5, <4>2, <5>1 DEF RuneAt
      <4> QED
        BY <4>1, <4>2
    <3> QED
      BY <3>2, <3>6
  <2> QED
    BY <2>1, <2>2
<1>7. Spells(v, s, i, more)
  BY <1>4, <1>5, <1>6 DEF Spells
<1> QED
  BY <1>7

\* The bytes of the first n characters, in units that spell them.
Spelled(b, s, n) == \E u, at : InBytes(b, u) /\ Spells(u, s, n, at)

LEMMA StringSpelled ==
  ASSUME NEW s, AllChars(s)
  PROVE  \E b : PutString(s) = b \o <<0, 0>> /\ Spelled(b, s, Len(s))
<1> DEFINE n == Len(s)
           Bs == Seq(Byte)
           step == [ja \in (1 .. n) \X Bs |-> ja[2] \o PutRune(s[ja[1]])]
           Written1(f) == [i \in 0 .. n |-> IF i = 0 THEN <<>> ELSE f[i - 1] \o PutRune(s[i])]
           bytes == CHOOSE f : f = Written1(f)
<1>0. n \in Nat /\ \A i \in 1 .. n : s[i] \in Nat /\ IsChar(s[i])
  BY DEF AllChars
<1>1. InBytes(<<>>, <<>>)
  BY DEF InBytes
<1>2. \A i \in 1 .. n : PutRune(s[i]) \in Bs
  BY <1>0, <1>1, AddRune
<1>3. step \in [(1 .. n) \X Bs -> Bs]
  <2> SUFFICES ASSUME NEW i \in 1 .. n, NEW a \in Bs PROVE a \o PutRune(s[i]) \in Bs
    OBVIOUS
  <2> QED
    BY <1>2, Joined
<1>4. PICK f \in [0 .. n -> Bs] : Recursive(f, n, <<>>, step)
  <2> HIDE DEF step, n
  <2>1. <<>> \in Bs
    OBVIOUS
  <2> HIDE DEF Bs
  <2> QED
    BY <1>0, <1>3, <2>1, RecursionUpTo
<1>5. \A i \in 1 .. n : f[i] = f[i - 1] \o PutRune(s[i])
  <2> SUFFICES ASSUME NEW i \in 1 .. n PROVE f[i] = f[i - 1] \o PutRune(s[i])
    OBVIOUS
  <2>1. f[i - 1] \in Bs
    OBVIOUS
  <2>2. step[<<i, f[i - 1]>>] = f[i - 1] \o PutRune(s[i])
    BY <2>1
  <2> HIDE DEF step
  <2> QED
    BY <1>4, <2>2 DEF Recursive
<1>6. f = Written1(f)
  <2>1. f[0] = <<>>
    BY <1>4 DEF Recursive
  <2> HIDE DEF step
  <2>2. ASSUME NEW i \in 0 .. n PROVE f[i] = Written1(f)[i]
    <3>1. CASE i = 0
      BY <2>1, <3>1
    <3>2. CASE i # 0
      <4>1. i \in 1 .. n
        BY <1>0, <3>2
      <4>2. f[i] = f[i - 1] \o PutRune(s[i])
        BY <1>5, <4>1
      <4> QED
        BY <3>2, <4>2, Zenon
    <3> QED
      BY <3>1, <3>2
  <2> QED
    BY <2>2
<1>7. PutString(s) = bytes[n] \o <<0, 0>>
  BY DEF PutString
<1>8. bytes = Written1(bytes)
  <2> HIDE DEF Written1
  <2> QED
    BY <1>6
<1> HIDE DEF bytes, step
<1>9. bytes[0] = <<>> /\ \A i \in 1 .. n : bytes[i] = bytes[i - 1] \o PutRune(s[i])
  <2>1. \A i \in 0 .. n : bytes[i] = IF i = 0 THEN <<>> ELSE bytes[i - 1] \o PutRune(s[i])
    BY <1>8
  <2>2. 0 \in 0 .. n /\ \A i \in 1 .. n : i \in 0 .. n /\ i # 0
    BY <1>0
  <2> QED
    BY <2>1, <2>2, Zenon
<1> DEFINE Good == {i \in 0 .. n : Spelled(bytes[i], s, i)}
<1>10. 0 \in Good
  <2> DEFINE at == [i \in 0 .. 0 |-> 0]
  <2>1. <<>> \in Seq(Nat) /\ Len(<<>>) = 0
    OBVIOUS
  <2>2. at \in [0 .. 0 -> 0 .. 0] /\ at[0] = 0
    OBVIOUS
  <2> HIDE DEF at
  <2>3. Spells(<<>>, s, 0, at)
    BY <2>1, <2>2 DEF Spells
  <2> QED
    BY <1>0, <1>1, <1>9, <2>3 DEF Spelled
<1>11. ASSUME NEW m \in 0 .. (n - 1), m \in Good PROVE m + 1 \in Good
  <2> DEFINE i == m + 1
  <2>1. i \in 1 .. n /\ i - 1 = m /\ i \in 0 .. n
    BY <1>0
  <2> HIDE DEF i
  <2>2. PICK u, at : InBytes(bytes[m], u) /\ Spells(u, s, m, at)
    BY <1>11 DEF Spelled
  <2>3. PICK v : /\ InBytes(bytes[m] \o PutRune(s[i]), v) /\ Extends(v, u)
                 /\ RuneAt(v, Len(u), Len(v), s[i])
    BY <1>0, <2>1, <2>2, AddRune
  <2>4. v \in Seq(Nat)
    BY <2>3 DEF InBytes
  <2>5. \E more : Spells(v, s, i, more)
    BY <2>1, <2>2, <2>3, <2>4, SpellsOneMore
  <2>6. bytes[i] = bytes[m] \o PutRune(s[i])
    BY <1>9, <2>1
  <2>7. i \in Good
    BY <2>1, <2>3, <2>5, <2>6 DEF Spelled
  <2> QED
    BY <2>7 DEF i
<1> HIDE DEF Good
<1>12. n \in Good
  <2>1. \A i \in 0 .. n : i \in Good
    BY <1>0, <1>10, <1>11, AllUpTo
  <2> QED
    BY <1>0, <2>1
<1>13. Spelled(bytes[n], s, n)
  BY <1>12 DEF Good
<1> QED
  BY <1>7, <1>13

\* No unit of a character is zero.
LEMMA NoNull ==
  ASSUME NEW s, AllChars(s), NEW u, NEW at, Spells(u, s, Len(s), at)
  PROVE  \A k \in 1 .. Len(u) : u[k] # 0
<1> DEFINE n == Len(s)
           Good == {i \in 0 .. n : \A k \in 1 .. at[i] : u[k] # 0}
<1>1. /\ n \in Nat /\ u \in Seq(Nat) /\ at \in [0 .. n -> 0 .. Len(u)] /\ at[0] = 0 /\ at[n] = Len(u)
      /\ \A i \in 1 .. n : RuneAt(u, at[i - 1], at[i], s[i]) /\ s[i] \in Nat /\ IsChar(s[i])
  BY DEF Spells, AllChars
<1>2. 0 \in Good
  BY <1>1
<1>3. ASSUME NEW m \in 0 .. (n - 1), m \in Good PROVE m + 1 \in Good
  <2> DEFINE i == m + 1
             c == s[i]
             from == at[m]
             to == at[i]
  <2>1. i \in 1 .. n /\ i - 1 = m /\ i \in 0 .. n /\ m \in 0 .. n
    BY <1>1
  <2> HIDE DEF i
  <2>2. RuneAt(u, from, to, c) /\ c \in Nat /\ IsChar(c) /\ from \in Nat /\ to \in Nat
    <3>1. RuneAt(u, from, to, c) /\ c \in Nat /\ IsChar(c)
      BY <1>1, <2>1
    <3>2. from \in 0 .. Len(u) /\ to \in 0 .. Len(u)
      <4>1. at \in [0 .. n -> 0 .. Len(u)]
        BY <1>1
      <4> QED
        BY <2>1, <4>1
    <3>3. Len(u) \in Nat
      <4>1. u \in Seq(Nat)
        BY <1>1
      <4> QED
        BY <4>1
    <3> QED
      BY <3>1, <3>2, <3>3
  <2>3. \A k \in 1 .. from : u[k] # 0
    BY <1>3
  <2> HIDE DEF c, from, to
  <2>4. \A k \in 1 .. to : u[k] # 0
    <3>1. CASE OneUnit(c)
      <4>1. to = from + 1 /\ u[to] = c
        BY <2>2, <3>1 DEF RuneAt
      <4>2. c # 0
        BY SMT, <2>2 DEF IsChar
      <4> QED
        BY <2>2, <2>3, <4>1, <4>2
    <3>2. CASE ~ OneUnit(c)
      <4>1. to = from + 2 /\ u[from + 1] = HighUnit(c) /\ u[to] = LowUnit(c)
        BY <2>2, <3>2 DEF RuneAt
      <4>2. /\ IsUnit(HighUnit(c)) /\ IsHigh(HighUnit(c))
            /\ IsUnit(LowUnit(c)) /\ IsLow(LowUnit(c))
        BY <2>2, <3>2, PairBack
      <4>3. HighUnit(c) # 0 /\ LowUnit(c) # 0
        BY SMT, <4>2 DEF IsUnit, IsHigh, IsLow
      <4>4. \A k \in 1 .. to : k \in 1 .. from \/ k = from + 1 \/ k = to
        BY <2>2, <4>1
      <4> QED
        BY <2>3, <4>1, <4>3, <4>4
    <3> QED
      BY <3>1, <3>2
  <2>5. i \in Good
    BY <2>1, <2>4 DEF to
  <2> QED
    BY <2>5 DEF i
<1> HIDE DEF Good
<1>4. n \in Good
  <2>1. \A i \in 0 .. n : i \in Good
    BY <1>1, <1>2, <1>3, AllUpTo
  <2> QED
    BY <1>1, <2>1
<1> QED
  BY <1>1, <1>4 DEF Good

-----------------------------------------------------------------------------
(* One value: what the reader makes of what the writer wrote.               *)

Reader(d, p, ok, g) == [data |-> d, pos |-> p, ok |-> ok, got |-> g]

\* d has the bytes b behind p, or as many of them as it has bytes.
Follows(d, p, b) == \A k \in 1 .. Len(b) : p + k <= Len(d) => d[p + k] = b[k]

\* The reader r, which was at p, has read v in n bytes, or has failed for want of them.
ReadOrCut(r, d, p, n, v, g) ==
  /\ p + n <= Len(d) => r = Reader(d, p + n, TRUE, Append(g, v))
  /\ ~ (p + n <= Len(d)) => r = Reader(d, p, FALSE, g)

LEMMA FailStops ==
  ASSUME NEW d, NEW p, NEW ok, NEW g
  PROVE  Fail(Reader(d, p, ok, g)) = Reader(d, p, FALSE, g)
<1> DEFINE r == Reader(d, p, ok, g)
           R == [data : {d}, pos : {p}, ok : {ok, FALSE}, got : {g}]
<1>1. r \in R
  BY DEF Reader
<1> HIDE DEF r
<1>2. Fail(r) \in R /\ Fail(r).ok = FALSE
  BY <1>1 DEF Fail
<1>3. Reader(d, p, FALSE, g) \in R /\ Reader(d, p, FALSE, g).ok = FALSE
  BY DEF Reader
<1>4. \A x, y \in R : x.ok = y.ok => x = y
  OBVIOUS
<1> HIDE DEF R
<1> QED
  BY <1>2, <1>3, <1>4 DEF r

LEMMA ReadValue ==
  ASSUME NEW d \in Seq(Byte), NEW p \in Nat, NEW g, NEW n \in Nat, NEW x, NEW v,
         p + n <= Len(d) => x = v
  PROVE  ReadOrCut(Read(Reader(d, p, TRUE, g), n, x), d, p, n, v, g)
<1> DEFINE r == Reader(d, p, TRUE, g)
           more == Append(g, x)
           t == p + n
           next == Reader(d, t, TRUE, more)
           R == [data : {d}, pos : {p, t}, ok : BOOLEAN, got : {g, more}]
<1>1. r \in R /\ r.ok /\ r.pos = p /\ r.data = d /\ r.got = g
  BY DEF Reader
<1>2. Len(d) \in Nat /\ t \in Nat
  OBVIOUS
<1>3. next \in R /\ next.ok /\ next.pos = t /\ next.got = more
  BY DEF Reader
<1>4. \A y, z \in R : y.ok = z.ok /\ y.pos = z.pos /\ y.got = z.got => y = z
  OBVIOUS
<1> HIDE DEF r, next
<1>5. CASE t <= Len(d)
  <2>1. Read(r, n, x) = [r EXCEPT !.pos = @ + n, !.got = Append(@, x)]
    <3>1. ~ (r.pos + n > Len(r.data))
      BY <1>1, <1>2, <1>5
    <3> QED
      BY <1>1, <3>1, Zenon DEF Read
  <2>2. [r EXCEPT !.pos = @ + n, !.got = Append(@, x)] = [r EXCEPT !.pos = t, !.got = more]
    BY <1>1
  <2> HIDE DEF t, more
  <2>3. [r EXCEPT !.pos = t, !.got = more] = next
    <3> DEFINE e == [r EXCEPT !.pos = t, !.got = more]
    <3>1. e \in R /\ e.ok /\ e.pos = t /\ e.got = more
      BY <1>1
    <3> HIDE DEF e, R
    <3> QED
      BY <1>3, <1>4, <3>1 DEF e
  <2>4. Read(r, n, x) = next
    BY <2>1, <2>2, <2>3, Zenon
  <2>5. x = v /\ p + n <= Len(d)
    BY <1>5 DEF t
  <2> QED
    BY <2>4, <2>5 DEF ReadOrCut, r, next, t, more
<1>6. CASE ~ (t <= Len(d))
  <2>1. r.pos + n > Len(r.data)
    BY <1>1, <1>2, <1>6
  <2>2. Read(r, n, x) = Fail(r)
    BY <2>1, Zenon DEF Read
  <2>3. Read(r, n, x) = Reader(d, p, FALSE, g)
    BY <2>2, FailStops DEF r
  <2> QED
    BY <1>6, <2>3 DEF ReadOrCut, r
<1> QED
  BY <1>5, <1>6

\* Four bytes are the integer that was written.
LEMMA IntRead ==
  ASSUME NEW n, IsInt32(n), NEW d, NEW p \in Nat, \A k \in 1 .. 4 : d[p + k] = PutInt(n)[k]
  PROVE  LongWord(d[p + 1], d[p + 2], d[p + 3], d[p + 4]) = n
<1>1. n \in Int
  BY IntBack
<1>2. /\ d[p + 1] = n % 256 /\ d[p + 2] = (n \div 256) % 256
      /\ d[p + 3] = (n \div 65536) % 256 /\ d[p + 4] = (n \div 16777216) % 256
  BY SMT, <1>1, IntBytes DEF IntDigits
<1> QED
  BY <1>2, IntBack, SMT

\* What the writer writes of a value, and the reader makes of those bytes.
ComesBack(item, d, p) ==
  \E v : /\ item.type # "double" => v = item.val
         /\ \A g : ReadOrCut(GetValue(Reader(d, p, TRUE, g), item), d, p, Len(PutValue(item)), v, g)

LEMMA ByteComesBack ==
  ASSUME NEW item, Writable(item), item.type = "byte",
         NEW d \in Seq(Byte), NEW p \in Nat, Follows(d, p, PutValue(item))
  PROVE  PutValue(item) \in Seq(Byte) /\ ComesBack(item, d, p)
<1> DEFINE v == item.val
<1>1. v \in Byte /\ PutValue(item) = <<v>>
  BY DEF Writable, PutValue
<1> HIDE DEF v
<1>2. p + 1 <= Len(d) => d[p + 1] = v
  BY <1>1 DEF Follows
<1>3. ASSUME NEW g PROVE ReadOrCut(GetValue(Reader(d, p, TRUE, g), item), d, p, 1, v, g)
  <2> DEFINE r == Reader(d, p, TRUE, g)
  <2>1. GetValue(r, item) = ReadByte(r)
    BY DEF GetValue
  <2>2. ReadByte(r) = Read(r, 1, d[p + 1])
    BY DEF ReadByte, Ahead, Reader
  <2> QED
    BY <1>2, <2>1, <2>2, ReadValue
<1>4. <<v>> \in Seq(Byte) /\ Len(<<v>>) = 1
  BY <1>1
<1> QED
  BY <1>1, <1>3, <1>4 DEF ComesBack, v

LEMMA ShortComesBack ==
  ASSUME NEW item, Writable(item), item.type = "short",
         NEW d \in Seq(Byte), NEW p \in Nat, Follows(d, p, PutValue(item))
  PROVE  PutValue(item) \in Seq(Byte) /\ ComesBack(item, d, p)
<1> DEFINE v == item.val
           b == PutShort(v)
<1>1. IsInt16(v) /\ PutValue(item) = b
  BY DEF Writable, PutValue
<1> HIDE DEF v
<1>2. v \in Int /\ Short(v % 256, (v \div 256) % 256) = v
  BY <1>1, ShortBack
<1>3. b \in Seq(Byte) /\ Len(b) = 2 /\ ShortDigits(b, v)
  BY <1>2, ShortBytes
<1> HIDE DEF b
<1>4. ASSUME p + 2 <= Len(d) PROVE Short(d[p + 1], d[p + 2]) = v
  <2>1. d[p + 1] = b[1] /\ d[p + 2] = b[2]
    BY <1>1, <1>3, <1>4 DEF Follows
  <2>2. b[1] = v % 256 /\ b[2] = (v \div 256) % 256
    BY <1>3 DEF ShortDigits
  <2> QED
    BY <1>2, <2>1, <2>2
<1>5. ASSUME NEW g PROVE ReadOrCut(GetValue(Reader(d, p, TRUE, g), item), d, p, 2, v, g)
  <2> DEFINE r == Reader(d, p, TRUE, g)
  <2>1. GetValue(r, item) = ReadShort(r)
    BY DEF GetValue
  <2>2. ReadShort(r) = Read(r, 2, Short(d[p + 1], d[p + 2]))
    BY DEF ReadShort, Ahead, Reader
  <2> QED
    BY <1>4, <2>1, <2>2, ReadValue
<1> QED
  BY <1>1, <1>3, <1>5 DEF ComesBack, v

LEMMA IntComesBack ==
  ASSUME NEW item, Writable(item), item.type = "int",
         NEW d \in Seq(Byte), NEW p \in Nat, Follows(d, p, PutValue(item))
  PROVE  PutValue(item) \in Seq(Byte) /\ ComesBack(item, d, p)
<1> DEFINE v == item.val
           b == PutInt(v)
<1>1. IsInt32(v) /\ PutValue(item) = b
  BY DEF Writable, PutValue
<1> HIDE DEF v
<1>2. v \in Int
  BY <1>1, IntBack
<1>3. b \in Seq(Byte) /\ Len(b) = 4
  BY <1>2, IntBytes
<1>4. ASSUME p + 4 <= Len(d) PROVE LongWord(d[p + 1], d[p + 2], d[p + 3], d[p + 4]) = v
  <2>1. \A k \in 1 .. 4 : d[p + k] = b[k]
    <3> HIDE DEF b
    <3> QED
      BY <1>1, <1>3, <1>4 DEF Follows
  <2> QED
    BY <1>1, <2>1, IntRead
<1> HIDE DEF b
<1>5. ASSUME NEW g PROVE ReadOrCut(GetValue(Reader(d, p, TRUE, g), item), d, p, 4, v, g)
  <2> DEFINE r == Reader(d, p, TRUE, g)
  <2>1. GetValue(r, item) = ReadInt(r)
    BY DEF GetValue
  <2>2. ReadInt(r) = Read(r, 4, LongWord(d[p + 1], d[p + 2], d[p + 3], d[p + 4]))
    BY DEF ReadInt, IntAhead, Ahead, Reader
  <2> QED
    BY <1>4, <2>1, <2>2, ReadValue
<1> QED
  BY <1>1, <1>3, <1>5 DEF ComesBack, v

Int32At(d, q) == LongWord(d[q + 1], d[q + 2], d[q + 3], d[q + 4])

LEMMA LongRead ==
  ASSUME NEW d, NEW p \in Nat, NEW g
  PROVE  ReadLong(Reader(d, p, TRUE, g)) = Read(Reader(d, p, TRUE, g), 8, <<Int32At(d, p), Int32At(d, p + 4)>>)
<1> DEFINE r == Reader(d, p, TRUE, g)
           q == p + 4
<1>1. /\ p + (1 + 1) = p + 2 /\ p + (1 + 2) = p + 3 /\ p + (1 + 3) = p + 4
      /\ p + 5 = q + 1 /\ p + (5 + 1) = q + 2 /\ p + (5 + 2) = q + 3 /\ p + (5 + 3) = q + 4
  OBVIOUS
<1>2. \A k : Ahead(r, k) = d[p + k]
  BY DEF Ahead, Reader
<1>3. ReadLong(r) = Read(r, 8, <<IntAhead(r, 1), IntAhead(r, 5)>>)
  BY DEF ReadLong
<1> HIDE DEF r, q
<1>4. IntAhead(r, 1) = Int32At(d, p)
  <2>1. IntAhead(r, 1) = LongWord(d[p + 1], d[p + (1 + 1)], d[p + (1 + 2)], d[p + (1 + 3)])
    BY <1>2 DEF IntAhead
  <2> QED
    BY <1>1, <2>1, Zenon DEF Int32At
<1>5. IntAhead(r, 5) = Int32At(d, q)
  <2>1. IntAhead(r, 5) = LongWord(d[p + 5], d[p + (5 + 1)], d[p + (5 + 2)], d[p + (5 + 3)])
    BY <1>2 DEF IntAhead
  <2> QED
    BY <1>1, <2>1, Zenon DEF Int32At
<1> QED
  BY <1>3, <1>4, <1>5, Zenon DEF r, q

LEMMA LongComesBack ==
  ASSUME NEW item, Writable(item), item.type = "long",
         NEW d \in Seq(Byte), NEW p \in Nat, Follows(d, p, PutValue(item))
  PROVE  PutValue(item) \in Seq(Byte) /\ ComesBack(item, d, p)
<1> DEFINE v == item.val
           b == PutLong(v)
           low == v[1]
           high == v[2]
           read == <<Int32At(d, p), Int32At(d, p + 4)>>
<1>1. v \in Int \X Int /\ IsInt32(low) /\ IsInt32(high) /\ PutValue(item) = b
  BY DEF Writable, PutValue
<1>2. v = <<low, high>> /\ low \in Int /\ high \in Int
  BY <1>1
<1> HIDE DEF v, low, high
<1>3. /\ b \in Seq(Byte) /\ Len(b) = 8
      /\ \A k \in 1 .. 4 : b[k] = PutInt(low)[k] /\ b[4 + k] = PutInt(high)[k]
  <2>1. b = PutLong(<<low, high>>)
    BY <1>2
  <2> HIDE DEF b
  <2> QED
    BY <1>2, <2>1, LongBytes
<1> HIDE DEF b
<1>4. ASSUME p + 8 <= Len(d) PROVE read = v
  <2>1. \A k \in 1 .. 8 : d[p + k] = b[k]
    <3>1. \A k \in 1 .. 8 : p + k <= Len(d)
      BY <1>4
    <3> QED
      BY <1>1, <1>3, <3>1 DEF Follows
  <2>2. \A k \in 1 .. 4 : d[p + k] = PutInt(low)[k]
    <3> SUFFICES ASSUME NEW k \in 1 .. 4 PROVE d[p + k] = PutInt(low)[k]
      OBVIOUS
    <3>1. k \in 1 .. 8
      OBVIOUS
    <3> QED
      BY <1>3, <2>1, <3>1
  <2>3. \A k \in 1 .. 4 : d[(p + 4) + k] = PutInt(high)[k]
    <3> SUFFICES ASSUME NEW k \in 1 .. 4 PROVE d[(p + 4) + k] = PutInt(high)[k]
      OBVIOUS
    <3>1. 4 + k \in 1 .. 8 /\ (p + 4) + k = p + (4 + k)
      OBVIOUS
    <3>2. d[p + (4 + k)] = b[4 + k]
      BY <2>1, <3>1
    <3> QED
      BY <1>3, <3>1, <3>2
  <2>4. p + 4 \in Nat
    OBVIOUS
  <2>5. Int32At(d, p) = low
    BY <1>1, <2>2, IntRead DEF Int32At
  <2>6. Int32At(d, p + 4) = high
    BY <1>1, <2>3, <2>4, IntRead DEF Int32At
  <2> QED
    BY <1>2, <2>5, <2>6
<1> HIDE DEF read
<1>5. ASSUME NEW g PROVE ReadOrCut(GetValue(Reader(d, p, TRUE, g), item), d, p, 8, v, g)
  <2> DEFINE r == Reader(d, p, TRUE, g)
  <2>1. GetValue(r, item) = ReadLong(r)
    BY DEF GetValue
  <2>2. ReadLong(r) = Read(r, 8, read)
    BY LongRead DEF read
  <2> QED
    BY <1>4, <2>1, <2>2, ReadValue
<1> QED
  BY <1>1, <1>3, <1>5 DEF ComesBack, v

LEMMA DoubleComesBack ==
  ASSUME NEW item, Writable(item), item.type = "double",
         NEW d \in Seq(Byte), NEW p \in Nat, Follows(d, p, PutValue(item))
  PROVE  PutValue(item) \in Seq(Byte) /\ ComesBack(item, d, p)
<1> DEFINE v == item.val
           b == PutDouble(v)
           read == <<Int32At(d, p), Int32At(d, p + 4)>>
<1>1. v \in Nat /\ v < TwoTo[Fraction] /\ PutValue(item) = b
  BY DEF Writable, PutValue
<1> HIDE DEF v
<1>2. b \in Seq(Byte) /\ Len(b) = 8
  BY <1>1, DoubleBytes
<1> HIDE DEF read, b
<1>3. ASSUME NEW g PROVE ReadOrCut(GetValue(Reader(d, p, TRUE, g), item), d, p, 8, read, g)
  <2> DEFINE r == Reader(d, p, TRUE, g)
  <2>1. GetValue(r, item) = ReadLong(r)
    BY DEF GetValue, ReadDouble
  <2>2. ReadLong(r) = Read(r, 8, read)
    BY LongRead DEF read
  <2> QED
    BY <2>1, <2>2, ReadValue
<1> QED
  BY <1>1, <1>2, <1>3 DEF ComesBack

LEMMA BytesComesBack ==
  ASSUME NEW item, Writable(item), item.type = "bytes",
         NEW d \in Seq(Byte), NEW p \in Nat, Follows(d, p, PutValue(item))
  PROVE  PutValue(item) \in Seq(Byte) /\ ComesBack(item, d, p)
<1> DEFINE v == item.val
           n == Len(v)
           read == SubSeq(d, p + 1, p + n)
<1>1. v \in Seq(Byte) /\ PutValue(item) = v
  BY DEF Writable, PutValue
<1>2. ASSUME NEW g PROVE GetValue(Reader(d, p, TRUE, g), item) = ReadBytes(Reader(d, p, TRUE, g), n)
  BY DEF GetValue
<1> HIDE DEF v
<1>3. n \in Nat
  BY <1>1
<1>4. ASSUME p + n <= Len(d) PROVE read = v
  <2>1. read \in Seq(Byte) /\ Len(read) = n /\ \A k \in 1 .. n : read[k] = d[p + k]
    <3>1. p + 1 \in 1 .. (Len(d) + 1) /\ p + n \in p .. Len(d) /\ Len(d) \in Nat
      BY <1>3, <1>4
    <3>2. Len(read) = IF p + 1 <= p + n THEN (p + n) - (p + 1) + 1 ELSE 0
      BY <1>3, <3>1
    <3>3. Len(read) = n
      BY <1>3, <3>2
    <3>4. \A k \in 1 .. n : read[k] = d[(p + 1) + k - 1]
      BY <1>3, <3>1
    <3>5. \A k \in 1 .. n : (p + 1) + k - 1 = p + k
      BY <1>3
    <3>6. read \in Seq(Byte)
      <4>1. \A i \in (p + 1) .. (p + n) : d[i] \in Byte
        BY <3>1
      <4> QED
        BY <1>3, <4>1, SubSeqProperties
    <3> HIDE DEF read
    <3> QED
      BY <3>3, <3>4, <3>5, <3>6
  <2>2. \A k \in 1 .. n : d[p + k] = v[k]
    <3>1. \A k \in 1 .. n : p + k <= Len(d)
      BY <1>3, <1>4
    <3> QED
      BY <1>1, <3>1 DEF Follows
  <2> HIDE DEF read
  <2> QED
    BY <1>1, <2>1, <2>2, SeqEqual
<1> HIDE DEF read
<1>5. ASSUME NEW g PROVE ReadOrCut(GetValue(Reader(d, p, TRUE, g), item), d, p, n, v, g)
  <2> DEFINE r == Reader(d, p, TRUE, g)
  <2>1. ReadBytes(r, n) = Read(r, n, read)
    <3>1. ~ (n < 0)
      BY <1>3
    <3> QED
      BY <3>1 DEF ReadBytes, Reader, read
  <2> QED
    BY <1>2, <1>3, <1>4, <2>1, ReadValue
<1> QED
  BY <1>1, <1>5 DEF ComesBack, v

\* The k-th unit behind p.
UnitOf(d, p, k) == d[p + (2 * k - 1)] + 256 * d[p + 2 * k]

LEMMA UnitsFollow ==
  ASSUME NEW u, NEW b, InBytes(b, u), NEW d, NEW p \in Nat, NEW len \in Nat, len = Len(d),
         Follows(d, p, b \o <<0, 0>>)
  PROVE  \A k \in 1 .. (Len(u) + 1) :
           p + 2 * k <= len => UnitOf(d, p, k) = IF k <= Len(u) THEN u[k] ELSE 0
<1> DEFINE n == Len(u)
           z == <<0, 0>>
           c == b \o z
<1>1. b \in Seq(Byte) /\ u \in Seq(Nat) /\ Len(b) = 2 * n /\ n \in Nat
  BY DEF InBytes
<1>2. z \in Seq(Byte) /\ Len(z) = 2 /\ z[1] = 0 /\ z[2] = 0
  BY DEF Byte
<1> HIDE DEF z
<1>3. Joins(c, b, z)
  BY <1>1, <1>2, Joined
<1> HIDE DEF c
<1>4. Len(c) = 2 * n + 2 /\ c[2 * n + 1] = 0 /\ c[2 * n + 2] = 0
  <2>1. \A k \in 1 .. 2 : c[2 * n + k] = z[k]
    BY <1>1, <1>2, <1>3 DEF Joins
  <2>2. Len(c) = 2 * n + 2
    BY <1>1, <1>2, <1>3 DEF Joins
  <2>3. 1 \in 1 .. 2 /\ 2 \in 1 .. 2
    OBVIOUS
  <2> QED
    BY <1>2, <2>1, <2>2, <2>3
<1>5. \A k \in 1 .. Len(c) : p + k <= len => d[p + k] = c[k]
  BY DEF Follows, c, z
<1> SUFFICES ASSUME NEW k \in 1 .. (n + 1), p + 2 * k <= len
             PROVE  UnitOf(d, p, k) = IF k <= n THEN u[k] ELSE 0
  OBVIOUS
<1> DEFINE i == 2 * k - 1
           j == 2 * k
<1>6. i \in 1 .. Len(c) /\ j \in 1 .. Len(c) /\ p + i <= len /\ p + j <= len
  BY <1>1, <1>4
<1>7. d[p + i] = c[i] /\ d[p + j] = c[j]
  <2> HIDE DEF i, j
  <2> QED
    BY <1>5, <1>6
<1>8. CASE k <= n
  <2>1. i \in 1 .. Len(b) /\ j \in 1 .. Len(b)
    BY <1>1, <1>8
  <2>2. c[i] = b[i] /\ c[j] = b[j]
    <3> HIDE DEF i, j
    <3> QED
      BY <1>3, <2>1 DEF Joins
  <2>3. b[i] + 256 * b[j] = u[k]
    <3>1. k \in 1 .. Len(u)
      BY <1>1, <1>8
    <3> QED
      BY <3>1 DEF InBytes
  <2> HIDE DEF i, j
  <2>4. UnitOf(d, p, k) = u[k]
    <3>1. UnitOf(d, p, k) = d[p + i] + 256 * d[p + j]
      BY DEF UnitOf, i, j
    <3>2. d[p + i] = b[i] /\ d[p + j] = b[j]
      BY <1>7, <2>2
    <3> QED
      BY <2>3, <3>1, <3>2
  <2> QED
    BY <1>8, <2>4
<1>9. CASE ~ (k <= n)
  <2>1. i = 2 * n + 1 /\ j = 2 * n + 2
    <3>1. k = n + 1
      BY <1>1, <1>9
    <3> HIDE DEF n
    <3> QED
      BY <1>1, <3>1
  <2>2. c[i] = 0 /\ c[j] = 0
    <3> HIDE DEF i, j
    <3> QED
      BY <1>4, <2>1
  <2> HIDE DEF i, j
  <2>3. UnitOf(d, p, k) = 0
    <3>1. UnitOf(d, p, k) = d[p + i] + 256 * d[p + j]
      BY DEF UnitOf, i, j
    <3>2. d[p + i] = 0 /\ d[p + j] = 0
      BY <1>7, <2>2
    <3> QED
      BY <3>1, <3>2
  <2> QED
    BY <1>9, <2>3
<1> QED
  BY <1>8, <1>9

LEMMA Halved ==
  ASSUME NEW x \in Int
  PROVE  x \div 2 \in Int /\ 2 * (x \div 2) <= x /\ x < 2 * ((x \div 2) + 1)
OBVIOUS

LEMMA StringComesBack ==
  ASSUME NEW item, Writable(item), item.type = "string",
         NEW d \in Seq(Byte), NEW p \in Nat, Follows(d, p, PutValue(item))
  PROVE  PutValue(item) \in Seq(Byte) /\ ComesBack(item, d, p)
<1> DEFINE s == item.val
<1>1. AllChars(s) /\ PutValue(item) = PutString(s)
  BY DEF Writable, PutValue, AllChars
<1>2. \A g : GetValue(Reader(d, p, TRUE, g), item) = ReadString(Reader(d, p, TRUE, g))
  BY DEF GetValue
<1> HIDE DEF s
<1>3. PICK b : PutString(s) = b \o <<0, 0>> /\ Spelled(b, s, Len(s))
  BY <1>1, StringSpelled
<1>4. PICK u, at : InBytes(b, u) /\ Spells(u, s, Len(s), at)
  BY <1>3 DEF Spelled
<1> DEFINE n    == Len(u)
           len  == Len(d)
           left == (len - p) \div 2
           nulls == {k \in 1 .. left : UnitOf(d, p, k) = 0}
<1>5. b \in Seq(Byte) /\ Len(b) = 2 * n /\ u \in Seq(Nat) /\ n \in Nat /\ len \in Nat
  BY <1>4 DEF InBytes
<1>6. PutValue(item) \in Seq(Byte) /\ Len(PutValue(item)) = 2 * (n + 1)
  <2>1. <<0, 0>> \in Seq(Byte) /\ Len(<<0, 0>>) = 2
    BY DEF Byte
  <2>2. b \o <<0, 0>> \in Seq(Byte) /\ Joins(b \o <<0, 0>>, b, <<0, 0>>)
    BY <1>5, <2>1, Joined
  <2>3. Len(b \o <<0, 0>>) = 2 * n + 2
    BY <1>5, <2>1, <2>2 DEF Joins
  <2> QED
    BY <1>1, <1>3, <1>5, <2>2, <2>3
<1>7. \A k \in 1 .. (n + 1) : p + 2 * k <= len => UnitOf(d, p, k) = IF k <= n THEN u[k] ELSE 0
  BY <1>1, <1>3, <1>4, <1>5, UnitsFollow
<1>8. left \in Int /\ 2 * left <= len - p /\ len - p < 2 * (left + 1)
  <2> HIDE DEF len, n
  <2>1. len - p \in Int
    BY <1>5
  <2> QED
    BY <2>1, Halved
<1>9. \A k \in 1 .. n : u[k] # 0
  BY <1>1, <1>4, NoNull
<1>10. ASSUME NEW g, NEW k PROVE UnitAt(Reader(d, p, TRUE, g), k) = UnitOf(d, p, k)
  BY DEF UnitAt, Ahead, Reader, UnitOf
<1> HIDE DEF len, left
<1>11. CASE p + 2 * (n + 1) <= len
  <2>1. n + 1 \in 1 .. left /\ n + 1 \in 1 .. (n + 1)
    BY <1>5, <1>8, <1>11
  <2>2. n + 1 \in nulls
    <3>1. ~ (n + 1 <= n)
      BY <1>5
    <3>2. UnitOf(d, p, n + 1) = 0
      BY <1>7, <1>11, <2>1, <3>1
    <3> QED
      BY <2>1, <3>2
  <2>3. \A k \in 1 .. n : UnitOf(d, p, k) = u[k]
    <3> SUFFICES ASSUME NEW k \in 1 .. n PROVE UnitOf(d, p, k) = u[k]
      OBVIOUS
    <3>1. k \in 1 .. (n + 1) /\ k <= n /\ p + 2 * k <= len
      BY <1>5, <1>11
    <3> QED
      BY <1>7, <3>1
  <2>4. \A k \in nulls : k \in Int /\ n + 1 <= k
    <3> SUFFICES ASSUME NEW k \in nulls, ~ (n + 1 <= k) PROVE FALSE
      BY <1>8
    <3>1. k \in 1 .. n
      BY <1>5, <1>8
    <3> QED
      BY <1>9, <2>3, <3>1
  <2> HIDE DEF nulls
  <2>5. Least(nulls) = n + 1
    <3>1. Least(nulls) \in nulls /\ \A k \in nulls : Least(nulls) <= k
      BY <2>2, <2>4 DEF Least
    <3>2. Least(nulls) \in Int /\ n + 1 <= Least(nulls) /\ Least(nulls) <= n + 1
      BY <2>2, <2>4, <3>1
    <3> QED
      BY <1>5, <3>2
  <2>6. Runes(u) = s
    BY <1>1, <1>4, RunesBack
  <2>7. [k \in 1 .. n |-> UnitOf(d, p, k)] = u
    <3>1. [k \in 1 .. n |-> UnitOf(d, p, k)] = [k \in 1 .. n |-> u[k]]
      BY <2>3
    <3>2. [k \in 1 .. n |-> u[k]] = u
      BY <1>5
    <3> QED
      BY <3>1, <3>2
  <2>8. ASSUME NEW g
        PROVE  ReadString(Reader(d, p, TRUE, g)) = Read(Reader(d, p, TRUE, g), 2 * (n + 1), s)
    <3> DEFINE r == Reader(d, p, TRUE, g)
               found == {k \in 1 .. ((Len(r.data) - r.pos) \div 2) : UnitAt(r, k) = 0}
               text(m) == [k \in 1 .. (m - 1) |-> UnitAt(r, k)]
    <3>1. r.data = d /\ r.pos = p /\ r.ok
      BY DEF Reader
    <3>2. \A k : UnitAt(r, k) = UnitOf(d, p, k)
      BY <1>10
    <3>3. ReadString(r) = IF ~ r.ok \/ found = {} THEN Fail(r)
                          ELSE Read(r, 2 * Least(found), Runes(text(Least(found))))
      BY DEF ReadString
    <3> HIDE DEF r
    <3>4. found = nulls
      BY <3>1, <3>2 DEF nulls, left, len
    <3>5. (n + 1) - 1 = n
      BY <1>5
    <3>6. text(n + 1) = [k \in 1 .. n |-> UnitOf(d, p, k)]
      BY <3>2, <3>5
    <3> HIDE DEF found, text
    <3>7. found # {} /\ Least(found) = n + 1
      BY <2>2, <2>5, <3>4
    <3> QED
      BY <2>6, <2>7, <3>1, <3>3, <3>6, <3>7 DEF r
  <2>9. 2 * (n + 1) \in Nat
    BY <1>5
  <2>10. ASSUME NEW g
         PROVE  ReadOrCut(GetValue(Reader(d, p, TRUE, g), item), d, p, 2 * (n + 1), s, g)
    BY <1>2, <2>8, <2>9, ReadValue
  <2> QED
    BY <1>6, <2>10 DEF ComesBack, s
<1>12. CASE ~ (p + 2 * (n + 1) <= len)
  <2>1. left <= n
    BY <1>5, <1>8, <1>12
  <2>2. nulls = {}
    <3> SUFFICES ASSUME NEW k \in nulls PROVE FALSE
      OBVIOUS
    <3>1. k \in 1 .. left /\ UnitOf(d, p, k) = 0
      OBVIOUS
    <3>2. k \in 1 .. (n + 1) /\ k \in 1 .. n /\ k <= n /\ p + 2 * k <= len
      BY <1>5, <1>8, <2>1, <3>1
    <3>3. UnitOf(d, p, k) = u[k]
      BY <1>7, <3>2
    <3> QED
      BY <1>9, <3>1, <3>2, <3>3
  <2> HIDE DEF nulls
  <2>3. ASSUME NEW g PROVE ReadString(Reader(d, p, TRUE, g)) = Reader(d, p, FALSE, g)
    <3> DEFINE r == Reader(d, p, TRUE, g)
               found == {k \in 1 .. ((Len(r.data) - r.pos) \div 2) : UnitAt(r, k) = 0}
               text(m) == [k \in 1 .. (m - 1) |-> UnitAt(r, k)]
    <3>1. r.data = d /\ r.pos = p
      BY DEF Reader
    <3>2. \A k : UnitAt(r, k) = UnitOf(d, p, k)
      BY <1>10
    <3>3. ReadString(r) = IF ~ r.ok \/ found = {} THEN Fail(r)
                          ELSE Read(r, 2 * Least(found), Runes(text(Least(found))))
      BY DEF ReadString
    <3> HIDE DEF r
    <3>4. found = nulls
      BY <3>1, <3>2 DEF nulls, left, len
    <3> HIDE DEF found, text
    <3>5. ReadString(r) = Fail(r)
      BY <2>2, <3>3, <3>4
    <3> QED
      BY <3>5, FailStops DEF r
  <2>4. ASSUME NEW g
        PROVE  ReadOrCut(GetValue(Reader(d, p, TRUE, g), item), d, p, 2 * (n + 1), s, g)
    BY <1>2, <1>12, <2>3 DEF ReadOrCut, len
  <2> QED
    BY <1>6, <2>4 DEF ComesBack, s
<1> QED
  BY <1>11, <1>12

LEMMA TypesOfWritable ==
  ASSUME NEW item, Writable(item)
  PROVE  item.type \in {"byte", "short", "int", "long", "double", "string", "bytes"}
BY Zenon DEF Writable

\* What was written comes back, or the reader stops where the data ends.
LEMMA GetPut ==
  ASSUME NEW item, Writable(item), NEW d \in Seq(Byte), NEW p \in Nat, Follows(d, p, PutValue(item))
  PROVE  PutValue(item) \in Seq(Byte) /\ ComesBack(item, d, p)
<1>1. item.type \in {"byte", "short", "int", "long", "double", "string", "bytes"}
  BY TypesOfWritable
<1>2. CASE item.type = "byte"
  BY <1>2, ByteComesBack
<1>3. CASE item.type = "short"
  BY <1>3, ShortComesBack
<1>4. CASE item.type = "int"
  BY <1>4, IntComesBack
<1>5. CASE item.type = "long"
  BY <1>5, LongComesBack
<1>6. CASE item.type = "double"
  BY <1>6, DoubleComesBack
<1>7. CASE item.type = "string"
  BY <1>7, StringComesBack
<1>8. CASE item.type = "bytes"
  BY <1>8, BytesComesBack
<1> QED
  BY <1>1, <1>2, <1>3, <1>4, <1>5, <1>6, <1>7, <1>8

LEMMA PutsBytes ==
  ASSUME NEW item, Writable(item)
  PROVE  PutValue(item) \in Seq(Byte) /\ Len(PutValue(item)) \in Nat
<1>1. <<>> \in Seq(Byte) /\ Len(<<>>) = 0 /\ 0 \in Nat
  OBVIOUS
<1>2. Follows(<<>>, 0, PutValue(item))
  <2> SUFFICES ASSUME NEW k \in 1 .. Len(PutValue(item)), 0 + k <= Len(<<>>) PROVE FALSE
    BY DEF Follows
  <2>1. k \in Int /\ 1 <= k
    OBVIOUS
  <2> QED
    BY <1>1, <2>1
<1>3. PutValue(item) \in Seq(Byte)
  BY <1>1, <1>2, GetPut
<1> QED
  BY <1>3, LenProperties

\* A reader that has failed reads nothing more.
LEMMA StaysFailed ==
  ASSUME NEW item, Writable(item), NEW d, NEW p, NEW g
  PROVE  GetValue(Reader(d, p, FALSE, g), item) = Reader(d, p, FALSE, g)
<1> DEFINE r == Reader(d, p, FALSE, g)
<1>1. ~ r.ok /\ Fail(r) = r
  BY FailStops DEF Reader
<1>2. item.type \in {"byte", "short", "int", "long", "double", "string", "bytes"}
  BY TypesOfWritable
<1> HIDE DEF r
<1>3. \A n, x : Read(r, n, x) = r
  BY <1>1, Zenon DEF Read
<1>4. ReadByte(r) = r /\ ReadShort(r) = r /\ ReadInt(r) = r /\ ReadLong(r) = r /\ ReadDouble(r) = r
  BY <1>3, Zenon DEF ReadByte, ReadShort, ReadInt, ReadLong, ReadDouble
<1>5. ReadString(r) = r
  BY <1>1, Zenon DEF ReadString
<1>6. \A n : ReadBytes(r, n) = r
  BY <1>1, <1>3, Zenon DEF ReadBytes
<1>7. GetValue(r, item) = r
  <2>1. CASE item.type = "byte"
    BY <1>4, <2>1 DEF GetValue
  <2>2. CASE item.type = "short"
    BY <1>4, <2>2 DEF GetValue
  <2>3. CASE item.type = "int"
    BY <1>4, <2>3 DEF GetValue
  <2>4. CASE item.type = "long"
    BY <1>4, <2>4 DEF GetValue
  <2>5. CASE item.type = "double"
    BY <1>4, <2>5 DEF GetValue
  <2>6. CASE item.type = "string"
    BY <1>5, <2>6 DEF GetValue
  <2>7. CASE item.type = "bytes"
    BY <1>6, <2>7 DEF GetValue
  <2> QED
    BY <1>2, <2>1, <2>2, <2>3, <2>4, <2>5, <2>6, <2>7
<1> QED
  BY <1>7 DEF r

-----------------------------------------------------------------------------
(* All the values of a packet.                                              *)

\* The i-th value of all is what d has between at[i - 1] and at[i].
LaidOut(all, d, at) ==
  /\ at \in [0 .. Len(all) -> 0 .. Len(d)] /\ at[0] = 0 /\ at[Len(all)] = Len(d)
  /\ \A i \in 1 .. Len(all) : /\ at[i] = at[i - 1] + Len(PutValue(all[i]))
                              /\ Follows(d, at[i - 1], PutValue(all[i]))

\* The values the reader gets of all.
AreValues(v, all) == \A i \in 1 .. Len(all) : all[i].type # "double" => v[i] = all[i].val

\* The reader behind the i-th value, when the m-th one is the first that is cut.
Behind(c, at, v, m, i) == IF i < m THEN Reader(c, at[i], TRUE, Front(v, i))
                          ELSE Reader(c, at[m - 1], FALSE, Front(v, m - 1))

\* c is d, or what is left of it, up to a place before the end of the m-th value.
CutBefore(c, d, at, m, n) ==
  /\ c \in Seq(Byte) /\ Len(c) <= Len(d) /\ \A k \in 1 .. Len(c) : c[k] = d[k]
  /\ m \in 1 .. (n + 1)
  /\ \A i \in 1 .. (m - 1) : at[i] <= Len(c)
  /\ m <= n => Len(c) < at[m]

LEMMA FrontGrows ==
  ASSUME NEW v, NEW i \in Nat \ {0}
  PROVE  Append(Front(v, i - 1), v[i]) = Front(v, i)
<1> DEFINE S == {v[j] : j \in 1 .. i}
           f == Front(v, i - 1)
           g == Front(v, i)
<1>1. \A j \in 1 .. i : v[j] \in S
  OBVIOUS
<1>2. i - 1 \in Nat /\ i \in Nat /\ i \in 1 .. i /\ \A j \in 1 .. (i - 1) : j \in 1 .. i
  OBVIOUS
<1> HIDE DEF S
<1>3. f \in Seq(S) /\ Len(f) = i - 1 /\ \A j \in 1 .. (i - 1) : f[j] = v[j]
  BY <1>1, <1>2 DEF Front
<1>4. g \in Seq(S) /\ Len(g) = i /\ \A j \in 1 .. i : g[j] = v[j]
  BY <1>1, <1>2 DEF Front
<1> HIDE DEF f, g
<1>5. v[i] \in S
  BY <1>1, <1>2
<1>6. Append(f, v[i]) \in Seq(S) /\ Len(Append(f, v[i])) = i
  BY <1>3, <1>5
<1>7. ASSUME NEW j \in 1 .. i PROVE Append(f, v[i])[j] = g[j]
  BY <1>3, <1>4, <1>5
<1> QED
  BY <1>4, <1>6, <1>7, SeqEqual DEF f, g

\* Each value is read behind the one before.
LEMMA ReadsNext ==
  ASSUME NEW all \in Seq(Values), NEW d \in Seq(Byte), NEW at, LaidOut(all, d, at),
         NEW c, NEW m, CutBefore(c, d, at, m, Len(all))
  PROVE  \E v : /\ AreValues(v, all)
                /\ \A i \in 1 .. Len(all) :
                     GetValue(Behind(c, at, v, m, i - 1), all[i]) = Behind(c, at, v, m, i)
<1> DEFINE n == Len(all)
           Back(i, x) == /\ all[i].type # "double" => x = all[i].val
                         /\ \A g : ReadOrCut(GetValue(Reader(c, at[i - 1], TRUE, g), all[i]),
                                             c, at[i - 1], Len(PutValue(all[i])), x, g)
           v == [i \in 1 .. n |-> CHOOSE x : Back(i, x)]
<1>1. n \in Nat /\ Len(c) \in Nat /\ Len(d) \in Nat /\ m \in 1 .. (n + 1) /\ c \in Seq(Byte)
  BY DEF CutBefore
<1>2. ASSUME NEW i \in 1 .. n
      PROVE  /\ Writable(all[i]) /\ i - 1 \in 0 .. n /\ i \in 0 .. n
             /\ at[i - 1] \in Nat /\ at[i] \in Nat /\ at[i] = at[i - 1] + Len(PutValue(all[i]))
             /\ Follows(d, at[i - 1], PutValue(all[i]))
  <2>1. all[i] \in Values
    OBVIOUS
  <2>2. i - 1 \in 0 .. n /\ i \in 0 .. n
    BY <1>1
  <2>3. at[i - 1] \in 0 .. Len(d) /\ at[i] \in 0 .. Len(d)
    <3>1. at \in [0 .. n -> 0 .. Len(d)]
      BY DEF LaidOut
    <3> QED
      BY <2>2, <3>1
  <2>4. at[i] = at[i - 1] + Len(PutValue(all[i])) /\ Follows(d, at[i - 1], PutValue(all[i]))
    BY DEF LaidOut
  <2> QED
    BY <2>1, <2>2, <2>3, <2>4, <1>1, ValuesAssumption
<1>3. ASSUME NEW i \in 1 .. n PROVE \E x : Back(i, x)
  <2> DEFINE item == all[i]
             p == at[i - 1]
             b == PutValue(item)
  <2>1. Writable(item) /\ p \in Nat /\ Follows(d, p, b)
    BY <1>2
  <2> HIDE DEF item, p
  <2>2. b \in Seq(Byte) /\ Len(b) \in Nat
    BY <2>1, PutsBytes
  <2> HIDE DEF b
  <2>3. Follows(c, p, b)
    <3> SUFFICES ASSUME NEW k \in 1 .. Len(b), p + k <= Len(c) PROVE c[p + k] = b[k]
      BY DEF Follows
    <3>1. p + k \in 1 .. Len(c) /\ p + k <= Len(d)
      BY <1>1, <2>1, <2>2 DEF CutBefore
    <3>2. c[p + k] = d[p + k]
      BY <3>1 DEF CutBefore
    <3>3. d[p + k] = b[k]
      BY <2>1, <3>1 DEF Follows
    <3> QED
      BY <3>2, <3>3
  <2>4. ComesBack(item, c, p)
    <3> USE DEF b
    <3> QED
      BY <1>1, <2>1, <2>3, GetPut
  <2> QED
    BY <2>4, Zenon DEF ComesBack, item, p, b
<1>4. \A i \in 1 .. n : Back(i, v[i])
  <2> SUFFICES ASSUME NEW i \in 1 .. n PROVE Back(i, v[i])
    OBVIOUS
  <2> HIDE DEF Back
  <2> QED
    BY <1>3
<1>5. AreValues(v, all)
  <2> HIDE DEF v
  <2> QED
    BY <1>4 DEF AreValues
<1>6. ASSUME NEW i \in 1 .. n
      PROVE  GetValue(Behind(c, at, v, m, i - 1), all[i]) = Behind(c, at, v, m, i)
  <2> DEFINE item == all[i]
             p == at[i - 1]
             l == Len(PutValue(item))
             g == Front(v, i - 1)
  <2>1. ReadOrCut(GetValue(Reader(c, p, TRUE, g), item), c, p, l, v[i], g)
    <3> HIDE DEF v
    <3> QED
      BY <1>4
  <2> HIDE DEF v
  <2>2. Append(g, v[i]) = Front(v, i)
    <3>1. i \in Nat \ {0}
      BY <1>1
    <3> QED
      BY <3>1, FrontGrows
  <2>3. i \in Int /\ m \in Int /\ i - 1 \in Int
    BY <1>1
  <2>4. p \in Nat /\ at[i] = p + l /\ Writable(item)
    BY <1>2
  <2>5. CASE i < m
    <3>1. at[i] <= Len(c)
      <4>1. i \in 1 .. (m - 1)
        BY <2>3, <2>5
      <4> QED
        BY <4>1 DEF CutBefore
    <3>2. Behind(c, at, v, m, i - 1) = Reader(c, p, TRUE, g)
      <4>1. i - 1 < m
        BY <2>3, <2>5
      <4> QED
        BY <4>1, Zenon DEF Behind
    <3>3. Behind(c, at, v, m, i) = Reader(c, at[i], TRUE, Front(v, i))
      BY <2>5 DEF Behind
    <3> HIDE DEF p, l, g, item
    <3>4. GetValue(Reader(c, p, TRUE, g), item) = Reader(c, p + l, TRUE, Append(g, v[i]))
      BY <2>1, <2>4, <3>1 DEF ReadOrCut
    <3> QED
      BY <2>2, <2>4, <3>2, <3>3, <3>4 DEF item
  <2>6. CASE i = m
    <3>1. ~ (at[i] <= Len(c))
      <4>1. m <= n /\ at[i] \in Nat
        BY <1>1, <1>2, <2>6
      <4>2. Len(c) < at[i]
        BY <2>6, <4>1 DEF CutBefore
      <4> QED
        BY <1>1, <4>1, <4>2
    <3>2. Behind(c, at, v, m, i - 1) = Reader(c, p, TRUE, g)
      <4>1. i - 1 < m
        BY <2>3, <2>6
      <4> QED
        BY <4>1, Zenon DEF Behind
    <3>3. Behind(c, at, v, m, i) = Reader(c, p, FALSE, g)
      <4>1. ~ (i < m) /\ m - 1 = i - 1
        BY <2>3, <2>6
      <4> QED
        BY <4>1, Zenon DEF Behind
    <3> HIDE DEF p, l, g, item
    <3>4. GetValue(Reader(c, p, TRUE, g), item) = Reader(c, p, FALSE, g)
      BY <2>1, <2>4, <3>1 DEF ReadOrCut
    <3> QED
      BY <3>2, <3>3, <3>4 DEF item
  <2>7. CASE m < i
    <3> DEFINE r == Reader(c, at[m - 1], FALSE, Front(v, m - 1))
    <3>1. Behind(c, at, v, m, i - 1) = r /\ Behind(c, at, v, m, i) = r /\ Writable(item)
      <4>1. ~ (i - 1 < m) /\ ~ (i < m)
        BY <2>3, <2>7
      <4> QED
        BY <2>4, <4>1 DEF Behind
    <3> HIDE DEF p, l, g, item
    <3>2. GetValue(r, item) = r
      BY <3>1, StaysFailed
    <3> QED
      BY <3>1, <3>2 DEF item
  <2> QED
    BY <2>3, <2>5, <2>6, <2>7
<1> HIDE DEF v
<1> QED
  BY <1>5, <1>6

LEMMA ReadsAll ==
  ASSUME NEW all \in Seq(Values), NEW d \in Seq(Byte), NEW at, LaidOut(all, d, at),
         NEW c, NEW m, CutBefore(c, d, at, m, Len(all))
  PROVE  \E v : AreValues(v, all) /\ GetAll(all, c) = Behind(c, at, v, m, Len(all))
<1> DEFINE n == Len(all)
           Steps(f) == [i \in 0 .. n |-> IF i = 0 THEN NewReader(c) ELSE GetValue(f[i - 1], all[i])]
           r == CHOOSE f : f = Steps(f)
<1>1. n \in Nat /\ m \in Int /\ 1 <= m
  BY DEF CutBefore
<1>2. PICK v : /\ AreValues(v, all)
               /\ \A i \in 1 .. n :
                    GetValue(Behind(c, at, v, m, i - 1), all[i]) = Behind(c, at, v, m, i)
  BY ReadsNext
<1> DEFINE stand == [i \in 0 .. n |-> Behind(c, at, v, m, i)]
<1>3. Behind(c, at, v, m, 0) = NewReader(c)
  <2>1. 0 < m
    BY <1>1
  <2>2. Front(v, 0) = <<>>
    BY DEF Front
  <2>3. Behind(c, at, v, m, 0) = Reader(c, at[0], TRUE, Front(v, 0))
    BY <2>1, Zenon DEF Behind
  <2>4. at[0] = 0
    BY DEF LaidOut
  <2> QED
    BY <2>2, <2>3, <2>4, Zenon DEF Reader, NewReader
<1>4. GetAll(all, c) = r[n]
  BY DEF GetAll
<1>5. stand = Steps(stand)
  <2>1. ASSUME NEW i \in 0 .. n PROVE stand[i] = Steps(stand)[i]
    <3>1. CASE i = 0
      BY <1>3, <3>1
    <3>2. CASE i # 0
      <4>1. i \in 1 .. n /\ i - 1 \in 0 .. n
        BY <1>1, <3>2
      <4>2. stand[i - 1] = Behind(c, at, v, m, i - 1) /\ stand[i] = Behind(c, at, v, m, i)
        BY <4>1
      <4>3. stand[i] = GetValue(stand[i - 1], all[i])
        BY <1>2, <4>1, <4>2
      <4> HIDE DEF stand
      <4> QED
        BY <3>2, <4>3
    <3> QED
      BY <3>1, <3>2
  <2>2. stand = [i \in 0 .. n |-> stand[i]]
    OBVIOUS
  <2> HIDE DEF stand
  <2>3. [i \in 0 .. n |-> stand[i]] = Steps(stand)
    BY <2>1
  <2> QED
    BY <2>2, <2>3, Zenon
<1>6. r = Steps(r)
  <2> HIDE DEF Steps, stand
  <2> QED
    BY <1>5
<1> HIDE DEF r
<1>7. r[0] = NewReader(c) /\ \A i \in 1 .. n : r[i] = GetValue(r[i - 1], all[i])
  <2>1. \A i \in 0 .. n : r[i] = IF i = 0 THEN NewReader(c) ELSE GetValue(r[i - 1], all[i])
    BY <1>6
  <2>2. 0 \in 0 .. n /\ \A i \in 1 .. n : i \in 0 .. n /\ i # 0
    BY <1>1
  <2> QED
    BY <2>1, <2>2, Zenon
<1> DEFINE Good == {i \in 0 .. n : r[i] = Behind(c, at, v, m, i)}
<1>8. 0 \in Good
  BY <1>1, <1>3, <1>7
<1>9. ASSUME NEW j \in 0 .. (n - 1), j \in Good PROVE j + 1 \in Good
  <2> DEFINE i == j + 1
  <2>1. i \in 1 .. n /\ i - 1 = j /\ i \in 0 .. n
    BY <1>1
  <2> HIDE DEF i
  <2>2. r[i] = GetValue(Behind(c, at, v, m, i - 1), all[i])
    BY <1>7, <1>9, <2>1
  <2>3. i \in Good
    BY <1>2, <2>1, <2>2
  <2> QED
    BY <2>3 DEF i
<1> HIDE DEF Good
<1>10. n \in Good
  <2>1. \A i \in 0 .. n : i \in Good
    BY <1>1, <1>8, <1>9, AllUpTo
  <2> QED
    BY <1>1, <2>1
<1> QED
  BY <1>2, <1>4, <1>10 DEF Good

\* One value more.
LEMMA LaidOutFurther ==
  ASSUME NEW all \in Seq(Values), NEW d \in Seq(Byte), NEW at, LaidOut(all, d, at), NEW item \in Values
  PROVE  /\ d \o PutValue(item) \in Seq(Byte)
         /\ \E more : LaidOut(Append(all, item), d \o PutValue(item), more)
<1> DEFINE n == Len(all)
           b == PutValue(item)
           e == d \o b
           every == Append(all, item)
           more == [i \in 0 .. (n + 1) |-> IF i <= n THEN at[i] ELSE Len(d) + Len(b)]
<1>1. b \in Seq(Byte) /\ Len(b) \in Nat
  BY PutsBytes, ValuesAssumption
<1>2. n \in Nat /\ Len(d) \in Nat
  OBVIOUS
<1>3. every \in Seq(Values) /\ Len(every) = n + 1 /\ every[n + 1] = item /\ \A i \in 1 .. n : every[i] = all[i]
  OBVIOUS
<1>4. at \in [0 .. n -> 0 .. Len(d)] /\ at[0] = 0 /\ at[n] = Len(d)
  BY DEF LaidOut
<1>5. \A i \in 1 .. n : at[i] = at[i - 1] + Len(PutValue(all[i])) /\ Follows(d, at[i - 1], PutValue(all[i]))
  BY DEF LaidOut
<1>6. \A i \in 1 .. n : Len(PutValue(all[i])) \in Nat
  <2> SUFFICES ASSUME NEW i \in 1 .. n PROVE Len(PutValue(all[i])) \in Nat
    OBVIOUS
  <2>1. all[i] \in Values
    OBVIOUS
  <2> QED
    BY <2>1, PutsBytes, ValuesAssumption
<1> HIDE DEF b
<1>7. e \in Seq(Byte) /\ Joins(e, d, b)
  BY <1>1, Joined
<1> HIDE DEF e, every
<1>8. Len(e) = Len(d) + Len(b) /\ \A k \in 1 .. Len(d) : e[k] = d[k]
  BY <1>7 DEF Joins
<1>9. \A i \in 0 .. n : more[i] = at[i] /\ more[i] \in 0 .. Len(d)
  <2> SUFFICES ASSUME NEW i \in 0 .. n PROVE more[i] = at[i] /\ more[i] \in 0 .. Len(d)
    OBVIOUS
  <2>1. i \in 0 .. (n + 1) /\ i <= n
    BY <1>2
  <2>2. more[i] = at[i]
    BY <2>1
  <2> HIDE DEF more
  <2> QED
    BY <1>4, <2>2
<1>10. more[n + 1] = Len(e)
  <2>1. n + 1 \in 0 .. (n + 1) /\ ~ (n + 1 <= n)
    BY <1>2
  <2> QED
    BY <1>8, <2>1
<1>11. more \in [0 .. (n + 1) -> 0 .. Len(e)]
  <2>1. ASSUME NEW i \in 0 .. (n + 1) PROVE more[i] \in 0 .. Len(e)
    <3>1. CASE i \in 0 .. n
      <4> HIDE DEF more
      <4> QED
        BY <1>1, <1>2, <1>8, <1>9, <3>1
    <3>2. CASE ~ (i \in 0 .. n)
      <4>1. i = n + 1
        BY <1>2, <3>2
      <4> HIDE DEF more
      <4> QED
        BY <1>1, <1>2, <1>8, <1>10, <4>1
    <3> QED
      BY <3>1, <3>2
  <2>2. more = [i \in 0 .. (n + 1) |-> more[i]]
    OBVIOUS
  <2> HIDE DEF more
  <2> QED
    BY <2>1, <2>2
<1> HIDE DEF more
<1>12. ASSUME NEW i \in 1 .. (n + 1)
       PROVE  more[i] = more[i - 1] + Len(PutValue(every[i])) /\ Follows(e, more[i - 1], PutValue(every[i]))
  <2>1. CASE i \in 1 .. n
    <3> DEFINE p == at[i - 1]
               a == PutValue(all[i])
    <3>1. i \in 0 .. n /\ i - 1 \in 0 .. n
      BY <1>2, <2>1
    <3>2. more[i] = at[i] /\ more[i - 1] = p /\ p \in Nat /\ at[i] \in 0 .. Len(d)
      BY <1>4, <1>9, <3>1
    <3>3. at[i] = p + Len(a) /\ Follows(d, p, a) /\ Len(a) \in Nat
      BY <1>5, <1>6, <2>1
    <3>4. every[i] = all[i]
      BY <1>3, <2>1
    <3> HIDE DEF p, a
    <3>5. Follows(e, p, a)
      <4> SUFFICES ASSUME NEW k \in 1 .. Len(a) PROVE e[p + k] = a[k]
        BY DEF Follows
      <4>1. p + k \in 1 .. Len(d) /\ p + k <= Len(d)
        BY <1>2, <3>2, <3>3
      <4>2. e[p + k] = d[p + k]
        BY <1>8, <4>1
      <4>3. d[p + k] = a[k]
        BY <3>3, <4>1 DEF Follows
      <4> QED
        BY <4>2, <4>3
    <3> QED
      BY <3>2, <3>3, <3>4, <3>5 DEF a
  <2>2. CASE i = n + 1
    <3>1. i - 1 = n /\ n \in 0 .. n
      BY <1>2, <2>2
    <3>2. more[i - 1] = Len(d) /\ more[i] = Len(d) + Len(b)
      BY <1>4, <1>8, <1>9, <1>10, <2>2, <3>1
    <3>3. PutValue(every[i]) = b
      BY <1>3, <2>2 DEF b
    <3>4. Follows(e, Len(d), b)
      BY <1>7 DEF Joins, Follows
    <3> QED
      BY <3>2, <3>3, <3>4
  <2> QED
    BY <1>2, <2>1, <2>2
<1>13. more[0] = 0
  BY <1>2, <1>4, <1>9
<1>14. LaidOut(every, e, more)
  BY <1>3, <1>10, <1>11, <1>12, <1>13 DEF LaidOut
<1> QED
  BY <1>7, <1>14 DEF e, every, b

-----------------------------------------------------------------------------
(* The packet being written.                                                *)

\* The values written lie in the packet one behind the other, without gaps.
CodecInv == CodecTypeOK /\ \E at : LaidOut(items, buf, at)

LEMMA CodecStarts == CodecInit => CodecInv
<1> SUFFICES ASSUME CodecInit PROVE CodecInv
  OBVIOUS
<1>1. items = <<>> /\ buf = <<>>
  BY DEF CodecInit
<1> DEFINE at == [i \in 0 .. 0 |-> 0]
<1>2. LaidOut(<<>>, <<>>, at)
  <2>1. at \in [0 .. 0 -> 0 .. 0] /\ at[0] = 0
    OBVIOUS
  <2> HIDE DEF at
  <2> QED
    BY <2>1 DEF LaidOut
<1> HIDE DEF at
<1> QED
  BY <1>1, <1>2, ItemsAssumption DEF CodecInv, CodecTypeOK

LEMMA CodecKeeps == CodecInv /\ [CodecNext]_codecVars => CodecInv'
<1> SUFFICES ASSUME CodecInv, [CodecNext]_codecVars PROVE CodecInv'
  OBVIOUS
<1>1. CASE Reset
  <2>1. CodecInit'
    BY <1>1 DEF Reset, CodecInit
  <2>2. CodecInit' => CodecInv'
    BY CodecStarts, PTL
  <2> QED
    BY <2>1, <2>2
<1>2. ASSUME NEW v \in Values, WriteValue(v) PROVE CodecInv'
  <2>1. items \in Seq(Values) /\ buf \in Seq(Byte)
    BY DEF CodecInv, CodecTypeOK
  <2>2. PICK at : LaidOut(items, buf, at)
    BY DEF CodecInv
  <2>3. items' = Append(items, v) /\ buf' = buf \o PutValue(v) /\ Len(items) < MaxItems
    BY <1>2 DEF WriteValue
  <2>4. buf' \in Seq(Byte) /\ \E more : LaidOut(items', buf', more)
    BY <2>1, <2>2, <2>3, LaidOutFurther
  <2>5. items' \in Seq(Values) /\ Len(items') <= MaxItems
    BY <2>1, <2>3, ItemsAssumption
  <2> QED
    BY <2>4, <2>5 DEF CodecInv, CodecTypeOK
<1>3. CASE UNCHANGED codecVars
  BY <1>3 DEF codecVars, CodecInv, CodecTypeOK
<1> QED
  BY <1>1, <1>2, <1>3 DEF CodecNext

\* A packet that nothing was cut from is read whole.
LEMMA WholeIsRead ==
  ASSUME CodecInv
  PROVE  ReadsBack
<1> DEFINE n == Len(items)
           r == GetAll(items, buf)
<1>1. items \in Seq(Values) /\ buf \in Seq(Byte) /\ n \in Nat /\ Len(buf) \in Nat
  BY DEF CodecInv, CodecTypeOK
<1>2. PICK at : LaidOut(items, buf, at)
  BY DEF CodecInv
<1>3. at[n] = Len(buf) /\ at \in [0 .. n -> 0 .. Len(buf)]
  BY <1>2 DEF LaidOut
<1>4. CutBefore(buf, buf, at, n + 1, n)
  <2>1. \A i \in 1 .. ((n + 1) - 1) : at[i] <= Len(buf)
    <3> SUFFICES ASSUME NEW i \in 1 .. ((n + 1) - 1) PROVE at[i] <= Len(buf)
      OBVIOUS
    <3>1. i \in 0 .. n
      BY <1>1
    <3>2. at[i] \in 0 .. Len(buf)
      BY <1>3, <3>1
    <3> QED
      BY <3>2
  <2>2. n + 1 \in 1 .. (n + 1) /\ ~ (n + 1 <= n) /\ Len(buf) <= Len(buf)
    BY <1>1
  <2> QED
    BY <1>1, <2>1, <2>2 DEF CutBefore
<1>5. PICK v : AreValues(v, items) /\ r = Behind(buf, at, v, n + 1, n)
  BY <1>1, <1>2, <1>4, ReadsAll
<1>6. r = Reader(buf, Len(buf), TRUE, Front(v, n))
  <2>1. n < n + 1
    BY <1>1
  <2> QED
    BY <1>3, <1>5, <2>1 DEF Behind
<1>7. r.ok /\ r.pos = Len(buf) /\ r.got = Front(v, n)
  BY <1>6 DEF Reader
<1>8. \A i \in DOMAIN items : items[i].type # "double" => r.got[i] = items[i].val
  <2> HIDE DEF r
  <2>1. DOMAIN items = 1 .. n
    BY <1>1
  <2> QED
    BY <1>5, <1>7, <2>1 DEF Front, AreValues
<1> QED
  BY <1>7, <1>8 DEF ReadsBack

\* A packet that was cut is read up to the value that is cut.
LEMMA CutIsSeen ==
  ASSUME CodecInv
  PROVE  CutIsRefused
<1> DEFINE N == Len(items)
<1>1. items \in Seq(Values) /\ buf \in Seq(Byte) /\ N \in Nat /\ Len(buf) \in Nat
  BY DEF CodecInv, CodecTypeOK
<1>2. PICK at : LaidOut(items, buf, at)
  BY DEF CodecInv
<1>3. at[0] = 0 /\ at[N] = Len(buf) /\ at \in [0 .. N -> 0 .. Len(buf)]
  BY <1>2 DEF LaidOut
<1> SUFFICES ASSUME NEW n \in 0 .. (Len(buf) - 1)
             PROVE  /\ ~ GetAll(items, SubSeq(buf, 1, n)).ok /\ GetAll(items, SubSeq(buf, 1, n)).pos <= n
                    /\ \A i \in DOMAIN GetAll(items, SubSeq(buf, 1, n)).got :
                         items[i].type # "double" => GetAll(items, SubSeq(buf, 1, n)).got[i] = items[i].val
  BY DEF CutIsRefused
<1> DEFINE c == SubSeq(buf, 1, n)
           r == GetAll(items, c)
           Late == {j \in 1 .. N : n < at[j]}
<1>4. n \in Nat /\ n < Len(buf)
  BY <1>1
<1>5. c \in Seq(Byte) /\ Len(c) = n /\ \A k \in 1 .. n : c[k] = buf[k]
  BY <1>1, <1>4
<1>6. N \in Late
  <2>1. N # 0
    BY <1>3, <1>4
  <2> QED
    BY <1>1, <1>3, <1>4, <2>1
<1>7. PICK m \in Late : \A j \in Late : m <= j
  <2>1. Late \in SUBSET Nat /\ Late # {}
    BY <1>6
  <2> HIDE DEF Late
  <2> QED
    BY <2>1, LeastExists
<1>8. m \in 1 .. N /\ n < at[m] /\ m \in Int /\ m - 1 \in 0 .. N
  BY <1>1, <1>7
<1>9. \A i \in 1 .. (m - 1) : at[i] <= n
  <2> SUFFICES ASSUME NEW i \in 1 .. (m - 1) PROVE at[i] <= n
    OBVIOUS
  <2>1. i \in 1 .. N /\ i \in 0 .. N /\ ~ (m <= i)
    BY <1>1, <1>8
  <2>2. i \notin Late
    BY <1>7, <2>1
  <2>3. at[i] \in 0 .. Len(buf)
    BY <1>3, <2>1
  <2> QED
    BY <1>1, <1>4, <2>1, <2>2, <2>3
<1> HIDE DEF c, Late
<1>10. CutBefore(c, buf, at, m, N)
  BY <1>1, <1>4, <1>5, <1>8, <1>9 DEF CutBefore
<1>11. PICK v : AreValues(v, items) /\ r = Behind(c, at, v, m, N)
  BY <1>1, <1>2, <1>10, ReadsAll
<1>12. r = Reader(c, at[m - 1], FALSE, Front(v, m - 1))
  <2>1. ~ (N < m)
    BY <1>1, <1>8
  <2> QED
    BY <1>11, <2>1 DEF Behind
<1>13. at[m - 1] <= n
  <2>1. CASE m = 1
    BY <1>3, <1>4, <2>1
  <2>2. CASE m # 1
    <3>1. m - 1 \in 1 .. (m - 1)
      BY <1>8, <2>2
    <3> QED
      BY <1>9, <3>1
  <2> QED
    BY <2>1, <2>2
<1>14. ~ r.ok /\ r.pos <= n /\ r.got = Front(v, m - 1)
  BY <1>12, <1>13 DEF Reader
<1>15. \A i \in DOMAIN r.got : items[i].type # "double" => r.got[i] = items[i].val
  <2> HIDE DEF r
  <2>1. DOMAIN r.got = 1 .. (m - 1)
    BY <1>14 DEF Front
  <2>2. \A i \in 1 .. (m - 1) : i \in 1 .. N
    BY <1>1, <1>8
  <2> QED
    BY <1>11, <1>14, <2>1, <2>2 DEF Front, AreValues
<1> QED
  BY <1>14, <1>15 DEF c

\* What the writer lays out the readers get back, but for the values of doubles: of a
\* packet that is whole every other value, and of one that was cut every other value
\* before the cut and no more.  (A double's eight bytes are passed over, so that what
\* is behind it is read right; its value is not what was written.)
THEOREM ValuesTheorem == CodecSpec => []ValuesComeBack
<1>1. CodecInv => ValuesComeBack
  BY WholeIsRead, CutIsSeen DEF CodecInv, ValuesComeBack
<1> QED
  BY <1>1, CodecStarts, CodecKeeps, PTL DEF CodecSpec

-----------------------------------------------------------------------------
(* Remainders.                                                              *)

Multiple(a, n) == \E k \in Int : a = n * k

\* a and b leave the same remainder when divided by n.
Congruent(a, b, n) == Multiple(a - b, n)

LEMMA Remainder ==
  ASSUME NEW a \in Int, NEW n \in Nat \ {0}
  PROVE  a % n \in 0 .. (n - 1) /\ Congruent(a % n, a, n)
<1> DEFINE q == a \div n
           r == a % n
<1>1. q \in Int /\ r \in 0 .. (n - 1) /\ a = n * q + r
  OBVIOUS
<1> HIDE DEF q, r
<1>2. -q \in Int /\ r - a = n * (-q)
  BY <1>1
<1>3. Congruent(r, a, n)
  BY <1>2 DEF Congruent, Multiple
<1> QED
  BY <1>1, <1>3 DEF q, r

LEMMA MultipleSum ==
  ASSUME NEW a \in Int, NEW b \in Int, NEW n \in Int, Multiple(a, n), Multiple(b, n)
  PROVE  Multiple(a + b, n)
<1>1. PICK k \in Int : a = n * k
  BY DEF Multiple
<1>2. PICK m \in Int : b = n * m
  BY DEF Multiple
<1>3. k + m \in Int /\ a + b = n * (k + m)
  BY <1>1, <1>2
<1> QED
  BY <1>3 DEF Multiple

LEMMA MultipleTimes ==
  ASSUME NEW a \in Int, NEW b \in Int, NEW n \in Int, Multiple(a, n)
  PROVE  Multiple(a * b, n)
<1>1. PICK k \in Int : a = n * k
  BY DEF Multiple
<1>2. k * b \in Int /\ a * b = n * (k * b)
  BY <1>1
<1> QED
  BY <1>2 DEF Multiple

LEMMA CongruentSelf ==
  ASSUME NEW a \in Int, NEW n \in Int
  PROVE  Congruent(a, a, n)
<1>1. 0 \in Int /\ a - a = n * 0
  OBVIOUS
<1> QED
  BY <1>1 DEF Congruent, Multiple

LEMMA CongruentBack ==
  ASSUME NEW a \in Int, NEW b \in Int, NEW n \in Int, Congruent(a, b, n)
  PROVE  Congruent(b, a, n)
<1>1. PICK k \in Int : a - b = n * k
  BY DEF Congruent, Multiple
<1>2. -k \in Int /\ b - a = n * (-k)
  BY <1>1
<1> QED
  BY <1>2 DEF Congruent, Multiple

LEMMA CongruentTrans ==
  ASSUME NEW a \in Int, NEW b \in Int, NEW c \in Int, NEW n \in Int,
         Congruent(a, b, n), Congruent(b, c, n)
  PROVE  Congruent(a, c, n)
<1>1. (a - b) + (b - c) = a - c /\ a - b \in Int /\ b - c \in Int
  OBVIOUS
<1> QED
  BY <1>1, MultipleSum DEF Congruent

LEMMA CongruentSum ==
  ASSUME NEW a \in Int, NEW b \in Int, NEW c \in Int, NEW d \in Int, NEW n \in Int,
         Congruent(a, b, n), Congruent(c, d, n)
  PROVE  Congruent(a + c, b + d, n)
<1>1. (a - b) + (c - d) = (a + c) - (b + d) /\ a - b \in Int /\ c - d \in Int
  OBVIOUS
<1> QED
  BY <1>1, MultipleSum DEF Congruent

LEMMA CongruentProduct ==
  ASSUME NEW a \in Int, NEW b \in Int, NEW c \in Int, NEW d \in Int, NEW n \in Int,
         Congruent(a, b, n), Congruent(c, d, n)
  PROVE  Congruent(a * c, b * d, n)
<1>1. /\ a - b \in Int /\ c - d \in Int /\ (a - b) * c \in Int /\ (c - d) * b \in Int
      /\ (a - b) * c + (c - d) * b = a * c - b * d
  OBVIOUS
<1>2. Multiple((a - b) * c, n) /\ Multiple((c - d) * b, n)
  BY <1>1, MultipleTimes DEF Congruent
<1> QED
  BY <1>1, <1>2, MultipleSum DEF Congruent

\* Of the numbers below n no two are congruent.
LEMMA CongruentSmall ==
  ASSUME NEW n \in Nat \ {0}, NEW a \in 0 .. (n - 1), NEW b \in 0 .. (n - 1), Congruent(a, b, n)
  PROVE  a = b
<1>1. PICK k \in Int : a - b = n * k
  BY DEF Congruent, Multiple
<1>2. ~(k >= 1)
  <2> SUFFICES ASSUME k >= 1 PROVE FALSE
    OBVIOUS
  <2>1. n * k >= n * 1
    OBVIOUS
  <2> QED
    BY <1>1, <2>1
<1>3. ~(k <= -1)
  <2> SUFFICES ASSUME k <= -1 PROVE FALSE
    OBVIOUS
  <2>1. n * (-k) >= n * 1 /\ n * (-k) = -(n * k)
    OBVIOUS
  <2> QED
    BY <1>1, <2>1
<1>4. k = 0
  BY <1>2, <1>3
<1> QED
  BY <1>1, <1>4

LEMMA SameRemainder ==
  ASSUME NEW n \in Nat \ {0}, NEW a \in Int, NEW b \in Int, Congruent(a, b, n)
  PROVE  a % n = b % n
<1>1. /\ a % n \in 0 .. (n - 1) /\ Congruent(a % n, a, n)
      /\ b % n \in 0 .. (n - 1) /\ Congruent(b % n, b, n)
  BY Remainder
<1>2. Congruent(a % n, b, n) /\ Congruent(b, b % n, n)
  BY <1>1, CongruentTrans, CongruentBack
<1>3. Congruent(a % n, b % n, n)
  BY <1>1, <1>2, CongruentTrans
<1> QED
  BY <1>1, <1>3, CongruentSmall

\* What is congruent modulo a multiple is congruent.
LEMMA CongruentFactor ==
  ASSUME NEW a \in Int, NEW b \in Int, NEW n \in Int, NEW m \in Int, Congruent(a, b, n * m)
  PROVE  Congruent(a, b, n) /\ Congruent(a, b, m)
<1>1. PICK k \in Int : a - b = (n * m) * k
  BY DEF Congruent, Multiple
<1>2. m * k \in Int /\ n * k \in Int /\ a - b = n * (m * k) /\ a - b = m * (n * k)
  BY <1>1
<1> QED
  BY <1>2 DEF Congruent, Multiple

-----------------------------------------------------------------------------
(* Powers.                                                                  *)

\* f has the powers of x up to the k-th.
Powers(f, x, k) == f[0] = 1 /\ \A i \in 1 .. k : f[i] = x * f[i - 1]

LEMMA PowersAreOne ==
  ASSUME NEW x \in Int, NEW k \in Nat, NEW m \in Nat, NEW f, NEW g, Powers(f, x, k), Powers(g, x, m)
  PROVE  \A j \in 0 .. k : j <= m => f[j] \in Int /\ f[j] = g[j]
<1> DEFINE Good == {j \in 0 .. k : j <= m => f[j] \in Int /\ f[j] = g[j]}
<1>1. 0 \in Good
  BY DEF Powers
<1>2. ASSUME NEW j \in 0 .. (k - 1), j \in Good PROVE j + 1 \in Good
  <2>1. CASE j + 1 <= m
    <3>1. j + 1 \in 1 .. k /\ j + 1 \in 1 .. m /\ (j + 1) - 1 = j /\ j <= m
      BY <2>1
    <3>2. f[j + 1] = x * f[j] /\ g[j + 1] = x * g[j]
      BY <3>1, Zenon DEF Powers
    <3>3. f[j] \in Int /\ f[j] = g[j]
      BY <1>2, <3>1
    <3> QED
      BY <3>1, <3>2, <3>3
  <2>2. CASE ~(j + 1 <= m)
    BY <2>2
  <2> QED
    BY <2>1, <2>2
<1> HIDE DEF Good
<1>3. \A j \in 0 .. k : j \in Good
  BY <1>1, <1>2, AllUpTo
<1> QED
  BY <1>3 DEF Good

LEMMA PowersOf ==
  ASSUME NEW x \in Int, NEW k \in Nat
  PROVE  \E f : Powers(f, x, k) /\ Power(x, k) = f[k]
<1> DEFINE step == [ja \in (1 .. k) \X Int |-> x * ja[2]]
           Steps(f) == [i \in 0 .. k |-> IF i = 0 THEN 1 ELSE x * f[i - 1]]
           power == CHOOSE f : f = Steps(f)
<1>1. step \in [(1 .. k) \X Int -> Int]
  OBVIOUS
<1>2. PICK f \in [0 .. k -> Int] : Recursive(f, k, 1, step)
  <2> HIDE DEF step
  <2>1. 1 \in Int
    OBVIOUS
  <2> QED
    BY <1>1, <2>1, RecursionUpTo, Zenon
<1>3. \A i \in 1 .. k : f[i] = x * f[i - 1]
  <2> SUFFICES ASSUME NEW i \in 1 .. k PROVE f[i] = x * f[i - 1]
    OBVIOUS
  <2>1. f[i - 1] \in Int
    OBVIOUS
  <2>2. step[<<i, f[i - 1]>>] = x * f[i - 1]
    BY <2>1
  <2> QED
    BY <1>2, <2>2 DEF Recursive
<1>4. f = Steps(f)
  BY <1>2, <1>3 DEF Recursive
<1>5. power = Steps(power)
  <2> HIDE DEF Steps
  <2> QED
    BY <1>4
<1>6. Power(x, k) = power[k]
  BY DEF Power
<1> HIDE DEF power
<1>7. Powers(power, x, k)
  BY <1>5 DEF Powers
<1> QED
  BY <1>6, <1>7

\* Each power is the one before times the number.
LEMMA PowerStep ==
  ASSUME NEW x \in Int, NEW k \in Nat
  PROVE  /\ Power(x, 0) = 1 /\ Power(x, k) \in Int
         /\ Power(x, k + 1) = x * Power(x, k)
<1>1. PICK f : Powers(f, x, k) /\ Power(x, k) = f[k]
  BY PowersOf
<1>2. PICK g : Powers(g, x, k + 1) /\ Power(x, k + 1) = g[k + 1]
  BY PowersOf
<1>3. PICK h : Powers(h, x, 0) /\ Power(x, 0) = h[0]
  BY PowersOf
<1>4. f[k] \in Int /\ f[k] = g[k]
  BY <1>1, <1>2, PowersAreOne
<1>5. k + 1 \in 1 .. (k + 1) /\ (k + 1) - 1 = k
  OBVIOUS
<1>6. g[k + 1] = x * g[k]
  BY <1>2, <1>5, Zenon DEF Powers
<1> QED
  BY <1>1, <1>2, <1>3, <1>4, <1>6 DEF Powers

LEMMA PowerIsNat ==
  ASSUME NEW x \in Nat, NEW k \in Nat
  PROVE  Power(x, k) \in Nat
<1> DEFINE Good == {j \in 0 .. k : Power(x, j) \in Nat}
<1>1. 0 \in Good
  BY PowerStep
<1>2. ASSUME NEW j \in 0 .. (k - 1), j \in Good PROVE j + 1 \in Good
  BY <1>2, PowerStep
<1> HIDE DEF Good
<1>3. \A j \in 0 .. k : j \in Good
  BY <1>1, <1>2, AllUpTo
<1> QED
  BY <1>3 DEF Good

LEMMA PowerSum ==
  ASSUME NEW x \in Int, NEW k \in Nat, NEW m \in Nat
  PROVE  Power(x, k + m) = Power(x, k) * Power(x, m)
<1> DEFINE Good == {j \in 0 .. m : Power(x, k + j) = Power(x, k) * Power(x, j)}
<1>1. 0 \in Good
  BY PowerStep
<1>2. ASSUME NEW j \in 0 .. (m - 1), j \in Good PROVE j + 1 \in Good
  <2> DEFINE a == Power(x, k)
             b == Power(x, j)
  <2>1. /\ a \in Int /\ b \in Int /\ Power(x, k + j) = a * b /\ k + (j + 1) = (k + j) + 1
        /\ Power(x, j + 1) = x * b /\ Power(x, (k + j) + 1) = x * Power(x, k + j)
    BY <1>2, PowerStep
  <2> HIDE DEF a, b
  <2>2. x * (a * b) = a * (x * b)
    BY <2>1
  <2> QED
    BY <2>1, <2>2 DEF a
<1> HIDE DEF Good
<1>3. \A j \in 0 .. m : j \in Good
  BY <1>1, <1>2, AllUpTo
<1> QED
  BY <1>3 DEF Good

\* A power of a power.
LEMMA PowerTimes ==
  ASSUME NEW x \in Int, NEW k \in Nat, NEW m \in Nat
  PROVE  Power(x, k * m) = Power(Power(x, k), m)
<1> DEFINE y == Power(x, k)
           Good == {j \in 0 .. m : Power(x, k * j) = Power(y, j)}
<1>0. y \in Int
  BY PowerStep
<1>1. 0 \in Good
  BY <1>0, PowerStep
<1>2. ASSUME NEW j \in 0 .. (m - 1), j \in Good PROVE j + 1 \in Good
  <2>1. k * j \in Nat /\ k * (j + 1) = k + k * j
    OBVIOUS
  <2>2. Power(x, k + k * j) = y * Power(x, k * j)
    BY <2>1, PowerSum
  <2>3. Power(y, j + 1) = y * Power(y, j)
    BY <1>0, PowerStep
  <2> QED
    BY <1>2, <2>1, <2>2, <2>3
<1> HIDE DEF Good
<1>3. \A j \in 0 .. m : j \in Good
  BY <1>1, <1>2, AllUpTo
<1> QED
  BY <1>3 DEF Good

\* Congruent numbers have congruent powers.
LEMMA CongruentPowers ==
  ASSUME NEW x \in Int, NEW y \in Int, NEW n \in Int, NEW k \in Nat, Congruent(x, y, n)
  PROVE  Congruent(Power(x, k), Power(y, k), n)
<1> DEFINE Good == {j \in 0 .. k : Congruent(Power(x, j), Power(y, j), n)}
<1>1. 0 \in Good
  BY PowerStep, CongruentSelf
<1>2. ASSUME NEW j \in 0 .. (k - 1), j \in Good PROVE j + 1 \in Good
  <2>1. /\ Power(x, j) \in Int /\ Power(x, j + 1) = x * Power(x, j)
        /\ Power(y, j) \in Int /\ Power(y, j + 1) = y * Power(y, j)
    BY PowerStep
  <2>2. Congruent(Power(x, j), Power(y, j), n)
    BY <1>2
  <2>3. Congruent(x * Power(x, j), y * Power(y, j), n)
    BY <2>1, <2>2, CongruentProduct
  <2> QED
    BY <2>1, <2>3
<1> HIDE DEF Good
<1>3. \A j \in 0 .. k : j \in Good
  BY <1>1, <1>2, AllUpTo
<1> QED
  BY <1>3 DEF Good

-----------------------------------------------------------------------------
(* Primes.                                                                  *)

LEMMA NoRemainder ==
  ASSUME NEW a \in Int, NEW n \in Nat \ {0}
  PROVE  Multiple(a, n) <=> a % n = 0
<1>0. 0 \in 0 .. (n - 1) /\ 0 \in Int /\ n \in Int /\ a - 0 = a
  OBVIOUS
<1>1. a % n \in 0 .. (n - 1) /\ a % n \in Int /\ Congruent(a % n, a, n)
  <2>1. a % n \in 0 .. (n - 1) /\ Congruent(a % n, a, n)
    BY Remainder, Zenon
  <2> QED
    BY <2>1
<1>2. ASSUME Multiple(a, n) PROVE a % n = 0
  <2>1. Congruent(a, 0, n)
    BY <1>0, <1>2 DEF Congruent
  <2>2. Congruent(a % n, 0, n)
    BY <1>0, <1>1, <2>1, CongruentTrans, Zenon
  <2> QED
    BY <1>0, <1>1, <2>2, CongruentSmall, Zenon
<1>3. ASSUME a % n = 0 PROVE Multiple(a, n)
  <2>1. Congruent(a, 0, n)
    BY <1>0, <1>1, <1>3, CongruentBack, Zenon
  <2> QED
    BY <1>0, <2>1 DEF Congruent
<1> QED
  BY <1>2, <1>3

\* A prime that divides a product divides a factor of it.
LEMMA PrimeDivides ==
  ASSUME NEW p, IsPrime(p), NEW a \in Int, NEW b \in Int, Multiple(a * b, p)
  PROVE  Multiple(a, p) \/ Multiple(b, p)
<1> DEFINE S == {k \in Nat \ {0} : Multiple(k * b, p)}
<1>1. p \in Nat /\ p > 1 /\ \A k \in 2 .. (p - 1) : p % k # 0
  BY DEF IsPrime
<1>0. p \in Int
  BY <1>1
<1>2. p \in S
  <2>1. p * b = p * b /\ p \in Nat \ {0}
    BY <1>1
  <2> QED
    BY <2>1 DEF Multiple
<1>3. PICK m \in S : \A k \in S : m <= k
  <2>1. S \in SUBSET Nat /\ S # {}
    BY <1>2
  <2> HIDE DEF S
  <2> QED
    BY <2>1, LeastExists
<1>4. m \in Nat \ {0} /\ Multiple(m * b, p)
  BY <1>3
\* Every factor that makes b a multiple of p is a multiple of the least one.
<1>5. ASSUME NEW k \in Int, Multiple(k * b, p) PROVE Multiple(k, m)
  <2> DEFINE r == k % m
  <2>1. r \in 0 .. (m - 1) /\ Congruent(r, k, m)
    BY <1>4, Remainder
  <2>2. PICK q \in Int : r - k = m * q
    BY <2>1 DEF Congruent, Multiple
  <2> HIDE DEF r
  <2>3. m * b \in Int /\ k * b \in Int /\ (m * b) * q \in Int /\ r \in Int
    BY <1>4, <2>1
  <2>4. r * b = k * b + (m * b) * q
    <3>1. r = k + m * q
      BY <1>4, <2>1, <2>2
    <3>2. (k + m * q) * b = k * b + (m * b) * q
      BY <1>4
    <3> QED
      BY <3>1, <3>2
  <2>5. Multiple((m * b) * q, p)
    BY <1>0, <1>4, <2>3, MultipleTimes, Zenon
  <2>6. Multiple(r * b, p)
    BY <1>0, <1>5, <2>3, <2>4, <2>5, MultipleSum, Zenon
  <2>7. r = 0
    <3> SUFFICES ASSUME r # 0 PROVE FALSE
      OBVIOUS
    <3>1. r \in S
      BY <2>1, <2>6
    <3> HIDE DEF S
    <3> QED
      BY <1>3, <1>4, <2>1, <3>1
  <2> QED
    BY <1>4, <2>7, NoRemainder DEF r
<1>6. m <= p
  <2> HIDE DEF S
  <2> QED
    BY <1>2, <1>3
<1> HIDE DEF S
<1>7. p % m = 0
  <2>1. Multiple(p * b, p)
    BY <1>1 DEF Multiple
  <2> QED
    BY <1>1, <1>4, <1>5, <2>1, NoRemainder
<1>8. m = 1 \/ m = p
  <2> SUFFICES ASSUME m # 1, m # p PROVE FALSE
    OBVIOUS
  <2>1. m \in 2 .. (p - 1)
    BY <1>1, <1>4, <1>6
  <2> QED
    BY <1>1, <1>7, <2>1
<1>9. CASE m = 1
  BY <1>4, <1>9
<1>10. CASE m = p
  BY <1>5, <1>10
<1> QED
  BY <1>8, <1>9, <1>10

-----------------------------------------------------------------------------
(* Fermat's theorem, from the binomial one.                                 *)

\* Pascal's triangle up to the row n: in c[i][j] is how often j of i.
Triangle(c, n) ==
  /\ \A i \in 0 .. n : \A j \in 0 .. n : c[i][j] \in Nat
  /\ \A i \in 0 .. n : c[i][0] = 1
  /\ \A j \in 1 .. n : c[0][j] = 0
  /\ \A i \in 0 .. (n - 1) : \A j \in 1 .. n : c[i + 1][j] = c[i][j] + c[i][j - 1]

\* Pascal's triangle, as far as the n-th row.
LEMMA TriangleExists ==
  ASSUME NEW n \in Nat
  PROVE  \E c : Triangle(c, n)
<1> DEFINE Rows == [0 .. n -> Nat]
           Next(row) == [j \in 0 .. n |-> IF j = 0 THEN 1 ELSE row[j] + row[j - 1]]
           first == [j \in 0 .. n |-> IF j = 0 THEN 1 ELSE 0]
           step  == [ir \in (1 .. n) \X Rows |-> Next(ir[2])]
<1>1. first \in Rows
  OBVIOUS
<1>2. ASSUME NEW row \in Rows PROVE Next(row) \in Rows
  <2>1. ASSUME NEW j \in 1 .. n PROVE row[j] + row[j - 1] \in Nat
    <3>1. j \in 0 .. n /\ j - 1 \in 0 .. n
      OBVIOUS
    <3>2. row[j] \in Nat /\ row[j - 1] \in Nat
      BY <3>1
    <3> QED
      BY <3>2
  <2> QED
    BY <2>1
<1> HIDE DEF Rows, Next, first
<1>3. step \in [(1 .. n) \X Rows -> Rows]
  BY <1>2
<1>4. \A i \in 1 .. n : \A row \in Rows : step[<<i, row>>] = Next(row)
  OBVIOUS
<1> HIDE DEF step
<1>5. PICK c \in [0 .. n -> Rows] : Recursive(c, n, first, step)
  BY <1>1, <1>3, RecursionUpTo, Zenon
<1>6. c[0] = first /\ \A i \in 1 .. n : c[i] = Next(c[i - 1])
  <2>1. ASSUME NEW i \in 1 .. n PROVE c[i] = Next(c[i - 1])
    <3>1. i - 1 \in 0 .. n
      OBVIOUS
    <3>2. c[i - 1] \in Rows
      BY <3>1
    <3> QED
      BY <1>4, <1>5, <3>2 DEF Recursive
  <2> QED
    BY <1>5, <2>1 DEF Recursive
<1>7. \A i \in 0 .. n : \A j \in 0 .. n : c[i][j] \in Nat
  BY DEF Rows
<1>8. ASSUME NEW i \in 0 .. n PROVE c[i][0] = 1
  <2>1. CASE i = 0
    BY <1>6, <2>1 DEF first
  <2>2. CASE i # 0
    <3>1. i \in 1 .. n /\ 0 \in 0 .. n
      BY <2>2
    <3>2. c[i] = Next(c[i - 1])
      BY <1>6, <3>1
    <3> QED
      BY <3>1, <3>2 DEF Next
  <2> QED
    BY <2>1, <2>2
<1>9. \A j \in 1 .. n : c[0][j] = 0
  BY <1>6 DEF first
<1>10. ASSUME NEW i \in 0 .. (n - 1), NEW j \in 1 .. n
       PROVE  c[i + 1][j] = c[i][j] + c[i][j - 1]
  <2>1. i + 1 \in 1 .. n /\ (i + 1) - 1 = i /\ j \in 0 .. n /\ j # 0
    OBVIOUS
  <2>2. c[i + 1] = Next(c[i])
    BY <1>6, <2>1
  <2> QED
    BY <2>1, <2>2 DEF Next
<1> QED
  BY <1>7, <1>8, <1>9, <1>10 DEF Triangle

\* Nothing stands beyond the diagonal.
LEMMA TriangleEnds ==
  ASSUME NEW n \in Nat, NEW c, Triangle(c, n)
  PROVE  \A i \in 0 .. n : c[i][i] = 1 /\ \A j \in 0 .. n : j > i => c[i][j] = 0
<1> DEFINE Good == {i \in 0 .. n : c[i][i] = 1 /\ \A j \in 0 .. n : j > i => c[i][j] = 0}
<1>1. 0 \in Good
  <2>1. 0 \in 0 .. n /\ \A j \in 0 .. n : j > 0 => j \in 1 .. n
    OBVIOUS
  <2> QED
    BY <2>1 DEF Triangle
<1>2. ASSUME NEW i \in 0 .. (n - 1), i \in Good PROVE i + 1 \in Good
  <2>1. ASSUME NEW j \in 0 .. n, j > i + 1 PROVE c[i + 1][j] = 0
    <3>1. j \in 1 .. n /\ j - 1 \in 0 .. n /\ j - 1 > i /\ j > i
      BY <2>1
    <3>2. c[i + 1][j] = c[i][j] + c[i][j - 1]
      BY <3>1 DEF Triangle
    <3>3. c[i][j] = 0 /\ c[i][j - 1] = 0
      BY <1>2, <3>1
    <3> QED
      BY <3>2, <3>3
  <2>2. c[i + 1][i + 1] = 1
    <3>1. i + 1 \in 1 .. n /\ i + 1 \in 0 .. n /\ (i + 1) - 1 = i /\ i + 1 > i
      OBVIOUS
    <3>2. c[i + 1][i + 1] = c[i][i + 1] + c[i][i]
      BY <3>1 DEF Triangle
    <3>3. c[i][i + 1] = 0 /\ c[i][i] = 1
      BY <1>2, <3>1
    <3> QED
      BY <3>2, <3>3
  <2> QED
    BY <2>1, <2>2
<1> HIDE DEF Good
<1>3. \A i \in 0 .. n : i \in Good
  BY <1>1, <1>2, AllUpTo
<1> QED
  BY <1>3 DEF Good

\* To choose j of i, choose one of the i and j - 1 of the others, each way j times.
LEMMA TriangleTimes ==
  ASSUME NEW n \in Nat, NEW c, Triangle(c, n)
  PROVE  \A i \in 1 .. n : \A j \in 1 .. n : j * c[i][j] = i * c[i - 1][j - 1]
<1> DEFINE Row(i) == \A j \in 1 .. n : j * c[i + 1][j] = (i + 1) * c[i][j - 1]
           Good == {i \in 0 .. (n - 1) : Row(i)}
<1>1. CASE n = 0
  BY <1>1
<1>2. CASE n > 0
  <2>1. 0 \in Good
    <3>1. ASSUME NEW j \in 1 .. n PROVE j * c[1][j] = 1 * c[0][j - 1]
      <4>1. c[1][j] = c[0][j] + c[0][j - 1] /\ c[0][j] = 0
        <5>1. 0 \in 0 .. (n - 1) /\ 0 + 1 = 1
          BY <1>2
        <5> QED
          BY <5>1 DEF Triangle
      <4>2. CASE j = 1
        <5>1. c[0][0] = 1
          BY DEF Triangle
        <5> QED
          BY <4>1, <4>2, <5>1
      <4>3. CASE j # 1
        <5>1. j - 1 \in 1 .. n
          BY <4>3
        <5>2. c[0][j - 1] = 0
          BY <5>1 DEF Triangle
        <5> QED
          BY <4>1, <5>2
      <4> QED
        BY <4>2, <4>3
    <3>2. Row(0)
      BY <3>1
    <3>3. 0 \in 0 .. (n - 1)
      BY <1>2
    <3> HIDE DEF Row
    <3> QED
      BY <3>2, <3>3
  <2>2. ASSUME NEW i \in 0 .. ((n - 1) - 1), i \in Good PROVE i + 1 \in Good
    <3>1. i + 1 \in 0 .. (n - 1) /\ i \in 0 .. (n - 1) /\ i + 1 \in 0 .. n /\ i \in 0 .. n
      OBVIOUS
    <3>2. ASSUME NEW j \in 1 .. n PROVE j * c[(i + 1) + 1][j] = ((i + 1) + 1) * c[i + 1][j - 1]
      <4>1. j \in 0 .. n /\ j - 1 \in 0 .. n
        OBVIOUS
      <4>2. c[(i + 1) + 1][j] = c[i + 1][j] + c[i + 1][j - 1]
        BY <3>1 DEF Triangle
      <4>3. j * c[i + 1][j] = (i + 1) * c[i][j - 1]
        BY <2>2
      <4>4. CASE j = 1
        <5>1. c[i + 1][0] = 1 /\ c[i][0] = 1 /\ c[i + 1][j] \in Nat
          BY <3>1, <4>1 DEF Triangle
        <5> QED
          BY <4>2, <4>3, <4>4, <5>1
      <4>5. CASE j # 1
        <5> DEFINE k == j - 1
                   x == c[i + 1][j]
                   y == c[i + 1][k]
                   u == c[i][k]
                   v == c[i][k - 1]
        <5>1. k \in 1 .. n /\ k - 1 \in 0 .. n /\ j = k + 1
          BY <4>5
        <5>2. k * y = (i + 1) * v
          BY <2>2, <5>1
        <5>3. y = u + v
          BY <3>1, <5>1 DEF Triangle
        <5>4. x \in Nat /\ y \in Nat /\ u \in Nat /\ v \in Nat
          BY <3>1, <4>1, <5>1 DEF Triangle
        <5>5. c[(i + 1) + 1][j] = x + y /\ j * x = (i + 1) * u
          BY <4>2, <4>3
        <5> HIDE DEF k, x, y, u, v
        <5>6. j * (x + y) = j * x + (k + 1) * y
          BY <5>1, <5>4
        <5>7. (k + 1) * y = (i + 1) * v + y
          BY <5>1, <5>2, <5>4
        <5>8. (i + 1) * u + ((i + 1) * v + (u + v)) = ((i + 1) + 1) * (u + v)
          BY <5>4
        <5>9. j * (x + y) = ((i + 1) + 1) * y
          BY <5>3, <5>4, <5>5, <5>6, <5>7, <5>8
        <5> QED
          BY <5>5, <5>9 DEF k, y
      <4> QED
        BY <4>4, <4>5
    <3>3. Row(i + 1)
      BY <3>2
    <3> HIDE DEF Row
    <3> QED
      BY <3>1, <3>3
  <2> HIDE DEF Good
  <2>3. \A i \in 0 .. (n - 1) : i \in Good
    <3>1. n - 1 \in Nat
      BY <1>2
    <3> QED
      BY <2>1, <2>2, <3>1, AllUpTo
  <2>4. ASSUME NEW i \in 1 .. n, NEW j \in 1 .. n PROVE j * c[i][j] = i * c[i - 1][j - 1]
    <3>1. i - 1 \in 0 .. (n - 1) /\ (i - 1) + 1 = i
      OBVIOUS
    <3>2. Row(i - 1)
      BY <2>3, <3>1 DEF Good
    <3> QED
      BY <3>1, <3>2
  <2> QED
    BY <2>4
<1> QED
  BY <1>1, <1>2

\* u[j][i] is the sum of the first terms, to the j-th, of the i-th power of a + 1.
Terms(u, c, a, n) ==
  /\ \A i \in 0 .. n : u[0][i] = 1
  /\ \A j \in 0 .. n : \A i \in 0 .. n : u[j][i] \in Int
  /\ \A j \in 1 .. n : \A i \in 0 .. n : u[j][i] = u[j - 1][i] + c[i][j] * Power(a, j)

LEMMA TermsExist ==
  ASSUME NEW n \in Nat, NEW c, Triangle(c, n), NEW a \in Int
  PROVE  \E u : Terms(u, c, a, n)
<1> DEFINE Columns == [0 .. n -> Int]
           Next(j, col) == [i \in 0 .. n |-> col[i] + c[i][j] * Power(a, j)]
           first == [i \in 0 .. n |-> 1]
           step  == [jc \in (1 .. n) \X Columns |-> Next(jc[1], jc[2])]
<1>1. first \in Columns
  OBVIOUS
<1>2. ASSUME NEW j \in 1 .. n, NEW col \in Columns PROVE Next(j, col) \in Columns
  <2>1. ASSUME NEW i \in 0 .. n PROVE col[i] + c[i][j] * Power(a, j) \in Int
    <3>1. j \in 0 .. n /\ j \in Nat
      OBVIOUS
    <3>2. c[i][j] \in Nat
      BY <3>1 DEF Triangle
    <3>3. Power(a, j) \in Int /\ col[i] \in Int
      BY <3>1, PowerStep
    <3>4. \A x, y, z \in Int : x + y * z \in Int
      OBVIOUS
    <3>5. c[i][j] \in Int
      BY <3>2
    <3> QED
      BY <3>3, <3>4, <3>5, Zenon
  <2> QED
    BY <2>1
<1> HIDE DEF Columns, Next, first
<1>3. step \in [(1 .. n) \X Columns -> Columns]
  BY <1>2
<1>4. \A j \in 1 .. n : \A col \in Columns : step[<<j, col>>] = Next(j, col)
  OBVIOUS
<1> HIDE DEF step
<1>5. PICK u \in [0 .. n -> Columns] : Recursive(u, n, first, step)
  BY <1>1, <1>3, RecursionUpTo, Zenon
<1>6. \A i \in 0 .. n : u[0][i] = 1
  BY <1>5 DEF first, Recursive
<1>7. \A j \in 0 .. n : \A i \in 0 .. n : u[j][i] \in Int
  BY DEF Columns
<1>8. ASSUME NEW j \in 1 .. n, NEW i \in 0 .. n
      PROVE  u[j][i] = u[j - 1][i] + c[i][j] * Power(a, j)
  <2>1. j - 1 \in 0 .. n
    OBVIOUS
  <2>2. u[j - 1] \in Columns
    BY <2>1
  <2>3. u[j] = Next(j, u[j - 1])
    BY <1>4, <1>5, <2>2 DEF Recursive
  <2> QED
    BY <2>3 DEF Next
<1> QED
  BY <1>6, <1>7, <1>8 DEF Terms

\* A row's sums are those of the row above, and those once more times a.
LEMMA TermsStep ==
  ASSUME NEW n \in Nat, NEW c, Triangle(c, n), NEW a \in Int, NEW u, Terms(u, c, a, n),
         NEW i \in 0 .. (n - 1)
  PROVE  \A j \in 1 .. n : u[j][i + 1] = u[j][i] + a * u[j - 1][i]
<1> DEFINE Good == {k \in 0 .. (n - 1) : u[k + 1][i + 1] = u[k + 1][i] + a * u[k][i]}
<1>0. i \in 0 .. n /\ i + 1 \in 0 .. n /\ n - 1 \in Nat
  OBVIOUS
<1>1. ASSUME NEW j \in 1 .. n
      PROVE  /\ u[j][i + 1] = u[j - 1][i + 1] + (c[i][j] + c[i][j - 1]) * Power(a, j)
             /\ u[j][i] = u[j - 1][i] + c[i][j] * Power(a, j)
  <2>1. c[i + 1][j] = c[i][j] + c[i][j - 1]
    BY DEF Triangle
  <2> QED
    BY <1>0, <2>1 DEF Terms
<1>2. 0 \in Good
  <2>1. 1 \in 1 .. n /\ 0 \in 0 .. (n - 1) /\ 0 + 1 = 1 /\ 1 - 1 = 0 /\ 1 \in 0 .. n /\ 0 \in 0 .. n
    OBVIOUS
  <2>2. Power(a, 1) = a
    <3>1. Power(a, 0 + 1) = a * Power(a, 0) /\ Power(a, 0) = 1
      BY PowerStep
    <3> QED
      BY <3>1
  <2>3. u[0][i + 1] = 1 /\ u[0][i] = 1
    BY <1>0 DEF Terms
  <2>4. c[i][0] = 1 /\ c[i][1] \in Nat
    BY <1>0, <2>1 DEF Triangle
  <2>5. u[1][i + 1] = 1 + (c[i][1] + 1) * a /\ u[1][i] = 1 + c[i][1] * a
    BY <1>1, <2>1, <2>2, <2>3, <2>4
  <2>6. u[1][i + 1] = u[1][i] + a * u[0][i]
    BY <2>3, <2>4, <2>5
  <2> QED
    BY <2>1, <2>6
<1>3. ASSUME NEW k \in 0 .. ((n - 1) - 1), k \in Good PROVE k + 1 \in Good
  <2> DEFINE j == k + 2
             w == Power(a, k + 1)
             x == u[k + 1][i]
             y == u[k][i]
             s == c[i][j]
             t == c[i][k + 1]
  <2>1. /\ j \in 1 .. n /\ j - 1 = k + 1 /\ k + 1 \in 1 .. n /\ (k + 1) - 1 = k
        /\ (k + 1) + 1 = j /\ k + 1 \in 0 .. n /\ k \in 0 .. n /\ j \in 0 .. n /\ k + 1 \in Nat
        /\ k + 1 \in 0 .. (n - 1)
    OBVIOUS
  <2>2. Power(a, j) = a * w /\ w \in Int
    <3>1. Power(a, (k + 1) + 1) = a * w /\ w \in Int
      BY <2>1, PowerStep
    <3> QED
      BY <2>1, <3>1
  <2>3. x \in Int /\ y \in Int /\ s \in Nat /\ t \in Nat
    BY <1>0, <2>1 DEF Terms, Triangle
  <2>4. u[k + 1][i + 1] = x + a * y
    BY <1>3
  <2>5. u[j][i + 1] = u[k + 1][i + 1] + (s + t) * (a * w) /\ u[j][i] = x + s * (a * w)
    BY <1>1, <2>1, <2>2
  <2>6. x = y + t * w
    BY <1>1, <2>1
  <2> HIDE DEF j, w, x, y, s, t
  <2>7. (x + a * y) + (s + t) * (a * w) = (x + s * (a * w)) + a * (y + t * w)
    BY <2>2, <2>3
  <2>8. u[j][i + 1] = u[j][i] + a * x
    BY <2>4, <2>5, <2>6, <2>7
  <2> QED
    BY <2>1, <2>8 DEF x
<1> HIDE DEF Good
<1>4. \A k \in 0 .. (n - 1) : k \in Good
  BY <1>0, <1>2, <1>3, AllUpTo
<1>5. ASSUME NEW j \in 1 .. n PROVE u[j][i + 1] = u[j][i] + a * u[j - 1][i]
  <2>1. j - 1 \in 0 .. (n - 1) /\ (j - 1) + 1 = j
    OBVIOUS
  <2>2. j - 1 \in Good
    BY <1>4, <2>1
  <2> QED
    BY <2>1, <2>2 DEF Good
<1> QED
  BY <1>5

\* The binomial theorem.
LEMMA Binomial ==
  ASSUME NEW n \in Nat, NEW c, Triangle(c, n), NEW a \in Int, NEW u, Terms(u, c, a, n)
  PROVE  \A i \in 0 .. n : u[i][i] = Power(a + 1, i)
<1> DEFINE Good == {i \in 0 .. n : u[i][i] = Power(a + 1, i)}
<1>1. 0 \in Good
  <2>1. a + 1 \in Int /\ 0 \in Nat /\ 0 \in 0 .. n
    OBVIOUS
  <2>2. Power(a + 1, 0) = 1
    BY <2>1, PowerStep
  <2> QED
    BY <2>1, <2>2 DEF Terms
<1>2. ASSUME NEW i \in 0 .. (n - 1), i \in Good PROVE i + 1 \in Good
  <2> DEFINE w == Power(a + 1, i)
             x == Power(a, i + 1)
  <2>1. /\ i + 1 \in 1 .. n /\ i + 1 \in 0 .. n /\ i \in 0 .. n /\ (i + 1) - 1 = i /\ i + 1 > i
        /\ i \in Nat /\ i + 1 \in Nat /\ a + 1 \in Int
    OBVIOUS
  <2>2. u[i][i] = w /\ w \in Int /\ Power(a + 1, i + 1) = (a + 1) * w /\ x \in Int
    BY <1>2, <2>1, PowerStep
  <2>3. u[i + 1][i + 1] = u[i + 1][i] + a * u[i][i]
    BY <2>1, TermsStep
  <2>4. c[i][i + 1] = 0
    BY <2>1, TriangleEnds
  <2>5. u[i + 1][i] = u[i][i] + c[i][i + 1] * x
    BY <2>1 DEF Terms
  <2> HIDE DEF w, x
  <2>6. u[i + 1][i + 1] = (w + 0 * x) + a * w
    BY <2>2, <2>3, <2>4, <2>5
  <2>7. (w + 0 * x) + a * w = (a + 1) * w
    BY <2>2
  <2> QED
    BY <2>1, <2>2, <2>6, <2>7
<1> HIDE DEF Good
<1>3. \A i \in 0 .. n : i \in Good
  BY <1>1, <1>2, AllUpTo
<1> QED
  BY <1>3 DEF Good

\* All but the first and the last term are multiples of a prime.
LEMMA PowerOfSum ==
  ASSUME NEW p, IsPrime(p), NEW a \in Int
  PROVE  Congruent(Power(a + 1, p), Power(a, p) + 1, p)
<1>1. p \in Nat /\ p > 1 /\ p \in Int /\ p \in Nat \ {0} /\ p - 1 \in Nat
  BY DEF IsPrime
<1>2. PICK c : Triangle(c, p)
  BY <1>1, TriangleExists
<1>3. PICK u : Terms(u, c, a, p)
  BY <1>1, <1>2, TermsExist
<1>4. ASSUME NEW j \in 1 .. (p - 1) PROVE c[p][j] \in Int /\ Multiple(c[p][j], p)
  <2>1. j \in 1 .. p /\ p \in 1 .. p /\ p - 1 \in 0 .. p /\ j - 1 \in 0 .. p /\ j \in 0 .. p /\ p \in 0 .. p
    BY <1>1
  <2>2. j * c[p][j] = p * c[p - 1][j - 1]
    BY <1>1, <1>2, <2>1, TriangleTimes
  <2>3. c[p][j] \in Int /\ c[p - 1][j - 1] \in Int
    BY <1>2, <2>1 DEF Triangle
  <2>4. Multiple(j * c[p][j], p)
    BY <2>2, <2>3 DEF Multiple
  <2>5. ~Multiple(j, p)
    <3>1. j % p = j /\ j # 0 /\ j \in Int
      BY <1>1
    <3> QED
      BY <1>1, <3>1, NoRemainder
  <2>6. j \in Int
    OBVIOUS
  <2> QED
    BY <2>3, <2>4, <2>5, <2>6, PrimeDivides, Zenon
<1> DEFINE Good == {j \in 0 .. (p - 1) : Congruent(u[j][p], 1, p)}
<1>5. 0 \in Good
  <2>1. u[0][p] = 1 /\ 0 \in 0 .. (p - 1) /\ 1 \in Int
    BY <1>1, <1>3 DEF Terms
  <2> QED
    BY <1>1, <2>1, CongruentSelf
<1>6. ASSUME NEW j \in 0 .. ((p - 1) - 1), j \in Good PROVE j + 1 \in Good
  <2> DEFINE k == j + 1
             x == u[j][p]
             m == c[p][k]
             w == Power(a, k)
  <2>1. k \in 1 .. (p - 1) /\ k \in 1 .. p /\ k \in Nat /\ j \in 0 .. p /\ p \in 0 .. p /\ k - 1 = j /\ k \in 0 .. (p - 1)
    BY <1>1
  <2>2. u[k][p] = x + m * w /\ x \in Int
    BY <1>3, <2>1 DEF Terms
  <2>3. m \in Int /\ Multiple(m, p) /\ w \in Int
    BY <1>4, <2>1, PowerStep
  <2>4. Congruent(x, 1, p)
    BY <1>6
  <2> HIDE DEF x, m, w, k
  <2>5. Multiple(m * w, p)
    BY <1>1, <2>3, MultipleTimes
  <2>6. x - 1 \in Int /\ m * w \in Int /\ (x - 1) + m * w = (x + m * w) - 1
    BY <2>2, <2>3
  <2>7. Multiple((x - 1) + m * w, p)
    BY <1>1, <2>4, <2>5, <2>6, MultipleSum, Zenon DEF Congruent
  <2>8. Congruent(u[k][p], 1, p)
    BY <2>2, <2>6, <2>7 DEF Congruent
  <2> QED
    BY <2>1, <2>8 DEF k
<1> HIDE DEF Good
<1>7. \A j \in 0 .. (p - 1) : j \in Good
  BY <1>1, <1>5, <1>6, AllUpTo
<1> DEFINE x == u[p - 1][p]
           w == Power(a, p)
<1>8. Congruent(x, 1, p) /\ x \in Int /\ w \in Int
  <2>1. p - 1 \in 0 .. (p - 1) /\ p - 1 \in 0 .. p /\ p \in 0 .. p
    BY <1>1
  <2> QED
    BY <1>1, <1>3, <1>7, <2>1, PowerStep DEF Good, Terms
<1>9. u[p][p] = x + 1 * w
  <2>1. p \in 1 .. p /\ p \in 0 .. p
    BY <1>1
  <2>2. c[p][p] = 1
    BY <1>1, <1>2, <2>1, TriangleEnds
  <2> QED
    BY <1>3, <2>1, <2>2 DEF Terms
<1>10. u[p][p] = Power(a + 1, p)
  <2>1. p \in 0 .. p
    BY <1>1
  <2> QED
    BY <1>1, <1>2, <1>3, <2>1, Binomial
<1> HIDE DEF x, w
<1>11. (x + 1 * w) - (w + 1) = x - 1
  BY <1>8
<1> QED
  BY <1>8, <1>9, <1>10, <1>11 DEF Congruent, w

\* Fermat's little theorem: the p-th power of a number leaves its remainder modulo p.
\* Both ways in which RSADecryptNoPadding brings a block back rest on it.
LEMMA Fermat ==
  ASSUME NEW p, IsPrime(p), NEW a \in Nat
  PROVE  Congruent(Power(a, p), a, p)
<1>1. p \in Nat /\ p > 1 /\ p \in Int /\ p - 1 \in Nat
  BY DEF IsPrime
<1> DEFINE Good == {b \in 0 .. a : Congruent(Power(b, p), b, p)}
<1>2. 0 \in Good
  <2>1. Power(0, (p - 1) + 1) = 0 * Power(0, p - 1) /\ Power(0, p - 1) \in Int
    <3>1. 0 \in Int
      OBVIOUS
    <3> QED
      BY <1>1, <3>1, PowerStep, Zenon
  <2>2. Power(0, p) = 0
    BY <1>1, <2>1
  <2>3. 0 \in 0 .. a /\ 0 \in Int
    OBVIOUS
  <2> QED
    BY <1>1, <2>2, <2>3, CongruentSelf
<1>3. ASSUME NEW b \in 0 .. (a - 1), b \in Good PROVE b + 1 \in Good
  <2> DEFINE x == Power(b, p)
             y == Power(b + 1, p)
  <2>1. b \in Int /\ b + 1 \in Int /\ b + 1 \in 0 .. a /\ 1 \in Int
    OBVIOUS
  <2>2. x \in Int /\ y \in Int
    BY <1>1, <2>1, PowerStep
  <2>3. Congruent(y, x + 1, p) /\ Congruent(x, b, p) /\ Congruent(1, 1, p)
    BY <1>1, <1>3, <2>1, PowerOfSum, CongruentSelf
  <2> HIDE DEF x, y
  <2>4. Congruent(x + 1, b + 1, p)
    BY <1>1, <2>1, <2>2, <2>3, CongruentSum, Zenon
  <2>5. x + 1 \in Int
    BY <2>2
  <2>6. Congruent(y, b + 1, p)
    BY <1>1, <2>1, <2>2, <2>3, <2>4, <2>5, CongruentTrans, Zenon
  <2> QED
    BY <2>1, <2>6 DEF y
<1> HIDE DEF Good
<1>4. \A b \in 0 .. a : b \in Good
  BY <1>2, <1>3, AllUpTo
<1>5. a \in 0 .. a
  OBVIOUS
<1> QED
  BY <1>4, <1>5 DEF Good

\* Of a number that is no multiple of p, the power before is congruent to 1.
LEMMA FermatUnit ==
  ASSUME NEW p, IsPrime(p), NEW a \in Nat, ~Multiple(a, p)
  PROVE  Congruent(Power(a, p - 1), 1, p)
<1> DEFINE w == Power(a, p - 1)
<1>1. p \in Nat /\ p > 1 /\ p \in Int /\ p - 1 \in Nat /\ (p - 1) + 1 = p
  BY DEF IsPrime
<1>2. a \in Int
  OBVIOUS
<1>3. w \in Int /\ Power(a, (p - 1) + 1) = a * w
  BY <1>1, <1>2, PowerStep, Zenon
<1>4. Congruent(a * w, a, p)
  BY <1>1, <1>3, Fermat
<1> HIDE DEF w
<1>5. w - 1 \in Int /\ a * (w - 1) = a * w - a
  BY <1>3
<1>6. Multiple(a * (w - 1), p)
  BY <1>4, <1>5 DEF Congruent
<1>7. Multiple(w - 1, p)
  BY <1>2, <1>5, <1>6, PrimeDivides, Zenon
<1> QED
  BY <1>7 DEF Congruent, w

LEMMA PowerOfOne ==
  ASSUME NEW k \in Nat
  PROVE  Power(1, k) = 1
<1> DEFINE Good == {j \in 0 .. k : Power(1, j) = 1}
<1>0. 1 \in Int /\ 0 \in Nat
  OBVIOUS
<1>1. 0 \in Good
  BY <1>0, PowerStep
<1>2. ASSUME NEW j \in 0 .. (k - 1), j \in Good PROVE j + 1 \in Good
  <2>1. j \in Nat /\ j + 1 \in 0 .. k /\ Power(1, j) = 1
    BY <1>2
  <2>2. Power(1, j + 1) = 1 * Power(1, j)
    BY <1>0, <2>1, PowerStep, Zenon
  <2> QED
    BY <2>1, <2>2
<1> HIDE DEF Good
<1>3. \A j \in 0 .. k : j \in Good
  BY <1>1, <1>2, AllUpTo
<1> QED
  BY <1>3 DEF Good

\* Exponents that differ by a multiple of p - 1 give the same power, but for the zeroth.
LEMMA PowerReturns ==
  ASSUME NEW p, IsPrime(p), NEW x \in Nat, NEW k \in Nat
  PROVE  Congruent(Power(x, 1 + (p - 1) * k), x, p)
<1> DEFINE e == (p - 1) * k
           w == Power(x, e)
<1>1. p \in Nat /\ p > 1 /\ p \in Int /\ p - 1 \in Nat /\ 1 \in Int /\ x \in Int
  BY DEF IsPrime
<1>2. e \in Nat /\ 1 + e = e + 1
  BY <1>1
<1>3. w \in Int /\ Power(x, e + 1) = x * w
  <2> HIDE DEF e
  <2> QED
    BY <1>1, <1>2, PowerStep, Zenon
<1>4. CASE Multiple(x, p)
  <2> HIDE DEF w
  <2>1. w - 1 \in Int /\ x * (w - 1) = x * w - x
    BY <1>1, <1>3
  <2>2. Multiple(x * (w - 1), p)
    BY <1>1, <1>4, <2>1, MultipleTimes, Zenon
  <2> QED
    BY <1>2, <1>3, <2>1, <2>2 DEF Congruent
<1>5. CASE ~Multiple(x, p)
  <2> DEFINE y == Power(x, p - 1)
  <2>1. y \in Int /\ w = Power(y, k)
    BY <1>1, PowerStep, PowerTimes, Zenon
  <2>2. Congruent(y, 1, p)
    BY <1>5, FermatUnit
  <2>3. Congruent(Power(y, k), Power(1, k), p) /\ Power(1, k) = 1
    <3> HIDE DEF y
    <3> QED
      BY <1>1, <2>1, <2>2, CongruentPowers, PowerOfOne, Zenon
  <2>4. Congruent(w, 1, p)
    BY <2>1, <2>3
  <2>5. Congruent(x * w, x * 1, p)
    <3> HIDE DEF w
    <3> QED
      BY <1>1, <1>3, <2>4, CongruentSelf, CongruentProduct, Zenon
  <2>6. x * 1 = x
    OBVIOUS
  <2> QED
    BY <1>2, <1>3, <2>5, <2>6
<1> QED
  BY <1>4, <1>5

-----------------------------------------------------------------------------
(* What is computed with remainders only.                                   *)

\* Squaring, and once more the base for an odd exponent.
LEMMA ByHalves ==
  ASSUME NEW x \in Nat, NEW i \in Nat, NEW n \in Nat \ {0}
  PROVE  LET half == Power(x, i \div 2) % n IN
         (half * half * (IF i % 2 = 1 THEN x % n ELSE 1)) % n = Power(x, i) % n
<1> DEFINE h == i \div 2
           w == Power(x, h)
           half == w % n
           odd == IF i % 2 = 1 THEN x % n ELSE 1
           xx == IF i % 2 = 1 THEN x ELSE 1
<1>1. h \in Nat /\ (i % 2 = 1 => i = (h + h) + 1) /\ (i % 2 # 1 => i = h + h)
  OBVIOUS
<1>2. x \in Int /\ n \in Int /\ 1 \in Int /\ w \in Int /\ Power(x, i) \in Int
  BY <1>1, PowerStep
<1>3. half \in 0 .. (n - 1) /\ Congruent(half, w, n)
  <2> HIDE DEF w
  <2> QED
    BY <1>2, Remainder
<1>4. half \in Int /\ x % n \in Int /\ odd \in Int /\ xx \in Int
  <2>1. x % n \in 0 .. (n - 1)
    BY <1>2, Remainder
  <2> HIDE DEF half
  <2> QED
    BY <1>2, <1>3, <2>1
<1>5. Congruent(odd, xx, n)
  <2>1. Congruent(x % n, x, n) /\ Congruent(1, 1, n)
    BY <1>2, Remainder, CongruentSelf
  <2> QED
    BY <2>1
<1>6. Power(x, i) = w * w * xx
  <2>1. Power(x, h + h) = w * w /\ h + h \in Nat
    BY <1>1, <1>2, PowerSum
  <2>2. Power(x, (h + h) + 1) = x * Power(x, h + h)
    BY <1>2, <2>1, PowerStep, Zenon
  <2> HIDE DEF w, h
  <2>3. CASE i % 2 = 1
    <3>1. xx = x /\ x * (w * w) = w * w * x
      BY <1>2, <2>3
    <3> QED
      BY <1>1, <2>1, <2>2, <2>3, <3>1
  <2>4. CASE i % 2 # 1
    <3>1. xx = 1 /\ w * w = w * w * 1
      BY <1>2, <2>4
    <3> QED
      BY <1>1, <2>1, <2>4, <3>1
  <2> QED
    BY <2>3, <2>4
<1> HIDE DEF w, half, odd, xx
<1>7. half * half \in Int /\ w * w \in Int /\ half * half * odd \in Int /\ w * w * xx \in Int
  BY <1>2, <1>4
<1>8. Congruent(half * half, w * w, n)
  BY <1>2, <1>3, <1>4, CongruentProduct, Zenon
<1>9. Congruent(half * half * odd, w * w * xx, n)
  BY <1>2, <1>4, <1>5, <1>7, <1>8, CongruentProduct, Zenon
<1>10. (half * half * odd) % n = (w * w * xx) % n
  BY <1>7, <1>9, SameRemainder, Zenon
<1> QED
  BY <1>6, <1>10 DEF half, odd, w, h

\* Squaring and multiplying, as big.Int.Exp does for every step of encryption and
\* decryption, computes the remainder of the power.
LEMMA ExpIsPower ==
  ASSUME NEW x \in Nat, NEW k \in Nat, NEW n \in Nat \ {0}
  PROVE  Exp(x, k, n) = Power(x, k) % n
<1> DEFINE Next(half, i) == (half * half * (IF i % 2 = 1 THEN x % n ELSE 1)) % n
           Steps(f) == [i \in 0 .. k |-> IF i = 0 THEN 1 % n ELSE Next(f[i \div 2], i)]
           power == CHOOSE f : f = Steps(f)
           g == [i \in 0 .. k |-> Power(x, i) % n]
<1>1. ASSUME NEW i \in 0 .. k PROVE Next(Power(x, i \div 2) % n, i) = Power(x, i) % n
  <2>1. i \in Nat
    OBVIOUS
  <2> QED
    BY <2>1, ByHalves, Zenon
<1>2. Power(x, 0) = 1
  <2>1. x \in Int /\ 0 \in Nat
    OBVIOUS
  <2> QED
    BY <2>1, PowerStep, Zenon
<1>3. \A i \in 0 .. k : i # 0 => i \div 2 \in 0 .. k /\ i \div 2 < i
  OBVIOUS
<1>4. Exp(x, k, n) = power[k]
  BY DEF Exp
<1> HIDE DEF Next
<1>5. g = Steps(g)
  BY <1>1, <1>2, <1>3
<1>6. power = Steps(power)
  <2> HIDE DEF Steps, g
  <2> QED
    BY <1>5
<1> HIDE DEF power
<1>7. /\ power[0] = 1 % n
      /\ \A i \in 0 .. k : i # 0 => power[i] = Next(power[i \div 2], i)
  BY <1>6
<1> DEFINE Good == {m \in 0 .. k : \A i \in 0 .. m : power[i] = Power(x, i) % n}
<1>8. 0 \in Good
  BY <1>2, <1>7
<1>9. ASSUME NEW m \in 0 .. (k - 1), m \in Good PROVE m + 1 \in Good
  <2>1. m + 1 \in 0 .. k /\ m + 1 # 0 /\ (m + 1) \div 2 \in 0 .. m
    OBVIOUS
  <2>2. power[m + 1] = Next(power[(m + 1) \div 2], m + 1)
    BY <1>7, <2>1
  <2>3. power[(m + 1) \div 2] = Power(x, (m + 1) \div 2) % n
    BY <1>9, <2>1
  <2>4. power[m + 1] = Power(x, m + 1) % n
    BY <1>1, <2>1, <2>2, <2>3
  <2>5. \A i \in 0 .. (m + 1) : i \in 0 .. m \/ i = m + 1
    OBVIOUS
  <2> QED
    BY <1>9, <2>1, <2>4, <2>5
<1> HIDE DEF Good
<1>10. \A m \in 0 .. k : m \in Good
  BY <1>8, <1>9, AllUpTo
<1>11. k \in 0 .. k
  OBVIOUS
<1> QED
  BY <1>4, <1>10, <1>11 DEF Good

-----------------------------------------------------------------------------
(* Keys.                                                                    *)

\* What Encrypt and Decrypt need of a key.
IsKeyPair(k) ==
  /\ IsPrime(k.p) /\ IsPrime(k.q) /\ k.p # k.q /\ k.p > 2 /\ k.q > 2
  /\ k.n = k.p * k.q /\ k.n < Power(Radix, Size)
  /\ k.d \in Nat /\ Congruent(PublicExponent * k.d, 1, (k.p - 1) * (k.q - 1))
  /\ k.dp = k.d % (k.p - 1) /\ k.dq = k.d % (k.q - 1)
  /\ k.qInv \in Nat /\ Congruent(k.q * k.qInv, 1, k.p)

LEMMA ExponentIsNat == PublicExponent \in Nat
BY DEF PublicExponent

\* No prime is a multiple of another.
LEMMA PrimesApart ==
  ASSUME NEW p, IsPrime(p), NEW q, IsPrime(q), p # q
  PROVE  ~Multiple(p, q)
<1>1. /\ p \in Nat /\ p > 1 /\ \A a \in 2 .. (p - 1) : p % a # 0
      /\ q \in Nat /\ q > 1
  BY DEF IsPrime
<1>2. p % q # 0
  <2>1. CASE q < p
    <3>1. q \in 2 .. (p - 1)
      BY <1>1, <2>1
    <3> QED
      BY <1>1, <3>1
  <2>2. CASE q > p
    BY <1>1, <2>2
  <2> QED
    BY <1>1, <2>1, <2>2
<1>3. p \in Int /\ q \in Nat \ {0}
  BY <1>1
<1> QED
  BY <1>2, <1>3, NoRemainder

\* The Chinese remainder theorem: two remainders tell a number.
LEMMA TwoRemainders ==
  ASSUME NEW p, IsPrime(p), NEW q, IsPrime(q), p # q,
         NEW a \in 0 .. (p * q - 1), NEW b \in 0 .. (p * q - 1),
         Congruent(a, b, p), Congruent(a, b, q)
  PROVE  a = b
<1>1. p \in Nat /\ p > 1 /\ q \in Nat /\ q > 1 /\ p \in Int /\ q \in Int
  BY DEF IsPrime
<1>2. p * q \in Nat \ {0} /\ a \in Int /\ b \in Int
  BY <1>1
<1>3. PICK k \in Int : a - b = p * k
  BY DEF Congruent, Multiple
<1>4. Multiple(p * k, q)
  BY <1>3 DEF Congruent
<1>5. Multiple(k, q)
  BY <1>1, <1>4, PrimeDivides, PrimesApart, Zenon
<1>6. PICK j \in Int : k = q * j
  BY <1>5 DEF Multiple
<1>7. a - b = (p * q) * j
  BY <1>1, <1>3, <1>6
<1>8. Congruent(a, b, p * q)
  BY <1>7 DEF Congruent, Multiple
<1> HIDE <1>3, <1>4, <1>6, <1>7
<1> QED
  BY <1>2, <1>8, CongruentSmall, Zenon

\* Raised to an exponent and then to one that undoes it, a number is what it was.
LEMMA PowersUndone ==
  ASSUME NEW p, IsPrime(p), p > 2, NEW x \in Nat, NEW e \in Nat, NEW d \in Nat,
         Congruent(e * d, 1, p - 1), NEW c \in Nat, Congruent(c, Power(x, e), p)
  PROVE  Congruent(Power(c, d), x, p)
<1>1. p \in Nat /\ p \in Int /\ p - 1 \in Nat /\ x \in Int /\ c \in Int /\ e * d \in Nat
  BY DEF IsPrime
<1>2. Power(x, e) \in Int /\ Power(c, d) \in Int /\ Power(x, e * d) \in Int
  BY <1>1, PowerStep
<1>3. Congruent(Power(c, d), Power(Power(x, e), d), p)
  BY <1>1, <1>2, CongruentPowers, Zenon
<1>4. Power(Power(x, e), d) = Power(x, e * d)
  BY <1>1, PowerTimes
<1>5. PICK k \in Int : e * d - 1 = (p - 1) * k
  BY DEF Congruent, Multiple
<1>6. k >= 0
  <2> DEFINE m == e * d
             f == p - 1
  <2>1. m \in Nat /\ f \in Nat /\ f >= 2 /\ m - 1 = f * k
    BY <1>1, <1>5
  <2> HIDE DEF m, f
  <2> SUFFICES ASSUME k <= -1 PROVE FALSE
    OBVIOUS
  <2>2. f * (-k) >= f * 1 /\ f * (-k) = -(f * k)
    BY <2>1
  <2> QED
    BY <2>1, <2>2
<1>7. k \in Nat /\ e * d = 1 + (p - 1) * k
  <2> DEFINE m == e * d
             b == (p - 1) * k
  <2>1. m \in Nat /\ b \in Int /\ m - 1 = b
    BY <1>1, <1>5
  <2> HIDE DEF m, b
  <2>2. m = 1 + b
    BY <2>1
  <2> QED
    BY <1>6, <2>2 DEF m, b
<1>8. Congruent(Power(x, e * d), x, p)
  BY <1>7, PowerReturns
<1> QED
  BY <1>1, <1>2, <1>3, <1>4, <1>8, CongruentTrans, Zenon

\* A number raised to the public exponent comes back by the private one.
LEMMA PlainUndoes ==
  ASSUME NEW k, IsKeyPair(k), NEW x \in 0 .. (k.n - 1)
  PROVE  Exp(Exp(x, PublicExponent, k.n), k.d, k.n) = x
<1> DEFINE e == PublicExponent
           p == k.p
           q == k.q
           n == k.n
           c == Exp(x, e, n)
           r == Exp(c, k.d, n)
<1>1. /\ IsPrime(p) /\ IsPrime(q) /\ p # q /\ p > 2 /\ q > 2 /\ n = p * q
      /\ k.d \in Nat /\ Congruent(e * k.d, 1, (p - 1) * (q - 1)) /\ e \in Nat
  BY ExponentIsNat DEF IsKeyPair
<1>2. p \in Nat /\ q \in Nat /\ p \in Int /\ q \in Int /\ p - 1 \in Int /\ q - 1 \in Int
  BY <1>1 DEF IsPrime
<1>3. n \in Nat \ {0} /\ x \in Nat /\ x \in Int /\ 1 \in Int /\ e * k.d \in Int
  BY <1>1, <1>2
<1> HIDE DEF e, p, q, n
<1>4. Power(x, e) \in Int /\ c = Power(x, e) % n
  BY <1>1, <1>3, PowerStep, ExpIsPower, Zenon
<1>5. c \in 0 .. (n - 1) /\ Congruent(c, Power(x, e), n)
  BY <1>3, <1>4, Remainder, Zenon
<1>6. c \in Nat /\ c \in Int
  BY <1>3, <1>5
<1>7. Power(c, k.d) \in Int /\ r = Power(c, k.d) % n
  <2> HIDE DEF c
  <2> QED
    BY <1>1, <1>3, <1>6, PowerStep, ExpIsPower, Zenon
<1>8. r \in 0 .. (n - 1) /\ Congruent(r, Power(c, k.d), n)
  BY <1>3, <1>7, Remainder, Zenon
<1>9. r \in Int
  BY <1>3, <1>8
<1> HIDE DEF c, r
<1>10. /\ Congruent(c, Power(x, e), p) /\ Congruent(c, Power(x, e), q)
       /\ Congruent(r, Power(c, k.d), p) /\ Congruent(r, Power(c, k.d), q)
  BY <1>1, <1>2, <1>4, <1>5, <1>6, <1>7, <1>8, <1>9, CongruentFactor, Zenon
<1>11. Congruent(e * k.d, 1, p - 1) /\ Congruent(e * k.d, 1, q - 1)
  BY <1>1, <1>2, <1>3, CongruentFactor, Zenon
<1>12. Congruent(Power(c, k.d), x, p) /\ Congruent(Power(c, k.d), x, q)
  BY <1>1, <1>3, <1>6, <1>10, <1>11, PowersUndone, Zenon
<1>13. Congruent(r, x, p) /\ Congruent(r, x, q)
  BY <1>2, <1>3, <1>7, <1>9, <1>10, <1>12, CongruentTrans, Zenon
<1>14. x \in 0 .. (n - 1)
  BY DEF n
<1>15. r = x
  BY <1>1, <1>8, <1>13, <1>14, TwoRemainders, Zenon
<1> QED
  BY <1>15 DEF r, c, n, e

\* One of the two remainders: by the exponent's own remainder.
LEMMA RemainderUndoes ==
  ASSUME NEW p, IsPrime(p), p > 2, NEW x \in Nat, NEW e \in Nat, NEW d \in Nat,
         Congruent(e * d, 1, p - 1), NEW c \in Nat, Congruent(c, Power(x, e), p)
  PROVE  LET m == Exp(c, d % (p - 1), p) IN m \in 0 .. (p - 1) /\ Congruent(m, x, p)
<1> DEFINE f == d % (p - 1)
           m == Exp(c, f, p)
<1>1. p \in Nat \ {0} /\ p \in Int /\ p - 1 \in Nat \ {0} /\ p - 1 \in Int /\ x \in Int /\ 1 \in Int
      /\ e \in Int /\ d \in Int /\ c \in Int /\ e * d \in Int
  BY DEF IsPrime
<1>2. f \in 0 .. ((p - 1) - 1) /\ Congruent(f, d, p - 1)
  BY <1>1, Remainder, Zenon
<1>3. f \in Nat /\ f \in Int /\ e * f \in Int
  <2> HIDE DEF f
  <2> QED
    BY <1>1, <1>2
<1> HIDE DEF f
<1>4. Congruent(e * f, e * d, p - 1)
  BY <1>1, <1>2, <1>3, CongruentSelf, CongruentProduct, Zenon
<1>5. Congruent(e * f, 1, p - 1)
  BY <1>1, <1>3, <1>4, CongruentTrans, Zenon
<1>6. Congruent(Power(c, f), x, p)
  BY <1>3, <1>5, PowersUndone, Zenon
<1>7. Power(c, f) \in Int /\ m = Power(c, f) % p
  BY <1>1, <1>3, PowerStep, ExpIsPower, Zenon
<1>8. m \in 0 .. (p - 1) /\ Congruent(m, Power(c, f), p)
  BY <1>1, <1>7, Remainder, Zenon
<1>9. m \in Int
  BY <1>1, <1>8
<1> HIDE DEF m
<1>10. Congruent(m, x, p)
  BY <1>1, <1>6, <1>7, <1>8, <1>9, CongruentTrans, Zenon
<1> QED
  BY <1>8, <1>10 DEF m, f

\* Garner's way to put two remainders together.
LEMMA GarnerUnites ==
  ASSUME NEW k, IsKeyPair(k), NEW x \in 0 .. (k.n - 1),
         NEW m1 \in 0 .. (k.p - 1), Congruent(m1, x, k.p),
         NEW m2 \in 0 .. (k.q - 1), Congruent(m2, x, k.q)
  PROVE  Garner(k, m1, m2) = x
<1> DEFINE p == k.p
           q == k.q
           i == k.qInv
           h == ((m1 - m2) * i) % p
           m == m2 + h * q
<1>1. /\ IsPrime(p) /\ IsPrime(q) /\ p # q /\ k.n = p * q
      /\ i \in Nat /\ Congruent(q * i, 1, p)
      /\ Congruent(m1, x, p) /\ Congruent(m2, x, q)
  BY DEF IsKeyPair
<1>2. m1 \in 0 .. (p - 1) /\ m2 \in 0 .. (q - 1) /\ x \in 0 .. (p * q - 1)
  BY <1>1
<1> HIDE DEF p, q, i
<1>3. p \in Nat \ {0} /\ q \in Nat \ {0} /\ p \in Int /\ q \in Int /\ i \in Int /\ 1 \in Int
      /\ q * i \in Int
  BY <1>1 DEF IsPrime
<1>4. m1 \in Int /\ m2 \in Int /\ x \in Int /\ m1 - m2 \in Int /\ (m1 - m2) * i \in Int
  BY <1>2, <1>3
<1>5. h \in 0 .. (p - 1) /\ Congruent(h, (m1 - m2) * i, p)
  BY <1>3, <1>4, Remainder, Zenon
<1> HIDE DEF h
<1>6. h \in Nat /\ h <= p - 1
  BY <1>3, <1>5
<1>7. m \in 0 .. (p * q - 1)
  <2>1. h * q <= (p - 1) * q /\ h * q \in Nat
    BY <1>3, <1>6
  <2>2. (p - 1) * q = p * q - q /\ p * q \in Nat
    BY <1>3
  <2>3. m2 \in Nat /\ m2 <= q - 1
    BY <1>2, <1>3
  <2> DEFINE a == h * q
             b == p * q
             f == (p - 1) * q
  <2> HIDE DEF a, b, f
  <2>4. a <= f /\ a \in Nat /\ f = b - q /\ b \in Nat
    BY <2>1, <2>2 DEF a, b, f
  <2>5. m2 + a \in 0 .. (b - 1)
    BY <1>3, <2>3, <2>4
  <2> QED
    BY <2>5 DEF a, b
<1>8. Congruent(m, x, q)
  <2>1. h * q \in Int /\ h * q = q * h /\ m - m2 = h * q /\ m \in Int
    BY <1>3, <1>4, <1>6
  <2>2. Congruent(m, m2, q)
    BY <1>6, <2>1 DEF Congruent, Multiple
  <2> HIDE DEF m
  <2> QED
    BY <1>1, <1>3, <1>4, <2>1, <2>2, CongruentTrans, Zenon
<1>9. Congruent(m, x, p)
  <2> DEFINE d == m1 - m2
  <2>1. d \in Int /\ d * i \in Int /\ h \in Int /\ h * q \in Int /\ (d * i) * q \in Int /\ d * (q * i) \in Int /\ d * 1 \in Int
    BY <1>3, <1>4, <1>6
  <2>2. (d * i) * q = d * (q * i) /\ d * 1 = d /\ m2 + d = m1
    BY <1>3, <1>4
  <2> HIDE DEF d
  <2>3. Congruent(h, d * i, p)
    BY <1>5 DEF d
  <2>4. Congruent(h * q, (d * i) * q, p)
    BY <1>3, <2>1, <2>3, CongruentSelf, CongruentProduct, Zenon
  <2>5. Congruent(d * (q * i), d * 1, p)
    BY <1>1, <1>3, <2>1, CongruentSelf, CongruentProduct, Zenon
  <2>6. Congruent(h * q, d, p)
    <3>1. Congruent(h * q, d * (q * i), p)
      BY <2>2, <2>4
    <3>2. Congruent(h * q, d * 1, p)
      BY <1>3, <2>1, <2>5, <3>1, CongruentTrans, Zenon
    <3> QED
      BY <2>2, <3>2
  <2>7. Congruent(m2 + h * q, m2 + d, p)
    BY <1>3, <1>4, <2>1, <2>6, CongruentSelf, CongruentSum, Zenon
  <2>8. m \in Int
    BY <1>4, <2>1
  <2>9. Congruent(m, m1, p)
    BY <2>2, <2>7
  <2> HIDE DEF m
  <2> QED
    BY <1>1, <1>3, <1>4, <2>8, <2>9, CongruentTrans, Zenon
<1> HIDE DEF m
<1>10. m = x
  BY <1>1, <1>2, <1>7, <1>8, <1>9, TwoRemainders, Zenon
<1> QED
  BY <1>10 DEF Garner, m, h, p, q, i

\* A number raised to the public exponent comes back by the remainders.
LEMMA RemaindersUndo ==
  ASSUME NEW k, IsKeyPair(k), NEW x \in 0 .. (k.n - 1)
  PROVE  LET c == Exp(x, PublicExponent, k.n) IN
         Garner(k, Exp(c, k.dp, k.p), Exp(c, k.dq, k.q)) = x
<1> DEFINE e == PublicExponent
           p == k.p
           q == k.q
           n == k.n
           c == Exp(x, e, n)
           m1 == Exp(c, k.dp, p)
           m2 == Exp(c, k.dq, q)
<1>1. /\ IsPrime(p) /\ IsPrime(q) /\ p # q /\ p > 2 /\ q > 2 /\ n = p * q
      /\ k.d \in Nat /\ Congruent(e * k.d, 1, (p - 1) * (q - 1)) /\ e \in Nat
      /\ k.dp = k.d % (p - 1) /\ k.dq = k.d % (q - 1)
  BY ExponentIsNat DEF IsKeyPair
<1> HIDE DEF e, p, q, n
<1>2. p \in Nat /\ q \in Nat /\ p \in Int /\ q \in Int /\ p - 1 \in Int /\ q - 1 \in Int
  BY <1>1 DEF IsPrime
<1>3. n \in Nat \ {0} /\ 1 \in Int /\ e * k.d \in Int
  BY <1>1, <1>2
<1>4. x \in 0 .. (n - 1) /\ x \in Nat /\ x \in Int
  BY <1>3 DEF n
<1>5. Power(x, e) \in Int /\ c = Power(x, e) % n
  BY <1>1, <1>3, <1>4, PowerStep, ExpIsPower, Zenon
<1>6. c \in 0 .. (n - 1) /\ Congruent(c, Power(x, e), n)
  BY <1>3, <1>5, Remainder, Zenon
<1>7. c \in Nat /\ c \in Int
  BY <1>3, <1>6
<1> HIDE DEF c
<1>8. Congruent(c, Power(x, e), p) /\ Congruent(c, Power(x, e), q)
  BY <1>1, <1>2, <1>5, <1>6, <1>7, CongruentFactor, Zenon
<1>9. Congruent(e * k.d, 1, p - 1) /\ Congruent(e * k.d, 1, q - 1)
  BY <1>1, <1>2, <1>3, CongruentFactor, Zenon
<1>10. m1 \in 0 .. (p - 1) /\ Congruent(m1, x, p)
  BY <1>1, <1>4, <1>7, <1>8, <1>9, RemainderUndoes, Zenon
<1>11. m2 \in 0 .. (q - 1) /\ Congruent(m2, x, q)
  BY <1>1, <1>4, <1>7, <1>8, <1>9, RemainderUndoes, Zenon
<1> HIDE DEF m1, m2
<1>12. Garner(k, m1, m2) = x
  BY <1>10, <1>11, GarnerUnites, Zenon DEF p, q
<1> QED
  BY <1>12 DEF m1, m2, c, e, p, q, n

-----------------------------------------------------------------------------
(* Blocks.                                                                  *)

Digit == 0 .. (Radix - 1)

\* f has the numbers that the first bytes of s spell.
Reads(f, s) == f[0] = 0 /\ \A i \in 1 .. Len(s) : f[i] = Radix * f[i - 1] + s[i]

LEMMA RadixIsNat == Radix \in Nat /\ Radix > 1 /\ Size \in Nat /\ Size > 0 /\ Digit \subseteq Nat /\ 0 \in Digit
BY SizeAssumption DEF Digit

\* SetBytes gives the last of the numbers that a block's beginnings spell.
LEMMA SetBytesReads ==
  ASSUME NEW s \in Seq(Nat), NEW f, Reads(f, s)
  PROVE  SetBytes(s) = f[Len(s)]
<1> DEFINE n == Len(s)
           Steps(g) == [i \in 0 .. n |-> IF i = 0 THEN 0 ELSE Radix * g[i - 1] + s[i]]
           value == CHOOSE g : g = Steps(g)
           g == [i \in 0 .. n |-> f[i]]
<1>1. n \in Nat
  OBVIOUS
<1>2. SetBytes(s) = value[n]
  BY DEF SetBytes
<1> HIDE DEF n
<1>3. f[0] = 0 /\ \A i \in 1 .. n : f[i] = Radix * f[i - 1] + s[i]
  BY DEF Reads, n
<1>4. g = Steps(g)
  <2>1. ASSUME NEW i \in 0 .. n PROVE f[i] = IF i = 0 THEN 0 ELSE Radix * g[i - 1] + s[i]
    <3>1. CASE i = 0
      BY <1>3, <3>1
    <3>2. CASE i # 0
      <4>1. i \in 1 .. n /\ i - 1 \in 0 .. n
        BY <1>1, <3>2
      <4>2. g[i - 1] = f[i - 1]
        BY <4>1
      <4>3. f[i] = Radix * f[i - 1] + s[i]
        BY <1>3, <4>1
      <4> QED
        BY <3>2, <4>2, <4>3
    <3> QED
      BY <3>1, <3>2
  <2> QED
    BY <2>1, Zenon
<1>5. value = Steps(value)
  <2> HIDE DEF Steps, g
  <2> QED
    BY <1>4
<1> HIDE DEF value
<1>6. /\ value[0] = 0
      /\ \A i \in 1 .. n : value[i] = Radix * value[i - 1] + s[i]
  <2>1. \A i \in 0 .. n : value[i] = IF i = 0 THEN 0 ELSE Radix * value[i - 1] + s[i]
    BY <1>5, Zenon
  <2>2. 0 \in 0 .. n /\ \A i \in 1 .. n : i \in 0 .. n /\ i # 0
    BY <1>1
  <2> QED
    BY <2>1, <2>2, Zenon
<1> DEFINE Good == {i \in 0 .. n : value[i] = f[i]}
<1>7. 0 \in Good
  BY <1>1, <1>3, <1>6
<1>8. ASSUME NEW i \in 0 .. (n - 1), i \in Good PROVE i + 1 \in Good
  <2>1. i + 1 \in 1 .. n /\ (i + 1) - 1 = i /\ i + 1 \in 0 .. n
    BY <1>1
  <2>2. /\ value[i + 1] = Radix * value[i] + s[i + 1]
        /\ f[i + 1] = Radix * f[i] + s[i + 1]
    BY <1>3, <1>6, <2>1, Zenon
  <2>3. value[i] = f[i]
    BY <1>8
  <2> QED
    BY <2>1, <2>2, <2>3
<1> HIDE DEF Good
<1>9. \A i \in 0 .. n : i \in Good
  BY <1>1, <1>7, <1>8, AllUpTo
<1>10. n \in 0 .. n
  BY <1>1
<1> QED
  BY <1>2, <1>9, <1>10 DEF Good, n

\* The digits of the numbers up to n form a function.
DigitsUpTo(f, n) == f = [m \in 0 .. n |-> IF m = 0 THEN <<>> ELSE Append(f[m \div Radix], m % Radix)]

LEMMA QuotientIsLess ==
  ASSUME NEW m \in Nat \ {0}
  PROVE  /\ m \div Radix \in Nat /\ m \div Radix < m /\ m % Radix \in Digit
         /\ m = Radix * (m \div Radix) + (m % Radix)
<1> DEFINE q == m \div Radix
           r == m % Radix
<1>1. q \in Nat /\ r \in 0 .. (Radix - 1) /\ m = Radix * q + r
  BY RadixIsNat
<1> HIDE DEF q, r
<1>2. q < m
  <2> SUFFICES ASSUME q >= m PROVE FALSE
    BY <1>1
  <2>1. Radix * q >= 2 * q
    BY <1>1, RadixIsNat
  <2> QED
    BY <1>1, <2>1, RadixIsNat
<1> QED
  BY <1>1, <1>2 DEF q, r, Digit

LEMMA DigitsExist ==
  ASSUME NEW n \in Nat
  PROVE  \E f : DigitsUpTo(f, n)
<1> DEFINE Good == {m \in 0 .. n : \E f : DigitsUpTo(f, m)}
<1>1. 0 \in Good
  <2> DEFINE f == [i \in 0 .. 0 |-> <<>>]
  <2>1. \A i \in 0 .. 0 : i = 0
    OBVIOUS
  <2>2. DigitsUpTo(f, 0)
    BY <2>1 DEF DigitsUpTo
  <2>3. 0 \in 0 .. n
    OBVIOUS
  <2> QED
    BY <2>2, <2>3
<1>2. ASSUME NEW m \in 0 .. (n - 1), m \in Good PROVE m + 1 \in Good
  <2>1. PICK f : DigitsUpTo(f, m)
    BY <1>2
  <2> DEFINE last == Append(f[(m + 1) \div Radix], (m + 1) % Radix)
             g == [i \in 0 .. (m + 1) |-> IF i = m + 1 THEN last ELSE f[i]]
  <2>2. \A i \in 0 .. m : f[i] = IF i = 0 THEN <<>> ELSE Append(f[i \div Radix], i % Radix)
    BY <2>1, Zenon DEF DigitsUpTo
  <2>3. ASSUME NEW i \in 0 .. (m + 1)
        PROVE  g[i] = IF i = 0 THEN <<>> ELSE Append(g[i \div Radix], i % Radix)
    <3>1. CASE i = m + 1
      <4>1. i # 0 /\ i \in Nat \ {0}
        BY <3>1
      <4>2. i \div Radix \in 0 .. (m + 1) /\ i \div Radix # m + 1
        BY <3>1, <4>1, QuotientIsLess
      <4>3. g[i \div Radix] = f[i \div Radix]
        BY <4>2, Zenon
      <4>4. g[i] = Append(f[i \div Radix], i % Radix)
        BY <3>1, Zenon
      <4> QED
        BY <4>1, <4>3, <4>4, Zenon
    <3>2. CASE i # m + 1
      <4>1. i \in 0 .. m /\ g[i] = f[i]
        BY <3>2
      <4>2. i # 0 => i \div Radix \in 0 .. (m + 1) /\ i \div Radix # m + 1
        <5>1. i # 0 => i \in Nat \ {0}
          OBVIOUS
        <5> QED
          BY <4>1, <5>1, QuotientIsLess
      <4>3. i # 0 => g[i \div Radix] = f[i \div Radix]
        BY <4>2, Zenon
      <4> HIDE DEF g
      <4> QED
        BY <2>2, <4>1, <4>3, Zenon
    <3> QED
      BY <3>1, <3>2
  <2>4. g = [i \in 0 .. (m + 1) |-> g[i]]
    OBVIOUS
  <2> HIDE DEF g
  <2>5. DigitsUpTo(g, m + 1)
    BY <2>3, <2>4, Zenon DEF DigitsUpTo
  <2>6. m + 1 \in 0 .. n
    OBVIOUS
  <2> QED
    BY <2>5, <2>6
<1> HIDE DEF Good
<1>3. \A m \in 0 .. n : m \in Good
  BY <1>1, <1>2, AllUpTo
<1>4. n \in 0 .. n
  OBVIOUS
<1> QED
  BY <1>3, <1>4 DEF Good

\* s are digits that spell the number m, and no more than it has.
MakesUp(s, m) ==
  /\ s \in Seq(Digit)
  /\ \E f : Reads(f, s) /\ f[Len(s)] = m
  /\ \A k \in Nat : m < Power(Radix, k) => Len(s) <= k

LEMMA NothingMakesUp == MakesUp(<<>>, 0)
<1>1. <<>> \in Seq(Digit) /\ Len(<<>>) = 0
  OBVIOUS
<1> DEFINE f == [i \in 0 .. 0 |-> 0]
<1>2. f[0] = 0
  OBVIOUS
<1>3. Reads(f, <<>>) /\ f[Len(<<>>)] = 0
  BY <1>1, <1>2 DEF Reads
<1> HIDE DEF f
<1> QED
  BY <1>1, <1>3 DEF MakesUp

\* A number's last digit behind the digits of its quotient.
LEMMA MoreMakesUp ==
  ASSUME NEW m \in Nat \ {0}, NEW s, MakesUp(s, m \div Radix)
  PROVE  MakesUp(Append(s, m % Radix), m)
<1> DEFINE h == m \div Radix
           d == m % Radix
           t == Append(s, d)
           n == Len(s)
<1>1. h \in Nat /\ d \in Digit /\ m = Radix * h + d
  BY QuotientIsLess
<1> HIDE DEF h, d
<1>2. s \in Seq(Digit)
  BY DEF MakesUp
<1>3. /\ n \in Nat /\ t \in Seq(Digit) /\ Len(t) = n + 1 /\ t[n + 1] = d
      /\ \A i \in 1 .. n : t[i] = s[i]
  BY <1>1, <1>2
<1>4. PICK f : Reads(f, s) /\ f[n] = h
  BY DEF MakesUp, h
<1> HIDE DEF t, n
<1>5. \E g : Reads(g, t) /\ g[n + 1] = m
  <2> DEFINE g == [i \in 0 .. (n + 1) |-> IF i = n + 1 THEN m ELSE f[i]]
  <2>1. g[n + 1] = m /\ \A i \in 0 .. n : g[i] = f[i]
    BY <1>3
  <2> HIDE DEF g
  <2>2. f[0] = 0 /\ \A i \in 1 .. n : f[i] = Radix * f[i - 1] + s[i]
    BY <1>4 DEF Reads, n
  <2>3. ASSUME NEW i \in 1 .. (n + 1) PROVE g[i] = Radix * g[i - 1] + t[i]
    <3>1. CASE i = n + 1
      <4>1. i - 1 = n /\ n \in 0 .. n
        BY <1>3, <3>1
      <4>2. g[i - 1] = h
        BY <1>4, <2>1, <4>1
      <4> QED
        BY <1>1, <1>3, <2>1, <3>1, <4>2
    <3>2. CASE i # n + 1
      <4>1. i \in 1 .. n /\ i \in 0 .. n /\ i - 1 \in 0 .. n
        BY <1>3, <3>2
      <4>2. g[i] = f[i] /\ g[i - 1] = f[i - 1] /\ t[i] = s[i]
        BY <1>3, <2>1, <4>1
      <4>3. f[i] = Radix * f[i - 1] + s[i]
        BY <2>2, <4>1
      <4> QED
        BY <4>2, <4>3
    <3> QED
      BY <3>1, <3>2
  <2>4. g[0] = 0
    <3>1. 0 \in 0 .. n
      BY <1>3
    <3> QED
      BY <2>1, <2>2, <3>1
  <2>5. Reads(g, t)
    BY <1>3, <2>3, <2>4 DEF Reads
  <2> QED
    BY <2>1, <2>5
<1>6. ASSUME NEW k \in Nat, m < Power(Radix, k) PROVE n + 1 <= k
  <2>1. Radix \in Int /\ Radix \in Nat /\ Radix > 1 /\ d \in 0 .. (Radix - 1)
    BY <1>1, RadixIsNat DEF Digit
  <2>2. k # 0
    <3>1. Power(Radix, 0) = 1
      BY <2>1, PowerStep, Zenon
    <3> QED
      BY <1>6, <3>1
  <2> DEFINE j == k - 1
             w == Power(Radix, j)
  <2>3. j \in Nat /\ j + 1 = k
    BY <2>2
  <2> HIDE DEF j
  <2>4. w \in Nat /\ Power(Radix, j + 1) = Radix * w
    BY <2>1, <2>3, PowerStep, PowerIsNat, Zenon
  <2> HIDE DEF w
  <2>5. h < w
    <3> SUFFICES ASSUME h >= w PROVE FALSE
      BY <1>1, <2>4
    <3>1. Radix * h >= Radix * w /\ Radix * h \in Nat /\ Radix * w \in Nat
      BY <1>1, <2>1, <2>4
    <3>2. m < Radix * w /\ m = Radix * h + d
      BY <1>1, <1>6, <2>3, <2>4
    <3> QED
      BY <2>1, <3>1, <3>2
  <2>6. n <= j
    BY <2>3, <2>5 DEF MakesUp, w, h, n
  <2> QED
    BY <1>3, <2>3, <2>6
<1>7. t \in Seq(Digit) /\ Len(t) = n + 1
  BY <1>3
<1>8. \E g : Reads(g, t) /\ g[Len(t)] = m
  BY <1>5, <1>7
<1>9. \A k \in Nat : m < Power(Radix, k) => Len(t) <= k
  BY <1>6, <1>7
<1> QED
  BY <1>7, <1>8, <1>9, Zenon DEF MakesUp, t, d

\* Bytes spells a number, without leading zeros.
LEMMA DigitsSpell ==
  ASSUME NEW n \in Nat
  PROVE  MakesUp(Digits(n), n)
<1> DEFINE Steps(f) == [m \in 0 .. n |-> IF m = 0 THEN <<>> ELSE Append(f[m \div Radix], m % Radix)]
           digits == CHOOSE f : f = Steps(f)
<1>1. PICK f : f = Steps(f)
  BY DigitsExist DEF DigitsUpTo
<1>2. digits = Steps(digits)
  <2> HIDE DEF Steps
  <2> QED
    BY <1>1
<1>3. Digits(n) = digits[n]
  BY DEF Digits
<1> HIDE DEF digits
<1>4. \A m \in 0 .. n : digits[m] = IF m = 0 THEN <<>> ELSE Append(digits[m \div Radix], m % Radix)
  BY <1>2, Zenon
<1> DEFINE Good == {m \in 0 .. n : \A i \in 0 .. m : MakesUp(digits[i], i)}
<1>5. 0 \in Good
  <2>1. 0 \in 0 .. n /\ \A i \in 0 .. 0 : i = 0
    OBVIOUS
  <2>2. digits[0] = <<>>
    BY <1>4, <2>1
  <2> QED
    BY <2>1, <2>2, NothingMakesUp
<1>6. ASSUME NEW m \in 0 .. (n - 1), m \in Good PROVE m + 1 \in Good
  <2> DEFINE k == m + 1
             h == k \div Radix
  <2>1. k \in 0 .. n /\ k # 0 /\ k \in Nat \ {0}
    OBVIOUS
  <2> HIDE DEF k
  <2>2. h \in Nat /\ h < k
    BY <2>1, QuotientIsLess
  <2> HIDE DEF h
  <2>3. h \in 0 .. m
    BY <2>1, <2>2 DEF k
  <2>4. MakesUp(digits[h], h)
    BY <1>6, <2>3
  <2>5. digits[k] = Append(digits[h], k % Radix)
    BY <1>4, <2>1 DEF h
  <2>6. MakesUp(digits[k], k)
    BY <2>1, <2>4, <2>5, MoreMakesUp DEF h
  <2>7. \A i \in 0 .. k : i \in 0 .. m \/ i = k
    BY DEF k
  <2>8. \A i \in 0 .. k : MakesUp(digits[i], i)
    BY <1>6, <2>6, <2>7
  <2> QED
    BY <2>1, <2>8 DEF k
<1> HIDE DEF Good
<1>7. \A m \in 0 .. n : m \in Good
  BY <1>5, <1>6, AllUpTo
<1>8. n \in 0 .. n
  OBVIOUS
<1> QED
  BY <1>3, <1>7, <1>8 DEF Good

\* A number below all blocks makes a block, which spells it.
LEMMA BlockOfNumber ==
  ASSUME NEW m \in Nat, m < Power(Radix, Size)
  PROVE  /\ Padded(Digits(m)) \in Seq(Digit) /\ Len(Padded(Digits(m))) = Size
         /\ SetBytes(Padded(Digits(m))) = m
<1> DEFINE s == Digits(m)
           n == Len(s)
           z == Size - n
           zeros == [i \in 1 .. z |-> 0]
           t == Padded(s)
<1>1. MakesUp(s, m)
  BY DigitsSpell
<1> HIDE DEF s
<1>2. s \in Seq(Digit) /\ n \in Nat /\ Size \in Nat
  BY <1>1, RadixIsNat DEF MakesUp
<1>3. n <= Size
  BY <1>1, <1>2 DEF MakesUp
<1>4. PICK f : Reads(f, s) /\ f[n] = m
  BY <1>1 DEF MakesUp
<1>5. z \in Nat /\ z + n = Size
  BY <1>2, <1>3
<1> HIDE DEF n, z
<1>6. zeros \in Seq(Digit) /\ Len(zeros) = z /\ \A i \in 1 .. z : zeros[i] = 0
  BY <1>5, RadixIsNat
<1> HIDE DEF zeros
<1>7. t = zeros \o s
  BY DEF Padded, zeros, z, n
<1>8. t \in Seq(Digit) /\ Joins(t, zeros, s)
  BY <1>2, <1>6, <1>7, Joined
<1> HIDE DEF t
<1>9. /\ Len(t) = Size
      /\ \A i \in 1 .. z : t[i] = 0
      /\ \A i \in 1 .. n : t[z + i] = s[i]
  BY <1>5, <1>6, <1>8 DEF Joins, n
<1>10. f[0] = 0 /\ \A i \in 1 .. n : f[i] = Radix * f[i - 1] + s[i]
  BY <1>4 DEF Reads, n
<1> DEFINE g == [i \in 0 .. Size |-> IF i <= z THEN 0 ELSE f[i - z]]
<1>11. ASSUME NEW i \in 1 .. Size PROVE g[i] = Radix * g[i - 1] + t[i]
  <2>1. i \in 0 .. Size /\ i - 1 \in 0 .. Size /\ i \in Int /\ z \in Int
    BY <1>2, <1>5
  <2>2. CASE i <= z
    <3>1. g[i] = 0 /\ g[i - 1] = 0 /\ t[i] = 0
      <4>1. i - 1 <= z /\ i \in 1 .. z
        BY <1>5, <2>2
      <4> QED
        BY <1>9, <2>1, <2>2, <4>1
    <3> HIDE DEF g
    <3> QED
      BY <3>1, RadixIsNat
  <2>3. CASE ~(i <= z)
    <3> DEFINE j == i - z
    <3>1. j \in 1 .. n /\ z + j = i
      BY <1>2, <1>5, <2>1, <2>3
    <3>2. t[i] = s[j] /\ f[j] = Radix * f[j - 1] + s[j]
      BY <1>9, <1>10, <3>1
    <3>3. g[i] = f[j]
      BY <2>1, <2>3
    <3>4. g[i - 1] = f[j - 1]
      <4>1. CASE j = 1
        <5>1. i - 1 <= z /\ j - 1 = 0
          BY <3>1, <4>1, <1>5
        <5> QED
          BY <1>10, <2>1, <5>1
      <4>2. CASE j # 1
        <5>1. ~(i - 1 <= z) /\ (i - 1) - z = j - 1
          BY <2>1, <3>1, <4>2
        <5> QED
          BY <2>1, <5>1
      <4> QED
        BY <4>1, <4>2
    <3> HIDE DEF g, j
    <3> QED
      BY <3>2, <3>3, <3>4
  <2> QED
    BY <2>2, <2>3
<1>12. g[0] = 0
  BY <1>2, <1>5
<1>13. g[Size] = m
  <2>1. Size \in 0 .. Size
    BY <1>2
  <2>2. CASE n = 0
    BY <1>4, <1>5, <1>10, <2>1, <2>2
  <2>3. CASE n # 0
    <3>1. ~(Size <= z) /\ Size - z = n
      BY <1>2, <1>5, <2>3
    <3> QED
      BY <1>4, <2>1, <3>1
  <2> QED
    BY <2>2, <2>3
<1> HIDE DEF g
<1>14. Reads(g, t)
  BY <1>9, <1>11, <1>12 DEF Reads
<1>15. t \in Seq(Nat)
  <2>1. \A i \in 1 .. Len(t) : t[i] \in Nat
    <3>1. \A i \in 1 .. Len(t) : t[i] \in Digit
      BY <1>8
    <3> QED
      BY <3>1, RadixIsNat
  <2> QED
    BY <1>8, <2>1, RadixIsNat
<1>16. SetBytes(t) = m
  BY <1>9, <1>13, <1>14, <1>15, SetBytesReads
<1> QED
  BY <1>8, <1>9, <1>16 DEF t, s

-----------------------------------------------------------------------------
(* The keys that are generated.                                             *)

\* Of the inverses there are, InverseMod gives one.
LEMMA InverseModInverts ==
  ASSUME NEW x, NEW n, \E y \in 0 .. (n - 1) : Inverts(y, x, n)
  PROVE  InverseMod(x, n) \in 0 .. (n - 1) /\ Inverts(InverseMod(x, n), x, n)
BY Zenon DEF InverseMod

\* An inverse of a number's remainder is one of the number.
LEMMA InverseOfRemainder ==
  ASSUME NEW a \in Nat, NEW n \in Nat \ {0}, NEW y \in Nat, Inverts(y, a % n, n)
  PROVE  Congruent(a * y, 1, n)
<1> DEFINE x == a % n
           z == x * y
           w == a * y
<1>1. x \in Int /\ Congruent(x, a, n) /\ a \in Int /\ y \in Int /\ n \in Int
  <2>1. a \in Int /\ y \in Int /\ n \in Int
    OBVIOUS
  <2>2. x \in 0 .. (n - 1) /\ Congruent(x, a, n)
    BY <2>1, Remainder
  <2> HIDE DEF x
  <2> QED
    BY <2>1, <2>2
<1>2. z % n = 1
  BY DEF Inverts
<1> HIDE DEF x
<1>3. z \in Int /\ w \in Int /\ 1 \in Int
  BY <1>1
<1>4. Congruent(z, w, n)
  BY <1>1, CongruentSelf, CongruentProduct
<1> HIDE DEF z, w
<1>5. Congruent(1, z, n)
  BY <1>2, <1>3, Remainder
<1>6. Congruent(1, w, n)
  BY <1>1, <1>3, <1>4, <1>5, CongruentTrans, Zenon
<1>7. Congruent(w, 1, n)
  BY <1>1, <1>3, <1>6, CongruentBack, Zenon
<1> QED
  BY <1>7 DEF w

\* Modulo a prime every number that is no multiple of it has an inverse: Fermat's power.
LEMMA InverseExists ==
  ASSUME NEW p, IsPrime(p), NEW a \in Nat, ~Multiple(a, p)
  PROVE  \E y \in 0 .. (p - 1) : Inverts(y, a % p, p)
<1>1. p \in Nat \ {0} /\ p > 1 /\ p \in Int /\ p - 2 \in Nat /\ (p - 2) + 1 = p - 1
  BY DEF IsPrime
<1> DEFINE x == a % p
           w == Power(a, p - 2)
           y == w % p
           z == x * y
<1>2. a \in Int /\ 1 \in Int
  OBVIOUS
<1>3. w \in Int /\ Power(a, (p - 2) + 1) = a * w
  BY <1>1, <1>2, PowerStep, Zenon
<1>4. Congruent(a * w, 1, p)
  BY <1>1, <1>3, FermatUnit
<1>5. x \in 0 .. (p - 1) /\ Congruent(x, a, p)
  BY <1>1, Remainder
<1>6. y \in 0 .. (p - 1) /\ Congruent(y, w, p)
  BY <1>1, <1>3, Remainder
<1> HIDE DEF x, y, w
<1>7. x \in Int /\ y \in Int /\ a * w \in Int /\ z \in Int
  BY <1>1, <1>3, <1>5, <1>6
<1>8. Congruent(z, a * w, p)
  BY <1>1, <1>2, <1>3, <1>5, <1>6, <1>7, CongruentProduct, Zenon
<1> HIDE DEF z
<1>9. Congruent(z, 1, p)
  BY <1>1, <1>2, <1>4, <1>7, <1>8, CongruentTrans, Zenon
<1>10. z % p = 1 % p
  BY <1>1, <1>2, <1>7, <1>9, SameRemainder, Zenon
<1>11. 1 % p = 1
  BY <1>1
<1> QED
  BY <1>6, <1>10, <1>11 DEF Inverts, x, z

\* Every key the server generates is one.
LEMMA GeneratedKey ==
  ASSUME NEW pq \in Primes
  PROVE  IsKeyPair(KeyOf(pq[1], pq[2])) /\ KeyOf(pq[1], pq[2]) # None
<1> DEFINE p == pq[1]
           q == pq[2]
           e == PublicExponent
           phi == (p - 1) * (q - 1)
           d == InverseMod(e % phi, phi)
           qInv == InverseMod(q % p, p)
           k == KeyOf(p, q)
<1>1. /\ IsPrime(p) /\ IsPrime(q) /\ p # q /\ p > 2 /\ q > 2
      /\ p * q < Power(Radix, Size)
      /\ \E y \in 0 .. (phi - 1) : Inverts(y, e % phi, phi)
  BY PrimesAssumption
<1>2. /\ k.n = p * q /\ k.p = p /\ k.q = q /\ k.d = d /\ k.qInv = qInv
      /\ k.dp = d % (p - 1) /\ k.dq = d % (q - 1)
  BY Zenon DEF KeyOf
<1> HIDE DEF k, e
<1>3. p \in Nat \ {0} /\ q \in Nat /\ e \in Nat
  BY <1>1, ExponentIsNat DEF IsPrime, e
<1> HIDE DEF p, q
<1>4. phi \in Nat \ {0} /\ p * q # 0
  BY <1>1, <1>3
<1> HIDE DEF phi
<1>5. d \in 0 .. (phi - 1) /\ Inverts(d, e % phi, phi)
  BY <1>1, InverseModInverts, Zenon
<1> HIDE DEF d
<1>6. d \in Nat
  BY <1>4, <1>5
<1>7. Congruent(e * d, 1, phi)
  BY <1>3, <1>4, <1>5, <1>6, InverseOfRemainder, Zenon
<1>8. ~Multiple(q, p)
  BY <1>1, PrimesApart
<1>9. qInv \in 0 .. (p - 1) /\ Inverts(qInv, q % p, p)
  BY <1>1, <1>3, <1>8, InverseExists, InverseModInverts, Zenon
<1> HIDE DEF qInv
<1>10. qInv \in Nat
  BY <1>3, <1>9
<1>11. Congruent(q * qInv, 1, p)
  BY <1>3, <1>9, <1>10, InverseOfRemainder, Zenon
<1>12. IsKeyPair(k)
  BY <1>1, <1>2, <1>6, <1>7, <1>10, <1>11, Zenon DEF IsKeyPair, e, phi
<1>13. k # None
  <2>1. None.n = 0
    BY DEF None
  <2> QED
    BY <1>2, <1>4, <2>1
<1> QED
  BY <1>12, <1>13 DEF k, p, q

-----------------------------------------------------------------------------
(* What the server makes of a block.                                        *)

\* The block of a number below the modulus: as long as its reader wants it, and
\* decrypted to itself either way.
LEMMA BlockUndone ==
  ASSUME NEW k, IsKeyPair(k), NEW m \in 0 .. (k.n - 1)
  PROVE  LET b == Padded(Digits(m))
             w == RSAEncryptWithModulus(k, b)
         IN  /\ w \in Seq(Digit) /\ Len(w) = Size
             /\ DecryptCRT(k, w) = b /\ DecryptPlain(k, w) = b
<1> DEFINE b == Padded(Digits(m))
           w == RSAEncryptWithModulus(k, b)
           e == PublicExponent
           n == k.n
           c == Exp(m, e, n)
<1>1. n \in Nat \ {0} /\ n < Power(Radix, Size) /\ m \in 0 .. (n - 1) /\ e \in Nat
  <2>1. k.p \in Nat /\ k.p > 1 /\ k.q \in Nat /\ k.q > 1 /\ n = k.p * k.q
    BY DEF IsKeyPair, IsPrime
  <2>2. k.p * k.q \in Nat \ {0}
    BY <2>1
  <2> QED
    BY <2>1, <2>2, ExponentIsNat DEF IsKeyPair
<1> HIDE DEF n, e
<1>2. Power(Radix, Size) \in Nat
  BY RadixIsNat, PowerIsNat
<1>3. m \in Nat /\ m \in Int /\ m < Power(Radix, Size)
  BY <1>1, <1>2
<1>4. SetBytes(b) = m
  BY <1>3, BlockOfNumber, Zenon
<1>5. Power(m, e) \in Int /\ c = Power(m, e) % n
  BY <1>1, <1>3, PowerStep, ExpIsPower, Zenon
<1>6. c \in 0 .. (n - 1)
  BY <1>1, <1>5, Remainder, Zenon
<1>7. w = Padded(Digits(c))
  BY <1>4, Zenon DEF RSAEncryptWithModulus, e, n
<1> HIDE DEF b, w, c
<1>8. c \in Nat /\ c < Power(Radix, Size)
  BY <1>1, <1>2, <1>6
<1>9. w \in Seq(Digit) /\ Len(w) = Size /\ SetBytes(w) = c
  BY <1>7, <1>8, BlockOfNumber, Zenon
<1>10. DecryptPlain(k, w) = b
  <2>1. Exp(c, k.d, n) = m
    BY PlainUndoes, Zenon DEF c, e, n
  <2> QED
    BY <1>9, <2>1, Zenon DEF DecryptPlain, b, n
<1>11. DecryptCRT(k, w) = b
  <2>1. Garner(k, Exp(c, k.dp, k.p), Exp(c, k.dq, k.q)) = m
    BY RemaindersUndo, Zenon DEF c, e, n
  <2> QED
    BY <1>9, <2>1, Zenon DEF DecryptCRT, b
<1> QED
  BY <1>9, <1>10, <1>11 DEF w, b

-----------------------------------------------------------------------------
(* The invariant.                                                           *)

KeyInv == keyPair = None \/ IsKeyPair(keyPair)

\* What is on the wire was made with the key, from a number below its modulus.
BlockInv ==
  ciphertext # <<>> =>
    /\ keyPair # None
    /\ \E m \in 0 .. (keyPair.n - 1) :
         plaintext = Padded(Digits(m)) /\ ciphertext = RSAEncryptWithModulus(keyPair, plaintext)

DecryptedInv == decrypted # <<>> => ciphertext # <<>> /\ decrypted = <<plaintext, plaintext>>

RsaInv == KeyInv /\ BlockInv /\ DecryptedInv

LEMMA RsaInitInv == RsaInit => RsaInv
BY DEF RsaInit, RsaInv, KeyInv, BlockInv, DecryptedInv

\* A new key works, and nothing was encrypted without one.
LEMMA GenerateKeepsRsaInv ==
  ASSUME RsaInv, GenerateRSAKeyPair
  PROVE  RsaInv'
<1>1. /\ keyPair = None /\ \E pq \in Primes : keyPair' = KeyOf(pq[1], pq[2])
      /\ plaintext' = plaintext /\ ciphertext' = ciphertext /\ decrypted' = decrypted
  BY DEF GenerateRSAKeyPair
<1>2. ciphertext = <<>> /\ decrypted = <<>>
  BY <1>1 DEF RsaInv, BlockInv, DecryptedInv
<1>3. KeyInv'
  BY <1>1, GeneratedKey, Zenon DEF KeyInv
<1>4. BlockInv' /\ DecryptedInv'
  BY <1>1, <1>2 DEF BlockInv, DecryptedInv
<1> QED
  BY <1>3, <1>4 DEF RsaInv

\* What is encrypted is the block of a number below the modulus.
LEMMA EncryptKeepsRsaInv ==
  ASSUME RsaInv, Encrypt
  PROVE  RsaInv'
<1>1. /\ keyPair # None /\ ciphertext = <<>> /\ keyPair' = keyPair /\ decrypted' = decrypted
      /\ \E m \in 0 .. (keyPair.n - 1) : plaintext' = Padded(Digits(m))
      /\ ciphertext' = RSAEncryptWithModulus(keyPair, plaintext')
  BY DEF Encrypt
<1>2. KeyInv'
  BY <1>1 DEF RsaInv, KeyInv
<1>3. BlockInv'
  BY <1>1, Zenon DEF BlockInv
<1>4. DecryptedInv'
  BY <1>1 DEF RsaInv, DecryptedInv
<1> QED
  BY <1>2, <1>3, <1>4 DEF RsaInv

\* Decryption gives the block back on both ways.
LEMMA DecryptKeepsRsaInv ==
  ASSUME RsaInv, Decrypt
  PROVE  RsaInv'
<1>1. /\ Len(ciphertext) = Size /\ keyPair' = keyPair /\ plaintext' = plaintext /\ ciphertext' = ciphertext
      /\ decrypted' = <<DecryptCRT(keyPair, ciphertext), DecryptPlain(keyPair, ciphertext)>>
  BY DEF Decrypt
<1>2. ciphertext # <<>>
  <2>1. Len(<<>>) = 0 /\ Size > 0
    BY RadixIsNat
  <2> QED
    BY <1>1, <2>1
<1>3. IsKeyPair(keyPair)
  BY <1>2 DEF RsaInv, KeyInv, BlockInv
<1>4. PICK m \in 0 .. (keyPair.n - 1) :
        plaintext = Padded(Digits(m)) /\ ciphertext = RSAEncryptWithModulus(keyPair, plaintext)
  BY <1>2, Zenon DEF RsaInv, BlockInv
<1>5. DecryptCRT(keyPair, ciphertext) = plaintext /\ DecryptPlain(keyPair, ciphertext) = plaintext
  BY <1>3, <1>4, BlockUndone, Zenon
<1>6. KeyInv' /\ BlockInv'
  BY <1>1, Zenon DEF RsaInv, KeyInv, BlockInv
<1>7. DecryptedInv'
  BY <1>1, <1>2, <1>5, Zenon DEF DecryptedInv
<1> QED
  BY <1>6, <1>7 DEF RsaInv

\* The invariant implies the property.
LEMMA RsaInvMeans == RsaInv => BlocksComeBack
<1> SUFFICES ASSUME RsaInv PROVE BlocksComeBack
  OBVIOUS
<1>1. NeverTooShort
  <2> SUFFICES ASSUME ciphertext # <<>>
               PROVE  Len(ciphertext) = Size /\ \A i \in 1 .. Size : ciphertext[i] \in 0 .. (Radix - 1)
    BY DEF NeverTooShort
  <2>1. IsKeyPair(keyPair)
    BY DEF RsaInv, KeyInv, BlockInv
  <2>2. PICK m \in 0 .. (keyPair.n - 1) :
          plaintext = Padded(Digits(m)) /\ ciphertext = RSAEncryptWithModulus(keyPair, plaintext)
    BY Zenon DEF RsaInv, BlockInv
  <2>3. ciphertext \in Seq(Digit) /\ Len(ciphertext) = Size
    BY <2>1, <2>2, BlockUndone, Zenon
  <2>4. \A i \in 1 .. Size : ciphertext[i] \in Digit
    BY <2>3
  <2> QED
    BY <2>3, <2>4 DEF Digit
<1>2. WaysAgree /\ BlockComesBack
  BY DEF RsaInv, DecryptedInv, WaysAgree, BlockComesBack
<1> QED
  BY <1>1, <1>2 DEF BlocksComeBack

\* For every size of a block and every pair of primes a key may be made of: each block
\* below the modulus comes back, the same by the remainders as by the exponent, and no
\* block on the wire is shorter than its reader insists on.
THEOREM RsaTheorem == RsaSpec => []BlocksComeBack
<1>1. ASSUME RsaInv, [RsaNext]_rsaVars PROVE RsaInv'
  <2>1. CASE GenerateRSAKeyPair
    BY <1>1, <2>1, GenerateKeepsRsaInv
  <2>2. CASE Encrypt
    BY <1>1, <2>2, EncryptKeepsRsaInv
  <2>3. CASE Decrypt
    BY <1>1, <2>3, DecryptKeepsRsaInv
  <2>4. CASE UNCHANGED rsaVars
    BY <1>1, <2>4 DEF rsaVars, RsaInv, KeyInv, BlockInv, DecryptedInv
  <2> QED
    BY <1>1, <2>1, <2>2, <2>3, <2>4 DEF RsaNext
<1> QED
  BY <1>1, RsaInitInv, RsaInvMeans, PTL DEF RsaSpec

=============================================================================
