-------------------------------- MODULE Rsa --------------------------------
(***************************************************************************)
(* RSA without padding (crypto/rsa.go, testutil/client.go and gsclient.go): *)
(* a block is a sequence of Size bytes, the number it spells is raised to   *)
(* the public exponent, and the server brings it back through the Chinese   *)
(* remainder theorem or by the private exponent.  A byte has Radix values.   *)
(***************************************************************************)
EXTENDS Integers, Sequences

CONSTANTS
  Radix,    \* values of a byte (256 in the program)
  Size,    \* bytes of a block (64 and 128 in the program)
  Primes   \* pairs of primes whose product has exactly Size bytes

PublicExponent == 65537

Power(x, k) ==
  LET power[i \in 0..k] == IF i = 0 THEN 1 ELSE x * power[i-1]
  IN  power[k]

IsPrime(p) == p \in Nat /\ p > 1 /\ \A a \in 2..(p - 1) : p % a # 0

\* y undoes a multiplication by x, up to multiples of n.
Inverts(y, x, n) == (x * y) % n = 1

ASSUME SizeAssumption == Radix \in Nat \ {0, 1} /\ Size \in Nat \ {0}
\* What rsa.GenerateKey looks for: two odd primes for which the public exponent can
\* be inverted, and whose product has no leading zero bit.
ASSUME PrimesAssumption ==
  \A pq \in Primes :
    /\ pq \in Nat \X Nat /\ pq[1] # pq[2] /\ pq[1] > 2 /\ pq[2] > 2
    /\ IsPrime(pq[1]) /\ IsPrime(pq[2])
    /\ 2 * (pq[1] * pq[2]) >= Power(Radix, Size) /\ pq[1] * pq[2] < Power(Radix, Size)
    /\ LET phi == (pq[1] - 1) * (pq[2] - 1)
       IN  \E d \in 0..(phi - 1) : Inverts(d, PublicExponent % phi, phi)

VARIABLES
  keyPair,     \* the server's key, or none
  plaintext,   \* the block the client encrypts
  ciphertext,  \* the block on the wire
  decrypted   \* what the server makes of it, by the remainders and by the exponent

rsaVars == <<keyPair, plaintext, ciphertext, decrypted>>

-----------------------------------------------------------------------------
(* math/big.                                                                *)

\* (*Int).SetBytes, big-endian; Bytes drops leading zeros, the callers restore them.
SetBytes(b) ==
  LET value[i \in 0..Len(b)] == IF i = 0 THEN 0 ELSE Radix * value[i-1] + b[i]
  IN  value[Len(b)]

Digits(n) ==
  LET digits[m \in 0..n] == IF m = 0 THEN <<>> ELSE Append(digits[m \div Radix], m % Radix)
  IN  digits[n]

Padded(b) == [i \in 1..(Size - Len(b)) |-> 0] \o b

Exp(x, k, n) ==
  LET power[i \in 0..k] == IF i = 0 THEN 1 % n
                           ELSE LET half == power[i \div 2]
                                IN  (half * half * (IF i % 2 = 1 THEN x % n ELSE 1)) % n
  IN  power[k]

InverseMod(x, n) == CHOOSE y \in 0..(n - 1) : Inverts(y, x, n)

-----------------------------------------------------------------------------
(* Keys, encryption, decryption.                                            *)

\* rsa.GenerateKey and Precompute: the private exponent and its remainders.
KeyOf(p, q) ==
  LET phi == (p - 1) * (q - 1)
      d   == InverseMod(PublicExponent % phi, phi)
  IN  [n |-> p * q, p |-> p, q |-> q, d |-> d,
       dp |-> d % (p - 1), dq |-> d % (q - 1), qInv |-> InverseMod(q % p, p)]

\* RSAEncryptWithModulus and RSAEncryptWithModulus512.
RSAEncryptWithModulus(k, block) == Padded(Digits(Exp(SetBytes(block), PublicExponent, k.n)))

\* (Changed form: the difference keeps its sign, as with Rem for Mod.)
GarnerSigned(k, m1, m2) ==
  LET h == IF m1 >= m2 THEN ((m1 - m2) * k.qInv) % k.p ELSE -(((m2 - m1) * k.qInv) % k.p)
      m == m2 + h * k.q
  IN  IF m >= 0 THEN m ELSE -m

Garner(k, m1, m2) == m2 + (((m1 - m2) * k.qInv) % k.p) * k.q

\* RSADecryptNoPadding, with and without the precomputed values.
DecryptCRT(k, block) ==
  LET c == SetBytes(block) IN Padded(Digits(Garner(k, Exp(c, k.dp, k.p), Exp(c, k.dq, k.q))))

DecryptPlain(k, block) == Padded(Digits(Exp(SetBytes(block), k.d, k.n)))

-----------------------------------------------------------------------------
None == [n |-> 0]

RsaInit == keyPair = None /\ plaintext = <<>> /\ ciphertext = <<>> /\ decrypted = <<>>

GenerateRSAKeyPair ==
  /\ keyPair = None
  /\ \E pq \in Primes : keyPair' = KeyOf(pq[1], pq[2])
  /\ UNCHANGED <<plaintext, ciphertext, decrypted>>

\* Both clients put zeros in front: their number is below the modulus.
Encrypt ==
  /\ keyPair # None /\ ciphertext = <<>>
  /\ \E m \in 0..(keyPair.n - 1) : plaintext' = Padded(Digits(m))
  /\ ciphertext' = RSAEncryptWithModulus(keyPair, plaintext')
  /\ UNCHANGED <<keyPair, decrypted>>

Decrypt ==
  /\ Len(ciphertext) = Size /\ decrypted = <<>>
  /\ decrypted' = <<DecryptCRT(keyPair, ciphertext), DecryptPlain(keyPair, ciphertext)>>
  /\ UNCHANGED <<keyPair, plaintext, ciphertext>>

RsaNext == GenerateRSAKeyPair \/ Encrypt \/ Decrypt

RsaSpec == RsaInit /\ [][RsaNext]_rsaVars

-----------------------------------------------------------------------------
(* Properties.                                                              *)

\* The server gets back the very block the client encrypted, its leading zeros
\* included, for every block below the modulus.
BlockComesBack == decrypted # <<>> => decrypted[1] = plaintext

\* The faster way of decrypting and the fallback agree on every block.
WaysAgree == decrypted # <<>> => decrypted[1] = decrypted[2]

\* Every block on the wire has the length the server insists on.
NeverTooShort == ciphertext # <<>> => Len(ciphertext) = Size /\ \A i \in 1..Size : ciphertext[i] \in 0..(Radix - 1)

\* For every block below the modulus: it comes back, the same on both ways of
\* decrypting, and never shorter than its reader (crypto/rsa.go:210) insists on.
BlocksComeBack == NeverTooShort /\ WaysAgree /\ BlockComesBack

=============================================================================
