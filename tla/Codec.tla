------------------------------- MODULE Codec -------------------------------
(***************************************************************************)
(* The packet writer (gameserver/packet/writer.go) and the two readers      *)
(* (gameserver/packet/reader.go and gslistener/packet/reader.go, the same   *)
(* code for the types both have).  A byte is a number of 0..255, a packet a *)
(* sequence of bytes; an int64 or the bits of a float64 are a pair of int32 *)
(* (low, high); a string is the sequence of its runes.                      *)
(***************************************************************************)
EXTENDS Integers, Sequences

Byte == 0..255

\* The surrogates of UTF-16; the characters of a Go string, of which a null one
\* would end it; the widths of integers.
IsLow(u)  == 56320 <= u /\ u < 57344
IsHigh(u) == 55296 <= u /\ u < 56320
IsChar(c)  == 0 < c /\ c < 1114112 /\ ~IsLow(c) /\ ~IsHigh(c)
IsInt16(n) == n \in Int /\ -32768 <= n /\ n < 32768
IsInt32(n) == n \in Int /\ -2147483647 - 1 <= n /\ n <= 2147483647

-----------------------------------------------------------------------------
(* Writer.                                                                  *)

PutShort(n) == <<n % 256, (n \div 256) % 256>>

PutInt(n) == <<n % 256, (n \div 256) % 256, (n \div 65536) % 256, (n \div 16777216) % 256>>

PutLong(n) == PutInt(n[1]) \o PutInt(n[2])

Fraction == 20   \* bits of a float64's fraction in its high word

TwoTo[i \in 0..Fraction] == IF i = 0 THEN 1 ELSE 2 * TwoTo[i-1]

\* math.Float64bits of a natural number of at most Fraction bits.
Float64bits(k) ==
  IF k = 0 THEN <<0, 0>>
  ELSE LET e == CHOOSE i \in 0..(Fraction - 1) : TwoTo[i] <= k /\ k < TwoTo[i+1]
       IN  <<0, (1022 + e) * TwoTo[Fraction] + k * TwoTo[Fraction - e]>>

PutDouble(k) == PutLong(Float64bits(k))

\* A rune above 0xFFFF takes a surrogate pair.
PutRune(r) == IF r <= 65535 THEN PutShort(r)
              ELSE PutShort((r - 65536) \div 1024 + 55296) \o PutShort(((r - 65536) % 1024) + 56320)

PutString(s) ==
  LET bytes[i \in 0..Len(s)] == IF i = 0 THEN <<>> ELSE bytes[i-1] \o PutRune(s[i])
  IN  bytes[Len(s)] \o <<0, 0>>

-----------------------------------------------------------------------------
(* Reader: the data, the position, whether no read has failed, and the      *)
(* values read so far (a parser returns at its first error).                *)

NewReader(data) == [data |-> data, pos |-> 0, ok |-> TRUE, got |-> <<>>]

Fail(r) == [r EXCEPT !.ok = FALSE]

\* Reads n bytes whose meaning is v, when there are as many.
Read(r, n, v) ==
  IF ~r.ok \/ r.pos + n > Len(r.data) THEN Fail(r)
  ELSE [r EXCEPT !.pos = @ + n, !.got = Append(@, v)]

\* The k-th unread byte.
Ahead(r, k) == r.data[r.pos + k]

Signed(b) == IF b < 128 THEN b ELSE b - 256

Short(b0, b1) == b0 + 256 * Signed(b1)

LongWord(b0, b1, b2, b3) == b0 + 256 * b1 + 65536 * b2 + 16777216 * Signed(b3)

ReadByte(r)  == Read(r, 1, Ahead(r, 1))
ReadShort(r) == Read(r, 2, Short(Ahead(r, 1), Ahead(r, 2)))
IntAhead(r, k) == LongWord(Ahead(r, k), Ahead(r, k + 1), Ahead(r, k + 2), Ahead(r, k + 3))
ReadInt(r)   == Read(r, 4, IntAhead(r, 1))
ReadLong(r)  == Read(r, 8, <<IntAhead(r, 1), IntAhead(r, 5)>>)

\* float64(bits): the integer the bits spell, not the number they encode.
ReadDouble(r) == ReadLong(r)

ReadBytes(r, n) == IF n < 0 THEN Fail(r) ELSE Read(r, n, SubSeq(r.data, r.pos + 1, r.pos + n))

\* utf16.Decode: a high unit and the low one behind it make a rune, either of them
\* alone the replacement character.
Runes(units) ==
  LET Pair(k) == k \in 1..(Len(units) - 1) /\ IsHigh(units[k]) /\ IsLow(units[k+1])
      Rune(k) == IF Pair(k) THEN (units[k] - 55296) * 1024 + (units[k+1] - 56320) + 65536
                 ELSE IF IsHigh(units[k]) \/ IsLow(units[k]) THEN 65533 ELSE units[k]
      read[k \in 0..Len(units)] ==
        IF k = 0 THEN <<>> ELSE IF Pair(k-1) THEN read[k-1] ELSE Append(read[k-1], Rune(k))
  IN  read[Len(units)]

Least(S) == CHOOSE k \in S : \A other \in S : k <= other

UnitAt(r, k) == Ahead(r, 2*k - 1) + 256 * Ahead(r, 2*k)

\* (Changed form: a string may also end with the data.)
ReadStringToEnd(r) ==
  LET units == (Len(r.data) - r.pos) \div 2
      nulls == {k \in 1..units : UnitAt(r, k) = 0}
      n     == Least(nulls)
  IN  IF ~r.ok THEN r
      ELSE IF nulls = {} THEN Read(r, 2 * units, Runes([k \in 1..units |-> UnitAt(r, k)]))
      ELSE Read(r, 2 * n, Runes([k \in 1..(n - 1) |-> UnitAt(r, k)]))

\* Units up to the first null one, which must be there.
ReadString(r) ==
  LET nulls == {k \in 1..((Len(r.data) - r.pos) \div 2) : UnitAt(r, k) = 0}
      n     == Least(nulls)
  IN  IF ~r.ok \/ nulls = {} THEN Fail(r)
      ELSE Read(r, 2 * n, Runes([k \in 1..(n - 1) |-> UnitAt(r, k)]))

=============================================================================
