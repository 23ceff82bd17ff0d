---------------------------- MODULE CodecStream ----------------------------
(***************************************************************************)
(* Any sequence of typed values written into one packet with the writer of  *)
(* Codec, and read again with its reader.                                   *)
(***************************************************************************)
EXTENDS Codec

CONSTANTS Values,   \* the values written: a set of records [type, val]
          MaxItems  \* values written into one packet (bound)

\* What the writer's methods take.
Writable(v) ==
  CASE v.type = "byte"   -> v.val \in Byte
    [] v.type = "short"  -> IsInt16(v.val)
    [] v.type = "int"    -> IsInt32(v.val)
    [] v.type = "long"   -> v.val \in Int \X Int /\ IsInt32(v.val[1]) /\ IsInt32(v.val[2])
    [] v.type = "double" -> v.val \in Nat /\ v.val < TwoTo[Fraction]
    [] v.type = "string" -> v.val \in Seq(Nat) /\ \A i \in 1..Len(v.val) : IsChar(v.val[i])
    [] v.type = "bytes"  -> v.val \in Seq(Byte)
    [] OTHER -> FALSE

ASSUME ValuesAssumption == \A v \in Values : Writable(v)
ASSUME ItemsAssumption  == MaxItems \in Nat

\* The write of a value of each type.
PutValue(item) ==
  CASE item.type = "byte"   -> <<item.val>>
    [] item.type = "short"  -> PutShort(item.val)
    [] item.type = "int"    -> PutInt(item.val)
    [] item.type = "long"   -> PutLong(item.val)
    [] item.type = "double" -> PutDouble(item.val)
    [] item.type = "string" -> PutString(item.val)
    [] item.type = "bytes"  -> item.val

\* The read that corresponds to a written value.
GetValue(r, item) ==
  CASE item.type = "byte"   -> ReadByte(r)
    [] item.type = "short"  -> ReadShort(r)
    [] item.type = "int"    -> ReadInt(r)
    [] item.type = "long"   -> ReadLong(r)
    [] item.type = "double" -> ReadDouble(r)
    [] item.type = "string" -> ReadString(r)
    [] item.type = "bytes"  -> ReadBytes(r, Len(item.val))

\* A reader that goes through the bytes as they were written.
GetAll(all, bytes) ==
  LET r[i \in 0..Len(all)] == IF i = 0 THEN NewReader(bytes) ELSE GetValue(r[i-1], all[i])
  IN  r[Len(all)]

-----------------------------------------------------------------------------
(* One packet being written.                                                *)

VARIABLES items, buf

codecVars == <<items, buf>>

CodecTypeOK == /\ items \in Seq(Values) /\ Len(items) <= MaxItems
               /\ buf \in Seq(Byte)

CodecInit == items = <<>> /\ buf = <<>>

WriteValue(v) ==
  /\ Len(items) < MaxItems
  /\ items' = Append(items, v)
  /\ buf' = buf \o PutValue(v)

\* Writer.Reset, when the writer is taken from the pool again.
Reset == items # <<>> /\ items' = <<>> /\ buf' = <<>>

CodecNext == Reset \/ \E v \in Values : WriteValue(v)

CodecSpec == CodecInit /\ [][CodecNext]_codecVars

-----------------------------------------------------------------------------
(* Properties.                                                              *)

\* Read in the order in which they were written, the values come back, but for those
\* of doubles, and nothing is left over: no field's encoding runs into the next one.
ReadsBack ==
  LET r == GetAll(items, buf)
  IN  /\ r.ok /\ r.pos = Len(buf)
      /\ \A i \in DOMAIN items : items[i].type # "double" => r.got[i] = items[i].val

\* A packet that has lost its end is refused at the field that is cut, and the fields
\* before it, but for doubles, are read as they were (a parser has no other way to know).
CutIsRefused ==
  \A n \in 0..(Len(buf) - 1) :
    LET r == GetAll(items, SubSeq(buf, 1, n))
    IN  /\ ~r.ok /\ r.pos <= n
        /\ \A i \in DOMAIN r.got : items[i].type # "double" => r.got[i] = items[i].val

\* What the writer (gameserver/packet/writer.go) lays out the readers get back, of a
\* whole packet or of all that is before the cut of another one: bytes, shorts, ints,
\* longs and strings, beside doubles too.  Of a double nothing is claimed but that its
\* eight bytes are taken: ReadDouble converts the bits to a number (reader.go:75),
\* so that 5 comes back as 4617315517961601024.
ValuesComeBack == CodecTypeOK /\ ReadsBack /\ CutIsRefused

=============================================================================
