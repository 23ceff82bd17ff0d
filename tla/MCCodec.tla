------------------------------- MODULE MCCodec -------------------------------
(* Values for CodecStream.                                                   *)
EXTENDS CodecStream

\* Signs, carries between bytes, characters whose low or high byte is zero, a
\* surrogate pair, the empty string.
MCValues ==
  {[type |-> "byte", val |-> 0], [type |-> "short", val |-> -2], [type |-> "short", val |-> 256],
   [type |-> "int", val |-> -2147483647 - 1], [type |-> "int", val |-> 7777],
   [type |-> "long", val |-> <<-1, 65536>>], [type |-> "double", val |-> 3],
   [type |-> "string", val |-> <<>>], [type |-> "string", val |-> <<97, 256>>],
   [type |-> "string", val |-> <<128512, 1078>>], [type |-> "bytes", val |-> <<0, 0, 9>>]}

=============================================================================
