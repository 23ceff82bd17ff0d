------------------------------- MODULE MCWire --------------------------------
(* Values for Wire.                                                          *)
EXTENDS Wire

LOCAL INSTANCE Bitwise

MCXorByte(a, b) == a ^^ b

Bytes(n, k) == [i \in 1..n |-> (k + 37 * i) % 256]

MCModulus512  == Bytes(64, 130)
MCModulus1024 == Bytes(128, 160)
\* One key with leading zeros and one without.
MCBFKeys == {<<0, 0>> \o Bytes(38, 5), Bytes(40, 90)}
\* Ports and limits on both sides of 32768.
MCGameServers ==
  {[id |-> 1, alternate |-> TRUE, maxPlayers |-> 1000, port |-> 32768, hexID |-> Bytes(32, 0)],
   [id |-> 127, alternate |-> FALSE, maxPlayers |-> 65535, port |-> 32767, hexID |-> Zeros(32)]}
\* One attribute, none, and one of a negative value.
MCReports ==
  {[id |-> 1, account |-> <<7>>, attrs |-> <<<<1, 1000>>>>],
   [id |-> 127, account |-> <<128512, 98>>, attrs |-> <<>>],
   [id |-> 0, account |-> <<>>, attrs |-> <<<<4, -1>>>>]}
MCSessions == {305419896, -2}
MCSessionKeys ==
  {[login1 |-> 1, login2 |-> 65536, play1 |-> 2147483647, play2 |-> 16777472],
   [login1 |-> 255, login2 |-> 0, play1 |-> 256, play2 |-> 7]}
\* A plain name, one of 14 bytes in capitals, one of 15, a password only, blanks.
MCCredentials ==
  {[login |-> <<98, 111, 98>>, password |-> <<112>>],
   [login |-> Bytes(1, 28) \o [i \in 1..13 |-> 66], password |-> [i \in 1..16 |-> 49]],
   [login |-> [i \in 1..15 |-> 99], password |-> <<32, 112>>],
   [login |-> <<>>, password |-> <<112>>]}
MCServerLists ==
  {<<>>, <<[id |-> 1, ip |-> <<127, 0, 0, 1>>, port |-> 7777],
           [id |-> 255, ip |-> <<10, 0, 0, 1>>, port |-> 65535]>>}

=============================================================================
