----------------------------- MODULE FrameSizes -----------------------------
(***************************************************************************)
(* How large a frame becomes, and which payloads its writer accepts: the    *)
(* arithmetic of protocol.WritePacket, LoginEncryption.EncryptPacket and    *)
(* EncryptPacketClient, gslistener.WritePacket and the GS test client.      *)
(* len is the length of the whole buffer, n the length of the payload.      *)
(***************************************************************************)
EXTENDS Integers

Header   == 2    \* PacketHeaderSize
Checksum == 4    \* PacketChecksumSize
Block    == 8    \* BlowfishBlockSize, PacketPaddingAlign
Spare    == 16   \* PacketBufferPadding

RoundUp(n) == IF n % Block = 0 THEN n ELSE n + (Block - (n % Block))

\* protocol.WritePacket and the first check of EncryptPacket.
WriterAccepts(len, n)  == len >= Header + n + Spare
EncryptAccepts(len, n) == Header + RoundUp(n) + 8 <= len

\* The first packet of a LoginEncryption, the later ones, the client's.
FirstSize(n)  == RoundUp(n + 8) + 8
LaterSize(n)  == RoundUp(n + Checksum)
ClientAccepts(len, n) == Header + LaterSize(n) <= len

\* gslistener.WritePacket.
GSAccepts(len, n) == n >= 0 /\ n <= len - (Header + Spare)
GSSize(n) == LET size == n + Checksum IN size + ((Block - (size % Block)) % Block)

=============================================================================
