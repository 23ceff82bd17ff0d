------------------------------ MODULE Framing ------------------------------
(***************************************************************************)
(* One connection, frame by frame: how a payload becomes a frame in a       *)
(* buffer of the pool and how the other end gets it back, for the clients   *)
(* of the login server ("login"), the game servers ("gs") and the clients   *)
(* of the game server as its tests have them ("game").  A byte has Base     *)
(* values (256 in the program).  Blowfish is a lock: the bytes of a frame   *)
(* can be read with the key they were written with; with another key they   *)
(* fail the check of the sum (but for one chance in 2^32, left out).        *)
(***************************************************************************)
EXTENDS FrameSizes, Sequences

CONSTANTS
  Base,      \* values of a byte
  XorOf(_, _), \* exclusive or of two words
  Protocols, \* subset of {"login", "gs", "game"}
  SendBuf,   \* length of a send buffer
  ReadBuf,   \* length of a read buffer
  Payloads,  \* the packets that are sent
  Greetings, \* the first packets: they have the room of FirstSize, as the Init packet has
  XorKeys,   \* random keys of the first packet
  MaxSent    \* bound: packets of a client

Symbols    == 0..(Base - 1)
WordValues == Base * Base * Base * Base    \* values of a uint32
Words      == 0..(WordValues - 1)

ASSUME BaseAssumption == Base \in Nat \ {0, 1}
ASSUME XorAssumption ==
  \A a, b \in Words : XorOf(a, b) \in Words /\ XorOf(XorOf(a, b), b) = a /\ XorOf(a, a) = 0
ASSUME BuffersAssumption == SendBuf \in Nat /\ ReadBuf \in Nat /\ SendBuf <= ReadBuf
ASSUME ProtocolsAssumption == Protocols \subseteq {"login", "gs", "game"} /\ MaxSent \in Nat
ASSUME PayloadsAssumption == Payloads \cup Greetings \subseteq Seq(Symbols) /\ XorKeys \subseteq Words
ASSUME GreetingsAssumption == \A p \in Greetings : Header + FirstSize(Len(p)) <= SendBuf

VARIABLES
  proto,  \* the protocol of the connection
  srv,    \* the server's encryption: [first, key], key the one it uses after the first packet
  cli,    \* the client's
  spare,  \* a send buffer in the server's pool, with what its last use left
  up,     \* frames on their way to the server
  down,   \* frames on their way to the client
  asked,  \* payloads the client has sent and the server has not read
  told,   \* payloads the server has sent and the client has not read
  sent,   \* packets the client has sent
  got,    \* the last packet read: [end, ok, meant, bytes]
  open    \* the server keeps the connection

framingVars == <<proto, srv, cli, spare, up, down, asked, told, sent, got, open>>

-----------------------------------------------------------------------------
(* crypto/blowfish.go: words in a buffer, offsets counted from 0.           *)

\* A word and its four bytes, the lowest first.
WordAt(b, i) == b[i+1] + Base * (b[i+2] + Base * (b[i+3] + Base * b[i+4]))

BytesOf(w) ==
  LET second == w \div Base  third == second \div Base  fourth == third \div Base
  IN  <<w % Base, second % Base, third % Base, fourth % Base>>

\* Word j behind off becomes words[j].
PutWords(b, off, words) ==
  [k \in DOMAIN b |-> LET at == k - 1 - off IN
     IF at \div 4 \in DOMAIN words THEN BytesOf(words[at \div 4])[(at % 4) + 1] ELSE b[k]]

\* The exclusive or of the first words behind off.
SumsOf(b, off, count) ==
  LET sum[j \in 0..count] == IF j = 0 THEN 0 ELSE XorOf(sum[j-1], WordAt(b, off + 4 * (j - 1)))
  IN  sum

SumOf(b, off, size) == SumsOf(b, off, size \div 4)[size \div 4]

AppendChecksum(b, off, size) ==
  PutWords(b, off, [j \in {size \div 4 - 1} |-> SumOf(b, off, size - 4)])

VerifyChecksum(b, off, size) == size % 4 = 0 /\ size > 4 /\ SumOf(b, off, size) = 0

\* The words between the first, which stays in plain, and the last two.
Hidden(size) == size \div 4 - 3

\* The accumulator grows by every word it passes and hides it; it is left behind
\* the words it has hidden.
Growing(b, off, size, key) ==
  LET ecx[j \in 0..Hidden(size)] == IF j = 0 THEN key ELSE (ecx[j-1] + WordAt(b, off + 4 * j)) % WordValues
  IN  ecx

EncXORPass(b, off, size, key) ==
  LET ecx == Growing(b, off, size, key)
  IN  PutWords(b, off, [j \in 1..(Hidden(size) + 1) |->
        IF j > Hidden(size) THEN ecx[Hidden(size)] ELSE XorOf(WordAt(b, off + 4 * j), ecx[j])])

\* From the last word it has hidden back to the first.
Shrinking(b, off, size) ==
  LET ecx[j \in 0..Hidden(size)] ==
        IF j = 0 THEN WordAt(b, off + 4 * (Hidden(size) + 1))
        ELSE (ecx[j-1] - XorOf(WordAt(b, off + 4 * (Hidden(size) + 1 - j)), ecx[j-1])) % WordValues
  IN  ecx

DecXORPass(b, off, size) ==
  LET ecx == Shrinking(b, off, size)
  IN  PutWords(b, off, [j \in 1..Hidden(size) |-> XorOf(WordAt(b, off + 4 * j), ecx[Hidden(size) - j])])

-----------------------------------------------------------------------------
(* Buffers, writers and readers.                                            *)

Cleared(b, from, to) == [k \in DOMAIN b |-> IF k \in (from + 1)..to THEN 0 ELSE b[k]]

\* (Changed form: a buffer keeps what its last use left.)
FromPoolUncleared(b) == b

\* BytePool.Get of the full length: the slice is cleared.
FromPool(b) == Cleared(b, 0, Len(b))

\* The handler writes its payload behind the room for the header.
Fill(b, p) == [k \in DOMAIN b |-> IF k \in (Header + 1)..(Header + Len(p)) THEN p[k - Header] ELSE b[k]]

\* A frame: the length its header says, the key, the bytes under the key.
Frame(b, key, size) == [total |-> Header + size, key |-> key, data |-> SubSeq(b, Header + 1, Header + size)]

\* What a buffer looks like after its frame was sent: ciphertext, then what was behind it.
Used(b, size) == [k \in DOMAIN b |-> IF k <= Header + size THEN Base - 1 ELSE b[k]]

Refused == [ok |-> FALSE, frame |-> <<>>, buf |-> <<>>]
Written(b, key, size) == [ok |-> TRUE, frame |-> Frame(b, key, size), buf |-> Used(b, size)]

\* EncryptPacket: the first packet of either end, then the later ones.
EncryptPacket(b, n, enc, xorKey) ==
  IF ~EncryptAccepts(Len(b), n) THEN Refused
  ELSE IF enc.first THEN Written(EncXORPass(b, Header, FirstSize(n), xorKey), "static", FirstSize(n))
  ELSE Written(AppendChecksum(Cleared(b, Header + n, Header + LaterSize(n)), Header, LaterSize(n)),
               enc.key, LaterSize(n))

\* protocol.WritePacket.
WritePacket(b, n, enc, xorKey) ==
  IF ~WriterAccepts(Len(b), n) THEN Refused
  ELSE EncryptPacket(Cleared(b, Header + n, Header + n + Spare), n, enc, xorKey)

\* EncryptPacketClient and the length put before it.
EncryptPacketClient(b, n, enc) ==
  IF ~ClientAccepts(Len(b), n) THEN Refused
  ELSE Written(AppendChecksum(Cleared(b, Header + n, Header + LaterSize(n)), Header, LaterSize(n)),
               enc.key, LaterSize(n))

\* gslistener.WritePacket: what is behind the payload is sent as it is.
GSWritePacket(b, n, enc) ==
  IF ~GSAccepts(Len(b), n) THEN Refused
  ELSE Written(AppendChecksum(b, Header, GSSize(n)), enc.key, GSSize(n))

Failed == [ok |-> FALSE, bytes |-> <<>>]

LengthRefused(f, len) == f.total < Header \/ f.total - Header > len

\* protocol.ReadPacket and DecryptPacket, with the end's later key only.
ReadPacket(f, enc, len) ==
  IF LengthRefused(f, len) \/ f.total = Header \/ (f.total - Header) % Block # 0
     \/ f.key # enc.key \/ ~VerifyChecksum(f.data, 0, f.total - Header)
  THEN Failed ELSE [ok |-> TRUE, bytes |-> f.data]

\* ReadInitPacket of the login test client: the static key, no sum.
ReadFirst(f, len) ==
  IF LengthRefused(f, len) \/ f.key # "static" THEN Failed
  ELSE [ok |-> TRUE, bytes |-> DecXORPass(f.data, 0, f.total - Header)]

\* gslistener.ReadPacket: the sum is cut off.
GSReadPacket(f, enc, len) ==
  IF LengthRefused(f, len) \/ f.key # enc.key \/ ~VerifyChecksum(f.data, 0, f.total - Header)
  THEN Failed ELSE [ok |-> TRUE, bytes |-> SubSeq(f.data, 1, f.total - Header - Checksum)]

\* readEncryptedPacket of the GS test client: no sum is looked at.
GSClientRead(f, enc, len) ==
  IF LengthRefused(f, len) \/ f.key # enc.key THEN Failed ELSE [ok |-> TRUE, bytes |-> f.data]

-----------------------------------------------------------------------------
(* The connection.                                                          *)

Nothing == [end |-> "none", ok |-> TRUE, meant |-> <<>>, bytes |-> <<>>]

\* The pool's buffer has been used for an earlier frame, or never.
FramingInit ==
  /\ proto \in Protocols
  /\ srv = [first |-> proto # "gs", key |-> IF proto = "gs" THEN "default" ELSE "dynamic"]
  /\ cli = [first |-> proto # "gs", key |-> IF proto = "gs" THEN "default" ELSE "unknown"]
  /\ spare \in {[k \in 1..SendBuf |-> v] : v \in {0, Base - 1}}
  /\ up = <<>> /\ down = <<>> /\ asked = <<>> /\ told = <<>>
  /\ sent = 0 /\ got = Nothing /\ open = FALSE

\* The server sends w, what its writer made of payload p.
Replies(w, p) ==
  /\ down' = Append(down, w.frame) /\ told' = Append(told, p)
  /\ spare' = w.buf
  /\ srv' = [srv EXCEPT !.first = FALSE]

\* handleConnection, its greeting: Init, InitLS, or the key in plain bytes.
Greet ==
  /\ sent = 0 /\ ~open /\ got = Nothing
  /\ open' = TRUE
  /\ IF proto = "game"
     THEN cli' = [cli EXCEPT !.key = "dynamic"] /\ UNCHANGED <<srv, spare, down, told>>
     ELSE /\ \E p \in Greetings, k \in XorKeys :
               LET b == Fill(FromPool(spare), p)
                   w == IF proto = "gs" THEN GSWritePacket(b, Len(p), srv) ELSE WritePacket(b, Len(p), srv, k)
               IN  w.ok /\ Replies(w, p)
          /\ UNCHANGED cli
  /\ UNCHANGED <<proto, up, asked, sent, got>>

\* The client takes the oldest frame; the greeting of the login server gives it the key.
ClientReads ==
  /\ down # <<>>
  /\ LET f == Head(down)
         r == CASE proto = "gs" -> GSClientRead(f, cli, ReadBuf)
                [] proto = "login" /\ cli.key = "unknown" -> ReadFirst(f, ReadBuf)
                [] OTHER -> ReadPacket(f, cli, ReadBuf)
     IN  /\ got' = [end |-> "client", ok |-> r.ok, meant |-> Head(told), bytes |-> r.bytes]
         /\ cli' = IF r.ok /\ cli.key = "unknown" THEN [cli EXCEPT !.key = "dynamic"] ELSE cli
  /\ down' = Tail(down) /\ told' = Tail(told)
  /\ UNCHANGED <<proto, srv, spare, up, asked, sent, open>>

\* The client sends a packet; a game server sends its key first and uses it from then on.
ClientSends ==
  /\ sent < MaxSent /\ open
  /\ cli.key # "unknown" /\ (proto = "gs" /\ sent = 0 => down = <<>>)
  /\ \E p \in IF proto = "game" /\ cli.first THEN Greetings ELSE Payloads, k \in XorKeys :
       LET b == Fill([i \in 1..SendBuf |-> 0], p)
           w == CASE proto = "game" -> WritePacket(b, Len(p), cli, k)
                  [] OTHER -> EncryptPacketClient(b, Len(p), cli)
       IN  /\ w.ok
           /\ up' = Append(up, w.frame)
           /\ asked' = Append(asked, p)
  /\ cli' = [first |-> cli.first /\ proto # "game", key |-> IF proto = "gs" THEN "new" ELSE cli.key]
  /\ sent' = sent + 1
  /\ UNCHANGED <<proto, srv, spare, down, told, got, open>>

\* (Changed form: the listener keeps its first key.)
KeepsKey(enc) == enc

\* handleBlowFishKey, the first packet of a game server.
SwitchKey(enc) == IF proto = "gs" THEN [enc EXCEPT !.key = "new"] ELSE enc

\* handlePacket of the three servers: read, handle, answer or not.
ServerHandles ==
  /\ up # <<>> /\ open
  /\ up' = Tail(up) /\ asked' = Tail(asked)
  /\ LET f == Head(up)
         r == IF proto = "gs" THEN GSReadPacket(f, srv, ReadBuf) ELSE ReadPacket(f, srv, ReadBuf)
     IN  /\ got' = [end |-> "server", ok |-> r.ok, meant |-> Head(asked), bytes |-> r.bytes]
         /\ IF ~r.ok THEN open' = FALSE /\ UNCHANGED <<srv, spare, down, told>>
            ELSE \/ /\ proto # "game" /\ (proto = "gs" => srv.key = "new")
                    /\ \E p \in Payloads :
                         LET b == Fill(FromPool(spare), p)
                             w == IF proto = "gs" THEN GSWritePacket(b, Len(p), srv)
                                  ELSE WritePacket(b, Len(p), srv, 0)
                         IN  IF w.ok THEN Replies(w, p) /\ UNCHANGED open
                             ELSE open' = FALSE /\ UNCHANGED <<srv, spare, down, told>>
                 \/ /\ srv' = SwitchKey(srv)
                    /\ UNCHANGED <<spare, down, told, open>>
  /\ UNCHANGED <<proto, cli, sent>>

FramingNext == Greet \/ ClientReads \/ ClientSends \/ ServerHandles

FramingSpec == FramingInit /\ [][FramingNext]_framingVars

-----------------------------------------------------------------------------
(* Properties.                                                              *)

FramingTypeOK ==
  /\ proto \in Protocols /\ open \in BOOLEAN /\ sent \in 0..MaxSent
  /\ {srv.key, cli.key} \subseteq {"default", "new", "dynamic", "unknown"}
  /\ spare \in Seq(Symbols) /\ Len(spare) = SendBuf
  /\ Len(up) = Len(asked) /\ Len(down) = Len(told)

\* What the reader of either end gets begins with the payload its writer was
\* given, whole and in order: between the login server and its clients or game
\* servers no frame of an honest end is refused.
Delivered == proto # "game" => got.ok /\ SubSeq(got.bytes, 1, Len(got.meant)) = got.meant

\* The game server hears what its clients send: tests/integration/gameserver_test.go:132
\* says "connection should still be alive after valid protocol version".  (The tests'
\* client writes its first packet as a first packet, under the static key; the server
\* reads it as a later one, refuses it and closes.)
GameClientsHeard == proto = "game" /\ got.end = "server" => got.ok

\* Every frame is read with the key it was written with, the switch of a game
\* server's key in the middle of its packets included.
KeysInStep ==
  /\ \A i \in 1..Len(down) : down[i].key \in {cli.key, "static"}
  /\ up # <<>> /\ proto # "game" => up[1].key = srv.key

\* Nothing of an earlier packet leaves in the padding of a later one: behind the
\* payload there are zeros and the sum (the accumulator in a first packet).
PaddingIsClean ==
  \A i \in 1..Len(down) :
    LET d == down[i].data IN
    down[i].key # "static" => \A k \in (Len(told[i]) + 1)..(Len(d) - 4) : d[k] = 0

\* A frame has the length its header says and whole blocks, and both its writer's
\* and its reader's buffer hold it.
FramesFit ==
  \A f \in {up[i] : i \in DOMAIN up} \cup {down[i] : i \in DOMAIN down} :
    /\ f.total = Header + Len(f.data) /\ Len(f.data) % Block = 0
    /\ f.total <= SendBuf /\ Len(f.data) <= ReadBuf

\* Every payload between the login server and its clients or game servers arrives,
\* whole, in order and under the key both ends are using.  (GameClientsHeard is about
\* the game server's clients.)
PayloadsArrive == FramingTypeOK /\ Delivered /\ KeysInStep

\* And nothing else leaves: neither what an earlier packet left in the buffer nor
\* what is behind the buffer's end.
NothingElseLeaves == PaddingIsClean /\ FramesFit

=============================================================================
