------------------------------ MODULE Packets ------------------------------
(***************************************************************************)
(* The packets of the three protocols, each as its writer lays it out and   *)
(* as its reader takes it apart: clients and login server                   *)
(* (login/serverpackets, login/handler.go, testutil/client.go), game and    *)
(* login servers (gslistener, testutil/gsclient.go), clients and game       *)
(* server (gameserver, testutil/gameclient.go).  A reader returns a record  *)
(* with ok FALSE where the code returns an error.                           *)
(***************************************************************************)
EXTENDS Codec

CONSTANT XorByte(_, _)   \* exclusive or of two bytes

ASSUME XorByteAssumption ==
  \A a, b \in Byte : XorByte(a, b) \in Byte /\ XorByte(XorByte(a, b), b) = a

Malformed == [ok |-> FALSE]

Zeros(n) == [i \in 1..n |-> 0]

Greatest(S) == CHOOSE k \in S : \A other \in S : other <= k

\* The parts of a packet that come in a loop, one behind the other.
Chain(parts) ==
  LET upTo[i \in 0..Len(parts)] == IF i = 0 THEN <<>> ELSE upTo[i-1] \o parts[i]
  IN  upTo[Len(parts)]

\* copy into a field of n bytes.
Fixed(bytes, n) == [i \in 1..n |-> IF i <= Len(bytes) THEN bytes[i] ELSE 0]

\* binary.LittleEndian.Uint32 at an offset, the offsets counted from 0.
IntAt(p, off) == LongWord(p[off + 1], p[off + 2], p[off + 3], p[off + 4])
Slice(p, off, n) == SubSeq(p, off + 1, off + n)

-----------------------------------------------------------------------------
(* crypto/rsa.go: what the bytes of a block go through.                     *)

Exchange(s, a, b, n) ==
  [i \in DOMAIN s |-> IF i - 1 \in a..(a + n - 1) THEN s[i - a + b]
                      ELSE IF i - 1 \in b..(b + n - 1) THEN s[i - b + a] ELSE s[i]]

XorBlock(s, a, b, n) ==
  [i \in DOMAIN s |-> IF i - 1 \in a..(a + n - 1) THEN XorByte(s[i], s[i - a + b]) ELSE s[i]]

ScrambleModulus(m) == XorBlock(XorBlock(XorBlock(Exchange(m, 0, 77, 4), 0, 64, 64), 13, 52, 4), 64, 0, 64)

UnscrambleModulus(s) == Exchange(XorBlock(XorBlock(XorBlock(s, 64, 0, 64), 13, 52, 4), 0, 64, 64), 0, 77, 4)

\* big.Int.SetBytes and Bytes: leading zeros are lost.
Significant(bytes) ==
  LET digits == {i \in DOMAIN bytes : bytes[i] # 0}
  IN  IF digits = {} THEN <<>> ELSE SubSeq(bytes, Least(digits), Len(bytes))

LeftPad(bytes, n) == Zeros(n - Len(bytes)) \o bytes

\* Encrypting with the modulus and decrypting with its key give the number back
\* (module Rsa); both ends turn numbers into blocks of n bytes.
RSAEncrypt(block, n) == LeftPad(Significant(block), n)
RSADecryptNoPadding(block, n) == LeftPad(Significant(block), n)

-----------------------------------------------------------------------------
(* Login server and its clients.                                            *)

ProtocolRevisionInit == 50721   \* 0xC621
GGConstants == PutInt(702387534) \o PutInt(2009308412) \o PutInt(-1750223328) \o PutInt(129884407)

Init(session, scrambled, key) ==
  <<0>> \o PutInt(session) \o PutInt(ProtocolRevisionInit) \o scrambled \o GGConstants \o key \o <<0>>

ReadInitPacket(p) ==
  IF p[1] # 0 \/ Len(p) < 170 THEN Malformed
  ELSE [ok |-> TRUE, session |-> IntAt(p, 1), revision |-> IntAt(p, 5),
        modulus |-> UnscrambleModulus(Slice(p, 9, 128)), key |-> Slice(p, 153, 16)]

SendAuthGameGuard(session) == <<7>> \o PutInt(session) \o Zeros(16)

ParseAuthGameGuard(body) ==
  IF Len(body) < 4 THEN Malformed ELSE [ok |-> TRUE, session |-> IntAt(body, 0)]

GGAuth(session) == <<11>> \o PutInt(session) \o Zeros(16)

ReadGGAuth(p) == [ok |-> p[1] = 11]

SendRequestAuthLogin(login, password) ==
  <<0>> \o RSAEncrypt(Zeros(94) \o Fixed(login, 14) \o Fixed(password, 16) \o Zeros(4), 128)

\* strings.TrimRight of nulls and spaces, TrimSpace, ToLower.
Blank  == {0, 32}
Trim(s) ==
  LET kept == {i \in DOMAIN s : s[i] \notin Blank}
      text == IF kept = {} THEN <<>> ELSE SubSeq(s, 1, Greatest(kept))
      body == {i \in DOMAIN text : text[i] # 32}
  IN  IF body = {} THEN <<>> ELSE SubSeq(text, Least(body), Len(text))
ToLower(s) == [i \in DOMAIN s |-> IF s[i] \in 65..90 THEN s[i] + 32 ELSE s[i]]

ParseRequestAuthLogin(body) ==
  LET plain    == RSADecryptNoPadding(Slice(body, 0, 128), 128)
      login    == ToLower(Trim(Slice(plain, 94, 14)))
      password == Trim(Slice(plain, 108, 16))
  IN  IF Len(body) < 128 \/ login = <<>> \/ password = <<>> THEN Malformed
      ELSE [ok |-> TRUE, login |-> login, password |-> password]

LoginOk(ok1, ok2) ==
  <<3>> \o PutInt(ok1) \o PutInt(ok2) \o Zeros(8) \o PutInt(1002) \o Zeros(12) \o Zeros(16)

LoginFail(reason)     == <<1, reason>>
AccountKicked(reason) == <<2>> \o PutInt(reason)
PlayFail(reason)      == <<6, reason>>
PlayOk(ok1, ok2)      == <<7>> \o PutInt(ok1) \o PutInt(ok2)

\* What the client makes of the answer to its login and to its choice of server.
ReadLoginOk(p) ==
  CASE p[1] = 3 /\ Len(p) >= 9 -> [answer |-> "ok", ok1 |-> IntAt(p, 1), ok2 |-> IntAt(p, 5)]
    [] p[1] = 1 -> [answer |-> "fail", reason |-> p[2]]
    [] p[1] = 2 -> [answer |-> "kicked", reason |-> p[2]]
    [] p[1] = 4 -> [answer |-> "list"]
    [] OTHER    -> [answer |-> "error"]

ReadPlayOk(p) ==
  CASE p[1] = 7 /\ Len(p) >= 9 -> [answer |-> "ok", ok1 |-> IntAt(p, 1), ok2 |-> IntAt(p, 5)]
    [] p[1] = 6 -> [answer |-> "fail", reason |-> p[2]]
    [] OTHER    -> [answer |-> "error"]

\* buildServerList and ServerList; a server is a record [id, ip, port].
ServerEntry(s) ==
  <<s.id>> \o s.ip \o PutInt(s.port) \o <<0, 0>> \o PutShort(0) \o PutShort(1000)
    \o <<1>> \o PutInt(1) \o <<0>>

ServerList(servers) ==
  <<4, Len(servers) % 256, IF servers = <<>> THEN 0 ELSE servers[1].id>>
    \o Chain([i \in DOMAIN servers |-> ServerEntry(servers[i])])
    \o PutShort(0) \o <<Len(servers) % 256>>
    \o Chain([i \in DOMAIN servers |-> <<servers[i].id, 0, 0>>])

ReadServerList(p) ==
  IF p[1] # 4 THEN Malformed ELSE [ok |-> TRUE, count |-> p[2], last |-> p[3]]

SendRequestServerList(ok1, ok2) == <<5>> \o PutInt(ok1) \o PutInt(ok2)

ParseRequestServerList(body) ==
  IF Len(body) < 8 THEN Malformed
  ELSE [ok |-> TRUE, ok1 |-> IntAt(body, 0), ok2 |-> IntAt(body, 4)]

SendRequestServerLogin(ok1, ok2, id) == <<2>> \o PutInt(ok1) \o PutInt(ok2) \o <<id>>

ParseRequestServerLogin(body) ==
  IF Len(body) < 9 THEN Malformed
  ELSE [ok |-> TRUE, ok1 |-> IntAt(body, 0), ok2 |-> IntAt(body, 4), id |-> body[9]]

-----------------------------------------------------------------------------
(* Login server and game servers.                                           *)

ProtocolRevision == 262   \* 0x0106

InitLS(revision, modulus) ==
  <<0>> \o PutInt(revision) \o PutInt(64)
    \o (IF Len(modulus) >= 64 THEN SubSeq(modulus, 1, 64) ELSE LeftPad(modulus, 64))

ReadInitLS(p) ==
  IF p[1] # 0 \/ Len(p) < 73 \/ IntAt(p, 5) # 64 THEN Malformed
  ELSE [ok |-> TRUE, revision |-> IntAt(p, 1), modulus |-> Slice(p, 9, 64)]

SendBlowFishKey(key) == <<0>> \o RSAEncrypt(LeftPad(key, 64), 64)

\* BlowFishKey.Parse and handleBlowFishKey: the last 40 bytes of the block.
ParseBlowFishKey(body) ==
  IF Len(body) < 64 THEN Malformed
  ELSE [ok |-> TRUE, key |-> Slice(RSADecryptNoPadding(Slice(body, 0, 64), 64), 24, 40)]

\* g is a record [id, alternate, maxPlayers, port, hexID].
SendGameServerAuth(g) ==
  <<1, g.id, IF g.alternate THEN 1 ELSE 0, 0>> \o PutShort(g.maxPlayers) \o PutShort(g.port)
    \o <<0>> \o Fixed(g.hexID, 32)

\* id, alternate, reserved; maxPlayers, port; hosts, hexID.
ParseGameServerAuth(body) ==
  LET ids   == ReadByte(ReadByte(ReadByte(NewReader(body))))
      ports == ReadShort(ReadShort(ids))
      r     == ReadBytes(ReadByte(ports), 32)
  IN  IF ~r.ok THEN Malformed
      ELSE [ok |-> TRUE, id |-> r.got[1], alternate |-> r.got[2] # 0,
            maxPlayers |-> r.got[4], port |-> r.got[5], hexID |-> r.got[7]]

AuthResponse(id, name) == <<2, id>> \o PutString(name)

LoginServerFail(reason) == <<1, reason>>

ReadAuthResponse(p) ==
  CASE p[1] = 2 /\ Len(p) >= 2 -> [answer |-> "ok", id |-> p[2]]
    [] p[1] = 1 /\ Len(p) >= 2 -> [answer |-> "fail", reason |-> p[2]]
    [] OTHER -> [answer |-> "error"]

\* A session key is a record [login1, login2, play1, play2].
PlayFirst(sk) == PutInt(sk.play1) \o PutInt(sk.play2) \o PutInt(sk.login1) \o PutInt(sk.login2)

SendPlayerAuthRequest(account, sk) == <<5>> \o PutString(account) \o PlayFirst(sk)

SessionKey(p1, p2, l1, l2) == [login1 |-> l1, login2 |-> l2, play1 |-> p1, play2 |-> p2]

ReadKey(r) == ReadInt(ReadInt(ReadInt(ReadInt(r))))

\* The login pair first, as docs/protocol/02-protocol-flows.md:109 orders AuthLogin.
ParseLoginFirst(body) ==
  LET r == ReadKey(ReadString(NewReader(body)))
  IN  IF ~r.ok THEN Malformed
      ELSE [ok |-> TRUE, account |-> r.got[1],
            key |-> SessionKey(r.got[4], r.got[5], r.got[2], r.got[3])]

ParsePlayerAuthRequest(body) ==
  LET r == ReadKey(ReadString(NewReader(body)))
  IN  IF ~r.ok THEN Malformed
      ELSE [ok |-> TRUE, account |-> r.got[1],
            key |-> SessionKey(r.got[2], r.got[3], r.got[4], r.got[5])]

PlayerAuthResponse(account, success) ==
  <<3>> \o PutString(account) \o <<IF success THEN 1 ELSE 0>>

\* The account ends with the first null unit, or with the data; a result follows.
ReadPlayerAuthResponse(p) ==
  LET Unit(k) == p[2*k] + 256 * p[2*k + 1]
      units   == (Len(p) - 1) \div 2
      nulls   == {k \in 1..units : Unit(k) = 0}
      read    == IF nulls = {} THEN units ELSE Least(nulls)
      account == [k \in 1..(IF nulls = {} THEN read ELSE read - 1) |-> Unit(k)]
  IN  IF p[1] # 3 \/ 2 * read + 1 >= Len(p) THEN Malformed
      ELSE [ok |-> TRUE, account |-> Runes(account), result |-> p[2*read + 2] = 1]

\* What a registered game server reports (testutil/gsclient.go): a player who enters,
\* one who leaves, its attributes, a sequence of pairs <<id, value>>.
PlayerInGame(account) == <<3>> \o PutString(account)
PlayerLogout(account) == <<4>> \o PutString(account)
ServerStatus(id, attrs) ==
  <<6, id, Len(attrs) % 256>> \o Chain([i \in DOMAIN attrs |-> <<attrs[i][1]>> \o PutInt(attrs[i][2])])

ReadStrings(r, n) ==
  LET upTo[i \in 0..n] == IF i = 0 THEN r ELSE ReadString(upTo[i-1])
  IN  upTo[n]

\* The most accounts and attributes a report may have.
MaxAccounts == 10000
MaxAttrs    == 100

ParsePlayerInGame(body) ==
  LET n == ReadShort(NewReader(body))
      r == ReadStrings(n, n.got[1])
  IN  IF ~n.ok \/ n.got[1] < 0 \/ n.got[1] > MaxAccounts \/ ~r.ok THEN Malformed
      ELSE [ok |-> TRUE, accounts |-> Tail(r.got)]

ParsePlayerLogout(body) ==
  LET r == ReadString(NewReader(body))
  IN  IF ~r.ok THEN Malformed ELSE [ok |-> TRUE, account |-> r.got[1]]

ReadPairs(r, n) ==
  LET upTo[i \in 0..n] == IF i = 0 THEN r ELSE ReadInt(ReadInt(upTo[i-1]))
  IN  upTo[n]

ParseServerStatus(body) ==
  LET n == ReadInt(NewReader(body))
      r == ReadPairs(n, n.got[1])
  IN  IF ~n.ok \/ n.got[1] < 0 \/ n.got[1] > MaxAttrs \/ ~r.ok THEN Malformed
      ELSE [ok |-> TRUE, attrs |-> [i \in 1..n.got[1] |-> <<r.got[2*i], r.got[2*i + 1]>>]]

\* HandlePacket of the listener on the connection of a registered game server, its
\* reports: what it takes the packet for, by the first byte.
UnderstoodReport(p) ==
  LET body    == SubSeq(p, 2, Len(p))
      online  == ParsePlayerInGame(body)
      left    == ParsePlayerLogout(body)
      status  == ParseServerStatus(body)
  IN  CASE p[1] = 2 /\ online.ok -> [report |-> "online", accounts |-> online.accounts]
        [] p[1] = 3 /\ left.ok   -> [report |-> "left", accounts |-> <<left.account>>]
        [] p[1] = 6 /\ status.ok -> [report |-> "status", attrs |-> status.attrs]
        [] OTHER -> [report |-> "refused"]

-----------------------------------------------------------------------------
(* Game server and its clients.                                             *)

KeyPacket(key) == <<46, 1>> \o key

ReadKeyPacket(p) ==
  IF p[1] # 46 \/ p[2] # 1 THEN Malformed ELSE [ok |-> TRUE, key |-> Slice(p, 2, 16)]

SendProtocolVersion(revision) == <<14>> \o PutInt(revision)

ParseProtocolVersion(body) ==
  LET r == ReadInt(NewReader(body))
  IN  IF ~r.ok THEN Malformed ELSE [ok |-> TRUE, valid |-> r.got[1] = ProtocolRevision]

SendAuthLogin(account, sk) == <<8>> \o PutString(account) \o PlayFirst(sk) \o Zeros(16)

ParseAuthLogin(body) ==
  LET r == ReadKey(ReadKey(ReadString(NewReader(body))))
  IN  IF ~r.ok THEN Malformed
      ELSE [ok |-> TRUE, account |-> r.got[1],
            key |-> SessionKey(r.got[2], r.got[3], r.got[4], r.got[5])]

=============================================================================
