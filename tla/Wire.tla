-------------------------------- MODULE Wire --------------------------------
(***************************************************************************)
(* Two conversations, packet by packet: a game server registering with the  *)
(* login server and reporting its players; and a player's client logging    *)
(* in, choosing a server, entering it, and the game server asking the login *)
(* server about the key.  Every packet is laid out by its writer and taken  *)
(* apart by its reader (module Packets), each half of the code of another   *)
(* program; the game servers and the clients are those of testutil, the     *)
(* only ones in the repository.  The framing is the tail a reader sees      *)
(* behind the payload (module Framing checks the framing itself).           *)
(***************************************************************************)
EXTENDS Packets

CONSTANTS
  Sums,        \* bytes a checksum may consist of
  Modulus512,  \* the public modulus for game servers
  Modulus1024, \* the public modulus for clients
  BFKeys,      \* Blowfish keys of game servers
  GameServers, \* what a game server registers with
  Reports,     \* records [id, account, attrs]: what SendServerStatus and SendPlayerInGame get
  Sessions,    \* session ids of client connections
  SessionKeys, \* session keys drawn by the login server
  Credentials, \* records [login, password]
  ServerLists, \* configured lists of game servers
  Licence,     \* values of ShowLicence
  ClientStates \* states a client of the game server may be in when AuthLogin comes

\* Strings without the null that would end them.
Texts == {s \in Seq(Nat) : \A i \in 1..Len(s) : IsChar(s[i])}

IsUint16(n) == n \in Nat /\ n < 65536

ASSUME SumsAssumption == Sums \subseteq Byte
ASSUME ModuliAssumption ==
  /\ Modulus512 \in Seq(Byte) /\ Len(Modulus512) = 64
  /\ Modulus1024 \in Seq(Byte) /\ Len(Modulus1024) = 128
ASSUME KeysAssumption == \A k \in BFKeys : k \in Seq(Byte) /\ Len(k) = 40
ASSUME GameServersAssumption ==
  \A g \in GameServers :
    /\ g \in [id : Byte, alternate : BOOLEAN, maxPlayers : Nat, port : Nat, hexID : Seq(Byte)]
    /\ IsUint16(g.maxPlayers) /\ IsUint16(g.port) /\ Len(g.hexID) = 32
ASSUME ReportsAssumption ==
  \A rep \in Reports :
    /\ rep \in [id : Byte, account : Texts, attrs : Seq(Byte \X Int)]
    /\ \A i \in 1..Len(rep.attrs) : IsInt32(rep.attrs[i][2])
ASSUME SessionsAssumption == \A s \in Sessions : IsInt32(s)
ASSUME SessionKeysAssumption ==
  \A sk \in SessionKeys :
    /\ sk \in [login1 : Int, login2 : Int, play1 : Int, play2 : Int]
    /\ IsInt32(sk.login1) /\ IsInt32(sk.login2) /\ IsInt32(sk.play1) /\ IsInt32(sk.play2)
\* Names and passwords are ASCII, so that their bytes are their characters.
ASSUME CredentialsAssumption == Credentials \subseteq [login : Seq(1..127), password : Seq(1..127)]
ASSUME ServerListsAssumption ==
  \A servers \in ServerLists :
    servers \in Seq([id : Byte, ip : Seq(Byte), port : Nat]) /\ Len(servers) < 256
ASSUME ClientStatesAssumption == ClientStates \subseteq {"CONNECTED", "AUTHENTICATED"}

VARIABLES
  turn,   \* the next step
  wire,   \* the packet under way, as its reader will see it
  said,   \* what the ends of the conversation mean: topic -> value
  heard   \* what the other end has understood: topic -> value

wireVars == <<turn, wire, said, heard>>

Turns == {"start", "initLS", "bfKey", "register", "auth", "answer", "players", "online", "status",
          "left", "login", "init", "gg", "ggAuth", "credentials", "loginAnswer", "list", "listed",
          "choice", "playAnswer", "game", "gameKey", "version", "enter", "ticket", "ask", "request",
          "verdict", "end"}

WireTypeOK == /\ turn \in Turns
              /\ wire \in Seq(Byte)
              /\ DOMAIN heard \subseteq DOMAIN said

WireInit == /\ turn \in {"start", "login"}
            /\ wire = <<>> /\ said = <<>> /\ heard = <<>>

Goes(from, to) == turn = from /\ turn' = to
\* f with the value v for topic, unless it has one.
Learns(f, topic, v) == [t \in DOMAIN f \cup {topic} |-> IF t \in DOMAIN f THEN f[t] ELSE v]
Means(topic, v) == said' = Learns(said, topic, v)
Hears(topic, v) == heard' = Learns(heard, topic, v)

\* Padding to 8 bytes with a checksum at the end; Init has 22 bytes more; the
\* listener cuts the checksum off.
Pad(p) == 8 * ((Len(p) + 11) \div 8) - Len(p) - 4
Framed(p)      == {p \o Zeros(Pad(p)) \o <<b, b, b, b>> : b \in Sums}
FirstFramed(p) == {p \o Zeros(18) \o <<b, b, b, b>> : b \in Sums}
GSFramed(p)    == {p \o Zeros(Pad(p))}

Body == SubSeq(wire, 2, Len(wire))

-----------------------------------------------------------------------------
(* A game server registers.                                                 *)

GreetGameServer ==
  /\ Goes("start", "initLS")
  /\ wire' \in Framed(InitLS(ProtocolRevision, Modulus512))
  /\ Means("modulus512", Modulus512)
  /\ UNCHANGED heard

SendKey == \E k \in BFKeys :
  LET r == ReadInitLS(wire) IN
  /\ Goes("initLS", "bfKey") /\ r.ok
  /\ Hears("modulus512", r.modulus)
  /\ wire' \in GSFramed(SendBlowFishKey(k))
  /\ Means("bfKey", k)

HandleBlowFishKey ==
  LET r == ParseBlowFishKey(Body) IN
  /\ Goes("bfKey", "register") /\ r.ok
  /\ Hears("bfKey", r.key)
  /\ wire' = <<>>
  /\ UNCHANGED said

SendRegistration == \E g \in GameServers :
  /\ Goes("register", "auth")
  /\ wire' \in GSFramed(SendGameServerAuth(g))
  /\ Means("registration", g)
  /\ UNCHANGED heard

\* Which answer is given, module GSListener decides.
HandleRegistration ==
  LET r == ParseGameServerAuth(Body) IN
  /\ Goes("auth", "answer") /\ r.ok
  /\ Hears("registration", [id |-> r.id, alternate |-> r.alternate, maxPlayers |-> r.maxPlayers,
                            port |-> r.port, hexID |-> r.hexID])
  /\ \/ /\ wire' \in Framed(AuthResponse(r.id, <<66>>))
        /\ Means("answer", [answer |-> "ok", id |-> r.id])
     \/ \E reason \in {3, 4} : /\ wire' \in Framed(LoginServerFail(reason))
                               /\ Means("answer", [answer |-> "fail", reason |-> reason])

ReadAnswer ==
  LET r == ReadAuthResponse(wire) IN
  /\ Goes("answer", IF r.answer = "ok" THEN "players" ELSE "end")
  /\ Hears("answer", r)
  /\ wire' = <<>>
  /\ UNCHANGED said

\* SendPlayerInGame, SendServerStatus and SendPlayerLogout, each at most once and the
\* last about the player of the first.
ReportOnline == \E rep \in Reports :
  /\ Goes("players", "online") /\ "online" \notin DOMAIN said
  /\ wire' \in GSFramed(PlayerInGame(rep.account))
  /\ Means("online", [report |-> "online", accounts |-> <<rep.account>>])
  /\ UNCHANGED heard

ReportStatus == \E rep \in Reports :
  /\ Goes("players", "status") /\ "status" \notin DOMAIN said
  /\ wire' \in GSFramed(ServerStatus(rep.id, rep.attrs))
  /\ Means("status", [report |-> "status", attrs |-> rep.attrs])
  /\ UNCHANGED heard

ReportLeft ==
  LET gone == said["online"].accounts[1] IN
  /\ Goes("players", "left") /\ "online" \in DOMAIN said /\ "left" \notin DOMAIN said
  /\ wire' \in GSFramed(PlayerLogout(gone))
  /\ Means("left", [report |-> "left", accounts |-> <<gone>>])
  /\ UNCHANGED heard

\* An error of HandlePacket ends the connection.
HandleReport == \E topic \in {"online", "status", "left"} :
  LET r == UnderstoodReport(wire) IN
  /\ Goes(topic, IF r.report = "refused" THEN "end" ELSE "players")
  /\ Hears(topic, r)
  /\ wire' = <<>>
  /\ UNCHANGED said

-----------------------------------------------------------------------------
(* A client logs in.                                                        *)

GreetClient == \E s \in Sessions :
  /\ Goes("login", "init")
  /\ wire' \in FirstFramed(Init(s, ScrambleModulus(Modulus1024), SubSeq(Modulus1024, 1, 16)))
  /\ Means("greeting", [session |-> s, modulus |-> Modulus1024, key |-> SubSeq(Modulus1024, 1, 16)])
  /\ UNCHANGED heard

AnswerGreeting ==
  LET r == ReadInitPacket(wire) IN
  /\ Goes("init", "gg") /\ r.ok
  /\ Hears("greeting", [session |-> r.session, modulus |-> r.modulus, key |-> r.key])
  /\ wire' \in Framed(SendAuthGameGuard(r.session))
  /\ UNCHANGED said

HandleGameGuard ==
  LET r == ParseAuthGameGuard(Body) IN
  /\ turn = "gg" /\ r.ok
  /\ IF r.session = said["greeting"].session
     THEN turn' = "ggAuth" /\ wire' \in Framed(GGAuth(r.session))
     ELSE turn' = "loginAnswer" /\ wire' \in Framed(LoginFail(21))
  /\ UNCHANGED <<said, heard>>

SendCredentials == \E c \in Credentials :
  /\ Goes("ggAuth", "credentials") /\ ReadGGAuth(wire).ok
  /\ wire' \in Framed(SendRequestAuthLogin(c.login, c.password))
  /\ Means("credentials", c)
  /\ UNCHANGED heard

\* The account is looked up (module LoginRelay); a good one gets a session key.
HandleCredentials == \E show \in Licence, servers \in ServerLists, sk \in SessionKeys :
  LET r == ParseRequestAuthLogin(Body)
      Answers(p, v) == wire' \in Framed(p) /\ said' = Learns(Learns(Learns(said, "answer", v), "sk", sk), "servers", servers)
  IN
  /\ Goes("credentials", "loginAnswer")
  /\ Hears("credentials", IF r.ok THEN [login |-> r.login, password |-> r.password]
                          ELSE [login |-> <<>>, password |-> <<>>])
  /\ \/ /\ r.ok /\ show
        /\ Answers(LoginOk(sk.login1, sk.login2), [answer |-> "ok", ok1 |-> sk.login1, ok2 |-> sk.login2])
     \/ r.ok /\ ~show /\ Answers(ServerList(servers), [answer |-> "list"])
     \/ r.ok /\ Answers(AccountKicked(32), [answer |-> "kicked", reason |-> 32])
     \/ Answers(LoginFail(2), [answer |-> "fail", reason |-> 2])

ReadLoginAnswer ==
  LET r == ReadLoginOk(wire) IN
  /\ Goes("loginAnswer", IF r.answer = "ok" THEN "list" ELSE "end")
  /\ Hears("answer", r)
  /\ wire' = <<>>
  /\ UNCHANGED said

\* RequestServerList and its answer.
RequestList ==
  LET a == heard["answer"]
      r == ParseRequestServerList(Tail(SendRequestServerList(a.ok1, a.ok2)))
      servers == said["servers"] IN
  /\ Goes("list", "listed") /\ r.ok
  /\ IF r.ok1 = said["sk"].login1 /\ r.ok2 = said["sk"].login2
     THEN wire' \in Framed(ServerList(servers)) ELSE wire' \in Framed(LoginFail(21))
  /\ Means("list", [ok |-> TRUE, count |-> Len(servers),
                    last |-> IF servers = <<>> THEN 0 ELSE servers[1].id])
  /\ UNCHANGED heard

ChooseServer == \E id \in {1, 2, 255} :
  LET a == heard["answer"] IN
  /\ Goes("listed", "choice")
  /\ Hears("list", ReadServerList(wire))
  /\ wire' \in Framed(SendRequestServerLogin(a.ok1, a.ok2, id))
  /\ Means("choice", id)

HandleChoice ==
  LET r  == ParseRequestServerLogin(Body)
      sk == said["sk"]
      Known(id) == \E i \in DOMAIN said["servers"] : said["servers"][i].id = id
  IN
  /\ Goes("choice", "playAnswer") /\ r.ok
  /\ Hears("choice", r.id)
  /\ IF r.ok1 # sk.login1 \/ r.ok2 # sk.login2
     THEN wire' \in Framed(LoginFail(21)) /\ Means("playAnswer", [answer |-> "error"])
     ELSE IF Known(r.id)
     THEN /\ wire' \in Framed(PlayOk(sk.play1, sk.play2))
          /\ Means("playAnswer", [answer |-> "ok", ok1 |-> sk.play1, ok2 |-> sk.play2])
     ELSE wire' \in Framed(PlayFail(15)) /\ Means("playAnswer", [answer |-> "fail", reason |-> 15])

ReadPlayAnswer ==
  LET r == ReadPlayOk(wire) IN
  /\ Goes("playAnswer", IF r.answer = "ok" THEN "game" ELSE "end")
  /\ Hears("playAnswer", r)
  /\ wire' = <<>>
  /\ UNCHANGED said

-----------------------------------------------------------------------------
(* The client enters the game server.                                       *)

GreetPlayer ==
  /\ Goes("game", "gameKey")
  /\ wire' = KeyPacket(SubSeq(Modulus1024, 17, 32))
  /\ Means("gameKey", SubSeq(Modulus1024, 17, 32))
  /\ UNCHANGED heard

SendVersion == \E revision \in {ProtocolRevision, 39321} :
  LET r == ReadKeyPacket(wire) IN
  /\ Goes("gameKey", "version") /\ r.ok
  /\ Hears("gameKey", r.key)
  /\ wire' \in Framed(SendProtocolVersion(revision))
  /\ Means("version", revision = ProtocolRevision)

\* The program leaves the client CONNECTED; only tests set a later state (SetState).
HandleVersion == \E state \in ClientStates :
  LET r == ParseProtocolVersion(Body) IN
  /\ Goes("version", IF r.ok /\ r.valid THEN "enter" ELSE "end")
  /\ Hears("version", r.ok /\ r.valid)
  /\ wire' = <<>>
  /\ Means("state", state)

\* The client puts the key together from LoginOk and PlayOk.
Enter ==
  LET a == heard["answer"]
      b == heard["playAnswer"]
      name == said["credentials"].login IN
  /\ Goes("enter", "ticket")
  /\ wire' \in Framed(SendAuthLogin(name, SessionKey(b.ok1, b.ok2, a.ok1, a.ok2)))
  /\ Means("ticket", [account |-> name, key |-> said["sk"]])
  /\ UNCHANGED heard

\* HandlePacket of the game server: a CONNECTED client is cut off, for AuthLogin is
\* not a packet of that state; a later one is let in if the session of the account
\* has the same play pair.
HandleEnter ==
  LET r     == ParseAuthLogin(Body)
      valid == /\ r.account = heard["credentials"].login
               /\ r.key.play1 = said["sk"].play1 /\ r.key.play2 = said["sk"].play2
  IN
  /\ turn = "ticket"
  /\ wire' = <<>>
  /\ \/ /\ said["state"] = "CONNECTED"
        /\ turn' = "end" /\ UNCHANGED heard
     \/ /\ said["state"] = "AUTHENTICATED" /\ r.ok
        /\ turn' = IF valid THEN "ask" ELSE "end"
        /\ Hears("ticket", [account |-> r.account, key |-> r.key])
  /\ UNCHANGED said

\* The game server asks the login server; the key and the account are compared
\* with the session that was stored (module LoginRelay: Validate, RemoveSession).
Ask ==
  LET t == heard["ticket"] IN
  /\ Goes("ask", "request")
  /\ wire' \in GSFramed(SendPlayerAuthRequest(t.account, t.key))
  /\ Means("request", t)
  /\ UNCHANGED heard

HandleRequest ==
  LET r    == ParsePlayerAuthRequest(Body)
      good == r.account = heard["credentials"].login /\ r.key = said["sk"] IN
  /\ Goes("request", "verdict") /\ r.ok
  /\ Hears("request", [account |-> r.account, key |-> r.key])
  /\ wire' \in Framed(PlayerAuthResponse(r.account, good))
  /\ Means("verdict", [ok |-> TRUE, account |-> r.account, result |-> good])

ReadVerdict ==
  /\ Goes("verdict", "end")
  /\ Hears("verdict", ReadPlayerAuthResponse(wire))
  /\ wire' = <<>>
  /\ UNCHANGED said

\* The conversation is over, or a game server has nothing to report.  (A reader that
\* refused its packet would stop it before: a deadlock.)
Done == turn \in {"players", "end"} /\ UNCHANGED wireVars

WireNext ==
  \/ GreetGameServer \/ SendKey \/ HandleBlowFishKey \/ SendRegistration \/ HandleRegistration
  \/ ReadAnswer \/ ReportOnline \/ ReportStatus \/ ReportLeft \/ HandleReport
  \/ GreetClient \/ AnswerGreeting \/ HandleGameGuard \/ SendCredentials \/ HandleCredentials
  \/ ReadLoginAnswer \/ RequestList \/ ChooseServer \/ HandleChoice \/ ReadPlayAnswer
  \/ GreetPlayer \/ SendVersion \/ HandleVersion \/ Enter \/ HandleEnter
  \/ Ask \/ HandleRequest \/ ReadVerdict \/ Done

WireSpec == WireInit /\ [][WireNext]_wireVars

-----------------------------------------------------------------------------
(* Properties.                                                              *)

Agree(topics) == \A t \in topics \cap DOMAIN heard : heard[t] = said[t]

\* Both ends of every connection encrypt with the same key and modulus: the RSA
\* blocks keep their leading zeros, the scrambled modulus is restored.
KeysAgree == Agree({"modulus512", "bfKey", "greeting", "gameKey"})

\* What a game server registers with is what the listener files it under, and the
\* answers are what their readers take them for; of a port and a limit the sixteen
\* bits arrive, below 32768 the number itself.  (game_server_auth.go:15-16 has them as
\* uint16; the listener reads an int16, so that a higher one becomes negative.)
SameUint16(read, written) == read % 65536 = written /\ (written < 32768 => read = written)

RegistrationAgrees ==
  /\ Agree({"answer", "list", "choice", "playAnswer", "version"})
  /\ "registration" \in DOMAIN heard =>
       LET r == heard["registration"]
           g == said["registration"]
       IN  /\ r.id = g.id /\ r.alternate = g.alternate /\ r.hexID = g.hexID
           /\ SameUint16(r.maxPlayers, g.maxPlayers) /\ SameUint16(r.port, g.port)

\* A report about one player, whatever the listener takes it for, never changes what
\* the login server knows of another one.  (That it is taken for what it is, nobody
\* can claim: testutil/gsclient.go has other opcodes and layouts than the listener, and
\* its PlayerInGame arrives as a PlayerLogout.)
NoOtherPlayer ==
  \A t \in {"online", "left"} \cap DOMAIN heard :
    heard[t].report # "refused" => heard[t].accounts = said[t].accounts

\* A session key drawn by the login server comes back to it through LoginOk, PlayOk,
\* AuthLogin and PlayerAuthRequest, four packets of three programs, unchanged; and
\* the player is admitted if the name typed is the name it was stored under (in
\* lower case, without blanks, at most 14 bytes).  (In AuthLogin both programs have the
\* play pair first; docs/protocol/02-protocol-flows.md:109 has the login pair.)
KeyComesBack ==
  /\ Agree({"ticket", "request", "verdict"})
  /\ "verdict" \in DOMAIN heard =>
       (heard["verdict"].result <=> heard["credentials"].login = said["credentials"].login)

\* The servers' parsers never take a cut packet for another one: each prefix of a
\* body is refused, or read as the whole is.
SameOrRefused(cut, whole) == cut.ok => whole.ok /\ cut = whole

CutBodyNeverMisread ==
  \A n \in 0..(Len(Body) - 1) :
    LET cut == SubSeq(Body, 1, n) IN
    CASE turn = "bfKey"   -> SameOrRefused(ParseBlowFishKey(cut), ParseBlowFishKey(Body))
      [] turn = "auth"    -> SameOrRefused(ParseGameServerAuth(cut), ParseGameServerAuth(Body))
      [] turn \in {"online", "left"} ->
           /\ SameOrRefused(ParsePlayerInGame(cut), ParsePlayerInGame(Body))
           /\ SameOrRefused(ParsePlayerLogout(cut), ParsePlayerLogout(Body))
      [] turn = "status"  -> SameOrRefused(ParseServerStatus(cut), ParseServerStatus(Body))
      [] turn = "gg"      -> SameOrRefused(ParseAuthGameGuard(cut), ParseAuthGameGuard(Body))
      [] turn = "choice"  -> SameOrRefused(ParseRequestServerLogin(cut), ParseRequestServerLogin(Body))
      [] turn = "ticket"  -> SameOrRefused(ParseAuthLogin(cut), ParseAuthLogin(Body))
      [] turn = "request" -> SameOrRefused(ParsePlayerAuthRequest(cut), ParsePlayerAuthRequest(Body))
      [] OTHER            -> TRUE

\* In both conversations the keys, registrations (ports and limits as sixteen bits),
\* answers and session keys arrive as they were sent, no report is taken for one about
\* another player, and no prefix of a packet for another packet.
EachUnderstands ==
  WireTypeOK /\ KeysAgree /\ RegistrationAgrees /\ NoOtherPlayer /\ KeyComesBack /\ CutBodyNeverMisread

-----------------------------------------------------------------------------
(* What the repository says and the code does not do.                       *)

\* gameserver/handler.go:86 "Protocol version is valid, wait for AuthLogin": a client
\* that sends a version and then the key it was given has its key looked at.
GoodKeyEnters ==
  (turn = "end" /\ "ticket" \in DOMAIN said) => "ticket" \in DOMAIN heard

=============================================================================
