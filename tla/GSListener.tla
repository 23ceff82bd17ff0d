------------------------------ MODULE GSListener ------------------------------
(***************************************************************************)
(* The login server's listener for game servers (internal/gslistener): one *)
(* goroutine per connection runs the state machine CONNECTED,              *)
(* BF_CONNECTED, AUTHED and shares with the others the table of game       *)
(* servers and the infos in it.  The table has a mutex of its own, an info *)
(* another one; nothing is held across two of their methods, so each call  *)
(* of a handler that others can observe is a step.                         *)
(*                                                                         *)
(* An id that is registered stays registered, and the secret of an info    *)
(* never changes, so GetByID, HexID and IsAuthed are read in one step.     *)
(* PlayerAuthRequest is in LoginRelay.                                     *)
(***************************************************************************)
EXTENDS GameServerTable

CONSTANTS
    Conns,        \* slots for connections of game servers
    RequestIds,   \* the ids that game servers ask for
    MaxAlternate, \* the largest id given to a server that accepts another one
    Accounts      \* accounts of players

ASSUME ListenerAssumption ==
    /\ RequestIds \subseteq Ids
    /\ MaxAlternate \in 1 .. (2 * WordBits - 1)

VARIABLES
    gstate,       \* GSConnection.state, and CLOSED once handleConnection returned
    gstep,        \* where the goroutine of the connection is
    asked,        \* the id being registered, 0 if none
    secret,       \* the hexID that the connection presented
    target,       \* the info being finalized, then GSConnection.info
    online,       \* GSConnection.accounts
    authed,       \* GameServerInfo.isAuthed
    reachable,    \* whether GameServerInfo.port is that of a server, not 0
    status        \* GameServerInfo.status: "auto" (0), "down" or "other"

\* Infos that a connection was let through to while another was between the
\* check of IsAuthed and SetAuthed(true).  No action reads this.
VARIABLE contested

connVars == <<gstate, gstep, asked, secret, target, online>>
infoVars == <<authed, reachable, status>>
gsVars == <<tableVars, connVars, infoVars, contested>>

GSInit ==
    /\ TableInit
    /\ gstate = [g \in Conns |-> "CLOSED"]
    /\ gstep = [g \in Conns |-> "read"]
    /\ asked = [g \in Conns |-> 0]
    /\ secret = [g \in Conns |-> NoHex]
    /\ target = [g \in Conns |-> NoInfo]
    /\ online = [g \in Conns |-> {}]
    /\ authed = [i \in Infos |-> FALSE]
    /\ reachable = [i \in Infos |-> FALSE]
    /\ status = [i \in Infos |-> "auto"]
    /\ contested = {}
-----------------------------------------------------------------------------
\* Connection g is in state s and reads its next packet.
Reads(g, s) == gstate[g] = s /\ gstep[g] = "read"

\* NewGSConnection and the InitLS packet.
Connect(g) ==
    /\ gstate[g] = "CLOSED"
    /\ gstate' = [gstate EXCEPT ![g] = "CONNECTED"]
    /\ UNCHANGED <<tableVars, gstep, asked, secret, target, online, infoVars, contested>>

\* The key arrived and decrypts to a Blowfish key.
BlowFishKey(g) ==
    /\ Reads(g, "CONNECTED")
    /\ gstate' = [gstate EXCEPT ![g] = "BF_CONNECTED"]
    /\ UNCHANGED <<tableVars, gstep, asked, secret, target, online, infoVars, contested>>

\* The packet loop ends: the peer is gone, a packet is malformed or not
\* expected in this state, the reply cannot be written, or the listener
\* shuts down.  cleanup has not run yet.
Drop(g) ==
    /\ gstate[g] # "CLOSED" /\ gstep[g] = "read"
    /\ gstep' = [gstep EXCEPT ![g] = "cleanup"]
    /\ UNCHANGED <<tableVars, gstate, asked, secret, target, online, infoVars, contested>>

\* Changed form, for the checks of the properties: isAuthed survives.
SetDownKeepingAuthed(i) ==
    /\ reachable' = [reachable EXCEPT ![i] = FALSE]
    /\ status' = [status EXCEPT ![i] = "down"]
    /\ UNCHANGED authed

SetDown(i) ==
    /\ authed' = [authed EXCEPT ![i] = FALSE]
    /\ reachable' = [reachable EXCEPT ![i] = FALSE]
    /\ status' = [status EXCEPT ![i] = "down"]

\* cleanup: SetDown on the attached info, if there is one.
Cleanup(g) ==
    /\ gstep[g] = "cleanup"
    /\ IF target[g] # NoInfo THEN SetDown(target[g]) ELSE UNCHANGED infoVars
    /\ gstate' = [gstate EXCEPT ![g] = "CLOSED"]
    /\ gstep' = [gstep EXCEPT ![g] = "read"]
    /\ secret' = [secret EXCEPT ![g] = NoHex]
    /\ target' = [target EXCEPT ![g] = NoInfo]
    /\ online' = [online EXCEPT ![g] = {}]
    /\ UNCHANGED <<tableVars, asked, contested>>
-----------------------------------------------------------------------------
(***************************************************************************)
(* handleGameServerAuth.                                                   *)
(***************************************************************************)

\* LoginServerFail, and the packet loop ends.
Refuse(g) ==
    /\ gstep' = [gstep EXCEPT ![g] = "cleanup"]
    /\ UNCHANGED <<target, contested>>

\* finalizeRegistration is called with info i.
Finalize(g, i) ==
    /\ gstep' = [gstep EXCEPT ![g] = "port"]
    /\ target' = [target EXCEPT ![g] = i]
    /\ contested' = IF \E o \in Conns : gstep[o] \in {"port", "authed"} /\ target[o] = i
                    THEN contested \cup {i} ELSE contested

\* Changed form, for the checks of the properties: the check of IsAuthed is missing.
ReclaimAlways(g, i) == Finalize(g, i)

\* The id is registered with the secret of the packet.
Reclaim(g, i) == IF authed[i] THEN Refuse(g) ELSE Finalize(g, i)

\* The id is registered with another secret: take the first free id, if the
\* packet allows it and there is one.
Alternate(g, h, acceptAlternate) ==
    \/ /\ acceptAlternate
       /\ \E i \in Infos : /\ RegisterWithFirstAvailableID(MaxAlternate, i, h)
                           /\ Finalize(g, i)
    \/ /\ acceptAlternate => FirstAvailableID(MaxAlternate) = 0
       /\ Refuse(g)
       /\ UNCHANGED tableVars

\* The handler up to its decision about the id.
GameServerAuth(g, id, h, acceptAlternate) ==
    LET i == servers[id]
    IN  /\ Reads(g, "BF_CONNECTED")
        /\ \/ i # NoInfo /\ hexId[i] = h /\ Reclaim(g, i) /\ UNCHANGED <<tableVars, asked>>
           \/ /\ i # NoInfo /\ hexId[i] # h
              /\ Alternate(g, h, acceptAlternate)
              /\ UNCHANGED asked
           \/ /\ i = NoInfo
              /\ gstep' = [gstep EXCEPT ![g] = "register"]
              /\ asked' = [asked EXCEPT ![g] = id]
              /\ UNCHANGED <<tableVars, target, contested>>
        /\ secret' = [secret EXCEPT ![g] = h]
        /\ UNCHANGED <<gstate, online, infoVars>>

\* The id was not in the table: Register, which fails if it is by now.
RegisterNew(g) ==
    /\ gstep[g] = "register"
    /\ \/ \E i \in Infos : Register(asked[g], i, secret[g]) /\ Finalize(g, i)
       \/ servers[asked[g]] # NoInfo /\ Refuse(g) /\ UNCHANGED tableVars
    /\ asked' = [asked EXCEPT ![g] = 0]
    /\ UNCHANGED <<gstate, secret, online, infoVars>>

\* finalizeRegistration: SetPort, SetMaxPlayers, SetHosts.
FinalizePort(g) ==
    /\ gstep[g] = "port"
    /\ reachable' = [reachable EXCEPT ![target[g]] = TRUE]
    /\ gstep' = [gstep EXCEPT ![g] = "authed"]
    /\ UNCHANGED <<tableVars, gstate, asked, secret, target, online, authed,
                   status, contested>>

FinalizeAuthedUnmarked(g) ==
    /\ gstep[g] = "authed"
    /\ gstate' = [gstate EXCEPT ![g] = "AUTHED"]
    /\ gstep' = [gstep EXCEPT ![g] = "read"]
    /\ UNCHANGED <<tableVars, asked, secret, target, online, infoVars, contested>>

\* finalizeRegistration: SetAuthed(true), the info is attached, AUTHED.  The
\* status stays what it was.
FinalizeAuthed(g) ==
    /\ gstep[g] = "authed"
    /\ authed' = [authed EXCEPT ![target[g]] = TRUE]
    /\ gstate' = [gstate EXCEPT ![g] = "AUTHED"]
    /\ gstep' = [gstep EXCEPT ![g] = "read"]
    /\ UNCHANGED <<tableVars, asked, secret, target, online, reachable, status,
                   contested>>
-----------------------------------------------------------------------------
PlayerInGame(g, players) ==
    /\ Reads(g, "AUTHED")
    /\ online' = [online EXCEPT ![g] = @ \cup players]
    /\ UNCHANGED <<tableVars, gstate, gstep, asked, secret, target, infoVars, contested>>

PlayerLogout(g, a) ==
    /\ Reads(g, "AUTHED")
    /\ online' = [online EXCEPT ![g] = @ \ {a}]
    /\ UNCHANGED <<tableVars, gstate, gstep, asked, secret, target, infoVars, contested>>

\* The status attribute of a ServerStatus packet; the code stores the others
\* and reads none of them.
ServerStatus(g, s) ==
    /\ Reads(g, "AUTHED")
    /\ status' = [status EXCEPT ![target[g]] = s]
    /\ UNCHANGED <<tableVars, connVars, authed, reachable, contested>>
-----------------------------------------------------------------------------
ConnNext(g) ==
    \/ Connect(g)
    \/ BlowFishKey(g)
    \/ Drop(g)
    \/ Cleanup(g)
    \/ \E id \in RequestIds, h \in HexIds, alt \in BOOLEAN : GameServerAuth(g, id, h, alt)
    \/ RegisterNew(g)
    \/ FinalizePort(g)
    \/ FinalizeAuthed(g)
    \/ \E players \in SUBSET Accounts : PlayerInGame(g, players)
    \/ \E a \in Accounts : PlayerLogout(g, a)
    \/ \E s \in {"auto", "down", "other"} : ServerStatus(g, s)

GSNext == \E g \in Conns : ConnNext(g)

GSSpec == GSInit /\ [][GSNext]_gsVars
-----------------------------------------------------------------------------
GSTypeOK ==
    /\ TableTypeOK
    /\ gstate \in [Conns -> {"CLOSED", "CONNECTED", "BF_CONNECTED", "AUTHED"}]
    /\ gstep \in [Conns -> {"read", "register", "port", "authed", "cleanup"}]
    /\ asked \in [Conns -> Ids]
    /\ secret \in [Conns -> HexIds \cup {NoHex}]
    /\ target \in [Conns -> Infos \cup {NoInfo}]
    /\ online \in [Conns -> SUBSET Accounts]
    /\ authed \in [Infos -> BOOLEAN]
    /\ reachable \in [Infos -> BOOLEAN]
    /\ status \in [Infos -> {"auto", "down", "other"}]
    /\ contested \subseteq Infos
    /\ \A g \in Conns : gstate[g] = "AUTHED" => target[g] # NoInfo

\* A connection that was told its id (AuthResponse) holds the info that the
\* table has under that id, and that info has the secret the connection
\* presented: through races of registrations for one id, of requests for
\* alternate ids, and reconnections.  So no two servers share an id unless
\* they share the secret.
OwnsItsId ==
    \A g \in Conns :
        target[g] # NoInfo => /\ servers[infoId[target[g]]] = target[g]
                              /\ hexId[target[g]] = secret[g]

\* Two connections of the same server exist only if both passed the check of
\* IsAuthed before either had set it; every other order of connections,
\* drops and reconnections leaves one.
SoleOwnerUnlessContested ==
    \A g, o \in Conns :
        target[g] # NoInfo /\ target[g] = target[o] /\ g # o => target[g] \in contested

\* While a server has an authenticated connection, its info says so and has
\* its port, even if an older connection of it is still being cleaned up.
UpWhileOwned ==
    \A g \in Conns :
        gstate[g] = "AUTHED" /\ target[g] \notin contested =>
            authed[target[g]] /\ reachable[target[g]]

\* An info that is marked authenticated has a connection that will mark it
\* down again: a server that crashed is never locked out of its own id by
\* ReasonAlreadyLoggedIn for good.  Races do not change that.
NoOrphanedServer ==
    \A i \in Infos : authed[i] => \E g \in Conns : gstate[g] = "AUTHED" /\ target[g] = i

\* No handler ever takes a registered id away from the info that has it.
NeverDisplaced ==
    [][\A id \in Ids : servers[id] # NoInfo => servers'[id] = servers[id]]_gsVars

-----------------------------------------------------------------------------
\* What the table, the infos and the connections amount to: the secret that
\* owns an id, the id and the secret of the connections that were told theirs,
\* the ids that were raced for.
Told   == {g \in Conns : gstate[g] = "AUTHED"}
Owner  == [id \in Ids |-> IF servers[id] = NoInfo THEN NoHex ELSE hexId[servers[id]]]
Serves == [g \in Conns |-> IF g \in Told THEN infoId[target[g]] ELSE -1]
Shown  == [g \in Conns |-> IF g \in Told THEN secret[g] ELSE NoHex]
Raced  == {infoId[i] : i \in contested}

Registry == INSTANCE ServerRegistry WITH
    owner <- Owner, serves <- Serves, shown <- Shown, raced <- Raced

\* The listener implements the registry: whatever the order of its handlers'
\* steps, an id stays with the secret that claimed it, and only a connection
\* that showed this secret is told the id, while nobody else serves it.
RegistrySpec == Registry!Spec

\* "Should receive ReasonAlreadyLoggedIn": a server has one authenticated
\* connection.
OneConnectionPerServer ==
    \A g, o \in Conns :
        gstate[g] = "AUTHED" /\ gstate[o] = "AUTHED" /\ target[g] = target[o] => g = o
=============================================================================
