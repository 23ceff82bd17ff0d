------------------------------ MODULE LoginRelay ------------------------------
(***************************************************************************)
(* The path of a session key through the login server: login connections   *)
(* (internal/login) that authenticate an account and store its session,    *)
(* GameServer connections (internal/gslistener) that validate and consume  *)
(* a session for a player, and the expiry sweep of the SessionManager.     *)
(*                                                                         *)
(* One goroutine serves each connection and handles one packet at a time,  *)
(* so a connection is a slot with a step; what goroutines share is the     *)
(* accounts table in the database and the SessionManager's sync.Map, and   *)
(* each access to one of those is a step of its own.  A packet that is     *)
(* ignored, or answered without any change of state, is not a step.        *)
(*                                                                         *)
(* A session key is one value of Keys and stands for both of its pairs     *)
(* (LoginOk and PlayOk): a request that names key k presents k's pair.     *)
(* Four random int32 are taken never to repeat: a key is drawn once.       *)
(***************************************************************************)
CONSTANTS
    Clients,      \* slots for connections of players to the login server
    Relays,       \* authenticated connections of game servers
    Accounts,     \* login names, in lower case and trimmed
    Banned,       \* accounts whose row has a negative access_level
    Passwords,    \* passwords, which stand for their hashes
    Keys,         \* the session keys that can be drawn (bounds a run's logins)
    NoPassword, NoAccount, NoKey,
    ShowLicence,  \* configuration: show_licence
    AutoCreate    \* configuration: auto_create_accounts

ASSUME ConstantsAssumption ==
    /\ Banned \subseteq Accounts
    /\ NoPassword \notin Passwords
    /\ NoAccount \notin Accounts
    /\ NoKey \notin Keys
    /\ ShowLicence \in BOOLEAN
    /\ AutoCreate \in BOOLEAN

VARIABLES
    accounts,     \* accounts[a]: the password of a's row, NoPassword without a row
    sessions,     \* sessions[a]: the key in SessionManager.sessions, NoKey if absent
    cstate,       \* Client.state, and CLOSED once handleConnection returned
    step,         \* where the goroutine of a login connection is
    login,        \* the account being authenticated, then Client.account
    password,     \* the password presented for it
    key,          \* Client.sessionKey
    rstep,        \* where the goroutine of a GameServer connection is
    raccount,     \* the account of the PlayerAuthRequest being handled
    rkey,         \* its session key
    sweeping,     \* whether CleanExpired runs
    todo,         \* the accounts its Range has still to visit
    old,          \* the sessions older than ttl at the time it started
    victim        \* the account it is about to delete, NoAccount if none

\* What happened so far; no action reads these.
VARIABLES
    owner,        \* owner[k]: the account k was drawn for, NoAccount before that
    stored,       \* the keys that have been stored as sessions
    taken,        \* taken[k]: the relays that admitted a player with k
    exposed,      \* keys stored while a removal of an older session was under way
    lost          \* keys whose session was deleted by a removal meant for another

clientVars == <<cstate, step, login, password, key>>
relayVars  == <<rstep, raccount, rkey>>
sweepVars  == <<sweeping, todo, old, victim>>
history    == <<owner, stored, taken, exposed, lost>>
vars == <<accounts, sessions, clientVars, relayVars, sweepVars, history>>

Init ==
    /\ accounts \in [Accounts -> Passwords \cup {NoPassword}]
    /\ \A a \in Banned : accounts[a] # NoPassword
    /\ sessions = [a \in Accounts |-> NoKey]
    /\ cstate = [c \in Clients |-> "CLOSED"]
    /\ step = [c \in Clients |-> "read"]
    /\ login = [c \in Clients |-> NoAccount]
    /\ password = [c \in Clients |-> NoPassword]
    /\ key = [c \in Clients |-> NoKey]
    /\ rstep = [r \in Relays |-> "read"]
    /\ raccount = [r \in Relays |-> NoAccount]
    /\ rkey = [r \in Relays |-> NoKey]
    /\ sweeping = FALSE
    /\ todo = {}
    /\ old = {}
    /\ victim = NoAccount
    /\ owner = [k \in Keys |-> NoAccount]
    /\ stored = {}
    /\ taken = [k \in Keys |-> {}]
    /\ exposed = {}
    /\ lost = {}
-----------------------------------------------------------------------------
(***************************************************************************)
(* Connections of players.                                                 *)
(***************************************************************************)

\* A player connects: NewClient, the Init packet, and the packet loop starts.
Connect(c) ==
    /\ cstate[c] = "CLOSED"
    /\ cstate' = [cstate EXCEPT ![c] = "CONNECTED"]
    /\ UNCHANGED <<accounts, sessions, step, login, password, key, relayVars,
                   sweepVars, history>>

\* Connection c is in state s and reads its next packet.
Reads(c, s) == cstate[c] = s /\ step[c] = "read"

\* handleConnection returns and the Client is garbage; the SessionManager
\* keeps the session of the account.
Close(c) ==
    /\ cstate' = [cstate EXCEPT ![c] = "CLOSED"]
    /\ step' = [step EXCEPT ![c] = "read"]
    /\ login' = [login EXCEPT ![c] = NoAccount]
    /\ password' = [password EXCEPT ![c] = NoPassword]
    /\ key' = [key EXCEPT ![c] = NoKey]

\* The peer is gone, the packet cannot be decoded or is too short.
Disconnect(c) ==
    /\ cstate[c] # "CLOSED"
    /\ step[c] = "read"
    /\ Close(c)
    /\ UNCHANGED <<accounts, sessions, relayVars, sweepVars, history>>

\* The packet names the session ID of the connection or it does not.
AuthGameGuard(c, sessionIDMatches) ==
    /\ Reads(c, "CONNECTED")
    /\ IF sessionIDMatches
       THEN /\ cstate' = [cstate EXCEPT ![c] = "AUTHED_GG"]
            /\ UNCHANGED <<step, login, password, key>>
       ELSE Close(c)
    /\ UNCHANGED <<accounts, sessions, relayVars, sweepVars, history>>

\* Changed form, for the checks of the properties: the reply does not wait for the
\* session to be stored; a key that was drawn before is drawn again.
AuthenticateUnstored(c, a, p) ==
    IF accounts[a] = p /\ a \notin Banned
    THEN \E k \in Keys :
            /\ owner[k] = NoAccount
            /\ owner' = [owner EXCEPT ![k] = a]
            /\ cstate' = [cstate EXCEPT ![c] = "AUTHED_LOGIN"]
            /\ step' = [step EXCEPT ![c] = "read"]
            /\ login' = [login EXCEPT ![c] = a]
            /\ password' = [password EXCEPT ![c] = p]
            /\ key' = [key EXCEPT ![c] = k]
    ELSE Close(c) /\ UNCHANGED owner

AuthenticateRedrawing(c, a, p) ==
    IF accounts[a] = p /\ a \notin Banned
    THEN \E k \in Keys :
            /\ owner' = [owner EXCEPT ![k] = a]
            /\ cstate' = [cstate EXCEPT ![c] = "AUTHED_LOGIN"]
            /\ step' = [step EXCEPT ![c] = "store"]
            /\ login' = [login EXCEPT ![c] = a]
            /\ password' = [password EXCEPT ![c] = p]
            /\ key' = [key EXCEPT ![c] = k]
    ELSE Close(c) /\ UNCHANGED owner

\* The rest of handleRequestAuthLogin once the row of account a is in hand:
\* the checks, then the connection's new state and a key drawn for it.
Authenticate(c, a, p) ==
    IF accounts[a] = p /\ a \notin Banned
    THEN \E k \in Keys :
            /\ owner[k] = NoAccount
            /\ owner' = [owner EXCEPT ![k] = a]
            /\ cstate' = [cstate EXCEPT ![c] = "AUTHED_LOGIN"]
            /\ step' = [step EXCEPT ![c] = "store"]
            /\ login' = [login EXCEPT ![c] = a]
            /\ password' = [password EXCEPT ![c] = p]
            /\ key' = [key EXCEPT ![c] = k]
    ELSE Close(c) /\ UNCHANGED owner

\* handleRequestAuthLogin up to the row that GetAccount returned.
RequestAuthLogin(c, a, p) ==
    /\ Reads(c, "AUTHED_GG")
    /\ IF accounts[a] # NoPassword
       THEN Authenticate(c, a, p)
       ELSE /\ UNCHANGED owner
            /\ IF AutoCreate
               THEN /\ step' = [step EXCEPT ![c] = "create"]
                    /\ login' = [login EXCEPT ![c] = a]
                    /\ password' = [password EXCEPT ![c] = p]
                    /\ UNCHANGED <<cstate, key>>
               ELSE Close(c)
    /\ UNCHANGED <<accounts, sessions, relayVars, sweepVars, stored, taken,
                   exposed, lost>>

\* Changed form, for the checks of the properties: the columns are swapped; an
\* existing row is overwritten (ON CONFLICT DO UPDATE).
InsertAccountSwapped(c) ==
    /\ step[c] = "create"
    /\ accounts' = [accounts EXCEPT ![login[c]] = login[c]]
    /\ step' = [step EXCEPT ![c] = "reread"]
    /\ UNCHANGED <<sessions, cstate, login, password, key, relayVars,
                   sweepVars, history>>

InsertAccountOverwriting(c) ==
    /\ step[c] = "create"
    /\ accounts' = [accounts EXCEPT ![login[c]] = password[c]]
    /\ step' = [step EXCEPT ![c] = "reread"]
    /\ UNCHANGED <<sessions, cstate, login, password, key, relayVars,
                   sweepVars, history>>

\* GetOrCreateAccount: INSERT ... ON CONFLICT DO NOTHING.
InsertAccount(c) ==
    /\ step[c] = "create"
    /\ accounts' = [accounts EXCEPT ![login[c]] =
                        IF @ = NoPassword THEN password[c] ELSE @]
    /\ step' = [step EXCEPT ![c] = "reread"]
    /\ UNCHANGED <<sessions, cstate, login, password, key, relayVars,
                   sweepVars, history>>

\* GetOrCreateAccount: reads the row back, whoever inserted it.
RereadAccount(c) ==
    /\ step[c] = "reread"
    /\ Authenticate(c, login[c], password[c])
    /\ UNCHANGED <<accounts, sessions, relayVars, sweepVars, stored, taken,
                   exposed, lost>>

\* A query fails: LoginFail(SYSTEM_ERROR) and the connection is closed.
DatabaseError(c) ==
    /\ step[c] \in {"create", "reread"} \/ Reads(c, "AUTHED_GG")
    /\ Close(c)
    /\ UNCHANGED <<accounts, sessions, relayVars, sweepVars, history>>

\* A removal of account a's session is decided and not yet done.
RemovalPending(a) ==
    \/ \E r \in Relays : rstep[r] = "remove" /\ raccount[r] = a
    \/ victim = a

\* SessionManager.Store, then the reply, which is written or fails.
StoreSession(c) ==
    /\ step[c] = "store"
    /\ sessions' = [sessions EXCEPT ![login[c]] = key[c]]
    /\ stored' = stored \cup {key[c]}
    /\ exposed' = IF RemovalPending(login[c]) THEN exposed \cup {key[c]} ELSE exposed
    /\ \/ /\ step' = [step EXCEPT ![c] = "read"]
          /\ UNCHANGED <<cstate, login, password, key>>
       \/ Close(c)
    /\ UNCHANGED <<accounts, relayVars, sweepVars, owner, taken, lost>>

\* RequestServerList presents the LoginOk pair of key k.
RequestServerList(c, k) ==
    /\ Reads(c, "AUTHED_LOGIN")
    /\ k # key[c]
    /\ Close(c)
    /\ UNCHANGED <<accounts, sessions, relayVars, sweepVars, history>>

\* RequestServerLogin checks the LoginOk pair only when it was handed out.
RequestServerLogin(c, k) ==
    /\ Reads(c, "AUTHED_LOGIN")
    /\ ShowLicence /\ k # key[c]
    /\ Close(c)
    /\ UNCHANGED <<accounts, sessions, relayVars, sweepVars, history>>
-----------------------------------------------------------------------------
(***************************************************************************)
(* Connections of game servers.                                            *)
(***************************************************************************)

\* Changed form, for the checks of the properties: any session of the account will do.
ValidateAny(a, k) == sessions[a] # NoKey

\* SessionManager.Validate with showLicence=false: the PlayOk pair alone.
Validate(a, k) == sessions[a] = k

\* handlePlayerAuthRequest: Validate.  If it fails the answer is "no" and
\* nothing changes.
PlayerAuthRequest(r, a, k) ==
    /\ rstep[r] = "read"
    /\ Validate(a, k)
    /\ rstep' = [rstep EXCEPT ![r] = "remove"]
    /\ raccount' = [raccount EXCEPT ![r] = a]
    /\ rkey' = [rkey EXCEPT ![r] = k]
    /\ UNCHANGED <<accounts, sessions, clientVars, sweepVars, history>>

\* Changed form, for the checks of the properties: the session is not removed.
RemoveNothing(r) ==
    /\ rstep[r] = "remove"
    /\ taken' = [taken EXCEPT ![rkey[r]] = @ \cup {r}]
    /\ rstep' = [rstep EXCEPT ![r] = "read"]
    /\ raccount' = [raccount EXCEPT ![r] = NoAccount]
    /\ rkey' = [rkey EXCEPT ![r] = NoKey]
    /\ UNCHANGED <<accounts, sessions, clientVars, sweepVars, owner, stored,
                   exposed, lost>>

\* handlePlayerAuthRequest: Remove, which deletes whatever the account has
\* by now, then the answer "yes".
RemoveSession(r) ==
    /\ rstep[r] = "remove"
    /\ sessions' = [sessions EXCEPT ![raccount[r]] = NoKey]
    /\ taken' = [taken EXCEPT ![rkey[r]] = @ \cup {r}]
    /\ lost' = lost \cup ({sessions[raccount[r]]} \ {rkey[r], NoKey})
    /\ rstep' = [rstep EXCEPT ![r] = "read"]
    /\ raccount' = [raccount EXCEPT ![r] = NoAccount]
    /\ rkey' = [rkey EXCEPT ![r] = NoKey]
    /\ UNCHANGED <<accounts, clientVars, sweepVars, owner, stored, exposed>>
-----------------------------------------------------------------------------
(***************************************************************************)
(* SessionManager.CleanExpired.                                            *)
(***************************************************************************)

\* now is read once; which sessions are older than ttl then is any set.
StartSweep(expired) ==
    /\ ~sweeping
    /\ expired \subseteq {sessions[a] : a \in Accounts} \ {NoKey}
    /\ sweeping' = TRUE
    /\ todo' = Accounts
    /\ old' = expired
    /\ UNCHANGED <<accounts, sessions, clientVars, relayVars, victim, history>>

\* Changed form, for the checks of the properties: the age is not compared.
VisitAnySession(a) ==
    /\ sweeping /\ victim = NoAccount
    /\ a \in todo
    /\ todo' = todo \ {a}
    /\ victim' = IF sessions[a] # NoKey THEN a ELSE NoAccount
    /\ UNCHANGED <<accounts, sessions, clientVars, relayVars, sweeping, old, history>>

\* Range visits an account and sees the session it has at this moment.
VisitSession(a) ==
    /\ sweeping /\ victim = NoAccount
    /\ a \in todo
    /\ todo' = todo \ {a}
    /\ victim' = IF sessions[a] \in old THEN a ELSE NoAccount
    /\ UNCHANGED <<accounts, sessions, clientVars, relayVars, sweeping, old, history>>

\* Delete(account), whatever session the account has by now.
DeleteExpired ==
    /\ victim # NoAccount
    /\ sessions' = [sessions EXCEPT ![victim] = NoKey]
    /\ lost' = lost \cup ({sessions[victim]} \ (old \cup {NoKey}))
    /\ victim' = NoAccount
    /\ UNCHANGED <<accounts, clientVars, relayVars, sweeping, todo, old, owner,
                   stored, taken, exposed>>

EndSweep ==
    /\ sweeping /\ victim = NoAccount /\ todo = {}
    /\ sweeping' = FALSE
    /\ old' = {}
    /\ UNCHANGED <<accounts, sessions, clientVars, relayVars, todo, victim, history>>
-----------------------------------------------------------------------------
ClientNext(c) ==
    \/ Connect(c)
    \/ Disconnect(c)
    \/ \E matches \in BOOLEAN : AuthGameGuard(c, matches)
    \/ \E a \in Accounts, p \in Passwords : RequestAuthLogin(c, a, p)
    \/ InsertAccount(c)
    \/ RereadAccount(c)
    \/ DatabaseError(c)
    \/ StoreSession(c)
    \/ \E k \in Keys : RequestServerList(c, k)
    \/ \E k \in Keys : RequestServerLogin(c, k)

RelayNext(r) ==
    \/ \E a \in Accounts, k \in Keys : PlayerAuthRequest(r, a, k)
    \/ RemoveSession(r)

SweepNext ==
    \/ \E expired \in SUBSET Keys : StartSweep(expired)
    \/ \E a \in Accounts : VisitSession(a)
    \/ DeleteExpired
    \/ EndSweep

Next ==
    \/ \E c \in Clients : ClientNext(c)
    \/ \E r \in Relays : RelayNext(r)
    \/ SweepNext

\* A goroutine inside a handler is scheduled again: no handler waits for a
\* peer between its steps.  Players, game servers and sweeps may never come.
Fairness ==
    /\ \A r \in Relays : WF_vars(RemoveSession(r))
    /\ \A c \in Clients : WF_vars(StoreSession(c))

Spec == Init /\ [][Next]_vars /\ Fairness
-----------------------------------------------------------------------------
TypeOK ==
    /\ accounts \in [Accounts -> Passwords \cup {NoPassword}]
    /\ sessions \in [Accounts -> Keys \cup {NoKey}]
    /\ cstate \in [Clients -> {"CONNECTED", "AUTHED_GG", "AUTHED_LOGIN", "CLOSED"}]
    /\ step \in [Clients -> {"read", "create", "reread", "store"}]
    /\ login \in [Clients -> Accounts \cup {NoAccount}]
    /\ password \in [Clients -> Passwords \cup {NoPassword}]
    /\ key \in [Clients -> Keys \cup {NoKey}]
    /\ rstep \in [Relays -> {"read", "remove"}]
    /\ raccount \in [Relays -> Accounts \cup {NoAccount}]
    /\ rkey \in [Relays -> Keys \cup {NoKey}]
    /\ sweeping \in BOOLEAN
    /\ todo \subseteq Accounts
    /\ old \subseteq Keys
    /\ victim \in Accounts \cup {NoAccount}
    /\ owner \in [Keys -> Accounts \cup {NoAccount}]
    /\ stored \subseteq Keys
    /\ taken \in [Keys -> SUBSET Relays]
    /\ exposed \subseteq Keys
    /\ lost \subseteq Keys

\* A connection in state AUTHED_LOGIN presented the password that is in the
\* account's row, and the account is not banned: also when several
\* connections with different passwords race to create the account.
AuthenticatedByPassword ==
    \A c \in Clients :
        cstate[c] = "AUTHED_LOGIN" =>
            accounts[login[c]] = password[c] /\ login[c] \notin Banned

\* A key a player can be told about (the reply to RequestAuthLogin and
\* PlayOk are only written by a connection that reads packets again) has
\* already been stored: a game server that asks is never too early.
HandedOutKeyWasStored ==
    \A c \in Clients :
        cstate[c] = "AUTHED_LOGIN" /\ step[c] = "read" => key[c] \in stored

\* Once a game server admitted a player with key k no session has key k any
\* more, whatever logins, sweeps and other game servers do afterwards: no
\* later PlayerAuthRequest can succeed with it.
SpentKeyStaysSpent ==
    \A k \in Keys : taken[k] # {} => \A a \in Accounts : sessions[a] # k

\* A game server that is about to be told "yes" about a key was never told
\* so before: a key admits at most one player per GameServer connection.
NoSecondAdmission ==
    \A r \in Relays : rstep[r] = "remove" => r \notin taken[rkey[r]]

\* A session that disappears although no game server asked for it, no newer
\* login replaced it and it had not expired was stored while the removal of
\* an older session of the account was under way, and in no other case.
LostOnlyInRace == lost \subseteq exposed

\* A key that a game server was told is valid stops being a session.
AdmittedKeyDies ==
    \A k \in Keys :
        (\E r \in Relays : rstep[r] = "remove" /\ rkey[r] = k)
            ~> (\A a \in Accounts : sessions[a] # k)

\* "Only ONE should succeed (first validates and removes session)": a key
\* admits a player on one GameServer connection only.
OneAdmissionPerKey ==
    \A k \in Keys : \A r, s \in taken[k] : r = s

\* The login server implements the ticket service: a ticket is granted when
\* Validate succeeds.
Granted ==
    {k \in Keys : taken[k] # {} \/ \E r \in Relays : rstep[r] = "remove" /\ rkey[r] = k}

Tickets == INSTANCE TicketService
    WITH issued <- stored, live <- sessions,
         granted <- {<<owner[k], k>> : k \in Granted}

TicketSpec == Tickets!Spec
=============================================================================
