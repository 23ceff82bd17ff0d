--------------------------- MODULE LoginRelayProofs ---------------------------
(***************************************************************************)
(* Proofs about LoginRelay: type correctness, the inductive invariant that *)
(* carries its safety invariants, and that it implements TicketService.    *)
(***************************************************************************)
EXTENDS LoginRelay, TLAPS

\* What a connection in the middle of handleRequestAuthLogin holds.
LoginOK ==
    \A c \in Clients :
        /\ step[c] \in {"create", "reread"} =>
              cstate[c] = "AUTHED_GG" /\ login[c] \in Accounts /\ password[c] \in Passwords
        /\ step[c] = "store" => cstate[c] = "AUTHED_LOGIN"
        /\ cstate[c] = "AUTHED_LOGIN" =>
              /\ login[c] \in Accounts \ Banned
              /\ password[c] \in Passwords
              /\ accounts[login[c]] = password[c]
              /\ key[c] \in Keys
              /\ owner[key[c]] = login[c]
              /\ step[c] = "read" => key[c] \in stored
              /\ step[c] = "store" => key[c] \notin stored

\* A key that is drawn and not yet stored is held by one connection.
DrawnOnce ==
    \A c, d \in Clients :
        step[c] = "store" /\ step[d] = "store" /\ key[c] = key[d] => c = d

\* Sessions, stored keys and keys that admitted somebody.
SessionsOK ==
    /\ \A a \in Accounts :
          sessions[a] # NoKey => sessions[a] \in stored /\ owner[sessions[a]] = a
    /\ \A k \in stored : owner[k] # NoAccount
    /\ \A k \in Keys : taken[k] # {} => k \in stored

\* What a GameServer connection holds between Validate and Remove.
RelayOK ==
    \A r \in Relays :
        rstep[r] = "remove" =>
            /\ raccount[r] \in Accounts
            /\ rkey[r] \in stored
            /\ owner[rkey[r]] = raccount[r]
            /\ r \notin taken[rkey[r]]

\* A pending removal hits the session it was decided for, none, or one that
\* was stored since.
RemovalOK ==
    /\ \A r \in Relays :
          rstep[r] = "remove" =>
              sessions[raccount[r]] \in {rkey[r], NoKey} \cup exposed
    /\ victim # NoAccount => sweeping /\ sessions[victim] \in old \cup {NoKey} \cup exposed

IInv ==
    /\ TypeOK
    /\ LoginOK
    /\ DrawnOnce
    /\ SessionsOK
    /\ SpentKeyStaysSpent
    /\ RelayOK
    /\ RemovalOK
    /\ LostOnlyInRace
-----------------------------------------------------------------------------
LEMMA InitInv == Init => IInv
<1> SUFFICES ASSUME Init PROVE IInv
  OBVIOUS
<1> USE ConstantsAssumption DEF Init
<1>1. TypeOK
  BY DEF TypeOK
<1>2. LoginOK
  BY DEF LoginOK
<1>3. DrawnOnce
  BY DEF DrawnOnce
<1>4. SessionsOK
  BY DEF SessionsOK
<1>5. SpentKeyStaysSpent
  BY DEF SpentKeyStaysSpent
<1>6. RelayOK
  BY DEF RelayOK
<1>7. RemovalOK
  BY DEF RemovalOK
<1>8. LostOnlyInRace
  BY DEF LostOnlyInRace
<1>9. QED
  BY <1>1, <1>2, <1>3, <1>4, <1>5, <1>6, <1>7, <1>8 DEF IInv

\* The types of a connection's variables, and that closing it keeps them.
ConnTypes ==
    /\ cstate \in [Clients -> {"CONNECTED", "AUTHED_GG", "AUTHED_LOGIN", "CLOSED"}]
    /\ step \in [Clients -> {"read", "create", "reread", "store"}]
    /\ login \in [Clients -> Accounts \cup {NoAccount}]
    /\ password \in [Clients -> Passwords \cup {NoPassword}]
    /\ key \in [Clients -> Keys \cup {NoKey}]

LEMMA CloseTypes ==
    ASSUME ConnTypes, NEW c \in Clients, Close(c)
    PROVE  ConnTypes'
BY DEF ConnTypes, Close

LEMMA NextInv == IInv /\ [Next]_vars => IInv'
<1> SUFFICES ASSUME IInv, [Next]_vars PROVE IInv'
  OBVIOUS
<1> USE ConstantsAssumption
    DEF IInv, TypeOK, LoginOK, DrawnOnce, SessionsOK, SpentKeyStaysSpent,
        RelayOK, RemovalOK, LostOnlyInRace, clientVars, relayVars, sweepVars,
        history
<1>1. ASSUME NEW c \in Clients, Connect(c) PROVE IInv'
  BY <1>1 DEF Connect
<1>2. ASSUME NEW c \in Clients, Disconnect(c) PROVE IInv'
  BY <1>2 DEF Disconnect, Close
<1>3. ASSUME NEW c \in Clients, NEW m \in BOOLEAN, AuthGameGuard(c, m) PROVE IInv'
  BY <1>3 DEF AuthGameGuard, Reads, Close
<1>4. ASSUME NEW c \in Clients, NEW a \in Accounts, NEW p \in Passwords,
             RequestAuthLogin(c, a, p)
      PROVE IInv'
  <2>1. TypeOK'
    <3>1. CASE accounts[a] # NoPassword
      <4>1. CASE accounts[a] = p /\ a \notin Banned
        <5>1. PICK k \in Keys :
                 /\ owner' = [owner EXCEPT ![k] = a]
                 /\ cstate' = [cstate EXCEPT ![c] = "AUTHED_LOGIN"]
                 /\ step' = [step EXCEPT ![c] = "store"]
                 /\ login' = [login EXCEPT ![c] = a]
                 /\ password' = [password EXCEPT ![c] = p]
                 /\ key' = [key EXCEPT ![c] = k]
          BY <1>4, <3>1, <4>1 DEF RequestAuthLogin, Authenticate
        <5>2. QED
          BY <1>4, <5>1 DEF RequestAuthLogin
      <4>2. CASE ~(accounts[a] = p /\ a \notin Banned)
        <5>1. Close(c) /\ UNCHANGED owner
          BY <1>4, <3>1, <4>2 DEF RequestAuthLogin, Authenticate
        <5>2. QED
          BY <1>4, <5>1 DEF RequestAuthLogin, Close
      <4>3. QED
        BY <4>1, <4>2
    <3>2. CASE accounts[a] = NoPassword
      <4>1. CASE AutoCreate
        BY <1>4, <3>2, <4>1 DEF RequestAuthLogin
      <4>2. CASE ~ AutoCreate
        BY <1>4, <3>2, <4>2, CloseTypes DEF RequestAuthLogin, ConnTypes
      <4>3. QED
        BY <4>1, <4>2
    <3>3. QED
      BY <3>1, <3>2
  <2>2. LoginOK'
    BY <1>4 DEF RequestAuthLogin, Authenticate, Reads, Close
  <2>3. DrawnOnce'
    BY <1>4 DEF RequestAuthLogin, Authenticate, Reads, Close
  <2>4. SessionsOK'
    BY <1>4 DEF RequestAuthLogin, Authenticate, Reads, Close
  <2>5. SpentKeyStaysSpent'
    BY <1>4 DEF RequestAuthLogin, Authenticate, Reads, Close
  <2>6. RelayOK'
    BY <1>4 DEF RequestAuthLogin, Authenticate, Reads, Close
  <2>7. RemovalOK'
    BY <1>4 DEF RequestAuthLogin, Authenticate, Reads, Close
  <2>8. LostOnlyInRace'
    BY <1>4 DEF RequestAuthLogin, Authenticate, Reads, Close
  <2>9. QED
    BY <2>1, <2>2, <2>3, <2>4, <2>5, <2>6, <2>7, <2>8
<1>5. ASSUME NEW c \in Clients, InsertAccount(c) PROVE IInv'
  <2>1. TypeOK'
    BY <1>5 DEF InsertAccount
  <2>2. LoginOK'
    BY <1>5 DEF InsertAccount
  <2>3. DrawnOnce'
    BY <1>5 DEF InsertAccount
  <2>4. SessionsOK'
    BY <1>5 DEF InsertAccount
  <2>5. SpentKeyStaysSpent'
    BY <1>5 DEF InsertAccount
  <2>6. RelayOK'
    BY <1>5 DEF InsertAccount
  <2>7. RemovalOK'
    BY <1>5 DEF InsertAccount
  <2>8. LostOnlyInRace'
    BY <1>5 DEF InsertAccount
  <2>9. QED
    BY <2>1, <2>2, <2>3, <2>4, <2>5, <2>6, <2>7, <2>8
<1>6. ASSUME NEW c \in Clients, RereadAccount(c) PROVE IInv'
  <2>1. TypeOK'
    <3>1. CASE accounts[login[c]] = password[c] /\ login[c] \notin Banned
      <4>1. PICK k \in Keys :
               /\ owner' = [owner EXCEPT ![k] = login[c]]
               /\ cstate' = [cstate EXCEPT ![c] = "AUTHED_LOGIN"]
               /\ step' = [step EXCEPT ![c] = "store"]
               /\ login' = [login EXCEPT ![c] = login[c]]
               /\ password' = [password EXCEPT ![c] = password[c]]
               /\ key' = [key EXCEPT ![c] = k]
        BY <1>6, <3>1 DEF RereadAccount, Authenticate
      <4>2. QED
        BY <1>6, <4>1 DEF RereadAccount
    <3>2. CASE ~(accounts[login[c]] = password[c] /\ login[c] \notin Banned)
      BY <1>6, <3>2, CloseTypes DEF RereadAccount, Authenticate, ConnTypes
    <3>3. QED
      BY <3>1, <3>2
  <2>2. LoginOK'
    BY <1>6 DEF RereadAccount, Authenticate, Close
  <2>3. DrawnOnce'
    BY <1>6 DEF RereadAccount, Authenticate, Close
  <2>4. SessionsOK'
    BY <1>6 DEF RereadAccount, Authenticate, Close
  <2>5. SpentKeyStaysSpent'
    BY <1>6 DEF RereadAccount, Authenticate, Close
  <2>6. RelayOK'
    BY <1>6 DEF RereadAccount, Authenticate, Close
  <2>7. RemovalOK'
    BY <1>6 DEF RereadAccount, Authenticate, Close
  <2>8. LostOnlyInRace'
    BY <1>6 DEF RereadAccount, Authenticate, Close
  <2>9. QED
    BY <2>1, <2>2, <2>3, <2>4, <2>5, <2>6, <2>7, <2>8
<1>7. ASSUME NEW c \in Clients, DatabaseError(c) PROVE IInv'
  <2>1. TypeOK'
    BY <1>7 DEF DatabaseError, Reads, Close
  <2>2. LoginOK'
    BY <1>7 DEF DatabaseError, Reads, Close
  <2>3. DrawnOnce'
    BY <1>7 DEF DatabaseError, Reads, Close
  <2>4. SessionsOK'
    BY <1>7 DEF DatabaseError, Reads, Close
  <2>5. SpentKeyStaysSpent'
    BY <1>7 DEF DatabaseError, Reads, Close
  <2>6. RelayOK'
    BY <1>7 DEF DatabaseError, Reads, Close
  <2>7. RemovalOK'
    BY <1>7 DEF DatabaseError, Reads, Close
  <2>8. LostOnlyInRace'
    BY <1>7 DEF DatabaseError, Reads, Close
  <2>9. QED
    BY <2>1, <2>2, <2>3, <2>4, <2>5, <2>6, <2>7, <2>8
<1>8. ASSUME NEW c \in Clients, StoreSession(c) PROVE IInv'
  <2>1. TypeOK'
    <3>1. key[c] \in Keys /\ login[c] \in Accounts
      BY <1>8 DEF StoreSession
    <3>2. /\ sessions' \in [Accounts -> Keys \cup {NoKey}]
          /\ stored' \subseteq Keys /\ exposed' \subseteq Keys
      BY <1>8, <3>1 DEF StoreSession
    <3>3. /\ UNCHANGED <<accounts, rstep, raccount, rkey, sweeping, todo, old, victim>>
          /\ UNCHANGED <<owner, taken, lost>>
      BY <1>8 DEF StoreSession
    <3>4. ConnTypes'
      <4>1. CASE step' = [step EXCEPT ![c] = "read"] /\ UNCHANGED <<cstate, login, password, key>>
        BY <4>1 DEF ConnTypes
      <4>2. CASE Close(c)
        BY <4>2, CloseTypes DEF ConnTypes
      <4>3. QED
        BY <1>8, <4>1, <4>2 DEF StoreSession
    <3>5. QED
      BY <3>2, <3>3, <3>4 DEF ConnTypes
  <2>2. LoginOK'
    BY <1>8 DEF StoreSession, RemovalPending, Close
  <2>3. DrawnOnce'
    BY <1>8 DEF StoreSession, RemovalPending, Close
  <2>4. SessionsOK'
    BY <1>8 DEF StoreSession, RemovalPending, Close
  <2>5. SpentKeyStaysSpent'
    BY <1>8 DEF StoreSession, RemovalPending, Close
  <2>6. RelayOK'
    BY <1>8 DEF StoreSession, RemovalPending, Close
  <2>7. RemovalOK'
    BY <1>8 DEF StoreSession, RemovalPending, Close
  <2>8. LostOnlyInRace'
    BY <1>8 DEF StoreSession, RemovalPending, Close
  <2>9. QED
    BY <2>1, <2>2, <2>3, <2>4, <2>5, <2>6, <2>7, <2>8
<1>9. ASSUME NEW c \in Clients, NEW k \in Keys,
             RequestServerList(c, k) \/ RequestServerLogin(c, k)
      PROVE IInv'
  <2>1. Reads(c, "AUTHED_LOGIN") /\ Close(c)
    BY <1>9 DEF RequestServerList, RequestServerLogin
  <2>2. UNCHANGED <<accounts, sessions, relayVars, sweepVars, history>>
    BY <1>9 DEF RequestServerList, RequestServerLogin
  <2>3. QED
    BY <2>1, <2>2 DEF Reads, Close
<1>10. ASSUME NEW r \in Relays, NEW a \in Accounts, NEW k \in Keys,
              PlayerAuthRequest(r, a, k)
       PROVE IInv'
  BY <1>10 DEF PlayerAuthRequest, Validate
<1>11. ASSUME NEW r \in Relays, RemoveSession(r) PROVE IInv'
  <2>1. TypeOK'
    BY <1>11 DEF RemoveSession
  <2>2. LoginOK'
    BY <1>11 DEF RemoveSession
  <2>3. DrawnOnce'
    BY <1>11 DEF RemoveSession
  <2>4. SessionsOK'
    BY <1>11 DEF RemoveSession
  <2>5. SpentKeyStaysSpent'
    BY <1>11 DEF RemoveSession
  <2>6. RelayOK'
    BY <1>11 DEF RemoveSession
  <2>7. RemovalOK'
    BY <1>11 DEF RemoveSession
  <2>8. LostOnlyInRace'
    BY <1>11 DEF RemoveSession
  <2>9. QED
    BY <2>1, <2>2, <2>3, <2>4, <2>5, <2>6, <2>7, <2>8
<1>12. ASSUME NEW e \in SUBSET Keys, StartSweep(e) PROVE IInv'
  BY <1>12 DEF StartSweep
<1>13. ASSUME NEW a \in Accounts, VisitSession(a) PROVE IInv'
  BY <1>13 DEF VisitSession
<1>14. ASSUME DeleteExpired PROVE IInv'
  BY <1>14 DEF DeleteExpired
<1>15. ASSUME EndSweep PROVE IInv'
  BY <1>15 DEF EndSweep
<1>16. CASE UNCHANGED vars
  BY <1>16 DEF vars
<1> HIDE DEF IInv
<1>17. QED
  BY <1>1, <1>2, <1>3, <1>4, <1>5, <1>6, <1>7, <1>8, <1>9, <1>10, <1>11,
     <1>12, <1>13, <1>14, <1>15, <1>16
  DEF Next, ClientNext, RelayNext, SweepNext
-----------------------------------------------------------------------------
\* The inductive invariant holds in every reachable state.
THEOREM Invariance == Spec => []IInv
<1>1. Init => IInv
  BY InitInv
<1>2. IInv /\ [Next]_vars => IInv'
  BY NextInv
<1>3. QED
  BY <1>1, <1>2, PTL DEF Spec

\* Every variable keeps its type, for any sets of connections, accounts,
\* passwords and keys.
THEOREM TypeCorrect == Spec => []TypeOK
<1>1. IInv => TypeOK
  BY DEF IInv
<1>2. QED
  BY <1>1, Invariance, PTL

\* A connection in state AUTHED_LOGIN presented the password of the row of an
\* account that is not banned, however many connections race to create it.
THEOREM PasswordTheorem == Spec => []AuthenticatedByPassword
<1>1. IInv => AuthenticatedByPassword
  BY DEF IInv, LoginOK, AuthenticatedByPassword
<1>2. QED
  BY <1>1, Invariance, PTL

\* A key that a player can have been told about has been stored.
THEOREM HandedOutTheorem == Spec => []HandedOutKeyWasStored
<1>1. IInv => HandedOutKeyWasStored
  BY DEF IInv, LoginOK, HandedOutKeyWasStored
<1>2. QED
  BY <1>1, Invariance, PTL

\* A key that admitted a player is never a session again, whatever logins,
\* sweeps and other game servers do: this is what limits the race between
\* Validate and Remove to the requests that are under way together.
THEOREM SpentTheorem == Spec => []SpentKeyStaysSpent
<1>1. IInv => SpentKeyStaysSpent
  BY DEF IInv
<1>2. QED
  BY <1>1, Invariance, PTL

\* No GameServer connection admits two players with one key.
THEOREM NoSecondAdmissionTheorem == Spec => []NoSecondAdmission
<1>1. IInv => NoSecondAdmission
  BY DEF IInv, RelayOK, NoSecondAdmission
<1>2. QED
  BY <1>1, Invariance, PTL

\* A live session is only lost to a removal that was already under way, for
\* an older session of the account, when it was stored.
THEOREM LostOnlyInRaceTheorem == Spec => []LostOnlyInRace
<1>1. IInv => LostOnlyInRace
  BY DEF IInv
<1>2. QED
  BY <1>1, Invariance, PTL

-----------------------------------------------------------------------------
\* A step that neither stores nor removes a session nor starts an admission
\* leaves the state of the ticket service as it is.
LEMMA Stutter ==
    ASSUME IInv, UNCHANGED <<sessions, stored, taken, relayVars>>,
           \A k \in stored : owner'[k] = owner[k]
    PROVE  UNCHANGED Tickets!vars
<1>1. Granted' = Granted /\ Granted \subseteq stored
  BY DEF Granted, relayVars, IInv, SessionsOK, RelayOK
<1>2. QED
  BY <1>1 DEF Tickets!vars

\* The login server implements the ticket service.
THEOREM Refinement == Spec => TicketSpec
<1>1. Init => Tickets!Init
  BY DEF Init, Tickets!Init, Granted
<1>2. IInv /\ IInv' /\ [Next]_vars => [Tickets!Next]_(Tickets!vars)
  <2> SUFFICES ASSUME IInv, IInv', [Next]_vars
               PROVE  [Tickets!Next]_(Tickets!vars)
    OBVIOUS
  <2>1. ASSUME NEW c \in Clients, StoreSession(c) PROVE Tickets!Next
    <3>1. /\ login[c] \in Accounts /\ key[c] \in Keys /\ key[c] \notin stored
          /\ UNCHANGED <<relayVars, taken, owner>>
          /\ stored' = stored \cup {key[c]}
          /\ sessions' = [sessions EXCEPT ![login[c]] = key[c]]
      BY <2>1 DEF StoreSession, IInv, LoginOK
    <3>2. Tickets!Issue(login[c], key[c])
      BY <3>1 DEF Tickets!Issue, Granted, relayVars
    <3>3. QED
      BY <3>1, <3>2 DEF Tickets!Next
  <2>2. ASSUME NEW r \in Relays, NEW a \in Accounts, NEW k \in Keys,
               PlayerAuthRequest(r, a, k)
        PROVE  Tickets!Next
    <3>1. sessions[a] = k /\ k # NoKey /\ owner[k] = a
      BY <2>2, ConstantsAssumption
      DEF PlayerAuthRequest, Validate, IInv, SessionsOK, TypeOK
    <3>2. Granted' = Granted \cup {k}
      BY <2>2 DEF PlayerAuthRequest, Granted, history, IInv, TypeOK
    <3>3. UNCHANGED <<sessions, stored, owner>>
      BY <2>2 DEF PlayerAuthRequest, history
    <3>4. Tickets!Grant(a)
      BY <3>1, <3>2, <3>3 DEF Tickets!Grant
    <3>5. QED
      BY <3>4 DEF Tickets!Next
  <2>3. ASSUME NEW r \in Relays, RemoveSession(r) PROVE Tickets!Next
    <3>1. raccount[r] \in Accounts /\ rkey[r] \in Keys
      BY <2>3 DEF RemoveSession, IInv, RelayOK, TypeOK
    <3>2. Granted' = Granted
      <4>1. ASSUME NEW k \in Keys PROVE k \in Granted' <=> k \in Granted
        <5>1. \A s \in Relays : s # r =>
                 rstep'[s] = rstep[s] /\ rkey'[s] = rkey[s]
          BY <2>3 DEF RemoveSession, IInv, TypeOK
        <5>2. rstep[r] = "remove" /\ rstep'[r] = "read"
          BY <2>3 DEF RemoveSession, IInv, TypeOK
        <5>3. taken'[k] = IF k = rkey[r] THEN taken[k] \cup {r} ELSE taken[k]
          <6>1. taken' = [taken EXCEPT ![rkey[r]] = @ \cup {r}]
            BY <2>3 DEF RemoveSession
          <6>2. taken \in [Keys -> SUBSET Relays]
            BY DEF IInv, TypeOK
          <6>3. QED
            BY <3>1, <6>1, <6>2
        <5>4. QED
          BY <5>1, <5>2, <5>3 DEF Granted
      <4>2. QED
        BY <4>1 DEF Granted
    <3>3. Tickets!Withdraw(raccount[r])
      BY <2>3, <3>2 DEF RemoveSession, Tickets!Withdraw
    <3>4. QED
      BY <3>1, <3>3 DEF Tickets!Next
  <2>4. ASSUME DeleteExpired PROVE Tickets!Next
    <3>1. victim \in Accounts
      BY <2>4 DEF DeleteExpired, IInv, TypeOK
    <3>2. Tickets!Withdraw(victim)
      BY <2>4 DEF DeleteExpired, Tickets!Withdraw, Granted, relayVars
    <3>3. QED
      BY <3>1, <3>2 DEF Tickets!Next
  <2>5. ASSUME NEW c \in Clients, NEW a \in Accounts, NEW p \in Passwords,
               Authenticate(c, a, p)
        PROVE  \A k \in stored : owner'[k] = owner[k]
    BY <2>5, ConstantsAssumption DEF Authenticate, IInv, SessionsOK, TypeOK
  <2>6. ASSUME NEW c \in Clients, ClientNext(c), ~StoreSession(c)
        PROVE  UNCHANGED Tickets!vars
    <3>1. UNCHANGED <<sessions, stored, taken, relayVars>>
      BY <2>6 DEF ClientNext, Connect, Disconnect, AuthGameGuard,
                  RequestAuthLogin, InsertAccount, RereadAccount, DatabaseError,
                  RequestServerList, RequestServerLogin, history
    <3>2. \/ UNCHANGED owner
          \/ \E a \in Accounts, p \in Passwords : Authenticate(c, a, p)
      BY <2>6 DEF ClientNext, Connect, Disconnect, AuthGameGuard,
                  RequestAuthLogin, InsertAccount, RereadAccount, DatabaseError,
                  RequestServerList, RequestServerLogin, history, IInv, LoginOK
    <3>3. \A k \in stored : owner'[k] = owner[k]
      BY <2>5, <3>2
    <3>4. QED
      BY <3>1, <3>3, Stutter
  <2>7. CASE UNCHANGED vars
    BY <2>7, Stutter DEF vars, history, relayVars
  <2>8. ASSUME SweepNext, ~DeleteExpired PROVE UNCHANGED Tickets!vars
    BY <2>8, Stutter DEF SweepNext, StartSweep, VisitSession, EndSweep, history
  <2>9. QED
    BY <2>1, <2>2, <2>3, <2>4, <2>6, <2>7, <2>8 DEF Next, RelayNext
<1>3. QED
  BY <1>1, <1>2, Invariance, PTL DEF Spec, TicketSpec, Tickets!Spec
=============================================================================
