----------------------------- MODULE MCProgress ------------------------------
(***************************************************************************)
(* The models in which something must happen in the end, checked in one    *)
(* run: the visibility manager (Visibility), the programs and their        *)
(* servers (Lifecycle), and a small instance of the login server           *)
(* (LoginRelay).  They share no state: the behaviours of ProgressSpec are  *)
(* those of one of the three, chosen at the start, under its own fairness, *)
(* while the others stay at one of their initial states.                   *)
(***************************************************************************)
EXTENDS MCVisibility, MCLifecycle

CONSTANTS Clients, Relays, Accounts, Banned, Passwords, Keys,
          NoPassword, NoAccount, NoKey, ShowLicence, AutoCreate

VARIABLES accounts, sessions, cstate, step, login, password, key, rstep, raccount, rkey,
          sweeping, visits, old, victim, owner, stored, taken, exposed, lost

VARIABLE moving   \* the model that moves

Relay == INSTANCE LoginRelay WITH todo <- visits

relayVars == <<accounts, sessions, cstate, step, login, password, key, rstep, raccount, rkey,
               sweeping, visits, old, victim, owner, stored, taken, exposed, lost>>

ProgressInit ==
  /\ moving \in {"visibility", "programs", "relay"}
  /\ VisibilityInit /\ (moving # "visibility" => \A p \in Players : loc[p] = <<11, 7>>)
  /\ Init           /\ (moving # "programs" => prog = LoginProgram)
  /\ Relay!Init     /\ (moving # "relay" => \A a \in Accounts : accounts[a] = NoPassword)

Only(model) == moving = model /\ UNCHANGED moving

allVars == <<moving, visibilityVars, vars, relayVars>>

\* Deadlock is not checked: a process that has exited, or a cancelled server, is done.
ProgressNext ==
  \/ Only("visibility") /\ VisibilityNext /\ UNCHANGED <<vars, relayVars>>
  \/ Only("programs")   /\ Next           /\ UNCHANGED <<visibilityVars, relayVars>>
  \/ Only("relay")      /\ Relay!Next     /\ UNCHANGED <<visibilityVars, vars>>

\* Lifecycle's Scheduled, for as long as the programs are what moves.
Here(action) == moving = "programs" /\ action

ScheduledHere ==
  /\ WF_vars(Here(Main))
  /\ \A m \in Managers : WF_vars(Here(ManagerStops(m)))
  /\ \A s \in Servers : /\ WF_vars(Here(Listen(s) \/ ListenFails(s)))
                         /\ WF_vars(Here(ServeReturns(s)))
                         /\ WF_vars(Here(CloseListener(s)))
                         /\ WF_vars(Here(AcceptLoop(s)))
  /\ \A p \in Places : WF_vars(Here(Handler(p))) /\ WF_vars(Here(CloseSocket(p)))

\* What is fair in Visibility and LoginRelay is not enabled in their initial states:
\* there is no player to update and no session to store or remove.
ProgressSpec ==
  /\ ProgressInit /\ [][ProgressNext]_allVars
  /\ Fairness /\ Relay!Fairness /\ ScheduledHere

\* LoginRelay's property: a key that a game server was told is valid stops being a
\* session, whatever logins, sweeps and other game servers come in between.
AdmittedKeyDies == Relay!AdmittedKeyDies

=============================================================================
