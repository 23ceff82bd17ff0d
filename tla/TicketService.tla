---------------------------- MODULE TicketService ----------------------------
(***************************************************************************)
(* What the login server promises to the game servers, without any of its  *)
(* connections: an account holds at most one live ticket (session key), a  *)
(* ticket is issued once, and a game server is told "yes" only about the   *)
(* ticket that is live for the account at that moment.  A ticket that is   *)
(* withdrawn or superseded never becomes live again, so it can never again *)
(* be granted.  A live ticket may be granted more than once: the code does *)
(* not check and withdraw a session in one step.                           *)
(***************************************************************************)
CONSTANTS Accounts,  \* the accounts
          Keys,      \* the session keys
          NoKey      \* no live key

VARIABLES issued,    \* the keys ever stored as a session
          live,      \* live[a]: the key of a's session, NoKey if it has none
          granted    \* the pairs <<account, key>> a game server was told are valid

vars == <<issued, live, granted>>

Init ==
    /\ issued = {}
    /\ live = [a \in Accounts |-> NoKey]
    /\ granted = {}

\* A login puts a key never used before in place of the account's session.
Issue(a, k) ==
    /\ k \notin issued
    /\ issued' = issued \cup {k}
    /\ live' = [live EXCEPT ![a] = k]
    /\ UNCHANGED granted

\* A game server is told that the account's live key is valid.
Grant(a) ==
    /\ live[a] # NoKey
    /\ granted' = granted \cup {<<a, live[a]>>}
    /\ UNCHANGED <<issued, live>>

\* The account's session ends.
Withdraw(a) ==
    /\ live' = [live EXCEPT ![a] = NoKey]
    /\ UNCHANGED <<issued, granted>>

Next ==
    \E a \in Accounts :
        \/ \E k \in Keys : Issue(a, k)
        \/ Grant(a)
        \/ Withdraw(a)

Spec == Init /\ [][Next]_vars
=============================================================================
