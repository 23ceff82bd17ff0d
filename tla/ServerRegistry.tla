---------------------------- MODULE ServerRegistry ----------------------------
(***************************************************************************)
(* What the login server promises to the game servers about their ids,     *)
(* without any of its tables, packets or handlers.  The first server that  *)
(* claims an id owns it for good, and is known by the secret it claimed it *)
(* with.  A connection serves an id only with the secret of its owner, and *)
(* only while no other connection does: unless two connections with that   *)
(* secret raced for the id, because the code checks that nobody serves it  *)
(* and marks it as served in two steps.                                    *)
(***************************************************************************)
EXTENDS Integers

CONSTANTS Conns,         \* the connections
          Ids,           \* the ids of game servers
          HexIds, NoHex  \* the secrets, and none

NoId == -1

VARIABLES owner,   \* owner[id]: the secret of the server that has id, NoHex if none
          serves,  \* serves[c]: the id that c was told, NoId if none
          shown,   \* shown[c]: the secret that c was told its id for
          raced    \* the ids that two connections of their owner were let through to

vars == <<owner, serves, shown, raced>>

Init ==
    /\ owner = [id \in Ids |-> NoHex]
    /\ serves = [c \in Conns |-> NoId]
    /\ shown = [c \in Conns |-> NoHex]
    /\ raced = {}

\* An id that nobody has goes to the server with secret h.
Claim(id, h) ==
    /\ owner[id] = NoHex
    /\ owner' = [owner EXCEPT ![id] = h]
    /\ UNCHANGED <<serves, shown, raced>>

\* A second connection of the owner of id is let through to it.
Race(id) ==
    /\ owner[id] # NoHex
    /\ raced' = raced \cup {id}
    /\ UNCHANGED <<owner, serves, shown>>

\* Connection c, which has shown the owner's secret, is told that it serves id.
Admit(c, id) ==
    /\ serves[c] = NoId
    /\ owner[id] # NoHex
    /\ id \notin raced => \A d \in Conns : serves[d] # id
    /\ serves' = [serves EXCEPT ![c] = id]
    /\ shown' = [shown EXCEPT ![c] = owner[id]]
    /\ UNCHANGED <<owner, raced>>

\* The connection ends.
Leave(c) ==
    /\ serves' = [serves EXCEPT ![c] = NoId]
    /\ shown' = [shown EXCEPT ![c] = NoHex]
    /\ UNCHANGED <<owner, raced>>

Next ==
    \/ \E id \in Ids, h \in HexIds : Claim(id, h)
    \/ \E id \in Ids : Race(id)
    \/ \E c \in Conns, id \in Ids : Admit(c, id)
    \/ \E c \in Conns : Leave(c)

Spec == Init /\ [][Next]_vars
=============================================================================
