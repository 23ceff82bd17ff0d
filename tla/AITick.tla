------------------------------- MODULE AITick -------------------------------
(***************************************************************************)
(* ai.TickManager and its controllers (ai/manager.go, ai/basic_ai.go): the  *)
(* tick loop visits the controllers of a sync.Map while other goroutines    *)
(* register and unregister them.  Each access to an atomic or to the map is *)
(* a step.  Spawn models the same registrations as DoSpawn and DespawnNpc   *)
(* make them and how they are counted; here a controller also ticks.        *)
(***************************************************************************)
EXTENDS Integers

CONSTANTS
  Controllers,  \* the controllers made, one per NPC
  Every,        \* ticks after which the intention is toggled (5 in the code)
  MaxTicks      \* bound: ticks of one controller

ASSUME TickAssumption == Every \in Nat \ {0} /\ MaxTicks \in Nat

VARIABLES
  registered,  \* TickManager.controllers
  isRunning,   \* controllers with isRunning set
  intention,   \* Npc.intention: "idle", "active"
  tickCount,   \* BasicNpcAI.tickCount
  rpc,         \* Register(c): "no", "stored", "running", "returned"
  upc,         \* Unregister(c): "no", "deleted", "stopped", "returned"
  due,         \* controllers that were in the map when the present Range began
  visited,     \* those it has come to
  tpc,         \* the loop: "wait", "range", "check", "count", "look", "set"
  ticking,     \* the controller it has come to last
  looked       \* the intention it has read

\* History: controllers unregistered before Register had returned; those that a tick
\* toggled after Unregister had returned, or between the two statements of Start.
VARIABLES overtaken, late

tickVars == <<registered, isRunning, intention, tickCount, rpc, upc, due, visited, tpc, ticking, looked,
              overtaken, late>>
loopVars == <<due, visited, tpc, ticking, looked>>

TickInit ==
  /\ registered = {} /\ isRunning = {}
  /\ intention = [c \in Controllers |-> "idle"] /\ tickCount = [c \in Controllers |-> 0]
  /\ rpc = [c \in Controllers |-> "no"] /\ upc = [c \in Controllers |-> "no"]
  /\ due = {} /\ visited = {} /\ tpc = "wait" /\ ticking \in Controllers /\ looked = "idle"
  /\ overtaken = {} /\ late = {}

\* A tick of c has passed the check of isRunning and is not over.
InTick(c) == ticking = c /\ tpc \in {"count", "look", "set"}

-----------------------------------------------------------------------------
(* Register: the map, then Start: isRunning, then the intention.            *)

StoreController(c) ==
  /\ rpc[c] = "no" /\ rpc' = [rpc EXCEPT ![c] = "stored"]
  /\ registered' = registered \cup {c}
  /\ UNCHANGED <<isRunning, intention, tickCount, upc, loopVars, overtaken, late>>

SetRunning(c) ==
  /\ rpc[c] = "stored" /\ rpc' = [rpc EXCEPT ![c] = "running"]
  /\ isRunning' = isRunning \cup {c}
  /\ UNCHANGED <<registered, intention, tickCount, upc, loopVars, overtaken, late>>

SetActive(c) ==
  /\ rpc[c] = "running" /\ rpc' = [rpc EXCEPT ![c] = "returned"]
  /\ intention' = [intention EXCEPT ![c] = "active"]
  /\ late' = IF tickCount[c] >= Every THEN late \cup {c} ELSE late
  /\ UNCHANGED <<registered, isRunning, tickCount, upc, loopVars, overtaken>>

-----------------------------------------------------------------------------
(* Unregister: LoadAndDelete, then Stop: isRunning, then the intention.     *)

Unregister(c) ==
  /\ upc[c] = "no" /\ c \in registered /\ upc' = [upc EXCEPT ![c] = "deleted"]
  /\ registered' = registered \ {c}
  /\ overtaken' = IF rpc[c] = "returned" THEN overtaken ELSE overtaken \cup {c}
  /\ UNCHANGED <<isRunning, intention, tickCount, rpc, loopVars, late>>

ClearRunning(c) ==
  /\ upc[c] = "deleted" /\ upc' = [upc EXCEPT ![c] = "stopped"]
  /\ isRunning' = isRunning \ {c}
  /\ UNCHANGED <<registered, intention, tickCount, rpc, loopVars, overtaken, late>>

\* (Changed form, for the checks of the properties: the intention is kept.)
KeepIntention(c) ==
  /\ upc[c] = "stopped" /\ upc' = [upc EXCEPT ![c] = "returned"]
  /\ UNCHANGED <<registered, isRunning, intention, tickCount, rpc, loopVars, overtaken, late>>

SetIdle(c) ==
  /\ upc[c] = "stopped" /\ upc' = [upc EXCEPT ![c] = "returned"]
  /\ intention' = [intention EXCEPT ![c] = "idle"]
  /\ UNCHANGED <<registered, isRunning, tickCount, rpc, loopVars, overtaken, late>>

-----------------------------------------------------------------------------
(* tickAll and Tick.                                                        *)

others == <<registered, isRunning, rpc, upc, overtaken>>

TickAll ==
  /\ tpc = "wait" /\ tpc' = "range"
  /\ due' = registered
  /\ UNCHANGED <<others, late, intention, tickCount, visited, ticking, looked>>

\* Range comes to any controller in the map, to each at most once ...
Visit(c) ==
  /\ tpc = "range" /\ c \in registered \ visited
  /\ visited' = visited \cup {c} /\ ticking' = c /\ tpc' = "check"
  /\ UNCHANGED <<others, late, intention, tickCount, due, looked>>

\* ... and to all that stay in it, before it ends.
EndRange ==
  /\ tpc = "range" /\ due \cap registered \subseteq visited
  /\ tpc' = "wait" /\ due' = {} /\ visited' = {}
  /\ UNCHANGED <<others, late, intention, tickCount, ticking, looked>>

\* (Changed form: whatever is in the map ticks.)
CheckNothing ==
  /\ tpc = "check" /\ tpc' = "count"
  /\ UNCHANGED <<others, late, intention, tickCount, due, visited, ticking, looked>>

CheckRunning ==
  /\ tpc = "check"
  /\ tpc' = IF ticking \in isRunning THEN "count" ELSE "range"
  /\ UNCHANGED <<others, late, intention, tickCount, due, visited, ticking, looked>>

CountTick ==
  /\ tpc = "count" /\ tickCount[ticking] < MaxTicks
  /\ tickCount' = [tickCount EXCEPT ![ticking] = @ + 1]
  /\ tpc' = "look"
  /\ UNCHANGED <<others, late, intention, due, visited, ticking, looked>>

\* CurrentIntention, and whether this tick toggles it.
Look ==
  /\ tpc = "look"
  /\ IF tickCount[ticking] % Every = 0
     THEN tpc' = "set" /\ looked' = intention[ticking]
     ELSE tpc' = "range" /\ UNCHANGED looked
  /\ UNCHANGED <<others, late, intention, tickCount, due, visited, ticking>>

SetIntention ==
  /\ tpc = "set" /\ tpc' = "range" /\ looked' = "idle"
  /\ late' = IF upc[ticking] = "returned" THEN late \cup {ticking} ELSE late
  /\ intention' = [intention EXCEPT ![ticking] = IF looked = "active" THEN "idle" ELSE "active"]
  /\ UNCHANGED <<others, tickCount, due, visited, ticking>>

TickNext ==
  \/ \E c \in Controllers :
       \/ StoreController(c) \/ SetRunning(c) \/ SetActive(c)
       \/ Unregister(c) \/ ClearRunning(c) \/ SetIdle(c)
       \/ Visit(c)
  \/ TickAll \/ EndRange \/ CheckRunning \/ CountTick \/ Look \/ SetIntention

TickSpec == TickInit /\ [][TickNext]_tickVars

-----------------------------------------------------------------------------
(* Properties.                                                              *)

\* The variables have their types, and no Range comes to a controller that was
\* never registered.
TickTypeOK ==
  /\ registered \subseteq Controllers /\ isRunning \subseteq Controllers
  /\ intention \in [Controllers -> {"idle", "active"}] /\ tickCount \in [Controllers -> 0..MaxTicks]
  /\ rpc \in [Controllers -> {"no", "stored", "running", "returned"}]
  /\ upc \in [Controllers -> {"no", "deleted", "stopped", "returned"}]
  /\ due \cup visited \cup overtaken \cup late \subseteq {c \in Controllers : rpc[c] # "no"}
  /\ tpc \in {"wait", "range", "check", "count", "look", "set"}
  /\ ticking \in Controllers /\ looked \in {"idle", "active"}

\* A controller is in the map before it is started, and a tick in between does
\* nothing to it (ai/manager.go Register, ai/basic_ai.go Tick).
NoTickBeforeStart == \A c \in Controllers : rpc[c] \in {"no", "stored"} => tickCount[c] = 0

\* Once an NPC is unregistered its controller is stopped and idle, unless a tick was
\* past its check when it was stopped and toggles the intention back, or Unregister
\* overtook the Start of Register, which then starts it for good (DespawnNpc of an
\* NPC found in the world before DoSpawn has returned it).
StoppedIsIdle ==
  \A c \in Controllers \ (overtaken \cup late) :
    upc[c] = "returned" => c \notin isRunning /\ intention[c] = "idle"

\* The intention of an NPC that is registered and not being ticked follows the number
\* of its ticks: no toggle is lost or made twice by goroutines that register others,
\* unless a tick came between the two statements of its Start.
TogglesCounted ==
  \A c \in Controllers \ late :
    rpc[c] = "returned" /\ upc[c] \in {"no", "deleted"} /\ ~InTick(c) =>
      (intention[c] = "active" <=> (tickCount[c] \div Every) % 2 = 0)

\* A controller ticks from its start to its stop and no longer, and each tick counts.
TicksInStep == TickTypeOK /\ NoTickBeforeStart /\ StoppedIsIdle /\ TogglesCounted

=============================================================================
