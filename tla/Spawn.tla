-------------------------------- MODULE Spawn --------------------------------
(***************************************************************************)
(* NPC spawns: spawn.Manager (DoSpawn, DespawnNpc, SpawnAll), the          *)
(* RespawnTaskManager and, through them, the counters of model.Spawn, the  *)
(* objects of world.World and the controllers of ai.TickManager.           *)
(*                                                                         *)
(* The goroutines are those that run SpawnAll, the executors that a tick   *)
(* of the RespawnTaskManager starts, and callers that despawn an NPC and   *)
(* schedule its respawn.  Nothing is held across two calls: each access to *)
(* an atomic, a sync.Map or a locked list is a step.  Which goroutines     *)
(* despawn is up to code outside this repository's main: they are modelled *)
(* after the integration tests (DespawnNpc, then ScheduleRespawn).         *)
(***************************************************************************)
EXTENDS Integers, FiniteSets

CONSTANTS
    Starters,     \* goroutines that call SpawnAll (the server's main has one)
    Executors,    \* slots for executeTasks goroutines
    Killers,      \* goroutines that despawn NPCs
    Spawns,       \* the loaded spawn points
    Misplaced,    \* those outside the world's grid
    MaximumCount, \* Spawn.maximumCount, the same for all
    Npcs,         \* Npc objects (bounds a run's spawns)
    MaxKills,     \* bounds the DespawnNpc calls of a run
    NoSpawn, NoNpc,
    LoadErrors,   \* whether LoadTemplate can fail
    Cancels       \* whether CancelRespawn is called

ASSUME SpawnAssumption ==
    /\ Starters \cap Executors = {}
    /\ IsFiniteSet(Starters \cup Executors) /\ IsFiniteSet(Killers)
    /\ Misplaced \subseteq Spawns
    /\ MaximumCount \in Nat \ {0}
    /\ MaxKills \in Nat
    /\ NoSpawn \notin Spawns /\ NoNpc \notin Npcs
    /\ LoadErrors \in BOOLEAN /\ Cancels \in BOOLEAN

Workers == Starters \cup Executors

VARIABLES
    currentCount,    \* Spawn.currentCount
    npcList,         \* Spawn.npcList, which never holds an NPC twice
    objects,         \* World.objects
    visible,         \* NPCs in their region's visibleObjects
    controllers,     \* TickManager.controllers
    controllerCount, \* TickManager.controllerCount
    running,         \* NPCs whose controller has isRunning set
    tasks,           \* spawns with a RespawnTask
    jobs,            \* jobs[w][s]: DoSpawn calls worker w still makes for s
    pc,              \* where worker w is
    spawn,           \* the spawn it is working on
    npc,             \* the NPC it is spawning
    kpc,             \* where killer k is
    victim           \* the NPC it is despawning

\* What happened so far; no guard but that of Despawn (kills) reads these.
VARIABLES
    spawnOf,         \* spawnOf[n]: the spawn n was made for
    raced,           \* NPCs despawned before DoSpawn had returned them, or twice
    kills            \* number of DespawnNpc calls

spawnVars   == <<currentCount, npcList>>
worldVars   == <<objects, visible>>
aiVars      == <<controllers, controllerCount, running>>
workerVars  == <<jobs, pc, spawn, npc>>
killerVars  == <<kpc, victim>>
historyVars == <<spawnOf, raced, kills>>
vars == <<spawnVars, worldVars, aiVars, tasks, workerVars, killerVars, historyVars>>

Init ==
    /\ currentCount = [s \in Spawns |-> 0]
    /\ npcList = [s \in Spawns |-> {}]
    /\ objects = {} /\ visible = {}
    /\ controllers = {} /\ controllerCount = 0 /\ running = {}
    /\ tasks = {}
    /\ jobs = [w \in Workers |->
                  [s \in Spawns |-> IF w \in Starters THEN MaximumCount ELSE 0]]
    /\ pc = [w \in Workers |-> "next"]
    /\ spawn = [w \in Workers |-> NoSpawn]
    /\ npc = [w \in Workers |-> NoNpc]
    /\ kpc = [k \in Killers |-> "idle"]
    /\ victim = [k \in Killers |-> NoNpc]
    /\ spawnOf = [n \in Npcs |-> NoSpawn]
    /\ raced = {}
    /\ kills = 0
-----------------------------------------------------------------------------
(***************************************************************************)
(* SpawnAll and executeTasks: the next DoSpawn.  SpawnAll stays with a     *)
(* spawn until MaximumCount NPCs are made or one fails; Range visits the   *)
(* spawns in any order.  A tick's due tasks are executed in any order.     *)
(***************************************************************************)
Goto(w, label) == pc' = [pc EXCEPT ![w] = label]

Begin(w, s) ==
    /\ pc[w] = "next"
    /\ jobs[w][s] > 0
    /\ spawn[w] \in {NoSpawn, s}
    /\ spawn' = [spawn EXCEPT ![w] = s]
    /\ Goto(w, IF w \in Executors THEN "peek" ELSE "check")
    /\ UNCHANGED <<spawnVars, worldVars, aiVars, tasks, jobs, npc, killerVars, historyVars>>

\* The worker is done with its spawn: SpawnAll goes on to the next one.
Abandon(w) ==
    /\ jobs' = [jobs EXCEPT ![w][spawn[w]] = 0]
    /\ spawn' = [spawn EXCEPT ![w] = NoSpawn]
    /\ npc' = [npc EXCEPT ![w] = NoNpc]
    /\ Goto(w, "next")

Full(s) == currentCount[s] >= MaximumCount

\* executeTasks: the task is skipped if the spawn is full.
Peek(w) ==
    /\ pc[w] = "peek"
    /\ IF Full(spawn[w])
       THEN Abandon(w)
       ELSE Goto(w, "check") /\ UNCHANGED <<jobs, spawn, npc>>
    /\ UNCHANGED <<spawnVars, worldVars, aiVars, tasks, killerVars, historyVars>>
-----------------------------------------------------------------------------
(***************************************************************************)
(* Manager.DoSpawn.                                                        *)
(***************************************************************************)
Check(w) ==
    /\ pc[w] = "check"
    /\ IF Full(spawn[w])
       THEN Abandon(w)
       ELSE Goto(w, "load") /\ UNCHANGED <<jobs, spawn, npc>>
    /\ UNCHANGED <<spawnVars, worldVars, aiVars, tasks, killerVars, historyVars>>

\* LoadTemplate fails, or a new Npc with a new object id is made.
LoadTemplate(w) ==
    /\ pc[w] = "load"
    /\ \/ LoadErrors /\ Abandon(w) /\ UNCHANGED spawnOf
       \/ \E n \in Npcs :
             /\ spawnOf[n] = NoSpawn
             /\ spawnOf' = [spawnOf EXCEPT ![n] = spawn[w]]
             /\ npc' = [npc EXCEPT ![w] = n]
             /\ Goto(w, "count")
             /\ UNCHANGED <<jobs, spawn>>
    /\ UNCHANGED <<spawnVars, worldVars, aiVars, tasks, killerVars, raced, kills>>

IncreaseCount(w) ==
    /\ pc[w] = "count"
    /\ currentCount' = [currentCount EXCEPT ![spawn[w]] = @ + 1]
    /\ Goto(w, "list")
    /\ UNCHANGED <<npcList, worldVars, aiVars, tasks, jobs, spawn, npc, killerVars, historyVars>>

AddNpc(w) ==
    /\ pc[w] = "list"
    /\ npcList' = [npcList EXCEPT ![spawn[w]] = @ \cup {npc[w]}]
    /\ Goto(w, IF spawn[w] \in Misplaced THEN "uncount" ELSE "world")
    /\ UNCHANGED <<currentCount, worldVars, aiVars, tasks, jobs, spawn, npc, killerVars, historyVars>>

\* Changed form, for the checks of the properties: the rollback forgets DecreaseCount.
UndoNothing(w) ==
    /\ pc[w] = "uncount"
    /\ Goto(w, "unlist")
    /\ UNCHANGED <<spawnVars, worldVars, aiVars, tasks, jobs, spawn, npc, killerVars, historyVars>>

\* AddObject found no region: the rollback of DoSpawn.
UndoCount(w) ==
    /\ pc[w] = "uncount"
    /\ currentCount' = [currentCount EXCEPT ![spawn[w]] = @ - 1]
    /\ Goto(w, "unlist")
    /\ UNCHANGED <<npcList, worldVars, aiVars, tasks, jobs, spawn, npc, killerVars, historyVars>>

UndoList(w) ==
    /\ pc[w] = "unlist"
    /\ npcList' = [npcList EXCEPT ![spawn[w]] = @ \ {npc[w]}]
    /\ Abandon(w)
    /\ UNCHANGED <<currentCount, worldVars, aiVars, tasks, killerVars, historyVars>>

\* World.AddObject: the map of objects, then the region.
AddObject(w) ==
    /\ pc[w] = "world"
    /\ objects' = objects \cup {npc[w]}
    /\ Goto(w, "region")
    /\ UNCHANGED <<spawnVars, visible, aiVars, tasks, jobs, spawn, npc, killerVars, historyVars>>

AddVisibleObject(w) ==
    /\ pc[w] = "region"
    /\ visible' = visible \cup {npc[w]}
    /\ Goto(w, "register")
    /\ UNCHANGED <<spawnVars, objects, aiVars, tasks, jobs, spawn, npc, killerVars, historyVars>>

\* TickManager.Register: the map, the count, the controller is started.
Register(w) ==
    /\ pc[w] = "register"
    /\ controllers' = controllers \cup {npc[w]}
    /\ Goto(w, "registered")
    /\ UNCHANGED <<spawnVars, worldVars, controllerCount, running, tasks, jobs, spawn, npc,
                   killerVars, historyVars>>

CountController(w) ==
    /\ pc[w] = "registered"
    /\ controllerCount' = controllerCount + 1
    /\ Goto(w, "start")
    /\ UNCHANGED <<spawnVars, worldVars, controllers, running, tasks, jobs, spawn, npc,
                   killerVars, historyVars>>

\* The controller runs and DoSpawn returns the NPC.
StartController(w) ==
    /\ pc[w] = "start"
    /\ running' = running \cup {npc[w]}
    /\ jobs' = [jobs EXCEPT ![w][spawn[w]] = @ - 1]
    /\ spawn' = [spawn EXCEPT ![w] = IF jobs[w][@] > 1 THEN @ ELSE NoSpawn]
    /\ npc' = [npc EXCEPT ![w] = NoNpc]
    /\ Goto(w, "next")
    /\ UNCHANGED <<spawnVars, worldVars, controllers, controllerCount, tasks, killerVars, historyVars>>
-----------------------------------------------------------------------------
(***************************************************************************)
(* Manager.DespawnNpc of an NPC found in the spawn's list or in a region,  *)
(* and ScheduleRespawn.                                                    *)
(***************************************************************************)
KGoto(k, label) == kpc' = [kpc EXCEPT ![k] = label]

BeingSpawned(n) == \E w \in Workers : npc[w] = n

\* The caller gets hold of an NPC; DespawnNpc begins.
Despawn(k, n) ==
    /\ kpc[k] = "idle" /\ kills < MaxKills
    /\ n \in visible \cup UNION {npcList[s] : s \in Spawns}
    /\ victim' = [victim EXCEPT ![k] = n]
    /\ KGoto(k, "unregister")
    /\ kills' = kills + 1
    /\ raced' = IF BeingSpawned(n) \/ \E o \in Killers : victim[o] = n
                THEN raced \cup {n} ELSE raced
    /\ UNCHANGED <<spawnVars, worldVars, aiVars, tasks, workerVars, spawnOf>>

\* Changed form, for the checks of the properties: the count goes down even if there
\* was no controller.
UnregisterAlways(k) ==
    /\ kpc[k] = "unregister"
    /\ controllers' = controllers \ {victim[k]}
    /\ KGoto(k, "unregistered")
    /\ UNCHANGED <<spawnVars, worldVars, controllerCount, running, tasks, workerVars, victim, historyVars>>

\* TickManager.Unregister: LoadAndDelete, the count, the controller stops.
Unregister(k) ==
    /\ kpc[k] = "unregister"
    /\ controllers' = controllers \ {victim[k]}
    /\ KGoto(k, IF victim[k] \in controllers THEN "unregistered" ELSE "remove")
    /\ UNCHANGED <<spawnVars, worldVars, controllerCount, running, tasks, workerVars, victim, historyVars>>

UncountController(k) ==
    /\ kpc[k] = "unregistered"
    /\ controllerCount' = controllerCount - 1
    /\ KGoto(k, "stop")
    /\ UNCHANGED <<spawnVars, worldVars, controllers, running, tasks, workerVars, victim, historyVars>>

StopController(k) ==
    /\ kpc[k] = "stop"
    /\ running' = running \ {victim[k]}
    /\ KGoto(k, "remove")
    /\ UNCHANGED <<spawnVars, worldVars, controllers, controllerCount, tasks, workerVars, victim, historyVars>>

\* Changed form, for the checks of the properties: the region keeps the object.
RemoveFromMapOnly(k) ==
    /\ kpc[k] = "remove"
    /\ objects' = objects \ {victim[k]}
    /\ KGoto(k, "unlist")
    /\ UNCHANGED <<spawnVars, visible, aiVars, tasks, workerVars, victim, historyVars>>

\* World.RemoveObject: LoadAndDelete, and the region if there was an object.
RemoveObject(k) ==
    /\ kpc[k] = "remove"
    /\ objects' = objects \ {victim[k]}
    /\ KGoto(k, IF victim[k] \in objects THEN "hide" ELSE "unlist")
    /\ UNCHANGED <<spawnVars, visible, aiVars, tasks, workerVars, victim, historyVars>>

RemoveVisibleObject(k) ==
    /\ kpc[k] = "hide"
    /\ visible' = visible \ {victim[k]}
    /\ KGoto(k, "unlist")
    /\ UNCHANGED <<spawnVars, objects, aiVars, tasks, workerVars, victim, historyVars>>

RemoveNpc(k) ==
    /\ kpc[k] = "unlist"
    /\ npcList' = [npcList EXCEPT ![spawnOf[victim[k]]] = @ \ {victim[k]}]
    /\ KGoto(k, "uncount")
    /\ UNCHANGED <<currentCount, worldVars, aiVars, tasks, workerVars, victim, historyVars>>

DecreaseCount(k) ==
    /\ kpc[k] = "uncount"
    /\ currentCount' = [currentCount EXCEPT ![spawnOf[victim[k]]] = @ - 1]
    /\ KGoto(k, "schedule")
    /\ UNCHANGED <<npcList, worldVars, aiVars, tasks, workerVars, victim, historyVars>>

\* Changed form, for the checks of the properties: the task is kept under the NPC.
ScheduleUnderNpc(k) ==
    /\ kpc[k] = "schedule"
    /\ tasks' = tasks \cup {victim[k]}
    /\ victim' = [victim EXCEPT ![k] = NoNpc]
    /\ KGoto(k, "idle")
    /\ UNCHANGED <<spawnVars, worldVars, aiVars, workerVars, historyVars>>

\* ScheduleRespawn: one task per spawn, an older one is replaced.
ScheduleRespawn(k) ==
    /\ kpc[k] = "schedule"
    /\ tasks' = tasks \cup {spawnOf[victim[k]]}
    /\ victim' = [victim EXCEPT ![k] = NoNpc]
    /\ KGoto(k, "idle")
    /\ UNCHANGED <<spawnVars, worldVars, aiVars, workerVars, historyVars>>

CancelRespawn(s) ==
    /\ Cancels /\ s \in tasks
    /\ tasks' = tasks \ {s}
    /\ UNCHANGED <<spawnVars, worldVars, aiVars, workerVars, killerVars, historyVars>>

\* Changed form, for the checks of the properties: due tasks are not deleted.
ProcessAndKeep(e, due) ==
    /\ pc[e] = "next" /\ \A s \in Spawns : jobs[e][s] = 0
    /\ due # {} /\ due \subseteq tasks
    /\ jobs' = [jobs EXCEPT ![e] = [s \in Spawns |-> IF s \in due THEN 1 ELSE 0]]
    /\ UNCHANGED <<spawnVars, worldVars, aiVars, tasks, pc, spawn, npc, killerVars, historyVars>>

\* processTasks: the tasks that are due by now are handed to a goroutine.
ProcessTasks(e, due) ==
    /\ pc[e] = "next" /\ \A s \in Spawns : jobs[e][s] = 0
    /\ due # {} /\ due \subseteq tasks
    /\ tasks' = tasks \ due
    /\ jobs' = [jobs EXCEPT ![e] = [s \in Spawns |-> IF s \in due THEN 1 ELSE 0]]
    /\ UNCHANGED <<spawnVars, worldVars, aiVars, pc, spawn, npc, killerVars, historyVars>>
-----------------------------------------------------------------------------
WorkerStep(w) ==
    \/ \E s \in Spawns : Begin(w, s)
    \/ Peek(w) \/ Check(w) \/ LoadTemplate(w)
    \/ IncreaseCount(w) \/ AddNpc(w) \/ UndoCount(w) \/ UndoList(w)
    \/ AddObject(w) \/ AddVisibleObject(w)
    \/ Register(w) \/ CountController(w) \/ StartController(w)

\* DespawnNpc and ScheduleRespawn once begun.
KillerStep(k) ==
    \/ Unregister(k) \/ UncountController(k) \/ StopController(k)
    \/ RemoveObject(k) \/ RemoveVisibleObject(k)
    \/ RemoveNpc(k) \/ DecreaseCount(k) \/ ScheduleRespawn(k)

Tick == \E e \in Executors, due \in SUBSET Spawns : ProcessTasks(e, due)

SpawnNext ==
    \/ \E w \in Workers : WorkerStep(w)
    \/ \E k \in Killers, n \in Npcs : Despawn(k, n)
    \/ \E k \in Killers : KillerStep(k)
    \/ \E s \in Spawns : CancelRespawn(s)
    \/ Tick

\* Goroutines are scheduled, and the respawn ticker ticks; nobody has to
\* despawn anything.
Fairness ==
    /\ \A w \in Workers : WF_vars(WorkerStep(w))
    /\ \A k \in Killers : WF_vars(KillerStep(k))
    /\ WF_vars(Tick)

Spec == Init /\ [][SpawnNext]_vars /\ Fairness
-----------------------------------------------------------------------------
WorkerLabels == {"next", "peek", "check", "load", "count", "list", "uncount", "unlist",
                 "world", "region", "register", "registered", "start"}
KillerLabels == {"idle", "unregister", "unregistered", "stop", "remove", "hide", "unlist",
                 "uncount", "schedule"}

TypeOK ==
    /\ currentCount \in [Spawns -> Int]
    /\ npcList \in [Spawns -> SUBSET Npcs]
    /\ objects \subseteq Npcs /\ visible \subseteq Npcs
    /\ controllers \subseteq Npcs /\ controllerCount \in Int /\ running \subseteq Npcs
    /\ tasks \subseteq Spawns
    /\ jobs \in [Workers -> [Spawns -> 0 .. MaximumCount]]
    /\ pc \in [Workers -> WorkerLabels]
    /\ spawn \in [Workers -> Spawns \cup {NoSpawn}]
    /\ npc \in [Workers -> Npcs \cup {NoNpc}]
    /\ kpc \in [Killers -> KillerLabels]
    /\ victim \in [Killers -> Npcs \cup {NoNpc}]
    /\ spawnOf \in [Npcs -> Spawns \cup {NoSpawn}]
    /\ raced \subseteq Npcs
    /\ kills \in 0 .. MaxKills

\* Workers on spawn s, and killers of its NPCs, that are at a label.
At(s, label)      == {w \in Workers : pc[w] = label /\ spawn[w] = s}
KillersAt(s, label) == {k \in Killers : kpc[k] = label /\ spawnOf[victim[k]] = s}

\* An NPC of s was despawned twice, or before DoSpawn had returned it.
Raced(s) == \E n \in raced : spawnOf[n] = s

\* currentCount and npcList of a spawn, which are updated apart and in
\* opposite orders by DoSpawn, its rollback and DespawnNpc, differ by the
\* goroutines between the two updates and by nothing else.
CountMatchesList ==
    \A s \in Spawns :
        ~ Raced(s) =>
            currentCount[s] + Cardinality(At(s, "unlist"))
              = Cardinality(npcList[s]) + Cardinality(At(s, "list"))
                  + Cardinality(KillersAt(s, "uncount"))

\* The cached controllerCount and the map of controllers agree up to the
\* goroutines between the two: also when DespawnNpc overtakes DoSpawn.
ControllersCounted ==
    controllerCount + Cardinality({w \in Workers : pc[w] = "registered"})
      = Cardinality(controllers) + Cardinality({k \in Killers : kpc[k] = "unregistered"})

\* An NPC that nobody is spawning or despawning is everywhere (spawn, world,
\* region, AI) or nowhere, whatever step of its DoSpawn failed.
AllOrNothing ==
    \A n \in Npcs \ raced :
        ~ BeingSpawned(n) /\ (\A k \in Killers : victim[k] # n) =>
            \/ /\ n \in objects \cap visible \cap controllers \cap running
               /\ n \in npcList[spawnOf[n]]
            \/ /\ n \notin objects \cup visible \cup controllers \cup running
               /\ \A s \in Spawns : n \notin npcList[s]

\* One SpawnAll and one ScheduleRespawn after each DespawnNpc never overfill
\* a spawn, although the check of DoSpawn and the increase are two steps:
\* every attempt to spawn has a place of its own to fill.
NotOverfull ==
    Cardinality(Starters) <= 1 =>
        \A s \in Spawns : ~ Raced(s) => currentCount[s] <= MaximumCount

\* "NPC should respawn after delay": once nobody despawns any more, every
\* spawn is full again, if no NPC was despawned twice or too early.
RespawnRestores ==
    [](raced = {}) => <>[](\A s \in Spawns : currentCount[s] = MaximumCount)
=============================================================================
