----------------------------- MODULE SpawnProofs -----------------------------
(***************************************************************************)
(* The safety invariants of Spawn, for any number of goroutines, spawns and *)
(* NPCs.  None of them is inductive alone: what a goroutine does next       *)
(* depends on how far it is with an NPC, and on nobody else working on it.  *)
(* IInv adds what each goroutine knows at each label (WorkersInv,           *)
(* KillersInv), that an NPC is in the places of its own spawn only          *)
(* (PlacesInv), which places hold it at each label (StagesInv), and a place  *)
(* for each spawn still to come (FillInv).                                  *)
(***************************************************************************)
EXTENDS Spawn, FiniteSetTheorems, TLAPS

\* Where worker w is, by its label: between two spawns, or working on spawn[w]
\* with or without an NPC; its job for that spawn is not done.
Empty == {"peek", "check", "load"}
Busy  == {"count", "list", "uncount", "unlist", "world", "region", "register",
          "registered", "start"}

WorkerOK(w) ==
    /\ pc[w] \in {"next"} \cup Empty => npc[w] = NoNpc
    /\ pc[w] \in Empty \cup Busy => spawn[w] \in Spawns
    /\ pc[w] \in Busy => npc[w] \in Npcs /\ spawnOf[npc[w]] = spawn[w]
    /\ spawn[w] \in Spawns => jobs[w][spawn[w]] > 0
    /\ pc[w] \in {"uncount", "unlist"} => spawn[w] \in Misplaced

WorkersInv ==
    /\ \A w \in Workers : WorkerOK(w)
    /\ \A v, w \in Workers : npc[v] = npc[w] /\ npc[v] # NoNpc => v = w

\* Killer k despawns a made NPC, which nobody spawns or also despawns unless
\* that is what made it raced.
KillerOK(k) ==
    /\ kpc[k] = "idle" <=> victim[k] = NoNpc
    /\ victim[k] \in Npcs => spawnOf[victim[k]] \in Spawns
    /\ victim[k] \in Npcs \ raced => /\ ~ BeingSpawned(victim[k])
                                     /\ \A o \in Killers : victim[o] = victim[k] => o = k

KillersInv == \A k \in Killers : KillerOK(k)

\* An NPC is where it is for its own spawn, and nowhere before it is made; it
\* gets a controller once.
OwnPlaces ==
    /\ \A s \in Spawns : \A n \in npcList[s] : spawnOf[n] = s
    /\ \A n \in objects \cup visible \cup controllers \cup running : spawnOf[n] \in Spawns

RegistersOnce ==
    \A w \in Workers : pc[w] \in Busy \ {"registered", "start"} => npc[w] \notin controllers

PlacesInv == OwnPlaces /\ RegistersOnce

InList(n) == n \in npcList[spawnOf[n]]

Everywhere(n) == InList(n) /\ n \in objects \cap visible \cap controllers \cap running
Nowhere(n)    == ~InList(n) /\ n \notin objects \cup visible \cup controllers \cup running

\* The places an NPC is in while a worker at this label spawns it.
SpawnStage(n, label) ==
    /\ InList(n) <=> label \notin {"count", "list"}
    /\ n \in objects <=> label \in {"region", "register", "registered", "start"}
    /\ n \in visible <=> label \in {"register", "registered", "start"}
    /\ n \in controllers <=> label \in {"registered", "start"}
    /\ n \notin running

\* The same while a killer at this label despawns it.
DespawnStage(n, label) ==
    /\ InList(n) <=> label \notin {"uncount", "schedule"}
    /\ n \in objects <=> label \in {"unregister", "unregistered", "stop", "remove"}
    /\ n \in visible <=> label \in {"unregister", "unregistered", "stop", "remove", "hide"}
    /\ n \in controllers <=> label = "unregister"
    /\ n \in running <=> label \in {"unregister", "unregistered", "stop"}

StageOK(n) ==
    /\ \A w \in Workers : npc[w] = n => SpawnStage(n, pc[w])
    /\ \A k \in Killers : victim[k] = n => DespawnStage(n, kpc[k])
    /\ ~ BeingSpawned(n) /\ (\A k \in Killers : victim[k] # n) => Everywhere(n) \/ Nowhere(n)

StagesInv == \A n \in Npcs \ raced : spawnOf[n] \in Spawns => StageOK(n)

FinitePlaces ==
    (\A s \in Spawns : IsFiniteSet(npcList[s])) /\ IsFiniteSet(controllers)

One(b) == IF b THEN 1 ELSE 0

\* A worker's jobs for s that have not been counted yet.
Counted == {"list", "uncount", "world", "region", "register", "registered", "start"}
Left(w, s) == jobs[w][s] - One(spawn[w] = s /\ pc[w] \in Counted)

Coming(s) == {e \in Executors : Left(e, s) = 1}

\* The places of s that nobody but SpawnAll fills.
PlacesLeft(s) ==
    MaximumCount - currentCount[s] - Cardinality(KillersAt(s, "schedule"))
      - One(s \in tasks) - Cardinality(Coming(s))

ExecutorJobs == \A e \in Executors, s \in Spawns : jobs[e][s] \in {0, 1}

\* What a worker has left to spawn at s fits in the places left.
PlaceForEach(s) == PlacesLeft(s) >= 0 /\ \A w \in Starters : Left(w, s) <= PlacesLeft(s)

FillInv ==
    /\ ExecutorJobs
    /\ Cardinality(Starters) <= 1 => \A s \in Spawns : ~ Raced(s) => PlaceForEach(s)

IInv ==
    /\ TypeOK /\ WorkersInv /\ KillersInv /\ PlacesInv /\ StagesInv /\ FinitePlaces
    /\ CountMatchesList /\ ControllersCounted /\ FillInv

-----------------------------------------------------------------------------
\* What WorkersInv gives a goroutine that is not between two spawns.
LEMMA WorkerKnown ==
    ASSUME TypeOK, WorkersInv, NEW w \in Workers, pc[w] # "next"
    PROVE  /\ spawn[w] \in Spawns /\ jobs[w][spawn[w]] \in 1 .. MaximumCount
           /\ pc[w] \in Busy => npc[w] \in Npcs /\ spawnOf[npc[w]] = spawn[w]
<1>1. pc[w] \in Empty \cup Busy
  BY DEF TypeOK, WorkerLabels, Empty, Busy
<1>2. spawn[w] \in Spawns
  BY <1>1 DEF WorkersInv, WorkerOK
<1>3. jobs[w][spawn[w]] \in 0 .. MaximumCount
  BY <1>2 DEF TypeOK
<1> QED
  BY <1>2, <1>3, SpawnAssumption DEF WorkersInv, WorkerOK

\* A despawning goroutine holds an NPC that was made.
LEMMA KillerKnown ==
    ASSUME TypeOK, KillersInv, NEW k \in Killers, kpc[k] # "idle"
    PROVE  victim[k] \in Npcs /\ spawnOf[victim[k]] \in Spawns
BY DEF TypeOK, KillersInv, KillerOK

LEMMA AbandonType ==
    ASSUME TypeOK, NEW w \in Workers, Abandon(w), spawn[w] \in Spawns
    PROVE  /\ jobs' \in [Workers -> [Spawns -> 0 .. MaximumCount]]
           /\ pc' \in [Workers -> WorkerLabels]
           /\ spawn' \in [Workers -> Spawns \cup {NoSpawn}]
           /\ npc' \in [Workers -> Npcs \cup {NoNpc}]
BY SpawnAssumption DEF TypeOK, Abandon, Goto, WorkerLabels

\* Spawning leaves the pending respawns and the despawning goroutines alone.
LEMMA WorkerFrame ==
    ASSUME NEW w \in Workers, WorkerStep(w)
    PROVE  UNCHANGED <<tasks, kpc, victim, raced, kills>>
BY DEF WorkerStep, Begin, Peek, Check, LoadTemplate, IncreaseCount, AddNpc, UndoCount,
       UndoList, AddObject, AddVisibleObject, Register, CountController, StartController,
       killerVars, historyVars

\* Despawning leaves the spawning goroutines alone.
LEMMA KillerFrame ==
    ASSUME NEW k \in Killers, KillerStep(k)
    PROVE  UNCHANGED <<jobs, pc, spawn, npc, spawnOf, raced, kills>>
BY DEF KillerStep, Unregister, UncountController, StopController, RemoveObject,
       RemoveVisibleObject, RemoveNpc, DecreaseCount, ScheduleRespawn, workerVars, historyVars

\* An NPC that is not made yet is nowhere.
LEMMA Fresh ==
    ASSUME TypeOK, WorkersInv, KillersInv, PlacesInv,
           NEW n \in Npcs, spawnOf[n] = NoSpawn
    PROVE  /\ \A w \in Workers : npc[w] # n
           /\ \A k \in Killers : victim[k] # n
           /\ n \notin objects \cup visible \cup controllers \cup running
           /\ \A s \in Spawns : n \notin npcList[s]
<1>1. ASSUME NEW w \in Workers PROVE npc[w] # n
  BY SpawnAssumption DEF TypeOK, WorkersInv, WorkerOK, WorkerLabels, Empty, Busy
<1>2. ASSUME NEW k \in Killers PROVE victim[k] # n
  BY SpawnAssumption DEF KillersInv, KillerOK
<1>3. n \notin objects \cup visible \cup controllers \cup running
  BY SpawnAssumption DEF PlacesInv, OwnPlaces
<1>4. ASSUME NEW s \in Spawns PROVE n \notin npcList[s]
  BY SpawnAssumption DEF PlacesInv, OwnPlaces
<1> QED
  BY <1>1, <1>2, <1>3, <1>4

\* A step of w is a step of w only, and no NPC changes its spawn.
LEMMA WorkerAlone ==
    ASSUME TypeOK, NEW w \in Workers, WorkerStep(w)
    PROVE  /\ \A v \in Workers \ {w} :
                pc'[v] = pc[v] /\ spawn'[v] = spawn[v] /\ npc'[v] = npc[v] /\ jobs'[v] = jobs[v]
           /\ \A n \in Npcs : spawnOf[n] \in Spawns => spawnOf'[n] = spawnOf[n]
<1> DEFINE Goal == /\ \A v \in Workers \ {w} :
                        /\ pc'[v] = pc[v] /\ spawn'[v] = spawn[v]
                        /\ npc'[v] = npc[v] /\ jobs'[v] = jobs[v]
                   /\ \A n \in Npcs : spawnOf[n] \in Spawns => spawnOf'[n] = spawnOf[n]
<1> USE SpawnAssumption DEF TypeOK, Goto, Abandon, historyVars
<1>1. ASSUME NEW s \in Spawns, Begin(w, s) PROVE Goal
  BY <1>1 DEF Begin
<1>2. ASSUME Peek(w) PROVE Goal
  BY <1>2 DEF Peek
<1>3. ASSUME Check(w) PROVE Goal
  BY <1>3 DEF Check
<1>4. ASSUME LoadTemplate(w) PROVE Goal
  BY <1>4 DEF LoadTemplate
<1>5. ASSUME IncreaseCount(w) PROVE Goal
  BY <1>5 DEF IncreaseCount
<1>6. ASSUME AddNpc(w) PROVE Goal
  BY <1>6 DEF AddNpc
<1>7. ASSUME UndoCount(w) PROVE Goal
  BY <1>7 DEF UndoCount
<1>8. ASSUME UndoList(w) PROVE Goal
  BY <1>8 DEF UndoList
<1>9. ASSUME AddObject(w) PROVE Goal
  BY <1>9 DEF AddObject
<1>10. ASSUME AddVisibleObject(w) PROVE Goal
  BY <1>10 DEF AddVisibleObject
<1>11. ASSUME Register(w) PROVE Goal
  BY <1>11 DEF Register
<1>12. ASSUME CountController(w) PROVE Goal
  BY <1>12 DEF CountController
<1>13. ASSUME StartController(w) PROVE Goal
  BY <1>13 DEF StartController
<1> QED
  BY <1>1, <1>2, <1>3, <1>4, <1>5, <1>6, <1>7, <1>8, <1>9,
     <1>10, <1>11, <1>12, <1>13 DEF WorkerStep

\* The same of a despawning goroutine.
LEMMA KillerAlone ==
    ASSUME TypeOK, NEW k \in Killers, KillerStep(k)
    PROVE  \A o \in Killers \ {k} : kpc'[o] = kpc[o] /\ victim'[o] = victim[o]
BY DEF TypeOK, KGoto, KillerStep, Unregister, UncountController, StopController, RemoveObject,
       RemoveVisibleObject, RemoveNpc, DecreaseCount, ScheduleRespawn

-----------------------------------------------------------------------------
(* Types.                                                                   *)

LEMMA TypeStep ==
    ASSUME TypeOK, WorkersInv, KillersInv, [SpawnNext]_vars
    PROVE  TypeOK'
<1> USE SpawnAssumption DEF TypeOK, WorkerLabels, KillerLabels, Workers,
       spawnVars, worldVars, aiVars, workerVars, killerVars, historyVars
<1>1. ASSUME NEW w \in Workers, NEW s \in Spawns, Begin(w, s) PROVE TypeOK'
  BY <1>1 DEF Begin, Goto
<1>2. ASSUME NEW w \in Workers, Peek(w) PROVE TypeOK'
  <2>1. spawn[w] \in Spawns
    BY <1>2, WorkerKnown DEF Peek
  <2>2. CASE Abandon(w)
    BY <1>2, <2>1, <2>2, AbandonType DEF Peek
  <2>3. CASE ~ Full(spawn[w])
    BY <1>2, <2>3 DEF Peek, Goto
  <2> QED
    BY <1>2, <2>2, <2>3 DEF Peek
<1>3. ASSUME NEW w \in Workers, Check(w) PROVE TypeOK'
  <2>1. spawn[w] \in Spawns
    BY <1>3, WorkerKnown DEF Check
  <2>2. CASE Abandon(w)
    BY <1>3, <2>1, <2>2, AbandonType DEF Check
  <2>3. CASE ~ Full(spawn[w])
    BY <1>3, <2>3 DEF Check, Goto
  <2> QED
    BY <1>3, <2>2, <2>3 DEF Check
<1>4. ASSUME NEW w \in Workers, LoadTemplate(w) PROVE TypeOK'
  <2>1. spawn[w] \in Spawns
    BY <1>4, WorkerKnown DEF LoadTemplate
  <2>2. CASE Abandon(w) /\ UNCHANGED spawnOf
    BY <1>4, <2>1, <2>2, AbandonType DEF LoadTemplate
  <2>3. ASSUME NEW n \in Npcs,
               spawnOf' = [spawnOf EXCEPT ![n] = spawn[w]], npc' = [npc EXCEPT ![w] = n],
               Goto(w, "count"), UNCHANGED <<jobs, spawn>>
        PROVE  TypeOK'
    BY <1>4, <2>1, <2>3 DEF LoadTemplate, Goto
  <2> QED
    BY <1>4, <2>2, <2>3 DEF LoadTemplate
<1>5. ASSUME NEW w \in Workers, IncreaseCount(w) PROVE TypeOK'
  <2>1. spawn[w] \in Spawns /\ jobs[w][spawn[w]] \in 1 .. MaximumCount
        /\ (pc[w] \in Busy => npc[w] \in Npcs)
    BY <1>5, WorkerKnown DEF IncreaseCount
  <2> QED
    BY <1>5, <2>1 DEF IncreaseCount, Busy, Goto, Abandon
<1>6. ASSUME NEW w \in Workers, AddNpc(w) PROVE TypeOK'
  <2>1. spawn[w] \in Spawns /\ jobs[w][spawn[w]] \in 1 .. MaximumCount
        /\ (pc[w] \in Busy => npc[w] \in Npcs)
    BY <1>6, WorkerKnown DEF AddNpc
  <2> QED
    BY <1>6, <2>1 DEF AddNpc, Busy, Goto, Abandon
<1>7. ASSUME NEW w \in Workers, UndoCount(w) PROVE TypeOK'
  <2>1. spawn[w] \in Spawns /\ jobs[w][spawn[w]] \in 1 .. MaximumCount
        /\ (pc[w] \in Busy => npc[w] \in Npcs)
    BY <1>7, WorkerKnown DEF UndoCount
  <2> QED
    BY <1>7, <2>1 DEF UndoCount, Busy, Goto, Abandon
<1>8. ASSUME NEW w \in Workers, UndoList(w) PROVE TypeOK'
  <2>1. spawn[w] \in Spawns /\ jobs[w][spawn[w]] \in 1 .. MaximumCount
        /\ (pc[w] \in Busy => npc[w] \in Npcs)
    BY <1>8, WorkerKnown DEF UndoList
  <2> QED
    BY <1>8, <2>1 DEF UndoList, Busy, Goto, Abandon
<1>9. ASSUME NEW w \in Workers, AddObject(w) PROVE TypeOK'
  <2>1. spawn[w] \in Spawns /\ jobs[w][spawn[w]] \in 1 .. MaximumCount
        /\ (pc[w] \in Busy => npc[w] \in Npcs)
    BY <1>9, WorkerKnown DEF AddObject
  <2> QED
    BY <1>9, <2>1 DEF AddObject, Busy, Goto, Abandon
<1>10. ASSUME NEW w \in Workers, AddVisibleObject(w) PROVE TypeOK'
  <2>1. spawn[w] \in Spawns /\ jobs[w][spawn[w]] \in 1 .. MaximumCount
        /\ (pc[w] \in Busy => npc[w] \in Npcs)
    BY <1>10, WorkerKnown DEF AddVisibleObject
  <2> QED
    BY <1>10, <2>1 DEF AddVisibleObject, Busy, Goto, Abandon
<1>11. ASSUME NEW w \in Workers, Register(w) PROVE TypeOK'
  <2>1. spawn[w] \in Spawns /\ jobs[w][spawn[w]] \in 1 .. MaximumCount
        /\ (pc[w] \in Busy => npc[w] \in Npcs)
    BY <1>11, WorkerKnown DEF Register
  <2> QED
    BY <1>11, <2>1 DEF Register, Busy, Goto, Abandon
<1>12. ASSUME NEW w \in Workers, CountController(w) PROVE TypeOK'
  <2>1. spawn[w] \in Spawns /\ jobs[w][spawn[w]] \in 1 .. MaximumCount
        /\ (pc[w] \in Busy => npc[w] \in Npcs)
    BY <1>12, WorkerKnown DEF CountController
  <2> QED
    BY <1>12, <2>1 DEF CountController, Busy, Goto, Abandon
<1>13. ASSUME NEW w \in Workers, StartController(w) PROVE TypeOK'
  <2>1. spawn[w] \in Spawns /\ jobs[w][spawn[w]] \in 1 .. MaximumCount
        /\ (pc[w] \in Busy => npc[w] \in Npcs)
    BY <1>13, WorkerKnown DEF StartController
  <2> QED
    BY <1>13, <2>1 DEF StartController, Busy, Goto, Abandon
<1>14. ASSUME NEW k \in Killers, NEW n \in Npcs, Despawn(k, n) PROVE TypeOK'
  BY <1>14 DEF Despawn, KGoto
<1>15. ASSUME NEW k \in Killers, Unregister(k) PROVE TypeOK'
  BY <1>15 DEF Unregister, KGoto
<1>16. ASSUME NEW k \in Killers, UncountController(k) PROVE TypeOK'
  BY <1>16 DEF UncountController, KGoto
<1>17. ASSUME NEW k \in Killers, StopController(k) PROVE TypeOK'
  BY <1>17 DEF StopController, KGoto
<1>18. ASSUME NEW k \in Killers, RemoveObject(k) PROVE TypeOK'
  BY <1>18 DEF RemoveObject, KGoto
<1>19. ASSUME NEW k \in Killers, RemoveVisibleObject(k) PROVE TypeOK'
  BY <1>19 DEF RemoveVisibleObject, KGoto
<1>20. ASSUME NEW k \in Killers, RemoveNpc(k) PROVE TypeOK'
  BY <1>20 DEF RemoveNpc, KGoto
<1>21. ASSUME NEW k \in Killers, DecreaseCount(k) PROVE TypeOK'
  <2>1. victim[k] \in Npcs /\ spawnOf[victim[k]] \in Spawns
    BY <1>21, KillerKnown DEF DecreaseCount
  <2> QED
    BY <1>21, <2>1 DEF DecreaseCount, KGoto
<1>22. ASSUME NEW k \in Killers, ScheduleRespawn(k) PROVE TypeOK'
  <2>1. victim[k] \in Npcs /\ spawnOf[victim[k]] \in Spawns
    BY <1>22, KillerKnown DEF ScheduleRespawn
  <2> QED
    BY <1>22, <2>1 DEF ScheduleRespawn, KGoto
<1>23. ASSUME NEW s \in Spawns, CancelRespawn(s) PROVE TypeOK'
  BY <1>23 DEF CancelRespawn
<1>24. ASSUME NEW e \in Executors, NEW due \in SUBSET Spawns, ProcessTasks(e, due) PROVE TypeOK'
  BY <1>24 DEF ProcessTasks
<1>25. ASSUME UNCHANGED vars PROVE TypeOK'
  BY <1>25 DEF vars
<1> QED
  BY <1>1, <1>2, <1>3, <1>4, <1>5, <1>6, <1>7, <1>8, <1>9, <1>10, <1>11,
     <1>12, <1>13, <1>14, <1>15, <1>16, <1>17, <1>18, <1>19, <1>20, <1>21,
     <1>22, <1>23, <1>24, <1>25
     DEF KillerStep, SpawnNext, Tick, WorkerStep

-----------------------------------------------------------------------------
(* What a worker knows.                                                     *)

LEMMA WorkersStep ==
    ASSUME TypeOK, WorkersInv, KillersInv, PlacesInv, [SpawnNext]_vars
    PROVE  WorkersInv'
<1> USE SpawnAssumption DEF TypeOK, WorkersInv, Empty, Busy, WorkerLabels,
       spawnVars, worldVars, aiVars, workerVars, killerVars, historyVars
<1>1. ASSUME NEW w \in Workers, NEW s \in Spawns, Begin(w, s) PROVE WorkersInv'
  <2>1. \A v \in Workers : WorkerOK(v)'
    BY <1>1 DEF Begin, WorkerOK, Goto
  <2>2. UNCHANGED npc
    BY <1>1 DEF Begin
  <2> QED
    BY <2>1, <2>2
<1>2. ASSUME NEW w \in Workers, Peek(w) PROVE WorkersInv'
  <2>1. spawn[w] \in Spawns /\ jobs[w][spawn[w]] \in 1 .. MaximumCount
    BY <1>2, WorkerKnown DEF Peek
  <2> QED
    BY <1>2, <2>1 DEF Peek, WorkerOK, Goto, Abandon
<1>3. ASSUME NEW w \in Workers, Check(w) PROVE WorkersInv'
  <2>1. spawn[w] \in Spawns /\ jobs[w][spawn[w]] \in 1 .. MaximumCount
    BY <1>3, WorkerKnown DEF Check
  <2> QED
    BY <1>3, <2>1 DEF Check, WorkerOK, Goto, Abandon
<1>4. ASSUME NEW w \in Workers, LoadTemplate(w) PROVE WorkersInv'
  <2>1. spawn[w] \in Spawns /\ jobs[w][spawn[w]] \in 1 .. MaximumCount
    BY <1>4, WorkerKnown DEF LoadTemplate
  <2>2. CASE Abandon(w) /\ UNCHANGED spawnOf
    BY <1>4, <2>1, <2>2 DEF LoadTemplate, WorkerOK, Goto, Abandon
  <2>3. ASSUME NEW n \in Npcs, spawnOf[n] = NoSpawn,
               spawnOf' = [spawnOf EXCEPT ![n] = spawn[w]], npc' = [npc EXCEPT ![w] = n],
               Goto(w, "count"), UNCHANGED <<jobs, spawn>>
        PROVE  WorkersInv'
    <3>1. \A v \in Workers : npc[v] # n
      BY <2>3, Fresh
    <3>2. \A v \in Workers : WorkerOK(v)'
      BY <1>4, <2>1, <2>3, <3>1 DEF WorkerOK, Goto
    <3>3. \A v, u \in Workers : npc'[v] = npc'[u] /\ npc'[v] # NoNpc => v = u
      BY <2>3, <3>1
    <3> QED
      BY <3>2, <3>3
  <2> QED
    BY <1>4, <2>2, <2>3 DEF LoadTemplate
<1>5. ASSUME NEW w \in Workers, IncreaseCount(w) PROVE WorkersInv'
  <2>1. spawn[w] \in Spawns /\ jobs[w][spawn[w]] \in 1 .. MaximumCount
    BY <1>5, WorkerKnown DEF IncreaseCount
  <2> QED
    BY <1>5, <2>1 DEF IncreaseCount, WorkerOK, Goto, Abandon
<1>6. ASSUME NEW w \in Workers, AddNpc(w) PROVE WorkersInv'
  <2>1. spawn[w] \in Spawns /\ jobs[w][spawn[w]] \in 1 .. MaximumCount
    BY <1>6, WorkerKnown DEF AddNpc
  <2> QED
    BY <1>6, <2>1 DEF AddNpc, WorkerOK, Goto, Abandon
<1>7. ASSUME NEW w \in Workers, UndoCount(w) PROVE WorkersInv'
  <2>1. spawn[w] \in Spawns /\ jobs[w][spawn[w]] \in 1 .. MaximumCount
    BY <1>7, WorkerKnown DEF UndoCount
  <2> QED
    BY <1>7, <2>1 DEF UndoCount, WorkerOK, Goto, Abandon
<1>8. ASSUME NEW w \in Workers, UndoList(w) PROVE WorkersInv'
  <2>1. spawn[w] \in Spawns /\ jobs[w][spawn[w]] \in 1 .. MaximumCount
    BY <1>8, WorkerKnown DEF UndoList
  <2> QED
    BY <1>8, <2>1 DEF UndoList, WorkerOK, Goto, Abandon
<1>9. ASSUME NEW w \in Workers, AddObject(w) PROVE WorkersInv'
  <2>1. spawn[w] \in Spawns /\ jobs[w][spawn[w]] \in 1 .. MaximumCount
    BY <1>9, WorkerKnown DEF AddObject
  <2> QED
    BY <1>9, <2>1 DEF AddObject, WorkerOK, Goto, Abandon
<1>10. ASSUME NEW w \in Workers, AddVisibleObject(w) PROVE WorkersInv'
  <2>1. spawn[w] \in Spawns /\ jobs[w][spawn[w]] \in 1 .. MaximumCount
    BY <1>10, WorkerKnown DEF AddVisibleObject
  <2> QED
    BY <1>10, <2>1 DEF AddVisibleObject, WorkerOK, Goto, Abandon
<1>11. ASSUME NEW w \in Workers, Register(w) PROVE WorkersInv'
  <2>1. spawn[w] \in Spawns /\ jobs[w][spawn[w]] \in 1 .. MaximumCount
    BY <1>11, WorkerKnown DEF Register
  <2> QED
    BY <1>11, <2>1 DEF Register, WorkerOK, Goto, Abandon
<1>12. ASSUME NEW w \in Workers, CountController(w) PROVE WorkersInv'
  <2>1. spawn[w] \in Spawns /\ jobs[w][spawn[w]] \in 1 .. MaximumCount
    BY <1>12, WorkerKnown DEF CountController
  <2> QED
    BY <1>12, <2>1 DEF CountController, WorkerOK, Goto, Abandon
<1>13. ASSUME NEW w \in Workers, StartController(w) PROVE WorkersInv'
  <2>1. spawn[w] \in Spawns /\ jobs[w][spawn[w]] \in 1 .. MaximumCount
    BY <1>13, WorkerKnown DEF StartController
  <2> QED
    BY <1>13, <2>1 DEF StartController, WorkerOK, Goto, Abandon
<1>14. ASSUME NEW k \in Killers, NEW n \in Npcs, Despawn(k, n) PROVE WorkersInv'
  BY <1>14 DEF Despawn, WorkerOK
<1>15. ASSUME NEW k \in Killers, KillerStep(k) PROVE WorkersInv'
  BY <1>15, KillerFrame DEF WorkerOK
<1>16. ASSUME NEW s \in Spawns, CancelRespawn(s) PROVE WorkersInv'
  BY <1>16 DEF CancelRespawn, WorkerOK
<1>17. ASSUME NEW e \in Executors, NEW due \in SUBSET Spawns, ProcessTasks(e, due)
       PROVE WorkersInv'
  BY <1>17, SpawnAssumption DEF ProcessTasks, WorkerOK
<1>18. ASSUME UNCHANGED vars PROVE WorkersInv'
  BY <1>18 DEF vars, WorkerOK
<1> QED
  BY <1>1, <1>2, <1>3, <1>4, <1>5, <1>6, <1>7, <1>8, <1>9, <1>10, <1>11,
     <1>12, <1>13, <1>14, <1>15, <1>16, <1>17, <1>18
     DEF SpawnNext, Tick, WorkerStep

-----------------------------------------------------------------------------
(* What a killer knows.                                                     *)

LEMMA KillersStep ==
    ASSUME TypeOK, WorkersInv, KillersInv, PlacesInv, [SpawnNext]_vars
    PROVE  KillersInv'
<1> USE SpawnAssumption DEF TypeOK, KillersInv, KillerLabels,
       spawnVars, worldVars, aiVars, workerVars, killerVars, historyVars
<1>1. ASSUME NEW w \in Workers, NEW s \in Spawns, Begin(w, s) PROVE KillersInv'
  BY <1>1 DEF Begin, KillerOK, BeingSpawned, Abandon
<1>2. ASSUME NEW w \in Workers, Peek(w) PROVE KillersInv'
  BY <1>2 DEF Peek, KillerOK, BeingSpawned, Abandon
<1>3. ASSUME NEW w \in Workers, Check(w) PROVE KillersInv'
  BY <1>3 DEF Check, KillerOK, BeingSpawned, Abandon
<1>4. ASSUME NEW w \in Workers, LoadTemplate(w) PROVE KillersInv'
  <2>1. CASE Abandon(w) /\ UNCHANGED spawnOf
    BY <1>4, <2>1 DEF LoadTemplate, KillerOK, BeingSpawned, Abandon
  <2>2. ASSUME NEW n \in Npcs, spawnOf[n] = NoSpawn,
               spawnOf' = [spawnOf EXCEPT ![n] = spawn[w]], npc' = [npc EXCEPT ![w] = n]
        PROVE  KillersInv'
    <3>1. \A k \in Killers : victim[k] # n
      BY <2>2, Fresh
    <3>2. ASSUME NEW k \in Killers PROVE KillerOK(k)'
      BY <1>4, <2>2, <3>1, <3>2 DEF LoadTemplate, KillerOK, BeingSpawned
    <3> QED
      BY <3>2
  <2> QED
    BY <1>4, <2>1, <2>2 DEF LoadTemplate
<1>5. ASSUME NEW w \in Workers, IncreaseCount(w) PROVE KillersInv'
  BY <1>5 DEF IncreaseCount, KillerOK, BeingSpawned, Abandon
<1>6. ASSUME NEW w \in Workers, AddNpc(w) PROVE KillersInv'
  BY <1>6 DEF AddNpc, KillerOK, BeingSpawned, Abandon
<1>7. ASSUME NEW w \in Workers, UndoCount(w) PROVE KillersInv'
  BY <1>7 DEF UndoCount, KillerOK, BeingSpawned, Abandon
<1>8. ASSUME NEW w \in Workers, UndoList(w) PROVE KillersInv'
  BY <1>8 DEF UndoList, KillerOK, BeingSpawned, Abandon
<1>9. ASSUME NEW w \in Workers, AddObject(w) PROVE KillersInv'
  BY <1>9 DEF AddObject, KillerOK, BeingSpawned, Abandon
<1>10. ASSUME NEW w \in Workers, AddVisibleObject(w) PROVE KillersInv'
  BY <1>10 DEF AddVisibleObject, KillerOK, BeingSpawned, Abandon
<1>11. ASSUME NEW w \in Workers, Register(w) PROVE KillersInv'
  BY <1>11 DEF Register, KillerOK, BeingSpawned, Abandon
<1>12. ASSUME NEW w \in Workers, CountController(w) PROVE KillersInv'
  BY <1>12 DEF CountController, KillerOK, BeingSpawned, Abandon
<1>13. ASSUME NEW w \in Workers, StartController(w) PROVE KillersInv'
  BY <1>13 DEF StartController, KillerOK, BeingSpawned, Abandon
<1>14. ASSUME NEW k \in Killers, NEW n \in Npcs, Despawn(k, n) PROVE KillersInv'
  <2>1. spawnOf[n] \in Spawns
    BY <1>14 DEF Despawn, PlacesInv, OwnPlaces
  <2>2. victim' = [victim EXCEPT ![k] = n] /\ kpc' = [kpc EXCEPT ![k] = "unregister"]
        /\ UNCHANGED <<npc, spawnOf>> /\ victim[k] = NoNpc
    BY <1>14 DEF Despawn, KGoto, KillerOK
  <2>3. /\ raced \subseteq raced'
        /\ n \notin raced' => ~ BeingSpawned(n) /\ \A o \in Killers : victim[o] # n
    BY <1>14 DEF Despawn
  <2>4. ASSUME NEW o \in Killers PROVE KillerOK(o)'
    <3>1. CASE o = k
      BY <2>1, <2>2, <2>3, <3>1 DEF KillerOK, BeingSpawned
    <3>2. CASE o # k /\ victim[o] = n
      BY <2>1, <2>2, <2>3, <3>2 DEF KillerOK, BeingSpawned
    <3>3. CASE o # k /\ victim[o] # n
      BY <2>1, <2>2, <2>3, <3>3 DEF KillerOK, BeingSpawned
    <3> QED
      BY <3>1, <3>2, <3>3
  <2> QED
    BY <2>4
<1>15. ASSUME NEW k \in Killers, Unregister(k) PROVE KillersInv'
  BY <1>15 DEF Unregister, KillerOK, BeingSpawned, KGoto
<1>16. ASSUME NEW k \in Killers, UncountController(k) PROVE KillersInv'
  BY <1>16 DEF UncountController, KillerOK, BeingSpawned, KGoto
<1>17. ASSUME NEW k \in Killers, StopController(k) PROVE KillersInv'
  BY <1>17 DEF StopController, KillerOK, BeingSpawned, KGoto
<1>18. ASSUME NEW k \in Killers, RemoveObject(k) PROVE KillersInv'
  BY <1>18 DEF RemoveObject, KillerOK, BeingSpawned, KGoto
<1>19. ASSUME NEW k \in Killers, RemoveVisibleObject(k) PROVE KillersInv'
  BY <1>19 DEF RemoveVisibleObject, KillerOK, BeingSpawned, KGoto
<1>20. ASSUME NEW k \in Killers, RemoveNpc(k) PROVE KillersInv'
  BY <1>20 DEF RemoveNpc, KillerOK, BeingSpawned, KGoto
<1>21. ASSUME NEW k \in Killers, DecreaseCount(k) PROVE KillersInv'
  BY <1>21 DEF DecreaseCount, KillerOK, BeingSpawned, KGoto
<1>22. ASSUME NEW k \in Killers, ScheduleRespawn(k) PROVE KillersInv'
  BY <1>22 DEF ScheduleRespawn, KillerOK, BeingSpawned, KGoto
<1>23. ASSUME NEW s \in Spawns, CancelRespawn(s) PROVE KillersInv'
  BY <1>23 DEF CancelRespawn, KillerOK, BeingSpawned
<1>24. ASSUME NEW e \in Executors, NEW due \in SUBSET Spawns, ProcessTasks(e, due)
       PROVE KillersInv'
  BY <1>24 DEF ProcessTasks, KillerOK, BeingSpawned
<1>25. ASSUME UNCHANGED vars PROVE KillersInv'
  BY <1>25 DEF vars, KillerOK, BeingSpawned
<1> QED
  BY <1>1, <1>2, <1>3, <1>4, <1>5, <1>6, <1>7, <1>8, <1>9, <1>10, <1>11,
     <1>12, <1>13, <1>14, <1>15, <1>16, <1>17, <1>18, <1>19, <1>20, <1>21,
     <1>22, <1>23, <1>24, <1>25
     DEF KillerStep, SpawnNext, Tick, WorkerStep

-----------------------------------------------------------------------------
(* The places of an NPC.                                                    *)

LEMMA PlacesStep ==
    ASSUME TypeOK, WorkersInv, KillersInv, PlacesInv, [SpawnNext]_vars
    PROVE  PlacesInv'
<1> USE SpawnAssumption DEF TypeOK, PlacesInv,
       spawnVars, worldVars, aiVars, workerVars, killerVars, historyVars
<1>1. ASSUME NEW w \in Workers, NEW s \in Spawns, Begin(w, s) PROVE PlacesInv'
  BY <1>1 DEF Begin, OwnPlaces, RegistersOnce, Busy, Goto
<1>2. ASSUME NEW w \in Workers, Peek(w) PROVE PlacesInv'
  <2>1. /\ pc[w] # "next" /\ spawn[w] \in Spawns /\ spawnOf' = spawnOf
        /\ pc[w] \in Busy => npc[w] \in Npcs /\ spawnOf[npc[w]] = spawn[w]
    BY <1>2, WorkerKnown DEF Peek
  <2> QED
    BY <1>2, <2>1 DEF Peek, OwnPlaces, RegistersOnce, Busy, Goto, Abandon
<1>3. ASSUME NEW w \in Workers, Check(w) PROVE PlacesInv'
  <2>1. /\ pc[w] # "next" /\ spawn[w] \in Spawns /\ spawnOf' = spawnOf
        /\ pc[w] \in Busy => npc[w] \in Npcs /\ spawnOf[npc[w]] = spawn[w]
    BY <1>3, WorkerKnown DEF Check
  <2> QED
    BY <1>3, <2>1 DEF Check, OwnPlaces, RegistersOnce, Busy, Goto, Abandon
<1>4. ASSUME NEW w \in Workers, LoadTemplate(w) PROVE PlacesInv'
  <2>1. spawn[w] \in Spawns
    BY <1>4, WorkerKnown DEF LoadTemplate
  <2>2. CASE Abandon(w) /\ UNCHANGED spawnOf
    BY <1>4, <2>1, <2>2 DEF LoadTemplate, OwnPlaces, RegistersOnce, Busy, Goto, Abandon
  <2>3. ASSUME NEW n \in Npcs, spawnOf[n] = NoSpawn,
               spawnOf' = [spawnOf EXCEPT ![n] = spawn[w]], npc' = [npc EXCEPT ![w] = n],
               Goto(w, "count"), UNCHANGED <<jobs, spawn>>
        PROVE  PlacesInv'
    <3>1. /\ n \notin objects \cup visible \cup controllers \cup running
          /\ \A s \in Spawns : n \notin npcList[s]
      BY <2>3, Fresh
    <3>2. UNCHANGED <<npcList, objects, visible, controllers, running>>
      BY <1>4 DEF LoadTemplate
    <3>3. OwnPlaces'
      BY <2>1, <2>3, <3>1, <3>2 DEF OwnPlaces
    <3>4. RegistersOnce'
      BY <2>3, <3>1, <3>2 DEF RegistersOnce, Goto
    <3> QED
      BY <3>3, <3>4
  <2> QED
    BY <1>4, <2>2, <2>3 DEF LoadTemplate
<1>5. ASSUME NEW w \in Workers, IncreaseCount(w) PROVE PlacesInv'
  <2>1. /\ pc[w] # "next" /\ spawn[w] \in Spawns /\ spawnOf' = spawnOf
        /\ pc[w] \in Busy => npc[w] \in Npcs /\ spawnOf[npc[w]] = spawn[w]
    BY <1>5, WorkerKnown DEF IncreaseCount
  <2> QED
    BY <1>5, <2>1 DEF IncreaseCount, OwnPlaces, RegistersOnce, Busy, Goto, Abandon
<1>6. ASSUME NEW w \in Workers, AddNpc(w) PROVE PlacesInv'
  <2>1. /\ pc[w] # "next" /\ spawn[w] \in Spawns /\ spawnOf' = spawnOf
        /\ pc[w] \in Busy => npc[w] \in Npcs /\ spawnOf[npc[w]] = spawn[w]
    BY <1>6, WorkerKnown DEF AddNpc
  <2> QED
    BY <1>6, <2>1 DEF AddNpc, OwnPlaces, RegistersOnce, Busy, Goto, Abandon
<1>7. ASSUME NEW w \in Workers, UndoCount(w) PROVE PlacesInv'
  <2>1. /\ pc[w] # "next" /\ spawn[w] \in Spawns /\ spawnOf' = spawnOf
        /\ pc[w] \in Busy => npc[w] \in Npcs /\ spawnOf[npc[w]] = spawn[w]
    BY <1>7, WorkerKnown DEF UndoCount
  <2> QED
    BY <1>7, <2>1 DEF UndoCount, OwnPlaces, RegistersOnce, Busy, Goto, Abandon
<1>8. ASSUME NEW w \in Workers, UndoList(w) PROVE PlacesInv'
  <2>1. /\ pc[w] # "next" /\ spawn[w] \in Spawns /\ spawnOf' = spawnOf
        /\ pc[w] \in Busy => npc[w] \in Npcs /\ spawnOf[npc[w]] = spawn[w]
    BY <1>8, WorkerKnown DEF UndoList
  <2> QED
    BY <1>8, <2>1 DEF UndoList, OwnPlaces, RegistersOnce, Busy, Goto, Abandon
<1>9. ASSUME NEW w \in Workers, AddObject(w) PROVE PlacesInv'
  <2>1. /\ pc[w] # "next" /\ spawn[w] \in Spawns /\ spawnOf' = spawnOf
        /\ pc[w] \in Busy => npc[w] \in Npcs /\ spawnOf[npc[w]] = spawn[w]
    BY <1>9, WorkerKnown DEF AddObject
  <2> QED
    BY <1>9, <2>1 DEF AddObject, OwnPlaces, RegistersOnce, Busy, Goto, Abandon
<1>10. ASSUME NEW w \in Workers, AddVisibleObject(w) PROVE PlacesInv'
  <2>1. /\ pc[w] # "next" /\ spawn[w] \in Spawns /\ spawnOf' = spawnOf
        /\ pc[w] \in Busy => npc[w] \in Npcs /\ spawnOf[npc[w]] = spawn[w]
    BY <1>10, WorkerKnown DEF AddVisibleObject
  <2> QED
    BY <1>10, <2>1 DEF AddVisibleObject, OwnPlaces, RegistersOnce, Busy, Goto, Abandon
<1>11. ASSUME NEW w \in Workers, Register(w) PROVE PlacesInv'
  <2>1. /\ spawn[w] \in Spawns /\ spawnOf' = spawnOf
        /\ npc[w] \in Npcs /\ spawnOf[npc[w]] = spawn[w]
        /\ \A v \in Workers : npc[v] = npc[w] => v = w
    BY <1>11, WorkerKnown DEF Register, Busy, WorkersInv
  <2>2. OwnPlaces'
    BY <1>11, <2>1 DEF Register, OwnPlaces
  <2>3. RegistersOnce'
    BY <1>11, <2>1 DEF Register, RegistersOnce, Busy, Goto
  <2> QED
    BY <2>2, <2>3
<1>12. ASSUME NEW w \in Workers, CountController(w) PROVE PlacesInv'
  <2>1. /\ pc[w] # "next" /\ spawn[w] \in Spawns /\ spawnOf' = spawnOf
        /\ pc[w] \in Busy => npc[w] \in Npcs /\ spawnOf[npc[w]] = spawn[w]
    BY <1>12, WorkerKnown DEF CountController
  <2> QED
    BY <1>12, <2>1 DEF CountController, OwnPlaces, RegistersOnce, Busy, Goto, Abandon
<1>13. ASSUME NEW w \in Workers, StartController(w) PROVE PlacesInv'
  <2>1. /\ pc[w] # "next" /\ spawn[w] \in Spawns /\ spawnOf' = spawnOf
        /\ pc[w] \in Busy => npc[w] \in Npcs /\ spawnOf[npc[w]] = spawn[w]
    BY <1>13, WorkerKnown DEF StartController
  <2> QED
    BY <1>13, <2>1 DEF StartController, OwnPlaces, RegistersOnce, Busy, Goto, Abandon
<1>14. ASSUME NEW k \in Killers, NEW n \in Npcs, Despawn(k, n) PROVE PlacesInv'
  BY <1>14 DEF Despawn, OwnPlaces, RegistersOnce
<1>15. ASSUME NEW k \in Killers, Unregister(k) PROVE PlacesInv'
  <2>1. UNCHANGED <<pc, npc, spawnOf>>
    BY <1>15 DEF Unregister
  <2>2. victim[k] \in Npcs /\ spawnOf[victim[k]] \in Spawns
    BY <1>15, KillerKnown DEF Unregister
  <2> QED
    BY <1>15, <2>1, <2>2 DEF Unregister, OwnPlaces, RegistersOnce
<1>16. ASSUME NEW k \in Killers, UncountController(k) PROVE PlacesInv'
  <2>1. UNCHANGED <<pc, npc, spawnOf>>
    BY <1>16 DEF UncountController
  <2>2. victim[k] \in Npcs /\ spawnOf[victim[k]] \in Spawns
    BY <1>16, KillerKnown DEF UncountController
  <2> QED
    BY <1>16, <2>1, <2>2 DEF UncountController, OwnPlaces, RegistersOnce
<1>17. ASSUME NEW k \in Killers, StopController(k) PROVE PlacesInv'
  <2>1. UNCHANGED <<pc, npc, spawnOf>>
    BY <1>17 DEF StopController
  <2>2. victim[k] \in Npcs /\ spawnOf[victim[k]] \in Spawns
    BY <1>17, KillerKnown DEF StopController
  <2> QED
    BY <1>17, <2>1, <2>2 DEF StopController, OwnPlaces, RegistersOnce
<1>18. ASSUME NEW k \in Killers, RemoveObject(k) PROVE PlacesInv'
  <2>1. UNCHANGED <<pc, npc, spawnOf>>
    BY <1>18 DEF RemoveObject
  <2>2. victim[k] \in Npcs /\ spawnOf[victim[k]] \in Spawns
    BY <1>18, KillerKnown DEF RemoveObject
  <2> QED
    BY <1>18, <2>1, <2>2 DEF RemoveObject, OwnPlaces, RegistersOnce
<1>19. ASSUME NEW k \in Killers, RemoveVisibleObject(k) PROVE PlacesInv'
  <2>1. UNCHANGED <<pc, npc, spawnOf>>
    BY <1>19 DEF RemoveVisibleObject
  <2>2. victim[k] \in Npcs /\ spawnOf[victim[k]] \in Spawns
    BY <1>19, KillerKnown DEF RemoveVisibleObject
  <2> QED
    BY <1>19, <2>1, <2>2 DEF RemoveVisibleObject, OwnPlaces, RegistersOnce
<1>20. ASSUME NEW k \in Killers, RemoveNpc(k) PROVE PlacesInv'
  <2>1. UNCHANGED <<pc, npc, spawnOf>>
    BY <1>20 DEF RemoveNpc
  <2>2. victim[k] \in Npcs /\ spawnOf[victim[k]] \in Spawns
    BY <1>20, KillerKnown DEF RemoveNpc
  <2> QED
    BY <1>20, <2>1, <2>2 DEF RemoveNpc, OwnPlaces, RegistersOnce
<1>21. ASSUME NEW k \in Killers, DecreaseCount(k) PROVE PlacesInv'
  <2>1. UNCHANGED <<pc, npc, spawnOf>>
    BY <1>21 DEF DecreaseCount
  <2>2. victim[k] \in Npcs /\ spawnOf[victim[k]] \in Spawns
    BY <1>21, KillerKnown DEF DecreaseCount
  <2> QED
    BY <1>21, <2>1, <2>2 DEF DecreaseCount, OwnPlaces, RegistersOnce
<1>22. ASSUME NEW k \in Killers, ScheduleRespawn(k) PROVE PlacesInv'
  <2>1. UNCHANGED <<pc, npc, spawnOf>>
    BY <1>22 DEF ScheduleRespawn
  <2>2. victim[k] \in Npcs /\ spawnOf[victim[k]] \in Spawns
    BY <1>22, KillerKnown DEF ScheduleRespawn
  <2> QED
    BY <1>22, <2>1, <2>2 DEF ScheduleRespawn, OwnPlaces, RegistersOnce
<1>23. ASSUME NEW s \in Spawns, CancelRespawn(s) PROVE PlacesInv'
  BY <1>23 DEF CancelRespawn, OwnPlaces, RegistersOnce
<1>24. ASSUME NEW e \in Executors, NEW due \in SUBSET Spawns, ProcessTasks(e, due)
       PROVE PlacesInv'
  BY <1>24 DEF ProcessTasks, OwnPlaces, RegistersOnce
<1>25. ASSUME UNCHANGED vars PROVE PlacesInv'
  BY <1>25 DEF vars, OwnPlaces, RegistersOnce
<1> QED
  BY <1>1, <1>2, <1>3, <1>4, <1>5, <1>6, <1>7, <1>8, <1>9, <1>10, <1>11,
     <1>12, <1>13, <1>14, <1>15, <1>16, <1>17, <1>18, <1>19, <1>20, <1>21,
     <1>22, <1>23, <1>24, <1>25
     DEF KillerStep, SpawnNext, Tick, WorkerStep

-----------------------------------------------------------------------------
(* The stage of an NPC, which the one goroutine that works on it moves.     *)

\* A step that leaves n and those who work on it alone leaves it in its stage.
LEMMA StageKept ==
    ASSUME StagesInv, NEW n \in Npcs \ raced, spawnOf[n] \in Spawns, spawnOf'[n] = spawnOf[n],
           InList(n)' <=> InList(n), n \in objects' <=> n \in objects,
           n \in visible' <=> n \in visible, n \in controllers' <=> n \in controllers,
           n \in running' <=> n \in running,
           \A w \in Workers : /\ npc'[w] = n <=> npc[w] = n
                              /\ npc[w] = n => pc'[w] = pc[w],
           \A k \in Killers : /\ victim'[k] = n <=> victim[k] = n
                              /\ victim[k] = n => kpc'[k] = kpc[k]
    PROVE  StageOK(n)'
<1>1. StageOK(n)
  BY DEF StagesInv
<1>2. BeingSpawned(n)' <=> BeingSpawned(n)
  BY DEF BeingSpawned
<1>3. ASSUME NEW w \in Workers, npc'[w] = n PROVE SpawnStage(n, pc[w])'
  BY <1>1, <1>3 DEF StageOK, SpawnStage
<1>4. ASSUME NEW k \in Killers, victim'[k] = n PROVE DespawnStage(n, kpc[k])'
  BY <1>1, <1>4 DEF StageOK, DespawnStage
<1>5. ASSUME ~ BeingSpawned(n)', \A k \in Killers : victim'[k] # n
      PROVE  (Everywhere(n) \/ Nowhere(n))'
  BY <1>1, <1>2, <1>5 DEF StageOK, Everywhere, Nowhere
<1> QED
  BY <1>3, <1>4, <1>5 DEF StageOK

\* What StageOK says of an NPC that one worker is spawning.
LEMMA SpawnedAlone ==
    ASSUME WorkersInv, KillersInv, StagesInv, NEW w \in Workers,
           npc[w] \in Npcs \ raced, spawnOf[npc[w]] \in Spawns
    PROVE  /\ SpawnStage(npc[w], pc[w])
           /\ \A k \in Killers : victim[k] # npc[w]
<1>1. StageOK(npc[w]) /\ BeingSpawned(npc[w])
  BY DEF StagesInv, BeingSpawned
<1>2. \A k \in Killers : victim[k] # npc[w]
  BY <1>1 DEF KillersInv, KillerOK
<1> QED
  BY <1>1, <1>2 DEF StageOK

\* And of one that one goroutine is despawning.
LEMMA DespawnedAlone ==
    ASSUME KillersInv, StagesInv, NEW k \in Killers, victim[k] \in Npcs \ raced
    PROVE  /\ DespawnStage(victim[k], kpc[k]) /\ ~ BeingSpawned(victim[k])
           /\ \A o \in Killers : victim[o] = victim[k] => o = k
<1>1. spawnOf[victim[k]] \in Spawns
  BY DEF KillersInv, KillerOK
<1> QED
  BY <1>1 DEF StagesInv, StageOK, KillersInv, KillerOK

\* A worker's step leaves every other NPC in its stage, one of a goroutine that
\* despawns too.
LEMMA WorkerLeavesOthers ==
    ASSUME TypeOK, StagesInv, NEW w \in Workers, WorkerStep(w), spawn[w] \in Spawns,
           pc[w] \in Busy, spawnOf[npc[w]] = spawn[w],
           NEW n \in Npcs \ raced, spawnOf[n] \in Spawns, n # npc[w]
    PROVE  StageOK(n)'
<1>1. /\ UNCHANGED spawnOf
      /\ n \in objects' <=> n \in objects
      /\ n \in visible' <=> n \in visible
      /\ n \in controllers' <=> n \in controllers
      /\ n \in running' <=> n \in running
      /\ npc'[w] # n /\ \A v \in Workers \ {w} : npc'[v] = npc[v] /\ pc'[v] = pc[v]
  BY SpawnAssumption DEF TypeOK, Busy, WorkerStep, Begin, Peek, Check, LoadTemplate,
     IncreaseCount, AddNpc, UndoCount, UndoList, AddObject, AddVisibleObject, Register,
     CountController, StartController, Goto, Abandon, worldVars, aiVars, historyVars
<1>2. InList(n)' <=> InList(n)
  BY <1>1 DEF InList, TypeOK, Busy, WorkerStep, Begin, Peek, Check, LoadTemplate,
     IncreaseCount, AddNpc, UndoCount, UndoList, AddObject, AddVisibleObject, Register,
     CountController, StartController, spawnVars
<1> QED
  BY <1>1, <1>2, WorkerFrame, StageKept

\* The same of a despawning goroutine.
LEMMA KillerLeavesOthers ==
    ASSUME TypeOK, StagesInv, NEW k \in Killers, KillerStep(k),
           NEW n \in Npcs \ raced, spawnOf[n] \in Spawns, n # victim[k]
    PROVE  StageOK(n)'
<1>1. /\ n \in objects' <=> n \in objects
      /\ n \in visible' <=> n \in visible
      /\ n \in controllers' <=> n \in controllers
      /\ n \in running' <=> n \in running
      /\ victim'[k] # n /\ \A o \in Killers \ {k} : victim'[o] = victim[o] /\ kpc'[o] = kpc[o]
  BY SpawnAssumption DEF TypeOK, KGoto, KillerStep, Unregister, UncountController,
     StopController, RemoveObject, RemoveVisibleObject, RemoveNpc, DecreaseCount,
     ScheduleRespawn, worldVars, aiVars
<1>2. InList(n)' <=> InList(n)
  BY KillerFrame DEF InList, TypeOK, KillerStep, Unregister, UncountController,
     StopController, RemoveObject, RemoveVisibleObject, RemoveNpc, DecreaseCount,
     ScheduleRespawn, spawnVars
<1> QED
  BY <1>1, <1>2, KillerFrame, StageKept

\* So it is enough to see what becomes of the NPC itself.
LEMMA WorkerStage ==
    ASSUME TypeOK, WorkersInv, KillersInv, StagesInv, NEW w \in Workers, WorkerStep(w),
           pc[w] \in Busy,
           \A m \in Npcs : /\ m = npc[w] /\ spawn[w] \in Spawns /\ spawnOf[m] = spawn[w]
                           /\ SpawnStage(m, pc[w])
                         => \/ npc'[w] = m /\ SpawnStage(m, pc[w])'
                            \/ npc'[w] # m /\ (Everywhere(m) \/ Nowhere(m))'
    PROVE  StagesInv'
<1>1. PICK m \in Npcs : /\ m = npc[w] /\ spawn[w] \in Spawns /\ spawnOf[m] = spawn[w]
                        /\ \A v \in Workers : npc[v] = m => v = w
  BY WorkerKnown, SpawnAssumption DEF Busy, WorkersInv
<1>2. UNCHANGED <<kpc, victim, raced>> /\ \A v \in Workers \ {w} : npc'[v] = npc[v]
  BY WorkerFrame, WorkerAlone
<1>3. spawnOf' = spawnOf
  BY DEF Busy, WorkerStep, Begin, Peek, Check, LoadTemplate, IncreaseCount, AddNpc, UndoCount,
     UndoList, AddObject, AddVisibleObject, Register, CountController, StartController,
     historyVars
<1>4. ASSUME NEW n \in Npcs \ raced, spawnOf[n] \in Spawns, n # m PROVE StageOK(n)'
  BY <1>1, <1>4, WorkerLeavesOthers
<1>5. ASSUME m \notin raced PROVE StageOK(m)'
  <2>1. SpawnStage(m, pc[w]) /\ \A k \in Killers : victim[k] # m
    BY <1>1, <1>5, SpawnedAlone
  <2>2. CASE npc'[w] = m /\ SpawnStage(m, pc[w])'
    BY <1>1, <1>2, <2>1, <2>2 DEF StageOK, BeingSpawned
  <2>3. CASE npc'[w] # m /\ (Everywhere(m) \/ Nowhere(m))'
    BY <1>1, <1>2, <2>1, <2>3 DEF StageOK, BeingSpawned
  <2> QED
    BY <1>1, <2>1, <2>2, <2>3
<1> QED
  BY <1>2, <1>3, <1>4, <1>5 DEF StagesInv

\* The same of a despawning goroutine.
LEMMA KillerStage ==
    ASSUME TypeOK, KillersInv, StagesInv, NEW k \in Killers, KillerStep(k), kpc[k] # "idle",
           \A m \in Npcs : m = victim[k] /\ spawnOf[m] \in Spawns /\ DespawnStage(m, kpc[k]) =>
               \/ victim'[k] = m /\ DespawnStage(m, kpc[k])'
               \/ victim'[k] # m /\ Nowhere(m)'
    PROVE  StagesInv'
<1>1. PICK m \in Npcs : m = victim[k] /\ spawnOf[m] \in Spawns
  BY KillerKnown
<1>2. UNCHANGED <<pc, npc, spawnOf, raced>> /\ \A o \in Killers \ {k} : victim'[o] = victim[o]
  BY KillerFrame, KillerAlone
<1>3. ASSUME NEW n \in Npcs \ raced, spawnOf[n] \in Spawns, n # m PROVE StageOK(n)'
  BY <1>1, <1>3, KillerLeavesOthers
<1>4. ASSUME m \notin raced PROVE StageOK(m)'
  <2>1. /\ DespawnStage(m, kpc[k]) /\ ~ BeingSpawned(m)
        /\ \A o \in Killers : victim[o] = m => o = k
    BY <1>1, <1>4, DespawnedAlone
  <2>2. CASE victim'[k] = m /\ DespawnStage(m, kpc[k])'
    BY <1>1, <1>2, <2>1, <2>2 DEF StageOK, BeingSpawned
  <2>3. CASE victim'[k] # m /\ Nowhere(m)'
    BY <1>1, <1>2, <2>1, <2>3 DEF StageOK, BeingSpawned
  <2> QED
    BY <1>1, <2>1, <2>2, <2>3
<1> QED
  BY <1>2, <1>3, <1>4 DEF StagesInv

LEMMA StagesStep ==
    ASSUME TypeOK, WorkersInv, KillersInv, PlacesInv, StagesInv, [SpawnNext]_vars
    PROVE  StagesInv'
<1> USE SpawnAssumption DEF TypeOK, StagesInv,
       spawnVars, worldVars, aiVars, workerVars, killerVars, historyVars
<1>1. ASSUME NEW w \in Workers, NEW s \in Spawns, Begin(w, s) PROVE StagesInv'
  <2>1. UNCHANGED <<npc, npcList, objects, visible, controllers, running, kpc, victim, spawnOf, raced>>
    BY <1>1 DEF Begin, Abandon, WorkersInv, WorkerOK, Empty
  <2>2. ASSUME NEW n \in Npcs \ raced, spawnOf[n] \in Spawns PROVE StageOK(n)'
    <3>1. \A v \in Workers : npc[v] = n => pc'[v] = pc[v]
      BY <1>1, <2>1 DEF Begin, Goto, Abandon, WorkersInv, WorkerOK, Empty
    <3> QED
      BY <2>1, <2>2, <3>1, StageKept DEF InList
  <2> QED
    BY <2>1, <2>2
<1>2. ASSUME NEW w \in Workers, Peek(w) PROVE StagesInv'
  <2>1. UNCHANGED <<npc, npcList, objects, visible, controllers, running, kpc, victim, spawnOf, raced>>
    BY <1>2 DEF Peek, Abandon, WorkersInv, WorkerOK, Empty
  <2>2. ASSUME NEW n \in Npcs \ raced, spawnOf[n] \in Spawns PROVE StageOK(n)'
    <3>1. \A v \in Workers : npc[v] = n => pc'[v] = pc[v]
      BY <1>2, <2>1 DEF Peek, Goto, Abandon, WorkersInv, WorkerOK, Empty
    <3> QED
      BY <2>1, <2>2, <3>1, StageKept DEF InList
  <2> QED
    BY <2>1, <2>2
<1>3. ASSUME NEW w \in Workers, Check(w) PROVE StagesInv'
  <2>1. UNCHANGED <<npc, npcList, objects, visible, controllers, running, kpc, victim, spawnOf, raced>>
    BY <1>3 DEF Check, Abandon, WorkersInv, WorkerOK, Empty
  <2>2. ASSUME NEW n \in Npcs \ raced, spawnOf[n] \in Spawns PROVE StageOK(n)'
    <3>1. \A v \in Workers : npc[v] = n => pc'[v] = pc[v]
      BY <1>3, <2>1 DEF Check, Goto, Abandon, WorkersInv, WorkerOK, Empty
    <3> QED
      BY <2>1, <2>2, <3>1, StageKept DEF InList
  <2> QED
    BY <2>1, <2>2
<1>4. ASSUME NEW w \in Workers, LoadTemplate(w) PROVE StagesInv'
  <2>1. spawn[w] \in Spawns /\ npc[w] = NoNpc
        /\ UNCHANGED <<npcList, objects, visible, controllers, running, kpc, victim, raced>>
    BY <1>4, WorkerKnown DEF LoadTemplate,
       WorkersInv, WorkerOK, Empty
  <2>2. CASE Abandon(w) /\ UNCHANGED spawnOf
    <3>1. npc' = npc /\ \A v \in Workers : v # w => pc'[v] = pc[v]
      BY <2>1, <2>2 DEF Abandon, Goto
    <3> QED
      BY <2>1, <2>2, <3>1, StageKept DEF InList
  <2>3. ASSUME NEW m \in Npcs, spawnOf[m] = NoSpawn,
               spawnOf' = [spawnOf EXCEPT ![m] = spawn[w]], npc' = [npc EXCEPT ![w] = m],
               Goto(w, "count")
        PROVE  StagesInv'
    <3>1. ASSUME NEW n \in Npcs \ raced, n # m, spawnOf[n] \in Spawns PROVE StageOK(n)'
      BY <2>1, <2>3, <3>1, StageKept DEF InList, Goto
    <3>2. /\ m \notin objects \cup visible \cup controllers \cup running
          /\ \A s \in Spawns : m \notin npcList[s]
          /\ \A k \in Killers : victim[k] # m
          /\ \A v \in Workers : npc[v] # m
      BY <2>3, Fresh
    <3>3. StageOK(m)'
      BY <2>1, <2>3, <3>2 DEF StageOK, SpawnStage, BeingSpawned, InList, Goto
    <3> QED
      BY <2>1, <2>3, <3>1, <3>3
  <2> QED
    BY <1>4, <2>2, <2>3 DEF LoadTemplate
<1>5. ASSUME NEW w \in Workers, IncreaseCount(w) PROVE StagesInv'
  <2>1. WorkerStep(w) /\ pc[w] \in Busy
    BY <1>5 DEF IncreaseCount, WorkerStep, Busy
  <2>2. ASSUME NEW m \in Npcs, m = npc[w], spawn[w] \in Spawns, spawnOf[m] = spawn[w],
               SpawnStage(m, pc[w])
        PROVE  \/ npc'[w] = m /\ SpawnStage(m, pc[w])'
               \/ npc'[w] # m /\ (Everywhere(m) \/ Nowhere(m))'
    BY <1>5, <2>2, SpawnAssumption
       DEF IncreaseCount, Goto, Abandon, SpawnStage, InList, Nowhere
  <2> QED
    BY <2>1, <2>2, WorkerStage
<1>6. ASSUME NEW w \in Workers, AddNpc(w) PROVE StagesInv'
  <2>1. WorkerStep(w) /\ pc[w] \in Busy
    BY <1>6 DEF AddNpc, WorkerStep, Busy
  <2>2. ASSUME NEW m \in Npcs, m = npc[w], spawn[w] \in Spawns, spawnOf[m] = spawn[w],
               SpawnStage(m, pc[w])
        PROVE  \/ npc'[w] = m /\ SpawnStage(m, pc[w])'
               \/ npc'[w] # m /\ (Everywhere(m) \/ Nowhere(m))'
    BY <1>6, <2>2, SpawnAssumption
       DEF AddNpc, Goto, Abandon, SpawnStage, InList, Nowhere
  <2> QED
    BY <2>1, <2>2, WorkerStage
<1>7. ASSUME NEW w \in Workers, UndoCount(w) PROVE StagesInv'
  <2>1. WorkerStep(w) /\ pc[w] \in Busy
    BY <1>7 DEF UndoCount, WorkerStep, Busy
  <2>2. ASSUME NEW m \in Npcs, m = npc[w], spawn[w] \in Spawns, spawnOf[m] = spawn[w],
               SpawnStage(m, pc[w])
        PROVE  \/ npc'[w] = m /\ SpawnStage(m, pc[w])'
               \/ npc'[w] # m /\ (Everywhere(m) \/ Nowhere(m))'
    BY <1>7, <2>2, SpawnAssumption
       DEF UndoCount, Goto, Abandon, SpawnStage, InList, Nowhere
  <2> QED
    BY <2>1, <2>2, WorkerStage
<1>8. ASSUME NEW w \in Workers, UndoList(w) PROVE StagesInv'
  <2>1. WorkerStep(w) /\ pc[w] = "unlist" /\ npc[w] # NoNpc
    BY <1>8, WorkerKnown DEF UndoList, WorkerStep, Busy
  <2>2. ASSUME NEW m \in Npcs, m = npc[w], spawn[w] \in Spawns, spawnOf[m] = spawn[w],
               SpawnStage(m, pc[w])
        PROVE  npc'[w] # m /\ (Everywhere(m) \/ Nowhere(m))'
    BY <1>8, <2>1, <2>2 DEF UndoList, Abandon, SpawnStage, InList, Everywhere, Nowhere
  <2> QED
    BY <2>1, <2>2, WorkerStage DEF Busy
<1>9. ASSUME NEW w \in Workers, AddObject(w) PROVE StagesInv'
  <2>1. WorkerStep(w) /\ pc[w] \in Busy
    BY <1>9 DEF AddObject, WorkerStep, Busy
  <2>2. ASSUME NEW m \in Npcs, m = npc[w], spawn[w] \in Spawns, spawnOf[m] = spawn[w],
               SpawnStage(m, pc[w])
        PROVE  \/ npc'[w] = m /\ SpawnStage(m, pc[w])'
               \/ npc'[w] # m /\ (Everywhere(m) \/ Nowhere(m))'
    BY <1>9, <2>2, SpawnAssumption
       DEF AddObject, Goto, Abandon, SpawnStage, InList, Nowhere
  <2> QED
    BY <2>1, <2>2, WorkerStage
<1>10. ASSUME NEW w \in Workers, AddVisibleObject(w) PROVE StagesInv'
  <2>1. WorkerStep(w) /\ pc[w] \in Busy
    BY <1>10 DEF AddVisibleObject, WorkerStep, Busy
  <2>2. ASSUME NEW m \in Npcs, m = npc[w], spawn[w] \in Spawns, spawnOf[m] = spawn[w],
               SpawnStage(m, pc[w])
        PROVE  \/ npc'[w] = m /\ SpawnStage(m, pc[w])'
               \/ npc'[w] # m /\ (Everywhere(m) \/ Nowhere(m))'
    BY <1>10, <2>2, SpawnAssumption
       DEF AddVisibleObject, Goto, Abandon, SpawnStage, InList, Nowhere
  <2> QED
    BY <2>1, <2>2, WorkerStage
<1>11. ASSUME NEW w \in Workers, Register(w) PROVE StagesInv'
  <2>1. WorkerStep(w) /\ pc[w] \in Busy
    BY <1>11 DEF Register, WorkerStep, Busy
  <2>2. ASSUME NEW m \in Npcs, m = npc[w], spawn[w] \in Spawns, spawnOf[m] = spawn[w],
               SpawnStage(m, pc[w])
        PROVE  \/ npc'[w] = m /\ SpawnStage(m, pc[w])'
               \/ npc'[w] # m /\ (Everywhere(m) \/ Nowhere(m))'
    BY <1>11, <2>2, SpawnAssumption
       DEF Register, Goto, Abandon, SpawnStage, InList, Nowhere
  <2> QED
    BY <2>1, <2>2, WorkerStage
<1>12. ASSUME NEW w \in Workers, CountController(w) PROVE StagesInv'
  <2>1. WorkerStep(w) /\ pc[w] \in Busy
    BY <1>12 DEF CountController, WorkerStep, Busy
  <2>2. ASSUME NEW m \in Npcs, m = npc[w], spawn[w] \in Spawns, spawnOf[m] = spawn[w],
               SpawnStage(m, pc[w])
        PROVE  \/ npc'[w] = m /\ SpawnStage(m, pc[w])'
               \/ npc'[w] # m /\ (Everywhere(m) \/ Nowhere(m))'
    BY <1>12, <2>2, SpawnAssumption
       DEF CountController, Goto, Abandon, SpawnStage, InList, Nowhere
  <2> QED
    BY <2>1, <2>2, WorkerStage
<1>13. ASSUME NEW w \in Workers, StartController(w) PROVE StagesInv'
  <2>1. WorkerStep(w) /\ pc[w] = "start" /\ npc[w] # NoNpc
    BY <1>13, WorkerKnown DEF StartController, WorkerStep, Busy
  <2>2. ASSUME NEW m \in Npcs, m = npc[w], spawn[w] \in Spawns, spawnOf[m] = spawn[w],
               SpawnStage(m, pc[w])
        PROVE  npc'[w] # m /\ (Everywhere(m) \/ Nowhere(m))'
    BY <1>13, <2>1, <2>2 DEF StartController, Abandon, SpawnStage, InList, Everywhere, Nowhere
  <2> QED
    BY <2>1, <2>2, WorkerStage DEF Busy
<1>14. ASSUME NEW k \in Killers, NEW n \in Npcs, Despawn(k, n) PROVE StagesInv'
  <2>1. spawnOf[n] \in Spawns
    BY <1>14 DEF Despawn, PlacesInv, OwnPlaces
  <2>2. /\ UNCHANGED <<pc, npc, spawnOf, npcList, objects, visible, controllers, running>>
        /\ raced \subseteq raced' /\ victim[k] = NoNpc
        /\ victim' = [victim EXCEPT ![k] = n] /\ kpc' = [kpc EXCEPT ![k] = "unregister"]
    BY <1>14 DEF Despawn, KGoto, KillersInv, KillerOK
  <2>3. ASSUME NEW m \in Npcs \ raced, spawnOf[m] \in Spawns, m # n PROVE StageOK(m)'
    BY <2>2, <2>3, StageKept DEF InList
  <2>4. ASSUME n \notin raced' PROVE StageOK(n)'
    <3>1. n \notin raced /\ ~ BeingSpawned(n) /\ \A o \in Killers : victim[o] # n
      BY <1>14, <2>4 DEF Despawn
    <3>2. Everywhere(n)
      <4>1. Everywhere(n) \/ Nowhere(n)
        BY <2>1, <3>1 DEF StagesInv, StageOK
      <4>2. n \in visible \/ InList(n)
        BY <1>14 DEF Despawn, PlacesInv, OwnPlaces, InList
      <4> QED
        BY <4>1, <4>2 DEF Nowhere
    <3> QED
      BY <2>2, <3>1, <3>2 DEF StageOK, DespawnStage, Everywhere, BeingSpawned, InList
  <2> QED
    BY <2>2, <2>3, <2>4
<1>15. ASSUME NEW k \in Killers, Unregister(k) PROVE StagesInv'
  <2>1. /\ kpc[k] = "unregister" /\ controllers' = controllers \ {victim[k]}
        /\ kpc' = [kpc EXCEPT ![k] = IF victim[k] \in controllers THEN "unregistered" ELSE "remove"]
        /\ UNCHANGED <<npcList, objects, visible, running, victim, spawnOf>>
    BY <1>15 DEF Unregister, KGoto
  <2>2. ASSUME NEW m \in Npcs, m = victim[k], spawnOf[m] \in Spawns, DespawnStage(m, kpc[k])
        PROVE victim'[k] = m /\ DespawnStage(m, kpc[k])'
    BY <2>1, <2>2 DEF DespawnStage, InList
  <2> QED
    BY <1>15, <2>1, <2>2, KillerStage DEF KillerStep
<1>16. ASSUME NEW k \in Killers, UncountController(k) PROVE StagesInv'
  BY <1>16, KillerStage DEF UncountController, KillerStep, KGoto, DespawnStage, InList, Nowhere
<1>17. ASSUME NEW k \in Killers, StopController(k) PROVE StagesInv'
  BY <1>17, KillerStage DEF StopController, KillerStep, KGoto, DespawnStage, InList, Nowhere
<1>18. ASSUME NEW k \in Killers, RemoveObject(k) PROVE StagesInv'
  <2>1. /\ kpc[k] = "remove" /\ objects' = objects \ {victim[k]}
        /\ kpc' = [kpc EXCEPT ![k] = IF victim[k] \in objects THEN "hide" ELSE "unlist"]
        /\ UNCHANGED <<npcList, visible, controllers, running, victim, spawnOf>>
    BY <1>18 DEF RemoveObject, KGoto
  <2>2. ASSUME NEW m \in Npcs, m = victim[k], spawnOf[m] \in Spawns, DespawnStage(m, kpc[k])
        PROVE victim'[k] = m /\ DespawnStage(m, kpc[k])'
    BY <2>1, <2>2 DEF DespawnStage, InList
  <2> QED
    BY <1>18, <2>1, <2>2, KillerStage DEF KillerStep
<1>19. ASSUME NEW k \in Killers, RemoveVisibleObject(k) PROVE StagesInv'
  BY <1>19, KillerStage DEF RemoveVisibleObject, KillerStep, KGoto, DespawnStage, InList,
     Nowhere
<1>20. ASSUME NEW k \in Killers, RemoveNpc(k) PROVE StagesInv'
  BY <1>20, KillerStage DEF RemoveNpc, KillerStep, KGoto, DespawnStage, InList, Nowhere
<1>21. ASSUME NEW k \in Killers, DecreaseCount(k) PROVE StagesInv'
  BY <1>21, KillerStage DEF DecreaseCount, KillerStep, KGoto, DespawnStage, InList, Nowhere
<1>22. ASSUME NEW k \in Killers, ScheduleRespawn(k) PROVE StagesInv'
  <2>1. /\ kpc[k] = "schedule" /\ victim' = [victim EXCEPT ![k] = NoNpc]
        /\ UNCHANGED <<npcList, objects, visible, controllers, running, spawnOf>>
    BY <1>22 DEF ScheduleRespawn, KGoto
  <2>2. ASSUME NEW m \in Npcs, m = victim[k], spawnOf[m] \in Spawns, DespawnStage(m, kpc[k])
        PROVE victim'[k] # m /\ Nowhere(m)'
    BY <2>1, <2>2 DEF DespawnStage, InList, Nowhere
  <2> QED
    BY <1>22, <2>1, <2>2, KillerStage DEF KillerStep
<1>23. ASSUME NEW s \in Spawns, CancelRespawn(s) PROVE StagesInv'
  <2>1. UNCHANGED <<pc, npc, spawnOf, npcList, objects, visible, controllers, running, kpc,
                    victim, raced>>
    BY <1>23 DEF CancelRespawn
  <2> QED
    BY <2>1, StageKept DEF InList
<1>24. ASSUME NEW e \in Executors, NEW due \in SUBSET Spawns, ProcessTasks(e, due)
       PROVE StagesInv'
  <2>1. UNCHANGED <<pc, npc, spawnOf, npcList, objects, visible, controllers, running, kpc,
                    victim, raced>>
    BY <1>24 DEF ProcessTasks
  <2> QED
    BY <2>1, StageKept DEF InList
<1>25. ASSUME UNCHANGED vars PROVE StagesInv'
  <2>1. UNCHANGED <<pc, npc, spawnOf, npcList, objects, visible, controllers, running, kpc,
                    victim, raced>>
    BY <1>25 DEF vars
  <2> QED
    BY <2>1, StageKept DEF InList
<1> QED
  BY <1>1, <1>2, <1>3, <1>4, <1>5, <1>6, <1>7, <1>8, <1>9, <1>10, <1>11,
     <1>12, <1>13, <1>14, <1>15, <1>16, <1>17, <1>18, <1>19, <1>20, <1>21,
     <1>22, <1>23, <1>24, <1>25
     DEF KillerStep, SpawnNext, Tick, WorkerStep

-----------------------------------------------------------------------------
(* The list and the count.  A step changes the two sides of Balance alike.  *)

\* Cardinalities, when one element may come or go.
LEMMA OneElement ==
    ASSUME NEW S, IsFiniteSet(S), NEW T, NEW x, S \ {x} = T \ {x}
    PROVE  /\ IsFiniteSet(T) /\ Cardinality(S) \in Nat /\ Cardinality(T) \in Nat
           /\ Cardinality(T) = Cardinality(S) + One(x \in T) - One(x \in S)
<1>1. CASE x \in S /\ x \in T
  <2>1. S = T
    BY <1>1
  <2> QED
    BY <2>1, FS_CardinalityType DEF One
<1>2. CASE x \notin S /\ x \notin T
  <2>1. S = T
    BY <1>2
  <2> QED
    BY <2>1, FS_CardinalityType DEF One
<1>3. CASE x \in S /\ x \notin T
  <2>1. T = S \ {x}
    BY <1>3
  <2>2. IsFiniteSet(T) /\ Cardinality(T) = Cardinality(S) - 1
    BY <1>3, <2>1, FS_RemoveElement
  <2> QED
    BY <1>3, <2>2, FS_CardinalityType DEF One
<1>4. CASE x \notin S /\ x \in T
  <2>1. T = S \cup {x}
    BY <1>4
  <2>2. IsFiniteSet(T) /\ Cardinality(T) = Cardinality(S) + 1
    BY <1>4, <2>1, FS_AddElement
  <2> QED
    BY <1>4, <2>2, FS_CardinalityType DEF One
<1> QED
  BY <1>1, <1>2, <1>3, <1>4

LEMMA WorkersFinite == \A S : S \subseteq Workers => IsFiniteSet(S)
BY SpawnAssumption, FS_Subset DEF Workers

LEMMA KillersFinite == \A S : S \subseteq Killers => IsFiniteSet(S)
BY SpawnAssumption, FS_Subset

\* What a step does to the number of goroutines at a label.
LEMMA AtStep ==
    ASSUME TypeOK, NEW w \in Workers, WorkerStep(w), NEW s \in Spawns, NEW label
    PROVE  /\ Cardinality(At(s, label)) \in Nat /\ Cardinality(At(s, label))' \in Nat
           /\ Cardinality(At(s, label))' = Cardinality(At(s, label))
                + One(pc'[w] = label /\ spawn'[w] = s) - One(pc[w] = label /\ spawn[w] = s)
<1>1. At(s, label) \ {w} = At(s, label)' \ {w}
  BY WorkerAlone DEF At
<1>2. IsFiniteSet(At(s, label))
  BY WorkersFinite DEF At
<1>3. /\ w \in At(s, label) <=> pc[w] = label /\ spawn[w] = s
      /\ w \in At(s, label)' <=> pc'[w] = label /\ spawn'[w] = s
  BY DEF At
<1> HIDE DEF At
<1> QED
  BY <1>1, <1>2, <1>3, OneElement DEF One

\* The killers at a label change by the one that steps.
LEMMA KillersAtStep ==
    ASSUME TypeOK, NEW k \in Killers, KillerStep(k), NEW s \in Spawns, NEW label
    PROVE  /\ Cardinality(KillersAt(s, label)) \in Nat /\ Cardinality(KillersAt(s, label))' \in Nat
           /\ Cardinality(KillersAt(s, label))' = Cardinality(KillersAt(s, label))
                + One(kpc'[k] = label /\ spawnOf[victim'[k]] = s)
                - One(kpc[k] = label /\ spawnOf[victim[k]] = s)
<1>1. KillersAt(s, label) \ {k} = KillersAt(s, label)' \ {k}
  BY KillerAlone, KillerFrame DEF KillersAt
<1>2. IsFiniteSet(KillersAt(s, label))
  BY KillersFinite DEF KillersAt
<1>3. /\ k \in KillersAt(s, label) <=> kpc[k] = label /\ spawnOf[victim[k]] = s
      /\ k \in KillersAt(s, label)' <=> kpc'[k] = label /\ spawnOf[victim'[k]] = s
  BY KillerFrame DEF KillersAt
<1> QED
  BY <1>1, <1>2, <1>3, OneElement DEF One

LEMMA KillersAtKept ==
    ASSUME TypeOK, KillersInv, NEW w \in Workers, WorkerStep(w), NEW s \in Spawns,
           NEW label \in KillerLabels \ {"idle"}
    PROVE  KillersAt(s, label)' = KillersAt(s, label)
BY WorkerFrame, WorkerAlone, KillerKnown DEF KillersAt

\* A raced spawn stays raced.
LEMMA RacedStays ==
    ASSUME TypeOK, [SpawnNext]_vars, NEW s \in Spawns, Raced(s)
    PROVE  Raced(s)'
<1>1. ASSUME NEW w \in Workers, WorkerStep(w) PROVE Raced(s)'
  BY <1>1, WorkerFrame, WorkerAlone DEF Raced, TypeOK
<1>2. ASSUME NEW k \in Killers, NEW n \in Npcs, Despawn(k, n) PROVE Raced(s)'
  BY <1>2 DEF Raced, Despawn
<1>3. ASSUME NEW k \in Killers, KillerStep(k) PROVE Raced(s)'
  BY <1>3, KillerFrame DEF Raced
<1>4. ASSUME NEW t \in Spawns, CancelRespawn(t) PROVE Raced(s)'
  BY <1>4 DEF Raced, CancelRespawn, historyVars
<1>5. ASSUME NEW e \in Executors, NEW due \in SUBSET Spawns, ProcessTasks(e, due)
      PROVE Raced(s)'
  BY <1>5 DEF Raced, ProcessTasks, historyVars
<1>6. ASSUME UNCHANGED vars PROVE Raced(s)'
  BY <1>6 DEF Raced, vars, historyVars
<1> QED
  BY <1>1, <1>2, <1>3, <1>4, <1>5, <1>6 DEF SpawnNext, Tick

\* CountMatchesList for one spawn.
Balance(s) ==
    currentCount[s] + Cardinality(At(s, "unlist"))
      = Cardinality(npcList[s]) + Cardinality(At(s, "list"))
          + Cardinality(KillersAt(s, "uncount"))

\* The lists and the map of controllers stay finite.
LEMMA FiniteStep ==
    ASSUME TypeOK, FinitePlaces, [SpawnNext]_vars
    PROVE  FinitePlaces'
<1>1. ASSUME NEW S, IsFiniteSet(S), NEW x, NEW T, T \in {S, S \cup {x}, S \ {x}}
      PROVE  IsFiniteSet(T)
  <2>1. IsFiniteSet(S \cup {x}) /\ IsFiniteSet(S \ {x})
    BY <1>1, FS_AddElement, FS_RemoveElement
  <2> QED
    BY <1>1, <2>1
<1>2. ASSUME NEW w \in Workers, WorkerStep(w)
      PROVE  /\ controllers' \in {controllers, controllers \cup {npc[w]}}
             /\ \A s \in Spawns :
                  npcList'[s] \in {npcList[s], npcList[s] \cup {npc[w]}, npcList[s] \ {npc[w]}}
  BY <1>2 DEF TypeOK, WorkerStep, Begin, Peek, Check, LoadTemplate, IncreaseCount, AddNpc,
     UndoCount, UndoList, AddObject, AddVisibleObject, Register, CountController,
     StartController, spawnVars, aiVars
<1>3. ASSUME NEW k \in Killers, KillerStep(k)
      PROVE  /\ controllers' \in {controllers, controllers \ {victim[k]}}
             /\ \A s \in Spawns : npcList'[s] \in {npcList[s], npcList[s] \ {victim[k]}}
  BY <1>3 DEF TypeOK, KillerStep, Unregister, UncountController, StopController, RemoveObject,
     RemoveVisibleObject, RemoveNpc, DecreaseCount, ScheduleRespawn, spawnVars, aiVars
<1>4. ASSUME NEW k \in Killers, NEW n \in Npcs, Despawn(k, n)
      PROVE UNCHANGED <<npcList, controllers>>
  BY <1>4 DEF Despawn, spawnVars, aiVars
<1>5. ASSUME NEW s \in Spawns, CancelRespawn(s) PROVE UNCHANGED <<npcList, controllers>>
  BY <1>5 DEF CancelRespawn, spawnVars, aiVars
<1>6. ASSUME NEW e \in Executors, NEW due \in SUBSET Spawns, ProcessTasks(e, due)
      PROVE  UNCHANGED <<npcList, controllers>>
  BY <1>6 DEF ProcessTasks, spawnVars, aiVars
<1>7. ASSUME UNCHANGED vars PROVE UNCHANGED <<npcList, controllers>>
  BY <1>7 DEF vars, spawnVars, aiVars
<1>8. CASE UNCHANGED <<npcList, controllers>>
  BY <1>8 DEF FinitePlaces
<1>9. ASSUME NEW w \in Workers, WorkerStep(w) PROVE FinitePlaces'
  <2>1. IsFiniteSet(controllers')
    <3>1. IsFiniteSet(controllers) /\ controllers' \in {controllers, controllers \cup {npc[w]}, controllers \ {npc[w]}}
      BY <1>2, <1>9 DEF FinitePlaces
    <3> QED
      BY <1>1, <3>1
  <2>2. ASSUME NEW s \in Spawns PROVE IsFiniteSet(npcList'[s])
    <3>1. IsFiniteSet(npcList[s])
          /\ npcList'[s] \in {npcList[s], npcList[s] \cup {npc[w]}, npcList[s] \ {npc[w]}}
      BY <1>2, <1>9 DEF FinitePlaces
    <3> QED
      BY <1>1, <3>1
  <2> QED
    BY <2>1, <2>2 DEF FinitePlaces
<1>10. ASSUME NEW k \in Killers, KillerStep(k) PROVE FinitePlaces'
  <2>1. IsFiniteSet(controllers')
    <3>1. IsFiniteSet(controllers) /\ controllers' \in {controllers, controllers \cup {victim[k]}, controllers \ {victim[k]}}
      BY <1>3, <1>10 DEF FinitePlaces
    <3> QED
      BY <1>1, <3>1
  <2>2. ASSUME NEW s \in Spawns PROVE IsFiniteSet(npcList'[s])
    <3>1. IsFiniteSet(npcList[s])
          /\ npcList'[s] \in {npcList[s], npcList[s] \cup {victim[k]}, npcList[s] \ {victim[k]}}
      BY <1>3, <1>10 DEF FinitePlaces
    <3> QED
      BY <1>1, <3>1
  <2> QED
    BY <2>1, <2>2 DEF FinitePlaces
<1> QED
  BY <1>4, <1>5, <1>6, <1>7, <1>8, <1>9, <1>10 DEF SpawnNext, Tick

\* What a worker's step has to do for a spawn to stay balanced.
LEMMA WorkerBalance ==
    ASSUME TypeOK, KillersInv, FinitePlaces, NEW w \in Workers, WorkerStep(w), NEW s \in Spawns,
           Balance(s), currentCount'[s] \in Int, Cardinality(npcList'[s]) \in Nat,
           currentCount'[s] - currentCount[s]
             + One(pc'[w] = "unlist" /\ spawn'[w] = s) - One(pc[w] = "unlist" /\ spawn[w] = s)
             = Cardinality(npcList'[s]) - Cardinality(npcList[s])
                 + One(pc'[w] = "list" /\ spawn'[w] = s) - One(pc[w] = "list" /\ spawn[w] = s)
    PROVE  Balance(s)'
<1>1. Cardinality(At(s, "unlist"))' = Cardinality(At(s, "unlist"))
        + One(pc'[w] = "unlist" /\ spawn'[w] = s) - One(pc[w] = "unlist" /\ spawn[w] = s)
  BY AtStep
<1>2. Cardinality(At(s, "list"))' = Cardinality(At(s, "list"))
        + One(pc'[w] = "list" /\ spawn'[w] = s) - One(pc[w] = "list" /\ spawn[w] = s)
  BY AtStep
<1>3. Cardinality(KillersAt(s, "uncount"))' = Cardinality(KillersAt(s, "uncount"))
  BY KillersAtKept DEF KillerLabels
<1>4. /\ Cardinality(At(s, "unlist")) \in Nat /\ Cardinality(At(s, "list")) \in Nat
      /\ Cardinality(KillersAt(s, "uncount")) \in Nat /\ Cardinality(npcList[s]) \in Nat
      /\ currentCount[s] \in Int
  BY AtStep, KillersFinite, FS_CardinalityType DEF KillersAt, FinitePlaces, TypeOK
<1> DEFINE u1 == One(pc'[w] = "unlist" /\ spawn'[w] = s)
           u0 == One(pc[w] = "unlist" /\ spawn[w] = s)
           l1 == One(pc'[w] = "list" /\ spawn'[w] = s)
           l0 == One(pc[w] = "list" /\ spawn[w] = s)
<1>5. u1 \in Int /\ u0 \in Int /\ l1 \in Int /\ l0 \in Int
  BY DEF One
<1>6. currentCount'[s] - currentCount[s] + u1 - u0
        = Cardinality(npcList'[s]) - Cardinality(npcList[s]) + l1 - l0
  OBVIOUS
<1>7. /\ Cardinality(At(s, "unlist"))' = Cardinality(At(s, "unlist")) + u1 - u0
      /\ Cardinality(At(s, "list"))' = Cardinality(At(s, "list")) + l1 - l0
  BY <1>1, <1>2
<1> HIDE DEF u1, u0, l1, l0
<1> QED
  BY <1>3, <1>4, <1>5, <1>6, <1>7 DEF Balance

\* The same of a despawning goroutine.
LEMMA KillerBalance ==
    ASSUME TypeOK, FinitePlaces, NEW k \in Killers, KillerStep(k), NEW s \in Spawns,
           Balance(s), currentCount'[s] \in Int, Cardinality(npcList'[s]) \in Nat,
           currentCount'[s] - currentCount[s]
             = Cardinality(npcList'[s]) - Cardinality(npcList[s])
                 + One(kpc'[k] = "uncount" /\ spawnOf[victim'[k]] = s)
                 - One(kpc[k] = "uncount" /\ spawnOf[victim[k]] = s)
    PROVE  Balance(s)'
<1>1. Cardinality(KillersAt(s, "uncount"))' = Cardinality(KillersAt(s, "uncount"))
        + One(kpc'[k] = "uncount" /\ spawnOf[victim'[k]] = s)
        - One(kpc[k] = "uncount" /\ spawnOf[victim[k]] = s)
  BY KillersAtStep
<1>2. At(s, "unlist")' = At(s, "unlist") /\ At(s, "list")' = At(s, "list")
  BY KillerFrame DEF At
<1>3. /\ Cardinality(At(s, "unlist")) \in Nat /\ Cardinality(At(s, "list")) \in Nat
      /\ Cardinality(KillersAt(s, "uncount")) \in Nat /\ Cardinality(npcList[s]) \in Nat
      /\ currentCount[s] \in Int
  BY KillersAtStep, WorkersFinite, FS_CardinalityType DEF At, FinitePlaces, TypeOK
<1> QED
  BY <1>1, <1>2, <1>3 DEF Balance, One

\* Most steps are about neither.
LEMMA WorkerQuiet ==
    ASSUME TypeOK, TypeOK', KillersInv, FinitePlaces, CountMatchesList, [SpawnNext]_vars,
           NEW w \in Workers, WorkerStep(w), UNCHANGED <<currentCount, npcList>>,
           pc[w] \notin {"list", "unlist"}, pc'[w] \notin {"list", "unlist"}
    PROVE  CountMatchesList'
<1>1. ASSUME NEW s \in Spawns, ~ Raced(s)' PROVE Balance(s)'
  <2>1. Balance(s) /\ currentCount[s] \in Int /\ Cardinality(npcList[s]) \in Nat
    BY <1>1, RacedStays, FS_CardinalityType DEF CountMatchesList, Balance, TypeOK, FinitePlaces
  <2> QED
    BY <2>1, WorkerBalance DEF One
<1> QED
  BY <1>1 DEF CountMatchesList, Balance

LEMMA KillerQuiet ==
    ASSUME TypeOK, FinitePlaces, CountMatchesList, [SpawnNext]_vars,
           NEW k \in Killers, KillerStep(k), UNCHANGED <<currentCount, npcList>>,
           kpc[k] # "uncount", kpc'[k] # "uncount"
    PROVE  CountMatchesList'
<1>1. ASSUME NEW s \in Spawns, ~ Raced(s)' PROVE Balance(s)'
  <2>1. Balance(s) /\ currentCount[s] \in Int /\ Cardinality(npcList[s]) \in Nat
    BY <1>1, RacedStays, FS_CardinalityType DEF CountMatchesList, Balance, TypeOK, FinitePlaces
  <2> QED
    BY <2>1, KillerBalance DEF One
<1> QED
  BY <1>1 DEF CountMatchesList, Balance

LEMMA CountStep ==
    ASSUME TypeOK, WorkersInv, KillersInv, PlacesInv, StagesInv, FinitePlaces,
           CountMatchesList, [SpawnNext]_vars
    PROVE  CountMatchesList'
<1>1. ASSUME NEW w \in Workers, NEW s \in Spawns, Begin(w, s) PROVE CountMatchesList'
  BY <1>1, TypeStep, WorkerQuiet DEF Begin, WorkerStep, Goto, Abandon, spawnVars, TypeOK
<1>2. ASSUME NEW w \in Workers, Peek(w) PROVE CountMatchesList'
  BY <1>2, TypeStep, WorkerQuiet DEF Peek, WorkerStep, Goto, Abandon, spawnVars, TypeOK
<1>3. ASSUME NEW w \in Workers, Check(w) PROVE CountMatchesList'
  BY <1>3, TypeStep, WorkerQuiet DEF Check, WorkerStep, Goto, Abandon, spawnVars, TypeOK
<1>4. ASSUME NEW w \in Workers, LoadTemplate(w) PROVE CountMatchesList'
  BY <1>4, TypeStep, WorkerQuiet DEF LoadTemplate, WorkerStep, Goto, Abandon, spawnVars, TypeOK
<1>5. ASSUME NEW w \in Workers, IncreaseCount(w) PROVE CountMatchesList'
  <2>1. WorkerStep(w)
    BY <1>5 DEF WorkerStep
  <2>2. ASSUME NEW s \in Spawns, ~ Raced(s)' PROVE Balance(s)'
    <3>1. ~ Raced(s) /\ Balance(s) /\ Cardinality(npcList[s]) \in Nat /\ currentCount[s] \in Int
          /\ Cardinality(npcList'[s]) \in Nat /\ currentCount'[s] \in Int
      BY <2>2, RacedStays, TypeStep, FiniteStep, FS_CardinalityType
         DEF Balance, CountMatchesList, FinitePlaces, TypeOK
    <3>2. /\ npcList' = npcList /\ currentCount'[s] = currentCount[s] + One(spawn[w] = s)
          /\ pc[w] = "count" /\ pc'[w] = "list" /\ spawn' = spawn
      BY <1>5 DEF IncreaseCount, Goto, TypeOK, One
    <3>3. currentCount'[s] - currentCount[s]
            + One(pc'[w] = "unlist" /\ spawn'[w] = s) - One(pc[w] = "unlist" /\ spawn[w] = s)
            = Cardinality(npcList'[s]) - Cardinality(npcList[s])
                + One(pc'[w] = "list" /\ spawn'[w] = s) - One(pc[w] = "list" /\ spawn[w] = s)
      BY <3>1, <3>2 DEF One
    <3> QED
      BY <2>1, <3>1, <3>3, WorkerBalance
  <2> QED
    BY <2>2 DEF CountMatchesList, Balance
<1>6. ASSUME NEW w \in Workers, AddNpc(w) PROVE CountMatchesList'
  <2>1. WorkerStep(w)
    BY <1>6 DEF WorkerStep
  <2>2. ASSUME NEW s \in Spawns, ~ Raced(s)' PROVE Balance(s)'
    <3>1. ~ Raced(s) /\ Balance(s) /\ Cardinality(npcList[s]) \in Nat /\ currentCount[s] \in Int
          /\ Cardinality(npcList'[s]) \in Nat /\ currentCount'[s] \in Int
      BY <2>2, RacedStays, TypeStep, FiniteStep, FS_CardinalityType
         DEF Balance, CountMatchesList, FinitePlaces, TypeOK
    <3>2. PICK m \in Npcs : m = npc[w] /\ spawn[w] \in Spawns /\ spawnOf[m] = spawn[w]
      BY <1>6, WorkerKnown DEF AddNpc, Busy
    <3>3. ASSUME spawn[w] = s PROVE m \in npcList[s] <=> pc[w] # "list"
      <4>1. m \notin raced
        BY <3>2, <3>1, <3>3 DEF Raced
      <4>2. SpawnStage(m, pc[w])
        BY <3>2, <4>1, SpawnedAlone
      <4> QED
        BY <1>6, <3>2, <3>3, <4>2 DEF SpawnStage, InList, AddNpc
    <3>4. npcList'[s] = IF spawn[w] = s THEN npcList[s] \cup {m} ELSE npcList[s]
      BY <1>6, <3>2 DEF AddNpc, TypeOK
    <3>5. Cardinality(npcList'[s]) = Cardinality(npcList[s]) + One(spawn[w] = s)
      <4>1. IsFiniteSet(npcList[s])
        BY DEF FinitePlaces
      <4>2. CASE spawn[w] = s
        <5>1. m \notin npcList[s]
          BY <1>6, <3>3, <4>2 DEF AddNpc
        <5>2. Cardinality(npcList[s] \cup {m}) = Cardinality(npcList[s]) + 1
          BY <4>1, <5>1, FS_AddElement
        <5> QED
          BY <3>4, <4>2, <5>2 DEF One
      <4>3. CASE spawn[w] # s
        BY <3>1, <3>4, <4>3 DEF One
      <4> QED
        BY <4>2, <4>3
    <3>6. /\ currentCount' = currentCount /\ Cardinality(npcList'[s]) = Cardinality(npcList[s]) + One(spawn[w] = s)
          /\ pc[w] = "list" /\ pc'[w] \notin {"list", "unlist"} /\ spawn' = spawn
      BY <1>6, <3>5 DEF AddNpc, Goto, TypeOK
    <3>7. currentCount'[s] - currentCount[s]
            + One(pc'[w] = "unlist" /\ spawn'[w] = s) - One(pc[w] = "unlist" /\ spawn[w] = s)
            = Cardinality(npcList'[s]) - Cardinality(npcList[s])
                + One(pc'[w] = "list" /\ spawn'[w] = s) - One(pc[w] = "list" /\ spawn[w] = s)
      BY <3>1, <3>6 DEF One
    <3> QED
      BY <2>1, <3>1, <3>7, WorkerBalance
  <2> QED
    BY <2>2 DEF CountMatchesList, Balance
<1>7. ASSUME NEW w \in Workers, UndoCount(w) PROVE CountMatchesList'
  <2>1. WorkerStep(w)
    BY <1>7 DEF WorkerStep
  <2>2. ASSUME NEW s \in Spawns, ~ Raced(s)' PROVE Balance(s)'
    <3>1. ~ Raced(s) /\ Balance(s) /\ Cardinality(npcList[s]) \in Nat /\ currentCount[s] \in Int
          /\ Cardinality(npcList'[s]) \in Nat /\ currentCount'[s] \in Int
      BY <2>2, RacedStays, TypeStep, FiniteStep, FS_CardinalityType
         DEF Balance, CountMatchesList, FinitePlaces, TypeOK
    <3>2. /\ npcList' = npcList /\ currentCount'[s] = currentCount[s] - One(spawn[w] = s)
          /\ pc[w] = "uncount" /\ pc'[w] = "unlist" /\ spawn' = spawn
      BY <1>7 DEF UndoCount, Goto, TypeOK, One
    <3>3. currentCount'[s] - currentCount[s]
            + One(pc'[w] = "unlist" /\ spawn'[w] = s) - One(pc[w] = "unlist" /\ spawn[w] = s)
            = Cardinality(npcList'[s]) - Cardinality(npcList[s])
                + One(pc'[w] = "list" /\ spawn'[w] = s) - One(pc[w] = "list" /\ spawn[w] = s)
      BY <3>1, <3>2 DEF One
    <3> QED
      BY <2>1, <3>1, <3>3, WorkerBalance
  <2> QED
    BY <2>2 DEF CountMatchesList, Balance
<1>8. ASSUME NEW w \in Workers, UndoList(w) PROVE CountMatchesList'
  <2>1. WorkerStep(w)
    BY <1>8 DEF WorkerStep
  <2>2. ASSUME NEW s \in Spawns, ~ Raced(s)' PROVE Balance(s)'
    <3>1. ~ Raced(s) /\ Balance(s) /\ Cardinality(npcList[s]) \in Nat /\ currentCount[s] \in Int
          /\ Cardinality(npcList'[s]) \in Nat /\ currentCount'[s] \in Int
      BY <2>2, RacedStays, TypeStep, FiniteStep, FS_CardinalityType
         DEF Balance, CountMatchesList, FinitePlaces, TypeOK
    <3>2. PICK m \in Npcs : m = npc[w] /\ spawn[w] \in Spawns /\ spawnOf[m] = spawn[w]
      BY <1>8, WorkerKnown DEF UndoList, Busy
    <3>3. ASSUME spawn[w] = s PROVE m \in npcList[s] <=> pc[w] # "list"
      <4>1. m \notin raced
        BY <3>2, <3>1, <3>3 DEF Raced
      <4>2. SpawnStage(m, pc[w])
        BY <3>2, <4>1, SpawnedAlone
      <4> QED
        BY <1>8, <3>2, <3>3, <4>2 DEF SpawnStage, InList, UndoList
    <3>4. npcList'[s] = IF spawn[w] = s THEN npcList[s] \ {m} ELSE npcList[s]
      BY <1>8, <3>2 DEF UndoList, TypeOK
    <3>5. Cardinality(npcList'[s]) = Cardinality(npcList[s]) - One(spawn[w] = s)
      <4>1. IsFiniteSet(npcList[s])
        BY DEF FinitePlaces
      <4>2. CASE spawn[w] = s
        <5>1. m \in npcList[s]
          BY <1>8, <3>3, <4>2 DEF UndoList
        <5>2. Cardinality(npcList[s] \ {m}) = Cardinality(npcList[s]) - 1
          BY <4>1, <5>1, FS_RemoveElement
        <5> QED
          BY <3>4, <4>2, <5>2 DEF One
      <4>3. CASE spawn[w] # s
        BY <3>1, <3>4, <4>3 DEF One
      <4> QED
        BY <4>2, <4>3
    <3>6. /\ currentCount' = currentCount /\ Cardinality(npcList'[s]) = Cardinality(npcList[s]) - One(spawn[w] = s)
          /\ pc[w] = "unlist" /\ pc'[w] \notin {"list", "unlist"}
      BY <1>8, <3>5 DEF UndoList, Abandon, Goto, TypeOK
    <3>8. /\ One(pc'[w] = "unlist" /\ spawn'[w] = s) = 0
          /\ One(pc[w] = "unlist" /\ spawn[w] = s) = One(spawn[w] = s)
          /\ One(pc'[w] = "list" /\ spawn'[w] = s) = 0
          /\ One(pc[w] = "list" /\ spawn[w] = s) = 0
      BY <3>6 DEF One
    <3>9. One(spawn[w] = s) \in Int /\ Cardinality(npcList[s]) \in Int /\ currentCount[s] \in Int
      BY <3>1 DEF One
    <3>7. currentCount'[s] - currentCount[s]
            + One(pc'[w] = "unlist" /\ spawn'[w] = s) - One(pc[w] = "unlist" /\ spawn[w] = s)
            = Cardinality(npcList'[s]) - Cardinality(npcList[s])
                + One(pc'[w] = "list" /\ spawn'[w] = s) - One(pc[w] = "list" /\ spawn[w] = s)
      <4> HIDE DEF TypeOK, One
      <4>1. currentCount'[s] = currentCount[s]
        BY <3>6
      <4> QED
        BY <3>6, <3>8, <3>9, <4>1
    <3> QED
      BY <2>1, <3>1, <3>7, WorkerBalance
  <2> QED
    BY <2>2 DEF CountMatchesList, Balance
<1>9. ASSUME NEW w \in Workers, AddObject(w) PROVE CountMatchesList'
  BY <1>9, TypeStep, WorkerQuiet DEF AddObject, WorkerStep, Goto, Abandon, spawnVars, TypeOK
<1>10. ASSUME NEW w \in Workers, AddVisibleObject(w) PROVE CountMatchesList'
  BY <1>10, TypeStep, WorkerQuiet DEF AddVisibleObject, WorkerStep, Goto, Abandon, spawnVars,
     TypeOK
<1>11. ASSUME NEW w \in Workers, Register(w) PROVE CountMatchesList'
  BY <1>11, TypeStep, WorkerQuiet DEF Register, WorkerStep, Goto, Abandon, spawnVars, TypeOK
<1>12. ASSUME NEW w \in Workers, CountController(w) PROVE CountMatchesList'
  BY <1>12, TypeStep, WorkerQuiet DEF CountController, WorkerStep, Goto, Abandon, spawnVars,
     TypeOK
<1>13. ASSUME NEW w \in Workers, StartController(w) PROVE CountMatchesList'
  BY <1>13, TypeStep, WorkerQuiet DEF StartController, WorkerStep, Goto, Abandon, spawnVars,
     TypeOK
<1>14. ASSUME NEW k \in Killers, NEW n \in Npcs, Despawn(k, n) PROVE CountMatchesList'
  <2>1. UNCHANGED <<currentCount, npcList, pc, spawn, spawnOf>>
    BY <1>14 DEF Despawn, spawnVars, worldVars, aiVars, workerVars, historyVars
  <2>2. ASSUME NEW t \in Spawns
        PROVE  /\ At(t, "unlist")' = At(t, "unlist") /\ At(t, "list")' = At(t, "list")
               /\ KillersAt(t, "uncount")' = KillersAt(t, "uncount")
    BY <1>14, <2>1 DEF Despawn, At, KillersAt, killerVars, KGoto, TypeOK, KillersInv, KillerOK
  <2>3. \A t \in Spawns : ~ Raced(t)' => ~ Raced(t)
    BY RacedStays
  <2> QED
    BY <2>1, <2>2, <2>3 DEF CountMatchesList
<1>15. ASSUME NEW k \in Killers, Unregister(k) PROVE CountMatchesList'
  BY <1>15, KillerQuiet DEF Unregister, KillerStep, KGoto, spawnVars, TypeOK
<1>16. ASSUME NEW k \in Killers, UncountController(k) PROVE CountMatchesList'
  BY <1>16, KillerQuiet DEF UncountController, KillerStep, KGoto, spawnVars, TypeOK
<1>17. ASSUME NEW k \in Killers, StopController(k) PROVE CountMatchesList'
  BY <1>17, KillerQuiet DEF StopController, KillerStep, KGoto, spawnVars, TypeOK
<1>18. ASSUME NEW k \in Killers, RemoveObject(k) PROVE CountMatchesList'
  BY <1>18, KillerQuiet DEF RemoveObject, KillerStep, KGoto, spawnVars, TypeOK
<1>19. ASSUME NEW k \in Killers, RemoveVisibleObject(k) PROVE CountMatchesList'
  BY <1>19, KillerQuiet DEF RemoveVisibleObject, KillerStep, KGoto, spawnVars, TypeOK
<1>20. ASSUME NEW k \in Killers, RemoveNpc(k) PROVE CountMatchesList'
  <2>1. KillerStep(k)
    BY <1>20 DEF KillerStep
  <2>2. ASSUME NEW s \in Spawns, ~ Raced(s)' PROVE Balance(s)'
    <3>1. ~ Raced(s) /\ Balance(s) /\ Cardinality(npcList[s]) \in Nat /\ currentCount[s] \in Int
          /\ Cardinality(npcList'[s]) \in Nat /\ currentCount'[s] \in Int
      BY <2>2, RacedStays, TypeStep, FiniteStep, FS_CardinalityType
         DEF Balance, CountMatchesList, FinitePlaces, TypeOK
    <3>2. PICK m \in Npcs : m = victim[k] /\ spawnOf[m] \in Spawns
      BY <1>20, KillerKnown DEF RemoveNpc
    <3>3. ASSUME spawnOf[m] = s PROVE m \in npcList[s]
      <4>1. m \notin raced
        BY <3>1, <3>3 DEF Raced
      <4> QED
        BY <1>20, <3>2, <3>3, <4>1, DespawnedAlone DEF DespawnStage, InList, RemoveNpc
    <3>4. npcList'[s] = IF spawnOf[m] = s THEN npcList[s] \ {m} ELSE npcList[s]
      BY <1>20, <3>2 DEF RemoveNpc, TypeOK
    <3>5. Cardinality(npcList'[s]) = Cardinality(npcList[s]) - One(spawnOf[m] = s)
      <4>1. IsFiniteSet(npcList[s])
        BY DEF FinitePlaces
      <4>2. CASE spawnOf[m] = s
        BY <3>3, <3>4, <4>1, <4>2, FS_RemoveElement DEF One
      <4>3. CASE spawnOf[m] # s
        BY <3>1, <3>4, <4>3 DEF One
      <4> QED
        BY <4>2, <4>3
    <3>6. /\ currentCount' = currentCount /\ victim' = victim
          /\ Cardinality(npcList'[s]) = Cardinality(npcList[s]) - One(spawnOf[victim[k]] = s)
          /\ kpc[k] = "unlist" /\ kpc'[k] = "uncount"
      BY <1>20, <3>2, <3>5 DEF RemoveNpc, KGoto, TypeOK
    <3>7. currentCount'[s] - currentCount[s]
            = Cardinality(npcList'[s]) - Cardinality(npcList[s])
                + One(kpc'[k] = "uncount" /\ spawnOf[victim'[k]] = s)
                - One(kpc[k] = "uncount" /\ spawnOf[victim[k]] = s)
      BY <3>1, <3>6 DEF One
    <3> QED
      BY <2>1, <3>1, <3>7, KillerBalance
  <2> QED
    BY <2>2 DEF CountMatchesList, Balance
<1>21. ASSUME NEW k \in Killers, DecreaseCount(k) PROVE CountMatchesList'
  <2>1. KillerStep(k)
    BY <1>21 DEF KillerStep
  <2>2. ASSUME NEW s \in Spawns, ~ Raced(s)' PROVE Balance(s)'
    <3>1. ~ Raced(s) /\ Balance(s) /\ Cardinality(npcList[s]) \in Nat /\ currentCount[s] \in Int
          /\ Cardinality(npcList'[s]) \in Nat /\ currentCount'[s] \in Int
      BY <2>2, RacedStays, TypeStep, FiniteStep, FS_CardinalityType
         DEF Balance, CountMatchesList, FinitePlaces, TypeOK
    <3>2. /\ npcList' = npcList /\ currentCount'[s] = currentCount[s] - One(spawnOf[victim[k]] = s)
          /\ kpc[k] = "uncount" /\ kpc'[k] # "uncount"
      BY <1>21 DEF DecreaseCount, KGoto, TypeOK, One
    <3>3. currentCount'[s] - currentCount[s]
            = Cardinality(npcList'[s]) - Cardinality(npcList[s])
                + One(kpc'[k] = "uncount" /\ spawnOf[victim'[k]] = s)
                - One(kpc[k] = "uncount" /\ spawnOf[victim[k]] = s)
      BY <3>1, <3>2 DEF One
    <3> QED
      BY <2>1, <3>1, <3>3, KillerBalance
  <2> QED
    BY <2>2 DEF CountMatchesList, Balance
<1>22. ASSUME NEW k \in Killers, ScheduleRespawn(k) PROVE CountMatchesList'
  BY <1>22, KillerQuiet DEF ScheduleRespawn, KillerStep, KGoto, spawnVars, TypeOK
<1>23. ASSUME NEW s \in Spawns, CancelRespawn(s) PROVE CountMatchesList'
  <2>1. UNCHANGED <<currentCount, npcList, pc, spawn, spawnOf>>
    BY <1>23 DEF CancelRespawn, spawnVars, worldVars, aiVars, workerVars, killerVars,
       historyVars
  <2>2. ASSUME NEW t \in Spawns
        PROVE  /\ At(t, "unlist")' = At(t, "unlist") /\ At(t, "list")' = At(t, "list")
               /\ KillersAt(t, "uncount")' = KillersAt(t, "uncount")
    BY <1>23, <2>1 DEF CancelRespawn, At, KillersAt, killerVars
  <2>3. \A t \in Spawns : ~ Raced(t)' => ~ Raced(t)
    BY RacedStays
  <2> QED
    BY <2>1, <2>2, <2>3 DEF CountMatchesList
<1>24. ASSUME NEW e \in Executors, NEW due \in SUBSET Spawns, ProcessTasks(e, due)
       PROVE CountMatchesList'
  <2>1. UNCHANGED <<currentCount, npcList, pc, spawn, spawnOf>>
    BY <1>24 DEF ProcessTasks, spawnVars, worldVars, aiVars, workerVars, killerVars, historyVars
  <2>2. ASSUME NEW t \in Spawns
        PROVE  /\ At(t, "unlist")' = At(t, "unlist") /\ At(t, "list")' = At(t, "list")
               /\ KillersAt(t, "uncount")' = KillersAt(t, "uncount")
    BY <1>24, <2>1 DEF ProcessTasks, At, KillersAt, killerVars
  <2>3. \A t \in Spawns : ~ Raced(t)' => ~ Raced(t)
    BY RacedStays
  <2> QED
    BY <2>1, <2>2, <2>3 DEF CountMatchesList
<1>25. ASSUME UNCHANGED vars PROVE CountMatchesList'
  <2>1. UNCHANGED <<currentCount, npcList, pc, spawn, spawnOf>>
    BY <1>25 DEF vars, spawnVars, worldVars, aiVars, workerVars, killerVars, historyVars
  <2>2. ASSUME NEW t \in Spawns
        PROVE  /\ At(t, "unlist")' = At(t, "unlist") /\ At(t, "list")' = At(t, "list")
               /\ KillersAt(t, "uncount")' = KillersAt(t, "uncount")
    BY <1>25, <2>1 DEF vars, At, KillersAt, killerVars
  <2>3. \A t \in Spawns : ~ Raced(t)' => ~ Raced(t)
    BY RacedStays
  <2> QED
    BY <2>1, <2>2, <2>3 DEF CountMatchesList
<1> QED
  BY <1>1, <1>2, <1>3, <1>4, <1>5, <1>6, <1>7, <1>8, <1>9, <1>10, <1>11,
     <1>12, <1>13, <1>14, <1>15, <1>16, <1>17, <1>18, <1>19, <1>20, <1>21,
     <1>22, <1>23, <1>24, <1>25
     DEF KillerStep, SpawnNext, Tick, WorkerStep

Registering   == {w \in Workers : pc[w] = "registered"}
Unregistering == {k \in Killers : kpc[k] = "unregistered"}

-----------------------------------------------------------------------------
(* The controllers.                                                         *)

LEMMA WorkerRegisters ==
    ASSUME TypeOK, FinitePlaces, ControllersCounted, NEW w \in Workers, WorkerStep(w),
           controllerCount' \in Int, Cardinality(controllers') \in Nat,
           controllerCount' - controllerCount
             + One(pc'[w] = "registered") - One(pc[w] = "registered")
             = Cardinality(controllers') - Cardinality(controllers)
    PROVE  ControllersCounted'
<1>1. Registering \ {w} = Registering' \ {w} /\ IsFiniteSet(Registering)
  BY WorkerAlone, WorkersFinite DEF Registering
<1>2. /\ w \in Registering <=> pc[w] = "registered"
      /\ w \in Registering' <=> pc'[w] = "registered"
      /\ Unregistering' = Unregistering
  BY WorkerFrame DEF Registering, Unregistering
<1>3. /\ Cardinality(Registering) \in Nat /\ Cardinality(Registering') \in Nat
      /\ Cardinality(Registering') = Cardinality(Registering)
           + One(w \in Registering') - One(w \in Registering)
  BY <1>1, OneElement
<1>4. Cardinality(Unregistering) \in Nat /\ Cardinality(controllers) \in Nat /\ controllerCount \in Int
  BY KillersFinite, FS_CardinalityType DEF Unregistering, FinitePlaces, TypeOK
<1>5. /\ ControllersCounted <=>
           controllerCount + Cardinality(Registering)
             = Cardinality(controllers) + Cardinality(Unregistering)
      /\ ControllersCounted' <=>
           controllerCount' + Cardinality(Registering')
             = Cardinality(controllers') + Cardinality(Unregistering')
  BY DEF ControllersCounted, Registering, Unregistering
<1> QED
  BY <1>2, <1>3, <1>4, <1>5 DEF One

\* The same of a despawning goroutine.
LEMMA KillerUnregisters ==
    ASSUME TypeOK, FinitePlaces, ControllersCounted, NEW k \in Killers, KillerStep(k),
           controllerCount' \in Int, Cardinality(controllers') \in Nat,
           controllerCount' - controllerCount
             = Cardinality(controllers') - Cardinality(controllers)
                 + One(kpc'[k] = "unregistered") - One(kpc[k] = "unregistered")
    PROVE  ControllersCounted'
<1>1. Unregistering \ {k} = Unregistering' \ {k} /\ IsFiniteSet(Unregistering)
  BY KillerAlone, KillersFinite DEF Unregistering
<1>2. /\ k \in Unregistering <=> kpc[k] = "unregistered"
      /\ k \in Unregistering' <=> kpc'[k] = "unregistered"
      /\ Registering' = Registering
  BY KillerFrame DEF Registering, Unregistering
<1>3. /\ Cardinality(Unregistering) \in Nat /\ Cardinality(Unregistering') \in Nat
      /\ Cardinality(Unregistering') = Cardinality(Unregistering)
           + One(k \in Unregistering') - One(k \in Unregistering)
  BY <1>1, OneElement
<1>4. Cardinality(Registering) \in Nat /\ Cardinality(controllers) \in Nat /\ controllerCount \in Int
  BY WorkersFinite, FS_CardinalityType DEF Registering, FinitePlaces, TypeOK
<1>5. /\ ControllersCounted <=>
           controllerCount + Cardinality(Registering)
             = Cardinality(controllers) + Cardinality(Unregistering)
      /\ ControllersCounted' <=>
           controllerCount' + Cardinality(Registering')
             = Cardinality(controllers') + Cardinality(Unregistering')
  BY DEF ControllersCounted, Registering, Unregistering
<1> QED
  BY <1>2, <1>3, <1>4, <1>5 DEF One

\* A step outside Register and Unregister keeps the count of controllers.
LEMMA WorkerAside ==
    ASSUME TypeOK, FinitePlaces, ControllersCounted, NEW w \in Workers, WorkerStep(w),
           UNCHANGED <<controllers, controllerCount>>,
           pc[w] # "registered", pc'[w] # "registered"
    PROVE  ControllersCounted'
<1>1. Cardinality(controllers) \in Nat /\ controllerCount \in Int
  BY FS_CardinalityType DEF FinitePlaces, TypeOK
<1> QED
  BY <1>1, WorkerRegisters DEF One

\* The same of a despawning goroutine.
LEMMA KillerAside ==
    ASSUME TypeOK, FinitePlaces, ControllersCounted, NEW k \in Killers, KillerStep(k),
           UNCHANGED <<controllers, controllerCount>>,
           kpc[k] # "unregistered", kpc'[k] # "unregistered"
    PROVE  ControllersCounted'
<1>1. Cardinality(controllers) \in Nat /\ controllerCount \in Int
  BY FS_CardinalityType DEF FinitePlaces, TypeOK
<1> QED
  BY <1>1, KillerUnregisters DEF One

LEMMA ControllersStep ==
    ASSUME TypeOK, PlacesInv, FinitePlaces, ControllersCounted, [SpawnNext]_vars
    PROVE  ControllersCounted'
<1>1. ASSUME NEW w \in Workers, NEW s \in Spawns, Begin(w, s) PROVE ControllersCounted'
  BY <1>1, WorkerAside DEF Begin, WorkerStep, Goto, Abandon, aiVars, TypeOK
<1>2. ASSUME NEW w \in Workers, Peek(w) PROVE ControllersCounted'
  BY <1>2, WorkerAside DEF Peek, WorkerStep, Goto, Abandon, aiVars, TypeOK
<1>3. ASSUME NEW w \in Workers, Check(w) PROVE ControllersCounted'
  BY <1>3, WorkerAside DEF Check, WorkerStep, Goto, Abandon, aiVars, TypeOK
<1>4. ASSUME NEW w \in Workers, LoadTemplate(w) PROVE ControllersCounted'
  BY <1>4, WorkerAside DEF LoadTemplate, WorkerStep, Goto, Abandon, aiVars, TypeOK
<1>5. ASSUME NEW w \in Workers, IncreaseCount(w) PROVE ControllersCounted'
  BY <1>5, WorkerAside DEF IncreaseCount, WorkerStep, Goto, Abandon, aiVars, TypeOK
<1>6. ASSUME NEW w \in Workers, AddNpc(w) PROVE ControllersCounted'
  BY <1>6, WorkerAside DEF AddNpc, WorkerStep, Goto, Abandon, aiVars, TypeOK
<1>7. ASSUME NEW w \in Workers, UndoCount(w) PROVE ControllersCounted'
  BY <1>7, WorkerAside DEF UndoCount, WorkerStep, Goto, Abandon, aiVars, TypeOK
<1>8. ASSUME NEW w \in Workers, UndoList(w) PROVE ControllersCounted'
  BY <1>8, WorkerAside DEF UndoList, WorkerStep, Goto, Abandon, aiVars, TypeOK
<1>9. ASSUME NEW w \in Workers, AddObject(w) PROVE ControllersCounted'
  BY <1>9, WorkerAside DEF AddObject, WorkerStep, Goto, Abandon, aiVars, TypeOK
<1>10. ASSUME NEW w \in Workers, AddVisibleObject(w) PROVE ControllersCounted'
  BY <1>10, WorkerAside DEF AddVisibleObject, WorkerStep, Goto, Abandon, aiVars, TypeOK
<1>11. ASSUME NEW w \in Workers, Register(w) PROVE ControllersCounted'
  <2>1. WorkerStep(w) /\ Cardinality(controllers) \in Nat /\ controllerCount \in Int
    BY <1>11, FS_CardinalityType DEF WorkerStep, FinitePlaces, TypeOK
  <2>2. npc[w] \notin controllers /\ IsFiniteSet(controllers)
    BY <1>11 DEF Register, PlacesInv, RegistersOnce, Busy, FinitePlaces
  <2>3. Cardinality(controllers') = Cardinality(controllers) + 1
    BY <1>11, <2>2, FS_AddElement DEF Register
  <2>4. controllerCount' = controllerCount /\ pc[w] = "register" /\ pc'[w] = "registered"
    BY <1>11 DEF Register, Goto, TypeOK
  <2> QED
    BY <2>1, <2>3, <2>4, WorkerRegisters DEF One
<1>12. ASSUME NEW w \in Workers, CountController(w) PROVE ControllersCounted'
  <2>1. WorkerStep(w) /\ Cardinality(controllers) \in Nat /\ controllerCount \in Int
    BY <1>12, FS_CardinalityType DEF WorkerStep, FinitePlaces, TypeOK
  <2>2. /\ controllers' = controllers /\ controllerCount' = controllerCount + 1
        /\ pc[w] = "registered" /\ pc'[w] = "start"
    BY <1>12 DEF CountController, Goto, TypeOK
  <2> QED
    BY <2>1, <2>2, WorkerRegisters DEF One
<1>13. ASSUME NEW w \in Workers, StartController(w) PROVE ControllersCounted'
  BY <1>13, WorkerAside DEF StartController, WorkerStep, Goto, Abandon, aiVars, TypeOK
<1>14. ASSUME NEW k \in Killers, NEW n \in Npcs, Despawn(k, n) PROVE ControllersCounted'
  <2>1. UNCHANGED <<controllers, controllerCount, pc>>
    BY <1>14 DEF Despawn, aiVars, workerVars
  <2>2. Unregistering' = Unregistering
    BY <1>14 DEF Despawn, KGoto, Unregistering, TypeOK
  <2> QED
    BY <2>1, <2>2 DEF ControllersCounted, Unregistering
<1>15. ASSUME NEW k \in Killers, Unregister(k) PROVE ControllersCounted'
  <2>1. KillerStep(k) /\ Cardinality(controllers) \in Nat /\ controllerCount \in Int
    BY <1>15, FS_CardinalityType DEF KillerStep, FinitePlaces, TypeOK
  <2>2. controllerCount' = controllerCount /\ kpc[k] = "unregister" /\ IsFiniteSet(controllers)
    BY <1>15 DEF Unregister, FinitePlaces
  <2>3. CASE victim[k] \in controllers
    <3>1. kpc'[k] = "unregistered"
      BY <1>15, <2>3 DEF Unregister, KGoto, TypeOK
    <3>2. Cardinality(controllers') = Cardinality(controllers) - 1
      BY <1>15, <2>2, <2>3, FS_RemoveElement DEF Unregister
    <3>3. Cardinality(controllers') \in Nat
      BY <1>15, <2>2, FS_RemoveElement, FS_CardinalityType DEF Unregister
    <3> QED
      BY <2>1, <2>2, <3>1, <3>2, <3>3, KillerUnregisters DEF One
  <2>4. CASE victim[k] \notin controllers
    <3>1. kpc'[k] = "remove" /\ controllers' = controllers
      BY <1>15, <2>4 DEF Unregister, KGoto, TypeOK
    <3> QED
      BY <2>1, <2>2, <3>1, KillerUnregisters DEF One
  <2> QED
    BY <2>3, <2>4
<1>16. ASSUME NEW k \in Killers, UncountController(k) PROVE ControllersCounted'
  <2>1. KillerStep(k) /\ Cardinality(controllers) \in Nat /\ controllerCount \in Int
    BY <1>16, FS_CardinalityType DEF KillerStep, FinitePlaces, TypeOK
  <2>2. /\ controllers' = controllers /\ controllerCount' = controllerCount - 1
        /\ kpc[k] = "unregistered" /\ kpc'[k] = "stop"
    BY <1>16 DEF UncountController, KGoto, TypeOK
  <2> QED
    BY <2>1, <2>2, KillerUnregisters DEF One
<1>17. ASSUME NEW k \in Killers, StopController(k) PROVE ControllersCounted'
  BY <1>17, KillerAside DEF StopController, KillerStep, KGoto, aiVars, TypeOK
<1>18. ASSUME NEW k \in Killers, RemoveObject(k) PROVE ControllersCounted'
  BY <1>18, KillerAside DEF RemoveObject, KillerStep, KGoto, aiVars, TypeOK
<1>19. ASSUME NEW k \in Killers, RemoveVisibleObject(k) PROVE ControllersCounted'
  BY <1>19, KillerAside DEF RemoveVisibleObject, KillerStep, KGoto, aiVars, TypeOK
<1>20. ASSUME NEW k \in Killers, RemoveNpc(k) PROVE ControllersCounted'
  BY <1>20, KillerAside DEF RemoveNpc, KillerStep, KGoto, aiVars, TypeOK
<1>21. ASSUME NEW k \in Killers, DecreaseCount(k) PROVE ControllersCounted'
  BY <1>21, KillerAside DEF DecreaseCount, KillerStep, KGoto, aiVars, TypeOK
<1>22. ASSUME NEW k \in Killers, ScheduleRespawn(k) PROVE ControllersCounted'
  BY <1>22, KillerAside DEF ScheduleRespawn, KillerStep, KGoto, aiVars, TypeOK
<1>23. ASSUME NEW s \in Spawns, CancelRespawn(s) PROVE ControllersCounted'
  BY <1>23 DEF CancelRespawn, ControllersCounted, aiVars, workerVars, killerVars
<1>24. ASSUME NEW e \in Executors, NEW due \in SUBSET Spawns, ProcessTasks(e, due)
       PROVE ControllersCounted'
  BY <1>24 DEF ProcessTasks, ControllersCounted, aiVars, workerVars, killerVars
<1>25. ASSUME UNCHANGED vars PROVE ControllersCounted'
  BY <1>25 DEF vars, ControllersCounted, aiVars, workerVars, killerVars
<1> QED
  BY <1>1, <1>2, <1>3, <1>4, <1>5, <1>6, <1>7, <1>8, <1>9, <1>10, <1>11,
     <1>12, <1>13, <1>14, <1>15, <1>16, <1>17, <1>18, <1>19, <1>20, <1>21,
     <1>22, <1>23, <1>24, <1>25
     DEF KillerStep, SpawnNext, Tick, WorkerStep

-----------------------------------------------------------------------------
(* Never more than MaximumCount.                                            *)

LEMMA AtMostOne ==
    ASSUME NEW S, IsFiniteSet(S), Cardinality(S) <= 1, NEW x \in S, NEW y \in S
    PROVE  x = y
<1> SUFFICES ASSUME x # y PROVE FALSE
  OBVIOUS
<1>1. IsFiniteSet({x}) /\ Cardinality({x}) = 1
  BY FS_Singleton
<1>2. Cardinality({x} \cup {y}) = 2
  BY <1>1, FS_AddElement
<1>3. Cardinality({x} \cup {y}) <= Cardinality(S)
  BY FS_Subset
<1> QED
  BY <1>2, <1>3, FS_CardinalityType

\* What a goroutine has left to spawn is never negative.
LEMMA LeftType ==
    ASSUME TypeOK, WorkersInv, NEW w \in Workers, NEW s \in Spawns
    PROVE  /\ Left(w, s) \in Int /\ Left(w, s) >= 0
           /\ jobs[w][s] \in {0, 1} => Left(w, s) \in {0, 1}
<1>1. jobs[w][s] \in Nat
  BY SpawnAssumption DEF TypeOK
<1>2. spawn[w] = s => jobs[w][s] > 0
  BY DEF WorkersInv, WorkerOK
<1> QED
  BY <1>1, <1>2 DEF Left, One

\* The same after a step.
LEMMA LeftTypeNext ==
    ASSUME TypeOK', WorkersInv', NEW w \in Workers, NEW s \in Spawns
    PROVE  /\ Left(w, s)' \in Int /\ Left(w, s)' >= 0
           /\ jobs'[w][s] \in {0, 1} => Left(w, s)' \in {0, 1}
<1>1. jobs'[w][s] \in Nat
  BY SpawnAssumption DEF TypeOK
<1>2. spawn'[w] = s => jobs'[w][s] > 0
  BY DEF WorkersInv, WorkerOK
<1> QED
  BY <1>1, <1>2 DEF Left, One

\* A worker that has not counted an NPC and gives up, or goes on, asks for no more.
LEMMA AbandonLeft ==
    ASSUME TypeOK, NEW w \in Workers, spawn[w] \in Spawns, pc[w] \notin Counted, NEW s \in Spawns,
           currentCount' = currentCount,
           \/ Abandon(w)
           \/ \E label : label \notin Counted /\ UNCHANGED <<jobs, spawn>> /\ Goto(w, label)
    PROVE  Left(w, s)' + currentCount'[s] <= Left(w, s) + currentCount[s]
<1>1. jobs[w][s] \in Nat /\ currentCount[s] \in Int
  BY SpawnAssumption DEF TypeOK
<1>2. CASE Abandon(w)
  <2>1. jobs'[w][s] \in {0, jobs[w][s]} /\ spawn'[w] = NoSpawn /\ s # NoSpawn
    BY <1>2, SpawnAssumption DEF Abandon, TypeOK
  <2> QED
    BY <1>1, <2>1 DEF Left, One
<1>3. ASSUME NEW label, label \notin Counted, UNCHANGED <<jobs, spawn>>, Goto(w, label)
      PROVE  Left(w, s)' + currentCount'[s] <= Left(w, s) + currentCount[s]
  <2>1. pc'[w] = label
    BY <1>3 DEF Goto, TypeOK
  <2> QED
    BY <1>1, <1>3, <2>1 DEF Left, One
<1> QED
  BY <1>2, <1>3

LEMMA ComingFinite ==
    ASSUME NEW s \in Spawns
    PROVE  IsFiniteSet(Coming(s)) /\ Cardinality(Coming(s)) \in Nat
BY WorkersFinite, FS_CardinalityType DEF Coming, Workers

\* A worker's step that fills a place, or gives one back, uses its own.
LEMMA WorkerFills ==
    ASSUME TypeOK, TypeOK', WorkersInv, WorkersInv', KillersInv, ExecutorJobs, ExecutorJobs',
           Cardinality(Starters) <= 1, NEW w \in Workers, WorkerStep(w), NEW s \in Spawns,
           PlaceForEach(s),
           Left(w, s)' + currentCount'[s] <= Left(w, s) + currentCount[s]
    PROVE  PlaceForEach(s)'
<1>1. /\ KillersAt(s, "schedule")' = KillersAt(s, "schedule")
      /\ Cardinality(KillersAt(s, "schedule")) \in Nat
      /\ tasks' = tasks /\ currentCount[s] \in Int /\ currentCount'[s] \in Int
      /\ One(s \in tasks) \in Int
  BY KillersAtKept, WorkerFrame, KillersFinite, FS_CardinalityType
     DEF KillersAt, KillerLabels, TypeOK, One
<1>2. \A v \in Workers \ {w} : Left(v, s)' = Left(v, s)
  BY WorkerAlone DEF Left
<1>3. /\ Left(w, s) \in Int /\ Left(w, s)' \in Int /\ Left(w, s)' >= 0
      /\ Cardinality(Coming(s)) \in Nat /\ IsFiniteSet(Coming(s)) /\ MaximumCount \in Int
  BY LeftType, LeftTypeNext, ComingFinite, SpawnAssumption
<1>4. CASE w \in Starters
  <2>1. Coming(s)' = Coming(s)
    BY <1>2, <1>4, SpawnAssumption DEF Coming, Workers
  <2>2. \A v \in Starters : v = w
    BY <1>4, AtMostOne, WorkersFinite DEF Workers
  <2>3. Left(w, s) <= PlacesLeft(s)
    BY <1>4 DEF PlaceForEach
  <2>4. PlacesLeft(s)' = PlacesLeft(s) + currentCount[s] - currentCount'[s]
        /\ PlacesLeft(s) \in Int
    BY <1>1, <1>3, <2>1 DEF PlacesLeft
  <2>5. Left(w, s)' <= PlacesLeft(s)' /\ PlacesLeft(s)' >= 0
    BY <1>1, <1>3, <2>3, <2>4
  <2> QED
    BY <2>2, <2>5 DEF PlaceForEach
<1>5. CASE w \in Executors
  <2>1. Coming(s) \ {w} = Coming(s)' \ {w}
    BY <1>2, <1>5 DEF Coming, Workers
  <2>2. Left(w, s) \in {0, 1} /\ Left(w, s)' \in {0, 1}
    BY <1>5, LeftType, LeftTypeNext DEF ExecutorJobs
  <2>3. /\ w \in Coming(s) <=> Left(w, s) = 1
        /\ w \in Coming(s)' <=> Left(w, s)' = 1
    BY <1>5 DEF Coming
  <2>4. /\ Cardinality(Coming(s)') \in Nat
        /\ Cardinality(Coming(s)') = Cardinality(Coming(s))
              + One(w \in Coming(s)') - One(w \in Coming(s))
    BY <1>3, <2>1, OneElement
  <2>5. Cardinality(Coming(s)') = Cardinality(Coming(s)) + Left(w, s)' - Left(w, s)
    BY <1>3, <2>2, <2>3, <2>4 DEF One
  <2>6. PlacesLeft(s)' >= PlacesLeft(s) /\ PlacesLeft(s) \in Int /\ PlacesLeft(s)' \in Int
    BY <1>1, <1>3, <2>4, <2>5 DEF PlacesLeft
  <2>7. \A v \in Starters : Left(v, s)' = Left(v, s) /\ Left(v, s) \in Int
    BY <1>2, <1>5, LeftType, SpawnAssumption DEF Workers
  <2> QED
    BY <2>6, <2>7 DEF PlaceForEach
<1> QED
  BY <1>4, <1>5 DEF Workers

\* A step of anybody else that leaves the jobs alone and no fewer places.
LEMMA OthersFill ==
    ASSUME TypeOK, TypeOK', WorkersInv, NEW s \in Spawns, PlaceForEach(s),
           UNCHANGED <<jobs, pc, spawn>>,
           currentCount'[s] + Cardinality(KillersAt(s, "schedule"))' + One(s \in tasks')
             <= currentCount[s] + Cardinality(KillersAt(s, "schedule")) + One(s \in tasks)
    PROVE  PlaceForEach(s)'
<1>1. /\ Cardinality(KillersAt(s, "schedule")) \in Nat
      /\ Cardinality(KillersAt(s, "schedule"))' \in Nat
      /\ currentCount[s] \in Int /\ currentCount'[s] \in Int
      /\ One(s \in tasks) \in Int /\ One(s \in tasks') \in Int
  BY KillersFinite, FS_CardinalityType DEF KillersAt, TypeOK, One
<1>2. \A v \in Workers : Left(v, s)' = Left(v, s) /\ Left(v, s) \in Int
  BY LeftType DEF Left
<1>3. Coming(s)' = Coming(s)
  BY <1>2 DEF Coming, Workers
<1>4. PlacesLeft(s)' >= PlacesLeft(s) /\ PlacesLeft(s) \in Int /\ PlacesLeft(s)' \in Int
  BY <1>1, <1>3, ComingFinite, SpawnAssumption DEF PlacesLeft
<1> QED
  BY <1>2, <1>4 DEF PlaceForEach, Workers

\* A step that counts nothing and drops nothing keeps the places.
LEMMA WorkerKeeps ==
    ASSUME TypeOK, TypeOK', WorkersInv, WorkersInv', KillersInv, ExecutorJobs, FillInv,
           [SpawnNext]_vars, NEW w \in Workers, WorkerStep(w),
           jobs' = jobs, currentCount' = currentCount,
           \/ spawn' = spawn /\ (pc'[w] \in Counted <=> pc[w] \in Counted)
           \/ pc[w] \notin Counted /\ pc'[w] \notin Counted
    PROVE  FillInv'
<1>1. ASSUME NEW s \in Spawns PROVE Left(w, s)' = Left(w, s) /\ Left(w, s) \in Int
  BY LeftType DEF Left, One
<1>2. ExecutorJobs' /\ \A s \in Spawns : currentCount[s] \in Int
  BY DEF ExecutorJobs, TypeOK
<1> QED
  BY <1>1, <1>2, WorkerFills, RacedStays DEF FillInv

\* A despawn only makes room, until it schedules the respawn.
LEMMA KillerKeeps ==
    ASSUME TypeOK, TypeOK', WorkersInv, ExecutorJobs, FillInv,
           [SpawnNext]_vars, NEW k \in Killers, KillerStep(k),
           UNCHANGED <<currentCount, tasks>>, kpc[k] # "schedule", kpc'[k] # "schedule"
    PROVE  FillInv'
<1>1. UNCHANGED <<jobs, pc, spawn>> /\ ExecutorJobs'
  BY KillerFrame DEF ExecutorJobs
<1>2. ASSUME NEW s \in Spawns
      PROVE  Cardinality(KillersAt(s, "schedule"))' = Cardinality(KillersAt(s, "schedule"))
  BY KillersAtStep DEF One
<1>3. ASSUME NEW s \in Spawns
      PROVE  currentCount'[s] + Cardinality(KillersAt(s, "schedule"))' + One(s \in tasks')
               <= currentCount[s] + Cardinality(KillersAt(s, "schedule")) + One(s \in tasks)
  <2>1. currentCount[s] \in Int /\ Cardinality(KillersAt(s, "schedule")) \in Nat
    BY KillersAtStep DEF TypeOK
  <2> QED
    BY <1>2, <2>1 DEF One
<1> QED
  BY <1>1, <1>3, OthersFill, RacedStays DEF FillInv

LEMMA FillStep ==
    ASSUME TypeOK, TypeOK', WorkersInv, WorkersInv', KillersInv, ExecutorJobs, FillInv, [SpawnNext]_vars
    PROVE  FillInv'
<1>1. ASSUME NEW w \in Workers, NEW s \in Spawns, Begin(w, s) PROVE FillInv'
  BY <1>1, WorkerKeeps
     DEF Begin, WorkerStep, Goto, Counted, spawnVars, TypeOK
<1>2. ASSUME NEW w \in Workers, Peek(w) PROVE FillInv'
  <2>1. WorkerStep(w) /\ spawn[w] \in Spawns /\ currentCount' = currentCount
    BY <1>2, WorkerKnown DEF WorkerStep, Peek, spawnVars
  <2>2. Abandon(w) \/ (UNCHANGED <<jobs, spawn>> /\ Goto(w, "check"))
    BY <1>2 DEF Peek
  <2>3. ExecutorJobs'
    BY <2>1, <2>2 DEF ExecutorJobs, Abandon, Workers, TypeOK
  <2>4. ASSUME NEW s \in Spawns
        PROVE  Left(w, s)' + currentCount'[s] <= Left(w, s) + currentCount[s]
    <3>1. pc[w] \notin Counted
      BY <1>2 DEF Peek, Counted
    <3> QED
      BY <2>1, <2>2, <3>1, AbandonLeft DEF Counted
  <2> QED
    BY <2>1, <2>3, <2>4, WorkerFills, RacedStays DEF FillInv
<1>3. ASSUME NEW w \in Workers, Check(w) PROVE FillInv'
  <2>1. WorkerStep(w) /\ spawn[w] \in Spawns /\ currentCount' = currentCount
    BY <1>3, WorkerKnown DEF WorkerStep, Check, spawnVars
  <2>2. Abandon(w) \/ (UNCHANGED <<jobs, spawn>> /\ Goto(w, "load"))
    BY <1>3 DEF Check
  <2>3. ExecutorJobs'
    BY <2>1, <2>2 DEF ExecutorJobs, Abandon, Workers, TypeOK
  <2>4. ASSUME NEW s \in Spawns
        PROVE  Left(w, s)' + currentCount'[s] <= Left(w, s) + currentCount[s]
    <3>1. pc[w] \notin Counted
      BY <1>3 DEF Check, Counted
    <3> QED
      BY <2>1, <2>2, <3>1, AbandonLeft DEF Counted
  <2> QED
    BY <2>1, <2>3, <2>4, WorkerFills, RacedStays DEF FillInv
<1>4. ASSUME NEW w \in Workers, LoadTemplate(w) PROVE FillInv'
  <2>1. WorkerStep(w) /\ spawn[w] \in Spawns /\ currentCount' = currentCount
    BY <1>4, WorkerKnown DEF WorkerStep, LoadTemplate, spawnVars
  <2>2. Abandon(w) \/ (UNCHANGED <<jobs, spawn>> /\ Goto(w, "count"))
    BY <1>4 DEF LoadTemplate
  <2>3. ExecutorJobs'
    BY <2>1, <2>2 DEF ExecutorJobs, Abandon, Workers, TypeOK
  <2>4. ASSUME NEW s \in Spawns
        PROVE  Left(w, s)' + currentCount'[s] <= Left(w, s) + currentCount[s]
    <3>1. pc[w] \notin Counted
      BY <1>4 DEF LoadTemplate, Counted
    <3> QED
      BY <2>1, <2>2, <3>1, AbandonLeft DEF Counted
  <2> QED
    BY <2>1, <2>3, <2>4, WorkerFills, RacedStays DEF FillInv
<1>5. ASSUME NEW w \in Workers, IncreaseCount(w) PROVE FillInv'
  <2>1. WorkerStep(w) /\ spawn[w] \in Spawns /\ jobs[w][spawn[w]] \in 1 .. MaximumCount
    BY <1>5, WorkerKnown DEF WorkerStep, IncreaseCount
  <2>2. ExecutorJobs'
    BY <1>5, <2>1 DEF IncreaseCount, ExecutorJobs, Abandon, Workers, TypeOK
  <2>3. ASSUME NEW s \in Spawns
        PROVE  Left(w, s)' + currentCount'[s] <= Left(w, s) + currentCount[s]
    <3>1. jobs[w][s] \in Nat /\ currentCount[s] \in Int
      BY SpawnAssumption DEF TypeOK
    <3> QED
      BY <1>5, <2>1, <3>1, SpawnAssumption
         DEF IncreaseCount, Goto, Abandon, Left, Counted, One, spawnVars, TypeOK
  <2> QED
    BY <2>1, <2>2, <2>3, WorkerFills, RacedStays DEF FillInv
<1>6. ASSUME NEW w \in Workers, AddNpc(w) PROVE FillInv'
  BY <1>6, WorkerKeeps
     DEF AddNpc, WorkerStep, Goto, Counted, spawnVars, TypeOK
<1>7. ASSUME NEW w \in Workers, UndoCount(w) PROVE FillInv'
  <2>1. WorkerStep(w) /\ spawn[w] \in Spawns /\ jobs[w][spawn[w]] \in 1 .. MaximumCount
    BY <1>7, WorkerKnown DEF WorkerStep, UndoCount
  <2>2. ExecutorJobs'
    BY <1>7, <2>1 DEF UndoCount, ExecutorJobs, Abandon, Workers, TypeOK
  <2>3. ASSUME NEW s \in Spawns
        PROVE  Left(w, s)' + currentCount'[s] <= Left(w, s) + currentCount[s]
    <3>1. jobs[w][s] \in Nat /\ currentCount[s] \in Int
      BY SpawnAssumption DEF TypeOK
    <3> QED
      BY <1>7, <2>1, <3>1, SpawnAssumption
         DEF UndoCount, Goto, Abandon, Left, Counted, One, spawnVars, TypeOK
  <2> QED
    BY <2>1, <2>2, <2>3, WorkerFills, RacedStays DEF FillInv
<1>8. ASSUME NEW w \in Workers, UndoList(w) PROVE FillInv'
  <2>1. WorkerStep(w) /\ spawn[w] \in Spawns /\ jobs[w][spawn[w]] \in 1 .. MaximumCount
    BY <1>8, WorkerKnown DEF WorkerStep, UndoList
  <2>2. ExecutorJobs'
    BY <1>8, <2>1 DEF UndoList, ExecutorJobs, Abandon, Workers, TypeOK
  <2>3. ASSUME NEW s \in Spawns
        PROVE  Left(w, s)' + currentCount'[s] <= Left(w, s) + currentCount[s]
    <3>1. jobs[w][s] \in Nat /\ currentCount[s] \in Int
      BY SpawnAssumption DEF TypeOK
    <3> QED
      BY <1>8, <2>1, <3>1, SpawnAssumption
         DEF UndoList, Goto, Abandon, Left, Counted, One, spawnVars, TypeOK
  <2> QED
    BY <2>1, <2>2, <2>3, WorkerFills, RacedStays DEF FillInv
<1>9. ASSUME NEW w \in Workers, AddObject(w) PROVE FillInv'
  BY <1>9, WorkerKeeps
     DEF AddObject, WorkerStep, Goto, Counted, spawnVars, TypeOK
<1>10. ASSUME NEW w \in Workers, AddVisibleObject(w) PROVE FillInv'
  BY <1>10, WorkerKeeps
     DEF AddVisibleObject, WorkerStep, Goto, Counted, spawnVars, TypeOK
<1>11. ASSUME NEW w \in Workers, Register(w) PROVE FillInv'
  BY <1>11, WorkerKeeps
     DEF Register, WorkerStep, Goto, Counted, spawnVars, TypeOK
<1>12. ASSUME NEW w \in Workers, CountController(w) PROVE FillInv'
  BY <1>12, WorkerKeeps
     DEF CountController, WorkerStep, Goto, Counted, spawnVars, TypeOK
<1>13. ASSUME NEW w \in Workers, StartController(w) PROVE FillInv'
  <2>1. WorkerStep(w) /\ spawn[w] \in Spawns /\ jobs[w][spawn[w]] \in 1 .. MaximumCount
    BY <1>13, WorkerKnown DEF WorkerStep, StartController
  <2>2. ExecutorJobs'
    BY <1>13, <2>1 DEF StartController, ExecutorJobs, Abandon, Workers, TypeOK
  <2>3. ASSUME NEW s \in Spawns
        PROVE  Left(w, s)' + currentCount'[s] <= Left(w, s) + currentCount[s]
    <3>1. jobs[w][s] \in Nat /\ currentCount[s] \in Int
      BY SpawnAssumption DEF TypeOK
    <3> QED
      BY <1>13, <2>1, <3>1, SpawnAssumption
         DEF StartController, Goto, Abandon, Left, Counted, One, spawnVars, TypeOK
  <2> QED
    BY <2>1, <2>2, <2>3, WorkerFills, RacedStays DEF FillInv
<1>14. ASSUME NEW k \in Killers, NEW n \in Npcs, Despawn(k, n) PROVE FillInv'
  <2>1. UNCHANGED <<jobs, pc, spawn, currentCount>> /\ tasks' \subseteq tasks
    BY <1>14 DEF Despawn, spawnVars, workerVars
  <2>2. ASSUME NEW t \in Spawns PROVE KillersAt(t, "schedule")' = KillersAt(t, "schedule")
    BY <1>14 DEF Despawn, KillersAt, killerVars, KGoto, TypeOK, KillersInv, KillerOK
  <2>3. ASSUME NEW t \in Spawns
        PROVE  currentCount'[t] + Cardinality(KillersAt(t, "schedule"))' + One(t \in tasks')
                 <= currentCount[t] + Cardinality(KillersAt(t, "schedule")) + One(t \in tasks)
    <3>1. Cardinality(KillersAt(t, "schedule")) \in Nat /\ currentCount[t] \in Int
      BY KillersFinite, FS_CardinalityType DEF KillersAt, TypeOK
    <3> QED
      BY <2>1, <2>2, <3>1 DEF One
  <2> QED
    BY <2>1, <2>3, OthersFill, RacedStays DEF FillInv, ExecutorJobs
<1>15. ASSUME NEW k \in Killers, Unregister(k) PROVE FillInv'
  BY <1>15, KillerKeeps DEF Unregister, KillerStep, KGoto, spawnVars, TypeOK
<1>16. ASSUME NEW k \in Killers, UncountController(k) PROVE FillInv'
  BY <1>16, KillerKeeps DEF UncountController, KillerStep, KGoto, spawnVars, TypeOK
<1>17. ASSUME NEW k \in Killers, StopController(k) PROVE FillInv'
  BY <1>17, KillerKeeps DEF StopController, KillerStep, KGoto, spawnVars, TypeOK
<1>18. ASSUME NEW k \in Killers, RemoveObject(k) PROVE FillInv'
  BY <1>18, KillerKeeps DEF RemoveObject, KillerStep, KGoto, spawnVars, TypeOK
<1>19. ASSUME NEW k \in Killers, RemoveVisibleObject(k) PROVE FillInv'
  BY <1>19, KillerKeeps DEF RemoveVisibleObject, KillerStep, KGoto, spawnVars, TypeOK
<1>20. ASSUME NEW k \in Killers, RemoveNpc(k) PROVE FillInv'
  BY <1>20, KillerKeeps DEF RemoveNpc, KillerStep, KGoto, spawnVars, TypeOK
<1>21. ASSUME NEW k \in Killers, DecreaseCount(k) PROVE FillInv'
  <2>1. KillerStep(k) /\ UNCHANGED <<jobs, pc, spawn>>
    BY <1>21, KillerFrame DEF KillerStep
  <2>2. ASSUME NEW s \in Spawns
        PROVE  currentCount'[s] + Cardinality(KillersAt(s, "schedule"))' + One(s \in tasks')
                 <= currentCount[s] + Cardinality(KillersAt(s, "schedule")) + One(s \in tasks)
    <3>1. /\ Cardinality(KillersAt(s, "schedule")) \in Nat
          /\ Cardinality(KillersAt(s, "schedule"))' = Cardinality(KillersAt(s, "schedule"))
               + One(kpc'[k] = "schedule" /\ spawnOf[victim'[k]] = s)
               - One(kpc[k] = "schedule" /\ spawnOf[victim[k]] = s)
      BY <2>1, KillersAtStep
    <3>2. /\ tasks' = tasks /\ victim' = victim /\ kpc[k] = "uncount" /\ kpc'[k] = "schedule"
          /\ currentCount'[s] = currentCount[s] - One(spawnOf[victim[k]] = s)
      BY <1>21 DEF DecreaseCount, One, KGoto, spawnVars, TypeOK
    <3>3. currentCount[s] \in Int /\ One(s \in tasks) \in Int
      BY DEF TypeOK, One
    <3> QED
      BY <3>1, <3>2, <3>3 DEF One
  <2> QED
    BY <2>1, <2>2, OthersFill, RacedStays DEF FillInv, ExecutorJobs
<1>22. ASSUME NEW k \in Killers, ScheduleRespawn(k) PROVE FillInv'
  <2>1. KillerStep(k) /\ UNCHANGED <<jobs, pc, spawn>>
    BY <1>22, KillerFrame DEF KillerStep
  <2>2. ASSUME NEW s \in Spawns
        PROVE  currentCount'[s] + Cardinality(KillersAt(s, "schedule"))' + One(s \in tasks')
                 <= currentCount[s] + Cardinality(KillersAt(s, "schedule")) + One(s \in tasks)
    <3>1. /\ Cardinality(KillersAt(s, "schedule")) \in Nat
          /\ Cardinality(KillersAt(s, "schedule"))' = Cardinality(KillersAt(s, "schedule"))
               + One(kpc'[k] = "schedule" /\ spawnOf[victim'[k]] = s)
               - One(kpc[k] = "schedule" /\ spawnOf[victim[k]] = s)
      BY <2>1, KillersAtStep
    <3>2. /\ currentCount' = currentCount /\ kpc[k] = "schedule" /\ kpc'[k] = "idle"
          /\ tasks' = tasks \cup {spawnOf[victim[k]]}
      BY <1>22 DEF ScheduleRespawn, KGoto, spawnVars, TypeOK
    <3>3. currentCount[s] \in Int /\ One(s \in tasks) \in Int
      BY DEF TypeOK, One
    <3> QED
      BY <3>1, <3>2, <3>3 DEF One
  <2> QED
    BY <2>1, <2>2, OthersFill, RacedStays DEF FillInv, ExecutorJobs
<1>23. ASSUME NEW s \in Spawns, CancelRespawn(s) PROVE FillInv'
  <2>1. UNCHANGED <<jobs, pc, spawn, currentCount>> /\ tasks' \subseteq tasks
    BY <1>23 DEF CancelRespawn, spawnVars, workerVars
  <2>2. ASSUME NEW t \in Spawns PROVE KillersAt(t, "schedule")' = KillersAt(t, "schedule")
    BY <1>23 DEF CancelRespawn, KillersAt, killerVars, historyVars
  <2>3. ASSUME NEW t \in Spawns
        PROVE  currentCount'[t] + Cardinality(KillersAt(t, "schedule"))' + One(t \in tasks')
                 <= currentCount[t] + Cardinality(KillersAt(t, "schedule")) + One(t \in tasks)
    <3>1. Cardinality(KillersAt(t, "schedule")) \in Nat /\ currentCount[t] \in Int
      BY KillersFinite, FS_CardinalityType DEF KillersAt, TypeOK
    <3> QED
      BY <2>1, <2>2, <3>1 DEF One
  <2> QED
    BY <2>1, <2>3, OthersFill, RacedStays DEF FillInv, ExecutorJobs
<1>24. ASSUME NEW e \in Executors, NEW due \in SUBSET Spawns, ProcessTasks(e, due)
       PROVE FillInv'
  <2>1. ExecutorJobs'
    BY <1>24 DEF ProcessTasks, ExecutorJobs, TypeOK, Workers
  <2>2. e \in Workers /\ e \notin Starters
    BY SpawnAssumption DEF Workers
  <2>3. ASSUME NEW s \in Spawns, PlaceForEach(s) PROVE PlaceForEach(s)'
    <3>1. UNCHANGED <<currentCount, pc, spawn>> /\ KillersAt(s, "schedule")' = KillersAt(s, "schedule")
      BY <1>24 DEF ProcessTasks, spawnVars, KillersAt, killerVars, historyVars
    <3>2. \A v \in Workers \ {e} : Left(v, s)' = Left(v, s)
      BY <1>24, <3>1 DEF ProcessTasks, Left, TypeOK
    <3>3. Left(e, s) = 0 /\ Left(e, s)' = One(s \in due)
      BY <1>24, <2>2, <3>1 DEF ProcessTasks, Left, TypeOK, Counted, One
    <3>4. Coming(s) \ {e} = Coming(s)' \ {e} /\ e \notin Coming(s) /\ (e \in Coming(s)' <=> s \in due)
      BY <3>2, <3>3 DEF Coming, Workers, One
    <3>5. /\ Cardinality(Coming(s)) \in Nat /\ Cardinality(Coming(s)') \in Nat
          /\ Cardinality(Coming(s)') = Cardinality(Coming(s)) + One(s \in due)
      BY <3>4, ComingFinite, OneElement DEF One
    <3>6. One(s \in tasks') = One(s \in tasks) - One(s \in due) /\ One(s \in tasks) \in Int
          /\ One(s \in due) \in Int
      BY <1>24 DEF ProcessTasks, One
    <3>7. /\ Cardinality(KillersAt(s, "schedule")) \in Nat
          /\ currentCount[s] \in Int /\ MaximumCount \in Int
      BY KillersFinite, FS_CardinalityType, SpawnAssumption DEF KillersAt, TypeOK
    <3>8. PlacesLeft(s)' = PlacesLeft(s)
      BY <3>1, <3>5, <3>6, <3>7 DEF PlacesLeft
    <3>9. \A v \in Starters : Left(v, s)' = Left(v, s)
      BY <2>2, <3>2 DEF Workers
    <3> QED
      BY <2>3, <3>8, <3>9 DEF PlaceForEach
  <2> QED
    BY <2>1, <2>3, RacedStays DEF FillInv
<1>25. ASSUME UNCHANGED vars PROVE FillInv'
  <2>1. UNCHANGED <<jobs, pc, spawn, currentCount>> /\ tasks' \subseteq tasks
    BY <1>25 DEF vars, spawnVars, workerVars
  <2>2. ASSUME NEW t \in Spawns PROVE KillersAt(t, "schedule")' = KillersAt(t, "schedule")
    BY <1>25 DEF vars, KillersAt, killerVars, historyVars
  <2>3. ASSUME NEW t \in Spawns
        PROVE  currentCount'[t] + Cardinality(KillersAt(t, "schedule"))' + One(t \in tasks')
                 <= currentCount[t] + Cardinality(KillersAt(t, "schedule")) + One(t \in tasks)
    <3>1. Cardinality(KillersAt(t, "schedule")) \in Nat /\ currentCount[t] \in Int
      BY KillersFinite, FS_CardinalityType DEF KillersAt, TypeOK
    <3> QED
      BY <2>1, <2>2, <3>1 DEF One
  <2> QED
    BY <2>1, <2>3, OthersFill, RacedStays DEF FillInv, ExecutorJobs
<1> QED
  BY <1>1, <1>2, <1>3, <1>4, <1>5, <1>6, <1>7, <1>8, <1>9, <1>10, <1>11,
     <1>12, <1>13, <1>14, <1>15, <1>16, <1>17, <1>18, <1>19, <1>20, <1>21,
     <1>22, <1>23, <1>24, <1>25
     DEF KillerStep, SpawnNext, Tick, WorkerStep

-----------------------------------------------------------------------------
(* The invariant, and the theorems.                                         *)

\* The invariant holds when nothing has been spawned.
LEMMA InitInv == Init => IInv
<1> SUFFICES ASSUME Init PROVE IInv
  OBVIOUS
<1> USE SpawnAssumption DEF Init
<1>1. TypeOK
  BY DEF TypeOK, WorkerLabels, KillerLabels, Workers
<1>2. WorkersInv
  BY DEF WorkersInv, WorkerOK, Empty, Busy
<1>3. KillersInv /\ PlacesInv
  BY DEF KillersInv, KillerOK, PlacesInv, OwnPlaces, RegistersOnce, Busy
<1>4. StagesInv
  BY DEF StagesInv
<1>5. FinitePlaces
  BY FS_EmptySet DEF FinitePlaces
<1>6. CountMatchesList
  <2> SUFFICES ASSUME NEW s \in Spawns
               PROVE  currentCount[s] + Cardinality(At(s, "unlist"))
                        = Cardinality(npcList[s]) + Cardinality(At(s, "list"))
                            + Cardinality(KillersAt(s, "uncount"))
    BY DEF CountMatchesList
  <2>1. At(s, "list") = {} /\ At(s, "unlist") = {} /\ KillersAt(s, "uncount") = {}
    BY DEF At, KillersAt
  <2>2. /\ Cardinality(At(s, "list")) = 0 /\ Cardinality(At(s, "unlist")) = 0
        /\ Cardinality(KillersAt(s, "uncount")) = 0
    BY <2>1, FS_EmptySet
  <2>3. currentCount[s] = 0 /\ Cardinality(npcList[s]) = 0
    BY FS_EmptySet
  <2> HIDE DEF Init
  <2> QED
    BY <2>2, <2>3
<1>7. ControllersCounted
  <2>1. {w \in Workers : pc[w] = "registered"} = {} /\ {k \in Killers : kpc[k] = "unregistered"} = {}
    OBVIOUS
  <2> QED
    BY <2>1, FS_EmptySet DEF ControllersCounted
<1>8. FillInv
  <2>1. ExecutorJobs
    BY DEF ExecutorJobs, Workers
  <2>2. ASSUME NEW s \in Spawns PROVE PlaceForEach(s)
    <3>1. KillersAt(s, "schedule") = {}
      BY DEF KillersAt
    <3>2. \A e \in Executors : Left(e, s) = 0
      BY <1>1 DEF Left, One, Workers
    <3>3. Coming(s) = {}
      BY <3>2 DEF Coming
    <3>4. PlacesLeft(s) = MaximumCount
      <4>1. Cardinality({}) = 0
        BY FS_EmptySet
      <4>2. currentCount[s] = 0 /\ s \notin tasks /\ MaximumCount \in Int
        OBVIOUS
      <4> HIDE DEF Init
      <4> QED
        BY <3>1, <3>3, <4>1, <4>2 DEF PlacesLeft, One
    <3>5. \A w \in Starters : Left(w, s) = MaximumCount
      BY DEF Left, One, Workers, Counted
    <3> QED
      BY <3>4, <3>5 DEF PlaceForEach
  <2> QED
    BY <2>1, <2>2 DEF FillInv
<1> QED
  BY <1>1, <1>2, <1>3, <1>4, <1>5, <1>6, <1>7, <1>8 DEF IInv

\* Every step keeps the invariant.
LEMMA StepInv == IInv /\ [SpawnNext]_vars => IInv'
<1> SUFFICES ASSUME IInv, [SpawnNext]_vars PROVE IInv'
  OBVIOUS
<1> USE DEF IInv
<1>1. TypeOK' /\ WorkersInv' /\ KillersInv' /\ PlacesInv'
  BY TypeStep, WorkersStep, KillersStep, PlacesStep
<1>2. StagesInv' /\ FinitePlaces' /\ CountMatchesList' /\ ControllersCounted'
  BY StagesStep, FiniteStep, CountStep, ControllersStep
<1>3. FillInv'
  BY <1>1, FillStep DEF FillInv
<1> QED
  BY <1>1, <1>2, <1>3

LEMMA InvAlways == Spec => []IInv
BY InitInv, StepInv, PTL DEF Spec

\* The variables of spawn.Manager, the respawn manager and what they reach
\* keep their types, with jobs between none and the maximum.
THEOREM TypeTheorem == Spec => []TypeOK
<1>1. IInv => TypeOK
  BY DEF IInv
<1> QED
  BY <1>1, InvAlways, PTL

\* CountMatchesList for any number of goroutines, spawns and NPCs: DoSpawn, its
\* rollback and DespawnNpc keep currentCount and npcList in step.
THEOREM CountTheorem == Spec => []CountMatchesList
<1>1. IInv => CountMatchesList
  BY DEF IInv
<1> QED
  BY <1>1, InvAlways, PTL

\* ControllersCounted for any number of goroutines: TickManager's count of
\* controllers follows its map, whatever Register and Unregister overlap.
THEOREM ControllersTheorem == Spec => []ControllersCounted
<1>1. IInv => ControllersCounted
  BY DEF IInv
<1> QED
  BY <1>1, InvAlways, PTL

\* AllOrNothing for any number of goroutines: no step of DoSpawn that fails
\* leaves an NPC in some of the places only.
THEOREM PlacesTheorem == Spec => []AllOrNothing
<1>1. ASSUME IInv PROVE AllOrNothing
  <2> SUFFICES ASSUME NEW n \in Npcs \ raced, ~ BeingSpawned(n), \A k \in Killers : victim[k] # n
               PROVE  \/ /\ n \in objects \cap visible \cap controllers \cap running
                         /\ n \in npcList[spawnOf[n]]
                      \/ /\ n \notin objects \cup visible \cup controllers \cup running
                         /\ \A s \in Spawns : n \notin npcList[s]
    BY DEF AllOrNothing
  <2>1. CASE spawnOf[n] = NoSpawn
    BY <1>1, <2>1, Fresh DEF IInv
  <2>2. CASE spawnOf[n] \in Spawns
    <3>1. Everywhere(n) \/ Nowhere(n)
      BY <1>1, <2>2 DEF IInv, StagesInv, StageOK
    <3>2. \A s \in Spawns : n \in npcList[s] => s = spawnOf[n]
      BY <1>1 DEF IInv, PlacesInv, OwnPlaces
    <3> QED
      BY <3>1, <3>2 DEF Everywhere, Nowhere, InList
  <2> QED
    BY <1>1, <2>1, <2>2 DEF IInv, TypeOK
<1> QED
  BY <1>1, InvAlways, PTL

\* NotOverfull for any number of executors, despawning goroutines and spawns:
\* the gap between DoSpawn's check and its increase never overfills a spawn.
THEOREM FillTheorem == Spec => []NotOverfull
<1>1. ASSUME IInv PROVE NotOverfull
  <2> SUFFICES ASSUME Cardinality(Starters) <= 1, NEW s \in Spawns, ~ Raced(s)
               PROVE  currentCount[s] <= MaximumCount
    BY DEF NotOverfull
  <2>1. PlacesLeft(s) >= 0
    BY <1>1 DEF IInv, FillInv, PlaceForEach
  <2>2. /\ Cardinality(KillersAt(s, "schedule")) \in Nat /\ Cardinality(Coming(s)) \in Nat
        /\ currentCount[s] \in Int /\ MaximumCount \in Int
    BY <1>1, KillersFinite, ComingFinite, FS_CardinalityType, SpawnAssumption
       DEF IInv, TypeOK, KillersAt
  <2> QED
    BY <2>1, <2>2 DEF PlacesLeft, One
<1> QED
  BY <1>1, InvAlways, PTL
=============================================================================
