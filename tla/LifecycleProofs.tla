-------------------------- MODULE LifecycleProofs --------------------------
(***************************************************************************)
(* The safety invariants of Lifecycle, for any servers, connections and     *)
(* programs.  They are not inductive alone: what a server may rely on       *)
(* depends on the order in which run starts things (StartInv), why main     *)
(* left g.Wait on who can cancel the group's context (GroupInv), and the    *)
(* one packet after a cancellation on where its handler is (LateInv).       *)
(***************************************************************************)
EXTENDS Lifecycle, TLAPS

Ready == migrated /\ (prog = GameProgram => spawned)

\* What run has done by the time it is at each step, and that the servers are
\* started by the last one only.
StartInv ==
  /\ prog = TestHarness <=> pc = "test"
  /\ pc \in {"managers", "load", "spawnAll"} => prog = GameProgram
  /\ pc \in {"create", "managers", "load", "spawnAll", "servers", "wait"} => migrated
  /\ pc \in {"servers", "wait"} => Ready
  /\ \A s \in Servers :
       /\ pc \notin {"wait", "return", "exited", "test"} => member[s] = "idle"
       /\ lis[s] = "open" => member[s] # "idle"
       /\ member[s] # "idle" => prog = TestHarness \/ Ready

PoolInv ==
  /\ pc \in {"config", "connect", "refused"} => db # "open"
  /\ PoolReleased

\* Only a signal, a server that failed and the end of g.Wait cancel the context
\* of the errgroup, and a manager returns only when it is cancelled.
GroupInv ==
  /\ gctx => ctx \/ (\E s \in Servers : member[s] = "failed") \/ pc \in {"return", "exited"}
  /\ \A m \in Managers : member[m] = "failed" => gctx
  /\ \A m \in Managers : member[m] # "returned"
  /\ prog = GameProgram /\ pc \in {"load", "spawnAll", "servers", "wait"} => member["ai"] # "idle"
  /\ pc \in {"return", "exited"} => \A s \in Servers : member[s] \in {"idle", "returned", "failed"}
  /\ GameProgramStaysUp

\* The goroutine that waits for the context belongs to a connection.
WatchInv == \A p \in Places : watch[p] => hand[p] # "none"

\* The late packet is the last one.
LateInv ==
  \A p \in Places :
    /\ late[p] <= 1
    /\ late[p] # 0 => gctx /\ hand[p] \in {"handle", "loop", "ended"}

IInv == TypeOK /\ StartInv /\ PoolInv /\ GroupInv /\ WatchInv /\ LateInv

-----------------------------------------------------------------------------
\* The types.  No other step depends on them.
LEMMA TypeStep ==
    ASSUME TypeOK, WatchInv, LateInv, [Next]_vars
    PROVE  TypeOK'
<1> USE ProgramsAssumption, BoundsAssumption, ServersAssumption DEF TypeOK, Members, main, conn
<1>1. ASSUME LoadConfig PROVE TypeOK'
  BY <1>1 DEF LoadConfig, Step
<1>2. ASSUME ConnectPool PROVE TypeOK'
  BY <1>2 DEF ConnectPool, Step
<1>3. ASSUME Ping PROVE TypeOK'
  BY <1>3 DEF Ping, Step
<1>4. ASSUME RunMigrations PROVE TypeOK'
  BY <1>4 DEF RunMigrations, Step
<1>5. ASSUME CreateServers PROVE TypeOK'
  BY <1>5 DEF CreateServers, Step
<1>6. ASSUME StartManagers PROVE TypeOK'
  BY <1>6 DEF StartManagers
<1>7. ASSUME LoadSpawns PROVE TypeOK'
  <2>1. pc' \in {"spawnAll", "return"} /\ failed' \in BOOLEAN
    BY <1>7 DEF LoadSpawns
  <2>2. member' = member \/ member' = [member EXCEPT !["respawn"] = "running"]
    BY <1>7 DEF LoadSpawns
  <2> QED
    BY <1>7, <2>1, <2>2 DEF LoadSpawns, Managers
<1>8. ASSUME SpawnAll PROVE TypeOK'
  BY <1>8 DEF SpawnAll
<1>9. ASSUME StartServers PROVE TypeOK'
  BY <1>9 DEF StartServers
<1>10. ASSUME Wait PROVE TypeOK'
  BY <1>10 DEF Wait
<1>11. ASSUME Return PROVE TypeOK'
  BY <1>11 DEF Return
<1>12. ASSUME Signal PROVE TypeOK'
  BY <1>12 DEF Signal
<1>13. ASSUME NEW m \in Managers, ManagerStops(m) PROVE TypeOK'
  BY <1>13 DEF ManagerStops, Fails
<1>14. ASSUME NEW s \in Servers, Listen(s) PROVE TypeOK'
  BY <1>14 DEF Listen
<1>15. ASSUME NEW s \in Servers, ListenFails(s) PROVE TypeOK'
  BY <1>15 DEF ListenFails, Fails
<1>16. ASSUME NEW s \in Servers, ServeReturns(s) PROVE TypeOK'
  BY <1>16 DEF ServeReturns
<1>17. ASSUME NEW s \in Servers, CloseListener(s) PROVE TypeOK'
  BY <1>17 DEF CloseListener
<1>18. ASSUME NEW s \in Servers, Close(s) PROVE TypeOK'
  BY <1>18 DEF Close
<1>19. ASSUME NEW s \in Servers, CheckAccept(s) PROVE TypeOK'
  BY <1>19 DEF CheckAccept
<1>20. ASSUME NEW s \in Servers, AcceptFails(s) PROVE TypeOK'
  BY <1>20 DEF AcceptFails
<1>21. ASSUME NEW p \in Places, Accept(p) PROVE TypeOK'
  BY <1>21 DEF Accept
<1>22. ASSUME NEW p \in Places, Greet(p) PROVE TypeOK'
  <2>1. CASE Goes(p, "init", "loop") /\ sock' = sock
    BY <1>22, <2>1 DEF Greet, Goes
  <2>2. CASE Ends(p, "init")
    BY <1>22, <2>2 DEF Greet, Goes, Ends
  <2> QED
    BY <1>22, <2>1, <2>2 DEF Greet
<1>23. ASSUME NEW p \in Places, CheckHandler(p) PROVE TypeOK'
  <2>1. CASE Goes(p, "loop", "read") /\ sock' = sock
    BY <1>23, <2>1 DEF CheckHandler, Goes
  <2>2. CASE Ends(p, "loop")
    BY <1>23, <2>2 DEF CheckHandler, Goes, Ends
  <2> QED
    BY <1>23, <2>1, <2>2 DEF CheckHandler
<1>24. ASSUME NEW p \in Places, ReadFails(p) PROVE TypeOK'
  BY <1>24 DEF ReadFails, Goes, Ends
<1>25. ASSUME NEW p \in Places, Handle(p) PROVE TypeOK'
  <2>1. CASE Goes(p, "handle", "loop") /\ sock' = sock
    BY <1>25, <2>1 DEF Handle, Goes
  <2>2. CASE Ends(p, "handle")
    BY <1>25, <2>2 DEF Handle, Goes, Ends
  <2> QED
    BY <1>25, <2>1, <2>2 DEF Handle
<1>26. ASSUME NEW p \in Places, ReadPacket(p) PROVE TypeOK'
  <2>1. late[p] = 0 /\ 1 \in 0 .. MaxPackets /\ packets[p] + 1 \in 0 .. MaxPackets
    BY <1>26 DEF ReadPacket, Goes, LateInv
  <2> QED
    BY <1>26, <2>1 DEF ReadPacket, Goes
<1>27. ASSUME NEW p \in Places, CloseSocket(p) PROVE TypeOK'
  BY <1>27 DEF CloseSocket, WatchInv
<1>28. ASSUME NEW p \in Places, PeerCloses(p) PROVE TypeOK'
  BY <1>28 DEF PeerCloses
<1>29. ASSUME UNCHANGED vars PROVE TypeOK'
  BY <1>29 DEF vars
<1> QED
  BY <1>1, <1>2, <1>3, <1>4, <1>5, <1>6, <1>7, <1>8, <1>9, <1>10, <1>11, <1>12, <1>13,
     <1>14, <1>15, <1>16, <1>17, <1>18, <1>19, <1>20, <1>21, <1>22, <1>23, <1>24, <1>25,
     <1>26, <1>27, <1>28, <1>29 DEF Next, Main, AcceptLoop, Handler

\* What run has done when a server starts, and the order it does it in.
LEMMA StartStep ==
    ASSUME TypeOK, StartInv, [Next]_vars
    PROVE  StartInv'
<1> USE ServersAssumption DEF TypeOK, StartInv, Ready, Members, main, conn
<1>1. ASSUME LoadConfig PROVE StartInv'
  BY <1>1 DEF LoadConfig, Step
<1>2. ASSUME ConnectPool PROVE StartInv'
  BY <1>2 DEF ConnectPool, Step
<1>3. ASSUME Ping PROVE StartInv'
  BY <1>3 DEF Ping, Step
<1>4. ASSUME RunMigrations PROVE StartInv'
  BY <1>4 DEF RunMigrations, Step
<1>5. ASSUME CreateServers PROVE StartInv'
  BY <1>5 DEF CreateServers, Step
<1>6. ASSUME StartManagers PROVE StartInv'
  <2>1. \A s \in Servers : member'[s] = member[s]
    BY <1>6 DEF StartManagers, Managers, EarlyManagers
  <2> QED
    BY <1>6, <2>1 DEF StartManagers
<1>7. ASSUME LoadSpawns PROVE StartInv'
  <2>1. member' \in {member, [member EXCEPT !["respawn"] = "running"]}
    BY <1>7 DEF LoadSpawns
  <2>2. \A s \in Servers : s # "respawn" /\ s \in Members
    BY DEF Managers
  <2>3. \A s \in Servers : member'[s] = member[s]
    BY <2>1, <2>2
  <2> QED
    BY <1>7, <2>3 DEF LoadSpawns
<1>8. ASSUME SpawnAll PROVE StartInv'
  BY <1>8 DEF SpawnAll
<1>9. ASSUME StartServers PROVE StartInv'
  BY <1>9 DEF StartServers
<1>10. ASSUME Wait PROVE StartInv'
  BY <1>10 DEF Wait
<1>11. ASSUME Return PROVE StartInv'
  BY <1>11 DEF Return
<1>12. ASSUME Signal PROVE StartInv'
  BY <1>12 DEF Signal
<1>13. ASSUME NEW m \in Managers, ManagerStops(m) PROVE StartInv'
  BY <1>13 DEF ManagerStops, Fails
<1>14. ASSUME NEW s \in Servers, Listen(s) PROVE StartInv'
  BY <1>14 DEF Listen
<1>15. ASSUME NEW s \in Servers, ListenFails(s) PROVE StartInv'
  BY <1>15 DEF ListenFails, Fails
<1>16. ASSUME NEW s \in Servers, ServeReturns(s) PROVE StartInv'
  BY <1>16 DEF ServeReturns
<1>17. ASSUME NEW s \in Servers, CloseListener(s) PROVE StartInv'
  BY <1>17 DEF CloseListener
<1>18. ASSUME NEW s \in Servers, Close(s) PROVE StartInv'
  BY <1>18 DEF Close
<1>19. ASSUME NEW s \in Servers, CheckAccept(s) PROVE StartInv'
  BY <1>19 DEF CheckAccept
<1>20. ASSUME NEW s \in Servers, AcceptFails(s) PROVE StartInv'
  BY <1>20 DEF AcceptFails
<1>21. ASSUME NEW p \in Places, Accept(p) PROVE StartInv'
  BY <1>21 DEF Accept
<1>22. ASSUME NEW p \in Places, Greet(p) PROVE StartInv'
  BY <1>22 DEF Greet, Goes, Ends
<1>23. ASSUME NEW p \in Places, CheckHandler(p) PROVE StartInv'
  BY <1>23 DEF CheckHandler, Goes, Ends
<1>24. ASSUME NEW p \in Places, ReadFails(p) PROVE StartInv'
  BY <1>24 DEF ReadFails, Goes, Ends
<1>25. ASSUME NEW p \in Places, Handle(p) PROVE StartInv'
  BY <1>25 DEF Handle, Goes, Ends
<1>26. ASSUME NEW p \in Places, ReadPacket(p) PROVE StartInv'
  BY <1>26 DEF ReadPacket, Goes
<1>27. ASSUME NEW p \in Places, CloseSocket(p) PROVE StartInv'
  BY <1>27 DEF CloseSocket
<1>28. ASSUME NEW p \in Places, PeerCloses(p) PROVE StartInv'
  BY <1>28 DEF PeerCloses
<1>29. ASSUME UNCHANGED vars PROVE StartInv'
  BY <1>29 DEF vars
<1> QED
  BY <1>1, <1>2, <1>3, <1>4, <1>5, <1>6, <1>7, <1>8, <1>9, <1>10, <1>11, <1>12, <1>13,
     <1>14, <1>15, <1>16, <1>17, <1>18, <1>19, <1>20, <1>21, <1>22, <1>23, <1>24, <1>25,
     <1>26, <1>27, <1>28, <1>29 DEF Next, Main, AcceptLoop, Handler

\* Whichever step of run fails, the pool is closed before the end.
LEMMA PoolStep ==
    ASSUME TypeOK, PoolInv, [Next]_vars
    PROVE  PoolInv'
<1> USE DEF PoolInv, PoolReleased, main, conn
<1>1. ASSUME LoadConfig PROVE PoolInv'
  BY <1>1 DEF LoadConfig, Step
<1>2. ASSUME ConnectPool PROVE PoolInv'
  BY <1>2 DEF ConnectPool, Step
<1>3. ASSUME Ping PROVE PoolInv'
  BY <1>3 DEF Ping, Step
<1>4. ASSUME RunMigrations PROVE PoolInv'
  BY <1>4 DEF RunMigrations, Step
<1>5. ASSUME CreateServers PROVE PoolInv'
  BY <1>5 DEF CreateServers, Step
<1>6. ASSUME StartManagers PROVE PoolInv'
  BY <1>6 DEF StartManagers
<1>7. ASSUME LoadSpawns PROVE PoolInv'
  BY <1>7 DEF LoadSpawns
<1>8. ASSUME SpawnAll PROVE PoolInv'
  BY <1>8 DEF SpawnAll
<1>9. ASSUME StartServers PROVE PoolInv'
  BY <1>9 DEF StartServers
<1>10. ASSUME Wait PROVE PoolInv'
  BY <1>10 DEF Wait
<1>11. ASSUME Return PROVE PoolInv'
  BY <1>11 DEF Return
<1>12. ASSUME Signal PROVE PoolInv'
  BY <1>12 DEF Signal
<1>13. ASSUME NEW m \in Managers, ManagerStops(m) PROVE PoolInv'
  BY <1>13 DEF ManagerStops, Fails
<1>14. ASSUME NEW s \in Servers, Listen(s) PROVE PoolInv'
  BY <1>14 DEF Listen
<1>15. ASSUME NEW s \in Servers, ListenFails(s) PROVE PoolInv'
  BY <1>15 DEF ListenFails, Fails
<1>16. ASSUME NEW s \in Servers, ServeReturns(s) PROVE PoolInv'
  BY <1>16 DEF ServeReturns
<1>17. ASSUME NEW s \in Servers, CloseListener(s) PROVE PoolInv'
  BY <1>17 DEF CloseListener
<1>18. ASSUME NEW s \in Servers, Close(s) PROVE PoolInv'
  BY <1>18 DEF Close
<1>19. ASSUME NEW s \in Servers, CheckAccept(s) PROVE PoolInv'
  BY <1>19 DEF CheckAccept
<1>20. ASSUME NEW s \in Servers, AcceptFails(s) PROVE PoolInv'
  BY <1>20 DEF AcceptFails
<1>21. ASSUME NEW p \in Places, Accept(p) PROVE PoolInv'
  BY <1>21 DEF Accept
<1>22. ASSUME NEW p \in Places, Greet(p) PROVE PoolInv'
  BY <1>22 DEF Greet, Goes, Ends
<1>23. ASSUME NEW p \in Places, CheckHandler(p) PROVE PoolInv'
  BY <1>23 DEF CheckHandler, Goes, Ends
<1>24. ASSUME NEW p \in Places, ReadFails(p) PROVE PoolInv'
  BY <1>24 DEF ReadFails, Goes, Ends
<1>25. ASSUME NEW p \in Places, Handle(p) PROVE PoolInv'
  BY <1>25 DEF Handle, Goes, Ends
<1>26. ASSUME NEW p \in Places, ReadPacket(p) PROVE PoolInv'
  BY <1>26 DEF ReadPacket, Goes
<1>27. ASSUME NEW p \in Places, CloseSocket(p) PROVE PoolInv'
  BY <1>27 DEF CloseSocket
<1>28. ASSUME NEW p \in Places, PeerCloses(p) PROVE PoolInv'
  BY <1>28 DEF PeerCloses
<1>29. ASSUME UNCHANGED vars PROVE PoolInv'
  BY <1>29 DEF vars
<1> QED
  BY <1>1, <1>2, <1>3, <1>4, <1>5, <1>6, <1>7, <1>8, <1>9, <1>10, <1>11, <1>12, <1>13,
     <1>14, <1>15, <1>16, <1>17, <1>18, <1>19, <1>20, <1>21, <1>22, <1>23, <1>24, <1>25,
     <1>26, <1>27, <1>28, <1>29 DEF Next, Main, AcceptLoop, Handler

\* The context of the errgroup, and what ends the game program.
LEMMA GroupStep ==
    ASSUME TypeOK, StartInv, GroupInv, [Next]_vars
    PROVE  GroupInv'
<1> USE ServersAssumption DEF TypeOK, StartInv, GroupInv, GameProgramStaysUp, Members, Managers,
       EarlyManagers, main, conn
<1>1. ASSUME LoadConfig PROVE GroupInv'
  BY <1>1 DEF LoadConfig, Step
<1>2. ASSUME ConnectPool PROVE GroupInv'
  BY <1>2 DEF ConnectPool, Step
<1>3. ASSUME Ping PROVE GroupInv'
  BY <1>3 DEF Ping, Step
<1>4. ASSUME RunMigrations PROVE GroupInv'
  BY <1>4 DEF RunMigrations, Step
<1>5. ASSUME CreateServers PROVE GroupInv'
  BY <1>5 DEF CreateServers, Step
<1>6. ASSUME StartManagers PROVE GroupInv'
  BY <1>6 DEF StartManagers
<1>7. ASSUME LoadSpawns PROVE GroupInv'
  BY <1>7 DEF LoadSpawns
<1>8. ASSUME SpawnAll PROVE GroupInv'
  BY <1>8 DEF SpawnAll
<1>9. ASSUME StartServers PROVE GroupInv'
  BY <1>9 DEF StartServers
<1>10. ASSUME Wait PROVE GroupInv'
  BY <1>10 DEF Wait
<1>11. ASSUME Return PROVE GroupInv'
  BY <1>11 DEF Return
<1>12. ASSUME Signal PROVE GroupInv'
  BY <1>12 DEF Signal
<1>13. ASSUME NEW m \in Managers, ManagerStops(m) PROVE GroupInv'
  BY <1>13 DEF ManagerStops, Fails
<1>14. ASSUME NEW s \in Servers, Listen(s) PROVE GroupInv'
  BY <1>14 DEF Listen
<1>15. ASSUME NEW s \in Servers, ListenFails(s) PROVE GroupInv'
  BY <1>15 DEF ListenFails, Fails
<1>16. ASSUME NEW s \in Servers, ServeReturns(s) PROVE GroupInv'
  BY <1>16 DEF ServeReturns
<1>17. ASSUME NEW s \in Servers, CloseListener(s) PROVE GroupInv'
  BY <1>17 DEF CloseListener
<1>18. ASSUME NEW s \in Servers, Close(s) PROVE GroupInv'
  BY <1>18 DEF Close
<1>19. ASSUME NEW s \in Servers, CheckAccept(s) PROVE GroupInv'
  BY <1>19 DEF CheckAccept
<1>20. ASSUME NEW s \in Servers, AcceptFails(s) PROVE GroupInv'
  BY <1>20 DEF AcceptFails
<1>21. ASSUME NEW p \in Places, Accept(p) PROVE GroupInv'
  BY <1>21 DEF Accept
<1>22. ASSUME NEW p \in Places, Greet(p) PROVE GroupInv'
  BY <1>22 DEF Greet, Goes, Ends
<1>23. ASSUME NEW p \in Places, CheckHandler(p) PROVE GroupInv'
  BY <1>23 DEF CheckHandler, Goes, Ends
<1>24. ASSUME NEW p \in Places, ReadFails(p) PROVE GroupInv'
  BY <1>24 DEF ReadFails, Goes, Ends
<1>25. ASSUME NEW p \in Places, Handle(p) PROVE GroupInv'
  BY <1>25 DEF Handle, Goes, Ends
<1>26. ASSUME NEW p \in Places, ReadPacket(p) PROVE GroupInv'
  BY <1>26 DEF ReadPacket, Goes
<1>27. ASSUME NEW p \in Places, CloseSocket(p) PROVE GroupInv'
  BY <1>27 DEF CloseSocket
<1>28. ASSUME NEW p \in Places, PeerCloses(p) PROVE GroupInv'
  BY <1>28 DEF PeerCloses
<1>29. ASSUME UNCHANGED vars PROVE GroupInv'
  BY <1>29 DEF vars
<1> QED
  BY <1>1, <1>2, <1>3, <1>4, <1>5, <1>6, <1>7, <1>8, <1>9, <1>10, <1>11, <1>12, <1>13,
     <1>14, <1>15, <1>16, <1>17, <1>18, <1>19, <1>20, <1>21, <1>22, <1>23, <1>24, <1>25,
     <1>26, <1>27, <1>28, <1>29 DEF Next, Main, AcceptLoop, Handler

\* The goroutine that closes the socket comes with the handler.
LEMMA WatchStep ==
    ASSUME TypeOK, WatchInv, [Next]_vars
    PROVE  WatchInv'
<1> USE DEF TypeOK, WatchInv, main, conn
<1>1. ASSUME LoadConfig PROVE WatchInv'
  BY <1>1 DEF LoadConfig, Step
<1>2. ASSUME ConnectPool PROVE WatchInv'
  BY <1>2 DEF ConnectPool, Step
<1>3. ASSUME Ping PROVE WatchInv'
  BY <1>3 DEF Ping, Step
<1>4. ASSUME RunMigrations PROVE WatchInv'
  BY <1>4 DEF RunMigrations, Step
<1>5. ASSUME CreateServers PROVE WatchInv'
  BY <1>5 DEF CreateServers, Step
<1>6. ASSUME StartManagers PROVE WatchInv'
  BY <1>6 DEF StartManagers
<1>7. ASSUME LoadSpawns PROVE WatchInv'
  BY <1>7 DEF LoadSpawns
<1>8. ASSUME SpawnAll PROVE WatchInv'
  BY <1>8 DEF SpawnAll
<1>9. ASSUME StartServers PROVE WatchInv'
  BY <1>9 DEF StartServers
<1>10. ASSUME Wait PROVE WatchInv'
  BY <1>10 DEF Wait
<1>11. ASSUME Return PROVE WatchInv'
  BY <1>11 DEF Return
<1>12. ASSUME Signal PROVE WatchInv'
  BY <1>12 DEF Signal
<1>13. ASSUME NEW m \in Managers, ManagerStops(m) PROVE WatchInv'
  BY <1>13 DEF ManagerStops, Fails
<1>14. ASSUME NEW s \in Servers, Listen(s) PROVE WatchInv'
  BY <1>14 DEF Listen
<1>15. ASSUME NEW s \in Servers, ListenFails(s) PROVE WatchInv'
  BY <1>15 DEF ListenFails, Fails
<1>16. ASSUME NEW s \in Servers, ServeReturns(s) PROVE WatchInv'
  BY <1>16 DEF ServeReturns
<1>17. ASSUME NEW s \in Servers, CloseListener(s) PROVE WatchInv'
  BY <1>17 DEF CloseListener
<1>18. ASSUME NEW s \in Servers, Close(s) PROVE WatchInv'
  BY <1>18 DEF Close
<1>19. ASSUME NEW s \in Servers, CheckAccept(s) PROVE WatchInv'
  BY <1>19 DEF CheckAccept
<1>20. ASSUME NEW s \in Servers, AcceptFails(s) PROVE WatchInv'
  BY <1>20 DEF AcceptFails
<1>21. ASSUME NEW p \in Places, Accept(p) PROVE WatchInv'
  BY <1>21 DEF Accept
<1>22. ASSUME NEW p \in Places, Greet(p) PROVE WatchInv'
  BY <1>22 DEF Greet, Goes, Ends
<1>23. ASSUME NEW p \in Places, CheckHandler(p) PROVE WatchInv'
  BY <1>23 DEF CheckHandler, Goes, Ends
<1>24. ASSUME NEW p \in Places, ReadFails(p) PROVE WatchInv'
  BY <1>24 DEF ReadFails, Goes, Ends
<1>25. ASSUME NEW p \in Places, Handle(p) PROVE WatchInv'
  BY <1>25 DEF Handle, Goes, Ends
<1>26. ASSUME NEW p \in Places, ReadPacket(p) PROVE WatchInv'
  BY <1>26 DEF ReadPacket, Goes
<1>27. ASSUME NEW p \in Places, CloseSocket(p) PROVE WatchInv'
  BY <1>27 DEF CloseSocket
<1>28. ASSUME NEW p \in Places, PeerCloses(p) PROVE WatchInv'
  BY <1>28 DEF PeerCloses
<1>29. ASSUME UNCHANGED vars PROVE WatchInv'
  BY <1>29 DEF vars
<1> QED
  BY <1>1, <1>2, <1>3, <1>4, <1>5, <1>6, <1>7, <1>8, <1>9, <1>10, <1>11, <1>12, <1>13,
     <1>14, <1>15, <1>16, <1>17, <1>18, <1>19, <1>20, <1>21, <1>22, <1>23, <1>24, <1>25,
     <1>26, <1>27, <1>28, <1>29 DEF Next, Main, AcceptLoop, Handler

\* The context stays cancelled, so a handler that reads again has read nothing late.
LEMMA LateStep ==
    ASSUME TypeOK, LateInv, [Next]_vars
    PROVE  LateInv'
<1> USE DEF TypeOK, LateInv, main, conn
<1>1. ASSUME LoadConfig PROVE LateInv'
  BY <1>1 DEF LoadConfig, Step
<1>2. ASSUME ConnectPool PROVE LateInv'
  BY <1>2 DEF ConnectPool, Step
<1>3. ASSUME Ping PROVE LateInv'
  BY <1>3 DEF Ping, Step
<1>4. ASSUME RunMigrations PROVE LateInv'
  BY <1>4 DEF RunMigrations, Step
<1>5. ASSUME CreateServers PROVE LateInv'
  BY <1>5 DEF CreateServers, Step
<1>6. ASSUME StartManagers PROVE LateInv'
  BY <1>6 DEF StartManagers
<1>7. ASSUME LoadSpawns PROVE LateInv'
  BY <1>7 DEF LoadSpawns
<1>8. ASSUME SpawnAll PROVE LateInv'
  BY <1>8 DEF SpawnAll
<1>9. ASSUME StartServers PROVE LateInv'
  BY <1>9 DEF StartServers
<1>10. ASSUME Wait PROVE LateInv'
  BY <1>10 DEF Wait
<1>11. ASSUME Return PROVE LateInv'
  BY <1>11 DEF Return
<1>12. ASSUME Signal PROVE LateInv'
  BY <1>12 DEF Signal
<1>13. ASSUME NEW m \in Managers, ManagerStops(m) PROVE LateInv'
  BY <1>13 DEF ManagerStops, Fails
<1>14. ASSUME NEW s \in Servers, Listen(s) PROVE LateInv'
  BY <1>14 DEF Listen
<1>15. ASSUME NEW s \in Servers, ListenFails(s) PROVE LateInv'
  BY <1>15 DEF ListenFails, Fails
<1>16. ASSUME NEW s \in Servers, ServeReturns(s) PROVE LateInv'
  BY <1>16 DEF ServeReturns
<1>17. ASSUME NEW s \in Servers, CloseListener(s) PROVE LateInv'
  BY <1>17 DEF CloseListener
<1>18. ASSUME NEW s \in Servers, Close(s) PROVE LateInv'
  BY <1>18 DEF Close
<1>19. ASSUME NEW s \in Servers, CheckAccept(s) PROVE LateInv'
  BY <1>19 DEF CheckAccept
<1>20. ASSUME NEW s \in Servers, AcceptFails(s) PROVE LateInv'
  BY <1>20 DEF AcceptFails
<1>21. ASSUME NEW p \in Places, Accept(p) PROVE LateInv'
  BY <1>21 DEF Accept
<1>22. ASSUME NEW p \in Places, Greet(p) PROVE LateInv'
  BY <1>22 DEF Greet, Goes, Ends
<1>23. ASSUME NEW p \in Places, CheckHandler(p) PROVE LateInv'
  BY <1>23 DEF CheckHandler, Goes, Ends
<1>24. ASSUME NEW p \in Places, ReadFails(p) PROVE LateInv'
  BY <1>24 DEF ReadFails, Goes, Ends
<1>25. ASSUME NEW p \in Places, Handle(p) PROVE LateInv'
  BY <1>25 DEF Handle, Goes, Ends
<1>26. ASSUME NEW p \in Places, ReadPacket(p) PROVE LateInv'
  BY <1>26 DEF ReadPacket, Goes
<1>27. ASSUME NEW p \in Places, CloseSocket(p) PROVE LateInv'
  BY <1>27 DEF CloseSocket
<1>28. ASSUME NEW p \in Places, PeerCloses(p) PROVE LateInv'
  BY <1>28 DEF PeerCloses
<1>29. ASSUME UNCHANGED vars PROVE LateInv'
  BY <1>29 DEF vars
<1> QED
  BY <1>1, <1>2, <1>3, <1>4, <1>5, <1>6, <1>7, <1>8, <1>9, <1>10, <1>11, <1>12, <1>13,
     <1>14, <1>15, <1>16, <1>17, <1>18, <1>19, <1>20, <1>21, <1>22, <1>23, <1>24, <1>25,
     <1>26, <1>27, <1>28, <1>29 DEF Next, Main, AcceptLoop, Handler

\* The invariant holds when the program starts.
LEMMA InitInv == Init => IInv
<1> SUFFICES ASSUME Init PROVE IInv
  OBVIOUS
<1> USE ServersAssumption, ProgramsAssumption, BoundsAssumption DEF Init
<1>1. TypeOK
  <2>1. 0 \in 0 .. MaxPackets
    OBVIOUS
  <2>2. pc \in {"test", "config"}
    OBVIOUS
  <2>3. /\ member \in [Members -> {"serving", "idle"}] /\ lis \in [Servers -> {"open", "none"}]
        /\ loop \in [Servers -> {"check", "off"}]
    OBVIOUS
  <2> QED
    BY <2>1, <2>2, <2>3 DEF TypeOK
<1>2. StartInv /\ GroupInv
  BY DEF StartInv, GroupInv, Ready, GameProgramStaysUp, Members
<1>3. PoolInv
  BY DEF PoolInv, PoolReleased
<1>4. WatchInv /\ LateInv
  BY DEF WatchInv, LateInv
<1> QED
  BY <1>1, <1>2, <1>3, <1>4 DEF IInv

\* Every step keeps the invariant.
LEMMA StepInv == IInv /\ [Next]_vars => IInv'
BY TypeStep, StartStep, PoolStep, GroupStep, WatchStep, LateStep DEF IInv

LEMMA InvAlways == Spec => []IInv
BY InitInv, StepInv, PTL DEF Spec

\* The states of main, its errgroup, the listeners and the connections keep their
\* types; a connection has a handler exactly when it has a socket.
THEOREM TypeTheorem == Spec => []TypeOK
<1>1. IInv => TypeOK
  BY DEF IInv
<1> QED
  BY <1>1, InvAlways, PTL

\* ServesReadyWorld for any number of servers: run of cmd/loginserver and of
\* cmd/gameserver opens no port before the migrations have run and SpawnAll has
\* returned, whether it succeeded or not.
THEOREM ReadyTheorem == Spec => []ServesReadyWorld
<1>1. IInv => ServesReadyWorld
  BY DEF IInv, StartInv, Ready, ServesReadyWorld
<1> QED
  BY <1>1, InvAlways, PTL

\* PoolReleased whichever step of run fails: db.New, RunMigrations, NewServer,
\* LoadSpawns or a member of the group.
THEOREM PoolTheorem == Spec => []PoolReleased
<1>1. IInv => PoolReleased
  BY DEF IInv, PoolInv
<1> QED
  BY <1>1, InvAlways, PTL

\* GameProgramStaysUp for any number of servers: Serve's early return does not
\* end cmd/gameserver.
THEOREM StaysUpTheorem == Spec => []GameProgramStaysUp
<1>1. IInv => GameProgramStaysUp
  BY DEF IInv, GroupInv
<1> QED
  BY <1>1, InvAlways, PTL

\* AtMostOneLatePacket for any number of connections and packets.
THEOREM LateTheorem == Spec => []AtMostOneLatePacket
<1>1. IInv => AtMostOneLatePacket
  BY DEF IInv, LateInv, AtMostOneLatePacket
<1> QED
  BY <1>1, InvAlways, PTL
=============================================================================
