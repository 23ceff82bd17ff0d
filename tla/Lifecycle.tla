------------------------------ MODULE Lifecycle ------------------------------
(***************************************************************************)
(* How the two programs of cmd/ start, run and stop, and the server loop    *)
(* the three listeners share (login, gslistener and gameserver have the     *)
(* same Run, Serve, acceptLoop and handleConnection).                       *)
(*                                                                          *)
(* The goroutines are main (pc), the members of main's errgroup (member),   *)
(* the accept loop of each server (loop), the goroutine of Serve that       *)
(* closes the listener (part of lis), and for each connection its handler   *)
(* (hand) and the goroutine that closes its socket (watch).  The third      *)
(* "program" is the way the tests run a server: Serve on a listener of      *)
(* their own, stopped by cancelling the context or by Close.                *)
(***************************************************************************)
EXTENDS Naturals, FiniteSets

CONSTANTS Servers,    \* the listeners of the program
          Conns,      \* connections
          Places,     \* the connections each server may accept (bound)
          MaxPackets, \* packets a peer sends on one connection (bound)
          Programs    \* the programs considered, a subset of AllPrograms

LoginProgram == "loginserver"
GameProgram  == "gameserver"
TestHarness  == "test"
AllPrograms  == {LoginProgram, GameProgram, TestHarness}

\* ai.TickManager, world.VisibilityManager, spawn.RespawnTaskManager.
EarlyManagers == {"ai", "visibility"}
Managers      == EarlyManagers \cup {"respawn"}
Members       == Managers \cup Servers

ASSUME ProgramsAssumption == Programs \subseteq AllPrograms
ASSUME ServersAssumption  == Servers # {} /\ Servers \cap Managers = {}
ASSUME BoundsAssumption   == MaxPackets \in Nat \ {0} /\ Places \subseteq Servers \X Conns

VARIABLES
  prog,      \* which program runs
  pc,        \* where main is
  db,        \* the connection pool: "none", "open" or "closed"
  migrated,  \* the schema is up to date
  spawned,   \* SpawnAll has been run
  ctx,       \* the context of main (or of the test) is cancelled
  gctx,      \* the context of the errgroup is cancelled
  failed,    \* run returned an error, or the group has recorded one
  member,    \* state of each goroutine of the errgroup
  lis,       \* the listener of each server
  loop,      \* the accept loop of each server
  hand,      \* the handler of each connection
  sock,      \* the socket of each connection
  watch,     \* the goroutine that waits for ctx and closes the socket
  packets,   \* packets handled on each connection
  late       \* of these, those read after the context was cancelled

main    == <<pc, db, migrated, spawned, ctx>>
conn    == <<hand, sock, watch, packets, late>>
vars    == <<prog, main, gctx, failed, member, lis, loop, conn>>

TypeOK ==
  /\ prog \in Programs
  /\ pc \in {"config", "connect", "ping", "migrate", "create", "managers", "load",
             "spawnAll", "servers", "wait", "refused", "return", "exited", "test"}
  /\ db \in {"none", "open", "closed"}
  /\ migrated \in BOOLEAN /\ spawned \in BOOLEAN
  /\ ctx \in BOOLEAN /\ gctx \in BOOLEAN /\ failed \in BOOLEAN
  /\ member \in [Members -> {"idle", "running", "serving", "returned", "failed"}]
  /\ lis \in [Servers -> {"none", "open", "closed"}]
  /\ loop \in [Servers -> {"off", "check", "accept", "ended"}]
  /\ hand \in [Places -> {"none", "init", "loop", "read", "handle", "ended"}]
  /\ sock \in [Places -> {"none", "open", "closed"}]
  /\ \A p \in Places : hand[p] = "none" <=> sock[p] = "none"
  /\ watch \in [Places -> BOOLEAN]
  /\ packets \in [Places -> 0..MaxPackets]
  /\ late \in [Places -> 0..MaxPackets]

Init ==
  /\ prog \in Programs
  /\ pc = IF prog = TestHarness THEN "test" ELSE "config"
  /\ db = "none" /\ migrated = FALSE /\ spawned = FALSE
  /\ ctx = FALSE /\ gctx = FALSE /\ failed = FALSE
  \* the test opens the listener itself and calls Serve in a goroutine
  /\ member = [m \in Members |-> IF prog = TestHarness /\ m \in Servers
                                 THEN "serving" ELSE "idle"]
  /\ lis = [s \in Servers |-> IF prog = TestHarness THEN "open" ELSE "none"]
  /\ loop = [s \in Servers |-> IF prog = TestHarness THEN "check" ELSE "off"]
  /\ hand = [p \in Places |-> "none"]
  /\ sock = [p \in Places |-> "none"]
  /\ watch = [p \in Places |-> FALSE]
  /\ packets = [p \in Places |-> 0]
  /\ late = [p \in Places |-> 0]

\* When main returns, the process and every goroutine in it are gone.
Alive == pc # "exited"

-----------------------------------------------------------------------------
(* main: SIGINT or SIGTERM cancels the context, and the group's with it.    *)

Signal ==
  /\ Alive /\ ~ctx
  /\ ctx' = TRUE /\ gctx' = TRUE
  /\ UNCHANGED <<prog, pc, db, migrated, spawned, failed, member, lis, loop, conn>>

\* A step of run that either goes on to next or returns an error; "refused" is
\* a return before database.Close has been deferred, "return" one after.
Step(at, next, out) ==
  /\ pc = at
  /\ \/ pc' = next /\ failed' = failed
     \/ pc' = out /\ failed' = TRUE
  /\ UNCHANGED <<prog, ctx, gctx, member, lis, loop, conn>>

LoadConfig == Step("config", "connect", "refused") /\ UNCHANGED <<db, migrated, spawned>>

\* db.New: the pool exists from NewWithConfig on, and a failing ping closes it.
ConnectPool ==
  /\ Step("connect", "ping", "refused")
  /\ db' = IF pc' = "ping" THEN "open" ELSE db
  /\ UNCHANGED <<migrated, spawned>>

\* (Changed form: the pool is not closed when the ping fails.)
PingLeaving ==
  /\ Step("ping", "migrate", "refused")
  /\ UNCHANGED <<db, migrated, spawned>>

Ping ==
  /\ Step("ping", "migrate", "refused")
  /\ db' = IF pc' = "migrate" THEN db ELSE "closed"
  /\ UNCHANGED <<migrated, spawned>>

\* (Changed form: an error of the migrations is only logged.)
RunMigrationsIgnoring ==
  /\ pc = "migrate" /\ pc' = "create"
  /\ migrated' \in BOOLEAN
  /\ UNCHANGED <<prog, db, spawned, ctx, gctx, failed, member, lis, loop, conn>>

RunMigrations ==
  /\ Step("migrate", "create", "return")
  /\ migrated' = (pc' = "create")
  /\ UNCHANGED <<db, spawned>>

\* The servers are created (RSA keys are generated); the game program goes on
\* with its managers.
CreateServers ==
  /\ Step("create", IF prog = GameProgram THEN "managers" ELSE "servers", "return")
  /\ UNCHANGED <<db, migrated, spawned>>

StartManagers ==
  /\ pc = "managers" /\ pc' = "load"
  /\ member' = [m \in Members |-> IF m \in EarlyManagers THEN "running" ELSE member[m]]
  /\ UNCHANGED <<prog, db, migrated, spawned, ctx, gctx, failed, lis, loop, conn>>

\* LoadSpawns; when it fails run returns with the managers still running.
LoadSpawns ==
  /\ pc = "load"
  /\ \/ /\ pc' = "spawnAll"
        /\ member' = [member EXCEPT !["respawn"] = "running"]
        /\ failed' = failed
     \/ pc' = "return" /\ failed' = TRUE /\ member' = member
  /\ UNCHANGED <<prog, db, migrated, spawned, ctx, gctx, lis, loop, conn>>

\* A failure of SpawnAll (or of the demo NPC) is only logged.
SpawnAll ==
  /\ pc = "spawnAll" /\ pc' = "servers"
  /\ spawned' = TRUE
  /\ UNCHANGED <<prog, db, migrated, ctx, gctx, failed, member, lis, loop, conn>>

StartServers ==
  /\ pc = "servers" /\ pc' = "wait"
  /\ member' = [m \in Members |-> IF m \in Servers THEN "running" ELSE member[m]]
  /\ UNCHANGED <<prog, db, migrated, spawned, ctx, gctx, failed, lis, loop, conn>>

\* (Changed form: only the servers are waited for.)
WaitServers ==
  /\ pc = "wait"
  /\ \A s \in Servers : member[s] \in {"returned", "failed"}
  /\ pc' = "return" /\ gctx' = TRUE
  /\ UNCHANGED <<prog, db, migrated, spawned, ctx, failed, member, lis, loop, conn>>

\* errgroup.Wait: every started member has returned; it cancels the context.
Wait ==
  /\ pc = "wait"
  /\ \A m \in Members : member[m] \in {"idle", "returned", "failed"}
  /\ pc' = "return" /\ gctx' = TRUE
  /\ UNCHANGED <<prog, db, migrated, spawned, ctx, failed, member, lis, loop, conn>>

\* run's deferred database.Close, if it got that far; then the end of main.
Return ==
  /\ pc \in {"return", "refused"} /\ pc' = "exited"
  /\ db' = IF pc = "return" THEN "closed" ELSE db
  /\ UNCHANGED <<prog, migrated, spawned, ctx, gctx, failed, member, lis, loop, conn>>

-----------------------------------------------------------------------------
(* The members of the errgroup.                                             *)

\* (Changed form: an errgroup without a context.)
FailsAlone(m) ==
  /\ member' = [member EXCEPT ![m] = "failed"]
  /\ failed' = TRUE /\ gctx' = gctx

\* The first error of a member is recorded and cancels the group's context.
Fails(m) ==
  /\ member' = [member EXCEPT ![m] = "failed"]
  /\ failed' = TRUE /\ gctx' = TRUE

\* TickManager.Start, VisibilityManager.Start, RespawnTaskManager.Start: they
\* tick until the context is cancelled and return its error.
ManagerStops(m) ==
  /\ Alive /\ member[m] = "running" /\ gctx
  /\ Fails(m)
  /\ UNCHANGED <<prog, main, lis, loop, conn>>

\* Server.Run: listen, keep the listener, Serve starts its two goroutines.
Listen(s) ==
  /\ Alive /\ member[s] = "running"
  /\ member' = [member EXCEPT ![s] = "serving"]
  /\ lis' = [lis EXCEPT ![s] = "open"]
  /\ loop' = [loop EXCEPT ![s] = "check"]
  /\ UNCHANGED <<prog, main, gctx, failed, conn>>

ListenFails(s) ==
  /\ Alive /\ member[s] = "running"
  /\ Fails(s)
  /\ UNCHANGED <<prog, main, lis, loop, conn>>

\* The count of the WaitGroup of Serve: the handlers started by wg.Go that have
\* not ended.  The accept loop itself is not counted.
Handlers(s) == {p \in Places : p[1] = s /\ hand[p] \notin {"none", "ended"}}

\* wg.Wait returns when the count is zero, whatever the accept loop does.
ServeReturns(s) ==
  /\ Alive /\ member[s] = "serving" /\ Handlers(s) = {}
  /\ member' = [member EXCEPT ![s] = "returned"]
  /\ UNCHANGED <<prog, main, gctx, failed, lis, loop, conn>>

\* The first goroutine of Serve.
CloseListener(s) ==
  /\ Alive /\ gctx /\ lis[s] = "open"
  /\ lis' = [lis EXCEPT ![s] = "closed"]
  /\ UNCHANGED <<prog, main, gctx, failed, member, loop, conn>>

\* Server.Close; only the tests call it.
Close(s) ==
  /\ pc = "test" /\ lis[s] = "open"
  /\ lis' = [lis EXCEPT ![s] = "closed"]
  /\ UNCHANGED <<prog, main, gctx, failed, member, loop, conn>>

-----------------------------------------------------------------------------
(* acceptLoop.                                                              *)

CheckAccept(s) ==
  /\ Alive /\ loop[s] = "check"
  /\ loop' = [loop EXCEPT ![s] = IF gctx THEN "ended" ELSE "accept"]
  /\ UNCHANGED <<prog, main, gctx, failed, member, lis, conn>>

\* (Changed form: the connection is not kept for the deferred Close.)
AcceptForgetting(p) ==
  /\ Alive /\ loop[p[1]] = "accept" /\ lis[p[1]] = "open" /\ hand[p] = "none"
  /\ loop' = [loop EXCEPT ![p[1]] = "check"]
  /\ hand' = [hand EXCEPT ![p] = "init"]
  /\ watch' = [watch EXCEPT ![p] = TRUE]
  /\ UNCHANGED <<prog, main, gctx, failed, member, lis, sock, packets, late>>

\* A peer connects: the handler and, inside it, the watching goroutine start.
Accept(p) ==
  /\ Alive /\ loop[p[1]] = "accept" /\ lis[p[1]] = "open" /\ hand[p] = "none"
  /\ loop' = [loop EXCEPT ![p[1]] = "check"]
  /\ hand' = [hand EXCEPT ![p] = "init"]
  /\ sock' = [sock EXCEPT ![p] = "open"]
  /\ watch' = [watch EXCEPT ![p] = TRUE]
  /\ UNCHANGED <<prog, main, gctx, failed, member, lis, packets, late>>

\* Accept on a closed listener: the error is logged and the loop goes on.
AcceptFails(s) ==
  /\ Alive /\ loop[s] = "accept" /\ lis[s] = "closed"
  /\ loop' = [loop EXCEPT ![s] = "check"]
  /\ UNCHANGED <<prog, main, gctx, failed, member, lis, conn>>

-----------------------------------------------------------------------------
(* handleConnection.                                                        *)

Goes(p, from, to) == hand[p] = from /\ hand' = [hand EXCEPT ![p] = to]

\* Any return of handleConnection runs the deferred conn.Close.
Ends(p, from) ==
  /\ Goes(p, from, "ended")
  /\ sock' = [sock EXCEPT ![p] = "closed"]

\* The greeting (Init, InitLS or KeyPacket) is written.
Greet(p) ==
  /\ Alive
  /\ \/ sock[p] = "open" /\ Goes(p, "init", "loop") /\ sock' = sock
     \/ Ends(p, "init")
  /\ UNCHANGED <<prog, main, gctx, failed, member, lis, loop, watch, packets, late>>

\* (Changed form: the loop does not look at the context.)
CheckNothing(p) ==
  /\ Alive /\ Goes(p, "loop", "read")
  /\ UNCHANGED <<prog, main, gctx, failed, member, lis, loop, sock, watch, packets, late>>

CheckHandler(p) ==
  /\ Alive
  /\ \/ ~gctx /\ Goes(p, "loop", "read") /\ sock' = sock
     \/ gctx /\ Ends(p, "loop")
  /\ UNCHANGED <<prog, main, gctx, failed, member, lis, loop, watch, packets, late>>

\* ReadPacket returns a packet of the peer.
ReadPacket(p) ==
  /\ Alive /\ sock[p] = "open" /\ packets[p] < MaxPackets
  /\ Goes(p, "read", "handle")
  /\ packets' = [packets EXCEPT ![p] = @ + 1]
  /\ late' = [late EXCEPT ![p] = IF gctx THEN @ + 1 ELSE @]
  /\ UNCHANGED <<prog, main, gctx, failed, member, lis, loop, sock, watch>>

\* ReadPacket fails: the socket is closed, by the peer or by the other goroutine.
ReadFails(p) ==
  /\ Alive /\ sock[p] = "closed" /\ Ends(p, "read")
  /\ UNCHANGED <<prog, main, gctx, failed, member, lis, loop, watch, packets, late>>

\* The packet is handled: the connection goes on, or the handler ends it.
Handle(p) ==
  /\ Alive
  /\ \/ Goes(p, "handle", "loop") /\ sock' = sock
     \/ Ends(p, "handle")
  /\ UNCHANGED <<prog, main, gctx, failed, member, lis, loop, watch, packets, late>>

\* (Changed form: nobody closes the socket under a blocked read.)
CloseNoSocket(p) ==
  /\ Alive /\ watch[p] /\ gctx
  /\ watch' = [watch EXCEPT ![p] = FALSE]
  /\ UNCHANGED <<prog, main, gctx, failed, member, lis, loop, hand, sock, packets, late>>

\* The goroutine started by handleConnection.
CloseSocket(p) ==
  /\ Alive /\ watch[p] /\ gctx
  /\ watch' = [watch EXCEPT ![p] = FALSE]
  /\ sock' = [sock EXCEPT ![p] = "closed"]
  /\ UNCHANGED <<prog, main, gctx, failed, member, lis, loop, hand, packets, late>>

\* The peer hangs up.
PeerCloses(p) ==
  /\ Alive /\ sock[p] = "open"
  /\ sock' = [sock EXCEPT ![p] = "closed"]
  /\ UNCHANGED <<prog, main, gctx, failed, member, lis, loop, hand, watch, packets, late>>

-----------------------------------------------------------------------------

Main == LoadConfig \/ ConnectPool \/ Ping \/ RunMigrations \/ CreateServers
          \/ StartManagers \/ LoadSpawns \/ SpawnAll \/ StartServers \/ Wait \/ Return

Handler(p) == Greet(p) \/ CheckHandler(p) \/ ReadFails(p) \/ Handle(p)

AcceptLoop(s) == CheckAccept(s) \/ AcceptFails(s)

Next ==
  \/ Main \/ Signal
  \/ \E m \in Managers : ManagerStops(m)
  \/ \E s \in Servers : \/ Listen(s) \/ ListenFails(s) \/ ServeReturns(s)
                         \/ CloseListener(s) \/ Close(s) \/ AcceptLoop(s)
  \/ \E p \in Places : Accept(p) \/ Handler(p) \/ ReadPacket(p) \/ CloseSocket(p) \/ PeerCloses(p)

Spec == Init /\ [][Next]_vars

(* Every goroutine that can run does.  Nothing is assumed of the signal, of   *)
(* Close, of the peers, or of the listening port being free.                 *)
Scheduled ==
  /\ WF_vars(Main)
  /\ \A m \in Managers : WF_vars(ManagerStops(m))
  /\ \A s \in Servers : /\ WF_vars(Listen(s) \/ ListenFails(s))
                         /\ WF_vars(ServeReturns(s))
                         /\ WF_vars(CloseListener(s))
                         /\ WF_vars(AcceptLoop(s))
  /\ \A p \in Places : WF_vars(Handler(p)) /\ WF_vars(CloseSocket(p))

FairSpec == Spec /\ Scheduled

-----------------------------------------------------------------------------
(* Properties.                                                              *)

\* No port is opened before the migrations have run and, in the game program,
\* SpawnAll has returned (if it failed, run only logs that).
ServesReadyWorld ==
  \A s \in Servers : lis[s] = "open" /\ prog # TestHarness =>
    migrated /\ (prog = GameProgram => spawned)

\* Whichever of the steps of run fails, the connection pool is not left open by
\* the time main has returned (db.New closes the pool its ping refused).
PoolReleased == pc = "exited" => db # "open"

\* Once its servers run, the game program ends only by the signal or because a
\* server could not listen: the servers' own Run returns at once, and the
\* managers are what keeps the process up.
GameProgramStaysUp ==
  prog = GameProgram /\ pc \in {"return", "exited"} /\ (\A s \in Servers : member[s] = "returned")
    => ctx

\* After the context is cancelled a connection has at most one packet handled:
\* the one its handler was already waiting for.
AtMostOneLatePacket == \A p \in Places : late[p] <= 1

\* A server's Run that cannot listen brings the whole program down with an error,
\* the other servers and the managers with it; and a signal stops the program,
\* whatever main was doing.  Neither leaves a program half running.
ListenRefused == \E s \in Servers : member[s] = "failed"

ProgramStops ==
  (ListenRefused \/ (ctx /\ prog # TestHarness)) ~>
    (pc = "exited" /\ (ListenRefused => failed))

\* Cancelled servers fall silent even when their process lives on (as in the
\* tests): no accept loop, no handler, no waiting goroutine, no open socket.
Quiet(s) ==
  /\ loop[s] \in {"off", "ended"}
  /\ \A p \in Places : p[1] = s => /\ hand[p] \in {"none", "ended"}
                                   /\ ~watch[p] /\ sock[p] # "open"

CancelQuiesces == gctx ~> (~Alive \/ \A s \in Servers : Quiet(s))

\* "Wait for both servers to finish" (cmd/loginserver/main.go:108): main goes on
\* after g.Wait only when no server can accept a connection any more.
WaitsForServers ==
  pc \in {"return", "exited"} /\ ~failed =>
    \A s \in Servers : loop[s] \in {"off", "ended"}

=============================================================================
