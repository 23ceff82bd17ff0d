# A verification project for la2go

la2go is a Lineage 2 server emulator in Go: a login server for players, a
listener on which game servers register, a game server for players, and the
world of NPCs behind it.  This directory holds TLA+ models of it, TLC
configurations that check them on small instances, and TLAPS proofs that carry
the most important results over to every size.

Source paths below are relative to `src/internal/` unless they say otherwise.

## 1. Inventory

| Component | State it keeps | Operations | Hard because |
|---|---|---|---|
| Login connections (`login/handler.go`, `server.go`, `client.go`) | per connection: state, account, session key | AuthGameGuard, RequestAuthLogin, RequestServerList, RequestServerLogin, disconnect | one goroutine per connection; the account row and the sessions are shared |
| Session manager (`login/session_manager.go`) | `sync.Map` account -> key, creation time | Store, Validate, Remove, CleanExpired | check and removal are separate calls, deletion is by account |
| Account repository (`db/repository.go`) | table `accounts` | GetAccount, GetOrCreateAccount | several connections create one account |
| GameServer table (`gameserver/table.go`, `info.go`) | map id -> info, a bitmap of free ids, flags of each info | Register, RegisterWithFirstAvailableID, Remove, LoadFromDB | two representations of one set, 64-bit words |
| GameServer listener (`gslistener/handler.go`, `server.go`, `connection.go`) | per connection: state, info, online accounts | BlowFishKey, GameServerAuth, PlayerInGame, PlayerLogout, PlayerAuthRequest, ServerStatus, cleanup | look-up, check and registration are separate calls; reconnections race cleanups |
| Spawn manager (`spawn/manager.go`, `model/spawn.go`, `npc.go`) | per spawn: count and list of NPCs | LoadSpawns, SpawnAll, DoSpawn, DespawnNpc | check-then-act on the count; rollback; four registries to keep in step |
| Respawn task manager (`spawn/respawn.go`) | map spawn -> task | ScheduleRespawn, CancelRespawn, the 1 s tick | executes in goroutines of its own |
| AI tick manager (`ai/`) | controllers, a cached count, per controller a flag and a tick count | Register, Unregister, tickAll | a tick races Start and Stop |
| World (`world/world.go`, `region.go`, `grid.go`) | objects, objects per region | AddObject, RemoveObject, GetRegion | region computed from coordinates at the time |
| Visibility (`world/visibility*.go`, `model/visibility_cache.go`) | registered players, a cache per player | Register, Unregister, UpdateAll | works on a copy of the players |
| Game server for clients (`gameserver/handler.go`, `client.go`, `server.go`) | per client: state, account, key | ProtocolVersion, AuthLogin | shares the session manager |
| Framing and cryptography (`crypto/`, `protocol/`, `gslistener/protocol.go`) | the first-packet flag, the key, a pool of buffers | encrypt, decrypt, change of key | widths, padding, sizes at buffer ends, what a buffer's last use left |
| Packets (`login/serverpackets`, `gslistener/*packets`, `gameserver/*packets`, `packet` readers and writer) | position in the data | read, write | each layout is written by one program and read by another |
| Characters, items and their repositories (`model/`, `db/`) | fields behind a lock each, a row each | setters, Create, Update, Load | a snapshot of many fields, int32 and SMALLINT |
| Main programs (`src/cmd/`, `db/db.go`, `db/migrate.go`) | pool, schema, errgroup, which parts run | start, shutdown | `Serve` returns while handlers run; every step may fail |
| Test utilities (`testutil/`) | the clients' side of every connection | | the only other end of the protocols in the repository |

Interactions: a login connection stores a session in the session manager; a
game server asks the listener about it (PlayerAuthRequest), which validates and
removes it; the game server for clients validates it too.  The listener
registers game servers in the table.  The spawn manager adds NPCs to the world
and to the AI tick manager; the respawn task manager calls the spawn manager
back.  Visibility reads the world's regions.  Main starts them all in one
errgroup.  Nothing holds a lock across calls of two components: each call is a
step that others can come between.

What makes each part correct:

* sessions: only the password's owner gets one; a key that was used, replaced
  or removed never counts again; a session is not lost for no reason; a key
  handed to a player is known to the session manager;
* table: the bitmap and the map are the same set; search is a first fit;
* listener: an id belongs to one secret; a server that is up is marked up, one
  that is gone is not locked out;
* spawn: count, list, world and AI agree; no more NPCs than the maximum, and no
  fewer in the long run;
* AI, visibility: what is unregistered stays quiet and holds no cache; no toggle
  is lost;
* packets and frames: what one program means is what the other understands, and
  nothing else leaves;
* rows: what was saved comes back, and whatever row is loaded makes a player in
  bounds;
* programs: no port before the migrations and SpawnAll have run, no pool left
  open, and a signal or a failure ends everything.

The hazards, each at its line and with the properties that watch it, are in
`PROJECT.json` under `hazards`.

## 2. Modules

| Module | Models | Proofs |
|---|---|---|
| `TicketService` | abstract: what the login server promises about sessions | |
| `LoginRelay` | login connections, session manager, account creation, PlayerAuthRequest, CleanExpired | `LoginRelayProofs` |
| `GameServerTable` | the table and its bitmap, with words of `WordBits` bits | `GSListenerProofs` |
| `ServerRegistry` | abstract: who owns an id of a game server, and which connection may be told it | |
| `GSListener` | EXTENDS the table: connections of game servers and the infos' flags | `GSListenerProofs` |
| `Spawn` | spawn manager, respawn tasks, counters, world objects, controllers | `SpawnProofs` |
| `World` | the grid: region indices, regions, windows (operators only) | |
| `Visibility` | EXTENDS `World`: the visibility manager, the players' caches, objects that come and go | `VisibilityProofs` |
| `AITick` | the tick loop and the basic controllers | `ActorProofs` |
| `Lifecycle` | the two main programs and the server loop the three listeners share | `LifecycleProofs` |
| `Codec`, `CodecStream` | the packet writer and the two readers (operators); packets of any typed values | `PacketProofs` |
| `Packets`, `Wire` | every packet's layout, as its writer and as its reader has it (operators); two conversations in them | `WireProofs` |
| `FrameSizes`, `Framing` | sizes of frames (operators); a connection frame by frame, with used buffers and a change of key | `PacketProofs` |
| `Rsa` | RSA by the Chinese remainder theorem and by the exponent | `PacketProofs` |
| `CharacterStore` | a player in memory and its row | `ActorProofs` |
| `ItemStore` | items in memory and their rows | `ActorProofs` |
| `MC...` | symmetry sets, places and values for TLC; `MCParts` puts the nine models that share no state into one run, with the values of `MCCodec`, `MCWire`, `MCFraming` and `MCVisibility`, which the violation runs use too; `MCProgress` does so with the three models of liveness | |

Beside the code's operators the modules hold a few marked "Changed form": the
same operator with a plausible fault.  No specification uses them; put in the
operator's place, each breaks the property `PROJECT.json` names beside it under
`mutants`, which shows that the property looks at the code.

### Correspondence

`LoginRelay`.  A connection is a slot: `cstate` is `Client.state`, and `step`
says where its goroutine is inside RequestAuthLogin (`create`, `reread` for the
two statements of GetOrCreateAccount, `store` before SessionManager.Store).
One action is one access to shared state: the SELECT, the INSERT ... ON CONFLICT
DO NOTHING, the second SELECT, Store, Validate, Remove, and, in CleanExpired,
each visit of Range and each Delete.  Local work is merged with the access
before it.  A session key is one value that stands for both pairs; the code
draws four random int32, and a key is taken never to repeat.  Passwords stand
for their hashes.  Every failure that ends a connection is `Close`: the code
removes no session then, and neither does the model.

`GameServerTable`.  `servers` is the map, `freeBitmap` two sets of set bits; 64
becomes `WordBits`.  An id past the second word keeps its place in the map and
has no bit, as a Go shift by 64 or more yields 0.  Every method holds the
table's mutex, so a method is one action.  An info is a fresh element of
`Infos` each time the code allocates one.

`GSListener`.  `gstep` places the goroutine in handleGameServerAuth: `register`
between GetByID and Register, `port` and `authed` before the two halves of
finalizeRegistration, `cleanup` after the packet loop.  `target` is the info the
connection is finalizing and then `GSConnection.info`.  GetByID, HexID and
IsAuthed are read in one step, because ids are never taken back while the
listener runs and an info's secret is constant.  SetAuthed(true) and the
attachment of the info are one step (`FinalizeAuthed`): only this goroutine's own
cleanup looks at the attachment, and it comes after both.

`Spawn`.  Each worker (the goroutine of SpawnAll, or one that executes due
tasks) walks through DoSpawn with one shared access per action; each killer
through DespawnNpc and ScheduleRespawn.  The spawns' counters, their lists, the
world's map, the regions, the controllers, the cached controller count and
isRunning are separate variables, as in the code.  main despawns nothing yet:
killers behave like the integration tests, DespawnNpc and then ScheduleRespawn.
Template queries may fail, a spawn may lie outside the grid, tasks may be
cancelled.  The delay is arbitrary: any set of tasks may be due at a tick.

`World` and `Visibility`.  A region is its index pair; the arithmetic shift is a
division that rounds down by `RegionSize`.  `mpc` is where the goroutine of
`Start` is: `idle` in its select, `next` between two players of UpdateAll's copy
(`todo`), `located` after Location and before GetVisibilityCache, `scan` in
getVisibleObjects, one region a step (`next` is the position: the central region,
then the nine of its window, which hold it again), `store` before
SetVisibilityCache.  `Centre` calls GetRegion with the indices, as the code does.
A cache is the region it is stamped with and how often each object is in it; its
age is one bit.  main starts the manager but registers no player yet; register,
unregister and move are modelled after the methods' comments and the tests.
Objects do not move, and the queries, which only read, are not actions.

`AITick`.  `rpc[c]` and `upc[c]` are where Register and Unregister of controller
c are, `tpc` where the loop is; the map, `isRunning`, the intention and the tick
count are read and written in steps of their own.  A Range comes to every
controller that stays in the map, in any order, and may come to one stored
meanwhile.

`Lifecycle`.  `pc` is main's place in run, `member` the goroutines of its
errgroup, `lis` and `loop` a server's listener and accept loop, `hand`, `sock`
and `watch` a connection's handler, socket and the goroutine that closes the
socket on cancellation.  The three servers have the same Run, Serve, acceptLoop
and handleConnection, so one set of actions models them all.  The WaitGroup
counts handlers only, as in the code, so that ServeReturns is enabled as soon
as none runs.  `prog` chooses the login program, the game program or the tests'
way of running a server: Serve on a listener of their own, stopped by cancelling
the context or by Close.  When main returns, the process and everything in it
is gone (`Alive`).  Every step of run may fail, and the ping that refuses a pool
closes it.

`Codec`, `Packets` and `Wire`.  Bytes are numbers 0..255 and layouts are those of
the code at their real offsets, with two's complement for the integers.  A
double takes its eight bytes, which `ValuesComeBack` follows and whose value it
says nothing about (section 3, at the end of the disagreements).  `Wire`
plays two conversations: a game server that registers and reports players and
attributes, and a player who logs in, chooses and enters a server which then asks
the login server about the key.  Each packet goes from the writer of one program
to the reader of another; the game server and the players are the clients in
`testutil/`, the only ones in the repository.  `said` is what the writer was
given, `heard` what the reader made of it, for a report whatever packet the
listener takes it for (`UnderstoodReport`).  `ClientStates` are the states in
which AuthLogin may find its sender: the program leaves it CONNECTED, a test may
have set a later one.  What a reader finds behind the body
(padding, checksum) is any tail of `Sums`.  `XorByte`, the exclusive or of two
bytes in ScrambleModulus, is a constant operator, because the proofs need two
facts of it only; `MCWire` gives it the exclusive or.

`Framing`.  `up` and `down` are frames in flight, `spare` the buffer the pool
hands out next with what its last use left in it, `srv` and `cli` the ends'
encryption (first packet or not, which key).  A byte has `Base` values.
Blowfish is a lock: a frame carries the name of its key.  Checksums, the XOR
pass of a first packet and the sizes are computed: the loops of
`crypto/blowfish.go` are functions of the number of words they have passed
(`SumsOf`, `Growing`, `Shrinking`), and `PutWords` is what they leave in the
buffer.  `XorOf` is a constant operator, because the proofs need three facts of
it only; `MCFraming` gives it the exclusive or.

`Rsa`.  A block is `Size` digits of radix `Radix`; the key pair's derived values,
the CRT recombination and the plain exponentiation are as in `crypto/rsa.go` and
`math/big`.  `PrimesAssumption` says what a generated key has: two odd primes, a
modulus that fills the block, and a public exponent with an inverse.  The fixed
512-bit key of `testRSA512Key` has all of it (its primes, modulus and exponents
were checked by calculation).

`CharacterStore` and `ItemStore`.  Setters hold the object's lock, so a setter is
one action.  Update reads the fields one by one, with the lock released in
between, and runs its statement at the end: `seen` (or `update`) is what the
arguments hold so far.  A restart loads what the row holds and forgets the rest.
A heading is a uint16 in memory and SMALLINT in the table; a count is an int32
whose sum wraps (`Wrap32`), experience an int64.

History variables (`owner`, `stored`, `taken`, `exposed`, `lost`; `contested`;
`spawnOf`, `raced`, `kills`; `steady`, `calm`, `settled`, `outrun`; `late`, `overtaken`;
`noise`, `torn`; `exact`, `unsaved`) record what happened.  Two of them bound a
run as well, and nothing else: a key with an owner is not drawn again, and
`kills` is capped by `MaxKills`.  `spawnOf` is also `Npc.spawn`.

## 3. What the runs show

| Run | States | Shows |
|---|---|---|
| `LoginRelay` | 846 223 | type; `AuthenticatedByPassword`, `HandedOutKeyWasStored`, `SpentKeyStaysSpent`, `NoSecondAdmission`, `LostOnlyInRace`; the refinement `TicketSpec` |
| `LoginRelayOnce` | violation | `OneAdmissionPerKey` |
| `GSListener` | 640 573 | `OwnsItsId`, `SoleOwnerUnlessContested`, `UpWhileOwned`, `NoOrphanedServer`; the refinement `RegistrySpec` |
| `GSListenerOwner` | violation | `OneConnectionPerServer` |
| `Spawn` | 349 560 | type; `CountMatchesList`, `ControllersCounted`, `AllOrNothing`, `NotOverfull` |
| `SpawnLost` | violation | `RespawnRestores` |
| `VisibilityWindow` | violation | `CollectsWindow` |
| `Progress` | 186 141 | three models: type; `ServesReadyWorld`, `PoolReleased`, `GameProgramStaysUp`, `AtMostOneLatePacket`; and, under fairness, `ProgramStops`, `CancelQuiesces` (programs), `RemovedFades` (caches), `AdmittedKeyDies` (session keys) |
| `LifecycleWait` | violation | `WaitsForServers` |
| `FramingGame` | violation | `GameClientsHeard` |
| `WireEntry` | violation | `GoodKeyEnters` |
| `Parts` | 1 190 034 | the nine models that share no state: `BitmapAgrees`, `FirstFit` (table), `ValuesComeBack` (codec), `EachUnderstands` (packets), `PayloadsArrive`, `NothingElseLeaves` (frames), `BlocksComeBack` (RSA), `RowsMakePlayers` (characters), `ItemsExact` (items), `TicksInStep` (AI), and of the visibility manager its type, `CacheOnlyIfRaced`, `FollowsWithinAPass`, `WindowExact` |

`Parts` is one run because its models do not interact: `part` chooses one at the
start, the others stay at an initial state, and a behaviour of the run is a
behaviour of that model.  Most of its properties are conjunctions of named parts,
each stated in its own module with its comment, the module's type invariant among
them.  `Progress` does the same, with `moving`, for the three models in which
something must happen in the end (`Lifecycle`, and smaller instances of
`Visibility` and `LoginRelay`, whose safety other runs check): a model is fair
while it moves.

What the conjunctions say beyond their names: `EachUnderstands` follows a
session key through LoginOk, PlayOk, AuthLogin and PlayerAuthRequest, four
packets of three programs, says that a registration's port and limit arrive as
sixteen bits, that no report is taken for one about another player, and cuts
every packet at every place;
`PayloadsArrive` covers the change of the game server's key in the middle of its
packets; `NothingElseLeaves` that the remains of an earlier packet in a pooled
buffer are not sent; `RowsMakePlayers` that a row torn by a concurrent setter
still makes a player in bounds, and that a row is torn in no other way;
`ItemsExact` that the one comparison with zero in AddCount catches every sum
that wraps; `TicksInStep` that a controller ticks from its start to its stop,
with the two races in which it does not (`late`, `overtaken`) named.

The seven violations are disagreements of the code with what the repository says:

* **One key, two admissions.**  `handlePlayerAuthRequest` validates a session
  and then removes it.  Two game servers that ask at once are both told "yes",
  where `tests/integration/cross_server_test.go:431` says that only one should
  succeed.  What does hold: a connection is told so once (`NoSecondAdmission`),
  and after the first removal the key is dead (`SpentKeyStaysSpent`).
* **One server, two connections.**  `IsAuthed` is checked long before
  `SetAuthed(true)`, so two connections with one id and secret can both
  register, against `gslistener/handler.go:145` and
  `tests/integration/gslistener_test.go:352`.  `SoleOwnerUnlessContested` says
  that this overlap is the only way.
* **A lost respawn.**  `ScheduleRespawn` keeps one task per spawn; two NPCs of a
  spawn that die within the delay bring back one
  (`tests/integration/spawn_integration_test.go:131`).
* **The wrong window.**  `getVisibleObjects` gives region indices to
  `World.GetRegion`, which takes coordinates.  Indices are smaller than a
  region, so that every scan starts at the region of the origin, against
  `world/visibility_manager.go:150`; its unit tests make the same call and pass.
  `CentreIsHome` proves this for every such grid.  `ForEachVisibleObject`, which
  takes coordinates, is right (`WindowExact`).
* **The login program ends at once.**  `Serve` starts its accept loop with a
  plain `go` and waits on a group whose counter is still zero, so both servers'
  Run return nil while they listen; g.Wait returns, the pool is closed and the
  process exits, against `src/cmd/loginserver/main.go:108`.  The game program
  stays up (`GameProgramStaysUp`) because its managers are in the group too.
* **A game client nobody hears.**  The tests' game client encrypts its first
  packet as a server would, with the XOR pass and under the static key
  (`testutil/gameclient.go:105`); the game server reads under the key it sent
  and closes, against `tests/integration/gameserver_test.go:130-132`, which only
  looks at whether a write succeeds.
* **Nobody can enter.**  handleProtocolVersion leaves the client CONNECTED, where
  AuthLogin is refused (`gameserver/handler.go:89`), against the comment at `:86`
  and `tests/integration/gameserver_test.go:204`.  `EachUnderstands` follows the
  key past this point for a client whose state was set.

Disagreements that the models show too, without a run of their own; the
properties above do not claim the opposite:

* Reports.  Client and listener number and lay out PlayerInGame, PlayerLogout
  and ServerStatus differently (`testutil/gsclient.go:433`, `:458`, `:484`;
  `gslistener/handler.go:68`): a player reported online is taken off, a player
  who left ends the connection, a status does so or sets other attributes, against
  `tests/integration/gslistener_test.go:186`.  `EnteringUnderstood` and
  `LeavingUnderstood` in `WireProofs` prove the first two.  What does hold: a
  report is never taken for one about another player (`NoOtherPlayer`).
* Ports from 32768 on.  The listener reads them, and the limit of players, as an
  int16, against `gslistener/clientpackets/game_server_auth.go:15-16`.
* Doubles.  ReadDouble converts the bits as an integer where WriteDouble copies
  them (`gameserver/packet/reader.go:75`, against `writer.go:82`).  What stands
  before and behind a double is read right (`ValuesComeBack`).
* The order of AuthLogin.  Reader and client have the play pair first,
  `docs/protocol/02-protocol-flows.md:109` the login pair.

Seen while modelling: `Close` alone does not stop an
accept loop, which goes on failing on the closed listener until the context is
cancelled (`login/server.go:176`; `CancelQuiesces` therefore starts from the
context); experience that overflows an int64 becomes
0; a heading above 32767 makes every save of the character fail; `Player` keeps
a level of its own beside `Character`'s.

### Bounds

* `LoginRelay`: two connections race to create an account, to replace each
  other's session and to overlap a removal; two keys are a superseded one and
  its successor; three accounts are one with a row or not, another one for
  interference, and a banned one.  Two relays race for a key.  `Keys` bounds the
  logins of a run.
* `GSListener`: three connections (two that race and one that reconnects), two
  secrets; ids 1 and 4, in and past the bitmap; alternates up to 2, so that they
  run out.  `Infos` bounds the registrations: a slot that finds no fresh info
  does not register.
* `Spawn`: maximum 2 (the smallest with two NPCs of one spawn), two killers, two
  executors, four NPC objects and two despawns.  Deadlock is not checked: the
  spawn system comes to rest once everything is spawned and nobody despawns, and
  a run whose NPC objects are used up stops at the template query.
* `Parts`, visibility: 4 x 3 regions of 4 x 4 units keep what matters of 160 x 241 of
  2048: negative coordinates, inner and edge regions, indices smaller than a
  region.  Two players, so that one is updated while the other waits; one place
  in the last region and one so far outside that even its index, taken for a
  coordinate, is outside (the nil region).  One object, at the upper edge of the
  first region, next to the origin; an object's id is used once.  In
  `VisibilityWindow` the object is beside the player.
* `Progress`, programs: two servers, because one that cannot listen must bring down
  another; one connection, on the first; two packets, the one a handler was
  already waiting for at the cancellation and one more.  Deadlock is not
  checked: a process that has exited is done.
* `Progress`, caches: the world and the players of `Parts`, but both players stay
  in the last region, where they see the object.  Session keys: one account and one
  password, licence and auto-creation off; the property is about relays and
  sessions only.
* `Parts`, table: two words of two bits give ids 0 (never searched), 1 (rest of
  the first word), 2 and 3 (second word) and 4 (no bit); three infos let ids run
  into both words and be reloaded; `maxID` takes every value including 0 and 4.
* `Parts`, codec: every sequence of at most three of eleven values (signs,
  carries between bytes, characters with a zero byte, a surrogate pair, the
  empty string), so that each read starts behind each other one.
* `Parts`, packets: the real lengths (moduli of 64 and 128 bytes, keys of 40);
  names at and past the 14 bytes of their field, keys with leading zeros,
  ports and limits on both sides of 32768; reports of players with names of
  several lengths, of no attribute and of one.  The client's state is CONNECTED
  or a later one; in `WireEntry` it is what the program sets, CONNECTED.
* `Parts`, frames: buffers of 40 bytes for the real ones of 512 and 1024;
  payloads below, at and above a block, the largest the buffer admits and one
  more; four values of a byte, so that sums differ and carry; three packets of
  the client, the change of key among them.
* `Parts`, RSA: six pairs of primes, p above and below q, every block of two
  digits below the modulus.
* `Parts`, characters and items: one stat (the three are treated alike), two
  levels, two calls beside the save under way; amounts below zero and above
  every maximum; the largest experience is 3, the largest count 3, so that sums
  wrap.  Four calls of an item's setters.
* `Parts`, AI: two controllers, toggles every 2 ticks, four ticks: two toggles
  and back.

### Fairness

`LoginRelay` assumes weak fairness of Store and Remove only: a goroutine inside
a handler is scheduled, and the handler waits for no peer between its steps.
Nothing is assumed of players, game servers or sweeps.  `Spawn` assumes it of
workers, of killers that have begun, and of the tick: goroutines are scheduled
and a `time.Ticker` fires.  Nobody has to despawn.  `Visibility` assumes it of
the tick, of the manager's goroutine and of the passing of time (`Age`); nobody
has to register, move or remove anything.  `Lifecycle` (`Scheduled`) assumes it
of main, of each manager's stop, of listening (which may succeed or fail), of
Serve's return, of the goroutines that close listener and socket, of the accept
loop and of each handler: goroutines that can run do.  Nothing is assumed of the
signal, of Close, of the peers, or of the port being free.  In `Progress` the fairness
of `Visibility` and `LoginRelay` holds throughout, because nothing it speaks of is
enabled in their initial states; that of `Lifecycle` holds while the programs are
what moves (`ScheduledHere`).

## 4. What is proved

All theorems hold for every value of the constants under the named assumptions
of the modules, which only say that null values are not real ones, that bounds
are natural numbers, that there are finitely many goroutines
(`SpawnAssumption`), that a server is not a manager (`ServersAssumption`), that
an exclusive or with the same word or byte undoes itself (`XorAssumption`,
`XorByteAssumption`), that a read
buffer is no shorter than a send buffer, as with the 512/512 and 1024/8192 bytes
of `constants/protocol.go:188-197` (`BuffersAssumption`), that a greeting fits a
send buffer (`GreetingsAssumption`), and that a value is one its type has in Go
(`ValuesAssumption`): a string has no null character, which would end it, and a
double is a whole number of at most 20 bits, the only ones the model encodes.
The primes are those a key may be made of (`PrimesAssumption`, section 2).
The assumptions of `Wire` say the same of what its packets carry: moduli have 64
and 128 bytes and keys 40 (`ModuliAssumption`, `KeysAssumption`), integers fit
their fields (`SessionsAssumption`, `SessionKeysAssumption`, `ServerListsAssumption`),
ports and limits are sixteen bits without a sign (`GameServersAssumption`), a
report's name has no null character and an attribute fits an int32
(`ReportsAssumption`), a client of the game server is CONNECTED or authenticated
(`ClientStatesAssumption`), and names and passwords typed by players are ASCII
(`CredentialsAssumption`), because their bytes are taken for characters.

* `LoginRelayProofs`.  The type invariant first, then an inductive invariant
  that ties the history to the program: which step a connection may be at in
  which state; a key in a session, at a connection or at a relay has the account
  it was drawn for; a connection about to store has a key that is not stored; a
  connection past its login has the password in the row; a relay about to remove
  holds a stored key that is still live, superseded or removed, never one that
  could come back.  From it follow `AuthenticatedByPassword`,
  `HandedOutKeyWasStored`, `SpentKeyStaysSpent`, `NoSecondAdmission` and
  `LostOnlyInRace`, and the step simulation of `TicketService`: Store is Issue,
  a successful Validate is Grant, Remove and the sweep's Delete are Withdraw,
  everything else stutters.
* `GSListenerProofs`.  For the table, the bitmap agrees with the map by induction
  over the operations, and `FirstFit` follows with the least-element argument
  for CHOOSE.  For the listener the table's invariant is carried along; the
  strengthening says that a connection holds an info exactly between Finalize
  and Cleanup, that the port is set before the flag, and where a flag may be
  set.  All safety invariants of the run follow, `NeverDisplaced` (no handler
  takes an id from the info that has it) as a step property, and on the way the
  listener's type invariant, which the run leaves to the proof.  With one more
  fact, that infos raced for are registered ones, comes the step simulation of
  `ServerRegistry`: Put under a free id is Claim, Finalize on the way of another
  connection to the same info is Race, FinalizeAuthed is Admit, Cleanup is Leave,
  everything else stutters.
* `VisibilityProofs`.  The type invariant needs that a window has each region
  once (`WindowUnique`), so that the scan counts an object at most twice.  The
  strengthening for the caches says that a player the manager still has, and who
  has left, is in `outrun`, and that a player of the copy who stayed put is
  still to come, is being updated with the right region, or is in place.
  `WindowTheorem` is arithmetic on each axis: a centre and a coordinate at most
  one region apart have quotients at most one apart.
* `SpawnProofs`.  None of the five invariants is inductive.  `WorkersInv` and
  `KillersInv` say what a goroutine knows at each label, and that no two of them
  work on one NPC; `PlacesInv` that an NPC is only in the places of its own
  spawn; `StagesInv` is the table of which of list, world, region, controllers
  and counters hold an NPC at each label.  `CountMatchesList` and
  `ControllersCounted` then are balances: each step moves one goroutine between
  two sets of labels, or one element in or out of a set, never one without the
  other (`WorkerBalance`, `KillerBalance`, over finite sets).  `NotOverfull`
  needs `FillInv`, a place for each attempt: the count, the killers about to
  schedule, the task that waits, the executors on their way and what SpawnAll has
  left to spawn never exceed the maximum of a spawn none of whose NPCs was
  `raced`, as long as SpawnAll runs once.
* `LifecycleProofs`.  `StartInv` fixes what run has done when a server listens,
  `PoolInv` who owns the pool at each place of main, `GroupInv` who can have
  cancelled the group's context when main leaves g.Wait, `WatchInv` and
  `LateInv` where a handler may be after the cancellation.
* `ActorProofs`.  `ItemsExact` needs `ReadsAreCurrent`, what an Update under way
  has read of an item nobody changed since; the arithmetic is
  `AcceptedSumIsExact`, for every width of a count.  `RowsMakePlayers` needs
  `StoreInv`: what an Update has read so far is the player's unless a setter came
  between (`ReadsStand`), a current value it has read is within its maximum as
  long as no maximum changed (`ReadsFit`), and the player of the last whole save
  is in bounds and is the row, but for the class (`StoredStands`).
  `TicksInStep` needs where the loop is (`StageInv`), what an
  Unregister in order leaves behind (`OvertakenInv`), and that the intention
  follows the parity of the number of toggles while a tick is between its count
  and its toggle (`ParityInv`), for every interval: `Toggle` is about quotients.

* `PacketProofs`, frames, from the bottom up.  Induction and recursion up to a bound
  (`AllUpTo`, `RecursionUpTo`, from the least element of a set of numbers); a
  word and its bytes determine each other, in any base; what `PutWords` writes is
  read back and nothing else changes.  Then `ChecksumVerifies`: behind
  AppendChecksum the sum is zero, whatever the buffer held.  `XorPassUndone`:
  DecXORPass recovers the accumulator that EncXORPass left behind the words and
  walks it back, so that every hidden word returns, for any key and length.
  `Sizes` and the lemmas on writers show that a frame is whole blocks within the
  buffer and zero behind the payload, and the lemmas on readers that each reader
  accepts what its writer makes.  The inductive invariant `FramingInv` says that
  each frame in flight is such a frame for the payload at its place, when an
  end's first packet is still to come, and which keys the frames are under: of a
  game server's, only its first is under the old key.
  `PayloadsArrive` and `NothingElseLeaves` follow.  Of the game protocol the theorem
  says nothing: its client's first packet is lost (`FramingGame`).
* `PacketProofs`, codec.  What each type's bytes are and that they spell the
  number (`ShortBack`, `IntBack`: two's complement).  A string is the bytes of
  units that spell its characters (`StringSpelled`), no unit of a character is
  null (`NoNull`), and what the decoder reads from such units are the characters
  (`RunesBack`, a surrogate pair being one: `PairBack`).  `GetPut` puts this
  together for one value of any type: the reader that stands before its bytes has
  read it, or, if the data end first, fails and stays there.  The inductive
  invariant `CodecInv` says that the values written lie in the packet one behind
  the other; `ReadsNext` follows a reader over such a packet, whole or cut before
  the end of its m-th value, and `ValuesComeBack` is both cases.
* `PacketProofs`, RSA.  Congruences and powers, as far as the rest needs them; then
  Fermat's little theorem (`Fermat`), from the binomial theorem: Pascal's triangle
  is a function on 0..p (`TriangleExists`), its inner entries of row p are
  multiples of p (`PrimeDivides`), so p-th powers of sums are sums of p-th powers
  (`PowerOfSum`).  `ExpIsPower` shows that squaring and multiplying computes the
  power's remainder.  Raising to e and to d comes back modulo each prime
  (`PowersUndone`), also for multiples of it; two numbers below p * q that agree
  modulo both primes are one (`TwoRemainders`), which is the plain way
  (`PlainUndoes`).  The other way takes the exponent's remainders
  (`RemainderUndoes`) and Garner's formula, whose difference may be negative
  (`GarnerUnites`).  `BlockOfNumber`: a number's digits, padded, spell it again, so
  leading zeros survive.  `GeneratedKey` derives what a key needs, the inverse of q
  modulo p too, from `PrimesAssumption`.  The inductive invariant `RsaInv` says
  that the block on the wire was made with the server's key from a number below
  its modulus; only with that does decryption give the block back.
* `WireProofs`.  `Has(d, p, b)`, the bytes b stand in d behind the first p, is
  what the lemmas speak in.  A field is read where its bytes stand (`IntAtHas`,
  `ReadsInt`, `ReadsString` and their like), at a fixed offset or behind the
  fields before it (`Append1` to `Append8`).  Then one lemma for each of the
  packets (`...IsRead`): whatever its writer was given, and whatever tail the
  frame adds, its reader makes that of it, a port the number of its sixteen bits
  (`SixteenBits`).  Of the reports two lemmas say what is claimed of them:
  PlayerInGame is heard as a logout of the same player (`EnteringUnderstood`),
  PlayerLogout is refused (`LeavingUnderstood`).  `InitIsRead` needs
  `ModulusComesBack`: each of the four exchanges of ScrambleModulus undoes itself,
  because its two ranges lie apart (`ExchangeTwice`), and the client makes them
  in the reverse order.  `PadSignificant` says which leading zeros the key of
  BlowFishKey may lose and that the pad puts back exactly those.
  For the prefixes, a reader of a prefix and one of the whole walk in step until
  the former fails, and then it stays failed (`Follower`, `FollowInt` to
  `FollowPairs`, the loops over names and pairs by `LoopExists` and `LoopOf`); so
  each of the nine parsers refuses a prefix or reads it as
  the whole (`WireCutNeverMisread`), of any bytes whatever.  The inductive
  invariant `WireInv` says of each turn what the packet under way will be read as
  and what was said and heard before it (`Stage`), and that what was heard is
  what was said (`Understood`), but for the reports and the registration's two
  numbers of sixteen bits.  That the session key comes back needs `LoggedIn` and `Admitted`: the client has one pair of the account's
  key from LoginOk and the other from PlayOk, and AuthLogin and PlayerAuthRequest
  put the two together again in another order (`AdmittedKey`).

Only model-checked: `AdmittedKeyDies`, `RemovedFades`, `ProgramStops` and
`CancelQuiesces` (liveness under fairness is out of the prover's reach, as is
ENABLED), and the seven violations, which are counterexamples.  Every other
property of a run is a theorem. The library's induction theorems take an operator
as a parameter, which no installed prover can instantiate; `PacketProofs` does
without them where a function is recursive on 0..n (`AllUpTo`, `RecursionUpTo`).
No module declares a RECURSIVE operator.

## 5. Not modelled

* The simple spawner, a demonstration that main calls once when there are no
  spawns: it bypasses the spawn's count and list, and nothing despawns what it
  made.
* Objects that change their location while they are in a region: RemoveObject
  finds the region by the location at that moment (`world/world.go:112`), and
  nothing in the repository moves one.
* The listener's status after a reconnection (`gslistener/handler.go:218`), which
  nothing reads.
* Configuration, constants, rendering of the server list from the configuration,
  logging.
* The repositories of NPC templates and spawns, which only read tables nothing
  writes but their own Create; Monster, NpcTemplate and Intention, which are
  values; `UpdateLastLogin`, attributes of a game server other than its status
  and `Count` accessors, which change nothing that others read.
* Blowfish itself, a library: the chance of 2^-32 that a frame under a wrong key
  passes the sum is left out, too.
* Mocks.

Three of the listed hazards have no property, because the code promises nothing
there: alternate ids that run out, a second despawn of one NPC, and a respawn
dropped after a failed query; `PROJECT.json` says why for each.

## 6. Plan

Done: `LoginRelay` over `TicketService`; `GameServerTable`, and `GSListener` over
`ServerRegistry`;
`Spawn`; `World` and `Visibility`; `AITick`; `Lifecycle`; codec, packets, frames
and RSA; characters and items; the proofs of all safety properties.  Next, most
important first:

1. A bounded pool of NPCs that `Spawn` implements.
2. Objects that move, as soon as something in the repository moves them.
