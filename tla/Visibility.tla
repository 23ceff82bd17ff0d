------------------------------ MODULE Visibility ------------------------------
(***************************************************************************)
(* world.VisibilityManager and the visibility caches of the players.       *)
(*                                                                         *)
(* One goroutine runs Start and, at each tick, UpdateAll over a copy of    *)
(* the registered players.  Meanwhile players register, unregister and     *)
(* move, objects come and go, and caches grow old.  An access to the       *)
(* manager's map, to a player's location or cache, or the iteration over a *)
(* region is a step.  (Regions are iterated object by object; what is      *)
(* stated here is about one object at a time.)                             *)
(***************************************************************************)
EXTENDS World, FiniteSets

CONSTANTS
    Players, Objects,
    Positions,    \* coordinates players can be at
    Spot,         \* Spot[o]: coordinates of object o, which does not move
    NoPlayer, NoCache

ASSUME VisibilityAssumption ==
    /\ Positions \subseteq Int \X Int
    /\ Spot \in [Objects -> Int \X Int]
    /\ NoPlayer \notin Players
    /\ NoCache \notin [region : Int \X Int, shown : [Objects -> 0 .. 2]]

IndexOf(place) == CoordToRegionIndex(place[1], place[2])
RegionAt(place) == GetRegion(place[1], place[2])

VARIABLES
    visible,    \* objects in their region's visibleObjects
    added,      \* objects that were ever added: an object id is used once
    loc,        \* Player.location
    players,    \* VisibilityManager.players
    cache,      \* Player.visibilityCache
    fresh,      \* players with a cache that is not older than maxAge
    mpc,        \* where the manager's goroutine is
    todo,       \* rest of UpdateAll's copy of the players
    viewer,     \* the player whose cache is updated
    region,     \* the index computed from that player's location
    next,       \* position in the scan: 0 for the region, then its window
    found       \* found[o]: how often o was collected so far

\* What happened so far; no guard reads these.
VARIABLES
    steady,     \* objects visible ever since the update of player began
    calm,       \* of the players copied at the tick, those who stayed put
    settled,    \* players in place since before a complete pass
    outrun      \* players unregistered while an update still had them

worldVars   == <<visible, added>>
playerVars  == <<loc, players, cache, fresh>>
updateVars  == <<mpc, todo, viewer, region, next, found>>
historyVars == <<steady, calm, settled, outrun>>
visibilityVars == <<worldVars, playerVars, updateVars, historyVars>>

NoneFound == [o \in Objects |-> 0]
Home    == IndexOf(<<0, 0>>)

VisibilityInit ==
    /\ visible = {} /\ added = {}
    /\ loc \in [Players -> Positions]
    /\ players = {}
    /\ cache = [p \in Players |-> NoCache]
    /\ fresh = {}
    /\ mpc = "idle" /\ todo = {} /\ viewer = NoPlayer
    /\ region = Home /\ next = 0 /\ found = NoneFound
    /\ steady = {} /\ calm = {} /\ settled = {} /\ outrun = {}
-----------------------------------------------------------------------------
(***************************************************************************)
(* The world and the players.                                              *)
(***************************************************************************)
AddObject(o) ==
    /\ o \notin added /\ RegionAt(Spot[o]) # NoRegion
    /\ visible' = visible \cup {o}
    /\ added' = added \cup {o}
    /\ UNCHANGED <<playerVars, updateVars, historyVars>>

RemoveObject(o) ==
    /\ o \in visible
    /\ visible' = visible \ {o}
    /\ steady' = steady \ {o}
    /\ UNCHANGED <<added, playerVars, updateVars, calm, settled, outrun>>

RegisterPlayer(p) ==
    /\ players' = players \cup {p}
    /\ UNCHANGED <<worldVars, loc, cache, fresh, updateVars, historyVars>>

\* Changed form, for the checks of the properties: the cache is not invalidated.
UnregisterOnly(p) ==
    /\ players' = players \ {p}
    /\ calm' = calm \ {p} /\ settled' = settled \ {p}
    /\ outrun' = IF p \in todo \cup {viewer} THEN outrun \cup {p} ELSE outrun \ {p}
    /\ UNCHANGED <<worldVars, loc, cache, fresh, updateVars, steady>>

\* Under the manager's lock, which the update of a cache does not take.
UnregisterPlayer(p) ==
    /\ players' = players \ {p}
    /\ cache' = [cache EXCEPT ![p] = NoCache]
    /\ fresh' = fresh \ {p}
    /\ calm' = calm \ {p} /\ settled' = settled \ {p}
    /\ outrun' = IF p \in todo \cup {viewer} THEN outrun \cup {p} ELSE outrun \ {p}
    /\ UNCHANGED <<worldVars, loc, updateVars, steady>>

\* Player.SetLocation, which leaves the cache alone.
Move(p, place) ==
    /\ loc' = [loc EXCEPT ![p] = place]
    /\ IF IndexOf(place) = IndexOf(loc[p])
       THEN UNCHANGED <<calm, settled>>
       ELSE calm' = calm \ {p} /\ settled' = settled \ {p}
    /\ UNCHANGED <<worldVars, players, cache, fresh, updateVars, steady, outrun>>

\* maxAge has passed since lastUpdate.
Age(p) ==
    /\ p \in fresh
    /\ fresh' = fresh \ {p}
    /\ UNCHANGED <<worldVars, loc, players, cache, updateVars, historyVars>>
-----------------------------------------------------------------------------
(***************************************************************************)
(* Start, UpdateAll and updatePlayerCache.                                 *)
(***************************************************************************)
\* A tick: the players are copied under the lock.
Tick ==
    /\ mpc = "idle" /\ players # {}
    /\ mpc' = "next"
    /\ todo' = players
    /\ calm' = players
    /\ UNCHANGED <<worldVars, playerVars, viewer, region, next, found,
                   steady, settled, outrun>>

EndUpdate ==
    /\ mpc = "next" /\ todo = {}
    /\ mpc' = "idle"
    /\ settled' = settled \cup calm
    /\ calm' = {}
    /\ UNCHANGED <<worldVars, playerVars, todo, viewer, region, next, found,
                   steady, outrun>>

\* The context is cancelled.
Stop ==
    /\ mpc = "idle"
    /\ mpc' = "stopped"
    /\ UNCHANGED <<worldVars, playerVars, todo, viewer, region, next, found, historyVars>>

Locate(p) ==
    /\ mpc = "next" /\ p \in todo
    /\ mpc' = "located"
    /\ todo' = todo \ {p}
    /\ viewer' = p
    /\ region' = IndexOf(loc[p])
    /\ UNCHANGED <<worldVars, playerVars, next, found, historyVars>>

\* Changed form, for the checks of the properties: the region, or the age, is not
\* looked at.
UpToDateIfFresh(p)  == cache[p] # NoCache /\ p \in fresh
UpToDateIfInPlace(p) == cache[p] # NoCache /\ cache[p].region = region

UpToDate(p) == cache[p] # NoCache /\ p \in fresh /\ cache[p].region = region

\* updatePlayerCache returns and its locals are gone.
EndOne ==
    /\ mpc' = "next"
    /\ viewer' = NoPlayer
    /\ region' = Home /\ next' = 0 /\ found' = NoneFound
    /\ steady' = {}

\* A fresh cache for the same region is kept.
Skip ==
    /\ mpc = "located" /\ UpToDate(viewer)
    /\ EndOne
    /\ UNCHANGED <<worldVars, playerVars, todo, calm, settled, outrun>>

\* getVisibleObjects looks the region up with GetRegion, which takes
\* coordinates, and hands it the region's indices.
Centre == GetRegion(region[1], region[2])

Collect ==
    /\ mpc = "located" /\ ~ UpToDate(viewer)
    /\ mpc' = IF Centre = NoRegion THEN "store" ELSE "scan"
    /\ next' = 0
    /\ found' = NoneFound
    /\ steady' = visible
    /\ UNCHANGED <<worldVars, playerVars, todo, viewer, region, calm, settled, outrun>>

\* Changed form, for the checks of the properties: one position too far.
ScanPast ==
    /\ mpc = "scan"
    /\ LET here == IF next = 0 THEN Centre ELSE Neighbour(Centre, next - 1)
       IN  found' = [o \in Objects |->
                        IF o \in visible /\ RegionAt(Spot[o]) = here
                        THEN found[o] + 1 ELSE found[o]]
    /\ next' = next + 1
    /\ mpc' = IF next = 10 THEN "store" ELSE "scan"
    /\ UNCHANGED <<worldVars, playerVars, todo, viewer, region, historyVars>>

\* One region: the central one, then the nine of its window.
Scan ==
    /\ mpc = "scan"
    /\ LET here == IF next = 0 THEN Centre ELSE Neighbour(Centre, next - 1)
       IN  found' = [o \in Objects |->
                        IF o \in visible /\ RegionAt(Spot[o]) = here
                        THEN found[o] + 1 ELSE found[o]]
    /\ next' = next + 1
    /\ mpc' = IF next = 9 THEN "store" ELSE "scan"
    /\ UNCHANGED <<worldVars, playerVars, todo, viewer, region, historyVars>>

\* SetVisibilityCache, whoever unregistered or moved meanwhile.
Store ==
    /\ mpc = "store"
    /\ cache' = [cache EXCEPT ![viewer] = [region |-> region, shown |-> found]]
    /\ fresh' = fresh \cup {viewer}
    /\ EndOne
    /\ UNCHANGED <<worldVars, loc, players, todo, calm, settled, outrun>>
-----------------------------------------------------------------------------
UpdateAll ==
    \/ EndUpdate
    \/ \E p \in Players : Locate(p)
    \/ Skip \/ Collect \/ Scan \/ Store

VisibilityNext ==
    \/ \E o \in Objects : AddObject(o) \/ RemoveObject(o)
    \/ \E p \in Players : RegisterPlayer(p) \/ UnregisterPlayer(p) \/ Age(p)
    \/ \E p \in Players, place \in Positions : Move(p, place)
    \/ Tick \/ Stop
    \/ UpdateAll

\* The manager's goroutine is scheduled, its ticker fires and time passes.
Fairness == /\ WF_visibilityVars(Tick) /\ WF_visibilityVars(UpdateAll)
            /\ \A p \in Players : WF_visibilityVars(Age(p))

VisibilitySpec == VisibilityInit /\ [][VisibilityNext]_visibilityVars /\ Fairness
-----------------------------------------------------------------------------
Indices == {IndexOf(place) : place \in Positions \cup {<<0, 0>>}}

VisibilityTypeOK ==
    /\ visible \subseteq added /\ added \subseteq Objects
    /\ loc \in [Players -> Positions]
    /\ players \subseteq Players
    /\ cache \in [Players -> [region : Indices, shown : [Objects -> 0 .. 2]] \cup {NoCache}]
    /\ fresh \subseteq {p \in Players : cache[p] # NoCache}
    /\ mpc \in {"idle", "next", "located", "scan", "store", "stopped"}
    /\ todo \subseteq Players
    /\ viewer \in Players \cup {NoPlayer}
    /\ viewer # NoPlayer <=> mpc \in {"located", "scan", "store"}
    /\ region \in Indices
    /\ next \in 0 .. 10
    /\ found \in [Objects -> 0 .. 2]
    /\ steady \subseteq visible
    /\ calm \subseteq players /\ settled \subseteq players
    /\ outrun \subseteq Players

\* UnregisterPlayer invalidates the cache: an unregistered player has one
\* only if an update that still had the player in its copy overtook the call.
CacheOnlyIfRaced ==
    \A p \in Players \ players : cache[p] # NoCache => p \in outrun

\* A player who was registered and did not change region during a complete
\* pass has a cache stamped with that region, whatever happened before the
\* pass and whether the pass updated the cache or found it fresh.
FollowsWithinAPass ==
    \A p \in settled : cache[p] # NoCache /\ cache[p].region = IndexOf(loc[p])

\* ForEachVisibleObject, asked from the centre of a region, visits each
\* object at most once, at every edge of the grid; it visits those up to a
\* region's length away in x and y, and none more than 3/2 of it away.
WindowExact ==
    \A r \in Regions, o \in visible :
        LET place    == RegionIndexToCoord(r)
            visits   == Visits(RegionAt(place), RegionAt(Spot[o]))
            Apart(i) == IF place[i] > Spot[o][i] THEN place[i] - Spot[o][i]
                                                 ELSE Spot[o][i] - place[i]
        IN  /\ Cardinality(visits) <= 1
            /\ Apart(1) <= RegionSize /\ Apart(2) <= RegionSize => visits # {}
            /\ visits # {} => 2 * Apart(1) <= 3 * RegionSize /\ 2 * Apart(2) <= 3 * RegionSize

\* "getVisibleObjects collects all visible objects from current +
\* surrounding regions": those that stay visible during the whole scan.
CollectsWindow ==
    mpc = "store" =>
        \A o \in steady :
            region \in Regions /\ InWindow(region, RegionAt(Spot[o])) => found[o] > 0

\* An object that was removed from the world disappears from the cache of a
\* registered player, unless the manager stops or the player leaves.
RemovedFades ==
    \A p \in Players, o \in Objects :
        (o \in added \ visible) ~>
            \/ cache[p] = NoCache \/ cache[p].shown[o] = 0
            \/ p \notin players \/ mpc = "stopped"
=============================================================================
