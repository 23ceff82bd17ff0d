--------------------------- MODULE VisibilityProofs ---------------------------
(***************************************************************************)
(* Proofs about Visibility, for any grid, players, objects and places.     *)
(***************************************************************************)
EXTENDS Visibility, FiniteSetTheorems, TLAPS

\* Regions of the window that the scan has been to.
Visited(o) == \E k \in 0 .. next - 2 : Neighbour(Centre, k) = RegionAt(Spot[o])

\* What was collected: once at the central region, once in its window.
FoundBound ==
    /\ next = 0 => found = NoneFound
    /\ \A o \in Objects : found[o] <= (IF Visited(o) THEN 2 ELSE 1)
    /\ mpc \in {"idle", "next", "located", "stopped"} => next = 0
    /\ mpc = "scan" => next \in 0 .. 9 /\ Centre # NoRegion

\* A player whom the manager still has, and who has unregistered, is known.
OvertakenInv ==
    \A p \in Players \ players :
        cache[p] # NoCache \/ p \in todo \cup {viewer} => p \in outrun

InPlace(p) == cache[p] # NoCache /\ cache[p].region = IndexOf(loc[p])

\* The update works with the region of a player who has stayed put, and in
\* the end each of those copied at the tick is in place.
FollowInv ==
    /\ \A p \in calm \cup settled : p = viewer => region = IndexOf(loc[p])
    /\ \A p \in settled : InPlace(p)
    /\ \A p \in calm : p \in todo \cup {viewer} \/ InPlace(p)

IInv == VisibilityTypeOK /\ FoundBound /\ OvertakenInv /\ FollowInv
-----------------------------------------------------------------------------
LEMMA IndexType == \A x, y \in Int : CoordToRegionIndex(x, y) \in Int \X Int
BY WorldAssumption DEF CoordToRegionIndex

LEMMA IndicesType == Indices \subseteq Int \X Int
<1>1. ASSUME NEW place \in Int \X Int PROVE IndexOf(place) \in Int \X Int
  BY IndexType DEF IndexOf
<1>2. Positions \cup {<<0, 0>>} \subseteq Int \X Int
  BY VisibilityAssumption
<1> QED
  BY <1>1, <1>2 DEF Indices

LEMMA HomeIsIndex == Home \in Indices
BY DEF Home, Indices

\* No region is at two positions of a window.
LEMMA WindowUnique ==
    ASSUME NEW r \in Int \X Int, NEW j \in 0 .. 8, NEW k \in 0 .. 8,
           Neighbour(r, j) = Neighbour(r, k)
    PROVE  j = k
<1>1. j \div 3 = k \div 3 /\ j % 3 = k % 3
  BY DEF Neighbour
<1>2. j = 3 * (j \div 3) + (j % 3) /\ k = 3 * (k \div 3) + (k % 3)
  OBVIOUS
<1> QED
  BY <1>1, <1>2

LEMMA CacheIsNot ==
    ASSUME NEW r \in Indices, NEW f \in [Objects -> 0 .. 2]
    PROVE  [region |-> r, shown |-> f] # NoCache
BY IndicesType, VisibilityAssumption
-----------------------------------------------------------------------------
LEMMA InitInv == VisibilityInit => IInv
<1> SUFFICES ASSUME VisibilityInit PROVE IInv
  OBVIOUS
<1> USE DEF VisibilityInit
<1>1. VisibilityTypeOK
  BY HomeIsIndex, VisibilityAssumption DEF VisibilityTypeOK, NoneFound
<1>2. FoundBound
  BY DEF FoundBound, NoneFound
<1>3. OvertakenInv /\ FollowInv
  BY VisibilityAssumption DEF OvertakenInv, FollowInv
<1> QED
  BY <1>1, <1>2, <1>3 DEF IInv

\* A step of the scan collects an object for the second time only in the
\* window, and for the last time.
LEMMA ScanBound ==
    ASSUME VisibilityTypeOK, FoundBound, Scan
    PROVE  found' \in [Objects -> 0 .. 2] /\ FoundBound'
<1> USE DEF Scan
<1>1. /\ next \in 0 .. 9 /\ next' = next + 1
      /\ mpc' = "scan" => next' \in 0 .. 9
      /\ found \in [Objects -> 0 .. 2]
  BY DEF VisibilityTypeOK, FoundBound
<1>2. Centre' = Centre /\ Centre \in Int \X Int
  BY DEF FoundBound, Centre, GetRegion, IsValidRegionIndex, Regions, updateVars
<1>3. ASSUME NEW o \in Objects
      PROVE  found'[o] \in 0 .. 2 /\ found'[o] <= (IF Visited(o)' THEN 2 ELSE 1)
  <2> DEFINE home == RegionAt(Spot[o])
  <2>1. CASE next = 0
    BY <2>1, <1>1, <1>3 DEF FoundBound, NoneFound
  <2>2. CASE next # 0 /\ Neighbour(Centre, next - 1) = home
    <3>1. ~ Visited(o)
      BY <2>2, <1>1, <1>2, WindowUnique DEF Visited
    <3>2. Visited(o)'
      BY <2>2, <1>1, <1>2 DEF Visited
    <3>3. found[o] \in 0 .. 1
      BY <3>1, <1>1 DEF FoundBound
    <3> QED
      BY <3>2, <3>3
  <2>3. CASE next # 0 /\ Neighbour(Centre, next - 1) # home
    <3>1. found'[o] = found[o]
      BY <2>3, <1>3, <1>1
    <3>2. Visited(o) => Visited(o)'
      BY <1>1, <1>2 DEF Visited
    <3> QED
      BY <3>1, <3>2, <1>1 DEF FoundBound
  <2> QED
    BY <2>1, <2>2, <2>3
<1> QED
  BY <1>1, <1>2, <1>3 DEF FoundBound

LEMMA TypeStep == IInv /\ [VisibilityNext]_visibilityVars => (VisibilityTypeOK /\ FoundBound)'
<1> SUFFICES ASSUME VisibilityTypeOK, FoundBound, [VisibilityNext]_visibilityVars PROVE (VisibilityTypeOK /\ FoundBound)'
  BY DEF IInv
<1> USE VisibilityAssumption DEF VisibilityTypeOK
<1> DEFINE SameScan == UNCHANGED <<mpc, region, next, found>>
<1>a. SameScan => FoundBound'
  BY DEF FoundBound, Visited, Centre
<1>b. EndOne => FoundBound' /\ found' \in [Objects -> 0 .. 2] /\ region' \in Indices
  BY HomeIsIndex DEF EndOne, FoundBound, NoneFound
<1>1. ASSUME NEW o \in Objects, AddObject(o) \/ RemoveObject(o) PROVE (VisibilityTypeOK /\ FoundBound)'
  BY <1>1, <1>a DEF AddObject, RemoveObject, playerVars, updateVars, historyVars
<1>2. ASSUME NEW p \in Players, RegisterPlayer(p) \/ UnregisterPlayer(p) \/ Age(p)
      PROVE  (VisibilityTypeOK /\ FoundBound)'
  <2>1. CASE RegisterPlayer(p)
    BY <2>1, <1>a DEF RegisterPlayer, worldVars, updateVars, historyVars
  <2>2. CASE UnregisterPlayer(p)
    BY <2>2, <1>a DEF UnregisterPlayer, worldVars, updateVars
  <2>3. CASE Age(p)
    BY <2>3, <1>a DEF Age, worldVars, updateVars, historyVars
  <2> QED
    BY <1>2, <2>1, <2>2, <2>3
<1>3. ASSUME NEW p \in Players, NEW place \in Positions, Move(p, place) PROVE (VisibilityTypeOK /\ FoundBound)'
  BY <1>3, <1>a DEF Move, worldVars, updateVars
<1>4. CASE Tick
  BY <1>4 DEF Tick, worldVars, playerVars, FoundBound, Visited, Centre
<1>5. CASE Stop
  BY <1>5 DEF Stop, worldVars, playerVars, historyVars, FoundBound, Visited, Centre
<1>6. CASE EndUpdate
  BY <1>6 DEF EndUpdate, worldVars, playerVars, FoundBound, Visited, Centre
<1>7. ASSUME NEW p \in Players, Locate(p) PROVE (VisibilityTypeOK /\ FoundBound)'
  <2>1. region' \in Indices
    BY <1>7 DEF Locate, Indices
  <2>2. next = 0 /\ found = NoneFound
    BY <1>7 DEF Locate, FoundBound
  <2> QED
    BY <1>7, <2>1, <2>2 DEF Locate, worldVars, playerVars, historyVars, FoundBound, NoneFound
<1>8. CASE Skip
  BY <1>8, <1>b DEF Skip, EndOne, worldVars, playerVars
<1>9. CASE Collect
  BY <1>9 DEF Collect, worldVars, playerVars, FoundBound, NoneFound, Centre
<1>10. CASE Scan
  BY <1>10, ScanBound DEF Scan, FoundBound, worldVars, playerVars, historyVars
<1>11. CASE Store
  BY <1>11, <1>b, CacheIsNot DEF Store, EndOne, worldVars
<1>12. CASE UNCHANGED visibilityVars
  BY <1>12, <1>a DEF visibilityVars, worldVars, playerVars, updateVars, historyVars
<1> QED
  BY <1>1, <1>2, <1>3, <1>4, <1>5, <1>6, <1>7, <1>8, <1>9, <1>10, <1>11, <1>12 DEF VisibilityNext, UpdateAll
-----------------------------------------------------------------------------
LEMMA OvertakenStep == IInv /\ [VisibilityNext]_visibilityVars => OvertakenInv'
<1> SUFFICES ASSUME VisibilityTypeOK, OvertakenInv, [VisibilityNext]_visibilityVars PROVE OvertakenInv'
  BY DEF IInv
<1> USE VisibilityAssumption DEF OvertakenInv
<1>1. ASSUME NEW o \in Objects, AddObject(o) \/ RemoveObject(o) PROVE OvertakenInv'
  BY <1>1 DEF AddObject, RemoveObject, playerVars, updateVars, historyVars
<1>2. ASSUME NEW p \in Players, RegisterPlayer(p) PROVE OvertakenInv'
  BY <1>2 DEF RegisterPlayer, updateVars, historyVars
<1>3. ASSUME NEW p \in Players, UnregisterPlayer(p) PROVE OvertakenInv'
  BY <1>3 DEF UnregisterPlayer, updateVars, VisibilityTypeOK
<1>4. ASSUME NEW p \in Players, Age(p) \/ \E place \in Positions : Move(p, place)
      PROVE  OvertakenInv'
  BY <1>4 DEF Age, Move, updateVars, historyVars
<1>5. CASE Tick
  BY <1>5 DEF Tick, playerVars, VisibilityTypeOK
<1>6. CASE Stop \/ EndUpdate
  BY <1>6 DEF Stop, EndUpdate, playerVars, historyVars
<1>7. ASSUME NEW p \in Players, Locate(p) PROVE OvertakenInv'
  BY <1>7 DEF Locate, playerVars, historyVars
<1>8. CASE Skip \/ Collect \/ Scan
  BY <1>8 DEF Skip, Collect, Scan, EndOne, playerVars, historyVars
<1>9. CASE Store
  BY <1>9 DEF Store, EndOne, VisibilityTypeOK
<1>10. CASE UNCHANGED visibilityVars
  BY <1>10 DEF visibilityVars, playerVars, updateVars, historyVars
<1> QED
  BY <1>1, <1>2, <1>3, <1>4, <1>5, <1>6, <1>7, <1>8, <1>9, <1>10 DEF VisibilityNext, UpdateAll

LEMMA FollowStep == IInv /\ [VisibilityNext]_visibilityVars => FollowInv'
<1> SUFFICES ASSUME VisibilityTypeOK, FollowInv, [VisibilityNext]_visibilityVars PROVE FollowInv'
  BY DEF IInv
<1> USE VisibilityAssumption DEF FollowInv, InPlace
<1>1. ASSUME NEW o \in Objects, AddObject(o) \/ RemoveObject(o) PROVE FollowInv'
  BY <1>1 DEF AddObject, RemoveObject, playerVars, updateVars, historyVars
<1>2. ASSUME NEW p \in Players, RegisterPlayer(p) \/ Age(p) PROVE FollowInv'
  BY <1>2 DEF RegisterPlayer, Age, updateVars, historyVars
<1>3. ASSUME NEW p \in Players, UnregisterPlayer(p) PROVE FollowInv'
  BY <1>3 DEF UnregisterPlayer, updateVars, VisibilityTypeOK
<1>4. ASSUME NEW p \in Players, NEW place \in Positions, Move(p, place) PROVE FollowInv'
  <2>1. ASSUME NEW q \in calm' \cup settled' PROVE IndexOf(loc'[q]) = IndexOf(loc[q])
    BY <1>4, <2>1 DEF Move, VisibilityTypeOK
  <2> QED
    BY <1>4, <2>1 DEF Move, updateVars
<1>5. CASE Tick
  BY <1>5 DEF Tick, playerVars, VisibilityTypeOK
<1>6. CASE Stop
  BY <1>6 DEF Stop, playerVars, historyVars
<1>7. CASE EndUpdate
  BY <1>7 DEF EndUpdate, playerVars, VisibilityTypeOK
<1>8. ASSUME NEW p \in Players, Locate(p) PROVE FollowInv'
  BY <1>8 DEF Locate, playerVars, historyVars, VisibilityTypeOK
<1>9. CASE Skip
  BY <1>9 DEF Skip, EndOne, UpToDate, playerVars, VisibilityTypeOK
<1>10. CASE Collect \/ Scan
  BY <1>10 DEF Collect, Scan, playerVars, historyVars
<1>11. CASE Store
  <2>1. viewer \in Players /\ cache'[viewer].region = region /\ cache'[viewer] # NoCache
    BY <1>11, CacheIsNot DEF Store, VisibilityTypeOK
  <2>2. viewer' = NoPlayer /\ \A p \in Players \ {viewer} : cache'[p] = cache[p]
    BY <1>11 DEF Store, EndOne, VisibilityTypeOK
  <2>3. UNCHANGED <<loc, todo, calm, settled>>
    BY <1>11 DEF Store
  <2> QED
    BY <2>1, <2>2, <2>3 DEF VisibilityTypeOK
<1>12. CASE UNCHANGED visibilityVars
  BY <1>12 DEF visibilityVars, playerVars, updateVars, historyVars
<1> QED
  BY <1>1, <1>2, <1>3, <1>4, <1>5, <1>6, <1>7, <1>8, <1>9, <1>10, <1>11, <1>12 DEF VisibilityNext, UpdateAll

LEMMA Inductive == VisibilitySpec => []IInv
<1>1. IInv /\ [VisibilityNext]_visibilityVars => IInv'
  BY TypeStep, OvertakenStep, FollowStep DEF IInv
<1> QED
  BY InitInv, <1>1, PTL DEF VisibilitySpec
-----------------------------------------------------------------------------
\* Every reachable state is well typed; in particular the two passes over
\* the central region collect no object more than twice.
THEOREM TypeCorrect == VisibilitySpec => []VisibilityTypeOK
<1>1. IInv => VisibilityTypeOK
  BY DEF IInv
<1> QED
  BY Inductive, <1>1, PTL

\* UnregisterPlayer leaves no cache behind, for any number of players, but
\* where an update that had begun overtakes it.
THEOREM CacheOnlyIfRacedTheorem == VisibilitySpec => []CacheOnlyIfRaced
<1>1. IInv => CacheOnlyIfRaced
  BY DEF IInv, OvertakenInv, CacheOnlyIfRaced
<1> QED
  BY Inductive, <1>1, PTL

\* One complete pass is enough for the cache of a player who stays put.
THEOREM FollowsWithinAPassTheorem == VisibilitySpec => []FollowsWithinAPass
<1>1. IInv => FollowsWithinAPass
  BY DEF IInv, FollowInv, InPlace, FollowsWithinAPass
<1> QED
  BY Inductive, <1>1, PTL

LEMMA SmallQuotient ==
    ASSUME NEW n \in Nat, n < RegionSize
    PROVE  n \div RegionSize = 0
BY WorldAssumption

\* For every grid whose indices are smaller than a region: the region that
\* getVisibleObjects starts from is the one of the origin, wherever in the
\* grid the player is, because it takes region indices for coordinates.
THEOREM CentreIsHome == region \in Regions => Centre = Home /\ Home = <<OffsetX, OffsetY>>
<1> SUFFICES ASSUME region \in Regions PROVE Centre = Home /\ Home = <<OffsetX, OffsetY>>
  OBVIOUS
<1>1. /\ region[1] \in Nat /\ region[1] < RegionSize
      /\ region[2] \in Nat /\ region[2] < RegionSize
  BY WorldAssumption DEF Regions
<1>2. region[1] \div RegionSize = 0 /\ region[2] \div RegionSize = 0 /\ 0 \div RegionSize = 0
  BY <1>1, SmallQuotient, WorldAssumption
<1>3. <<OffsetX, OffsetY>> \in Regions /\ 0 + OffsetX = OffsetX /\ 0 + OffsetY = OffsetY
  BY WorldAssumption DEF Regions
<1> QED
  BY <1>2, <1>3 DEF Centre, Home, IndexOf, GetRegion, CoordToRegionIndex, IsValidRegionIndex
-----------------------------------------------------------------------------
(***************************************************************************)
(* The window on each axis, and on both.                                   *)
(***************************************************************************)
Distance(a, b) == IF a > b THEN a - b ELSE b - a

LEMMA ProductMonotone ==
    ASSUME NEW a \in Int, NEW b \in Int, a <= b
    PROVE  a * RegionSize <= b * RegionSize
BY WorldAssumption

LEMMA QuotientBounds ==
    ASSUME NEW x \in Int
    PROVE  /\ x \div RegionSize \in Int
           /\ (x \div RegionSize) * RegionSize <= x
           /\ x < (x \div RegionSize) * RegionSize + RegionSize
BY WorldAssumption

LEMMA HalfBounds ==
    /\ RegionSize \in Nat \ {0}
    /\ RegionSize \div 2 \in Nat
    /\ 2 * (RegionSize \div 2) <= RegionSize
    /\ RegionSize <= 2 * (RegionSize \div 2) + 1
BY WorldAssumption

\* The centre of the d-th region (counted from the origin) and x.
LEMMA Axis ==
    ASSUME NEW d \in Int, NEW x \in Int
    PROVE  LET c == d * RegionSize + (RegionSize \div 2)
               q == x \div RegionSize
           IN  /\ c \div RegionSize = d
               /\ Distance(c, x) <= RegionSize => d - q \in -1 .. 1
               /\ d - q \in -1 .. 1 => 2 * Distance(c, x) <= 3 * RegionSize
<1> DEFINE n == RegionSize
           h == RegionSize \div 2
           c == d * n + h
           q == x \div n
<1>1. /\ n \in Nat \ {0} /\ h \in Nat /\ 2 * h <= n /\ n <= 2 * h + 1
      /\ q \in Int /\ q * n \in Int /\ d * n \in Int /\ c \in Int
      /\ q * n <= x /\ x < q * n + n
  BY HalfBounds, QuotientBounds
<1>2. c \div n = d
  <2>1. /\ c \div n \in Int /\ (c \div n) * n \in Int
        /\ (c \div n) * n <= c /\ c < (c \div n) * n + n
    BY <1>1, QuotientBounds
  <2>2. ASSUME c \div n >= d + 1 PROVE FALSE
    <3>1. (d + 1) * n <= (c \div n) * n
      BY <2>1, <2>2, ProductMonotone
    <3>2. (d + 1) * n = d * n + n
      BY <1>1
    <3> HIDE DEF n, h
    <3> QED
      BY <1>1, <2>1, <3>1, <3>2
  <2>3. ASSUME c \div n <= d - 1 PROVE FALSE
    <3>1. (c \div n) * n <= (d - 1) * n
      BY <2>1, <2>3, ProductMonotone
    <3>2. (d - 1) * n = d * n - n
      BY <1>1
    <3> HIDE DEF n, h
    <3> QED
      BY <1>1, <2>1, <3>1, <3>2
  <2> HIDE DEF c, n
  <2> QED
    BY <2>1, <2>2, <2>3
<1>3. /\ d - q >= 2 => d * n >= q * n + 2 * n
      /\ d - q <= -2 => d * n <= q * n - 2 * n
      /\ d - q = 1 => d * n = q * n + n
      /\ d - q = 0 => d * n = q * n
      /\ d - q = -1 => d * n = q * n - n
  <2>1. (q + 2) * n = q * n + 2 * n /\ (q - 2) * n = q * n - 2 * n
    BY <1>1
  <2>2. (q + 1) * n = q * n + n /\ (q - 1) * n = q * n - n
    BY <1>1
  <2>3. d - q >= 2 => (q + 2) * n <= d * n
    BY <1>1, ProductMonotone
  <2>4. d - q <= -2 => d * n <= (q - 2) * n
    BY <1>1, ProductMonotone
  <2>5. (d - q = 1 => d = q + 1) /\ (d - q = 0 => d = q) /\ (d - q = -1 => d = q - 1)
    BY <1>1
  <2> HIDE DEF n, q
  <2> QED
    BY <2>1, <2>2, <2>3, <2>4, <2>5
<1>4. /\ Distance(c, x) <= n => d - q \in -1 .. 1
      /\ d - q \in -1 .. 1 => 2 * Distance(c, x) <= 3 * n
  <2> HIDE DEF n, h, q
  <2> QED
    BY <1>1, <1>3 DEF Distance
<1> QED
  BY <1>2, <1>4

\* A window has a position for just the regions that touch its centre.
LEMMA VisitsWindow ==
    ASSUME NEW r \in Int \X Int, NEW s \in Int \X Int
    PROVE  /\ Visits(r, s) # {} <=> InWindow(r, s)
           /\ IsFiniteSet(Visits(r, s)) /\ Cardinality(Visits(r, s)) <= 1
<1>1. ASSUME NEW k \in Visits(r, s) PROVE InWindow(r, s)
  <2>1. k \in 0 .. 8 /\ k \div 3 \in 0 .. 2 /\ k % 3 \in 0 .. 2
    BY <1>1 DEF Visits
  <2>2. s[1] = r[1] + (k \div 3) - 1 /\ s[2] = r[2] + (k % 3) - 1
    BY <1>1 DEF Visits, Neighbour
  <2> HIDE DEF Visits
  <2> QED
    BY <2>1, <2>2 DEF InWindow
<1>2. ASSUME InWindow(r, s) PROVE Visits(r, s) # {}
  <2> DEFINE k == 3 * (s[1] - r[1] + 1) + (s[2] - r[2] + 1)
  <2>1. s[1] - r[1] \in {-1, 0, 1} /\ s[2] - r[2] \in {-1, 0, 1}
    BY <1>2 DEF InWindow
  <2>2. k \in 0 .. 8 /\ k \div 3 = s[1] - r[1] + 1 /\ k % 3 = s[2] - r[2] + 1
    BY <2>1
  <2>3. Neighbour(r, k) = s
    <3>1. /\ r[1] + (s[1] - r[1] + 1) - 1 = s[1]
          /\ r[2] + (s[2] - r[2] + 1) - 1 = s[2]
      OBVIOUS
    <3> HIDE DEF k
    <3>2. Neighbour(r, k) = <<s[1], s[2]>>
      BY <2>2, <3>1 DEF Neighbour
    <3> QED
      BY <3>2
  <2> QED
    BY <2>2, <2>3 DEF Visits
<1>3. IsFiniteSet(Visits(r, s)) /\ Cardinality(Visits(r, s)) <= 1
  <2>1. CASE Visits(r, s) = {}
    BY <2>1, FS_EmptySet
  <2>2. ASSUME NEW k \in Visits(r, s) PROVE Visits(r, s) = {k}
    BY <2>2, WindowUnique DEF Visits
  <2>3. CASE Visits(r, s) # {}
    <3>1. PICK k : k \in Visits(r, s)
      BY <2>3
    <3>2. Visits(r, s) = {k}
      BY <3>1, <2>2
    <3>3. IsFiniteSet({k}) /\ Cardinality({k}) = 1
      BY FS_Singleton
    <3> QED
      BY <3>2, <3>3
  <2> QED
    BY <2>1, <2>3
<1> QED
  BY <1>1, <1>2, <1>3
-----------------------------------------------------------------------------
\* Objects come into a region only if they have one.
Placed == \A o \in visible : o \in Objects /\ RegionAt(Spot[o]) # NoRegion

LEMMA PlacedStep == Placed /\ [VisibilityNext]_visibilityVars => Placed'
<1> SUFFICES ASSUME Placed, [VisibilityNext]_visibilityVars PROVE Placed'
  OBVIOUS
<1> USE DEF Placed
<1>1. ASSUME NEW o \in Objects, AddObject(o) \/ RemoveObject(o) PROVE Placed'
  BY <1>1 DEF AddObject, RemoveObject
<1>2. CASE UNCHANGED worldVars
  BY <1>2 DEF worldVars
<1>3. ASSUME NEW p \in Players,
             RegisterPlayer(p) \/ UnregisterPlayer(p) \/ Age(p) \/ Locate(p)
               \/ \E place \in Positions : Move(p, place)
      PROVE  UNCHANGED worldVars
  BY <1>3 DEF RegisterPlayer, UnregisterPlayer, Age, Locate, Move
<1>4. CASE Tick \/ Stop \/ EndUpdate \/ Skip \/ Collect \/ Scan \/ Store
  BY <1>4, <1>2 DEF Tick, Stop, EndUpdate, Skip, Collect, Scan, Store
<1>5. CASE UNCHANGED visibilityVars
  BY <1>5, <1>2 DEF visibilityVars
<1> QED
  BY <1>1, <1>2, <1>3, <1>4, <1>5 DEF VisibilityNext, UpdateAll

LEMMA PlacedWindow == Placed => WindowExact
<1> SUFFICES ASSUME Placed, NEW r \in Regions, NEW o \in visible
             PROVE  LET place    == RegionIndexToCoord(r)
                        visits   == Visits(RegionAt(place), RegionAt(Spot[o]))
                        Apart(i) == IF place[i] > Spot[o][i] THEN place[i] - Spot[o][i]
                                                             ELSE Spot[o][i] - place[i]
                    IN  /\ Cardinality(visits) <= 1
                        /\ Apart(1) <= RegionSize /\ Apart(2) <= RegionSize => visits # {}
                        /\ visits # {} => /\ 2 * Apart(1) <= 3 * RegionSize
                                          /\ 2 * Apart(2) <= 3 * RegionSize
  BY DEF WindowExact
<1> DEFINE place == RegionIndexToCoord(r)
           s == RegionAt(Spot[o])
           d1 == r[1] - OffsetX
           d2 == r[2] - OffsetY
<1>1. o \in Objects /\ Spot[o][1] \in Int /\ Spot[o][2] \in Int
  BY VisibilityAssumption DEF Placed
<1>2. /\ r \in Int \X Int /\ r = <<r[1], r[2]>> /\ d1 \in Int /\ d2 \in Int
      /\ d1 + OffsetX = r[1] /\ d2 + OffsetY = r[2]
  BY WorldAssumption DEF Regions
<1>3. /\ place[1] = d1 * RegionSize + (RegionSize \div 2)
      /\ place[2] = d2 * RegionSize + (RegionSize \div 2)
  BY DEF RegionIndexToCoord
<1>4. s = <<(Spot[o][1] \div RegionSize) + OffsetX, (Spot[o][2] \div RegionSize) + OffsetY>>
  BY DEF Placed, RegionAt, GetRegion, CoordToRegionIndex
<1>5. /\ place[1] \div RegionSize = d1 /\ place[2] \div RegionSize = d2
      /\ \A i \in {1, 2} :
            LET d == IF i = 1 THEN d1 ELSE d2
                q == Spot[o][i] \div RegionSize
            IN  /\ Distance(place[i], Spot[o][i]) <= RegionSize => d - q \in -1 .. 1
                /\ d - q \in -1 .. 1 => 2 * Distance(place[i], Spot[o][i]) <= 3 * RegionSize
  BY <1>1, <1>2, <1>3, Axis
<1>6. RegionAt(place) = r
  BY <1>2, <1>5 DEF RegionAt, GetRegion, CoordToRegionIndex, IsValidRegionIndex
<1>7. s \in Int \X Int
  BY <1>1, <1>4, QuotientBounds, WorldAssumption
<1>8. /\ r[1] - s[1] = d1 - (Spot[o][1] \div RegionSize)
      /\ r[2] - s[2] = d2 - (Spot[o][2] \div RegionSize)
  BY <1>1, <1>2, <1>4, QuotientBounds, WorldAssumption
<1>9. Visits(r, s) # {} <=> InWindow(r, s)
  BY <1>2, <1>7, VisitsWindow
<1>10. Cardinality(Visits(r, s)) <= 1
  BY <1>2, <1>7, VisitsWindow
<1>11. /\ Distance(place[1], Spot[o][1]) <= RegionSize
             /\ Distance(place[2], Spot[o][2]) <= RegionSize => InWindow(r, s)
       /\ InWindow(r, s) => /\ 2 * Distance(place[1], Spot[o][1]) <= 3 * RegionSize
                            /\ 2 * Distance(place[2], Spot[o][2]) <= 3 * RegionSize
  BY <1>5, <1>8 DEF InWindow
<1> HIDE DEF place, s
<1> QED
  BY <1>6, <1>9, <1>10, <1>11 DEF Distance, place, s

\* The window is exact for every size of the grid, the real one included.
THEOREM WindowTheorem == VisibilitySpec => []WindowExact
<1>1. VisibilityInit => Placed
  BY DEF VisibilityInit, Placed
<1> QED
  BY <1>1, PlacedStep, PlacedWindow, PTL DEF VisibilitySpec
=============================================================================
