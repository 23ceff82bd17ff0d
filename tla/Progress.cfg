\* The models with fairness: one of three moves.
SPECIFICATION ProgressSpec
CONSTANTS
  \* Visibility: players who stay where they are
  RegionSize = 4
  OffsetX = 1
  OffsetY = 1
  RegionsX = 4
  RegionsY = 3
  NoRegion = NoRegion
  Players = {p1, p2}
  Objects = {o1}
  o1 = o1
  o2 = o2
  Positions <- MCInside
  Spot <- MCSpot
  NoPlayer = NoPlayer
  NoCache = NoCache
  \* Lifecycle: two servers, one of them with a connection
  s1 = s1
  s2 = s2
  c1 = c1
  Servers = {s1, s2}
  Conns = {c1}
  Places <- MCPlaces
  MaxPackets = 2
  Programs <- MCPrograms
  \* LoginRelay
  Clients = {client1, client2}
  Relays = {r1, r2}
  Accounts = {ann}
  Banned = {}
  Passwords = {pass1}
  Keys = {k1, k2}
  NoPassword = NoPassword
  NoAccount = NoAccount
  NoKey = NoKey
  ShowLicence = FALSE
  AutoCreate = FALSE
INVARIANTS
  TypeOK
  ServesReadyWorld
  PoolReleased
  GameProgramStaysUp
  AtMostOneLatePacket
PROPERTIES
  RemovedFades
  ProgramStops
  CancelQuiesces
  AdmittedKeyDies
CHECK_DEADLOCK FALSE
