\* The models that share no state: one part of nine moves.
SPECIFICATION PartsSpec
CONSTANTS
  \* GameServerTable
  WordBits = 2
  Ids = {0, 1, 2, 3, 4}
  Infos = {i1, i2, i3}
  HexIds = {h1, h2}
  NoInfo = NoInfo
  NoHex = NoHex
  \* CodecStream: every sequence of at most three values of each type
  Values <- MCValues
  MaxItems = 3
  \* Wire: two conversations in the real layouts
  XorByte <- MCXorByte
  Sums = {0, 255}
  Modulus512 <- MCModulus512
  Modulus1024 <- MCModulus1024
  BFKeys <- MCBFKeys
  GameServers <- MCGameServers
  Reports <- MCReports
  Sessions <- MCSessions
  SessionKeys <- MCSessionKeys
  Credentials <- MCCredentials
  ServerLists <- MCServerLists
  Licence = {TRUE, FALSE}
  ClientStates = {"CONNECTED", "AUTHENTICATED"}
  \* Framing
  Base = 4
  XorOf <- MCXorOf
  Protocols = {"login", "gs", "game"}
  SendBuf = 40
  ReadBuf = 40
  Payloads <- MCPayloads
  Greetings <- MCGreetings
  XorKeys <- MCXorKeys
  MaxSent = 3
  \* Rsa
  Radix = 16
  Size = 2
  Primes <- MCPrimes
  \* CharacterStore
  Stats = {"hp"}
  Amounts <- MCAmounts
  Levels = {1, 2}
  Headings = {7, 32768}
  Classes = {10, 11}
  ExpMax = 3
  Gains = {2}
  MaxChanges = 2
  \* ItemStore
  Items = {item1}
  CountMax = 3
  Deltas <- MCDeltas
  Enchants <- MCEnchants
  MaxSets = 4
  \* AITick
  Controllers = {c1, c2}
  Every = 2
  MaxTicks = 4
  \* Visibility
  RegionSize = 4
  OffsetX = 1
  OffsetY = 1
  RegionsX = 4
  RegionsY = 3
  NoRegion = NoRegion
  Players = {p1, p2}
  Objects = {o1}
  o1 = o1
  o2 = o2
  Positions <- MCPositions
  Spot <- MCSpot
  NoPlayer = NoPlayer
  NoCache = NoCache
INVARIANTS
  BitmapAgrees
  FirstFit
  ValuesComeBack
  EachUnderstands
  PayloadsArrive
  NothingElseLeaves
  BlocksComeBack
  RowsMakePlayers
  ItemsExact
  TicksInStep
  VisibilityTypeOK
  CacheOnlyIfRaced
  FollowsWithinAPass
  WindowExact
