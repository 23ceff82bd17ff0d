\* The login program alone, nobody connecting to its first server.
SPECIFICATION Spec
CONSTANTS
  s1 = s1
  s2 = s2
  c1 = c1
  Servers = {s1, s2}
  Conns = {c1}
  Places <- MCPlaces
  MaxPackets = 2
  Programs <- MCLogin
CHECK_DEADLOCK FALSE
INVARIANT WaitsForServers
