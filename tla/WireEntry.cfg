\* A client that sent its version and its key is looked at; states as the program sets them.
SPECIFICATION WireSpec
CONSTANTS
  XorByte <- MCXorByte
  Sums = {0}
  Modulus512 <- MCModulus512
  Modulus1024 <- MCModulus1024
  BFKeys <- MCBFKeys
  GameServers <- MCGameServers
  Reports <- MCReports
  Sessions <- MCSessions
  SessionKeys <- MCSessionKeys
  Credentials <- MCCredentials
  ServerLists <- MCServerLists
  Licence = {TRUE, FALSE}
  ClientStates = {"CONNECTED"}
INVARIANT
  GoodKeyEnters
