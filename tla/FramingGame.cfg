\* The game server hears the first packet of its client.
SPECIFICATION FramingSpec
CONSTANTS
  Base = 4
  XorOf <- MCXorOf
  Protocols = {"game"}
  SendBuf = 40
  ReadBuf = 40
  Payloads <- MCPayloads
  Greetings <- MCGreetings
  XorKeys <- MCXorKeys
  MaxSent = 3
\* a connection that is closed stops
CHECK_DEADLOCK FALSE
INVARIANT
  GameClientsHeard
