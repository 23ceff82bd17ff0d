SPECIFICATION GSSpec
CONSTANTS
    WordBits = 2
    Ids = {0, 1, 2, 3, 4}
    Infos = {i1, i2, i3}
    HexIds = {h1, h2}
    NoInfo = NoInfo
    NoHex = NoHex
    Conns = {g1, g2}
    RequestIds = {1, 4}
    MaxAlternate = 2
    Accounts = {ann}
SYMMETRY Symmetry
INVARIANT
    OneConnectionPerServer
