SPECIFICATION VisibilitySpec
CONSTANTS
    RegionSize = 4
    OffsetX = 1
    OffsetY = 1
    RegionsX = 4
    RegionsY = 3
    NoRegion = NoRegion
    Players = {p1}
    Objects = {o2}
    o1 = o1
    o2 = o2
    Positions <- MCPositions
    Spot <- MCSpot
    NoPlayer = NoPlayer
    NoCache = NoCache
INVARIANT
    CollectsWindow
