SPECIFICATION Spec
CONSTANTS
    Starters = {main}
    Executors = {e1, e2}
    Killers = {k1, k2}
    Spawns = {s1, s2}
    Misplaced = {s2}
    MaximumCount = 2
    Npcs = {n1, n2, n3, n4}
    MaxKills = 2
    NoSpawn = NoSpawn
    NoNpc = NoNpc
    LoadErrors = TRUE
    Cancels = TRUE
CHECK_DEADLOCK FALSE
SYMMETRY Symmetry
INVARIANTS
    TypeOK
    CountMatchesList
    ControllersCounted
    AllOrNothing
    NotOverfull
