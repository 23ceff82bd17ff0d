SPECIFICATION Spec
CONSTANTS
    Starters = {main}
    Executors = {e1}
    Killers = {k1}
    Spawns = {s1}
    Misplaced = {}
    MaximumCount = 2
    Npcs = {n1, n2, n3, n4}
    MaxKills = 2
    NoSpawn = NoSpawn
    NoNpc = NoNpc
    LoadErrors = FALSE
    Cancels = FALSE
CHECK_DEADLOCK FALSE
PROPERTY
    RespawnRestores
