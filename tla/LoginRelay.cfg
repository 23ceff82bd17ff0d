SPECIFICATION Spec
CONSTANTS
    Clients = {c1, c2}
    Relays = {r1, r2}
    Accounts = {ann, bob, eve}
    Banned = {eve}
    Passwords = {p1, p2}
    Keys = {k1, k2}
    NoPassword = NoPassword
    NoAccount = NoAccount
    NoKey = NoKey
    ShowLicence = TRUE
    AutoCreate = TRUE
INVARIANTS
    TypeOK
    AuthenticatedByPassword
    HandedOutKeyWasStored
    SpentKeyStaysSpent
    NoSecondAdmission
    LostOnlyInRace
SYMMETRY Symmetry
PROPERTIES
    TicketSpec
