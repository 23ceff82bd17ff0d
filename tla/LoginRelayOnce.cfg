SPECIFICATION Spec
CONSTANTS
    Clients = {c1}
    Relays = {r1, r2}
    Accounts = {ann}
    Banned = {}
    Passwords = {p1}
    Keys = {k1}
    NoPassword = NoPassword
    NoAccount = NoAccount
    NoKey = NoKey
    ShowLicence = TRUE
    AutoCreate = TRUE
INVARIANT
    OneAdmissionPerKey
