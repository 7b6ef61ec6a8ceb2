\* Requests while Start is still running, failing writes and a crash.
SPECIFICATION Spec
CONSTANTS
    Clients = {auth, launcher, admin, u}
    AuthID = auth
    LauncherID = launcher
    AdminID = admin
    Keys = {k1}
    BootKey = kb
    Passwords = {p1}
    Short = short
    Roles = {"viewer"}
    None = none
    NoEntry = noentry
    Unknown = unknown
    Main = main
    Rpc = rpc
    Background = {g1}
    Targets = {admin}
    Requests = {"RemoveClient", "SetClientPassword", "AddUserShort", "UpdateClient", "UpdateClientRole", "UpdateName", "UpdatePubKey", "UpdatePassword", "SetServicePermissions"}
    EarlyRequests = TRUE
    MaxRequests = 2
    MaxFails = 1
    MaxCrashes = 1
INVARIANTS
    AcceptedIsDurable
CHECK_DEADLOCK FALSE
