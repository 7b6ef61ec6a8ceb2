------------------------------ MODULE HubCore -------------------------------
(***************************************************************************)
(* The hub core from its setup to its clients: Setup, the message server   *)
(* with its permissions, the start of the auth service with the accounts   *)
(* of the launcher and the administrator, and the certificate service as a *)
(* plugin that the launcher starts with a key and a token of its own.      *)
(*                                                                         *)
(* What the auth service does with its store, its failing writes included, *)
(* is the subject of Auth; here a change is in the password file when the  *)
(* method returns.                                                         *)
(***************************************************************************)
EXTENDS HubSetup, Permissions

CONSTANTS
    Users,      \* IDs of devices and users
    UserRoles,  \* the roles that they are given
    Services,   \* services that register capabilities, of DOMAIN ServiceCapabilities
    MaxEvents   \* bound: processes, crashes, changes of clients and registrations together

\* The accounts of the core and of its launcher are not those of others, and the
\* requests to add a client refuse one without an ID.
ASSUME ClientsAssumption ==
    /\ (Users \union Services) \intersect (FileClients \union {"auth"}) = {}
    /\ Unset \notin Users

VARIABLES
    users,   \* the password file: client -> public key and role
    known,   \* the message server's nkey users: client -> public key
    plug,    \* the certificate service and its start by the launcher
    issued,  \* the certificates that it has issued
    changes  \* bound: changes so far

serverVars == <<permVars, known>>

vars == <<setupVars, serverVars, users, plug, issued, changes>>

NoPlugin == [pc |-> "idle", caCert |-> 0, caKey |-> 0]

Init ==
    /\ SetupInit
    /\ PermInit
    /\ users = <<>>
    /\ known = <<>>
    /\ plug = NoPlugin
    /\ issued = {}
    /\ changes = 0

Events == used.runs + used.crashes + changes

\* The server process is gone, and with it what it knew.
ServerGone ==
    /\ arrays' = InitArrays
    /\ servicePerms' = [r \in Roles |-> <<>>]
    /\ fresh' = {}
    /\ granted' = <<>>
    /\ known' = <<>>

-----------------------------------------------------------------------------
\* Clients of the message server

Profile(pub, role) == [pub |-> pub, role |-> role]

\* onChange: the server takes over all the clients of the store.
ApplyAuth(list) ==
    /\ known' = [c \in DOMAIN list |-> list[c].pub]
    /\ ApplyPermissions(DOMAIN list, [c \in DOMAIN list |-> list[c].role])
    /\ UNCHANGED servicePerms

\* AddService, AddUser and AddDevice: store.Add, then onChange.
Add(c, pub, role) ==
    LET list == [d \in DOMAIN users \union {c} |-> IF d = c THEN Profile(pub, role) ELSE users[d]]
    IN users' = list /\ ApplyAuth(list)

\* ConnectWithTokenFile: both files must load.
LoadsTokenFile(c) == tokenFile[c] /\ NewKeyFromFile(keyFile[c]) # 0

\* ConnectWithToken with a token that is no JWT: ConnectWithKey.  The server asks
\* for a signature with a key that it knows.
ConnectsWithKey(c) == c \in DOMAIN known /\ known[c] = keyFile[c]

\* ConnectToHub: the server must show a certificate of the CA that is in the file.
CanConnect(c) ==
    /\ At("up")
    /\ Valid(coreFile.caCert) /\ coreFile.caCert = proc.CaCert
    /\ LoadsTokenFile(c)
    /\ ConnectsWithKey(c)

-----------------------------------------------------------------------------
\* run and AuthService.Start

UserCapability(capability) ==
    [capability |-> capability, roles |-> {"viewer", "operator", "manager", "admin"}]

AdminCapability(capability) == [capability |-> capability, roles |-> {"admin"}]

\* CreateNatsNKeyOptions needs the keys that NatsServerConfig.Setup makes last.
CreateNatsNKeyOptions == proc.keys

\* NatsMsgServer.Start; without those keys it panics.
StartServer ==
    /\ At("start")
    /\ IF CreateNatsNKeyOptions THEN Goto("auth") ELSE Exit
    /\ UNCHANGED <<files, cut, used, serverVars, users, plug, issued, changes>>

\* AuthService.Start adds itself, with a key that it keeps in memory.
StartAuth ==
    /\ At("auth")
    /\ Add("auth", proc.run, "service")
    /\ Goto("permissions")
    /\ UNCHANGED <<files, cut, used, plug, issued, changes>>

AuthCapabilities ==
    <<AdminCapability("manageClients"), AdminCapability("manageRoles"), UserCapability("profile")>>

\* The service registers its own capabilities, one after the other.
SetAuthPermissions ==
    LET n == Registrations("auth") + 1
    IN /\ At("permissions")
       /\ n \in DOMAIN AuthCapabilities
       /\ SetServicePermissions("auth", AuthCapabilities[n])
       /\ IF n = Len(AuthCapabilities) THEN Goto("launcherKey") ELSE UNCHANGED proc
       /\ UNCHANGED <<files, cut, used, arrays, granted, known, users, plug, issued, changes>>

\* Mutant: a key file that does not load is kept, the new key is not saved.
LoadCreateKeyPair_Unsaved(c, run) ==
    keyFile' = [keyFile EXCEPT ![c] = IF @ = Absent THEN run ELSE @]

\* LoadCreateKeyPair: whatever the error of the load, a new key is created and saved.
LoadCreateKeyPair(c, run) ==
    keyFile' = [keyFile EXCEPT ![c] = IF Valid(@) THEN @ ELSE run]

\* The account of the launcher, then that of the administrator: key, client, token.
AccountKey(c, here, next) ==
    /\ At(here)
    /\ LoadCreateKeyPair(c, proc.run)
    /\ Goto(next)
    /\ UNCHANGED <<coreFile, tokenFile, dataDir, cut, used>>
    /\ UNCHANGED <<serverVars, users, plug, issued, changes>>

AddAccount(c, role, here, next) ==
    /\ At(here)
    /\ Add(c, keyFile[c], role)
    /\ Goto(next)
    /\ UNCHANGED <<files, cut, used, plug, issued, changes>>

AccountToken(c, here, next) ==
    /\ At(here)
    /\ tokenFile' = [tokenFile EXCEPT ![c] = TRUE]
    /\ Goto(next)
    /\ UNCHANGED <<coreFile, keyFile, dataDir, cut, used>>
    /\ UNCHANGED <<serverVars, users, plug, issued, changes>>

StartStep ==
    \/ StartServer \/ StartAuth \/ SetAuthPermissions
    \/ AccountKey("launcher", "launcherKey", "launcher")
    \/ AddAccount("launcher", "service", "launcher", "launcherToken")
    \/ AccountToken("launcher", "launcherToken", "adminKey")
    \/ AccountKey("admin", "adminKey", "admin")
    \/ AddAccount("admin", "admin", "admin", "adminToken")
    \/ AccountToken("admin", "adminToken", "up")

\* The signal for which run waits: both services stop and the process ends.
StopCore ==
    /\ At("up") /\ ~LastRun
    /\ Events <= MaxEvents
    /\ Exit
    /\ ServerGone
    /\ UNCHANGED <<files, cut, used, users, plug, issued, changes>>

-----------------------------------------------------------------------------
\* Requests to the auth service while the core runs

\* The capabilities that services register when they start.
ServiceCapabilities ==
    LET everyone == {"viewer", "operator", "manager", "admin", "service"}
    IN [directory    |-> <<[capability |-> "readDirectory", roles |-> everyone],
                           AdminCapability("updateDirectory")>>,
        history      |-> <<[capability |-> "readHistory", roles |-> everyone],
                           AdminCapability("manageHistory")>>,
        provisioning |-> <<[capability |-> "manageProvisioning",
                            roles |-> {"manager", "admin", "service"}]>>,
        state        |-> <<[capability |-> "storage", roles |-> everyone \union {"device"}]>>,
        hiveoview    |-> <<[capability |-> "hiveoview", roles |-> {"admin", "service"}]>>]

ASSUME ServicesAssumption == Services \subseteq DOMAIN ServiceCapabilities

\* AddUser or AddDevice, for the administrator or the provisioning service, and
\* AddService, for the launcher that starts a service.
AddClient(c, role) ==
    /\ At("up")
    /\ Events < MaxEvents
    /\ changes' = changes + 1
    /\ Add(c, proc.run, role)
    /\ UNCHANGED <<setupVars, plug, issued>>

\* SetServicePermissions of the profile capability, for a sender that is a service,
\* which registers its capabilities in their order; bound: once in each process of
\* the core.
RegisterService(s) ==
    LET n == Registrations(s) + 1
    IN /\ At("up")
       /\ s \in DOMAIN known /\ users[s].role = "service"
       /\ n \in DOMAIN ServiceCapabilities[s]
       /\ SetServicePermissions(s, ServiceCapabilities[s][n])
       /\ UNCHANGED <<setupVars, arrays, granted, known, users, plug, issued, changes>>

-----------------------------------------------------------------------------
\* The certificate service

\* startPlugin of the launcher: the key of the plugin,
PluginKey ==
    /\ plug.pc = "idle" /\ At("up")
    /\ Events < MaxEvents
    /\ changes' = changes + 1
    /\ LoadCreateKeyPair("certs", proc.run)
    /\ plug' = [plug EXCEPT !.pc = "add"]
    /\ UNCHANGED <<coreFile, tokenFile, dataDir, proc, cut, used, serverVars, users, issued>>

\* the client and its token, where the launcher goes on if the request fails;
\* a launcher that dies in between may leave no token.
PluginAdd ==
    /\ plug.pc = "add"
    /\ plug' = [plug EXCEPT !.pc = "exec"]
    /\ IF CanConnect("launcher")
       THEN /\ Add("certs", keyFile["certs"], "service")
            /\ \E token \in BOOLEAN : tokenFile' = [tokenFile EXCEPT !["certs"] = token]
       ELSE UNCHANGED <<serverVars, users, tokenFile>>
    /\ UNCHANGED <<coreFile, keyFile, dataDir, proc, cut, used, issued, changes>>

\* main of the certificate service loads the CA certificate, then the key.
CertsLoadCert ==
    /\ plug.pc = "exec"
    /\ plug' = IF LoadX509CertFromPEM(coreFile.caCert) # 0
               THEN [plug EXCEPT !.pc = "key", !.caCert = coreFile.caCert] ELSE NoPlugin
    /\ UNCHANGED <<setupVars, serverVars, users, issued, changes>>

\* The service needs the CA key, or it ends.
NewCertsService == NewKeyFromFile(coreFile.caKey) # 0

\* StartPlugin: without a connection it exits.
CertsStart ==
    /\ plug.pc = "key"
    /\ plug' = IF NewCertsService /\ CanConnect("certs")
               THEN [plug EXCEPT !.pc = "run", !.caKey = coreFile.caKey] ELSE NoPlugin
    /\ UNCHANGED <<setupVars, serverVars, users, issued, changes>>

\* The plugin is stopped or dies.
CertsEnd ==
    /\ plug.pc = "run"
    /\ plug' = NoPlugin
    /\ UNCHANGED <<setupVars, serverVars, users, issued, changes>>

\* createClientCert: a name and a public key are required.
createClientCert(id, pubKey) ==
    IF id # "" /\ pubKey = "valid" /\ Signs(plug.caCert, plug.caKey)
    THEN {[ca |-> plug.caCert, name |-> id]} ELSE {}

\* _createServiceCert: the names of the host as well.
createServiceCert(id, pubKey, names) ==
    IF id # "" /\ pubKey = "valid" /\ names # "nil" /\ Signs(plug.caCert, plug.caKey)
    THEN {[ca |-> plug.caCert, name |-> id]} ELSE {}

Issue(certs) ==
    /\ plug.pc = "run" /\ At("up")
    /\ issued' = issued \union certs
    /\ UNCHANGED <<setupVars, serverVars, users, plug, changes>>

\* The organizational unit and the validity that tell device and user
\* certificates apart are left out.
CreateDeviceCert(id, pubKey) == Issue(createClientCert(id, pubKey))

CreateUserCert(id, pubKey) == Issue(createClientCert(id, pubKey))

CreateServiceCert(id, pubKey, names) == Issue(createServiceCert(id, pubKey, names))

\* VerifyCert: the name is the client's, the chain ends in the CA of the service.
VerifyCert(clientID, cert) == cert.name = clientID /\ cert.ca = plug.caCert

-----------------------------------------------------------------------------
\* The system

\* An old setup is removed when the launcher and its plugins are not running.
LaunchAny ==
    \E new \in BOOLEAN :
       /\ new => plug.pc = "idle"
       /\ Launch(new)
       /\ UNCHANGED <<serverVars, users, plug, issued, changes>>

Setup ==
    \/ SetupStep /\ UNCHANGED <<serverVars, users, plug, issued, changes>>
    \/ /\ RemoveAll
       /\ users' = <<>>
       /\ issued' = {}
       /\ UNCHANGED <<serverVars, plug, changes>>

CrashCore ==
    /\ Crash
    /\ Events <= MaxEvents
    /\ ServerGone
    /\ users' \in IF At("remove") THEN {users, <<>>} ELSE {users}
    /\ UNCHANGED <<plug, issued, changes>>

Requests ==
    \/ \E u \in Users, role \in UserRoles : AddClient(u, role)
    \/ \E s \in Services : AddClient(s, "service") \/ RegisterService(s)

CertRequests ==
    \E id \in {"", "name"}, pubKey \in {"valid", "invalid"} :
       \/ CreateDeviceCert(id, pubKey)
       \/ CreateUserCert(id, pubKey)
       \/ \E names \in {"nil", "host"} : CreateServiceCert(id, pubKey, names)

Plugin ==
    PluginKey \/ PluginAdd \/ CertsLoadCert \/ CertsStart \/ CertsEnd \/ CertRequests

Next == LaunchAny \/ Setup \/ StartStep \/ StopCore \/ CrashCore \/ Requests \/ Plugin

Spec == Init /\ [][Next]_vars

\* The core is started again when it has ended, and its code goes on.
FairSpec == Spec /\ WF_vars(LaunchAny) /\ WF_vars(Setup) /\ WF_vars(StartStep)

-----------------------------------------------------------------------------
\* Properties

\* When the core is up, the launcher and the administrator connect with what is in
\* their files, after whatever crashes, and a plugin that runs does so again.
ClientsConnect ==
    At("up") => /\ CanConnect("launcher") /\ CanConnect("admin")
                /\ plug.pc = "run" => CanConnect("certs")

\* What the certificate service has issued verifies with the service that runs now
\* and with the CA certificate that clients load, over restarts of both.
IssuedVerifies ==
    cut \/ \A cert \in issued :
              /\ plug.pc = "run" => VerifyCert(cert.name, cert)
              /\ cert.ca = coreFile.caCert

\* Setup repairs what crashes have left, and the core comes up again and again; not
\* repaired are a half-written account key and the rest of a half-removed setup.
ComesUp == []<>(At("up") \/ coreFile.appKey = Partial \/ cut)

-----------------------------------------------------------------------------
\* What comments say and the code does not do

\* "Setup ... creates missing directories, certs and auth keys and tokens":
\* it never repairs a half-written account key.
SetupRepairs == []<>(At("up") \/ cut)

=============================================================================
