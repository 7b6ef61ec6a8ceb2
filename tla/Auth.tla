-------------------------------- MODULE Auth --------------------------------
(***************************************************************************)
(* The authentication service of the hub core: the client store            *)
(* (AuthnFileStore), the management and profile capabilities that change   *)
(* it, and ApplyAuth, which hands the store's content to the embedded      *)
(* NATS server.                                                            *)
(*                                                                         *)
(* The capabilities share one RPC subscription, so their handlers run one  *)
(* at a time on the goroutine Rpc.  AuthService.Start runs on Main, and    *)
(* keeps adding clients after it has subscribed.  The profile capability   *)
(* leaves ApplyAuth to background goroutines (the set Background).         *)
(*                                                                         *)
(* A client is reduced to what authentication depends on: its type, public *)
(* key, role and password hash.  Names, timestamps and token validity are  *)
(* left out.  The server runs in nkey mode, where a token is the public    *)
(* key itself, so CreateToken fails only for a client without a key.       *)
(***************************************************************************)
EXTENDS Naturals, Sequences, FiniteSets

CONSTANTS
    Clients,        \* client IDs
    AuthID,         \* the auth service's own client ID
    LauncherID,     \* the launcher's client ID (cfg.LauncherAccountID)
    AdminID,        \* the administrator's client ID (cfg.AdminAccountID)
    Keys,           \* public keys a request may carry
    BootKey,        \* the key of a client added by AuthService.Start
    Passwords,      \* hashes of acceptable passwords
    Short,          \* a password of less than five characters
    Roles,          \* roles a request may carry
    None,           \* no key, no password
    NoEntry,        \* a client that is not in the store
    Unknown,        \* the store returned an error for the last change
    Main, Rpc, Background,  \* goroutines
    Targets,        \* the clients that requests are about
    Requests,       \* the methods that clients call in this instance
    EarlyRequests,  \* whether clients call while Start is still running
    MaxRequests,    \* bound on the number of RPC requests
    MaxFails,       \* bound on the number of failing writes of the store file
    MaxCrashes      \* bound on the number of crashes

Threads == {Main, Rpc} \cup Background

BootRoles == {"service", "admin"}

AllRoles == Roles \cup {"device"} \cup BootRoles

VARIABLES
    entries,       \* AuthnFileStore.entries
    file,          \* the content of the password file
    event,         \* a change of the file that the file watcher will report
    servicePerms,  \* NatsMsgServer.servicePermissions, as <<service, role>> pairs
    opts,          \* NatsMsgServer.NatsOpts.Users and .Nkeys
    live,          \* the users and nkeys the NATS server authenticates with
    thr,           \* the goroutines
    boot,          \* the clients AuthService.Start has added
    acked,         \* per client, the last change the store accepted
    used,          \* failed writes and crashes so far (see the bounds)
    requests       \* RPC requests so far

authVars == <<entries, file, event, servicePerms, opts, live, thr, boot, acked, used>>

vars == <<authVars, requests>>

-----------------------------------------------------------------------------
\* State

\* AuthnEntry: a client's profile and its password hash.
Entry == [type: {"device", "service", "user"}, key: Keys \cup {BootKey, None},
          role: AllRoles, pw: Passwords \cup {None}]

ASSUME AuthAssumption ==
    /\ {AuthID, LauncherID, AdminID} \cup Targets \subseteq Clients
    /\ EarlyRequests \in BOOLEAN
    /\ MaxRequests \in Nat /\ MaxFails \in Nat /\ MaxCrashes \in Nat
    /\ Main \notin Background \cup {Rpc} /\ Rpc \notin Background
    /\ None \notin Keys \cup {BootKey} \cup Passwords \cup Clients
    /\ Short \notin Passwords \cup {None}
    /\ NoEntry \notin Entry

Store == [Clients -> Entry \cup {NoEntry}]

EmptyStore == [c \in Clients |-> NoEntry]

\* What ApplyAuth makes of a list of clients: the clients, each with the
\* permissions its role has been given by the services so far.
Builds == [clients: Store, perms: SUBSET (Clients \X AllRoles)]

NoBuild == [clients |-> EmptyStore, perms |-> {}]

\* One goroutine: where it is, the client its request is about, the profile
\* or password it carries, and the client list it is applying.
Steps == {"open", "boot", "idle", "update", "updatekey", "setpw", "change",
          "build", "users", "nkeys", "reload"}

Thread == [pc: Steps,
           c: Clients \cup {None},
           prof: Entry \cup {NoEntry},
           pw: Passwords \cup {Short, None},
           build: Builds]

IdleThread == [pc |-> "idle", c |-> None, prof |-> NoEntry, pw |-> None,
               build |-> NoBuild]

\* The type invariant: the entries in memory, in the file and in every client
\* list under way are well-formed, so no short password is ever stored.
TypeOK ==
    /\ entries \in Store /\ file \in Store
    /\ event \in BOOLEAN
    /\ servicePerms \in SUBSET (Clients \X AllRoles)
    /\ opts \in [users: Builds, nkeys: Builds]
    /\ live \in [users: Builds, nkeys: Builds]
    /\ thr \in [Threads -> Thread]
    /\ boot \in 0..4
    /\ acked \in [Clients -> Entry \cup {NoEntry, Unknown}]
    /\ used \in [fails: 0..MaxFails, crashes: 0..MaxCrashes]
    /\ requests \in 0..MaxRequests

\* The server's options before the first ApplyAuth hold no client.
NoClients == [users |-> NoBuild, nkeys |-> NoBuild]

Started == [t \in Threads |-> [IdleThread EXCEPT !.pc = IF t = Main THEN "open" ELSE "idle"]]

Init ==
    /\ entries = EmptyStore /\ file = EmptyStore
    /\ event = FALSE
    /\ servicePerms = {}
    /\ opts = NoClients /\ live = NoClients
    /\ thr = Started
    /\ boot = 0
    /\ acked = [c \in Clients |-> NoEntry]
    /\ used = [fails |-> 0, crashes |-> 0]
    /\ requests = 0

-----------------------------------------------------------------------------
\* The store: every mutator runs under the store's mutex and ends in save()

\* Add: a new client, or a new profile for a known one, whose password is kept.
Added(c, profile) ==
    [profile EXCEPT !.pw = IF entries[c] = NoEntry THEN None ELSE entries[c].pw]

\* Update copies the fields that are set, and never the role.
Updated(c, profile) ==
    [entries[c] EXCEPT
        !.type = IF profile.type = None THEN @ ELSE profile.type,
        !.key = IF profile.key = None THEN @ ELSE profile.key]

\* Mutant: a removal is not written to the file.
Save_SkipsRemoval(c, entry, Ok, Err) ==
    /\ entries' = [entries EXCEPT ![c] = entry]
    /\ file' = IF entry = NoEntry THEN file ELSE entries'
    /\ event' = TRUE
    /\ acked' = [acked EXCEPT ![c] = entry]
    /\ UNCHANGED used
    /\ Ok

\* Mutant: an error of the write is not returned.
Save_IgnoresError(c, entry, Ok, Err) ==
    /\ entries' = [entries EXCEPT ![c] = entry]
    /\ acked' = [acked EXCEPT ![c] = entry]
    /\ Ok
    /\ \/ /\ file' = entries'
          /\ event' = TRUE
          /\ UNCHANGED used
       \/ /\ used.fails < MaxFails
          /\ used' = [used EXCEPT !.fails = @ + 1]
          /\ UNCHANGED <<file, event>>

\* save(): write a temporary file and rename it over the password file, which
\* the file watcher notices; either may fail.  The entries in memory have
\* changed in both cases.
Save(c, entry, Ok, Err) ==
    /\ entries' = [entries EXCEPT ![c] = entry]
    /\ \/ /\ file' = entries'
          /\ event' = TRUE
          /\ acked' = [acked EXCEPT ![c] = entry]
          /\ UNCHANGED used
          /\ Ok
       \/ /\ used.fails < MaxFails
          /\ used' = [used EXCEPT !.fails = @ + 1]
          /\ acked' = [acked EXCEPT ![c] = Unknown]
          /\ UNCHANGED <<file, event>>
          /\ Err

\* Goroutine t goes to pc, and forgets its request when it has nothing to do.
Goto(t, pc) ==
    thr' = [thr EXCEPT ![t] = IF pc \in {"idle", "boot"}
                              THEN [IdleThread EXCEPT !.pc = pc]
                              ELSE [@ EXCEPT !.pc = pc]]

\* A handler returns its error to the caller without touching the store.
Refuse == UNCHANGED authVars

\* The fields that only ApplyAuth and SetServicePermissions change.
serverVars == <<servicePerms, opts, live>>

-----------------------------------------------------------------------------
\* AuthManageClients

\* AddDevice and AddService: store the profile, then onChange.  A request
\* without a key, which gets no token, changes the store all the same.
AddClient(c, type, role, key) ==
    /\ Save(c, Added(c, [type |-> type, key |-> key, role |-> role, pw |-> None]),
            Goto(Rpc, "change"), Goto(Rpc, "idle"))
    /\ UNCHANGED <<serverVars, boot>>

AddDevice(c, key) == AddClient(c, "device", "device", key)

AddService(c, key) == AddClient(c, "service", "service", key)

\* AddUser stores the profile, then the password if there is one.
AddUser(c, key, role, pw) ==
    /\ Save(c, Added(c, [type |-> "user", key |-> key, role |-> role, pw |-> None]),
            thr' = [thr EXCEPT ![Rpc] =
                      [@ EXCEPT !.pc = IF pw = None THEN "change" ELSE "setpw",
                                !.c = c, !.pw = pw,
                                !.prof = [type |-> "user", key |-> key,
                                          role |-> role, pw |-> None]]],
            Goto(Rpc, "idle"))
    /\ UNCHANGED <<serverVars, boot>>

\* The second half of AddUser.  A password that is too short, or a failing
\* write, is an error that creating a token for the key overwrites; without a
\* key the error stays and onChange is skipped.
AddUserPassword ==
    LET c == thr[Rpc].c
        failed == IF thr[Rpc].prof.key = None THEN "idle" ELSE "change"
    IN  /\ thr[Rpc].pc = "setpw"
        /\ IF thr[Rpc].pw = Short \/ entries[c] = NoEntry
           THEN /\ Goto(Rpc, failed)
                /\ UNCHANGED <<entries, file, event, acked, used>>
           ELSE Save(c, [entries[c] EXCEPT !.pw = thr[Rpc].pw],
                     Goto(Rpc, "change"), Goto(Rpc, failed))
        /\ UNCHANGED <<serverVars, boot>>

\* Mutant: a removal does not notify the server.
RemoveClient_NoChange(c) ==
    /\ Save(c, NoEntry, Goto(Rpc, "idle"), Goto(Rpc, "idle"))
    /\ UNCHANGED <<serverVars, boot>>

\* RemoveClient: a client that is not there is removed without an error.
RemoveClient(c) ==
    /\ Save(c, NoEntry, Goto(Rpc, "change"), Goto(Rpc, "idle"))
    /\ UNCHANGED <<serverVars, boot>>

SetClientPassword(c, pw) ==
    \/ /\ pw = Short \/ entries[c] = NoEntry
       /\ Refuse
    \/ /\ pw # Short /\ entries[c] # NoEntry
       /\ Save(c, [entries[c] EXCEPT !.pw = pw],
               Goto(Rpc, "change"), Goto(Rpc, "idle"))
       /\ UNCHANGED <<serverVars, boot>>

\* UpdateClient updates the store and leaves the server alone.
UpdateClient(c, type, key) ==
    \/ /\ entries[c] = NoEntry
       /\ Refuse
    \/ /\ entries[c] # NoEntry
       /\ Save(c, Updated(c, [type |-> type, key |-> key]),
               Goto(Rpc, "idle"), Goto(Rpc, "idle"))
       /\ UNCHANGED <<serverVars, boot>>

\* UpdateClientRole reads the profile and puts the new role into the copy;
\* UpdateProfile then hands the copy to the store.
UpdateClientRole(c, role) ==
    \/ /\ entries[c] = NoEntry
       /\ Refuse
    \/ /\ entries[c] # NoEntry
       /\ thr' = [thr EXCEPT ![Rpc] = [@ EXCEPT !.pc = "update", !.c = c,
                                                !.prof = [entries[c] EXCEPT !.role = role]]]
       /\ UNCHANGED <<entries, file, event, serverVars, boot, acked, used>>

-----------------------------------------------------------------------------
\* AuthManageProfile: requests of client c about itself

\* UpdateName reads the profile, and then always updates the store.
UpdateName(c) ==
    \/ /\ entries[c] = NoEntry
       /\ Refuse
    \/ /\ entries[c] # NoEntry
       /\ thr' = [thr EXCEPT ![Rpc] = [@ EXCEPT !.pc = "update", !.c = c,
                                                !.prof = entries[c]]]
       /\ UNCHANGED <<entries, file, event, serverVars, boot, acked, used>>

UpdatePubKey(c, key) ==
    \/ /\ entries[c] = NoEntry
       /\ Refuse
    \/ /\ entries[c] # NoEntry
       /\ thr' = [thr EXCEPT ![Rpc] = [@ EXCEPT !.pc = "updatekey", !.c = c,
                                                !.prof = [entries[c] EXCEPT !.key = key]]]
       /\ UNCHANGED <<entries, file, event, serverVars, boot, acked, used>>

\* A goroutine that is free to be started.
FreeThread(g) == g \in Background /\ thr[g].pc = "idle"

\* The store.Update call that ends UpdateClientRole and UpdateName.
UpdateProfile ==
    LET c == thr[Rpc].c
    IN  /\ thr[Rpc].pc = "update"
        /\ IF entries[c] = NoEntry
           THEN /\ Goto(Rpc, "idle")
                /\ UNCHANGED <<entries, file, event, acked, used>>
           ELSE Save(c, Updated(c, thr[Rpc].prof), Goto(Rpc, "idle"), Goto(Rpc, "idle"))
        /\ UNCHANGED <<serverVars, boot>>

\* The store.Update call of UpdatePubKey, which starts svc.onChange in the
\* background and replies.
UpdatePubKeyStore(g) ==
    LET c == thr[Rpc].c
    IN  /\ thr[Rpc].pc = "updatekey"
        /\ FreeThread(g)
        /\ IF entries[c] = NoEntry
           THEN /\ Goto(Rpc, "idle")
                /\ UNCHANGED <<entries, file, event, acked, used>>
           ELSE Save(c, Updated(c, thr[Rpc].prof),
                     thr' = [thr EXCEPT ![Rpc] = IdleThread, ![g].pc = "change"],
                     Goto(Rpc, "idle"))
        /\ UNCHANGED <<serverVars, boot>>

\* UpdatePassword: onChange reads the client list at once and starts a
\* goroutine that applies it.
UpdatePassword(c, pw, g) ==
    \/ /\ entries[c] = NoEntry \/ pw = Short
       /\ Refuse
    \/ /\ entries[c] # NoEntry /\ pw # Short
       /\ FreeThread(g)
       /\ Save(c, [entries[c] EXCEPT !.pw = pw],
               thr' = [thr EXCEPT ![g].pc = "build", ![g].build.clients = entries'],
               UNCHANGED thr)
       /\ UNCHANGED <<serverVars, boot>>

IsService(c) == entries[c] # NoEntry /\ entries[c].type = "service"

\* SetServicePermissions: only for services; the server is not reloaded.
SetServicePermissions(c, roles) ==
    \/ /\ ~ IsService(c)
       /\ Refuse
    \/ /\ IsService(c)
       /\ servicePerms' = servicePerms \cup ({c} \X roles)
       /\ UNCHANGED <<entries, file, event, opts, live, thr, boot, acked, used>>

-----------------------------------------------------------------------------
\* onChange and NatsMsgServer.ApplyAuth, on any goroutine

\* GetEntries: the client list, read under the store's mutex.
OnChange(t) ==
    /\ thr[t].pc = "change"
    /\ thr' = [thr EXCEPT ![t].pc = "build", ![t].build.clients = entries]
    /\ UNCHANGED <<entries, file, event, serverVars, boot, acked, used>>

\* MakePermissions for every client in the list.
ApplyBuild(t) ==
    /\ thr[t].pc = "build"
    /\ thr' = [thr EXCEPT ![t].pc = "users", ![t].build.perms = servicePerms]
    /\ UNCHANGED <<entries, file, event, serverVars, boot, acked, used>>

\* srv.NatsOpts is written without a lock, one field after the other.
ApplyUsers(t) ==
    /\ thr[t].pc = "users"
    /\ opts' = [opts EXCEPT !.users = thr[t].build]
    /\ Goto(t, "nkeys")
    /\ UNCHANGED <<entries, file, event, servicePerms, live, boot, acked, used>>

\* Mutant: the nkeys are only replaced in the first ApplyAuth.
ApplyNkeys_Once(t) ==
    /\ thr[t].pc = "nkeys"
    /\ opts' = [opts EXCEPT !.nkeys = IF @ = NoBuild THEN thr[t].build ELSE @]
    /\ Goto(t, "reload")
    /\ UNCHANGED <<entries, file, event, servicePerms, live, boot, acked, used>>

ApplyNkeys(t) ==
    /\ thr[t].pc = "nkeys"
    /\ opts' = [opts EXCEPT !.nkeys = thr[t].build]
    /\ Goto(t, "reload")
    /\ UNCHANGED <<entries, file, event, servicePerms, live, boot, acked, used>>

\* ReloadOptions puts srv.NatsOpts, as it is now, into force.
ApplyReload(t) ==
    /\ thr[t].pc = "reload"
    /\ live' = opts
    /\ Goto(t, IF t = Main /\ boot < 3 THEN "boot" ELSE "idle")
    /\ boot' = IF t = Main THEN boot + 1 ELSE boot
    /\ UNCHANGED <<entries, file, event, servicePerms, opts, acked, used>>

-----------------------------------------------------------------------------
\* AuthService.Start, the file watcher, crashes

\* store.Open: read the file and watch it.
StoreOpen ==
    /\ thr[Main].pc = "open"
    /\ entries' = file
    /\ Goto(Main, "boot")
    /\ UNCHANGED <<file, event, serverVars, boot, acked, used>>

\* Start adds itself, then the launcher, then the administrator.
BootAuth ==
    /\ thr[Main].pc = "boot" /\ boot = 0
    /\ Save(AuthID, Added(AuthID, [type |-> "service", key |-> BootKey,
                                   role |-> "service", pw |-> None]),
            Goto(Main, "change"), FALSE)
    /\ UNCHANGED <<serverVars, boot>>

\* The roles that may use the auth service, set once it is subscribed.
BootPermissions ==
    /\ thr[Main].pc = "boot" /\ boot = 1
    /\ servicePerms' = servicePerms \cup ({AuthID} \X (Roles \cup {"admin"}))
    /\ boot' = 2
    /\ UNCHANGED <<entries, file, event, opts, live, thr, acked, used>>

\* The launcher's account; an error is ignored.
BootLauncher ==
    /\ thr[Main].pc = "boot" /\ boot = 2
    /\ Save(LauncherID, Added(LauncherID, [type |-> "service", key |-> BootKey,
                                           role |-> "service", pw |-> None]),
            Goto(Main, "change") /\ UNCHANGED boot, UNCHANGED thr /\ boot' = 3)
    /\ UNCHANGED serverVars

BootAdmin ==
    /\ thr[Main].pc = "boot" /\ boot = 3
    /\ Save(AdminID, Added(AdminID, [type |-> "user", key |-> BootKey,
                                     role |-> "admin", pw |-> None]),
            Goto(Main, "change"), FALSE)
    /\ UNCHANGED <<serverVars, boot>>

\* The process ends; only the file is left, and the hub is started again.
Restart ==
    /\ entries' = EmptyStore
    /\ event' = FALSE
    /\ servicePerms' = {}
    /\ opts' = NoClients /\ live' = NoClients
    /\ thr' = Started
    /\ boot' = 0
    /\ UNCHANGED file

Crash ==
    /\ used.crashes < MaxCrashes
    /\ used' = [used EXCEPT !.crashes = @ + 1]
    /\ Restart
    /\ UNCHANGED acked

\* StartAuthService panics when its own or the administrator's account cannot
\* be saved.
BootPanics ==
    /\ thr[Main].pc = "boot" /\ boot \in {0, 3}
    /\ used.fails < MaxFails
    /\ used' = [used EXCEPT !.fails = @ + 1]
    /\ acked' = [acked EXCEPT ![IF boot = 0 THEN AuthID ELSE AdminID] = Unknown]
    /\ Restart

\* The file watcher reports a change: Reload replaces the entries in memory.
Reload ==
    /\ event
    /\ event' = FALSE
    /\ entries' = file
    /\ UNCHANGED <<file, serverVars, thr, boot, acked, used>>

-----------------------------------------------------------------------------
\* Specification

Boot ==
    \/ StoreOpen \/ BootAuth \/ BootPermissions \/ BootLauncher \/ BootAdmin
    \/ BootPanics

ManageClients ==
    \E c \in Targets :
        \/ /\ "AddDevice" \in Requests
           /\ \E key \in Keys \cup {None} : AddDevice(c, key)
        \/ /\ "AddService" \in Requests
           /\ \E key \in Keys \cup {None} : AddService(c, key)
        \/ /\ "AddUser" \in Requests
           /\ \E key \in Keys \cup {None}, role \in Roles,
                 pw \in Passwords \cup {None} : AddUser(c, key, role, pw)
        \/ /\ "AddUserShort" \in Requests
           /\ \E key \in Keys \cup {None}, role \in Roles :
                 AddUser(c, key, role, Short)
        \/ "RemoveClient" \in Requests /\ RemoveClient(c)
        \/ /\ "SetClientPassword" \in Requests
           /\ \E pw \in Passwords \cup {Short} : SetClientPassword(c, pw)
        \/ /\ "UpdateClient" \in Requests
           /\ \E type \in {"device", "service", "user", None},
                 key \in Keys \cup {None} : UpdateClient(c, type, key)
        \/ /\ "UpdateClientRole" \in Requests
           /\ \E role \in Roles : UpdateClientRole(c, role)

ManageProfile ==
    \E c \in Targets :
        \/ "UpdateName" \in Requests /\ UpdateName(c)
        \/ "UpdatePubKey" \in Requests /\ \E key \in Keys : UpdatePubKey(c, key)
        \/ /\ "UpdatePassword" \in Requests
           /\ \E pw \in Passwords \cup {Short}, g \in Background : UpdatePassword(c, pw, g)
        \/ /\ "SetServicePermissions" \in Requests
           /\ \E roles \in SUBSET Roles : SetServicePermissions(c, roles)

\* The requests that apply their change to the server before they reply.
SyncRequests == {"AddDevice", "AddService", "AddUser", "RemoveClient", "SetClientPassword"}

\* The RPC subscription passes on the next request when the last has returned.
Request ==
    /\ thr[Rpc].pc = "idle"
    /\ requests < MaxRequests
    /\ requests' = requests + 1
    /\ IF EarlyRequests THEN boot >= 1 ELSE boot = 4
    /\ ManageClients \/ ManageProfile

ApplyAuth(t) == OnChange(t) \/ ApplyBuild(t) \/ ApplyUsers(t) \/ ApplyNkeys(t) \/ ApplyReload(t)

Serve == AddUserPassword \/ UpdateProfile \/ \E g \in Background : UpdatePubKeyStore(g)

Next ==
    \/ Request
    \/ /\ \/ Boot
          \/ Serve
          \/ \E t \in Threads : ApplyAuth(t)
          \/ Reload
          \/ Crash
       /\ UNCHANGED requests

Spec == Init /\ [][Next]_vars

\* The Go scheduler runs every goroutine that can go on; nothing makes clients
\* call, files change or the hub crash.
FairSpec ==
    /\ Spec
    /\ WF_vars((Boot \/ ApplyAuth(Main)) /\ UNCHANGED requests)
    /\ WF_vars((Serve \/ ApplyAuth(Rpc)) /\ UNCHANGED requests)
    /\ \A g \in Background : WF_vars(ApplyAuth(g) /\ UNCHANGED requests)

-----------------------------------------------------------------------------
\* Properties

\* Start has returned and no goroutine has anything left to do.
Quiet == boot = 4 /\ \A t \in Threads : thr[t].pc = "idle"

\* Once every request has been handled, the NATS server authenticates exactly
\* the clients of the store, with their current keys, passwords and roles:
\* each change of the store is followed by an ApplyAuth of a later client list,
\* and no ApplyAuth puts an earlier list back into force.
InSync ==
    Quiet => /\ live.users.clients = entries
             /\ live.nkeys.clients = entries

\* A change that the store accepted is in the password file and in memory,
\* through failing writes for other clients, reloads and crashes.
AcceptedIsDurable ==
    \A c \in Clients :
        acked[c] # Unknown =>
            /\ file[c] = acked[c]
            /\ thr[Main].pc # "open" => entries[c] = acked[c]

Contract ==
    INSTANCE AuthContract WITH
        Nothing <- EmptyStore,
        store <- file,
        server <- [users |-> live.users.clients, nkeys |-> live.nkeys.clients]

\* The service keeps AuthContract: the server only ever moves to the content
\* that the password file has at that moment, users and nkeys together, and a
\* change of the file reaches the server, whatever crashes come in between.
KeepsContract == Contract!Spec

-----------------------------------------------------------------------------
\* What comments say and the code does not do

\* "RemoveClient removes a client and disables authentication": once every
\* request has been handled, a client that is not in the store is not known to
\* the server either.
RemovedIsDisabled ==
    \A c \in Clients :
        Quiet /\ entries[c] = NoEntry =>
            live.users.clients[c] = NoEntry /\ live.nkeys.clients[c] = NoEntry

\* "UpdateClientRole updates a client's role": when store.Update has accepted
\* the profile, the entry has the role the profile carried.
RoleIsUpdated ==
    [][thr[Rpc].pc = "update" /\ event' /\ file' = entries' /\ entries[thr[Rpc].c] # NoEntry
         => entries'[thr[Rpc].c].role = thr[Rpc].prof.role]_vars

\* "If the userID already exists then an error is returned": AddUser goes on
\* after store.Add only for a client that was not in the store.
AddUserIsNew ==
    [][thr[Rpc].pc = "idle" /\ thr'[Rpc].pc \in {"setpw", "change"} /\ thr'[Rpc].prof # NoEntry
         => entries[thr'[Rpc].c] = NoEntry]_vars

\* "This sets the client roles that are allowed to use the service": once every
\* request has been handled, the permissions in force are the ones that the
\* services have set.
PermissionsInForce ==
    Quiet => live.users.perms = servicePerms /\ live.nkeys.perms = servicePerms

=============================================================================
