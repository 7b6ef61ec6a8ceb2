---------------------------- MODULE Permissions -----------------------------
(***************************************************************************)
(* Who may publish and subscribe to what: the addresses that the client    *)
(* library makes of its calls, the permissions of the roles, and what the  *)
(* message server makes of them for each client.                           *)
(*                                                                         *)
(* An address is the sequence of its parts.  The permissions of a role are *)
(* a Go slice: an array, and how much of it belongs to the role.  The      *)
(* array of the managers is that of the administrators as well, because    *)
(* append had room for one more entry.                                     *)
(***************************************************************************)
EXTENDS Integers, Sequences, FiniteSets, Functions

VARIABLES
    arrays,        \* the arrays behind srv.rolePermissions
    servicePerms,  \* srv.servicePermissions: per role, what services have added
    fresh,         \* what they have added since permissions were last applied
    granted        \* per known client: its role and what the server lets it do

permVars == <<arrays, servicePerms, fresh, granted>>

-----------------------------------------------------------------------------
\* Addresses

Unset == ""

Wildcard == "*"

Remainder == ">"

\* MakeSubject of the server.
MakeSubject(msgType, agentID, thingID, name, clientID) ==
    LET Part(id) == IF id = Unset THEN Wildcard ELSE id
    IN <<IF msgType = Unset THEN "event" ELSE msgType, Part(agentID), Part(thingID), Part(name),
         IF clientID = Unset THEN Remainder ELSE clientID>>

\* MakeAddress of the client library, with the tokens of the NATS transport.
MakeAddress(msgType, agentID, thingID, name, clientID) ==
    LET Part(id) == IF id = Unset THEN Wildcard ELSE id
    IN <<IF msgType = Unset THEN "event" ELSE msgType, Part(agentID), Part(thingID), Part(name),
         IF clientID = Unset THEN Remainder ELSE clientID>>

\* SplitAddress, with which the receiver finds out what a message is about.
SplitAddress(addr) ==
    IF addr[1] = "_INBOX"
    THEN [msgType |-> addr[1], agentID |-> addr[2], thingID |-> Unset, name |-> Unset,
          senderID |-> Unset]
    ELSE [msgType |-> addr[1], agentID |-> addr[2], thingID |-> addr[3], name |-> addr[4],
          senderID |-> IF Len(addr) > 4 THEN addr[5] ELSE Unset]

\* The server's rule: does an allowed subject cover what a client asks for?
Covers(allowed, wanted) ==
    LET n == Len(allowed)
        Fits(i) == allowed[i] = wanted[i] \/ (allowed[i] = Wildcard /\ wanted[i] # Remainder)
    IN IF allowed[n] = Remainder
       THEN Len(wanted) >= n /\ \A i \in 1..(n - 1) : Fits(i)
       ELSE Len(wanted) = n /\ \A i \in 1..n : Fits(i)

-----------------------------------------------------------------------------
\* What the client library publishes and subscribes to for client c

PubAction(c, agentID, thingID, name) == MakeAddress("action", agentID, thingID, name, c)

PubConfig(c, agentID, thingID, name) == MakeAddress("config", agentID, thingID, name, c)

PubEvent(c, thingID, name) == MakeAddress("event", c, thingID, name, c)

PubProps(c, thingID) == MakeAddress("event", c, thingID, "$properties", c)

PubTD(c, thingID) == MakeAddress("event", c, thingID, "$td", c)

PubRPCRequest(c, agentID, capability, method) ==
    MakeAddress("rpc", agentID, capability, method, c)

SetActionHandler(c) == MakeAddress("action", c, Unset, Unset, Unset)

SetConfigHandler(c) == MakeAddress("config", c, Unset, Unset, Unset)

SetRPCHandler(c) == MakeAddress("rpc", c, Unset, Unset, Unset)

SubEvents(agentID, thingID, name) == MakeAddress("event", agentID, thingID, name, Unset)

\* The prefix that each way to connect sets for the replies to requests.
CustomInboxPrefix(c) == <<"_INBOX", c>>

-----------------------------------------------------------------------------
\* The permissions of the roles

Own == "{clientID}"

Perm(msgType, agentID, thingID, pub, sub) ==
    [msgType |-> msgType, agentID |-> agentID, thingID |-> thingID, pub |-> pub, sub |-> sub]

devicePermissions ==
    <<Perm("event", Own, Unset, TRUE, FALSE),
      Perm("event", Unset, Unset, FALSE, TRUE),
      Perm("action", Own, Unset, FALSE, TRUE),
      Perm("config", Own, Unset, FALSE, TRUE)>>

viewerPermissions == <<Perm("event", Unset, Unset, FALSE, TRUE)>>

operatorPermissions ==
    <<Perm("event", Unset, Unset, FALSE, TRUE), Perm("action", Unset, Unset, TRUE, FALSE)>>

\* append doubles the capacity of two to four.
managerPermissions == Append(operatorPermissions, Perm("config", Unset, Unset, TRUE, FALSE))

adminPermissions == Append(managerPermissions, Perm("rpc", Unset, Unset, TRUE, FALSE))

\* The four of the administrators do not fit, so this is an array of its own.
servicePermissions ==
    adminPermissions \o
    <<Perm("event", Own, Unset, TRUE, FALSE),
      Perm("rpc", Own, Unset, FALSE, TRUE),
      Perm("action", Own, Unset, FALSE, TRUE),
      Perm("config", Own, Unset, FALSE, TRUE)>>

\* The arrays as the package creates them, each as long as its capacity.
InitArrays ==
    [device |-> devicePermissions, viewer |-> viewerPermissions, operator |-> operatorPermissions,
     shared |-> adminPermissions, service |-> servicePermissions]

\* The slice of each role; the role "" has nil, and no other role is in the map.
DefaultRolePermissions ==
    [device   |-> [array |-> "device", len |-> Len(devicePermissions)],
     viewer   |-> [array |-> "viewer", len |-> Len(viewerPermissions)],
     operator |-> [array |-> "operator", len |-> Len(operatorPermissions)],
     manager  |-> [array |-> "shared", len |-> Len(managerPermissions)],
     admin    |-> [array |-> "shared", len |-> Len(adminPermissions)],
     service  |-> [array |-> "service", len |-> Len(servicePermissions)]]

RoleNone == ""

Roles == DOMAIN DefaultRolePermissions

\* A name that SetRole may have stored and that is no role.
RoleUnknown == "unknown"

-----------------------------------------------------------------------------
\* What the server makes of them

\* The elements of the slice that append(rolePerm, servicePerms...) gives.
RolePermissions(role, arr) ==
    LET slice == DefaultRolePermissions[role]
    IN SubSeq(arr[slice.array], 1, slice.len) \o servicePerms[role]

\* append writes into the array of the role where the array has room.
InPlace(role) ==
    LET slice == DefaultRolePermissions[role]
    IN servicePerms[role] # <<>>
       /\ slice.len + Len(servicePerms[role]) <= Len(arrays[slice.array])

\* The arrays once MakePermissions has run for clients with these roles.
Appended(roles) ==
    LET writers == {r \in roles \intersect Roles : InPlace(r)}
    IN [a \in DOMAIN arrays |->
          IF \E r \in writers : DefaultRolePermissions[r].array = a
          THEN LET r == CHOOSE r \in writers : DefaultRolePermissions[r].array = a
                   new == RolePermissions(r, arrays)
               IN new \o SubSeq(arrays[a], Len(new) + 1, Len(arrays[a]))
          ELSE arrays[a]]

EventStream == <<"$JS", "API", "events">>

JetStreamInfo == <<"$JS", "API", "INFO">>

InboxSub(c) == <<"_INBOX", c, Remainder>>

InboxPub == <<"_INBOX", Remainder>>

\* The subjects of the permissions that a role has in the direction given.
Publishes(role, arr) ==
    IF role \in Roles THEN {p \in Range(RolePermissions(role, arr)) : p.pub} ELSE {}

Subscribes(role, arr) ==
    IF role \in Roles THEN {p \in Range(RolePermissions(role, arr)) : p.sub} ELSE {}

\* Subjects that MakePermissions adds for every client, and for the streams.
BuiltIn(role) ==
    {InboxPub}
    \union (IF role \in Roles THEN {EventStream} ELSE {})
    \union (IF role = "admin" THEN {JetStreamInfo} ELSE {})

\* Mutant: the sender in the subject may be anyone.
MakePermissions_AnySender(c, role, arr) ==
    LET Agent(p) == IF p.agentID = Own THEN c ELSE p.agentID
        Subject(p) == MakeSubject(p.msgType, Agent(p), p.thingID, Unset, Unset)
    IN [role |-> role,
        pub |-> BuiltIn(role) \union {Subject(p) : p \in Publishes(role, arr)},
        sub |-> {InboxSub(c)} \union {Subject(p) : p \in Subscribes(role, arr)}]

\* Mutant: the placeholder is not replaced.
MakePermissions_Placeholder(c, role, arr) ==
    LET Subject(p, sender) == MakeSubject(p.msgType, p.agentID, p.thingID, Unset, sender)
    IN [role |-> role,
        pub |-> BuiltIn(role) \union {Subject(p, c) : p \in Publishes(role, arr)},
        sub |-> {InboxSub(c)} \union {Subject(p, Unset) : p \in Subscribes(role, arr)}]

\* MakePermissions for client c, with the arrays as they are at that moment.
\* A role that is not in the map also denies the streams, which nothing allows.
MakePermissions(c, role, arr) ==
    LET Agent(p) == IF p.agentID = Own THEN c ELSE p.agentID
        Subject(p, sender) == MakeSubject(p.msgType, Agent(p), p.thingID, Unset, sender)
    IN [role |-> role,
        pub |-> BuiltIn(role) \union {Subject(p, c) : p \in Publishes(role, arr)},
        sub |-> {InboxSub(c)} \union {Subject(p, Unset) : p \in Subscribes(role, arr)}]

\* ApplyAuth for the clients of the list: it comes from a map, in any order,
\* so a client may be handled before or after another's append has written.
ApplyPermissions(clients, roleOf) ==
    LET after == Appended({roleOf[c] : c \in clients})
    IN /\ arrays' = after
       /\ fresh' = {}
       /\ \E seen \in {arrays, after} :
             granted' = [c \in clients |-> MakePermissions(c, roleOf[c], seen)]

RpcPerm(serviceID, capability) == Perm("rpc", serviceID, capability, TRUE, FALSE)

\* SetServicePermissions: the roles of the registration may use the capability.
SetServicePermissions(serviceID, reg) ==
    LET perm == RpcPerm(serviceID, reg.capability)
    IN /\ servicePerms' = [r \in Roles |-> IF r \in reg.roles THEN Append(servicePerms[r], perm)
                                           ELSE servicePerms[r]]
       /\ fresh' = fresh \union {<<r, perm>> : r \in Roles \intersect reg.roles}

\* The capabilities of a service that it has registered; all are for administrators too.
Registrations(serviceID) ==
    Cardinality({p \in Range(servicePerms["admin"]) : p.agentID = serviceID})

\* A server process starts with the tables of the package and with no client.
PermInit ==
    /\ arrays = InitArrays
    /\ servicePerms = [r \in Roles |-> <<>>]
    /\ fresh = {}
    /\ granted = <<>>

-----------------------------------------------------------------------------
\* Properties

Allowed(patterns, subject) == \E p \in patterns : Covers(p, subject)

MsgTypes == {"event", "action", "config", "rpc"}

\* The comments on the roles: what a role may publish and subscribe to.
MayPub(role) ==
    CASE role = "operator" -> {"action"}
      [] role = "manager"  -> {"action", "config"}
      [] role = "device"   -> {"event"}
      [] role \in {"admin", "service"} -> MsgTypes
      [] OTHER -> {}

MaySub(role) ==
    CASE role \in {"viewer", "operator", "manager", "admin"} -> {"event"}
      [] role = "device"  -> {"event", "action", "config"}
      [] role = "service" -> MsgTypes
      [] OTHER -> {}

\* A client of the hub publishes in its own name only, events of its own things
\* only, and only what the comment on its role or the registration of a service
\* says; it subscribes to requests and replies for itself only.
OnlyDocumented ==
    \A c \in DOMAIN granted :
       LET role == granted[c].role
           Registered(subject) ==
              role \in Roles /\ \E p \in Range(servicePerms[role]) :
                                   SubSeq(subject, 1, 3) = <<"rpc", p.agentID, p.thingID>>
       IN /\ \A subject \in granted[c].pub \ {InboxPub, EventStream, JetStreamInfo} :
                /\ subject[5] = c
                /\ \/ subject[1] \in MayPub(role) /\ (subject[1] = "event" => subject[2] = c)
                   \/ Registered(subject)
          /\ \A subject \in granted[c].sub \ {InboxSub(c)} :
                subject[1] \in MaySub(role) /\ (subject[1] # "event" => subject[2] = c)

\* What the library publishes and subscribes to in the calls that a role is for.
RolePubs(role, c) ==
    (IF role \in {"operator", "manager", "admin", "service"}
     THEN {PubAction(c, "agent", "thing", "name")} ELSE {})
    \union (IF role \in {"manager", "admin", "service"}
            THEN {PubConfig(c, "agent", "thing", "name")} ELSE {})
    \union (IF role \in {"device", "service"}
            THEN {PubEvent(c, "thing", "name"), PubProps(c, "thing"), PubTD(c, "thing")} ELSE {})
    \union (IF role = "service" THEN {PubRPCRequest(c, "agent", "thing", "name")} ELSE {})

RoleSubs(role, c) ==
    (IF role \in Roles
     THEN {SubEvents(Unset, Unset, Unset), SubEvents("agent", "thing", "name")} ELSE {})
    \union (IF role \in {"device", "service"}
            THEN {SetActionHandler(c), SetConfigHandler(c)} ELSE {})
    \union (IF role = "service" THEN {SetRPCHandler(c)} ELSE {})

\* Every call of the client library that the role of a client is for, and every
\* capability that services had registered for the role when permissions were last
\* applied, passes the server, and the receiver finds the sender in the address.
LibraryWorks ==
    \A c \in DOMAIN granted :
       LET role == granted[c].role
           applied == IF role \in Roles
                      THEN {p \in Range(servicePerms[role]) : <<role, p>> \notin fresh} ELSE {}
           rpcs == {PubRPCRequest(c, p.agentID, p.thingID, "name") : p \in applied}
       IN /\ \A addr \in RolePubs(role, c) \union rpcs :
                Allowed(granted[c].pub, addr) /\ SplitAddress(addr).senderID = c
          /\ \A addr \in RoleSubs(role, c) : Allowed(granted[c].sub, addr)
          /\ Allowed(granted[c].sub, CustomInboxPrefix(c) \o <<Wildcard>>)
          /\ Allowed(granted[c].pub, CustomInboxPrefix("other") \o <<"id">>)

-----------------------------------------------------------------------------
\* What comments say and the code does not do

\* "administrators can in addition to operators publish all RPCs".
\* The append for a manager overwrites that entry of the shared array when
\* services have registered one capability for managers.
AdminPublishesAllRpcs ==
    \A c \in DOMAIN granted :
       granted[c].role = "admin"
          => Allowed(granted[c].pub, PubRPCRequest(c, "agent", "thing", "name"))

\* "SetServicePermissions sets the client roles that are allowed to use this
\* service": it has no effect before the permissions are applied for another reason.
RegisteredTakesEffect ==
    \A c \in DOMAIN granted : granted[c].role \in Roles =>
       \A p \in Range(servicePerms[granted[c].role]) :
          Allowed(granted[c].pub, PubRPCRequest(c, p.agentID, p.thingID, "name"))

=============================================================================
