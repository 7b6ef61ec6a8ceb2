------------------------- MODULE PermissionsProofs --------------------------
(***************************************************************************)
(* What the message server lets its clients do is what the comments on the *)
(* roles and the registrations of services say, and enough for the client  *)
(* library: for any clients, roles and registrations, in the system of     *)
(* HubCore.  The tables are Go slices, and the append for the managers     *)
(* overwrites an entry of the administrators; what the array may then hold *)
(* is the invariant.                                                       *)
(***************************************************************************)
EXTENDS HubCore, SequenceTheorems, TLAPS

ServiceIDs == {"auth", "directory", "history", "provisioning", "state", "hiveoview"}

Capabilities ==
    {"manageClients", "manageRoles", "profile", "readDirectory", "updateDirectory", "readHistory",
     "manageHistory", "manageProvisioning", "storage", "hiveoview"}

\* What services register, and what may be the last entry of the array that
\* managers and administrators share.
ServicePerm ==
    [msgType : {"rpc"}, agentID : ServiceIDs, thingID : Capabilities, pub : {TRUE}, sub : {FALSE}]

RpcEntry == ServicePerm \union {RpcPerm(Unset, Unset)}

Entries ==
    [msgType : MsgTypes, agentID : {Unset, Own} \union ServiceIDs,
     thingID : {Unset} \union Capabilities, pub : BOOLEAN, sub : BOOLEAN]

\* The arrays with that entry.
ArraysWith(arr, p) ==
    /\ {"device", "viewer", "operator", "shared", "service"} \subseteq DOMAIN arr
    /\ arr["device"] = devicePermissions
    /\ arr["viewer"] = viewerPermissions
    /\ arr["operator"] = operatorPermissions
    /\ arr["shared"] = Append(managerPermissions, p)
    /\ arr["service"] = servicePermissions

\* The entries of a role without those of services.
OwnEntries(role, p) ==
    LET viewer   == {Perm("event", Unset, Unset, FALSE, TRUE)}
        operator == viewer \union {Perm("action", Unset, Unset, TRUE, FALSE)}
        manager  == operator \union {Perm("config", Unset, Unset, TRUE, FALSE)}
        handlers == {Perm("action", Own, Unset, FALSE, TRUE), Perm("config", Own, Unset, FALSE, TRUE)}
        agent    == handlers \union {Perm("event", Own, Unset, TRUE, FALSE)}
    IN {e \in Entries :
          \/ role = "device" /\ e \in viewer \union agent
          \/ role = "viewer" /\ e \in viewer
          \/ role = "operator" /\ e \in operator
          \/ role = "manager" /\ e \in manager
          \/ role = "admin" /\ e \in manager \union {p}
          \/ role = "service" /\ e \in manager \union agent
                \union {Perm("rpc", Unset, Unset, TRUE, FALSE), Perm("rpc", Own, Unset, FALSE, TRUE)}}

\* The roles that have permissions.
LEMMA RoleNames == Roles = {"device", "viewer", "operator", "manager", "admin", "service"}
  BY DEF Roles, DefaultRolePermissions

\* What append does to the entries of a slice.
LEMMA AppendRange ==
    ASSUME NEW S, NEW s \in Seq(S), NEW e \in S
    PROVE  /\ Append(s, e) \in Seq(S) /\ Len(Append(s, e)) = Len(s) + 1
           /\ Range(Append(s, e)) = Range(s) \union {e}
<1>1. Append(s, e) = s \o <<e>> /\ <<e>> \in Seq(S)
  BY AppendIsConcat
<1>2. Range(<<e>>) = {e}
  BY DEF Range
<1>3. Range(s \o <<e>>) = Range(s) \union Range(<<e>>)
  BY <1>1, RangeConcatenation, Zenon
<1> QED BY <1>1, <1>2, <1>3, AppendProperties

\* The tables of the package, as sets.
LEMMA Tables ==
    /\ devicePermissions \in Seq(Entries) /\ Len(devicePermissions) = 4
    /\ viewerPermissions \in Seq(Entries) /\ Len(viewerPermissions) = 1
    /\ operatorPermissions \in Seq(Entries) /\ Len(operatorPermissions) = 2
    /\ managerPermissions \in Seq(Entries) /\ Len(managerPermissions) = 3
    /\ adminPermissions = Append(managerPermissions, Perm("rpc", Unset, Unset, TRUE, FALSE))
    /\ servicePermissions \in Seq(Entries) /\ Len(servicePermissions) = 8
    /\ Range(devicePermissions) = OwnEntries("device", Unset)
    /\ Range(viewerPermissions) = OwnEntries("viewer", Unset)
    /\ Range(operatorPermissions) = OwnEntries("operator", Unset)
    /\ Range(managerPermissions) = OwnEntries("manager", Unset)
    /\ Range(servicePermissions) = OwnEntries("service", Unset)
<1> DEFINE viewE == Perm("event", Unset, Unset, FALSE, TRUE)
           action == Perm("action", Unset, Unset, TRUE, FALSE)
           config == Perm("config", Unset, Unset, TRUE, FALSE)
           rpc == Perm("rpc", Unset, Unset, TRUE, FALSE)
           ownE == Perm("event", Own, Unset, TRUE, FALSE)
           ownR == Perm("rpc", Own, Unset, FALSE, TRUE)
           ownA == Perm("action", Own, Unset, FALSE, TRUE)
           ownC == Perm("config", Own, Unset, FALSE, TRUE)
           own == <<ownE, ownR, ownA, ownC>>
<1>0. /\ viewE \in Entries /\ action \in Entries /\ config \in Entries /\ rpc \in Entries
      /\ ownE \in Entries /\ ownR \in Entries /\ ownA \in Entries /\ ownC \in Entries
  <2>1. \A m \in MsgTypes, a \in {Unset, Own}, pub \in BOOLEAN, sub \in BOOLEAN :
          Perm(m, a, Unset, pub, sub) \in Entries
    BY DEF Entries, Perm
  <2>2. TRUE \in BOOLEAN /\ FALSE \in BOOLEAN /\ Unset \in {Unset, Own} /\ Own \in {Unset, Own}
        /\ "event" \in MsgTypes /\ "action" \in MsgTypes /\ "config" \in MsgTypes /\ "rpc" \in MsgTypes
    BY DEF MsgTypes
  <2> QED BY <2>1, <2>2, Zenon
<1>1. /\ devicePermissions = <<ownE, viewE, ownA, ownC>>
      /\ viewerPermissions = <<viewE>>
      /\ operatorPermissions = <<viewE, action>>
      /\ managerPermissions = Append(operatorPermissions, config)
      /\ adminPermissions = Append(managerPermissions, rpc)
      /\ servicePermissions = adminPermissions \o own
  BY DEF devicePermissions, viewerPermissions, operatorPermissions, managerPermissions, adminPermissions,
         servicePermissions
<1>2. /\ OwnEntries("device", Unset) = {viewE, ownE, ownA, ownC}
      /\ OwnEntries("viewer", Unset) = {viewE}
      /\ OwnEntries("operator", Unset) = {viewE, action}
      /\ OwnEntries("manager", Unset) = {viewE, action, config}
      /\ OwnEntries("service", Unset) = {viewE, action, config, rpc, ownE, ownR, ownA, ownC}
  BY <1>0 DEF OwnEntries
<1> HIDE DEF viewE, action, config, rpc, ownE, ownR, ownA, ownC
<1>3. /\ devicePermissions \in Seq(Entries) /\ Len(devicePermissions) = 4
      /\ Range(devicePermissions) = {viewE, ownE, ownA, ownC}
  <2>1. Range(<<ownE, viewE, ownA, ownC>>) = {ownE, viewE, ownA, ownC}
    BY DEF Range
  <2>2. <<ownE, viewE, ownA, ownC>> \in Seq(Entries) /\ Len(<<ownE, viewE, ownA, ownC>>) = 4
    BY <1>0
  <2> QED BY <1>1, <2>1, <2>2
<1>4. /\ viewerPermissions \in Seq(Entries) /\ Len(viewerPermissions) = 1
      /\ Range(viewerPermissions) = {viewE}
  <2>1. Range(<<viewE>>) = {viewE}
    BY DEF Range
  <2>2. <<viewE>> \in Seq(Entries) /\ Len(<<viewE>>) = 1
    BY <1>0
  <2> QED BY <1>1, <2>1, <2>2
<1>5. /\ operatorPermissions \in Seq(Entries) /\ Len(operatorPermissions) = 2
      /\ Range(operatorPermissions) = {viewE, action}
  <2>1. Range(<<viewE, action>>) = {viewE, action}
    BY DEF Range
  <2>2. <<viewE, action>> \in Seq(Entries) /\ Len(<<viewE, action>>) = 2
    BY <1>0
  <2> QED BY <1>1, <2>1, <2>2
<1>6. /\ managerPermissions \in Seq(Entries) /\ Len(managerPermissions) = 3
      /\ Range(managerPermissions) = {viewE, action, config}
  <2> DEFINE s == Append(operatorPermissions, config)
  <2>1. s \in Seq(Entries) /\ Len(s) = Len(operatorPermissions) + 1
    BY <1>0, <1>5, AppendRange, Zenon
  <2>a. Range(s) = Range(operatorPermissions) \union {config}
    BY <1>0, <1>5, AppendRange
  <2> HIDE DEF s
  <2>2. managerPermissions = s
    BY <1>1 DEF s
  <2> QED BY <1>5, <2>1, <2>a, <2>2
<1>7. /\ adminPermissions \in Seq(Entries) /\ Len(adminPermissions) = 4
      /\ Range(adminPermissions) = {viewE, action, config, rpc}
  <2> DEFINE s == Append(managerPermissions, rpc)
  <2>1. s \in Seq(Entries) /\ Len(s) = Len(managerPermissions) + 1
    BY <1>0, <1>6, AppendRange, Zenon
  <2>a. Range(s) = Range(managerPermissions) \union {rpc}
    BY <1>0, <1>6, AppendRange
  <2> HIDE DEF s
  <2>2. adminPermissions = s
    BY <1>1 DEF s
  <2> QED BY <1>6, <2>1, <2>a, <2>2
<1>8. own \in Seq(Entries) /\ Len(own) = 4 /\ Range(own) = {ownE, ownR, ownA, ownC}
  <2>1. Range(own) = {ownE, ownR, ownA, ownC}
    BY DEF Range
  <2> QED BY <1>0, <2>1
<1>9. /\ servicePermissions \in Seq(Entries) /\ Len(servicePermissions) = 8
      /\ Range(servicePermissions) = {viewE, action, config, rpc, ownE, ownR, ownA, ownC}
  <2> HIDE DEF own
  <2>1. Range(adminPermissions \o own) = Range(adminPermissions) \union Range(own)
    BY <1>7, <1>8, RangeConcatenation
  <2>2. /\ servicePermissions \in Seq(Entries)
        /\ Len(servicePermissions) = Len(adminPermissions) + Len(own)
    BY <1>1, <1>7, <1>8, ConcatProperties, Zenon
  <2>3. Len(servicePermissions) = 8
    BY <1>7, <1>8, <2>2
  <2> QED BY <1>1, <1>7, <1>8, <2>1, <2>2, <2>3
<1> QED BY <1>1, <1>2, <1>3, <1>4, <1>5, <1>6, <1>9 DEF rpc

\* What a service registers for a role is an entry to publish requests.
LEMMA EntryTypes ==
    /\ ServicePerm \subseteq RpcEntry /\ RpcEntry \subseteq Entries
    /\ Perm("rpc", Unset, Unset, TRUE, FALSE) \in RpcEntry
    /\ \A p \in RpcEntry : p.msgType = "rpc" /\ p.pub = TRUE /\ p.sub = FALSE
<1>1. ServicePerm \subseteq Entries
  BY DEF ServicePerm, Entries, MsgTypes
<1>2. RpcPerm(Unset, Unset) = Perm("rpc", Unset, Unset, TRUE, FALSE)
  BY DEF RpcPerm
<1>3. Perm("rpc", Unset, Unset, TRUE, FALSE) \in Entries
  BY DEF Perm, Entries, MsgTypes
<1>4. \A p \in RpcEntry : p.msgType = "rpc" /\ p.pub = TRUE /\ p.sub = FALSE
  <2> SUFFICES ASSUME NEW p \in RpcEntry PROVE p.msgType = "rpc" /\ p.pub = TRUE /\ p.sub = FALSE
    OBVIOUS
  <2>1. CASE p \in ServicePerm
    BY <2>1 DEF ServicePerm
  <2>2. CASE p = Perm("rpc", Unset, Unset, TRUE, FALSE)
    BY <2>2 DEF Perm
  <2> QED BY <1>2, <2>1, <2>2 DEF RpcEntry
<1> QED BY <1>1, <1>2, <1>3, <1>4 DEF RpcEntry

\* The array that managers and administrators share.
LEMMA SharedArray ==
    ASSUME NEW p \in RpcEntry
    PROVE  /\ Append(managerPermissions, p) \in Seq(Entries) /\ Len(Append(managerPermissions, p)) = 4
           /\ Range(Append(managerPermissions, p)) = OwnEntries("admin", p)
           /\ SubSeq(Append(managerPermissions, p), 1, 3) = managerPermissions
<1>1. p \in Entries /\ managerPermissions \in Seq(Entries) /\ Len(managerPermissions) = 3
  BY EntryTypes, Tables
<1>2. /\ Append(managerPermissions, p) \in Seq(Entries)
      /\ Len(Append(managerPermissions, p)) = Len(managerPermissions) + 1
  BY <1>1, AppendRange, Zenon
<1>3. Range(Append(managerPermissions, p)) = Range(managerPermissions) \union {p}
  BY <1>1, Tables, AppendRange
<1>4. OwnEntries("admin", p) = OwnEntries("manager", Unset) \union {p}
  BY <1>1 DEF OwnEntries
<1>5. SubSeq(Append(managerPermissions, p), 1, 3) = managerPermissions
  <2>1. Append(managerPermissions, p) = managerPermissions \o <<p>> /\ <<p>> \in Seq(Entries)
    BY <1>1, Tables, AppendIsConcat
  <2>2. SubSeq(managerPermissions \o <<p>>, 1, 3) = SubSeq(managerPermissions, 1, 3)
    BY <2>1, Tables, SubSeqOfConcat1
  <2>3. SubSeq(managerPermissions, 1, 3) = managerPermissions
    BY Tables, SubSeqFull
  <2> QED BY <2>1, <2>2, <2>3
<1> QED BY <1>2, <1>3, <1>4, <1>5, Tables

\* What a role has of its own, whatever an append has left in the arrays.
LEMMA OwnSlice ==
    ASSUME NEW p \in RpcEntry, NEW arr, ArraysWith(arr, p), NEW role \in Roles
    PROVE  LET slice == DefaultRolePermissions[role]
               own == SubSeq(arr[slice.array], 1, slice.len)
           IN own \in Seq(Entries) /\ Range(own) = OwnEntries(role, p)
<1> DEFINE slice == DefaultRolePermissions[role]
           own == SubSeq(arr[slice.array], 1, slice.len)
<1>1. CASE role = "device"
  <2>1. slice.array = "device" /\ slice.len = Len(devicePermissions)
    BY <1>1 DEF DefaultRolePermissions
  <2>2. own = devicePermissions
    BY <2>1, Tables, SubSeqFull DEF ArraysWith
  <2>3. OwnEntries(role, p) = OwnEntries("device", Unset)
    BY <1>1 DEF OwnEntries
  <2> QED BY <2>2, <2>3, Tables
<1>2. CASE role = "viewer"
  <2>1. slice.array = "viewer" /\ slice.len = Len(viewerPermissions)
    BY <1>2 DEF DefaultRolePermissions
  <2>2. own = viewerPermissions
    BY <2>1, Tables, SubSeqFull DEF ArraysWith
  <2>3. OwnEntries(role, p) = OwnEntries("viewer", Unset)
    BY <1>2 DEF OwnEntries
  <2> QED BY <2>2, <2>3, Tables
<1>3. CASE role = "operator"
  <2>1. slice.array = "operator" /\ slice.len = Len(operatorPermissions)
    BY <1>3 DEF DefaultRolePermissions
  <2>2. own = operatorPermissions
    BY <2>1, Tables, SubSeqFull DEF ArraysWith
  <2>3. OwnEntries(role, p) = OwnEntries("operator", Unset)
    BY <1>3 DEF OwnEntries
  <2> QED BY <2>2, <2>3, Tables
<1>4. CASE role = "manager"
  <2>1. slice.array = "shared" /\ slice.len = 3
    BY <1>4, Tables DEF DefaultRolePermissions
  <2>2. own = managerPermissions
    BY <2>1, SharedArray DEF ArraysWith
  <2>3. OwnEntries(role, p) = OwnEntries("manager", Unset)
    BY <1>4 DEF OwnEntries
  <2> QED BY <2>2, <2>3, Tables
<1>5. CASE role = "admin"
  <2> DEFINE all == Append(managerPermissions, p)
  <2>1. all \in Seq(Entries) /\ Len(all) = 4 /\ Range(all) = OwnEntries("admin", p)
    BY SharedArray
  <2>2. slice.array = "shared" /\ slice.len = 4
    <3>1. Len(adminPermissions) = 4
      BY SharedArray, EntryTypes, Tables
    <3> QED BY <1>5, <3>1 DEF DefaultRolePermissions
  <2>3. arr[slice.array] = all
    BY <2>2 DEF ArraysWith
  <2> HIDE DEF all
  <2>4. own = all
    BY <2>1, <2>2, <2>3, SubSeqFull
  <2> QED BY <1>5, <2>1, <2>4
<1>6. CASE role = "service"
  <2>1. slice.array = "service" /\ slice.len = Len(servicePermissions)
    BY <1>6 DEF DefaultRolePermissions
  <2>2. own = servicePermissions
    BY <2>1, Tables, SubSeqFull DEF ArraysWith
  <2>3. OwnEntries(role, p) = OwnEntries("service", Unset)
    BY <1>6 DEF OwnEntries
  <2> QED BY <2>2, <2>3, Tables
<1> QED BY <1>1, <1>2, <1>3, <1>4, <1>5, <1>6, RoleNames

RegisteredOK == servicePerms \in [Roles -> Seq(ServicePerm)]

\* The entries of a role are its own and those that services have registered for it.
LEMMA EntriesOf ==
    ASSUME RegisteredOK, NEW p \in RpcEntry, NEW arr, ArraysWith(arr, p), NEW role \in Roles
    PROVE  Range(RolePermissions(role, arr)) = OwnEntries(role, p) \union Range(servicePerms[role])
<1> DEFINE slice == DefaultRolePermissions[role]
           own == SubSeq(arr[slice.array], 1, slice.len)
<1>1. own \in Seq(Entries) /\ Range(own) = OwnEntries(role, p)
  BY OwnSlice
<1>2. servicePerms[role] \in Seq(Entries)
  BY EntryTypes, SeqMonotonic DEF RegisteredOK
<1>3. RolePermissions(role, arr) = own \o servicePerms[role]
  BY DEF RolePermissions
<1> HIDE DEF own
<1> QED BY <1>1, <1>2, <1>3, RangeConcatenation

\* Only the managers' append writes into an array, if there is one registration
\* for managers: it replaces the last entry of the shared array by that one.
LEMMA AppendedArrays ==
    ASSUME RegisteredOK, NEW p \in RpcEntry, ArraysWith(arrays, p), NEW roles
    PROVE  \E q \in RpcEntry : ArraysWith(Appended(roles), q)
<1> DEFINE writers == {r \in roles \intersect Roles : InPlace(r)}
           sp == servicePerms["manager"]
           mgr == managerPermissions
<1>0. "manager" \in Roles /\ sp \in Seq(ServicePerm) /\ mgr \in Seq(Entries) /\ Len(mgr) = 3
  BY RoleNames, Tables DEF RegisteredOK
<1>1. ASSUME NEW r \in Roles, InPlace(r) PROVE r = "manager" /\ Len(sp) = 1
  <2> DEFINE slice == DefaultRolePermissions[r]
             n == Len(servicePerms[r])
  <2>1. n \in Nat /\ n # 0
    <3>1. servicePerms[r] \in Seq(ServicePerm) /\ servicePerms[r] # <<>>
      BY <1>1 DEF RegisteredOK, InPlace
    <3> QED BY <3>1, EmptySeq
  <2>2. slice.len + n <= Len(arrays[slice.array])
    BY <1>1 DEF InPlace
  <2>3. Len(adminPermissions) = 4
    BY SharedArray, EntryTypes, Tables
  <2> DEFINE len == slice.len
             room == Len(arrays[slice.array])
  <2>4. (len \in {1, 2, 4, 8} /\ room = len) \/ (r = "manager" /\ len = 3 /\ room = 4)
    <3>1. r = "device" => slice.len = 4 /\ slice.array = "device"
      BY Tables DEF DefaultRolePermissions
    <3>2. r = "viewer" => slice.len = 1 /\ slice.array = "viewer"
      BY Tables DEF DefaultRolePermissions
    <3>3. r = "operator" => slice.len = 2 /\ slice.array = "operator"
      BY Tables DEF DefaultRolePermissions
    <3>4. r = "manager" => slice.len = 3 /\ slice.array = "shared"
      BY Tables DEF DefaultRolePermissions
    <3>5. r = "admin" => slice.len = 4 /\ slice.array = "shared"
      BY <2>3 DEF DefaultRolePermissions
    <3>6. r = "service" => slice.len = 8 /\ slice.array = "service"
      BY Tables DEF DefaultRolePermissions
    <3>7. /\ Len(arrays["device"]) = 4 /\ Len(arrays["viewer"]) = 1 /\ Len(arrays["operator"]) = 2
          /\ Len(arrays["shared"]) = 4 /\ Len(arrays["service"]) = 8
      BY Tables, SharedArray DEF ArraysWith
    <3>8. r = "device" \/ r = "viewer" \/ r = "operator" \/ r = "manager" \/ r = "admin" \/ r = "service"
      BY RoleNames
    <3> HIDE DEF slice
    <3> QED BY <3>1, <3>2, <3>3, <3>4, <3>5, <3>6, <3>7, <3>8
  <2>a. len + n <= room
    BY <2>2
  <2> HIDE DEF slice, n, len, room
  <2>5. r = "manager" /\ n = 1
    BY <2>1, <2>4, <2>a
  <2> QED BY <2>5 DEF n
<1>2. DefaultRolePermissions["manager"] = [array |-> "shared", len |-> 3]
  BY Tables DEF DefaultRolePermissions
<1>3. CASE "manager" \in writers
  <2>1. Len(sp) = 1 /\ writers = {"manager"}
    BY <1>1, <1>3
  <2> DEFINE q == sp[1]
             new == RolePermissions("manager", arrays)
             after == Appended(roles)
  <2>2. q \in ServicePerm /\ q \in RpcEntry /\ q \in Entries
    BY <1>0, <2>1, ElementOfSeq, EntryTypes
  <2>3. sp = <<q>>
    <3>1. <<q>> \in Seq(ServicePerm) /\ Len(<<q>>) = 1 /\ <<q>>[1] = q
      BY <2>2
    <3>2. \A i \in 1..1 : i = 1
      OBVIOUS
    <3> HIDE DEF sp
    <3> QED BY <1>0, <2>1, <3>1, <3>2, SeqEqual
  <2>4. new = Append(mgr, q)
    <3>1. new = SubSeq(arrays["shared"], 1, 3) \o sp
      BY <1>2 DEF RolePermissions
    <3>2. SubSeq(arrays["shared"], 1, 3) = mgr
      BY SharedArray DEF ArraysWith
    <3>3. Append(mgr, q) = mgr \o <<q>>
      BY <1>0, <2>2, AppendIsConcat
    <3> HIDE DEF new, q, sp
    <3> QED BY <2>3, <3>1, <3>2, <3>3
  <2>5. new \o SubSeq(arrays["shared"], Len(new) + 1, Len(arrays["shared"])) = new
    <3>1. new \in Seq(Entries) /\ Len(new) = 4
      BY <2>2, <2>4, SharedArray
    <3>2. Len(arrays["shared"]) = 4
      BY SharedArray DEF ArraysWith
    <3>3. SubSeq(arrays["shared"], 5, 4) = <<>>
      BY SubSeqEmpty
    <3> HIDE DEF new
    <3> QED BY <3>1, <3>2, <3>3, ConcatEmptySeq
  <2>6. \A a \in DOMAIN arrays :
          after[a] = IF a = "shared" THEN Append(mgr, q) ELSE arrays[a]
    <3>1. \A a : (\E r \in writers : DefaultRolePermissions[r].array = a) <=> a = "shared"
      BY <1>2, <2>1
    <3>2. (CHOOSE r \in writers : DefaultRolePermissions[r].array = "shared") = "manager"
      BY <1>2, <2>1
    <3> HIDE DEF q
    <3> QED BY <2>4, <2>5, <3>1, <3>2 DEF Appended
  <2>7. DOMAIN after = DOMAIN arrays
    BY DEF Appended
  <2>8. ArraysWith(after, q)
    <3> HIDE DEF after, q
    <3> QED BY <2>6, <2>7 DEF ArraysWith
  <2> QED BY <2>2, <2>8
<1>4. CASE "manager" \notin writers
  <2>1. writers = {}
    BY <1>1, <1>4
  <2>2. \A a \in DOMAIN arrays : Appended(roles)[a] = arrays[a]
    BY <2>1 DEF Appended
  <2>3. DOMAIN Appended(roles) = DOMAIN arrays
    BY DEF Appended
  <2> QED BY <2>2, <2>3 DEF ArraysWith
<1> QED BY <1>3, <1>4

\* The parts of a subject, and of an address, that is for one message type.
Part(id) == IF id = Unset THEN Wildcard ELSE id

Subject5(m, a, t, n, c) == <<m, Part(a), Part(t), Part(n), IF c = Unset THEN Remainder ELSE c>>

\* A subject has the parts that were given, and wildcards for the others.
LEMMA SubjectParts ==
    ASSUME NEW m, m # Unset, NEW a, NEW t, NEW n, NEW c
    PROVE  /\ MakeSubject(m, a, t, n, c) = Subject5(m, a, t, n, c)
           /\ MakeAddress(m, a, t, n, c) = Subject5(m, a, t, n, c)
  BY DEF MakeSubject, MakeAddress, Subject5, Part

\* An entry that is the same part by part, or has a wildcard, covers an address.
LEMMA CoversFive ==
    ASSUME NEW a1, NEW a2, NEW a3, NEW a4, NEW a5, NEW w1, NEW w2, NEW w3, NEW w4, NEW w5,
           a1 = w1, a5 = w5,
           a2 = w2 \/ (a2 = Wildcard /\ w2 # Remainder),
           a3 = w3 \/ (a3 = Wildcard /\ w3 # Remainder),
           a4 = w4 \/ (a4 = Wildcard /\ w4 # Remainder)
    PROVE  Covers(<<a1, a2, a3, a4, a5>>, <<w1, w2, w3, w4, w5>>)
<1> DEFINE a == <<a1, a2, a3, a4, a5>>
           w == <<w1, w2, w3, w4, w5>>
<1>1. Len(a) = 5 /\ Len(w) = 5
  OBVIOUS
<1>2. /\ a[1] = a1 /\ a[2] = a2 /\ a[3] = a3 /\ a[4] = a4 /\ a[5] = a5
      /\ w[1] = w1 /\ w[2] = w2 /\ w[3] = w3 /\ w[4] = w4 /\ w[5] = w5
  OBVIOUS
<1> HIDE DEF a, w
<1>3. \A i \in 1..5 : a[i] = w[i] \/ (a[i] = Wildcard /\ w[i] # Remainder)
  <2> SUFFICES ASSUME NEW i \in 1..5 PROVE a[i] = w[i] \/ (a[i] = Wildcard /\ w[i] # Remainder)
    OBVIOUS
  <2>1. i = 1 \/ i = 2 \/ i = 3 \/ i = 4 \/ i = 5
    OBVIOUS
  <2> QED BY <1>2, <2>1
<1>4. Covers(a, w)
  BY <1>1, <1>3 DEF Covers
<1> QED BY <1>4 DEF a, w

\* What the roles have of their own is what the comments on them say.
LEMMA OwnDocumented ==
    ASSUME NEW role \in Roles, NEW p \in RpcEntry, NEW e \in OwnEntries(role, p)
    PROVE  /\ e.pub => e.msgType \in MayPub(role) /\ (e.msgType = "event" => e.agentID = Own)
           /\ e.sub => e.msgType \in MaySub(role) /\ (e.msgType # "event" => e.agentID = Own)
<1> DEFINE VE == Perm("event", Unset, Unset, FALSE, TRUE)
           PA == Perm("action", Unset, Unset, TRUE, FALSE)
           PC == Perm("config", Unset, Unset, TRUE, FALSE)
           PR == Perm("rpc", Unset, Unset, TRUE, FALSE)
           OE == Perm("event", Own, Unset, TRUE, FALSE)
           OR == Perm("rpc", Own, Unset, FALSE, TRUE)
           OA == Perm("action", Own, Unset, FALSE, TRUE)
           OC == Perm("config", Own, Unset, FALSE, TRUE)
<1>1. /\ VE.msgType = "event" /\ VE.agentID = Unset /\ VE.pub = FALSE /\ VE.sub = TRUE
      /\ PA.msgType = "action" /\ PA.agentID = Unset /\ PA.pub = TRUE /\ PA.sub = FALSE
      /\ PC.msgType = "config" /\ PC.agentID = Unset /\ PC.pub = TRUE /\ PC.sub = FALSE
      /\ PR.msgType = "rpc" /\ PR.agentID = Unset /\ PR.pub = TRUE /\ PR.sub = FALSE
      /\ OE.msgType = "event" /\ OE.agentID = Own /\ OE.pub = TRUE /\ OE.sub = FALSE
      /\ OR.msgType = "rpc" /\ OR.agentID = Own /\ OR.pub = FALSE /\ OR.sub = TRUE
      /\ OA.msgType = "action" /\ OA.agentID = Own /\ OA.pub = FALSE /\ OA.sub = TRUE
      /\ OC.msgType = "config" /\ OC.agentID = Own /\ OC.pub = FALSE /\ OC.sub = TRUE
  BY DEF Perm
<1>2. p.msgType = "rpc" /\ p.sub = FALSE
  BY EntryTypes
<1>3. CASE role = "device"
  <2>1. MayPub(role) = {"event"} /\ MaySub(role) = {"event", "action", "config"}
    BY <1>3 DEF MayPub, MaySub
  <2>2. e \in {VE, OE, OA, OC}
    BY <1>3 DEF OwnEntries
  <2> HIDE DEF VE, PA, PC, PR, OE, OR, OA, OC
  <2> QED BY <1>1, <1>2, <2>1, <2>2
<1>4. CASE role = "viewer"
  <2>1. MaySub(role) = {"event"}
    BY <1>4 DEF MayPub, MaySub
  <2>2. e \in {VE}
    BY <1>4 DEF OwnEntries
  <2> HIDE DEF VE, PA, PC, PR, OE, OR, OA, OC
  <2> QED BY <1>1, <1>2, <2>1, <2>2
<1>5. CASE role = "operator"
  <2>1. MayPub(role) = {"action"} /\ MaySub(role) = {"event"}
    BY <1>5 DEF MayPub, MaySub
  <2>2. e \in {VE, PA}
    BY <1>5 DEF OwnEntries
  <2> HIDE DEF VE, PA, PC, PR, OE, OR, OA, OC
  <2> QED BY <1>1, <1>2, <2>1, <2>2
<1>6. CASE role = "manager"
  <2>1. MayPub(role) = {"action", "config"} /\ MaySub(role) = {"event"}
    BY <1>6 DEF MayPub, MaySub
  <2>2. e \in {VE, PA, PC}
    BY <1>6 DEF OwnEntries
  <2> HIDE DEF VE, PA, PC, PR, OE, OR, OA, OC
  <2> QED BY <1>1, <1>2, <2>1, <2>2
<1>7. CASE role = "admin"
  <2>1. MayPub(role) = {"event", "action", "config", "rpc"} /\ MaySub(role) = {"event"}
    BY <1>7 DEF MayPub, MaySub, MsgTypes
  <2>2. e \in {VE, PA, PC, p}
    BY <1>7 DEF OwnEntries
  <2> HIDE DEF VE, PA, PC, PR, OE, OR, OA, OC
  <2> QED BY <1>1, <1>2, <2>1, <2>2
<1>8. CASE role = "service"
  <2>1. MayPub(role) = MaySub(role) /\ MaySub(role) = {"event", "action", "config", "rpc"}
    BY <1>8 DEF MayPub, MaySub, MsgTypes
  <2>2. e \in {VE, PA, PC, PR, OE, OR, OA, OC}
    BY <1>8 DEF OwnEntries
  <2> HIDE DEF VE, PA, PC, PR, OE, OR, OA, OC
  <2> QED BY <1>1, <1>2, <2>1, <2>2
<1> QED BY <1>3, <1>4, <1>5, <1>6, <1>7, <1>8, RoleNames

\* OnlyDocumented for one client and what it is granted.
DocumentedFor(c, g, sp) ==
    LET role == g.role
        Registered(subject) ==
           role \in Roles /\ \E p \in Range(sp[role]) :
                                SubSeq(subject, 1, 3) = <<"rpc", p.agentID, p.thingID>>
    IN /\ \A subject \in g.pub \ {InboxPub, EventStream, JetStreamInfo} :
             /\ subject[5] = c
             /\ \/ subject[1] \in MayPub(role) /\ (subject[1] = "event" => subject[2] = c)
                \/ Registered(subject)
       /\ \A subject \in g.sub \ {InboxSub(c)} :
             subject[1] \in MaySub(role) /\ (subject[1] # "event" => subject[2] = c)

SubjectOf(c, e, sender) ==
    Subject5(e.msgType, IF e.agentID = Own THEN c ELSE e.agentID, e.thingID, Unset, sender)

\* The permissions of a client in a role, made from a set of entries.
MadeFrom(g, entries, c, role) ==
    /\ g.role = role
    /\ g.pub = BuiltIn(role) \union {SubjectOf(c, e, c) : e \in {e \in entries : e.pub}}
    /\ g.sub = {InboxSub(c)} \union {SubjectOf(c, e, Unset) : e \in {e \in entries : e.sub}}
    /\ entries \subseteq Entries

\* What MakePermissions makes: the entries are those of the role and of the services.
LEMMA Made ==
    ASSUME RegisteredOK, NEW p \in RpcEntry, NEW arr, ArraysWith(arr, p), NEW c, NEW role
    PROVE  LET entries == IF role \in Roles THEN OwnEntries(role, p) \union Range(servicePerms[role]) ELSE {}
           IN  MadeFrom(MakePermissions(c, role, arr), entries, c, role)
<1> DEFINE g == MakePermissions(c, role, arr)
           entries == IF role \in Roles THEN OwnEntries(role, p) \union Range(servicePerms[role]) ELSE {}
           S(e, sender) == MakeSubject(e.msgType, IF e.agentID = Own THEN c ELSE e.agentID, e.thingID, Unset, sender)
<1>1. Publishes(role, arr) = {e \in entries : e.pub} /\ Subscribes(role, arr) = {e \in entries : e.sub}
  BY EntriesOf DEF Publishes, Subscribes
<1>2. entries \subseteq Entries
  <2> SUFFICES ASSUME role \in Roles PROVE OwnEntries(role, p) \subseteq Entries /\ Range(servicePerms[role]) \subseteq Entries
    OBVIOUS
  <2>1. Range(servicePerms[role]) \subseteq ServicePerm
    BY RangeOfSeq DEF RegisteredOK
  <2> QED BY <2>1, EntryTypes DEF OwnEntries
<1>3. \A e \in entries, sender \in {c, Unset} : S(e, sender) = SubjectOf(c, e, sender)
  <2>1. \A e \in Entries : e.msgType # Unset
    BY DEF Entries, MsgTypes, Unset
  <2> HIDE DEF entries
  <2> QED BY <1>2, <2>1, SubjectParts DEF SubjectOf
<1>4. /\ g.role = role
      /\ g.pub = BuiltIn(role) \union {S(e, c) : e \in {e \in entries : e.pub}}
      /\ g.sub = {InboxSub(c)} \union {S(e, Unset) : e \in {e \in entries : e.sub}}
  <2> HIDE DEF entries
  <2> QED BY <1>1 DEF MakePermissions
<1>5. /\ {S(e, c) : e \in {e \in entries : e.pub}} = {SubjectOf(c, e, c) : e \in {e \in entries : e.pub}}
      /\ {S(e, Unset) : e \in {e \in entries : e.sub}} = {SubjectOf(c, e, Unset) : e \in {e \in entries : e.sub}}
  <2> HIDE DEF entries, S
  <2> QED BY <1>3
<1>6. MadeFrom(g, entries, c, role)
  <2> HIDE DEF g, entries, S
  <2> QED BY <1>2, <1>4, <1>5, Zenon DEF MadeFrom
<1> QED BY <1>6, Zenon

\* What services register is for requests to themselves.
LEMMA ServicePermFields ==
    ASSUME NEW e \in ServicePerm
    PROVE  /\ e.msgType = "rpc" /\ e.pub = TRUE /\ e.sub = FALSE
           /\ e.agentID \notin {Own, Unset, Remainder, Wildcard}
           /\ e.thingID \notin {Unset, Remainder, Wildcard}
  BY DEF ServicePerm, ServiceIDs, Capabilities, Own, Unset, Remainder, Wildcard

\* LibraryWorks for one client, with the registrations in done left out: those that came
\* after the permissions of the client were last computed.
WorksFor(c, g, sp, done) ==
    LET role == g.role
        applied == IF role \in Roles
                   THEN {p \in Range(sp[role]) : <<role, p>> \notin done} ELSE {}
        rpcs == {PubRPCRequest(c, p.agentID, p.thingID, "name") : p \in applied}
    IN /\ \A addr \in RolePubs(role, c) \union rpcs :
             Allowed(g.pub, addr) /\ SplitAddress(addr).senderID = c
       /\ \A addr \in RoleSubs(role, c) : Allowed(g.sub, addr)
       /\ Allowed(g.sub, CustomInboxPrefix(c) \o <<Wildcard>>)
       /\ Allowed(g.pub, CustomInboxPrefix("other") \o <<"id">>)

\* The two properties, client by client.
LEMMA ByClient ==
    /\ OnlyDocumented <=> \A c \in DOMAIN granted : DocumentedFor(c, granted[c], servicePerms)
    /\ LibraryWorks <=> \A c \in DOMAIN granted : WorksFor(c, granted[c], servicePerms, fresh)
    /\ OnlyDocumented' <=> \A c \in DOMAIN granted' : DocumentedFor(c, granted'[c], servicePerms')
    /\ LibraryWorks' <=> \A c \in DOMAIN granted' : WorksFor(c, granted'[c], servicePerms', fresh')
<1>1. OnlyDocumented <=> \A c \in DOMAIN granted : DocumentedFor(c, granted[c], servicePerms)
  BY Zenon DEF OnlyDocumented, DocumentedFor
<1>2. LibraryWorks <=> \A c \in DOMAIN granted : WorksFor(c, granted[c], servicePerms, fresh)
  BY Zenon DEF LibraryWorks, WorksFor
<1>3. OnlyDocumented' <=> \A c \in DOMAIN granted' : DocumentedFor(c, granted'[c], servicePerms')
  BY Zenon DEF OnlyDocumented, DocumentedFor
<1>4. LibraryWorks' <=> \A c \in DOMAIN granted' : WorksFor(c, granted'[c], servicePerms', fresh')
  BY Zenon DEF LibraryWorks, WorksFor
<1> QED BY <1>1, <1>2, <1>3, <1>4

\* The first three parts of a subject for a registered capability.
LEMMA FirstThree ==
    ASSUME NEW a, NEW b, NEW d, NEW e, NEW f
    PROVE  SubSeq(<<a, b, d, e, f>>, 1, 3) = <<a, b, d>>
<1> DEFINE S == {a, b, d, e, f}
           s == <<a, b, d, e, f>>
           t == SubSeq(s, 1, 3)
<1>1. s \in Seq(S) /\ Len(s) = 5
  OBVIOUS
<1>2. t \in Seq(S) /\ Len(t) = 3 /\ (\A i \in 1..3 : t[i] = s[i])
  BY <1>1
<1>3. s[1] = a /\ s[2] = b /\ s[3] = d
  OBVIOUS
<1>4. <<a, b, d>> \in Seq(S) /\ Len(<<a, b, d>>) = 3
  OBVIOUS
<1>5. \A i \in 1..3 : <<a, b, d>>[i] = s[i]
  <2> SUFFICES ASSUME NEW i \in 1..3 PROVE <<a, b, d>>[i] = s[i]
    OBVIOUS
  <2>1. i = 1 \/ i = 2 \/ i = 3
    OBVIOUS
  <2> QED BY <2>1
<1> HIDE DEF s, t
<1>6. t = <<a, b, d>>
  <2> DEFINE u == <<a, b, d>>
  <2>1. u \in Seq(S) /\ Len(u) = 3 /\ (\A i \in 1..3 : u[i] = s[i])
    BY <1>4, <1>5
  <2> HIDE DEF u
  <2>2. t = u
    BY <1>2, <2>1, SeqEqual
  <2> QED BY <2>2 DEF u
<1> QED BY <1>6 DEF s, t

\* Whatever the tables hold, MakePermissions gives a client what is documented.
LEMMA MadeDocumented ==
    ASSUME RegisteredOK, NEW p \in RpcEntry, NEW arr, ArraysWith(arr, p), NEW c, c # Unset, NEW role
    PROVE  DocumentedFor(c, MakePermissions(c, role, arr), servicePerms)
<1> DEFINE g == MakePermissions(c, role, arr)
           entries == IF role \in Roles THEN OwnEntries(role, p) \union Range(servicePerms[role]) ELSE {}
<1>0. MadeFrom(g, entries, c, role)
  BY Made, Zenon
<1>1. /\ g.role = role
      /\ g.pub = BuiltIn(role) \union {SubjectOf(c, e, c) : e \in {e \in entries : e.pub}}
      /\ g.sub = {InboxSub(c)} \union {SubjectOf(c, e, Unset) : e \in {e \in entries : e.sub}}
      /\ entries \subseteq Entries
  BY <1>0, Zenon DEF MadeFrom
<1>2. BuiltIn(role) \subseteq {InboxPub, EventStream, JetStreamInfo}
  BY DEF BuiltIn
<1>3. \A e \in entries : role \in Roles /\ (e \in OwnEntries(role, p) \/ e \in Range(servicePerms[role]))
  OBVIOUS
<1> HIDE DEF g, entries
<1>4. ASSUME NEW e, NEW sender
      PROVE  LET s == SubjectOf(c, e, sender)
             IN /\ s[1] = e.msgType
                /\ e.agentID = Own => s[2] = c
                /\ sender # Unset => s[5] = sender
                /\ SubSeq(s, 1, 3) = <<e.msgType, Part(IF e.agentID = Own THEN c ELSE e.agentID), Part(e.thingID)>>
  <2> DEFINE a == IF e.agentID = Own THEN c ELSE e.agentID
             z == IF sender = Unset THEN Remainder ELSE sender
  <2>1. SubjectOf(c, e, sender) = <<e.msgType, Part(a), Part(e.thingID), Part(Unset), z>>
    BY DEF SubjectOf, Subject5
  <2>2. e.agentID = Own => Part(a) = c
    BY DEF Part
  <2>3. SubSeq(<<e.msgType, Part(a), Part(e.thingID), Part(Unset), z>>, 1, 3)
           = <<e.msgType, Part(a), Part(e.thingID)>>
    BY FirstThree
  <2>4. sender # Unset => z = sender
    OBVIOUS
  <2> QED BY <2>1, <2>2, <2>3, <2>4
<1>5. ASSUME NEW e \in entries, e \in Range(servicePerms[role]), role \in Roles
      PROVE  /\ <<e.msgType, Part(IF e.agentID = Own THEN c ELSE e.agentID), Part(e.thingID)>>
                  = <<"rpc", e.agentID, e.thingID>>
             /\ e.sub = FALSE
  <2>1. e \in ServicePerm
    BY <1>5, RangeOfSeq DEF RegisteredOK
  <2>2. e.msgType = "rpc" /\ e.sub = FALSE /\ e.agentID \notin {Own, Unset} /\ e.thingID # Unset
    BY <2>1, ServicePermFields
  <2> QED BY <2>2 DEF Part
<1>6. ASSUME NEW subject \in g.pub \ {InboxPub, EventStream, JetStreamInfo}
      PROVE  /\ subject[5] = c
             /\ \/ subject[1] \in MayPub(role) /\ (subject[1] = "event" => subject[2] = c)
                \/ role \in Roles /\ \E q \in Range(servicePerms[role]) :
                                        SubSeq(subject, 1, 3) = <<"rpc", q.agentID, q.thingID>>
  <2>1. PICK e \in entries : e.pub /\ subject = SubjectOf(c, e, c)
    BY <1>1, <1>2, <1>6
  <2>2. CASE e \in OwnEntries(role, p)
    BY <1>3, <1>4, <2>1, <2>2, OwnDocumented
  <2>3. CASE e \in Range(servicePerms[role])
    <3>1. role \in Roles /\ subject[5] = c
      BY <1>3, <1>4, <2>1
    <3>2. SubSeq(subject, 1, 3) = <<"rpc", e.agentID, e.thingID>>
      <4> DEFINE first == <<e.msgType, Part(IF e.agentID = Own THEN c ELSE e.agentID), Part(e.thingID)>>
      <4>1. SubSeq(SubjectOf(c, e, c), 1, 3) = first
        BY <1>4
      <4>2. first = <<"rpc", e.agentID, e.thingID>>
        BY <1>5, <2>3, <3>1
      <4> HIDE DEF first
      <4> QED BY <2>1, <4>1, <4>2
    <3> QED BY <2>3, <3>1, <3>2
  <2> QED BY <1>3, <2>2, <2>3
<1>7. ASSUME NEW subject \in g.sub \ {InboxSub(c)}
      PROVE  subject[1] \in MaySub(role) /\ (subject[1] # "event" => subject[2] = c)
  <2>1. PICK e \in entries : e.sub /\ subject = SubjectOf(c, e, Unset)
    BY <1>1, <1>7
  <2>2. CASE e \in OwnEntries(role, p)
    BY <1>3, <1>4, <2>1, <2>2, OwnDocumented
  <2>3. CASE e \in Range(servicePerms[role])
    BY <1>3, <1>5, <2>1, <2>3
  <2> QED BY <1>3, <2>2, <2>3
<1>8. DocumentedFor(c, g, servicePerms)
  BY <1>1, <1>6, <1>7 DEF DocumentedFor
<1> QED BY <1>8 DEF g

\* What an address may be about to be covered by the entry.
About(c, e, a, t) ==
    /\ \/ e.agentID = Own /\ a = c
       \/ e.agentID = Unset /\ a # Remainder
       \/ e.agentID \notin {Own, Unset} /\ a = e.agentID
    /\ \/ e.thingID = Unset /\ t # Remainder
       \/ e.thingID # Unset /\ t = e.thingID

\* Every call of the library for one message type is covered by an entry for it.
LEMMA EntryCovers ==
    ASSUME NEW c, c # Unset, NEW e \in Entries, NEW sender \in {c, Unset},
           NEW a, NEW t, NEW n, About(c, e, a, t), n # Remainder
    PROVE  Covers(SubjectOf(c, e, sender), MakeAddress(e.msgType, a, t, n, sender))
<1> DEFINE ag == IF e.agentID = Own THEN c ELSE e.agentID
           z == IF sender = Unset THEN Remainder ELSE sender
<1>1. e.msgType # Unset
  BY DEF Entries, MsgTypes, Unset
<1>2. MakeAddress(e.msgType, a, t, n, sender) = <<e.msgType, Part(a), Part(t), Part(n), z>>
  BY <1>1, SubjectParts DEF Subject5
<1>3. SubjectOf(c, e, sender) = <<e.msgType, Part(ag), Part(e.thingID), Part(Unset), z>>
  BY DEF SubjectOf, Subject5
<1>4. /\ Part(ag) = Part(a) \/ (Part(ag) = Wildcard /\ Part(a) # Remainder)
      /\ Part(e.thingID) = Part(t) \/ (Part(e.thingID) = Wildcard /\ Part(t) # Remainder)
      /\ Part(Unset) = Part(n) \/ (Part(Unset) = Wildcard /\ Part(n) # Remainder)
  BY DEF About, Part, Own, Unset, Wildcard, Remainder
<1> HIDE DEF ag, z
<1>5. Covers(<<e.msgType, Part(ag), Part(e.thingID), Part(Unset), z>>,
             <<e.msgType, Part(a), Part(t), Part(n), z>>)
  BY <1>4, CoversFive
<1> QED BY <1>2, <1>3, <1>5

\* The receiver of what a client publishes finds the client in the address.
LEMMA SenderFound ==
    ASSUME NEW m \in MsgTypes, NEW a, NEW t, NEW n, NEW c, c # Unset
    PROVE  SplitAddress(MakeAddress(m, a, t, n, c)).senderID = c
<1>1. m # Unset /\ m # "_INBOX"
  BY DEF MsgTypes, Unset
<1>2. MakeAddress(m, a, t, n, c) = <<m, Part(a), Part(t), Part(n), c>>
  BY <1>1, SubjectParts DEF Subject5
<1>3. SplitAddress(<<m, Part(a), Part(t), Part(n), c>>).senderID = c
  BY <1>1 DEF SplitAddress
<1> QED BY <1>2, <1>3

\* A name of two parts with a third one appended.
LEMMA ThirdPart ==
    ASSUME NEW S, NEW a \in Seq(S), NEW b \in Seq(S), Len(a) = 2, Len(b) = 1
    PROVE  Len(a \o b) = 3 /\ (a \o b)[1] = a[1] /\ (a \o b)[2] = a[2]
<1>1. /\ Len(a \o b) = Len(a) + Len(b)
      /\ \A i \in 1 .. Len(a) + Len(b) : (a \o b)[i] = IF i <= Len(a) THEN a[i] ELSE b[i - Len(a)]
  BY ConcatProperties
<1> QED BY <1>1

\* Replies arrive in the inbox of the client, and it may send its own.
LEMMA InboxCovers ==
    ASSUME NEW c
    PROVE  /\ Covers(InboxSub(c), CustomInboxPrefix(c) \o <<Wildcard>>)
           /\ Covers(InboxPub, CustomInboxPrefix("other") \o <<"id">>)
<1> DEFINE S == {"_INBOX", c, Wildcard}
           T == {"_INBOX", "other", "id"}
           w == CustomInboxPrefix(c) \o <<Wildcard>>
           v == CustomInboxPrefix("other") \o <<"id">>
<1>1. CustomInboxPrefix(c) \in Seq(S) /\ Len(CustomInboxPrefix(c)) = 2
      /\ CustomInboxPrefix(c)[1] = "_INBOX" /\ CustomInboxPrefix(c)[2] = c
  BY DEF CustomInboxPrefix
<1>2. <<Wildcard>> \in Seq(S) /\ Len(<<Wildcard>>) = 1
  OBVIOUS
<1>3. Len(w) = 3 /\ w[1] = "_INBOX" /\ w[2] = c
  BY <1>1, <1>2, ThirdPart
<1>4. CustomInboxPrefix("other") \in Seq(T) /\ Len(CustomInboxPrefix("other")) = 2
      /\ CustomInboxPrefix("other")[1] = "_INBOX"
  BY DEF CustomInboxPrefix
<1>5. <<"id">> \in Seq(T) /\ Len(<<"id">>) = 1
  OBVIOUS
<1>6. Len(v) = 3 /\ v[1] = "_INBOX"
  BY <1>4, <1>5, ThirdPart
<1> HIDE DEF w, v
<1>7. /\ Len(InboxSub(c)) = 3 /\ InboxSub(c)[1] = "_INBOX" /\ InboxSub(c)[2] = c /\ InboxSub(c)[3] = Remainder
      /\ Len(InboxPub) = 2 /\ InboxPub[1] = "_INBOX" /\ InboxPub[2] = Remainder
  BY DEF InboxSub, InboxPub
<1>8. Covers(InboxSub(c), w)
  <2>1. \A i \in 1..(3 - 1) : i = 1 \/ i = 2
    OBVIOUS
  <2> QED BY <1>3, <1>7, <2>1 DEF Covers
<1>9. Covers(InboxPub, v)
  <2>1. \A i \in 1..(2 - 1) : i = 1
    OBVIOUS
  <2> QED BY <1>6, <1>7, <2>1 DEF Covers
<1> QED BY <1>8, <1>9 DEF w, v

\* The entries of its own with which a role does what it is for.
LEMMA OwnHas ==
    ASSUME NEW role \in Roles, NEW p
    PROVE  LET own == OwnEntries(role, p)
           IN /\ Perm("event", Unset, Unset, FALSE, TRUE) \in own
              /\ role \in {"operator", "manager", "admin", "service"}
                    => Perm("action", Unset, Unset, TRUE, FALSE) \in own
              /\ role \in {"manager", "admin", "service"}
                    => Perm("config", Unset, Unset, TRUE, FALSE) \in own
              /\ role \in {"device", "service"}
                    => /\ Perm("event", Own, Unset, TRUE, FALSE) \in own
                       /\ Perm("action", Own, Unset, FALSE, TRUE) \in own
                       /\ Perm("config", Own, Unset, FALSE, TRUE) \in own
              /\ role = "service"
                    => /\ Perm("rpc", Unset, Unset, TRUE, FALSE) \in own
                       /\ Perm("rpc", Own, Unset, FALSE, TRUE) \in own
<1>1. \A m \in MsgTypes, a \in {Unset, Own}, pub \in BOOLEAN, sub \in BOOLEAN :
         Perm(m, a, Unset, pub, sub) \in Entries
  BY DEF Perm, Entries
<1> QED BY <1>1, RoleNames, Zenon DEF OwnEntries, MsgTypes

\* Whatever the tables hold, MakePermissions lets the library do what it must.
LEMMA MadeWorks ==
    ASSUME RegisteredOK, NEW p \in RpcEntry, NEW arr, ArraysWith(arr, p), NEW c, c # Unset,
           NEW role, NEW done
    PROVE  WorksFor(c, MakePermissions(c, role, arr), servicePerms, done)
<1> DEFINE g == MakePermissions(c, role, arr)
           entries == IF role \in Roles THEN OwnEntries(role, p) \union Range(servicePerms[role]) ELSE {}
           PA == Perm("action", Unset, Unset, TRUE, FALSE)
           PC == Perm("config", Unset, Unset, TRUE, FALSE)
           PR == Perm("rpc", Unset, Unset, TRUE, FALSE)
           OE == Perm("event", Own, Unset, TRUE, FALSE)
           VE == Perm("event", Unset, Unset, FALSE, TRUE)
           OA == Perm("action", Own, Unset, FALSE, TRUE)
           OC == Perm("config", Own, Unset, FALSE, TRUE)
           OR == Perm("rpc", Own, Unset, FALSE, TRUE)
           Sent(addr) == Allowed(g.pub, addr) /\ SplitAddress(addr).senderID = c
<1>0. MadeFrom(g, entries, c, role)
  BY Made, Zenon
<1>1. /\ g.role = role
      /\ g.pub = BuiltIn(role) \union {SubjectOf(c, e, c) : e \in {e \in entries : e.pub}}
      /\ g.sub = {InboxSub(c)} \union {SubjectOf(c, e, Unset) : e \in {e \in entries : e.sub}}
      /\ entries \subseteq Entries
  BY <1>0, Zenon DEF MadeFrom
<1>2. role \in Roles => OwnEntries(role, p) \subseteq entries /\ Range(servicePerms[role]) \subseteq entries
  OBVIOUS
<1>3. InboxPub \in g.pub /\ InboxSub(c) \in g.sub
  BY <1>1, Zenon DEF BuiltIn
<1> HIDE DEF g, entries
<1>4. ASSUME NEW e \in entries, e.pub = TRUE, NEW a, NEW t, NEW n, About(c, e, a, t), n # Remainder
      PROVE  Sent(MakeAddress(e.msgType, a, t, n, c))
  <2>1. SubjectOf(c, e, c) \in g.pub
    BY <1>1, <1>4, Zenon
  <2>2. Covers(SubjectOf(c, e, c), MakeAddress(e.msgType, a, t, n, c))
        /\ SplitAddress(MakeAddress(e.msgType, a, t, n, c)).senderID = c
    <3>1. e \in Entries /\ c \in {c, Unset}
      BY <1>1
    <3>2. e.msgType \in MsgTypes
      BY <3>1 DEF Entries
    <3>3. Covers(SubjectOf(c, e, c), MakeAddress(e.msgType, a, t, n, c))
      BY <1>4, <3>1, EntryCovers
    <3>4. SplitAddress(MakeAddress(e.msgType, a, t, n, c)).senderID = c
      <4> DEFINE m == e.msgType
      <4> HIDE DEF m
      <4>1. m \in MsgTypes /\ c # Unset
        BY <3>2 DEF m
      <4>2. SplitAddress(MakeAddress(m, a, t, n, c)).senderID = c
        BY <4>1, SenderFound
      <4> QED BY <4>2 DEF m
    <3> QED BY <3>3, <3>4
  <2> QED BY <2>1, <2>2, Zenon DEF Allowed
<1>5. ASSUME NEW e \in entries, e.sub = TRUE, NEW a, NEW t, NEW n, About(c, e, a, t), n # Remainder
      PROVE  Allowed(g.sub, MakeAddress(e.msgType, a, t, n, Unset))
  <2>1. SubjectOf(c, e, Unset) \in g.sub
    BY <1>1, <1>5
  <2>2. Covers(SubjectOf(c, e, Unset), MakeAddress(e.msgType, a, t, n, Unset))
    BY <1>1, <1>5, EntryCovers
  <2> QED BY <2>1, <2>2, Zenon DEF Allowed
<1>6. /\ PA.msgType = "action" /\ PA.agentID = Unset /\ PA.thingID = Unset /\ PA.pub = TRUE
      /\ PC.msgType = "config" /\ PC.agentID = Unset /\ PC.thingID = Unset /\ PC.pub = TRUE
      /\ PR.msgType = "rpc" /\ PR.agentID = Unset /\ PR.thingID = Unset /\ PR.pub = TRUE
      /\ OE.msgType = "event" /\ OE.agentID = Own /\ OE.thingID = Unset /\ OE.pub = TRUE
      /\ VE.msgType = "event" /\ VE.agentID = Unset /\ VE.thingID = Unset /\ VE.sub = TRUE
      /\ OA.msgType = "action" /\ OA.agentID = Own /\ OA.thingID = Unset /\ OA.sub = TRUE
      /\ OC.msgType = "config" /\ OC.agentID = Own /\ OC.thingID = Unset /\ OC.sub = TRUE
      /\ OR.msgType = "rpc" /\ OR.agentID = Own /\ OR.thingID = Unset /\ OR.sub = TRUE
  BY DEF Perm
<1>7. /\ role \in Roles => VE \in entries
      /\ role \in {"operator", "manager", "admin", "service"} => PA \in entries
      /\ role \in {"manager", "admin", "service"} => PC \in entries
      /\ role \in {"device", "service"} => OE \in entries /\ OA \in entries /\ OC \in entries
      /\ role = "service" => PR \in entries /\ OR \in entries
  <2>1. {"device", "operator", "manager", "admin", "service"} \subseteq Roles
    BY RoleNames
  <2>2. CASE role \in Roles
    BY <1>2, <2>2, OwnHas, Zenon
  <2> QED BY <2>1, <2>2
<1>8. /\ "agent" # Remainder /\ "thing" # Remainder /\ "name" # Remainder /\ "$properties" # Remainder
      /\ "$td" # Remainder /\ Unset # Remainder
  BY DEF Remainder, Unset
<1> HIDE DEF PA, PC, PR, OE, VE, OA, OC, OR, Sent
<1>9. ASSUME NEW addr \in RolePubs(role, c) PROVE Sent(addr)
  <2>1. \/ role \in {"operator", "manager", "admin", "service"} /\ addr = PubAction(c, "agent", "thing", "name")
        \/ role \in {"manager", "admin", "service"} /\ addr = PubConfig(c, "agent", "thing", "name")
        \/ /\ role \in {"device", "service"}
           /\ addr \in {PubEvent(c, "thing", "name"), PubProps(c, "thing"), PubTD(c, "thing")}
        \/ role = "service" /\ addr = PubRPCRequest(c, "agent", "thing", "name")
    BY <1>9 DEF RolePubs
  <2>2. role \in {"operator", "manager", "admin", "service"} => Sent(PubAction(c, "agent", "thing", "name"))
    BY <1>4, <1>6, <1>7, <1>8 DEF About, PubAction
  <2>3. role \in {"manager", "admin", "service"} => Sent(PubConfig(c, "agent", "thing", "name"))
    BY <1>4, <1>6, <1>7, <1>8 DEF About, PubConfig
  <2>4. role \in {"device", "service"}
           => Sent(PubEvent(c, "thing", "name")) /\ Sent(PubProps(c, "thing")) /\ Sent(PubTD(c, "thing"))
    BY <1>4, <1>6, <1>7, <1>8 DEF About, PubEvent, PubProps, PubTD
  <2>5. role = "service" => Sent(PubRPCRequest(c, "agent", "thing", "name"))
    BY <1>4, <1>6, <1>7, <1>8 DEF About, PubRPCRequest
  <2> QED BY <2>1, <2>2, <2>3, <2>4, <2>5
<1>10. ASSUME role \in Roles, NEW e \in Range(servicePerms[role])
       PROVE  Sent(PubRPCRequest(c, e.agentID, e.thingID, "name"))
  <2>1. e \in ServicePerm
    BY <1>10, RangeOfSeq DEF RegisteredOK
  <2>2. /\ e.msgType = "rpc" /\ e.pub = TRUE /\ e.agentID \notin {Own, Unset} /\ e.thingID # Unset
    BY <2>1, ServicePermFields
  <2>3. e \in entries
    BY <1>2, <1>10
  <2> QED BY <1>4, <1>8, <2>2, <2>3 DEF About, PubRPCRequest
<1>11. ASSUME NEW addr \in RoleSubs(role, c) PROVE Allowed(g.sub, addr)
  <2>1. \/ role \in Roles /\ addr \in {SubEvents(Unset, Unset, Unset), SubEvents("agent", "thing", "name")}
        \/ role \in {"device", "service"} /\ addr \in {SetActionHandler(c), SetConfigHandler(c)}
        \/ role = "service" /\ addr = SetRPCHandler(c)
    BY <1>11 DEF RoleSubs
  <2>2. role \in Roles => /\ Allowed(g.sub, SubEvents(Unset, Unset, Unset))
                          /\ Allowed(g.sub, SubEvents("agent", "thing", "name"))
    BY <1>5, <1>6, <1>7, <1>8 DEF About, SubEvents
  <2>3. role \in {"device", "service"} => /\ Allowed(g.sub, SetActionHandler(c))
                                          /\ Allowed(g.sub, SetConfigHandler(c))
    BY <1>5, <1>6, <1>7, <1>8 DEF About, SetActionHandler, SetConfigHandler
  <2>4. role = "service" => Allowed(g.sub, SetRPCHandler(c))
    BY <1>5, <1>6, <1>7, <1>8 DEF About, SetRPCHandler
  <2> QED BY <2>1, <2>2, <2>3, <2>4
<1>12. /\ Allowed(g.sub, CustomInboxPrefix(c) \o <<Wildcard>>)
       /\ Allowed(g.pub, CustomInboxPrefix("other") \o <<"id">>)
  BY <1>3, InboxCovers DEF Allowed
<1>13. WorksFor(c, g, servicePerms, done)
  BY <1>1, <1>9, <1>10, <1>11, <1>12 DEF WorksFor, Sent
<1> QED BY <1>13 DEF g

\* The array that managers and administrators share has an entry for requests at its
\* end, services have registered requests to themselves, and no client is without ID.
PermInv ==
    /\ \E p \in RpcEntry : ArraysWith(arrays, p)
    /\ RegisteredOK
    /\ Unset \notin DOMAIN users
    /\ OnlyDocumented
    /\ LibraryWorks

\* Applying the permissions gives every client what is documented, and what it needs.
LEMMA ApplyKeepsPerm ==
    ASSUME PermInv, NEW list, ApplyAuth(list), Unset \notin DOMAIN list, users' = list
    PROVE  PermInv'
<1> DEFINE roleOf == [c \in DOMAIN list |-> list[c].role]
           after == Appended({roleOf[c] : c \in DOMAIN list})
<1>1. /\ arrays' = after /\ fresh' = {} /\ servicePerms' = servicePerms
      /\ \E seen \in {arrays, after} :
            granted' = [c \in DOMAIN list |-> MakePermissions(c, roleOf[c], seen)]
  BY DEF ApplyAuth, ApplyPermissions
<1> HIDE DEF roleOf, after
<1>2. PICK p \in RpcEntry : ArraysWith(arrays, p)
  BY DEF PermInv
<1>3. PICK q \in RpcEntry : ArraysWith(after, q)
  BY <1>2, AppendedArrays DEF PermInv, after
<1>4. PICK seen \in {arrays, after} : granted' = [c \in DOMAIN list |-> MakePermissions(c, roleOf[c], seen)]
  BY <1>1
<1>5. PICK e \in RpcEntry : ArraysWith(seen, e)
  BY <1>2, <1>3
<1>6. \A c \in DOMAIN list : DocumentedFor(c, granted'[c], servicePerms) /\ WorksFor(c, granted'[c], servicePerms, {})
  <2> SUFFICES ASSUME NEW c \in DOMAIN list
               PROVE  DocumentedFor(c, granted'[c], servicePerms) /\ WorksFor(c, granted'[c], servicePerms, {})
    OBVIOUS
  <2>1. granted'[c] = MakePermissions(c, roleOf[c], seen) /\ c # Unset
    BY <1>4
  <2> QED BY <1>5, <2>1, MadeDocumented, MadeWorks, Zenon DEF PermInv
<1>7. DOMAIN granted' = DOMAIN list
  BY <1>4
<1>8. OnlyDocumented'
  BY <1>1, <1>6, <1>7, ByClient
<1>9. LibraryWorks'
  BY <1>1, <1>6, <1>7, ByClient
<1>10. RegisteredOK' /\ ArraysWith(arrays', q)
  BY <1>1, <1>3 DEF PermInv, RegisteredOK
<1>11. (\E r \in RpcEntry : ArraysWith(arrays, r))'
  BY <1>10 DEF ArraysWith
<1> QED BY <1>8, <1>9, <1>10, <1>11 DEF PermInv

\* Registering a capability takes nothing back and waits to be applied.
LEMMA RegisterKeepsPerm ==
    ASSUME PermInv, NEW s \in ServiceIDs, NEW reg, reg.capability \in Capabilities,
           SetServicePermissions(s, reg), UNCHANGED <<arrays, granted, users>>
    PROVE  PermInv'
<1> DEFINE perm == RpcPerm(s, reg.capability)
<1>1. perm \in ServicePerm
  BY DEF RpcPerm, Perm, ServicePerm
<1>2. /\ servicePerms' = [r \in Roles |-> IF r \in reg.roles THEN Append(servicePerms[r], perm)
                                           ELSE servicePerms[r]]
      /\ fresh' = fresh \union {<<r, perm>> : r \in Roles \intersect reg.roles}
  BY DEF SetServicePermissions
<1> HIDE DEF perm
<1>3. ASSUME NEW r \in Roles
      PROVE  /\ servicePerms'[r] \in Seq(ServicePerm)
             /\ Range(servicePerms[r]) \subseteq Range(servicePerms'[r])
             /\ \A e \in Range(servicePerms'[r]) : e \in Range(servicePerms[r]) \/ <<r, e>> \in fresh'
  <2>1. servicePerms[r] \in Seq(ServicePerm)
    BY DEF PermInv, RegisteredOK
  <2>2. CASE r \in reg.roles
    <3>1. servicePerms'[r] = Append(servicePerms[r], perm)
      BY <1>2, <2>2
    <3>2. Range(Append(servicePerms[r], perm)) = Range(servicePerms[r]) \union {perm}
      BY <1>1, <2>1, AppendRange
    <3>3. <<r, perm>> \in fresh'
      BY <1>2, <2>2
    <3>4. Append(servicePerms[r], perm) \in Seq(ServicePerm)
      BY <1>1, <2>1
    <3> QED BY <3>1, <3>2, <3>3, <3>4
  <2>3. CASE r \notin reg.roles
    BY <1>2, <2>1, <2>3
  <2> QED BY <2>2, <2>3
<1>4. RegisteredOK'
  BY <1>2, <1>3 DEF RegisteredOK
<1>5. OnlyDocumented'
  <2> SUFFICES ASSUME NEW c \in DOMAIN granted PROVE DocumentedFor(c, granted'[c], servicePerms')
    BY ByClient
  <2>1. DocumentedFor(c, granted[c], servicePerms)
    BY ByClient DEF PermInv
  <2>2. granted'[c] = granted[c]
    OBVIOUS
  <2> QED BY <1>3, <2>1, <2>2 DEF DocumentedFor
<1>6. LibraryWorks'
  <2> SUFFICES ASSUME NEW c \in DOMAIN granted PROVE WorksFor(c, granted'[c], servicePerms', fresh')
    BY ByClient
  <2> DEFINE role == granted[c].role
             Applied(sp, done) == IF role \in Roles
                                  THEN {e \in Range(sp[role]) : <<role, e>> \notin done} ELSE {}
             Rpcs(sp, done) == {PubRPCRequest(c, e.agentID, e.thingID, "name") : e \in Applied(sp, done)}
  <2>1. WorksFor(c, granted[c], servicePerms, fresh)
    BY ByClient DEF PermInv
  <2>2. granted'[c] = granted[c]
    OBVIOUS
  <2>3. Applied(servicePerms', fresh') \subseteq Applied(servicePerms, fresh)
    <3>1. fresh \subseteq fresh'
      BY <1>2
    <3> QED BY <1>3, <3>1, Zenon
  <2> HIDE DEF Applied
  <2>4. Rpcs(servicePerms', fresh') \subseteq Rpcs(servicePerms, fresh)
    BY <2>3
  <2> HIDE DEF Rpcs
  <2>5. /\ \A addr \in RolePubs(role, c) \union Rpcs(servicePerms, fresh) :
             Allowed(granted[c].pub, addr) /\ SplitAddress(addr).senderID = c
        /\ \A addr \in RoleSubs(role, c) : Allowed(granted[c].sub, addr)
        /\ Allowed(granted[c].sub, CustomInboxPrefix(c) \o <<Wildcard>>)
        /\ Allowed(granted[c].pub, CustomInboxPrefix("other") \o <<"id">>)
    BY <2>1, Zenon DEF WorksFor, Rpcs, Applied
  <2>6. \A addr \in RolePubs(role, c) \union Rpcs(servicePerms', fresh') :
             Allowed(granted[c].pub, addr) /\ SplitAddress(addr).senderID = c
    BY <2>4, <2>5, Zenon
  <2> QED BY <2>2, <2>5, <2>6, Zenon DEF WorksFor, Rpcs, Applied
<1>7. (\E p \in RpcEntry : ArraysWith(arrays, p))'
  BY DEF PermInv, ArraysWith
<1>8. Unset \notin DOMAIN users'
  BY DEF PermInv
<1> QED BY <1>4, <1>5, <1>6, <1>7, <1>8 DEF PermInv

\* Steps that leave the tables alone, and those with which the server process ends.
LEMMA OtherKeepsPerm ==
    ASSUME PermInv, Unset \notin DOMAIN users', ServerGone \/ UNCHANGED permVars
    PROVE  PermInv'
<1>1. CASE UNCHANGED permVars
  <2>1. arrays' = arrays /\ servicePerms' = servicePerms /\ fresh' = fresh /\ granted' = granted
    BY <1>1 DEF permVars
  <2>2. (\E p \in RpcEntry : ArraysWith(arrays, p))' /\ RegisteredOK'
    BY <2>1 DEF PermInv, RegisteredOK, ArraysWith
  <2>3. OnlyDocumented' /\ LibraryWorks'
    BY <2>1, ByClient DEF PermInv
  <2> QED BY <2>2, <2>3 DEF PermInv
<1>2. CASE ServerGone
  <2>1. ArraysWith(InitArrays, RpcPerm(Unset, Unset))
    BY DEF ArraysWith, InitArrays, adminPermissions, RpcPerm
  <2>2. (\E p \in RpcEntry : ArraysWith(arrays, p))'
    BY <1>2, <2>1 DEF ServerGone, RpcEntry, ArraysWith
  <2>3. \A r \in Roles : <<>> \in Seq(ServicePerm)
    OBVIOUS
  <2>4. RegisteredOK'
    BY <1>2, <2>3 DEF ServerGone, RegisteredOK
  <2>5. DOMAIN granted' = {}
    BY <1>2 DEF ServerGone
  <2> QED BY <2>2, <2>4, <2>5, ByClient DEF PermInv
<1> QED BY <1>1, <1>2

\* At first the arrays have the content that the code gives them.
LEMMA InitPerm == ASSUME Init PROVE PermInv
<1>1. ArraysWith(InitArrays, RpcPerm(Unset, Unset))
  BY DEF ArraysWith, InitArrays, adminPermissions, RpcPerm
<1>2. \E p \in RpcEntry : ArraysWith(arrays, p)
  BY <1>1 DEF Init, PermInit, RpcEntry
<1>3. <<>> \in Seq(ServicePerm)
  OBVIOUS
<1>4. RegisteredOK
  BY <1>3 DEF Init, PermInit, RegisteredOK
<1>5. DOMAIN granted = {} /\ DOMAIN users = {}
  BY DEF Init, PermInit
<1> QED BY <1>2, <1>4, <1>5, ByClient DEF PermInv

\* A client with an ID is added.
LEMMA AddKeepsPerm ==
    ASSUME PermInv, NEW c, NEW pub, NEW role, Add(c, pub, role), c # Unset
    PROVE  PermInv'
<1> DEFINE list == [d \in DOMAIN users \union {c} |-> IF d = c THEN Profile(pub, role) ELSE users[d]]
<1>1. users' = list /\ ApplyAuth(list)
  BY DEF Add
<1>2. Unset \notin DOMAIN list
  BY DEF PermInv
<1> HIDE DEF list
<1> QED BY <1>1, <1>2, ApplyKeepsPerm

\* The services of the hub register what is listed for them.
LEMMA ServiceRegistersPerm ==
    ASSUME PermInv, SetAuthPermissions \/ (\E s \in Services : RegisterService(s))
    PROVE  PermInv'
<1>1. CASE SetAuthPermissions
  <2> DEFINE n == Registrations("auth") + 1
  <2>1. /\ n \in DOMAIN AuthCapabilities
        /\ SetServicePermissions("auth", AuthCapabilities[n])
        /\ UNCHANGED <<arrays, granted, users>>
    BY <1>1 DEF SetAuthPermissions
  <2> HIDE DEF n
  <2>2. AuthCapabilities[n].capability \in Capabilities
    BY <2>1 DEF AuthCapabilities, AdminCapability, UserCapability, Capabilities
  <2>3. "auth" \in ServiceIDs
    BY DEF ServiceIDs
  <2> DEFINE reg == AuthCapabilities[n]
  <2>4. reg.capability \in Capabilities /\ SetServicePermissions("auth", reg)
    BY <2>1, <2>2
  <2> HIDE DEF reg
  <2> QED BY <2>1, <2>3, <2>4, RegisterKeepsPerm
<1>2. CASE \E s \in Services : RegisterService(s)
  <2>1. PICK s \in Services : RegisterService(s)
    BY <1>2
  <2> DEFINE n == Registrations(s) + 1
  <2>2. /\ n \in DOMAIN ServiceCapabilities[s]
        /\ SetServicePermissions(s, ServiceCapabilities[s][n])
        /\ UNCHANGED <<arrays, granted, users>>
    BY <2>1 DEF RegisterService
  <2> HIDE DEF n
  <2>3. s \in {"directory", "history", "provisioning", "state", "hiveoview"}
    BY ServicesAssumption DEF ServiceCapabilities
  <2>4. ServiceCapabilities[s][n].capability \in Capabilities
    BY <2>2, <2>3, SMTT(30) DEF ServiceCapabilities, AdminCapability, Capabilities
  <2> DEFINE reg == ServiceCapabilities[s][n]
  <2>5. reg.capability \in Capabilities /\ SetServicePermissions(s, reg)
    BY <2>2, <2>4
  <2> HIDE DEF reg
  <2>6. s \in ServiceIDs
    BY <2>3 DEF ServiceIDs
  <2> QED BY <2>2, <2>5, <2>6, RegisterKeepsPerm
<1> QED BY <1>1, <1>2

\* Only the append of MakePermissions writes to the arrays, and only one entry.
LEMMA NextPerm == ASSUME PermInv, [Next]_vars PROVE PermInv'
<1> USE DEF serverVars
<1>0. Unset \notin DOMAIN users /\ Unset # "auth" /\ Unset # "launcher" /\ Unset # "admin" /\ Unset # "certs"
  BY DEF PermInv, Unset
<1>1. CASE LaunchAny
  BY <1>0, <1>1, OtherKeepsPerm DEF LaunchAny
<1>2. CASE Setup
  <2>1. UNCHANGED permVars /\ (users' = users \/ users' = <<>>)
    BY <1>2 DEF Setup
  <2> QED BY <1>0, <2>1, OtherKeepsPerm
<1>3. CASE StartStep
  <2>1. CASE StartServer
    BY <1>0, <2>1, OtherKeepsPerm DEF StartServer
  <2>2. CASE StartAuth
    BY <1>0, <2>2, AddKeepsPerm DEF StartAuth
  <2>3. CASE SetAuthPermissions
    BY <2>3, ServiceRegistersPerm
  <2>4. ASSUME NEW c, NEW here, NEW next, AccountKey(c, here, next) \/ AccountToken(c, here, next)
        PROVE  PermInv'
    BY <1>0, <2>4, OtherKeepsPerm DEF AccountKey, AccountToken
  <2>5. ASSUME NEW c, c # Unset, NEW role, NEW here, NEW next, AddAccount(c, role, here, next)
        PROVE  PermInv'
    BY <1>0, <2>5, AddKeepsPerm DEF AddAccount
  <2> QED BY <1>0, <1>3, <2>1, <2>2, <2>3, <2>4, <2>5 DEF StartStep
<1>4. CASE StopCore
  BY <1>0, <1>4, OtherKeepsPerm DEF StopCore
<1>5. CASE CrashCore
  <2>1. ServerGone /\ users' \in {users, <<>>}
    BY <1>5 DEF CrashCore
  <2>2. DOMAIN <<>> = {}
    OBVIOUS
  <2> QED BY <1>0, <2>1, <2>2, OtherKeepsPerm
<1>6. CASE Requests
  <2>1. CASE \E u \in Users, role \in UserRoles : AddClient(u, role)
    BY <2>1, AddKeepsPerm, ClientsAssumption DEF AddClient
  <2>2. CASE \E s \in Services : AddClient(s, "service")
    <3>1. PICK s \in Services : AddClient(s, "service")
      BY <2>2
    <3>2. s # Unset
      BY ServicesAssumption DEF ServiceCapabilities, Unset
    <3> QED BY <3>1, <3>2, AddKeepsPerm DEF AddClient
  <2>3. CASE \E s \in Services : RegisterService(s)
    BY <2>3, ServiceRegistersPerm
  <2> QED BY <1>6, <2>1, <2>2, <2>3 DEF Requests
<1>7. CASE Plugin
  <2>1. CASE PluginAdd
    <3>1. CASE CanConnect("launcher")
      BY <1>0, <2>1, <3>1, AddKeepsPerm DEF PluginAdd
    <3>2. CASE ~ CanConnect("launcher")
      BY <1>0, <2>1, <3>2, OtherKeepsPerm DEF PluginAdd
    <3> QED BY <3>1, <3>2
  <2>2. CASE PluginKey \/ CertsLoadCert \/ CertsStart \/ CertsEnd \/ CertRequests
    <3>1. UNCHANGED permVars /\ users' = users
      BY <2>2 DEF PluginKey, CertsLoadCert, CertsStart, CertsEnd, CertRequests, CreateDeviceCert,
                  CreateUserCert, CreateServiceCert, Issue
    <3> QED BY <1>0, <3>1, OtherKeepsPerm
  <2> QED BY <1>7, <2>1, <2>2 DEF Plugin
<1>8. CASE UNCHANGED vars
  BY <1>0, <1>8, OtherKeepsPerm DEF vars
<1> QED BY <1>1, <1>2, <1>3, <1>4, <1>5, <1>6, <1>7, <1>8 DEF Next

\* The arrays, what is registered and the accounts are always as PermInv says.
THEOREM PermInvariance == Spec => []PermInv
  BY InitPerm, NextPerm, PTL DEF Spec

\* A client publishes in its own name, and only what the comment on its role or the
\* registration of a service allows; it subscribes to requests for itself only.
\* MakePermissions does so for every role and every set of registered capabilities,
\* also with the array of the managers overwritten by the append.
THEOREM OnlyDocumentedHolds == Spec => []OnlyDocumented
<1>1. PermInv => OnlyDocumented
  BY DEF PermInv
<1> QED BY <1>1, PermInvariance, PTL

\* The calls of the client library pass for the roles that they are for, and so do
\* the registered capabilities once the permissions have been applied.
THEOREM LibraryWorksHolds == Spec => []LibraryWorks
<1>1. PermInv => LibraryWorks
  BY DEF PermInv
<1> QED BY <1>1, PermInvariance, PTL

=============================================================================
