----------------------------- MODULE AuthProofs -----------------------------
(***************************************************************************)
(* Proofs about the authentication service, for any set of clients, keys,  *)
(* roles and goroutines and any number of requests, failing writes and     *)
(* crashes.                                                                *)
(*                                                                         *)
(* The first part shows that accepted changes are durable, for all methods *)
(* and also while Start is still running.  The second part is about        *)
(* requests that apply their change before they reply, one after the other *)
(* and without failing writes: then the server follows the store, and the  *)
(* service implements AuthContract up to liveness.                         *)
(***************************************************************************)
EXTENDS Auth, TLAPS

ApplySteps == {"change", "build", "users", "nkeys", "reload"}

StoreOK ==
    /\ entries \in Store /\ file \in Store
    /\ event \in BOOLEAN
    /\ acked \in [Clients -> Entry \cup {NoEntry, Unknown}]
    /\ used \in [fails: 0..MaxFails, crashes: 0..MaxCrashes]

ServerOK ==
    /\ servicePerms \in SUBSET (Clients \X AllRoles)
    /\ opts \in [users: Builds, nkeys: Builds]
    /\ live \in [users: Builds, nkeys: Builds]

\* Where Start is depends on the clients it has added.
MainOK ==
    /\ thr[Main].pc \in {"open", "boot", "idle"} \cup ApplySteps
    /\ thr[Main].pc = "open" => boot = 0
    /\ thr[Main].pc = "boot" => boot \in 0..3
    /\ thr[Main].pc \in ApplySteps => boot \in {0, 2, 3}
    /\ thr[Main].pc = "idle" => boot = 4

\* A request that is under way is about a client, and carries its profile.
RpcOK ==
    /\ thr[Rpc].pc \in {"idle", "update", "updatekey", "setpw"} \cup ApplySteps
    /\ thr[Rpc].pc \in {"update", "updatekey", "setpw"} => thr[Rpc].c \in Clients /\ thr[Rpc].prof \in Entry

\* Before the store is opened nobody works with it.
OpenOK ==
    /\ \A g \in Background : thr[g].pc \in {"idle"} \cup ApplySteps
    /\ thr[Main].pc = "open" => \A t \in Threads \ {Main} : thr[t].pc = "idle"

ThreadOK ==
    /\ thr \in [Threads -> Thread]
    /\ boot \in 0..4
    /\ MainOK /\ RpcOK /\ OpenOK

Core == StoreOK /\ ServerOK /\ ThreadOK /\ AcceptedIsDurable

IInv == Core /\ requests \in 0..MaxRequests

-----------------------------------------------------------------------------
\* The store

\* What Save does to the store and its file.
Saved(c, entry) ==
    /\ entries' = [entries EXCEPT ![c] = entry]
    /\ \/ /\ file' = entries'
          /\ event' = TRUE
          /\ acked' = [acked EXCEPT ![c] = entry]
          /\ UNCHANGED used
       \/ /\ used.fails < MaxFails
          /\ used' = [used EXCEPT !.fails = @ + 1]
          /\ acked' = [acked EXCEPT ![c] = Unknown]
          /\ UNCHANGED <<file, event>>

\* Entries that Add and Update make are well-formed.
LEMMA AddedType ==
    ASSUME StoreOK, NEW c \in Clients, NEW type \in {"device", "service", "user"},
           NEW key \in Keys \cup {BootKey, None}, NEW role \in AllRoles
    PROVE  Added(c, [type |-> type, key |-> key, role |-> role, pw |-> None]) \in Entry
  BY DEF StoreOK, Store, Entry, Added

\* An entry that a profile is merged into is an entry.
LEMMA UpdatedType ==
    ASSUME StoreOK, NEW c \in Clients, entries[c] # NoEntry, NEW profile,
           profile.type \in {"device", "service", "user", None},
           profile.key \in Keys \cup {BootKey, None}
    PROVE  Updated(c, profile) \in Entry
  BY DEF StoreOK, Store, Entry, Updated

\* So is an entry with another password.
LEMMA PasswordType ==
    ASSUME StoreOK, NEW c \in Clients, entries[c] # NoEntry, NEW pw \in Passwords \cup {None}
    PROVE  [entries[c] EXCEPT !.pw = pw] \in Entry
  BY DEF StoreOK, Store, Entry

\* A change of the store once it is open keeps what was accepted before.
LEMMA SavedStep ==
    ASSUME StoreOK, AcceptedIsDurable, NEW c \in Clients, NEW entry \in Entry \cup {NoEntry},
           Saved(c, entry), thr[Main].pc # "open"
    PROVE  StoreOK' /\ AcceptedIsDurable'
<1>1. StoreOK'
  <2>1. entries' \in Store
    BY DEF StoreOK, Store, Saved
  <2>2. CASE /\ file' = entries' /\ event' = TRUE /\ acked' = [acked EXCEPT ![c] = entry]
             /\ UNCHANGED used
    BY <2>1, <2>2 DEF StoreOK
  <2>3. CASE /\ used.fails < MaxFails
             /\ used' = [used EXCEPT !.fails = @ + 1]
             /\ acked' = [acked EXCEPT ![c] = Unknown]
             /\ UNCHANGED <<file, event>>
    <3>1. used' \in [fails: 0..MaxFails, crashes: 0..MaxCrashes]
      BY <2>3, AuthAssumption DEF StoreOK
    <3> QED BY <2>1, <2>3, <3>1 DEF StoreOK
  <2> QED BY <2>2, <2>3 DEF Saved
<1>2. AcceptedIsDurable'
  BY DEF StoreOK, Store, Saved, AcceptedIsDurable
<1> QED BY <1>1, <1>2

-----------------------------------------------------------------------------
\* The goroutines

\* A goroutine that does nothing, and one that only has a place to go on from.
LEMMA NoneIdle ==
    /\ NoBuild \in Builds
    /\ IdleThread \in Thread
    /\ \A pc \in Steps : [IdleThread EXCEPT !.pc = pc] \in Thread
<1>1. NoBuild \in Builds
  BY DEF NoBuild, Builds, EmptyStore, Store
<1>2. IdleThread \in Thread
  BY <1>1 DEF IdleThread, Thread, Steps
<1>3. \A pc \in Steps : [IdleThread EXCEPT !.pc = pc] \in Thread
  BY <1>2 DEF Thread
<1> QED BY <1>1, <1>2, <1>3

\* One goroutine goes on, and keeps its request unless it has nothing to do.
LEMMA GotoStep ==
    ASSUME ThreadOK, NEW t \in Threads, NEW pc \in Steps, Goto(t, pc)
    PROVE  \E r \in Thread :
              /\ thr' = [thr EXCEPT ![t] = r]
              /\ r.pc = pc
              /\ pc \in {"idle", "boot"} => r = [IdleThread EXCEPT !.pc = pc]
              /\ pc \notin {"idle", "boot"} => r = [thr[t] EXCEPT !.pc = pc]
<1>1. CASE pc \in {"idle", "boot"}
  <2> DEFINE r == [IdleThread EXCEPT !.pc = pc]
  <2>1. r \in Thread /\ r.pc = pc
    BY NoneIdle DEF IdleThread
  <2>2. thr' = [thr EXCEPT ![t] = r]
    BY <1>1 DEF Goto
  <2> QED BY <1>1, <2>1, <2>2
<1>2. CASE pc \notin {"idle", "boot"}
  <2> DEFINE r == [thr[t] EXCEPT !.pc = pc]
  <2>1. r \in Thread /\ r.pc = pc
    BY DEF ThreadOK, Thread
  <2>2. thr' = [thr EXCEPT ![t] = r]
    BY <1>2 DEF Goto
  <2> QED BY <1>2, <2>1, <2>2
<1> QED BY <1>1, <1>2

\* A step of the goroutine that handles requests.
LEMMA RpcMoves ==
    ASSUME ThreadOK, thr[Main].pc # "open", UNCHANGED boot,
           NEW r \in Thread, thr' = [thr EXCEPT ![Rpc] = r],
           r.pc \in {"idle", "update", "updatekey", "setpw"} \cup ApplySteps,
           r.pc \in {"update", "updatekey", "setpw"} => r.c \in Clients /\ r.prof \in Entry
    PROVE  ThreadOK' /\ thr'[Main].pc # "open"
<1>1. Rpc \in Threads /\ Main \in Threads /\ Main # Rpc /\ \A g \in Background : g \in Threads /\ g # Rpc
  BY AuthAssumption DEF Threads
<1>2. thr' \in [Threads -> Thread] /\ thr'[Rpc] = r /\ \A t \in Threads : t # Rpc => thr'[t] = thr[t]
  BY <1>1 DEF ThreadOK
<1> QED BY <1>1, <1>2 DEF ThreadOK, MainOK, RpcOK, OpenOK

\* A step of a background goroutine.
LEMMA BackgroundMoves ==
    ASSUME ThreadOK, thr[Main].pc # "open", UNCHANGED boot, NEW g \in Background,
           NEW r \in Thread, thr' = [thr EXCEPT ![g] = r],
           r.pc \in {"idle"} \cup ApplySteps
    PROVE  ThreadOK' /\ thr'[Main].pc # "open"
<1>1. /\ Rpc \in Threads /\ Main \in Threads /\ g \in Threads /\ Main # g /\ Rpc # g
      /\ \A h \in Background : h \in Threads
  BY AuthAssumption DEF Threads
<1>2. thr' \in [Threads -> Thread] /\ thr'[g] = r /\ \A t \in Threads : t # g => thr'[t] = thr[t]
  BY <1>1 DEF ThreadOK
<1> QED BY <1>1, <1>2 DEF ThreadOK, MainOK, RpcOK, OpenOK

\* A step of Start.
LEMMA MainMoves ==
    ASSUME ThreadOK, boot' \in 0..4,
           NEW r \in Thread, thr' = [thr EXCEPT ![Main] = r],
           r.pc \in {"boot", "idle"} \cup ApplySteps,
           r.pc = "boot" => boot' \in 0..3,
           r.pc \in ApplySteps => boot' \in {0, 2, 3},
           r.pc = "idle" => boot' = 4
    PROVE  ThreadOK' /\ thr'[Main].pc # "open"
<1>1. Rpc \in Threads /\ Main \in Threads /\ Main # Rpc /\ \A g \in Background : g \in Threads /\ g # Main
  BY AuthAssumption DEF Threads
<1>2. thr' \in [Threads -> Thread] /\ thr'[Main] = r /\ \A t \in Threads : t # Main => thr'[t] = thr[t]
  BY <1>1 DEF ThreadOK
<1>3. r.pc # "open"
  BY DEF ApplySteps
<1> QED BY <1>1, <1>2, <1>3 DEF ThreadOK, MainOK, RpcOK, OpenOK

\* Without a change of the store, what was accepted stays in it.
LEMMA DurableSame ==
    ASSUME StoreOK, AcceptedIsDurable, UNCHANGED <<entries, file, event, acked, used>>, thr[Main].pc # "open"
    PROVE  StoreOK' /\ AcceptedIsDurable'
  BY DEF StoreOK, AcceptedIsDurable

-----------------------------------------------------------------------------
\* The handlers

\* The server's state is left alone.
LEMMA ServerSame ==
    ASSUME ServerOK, UNCHANGED serverVars
    PROVE  ServerOK'
  BY DEF ServerOK, serverVars

\* A handler changes the store and goes on to onChange or returns.
LEMMA RpcSaves ==
    ASSUME Core, thr[Main].pc # "open", NEW c \in Clients, NEW entry \in Entry \cup {NoEntry},
           Saved(c, entry), NEW pc \in {"change", "idle"}, Goto(Rpc, pc),
           UNCHANGED <<serverVars, boot>>
    PROVE  Core'
<1>1. StoreOK' /\ AcceptedIsDurable'
  BY SavedStep DEF Core
<1>2. ServerOK'
  BY ServerSame DEF Core
<1>3. ThreadOK'
  <2>1. Rpc \in Threads /\ pc \in Steps
    BY DEF Threads, Steps
  <2>2. PICK r \in Thread : thr' = [thr EXCEPT ![Rpc] = r] /\ r.pc = pc
    BY <2>1, GotoStep DEF Core
  <2> QED BY <2>2, RpcMoves DEF Core, ApplySteps
<1> QED BY <1>1, <1>2, <1>3 DEF Core

\* A handler returns without having changed the store.
LEMMA RpcReturns ==
    ASSUME Core, thr[Main].pc # "open", NEW pc \in {"change", "idle"}, Goto(Rpc, pc),
           UNCHANGED <<entries, file, event, acked, used, serverVars, boot>>
    PROVE  Core'
<1>1. StoreOK' /\ AcceptedIsDurable'
  BY DurableSame DEF Core
<1>2. ServerOK'
  BY ServerSame DEF Core
<1>3. ThreadOK'
  <2>1. Rpc \in Threads /\ pc \in Steps
    BY DEF Threads, Steps
  <2>2. PICK r \in Thread : thr' = [thr EXCEPT ![Rpc] = r] /\ r.pc = pc
    BY <2>1, GotoStep DEF Core
  <2> QED BY <2>2, RpcMoves DEF Core, ApplySteps
<1> QED BY <1>1, <1>2, <1>3 DEF Core

\* A handler has read the profile of client c and will hand it to the store.
LEMMA RpcReads ==
    ASSUME Core, thr[Main].pc # "open", NEW c \in Clients, NEW prof \in Entry,
           NEW pc \in {"update", "updatekey"},
           thr' = [thr EXCEPT ![Rpc] = [@ EXCEPT !.pc = pc, !.c = c, !.prof = prof]],
           UNCHANGED <<entries, file, event, serverVars, boot, acked, used>>
    PROVE  Core'
<1>1. StoreOK' /\ AcceptedIsDurable'
  BY DurableSame DEF Core
<1>2. ServerOK'
  BY ServerSame DEF Core
<1>3. ThreadOK'
  <2> DEFINE r == [thr[Rpc] EXCEPT !.pc = pc, !.c = c, !.prof = prof]
  <2>1. thr[Rpc] \in Thread
    BY DEF Core, ThreadOK, Threads
  <2>2. r \in Thread /\ r.pc = pc /\ r.c = c /\ r.prof = prof
    BY <2>1 DEF Thread, Steps
  <2>3. thr' = [thr EXCEPT ![Rpc] = r]
    OBVIOUS
  <2> HIDE DEF r
  <2> QED BY <2>2, <2>3, RpcMoves DEF Core
<1> QED BY <1>1, <1>2, <1>3 DEF Core

\* A handler that refuses its request changes nothing.
LEMMA Refuses ==
    ASSUME Core, UNCHANGED authVars
    PROVE  Core'
  BY DEF Core, StoreOK, ServerOK, ThreadOK, MainOK, RpcOK, OpenOK, AcceptedIsDurable, authVars

\* AddDevice and AddService add an entry and save.
LEMMA AddClientStep ==
    ASSUME Core, thr[Main].pc # "open", NEW c \in Clients, NEW type \in {"device", "service"},
           NEW key \in Keys \cup {None}, AddClient(c, type, type, key)
    PROVE  Core'
<1> DEFINE e == Added(c, [type |-> type, key |-> key, role |-> type, pw |-> None])
<1>1. e \in Entry
  BY AddedType DEF Core, AllRoles, BootRoles
<1>2. Saved(c, e) /\ (\E pc \in {"change", "idle"} : Goto(Rpc, pc)) /\ UNCHANGED <<serverVars, boot>>
  BY DEF AddClient, Save, Saved
<1> HIDE DEF e
<1> QED BY <1>1, <1>2, RpcSaves

\* AddUser adds an entry and saves, or is refused.
LEMMA AddUserStep ==
    ASSUME Core, thr[Main].pc # "open", NEW c \in Clients, NEW key \in Keys \cup {None},
           NEW role \in Roles, NEW pw \in Passwords \cup {Short, None}, AddUser(c, key, role, pw)
    PROVE  Core'
<1> DEFINE profile == [type |-> "user", key |-> key, role |-> role, pw |-> None]
           e == Added(c, profile)
           r == [thr[Rpc] EXCEPT !.pc = IF pw = None THEN "change" ELSE "setpw",
                                 !.c = c, !.pw = pw, !.prof = profile]
<1>1. e \in Entry
  BY AddedType DEF Core, AllRoles
<1>2. Saved(c, e) /\ UNCHANGED <<serverVars, boot>> /\ (thr' = [thr EXCEPT ![Rpc] = r] \/ Goto(Rpc, "idle"))
  BY DEF AddUser, Save, Saved
<1>3. CASE Goto(Rpc, "idle")
  <2> HIDE DEF e
  <2> QED BY <1>1, <1>2, <1>3, RpcSaves
<1>4. CASE thr' = [thr EXCEPT ![Rpc] = r]
  <2>1. StoreOK' /\ AcceptedIsDurable' /\ ServerOK'
    <3> HIDE DEF e
    <3> QED BY <1>1, <1>2, SavedStep, ServerSame DEF Core
  <2>2. thr[Rpc] \in Thread /\ profile \in Entry
    BY DEF Core, ThreadOK, Threads, Entry, AllRoles
  <2>3. r \in Thread /\ r.pc \in {"change", "setpw"} /\ r.c = c /\ r.prof = profile
    <3> HIDE DEF profile
    <3> QED BY <2>2 DEF Thread, Steps
  <2> HIDE DEF r, profile
  <2>4. ThreadOK'
    BY <1>2, <1>4, <2>2, <2>3, RpcMoves DEF Core, ApplySteps
  <2> QED BY <2>1, <2>4 DEF Core
<1> QED BY <1>2, <1>3, <1>4

\* AddUser goes on with the password, with a second save.
LEMMA AddUserPasswordStep ==
    ASSUME Core, thr[Main].pc # "open", AddUserPassword
    PROVE  Core'
<1> DEFINE c == thr[Rpc].c
           e == [entries[c] EXCEPT !.pw = thr[Rpc].pw]
<1>1. c \in Clients /\ thr[Rpc].pw \in Passwords \cup {Short, None}
  BY DEF AddUserPassword, Core, ThreadOK, RpcOK, Threads, Thread
<1>2. UNCHANGED <<serverVars, boot>>
  BY DEF AddUserPassword
<1>3. CASE thr[Rpc].pw = Short \/ entries[c] = NoEntry
  <2>1. (\E pc \in {"change", "idle"} : Goto(Rpc, pc)) /\ UNCHANGED <<entries, file, event, acked, used>>
    BY <1>3 DEF AddUserPassword
  <2> QED BY <1>2, <2>1, RpcReturns
<1>4. CASE ~ (thr[Rpc].pw = Short \/ entries[c] = NoEntry)
  <2>1. e \in Entry
    BY <1>1, <1>4, PasswordType DEF Core
  <2>2. Saved(c, e) /\ \E pc \in {"change", "idle"} : Goto(Rpc, pc)
    BY <1>4 DEF AddUserPassword, Save, Saved
  <2> HIDE DEF e
  <2> QED BY <1>1, <1>2, <2>1, <2>2, RpcSaves
<1> QED BY <1>3, <1>4

\* RemoveClient removes the entry and saves.
LEMMA RemoveClientStep ==
    ASSUME Core, thr[Main].pc # "open", NEW c \in Clients, RemoveClient(c)
    PROVE  Core'
<1>1. Saved(c, NoEntry) /\ (\E pc \in {"change", "idle"} : Goto(Rpc, pc)) /\ UNCHANGED <<serverVars, boot>>
  BY DEF RemoveClient, Save, Saved
<1> QED BY <1>1, RpcSaves

\* SetClientPassword changes the entry and saves, or is refused.
LEMMA SetClientPasswordStep ==
    ASSUME Core, thr[Main].pc # "open", NEW c \in Clients, NEW pw \in Passwords \cup {Short},
           SetClientPassword(c, pw)
    PROVE  Core'
<1>1. CASE pw = Short \/ entries[c] = NoEntry
  BY <1>1, Refuses DEF SetClientPassword, Refuse
<1>2. CASE pw # Short /\ entries[c] # NoEntry
  <2> DEFINE e == [entries[c] EXCEPT !.pw = pw]
  <2>1. e \in Entry
    BY <1>2, PasswordType DEF Core
  <2>2. Saved(c, e) /\ (\E pc \in {"change", "idle"} : Goto(Rpc, pc)) /\ UNCHANGED <<serverVars, boot>>
    BY <1>2 DEF SetClientPassword, Save, Saved
  <2> HIDE DEF e
  <2> QED BY <2>1, <2>2, RpcSaves
<1> QED BY <1>1, <1>2

\* UpdateClient merges into the entry and saves, or is refused.
LEMMA UpdateClientStep ==
    ASSUME Core, thr[Main].pc # "open", NEW c \in Clients,
           NEW type \in {"device", "service", "user", None}, NEW key \in Keys \cup {None},
           UpdateClient(c, type, key)
    PROVE  Core'
<1>1. CASE entries[c] = NoEntry
  BY <1>1, Refuses DEF UpdateClient, Refuse
<1>2. CASE entries[c] # NoEntry
  <2> DEFINE e == Updated(c, [type |-> type, key |-> key])
  <2>1. e \in Entry
    BY <1>2, UpdatedType DEF Core
  <2>2. Saved(c, e) /\ Goto(Rpc, "idle") /\ UNCHANGED <<serverVars, boot>>
    BY <1>2 DEF UpdateClient, Save, Saved
  <2> HIDE DEF e
  <2> QED BY <2>1, <2>2, RpcSaves
<1> QED BY <1>1, <1>2

\* A request that first reads the profile changes nothing until it has read it.
LEMMA ReadStep ==
    ASSUME Core, thr[Main].pc # "open", NEW c \in Clients,
           \/ \E role \in Roles : UpdateClientRole(c, role)
           \/ UpdateName(c)
           \/ \E key \in Keys : UpdatePubKey(c, key)
    PROVE  Core'
<1>1. CASE UNCHANGED authVars
  BY <1>1, Refuses
<1>2. ASSUME NEW role \in Roles, UpdateClientRole(c, role), ~ UNCHANGED authVars PROVE Core'
  <2>1. entries[c] \in Entry
    BY <1>2 DEF UpdateClientRole, Refuse, Core, StoreOK, Store
  <2>2. [entries[c] EXCEPT !.role = role] \in Entry
    BY <2>1 DEF Entry, AllRoles
  <2> QED BY <1>2, <2>2, RpcReads DEF UpdateClientRole, Refuse
<1>3. ASSUME UpdateName(c), ~ UNCHANGED authVars PROVE Core'
  <2>1. entries[c] \in Entry
    BY <1>3 DEF UpdateName, Refuse, Core, StoreOK, Store
  <2> QED BY <1>3, <2>1, RpcReads DEF UpdateName, Refuse
<1>4. ASSUME NEW key \in Keys, UpdatePubKey(c, key), ~ UNCHANGED authVars PROVE Core'
  <2>1. entries[c] \in Entry
    BY <1>4 DEF UpdatePubKey, Refuse, Core, StoreOK, Store
  <2>2. [entries[c] EXCEPT !.key = key] \in Entry
    BY <2>1 DEF Entry
  <2> QED BY <1>4, <2>2, RpcReads DEF UpdatePubKey, Refuse
<1> QED BY <1>1, <1>2, <1>3, <1>4

\* The second half of such a request writes the profile it has read.
LEMMA UpdateProfileStep ==
    ASSUME Core, thr[Main].pc # "open", UpdateProfile
    PROVE  Core'
<1> DEFINE c == thr[Rpc].c
           e == Updated(c, thr[Rpc].prof)
<1>1. c \in Clients /\ thr[Rpc].prof \in Entry
  BY DEF UpdateProfile, Core, ThreadOK, RpcOK
<1>2. UNCHANGED <<serverVars, boot>> /\ Goto(Rpc, "idle")
  BY DEF UpdateProfile, Save
<1>3. CASE entries[c] = NoEntry
  BY <1>2, <1>3, RpcReturns DEF UpdateProfile
<1>4. CASE entries[c] # NoEntry
  <2>1. e \in Entry
    BY <1>1, <1>4, UpdatedType DEF Core, Entry
  <2>2. Saved(c, e)
    BY <1>4 DEF UpdateProfile, Save, Saved
  <2> HIDE DEF e
  <2> QED BY <1>1, <1>2, <2>1, <2>2, RpcSaves
<1> QED BY <1>3, <1>4

\* The second half of UpdatePubKey also leaves a goroutine that applies the change.
LEMMA UpdatePubKeyStoreStep ==
    ASSUME Core, thr[Main].pc # "open", NEW g \in Background, UpdatePubKeyStore(g)
    PROVE  Core'
<1> DEFINE c == thr[Rpc].c
           e == Updated(c, thr[Rpc].prof)
<1>1. c \in Clients /\ thr[Rpc].prof \in Entry
  BY DEF UpdatePubKeyStore, Core, ThreadOK, RpcOK
<1>2. UNCHANGED <<serverVars, boot>>
  BY DEF UpdatePubKeyStore
<1>3. CASE entries[c] = NoEntry
  BY <1>2, <1>3, RpcReturns DEF UpdatePubKeyStore
<1>4. CASE entries[c] # NoEntry
  <2>1. e \in Entry
    BY <1>1, <1>4, UpdatedType DEF Core, Entry
  <2>2. /\ Saved(c, e)
        /\ \/ Goto(Rpc, "idle")
           \/ thr' = [thr EXCEPT ![Rpc] = IdleThread, ![g].pc = "change"]
    BY <1>4 DEF UpdatePubKeyStore, Save, Saved
  <2> HIDE DEF e
  <2>3. CASE Goto(Rpc, "idle")
    BY <1>1, <1>2, <2>1, <2>2, <2>3, RpcSaves
  <2>4. CASE thr' = [thr EXCEPT ![Rpc] = IdleThread, ![g].pc = "change"]
    <3>1. StoreOK' /\ AcceptedIsDurable' /\ ServerOK'
      BY <1>1, <1>2, <2>1, <2>2, SavedStep, ServerSame DEF Core
    <3>2. /\ Rpc \in Threads /\ Main \in Threads /\ g \in Threads /\ Main # g /\ Rpc # g /\ Main # Rpc
          /\ \A h \in Background : h \in Threads /\ h # Main /\ h # Rpc
      BY AuthAssumption DEF Threads
    <3>3. thr[g] \in Thread /\ IdleThread \in Thread /\ IdleThread.pc = "idle"
      BY <3>2, NoneIdle DEF Core, ThreadOK, IdleThread
    <3>4. [thr[g] EXCEPT !.pc = "change"] \in Thread /\ [thr[g] EXCEPT !.pc = "change"].pc = "change"
      BY <3>3 DEF Thread, Steps
    <3>5. /\ thr' \in [Threads -> Thread]
          /\ thr'[Rpc] = IdleThread /\ thr'[g] = [thr[g] EXCEPT !.pc = "change"]
          /\ \A t \in Threads : t # Rpc /\ t # g => thr'[t] = thr[t]
      BY <2>4, <3>2, <3>3, <3>4 DEF Core, ThreadOK
    <3>6. ThreadOK'
      BY <1>2, <3>2, <3>3, <3>4, <3>5 DEF Core, ThreadOK, MainOK, RpcOK, OpenOK, ApplySteps
    <3> QED BY <3>1, <3>6 DEF Core
  <2> QED BY <2>2, <2>3, <2>4
<1> QED BY <1>3, <1>4

\* UpdatePassword saves and leaves a goroutine that applies the change.
LEMMA UpdatePasswordStep ==
    ASSUME Core, thr[Main].pc # "open", NEW c \in Clients, NEW pw \in Passwords \cup {Short},
           NEW g \in Background, UpdatePassword(c, pw, g)
    PROVE  Core'
<1>1. CASE entries[c] = NoEntry \/ pw = Short
  BY <1>1, Refuses DEF UpdatePassword, Refuse
<1>2. CASE entries[c] # NoEntry /\ pw # Short
  <2> DEFINE e == [entries[c] EXCEPT !.pw = pw]
             r == [thr[g] EXCEPT !.pc = "build", !.build.clients = entries']
  <2>1. e \in Entry
    BY <1>2, PasswordType DEF Core
  <2>2. /\ Saved(c, e) /\ UNCHANGED <<serverVars, boot>>
        /\ \/ UNCHANGED thr
           \/ thr' = [thr EXCEPT ![g].pc = "build", ![g].build.clients = entries']
    BY <1>2 DEF UpdatePassword, Save, Saved
  <2> HIDE DEF e
  <2>3. StoreOK' /\ AcceptedIsDurable' /\ ServerOK'
    BY <2>1, <2>2, SavedStep, ServerSame DEF Core
  <2>4. g \in Threads /\ thr[g] \in Thread /\ entries' \in Store
    BY <2>3 DEF Threads, Core, ThreadOK, StoreOK
  <2>5. r \in Thread /\ r.pc = "build"
    BY <2>4 DEF Thread, Steps, Builds
  <2>6. CASE thr' = [thr EXCEPT ![g].pc = "build", ![g].build.clients = entries']
    <3>1. thr' = [thr EXCEPT ![g] = r]
      BY <2>4, <2>6 DEF Core, ThreadOK
    <3> HIDE DEF r
    <3>2. ThreadOK'
      BY <2>2, <2>5, <3>1, BackgroundMoves DEF Core, ApplySteps
    <3> QED BY <2>3, <3>2 DEF Core
  <2>7. CASE UNCHANGED thr
    BY <2>2, <2>3, <2>7 DEF Core, ThreadOK, MainOK, RpcOK, OpenOK
  <2> QED BY <2>2, <2>6, <2>7
<1> QED BY <1>1, <1>2

\* SetServicePermissions leaves the store alone.
LEMMA SetServicePermissionsStep ==
    ASSUME Core, thr[Main].pc # "open", NEW c \in Clients, NEW roles \in SUBSET Roles,
           SetServicePermissions(c, roles)
    PROVE  Core'
<1>1. CASE UNCHANGED authVars
  BY <1>1, Refuses
<1>2. CASE ~ UNCHANGED authVars
  <2>1. servicePerms' = servicePerms \cup ({c} \X roles)
        /\ UNCHANGED <<entries, file, event, opts, live, thr, boot, acked, used>>
    BY <1>2 DEF SetServicePermissions, Refuse
  <2>2. ServerOK'
    BY <2>1 DEF Core, ServerOK, AllRoles
  <2> QED BY <2>1, <2>2 DEF Core, StoreOK, ThreadOK, MainOK, RpcOK, OpenOK, AcceptedIsDurable
<1> QED BY <1>1, <1>2

-----------------------------------------------------------------------------
\* ApplyAuth, Start and crashes

\* Any goroutine that is applying goes on to its next step.
LEMMA ApplyMoves ==
    ASSUME ThreadOK, NEW t \in Threads, thr[t].pc \in ApplySteps,
           NEW r \in Thread, thr' = [thr EXCEPT ![t] = r], r.pc \in ApplySteps, UNCHANGED boot
    PROVE  ThreadOK' /\ thr[Main].pc # "open" /\ thr'[Main].pc # "open"
<1>1. thr[Main].pc # "open"
  BY DEF ThreadOK, OpenOK, ApplySteps
<1>2. CASE t = Main
  BY <1>2, MainMoves DEF ThreadOK, MainOK, ApplySteps
<1>3. CASE t = Rpc
  BY <1>1, <1>3, RpcMoves DEF ApplySteps
<1>4. CASE t \in Background
  BY <1>1, <1>4, BackgroundMoves
<1> QED BY <1>1, <1>2, <1>3, <1>4 DEF Threads

\* Carrying the clients over to the server leaves the store alone.
LEMMA ApplyStep ==
    ASSUME Core, NEW t \in Threads, ApplyAuth(t)
    PROVE  Core'
<1>1. thr[t] \in Thread /\ thr[t].build \in Builds /\ thr[t].pc \in ApplySteps
  BY DEF Core, ThreadOK, Thread, ApplyAuth, OnChange, ApplyBuild, ApplyUsers, ApplyNkeys, ApplyReload, ApplySteps
<1>2. thr[Main].pc # "open"
  BY <1>1 DEF Core, ThreadOK, OpenOK, ApplySteps
<1>3. StoreOK' /\ AcceptedIsDurable'
  BY <1>2, DurableSame DEF Core, ApplyAuth, OnChange, ApplyBuild, ApplyUsers, ApplyNkeys, ApplyReload
<1>4. ServerOK'
  BY <1>1 DEF Core, ServerOK, serverVars, ApplyAuth, OnChange, ApplyBuild, ApplyUsers, ApplyNkeys, ApplyReload
<1>5. ThreadOK'
  <2>1. CASE OnChange(t)
    <3> DEFINE r == [thr[t] EXCEPT !.pc = "build", !.build.clients = entries]
    <3>1. r \in Thread /\ r.pc = "build"
      BY <1>1 DEF Thread, Steps, Builds, Core, StoreOK
    <3>2. thr' = [thr EXCEPT ![t] = r]
      BY <2>1 DEF OnChange, Core, ThreadOK
    <3> HIDE DEF r
    <3> QED BY <1>1, <2>1, <3>1, <3>2, ApplyMoves DEF OnChange, Core, ApplySteps
  <2>2. CASE ApplyBuild(t)
    <3> DEFINE r == [thr[t] EXCEPT !.pc = "users", !.build.perms = servicePerms]
    <3>1. r \in Thread /\ r.pc = "users"
      BY <1>1 DEF Thread, Steps, Builds, Core, ServerOK
    <3>2. thr' = [thr EXCEPT ![t] = r]
      BY <2>2 DEF ApplyBuild, Core, ThreadOK
    <3> HIDE DEF r
    <3> QED BY <1>1, <2>2, <3>1, <3>2, ApplyMoves DEF ApplyBuild, Core, ApplySteps
  <2>3. CASE ApplyUsers(t) \/ ApplyNkeys(t)
    <3>1. PICK pc \in {"nkeys", "reload"} : Goto(t, pc)
      BY <2>3 DEF ApplyUsers, ApplyNkeys
    <3>2. PICK r \in Thread : thr' = [thr EXCEPT ![t] = r] /\ r.pc = pc
      BY <3>1, GotoStep DEF Steps, Core
    <3> QED BY <1>1, <2>3, <3>2, ApplyMoves DEF ApplyUsers, ApplyNkeys, Core, ApplySteps
  <2>4. CASE ApplyReload(t)
    <3>1. CASE t = Main
      <4> DEFINE pc == IF boot < 3 THEN "boot" ELSE "idle"
      <4>1. Goto(Main, pc) /\ boot' = boot + 1
        BY <2>4, <3>1 DEF ApplyReload
      <4>2. boot \in {0, 2, 3}
        BY <1>1, <3>1 DEF Core, ThreadOK, MainOK
      <4>3. PICK r \in Thread : thr' = [thr EXCEPT ![Main] = r] /\ r.pc = pc
        BY <3>1, <4>1, GotoStep DEF Steps, Core
      <4>4. /\ r.pc \in {"boot", "idle"} /\ boot' \in 0..4
            /\ r.pc = "boot" => boot' \in 0..3
            /\ r.pc = "idle" => boot' = 4
        BY <4>1, <4>2, <4>3
      <4> QED BY <4>3, <4>4, MainMoves DEF Core, ApplySteps
    <3>2. CASE t # Main
      <4>1. Goto(t, "idle") /\ UNCHANGED boot
        BY <2>4, <3>2 DEF ApplyReload
      <4>2. PICK r \in Thread : thr' = [thr EXCEPT ![t] = r] /\ r.pc = "idle"
        BY <4>1, GotoStep DEF Steps, Core
      <4> QED BY <1>2, <3>2, <4>1, <4>2, RpcMoves, BackgroundMoves DEF Core, Threads
    <3> QED BY <3>1, <3>2
  <2> QED BY <2>1, <2>2, <2>3, <2>4 DEF ApplyAuth
<1> QED BY <1>3, <1>4, <1>5 DEF Core

\* Start adds an account of the hub itself.
LEMMA BootSaves ==
    ASSUME Core, thr[Main].pc = "boot", boot \in {0, 2, 3}, NEW c \in Clients,
           NEW entry \in Entry, Saved(c, entry), Goto(Main, "change"), UNCHANGED <<serverVars, boot>>
    PROVE  Core'
<1>1. StoreOK' /\ AcceptedIsDurable' /\ ServerOK'
  BY SavedStep, ServerSame DEF Core
<1>2. PICK r \in Thread : thr' = [thr EXCEPT ![Main] = r] /\ r.pc = "change"
  BY GotoStep DEF Steps, Core, Threads
<1>3. ThreadOK'
  BY <1>2, MainMoves DEF Core, ApplySteps, ThreadOK
<1> QED BY <1>1, <1>3 DEF Core

\* The goroutines of a process that starts.
LEMMA StartedOK ==
    ASSUME thr' = Started, boot' = 0
    PROVE  ThreadOK'
<1>1. Started \in [Threads -> Thread]
  BY NoneIdle DEF Started, Steps
<1>2. \A t \in Threads : Started[t].pc = IF t = Main THEN "open" ELSE "idle"
  BY DEF Started, IdleThread
<1>3. Rpc \in Threads /\ Main \in Threads /\ Main # Rpc /\ \A g \in Background : g \in Threads /\ g # Main
  BY AuthAssumption DEF Threads
<1> HIDE DEF Started
<1> QED BY <1>1, <1>2, <1>3 DEF ThreadOK, MainOK, RpcOK, OpenOK, ApplySteps

\* A store and a server without clients.
LEMMA EmptyTypes == EmptyStore \in Store /\ NoClients \in [users: Builds, nkeys: Builds]
  BY NoneIdle DEF EmptyStore, Store, NoClients

\* After a restart only the file is left, and the store is not open yet.
LEMMA RestartStep ==
    ASSUME Core, Restart, used' \in [fails: 0..MaxFails, crashes: 0..MaxCrashes],
           UNCHANGED acked \/ \E c \in Clients : acked' = [acked EXCEPT ![c] = Unknown]
    PROVE  Core'
<1>1. StoreOK'
  BY EmptyTypes DEF Core, StoreOK, Restart
<1>2. ServerOK'
  BY EmptyTypes DEF Core, ServerOK, Restart
<1>3. ThreadOK'
  BY StartedOK DEF Restart
<1>4. thr'[Main].pc = "open"
  BY DEF Restart, Started, IdleThread, Threads
<1>5. AcceptedIsDurable'
  BY <1>4 DEF Core, StoreOK, AcceptedIsDurable, Restart
<1> QED BY <1>1, <1>2, <1>3, <1>5 DEF Core

\* Each step of the start, which may end in a panic.
LEMMA BootStep ==
    ASSUME Core, Boot
    PROVE  Core'
<1>1. CASE StoreOpen
  <2>1. StoreOK' /\ AcceptedIsDurable'
    BY <1>1 DEF StoreOpen, Core, StoreOK, AcceptedIsDurable
  <2>2. PICK r \in Thread : thr' = [thr EXCEPT ![Main] = r] /\ r.pc = "boot"
    BY <1>1, GotoStep DEF Steps, Core, Threads, StoreOpen
  <2>3. ThreadOK /\ boot = 0 /\ boot' = 0
    BY <1>1 DEF StoreOpen, Core, ThreadOK, MainOK
  <2>4. /\ boot' \in 0..4 /\ boot' \in 0..3
        /\ r.pc \in {"boot", "idle"} \cup ApplySteps
        /\ r.pc \notin ApplySteps /\ r.pc # "idle"
    BY <2>2, <2>3 DEF ApplySteps
  <2>5. ThreadOK'
    BY <2>2, <2>3, <2>4, MainMoves
  <2> QED BY <1>1, <2>1, <2>5, ServerSame DEF Core, StoreOpen
<1>2. CASE BootAuth
  <2> DEFINE e == Added(AuthID, [type |-> "service", key |-> BootKey, role |-> "service", pw |-> None])
  <2>1. AuthID \in Clients /\ e \in Entry
    BY AddedType, AuthAssumption DEF Core, AllRoles, BootRoles
  <2>2. Saved(AuthID, e) /\ Goto(Main, "change") /\ UNCHANGED <<serverVars, boot>>
    BY <1>2 DEF BootAuth, Save, Saved
  <2> HIDE DEF e
  <2> QED BY <1>2, <2>1, <2>2, BootSaves DEF BootAuth
<1>3. CASE BootPermissions
  <2>1. ServerOK'
    BY <1>3, AuthAssumption DEF BootPermissions, Core, ServerOK, AllRoles, BootRoles
  <2>2. StoreOK' /\ AcceptedIsDurable'
    BY <1>3, DurableSame DEF BootPermissions, Core
  <2>3. ThreadOK'
    BY <1>3 DEF BootPermissions, Core, ThreadOK, MainOK, RpcOK, OpenOK, ApplySteps
  <2> QED BY <2>1, <2>2, <2>3 DEF Core
<1>4. CASE BootLauncher
  <2> DEFINE e == Added(LauncherID, [type |-> "service", key |-> BootKey, role |-> "service", pw |-> None])
  <2>1. LauncherID \in Clients /\ e \in Entry
    BY AddedType, AuthAssumption DEF Core, AllRoles, BootRoles
  <2>2. /\ Saved(LauncherID, e) /\ UNCHANGED serverVars
        /\ \/ Goto(Main, "change") /\ UNCHANGED boot
           \/ UNCHANGED thr /\ boot' = 3
    BY <1>4 DEF BootLauncher, Save, Saved
  <2> HIDE DEF e
  <2>3. CASE Goto(Main, "change") /\ UNCHANGED boot
    BY <1>4, <2>1, <2>2, <2>3, BootSaves DEF BootLauncher
  <2>4. CASE UNCHANGED thr /\ boot' = 3
    <3>1. StoreOK' /\ AcceptedIsDurable' /\ ServerOK'
      BY <1>4, <2>1, <2>2, SavedStep, ServerSame DEF Core, BootLauncher
    <3>2. ThreadOK'
      BY <1>4, <2>4 DEF BootLauncher, Core, ThreadOK, MainOK, RpcOK, OpenOK, ApplySteps
    <3> QED BY <3>1, <3>2 DEF Core
  <2> QED BY <2>2, <2>3, <2>4
<1>5. CASE BootAdmin
  <2> DEFINE e == Added(AdminID, [type |-> "user", key |-> BootKey, role |-> "admin", pw |-> None])
  <2>1. AdminID \in Clients /\ e \in Entry
    BY AddedType, AuthAssumption DEF Core, AllRoles, BootRoles
  <2>2. Saved(AdminID, e) /\ Goto(Main, "change") /\ UNCHANGED <<serverVars, boot>>
    BY <1>5 DEF BootAdmin, Save, Saved
  <2> HIDE DEF e
  <2> QED BY <1>5, <2>1, <2>2, BootSaves DEF BootAdmin
<1>6. CASE BootPanics
  <2>1. used' \in [fails: 0..MaxFails, crashes: 0..MaxCrashes]
    BY <1>6, AuthAssumption DEF BootPanics, Core, StoreOK
  <2>2. \E c \in Clients : acked' = [acked EXCEPT ![c] = Unknown]
    BY <1>6, AuthAssumption DEF BootPanics
  <2> QED BY <1>6, <2>1, <2>2, RestartStep DEF BootPanics
<1> QED BY <1>1, <1>2, <1>3, <1>4, <1>5, <1>6 DEF Boot

\* A crash leaves the file.
LEMMA CrashStep ==
    ASSUME Core, Crash
    PROVE  Core'
<1>1. used' \in [fails: 0..MaxFails, crashes: 0..MaxCrashes]
  BY AuthAssumption DEF Crash, Core, StoreOK
<1> QED BY <1>1, RestartStep DEF Crash

\* The watcher reads the file, which has what was accepted.
LEMMA ReloadStep ==
    ASSUME Core, Reload
    PROVE  Core'
<1>1. StoreOK' /\ AcceptedIsDurable'
  BY DEF Reload, Core, StoreOK, AcceptedIsDurable
<1> QED BY <1>1, ServerSame DEF Reload, Core, ThreadOK, MainOK, RpcOK, OpenOK

\* Every request, by the steps above.
LEMMA RequestStep ==
    ASSUME Core, boot # 0, ManageClients \/ ManageProfile
    PROVE  Core'
<1>1. thr[Main].pc # "open"
  BY DEF Core, ThreadOK, MainOK
<1>2. Targets \subseteq Clients
  BY AuthAssumption
<1>3. CASE ManageClients
  BY <1>1, <1>2, <1>3, AddClientStep, AddUserStep, RemoveClientStep, SetClientPasswordStep,
     UpdateClientStep, ReadStep DEF ManageClients, AddDevice, AddService
<1>4. CASE ManageProfile
  BY <1>1, <1>2, <1>4, ReadStep, UpdatePasswordStep, SetServicePermissionsStep DEF ManageProfile
<1> QED BY <1>3, <1>4

\* The state of the service stays well-formed, and what the store accepted
\* stays in its file and in memory.
THEOREM Invariance == Spec => []IInv
<1>1. Init => IInv
  <2> SUFFICES ASSUME Init PROVE IInv
    OBVIOUS
  <2>1. StoreOK /\ ServerOK
    <3>1. used \in [fails: 0..MaxFails, crashes: 0..MaxCrashes]
      BY AuthAssumption DEF Init
    <3> QED BY <3>1, EmptyTypes DEF Init, StoreOK, ServerOK
  <2>2. Started \in [Threads -> Thread]
    BY NoneIdle DEF Started, Steps
  <2>3. \A t \in Threads : Started[t].pc = IF t = Main THEN "open" ELSE "idle"
    BY DEF Started, IdleThread
  <2>4. Rpc \in Threads /\ Main \in Threads /\ Main # Rpc /\ \A g \in Background : g \in Threads /\ g # Main
    BY AuthAssumption DEF Threads
  <2>5. ThreadOK
    BY <2>2, <2>3, <2>4 DEF Init, ThreadOK, MainOK, RpcOK, OpenOK, ApplySteps
  <2>6. AcceptedIsDurable
    BY DEF Init, AcceptedIsDurable, EmptyStore
  <2> QED BY <2>1, <2>5, <2>6, AuthAssumption DEF IInv, Core, Init
<1>2. IInv /\ [Next]_vars => IInv'
  <2> SUFFICES ASSUME IInv, [Next]_vars PROVE IInv'
    OBVIOUS
  <2>1. CASE Request
    <3>1. boot # 0
      BY <2>1, AuthAssumption DEF Request, IInv, Core, ThreadOK
    <3>2. Core'
      BY <2>1, <3>1, RequestStep DEF Request, IInv
    <3> QED BY <2>1, <3>2, AuthAssumption DEF Request, IInv
  <2>2. CASE Serve /\ UNCHANGED requests
    <3>1. thr[Main].pc # "open"
      BY <2>2 DEF Serve, AddUserPassword, UpdateProfile, UpdatePubKeyStore, IInv, Core, ThreadOK, OpenOK, Threads
    <3> QED BY <2>2, <3>1, AddUserPasswordStep, UpdateProfileStep, UpdatePubKeyStoreStep DEF Serve, IInv
  <2>3. CASE UNCHANGED vars
    BY <2>3, Refuses DEF vars, IInv
  <2> QED BY <2>1, <2>2, <2>3, BootStep, ApplyStep, ReloadStep, CrashStep DEF Next, IInv
<1> QED BY <1>1, <1>2, PTL DEF Spec

\* A change that the store accepted is in the password file and in memory,
\* through failing writes for other clients, reloads of the file and crashes of
\* the hub, whichever requests arrive and also while Start is still running.
THEOREM AcceptedIsDurableHolds == Spec => []AcceptedIsDurable
<1>1. IInv => AcceptedIsDurable
  BY DEF IInv, Core
<1> QED BY <1>1, Invariance, PTL

-----------------------------------------------------------------------------
\* Requests that apply their change before they reply

\* Requests are handled once Start has returned, no write fails, and no request
\* leaves the change of the server to the background or does without it.
Orderly == ~ EarlyRequests /\ MaxFails = 0 /\ Requests \subseteq SyncRequests

Alone(t) == \A u \in Threads \ {t} : thr[u].pc = "idle"

\* How far goroutine t is with applying the entries of the store.
Applying(t) ==
    /\ thr[t].pc \in {"build", "users", "nkeys", "reload"} => thr[t].build.clients = entries
    /\ thr[t].pc \in {"nkeys", "reload"} => opts.users.clients = entries
    /\ thr[t].pc = "reload" => opts.nkeys.clients = entries

\* At most one goroutine is at work, and what it applies is in store and file.
SyncInv ==
    /\ Alone(Main) \/ Alone(Rpc)
    /\ thr[Rpc].pc \notin {"update", "updatekey"}
    /\ thr[Rpc].pc = "setpw" => entries[thr[Rpc].c] # NoEntry /\ thr[Rpc].pw # Short
    /\ thr[Main].pc # "open" => entries = file
    /\ Applying(Main) /\ Applying(Rpc)
    /\ InSync

\* The start, the requests and the goroutines in the background are different.
LEMMA ThreadsDiffer ==
    /\ Rpc \in Threads /\ Main \in Threads /\ Main # Rpc
    /\ \A g \in Background : g \in Threads /\ g # Main /\ g # Rpc
  BY AuthAssumption DEF Threads

\* A write of the store always succeeds.
LEMMA SavedOrderly ==
    ASSUME Orderly, StoreOK, NEW c, NEW entry, Saved(c, entry)
    PROVE  entries' = [entries EXCEPT ![c] = entry] /\ file' = entries'
<1>1. ~ (used.fails < MaxFails)
  BY DEF Orderly, StoreOK
<1> QED BY <1>1 DEF Saved

\* The only goroutine at work goes on, and is not yet at applying.
LEMMA SyncMoves ==
    ASSUME ThreadOK, NEW t \in {Main, Rpc}, Alone(t),
           NEW r \in Thread, thr' = [thr EXCEPT ![t] = r],
           t = Main => r.pc \in {"boot", "change"},
           t = Rpc => r.pc \in {"setpw", "change"} /\ thr[Main].pc = "idle",
           r.pc = "setpw" => entries'[r.c] # NoEntry /\ r.pw # Short,
           entries' = file'
    PROVE  SyncInv'
<1>1. t \in Threads /\ thr'[t] = r /\ \A u \in Threads : u # t => thr'[u] = thr[u]
  BY ThreadsDiffer DEF ThreadOK
<1>2. Alone(t)'
  BY <1>1 DEF Alone
<1>3. r.pc \in {"boot", "setpw", "change"}
  BY ThreadsDiffer
<1>4. Applying(Main)' /\ Applying(Rpc)'
  BY <1>1, <1>2, <1>3, ThreadsDiffer DEF Applying, Alone
<1>5. ~ Quiet'
  BY <1>1, <1>3 DEF Quiet
<1>6. thr'[Rpc].pc \notin {"update", "updatekey"}
  BY <1>1, <1>2, <1>3, ThreadsDiffer DEF Alone
<1>7. thr'[Rpc].pc = "setpw" => entries'[thr'[Rpc].c] # NoEntry /\ thr'[Rpc].pw # Short
  BY <1>1, <1>2, ThreadsDiffer DEF Alone
<1> QED BY <1>2, <1>4, <1>5, <1>6, <1>7, ThreadsDiffer DEF SyncInv, InSync

\* The goroutine that is at work, or about to be, is alone.
LEMMA WhoIsAlone ==
    ASSUME ThreadOK, SyncInv
    PROVE  /\ thr[Main].pc # "idle" => Alone(Main)
           /\ thr[Rpc].pc # "idle" => Alone(Rpc)
           /\ boot = 4 => thr[Main].pc = "idle" /\ Alone(Rpc)
           /\ \A g \in Background : thr[g].pc = "idle"
<1>1. /\ thr[Main].pc # "idle" => Alone(Main)
      /\ thr[Rpc].pc # "idle" => Alone(Rpc)
      /\ \A g \in Background : thr[g].pc = "idle"
  BY ThreadsDiffer DEF SyncInv, Alone
<1>2. boot = 4 => thr[Main].pc = "idle"
  BY DEF ThreadOK, MainOK
<1>3. boot = 4 => Alone(Rpc)
  BY <1>2, ThreadsDiffer DEF SyncInv, Alone, Threads
<1> QED BY <1>1, <1>2, <1>3

\* A handler changes the store and goes on to onChange.
LEMMA SyncSaves ==
    ASSUME Orderly, Core, SyncInv, NEW t \in {Main, Rpc}, Alone(t), t = Rpc => thr[Main].pc = "idle",
           NEW c, NEW entry, Saved(c, entry), Goto(t, "change")
    PROVE  SyncInv'
<1>1. entries' = file'
  BY SavedOrderly DEF Core
<1>2. PICK r \in Thread : thr' = [thr EXCEPT ![t] = r] /\ r.pc = "change"
  BY ThreadsDiffer, GotoStep DEF Steps, Core
<1> QED BY <1>1, <1>2, SyncMoves DEF Core

\* A request that arrives finds nobody at work and the server in sync.
LEMMA SyncRequest ==
    ASSUME Orderly, IInv, SyncInv, Request
    PROVE  SyncInv'
<1>1. boot = 4 /\ thr[Main].pc = "idle" /\ Alone(Rpc) /\ Core
  BY WhoIsAlone DEF Orderly, Request, IInv, Core
<1>2. CASE UNCHANGED authVars
  BY <1>2 DEF SyncInv, Alone, Applying, InSync, Quiet, authVars
<1>3. ~ ManageProfile
  BY DEF ManageProfile, Orderly, SyncRequests
<1>4. PICK c \in Targets :
        \/ \E key \in Keys \cup {None} : AddDevice(c, key) \/ AddService(c, key)
        \/ \E key \in Keys \cup {None}, role \in Roles, pw \in Passwords \cup {None} : AddUser(c, key, role, pw)
        \/ RemoveClient(c)
        \/ \E pw \in Passwords \cup {Short} : SetClientPassword(c, pw)
  BY <1>3 DEF Request, ManageClients, Orderly, SyncRequests
<1>5. ~ (used.fails < MaxFails)
  BY <1>1 DEF Orderly, Core, StoreOK
<1>6. c \in Clients
  BY AuthAssumption
<1>7. ASSUME NEW key \in Keys \cup {None}, AddDevice(c, key) \/ AddService(c, key) PROVE SyncInv'
  <2>1. \E entry : Saved(c, entry) /\ Goto(Rpc, "change")
    BY <1>5, <1>7 DEF AddDevice, AddService, AddClient, Save, Saved
  <2> QED BY <1>1, <2>1, SyncSaves
<1>8. CASE RemoveClient(c)
  <2>1. Saved(c, NoEntry) /\ Goto(Rpc, "change")
    BY <1>5, <1>8 DEF RemoveClient, Save, Saved
  <2> QED BY <1>1, <2>1, SyncSaves
<1>9. ASSUME NEW pw \in Passwords \cup {Short}, SetClientPassword(c, pw), ~ UNCHANGED authVars PROVE SyncInv'
  <2>1. \E entry : Saved(c, entry) /\ Goto(Rpc, "change")
    BY <1>5, <1>9 DEF SetClientPassword, Refuse, Save, Saved
  <2> QED BY <1>1, <2>1, SyncSaves
<1>10. ASSUME NEW key \in Keys \cup {None}, NEW role \in Roles, NEW pw \in Passwords \cup {None},
              AddUser(c, key, role, pw)
       PROVE  SyncInv'
  <2> DEFINE profile == [type |-> "user", key |-> key, role |-> role, pw |-> None]
             e == Added(c, profile)
             r == [thr[Rpc] EXCEPT !.pc = IF pw = None THEN "change" ELSE "setpw",
                                   !.c = c, !.pw = pw, !.prof = profile]
  <2>1. e \in Entry /\ profile \in Entry
    BY <1>1, <1>6, AddedType DEF Core, AllRoles, Entry
  <2>2. Saved(c, e) /\ thr' = [thr EXCEPT ![Rpc] = r]
    BY <1>5, <1>10 DEF AddUser, Save, Saved
  <2>3. thr[Rpc] \in Thread
    BY <1>1, ThreadsDiffer DEF Core, ThreadOK
  <2>4. r \in Thread /\ r.pc \in {"change", "setpw"} /\ r.c = c /\ r.pw = pw
    <3> HIDE DEF profile
    <3> QED BY <1>6, <2>1, <2>3 DEF Thread, Steps
  <2>5. entries' = file' /\ entries'[c] # NoEntry /\ pw # Short
    <3> HIDE DEF e
    <3> QED BY <1>1, <1>6, <2>1, <2>2, SavedOrderly, AuthAssumption DEF Core, StoreOK, Store
  <2> HIDE DEF r, e, profile
  <2> QED BY <1>1, <2>2, <2>4, <2>5, SyncMoves, ThreadsDiffer DEF Core
<1> QED BY <1>2, <1>4, <1>7, <1>8, <1>9, <1>10

\* The second half of AddUser is the only work left over from a request.
LEMMA SyncServe ==
    ASSUME Orderly, Core, SyncInv, Serve
    PROVE  SyncInv'
<1>1. AddUserPassword
  BY DEF Serve, UpdateProfile, UpdatePubKeyStore, SyncInv
<1>2. Alone(Rpc) /\ thr[Main].pc = "idle"
  BY <1>1, WhoIsAlone, ThreadsDiffer DEF AddUserPassword, Core, Alone
<1>3. ~ (used.fails < MaxFails)
  BY DEF Orderly, Core, StoreOK
<1>4. \E entry : Saved(thr[Rpc].c, entry) /\ Goto(Rpc, "change")
  BY <1>1, <1>3 DEF AddUserPassword, SyncInv, Save, Saved
<1> QED BY <1>2, <1>4, SyncSaves

\* The start sequence works alone.
LEMMA SyncBoot ==
    ASSUME Orderly, Core, SyncInv, Boot
    PROVE  SyncInv'
<1>1. thr[Main].pc \in {"open", "boot"} /\ Alone(Main)
  BY WhoIsAlone DEF Core, Boot, StoreOpen, BootAuth, BootPermissions, BootLauncher, BootAdmin, BootPanics
<1>2. ~ (used.fails < MaxFails)
  BY DEF Orderly, Core, StoreOK
<1>3. CASE StoreOpen
  <2>1. PICK r \in Thread : thr' = [thr EXCEPT ![Main] = r] /\ r.pc = "boot"
    BY <1>3, ThreadsDiffer, GotoStep DEF Steps, Core, StoreOpen
  <2> QED BY <1>1, <1>3, <2>1, SyncMoves, ThreadsDiffer DEF StoreOpen, Core
<1>4. CASE BootAuth \/ BootLauncher \/ BootAdmin
  <2>1. \E c, entry : Saved(c, entry) /\ Goto(Main, "change")
    BY <1>2, <1>4 DEF BootAuth, BootLauncher, BootAdmin, Save, Saved
  <2> QED BY <1>1, <2>1, SyncSaves, ThreadsDiffer
<1>5. CASE BootPermissions
  BY <1>5, ThreadsDiffer DEF BootPermissions, SyncInv, Alone, Applying, InSync, Quiet
<1>6. ~ BootPanics
  BY <1>2 DEF BootPanics
<1> QED BY <1>3, <1>4, <1>5, <1>6 DEF Boot

\* Each step of ApplyAuth carries the content of the file further.
LEMMA SyncApply ==
    ASSUME Core, SyncInv, NEW t \in Threads, ApplyAuth(t)
    PROVE  SyncInv'
<1>1. thr[t].pc \in ApplySteps /\ thr[t] \in Thread
  BY DEF Core, ThreadOK, ApplyAuth, OnChange, ApplyBuild, ApplyUsers, ApplyNkeys, ApplyReload, ApplySteps
<1>2. t \in {Main, Rpc} /\ Alone(t)
  BY <1>1, WhoIsAlone, ThreadsDiffer DEF Core, ApplySteps, Threads
<1>3. entries' = entries /\ file' = file /\ thr[Main].pc # "open"
  BY <1>1, <1>2, ThreadsDiffer
     DEF ApplyAuth, OnChange, ApplyBuild, ApplyUsers, ApplyNkeys, ApplyReload, ApplySteps, Alone
<1>4. PICK r \in Thread :
        /\ thr' = [thr EXCEPT ![t] = r]
        /\ r.pc \in {"idle", "boot", "build", "users", "nkeys", "reload"}
        /\ OnChange(t) => r.pc = "build" /\ r.build.clients = entries
        /\ ApplyBuild(t) => r.pc = "users" /\ r.build.clients = thr[t].build.clients
        /\ ApplyUsers(t) => r.pc = "nkeys" /\ r.build = thr[t].build
        /\ ApplyNkeys(t) => r.pc = "reload" /\ r.build = thr[t].build
        /\ ApplyReload(t) => r.pc \in {"idle", "boot"}
  <2>1. CASE OnChange(t)
    <3> DEFINE r == [thr[t] EXCEPT !.pc = "build", !.build.clients = entries]
    <3>1. r \in Thread /\ r.pc = "build" /\ r.build.clients = entries
      BY <1>1 DEF Thread, Steps, Builds, Core, StoreOK
    <3>2. thr' = [thr EXCEPT ![t] = r]
      BY <2>1 DEF OnChange, Core, ThreadOK
    <3> HIDE DEF r
    <3> QED BY <2>1, <3>1, <3>2 DEF OnChange, ApplyBuild, ApplyUsers, ApplyNkeys, ApplyReload
  <2>2. CASE ApplyBuild(t)
    <3> DEFINE r == [thr[t] EXCEPT !.pc = "users", !.build.perms = servicePerms]
    <3>1. r \in Thread /\ r.pc = "users" /\ r.build.clients = thr[t].build.clients
      BY <1>1 DEF Thread, Steps, Builds, Core, ServerOK
    <3>2. thr' = [thr EXCEPT ![t] = r]
      BY <2>2 DEF ApplyBuild, Core, ThreadOK
    <3> HIDE DEF r
    <3> QED BY <2>2, <3>1, <3>2 DEF OnChange, ApplyBuild, ApplyUsers, ApplyNkeys, ApplyReload
  <2>3. CASE ApplyUsers(t) \/ ApplyNkeys(t)
    <3>1. PICK pc \in {"nkeys", "reload"} : Goto(t, pc) /\ (ApplyUsers(t) => pc = "nkeys") /\ (ApplyNkeys(t) => pc = "reload")
      BY <2>3 DEF ApplyUsers, ApplyNkeys
    <3>2. PICK r \in Thread : thr' = [thr EXCEPT ![t] = r] /\ r.pc = pc /\ r = [thr[t] EXCEPT !.pc = pc]
      BY <3>1, GotoStep DEF Steps, Core
    <3>3. r.build = thr[t].build
      BY <1>1, <3>2 DEF Thread
    <3> QED BY <2>3, <3>1, <3>2, <3>3 DEF OnChange, ApplyBuild, ApplyUsers, ApplyNkeys, ApplyReload
  <2>4. CASE ApplyReload(t)
    <3>1. PICK pc \in {"idle", "boot"} : Goto(t, pc)
      BY <2>4 DEF ApplyReload
    <3>2. PICK r \in Thread : thr' = [thr EXCEPT ![t] = r] /\ r.pc = pc
      BY <3>1, GotoStep DEF Steps, Core
    <3> QED BY <2>4, <3>2 DEF OnChange, ApplyBuild, ApplyUsers, ApplyNkeys, ApplyReload
  <2> QED BY <2>1, <2>2, <2>3, <2>4 DEF ApplyAuth
<1>5. thr'[t] = r /\ \A u \in Threads : u # t => thr'[u] = thr[u]
  BY <1>4 DEF Core, ThreadOK
<1>6. Alone(t)' /\ Applying(t)
  BY <1>2, <1>5 DEF Alone, SyncInv
<1>7. Applying(t)'
  <2>1. CASE ~ ApplyReload(t)
    <3>1. /\ opts' \in [users: Builds, nkeys: Builds]
          /\ ApplyUsers(t) => opts'.users = thr[t].build
          /\ ApplyNkeys(t) => opts'.nkeys = thr[t].build /\ opts'.users = opts.users
          /\ ~ ApplyUsers(t) /\ ~ ApplyNkeys(t) => opts' = opts
      BY <1>1, <2>1 DEF ApplyAuth, OnChange, ApplyBuild, ApplyUsers, ApplyNkeys, serverVars, Core, ServerOK, Thread
    <3> QED BY <1>3, <1>4, <1>5, <1>6, <2>1, <3>1
            DEF Applying, ApplyAuth, OnChange, ApplyBuild, ApplyUsers, ApplyNkeys
  <2>2. CASE ApplyReload(t)
    BY <1>4, <1>5, <2>2 DEF Applying
  <2> QED BY <2>1, <2>2
<1>8. Applying(Main)' /\ Applying(Rpc)'
  BY <1>2, <1>6, <1>7, ThreadsDiffer DEF Applying, Alone
<1>9. InSync'
  <2>1. CASE ApplyReload(t)
    BY <1>3, <1>6, <2>1 DEF ApplyReload, InSync, Applying
  <2>2. CASE ~ ApplyReload(t)
    <3>1. thr'[t].pc # "idle"
      BY <1>4, <1>5, <2>2 DEF ApplyAuth
    <3> QED BY <3>1 DEF InSync, Quiet
  <2> QED BY <2>1, <2>2
<1>10. /\ thr'[Rpc].pc \notin {"update", "updatekey", "setpw"}
       /\ Alone(Main)' \/ Alone(Rpc)'
  BY <1>2, <1>4, <1>5, <1>6, ThreadsDiffer DEF Alone
<1>11. entries' = file'
  BY <1>3 DEF SyncInv
<1> QED BY <1>8, <1>9, <1>10, <1>11 DEF SyncInv

\* A process that starts has nothing to be in sync with.
LEMMA SyncRestart ==
    ASSUME Restart
    PROVE  SyncInv'
<1>1. \A t \in Threads : thr'[t].pc = IF t = Main THEN "open" ELSE "idle"
  BY DEF Restart, Started, IdleThread
<1>2. boot' = 0
  BY DEF Restart
<1> QED BY <1>1, <1>2, ThreadsDiffer DEF SyncInv, Alone, Applying, InSync, Quiet

\* What the watcher reads is what is in memory, except before the store is open.
LEMMA SyncReload ==
    ASSUME Core, SyncInv, Reload
    PROVE  SyncInv'
<1>1. CASE thr[Main].pc = "open"
  <2>1. \A t \in Threads : thr[t].pc = IF t = Main THEN "open" ELSE "idle"
    BY <1>1 DEF Core, ThreadOK, OpenOK
  <2> QED BY <2>1, ThreadsDiffer DEF SyncInv, Alone, Applying, InSync, Quiet, Reload
<1>2. CASE thr[Main].pc # "open"
  <2>1. entries' = entries
    BY <1>2 DEF SyncInv, Reload
  <2> QED BY <2>1 DEF SyncInv, Alone, Applying, InSync, Quiet, Reload, serverVars
<1> QED BY <1>1, <1>2

\* SyncInv holds with orderly requests: every step needs what the others keep,
\* that no second goroutine is at work and that memory and file agree.
LEMMA SyncInvariance ==
    ASSUME Orderly
    PROVE  Spec => [](IInv /\ SyncInv)
<1>1. Init => SyncInv
  <2> SUFFICES ASSUME Init PROVE SyncInv
    OBVIOUS
  <2>1. \A t \in Threads : thr[t].pc = IF t = Main THEN "open" ELSE "idle"
    BY DEF Init, Started, IdleThread
  <2> QED BY <2>1, ThreadsDiffer DEF Init, SyncInv, Alone, Applying, InSync, Quiet
<1>2. IInv /\ SyncInv /\ [Next]_vars => SyncInv'
  <2> SUFFICES ASSUME IInv, SyncInv, [Next]_vars PROVE SyncInv'
    OBVIOUS
  <2>1. CASE UNCHANGED vars
    BY <2>1 DEF vars, authVars, SyncInv, Alone, Applying, InSync, Quiet
  <2>2. CASE Crash
    BY <2>2, SyncRestart DEF Crash
  <2> QED BY <2>1, <2>2, SyncRequest, SyncServe, SyncBoot, SyncApply, SyncReload DEF Next, IInv
<1> QED BY <1>1, <1>2, Invariance, PTL DEF Spec

\* Once every request has been handled, the server knows exactly the clients
\* of the store, with the keys and passwords that they have there: for every
\* number of clients, requests and crashes, with orderly requests.
THEOREM InSyncHolds ==
    ASSUME Orderly
    PROVE  Spec => []InSync
<1>1. SyncInv => InSync
  BY DEF SyncInv
<1> QED BY <1>1, SyncInvariance, PTL

\* A step that leaves the server alone changes the file, or is a stutter.
LEMMA ContractChange ==
    ASSUME live' = live
    PROVE  [Contract!Next]_(Contract!vars)
  BY DEF Contract!Next, Contract!Change, Contract!vars

\* The service keeps the safety part of AuthContract with orderly requests: the
\* server only moves to the content that the password file has at that moment,
\* users and nkeys together, or to nothing because the hub starts again.
THEOREM ContractSafety ==
    ASSUME Orderly
    PROVE  Spec => Contract!Safe
<1>1. Init => Contract!Init
  BY DEF Init, Contract!Init, Contract!Knows, NoClients, NoBuild
<1>2. IInv /\ SyncInv /\ [Next]_vars => [Contract!Next]_(Contract!vars)
  <2> SUFFICES ASSUME IInv, SyncInv, [Next]_vars, live' # live PROVE Contract!Next
    BY ContractChange
  <2>1. CASE Restart
    BY <2>1 DEF Restart, NoClients, NoBuild, Contract!Next, Contract!Restart, Contract!Knows
  <2>2. ASSUME NEW t \in Threads, ApplyReload(t) PROVE Contract!Next
    <3>1. t \in {Main, Rpc} /\ thr[Main].pc # "open"
      BY <2>2, WhoIsAlone, ThreadsDiffer DEF ApplyReload, IInv, Core, Threads, Alone
    <3>2. opts.users.clients = file /\ opts.nkeys.clients = file
      BY <2>2, <3>1 DEF ApplyReload, SyncInv, Applying
    <3> QED BY <2>2, <3>2 DEF ApplyReload, Contract!Next, Contract!Apply, Contract!Knows
  <2>3. ~ Request
    BY DEF Request, ManageClients, ManageProfile, AddDevice, AddService, AddClient, AddUser, RemoveClient,
           SetClientPassword, UpdateClient, UpdateClientRole, UpdateName, UpdatePubKey, UpdatePassword,
           SetServicePermissions, Refuse, authVars, serverVars
  <2>4. ~ Serve /\ ~ Reload
    BY DEF Serve, AddUserPassword, UpdateProfile, UpdatePubKeyStore, Reload, serverVars
  <2>5. Boot => Restart
    BY DEF Boot, StoreOpen, BootAuth, BootPermissions, BootLauncher, BootAdmin, BootPanics, serverVars
  <2>6. \A t \in Threads : ApplyAuth(t) => ApplyReload(t)
    BY DEF ApplyAuth, OnChange, ApplyBuild, ApplyUsers, ApplyNkeys, serverVars
  <2>7. ~ UNCHANGED vars
    BY DEF vars, authVars
  <2> QED BY <2>1, <2>2, <2>3, <2>4, <2>5, <2>6, <2>7 DEF Next, Crash
<1> QED BY <1>1, <1>2, SyncInvariance, PTL DEF Spec, Contract!Safe

=============================================================================
