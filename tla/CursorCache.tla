----------------------------- MODULE CursorCache ----------------------------
(***************************************************************************)
(* The cache of cursors that services keep for remote clients.  A client   *)
(* asks for a cursor and moves it with later requests that name its key; a *)
(* background loop releases cursors that were not used for a while.        *)
(*                                                                         *)
(* A service handles its requests one at a time, in the goroutine of its   *)
(* subscription.  Only the loop runs beside it.  A request first obtains   *)
(* the cursor with Get and moves it after the cache is unlocked again.     *)
(*                                                                         *)
(* Time advances in ticks.  A cursor's age counts the ticks since it was   *)
(* last used or, if it has not been used yet, since it was added.          *)
(***************************************************************************)
EXTENDS Integers, FiniteSets

CONSTANTS
    Clients,     \* clients of the service
    MaxCursors,  \* bound on the number of cursors ever added
    Lifespan,    \* ticks after which an unused cursor has expired
    Period,      \* ticks between two passes of the background loop
    None         \* no cursor, no request

ASSUME CursorAssumption ==
    /\ MaxCursors \in Nat
    /\ Lifespan \in Nat
    /\ Period \in Nat \ {0}
    /\ None \notin Clients

VARIABLES
    cursorsByKey,   \* the cached cursors
    cursorCounter,  \* the last key given out
    opened,         \* the number of cursors ever opened
    tx,             \* per cursor: is its read transaction open
    held,           \* the keys that clients have, each with the cursor it stood for
    req,            \* the request that has its cursor and is about to move it
    loop,           \* the background loop
    process         \* the process runs, or it has panicked

vars == <<cursorsByKey, cursorCounter, opened, tx, held, req, loop, process>>

-----------------------------------------------------------------------------
\* State

Cursors == 1..MaxCursors

Keys == 1..MaxCursors

CursorInfo == [cursor: Cursors, owner: Clients, used: BOOLEAN, age: 0..(Lifespan + 1)]

\* No cursor differs from every cursor.
ASSUME NoneAssumption == None \notin CursorInfo

Request == [cursor: Cursors, key: Keys, checked: BOOLEAN]

\* The type invariant.
TypeOK ==
    /\ cursorsByKey \in [Keys -> CursorInfo \cup {None}]
    /\ cursorCounter \in 0..MaxCursors
    /\ opened \in 0..MaxCursors
    /\ tx \in [Cursors -> BOOLEAN]
    /\ held \in [Clients -> SUBSET (Keys \X Cursors)]
    /\ req \in Request \cup {None}
    /\ loop \in [pc: {"wait", "scan", "release"}, timer: 0..Period,
                 expired: SUBSET (Keys \X Cursors), stopped: BOOLEAN]
    /\ process \in {"running", "panic"}

Init ==
    /\ cursorsByKey = [k \in Keys |-> None]
    /\ cursorCounter = 0
    /\ opened = 0
    /\ tx = [c \in Cursors |-> FALSE]
    /\ held = [c \in Clients |-> {}]
    /\ req = None
    /\ loop = [pc |-> "wait", timer |-> 0, expired |-> {}, stopped |-> FALSE]
    /\ process = "running"

Cached == {k \in Keys : cursorsByKey[k] # None}

Running == process # "panic"

\* The service's goroutine is free for the next request.
Free == Running /\ req = None

-----------------------------------------------------------------------------
\* The cache

\* Mutant: the key is the position in the cache.
Add_ByCount(c) ==
    LET key == Cardinality(Cached) + 1 IN
    /\ Free
    /\ opened < MaxCursors
    /\ opened' = opened + 1
    /\ cursorCounter' = key
    /\ tx' = [tx EXCEPT ![opened + 1] = TRUE]
    /\ cursorsByKey' = [cursorsByKey EXCEPT ![key] =
           [cursor |-> opened + 1, owner |-> c, used |-> FALSE, age |-> 0]]
    /\ held' = [held EXCEPT ![c] = @ \cup {<<key, opened + 1>>}]
    /\ UNCHANGED <<req, loop, process>>

\* A cursor is opened for the client and its new key is returned to it.
Add(c) ==
    LET key == cursorCounter + 1 IN
    /\ Free
    /\ opened < MaxCursors
    /\ opened' = opened + 1
    /\ cursorCounter' = key
    /\ tx' = [tx EXCEPT ![opened + 1] = TRUE]
    /\ cursorsByKey' = [cursorsByKey EXCEPT ![key] =
           [cursor |-> opened + 1, owner |-> c, used |-> FALSE, age |-> 0]]
    /\ held' = [held EXCEPT ![c] = @ \cup {<<key, opened + 1>>}]
    /\ UNCHANGED <<req, loop, process>>

\* Is the cursor of the client, and still in the cache?
MayUse(c, key) == IF key \in Cached THEN cursorsByKey[key].owner = c ELSE FALSE

\* A request of client c that names a key obtains the cursor.
Get(c, key) ==
    /\ Free
    /\ MayUse(c, key)
    /\ cursorsByKey' = [cursorsByKey EXCEPT ![key] = [@ EXCEPT !.used = TRUE, !.age = 0]]
    /\ req' = [cursor |-> cursorsByKey[key].cursor, key |-> key, checked |-> FALSE]
    /\ UNCHANGED <<cursorCounter, opened, tx, held, loop, process>>

\* The first half of a move: a cursor that has been released reports its end.
Check ==
    /\ Running
    /\ req # None
    /\ ~ req.checked
    /\ \/ /\ tx[req.cursor]
          /\ req' = [req EXCEPT !.checked = TRUE]
       \/ /\ ~ tx[req.cursor]
          /\ req' = None
    /\ UNCHANGED <<cursorsByKey, cursorCounter, opened, tx, held, loop, process>>

\* The second half: moving a cursor of an ended transaction panics.
Move ==
    /\ Running
    /\ req # None
    /\ req.checked
    /\ process' = IF tx[req.cursor] THEN process ELSE "panic"
    /\ req' = None
    /\ UNCHANGED <<cursorsByKey, cursorCounter, opened, tx, held, loop>>

\* Mutant: the entry goes and the transaction stays.
Remove_KeepsTx(key) ==
    /\ cursorsByKey' = [cursorsByKey EXCEPT ![key] = None]
    /\ UNCHANGED tx

\* The cursor's transaction ends with its entry.
Remove(key) ==
    /\ tx' = [tx EXCEPT ![cursorsByKey[key].cursor] = FALSE]
    /\ cursorsByKey' = [cursorsByKey EXCEPT ![key] = None]

\* The client releases its cursor.
Release(c, key) ==
    /\ Free
    /\ MayUse(c, key)
    /\ Remove(key)
    /\ UNCHANGED <<cursorCounter, opened, held, req, loop, process>>

-----------------------------------------------------------------------------
\* The background loop

\* A cursor that has not been used is considered expired.
Expired(key) ==
    IF key \in Cached THEN ~ cursorsByKey[key].used \/ cursorsByKey[key].age > Lifespan ELSE FALSE

\* The timeout of the wait.
Wake ==
    /\ Running
    /\ loop.pc = "wait"
    /\ loop.timer = Period
    /\ loop' = [loop EXCEPT !.pc = "scan"]
    /\ UNCHANGED <<cursorsByKey, cursorCounter, opened, tx, held, req, process>>

\* Stop hands its signal to the waiting loop.  The break leaves the select
\* statement, not the loop.
Stop ==
    /\ Running
    /\ ~ loop.stopped
    /\ loop.pc = "wait"
    /\ loop' = [loop EXCEPT !.stopped = TRUE, !.pc = "scan"]
    /\ UNCHANGED <<cursorsByKey, cursorCounter, opened, tx, held, req, process>>

\* Mutant: cursors that were never used are kept.
Scan_OnlyUsed ==
    /\ Running
    /\ loop.pc = "scan"
    /\ loop' = [loop EXCEPT !.pc = "release",
                            !.expired = {<<k, cursorsByKey[k].cursor>> :
                                k \in {k \in Cached : cursorsByKey[k].used /\ Expired(k)}}]
    /\ UNCHANGED <<cursorsByKey, cursorCounter, opened, tx, held, req, process>>

\* The list of expired cursors is made under the lock ...
Scan ==
    /\ Running
    /\ loop.pc = "scan"
    /\ loop' = [loop EXCEPT !.pc = "release",
                            !.expired = {<<k, cursorsByKey[k].cursor>> :
                                k \in {k \in Cached : Expired(k)}}]
    /\ UNCHANGED <<cursorsByKey, cursorCounter, opened, tx, held, req, process>>

\* ... and each is released under a lock of its own.
ReleaseExpired(key) ==
    /\ Running
    /\ loop.pc = "release"
    /\ \E c \in Cursors :
        /\ <<key, c>> \in loop.expired
        /\ loop' = [loop EXCEPT !.expired = @ \ {<<key, c>>}]
    /\ IF key \in Cached THEN Remove(key) ELSE UNCHANGED <<tx, cursorsByKey>>
    /\ UNCHANGED <<cursorCounter, opened, held, req, process>>

PassDone ==
    /\ Running
    /\ loop.pc = "release"
    /\ loop.expired = {}
    /\ loop' = [loop EXCEPT !.pc = "wait", !.timer = 0]
    /\ UNCHANGED <<cursorsByKey, cursorCounter, opened, tx, held, req, process>>

Aged(info) == [info EXCEPT !.age = IF @ > Lifespan THEN @ ELSE @ + 1]

Tick ==
    /\ Running
    /\ cursorsByKey' = [k \in Keys |-> IF k \in Cached THEN Aged(cursorsByKey[k]) ELSE None]
    /\ loop' = [loop EXCEPT !.timer = IF loop.pc = "wait" /\ @ < Period THEN @ + 1 ELSE @]
    /\ UNCHANGED <<cursorCounter, opened, tx, held, req, process>>

-----------------------------------------------------------------------------
\* Specification

KeysOf(c) == {h[1] : h \in held[c]}

Panicked == process = "panic" /\ UNCHANGED vars

Next ==
    \/ \E c \in Clients : Add(c) \/ \E key \in KeysOf(c) : Get(c, key)
    \/ \E c \in Clients, key \in Keys : Release(c, key)
    \/ Check
    \/ Move
    \/ Wake
    \/ Stop
    \/ Scan
    \/ \E key \in Keys : ReleaseExpired(key)
    \/ PassDone
    \/ Tick
    \/ Panicked

Spec == Init /\ [][Next]_vars

\* The clock and the loop's goroutine go on, and so does a request.
FairSpec ==
    /\ Spec
    /\ WF_vars(Tick)
    /\ WF_vars(Wake \/ Scan \/ (\E key \in Keys : ReleaseExpired(key)) \/ PassDone)
    /\ WF_vars(Check \/ Move)

-----------------------------------------------------------------------------
\* Properties

\* A transaction is open exactly as long as its cursor can be found: no cursor
\* is forgotten with its transaction open, which would keep the store from
\* closing and its file from growing.
NoLeak ==
    \A c \in Cursors : tx[c] <=> \E k \in Cached : cursorsByKey[k].cursor = c

\* A key that a client still holds after its cursor was released, by itself or
\* by the loop, never gives it another cursor.
KeyMeansCursor ==
    \A c \in Clients : \A h \in held[c] : h[1] \in Cached => cursorsByKey[h[1]].cursor = h[2]

\* A cursor does not stay in the cache unless it is used again and again.
AbandonedIsReleased ==
    \A key \in Keys : []<>(key \notin Cached \/ (req # None /\ req.key = key) \/ ~ Running)

-----------------------------------------------------------------------------
\* What comments say and the code does not do

\* "cursors are given a limited non-used lifespan, after which they are removed":
\* a new cursor is there for its lifespan.
NewIsKept ==
    [][\A key \in Cached : cursorsByKey'[key] = None /\ loop.pc = "release" /\ loop' # loop
        => cursorsByKey[key].used \/ cursorsByKey[key].age > Lifespan]_vars

\* The same for a cursor that was used: the loop does not remove it before its
\* lifespan has passed since its last use.
UsedIsKept ==
    [][\A key \in Cached : cursorsByKey'[key] = None /\ loop.pc = "release" /\ loop' # loop
        => ~ cursorsByKey[key].used \/ cursorsByKey[key].age > Lifespan]_vars

\* Get: "An error is returned if the cursor is not found, has expired, or belongs
\* to a different owner."
ExpiredIsRefused ==
    [][\A key \in Cached : req = None /\ req' # None /\ req'.key = key
        => cursorsByKey[key].age <= Lifespan]_vars

\* "Stop the background auto-expiry loop if running"
StopEndsLoop == loop.stopped ~> [](loop.pc # "scan")

=============================================================================
