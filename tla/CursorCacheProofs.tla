------------------------- MODULE CursorCacheProofs --------------------------
(***************************************************************************)
(* Proofs about the cursor cache for any clients, number of cursors,       *)
(* lifespan and period, with the release that a client asks for, which the *)
(* directory never gets to (see Directory).  Keys and cursors are both     *)
(* given out in order, so the cursor of a key is the one with its number:  *)
(* from this follow that no key gives another cursor and that the removal  *)
(* of an entry ends the transaction of no other.                           *)
(*                                                                         *)
(* The second part is about the directory, whose clients read the cursors  *)
(* of the cache while others write things and the cache removes what has   *)
(* not been used: what a client has been given is, thing by thing, what    *)
(* lies between the first thing and the place of its cursor.               *)
(*                                                                         *)
(* The third part is about the cursors of the history, which move in both  *)
(* directions, with a filter, and in batches: what a client has received   *)
(* is what the filter lets through between the first entry and the place   *)
(* of the cursor.  A batch is a recursive function; that each of its steps *)
(* keeps this is an induction, by the least step that would not.           *)
(***************************************************************************)
EXTENDS Directory, HistoryCursor, Sequences, FiniteSetTheorems, WellFoundedInduction, TLAPS

\* A key has the cursor with its number, which is one of those opened; the
\* transaction of a cursor is open exactly while it is in the cache.
IInv ==
    /\ opened \in 0..MaxCursors /\ cursorCounter = opened
    /\ tx \in [Cursors -> BOOLEAN]
    /\ cursorsByKey \in [Keys -> CursorInfo \union {None}]
    /\ \A k \in Cached : cursorsByKey[k].cursor = k /\ k <= opened
    /\ \A k \in Keys : tx[k] <=> k \in Cached
    /\ held \in [Clients -> SUBSET (Keys \X Cursors)]
    /\ \A c \in Clients : \A h \in held[c] : h[2] = h[1]

-----------------------------------------------------------------------------
\* An entry of the cache is a record.
LEMMA CachedEntry ==
    ASSUME IInv, NEW k \in Cached
    PROVE  /\ k \in Keys /\ k \in Cursors /\ cursorsByKey[k] \in CursorInfo
           /\ cursorsByKey[k].cursor = k
BY DEF IInv, Cached, Keys, Cursors

\* A step that replaces entries by entries with the same cursor.
LEMMA SameCursors ==
    ASSUME IInv, UNCHANGED <<cursorCounter, opened, tx, held>>,
           cursorsByKey' \in [Keys -> CursorInfo \union {None}],
           \A k \in Keys : /\ cursorsByKey'[k] = None <=> cursorsByKey[k] = None
                           /\ cursorsByKey[k] # None =>
                                 cursorsByKey'[k].cursor = cursorsByKey[k].cursor
    PROVE  IInv'
<1>1. Cached' = Cached
  BY DEF Cached
<1>2. \A k \in Cached : cursorsByKey'[k].cursor = cursorsByKey[k].cursor
  BY DEF Cached
<1> QED BY <1>1, <1>2 DEF IInv

\* A new cursor takes the next key and the next number.
LEMMA AddStep == ASSUME IInv, NEW c \in Clients, Add(c) PROVE IInv'
<1> DEFINE key == opened + 1
           info == [cursor |-> key, owner |-> c, used |-> FALSE, age |-> 0]
<1>0. /\ opened < MaxCursors /\ opened' = key /\ cursorCounter' = key
      /\ tx' = [tx EXCEPT ![key] = TRUE]
      /\ cursorsByKey' = [cursorsByKey EXCEPT ![key] = info]
      /\ held' = [held EXCEPT ![c] = @ \union {<<key, key>>}]
  BY DEF Add, IInv
<1>1. /\ MaxCursors \in Nat /\ Lifespan \in Nat /\ opened \in Nat
      /\ key \in Keys /\ key \in Cursors /\ key \in 0..MaxCursors
  BY <1>0, CursorAssumption DEF IInv, Keys, Cursors
<1>2. info \in CursorInfo /\ info # None /\ info.cursor = key
  <2>1. info \in CursorInfo
    BY <1>1 DEF CursorInfo
  <2> QED BY <2>1, NoneAssumption
<1> HIDE DEF info
<1>3. cursorsByKey' \in [Keys -> CursorInfo \union {None}]
  BY <1>0, <1>1, <1>2 DEF IInv
<1>4. Cached' = Cached \union {key}
  BY <1>0, <1>1, <1>2 DEF IInv, Cached
<1>5. \A k \in Cached' : cursorsByKey'[k].cursor = k /\ k <= opened'
  <2>1. \A k \in Cached : k \in Keys /\ k # key
    BY <1>1 DEF IInv, Cached, Keys
  <2> QED BY <1>0, <1>1, <1>2, <1>4, <2>1 DEF IInv, Keys
<1>6. tx' \in [Cursors -> BOOLEAN] /\ \A k \in Keys : tx'[k] <=> k \in Cached'
  BY <1>0, <1>1, <1>4 DEF IInv, Keys, Cursors
<1>7. held' \in [Clients -> SUBSET (Keys \X Cursors)]
  BY <1>0, <1>1 DEF IInv
<1>8. \A d \in Clients : \A h \in held'[d] : h[2] = h[1]
  BY <1>0 DEF IInv
<1> QED BY <1>0, <1>1, <1>3, <1>5, <1>6, <1>7, <1>8 DEF IInv

\* The removal of an entry ends the transaction of its cursor and of no other.
LEMMA RemoveStep ==
    ASSUME IInv, NEW key \in Cached, Remove(key), UNCHANGED <<cursorCounter, opened, held>>
    PROVE  IInv'
<1>0. key \in Keys /\ key \in Cursors /\ cursorsByKey[key].cursor = key
  BY CachedEntry
<1>1. /\ tx' = [tx EXCEPT ![key] = FALSE]
      /\ cursorsByKey' = [cursorsByKey EXCEPT ![key] = None]
  BY <1>0 DEF Remove
<1>2. Cached' = Cached \ {key}
  BY <1>0, <1>1 DEF IInv, Cached
<1>3. cursorsByKey' \in [Keys -> CursorInfo \union {None}]
  BY <1>1 DEF IInv
<1>4. \A k \in Cached' : cursorsByKey'[k].cursor = k /\ k <= opened'
  BY <1>1, <1>2 DEF IInv, Cached
<1>5. tx' \in [Cursors -> BOOLEAN] /\ \A k \in Keys : tx'[k] <=> k \in Cached'
  BY <1>0, <1>1, <1>2 DEF IInv, Keys, Cursors
<1> QED BY <1>3, <1>4, <1>5 DEF IInv

\* Obtaining a cursor marks its entry.
LEMMA GetStep == ASSUME IInv, NEW c \in Clients, NEW key, Get(c, key) PROVE IInv'
<1> DEFINE info == [cursorsByKey[key] EXCEPT !.used = TRUE, !.age = 0]
<1>0. /\ key \in Cached /\ UNCHANGED <<cursorCounter, opened, tx, held>>
      /\ cursorsByKey' = [cursorsByKey EXCEPT ![key] = info]
  BY DEF Get, MayUse
<1>1. key \in Keys /\ cursorsByKey[key] \in CursorInfo
  BY <1>0, CachedEntry
<1>2. info \in CursorInfo /\ info.cursor = cursorsByKey[key].cursor
  <2>1. 0 \in 0..(Lifespan + 1)
    BY CursorAssumption
  <2> QED BY <1>1, <2>1 DEF CursorInfo
<1>3. info # None /\ cursorsByKey[key] # None
  BY <1>1, <1>2, NoneAssumption
<1> HIDE DEF info
<1> QED BY <1>0, <1>1, <1>2, <1>3, SameCursors DEF IInv

\* Time ages the entries.
LEMMA TickStep == ASSUME IInv, Tick PROVE IInv'
<1>0. /\ UNCHANGED <<cursorCounter, opened, tx, held>>
      /\ cursorsByKey' = [k \in Keys |-> IF k \in Cached THEN Aged(cursorsByKey[k]) ELSE None]
  BY DEF Tick
<1>1. ASSUME NEW k \in Cached
      PROVE  /\ Aged(cursorsByKey[k]) \in CursorInfo /\ Aged(cursorsByKey[k]) # None
             /\ Aged(cursorsByKey[k]).cursor = cursorsByKey[k].cursor
  <2>1. cursorsByKey[k] \in CursorInfo
    BY CachedEntry
  <2>2. /\ Aged(cursorsByKey[k]) \in CursorInfo
        /\ Aged(cursorsByKey[k]).cursor = cursorsByKey[k].cursor
    BY <2>1, CursorAssumption DEF Aged, CursorInfo
  <2> QED BY <2>2, NoneAssumption
<1>2. cursorsByKey' \in [Keys -> CursorInfo \union {None}]
  BY <1>0, <1>1
<1>3. \A k \in Keys : /\ cursorsByKey'[k] = None <=> cursorsByKey[k] = None
                      /\ cursorsByKey[k] # None =>
                            cursorsByKey'[k].cursor = cursorsByKey[k].cursor
  BY <1>0, <1>1 DEF Cached
<1> QED BY <1>0, <1>2, <1>3, SameCursors

\* Every step of the cache keeps the invariant.
LEMMA NextInv == ASSUME IInv, [Next]_vars PROVE IInv'
<1>1. ASSUME UNCHANGED <<cursorsByKey, cursorCounter, opened, tx, held>> PROVE IInv'
  BY <1>1 DEF IInv, Cached
<1>2. CASE Check \/ Move \/ Wake \/ Stop \/ Scan \/ PassDone \/ Panicked \/ UNCHANGED vars
  BY <1>1, <1>2 DEF Check, Move, Wake, Stop, Scan, PassDone, Panicked, vars
<1>3. ASSUME NEW c \in Clients, NEW key \in Keys, Release(c, key) PROVE IInv'
  BY <1>3, RemoveStep DEF Release, MayUse
<1>4. ASSUME NEW key \in Keys, ReleaseExpired(key) PROVE IInv'
  BY <1>1, <1>4, RemoveStep DEF ReleaseExpired
<1> QED BY <1>2, <1>3, <1>4, AddStep, GetStep, TickStep DEF Next

\* In the beginning the cache is empty.
LEMMA InitInv == ASSUME Init PROVE IInv
<1>1. cursorsByKey \in [Keys -> CursorInfo \union {None}] /\ Cached = {}
  BY DEF Init, Cached
<1>2. tx \in [Cursors -> BOOLEAN] /\ \A k \in Keys : ~tx[k]
  BY DEF Init, Cursors, Keys
<1>3. held \in [Clients -> SUBSET (Keys \X Cursors)] /\ \A c \in Clients : held[c] = {}
  BY DEF Init
<1>4. opened \in 0..MaxCursors /\ cursorCounter = opened
  BY CursorAssumption DEF Init
<1> QED BY <1>1, <1>2, <1>3, <1>4 DEF IInv

\* The invariant is inductive.
THEOREM Invariance == Spec => []IInv
<1>1. Init => IInv
  BY InitInv
<1>2. IInv /\ [Next]_vars => IInv'
  BY NextInv
<1> QED BY <1>1, <1>2, PTL DEF Spec

\* A cursor in the cache is found under its number.
LEMMA InvNoLeak == IInv => NoLeak
<1> SUFFICES ASSUME IInv PROVE NoLeak
  OBVIOUS
<1>1. \A k \in Cached : cursorsByKey[k].cursor = k /\ k \in Keys
  BY CachedEntry
<1> QED BY <1>1 DEF IInv, NoLeak, Keys, Cursors

\* Release, by the client or by the loop, ends the transaction of exactly the cursor it
\* takes out of the cache, for any number of cursors and clients.
THEOREM NoLeakHolds == Spec => []NoLeak
BY InvNoLeak, Invariance, PTL

\* A key that a client has been given never stands for another cursor.
THEOREM KeyMeansCursorHolds == Spec => []KeyMeansCursor
<1>1. IInv => KeyMeansCursor
  BY DEF IInv, KeyMeansCursor
<1> QED BY <1>1, Invariance, PTL

\* A nonempty set of natural numbers has a least one.
LEMMA LeastNat ==
    ASSUME NEW S, S \subseteq Nat, S # {}
    PROVE  \E x \in S : \A y \in S : x <= y
<1> DEFINE R == OpToRel(<, Nat)
<1>1. IsWellFoundedOn(R, Nat)
  BY NatLessThanWellFounded
<1>2. \A x, y \in Nat : x < y => <<x, y>> \in R
  BY DEF OpToRel
<1> HIDE DEF R
<1>3. PICK x \in S : \A y \in S : ~ (<<y, x>> \in R)
  BY <1>1, WFMin
<1>4. \A y \in S : x <= y
  <2> SUFFICES ASSUME NEW y \in S PROVE ~ (y < x)
    OBVIOUS
  <2> QED BY <1>2, <1>3, Zenon
<1> QED BY <1>3, <1>4

\* A nonempty set of things has a last one.
LEMMA LastThing ==
    ASSUME NEW S \in SUBSET Things, S # {}
    PROVE  \E t \in S : \A u \in S : t >= u
<1> DEFINE D == {NumThings - t : t \in S}
<1>1. D \subseteq Nat /\ D # {}
  <2>1. \A t \in S : NumThings - t \in Nat
    BY DirectoryAssumption DEF Things
  <2> QED BY <2>1
<1> HIDE DEF D
<1>2. PICK x \in D : \A y \in D : x <= y
  BY <1>1, LeastNat
<1>3. PICK t \in S : x = NumThings - t
  BY <1>2 DEF D
<1>4. \A u \in S : NumThings - t <= NumThings - u
  BY <1>2, <1>3 DEF D
<1> QED BY <1>4, DirectoryAssumption DEF Things

\* What a cursor takes are the next documents: none after its position is left out
\* before the new position.
LEMMA TakenUpTo ==
    ASSUME NEW p \in Position, NEW n \in Nat
    PROVE  /\ NewPos(p, Taken(p, n)) \in 0..NumThings
           /\ \A t \in Things : (t \in p.things /\ t <= NewPos(p, Taken(p, n)))
                                  <=> (t \in p.things /\ t <= p.pos) \/ t \in Taken(p, n)
           /\ \A t \in Taken(p, n) : t > p.pos
<1> DEFINE A == After(p)
           S == Taken(p, n)
           Before(t) == {u \in A : u < t}
<1>1. /\ p.things \subseteq Things /\ p.pos \in 0..NumThings
      /\ A \subseteq Things /\ \A t \in Things : t \in A <=> t \in p.things /\ t > p.pos
      /\ S \subseteq A /\ \A t \in A : t \in S <=> Cardinality(Before(t)) < n
  BY DEF Position, After, Taken
<1>2. IsFiniteSet(Things)
  BY DirectoryAssumption, FS_Interval DEF Things
<1>3. ASSUME NEW t \in S, NEW u \in A, u <= t PROVE u \in S
  <2>1. Before(u) \in SUBSET Before(t) /\ IsFiniteSet(Before(t)) /\ IsFiniteSet(Before(u))
    <3>1. Before(u) \in SUBSET Before(t)
      BY <1>1, <1>3 DEF Things
    <3>2. Before(t) \in SUBSET Things /\ Before(u) \in SUBSET Things
      BY <1>1
    <3> HIDE DEF Before
    <3> QED BY <1>2, <3>1, <3>2, FS_Subset
  <2>2. Cardinality(Before(u)) \in Nat /\ Cardinality(Before(t)) \in Nat
        /\ Cardinality(Before(u)) <= Cardinality(Before(t))
    BY <2>1, FS_Subset, FS_CardinalityType, Zenon
  <2>3. Cardinality(Before(t)) < n
    BY <1>1, <1>3
  <2> QED BY <1>1, <2>2, <2>3
<1>4. /\ NewPos(p, S) \in 0..NumThings
      /\ S = {} => NewPos(p, S) = p.pos
      /\ S # {} => NewPos(p, S) \in S /\ \A u \in S : NewPos(p, S) >= u
  <2>1. CASE S = {}
    BY <1>1, <2>1 DEF NewPos, MaxOf
  <2>2. CASE S # {}
    <3>1. S \in SUBSET Things
      BY <1>1
    <3> HIDE DEF S
    <3>2. \E t \in S : \A u \in S : t >= u
      BY <2>2, <3>1, LastThing
    <3>3. NewPos(p, S) \in S /\ \A u \in S : NewPos(p, S) >= u
      BY <2>2, <3>2 DEF NewPos, MaxOf
    <3>4. \A t \in Things : t \in 0..NumThings
      BY DirectoryAssumption DEF Things
    <3> QED BY <2>2, <3>1, <3>3, <3>4
  <2> QED BY <2>1, <2>2
<1> DEFINE q == NewPos(p, S)
<1> HIDE DEF A, S, Before, q
<1>5. \A t \in Things : t \in Nat /\ t >= 1
  BY DEF Things
<1>6. \A t \in S : t \in Things /\ t \in p.things /\ t > p.pos
  BY <1>1, <1>5
<1>7. ASSUME NEW t \in Things
      PROVE  (t \in p.things /\ t <= q) <=> (t \in p.things /\ t <= p.pos) \/ t \in S
  <2>1. CASE S = {}
    BY <1>4, <2>1 DEF q
  <2>2. CASE S # {}
    <3>1. q \in S /\ q \in Nat /\ (\A u \in S : q >= u) /\ q > p.pos /\ p.pos \in Nat /\ t \in Nat
      BY <1>1, <1>4, <1>5, <1>6, <2>2 DEF q
    <3>2. ASSUME t \in p.things, t <= q, ~ (t <= p.pos) PROVE t \in S
      BY <1>1, <1>3, <3>1, <3>2
    <3>3. t \in S => t <= q
      BY <3>1
    <3> QED BY <1>6, <3>1, <3>2, <3>3
  <2> QED BY <2>1, <2>2
<1> QED BY <1>4, <1>6, <1>7 DEF q, S

ClientStates == [key : Keys \union {None}, cursor : Cursors \union {None}, count : [Things -> Nat],
                 state : {"new", "iterating", "end", "released"}]

\* The documents up to the position of p were counted once, and no other.
Counted(n, p) == \A t \in Things : n[t] = IF t \in p.things /\ t <= p.pos THEN 1 ELSE 0

\* What holds of a client r, given the positions s of the first o cursors.
ClientOK(r, s, o) ==
    /\ r \in ClientStates
    /\ r.key # None => r.cursor = r.key
    /\ r.cursor # None => r.cursor <= o /\ Counted(r.count, s[r.cursor])

\* Clients iterate different cursors, and the cursor that a request is about to move is
\* the one of its client.
DirInv ==
    /\ IInv
    /\ tds \in (SUBSET Things) \union {None}
    /\ seen \in [Cursors -> Position]
    /\ client \in [Clients -> ClientStates]
    /\ \A c \in Clients : ClientOK(client[c], seen, opened)
    /\ \A c, d \in Clients : client[c].cursor # None /\ client[c].cursor = client[d].cursor => c = d
    /\ write # None => write \in Write
    /\ call # None => call \in [client : Clients, method : Methods]
    /\ req # None =>
          /\ call \in [client : Clients, method : {"First", "Next", "NextN"}]
          /\ req \in Request /\ req.cursor # None
          /\ req.cursor = client[call.client].cursor

\* A step that leaves the clients and the positions alone, and lets no request obtain a cursor.
LEMMA DirFrame ==
    ASSUME DirInv, IInv', UNCHANGED <<opened, seen, client>>, tds' \in (SUBSET Things) \union {None},
           write' # None => write' \in Write,
           call' # None => call' \in [client : Clients, method : Methods],
           req' = None \/ UNCHANGED <<req, call>>
    PROVE  DirInv'
<1>1. req' # None => /\ call' \in [client : Clients, method : {"First", "Next", "NextN"}]
                     /\ req' \in Request /\ req'.cursor # None
                     /\ req'.cursor = client[call'.client].cursor
  BY DEF DirInv
<1> QED BY <1>1 DEF DirInv

\* A step that changes one client, after which no request has a cursor.
LEMMA ClientStep ==
    ASSUME DirInv, IInv', UNCHANGED <<opened, seen, tds, write>>, NEW c \in Clients, NEW r,
           client' = [client EXCEPT ![c] = r], ClientOK(r, seen, opened),
           r.cursor \in {None, client[c].cursor},
           req' = None, call' # None => call' \in [client : Clients, method : Methods]
    PROVE  DirInv'
<1>1. client' \in [Clients -> ClientStates]
  BY DEF DirInv, ClientOK
<1>2. \A d \in Clients : client'[d] = IF d = c THEN r ELSE client[d]
  BY DEF DirInv
<1>3. \A d \in Clients : ClientOK(client'[d], seen', opened')
  BY <1>2, Zenon DEF DirInv
<1>4. \A d, e \in Clients : client'[d].cursor # None /\ client'[d].cursor = client'[e].cursor => d = e
  <2>1. \A d \in Clients : client'[d].cursor \in {None, client[d].cursor}
    BY <1>2
  <2> QED BY <2>1 DEF DirInv
<1> QED BY <1>1, <1>3, <1>4 DEF DirInv

\* A client that has given up, or has not begun, has no cursor.
LEMMA NewClientOK ==
    ASSUME NEW s, NEW o, NEW st \in {"new", "iterating", "end", "released"}
    PROVE  LET r == [NewClient EXCEPT !.state = st]
           IN ClientOK(NewClient, s, o) /\ ClientOK(r, s, o) /\ NewClient.cursor = None /\ r.cursor = None
<1>1. NoneReceived \in [Things -> Nat]
  BY DEF NoneReceived
<1> QED BY <1>1 DEF NewClient, ClientOK, ClientStates

\* The steps of the cache's loop and of the clock keep the invariant.
LEMMA BackgroundStep == ASSUME DirInv, Background PROVE DirInv'
<1>1. IInv'
  <2>1. CASE Wake \/ Stop \/ Scan \/ (\E key \in Keys : ReleaseExpired(key)) \/ PassDone \/ Tick
    <3>1. [Next]_vars
      BY <2>1 DEF Next
    <3> QED BY <3>1, NextInv DEF DirInv
  <2> QED BY <2>1 DEF Background
<1>2. UNCHANGED <<opened, seen, client, tds, call, req, write>>
  BY DEF Background, Wake, Stop, Scan, ReleaseExpired, PassDone, Tick
<1> QED BY <1>1, <1>2, DirFrame DEF DirInv

\* Writes, and requests that begin or end without a cursor.
LEMMA PlainStep ==
    ASSUME DirInv,
           \/ \E t \in Things : UpdateTDEvent(t) \/ UpdateTD(t) \/ RemoveTD(t)
           \/ Commit \/ Grow \/ GetCursorFails \/ GetTDsReturns \/ DirPanicked \/ UNCHANGED dirVars
           \/ \E c \in Clients : GetCursor(c) \/ GetTDs(c)
    PROVE  DirInv'
<1>0. ASSUME UNCHANGED <<cursorsByKey, cursorCounter, opened, tx, held>> PROVE IInv'
  BY <1>0 DEF DirInv, IInv, Cached
<1>1. CASE (\E t \in Things : UpdateTDEvent(t) \/ UpdateTD(t) \/ RemoveTD(t)) \/ Grow
           \/ DirPanicked \/ UNCHANGED dirVars
  <2>1. UNCHANGED <<cursorsByKey, cursorCounter, opened, tx, held, seen, client, tds, call, req>>
    BY <1>1 DEF UpdateTDEvent, UpdateTD, RemoveTD, StartWrite, Grow, DirPanicked, dirVars, vars
  <2>2. write' # None => write' \in Write
    <3>1. CASE Grow
      BY <3>1 DEF Grow, Write, DirInv
    <3>2. CASE \E t \in Things : UpdateTDEvent(t) \/ UpdateTD(t) \/ RemoveTD(t)
      <4>1. PICK t \in Things, who \in {"event", "rpc"}, add \in BOOLEAN : StartWrite(who, t, add)
        BY <3>2 DEF UpdateTDEvent, UpdateTD, RemoveTD
      <4>2. write' = [by |-> who, thing |-> t, add |-> add, growing |-> FALSE]
        BY <4>1 DEF StartWrite
      <4> QED BY <4>2 DEF Write
    <3> QED BY <1>1, <3>1, <3>2 DEF DirPanicked, dirVars, DirInv
  <2> QED BY <1>0, <2>1, <2>2, DirFrame DEF DirInv
<1>2. CASE Commit
  <2>1. UNCHANGED <<cursorsByKey, cursorCounter, opened, tx, held, seen, client, call, req>>
    BY <1>2 DEF Commit, vars
  <2>2. tds' \in SUBSET Things
    <3>1. Stored \in SUBSET Things
      BY DEF DirInv, Stored
    <3>2. write.thing \in Things
      BY <1>2 DEF Commit, DirInv, Write
    <3> QED BY <1>2, <3>1, <3>2 DEF Commit
  <2>3. write' = None
    BY <1>2 DEF Commit
  <2> QED BY <1>0, <2>1, <2>2, <2>3, DirFrame DEF DirInv
<1>3. CASE GetCursorFails \/ GetTDsReturns
  <2>1. /\ UNCHANGED <<cursorsByKey, cursorCounter, opened, tx, held, seen, client, tds, write>>
        /\ req = None /\ req' = None /\ call' = None
    BY <1>3 DEF GetCursorFails, GetTDsReturns, vars, Free
  <2> QED BY <1>0, <2>1, DirFrame DEF DirInv
<1>4. CASE \E c \in Clients : GetCursor(c) \/ GetTDs(c)
  <2>1. PICK c \in Clients, m \in Methods : StartCall(c, m)
    BY <1>4 DEF GetCursor, GetTDs, Methods
  <2>2. /\ UNCHANGED <<cursorsByKey, cursorCounter, opened, tx, held, seen, client, tds, write>>
        /\ req' = None /\ call' = [client |-> c, method |-> m]
    BY <2>1 DEF StartCall, vars, RpcFree, Free
  <2> QED BY <1>0, <2>2, DirFrame DEF DirInv
<1> QED BY <1>1, <1>2, <1>3, <1>4

\* A new cursor is at its beginning, with what is stored, and nobody else's.
LEMMA GetCursorStep == ASSUME DirInv, GetCursorAdds PROVE DirInv'
<1> DEFINE c == call.client
           key == opened + 1
           r == [NewClient EXCEPT !.key = key, !.cursor = key]
           p == [things |-> tds, pos |-> 0]
<1>1. /\ call # None /\ tds # None /\ Add(c) /\ seen' = [seen EXCEPT ![key] = p]
      /\ client' = [client EXCEPT ![c] = r] \/ client' = [client EXCEPT ![c] = NewClient]
      /\ call' = None /\ UNCHANGED <<tds, write>>
  BY DEF GetCursorAdds, GaveUp, Add, DirInv, IInv
<1>2. /\ c \in Clients /\ opened' = key /\ opened \in Nat /\ key \in Keys /\ key \in Cursors
      /\ req = None /\ req' = None
  BY <1>1, CursorAssumption DEF DirInv, IInv, Add, Free, Keys, Cursors
<1>3. IInv'
  BY <1>1, <1>2, AddStep DEF DirInv
<1>4. p \in Position /\ seen' \in [Cursors -> Position] /\ seen'[key] = p
  <2>1. p \in Position
    BY <1>1, DirectoryAssumption DEF DirInv, Position
  <2> QED BY <1>1, <1>2, <2>1 DEF DirInv
<1>5. r \in ClientStates /\ r.key = key /\ r.cursor = key /\ Counted(r.count, p)
  <2>1. NoneReceived \in [Things -> Nat] /\ Counted(NoneReceived, p)
    <3>1. \A t \in Things : ~ (t <= p.pos)
      BY DirectoryAssumption DEF Things
    <3> QED BY <3>1 DEF NoneReceived, Counted
  <2>2. r \in ClientStates /\ r.key = key /\ r.cursor = key /\ r.count = NoneReceived
    BY <1>2, <2>1 DEF NewClient, ClientStates
  <2> QED BY <2>1, <2>2
<1>6. ClientOK(r, seen', opened')
  BY <1>2, <1>4, <1>5 DEF ClientOK
<1>7. ClientOK(NewClient, seen', opened') /\ NewClient.cursor = None
  BY NewClientOK
<1> HIDE DEF r, p
<1>8. PICK q : /\ client' = [client EXCEPT ![c] = q] /\ ClientOK(q, seen', opened')
               /\ q.cursor \in {None, key}
  BY <1>1, <1>5, <1>6, <1>7
<1>9. \A d \in Clients : client'[d] = IF d = c THEN q ELSE client[d]
  BY <1>2, <1>8 DEF DirInv
<1>10. ASSUME NEW d \in Clients, client[d].cursor # None
       PROVE  /\ client[d].cursor \in Cursors /\ client[d].cursor <= opened
              /\ seen'[client[d].cursor] = seen[client[d].cursor] /\ client[d].cursor # key
  <2>1. client[d].cursor \in Cursors /\ client[d].cursor <= opened
    BY <1>10 DEF DirInv, ClientOK, ClientStates
  <2> QED BY <1>1, <1>2, <2>1 DEF DirInv, Cursors
<1>11. ASSUME NEW d \in Clients PROVE ClientOK(client'[d], seen', opened')
  <2>1. CASE d = c
    BY <1>8, <1>9, <2>1
  <2>2. CASE d # c
    <3>1. ClientOK(client[d], seen, opened) /\ client'[d] = client[d]
      BY <1>9, <2>2 DEF DirInv
    <3>2. client[d].cursor # None => client[d].cursor <= key
      BY <1>2, <1>10 DEF Cursors
    <3> QED BY <1>2, <1>10, <3>1, <3>2 DEF ClientOK
  <2> QED BY <2>1, <2>2
<1>12. client' \in [Clients -> ClientStates]
  BY <1>8 DEF DirInv, ClientOK
<1>13. \A d, e \in Clients : client'[d].cursor # None /\ client'[d].cursor = client'[e].cursor => d = e
  BY <1>8, <1>9, <1>10 DEF DirInv
<1> QED BY <1>1, <1>2, <1>3, <1>4, <1>11, <1>12, <1>13 DEF DirInv

\* A request obtains the cursor of its client.
LEMMA UseCursorStep ==
    ASSUME DirInv, NEW c \in Clients, NEW m \in {"First", "Next", "NextN"}, UseCursor(c, m)
    PROVE  DirInv'
<1> DEFINE key == client[c].key
<1>1. /\ Get(c, key) /\ key # None /\ UNCHANGED <<tds, seen, client, write>>
      /\ call' = [client |-> c, method |-> m]
  BY DEF UseCursor, MayCall
<1>2. IInv'
  BY <1>1, GetStep DEF DirInv
<1>3. key \in Cached /\ req' = [cursor |-> cursorsByKey[key].cursor, key |-> key, checked |-> FALSE]
      /\ opened' = opened
  BY <1>1 DEF Get, MayUse
<1>4. cursorsByKey[key].cursor = key /\ key \in Cursors
  BY <1>3, CachedEntry DEF DirInv
<1>5. req'.cursor = key /\ key = client[c].cursor /\ req' \in Request
  BY <1>1, <1>3, <1>4 DEF DirInv, ClientOK, Request, Cached
<1>6. /\ call' \in [client : Clients, method : Methods] /\ call'.client = c
      /\ call' \in [client : Clients, method : {"First", "Next", "NextN"}]
  BY <1>1 DEF Methods
<1> QED BY <1>1, <1>2, <1>3, <1>4, <1>5, <1>6 DEF DirInv

\* A move delivers the documents that it passes.
LEMMA MoveStep == ASSUME DirInv, MoveCursor PROVE DirInv'
<1> DEFINE c == call.client
           k == req.cursor
           p == seen[k]
           n == CASE call.method = "First" -> 1
                  [] call.method = "Next" -> 1
                  [] call.method = "NextN" -> Limit
           docs == Taken(p, n)
           pos == NewPos(p, docs)
           s == [p EXCEPT !.pos = pos]
           count == [t \in Things |-> client[c].count[t] + IF t \in docs THEN 1 ELSE 0]
           r == [client[c] EXCEPT !.count = count, !.state = IF Cardinality(docs) = n THEN "iterating" ELSE "end"]
           e == [client[c] EXCEPT !.key = None, !.state = "end"]
<1>1. /\ req # None /\ req' = None /\ call' = None
      /\ UNCHANGED <<cursorsByKey, cursorCounter, opened, tx, held, tds, write>>
  BY DEF MoveCursor, Move
<1>2. /\ c \in Clients /\ k \in Cursors /\ k # None /\ k = client[c].cursor
      /\ call.method \in {"First", "Next", "NextN"}
  BY <1>1 DEF DirInv, Request
<1>3. p \in Position /\ n \in Nat
  BY <1>2, DirectoryAssumption DEF DirInv
<1>4. seen' = [seen EXCEPT ![k].pos = pos]
  BY DEF MoveCursor
<1>5. \/ docs = {} /\ client' = [client EXCEPT ![c].key = None, ![c].state = "end"]
      \/ client' = [client EXCEPT ![c] = r]
      \/ client' = [client EXCEPT ![c] = NewClient]
  BY DEF MoveCursor, Reply, GaveUp
<1> HIDE DEF n
<1>6. /\ pos \in 0..NumThings
      /\ \A t \in Things : (t \in p.things /\ t <= pos) <=> (t \in p.things /\ t <= p.pos) \/ t \in docs
      /\ \A t \in docs : t > p.pos
  BY <1>3, TakenUpTo
<1>7. s \in Position /\ s.things = p.things /\ s.pos = pos
  BY <1>3, <1>6 DEF Position
<1>8. client[c] \in ClientStates /\ client[c].count \in [Things -> Nat] /\ Counted(client[c].count, p)
      /\ (client[c].key # None => client[c].cursor = client[c].key) /\ k <= opened
  BY <1>2 DEF DirInv, ClientOK, ClientStates
<1> HIDE DEF docs, pos, s
<1>9. count \in [Things -> Nat] /\ Counted(count, s)
  <2>1. \A t \in Things : (IF t \in docs THEN 1 ELSE 0) \in Nat
    OBVIOUS
  <2>2. count \in [Things -> Nat]
    BY <1>8, <2>1, SMTT(30)
  <2>3. ASSUME NEW t \in Things PROVE count[t] = IF t \in s.things /\ t <= s.pos THEN 1 ELSE 0
    <3>1. count[t] = client[c].count[t] + IF t \in docs THEN 1 ELSE 0
      OBVIOUS
    <3>2. client[c].count[t] = IF t \in p.things /\ t <= p.pos THEN 1 ELSE 0
      BY <1>8 DEF Counted
    <3>3. (t \in s.things /\ t <= s.pos) <=> (t \in p.things /\ t <= p.pos) \/ t \in docs
      BY <1>6, <1>7
    <3>4. t \in docs => ~ (t <= p.pos)
      BY <1>3, <1>6 DEF Position, Things
    <3> HIDE DEF count, p
    <3> QED BY <3>1, <3>2, <3>3, <3>4
  <2> QED BY <2>2, <2>3 DEF Counted
<1>10. docs = {} => Counted(client[c].count, s)
  BY <1>6, <1>7, <1>8 DEF Counted
<1>11. seen' = [seen EXCEPT ![k] = s] /\ seen' \in [Cursors -> Position]
  BY <1>2, <1>4, <1>7 DEF DirInv, s
<1>12. seen'[k] = s /\ \A j \in Cursors : j # k => seen'[j] = seen[j]
  BY <1>2, <1>11 DEF DirInv
<1> HIDE DEF count
<1>13. ClientOK(r, seen', opened) /\ r.cursor = k
  <2>1. r \in ClientStates /\ r.cursor = k /\ r.key = client[c].key /\ r.count = count
    BY <1>2, <1>8, <1>9 DEF ClientStates
  <2> QED BY <1>2, <1>8, <1>9, <1>12, <2>1 DEF ClientOK
<1>14. docs = {} => ClientOK(e, seen', opened) /\ e.cursor = k
  <2>1. e \in ClientStates /\ e.cursor = k /\ e.key = None /\ e.count = client[c].count
    BY <1>2, <1>8 DEF ClientStates
  <2> QED BY <1>2, <1>8, <1>10, <1>12, <2>1 DEF ClientOK
<1>15. ClientOK(NewClient, seen', opened) /\ NewClient.cursor = None
  BY NewClientOK
<1>16. docs = {} /\ client' = [client EXCEPT ![c].key = None, ![c].state = "end"]
          => client' = [client EXCEPT ![c] = e]
  BY <1>2 DEF DirInv
<1> HIDE DEF r, e
<1>17. PICK q : /\ client' = [client EXCEPT ![c] = q] /\ ClientOK(q, seen', opened)
                /\ q.cursor \in {None, k}
  BY <1>5, <1>13, <1>14, <1>15, <1>16
<1>18. \A d \in Clients : client'[d] = IF d = c THEN q ELSE client[d]
  BY <1>2, <1>17 DEF DirInv
<1>19. ASSUME NEW d \in Clients PROVE ClientOK(client'[d], seen', opened')
  <2>1. CASE d = c
    BY <1>1, <1>17, <1>18, <2>1
  <2>2. CASE d # c
    <3>1. ClientOK(client[d], seen, opened) /\ client'[d] = client[d] /\ client[d] \in ClientStates
      BY <1>18, <2>2 DEF DirInv
    <3>2. client[d].cursor # None => client[d].cursor \in Cursors /\ client[d].cursor # k
      BY <1>2, <2>2, <3>1 DEF DirInv, ClientStates
    <3> QED BY <1>1, <1>12, <3>1, <3>2 DEF ClientOK
  <2> QED BY <2>1, <2>2
<1>20. client' \in [Clients -> ClientStates]
  BY <1>17 DEF DirInv, ClientOK
<1>21. \A d, f \in Clients : client'[d].cursor # None /\ client'[d].cursor = client'[f].cursor => d = f
  <2>1. \A d \in Clients : client'[d].cursor \in {None, client[d].cursor}
    BY <1>2, <1>17, <1>18
  <2> QED BY <2>1 DEF DirInv
<1>22. IInv'
  BY <1>1 DEF DirInv, IInv, Cached
<1> QED BY <1>1, <1>11, <1>19, <1>20, <1>21, <1>22 DEF DirInv

\* A request for a cursor that is gone, and the release that releases nothing.
LEMMA LosesStep ==
    ASSUME DirInv, NEW c \in Clients,
           ReleaseCursor(c) \/ \E m \in {"First", "Next", "NextN"} : UseCursorFails(c, m)
    PROVE  DirInv'
<1>1. /\ UNCHANGED <<cursorsByKey, cursorCounter, opened, tx, held, tds, seen, write, call>>
      /\ req' = None
      /\ \/ client' = [client EXCEPT ![c] = NewClient]
         \/ client' = [client EXCEPT ![c] = [NewClient EXCEPT !.state = "released"]]
  BY DEF ReleaseCursor, UseCursorFails, vars, RpcFree, Free
<1>2. PICK r : client' = [client EXCEPT ![c] = r] /\ ClientOK(r, seen, opened) /\ r.cursor = None
  BY <1>1, NewClientOK
<1>3. IInv'
  BY <1>1 DEF DirInv, IInv, Cached
<1> QED BY <1>1, <1>2, <1>3, ClientStep DEF DirInv

\* The check of a cursor that was released tells the client that it is at the end.
LEMMA CheckStep == ASSUME DirInv, CheckCursor PROVE DirInv'
<1> DEFINE c == call.client
           r == [client[c] EXCEPT !.state = "end"]
<1>1. /\ UNCHANGED <<cursorsByKey, cursorCounter, opened, tx, held, tds, seen, write>>
      /\ req # None /\ (req' = [req EXCEPT !.checked = TRUE] \/ req' = None)
  BY DEF CheckCursor, Check
<1>2. IInv'
  BY <1>1 DEF DirInv, IInv, Cached
<1>3. c \in Clients /\ client[c] \in ClientStates
  BY <1>1 DEF DirInv
<1>4. CASE req' # None
  <2>1. UNCHANGED <<client, call>>
    BY <1>4 DEF CheckCursor
  <2>2. req'.cursor = req.cursor /\ req' \in Request
    BY <1>1, <1>4 DEF DirInv, Request
  <2> QED BY <1>1, <1>2, <2>1, <2>2 DEF DirInv
<1>5. CASE req' = None
  <2>1. client' = [client EXCEPT ![c].state = "end"] /\ call' = None
    BY <1>5 DEF CheckCursor
  <2>2. client' = [client EXCEPT ![c] = r]
    BY <1>3, <2>1 DEF DirInv
  <2>3. r \in ClientStates /\ r.key = client[c].key /\ r.cursor = client[c].cursor
        /\ r.count = client[c].count
    BY <1>3 DEF ClientStates
  <2>4. ClientOK(r, seen, opened)
    BY <1>3, <2>3 DEF DirInv, ClientOK
  <2> HIDE DEF r
  <2> QED BY <1>1, <1>2, <1>3, <1>5, <2>1, <2>2, <2>3, <2>4, ClientStep
<1> QED BY <1>4, <1>5

\* The invariant of the directory is inductive.
THEOREM DirInvariance == DirSpec => []DirInv
<1>1. DirInit => DirInv
  <2> SUFFICES ASSUME DirInit PROVE DirInv
    OBVIOUS
  <2>1. IInv
    BY InitInv DEF DirInit
  <2>2. \A c \in Clients : client[c] = NewClient
    BY DEF DirInit
  <2>3. ClientOK(NewClient, seen, opened) /\ NewClient.cursor = None /\ NewClient \in ClientStates
    BY NewClientOK DEF ClientOK
  <2>4. client \in [Clients -> ClientStates] /\ (\A c \in Clients : ClientOK(client[c], seen, opened))
        /\ \A c \in Clients : client[c].cursor = None
    BY <2>2, <2>3 DEF DirInit
  <2>5. seen \in [Cursors -> Position]
    BY DirectoryAssumption DEF DirInit, Position
  <2> QED BY <2>1, <2>4, <2>5 DEF DirInit, DirInv, Init
<1>2. DirInv /\ [DirNext]_dirVars => DirInv'
  BY BackgroundStep, PlainStep, GetCursorStep, UseCursorStep, MoveStep, LosesStep, CheckStep
     DEF DirNext, ClientNext, RpcNext
<1> QED BY <1>1, <1>2, PTL DEF DirSpec

\* A client that iterates receives each document that was stored when it obtained its
\* cursor once, up to its position, and no other: for any number of documents, clients and
\* cursors, whatever is written, removed, given up or released meanwhile.
THEOREM EachOnceHolds == DirSpec => []EachOnce
<1>1. DirInv => EachOnce
  BY DEF DirInv, ClientOK, Counted, EachOnce
<1> QED BY <1>1, DirInvariance, PTL

\* In the directory too, a transaction is open exactly while its cursor can be found, and a
\* key never stands for another cursor.
THEOREM DirCacheHolds == DirSpec => [](NoLeak /\ KeyMeansCursor)
<1>1. DirInv => NoLeak /\ KeyMeansCursor
  BY InvNoLeak DEF DirInv, IInv, KeyMeansCursor
<1> QED BY <1>1, DirInvariance, PTL

-----------------------------------------------------------------------------
\* Iterating the history of a thing

\* The state of a batch before its first step.
BatchStart == [pos |-> cursor.pos, list |-> <<>>, more |-> TRUE]

\* The states of a batch after each of its first n steps.
IsRun(f, dir, n) == f = [i \in 0..n |-> IF i = 0 THEN BatchStart ELSE Further(dir, f[i - 1])]

\* The batch of any number of steps exists.
LEMMA RunExists == ASSUME NEW dir, NEW n \in Nat PROVE \E f : IsRun(f, dir, n)
<1> DEFINE Bad == {k \in Nat : ~ \E f : IsRun(f, dir, k)}
<1>1. SUFFICES ASSUME Bad # {} PROVE FALSE
  OBVIOUS
<1>2. Bad \subseteq Nat
  OBVIOUS
<1>3. PICK k \in Bad : \A y \in Bad : k <= y
  BY <1>1, <1>2, LeastNat
<1>4. k \in Nat /\ \A j \in Nat : j < k => \E f : IsRun(f, dir, j)
  BY <1>3
<1>5. CASE k = 0
  <2> DEFINE g == [i \in 0..0 |-> BatchStart]
  <2>1. IsRun(g, dir, 0)
    BY DEF IsRun
  <2> QED BY <1>3, <1>5, <2>1
<1>6. CASE k # 0
  <2>1. k - 1 \in Nat /\ k - 1 < k
    BY <1>4, <1>6
  <2>2. PICK f : IsRun(f, dir, k - 1)
    BY <1>4, <2>1
  <2> DEFINE g == [i \in 0..k |-> IF i = k THEN Further(dir, f[k - 1]) ELSE f[i]]
             h == [i \in 0..k |-> IF i = 0 THEN BatchStart ELSE Further(dir, g[i - 1])]
  <2>3. \A i \in 0..(k - 1) : f[i] = IF i = 0 THEN BatchStart ELSE Further(dir, f[i - 1])
    BY <2>1, <2>2 DEF IsRun
  <2>4. \A i \in 0..(k - 1) : g[i] = f[i]
    BY <1>4, <2>1
  <2>5. ASSUME NEW i \in 0..k PROVE g[i] = h[i]
    <3>1. CASE i = k
      BY <1>4, <1>6, <2>1, <2>4, <3>1
    <3>2. CASE i # k
      <4>1. i \in 0..(k - 1) /\ (i # 0 => i - 1 \in 0..(k - 1))
        BY <1>4, <3>2
      <4> QED BY <2>3, <2>4, <3>2, <4>1
    <3> QED BY <3>1, <3>2
  <2>6. g = h
    BY <2>5
  <2>7. IsRun(g, dir, k)
    BY <2>6 DEF IsRun
  <2> QED BY <1>3, <2>7
<1> QED BY <1>5, <1>6

\* What a batch of n steps results in is the last state of a run.
LEMMA StepsRun ==
    ASSUME NEW dir, NEW n \in Nat
    PROVE  \E f : IsRun(f, dir, n) /\ Steps(dir, n) = f[n]
<1>1. \E f : IsRun(f, dir, n)
  BY RunExists
<1> QED BY <1>1 DEF IsRun, Steps, BatchStart

\* A property of the start of a batch that every step keeps holds of its result.
\* (The states of the run that have it are all states.)
LEMMA RunStates ==
    ASSUME NEW f, NEW dir, NEW n \in Nat, IsRun(f, dir, n), NEW Good,
           BatchStart \in Good, \A r \in Good : Further(dir, r) \in Good
    PROVE  f[n] \in Good
<1> DEFINE Bad == {k \in 0..n : f[k] \notin Good}
<1>1. SUFFICES ASSUME Bad # {} PROVE FALSE
  OBVIOUS
<1>2. Bad \subseteq Nat
  OBVIOUS
<1>3. PICK k \in Bad : \A y \in Bad : k <= y
  BY <1>1, <1>2, LeastNat
<1>4. k \in 0..n /\ f[k] \notin Good
  BY <1>3
<1>5. \A j \in 0..n : j < k => f[j] \in Good
  BY <1>3, <1>4
<1>6. f[k] = IF k = 0 THEN BatchStart ELSE Further(dir, f[k - 1])
  BY <1>4 DEF IsRun
<1> HIDE DEF Bad
<1>7. CASE k = 0
  BY <1>4, <1>6, <1>7
<1>8. CASE k # 0
  <2>1. k - 1 \in 0..n /\ k - 1 < k
    BY <1>4, <1>8
  <2>2. f[k - 1] \in Good
    BY <1>5, <2>1
  <2> QED BY <1>4, <1>6, <1>8, <2>2
<1> QED BY <1>7, <1>8

-----------------------------------------------------------------------------
\* The filter f lets entry k of e through.
Lets(k, e, f) == f = NoFilter \/ e[k] = f

\* What a client has received going forward, with the cursor at p: entries in
\* order, all that the filter lets through from the first one to p.
ForwardOK(s, p, e, f) ==
    s # <<>> =>
      /\ p \in 1..Len(e)
      /\ \A i \in 1..Len(s) : s[i] \in 1..p
      /\ \A i, j \in 1..Len(s) : i < j => s[i] < s[j]
      /\ \A k \in s[1]..p : Lets(k, e, f) <=> \E i \in 1..Len(s) : s[i] = k

\* The same going backward.
BackwardOK(s, p, e, f) ==
    s # <<>> =>
      /\ p \in 0..Len(e)
      /\ \A i \in 1..Len(s) : s[i] \in 1..Len(e) /\ s[i] >= p
      /\ \A i, j \in 1..Len(s) : i < j => s[i] > s[j]
      /\ \A k \in 1..Len(e) : k >= p /\ k <= s[1]
            => (Lets(k, e, f) <=> \E i \in 1..Len(s) : s[i] = k)

\* What a client has received in a pass in the direction.
InOrder(dir, s, p, e, f) == IF dir = "forward" THEN ForwardOK(s, p, e, f) ELSE BackwardOK(s, p, e, f)

\* No entry that the filter lets through is left in the direction of the pass.
AtEnd(dir, p, e, f, t) ==
    IF dir = "forward" THEN \A k \in (p + 1)..Len(e) : k <= t => ~ Lets(k, e, f) ELSE p = 0

Directions == {"forward", "backward"}

\* Types, as far as the proofs need them.
CursorTypes ==
    /\ Len(entries) \in Nat /\ now \in Nat
    /\ cursor.pos \in 0..(Len(entries) + 1)
    /\ cursor = [pos |-> cursor.pos, cached |-> cursor.cached]
    /\ pass \in {"none", "forward", "backward"}
    /\ got \in Seq(Nat)

\* What a reply says of the end.
SaysEnd(r) ==
    /\ r.op \in {"single", "NextN", "PrevN"}
    /\ IF r.op = "single" THEN r.entry = 0 ELSE ~ r.more

\* The client has received, in order, what the filter lets through up to the place of
\* the cursor, and when the last reply says that there is no more, nothing up to the
\* present time is left from that place on.
HCInv ==
    /\ CursorTypes
    /\ pass # "none" => InOrder(pass, got, cursor.pos, entries, filter)
    /\ pass # "none" /\ got # <<>> /\ SaysEnd(reply) => AtEnd(pass, cursor.pos, entries, filter, now)
    /\ pass = "none" => got = <<>>

-----------------------------------------------------------------------------
\* The least and the greatest number of a set.
LEMMA MinProperty ==
    ASSUME NEW S, S \subseteq Nat, S # {}
    PROVE  LeastOf(S) \in S /\ \A j \in S : LeastOf(S) <= j
<1>1. \E x \in S : \A y \in S : x <= y
  BY LeastNat
<1> QED BY <1>1 DEF LeastOf

\* The greatest number of a set that has a bound is at the least distance from it.
LEMMA MaxProperty ==
    ASSUME NEW S, NEW n \in Nat, S \subseteq 0..n, S # {}
    PROVE  GreatestOf(S) \in S /\ \A j \in S : GreatestOf(S) >= j
<1> DEFINE D == {n - i : i \in S}
<1>1. D \subseteq Nat /\ D # {}
  <2>1. \A i \in S : n - i \in Nat
    OBVIOUS
  <2> QED BY <2>1
<1> HIDE DEF D
<1>2. PICK x \in D : \A y \in D : x <= y
  BY <1>1, LeastNat
<1>3. PICK m \in S : x = n - m
  BY <1>2 DEF D
<1>4. \A j \in S : n - m <= n - j
  BY <1>2, <1>3 DEF D
<1>5. m \in 0..n /\ \A j \in S : j \in 0..n
  OBVIOUS
<1>6. \A j \in S : m >= j
  BY <1>4, <1>5
<1> QED BY <1>6 DEF GreatestOf

\* A move from p forward: to the next entry that the filter lets through, or to where
\* none up to the present time follows.
MovedForward(p, m, e, f, t) ==
    /\ m.pos \in 0..(Len(e) + 1) /\ m.entry \in Nat
    /\ m.entry # 0 => /\ m.entry = m.pos /\ m.pos \in 1..Len(e) /\ Lets(m.pos, e, f)
                      /\ p \in 1..Len(e) => p < m.pos /\ \A k \in (p + 1)..(m.pos - 1) : ~ Lets(k, e, f)
    /\ m.entry = 0 /\ p \in 1..Len(e) =>
          /\ m.pos \in p..Len(e)
          /\ \A k \in (p + 1)..m.pos : ~ Lets(k, e, f)
          /\ \A k \in (m.pos + 1)..Len(e) : k <= t => ~ Lets(k, e, f)

\* A move from p backward: to the previous entry that the filter lets through, or to
\* before the first.
MovedBackward(p, m, e, f) ==
    /\ m.pos \in 0..Len(e) /\ m.entry \in Nat
    /\ m.entry # 0 => /\ m.entry = m.pos /\ m.pos \in 1..Len(e) /\ Lets(m.pos, e, f)
                      /\ m.pos < p /\ \A k \in 1..Len(e) : m.pos < k /\ k < p => ~ Lets(k, e, f)
    /\ m.entry = 0 => /\ m.pos = 0
                      /\ \A k \in 1..Len(e) : k < p => ~ Lets(k, e, f)

\* The search for the next name.
LEMMA NextName ==
    ASSUME CursorTypes, NEW p \in 1..Len(entries), filter # NoFilter
    PROVE  LET m == findNextName(p)
           IN /\ m.pos \in p..Len(entries) /\ m.entry \in Nat
              /\ m.entry # 0 => /\ m.entry = m.pos /\ m.pos > p /\ Lets(m.pos, entries, filter)
                                /\ \A k \in (p + 1)..(m.pos - 1) : ~ Lets(k, entries, filter)
              /\ m.entry = 0 =>
                    /\ \A k \in (p + 1)..m.pos : ~ Lets(k, entries, filter)
                    /\ \A k \in (m.pos + 1)..Len(entries) : k <= now => ~ Lets(k, entries, filter)
<1> DEFINE n == Len(entries)
           stop == {i \in (p + 1)..n : i > now \/ entries[i] = filter}
           i == LeastOf(stop)
           m == findNextName(p)
<1>1. n \in Nat /\ now \in Nat /\ p \in Nat /\ p <= n
  BY DEF CursorTypes
<1>2. m = IF stop = {} THEN [pos |-> n, entry |-> 0]
          ELSE IF i > now THEN [pos |-> i - 1, entry |-> 0] ELSE [pos |-> i, entry |-> i]
  BY DEF findNextName, NoEntry, At, Nothing, N
<1>3. \A k \in (p + 1)..n : k \notin stop => k <= now /\ ~ Lets(k, entries, filter)
  BY <1>1 DEF Lets
<1>4. CASE stop = {}
  <2>1. m.pos = n /\ m.entry = 0
    BY <1>2, <1>4
  <2> HIDE DEF m, stop, n
  <2> QED BY <1>1, <1>3, <1>4, <2>1 DEF m, n
<1>5. CASE stop # {}
  <2>0. stop \subseteq Nat
    BY <1>1
  <2>1. i \in stop /\ \A j \in stop : i <= j
    BY <1>5, <2>0, MinProperty
  <2>2. i \in (p + 1)..n /\ (i <= now => Lets(i, entries, filter))
    BY <1>1, <2>1 DEF Lets
  <2>3. \A k \in (p + 1)..(i - 1) : k \in (p + 1)..n /\ k \notin stop
    <3> HIDE DEF stop, i, n
    <3> QED BY <1>1, <2>0, <2>1, <2>2
  <2>4. \A k \in (p + 1)..(i - 1) : ~ Lets(k, entries, filter)
    BY <1>3, <2>3
  <2>5. m = IF i > now THEN [pos |-> i - 1, entry |-> 0] ELSE [pos |-> i, entry |-> i]
    BY <1>2, <1>5
  <2> HIDE DEF stop, i, m, n
  <2>6. CASE i > now
    <3>1. m.pos = i - 1 /\ m.entry = 0
      BY <2>5, <2>6
    <3> QED BY <1>1, <2>2, <2>4, <2>6, <3>1 DEF m, n
  <2>7. CASE i <= now
    <3>1. m.pos = i /\ m.entry = i
      BY <1>1, <2>2, <2>5, <2>7
    <3> QED BY <1>1, <2>2, <2>4, <2>7, <3>1 DEF m, n
  <2> QED BY <1>1, <2>2, <2>6, <2>7, SMTT(30)
<1> QED BY <1>4, <1>5

\* The search for the previous name.
LEMMA PrevName ==
    ASSUME CursorTypes, NEW p \in 1..Len(entries), filter # NoFilter
    PROVE  LET m == findPrevName(p)
           IN /\ m.pos \in 0..(p - 1) /\ m.entry = m.pos
              /\ m.pos # 0 => Lets(m.pos, entries, filter)
              /\ \A k \in (m.pos + 1)..(p - 1) : ~ Lets(k, entries, filter)
<1> DEFINE stop == {i \in 1..(p - 1) : entries[i] = filter}
           i == GreatestOf(stop)
           m == findPrevName(p)
<1>1. p \in Nat /\ p >= 1
  BY DEF CursorTypes
<1>2. m = IF stop = {} THEN [pos |-> 0, entry |-> 0] ELSE [pos |-> i, entry |-> i]
  BY DEF findPrevName, NoEntry, At, Nothing
<1>3. \A k \in 1..(p - 1) : k \in stop <=> Lets(k, entries, filter)
  BY DEF Lets
<1>4. CASE stop = {}
  <2>1. m.pos = 0 /\ m.entry = 0
    BY <1>2, <1>4
  <2> HIDE DEF m, stop
  <2> QED BY <1>1, <1>3, <1>4, <2>1 DEF m
<1>5. CASE stop # {}
  <2>1. stop \subseteq 0..p /\ stop \subseteq 1..(p - 1)
    BY <1>1
  <2>2. i \in stop /\ \A j \in stop : i >= j
    BY <1>1, <1>5, <2>1, MaxProperty
  <2>3. m.pos = i /\ m.entry = i
    BY <1>2, <1>5
  <2> HIDE DEF m, stop, i
  <2>4. i \in 1..(p - 1) /\ Lets(i, entries, filter)
    BY <1>3, <2>1, <2>2
  <2>5. \A k \in (i + 1)..(p - 1) : k \in 1..(p - 1) /\ k \notin stop
    BY <1>1, <2>1, <2>2, <2>4
  <2> QED BY <1>1, <1>3, <2>3, <2>4, <2>5 DEF m
<1> QED BY <1>4, <1>5

\* The store's cursor and the filter, from entry or position q on.
LEMMA ForwardFrom ==
    ASSUME CursorTypes, NEW q \in 1..Len(entries)
    PROVE  LET m == Forward(At(q))
           IN /\ m.pos \in q..Len(entries) /\ m.entry \in Nat
              /\ m.entry # 0 => /\ m.entry = m.pos /\ Lets(m.pos, entries, filter)
                                /\ \A k \in q..(m.pos - 1) : ~ Lets(k, entries, filter)
              /\ m.entry = 0 =>
                    /\ \A k \in q..m.pos : ~ Lets(k, entries, filter)
                    /\ \A k \in (m.pos + 1)..Len(entries) : k <= now => ~ Lets(k, entries, filter)
<1> DEFINE n == Len(entries)
           m == Forward(At(q))
           o == findNextName(q)
<1>1. n \in Nat /\ q \in Nat /\ q # 0 /\ now \in Nat
  BY DEF CursorTypes
<1>2. m = IF Lets(q, entries, filter) THEN At(q) ELSE o
  BY <1>1 DEF Forward, At, Nothing, Matches, Lets
<1>3. CASE Lets(q, entries, filter)
  <2>1. m.pos = q /\ m.entry = q
    BY <1>2, <1>3 DEF At
  <2> HIDE DEF m, n
  <2> QED BY <1>1, <1>3, <2>1 DEF m, n
<1>4. CASE ~ Lets(q, entries, filter)
  <2>1. filter # NoFilter
    BY <1>4 DEF Lets
  <2>2. /\ o.pos \in q..n /\ o.entry \in Nat
        /\ o.entry # 0 => /\ o.entry = o.pos /\ o.pos > q /\ Lets(o.pos, entries, filter)
                          /\ \A k \in (q + 1)..(o.pos - 1) : ~ Lets(k, entries, filter)
        /\ o.entry = 0 =>
              /\ \A k \in (q + 1)..o.pos : ~ Lets(k, entries, filter)
              /\ \A k \in (o.pos + 1)..n : k <= now => ~ Lets(k, entries, filter)
    BY <2>1, NextName
  <2>3. m = o
    BY <1>2, <1>4
  <2> HIDE DEF m, o, n
  <2>4. \A k : (k \in q..(o.pos - 1) => k = q \/ k \in (q + 1)..(o.pos - 1))
               /\ (k \in q..o.pos => k = q \/ k \in (q + 1)..o.pos)
    BY <1>1, <2>2
  <2> QED BY <1>4, <2>2, <2>3, <2>4 DEF m, n
<1> QED BY <1>3, <1>4

\* The filter, going backward from entry q.
LEMMA BackwardFrom ==
    ASSUME CursorTypes, NEW q \in 1..Len(entries)
    PROVE  LET m == Backward(At(q))
           IN /\ m.pos \in 0..q /\ m.entry = m.pos
              /\ m.pos # 0 => Lets(m.pos, entries, filter)
              /\ \A k \in (m.pos + 1)..q : ~ Lets(k, entries, filter)
<1> DEFINE m == Backward(At(q))
           o == findPrevName(q)
<1>1. q \in Nat /\ q # 0
  BY DEF CursorTypes
<1>2. m = IF Lets(q, entries, filter) THEN At(q) ELSE o
  BY <1>1 DEF Backward, At, Nothing, Matches, Lets
<1>3. CASE Lets(q, entries, filter)
  <2>1. m.pos = q /\ m.entry = q
    BY <1>2, <1>3 DEF At
  <2> HIDE DEF m
  <2> QED BY <1>1, <1>3, <2>1 DEF m
<1>4. CASE ~ Lets(q, entries, filter)
  <2>1. filter # NoFilter
    BY <1>4 DEF Lets
  <2>2. /\ o.pos \in 0..(q - 1) /\ o.entry = o.pos
        /\ o.pos # 0 => Lets(o.pos, entries, filter)
        /\ \A k \in (o.pos + 1)..(q - 1) : ~ Lets(k, entries, filter)
    BY <2>1, PrevName
  <2>3. m = o
    BY <1>2, <1>4
  <2> HIDE DEF m, o
  <2>4. \A k : k \in (o.pos + 1)..q => k = q \/ k \in (o.pos + 1)..(q - 1)
    BY <1>1, <2>2
  <2> QED BY <1>1, <1>4, <2>2, <2>3, <2>4 DEF m
<1> QED BY <1>3, <1>4

\* The moves of a step or a batch.
LEMMA MoveForward ==
    ASSUME CursorTypes, NEW p \in 0..(Len(entries) + 1)
    PROVE  MovedForward(p, Moved("forward", p), entries, filter, now)
<1> DEFINE n == Len(entries)
           m == Moved("forward", p)
<1>1. n \in Nat /\ now \in Nat /\ p \in Nat
  BY DEF CursorTypes
<1>2. m = Forward(BoltNext(p))
  BY DEF Moved
<1>3. CASE p \in 1..(n - 1)
  <2>1. m = Forward(At(p + 1)) /\ p + 1 \in 1..n
    BY <1>1, <1>2, <1>3 DEF BoltNext, N
  <2>2. /\ m.pos \in (p + 1)..n /\ m.entry \in Nat
        /\ m.entry # 0 => /\ m.entry = m.pos /\ Lets(m.pos, entries, filter)
                          /\ \A k \in (p + 1)..(m.pos - 1) : ~ Lets(k, entries, filter)
        /\ m.entry = 0 =>
              /\ \A k \in (p + 1)..m.pos : ~ Lets(k, entries, filter)
              /\ \A k \in (m.pos + 1)..n : k <= now => ~ Lets(k, entries, filter)
    BY <2>1, ForwardFrom
  <2> HIDE DEF m, n
  <2> QED BY <1>1, <1>3, <2>2 DEF m, n, MovedForward
<1>4. CASE p \notin 1..(n - 1)
  <2>1. m.pos = p /\ m.entry = 0
    BY <1>2, <1>4 DEF BoltNext, N, NoEntry, Nothing, Forward
  <2> HIDE DEF m
  <2> QED BY <1>1, <1>4, <2>1 DEF m, MovedForward
<1> QED BY <1>3, <1>4

\* Prev moves to the previous entry that the filter lets through.
LEMMA MoveBackward ==
    ASSUME CursorTypes, NEW p \in 0..(Len(entries) + 1)
    PROVE  MovedBackward(p, Moved("backward", p), entries, filter)
<1> DEFINE n == Len(entries)
           m == Moved("backward", p)
<1>1. n \in Nat /\ p \in Nat
  BY DEF CursorTypes
<1>2. m = Backward(BoltPrev(p))
  BY DEF Moved
<1>3. CASE p \in 2..(n + 1)
  <2>1. m = Backward(At(p - 1)) /\ p - 1 \in 1..n
    BY <1>1, <1>2, <1>3 DEF BoltPrev, N
  <2>2. /\ m.pos \in 0..(p - 1) /\ m.entry = m.pos
        /\ m.pos # 0 => Lets(m.pos, entries, filter)
        /\ \A k \in (m.pos + 1)..(p - 1) : ~ Lets(k, entries, filter)
    BY <2>1, BackwardFrom
  <2> HIDE DEF m, n
  <2> QED BY <1>1, <1>3, <2>2 DEF m, n, MovedBackward
<1>4. CASE p \notin 2..(n + 1)
  <2>1. m.pos = 0 /\ m.entry = 0
    BY <1>2, <1>4 DEF BoltPrev, N, NoEntry, Nothing, Backward
  <2> HIDE DEF m
  <2> QED BY <1>1, <1>4, <2>1 DEF m, MovedBackward
<1> QED BY <1>3, <1>4

\* A list with one more entry.
LEMMA OneMore ==
    ASSUME NEW s \in Seq(Nat), NEW x \in Nat
    PROVE  LET u == s \o <<x>>
           IN /\ u \in Seq(Nat) /\ u # <<>> /\ Len(u) = Len(s) + 1 /\ u[Len(s) + 1] = x
              /\ \A i \in 1..Len(s) : u[i] = s[i]
OBVIOUS

\* A list whose numbers increase with a larger one.
LEMMA ForwardMore ==
    ASSUME NEW s \in Seq(Nat), NEW p, NEW m, NEW e, NEW f, NEW t, Len(e) \in Nat,
           ForwardOK(s, p, e, f), MovedForward(p, m, e, f, t)
    PROVE  LET u == s \o Items(m)
           IN /\ u \in Seq(Nat) /\ ForwardOK(u, m.pos, e, f)
              /\ m.entry = 0 /\ u # <<>> => AtEnd("forward", m.pos, e, f, t)
<1> DEFINE u == s \o Items(m)
           L == Len(s)
<1>0. L \in Nat /\ (s # <<>> => L >= 1)
  OBVIOUS
<1>1. CASE m.entry = 0
  <2>1. u = s
    BY <1>1 DEF Items, Nothing
  <2>2. CASE s = <<>>
    BY <2>1, <2>2 DEF ForwardOK
  <2>3. CASE s # <<>>
    <3>1. /\ p \in 1..Len(e)
          /\ \A i \in 1..L : s[i] \in 1..p
          /\ \A i, j \in 1..L : i < j => s[i] < s[j]
          /\ \A k \in s[1]..p : Lets(k, e, f) <=> \E i \in 1..L : s[i] = k
      BY <2>3 DEF ForwardOK
    <3>2. /\ m.pos \in p..Len(e)
          /\ \A k \in (p + 1)..m.pos : ~ Lets(k, e, f)
          /\ \A k \in (m.pos + 1)..Len(e) : k <= t => ~ Lets(k, e, f)
      BY <1>1, <3>1 DEF MovedForward
    <3> HIDE DEF L
    <3>3. m.pos \in 1..Len(e) /\ \A i \in 1..L : s[i] \in 1..m.pos
      BY <3>1, <3>2
    <3>4. ASSUME NEW k \in s[1]..m.pos PROVE Lets(k, e, f) <=> \E i \in 1..L : s[i] = k
      <4>1. s[1] \in 1..p
        BY <1>0, <2>3, <3>1
      <4>2. CASE k <= p
        BY <3>1, <3>2, <4>1, <4>2
      <4>3. CASE k > p
        BY <3>1, <3>2, <4>1, <4>3
      <4> QED BY <3>1, <3>2, <4>1, <4>2, <4>3
    <3>5. ForwardOK(s, m.pos, e, f)
      BY <3>1, <3>3, <3>4 DEF ForwardOK, L
    <3> QED BY <2>1, <3>2, <3>5 DEF AtEnd
  <2> QED BY <2>2, <2>3
<1>2. CASE m.entry # 0
  <2> DEFINE x == m.pos
  <2>1. m.entry = x /\ x \in 1..Len(e) /\ x \in Nat /\ Lets(x, e, f)
    BY <1>2 DEF MovedForward
  <2>2. u = s \o <<x>>
    BY <1>2, <2>1 DEF Items, Nothing
  <2> HIDE DEF x, u
  <2>3. /\ u \in Seq(Nat) /\ u # <<>> /\ Len(u) = L + 1 /\ u[L + 1] = x
        /\ \A i \in 1..L : u[i] = s[i]
    BY <2>1, <2>2, OneMore
  <2>4. ForwardOK(u, x, e, f)
    <3>1. CASE s = <<>>
      <4>1. L = 0
        BY <3>1
      <4> HIDE DEF L
      <4>2. Len(u) = 1 /\ u[1] = x
        BY <2>3, <4>1
      <4> QED BY <2>1, <4>2 DEF ForwardOK
    <3>2. CASE s # <<>>
      <4>1. /\ p \in 1..Len(e)
            /\ \A i \in 1..L : s[i] \in 1..p
            /\ \A i, j \in 1..L : i < j => s[i] < s[j]
            /\ \A k \in s[1]..p : Lets(k, e, f) <=> \E i \in 1..L : s[i] = k
        BY <3>2 DEF ForwardOK
      <4>2. p < x /\ \A k \in (p + 1)..(x - 1) : ~ Lets(k, e, f)
        BY <1>2, <4>1 DEF MovedForward, x
      <4> HIDE DEF L
      <4>3. \A i \in 1..(L + 1) : u[i] = IF i = L + 1 THEN x ELSE s[i]
        BY <1>0, <2>3
      <4>4. \A i \in 1..(L + 1) : u[i] \in 1..x
        BY <1>0, <2>1, <4>1, <4>2, <4>3
      <4>5. \A i, j \in 1..(L + 1) : i < j => u[i] < u[j]
        BY <1>0, <2>1, <4>1, <4>2, <4>3, SMTT(30)
      <4>6. ASSUME NEW k \in u[1]..x PROVE Lets(k, e, f) <=> \E i \in 1..(L + 1) : u[i] = k
        <5>1. u[1] = s[1] /\ s[1] \in 1..p
          BY <1>0, <3>2, <4>1, <4>3
        <5>2. k \in Int
          BY <2>1, <4>1, <5>1
        <5>3. CASE k = x
          BY <1>0, <2>1, <2>3, <5>3
        <5>4. CASE k <= p
          <6>1. Lets(k, e, f) <=> \E i \in 1..L : s[i] = k
            BY <4>1, <5>1, <5>2, <5>4
          <6>2. k # x
            BY <2>1, <4>1, <4>2, <5>4
          <6>3. (\E i \in 1..(L + 1) : u[i] = k) <=> \E i \in 1..L : s[i] = k
            BY <1>0, <4>3, <6>2
          <6> QED BY <6>1, <6>3
        <5>5. CASE p < k /\ k # x
          <6>1. ~ Lets(k, e, f)
            BY <2>1, <4>1, <4>2, <5>2, <5>5
          <6>2. \A i \in 1..(L + 1) : u[i] # k
            BY <1>0, <4>1, <4>3, <5>2, <5>5
          <6> QED BY <6>1, <6>2
        <5> QED BY <4>1, <5>2, <5>3, <5>4, <5>5
      <4> QED BY <2>1, <2>3, <4>4, <4>5, <4>6 DEF ForwardOK
    <3> QED BY <3>1, <3>2
  <2> QED BY <1>2, <2>3, <2>4 DEF x, u
<1> QED BY <1>1, <1>2

\* A list whose numbers decrease with a smaller one.
LEMMA BackwardMore ==
    ASSUME NEW s \in Seq(Nat), NEW p \in Nat, NEW m, NEW e, NEW f, NEW t, Len(e) \in Nat,
           BackwardOK(s, p, e, f), MovedBackward(p, m, e, f)
    PROVE  LET u == s \o Items(m)
           IN /\ u \in Seq(Nat) /\ BackwardOK(u, m.pos, e, f)
              /\ m.entry = 0 => AtEnd("backward", m.pos, e, f, t)
<1> DEFINE u == s \o Items(m)
           L == Len(s)
<1>0. L \in Nat /\ (s # <<>> => L >= 1)
  OBVIOUS
<1>1. CASE m.entry = 0
  <2>1. u = s
    BY <1>1 DEF Items, Nothing
  <2>2. m.pos = 0 /\ \A k \in 1..Len(e) : k < p => ~ Lets(k, e, f)
    BY <1>1 DEF MovedBackward
  <2>3. CASE s = <<>>
    BY <2>1, <2>2, <2>3 DEF BackwardOK, AtEnd
  <2>4. CASE s # <<>>
    <3>1. /\ \A i \in 1..L : s[i] \in 1..Len(e) /\ s[i] >= p
          /\ \A i, j \in 1..L : i < j => s[i] > s[j]
          /\ \A k \in 1..Len(e) : k >= p /\ k <= s[1] => (Lets(k, e, f) <=> \E i \in 1..L : s[i] = k)
      BY <2>4 DEF BackwardOK
    <3> HIDE DEF L
    <3>2. ASSUME NEW k \in 1..Len(e), k <= s[1] PROVE Lets(k, e, f) <=> \E i \in 1..L : s[i] = k
      <4>1. CASE k >= p
        BY <3>1, <3>2, <4>1
      <4>2. CASE k < p
        <5>1. ~ Lets(k, e, f)
          BY <2>2, <4>2
        <5>2. \A i \in 1..L : s[i] # k
          BY <3>1, <4>2
        <5> QED BY <5>1, <5>2
      <4> QED BY <4>1, <4>2
    <3>3. \A i \in 1..L : s[i] \in 1..Len(e) /\ s[i] >= 0
      BY <3>1
    <3>4. BackwardOK(s, 0, e, f)
      BY <3>1, <3>2, <3>3 DEF BackwardOK, L
    <3> QED BY <2>1, <2>2, <3>4 DEF AtEnd
  <2> QED BY <2>3, <2>4
<1>2. CASE m.entry # 0
  <2> DEFINE x == m.pos
  <2>1. /\ m.entry = x /\ x \in 1..Len(e) /\ x \in Nat /\ Lets(x, e, f)
        /\ x < p /\ \A k \in 1..Len(e) : x < k /\ k < p => ~ Lets(k, e, f)
    BY <1>2 DEF MovedBackward
  <2>2. u = s \o <<x>>
    BY <1>2, <2>1 DEF Items, Nothing
  <2> HIDE DEF x, u
  <2>3. /\ u \in Seq(Nat) /\ u # <<>> /\ Len(u) = L + 1 /\ u[L + 1] = x
        /\ \A i \in 1..L : u[i] = s[i]
    BY <2>1, <2>2, OneMore
  <2>4. BackwardOK(u, x, e, f)
    <3>1. CASE s = <<>>
      <4>1. L = 0
        BY <3>1
      <4> HIDE DEF L
      <4>2. Len(u) = 1 /\ u[1] = x
        BY <2>3, <4>1
      <4> QED BY <2>1, <4>2 DEF BackwardOK
    <3>2. CASE s # <<>>
      <4>1. /\ \A i \in 1..L : s[i] \in 1..Len(e) /\ s[i] >= p
            /\ \A i, j \in 1..L : i < j => s[i] > s[j]
            /\ \A k \in 1..Len(e) : k >= p /\ k <= s[1] => (Lets(k, e, f) <=> \E i \in 1..L : s[i] = k)
        BY <3>2 DEF BackwardOK
      <4> HIDE DEF L
      <4>3. \A i \in 1..(L + 1) : u[i] = IF i = L + 1 THEN x ELSE s[i]
        BY <1>0, <2>3
      <4>4. \A i \in 1..(L + 1) : u[i] \in 1..Len(e) /\ u[i] >= x
        BY <1>0, <2>1, <4>1, <4>3
      <4>5. \A i, j \in 1..(L + 1) : i < j => u[i] > u[j]
        BY <1>0, <2>1, <4>1, <4>3
      <4>6. ASSUME NEW k \in 1..Len(e), k >= x, k <= u[1]
            PROVE  Lets(k, e, f) <=> \E i \in 1..(L + 1) : u[i] = k
        <5>1. u[1] = s[1]
          BY <1>0, <3>2, <4>3
        <5>3. CASE k = x
          BY <1>0, <2>1, <2>3, <5>3
        <5>4. CASE k >= p
          <6>1. Lets(k, e, f) <=> \E i \in 1..L : s[i] = k
            BY <4>1, <4>6, <5>1, <5>4
          <6>2. k # x
            BY <2>1, <5>4
          <6>3. (\E i \in 1..(L + 1) : u[i] = k) <=> \E i \in 1..L : s[i] = k
            BY <1>0, <4>3, <6>2
          <6> QED BY <6>1, <6>3
        <5>5. CASE k < p /\ k # x
          <6>1. ~ Lets(k, e, f)
            BY <2>1, <4>6, <5>5
          <6>2. \A i \in 1..(L + 1) : u[i] # k
            BY <1>0, <4>1, <4>3, <5>5
          <6> QED BY <6>1, <6>2
        <5> QED BY <5>3, <5>4, <5>5
      <4> QED BY <2>1, <2>3, <4>4, <4>5, <4>6 DEF BackwardOK
    <3> QED BY <3>1, <3>2
  <2> QED BY <1>2, <2>3, <2>4 DEF x, u
<1> QED BY <1>1, <1>2

\* A move in the direction of the pass keeps what the client has received in order.
LEMMA MoveMore ==
    ASSUME CursorTypes, NEW dir \in Directions, NEW p \in 0..(Len(entries) + 1), NEW s \in Seq(Nat),
           InOrder(dir, s, p, entries, filter)
    PROVE  LET m == Moved(dir, p)
               u == s \o Items(m)
           IN /\ m.pos \in 0..(Len(entries) + 1) /\ m.entry \in Nat
              /\ u \in Seq(Nat) /\ InOrder(dir, u, m.pos, entries, filter)
              /\ m.entry = 0 /\ u # <<>> => AtEnd(dir, m.pos, entries, filter, now)
<1> DEFINE m == Moved(dir, p)
           u == s \o Items(m)
           n == Len(entries)
<1>1. n \in Nat /\ p \in Nat
  BY DEF CursorTypes
<1>2. CASE dir = "forward"
  <2>1. MovedForward(p, m, entries, filter, now)
    BY <1>2, MoveForward
  <2>2. ForwardOK(s, p, entries, filter)
    BY <1>2 DEF InOrder
  <2> HIDE DEF m
  <2>3. /\ u \in Seq(Nat) /\ ForwardOK(u, m.pos, entries, filter)
        /\ m.entry = 0 /\ u # <<>> => AtEnd("forward", m.pos, entries, filter, now)
    BY <1>1, <2>1, <2>2, ForwardMore
  <2>4. m.pos \in 0..(n + 1) /\ m.entry \in Nat
    BY <2>1 DEF MovedForward
  <2> QED BY <1>2, <2>3, <2>4 DEF InOrder, m
<1>3. CASE dir = "backward"
  <2>1. MovedBackward(p, m, entries, filter)
    BY <1>3, MoveBackward
  <2>2. BackwardOK(s, p, entries, filter)
    BY <1>3 DEF InOrder
  <2> HIDE DEF m
  <2>3. /\ u \in Seq(Nat) /\ BackwardOK(u, m.pos, entries, filter)
        /\ m.entry = 0 => AtEnd("backward", m.pos, entries, filter, now)
    BY <1>1, <2>1, <2>2, BackwardMore
  <2>4. m.pos \in 0..(n + 1) /\ m.entry \in Nat
    BY <1>1, <2>1 DEF MovedBackward
  <2> QED BY <1>3, <2>3, <2>4 DEF InOrder, m
<1> QED BY <1>2, <1>3 DEF Directions

\* The states of a batch that goes on from the list s.
InBatch(s, dir, e, f, t) ==
    {r \in [pos : 0..(Len(e) + 1), list : Seq(Nat), more : BOOLEAN] :
        /\ InOrder(dir, s \o r.list, r.pos, e, f)
        /\ ~ r.more /\ s \o r.list # <<>> => AtEnd(dir, r.pos, e, f, t)}

\* Concatenation is associative.
LEMMA Associative ==
    ASSUME NEW a \in Seq(Nat), NEW b \in Seq(Nat), NEW c \in Seq(Nat)
    PROVE  (a \o b) \o c = a \o (b \o c) /\ a \o b \in Seq(Nat)
OBVIOUS

\* A batch is a sequence of moves.
LEMMA BatchStep ==
    ASSUME CursorTypes, NEW dir \in Directions, NEW s \in Seq(Nat),
           NEW r \in InBatch(s, dir, entries, filter, now)
    PROVE  Further(dir, r) \in InBatch(s, dir, entries, filter, now)
<1>1. /\ r \in [pos : 0..(Len(entries) + 1), list : Seq(Nat), more : BOOLEAN]
      /\ InOrder(dir, s \o r.list, r.pos, entries, filter)
  BY DEF InBatch
<1>2. CASE ~ r.more
  BY <1>2 DEF Further
<1>3. CASE r.more
  <2> DEFINE m == Moved(dir, r.pos)
             x == Items(m)
             q == Further(dir, r)
  <2>1. q = [pos |-> m.pos, list |-> r.list \o x, more |-> m.entry # 0]
    BY <1>3 DEF Further, Nothing
  <2>2. s \o r.list \in Seq(Nat)
    BY <1>1, Associative
  <2>3. /\ m.pos \in 0..(Len(entries) + 1) /\ m.entry \in Nat
        /\ InOrder(dir, (s \o r.list) \o x, m.pos, entries, filter)
        /\ m.entry = 0 /\ (s \o r.list) \o x # <<>> => AtEnd(dir, m.pos, entries, filter, now)
    BY <1>1, <2>2, MoveMore
  <2>4. x \in Seq(Nat)
    BY <2>3 DEF Items
  <2> HIDE DEF x, m, q
  <2>5. (s \o r.list) \o x = s \o (r.list \o x) /\ r.list \o x \in Seq(Nat)
    BY <1>1, <2>4, Associative
  <2>6. q \in [pos : 0..(Len(entries) + 1), list : Seq(Nat), more : BOOLEAN]
    BY <2>1, <2>3, <2>5
  <2>7. q.pos = m.pos /\ q.list = r.list \o x /\ q.more = (m.entry # 0)
    BY <2>1
  <2> QED BY <2>3, <2>5, <2>6, <2>7 DEF InBatch, q
<1> QED BY <1>1, <1>2, <1>3

\* A batch continues the pass that it is part of.
LEMMA BatchMore ==
    ASSUME CursorTypes, NEW dir \in Directions, NEW s \in Seq(Nat),
           InOrder(dir, s, cursor.pos, entries, filter)
    PROVE  Steps(dir, BatchLimit) \in InBatch(s, dir, entries, filter, now)
<1> DEFINE Good == InBatch(s, dir, entries, filter, now)
<1>1. BatchLimit \in Nat
  BY HistoryCursorAssumption DEF CursorTypes
<1>2. PICK f : IsRun(f, dir, BatchLimit) /\ Steps(dir, BatchLimit) = f[BatchLimit]
  BY <1>1, StepsRun
<1>3. BatchStart \in Good
  <2>1. s \o <<>> = s
    OBVIOUS
  <2>2. BatchStart \in [pos : 0..(Len(entries) + 1), list : Seq(Nat), more : BOOLEAN]
    BY DEF BatchStart, CursorTypes
  <2> QED BY <2>1, <2>2 DEF InBatch, BatchStart
<1>4. \A r \in Good : Further(dir, r) \in Good
  BY BatchStep
<1> HIDE DEF Good
<1>5. f[BatchLimit] \in Good
  BY <1>1, <1>2, <1>3, <1>4, RunStates
<1> QED BY <1>2, <1>5 DEF Good

-----------------------------------------------------------------------------
\* A request that moves the cursor to q and gives the client the list u.
LEMMA PassStep ==
    ASSUME HCInv, NEW dir \in Directions, NEW q \in 0..(Len(entries) + 1), NEW u \in Seq(Nat),
           InOrder(dir, u, q, entries, filter),
           SaysEnd(reply') /\ u # <<>> => AtEnd(dir, q, entries, filter, now),
           cursor' = [cursor EXCEPT !.pos = q], got' = u, pass' = dir,
           UNCHANGED <<entries, filter, now>>
    PROVE  HCInv'
<1>1. cursor' = [pos |-> q, cached |-> cursor.cached]
  BY DEF HCInv, CursorTypes
<1>2. pass' \in {"none", "forward", "backward"} /\ pass' # "none"
  BY DEF Directions
<1>3. CursorTypes'
  BY <1>1, <1>2 DEF HCInv, CursorTypes
<1>4. cursor'.pos = q
  BY <1>1
<1> QED BY <1>2, <1>3, <1>4 DEF HCInv

\* The reply of a single move.
LEMMA SingleReply ==
    ASSUME NEW m, reply' = [NoReply EXCEPT !.op = "single", !.entry = m.entry], SaysEnd(reply')
    PROVE  m.entry = 0
BY DEF SaysEnd, NoReply

\* A move that starts a pass forward or backward.
LEMMA StartStep ==
    ASSUME HCInv, NEW dir \in Directions, NEW m, StartPass(dir, m),
           \/ dir = "forward" /\ MovedForward(0, m, entries, filter, now)
           \/ dir = "backward" /\ MovedBackward(Len(entries) + 1, m, entries, filter)
    PROVE  HCInv'
<1> DEFINE u == Items(m)
<1>1. Len(entries) \in Nat /\ Len(entries) + 1 \in Nat
  BY DEF HCInv, CursorTypes
<1>2. m.pos \in 0..(Len(entries) + 1) /\ m.entry \in Nat
  BY <1>1 DEF MovedForward, MovedBackward
<1>3. u \in Seq(Nat) /\ <<>> \o u = u /\ <<>> \in Seq(Nat)
  BY <1>2 DEF Items
<1>4. InOrder(dir, u, m.pos, entries, filter)
      /\ (m.entry = 0 /\ u # <<>> => AtEnd(dir, m.pos, entries, filter, now))
  <2>1. CASE dir = "forward"
    <3>1. MovedForward(0, m, entries, filter, now) /\ ForwardOK(<<>>, 0, entries, filter)
      BY <2>1 DEF ForwardOK
    <3>2. /\ ForwardOK(<<>> \o u, m.pos, entries, filter)
          /\ m.entry = 0 /\ <<>> \o u # <<>> => AtEnd("forward", m.pos, entries, filter, now)
      BY <1>1, <1>3, <3>1, ForwardMore
    <3> QED BY <1>3, <2>1, <3>2 DEF InOrder
  <2>2. CASE dir = "backward"
    <3>1. MovedBackward(Len(entries) + 1, m, entries, filter)
          /\ BackwardOK(<<>>, Len(entries) + 1, entries, filter)
      BY <2>2 DEF BackwardOK
    <3>2. /\ BackwardOK(<<>> \o u, m.pos, entries, filter)
          /\ m.entry = 0 => AtEnd("backward", m.pos, entries, filter, now)
      BY <1>1, <1>3, <3>1, BackwardMore
    <3> QED BY <1>3, <2>2, <3>2 DEF InOrder
  <2> QED BY <2>1, <2>2 DEF Directions
<1>5. /\ cursor' = [cursor EXCEPT !.pos = m.pos] /\ got' = u /\ pass' = dir
      /\ UNCHANGED <<entries, filter, now>>
      /\ SaysEnd(reply') => m.entry = 0
  BY SingleReply DEF StartPass, Single
<1> HIDE DEF u
<1> QED BY <1>2, <1>3, <1>4, <1>5, PassStep

\* First starts a pass at the first entry that the filter lets through.
LEMMA FirstStep == ASSUME HCInv, First PROVE HCInv'
<1> DEFINE m == Forward(BoltFirst)
           n == Len(entries)
<1>1. CursorTypes /\ n \in Nat /\ StartPass("forward", m) /\ "forward" \in Directions
  BY DEF First, HCInv, CursorTypes, Directions
<1>2. MovedForward(0, m, entries, filter, now)
  <2>1. CASE n > 0
    <3>1. m = Forward(At(1)) /\ 1 \in 1..n
      BY <1>1, <2>1 DEF BoltFirst, N
    <3>2. /\ m.pos \in 1..n /\ m.entry \in Nat
          /\ m.entry # 0 => m.entry = m.pos /\ Lets(m.pos, entries, filter)
      BY <1>1, <3>1, ForwardFrom
    <3> HIDE DEF m
    <3> QED BY <1>1, <3>2 DEF MovedForward
  <2>2. CASE ~ (n > 0)
    <3>1. m.pos = 0 /\ m.entry = 0
      BY <2>2 DEF BoltFirst, N, NoEntry, Nothing, Forward
    <3> HIDE DEF m
    <3> QED BY <1>1, <3>1 DEF MovedForward
  <2> QED BY <2>1, <2>2
<1> HIDE DEF m
<1> QED BY <1>1, <1>2, StartStep

\* So does Seek, from the first entry at or after the time.
LEMMA SeekStep == ASSUME HCInv, NEW t \in Times, Seek(t) PROVE HCInv'
<1> DEFINE n == Len(entries)
           found == {i \in 1..n : i >= t}
           i == LeastOf(found)
           m == Forward(BoltSeek(t))
<1>1. CursorTypes /\ n \in Nat /\ StartPass("forward", m) /\ "forward" \in Directions
  BY DEF Seek, HCInv, CursorTypes, Directions
<1>2. MovedForward(0, m, entries, filter, now)
  <2>1. CASE found # {}
    <3>1. found \subseteq Nat
      OBVIOUS
    <3>2. i \in found
      BY <2>1, <3>1, MinProperty
    <3>3. m = Forward(At(i)) /\ i \in 1..n
      BY <2>1, <3>2 DEF BoltSeek, N
    <3> HIDE DEF i
    <3>4. /\ m.pos \in i..n /\ m.entry \in Nat
          /\ m.entry # 0 => m.entry = m.pos /\ Lets(m.pos, entries, filter)
      BY <1>1, <3>3, ForwardFrom
    <3> HIDE DEF m
    <3> QED BY <1>1, <3>3, <3>4 DEF MovedForward
  <2>2. CASE found = {}
    <3>1. m.pos = n + 1 /\ m.entry = 0
      BY <2>2 DEF BoltSeek, N, NoEntry, Nothing, Forward
    <3> HIDE DEF m
    <3> QED BY <1>1, <3>1 DEF MovedForward
  <2> QED BY <2>1, <2>2
<1> HIDE DEF m
<1> QED BY <1>1, <1>2, StartStep

\* Last moves as Prev does from behind the last entry.
LEMMA LastStep == ASSUME HCInv, Last PROVE HCInv'
<1> DEFINE n == Len(entries)
           m == Backward(BoltLast)
<1>1. CursorTypes /\ n \in Nat /\ StartPass("backward", m) /\ "backward" \in Directions
  BY DEF Last, HCInv, CursorTypes, Directions
<1>2. BoltLast = BoltPrev(n + 1)
  <2>1. n > 0 <=> n + 1 \in 2..(n + 1)
    BY <1>1
  <2>2. (n + 1) - 1 = n
    BY <1>1
  <2> QED BY <2>1, <2>2 DEF BoltLast, BoltPrev, N
<1>3. m = Moved("backward", n + 1) /\ n + 1 \in 0..(n + 1)
  BY <1>1, <1>2 DEF Moved
<1>4. MovedBackward(n + 1, m, entries, filter)
  BY <1>1, <1>3, MoveBackward
<1> HIDE DEF m
<1> QED BY <1>1, <1>4, StartStep

\* What the client has of the pass that a request in a direction goes on with.
Before(dir) == IF pass = dir THEN got ELSE <<>>

\* That is in order too, also when the client turns and starts a new pass.
LEMMA BeforeOK ==
    ASSUME HCInv, NEW dir \in Directions
    PROVE  /\ Before(dir) \in Seq(Nat) /\ InOrder(dir, Before(dir), cursor.pos, entries, filter)
           /\ CursorTypes /\ cursor.pos \in 0..(Len(entries) + 1)
<1>1. CASE pass = dir
  BY <1>1 DEF HCInv, CursorTypes, Before, Directions
<1>2. CASE pass # dir
  <2>1. Before(dir) = <<>>
    BY <1>2 DEF Before
  <2>2. InOrder(dir, <<>>, cursor.pos, entries, filter)
    BY DEF InOrder, ForwardOK, BackwardOK
  <2>3. <<>> \in Seq(Nat)
    OBVIOUS
  <2>4. CursorTypes /\ cursor.pos \in 0..(Len(entries) + 1)
    BY DEF HCInv, CursorTypes
  <2> QED BY <2>1, <2>2, <2>3, <2>4, Zenon
<1> QED BY <1>1, <1>2

\* A single step.
LEMMA SingleStep == ASSUME HCInv, NEW dir \in Directions, Step(dir) PROVE HCInv'
<1> DEFINE m == Moved(dir, cursor.pos)
           s == Before(dir)
           u == s \o Items(m)
<1>1. /\ s \in Seq(Nat) /\ InOrder(dir, s, cursor.pos, entries, filter)
      /\ CursorTypes /\ cursor.pos \in 0..(Len(entries) + 1)
  BY BeforeOK
<1>2. /\ cursor' = [cursor EXCEPT !.pos = m.pos] /\ pass' = dir
      /\ got' = IF pass = dir THEN got \o Items(m) ELSE Items(m)
      /\ UNCHANGED <<entries, filter, now>>
      /\ SaysEnd(reply') => m.entry = 0
  BY SingleReply DEF Step, Single
<1> HIDE DEF s
<1>3. /\ m.pos \in 0..(Len(entries) + 1) /\ m.entry \in Nat
      /\ u \in Seq(Nat) /\ InOrder(dir, u, m.pos, entries, filter)
      /\ m.entry = 0 /\ u # <<>> => AtEnd(dir, m.pos, entries, filter, now)
  BY <1>1, MoveMore
<1>4. Items(m) \in Seq(Nat)
  BY <1>3 DEF Items
<1>5 got' = u
  <2>1. <<>> \o Items(m) = Items(m)
    BY <1>4
  <2>2. s = IF pass = dir THEN got ELSE <<>>
    BY DEF Before, s
  <2> QED BY <1>2, <2>1, <2>2
<1> HIDE DEF u, m
<1> QED BY <1>2, <1>3, <1>5, PassStep

\* A batch.
LEMMA BatchPass ==
    ASSUME HCInv, NEW dir \in Directions, NEW op \in {"NextN", "PrevN"}, Batch(op, dir)
    PROVE  HCInv'
<1> DEFINE r == Steps(dir, BatchLimit)
           s == Before(dir)
           u == s \o r.list
<1>1. /\ s \in Seq(Nat) /\ InOrder(dir, s, cursor.pos, entries, filter)
      /\ CursorTypes /\ cursor.pos \in 0..(Len(entries) + 1)
  BY BeforeOK
<1>2. /\ cursor' = [cursor EXCEPT !.pos = r.pos] /\ pass' = dir
      /\ got' = IF pass = dir THEN got \o r.list ELSE r.list
      /\ UNCHANGED <<entries, filter, now>>
      /\ reply' = [NoReply EXCEPT !.op = op, !.count = Len(r.list), !.more = r.more]
  BY DEF Batch
<1> HIDE DEF s
<1>3. r \in InBatch(s, dir, entries, filter, now)
  BY <1>1, BatchMore
<1> HIDE DEF r
<1>4. /\ r.pos \in 0..(Len(entries) + 1) /\ r.list \in Seq(Nat)
      /\ InOrder(dir, u, r.pos, entries, filter)
      /\ ~ r.more /\ u # <<>> => AtEnd(dir, r.pos, entries, filter, now)
  BY <1>3 DEF InBatch
<1>5. u \in Seq(Nat)
  BY <1>1, <1>4, Associative
<1>6 got' = u
  <2>1. <<>> \o r.list = r.list
    BY <1>4
  <2>2. s = IF pass = dir THEN got ELSE <<>>
    BY DEF Before, s
  <2> QED BY <1>2, <2>1, <2>2
<1>7. SaysEnd(reply') => ~ r.more
  BY <1>2 DEF SaysEnd, NoReply
<1> HIDE DEF u
<1> QED BY <1>2, <1>4, <1>5, <1>6, <1>7, PassStep

\* Steps that leave the cursor and what the client has received.
LEMMA OtherStep ==
    ASSUME HCInv,
           DropCursor \/ (\E single \in BOOLEAN : UseReleased(single)) \/ ClockTick \/ Done
    PROVE  HCInv'
<1>1. CASE DropCursor
  <2>1. cursor' = [pos |-> cursor.pos, cached |-> FALSE]
    BY <1>1 DEF DropCursor, HCInv, CursorTypes
  <2>2. ~ SaysEnd(reply')
    BY <1>1 DEF DropCursor, NoReply, SaysEnd
  <2>3. CursorTypes'
    BY <1>1, <2>1 DEF DropCursor, HCInv, CursorTypes
  <2> QED BY <1>1, <2>1, <2>2, <2>3 DEF DropCursor, HCInv
<1>2. CASE \E single \in BOOLEAN : UseReleased(single)
  <2>1. ~ SaysEnd(reply') /\ UNCHANGED <<entries, filter, now, cursor, pass, got>>
    BY <1>2 DEF UseReleased, NoReply, SaysEnd
  <2> QED BY <2>1 DEF HCInv, CursorTypes
<1>3. CASE ClockTick
  <2>1. ~ SaysEnd(reply') /\ UNCHANGED <<entries, filter, cursor, pass, got>>
    BY <1>3 DEF ClockTick, NoReply, SaysEnd
  <2>2. now' \in Nat
    BY <1>3 DEF ClockTick, HCInv, CursorTypes
  <2> QED BY <2>1, <2>2 DEF HCInv, CursorTypes
<1>4. CASE Done
  BY <1>4 DEF Done, iterVars, HCInv, CursorTypes
<1> QED BY <1>1, <1>2, <1>3, <1>4

\* At first nothing has been received.
LEMMA HCInit == ASSUME IterInit PROVE HCInv
<1>1. PICK n \in 0..MaxEntries : entries \in [1..n -> Names]
  BY DEF IterInit
<1>2. n \in Nat /\ Len(entries) = n
  BY <1>1, HistoryCursorAssumption
<1>3. now \in Nat
  BY HistoryCursorAssumption DEF IterInit, Times
<1>4. cursor = [pos |-> 0, cached |-> TRUE] /\ pass = "none" /\ got = <<>>
  BY DEF IterInit
<1>5. CursorTypes
  BY <1>2, <1>3, <1>4 DEF CursorTypes
<1> QED BY <1>4, <1>5 DEF HCInv

\* Every step keeps the invariant.
LEMMA HCNext == ASSUME HCInv, [IterNext]_iterVars PROVE HCInv'
<1>1. CASE Next1
  BY <1>1, SingleStep DEF Next1, Directions
<1>2. CASE Prev1
  BY <1>2, SingleStep DEF Prev1, Directions
<1>3. CASE NextN
  BY <1>3, BatchPass DEF NextN, Directions
<1>4. CASE PrevN
  BY <1>4, BatchPass DEF PrevN, Directions
<1>5. CASE UNCHANGED iterVars
  BY <1>5 DEF iterVars, HCInv, CursorTypes
<1> QED BY <1>1, <1>2, <1>3, <1>4, <1>5, FirstStep, LastStep, SeekStep, OtherStep DEF IterNext

\* The invariant of a cursor of the history.
THEOREM HCInvariance == IterSpec => []HCInv
<1>1. IterInit => HCInv
  BY HCInit
<1>2. HCInv /\ [IterNext]_iterVars => HCInv'
  BY HCNext
<1> QED BY <1>1, <1>2, PTL DEF IterSpec

\* What the client has received, as a set.
LEMMA ElementsOf ==
    ASSUME got \in Seq(Nat), NEW k
    PROVE  k \in Elements <=> \E i \in 1..Len(got) : got[i] = k
<1>1. DOMAIN got = 1..Len(got)
  OBVIOUS
<1> QED BY <1>1, Zenon DEF Elements

\* Whatever the number of entries, their names and the size of a batch: a client that
\* moves on in one direction, by single steps and batches in any mix, receives all the
\* entries that match its filter in order, none twice, also when the step past an
\* entry in the future was undone and it comes back later.
THEOREM MissesNoneHolds == IterSpec => []MissesNone
<1>1. ASSUME HCInv PROVE MissesNone
  <2> DEFINE n == Len(entries)
             L == Len(got)
             from == got[1]
             to == got[L]
  <2>0. n \in Nat /\ L \in Nat /\ got \in Seq(Nat)
    BY <1>1 DEF HCInv, CursorTypes
  <2>1. \A k : Matches(k) <=> Lets(k, entries, filter)
    BY DEF Matches, Lets
  <2>2. \A k : k \in Elements <=> \E i \in 1..L : got[i] = k
    BY <2>0, ElementsOf, Zenon
  <2>3. ASSUME pass = "forward", got # <<>>
        PROVE  /\ \A i \in 1..(L - 1) : got[i] < got[i + 1]
               /\ Elements = MatchesFrom(from, to)
    <3>1. /\ cursor.pos \in 1..n
          /\ \A i \in 1..L : got[i] \in 1..cursor.pos
          /\ \A i, j \in 1..L : i < j => got[i] < got[j]
          /\ \A k \in from..cursor.pos : Lets(k, entries, filter) <=> \E i \in 1..L : got[i] = k
      BY <1>1, <2>3 DEF HCInv, InOrder, ForwardOK
    <3>2. L >= 1
      BY <2>0, <2>3
    <3> HIDE DEF L, n
    <3>3. from \in 1..cursor.pos /\ to \in 1..cursor.pos
      BY <2>0, <3>1, <3>2
    <3>4. \A i \in 1..L : from <= got[i] /\ got[i] <= to
      BY <2>0, <3>1, <3>2
    <3>5. ASSUME NEW k PROVE k \in Elements <=> k \in MatchesFrom(from, to)
      <4>1. ASSUME k \in Elements PROVE k \in MatchesFrom(from, to)
        <5>1. PICK i \in 1..L : got[i] = k
          BY <2>2, <4>1
        <5>2. k \in from..to /\ k >= 1 /\ k <= n /\ k \in from..cursor.pos
          BY <2>0, <3>1, <3>3, <3>4, <5>1
        <5>3. Lets(k, entries, filter)
          BY <3>1, <5>1, <5>2
        <5> QED BY <2>1, <5>2, <5>3 DEF MatchesFrom, N, n
      <4>2. ASSUME k \in MatchesFrom(from, to) PROVE k \in Elements
        <5>1. k \in from..to /\ Lets(k, entries, filter)
          BY <2>1, <4>2 DEF MatchesFrom
        <5>2. k \in from..cursor.pos
          BY <3>1, <3>3, <5>1
        <5> QED BY <2>2, <3>1, <5>1, <5>2
      <4> QED BY <4>1, <4>2
    <3>6. \A i \in 1..(L - 1) : got[i] < got[i + 1]
      BY <2>0, <3>1
    <3>7. Elements = MatchesFrom(from, to)
      BY <3>5
    <3> QED BY <3>6, <3>7
  <2>4. ASSUME pass = "backward", got # <<>>
        PROVE  /\ \A i \in 1..(L - 1) : got[i] > got[i + 1]
               /\ Elements = MatchesFrom(to, from)
    <3>1. /\ cursor.pos \in 0..n
          /\ \A i \in 1..L : got[i] \in 1..n /\ got[i] >= cursor.pos
          /\ \A i, j \in 1..L : i < j => got[i] > got[j]
          /\ \A k \in 1..n : k >= cursor.pos /\ k <= from
                => (Lets(k, entries, filter) <=> \E i \in 1..L : got[i] = k)
      BY <1>1, <2>4 DEF HCInv, InOrder, BackwardOK
    <3>2. L >= 1
      BY <2>0, <2>4
    <3> HIDE DEF L, n
    <3>3. from \in 1..n /\ to \in 1..n /\ to >= cursor.pos
      BY <2>0, <3>1, <3>2
    <3>4. \A i \in 1..L : from >= got[i] /\ got[i] >= to
      BY <2>0, <3>1, <3>2
    <3>5. ASSUME NEW k PROVE k \in Elements <=> k \in MatchesFrom(to, from)
      <4>1. ASSUME k \in Elements PROVE k \in MatchesFrom(to, from)
        <5>1. PICK i \in 1..L : got[i] = k
          BY <2>2, <4>1
        <5>2. k \in to..from /\ k \in 1..n /\ k >= cursor.pos
          BY <2>0, <3>1, <3>3, <3>4, <5>1
        <5>3. Lets(k, entries, filter)
          BY <2>0, <3>1, <3>3, <5>1, <5>2
        <5> QED BY <2>0, <2>1, <5>2, <5>3 DEF MatchesFrom, N, n
      <4>2. ASSUME k \in MatchesFrom(to, from) PROVE k \in Elements
        <5>1. k \in to..from /\ Lets(k, entries, filter)
          BY <2>1, <4>2 DEF MatchesFrom
        <5>2. k \in 1..n /\ k >= cursor.pos /\ k <= from
          BY <2>0, <3>1, <3>3, <5>1
        <5> QED BY <2>2, <3>1, <5>1, <5>2
      <4> QED BY <4>1, <4>2
    <3>6. \A i \in 1..(L - 1) : got[i] > got[i + 1]
      BY <2>0, <3>1
    <3>7. Elements = MatchesFrom(to, from)
      BY <3>5
    <3> QED BY <3>6, <3>7
  <2> QED BY <2>3, <2>4 DEF MissesNone
<1> QED BY <1>1, HCInvariance, PTL

\* A client that is told that there is no next entry has received all up to the present
\* time, and one that is told that there is no previous one all before its start. The
\* reply says so of the place where the move ended, and the invariant of that place.
THEOREM EndMeansAllHolds == IterSpec => []EndMeansAll
<1>1. ASSUME HCInv PROVE EndMeansAll
  <2> DEFINE n == Len(entries)
             L == Len(got)
  <2>0. n \in Nat /\ L \in Nat /\ got \in Seq(Nat) /\ now \in Nat
    BY <1>1 DEF HCInv, CursorTypes
  <2>1. \A k : Matches(k) <=> Lets(k, entries, filter)
    BY DEF Matches, Lets
  <2>2. \A k : k \in Elements <=> \E i \in 1..L : got[i] = k
    BY <2>0, ElementsOf, Zenon
  <2>3. ASSUME SaysEnd(reply), got # <<>>, pass = "forward",
               NEW k \in MatchesFrom(got[1], now)
        PROVE  k \in Elements
    <3>1. /\ cursor.pos \in 1..n
          /\ \A i \in 1..L : got[i] \in 1..cursor.pos
          /\ \A j \in got[1]..cursor.pos : Lets(j, entries, filter) <=> \E i \in 1..L : got[i] = j
      BY <1>1, <2>3 DEF HCInv, InOrder, ForwardOK
    <3>2. \A j \in (cursor.pos + 1)..n : j <= now => ~ Lets(j, entries, filter)
      BY <1>1, <2>3 DEF HCInv, AtEnd
    <3>3. k \in got[1]..now /\ k <= n /\ Lets(k, entries, filter)
      BY <2>1 DEF MatchesFrom, N
    <3>4. got[1] \in 1..cursor.pos
      BY <2>0, <2>3, <3>1
    <3> HIDE DEF L, n
    <3>5. k \in got[1]..cursor.pos
      BY <2>0, <3>1, <3>2, <3>3, <3>4
    <3> QED BY <2>2, <3>1, <3>3, <3>5
  <2>4. ASSUME SaysEnd(reply), got # <<>>, pass = "backward",
               NEW k \in MatchesFrom(1, got[1])
        PROVE  k \in Elements
    <3>1. \A j \in 1..n : j >= cursor.pos /\ j <= got[1]
             => (Lets(j, entries, filter) <=> \E i \in 1..L : got[i] = j)
      BY <1>1, <2>4 DEF HCInv, InOrder, BackwardOK
    <3>2. cursor.pos = 0
      BY <1>1, <2>4 DEF HCInv, AtEnd
    <3>3. k \in 1..got[1] /\ k <= n /\ Lets(k, entries, filter)
      BY <2>1 DEF MatchesFrom, N
    <3>4. got[1] \in Nat
      BY <2>0, <2>4
    <3> QED BY <2>0, <2>2, <3>1, <3>2, <3>3, <3>4
  <2> QED BY <2>3, <2>4 DEF EndMeansAll, SaysEnd, Nothing
<1> QED BY <1>1, HCInvariance, PTL

=============================================================================
