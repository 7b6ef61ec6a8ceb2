------------------------------ MODULE Directory -----------------------------
(***************************************************************************)
(* The directory service and its clients.  TD documents arrive as events,  *)
(* in a goroutine of their own, and by request; clients iterate them with  *)
(* the cursors of the cursor cache, or ask for a list.                     *)
(*                                                                         *)
(* Things are numbered in the order of their keys in the store.  A cursor  *)
(* sees the things that were stored when it was obtained.  Writing may     *)
(* have to grow the store's file: that waits until no cursor is open, and  *)
(* keeps new cursors waiting (see BoltStore).                              *)
(***************************************************************************)
EXTENDS CursorCache

CONSTANTS
    NumThings,  \* number of things
    Limit,      \* number of documents asked for with NextN
    MaxLists,   \* bound on the number of GetTDs requests
    MaxWrites   \* bound on the number of writes

ASSUME DirectoryAssumption ==
    /\ NumThings \in Nat
    /\ Limit \in Nat \ {0}
    /\ MaxLists \in Nat
    /\ MaxWrites \in Nat

VARIABLES
    tds,     \* the things with a stored TD document, None before the first one
    seen,    \* per cursor: the stored things and the position among them, 0 before First
    client,  \* per client: the cursor it iterates and what it has received
    call,    \* the client and method of the request being handled
    write,   \* the document being written or removed
    writes,  \* number of writes so far
    lists    \* what the GetTDs requests have returned

dirVars == <<vars, tds, seen, client, call, write, writes, lists>>

-----------------------------------------------------------------------------
\* State

Things == 1..NumThings

Position == [things: SUBSET Things, pos: 0..NumThings]

\* The number of times that each document was received, and has the end been
\* reported?
Client == [key: Keys \cup {None}, cursor: Cursors \cup {None}, count: [Things -> 0..2],
           state: {"new", "iterating", "end", "released"}]

Methods == {"First", "Next", "NextN", "GetCursor", "GetTDs"}

Write == [by: {"event", "rpc"}, thing: Things, add: BOOLEAN, growing: BOOLEAN]

\* The type invariant.
DirTypeOK ==
    /\ TypeOK
    /\ tds \in SUBSET Things \cup {None}
    /\ seen \in [Cursors -> Position]
    /\ client \in [Clients -> Client]
    /\ call \in [client: Clients, method: Methods] \cup {None}
    /\ write \in Write \cup {None}
    /\ writes \in 0..MaxWrites
    /\ lists \in [open: 0..MaxLists, result: SUBSET Things, stored: SUBSET Things]

Received(c) == {t \in Things : client[c].count[t] > 0}

NoneReceived == [t \in Things |-> 0]

NewClient == [key |-> None, cursor |-> None, count |-> NoneReceived, state |-> "new"]

DirInit ==
    /\ Init
    /\ tds = None
    /\ seen = [c \in Cursors |-> [things |-> {}, pos |-> 0]]
    /\ client = [c \in Clients |-> NewClient]
    /\ call = None
    /\ write = None
    /\ writes = 0
    /\ lists = [open |-> 0, result |-> {}, stored |-> {}]

WritingBy(who) == IF write = None THEN FALSE ELSE write.by = who

Growing == IF write = None THEN FALSE ELSE write.growing

\* The goroutine that handles requests waits for the next one.
RpcFree == Free /\ call = None /\ ~ WritingBy("rpc")

-----------------------------------------------------------------------------
\* Writing

\* handleTDEvent and the requests UpdateTD and RemoveTD begin a write
\* transaction, one at a time.
StartWrite(who, thing, add) ==
    /\ Running
    /\ write = None
    /\ writes < MaxWrites
    /\ who = "rpc" => RpcFree
    /\ write' = [by |-> who, thing |-> thing, add |-> add, growing |-> FALSE]
    /\ writes' = writes + 1
    /\ UNCHANGED <<vars, tds, seen, client, call, lists>>

UpdateTDEvent(thing) == StartWrite("event", thing, TRUE)

UpdateTD(thing) == StartWrite("rpc", thing, TRUE)

RemoveTD(thing) == StartWrite("rpc", thing, FALSE)

Stored == IF tds = None THEN {} ELSE tds

NoReaders == lists.open = 0 /\ \A c \in Cursors : ~ tx[c]

Commit ==
    /\ Running
    /\ write # None
    /\ write.growing => NoReaders
    /\ tds' = IF write.add THEN Stored \cup {write.thing} ELSE Stored \ {write.thing}
    /\ write' = None
    /\ UNCHANGED <<vars, seen, client, call, writes, lists>>

Grow ==
    /\ Running
    /\ write # None
    /\ ~ write.growing
    /\ write' = [write EXCEPT !.growing = TRUE]
    /\ UNCHANGED <<vars, tds, seen, client, call, writes, lists>>

-----------------------------------------------------------------------------
\* Cursor requests

\* A request that opens a cursor blocks while the file grows.
StartCall(c, method) ==
    /\ RpcFree
    /\ call' = [client |-> c, method |-> method]
    /\ UNCHANGED <<vars, tds, seen, client, write, writes, lists>>

GetCursor(c) ==
    /\ client[c].key = None
    /\ StartCall(c, "GetCursor")

\* The client's request has timed out before its reply, or the reply is lost.
GaveUp(c) == client' = [client EXCEPT ![c] = NewClient]

\* The bucket does not exist before the first write.
GetCursorFails ==
    /\ Free
    /\ call # None
    /\ call.method = "GetCursor"
    /\ ~ Growing
    /\ tds = None \/ opened = MaxCursors
    /\ call' = None
    /\ UNCHANGED <<vars, tds, seen, client, write, writes, lists>>

GetCursorAdds ==
    /\ call # None
    /\ call.method = "GetCursor"
    /\ ~ Growing
    /\ tds # None
    /\ Add(call.client)
    /\ seen' = [seen EXCEPT ![opened'] = [things |-> tds, pos |-> 0]]
    /\ \/ client' = [client EXCEPT ![call.client] =
              [NewClient EXCEPT !.key = cursorCounter', !.cursor = opened']]
       \/ GaveUp(call.client)
    /\ call' = None
    /\ UNCHANGED <<tds, write, writes, lists>>

\* A client starts with First and goes on with Next or NextN until the end.
MayCall(c, method) ==
    /\ client[c].key # None
    /\ client[c].state = (IF method = "First" THEN "new" ELSE "iterating")

\* The request obtains the cursor ...
UseCursor(c, method) ==
    /\ RpcFree
    /\ MayCall(c, method)
    /\ Get(c, client[c].key)
    /\ call' = [client |-> c, method |-> method]
    /\ UNCHANGED <<tds, seen, client, write, writes, lists>>

\* ... or an error, and then the client has lost its key.
UseCursorFails(c, method) ==
    /\ RpcFree
    /\ MayCall(c, method)
    /\ ~ MayUse(c, client[c].key)
    /\ client' = [client EXCEPT ![c] = NewClient]
    /\ UNCHANGED <<vars, tds, seen, call, write, writes, lists>>

After(p) == {t \in p.things : t > p.pos}

\* The next n documents.  A client calls First before Next and NextN.
Taken(p, n) == {t \in After(p) : Cardinality({u \in After(p) : u < t}) < n}

MaxOf(S, default) == IF S = {} THEN default ELSE CHOOSE t \in S : \A u \in S : t >= u

\* Mutant: the cursor looks ahead for remaining documents and stays there.
NewPos_LooksAhead(p, docs) == MaxOf(docs \cup Taken(p, Cardinality(docs) + 1), p.pos)

\* At the end the position stays at the last document.
NewPos(p, docs) == MaxOf(docs, p.pos)

\* The client receives documents, and whether there may be more.
Reply(c, docs, more) ==
    client' = [client EXCEPT ![c] = [@ EXCEPT
        !.count = [t \in Things |-> client[c].count[t] + IF t \in docs THEN 1 ELSE 0],
        !.state = IF more THEN "iterating" ELSE "end"]]

\* The cursor is moved.  Releasing it meanwhile ends the process.
MoveCursor ==
    /\ call # None
    /\ Move
    /\ LET p == seen[req.cursor]
           n == CASE call.method = "First" -> 1
                  [] call.method = "Next" -> 1
                  [] call.method = "NextN" -> Limit
           docs == Taken(p, n)
       IN /\ seen' = [seen EXCEPT ![req.cursor].pos = NewPos(p, docs)]
          /\ IF call.method = "First" /\ docs = {}
             THEN client' = [client EXCEPT ![call.client].key = None, ![call.client].state = "end"]
             ELSE Reply(call.client, docs, Cardinality(docs) = n) \/ GaveUp(call.client)
    /\ call' = None
    /\ UNCHANGED <<tds, write, writes, lists>>

\* The cursor has been released since the request obtained it: to the client
\* this looks like the end.
CheckCursor ==
    /\ call # None
    /\ Check
    /\ IF req' # None THEN UNCHANGED <<client, call>>
       ELSE /\ client' = [client EXCEPT ![call.client].state = "end"]
            /\ call' = None
    /\ UNCHANGED <<tds, seen, write, writes, lists>>

\* Release passes its arguments to the cache in the wrong order, and the cache
\* knows no cursor under the name of the client.
ReleaseCursor(c) ==
    /\ RpcFree
    /\ client[c].key # None
    /\ client' = [client EXCEPT ![c] = [NewClient EXCEPT !.state = "released"]]
    /\ UNCHANGED <<vars, tds, seen, call, write, writes, lists>>

-----------------------------------------------------------------------------
\* GetTDs

GetTDs(c) ==
    /\ lists.open < MaxLists
    /\ StartCall(c, "GetTDs")

\* What NextN of a cursor without position returns: bbolt has no next for it.
Unpositioned(things) == {}

\* The cursor is neither positioned nor released.  Without a bucket there is no
\* cursor, and the call of its method ends the process.
GetTDsReturns ==
    /\ Free
    /\ call # None
    /\ call.method = "GetTDs"
    /\ ~ Growing
    /\ IF tds = None
       THEN process' = "panic" /\ UNCHANGED lists
       ELSE /\ lists' = [open |-> lists.open + 1, result |-> Unpositioned(tds), stored |-> tds]
            /\ UNCHANGED process
    /\ call' = None
    /\ UNCHANGED <<cursorsByKey, cursorCounter, opened, tx, held, req, loop>>
    /\ UNCHANGED <<tds, seen, client, write, writes>>

-----------------------------------------------------------------------------
\* Specification

\* The cache's loop and the clock.
Background ==
    /\ Wake \/ Stop \/ Scan \/ (\E key \in Keys : ReleaseExpired(key)) \/ PassDone \/ Tick
    /\ UNCHANGED <<tds, seen, client, call, write, writes, lists>>

DirPanicked == ~ Running /\ UNCHANGED dirVars

ClientNext(c) ==
    \/ GetCursor(c)
    \/ \E method \in {"First", "Next", "NextN"} : UseCursor(c, method) \/ UseCursorFails(c, method)
    \/ ReleaseCursor(c)
    \/ GetTDs(c)

RpcNext == GetCursorAdds \/ GetCursorFails \/ CheckCursor \/ MoveCursor \/ GetTDsReturns

DirNext ==
    \/ \E t \in Things : UpdateTDEvent(t) \/ UpdateTD(t) \/ RemoveTD(t)
    \/ Commit
    \/ Grow
    \/ \E c \in Clients : ClientNext(c)
    \/ RpcNext
    \/ Background
    \/ DirPanicked

DirSpec == DirInit /\ [][DirNext]_dirVars

\* Goroutines that can go on do so, and so does the clock.  Nothing is assumed
\* of the clients.
DirFairSpec ==
    /\ DirSpec
    /\ WF_dirVars(Tick /\ Background)
    /\ WF_dirVars((Wake \/ Scan \/ PassDone \/ \E key \in Keys : ReleaseExpired(key))
                     /\ Background)
    /\ WF_dirVars(RpcNext)
    /\ WF_dirVars(Commit)

-----------------------------------------------------------------------------
\* Properties

\* While documents are stored and removed, a client that iterates has received
\* each document that was stored when it obtained its cursor, up to its
\* position, exactly once, and no other.
EachOnce ==
    \A c \in Clients : client[c].cursor # None =>
        LET p == seen[client[c].cursor] IN
        \A t \in Things : client[c].count[t] = IF t \in p.things /\ t <= p.pos THEN 1 ELSE 0

\* A document that arrives as an event is stored in the end, although cursors
\* are open when the file has to grow and clients never release them.  Only a
\* GetTDs, whose cursor is not in the cache, prevents it for good.
EventIsStored ==
    [](lists.open = 0) => (WritingBy("event") ~> ~ WritingBy("event") \/ ~ Running)

-----------------------------------------------------------------------------
\* What comments say and the code does not do

\* "valid is false if the iterator has reached the end"
EndIsEnd ==
    \A c \in Clients : client[c].state = "end" /\ client[c].cursor # None =>
        Received(c) = seen[client[c].cursor].things

\* "Release close the cursor and release its resources."
ReleaseCloses ==
    [][\A c \in Clients : client[c].key \in Cached /\ client'[c].state = "released"
        => cursorsByKey'[client[c].key] = None]_dirVars

\* "The cursor MUST be closed after use"
ListIsClosed == lists.open = 0

\* "GetTDs returns a collection of TD documents"
ListReturnsTDs == lists.stored # {} => lists.result # {}

=============================================================================
