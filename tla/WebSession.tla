----------------------------- MODULE WebSession -----------------------------
(***************************************************************************)
(* The sessions of the web server: requests that log in, reconnect or log  *)
(* out, the event streams of browser tabs, and the callbacks of the hub    *)
(* connection that push events and status changes into those streams.      *)
(*                                                                         *)
(* Requests, stream handlers, the event callback and the status callback   *)
(* of each connection, and the greeting of each new stream all run in      *)
(* goroutines of their own.  A session has a read-write mutex, which       *)
(* senders take for reading, and the session manager has another.  A       *)
(* writer that waits for such a mutex keeps new readers out.               *)
(*                                                                         *)
(* A session is made for one hub connection, so the number of the          *)
(* connection stands for the session object as well.                       *)
(***************************************************************************)
EXTENDS Integers, Sequences, FiniteSets

CONSTANTS
    Reqs,       \* the requests that can be handled at the same time
    Tabs,       \* the event streams that browsers open
    MaxConns,   \* bound on the number of hub connections that are made
    MaxInputs,  \* bound on what the connections bring: an event, or a loss
    MaxSends    \* bound on the messages that one event becomes

ASSUME WebSessionAssumption ==
    /\ {MaxConns, MaxInputs, MaxSends} \subseteq Nat
    /\ Reqs \cap Tabs = {} /\ 0 \notin Reqs

VARIABLES
    sessions,  \* sm.sessions: the session of each session ID
    smMux,     \* the request that holds the mutex of the session manager
    cookie,    \* the session ID in the browser's cookie
    req,       \* per request: what its handler does next
    conn,      \* per connection: the state of the hub connection
    callbacks, \* per connection: status callbacks that wait to be called
    status,    \* per connection: the status that the transport reports
    subs,      \* the connections whose session handles events and status
    readers,   \* per session: the number of read locks held
    clients,   \* per session: cs.sseClients, the streams that it sends to
    tab,       \* per tab: what its stream handler does next
    channel,   \* per tab: is its channel open
    gone,      \* the tabs whose browser went away
    sender,    \* per sender: what it sends and to whom
    used,      \* how much of each bound is used
    process    \* the web server itself

sessionVars == <<sessions, smMux, cookie, req>>
hubVars == <<conn, callbacks, status, subs>>
streamVars == <<readers, clients, tab, channel, gone, sender>>

vars == <<sessionVars, hubVars, streamVars, used, process>>

-----------------------------------------------------------------------------
\* State

None == 0

Conns == 1..MaxConns

\* The session ID in a cookie of an earlier run of the web server, which signed it
\* with the same key.
OldID == MaxConns + 1

\* A new session ID is named after the connection it was made for.
SessionIDs == Conns \cup {OldID}

\* The goroutines that send: the callbacks of a connection, and the greeting
\* of a new stream.
Senders == ({"event", "status"} \X Conns) \cup ({"greeting"} \X Tabs)

Idle == [pc |-> "idle", sid |-> None, new |-> None]

Quiet == [pc |-> "idle", session |-> None, left |-> 0, todo |-> {}]

\* A goroutine that is to send n messages of session c.
Sends(c, n) == [pc |-> "lock", session |-> c, left |-> n, todo |-> {}]

NoTab == [pc |-> "none", session |-> None, list |-> {}]

\* The type invariant.
TypeOK ==
    /\ sessions \in [SessionIDs -> Conns \cup {None}]
    /\ smMux \in Reqs \cup {None}
    /\ cookie \in SessionIDs \cup {None}
    /\ req \in [Reqs -> [pc : {"idle", "activate", "wait", "create",
                               "insert", "refresh", "logout"},
                         sid : SessionIDs \cup {None}, new : Conns \cup {None}]]
    /\ conn \in [Conns -> {"none", "up", "closed"}]
    /\ callbacks \in [Conns -> Seq({"connected", "disconnected"})]
    /\ status \in [Conns -> {"connected", "disconnected"}]
    /\ subs \subseteq Conns
    /\ readers \in [Conns -> Nat]
    /\ clients \in [Conns -> SUBSET Tabs]
    /\ tab \in [Tabs -> [pc : {"none", "add", "store", "loop", "remove", "removing", "end"},
                         session : Conns \cup {None}, list : SUBSET Tabs]]
    /\ channel \in [Tabs -> {"open", "closed"}]
    /\ gone \subseteq Tabs
    /\ sender \in [Senders -> [pc : {"idle", "lock", "send"}, session : Conns \cup {None},
                               left : 0..MaxSends, todo : SUBSET Tabs]]
    /\ used \in [conns : 0..MaxConns, inputs : 0..MaxInputs]
    /\ process \in {"running", "panic"}

Init ==
    /\ sessions = [sid \in SessionIDs |-> None]
    /\ smMux = None
    /\ cookie = OldID
    /\ req = [r \in Reqs |-> Idle]
    /\ conn = [c \in Conns |-> "none"]
    /\ callbacks = [c \in Conns |-> <<>>]
    /\ status = [c \in Conns |-> "disconnected"]
    /\ subs = {}
    /\ readers = [c \in Conns |-> 0]
    /\ clients = [c \in Conns |-> {}]
    /\ tab = [t \in Tabs |-> NoTab]
    /\ channel = [t \in Tabs |-> "open"]
    /\ gone = {}
    /\ sender = [x \in Senders |-> Quiet]
    /\ used = [conns |-> 0, inputs |-> 0]
    /\ process = "running"

Running == process = "running"

-----------------------------------------------------------------------------
\* Locks

\* A request waits in Close for the mutex of session c.
WriterWaits(c) == \E r \in Reqs : req[r].pc = "wait" /\ sessions[req[r].sid] = c

\* The first step under a read lock of session c, and the last.
RLock(c) ==
    /\ ~WriterWaits(c)
    /\ readers' = [readers EXCEPT ![c] = @ + 1]

RUnlock(c) == readers' = [readers EXCEPT ![c] = @ - 1]

-----------------------------------------------------------------------------
\* The session manager

ReqAt(r, pc) == Running /\ req[r].pc = pc

Goes(r, pc) == req' = [req EXCEPT ![r].pc = pc]

\* The manager's mutex is free: its short sections are one step.
Unlocked == smMux = None

IsActive(c) == status[c] = "connected"

\* GetSession
Found(sid) == sid # None /\ sessions[sid] # None

\* The transport connects, with a password or a token.  It learns from a callback
\* that the connection is up.
ConnectionMade(c) ==
    /\ conn' = [conn EXCEPT ![c] = "up"]
    /\ callbacks' = [callbacks EXCEPT ![c] = <<"connected">>]

\* ConnectWithToken and ConnectWithPassword make a connection for request r.
Connects(r) ==
    LET c == used.conns + 1
    IN /\ used.conns < MaxConns
       /\ used' = [used EXCEPT !.conns = c]
       /\ ConnectionMade(c)
       /\ req' = [req EXCEPT ![r] = [pc |-> "activate", sid |-> cookie, new |-> c]]
       /\ UNCHANGED <<sessions, smMux, cookie, status, subs, streamVars, process>>

\* A page of the application: AddSessionToContext reconnects with the token in the
\* cookie unless its session is active.
AddSessionToContext(r) ==
    /\ ReqAt(r, "idle") /\ Unlocked
    /\ cookie # None
    /\ ~(Found(cookie) /\ IsActive(sessions[cookie]))
    /\ Connects(r)

\* A login form, from a browser that may still have a cookie.
PostLogin(r) == ReqAt(r, "idle") /\ Connects(r)

\* SessionLogout: the user logs out, or the hub refuses the token of a page.
SessionLogout(r) ==
    /\ ReqAt(r, "idle")
    /\ cookie # None
    /\ req' = [req EXCEPT ![r] = [pc |-> "logout", sid |-> cookie, new |-> None]]
    /\ UNCHANGED <<sessions, smMux, cookie, hubVars, streamVars, used, process>>

\* The routes of the web server.
Route(r) == AddSessionToContext(r) \/ PostLogin(r) \/ SessionLogout(r)

\* What follows Close: a logout removes the cookie, and an activation goes on.
AfterClose(r) ==
    IF req[r].new = None
    THEN req' = [req EXCEPT ![r] = Idle] /\ cookie' = None
    ELSE Goes(r, "create") /\ UNCHANGED cookie

\* ActivateNewSession and SessionLogout close the session of the cookie if there
\* is one.  SessionManager.Close takes its own mutex and then that of the session.
Close(r) ==
    /\ ReqAt(r, "activate") \/ ReqAt(r, "logout")
    /\ Unlocked
    /\ IF Found(req[r].sid)
       THEN /\ smMux' = r
            /\ Goes(r, "wait")
            /\ UNCHANGED cookie
       ELSE /\ AfterClose(r)
            /\ UNCHANGED smMux
    /\ UNCHANGED <<sessions, hubVars, streamVars, used, process>>

\* The connection ends, of which a callback tells.
Disconnect(c) ==
    /\ conn' = [conn EXCEPT ![c] = "closed"]
    /\ callbacks' = [callbacks EXCEPT ![c] = Append(@, "disconnected")]

\* ClientSession.Close closes the channels and the connection, and the manager
\* forgets the session IDs in forgotten.  Closing a closed channel panics: the
\* router recovers, the mutexes are released, and the session stays as far closed
\* as it is.
Closes(r, forgotten) ==
    LET c == sessions[req[r].sid]
        open == {t \in clients[c] : channel[t] = "open"}
    IN /\ smMux' = None
       /\ \/ /\ open = clients[c]
             /\ channel' = [t \in Tabs |-> IF t \in open THEN "closed" ELSE channel[t]]
             /\ Disconnect(c)
             /\ clients' = [clients EXCEPT ![c] = {}]
             /\ sessions' = [sid \in SessionIDs |->
                                IF sid \in forgotten THEN None ELSE sessions[sid]]
             /\ AfterClose(r)
          \/ /\ open # clients[c]
             /\ \E closing \in SUBSET open :
                   channel' = [t \in Tabs |-> IF t \in closing THEN "closed" ELSE channel[t]]
             /\ req' = [req EXCEPT ![r] = Idle]
             /\ UNCHANGED <<conn, callbacks, clients, sessions, cookie>>
       /\ UNCHANGED <<status, subs, readers, tab, gone, sender, used, process>>

\* Mutant: the session is closed while messages are being sent.
CloseSession_Unlocked(r) ==
    /\ ReqAt(r, "wait")
    /\ Closes(r, {req[r].sid})

\* Mutant: the closed session stays in the table.
CloseSession_Kept(r) ==
    /\ ReqAt(r, "wait")
    /\ readers[sessions[req[r].sid]] = 0
    /\ Closes(r, {})

\* This happens under both mutexes: no sender holds that of the session.
CloseSession(r) ==
    /\ ReqAt(r, "wait")
    /\ readers[sessions[req[r].sid]] = 0
    /\ Closes(r, {req[r].sid})

\* NewClientSession sets the handlers of the connection, reads the model of the
\* client from the state service, and subscribes to events.
NewClientSession(r) ==
    /\ ReqAt(r, "create")
    /\ subs' = subs \cup {req[r].new}
    /\ Goes(r, "insert")
    /\ UNCHANGED <<sessions, smMux, cookie, conn, callbacks, status, streamVars, used, process>>

\* The new session gets the ID of the cookie, or one of its own.
NewID(r) == IF req[r].sid = None THEN req[r].new ELSE req[r].sid

Insert(r) ==
    /\ ReqAt(r, "insert") /\ Unlocked
    /\ sessions' = [sessions EXCEPT ![NewID(r)] = req[r].new]
    /\ Goes(r, "refresh")
    /\ UNCHANGED <<smMux, cookie, hubVars, streamVars, used, process>>

\* After a new token was asked for, the cookie is replaced whatever the answer.
SetSessionCookie(r) ==
    /\ ReqAt(r, "refresh")
    /\ cookie' = NewID(r)
    /\ req' = [req EXCEPT ![r] = Idle]
    /\ UNCHANGED <<sessions, smMux, hubVars, streamVars, used, process>>

-----------------------------------------------------------------------------
\* The hub connection

\* The connection is lost and, sooner or later, found again by the transport.
\* The time in between is the time until the second callback.
Reconnects(c) ==
    /\ Running /\ conn[c] = "up" /\ used.inputs < MaxInputs
    /\ used' = [used EXCEPT !.inputs = @ + 1]
    /\ callbacks' = [callbacks EXCEPT ![c] = @ \o <<"disconnected", "connected">>]
    /\ UNCHANGED <<sessionVars, conn, status, subs, streamVars, process>>

\* onConnected and onDisconnect of the transport record the status.
StatusChanges(c) ==
    /\ callbacks[c] # <<>>
    /\ status' = [status EXCEPT ![c] = Head(callbacks[c])]
    /\ callbacks' = [callbacks EXCEPT ![c] = Tail(@)]

\* Then onConnectChange of the session sends a notification.  The callbacks of a
\* connection run in turn.
OnConnectChange(c) ==
    LET x == <<"status", c>>
    IN /\ Running /\ sender[x].pc = "idle"
       /\ StatusChanges(c)
       /\ sender' = IF c \in subs
                    THEN [sender EXCEPT ![x] = Sends(c, 1)]
                    ELSE sender
       /\ UNCHANGED <<sessionVars, conn, subs,
                      readers, clients, tab, channel, gone, used, process>>

\* onEvent of the hub client passes events on once the session has set its handler.
\* The events of a subscription are handled in turn.
Delivers(c) == conn[c] = "up" /\ c \in subs /\ sender[<<"event", c>>].pc = "idle"

\* An event of a subscription: onEvent takes the read lock of the session and
\* keeps it while it sends one message or more.
OnEvent(c) ==
    LET x == <<"event", c>>
    IN /\ Running /\ Delivers(c)
       /\ used.inputs < MaxInputs
       /\ used' = [used EXCEPT !.inputs = @ + 1]
       /\ RLock(c)
       /\ \E n \in 1..MaxSends :
             sender' = [sender EXCEPT ![x] = Sends(c, n)]
       /\ UNCHANGED <<sessionVars, hubVars, clients, tab, channel, gone, process>>

\* Sender x has sent a message: it sends the next, or returns and releases its
\* locks.  SendSSE itself had taken n of them at this point.
MessageSent(x, n) ==
    LET m == sender[x]
        last == m.left = 1
        outer == IF last /\ x[1] = "event" THEN 1 ELSE 0
    IN /\ sender' = [sender EXCEPT ![x] = IF last THEN Quiet
                                          ELSE Sends(m.session, m.left - 1)]
       /\ readers' = [readers EXCEPT ![m.session] = @ - outer - n]

\* SendSSE takes the read lock, a second one when onEvent calls it, ...
SendSSE(x) ==
    LET c == sender[x].session
    IN /\ Running /\ sender[x].pc = "lock"
       /\ IF clients[c] = {}
          THEN ~WriterWaits(c) /\ MessageSent(x, 0)
          ELSE /\ RLock(c)
               /\ sender' = [sender EXCEPT ![x].pc = "send", ![x].todo = clients[c]]
       /\ UNCHANGED <<sessionVars, hubVars, clients, tab, channel, gone, used, process>>

\* ... and hands the message to the handler of each stream.
SendOne(x, t) ==
    LET m == sender[x]
    IN /\ Running /\ m.pc = "send" /\ t \in m.todo
       /\ channel[t] = "open" /\ tab[t].pc = "loop"
       /\ IF m.todo # {t}
          THEN sender' = [sender EXCEPT ![x].todo = @ \ {t}] /\ UNCHANGED readers
          ELSE MessageSent(x, 1)
       /\ UNCHANGED <<sessionVars, hubVars, clients, tab, channel, gone, used, process>>

\* Sending to a closed channel panics, outside any request: the web server ends,
\* and with it all goroutines.
SendPanics(x, t) ==
    /\ Running /\ sender[x].pc = "send" /\ t \in sender[x].todo
    /\ channel[t] = "closed"
    /\ process' = "panic"
    /\ req' = [r \in Reqs |-> Idle]
    /\ smMux' = None
    /\ tab' = [u \in Tabs |-> NoTab]
    /\ sender' = [y \in Senders |-> Quiet]
    /\ readers' = [c \in Conns |-> 0]
    /\ UNCHANGED <<sessions, cookie, hubVars, clients, channel, gone, used>>

-----------------------------------------------------------------------------
\* The streams of browser tabs

TabAt(t, pc) == Running /\ tab[t].pc = pc

TabGoes(t, pc) == tab' = [tab EXCEPT ![t].pc = pc]

TabEnds(t) == tab' = [tab EXCEPT ![t] = [NoTab EXCEPT !.pc = "end"]]

\* SseHandler accepts a stream when the cookie's session is active.
SseHandler(t) ==
    /\ TabAt(t, "none") /\ Unlocked
    /\ Found(cookie) /\ IsActive(sessions[cookie])
    /\ tab' = [tab EXCEPT ![t].pc = "add", ![t].session = sessions[cookie]]
    /\ UNCHANGED <<sessionVars, hubVars, readers, clients, channel, gone, sender, used, process>>

\* AddSSEClient changes the list under a read lock, so that others may change
\* it between its read and its write.  It leaves a goroutine that greets.
AddSSEClient(t) ==
    LET c == tab[t].session
    IN /\ TabAt(t, "add")
       /\ RLock(c)
       /\ tab' = [tab EXCEPT ![t].pc = "store", ![t].list = clients[c]]
       /\ UNCHANGED <<sessionVars, hubVars, clients, channel, gone, sender, used, process>>

AddSSEClientStore(t) ==
    LET c == tab[t].session
    IN /\ TabAt(t, "store")
       /\ clients' = [clients EXCEPT ![c] = tab[t].list \cup {t}]
       /\ RUnlock(c)
       /\ tab' = [tab EXCEPT ![t].pc = "loop", ![t].list = {}]
       /\ sender' = [sender EXCEPT ![<<"greeting", t>>] = Sends(c, 1)]
       /\ UNCHANGED <<sessionVars, hubVars, channel, gone, used, process>>

\* The handler finds its channel closed by the session ...
StreamClosed(t) ==
    /\ TabAt(t, "loop") /\ channel[t] = "closed"
    /\ TabGoes(t, "remove")
    /\ UNCHANGED <<sessionVars, hubVars, readers, clients, channel, gone, sender, used, process>>

\* ... or its browser gone, and closes the channel itself.  When that was done
\* before, the handler panics and the router recovers.
StreamLeft(t) ==
    /\ TabAt(t, "loop")
    /\ gone' = gone \cup {t}
    /\ IF channel[t] = "closed" THEN TabEnds(t) ELSE TabGoes(t, "remove")
    /\ channel' = [channel EXCEPT ![t] = "closed"]
    /\ UNCHANGED <<sessionVars, hubVars, readers, clients, sender, used, process>>

\* RemoveSSEClient looks for the place of its channel in the list, ...
RemoveSSEClient(t) ==
    LET c == tab[t].session
    IN /\ TabAt(t, "remove")
       /\ IF t \notin clients[c]
          THEN ~WriterWaits(c) /\ TabEnds(t) /\ UNCHANGED readers
          ELSE RLock(c) /\ tab' = [tab EXCEPT ![t].pc = "removing", ![t].list = clients[c]]
       /\ UNCHANGED <<sessionVars, hubVars, clients, channel, gone, sender, used, process>>

\* ... and takes what is in that place out.  When the list has changed since, it
\* may write back what it had read, take out another channel, or panic because
\* the list is too short.  The others move up in the array, so that a sender which
\* is going through it may miss one, or not see the removal.
RemoveSSEClientStore(t) ==
    LET c == tab[t].session
        now == clients[c]
        raced == {now} \cup {now \ {u} : u \in now} \cup {tab[t].list \ {t}}
        going == {x \in Senders : sender[x].pc = "send" /\ sender[x].session = c}
    IN /\ TabAt(t, "removing")
       /\ \E l \in IF now = tab[t].list THEN {now \ {t}} ELSE raced :
             clients' = [clients EXCEPT ![c] = l]
       /\ \E skipped \in [going -> SUBSET Tabs] :
             /\ \A x \in going : Cardinality(skipped[x]) <= 1 /\ sender[x].todo \ skipped[x] # {}
             /\ sender' = [x \in Senders |->
                              IF x \in going THEN [sender[x] EXCEPT !.todo = @ \ skipped[x]]
                              ELSE sender[x]]
       /\ RUnlock(c)
       /\ TabEnds(t)
       /\ UNCHANGED <<sessionVars, hubVars, channel, gone, used, process>>

-----------------------------------------------------------------------------
\* Specification

ReqStep(r) ==
    \/ Close(r) \/ CloseSession(r)
    \/ NewClientSession(r) \/ Insert(r) \/ SetSessionCookie(r)

SenderStep(x) == SendSSE(x) \/ \E t \in Tabs : SendOne(x, t) \/ SendPanics(x, t)

\* What a stream handler does once it runs.
TabStep(t) ==
    \/ AddSSEClient(t) \/ AddSSEClientStore(t)
    \/ StreamClosed(t) \/ StreamLeft(t)
    \/ RemoveSSEClient(t) \/ RemoveSSEClientStore(t)

Next ==
    \/ \E r \in Reqs : Route(r) \/ ReqStep(r)
    \/ \E c \in Conns : Reconnects(c) \/ OnConnectChange(c) \/ OnEvent(c)
    \/ \E x \in Senders : SenderStep(x)
    \/ \E t \in Tabs : SseHandler(t) \/ TabStep(t)

Spec == Init /\ [][Next]_vars

\* Whoever has a lock, a channel or a message to go on with does so.
FairSpec ==
    /\ Spec
    /\ \A r \in Reqs : WF_vars(ReqStep(r))
    /\ \A x \in Senders : WF_vars(SenderStep(x))
    /\ \A t \in Tabs : WF_vars(TabStep(t))

-----------------------------------------------------------------------------
\* Properties

\* Closing a session closes the channels that events are sent to.  The mutex keeps
\* it apart from the senders: as long as no browser goes away, no sender ever
\* meets a closed channel, so that logging out or in again cannot bring the web
\* server down.
CloseNeverPanics == process = "panic" => gone # {}

\* A session that requests can find has its hub connection: the manager closes a
\* session and forgets it under one lock, in whatever order requests log in,
\* reconnect and log out with the same cookie.
ListedIsOpen ==
    Unlocked => \A sid \in SessionIDs : sessions[sid] # None => conn[sessions[sid]] # "closed"

\* A stream that its session closed can always leave: no writer waits for the
\* mutex of a session that was closed, whoever still holds a read lock of it, so
\* that the handlers of its streams end instead of piling up.
ClosedCanLeave ==
    \A t \in Tabs : LET c == tab[t].session
                    IN c # None /\ conn[c] = "closed" => ~WriterWaits(c)

-----------------------------------------------------------------------------
\* What comments say and the code does not do

\* "If a session exists, it will be closed and removed first."
\* (SessionManager.go:41).  Two requests that carry the same cookie both find no
\* active session and connect; the second to insert its session overwrites that of
\* the first, whose connection stays open.
ReplacedIsClosed ==
    [][\A sid \in SessionIDs : sessions[sid] # None /\ sessions'[sid] \notin {None, sessions[sid]}
            => conn[sessions[sid]] = "closed"]_sessions

\* "Close closes the hub connection and event channel, removes the session"
\* (SessionManager.go:110).  onEvent keeps its read lock while SendSSE asks for it
\* again; a Close that began to wait in between waits for onEvent, and SendSSE waits
\* for Close.
CloseReturns == \A r \in Reqs : req[r].pc = "wait" ~> req[r].pc # "wait"

=============================================================================
