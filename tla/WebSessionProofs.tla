-------------------------- MODULE WebSessionProofs --------------------------
(***************************************************************************)
(* The table of the session manager and the hub connections of its         *)
(* sessions, for any number of requests, tabs and connections: a session   *)
(* that can be found is connected, and no writer waits for a session that  *)
(* was closed.                                                             *)
(*                                                                         *)
(* The argument is about who owns a connection.  A request that has made   *)
(* one is its only owner until it inserts the session, and from then on    *)
(* exactly one session ID leads to it.  Closing through that session ID    *)
(* and forgetting it in the same step leaves no other way to the           *)
(* connection.                                                             *)
(*                                                                         *)
(* The second half is about the streams.  Whoever has a channel in hand    *)
(* holds a read lock of its session, and the number of readers is the      *)
(* number of those holders: Close, which waits for it to be zero, closes   *)
(* no channel that is still to be sent to.                                 *)
(***************************************************************************)
EXTENDS WebSession, FiniteSetTheorems, TLAPS

\* Request r has made a connection that is not in the table yet.
Owns(r, c) == /\ req[r].pc \in {"activate", "wait", "create", "insert"}
              /\ req[r].new = c

Requests == [pc : {"idle", "activate", "wait", "create", "insert", "refresh", "logout"},
             sid : SessionIDs \union {None}, new : Conns \union {None}]

TypeInv ==
    /\ sessions \in [SessionIDs -> Conns \union {None}]
    /\ cookie \in SessionIDs \union {None}
    /\ req \in [Reqs -> Requests]
    /\ conn \in [Conns -> {"none", "up", "closed"}]
    /\ used \in [conns : 0..MaxConns, inputs : Nat]

\* Connections that were not made yet are in nobody's hands.
FreshInv ==
    \A c \in Conns : c > used.conns =>
        /\ \A sid \in SessionIDs : sessions[sid] # c
        /\ \A r \in Reqs : req[r].new # c

\* A connection that a request owns is up, and nobody else has it.
OwnerInv ==
    \A r \in Reqs, c \in Conns : Owns(r, c) =>
        /\ conn[c] = "up"
        /\ \A sid \in SessionIDs : sessions[sid] # c
        /\ \A q \in Reqs : Owns(q, c) => q = r

\* A session in the table is up, and one session ID leads to it.
TableInv ==
    \A sid \in SessionIDs : sessions[sid] # None =>
        /\ conn[sessions[sid]] = "up"
        /\ \A other \in SessionIDs : sessions[other] = sessions[sid] => other = sid

\* A request that waits for a session holds the manager's mutex, so that the session
\* stays in the table.  Only a request that has connected goes on after Close.
WaitInv ==
    \A r \in Reqs :
        /\ req[r].pc = "wait" =>
              smMux = r /\ req[r].sid \in SessionIDs /\ sessions[req[r].sid] # None
        /\ req[r].pc \in {"activate", "create", "insert", "refresh"} => req[r].new # None
        /\ req[r].pc \in {"idle", "logout"} => req[r].new = None

IInv == TypeInv /\ FreshInv /\ OwnerInv /\ TableInv /\ WaitInv

-----------------------------------------------------------------------------
\* Steps that touch neither the table, nor the requests, nor a connection.
LEMMA Frame ==
    ASSUME IInv, UNCHANGED <<sessions, smMux, cookie, req, conn>>,
           used' \in [conns : 0..MaxConns, inputs : Nat], used'.conns = used.conns
    PROVE  IInv'
<1>1. FreshInv' /\ OwnerInv'
  BY DEF IInv, FreshInv, OwnerInv, Owns
<1>2. TypeInv' /\ TableInv' /\ WaitInv'
  BY DEF IInv, TypeInv, TableInv, WaitInv
<1> QED BY <1>1, <1>2 DEF IInv

\* A request goes on, and gets hold of no connection by it.
LEMMA ReqMoves ==
    ASSUME IInv, NEW r \in Reqs, NEW q \in Requests,
           req' = [req EXCEPT ![r] = q],
           UNCHANGED <<sessions, conn, used>>, cookie' \in SessionIDs \union {None},
           q.new \in {None, req[r].new},
           q.pc \in {"activate", "create", "insert", "refresh"} => q.new # None,
           q.pc \in {"idle", "logout"} => q.new = None,
           q.pc \in {"activate", "wait", "create", "insert"} /\ q.new # None =>
               req[r].pc \in {"activate", "wait", "create", "insert"},
           q.pc = "wait" =>
               smMux' = r /\ q.sid \in SessionIDs /\ sessions[q.sid] # None,
           \A p \in Reqs : p # r /\ req[p].pc = "wait" => smMux' = p
    PROVE  IInv'
<1>1. req' \in [Reqs -> Requests] /\ req'[r] = q /\ \A p \in Reqs : p # r => req'[p] = req[p]
  BY DEF IInv, TypeInv
<1>2. TypeInv'
  BY <1>1 DEF IInv, TypeInv
<1>3. \A p \in Reqs, c \in Conns : Owns(p, c)' => Owns(p, c)
  <2>1. \A c \in Conns : c # None
    BY DEF Conns, None
  <2> QED BY <1>1, <2>1 DEF Owns
<1>4. FreshInv'
  <2>1. \A c \in Conns : c # None
    BY DEF Conns, None
  <2> QED BY <1>1, <2>1 DEF IInv, FreshInv
<1>5. OwnerInv'
  BY <1>3 DEF IInv, OwnerInv
<1>6. TableInv'
  BY DEF IInv, TableInv
<1>7. WaitInv'
  BY <1>1 DEF IInv, WaitInv
<1> QED BY <1>2, <1>4, <1>5, <1>6, <1>7 DEF IInv

\* A new connection belongs to the request that made it.
LEMMA ConnectsStep ==
    ASSUME IInv, NEW r \in Reqs, req[r].pc = "idle", Connects(r) PROVE IInv'
<1> DEFINE c == used.conns + 1
           q == [pc |-> "activate", sid |-> cookie, new |-> c]
<1>0. /\ used.conns < MaxConns /\ used' = [used EXCEPT !.conns = c]
      /\ conn' = [conn EXCEPT ![c] = "up"]
      /\ req' = [req EXCEPT ![r] = q]
      /\ UNCHANGED <<sessions, smMux, cookie>>
  BY DEF Connects, ConnectionMade
<1>1. /\ c \in Conns /\ c > used.conns /\ c # None /\ MaxConns \in Nat /\ used.conns \in Nat
      /\ used' \in [conns : 0..MaxConns, inputs : Nat] /\ used'.conns = c
  BY <1>0, WebSessionAssumption DEF IInv, TypeInv, Conns, None
<1>2. q \in Requests /\ q.new = c /\ q.pc = "activate"
  BY <1>1 DEF IInv, TypeInv, Requests
<1> HIDE DEF q
<1>3. req' \in [Reqs -> Requests] /\ req'[r] = q /\ \A p \in Reqs : p # r => req'[p] = req[p]
  BY <1>0, <1>2 DEF IInv, TypeInv
<1>4. /\ conn' \in [Conns -> {"none", "up", "closed"}] /\ conn'[c] = "up"
      /\ \A d \in Conns : d # c => conn'[d] = conn[d]
  BY <1>0, <1>1 DEF IInv, TypeInv
<1>5. /\ \A sid \in SessionIDs : sessions[sid] # c
      /\ \A p \in Reqs : req[p].new # c
  BY <1>1 DEF IInv, FreshInv
<1> HIDE DEF c
<1>6. TypeInv'
  BY <1>0, <1>1, <1>3, <1>4 DEF IInv, TypeInv
<1>7. FreshInv'
  <2>1. \A d \in Conns : d > c => d > used.conns /\ d # c
    BY <1>1 DEF Conns
  <2> QED BY <1>0, <1>1, <1>2, <1>3, <2>1 DEF IInv, FreshInv
<1>8. \A p \in Reqs, d \in Conns : Owns(p, d)' <=> IF p = r THEN d = c ELSE Owns(p, d)
  BY <1>2, <1>3 DEF Owns
<1>9. \A p \in Reqs, d \in Conns : Owns(p, d) => d # c /\ p # r
  BY <1>5 DEF Owns
<1>10. OwnerInv'
  <2>1. ASSUME NEW p \in Reqs, NEW d \in Conns, Owns(p, d)'
        PROVE  /\ conn'[d] = "up"
               /\ \A sid \in SessionIDs : sessions'[sid] # d
               /\ \A o \in Reqs : Owns(o, d)' => o = p
    <3>1. CASE p = r
      BY <1>0, <1>4, <1>5, <1>8, <1>9, <2>1, <3>1
    <3>2. CASE p # r
      BY <1>0, <1>4, <1>8, <1>9, <2>1, <3>2 DEF IInv, OwnerInv
    <3> QED BY <3>1, <3>2
  <2> QED BY <2>1 DEF OwnerInv
<1>11. TableInv'
  BY <1>0, <1>4, <1>5 DEF IInv, TypeInv, TableInv
<1>12. WaitInv'
  BY <1>0, <1>1, <1>2, <1>3 DEF IInv, WaitInv
<1> QED BY <1>6, <1>7, <1>10, <1>11, <1>12 DEF IInv

\* What a request becomes after Close.
LEMMA AfterCloseReq ==
    ASSUME IInv, NEW r \in Reqs, req[r].pc \in {"activate", "wait", "logout"}, AfterClose(r)
    PROVE  /\ cookie' \in SessionIDs \union {None}
           /\ \E q \in Requests :
                 /\ req' = [req EXCEPT ![r] = q]
                 /\ \/ q.pc = "idle" /\ q.new = None
                    \/ /\ q.pc = "create" /\ q.new = req[r].new /\ q.new # None
                       /\ req[r].pc \in {"activate", "wait"}
<1>1. CASE req[r].new = None
  <2>1. Idle \in Requests /\ Idle.pc = "idle" /\ Idle.new = None
    BY DEF Idle, Requests
  <2> QED BY <1>1, <2>1 DEF AfterClose
<1>2. CASE req[r].new # None
  <2> DEFINE q == [req[r] EXCEPT !.pc = "create"]
  <2>1. q \in Requests /\ q.pc = "create" /\ q.new = req[r].new
    BY DEF IInv, TypeInv, Requests
  <2>2. req' = [req EXCEPT ![r] = q] /\ UNCHANGED cookie
    BY <1>2 DEF AfterClose, Goes
  <2>3. req[r].pc \in {"activate", "wait"}
    BY <1>2 DEF IInv, WaitInv
  <2> HIDE DEF q
  <2> QED BY <1>2, <2>1, <2>2, <2>3 DEF IInv, TypeInv
<1> QED BY <1>1, <1>2

\* A request holds the manager's mutex if it waits, so nobody waits while it is free.
LEMMA OneWaits ==
    ASSUME IInv, NEW r \in Reqs, req[r].pc = "wait"
    PROVE  smMux = r /\ smMux # None
BY WebSessionAssumption DEF IInv, WaitInv, None

\* A session that is not there needs no closing; one that is there is waited for.
LEMMA CloseStep == ASSUME IInv, NEW r \in Reqs, Close(r) PROVE IInv'
<1>0. /\ req[r].pc \in {"activate", "logout"} /\ smMux = None
      /\ UNCHANGED <<sessions, conn, used>>
  BY DEF Close, ReqAt, Unlocked, hubVars
<1>1. \A p \in Reqs : req[p].pc # "wait"
  BY <1>0, OneWaits
<1>2. CASE Found(req[r].sid)
  <2> DEFINE q == [req[r] EXCEPT !.pc = "wait"]
  <2>1. q \in Requests /\ q.pc = "wait" /\ q.new = req[r].new /\ q.sid = req[r].sid
    BY DEF IInv, TypeInv, Requests
  <2>2. req' = [req EXCEPT ![r] = q] /\ smMux' = r /\ UNCHANGED cookie
    BY <1>2 DEF Close, Goes
  <2>3. q.sid \in SessionIDs /\ sessions[q.sid] # None
    BY <1>2, <2>1 DEF Found, IInv, TypeInv, Requests
  <2>4. q.new # None => req[r].pc = "activate"
    BY <1>0, <2>1 DEF IInv, WaitInv
  <2> HIDE DEF q
  <2>5. cookie' \in SessionIDs \union {None}
    BY <2>2 DEF IInv, TypeInv
  <2> QED BY <1>0, <1>1, <2>1, <2>2, <2>3, <2>4, <2>5, ReqMoves
<1>3. CASE ~Found(req[r].sid)
  <2>1. AfterClose(r)
    BY <1>3 DEF Close
  <2>2. PICK q \in Requests :
                 /\ req' = [req EXCEPT ![r] = q]
                 /\ \/ q.pc = "idle" /\ q.new = None
                    \/ /\ q.pc = "create" /\ q.new = req[r].new /\ q.new # None
                       /\ req[r].pc \in {"activate", "wait"}
    BY <1>0, <2>1, AfterCloseReq
  <2>3. cookie' \in SessionIDs \union {None}
    BY <1>0, <2>1, AfterCloseReq
  <2> QED BY <1>0, <1>1, <2>2, <2>3, ReqMoves
<1> QED BY <1>2, <1>3

\* Closing a session and forgetting its only session ID are one step.
LEMMA CloseSessionStep == ASSUME IInv, NEW r \in Reqs, CloseSession(r) PROVE IInv'
<1> DEFINE c == sessions[req[r].sid]
           complete == clients[c] = {t \in clients[c] : channel[t] = "open"}
<1>0. /\ req[r].pc = "wait" /\ Closes(r, {req[r].sid}) /\ smMux' = None /\ UNCHANGED used
  BY DEF CloseSession, ReqAt, Closes
<1>1. /\ req[r].sid \in SessionIDs /\ c \in Conns /\ c # None
      /\ \A p \in Reqs : p # r => req[p].pc # "wait"
  BY <1>0, OneWaits DEF IInv, WaitInv, TypeInv
<1>2. CASE ~complete
  <2>1. req' = [req EXCEPT ![r] = Idle] /\ UNCHANGED <<sessions, conn, cookie>>
    BY <1>0, <1>2 DEF Closes
  <2>2. Idle \in Requests /\ Idle.pc = "idle" /\ Idle.new = None
    BY DEF Idle, Requests
  <2>3. cookie' \in SessionIDs \union {None}
    BY <2>1 DEF IInv, TypeInv
  <2> QED BY <1>0, <1>1, <2>1, <2>2, <2>3, ReqMoves
<1>3. CASE complete
  <2>1. /\ conn' = [conn EXCEPT ![c] = "closed"] /\ AfterClose(r)
        /\ sessions' = [sid \in SessionIDs |->
                           IF sid \in {req[r].sid} THEN None ELSE sessions[sid]]
    BY <1>0, <1>3 DEF Closes, Disconnect
  <2>2. PICK q \in Requests :
                 /\ req' = [req EXCEPT ![r] = q]
                 /\ \/ q.pc = "idle" /\ q.new = None
                    \/ /\ q.pc = "create" /\ q.new = req[r].new /\ q.new # None
                       /\ req[r].pc \in {"activate", "wait"}
    BY <1>0, <2>1, AfterCloseReq
  <2>3. cookie' \in SessionIDs \union {None}
    BY <1>0, <2>1, AfterCloseReq
  <2>4. req' \in [Reqs -> Requests] /\ req'[r] = q /\ \A p \in Reqs : p # r => req'[p] = req[p]
    BY <2>2 DEF IInv, TypeInv
  <2>5. \A d \in Conns : d # None
    BY DEF Conns, None
  <2>6. \A p \in Reqs, d \in Conns : Owns(p, d)' => Owns(p, d)
    BY <1>0, <2>2, <2>4, <2>5 DEF Owns
  <2>7. /\ conn' \in [Conns -> {"none", "up", "closed"}]
        /\ \A d \in Conns : d # c => conn'[d] = conn[d]
    BY <1>1, <2>1 DEF IInv, TypeInv
  <2>8. /\ sessions' \in [SessionIDs -> Conns \union {None}]
        /\ \A sid \in SessionIDs : sessions'[sid] # None =>
               sessions'[sid] = sessions[sid] /\ sid # req[r].sid
    BY <2>1 DEF IInv, TypeInv
  <2>9. TypeInv'
    BY <1>0, <2>3, <2>4, <2>7, <2>8 DEF IInv, TypeInv
  <2>10. FreshInv'
    BY <1>0, <2>2, <2>4, <2>5, <2>8 DEF IInv, FreshInv
  <2>11. OwnerInv'
    <3>1. \A p \in Reqs, d \in Conns : Owns(p, d) => d # c
      BY <1>1 DEF IInv, OwnerInv
    <3> QED BY <2>5, <2>6, <2>7, <2>8, <3>1 DEF IInv, OwnerInv
  <2>12. TableInv'
    <3>1. \A sid \in SessionIDs : sid # req[r].sid => sessions[sid] # c
      BY <1>1 DEF IInv, TableInv
    <3> HIDE DEF c
    <3> QED BY <2>5, <2>7, <2>8, <3>1 DEF IInv, TypeInv, TableInv
  <2>13. WaitInv'
    BY <1>0, <1>1, <2>2, <2>4 DEF IInv, WaitInv
  <2> QED BY <2>9, <2>10, <2>11, <2>12, <2>13 DEF IInv
<1> QED BY <1>2, <1>3

\* The session goes into the table, and its request owns it no longer.
LEMMA InsertStep == ASSUME IInv, NEW r \in Reqs, Insert(r) PROVE IInv'
<1> DEFINE c == req[r].new
           id == NewID(r)
           q == [req[r] EXCEPT !.pc = "refresh"]
<1>0. /\ req[r].pc = "insert" /\ smMux = None
      /\ sessions' = [sessions EXCEPT ![id] = c] /\ req' = [req EXCEPT ![r] = q]
      /\ UNCHANGED <<smMux, cookie, conn, used>>
  BY DEF Insert, ReqAt, Unlocked, Goes, hubVars
<1>1. /\ c \in Conns /\ c # None /\ id \in SessionIDs
      /\ q \in Requests /\ q.pc = "refresh" /\ q.new = c
  BY <1>0 DEF IInv, TypeInv, WaitInv, Requests, NewID, SessionIDs
<1>2. \A p \in Reqs : req[p].pc # "wait"
  BY <1>0, OneWaits
<1>3. Owns(r, c)
  BY <1>0 DEF Owns
<1> HIDE DEF c, id, q
<1>4. req' \in [Reqs -> Requests] /\ req'[r] = q /\ \A p \in Reqs : p # r => req'[p] = req[p]
  BY <1>0, <1>1 DEF IInv, TypeInv
<1>5. /\ sessions' \in [SessionIDs -> Conns \union {None}] /\ sessions'[id] = c
      /\ \A sid \in SessionIDs : sid # id => sessions'[sid] = sessions[sid]
  BY <1>0, <1>1 DEF IInv, TypeInv
<1>6. /\ conn[c] = "up"
      /\ \A sid \in SessionIDs : sessions[sid] # c
      /\ \A p \in Reqs : Owns(p, c) => p = r
  BY <1>1, <1>3 DEF IInv, OwnerInv
<1>7. TypeInv'
  BY <1>0, <1>4, <1>5 DEF IInv, TypeInv
<1>8. FreshInv'
  <2>1. c \in Conns /\ ~(c > used.conns)
    BY <1>1 DEF c, IInv, FreshInv
  <2> QED BY <1>0, <1>1, <1>4, <1>5, <2>1 DEF IInv, FreshInv
<1>9. OwnerInv'
  <2>1. \A p \in Reqs, d \in Conns : Owns(p, d)' => Owns(p, d) /\ p # r
    BY <1>1, <1>4 DEF Owns
  <2>2. \A p \in Reqs, d \in Conns : Owns(p, d)' => d # c
    BY <1>6, <2>1
  <2> QED BY <1>0, <1>5, <2>1, <2>2 DEF IInv, OwnerInv
<1>10. TableInv'
  BY <1>0, <1>1, <1>5, <1>6 DEF IInv, TableInv
<1>11. WaitInv'
  BY <1>0, <1>1, <1>2, <1>4 DEF IInv, WaitInv
<1> QED BY <1>7, <1>8, <1>9, <1>10, <1>11 DEF IInv

\* The steps of a request that leave table and connections alone.
LEMMA PlainReqSteps ==
    ASSUME IInv, NEW r \in Reqs, SessionLogout(r) \/ NewClientSession(r) \/ SetSessionCookie(r)
    PROVE  IInv'
<1>0. UNCHANGED <<sessions, conn, used, smMux>>
  BY DEF SessionLogout, NewClientSession, SetSessionCookie, hubVars
<1>1. \A p \in Reqs : p # r /\ req[p].pc = "wait" => smMux' = p
  BY <1>0 DEF IInv, WaitInv
<1>2. CASE SessionLogout(r)
  <2> DEFINE q == [pc |-> "logout", sid |-> cookie, new |-> None]
  <2>1. q \in Requests /\ q.pc = "logout" /\ q.new = None
    BY DEF IInv, TypeInv, Requests
  <2>2. req' = [req EXCEPT ![r] = q] /\ cookie' \in SessionIDs \union {None}
    BY <1>2 DEF SessionLogout, IInv, TypeInv
  <2> HIDE DEF q
  <2> QED BY <1>0, <1>1, <2>1, <2>2, ReqMoves
<1>3. CASE NewClientSession(r)
  <2> DEFINE q == [req[r] EXCEPT !.pc = "insert"]
  <2>1. q \in Requests /\ q.pc = "insert" /\ q.new = req[r].new
    BY DEF IInv, TypeInv, Requests
  <2>2. /\ req[r].pc = "create" /\ req' = [req EXCEPT ![r] = q]
        /\ cookie' \in SessionIDs \union {None}
    BY <1>3 DEF NewClientSession, ReqAt, Goes, IInv, TypeInv
  <2>3. q.new # None
    BY <2>1, <2>2 DEF IInv, WaitInv
  <2> HIDE DEF q
  <2> QED BY <1>0, <1>1, <2>1, <2>2, <2>3, ReqMoves
<1>4. CASE SetSessionCookie(r)
  <2>1. Idle \in Requests /\ Idle.pc = "idle" /\ Idle.new = None
    BY DEF Idle, Requests
  <2>2. req[r].pc = "refresh" /\ req' = [req EXCEPT ![r] = Idle] /\ cookie' = NewID(r)
    BY <1>4 DEF SetSessionCookie, ReqAt
  <2>3. NewID(r) \in SessionIDs
    BY <2>2 DEF IInv, TypeInv, WaitInv, Requests, NewID, SessionIDs
  <2> QED BY <1>0, <1>1, <2>1, <2>2, <2>3, ReqMoves
<1> QED BY <1>2, <1>3, <1>4

\* When the web server ends, its requests end with it.
LEMMA PanicStep ==
    ASSUME IInv, NEW x \in Senders, NEW t \in Tabs, SendPanics(x, t) PROVE IInv'
<1>0. /\ req' = [r \in Reqs |-> Idle] /\ UNCHANGED <<sessions, cookie, conn, used>>
  BY DEF SendPanics, hubVars
<1>1. Idle \in Requests /\ Idle.pc = "idle" /\ Idle.new = None
  BY DEF Idle, Requests
<1>2. \A c \in Conns : c # None
  BY DEF Conns, None
<1>3. TypeInv' /\ TableInv' /\ WaitInv'
  BY <1>0, <1>1 DEF IInv, TypeInv, TableInv, WaitInv
<1>4. FreshInv' /\ OwnerInv'
  BY <1>0, <1>1, <1>2 DEF IInv, FreshInv, OwnerInv, Owns
<1> QED BY <1>3, <1>4 DEF IInv

\* Every step keeps the invariant.
LEMMA NextInv == ASSUME IInv, [Next]_vars PROVE IInv'
<1>0. used \in [conns : 0..MaxConns, inputs : Nat]
  BY DEF IInv, TypeInv
<1>1. ASSUME UNCHANGED <<sessionVars, conn, used>> PROVE IInv'
  BY <1>0, <1>1, Frame DEF sessionVars
<1>2. ASSUME UNCHANGED <<sessionVars, conn>>, used' = [used EXCEPT !.inputs = @ + 1] PROVE IInv'
  <2>1. used' \in [conns : 0..MaxConns, inputs : Nat] /\ used'.conns = used.conns
    BY <1>0, <1>2
  <2> QED BY <1>2, <2>1, Frame DEF sessionVars
<1>3. ASSUME NEW r \in Reqs, Route(r) PROVE IInv'
  <2>1. CASE AddSessionToContext(r) \/ PostLogin(r)
    BY <2>1, ConnectsStep DEF AddSessionToContext, PostLogin, ReqAt
  <2> QED BY <1>3, <2>1, PlainReqSteps DEF Route
<1>4. ASSUME NEW r \in Reqs, ReqStep(r) PROVE IInv'
  BY <1>4, CloseStep, CloseSessionStep, InsertStep, PlainReqSteps DEF ReqStep
<1>5. ASSUME NEW c \in Conns, Reconnects(c) \/ OnConnectChange(c) \/ OnEvent(c) PROVE IInv'
  BY <1>1, <1>2, <1>5 DEF Reconnects, OnConnectChange, OnEvent, hubVars
<1>6. ASSUME NEW x \in Senders, SenderStep(x) PROVE IInv'
  <2>1. ASSUME SendSSE(x) \/ \E t \in Tabs : SendOne(x, t) PROVE IInv'
    BY <1>1, <2>1 DEF SendSSE, SendOne, hubVars
  <2> QED BY <1>6, <2>1, PanicStep DEF SenderStep
<1>7. ASSUME NEW t \in Tabs, SseHandler(t) \/ TabStep(t) PROVE IInv'
  BY <1>1, <1>7 DEF SseHandler, TabStep, AddSSEClient, AddSSEClientStore, StreamClosed,
                    StreamLeft, RemoveSSEClient, RemoveSSEClientStore, hubVars
<1>8. CASE UNCHANGED vars
  BY <1>1, <1>8 DEF vars, hubVars
<1> QED BY <1>3, <1>4, <1>5, <1>6, <1>7, <1>8 DEF Next

\* In the beginning nobody has a connection.
LEMMA InitInv == ASSUME Init PROVE IInv
<1>1. Idle \in Requests /\ Idle.pc = "idle" /\ Idle.new = None
  BY DEF Idle, Requests
<1>2. \A c \in Conns : c # None
  BY DEF Conns, None
<1>3. /\ \A r \in Reqs : req[r] = Idle
      /\ \A sid \in SessionIDs : sessions[sid] = None
  BY DEF Init
<1>4. TypeInv
  <2>1. OldID \in SessionIDs
    BY DEF SessionIDs
  <2>2. used \in [conns : 0..MaxConns, inputs : Nat]
    BY WebSessionAssumption DEF Init
  <2> QED BY <1>1, <2>1, <2>2 DEF Init, TypeInv
<1>5. FreshInv /\ OwnerInv
  BY <1>1, <1>2, <1>3 DEF FreshInv, OwnerInv, Owns
<1>6. TableInv /\ WaitInv
  BY <1>1, <1>3 DEF TableInv, WaitInv
<1> QED BY <1>4, <1>5, <1>6 DEF IInv

\* The invariant is inductive.
THEOREM Invariance == Spec => []IInv
<1>1. Init => IInv
  BY InitInv
<1>2. IInv /\ [Next]_vars => IInv'
  BY NextInv
<1> QED BY <1>1, <1>2, PTL DEF Spec

\* A session that requests can find has its hub connection, for any number of requests
\* that log in, reconnect and log out with the same cookie.
THEOREM ListedIsOpenHolds == Spec => []ListedIsOpen
<1>1. IInv => ListedIsOpen
  BY DEF IInv, TableInv, ListedIsOpen
<1> QED BY <1>1, Invariance, PTL

\* No writer waits for the mutex of a session that was closed, so that the streams of
\* the session can leave, for any number of streams.
THEOREM ClosedCanLeaveHolds == Spec => []ClosedCanLeave
<1>1. ASSUME IInv PROVE ClosedCanLeave
  BY <1>1 DEF IInv, TableInv, WaitInv, ClosedCanLeave, WriterWaits
<1> QED BY <1>1, Invariance, PTL

-----------------------------------------------------------------------------
(* The streams and their senders, as long as no browser has gone away.       *)

TabStates == [pc : {"none", "add", "store", "loop", "remove", "end"},
              session : Conns \union {None}, list : SUBSET Tabs]

SenderStates == [pc : {"idle", "lock", "send"}, session : Conns \union {None},
                 left : Nat, todo : SUBSET Tabs]

\* The stream of tab t is open and belongs to session c.
Listens(t, c, ch, tb) == ch[t] = "open" /\ tb[t].pc = "loop" /\ tb[t].session = c

\* A read lock of a session is held by a handler that adds its stream to the list, by
\* SendSSE, or by onEvent around its messages.
Locks == ({"list"} \X Tabs) \union ({"send", "event"} \X Senders)

Holds(h, c, tb, sn) ==
    \/ h[1] = "list" /\ tb[h[2]].pc = "store" /\ tb[h[2]].session = c
    \/ h[1] = "send" /\ sn[h[2]].pc = "send" /\ sn[h[2]].session = c
    \/ h[1] = "event" /\ h[2][1] = "event" /\ sn[h[2]].pc # "idle" /\ sn[h[2]].session = c

Holders(c, tb, sn) == {h \in Locks : Holds(h, c, tb, sn)}

Counts(S, n) == IsFiniteSet(S) /\ Cardinality(S) = n

\* Whoever is at work has a session.
TabOK(r) == r.pc \in {"add", "store", "loop", "remove"} => r.session \in Conns

SenderOK(m) == m.pc # "idle" => m.session \in Conns /\ m.left > 0

StreamTypes ==
    /\ readers \in [Conns -> Nat]
    /\ clients \in [Conns -> SUBSET Tabs]
    /\ channel \in [Tabs -> {"open", "closed"}]
    /\ tab \in [Tabs -> TabStates] /\ \A t \in Tabs : TabOK(tab[t])
    /\ sender \in [Senders -> SenderStates] /\ \A x \in Senders : SenderOK(sender[x])

\* What a session lists, what a handler has read of its list, and what a sender has yet to
\* send to are open streams of that session.
ListsInv ==
    /\ \A c \in Conns : \A t \in clients[c] : Listens(t, c, channel, tab)
    /\ \A u \in Tabs : tab[u].pc = "store" =>
          \A t \in tab[u].list : Listens(t, tab[u].session, channel, tab)
    /\ \A x \in Senders : sender[x].pc = "send" =>
          \A t \in sender[x].todo : Listens(t, sender[x].session, channel, tab)

\* A stream is closed after it was listed, and it is greeted once.
StreamsInv ==
    \A t \in Tabs :
       /\ channel[t] = "closed" => tab[t].pc \in {"loop", "remove", "end"}
       /\ tab[t].pc \in {"none", "add", "store"} => sender[<<"greeting", t>>].pc = "idle"

CountInv == \A c \in Conns : Counts(Holders(c, tab, sender), readers[c])

StreamParts == process = "running" /\ StreamTypes /\ ListsInv /\ StreamsInv /\ CountInv

StreamInv == gone = {} => StreamParts

\* The locks of a handler in state r, and of sender x in state m.
ListLocks(r) == IF r.pc = "store" THEN 1 ELSE 0
SendLocks(m) == IF m.pc = "send" THEN 1 ELSE 0
EventLocks(x, m) == IF x[1] = "event" /\ m.pc # "idle" THEN 1 ELSE 0

\* The holders S of a session, with t in state r or with x in state m.
ListFlip(S, t, r) == IF r.pc = "store" THEN S \union {<<"list", t>>} ELSE S \ {<<"list", t>>}
SendFlip(S, x, m) == IF m.pc = "send" THEN S \union {<<"send", x>>} ELSE S \ {<<"send", x>>}
EventFlip(S, x, m) == IF x[1] = "event" /\ m.pc # "idle" THEN S \union {<<"event", x>>}
                      ELSE S \ {<<"event", x>>}

\* Sender x, or the handler of tab t, is the only one that changes, and session c is its own.
SenderTo(sn, sn2, x, m, c) ==
    /\ sn \in [Senders -> SenderStates] /\ x \in Senders /\ sn2 = [sn EXCEPT ![x] = m]
    /\ m.pc # "idle" => m.session = c
TabTo(tb, tb2, t, r, c) ==
    /\ tb \in [Tabs -> TabStates] /\ t \in Tabs /\ tb2 = [tb EXCEPT ![t] = r]
    /\ r.pc = "store" => r.session = c

\* Taking or releasing one lock.
LEMMA LockCounts ==
    ASSUME NEW S, NEW n \in Nat, Counts(S, n), NEW k
    PROVE  /\ k \in S => n > 0
           /\ k \in S => Counts(S \union {k}, n) /\ Counts(S \ {k}, n - 1)
           /\ k \notin S => Counts(S \union {k}, n + 1) /\ Counts(S \ {k}, n)
<1>1. IsFiniteSet(S) /\ Cardinality(S) = n
  BY DEF Counts
<1>2. IsFiniteSet(S \union {k}) /\ Cardinality(S \union {k}) = IF k \in S THEN n ELSE n + 1
  BY <1>1, FS_AddElement
<1>3. IsFiniteSet(S \ {k}) /\ Cardinality(S \ {k}) = IF k \in S THEN n - 1 ELSE n
  BY <1>1, FS_RemoveElement
<1>4. k \in S => n > 0
  BY <1>1, FS_EmptySet
<1> QED BY <1>2, <1>3, <1>4 DEF Counts

\* The locks of a sender that goes from one state to another.
LEMMA SenderHolds ==
    ASSUME NEW tb, NEW sn, NEW sn2, NEW x, NEW m, NEW c, SenderTo(sn, sn2, x, m, c)
    PROVE  Holders(c, tb, sn2) =
              EventFlip(SendFlip(Holders(c, tb, sn), x, m), x, m)
<1> DEFINE S == Holders(c, tb, sn)
           G == EventFlip(SendFlip(S, x, m), x, m)
<1>1. <<"send", x>> \in Locks /\ <<"event", x>> \in Locks
  BY DEF Locks, SenderTo
<1>2. /\ \A y \in Senders : sn2[y] = IF y = x THEN m ELSE sn[y]
      /\ m.pc # "idle" => m.session = c
  BY DEF SenderTo
<1>3. G \subseteq Locks
  BY <1>1 DEF SendFlip, EventFlip, Holders
<1>4. ASSUME NEW h \in Locks PROVE h \in Holders(c, tb, sn2) <=> h \in G
  <2>1. h \in G <=> IF h = <<"event", x>> THEN x[1] = "event" /\ m.pc # "idle"
                    ELSE IF h = <<"send", x>> THEN m.pc = "send" ELSE Holds(h, c, tb, sn)
    BY DEF SendFlip, EventFlip, Holders
  <2> HIDE DEF G
  <2>2. CASE \E t \in Tabs : h = <<"list", t>>
    BY <2>1, <2>2 DEF Holders, Holds
  <2>3. CASE \E y \in Senders : h = <<"send", y>>
    BY <1>2, <2>1, <2>3 DEF Holders, Holds
  <2>4. CASE \E y \in Senders : h = <<"event", y>>
    BY <1>2, <2>1, <2>4 DEF Holders, Holds
  <2> QED BY <2>2, <2>3, <2>4 DEF Locks
<1>5. Holders(c, tb, sn2) \subseteq Locks
  BY DEF Holders
<1> HIDE DEF G
<1>6. Holders(c, tb, sn2) = G
  BY <1>3, <1>4, <1>5
<1> QED BY <1>6 DEF G

\* The lock of a stream handler that goes from one state to another.
LEMMA TabHolds ==
    ASSUME NEW tb, NEW tb2, NEW sn, NEW t, NEW r, NEW c, TabTo(tb, tb2, t, r, c)
    PROVE  Holders(c, tb2, sn) = ListFlip(Holders(c, tb, sn), t, r)
<1> DEFINE G == ListFlip(Holders(c, tb, sn), t, r)
<1>1. <<"list", t>> \in Locks
  BY DEF Locks, TabTo
<1>2. /\ \A u \in Tabs : tb2[u] = IF u = t THEN r ELSE tb[u]
      /\ r.pc = "store" => r.session = c
  BY DEF TabTo
<1>3. G \subseteq Locks
  BY <1>1 DEF ListFlip, Holders
<1>4. ASSUME NEW h \in Locks PROVE h \in Holders(c, tb2, sn) <=> h \in G
  <2>1. h \in G <=> IF h = <<"list", t>> THEN r.pc = "store" ELSE Holds(h, c, tb, sn)
    BY DEF ListFlip, Holders
  <2> HIDE DEF G
  <2>2. CASE \E u \in Tabs : h = <<"list", u>>
    BY <1>2, <2>1, <2>2 DEF Holders, Holds
  <2>3. CASE \E y \in Senders : h = <<"send", y>> \/ h = <<"event", y>>
    BY <2>1, <2>3 DEF Holders, Holds
  <2> QED BY <2>2, <2>3 DEF Locks
<1>5. Holders(c, tb2, sn) \subseteq Locks
  BY DEF Holders
<1> HIDE DEF G
<1>6. Holders(c, tb2, sn) = G
  BY <1>3, <1>4, <1>5
<1> QED BY <1>6 DEF G

\* A step of one sender, which takes or releases the read locks of session d.
LEMMA SenderChanges ==
    ASSUME StreamParts, NEW x \in Senders, NEW m \in SenderStates, NEW d \in Conns,
           SenderOK(m), sender' = [sender EXCEPT ![x] = m],
           UNCHANGED <<clients, tab, channel, process>>,
           sender[x].pc # "idle" => sender[x].session = d,
           m.pc # "idle" => m.session = d,
           readers' = [readers EXCEPT ![d] = @ - SendLocks(sender[x]) + SendLocks(m)
                                             - EventLocks(x, sender[x]) + EventLocks(x, m)],
           m.pc = "send" => \A t \in m.todo : Listens(t, d, channel, tab),
           sender[x].pc # "idle" \/ x[1] # "greeting"
    PROVE  StreamParts'
<1> DEFINE ks == <<"send", x>>
           ke == <<"event", x>>
           old == sender[x]
<1>1. /\ sender \in [Senders -> SenderStates] /\ readers \in [Conns -> Nat]
      /\ sender' \in [Senders -> SenderStates]
      /\ \A y \in Senders : sender'[y] = IF y = x THEN m ELSE sender[y]
  BY DEF StreamParts, StreamTypes
<1>0. /\ {SendLocks(m), SendLocks(old), EventLocks(x, m), EventLocks(x, old)} \subseteq 0..1
      /\ readers'[d] = readers[d] - SendLocks(old) + SendLocks(m) - EventLocks(x, old) + EventLocks(x, m)
  <2>1. {SendLocks(m), SendLocks(old), EventLocks(x, m), EventLocks(x, old)} \subseteq 0..1
    BY DEF SendLocks, EventLocks
  <2> QED BY <1>1, <2>1
<1>2. ks \in Locks /\ ke \in Locks /\ ks # ke
  BY DEF Locks
<1>3. /\ ks \in Holders(d, tab, sender) <=> old.pc = "send"
      /\ ke \in Holders(d, tab, sender) <=> x[1] = "event" /\ old.pc # "idle"
  BY <1>2 DEF Holders, Holds
<1>4. ASSUME NEW c \in Conns PROVE readers'[c] \in Nat /\ Counts(Holders(c, tab, sender'), readers'[c])
  <2> DEFINE S == Holders(c, tab, sender)
             n == readers[c]
  <2>1. n \in Nat /\ Counts(S, n)
    BY <1>1 DEF StreamParts, CountInv
  <2>2. CASE c = d
    <3> DEFINE F == SendFlip(S, x, m)
               k == n - SendLocks(old) + SendLocks(m)
               j == k - EventLocks(x, old) + EventLocks(x, m)
    <3>1. k \in Nat /\ Counts(F, k)
      <4>1. ks \in S <=> old.pc = "send"
        BY <1>3, <2>2
      <4> HIDE DEF S, n
      <4>2. /\ ks \in S => n > 0 /\ Counts(S \union {ks}, n) /\ Counts(S \ {ks}, n - 1)
            /\ ks \notin S => Counts(S \union {ks}, n + 1) /\ Counts(S \ {ks}, n)
        BY <2>1, LockCounts, Zenon
      <4> QED BY <2>1, <4>1, <4>2 DEF SendLocks, SendFlip
    <3>2. j \in Nat /\ Counts(EventFlip(F, x, m), j)
      <4>1. ke \in F <=> x[1] = "event" /\ old.pc # "idle"
        BY <1>2, <1>3, <2>2 DEF SendFlip
      <4> HIDE DEF F, k
      <4>2. /\ ke \in F => k > 0 /\ Counts(F \union {ke}, k) /\ Counts(F \ {ke}, k - 1)
            /\ ke \notin F => Counts(F \union {ke}, k + 1) /\ Counts(F \ {ke}, k)
        BY <3>1, LockCounts, Zenon
      <4> QED BY <3>1, <4>1, <4>2 DEF EventLocks, EventFlip
    <3>3. Holders(c, tab, sender') = EventFlip(F, x, m)
      <4>1. SenderTo(sender, sender', x, m, c)
        BY <1>1, <2>2 DEF SenderTo
      <4> QED BY <4>1, SenderHolds
    <3>4. readers'[c] = j
      BY <1>0, <2>1, <2>2
    <3> QED BY <3>2, <3>3, <3>4
  <2>3. CASE c # d
    <3>1. \A h \in Locks : Holds(h, c, tab, sender') <=> Holds(h, c, tab, sender)
      <4>1. ASSUME NEW h \in Locks PROVE Holds(h, c, tab, sender') <=> Holds(h, c, tab, sender)
        <5>1. CASE h[1] = "list"
          BY <5>1 DEF Holds
        <5>2. CASE h[1] # "list"
          <6>1. h[2] \in Senders
            BY <5>2 DEF Locks
          <6> QED BY <1>1, <2>3, <5>2, <6>1 DEF Holds
        <5> QED BY <5>1, <5>2
      <4> QED BY <4>1
    <3>2. Holders(c, tab, sender') = S
      BY <3>1 DEF Holders
    <3>3. readers'[c] = n
      BY <1>1, <2>3
    <3> QED BY <2>1, <3>2, <3>3
  <2> QED BY <2>2, <2>3
<1>5. StreamTypes'
  <2>1. readers' \in [Conns -> Nat]
    BY <1>1, <1>4
  <2> QED BY <1>1, <2>1 DEF StreamParts, StreamTypes
<1>6. ListsInv'
  BY <1>1 DEF StreamParts, ListsInv
<1>7. StreamsInv'
  <2>1. ASSUME NEW t \in Tabs PROVE <<"greeting", t>> \in Senders /\ (<<"greeting", t>> = x => x[1] = "greeting")
    BY DEF Senders
  <2> QED BY <1>1, <2>1 DEF StreamParts, StreamsInv
<1>8. CountInv'
  BY <1>4 DEF CountInv
<1> QED BY <1>5, <1>6, <1>7, <1>8 DEF StreamParts

\* A step of one stream handler, which takes or keeps the read lock of session d.
LEMMA TabChanges ==
    ASSUME StreamParts, NEW t \in Tabs, NEW r \in TabStates, NEW d \in Conns,
           TabOK(r), tab' = [tab EXCEPT ![t] = r],
           UNCHANGED <<clients, sender, channel, process>>,
           tab[t].pc # "store", r.pc = "store" => r.session = d,
           readers' = [readers EXCEPT ![d] = @ + ListLocks(r)],
           tab[t].pc = "loop" => channel[t] = "closed",
           r.pc = "store" => \A u \in r.list : Listens(u, d, channel, tab),
           r.pc \in {"none", "add", "store"} => tab[t].pc \in {"none", "add"},
           channel[t] = "closed" => r.pc \in {"loop", "remove", "end"}
    PROVE  StreamParts'
<1> DEFINE k == <<"list", t>>
<1>1. /\ tab \in [Tabs -> TabStates] /\ readers \in [Conns -> Nat]
      /\ tab' \in [Tabs -> TabStates]
      /\ \A u \in Tabs : tab'[u] = IF u = t THEN r ELSE tab[u]
  BY DEF StreamParts, StreamTypes
<1>2. \A c \in Conns : k \notin Holders(c, tab, sender)
  BY DEF Holders, Holds
<1>3. ASSUME NEW c \in Conns PROVE readers'[c] \in Nat /\ Counts(Holders(c, tab', sender), readers'[c])
  <2> DEFINE S == Holders(c, tab, sender)
             n == readers[c]
  <2>1. n \in Nat /\ Counts(S, n)
    BY <1>1 DEF StreamParts, CountInv
  <2>2. CASE c = d
    <3>1. (n + ListLocks(r)) \in Nat /\ Counts(ListFlip(S, t, r), n + ListLocks(r))
      <4>1. k \notin S
        BY <1>2
      <4> HIDE DEF S, n
      <4>2. /\ k \in S => n > 0 /\ Counts(S \union {k}, n) /\ Counts(S \ {k}, n - 1)
            /\ k \notin S => Counts(S \union {k}, n + 1) /\ Counts(S \ {k}, n)
        BY <2>1, LockCounts, Zenon
      <4> QED BY <2>1, <4>1, <4>2 DEF ListLocks, ListFlip
    <3>2. Holders(c, tab', sender) = ListFlip(S, t, r)
      <4>1. TabTo(tab, tab', t, r, c)
        BY <1>1, <2>2 DEF TabTo
      <4> QED BY <4>1, TabHolds
    <3>3. readers'[c] = n + ListLocks(r)
      BY <1>1, <2>2
    <3> QED BY <3>1, <3>2, <3>3
  <2>3. CASE c # d
    <3>1. ASSUME NEW h \in Locks PROVE Holds(h, c, tab', sender) <=> Holds(h, c, tab, sender)
      <4>1. CASE h[1] = "list"
        <5>1. h[2] \in Tabs
          BY <4>1 DEF Locks
        <5> QED BY <1>1, <2>3, <4>1, <5>1 DEF Holds
      <4>2. CASE h[1] # "list"
        BY <4>2 DEF Holds
      <4> QED BY <4>1, <4>2
    <3>2. Holders(c, tab', sender) = S
      BY <3>1 DEF Holders
    <3>3. readers'[c] = n
      BY <1>1, <2>3
    <3> QED BY <2>1, <3>2, <3>3
  <2> QED BY <2>2, <2>3
<1>4. StreamTypes'
  <2>1. readers' \in [Conns -> Nat]
    BY <1>1, <1>3
  <2> QED BY <1>1, <2>1 DEF StreamParts, StreamTypes
<1>5. \A u, c : u \in Tabs /\ Listens(u, c, channel, tab) => Listens(u, c, channel', tab')
  BY <1>1 DEF Listens
<1>6. ListsInv'
  <2>1. \A c \in Conns : clients[c] \subseteq Tabs
    BY DEF StreamParts, StreamTypes
  <2>2. \A u \in Tabs : tab'[u].list \subseteq Tabs
    BY <1>1 DEF TabStates
  <2>3. \A x \in Senders : sender[x].todo \subseteq Tabs
    BY DEF StreamParts, StreamTypes, SenderStates
  <2>4. \A c \in Conns : \A u \in clients'[c] : Listens(u, c, channel', tab')
    BY <1>5, <2>1 DEF StreamParts, ListsInv
  <2>5. \A u \in Tabs : tab'[u].pc = "store" =>
          \A v \in tab'[u].list : Listens(v, tab'[u].session, channel', tab')
    <3> SUFFICES ASSUME NEW u \in Tabs, tab'[u].pc = "store", NEW v \in tab'[u].list
                 PROVE  Listens(v, tab'[u].session, channel, tab)
      BY <1>5, <2>2
    <3>1. CASE u = t
      BY <1>1, <3>1
    <3>2. CASE u # t
      BY <1>1, <3>2 DEF StreamParts, ListsInv
    <3> QED BY <3>1, <3>2
  <2>6. \A x \in Senders : sender'[x].pc = "send" =>
          \A u \in sender'[x].todo : Listens(u, sender'[x].session, channel', tab')
    BY <1>5, <2>3 DEF StreamParts, ListsInv
  <2> QED BY <2>4, <2>5, <2>6 DEF ListsInv
<1>7. StreamsInv'
  BY <1>1 DEF StreamParts, StreamsInv
<1>8. CountInv'
  BY <1>3 DEF CountInv
<1> QED BY <1>4, <1>6, <1>7, <1>8 DEF StreamParts

\* A message becomes the next one of the same sender, or its last, and the lock of SendSSE,
\* if it was taken, is released.
LEMMA MessageSentStep ==
    ASSUME StreamParts, NEW x \in Senders, sender[x].pc \in {"lock", "send"},
           MessageSent(x, SendLocks(sender[x])), UNCHANGED <<clients, tab, channel, process>>
    PROVE  StreamParts'
<1> DEFINE d == sender[x].session
           next == Sends(d, sender[x].left - 1)
           m == IF sender[x].left = 1 THEN Quiet ELSE next
<1>1. sender[x] \in SenderStates /\ d \in Conns /\ sender[x].left \in Nat /\ sender[x].left > 0
  BY DEF StreamParts, StreamTypes, SenderOK, SenderStates
<1>2. Quiet \in SenderStates /\ Quiet.pc = "idle"
  BY DEF Quiet, SenderStates
<1>3. sender[x].left # 1 => /\ next \in SenderStates /\ next.pc = "lock"
                            /\ next.session = d /\ next.left > 0
  <2>1. sender[x].left # 1 => sender[x].left - 1 \in Nat /\ sender[x].left - 1 > 0
    BY <1>1
  <2> QED BY <1>1, <2>1 DEF Sends, SenderStates
<1>4. /\ m \in SenderStates /\ SenderOK(m) /\ (m.pc # "idle" => m.session = d) /\ m.pc # "send"
      /\ m.pc = "idle" <=> sender[x].left = 1
  BY <1>1, <1>2, <1>3 DEF SenderOK
<1>5. sender' = [sender EXCEPT ![x] = m]
  BY DEF MessageSent
<1>6. readers' = [readers EXCEPT ![d] = @ - SendLocks(sender[x]) + SendLocks(m)
                                           - EventLocks(x, sender[x]) + EventLocks(x, m)]
  <2>1. readers \in [Conns -> Nat]
    BY DEF StreamParts, StreamTypes
  <2>2. PICK o \in {0, 1} : /\ o = IF sender[x].left = 1 /\ x[1] = "event" THEN 1 ELSE 0
                            /\ readers' = [readers EXCEPT ![d] = @ - o - SendLocks(sender[x])]
    BY DEF MessageSent
  <2> HIDE DEF m
  <2>3. SendLocks(m) = 0 /\ SendLocks(sender[x]) \in {0, 1} /\ o = EventLocks(x, sender[x]) - EventLocks(x, m)
        /\ EventLocks(x, sender[x]) \in {0, 1} /\ EventLocks(x, m) \in {0, 1}
    BY <1>4, <2>2 DEF SendLocks, EventLocks
  <2> HIDE DEF d
  <2>4. readers[d] - o - SendLocks(sender[x])
          = readers[d] - SendLocks(sender[x]) + SendLocks(m) - EventLocks(x, sender[x]) + EventLocks(x, m)
    BY <1>1, <2>1, <2>3
  <2> QED BY <2>2, <2>4
<1> HIDE DEF m
<1> QED BY <1>1, <1>4, <1>5, <1>6, SenderChanges

\* The steps of senders, none of which meets a closed channel.
LEMMA SenderSteps ==
    ASSUME StreamParts, NEW x \in Senders, SenderStep(x)
    PROVE  StreamParts'
<1>0. /\ sender[x] \in SenderStates /\ SenderOK(sender[x]) /\ readers \in [Conns -> Nat]
      /\ clients \in [Conns -> SUBSET Tabs] /\ sender \in [Senders -> SenderStates]
  BY DEF StreamParts, StreamTypes
<1>1. CASE SendSSE(x)
  <2> DEFINE c == sender[x].session
             m == [sender[x] EXCEPT !.pc = "send", !.todo = clients[c]]
  <2>1. sender[x].pc = "lock" /\ c \in Conns /\ sender[x].left > 0 /\ UNCHANGED <<clients, tab, channel, process>>
    BY <1>0, <1>1 DEF SendSSE, SenderOK
  <2>2. CASE clients[c] = {}
    <3>1. MessageSent(x, 0) /\ SendLocks(sender[x]) = 0
      BY <1>1, <2>1, <2>2 DEF SendSSE, SendLocks
    <3> QED BY <2>1, <3>1, MessageSentStep
  <2>3. CASE clients[c] # {}
    <3>1. /\ readers' = [readers EXCEPT ![c] = @ + 1]
          /\ sender' = [sender EXCEPT ![x].pc = "send", ![x].todo = clients[c]]
      BY <1>1, <2>3 DEF SendSSE, RLock
    <3>2. sender' = [sender EXCEPT ![x] = m]
      BY <1>0, <3>1
    <3>3. /\ m \in SenderStates /\ m.pc = "send" /\ m.session = c /\ m.left = sender[x].left
          /\ m.todo = clients[c]
      BY <1>0, <2>1 DEF SenderStates
    <3>4. SenderOK(m) /\ \A t \in m.todo : Listens(t, c, channel, tab)
      BY <2>1, <3>3 DEF StreamParts, ListsInv, SenderOK
    <3> HIDE DEF m
    <3>5. readers' = [readers EXCEPT ![c] = @ - SendLocks(sender[x]) + SendLocks(m)
                                               - EventLocks(x, sender[x]) + EventLocks(x, m)]
      <4>1. /\ SendLocks(sender[x]) = 0 /\ SendLocks(m) = 1
            /\ EventLocks(x, sender[x]) = EventLocks(x, m) /\ EventLocks(x, m) \in {0, 1}
        BY <2>1, <3>3 DEF SendLocks, EventLocks
      <4>2. readers[c] + 1 = readers[c] - SendLocks(sender[x]) + SendLocks(m)
                               - EventLocks(x, sender[x]) + EventLocks(x, m)
        BY <1>0, <2>1, <4>1
      <4> QED BY <3>1, <4>2
    <3> QED BY <2>1, <3>2, <3>3, <3>4, <3>5, SenderChanges
  <2> QED BY <2>2, <2>3
<1>2. ASSUME NEW t \in Tabs, SendOne(x, t) PROVE StreamParts'
  <2> DEFINE c == sender[x].session
             m == [sender[x] EXCEPT !.todo = @ \ {t}]
  <2>1. /\ sender[x].pc = "send" /\ c \in Conns /\ sender[x].left > 0
        /\ UNCHANGED <<clients, tab, channel, process>>
    BY <1>0, <1>2 DEF SendOne, SenderOK
  <2>2. CASE sender[x].todo # {t}
    <3>1. sender' = [sender EXCEPT ![x].todo = @ \ {t}] /\ UNCHANGED readers
      BY <1>2, <2>2 DEF SendOne
    <3>2. sender' = [sender EXCEPT ![x] = m]
      BY <1>0, <3>1
    <3>3. /\ m \in SenderStates /\ m.pc = "send" /\ m.session = c /\ m.left = sender[x].left
          /\ m.todo \subseteq sender[x].todo
      BY <1>0, <2>1 DEF SenderStates
    <3>4. SenderOK(m) /\ \A u \in m.todo : Listens(u, c, channel, tab)
      BY <2>1, <3>3 DEF StreamParts, ListsInv, SenderOK
    <3> HIDE DEF m
    <3>5. readers' = [readers EXCEPT ![c] = @ - SendLocks(sender[x]) + SendLocks(m)
                                               - EventLocks(x, sender[x]) + EventLocks(x, m)]
      <4>1. /\ SendLocks(sender[x]) = SendLocks(m) /\ SendLocks(m) \in {0, 1}
            /\ EventLocks(x, sender[x]) = EventLocks(x, m) /\ EventLocks(x, m) \in {0, 1}
        BY <2>1, <3>3 DEF SendLocks, EventLocks
      <4>2. readers[c] = readers[c] - SendLocks(sender[x]) + SendLocks(m)
                               - EventLocks(x, sender[x]) + EventLocks(x, m)
        BY <1>0, <2>1, <4>1
      <4> QED BY <1>0, <3>1, <4>2
    <3> QED BY <2>1, <3>2, <3>3, <3>4, <3>5, SenderChanges
  <2>3. CASE sender[x].todo = {t}
    <3>1. MessageSent(x, 1) /\ SendLocks(sender[x]) = 1
      BY <1>2, <2>1, <2>3 DEF SendOne, SendLocks
    <3> QED BY <2>1, <3>1, MessageSentStep
  <2> QED BY <2>2, <2>3
<1>3. ASSUME NEW t \in Tabs, SendPanics(x, t) PROVE FALSE
  BY <1>3 DEF SendPanics, StreamParts, ListsInv, Listens
<1> QED BY <1>1, <1>2, <1>3 DEF SenderStep

\* The callbacks of a connection begin to send.
LEMMA CallbackSteps ==
    ASSUME StreamParts, NEW c \in Conns, OnConnectChange(c) \/ OnEvent(c)
    PROVE  StreamParts'
<1>0. /\ sender \in [Senders -> SenderStates] /\ readers \in [Conns -> Nat]
      /\ UNCHANGED <<clients, tab, channel, process>>
  BY DEF StreamParts, StreamTypes, OnConnectChange, OnEvent
<1>1. ASSUME NEW n \in Nat, n > 0
      PROVE  /\ Sends(c, n) \in SenderStates /\ Sends(c, n).pc = "lock" /\ Sends(c, n).session = c
             /\ SenderOK(Sends(c, n))
  BY <1>1 DEF Sends, SenderStates, SenderOK
<1>2. CASE OnConnectChange(c)
  <2> DEFINE x == <<"status", c>>
             m == Sends(c, 1)
  <2>1. x \in Senders /\ x[1] = "status" /\ sender[x].pc = "idle" /\ UNCHANGED readers
    BY <1>2 DEF OnConnectChange, Senders
  <2>2. m \in SenderStates /\ m.pc = "lock" /\ m.session = c /\ SenderOK(m)
    BY <1>1
  <2>3. sender' = sender \/ sender' = [sender EXCEPT ![x] = m]
    BY <1>2 DEF OnConnectChange
  <2> HIDE DEF x, m
  <2>4. readers' = [readers EXCEPT ![c] = @ - SendLocks(sender[x]) + SendLocks(m)
                                             - EventLocks(x, sender[x]) + EventLocks(x, m)]
    BY <1>0, <2>1, <2>2 DEF SendLocks, EventLocks
  <2>5. CASE sender' = [sender EXCEPT ![x] = m]
    BY <1>0, <2>1, <2>2, <2>4, <2>5, SenderChanges
  <2>6. CASE sender' = sender
    BY <1>0, <2>1, <2>6 DEF StreamParts, StreamTypes, ListsInv, StreamsInv, CountInv
  <2> QED BY <2>3, <2>5, <2>6
<1>3. CASE OnEvent(c)
  <2> DEFINE x == <<"event", c>>
  <2>1. PICK n \in 1..MaxSends : sender' = [sender EXCEPT ![x] = Sends(c, n)]
    BY <1>3 DEF OnEvent
  <2> DEFINE m == Sends(c, n)
  <2>2. /\ x \in Senders /\ x[1] = "event" /\ sender[x].pc = "idle"
        /\ readers' = [readers EXCEPT ![c] = @ + 1]
    BY <1>3 DEF OnEvent, Delivers, RLock, Senders
  <2>3. m \in SenderStates /\ m.pc = "lock" /\ m.session = c /\ SenderOK(m)
    <3>1. n \in Nat /\ n > 0
      BY WebSessionAssumption
    <3> QED BY <1>1, <3>1
  <2>4. sender' = [sender EXCEPT ![x] = m]
    BY <2>1
  <2> HIDE DEF x, m
  <2>5. readers' = [readers EXCEPT ![c] = @ - SendLocks(sender[x]) + SendLocks(m)
                                             - EventLocks(x, sender[x]) + EventLocks(x, m)]
    <3>1. /\ SendLocks(sender[x]) = 0 /\ SendLocks(m) = 0
          /\ EventLocks(x, sender[x]) = 0 /\ EventLocks(x, m) = 1
      BY <2>2, <2>3 DEF SendLocks, EventLocks
    <3>2. readers[c] + 1 = readers[c] - SendLocks(sender[x]) + SendLocks(m)
                             - EventLocks(x, sender[x]) + EventLocks(x, m)
      BY <1>0, <3>1
    <3> QED BY <2>2, <3>2
  <2> QED BY <1>0, <2>2, <2>3, <2>4, <2>5, SenderChanges
<1> QED BY <1>2, <1>3

\* The steps of the handler of a stream that stays: it never finds itself in the list when it
\* has been closed, so that it has nothing to remove.
LEMMA TabSteps ==
    ASSUME StreamParts, TypeInv, NEW t \in Tabs,
           SseHandler(t) \/ AddSSEClient(t) \/ StreamClosed(t) \/ RemoveSSEClient(t)
    PROVE  StreamParts'
<1>0. /\ tab[t] \in TabStates /\ TabOK(tab[t]) /\ readers \in [Conns -> Nat]
      /\ clients \in [Conns -> SUBSET Tabs] /\ tab \in [Tabs -> TabStates]
      /\ UNCHANGED <<clients, sender, channel, process>>
  BY DEF StreamParts, StreamTypes, SseHandler, AddSSEClient, StreamClosed, RemoveSSEClient
<1>1. CASE SseHandler(t)
  <2> DEFINE d == sessions[cookie]
             r == [tab[t] EXCEPT !.pc = "add", !.session = d]
  <2>1. /\ tab[t].pc = "none" /\ d \in Conns /\ UNCHANGED readers
        /\ tab' = [tab EXCEPT ![t].pc = "add", ![t].session = d]
    BY <1>1 DEF SseHandler, TabAt, Found, TypeInv
  <2>2. tab' = [tab EXCEPT ![t] = r] /\ r \in TabStates /\ r.pc = "add" /\ r.session = d
    BY <1>0, <2>1 DEF TabStates
  <2>3. channel[t] # "closed"
    BY <2>1 DEF StreamParts, StreamsInv
  <2> HIDE DEF r, d
  <2>4. TabOK(r) /\ readers' = [readers EXCEPT ![d] = @ + ListLocks(r)]
    BY <1>0, <2>1, <2>2 DEF TabOK, ListLocks
  <2> QED BY <1>0, <2>1, <2>2, <2>3, <2>4, TabChanges
<1>2. CASE AddSSEClient(t)
  <2> DEFINE d == tab[t].session
             r == [tab[t] EXCEPT !.pc = "store", !.list = clients[d]]
  <2>1. /\ tab[t].pc = "add" /\ d \in Conns /\ readers' = [readers EXCEPT ![d] = @ + 1]
        /\ tab' = [tab EXCEPT ![t].pc = "store", ![t].list = clients[d]]
    BY <1>0, <1>2 DEF AddSSEClient, TabAt, RLock, TabOK
  <2>2. /\ tab' = [tab EXCEPT ![t] = r] /\ r \in TabStates /\ r.pc = "store" /\ r.session = d
        /\ r.list = clients[d]
    BY <1>0, <2>1 DEF TabStates
  <2>3. channel[t] # "closed"
    BY <2>1 DEF StreamParts, StreamsInv
  <2>4. \A u \in r.list : Listens(u, d, channel, tab)
    BY <2>1, <2>2 DEF StreamParts, ListsInv
  <2> HIDE DEF r, d
  <2>5. TabOK(r) /\ readers' = [readers EXCEPT ![d] = @ + ListLocks(r)]
    BY <1>0, <2>1, <2>2 DEF TabOK, ListLocks
  <2> QED BY <1>0, <2>1, <2>2, <2>3, <2>4, <2>5, TabChanges
<1>3. CASE StreamClosed(t)
  <2> DEFINE d == tab[t].session
             r == [tab[t] EXCEPT !.pc = "remove"]
  <2>1. /\ tab[t].pc = "loop" /\ channel[t] = "closed" /\ d \in Conns /\ UNCHANGED readers
        /\ tab' = [tab EXCEPT ![t].pc = "remove"]
    BY <1>0, <1>3 DEF StreamClosed, TabAt, TabGoes, TabOK
  <2>2. tab' = [tab EXCEPT ![t] = r] /\ r \in TabStates /\ r.pc = "remove" /\ r.session = d
    BY <1>0, <2>1 DEF TabStates
  <2> HIDE DEF r, d
  <2>3. TabOK(r) /\ readers' = [readers EXCEPT ![d] = @ + ListLocks(r)]
    BY <1>0, <2>1, <2>2 DEF TabOK, ListLocks
  <2> QED BY <1>0, <2>1, <2>2, <2>3, TabChanges
<1>4. CASE RemoveSSEClient(t)
  <2> DEFINE d == tab[t].session
             r == [NoTab EXCEPT !.pc = "end"]
  <2>1. tab[t].pc = "remove" /\ d \in Conns
    BY <1>0, <1>4 DEF RemoveSSEClient, TabAt, TabOK
  <2>2. t \notin clients[d]
    BY <2>1 DEF StreamParts, ListsInv, Listens
  <2>3. tab' = [tab EXCEPT ![t] = r] /\ UNCHANGED readers
    BY <1>4, <2>2 DEF RemoveSSEClient, TabEnds
  <2>4. r \in TabStates /\ r.pc = "end"
    BY DEF NoTab, TabStates
  <2> HIDE DEF r, d
  <2>5. TabOK(r) /\ readers' = [readers EXCEPT ![d] = @ + ListLocks(r)]
    BY <1>0, <2>1, <2>3, <2>4 DEF TabOK, ListLocks
  <2> QED BY <1>0, <2>1, <2>3, <2>4, <2>5, TabChanges
<1> QED BY <1>1, <1>2, <1>3, <1>4

\* The handler adds its stream to what it has read of the list, and greets.
LEMMA StoreStep ==
    ASSUME StreamParts, NEW t \in Tabs, AddSSEClientStore(t)
    PROVE  StreamParts'
<1> DEFINE d == tab[t].session
           x == <<"greeting", t>>
           m == Sends(d, 1)
<1>0. /\ tab[t] \in TabStates /\ TabOK(tab[t]) /\ readers \in [Conns -> Nat]
      /\ clients \in [Conns -> SUBSET Tabs] /\ tab \in [Tabs -> TabStates]
      /\ sender \in [Senders -> SenderStates] /\ \A u \in Tabs : TabOK(tab[u])
      /\ \A y \in Senders : SenderOK(sender[y])
      /\ channel \in [Tabs -> {"open", "closed"}]
  BY DEF StreamParts, StreamTypes
<1>1. /\ process = "running" /\ tab[t].pc = "store" /\ d \in Conns
      /\ clients' = [clients EXCEPT ![d] = tab[t].list \union {t}]
      /\ readers' = [readers EXCEPT ![d] = @ - 1]
      /\ tab' = [tab EXCEPT ![t].pc = "loop", ![t].list = {}]
      /\ sender' = [sender EXCEPT ![x] = m]
      /\ UNCHANGED <<channel, process>>
  BY <1>0 DEF AddSSEClientStore, TabAt, Running, RUnlock, TabOK
<1>2. x \in Senders /\ sender[x].pc = "idle" /\ channel[t] = "open"
  <2>1. channel[t] # "closed" /\ sender[x].pc = "idle"
    BY <1>1 DEF StreamParts, StreamsInv
  <2> QED BY <1>0, <2>1 DEF Senders
<1>3. m \in SenderStates /\ m.pc = "lock" /\ SenderOK(m)
  BY <1>1 DEF Sends, SenderStates, SenderOK
<1>4. /\ tab'[t] \in TabStates /\ tab'[t].pc = "loop" /\ tab'[t].session = d
      /\ \A u \in Tabs : u # t => tab'[u] = tab[u]
  BY <1>0, <1>1 DEF TabStates
<1>5. \A y \in Senders : sender'[y] = IF y = x THEN m ELSE sender[y]
  BY <1>0, <1>1
<1>6. <<"list", t>> \in Holders(d, tab, sender)
  BY <1>1 DEF Holders, Holds, Locks
<1>7. \A c \in Conns : \A h \in Locks :
         Holds(h, c, tab', sender') <=> (Holds(h, c, tab, sender) /\ h # <<"list", t>>)
  <2> HIDE DEF m, d
  <2> SUFFICES ASSUME NEW c \in Conns, NEW h \in Locks
               PROVE  Holds(h, c, tab', sender') <=> (Holds(h, c, tab, sender) /\ h # <<"list", t>>)
    OBVIOUS
  <2>1. CASE \E u \in Tabs : h = <<"list", u>>
    BY <1>4, <2>1 DEF Holds
  <2>2. CASE \E y \in Senders : h = <<"send", y>>
    BY <1>2, <1>3, <1>5, <2>2 DEF Holds
  <2>3. CASE \E y \in Senders : h = <<"event", y>>
    BY <1>2, <1>3, <1>5, <2>3 DEF Holds
  <2> QED BY <2>1, <2>2, <2>3 DEF Locks
<1>8. \A c \in Conns : Holders(c, tab', sender') = Holders(c, tab, sender) \ {<<"list", t>>}
  BY <1>7 DEF Holders
<1>9. CountInv' /\ readers' \in [Conns -> Nat]
  <2>1. ASSUME NEW c \in Conns PROVE Counts(Holders(c, tab', sender'), readers'[c]) /\ readers'[c] \in Nat
    <3> DEFINE S == Holders(c, tab, sender)
    <3>1. Counts(S, readers[c]) /\ readers[c] \in Nat
      BY <1>0 DEF StreamParts, CountInv
    <3>2. <<"list", t>> \in S <=> c = d
      BY <1>1, <1>6 DEF Holders, Holds
    <3> HIDE DEF S
    <3>3. /\ <<"list", t>> \in S => readers[c] > 0 /\ Counts(S \ {<<"list", t>>}, readers[c] - 1)
          /\ <<"list", t>> \notin S => Counts(S \ {<<"list", t>>}, readers[c])
      BY <3>1, LockCounts, Zenon
    <3>4. readers'[c] = IF c = d THEN readers[c] - 1 ELSE readers[c]
      BY <1>0, <1>1
    <3>5. Holders(c, tab', sender') = S \ {<<"list", t>>}
      BY <1>8 DEF S
    <3> HIDE DEF d
    <3>6. Counts(S \ {<<"list", t>>}, readers'[c]) /\ readers'[c] \in Nat
      BY <3>1, <3>2, <3>3, <3>4
    <3> QED BY <3>5, <3>6
  <2> QED BY <1>0, <1>1, <2>1 DEF CountInv
<1>10. StreamTypes'
  <2>1. clients' \in [Conns -> SUBSET Tabs]
    BY <1>0, <1>1 DEF TabStates
  <2>2. tab' \in [Tabs -> TabStates] /\ \A u \in Tabs : TabOK(tab'[u])
    BY <1>0, <1>1, <1>4 DEF TabOK
  <2>3. sender' \in [Senders -> SenderStates] /\ \A y \in Senders : SenderOK(sender'[y])
    BY <1>0, <1>1, <1>3, <1>5
  <2> QED BY <1>0, <1>1, <1>9, <2>1, <2>2, <2>3 DEF StreamTypes
<1> HIDE DEF m
<1>11. \A u \in Tabs, c \in Conns \union {None} :
          Listens(u, c, channel, tab) => Listens(u, c, channel', tab')
  BY <1>1, <1>4 DEF Listens
<1>12. ListsInv'
  <2>1. ASSUME NEW c \in Conns, NEW u \in clients'[c] PROVE Listens(u, c, channel', tab')
    <3>1. CASE u = t /\ c = d
      BY <1>1, <1>2, <1>4, <3>1 DEF Listens
    <3>2. CASE u # t \/ c # d
      <4>1. u \in Tabs /\ (u \in clients[c] \/ (c = d /\ u \in tab[t].list))
        BY <1>0, <1>1, <3>2, <2>1, <1>10 DEF StreamTypes
      <4>2. Listens(u, c, channel, tab)
        BY <1>1, <4>1 DEF StreamParts, ListsInv
      <4> QED BY <1>11, <4>1, <4>2
    <3> QED BY <3>1, <3>2
  <2>2. ASSUME NEW u \in Tabs, tab'[u].pc = "store", NEW v \in tab'[u].list
        PROVE  Listens(v, tab'[u].session, channel', tab')
    <3>1. u # t /\ tab'[u] = tab[u]
      BY <1>4, <2>2
    <3>2. tab[u] \in TabStates
      BY <1>0
    <3>3. v \in Tabs /\ tab[u].session \in Conns \union {None}
      BY <2>2, <3>1, <3>2 DEF TabStates
    <3>4. Listens(v, tab[u].session, channel, tab)
      BY <2>2, <3>1 DEF StreamParts, ListsInv
    <3> QED BY <1>11, <3>1, <3>3, <3>4
  <2>3. ASSUME NEW y \in Senders, sender'[y].pc = "send", NEW v \in sender'[y].todo
        PROVE  Listens(v, sender'[y].session, channel', tab')
    <3>1. y # x /\ sender'[y] = sender[y]
      BY <1>3, <1>5, <2>3
    <3>2. sender[y] \in SenderStates
      BY <1>0
    <3>3. v \in Tabs /\ sender[y].session \in Conns \union {None}
      BY <2>3, <3>1, <3>2 DEF SenderStates
    <3>4. Listens(v, sender[y].session, channel, tab)
      BY <2>3, <3>1 DEF StreamParts, ListsInv
    <3> QED BY <1>11, <3>1, <3>3, <3>4
  <2> QED BY <2>1, <2>2, <2>3 DEF ListsInv
<1>13. StreamsInv'
  <2> SUFFICES ASSUME NEW u \in Tabs
               PROVE  /\ channel'[u] = "closed" => tab'[u].pc \in {"loop", "remove", "end"}
                      /\ tab'[u].pc \in {"none", "add", "store"} => sender'[<<"greeting", u>>].pc = "idle"
    BY DEF StreamsInv
  <2>1. CASE u = t
    BY <1>4, <2>1
  <2>2. CASE u # t
    <3>1. <<"greeting", u>> \in Senders /\ <<"greeting", u>> # x
      BY <2>2 DEF Senders
    <3>2. tab'[u] = tab[u] /\ channel'[u] = channel[u] /\ sender'[<<"greeting", u>>] = sender[<<"greeting", u>>]
      BY <1>1, <1>4, <1>5, <2>2, <3>1
    <3> QED BY <3>2 DEF StreamParts, StreamsInv
  <2> QED BY <2>1, <2>2
<1> QED BY <1>1, <1>9, <1>10, <1>12, <1>13 DEF StreamParts

\* Nobody holds a read lock of the session that is closed, so that nobody has a channel in
\* hand that is closed with it.
LEMMA CloseStreams ==
    ASSUME StreamParts, IInv, NEW r \in Reqs, CloseSession(r)
    PROVE  StreamParts' /\ gone' = gone
<1> DEFINE d == sessions[req[r].sid]
<1>0. /\ readers \in [Conns -> Nat] /\ clients \in [Conns -> SUBSET Tabs]
      /\ channel \in [Tabs -> {"open", "closed"}] /\ tab \in [Tabs -> TabStates]
      /\ sender \in [Senders -> SenderStates] /\ \A u \in Tabs : TabOK(tab[u])
      /\ \A y \in Senders : SenderOK(sender[y])
  BY DEF StreamParts, StreamTypes
<1>1. d \in Conns /\ readers[d] = 0 /\ UNCHANGED <<readers, tab, gone, sender, process>>
  BY DEF CloseSession, Closes, ReqAt, IInv, WaitInv, TypeInv
<1>2. Holders(d, tab, sender) = {}
  <2>1. Counts(Holders(d, tab, sender), 0)
    BY <1>1 DEF StreamParts, CountInv
  <2> QED BY <2>1, FS_EmptySet DEF Counts
<1>3. /\ \A u \in Tabs : tab[u].pc = "store" => tab[u].session # d
      /\ \A x \in Senders : sender[x].pc = "send" => sender[x].session # d
  <2>1. \A h \in Locks : ~Holds(h, d, tab, sender)
    BY <1>2 DEF Holders
  <2>2. ASSUME NEW u \in Tabs, tab[u].pc = "store", tab[u].session = d PROVE FALSE
    <3>1. <<"list", u>> \in Locks
      BY DEF Locks
    <3> QED BY <2>1, <2>2, <3>1 DEF Holds
  <2>3. ASSUME NEW x \in Senders, sender[x].pc = "send", sender[x].session = d PROVE FALSE
    <3>1. <<"send", x>> \in Locks
      BY DEF Locks
    <3> QED BY <2>1, <2>3, <3>1 DEF Holds
  <2> QED BY <2>2, <2>3
<1>4. \A t \in clients[d] : Listens(t, d, channel, tab)
  BY <1>1 DEF StreamParts, ListsInv
<1>5. {t \in clients[d] : channel[t] = "open"} = clients[d]
  BY <1>4 DEF Listens
<1>6. /\ channel' = [t \in Tabs |-> IF t \in clients[d] THEN "closed" ELSE channel[t]]
      /\ clients' = [clients EXCEPT ![d] = {}]
  BY <1>5 DEF CloseSession, Closes
<1> HIDE DEF d
<1>7. ASSUME NEW u \in Tabs, NEW c, c # d, Listens(u, c, channel, tab)
      PROVE  Listens(u, c, channel', tab')
  <2>1. u \notin clients[d]
    BY <1>4, <1>7 DEF Listens
  <2> QED BY <1>1, <1>6, <1>7, <2>1 DEF Listens
<1>8. ListsInv'
  <2>1. ASSUME NEW c \in Conns, NEW u \in clients'[c] PROVE Listens(u, c, channel', tab')
    <3>1. c # d /\ u \in clients[c] /\ u \in Tabs
      BY <1>0, <1>1, <1>6, <2>1
    <3>2. Listens(u, c, channel, tab)
      BY <3>1 DEF StreamParts, ListsInv
    <3> QED BY <1>7, <3>1, <3>2
  <2>2. ASSUME NEW u \in Tabs, tab'[u].pc = "store", NEW v \in tab'[u].list
        PROVE  Listens(v, tab'[u].session, channel', tab')
    <3>1. tab[u] \in TabStates /\ tab[u].pc = "store" /\ v \in tab[u].list /\ tab[u].session # d
      BY <1>0, <1>1, <1>3, <2>2
    <3>2. v \in Tabs
      BY <3>1 DEF TabStates
    <3>3. Listens(v, tab[u].session, channel, tab)
      BY <3>1 DEF StreamParts, ListsInv
    <3> QED BY <1>1, <1>7, <3>1, <3>2, <3>3
  <2>3. ASSUME NEW y \in Senders, sender'[y].pc = "send", NEW v \in sender'[y].todo
        PROVE  Listens(v, sender'[y].session, channel', tab')
    <3>1. /\ sender[y] \in SenderStates /\ sender[y].pc = "send" /\ v \in sender[y].todo
          /\ sender[y].session # d
      BY <1>0, <1>1, <1>3, <2>3
    <3>2. v \in Tabs
      BY <3>1 DEF SenderStates
    <3>3. Listens(v, sender[y].session, channel, tab)
      BY <3>1 DEF StreamParts, ListsInv
    <3> QED BY <1>1, <1>7, <3>1, <3>2, <3>3
  <2> QED BY <2>1, <2>2, <2>3 DEF ListsInv
<1>9. StreamTypes'
  <2>1. clients' \in [Conns -> SUBSET Tabs] /\ channel' \in [Tabs -> {"open", "closed"}]
    BY <1>0, <1>6
  <2> QED BY <1>0, <1>1, <2>1 DEF StreamTypes
<1>10. StreamsInv'
  <2>1. \A u \in Tabs : channel'[u] = "closed" => tab[u].pc \in {"loop", "remove", "end"}
    BY <1>4, <1>6 DEF Listens, StreamParts, StreamsInv
  <2> QED BY <1>1, <2>1 DEF StreamsInv, StreamParts
<1>11. CountInv'
  BY <1>1 DEF StreamParts, CountInv
<1> QED BY <1>1, <1>8, <1>9, <1>10, <1>11 DEF StreamParts

\* What the other requests and the hub do leaves the streams alone.
LEMMA StreamFrame ==
    ASSUME StreamParts, UNCHANGED <<streamVars, process>>
    PROVE  StreamParts'
BY DEF StreamParts, StreamTypes, ListsInv, StreamsInv, CountInv, streamVars

\* In the beginning nothing is listed and no lock is held.
LEMMA InitStream == ASSUME Init PROVE StreamInv
<1>1. NoTab \in TabStates /\ NoTab.pc = "none" /\ Quiet \in SenderStates /\ Quiet.pc = "idle"
  BY DEF NoTab, Quiet, TabStates, SenderStates
<1>2. /\ \A t \in Tabs : tab[t] = NoTab /\ channel[t] = "open" /\ <<"greeting", t>> \in Senders
      /\ \A x \in Senders : sender[x] = Quiet
      /\ \A c \in Conns : clients[c] = {} /\ readers[c] = 0
  BY DEF Init, Senders
<1>3. StreamTypes
  <2>1. readers \in [Conns -> Nat] /\ clients \in [Conns -> SUBSET Tabs] /\ channel \in [Tabs -> {"open", "closed"}]
    BY DEF Init
  <2>2. tab \in [Tabs -> TabStates] /\ sender \in [Senders -> SenderStates]
    BY <1>1 DEF Init
  <2> QED BY <1>1, <1>2, <2>1, <2>2 DEF StreamTypes, TabOK, SenderOK
<1>4. ListsInv /\ StreamsInv
  BY <1>1, <1>2 DEF ListsInv, StreamsInv
<1>5. CountInv
  <2>1. Counts({}, 0)
    BY FS_EmptySet DEF Counts
  <2>2. ASSUME NEW c \in Conns PROVE Holders(c, tab, sender) = {}
    <3>1. ASSUME NEW h \in Locks, Holds(h, c, tab, sender) PROVE FALSE
      <4>1. CASE \E t \in Tabs : h = <<"list", t>>
        <5>1. PICK t \in Tabs : h = <<"list", t>>
          BY <4>1
        <5>2. tab[t].pc = "none" /\ h[1] = "list" /\ h[2] = t
          BY <1>1, <1>2, <5>1
        <5> QED BY <3>1, <5>2 DEF Holds
      <4>2. CASE \E y \in Senders : h = <<"send", y>> \/ h = <<"event", y>>
        <5>1. PICK y \in Senders : h = <<"send", y>> \/ h = <<"event", y>>
          BY <4>2
        <5>2. sender[y].pc = "idle" /\ h[1] \in {"send", "event"} /\ h[2] = y
          BY <1>1, <1>2, <5>1
        <5> QED BY <3>1, <5>2 DEF Holds
      <4> QED BY <4>1, <4>2 DEF Locks
    <3> QED BY <3>1 DEF Holders
  <2> QED BY <1>2, <2>1, <2>2 DEF CountInv
<1> QED BY <1>3, <1>4, <1>5 DEF Init, StreamInv, StreamParts

\* Until the first browser goes away, every step keeps the streams in order.
LEMMA NextStream == ASSUME IInv, StreamInv, [Next]_vars PROVE StreamInv'
<1> SUFFICES ASSUME gone' = {} PROVE StreamParts'
  BY DEF StreamInv
<1>1. ASSUME StreamParts, NEW r \in Reqs, Route(r) \/ ReqStep(r) PROVE StreamParts'
  <2>1. CASE CloseSession(r)
    BY <1>1, <2>1, CloseStreams
  <2>2. CASE Route(r) \/ Close(r) \/ NewClientSession(r) \/ Insert(r) \/ SetSessionCookie(r)
    <3>1. UNCHANGED <<streamVars, process>>
      BY <2>2 DEF Route, AddSessionToContext, PostLogin, SessionLogout, Connects, Close,
                  NewClientSession, Insert, SetSessionCookie
    <3> QED BY <1>1, <3>1, StreamFrame
  <2> QED BY <1>1, <2>1, <2>2 DEF ReqStep
<1>2. ASSUME StreamParts, NEW c \in Conns, Reconnects(c) \/ OnConnectChange(c) \/ OnEvent(c)
      PROVE  StreamParts'
  <2>1. CASE Reconnects(c)
    BY <1>2, <2>1, StreamFrame DEF Reconnects
  <2> QED BY <1>2, <2>1, CallbackSteps
<1>3. ASSUME StreamParts, NEW t \in Tabs, SseHandler(t) \/ TabStep(t) PROVE StreamParts'
  <2>1. ~StreamLeft(t)
    BY DEF StreamLeft
  <2>2. ~RemoveSSEClientStore(t)
    <3>1. tab[t] \in TabStates
      BY <1>3 DEF StreamParts, StreamTypes
    <3> QED BY <3>1 DEF RemoveSSEClientStore, TabAt, TabStates
  <2> QED BY <1>3, <2>1, <2>2, TabSteps, StoreStep DEF TabStep, IInv
<1>4. CASE UNCHANGED vars
  BY <1>4, StreamFrame DEF vars, StreamInv, streamVars
<1>5. CASE Next
  <2>1. gone = {}
    <3>1. ASSUME NEW r \in Reqs, Route(r) \/ ReqStep(r) PROVE gone' = gone
      BY <3>1 DEF Route, AddSessionToContext, PostLogin, SessionLogout, Connects, ReqStep, Close,
                  CloseSession, Closes, NewClientSession, Insert, SetSessionCookie, streamVars
    <3>2. ASSUME NEW c \in Conns, Reconnects(c) \/ OnConnectChange(c) \/ OnEvent(c)
          PROVE  gone' = gone
      BY <3>2 DEF Reconnects, OnConnectChange, OnEvent, streamVars
    <3>3. ASSUME NEW x \in Senders, SenderStep(x) PROVE gone' = gone
      BY <3>3 DEF SenderStep, SendSSE, SendOne, SendPanics
    <3>4. ASSUME NEW t \in Tabs, SseHandler(t) \/ TabStep(t) PROVE gone \subseteq gone'
      BY <3>4 DEF SseHandler, TabStep, AddSSEClient, AddSSEClientStore, StreamClosed, StreamLeft,
                  RemoveSSEClient, RemoveSSEClientStore
    <3> QED BY <1>5, <3>1, <3>2, <3>3, <3>4 DEF Next
  <2>2. StreamParts
    BY <2>1 DEF StreamInv
  <2> QED BY <1>1, <1>2, <1>3, <1>5, <2>2, SenderSteps DEF Next
<1> QED BY <1>4, <1>5

\* Logging out and in again cannot bring the web server down: for any number of requests,
\* tabs and connections, no sender meets a closed channel unless a browser went away.
THEOREM CloseNeverPanicsHolds == Spec => []CloseNeverPanics
<1>1. Init => StreamInv
  BY InitStream
<1>2. IInv /\ StreamInv /\ [Next]_vars => StreamInv'
  BY NextStream
<1>3. StreamInv => CloseNeverPanics
  BY DEF StreamInv, StreamParts, CloseNeverPanics
<1> QED BY <1>1, <1>2, <1>3, Invariance, PTL DEF Spec

=============================================================================
