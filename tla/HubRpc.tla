------------------------------- MODULE HubRpc -------------------------------
(***************************************************************************)
(* Remote procedure calls over the message bus: how a service registers    *)
(* its capabilities with its hub client while requests already arrive, how *)
(* a request is dispatched to a method, and how the caller obtains a reply *)
(* or an error.                                                            *)
(*                                                                         *)
(* The service registers from its main goroutine.  The messages of a       *)
(* subscription are handled one at a time in a goroutine of their own.     *)
(* The message bus may lose a message and knows whether an address has a   *)
(* subscriber.                                                             *)
(***************************************************************************)
EXTENDS Naturals, Sequences, FiniteSets

CONSTANTS
    Caps,      \* the capabilities of the service, in the order of registration
    OtherCap,  \* a capability the service does not have
    Calls,     \* the requests that are made
    MaxLost    \* bound on the number of messages the bus loses

CapIDs == {Caps[i] : i \in DOMAIN Caps}

ASSUME HubRpcAssumption ==
    /\ Caps \in Seq(CapIDs)
    /\ Caps # <<>>
    /\ OtherCap \notin CapIDs
    /\ MaxLost \in Nat

VARIABLES
    main,            \* progress of registering the capabilities
    rpcHandler,      \* is hc.rpcHandler set
    requestHandler,  \* is the request handler of the transport set
    subscribed,      \* is the service subscribed to its requests
    capTable,        \* the capabilities in the table
    messages,        \* messages of the subscription that wait
    handler,         \* the message being handled
    call,            \* per request: its state as the caller sees it
    executed,        \* per request: how often the method was invoked
    inbox,           \* replies on their way
    lost,            \* number of messages lost
    process          \* of the service

serviceVars == <<main, rpcHandler, requestHandler, subscribed, capTable>>

rpcVars == <<serviceVars, messages, handler, call, executed, inbox, lost, process>>

-----------------------------------------------------------------------------
\* State

Results == {"ok", "error", "unknown"}

\* early: the request was made before the service had registered everything.
CallState == [state: {"new", "sent", "timeout"} \cup Results, cap: CapIDs \cup {OtherCap},
         early: BOOLEAN]

Idle == [pc |-> "idle"]

Handler == {Idle}
           \cup [pc: {"dispatch", "lookup", "invoke"}, id: Calls]
           \cup [pc: {"respond"}, id: Calls, result: Results]

\* The type invariant.
RpcTypeOK ==
    /\ main \in [pc: {"cap", "subscribe", "request", "table", "write", "done"}, i: DOMAIN Caps]
    /\ {rpcHandler, requestHandler, subscribed} \subseteq BOOLEAN
    /\ capTable \subseteq CapIDs
    /\ messages \in Seq(Calls)
    /\ handler \in Handler
    /\ call \in [Calls -> CallState]
    /\ executed \in [Calls -> Nat]
    /\ inbox \subseteq [id: Calls, result: Results]
    /\ lost \in 0..MaxLost
    /\ process \in {"running", "stopped", "panic", "fatal"}

RpcInit ==
    /\ main = [pc |-> "cap", i |-> 1]
    /\ rpcHandler = FALSE
    /\ requestHandler = FALSE
    /\ subscribed = FALSE
    /\ capTable = {}
    /\ messages = <<>>
    /\ handler = Idle
    /\ call = [id \in Calls |-> [state |-> "new", cap |-> OtherCap, early |-> FALSE]]
    /\ executed = [id \in Calls |-> 0]
    /\ inbox = {}
    /\ lost = 0
    /\ process = "running"

Running == process = "running"

-----------------------------------------------------------------------------
\* Registering capabilities

MainAt(pc) == Running /\ main.pc = pc

MainGoes(pc) == main' = [main EXCEPT !.pc = pc]

busVars == <<messages, handler, call, executed, inbox, lost, process>>

\* SetRPCCapability installs its handler with the first capability ...
SetRPCCapability ==
    /\ MainAt("cap")
    /\ rpcHandler' = TRUE
    /\ MainGoes(IF rpcHandler THEN "table" ELSE "subscribe")
    /\ UNCHANGED <<requestHandler, subscribed, capTable, busVars>>

\* ... which subscribes ...
Subscribe ==
    /\ MainAt("subscribe")
    /\ subscribed' = TRUE
    /\ MainGoes("request")
    /\ UNCHANGED <<rpcHandler, requestHandler, capTable, busVars>>

\* ... before the transport is told who handles requests.
SetRequestHandler ==
    /\ MainAt("request")
    /\ requestHandler' = TRUE
    /\ MainGoes("table")
    /\ UNCHANGED <<rpcHandler, subscribed, capTable, busVars>>

\* The capability is then added to the table, without a lock.
BeginTable ==
    /\ MainAt("table")
    /\ MainGoes("write")
    /\ UNCHANGED <<rpcHandler, requestHandler, subscribed, capTable, busVars>>

AddedTo(table, cap) == table \cup {cap}

SetTable ==
    /\ MainAt("write")
    /\ capTable' = AddedTo(capTable, Caps[main.i])
    /\ requestHandler' = TRUE
    /\ main' = IF main.i < Len(Caps) THEN [pc |-> "cap", i |-> main.i + 1]
                                     ELSE [main EXCEPT !.pc = "done"]
    /\ UNCHANGED <<rpcHandler, subscribed, busVars>>

-----------------------------------------------------------------------------
\* Callers

Set(id, state) == call' = [call EXCEPT ![id].state = state]

\* PubRequest sends the request, which fails at once if nobody has subscribed.
PubRequest(id, cap) ==
    /\ call[id].state = "new"
    /\ call' = [call EXCEPT ![id] = [state |-> IF subscribed THEN "sent" ELSE "error",
                                     cap |-> cap, early |-> main.pc # "done"]]
    /\ messages' = IF subscribed THEN Append(messages, id) ELSE messages
    /\ UNCHANGED <<serviceVars, handler, executed, inbox, lost, process>>

\* The reply arrives; it is dropped if its request has timed out.
ReceiveReply(r) ==
    /\ r \in inbox
    /\ inbox' = inbox \ {r}
    /\ IF call[r.id].state = "sent" THEN Set(r.id, r.result) ELSE UNCHANGED call
    /\ UNCHANGED <<serviceVars, messages, handler, executed, lost, process>>

\* Mutant: the timer is started again when it ends.
Timeout_Restarts(id) ==
    /\ call[id].state = "sent"
    /\ UNCHANGED rpcVars

Timeout(id) ==
    /\ call[id].state = "sent"
    /\ Set(id, "timeout")
    /\ UNCHANGED <<serviceVars, messages, handler, executed, inbox, lost, process>>

-----------------------------------------------------------------------------
\* Handling requests

HandlerAt(pc) == Running /\ handler.pc = pc

Respond(result) == handler' = [pc |-> "respond", id |-> handler.id, result |-> result]

\* onMessage: without a request handler the error is put into the header of the
\* message, a map that requests do not have.
OnMessage ==
    /\ HandlerAt("idle")
    /\ messages # <<>>
    /\ messages' = Tail(messages)
    /\ IF requestHandler
       THEN handler' = [pc |-> "dispatch", id |-> Head(messages)] /\ UNCHANGED process
       ELSE process' = "panic" /\ UNCHANGED handler
    /\ UNCHANGED <<serviceVars, call, executed, inbox, lost>>

\* onRequest: a request of a type that has no handler gets an empty reply.
OnRequest ==
    /\ HandlerAt("dispatch")
    /\ IF rpcHandler THEN handler' = [handler EXCEPT !.pc = "lookup"] ELSE Respond("ok")
    /\ UNCHANGED <<serviceVars, messages, call, executed, inbox, lost, process>>

\* Mutant: the error is forgotten.
Lookup_NoError ==
    /\ HandlerAt("lookup")
    /\ IF call[handler.id].cap \in capTable
       THEN handler' = [handler EXCEPT !.pc = "invoke"]
       ELSE Respond("ok")
    /\ UNCHANGED <<serviceVars, messages, call, executed, inbox, lost, process>>

\* The capability is looked up.  The Go runtime may end a process in which the
\* table is written at the same time.
Lookup ==
    /\ HandlerAt("lookup")
    /\ IF call[handler.id].cap \in capTable
       THEN handler' = [handler EXCEPT !.pc = "invoke"]
       ELSE Respond("unknown")
    /\ \/ UNCHANGED process
       \/ main.pc = "write" /\ process' = "fatal"
    /\ UNCHANGED <<serviceVars, messages, call, executed, inbox, lost>>

\* HandleRequestMessage: the method is invoked and returns a result or an error.
Invoke(result) ==
    /\ HandlerAt("invoke")
    /\ executed' = [executed EXCEPT ![handler.id] = @ + 1]
    /\ Respond(result)
    /\ UNCHANGED <<serviceVars, messages, call, inbox, lost, process>>

\* It is not invoked if its arguments cannot be converted, or if the capability
\* does not have the method.
BadRequest ==
    /\ HandlerAt("invoke")
    /\ Respond("error")
    /\ UNCHANGED <<serviceVars, messages, call, executed, inbox, lost, process>>

RespondMsg ==
    /\ HandlerAt("respond")
    /\ inbox' = inbox \cup {[id |-> handler.id, result |-> handler.result]}
    /\ handler' = Idle
    /\ UNCHANGED <<serviceVars, messages, call, executed, lost, process>>

-----------------------------------------------------------------------------
\* The bus and the process

LoseRequest ==
    /\ messages # <<>>
    /\ lost < MaxLost
    /\ lost' = lost + 1
    /\ messages' = Tail(messages)
    /\ UNCHANGED <<serviceVars, handler, call, executed, inbox, process>>

LoseReply(r) ==
    /\ r \in inbox
    /\ lost < MaxLost
    /\ lost' = lost + 1
    /\ inbox' = inbox \ {r}
    /\ UNCHANGED <<serviceVars, messages, handler, call, executed, process>>

\* The service has started, is stopped and disconnects: waiting messages are
\* dropped, and the one being handled is not answered.
Disconnect ==
    /\ MainAt("done")
    /\ subscribed' = FALSE
    /\ messages' = <<>>
    /\ process' = "stopped"
    /\ UNCHANGED <<main, rpcHandler, requestHandler, capTable, handler, call, executed, inbox, lost>>

\* The bus notices that the process has ended.
ConnectionLost ==
    /\ process \in {"panic", "fatal"}
    /\ subscribed
    /\ subscribed' = FALSE
    /\ messages' = <<>>
    /\ UNCHANGED <<main, rpcHandler, requestHandler, capTable, handler, call, executed, inbox, lost, process>>

-----------------------------------------------------------------------------
\* Specification

Register == SetRPCCapability \/ Subscribe \/ SetRequestHandler \/ BeginTable \/ SetTable

Serve ==
    \/ OnMessage
    \/ OnRequest
    \/ Lookup
    \/ \E result \in {"ok", "error"} : Invoke(result)
    \/ BadRequest
    \/ RespondMsg

Settled == \A id \in Calls : call[id].state \notin {"new", "sent"}

Ended == Settled /\ UNCHANGED rpcVars

RpcNext ==
    \/ Register
    \/ \E id \in Calls, cap \in CapIDs \cup {OtherCap} : PubRequest(id, cap)
    \/ \E r \in inbox : ReceiveReply(r)
    \/ \E id \in Calls : Timeout(id)
    \/ Serve
    \/ LoseRequest
    \/ \E r \in inbox : LoseReply(r)
    \/ Disconnect
    \/ ConnectionLost
    \/ Ended

RpcSpec == RpcInit /\ [][RpcNext]_rpcVars

\* Callers have a timer.  The service goes on registering and serving.
RpcFairSpec ==
    /\ RpcSpec
    /\ \A id \in Calls : WF_rpcVars(Timeout(id))
    /\ WF_rpcVars(Register)
    /\ WF_rpcVars(Serve)

-----------------------------------------------------------------------------
\* Properties

\* What a reply of onRequest says is what happened, whenever the request arrived
\* and whatever messages were lost: a method is invoked at most once for a request;
\* without an error it was invoked; if the capability was unknown it was not, and
\* the service had not registered it yet or does not have it.
ReplyIsTrue ==
    \A id \in Calls :
        /\ executed[id] <= 1
        /\ call[id].state = "ok" => executed[id] = 1
        /\ call[id].state = "unknown"
              => executed[id] = 0 /\ (call[id].early \/ call[id].cap = OtherCap)

\* Each request ends with a reply or an error, although messages can be lost and
\* the service can end at any time.
RequestSettles == \A id \in Calls : call[id].state = "sent" ~> call[id].state # "sent"

-----------------------------------------------------------------------------
\* What comments say and the code does not do

\* "this client has no handler, ignore the request": a request that arrives before
\* the handler is set does not end the service.
EarlyIsIgnored == process # "panic"

\* "mux is used to protect access to handlers and capTable": the table is not read
\* while it is written.
TableIsGuarded == ~ (HandlerAt("lookup") /\ MainAt("write"))

=============================================================================
