---------------------------- MODULE Provisioning ----------------------------
(***************************************************************************)
(* The provisioning service (ManageIdProvService) and the auth service it  *)
(* asks for tokens.  Devices submit requests over HTTP, administrators     *)
(* approve, pre-approve and reject them over RPC; every handler holds mux  *)
(* from its first to its last line.  SubmitRequest keeps it while it waits *)
(* for the auth service, whose answer may be late, an error, or lost.      *)
(*                                                                         *)
(* Timestamps are reduced to whether they are set.                         *)
(***************************************************************************)
EXTENDS Naturals, Sequences, FiniteSets

CONSTANTS
    Devices,    \* client IDs
    PubKeys,    \* public keys
    MACs,       \* MAC addresses
    None,       \* no key, no MAC, no type, no request, no call
    MaxCalls    \* bound on the number of calls to the auth service

ASSUME ProvAssumption ==
    /\ None \notin PubKeys \cup MACs \cup Devices
    /\ MaxCalls \in Nat

VARIABLES
    requests,    \* svc.requests: the status per device
    wait,        \* the call to the auth service that SubmitRequest waits for
    queue,       \* calls on their way to the auth service, in order
    registered,  \* what the auth service has stored per device
    approvals,   \* the combinations that were approved at some time
    calls        \* calls to the auth service so far

provVars == <<requests, wait, approvals, calls>>

vars == <<provVars, queue, registered>>

-----------------------------------------------------------------------------
\* State

Types == {"device", "service"}

Key == PubKeys \cup {None}

MAC == MACs \cup {None}

\* RetrySec of a request: one minute, thirty seconds more for each repeat up
\* to ten minutes, and an hour once it was rejected.
FirstRetry == 60
RetryStep == 30
MaxRetry == 600
RejectRetry == 3600

\* ProvisionStatus
Status == [type: Types \cup {None}, key: Key, mac: MAC, pending: BOOLEAN,
           approved: BOOLEAN, rejected: BOOLEAN, retry: Nat]

\* AddDevice or AddService, as sent to the auth service.
Call == [c: Devices, key: Key, type: Types, id: 1..MaxCalls]

\* A waiting SubmitRequest: its call, and the answer once it is there.
Waiting == [call: Call, answer: {"none", "ok", "error"}]

Approval == [c: Devices, key: Key, type: Types]

\* The type invariant.
TypeOK ==
    /\ requests \in [Devices -> Status \cup {None}]
    /\ wait \in Waiting \cup {None}
    /\ queue \in Seq(Call)
    /\ registered \in [Devices -> [key: Key, type: Types] \cup {None}]
    /\ approvals \in SUBSET Approval
    /\ calls \in 0..MaxCalls

Init ==
    /\ requests = [c \in Devices |-> None]
    /\ wait = None
    /\ queue = <<>>
    /\ registered = [c \in Devices |-> None]
    /\ approvals = {}
    /\ calls = 0

\* mux is free.
Unlocked == wait = None

-----------------------------------------------------------------------------
\* Requests of administrators

\* AddService is called for services, AddDevice for everything else.
AddAs(type) == IF type = "service" THEN "service" ELSE "device"

ApproveRequest(c, type) ==
    /\ Unlocked
    /\ requests[c] # None
    /\ requests' = [requests EXCEPT ![c] = [@ EXCEPT !.pending = FALSE, !.type = type,
                                                     !.approved = TRUE, !.rejected = FALSE]]
    /\ approvals' = approvals \cup {[c |-> c, key |-> requests[c].key, type |-> AddAs(type)]}
    /\ UNCHANGED <<wait, queue, registered, calls>>

PreApproveClient(c, type, key, mac) ==
    /\ Unlocked
    /\ requests' = [requests EXCEPT ![c] = [type |-> type, key |-> key, mac |-> mac,
                                            pending |-> FALSE, approved |-> TRUE,
                                            rejected |-> FALSE, retry |-> 0]]
    /\ approvals' = approvals \cup {[c |-> c, key |-> key, type |-> AddAs(type)]}
    /\ UNCHANGED <<wait, queue, registered, calls>>

\* Mutant: a rejected request stays pending.
RejectRequest_Pending(c) ==
    /\ Unlocked
    /\ requests[c] # None
    /\ requests' = [requests EXCEPT ![c].rejected = TRUE]
    /\ UNCHANGED <<wait, queue, registered, approvals, calls>>

\* The approval of an approved request is not taken back.
RejectRequest(c) ==
    /\ Unlocked
    /\ requests[c] # None
    /\ requests' = [requests EXCEPT ![c] = [@ EXCEPT !.pending = FALSE, !.rejected = TRUE]]
    /\ UNCHANGED <<wait, queue, registered, approvals, calls>>

\* The devices whose requests GetRequests returns for its three flags.
GetRequests(pending, approved, rejected) ==
    {c \in Devices : requests[c] # None /\
        \/ requests[c].pending /\ pending
        \/ requests[c].approved /\ approved
        \/ requests[c].rejected /\ rejected}

-----------------------------------------------------------------------------
\* SubmitRequest

SubmitNew(c, key, mac) ==
    /\ Unlocked
    /\ requests[c] = None
    /\ requests' = [requests EXCEPT ![c] = [type |-> None, key |-> key, mac |-> mac,
                                            pending |-> TRUE, approved |-> FALSE,
                                            rejected |-> FALSE, retry |-> FirstRetry]]
    /\ UNCHANGED <<wait, queue, registered, approvals, calls>>

\* Mutant: a public key on file is not compared when the MAC matches.
SubmitApproved_GivenKey(c, key, mac) ==
    LET call == [c |-> c, key |-> key, type |-> AddAs(requests[c].type), id |-> calls + 1]
    IN  /\ Unlocked
        /\ requests[c] # None
        /\ requests[c].approved
        /\ requests[c].mac \in {None, mac}
        /\ calls < MaxCalls
        /\ calls' = calls + 1
        /\ wait' = [call |-> call, answer |-> "none"]
        /\ queue' = Append(queue, call)
        /\ UNCHANGED <<requests, registered, approvals>>

\* What an approved request is checked against.
Matches(c, key, mac) ==
    /\ requests[c].key \in {None, key}
    /\ requests[c].mac \in {None, mac}
    /\ key # None

\* An approved request that matches: ask the auth service to add the client
\* with the key on file.  One that does not match is refused and changes nothing.
SubmitApproved(c, key, mac) ==
    LET call == [c |-> c, key |-> requests[c].key, type |-> AddAs(requests[c].type),
                 id |-> calls + 1]
    IN  /\ Unlocked
        /\ requests[c] # None
        /\ requests[c].approved
        /\ Matches(c, key, mac)
        /\ calls < MaxCalls
        /\ calls' = calls + 1
        /\ wait' = [call |-> call, answer |-> "none"]
        /\ queue' = Append(queue, call)
        /\ UNCHANGED <<requests, registered, approvals>>

SubmitRejected(c) ==
    /\ Unlocked
    /\ requests[c] # None
    /\ ~ requests[c].approved /\ requests[c].rejected
    /\ requests' = [requests EXCEPT ![c] = [@ EXCEPT !.retry = RejectRetry, !.pending = FALSE]]
    /\ UNCHANGED <<wait, queue, registered, approvals, calls>>

NextRetry(retry) == IF retry < MaxRetry THEN retry + RetryStep ELSE retry

SubmitRepeat(c) ==
    /\ Unlocked
    /\ requests[c] # None
    /\ ~ requests[c].approved /\ ~ requests[c].rejected
    /\ requests' = [requests EXCEPT ![c] = [@ EXCEPT
                        !.pending = TRUE,
                        !.retry = NextRetry(requests[c].retry)]]
    /\ UNCHANGED <<wait, queue, registered, approvals, calls>>

\* The auth service has answered with a token, which in nkey mode is the public
\* key, or with an error.
SubmitAnswered ==
    /\ wait # None
    /\ wait.answer # "none"
    /\ requests' = IF wait.answer = "ok"
                   THEN [requests EXCEPT ![wait.call.c] = [@ EXCEPT !.pending = FALSE]]
                   ELSE requests
    /\ wait' = None
    /\ UNCHANGED <<queue, registered, approvals, calls>>

\* Mutant: the timeout returns without unlocking.
SubmitTimesOut_Locked ==
    /\ wait # None
    /\ wait' = wait
    /\ UNCHANGED <<requests, queue, registered, approvals, calls>>

\* The request to the auth service times out; its call is still on its way,
\* or its answer is.
SubmitTimesOut ==
    /\ wait # None
    /\ wait' = None
    /\ UNCHANGED <<requests, queue, registered, approvals, calls>>

-----------------------------------------------------------------------------
\* The auth service

Answered(answer) ==
    wait' = IF wait # None /\ wait.call = Head(queue)
            THEN [wait EXCEPT !.answer = answer]
            ELSE wait

\* Mutant: a client that is known is not updated.
AuthAdds_OnlyNew ==
    /\ queue # <<>>
    /\ registered' = [registered EXCEPT ![Head(queue).c] =
                        IF @ = None THEN [key |-> Head(queue).key, type |-> Head(queue).type]
                        ELSE @]
    /\ Answered("ok")
    /\ queue' = Tail(queue)
    /\ UNCHANGED <<requests, approvals, calls>>

\* AddDevice and AddService replace what is stored for the client.
AuthAdds ==
    /\ queue # <<>>
    /\ registered' = [registered EXCEPT ![Head(queue).c] =
                        [key |-> Head(queue).key, type |-> Head(queue).type]]
    /\ Answered("ok")
    /\ queue' = Tail(queue)
    /\ UNCHANGED <<requests, approvals, calls>>

AuthRefuses ==
    /\ queue # <<>>
    /\ Answered("error")
    /\ queue' = Tail(queue)
    /\ UNCHANGED <<requests, registered, approvals, calls>>

\* The call is lost, for instance because the auth service is restarted.
CallLost ==
    /\ queue # <<>>
    /\ queue' = Tail(queue)
    /\ UNCHANGED <<provVars, registered>>

\* The provisioning service is restarted: its requests are in memory only.
Restart ==
    /\ requests' = [c \in Devices |-> None]
    /\ wait' = None
    /\ UNCHANGED <<queue, registered, approvals, calls>>
-----------------------------------------------------------------------------
\* Specification

Manage ==
    \E c \in Devices :
        \/ \E type \in Types \cup {None} : ApproveRequest(c, type)
        \/ \E type \in Types, key \in Key, mac \in MAC : PreApproveClient(c, type, key, mac)
        \/ RejectRequest(c)

Submit ==
    \E c \in Devices :
        \/ \E key \in Key, mac \in MAC : SubmitNew(c, key, mac) \/ SubmitApproved(c, key, mac)
        \/ SubmitRejected(c)
        \/ SubmitRepeat(c)

Auth == AuthAdds \/ AuthRefuses \/ CallLost

Next == Manage \/ Submit \/ SubmitAnswered \/ SubmitTimesOut \/ Auth \/ Restart

Spec == Init /\ [][Next]_vars

\* The client library ends every request after its timeout.
FairSpec == Spec /\ WF_vars(SubmitTimesOut)

-----------------------------------------------------------------------------
\* Properties

\* Whatever the auth service has stored through provisioning was approved in
\* that combination: a client never gets in with a key or a type other than
\* the ones that were approved or pre-approved for it, through retries,
\* timeouts, late answers and restarts.
RegisteredWasApproved ==
    \A c \in Devices :
        registered[c] # None =>
            \E a \in approvals : /\ a.c = c
                                 /\ a.key = registered[c].key
                                 /\ a.type = registered[c].type

\* When the answer that SubmitRequest waits for is a success, the auth service
\* holds exactly the key and type it was asked for: no earlier call for the
\* device, given up because of a timeout, has come in after it.
AnsweredIsRegistered ==
    wait # None =>
        (wait.answer = "ok" =>
            registered[wait.call.c] = [key |-> wait.call.key, type |-> wait.call.type])

\* A request that is shown as pending has neither been approved nor rejected,
\* and is retried after at most ten minutes.
PendingIsUndecided ==
    \A c \in Devices :
        requests[c] # None =>
            (requests[c].pending =>
                /\ ~ requests[c].approved /\ ~ requests[c].rejected
                /\ requests[c].retry \in FirstRetry..MaxRetry)

\* The handlers that wait for mux get it: SubmitRequest does not keep it for
\* ever, even if the auth service never answers.
UnlockedAgain == wait # None ~> Unlocked

-----------------------------------------------------------------------------
\* What comments say and the code does not do

\* "rejected request, ignore request": no token is asked for while the request
\* stands rejected.
RejectedIsIgnored == wait # None => ~ requests[wait.call.c].rejected

\* "If the request is pre-approved a token will be returned if the pubKey
\* and/or MAC matches": the answer to a matching request is a token.
TokenIsReturned == wait # None => (wait.answer = "ok" => wait.call.key # None)

\* "Note that rejected requests are never returned": by GetRequests, whatever
\* its arguments are.
RejectedIsNotListed ==
    \A pending, approved, rejected \in BOOLEAN :
        \A c \in GetRequests(pending, approved, rejected) : ~ requests[c].rejected

=============================================================================
