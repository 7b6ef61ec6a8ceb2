------------------------- MODULE ProvisioningProofs -------------------------
(***************************************************************************)
(* Proofs about the provisioning service for any set of devices, keys and  *)
(* MAC addresses and any number of calls to the auth service.  The         *)
(* inductive invariant adds to the checked ones what is known of the calls *)
(* under way: each was approved, they are numbered in order, and the call  *)
(* that SubmitRequest waits for is the last one until it is answered.      *)
(*                                                                         *)
(* The second half is about the message bus over which this service and    *)
(* the others are called: what a reply tells the caller is what happened,  *)
(* because each request is in one place only.                              *)
(***************************************************************************)
EXTENDS Provisioning, HubRpc, SequenceTheorems, TLAPS

\* Every call under way asks for a combination that was approved.
CallsApproved ==
    \A i \in DOMAIN queue :
        [c |-> queue[i].c, key |-> queue[i].key, type |-> queue[i].type] \in approvals

\* An approved request stands for a combination that was approved.
RequestsApproved ==
    \A c \in Devices :
        requests[c] # None =>
            (requests[c].approved =>
                [c |-> c, key |-> requests[c].key, type |-> AddAs(requests[c].type)]
                    \in approvals)

\* The retry times: thirty seconds steps from one to ten minutes.
RetryTimes == {RetryStep * k : k \in 2..20}

\* A request without a decision has the retry time of a pending one.
UndecidedRetry ==
    \A c \in Devices :
        requests[c] # None =>
            (~ requests[c].approved /\ ~ requests[c].rejected =>
                requests[c].retry \in RetryTimes)

\* Calls are numbered in the order they are made.
CallsNumbered == \A i \in DOMAIN queue : queue[i].id <= calls

\* Nothing is behind the call that SubmitRequest waits for, and nothing is left
\* once it is answered.
WaitIsLast ==
    wait # None =>
        /\ wait.answer = "none" => \A i \in DOMAIN queue : queue[i] = wait.call => i = Len(queue)
        /\ wait.answer # "none" => queue = <<>>

\* The device that is waited for stays known.
WaitIsKnown == wait # None => requests[wait.call.c] # None

RequestInv == RequestsApproved /\ UndecidedRetry /\ PendingIsUndecided

QueueInv == CallsApproved /\ CallsNumbered /\ WaitIsLast /\ WaitIsKnown

IInv == TypeOK /\ RequestInv /\ QueueInv /\ RegisteredWasApproved /\ AnsweredIsRegistered

-----------------------------------------------------------------------------
\* None is not a record: it differs from every status and from every wait.
LEMMA NoneIsNoRecord ==
    ASSUME TypeOK, NEW c \in Devices, requests[c] # None
    PROVE  /\ requests[c] \in Status
           /\ requests[c].key \in Key /\ requests[c].mac \in MAC
           /\ requests[c].type \in Types \cup {None}
           /\ requests[c].pending \in BOOLEAN /\ requests[c].approved \in BOOLEAN
           /\ requests[c].rejected \in BOOLEAN /\ requests[c].retry \in Nat
<1>1. requests[c] \in Status \cup {None}
  BY DEF TypeOK
<1>2. requests[c] \in Status
  BY <1>1
<1> QED BY <1>2 DEF Status

\* Replacing the status of one device by a well-formed one keeps the type.
LEMMA RequestsTyped ==
    ASSUME TypeOK, NEW c \in Devices, NEW s \in Status, requests' = [requests EXCEPT ![c] = s]
    PROVE  /\ requests' \in [Devices -> Status \cup {None}]
           /\ requests'[c] = s
           /\ \A d \in Devices \ {c} : requests'[d] = requests[d]
BY DEF TypeOK

\* What is asked of the auth service is a device or a service.
LEMMA AddAsType == ASSUME NEW type PROVE AddAs(type) \in Types
BY DEF AddAs, Types
\* The retry times of a pending request are in range.
LEMMA RetryInRange == ASSUME NEW r \in RetryTimes PROVE r \in FirstRetry..MaxRetry
BY DEF RetryTimes, RetryStep, FirstRetry, MaxRetry

\* What a handler that only changes the status of one device has to ensure.
LEMMA StatusStep ==
    ASSUME IInv, Unlocked, NEW c \in Devices, NEW s \in Status,
           requests' = [requests EXCEPT ![c] = s],
           approvals \subseteq approvals', approvals' \in SUBSET Approval,
           UNCHANGED <<wait, queue, registered, calls>>,
           s.approved => [c |-> c, key |-> s.key, type |-> AddAs(s.type)] \in approvals',
           ~ s.approved /\ ~ s.rejected => s.retry \in RetryTimes,
           s.pending => ~ s.approved /\ ~ s.rejected
    PROVE  IInv'
<1> USE DEF IInv
<1>1. /\ requests' \in [Devices -> Status \cup {None}]
      /\ requests'[c] = s
      /\ \A d \in Devices \ {c} : requests'[d] = requests[d]
  BY RequestsTyped
<1>2. TypeOK'
  BY <1>1 DEF TypeOK
<1>3. RequestsApproved'
  BY <1>1 DEF RequestInv, RequestsApproved
<1>4. UndecidedRetry'
  BY <1>1 DEF RequestInv, UndecidedRetry
<1>5. PendingIsUndecided'
  BY <1>1, RetryInRange DEF RequestInv, PendingIsUndecided
<1>6. QueueInv'
  BY DEF QueueInv, CallsApproved, CallsNumbered, WaitIsLast, WaitIsKnown, Unlocked
<1>7. RegisteredWasApproved' /\ AnsweredIsRegistered'
  BY DEF RegisteredWasApproved, AnsweredIsRegistered
<1> QED BY <1>2, <1>3, <1>4, <1>5, <1>6, <1>7 DEF RequestInv

\* Approving a known request records the approval and clears the other flags.
LEMMA ApproveStep ==
    ASSUME IInv, NEW c \in Devices, NEW type \in Types \cup {None}, ApproveRequest(c, type)
    PROVE  IInv'
<1> DEFINE s == [requests[c] EXCEPT !.pending = FALSE, !.type = type,
                                    !.approved = TRUE, !.rejected = FALSE]
<1>0. TypeOK /\ requests[c] # None
  BY DEF IInv, ApproveRequest
<1>1. requests[c] \in Status /\ requests[c].key \in Key
  BY <1>0, NoneIsNoRecord
<1>2. /\ s \in Status /\ s.key = requests[c].key /\ s.type = type
      /\ s.approved = TRUE /\ s.pending = FALSE
  BY <1>1 DEF Status
<1>3. /\ requests' = [requests EXCEPT ![c] = s]
      /\ approvals' = approvals \cup {[c |-> c, key |-> requests[c].key, type |-> AddAs(type)]}
      /\ Unlocked /\ UNCHANGED <<wait, queue, registered, calls>>
  BY DEF ApproveRequest
<1>4. approvals' \in SUBSET Approval
  BY <1>0, <1>1, <1>3, AddAsType DEF TypeOK, Approval
<1> HIDE DEF s
<1> QED BY <1>2, <1>3, <1>4, StatusStep

\* A pre-approval replaces what is known of the device.
LEMMA PreApproveStep ==
    ASSUME IInv, NEW c \in Devices, NEW type \in Types, NEW key \in Key, NEW mac \in MAC,
           PreApproveClient(c, type, key, mac)
    PROVE  IInv'
<1> DEFINE s == [type |-> type, key |-> key, mac |-> mac, pending |-> FALSE,
                 approved |-> TRUE, rejected |-> FALSE, retry |-> 0]
<1>1. /\ s \in Status /\ s.key = key /\ s.type = type /\ s.approved = TRUE
      /\ s.pending = FALSE
  BY DEF Status
<1>2. /\ requests' = [requests EXCEPT ![c] = s]
      /\ approvals' = approvals \cup {[c |-> c, key |-> key, type |-> AddAs(type)]}
      /\ Unlocked /\ UNCHANGED <<wait, queue, registered, calls>>
  BY DEF PreApproveClient
<1>3. approvals' \in SUBSET Approval
  BY <1>2, AddAsType DEF IInv, TypeOK, Approval
<1> HIDE DEF s
<1> QED BY <1>1, <1>2, <1>3, StatusStep

\* A rejection clears the pending flag and leaves an approval as it is.
LEMMA RejectStep ==
    ASSUME IInv, NEW c \in Devices, RejectRequest(c)
    PROVE  IInv'
<1> DEFINE s == [requests[c] EXCEPT !.pending = FALSE, !.rejected = TRUE]
<1>0. TypeOK /\ requests[c] # None
  BY DEF IInv, RejectRequest
<1>1. requests[c] \in Status
  BY <1>0, NoneIsNoRecord
<1>2. /\ s \in Status /\ s.key = requests[c].key /\ s.type = requests[c].type
      /\ s.approved = requests[c].approved /\ s.rejected = TRUE /\ s.pending = FALSE
  BY <1>1 DEF Status
<1>3. /\ requests' = [requests EXCEPT ![c] = s]
      /\ Unlocked /\ UNCHANGED <<approvals, wait, queue, registered, calls>>
  BY DEF RejectRequest
<1>4. s.approved => [c |-> c, key |-> s.key, type |-> AddAs(s.type)] \in approvals'
  BY <1>0, <1>2, <1>3 DEF IInv, RequestInv, RequestsApproved
<1>5. approvals' \in SUBSET Approval
  BY <1>0, <1>3 DEF TypeOK
<1> HIDE DEF s
<1> QED BY <1>2, <1>3, <1>4, <1>5, StatusStep

\* The first request of a device is pending.
LEMMA SubmitNewStep ==
    ASSUME IInv, NEW c \in Devices, NEW key \in Key, NEW mac \in MAC, SubmitNew(c, key, mac)
    PROVE  IInv'
<1> DEFINE s == [type |-> None, key |-> key, mac |-> mac, pending |-> TRUE,
                 approved |-> FALSE, rejected |-> FALSE, retry |-> FirstRetry]
<1>1. /\ s \in Status /\ s.approved = FALSE /\ s.rejected = FALSE
      /\ s.retry \in RetryTimes
  <2>1. s.approved = FALSE /\ s.rejected = FALSE /\ s.retry = FirstRetry
    OBVIOUS
  <2>2. s \in Status
    BY DEF Status, FirstRetry
  <2>3. FirstRetry \in RetryTimes
    BY DEF FirstRetry, RetryTimes, RetryStep
  <2> QED BY <2>1, <2>2, <2>3
<1>2. /\ requests' = [requests EXCEPT ![c] = s]
      /\ Unlocked /\ UNCHANGED <<approvals, wait, queue, registered, calls>>
  BY DEF SubmitNew
<1>3. approvals' \in SUBSET Approval
  BY <1>2 DEF IInv, TypeOK
<1> HIDE DEF s
<1> QED BY <1>1, <1>2, <1>3, StatusStep

\* A rejected device is told to wait an hour.
LEMMA SubmitRejectedStep ==
    ASSUME IInv, NEW c \in Devices, SubmitRejected(c)
    PROVE  IInv'
<1> DEFINE s == [requests[c] EXCEPT !.retry = RejectRetry, !.pending = FALSE]
<1>0. TypeOK /\ requests[c] # None /\ ~ requests[c].approved /\ requests[c].rejected
  BY DEF IInv, SubmitRejected
<1>1. requests[c] \in Status
  BY <1>0, NoneIsNoRecord
<1>2. /\ s \in Status /\ s.approved = requests[c].approved
      /\ s.rejected = requests[c].rejected /\ s.pending = FALSE
  <2>1. RejectRetry \in Nat
    BY DEF RejectRetry
  <2> QED BY <1>1, <2>1 DEF Status
<1>3. /\ requests' = [requests EXCEPT ![c] = s]
      /\ Unlocked /\ UNCHANGED <<approvals, wait, queue, registered, calls>>
  BY DEF SubmitRejected
<1>4. approvals' \in SUBSET Approval
  BY <1>0, <1>3 DEF TypeOK
<1> HIDE DEF s
<1> QED BY <1>0, <1>2, <1>3, <1>4, StatusStep

\* A repeated request stays on the thirty second grid, which is what keeps its
\* retry time from passing the limit.
LEMMA SubmitRepeatStep ==
    ASSUME IInv, NEW c \in Devices, SubmitRepeat(c)
    PROVE  IInv'
<1> DEFINE old == requests[c].retry
           r == NextRetry(old)
           s == [requests[c] EXCEPT !.pending = TRUE, !.retry = r]
<1>0. TypeOK /\ requests[c] # None /\ ~ requests[c].approved /\ ~ requests[c].rejected
  BY DEF IInv, SubmitRepeat
<1>1. requests[c] \in Status
  BY <1>0, NoneIsNoRecord
<1>2. old \in RetryTimes
  BY <1>0 DEF IInv, RequestInv, UndecidedRetry
<1>3. r \in RetryTimes /\ r \in Nat
  BY <1>2 DEF RetryTimes, MaxRetry, RetryStep, NextRetry
<1>4. /\ requests' = [requests EXCEPT ![c] = s]
      /\ Unlocked /\ UNCHANGED <<approvals, wait, queue, registered, calls>>
  BY DEF SubmitRepeat
<1> HIDE DEF r
<1>5. /\ s \in Status /\ s.approved = requests[c].approved
      /\ s.rejected = requests[c].rejected /\ s.retry = r
  BY <1>1, <1>3 DEF Status
<1>6. approvals' \in SUBSET Approval
  BY <1>0, <1>4 DEF TypeOK
<1> HIDE DEF s
<1> QED BY <1>0, <1>3, <1>4, <1>5, <1>6, StatusStep

\* The call to the auth service is one more call, for an approved combination,
\* behind all the others.
LEMMA SubmitApprovedStep ==
    ASSUME IInv, NEW c \in Devices, NEW key \in Key, NEW mac \in MAC,
           SubmitApproved(c, key, mac)
    PROVE  IInv'
<1> DEFINE made == [c |-> c, key |-> requests[c].key, type |-> AddAs(requests[c].type),
                    id |-> calls + 1]
           w == [call |-> made, answer |-> "none"]
<1>0. /\ TypeOK /\ requests[c] # None /\ requests[c].approved /\ calls < MaxCalls
      /\ calls' = calls + 1 /\ wait' = w /\ queue' = Append(queue, made)
      /\ UNCHANGED <<requests, registered, approvals>>
  BY DEF IInv, SubmitApproved
<1>1. calls \in Nat /\ calls + 1 \in 1..MaxCalls /\ calls' \in 0..MaxCalls
  BY <1>0, ProvAssumption DEF TypeOK
<1>2. made \in Call
  BY <1>0, <1>1, NoneIsNoRecord, AddAsType DEF Call
<1>3. /\ [c |-> made.c, key |-> made.key, type |-> made.type] \in approvals
      /\ made.id = calls + 1 /\ made.c = c
  BY <1>0 DEF IInv, RequestInv, RequestsApproved
<1> HIDE DEF made
<1>4. w \in Waiting /\ w.call = made /\ w.answer = "none"
  BY <1>2 DEF Waiting
<1>5. queue \in Seq(Call)
  BY <1>0 DEF TypeOK
<1>6. /\ queue' \in Seq(Call) /\ Len(queue') = Len(queue) + 1
      /\ queue'[Len(queue) + 1] = made
      /\ \A i \in 1..Len(queue) : queue'[i] = queue[i]
      /\ DOMAIN queue' = 1..(Len(queue) + 1) /\ DOMAIN queue = 1..Len(queue)
      /\ Len(queue) \in Nat
  BY <1>0, <1>2, <1>5, AppendProperties, LenProperties
<1> HIDE DEF w
<1>7. TypeOK'
  BY <1>0, <1>1, <1>4, <1>6 DEF TypeOK
<1>8. RequestInv' /\ RegisteredWasApproved'
  BY <1>0 DEF IInv, RequestInv, RequestsApproved, UndecidedRetry, PendingIsUndecided,
              RegisteredWasApproved
<1>9. AnsweredIsRegistered'
  BY <1>0, <1>4 DEF AnsweredIsRegistered
<1>10. CallsApproved'
  BY <1>0, <1>3, <1>6 DEF IInv, QueueInv, CallsApproved
<1>11. \A i \in 1..Len(queue) : queue[i].id \in Nat /\ queue[i].id <= calls
  <2>1. \A i \in 1..Len(queue) : queue[i] \in Call
    BY <1>5, ElementOfSeq
  <2>2. \A k \in Call : k.id \in Nat
    BY ProvAssumption DEF Call
  <2>3. \A i \in 1..Len(queue) : queue[i].id <= calls
    BY <1>6 DEF IInv, QueueInv, CallsNumbered
  <2> QED BY <2>1, <2>2, <2>3
<1>12. CallsNumbered'
  BY <1>0, <1>1, <1>3, <1>6, <1>11 DEF CallsNumbered
<1>13. \A i \in 1..Len(queue) : queue[i] # made
  BY <1>1, <1>3, <1>11
<1>14. WaitIsLast'
  BY <1>0, <1>4, <1>6, <1>13 DEF WaitIsLast
<1>15. WaitIsKnown'
  BY <1>0, <1>3, <1>4 DEF WaitIsKnown
<1> QED BY <1>7, <1>8, <1>9, <1>10, <1>12, <1>14, <1>15 DEF IInv, QueueInv

\* What is known of the call at the head: it is typed, approved, and if it is
\* the one waited for there is no other.
LEMMA HeadFacts ==
    ASSUME IInv, queue # <<>>
    PROVE  /\ Head(queue) \in Call
           /\ [c |-> Head(queue).c, key |-> Head(queue).key, type |-> Head(queue).type]
                \in approvals
           /\ Tail(queue) \in Seq(Call) /\ Len(queue) \in Nat
           /\ DOMAIN Tail(queue) = 1..(Len(queue) - 1)
           /\ Len(Tail(queue)) = Len(queue) - 1
           /\ \A i \in 1..(Len(queue) - 1) : /\ Tail(queue)[i] = queue[i + 1]
                                            /\ i + 1 \in DOMAIN queue
           /\ Len(queue) = 1 => Tail(queue) = <<>>
           /\ wait # None => wait \in Waiting
           /\ wait # None /\ wait.call = Head(queue) => wait.answer = "none" /\ Len(queue) = 1
<1>1. TypeOK /\ queue \in Seq(Call)
  BY DEF IInv, TypeOK
<1>2. /\ Head(queue) \in Call /\ Head(queue) = queue[1]
      /\ Tail(queue) \in Seq(Call) /\ Len(queue) \in Nat \ {0}
      /\ DOMAIN queue = 1..Len(queue) /\ 1 \in DOMAIN queue
      /\ Len(Tail(queue)) = Len(queue) - 1
      /\ \A i \in 1..(Len(queue) - 1) : Tail(queue)[i] = queue[i + 1]
  BY <1>1, HeadTailProperties, LenProperties, ElementOfSeq, EmptySeq
<1>3. DOMAIN Tail(queue) = 1..(Len(queue) - 1)
  BY <1>2, LenProperties
<1>4. [c |-> Head(queue).c, key |-> Head(queue).key, type |-> Head(queue).type] \in approvals
  BY <1>2 DEF IInv, QueueInv, CallsApproved
<1>5. Len(queue) = 1 => Tail(queue) = <<>>
  <2>1. Tail(queue) # <<>> => Len(Tail(queue)) \in Nat \ {0}
    BY <1>2, EmptySeq
  <2> QED BY <1>2, <2>1
<1>6. wait # None => wait \in Waiting
  BY <1>1 DEF TypeOK
<1>7. wait # None /\ wait.call = Head(queue) => wait.answer = "none" /\ Len(queue) = 1
  BY <1>2 DEF IInv, QueueInv, WaitIsLast
<1> QED BY <1>2, <1>3, <1>4, <1>5, <1>6, <1>7

\* Taking the call at the head from the queue and recording its answer.
LEMMA TakeStep ==
    ASSUME IInv, queue # <<>>, NEW answer \in {"ok", "error"},
           Answered(answer) \/ wait' = wait, queue' = Tail(queue),
           UNCHANGED <<requests, approvals, calls>>,
           registered' \in [Devices -> [key: Key, type: Types] \cup {None}]
    PROVE  TypeOK' /\ RequestInv' /\ QueueInv'
<1> DEFINE mine == wait # None /\ wait.call = Head(queue)
<1>1. \/ /\ mine /\ wait' = [wait EXCEPT !.answer = answer]
      \/ wait' = wait
  BY DEF Answered
<1>2. mine => /\ [wait EXCEPT !.answer = answer] \in Waiting
              /\ [wait EXCEPT !.answer = answer].answer = answer
              /\ [wait EXCEPT !.answer = answer].call = wait.call
  BY HeadFacts DEF Waiting
<1>3. wait' \in Waiting \cup {None}
  BY <1>1, <1>2, HeadFacts
<1>4. TypeOK'
  BY <1>3, HeadFacts DEF IInv, TypeOK
<1>5. RequestInv'
  BY DEF IInv, RequestInv, RequestsApproved, UndecidedRetry, PendingIsUndecided
<1>6. CallsApproved' /\ CallsNumbered'
  BY HeadFacts DEF IInv, QueueInv, CallsApproved, CallsNumbered
<1>7. WaitIsLast'
  <2>1. CASE mine /\ wait' = [wait EXCEPT !.answer = answer]
    BY <2>1, <1>2, HeadFacts DEF WaitIsLast
  <2>2. CASE wait' = wait
    <3>1. SUFFICES ASSUME wait # None
                   PROVE  /\ wait.answer = "none" =>
                                \A i \in DOMAIN Tail(queue) :
                                    Tail(queue)[i] = wait.call => i = Len(Tail(queue))
                          /\ wait.answer # "none" => Tail(queue) = <<>>
      BY <2>2 DEF WaitIsLast
    <3>2. wait.answer = "none"
      BY <3>1 DEF IInv, QueueInv, WaitIsLast
    <3>3. \A i \in DOMAIN queue : queue[i] = wait.call => i = Len(queue)
      BY <3>1, <3>2 DEF IInv, QueueInv, WaitIsLast
    <3> QED BY <3>2, <3>3, HeadFacts
  <2> QED BY <1>1, <2>1, <2>2
<1>8. WaitIsKnown'
  BY <1>1, <1>2 DEF IInv, QueueInv, WaitIsKnown
<1> QED BY <1>4, <1>5, <1>6, <1>7, <1>8 DEF QueueInv

\* A call that is carried out stores an approved combination.
LEMMA AuthAddsStep == ASSUME IInv, AuthAdds PROVE IInv'
<1> DEFINE h == Head(queue)
           r == [key |-> h.key, type |-> h.type]
<1>0. /\ queue # <<>> /\ Answered("ok") /\ queue' = Tail(queue)
      /\ registered' = [registered EXCEPT ![h.c] = r]
      /\ UNCHANGED <<requests, approvals, calls>>
  BY DEF AuthAdds
<1>1. /\ h.c \in Devices /\ h.key \in Key /\ h.type \in Types
      /\ [c |-> h.c, key |-> h.key, type |-> h.type] \in approvals
  BY <1>0, HeadFacts DEF Call
<1>2. /\ registered \in [Devices -> [key: Key, type: Types] \cup {None}]
      /\ registered' \in [Devices -> [key: Key, type: Types] \cup {None}]
      /\ registered'[h.c] = r
      /\ \A d \in Devices \ {h.c} : registered'[d] = registered[d]
  BY <1>0, <1>1 DEF IInv, TypeOK
<1>3. TypeOK' /\ RequestInv' /\ QueueInv'
  BY <1>0, <1>2, TakeStep
<1>4. RegisteredWasApproved'
  <2>1. SUFFICES ASSUME NEW d \in Devices, registered'[d] # None
                 PROVE  \E a \in approvals : /\ a.c = d
                                             /\ a.key = registered'[d].key
                                             /\ a.type = registered'[d].type
    BY <1>0 DEF RegisteredWasApproved
  <2>2. CASE d = h.c
    BY <1>1, <1>2, <2>2
  <2>3. CASE d # h.c
    BY <1>2, <2>1, <2>3 DEF IInv, RegisteredWasApproved
  <2> QED BY <2>2, <2>3
<1>5. AnsweredIsRegistered'
  <2>1. CASE wait # None /\ wait.call = h
    <3>1. wait' = [wait EXCEPT !.answer = "ok"] /\ wait \in Waiting
      BY <1>0, <2>1, HeadFacts DEF Answered
    <3>2. wait'.call = h
      BY <2>1, <3>1 DEF Waiting
    <3> QED BY <1>2, <3>2 DEF AnsweredIsRegistered
  <2>2. CASE ~ (wait # None /\ wait.call = h)
    <3>1. wait' = wait
      BY <1>0, <2>2 DEF Answered
    <3>2. wait # None => wait.answer = "none"
      BY <1>0 DEF IInv, QueueInv, WaitIsLast
    <3> QED BY <3>1, <3>2 DEF AnsweredIsRegistered
  <2> QED BY <2>1, <2>2
<1> QED BY <1>3, <1>4, <1>5 DEF IInv

\* A call that is refused or lost is taken from the queue and changes nothing else.
LEMMA NotAddedStep == ASSUME IInv, AuthRefuses \/ CallLost PROVE IInv'
<1>0. /\ queue # <<>> /\ queue' = Tail(queue)
      /\ Answered("error") \/ wait' = wait
      /\ UNCHANGED <<requests, registered, approvals, calls>>
  BY DEF AuthRefuses, CallLost, provVars
<1>1. registered' \in [Devices -> [key: Key, type: Types] \cup {None}]
  BY <1>0 DEF IInv, TypeOK
<1>2. TypeOK' /\ RequestInv' /\ QueueInv'
  BY <1>0, <1>1, TakeStep
<1>3. RegisteredWasApproved'
  BY <1>0 DEF IInv, RegisteredWasApproved
<1>4. AnsweredIsRegistered'
  <2>1. wait # None => wait.answer = "none" /\ wait \in Waiting
    BY <1>0, HeadFacts DEF IInv, QueueInv, WaitIsLast
  <2>2. CASE wait' = [wait EXCEPT !.answer = "error"] /\ wait # None
    <3>1. wait'.answer = "error"
      BY <2>1, <2>2 DEF Waiting
    <3> QED BY <3>1 DEF AnsweredIsRegistered
  <2>3. CASE wait' = wait
    BY <2>1, <2>3 DEF AnsweredIsRegistered
  <2> QED BY <1>0, <2>2, <2>3 DEF Answered
<1> QED BY <1>2, <1>3, <1>4 DEF IInv

\* Giving up the wait, for whatever reason, leaves the calls as they are.
LEMMA WaitEnds ==
    ASSUME IInv, wait' = None, UNCHANGED <<queue, registered, approvals, calls>>,
           requests' \in [Devices -> Status \cup {None}], RequestInv'
    PROVE  IInv'
<1>1. TypeOK'
  BY DEF IInv, TypeOK
<1>2. QueueInv'
  BY DEF IInv, QueueInv, CallsApproved, CallsNumbered, WaitIsLast, WaitIsKnown
<1>3. RegisteredWasApproved' /\ AnsweredIsRegistered'
  BY DEF IInv, RegisteredWasApproved, AnsweredIsRegistered
<1> QED BY <1>1, <1>2, <1>3 DEF IInv

\* The answer ends the wait; a token clears the pending flag.
LEMMA SubmitAnsweredStep == ASSUME IInv, SubmitAnswered PROVE IInv'
<1> DEFINE c == wait.call.c
           s == [requests[c] EXCEPT !.pending = FALSE]
<1>0. /\ wait # None /\ wait' = None /\ TypeOK /\ RequestInv
      /\ UNCHANGED <<queue, registered, approvals, calls>>
      /\ requests' = requests \/ requests' = [requests EXCEPT ![c] = s]
  BY DEF SubmitAnswered, IInv
<1>1. requests \in [Devices -> Status \cup {None}] /\ c \in Devices /\ requests[c] # None
  BY <1>0 DEF TypeOK, Waiting, Call, IInv, QueueInv, WaitIsKnown
<1>2. CASE requests' = requests
  BY <1>0, <1>1, <1>2, WaitEnds
     DEF RequestInv, RequestsApproved, UndecidedRetry, PendingIsUndecided
<1>3. CASE requests' = [requests EXCEPT ![c] = s]
  <2>1. requests[c] \in Status
    BY <1>0, <1>1, NoneIsNoRecord
  <2>2. /\ s \in Status /\ s.approved = requests[c].approved /\ s.key = requests[c].key
        /\ s.rejected = requests[c].rejected /\ s.retry = requests[c].retry
        /\ s.type = requests[c].type /\ s.pending = FALSE
    BY <2>1 DEF Status
  <2> HIDE DEF c, s
  <2>3. /\ requests' \in [Devices -> Status \cup {None}]
        /\ requests'[c] = s
        /\ \A d \in Devices \ {c} : requests'[d] = requests[d]
    BY <1>0, <1>1, <1>3, <2>2, RequestsTyped
  <2>4. RequestsApproved'
    BY <1>0, <1>1, <2>2, <2>3 DEF RequestInv, RequestsApproved
  <2>5. UndecidedRetry' /\ PendingIsUndecided'
    BY <1>0, <1>1, <2>2, <2>3 DEF RequestInv, UndecidedRetry, PendingIsUndecided
  <2> QED BY <1>0, <2>3, <2>4, <2>5, WaitEnds DEF RequestInv
<1> QED BY <1>0, <1>2, <1>3

\* A timeout ends the wait and nothing else.
LEMMA SubmitTimesOutStep == ASSUME IInv, SubmitTimesOut PROVE IInv'
BY WaitEnds DEF SubmitTimesOut, IInv, TypeOK, RequestInv, RequestsApproved, UndecidedRetry,
                PendingIsUndecided

\* A restart forgets the requests; the calls under way stay approved.
LEMMA RestartStep == ASSUME IInv, Restart PROVE IInv'
BY WaitEnds DEF Restart, RequestInv, RequestsApproved, UndecidedRetry, PendingIsUndecided

\* The invariant holds when the service starts.
LEMMA InitIInv == ASSUME Init PROVE IInv
<1>1. TypeOK
  BY ProvAssumption DEF Init, TypeOK
<1>2. RequestInv /\ QueueInv
  BY DEF Init, RequestInv, RequestsApproved, UndecidedRetry, PendingIsUndecided, QueueInv,
         CallsApproved, CallsNumbered, WaitIsLast, WaitIsKnown
<1>3. RegisteredWasApproved /\ AnsweredIsRegistered
  BY DEF Init, RegisteredWasApproved, AnsweredIsRegistered
<1> QED BY <1>1, <1>2, <1>3 DEF IInv

\* A step that changes nothing.
LEMMA StutterStep == ASSUME IInv, UNCHANGED vars PROVE IInv'
BY DEF vars, provVars, IInv, TypeOK, RequestInv, RequestsApproved, UndecidedRetry,
       PendingIsUndecided, QueueInv, CallsApproved, CallsNumbered, WaitIsLast, WaitIsKnown,
       RegisteredWasApproved, AnsweredIsRegistered

\* The inductive invariant holds through all handlers, answers and restarts.
THEOREM InductiveInvariant == Spec => []IInv
<1>1. IInv /\ [Next]_vars => IInv'
  <2> SUFFICES ASSUME IInv, [Next]_vars PROVE IInv'
    OBVIOUS
  <2>1. CASE Manage
    BY <2>1, ApproveStep, PreApproveStep, RejectStep DEF Manage
  <2>2. CASE Submit
    BY <2>2, SubmitNewStep, SubmitApprovedStep, SubmitRejectedStep, SubmitRepeatStep DEF Submit
  <2>3. CASE Auth
    BY <2>3, AuthAddsStep, NotAddedStep DEF Auth
  <2>4. CASE SubmitAnswered \/ SubmitTimesOut \/ Restart
    BY <2>4, SubmitAnsweredStep, SubmitTimesOutStep, RestartStep
  <2> QED BY <2>1, <2>2, <2>3, <2>4, StutterStep DEF Next
<1> QED BY <1>1, InitIInv, PTL DEF Spec

\* The type invariant of the provisioning service, for any devices and keys.
THEOREM TypeCorrect == Spec => []TypeOK
<1>1. IInv => TypeOK
  BY DEF IInv
<1> QED BY <1>1, InductiveInvariant, PTL

\* A client never gets into the auth service with a key or type that was not
\* approved for it, whatever timeouts, late answers, repeats and restarts happen.
THEOREM OnlyApproved == Spec => []RegisteredWasApproved
<1>1. IInv => RegisteredWasApproved
  BY DEF IInv
<1> QED BY <1>1, InductiveInvariant, PTL

\* When SubmitRequest is answered with a token, what the auth service holds is
\* what it was asked for: no call given up earlier overwrites it.
THEOREM AnswerMatches == Spec => []AnsweredIsRegistered
<1>1. IInv => AnsweredIsRegistered
  BY DEF IInv
<1> QED BY <1>1, InductiveInvariant, PTL

\* A pending request is undecided and its retry time is in range.
THEOREM PendingUndecided == Spec => []PendingIsUndecided
<1>1. IInv => PendingIsUndecided
  BY DEF IInv, RequestInv
<1> QED BY <1>1, InductiveInvariant, PTL

-----------------------------------------------------------------------------
(* Requests over the message bus.                                            *)

\* A message that waits for onMessage or is being handled, before the method is invoked.
Handling == [pc : {"dispatch", "lookup", "invoke"}, id : Calls]

Replying == [pc : {"respond"}, id : Calls, result : Results]

RpcTypes ==
    /\ main \in [pc : {"cap", "subscribe", "request", "table", "write", "done"},
                        i : 1..Len(Caps)]
    /\ rpcHandler \in BOOLEAN /\ requestHandler \in BOOLEAN
    /\ messages \in Seq(Calls)
    /\ handler = Idle \/ handler \in Handling \/ handler \in Replying
    /\ call \in [Calls -> CallState]
    /\ executed \in [Calls -> Nat]
    /\ inbox \subseteq [id : Calls, result : Results]

\* The handler is set before the transport is told of it, and the table has every capability
\* that main has gone past.
RegisterInv ==
    /\ main.pc # "cap" \/ requestHandler \/ handler.pc # "idle" => rpcHandler
    /\ \A j \in 1..Len(Caps) :
          j < main.i \/ main.pc = "done" => Caps[j] \in capTable

\* A result says what happened to request id.
Says(id, result, cl, ex) ==
    /\ result = "ok" => ex[id] = 1
    /\ result = "unknown" => ex[id] = 0 /\ (cl[id].early \/ cl[id].cap = OtherCap)

\* Request id has been sent, and no reply to it has arrived.
Open(id, cl) == cl[id].state \in {"sent", "timeout"}

\* A request is in one place only: it waits, is being handled, or has a reply on its way.
PlaceInv ==
    /\ \A j, k \in 1..Len(messages) : messages[j] = messages[k] => j = k
    /\ \A j \in 1..Len(messages) :
          /\ Open(messages[j], call) /\ executed[messages[j]] = 0
          /\ handler.pc # "idle" => handler.id # messages[j]
          /\ \A r \in inbox : r.id # messages[j]
    /\ handler.pc # "idle" => Open(handler.id, call) /\ \A r \in inbox : r.id # handler.id
    /\ \A r \in inbox : call[r.id].state # "new"

\* What is said of a request is true, and it is known when it was made.
TruthInv ==
    /\ handler \in Handling => executed[handler.id] = 0
    /\ handler \in Replying => Says(handler.id, handler.result, call, executed) /\ executed[handler.id] <= 1
    /\ \A r \in inbox : Says(r.id, r.result, call, executed)
    /\ \A id \in Calls :
          /\ executed[id] <= 1 /\ Says(id, call[id].state, call, executed)
          /\ call[id].state = "new" => executed[id] = 0
          /\ call[id].state # "new" /\ ~call[id].early => main.pc = "done"

RpcInv == RpcTypes /\ RegisterInv /\ PlaceInv /\ TruthInv

\* The steps of main.
LEMMA RegisterSteps ==
    ASSUME RpcInv, Register
    PROVE  RpcInv'
<1>0. /\ Len(Caps) \in Nat /\ Len(Caps) > 0
      /\ UNCHANGED <<messages, handler, call, executed, inbox>>
      /\ main.i \in 1..Len(Caps) /\ main.pc # "done"
  BY HubRpcAssumption DEF RpcInv, RpcTypes, CapIDs, Register, SetRPCCapability, Subscribe,
         SetRequestHandler, BeginTable, SetTable, busVars, MainAt
<1>1. RpcTypes' /\ RegisterInv'
  <2>1. CASE SetTable
    <3>1. /\ main.pc = "write" /\ capTable' = capTable \union {Caps[main.i]}
          /\ requestHandler' = TRUE /\ rpcHandler' = rpcHandler /\ rpcHandler
          /\ \/ /\ main.i < Len(Caps)
                /\ main' = [pc |-> "cap", i |-> main.i + 1]
             \/ /\ main.i = Len(Caps) /\ main'.pc = "done"
                /\ main'.i = main.i
      BY <1>0, <2>1 DEF SetTable, MainAt, AddedTo, RpcInv, RpcTypes, RegisterInv
    <3>2. main' \in [pc : {"cap", "subscribe", "request", "table", "write", "done"}, i : 1..Len(Caps)]
      BY <1>0, <2>1 DEF SetTable, RpcInv, RpcTypes
    <3>3. RpcTypes'
      BY <1>0, <3>1, <3>2 DEF RpcInv, RpcTypes
    <3> QED BY <1>0, <3>1, <3>3 DEF RpcInv, RegisterInv
  <2>2. CASE SetRPCCapability \/ Subscribe \/ SetRequestHandler \/ BeginTable
    <3>1. /\ main' \in [pc : {"cap", "subscribe", "request", "table", "write", "done"},
                               i : 1..Len(Caps)]
          /\ main'.i = main.i /\ main'.pc # "done" /\ UNCHANGED capTable
          /\ rpcHandler' = TRUE /\ requestHandler' \in BOOLEAN
      BY <2>2 DEF RpcInv, RpcTypes, RegisterInv, SetRPCCapability, Subscribe,
                  SetRequestHandler, BeginTable, MainAt, MainGoes
    <3> QED BY <1>0, <3>1 DEF RpcInv, RpcTypes, RegisterInv
  <2> QED BY <2>1, <2>2 DEF Register
<1>2. PlaceInv' /\ TruthInv'
  BY <1>0 DEF RpcInv, PlaceInv, TruthInv, Says, Open
<1> QED BY <1>1, <1>2 DEF RpcInv

\* A message leaves the queue, and the others stay in order.
LEMMA TailOf ==
    ASSUME NEW q \in Seq(Calls), q # <<>>
    PROVE  /\ Tail(q) \in Seq(Calls) /\ Len(Tail(q)) \in Nat /\ Len(q) \in Nat
           /\ 1 \in 1..Len(q) /\ Head(q) = q[1] /\ q[1] \in Calls
           /\ \A j \in 1..Len(Tail(q)) : j + 1 \in 1..Len(q) /\ Tail(q)[j] = q[j + 1] /\ j + 1 # 1
  OBVIOUS

\* What is registered, and the constants, stay as they are.
LEMMA RegisterFrame ==
    ASSUME RpcInv, UNCHANGED <<main, rpcHandler, requestHandler, capTable>>,
           handler'.pc # "idle" => rpcHandler
    PROVE  RegisterInv'
  BY HubRpcAssumption DEF RpcInv, RegisterInv, CapIDs

\* The queue is emptied or shortened, or a reply is lost.
LEMMA LosesSteps ==
    ASSUME RpcInv, UNCHANGED <<main, rpcHandler, requestHandler, capTable, handler, call, executed>>,
           \/ messages' = messages \/ messages' = <<>> \/ (messages # <<>> /\ messages' = Tail(messages)),
           inbox' \subseteq inbox
    PROVE  RpcInv'
<1>0. messages \in Seq(Calls) /\ Len(messages) \in Nat
  BY DEF RpcInv, RpcTypes
<1>1. /\ messages' \in Seq(Calls)
      /\ \A j \in 1..Len(messages') : \E k \in 1..Len(messages) : messages'[j] = messages[k]
      /\ \A j, k \in 1..Len(messages') : messages'[j] = messages'[k] => j = k
  <2>1. CASE messages' = messages
    BY <1>0, <2>1 DEF RpcInv, PlaceInv
  <2>2. CASE messages' = <<>>
    BY <2>2
  <2>3. CASE messages # <<>> /\ messages' = Tail(messages)
    BY <1>0, <2>3, TailOf DEF RpcInv, PlaceInv
  <2> QED BY <2>1, <2>2, <2>3
<1>2. RpcTypes' /\ RegisterInv'
  <2>1. handler'.pc # "idle" => rpcHandler
    BY DEF RpcInv, RegisterInv
  <2> QED BY <1>1, <2>1, RegisterFrame DEF RpcInv, RpcTypes
<1>3. PlaceInv'
  BY <1>1 DEF RpcInv, PlaceInv, Open
<1>4. TruthInv'
  BY DEF RpcInv, TruthInv, Says
<1> QED BY <1>2, <1>3, <1>4 DEF RpcInv

\* A request is made.
LEMMA PubRequestStep ==
    ASSUME RpcInv, NEW id \in Calls, NEW cap \in CapIDs \union {OtherCap}, PubRequest(id, cap)
    PROVE  RpcInv'
<1> DEFINE c == [state |-> IF subscribed THEN "sent" ELSE "error", cap |-> cap,
                 early |-> main.pc # "done"]
<1>0. /\ messages \in Seq(Calls) /\ Len(messages) \in Nat /\ call \in [Calls -> CallState]
      /\ UNCHANGED <<main, rpcHandler, requestHandler, capTable, handler, executed, inbox>>
      /\ call[id].state = "new" /\ executed[id] = 0 /\ call' = [call EXCEPT ![id] = c]
  BY DEF RpcInv, RpcTypes, TruthInv, PubRequest, serviceVars
<1>1. /\ c \in CallState /\ c.state \in {"sent", "error"} /\ (subscribed => c.state = "sent")
      /\ ~c.early => main.pc = "done"
  BY DEF CallState, Results
<1> HIDE DEF c
<1>2. call' \in [Calls -> CallState] /\ \A k \in Calls : call'[k] = IF k = id THEN c ELSE call[k]
  BY <1>0, <1>1
<1>3. /\ \A j \in 1..Len(messages) : messages[j] \in Calls /\ messages[j] # id
      /\ handler.pc # "idle" => handler.id \in Calls /\ handler.id # id
      /\ \A r \in inbox : r.id \in Calls /\ r.id # id
  <2>1. handler.pc # "idle" => handler.id \in Calls
    BY DEF RpcInv, RpcTypes, Handling, Replying, Idle
  <2>2. \A r \in inbox : r.id \in Calls
    BY DEF RpcInv, RpcTypes
  <2>3. \A k \in Calls : Open(k, call) => k # id
    BY <1>0 DEF Open
  <2>4. \A j \in 1..Len(messages) : messages[j] \in Calls
    BY <1>0
  <2> QED BY <1>0, <2>1, <2>2, <2>3, <2>4 DEF RpcInv, PlaceInv
<1>4. /\ messages' \in Seq(Calls) /\ Len(messages') \in Nat
      /\ \A j \in 1..Len(messages') : (subscribed /\ messages'[j] = id /\ j = Len(messages) + 1)
                                    \/ (j \in 1..Len(messages) /\ messages'[j] = messages[j])
  BY <1>0 DEF PubRequest
<1>5. RpcTypes' /\ RegisterInv'
  <2>1. handler'.pc # "idle" => rpcHandler
    BY <1>0 DEF RpcInv, RegisterInv
  <2> QED BY <1>0, <1>2, <1>4, <2>1, RegisterFrame DEF RpcInv, RpcTypes
<1>6. PlaceInv'
  <2>1. \A j, k \in 1..Len(messages') : messages'[j] = messages'[k] => j = k
    <3>1. \A j, k \in 1..Len(messages) : messages[j] = messages[k] => j = k
      BY DEF RpcInv, PlaceInv
    <3> QED BY <1>3, <1>4, <3>1
  <2>2. ASSUME NEW j \in 1..Len(messages')
        PROVE  /\ Open(messages'[j], call') /\ executed[messages'[j]] = 0
               /\ handler.pc # "idle" => handler.id # messages'[j]
               /\ \A r \in inbox : r.id # messages'[j]
    <3>1. CASE subscribed /\ messages'[j] = id
      <4>1. Open(id, call')
        BY <1>1, <1>2, <3>1 DEF Open
      <4> QED BY <1>0, <1>3, <3>1, <4>1
    <3>2. CASE j \in 1..Len(messages) /\ messages'[j] = messages[j]
      <4>1. /\ Open(messages[j], call) /\ executed[messages[j]] = 0
            /\ handler.pc # "idle" => handler.id # messages[j]
            /\ \A r \in inbox : r.id # messages[j]
        BY <3>2 DEF RpcInv, PlaceInv
      <4>2. messages[j] \in Calls /\ messages[j] # id
        BY <1>3, <3>2
      <4>3. Open(messages[j], call')
        BY <1>2, <4>1, <4>2 DEF Open
      <4> QED BY <3>2, <4>1, <4>3
    <3> QED BY <1>4, <3>1, <3>2
  <2>3. handler.pc # "idle" => Open(handler.id, call') /\ \A r \in inbox : r.id # handler.id
    BY <1>0, <1>2, <1>3 DEF RpcInv, PlaceInv, Open
  <2>4. \A r \in inbox : call'[r.id].state # "new"
    BY <1>2, <1>3 DEF RpcInv, PlaceInv
  <2> QED BY <1>0, <2>1, <2>2, <2>3, <2>4 DEF PlaceInv, Open
<1>7. TruthInv'
  <2>1. \A k \in Calls : \A result : k # id => (Says(k, result, call', executed) <=> Says(k, result, call, executed))
    BY <1>0, <1>2 DEF Says
  <2>2. Says(id, c.state, call', executed)
    BY <1>1 DEF Says
  <2>3. handler \in Handling \/ handler \in Replying => handler.id \in Calls /\ handler.id # id
    BY <1>3 DEF Handling, Replying
  <2> QED BY <1>0, <1>1, <1>2, <1>3, <2>1, <2>2, <2>3 DEF RpcInv, TruthInv
<1> QED BY <1>5, <1>6, <1>7 DEF RpcInv

\* The caller gets a reply, or gives up.
LEMMA CallerSteps ==
    ASSUME RpcInv, (\E r \in inbox : ReceiveReply(r)) \/ (\E id \in Calls : Timeout(id))
    PROVE  RpcInv'
<1>0. /\ call \in [Calls -> CallState] /\ inbox' \subseteq inbox
      /\ UNCHANGED <<main, rpcHandler, requestHandler, capTable, messages, handler, executed>>
  BY DEF RpcInv, RpcTypes, ReceiveReply, Timeout, serviceVars
<1>1. CASE call' = call
  BY <1>0, <1>1, LosesSteps
<1>2. CASE call' # call
  <2>1. PICK id \in Calls, result \in Results \union {"timeout"} :
           /\ call[id].state = "sent" /\ call' = [call EXCEPT ![id].state = result]
           /\ result = "timeout" \/ [id |-> id, result |-> result] \in inbox
    <3>1. CASE \E r \in inbox : ReceiveReply(r)
      <4>1. PICK r \in inbox : ReceiveReply(r)
        BY <3>1
      <4>2. r.id \in Calls /\ r.result \in Results /\ r = [id |-> r.id, result |-> r.result]
        BY DEF RpcInv, RpcTypes
      <4> QED BY <1>2, <4>1, <4>2 DEF ReceiveReply, Set
    <3>2. CASE \E id \in Calls : Timeout(id)
      BY <3>2 DEF Timeout, Set
    <3> QED BY <3>1, <3>2
  <2>2. /\ call' \in [Calls -> CallState] /\ call'[id].state = result
        /\ \A k \in Calls : call'[k].cap = call[k].cap /\ call'[k].early = call[k].early
        /\ \A k \in Calls : k # id => call'[k] = call[k]
    BY <1>0, <2>1 DEF CallState
  <2>3. result # "timeout" =>
          /\ \A j \in 1..Len(messages) : messages[j] # id
          /\ handler.pc # "idle" => handler.id # id
    <3> DEFINE r == [id |-> id, result |-> result]
    <3>1. result # "timeout" => r \in inbox /\ r.id = id
      BY <2>1
    <3> HIDE DEF r
    <3> QED BY <3>1 DEF RpcInv, PlaceInv
  <2>4. RpcTypes' /\ RegisterInv'
    <3>1. handler'.pc # "idle" => rpcHandler
      BY <1>0 DEF RpcInv, RegisterInv
    <3> QED BY <1>0, <2>2, <3>1, RegisterFrame DEF RpcInv, RpcTypes
  <2>5. \A k \in Calls : Open(k, call) /\ (k = id => result = "timeout") => Open(k, call')
    BY <2>2 DEF Open
  <2>6. PlaceInv'
    <3>1. \A j \in 1..Len(messages) : messages[j] \in Calls
      BY DEF RpcInv, RpcTypes
    <3>2. handler.pc # "idle" => handler.id \in Calls
      BY DEF RpcInv, RpcTypes, Handling, Replying, Idle
    <3>3. \A r \in inbox : r.id \in Calls /\ call'[r.id].state # "new"
      BY <2>1, <2>2 DEF RpcInv, RpcTypes, PlaceInv, Results
    <3>4. \A j \in 1..Len(messages) : Open(messages[j], call')
      BY <2>3, <2>5, <3>1 DEF RpcInv, PlaceInv
    <3>5. handler.pc # "idle" => Open(handler.id, call')
      BY <2>3, <2>5, <3>2 DEF RpcInv, PlaceInv
    <3> QED BY <1>0, <3>3, <3>4, <3>5 DEF RpcInv, PlaceInv, Open
  <2>7. TruthInv'
    <3>1. \A k \in Calls : \A s : Says(k, s, call', executed) <=> Says(k, s, call, executed)
      BY <1>0, <2>2 DEF Says
    <3>2. Says(id, result, call, executed)
      <4> DEFINE r == [id |-> id, result |-> result]
      <4>1. result = "timeout" \/ (r \in inbox /\ r.id = id /\ r.result = result)
        BY <2>1
      <4> HIDE DEF r
      <4>2. CASE result = "timeout"
        BY <4>2 DEF Says
      <4>3. CASE r \in inbox /\ r.id = id /\ r.result = result
        BY <4>3 DEF RpcInv, TruthInv
      <4> QED BY <4>1, <4>2, <4>3
    <3>3. handler \in Handling \/ handler \in Replying => handler.id \in Calls
      BY DEF Handling, Replying
    <3>4. \A r \in inbox : r.id \in Calls
      BY DEF RpcInv, RpcTypes
    <3>5. \A k \in Calls : /\ Says(k, call'[k].state, call, executed)
                           /\ (call'[k].state = "new" => call[k].state = "new" \/ k = id)
      BY <2>2, <3>2 DEF RpcInv, TruthInv
    <3>6. result # "new" /\ call[id].state # "new"
      BY <2>1 DEF Results
    <3> QED BY <1>0, <2>2, <3>1, <3>3, <3>4, <3>5, <3>6 DEF RpcInv, TruthInv
  <2> QED BY <2>4, <2>6, <2>7 DEF RpcInv
<1> QED BY <1>1, <1>2

\* A message is taken out of the queue by a handler that is ready for it.
LEMMA OnMessageStep == ASSUME RpcInv, OnMessage PROVE RpcInv'
<1>0. /\ messages \in Seq(Calls) /\ messages # <<>> /\ messages' = Tail(messages) /\ handler.pc = "idle"
      /\ UNCHANGED <<main, rpcHandler, requestHandler, capTable, call, executed, inbox>>
  BY DEF RpcInv, RpcTypes, OnMessage, HandlerAt, serviceVars
<1>1. CASE ~requestHandler
  <2>1. handler' = handler
    BY <1>1 DEF OnMessage
  <2> QED BY <1>0, <2>1, LosesSteps
<1>2. CASE requestHandler
  <2>1. /\ handler' = [pc |-> "dispatch", id |-> messages[1]] /\ messages[1] \in Calls /\ 1 \in 1..Len(messages)
        /\ messages' \in Seq(Calls)
        /\ \A j \in 1..Len(messages') : j + 1 \in 1..Len(messages) /\ messages'[j] = messages[j + 1] /\ j + 1 # 1
    BY <1>0, <1>2, TailOf DEF OnMessage
  <2>2. handler' \in Handling /\ handler' \notin Replying /\ handler'.id = messages[1] /\ handler'.pc = "dispatch"
    BY <2>1 DEF Handling, Replying
  <2>3. rpcHandler
    BY <1>2 DEF RpcInv, RegisterInv
  <2>4. RpcTypes' /\ RegisterInv'
    BY <1>0, <2>1, <2>2, <2>3, RegisterFrame DEF RpcInv, RpcTypes
  <2>5. PlaceInv'
    <3>1. \A j, k \in 1..Len(messages') : messages'[j] = messages'[k] => j = k
      <4> SUFFICES ASSUME NEW j \in 1..Len(messages'), NEW k \in 1..Len(messages'), messages'[j] = messages'[k]
                   PROVE  j = k
        OBVIOUS
      <4>1. j + 1 = k + 1
        BY <2>1 DEF RpcInv, PlaceInv
      <4> QED BY <4>1
    <3>2. \A j \in 1..Len(messages') :
             /\ Open(messages'[j], call) /\ executed[messages'[j]] = 0 /\ messages[1] # messages'[j]
             /\ \A r \in inbox : r.id # messages'[j]
      BY <2>1 DEF RpcInv, PlaceInv
    <3>3. Open(messages[1], call) /\ \A r \in inbox : r.id # messages[1] /\ call[r.id].state # "new"
      BY <2>1 DEF RpcInv, PlaceInv
    <3> QED BY <1>0, <2>2, <3>1, <3>2, <3>3 DEF PlaceInv
  <2>6. TruthInv'
    <3>1. executed[messages[1]] = 0
      BY <2>1 DEF RpcInv, PlaceInv
    <3> QED BY <1>0, <2>2, <3>1 DEF RpcInv, TruthInv
  <2> QED BY <2>4, <2>5, <2>6 DEF RpcInv
<1> QED BY <1>1, <1>2

\* The handler goes on with its message, and may invoke the method once.
LEMMA HandlerGoesOn ==
    ASSUME RpcInv, NEW n \in {0, 1}, handler \in Handling,
           UNCHANGED <<main, rpcHandler, requestHandler, capTable, messages, call, inbox>>,
           executed' = [executed EXCEPT ![handler.id] = n],
           handler' \in Handling \/ handler' \in Replying, handler'.id = handler.id,
           handler' \in Handling => n = 0,
           handler' \in Replying => Says(handler.id, handler'.result, call, executed')
    PROVE  RpcInv'
<1>0. /\ handler.id \in Calls /\ handler.pc # "idle" /\ executed \in [Calls -> Nat]
      /\ messages \in Seq(Calls) /\ \A j \in 1..Len(messages) : messages[j] \in Calls /\ messages[j] # handler.id
      /\ \A r \in inbox : r.id \in Calls /\ r.id # handler.id
      /\ Open(handler.id, call)
  <2>1. handler.id \in Calls /\ handler.pc # "idle"
    BY DEF Handling
  <2>2. /\ executed \in [Calls -> Nat] /\ messages \in Seq(Calls)
        /\ inbox \subseteq [id : Calls, result : Results]
    BY DEF RpcInv, RpcTypes
  <2>3. /\ \A j \in 1..Len(messages) : messages[j] # handler.id
        /\ \A r \in inbox : r.id # handler.id
        /\ Open(handler.id, call)
    BY <2>1 DEF RpcInv, PlaceInv
  <2>4. \A j \in 1..Len(messages) : messages[j] \in Calls
    BY <2>2
  <2>5. \A r \in inbox : r.id \in Calls
    BY <2>2
  <2> QED BY <2>1, <2>2, <2>3, <2>4, <2>5
<1>1. /\ executed' \in [Calls -> Nat] /\ executed'[handler.id] = n
      /\ \A k \in Calls : k # handler.id => executed'[k] = executed[k]
  <2>1. handler.id \in Calls /\ executed \in [Calls -> Nat] /\ n \in Nat
    BY <1>0
  <2> QED BY <2>1
<1>2. rpcHandler
  BY <1>0 DEF RpcInv, RegisterInv
<1>3. RpcTypes' /\ RegisterInv'
  BY <1>1, <1>2, RegisterFrame DEF RpcInv, RpcTypes
<1>4. PlaceInv'
  <2>1. handler'.pc # "idle"
    BY DEF Handling, Replying
  <2>2. \A j \in 1..Len(messages) : executed'[messages[j]] = executed[messages[j]]
    BY <1>0, <1>1
  <2> QED BY <1>0, <2>1, <2>2 DEF RpcInv, PlaceInv
<1>5. TruthInv'
  <2>1. \A k \in Calls : \A s : k # handler.id =>
           (Says(k, s, call, executed') <=> Says(k, s, call, executed))
    BY <1>1 DEF Says
  <2>2. Says(handler.id, call[handler.id].state, call, executed')
    BY <1>0 DEF Says, Open
  <2>3. call[handler.id].state # "new"
    BY <1>0 DEF Open
  <2>4. \A r \in inbox : Says(r.id, r.result, call, executed')
    BY <1>0, <2>1 DEF RpcInv, TruthInv
  <2>5. ASSUME NEW id \in Calls
        PROVE  /\ executed'[id] <= 1 /\ Says(id, call[id].state, call, executed')
               /\ call[id].state = "new" => executed'[id] = 0
               /\ call[id].state # "new" /\ ~call[id].early => main.pc = "done"
    <3>1. /\ executed[id] <= 1 /\ Says(id, call[id].state, call, executed)
          /\ call[id].state = "new" => executed[id] = 0
          /\ call[id].state # "new" /\ ~call[id].early => main.pc = "done"
      BY DEF RpcInv, TruthInv
    <3>2. CASE id = handler.id
      BY <1>1, <2>2, <2>3, <3>1, <3>2, SMTT(30)
    <3>3. CASE id # handler.id
      BY <1>1, <2>1, <3>1, <3>3
    <3> QED BY <3>2, <3>3
  <2>6. handler' \in Handling => executed'[handler'.id] = 0
    BY <1>1
  <2>7. handler' \in Replying => Says(handler'.id, handler'.result, call', executed') /\ executed'[handler'.id] <= 1
    BY <1>1
  <2> QED BY <2>4, <2>5, <2>6, <2>7 DEF TruthInv
<1> QED BY <1>3, <1>4, <1>5 DEF RpcInv

\* The steps of the handler until it has a result.
LEMMA HandlerSteps ==
    ASSUME RpcInv,
           OnRequest \/ Lookup \/ BadRequest \/ \E result \in {"ok", "error"} : Invoke(result)
    PROVE  RpcInv'
<1>0. /\ UNCHANGED <<main, rpcHandler, requestHandler, capTable, messages, call, inbox>>
      /\ handler.pc \in {"dispatch", "lookup", "invoke"}
  BY DEF OnRequest, Lookup, BadRequest, Invoke, HandlerAt, serviceVars
<1>1. handler \in Handling
  BY <1>0 DEF RpcInv, RpcTypes, Idle, Replying
<1>2. handler.id \in Calls /\ executed[handler.id] = 0 /\ executed \in [Calls -> Nat] /\ rpcHandler
  BY <1>0, <1>1 DEF RpcInv, RpcTypes, TruthInv, Handling, RegisterInv
<1>3. executed = [executed EXCEPT ![handler.id] = 0]
  BY <1>2
<1>4. ASSUME NEW result \in Results, handler' = [pc |-> "respond", id |-> handler.id, result |-> result]
      PROVE  handler' \in Replying /\ handler' \notin Handling /\ handler'.id = handler.id /\ handler'.result = result
  BY <1>2, <1>4 DEF Replying, Handling
<1>5. ASSUME NEW pc \in {"lookup", "invoke"}, handler' = [handler EXCEPT !.pc = pc]
      PROVE  handler' \in Handling /\ handler' \notin Replying /\ handler'.id = handler.id
  BY <1>1, <1>5 DEF Replying, Handling
<1>6. CASE OnRequest
  <2>1. handler' = [handler EXCEPT !.pc = "lookup"] /\ executed' = executed
    BY <1>2, <1>6 DEF OnRequest
  <2> QED BY <1>0, <1>1, <1>3, <1>5, <2>1, HandlerGoesOn
<1>7. CASE Lookup
  <2>1. CASE call[handler.id].cap \in capTable
    <3>1. handler' = [handler EXCEPT !.pc = "invoke"] /\ executed' = executed
      BY <1>7, <2>1 DEF Lookup
    <3> QED BY <1>0, <1>1, <1>3, <1>5, <3>1, HandlerGoesOn
  <2>2. CASE call[handler.id].cap \notin capTable
    <3>1. /\ handler' = [pc |-> "respond", id |-> handler.id, result |-> "unknown"] /\ executed' = executed
          /\ "unknown" \in Results
      BY <1>7, <2>2 DEF Lookup, Respond, Results
    <3>2. call[handler.id].early \/ call[handler.id].cap = OtherCap
      <4> SUFFICES ASSUME ~call[handler.id].early, call[handler.id].cap # OtherCap PROVE FALSE
        OBVIOUS
      <4>1. call[handler.id].state # "new" /\ handler.pc # "idle"
        BY <1>0, <1>2 DEF RpcInv, PlaceInv, Open
      <4>2. main.pc = "done"
        BY <1>2, <4>1 DEF RpcInv, TruthInv
      <4>3. call[handler.id] \in CallState
        BY <1>2 DEF RpcInv, RpcTypes
      <4>4. call[handler.id].cap \in CapIDs
        BY <4>3 DEF CallState
      <4>5. Caps \in Seq(CapIDs)
        BY HubRpcAssumption DEF RpcInv, RpcTypes
      <4>6. PICK j \in 1..Len(Caps) : call[handler.id].cap = Caps[j]
        BY <4>4, <4>5 DEF CapIDs
      <4> QED BY <2>2, <4>2, <4>6 DEF RpcInv, RegisterInv
    <3>3. Says(handler.id, "unknown", call, executed')
      BY <1>2, <3>1, <3>2 DEF Says
    <3> QED BY <1>0, <1>1, <1>3, <1>4, <3>1, <3>3, HandlerGoesOn
  <2> QED BY <2>1, <2>2
<1>8. CASE BadRequest
  <2>1. /\ handler' = [pc |-> "respond", id |-> handler.id, result |-> "error"] /\ executed' = executed
        /\ "error" \in Results /\ Says(handler.id, "error", call, executed')
    BY <1>8 DEF BadRequest, Respond, Results, Says
  <2> QED BY <1>0, <1>1, <1>3, <1>4, <2>1, HandlerGoesOn
<1>9. ASSUME NEW result \in {"ok", "error"}, Invoke(result) PROVE RpcInv'
  <2>1. /\ handler' = [pc |-> "respond", id |-> handler.id, result |-> result]
        /\ executed' = [executed EXCEPT ![handler.id] = @ + 1]
        /\ result \in Results
    BY <1>9 DEF Invoke, Respond, Results
  <2>2. executed' = [executed EXCEPT ![handler.id] = 1] /\ executed'[handler.id] = 1
    BY <1>2, <2>1
  <2>3. Says(handler.id, result, call, executed')
    BY <2>2, <1>9 DEF Says
  <2> QED BY <1>0, <1>1, <1>4, <2>1, <2>2, <2>3, HandlerGoesOn
<1> QED BY <1>6, <1>7, <1>8, <1>9

\* The reply is sent, and the handler is ready for the next message.
LEMMA RespondStep == ASSUME RpcInv, RespondMsg PROVE RpcInv'
<1> DEFINE a == [id |-> handler.id, result |-> handler.result]
<1>0. /\ UNCHANGED <<main, rpcHandler, requestHandler, capTable, messages, call, executed>>
      /\ handler.pc = "respond" /\ handler' = Idle /\ inbox' = inbox \union {a}
  BY DEF RespondMsg, HandlerAt, serviceVars
<1>1. handler \in Replying
  BY <1>0 DEF RpcInv, RpcTypes, Idle, Handling
<1>2. /\ handler.id \in Calls /\ handler.result \in Results /\ Open(handler.id, call)
      /\ Says(handler.id, handler.result, call, executed)
      /\ \A j \in 1..Len(messages) : handler.id # messages[j]
  BY <1>0, <1>1 DEF Replying, RpcInv, PlaceInv, TruthInv
<1>3. a \in [id : Calls, result : Results] /\ a.id = handler.id /\ a.result = handler.result
  BY <1>2
<1>4. handler'.pc = "idle" /\ handler' \notin Handling /\ handler' \notin Replying
  BY <1>0 DEF Idle, Handling, Replying
<1> HIDE DEF a
<1>5. RpcTypes' /\ RegisterInv'
  BY <1>0, <1>3, <1>4, RegisterFrame DEF RpcInv, RpcTypes
<1>6. PlaceInv'
  <2>1. call[handler.id].state # "new"
    BY <1>2 DEF Open
  <2>2. \A r \in inbox' : r \in inbox \/ r.id = handler.id
    BY <1>0, <1>3
  <2>3. /\ \A j \in 1..Len(messages) : \A r \in inbox : r.id # messages[j]
        /\ \A r \in inbox : call[r.id].state # "new"
    BY DEF RpcInv, PlaceInv
  <2>4. \A j \in 1..Len(messages) : \A r \in inbox' : r.id # messages[j]
    BY <1>2, <2>2, <2>3
  <2>5. \A r \in inbox' : call[r.id].state # "new"
    BY <2>1, <2>2, <2>3
  <2>6. /\ \A j, k \in 1..Len(messages) : messages[j] = messages[k] => j = k
        /\ \A j \in 1..Len(messages) : Open(messages[j], call) /\ executed[messages[j]] = 0
    BY DEF RpcInv, PlaceInv
  <2>7. messages' = messages /\ call' = call /\ executed' = executed
    BY <1>0
  <2> QED BY <1>4, <2>4, <2>5, <2>6, <2>7 DEF PlaceInv
<1>7. TruthInv'
  BY <1>0, <1>2, <1>3, <1>4 DEF RpcInv, TruthInv
<1> QED BY <1>5, <1>6, <1>7 DEF RpcInv

\* Every step keeps the invariant.
LEMMA NextRpc == ASSUME RpcInv, [RpcNext]_rpcVars PROVE RpcInv'
<1>1. CASE Serve
  BY <1>1, OnMessageStep, HandlerSteps, RespondStep DEF Serve
<1>2. CASE LoseRequest \/ Disconnect \/ ConnectionLost \/ (\E r \in inbox : LoseReply(r))
           \/ Ended \/ UNCHANGED rpcVars
  <2>1. /\ UNCHANGED <<main, rpcHandler, requestHandler, capTable, handler, call, executed>>
        /\ messages' = messages \/ messages' = <<>> \/ (messages # <<>> /\ messages' = Tail(messages))
        /\ inbox' \subseteq inbox
    BY <1>2 DEF LoseRequest, Disconnect, ConnectionLost, LoseReply, Ended, rpcVars, serviceVars
  <2> QED BY <2>1, LosesSteps
<1> QED BY <1>1, <1>2, RegisterSteps, PubRequestStep, CallerSteps DEF RpcNext

\* In the beginning nothing has been asked.
LEMMA InitRpc == ASSUME RpcInit PROVE RpcInv
<1>0. Caps \in Seq(CapIDs) /\ Caps # <<>> /\ Len(Caps) \in Nat /\ Len(Caps) > 0
  BY HubRpcAssumption
<1>1. Idle.pc = "idle" /\ Idle \notin Handling /\ Idle \notin Replying
  BY DEF Idle, Handling, Replying
<1>2. \A id \in Calls : call[id].state = "new" /\ executed[id] = 0
  BY DEF RpcInit
<1>3. RpcTypes
  <2>1. call \in [Calls -> CallState] /\ executed \in [Calls -> Nat]
    BY DEF RpcInit, CallState
  <2>2. main.i \in 1..Len(Caps) /\ main = [pc |-> "cap", i |-> 1]
    BY <1>0 DEF RpcInit
  <2>3. /\ messages \in Seq(Calls) /\ handler = Idle /\ inbox = {}
        /\ rpcHandler = FALSE /\ requestHandler = FALSE
    BY DEF RpcInit
  <2> QED BY <2>1, <2>2, <2>3 DEF RpcTypes
<1>4. RegisterInv
  BY <1>0, <1>1 DEF RpcInit, RegisterInv
<1>5. handler = Idle /\ inbox = {} /\ messages = <<>> /\ Len(messages) = 0
  BY DEF RpcInit
<1>6. PlaceInv
  BY <1>1, <1>5 DEF PlaceInv
<1>7. TruthInv
  BY <1>1, <1>2, <1>5 DEF TruthInv, Says
<1> QED BY <1>3, <1>4, <1>6, <1>7 DEF RpcInv

\* The invariant of requests is inductive, whatever the capabilities, the requests, and the
\* number of messages lost.
THEOREM RpcInvariance == RpcSpec => []RpcInv
<1>1. RpcInit => RpcInv
  BY InitRpc
<1>2. RpcInv /\ [RpcNext]_rpcVars => RpcInv'
  BY NextRpc
<1> QED BY <1>1, <1>2, PTL DEF RpcSpec

\* What a reply of onRequest says is what happened, whenever the request arrived and whatever
\* messages were lost.
THEOREM ReplyIsTrueHolds == RpcSpec => []ReplyIsTrue
<1>1. RpcInv => ReplyIsTrue
  BY DEF RpcInv, TruthInv, Says, ReplyIsTrue
<1> QED BY <1>1, RpcInvariance, PTL

=============================================================================
