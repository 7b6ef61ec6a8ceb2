---------------------------- MODULE StateService ----------------------------
(***************************************************************************)
(* The state service: clients keep records, each client in a bucket of its *)
(* own.  Requests are handled one at a time by the goroutine of the        *)
(* subscription; Stop closes the store from the main goroutine while       *)
(* requests may still arrive.  The process can be started again.           *)
(***************************************************************************)
EXTENDS BoltStore

CONSTANTS
    Rpc,        \* the goroutine that handles requests
    MaxRestarts \* bound on the number of restarts

ASSUME StateAssumption == Rpc \in Threads /\ MaxRestarts \in Nat

VARIABLES
    request,   \* the request being handled
    reply,     \* the last reply to a Get
    written,   \* per client: the records whose writing was acknowledged
    restarts   \* number of restarts

stateVars == <<vars, request, reply, written, restarts>>

-----------------------------------------------------------------------------
\* State

Senders == BucketIDs

Request == [sender: Senders, method: {"Get", "GetMultiple"}, keys: SUBSET Keys]
           \cup [sender: Senders, method: {"Write"}, batch: Batches]

\* found is the flag in the reply of Get, which is an error if it is not set.
Reply == [sender: Senders, method: {"Get", "GetMultiple"}, keys: SUBSET Keys, found: BOOLEAN, docs: Docs]

\* The type invariant.
StateTypeOK ==
    /\ TypeOK
    /\ request \in Request \cup {None}
    /\ reply \in Reply \cup {None}
    /\ written \in [Senders -> Content]
    /\ restarts \in 0..MaxRestarts

StateInit ==
    /\ Init
    /\ request = None
    /\ reply = None
    /\ written = [s \in Senders |-> EmptyContent]
    /\ restarts = 0

-----------------------------------------------------------------------------
\* Requests

\* Mutant: the bucket is that of the service.
BucketOf_Shared(s) == CHOOSE b \in BucketIDs : TRUE

\* The bucket of the client that sends the request.
BucketOf(s) == s

\* Get and GetMultiple read in a transaction ...
GetRecords(s, method, ks) ==
    /\ request = None
    /\ method = "Get" => Cardinality(ks) = 1
    /\ Read(Rpc, BucketOf(s), ks)
    /\ request' = [sender |-> s, method |-> method, keys |-> ks]
    /\ reply' = None
    /\ UNCHANGED <<written, restarts>>

\* ... and convert the values after it.
ConvertRecords ==
    /\ request # None
    /\ Use(Rpc)
    /\ UNCHANGED <<request, reply, written, restarts>>

\* Get reports a key as missing if its bucket exists, but not if it has never
\* been written to.
ReplyRecords ==
    LET docs == op[Rpc].docs
        missing == docs = <<>> /\ data[BucketOf(request.sender)] # None /\ request.method = "Get"
    IN /\ request # None
       /\ Used(Rpc)
       /\ reply' = [sender |-> request.sender, method |-> request.method,
                    keys |-> request.keys, found |-> ~ missing, docs |-> op[Rpc].seen]
       /\ request' = None
       /\ UNCHANGED <<written, restarts>>

\* Set, SetMultiple and Delete
WriteRecords(s, batch) ==
    /\ request = None
    /\ BeginWrite(Rpc, BucketOf(s), batch)
    /\ request' = [sender |-> s, method |-> "Write", batch |-> batch]
    /\ reply' = None
    /\ UNCHANGED <<written, restarts>>

WriteRecord ==
    /\ \E k \in Keys : Put(Rpc, k)
    /\ UNCHANGED <<request, reply, written, restarts>>

\* An invalid key: the client gets an error.
WriteFails ==
    /\ PutFails(Rpc)
    /\ request' = None
    /\ UNCHANGED <<reply, written, restarts>>

GrowStore ==
    /\ Grow(Rpc)
    /\ UNCHANGED <<request, reply, written, restarts>>

\* The write is committed and acknowledged.
WriteDone ==
    /\ Commit(Rpc) \/ CommitGrown(Rpc)
    /\ written' = [written EXCEPT ![request.sender] =
          [k \in Keys |-> IF k \in DOMAIN request.batch THEN request.batch[k]
                          ELSE written[request.sender][k]]]
    /\ request' = None
    /\ UNCHANGED <<reply, restarts>>

-----------------------------------------------------------------------------
\* Stop and restart

Stop ==
    /\ Close \/ CloseLocks \/ CloseDone
    /\ UNCHANGED <<request, reply, written, restarts>>

\* The process has ended and is started again; the file remains.
Restart ==
    /\ store = "closed"
    /\ restarts < MaxRestarts
    /\ restarts' = restarts + 1
    /\ store' = "open"
    /\ op' = [t \in Threads |-> None]
    /\ growing' = FALSE
    /\ request' = None
    /\ reply' = None
    /\ UNCHANGED <<data, written>>

StateStopped == store = "closed" /\ UNCHANGED stateVars

-----------------------------------------------------------------------------
\* Specification

StateNext ==
    \/ \E s \in Senders, method \in {"Get", "GetMultiple"}, ks \in (SUBSET Keys) \ {{}} :
          GetRecords(s, method, ks)
    \/ ConvertRecords
    \/ ReplyRecords
    \/ \E s \in Senders, batch \in Batches : WriteRecords(s, batch)
    \/ WriteRecord
    \/ WriteFails
    \/ GrowStore
    \/ WriteDone
    \/ Stop
    \/ Restart
    \/ StateStopped

StateSpec == StateInit /\ [][StateNext]_stateVars

\* A request that is handled goes on, and so does closing the store.
StateFairSpec ==
    /\ StateSpec
    /\ WF_stateVars(WriteRecord \/ WriteFails \/ WriteDone)
    /\ SF_stateVars(Stop /\ store # "open")

-----------------------------------------------------------------------------
\* Properties

\* A client reads exactly the records whose writing was acknowledged to it and
\* to nobody else, also after a batch that failed and after a restart.
ReadsOwnWrites ==
    reply # None =>
        reply.docs = [k \in {k \in reply.keys : written[reply.sender][k] # None}
                        |-> written[reply.sender][k]]

\* Stopping ends with the store closed, however many requests still arrive.
StopEnds == store = "closing" ~> store = "closed"

-----------------------------------------------------------------------------
\* What comments say and the code does not do

\* "Flag, the record was found (true)"
FoundIsStored ==
    reply # None => (reply.method = "Get" /\ reply.found => reply.docs # <<>>)

=============================================================================
