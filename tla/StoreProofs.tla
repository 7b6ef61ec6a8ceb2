---------------------------- MODULE StoreProofs -----------------------------
(***************************************************************************)
(* Batches are atomic for any number of goroutines, buckets and keys.  The *)
(* writer works on a page of its own, in which the keys that are done have *)
(* the values of the batch and the others what the bucket holds; nobody    *)
(* else changes the bucket meanwhile.                                      *)
(*                                                                         *)
(* On top of it, clients of the state service read what was acknowledged   *)
(* to them, for any number of clients, records and restarts.               *)
(*                                                                         *)
(* The latest values of the history service, which it keeps in memory and  *)
(* saves in another bucket, are never older than what is in the store or   *)
(* being saved.                                                            *)
(***************************************************************************)
EXTENDS StateService, History, WellFoundedInduction, TLAPS

-----------------------------------------------------------------------------
(* The store.                                                                *)

\* The page of a writer: done are the keys of the batch that are not left.
PageOf(w) ==
    [k \in Keys |-> IF k \in DOMAIN w.batch \ w.left THEN w.batch[k] ELSE ContentOf(w.b)[k]]

\* The operation r is a read that is over.
IsRead(r) ==
    /\ r = [do |-> "read", docs |-> r.docs, commits |-> r.commits]
    /\ r.commits \in Nat

\* The operation w is a write that is under way.
IsWrite(w) ==
    /\ w = [do |-> "write", b |-> w.b, batch |-> w.batch, left |-> w.left, page |-> w.page]
    /\ w.b \in BucketIDs
    /\ w.left \subseteq DOMAIN w.batch
    /\ EmptyKey \in DOMAIN w.batch => EmptyKey \in w.left
    /\ w.page = PageOf(w)

IInv ==
    /\ data = [b \in BucketIDs |-> data[b]]
    /\ \A b \in BucketIDs : data[b] = None \/ data[b] = [k \in Keys |-> data[b][k]]
    /\ op = [t \in Threads |-> op[t]]
    /\ \A t \in Threads : Does(t, "write") => IsWrite(op[t])
    /\ \A t \in Threads : Does(t, "read") => IsRead(op[t])
    /\ \A t, u \in Threads : Does(t, "write") /\ Does(u, "write") => t = u
    /\ \A t \in Threads : Does(t, "write") /\ growing => op[t].left = {}

-----------------------------------------------------------------------------
\* A write that a step leaves alone stays as it is while no bucket changes.
LEMMA SameWrite ==
    ASSUME NEW u \in Threads, IsWrite(op[u]), op'[u] = op[u], data' = data
    PROVE  IsWrite(op[u])'
<1>1. \A b : ContentOf(b)' = ContentOf(b)
  BY DEF ContentOf
<1>2. PageOf(op[u])' = PageOf(op[u])
  BY <1>1 DEF PageOf
<1> QED BY <1>2 DEF IsWrite

\* Goroutine t begins or ends an operation that does not write.
LEMMA OtherOp ==
    ASSUME IInv, NEW t \in Threads, NEW o, op' = [op EXCEPT ![t] = o],
           o # None => o.do # "write",
           o # None /\ o.do = "read" => IsRead(o),
           UNCHANGED <<data, growing>>
    PROVE  IInv'
<1>1. op'[t] = o /\ (\A u \in Threads : u # t => op'[u] = op[u]) /\ op' = [u \in Threads |-> op'[u]]
  BY DEF IInv
<1>2. \A u \in Threads : Does(u, "write")' => u # t /\ Does(u, "write") /\ op'[u] = op[u]
  BY <1>1 DEF Does
<1>3. \A u \in Threads : Does(u, "read")' => IsRead(op'[u])
  BY <1>1 DEF Does, IInv
<1>4. \A u \in Threads : Does(u, "write")' => IsWrite(op[u])'
  BY <1>2, SameWrite DEF IInv
<1> QED BY <1>1, <1>2, <1>3, <1>4 DEF IInv

\* To a commit the reads of other goroutines stay reads.
LEMMA ReadStays ==
    ASSUME IInv, NEW t \in Threads, NEW n \in Nat, Committed(t, n),
           NEW u \in Threads, u # t, Does(u, "read")
    PROVE  IsRead(op'[u])
<1>1. IsRead(op[u]) /\ Reuse \in Nat
  BY DEF IInv, Reuse
<1>2. CASE op[u].commits + n <= Reuse
  <2>1. op'[u] = [op[u] EXCEPT !.commits = @ + n]
    BY <1>1, <1>2 DEF Committed, IsRead
  <2> QED BY <1>1, <2>1 DEF IsRead
<1>3. CASE op[u].commits + n > Reuse
  <2>1. op'[u] = [op[u] EXCEPT !.commits = Reuse]
    BY <1>1, <1>3 DEF Committed, IsRead
  <2> QED BY <1>1, <2>1 DEF IsRead
<1> QED BY <1>1, <1>2, <1>3 DEF IsRead

\* A commit leaves no writer behind.
LEMMA CommitStep ==
    ASSUME IInv, NEW t \in Threads, NEW n \in Nat, Does(t, "write"), Committed(t, n)
    PROVE  IInv'
<1>1. \A u \in Threads : ~ Does(u, "write")'
  <2> SUFFICES ASSUME NEW u \in Threads PROVE ~ Does(u, "write")'
    OBVIOUS
  <2>1. CASE u = t
    BY <2>1 DEF Committed, Does
  <2>2. CASE u # t /\ Does(u, "read")
    <3>1. IsRead(op'[u])
      BY <2>2, ReadStays
    <3> QED BY <3>1 DEF Does, IsRead
  <2>3. CASE u # t /\ ~ Does(u, "read")
    <3>1. op'[u] = op[u]
      BY <2>3 DEF Committed
    <3>2. ~ Does(u, "write")
      BY <2>3 DEF IInv
    <3> QED BY <3>1, <3>2 DEF Does
  <2> QED BY <2>1, <2>2, <2>3
<1>2. ASSUME NEW u \in Threads, Does(u, "read")'
      PROVE  IsRead(op'[u])
  <2>1. u # t
    BY <1>2 DEF Committed, Does
  <2>2. CASE Does(u, "read")
    BY <2>1, <2>2, ReadStays
  <2>3. CASE ~ Does(u, "read")
    <3>1. op'[u] = op[u]
      BY <2>1, <2>3 DEF Committed
    <3> QED BY <1>2, <2>3, <3>1 DEF Does
  <2> QED BY <2>2, <2>3
<1>3. /\ data' = [b \in BucketIDs |-> data'[b]]
      /\ \A b \in BucketIDs : data'[b] = None \/ data'[b] = [k \in Keys |-> data'[b][k]]
  <2>1. op[t].page = [k \in Keys |-> op[t].page[k]]
    BY DEF IInv, IsWrite, PageOf
  <2> QED BY <2>1 DEF Committed, IInv
<1>4. op' = [u \in Threads |-> op'[u]]
  BY DEF Committed
<1> QED BY <1>1, <1>2, <1>3, <1>4 DEF IInv

\* One put adds its key to the part of the batch that is done.
LEMMA PutStep ==
    ASSUME IInv, NEW t \in Threads, NEW k \in Keys, Put(t, k)
    PROVE  IInv'
<1> DEFINE w == op[t]
           n == [do |-> "write", b |-> w.b, batch |-> w.batch, left |-> w.left \ {k},
                 page |-> [w.page EXCEPT ![k] = w.batch[k]]]
<1>1. IsWrite(w) /\ k \in w.left /\ k # EmptyKey
  BY DEF Put, IInv
<1>2. w = [do |-> "write", b |-> w.b, batch |-> w.batch, left |-> w.left, page |-> w.page]
  BY <1>1 DEF IsWrite
<1>3. op'[t] = n
  <2> DEFINE a == [op EXCEPT ![t].page[k] = op[t].batch[k]]
  <2>1. op' = [a EXCEPT ![t].left = @ \ {k}]
    BY DEF Put
  <2>2. a = [op EXCEPT ![t] = [w EXCEPT !.page = [w.page EXCEPT ![k] = w.batch[k]]]]
    OBVIOUS
  <2>3. t \in DOMAIN a /\ a[t] = [w EXCEPT !.page = [w.page EXCEPT ![k] = w.batch[k]]]
    BY <2>2 DEF IInv
  <2>4. a[t] = [do |-> "write", b |-> w.b, batch |-> w.batch, left |-> w.left,
                page |-> [w.page EXCEPT ![k] = w.batch[k]]]
    BY <1>2, <2>3
  <2>5. op'[t] = [a[t] EXCEPT !.left = @ \ {k}]
    BY <2>1, <2>3
  <2> HIDE DEF a, w
  <2> QED BY <2>4, <2>5
<1>4. /\ \A u \in Threads : u # t => op'[u] = op[u]
      /\ op' = [u \in Threads |-> op'[u]]
      /\ data' = data /\ growing' = growing
  BY DEF Put, IInv
<1>5. IsWrite(op[t])'
  <2>1. \A b : ContentOf(b)' = ContentOf(b)
    BY <1>4 DEF ContentOf
  <2>2. w.page = PageOf(w) /\ w.left \subseteq DOMAIN w.batch
    BY <1>1 DEF IsWrite
  <2>3. [w.page EXCEPT ![k] = w.batch[k]] =
          [j \in Keys |-> IF j \in DOMAIN w.batch \ (w.left \ {k}) THEN w.batch[j]
                          ELSE ContentOf(w.b)[j]]
    BY <1>1, <2>2 DEF PageOf
  <2>4. PageOf(op[t])' = n.page
    BY <1>3, <2>1, <2>3 DEF PageOf
  <2> QED BY <1>1, <1>3, <2>4 DEF IsWrite
<1>6. \A u \in Threads : Does(u, "write")' => u = t
  BY <1>4 DEF Does, IInv, Put
<1>7. growing => op[t].left = {}
  BY DEF IInv, Put
<1>8. \A u \in Threads : Does(u, "read")' => u # t
  BY <1>3 DEF Does
<1>9. \A u \in Threads : Does(u, "read")' => IsRead(op'[u])
  BY <1>4, <1>8 DEF Does, IInv
<1> QED BY <1>1, <1>4, <1>5, <1>6, <1>7, <1>9 DEF IInv

\* The first page of a write is what the bucket holds.
LEMMA BeginStep ==
    ASSUME IInv, NEW t \in Threads, NEW b \in BucketIDs, NEW batch \in Batches,
           BeginWrite(t, b, batch)
    PROVE  IInv'
<1>1. op'[t] = [do |-> "write", b |-> b, batch |-> batch, left |-> DOMAIN batch, page |-> ContentOf(b)]
  BY DEF BeginWrite, IInv
<1>2. /\ \A u \in Threads : u # t => op'[u] = op[u]
      /\ op' = [u \in Threads |-> op'[u]]
      /\ data' = data /\ growing' = growing /\ ~ growing
  BY DEF BeginWrite, IInv, CanBegin
<1>3. IsWrite(op[t])'
  <2>1. ContentOf(b)' = ContentOf(b)
    BY <1>2 DEF ContentOf
  <2>2. ContentOf(b) = [k \in Keys |-> ContentOf(b)[k]]
    BY DEF IInv, ContentOf, EmptyContent
  <2>3. PageOf(op[t])' = ContentOf(b)
    BY <1>1, <2>1, <2>2 DEF PageOf
  <2> QED BY <1>1, <2>3 DEF IsWrite
<1>4. \A u \in Threads : Does(u, "write")' => u = t
  BY <1>2 DEF Does, BeginWrite, Writing
<1>5. \A u \in Threads : Does(u, "read")' => IsRead(op'[u])
  BY <1>1, <1>2 DEF Does, IInv
<1> QED BY <1>2, <1>3, <1>4, <1>5 DEF IInv

-----------------------------------------------------------------------------
\* A step that leaves the store alone keeps its invariant.
LEMMA StoreSame ==
    ASSUME IInv, UNCHANGED <<data, op, growing>>
    PROVE  IInv'
<1>1. \A u \in Threads : IsWrite(op[u]) => IsWrite(op[u])'
  BY SameWrite
<1>2. \A u \in Threads : IsRead(op[u]) => IsRead(op[u])'
  BY DEF IsRead
<1> QED BY <1>1, <1>2 DEF IInv, Does

\* A step of one goroutine.
LEMMA StepKeeps ==
    ASSUME IInv, NEW t \in Threads, Step(t)
    PROVE  IInv'
<1>1. ASSUME NEW b \in BucketIDs, NEW batch \in Batches, BeginWrite(t, b, batch) PROVE IInv'
  BY <1>1, BeginStep
<1>2. ASSUME NEW k \in Keys, Put(t, k) PROVE IInv'
  BY <1>2, PutStep
<1>3. CASE PutFails(t) \/ Used(t) \/ Release(t)
  BY <1>3, OtherOp DEF PutFails, Used, Release
<1>4. CASE Commit(t)
  BY <1>4, CommitStep DEF Commit
<1>5. CASE Grow(t)
  <2>1. \A u \in Threads : IsWrite(op[u]) => IsWrite(op[u])'
    BY <1>5, SameWrite DEF Grow
  <2>2. \A u \in Threads : IsRead(op[u]) => IsRead(op[u])'
    BY <1>5 DEF IsRead, Grow
  <2>3. \A u \in Threads : Does(u, "write") => op[u].left = {}
    BY <1>5 DEF IInv, Grow
  <2> QED BY <1>5, <2>1, <2>2, <2>3 DEF IInv, Does, Grow
<1>6. CASE CommitGrown(t)
  <2>1. Reuse \in Nat
    BY DEF Reuse
  <2> QED BY <1>6, <2>1, CommitStep DEF CommitGrown
<1>7. ASSUME NEW b \in BucketIDs, NEW ks \in SUBSET Keys, Read(t, b, ks) PROVE IInv'
  <2> DEFINE o == [do |-> "read", docs |-> Found(b, ks), commits |-> 0]
  <2>1. IsRead(o) /\ o.do # "write"
    BY DEF IsRead
  <2>2. op' = [op EXCEPT ![t] = o] /\ UNCHANGED <<data, growing>>
    BY <1>7 DEF Read
  <2> HIDE DEF o
  <2> QED BY <2>1, <2>2, OtherOp
<1>8. CASE Use(t)
  <2>1. PICK seen : op' = [op EXCEPT ![t] = [do |-> "seen", docs |-> op[t].docs, seen |-> seen]]
    BY <1>8 DEF Use
  <2> DEFINE o == [do |-> "seen", docs |-> op[t].docs, seen |-> seen]
  <2>2. o.do = "seen"
    OBVIOUS
  <2>3. op' = [op EXCEPT ![t] = o] /\ UNCHANGED <<data, growing>>
    BY <1>8, <2>1 DEF Use
  <2> HIDE DEF o
  <2> QED BY <2>2, <2>3, OtherOp
<1>9. ASSUME NEW b \in BucketIDs, Cursor(t, b) PROVE IInv'
  <2> DEFINE o == [do |-> "cursor", b |-> b, snapshot |-> data[b]]
  <2>1. o.do = "cursor"
    OBVIOUS
  <2>2. op' = [op EXCEPT ![t] = o] /\ UNCHANGED <<data, growing>>
    BY <1>9 DEF Cursor
  <2> HIDE DEF o
  <2> QED BY <2>1, <2>2, OtherOp
<1> QED BY <1>1, <1>2, <1>3, <1>4, <1>5, <1>6, <1>7, <1>8, <1>9 DEF Step

\* IInv is an invariant of the store.
THEOREM Invariance == Spec => []IInv
<1>1. Init => IInv
  BY DEF Init, IInv, Does
<1>2. ASSUME IInv, [Next]_vars PROVE IInv'
  <2>1. CASE UNCHANGED <<data, op, growing>>
    BY <1>2, <2>1, StoreSame
  <2>2. ASSUME NEW t \in Threads, Step(t) PROVE IInv'
    BY <1>2, <2>2, StepKeeps
  <2>3. CASE Close \/ CloseLocks \/ CloseDone \/ ClosePanics \/ Stopped
    BY <2>1, <2>3 DEF Close, CloseLocks, CloseDone, ClosePanics, Stopped, vars
  <2> QED BY <1>2, <2>1, <2>2, <2>3 DEF Next, vars
<1> QED BY <1>1, <1>2, PTL DEF Spec

\* A bucket changes only to the result of one whole batch on what it held: what
\* SetMultiple has put before an invalid key, or has not committed, is not seen.
THEOREM BatchIsAtomicHolds == Spec => BatchIsAtomic
<1> DEFINE Atomic ==
       data' # data =>
        \E t \in Threads :
            /\ Does(t, "write")
            /\ EmptyKey \notin DOMAIN op[t].batch
            /\ data' = [data EXCEPT ![op[t].b] =
                          [k \in Keys |-> IF k \in DOMAIN op[t].batch THEN op[t].batch[k]
                                          ELSE ContentOf(op[t].b)[k]]]
<1>1. ASSUME IInv, [Next]_vars PROVE [Atomic]_vars
  <2>1. ASSUME NEW t \in Threads, NEW n, Does(t, "write"), op[t].left = {}, Committed(t, n)
        PROVE  Atomic
    <3>1. IsWrite(op[t])
      BY <1>1, <2>1 DEF IInv
    <3>2. EmptyKey \notin DOMAIN op[t].batch
      BY <2>1, <3>1 DEF IsWrite
    <3>3. op[t].page = [k \in Keys |-> IF k \in DOMAIN op[t].batch THEN op[t].batch[k]
                                       ELSE ContentOf(op[t].b)[k]]
      BY <2>1, <3>1 DEF IsWrite, PageOf
    <3> QED BY <2>1, <3>2, <3>3 DEF Committed
  <2>2. ASSUME NEW t \in Threads, Commit(t) \/ CommitGrown(t) PROVE Atomic
    <3>1. Does(t, "write") /\ op[t].left = {}
      BY <1>1, <2>2 DEF Commit, CommitGrown, IInv
    <3>2. \E n : Committed(t, n)
      BY <2>2 DEF Commit, CommitGrown
    <3> QED BY <2>1, <3>1, <3>2
  <2>3. CASE \A t \in Threads : ~ Commit(t) /\ ~ CommitGrown(t)
    <3>1. data' = data
      BY <1>1, <2>3 DEF Next, Step, BeginWrite, Put, PutFails, Grow, Read, Use, Used, Cursor, Release,
                        Close, CloseLocks, CloseDone, ClosePanics, Stopped, vars
    <3> QED BY <3>1
  <2> HIDE DEF Atomic
  <2> QED BY <2>2, <2>3
<1> QED BY <1>1, Invariance, PTL DEF Spec, BatchIsAtomic

-----------------------------------------------------------------------------
\* The state service

\* What a reader of keys ks of sender s is to be told.
Acknowledged(s, ks) == [k \in {k \in ks : written[s][k] # None} |-> written[s][k]]

\* What the handler's operation has to do with the request it handles.
HandlerOK ==
    /\ Does(Rpc, "write") => request = [sender |-> op[Rpc].b, method |-> "Write", batch |-> op[Rpc].batch]
    /\ Does(Rpc, "write") => op[Rpc].batch \in Batches
    /\ Does(Rpc, "read") => op[Rpc].docs = Acknowledged(request.sender, request.keys)
    /\ Does(Rpc, "read") => op[Rpc].commits = 0
    /\ Does(Rpc, "seen") => op[Rpc].seen = Acknowledged(request.sender, request.keys)
    /\ \A do \in {"write", "read", "seen"} : Does(Rpc, do) => reply = None

\* What was acknowledged is in the store, and nothing else.
StateInv ==
    /\ data \in [BucketIDs -> Content \cup {None}]
    /\ written = [s \in Senders |-> ContentOf(s)]
    /\ HandlerOK
    /\ ReadsOwnWrites

\* Every step of the service is one of the store, or a restart.
LEMMA StateSteps ==
    ASSUME StateNext
    PROVE  Step(Rpc) \/ Restart \/ UNCHANGED <<data, op, growing>>
  BY DEF StateNext, GetRecords, ConvertRecords, ReplyRecords, WriteRecords, WriteRecord, WriteFails,
         GrowStore, WriteDone, Stop, StateStopped, stateVars, vars, Step, BucketOf, Senders,
         Close, CloseLocks, CloseDone

\* Every step of the state service is one of the store, a restart, or leaves it alone.
LEMMA StateStoreStep ==
    ASSUME IInv, [StateNext]_stateVars
    PROVE  IInv'
<1>1. CASE Restart
  BY <1>1 DEF Restart, IInv, Does
<1>2. CASE Step(Rpc)
  BY <1>2, StepKeeps, StateAssumption
<1>3. CASE UNCHANGED <<data, op, growing>>
  BY <1>3, StoreSame
<1> QED BY <1>1, <1>2, <1>3, StateSteps DEF stateVars, vars

\* The value of a key in a batch.
LEMMA BatchValue ==
    ASSUME NEW batch \in Batches, NEW k \in Keys, k \in DOMAIN batch
    PROVE  batch[k] \in Values \cup {None}
<1>1. CASE batch \in UNION {[ks -> Values] : ks \in SUBSET AnyKeys}
  <2>1. PICK ks \in SUBSET AnyKeys : batch \in [ks -> Values]
    BY <1>1
  <2> QED BY <2>1
<1>2. CASE batch \in UNION {[{j} -> {None}] : j \in Keys}
  <2>1. PICK j \in Keys : batch \in [{j} -> {None}]
    BY <1>2
  <2> QED BY <2>1
<1> QED BY <1>1, <1>2 DEF Batches

\* The handler goes on and the store stays as it is.
LEMMA HandlerMoves ==
    ASSUME StateInv, data' = data, written' = written, HandlerOK', ReadsOwnWrites'
    PROVE  StateInv'
  BY DEF StateInv, ContentOf

\* When the service is told that a write is done, the bucket has all of the batch.
LEMMA WriteDoneStep ==
    ASSUME IInv, StateInv, WriteDone
    PROVE  StateInv'
<1> DEFINE w == op[Rpc]
           page == [k \in Keys |-> IF k \in DOMAIN w.batch THEN w.batch[k] ELSE ContentOf(w.b)[k]]
<1>1. IsWrite(w) /\ w.left = {} /\ Rpc \in Threads /\ Does(Rpc, "write")
  BY StateAssumption DEF WriteDone, Commit, CommitGrown, IInv
<1>2. w.b \in BucketIDs /\ w.page = page
  BY <1>1 DEF IsWrite, PageOf
<1>3. request.sender = w.b /\ request.batch = w.batch /\ w.batch \in Batches /\ reply = None
  BY <1>1 DEF StateInv, HandlerOK
<1>4. op'[Rpc] = None /\ data' = [data EXCEPT ![w.b] = w.page]
  <2>1. PICK n : Committed(Rpc, n)
    BY DEF WriteDone, Commit, CommitGrown
  <2>2. op'[Rpc] = None
    BY <1>1, <2>1 DEF Committed, Does
  <2> QED BY <2>1, <2>2 DEF Committed
<1>5. page \in Content
  <2>1. ContentOf(w.b) \in Content
    BY <1>2 DEF StateInv, ContentOf, Content, EmptyContent
  <2> QED BY <1>3, <2>1, BatchValue DEF Content
<1>6. page # None
  BY <1>5, BoltAssumption DEF Content
<1>7. written' = [s \in Senders |-> IF s = w.b THEN page ELSE ContentOf(s)]
  <2>1. written[w.b] = ContentOf(w.b) /\ w.b \in Senders
    BY <1>2 DEF StateInv, Senders
  <2> QED BY <1>3, <2>1 DEF WriteDone, StateInv
<1>8. \A s \in Senders : ContentOf(s)' = IF s = w.b THEN page ELSE ContentOf(s)
  <2> HIDE DEF page
  <2> QED BY <1>2, <1>4, <1>6 DEF ContentOf, StateInv, Senders
<1>9. written' = [s \in Senders |-> ContentOf(s)']
  <2> HIDE DEF page, w
  <2> QED BY <1>7, <1>8
<1>10. data' \in [BucketIDs -> Content \cup {None}]
  <2> HIDE DEF page
  <2> QED BY <1>2, <1>4, <1>5 DEF StateInv
<1>11. reply' = None /\ ~ Does(Rpc, "write")' /\ ~ Does(Rpc, "read")' /\ ~ Does(Rpc, "seen")'
  BY <1>3, <1>4 DEF WriteDone, Does
<1> QED BY <1>9, <1>10, <1>11 DEF StateInv, HandlerOK, ReadsOwnWrites

\* A client reads exactly the records whose writing was acknowledged to it, for
\* any number of clients, keys and restarts: the handler is done with the values
\* of a read before the next request can commit anything.
THEOREM ReadsOwnWritesHolds == StateSpec => []ReadsOwnWrites
<1>1. StateInit => IInv /\ StateInv
  <2> SUFFICES ASSUME StateInit PROVE IInv /\ StateInv
    OBVIOUS
  <2>1. IInv
    BY DEF StateInit, Init, IInv, Does
  <2>2. StateInv
    BY StateAssumption DEF StateInit, Init, StateInv, HandlerOK, ReadsOwnWrites, Does, ContentOf, Senders
  <2> QED BY <2>1, <2>2
<1>2. IInv /\ StateInv /\ [StateNext]_stateVars => IInv' /\ StateInv'
  <2> SUFFICES ASSUME IInv, StateInv, [StateNext]_stateVars PROVE StateInv'
    BY StateStoreStep
  <2> USE StateAssumption
  <2>1. ASSUME NEW s \in Senders, NEW method \in {"Get", "GetMultiple"}, NEW ks \in SUBSET Keys,
               GetRecords(s, method, ks)
        PROVE  StateInv'
    <3> DEFINE o == [do |-> "read", docs |-> Found(s, ks), commits |-> 0]
    <3>1. op' = [op EXCEPT ![Rpc] = o] /\ op'[Rpc] = o /\ data' = data /\ written' = written /\ reply' = None
      BY <2>1 DEF GetRecords, Read, BucketOf, IInv
    <3>2. request'.sender = s /\ request'.keys = ks
      BY <2>1 DEF GetRecords
    <3>3. Found(s, ks) = Acknowledged(s, ks)
      BY DEF Found, Acknowledged, StateInv
    <3>4. Acknowledged(s, ks)' = Acknowledged(s, ks)
      BY <3>1 DEF Acknowledged
    <3>5. HandlerOK' /\ ReadsOwnWrites'
      BY <3>1, <3>2, <3>3, <3>4 DEF HandlerOK, ReadsOwnWrites, Does
    <3> HIDE DEF o
    <3> QED BY <3>1, <3>5, HandlerMoves
  <2>2. CASE ConvertRecords
    <3> DEFINE o == [do |-> "seen", docs |-> op[Rpc].docs, seen |-> op[Rpc].docs]
    <3>1. Does(Rpc, "read") /\ op[Rpc].commits = 0 /\ reply = None /\ Reuse # 0
          /\ op[Rpc].docs = Acknowledged(request.sender, request.keys)
      BY <2>2 DEF ConvertRecords, Use, StateInv, HandlerOK, Reuse
    <3>2. op' = [op EXCEPT ![Rpc] = o] /\ op'[Rpc] = o /\ UNCHANGED <<data, written, reply, request>>
      BY <2>2, <3>1 DEF ConvertRecords, Use, IInv
    <3>3. o.do = "seen" /\ o.seen = op[Rpc].docs
      BY <3>1
    <3>4. Acknowledged(request.sender, request.keys)' = Acknowledged(request.sender, request.keys)
      BY <3>2 DEF Acknowledged
    <3> HIDE DEF o
    <3>5. HandlerOK'
      BY <3>1, <3>2, <3>3, <3>4 DEF HandlerOK, Does
    <3>6. ReadsOwnWrites'
      BY <3>1, <3>2 DEF ReadsOwnWrites
    <3> QED BY <3>2, <3>5, <3>6, HandlerMoves
  <2>3. CASE ReplyRecords
    <3>1. op[Rpc].seen = Acknowledged(request.sender, request.keys)
      BY <2>3 DEF ReplyRecords, Used, StateInv, HandlerOK
    <3>2. op' = [op EXCEPT ![Rpc] = None] /\ op'[Rpc] = None /\ UNCHANGED <<data, written>>
          /\ reply'.docs = op[Rpc].seen /\ reply'.sender = request.sender /\ reply'.keys = request.keys
      BY <2>3 DEF ReplyRecords, Used, IInv
    <3>3. ReadsOwnWrites'
      BY <3>1, <3>2 DEF ReadsOwnWrites, Acknowledged
    <3>4. HandlerOK'
      BY <3>2 DEF HandlerOK, Does
    <3> QED BY <3>2, <3>3, <3>4, HandlerMoves
  <2>4. ASSUME NEW s \in Senders, NEW batch \in Batches, WriteRecords(s, batch)
        PROVE  StateInv'
    <3> DEFINE o == [do |-> "write", b |-> s, batch |-> batch, left |-> DOMAIN batch, page |-> ContentOf(s)]
    <3>1. op' = [op EXCEPT ![Rpc] = o] /\ op'[Rpc] = o /\ UNCHANGED <<data, written>>
      BY <2>4 DEF WriteRecords, BeginWrite, BucketOf, IInv
    <3>2. reply' = None /\ request' = [sender |-> s, method |-> "Write", batch |-> batch]
      BY <2>4 DEF WriteRecords
    <3>3. HandlerOK' /\ ReadsOwnWrites'
      BY <3>1, <3>2, SMTT(30) DEF HandlerOK, ReadsOwnWrites, Does
    <3> HIDE DEF o
    <3> QED BY <3>1, <3>3, HandlerMoves
  <2>5. ASSUME NEW k \in Keys, Put(Rpc, k), UNCHANGED <<request, reply, written, restarts>>
        PROVE  StateInv'
    <3> DEFINE w == op[Rpc]
    <3>1. IsWrite(w) /\ Does(Rpc, "write") /\ data' = data
      BY <2>5 DEF Put, IInv
    <3>2. w = [do |-> "write", b |-> w.b, batch |-> w.batch, left |-> w.left, page |-> w.page]
      BY <3>1 DEF IsWrite
    <3> DEFINE a == [op EXCEPT ![Rpc].page[k] = op[Rpc].batch[k]]
    <3>3. op' = [a EXCEPT ![Rpc].left = @ \ {k}]
      BY <2>5 DEF Put
    <3>4. Rpc \in DOMAIN a /\ a[Rpc] = [w EXCEPT !.page = [w.page EXCEPT ![k] = w.batch[k]]]
      BY DEF IInv
    <3>5. a[Rpc] = [do |-> "write", b |-> w.b, batch |-> w.batch, left |-> w.left,
                    page |-> [w.page EXCEPT ![k] = w.batch[k]]]
      BY <3>2, <3>4
    <3>6. op'[Rpc] = [a[Rpc] EXCEPT !.left = @ \ {k}]
      BY <3>3, <3>4
    <3>7. op'[Rpc].do = "write" /\ op'[Rpc].b = w.b /\ op'[Rpc].batch = w.batch
      <4> HIDE DEF a, w
      <4> QED BY <3>5, <3>6
    <3>8. HandlerOK'
      BY <2>5, <3>1, <3>7 DEF HandlerOK, Does, StateInv
    <3>9. ReadsOwnWrites'
      BY <2>5 DEF StateInv, ReadsOwnWrites
    <3> QED BY <2>5, <3>1, <3>8, <3>9, HandlerMoves
  <2>6. CASE WriteFails
    <3>1. op' = [op EXCEPT ![Rpc] = None] /\ op'[Rpc] = None /\ UNCHANGED <<data, written, reply>>
      BY <2>6 DEF WriteFails, PutFails, IInv
    <3>2. HandlerOK' /\ ReadsOwnWrites'
      BY <3>1 DEF HandlerOK, ReadsOwnWrites, Does, StateInv
    <3> QED BY <3>1, <3>2, HandlerMoves
  <2>7. CASE Restart
    BY <2>7 DEF Restart, StateInv, HandlerOK, ReadsOwnWrites, Does, ContentOf
  <2>8. CASE UNCHANGED <<data, op, request, reply, written>>
    BY <2>8, SMTT(30) DEF StateInv, HandlerOK, ReadsOwnWrites, Does, ContentOf, Acknowledged
  <2>9. CASE GrowStore \/ Stop \/ StateStopped \/ UNCHANGED stateVars
    BY <2>8, <2>9 DEF GrowStore, Grow, Stop, Close, CloseLocks, CloseDone, StateStopped, stateVars, vars
  <2> QED BY <2>1, <2>2, <2>3, <2>4, <2>5, <2>6, <2>7, <2>9, WriteDoneStep DEF StateNext, WriteRecord
<1>3. StateInv => ReadsOwnWrites
  BY DEF StateInv
<1> QED BY <1>1, <1>2, <1>3, PTL DEF StateSpec

-----------------------------------------------------------------------------
(* The latest values of the history service.                                 *)

Events ==
    [pc : {"rules", "byname", "general", "store", "latest"}, event : Event]

HistTypes ==
    /\ hist \subseteq Event
    /\ saved \in Latest
    /\ cache \in Latest \union {NotLoaded}
    /\ changed \in BOOLEAN
    /\ ev = NoEvent \/ ev \in Events
    /\ main \in [pc : {"run", "scan", "marshal", "write", "exit"}, props : Latest \union {NotLoaded}]
    /\ process \in {"running", "down", "fatal"}
    /\ count \in [stops : Nat, crashes : Nat, fails : Nat]

\* No name has an older value in l than in k.
NotOlder(k, l) == \A n \in Names : l[n] >= k[n]

\* What is in memory, and what is being saved, is not older than what is in the store.
SavingInv ==
    /\ changed \/ main.pc \in {"marshal", "write"} => cache # NotLoaded
    /\ main.pc = "marshal" => changed
    /\ cache # NotLoaded => NotOlder(saved, cache)
    /\ main.pc = "write" => /\ main.props # NotLoaded /\ NotOlder(saved, main.props)
                            /\ NotOlder(main.props, cache)

\* What is not marked as changed is what is in the store, or on its way there.
KeptInv ==
    ~changed /\ cache # NotLoaded =>
       /\ main.pc \in {"run", "scan"} \/ (main.pc = "exit" /\ main.props = NotLoaded) => cache = saved
       /\ main.pc = "write" => cache = main.props

\* No latest value is older than the time of event h.
Covers(h) == \A n \in h.values : Loaded[n] >= h.time

\* In the first run of the service what is in the history was added to the latest values,
\* but for the event that is about to be.
NewestInv ==
    /\ main.pc # "run" => count.stops > 0
    /\ process = "down" => count.stops > 0 \/ count.crashes > 0
    /\ Running /\ count.stops = 0 /\ count.crashes = 0 =>
          \A h \in hist : Covers(h) \/ (ev.pc = "latest" /\ h = ev.event)

HistInv == HistTypes /\ SavingInv /\ KeptInv /\ NewestInv

\* The latest values after an event are not older than before, nor than the event.
LEMMA NewerValues ==
    ASSUME NEW l \in Latest, NEW e \in Event
    PROVE  /\ Newer(l, e) \in Latest /\ NotOlder(l, Newer(l, e))
           /\ \A n \in e.values : Newer(l, e)[n] >= e.time
<1>1. /\ e.time \in 1..MaxTime /\ MaxTime \in Nat /\ e.values \subseteq Names
      /\ \A n \in Names : l[n] \in 0..MaxTime
  BY HistoryAssumption DEF Latest, Event, Times
<1>2. \A n \in Names : /\ Newer(l, e)[n] \in 0..MaxTime /\ Newer(l, e)[n] >= l[n]
                       /\ n \in e.values => Newer(l, e)[n] >= e.time
  BY <1>1 DEF Newer
<1>3. Newer(l, e) \in Latest
  BY <1>2 DEF Newer, Latest
<1> QED BY <1>1, <1>2, <1>3 DEF NotOlder

\* Being not older is reflexive and transitive.
LEMMA NotOlderOrder ==
    ASSUME NEW k \in Latest, NEW l \in Latest, NEW m \in Latest
    PROVE  NotOlder(k, k) /\ (NotOlder(k, l) /\ NotOlder(l, m) => NotOlder(k, m))
<1>1. \A n \in Names : k[n] \in Int /\ l[n] \in Int /\ m[n] \in Int
  BY HistoryAssumption DEF Latest
<1> QED BY <1>1 DEF NotOlder

\* The latest values as the next request finds them.
LEMMA LoadedValues ==
    ASSUME HistInv
    PROVE  /\ Loaded \in Latest /\ NotOlder(saved, Loaded)
           /\ Loaded # NotLoaded /\ (cache # NotLoaded => Loaded = cache)
           /\ NotLoaded \notin Latest
<1>1. NotLoaded \notin Latest
  BY HistoryAssumption DEF HistInv, HistTypes, Latest
<1> QED BY <1>1, NotOlderOrder DEF HistInv, HistTypes, SavingInv, Loaded

\* The steps of an event until it is added to the latest values, and a request that sets the
\* retention rules.
LEMMA EventSteps ==
    ASSUME HistInv, UNCHANGED <<saved, cache, changed, main, process>>,
           count' = count \/ count' = [count EXCEPT !.fails = @ + 1],
           \/ hist' = hist /\ (ev' = NoEvent \/ ev' \in Events) /\ (Running => ev.pc # "latest")
           \/ hist' = hist /\ ev' = ev
           \/ StoreEvent
    PROVE  HistInv'
<1>1. count' \in [stops : Nat, crashes : Nat, fails : Nat] /\ count'.stops = count.stops /\ count'.crashes = count.crashes
  BY DEF HistInv, HistTypes
<1>2. Loaded' = Loaded /\ (Running' <=> Running) /\ \A h : Covers(h)' <=> Covers(h)
  BY DEF Loaded, Running, Covers
<1>3. StoreEvent => /\ ev \in Events /\ ev.pc = "store" /\ ev' \in Events /\ ev'.pc = "latest"
                      /\ ev'.event = ev.event /\ hist' \subseteq hist \union {ev.event} /\ ev.event \in Event
  BY DEF StoreEvent, At, Goto, HistInv, HistTypes, Events, NoEvent
<1>4. HistTypes'
  <2>1. hist' \subseteq Event /\ (ev' = NoEvent \/ ev' \in Events)
    BY <1>3 DEF HistInv, HistTypes
  <2> QED BY <1>1, <2>1 DEF HistInv, HistTypes
<1>5. SavingInv' /\ KeptInv'
  BY DEF HistInv, SavingInv, KeptInv, NotOlder
<1>6. NewestInv'
  <2>1. CASE StoreEvent
    BY <1>1, <1>2, <1>3, <2>1 DEF HistInv, NewestInv
  <2>2. CASE hist' = hist /\ (ev' = ev \/ (Running => ev.pc # "latest"))
    BY <1>1, <1>2, <2>2 DEF HistInv, NewestInv
  <2> QED BY <2>1, <2>2
<1> QED BY <1>4, <1>5, <1>6 DEF HistInv

\* An event is added to the latest values, or they are only loaded.
LEMMA CacheSteps ==
    ASSUME HistInv, UpdateLatest \/ IgnoreData \/ GetLatest \/ GetLatestNames
    PROVE  HistInv'
<1>0. /\ saved \in Latest /\ cache \in Latest \union {NotLoaded}
      /\ UNCHANGED <<hist, saved, main, count>>
  BY HistoryAssumption DEF HistInv, HistTypes, UpdateLatest, IgnoreData, GetLatest, GetLatestNames
<1>1. /\ cache' \in Latest /\ cache' # NotLoaded /\ NotOlder(Loaded, cache')
      /\ \/ changed'
         \/ changed' = changed /\ cache' = Loaded
      /\ changed' \in BOOLEAN /\ process' \in {"running", "fatal"} /\ Running
  <2>1. CASE UpdateLatest
    <3>1. ev \in Events /\ ev.event \in Event /\ cache' = Newer(Loaded, ev.event)
          /\ changed' /\ process' \in {"running", "fatal"} /\ Running
      BY <2>1 DEF UpdateLatest, At, Running, HistInv, HistTypes, Events, NoEvent
    <3> QED BY <1>0, <3>1, NewerValues, LoadedValues
  <2>2. CASE IgnoreData \/ GetLatest \/ GetLatestNames
    <3>1. cache' = Loaded /\ changed' = changed /\ process' = "running" /\ Running
      BY <2>2 DEF IgnoreData, At, GetLatest, GetLatestNames, Running
    <3> QED BY <1>0, <3>1, NotOlderOrder, LoadedValues DEF HistInv, HistTypes
  <2> QED BY <2>1, <2>2
<1>2. Loaded' = cache'
  BY <1>1 DEF Loaded
<1>3. ev' = ev \/ ev' = NoEvent
  BY DEF UpdateLatest, IgnoreData, GetLatest, GetLatestNames
<1>4. HistTypes'
  BY <1>0, <1>1, <1>3 DEF HistInv, HistTypes
<1>5. SavingInv'
  <2>1. NotOlder(saved, cache')
    BY <1>0, <1>1, LoadedValues, NotOlderOrder
  <2>2. main.pc = "write" => /\ main.props \in Latest /\ NotOlder(saved, main.props)
                             /\ NotOlder(main.props, cache')
    <3>1. main.pc = "write" => /\ main.props \in Latest /\ NotOlder(saved, main.props)
                               /\ NotOlder(main.props, Loaded)
      BY LoadedValues DEF HistInv, HistTypes, SavingInv
    <3> QED BY <1>0, <1>1, <3>1, LoadedValues, NotOlderOrder
  <2>3. (main.pc = "marshal" => changed') /\ (main.pc = "write" => main.props # NotLoaded)
    BY <1>1 DEF HistInv, SavingInv
  <2>4. NotOlder(saved', cache') /\ (main.pc = "write" => NotOlder(saved', main'.props) /\ NotOlder(main'.props, cache'))
    BY <1>0, <2>1, <2>2
  <2> QED BY <1>0, <1>1, <2>3, <2>4 DEF SavingInv, NotOlder
<1>6. KeptInv'
  <2> SUFFICES ASSUME ~changed' PROVE KeptInv'
    BY DEF KeptInv
  <2>1. cache' = Loaded /\ ~changed
    BY <1>1
  <2>2. CASE cache = NotLoaded
    BY <1>0, <2>1, <2>2 DEF Loaded, KeptInv, HistInv, SavingInv
  <2>3. CASE cache # NotLoaded
    BY <1>0, <2>1, <2>3 DEF Loaded, KeptInv, HistInv
  <2> QED BY <2>2, <2>3
<1>7. NewestInv'
  <2> SUFFICES ASSUME Running', count.stops = 0, count.crashes = 0, NEW h \in hist
               PROVE  Covers(h)' \/ (ev'.pc = "latest" /\ h = ev'.event)
    BY <1>0, <1>1 DEF NewestInv, HistInv, Running
  <2>1. /\ h.values \subseteq Names /\ h.time \in Int /\ \A n \in Names : cache'[n] \in Int /\ Loaded[n] \in Int
        /\ \A n \in Names : cache'[n] >= Loaded[n]
    BY <1>0, <1>1, LoadedValues, HistoryAssumption DEF HistInv, HistTypes, Event, Times, Latest, NotOlder
  <2>2. CASE Covers(h)
    BY <1>2, <2>1, <2>2 DEF Covers
  <2>3. CASE ~Covers(h)
    <3>1. ev.pc = "latest" /\ h = ev.event
      BY <1>1, <2>3 DEF HistInv, NewestInv
    <3>2. ev \in Events /\ ev.event \in Event
      BY <3>1 DEF HistInv, HistTypes, Events, NoEvent
    <3>3. CASE UpdateLatest
      <4>1. cache' = Newer(Loaded, h)
        BY <3>1, <3>3 DEF UpdateLatest
      <4>2. \A n \in h.values : cache'[n] >= h.time
        BY <1>0, <3>1, <3>2, <4>1, NewerValues, LoadedValues
      <4> QED BY <1>2, <4>2 DEF Covers
    <3>4. CASE IgnoreData
      BY <3>1, <3>4 DEF IgnoreData, Covers
    <3>5. CASE GetLatest \/ GetLatestNames
      BY <3>1, <3>5 DEF GetLatest, GetLatestNames
    <3> QED BY <3>3, <3>4, <3>5
  <2> QED BY <2>2, <2>3
<1> QED BY <1>4, <1>5, <1>6, <1>7 DEF HistInv

\* SaveChanges moves on, without writing.
LEMMA StopSteps ==
    ASSUME HistInv, StopService \/ SaveScan \/ SaveMarshal \/ SaveFails
    PROVE  HistInv'
<1>0. /\ saved \in Latest /\ cache \in Latest \union {NotLoaded} /\ NotLoaded \notin Latest
      /\ UNCHANGED <<hist, saved, cache, ev, process>>
      /\ main.props \in Latest \union {NotLoaded}
  BY LoadedValues, HistoryAssumption
     DEF HistInv, HistTypes, StopService, SaveScan, SaveMarshal, SaveFails
<1>1. HistTypes'
  <2>1. main' \in [pc : {"run", "scan", "marshal", "write", "exit"}, props : Latest \union {NotLoaded}]
    BY <1>0 DEF HistInv, HistTypes, StopService, SaveScan, SaveMarshal, SaveFails
  <2>2. count' \in [stops : Nat, crashes : Nat, fails : Nat] /\ changed' \in BOOLEAN
    <3>1. CASE StopService
      BY <3>1 DEF HistInv, HistTypes, StopService
    <3>2. CASE SaveFails
      BY <3>2 DEF HistInv, HistTypes, SaveFails
    <3>3. CASE SaveScan \/ SaveMarshal
      BY <3>3 DEF HistInv, HistTypes, SaveScan, SaveMarshal
    <3> QED BY <3>1, <3>2, <3>3
  <2> QED BY <1>0, <2>1, <2>2 DEF HistInv, HistTypes
<1>2. SavingInv' /\ KeptInv'
  <2>1. CASE SaveMarshal
    <3>1. /\ main.pc = "marshal" /\ main'.pc = "write" /\ main'.props = cache /\ ~changed'
          /\ cache # NotLoaded /\ cache \in Latest
      BY <1>0, <2>1 DEF SaveMarshal, HistInv, SavingInv
    <3>2. NotOlder(saved, cache) /\ NotOlder(cache, cache)
      BY <1>0, <3>1, NotOlderOrder DEF HistInv, SavingInv
    <3> QED BY <1>0, <3>1, <3>2 DEF SavingInv, KeptInv, NotOlder
  <2>2. CASE SaveFails
    <3>1. main.pc = "write" /\ main'.pc = "exit" /\ main'.props = main.props /\ changed' = changed
          /\ main.props # NotLoaded
      BY <2>2 DEF SaveFails, HistInv, HistTypes, SavingInv
    <3> QED BY <1>0, <3>1 DEF HistInv, SavingInv, KeptInv, NotOlder
  <2>3. CASE StopService
    <3>1. main.pc = "run" /\ main'.pc = "scan" /\ changed' = changed
      BY <2>3 DEF StopService, HistInv, HistTypes
    <3> QED BY <1>0, <3>1 DEF HistInv, SavingInv, KeptInv, NotOlder
  <2>4. CASE SaveScan
    <3>1. main.pc = "scan" /\ main'.pc = (IF changed THEN "marshal" ELSE "exit") /\ changed' = changed
      BY <2>4 DEF SaveScan, HistInv, HistTypes
    <3> QED BY <1>0, <3>1 DEF HistInv, SavingInv, KeptInv, NotOlder
  <2> QED BY <2>1, <2>2, <2>3, <2>4
<1>3. NewestInv'
  <2>1. /\ count'.stops > 0 /\ count'.crashes = count.crashes
        /\ count'.stops = 0 => count.stops = 0
    BY DEF HistInv, HistTypes, NewestInv, StopService, SaveScan, SaveMarshal, SaveFails
  <2>2. count'.stops # 0
    BY <1>1, <2>1 DEF HistTypes
  <2> QED BY <1>0, <2>1, <2>2 DEF NewestInv, HistInv
<1> QED BY <1>1, <1>2, <1>3 DEF HistInv

\* SaveChanges writes, and what it writes is not older than what was in the store.
LEMMA WriteStep ==
    ASSUME HistInv, SaveWrite
    PROVE  HistInv' /\ NotOlder(saved, saved')
<1>0. /\ saved \in Latest /\ cache \in Latest \union {NotLoaded} /\ NotLoaded \notin Latest
      /\ UNCHANGED <<hist, cache, changed, ev, process, count>>
      /\ main.pc = "write" /\ main.props \in Latest /\ saved' = main.props
      /\ main' = [pc |-> "exit", props |-> NotLoaded] /\ cache # NotLoaded
  BY LoadedValues, HistoryAssumption DEF HistInv, HistTypes, SavingInv, SaveWrite
<1>1. HistTypes'
  BY <1>0 DEF HistInv, HistTypes
<1>2. SavingInv' /\ KeptInv' /\ NotOlder(saved, saved')
  BY <1>0 DEF HistInv, SavingInv, KeptInv, NotOlder
<1>3. NewestInv'
  BY <1>0 DEF HistInv, HistTypes, NewestInv
<1> QED BY <1>1, <1>2, <1>3 DEF HistInv

\* The process ends, and starts again with what is in the store.
LEMMA ProcessSteps ==
    ASSUME HistInv, Exit \/ Crash \/ StartAgain
    PROVE  HistInv'
<1>1. CASE Exit \/ Crash
  <2>1. /\ UNCHANGED <<hist, saved, cache, changed, ev, main>> /\ process' = "down"
        /\ count' \in [stops : Nat, crashes : Nat, fails : Nat]
        /\ count'.stops > 0 \/ count'.crashes > 0
        /\ main.pc # "run" => count'.stops > 0
    BY <1>1 DEF Exit, Crash, HistInv, HistTypes, NewestInv
  <2>2. HistTypes'
    BY <2>1 DEF HistInv, HistTypes
  <2>3. SavingInv' /\ KeptInv'
    BY <2>1 DEF HistInv, SavingInv, KeptInv, NotOlder
  <2>4. NewestInv'
    BY <2>1 DEF NewestInv, Running
  <2> QED BY <2>2, <2>3, <2>4 DEF HistInv
<1>2. CASE StartAgain
  <2>1. /\ UNCHANGED <<hist, saved>> /\ process' = "running" /\ cache' = NotLoaded /\ changed' = FALSE
        /\ ev' = NoEvent /\ main' = [pc |-> "run", props |-> NotLoaded]
        /\ count' \in [stops : Nat, crashes : Nat, fails : Nat]
        /\ count'.stops > 0 \/ count'.crashes > 0
    BY <1>2 DEF StartAgain, Running, HistInv, HistTypes, NewestInv
  <2>2. HistTypes'
    BY <2>1 DEF HistInv, HistTypes
  <2>3. SavingInv' /\ KeptInv'
    BY <2>1 DEF SavingInv, KeptInv
  <2>4. NewestInv'
    BY <2>1, <2>2 DEF NewestInv, HistTypes
  <2> QED BY <2>2, <2>3, <2>4 DEF HistInv
<1> QED BY <1>1, <1>2

\* Every step keeps the invariant, and none replaces a saved value by an older one.
LEMMA NextHist ==
    ASSUME HistInv, [HistNext]_histVars
    PROVE  HistInv' /\ NotOlder(saved, saved')
<1>0. NotOlder(saved, saved)
  BY NotOlderOrder DEF HistInv, HistTypes
<1>1. CASE UNCHANGED histVars
  BY <1>0, <1>1, EventSteps DEF histVars
<1>2. ASSUME NEW name \in EventNames, NEW time \in Times, NEW values \in SUBSET Names,
             Receive(name, time, values)
      PROVE  HistInv' /\ NotOlder(saved, saved')
  <2>1. ev' \in Events /\ ev.pc # "latest"
    BY <1>2 DEF Receive, At, Events, Event
  <2> QED BY <1>0, <1>2, <2>1, EventSteps DEF Receive
<1>3. CASE CheckRules \/ FindByName \/ FindGeneral \/ StoreFails
  <2>1. (ev' = NoEvent \/ ev' \in Events) /\ ev.pc # "latest"
    BY <1>3 DEF CheckRules, FindByName, FindGeneral, StoreFails, At, Goto, Decide,
                Events, HistInv, HistTypes, NoEvent
  <2> QED BY <1>0, <1>3, <2>1, EventSteps DEF CheckRules, FindByName, FindGeneral, StoreFails
<1>4. CASE StoreEvent
  BY <1>0, <1>4, EventSteps DEF StoreEvent
<1>5. CASE UpdateLatest \/ IgnoreData \/ GetLatest \/ GetLatestNames
  BY <1>0, <1>5, CacheSteps DEF UpdateLatest, IgnoreData, GetLatest, GetLatestNames
<1>6. CASE GetLatestReply \/ \E rs \in RuleSets : SetRetentionRules(rs)
  BY <1>0, <1>6, EventSteps DEF GetLatestReply, SetRetentionRules
<1>7. CASE StopService \/ SaveScan \/ SaveMarshal \/ SaveFails
  BY <1>0, <1>7, StopSteps DEF StopService, SaveScan, SaveMarshal, SaveFails
<1>8. CASE Exit \/ Crash \/ StartAgain
  BY <1>0, <1>8, ProcessSteps DEF Exit, Crash, StartAgain
<1> QED BY <1>1, <1>2, <1>3, <1>4, <1>5, <1>6, <1>7, <1>8, WriteStep DEF HistNext, Ended

\* In the beginning nothing is loaded.
LEMMA InitHist == ASSUME HistInit PROVE HistInv
<1>1. saved \in Latest /\ count \in [stops : Nat, crashes : Nat, fails : Nat]
  BY HistoryAssumption DEF HistInit, Latest
<1> QED BY <1>1 DEF HistInv, HistTypes, SavingInv, KeptInv, NewestInv, HistInit

\* A nonempty set of times has a newest one.
LEMMA NewestTime ==
    ASSUME MaxTime \in Nat, NEW S \in SUBSET (1..MaxTime), S # {}
    PROVE  \E t \in S : \A u \in S : t >= u
<1> DEFINE less == OpToRel(<, Nat)
           D == {MaxTime - t : t \in S}
<1>1. D \subseteq Nat /\ D # {}
  <2>1. \A t \in S : MaxTime - t \in Nat
    OBVIOUS
  <2> QED BY <2>1
<1>2. IsWellFoundedOn(less, Nat)
  BY NatLessThanWellFounded
<1>3. \A x, y \in Nat : x < y => <<x, y>> \in less
  BY DEF OpToRel
<1> HIDE DEF less, D
<1>4. PICK x \in D : \A y \in D : ~ (<<y, x>> \in less)
  BY <1>1, <1>2, WFMin
<1>5. \A y \in D : x <= y
  <2> SUFFICES ASSUME NEW y \in D PROVE ~ (y < x)
    BY <1>1
  <2> QED BY <1>1, <1>3, <1>4, Zenon
<1>6. PICK t \in S : x = MaxTime - t
  BY <1>4 DEF D
<1>7. \A u \in S : MaxTime - t <= MaxTime - u
  BY <1>5, <1>6 DEF D
<1> QED BY <1>7

\* Where every event of the history is covered, no latest value is older than the newest
\* one in the history.
LEMMA CoversNewest ==
    ASSUME HistInv, \A h \in hist : Covers(h), NEW n \in Names
    PROVE  Loaded[n] >= Newest(n)
<1> DEFINE S == TimesOf(n)
<1>1. Loaded[n] \in 0..MaxTime /\ MaxTime \in Nat
  BY LoadedValues, HistoryAssumption DEF HistInv, HistTypes, Latest
<1>2. ASSUME NEW t \in S PROVE t \in 1..MaxTime /\ Loaded[n] >= t
  <2>1. PICK h \in hist : n \in h.values /\ t = h.time
    BY <1>2 DEF TimesOf
  <2>2. h.time \in 1..MaxTime
    BY DEF HistInv, HistTypes, Event, Times
  <2> QED BY <2>1, <2>2 DEF Covers
<1> HIDE DEF S
<1>3. CASE S = {}
  BY <1>1, <1>3 DEF Newest, S
<1>4. CASE S # {}
  <2>1. \E t \in S : \A u \in S : t >= u
    <3>1. S \subseteq 1..MaxTime
      BY <1>2
    <3> QED BY <1>1, <1>4, <3>1, NewestTime
  <2>2. Newest(n) \in S
    BY <1>4, <2>1 DEF Newest, S
  <2> QED BY <1>2, <2>2
<1> QED BY <1>3, <1>4

\* The invariant of the history service is inductive, whatever the names, the rules, and the
\* bounds on events, stops, crashes and failures.
THEOREM HistInvariance == HistSpec => []HistInv
<1>1. HistInit => HistInv
  BY InitHist
<1>2. HistInv /\ [HistNext]_histVars => HistInv'
  BY NextHist
<1> QED BY <1>1, <1>2, PTL DEF HistSpec

\* In whichever order events arrive, HandleAddValue leaves no latest value older than the
\* newest one in the history.
THEOREM LatestIsNewestHolds == HistSpec => []LatestIsNewest
<1>1. HistInv => LatestIsNewest
  <2> SUFFICES ASSUME HistInv, Running, ev.pc # "latest", count.stops = 0, count.crashes = 0
               PROVE  \A n \in Names : Loaded[n] >= Newest(n)
    BY DEF LatestIsNewest
  <2>1. \A h \in hist : Covers(h)
    BY DEF HistInv, NewestInv
  <2> QED BY <2>1, CoversNewest
<1> QED BY <1>1, HistInvariance, PTL

\* A stop in which no event was being handled and no write failed leaves in the store all
\* that SaveChanges had to keep.
THEOREM QuietStopKeepsHolds == HistSpec => []QuietStopKeeps
<1>1. HistInv => QuietStopKeeps
  BY DEF HistInv, KeptInv, QuietStopKeeps
<1> QED BY <1>1, HistInvariance, PTL

\* SaveChanges never replaces a value in the store by an older one, whatever was stopped,
\* crashed or failed before.
THEOREM SavedNeverOlderHolds == HistSpec => SavedNeverOlder
<1>1. HistInv /\ [HistNext]_histVars => [\A n \in Names : saved'[n] >= saved[n]]_histVars
  BY NextHist DEF NotOlder
<1> QED BY <1>1, HistInvariance, PTL DEF HistSpec, SavedNeverOlder

=============================================================================
