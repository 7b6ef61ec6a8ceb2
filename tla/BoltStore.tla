------------------------------ MODULE BoltStore -----------------------------
(***************************************************************************)
(* The bucket store on top of the bbolt database.  Goroutines read and     *)
(* write buckets and hold cursors; every operation is a transaction of its *)
(* own.  Of bbolt itself the model keeps what the code relies on or waits  *)
(* for: one writer at a time, readers that see the content as it was when  *)
(* they began, a writer that has to grow the file and waits until there is *)
(* no reader while new readers wait for it, and a Close that waits for all *)
(* transactions.                                                           *)
(*                                                                         *)
(* A value read from bbolt points into a page of the file.  Once its       *)
(* transaction is over, one commit may free that page and a later one      *)
(* write it again; a commit that grows the file moves all pages.           *)
(***************************************************************************)
EXTENDS Naturals, FiniteSets

CONSTANTS
    Threads,     \* goroutines that use the store
    BucketIDs,   \* buckets
    Keys,        \* valid keys
    EmptyKey,    \* the key that bbolt refuses
    Values,      \* documents
    Garbage,     \* what is left of a page that was overwritten
    None         \* no document, no bucket, no operation

ASSUME BoltAssumption ==
    /\ EmptyKey \notin Keys
    /\ None \notin Values \cup {Garbage} \cup [Keys -> Values \cup {None}]
    /\ Garbage \notin Values

VARIABLES
    data,      \* the committed content per bucket, None if there is no such bucket
    op,        \* the operation of each goroutine
    growing,   \* the writer waits for the readers to end
    store      \* the state of the store

vars == <<data, op, growing, store>>

-----------------------------------------------------------------------------
\* State

Content == [Keys -> Values \cup {None}]

EmptyContent == [k \in Keys |-> None]

AnyKeys == Keys \cup {EmptyKey}

\* Set and SetMultiple write documents, Delete writes None for one key.
Batches ==
    (UNION {[ks -> Values] : ks \in SUBSET AnyKeys}) \cup (UNION {[{k} -> {None}] : k \in Keys})

Docs == UNION {[ks -> Values] : ks \in SUBSET Keys}

WriteOp == [do: {"write"}, b: BucketIDs, batch: Batches, left: SUBSET AnyKeys,
            page: Content]

\* The number of commits after which a page can have been written again.
Reuse == 2

\* The transaction of a read is over; commits counts the commits since then.
ReadOp == [do: {"read"}, docs: Docs, commits: 0..Reuse]

\* The caller's documents, and what it has seen of them.
SeenOp == [do: {"seen"}, docs: Docs, seen: Docs \cup {Garbage}]

CursorOp == [do: {"cursor"}, b: BucketIDs, snapshot: Content]

\* The type invariant.
TypeOK ==
    /\ data \in [BucketIDs -> Content \cup {None}]
    /\ op \in [Threads -> WriteOp \cup ReadOp \cup SeenOp \cup CursorOp \cup {None}]
    /\ growing \in BOOLEAN
    /\ store \in {"open", "closing", "locked", "closed", "panic"}

Init ==
    /\ data = [b \in BucketIDs |-> None]
    /\ op = [t \in Threads |-> None]
    /\ growing = FALSE
    /\ store = "open"

Does(t, do) == op[t] # None /\ op[t].do = do

Writing == \E t \in Threads : Does(t, "write")

Reading == \E t \in Threads : Does(t, "cursor")

\* A transaction can be started.
CanBegin == store \in {"open", "closing"} /\ ~ growing

ContentOf(b) == IF data[b] = None THEN EmptyContent ELSE data[b]

-----------------------------------------------------------------------------
\* Set, SetMultiple, Delete: a write transaction around the puts

BeginWrite(t, b, batch) ==
    /\ op[t] = None
    /\ CanBegin
    /\ ~ Writing
    /\ op' = [op EXCEPT ![t] = [do |-> "write", b |-> b, batch |-> batch,
                                left |-> DOMAIN batch, page |-> ContentOf(b)]]
    /\ UNCHANGED <<data, growing, store>>

Put(t, k) ==
    /\ Does(t, "write")
    /\ k \in op[t].left \ {EmptyKey}
    /\ op' = [op EXCEPT ![t].page[k] = op[t].batch[k], ![t].left = @ \ {k}]
    /\ UNCHANGED <<data, growing, store>>

\* Mutant: the documents before the invalid key are kept.
PutFails_Commits(t) ==
    /\ Does(t, "write")
    /\ EmptyKey \in op[t].left
    /\ data' = [data EXCEPT ![op[t].b] = op[t].page]
    /\ op' = [op EXCEPT ![t] = None]
    /\ UNCHANGED <<growing, store>>

\* Mutant: the transaction stays open.
PutFails_KeepsTx(t) ==
    /\ Does(t, "write")
    /\ EmptyKey \in op[t].left
    /\ UNCHANGED vars

\* The put of an invalid key ends the batch with a rollback.
PutFails(t) ==
    /\ Does(t, "write")
    /\ EmptyKey \in op[t].left
    /\ op' = [op EXCEPT ![t] = None]
    /\ UNCHANGED <<data, growing, store>>

\* n more commits since the reads of other goroutines were over.
Committed(t, n) ==
    /\ data' = [data EXCEPT ![op[t].b] = op[t].page]
    /\ op' = [u \in Threads |->
                CASE u = t -> None
                  [] Does(u, "read") /\ op[u].commits + n <= Reuse -> [op[u] EXCEPT !.commits = @ + n]
                  [] Does(u, "read") /\ op[u].commits + n > Reuse -> [op[u] EXCEPT !.commits = Reuse]
                  [] OTHER -> op[u]]

Commit(t) ==
    /\ Does(t, "write")
    /\ op[t].left = {}
    /\ ~ growing
    /\ Committed(t, 1)
    /\ UNCHANGED <<growing, store>>

\* The file is too small for the commit.
Grow(t) ==
    /\ Does(t, "write")
    /\ op[t].left = {}
    /\ ~ growing
    /\ growing' = TRUE
    /\ UNCHANGED <<data, op, store>>

\* The file is mapped again once there is no reader.
CommitGrown(t) ==
    /\ Does(t, "write")
    /\ growing
    /\ ~ Reading
    /\ growing' = FALSE
    /\ Committed(t, Reuse)
    /\ UNCHANGED store

-----------------------------------------------------------------------------
\* Get, GetMultiple: a read transaction; the caller uses the values after it

\* What a read of the given keys finds: nothing in a bucket that does not exist.
Found(b, ks) == [k \in {k \in ks : ContentOf(b)[k] # None} |-> ContentOf(b)[k]]

Read(t, b, ks) ==
    /\ op[t] = None
    /\ CanBegin
    /\ op' = [op EXCEPT ![t] = [do |-> "read", docs |-> Found(b, ks), commits |-> 0]]
    /\ UNCHANGED <<data, growing, store>>

\* The caller looks at the documents.
Use(t) ==
    /\ Does(t, "read")
    /\ \E seen \in {op[t].docs} \cup (IF op[t].commits = Reuse THEN {Garbage} ELSE {}) :
          op' = [op EXCEPT ![t] = [do |-> "seen", docs |-> op[t].docs, seen |-> seen]]
    /\ UNCHANGED <<data, growing, store>>

Used(t) ==
    /\ Does(t, "seen")
    /\ op' = [op EXCEPT ![t] = None]
    /\ UNCHANGED <<data, growing, store>>

-----------------------------------------------------------------------------
\* Cursors

\* A cursor on a bucket that does not exist is refused.
Cursor(t, b) ==
    /\ op[t] = None
    /\ CanBegin
    /\ data[b] # None
    /\ op' = [op EXCEPT ![t] = [do |-> "cursor", b |-> b, snapshot |-> data[b]]]
    /\ UNCHANGED <<data, growing, store>>

Release(t) ==
    /\ Does(t, "cursor")
    /\ op' = [op EXCEPT ![t] = None]
    /\ UNCHANGED <<data, growing, store>>

-----------------------------------------------------------------------------
\* Close

\* Close starts a goroutine that closes the database.
Close ==
    /\ store = "open"
    /\ store' = "closing"
    /\ UNCHANGED <<data, op, growing>>

\* The closing goroutine has the writer lock; nothing can begin any more.
CloseLocks ==
    /\ store = "closing"
    /\ ~ Writing
    /\ store' = "locked"
    /\ UNCHANGED <<data, op, growing>>

CloseDone ==
    /\ store = "locked"
    /\ ~ Reading
    /\ store' = "closed"
    /\ UNCHANGED <<data, op, growing>>

\* Mutant: no timeout.
ClosePanics_Waits ==
    /\ store \in {"closing", "locked"}
    /\ Reading
    /\ UNCHANGED vars

\* Ten seconds have passed, which only happens if a cursor is kept open.
ClosePanics ==
    /\ store \in {"closing", "locked"}
    /\ Reading
    /\ store' = "panic"
    /\ UNCHANGED <<data, op, growing>>

Stopped == store \in {"closed", "panic"} /\ UNCHANGED vars

-----------------------------------------------------------------------------
\* Specification

Step(t) ==
    \/ \E b \in BucketIDs, batch \in Batches : BeginWrite(t, b, batch)
    \/ \E k \in Keys : Put(t, k)
    \/ PutFails(t)
    \/ Commit(t)
    \/ Grow(t)
    \/ CommitGrown(t)
    \/ \E b \in BucketIDs, ks \in (SUBSET Keys) \ {{}} : Read(t, b, ks)
    \/ Use(t)
    \/ Used(t)
    \/ \E b \in BucketIDs : Cursor(t, b)
    \/ Release(t)

Next ==
    \/ store # "panic" /\ \E t \in Threads : Step(t)
    \/ Close
    \/ CloseLocks
    \/ CloseDone
    \/ ClosePanics
    \/ Stopped

Spec == Init /\ [][Next]_vars

\* A transaction goes on once it has begun, and the closing goroutine gets the
\* writer lock although others ask for it too.
FairBase ==
    /\ \A t \in Threads : WF_vars((\E k \in Keys : Put(t, k)) \/ PutFails(t) \/ Commit(t))
    /\ \A t \in Threads : WF_vars(CommitGrown(t))
    /\ SF_vars(CloseLocks)
    /\ WF_vars(CloseDone)
    /\ WF_vars(ClosePanics)

\* Nothing is assumed of the users of cursors.
FairSpec == Spec /\ FairBase

-----------------------------------------------------------------------------
\* Properties

\* The content of a bucket changes by whole batches only: the documents of a
\* SetMultiple with an invalid key, or of one that is half done, are never seen
\* by readers of any goroutine.
BatchIsAtomic ==
    [][data' # data =>
        \E t \in Threads :
            /\ Does(t, "write")
            /\ EmptyKey \notin DOMAIN op[t].batch
            /\ data' = [data EXCEPT ![op[t].b] =
                          [k \in Keys |-> IF k \in DOMAIN op[t].batch THEN op[t].batch[k]
                                          ELSE ContentOf(op[t].b)[k]]]]_vars

\* Close does not hang, whoever keeps a cursor: it ends or panics.
CloseEnds == store = "closing" ~> store \in {"closed", "panic"}

-----------------------------------------------------------------------------
\* What comments say and the code does not do

\* "copy the buffer": what a reader uses is what its transaction has read.
ReadIsStored == \A t \in Threads : Does(t, "seen") => op[t].seen = op[t].docs

=============================================================================
