---------------------------- MODULE HistoryCursor ---------------------------
(***************************************************************************)
(* Iterating the history of a thing.  The entries of a bucket are ordered  *)
(* by the time in their key; a client moves a cursor over them, which may  *)
(* have a filter on the name of the value.  Time goes on meanwhile, and    *)
(* entries can carry a time that is still in the future.                   *)
(*                                                                         *)
(* The position is the index of an entry.  It is 0 when the cursor has no  *)
(* position, at first and after it moved before the first entry, and one   *)
(* past the last entry after a Seek that found none.  A cursor that moves  *)
(* past the last entry otherwise stays on it.                              *)
(***************************************************************************)
EXTENDS Integers, Sequences, FiniteSets

CONSTANTS
    Names,        \* names of values
    NoFilter,     \* the filter of a cursor for all names
    MaxEntries,   \* bound on the number of entries
    BatchLimit    \* the number of entries asked for by NextN and PrevN

ASSUME HistoryCursorAssumption ==
    /\ NoFilter \notin Names
    /\ MaxEntries \in Nat
    /\ BatchLimit \in Nat \ {0}

VARIABLES
    entries,  \* the names of the entries in the order of their times; entry i has time i
    filter,   \* the name the client asked for
    now,      \* the current time
    cursor,   \* position, and is the cursor still in the cache
    reply,    \* the last reply
    pass,     \* the direction in which the client iterates
    got       \* the entries received in this pass, in order

iterVars == <<entries, filter, now, cursor, reply, pass, got>>

-----------------------------------------------------------------------------
\* State

N == Len(entries)

Times == 0..MaxEntries

Nothing == 0

\* The type invariant.
IterTypeOK ==
    /\ entries \in UNION {[1..n -> Names] : n \in 0..MaxEntries}
    /\ filter \in Names \cup {NoFilter}
    /\ now \in Times
    /\ cursor \in [pos: 0..(MaxEntries + 1), cached: BOOLEAN]
    /\ reply \in [op: {"none", "single", "NextN", "PrevN", "error", "panic"}, entry: 0..MaxEntries,
                  count: 0..BatchLimit, more: BOOLEAN]
    /\ pass \in {"none", "forward", "backward"}
    /\ got \in Seq(1..MaxEntries)

NoReply == [op |-> "none", entry |-> Nothing, count |-> 0, more |-> TRUE]

IterInit ==
    /\ entries \in UNION {[1..n -> Names] : n \in 0..MaxEntries}
    /\ filter \in Names \cup {NoFilter}
    /\ now \in Times
    /\ cursor = [pos |-> 0, cached |-> TRUE]
    /\ reply = NoReply
    /\ pass = "none"
    /\ got = <<>>

Matches(i) == filter = NoFilter \/ entries[i] = filter

LeastOf(S) == CHOOSE i \in S : \A j \in S : i <= j

GreatestOf(S) == CHOOSE i \in S : \A j \in S : i >= j

-----------------------------------------------------------------------------
\* Moves of the store's cursor: the new position, and the entry or Nothing

At(i) == [pos |-> i, entry |-> i]

NoEntry(p) == [pos |-> p, entry |-> Nothing]

BoltNext(p) == IF p \in 1..(N - 1) THEN At(p + 1) ELSE NoEntry(p)

BoltPrev(p) == IF p \in 2..(N + 1) THEN At(p - 1) ELSE NoEntry(0)

BoltFirst == IF N > 0 THEN At(1) ELSE NoEntry(0)

BoltLast == IF N > 0 THEN At(N) ELSE NoEntry(0)

BoltSeek(t) ==
    LET found == {i \in 1..N : i >= t} IN IF found = {} THEN NoEntry(N + 1) ELSE At(LeastOf(found))

-----------------------------------------------------------------------------
\* The filter

\* Mutant: the step past the time limit is not undone.
findNextName_NoUndo(p) ==
    LET stop == {i \in (p + 1)..N : i > now \/ entries[i] = filter} IN
    IF stop = {} THEN NoEntry(N)
    ELSE LET i == LeastOf(stop) IN IF i > now THEN NoEntry(i) ELSE At(i)

\* Iterate to the next entry with the name.  An entry in the future ends the
\* iteration just before it.
findNextName(p) ==
    LET stop == {i \in (p + 1)..N : i > now \/ entries[i] = filter} IN
    IF stop = {} THEN NoEntry(N)
    ELSE LET i == LeastOf(stop) IN IF i > now THEN NoEntry(i - 1) ELSE At(i)

\* Iterate to the previous entry with the name.  No entry is before the limit.
findPrevName(p) ==
    LET stop == {i \in 1..(p - 1) : entries[i] = filter} IN
    IF stop = {} THEN NoEntry(0) ELSE At(GreatestOf(stop))

\* The entry the store's cursor moved to, or the next one that matches.
Forward(m) == IF m.entry = Nothing \/ Matches(m.entry) THEN m ELSE findNextName(m.entry)

\* Mutant: the filter only looks at the entry moved to.
Backward_NoSearch(m) == IF m.entry = Nothing \/ Matches(m.entry) THEN m ELSE NoEntry(m.entry)

Backward(m) == IF m.entry = Nothing \/ Matches(m.entry) THEN m ELSE findPrevName(m.entry)

-----------------------------------------------------------------------------
\* Requests

\* The request obtains the cursor from the cache.
Usable == cursor.cached /\ reply.op # "panic"

Single(m) ==
    /\ cursor' = [cursor EXCEPT !.pos = m.pos]
    /\ reply' = [NoReply EXCEPT !.op = "single", !.entry = m.entry]

Items(m) == IF m.entry = Nothing THEN <<>> ELSE <<m.entry>>

StartPass(dir, m) ==
    /\ Single(m)
    /\ pass' = dir
    /\ got' = Items(m)
    /\ UNCHANGED <<entries, filter, now>>

First == Usable /\ StartPass("forward", Forward(BoltFirst))

Last == Usable /\ StartPass("backward", Backward(BoltLast))

Seek(t) == Usable /\ StartPass("forward", Forward(BoltSeek(t)))

Moved(dir, p) == IF dir = "forward" THEN Forward(BoltNext(p)) ELSE Backward(BoltPrev(p))

\* A step in the direction of the pass; a client that turns starts a new pass.
Step(dir) ==
    LET m == Moved(dir, cursor.pos) IN
    /\ Usable
    /\ Single(m)
    /\ got' = IF pass = dir THEN got \o Items(m) ELSE Items(m)
    /\ pass' = dir
    /\ UNCHANGED <<entries, filter, now>>

Next1 == Step("forward")

Prev1 == Step("backward")

\* One more step of a batch, unless one has found no entry.
Further(dir, r) ==
    LET m == Moved(dir, r.pos) IN
    IF r.more
    THEN [pos |-> m.pos, list |-> r.list \o Items(m), more |-> m.entry # Nothing]
    ELSE r

\* n steps, ending with the first that finds no entry.
Steps(dir, n) ==
    LET run[i \in 0..n] ==
          IF i = 0 THEN [pos |-> cursor.pos, list |-> <<>>, more |-> TRUE]
          ELSE Further(dir, run[i - 1])
    IN run[n]

Batch(op, dir) ==
    LET r == Steps(dir, BatchLimit) IN
    /\ Usable
    /\ cursor' = [cursor EXCEPT !.pos = r.pos]
    /\ reply' = [NoReply EXCEPT !.op = op, !.count = Len(r.list), !.more = r.more]
    /\ got' = IF pass = dir THEN got \o r.list ELSE r.list
    /\ pass' = dir
    /\ UNCHANGED <<entries, filter, now>>

NextN == Batch("NextN", "forward")

PrevN == Batch("PrevN", "backward")

\* The cursor is released, by the client or because it has expired.
DropCursor ==
    /\ Usable
    /\ cursor' = [cursor EXCEPT !.cached = FALSE]
    /\ reply' = NoReply
    /\ UNCHANGED <<entries, filter, now, pass, got>>

\* A single move of a released cursor is answered with an error.  In a batch the
\* answer of the single move, which is nil, is used before its error is looked at.
UseReleased(single) ==
    /\ ~ cursor.cached
    /\ reply.op # "panic"
    /\ reply' = [NoReply EXCEPT !.op = IF single THEN "error" ELSE "panic"]
    /\ UNCHANGED <<entries, filter, now, cursor, pass, got>>

ClockTick ==
    /\ now < MaxEntries
    /\ now' = now + 1
    /\ reply' = IF reply.op = "panic" THEN reply ELSE NoReply
    /\ UNCHANGED <<entries, filter, cursor, pass, got>>

Done == reply.op = "panic" /\ UNCHANGED iterVars

-----------------------------------------------------------------------------
\* Specification

IterNext ==
    \/ First
    \/ Last
    \/ \E t \in Times : Seek(t)
    \/ Next1
    \/ Prev1
    \/ NextN
    \/ PrevN
    \/ DropCursor
    \/ \E single \in BOOLEAN : UseReleased(single)
    \/ ClockTick
    \/ Done

IterSpec == IterInit /\ [][IterNext]_iterVars

-----------------------------------------------------------------------------
\* Properties

MatchesFrom(i, j) == {k \in i..j : k >= 1 /\ k <= N /\ Matches(k)}

Elements == {got[i] : i \in DOMAIN got}

\* A client that iterates in one direction, by single steps and by batches in
\* any mix, receives the entries that match its filter in order, with none left
\* out and none twice, also when it comes back for entries that were in the
\* future before.
MissesNone ==
    /\ pass = "forward" /\ got # <<>> =>
         /\ \A i \in 1..(Len(got) - 1) : got[i] < got[i + 1]
         /\ Elements = MatchesFrom(got[1], got[Len(got)])
    /\ pass = "backward" /\ got # <<>> =>
         /\ \A i \in 1..(Len(got) - 1) : got[i] > got[i + 1]
         /\ Elements = MatchesFrom(got[Len(got)], got[1])

\* When a client is told that there is no next entry, it has received every
\* entry from its start up to the present; when it is told that there is no
\* previous one, every entry before its start.
EndMeansAll ==
    reply.op \in {"single", "NextN", "PrevN"} /\ got # <<>> /\
    (IF reply.op = "single" THEN reply.entry = Nothing ELSE ~ reply.more) =>
        /\ pass = "forward" => MatchesFrom(got[1], now) \subseteq Elements
        /\ pass = "backward" => MatchesFrom(1, got[1]) \subseteq Elements

-----------------------------------------------------------------------------
\* What comments say and the code does not do

\* "itemsRemaining is true if the iterator has reached the beginning"
PrevNRemaining == reply.op = "PrevN" /\ cursor.pos = 0 => reply.more

\* "An error is returned if the cursor is not found, has expired": a request
\* that names such a cursor is answered with an error.
ReleasedGetsError == reply.op # "panic"

=============================================================================
