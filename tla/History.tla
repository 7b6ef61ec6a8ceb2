------------------------------- MODULE History ------------------------------
(***************************************************************************)
(* The history service, for one thing.  Events are added to the history,   *)
(* if the retention rules say so, and to the latest values, which are kept *)
(* in memory and written to the store when the service stops.  Events are  *)
(* handled in a goroutine of their own, beside the one that handles        *)
(* requests and the main goroutine that stops the service.                 *)
(*                                                                         *)
(* Values are not modelled.  An event has the time of its creation and the *)
(* names of the values it carries: its own name, or for a property event   *)
(* the names of the properties, none if its data is not a map.  A latest   *)
(* value is known by its time.                                             *)
(***************************************************************************)
EXTENDS Integers, FiniteSets

CONSTANTS
    Names,         \* names of events and properties
    PropsEvent,    \* the name of the event that carries properties
    AnyName,       \* the key of the retention rules for all names
    PropSets,      \* the sets of names that property events carry
    MaxTime,       \* bound on the time of events
    MaxStops,      \* bound on the number of stops and restarts
    MaxCrashes,    \* bound on the number of crashes
    MaxFails,      \* bound on the number of failed writes
    RuleSets,      \* the retention rules that are set
    NotLoaded      \* in place of the latest values, before they are loaded

ASSUME HistoryAssumption ==
    /\ PropsEvent \notin Names
    /\ AnyName \notin Names \cup {PropsEvent}
    /\ PropSets \subseteq SUBSET Names
    /\ {MaxTime, MaxStops, MaxCrashes, MaxFails} \subseteq Nat
    /\ NotLoaded \notin [Names -> 0..MaxTime]

VARIABLES
    hist,     \* the events in the history
    saved,    \* the latest values in the store
    cache,    \* the latest values in memory, NotLoaded before they are loaded
    changed,  \* are there latest values to save
    rules,    \* the retention rules
    ev,       \* the event being handled
    rpc,      \* the request being handled
    main,     \* progress of stopping the service
    process,  \* running, ended, or ended by the Go runtime
    count     \* stops, crashes and failed writes so far

histVars == <<hist, saved, cache, changed, rules, ev, rpc, main, process, count>>

-----------------------------------------------------------------------------
\* State

EventNames == Names \cup {PropsEvent}

Times == 1..MaxTime

\* For each name the first rule for this thing.  Rules can be defined without
\* any that applies to the thing.
AllRules == [defined: BOOLEAN, rule: [EventNames \cup {AnyName} -> {"none", "retain", "drop"}]]

NoRules == [defined |-> FALSE, rule |-> [n \in EventNames \cup {AnyName} |-> "none"]]

Event == [name: EventNames, time: Times, values: SUBSET Names]

\* The time of the latest value of each name, 0 if there is none.
Latest == [Names -> 0..MaxTime]

NoEvent == [pc |-> "idle"]

\* The type invariant.
HistTypeOK ==
    /\ hist \subseteq Event
    /\ saved \in Latest
    /\ cache \in Latest \cup {NotLoaded}
    /\ changed \in BOOLEAN
    /\ rules \in AllRules
    /\ \/ ev = NoEvent
       \/ ev.pc \in {"rules", "byname", "general", "store", "latest"} /\ ev.event \in Event
    /\ rpc \in {"idle", "marshal"}
    /\ main \in [pc: {"run", "scan", "marshal", "write", "exit"}, props: Latest \cup {NotLoaded}]
    /\ process \in {"running", "down", "fatal"}
    /\ count \in [stops: 0..MaxStops, crashes: 0..MaxCrashes, fails: 0..MaxFails]

HistInit ==
    /\ hist = {}
    /\ saved = [n \in Names |-> 0]
    /\ cache = NotLoaded
    /\ changed = FALSE
    /\ rules = NoRules
    /\ ev = NoEvent
    /\ rpc = "idle"
    /\ main = [pc |-> "run", props |-> NotLoaded]
    /\ process = "running"
    /\ count = [stops |-> 0, crashes |-> 0, fails |-> 0]

Running == process = "running"

-----------------------------------------------------------------------------
\* Events

At(pc) == Running /\ ev.pc = pc

Goto(pc) == ev' = [ev EXCEPT !.pc = pc]

Receive(name, time, values) ==
    /\ At("idle")
    /\ IF name = PropsEvent THEN values \in PropSets ELSE values = {name}
    /\ ev' = [pc |-> "rules", event |-> [name |-> name, time |-> time, values |-> values]]
    /\ UNCHANGED <<hist, saved, cache, changed, rules, rpc, main, process, count>>

\* _IsRetained reads the rules three times, without a lock: are there any ...
CheckRules ==
    /\ At("rules")
    /\ Goto(IF rules.defined THEN "byname" ELSE "store")
    /\ UNCHANGED <<hist, saved, cache, changed, rules, rpc, main, process, count>>

Decide(rule) == IF rule = "retain" THEN Goto("store") ELSE ev' = NoEvent

\* ... is there one for the name of the event ...
FindByName ==
    /\ At("byname")
    /\ LET rule == rules.rule[ev.event.name] IN
       IF rule = "none" THEN Goto("general") ELSE Decide(rule)
    /\ UNCHANGED <<hist, saved, cache, changed, rules, rpc, main, process, count>>

\* ... and is there one for all names.
FindGeneral ==
    /\ At("general")
    /\ Decide(rules.rule[AnyName])
    /\ UNCHANGED <<hist, saved, cache, changed, rules, rpc, main, process, count>>

\* The key of an entry has the time and the name, so that an event with the same
\* key is replaced.
StoreEvent ==
    /\ At("store")
    /\ hist' = {h \in hist : h.name # ev.event.name \/ h.time # ev.event.time} \cup {ev.event}
    /\ Goto("latest")
    /\ UNCHANGED <<saved, cache, changed, rules, rpc, main, process, count>>

\* A failure is logged, and the event is added to the latest values all the same.
StoreFails ==
    /\ At("store")
    /\ count.fails < MaxFails
    /\ count' = [count EXCEPT !.fails = @ + 1]
    /\ Goto("latest")
    /\ UNCHANGED <<hist, saved, cache, changed, rules, rpc, main, process>>

\* LoadProps
Loaded == IF cache = NotLoaded THEN saved ELSE cache

\* Mutant: the latest value is the last one that arrived.
Newer_Always(latest, event) ==
    [n \in Names |-> IF n \in event.values THEN event.time ELSE latest[n]]

\* Events may arrive out of order, only newer values replace the latest ones.
Newer(latest, event) ==
    [n \in Names |-> IF n \in event.values /\ event.time > latest[n] THEN event.time ELSE latest[n]]

\* Mutant: the first change starts from an empty record.
UpdateLatest_NotLoaded ==
    /\ At("latest")
    /\ ev.event.values # {}
    /\ cache' = Newer(IF cache = NotLoaded THEN [n \in Names |-> 0] ELSE cache, ev.event)
    /\ changed' = TRUE
    /\ ev' = NoEvent
    /\ UNCHANGED <<hist, saved, rules, rpc, main, process, count>>

\* HandleAddValue.  While the map is being read without a lock, writing it may
\* end the process.
UpdateLatest ==
    /\ At("latest")
    /\ ev.event.values # {}
    /\ cache' = Newer(Loaded, ev.event)
    /\ changed' = TRUE
    /\ ev' = NoEvent
    /\ \/ UNCHANGED process
       \/ rpc = "marshal" /\ process' = "fatal"
    /\ UNCHANGED <<hist, saved, rules, rpc, main, count>>

\* The data of a property event is not a map: nothing is marked as changed.
IgnoreData ==
    /\ At("latest")
    /\ ev.event.values = {}
    /\ cache' = Loaded
    /\ ev' = NoEvent
    /\ UNCHANGED <<hist, saved, changed, rules, rpc, main, process, count>>

-----------------------------------------------------------------------------
\* Requests

\* GetLatest of all names returns the map of the cache ...
GetLatest ==
    /\ Running
    /\ rpc = "idle"
    /\ cache' = Loaded
    /\ rpc' = "marshal"
    /\ UNCHANGED <<hist, saved, changed, rules, ev, main, process, count>>

\* ... which is converted for the reply after it is unlocked.
GetLatestReply ==
    /\ Running
    /\ rpc = "marshal"
    /\ rpc' = "idle"
    /\ UNCHANGED <<hist, saved, cache, changed, rules, ev, main, process, count>>

\* GetLatest of some names copies their values while it has the lock.
GetLatestNames ==
    /\ Running
    /\ rpc = "idle"
    /\ cache' = Loaded
    /\ UNCHANGED <<hist, saved, changed, rules, ev, rpc, main, process, count>>

SetRetentionRules(rs) ==
    /\ Running
    /\ rpc = "idle"
    /\ rules' = rs
    /\ UNCHANGED <<hist, saved, cache, changed, ev, rpc, main, process, count>>

-----------------------------------------------------------------------------
\* Stop, restart and crash

StopService ==
    /\ Running
    /\ main.pc = "run"
    /\ count.stops < MaxStops
    /\ count' = [count EXCEPT !.stops = @ + 1]
    /\ main' = [main EXCEPT !.pc = "scan"]
    /\ UNCHANGED <<hist, saved, cache, changed, rules, ev, rpc, process>>

\* SaveChanges finds out what has changed ...
SaveScan ==
    /\ Running
    /\ main.pc = "scan"
    /\ main' = [main EXCEPT !.pc = IF changed THEN "marshal" ELSE "exit"]
    /\ UNCHANGED <<hist, saved, cache, changed, rules, ev, rpc, process, count>>

\* Mutant: the change flag is cleared and nothing is kept.
SaveMarshal_Empty ==
    /\ Running
    /\ main.pc = "marshal"
    /\ main' = [pc |-> "write", props |-> saved]
    /\ changed' = FALSE
    /\ UNCHANGED <<hist, saved, cache, rules, ev, rpc, process, count>>

\* ... converts the values while it has the lock ...
SaveMarshal ==
    /\ Running
    /\ main.pc = "marshal"
    /\ main' = [pc |-> "write", props |-> cache]
    /\ changed' = FALSE
    /\ UNCHANGED <<hist, saved, cache, rules, ev, rpc, process, count>>

\* ... and stores them.
SaveWrite ==
    /\ Running
    /\ main.pc = "write"
    /\ saved' = main.props
    /\ main' = [pc |-> "exit", props |-> NotLoaded]
    /\ UNCHANGED <<hist, cache, changed, rules, ev, rpc, process, count>>

\* The write fails.  The error is logged, and the values stay marked as saved.
SaveFails ==
    /\ Running
    /\ main.pc = "write"
    /\ count.fails < MaxFails
    /\ count' = [count EXCEPT !.fails = @ + 1]
    /\ main' = [main EXCEPT !.pc = "exit"]
    /\ UNCHANGED <<hist, saved, cache, changed, rules, ev, rpc, process>>

\* The process ends, whatever the other goroutines do.
Exit ==
    /\ Running
    /\ main.pc = "exit"
    /\ process' = "down"
    /\ UNCHANGED <<hist, saved, cache, changed, rules, ev, rpc, main, count>>

Crash ==
    /\ Running
    /\ count.crashes < MaxCrashes
    /\ count' = [count EXCEPT !.crashes = @ + 1]
    /\ process' = "down"
    /\ UNCHANGED <<hist, saved, cache, changed, rules, ev, rpc, main>>

\* The store remains; everything in memory is lost, the retention rules included.
StartAgain ==
    /\ ~ Running
    /\ \/ process = "down" /\ UNCHANGED count
       \/ /\ process = "fatal"
          /\ count.crashes < MaxCrashes
          /\ count' = [count EXCEPT !.crashes = @ + 1]
    /\ process' = "running"
    /\ cache' = NotLoaded
    /\ changed' = FALSE
    /\ rules' = NoRules
    /\ ev' = NoEvent
    /\ rpc' = "idle"
    /\ main' = [pc |-> "run", props |-> NotLoaded]
    /\ UNCHANGED <<hist, saved>>

Ended == process = "fatal" /\ UNCHANGED histVars

-----------------------------------------------------------------------------
\* Specification

HistNext ==
    \/ \E name \in EventNames, time \in Times, values \in SUBSET Names : Receive(name, time, values)
    \/ CheckRules
    \/ FindByName
    \/ FindGeneral
    \/ StoreEvent
    \/ StoreFails
    \/ UpdateLatest
    \/ IgnoreData
    \/ GetLatest
    \/ GetLatestReply
    \/ GetLatestNames
    \/ \E rs \in RuleSets : SetRetentionRules(rs)
    \/ StopService
    \/ SaveScan
    \/ SaveMarshal
    \/ SaveWrite
    \/ SaveFails
    \/ Exit
    \/ Crash
    \/ StartAgain
    \/ Ended

HistSpec == HistInit /\ [][HistNext]_histVars

-----------------------------------------------------------------------------
\* Properties

TimesOf(n) == {h.time : h \in {h \in hist : n \in h.values}}

Newest(n) == IF TimesOf(n) = {} THEN 0 ELSE CHOOSE t \in TimesOf(n) : \A u \in TimesOf(n) : t >= u

\* In whichever order events arrive, as events of their own or within a property
\* event, the latest value of a name is never older than the newest one in the
\* history.  (After a crash, or a stop while an event is handled, it may be: the
\* values in the store are older.)
LatestIsNewest ==
    Running /\ ev.pc # "latest" /\ count.stops = 0 /\ count.crashes = 0 =>
        \A n \in Names : Loaded[n] >= Newest(n)

\* What is saved was in the history, and saving does not go back to older values:
\* a stop never loses what an earlier stop has saved.
SavedNeverOlder == [][\A n \in Names : saved'[n] >= saved[n]]_histVars

\* An orderly stop without an event being handled, in which no write failed, keeps
\* all latest values.
QuietStopKeeps ==
    ~ Running /\ main = [pc |-> "exit", props |-> NotLoaded] /\ ev = NoEvent /\ ~ changed /\ cache # NotLoaded
        => \A n \in Names : saved[n] = cache[n]

-----------------------------------------------------------------------------
\* What comments say and the code does not do

\* "It persists a record for each Thing containing a map of the most recent
\* properties": also when events are handled while the service stops.
LatestIsPersisted ==
    Running /\ cache = NotLoaded /\ ev.pc # "latest" => \A n \in Names : saved[n] = Newest(n)

\* "AddMessage adds an event to the event history": an event that was added stays
\* in the history.
HistoryGrows == [][hist \subseteq hist']_histVars

\* "invoked after the value is added to the bucket"
LatestIsStored == Running => \A n \in Names : Loaded[n] # 0 => \E h \in hist : n \in h.values /\ h.time = Loaded[n]

\* "provides concurrency control"
NoFatal == process # "fatal"

\* "rules with specified event names take precedence": a general rule decides
\* only if there is no rule for the name.
NamedRulePrecedes ==
    [][At("general") /\ ev'.pc = "store" => rules.rule[ev.event.name] = "none"]_histVars

=============================================================================
