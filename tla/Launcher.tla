------------------------------ MODULE Launcher ------------------------------
(***************************************************************************)
(* The launcher service (done_mod/mod_run/run_srv): it starts the core and *)
(* the plugins as operating system processes, keeps them in svc.cmds in    *)
(* start order, and stops them.  One waiter goroutine per started process  *)
(* cleans up behind it.  Requests and the main goroutine run concurrently; *)
(* svc.mux is taken and released where the code takes and releases it, so  *)
(* every read or write outside the lock is a step of its own.              *)
(*                                                                         *)
(* A plugin stands for its name and its path.  A command (exec.Cmd) and    *)
(* its process are one number, the PID; PIDs are not reused.               *)
(***************************************************************************)
EXTENDS Naturals, Sequences, FiniteSets

CONSTANTS
    Plugins,      \* names of the core and of the plugin executables
    Installed,    \* plugins that are in the plugins folder at the start
    Installable,  \* plugins that may be copied into it while the launcher runs
    Core,         \* cfg.CoreBin
    Autostart,    \* cfg.Autostart, in order
    Main,         \* the goroutine running main: Start, wait for a signal, Stop
    Handlers,     \* the goroutines that deliver RPC requests to the service
    Watcher,      \* the goroutine watching the plugins folder
    NoOne,        \* the mutex is free
    Requests,     \* the kinds of request that clients send
    MaxPID        \* bound: the number of processes that get started

ASSUME LauncherAssumption ==
    /\ Core \in Plugins
    /\ Installed \subseteq Plugins \ {Core}
    /\ Installable \subseteq Plugins \ {Core}
    /\ Autostart \in Seq(Plugins)
    /\ Main \notin Handlers
    /\ Watcher \notin Handlers \cup {Main}
    /\ NoOne \notin Handlers \cup {Main, Watcher}
    /\ MaxPID \in Nat

VARIABLES
    folder,       \* plugin executables present in the plugins folder
    plugins,      \* keys of svc.plugins
    info,         \* PluginInfo of each plugin: running, pid
    heap,         \* backing arrays of svc.cmds, in allocation order
    cmds,         \* svc.cmds: a slice [arr, len] of a backing array
    proc,         \* state of each process started so far
    path,         \* cmd.Path of each command
    mux,          \* owner of svc.mux
    watcher,      \* the folder watcher goroutine
    serving,      \* the RPC capability has been registered
    thr           \* control state of Main and of the handlers

svcVars == <<plugins, info, heap, cmds, mux, watcher, serving>>
osVars  == <<folder, proc, path>>
vars    == <<svcVars, osVars, thr>>

Threads == Handlers \cup {Main}
PIDs    == DOMAIN proc

\* A thread's program counter and locals.  plug is the argument of _startPlugin
\* or StopPlugin, pid the argument of Stop, ret where such a call returns to;
\* todo and rest are what the start loops still visit, (arr, i) is the slice
\* cmdsToStop and the loop index of StopAllPlugins, core its IncludingCore.
\* A local goes back to its idle value when it is dead.
\* goal is a history variable: the commands StopAllPlugins set out to stop.
Idle == [pc |-> "idle", ret |-> "idle", plug |-> Core, pid |-> 0, todo |-> <<>>,
         rest |-> {}, arr |-> 1, i |-> 0, core |-> FALSE, goal |-> {}]

Goto(t, r) == thr' = [thr EXCEPT ![t] = r]
At(t, pc)  == thr[t].pc = pc
Alive      == ~At(Main, "exited")

Cmd(k)  == heap[cmds.arr][k]
Listed  == {Cmd(k) : k \in 1..cmds.len}
Ended   == {"reaped", "done"}

Init ==
    /\ folder = Installed
    /\ plugins = {}
    /\ info = [p \in Plugins |-> [running |-> FALSE, pid |-> 0]]
    /\ heap = <<<<>>>>
    /\ cmds = [arr |-> 1, len |-> 0]
    /\ proc = <<>>
    /\ path = <<>>
    /\ mux = NoOne
    /\ watcher = "off"
    /\ serving = FALSE
    /\ thr = [t \in Threads |-> IF t = Main THEN [Idle EXCEPT !.pc = "boot"] ELSE Idle]

-----------------------------------------------------------------------------
\* svc.cmds = append(svc.cmds, cmd): in place while the backing array has room,
\* otherwise in a new array of twice the capacity.
AppendCmd(c) ==
    LET old == heap[cmds.arr]
        cap == Len(old)
    IN  IF cmds.len < cap
        THEN /\ heap' = [heap EXCEPT ![cmds.arr] = [@ EXCEPT ![cmds.len + 1] = c]]
             /\ cmds' = [cmds EXCEPT !.len = @ + 1]
        ELSE /\ heap' = Append(heap, [k \in 1..(IF cap = 0 THEN 1 ELSE 2 * cap) |->
                                         IF k <= cmds.len THEN old[k]
                                         ELSE IF k = cmds.len + 1 THEN c ELSE 0])
             /\ cmds' = [arr |-> Len(heap) + 1, len |-> cmds.len + 1]

\* Mutant of RemoveCmd: drops the last command instead of the one that ended.
RemoveCmd_Last(c) ==
    /\ cmds' = [cmds EXCEPT !.len = @ - 1]
    /\ UNCHANGED heap

\* svc.cmds = append(svc.cmds[:i], svc.cmds[i+1:]...): shifts the tail left in
\* the same backing array; the last slot keeps its old value.
RemoveCmd(c) ==
    LET i == CHOOSE k \in 1..cmds.len : Cmd(k) = c
    IN  /\ heap' = [heap EXCEPT ![cmds.arr] =
                        [k \in DOMAIN @ |-> IF k >= i /\ k < cmds.len THEN @[k + 1] ELSE @[k]]]
        /\ cmds' = [cmds EXCEPT !.len = @ - 1]

\* a signal reaches a process that has not ended
SigTerm(c) == proc' = [k \in PIDs |-> IF k = c /\ proc[k] = "up" THEN "term" ELSE proc[k]]
SigKill(c) == proc' = [k \in PIDs |-> IF k = c /\ proc[k] \in {"up", "term"} THEN "kill" ELSE proc[k]]

-----------------------------------------------------------------------------
(* _startPlugin(plug), called by a thread at "start"; it returns to ret.     *)

\* Start gives up when the core does not start; other callers go on
StartReturns(t, err) ==
    Goto(t, [thr[t] EXCEPT !.pc = IF err /\ thr[t].ret = "connect"
                                  THEN "stop" ELSE thr[t].ret,
                           !.plug = Core])

CallStart(t, p, r) == Goto(t, [r EXCEPT !.pc = "start", !.plug = p])

\* the pre-checks under the lock: unknown plugin, already running, or a command
\* with the same path still listed
StartRefused(t) ==
    LET p == thr[t].plug IN
    /\ Alive /\ At(t, "start") /\ mux = NoOne
    /\ \/ p \notin plugins /\ StartReturns(t, TRUE)
       \/ p \in plugins /\ info[p].running /\ StartReturns(t, FALSE)
       \/ /\ p \in plugins /\ ~info[p].running
          /\ \E c \in Listed : path[c] = p
          /\ StartReturns(t, TRUE)
    /\ UNCHANGED <<svcVars, osVars>>

\* Mutant of MayStart: trusts Running and does not look for a listed command.
MayStart_TrustsRunning(t) ==
    /\ Alive /\ At(t, "start") /\ mux = NoOne
    /\ thr[t].plug \in plugins /\ ~info[thr[t].plug].running

\* the pre-checks pass
MayStart(t) ==
    LET p == thr[t].plug IN
    /\ Alive /\ At(t, "start") /\ mux = NoOne
    /\ p \in plugins /\ ~info[p].running
    /\ \A c \in Listed : path[c] # p

\* svcCmd.Start() fails
StartFails(t) ==
    /\ MayStart(t)
    /\ StartReturns(t, TRUE)
    /\ UNCHANGED <<svcVars, osVars>>

\* svcCmd.Start() succeeds: the command is listed, the info updated and the
\* waiter forked; the starter sleeps with the lock held
StartSpawns(t) ==
    LET p == thr[t].plug
        c == Len(proc) + 1
    IN  /\ MayStart(t) /\ c <= MaxPID
        /\ AppendCmd(c)
        /\ proc' = Append(proc, "up")
        /\ path' = Append(path, p)
        /\ info' = [info EXCEPT ![p] = [running |-> TRUE, pid |-> c]]
        /\ mux' = t
        /\ Goto(t, [thr[t] EXCEPT !.pc = "sleep"])
        /\ UNCHANGED <<folder, plugins, watcher, serving>>

\* after the sleep _startPlugin unlocks and returns startStatus, an error only
\* if the process has ended
StartSlept(t) ==
    /\ Alive /\ At(t, "sleep")
    /\ \E err \in BOOLEAN :
          /\ err => proc[info[thr[t].plug].pid] \in Ended
          /\ StartReturns(t, err)
    /\ mux' = NoOne
    /\ UNCHANGED <<plugins, info, heap, cmds, watcher, serving, osVars>>

\* the waiter goroutine: svcCmd.Wait() returns, without the lock
WaitReturns(c) ==
    /\ Alive /\ proc[c] = "exited"
    /\ proc' = [proc EXCEPT ![c] = "reaped"]
    /\ UNCHANGED <<svcVars, folder, path, thr>>

\* Mutants of WaiterCleanup: Running is not reset; the waiter leaves early when
\* StopPlugin has reset Running already.
WaiterCleanup_KeepsRunning(c) ==
    /\ Alive /\ proc[c] = "reaped" /\ mux = NoOne
    /\ proc' = [proc EXCEPT ![c] = "done"]
    /\ RemoveCmd(c)
    /\ UNCHANGED <<info, folder, plugins, path, mux, watcher, serving, thr>>

WaiterCleanup_IfRunning(c) ==
    /\ Alive /\ proc[c] = "reaped" /\ mux = NoOne
    /\ info[path[c]].running
    /\ proc' = [proc EXCEPT ![c] = "done"]
    /\ info' = [info EXCEPT ![path[c]].running = FALSE]
    /\ RemoveCmd(c)
    /\ UNCHANGED <<folder, plugins, path, mux, watcher, serving, thr>>

\* the waiter takes the lock, marks the plugin as stopped and delists the command
WaiterCleanup(c) ==
    /\ Alive /\ proc[c] = "reaped" /\ mux = NoOne
    /\ proc' = [proc EXCEPT ![c] = "done"]
    /\ info' = [info EXCEPT ![path[c]].running = FALSE]
    /\ RemoveCmd(c)
    /\ UNCHANGED <<folder, plugins, path, mux, watcher, serving, thr>>

-----------------------------------------------------------------------------
(* Stop(name, pid): SIGTERM, wait up to a second for the process to be gone, *)
(* else Kill; it returns to ret.                                             *)

\* a zombie still accepts signals: only a reaped process is seen as gone
StopReturns(t) ==
    /\ Alive /\ At(t, "wait")
    /\ thr[t].pid \in PIDs => proc[thr[t].pid] \in Ended
    /\ Goto(t, [thr[t] EXCEPT !.pc = thr[t].ret, !.pid = 0])
    /\ UNCHANGED <<svcVars, osVars>>

\* Mutant of StopTimesOut: there is no timeout.
StopTimesOut_Never(t) == FALSE /\ UNCHANGED vars

StopTimesOut(t) ==
    /\ Alive /\ At(t, "wait")
    /\ thr[t].pid \in PIDs /\ proc[thr[t].pid] \notin Ended
    /\ SigKill(thr[t].pid)
    /\ Goto(t, [thr[t] EXCEPT !.pc = thr[t].ret, !.pid = 0])
    /\ UNCHANGED <<svcVars, folder, path>>

\* StopPlugin reads the PID of the plugin without the lock and calls Stop
StopPluginCall(t) ==
    /\ Alive /\ At(t, "stopplugin")
    /\ LET c == info[thr[t].plug].pid IN
          /\ SigTerm(c)
          /\ Goto(t, [thr[t] EXCEPT !.pc = "wait", !.ret = "mark", !.pid = c])
    /\ UNCHANGED <<svcVars, folder, path>>

\* ... and marks the plugin as not running once Stop has returned
StopPluginMark(t) ==
    /\ Alive /\ At(t, "mark") /\ mux = NoOne
    /\ info' = [info EXCEPT ![thr[t].plug].running = FALSE]
    /\ Goto(t, Idle)
    /\ UNCHANGED <<plugins, heap, cmds, mux, watcher, serving, osVars>>

\* Mutant of StopAllCall: the loop starts one element too low.
StopAllCall_SkipsLast(t, includingCore) ==
    Goto(t, [thr[t] EXCEPT !.pc = "stopall", !.arr = cmds.arr,
                           !.i = IF cmds.len = 0 THEN 0 ELSE cmds.len - 1,
                           !.core = includingCore,
                           !.goal = {c \in Listed : includingCore \/ path[c] # Core}])

\* StopAllPlugins takes cmdsToStop := svc.cmds[:], which shares the backing array
StopAllCall(t, includingCore) ==
    Goto(t, [thr[t] EXCEPT !.pc = "stopall", !.arr = cmds.arr, !.i = cmds.len,
                           !.core = includingCore,
                           !.goal = {c \in Listed : includingCore \/ path[c] # Core}])

\* the loop reads cmdsToStop[i], last to first and without the lock
StopAllStep(t) ==
    LET c == heap[thr[t].arr][thr[t].i] IN
    /\ Alive /\ At(t, "stopall") /\ thr[t].i > 0
    /\ \/ /\ ~thr[t].core /\ path[c] = Core
          /\ Goto(t, [thr[t] EXCEPT !.i = @ - 1])
          /\ UNCHANGED proc
       \/ /\ thr[t].core \/ path[c] # Core
          /\ SigTerm(c)
          /\ Goto(t, [thr[t] EXCEPT !.pc = "wait", !.ret = "stopall", !.pid = c, !.i = @ - 1])
    /\ UNCHANGED <<svcVars, folder, path>>

\* main exits the launcher after Stop; a handler is done with its request
StopAllReturns(t) ==
    /\ Alive /\ At(t, "stopall") /\ thr[t].i = 0
    /\ Goto(t, IF t = Main THEN [Idle EXCEPT !.pc = "exited"] ELSE Idle)
    /\ UNCHANGED <<svcVars, osVars>>

-----------------------------------------------------------------------------
(* Requests: a handler serves one at a time, once the capability is set.     *)

Accepts(t, kind) ==
    Alive /\ serving /\ kind \in Requests /\ t \in Handlers /\ At(t, "idle")

StartPlugin(t, p) ==
    /\ Accepts(t, "start")
    /\ CallStart(t, p, Idle)
    /\ UNCHANGED <<svcVars, osVars>>

StopPlugin(t, p) ==
    /\ Accepts(t, "stop") /\ mux = NoOne
    /\ Goto(t, IF p \in plugins THEN [Idle EXCEPT !.pc = "stopplugin", !.plug = p] ELSE Idle)
    /\ UNCHANGED <<svcVars, osVars>>

StopAllPlugins(t) ==
    /\ Accepts(t, "stopall") /\ mux = NoOne
    /\ \E includingCore \in BOOLEAN : StopAllCall(t, includingCore)
    /\ UNCHANGED <<svcVars, osVars>>

StartAllPlugins(t) ==
    /\ Accepts(t, "startall")
    /\ Goto(t, [Idle EXCEPT !.pc = "ordered", !.todo = Autostart])
    /\ UNCHANGED <<svcVars, osVars>>

\* the loop over cfg.Autostart looks the plugin up without the lock
StartAllOrdered(t) ==
    LET p == Head(thr[t].todo)
        r == [thr[t] EXCEPT !.todo = Tail(@)]
    IN  /\ Alive /\ At(t, "ordered") /\ thr[t].todo # <<>>
        /\ \/ p \in plugins /\ info[p].running /\ Goto(t, r)
           \/ ~(p \in plugins /\ info[p].running) /\ CallStart(t, p, [r EXCEPT !.ret = "ordered"])
        /\ UNCHANGED <<svcVars, osVars>>

\* the range over svc.plugins visits, in any order and without the lock, what
\* is there when it begins and possibly what is added while it runs
StartAllRange(t) ==
    /\ Alive /\ At(t, "ordered") /\ thr[t].todo = <<>>
    /\ \E added \in SUBSET (Installable \ plugins) :
          Goto(t, [thr[t] EXCEPT !.pc = "range", !.rest = plugins \cup added])
    /\ UNCHANGED <<svcVars, osVars>>

\* Mutant of StartAllVisit: a plugin that fails to start is tried again.
StartAllVisit_Retries(t) ==
    /\ Alive /\ At(t, "range")
    /\ \E p \in thr[t].rest \cap plugins :
          \/ info[p].running /\ Goto(t, [thr[t] EXCEPT !.rest = @ \ {p}])
          \/ ~info[p].running /\ CallStart(t, p, [thr[t] EXCEPT !.ret = "range"])
    /\ UNCHANGED <<svcVars, osVars>>

StartAllVisit(t) ==
    /\ Alive /\ At(t, "range")
    /\ \E p \in thr[t].rest \cap plugins :
          LET r == [thr[t] EXCEPT !.rest = @ \ {p}] IN
          \/ info[p].running /\ Goto(t, r)
          \/ ~info[p].running /\ CallStart(t, p, [r EXCEPT !.ret = "range"])
    /\ UNCHANGED <<svcVars, osVars>>

StartAllReturns(t) ==
    /\ Alive /\ At(t, "range") /\ thr[t].rest \cap plugins = {}
    /\ Goto(t, Idle)
    /\ UNCHANGED <<svcVars, osVars>>

-----------------------------------------------------------------------------
(* The main goroutine: Start, wait for a signal, Stop.                       *)

MainGoes(pc) == Goto(Main, [thr[Main] EXCEPT !.pc = pc])

\* addCore and WatchPlugins; without the core executable Start fails
MainAddCore ==
    /\ At(Main, "boot")
    /\ \/ /\ plugins' = plugins \cup {Core}
          /\ watcher' \in {"idle", "off"}
          /\ MainGoes("scan")
       \/ /\ MainGoes("stop")
          /\ UNCHANGED <<plugins, watcher>>
    /\ UNCHANGED <<info, heap, cmds, mux, serving, osVars>>

\* ScanPlugins, then the core is started first
MainScan ==
    /\ At(Main, "scan") /\ mux = NoOne
    /\ \/ /\ plugins' = plugins \cup folder
          /\ CallStart(Main, Core, [Idle EXCEPT !.ret = "connect"])
       \/ /\ MainGoes("stop")
          /\ UNCHANGED plugins
    /\ UNCHANGED <<info, heap, cmds, mux, watcher, serving, osVars>>

\* ConnectToHub and SetRPCCapability
MainConnect ==
    /\ At(Main, "connect")
    /\ \/ /\ serving' = TRUE
          /\ Goto(Main, [Idle EXCEPT !.pc = "autostart", !.todo = Autostart])
       \/ /\ MainGoes("stop")
          /\ UNCHANGED serving
    /\ UNCHANGED <<plugins, info, heap, cmds, mux, watcher, osVars>>

\* every plugin of cfg.Autostart is started, errors are ignored
MainAutostart ==
    /\ At(Main, "autostart")
    /\ \/ /\ thr[Main].todo = <<>>
          /\ MainGoes("signal")
       \/ /\ thr[Main].todo # <<>>
          /\ CallStart(Main, Head(thr[Main].todo),
                       [thr[Main] EXCEPT !.todo = Tail(@), !.ret = "autostart"])
    /\ UNCHANGED <<svcVars, osVars>>

\* WaitForSignal returns
MainSignal ==
    /\ At(Main, "signal")
    /\ MainGoes("stop")
    /\ UNCHANGED <<svcVars, osVars>>

\* svc.Stop: StopAllPlugins including the core
MainStop ==
    /\ At(Main, "stop") /\ mux = NoOne
    /\ StopAllCall(Main, TRUE)
    /\ UNCHANGED <<svcVars, osVars>>

-----------------------------------------------------------------------------
(* The folder watcher, the processes and the folder.                         *)

\* isRunning is cleared by Stop
IsRunning == thr[Main].pc \notin {"stop", "stopall", "wait", "exited"}

\* a folder event makes the watcher scan under the lock; after Stop it ends
WatcherEvent ==
    /\ Alive /\ watcher = "idle" /\ ~(folder \subseteq plugins)
    /\ \/ /\ IsRunning /\ mux = NoOne
          /\ mux' = Watcher
          /\ watcher' = "scan"
       \/ /\ ~IsRunning
          /\ watcher' = "off"
          /\ UNCHANGED mux
    /\ UNCHANGED <<plugins, info, heap, cmds, serving, osVars, thr>>

WatcherScanned ==
    /\ Alive /\ watcher = "scan"
    /\ plugins' = plugins \cup folder
    /\ mux' = NoOne
    /\ watcher' = "idle"
    /\ UNCHANGED <<info, heap, cmds, serving, osVars, thr>>

\* an executable is copied into the plugins folder
FolderAdd(p) ==
    /\ p \notin folder
    /\ folder' = folder \cup {p}
    /\ UNCHANGED <<svcVars, proc, path, thr>>

\* a process ends, by itself or because of a signal
ProcessExits(c) ==
    /\ proc[c] \in {"up", "term", "kill"}
    /\ proc' = [proc EXCEPT ![c] = "exited"]
    /\ UNCHANGED <<svcVars, folder, path, thr>>

\* the launcher has exited
Exited == ~Alive /\ UNCHANGED vars

-----------------------------------------------------------------------------
StartStep(t) == StartRefused(t) \/ StartFails(t) \/ StartSpawns(t) \/ StartSlept(t)

StopStep(t) ==
    \/ StopReturns(t) \/ StopTimesOut(t)
    \/ StopPluginCall(t) \/ StopPluginMark(t)
    \/ StopAllStep(t) \/ StopAllReturns(t)

Request(t) ==
    \/ \E p \in Plugins : StartPlugin(t, p) \/ StopPlugin(t, p)
    \/ StopAllPlugins(t) \/ StartAllPlugins(t)

StartAllStep(t) ==
    \/ StartAllOrdered(t) \/ StartAllRange(t)
    \/ StartAllVisit(t) \/ StartAllReturns(t)

MainStep == MainAddCore \/ MainScan \/ MainConnect \/ MainAutostart \/ MainSignal \/ MainStop

Next ==
    \/ \E t \in Threads : StartStep(t) \/ StopStep(t) \/ StartAllStep(t) \/ Request(t)
    \/ \E c \in PIDs : WaitReturns(c) \/ WaiterCleanup(c) \/ ProcessExits(c)
    \/ MainStep
    \/ WatcherEvent \/ WatcherScanned
    \/ \E p \in Installable : FolderAdd(p)
    \/ Exited

Spec == Init /\ [][Next]_vars

-----------------------------------------------------------------------------
ProcStates == {"up", "term", "kill", "exited", "reaped", "done"}
PCs == {"idle", "start", "sleep", "wait", "stopplugin", "mark", "stopall", "ordered",
        "range", "boot", "scan", "connect", "autostart", "signal", "stop", "exited"}
ThreadStates ==
    [pc : PCs, ret : PCs, plug : Plugins, pid : Nat, todo : Seq(Plugins),
     rest : SUBSET Plugins, arr : Nat, i : Nat, core : BOOLEAN, goal : SUBSET Nat]

\* Type correctness of the launcher's state.
TypeOK ==
    /\ folder \in SUBSET Plugins
    /\ plugins \in SUBSET Plugins
    /\ info \in [Plugins -> [running : BOOLEAN, pid : Nat]]
    /\ heap \in Seq(Seq(Nat))
    /\ cmds \in [arr : Nat, len : Nat]
    /\ cmds.arr \in DOMAIN heap /\ cmds.len <= Len(heap[cmds.arr])
    /\ proc \in Seq(ProcStates)
    /\ path \in Seq(Plugins) /\ Len(path) = Len(proc)
    /\ mux \in Threads \cup {Watcher, NoOne}
    /\ watcher \in {"off", "idle", "scan"}
    /\ serving \in BOOLEAN
    /\ thr \in [Threads -> ThreadStates]

\* "don't start twice" (StartStopPlugins.go:47): however starts, stops and
\* exits interleave, a plugin never has two processes that have not been reaped.
OneProcessPerPlugin ==
    \A c, d \in PIDs : path[c] = path[d] /\ {proc[c], proc[d]} \cap Ended = {} => c = d

\* "list of started commands in startup order" (LauncherService.go:32): svc.cmds
\* holds exactly the commands whose waiter has not cleaned up, oldest first, so
\* the waiter always finds its command and no running process is forgotten.
CmdsInStartOrder ==
    /\ Listed = {c \in PIDs : proc[c] # "done"}
    /\ \A j, k \in 1..cmds.len : j < k => Cmd(j) < Cmd(k)

\* A plugin that is shown as running has its last process on the list: Running
\* is never left set by a waiter or a stop that came late.
RunningIsListed ==
    \A p \in Plugins : info[p].running =>
        /\ info[p].pid \in Listed
        /\ path[info[p].pid] = p

\* StopAllPlugins iterates over an alias of svc.cmds that waiters and starters
\* change under it.  When its loop ends, every command that was listed when it
\* began has nevertheless ended or been killed.
StopAllMissesNone ==
    \A t \in Threads : At(t, "stopall") /\ thr[t].i = 0 =>
        \A c \in thr[t].goal : proc[c] \notin {"up", "term"}

-----------------------------------------------------------------------------
(* What comments say and the code does not do.                               *)

\* "Service is currently running" (LauncherAPI.go:30): a plugin that is shown as
\* not running has no process that is up and that nobody has asked to stop.
RunningIsShown ==
    \A c \in PIDs : proc[c] = "up" => info[path[c]].running

\* "Stop the run and all running plugins" (LauncherService.go:236): when Stop
\* has returned no process is left up.
StopLeavesNone == At(Main, "exited") => \A c \in PIDs : proc[c] # "up"

\* "If the hub core was started, stop it last." (LauncherAPI.go:113): while Stop
\* stops the core, no other command it set out to stop is still up.
CoreStoppedLast ==
    At(Main, "wait") /\ path[thr[Main].pid] = Core =>
        \A c \in thr[Main].goal : proc[c] = "up" => path[c] = Core

\* "mutex to keep things safe" (LauncherService.go:38): no goroutine reads the
\* svc.plugins map while the watcher is writing to it.
PluginsMapGuarded ==
    watcher = "scan" =>
        \A t \in Threads : ~At(t, "range") /\ ~(At(t, "ordered") /\ thr[t].todo # <<>>)

-----------------------------------------------------------------------------
(* Fairness: each goroutine is sequential and gets scheduled, Go's mutex     *)
(* does not starve a waiter, and a process that was sent SIGKILL ends.       *)
(* Nothing is assumed of clients, of other processes, or of the signal that  *)
(* ends the launcher.                                                        *)
Fairness ==
    /\ \A t \in Threads : SF_vars(StartStep(t) \/ StopStep(t) \/ StartAllStep(t))
    /\ SF_vars(MainConnect \/ MainAutostart \/ MainStop)
    /\ WF_vars(WatcherScanned)
    /\ \A c \in 1..MaxPID :
          SF_vars(/\ c \in PIDs
                  /\ \/ WaitReturns(c) \/ WaiterCleanup(c)
                     \/ proc[c] = "kill" /\ ProcessExits(c))

FairSpec == Spec /\ Fairness

\* Once Stop is called the launcher exits, whatever its lock, its requests and
\* the processes do meanwhile: Stop never waits for a process forever.
StopTerminates == At(Main, "stop") ~> At(Main, "exited")

\* Processes that have been killed or have ended leave the list, so that their
\* plugins can be started again, unless the launcher exits first: again and again
\* there is none of them left.
KilledIsDelisted ==
    []<>(At(Main, "exited") \/ \A c \in PIDs : proc[c] \in {"up", "term", "done"})

\* Every request is answered: a handler does not stay busy unless the launcher
\* exits.
RequestsReturn ==
    \A t \in Handlers : ~At(t, "idle") ~> (At(t, "idle") \/ At(Main, "exited"))
====
