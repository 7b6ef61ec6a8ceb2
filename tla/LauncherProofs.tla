--------------------------- MODULE LauncherProofs ---------------------------
(***************************************************************************)
(* Proofs about the launcher for every set of plugins and handlers and any *)
(* number of processes.  The inductive invariant adds to the checked ones  *)
(* that listed commands have different paths and that the slices StopAll-  *)
(* Plugins works on stay within their backing arrays.  The second part is  *)
(* about its loop, whose array waiters and starts change while it reads.   *)
(***************************************************************************)
EXTENDS Launcher, SequenceTheorems, TLAPS

\* the slice of every StopAllPlugins loop lies in an allocated array
SlicesInBounds ==
    \A t \in Threads : /\ thr[t].arr \in DOMAIN heap
                       /\ thr[t].i <= Len(heap[thr[t].arr])

\* two listed commands have different paths
ListedOncePerPath == \A c, d \in Listed : path[c] = path[d] => c = d

ListInv == CmdsInStartOrder /\ ListedOncePerPath /\ RunningIsListed

IInv == TypeOK /\ SlicesInBounds /\ ListInv

\* the part of TypeOK about svc.cmds
SliceOK ==
    /\ heap \in Seq(Seq(Nat))
    /\ cmds \in [arr : Nat, len : Nat]
    /\ cmds.arr \in DOMAIN heap /\ cmds.len <= Len(heap[cmds.arr])

-----------------------------------------------------------------------------
\* What append does to svc.cmds: one more element, the others unmoved, and no
\* backing array disappears or changes its length.
LEMMA AppendCmdFacts ==
    ASSUME SliceOK, NEW c \in Nat, AppendCmd(c)
    PROVE  /\ SliceOK'
           /\ cmds'.len = cmds.len + 1
           /\ \A k \in 1..cmds.len : heap'[cmds'.arr][k] = heap[cmds.arr][k]
           /\ heap'[cmds'.arr][cmds.len + 1] = c
           /\ \A a \in DOMAIN heap : a \in DOMAIN heap' /\ Len(heap'[a]) = Len(heap[a])
<1> DEFINE old == heap[cmds.arr]
           cap == Len(old)
<1>0. /\ cmds.arr \in 1..Len(heap) /\ cmds.len \in Nat /\ cmds.arr \in Nat
      /\ old \in Seq(Nat) /\ cap \in Nat /\ cmds.len <= cap
      /\ DOMAIN old = 1..cap /\ DOMAIN heap = 1..Len(heap) /\ Len(heap) \in Nat
  BY ElementOfSeq DEF SliceOK
<1>1. CASE cmds.len < cap
  <2> DEFINE new == [old EXCEPT ![cmds.len + 1] = c]
  <2>0. cmds' = [cmds EXCEPT !.len = @ + 1]
    BY <1>1 DEF AppendCmd
  <2>1. heap' = [heap EXCEPT ![cmds.arr] = new]
    BY <1>1 DEF AppendCmd
  <2>2. /\ new \in Seq(Nat) /\ Len(new) = cap
        /\ \A j \in 1..cap : new[j] = IF j = cmds.len + 1 THEN c ELSE old[j]
    BY <1>0, <1>1, ExceptSeq, SMTT(30)
  <2> HIDE DEF new, old
  <2>3. /\ heap' \in Seq(Seq(Nat)) /\ Len(heap') = Len(heap)
        /\ \A j \in 1..Len(heap) : heap'[j] = IF j = cmds.arr THEN new ELSE heap[j]
    BY <1>0, <2>1, <2>2, ExceptSeq DEF SliceOK
  <2>4. cmds' \in [arr : Nat, len : Nat] /\ cmds'.arr = cmds.arr /\ cmds'.len = cmds.len + 1
    <3>1. cmds \in [arr : Nat, len : Nat]
      BY DEF SliceOK
    <3> QED BY <2>0, <3>1
  <2>5. heap'[cmds'.arr] = new /\ DOMAIN heap' = 1..Len(heap)
    BY <1>0, <2>3, <2>4
  <2>6. SliceOK'
    BY <1>0, <1>1, <2>2, <2>3, <2>4, <2>5 DEF SliceOK
  <2>7. \A k \in 1..cmds.len : new[k] = old[k]
    BY <1>0, <1>1, <2>2
  <2>8. new[cmds.len + 1] = c
    <3>1. cmds.len + 1 \in 1..cap
      BY <1>0, <1>1
    <3>2. new[cmds.len + 1] = IF cmds.len + 1 = cmds.len + 1 THEN c ELSE old[cmds.len + 1]
      BY <2>2, <3>1, Zenon
    <3> QED BY <3>2, Zenon
  <2>9. ASSUME NEW a \in DOMAIN heap PROVE a \in DOMAIN heap' /\ Len(heap'[a]) = Len(heap[a])
    <3>1. Len(heap[cmds.arr]) = cap
      BY DEF old
    <3>2. a \in 1..Len(heap) /\ a \in DOMAIN heap'
      BY <1>0, <2>5
    <3>3. heap'[a] = IF a = cmds.arr THEN new ELSE heap[a]
      BY <2>3, <3>2, Zenon
    <3> QED BY <2>2, <3>1, <3>2, <3>3, Zenon
  <2> QED
    BY <2>4, <2>5, <2>6, <2>7, <2>8, <2>9 DEF old
<1>2. CASE ~(cmds.len < cap)
  <2> DEFINE n == IF cap = 0 THEN 1 ELSE 2 * cap
             new == [k \in 1..n |-> IF k <= cmds.len THEN old[k]
                                    ELSE IF k = cmds.len + 1 THEN c ELSE 0]
  <2>1. /\ heap' = Append(heap, new)
        /\ cmds' = [arr |-> Len(heap) + 1, len |-> cmds.len + 1]
    BY <1>2 DEF AppendCmd
  <2>2. n \in Nat /\ n >= cmds.len + 1 /\ cmds.len = cap
    BY <1>0, <1>2
  <2>3. new \in [1..n -> Nat]
    <3>1. ASSUME NEW k \in 1..n, k <= cmds.len PROVE old[k] \in Nat
      <4>1. k \in 1..cap
        BY <1>0, <2>2, <3>1
      <4> QED BY <1>0, <4>1, ElementOfSeq
    <3> HIDE DEF old
    <3>2. \A k \in 1..n : new[k] \in Nat
      BY <3>1
    <3> HIDE DEF n
    <3> QED BY <3>2
  <2>4. new \in Seq(Nat) /\ Len(new) = n
    BY <2>2, <2>3
  <2>5. /\ \A k \in 1..cmds.len : new[k] = old[k]
        /\ new[cmds.len + 1] = c
    BY <1>0, <2>2
  <2> HIDE DEF new, n, old
  <2>6. /\ heap' \in Seq(Seq(Nat)) /\ Len(heap') = Len(heap) + 1
        /\ \A j \in 1..Len(heap) : heap'[j] = heap[j]
        /\ heap'[Len(heap) + 1] = new
    BY <2>1, <2>4, AppendProperties DEF SliceOK
  <2>7. /\ cmds' \in [arr : Nat, len : Nat] /\ cmds'.arr = Len(heap) + 1
        /\ cmds'.len = cmds.len + 1
    BY <1>0, <2>1
  <2>8. DOMAIN heap' = 1..(Len(heap) + 1)
    BY <1>0, <2>6
  <2>9. SliceOK'
    <3>1. heap'[cmds'.arr] = new
      BY <2>6, <2>7
    <3>2. Len(heap'[cmds'.arr]) = n /\ cmds'.len <= n
      BY <2>2, <2>4, <2>7, <3>1
    <3>3. cmds'.arr \in DOMAIN heap'
      BY <1>0, <2>7, <2>8
    <3> QED BY <2>6, <2>7, <3>2, <3>3 DEF SliceOK
  <2>10. \A a \in DOMAIN heap : a \in DOMAIN heap' /\ Len(heap'[a]) = Len(heap[a])
    BY <1>0, <2>6, <2>8
  <2> QED
    BY <2>5, <2>6, <2>7, <2>9, <2>10 DEF old
<1> QED BY <1>1, <1>2

\* What the waiter's removal does to svc.cmds: the elements behind the removed
\* one move one slot down in the same backing array, everything else stays.
LEMMA RemoveCmdFacts ==
    ASSUME SliceOK, NEW c \in Listed, RemoveCmd(c)
    PROVE  /\ SliceOK'
           /\ cmds'.arr = cmds.arr /\ cmds'.len = cmds.len - 1
           /\ \A a \in DOMAIN heap :
                 /\ a \in DOMAIN heap' /\ Len(heap'[a]) = Len(heap[a])
                 /\ a # cmds.arr => heap'[a] = heap[a]
           /\ \E i \in 1..cmds.len :
                 /\ Cmd(i) = c
                 /\ \A k \in 1..Len(heap[cmds.arr]) :
                       heap'[cmds.arr][k] = IF k >= i /\ k < cmds.len THEN Cmd(k + 1) ELSE Cmd(k)
<1> DEFINE old == heap[cmds.arr]
           i == CHOOSE k \in 1..cmds.len : Cmd(k) = c
           new == [k \in DOMAIN old |-> IF k >= i /\ k < cmds.len THEN old[k + 1] ELSE old[k]]
<1>0. /\ cmds.arr \in 1..Len(heap) /\ cmds.len \in Nat /\ cmds.arr \in Nat
      /\ old \in Seq(Nat) /\ Len(old) \in Nat /\ cmds.len <= Len(old)
      /\ DOMAIN old = 1..Len(old) /\ DOMAIN heap = 1..Len(heap) /\ Len(heap) \in Nat
  BY ElementOfSeq DEF SliceOK
<1>1. i \in 1..cmds.len /\ Cmd(i) = c
  <2>1. \E k \in 1..cmds.len : Cmd(k) = c
    BY DEF Listed
  <2> QED BY <2>1
<1>2. heap' = [heap EXCEPT ![cmds.arr] = new]
  BY DEF RemoveCmd
<1>3. cmds' = [cmds EXCEPT !.len = @ - 1]
  BY DEF RemoveCmd
<1> HIDE DEF i
<1>4. new \in [1..Len(old) -> Nat]
  <2>1. \A k \in 1..Len(old) : old[k] \in Nat
    BY <1>0, ElementOfSeq
  <2> HIDE DEF old
  <2>2. ASSUME NEW k \in 1..Len(old)
        PROVE  (IF k >= i /\ k < cmds.len THEN old[k + 1] ELSE old[k]) \in Nat
    BY <1>0, <1>1, <2>1
  <2> QED BY <1>0, <2>2
<1>5. new \in Seq(Nat) /\ Len(new) = Len(old)
  BY <1>0, <1>4
<1>6. \A k \in 1..Len(old) : new[k] = IF k >= i /\ k < cmds.len THEN old[k + 1] ELSE old[k]
  BY <1>0
<1> HIDE DEF new, old
<1>7. /\ heap' \in Seq(Seq(Nat)) /\ Len(heap') = Len(heap)
      /\ \A j \in 1..Len(heap) : heap'[j] = IF j = cmds.arr THEN new ELSE heap[j]
  <2>1. heap \in Seq(Seq(Nat))
    BY DEF SliceOK
  <2> QED BY <1>0, <1>2, <1>5, <2>1, ExceptSeq
<1>8. cmds' \in [arr : Nat, len : Nat] /\ cmds'.arr = cmds.arr /\ cmds'.len = cmds.len - 1
  <2>1. cmds \in [arr : Nat, len : Nat] /\ cmds.len - 1 \in Nat
    BY <1>0, <1>1 DEF SliceOK
  <2> QED BY <1>3, <2>1
<1>9. heap'[cmds.arr] = new /\ DOMAIN heap' = 1..Len(heap)
  BY <1>0, <1>7
<1>10. SliceOK'
  BY <1>0, <1>1, <1>5, <1>7, <1>8, <1>9 DEF SliceOK
<1>11. \A a \in DOMAIN heap :
          /\ a \in DOMAIN heap' /\ Len(heap'[a]) = Len(heap[a])
          /\ a # cmds.arr => heap'[a] = heap[a]
  BY <1>0, <1>5, <1>7, <1>9 DEF old
<1>12. \A k \in 1..Len(old) :
          heap'[cmds.arr][k] = IF k >= i /\ k < cmds.len THEN Cmd(k + 1) ELSE Cmd(k)
  BY <1>6, <1>9 DEF Cmd, old
<1> QED
  BY <1>1, <1>8, <1>10, <1>11, <1>12 DEF old

-----------------------------------------------------------------------------
\* The invariant parts about the list survive a step that leaves the list
\* alone, starts no process, ends no cleanup and sets no plugin to running.
LEMMA ListInvFrame ==
    ASSUME TypeOK, ListInv, UNCHANGED <<heap, cmds, path>>,
           Len(proc') = Len(proc), proc' \in Seq(ProcStates),
           \A c \in PIDs : proc'[c] = "done" <=> proc[c] = "done",
           \A p \in Plugins : info'[p].running => info[p].running /\ info'[p].pid = info[p].pid
    PROVE  ListInv'
<1>1. Listed' = Listed /\ \A k : Cmd(k)' = Cmd(k)
  BY DEF Listed, Cmd
<1>2. PIDs' = PIDs /\ PIDs = 1..Len(proc)
  BY DEF PIDs, TypeOK
<1>3. CmdsInStartOrder'
  BY <1>1, <1>2 DEF CmdsInStartOrder, ListInv
<1>4. ListedOncePerPath'
  BY <1>1 DEF ListedOncePerPath, ListInv
<1>5. RunningIsListed'
  BY <1>1 DEF RunningIsListed, ListInv
<1> QED BY <1>3, <1>4, <1>5 DEF ListInv

\* A step that gives one thread a new well-typed state within bounds.
LEMMA GotoFacts ==
    ASSUME IInv, NEW t \in Threads, NEW r \in ThreadStates, Goto(t, r), UNCHANGED heap,
           r.arr \in DOMAIN heap, r.i <= Len(heap[r.arr])
    PROVE  thr' \in [Threads -> ThreadStates] /\ SlicesInBounds'
<1>1. thr \in [Threads -> ThreadStates] /\ thr' = [thr EXCEPT ![t] = r]
  BY DEF IInv, TypeOK, Goto
<1>2. \A u \in Threads : thr'[u] = IF u = t THEN r ELSE thr[u]
  BY <1>1
<1>3. SlicesInBounds'
  BY <1>2 DEF SlicesInBounds, IInv
<1> QED BY <1>1, <1>3

\* The frame of every step but the two that change the list.
LEMMA StepFrame ==
    ASSUME IInv, UNCHANGED <<heap, cmds, path>>,
           folder' \in SUBSET Plugins, plugins' \in SUBSET Plugins,
           info' \in [Plugins -> [running : BOOLEAN, pid : Nat]],
           \A p \in Plugins : info'[p].running => info[p].running /\ info'[p].pid = info[p].pid,
           Len(proc') = Len(proc), proc' \in Seq(ProcStates),
           \A c \in PIDs : proc'[c] = "done" <=> proc[c] = "done",
           mux' \in Threads \cup {Watcher, NoOne},
           watcher' \in {"off", "idle", "scan"}, serving' \in BOOLEAN,
           thr' \in [Threads -> ThreadStates], SlicesInBounds'
    PROVE  IInv'
<1>1. TypeOK'
  BY DEF IInv, TypeOK
<1>2. ListInv'
  BY ListInvFrame DEF IInv
<1> QED BY <1>1, <1>2 DEF IInv

\* A step of one thread that at most sends a signal.
LEMMA ThreadFrame ==
    ASSUME IInv, NEW t \in Threads, NEW r \in ThreadStates, Goto(t, r),
           r.arr \in DOMAIN heap, r.i <= Len(heap[r.arr]),
           UNCHANGED <<svcVars, folder, path>>,
           Len(proc') = Len(proc), proc' \in Seq(ProcStates),
           \A c \in PIDs : proc'[c] = "done" <=> proc[c] = "done"
    PROVE  IInv'
<1>1. thr' \in [Threads -> ThreadStates] /\ SlicesInBounds'
  BY GotoFacts DEF svcVars
<1> QED
  BY <1>1, StepFrame DEF svcVars, IInv, TypeOK

\* The places in the code are different strings; the other lemmas only use that
\* they are members of PCs.
LEMMA Places ==
    /\ "idle" \in PCs /\ "start" \in PCs /\ "sleep" \in PCs /\ "wait" \in PCs
    /\ "stopplugin" \in PCs /\ "mark" \in PCs /\ "stopall" \in PCs
    /\ "ordered" \in PCs /\ "range" \in PCs /\ "boot" \in PCs /\ "scan" \in PCs
    /\ "connect" \in PCs /\ "autostart" \in PCs /\ "signal" \in PCs
    /\ "stop" \in PCs /\ "exited" \in PCs
  BY DEF PCs

\* The idle thread is well-typed.
LEMMA IdleTyped == Idle \in ThreadStates /\ Idle.arr = 1 /\ Idle.i = 0
<1>1. <<>> \in Seq(Plugins) /\ {} \in SUBSET Plugins /\ {} \in SUBSET Nat
  OBVIOUS
<1>2. Core \in Plugins /\ 0 \in Nat /\ 1 \in Nat /\ FALSE \in BOOLEAN
  BY LauncherAssumption
<1>3. Idle \in ThreadStates
  BY <1>1, <1>2, Places DEF Idle, ThreadStates
<1> QED BY <1>3 DEF Idle

\* Its slice is within bounds, in whatever heap.
LEMMA IdleFacts ==
    ASSUME IInv
    PROVE  /\ Idle \in ThreadStates
           /\ Idle.arr \in DOMAIN heap /\ Idle.i <= Len(heap[Idle.arr])
<1>1. heap \in Seq(Seq(Nat)) /\ cmds.arr \in DOMAIN heap
  BY DEF IInv, TypeOK
<1>2. 1 \in 1..Len(heap) /\ DOMAIN heap = 1..Len(heap)
  BY <1>1
<1>3. heap[1] \in Seq(Nat)
  BY <1>1, <1>2, ElementOfSeq
<1>4. Len(heap[1]) \in Nat
  BY <1>3
<1> QED BY <1>2, <1>4, IdleTyped

\* Signals neither start nor clean up a process.
LEMMA SignalFacts ==
    ASSUME IInv, NEW c, SigTerm(c) \/ SigKill(c)
    PROVE  /\ Len(proc') = Len(proc) /\ proc' \in Seq(ProcStates)
           /\ \A d \in PIDs : proc'[d] = "done" <=> proc[d] = "done"
<1>1. proc \in Seq(ProcStates) /\ PIDs = 1..Len(proc) /\ Len(proc) \in Nat
  BY DEF IInv, TypeOK, PIDs
<1>2. proc' \in [1..Len(proc) -> ProcStates]
  BY <1>1 DEF SigTerm, SigKill, ProcStates
<1>3. \A d \in PIDs : proc'[d] = "done" <=> proc[d] = "done"
  BY <1>1 DEF SigTerm, SigKill
<1> QED BY <1>1, <1>2, <1>3

-----------------------------------------------------------------------------
(* The threads' steps.                                                       *)

\* The state a thread is in is well-typed and its slice is within bounds.
LEMMA ThreadFacts ==
    ASSUME IInv, NEW t \in Threads
    PROVE  /\ thr[t] \in ThreadStates
           /\ thr[t].arr \in DOMAIN heap /\ thr[t].i <= Len(heap[thr[t].arr])
  BY DEF IInv, TypeOK, SlicesInBounds

\* The place _startPlugin returns to.
LEMMA ReturnPlace ==
    ASSUME IInv, NEW t \in Threads, NEW err \in BOOLEAN
    PROVE  (IF err /\ thr[t].ret = "connect" THEN "stop" ELSE thr[t].ret) \in PCs
<1>1. thr[t].ret \in PCs
  BY ThreadFacts DEF ThreadStates
<1> QED BY <1>1, Places

\* The thread after _startPlugin has returned.
LEMMA Returned ==
    ASSUME IInv, NEW t \in Threads, NEW err \in BOOLEAN
    PROVE  LET r == [thr[t] EXCEPT !.pc = IF err /\ thr[t].ret = "connect"
                                          THEN "stop" ELSE thr[t].ret,
                                   !.plug = Core]
           IN  r \in ThreadStates /\ r.arr = thr[t].arr /\ r.i = thr[t].i
<1> DEFINE pc == IF err /\ thr[t].ret = "connect" THEN "stop" ELSE thr[t].ret
<1>1. pc \in PCs
  BY ReturnPlace
<1>2. thr[t] \in ThreadStates
  BY ThreadFacts
<1>3. Core \in Plugins
  BY LauncherAssumption
<1> HIDE DEF pc
<1>4. /\ [thr[t] EXCEPT !.pc = pc, !.plug = Core] \in ThreadStates
      /\ [thr[t] EXCEPT !.pc = pc, !.plug = Core].arr = thr[t].arr
      /\ [thr[t] EXCEPT !.pc = pc, !.plug = Core].i = thr[t].i
  BY <1>1, <1>2, <1>3, Zenon DEF ThreadStates
<1> QED BY <1>4 DEF pc

\* A step of one thread that changes nothing else.
LEMMA ThreadOnly ==
    ASSUME IInv, NEW t \in Threads, NEW r \in ThreadStates, Goto(t, r),
           r.arr \in DOMAIN heap, r.i <= Len(heap[r.arr]), UNCHANGED <<svcVars, osVars>>
    PROVE  IInv'
<1>1. /\ UNCHANGED <<svcVars, folder, path>>
      /\ Len(proc') = Len(proc) /\ proc' \in Seq(ProcStates)
      /\ \A c \in PIDs : proc'[c] = "done" <=> proc[c] = "done"
  BY DEF osVars, IInv, TypeOK
<1> QED BY <1>1, ThreadFrame

\* _startPlugin that starts nothing.
LEMMA StartReturnsStep ==
    ASSUME IInv, NEW t \in Threads, NEW err \in BOOLEAN, StartReturns(t, err),
           UNCHANGED <<svcVars, osVars>>
    PROVE  IInv'
<1> DEFINE r == [thr[t] EXCEPT !.pc = IF err /\ thr[t].ret = "connect"
                                      THEN "stop" ELSE thr[t].ret,
                               !.plug = Core]
<1>1. r \in ThreadStates /\ r.arr = thr[t].arr /\ r.i = thr[t].i
  BY Returned
<1>2. Goto(t, r)
  BY DEF StartReturns
<1> HIDE DEF r
<1> QED BY <1>1, <1>2, ThreadFacts, ThreadOnly

\* A start that is refused or fails gives the lock back and changes nothing else.
LEMMA StartRefusedStep ==
    ASSUME IInv, NEW t \in Threads, StartRefused(t) \/ StartFails(t)
    PROVE  IInv'
  BY StartReturnsStep DEF StartRefused, StartFails

\* Calls of _startPlugin.
LEMMA CallStartStep ==
    ASSUME IInv, NEW t \in Threads, NEW p \in Plugins, NEW r \in ThreadStates,
           CallStart(t, p, r),
           r.arr \in DOMAIN heap, r.i <= Len(heap[r.arr]), UNCHANGED <<svcVars, osVars>>
    PROVE  IInv'
<1> DEFINE q == [r EXCEPT !.pc = "start", !.plug = p]
<1>1. q \in ThreadStates /\ q.arr = r.arr /\ q.i = r.i
  BY Places DEF ThreadStates
<1>2. Goto(t, q)
  BY DEF CallStart
<1> HIDE DEF q
<1> QED BY <1>1, <1>2, ThreadOnly

\* Listed commands are numbers within the current backing array.
LEMMA ListedFacts ==
    ASSUME SliceOK
    PROVE  Listed \subseteq Nat
<1>1. /\ heap[cmds.arr] \in Seq(Nat) /\ cmds.len \in Nat
      /\ cmds.len <= Len(heap[cmds.arr]) /\ Len(heap[cmds.arr]) \in Nat
  BY ElementOfSeq DEF SliceOK
<1>2. \A k \in 1..cmds.len : Cmd(k) \in Nat
  BY <1>1, ElementOfSeq DEF Cmd
<1> QED BY <1>2 DEF Listed

\* The snapshot of StopAllPlugins.
LEMMA StopAllCallStep ==
    ASSUME IInv, NEW t \in Threads, NEW core \in BOOLEAN, StopAllCall(t, core),
           UNCHANGED <<svcVars, osVars>>
    PROVE  IInv'
<1> DEFINE g == {c \in Listed : core \/ path[c] # Core}
           r == [thr[t] EXCEPT !.pc = "stopall", !.arr = cmds.arr, !.i = cmds.len,
                               !.core = core, !.goal = g]
<1>1. SliceOK
  BY DEF IInv, TypeOK, SliceOK
<1>2. g \in SUBSET Nat
  BY <1>1, ListedFacts
<1>3. Goto(t, r)
  BY DEF StopAllCall
<1> HIDE DEF g
<1>4. cmds.arr \in Nat /\ cmds.len \in Nat
  BY <1>1 DEF SliceOK
<1>5. r \in ThreadStates /\ r.arr = cmds.arr /\ r.i = cmds.len
  BY <1>2, <1>4, ThreadFacts, Places DEF ThreadStates
<1> HIDE DEF r
<1> QED BY <1>1, <1>3, <1>5, ThreadOnly DEF SliceOK

\* A handler accepts one of the four requests.
LEMMA RequestStep ==
    ASSUME IInv, NEW t \in Threads, Request(t)
    PROVE  IInv'
<1> USE IdleFacts, ThreadFacts
<1>1. ASSUME NEW p \in Plugins, StartPlugin(t, p) PROVE IInv'
  BY <1>1, CallStartStep DEF StartPlugin
<1>2. ASSUME NEW p \in Plugins, StopPlugin(t, p) PROVE IInv'
  <2> DEFINE r == [Idle EXCEPT !.pc = "stopplugin", !.plug = p]
  <2>1. r \in ThreadStates /\ r.arr = Idle.arr /\ r.i = Idle.i
    BY Places DEF ThreadStates
  <2>2. Goto(t, r) \/ Goto(t, Idle)
    BY <1>2 DEF StopPlugin
  <2>3. UNCHANGED <<svcVars, osVars>>
    BY <1>2 DEF StopPlugin
  <2> HIDE DEF r
  <2> QED BY <2>1, <2>2, <2>3, ThreadOnly
<1>3. ASSUME StopAllPlugins(t) PROVE IInv'
  <2>1. PICK core \in BOOLEAN : StopAllCall(t, core)
    BY <1>3 DEF StopAllPlugins
  <2>2. UNCHANGED <<svcVars, osVars>>
    BY <1>3 DEF StopAllPlugins
  <2> QED BY <2>1, <2>2, StopAllCallStep
<1>4. ASSUME StartAllPlugins(t) PROVE IInv'
  <2> DEFINE r == [Idle EXCEPT !.pc = "ordered", !.todo = Autostart]
  <2>1. r \in ThreadStates /\ r.arr = Idle.arr /\ r.i = Idle.i
    BY LauncherAssumption, Places DEF ThreadStates
  <2>2. Goto(t, r) /\ UNCHANGED <<svcVars, osVars>>
    BY <1>4 DEF StartAllPlugins
  <2> HIDE DEF r
  <2> QED BY <2>1, <2>2, ThreadOnly
<1> QED BY <1>1, <1>2, <1>3, <1>4 DEF Request

\* StopAllPlugins, Stop and StopPlugin.
LEMMA StopSteps ==
    ASSUME IInv, NEW t \in Threads, StopStep(t)
    PROVE  IInv'
<1> USE IdleFacts, ThreadFacts
<1>1. CASE StopReturns(t) \/ StopTimesOut(t)
  <2> DEFINE r == [thr[t] EXCEPT !.pc = thr[t].ret, !.pid = 0]
  <2>1. r \in ThreadStates /\ r.arr = thr[t].arr /\ r.i = thr[t].i
    BY DEF ThreadStates
  <2>2. Goto(t, r)
    BY <1>1 DEF StopReturns, StopTimesOut
  <2> HIDE DEF r
  <2>3. CASE StopReturns(t)
    BY <2>1, <2>2, <2>3, ThreadOnly DEF StopReturns
  <2>4. CASE StopTimesOut(t)
    <3>1. SigKill(thr[t].pid) /\ UNCHANGED <<svcVars, folder, path>>
      BY <2>4 DEF StopTimesOut
    <3> QED BY <2>1, <2>2, <3>1, SignalFacts, ThreadFrame
  <2> QED BY <1>1, <2>3, <2>4
<1>2. CASE StopPluginCall(t)
  <2> DEFINE c == info[thr[t].plug].pid
             r == [thr[t] EXCEPT !.pc = "wait", !.ret = "mark", !.pid = c]
  <2>1. c \in Nat
    BY DEF ThreadStates, IInv, TypeOK
  <2>2. SigTerm(c) /\ Goto(t, r) /\ UNCHANGED <<svcVars, folder, path>>
    BY <1>2 DEF StopPluginCall
  <2> HIDE DEF c
  <2>3. r \in ThreadStates /\ r.arr = thr[t].arr /\ r.i = thr[t].i
    BY <2>1, Places DEF ThreadStates
  <2> HIDE DEF r
  <2> QED BY <2>2, <2>3, SignalFacts, ThreadFrame
<1>3. CASE StopPluginMark(t)
  <2>1. /\ info' = [info EXCEPT ![thr[t].plug].running = FALSE]
        /\ Goto(t, Idle) /\ UNCHANGED <<plugins, heap, cmds, mux, watcher, serving, osVars>>
    BY <1>3 DEF StopPluginMark
  <2>2. thr' \in [Threads -> ThreadStates] /\ SlicesInBounds'
    BY <2>1, GotoFacts
  <2>3. /\ info' \in [Plugins -> [running : BOOLEAN, pid : Nat]]
        /\ \A p \in Plugins : info'[p].running => info[p].running /\ info'[p].pid = info[p].pid
    <3>1. info \in [Plugins -> [running : BOOLEAN, pid : Nat]] /\ thr[t].plug \in Plugins
      BY DEF IInv, TypeOK, ThreadStates
    <3> QED BY <2>1, <3>1
  <2> QED BY <2>1, <2>2, <2>3, StepFrame DEF osVars, IInv, TypeOK
<1>4. CASE StopAllStep(t)
  <2> DEFINE c == heap[thr[t].arr][thr[t].i]
             r1 == [thr[t] EXCEPT !.i = @ - 1]
             r2 == [thr[t] EXCEPT !.pc = "wait", !.ret = "stopall", !.pid = c, !.i = @ - 1]
  <2>0. thr[t].i > 0 /\ UNCHANGED <<svcVars, folder, path>>
    BY <1>4 DEF StopAllStep
  <2>1. /\ thr[t].i \in 1..Len(heap[thr[t].arr]) /\ heap[thr[t].arr] \in Seq(Nat)
        /\ thr[t].i - 1 \in Nat
    <3>1. heap \in Seq(Seq(Nat))
      BY DEF IInv, TypeOK
    <3>2. heap[thr[t].arr] \in Seq(Nat)
      BY <3>1, ElementOfSeq
    <3>3. thr[t].i \in Nat
      BY DEF ThreadStates
    <3> QED BY <2>0, <3>2, <3>3
  <2>2. c \in Nat
    BY <2>1, ElementOfSeq
  <2>3. \/ Goto(t, r1) /\ UNCHANGED proc
        \/ Goto(t, r2) /\ SigTerm(c)
    BY <1>4 DEF StopAllStep
  <2> HIDE DEF c
  <2>4. r1 \in ThreadStates /\ r1.arr = thr[t].arr /\ r1.i = thr[t].i - 1
    BY <2>1 DEF ThreadStates
  <2>5. r2 \in ThreadStates /\ r2.arr = thr[t].arr /\ r2.i = thr[t].i - 1
    BY <2>1, <2>2, Places DEF ThreadStates
  <2>6. thr[t].i - 1 <= Len(heap[thr[t].arr])
    BY <2>1
  <2> HIDE DEF r1, r2
  <2>7. CASE Goto(t, r1) /\ UNCHANGED proc
    BY <2>0, <2>4, <2>6, <2>7, ThreadOnly DEF osVars
  <2>8. CASE Goto(t, r2) /\ SigTerm(c)
    BY <2>0, <2>5, <2>6, <2>8, SignalFacts, ThreadFrame
  <2> QED BY <2>3, <2>7, <2>8
<1>5. CASE StopAllReturns(t)
  <2> DEFINE r == [Idle EXCEPT !.pc = "exited"]
  <2>1. r \in ThreadStates /\ r.arr = Idle.arr /\ r.i = Idle.i
    BY Places DEF ThreadStates
  <2>2. (Goto(t, r) \/ Goto(t, Idle)) /\ UNCHANGED <<svcVars, osVars>>
    BY <1>5 DEF StopAllReturns
  <2> HIDE DEF r
  <2> QED BY <2>1, <2>2, ThreadOnly
<1> QED BY <1>1, <1>2, <1>3, <1>4, <1>5 DEF StopStep

\* StartAllPlugins.
LEMMA StartAllSteps ==
    ASSUME IInv, NEW t \in Threads, StartAllStep(t)
    PROVE  IInv'
<1> USE IdleFacts, ThreadFacts
<1>0. plugins \in SUBSET Plugins
  BY DEF IInv, TypeOK
<1>1. CASE StartAllOrdered(t)
  <2> DEFINE r == [thr[t] EXCEPT !.todo = Tail(@)]
             q == [r EXCEPT !.ret = "ordered"]
             p == Head(thr[t].todo)
  <2>1. UNCHANGED <<svcVars, osVars>> /\ thr[t].todo # <<>>
        /\ (Goto(t, r) \/ CallStart(t, p, q))
    BY <1>1 DEF StartAllOrdered
  <2>2. Tail(thr[t].todo) \in Seq(Plugins) /\ p \in Plugins
    BY <2>1, HeadTailProperties DEF ThreadStates
  <2>3. /\ r \in ThreadStates /\ r.arr = thr[t].arr /\ r.i = thr[t].i
        /\ q \in ThreadStates /\ q.arr = thr[t].arr /\ q.i = thr[t].i
    BY <2>2, Places DEF ThreadStates
  <2> HIDE DEF r, q, p
  <2> QED BY <2>1, <2>2, <2>3, ThreadOnly, CallStartStep
<1>2. CASE StartAllRange(t)
  <2>1. PICK added \in SUBSET (Installable \ plugins) :
           Goto(t, [thr[t] EXCEPT !.pc = "range", !.rest = plugins \cup added])
    BY <1>2 DEF StartAllRange
  <2> DEFINE r == [thr[t] EXCEPT !.pc = "range", !.rest = plugins \cup added]
  <2>2. plugins \cup added \in SUBSET Plugins
    BY <1>0, LauncherAssumption
  <2>3. r \in ThreadStates /\ r.arr = thr[t].arr /\ r.i = thr[t].i
    BY <2>2, Places DEF ThreadStates
  <2>4. UNCHANGED <<svcVars, osVars>>
    BY <1>2 DEF StartAllRange
  <2> HIDE DEF r
  <2> QED BY <2>1, <2>3, <2>4, ThreadOnly DEF r
<1>3. CASE StartAllVisit(t)
  <2>1. PICK p \in thr[t].rest \cap plugins :
           LET r == [thr[t] EXCEPT !.rest = @ \ {p}] IN
           Goto(t, r) \/ CallStart(t, p, [r EXCEPT !.ret = "range"])
    BY <1>3 DEF StartAllVisit
  <2> DEFINE r == [thr[t] EXCEPT !.rest = @ \ {p}]
             q == [r EXCEPT !.ret = "range"]
  <2>2. UNCHANGED <<svcVars, osVars>>
    BY <1>3 DEF StartAllVisit
  <2>3. /\ r \in ThreadStates /\ r.arr = thr[t].arr /\ r.i = thr[t].i
        /\ q \in ThreadStates /\ q.arr = thr[t].arr /\ q.i = thr[t].i
    BY Places DEF ThreadStates
  <2>4. Goto(t, r) \/ CallStart(t, p, q)
    BY <2>1
  <2> HIDE DEF r, q
  <2> QED BY <1>0, <2>2, <2>3, <2>4, ThreadOnly, CallStartStep
<1>4. CASE StartAllReturns(t)
  BY <1>4, ThreadOnly DEF StartAllReturns
<1> QED BY <1>1, <1>2, <1>3, <1>4 DEF StartAllStep

-----------------------------------------------------------------------------
(* The two steps that change the list, and the rest of _startPlugin.         *)

\* A new process is listed last, under a path no listed command has.
LEMMA StartSpawnsStep ==
    ASSUME IInv, NEW t \in Threads, StartSpawns(t)
    PROVE  IInv'
<1> DEFINE p == thr[t].plug
           c == Len(proc) + 1
           r == [thr[t] EXCEPT !.pc = "sleep"]
<1>0. SliceOK /\ TypeOK /\ ListInv
  BY DEF IInv, TypeOK, SliceOK
<1>1. /\ AppendCmd(c) /\ proc' = Append(proc, "up") /\ path' = Append(path, p)
      /\ info' = [info EXCEPT ![p] = [running |-> TRUE, pid |-> c]]
      /\ mux' = t /\ Goto(t, r) /\ UNCHANGED <<folder, plugins, watcher, serving>>
      /\ p \in plugins /\ \A d \in Listed : path[d] # p
  BY DEF StartSpawns, MayStart
<1>2. /\ p \in Plugins /\ c \in Nat /\ Len(proc) \in Nat /\ PIDs = 1..Len(proc)
      /\ Len(path) = Len(proc) /\ cmds.len \in Nat
  BY <1>0, <1>1 DEF TypeOK, PIDs
<1>3. /\ SliceOK' /\ cmds'.len = cmds.len + 1
      /\ \A k \in 1..cmds.len : heap'[cmds'.arr][k] = heap[cmds.arr][k]
      /\ heap'[cmds'.arr][cmds.len + 1] = c
      /\ \A a \in DOMAIN heap : a \in DOMAIN heap' /\ Len(heap'[a]) = Len(heap[a])
  BY <1>0, <1>1, <1>2, AppendCmdFacts
<1>4. /\ proc' \in Seq(ProcStates) /\ Len(proc') = c
      /\ \A d \in 1..Len(proc) : proc'[d] = proc[d]
      /\ proc'[c] = "up"
  <2>1. "up" \in ProcStates /\ proc \in Seq(ProcStates)
    BY <1>0 DEF ProcStates, TypeOK
  <2> QED BY <1>1, <2>1, AppendProperties
<1>5. /\ path' \in Seq(Plugins) /\ Len(path') = c
      /\ \A d \in 1..Len(proc) : path'[d] = path[d]
      /\ path'[c] = p
  <2>1. path \in Seq(Plugins)
    BY <1>0 DEF TypeOK
  <2> QED BY <1>1, <1>2, <2>1, AppendProperties
<1>6. r \in ThreadStates /\ r.arr = thr[t].arr /\ r.i = thr[t].i
  BY ThreadFacts, Places DEF ThreadStates
<1> HIDE DEF r, c, p
<1>7. thr' \in [Threads -> ThreadStates] /\ \A u \in Threads : thr'[u] = IF u = t THEN r ELSE thr[u]
  BY <1>0, <1>1, <1>6 DEF Goto, TypeOK
<1>8. SlicesInBounds'
  BY <1>3, <1>6, <1>7 DEF SlicesInBounds, IInv
<1>9. /\ info' \in [Plugins -> [running : BOOLEAN, pid : Nat]]
      /\ \A q \in Plugins : info'[q] = IF q = p THEN [running |-> TRUE, pid |-> c] ELSE info[q]
  BY <1>0, <1>1, <1>2 DEF TypeOK
<1>10. TypeOK'
  BY <1>0, <1>1, <1>3, <1>4, <1>5, <1>7, <1>9 DEF TypeOK, SliceOK
<1>11. PIDs' = PIDs \cup {c} /\ c \notin PIDs /\ \A d \in PIDs : d < c
  BY <1>2, <1>4 DEF PIDs, c
<1>12. Listed \subseteq PIDs
  BY <1>0 DEF ListInv, CmdsInStartOrder
<1>13. Listed' = Listed \cup {c}
  <2>1. Listed' = {heap'[cmds'.arr][k] : k \in 1..cmds'.len}
    BY DEF Listed, Cmd
  <2>2. 1..cmds'.len = 1..cmds.len \cup {cmds.len + 1}
    BY <1>2, <1>3
  <2>3. Listed' = {heap'[cmds'.arr][k] : k \in 1..cmds.len} \cup {heap'[cmds'.arr][cmds.len + 1]}
    BY <2>1, <2>2
  <2>4. {heap'[cmds'.arr][k] : k \in 1..cmds.len} = {heap[cmds.arr][k] : k \in 1..cmds.len}
    BY <1>3
  <2>5. heap'[cmds'.arr][cmds.len + 1] = c
    BY <1>3
  <2> QED BY <2>3, <2>4, <2>5 DEF Listed, Cmd
<1>14. CmdsInStartOrder'
  <2>1. Listed' = {d \in PIDs' : proc'[d] # "done"}
    BY <1>0, <1>2, <1>4, <1>11, <1>13 DEF ListInv, CmdsInStartOrder
  <2>2. ASSUME NEW j \in 1..cmds'.len, NEW k \in 1..cmds'.len, j < k
        PROVE  heap'[cmds'.arr][j] < heap'[cmds'.arr][k]
    <3>1. j \in 1..cmds.len /\ Cmd(j) \in Listed /\ heap'[cmds'.arr][j] = Cmd(j)
      BY <1>2, <1>3, <2>2 DEF Listed, Cmd
    <3>2. CASE k = cmds.len + 1
      BY <1>3, <1>11, <1>12, <3>1, <3>2
    <3>3. CASE k \in 1..cmds.len
      <4>1. heap'[cmds'.arr][k] = Cmd(k) /\ Cmd(j) < Cmd(k)
        BY <1>0, <1>3, <2>2, <3>1, <3>3 DEF ListInv, CmdsInStartOrder, Cmd
      <4> QED BY <3>1, <4>1
    <3> QED BY <1>2, <1>3, <3>2, <3>3
  <2> QED BY <2>1, <2>2 DEF CmdsInStartOrder, Cmd
<1>15. ListedOncePerPath'
  BY <1>0, <1>1, <1>2, <1>5, <1>11, <1>12, <1>13 DEF ListInv, ListedOncePerPath
<1>16. RunningIsListed'
  BY <1>0, <1>2, <1>5, <1>9, <1>11, <1>12, <1>13 DEF ListInv, RunningIsListed
<1> QED BY <1>8, <1>10, <1>14, <1>15, <1>16 DEF IInv, ListInv

\* The waiter delists exactly its own command.
LEMMA WaiterCleanupStep ==
    ASSUME IInv, NEW c \in PIDs, WaiterCleanup(c)
    PROVE  IInv'
<1>0. SliceOK /\ TypeOK /\ ListInv
  BY DEF IInv, TypeOK, SliceOK
<1>1. /\ proc[c] = "reaped" /\ proc' = [proc EXCEPT ![c] = "done"]
      /\ info' = [info EXCEPT ![path[c]].running = FALSE] /\ RemoveCmd(c)
      /\ UNCHANGED <<folder, plugins, path, mux, watcher, serving, thr>>
  BY DEF WaiterCleanup
<1>2. c \in Listed /\ Listed \subseteq PIDs
  BY <1>0, <1>1 DEF ListInv, CmdsInStartOrder
<1>3. /\ SliceOK' /\ cmds'.arr = cmds.arr /\ cmds'.len = cmds.len - 1
      /\ \A a \in DOMAIN heap : a \in DOMAIN heap' /\ Len(heap'[a]) = Len(heap[a])
  BY <1>0, <1>1, <1>2, RemoveCmdFacts
<1>4. PICK i \in 1..cmds.len :
         /\ Cmd(i) = c
         /\ \A k \in 1..Len(heap[cmds.arr]) :
               heap'[cmds.arr][k] = IF k >= i /\ k < cmds.len THEN Cmd(k + 1) ELSE Cmd(k)
  BY <1>0, <1>1, <1>2, RemoveCmdFacts
<1>5. cmds.len \in Nat /\ Len(heap[cmds.arr]) \in Nat /\ cmds.len <= Len(heap[cmds.arr])
  BY <1>0, ElementOfSeq DEF SliceOK
<1>6. PIDs = 1..Len(proc) /\ PIDs' = PIDs /\ Len(proc') = Len(proc)
      /\ proc' \in Seq(ProcStates) /\ \A d \in PIDs : proc'[d] = IF d = c THEN "done" ELSE proc[d]
  <2>1. proc \in Seq(ProcStates) /\ PIDs = 1..Len(proc) /\ "done" \in ProcStates
    BY <1>0 DEF TypeOK, PIDs, ProcStates
  <2>2. proc' \in Seq(ProcStates) /\ Len(proc') = Len(proc)
        /\ \A d \in 1..Len(proc) : proc'[d] = IF d = c THEN "done" ELSE proc[d]
    BY <1>1, <2>1, ExceptSeq
  <2> QED BY <2>1, <2>2 DEF PIDs
<1>7. path[c] \in Plugins
  BY <1>0, <1>6, ElementOfSeq DEF TypeOK
<1>8. /\ info' \in [Plugins -> [running : BOOLEAN, pid : Nat]]
      /\ \A p \in Plugins : /\ info'[p].pid = info[p].pid
                            /\ info'[p].running => info[p].running /\ p # path[c]
  <2>1. info \in [Plugins -> [running : BOOLEAN, pid : Nat]]
    BY <1>0 DEF TypeOK
  <2> QED BY <1>1, <1>7, <2>1
<1>9. TypeOK'
  BY <1>0, <1>1, <1>3, <1>6, <1>8 DEF TypeOK, SliceOK
<1>10. SlicesInBounds'
  BY <1>1, <1>3 DEF SlicesInBounds, IInv
<1>11. \A j, k \in 1..cmds.len : j < k => Cmd(j) < Cmd(k)
  BY <1>0 DEF ListInv, CmdsInStartOrder
<1>12. \A k \in 1..cmds.len : Cmd(k) \in PIDs
  BY <1>2 DEF Listed
<1>13. \A k \in 1..(cmds.len - 1) :
          heap'[cmds'.arr][k] = IF k >= i THEN Cmd(k + 1) ELSE Cmd(k)
  <2> SUFFICES ASSUME NEW k \in 1..(cmds.len - 1)
               PROVE  heap'[cmds'.arr][k] = IF k >= i THEN Cmd(k + 1) ELSE Cmd(k)
    OBVIOUS
  <2>1. k \in 1..Len(heap[cmds.arr]) /\ k < cmds.len
    BY <1>5
  <2> QED BY <1>3, <1>4, <2>1
<1>14. Listed' = Listed \ {c}
  <2>1. Listed' = {heap'[cmds'.arr][k] : k \in 1..(cmds.len - 1)}
    BY <1>3 DEF Listed, Cmd
  <2>2. ASSUME NEW k \in 1..(cmds.len - 1)
        PROVE  heap'[cmds'.arr][k] \in Listed \ {c}
    <3>1. CASE k >= i
      <4>1. k + 1 \in 1..cmds.len /\ i < k + 1 /\ heap'[cmds'.arr][k] = Cmd(k + 1)
        BY <1>5, <1>13, <3>1
      <4>2. Cmd(i) < Cmd(k + 1) /\ Cmd(k + 1) \in PIDs /\ Cmd(i) \in PIDs
        BY <1>11, <1>12, <4>1
      <4>3. Cmd(k + 1) # c
        BY <1>4, <1>6, <4>2
      <4> QED BY <4>1, <4>3 DEF Listed
    <3>2. CASE ~(k >= i)
      <4>1. k \in 1..cmds.len /\ k < i /\ heap'[cmds'.arr][k] = Cmd(k)
        BY <1>5, <1>13, <3>2
      <4>2. Cmd(k) < Cmd(i) /\ Cmd(k) \in PIDs /\ Cmd(i) \in PIDs
        BY <1>11, <1>12, <4>1
      <4>3. Cmd(k) # c
        BY <1>4, <1>6, <4>2
      <4> QED BY <4>1, <4>3 DEF Listed
    <3> QED BY <3>1, <3>2
  <2>3. ASSUME NEW k \in 1..cmds.len, Cmd(k) # c
        PROVE  \E j \in 1..(cmds.len - 1) : heap'[cmds'.arr][j] = Cmd(k)
    <3>0. k # i
      BY <1>4, <2>3
    <3>1. CASE k < i
      BY <1>5, <1>13, <3>1
    <3>2. CASE k > i
      <4>1. k - 1 \in 1..(cmds.len - 1) /\ k - 1 >= i /\ (k - 1) + 1 = k
        BY <1>5, <3>2
      <4>2. heap'[cmds'.arr][k - 1] = Cmd(k)
        BY <1>13, <4>1
      <4> QED BY <4>1, <4>2
    <3> QED BY <1>5, <3>0, <3>1, <3>2
  <2> QED BY <2>1, <2>2, <2>3 DEF Listed
<1>15. CmdsInStartOrder'
  <2>1. Listed' = {d \in PIDs' : proc'[d] # "done"}
    BY <1>0, <1>6, <1>14 DEF ListInv, CmdsInStartOrder
  <2>2. ASSUME NEW j \in 1..cmds'.len, NEW k \in 1..cmds'.len, j < k
        PROVE  heap'[cmds'.arr][j] < heap'[cmds'.arr][k]
    <3> DEFINE jj == IF j >= i THEN j + 1 ELSE j
               kk == IF k >= i THEN k + 1 ELSE k
    <3>1. jj \in 1..cmds.len /\ kk \in 1..cmds.len /\ jj < kk
      BY <1>3, <1>5, <2>2
    <3>2. heap'[cmds'.arr][j] = Cmd(jj) /\ heap'[cmds'.arr][k] = Cmd(kk)
      BY <1>3, <1>13
    <3> HIDE DEF jj, kk
    <3> QED BY <1>11, <3>1, <3>2
  <2> QED BY <2>1, <2>2 DEF CmdsInStartOrder, Cmd
<1>16. ListedOncePerPath'
  BY <1>0, <1>1, <1>14 DEF ListInv, ListedOncePerPath
<1>17. RunningIsListed'
  BY <1>0, <1>1, <1>8, <1>14 DEF ListInv, RunningIsListed
<1> QED BY <1>9, <1>10, <1>15, <1>16, <1>17 DEF IInv, ListInv

\* The end of _startPlugin gives the lock back.
LEMMA StartSleptStep ==
    ASSUME IInv, NEW t \in Threads, StartSlept(t)
    PROVE  IInv'
<1>1. PICK err \in BOOLEAN : StartReturns(t, err)
  BY DEF StartSlept
<1> DEFINE r == [thr[t] EXCEPT !.pc = IF err /\ thr[t].ret = "connect"
                                      THEN "stop" ELSE thr[t].ret,
                               !.plug = Core]
<1>2. r \in ThreadStates /\ r.arr = thr[t].arr /\ r.i = thr[t].i
  BY Returned
<1>3. Goto(t, r)
  BY <1>1 DEF StartReturns
<1>4. mux' = NoOne /\ UNCHANGED <<plugins, info, heap, cmds, watcher, serving, osVars>>
  BY DEF StartSlept
<1> HIDE DEF r
<1>5. thr' \in [Threads -> ThreadStates] /\ SlicesInBounds'
  BY <1>2, <1>3, <1>4, ThreadFacts, GotoFacts
<1> QED BY <1>4, <1>5, StepFrame DEF osVars, IInv, TypeOK

\* A process that ends or is reaped stays listed.
LEMMA ProcessSteps ==
    ASSUME IInv, NEW c \in PIDs, WaitReturns(c) \/ ProcessExits(c)
    PROVE  IInv'
<1>1. proc \in Seq(ProcStates) /\ PIDs = 1..Len(proc)
  BY DEF IInv, TypeOK, PIDs
<1>2. PICK s \in ProcStates \ {"done"} : proc' = [proc EXCEPT ![c] = s]
  BY DEF WaitReturns, ProcessExits, ProcStates
<1>3. proc[c] # "done" /\ UNCHANGED <<svcVars, folder, path, thr>>
  BY DEF WaitReturns, ProcessExits
<1>4. /\ proc' \in Seq(ProcStates) /\ Len(proc') = Len(proc)
      /\ \A d \in 1..Len(proc) : proc'[d] = IF d = c THEN s ELSE proc[d]
  BY <1>1, <1>2, ExceptSeq
<1>5. SlicesInBounds'
  BY <1>3 DEF svcVars, SlicesInBounds, IInv
<1>6. \A d \in PIDs : proc'[d] = "done" <=> proc[d] = "done"
  BY <1>1, <1>3, <1>4
<1> QED BY <1>3, <1>4, <1>5, <1>6, StepFrame DEF svcVars, IInv, TypeOK

\* Main.
LEMMA MainSteps ==
    ASSUME IInv, MainStep
    PROVE  IInv'
<1> USE IdleFacts, ThreadFacts
<1>0. Main \in Threads
  BY DEF Threads
<1>1. ASSUME NEW pc \in PCs
      PROVE  LET r == [thr[Main] EXCEPT !.pc = pc] IN
             r \in ThreadStates /\ r.arr = thr[Main].arr /\ r.i = thr[Main].i
  BY <1>0 DEF ThreadStates
<1>2. ASSUME NEW pc \in PCs, MainGoes(pc), UNCHANGED heap
      PROVE  thr' \in [Threads -> ThreadStates] /\ SlicesInBounds'
  <2> DEFINE r == [thr[Main] EXCEPT !.pc = pc]
  <2>1. Goto(Main, r)
    BY <1>2 DEF MainGoes
  <2>2. r \in ThreadStates /\ r.arr = thr[Main].arr /\ r.i = thr[Main].i
    BY <1>1
  <2> HIDE DEF r
  <2> QED BY <1>0, <1>2, <2>1, <2>2, GotoFacts
<1>3. "scan" \in PCs /\ "stop" \in PCs /\ "signal" \in PCs
  BY DEF PCs
<1>4. CASE MainAddCore
  <2>1. thr' \in [Threads -> ThreadStates] /\ SlicesInBounds'
    BY <1>2, <1>3, <1>4 DEF MainAddCore
  <2>2. plugins' \in SUBSET Plugins /\ watcher' \in {"off", "idle", "scan"}
    BY <1>4, LauncherAssumption DEF MainAddCore, IInv, TypeOK
  <2> QED BY <1>4, <2>1, <2>2, StepFrame DEF MainAddCore, osVars, IInv, TypeOK
<1>5. CASE MainScan
  <2> DEFINE r == [[Idle EXCEPT !.ret = "connect"] EXCEPT !.pc = "start", !.plug = Core]
  <2>1. r \in ThreadStates /\ r.arr = Idle.arr /\ r.i = Idle.i
    BY LauncherAssumption, Places DEF ThreadStates
  <2>2. Goto(Main, r) \/ MainGoes("stop")
    BY <1>5 DEF MainScan, CallStart
  <2>3. UNCHANGED <<info, heap, cmds, mux, watcher, serving, osVars>>
    BY <1>5 DEF MainScan
  <2> HIDE DEF r
  <2>4. thr' \in [Threads -> ThreadStates] /\ SlicesInBounds'
    BY <1>0, <1>2, <1>3, <2>1, <2>2, <2>3, GotoFacts
  <2>5. plugins' \in SUBSET Plugins
    BY <1>5 DEF MainScan, IInv, TypeOK
  <2> QED BY <2>3, <2>4, <2>5, StepFrame DEF osVars, IInv, TypeOK
<1>6. CASE MainConnect
  <2> DEFINE r == [Idle EXCEPT !.pc = "autostart", !.todo = Autostart]
  <2>1. r \in ThreadStates /\ r.arr = Idle.arr /\ r.i = Idle.i
    BY LauncherAssumption, Places DEF ThreadStates
  <2>2. Goto(Main, r) \/ MainGoes("stop")
    BY <1>6 DEF MainConnect
  <2>3. UNCHANGED <<plugins, info, heap, cmds, mux, watcher, osVars>>
    BY <1>6 DEF MainConnect
  <2> HIDE DEF r
  <2>4. thr' \in [Threads -> ThreadStates] /\ SlicesInBounds'
    BY <1>0, <1>2, <1>3, <2>1, <2>2, <2>3, GotoFacts
  <2>5. serving' \in BOOLEAN
    BY <1>6 DEF MainConnect, IInv, TypeOK
  <2> QED BY <2>3, <2>4, <2>5, StepFrame DEF osVars, IInv, TypeOK
<1>7. CASE MainAutostart
  <2> DEFINE p == Head(thr[Main].todo)
             r == [thr[Main] EXCEPT !.todo = Tail(@), !.ret = "autostart"]
  <2>1. UNCHANGED <<svcVars, osVars>>
    BY <1>7 DEF MainAutostart
  <2>2. CASE MainGoes("signal")
    <3>1. thr' \in [Threads -> ThreadStates] /\ SlicesInBounds'
      BY <1>2, <1>3, <2>1, <2>2 DEF svcVars
    <3> QED BY <2>1, <3>1, StepFrame DEF svcVars, osVars, IInv, TypeOK
  <2>3. CASE thr[Main].todo # <<>> /\ CallStart(Main, p, r)
    <3>1. p \in Plugins /\ Tail(thr[Main].todo) \in Seq(Plugins)
      BY <1>0, <2>3, HeadTailProperties DEF ThreadStates
    <3> HIDE DEF p
    <3>2. r \in ThreadStates /\ r.arr = thr[Main].arr /\ r.i = thr[Main].i
      BY <1>0, <3>1, Places DEF ThreadStates
    <3> HIDE DEF r
    <3> QED BY <1>0, <2>1, <2>3, <3>1, <3>2, CallStartStep
  <2> QED BY <1>7, <2>2, <2>3 DEF MainAutostart
<1>8. CASE MainSignal
  <2>1. UNCHANGED <<svcVars, osVars>> /\ MainGoes("stop")
    BY <1>8 DEF MainSignal
  <2>2. thr' \in [Threads -> ThreadStates] /\ SlicesInBounds'
    BY <1>2, <1>3, <2>1 DEF svcVars
  <2> QED BY <2>1, <2>2, StepFrame DEF svcVars, osVars, IInv, TypeOK
<1>9. CASE MainStop
  BY <1>0, <1>9, StopAllCallStep DEF MainStop
<1> QED BY <1>4, <1>5, <1>6, <1>7, <1>8, <1>9 DEF MainStep

\* The folder, its watcher, and stuttering.
LEMMA FolderSteps ==
    ASSUME IInv,
           \/ WatcherEvent \/ WatcherScanned
           \/ \E p \in Installable : FolderAdd(p)
           \/ UNCHANGED vars
    PROVE  IInv'
<1>1. UNCHANGED <<heap, cmds, path, info, proc, serving, thr>>
  BY DEF WatcherEvent, WatcherScanned, FolderAdd, vars, svcVars, osVars
<1>2. SlicesInBounds'
  BY <1>1 DEF SlicesInBounds, IInv
<1>3. /\ folder' \in SUBSET Plugins /\ plugins' \in SUBSET Plugins
      /\ mux' \in Threads \cup {Watcher, NoOne} /\ watcher' \in {"off", "idle", "scan"}
  BY LauncherAssumption
     DEF WatcherEvent, WatcherScanned, FolderAdd, vars, svcVars, osVars, IInv, TypeOK
<1> QED BY <1>1, <1>2, <1>3, StepFrame DEF IInv, TypeOK

-----------------------------------------------------------------------------
\* The launcher starts with an empty list and no process.
LEMMA InitIInv == Init => IInv
<1> SUFFICES ASSUME Init PROVE IInv
  OBVIOUS
<1>1. /\ Idle \in ThreadStates /\ Idle.arr = 1 /\ Idle.i = 0
      /\ LET r == [Idle EXCEPT !.pc = "boot"] IN r \in ThreadStates /\ r.arr = 1 /\ r.i = 0
  <2> QED BY IdleTyped, Places DEF ThreadStates
<1>2. heap = <<<<>>>> /\ heap \in Seq(Seq(Nat)) /\ Len(heap) = 1 /\ heap[1] = <<>>
  <2>1. <<>> \in Seq(Nat)
    OBVIOUS
  <2> QED BY <2>1 DEF Init
<1>3. TypeOK
  <2>1. thr \in [Threads -> ThreadStates]
    BY <1>1 DEF Init
  <2>2. cmds \in [arr : Nat, len : Nat] /\ cmds.arr \in DOMAIN heap
        /\ cmds.len <= Len(heap[cmds.arr])
    BY <1>2 DEF Init
  <2>3. folder \in SUBSET Plugins
    BY LauncherAssumption DEF Init
  <2>4. info \in [Plugins -> [running : BOOLEAN, pid : Nat]]
    BY DEF Init
  <2>5. proc \in Seq(ProcStates) /\ path \in Seq(Plugins) /\ Len(path) = Len(proc)
    BY DEF Init
  <2>6. plugins \in SUBSET Plugins /\ watcher \in {"off", "idle", "scan"} /\ serving \in BOOLEAN
        /\ mux \in Threads \cup {Watcher, NoOne}
    BY DEF Init
  <2> QED BY <1>2, <2>1, <2>2, <2>3, <2>4, <2>5, <2>6 DEF TypeOK
<1>4. SlicesInBounds
  <2>1. \A t \in Threads : thr[t].arr = 1 /\ thr[t].i = 0
    BY <1>1 DEF Init
  <2> QED BY <1>2, <2>1 DEF SlicesInBounds
<1>5. Listed = {} /\ PIDs = {} /\ 1..cmds.len = {}
  BY DEF Init, Listed, PIDs
<1>6. ListInv
  BY <1>5 DEF Init, ListInv, CmdsInStartOrder, ListedOncePerPath, RunningIsListed
<1> QED BY <1>3, <1>4, <1>6 DEF IInv

\* Every step of the launcher keeps the inductive invariant.
LEMMA NextIInv == IInv /\ [Next]_vars => IInv'
<1> SUFFICES ASSUME IInv, [Next]_vars PROVE IInv'
  OBVIOUS
<1>1. ASSUME NEW t \in Threads, StartStep(t) PROVE IInv'
  BY <1>1, StartRefusedStep, StartSpawnsStep, StartSleptStep DEF StartStep
<1>2. ASSUME NEW t \in Threads, StopStep(t) \/ StartAllStep(t) \/ Request(t) PROVE IInv'
  BY <1>2, StopSteps, StartAllSteps, RequestStep
<1>3. ASSUME NEW c \in PIDs, WaitReturns(c) \/ WaiterCleanup(c) \/ ProcessExits(c) PROVE IInv'
  BY <1>3, ProcessSteps, WaiterCleanupStep
<1>4. CASE MainStep
  BY <1>4, MainSteps
<1>5. CASE WatcherEvent \/ WatcherScanned \/ (\E p \in Installable : FolderAdd(p))
           \/ Exited \/ UNCHANGED vars
  BY <1>5, FolderSteps DEF Exited
<1> QED BY <1>1, <1>2, <1>3, <1>4, <1>5 DEF Next

\* The inductive invariant of the launcher holds in every reachable state.
THEOREM InductiveInvariant == Spec => []IInv
  BY InitIInv, NextIInv, PTL DEF Spec

\* The state of the launcher is well-typed in every reachable state.
THEOREM TypeCorrect == Spec => []TypeOK
<1>1. IInv => TypeOK
  BY DEF IInv
<1> QED BY <1>1, InductiveInvariant, PTL

\* "don't start twice": whatever requests, autostart, stops and exits do, a
\* plugin never has two processes that have not been reaped.
THEOREM NeverTwoProcesses == Spec => []OneProcessPerPlugin
<1>1. IInv => OneProcessPerPlugin
  <2> SUFFICES ASSUME IInv, NEW c \in PIDs, NEW d \in PIDs, path[c] = path[d],
                      {proc[c], proc[d]} \cap Ended = {}
               PROVE  c = d
    BY DEF OneProcessPerPlugin
  <2>1. c \in Listed /\ d \in Listed
    BY DEF IInv, ListInv, CmdsInStartOrder, Ended
  <2> QED BY <2>1 DEF IInv, ListInv, ListedOncePerPath
<1> QED BY <1>1, InductiveInvariant, PTL

\* svc.cmds holds exactly the commands that have not been cleaned up, in start
\* order, so the index the waiter looks up always exists.
THEOREM ListIsExact == Spec => []CmdsInStartOrder
<1>1. IInv => CmdsInStartOrder
  BY DEF IInv, ListInv
<1> QED BY <1>1, InductiveInvariant, PTL

\* A plugin shown as running has its process on the list.
THEOREM RunningIsNeverStale == Spec => []RunningIsListed
<1>1. IInv => RunningIsListed
  BY DEF IInv, ListInv
<1> QED BY <1>1, InductiveInvariant, PTL
-----------------------------------------------------------------------------
(* StopAllPlugins: the loop over an alias of the list.                       *)

Live == {"up", "term"}

\* The thread is in the loop, or in the call of Stop that the loop makes.
InLoop(r) == r.pc = "stopall" \/ (r.pc = "wait" /\ r.ret = "stopall")

\* A command that the loop of a thread must stop and that is still up is the one
\* being stopped, or it is in the part of the array that the loop has yet to read.
LoopOK(r, h, st, pa) ==
    InLoop(r) => \A c \in r.goal :
        /\ c \in DOMAIN st
        /\ r.core \/ pa[c] # Core
        /\ st[c] \in Live => (r.pc = "wait" /\ r.pid = c) \/ \E k \in 1..r.i : h[r.arr][k] = c

\* _startPlugin does not return into the loop, and Stop returns to it or to StopPlugin.
ReturnsOK(r) ==
    /\ r.pc \in {"start", "sleep"} => r.ret \in {"idle", "ordered", "range", "connect", "autostart"}
    /\ r.pc = "wait" => r.ret \in {"mark", "stopall"}

LoopInv == \A t \in Threads : LoopOK(thr[t], heap, proc, path) /\ ReturnsOK(thr[t])

\* Processes do not come back to life, and keep their paths.
Ages ==
    \A c \in PIDs : /\ c \in PIDs' /\ path'[c] = path[c]
                    /\ proc'[c] \in Live => proc[c] \in Live

\* A live command in the part of the array that is yet to be read stays there.
StaysAhead(r) ==
    \A c \in PIDs, k \in 1..r.i :
       proc'[c] \in Live /\ heap[r.arr][k] = c => \E j \in 1..r.i : heap'[r.arr][j] = c

\* Such a step does not hide a command from a loop that goes on as it was.
LEMMA LoopKept ==
    ASSUME NEW r, LoopOK(r, heap, proc, path), Ages, StaysAhead(r)
    PROVE  LoopOK(r, heap', proc', path')
<1> SUFFICES ASSUME InLoop(r), NEW c \in r.goal
             PROVE  /\ c \in DOMAIN proc'
                    /\ r.core \/ path'[c] # Core
                    /\ proc'[c] \in Live => \/ r.pc = "wait" /\ r.pid = c
                                            \/ \E k \in 1..r.i : heap'[r.arr][k] = c
  BY DEF LoopOK
<1>1. /\ c \in PIDs
      /\ r.core \/ path[c] # Core
      /\ proc[c] \in Live => (r.pc = "wait" /\ r.pid = c) \/ \E k \in 1..r.i : heap[r.arr][k] = c
  BY DEF LoopOK, PIDs
<1>2. c \in PIDs' /\ path'[c] = path[c] /\ (proc'[c] \in Live => proc[c] \in Live)
  BY <1>1 DEF Ages
<1> QED BY <1>1, <1>2 DEF StaysAhead, PIDs

\* A step of one thread that neither starts a process nor changes the list.
LEMMA LoopStep ==
    ASSUME IInv, LoopInv, NEW t \in Threads, NEW r, Goto(t, r), UNCHANGED heap, Ages,
           LoopOK(r, heap, proc', path'), ReturnsOK(r)
    PROVE  LoopInv'
<1>1. \A u \in Threads : thr'[u] = IF u = t THEN r ELSE thr[u]
  BY DEF Goto, IInv, TypeOK
<1>2. \A u \in Threads : LoopOK(thr[u], heap', proc', path')
  BY LoopKept DEF LoopInv, StaysAhead
<1>3. \A u \in Threads : LoopOK(thr'[u], heap', proc', path') /\ ReturnsOK(thr'[u])
  BY <1>1, <1>2 DEF LoopInv
<1> QED BY <1>3 DEF LoopInv

\* A step of one thread outside the loop that touches nothing else.
LEMMA OutsideStep ==
    ASSUME IInv, LoopInv, NEW t \in Threads, NEW r, Goto(t, r), UNCHANGED <<heap, proc, path>>,
           ~ InLoop(r), ReturnsOK(r)
    PROVE  LoopInv'
<1>1. Ages
  BY DEF Ages, PIDs
<1>2. LoopOK(r, heap, proc', path')
  BY DEF LoopOK
<1> QED BY <1>1, <1>2, LoopStep

\* A step in which no thread moves and the list stays.
LEMMA LoopFrame ==
    ASSUME LoopInv, UNCHANGED <<thr, heap>>, Ages
    PROVE  LoopInv'
<1>1. \A u \in Threads : LoopOK(thr[u], heap', proc', path')
  BY LoopKept DEF LoopInv, StaysAhead
<1> QED BY <1>1 DEF LoopInv

\* Signals and the end of a process.
LEMMA AgesFacts ==
    ASSUME IInv, UNCHANGED path, NEW c,
           \/ UNCHANGED proc
           \/ SigTerm(c)
           \/ SigKill(c)
           \/ c \in PIDs /\ proc' = [proc EXCEPT ![c] = "exited"]
           \/ c \in PIDs /\ proc' = [proc EXCEPT ![c] = "reaped"]
           \/ c \in PIDs /\ proc' = [proc EXCEPT ![c] = "done"]
    PROVE  Ages
<1>1. proc \in [PIDs -> ProcStates]
  BY DEF IInv, TypeOK, PIDs
<1> QED BY <1>1 DEF Ages, SigTerm, SigKill, Live, PIDs

\* Where _startPlugin returns to.
LEMMA StartReturnsLoop ==
    ASSUME IInv, LoopInv, NEW t \in Threads, NEW err \in BOOLEAN, StartReturns(t, err),
           thr[t].pc \in {"start", "sleep"}, UNCHANGED <<heap, proc, path>>
    PROVE  LoopInv'
<1> DEFINE pc == IF err /\ thr[t].ret = "connect" THEN "stop" ELSE thr[t].ret
           r == [thr[t] EXCEPT !.pc = pc, !.plug = Core]
<1>1. Goto(t, r)
  BY DEF StartReturns
<1>2. pc \in {"stop", "idle", "ordered", "range", "connect", "autostart"}
  BY DEF LoopInv, ReturnsOK
<1>3. thr[t] \in ThreadStates
  BY ThreadFacts
<1>4. r.pc = pc
  BY <1>3 DEF ThreadStates
<1> HIDE DEF r, pc
<1>5. ~ InLoop(r) /\ ReturnsOK(r)
  BY <1>2, <1>4 DEF InLoop, ReturnsOK
<1> QED BY <1>1, <1>5, OutsideStep

\* A thread that calls _startPlugin.
LEMMA CallStartLoop ==
    ASSUME IInv, LoopInv, NEW t \in Threads, NEW p, NEW q \in ThreadStates, CallStart(t, p, q),
           q.ret \in {"idle", "ordered", "range", "connect", "autostart"},
           UNCHANGED <<heap, proc, path>>
    PROVE  LoopInv'
<1> DEFINE r == [q EXCEPT !.pc = "start", !.plug = p]
<1>1. Goto(t, r)
  BY DEF CallStart
<1>2. r.pc = "start" /\ r.ret = q.ret
  BY DEF ThreadStates
<1> HIDE DEF r
<1>3. ~ InLoop(r) /\ ReturnsOK(r)
  BY <1>2 DEF InLoop, ReturnsOK
<1> QED BY <1>1, <1>3, OutsideStep

\* The loop begins with everything that it must stop before it.
LEMMA StopAllCallLoop ==
    ASSUME IInv, LoopInv, NEW t \in Threads, NEW core \in BOOLEAN, StopAllCall(t, core),
           UNCHANGED <<heap, proc, path>>
    PROVE  LoopInv'
<1> DEFINE goal == {c \in Listed : core \/ path[c] # Core}
           r == [thr[t] EXCEPT !.pc = "stopall", !.arr = cmds.arr, !.i = cmds.len,
                               !.core = core, !.goal = goal]
<1>1. Goto(t, r)
  BY DEF StopAllCall
<1>2. r.pc = "stopall" /\ r.arr = cmds.arr /\ r.i = cmds.len /\ r.core = core /\ r.goal = goal
  BY ThreadFacts DEF ThreadStates
<1>3. \A c \in goal : /\ c \in PIDs /\ (core \/ path[c] # Core)
                      /\ \E k \in 1..cmds.len : heap[cmds.arr][k] = c
  BY DEF IInv, ListInv, CmdsInStartOrder, Listed, Cmd
<1> HIDE DEF r, goal
<1>4. LoopOK(r, heap, proc', path')
  BY <1>2, <1>3 DEF LoopOK, PIDs
<1>5. ReturnsOK(r)
  BY <1>2 DEF ReturnsOK
<1>6. Ages
  BY DEF Ages, PIDs
<1> QED BY <1>1, <1>4, <1>5, <1>6, LoopStep

\* The call of Stop and its end.
LEMMA StopLoop ==
    ASSUME IInv, LoopInv, NEW t \in Threads, StopStep(t)
    PROVE  LoopInv'
<1>0. thr[t] \in ThreadStates
  BY ThreadFacts
<1> USE DEF osVars, svcVars
<1>1. CASE StopReturns(t) \/ StopTimesOut(t)
  <2> DEFINE q == thr[t]
             r == [q EXCEPT !.pc = q.ret, !.pid = 0]
  <2>1. /\ q.pc = "wait" /\ Goto(t, r) /\ UNCHANGED <<heap, path>>
        /\ UNCHANGED proc \/ SigKill(q.pid)
        /\ q.pid \in PIDs => proc'[q.pid] \notin Live
    <3>1. CASE StopReturns(t)
      BY <3>1 DEF StopReturns, At, Live, Ended
    <3>2. CASE StopTimesOut(t)
      BY <3>2 DEF StopTimesOut, At, Live, SigKill, Ended
    <3> QED BY <1>1, <3>1, <3>2
  <2>2. /\ r.pc = q.ret /\ r.ret = q.ret /\ r.i = q.i /\ r.arr = q.arr /\ r.core = q.core
        /\ r.goal = q.goal
    BY <1>0 DEF ThreadStates
  <2>3. Ages
    BY <2>1, AgesFacts
  <2>4. LoopOK(q, heap', proc', path')
    BY <2>1, <2>3, LoopKept DEF LoopInv, StaysAhead
  <2>5. q.ret \in {"stopall", "mark"}
    BY <2>1 DEF LoopInv, ReturnsOK
  <2> HIDE DEF r, q
  <2>7. LoopOK(r, heap, proc', path')
    <3> SUFFICES ASSUME InLoop(r), NEW c \in r.goal
                 PROVE  /\ c \in DOMAIN proc'
                        /\ r.core \/ path'[c] # Core
                        /\ proc'[c] \in Live => \E k \in 1..r.i : heap[r.arr][k] = c
      BY DEF LoopOK
    <3>1. InLoop(q)
      BY <2>1, <2>2 DEF InLoop
    <3>2. /\ c \in DOMAIN proc'
          /\ q.core \/ path'[c] # Core
          /\ proc'[c] \in Live => (q.pc = "wait" /\ q.pid = c) \/ \E k \in 1..q.i : heap'[q.arr][k] = c
      BY <2>2, <2>4, <3>1 DEF LoopOK
    <3>3. c \in PIDs
      BY <2>2, <3>1 DEF LoopInv, LoopOK, PIDs, q
    <3> QED BY <2>1, <2>2, <3>2, <3>3
  <2>8. ReturnsOK(r)
    BY <2>2, <2>5 DEF ReturnsOK
  <2> QED BY <2>1, <2>3, <2>7, <2>8, LoopStep
<1>2. CASE StopPluginCall(t)
  <2> DEFINE c == info[thr[t].plug].pid
             r == [thr[t] EXCEPT !.pc = "wait", !.ret = "mark", !.pid = c]
  <2>1. Goto(t, r) /\ SigTerm(c) /\ UNCHANGED <<heap, path>>
    BY <1>2 DEF StopPluginCall
  <2>2. r.pc = "wait" /\ r.ret = "mark"
    BY <1>0 DEF ThreadStates
  <2>3. Ages
    BY <2>1, AgesFacts
  <2> HIDE DEF r, c
  <2>4. LoopOK(r, heap, proc', path') /\ ReturnsOK(r)
    BY <2>2 DEF LoopOK, InLoop, ReturnsOK
  <2> QED BY <2>1, <2>3, <2>4, LoopStep
<1>3. CASE StopPluginMark(t)
  <2>1. Goto(t, Idle) /\ UNCHANGED <<heap, proc, path>>
    BY <1>3 DEF StopPluginMark
  <2>2. ~ InLoop(Idle) /\ ReturnsOK(Idle)
    BY DEF Idle, InLoop, ReturnsOK
  <2> QED BY <2>1, <2>2, OutsideStep
<1>4. CASE StopAllStep(t)
  <2> DEFINE q == thr[t]
             c == heap[q.arr][q.i]
  <2>1. q.pc = "stopall" /\ q.i > 0 /\ q.i \in Nat /\ UNCHANGED <<heap, path>>
    BY <1>0, <1>4 DEF StopAllStep, At, ThreadStates
  <2>2. LoopOK(q, heap, proc, path)
    BY DEF LoopInv
  <2>3. CASE /\ ~q.core /\ path[c] = Core
             /\ Goto(t, [q EXCEPT !.i = @ - 1])
             /\ UNCHANGED proc
    <3> DEFINE r == [q EXCEPT !.i = @ - 1]
    <3>1. /\ r.pc = q.pc /\ r.i = q.i - 1 /\ r.arr = q.arr /\ r.core = q.core /\ r.goal = q.goal
      BY <1>0 DEF ThreadStates
    <3>2. Goto(t, r)
      BY <2>3
    <3>3. Ages
      BY <2>1, <2>3 DEF Ages, PIDs
    <3> HIDE DEF r, q
    <3>4. LoopOK(r, heap, proc', path')
      <4> SUFFICES ASSUME NEW d \in r.goal
                   PROVE  /\ d \in DOMAIN proc
                          /\ r.core \/ path[d] # Core
                          /\ proc[d] \in Live => \E k \in 1..r.i : heap[r.arr][k] = d
        BY <2>1, <2>3 DEF LoopOK
      <4>1. /\ d \in DOMAIN proc
            /\ q.core \/ path[d] # Core
            /\ proc[d] \in Live => \E k \in 1..q.i : heap[q.arr][k] = d
        BY <2>1, <2>2, <3>1 DEF LoopOK, InLoop
      <4>2. d # c
        BY <2>3, <4>1
      <4>3. \A k \in 1..q.i : k = q.i \/ k \in 1..(q.i - 1)
        BY <2>1
      <4> QED BY <3>1, <4>1, <4>2, <4>3
    <3>5. ReturnsOK(r)
      BY <2>1, <3>1 DEF ReturnsOK
    <3> QED BY <2>1, <3>2, <3>3, <3>4, <3>5, LoopStep
  <2>4. CASE /\ q.core \/ path[c] # Core
             /\ SigTerm(c)
             /\ Goto(t, [q EXCEPT !.pc = "wait", !.ret = "stopall", !.pid = c, !.i = @ - 1])
    <3> DEFINE r == [q EXCEPT !.pc = "wait", !.ret = "stopall", !.pid = c, !.i = @ - 1]
    <3>1. /\ r.pc = "wait" /\ r.ret = "stopall" /\ r.pid = c /\ r.i = q.i - 1 /\ r.arr = q.arr /\ r.core = q.core
          /\ r.goal = q.goal
      BY <1>0 DEF ThreadStates
    <3>2. Goto(t, r)
      BY <2>4
    <3>3. Ages
      BY <2>1, <2>4, AgesFacts
    <3>4. LoopOK(q, heap', proc', path')
      BY <2>1, <2>2, <3>3, LoopKept DEF StaysAhead
    <3> HIDE DEF r, q, c
    <3>5. LoopOK(r, heap, proc', path')
      <4> SUFFICES ASSUME NEW d \in r.goal
                   PROVE  /\ d \in DOMAIN proc'
                          /\ r.core \/ path'[d] # Core
                          /\ proc'[d] \in Live => r.pid = d \/ \E k \in 1..r.i : heap[r.arr][k] = d
        BY <3>1 DEF LoopOK
      <4>1. /\ d \in DOMAIN proc'
            /\ q.core \/ path'[d] # Core
            /\ proc'[d] \in Live => \E k \in 1..q.i : heap[q.arr][k] = d
        BY <2>1, <3>1, <3>4 DEF LoopOK, InLoop
      <4>2. \A k \in 1..q.i : k = q.i \/ k \in 1..(q.i - 1)
        BY <2>1
      <4> QED BY <3>1, <4>1, <4>2 DEF c
    <3>6. ReturnsOK(r)
      BY <3>1 DEF ReturnsOK
    <3> QED BY <2>1, <3>2, <3>3, <3>5, <3>6, LoopStep
  <2> QED BY <1>4, <2>3, <2>4 DEF StopAllStep
<1>5. CASE StopAllReturns(t)
  <2> DEFINE r == IF t = Main THEN [Idle EXCEPT !.pc = "exited"] ELSE Idle
  <2>1. Goto(t, r) /\ UNCHANGED <<heap, proc, path>>
    BY <1>5 DEF StopAllReturns
  <2>2. r.pc \in {"exited", "idle"}
    BY DEF Idle
  <2> HIDE DEF r
  <2>3. ~ InLoop(r) /\ ReturnsOK(r)
    BY <2>2 DEF InLoop, ReturnsOK
  <2> QED BY <2>1, <2>3, OutsideStep
<1> QED BY <1>1, <1>2, <1>3, <1>4, <1>5 DEF StopStep

\* append writes at most the slot behind the list.
LEMMA AppendCmdKeeps ==
    ASSUME SliceOK, NEW c \in Nat, AppendCmd(c), NEW a \in DOMAIN heap, NEW k \in 1..Len(heap[a])
    PROVE  heap'[a][k] = heap[a][k] \/ (a = cmds.arr /\ k > cmds.len)
<1> DEFINE old == heap[cmds.arr]
<1>0. /\ cmds.arr \in 1..Len(heap) /\ cmds.len \in Nat /\ old \in Seq(Nat)
      /\ DOMAIN heap = 1..Len(heap) /\ Len(heap) \in Nat
      /\ heap[a] \in Seq(Nat) /\ Len(heap[a]) \in Nat
  BY ElementOfSeq DEF SliceOK
<1>1. CASE cmds.len < Len(old)
  <2> DEFINE new == [old EXCEPT ![cmds.len + 1] = c]
  <2>1. heap' = [heap EXCEPT ![cmds.arr] = new]
    BY <1>1 DEF AppendCmd
  <2>2. \A j \in 1..Len(old) : new[j] = IF j = cmds.len + 1 THEN c ELSE old[j]
    <3>1. DOMAIN old = 1..Len(old)
      BY <1>0
    <3> HIDE DEF old
    <3> QED BY <3>1
  <2> HIDE DEF new
  <2>3. heap'[a] = IF a = cmds.arr THEN new ELSE heap[a]
    BY <1>0, <2>1 DEF SliceOK
  <2> QED BY <1>0, <2>2, <2>3
<1>2. CASE ~ (cmds.len < Len(old))
  <2>1. \E new : heap' = Append(heap, new)
    BY <1>2 DEF AppendCmd
  <2>2. heap'[a] = heap[a]
    BY <1>0, <2>1 DEF SliceOK
  <2> QED BY <2>2
<1> QED BY <1>1, <1>2

\* A start appends to the list, in the array of the loops or in another one.
LEMMA StartSpawnsLoop ==
    ASSUME IInv, LoopInv, NEW t \in Threads, StartSpawns(t)
    PROVE  LoopInv'
<1> DEFINE c == Len(proc) + 1
           r == [thr[t] EXCEPT !.pc = "sleep"]
<1>1. /\ At(t, "start") /\ AppendCmd(c) /\ Goto(t, r)
      /\ proc' = Append(proc, "up") /\ path' = Append(path, thr[t].plug)
  BY DEF StartSpawns, MayStart
<1>2. SliceOK /\ c \in Nat
  BY DEF IInv, TypeOK, SliceOK
<1>3. /\ proc \in Seq(ProcStates) /\ path \in Seq(Plugins) /\ Len(path) = Len(proc)
      /\ PIDs = 1..Len(proc) /\ Len(proc) \in Nat
  BY DEF IInv, TypeOK, PIDs
<1>4. Ages
  <2>1. \A d \in PIDs : d \in DOMAIN proc' /\ proc'[d] = proc[d] /\ path'[d] = path[d]
    BY <1>1, <1>3, AppendProperties
  <2> QED BY <2>1 DEF Ages, PIDs
<1>5. ASSUME NEW u \in Threads PROVE StaysAhead(thr[u])
  <2> DEFINE q == thr[u]
  <2>1. q.arr \in DOMAIN heap /\ q.i <= Len(heap[q.arr]) /\ q.i \in Nat
    BY ThreadFacts DEF ThreadStates
  <2>2. Len(heap[q.arr]) \in Nat /\ cmds.len \in Nat
    BY <1>2, <2>1, ElementOfSeq DEF SliceOK
  <2> HIDE DEF q
  <2> SUFFICES ASSUME NEW d \in PIDs, NEW k \in 1..q.i, proc'[d] \in Live, heap[q.arr][k] = d
               PROVE  \E j \in 1..q.i : heap'[q.arr][j] = d
    BY DEF StaysAhead, q
  <2>3. \A j \in 1..q.i : heap'[q.arr][j] = heap[q.arr][j] \/ (q.arr = cmds.arr /\ j > cmds.len)
    <3>1. \A j \in 1..q.i : j \in 1..Len(heap[q.arr])
      BY <2>1, <2>2
    <3> QED BY <1>1, <1>2, <2>1, <3>1, AppendCmdKeeps
  <2>4. CASE heap'[q.arr][k] = heap[q.arr][k]
    BY <2>4
  <2>5. CASE q.arr = cmds.arr /\ k > cmds.len
    <3>1. proc[d] \in Live
      BY <1>4 DEF Ages
    <3>2. d \in Listed
      BY <3>1 DEF IInv, ListInv, CmdsInStartOrder, Live
    <3>3. PICK j \in 1..cmds.len : heap[cmds.arr][j] = d
      BY <3>2 DEF Listed, Cmd
    <3>4. j \in 1..q.i /\ ~ (j > cmds.len)
      BY <2>1, <2>2, <2>5
    <3> QED BY <2>3, <2>5, <3>3, <3>4
  <2> QED BY <2>3, <2>4, <2>5
<1>6. \A u \in Threads : LoopOK(thr[u], heap', proc', path')
  BY <1>4, <1>5, LoopKept DEF LoopInv
<1>7. r.pc = "sleep" /\ r.ret = thr[t].ret
  BY ThreadFacts DEF ThreadStates
<1>8. ReturnsOK(thr[t]) /\ thr[t].pc = "start"
  BY <1>1 DEF LoopInv, At
<1> HIDE DEF r
<1>9. LoopOK(r, heap', proc', path') /\ ReturnsOK(r)
  BY <1>7, <1>8 DEF LoopOK, InLoop, ReturnsOK
<1>10. \A u \in Threads : thr'[u] = IF u = t THEN r ELSE thr[u]
  BY <1>1 DEF Goto, IInv, TypeOK
<1>11. \A u \in Threads : LoopOK(thr'[u], heap', proc', path') /\ ReturnsOK(thr'[u])
  BY <1>6, <1>9, <1>10 DEF LoopInv
<1> QED BY <1>11 DEF LoopInv

\* A waiter moves the commands behind its own towards the loops, never past them.
LEMMA WaiterCleanupLoop ==
    ASSUME IInv, LoopInv, NEW c \in PIDs, WaiterCleanup(c)
    PROVE  LoopInv'
<1>1. /\ proc[c] = "reaped" /\ proc' = [proc EXCEPT ![c] = "done"] /\ RemoveCmd(c)
      /\ UNCHANGED <<path, thr>>
  BY DEF WaiterCleanup
<1>2. SliceOK /\ c \in Listed
  BY <1>1 DEF IInv, TypeOK, SliceOK, ListInv, CmdsInStartOrder
<1>3. Ages
  BY <1>1, AgesFacts
<1>4. proc'[c] \notin Live
  BY <1>1 DEF Live, PIDs
<1>5. PICK i \in 1..cmds.len :
         /\ Cmd(i) = c
         /\ \A k \in 1..Len(heap[cmds.arr]) :
               heap'[cmds.arr][k] = IF k >= i /\ k < cmds.len THEN Cmd(k + 1) ELSE Cmd(k)
  BY <1>1, <1>2, RemoveCmdFacts
<1>6. \A a \in DOMAIN heap : a # cmds.arr => heap'[a] = heap[a]
  BY <1>1, <1>2, RemoveCmdFacts
<1>7. ASSUME NEW u \in Threads PROVE StaysAhead(thr[u])
  <2> DEFINE q == thr[u]
  <2>1. q.arr \in DOMAIN heap /\ q.i <= Len(heap[q.arr]) /\ q.i \in Nat
    BY ThreadFacts DEF ThreadStates
  <2>2. Len(heap[q.arr]) \in Nat /\ cmds.len \in Nat
    BY <1>2, <2>1, ElementOfSeq DEF SliceOK
  <2> HIDE DEF q
  <2> SUFFICES ASSUME NEW d \in PIDs, NEW k \in 1..q.i, proc'[d] \in Live, heap[q.arr][k] = d
               PROVE  \E j \in 1..q.i : heap'[q.arr][j] = d
    BY DEF StaysAhead, q
  <2>3. CASE q.arr # cmds.arr
    BY <1>6, <2>1, <2>3
  <2>4. CASE q.arr = cmds.arr
    <3>1. d # c /\ k # i /\ k \in 1..Len(heap[cmds.arr]) /\ Cmd(k) = d
      BY <1>4, <1>5, <2>1, <2>2, <2>4 DEF Cmd
    <3>2. CASE k < i \/ k > cmds.len
      <4>1. heap'[cmds.arr][k] = Cmd(k)
        BY <1>5, <2>2, <3>1, <3>2
      <4> QED BY <2>4, <3>1, <4>1
    <3>3. CASE k > i /\ k <= cmds.len
      <4> DEFINE j == k - 1
      <4>1. j \in 1..q.i /\ j \in 1..Len(heap[cmds.arr]) /\ j >= i /\ j < cmds.len /\ j + 1 = k
        BY <2>1, <2>2, <3>1, <3>3
      <4> HIDE DEF j
      <4>2. heap'[cmds.arr][j] = Cmd(j + 1)
        BY <1>5, <4>1
      <4> QED BY <2>4, <3>1, <4>1, <4>2
    <3> QED BY <2>2, <3>1, <3>2, <3>3
  <2> QED BY <2>3, <2>4
<1>8. \A u \in Threads : LoopOK(thr[u], heap', proc', path')
  BY <1>3, <1>7, LoopKept DEF LoopInv
<1> QED BY <1>1, <1>8 DEF LoopInv

\* A thread that goes to a place outside the loop and outside the two calls.
LEMMA PlaceStep ==
    ASSUME IInv, LoopInv, NEW t \in Threads, NEW r, Goto(t, r), UNCHANGED <<heap, proc, path>>,
           r.pc \in PCs \ {"stopall", "wait", "start", "sleep"}
    PROVE  LoopInv'
<1>1. ~ InLoop(r) /\ ReturnsOK(r)
  BY DEF InLoop, ReturnsOK
<1> QED BY <1>1, OutsideStep

\* The rest of _startPlugin, the requests and StartAllPlugins.
LEMMA ThreadLoop ==
    ASSUME IInv, LoopInv, NEW t \in Threads, StartStep(t) \/ Request(t) \/ StartAllStep(t)
    PROVE  LoopInv'
<1> USE DEF osVars, svcVars
<1>0. thr[t] \in ThreadStates /\ Idle \in ThreadStates /\ Idle.ret = "idle" /\ Idle.pc = "idle"
  BY ThreadFacts, IdleTyped DEF Idle
<1>1. CASE StartRefused(t) \/ StartFails(t) \/ StartSlept(t)
  <2>1. /\ thr[t].pc \in {"start", "sleep"} /\ UNCHANGED <<heap, proc, path>>
        /\ \E err \in BOOLEAN : StartReturns(t, err)
    BY <1>1 DEF StartRefused, StartFails, StartSlept, MayStart, At
  <2> QED BY <2>1, StartReturnsLoop
<1>2. CASE StartSpawns(t)
  BY <1>2, StartSpawnsLoop
<1>3. CASE \E p \in Plugins : StartPlugin(t, p)
  BY <1>0, <1>3, CallStartLoop DEF StartPlugin
<1>4. CASE \E p \in Plugins : StopPlugin(t, p)
  <2>1. PICK p \in Plugins : StopPlugin(t, p)
    BY <1>4
  <2> DEFINE r == IF p \in plugins THEN [Idle EXCEPT !.pc = "stopplugin", !.plug = p] ELSE Idle
  <2>2. Goto(t, r) /\ UNCHANGED <<heap, proc, path>>
    BY <2>1 DEF StopPlugin
  <2>3. r.pc \in {"idle", "stopplugin"}
    BY <1>0 DEF ThreadStates
  <2> HIDE DEF r
  <2> QED BY <2>2, <2>3, PlaceStep DEF PCs
<1>5. CASE StopAllPlugins(t)
  BY <1>5, StopAllCallLoop DEF StopAllPlugins
<1>6. CASE StartAllPlugins(t)
  <2> DEFINE r == [Idle EXCEPT !.pc = "ordered", !.todo = Autostart]
  <2>1. Goto(t, r) /\ UNCHANGED <<heap, proc, path>>
    BY <1>6 DEF StartAllPlugins
  <2>2. r.pc = "ordered"
    BY <1>0 DEF ThreadStates
  <2> HIDE DEF r
  <2> QED BY <2>1, <2>2, PlaceStep DEF PCs
<1>7. CASE StartAllOrdered(t)
  <2> DEFINE r == [thr[t] EXCEPT !.todo = Tail(@)]
             q == [r EXCEPT !.ret = "ordered"]
             p == Head(thr[t].todo)
  <2>1. /\ UNCHANGED <<heap, proc, path>> /\ thr[t].todo # <<>> /\ thr[t].pc = "ordered"
        /\ Goto(t, r) \/ CallStart(t, p, q)
    BY <1>7 DEF StartAllOrdered, At
  <2>2. Tail(thr[t].todo) \in Seq(Plugins)
    BY <1>0, <2>1, HeadTailProperties DEF ThreadStates
  <2>3. r.pc = thr[t].pc /\ q \in ThreadStates /\ q.ret = "ordered"
    BY <1>0, <2>2, Places DEF ThreadStates
  <2> HIDE DEF r, q, p
  <2>4. CASE Goto(t, r)
    BY <2>1, <2>3, <2>4, PlaceStep DEF PCs
  <2>5. CASE CallStart(t, p, q)
    BY <2>1, <2>3, <2>5, CallStartLoop
  <2> QED BY <2>1, <2>4, <2>5
<1>8. CASE StartAllRange(t)
  <2>1. PICK rest : Goto(t, [thr[t] EXCEPT !.pc = "range", !.rest = rest])
    BY <1>8 DEF StartAllRange
  <2> DEFINE r == [thr[t] EXCEPT !.pc = "range", !.rest = rest]
  <2>2. r.pc = "range" /\ UNCHANGED <<heap, proc, path>>
    BY <1>0, <1>8 DEF ThreadStates, StartAllRange
  <2>3. Goto(t, r)
    BY <2>1
  <2> HIDE DEF r
  <2> QED BY <2>2, <2>3, PlaceStep DEF PCs
<1>9. CASE StartAllVisit(t)
  <2>1. PICK p \in thr[t].rest \cap plugins :
           LET r == [thr[t] EXCEPT !.rest = @ \ {p}] IN
           Goto(t, r) \/ CallStart(t, p, [r EXCEPT !.ret = "range"])
    BY <1>9 DEF StartAllVisit
  <2> DEFINE r == [thr[t] EXCEPT !.rest = @ \ {p}]
             q == [r EXCEPT !.ret = "range"]
  <2>2. UNCHANGED <<heap, proc, path>> /\ thr[t].pc = "range"
    BY <1>9 DEF StartAllVisit, At
  <2>3. r.pc = thr[t].pc /\ q \in ThreadStates /\ q.ret = "range"
    BY <1>0, Places DEF ThreadStates
  <2>4. Goto(t, r) \/ CallStart(t, p, q)
    BY <2>1
  <2> HIDE DEF r, q
  <2>5. CASE Goto(t, r)
    BY <2>2, <2>3, <2>5, PlaceStep DEF PCs
  <2>6. CASE CallStart(t, p, q)
    BY <2>2, <2>3, <2>6, CallStartLoop
  <2> QED BY <2>4, <2>5, <2>6
<1>10. CASE StartAllReturns(t)
  BY <1>0, <1>10, PlaceStep DEF StartAllReturns, PCs
<1> QED BY <1>1, <1>2, <1>3, <1>4, <1>5, <1>6, <1>7, <1>8, <1>9, <1>10
        DEF StartStep, Request, StartAllStep

\* The main goroutine, which gets into the loop by Stop only.
LEMMA MainLoop ==
    ASSUME IInv, LoopInv, MainStep
    PROVE  LoopInv'
<1> USE DEF osVars, svcVars
<1>0. /\ Main \in Threads /\ thr[Main] \in ThreadStates
      /\ Idle \in ThreadStates /\ Idle.ret = "idle" /\ Idle.pc = "idle"
  BY ThreadFacts, IdleTyped DEF Threads, Idle
<1>1. ASSUME NEW pc \in {"scan", "stop", "signal"}, MainGoes(pc), UNCHANGED <<heap, proc, path>>
      PROVE  LoopInv'
  <2> DEFINE r == [thr[Main] EXCEPT !.pc = pc]
  <2>1. Goto(Main, r) /\ r.pc = pc
    BY <1>0, <1>1 DEF MainGoes, ThreadStates
  <2> HIDE DEF r
  <2> QED BY <1>0, <1>1, <2>1, PlaceStep DEF PCs
<1>2. CASE MainAddCore
  BY <1>1, <1>2 DEF MainAddCore
<1>3. CASE MainScan
  <2> DEFINE q == [Idle EXCEPT !.ret = "connect"]
  <2>1. UNCHANGED <<heap, proc, path>> /\ (CallStart(Main, Core, q) \/ MainGoes("stop"))
    BY <1>3 DEF MainScan
  <2>2. q \in ThreadStates /\ q.ret = "connect"
    BY <1>0, Places DEF ThreadStates
  <2> HIDE DEF q
  <2> QED BY <1>0, <1>1, <2>1, <2>2, CallStartLoop
<1>4. CASE MainConnect
  <2> DEFINE r == [Idle EXCEPT !.pc = "autostart", !.todo = Autostart]
  <2>1. UNCHANGED <<heap, proc, path>> /\ (Goto(Main, r) \/ MainGoes("stop"))
    BY <1>4 DEF MainConnect
  <2>2. r.pc = "autostart"
    BY <1>0 DEF ThreadStates
  <2> HIDE DEF r
  <2>3. CASE Goto(Main, r)
    BY <1>0, <2>1, <2>2, <2>3, PlaceStep DEF PCs
  <2> QED BY <1>1, <2>1, <2>3
<1>5. CASE MainAutostart
  <2> DEFINE p == Head(thr[Main].todo)
             r == [thr[Main] EXCEPT !.todo = Tail(@), !.ret = "autostart"]
  <2>1. /\ UNCHANGED <<heap, proc, path>>
        /\ MainGoes("signal") \/ (thr[Main].todo # <<>> /\ CallStart(Main, p, r))
    BY <1>5 DEF MainAutostart
  <2>2. CASE thr[Main].todo # <<>> /\ CallStart(Main, p, r)
    <3>1. Tail(thr[Main].todo) \in Seq(Plugins)
      BY <1>0, <2>2, HeadTailProperties DEF ThreadStates
    <3>2. r \in ThreadStates /\ r.ret = "autostart"
      BY <1>0, <3>1, Places DEF ThreadStates
    <3> HIDE DEF r, p
    <3> QED BY <1>0, <2>1, <2>2, <3>2, CallStartLoop
  <2> QED BY <1>1, <2>1, <2>2
<1>6. CASE MainSignal
  BY <1>1, <1>6 DEF MainSignal
<1>7. CASE MainStop
  BY <1>0, <1>7, StopAllCallLoop DEF MainStop
<1> QED BY <1>2, <1>3, <1>4, <1>5, <1>6, <1>7 DEF MainStep

\* Nobody is in the loop when the launcher starts.
LEMMA InitLoop == Init => LoopInv
<1> SUFFICES ASSUME Init PROVE LoopInv
  OBVIOUS
<1>1. \A t \in Threads : thr[t].pc \in {"boot", "idle"}
  BY DEF Init, Idle
<1> QED BY <1>1 DEF LoopInv, LoopOK, InLoop, ReturnsOK

\* Every step keeps what the loops have to stop before them.
LEMMA NextLoop == IInv /\ LoopInv /\ [Next]_vars => LoopInv'
<1> SUFFICES ASSUME IInv, LoopInv, [Next]_vars PROVE LoopInv'
  OBVIOUS
<1>1. ASSUME NEW t \in Threads, StartStep(t) \/ StopStep(t) \/ StartAllStep(t) \/ Request(t)
      PROVE  LoopInv'
  BY <1>1, ThreadLoop, StopLoop
<1>2. ASSUME NEW c \in PIDs, WaitReturns(c) \/ ProcessExits(c) PROVE LoopInv'
  <2>1. UNCHANGED <<thr, heap, path>>
    BY <1>2 DEF WaitReturns, ProcessExits, svcVars
  <2>2. Ages
    BY <1>2, <2>1, AgesFacts DEF WaitReturns, ProcessExits
  <2> QED BY <2>1, <2>2, LoopFrame
<1>3. ASSUME NEW c \in PIDs, WaiterCleanup(c) PROVE LoopInv'
  BY <1>3, WaiterCleanupLoop
<1>4. CASE MainStep
  BY <1>4, MainLoop
<1>5. CASE WatcherEvent \/ WatcherScanned \/ (\E p \in Installable : FolderAdd(p))
           \/ Exited \/ UNCHANGED vars
  <2>1. UNCHANGED <<thr, heap, proc, path>>
    BY <1>5 DEF WatcherEvent, WatcherScanned, FolderAdd, Exited, vars, svcVars, osVars
  <2>2. Ages
    BY <2>1 DEF Ages, PIDs
  <2> QED BY <2>1, <2>2, LoopFrame
<1> QED BY <1>1, <1>2, <1>3, <1>4, <1>5 DEF Next

\* StopAllPlugins reads, without the lock, an array that waiters shift and starts
\* overwrite, and yet misses no command that was listed when it began: for any
\* number of commands, and of loops at the same time.
THEOREM StopAllMissesNoneHolds == Spec => []StopAllMissesNone
<1>1. Spec => []LoopInv
  BY InitLoop, NextLoop, InductiveInvariant, PTL DEF Spec
<1>2. LoopInv => StopAllMissesNone
  <2> SUFFICES ASSUME LoopInv, NEW t \in Threads, At(t, "stopall"), thr[t].i = 0, NEW c \in thr[t].goal
               PROVE  proc[c] \notin {"up", "term"}
    BY DEF StopAllMissesNone
  <2>1. LoopOK(thr[t], heap, proc, path) /\ InLoop(thr[t]) /\ thr[t].pc # "wait"
    BY DEF LoopInv, At, InLoop
  <2> QED BY <2>1 DEF LoopOK, Live
<1> QED BY <1>1, <1>2, PTL

=============================================================================
