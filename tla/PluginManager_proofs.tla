------------------------ MODULE PluginManager_proofs ------------------------
(***************************************************************************)
(* Proofs about PluginManager, for every number of callers, reloads,       *)
(* installs, edits of the files and registered objects.                    *)
(***************************************************************************)
EXTENDS PluginManager, TLAPS

USE ManagerAssumption

-----------------------------------------------------------------------------
(* Types and locks.                                                          *)

Objects == [loaded : BOOLEAN, runtime : {"none", "live", "closed", "expired"}, version : 0 .. MaxVersion,
            curCtx : Threads \cup {Nobody}, wired : BOOLEAN]

Locals == [p : Entries, q : Entries, reading : 0 .. MaxVersion, hosted : BOOLEAN,
           ctx : Threads \cup {Nobody}, met : BOOLEAN, need : 0 .. MaxVersion]

Results == {"none", "data", "error", "challenge", "panic", "ok"}

Typed ==
  /\ kind \in Kinds
  /\ disk \in 1 .. MaxVersion
  /\ entry \in Entries
  /\ plugin \in [Entries -> Objects]
  /\ name \in BOOLEAN /\ parked \in BOOLEAN /\ closed \in BOOLEAN
  /\ at \in [Threads -> Places]
  /\ my \in [Threads -> Locals]
  /\ result \in [Threads -> Results]
  /\ floor \in 0 .. MaxVersion

Locked ==
  /\ mu \in Threads \cup {Nobody}
  /\ \A t \in Threads : mu = t <=> HoldsManager(t)
  /\ pmu \in [Entries -> Threads \cup {Nobody}]
  /\ \A e \in Entries, t \in Threads : pmu[e] = t <=> HoldsEntry(t, e)

LEMMA TypeOKSplits == /\ TypeOK <=> Typed /\ Locked
                      /\ TypeOK' <=> Typed' /\ Locked'
BY DEF TypeOK, Typed, Locked, Objects, Locals, Results

LEMMA RecordsTyped ==
  /\ Registered \in Objects
  /\ Fresh \in Locals
BY DEF Registered, Fresh, Objects, Locals, Entries

LEMMA ReturnTyped ==
  ASSUME Typed, NEW t \in Threads, NEW r \in Results, Return(t, r)
  PROVE  /\ at' \in [Threads -> Places]
         /\ my' \in [Threads -> Locals]
         /\ result' \in [Threads -> Results]
BY RecordsTyped DEF Typed, Return, Goto, Places

Installing(t) == at[t] \in {"installing", "installingHost"}

\* An install that has begun finds room for its object.
Room == \A t \in Threads : Installing(t) => entry < MaxEntries

\* Writing the fields of one goroutine or of one object keeps the types.
LEMMA LocalsTyped ==
  ASSUME my \in [Threads -> Locals], NEW t \in Threads, NEW b \in BOOLEAN, NEW u \in Threads \cup {Nobody}
  PROVE  /\ [my EXCEPT ![t].hosted = b] \in [Threads -> Locals]
         /\ [my EXCEPT ![t].met = b] \in [Threads -> Locals]
         /\ [my EXCEPT ![t].hosted = b, ![t].ctx = u] \in [Threads -> Locals]
<1>1. \A r \in Locals : [r EXCEPT !.hosted = b] \in Locals /\ [r EXCEPT !.met = b] \in Locals
                        /\ [r EXCEPT !.hosted = b, !.ctx = u] \in Locals
  BY DEF Locals
<1> QED BY <1>1

LEMMA ObjectsTyped ==
  ASSUME plugin \in [Entries -> Objects], NEW e \in Entries
  PROVE  /\ \A r \in Objects : [plugin EXCEPT ![e] = r] \in [Entries -> Objects]
         /\ [plugin[e] EXCEPT !.loaded = FALSE, !.runtime = "none"] \in Objects
         /\ \A v \in 0 .. MaxVersion :
              [plugin[e] EXCEPT !.loaded = TRUE, !.runtime = "live", !.version = v, !.wired = FALSE] \in Objects
         /\ \A u \in Threads \cup {Nobody} : [Registered EXCEPT !.curCtx = u] \in Objects
<1>1. \A r \in Objects : [plugin EXCEPT ![e] = r] \in [Entries -> Objects]
  OBVIOUS
<1>2. PICK r \in Objects : r = plugin[e]
  OBVIOUS
<1>3. [r EXCEPT !.loaded = FALSE, !.runtime = "none"] \in Objects
  BY DEF Objects
<1>4. \A v \in 0 .. MaxVersion :
        [r EXCEPT !.loaded = TRUE, !.runtime = "live", !.version = v, !.wired = FALSE] \in Objects
  BY DEF Objects
<1>5. \A u \in Threads \cup {Nobody}, o \in Objects : [o EXCEPT !.curCtx = u] \in Objects
  BY DEF Objects
<1> QED BY <1>1, <1>2, <1>3, <1>4, <1>5, RecordsTyped

LEMMA AfterEnsureTyped ==
  ASSUME Typed, NEW t \in Threads, AfterEnsure(t)
  PROVE  /\ at' \in [Threads -> Places]
         /\ my' \in [Threads -> Locals]
         /\ result' \in [Threads -> Results]
         /\ floor' \in 0 .. MaxVersion
<1>1. CASE t \in Callers
  <2>1. my' = [my EXCEPT ![t].hosted = FALSE] /\ my \in [Threads -> Locals] /\ FALSE \in BOOLEAN
    BY <1>1 DEF AfterEnsure, Typed
  <2>2. my' \in [Threads -> Locals]
    BY <2>1, LocalsTyped, Zenon
  <2> QED BY <1>1, <2>2 DEF AfterEnsure, Goto, Typed, Places
<1>2. CASE t \notin Callers
  <2>1. my[t].need \in 0 .. MaxVersion
    BY DEF Typed, Locals
  <2>2. "ok" \in Results
    BY DEF Results
  <2> QED BY <1>2, <2>1, <2>2, ReturnTyped DEF AfterEnsure, Typed
<1> QED BY <1>1, <1>2

LEMMA EnsureTyped ==
  ASSUME Typed, NEW t \in Threads, ensureLoaded(t)
  PROVE  Typed'
<1> USE DEF world, Goto
<1>1. CASE EnsureLook(t)
  BY <1>1 DEF EnsureLook, Typed, Places, Locals
<1>2. CASE EnsureLoaded(t)
  BY <1>2, AfterEnsureTyped DEF EnsureLoaded, Typed
<1>3. CASE EnsureLoad(t)
  BY <1>3 DEF EnsureLoad, Typed, Places, Locals
<1>4. CASE InitCallsHost(t)
  <2>1. my' \in [Threads -> Locals]
    BY <1>4, LocalsTyped DEF InitCallsHost, Typed
  <2> QED BY <1>4, <2>1 DEF InitCallsHost, Typed, Places
<1>5. CASE InitHostReturns(t)
  BY <1>5 DEF InitHostReturns, Typed, Places, Locals
<1>6. CASE LoadSucceeds(t)
  <2>1. plugin' \in [Entries -> Objects]
    <3>1. my[t].q \in Entries /\ my[t].reading \in 0 .. MaxVersion
      BY DEF Typed, Locals
    <3> QED BY <1>6, <3>1, ObjectsTyped DEF LoadSucceeds, Typed
  <2> QED BY <1>6, <2>1, AfterEnsureTyped DEF LoadSucceeds, Typed
<1>7. CASE LoadFails(t)
  <2>1. "error" \in Results
    BY DEF Results
  <2> QED BY <1>7, <2>1, ReturnTyped DEF LoadFails, Typed
<1> QED BY <1>1, <1>2, <1>3, <1>4, <1>5, <1>6, <1>7 DEF ensureLoaded

LEMMA CallTyped ==
  ASSUME Typed, NEW t \in Threads, call(t)
  PROVE  Typed'
<1> USE DEF world, Goto
<1>0. {"data", "error", "challenge", "panic"} \subseteq Results
  BY DEF Results
<1>1. CASE ResolveJS(t)
  BY <1>0, <1>1, ReturnTyped DEF ResolveJS, Typed, Places
<1>2. CASE ResolvedJS(t)
  BY <1>0, <1>2, ReturnTyped DEF ResolvedJS, Typed, Places
<1>3. CASE InvokeGone(t)
  <2>1. PICK r \in Results : Return(t, r)
    BY <1>0, <1>3 DEF InvokeGone
  <2> QED BY <1>3, <2>1, ReturnTyped DEF InvokeGone, Typed
<1>4. CASE Invoke(t)
  <2>1. my[t].p \in Entries
    BY DEF Typed, Locals
  <2>2. plugin' \in [Entries -> Objects]
    BY <1>4, <2>1 DEF Invoke, Typed, Objects
  <2> QED BY <1>4, <2>2 DEF Invoke, Typed, Places
<1>5. CASE HostCall(t)
  <2>1. /\ my \in [Threads -> Locals] /\ TRUE \in BOOLEAN
        /\ \/ my' = [my EXCEPT ![t].hosted = TRUE]
           \/ my' = [my EXCEPT ![t].hosted = TRUE, ![t].ctx = Nobody]
           \/ my' = [my EXCEPT ![t].hosted = TRUE, ![t].ctx = t]
    <3>1. CASE kind = "native" /\ ~plugin[my[t].p].wired
      BY <1>5, <3>1 DEF HostCall, Typed
    <3>2. CASE ~(kind = "native" /\ ~plugin[my[t].p].wired)
      BY <1>5, <3>2 DEF HostCall, Typed
    <3> QED BY <3>1, <3>2
  <2>2. my' \in [Threads -> Locals]
    <3>1. t \in Threads \cup {Nobody} /\ Nobody \in Threads \cup {Nobody}
      OBVIOUS
    <3>2. CASE my' = [my EXCEPT ![t].hosted = TRUE]
      BY <2>1, <3>1, <3>2, LocalsTyped, Zenon
    <3>3. CASE my' = [my EXCEPT ![t].hosted = TRUE, ![t].ctx = Nobody]
      BY <2>1, <3>1, <3>3, LocalsTyped, Zenon
    <3>4. CASE my' = [my EXCEPT ![t].hosted = TRUE, ![t].ctx = t]
      BY <2>1, <3>1, <3>4, LocalsTyped, Zenon
    <3> QED BY <2>1, <3>2, <3>3, <3>4
  <2> QED BY <1>5, <2>2 DEF HostCall, Typed, Places
<1>6. CASE invokeCtx(t)
  <2>1. plugin[entry].curCtx \in Threads \cup {Nobody}
    BY DEF Typed, Objects
  <2> QED BY <1>6, <2>1 DEF invokeCtx, Typed, Places, Locals
<1>7. CASE HostReturns(t)
  BY <1>7 DEF HostReturns, Typed, Places, Locals
<1>8. CASE CallReturns(t)
  <2>1. PICK r \in Results : Return(t, r) /\ parked' \in BOOLEAN
    BY <1>0, <1>8 DEF CallReturns, Outcomes
  <2>2. PICK late \in {FALSE, kind = "wasm" /\ plugin[my[t].p].runtime = "live"} :
          /\ plugin' = [plugin EXCEPT ![my[t].p].curCtx = Nobody,
                                      ![my[t].p].runtime = IF late THEN "expired" ELSE @]
          /\ name' = (name /\ ~late)
    BY <1>8 DEF CallReturns
  <2>3. plugin' \in [Entries -> Objects]
    BY <2>2 DEF Typed, Objects, Locals
  <2> QED BY <1>8, <2>1, <2>2, <2>3, ReturnTyped DEF CallReturns, Typed
<1>9. CASE WasmDies(t)
  <2>1. plugin' \in [Entries -> Objects]
    <3>1. my[t].p \in Entries
      BY DEF Typed, Locals
    <3> QED BY <1>9, <3>1, ObjectsTyped DEF WasmDies, Typed
  <2> QED BY <1>0, <1>9, <2>1, ReturnTyped DEF WasmDies, Typed
<1>10. CASE YaegiTimesOut(t)
  BY <1>0, <1>10, ReturnTyped DEF YaegiTimesOut, Typed
<1> QED BY <1>1, <1>2, <1>3, <1>4, <1>5, <1>6, <1>7, <1>8, <1>9, <1>10 DEF call

LEMMA OthersTyped ==
  ASSUME Typed, Room, EditFiles \/ Close \/ \E t \in Threads : Get(t) \/ UnloadLock(t) \/ InstallLock(t)
                                        \/ Unload(t) \/ InstallSucceeds(t) \/ InstallFails(t)
  PROVE  Typed'
<1> USE DEF world, Goto
<1>1. CASE EditFiles
  BY <1>1 DEF EditFiles, Typed
<1>2. CASE Close
  <2>1. plugin' \in [Entries -> Objects]
    BY <1>2 DEF Close, Typed, Objects
  <2> QED BY <1>2, <2>1 DEF Close, Typed
<1>3. ASSUME NEW t \in Threads, Get(t) PROVE Typed'
  BY <1>3 DEF Get, Typed, Places, Locals
<1>4. ASSUME NEW t \in Threads, UnloadLock(t) PROVE Typed'
  BY <1>4 DEF UnloadLock, Typed, Places, Locals
<1>5. ASSUME NEW t \in Threads, InstallLock(t) PROVE Typed'
  BY <1>5 DEF InstallLock, Typed, Places, Locals
<1>6. ASSUME NEW t \in Threads, Unload(t) PROVE Typed'
  <2>1. Unloaded(my[t].p) \in Objects
    <3>1. my[t].p \in Entries
      BY DEF Typed, Locals
    <3>2. plugin[my[t].p] \in Objects /\ plugin[my[t].p].curCtx \in Threads \cup {Nobody}
      BY <3>1 DEF Typed, Objects
    <3> QED BY <3>1, <3>2, ObjectsTyped DEF Unloaded, Typed
  <2> QED BY <1>6, <2>1 DEF Unload, Typed, Places
<1>7. ASSUME NEW t \in Threads, InstallSucceeds(t) PROVE Typed'
  <2>1. entry' \in Entries
    BY <1>7 DEF InstallSucceeds, Typed, Entries, Room, Installing
  <2>2. plugin' \in [Entries -> Objects]
    BY <1>7 DEF InstallSucceeds, Typed, Objects, Locals
  <2>3. "ok" \in Results
    BY DEF Results
  <2> QED BY <1>7, <2>1, <2>2, <2>3, ReturnTyped DEF InstallSucceeds, Typed
<1>8. ASSUME NEW t \in Threads, InstallFails(t) PROVE Typed'
  <2>1. "error" \in Results
    BY DEF Results
  <2> QED BY <1>8, <2>1, ReturnTyped DEF InstallFails, Typed
<1> QED BY <1>1, <1>2, <1>3, <1>4, <1>5, <1>6, <1>7, <1>8

-----------------------------------------------------------------------------
(* One goroutine moves at a time, and the locks go with it.                  *)

\* The other goroutines stay where they are, with what they have.
Alone(t) == \A u \in Threads : u # t => at'[u] = at[u] /\ my'[u] = my[u]

LEMMA MovesAlone ==
  ASSUME Typed, NEW t \in Threads, Get(t) \/ UnloadLock(t) \/ InstallLock(t) \/ Step(t)
  PROVE  Alone(t)
<1> USE DEF Typed, Alone, Goto, Return
<1>1. CASE Get(t) \/ UnloadLock(t) \/ InstallLock(t)
  BY <1>1 DEF Get, UnloadLock, InstallLock
<1>2. CASE ensureLoaded(t)
  BY <1>2 DEF ensureLoaded, EnsureLook, EnsureLoaded, EnsureLoad, InitCallsHost, InitHostReturns, LoadSucceeds,
              LoadFails, AfterEnsure
<1>3. CASE ResolveJS(t) \/ ResolvedJS(t) \/ InvokeGone(t) \/ Invoke(t) \/ HostCall(t) \/ invokeCtx(t)
  BY <1>3 DEF ResolveJS, ResolvedJS, InvokeGone, Invoke, HostCall, invokeCtx
<1>4. CASE HostReturns(t) \/ CallReturns(t) \/ WasmDies(t) \/ YaegiTimesOut(t)
  BY <1>4 DEF HostReturns, CallReturns, WasmDies, YaegiTimesOut
<1>5. CASE Unload(t) \/ InstallSucceeds(t) \/ InstallFails(t)
  BY <1>5 DEF Unload, InstallSucceeds, InstallFails
<1> QED BY <1>1, <1>2, <1>3, <1>4, <1>5 DEF Step, call

\* A lock changes hands only between nobody and the one who moves.
LEMMA LocksMove ==
  ASSUME Locked, NEW t \in Threads, Alone(t),
         mu' = mu \/ {mu, mu'} \subseteq {t, Nobody}, mu' = t <=> HoldsManager(t)',
         pmu' \in [Entries -> Threads \cup {Nobody}],
         \A e \in Entries : pmu'[e] = pmu[e] \/ {pmu[e], pmu'[e]} \subseteq {t, Nobody},
         \A e \in Entries : pmu'[e] = t <=> HoldsEntry(t, e)'
  PROVE  Locked'
<1>1. mu' \in Threads \cup {Nobody}
  BY DEF Locked
<1>2. ASSUME NEW u \in Threads PROVE mu' = u <=> HoldsManager(u)'
  <2>1. CASE u = t
    BY <2>1
  <2>2. CASE u # t
    BY <2>2 DEF Locked, Alone, HoldsManager
  <2> QED BY <2>1, <2>2
<1>3. ASSUME NEW u \in Threads, NEW e \in Entries PROVE pmu'[e] = u <=> HoldsEntry(u, e)'
  <2>1. CASE u = t
    BY <2>1
  <2>2. CASE u # t
    <3>1. HoldsEntry(u, e)' <=> HoldsEntry(u, e)
      BY <2>2 DEF Alone, HoldsEntry
    <3> QED BY <2>2, <3>1 DEF Locked
  <2> QED BY <2>1, <2>2
<1> QED BY <1>1, <1>2, <1>3 DEF Locked

\* Neither lock is taken or given back.
LEMMA LocksStay ==
  ASSUME Locked, NEW t \in Threads, Alone(t), UNCHANGED <<mu, pmu>>, HoldsManager(t)' <=> HoldsManager(t),
         \A e \in Entries : HoldsEntry(t, e)' <=> HoldsEntry(t, e)
  PROVE  Locked'
BY LocksMove DEF Locked

LEMMA EntryTaken ==
  ASSUME Locked, NEW t \in Threads, Alone(t), NEW e \in Entries, pmu[e] = Nobody,
         pmu' = [pmu EXCEPT ![e] = t], UNCHANGED mu, HoldsManager(t)' <=> HoldsManager(t),
         \A d \in Entries : ~HoldsEntry(t, d) /\ (HoldsEntry(t, d)' <=> d = e)
  PROVE  Locked'
BY LocksMove DEF Locked

LEMMA EntryGiven ==
  ASSUME Locked, NEW t \in Threads, Alone(t), NEW e \in Entries,
         pmu' = [pmu EXCEPT ![e] = Nobody], UNCHANGED mu, HoldsManager(t)' <=> HoldsManager(t),
         \A d \in Entries : (HoldsEntry(t, d) <=> d = e) /\ ~HoldsEntry(t, d)'
  PROVE  Locked'
BY LocksMove DEF Locked

LEMMA ManagerTaken ==
  ASSUME Locked, NEW t \in Threads, Alone(t), mu = Nobody, mu' = t, UNCHANGED pmu, HoldsManager(t)',
         \A e \in Entries : ~HoldsEntry(t, e) /\ ~HoldsEntry(t, e)'
  PROVE  Locked'
BY LocksMove DEF Locked

LEMMA ManagerGiven ==
  ASSUME Locked, NEW t \in Threads, Alone(t), HoldsManager(t), mu' = Nobody, UNCHANGED pmu, ~HoldsManager(t)',
         \A e \in Entries : ~HoldsEntry(t, e) /\ ~HoldsEntry(t, e)'
  PROVE  Locked'
BY LocksMove DEF Locked

\* Who has returned holds nothing.
LEMMA Returned ==
  ASSUME Typed, NEW t \in Threads, NEW r, Return(t, r)
  PROVE  at'[t] = "done" /\ ~HoldsManager(t)' /\ \A e \in Entries : ~HoldsEntry(t, e)'
BY DEF Typed, Return, Goto, HoldsManager, HoldsEntry

\* After ensureLoaded a goroutine holds nothing.
LEMMA EnsuredHolds ==
  ASSUME Typed, NEW t \in Threads, AfterEnsure(t)
  PROVE  at'[t] \in {"loaded", "done"} /\ ~HoldsManager(t)' /\ \A e \in Entries : ~HoldsEntry(t, e)'
BY DEF Typed, AfterEnsure, Return, Goto, HoldsManager, HoldsEntry

LEMMA EnsureLocks ==
  ASSUME Typed, Locked, NEW t \in Threads, ensureLoaded(t)
  PROVE  Locked'
<1> USE DEF world, Typed, Locals, Goto, HoldsManager, HoldsEntry
<1>0. Alone(t) /\ my[t].q \in Entries
  BY MovesAlone DEF Step
<1>1. CASE EnsureLook(t)
  BY <1>0, <1>1, LocksStay DEF EnsureLook
<1>2. CASE EnsureLoaded(t)
  BY <1>0, <1>2, EnsuredHolds, LocksStay DEF EnsureLoaded
<1>3. CASE EnsureLoad(t)
  <2>1. at[t] = "ensure" /\ at'[t] = "loading" /\ my'[t].q = my[t].q
    BY <1>3 DEF EnsureLoad
  <2>2. pmu[my[t].q] = Nobody /\ pmu' = [pmu EXCEPT ![my[t].q] = t] /\ UNCHANGED mu
    BY <1>3 DEF EnsureLoad
  <2>3. PICK e \in Entries : e = my[t].q
    BY <1>0
  <2>4. \A d \in Entries : ~HoldsEntry(t, d) /\ (HoldsEntry(t, d)' <=> d = e)
    BY <2>1, <2>3
  <2>5. HoldsManager(t)' <=> HoldsManager(t)
    BY <2>1
  <2> HIDE DEF HoldsManager, HoldsEntry, Typed
  <2> QED BY <1>0, <2>2, <2>3, <2>4, <2>5, EntryTaken
<1>4. CASE InitCallsHost(t)
  BY <1>0, <1>4, LocksStay DEF InitCallsHost
<1>5. CASE InitHostReturns(t)
  BY <1>0, <1>5, LocksStay DEF InitHostReturns
<1>6. CASE LoadSucceeds(t)
  BY <1>0, <1>6, EnsuredHolds, EntryGiven DEF LoadSucceeds
<1>7. CASE LoadFails(t)
  BY <1>0, <1>7, Returned, EntryGiven DEF LoadFails
<1> QED BY <1>1, <1>2, <1>3, <1>4, <1>5, <1>6, <1>7 DEF ensureLoaded

LEMMA CallLocks ==
  ASSUME Typed, Locked, NEW t \in Threads, call(t)
  PROVE  Locked'
<1> USE DEF world, Typed, Locals, Goto, HoldsManager, HoldsEntry
<1>0. Alone(t) /\ my[t].p \in Entries
  BY MovesAlone DEF Step
<1>1. CASE ResolveJS(t) \/ ResolvedJS(t)
  BY <1>0, <1>1, Returned, LocksStay DEF ResolveJS, ResolvedJS
<1>2. CASE InvokeGone(t)
  BY <1>0, <1>2, Returned, LocksStay DEF InvokeGone, AtInvoke
<1>3. CASE Invoke(t)
  BY <1>0, <1>3, EntryTaken DEF Invoke, AtInvoke
<1>4. CASE HostCall(t)
  BY <1>0, <1>4, LocksStay DEF HostCall
<1>5. CASE invokeCtx(t)
  BY <1>0, <1>5, LocksStay DEF invokeCtx
<1>6. CASE HostReturns(t)
  BY <1>0, <1>6, LocksStay DEF HostReturns
<1>7. CASE CallReturns(t)
  BY <1>0, <1>7, Returned, EntryGiven DEF CallReturns
<1>8. CASE WasmDies(t)
  BY <1>0, <1>8, Returned, EntryGiven DEF WasmDies
<1>9. CASE YaegiTimesOut(t)
  BY <1>0, <1>9, Returned, EntryGiven DEF YaegiTimesOut
<1> QED BY <1>1, <1>2, <1>3, <1>4, <1>5, <1>6, <1>7, <1>8, <1>9 DEF call

LEMMA OtherLocks ==
  ASSUME Typed, Locked, NEW t \in Threads,
         Get(t) \/ UnloadLock(t) \/ InstallLock(t) \/ Unload(t) \/ InstallSucceeds(t) \/ InstallFails(t)
  PROVE  Locked'
<1> USE DEF world, Typed, Locals, Goto, HoldsManager, HoldsEntry
<1>0. Alone(t)
  BY MovesAlone DEF Step
<1>1. CASE Get(t)
  BY <1>0, <1>1, LocksStay DEF Get
<1>2. CASE UnloadLock(t)
  BY <1>0, <1>2, ManagerTaken DEF UnloadLock
<1>3. CASE InstallLock(t)
  BY <1>0, <1>3, ManagerTaken DEF InstallLock
<1>4. CASE Unload(t)
  BY <1>0, <1>4, ManagerGiven DEF Unload
<1>5. CASE InstallSucceeds(t)
  BY <1>0, <1>5, Returned, ManagerGiven DEF InstallSucceeds
<1>6. CASE InstallFails(t)
  BY <1>0, <1>6, Returned, ManagerGiven DEF InstallFails
<1> QED BY <1>1, <1>2, <1>3, <1>4, <1>5, <1>6

-----------------------------------------------------------------------------
(* The inductive invariant.                                                  *)

\* A goroutine of one kind is only in the places of its kind.
Roles ==
  \A t \in Threads :
    /\ at[t] \in {"loaded", "resolving", "resolved", "calling", "rlock", "host"} => t \in Callers
    /\ at[t] \in {"unload", "installing", "installingHost"} => t \notin Callers
    /\ at[t] = "unload" => my[t].p = entry
    /\ my[t].p <= entry /\ my[t].q <= entry

\* The places of a call on its runtime.
InCall == {"calling", "rlock", "host"}

\* A runtime is closed by Close only, and expires in a wasm plugin only; what is
\* not loaded has none; a call runs on a live one.
Runtimes ==
  \A e \in Entries :
    /\ ~plugin[e].loaded => plugin[e].runtime = "none"
    /\ plugin[e].runtime = "expired" => kind = "wasm"
    /\ ~closed => /\ plugin[e].runtime # "closed"
                  /\ plugin[e].loaded => plugin[e].runtime # "none"
                  /\ \A t \in Threads : at[t] \in InCall /\ my[t].p = e => plugin[e].runtime = "live"

BaseInv == Typed /\ Locked /\ Room /\ Roles

LEMMA RolesMove ==
  ASSUME BaseInv, NEW t \in Threads, Alone(t), entry' \in Entries, entry <= entry',
         entry' # entry => mu = t,
         /\ at'[t] \in {"loaded", "resolving", "resolved", "calling", "rlock", "host"} => t \in Callers
         /\ at'[t] \in {"unload", "installing", "installingHost"} => t \notin Callers
         /\ at'[t] = "unload" => my'[t].p = entry'
         /\ my'[t].p <= entry' /\ my'[t].q <= entry'
         /\ at'[t] \in {"installing", "installingHost"} => entry' < MaxEntries
  PROVE  Roles' /\ Room'
<1>1. \A u \in Threads : my[u].p \in Entries /\ my[u].q \in Entries
  BY DEF BaseInv, Typed, Locals
<1>2. \A u \in Threads : u # t /\ at[u] \in {"unload", "installing", "installingHost"} => entry' = entry
  BY DEF BaseInv, Locked, HoldsManager
<1>3. entry \in Nat /\ entry' \in Nat /\ \A u \in Threads : my[u].p \in Nat /\ my[u].q \in Nat
  BY <1>1 DEF BaseInv, Typed, Entries
<1>4. Roles'
  BY <1>2, <1>3 DEF Roles, Alone, BaseInv
<1>5. Room'
  BY <1>2 DEF BaseInv, Room, Alone, Installing
<1> QED BY <1>4, <1>5

LEMMA ReturnRoles ==
  ASSUME BaseInv, NEW t \in Threads, NEW r, Return(t, r), Alone(t), entry' \in Entries, entry <= entry',
         entry' # entry => mu = t
  PROVE  Roles' /\ Room'
<1>1. at'[t] = "done" /\ my'[t] = Fresh
  BY DEF Return, Goto, BaseInv, Typed
<1>2. my'[t].p = 1 /\ my'[t].q = 1 /\ 1 <= entry'
  BY <1>1 DEF Fresh, Entries
<1> QED BY <1>1, <1>2, RolesMove

LEMMA BaseStep ==
  ASSUME BaseInv, NEW t \in Threads, Get(t) \/ UnloadLock(t) \/ InstallLock(t) \/ Step(t)
  PROVE  BaseInv'
<1> USE DEF world, Goto
<1>0. Alone(t) /\ Typed /\ Locked /\ my[t].p \in Entries /\ my[t].q \in Entries
  BY MovesAlone DEF BaseInv, Typed, Locals
<1>1. Typed' /\ Locked'
  BY <1>0, EnsureTyped, CallTyped, OthersTyped, EnsureLocks, CallLocks, OtherLocks DEF Step, BaseInv
<1>2. entry \in Nat /\ entry \in Entries /\ entry <= entry
  BY DEF BaseInv, Typed, Entries
<1>3. my[t].p \in Nat /\ my[t].q \in Nat /\ my[t].p <= entry /\ my[t].q <= entry
  BY <1>0 DEF BaseInv, Roles, Entries
<1>4. CASE Get(t) \/ UnloadLock(t) \/ InstallLock(t)
  <2>1. UNCHANGED entry
    BY <1>4 DEF Get, UnloadLock, InstallLock
  <2>2. CASE Get(t)
    BY <1>0, <1>1, <1>2, <1>3, <2>1, <2>2, RolesMove DEF Get, Typed, BaseInv
  <2>3. CASE UnloadLock(t)
    BY <1>0, <1>1, <1>2, <1>3, <2>1, <2>3, RolesMove DEF UnloadLock, Typed, BaseInv
  <2>4. CASE InstallLock(t)
    BY <1>0, <1>1, <1>2, <1>3, <2>1, <2>4, RolesMove DEF InstallLock, Typed, BaseInv
  <2> QED BY <1>4, <2>2, <2>3, <2>4
<1>5. CASE InstallSucceeds(t)
  <2>1. entry' = entry + 1 /\ mu = t
    BY <1>5 DEF InstallSucceeds, BaseInv, Locked, HoldsManager
  <2>2. entry' \in Entries /\ entry <= entry'
    BY <1>1, <1>2, <2>1 DEF Typed
  <2>3. PICK r : Return(t, r)
    BY <1>5 DEF InstallSucceeds
  <2> QED BY <1>0, <1>1, <2>1, <2>2, <2>3, ReturnRoles DEF BaseInv
<1>6. ASSUME UNCHANGED entry, NEW r, Return(t, r)
      PROVE  BaseInv'
  BY <1>0, <1>1, <1>2, <1>6, ReturnRoles DEF BaseInv
<1>7. ASSUME UNCHANGED entry, my'[t].p <= entry, my'[t].q <= entry,
             at'[t] \in {"loaded", "resolving", "resolved", "calling", "rlock", "host"} => t \in Callers,
             at'[t] # "unload", at'[t] \in {"installing", "installingHost"} => HoldsManager(t) /\ at[t] # "unload"
      PROVE  BaseInv'
  <2>1. at'[t] \in {"installing", "installingHost"} => t \notin Callers /\ entry' < MaxEntries
    BY <1>7 DEF BaseInv, Roles, Room, Installing, HoldsManager
  <2> QED BY <1>0, <1>1, <1>2, <1>7, <2>1, RolesMove DEF BaseInv
<1>8. CASE ensureLoaded(t)
  <2>1. CASE EnsureLook(t)
    <3>1. my'[t].q = entry /\ my'[t].p = my[t].p /\ at'[t] = "ensure" /\ UNCHANGED entry
      BY <1>0, <2>1 DEF EnsureLook, Typed
    <3> QED BY <1>2, <1>3, <1>7, <3>1
  <2>2. CASE EnsureLoad(t)
    <3>1. my'[t].q = my[t].q /\ my'[t].p = my[t].p /\ at'[t] = "loading" /\ UNCHANGED entry
      BY <1>0, <2>2 DEF EnsureLoad, Typed
    <3> QED BY <1>2, <1>3, <1>7, <3>1
  <2>3. CASE InitCallsHost(t)
    <3>1. /\ my'[t].q = my[t].q /\ my'[t].p = my[t].p /\ UNCHANGED entry
          /\ \/ at'[t] = "loadingHost"
             \/ at[t] = "installing" /\ at'[t] = "installingHost"
      BY <1>0, <2>3 DEF InitCallsHost, Typed
    <3> QED BY <1>2, <1>3, <1>7, <3>1 DEF HoldsManager
  <2>4. CASE InitHostReturns(t)
    <3>1. /\ my'[t].q = my[t].q /\ my'[t].p = my[t].p /\ UNCHANGED entry
          /\ \/ at'[t] = "loading"
             \/ at[t] = "installingHost" /\ at'[t] = "installing"
      BY <1>0, <2>4 DEF InitHostReturns, Typed
    <3> QED BY <1>2, <1>3, <1>7, <3>1 DEF HoldsManager
  <2>5. CASE AfterEnsure(t) /\ UNCHANGED entry
    <3>1. CASE t \in Callers
      <4>1. my'[t].q = my[t].q /\ my'[t].p = my[t].p /\ at'[t] = "loaded"
        BY <1>0, <2>5, <3>1 DEF AfterEnsure, Typed, Locals
      <4> QED BY <1>2, <1>3, <1>7, <2>5, <3>1, <4>1
    <3>2. CASE t \notin Callers
      BY <1>6, <2>5, <3>2 DEF AfterEnsure
    <3> QED BY <3>1, <3>2
  <2>6. CASE LoadFails(t)
    BY <1>6, <2>6 DEF LoadFails
  <2> QED BY <1>8, <2>1, <2>2, <2>3, <2>4, <2>5, <2>6 DEF ensureLoaded, EnsureLoaded, LoadSucceeds
<1>9. CASE call(t)
  <2>1. UNCHANGED entry /\ (t \in Callers \/ \E r : Return(t, r))
    BY <1>9 DEF call, ResolveJS, ResolvedJS, InvokeGone, Invoke, AtInvoke, HostCall, invokeCtx, HostReturns,
                CallReturns, WasmDies, YaegiTimesOut, BaseInv, Roles
  <2>2. CASE \E r : Return(t, r)
    BY <1>6, <2>1, <2>2
  <2>3. CASE t \in Callers /\ ~\E r : Return(t, r)
    <3>1. /\ my'[t].p = my[t].p /\ my'[t].q = my[t].q
          /\ at'[t] \in {"resolving", "resolved", "calling", "rlock", "host"}
      <4>1. CASE ResolveJS(t) \/ ResolvedJS(t) \/ Invoke(t)
        BY <1>0, <2>3, <4>1 DEF ResolveJS, ResolvedJS, Invoke, Typed
      <4>2. CASE HostCall(t)
        BY <1>0, <4>2 DEF HostCall, Typed, Locals
      <4>3. CASE invokeCtx(t) \/ HostReturns(t)
        BY <1>0, <4>3 DEF invokeCtx, HostReturns, Typed, Locals
      <4> QED BY <1>9, <2>3, <4>1, <4>2, <4>3 DEF call, InvokeGone, CallReturns, WasmDies, YaegiTimesOut
    <3> QED BY <1>2, <1>3, <1>7, <2>1, <2>3, <3>1
  <2> QED BY <2>1, <2>2, <2>3
<1>10. CASE Unload(t)
  <2>1. my'[t].p = my[t].p /\ my'[t].q = my[t].q /\ at'[t] = "found" /\ UNCHANGED entry
    BY <1>0, <1>10 DEF Unload, Typed
  <2> QED BY <1>2, <1>3, <1>7, <2>1
<1>11. CASE InstallFails(t)
  BY <1>6, <1>11 DEF InstallFails
<1> QED BY <1>4, <1>5, <1>8, <1>9, <1>10, <1>11 DEF Step

LEMMA BaseNext == BaseInv /\ [Next]_vars => BaseInv'
<1> SUFFICES ASSUME BaseInv, [Next]_vars PROVE BaseInv'
  OBVIOUS
<1>1. CASE EditFiles \/ Close
  <2>1. Typed'
    BY <1>1, OthersTyped DEF BaseInv
  <2>2. UNCHANGED <<entry, mu, pmu, at, my>>
    BY <1>1 DEF EditFiles, Close
  <2> QED BY <2>1, <2>2 DEF BaseInv, Locked, HoldsManager, HoldsEntry, Room, Installing, Roles
<1>2. CASE UNCHANGED vars
  BY <1>2 DEF vars, BaseInv, Typed, Locked, HoldsManager, HoldsEntry, Room, Installing, Roles
<1> QED BY <1>1, <1>2, BaseStep DEF Next

LEMMA BaseInit == Init => BaseInv
<1> SUFFICES ASSUME Init PROVE BaseInv
  OBVIOUS
<1>1. Typed
  <2>1. plugin \in [Entries -> Objects] /\ my \in [Threads -> Locals]
    BY RecordsTyped DEF Init
  <2>2. name \in BOOLEAN /\ parked \in BOOLEAN /\ closed \in BOOLEAN
    BY DEF Init
  <2>3. /\ kind \in Kinds /\ disk \in 1 .. MaxVersion /\ entry \in Entries
        /\ floor \in 0 .. MaxVersion
    BY DEF Init, Entries
  <2>4. at \in [Threads -> Places] /\ result \in [Threads -> Results]
    BY DEF Init, Places, Results
  <2> QED BY <2>1, <2>2, <2>3, <2>4 DEF Typed
<1>2. Locked /\ Room
  BY DEF Init, Locked, HoldsManager, HoldsEntry, Room, Installing
<1>3. Roles
  BY DEF Init, Roles, Fresh
<1> QED BY <1>1, <1>2, <1>3 DEF BaseInv

\* Types, and who holds which lock.
THEOREM ManagerTypeCorrect == Spec => []TypeOK
<1>1. BaseInv => TypeOK
  BY TypeOKSplits DEF BaseInv
<1> QED BY BaseInit, BaseNext, <1>1, PTL DEF Spec

-----------------------------------------------------------------------------
(* What the steps do to the objects.                                         *)

\* Only object e changes.
Only(e) == \A d \in Entries : d # e => plugin'[d] = plugin[d]

LEMMA LoadEffect ==
  ASSUME Typed, NEW t \in Threads, LoadSucceeds(t), NEW e \in Entries, my[t].q = e
  PROVE  /\ Only(e)
         /\ plugin'[e].loaded
         /\ plugin'[e].runtime = "live"
         /\ plugin'[e].version = my[t].reading
         /\ plugin'[e].curCtx = plugin[e].curCtx
         /\ ~plugin'[e].wired
BY DEF Typed, Objects, LoadSucceeds, Only

LEMMA InvokeEffect ==
  ASSUME Typed, NEW t \in Threads, Invoke(t), NEW e \in Entries, my[t].p = e
  PROVE  /\ Only(e)
         /\ plugin'[e].loaded <=> plugin[e].loaded
         /\ plugin'[e].runtime = plugin[e].runtime
         /\ plugin'[e].version = plugin[e].version
         /\ plugin'[e].curCtx = IF Publishes THEN t ELSE Nobody
         /\ plugin'[e].wired <=> plugin[e].wired
BY DEF Typed, Objects, Invoke, Only

LEMMA CallReturnsEffect ==
  ASSUME Typed, NEW t \in Threads, CallReturns(t), NEW e \in Entries, my[t].p = e
  PROVE  /\ Only(e)
         /\ plugin'[e].loaded <=> plugin[e].loaded
         /\ \/ plugin'[e].runtime = plugin[e].runtime
            \/ plugin'[e].runtime = "expired" /\ kind = "wasm" /\ plugin[e].runtime = "live"
         /\ plugin'[e].version = plugin[e].version
         /\ plugin'[e].wired <=> plugin[e].wired
<1>1. PICK late \in {FALSE, kind = "wasm" /\ plugin[e].runtime = "live"} :
        plugin' = [plugin EXCEPT ![e].curCtx = Nobody,
                                 ![e].runtime = IF late THEN "expired" ELSE @]
  BY DEF CallReturns
<1> QED BY <1>1 DEF Typed, Objects, Only

LEMMA WasmDiesEffect ==
  ASSUME Typed, NEW t \in Threads, WasmDies(t), NEW e \in Entries, my[t].p = e
  PROVE  /\ Only(e)
         /\ ~plugin'[e].loaded
         /\ plugin'[e].runtime = "none"
         /\ plugin'[e].curCtx = plugin[e].curCtx
BY DEF Typed, Objects, WasmDies, Only

LEMMA UnloadEffect ==
  ASSUME Typed, NEW t \in Threads, Unload(t), NEW e \in Entries, my[t].p = e
  PROVE  /\ Only(e)
         /\ plugin[e].loaded => ~plugin'[e].loaded /\ plugin'[e].runtime = "none"
         /\ ~plugin[e].loaded => plugin'[e] = plugin[e]
         /\ plugin'[e].curCtx = plugin[e].curCtx
BY DEF Typed, Objects, Unload, Unloaded, Registered, Only

LEMMA InstallEffect ==
  ASSUME Typed, NEW t \in Threads, InstallSucceeds(t), NEW e \in Entries, e = entry + 1
  PROVE  /\ Only(e)
         /\ plugin'[e].loaded
         /\ plugin'[e].runtime = "live"
         /\ plugin'[e].version = my[t].reading
         /\ plugin'[e].wired
BY DEF Typed, Objects, InstallSucceeds, Only

LEMMA CloseEffect ==
  ASSUME Typed, Close, NEW e \in Entries
  PROVE  /\ plugin'[e].loaded <=> plugin[e].loaded
         /\ plugin'[e].runtime = plugin[e].runtime
              \/ (plugin[e].loaded /\ plugin'[e].runtime \in {"none", "closed"})
         /\ plugin'[e].version = plugin[e].version
         /\ plugin'[e].curCtx = plugin[e].curCtx
         /\ plugin'[e].wired <=> plugin[e].wired
<1>1. CASE e # entry
  BY <1>1 DEF Typed, Objects, Close
<1>2. CASE e = entry /\ (~plugin[entry].loaded \/ kind = "yaegi")
  BY <1>2 DEF Typed, Objects, Close
<1>3. CASE e = entry /\ plugin[entry].loaded /\ kind # "yaegi"
  <2>1. PICK r \in {"none", "closed"} : plugin' = [plugin EXCEPT ![entry].runtime = r]
    BY <1>3 DEF Close
  <2> QED BY <1>3, <2>1 DEF Typed, Objects
<1> QED BY <1>1, <1>2, <1>3

\* What the other steps leave alone.
Reads(t) ==
  \/ Get(t) \/ EnsureLook(t) \/ EnsureLoaded(t) \/ EnsureLoad(t) \/ InitCallsHost(t) \/ InitHostReturns(t)
  \/ LoadFails(t) \/ ResolveJS(t) \/ ResolvedJS(t) \/ InvokeGone(t) \/ HostCall(t) \/ invokeCtx(t)
  \/ HostReturns(t) \/ YaegiTimesOut(t) \/ UnloadLock(t) \/ InstallLock(t) \/ InstallFails(t)

LEMMA ReadsEffect ==
  ASSUME NEW t \in Threads, Reads(t)
  PROVE  UNCHANGED <<plugin, kind, entry, closed>>
BY DEF Reads, world, Get, EnsureLook, EnsureLoaded, EnsureLoad, InitCallsHost, InitHostReturns, LoadFails,
       ResolveJS, ResolvedJS, InvokeGone, HostCall, invokeCtx, HostReturns, YaegiTimesOut, UnloadLock,
       InstallLock, InstallFails

LEMMA Steps ==
  ASSUME NEW t \in Threads, Get(t) \/ UnloadLock(t) \/ InstallLock(t) \/ Step(t)
  PROVE  \/ Reads(t) \/ LoadSucceeds(t) \/ Invoke(t) \/ CallReturns(t) \/ WasmDies(t) \/ Unload(t)
         \/ InstallSucceeds(t)
BY DEF Step, ensureLoaded, call, Reads

\* A call that was not on its runtime before gets there by Invoke only, and none
\* changes the object it is about meanwhile.
LEMMA IntoCall ==
  ASSUME BaseInv, NEW t \in Threads, Get(t) \/ UnloadLock(t) \/ InstallLock(t) \/ Step(t), ~Invoke(t),
         at'[t] \in InCall
  PROVE  at[t] \in InCall /\ my'[t].p = my[t].p /\ my'[t].need = my[t].need
<1> USE DEF BaseInv, Typed, Goto, Return, InCall
<1>1. CASE HostCall(t)
  BY <1>1 DEF HostCall, Locals
<1>2. CASE invokeCtx(t) \/ HostReturns(t)
  BY <1>2 DEF invokeCtx, HostReturns, Locals
<1>3. CASE Get(t) \/ UnloadLock(t) \/ InstallLock(t) \/ Unload(t) \/ InstallSucceeds(t) \/ InstallFails(t)
  BY <1>3 DEF Get, UnloadLock, InstallLock, Unload, InstallSucceeds, InstallFails
<1>4. CASE ensureLoaded(t)
  BY <1>4 DEF ensureLoaded, EnsureLook, EnsureLoaded, EnsureLoad, InitCallsHost, InitHostReturns, LoadSucceeds,
              LoadFails, AfterEnsure
<1>5. CASE ResolveJS(t) \/ ResolvedJS(t) \/ InvokeGone(t) \/ CallReturns(t) \/ WasmDies(t) \/ YaegiTimesOut(t)
  BY <1>5 DEF ResolveJS, ResolvedJS, InvokeGone, CallReturns, WasmDies, YaegiTimesOut
<1> QED BY <1>1, <1>2, <1>3, <1>4, <1>5 DEF Step, call

\* Who is in a call holds the object's lock, and nobody else does.
LEMMA CallHolds ==
  ASSUME BaseInv, NEW u \in Threads, at[u] \in InCall
  PROVE  my[u].p \in Entries /\ pmu[my[u].p] = u
BY DEF BaseInv, Typed, Locals, Locked, HoldsEntry, InCall

-----------------------------------------------------------------------------
(* Runtimes.                                                                 *)

LEMMA RuntimesMove ==
  ASSUME BaseInv, Runtimes, NEW t \in Threads, Alone(t), NEW e \in Entries, Only(e), UNCHANGED <<kind, closed>>,
         ~plugin'[e].loaded => plugin'[e].runtime = "none",
         plugin'[e].runtime = "expired" => kind = "wasm",
         ~closed => plugin'[e].runtime # "closed" /\ (plugin'[e].loaded => plugin'[e].runtime # "none"),
         at'[t] \in InCall => at[t] \in InCall /\ my'[t].p = my[t].p,
         pmu[e] \in {t, Nobody},
         ~closed /\ at'[t] \in InCall /\ my'[t].p = e => plugin'[e].runtime = "live"
  PROVE  Runtimes'
<1>1. \A u \in Threads : at[u] \in InCall /\ my[u].p = e => u = t
  BY CallHolds
<1>2. \A u \in Threads : at'[u] \in InCall => at[u] \in InCall /\ my'[u].p = my[u].p
  BY DEF Alone
<1> QED BY <1>1, <1>2 DEF Runtimes, Only

LEMMA RuntimesStep ==
  ASSUME BaseInv, Runtimes, NEW t \in Threads, Get(t) \/ UnloadLock(t) \/ InstallLock(t) \/ Step(t)
  PROVE  Runtimes'
<1>0. /\ Alone(t) /\ Typed /\ my[t].p \in Entries /\ my[t].q \in Entries
      /\ ~Invoke(t) /\ at'[t] \in InCall => at[t] \in InCall /\ my'[t].p = my[t].p
  BY MovesAlone, IntoCall DEF BaseInv, Typed, Locals
<1>1. CASE Reads(t)
  <2>1. UNCHANGED <<plugin, kind, closed>>
    BY <1>1, ReadsEffect
  <2>2. CASE ~Invoke(t)
    BY <1>0, <2>1, <2>2 DEF Runtimes, Alone
  <2>3. CASE Invoke(t)
    <3>1. plugin[my[t].p].runtime = "live" \/ closed
      BY <1>0, <2>3 DEF Invoke, Gone, Runtimes, Typed, Objects
    <3>2. at'[t] = "calling" /\ my' = my
      BY <1>0, <2>3 DEF Invoke, Goto, Typed
    <3> QED BY <1>0, <2>1, <3>1, <3>2 DEF Runtimes, Alone
  <2> QED BY <2>2, <2>3
<1>2. CASE LoadSucceeds(t)
  <2>1. PICK e \in Entries : e = my[t].q
    BY <1>0
  <2>2. UNCHANGED <<kind, closed>> /\ at[t] = "loading"
    BY <1>2 DEF LoadSucceeds, world
  <2>3. pmu[e] = t /\ at[t] \notin InCall /\ ~Invoke(t)
    BY <2>1, <2>2 DEF BaseInv, Locked, HoldsEntry, InCall, Invoke, AtInvoke
  <2> QED BY <1>0, <1>2, <2>1, <2>2, <2>3, LoadEffect, RuntimesMove
<1>3. CASE Invoke(t)
  <2>1. PICK e \in Entries : e = my[t].p
    BY <1>0
  <2>2. plugin[e].runtime = "live" \/ closed
    BY <1>0, <1>3, <2>1 DEF Invoke, Gone, Runtimes, Typed, Objects
  <2>3. at'[t] = "calling" /\ my' = my /\ UNCHANGED <<kind, closed>> /\ pmu[e] = Nobody
    BY <1>0, <1>3, <2>1 DEF Invoke, Goto, Typed, world
  <2>4. /\ Only(e) /\ (plugin'[e].loaded <=> plugin[e].loaded)
        /\ plugin'[e].runtime = plugin[e].runtime
    BY <1>0, <1>3, <2>1, InvokeEffect
  <2>5. \A u \in Threads : at[u] \in InCall => my[u].p # e
    BY <2>3, CallHolds
  <2>6. \A u \in Threads : u # t => at'[u] = at[u] /\ my'[u] = my[u]
    BY <1>0 DEF Alone
  <2> QED BY <2>1, <2>2, <2>3, <2>4, <2>5, <2>6 DEF Runtimes, Only
<1>4. CASE CallReturns(t) \/ WasmDies(t)
  <2>1. PICK e \in Entries : e = my[t].p
    BY <1>0
  <2>2. UNCHANGED <<kind, closed>> /\ at[t] \in InCall /\ at'[t] = "done"
    BY <1>0, <1>4 DEF CallReturns, WasmDies, world, Return, Goto, Typed, InCall
  <2>3. pmu[e] = t /\ ~(at'[t] \in InCall)
    BY <2>1, <2>2, CallHolds DEF InCall
  <2>4. /\ Only(e)
        /\ ~plugin'[e].loaded => plugin'[e].runtime = "none"
        /\ plugin'[e].runtime = "expired" => kind = "wasm"
        /\ ~closed => plugin'[e].runtime # "closed" /\ (plugin'[e].loaded => plugin'[e].runtime # "none")
    <3>1. CASE CallReturns(t)
      BY <1>0, <2>1, <3>1, CallReturnsEffect DEF Runtimes
    <3>2. CASE WasmDies(t)
      BY <1>0, <2>1, <3>2, WasmDiesEffect
    <3> QED BY <1>4, <3>1, <3>2
  <2> QED BY <1>0, <2>2, <2>3, <2>4, RuntimesMove
<1>5. CASE Unload(t)
  <2>1. PICK e \in Entries : e = my[t].p
    BY <1>0
  <2>2. UNCHANGED <<kind, closed>> /\ at'[t] = "found" /\ pmu[e] = Nobody
    BY <1>0, <1>5, <2>1 DEF Unload, Goto, Typed
  <2>3. ~(at'[t] \in InCall)
    BY <2>2 DEF InCall
  <2>4. /\ Only(e)
        /\ plugin[e].loaded => ~plugin'[e].loaded /\ plugin'[e].runtime = "none"
        /\ ~plugin[e].loaded => plugin'[e] = plugin[e]
    BY <1>0, <1>5, <2>1, UnloadEffect
  <2>5. plugin[e].loaded \/ plugin[e].runtime = "none"
    BY DEF Runtimes
  <2>6. ~plugin'[e].loaded /\ plugin'[e].runtime = "none"
    BY <2>4, <2>5
  <2> QED BY <1>0, <2>2, <2>3, <2>4, <2>6, RuntimesMove
<1>6. CASE InstallSucceeds(t)
  <2>0. entry + 1 \in Entries /\ at[t] = "installing" /\ UNCHANGED <<kind, closed>> /\ at'[t] = "done"
    BY <1>0, <1>6 DEF InstallSucceeds, BaseInv, Room, Installing, Typed, Entries, Return, Goto
  <2>1. PICK e \in Entries : e = entry + 1
    BY <2>0
  <2>2. ~(at'[t] \in InCall)
    BY <2>0 DEF InCall
  <2>3. pmu[e] = Nobody
    <3>1. \A u \in Threads : my[u].p # e /\ my[u].q # e
      BY <2>1 DEF BaseInv, Typed, Locals, Roles, Entries
    <3> QED BY <3>1 DEF BaseInv, Locked, HoldsEntry
  <2> QED BY <1>0, <1>6, <2>0, <2>1, <2>2, <2>3, InstallEffect, RuntimesMove
<1> QED BY <1>1, <1>2, <1>3, <1>4, <1>5, <1>6, Steps

RuntimeInv == BaseInv /\ Runtimes

LEMMA RuntimeInit == Init => RuntimeInv
BY BaseInit DEF Init, RuntimeInv, Runtimes, Registered, InCall

LEMMA RuntimeNext == RuntimeInv /\ [Next]_vars => RuntimeInv'
<1> SUFFICES ASSUME RuntimeInv, [Next]_vars PROVE RuntimeInv'
  OBVIOUS
<1>1. BaseInv'
  BY BaseNext DEF RuntimeInv
<1>2. CASE EditFiles \/ UNCHANGED vars
  BY <1>1, <1>2 DEF EditFiles, vars, RuntimeInv, Runtimes
<1>3. CASE Close
  <2>1. closed' /\ UNCHANGED kind
    BY <1>3 DEF Close
  <2> QED BY <1>1, <1>3, <2>1, CloseEffect DEF RuntimeInv, BaseInv, Runtimes
<1> QED BY <1>1, <1>2, <1>3, RuntimesStep DEF Next, RuntimeInv

\* Until shutdown, no runtime is closed or replaced under a call, for every
\* crossing of calls, reloads and installs.
THEOREM RuntimesAreHeld == Spec => []RuntimeHeld
<1>1. RuntimeInv => RuntimeHeld
  BY DEF RuntimeInv, Runtimes, RuntimeHeld, InCall, BaseInv, Typed, Locals
<1> QED BY RuntimeInit, RuntimeNext, <1>1, PTL DEF Spec

\* Until shutdown, what says it is loaded has a runtime that works or one that
\* expired in the host's own malloc or free.
THEOREM LoadedWorks == Spec => []LoadedIsUsable
<1>1. RuntimeInv => LoadedIsUsable
  BY DEF RuntimeInv, Runtimes, LoadedIsUsable, BaseInv, Typed, Objects
<1> QED BY RuntimeInit, RuntimeNext, <1>1, PTL DEF Spec

-----------------------------------------------------------------------------
(* Reloads take effect.                                                      *)

InLoad == {"loading", "loadingHost"}

\* Whatever runtime object e has or is about to get, is from files of version n
\* or newer.
Fits(e, n) ==
  /\ plugin[e].runtime # "none" => plugin[e].version >= n
  /\ \A u \in Threads : at[u] \in InLoad /\ my[u].q = e => my[u].reading >= n

\* A load goes on with what it has read.
LEMMA LoadKeeps ==
  ASSUME BaseInv, NEW t \in Threads, Get(t) \/ UnloadLock(t) \/ InstallLock(t) \/ Step(t), at'[t] \in InLoad
  PROVE  /\ my'[t].q = my[t].q
         /\ my'[t].need = my[t].need
         /\ \/ at[t] \in InLoad /\ my'[t].reading = my[t].reading
            \/ my'[t].reading = disk /\ EnsureLoad(t)
<1> USE DEF BaseInv, Typed, Goto, Return, InLoad
<1>1. CASE EnsureLoad(t)
  BY <1>1 DEF EnsureLoad, Locals
<1>2. CASE InitCallsHost(t)
  BY <1>2 DEF InitCallsHost, Locals
<1>3. CASE InitHostReturns(t)
  BY <1>3 DEF InitHostReturns
<1>4. CASE ~(EnsureLoad(t) \/ InitCallsHost(t) \/ InitHostReturns(t))
  <2>1. CASE ensureLoaded(t)
    BY <1>4, <2>1 DEF ensureLoaded, EnsureLook, EnsureLoaded, LoadSucceeds, LoadFails, AfterEnsure
  <2>2. CASE ResolveJS(t) \/ ResolvedJS(t) \/ InvokeGone(t) \/ Invoke(t) \/ HostCall(t) \/ invokeCtx(t)
    BY <2>2 DEF ResolveJS, ResolvedJS, InvokeGone, Invoke, HostCall, invokeCtx
  <2>3. CASE HostReturns(t) \/ CallReturns(t) \/ WasmDies(t) \/ YaegiTimesOut(t)
    BY <2>3 DEF HostReturns, CallReturns, WasmDies, YaegiTimesOut
  <2>4. CASE Get(t) \/ UnloadLock(t) \/ InstallLock(t) \/ Unload(t) \/ InstallSucceeds(t) \/ InstallFails(t)
    BY <2>4 DEF Get, UnloadLock, InstallLock, Unload, InstallSucceeds, InstallFails
  <2> QED BY <2>1, <2>2, <2>3, <2>4 DEF Step, call
<1> QED BY <1>1, <1>2, <1>3, <1>4

\* What fits version n goes on fitting it, as long as the files are that new.
LEMMA FitsStep ==
  ASSUME RuntimeInv, NEW e \in Entries, NEW n \in 0 .. MaxVersion, e <= entry, n <= disk, Fits(e, n), Next
  PROVE  Fits(e, n)'
<1>0. BaseInv /\ Runtimes /\ Typed
  BY DEF RuntimeInv, BaseInv
<1>1. CASE EditFiles
  BY <1>1 DEF EditFiles, Fits
<1>2. CASE Close
  <2>1. UNCHANGED <<at, my>> /\ ~closed
    BY <1>2 DEF Close
  <2>2. plugin'[e].version = plugin[e].version
    BY <1>0, <1>2, CloseEffect
  <2>3. plugin'[e].runtime # "none" => plugin[e].runtime # "none"
    BY <1>0, <1>2, <2>1, CloseEffect DEF Runtimes
  <2> QED BY <2>1, <2>2, <2>3 DEF Fits
<1>3. ASSUME NEW t \in Threads, Get(t) \/ UnloadLock(t) \/ InstallLock(t) \/ Step(t) PROVE Fits(e, n)'
  <2>0. Alone(t) /\ my[t].p \in Entries /\ my[t].q \in Entries /\ my[t].reading \in 0 .. MaxVersion
    BY <1>0, <1>3, MovesAlone DEF Typed, Locals
  <2>1. ASSUME NEW u \in Threads, at'[u] \in InLoad, my'[u].q = e PROVE my'[u].reading >= n
    <3>1. CASE u # t
      BY <2>0, <2>1, <3>1 DEF Alone, Fits
    <3>2. CASE u = t
      BY <1>0, <1>3, <2>1, <3>2, LoadKeeps DEF Fits, Typed
    <3> QED BY <3>1, <3>2
  <2>2. plugin'[e].runtime # "none" => plugin'[e].version >= n
    <3>1. CASE plugin'[e] = plugin[e]
      BY <3>1 DEF Fits
    <3>2. CASE Reads(t)
      BY <3>1, <3>2, ReadsEffect
    <3>3. CASE LoadSucceeds(t)
      <4>1. CASE my[t].q = e
        <5>1. at[t] \in InLoad
          BY <3>3 DEF LoadSucceeds, InLoad
        <5> QED BY <1>0, <3>3, <4>1, <5>1, LoadEffect DEF Fits
      <4>2. CASE my[t].q # e
        BY <1>0, <2>0, <3>1, <3>3, <4>2, LoadEffect DEF Only
      <4> QED BY <4>1, <4>2
    <3>4. CASE Invoke(t)
      <4>1. CASE my[t].p = e
        BY <1>0, <3>4, <4>1, InvokeEffect DEF Fits
      <4>2. CASE my[t].p # e
        BY <1>0, <2>0, <3>1, <3>4, <4>2, InvokeEffect DEF Only
      <4> QED BY <4>1, <4>2
    <3>5. CASE CallReturns(t)
      <4>1. CASE my[t].p = e
        BY <1>0, <3>5, <4>1, CallReturnsEffect DEF Fits
      <4>2. CASE my[t].p # e
        BY <1>0, <2>0, <3>1, <3>5, <4>2, CallReturnsEffect DEF Only
      <4> QED BY <4>1, <4>2
    <3>6. CASE WasmDies(t)
      <4>1. CASE my[t].p = e
        BY <1>0, <3>6, <4>1, WasmDiesEffect
      <4>2. CASE my[t].p # e
        BY <1>0, <2>0, <3>1, <3>6, <4>2, WasmDiesEffect DEF Only
      <4> QED BY <4>1, <4>2
    <3>7. CASE Unload(t)
      <4>1. CASE my[t].p = e
        BY <1>0, <3>1, <3>7, <4>1, UnloadEffect
      <4>2. CASE my[t].p # e
        BY <1>0, <2>0, <3>1, <3>7, <4>2, UnloadEffect DEF Only
      <4> QED BY <4>1, <4>2
    <3>8. CASE InstallSucceeds(t)
      <4>1. entry + 1 \in Entries /\ e # entry + 1
        BY <1>0, <3>8 DEF InstallSucceeds, BaseInv, Room, Installing, Typed, Entries
      <4> QED BY <1>0, <3>1, <3>8, <4>1, InstallEffect DEF Only
    <3> QED BY <1>3, <3>2, <3>3, <3>4, <3>5, <3>6, <3>7, <3>8, Steps
  <2> QED BY <2>1, <2>2 DEF Fits
<1> QED BY <1>1, <1>2, <1>3 DEF Next

\* A call that has looked its object up, a reload past the unload.
Waits(t) == t \in Callers /\ at[t] \notin {"idle", "done"}

Reloading(t) == t \notin Callers /\ at[t] \in {"found", "ensure", "loading", "loadingHost"}

VersionsKnown == floor <= disk /\ \A t \in Threads : my[t].need <= disk

CallsFit == \A t \in Threads : Waits(t) => Fits(my[t].p, my[t].need)

ReloadsFit == \A t \in Threads : Reloading(t) => Fits(entry, my[t].need)

InstallsFit ==
  \A u \in Threads : Installing(u) =>
    my[u].reading >= floor /\ \A t \in Threads : Reloading(t) => my[u].reading >= my[t].need

CallsRunNew == \A t \in Threads : at[t] \in InCall => plugin[my[t].p].version >= my[t].need

VersionInv ==
  VersionsKnown /\ Fits(entry, floor) /\ CallsFit /\ ReloadsFit /\ InstallsFit /\ CallsRunNew

\* What a goroutine must get, and the object it is about, are settled by Get
\* and UnloadLock.
LEMMA NeedKept ==
  ASSUME BaseInv, NEW t \in Threads, Step(t)
  PROVE  \/ at'[t] = "done" /\ my'[t] = Fresh
         \/ /\ my'[t].p = my[t].p /\ my'[t].need = my[t].need
            /\ at'[t] # "done" /\ at[t] \notin {"idle", "done"}
<1> USE DEF BaseInv, Typed, Goto, Return
<1>1. CASE EnsureLook(t) \/ EnsureLoad(t) \/ InitHostReturns(t) \/ LoadFails(t)
  BY <1>1 DEF EnsureLook, EnsureLoad, InitHostReturns, LoadFails, Locals
<1>2. CASE InitCallsHost(t)
  BY <1>2 DEF InitCallsHost, Locals
<1>3. CASE EnsureLoaded(t) \/ LoadSucceeds(t)
  <2>1. AfterEnsure(t) /\ at[t] \notin {"idle", "done"}
    BY <1>3 DEF EnsureLoaded, LoadSucceeds
  <2>2. CASE t \in Callers
    BY <2>1, <2>2 DEF AfterEnsure, Locals
  <2>3. CASE t \notin Callers
    BY <2>1, <2>3 DEF AfterEnsure
  <2> QED BY <2>2, <2>3
<1>4. CASE ResolveJS(t) \/ ResolvedJS(t) \/ InvokeGone(t) \/ Invoke(t)
  BY <1>4 DEF ResolveJS, ResolvedJS, InvokeGone, Invoke, AtInvoke
<1>5. CASE HostCall(t)
  BY <1>5 DEF HostCall, Locals
<1>6. CASE invokeCtx(t) \/ HostReturns(t)
  BY <1>6 DEF invokeCtx, HostReturns, Locals
<1>7. CASE CallReturns(t) \/ WasmDies(t) \/ YaegiTimesOut(t)
  BY <1>7 DEF CallReturns, WasmDies, YaegiTimesOut
<1>8. CASE Unload(t) \/ InstallSucceeds(t) \/ InstallFails(t)
  BY <1>8 DEF Unload, InstallSucceeds, InstallFails
<1> QED BY <1>1, <1>2, <1>3, <1>4, <1>5, <1>6, <1>7, <1>8 DEF Step, ensureLoaded, call

LEMMA ReloadKept ==
  ASSUME BaseInv, NEW t \in Threads, Get(t) \/ UnloadLock(t) \/ InstallLock(t) \/ Step(t), Reloading(t)'
  PROVE  Reloading(t) \/ Unload(t)
<1> USE DEF BaseInv, Typed, Goto, Return, Reloading
<1>1. CASE Get(t) \/ UnloadLock(t) \/ InstallLock(t)
  BY <1>1 DEF Get, UnloadLock, InstallLock
<1>2. CASE ensureLoaded(t)
  BY <1>2 DEF ensureLoaded, EnsureLook, EnsureLoaded, EnsureLoad, InitCallsHost, InitHostReturns,
              LoadSucceeds, LoadFails, AfterEnsure
<1>3. CASE ResolveJS(t) \/ ResolvedJS(t) \/ InvokeGone(t) \/ Invoke(t) \/ HostCall(t) \/ invokeCtx(t)
  BY <1>3 DEF ResolveJS, ResolvedJS, InvokeGone, Invoke, HostCall, invokeCtx
<1>4. CASE HostReturns(t) \/ CallReturns(t) \/ WasmDies(t) \/ YaegiTimesOut(t)
  BY <1>4 DEF HostReturns, CallReturns, WasmDies, YaegiTimesOut
<1>5. CASE InstallSucceeds(t) \/ InstallFails(t)
  BY <1>5 DEF InstallSucceeds, InstallFails
<1> QED BY <1>1, <1>2, <1>3, <1>4, <1>5 DEF Step, call

LEMMA InstallKept ==
  ASSUME BaseInv, NEW t \in Threads, Get(t) \/ UnloadLock(t) \/ InstallLock(t) \/ Step(t), Installing(t)'
  PROVE  \/ Installing(t) /\ my'[t].reading = my[t].reading
         \/ InstallLock(t) /\ my'[t].reading = disk'
<1> USE DEF BaseInv, Typed, Goto, Return, Installing
<1>1. CASE Get(t) \/ UnloadLock(t) \/ InstallLock(t)
  BY <1>1 DEF Get, UnloadLock, InstallLock, Locals
<1>2. CASE InitCallsHost(t)
  BY <1>2 DEF InitCallsHost, Locals
<1>3. CASE ensureLoaded(t) /\ ~InitCallsHost(t)
  BY <1>3 DEF ensureLoaded, EnsureLook, EnsureLoaded, EnsureLoad, InitHostReturns,
              LoadSucceeds, LoadFails, AfterEnsure
<1>4. CASE ResolveJS(t) \/ ResolvedJS(t) \/ InvokeGone(t) \/ Invoke(t) \/ HostCall(t) \/ invokeCtx(t)
  BY <1>4 DEF ResolveJS, ResolvedJS, InvokeGone, Invoke, HostCall, invokeCtx
<1>5. CASE HostReturns(t) \/ CallReturns(t) \/ WasmDies(t) \/ YaegiTimesOut(t)
  BY <1>5 DEF HostReturns, CallReturns, WasmDies, YaegiTimesOut
<1>6. CASE Unload(t) \/ InstallSucceeds(t) \/ InstallFails(t)
  BY <1>6 DEF Unload, InstallSucceeds, InstallFails
<1> QED BY <1>1, <1>2, <1>3, <1>4, <1>5, <1>6 DEF Step, call

\* The floor rises to what a reload had to get when the reload ends.
LEMMA FloorRises ==
  ASSUME BaseInv, NEW t \in Threads, Get(t) \/ UnloadLock(t) \/ InstallLock(t) \/ Step(t)
  PROVE  /\ floor' = floor \/ (Reloading(t) /\ floor' = my[t].need)
         /\ disk' = disk \/ (InstallLock(t) /\ disk' >= disk)
         /\ entry' = entry \/ InstallSucceeds(t)
<1> USE DEF world
<1>1. CASE Get(t) \/ UnloadLock(t) \/ InstallLock(t)
  BY <1>1 DEF Get, UnloadLock, InstallLock, BaseInv, Typed
<1>2. CASE EnsureLoaded(t) \/ LoadSucceeds(t)
  <2>1. AfterEnsure(t) /\ at[t] \in {"ensure", "loading"} /\ UNCHANGED <<disk, entry>>
    BY <1>2 DEF EnsureLoaded, LoadSucceeds
  <2> QED BY <2>1 DEF AfterEnsure, Reloading
<1>3. CASE ensureLoaded(t) /\ ~(EnsureLoaded(t) \/ LoadSucceeds(t))
  BY <1>3 DEF ensureLoaded, EnsureLook, EnsureLoad, InitCallsHost, InitHostReturns, LoadFails
<1>4. CASE call(t)
  <2>1. CASE ResolveJS(t) \/ ResolvedJS(t) \/ InvokeGone(t) \/ Invoke(t) \/ HostCall(t) \/ invokeCtx(t)
    BY <2>1 DEF ResolveJS, ResolvedJS, InvokeGone, Invoke, HostCall, invokeCtx
  <2>2. CASE HostReturns(t) \/ CallReturns(t) \/ WasmDies(t) \/ YaegiTimesOut(t)
    BY <2>2 DEF HostReturns, CallReturns, WasmDies, YaegiTimesOut
  <2> QED BY <1>4, <2>1, <2>2 DEF call
<1>5. CASE Unload(t) \/ InstallSucceeds(t) \/ InstallFails(t)
  BY <1>5 DEF Unload, InstallSucceeds, InstallFails
<1> QED BY <1>1, <1>2, <1>3, <1>4, <1>5 DEF Step

LEMMA VersionStep ==
  ASSUME RuntimeInv, VersionInv, NEW t \in Threads, Get(t) \/ UnloadLock(t) \/ InstallLock(t) \/ Step(t)
  PROVE  VersionInv'
<1> USE DEF VersionInv
<1>0. /\ BaseInv /\ Typed /\ Alone(t) /\ Next /\ Typed'
      /\ entry \in Entries /\ floor \in 0 .. MaxVersion /\ disk \in 1 .. MaxVersion
      /\ disk' \in 1 .. MaxVersion /\ floor' \in 0 .. MaxVersion
      /\ \A u \in Threads : /\ my[u].p \in Entries /\ my[u].p <= entry /\ my[u].q <= entry
                            /\ my[u].need \in 0 .. MaxVersion /\ my[u].reading \in 0 .. MaxVersion
  BY MovesAlone, BaseStep DEF RuntimeInv, BaseInv, Typed, Locals, Roles, Next
<1>1. /\ floor' = floor \/ (Reloading(t) /\ floor' = my[t].need)
      /\ disk' = disk \/ (InstallLock(t) /\ disk' >= disk)
      /\ entry' = entry \/ InstallSucceeds(t)
  BY <1>0, FloorRises
<1>2. \A u \in Threads : u # t => at'[u] = at[u] /\ my'[u] = my[u]
  BY <1>0 DEF Alone
\* Who must get what.
<1>3. \/ Get(t) /\ my'[t].p = entry /\ my'[t].need = floor /\ at[t] = "idle" /\ at'[t] = "found"
      \/ UnloadLock(t) /\ my'[t].need = disk /\ at[t] = "idle" /\ at'[t] = "unload"
      \/ InstallLock(t) /\ my'[t].need = my[t].need /\ at[t] = "idle" /\ at'[t] = "installing"
      \/ at'[t] = "done" /\ my'[t].need = 0
      \/ Step(t) /\ my'[t].p = my[t].p /\ my'[t].need = my[t].need /\ at'[t] # "done"
           /\ at[t] \notin {"idle", "done"}
  <2>1. CASE Get(t)
    BY <1>0, <2>1 DEF Get, Typed, Locals, Goto
  <2>2. CASE UnloadLock(t)
    BY <1>0, <2>2 DEF UnloadLock, Typed, Locals, Goto
  <2>3. CASE InstallLock(t)
    BY <1>0, <2>3 DEF InstallLock, Typed, Locals, Goto
  <2>4. CASE Step(t)
    BY <1>0, <2>4, NeedKept DEF Fresh
  <2> QED BY <2>1, <2>2, <2>3, <2>4
<1>4. VersionsKnown'
  <2>1. disk <= disk'
    BY <1>0, <1>1
  <2>2. my'[t].need <= disk
    BY <1>0, <1>3 DEF VersionsKnown
  <2>3. floor' <= disk
    BY <1>1 DEF VersionsKnown
  <2>4. \A u \in Threads : my'[u].need <= disk /\ my'[u].need \in Nat
    BY <1>0, <1>2, <1>3, <2>2 DEF VersionsKnown
  <2>5. disk \in Nat /\ disk' \in Nat /\ floor' \in Nat
    BY <1>0
  <2> QED BY <2>1, <2>3, <2>4, <2>5 DEF VersionsKnown
<1>5. Fits(entry, floor)' /\ ReloadsFit'
  <2>1. ASSUME NEW n \in 0 .. MaxVersion, n <= disk, Fits(entry, n),
               \A u \in Threads : Installing(u) => my[u].reading >= n
        PROVE  \A e \in Entries : e = entry' => Fits(e, n)'
    <3>1. CASE entry' = entry
      <4>1. ASSUME NEW e \in Entries, e = entry' PROVE Fits(e, n)'
        <5>1. e = entry /\ e <= entry
          BY <1>0, <3>1, <4>1 DEF Entries
        <5>2. Fits(e, n)
          BY <2>1, <5>1
        <5> QED BY <1>0, <2>1, <5>1, <5>2, FitsStep
      <4> QED BY <4>1
    <3>2. CASE InstallSucceeds(t)
      <4>1. /\ entry' = entry + 1 /\ Installing(t) /\ entry + 1 \in Entries
            /\ at'[t] = "done"
        BY <1>0, <3>2 DEF InstallSucceeds, Installing, BaseInv, Room, Typed, Entries, Return, Goto
      <4>2. plugin'[entry + 1].version = my[t].reading
        BY <1>0, <3>2, <4>1, InstallEffect
      <4>3. \A u \in Threads : ~(at'[u] \in InLoad /\ my'[u].q = entry + 1)
        BY <1>0, <1>2, <4>1 DEF InLoad, Entries
      <4>4. my[t].reading >= n
        BY <2>1, <4>1
      <4> QED BY <4>1, <4>2, <4>3, <4>4 DEF Fits
    <3> QED BY <1>1, <3>1, <3>2
  <2>2. entry' \in Entries
    BY <1>0 DEF Typed
  <2>3. PICK d \in Entries : d = entry'
    BY <2>2
  <2>4. Fits(d, floor)'
    <3>1. PICK n \in 0 .. MaxVersion : n = floor'
      BY <1>0
    <3>2. n <= disk /\ Fits(entry, n) /\ \A u \in Threads : Installing(u) => my[u].reading >= n
      <4>1. CASE n = floor
        BY <4>1 DEF VersionsKnown, InstallsFit
      <4>2. CASE Reloading(t) /\ n = my[t].need
        BY <4>2 DEF VersionsKnown, ReloadsFit, InstallsFit
      <4> QED BY <1>1, <3>1, <4>1, <4>2
    <3>3. \A e \in Entries : e = entry' => Fits(e, n)'
      BY <2>1, <3>2
    <3>4. Fits(d, n)'
      BY <2>3, <3>3
    <3> QED BY <3>1, <3>4 DEF Fits
  <2>5. ASSUME NEW u \in Threads, Reloading(u)' PROVE Fits(d, my[u].need)'
    <3>1. PICK n \in 0 .. MaxVersion : n = my[u].need
      BY <1>0
    <3>2. my'[u].need = n
      BY <1>2, <1>3, <2>5, <3>1 DEF Reloading, Get
    <3>3. n <= disk
      BY <3>1 DEF VersionsKnown
    <3>4. CASE Reloading(u)
      <4>1. Fits(entry, n) /\ \A v \in Threads : Installing(v) => my[v].reading >= n
        BY <3>1, <3>4 DEF ReloadsFit, InstallsFit
      <4>2. \A e \in Entries : e = entry' => Fits(e, n)'
        BY <2>1, <3>3, <4>1
      <4>3. Fits(d, n)'
        BY <2>3, <4>2
      <4> QED BY <3>2, <4>3 DEF Fits
    <3>5. CASE ~Reloading(u)
      <4>1. u = t /\ Unload(t)
        BY <1>0, <1>2, <2>5, <3>5, ReloadKept DEF Reloading
      <4>2. d = entry /\ my[t].p = d /\ pmu[d] = Nobody
        BY <1>0, <2>3, <4>1 DEF Unload, BaseInv, Roles
      <4>3. plugin'[d].runtime = "none"
        BY <1>0, <4>1, <4>2, UnloadEffect DEF RuntimeInv, Runtimes
      <4>4. \A v \in Threads : ~(at[v] \in InLoad /\ my[v].q = d)
        BY <1>0, <4>2 DEF BaseInv, Locked, HoldsEntry, InLoad
      <4>5. at'[t] = "found"
        BY <1>0, <4>1 DEF Unload, Goto, Typed
      <4>6. \A v \in Threads : ~(at'[v] \in InLoad /\ my'[v].q = d)
        BY <1>2, <4>4, <4>5 DEF InLoad
      <4> QED BY <4>3, <4>6 DEF Fits
    <3> QED BY <3>4, <3>5
  <2>6. Fits(entry, floor)'
    BY <2>3, <2>4 DEF Fits
  <2>7. ReloadsFit'
    BY <2>3, <2>5 DEF ReloadsFit, Fits
  <2> QED BY <2>6, <2>7
<1>6. CallsFit'
  <2>1. ASSUME NEW u \in Threads, Waits(u)' PROVE Fits(my[u].p, my[u].need)'
    <3>1. \/ Waits(u) /\ my'[u].p = my[u].p /\ my'[u].need = my[u].need
          \/ my'[u].p = entry /\ my'[u].need = floor
      BY <1>2, <1>3, <2>1 DEF Waits, UnloadLock, InstallLock
    <3>2. PICK e \in Entries, n \in 0 .. MaxVersion : e = my'[u].p /\ n = my'[u].need
      BY <1>0, <3>1
    <3>3. Fits(e, n) /\ n <= disk /\ e <= entry
      BY <1>0, <3>1, <3>2 DEF CallsFit, VersionsKnown, Entries
    <3>4. Fits(e, n)'
      BY <1>0, <3>3, FitsStep
    <3> QED BY <3>2, <3>4 DEF Fits
  <2> QED BY <2>1 DEF CallsFit
<1>7. InstallsFit'
  <2>1. ASSUME NEW u \in Threads, Installing(u)'
        PROVE  my'[u].reading >= floor' /\ \A r \in Threads : Reloading(r)' => my'[u].reading >= my'[r].need
    <3>1. CASE Installing(u) /\ my'[u].reading = my[u].reading
      <4>1. my[u].reading >= floor'
        BY <1>1, <3>1 DEF InstallsFit
      <4>2. ASSUME NEW r \in Threads, Reloading(r)' PROVE Reloading(r) /\ my'[r].need = my[r].need
        <5>1. CASE r # t
          BY <1>2, <4>2, <5>1 DEF Reloading
        <5>2. CASE r = t
          <6>1. ~Unload(t)
            BY <1>0, <3>1 DEF Unload, Installing, BaseInv, Locked, HoldsManager
          <6>2. Reloading(t)
            BY <1>0, <4>2, <5>2, <6>1, ReloadKept
          <6> QED BY <1>3, <4>2, <5>2, <6>2 DEF Reloading
        <5> QED BY <5>1, <5>2
      <4> QED BY <3>1, <4>1, <4>2 DEF InstallsFit
    <3>2. CASE u = t /\ InstallLock(t) /\ my'[t].reading = disk'
      BY <1>0, <1>1, <1>4, <3>2 DEF VersionsKnown
    <3> QED BY <1>0, <1>2, <2>1, <3>1, <3>2, InstallKept DEF Installing
  <2> QED BY <2>1 DEF InstallsFit
<1>8. CallsRunNew'
  <2>1. ASSUME NEW u \in Threads, at'[u] \in InCall
        PROVE  plugin'[my'[u].p].version >= my'[u].need
    <3>1. CASE Invoke(t) /\ u = t
      <4>1. at'[t] = "calling" /\ my' = my
        BY <1>0, <3>1 DEF Invoke, Goto, Typed
      <4>2. Waits(t) /\ plugin[my[t].p].runtime # "none"
        BY <1>0, <3>1 DEF Invoke, AtInvoke, Gone, BaseInv, Roles, Waits
      <4>3. plugin'[my[t].p].version = plugin[my[t].p].version
        BY <1>0, <3>1, InvokeEffect
      <4>4. plugin[my[t].p].version >= my[t].need
        BY <4>2 DEF CallsFit, Fits
      <4> QED BY <3>1, <4>1, <4>3, <4>4
    <3>2. CASE ~(Invoke(t) /\ u = t)
      <4>1. at[u] \in InCall /\ my'[u].p = my[u].p /\ my'[u].need = my[u].need
        BY <1>0, <1>2, <2>1, <3>2, IntoCall
      <4>2. PICK e \in Entries : e = my[u].p /\ pmu[e] = u
        BY <1>0, <4>1, CallHolds
      <4>3. plugin'[e].version = plugin[e].version
        <5>1. CASE Reads(t)
          BY <5>1, ReadsEffect
        <5>2. CASE LoadSucceeds(t)
          <6>1. my[t].q \in Entries /\ pmu[my[t].q] = t /\ at[t] \notin InCall
            BY <1>0, <5>2 DEF LoadSucceeds, BaseInv, Locked, HoldsEntry, InCall, Typed, Locals
          <6>2. my[t].q # e
            BY <4>1, <4>2, <6>1
          <6> QED BY <1>0, <5>2, <6>1, <6>2, LoadEffect DEF Only
        <5>3. CASE Invoke(t)
          <6>1. pmu[my[t].p] = Nobody
            BY <5>3 DEF Invoke
          <6> QED BY <1>0, <4>2, <5>3, <6>1, InvokeEffect DEF Only
        <5>4. CASE CallReturns(t)
          BY <1>0, <5>4, CallReturnsEffect DEF Only
        <5>5. CASE WasmDies(t)
          <6>1. at[t] \in InCall /\ at'[t] = "done"
            BY <1>0, <5>5 DEF WasmDies, InCall, Return, Goto, Typed
          <6>2. pmu[my[t].p] = t /\ u # t
            BY <1>0, <2>1, <6>1, CallHolds DEF InCall
          <6> QED BY <1>0, <4>2, <5>5, <6>2, WasmDiesEffect DEF Only
        <5>6. CASE Unload(t)
          <6>1. pmu[my[t].p] = Nobody
            BY <5>6 DEF Unload
          <6> QED BY <1>0, <4>2, <5>6, <6>1, UnloadEffect DEF Only
        <5>7. CASE InstallSucceeds(t)
          <6>1. entry + 1 \in Entries /\ e # entry + 1
            BY <1>0, <4>2, <5>7 DEF InstallSucceeds, BaseInv, Room, Installing, Entries
          <6> QED BY <1>0, <5>7, <6>1, InstallEffect DEF Only
        <5> QED BY <5>1, <5>2, <5>3, <5>4, <5>5, <5>6, <5>7, Steps
      <4> QED BY <4>1, <4>2, <4>3 DEF CallsRunNew
    <3> QED BY <3>1, <3>2
  <2> QED BY <2>1 DEF CallsRunNew
<1> QED BY <1>4, <1>5, <1>6, <1>7, <1>8

LEMMA VersionInit == Init => VersionInv
<1> SUFFICES ASSUME Init PROVE VersionInv
  OBVIOUS
<1>1. /\ entry = 1 /\ 1 \in Entries /\ floor = 0 /\ disk = 1
      /\ plugin[entry].runtime = "none"
      /\ \A t \in Threads : at[t] = "idle" /\ my[t].need = 0
  BY DEF Init, Entries, Registered, Fresh
<1>2. VersionsKnown
  BY <1>1 DEF VersionsKnown
<1>3. CallsFit /\ ReloadsFit /\ InstallsFit /\ CallsRunNew
  BY <1>1 DEF CallsFit, ReloadsFit, InstallsFit, CallsRunNew, Waits, Reloading, Installing, InCall
<1>4. Fits(entry, floor)
  <2>1. \A t \in Threads : at[t] # "loading" /\ at[t] # "loadingHost"
    BY <1>1
  <2> QED BY <1>1, <2>1 DEF Fits, InLoad
<1> QED BY <1>2, <1>3, <1>4 DEF VersionInv

LEMMA VersionNext == RuntimeInv /\ VersionInv /\ [Next]_vars => VersionInv'
<1> SUFFICES ASSUME RuntimeInv, VersionInv, [Next]_vars PROVE VersionInv'
  OBVIOUS
<1> USE DEF VersionsKnown, Fits, CallsFit, ReloadsFit, InstallsFit, CallsRunNew, Waits, Reloading, Installing
<1>0. Typed
  BY DEF RuntimeInv, BaseInv
<1>1. CASE UNCHANGED vars
  BY <1>1 DEF vars, VersionInv
<1>2. CASE EditFiles
  <2>1. disk' >= disk /\ UNCHANGED <<entry, plugin, at, my, floor>>
    BY <1>0, <1>2 DEF EditFiles, Typed
  <2>2. VersionsKnown'
    <3>1. /\ disk \in Nat /\ disk' \in Nat /\ floor \in Nat
          /\ \A t \in Threads : my[t].need \in Nat
      BY <1>0, <1>2 DEF EditFiles, Typed, Locals
    <3> QED BY <2>1, <3>1 DEF VersionInv
  <2> QED BY <2>1, <2>2 DEF VersionInv
<1>3. CASE Close
  <2>1. UNCHANGED <<disk, entry, at, my, floor>> /\ ~closed
    BY <1>3 DEF Close
  <2>2. \A e \in Entries : /\ plugin'[e].version = plugin[e].version
                           /\ plugin'[e].runtime # "none" => plugin[e].runtime # "none"
    BY <1>0, <1>3, <2>1, CloseEffect DEF RuntimeInv, Runtimes
  <2>3. entry \in Entries /\ \A t \in Threads : my[t].p \in Entries
    BY <1>0 DEF Typed, Locals
  <2> QED BY <2>1, <2>2, <2>3 DEF VersionInv
<1>4. CASE \E t \in Threads : Get(t) \/ UnloadLock(t) \/ InstallLock(t) \/ Step(t)
  BY <1>4, VersionStep
<1> QED BY <1>1, <1>2, <1>3, <1>4 DEF Next

\* A call that begins after a reload has ended runs files at least as new as
\* those that were on disk when the reload began.
THEOREM ReloadsTakeEffect == Spec => []ReloadTakesEffect
<1>1. VersionInv => ReloadTakesEffect
  BY DEF VersionInv, CallsRunNew, InCall, ReloadTakesEffect, Threads
<1> QED BY RuntimeInit, RuntimeNext, VersionInit, VersionNext, <1>1, PTL DEF Spec

-----------------------------------------------------------------------------
(* The context of a host call.                                               *)

\* The object somebody else's call is on stays as it is.
LEMMA HeldObject ==
  ASSUME BaseInv, NEW t \in Threads, Get(t) \/ UnloadLock(t) \/ InstallLock(t) \/ Step(t),
         NEW u \in Threads, u # t, at[u] \in InCall
  PROVE  plugin'[my[u].p] = plugin[my[u].p]
<1>0. Typed /\ my[t].p \in Entries /\ my[t].q \in Entries
  BY DEF BaseInv, Typed, Locals
<1>1. PICK e \in Entries : e = my[u].p /\ pmu[e] = u /\ e <= entry
  BY CallHolds DEF BaseInv, Roles
<1>2. CASE Reads(t)
  BY <1>2, ReadsEffect
<1>3. CASE LoadSucceeds(t)
  <2>1. pmu[my[t].q] = t
    BY <1>0, <1>3 DEF LoadSucceeds, BaseInv, Locked, HoldsEntry
  <2> QED BY <1>0, <1>1, <1>3, <2>1, LoadEffect DEF Only
<1>4. CASE Invoke(t) \/ Unload(t)
  <2>1. pmu[my[t].p] = Nobody
    BY <1>4 DEF Invoke, Unload
  <2> QED BY <1>0, <1>1, <1>4, <2>1, InvokeEffect, UnloadEffect DEF Only
<1>5. CASE CallReturns(t) \/ WasmDies(t)
  <2>1. at[t] \in InCall
    BY <1>5 DEF CallReturns, WasmDies, InCall
  <2>2. pmu[my[t].p] = t
    BY <2>1, CallHolds
  <2> QED BY <1>0, <1>1, <1>5, <2>2, CallReturnsEffect, WasmDiesEffect DEF Only
<1>6. CASE InstallSucceeds(t)
  <2>1. entry + 1 \in Entries /\ e # entry + 1
    BY <1>0, <1>1, <1>6 DEF InstallSucceeds, BaseInv, Room, Installing, Typed, Entries
  <2> QED BY <1>0, <1>1, <1>6, <2>1, InstallEffect DEF Only
<1> QED BY <1>2, <1>3, <1>4, <1>5, <1>6, Steps

\* While a call is on its runtime, its context is the published one; only the
\* natives of JavaScript and yaegi look it up.
Published ==
  \A t \in Threads :
    /\ Publishes /\ at[t] \in {"calling", "rlock", "host"} => plugin[my[t].p].curCtx = t
    /\ at[t] = "rlock" => CallsBack

ContextInv == Published /\ HostCallsBounded

\* Only these four steps leave a goroutine on a runtime.
LEMMA LeavesCall ==
  ASSUME BaseInv, NEW t \in Threads, Get(t) \/ UnloadLock(t) \/ InstallLock(t) \/ Step(t),
         ~(Invoke(t) \/ HostCall(t) \/ invokeCtx(t) \/ HostReturns(t))
  PROVE  at'[t] \notin InCall
<1> USE DEF InCall, Return, Goto
<1>0. at \in [Threads -> Places]
  BY DEF BaseInv, Typed
<1>1. CASE ensureLoaded(t)
  BY <1>0, <1>1 DEF ensureLoaded, EnsureLook, EnsureLoaded, EnsureLoad, InitCallsHost, InitHostReturns,
                    LoadSucceeds, LoadFails, AfterEnsure
<1>2. CASE ResolveJS(t) \/ ResolvedJS(t) \/ InvokeGone(t)
  BY <1>0, <1>2 DEF ResolveJS, ResolvedJS, InvokeGone
<1>3. CASE CallReturns(t)
  <2>1. Goto(t, "done")
    BY <1>3 DEF CallReturns
  <2> QED BY <1>0, <2>1
<1>4. CASE WasmDies(t) \/ YaegiTimesOut(t)
  BY <1>0, <1>4 DEF WasmDies, YaegiTimesOut
<1>5. CASE Get(t) \/ UnloadLock(t) \/ InstallLock(t) \/ Unload(t) \/ InstallSucceeds(t) \/ InstallFails(t)
  BY <1>0, <1>5 DEF Get, UnloadLock, InstallLock, Unload, InstallSucceeds, InstallFails
<1> QED BY <1>1, <1>2, <1>3, <1>4, <1>5 DEF Step, call

LEMMA ContextStep ==
  ASSUME BaseInv, ContextInv, NEW t \in Threads, Get(t) \/ UnloadLock(t) \/ InstallLock(t) \/ Step(t)
  PROVE  ContextInv'
<1> USE DEF ContextInv, CallsBack, Publishes
<1>0. /\ Typed /\ my[t].p \in Entries /\ UNCHANGED kind
      /\ \A u \in Threads : u # t => at'[u] = at[u] /\ my'[u] = my[u]
  <2>1. UNCHANGED kind
    BY Steps, ReadsEffect DEF LoadSucceeds, Invoke, CallReturns, WasmDies, Unload, InstallSucceeds, world
  <2> QED BY <2>1, MovesAlone DEF BaseInv, Typed, Locals, Alone
<1>1. ASSUME NEW u \in Threads, u # t
      PROVE  /\ Publishes /\ at'[u] \in {"calling", "rlock", "host"} => plugin'[my'[u].p].curCtx = u
             /\ at'[u] = "rlock" => CallsBack
             /\ at'[u] = "host" => \/ my'[u].ctx = u
                                   \/ kind = "yaegi"
                                   \/ kind = "native" /\ ~plugin'[my'[u].p].wired
                                   \/ entry' # my'[u].p
  <2>1. at[u] \in InCall => plugin'[my[u].p] = plugin[my[u].p]
    BY <1>1, HeldObject
  <2>2. my[u].p <= entry /\ my[u].p \in Nat /\ entry \in Nat
    BY <1>0 DEF BaseInv, Roles, Typed, Locals, Entries
  <2>3. entry' = entry \/ entry' = entry + 1
    BY FloorRises DEF InstallSucceeds
  <2>4. entry # my[u].p => entry' # my[u].p
    BY <2>2, <2>3
  <2> QED BY <1>0, <1>1, <2>1, <2>4 DEF Published, HostCallsBounded, InCall
<1>2. /\ Publishes /\ at'[t] \in {"calling", "rlock", "host"} => plugin'[my'[t].p].curCtx = t
      /\ at'[t] = "rlock" => CallsBack
      /\ at'[t] = "host" => \/ my'[t].ctx = t
                            \/ kind = "yaegi"
                            \/ kind = "native" /\ ~plugin'[my'[t].p].wired
                            \/ entry' # my'[t].p
  <2>1. CASE Invoke(t)
    <3>1. at'[t] = "calling" /\ my' = my
      BY <1>0, <2>1 DEF Invoke, Goto, Typed
    <3> QED BY <1>0, <2>1, <3>1, InvokeEffect
  <2>2. CASE HostCall(t) /\ CallsBack
    <3>1. UNCHANGED plugin /\ at[t] = "calling" /\ at'[t] = "rlock" /\ my'[t].p = my[t].p
      BY <1>0, <2>2 DEF HostCall, Goto, Typed, Locals
    <3> QED BY <2>2, <3>1 DEF Published
  <2>3. CASE HostCall(t) /\ ~CallsBack /\ kind = "native" /\ ~plugin[my[t].p].wired
    <3>1. UNCHANGED plugin /\ at[t] = "calling" /\ at'[t] = "host" /\ my'[t].p = my[t].p
      BY <1>0, <2>3 DEF HostCall, Goto, Typed, Locals
    <3> QED BY <2>3, <3>1 DEF Published
  <2>4. CASE HostCall(t) /\ ~CallsBack /\ ~(kind = "native" /\ ~plugin[my[t].p].wired)
    <3>1. UNCHANGED plugin /\ at[t] = "calling" /\ at'[t] = "host" /\ my'[t].p = my[t].p
      BY <1>0, <2>4 DEF HostCall, Goto, Typed, Locals
    <3>2. my'[t].ctx = t
      BY <1>0, <2>4 DEF HostCall, Typed, Locals
    <3> QED BY <3>1, <3>2 DEF Published
  <2>5. CASE invokeCtx(t)
    <3>1. UNCHANGED plugin /\ at[t] = "rlock" /\ at'[t] = "host" /\ my'[t].p = my[t].p /\ my'[t].ctx = plugin[entry].curCtx
          /\ entry' = entry
      BY <1>0, <2>5 DEF invokeCtx, Goto, Typed, Locals, world
    <3> QED BY <3>1 DEF Published
  <2>6. CASE HostReturns(t)
    <3>1. UNCHANGED plugin /\ at[t] = "host" /\ at'[t] = "calling" /\ my'[t].p = my[t].p
      BY <1>0, <2>6 DEF HostReturns, Goto, Typed, Locals
    <3> QED BY <3>1 DEF Published
  <2>7. CASE ~(Invoke(t) \/ HostCall(t) \/ invokeCtx(t) \/ HostReturns(t))
    BY <2>7, LeavesCall DEF InCall
  <2> QED BY <2>1, <2>2, <2>3, <2>4, <2>5, <2>6, <2>7
<1>3. Published'
  BY <1>0, <1>1, <1>2 DEF Published
<1>4. HostCallsBounded'
  BY <1>0, <1>1, <1>2 DEF HostCallsBounded
<1> QED BY <1>3, <1>4

LEMMA ContextNext == BaseInv /\ ContextInv /\ [Next]_vars => ContextInv'
<1> SUFFICES ASSUME BaseInv, ContextInv, [Next]_vars PROVE ContextInv'
  OBVIOUS
<1> USE DEF ContextInv, Published, HostCallsBounded, CallsBack, Publishes
<1>1. CASE EditFiles \/ UNCHANGED vars
  BY <1>1 DEF EditFiles, vars
<1>2. CASE Close
  <2>1. UNCHANGED <<kind, entry, at, my>>
    BY <1>2 DEF Close
  <2>2. \A t \in Threads : /\ plugin'[my[t].p].curCtx = plugin[my[t].p].curCtx
                           /\ plugin'[my[t].p].wired <=> plugin[my[t].p].wired
    BY <1>2, CloseEffect DEF BaseInv, Typed, Locals
  <2> QED BY <2>1, <2>2
<1> QED BY <1>1, <1>2, ContextStep DEF Next

\* A host call runs under the context of the invocation that makes it, but for
\* the code's exceptions.
THEOREM HostCallsAreBounded == Spec => []HostCallsBounded
<1>1. Init => ContextInv
  BY DEF Init, ContextInv, Published, HostCallsBounded
<1>2. ContextInv => HostCallsBounded
  BY DEF ContextInv
<1> QED BY BaseInit, BaseNext, ContextNext, <1>1, <1>2, PTL DEF Spec

-----------------------------------------------------------------------------
(* Challenges.                                                               *)

\* A call meets a challenge in its one host call.
Met ==
  \A t \in Threads :
    /\ my[t].met => my[t].hosted /\ at[t] = "calling"
    /\ at[t] \in {"rlock", "host"} => my[t].hosted

\* With one object of the plugin, what is parked is the challenge of the call on it.
Parked ==
  kind = "wasm" /\ entry = 1 =>
    \A t \in Threads : /\ at[t] = "calling" => (parked <=> my[t].met)
                       /\ at[t] \in {"rlock", "host"} => ~parked

ChallengeInv == BaseInv /\ Met /\ Parked

\* While a call is on the plugin's only object, nobody else parks or drops a challenge.
LEMMA ParkedHeld ==
  ASSUME BaseInv, entry = 1, NEW t \in Threads, Get(t) \/ UnloadLock(t) \/ InstallLock(t) \/ Step(t),
         NEW u \in Threads, u # t, at[u] \in InCall
  PROVE  UNCHANGED parked
<1>1. my[t].p = 1 /\ my[u].p = 1 /\ 1 \in Entries
  BY DEF BaseInv, Roles, Typed, Locals, Entries
<1>2. pmu[1] = u
  BY <1>1 DEF BaseInv, Locked, HoldsEntry, InCall
<1>3. at[t] \notin InCall
  BY <1>1, <1>2 DEF BaseInv, Locked, HoldsEntry, InCall
<1>4. u # Nobody
  OBVIOUS
<1>5. ~InvokeGone(t) /\ ~Invoke(t) /\ ~HostReturns(t) /\ ~CallReturns(t)
  BY <1>1, <1>2, <1>3, <1>4 DEF InvokeGone, Invoke, HostReturns, CallReturns, InCall
<1>6. CASE Get(t) \/ UnloadLock(t) \/ InstallLock(t) \/ Unload(t) \/ InstallSucceeds(t) \/ InstallFails(t)
  BY <1>6 DEF Get, UnloadLock, InstallLock, Unload, InstallSucceeds, InstallFails
<1>7. CASE ensureLoaded(t)
  BY <1>7 DEF ensureLoaded, EnsureLook, EnsureLoaded, EnsureLoad, InitCallsHost, InitHostReturns, LoadSucceeds,
              LoadFails
<1>8. CASE call(t)
  BY <1>5, <1>8 DEF call, ResolveJS, ResolvedJS, HostCall, invokeCtx, WasmDies, YaegiTimesOut
<1> QED BY <1>6, <1>7, <1>8 DEF Step

\* What one goroutine knows of its challenge, after a step of its own.
LEMMA MetMoves ==
  ASSUME ChallengeInv, NEW t \in Threads, Get(t) \/ UnloadLock(t) \/ InstallLock(t) \/ Step(t)
  PROVE  /\ my'[t].met => my'[t].hosted /\ at'[t] = "calling"
         /\ at'[t] \in {"rlock", "host"} => my'[t].hosted
<1> USE DEF Goto
<1>0. /\ Typed /\ at \in [Threads -> Places] /\ my[t] \in Locals
      /\ my[t].met => my[t].hosted /\ at[t] = "calling"
      /\ at[t] \in {"rlock", "host"} => my[t].hosted
  BY DEF ChallengeInv, BaseInv, Typed, Met
<1>1. CASE at'[t] = "done" /\ my'[t] = Fresh
  BY <1>1 DEF Fresh
<1>2. CASE at'[t] \notin {"calling", "rlock", "host", "done"} /\ at[t] # "calling" /\ my'[t].met = my[t].met
  BY <1>0, <1>2
<1>3. CASE Get(t) \/ UnloadLock(t) \/ InstallLock(t) \/ Unload(t)
  <2>1. at'[t] \in {"found", "unload", "installing"} /\ at[t] # "calling" /\ my'[t].met = my[t].met
    BY <1>0, <1>3 DEF Get, UnloadLock, InstallLock, Unload, Typed, Locals
  <2> QED BY <1>2, <2>1
<1>4. CASE InstallSucceeds(t) \/ InstallFails(t)
  BY <1>0, <1>1, <1>4 DEF InstallSucceeds, InstallFails, Return, Typed
<1>5. CASE ensureLoaded(t)
  <2>1. CASE EnsureLook(t) \/ EnsureLoad(t) \/ InitHostReturns(t) \/ InitCallsHost(t)
    <3>1. at'[t] \notin {"calling", "rlock", "host", "done"} /\ at[t] # "calling" /\ my'[t].met = my[t].met
      BY <1>0, <2>1 DEF EnsureLook, EnsureLoad, InitHostReturns, InitCallsHost, Typed, Locals
    <3> QED BY <1>2, <3>1
  <2>2. CASE LoadFails(t)
    BY <1>0, <1>1, <2>2 DEF LoadFails, Return, Typed
  <2>3. CASE EnsureLoaded(t) \/ LoadSucceeds(t)
    <3>1. AfterEnsure(t) /\ at[t] # "calling"
      BY <2>3 DEF EnsureLoaded, LoadSucceeds
    <3>2. CASE t \in Callers
      <4>1. at'[t] = "loaded" /\ my'[t].met = my[t].met
        BY <1>0, <3>1, <3>2 DEF AfterEnsure, Typed, Locals
      <4> QED BY <1>2, <3>1, <4>1
    <3>3. CASE t \notin Callers
      BY <1>0, <1>1, <3>1, <3>3 DEF AfterEnsure, Return, Typed
    <3> QED BY <3>2, <3>3
  <2> QED BY <1>5, <2>1, <2>2, <2>3 DEF ensureLoaded
<1>6. CASE ResolveJS(t) \/ ResolvedJS(t) \/ InvokeGone(t)
  <2>1. at[t] # "calling"
    BY <1>6 DEF ResolveJS, ResolvedJS, InvokeGone, AtInvoke
  <2>2. \/ at'[t] = "done" /\ my'[t] = Fresh
        \/ at'[t] \in {"resolving", "resolved"} /\ my' = my
    BY <1>0, <1>6 DEF ResolveJS, ResolvedJS, InvokeGone, Return, Typed
  <2> QED BY <1>1, <1>2, <2>1, <2>2
<1>7. CASE Invoke(t)
  <2>1. my' = my /\ at'[t] = "calling" /\ at[t] # "calling"
    BY <1>0, <1>7 DEF Invoke, AtInvoke, Typed
  <2> QED BY <1>0, <2>1
<1>8. CASE HostCall(t)
  <2>1. at[t] = "calling" /\ ~my[t].hosted /\ at'[t] \in {"rlock", "host"}
    BY <1>0, <1>8 DEF HostCall, Typed
  <2>2. my'[t].hosted
    BY <1>0, <1>8 DEF HostCall, Typed, Locals
  <2>3. my'[t].met <=> my[t].met
    BY <1>0, <1>8 DEF HostCall, Typed, Locals
  <2> QED BY <1>0, <2>1, <2>2, <2>3
<1>9. CASE invokeCtx(t)
  <2>1. at[t] = "rlock" /\ at'[t] = "host" /\ my'[t].hosted = my[t].hosted /\ my'[t].met = my[t].met
    BY <1>0, <1>9 DEF invokeCtx, Typed, Locals
  <2> QED BY <1>0, <2>1
<1>10. CASE HostReturns(t)
  <2>1. at[t] = "host" /\ at'[t] = "calling" /\ my'[t].hosted = my[t].hosted
    BY <1>0, <1>10 DEF HostReturns, Typed, Locals
  <2> QED BY <1>0, <2>1
<1>11. CASE CallReturns(t) \/ WasmDies(t) \/ YaegiTimesOut(t)
  BY <1>0, <1>1, <1>11 DEF CallReturns, WasmDies, YaegiTimesOut, Return, Typed
<1> QED BY <1>3, <1>4, <1>5, <1>6, <1>7, <1>8, <1>9, <1>10, <1>11 DEF Step, call

\* What is parked is right for the goroutine that moved.
LEMMA ParkedMoves ==
  ASSUME ChallengeInv, kind = "wasm", entry = 1,
         NEW t \in Threads, Get(t) \/ UnloadLock(t) \/ InstallLock(t) \/ Step(t)
  PROVE  /\ at'[t] = "calling" => (parked' <=> my'[t].met)
         /\ at'[t] \in {"rlock", "host"} => ~parked'
<1> USE DEF Goto
<1>0. /\ Typed /\ at \in [Threads -> Places] /\ my[t] \in Locals /\ my[t].met \in BOOLEAN
      /\ my[t].met => my[t].hosted /\ at[t] = "calling"
      /\ at[t] = "calling" => (parked <=> my[t].met)
      /\ at[t] \in {"rlock", "host"} => ~parked
  BY DEF ChallengeInv, BaseInv, Typed, Locals, Met, Parked
<1>1. CASE at'[t] \notin InCall
  BY <1>1 DEF InCall
<1>2. CASE Invoke(t)
  <2>1. ~parked' /\ my' = my /\ at'[t] = "calling" /\ at[t] # "calling"
    BY <1>0, <1>2 DEF Invoke, AtInvoke, Typed
  <2> QED BY <1>0, <2>1
<1>3. CASE HostCall(t)
  <2>1. at[t] = "calling" /\ ~my[t].hosted /\ at'[t] = "host" /\ UNCHANGED parked
    BY <1>0, <1>3 DEF HostCall, CallsBack, Typed
  <2> QED BY <1>0, <2>1
<1>4. CASE invokeCtx(t)
  <2>1. at[t] = "rlock" /\ at'[t] = "host" /\ UNCHANGED parked
    BY <1>0, <1>4 DEF invokeCtx, Typed
  <2> QED BY <1>0, <2>1
<1>5. CASE HostReturns(t)
  <2>1. at[t] = "host" /\ at'[t] = "calling"
    BY <1>0, <1>5 DEF HostReturns, Typed
  <2>2. PICK challenge \in BOOLEAN : my' = [my EXCEPT ![t].met = challenge]
                                     /\ parked' = (parked \/ (challenge /\ kind = "wasm"))
    BY <1>5 DEF HostReturns
  <2>3. my'[t].met <=> challenge
    BY <1>0, <2>2 DEF Typed, Locals
  <2>4. parked' <=> challenge
    BY <1>0, <2>1, <2>2
  <2> QED BY <2>1, <2>3, <2>4
<1>6. CASE ~(Invoke(t) \/ HostCall(t) \/ invokeCtx(t) \/ HostReturns(t))
  BY <1>1, <1>6, LeavesCall DEF ChallengeInv
<1> QED BY <1>2, <1>3, <1>4, <1>5, <1>6

LEMMA ChallengeStep ==
  ASSUME ChallengeInv, NEW t \in Threads, Get(t) \/ UnloadLock(t) \/ InstallLock(t) \/ Step(t)
  PROVE  Met' /\ Parked'
<1>0. Typed /\ UNCHANGED kind
  BY Steps, ReadsEffect DEF LoadSucceeds, Invoke, CallReturns, WasmDies, Unload, InstallSucceeds, world,
     ChallengeInv, BaseInv
<1>1. \A u \in Threads : u # t => at'[u] = at[u] /\ my'[u] = my[u]
  BY <1>0, MovesAlone DEF Alone
<1>2. Met'
  BY <1>1, MetMoves DEF ChallengeInv, Met
<1>3. ASSUME kind = "wasm", entry' = 1, NEW u \in Threads
      PROVE  /\ at'[u] = "calling" => (parked' <=> my'[u].met)
             /\ at'[u] \in {"rlock", "host"} => ~parked'
  <2>1. entry' = entry \/ entry' = entry + 1
    BY FloorRises DEF ChallengeInv, InstallSucceeds
  <2>0. entry \in Nat /\ entry >= 1
    BY <1>0 DEF Typed, Entries
  <2>2. entry = 1
    BY <1>3, <2>0, <2>1
  <2>3. CASE u = t
    BY <1>3, <2>2, <2>3, ParkedMoves
  <2>4. CASE u # t /\ at[u] \in InCall
    <3>1. UNCHANGED parked
      BY <2>2, <2>4, ParkedHeld DEF ChallengeInv
    <3> QED BY <1>1, <1>3, <2>2, <2>4, <3>1 DEF ChallengeInv, Parked
  <2>5. CASE u # t /\ at[u] \notin InCall
    BY <1>1, <2>5 DEF InCall
  <2> QED BY <2>3, <2>4, <2>5
<1>4. Parked'
  BY <1>0, <1>3 DEF Parked
<1> QED BY <1>2, <1>4

LEMMA ChallengeInit == Init => ChallengeInv
<1> SUFFICES ASSUME Init PROVE Met /\ Parked
  BY BaseInit DEF ChallengeInv
<1>1. \A t \in Threads : at[t] = "idle" /\ my[t] = Fresh
  BY DEF Init
<1> QED BY <1>1 DEF Met, Parked, Fresh

LEMMA ChallengeNext == ChallengeInv /\ [Next]_vars => ChallengeInv'
<1> SUFFICES ASSUME ChallengeInv, [Next]_vars PROVE Met' /\ Parked'
  BY BaseNext DEF ChallengeInv
<1>1. CASE EditFiles \/ Close \/ UNCHANGED vars
  <2>1. UNCHANGED <<kind, entry, parked, at, my>>
    BY <1>1 DEF EditFiles, Close, vars
  <2> QED BY <2>1 DEF ChallengeInv, Met, Parked
<1> QED BY <1>1, ChallengeStep DEF Next

\* Only the end of a call takes it from its runtime.
LEMMA CallEnds ==
  ASSUME BaseInv, NEW t \in Threads, Get(t) \/ UnloadLock(t) \/ InstallLock(t) \/ Step(t),
         at[t] = "calling", at'[t] = "done"
  PROVE  CallReturns(t) \/ WasmDies(t)
<1>0. at \in [Threads -> Places]
  BY DEF BaseInv, Typed
<1> USE DEF Goto
<1>1. ~(Get(t) \/ UnloadLock(t) \/ InstallLock(t) \/ Unload(t) \/ InstallSucceeds(t) \/ InstallFails(t))
  BY DEF Get, UnloadLock, InstallLock, Unload, InstallSucceeds, InstallFails
<1>2. ~ensureLoaded(t)
  BY DEF ensureLoaded, EnsureLook, EnsureLoaded, EnsureLoad, InitCallsHost, InitHostReturns, LoadSucceeds, LoadFails
<1>3. ~(ResolveJS(t) \/ ResolvedJS(t) \/ InvokeGone(t) \/ Invoke(t))
  BY DEF ResolveJS, ResolvedJS, InvokeGone, Invoke, AtInvoke
<1>4. ~(HostCall(t) \/ invokeCtx(t) \/ HostReturns(t) \/ YaegiTimesOut(t))
  BY <1>0 DEF HostCall, invokeCtx, HostReturns, YaegiTimesOut
<1> QED BY <1>1, <1>2, <1>3, <1>4 DEF Step, call

LEMMA ChallengeReported ==
  ASSUME ChallengeInv, Next, NEW t \in Callers, kind = "wasm", entry = 1,
         at[t] = "calling", at'[t] = "done"
  PROVE  /\ result'[t] = "challenge" => my[t].met
         /\ result'[t] = "data" => ~my[t].met
<1>0. Typed /\ t \in Threads
  BY DEF ChallengeInv, BaseInv, Threads
<1>1. PICK u \in Threads : Get(u) \/ UnloadLock(u) \/ InstallLock(u) \/ Step(u)
  BY DEF Next, EditFiles, Close
<1>2. u = t
  BY <1>0, <1>1, MovesAlone DEF Alone
<1>3. CASE CallReturns(t)
  <2>1. PICK r \in Outcomes(t) : Return(t, r)
    BY <1>3 DEF CallReturns
  <2>2. result'[t] = r
    BY <1>0, <2>1 DEF Return, Typed
  <2>3. parked <=> my[t].met
    BY <1>0 DEF ChallengeInv, Parked
  <2>4. r \in {IF parked THEN "challenge" ELSE "data", "error"}
    BY <2>1 DEF Outcomes
  <2> QED BY <2>2, <2>3, <2>4
<1>4. CASE WasmDies(t)
  BY <1>0, <1>4 DEF WasmDies, Return, Typed
<1> QED BY <1>1, <1>2, <1>3, <1>4, CallEnds DEF ChallengeInv

\* A wasm plugin's challenge is reported by the call that met it, and by no other,
\* as long as the plugin is not installed anew: what is parked under the plugin's
\* id belongs to the call that holds its mutex (wasm_call.go:26, 14).
THEOREM ChallengesAreOwn == Spec => ChallengeOwn
<1>1. ChallengeInv /\ [Next]_vars =>
        [\A t \in Callers :
           kind = "wasm" /\ entry = 1 /\ at[t] = "calling" /\ at'[t] = "done" =>
             /\ result'[t] = "challenge" => my[t].met
             /\ result'[t] = "data" => ~my[t].met]_vars
  BY ChallengeReported
<1> QED BY ChallengeInit, ChallengeNext, <1>1, PTL DEF Spec, ChallengeOwn
-----------------------------------------------------------------------------
(* Runtimes that are gone, and names that are taken.                         *)

\* Operations end once, and report when they end; only a reload unloads,
\* only callJS evaluates before it holds the lock, and only natives that go back
\* to the registry wait for m.mu inside a host call.
Ended ==
  \A t \in Threads :
    /\ result[t] # "none" => at[t] = "done"
    /\ at[t] = "unload" => t \in Reloaders
    /\ at[t] \in {"resolving", "resolved"} => kind = "js"
    /\ at[t] \in {"rlock", "loadingHost", "installingHost"} => CallsBack

LEMMA EndsOnce ==
  ASSUME BaseInv, NEW t \in Threads, Get(t) \/ UnloadLock(t) \/ InstallLock(t) \/ Step(t)
  PROVE  /\ at[t] # "done"
         /\ \A u \in Threads : u # t => result'[u] = result[u]
         /\ result'[t] = result[t] \/ at'[t] = "done"
         /\ at'[t] = "unload" => t \in Reloaders
         /\ at'[t] \in {"resolving", "resolved"} => kind = "js" \/ at[t] = "resolving"
         /\ at'[t] \in {"rlock", "loadingHost", "installingHost"} => CallsBack
         /\ kind' = kind
<1> USE DEF BaseInv, Typed, Goto, Return, world
<1>1. CASE Get(t) \/ UnloadLock(t) \/ InstallLock(t)
  BY <1>1 DEF Get, UnloadLock, InstallLock
<1>2. CASE ensureLoaded(t)
  BY <1>2 DEF ensureLoaded, EnsureLook, EnsureLoaded, EnsureLoad, InitCallsHost, InitHostReturns, LoadSucceeds,
              LoadFails, AfterEnsure
<1>3. CASE ResolveJS(t) \/ ResolvedJS(t) \/ InvokeGone(t) \/ Invoke(t) \/ HostCall(t) \/ invokeCtx(t)
  BY <1>3 DEF ResolveJS, ResolvedJS, InvokeGone, Invoke, AtInvoke, HostCall, invokeCtx
<1>4. CASE HostReturns(t) \/ CallReturns(t) \/ WasmDies(t) \/ YaegiTimesOut(t)
  BY <1>4 DEF HostReturns, CallReturns, WasmDies, YaegiTimesOut
<1>5. CASE Unload(t) \/ InstallSucceeds(t) \/ InstallFails(t)
  BY <1>5 DEF Unload, InstallSucceeds, InstallFails
<1> QED BY <1>1, <1>2, <1>3, <1>4, <1>5 DEF Step, call

LEMMA EndedStep ==
  ASSUME BaseInv, Ended, NEW t \in Threads, Get(t) \/ UnloadLock(t) \/ InstallLock(t) \/ Step(t)
  PROVE  Ended'
BY EndsOnce, MovesAlone DEF Ended, Alone, BaseInv, CallsBack

\* What is over stays over: reloads, and calls.
LEMMA ReasonsStay ==
  ASSUME BaseInv, NEW t \in Threads, Get(t) \/ UnloadLock(t) \/ InstallLock(t) \/ Step(t)
  PROVE  /\ Reloaded => Reloaded'
         /\ \A u \in Threads : at[u] = "done" => at'[u] = "done"
<1>1. Alone(t) /\ Typed
  BY MovesAlone DEF BaseInv
<1>2. at[t] # "done"
  BY EndsOnce
<1>3. at[t] \in {"found", "ensure", "loading", "loadingHost"} /\ t \notin Callers =>
        at'[t] \in {"found", "ensure", "loading", "loadingHost", "done"}
  <2> USE DEF Typed, Goto, Return, world
  <2>1. CASE EnsureLook(t) \/ EnsureLoad(t) \/ InitCallsHost(t) \/ InitHostReturns(t) \/ LoadFails(t)
    BY <1>1, <2>1 DEF EnsureLook, EnsureLoad, InitCallsHost, InitHostReturns, LoadFails
  <2>2. CASE EnsureLoaded(t) \/ LoadSucceeds(t)
    BY <1>1, <2>2 DEF EnsureLoaded, LoadSucceeds, AfterEnsure
  <2>3. CASE Get(t) \/ UnloadLock(t) \/ InstallLock(t) \/ Unload(t) \/ InstallSucceeds(t) \/ InstallFails(t)
    BY <2>3 DEF Get, UnloadLock, InstallLock, Unload, InstallSucceeds, InstallFails
  <2>4. CASE call(t)
    BY <2>4 DEF call, ResolveJS, ResolvedJS, InvokeGone, Invoke, AtInvoke, HostCall, invokeCtx, HostReturns,
                CallReturns, WasmDies, YaegiTimesOut
  <2> QED BY <2>1, <2>2, <2>3, <2>4 DEF Step, ensureLoaded
<1>4. Reloaded => Reloaded'
  <2> SUFFICES ASSUME Reloaded PROVE Reloaded'
    OBVIOUS
  <2>1. PICK u \in Reloaders : at[u] \in {"found", "ensure", "loading", "loadingHost", "done"}
    BY DEF Reloaded
  <2>2. u \in Threads /\ u \notin Callers
    BY DEF Threads
  <2>3. at'[u] \in {"found", "ensure", "loading", "loadingHost", "done"}
    BY <1>1, <1>2, <1>3, <2>1, <2>2 DEF Alone
  <2> QED BY <2>3 DEF Reloaded
<1> QED BY <1>1, <1>2, <1>4 DEF Alone
\* A runtime expires at the end of a call.
Expired == \A e \in Entries : plugin[e].runtime = "expired" => \E u \in Callers : at[u] = "done"

GoneInv == RuntimeInv /\ Ended /\ Expired /\ GoneForAReason

\* A call that is bound was so before, or has just found its object loaded.
LEMMA IntoBound ==
  ASSUME BaseInv, NEW t \in Threads, Get(t) \/ UnloadLock(t) \/ InstallLock(t) \/ Step(t), Bound(t)'
  PROVE  /\ my'[t].p = my[t].p /\ my'[t].q = my[t].q
         /\ \/ Bound(t) /\ UNCHANGED plugin
            \/ EnsureLoaded(t) \/ LoadSucceeds(t)
<1> USE DEF BaseInv, Typed, Goto, Return, Bound, world
<1>1. CASE ResolveJS(t) \/ ResolvedJS(t)
  BY <1>1 DEF ResolveJS, ResolvedJS
<1>2. CASE EnsureLoaded(t) \/ LoadSucceeds(t)
  <2>1. my' = [my EXCEPT ![t].hosted = FALSE]
    BY <1>2 DEF EnsureLoaded, LoadSucceeds, AfterEnsure
  <2> QED BY <1>2, <2>1 DEF Locals
<1>3. CASE Get(t) \/ UnloadLock(t) \/ InstallLock(t) \/ Unload(t) \/ InstallSucceeds(t) \/ InstallFails(t)
  BY <1>3 DEF Get, UnloadLock, InstallLock, Unload, InstallSucceeds, InstallFails
<1>4. CASE EnsureLook(t) \/ EnsureLoad(t) \/ InitCallsHost(t) \/ InitHostReturns(t) \/ LoadFails(t)
  BY <1>4 DEF EnsureLook, EnsureLoad, InitCallsHost, InitHostReturns, LoadFails
<1>5. CASE InvokeGone(t) \/ Invoke(t) \/ HostCall(t) \/ invokeCtx(t) \/ HostReturns(t) \/ CallReturns(t)
           \/ WasmDies(t) \/ YaegiTimesOut(t)
  BY <1>5 DEF InvokeGone, Invoke, HostCall, invokeCtx, HostReturns, CallReturns, WasmDies, YaegiTimesOut
<1> QED BY <1>1, <1>2, <1>3, <1>4, <1>5 DEF Step, ensureLoaded, call

\* A runtime goes by a reload or at the end of a call on a wasm module.
LEMMA RuntimesGo ==
  ASSUME BaseInv, Ended, NEW t \in Threads, Get(t) \/ UnloadLock(t) \/ InstallLock(t) \/ Step(t),
         NEW e \in Entries, plugin'[e].runtime # plugin[e].runtime
  PROVE  \/ plugin'[e].runtime = "live"
         \/ plugin'[e].runtime = "none" /\ Reloaded'
         \/ plugin'[e].runtime \in {"none", "expired"} /\ kind = "wasm" /\ t \in Callers /\ at'[t] = "done"
<1>0. Typed /\ my[t].p \in Entries /\ my[t].q \in Entries
  BY DEF BaseInv, Typed, Locals
<1>1. CASE Reads(t)
  BY <1>1, ReadsEffect
<1>2. CASE LoadSucceeds(t)
  BY <1>0, <1>2, LoadEffect DEF Only
<1>3. CASE Invoke(t)
  BY <1>0, <1>3, InvokeEffect DEF Only
<1>4. CASE CallReturns(t) \/ WasmDies(t)
  <2>1. at[t] \in {"calling", "host"} /\ at'[t] = "done"
    BY <1>0, <1>4 DEF CallReturns, WasmDies, Return, Goto, Typed
  <2>2. t \in Callers
    BY <2>1 DEF BaseInv, Roles
  <2>3. CASE CallReturns(t)
    BY <1>0, <2>1, <2>2, <2>3, CallReturnsEffect DEF Only
  <2>4. CASE WasmDies(t)
    <3>1. kind = "wasm"
      BY <2>4 DEF WasmDies
    <3> QED BY <1>0, <2>1, <2>2, <2>4, <3>1, WasmDiesEffect DEF Only
  <2> QED BY <1>4, <2>3, <2>4
<1>5. CASE Unload(t)
  <2>1. at[t] = "unload" /\ at'[t] = "found"
    BY <1>0, <1>5 DEF Unload, Goto, Typed
  <2>2. Reloaded'
    BY <2>1 DEF Ended, Reloaded
  <2> QED BY <1>0, <1>5, <2>2, UnloadEffect DEF Only
<1>6. CASE InstallSucceeds(t)
  <2>1. entry + 1 \in Entries
    BY <1>0, <1>6 DEF InstallSucceeds, BaseInv, Room, Installing, Typed, Entries
  <2> QED BY <1>0, <1>6, <2>1, InstallEffect DEF Only
<1> QED BY <1>1, <1>2, <1>3, <1>4, <1>5, <1>6, Steps

LEMMA ExpiredStep ==
  ASSUME GoneInv, NEW t \in Threads, Get(t) \/ UnloadLock(t) \/ InstallLock(t) \/ Step(t)
  PROVE  Expired'
<1> SUFFICES ASSUME NEW e \in Entries, plugin'[e].runtime = "expired" PROVE \E u \in Callers : at'[u] = "done"
  BY DEF Expired
<1>1. CASE plugin[e].runtime = "expired"
  BY <1>1, ReasonsStay DEF GoneInv, RuntimeInv, Expired, Threads
<1>2. CASE plugin[e].runtime # "expired"
  BY <1>2, RuntimesGo DEF GoneInv, RuntimeInv
<1> QED BY <1>1, <1>2

LEMMA GoneStep ==
  ASSUME GoneInv, NEW t \in Threads, Get(t) \/ UnloadLock(t) \/ InstallLock(t) \/ Step(t)
  PROVE  GoneForAReason'
<1>0. /\ BaseInv /\ Runtimes /\ Ended /\ Expired /\ Typed /\ Alone(t)
      /\ UNCHANGED <<kind, closed>> /\ (entry # 1 => entry' # 1)
  <2>1. BaseInv /\ Runtimes /\ Ended /\ Expired /\ Typed
    BY DEF GoneInv, RuntimeInv, BaseInv
  <2>2. UNCHANGED <<kind, closed>>
    BY Steps, ReadsEffect DEF LoadSucceeds, Invoke, CallReturns, WasmDies, Unload, InstallSucceeds, world
  <2>3. entry' = entry \/ entry' = entry + 1
    BY Steps, ReadsEffect DEF LoadSucceeds, Invoke, CallReturns, WasmDies, Unload, InstallSucceeds, world
  <2>4. entry \in Nat /\ entry >= 1
    BY <2>1 DEF Typed, Entries
  <2> QED BY <2>1, <2>2, <2>3, <2>4, MovesAlone
<1>1. ASSUME NEW u \in Callers, Bound(u)', Gone(my[u].p)'
      PROVE  closed' \/ Reloaded' \/ my'[u].p # my'[u].q \/ (kind' = "wasm" /\ \E v \in Callers : at'[v] = "done")
  <2>0. u \in Threads /\ my[u].p \in Entries /\ my[u].q \in Entries
    BY <1>0 DEF Threads, Typed, Locals
  <2>1. my'[u].p = my[u].p /\ my'[u].q = my[u].q
    BY <1>0, <1>1, <2>0, IntoBound DEF Alone
  <2>2. Gone(my[u].p)' <=> \/ plugin'[my[u].p].runtime = "none"
                           \/ kind = "wasm" /\ plugin'[my[u].p].runtime # "live"
    BY <1>0, <2>1 DEF Gone
  <2>3. CASE Bound(u) /\ Gone(my[u].p)
    BY <1>0, <2>0, <2>1, <2>3, ReasonsStay DEF GoneInv, GoneForAReason, Threads
  <2>4. CASE ~Gone(my[u].p)
    <3>1. plugin'[my[u].p].runtime # plugin[my[u].p].runtime
      BY <1>1, <2>2, <2>4 DEF Gone
    <3> QED BY <1>0, <1>1, <2>0, <2>2, <3>1, RuntimesGo
  <2>5. CASE ~Bound(u) /\ Gone(my[u].p)
    <3>1. u = t /\ (EnsureLoaded(t) \/ LoadSucceeds(t))
      BY <1>0, <1>1, <2>0, <2>5, IntoBound DEF Alone, Bound
    <3>2. CASE my[u].p # my[u].q
      BY <2>1, <3>2
    <3>3. CASE my[u].p = my[u].q /\ LoadSucceeds(t)
      BY <1>0, <1>1, <2>0, <2>2, <3>1, <3>3, LoadEffect
    <3>4. CASE my[u].p = my[u].q /\ EnsureLoaded(t)
      <4>1. plugin[my[u].p].loaded
        BY <3>1, <3>4 DEF EnsureLoaded
      <4>2. closed \/ plugin[my[u].p].runtime \notin {"closed", "none"}
        BY <2>0, <4>1, <1>0 DEF Runtimes
      <4>3. closed \/ plugin[my[u].p].runtime = "expired"
        BY <2>0, <2>5, <4>2, <1>0 DEF Gone, Typed, Objects
      <4>4. CASE plugin[my[u].p].runtime = "expired"
        <5>1. kind = "wasm"
          BY <1>0, <2>0, <4>4 DEF Runtimes
        <5>2. \E v \in Callers : at'[v] = "done"
          BY <1>0, <2>0, <4>4, ReasonsStay DEF Expired, Threads
        <5> QED BY <1>0, <5>1, <5>2
      <4> QED BY <1>0, <4>3, <4>4
    <3> QED BY <3>1, <3>2, <3>3, <3>4
  <2> QED BY <2>3, <2>4, <2>5
<1>2. ASSUME NEW u \in Callers, result'[u] = "panic"
      PROVE  kind' \in {"lua", "js"} /\ (closed' \/ Reloaded' \/ entry' # 1)
  <2>0. u \in Threads
    BY DEF Threads
  <2>1. CASE result[u] = "panic"
    BY <1>0, <2>0, <2>1, ReasonsStay DEF GoneInv, GoneForAReason
  <2>2. CASE result[u] # "panic"
    <3>1. u = t
      BY <1>2, <2>0, <2>2, EndsOnce, <1>0
    <3>2. (ResolveJS(t) \/ ResolvedJS(t) \/ (InvokeGone(t) /\ ~ChecksNil)) /\ Gone(my[t].p)
      <4>1. CASE ResolveJS(t) \/ ResolvedJS(t)
        BY <1>0, <1>2, <2>2, <3>1, <4>1 DEF ResolveJS, ResolvedJS, Return, Gone, Typed
      <4>2. CASE InvokeGone(t)
        BY <1>0, <1>2, <2>2, <3>1, <4>2 DEF InvokeGone, Return, Typed
      <4>3. CASE ensureLoaded(t)
        BY <1>0, <1>2, <2>2, <3>1, <4>3 DEF ensureLoaded, EnsureLook, EnsureLoaded, EnsureLoad, InitCallsHost,
           InitHostReturns, LoadSucceeds, LoadFails, AfterEnsure, Return, Typed
      <4>4. CASE Invoke(t) \/ HostCall(t) \/ invokeCtx(t) \/ HostReturns(t) \/ WasmDies(t) \/ YaegiTimesOut(t)
        BY <1>0, <1>2, <2>2, <3>1, <4>4 DEF Invoke, HostCall, invokeCtx, HostReturns, WasmDies, YaegiTimesOut,
           Return, Typed
      <4>5. CASE CallReturns(t)
        <5>1. PICK r \in Outcomes(t) : Return(t, r)
          BY <4>5 DEF CallReturns
        <5>2. r # "panic"
          BY <5>1 DEF Outcomes
        <5> QED BY <1>0, <1>2, <2>2, <3>1, <5>1, <5>2 DEF Return, Typed
      <4>6. CASE Get(t) \/ UnloadLock(t) \/ InstallLock(t) \/ Unload(t) \/ InstallSucceeds(t) \/ InstallFails(t)
        BY <1>0, <1>2, <2>2, <3>1, <4>6 DEF Get, UnloadLock, InstallLock, Unload, InstallSucceeds, InstallFails,
           Return, Typed
      <4> QED BY <4>1, <4>2, <4>3, <4>4, <4>5, <4>6 DEF Step, call
    <3>3. kind \in {"lua", "js"}
      BY <1>0, <3>2 DEF ResolveJS, ResolvedJS, Ended, ChecksNil, Typed
    <3>4. Bound(t)
      BY <3>1, <3>2 DEF ResolveJS, ResolvedJS, InvokeGone, AtInvoke, Bound
    <3>5. closed \/ Reloaded \/ my[t].p # my[t].q
      BY <3>1, <3>2, <3>3, <3>4 DEF GoneInv, GoneForAReason
    <3>6. my[t].p # my[t].q => entry # 1
      BY <1>0 DEF BaseInv, Roles, Typed, Locals, Entries
    <3> QED BY <1>0, <3>3, <3>5, <3>6, ReasonsStay
  <2> QED BY <2>1, <2>2
<1> QED BY <1>1, <1>2 DEF GoneForAReason

LEMMA GoneInit == Init => GoneInv
BY RuntimeInit DEF Init, GoneInv, Ended, Expired, GoneForAReason, Registered, Bound, Threads

LEMMA GoneNext == GoneInv /\ [Next]_vars => GoneInv'
<1> SUFFICES ASSUME GoneInv, [Next]_vars PROVE GoneInv'
  OBVIOUS
<1>1. RuntimeInv'
  BY RuntimeNext DEF GoneInv
<1>2. CASE EditFiles \/ UNCHANGED vars
  BY <1>1, <1>2 DEF EditFiles, vars, GoneInv, Ended, CallsBack, Expired, GoneForAReason, Bound, Gone, Reloaded
<1>3. CASE Close
  <2>1. Ended' /\ Expired'
    BY <1>3, CloseEffect DEF Close, GoneInv, RuntimeInv, BaseInv, Ended, CallsBack, Expired
  <2>2. GoneForAReason'
    BY <1>3 DEF Close, GoneInv, GoneForAReason
  <2> QED BY <1>1, <2>1, <2>2 DEF GoneInv
<1>4. CASE \E t \in Threads : Get(t) \/ UnloadLock(t) \/ InstallLock(t) \/ Step(t)
  <2>1. PICK t \in Threads : Get(t) \/ UnloadLock(t) \/ InstallLock(t) \/ Step(t)
    BY <1>4
  <2>2. Ended'
    BY <2>1, EndedStep DEF GoneInv, RuntimeInv
  <2> QED BY <1>1, <2>1, <2>2, ExpiredStep, GoneStep DEF GoneInv
<1> QED BY <1>2, <1>3, <1>4 DEF Next

\* A call that has found its plugin loaded and then finds its runtime gone has
\* met a shutdown, a reload, a reinstall or the end of another call on a wasm
\* module; only then do callLua and callJS panic (api.go:25). For every number
\* of callers, reloads, installs and objects.
THEOREM RuntimesGoForAReason == Spec => []GoneForAReason
<1>1. GoneInv => GoneForAReason
  BY DEF GoneInv
<1> QED BY GoneInit, GoneNext, <1>1, PTL DEF Spec

Live(e) == plugin[e].runtime = "live"

Complains == \E t \in Threads : result[t] = "error"

LEMMA ComplaintsStay ==
  ASSUME BaseInv, Ended, NEW t \in Threads, Get(t) \/ UnloadLock(t) \/ InstallLock(t) \/ Step(t), Complains
  PROVE  Complains'
<1>1. PICK u \in Threads : result[u] = "error"
  BY DEF Complains
<1>2. u # t
  BY <1>1, EndsOnce DEF Ended
<1>3. result'[u] = "error"
  BY <1>1, <1>2, EndsOnce
<1> QED BY <1>3 DEF Complains

\* A step that closes or makes no module, and takes a name only with an error.
LEMMA NamesKept ==
  ASSUME NamesFollowModules, ~closed, kind = "wasm", UNCHANGED <<closed, kind>>,
         \A e \in Entries : Live(e)' <=> Live(e), Complains => Complains',
         (name' <=> name) \/ (name' /\ Complains')
  PROVE  NamesFollowModules'
<1>1. ASSUME NEW e \in Entries, Live(e)' PROVE name'
  BY <1>1, Zenon DEF NamesFollowModules, Live
<1>2. ASSUME NEW d \in Entries, NEW e \in Entries, Live(d)', Live(e)' PROVE d = e
  BY <1>2, Zenon DEF NamesFollowModules, Live
<1>3. ASSUME name' PROVE (\E e \in Entries : Live(e)') \/ Complains'
  BY <1>3, Zenon DEF NamesFollowModules, Live, Complains
<1> QED BY <1>1, <1>2, <1>3, Zenon DEF NamesFollowModules, Live, Complains

\* A module is made under a free name.
LEMMA NamesTaken ==
  ASSUME NamesFollowModules, ~closed, kind = "wasm", ~name, NEW e \in Entries, Only(e), plugin'[e].runtime = "live", name'
  PROVE  NamesFollowModules'
<1>1. \A d \in Entries : plugin[d].runtime # "live"
  BY DEF NamesFollowModules
<1>2. \A d \in Entries : d # e => plugin'[d].runtime # "live"
  BY <1>1 DEF Only
<1> QED BY <1>2 DEF NamesFollowModules

\* The one live module goes: with its name, or with an error.
LEMMA NamesLeft ==
  ASSUME NamesFollowModules, ~closed, kind = "wasm", NEW e \in Entries, Only(e), plugin[e].runtime = "live",
         plugin'[e].runtime # "live", ~name' \/ Complains'
  PROVE  NamesFollowModules'
<1>1. \A d \in Entries : d # e => plugin[d].runtime # "live"
  BY DEF NamesFollowModules
<1>2. \A d \in Entries : plugin'[d].runtime # "live"
  BY <1>1 DEF Only
<1> QED BY <1>2 DEF NamesFollowModules, Complains

LEMMA NamesStep ==
  ASSUME RuntimeInv, Ended, NamesFollowModules, NEW t \in Threads,
         Get(t) \/ UnloadLock(t) \/ InstallLock(t) \/ Step(t)
  PROVE  NamesFollowModules'
<1>0. /\ BaseInv /\ Runtimes /\ Typed /\ Alone(t) /\ my[t].p \in Entries /\ my[t].q \in Entries
      /\ UNCHANGED <<kind, closed>>
  <2>1. BaseInv /\ Runtimes /\ Typed
    BY DEF RuntimeInv, BaseInv
  <2>2. my[t].p \in Entries /\ my[t].q \in Entries
    BY <2>1 DEF Typed, Locals
  <2>3. UNCHANGED <<kind, closed>>
    BY Steps, ReadsEffect DEF LoadSucceeds, Invoke, CallReturns, WasmDies, Unload, InstallSucceeds, world
  <2> QED BY <2>1, <2>2, <2>3, MovesAlone
<1> SUFFICES ASSUME ~closed, kind = "wasm" PROVE NamesFollowModules'
  BY <1>0 DEF NamesFollowModules
<1>1. Complains => Complains'
  BY <1>0, ComplaintsStay
<1>2. CASE Reads(t)
  <2>1. \A e \in Entries : Live(e)' <=> Live(e)
    BY <1>2, ReadsEffect DEF Live
  <2>2. CASE LoadFails(t) \/ InstallFails(t)
    <3>1. name => name'
      BY <1>0, <2>2 DEF LoadFails, InstallFails, Return, Typed
    <3>2. result'[t] = "error"
      BY <1>0, <2>2 DEF LoadFails, InstallFails, Return, Typed
    <3> QED BY <1>0, <1>1, <2>1, <3>1, <3>2, NamesKept DEF Complains
  <2>3. CASE ~(LoadFails(t) \/ InstallFails(t))
    <3>1. name' = name
      BY <1>2, <2>3 DEF Reads, Get, EnsureLook, EnsureLoaded, EnsureLoad, InitCallsHost, InitHostReturns, ResolveJS,
           ResolvedJS, InvokeGone, HostCall, invokeCtx, HostReturns, YaegiTimesOut, UnloadLock, InstallLock
    <3> QED BY <1>0, <1>1, <2>1, <3>1, NamesKept
  <2> QED BY <2>2, <2>3
<1>3. CASE LoadSucceeds(t)
  <2>1. ~name /\ name'
    BY <1>3 DEF LoadSucceeds, NameFree
  <2>2. PICK e \in Entries : e = my[t].q
    BY <1>0
  <2>3. Only(e) /\ plugin'[e].runtime = "live"
    BY <1>0, <1>3, <2>2, LoadEffect
  <2> QED BY <2>1, <2>3, NamesTaken
<1>4. CASE Invoke(t)
  <2>1. \A e \in Entries : Live(e)' <=> Live(e)
    BY <1>0, <1>4, InvokeEffect DEF Only, Live
  <2>2. name' = name
    BY <1>4 DEF Invoke
  <2> QED BY <1>0, <1>1, <2>1, <2>2, NamesKept
<1>5. CASE CallReturns(t)
  <2>1. PICK e \in Entries : e = my[t].p
    BY <1>0
  <2>2. plugin[e].runtime = "live"
    BY <1>0, <1>5, <2>1 DEF CallReturns, Runtimes, InCall
  <2>3. PICK late \in {FALSE, kind = "wasm" /\ plugin[e].runtime = "live"} :
          /\ plugin' = [plugin EXCEPT ![e].curCtx = Nobody, ![e].runtime = IF late THEN "expired" ELSE @]
          /\ name' = (name /\ ~late)
    BY <1>5, <2>1 DEF CallReturns
  <2>4. Only(e)
    BY <1>0, <1>5, <2>1, CallReturnsEffect
  <2>5. CASE late
    <3>1. plugin'[e].runtime # "live" /\ ~name'
      BY <1>0, <2>3, <2>5 DEF Typed, Objects
    <3> QED BY <2>2, <2>4, <3>1, NamesLeft
  <2>6. CASE ~late
    <3>1. plugin'[e].runtime = "live" /\ (name' <=> name)
      BY <1>0, <2>2, <2>3, <2>6 DEF Typed, Objects
    <3>2. \A d \in Entries : Live(d)' <=> Live(d)
      BY <2>2, <2>4, <3>1 DEF Live, Only
    <3> QED BY <1>0, <1>1, <3>1, <3>2, NamesKept
  <2> QED BY <2>5, <2>6
<1>6. CASE WasmDies(t)
  <2>1. PICK e \in Entries : e = my[t].p
    BY <1>0
  <2>2. plugin[e].runtime = "live"
    BY <1>0, <1>6, <2>1 DEF WasmDies, Runtimes, InCall
  <2>3. Only(e) /\ plugin'[e].runtime = "none"
    BY <1>0, <1>6, <2>1, WasmDiesEffect
  <2>4. result'[t] = "error"
    BY <1>0, <1>6 DEF WasmDies, Return, Typed
  <2> QED BY <2>2, <2>3, <2>4, NamesLeft DEF Complains
<1>7. CASE Unload(t)
  <2>1. PICK e \in Entries : e = my[t].p
    BY <1>0
  <2>2. /\ Only(e)
        /\ plugin[e].loaded => ~plugin'[e].loaded /\ plugin'[e].runtime = "none"
        /\ ~plugin[e].loaded => plugin'[e] = plugin[e]
    BY <1>0, <1>7, <2>1, UnloadEffect
  <2>3. name' = (name /\ ~(plugin[e].loaded /\ plugin[e].runtime = "live"))
    BY <1>7, <2>1 DEF Unload
  <2>4. CASE plugin[e].loaded /\ plugin[e].runtime = "live"
    <3>1. ~name'
      BY <2>3, <2>4
    <3> QED BY <2>2, <2>4, <3>1, NamesLeft
  <2>5. CASE ~(plugin[e].loaded /\ plugin[e].runtime = "live")
    <3>1. name' <=> name
      BY <2>3, <2>5
    <3>2. \A d \in Entries : Live(d)' <=> Live(d)
      BY <2>2, <2>5 DEF Only, Live
    <3> QED BY <1>0, <1>1, <3>1, <3>2, NamesKept
  <2> QED BY <2>4, <2>5
<1>8. CASE InstallSucceeds(t)
  <2>0. entry + 1 \in Entries
    BY <1>0, <1>8 DEF InstallSucceeds, BaseInv, Room, Installing, Typed, Entries
  <2>1. ~name /\ name'
    BY <1>8 DEF InstallSucceeds, NameFree
  <2>2. PICK e \in Entries : e = entry + 1
    BY <2>0
  <2>3. Only(e) /\ plugin'[e].runtime = "live"
    BY <1>0, <1>8, <2>2, InstallEffect
  <2> QED BY <2>1, <2>3, NamesTaken
<1> QED BY <1>2, <1>3, <1>4, <1>5, <1>6, <1>7, <1>8, Steps

NamesInv == GoneInv /\ NamesFollowModules

\* The wasm runtime has at most one live module of a plugin, under its name, and
\* a name without a live module comes with a reported error (wasm.go:70,
\* wasm_call.go:49), for every number of callers, reloads, installs and objects.
THEOREM NamesFollow == Spec => []NamesFollowModules
<1>1. Init => NamesInv
  BY GoneInit DEF Init, NamesInv, NamesFollowModules, Registered
<1>2. NamesInv /\ [Next]_vars => NamesInv'
  <2> SUFFICES ASSUME NamesInv, [Next]_vars PROVE NamesInv'
    OBVIOUS
  <2>1. GoneInv'
    BY GoneNext DEF NamesInv
  <2>2. CASE EditFiles \/ UNCHANGED vars
    BY <2>1, <2>2 DEF EditFiles, vars, NamesInv, NamesFollowModules
  <2>3. CASE Close
    BY <2>1, <2>3 DEF Close, NamesInv, NamesFollowModules
  <2>4. CASE \E t \in Threads : Get(t) \/ UnloadLock(t) \/ InstallLock(t) \/ Step(t)
    BY <2>1, <2>4, NamesStep DEF NamesInv, GoneInv
  <2> QED BY <2>2, <2>3, <2>4 DEF Next
<1>3. NamesInv => NamesFollowModules
  BY DEF NamesInv
<1> QED BY <1>1, <1>2, <1>3, PTL DEF Spec

-----------------------------------------------------------------------------
(* Deadlocks.                                                                *)

\* Who holds a plugin's lock waits for m.mu, if for anything.
AtManager(t, e) ==
  \/ at[t] = "rlock" /\ my[t].p = e
  \/ at[t] = "loadingHost" /\ my[t].q = e

LEMMA HolderMoves ==
  ASSUME BaseInv, NEW e \in Entries, pmu[e] # Nobody
  PROVE  \E u \in Threads : Moves(u) \/ (mu # Nobody /\ AtManager(u, e))
<1>1. PICK u \in Threads : pmu[e] = u
  BY DEF BaseInv, Locked
<1>2. HoldsEntry(u, e)
  BY <1>1 DEF BaseInv, Locked
<1>3. CASE at[u] \in {"loading", "calling", "host"}
  BY <1>3 DEF Moves
<1>4. CASE at[u] \in {"loadingHost", "rlock"} /\ mu = Nobody
  BY <1>4 DEF Moves
<1>5. CASE at[u] \in {"loadingHost", "rlock"} /\ mu # Nobody
  BY <1>2, <1>5 DEF HoldsEntry, AtManager
<1> QED BY <1>2, <1>3, <1>4, <1>5 DEF HoldsEntry

LEMMA SomebodyMoves ==
  ASSUME BaseInv, Ended, LockOrder, NEW t \in Threads, at[t] \notin {"idle", "done"}
  PROVE  \E u \in Threads : Moves(u)
<1>0. my[t].p \in Entries /\ my[t].q \in Entries /\ at[t] \in Places
  BY DEF BaseInv, Typed, Locals
<1>1. CASE mu = Nobody
  <2>1. \A e \in Entries : pmu[e] # Nobody => \E u \in Threads : Moves(u)
    BY <1>1, HolderMoves
  <2>2. Moves(t) \/ pmu[my[t].p] # Nobody \/ pmu[my[t].q] # Nobody
    BY <1>0, <1>1 DEF Places, Moves
  <2> QED BY <1>0, <2>1, <2>2
<1>2. CASE mu # Nobody
  <2>1. PICK u \in Threads : HoldsManager(u)
    BY <1>2 DEF BaseInv, Locked
  <2>2. CASE at[u] = "installing"
    BY <2>2 DEF Moves
  <2>3. CASE at[u] = "unload"
    <3>1. PICK e \in Entries : e = my[u].p
      BY DEF BaseInv, Typed, Locals
    <3>2. CASE pmu[e] = Nobody
      BY <2>3, <3>1, <3>2 DEF Moves
    <3>3. CASE pmu[e] # Nobody
      BY <2>3, <3>1, <3>3, HolderMoves DEF LockOrder, AtManager
    <3> QED BY <3>2, <3>3
  <2>4. at[u] # "installingHost"
    BY DEF LockOrder
  <2> QED BY <2>1, <2>2, <2>3, <2>4 DEF HoldsManager
<1> QED BY <1>1, <1>2

\* Calls, loads, reloads and installs can stand still only by the inversion of
\* m.mu and p.mu (manager.go:104-107, 128), which natives that never look up the
\* registry cannot cause: the safety half of EveryOperationEnds, for every number
\* of callers, reloads, installs and objects.
THEOREM DeadlocksAreInversions == Spec => []OnlyInversionsStall
<1>1. GoneInv => OnlyInversionsStall
  <2> SUFFICES ASSUME GoneInv PROVE OnlyInversionsStall
    OBVIOUS
  <2>1. BaseInv /\ Ended
    BY DEF GoneInv, RuntimeInv
  <2>2. ~LockOrder => CallsBack
    BY <2>1 DEF LockOrder, Ended
  <2> QED BY <2>1, <2>2, SomebodyMoves DEF OnlyInversionsStall
<1> QED BY GoneInit, GoneNext, <1>1, PTL DEF Spec

=============================================================================
