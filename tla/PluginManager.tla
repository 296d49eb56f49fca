---------------------------- MODULE PluginManager ----------------------------
(***************************************************************************)
(* One plugin id in internal/pluginmanager: lazy loading, invocations of   *)
(* the plugin by concurrent callers, and reload, reinstall and Close while *)
(* they run. m.mu guards the registry, each loadedPlugin has a mutex of    *)
(* its own. A read lock of m.mu is taken and released in one step, since   *)
(* nothing blocks while it is held; the write lock is held over steps.     *)
(* The guest code of a plugin is what it may do to its host: make a host   *)
(* call (one per load and per invocation), return, fail or trap.           *)
(***************************************************************************)
EXTENDS Naturals

CONSTANTS
  Callers,     \* goroutines that invoke the plugin once
  Reloaders,   \* goroutines that run ReloadPlugin, unless they run Install, once
  Installers,  \* goroutines that run Install, unless they run ReloadPlugin, once
  Nobody,      \* a free lock; also context.Background()
  Kinds,       \* the runtimes the plugin may be written for
  MaxEntries,  \* bound: loadedPlugin objects ever registered
  MaxVersion   \* bound: versions of the files on disk

Threads == Callers \cup Reloaders \cup Installers
Entries == 1 .. MaxEntries

ASSUME ManagerAssumption ==
  /\ Callers \cap (Reloaders \cup Installers) = {}
  /\ Nobody \notin Threads
  /\ Kinds \subseteq {"lua", "js", "native", "yaegi", "wasm"}
  /\ MaxEntries \in Nat \ {0} /\ MaxVersion \in Nat \ {0}

VARIABLES
  kind,      \* the engine of the plugin
  disk,      \* the version of the plugin's files
  entry,     \* m.plugins[id]
  plugin,    \* the loadedPlugin objects
  mu,        \* who holds m.mu for writing
  pmu,       \* who holds each p.mu
  name,      \* whether the wasm runtime has a module under the plugin's id
  parked,    \* m.challenges[id] is set
  closed,    \* Close has run
  at,        \* where each goroutine is
  my,        \* its locals: the objects p of call() or UnloadPlugin and q of
             \* ensureLoaded, the version of the files a load has read, whether
             \* the guest has made its host call, whose invocation's context
             \* that runs under, whether it met an anti-bot challenge, and
             \* (history) the version of the files the operation must get
  result,    \* what the operation returned
  floor      \* history: the newest version a finished reload found on disk

vars == <<kind, disk, entry, plugin, mu, pmu, name, parked, closed, at, my, result, floor>>

world == <<kind, disk, entry, mu, closed>>

\* The engines whose natives look the context up in the registry (invokeCtx).
CallsBack == kind \in {"js", "yaegi"}

\* The engines whose call publishes its context in p.curCtx.
Publishes == kind \in {"js", "native"}

\* The engines whose call checks for a runtime that is gone.
ChecksNil == kind \in {"native", "yaegi", "wasm"}

\* A call cannot start on object e: it has no runtime, or malloc fails on its
\* closed module.
Gone(e) == plugin[e].runtime = "none" \/ (kind = "wasm" /\ plugin[e].runtime # "live")

Places == {"idle", "found", "ensure", "loading", "loadingHost", "loaded", "resolving", "resolved",
           "calling", "rlock", "host", "unload", "installing", "installingHost", "done"}

\* Inside the sections that p.mu and m.mu protect.
HoldsEntry(t, e) ==
  \/ at[t] \in {"loading", "loadingHost"} /\ my[t].q = e
  \/ at[t] \in {"calling", "rlock", "host"} /\ my[t].p = e

HoldsManager(t) == at[t] \in {"unload", "installing", "installingHost"}

TypeOK ==
  /\ kind \in Kinds
  /\ disk \in 1 .. MaxVersion
  /\ entry \in Entries
  /\ plugin \in [Entries -> [loaded : BOOLEAN, runtime : {"none", "live", "closed", "expired"},
                             version : 0 .. MaxVersion, curCtx : Threads \cup {Nobody},
                             wired : BOOLEAN]]
  /\ name \in BOOLEAN /\ parked \in BOOLEAN /\ closed \in BOOLEAN
  /\ at \in [Threads -> Places]
  /\ my \in [Threads -> [p : Entries, q : Entries, reading : 0 .. MaxVersion, hosted : BOOLEAN,
                          ctx : Threads \cup {Nobody}, met : BOOLEAN, need : 0 .. MaxVersion]]
  /\ result \in [Threads -> {"none", "data", "error", "challenge", "panic", "ok"}]
  /\ floor \in 0 .. MaxVersion
  /\ mu \in Threads \cup {Nobody}
  /\ \A t \in Threads : mu = t <=> HoldsManager(t)
  /\ pmu \in [Entries -> Threads \cup {Nobody}]
  /\ \A e \in Entries, t \in Threads : pmu[e] = t <=> HoldsEntry(t, e)

\* A folder Discover found: registered, not loaded.
Registered == [loaded |-> FALSE, runtime |-> "none", version |-> 0, curCtx |-> Nobody, wired |-> FALSE]

Fresh == [p |-> 1, q |-> 1, reading |-> 0, hosted |-> FALSE, ctx |-> Nobody, met |-> FALSE, need |-> 0]

Init ==
  /\ kind \in Kinds
  /\ disk = 1
  /\ entry = 1
  /\ plugin = [e \in Entries |-> Registered]
  /\ mu = Nobody
  /\ pmu = [e \in Entries |-> Nobody]
  /\ name = FALSE
  /\ parked = FALSE
  /\ closed = FALSE
  /\ at = [t \in Threads |-> "idle"]
  /\ my = [t \in Threads |-> Fresh]
  /\ result = [t \in Threads |-> "none"]
  /\ floor = 0

Goto(t, s) == at' = [at EXCEPT ![t] = s]
Return(t, r) ==
  /\ Goto(t, "done")
  /\ result' = [result EXCEPT ![t] = r]
  /\ my' = [my EXCEPT ![t] = Fresh]

\* A developer changes the plugin's files.
EditFiles ==
  /\ disk < MaxVersion
  /\ disk' = disk + 1
  /\ UNCHANGED <<kind, entry, plugin, mu, pmu, name, parked, closed, at, my, result, floor>>

-----------------------------------------------------------------------------
(* ensureLoaded *)

\* The object of a call is looked up once ...
Get(t) ==
  /\ t \in Callers /\ at[t] = "idle" /\ mu = Nobody
  /\ my' = [my EXCEPT ![t].p = entry, ![t].need = floor]
  /\ Goto(t, "found")
  /\ UNCHANGED <<world, plugin, pmu, name, parked, result, floor>>

\* ... and ensureLoaded looks it up again.
EnsureLook(t) ==
  /\ at[t] = "found" /\ mu = Nobody
  /\ my' = [my EXCEPT ![t].q = entry]
  /\ Goto(t, "ensure")
  /\ UNCHANGED <<world, plugin, pmu, name, parked, result, floor>>

\* call() goes on to the engine, ReloadPlugin is done.
AfterEnsure(t) ==
  IF t \in Callers
  THEN /\ Goto(t, "loaded")
       /\ my' = [my EXCEPT ![t].hosted = FALSE]
       /\ UNCHANGED <<result, floor>>
  ELSE /\ Return(t, "ok")
       /\ floor' = IF my[t].need > floor THEN my[t].need ELSE floor

EnsureLoaded(t) ==
  /\ at[t] = "ensure" /\ pmu[my[t].q] = Nobody
  /\ plugin[my[t].q].loaded
  /\ AfterEnsure(t)
  /\ UNCHANGED <<world, plugin, pmu, name, parked>>

\* The engine's load starts by reading the files.
EnsureLoad(t) ==
  /\ at[t] = "ensure" /\ pmu[my[t].q] = Nobody
  /\ ~plugin[my[t].q].loaded
  /\ pmu' = [pmu EXCEPT ![my[t].q] = t]
  /\ my' = [my EXCEPT ![t].reading = disk]
  /\ Goto(t, "loading")
  /\ UNCHANGED <<world, plugin, name, parked, result, floor>>

\* Top-level code of the plugin asks for a page, which looks up invokeCtx.
InitCallsHost(t) ==
  /\ CallsBack /\ ~my[t].hosted
  /\ \/ at[t] = "loading" /\ Goto(t, "loadingHost")
     \/ at[t] = "installing" /\ Goto(t, "installingHost")
  /\ my' = [my EXCEPT ![t].hosted = TRUE]
  /\ UNCHANGED <<world, plugin, pmu, name, parked, result, floor>>

InitHostReturns(t) ==
  /\ mu = Nobody
  /\ \/ at[t] = "loadingHost" /\ Goto(t, "loading")
     \/ at[t] = "installingHost" /\ Goto(t, "installing")
  /\ UNCHANGED <<world, plugin, pmu, name, parked, my, result, floor>>

\* A module can be instantiated only under a name that is free.
NameFree == kind = "wasm" => ~name

\* ensureLoaded copies the new runtime into the registered object; the native
\* bridge keeps pointing at the object that load returned.
LoadSucceeds(t) ==
  /\ at[t] = "loading" /\ NameFree
  /\ plugin' = [plugin EXCEPT ![my[t].q] = [@ EXCEPT !.loaded = TRUE, !.runtime = "live",
                                                  !.version = my[t].reading, !.wired = FALSE]]
  /\ name' = (kind = "wasm")
  /\ pmu' = [pmu EXCEPT ![my[t].q] = Nobody]
  /\ AfterEnsure(t)
  /\ UNCHANGED <<world, parked>>

\* Mutant of LoadFails: the error path forgets the lock.
LoadFailsLocked(t) ==
  /\ at[t] = "loading"
  /\ name' \in {name, kind = "wasm"}
  /\ Return(t, "error")
  /\ UNCHANGED <<world, plugin, pmu, parked, floor>>

\* Mutant of LoadFails: the error is swallowed.
LoadFailsQuietly(t) ==
  /\ at[t] = "loading"
  /\ name' \in {name, kind = "wasm"}
  /\ pmu' = [pmu EXCEPT ![my[t].q] = Nobody]
  /\ AfterEnsure(t)
  /\ UNCHANGED <<world, plugin, parked>>

\* A load that fails after InstantiateModule leaves the module, and its name.
LoadFails(t) ==
  /\ at[t] = "loading"
  /\ name' \in {name, kind = "wasm"}
  /\ pmu' = [pmu EXCEPT ![my[t].q] = Nobody]
  /\ Return(t, "error")
  /\ UNCHANGED <<world, plugin, parked, floor>>

-----------------------------------------------------------------------------
(* call *)

\* callJS evaluates on the VM, twice, before it takes p.mu.
ResolveJS(t) ==
  /\ kind = "js" /\ at[t] = "loaded"
  /\ IF plugin[my[t].p].runtime = "none"
     THEN Return(t, "panic")
     ELSE Goto(t, "resolving") /\ UNCHANGED <<my, result>>
  /\ UNCHANGED <<world, plugin, pmu, name, parked, floor>>

ResolvedJS(t) ==
  /\ at[t] = "resolving"
  /\ IF plugin[my[t].p].runtime = "none"
     THEN Return(t, "panic")
     ELSE Goto(t, "resolved") /\ UNCHANGED <<my, result>>
  /\ UNCHANGED <<world, plugin, pmu, name, parked, floor>>

\* Where a call waits for p.mu.
AtInvoke(t) == at[t] = IF kind = "js" THEN "resolved" ELSE "loaded"

\* p.mu is taken; a runtime that is gone ends the call, one way or another.
InvokeGone(t) ==
  /\ AtInvoke(t) /\ pmu[my[t].p] = Nobody
  /\ Gone(my[t].p)
  /\ parked' = (parked /\ kind # "wasm")
  /\ Return(t, IF ChecksNil THEN "error" ELSE "panic")
  /\ UNCHANGED <<world, plugin, pmu, name, floor>>

\* Mutant of Invoke: a challenge of an earlier call is left parked.
InvokeKeepsChallenge(t) ==
  /\ AtInvoke(t) /\ pmu[my[t].p] = Nobody
  /\ ~Gone(my[t].p)
  /\ pmu' = [pmu EXCEPT ![my[t].p] = t]
  /\ plugin' = [plugin EXCEPT ![my[t].p].curCtx = IF Publishes THEN t ELSE Nobody]
  /\ Goto(t, "calling")
  /\ UNCHANGED <<world, name, parked, my, result, floor>>

\* Mutant of Invoke: the context is not published.
InvokeUnpublished(t) ==
  /\ AtInvoke(t) /\ pmu[my[t].p] = Nobody
  /\ ~Gone(my[t].p)
  /\ pmu' = [pmu EXCEPT ![my[t].p] = t]
  /\ parked' = (parked /\ kind # "wasm")
  /\ Goto(t, "calling")
  /\ UNCHANGED <<world, plugin, name, my, result, floor>>

\* callWasm drops a challenge left over; callJS and callGo publish their context.
Invoke(t) ==
  /\ AtInvoke(t) /\ pmu[my[t].p] = Nobody
  /\ ~Gone(my[t].p)
  /\ pmu' = [pmu EXCEPT ![my[t].p] = t]
  /\ plugin' = [plugin EXCEPT ![my[t].p].curCtx = IF Publishes THEN t ELSE Nobody]
  /\ parked' = (parked /\ kind # "wasm")
  /\ Goto(t, "calling")
  /\ UNCHANGED <<world, name, my, result, floor>>

\* The context of a host call: handed to the native by the Lua and wasm runtimes,
\* read by the native bridge from the object it was wired to, ...
HostCall(t) ==
  /\ at[t] = "calling" /\ ~my[t].hosted
  /\ IF CallsBack
     THEN Goto(t, "rlock") /\ my' = [my EXCEPT ![t].hosted = TRUE]
     ELSE /\ Goto(t, "host")
          /\ my' = [my EXCEPT ![t].hosted = TRUE,
                              ![t].ctx = IF kind = "native" /\ ~plugin[my[t].p].wired THEN Nobody ELSE t]
  /\ UNCHANGED <<world, plugin, pmu, name, parked, result, floor>>

\* ... or looked up in the registry, under a read lock of m.mu.
invokeCtx(t) ==
  /\ at[t] = "rlock" /\ mu = Nobody
  /\ my' = [my EXCEPT ![t].ctx = plugin[entry].curCtx]
  /\ Goto(t, "host")
  /\ UNCHANGED <<world, plugin, pmu, name, parked, result, floor>>

\* The request may meet a challenge; the wasm helpers park it.
HostReturns(t) ==
  /\ at[t] = "host"
  /\ \E challenge \in BOOLEAN :
       /\ my' = [my EXCEPT ![t].met = challenge]
       /\ parked' = (parked \/ (challenge /\ kind = "wasm"))
  /\ Goto(t, "calling")
  /\ UNCHANGED <<world, plugin, pmu, name, result, floor>>

\* A challenge parked by a wasm helper replaces the result, but not an empty one.
\* What a Lua guest makes of one is its own business: host.http throws it, which
\* the guest can catch, and http_request returns it as a table; and whatever error
\* of the guest has the marker in its text is typed as a challenge.
Outcomes(t) ==
  CASE kind = "lua"  -> {"data", "error", "challenge"}
    [] kind = "wasm" -> {IF parked THEN "challenge" ELSE "data", "error"}
    [] OTHER         -> {"data", "error"}

\* A deadline that passes in the host's own calls of malloc or free closes the
\* wasm module unnoticed.
CallReturns(t) ==
  /\ at[t] = "calling"
  /\ \E r \in Outcomes(t) :
       /\ Return(t, r)
       /\ parked' = (parked /\ (kind = "wasm" => r = "error"))
  /\ pmu' = [pmu EXCEPT ![my[t].p] = Nobody]
  /\ \E late \in {FALSE, kind = "wasm" /\ plugin[my[t].p].runtime = "live"} :
       /\ plugin' = [plugin EXCEPT ![my[t].p].curCtx = Nobody,
                                    ![my[t].p].runtime = IF late THEN "expired" ELSE @]
       /\ name' = (name /\ ~late)
  /\ UNCHANGED <<world, floor>>

\* Mutant of WasmDies: the dead module stays the plugin's runtime.
WasmDiesLoaded(t) ==
  /\ kind = "wasm" /\ at[t] \in {"calling", "host"}
  /\ \E deadline \in BOOLEAN : name' = (name /\ ~(deadline /\ plugin[my[t].p].runtime = "live"))
  /\ plugin' = [plugin EXCEPT ![my[t].p].runtime = "closed"]
  /\ pmu' = [pmu EXCEPT ![my[t].p] = Nobody]
  /\ Return(t, "error")
  /\ UNCHANGED <<world, parked, floor>>

\* fn.Call fails: the deadline closes the module, a trap does not. The handle is
\* dropped either way.
WasmDies(t) ==
  /\ kind = "wasm" /\ at[t] \in {"calling", "host"}
  /\ \E deadline \in BOOLEAN : name' = (name /\ ~(deadline /\ plugin[my[t].p].runtime = "live"))
  /\ plugin' = [plugin EXCEPT ![my[t].p] = [@ EXCEPT !.loaded = FALSE, !.runtime = "none"]]
  /\ pmu' = [pmu EXCEPT ![my[t].p] = Nobody]
  /\ Return(t, "error")
  /\ UNCHANGED <<world, parked, floor>>

\* EvalWithContext gives up on interpreted code at the deadline, wherever that
\* code is. What is left of it changes nothing here but may still run.
YaegiTimesOut(t) ==
  /\ kind = "yaegi" /\ at[t] \in {"rlock", "host"}
  /\ pmu' = [pmu EXCEPT ![my[t].p] = Nobody]
  /\ Return(t, "error")
  /\ UNCHANGED <<world, plugin, name, parked, floor>>

-----------------------------------------------------------------------------
(* ReloadPlugin, Install, Close *)

UnloadLock(t) ==
  /\ t \in Reloaders /\ at[t] = "idle" /\ mu = Nobody
  /\ mu' = t
  /\ my' = [my EXCEPT ![t].p = entry, ![t].need = disk]
  /\ Goto(t, "unload")
  /\ UNCHANGED <<kind, disk, entry, plugin, pmu, name, parked, closed, result, floor>>

Unloaded(e) == IF plugin[e].loaded THEN [Registered EXCEPT !.curCtx = plugin[e].curCtx] ELSE plugin[e]

\* Mutant of Unload: the runtime is closed without p.mu.
UnloadBusy(t) ==
  /\ at[t] = "unload"
  /\ plugin' = [plugin EXCEPT ![my[t].p] = Unloaded(my[t].p)]
  /\ name' = (name /\ ~(plugin[my[t].p].loaded /\ plugin[my[t].p].runtime = "live"))
  /\ mu' = Nobody
  /\ Goto(t, "found")
  /\ UNCHANGED <<kind, disk, entry, pmu, parked, closed, my, result, floor>>

\* Mutant of Unload: p.loaded is read before p.mu is taken.
UnloadPeeks(t) ==
  /\ at[t] = "unload"
  /\ plugin[my[t].p].loaded => pmu[my[t].p] = Nobody
  /\ plugin' = [plugin EXCEPT ![my[t].p] = Unloaded(my[t].p)]
  /\ name' = (name /\ ~(plugin[my[t].p].loaded /\ plugin[my[t].p].runtime = "live"))
  /\ mu' = Nobody
  /\ Goto(t, "found")
  /\ UNCHANGED <<kind, disk, entry, pmu, parked, closed, my, result, floor>>

\* Mutant of Unload: the handle is dropped, the module is not closed.
UnloadKeepsModule(t) ==
  /\ at[t] = "unload"
  /\ pmu[my[t].p] = Nobody
  /\ plugin' = [plugin EXCEPT ![my[t].p] = Unloaded(my[t].p)]
  /\ mu' = Nobody
  /\ Goto(t, "found")
  /\ UNCHANGED <<kind, disk, entry, pmu, name, parked, closed, my, result, floor>>

\* p.mu is waited for with m.mu held; the runtime, if there is one, is closed.
Unload(t) ==
  /\ at[t] = "unload"
  /\ pmu[my[t].p] = Nobody
  /\ plugin' = [plugin EXCEPT ![my[t].p] = Unloaded(my[t].p)]
  /\ name' = (name /\ ~(plugin[my[t].p].loaded /\ plugin[my[t].p].runtime = "live"))
  /\ mu' = Nobody
  /\ Goto(t, "found")
  /\ UNCHANGED <<kind, disk, entry, pmu, parked, closed, my, result, floor>>

\* The files are copied over the plugin's folder, or are already there.
InstallLock(t) ==
  /\ t \in Installers /\ at[t] = "idle" /\ mu = Nobody
  /\ entry < MaxEntries
  /\ mu' = t
  /\ disk' \in {disk, disk + 1} \cap 1 .. MaxVersion
  /\ my' = [my EXCEPT ![t].reading = disk']
  /\ Goto(t, "installing")
  /\ UNCHANGED <<kind, entry, plugin, pmu, name, parked, closed, result, floor>>

\* registerLoaded puts the new object in the place of the old one, whose
\* runtime nobody closes.
InstallSucceeds(t) ==
  /\ at[t] = "installing" /\ NameFree
  /\ entry' = entry + 1
  /\ plugin' = [plugin EXCEPT ![entry + 1] =
                  [loaded |-> TRUE, runtime |-> "live", version |-> my[t].reading,
                   curCtx |-> Nobody, wired |-> TRUE]]
  /\ name' = (kind = "wasm")
  /\ mu' = Nobody
  /\ Return(t, "ok")
  /\ UNCHANGED <<kind, disk, pmu, parked, closed, floor>>

InstallFails(t) ==
  /\ at[t] = "installing"
  /\ name' \in {name, kind = "wasm"}
  /\ mu' = Nobody
  /\ Return(t, "error")
  /\ UNCHANGED <<kind, disk, entry, plugin, pmu, parked, closed, floor>>

\* At shutdown every loaded runtime is closed, whether or not a call is on it.
Close ==
  /\ ~closed /\ mu = Nobody
  /\ closed' = TRUE
  /\ plugin' = [plugin EXCEPT ![entry].runtime =
                  IF ~plugin[entry].loaded \/ kind = "yaegi" THEN @
                  ELSE IF kind = "js" THEN "none" ELSE "closed"]
  /\ name' = FALSE
  /\ UNCHANGED <<kind, disk, entry, mu, pmu, parked, at, my, result, floor>>

-----------------------------------------------------------------------------
ensureLoaded(t) ==
  EnsureLook(t) \/ EnsureLoaded(t) \/ EnsureLoad(t) \/ InitCallsHost(t) \/ InitHostReturns(t)
  \/ LoadSucceeds(t) \/ LoadFails(t)

call(t) ==
  ResolveJS(t) \/ ResolvedJS(t) \/ InvokeGone(t) \/ Invoke(t) \/ HostCall(t) \/ invokeCtx(t)
  \/ HostReturns(t) \/ CallReturns(t) \/ WasmDies(t) \/ YaegiTimesOut(t)

Step(t) == ensureLoaded(t) \/ call(t) \/ Unload(t) \/ InstallSucceeds(t) \/ InstallFails(t)

Next ==
  \/ EditFiles \/ Close
  \/ \E t \in Threads : Get(t) \/ UnloadLock(t) \/ InstallLock(t) \/ Step(t)

Spec == Init /\ [][Next]_vars

\* What was begun goes on. A guest ends its call: its deadline interrupts it
\* (a native plugin is trusted to return).
FairSpec == Spec /\ \A t \in Threads : WF_vars(Step(t))

-----------------------------------------------------------------------------
(* Properties *)

\* Until shutdown, the runtime a call runs on is not closed under it and not
\* replaced, whatever is reloaded or installed meanwhile (UnloadPlugin waits
\* for p.mu, Install leaves the old object alone).
RuntimeHeld ==
  \A t \in Threads : ~closed /\ at[t] \in {"calling", "rlock", "host"} => plugin[my[t].p].runtime = "live"

\* A call that starts after a reload finished runs files at least as new as
\* the ones that were on disk when that reload began.
ReloadTakesEffect ==
  \A t \in Callers : at[t] \in {"calling", "rlock", "host"} => plugin[my[t].p].version >= my[t].need

\* Until shutdown a plugin that says it is loaded has a runtime that works: a
\* call that fails drops a dead module, so that the next call tries to load it
\* (wasm_call.go:49-61), unless the deadline passed in the host's own malloc or
\* free, which do not notice.
LoadedIsUsable ==
  \A e \in Entries : ~closed /\ plugin[e].loaded => plugin[e].runtime \in {"live", "expired"}

\* A reload has dropped a runtime, or tried to.
Reloaded ==
  \E u \in Reloaders : at[u] \in {"found", "ensure", "loading", "loadingHost", "done"}

\* A call that has found its plugin loaded, and does not hold p.mu yet.
Bound(t) == t \in Callers /\ at[t] \in {"loaded", "resolving", "resolved"}

\* call() lets go of p.mu after ensureLoaded and takes it again in the engine
\* (api.go:25). Whoever finds the runtime gone there has been shut down,
\* reloaded or reinstalled meanwhile (then ensureLoaded loaded another object),
\* or shares a wasm module that another call has left dead; and callLua and
\* callJS, which do not check for nil, panic for no other reason.
GoneForAReason ==
  \A t \in Callers :
    /\ Bound(t) /\ Gone(my[t].p) =>
         \/ closed \/ Reloaded \/ my[t].p # my[t].q
         \/ kind = "wasm" /\ \E u \in Callers : at[u] = "done"
    /\ result[t] = "panic" => kind \in {"lua", "js"} /\ (closed \/ Reloaded \/ entry # 1)

\* Until shutdown the wasm runtime has at most one live module of the plugin,
\* under its name; and a name without a live module, which keeps the plugin from
\* loading, was left by an operation that has reported an error (wasm.go:70: a
\* load that failed after InstantiateModule; wasm_call.go:49: a trap).
NamesFollowModules ==
  ~closed /\ kind = "wasm" =>
    /\ \A e \in Entries : plugin[e].runtime = "live" => name
    /\ \A d, e \in Entries : plugin[d].runtime = "live" /\ plugin[e].runtime = "live" => d = e
    /\ name => \/ \E e \in Entries : plugin[e].runtime = "live"
               \/ \E t \in Threads : result[t] = "error"

\* A wasm plugin's challenge is reported by the call that met it and by no
\* other, and that call returns no data, whatever the guest made of the nil body
\* (manager_challenge.go:9-12, wasm_call.go:8-12), unless a reinstall replaced the
\* plugin: its old object and its new one share m.challenges[id]. Nothing like it
\* holds of a Lua plugin (see Outcomes).
ChallengeOwn ==
  [][\A t \in Callers :
       kind = "wasm" /\ entry = 1 /\ at[t] = "calling" /\ at'[t] = "done" =>
         /\ result'[t] = "challenge" => my[t].met
         /\ result'[t] = "data" => ~my[t].met]_vars

\* With a runtime whose natives do not go back to the registry, every call,
\* reload and install that began ends.
EveryOperationEnds ==
  kind \in {"lua", "native", "wasm"} =>
    \A t \in Threads : at[t] # "idle" ~> at[t] = "done"

\* A host call made during an invocation runs under that invocation's context,
\* so that it ends with the invocation's deadline (goplug_call.go:13-15, and
\* invokeCtx of manager.go), whatever other calls of the plugin come before,
\* after and between. The exceptions: yaegi, whose calls publish no context; a
\* native plugin loaded lazily, whose bridge is wired to an object ensureLoaded
\* drops (lifecycle.go:37); and a plugin installed anew since, whose lookup finds
\* the new object.
HostCallsBounded ==
  \A t \in Threads : at[t] = "host" =>
    \/ my[t].ctx = t
    \/ kind = "yaegi"
    \/ kind = "native" /\ ~plugin[my[t].p].wired
    \/ entry # my[t].p

\* The lock order m.mu, p.mu (manager.go:104-107): nobody who holds a p.mu waits
\* for m.mu while a reload that holds m.mu waits for that p.mu, and an install
\* does not wait for the m.mu it holds itself.
LockOrder ==
  /\ \A t, u \in Threads : at[t] = "unload" =>
       /\ at[u] = "rlock" => my[u].p # my[t].p
       /\ at[u] = "loadingHost" => my[u].q # my[t].p
  /\ \A t \in Threads : at[t] # "installingHost"

\* The guards of Step(t): t waits for nobody, or for a lock that is free.
Moves(t) ==
  \/ at[t] \in {"loading", "resolving", "calling", "host", "installing"}
  \/ at[t] \in {"found", "loadingHost", "installingHost"} /\ mu = Nobody
  \/ at[t] = "rlock" /\ (mu = Nobody \/ kind = "yaegi")
  \/ at[t] = "ensure" /\ pmu[my[t].q] = Nobody
  \/ at[t] = "loaded" /\ (kind = "js" \/ pmu[my[t].p] = Nobody)
  \/ at[t] \in {"resolved", "unload"} /\ pmu[my[t].p] = Nobody

\* The lock order is all that stands between the manager and a deadlock: while
\* it is kept and an operation is under way, some operation can go on; and only
\* natives that look up the registry (manager.go:128) can break it.
OnlyInversionsStall ==
  /\ LockOrder /\ (\E t \in Threads : at[t] \notin {"idle", "done"}) => \E t \in Threads : Moves(t)
  /\ ~LockOrder => CallsBack
=============================================================================
