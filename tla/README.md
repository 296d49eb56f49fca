# goIsekai in TLA+

TLA+ models, TLC configurations and machine-checked proofs for goIsekai, a
self-hosted manga and novel reader: one Go process that runs third-party source
plugins (Lua, JavaScript, native Go, interpreted Go, WebAssembly), keeps a
library in SQLite and serves a web front end. The models are written from the
code under `src/`; a line number below is a line of the file named with it.
`PROJECT.json` maps every definition to the lines it stands for.

Contents: [the system](#1-the-system), [modules](#2-the-modules),
[runs](#3-the-runs), [fairness](#4-fairness), [proofs](#5-what-is-proved),
[findings](#6-findings), [observations](#7-observations),
[what is not modelled](#8-what-is-not-modelled), [plan](#9-plan).

## 1. The system

### Components, state and operations

| component | state it keeps | operations | hard behaviour |
|---|---|---|---|
| worker pool, `internal/workers` | six bounded channels (interactive, fetch, image high and low, maintenance, cdp), registry of handles, dedupe map, the in-use plugin keys of two lanes | Enqueue, Await, the worker loops, retry, Shutdown | many goroutines; a job changes hands between closed check, publication, push, gate, run, delivery |
| image requests, `bridge/image.go` | `imageFlight` (URL to `imageCall`), L1 and L2 cache | GetImage: leader, follower, lane job | singleflight with cancellation, refusal and retry by followers |
| host admission, `bridge/image_pace.go` | per host: counts and waiter lists of two priorities | hostAcquire, hostRelease, paceImage | hand-made condition variable; barging |
| image lane clients, `bridge/export.go`, `jobs*.go` | a job's own | export of a chapter, page fetch, cache warming | jobs of a lane that wait for jobs of the same lane |
| plugin manager, `internal/pluginmanager` | registry under `m.mu`; per plugin a runtime, its version and `curCtx` under `p.mu`; parked challenges; wasm module names | ensureLoaded, call on five engines, host calls, ReloadPlugin, Install, Close | two mutexes, guest code that calls back while both may be held |
| upstream requests, `internal/hostnet`, `bridge/image_fetch_retry.go` | per plugin: pinned profile and User-Agent in memory and in the database, clients and their cookie jars, pending cookies | RequestContext, the ladder of profiles and User-Agents, solves on the cdp lane, ResetProfile, pasted cookies, an image's retries | retries, deadlines, a solve that outlives its caller, requests that change each other's pins |
| library, `bridge/sync.go`, `migrate.go`, `progress.go`, `internal/database` | SQLite tables mangas, chapters, library_fts | sync, detail view, cover refetch, migration, reading progress, membership, maintenance pass | several statements or transactions round a plugin call; a crash or an error between two |
| status hub, `httpserver/ws.go`, with the page that waits (`alpine-components.js`) | two maps of WebSocket clients under a mutex | register, filter, un-filter, unregister, broadcast of a job's status | jobs, clients and a mutex held over writes to sockets |
| HTTP server, `internal/httpserver` | - | handlers | - |
| configuration, `internal/config` | settings, mtime | parse, save, watch | a poll that can miss a change |
| process, `cmd/goisekai` | - | start, shutdown, maintenance loop | order of shutdown |
| the rest | - | plugin helper libraries, HTML, codecs, templates, tray, desktop client, front end, example plugins | data work; none of the state above |

### How they interact

A handler of the HTTP server calls the bridge. The bridge puts foreground plugin
calls on the pool's interactive lane, background syncs on the fetch lane, page
images and exports on the image lane, and waits for the future. A job's Run
calls the plugin manager (which serialises the calls of one plugin on `p.mu`)
or, for an image, goes through the per-host admission. Plugins call back into the
host for HTTP; such a request walks the ladder of `hostnet`, and when it meets an
anti-bot challenge it puts a solver job on the cdp lane and waits for a channel.
Job status is broadcast by the hub, from the goroutine that moves the job, to
pages and others that have connected and may have filtered by a job. Shutdown closes
the pool, then the HTTP server, then the plugin manager.

### What makes each part correct

- **Pool**: a job runs at most once per attempt and is never lost or duplicated;
  two jobs of one plugin do not run at once on a gated lane; jobs with one
  DedupeKey are not in flight together; maps do not leak; a waiter is told the
  truth and is told it in the end; high-priority images go first.
- **GetImage**: one fetch of a page at a time and none of a cached page; every
  caller is answered, with bytes or an error.
- **Admission**: at most two high and one low request per host; counts match the
  requests in flight; no wake-up is lost; everyone is admitted.
- **Image lane**: exports and readers sharing the lane all finish.
- **Plugin manager**: a runtime is not closed under a call; a reload takes
  effect; a failed call leaves the plugin usable; a challenge a wasm guest
  cannot report is reported by the call that met it; no deadlock between the two mutexes; host calls end with
  their invocation.
- **Upstream requests**: a blocked page is not handed out as an answer and a real
  answer is not thrown away; a pin names what the origin answered on; a blocked
  origin sees a bounded burst; cookies reach every client; no call is stuck
  behind a solve nobody waits for.
- **Library**: entries come and go by the reader's click only; an entry lists
  chapters of its own source; reading progress survives syncs, prunes and
  migrations; the search index follows the library.
- **Status hub**: every message reaches who has asked for it, once; a page that has
  subscribed hears of its job's end; no broadcast keeps a job from ending.
- **Process**: a stop settles what is in flight; a restart repairs the index.

`PROJECT.json` lists the hazards one by one, each at its line, with the property
that would catch it or the reason there is none yet.

## 2. The modules

```
JobLifecycle  <==refined by==  WorkerPool        HostLanes
     ^                             \               /
     '== steps of its jobs ==       \-- ImageLane-/
                            JobHub
SharedFetch   <==refined by==  ImageFlight
PluginManager      HostRequest      Library

proofs:  WorkerPool_proofs   HostLanes_proofs  ImageLane_proofs
         ImageFlight_proofs  PluginManager_proofs  HostRequest_proofs
         Library_proofs      JobHub_proofs
```

Each module `M` has a module `MCM` that adds the constants of its runs. A
definition whose comment starts with "Mutant of" is a plausible bug of the
definition it is named after; no specification uses it. The mutants show that
each property depends on the code: put in the original's place, each makes TLC
find the named property violated.

### WorkerPool (`internal/workers`)

A *job* is one call of Enqueue, together with the goroutine that made the call
and awaits the future it was given. The constants are the jobs, the worker
goroutines, and as functions each job's queue, PluginKey, DedupeKey and
attempts, each worker's lane and each queue's buffer. An action is what the code
does between two points where another goroutine can get in: one critical
section, one channel operation, or the entry or the exit of `job.Run`.

| code | model |
|---|---|
| Enqueue: closed check; dedupe section; push with ctx, timer; refusal | `EnqueueClosed`/`EnqueueOpen`; `EnqueueJoin`/`EnqueuePublish`; `EnqueuePush`/`EnqueueGiveUp`; `failQueued` |
| Future, Await | `done`, `result`; `AwaitResult`, `AwaitAbandon` (cancels the job whose future it is) |
| worker, imageWorker | `Select`: `PollHigh`, `PollEmpty`, then the blocking `Dequeue`; `Exit` |
| fairness gate, parked job | `takeKey`, `Veto`, `Requeue`, `RetryGate` |
| runJob: status, attempt loop, back-off | `Begin`, `GiveUp`, `Run`, `RunReturns`, `Backoff` |
| release, deliver, deregister | `Release`, `DeliverResult`, `deregister` |
| Shutdown | `ShutdownClose` (closed flag), `ShutdownStop` (root context) |

A job's Run may return nil, a transient, a permanent or a context error in any
attempt, whatever its context is. `overtaken` is a history variable for
`BoundedOvertaking`, and nothing else reads it. Time is left out: a timer may
fire whenever it is armed.

### JobLifecycle

What the callers of the pool rely on, in five actions: a job is submitted, starts
when no conflicting job runs, finishes, is settled once, or is refused. The pool
maps to it by `Phase`: "running" is a worker past the gate with the key in hand,
"finished" is Run over and the key released, "settled" is a closed future.
`Conflict` is the pair of jobs of one gated lane and one plugin.
`ImplementsLifecycle` is checked as a property of the detailed pool. JobHub, which
has jobs of its own, reduced to what they announce, maps to the same life cycle
(`JobsLiveOnce`), so that the two views of a job agree.

### HostLanes (`bridge/image_pace.go`)

One host's entry of `hostLanes`. `Arrive`, `Acquire` and `LineUp` are
hostAcquire (one turn of its loop each under the mutex), `hostRelease` is the locked
part of hostRelease and `Wake` the channel close after the unlock: between the
two anybody can get in. A slot is not handed to the woken waiter; it tries again.

### ImageFlight (`bridge/image.go`)

One URL, several concurrent calls of GetImage. A request is a state machine over
the places of the function: first probe (`Begin`), the check that the plugin is
active (`CheckActive`, whose answer is free), LoadOrStore (`JoinFlight`),
second probe (`Probe`, `ProbeHit`), Enqueue (`EnqueueJob`, `EnqueueRefused`,
`CloseRefused`), Await (`AwaitResult`, `AwaitAbandoned`), the thirty-second wait
for the shared result (`LeaderReturns`), and the follower's wait and retry
(`FollowerWakes`, `FollowerRetries`). The lane job is `JobSkipped`, `JobStarts`,
`FetchReturns`, `JobDeletesEntry`, `JobClosesCall`. The outcome "raced" is a call
with both data and an error: the leader's goroutine writes `call.err` at line
121 while the job may be writing the same struct. Of the pool only its interface
is left: a job is refused, or queued and then started or skipped; WorkerPool
has the inside.

### SharedFetch

What the callers of GetImage rely on for one page, in three actions: a fetch starts
on behalf of one of them, only while no other runs and the page is not cached; it
ends, with the page or without; a caller is answered, once, with the page when it is
there or with an error. ImageFlight maps to it by which lane jobs run and
by what each caller was told (`Told`: a result with bytes and an error is an error,
and so is "offline").
`ImplementsSharedFetch` is checked as a property of the singleflight.

### ImageLane (`bridge/export.go`, `bridge/jobs.go`, `image_fetch.go`)

The composition: it EXTENDS WorkerPool and HostLanes; the fetches of the host
are the pool's jobs that are not exports. A page job keeps its
worker from hostAcquire to hostRelease. An export keeps its worker while it asks
for its pages one by one, each of which is a call of Enqueue on this same lane
followed by an Await under a background context. Building the archive and the
HTTP exchange are one step each. A worker is `Blocked` when it waits for others,
and `ServedSoon` says that what it waits for is under way: a worker has a step that
waits for nobody, or a job to take (`WorkerMoves`), or the GetImage of an export
can go on (`CallMoves`).

### PluginManager (`internal/pluginmanager`)

One plugin id. `kind` is the engine, fixed per behaviour. `plugin[e]` are the
loadedPlugin objects ever registered (Install registers a new one and leaves
the old), `entry` the registered one. `mu` and `pmu` are the two mutexes: the
write lock of `m.mu` is held over steps; a read lock is taken and given back in
one, since nothing blocks under it. `at` says where each goroutine is, `my` what
its locals are. A guest is what it may do to its host: one host call per load and
per invocation, then return, fail, or trap. What is peculiar to an engine is a
definition: `CallsBack` (natives that look the context up in the registry),
`Publishes` (who writes `curCtx`), `ChecksNil` and `Gone` (calls that find no
runtime), `NameFree` (wasm module names), `WasmDies`, `YaegiTimesOut`, `ResolveJS`
(evaluation on the VM before `p.mu` is held). `floor` and `my[t].need` are history for `ReloadTakesEffect`. `Bound`, `Reloaded` and `Moves`
belong to properties: a call between `ensureLoaded` and `p.mu`, a reload that has taken
a runtime away, and the guards of a goroutine's step.

### HostRequest (`internal/hostnet`, `bridge/image_fetch_retry.go`)

The requests of one plugin to one host. A request is a goroutine in
RequestContext (a plugin's host call) or in fetchImageWithRetry, whose attempts
go through RequestImageContext. An upstream answer is one of eight kinds, told
apart as the code tells them apart: good, an HTML page instead of an image, a
refusal, a refusal in HTML, a challenge, a WAF block in JSON or in HTML, no answer.

| code | model |
|---|---|
| RequestContext: needs_js solve, stdlib shortcut, first send, retry after a solve | `Arrive`/`Enter`; `RouteStdlib`, `RouteTLS`; `Fetch` with `AfterFetch`, `AfterRetry` |
| RequestImageContext's HTML check | `Respond` (a page starts a ladder of its own) |
| tryLadder | `StartLadder`, `NextRung`, `Probe` with `AfterProbe`, `Exhausted`; `Unseen`, `Unprobed`, `Candidates` |
| setPin, its callback, setUaPin | `PinProfile`, `StorePin`, `PinUA`: three writes in three steps |
| solveAndSeed, SubmitSolve, the cdp lane | `Submit`, `SolveEnds`, `SolveAbandoned`; `LaneTakes`, `SolverReturns` with `Deliver` (a channel of one slot) |
| fetchImageWithRetry | `CallEnds`, `TryAgain` |
| ResetProfile, SavePluginVerify, deadlines | `ResetProfile` (three writes), `PasteCookies`, `CtxEnds` |

A walk is the set of places of the User-Agent list it has still to try (place 0
stands for no override), as tryLadder ranges over the list in order and skips what
it has seen. `probes` and `heard` are history. Solver health is left out: the breaker picks
the engines of a solve, whose outcome is free.

### Library (`bridge/sync.go`, `migrate.go`, `progress.go`, `internal/database`)

One title on several sources, and the tables `mangas` (with its AUTOINCREMENT
counter), `chapters` and `library_fts`. A thread is a goroutine in one
operation; a step ends at a statement that writes or that reads what a later
step relies on.

| code | model |
|---|---|
| SyncManga, syncMangas, GetMangaDetails, persistMangaDetails | `SyncBegin`, `DetailsBegin`; `Upsert`, `SelectId`, `Index`, `Member`, `UpsertChapter` |
| PruneSupersededChapters | `PruneSelect`, `PruneDelete` |
| refetchCover | `Refetch`, then `Upsert` with the flag it has read |
| MigrateMangaSource | `MigrateBegin`, `ReadSourceIDs`, `Commit` (one transaction) |
| ToggleLibraryItem | `ToggleBegin`, `ToggleLibrary`, `Unindex`, `Index` |
| SetChapterProgress, ToggleChapterRead, ResetChapterProgress | `ReadBegin`, `Touch` |
| PruneOrphans, healFTS (at startup and in the maintenance loop) | `PassBegin`, `Purge`, `Drop`, `Sweep`, `Check`, `Wipe`, `Rebuild` |
| an error of any statement or plugin call; the process dies | `Fails`; `Crash` (the next thing that runs is the startup pass) |

A document of the index is a pair of row and source, so that how often it is there
is not told. `chosen`, `revived`, `late`, `behind` and a chapter's `stray` are
history: they name who is responsible for a state, and the exceptions of the
properties are stated with them.

### JobHub (`httpserver/ws.go`, the pool's callbacks, `alpine-components.js`)

Jobs, the hub and its clients. A job is reduced to what it announces: a step that
changes its status leaves the status in `saying`, and the job goes on only after
the broadcast has ended, as the callback of setStatus returns only then.

| code | model |
|---|---|
| Enqueue: dedupe, publication, push, refusal | `SubmitJoin`; `SubmitNew` and `Background` with `Publish`; `Push`, `Refuse` |
| runJob, SetProgress, delivery | `Start`, `Progress`, `RunReturns`, `Backoff`, `Settle` |
| broadcastJobMessage | `Announce` (takes the mutex), `Write` (one socket), `EndBroadcast` |
| streamJobs: registration, the reader goroutine, disconnection | `Register`, `FilterClient` with `Unfilter` and `FilterBy`, `Unregister` |
| submitJobAction | `SubmitJoin`, `SubmitNew`, `Connect`, `Message`, `Receive`, `SocketError`, `Leave` |

A page sends the one filter it sends in the code; a watcher is any other client of
the endpoint, which filters and un-filters as it likes. A socket takes `Room`
messages ahead of its reader; a write to a full one waits with the mutex held, a
write to a closed one returns. `asked` and `due` are history: what a client has asked
for and what it has not read of it. `Casts` bounds who turns up in a behaviour.

## 3. The runs

Each is `tlc -workers 2 -config <run>.cfg <module>`. All set
`CHECK_DEADLOCK FALSE`: calls are finite in number and the system stops when all
are answered (that nobody is stuck before is what the liveness properties say).

| run | module | instance | shows | distinct states |
|---|---|---|---|---|
| FetchLane | MCWorkerPool | 3 jobs, 2 fetch workers, 1-slot queue; two jobs of one plugin, two with one DedupeKey, one with two attempts; abandonment, refusal and Shutdown at any point | safety of the pool: `KeyExclusive`, `DedupeExclusive`, `NoStaleEntry`, `HonestAnswer`, `NobodyStranded` | 1.4 million |
| FetchLive | MCWorkerPool | the same, one attempt, no Shutdown | the pool implements JobLifecycle; every call is answered | 217 thousand |
| HostLanes | MCHostLanes | 4 high and 2 low fetches of one host | counts, caps, no lost wake-up, every fetch admitted | 9 thousand |
| ImageFlight | MCImageFlight | 3 requests for one URL, any of them cancelled, the plugin offline for any of them, jobs refused, fetches failing | the singleflight implements SharedFetch; `FollowersServed`, `OwnEntryOnly`, `HonestAnswer`; every request returns while nobody cancels | 132 thousand |
| AbandonedFlight | MCImageFlight | two patient requests and one that is cancelled | **violation**: finding 1 (`AbandonedCallCloses`) | - |
| ImageLaneLive | MCImageLane | 1 export of 2 pages and a reader's visible page, 2 workers, 1-slot queues, one host | at most one low job for each worker overtakes the visible page; the export finishes and the reader is answered | 75 thousand |
| ExportStarvation | MCImageLane | 2 exports, 2 workers | **violation**: finding 2 | - |
| PluginManager | MCPluginManager | every engine; 2 callers, 1 goroutine that reloads or installs, 2 versions of the files, Close | `RuntimeHeld`, `ReloadTakesEffect`, `LoadedIsUsable`, `HostCallsBounded`, `GoneForAReason`, `NamesFollowModules`, `ChallengeOwn`, `EveryOperationEnds` | 173 thousand |
| ReloadDeadlock | MCPluginManager | a JavaScript plugin | **violation**: finding 3 (`LockOrder`) | - |
| HostRequest | MCHostRequest | a plugin call under a deadline and a page fetch with two attempts; ladder of 3 rungs; plugins with a User-Agent list, with needs_js and an engine, with manual cookies, with none of these; 1 cdp worker | `NoBlockSurfaces`, `NoAnswerWasted`, `BurstBounded`, `WalkExhausts`, `PinsEarned`, `JarsSeeded`, `NobodyStuck` | 2.3 million |
| Library | MCLibrary | 2 threads, 4 operations, 2 sources of a title, one of which re-issues a chapter and has a fractional number, the other numbers both chapters 0; failures at every statement, crashes | `IndexAgrees`, `LibraryIsTheReaders`, `OwnChapters`, `ProgressKept` | 2.0 million |
| JobHub | MCJobHub | 2 pages with one form and a watcher with one job that is tried twice, in pairs; a page and a watcher with two jobs each; sockets of one message | `EveryMessageOnce`, `SubscribersHear`, `EveryJobEnds` | 81 thousand |

### Why the bounds are enough

- *Pool.* The interesting cases need a full queue, a vetoed worker that holds
  a job, and a third caller at the push: three jobs on a one-slot queue with two
  workers have all three at once, and the requeue that finds no room. Two jobs
  share a plugin and two share a DedupeKey, so every pair of roles meets.
  Two attempts show the retry loop. Nothing in the code compares more than two
  jobs.
- *Admission.* The high lane has two slots and the low lane one, as in the code.
  Four and two fetches fill the lane and leave somebody to wait and somebody to
  barge in between a release and the wake-up.
- *Singleflight.* Three requests are a leader, a follower, and a newcomer that
  becomes the leader while the follower is about to delete the entry.
- *Image lane.* One page of an export holds a worker and wants another; with a
  second one, an export comes back to a queue that the reader's page is in. The
  bound of `BoundedOvertaking` is two with two workers, and the export and its
  pages are three low jobs, one more than the bound.
- *Plugin manager.* Two callers on one object, one goroutine that takes `m.mu`,
  two objects (`MaxEntries`: one reinstall), two versions (`MaxVersion`: one
  edit). A goroutine does one operation; what a sequence of operations by one
  goroutine could show, two callers show in sequence.
- *Upstream requests.* Two requests are enough to change a pin under a walk and to
  fill the one-worker cdp lane; three rungs are the pinned profile, one between
  and the stdlib one; two attempts (`Attempts`) show the retry and its end. The
  four manifests switch on each of the code's hints at least once, and none of them
  in one: the plugin without list or engine whose walk `ladder.go:47-51` is about.
- *Library.* Two threads cross every pair of operations, and four operations
  (`MaxOperations`; a crash needs room for the startup pass after it) let
  either of them be followed by another. Three rows (`MaxRow`) are the entry, a
  row that a detail view leaves, and one that a refetch re-creates. Two sources are
  a migration's old and new one; one list re-issues a chapter under a new id. Numbers
  are counted in halves (`Whole` = 2), and the new source gives 0 to every chapter.
- *Status hub.* Two pages with one form join one job or start one after the other;
  a page and a watcher are in both maps at once, and with two jobs a client hears of
  one it has not asked for, or is in two buckets. `MaxJobs` bounds the jobs,
  `Casts` keeps the pairs apart for the liveness properties' sake;
  `EveryMessageOnce` is proved for all of them together. Sockets that hold one
  message fill at the second.

The type invariants are not invariants of a run: they are theorems. So are
`OneFetch` and `NoRefetch` of ImageFlight, `OnlyExportsStarve` and `LaneGoesOn` of
ImageLane, `OneSolveEach` of HostRequest, `OnlyInversionsStall` of PluginManager and
`EndIsLastWord` and `JobsLiveOnce` of JobHub.

### What the properties say

- `KeyExclusive` (fairness.go): however a job is vetoed, parked, requeued or
  taken again, two workers of a gated lane are never past the gate with one key.
- `DedupeExclusive`, `NoStaleEntry`: what the dedupe map and the registry hold
  are jobs on their way or just settled; of one DedupeKey one job is on its way.
- `HonestAnswer` (pool): nil means that the job ran and ended well.
- `NobodyStranded`: until Shutdown cancels the root context, the job behind a future
  that somebody awaits is settled, about to be refused, or at one place on its way
  to a worker. After that the code does lose waiters (see the observations).
- `ImplementsLifecycle`, `EveryCallAnswered`, `BoundedOvertaking`: see above.
- `AdmissionBounded`, `NoLostWakeup`, `EveryFetchAdmitted`: the counts are the
  requests in flight and within the caps; while a fetch is lined up, all slots are
  taken or somebody is on the way to look; a fetch sleeps exactly while it is lined
  up or about to be woken; and nobody waits for ever.
- `ImplementsSharedFetch`: to its callers the singleflight is one fetch they share;
  `OneFetch`, `NoRefetch` are the two halves of that as properties of its own state.
  `OwnEntryOnly`: no Delete of `imageFlight` removes another leader's entry.
  `FollowersServed`: whoever waits for a call waits for a closed one, or for one whose
  owner has a step to take that closes it, and the entry names such an owner; the
  exception is a job the pool has skipped, which is finding 1. `HonestAnswer`: never
  without bytes and without an error, and the error is one's own (context done, own
  call failed or refused, plugin offline): a follower whose leader failed or was
  cancelled tries again, against the comment at `image.go:37-39`. `EveryRequestReturns`: nobody is left
  waiting for a call that was refused or failed.
- `ExportsFinish`, `ReadersAnswered`: the composition has no starvation as long
  as exports leave a worker free. `OnlyExportsStarve`: the lane comes to rest in one
  way only, with an export on every image worker; `LaneGoesOn`: so never when there
  are fewer exports than workers.
- `RuntimeHeld`: no runtime is closed under a call. `ReloadTakesEffect`: a call
  that begins after a reload ended runs files at least as new as those the
  reload found. `LoadedIsUsable`: no dead runtime is marked as
  loaded, so the call after a failed one tries to load it again, with one
  exception the code has (see the observations). `ChallengeOwn`: a
  wasm plugin's challenge is reported by the call that met it, and by no other; a
  Lua guest does with one what it likes (see the observations). `HostCallsBounded`: a host call
  runs under the context of the invocation that makes it, whatever other calls of
  the plugin come between; the exceptions are the code's and named in it (see
  the observations). `GoneForAReason`: a call that has found its plugin loaded and then
  finds the runtime gone has met a shutdown, a reload, a reinstall, or shares a wasm
  module that another call has left dead; callLua and callJS, which do not check,
  panic for no other reason. `NamesFollowModules`: a plugin has at most one live
  wasm module, under its name, and a name that is taken without one, which keeps the
  plugin from loading, comes with a reported error. `EveryOperationEnds`: for the
  engines whose natives do not go back to the registry. `OnlyInversionsStall`: while the
  lock order holds and an operation is under way some operation can go on, and
  only those natives can break the order.
- `NoBlockSurfaces`: an answer RequestContext returns is no block, but on the
  stdlib shortcut and for a WAF block after a challenge. `NoAnswerWasted`: "requires
  verification" is reported only when the origin has given no real answer in the
  whole call. `BurstBounded`, `WalkExhausts`: a walk probes no profile and no
  User-Agent twice, and without a User-Agent list leaves none out but the one it
  found pinned. `PinsEarned`: pins in memory and in the database are set by a
  request that was just answered cleanly, to what it was answered on.
  `JarsSeeded`: no client goes without the cookies of a solve. `NobodyStuck`: a call
  has a step of its own, or a solve has, but for the call whose solve was refused
  (`CallsGoOn`, from the guards), and each of these steps is one that Next allows
  (`MovesAreSteps`, with ENABLED). `OneSolveEach`: the lane never holds two
  solves for one call.
- `IndexAgrees`: when nobody is between a write and its re-index and none was cut
  off since the last pass that looked, the index is what the library says.
  `LibraryIsTheReaders`: the rows in the library are those the reader put there,
  and those a cover refetch re-created. `OwnChapters`: an entry lists
  chapters of its own source, but for those a sync inserted that had found its row
  before a migration. `ProgressKept`: progress on a library chapter is lost to the
  reader's click, or when it was made between a prune's or migration's look and
  its write; a migration turns it into read chapters up to that number.
- `EveryMessageOnce`: what a registered client can read, and what is about to be
  written to it, is what was announced of the jobs it has asked for, whatever it
  filters by in between and whoever else comes and goes. `SubscribersHear`: a page
  that was registered before its job's last announcement shows the end, unless that
  is "dead" (see the observations). `EveryJobEnds`: waiting for the hub's mutex and for
  sockets under it keeps no job from ending. `EndIsLastWord`: nothing is announced of
  a job after its end, and the last thing announced is that end. `JobsLiveOnce`:
  however its announcements are held up, a job runs once and is settled once, and one
  that was refused is announced as dead before its callers get the error.

## 4. Fairness

- *Pool.* Weak fairness of each worker and of each caller from its closed check
  on: goroutines are scheduled, selects return, and a Run ends because its
  callers bound it. A background lane's timer ends a push that finds no room, so
  weak fairness of `EnqueueGiveUp(c, "busy")` is what the code gives. The
  interactive lane has no such timer in the pool; there the push is strongly fair,
  since a Go channel serves blocked senders in order of arrival. `ShutdownStop`
  follows `ShutdownClose` in one function. Nobody has to call Enqueue, to abandon
  a wait or to shut down.
- *Admission.* A fetch that has arrived goes on: the HTTP client's timeout
  bounds the request, after which the deferred release runs.
- *Singleflight.* Requests and their jobs go on; a fetch is bounded by its
  budget. Cancelling is never required.
- *Image lane.* As for the pool and the admission. A running export does ask for
  its pages; a reader does not have to.
- *Plugin manager.* An operation that has begun goes on. A guest is interrupted
  at its deadline; a native plugin is trusted to return, as the code trusts it.
- *Status hub.* A job, a broadcast and the two goroutines of a connection go on: a
  lane takes a job or its timer ends the push, a Run ends, a Go mutex is not
  withheld for good. Browsers read their sockets, which is an assumption about
  them and not about the code: a client that neither reads nor closes blocks
  every job. Nobody has to submit, to leave, or to filter but the page's once.
- *Upstream requests, library.* No fairness: their properties are safety. That no
  call is stuck behind a solve is stated by `NobodyStuck`, since who may wait for
  whom is the question and not how long.

## 5. What is proved

The theorems hold for every value of the constants that satisfies the named
assumption, not only for the instances of the runs. `tlapm` checks each module of
proofs.

**WorkerPool_proofs** (from `ConstantsAssumption`: the functions have their
domains, `None` and `NoKey` are new values, capacities and attempts are
positive, the workers are finitely many; nothing else is assumed about the number
of jobs or workers):

- `TypeCorrect`: `Spec => []TypeOK`. `TypeOK` is not inductive: a worker's step
  needs a job in its hands, a waiter's a future. `TypeInv` adds that
  (`WhereaboutsOK`).
- `PluginsExcluded`: `Spec => []KeyExclusive`. Two workers past the gate with
  one key are excluded because `inUse` holds the key of every such worker
  (`KeysInUse`) and the keys are pairwise different (`Excluded`): the gate adds a
  key that is not there, and a release removes a key nobody else has, which is
  what makes the two conjuncts need each other.

Further theorems follow from `LifeInv`, which says of every job where it is
(`PlaceInv`: once in its own queue, or in the hands of one worker of its lane, or
in its caller's push, and in one of these places only) and what that place means
for the registry, the dedupe map, its status and its future (`RegInv`: a job is
registered from its publication until its deregistration, its future is open
as long as it can still run, and its DedupeKey points at it exactly while it is on
its way):

- `DuplicatesExcluded`: `Spec => []DedupeExclusive`: two jobs with one key that
  are both on their way would be two values of the same entry of the map;
- `EntriesAccounted`: `Spec => []NoStaleEntry`: whoever is registered is in one
  of the places, and whoever leaves the last one takes its entries along;
- `WaitersToldTruth`: `Spec => []HonestAnswer`, from `HonestInv`: a future that
  holds nil belongs to a job that ended well, its attempts are within bounds
  (`AttemptsOK`), and what a caller was told is what its future holds (`ToldBy`);
- `PoolImplementsLifecycle`: `Spec => ImplementsLifecycle`. A phase depends on
  four facts of its job (`PhaseFacts`); each step leaves those of every job alone or
  moves those of one. That a conflicting job is not running when the gate lets a
  job past follows from `KeysInUse`.
- `WaitersAreServed`: `Spec => []NobodyStranded`. A future that is awaited may be
  another call's, joined through the DedupeKey. `FutureInv` says of it that it is
  closed, or its job is registered, or its job's caller is about to refuse it
  (`FutureOK`): whatever takes a job off the registry does one of the others. With
  `LifeInv` a registered job has its place;
- `OvertakingIsBounded`: `Spec => []BoundedOvertaking`. The bound is not inductive:
  `OvertakeInv` counts, for a high job in its queue, the low jobs that have passed
  it together with the image workers whose poll found the high queue empty before
  it came and who are still in the blocking select. Each of those may take one low
  job more, which moves it from one summand to the other; a worker that polls again
  sees the high job. The sum is at most the number of image workers.

**HostLanes_proofs** (from `HostLanesAssumption`: finitely many fetches, each
with a priority):

- `LanesTypeCorrect`: `LanesSpec => []LanesTypeOK`; in particular no counter
  drops below zero.
- `AdmissionCorrect`: `LanesSpec => []AdmissionBounded`, from counting: each step
  changes the count and the set of admitted fetches by the same one.
- `WakeupsKept`: `LanesSpec => []NoLostWakeup`. It needs `QueueInv`: the
  lists hold waiting fetches of their priority once each (`LinedUp`), who is
  about to be woken waits, is in no list and is woken by one (`AboutToWake`), and
  nobody else sleeps (`SleepersHeld`). Then a release that frees a slot adds itself
  to those on the way, a wake-up passes that on to the woken, and only a fetch that
  sees all slots taken lines up.

**ImageLane_proofs** (from the assumptions of both parts and `ImageLaneAssumption`:
finitely many exports, pages carry no DedupeKey). The module extends both parts
instead of instantiating them, so that their invariants can be cited for the lane:

- `LaneImplementsPool`: `LaneSpec => Spec`, and `LaneImplementsHost`: `LaneSpec =>
  LanesSpec`: every step of the lane is a step of the pool and a step of the host,
  one of which may stutter. Every theorem about either holds of the lane;
  `LaneOvertakingIsBounded` is the one a run checks here;
- `OnlyExportsStall`: `LaneSpec => []OnlyExportsStarve`. A fetch at the host keeps
  the worker that runs it (`FetchesHeld`). If one sleeps, another of its priority
  is in the lane, looks at the count or is about to wake somebody (`SleeperAwaited`,
  from `SleepInv`, the invariants of HostLanes_proofs), so its worker moves. An export
  that waits for a page waits for a call that can go on or for a job that is
  settled, refused, in a queue, or with a worker (`NobodyStranded`): each lets
  somebody move unless no worker is left to take it;
- `LaneNeverStalls`: `LaneSpec => []LaneGoesOn`, by the pigeonhole lemma
  `WorkerLeft`: with fewer exports than image workers one of these runs none.

**ImageFlight_proofs** (from `FlightAssumption`: `NoCall` is no request), all from
the inductive `FlightInv`:

- `FlightTypeCorrect`, and that a closed call holds data or an error;
- `EntryIsOwn`: `Spec => []OwnEntryOnly`. What makes it inductive is that a
  follower which is about to delete an entry waited for a call that its owner has
  left (`Following`);
- `FetchesOnce`: `Spec => []OneFetch`: a running job owns the entry, and the
  entry names one request;
- `NeverRefetches`: `Spec => NoRefetch`: between its second probe and its fetch
  an owner knows the page is missing, since only an owner can fill the cache
  (`MissBeforeFetch`);
- `AnswersHonestly`: `Spec => []HonestAnswer`, from what a call holds when it is
  read (`CallHolds`), and because whoever has not come to the loop has no call,
  job or leader (`Outside`);
- `NobodyIsLeft`: `Spec => []FollowersServed`. It holds by itself together with
  `LeaderAndJob`, which says at which places of its caller a job is in which state: a
  leader leaves the place where it would close the call only when a job does it;
- `FlightImplementsSharedFetch`: `Spec => ImplementsSharedFetch`. A job that starts
  maps to StartFetch because it owns the one entry and its owner has probed since; a
  caller that returns to Answer because nobody is answered before (`Unanswered`) and
  what it returns is in the cache or an error. All other steps stutter.

**PluginManager_proofs** (from `ManagerAssumption`: callers are neither reloaders
nor installers, the kinds are five, the two bounds are positive; nothing about how
many goroutines, objects or versions), from `BaseInv`: the types, who holds which
mutex (`Locked`), that an install has room for its object (`Room`) and that each
goroutine is in places of its role, with objects that are registered (`Roles`):

- `ManagerTypeCorrect`: `Spec => []TypeOK`, whose last conjuncts say that `m.mu`
  and each `p.mu` are held by exactly the goroutine inside their sections;
- `RuntimesAreHeld`: `Spec => []RuntimeHeld`, and `LoadedWorks`: `Spec =>
  []LoadedIsUsable`. `Runtimes` ties the flag of an object, its runtime and the
  calls on it together: whoever could close or replace the runtime of a call
  needs the `p.mu` the call holds;
- `ReloadsTakeEffect`: `Spec => []ReloadTakesEffect`. The invariant `VersionInv`
  speaks of what an object has *or is about to get*: a load in progress has read
  its files already, so `Fits(e, n)` asks the same of what it has read. It holds
  of the registered object for `floor` and for every reload past its unload,
  and of the object each call has looked up for that call;
- `HostCallsAreBounded`: `Spec => []HostCallsBounded`: during a call on an engine
  that publishes its context, `curCtx` is that call's (`Published`), since whoever
  else would write it needs `p.mu`;
- `ChallengesAreOwn`: `Spec => ChallengeOwn`: with one object of a wasm plugin registered,
  `m.challenges[id]` is set exactly if the call on it has met a challenge
  (`Parked`): all calls share that object's mutex, and a call meets one in its one
  host call (`Met`);
- `RuntimesGoForAReason`: `Spec => []GoneForAReason`, from `GoneInv`. A runtime that a
  call was bound to disappears by `Close`, by an `Unload`, whose goroutine then stays
  past it (`Reloaded`), or by the end of a wasm call, which leaves a caller that is done
  (`Expired` for the module whose deadline passed unnoticed);
- `NamesFollow`: `Spec => []NamesFollowModules`, from `NamesInv`. Each step either
  leaves the name and the live modules alone (`NamesKept`), drops both or reports an
  error (`NamesLeft`), or takes the name for a module when it was free, and then no
  module was live (`NamesTaken`). An error once reported stays (`ComplaintsStay`);
- `DeadlocksAreInversions`: `Spec => []OnlyInversionsStall`. Who holds a `p.mu` waits
  for `m.mu` if for anything (`HolderMoves`); who holds `m.mu` waits for a `p.mu`, whose
  holder `LockOrder` keeps from waiting in turn (`SomebodyMoves`). That a broken
  order needs `CallsBack` is in `Ended`, which says where each engine can be.

**HostRequest_proofs** (from `RequestAssumption`: the ladder lists different
profiles, the User-Agents of a list may repeat; nothing about the number of
requests, rungs or User-Agents). Four inductive invariants. `WalkInv` is about the
walks: with a User-Agent list, every probe has left its User-Agent in `seenUA` and
none that is left to try is in it (`ListWalked`); without one, the probes are the
rungs that were passed but the one the walk skips (`RungsWalked`); a request that
is on no ladder holds none of this (`Resting`). With `RestTyped`, the types of the
rest:

- `RequestTypes`: `Spec => []TypeOK`;
- `BurstsAreBounded`: `Spec => []BurstBounded`, by counting distinct User-Agents or
  distinct rungs;
- `WalksExhaust`: `Spec => WalkExhausts`: at the end of the ladder every rung was
  passed.

`SolveInv` is about the solves: a call that waits has one, and one that nobody
waits for belongs to a caller that has gone and is past every place that could ask
for another (`Orphaned`), since what is sent for it fails:

- `SolvesAreSingle`: `Spec => []OneSolveEach`;
- `NobodyWaitsInVain`: `Spec => []CallsGoOn`: who is in a walk has a first rung or
  User-Agent (`FirstPlace`), and who waits for a queued solve finds a worker free
  or a solve running.

`AnswerInv` is about the answers: a request without an answer holds none and the
origin has given it none (`Unanswered`), one that writes pins was answered cleanly
(`Won`):

- `BlocksStayIn`: `Spec => []NoBlockSurfaces`, and `AnswersReach`: `Spec =>
  []NoAnswerWasted`. Every step that takes an answer from the origin either
  hands it on or goes on with none (`Lands`), whichever way it came;
- `CookiesReachClients`: `Spec => []JarsSeeded`;
- `PinsAreEarned`: `Spec => PinsEarned`: each of the three writes is a step of a
  request that `Won`, at the rung and the User-Agent it was answered on.

**Library_proofs** (from `LibraryAssumption`: chapter numbers are integers in a
unit of which `Whole` make one, so fractions, negative numbers and equal ones are
all allowed, as `chapter_num REAL` and sources that give 0 to every chapter
(`chapters_bound.go:29-33`) have them; nothing about how many threads, sources,
lists, rows or operations. What is left out of REAL is a number so large that
adding one rounds back to it):

- `TablesConsistent`: `Spec => []TypeOK`, which holds the keys of the tables. The
  inductive form adds what a thread carries (`ThreadsTyped`: a migration knows its
  target, a row in hand was handed out) and that rows above the counter are
  empty (`Fresh`).
- `MembershipIsTheReaders`: `Spec => []LibraryIsTheReaders`: only an upsert of a
  refetch carries the flag, and a fresh row is in nobody's history.
- `ChaptersAreOwn`: `Spec => []OwnChapters`, with `Offers`: what a thread will
  insert, its source has listed.
- `ProgressIsKept`: `Spec => ProgressKept`, with `WindowInv`: inside its window a
  prune has hit no row with progress and a migration has collected every one,
  but for those in `late`.
- `IndexFollowsLibrary`: `Spec => []IndexAgrees`. The invariant `IndexInv` says
  that a document which is wrong is owed by a thread between a write and its
  re-index (`OwesStale`), one that is missing likewise (`OwesMissing`), unless
  `behind`; a thread that leaves has paid.

**JobHub_proofs** (from `HubAssumption`; nothing about how many jobs, pages or
watchers), from `HubInv`:

- `MessagesArriveOnce`: `Spec => []EveryMessageOnce`. `Placed` says that a client is
  in the map of all exactly while it has asked for nothing in particular, in a bucket
  exactly while it has asked for that job, and nowhere when it is not registered;
  `Targets` that the maps stand still under a broadcast. So the audience is who has
  asked, and none of it is written to twice. `Numbered` keeps a job that is
  published during a broadcast apart from the one that speaks;
- `HubTypeCorrect`: `Spec => []TypeOK`.

With `WordInv`, which speaks of a job's latest word (`Word`): what it is announcing, or
else what it announced last. A broadcast turns the one into the other without
changing it (`HubKeepsWord`), and a job goes on only when it is silent
(`JobStepFrame`):

- `EndsAreLastWords`: `Spec => []EndIsLastWord`;
- `JobsFollowLifecycle`: `Spec => JobsLiveOnce`. A refused job settles with an error
  because its latest word is "dead" and by then it has been said. It is the step part
  of a refinement only: the jobs that `Casts` has over before the first client
  turns up are settled in the initial state.

### What is only model-checked

- Liveness, which is out of the prover's reach: `EveryCallAnswered`,
  `EveryFetchAdmitted`, `EveryRequestReturns`, `ExportsFinish`, `ReadersAnswered`,
  `EveryOperationEnds`, `SubscribersHear`, `EveryJobEnds` and the fairness they
  rest on. The safety half, that nobody waits for somebody who has nothing to do, is
  proved where it is not obvious: `NobodyStranded` of the pool, `LaneGoesOn` of the image
  lane, `NoLostWakeup` of the admission, `FollowersServed` of the singleflight,
  `OnlyInversionsStall` of the plugin manager, `CallsGoOn` of the upstream requests.
- The second half of `NobodyStuck`, `MovesAreSteps`, which speaks of ENABLED. The
  first half, `CallsGoOn`, is proved.
- That `Moves` in `OnlyInversionsStall` is ENABLED of a goroutine's step, which the
  comparison of the guards shows and no theorem states.

## 6. Findings

Each is a run that TLC finds violated, against a sentence of the repository.

1. **AbandonedFlight** - `bridge/image.go:118-119`: "Await cancels the job, which
   closes call.done via the job's defer". If the job is still queued, the pool
   sees its context done and never calls Run, so the defer does not run: the
   entry stays in `imageFlight` and later requests for the URL wait at
   `<-shared.done`, whatever their own contexts say.
2. **ExportStarvation** - `bridge/export.go:81`: exports run on the image lane
   and wait, under a background context, for page fetches on the image lane. As
   many exports as workers, and none of them and no page ever finishes.
3. **ReloadDeadlock** - `pluginmanager/manager.go:104-107` rules out an
   inversion of `m.mu` and `p.mu`; `invokeCtx` (line 128) takes a read lock of
   `m.mu` from a JavaScript or yaegi host call with `p.mu` held, while a reload
   holds `m.mu` and waits for `p.mu`.

## 7. Observations

Met while reading and modelling; no run is about them.

*Pool and image lane*
- `workers/future.go:15-17` promises ErrClosed after Shutdown. A job that is still
  queued when the root context is cancelled is never settled: the workers exit,
  and Await under a background context (`views_migrate_search.go:98`,
  `migrate_candidates.go:98`) waits until the process ends. `NobodyStranded` therefore
  speaks of the time before.
- Await's abandonment cancels the job wherever it is, also when it runs and when
  others joined its future through the DedupeKey; the comment speaks of "the
  queued job". The joined caller is answered with a cancellation.
- `openspec/specs/image-fetch-priority/spec.md:26-29` asks for arrival order among
  fetches of one priority. A released slot is not handed to the woken waiter: a
  newcomer may take it, and the waiter lines up again at the end.
- hostAcquire has no context: a low-priority warm keeps its image worker while it
  waits for its host, so that speculation can occupy workers readers need.
- `jobs.go:23-24` says exec is 30 s; the constant is 120 s. `FromConfig` passes no
  size or queue for the cdp lane. ResizeLane is called by tests only.

- The doc comment of GetImage (`image.go:37-39`) has the callers that share a fetch
  see the cancellation error of the one that started it. The code does not: a
  follower whose leader ends with any error goes round the loop and fetches itself
  (lines 82-92), and one whose leader was cancelled while its job was queued is
  told nothing (finding 1). `HonestAnswer` is stated after the code.
- "Deactivated plugins must not issue remote image requests" (`image.go:51`) is
  asked once, before the loop: a follower that waits through a deactivation fetches
  as the next leader all the same.

*Plugin manager*
- callJS evaluates on the VM before it holds `p.mu` (`js_console.go:19,34`). A
  reload between `ensureLoaded` and the engine's lock leaves callLua and callJS
  with a nil runtime: the outcome "panic" of the model, which `GoneForAReason`
  limits to that.
- A deadline that passes in the host's own `malloc` or in the deferred
  `wasmFree` (`wasm_call.go:40-44`) closes the module while `loaded` stays true.
  Every later call then fails with "malloc failed" until a reload: what the
  comment at lines 50-55 describes as solved for the exported function. In the
  model this is the runtime "expired", the one exception of `LoadedIsUsable`.
- `goplug_call.go:13-15` says the deadline bounds a native plugin's host calls.
  After a lazy load the bridge is wired to the object `loadGo` built, which
  `ensureLoaded` has dropped (`lifecycle.go:37`), and they run on
  `context.Background()`: the exception `wired` of `HostCallsBounded`.
- callYaegi never publishes `curCtx`, so its host calls run on the background
  context, although `yaegi_host.go:18-20` has them torn down at the deadline;
  interpreted code may also outlive the evaluation's deadline.
- A Lua call that met a challenge need not end in one, although `lua_http.go:81-84`
  says that it must abort the plugin call: `http_request` returns it as an error
  table (`lua_globals.go:53-56`), the thrown one can be caught with pcall, and
  then the guest may return data or an error of its own. Conversely any error of the
  guest whose text holds the marker is typed as a challenge (`lua.go:129,184-195`),
  whether this call met one or not. Only what a wasm guest returns is overruled.
- Challenges are parked per id; an object replaced by Install and its successor
  share them, so `ChallengeOwn` is stated until the first reinstall. An empty wasm
  result is reported as an error before a parked challenge is looked at.
- A wasm load that fails after InstantiateModule, and a trap, leave the module's
  name taken, so the plugin cannot be loaded again (`reload.go:64-65` calls a bad
  edit recoverable). `NamesFollowModules` says that an error was reported then.
- Install replaces an entry without closing the old runtime. Installing a
  JavaScript or yaegi plugin whose top-level code makes a host call waits for
  the `m.mu` it holds (`install.go:54`).

*Upstream requests*
- `ladder.go:47-51` says that a plugin without a pin and without an engine is
  restricted to the stdlib rung, and `ladder_test.go:116-118` speaks of a minimal
  ladder. The next line takes the whole ladder for every plugin; the tests at
  `ladder_test.go:95-112` (stdlib reached after seven blocked profiles) and 223-243
  (up to eight requests without engine and pin) agree with the code, and so do
  `WalkExhausts` and `BurstBounded`.
- `seenUA` is one map for all rungs of a walk (`ladder.go:105-110`), though
  `ladder.go:15-19` and `request.go:118-121` speak of User-Agents on each profile:
  with a list, only the first untried profile gets probes, and a plugin whose one
  User-Agent is pinned probes that profile only. `WalkExhausts` is stated
  without a list, `BurstBounded` says what the burst is with one.
- A pin that another request sets between a failed send and `ladder.go:27` is
  taken for tried, and skipped, though this request never used it.
- Two walks, or a walk and a ResetProfile, can leave a profile and a User-Agent
  pinned that never won together, or a pin in the database that is not the one in
  memory: setPin persists after it has dropped the lock (`pins.go:183-191`).
- setUaPin stores the User-Agent resolved for the host, although
  `pins.go:70-72` says that "default" is not resolved. A verify User-Agent overrides
  the one a ladder probes, which makes those probes all alike.
- `ladder.go:22-24` calls a 429 or 5xx a real answer; in an image's walk one with
  an HTML body counts as a block when it is a page.
- A plugin pinned to the standard library's client skips the detection of
  challenges (`request.go:42-46`), and that client has no cookie jar. A WAF block
  on the retry after a challenge is returned as success. Both are exceptions of
  `NoBlockSurfaces`.
- `SubmitSolve` only logs a failed Enqueue (`service.go:58-65`), and solveAndSeed
  then waits for a channel nobody will write: for good, if its context has no
  deadline. The Enqueue itself blocks up to the lane's timeout, before the select
  on ctx.
- pendingVerify holds one seed per plugin. doRequestProfile's third
  transient read failure returns the part it has read as a success.

*Library*
- `openspec/specs/manga-source-migration/spec.md` has a migration replace the old
  source's chapters. A sync that has resolved its row before the commit inserts
  chapters of the old source afterwards (`stray`). The target's existence is
  looked up before the commit; a row a detail view makes meanwhile rolls it back.
- refetchCover writes back the in_library flag it read before its requests
  (`progress.go:133`): after a migration, the old source is a second entry of the
  library (`revived`).
- What is read between ReadSourceIDs and the commit, or between a prune's SELECT
  and its DELETE, is lost (`late`); the commit of another migration counts too.
- ReadSourceIDs counts opened chapters as read, where the specification says
  "marked read", and the bound is the number plus one, so that 40.5 becomes read
  with 40. A target that lists no chapters without an error leaves none.
- Two crossed SyncFTS can leave a document twice until the next pass counts.
  RebuildLibraryFTS is not one transaction.
- ToggleLibraryItem ignores the error of its lookup: the click does nothing and
  reports success. A row that a detail view leaves behind blocks a migration back
  to that source until it is pruned. A migration inside a sync's count shows a
  [New] badge that nothing earned.

*Hub, log stream, configuration, process*
- Status broadcasts write to each WebSocket client under the hub's mutex
  (`ws.go:143-158`), from a worker's goroutine: a client that does not read
  blocks every lane's status changes. A client that filters by a second job
  stays in the first one's bucket (`ws.go:114-127`) and is told of both.
- The page knows queued, running, done and failed (`alpine-components.js:254-257`). The
  pool announces "failed" for an attempt it is about to repeat and "dead" for the end
  (`enqueue_job.go:115,128`), and jobs of a form have three attempts. So a page shows
  "failed" at the first error, closes its socket and never learns of the later
  success; and it waits for good, its button disabled, when the only attempt ends in a
  challenge (a permanent error) or when it has subscribed after the last "failed".
  `openspec/changes/archive/2026-10-14-add-worker-pools/specs/worker-pools/spec.md:63`
  has the dead state reported.
- A page connects after it was answered: of a job that ended before the connection
  was registered it hears nothing, and there is no endpoint to ask (the comment
  at `alpine-components.js:293` speaks of a poll).
- streamLogs slices GetLogs by how much it has sent (`ws.go:47`). Once the ring
  is full a client that has sent it all gets nothing more, and after clear-logs the
  slice bounds are out of range.
- The configuration watcher compares modification times: a change within their
  granularity, or a file that fails to load once, is not applied until the next.
- The comment at `main.go:190` has HTTP stop before the worker pool; the
  code shuts the pool down first.

## 8. What is not modelled

- *Time.* Timers fire whenever they are armed; paceImage, back-off lengths and
  deadlines have no duration.
- *Pool*: the counters of the status page,
  configuration defaults, ResizeLane.
- *Images*: cache files, validation, codecs, the choice of Referer headers, the
  retry walk over them, archives.
- *Plugin manager*: discovery, metadata, parameters, LoadPlugin, decoding of
  results, the bindings of data helpers into each guest language; the inside of
  the engines, in particular what two evaluations do to one JavaScript VM.
- *Upstream requests*: headers, bodies, decompression, per-host User-Agent lists,
  the inside of the solvers and their circuit breaker. One host, one plugin.
- *Image lane*: the retries of a page fetch (they are HostRequest's) and what is
  written for a page.
- *Library*: titles, covers, dates and tags (a function of the source), the
  [New] badge, read_history, pages, enrichment and bulk operations, which repeat
  the operations modelled. A source that gives an id another number later: `Num` is a
  function of the id. Row ids of `chapters`, which SQLite may reuse. The
  number of documents of one entry in the index.
- *Log stream, configuration watcher, shutdown order*: the first two are a poll by one
  goroutine of what others write under a lock; see the observations. Shutdown is modelled where it matters, in WorkerPool
  (`ShutdownClose`, `ShutdownStop`) and Library (`Crash` and the startup pass).
- *HTTP handlers, templates, front end, tray and desktop client, plugin helper
  library, example plugins*: rendering and data work without state that steps
  interleave on. They are most of the repository's lines: dozens of example
  plugins that parse HTML, generated template code, page handlers, codecs.

## 9. Plan

Done, in this order, the most shared component first: WorkerPool with
JobLifecycle, HostLanes, ImageFlight, ImageLane, PluginManager, HostRequest, Library,
JobHub, and the proofs of all of them: that WorkerPool implements JobLifecycle, that
ImageFlight implements SharedFetch, that ImageLane implements WorkerPool and HostLanes,
that JobHub's jobs go the way of JobLifecycle, and every safety property of the
runs but what speaks of ENABLED.

Worth doing next:

- that ImageLane's page jobs implement ImageFlight's lane job, so that the two
  views of a page fetch are one;
- the refusals of Enqueue inside HostRequest, with the cdp lane as an instance of
  WorkerPool;
- the choice of Referer in an image's retries as a function over its candidates,
  checked against the order the comments give.
