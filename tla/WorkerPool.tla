----------------------------- MODULE WorkerPool -----------------------------
(***************************************************************************)
(* The bounded worker pool of internal/workers: five lanes (six queues,    *)
(* the image lane has two), the job registry with its dedupe map, the      *)
(* per-plugin fairness gate, the retry loop, futures and Shutdown.         *)
(*                                                                         *)
(* A job stands for one call of Enqueue: its handle, its future and the    *)
(* goroutine that made the call and then awaits the future it was given.   *)
(* An atomic step is what the code does between two points where another   *)
(* goroutine can get in: one critical section, one channel operation, or   *)
(* the entry and the exit of job.Run.                                      *)
(***************************************************************************)
EXTENDS Naturals, Sequences, FiniteSets

CONSTANTS
  Jobs,         \* the calls of Enqueue
  Workers,      \* the worker goroutines New spawned
  PluginKeys,   \* the non-empty values of Job.PluginKey
  DedupeKeys,   \* the non-empty values of Job.DedupeKey
  NoKey,        \* the empty string, as a PluginKey or a DedupeKey
  None,         \* nil
  QueueOf,      \* the queue a job's Lane and Priority select
  PluginKeyOf,  \* Job.PluginKey
  DedupeKeyOf,  \* Job.DedupeKey
  MaxAttempts,  \* Job.MaxAttempts, after defaulting
  LaneOf,       \* the lane a worker serves
  Capacity,     \* the buffer size of each queue
  CanShutdown   \* FALSE for a pool that is never shut down

Queues == {"interactive", "fetch", "imageHigh", "imageLow", "maintenance", "cdp"}

ImageQueues == {"imageHigh", "imageLow"}

Lanes == (Queues \ ImageQueues) \cup {"image"}

GatedLanes == {"interactive", "fetch"}

ASSUME ConstantsAssumption ==
  /\ None \notin Jobs
  /\ NoKey \notin PluginKeys
  /\ NoKey \notin DedupeKeys
  /\ QueueOf \in [Jobs -> Queues]
  /\ PluginKeyOf \in [Jobs -> PluginKeys \cup {NoKey}]
  /\ DedupeKeyOf \in [Jobs -> DedupeKeys \cup {NoKey}]
  /\ MaxAttempts \in [Jobs -> Nat \ {0}]
  /\ LaneOf \in [Workers -> Lanes]
  /\ IsFiniteSet(Workers)
  /\ Capacity \in [Queues -> Nat \ {0}]
  /\ CanShutdown \in BOOLEAN

\* What a job's Run may return; "cancelled" stands for every ctx.Err().
RunErrors == {"nil", "transient", "permanent", "cancelled"}

Errors == RunErrors \cup {"busy", "enqueueTimeout", "closed"}

VARIABLES
  shut,       \* Shutdown: "open", "closed" (closed set), "stopped" (rootCtx done)
  queue,      \* the channel of each queue
  inUse,      \* fetchInUse and interactiveInUse, as pairs of lane and key
  registry,   \* the jobs in Pool.registry
  dedupe,     \* Pool.dedupe
  status,     \* jobHandle.status
  attempts,   \* jobHandle.attempts
  lastErr,    \* jobHandle.lastErr
  cancelled,  \* whether jobHandle.cancel was called
  done,       \* whether Future.done is closed
  result,     \* Future.result
  caller,     \* where the goroutine that called Enqueue is
  future,     \* the job whose future that goroutine was given
  answer,     \* what Enqueue or Await returned to it
  pc,         \* where each worker is
  held,       \* the job a worker took from its queue
  overtaken   \* history: how many low image jobs were taken past a job waiting in
              \* the high queue

poolVars == <<inUse, registry, dedupe, queue>>
handleVars == <<status, attempts, lastErr, cancelled, done, result>>
callerVars == <<caller, future, answer>>
workerVars == <<pc, held>>
vars == <<shut, overtaken, poolVars, handleVars, callerVars, workerVars>>

CallerStates == {"idle", "publish", "push", "refused", "held", "answered"}

WorkerStates == {"idle", "wait", "gate", "park", "begin", "try", "exec", "backoff",
                 "release", "deliver", "deregister", "exited"}

\* The worker states in which a worker has a job in its hands.
Holding == WorkerStates \ {"idle", "wait", "exited"}

\* ... and those in which that job also has its lane's fairness key.
PastGate == {"begin", "try", "exec", "backoff", "release"}

TypeOK ==
  /\ shut \in {"open", "closed", "stopped"}
  /\ queue \in [Queues -> Seq(Jobs)]
  /\ inUse \subseteq GatedLanes \X PluginKeys
  /\ registry \subseteq Jobs
  /\ dedupe \in [DedupeKeys -> Jobs \cup {None}]
  /\ status \in [Jobs -> {"new", "queued", "running", "failed", "done", "dead"}]
  /\ attempts \in [Jobs -> Nat]
  /\ lastErr \in [Jobs -> Errors]
  /\ cancelled \in [Jobs -> BOOLEAN]
  /\ done \in [Jobs -> BOOLEAN]
  /\ result \in [Jobs -> Errors]
  /\ caller \in [Jobs -> CallerStates]
  /\ future \in [Jobs -> Jobs \cup {None}]
  /\ answer \in [Jobs -> Errors \cup {None}]
  /\ pc \in [Workers -> WorkerStates]
  /\ held \in [Workers -> Jobs \cup {None}]
  /\ overtaken \in [Jobs -> Nat]

Init ==
  /\ shut = "open"
  /\ queue = [q \in Queues |-> <<>>]
  /\ inUse = {}
  /\ registry = {}
  /\ dedupe = [k \in DedupeKeys |-> None]
  /\ status = [j \in Jobs |-> "new"]
  /\ attempts = [j \in Jobs |-> 0]
  /\ lastErr = [j \in Jobs |-> "nil"]
  /\ cancelled = [j \in Jobs |-> FALSE]
  /\ done = [j \in Jobs |-> FALSE]
  /\ result = [j \in Jobs |-> "nil"]
  /\ caller = [j \in Jobs |-> "idle"]
  /\ future = [j \in Jobs |-> None]
  /\ answer = [j \in Jobs |-> None]
  /\ pc = [w \in Workers |-> "idle"]
  /\ held = [w \in Workers |-> None]
  /\ overtaken = [j \in Jobs |-> 0]

-----------------------------------------------------------------------------
(* Helpers *)

\* The job's context is done: its own cancel was called, or the pool's was.
CtxDone(j) == cancelled[j] \/ shut = "stopped"

HasRoom(q) == Len(queue[q]) < Capacity[q]

\* deregister(id): the dedupe entry goes only while it still names this job.
Deregistered(j) ==
  /\ registry' = registry \ {j}
  /\ dedupe' = [k \in DedupeKeys |-> IF k = DedupeKeyOf[j] /\ dedupe[k] = j
                                     THEN None ELSE dedupe[k]]

\* once.Do: the first to get here stores the result and closes done.
Deliver(j, err) ==
  /\ done' = [done EXCEPT ![j] = TRUE]
  /\ result' = IF done[j] THEN result ELSE [result EXCEPT ![j] = err]

\* Mutant of Duplicate: only a job that already runs counts.
DuplicateRunning(c) ==
  LET k == DedupeKeyOf[c]
  IN  k # NoKey /\ dedupe[k] # None /\ dedupe[k] \in registry /\ status[dedupe[k]] = "running"

\* An unfinished registered job already carries this call's DedupeKey.
Duplicate(c) ==
  LET k == DedupeKeyOf[c]
  IN  /\ k # NoKey
      /\ dedupe[k] # None
      /\ dedupe[k] \in registry
      /\ ~done[dedupe[k]]

-----------------------------------------------------------------------------
(* Enqueue and Await, run by the goroutine that wants the job done *)

EnqueueClosed(c) ==
  /\ caller[c] = "idle"
  /\ shut # "open"
  /\ caller' = [caller EXCEPT ![c] = "answered"]
  /\ answer' = [answer EXCEPT ![c] = "closed"]
  /\ UNCHANGED <<shut, overtaken, poolVars, handleVars, future, workerVars>>

\* The closed check passed; nothing looks at closed again.
EnqueueOpen(c) ==
  /\ caller[c] = "idle"
  /\ shut = "open"
  /\ caller' = [caller EXCEPT ![c] = "publish"]
  /\ UNCHANGED <<shut, overtaken, poolVars, handleVars, future, answer, workerVars>>

EnqueueJoin(c) ==
  /\ caller[c] = "publish"
  /\ Duplicate(c)
  /\ caller' = [caller EXCEPT ![c] = "held"]
  /\ future' = [future EXCEPT ![c] = dedupe[DedupeKeyOf[c]]]
  /\ cancelled' = [cancelled EXCEPT ![c] = TRUE]
  /\ UNCHANGED <<shut, overtaken, poolVars, status, attempts, lastErr, done, result, answer, workerVars>>

EnqueuePublish(c) ==
  /\ caller[c] = "publish"
  /\ ~Duplicate(c)
  /\ registry' = registry \cup {c}
  /\ dedupe' = [k \in DedupeKeys |-> IF k = DedupeKeyOf[c] THEN c ELSE dedupe[k]]
  /\ status' = [status EXCEPT ![c] = "queued"]
  /\ future' = [future EXCEPT ![c] = c]
  /\ caller' = [caller EXCEPT ![c] = "push"]
  /\ UNCHANGED <<shut, overtaken, queue, inUse, attempts, lastErr, cancelled, done, result, answer,
                 workerVars>>

EnqueuePush(c) ==
  /\ caller[c] = "push"
  /\ HasRoom(QueueOf[c])
  /\ queue' = [queue EXCEPT ![QueueOf[c]] = Append(@, c)]
  /\ caller' = [caller EXCEPT ![c] = "held"]
  /\ UNCHANGED <<shut, overtaken, inUse, registry, dedupe, handleVars, future, answer, workerVars>>

\* Mutant of EnqueueGiveUp: the registry and dedupe entries stay.
EnqueueGiveUpLeaks(c, err) ==
  /\ caller[c] = "push"
  /\ err \in {"cancelled", IF QueueOf[c] = "interactive" THEN "enqueueTimeout" ELSE "busy"}
  /\ cancelled' = [cancelled EXCEPT ![c] = TRUE]
  /\ answer' = [answer EXCEPT ![c] = err]
  /\ caller' = [caller EXCEPT ![c] = "refused"]
  /\ UNCHANGED <<shut, overtaken, poolVars, status, attempts, lastErr, done, result, future, workerVars>>

\* The ctx of the call is done, or a background lane's timer fired: the
\* interactive lane has no timer of its own.
EnqueueGiveUp(c, err) ==
  /\ caller[c] = "push"
  /\ err \in {"cancelled", IF QueueOf[c] = "interactive" THEN "enqueueTimeout" ELSE "busy"}
  /\ cancelled' = [cancelled EXCEPT ![c] = TRUE]
  /\ Deregistered(c)
  /\ answer' = [answer EXCEPT ![c] = err]
  /\ caller' = [caller EXCEPT ![c] = "refused"]
  /\ UNCHANGED <<shut, overtaken, queue, inUse, status, attempts, lastErr, done, result, future,
                 workerVars>>

\* Mutant of failQueued: the future of the refused job is not settled.
failQueuedSilently(c) ==
  /\ caller[c] = "refused"
  /\ status' = [status EXCEPT ![c] = "dead"]
  /\ lastErr' = [lastErr EXCEPT ![c] = answer[c]]
  /\ caller' = [caller EXCEPT ![c] = "answered"]
  /\ UNCHANGED <<shut, overtaken, poolVars, attempts, cancelled, done, result, future, answer, workerVars>>

failQueued(c) ==
  /\ caller[c] = "refused"
  /\ status' = [status EXCEPT ![c] = "dead"]
  /\ lastErr' = [lastErr EXCEPT ![c] = answer[c]]
  /\ Deliver(c, answer[c])
  /\ caller' = [caller EXCEPT ![c] = "answered"]
  /\ UNCHANGED <<shut, overtaken, poolVars, attempts, cancelled, future, answer, workerVars>>

AwaitResult(c) ==
  /\ caller[c] = "held"
  /\ done[future[c]]
  /\ answer' = [answer EXCEPT ![c] = result[future[c]]]
  /\ caller' = [caller EXCEPT ![c] = "answered"]
  /\ UNCHANGED <<shut, overtaken, poolVars, handleVars, future, workerVars>>

\* The waiter's ctx is done: the job is cancelled, wherever it is by now and
\* whoever else shares its future.
AwaitAbandon(c) ==
  /\ caller[c] = "held"
  /\ cancelled' = [cancelled EXCEPT ![future[c]] = TRUE]
  /\ answer' = [answer EXCEPT ![c] = "cancelled"]
  /\ caller' = [caller EXCEPT ![c] = "answered"]
  /\ UNCHANGED <<shut, overtaken, poolVars, status, attempts, lastErr, done, result, future, workerVars>>

-----------------------------------------------------------------------------
(* The workers *)

\* Mutant of Sources: the image workers drain the high queue only.
SourcesHighOnly(w) == IF LaneOf[w] = "image" THEN {"imageHigh"} ELSE {LaneOf[w]}

\* Mutant of Sources: the blocking select of the image workers forgot the high queue.
SourcesLowOnly(w) == IF LaneOf[w] = "image" THEN {"imageLow"} ELSE {LaneOf[w]}

\* The queues worker w may receive from in its blocking select.
Sources(w) == IF LaneOf[w] = "image" THEN ImageQueues ELSE {LaneOf[w]}

WaitsHigh(j) == \E i \in 1..Len(queue["imageHigh"]) : queue["imageHigh"][i] = j

\* w receives the head of q; only gated lanes pass the fairness gate first.
Receive(w, q) ==
  /\ queue[q] # <<>>
  /\ queue' = [queue EXCEPT ![q] = Tail(@)]
  /\ held' = [held EXCEPT ![w] = Head(queue[q])]
  /\ pc' = [pc EXCEPT ![w] = IF LaneOf[w] \in GatedLanes THEN "gate" ELSE "begin"]
  /\ overtaken' = [j \in Jobs |-> IF q = "imageLow" /\ WaitsHigh(j) THEN overtaken[j] + 1 ELSE overtaken[j]]
  /\ UNCHANGED <<shut, inUse, registry, dedupe, handleVars, callerVars>>

\* The blocking select of worker and the second select of imageWorker.
Dequeue(w) ==
  /\ pc[w] = IF LaneOf[w] = "image" THEN "wait" ELSE "idle"
  /\ \E q \in Sources(w) : Receive(w, q)

\* imageWorker's first select takes a high job if there is one ...
PollHigh(w) ==
  /\ LaneOf[w] = "image"
  /\ pc[w] = "idle"
  /\ Receive(w, "imageHigh")

\* Mutant of PollEmpty: the high queue is not looked at.
PollNothing(w) ==
  /\ LaneOf[w] = "image"
  /\ pc[w] = "idle"
  /\ shut # "stopped"
  /\ pc' = [pc EXCEPT ![w] = "wait"]
  /\ UNCHANGED <<shut, overtaken, poolVars, handleVars, callerVars, held>>

\* ... and falls through to the blocking one if there is none.
PollEmpty(w) ==
  /\ LaneOf[w] = "image"
  /\ pc[w] = "idle"
  /\ queue["imageHigh"] = <<>>
  /\ shut # "stopped"
  /\ pc' = [pc EXCEPT ![w] = "wait"]
  /\ UNCHANGED <<shut, overtaken, poolVars, handleVars, callerVars, held>>

\* Where a worker gets its next job: imageWorker polls before it blocks.
Select(w) ==
  IF LaneOf[w] = "image" /\ pc[w] = "idle" THEN PollHigh(w) \/ PollEmpty(w) ELSE Dequeue(w)

\* rootCtx is done at a select, or while a vetoed job waits: that job is dropped.
Exit(w) ==
  /\ pc[w] \in {"idle", "wait", "park"}
  /\ shut = "stopped"
  /\ pc' = [pc EXCEPT ![w] = "exited"]
  /\ held' = [held EXCEPT ![w] = None]
  /\ UNCHANGED <<shut, overtaken, poolVars, handleVars, callerVars>>

-----------------------------------------------------------------------------
(* The fairness gate *)

KeyOf(w) == <<LaneOf[w], PluginKeyOf[held[w]]>>

\* Mutant of takeKey: the key is taken without a look at inUse.
takeKeyBlindly(w) ==
  /\ pc[w] = "gate"
  /\ inUse' = IF PluginKeyOf[held[w]] = NoKey THEN inUse ELSE inUse \cup {KeyOf(w)}
  /\ pc' = [pc EXCEPT ![w] = "begin"]
  /\ UNCHANGED <<shut, overtaken, queue, registry, dedupe, handleVars, callerVars, held>>

takeKey(w) ==
  /\ pc[w] = "gate"
  /\ KeyOf(w) \notin inUse
  /\ inUse' = IF PluginKeyOf[held[w]] = NoKey THEN inUse ELSE inUse \cup {KeyOf(w)}
  /\ pc' = [pc EXCEPT ![w] = "begin"]
  /\ UNCHANGED <<shut, overtaken, queue, registry, dedupe, handleVars, callerVars, held>>

Veto(w) ==
  /\ pc[w] = "gate"
  /\ KeyOf(w) \in inUse
  /\ pc' = [pc EXCEPT ![w] = "park"]
  /\ UNCHANGED <<shut, overtaken, poolVars, handleVars, callerVars, held>>

\* Mutant of Requeue: no continue, the vetoed job is run as well.
RequeueAndRun(w) ==
  /\ pc[w] = "park"
  /\ HasRoom(LaneOf[w])
  /\ queue' = [queue EXCEPT ![LaneOf[w]] = Append(@, held[w])]
  /\ pc' = [pc EXCEPT ![w] = "begin"]
  /\ UNCHANGED <<shut, overtaken, inUse, registry, dedupe, handleVars, callerVars, held>>

Requeue(w) ==
  /\ pc[w] = "park"
  /\ HasRoom(LaneOf[w])
  /\ queue' = [queue EXCEPT ![LaneOf[w]] = Append(@, held[w])]
  /\ held' = [held EXCEPT ![w] = None]
  /\ pc' = [pc EXCEPT ![w] = "idle"]
  /\ UNCHANGED <<shut, overtaken, inUse, registry, dedupe, handleVars, callerVars>>

\* A millisecond later the gate is tried again.
RetryGate(w) ==
  /\ pc[w] = "park"
  /\ pc' = [pc EXCEPT ![w] = "gate"]
  /\ UNCHANGED <<shut, overtaken, poolVars, handleVars, callerVars, held>>

Begin(w) ==
  /\ pc[w] = "begin"
  /\ status' = [status EXCEPT ![held[w]] = "running"]
  /\ attempts' = [attempts EXCEPT ![held[w]] = 1]
  /\ pc' = [pc EXCEPT ![w] = "try"]
  /\ UNCHANGED <<shut, overtaken, poolVars, lastErr, cancelled, done, result, callerVars, held>>

\* Mutant of GiveUp: the context's error is not recorded.
GiveUpWithoutError(w) ==
  /\ pc[w] \in {"try", "backoff"}
  /\ CtxDone(held[w])
  /\ status' = [status EXCEPT ![held[w]] = "dead"]
  /\ pc' = [pc EXCEPT ![w] = "release"]
  /\ UNCHANGED <<shut, overtaken, poolVars, attempts, lastErr, cancelled, done, result, callerVars, held>>

\* The job is over without (another) run: its context was done.
GiveUp(w) ==
  /\ pc[w] \in {"try", "backoff"}
  /\ CtxDone(held[w])
  /\ status' = [status EXCEPT ![held[w]] = "dead"]
  /\ lastErr' = [lastErr EXCEPT ![held[w]] = "cancelled"]
  /\ pc' = [pc EXCEPT ![w] = "release"]
  /\ UNCHANGED <<shut, overtaken, poolVars, attempts, cancelled, done, result, callerVars, held>>

\* job.Run is called.
Run(w) ==
  /\ pc[w] = "try"
  /\ ~CtxDone(held[w])
  /\ pc' = [pc EXCEPT ![w] = "exec"]
  /\ UNCHANGED <<shut, overtaken, poolVars, handleVars, callerVars, held>>

\* An error that is not permanent is retried while attempts are left.
Retried(j, err) == err \in {"transient", "cancelled"} /\ attempts[j] < MaxAttempts[j]

\* job.Run returns; it can return its ctx's error only once that is done.
RunReturns(w, err) ==
  /\ pc[w] = "exec"
  /\ err = "cancelled" => CtxDone(held[w])
  /\ status' = [status EXCEPT ![held[w]] = IF err = "nil" THEN "done"
                                           ELSE IF Retried(held[w], err) THEN "failed"
                                           ELSE "dead"]
  /\ lastErr' = IF Retried(held[w], err) THEN lastErr ELSE [lastErr EXCEPT ![held[w]] = err]
  /\ pc' = [pc EXCEPT ![w] = IF Retried(held[w], err) THEN "backoff" ELSE "release"]
  /\ UNCHANGED <<shut, overtaken, poolVars, attempts, cancelled, done, result, callerVars, held>>

Backoff(w) ==
  /\ pc[w] = "backoff"
  /\ attempts' = [attempts EXCEPT ![held[w]] = @ + 1]
  /\ pc' = [pc EXCEPT ![w] = "try"]
  /\ UNCHANGED <<shut, overtaken, poolVars, status, lastErr, cancelled, done, result, callerVars, held>>

\* release() gives the fairness key back, before the result is delivered.
Release(w) ==
  /\ pc[w] = "release"
  /\ inUse' = inUse \ {KeyOf(w)}
  /\ pc' = [pc EXCEPT ![w] = "deliver"]
  /\ UNCHANGED <<shut, overtaken, queue, registry, dedupe, handleVars, callerVars, held>>

DeliverResult(w) ==
  /\ pc[w] = "deliver"
  /\ Deliver(held[w], lastErr[held[w]])
  /\ pc' = [pc EXCEPT ![w] = "deregister"]
  /\ UNCHANGED <<shut, overtaken, poolVars, status, attempts, lastErr, cancelled, callerVars, held>>

deregister(w) ==
  /\ pc[w] = "deregister"
  /\ Deregistered(held[w])
  /\ pc' = [pc EXCEPT ![w] = "idle"]
  /\ held' = [held EXCEPT ![w] = None]
  /\ UNCHANGED <<shut, overtaken, queue, inUse, handleVars, callerVars>>

-----------------------------------------------------------------------------
(* Shutdown: closed is swapped first, then the root context is cancelled.
   The bounded wait for the workers changes nothing in the pool. *)

ShutdownClose ==
  /\ CanShutdown
  /\ shut = "open"
  /\ shut' = "closed"
  /\ UNCHANGED <<overtaken, poolVars, handleVars, callerVars, workerVars>>

ShutdownStop ==
  /\ shut = "closed"
  /\ shut' = "stopped"
  /\ UNCHANGED <<overtaken, poolVars, handleVars, callerVars, workerVars>>

Enqueue(c) ==
  \/ EnqueueClosed(c) \/ EnqueueOpen(c)
  \/ EnqueueJoin(c) \/ EnqueuePublish(c) \/ EnqueuePush(c)
  \/ \E err \in Errors : EnqueueGiveUp(c, err)
  \/ failQueued(c)

Worker(w) ==
  \/ Select(w) \/ Exit(w)
  \/ takeKey(w) \/ Veto(w) \/ Requeue(w) \/ RetryGate(w)
  \/ Begin(w) \/ Run(w) \/ GiveUp(w) \/ Backoff(w)
  \/ \E err \in RunErrors : RunReturns(w, err)
  \/ Release(w) \/ DeliverResult(w) \/ deregister(w)

Next ==
  \/ \E c \in Jobs : Enqueue(c) \/ AwaitResult(c) \/ AwaitAbandon(c)
  \/ \E w \in Workers : Worker(w)
  \/ ShutdownClose
  \/ ShutdownStop

Spec == Init /\ [][Next]_vars

\* Goroutines are scheduled and selects return: the workers and every caller
\* past its closed check keep taking steps, and job.Run returns in the end (its
\* callers bound it). A background lane's timer ends a push that finds no room;
\* on the interactive lane nothing does, and the channel hands free slots to
\* blocked senders in arrival order, hence SF. Nobody has to enqueue, to
\* abandon a wait or to shut down.
Fairness ==
  /\ \A w \in Workers : WF_vars(Worker(w))
  /\ \A c \in Jobs :
       WF_vars(EnqueueJoin(c) \/ EnqueuePublish(c) \/ EnqueueGiveUp(c, "busy") \/ failQueued(c)
               \/ AwaitResult(c))
  /\ \A c \in {j \in Jobs : QueueOf[j] = "interactive"} : SF_vars(EnqueuePush(c))
  /\ WF_vars(ShutdownStop)

FairSpec == Spec /\ Fairness

-----------------------------------------------------------------------------
(* Properties *)

\* Per-plugin fairness: two workers of a gated lane never run jobs of one
\* plugin at once, however jobs are vetoed, parked and requeued (fairness.go).
KeyExclusive ==
  \A v, w \in Workers :
    /\ v # w
    /\ LaneOf[v] = LaneOf[w] /\ LaneOf[v] \in GatedLanes
    /\ pc[v] \in PastGate /\ pc[w] \in PastGate
    /\ PluginKeyOf[held[v]] # NoKey
    => PluginKeyOf[held[v]] # PluginKeyOf[held[w]]

\* Everywhere job j is on its way to being run.
Pushing(j) == IF caller[j] = "push" THEN 1 ELSE 0
Queued(j) == Cardinality({i \in 1..Len(queue[QueueOf[j]]) : queue[QueueOf[j]][i] = j})
HeldBy(j) == Cardinality({w \in Workers : held[w] = j /\ pc[w] # "deregister"})
Places(j) == Pushing(j) + Queued(j) + HeldBy(j)

\* Of the jobs that carry one DedupeKey at most one is on its way to being run
\* (enqueue_job.go:42-57), and the dedupe map names it or nobody.
DedupeExclusive ==
  \A j \in Jobs : DedupeKeyOf[j] # NoKey /\ Places(j) > 0 =>
    dedupe[DedupeKeyOf[j]] = j

\* The registry and the dedupe map leak nothing: an entry belongs to a job on
\* its way or just settled, until the root context is cancelled.
NoStaleEntry ==
  /\ \A k \in DedupeKeys : dedupe[k] # None =>
       dedupe[k] \in registry /\ DedupeKeyOf[dedupe[k]] = k
  /\ \A j \in registry : shut # "stopped" =>
       Places(j) = 1 \/ \E w \in Workers : held[w] = j /\ pc[w] = "deregister"

\* A job that ended well did run, and nobody had cancelled it when it started:
\* a waiter is told nil only for a job whose last status is done.
HonestAnswer ==
  \A c \in Jobs : caller[c] = "answered" /\ answer[c] = "nil" =>
    status[future[c]] = "done" /\ attempts[future[c]] \in 1..MaxAttempts[future[c]]

\* A call that passed its closed check is answered in the end: nobody waits
\* forever for a queue slot, a fairness key, a retry or a result.
EveryCallAnswered ==
  \A c \in Jobs : caller[c] # "idle" ~> caller[c] = "answered"

\* Until the root context is cancelled nobody waits in vain: the job behind a
\* future that is awaited is settled, its refusal is about to settle it, or it
\* has its one place on the way to a worker. After ShutdownStop this is lost:
\* Await watches the future and its own context only (future.go:28-41), and the
\* jobs still queued are left where they are.
NobodyStranded ==
  shut # "stopped" => \A c \in Jobs : caller[c] = "held" =>
    done[future[c]] \/ caller[future[c]] = "refused" \/ Places(future[c]) = 1

\* "High-priority jobs are drained before low ones": a worker that is in its
\* blocking select already takes either, so a waiting high job is passed by at
\* most one low job for each image worker, after which every worker has polled
\* the high queue again (worker.go:63-84).
BoundedOvertaking ==
  \A j \in Jobs : overtaken[j] <= Cardinality({w \in Workers : LaneOf[w] = "image"})

-----------------------------------------------------------------------------
(* What the pool promises, see JobLifecycle *)

Phase(j) ==
  IF status[j] = "new" THEN "new"
  ELSE IF \E w \in Workers : held[w] = j /\ pc[w] \in PastGate THEN "running"
  ELSE IF \E w \in Workers : held[w] = j /\ pc[w] = "deliver" THEN "finished"
  ELSE IF done[j] THEN "settled"
  ELSE "waiting"

\* Two jobs of one gated lane and one plugin.
Conflict ==
  {p \in Jobs \X Jobs :
     /\ p[1] # p[2]
     /\ QueueOf[p[1]] = QueueOf[p[2]] /\ QueueOf[p[1]] \in GatedLanes
     /\ PluginKeyOf[p[1]] = PluginKeyOf[p[2]] /\ PluginKeyOf[p[1]] # NoKey}

Lifecycle == INSTANCE JobLifecycle WITH 
  phase <- [j \in Jobs |-> Phase(j)], outcome <- result

\* The pool implements the life cycle its callers rely on.
ImplementsLifecycle == Lifecycle!Spec

=============================================================================
