--------------------------- MODULE ImageLane_proofs ---------------------------
(***************************************************************************)
(* Proofs about ImageLane, for every number of exports, pages and workers: *)
(* it implements the pool and the host lanes it is composed of, so what is *)
(* proved of either holds in it, and with more image workers than exports  *)
(* it never comes to rest on itself.                                       *)
(***************************************************************************)
EXTENDS ImageLane, WorkerPool_proofs, HostLanes_proofs

USE ImageLaneAssumption

allVars == <<vars, laneVars>>

-----------------------------------------------------------------------------
(* The two parts.                                                            *)

LEMMA NextPool == [LaneNext]_allVars => [Next]_vars
<1> SUFFICES ASSUME [LaneNext]_allVars PROVE [Next]_vars
  OBVIOUS
<1>1. ASSUME NEW c \in Jobs, Call(c) PROVE Next
  BY <1>1 DEF Call, Next
<1>2. ASSUME NEW p \in Fetches, ReaderLeaves(p) PROVE Next
  BY <1>2 DEF ReaderLeaves, Next
<1>3. ASSUME NEW p \in Fetches, FetchStep(p) PROVE UNCHANGED vars
  BY <1>3 DEF FetchStep
<1>4. ASSUME NEW w \in Workers, WorkerStep(w) PROVE Next
  <2>1. LaneErrors \subseteq RunErrors
    BY DEF LaneErrors, RunErrors
  <2> QED BY <1>4, <2>1 DEF WorkerStep, Worker, Next
<1> QED BY <1>1, <1>2, <1>3, <1>4 DEF LaneNext, allVars

\* The lane is a pool whose jobs are exports and page fetches.
THEOREM LaneImplementsPool == LaneSpec => Spec
<1>1. LaneInit => Init
  BY DEF LaneInit
<1> QED BY <1>1, NextPool, PTL DEF LaneSpec, Spec, allVars

\* A fetch comes to the host when its job starts, and goes on there by itself.
LEMMA NextHost == TypeInv /\ [LaneNext]_allVars => [LanesNext]_laneVars
<1> SUFFICES ASSUME TypeInv, [LaneNext]_allVars PROVE LanesNext \/ UNCHANGED laneVars
  OBVIOUS
<1>1. ASSUME NEW c \in Jobs, Call(c) PROVE UNCHANGED laneVars
  BY <1>1 DEF Call
<1>2. ASSUME NEW p \in Fetches, ReaderLeaves(p) PROVE UNCHANGED laneVars
  BY <1>2 DEF ReaderLeaves
<1>3. ASSUME NEW p \in Fetches, FetchStep(p) PROVE LanesNext
  BY <1>3 DEF FetchStep, LanesNext
<1>4. ASSUME NEW w \in Workers, WorkerStep(w) PROVE LanesNext \/ UNCHANGED laneVars
  <2>1. Run(w) => held[w] \in Jobs
    BY DEF Run, TypeInv, WhereaboutsOK, Holding, WorkerStates
  <2>2. CASE Run(w) /\ held[w] \notin Exports /\ Arrive(held[w])
    BY <2>1, <2>2 DEF LanesNext, Fetch
  <2> QED BY <1>4, <2>2 DEF WorkerStep
<1> QED BY <1>1, <1>2, <1>3, <1>4 DEF LaneNext, allVars

\* What happens at the host is what HostLanes says, of fetches that come only
\* when a worker runs them.
THEOREM LaneImplementsHost == LaneSpec => LanesSpec
<1>1. LaneInit => LanesInit
  BY DEF LaneInit
<1> QED BY <1>1, NextHost, LaneImplementsPool, TypeInvariant, PTL DEF LaneSpec, LanesSpec, allVars

\* In the lane as the service uses it a visible page is passed by at most one
\* low job for each image worker.
THEOREM LaneOvertakingIsBounded == LaneSpec => []BoundedOvertaking
BY LaneImplementsPool, OvertakingIsBounded, PTL

-----------------------------------------------------------------------------
(* A fetch that is somewhere at the host keeps the worker that runs it. *)

FetchesHeld == \A f \in Fetches : at[f] \notin {"idle", "out"} => InRun(f)

\* Callers leave the workers alone.
LEMMA CallersBeside ==
  ASSUME NEW c \in Jobs, Enqueue(c) \/ AwaitResult(c) \/ AwaitAbandon(c)
  PROVE  UNCHANGED <<pc, held>>
BY DEF Enqueue, AwaitResult, AwaitAbandon, EnqueueClosed, EnqueueOpen, EnqueueJoin, EnqueuePublish,
       EnqueuePush, EnqueueGiveUp, failQueued, workerVars

\* So do the other workers.
LEMMA WorkersBeside ==
  ASSUME TypeInv, NEW w \in Workers, Worker(w), NEW v \in Workers, v # w
  PROVE  pc'[v] = pc[v] /\ held'[v] = held[v]
<1> USE DEF workerVars
<1>0. pc \in [Workers -> WorkerStates] /\ held \in [Workers -> Jobs \cup {None}]
  BY DEF TypeInv, TypeOK
<1>1. CASE Select(w) \/ Exit(w)
  BY <1>0, <1>1 DEF Select, PollHigh, PollEmpty, Dequeue, Receive, Exit
<1>2. CASE takeKey(w) \/ Veto(w) \/ Requeue(w) \/ RetryGate(w)
  BY <1>0, <1>2 DEF takeKey, Veto, Requeue, RetryGate
<1>3. CASE Begin(w) \/ Run(w) \/ GiveUp(w) \/ Backoff(w)
  BY <1>0, <1>3 DEF Begin, Run, GiveUp, Backoff
<1>4. CASE \E err \in RunErrors : RunReturns(w, err)
  BY <1>0, <1>4 DEF RunReturns
<1>5. CASE Release(w) \/ DeliverResult(w) \/ deregister(w)
  BY <1>0, <1>5 DEF Release, DeliverResult, deregister
<1> QED BY <1>1, <1>2, <1>3, <1>4, <1>5 DEF Worker

\* A fetch that moves at the host was there before: only a sleeper is moved by
\* another.
LEMMA MovesWithin ==
  ASSUME QueueInv, NEW p \in Fetches, Fetch(p), at[p] # "idle", NEW f \in Fetches,
         at'[f] \notin {"idle", "out"}
  PROVE  at[f] \notin {"idle", "out"}
<1>0. at \in [Fetches -> FetchStates] /\ at[p] # "out"
  BY DEF QueueInv, QueueTypeOK, Fetch, Arrive, Acquire, LineUp, hostRelease, Wake
<1>1. CASE Acquire(p) \/ LineUp(p) \/ hostRelease(p)
  BY <1>0, <1>1 DEF Acquire, LineUp, hostRelease
<1>2. CASE Wake(p)
  <2>1. waking[p] \in Fetches /\ at[waking[p]] = "wait"
    BY <1>2 DEF Wake, QueueInv, AboutToWake
  <2> QED BY <1>0, <1>2, <2>1 DEF Wake
<1> QED BY <1>1, <1>2 DEF Fetch, Arrive

LEMMA HeldKept ==
  ASSUME TypeInv, FetchesHeld, NEW w \in Workers, WorkerStep(w), NEW f \in Fetches,
         at'[f] \notin {"idle", "out"}
  PROVE  InRun(f)'
<1>0. /\ pc \in [Workers -> WorkerStates] /\ held \in [Workers -> Jobs \cup {None}]
      /\ LaneErrors \subseteq RunErrors
  BY DEF TypeInv, TypeOK, LaneErrors, RunErrors
<1>1. Worker(w)
  BY <1>0 DEF WorkerStep, Worker
<1>2. ASSUME NEW v \in Workers, v # w, held[v] = f, pc[v] = "exec" PROVE InRun(f)'
  BY <1>1, <1>2, WorkersBeside DEF InRun
<1>3. CASE pc[w] # "exec" /\ UNCHANGED laneVars
  BY <1>2, <1>3 DEF FetchesHeld, InRun, laneVars
<1>4. CASE Run(w)
  <2>1. pc'[w] = "exec" /\ held' = held /\ pc[w] # "exec"
    BY <1>0, <1>4 DEF Run
  <2>2. held[w] = f \/ at[f] \notin {"idle", "out"}
    <3>1. CASE UNCHANGED laneVars
      BY <3>1 DEF laneVars
    <3>2. CASE Arrive(held[w])
      BY <3>2 DEF Arrive
    <3> QED BY <1>4, <2>1, <3>1, <3>2 DEF WorkerStep
  <2> QED BY <1>2, <2>1, <2>2 DEF FetchesHeld, InRun
<1>5. CASE pc[w] = "exec" /\ BodyDone(held[w]) /\ UNCHANGED laneVars
  <2>1. held[w] # f
    BY <1>5 DEF BodyDone, laneVars
  <2> QED BY <1>2, <1>5, <2>1 DEF FetchesHeld, InRun, laneVars
<1> QED BY <1>3, <1>4, <1>5 DEF WorkerStep

LEMMA NextHeld == TypeInv /\ QueueInv /\ FetchesHeld /\ [LaneNext]_allVars => FetchesHeld'
<1> SUFFICES ASSUME TypeInv, QueueInv, FetchesHeld, [LaneNext]_allVars,
                    NEW f \in Fetches, at'[f] \notin {"idle", "out"}
             PROVE  InRun(f)'
  BY DEF FetchesHeld
<1>1. CASE UNCHANGED <<at, pc, held>>
  BY <1>1 DEF FetchesHeld, InRun
<1>2. ASSUME NEW c \in Jobs, Call(c) \/ ReaderLeaves(c) PROVE UNCHANGED <<at, pc, held>>
  BY <1>2, CallersBeside DEF Call, ReaderLeaves, laneVars
<1>3. ASSUME NEW p \in Fetches, FetchStep(p) PROVE InRun(f)'
  <2>1. at[f] \notin {"idle", "out"}
    BY <1>3, MovesWithin DEF FetchStep
  <2> QED BY <1>3, <2>1 DEF FetchStep, FetchesHeld, InRun, vars, workerVars
<1>4. CASE UNCHANGED allVars
  BY <1>1, <1>4 DEF allVars, vars, workerVars, laneVars
<1> QED BY <1>1, <1>2, <1>3, <1>4, HeldKept DEF LaneNext

-----------------------------------------------------------------------------
(* No rest: a sleeper waits for somebody awake in its lane, an export for a    *)
(* free worker, and there are too few exports to fill the lane.              *)

SleepInv == QueueInv /\ CountInv /\ SlotsWanted /\ SleepersHeld

\* While a fetch sleeps another of its priority is in the lane, looks at the
\* count or is about to wake somebody.
LEMMA SleeperAwaited ==
  ASSUME SleepInv, NEW f \in Fetches, at[f] = "wait"
  PROVE  \E g \in Fetches : at[g] \in {"in", "try", "wake"}
<1> DEFINE p == PrioOf[f]
<1>1. CASE Popped(f)
  BY <1>1 DEF Popped
<1>2. CASE f \in Waiting(p)
  <2>1. p \in Prios /\ waiters[p] # <<>>
    BY <1>2, HostLanesAssumption DEF Waiting
  <2>2. Cardinality(InLane(p)) + Cardinality(OnTheWay(p)) >= 1
    <3>1. LaneCap[p] >= 1 /\ LaneCap[p] \in Nat
      BY <2>1 DEF LaneCap, Prios
    <3>2. count[p] + Cardinality(OnTheWay(p)) >= LaneCap[p] /\ count[p] = Cardinality(InLane(p))
      BY <2>1 DEF SleepInv, CountInv, AdmissionBounded, SlotsWanted
    <3>3. Cardinality(InLane(p)) \in Nat /\ Cardinality(OnTheWay(p)) \in Nat
      BY <2>1, SetsFinite, FS_CardinalityType
    <3> QED BY <3>1, <3>2, <3>3
  <2>3. InLane(p) # {} \/ OnTheWay(p) # {}
    BY <2>2, FS_EmptySet
  <2> QED BY <2>3 DEF InLane, OnTheWay
<1> QED BY <1>1, <1>2 DEF SleepInv, SleepersHeld

\* Only image workers run the lane's jobs.
LEMMA HeldByImage ==
  ASSUME PlaceInv, NEW w \in Workers, held[w] \in Jobs
  PROVE  LaneOf[w] = "image"
<1>1. QueueOf[held[w]] \in Sources(w) /\ QueueOf[held[w]] \in ImageQueues
  BY DEF PlaceInv, HandsOK
<1>2. LaneOf[w] \in Lanes
  BY ConstantsAssumption
<1> QED BY <1>1, <1>2 DEF Sources, Lanes, ImageQueues, Queues

\* A fetch that sleeps has its worker blocked, and another's worker not.
LEMMA SleeperServed ==
  ASSUME LifeInv, FetchesHeld, SleepInv, NEW f \in Fetches, at[f] = "wait"
  PROVE  \E v \in Workers : WorkerMoves(v)
<1>1. PICK g \in Fetches : at[g] \in {"in", "try", "wake"}
  BY SleeperAwaited
<1>2. PICK v \in Workers : held[v] = g /\ pc[v] = "exec"
  BY <1>1 DEF FetchesHeld, InRun
<1>3. LaneOf[v] = "image"
  BY <1>2, HeldByImage DEF LifeInv
<1> QED BY <1>1, <1>2, <1>3 DEF WorkerMoves, Blocked

\* A worker that holds the job of a fetch is at it, or hears from the host.
LEMMA CarrierServed ==
  ASSUME LifeInv, FetchesHeld, SleepInv, NEW v \in Workers, held[v] \in Fetches
  PROVE  \E u \in Workers : WorkerMoves(u)
<1>1. pc[v] \in Holding /\ LaneOf[v] = "image"
  BY HeldByImage DEF LifeInv, PlaceInv, HandsOK
<1>2. CASE Blocked(v)
  BY <1>2, SleeperServed DEF Blocked
<1>3. CASE ~Blocked(v)
  BY <1>1, <1>3 DEF WorkerMoves, Holding
<1> QED BY <1>2, <1>3

\* A queued job is taken, unless all the workers run exports.
LEMMA QueueServed ==
  ASSUME LifeInv, FutureInv, FetchesHeld, SleepInv, shut # "stopped",
         NEW q \in ImageQueues, queue[q] # <<>>,
         NEW v \in Workers, LaneOf[v] = "image", ~(pc[v] = "exec" /\ held[v] \in Exports)
  PROVE  \E u \in Workers : WorkerMoves(u)
<1>1. pc[v] # "exited"
  BY DEF FutureInv
<1>2. CASE Blocked(v)
  <2>1. held[v] \in Fetches
    BY <1>2 DEF Blocked, LifeInv, TypeInv, WhereaboutsOK, Holding, WorkerStates
  <2> QED BY <2>1, CarrierServed
<1>3. CASE ~Blocked(v)
  BY <1>1, <1>3 DEF WorkerMoves
<1> QED BY <1>2, <1>3

\* The page an export waits for is its own job: image fetches are not deduped.
LEMMA ExportServed ==
  ASSUME LifeInv, FutureInv, FetchesHeld, SleepInv, shut # "stopped",
         NEW w \in Workers, pc[w] = "exec", held[w] \in Exports, Blocked(w),
         NEW v \in Workers, LaneOf[v] = "image", ~(pc[v] = "exec" /\ held[v] \in Exports)
  PROVE  ServedSoon(w)
<1> DEFINE e == held[w]
<1>0. caller \in [Jobs -> CallerStates]
  BY DEF LifeInv, TypeInv, TypeOK
<1>1. PICK p \in PagesOf(e) : caller[p] # "answered"
  BY DEF Blocked, BodyDone
<1>2. CASE \E c \in PagesOf(e) : caller[c] \in {"publish", "push", "refused"}
  BY <1>2 DEF ServedSoon, CallMoves
<1>3. CASE \E c \in PagesOf(e) : caller[c] = "held"
  <2>1. PICK c \in PagesOf(e) : caller[c] = "held"
    BY <1>3
  <2>2. c \in Fetches /\ c \in Jobs /\ DedupeKeyOf[c] = NoKey
    BY <2>1 DEF PagesOf
  <2>3. future[c] = c /\ (done[c] \/ OnWay(c))
    BY <2>1, <2>2, FutureComes
  <2>4. CASE done[c]
    BY <2>1, <2>3, <2>4 DEF ServedSoon, CallMoves
  <2>5. CASE In(queue[QueueOf[c]], c)
    <3>1. QueueOf[c] \in ImageQueues /\ queue[QueueOf[c]] # <<>>
      BY <2>2, <2>5 DEF In
    <3> QED BY <3>1, QueueServed DEF ServedSoon
  <2>6. CASE Carried(c)
    BY <2>2, <2>6, CarrierServed DEF Carried, ServedSoon
  <2> QED BY <2>1, <2>3, <2>4, <2>5, <2>6 DEF OnWay
<1>4. CASE \A c \in PagesOf(e) : caller[c] \in {"idle", "answered"}
  <2>1. p \in Fetches /\ ExportOf[p] = e /\ caller[p] = "idle"
    BY <1>1, <1>4 DEF PagesOf
  <2>2. MayCall(p)
    BY <1>4, <2>1 DEF MayCall, InRun
  <2> QED BY <1>1, <2>1, <2>2 DEF ServedSoon, CallMoves
<1>5. \A c \in PagesOf(e) : caller[c] \in CallerStates
  BY <1>0 DEF PagesOf
<1> QED BY <1>2, <1>3, <1>4, <1>5 DEF CallerStates

LEMMA NeverAtRest ==
  LifeInv /\ FutureInv /\ FetchesHeld /\ SleepInv => OnlyExportsStarve
<1> SUFFICES ASSUME LifeInv, FutureInv, FetchesHeld, SleepInv, shut # "stopped",
                    NEW w \in Workers, Blocked(w),
                    NEW v \in Workers, LaneOf[v] = "image", ~(pc[v] = "exec" /\ held[v] \in Exports)
             PROVE  ServedSoon(w)
  BY DEF OnlyExportsStarve
<1>1. pc[w] = "exec" /\ held[w] \in Jobs
  BY DEF Blocked, LifeInv, TypeInv, WhereaboutsOK, Holding, WorkerStates
<1>2. CASE held[w] \in Exports
  BY <1>1, <1>2, ExportServed
<1>3. CASE held[w] \in Fetches
  BY <1>3, CarrierServed DEF ServedSoon
<1> QED BY <1>1, <1>2, <1>3

\* An export has one worker: fewer exports than workers leave one to the rest.
LEMMA WorkerLeft ==
  ASSUME PlaceInv, Cardinality(Exports) < Cardinality(ImageWorkers)
  PROVE  \E v \in ImageWorkers : held[v] \notin Exports
<1> SUFFICES ASSUME \A v \in ImageWorkers : held[v] \in Exports PROVE FALSE
  OBVIOUS
<1> DEFINE carries == [v \in ImageWorkers |-> held[v]]
<1>1. carries \in [ImageWorkers -> Exports]
  OBVIOUS
<1>2. IsFiniteSet(ImageWorkers) /\ IsFiniteSet(Exports)
  BY ImageWorkersFinite
<1>3. PICK u, v \in ImageWorkers : u # v /\ carries[u] = carries[v]
  <2> HIDE DEF carries
  <2> QED BY <1>1, <1>2, FS_PigeonHole
<1> QED BY <1>3 DEF PlaceInv, OneHolder, ImageWorkers

\* The exports that fill every image worker are the only way in which the lane
\* comes to rest: for every number of exports, pages, readers and workers, and
\* however pushes, refusals, cancellations, host slots and wake-ups cross
\* (export.go, jobs.go, image_pace.go, worker.go).
THEOREM OnlyExportsStall == LaneSpec => []OnlyExportsStarve
<1>1. LaneInit => FetchesHeld
  BY DEF LaneInit, LanesInit, FetchesHeld
<1>2. LanesInit => SleepersHeld
  BY DEF LanesInit, SleepersHeld
<1>3. LaneSpec => []LifeInv /\ []FutureInv
  BY LaneImplementsPool, LifeInvariant, FuturesInvariant, PTL
<1>4. LaneSpec => []SleepInv
  BY LaneImplementsHost, LanesInvariant, SleepersNext, <1>2, PTL DEF LanesSpec, SleepInv
<1>5. SleepInv /\ LifeInv => QueueInv /\ TypeInv
  BY DEF SleepInv, LifeInv
<1>6. LaneSpec => []FetchesHeld
  BY <1>1, <1>3, <1>4, <1>5, NextHeld, PTL DEF LaneSpec, allVars
<1> QED BY <1>3, <1>4, <1>6, NeverAtRest, PTL

\* With more image workers than exports whatever a worker waits for is under way.
THEOREM LaneNeverStalls == LaneSpec => []LaneGoesOn
<1>1. LifeInv /\ OnlyExportsStarve => LaneGoesOn
  <2> SUFFICES ASSUME LifeInv, OnlyExportsStarve, shut # "stopped",
                      Cardinality(Exports) < Cardinality(ImageWorkers), NEW w \in Workers, Blocked(w)
               PROVE  ServedSoon(w)
    BY DEF LaneGoesOn, ImageWorkers
  <2> QED BY WorkerLeft DEF LifeInv, OnlyExportsStarve, ImageWorkers
<1> QED BY <1>1, OnlyExportsStall, LaneImplementsPool, LifeInvariant, PTL

=============================================================================
