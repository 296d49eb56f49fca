-------------------------- MODULE WorkerPool_proofs --------------------------
(***************************************************************************)
(* Proofs about WorkerPool, for every number of jobs, workers, plugins,    *)
(* lanes, queue sizes and attempts: its types, the exclusion that the      *)
(* per-plugin fairness gate keeps, where each job is and what follows from *)
(* its being in one place only - the registry and the dedupe map are true  *)
(* to it, a waiter is told the truth, the pool implements JobLifecycle -   *)
(* and how far low image jobs overtake a high one.                         *)
(***************************************************************************)
EXTENDS WorkerPool, SequenceTheorems, FiniteSetTheorems, TLAPS

\* Who is somewhere has what that place needs: a worker a job, at the gate a
\* gated lane, a waiter a future, a refused caller its error.
WhereaboutsOK ==
  /\ \A w \in Workers : pc[w] \in Holding => held[w] \in Jobs
  /\ \A w \in Workers : pc[w] \in {"gate", "park"} => LaneOf[w] \in GatedLanes
  /\ \A c \in Jobs : caller[c] \in {"push", "held"} => future[c] \in Jobs
  /\ \A c \in Jobs : caller[c] = "refused" => answer[c] \in Errors

TypeInv == TypeOK /\ WhereaboutsOK

\* A queue that is not empty has a first job, and a rest.
LEMMA QueueHead ==
  ASSUME NEW s \in Seq(Jobs), s # <<>>
  PROVE  Head(s) \in Jobs /\ Tail(s) \in Seq(Jobs)
OBVIOUS

\* Deregistered keeps the types of what it writes.
LEMMA DeregisteredType ==
  ASSUME TypeOK, NEW j \in Jobs, Deregistered(j)
  PROVE  registry' \subseteq Jobs /\ dedupe' \in [DedupeKeys -> Jobs \cup {None}]
BY DEF TypeOK, Deregistered

\* So does Deliver.
LEMMA DeliverType ==
  ASSUME TypeOK, NEW j \in Jobs, NEW err \in Errors, Deliver(j, err)
  PROVE  done' \in [Jobs -> BOOLEAN] /\ result' \in [Jobs -> Errors]
BY DEF TypeOK, Deliver

\* The history counter of a Receive counts.
LEMMA OvertakenType ==
  ASSUME TypeOK, NEW w \in Workers, NEW q \in Queues, Receive(w, q)
  PROVE  overtaken' \in [Jobs -> Nat]
<1>1. \A j \in Jobs : overtaken[j] \in Nat /\ overtaken[j] + 1 \in Nat
  BY DEF TypeOK
<1>2. ASSUME NEW j \in Jobs
      PROVE  (IF q = "imageLow" /\ WaitsHigh(j) THEN overtaken[j] + 1 ELSE overtaken[j]) \in Nat
  <2>1. CASE q = "imageLow" /\ WaitsHigh(j)
    BY <1>1, <2>1
  <2>2. CASE ~(q = "imageLow" /\ WaitsHigh(j))
    BY <1>1, <2>2
  <2> QED BY <2>1, <2>2
<1> QED BY <1>2, Zenon DEF Receive

LEMMA InitType == Init => TypeInv
BY ConstantsAssumption
   DEF Init, TypeInv, TypeOK, WhereaboutsOK, Errors, RunErrors, CallerStates, WorkerStates, Holding

USE ConstantsAssumption

\* The caller's side.
LEMMA CallerType ==
  ASSUME TypeInv, NEW c \in Jobs, Enqueue(c) \/ AwaitResult(c) \/ AwaitAbandon(c)
  PROVE  TypeInv'
<1> USE DEF TypeInv, TypeOK, WhereaboutsOK, poolVars, handleVars, callerVars, workerVars
<1>1. CASE EnqueueClosed(c)
  BY <1>1 DEF EnqueueClosed, CallerStates, Errors
<1>2. CASE EnqueueOpen(c)
  BY <1>2 DEF EnqueueOpen, CallerStates
<1>3. CASE EnqueueJoin(c)
  BY <1>3 DEF EnqueueJoin, Duplicate, CallerStates
<1>4. CASE EnqueuePublish(c)
  BY <1>4 DEF EnqueuePublish, CallerStates
<1>5. CASE EnqueuePush(c)
  BY <1>5 DEF EnqueuePush, CallerStates
<1>6. ASSUME NEW err \in Errors, EnqueueGiveUp(c, err) PROVE TypeInv'
  <2>1. registry' \subseteq Jobs /\ dedupe' \in [DedupeKeys -> Jobs \cup {None}]
    BY <1>6, DeregisteredType DEF EnqueueGiveUp
  <2> QED BY <1>6, <2>1 DEF EnqueueGiveUp, CallerStates
<1>7. CASE failQueued(c)
  BY <1>7, DeliverType DEF failQueued, CallerStates
<1>8. CASE AwaitResult(c)
  BY <1>8 DEF AwaitResult, CallerStates
<1>9. CASE AwaitAbandon(c)
  BY <1>9 DEF AwaitAbandon, CallerStates, Errors, RunErrors
<1> QED BY <1>1, <1>2, <1>3, <1>4, <1>5, <1>6, <1>7, <1>8, <1>9 DEF Enqueue

\* The workers' side.
LEMMA WorkerType ==
  ASSUME TypeInv, NEW w \in Workers, Worker(w)
  PROVE  TypeInv'
<1> USE DEF TypeInv, TypeOK, WhereaboutsOK, poolVars, handleVars, callerVars, workerVars, Holding
<1>1. ASSUME NEW q \in Queues, Receive(w, q) PROVE TypeInv'
  <2>1. Head(queue[q]) \in Jobs /\ Tail(queue[q]) \in Seq(Jobs)
    BY <1>1, QueueHead DEF Receive
  <2>2. overtaken' \in [Jobs -> Nat]
    BY <1>1, OvertakenType DEF Receive
  <2> QED BY <1>1, <2>1, <2>2 DEF Receive, WorkerStates
<1>2. CASE Dequeue(w) \/ PollHigh(w)
  <2>1. Sources(w) \subseteq Queues /\ "imageHigh" \in Queues
    BY DEF Sources, Queues, ImageQueues, Lanes
  <2> QED BY <1>1, <1>2, <2>1 DEF Dequeue, PollHigh
<1>3. CASE PollEmpty(w)
  BY <1>3 DEF PollEmpty, WorkerStates
<1>4. CASE Exit(w)
  BY <1>4 DEF Exit, WorkerStates
<1>5. CASE takeKey(w)
  <2>1. held[w] \in Jobs /\ LaneOf[w] \in GatedLanes
    BY <1>5 DEF takeKey, WorkerStates
  <2>2. inUse' \subseteq GatedLanes \X PluginKeys
    BY <1>5, <2>1 DEF takeKey, KeyOf
  <2> QED BY <1>5, <2>2 DEF takeKey, WorkerStates
<1>6. CASE Veto(w)
  BY <1>6 DEF Veto, WorkerStates
<1>7. CASE Requeue(w)
  <2>1. held[w] \in Jobs /\ LaneOf[w] \in Queues
    BY <1>7 DEF Requeue, WorkerStates, GatedLanes, Queues
  <2>2. queue' \in [Queues -> Seq(Jobs)]
    BY <1>7, <2>1 DEF Requeue
  <2> QED BY <1>7, <2>2 DEF Requeue, WorkerStates
<1>8. CASE RetryGate(w)
  BY <1>8 DEF RetryGate, WorkerStates
<1>9. CASE Begin(w)
  BY <1>9 DEF Begin, WorkerStates
<1>10. CASE Run(w)
  BY <1>10 DEF Run, WorkerStates
<1>11. CASE GiveUp(w)
  BY <1>11 DEF GiveUp, WorkerStates, Errors, RunErrors
<1>12. CASE Backoff(w)
  <2>1. held[w] \in Jobs
    BY <1>12 DEF Backoff, WorkerStates
  <2>2. attempts' \in [Jobs -> Nat]
    BY <1>12, <2>1 DEF Backoff
  <2> QED BY <1>12, <2>1, <2>2 DEF Backoff, WorkerStates
<1>13. ASSUME NEW err \in RunErrors, RunReturns(w, err) PROVE TypeInv'
  <2>1. held[w] \in Jobs
    BY <1>13 DEF RunReturns, WorkerStates
  <2>2. lastErr' \in [Jobs -> Errors]
    BY <1>13, <2>1 DEF RunReturns, Errors
  <2> QED BY <1>13, <2>1, <2>2 DEF RunReturns, WorkerStates
<1>14. CASE Release(w)
  BY <1>14 DEF Release, WorkerStates
<1>15. CASE DeliverResult(w)
  <2>1. held[w] \in Jobs /\ lastErr[held[w]] \in Errors
    BY <1>15 DEF DeliverResult, WorkerStates
  <2>2. done' \in [Jobs -> BOOLEAN] /\ result' \in [Jobs -> Errors]
    BY <1>15, <2>1, DeliverType DEF DeliverResult
  <2> QED BY <1>15, <2>1, <2>2 DEF DeliverResult, WorkerStates
<1>16. CASE deregister(w)
  <2>1. held[w] \in Jobs
    BY <1>16 DEF deregister, WorkerStates
  <2>2. registry' \subseteq Jobs /\ dedupe' \in [DedupeKeys -> Jobs \cup {None}]
    BY <1>16, <2>1, DeregisteredType DEF deregister
  <2> QED BY <1>16, <2>1, <2>2 DEF deregister, WorkerStates
<1> QED BY <1>2, <1>3, <1>4, <1>5, <1>6, <1>7, <1>8, <1>9, <1>10, <1>11, <1>12, <1>13,
           <1>14, <1>15, <1>16 DEF Worker, Select

LEMMA NextType == TypeInv /\ [Next]_vars => TypeInv'
<1> SUFFICES ASSUME TypeInv, [Next]_vars PROVE TypeInv'
  OBVIOUS
<1>1. ASSUME NEW c \in Jobs, Enqueue(c) \/ AwaitResult(c) \/ AwaitAbandon(c) PROVE TypeInv'
  BY <1>1, CallerType
<1>2. ASSUME NEW w \in Workers, Worker(w) PROVE TypeInv'
  BY <1>2, WorkerType
<1>3. CASE ShutdownClose \/ ShutdownStop
  BY <1>3 DEF ShutdownClose, ShutdownStop, TypeInv, TypeOK, WhereaboutsOK, poolVars, handleVars,
              callerVars, workerVars
<1>4. CASE UNCHANGED vars
  BY <1>4 DEF vars, TypeInv, TypeOK, WhereaboutsOK, poolVars, handleVars, callerVars, workerVars
<1> QED BY <1>1, <1>2, <1>3, <1>4 DEF Next

LEMMA TypeInvariant == Spec => []TypeInv
<1> QED BY InitType, NextType, PTL DEF Spec

\* Every variable of the pool keeps its type, whatever the callers, the workers
\* and Shutdown do.
THEOREM TypeCorrect == Spec => []TypeOK
<1>1. TypeInv => TypeOK
  BY DEF TypeInv
<1> QED BY TypeInvariant, <1>1, PTL

-----------------------------------------------------------------------------
(* The fairness gate. inUse is all a worker looks at, so what excludes two     *)
(* jobs of a plugin is that the key of each gated worker past the gate is in   *)
(* inUse; and Release takes out no key but its own worker's because no other   *)
(* worker past the gate has that key - which is the exclusion itself.          *)

Gated(w) ==
  LaneOf[w] \in GatedLanes /\ pc[w] \in PastGate /\ PluginKeyOf[held[w]] # NoKey

KeysInUse == \A w \in Workers : Gated(w) => KeyOf(w) \in inUse

Excluded == \A v, w \in Workers : v # w /\ Gated(v) /\ Gated(w) => KeyOf(v) # KeyOf(w)

KeyInv == KeysInUse /\ Excluded

LEMMA InitKeys == Init => KeyInv
BY DEF Init, KeyInv, KeysInUse, Excluded, Gated, PastGate

\* A step that leaves inUse alone and lets no worker of a gated lane past the gate.
LEMMA KeysKept ==
  ASSUME KeyInv, inUse' = inUse,
         \A w \in Workers : Gated(w)' => Gated(w) /\ held'[w] = held[w]
  PROVE  KeyInv'
BY DEF KeyInv, KeysInUse, Excluded, KeyOf

\* The step of one worker that keeps its job.
LEMMA KeysStep ==
  ASSUME TypeInv, KeyInv, NEW w \in Workers, Worker(w)
  PROVE  KeyInv'
<1> USE DEF poolVars, handleVars, callerVars, workerVars
<1>0. pc \in [Workers -> WorkerStates] /\ held \in [Workers -> Jobs \cup {None}]
  BY DEF TypeInv, TypeOK
<1>1. ASSUME NEW q \in Queues, Receive(w, q), pc[w] \in {"idle", "wait"} PROVE KeyInv'
  BY <1>0, <1>1, KeysKept DEF Receive, Gated, PastGate
<1>2. CASE Dequeue(w) \/ PollHigh(w)
  <2>1. Sources(w) \subseteq Queues /\ "imageHigh" \in Queues
    BY DEF Sources, Queues, ImageQueues, Lanes
  <2> QED BY <1>1, <1>2, <2>1 DEF Dequeue, PollHigh
<1>3. CASE PollEmpty(w) \/ Exit(w) \/ Veto(w) \/ Requeue(w) \/ RetryGate(w)
  BY <1>0, <1>3, KeysKept DEF PollEmpty, Exit, Veto, Requeue, RetryGate, Gated, PastGate
<1>4. CASE Begin(w) \/ Run(w) \/ GiveUp(w) \/ Backoff(w) \/ \E err \in RunErrors : RunReturns(w, err)
  BY <1>0, <1>4, KeysKept DEF Begin, Run, GiveUp, Backoff, RunReturns, Gated, PastGate
<1>5. CASE DeliverResult(w) \/ deregister(w)
  BY <1>0, <1>5, KeysKept DEF DeliverResult, deregister, Gated, PastGate
<1>6. CASE takeKey(w)
  <2>1. \A v \in Workers : held'[v] = held[v] /\ (v # w => pc'[v] = pc[v])
    BY <1>0, <1>6 DEF takeKey
  <2>2. KeyOf(w) \notin inUse /\ inUse \subseteq inUse'
    BY <1>6 DEF takeKey
  <2>3. Gated(w)' => KeyOf(w) \in inUse'
    BY <1>6, <2>1 DEF takeKey, Gated
  <2>4. \A v \in Workers : v # w /\ Gated(v)' => Gated(v) /\ KeyOf(v) \in inUse
    BY <2>1 DEF KeyInv, KeysInUse, Gated
  <2>5. \A v \in Workers : KeyOf(v)' = KeyOf(v)
    BY <2>1 DEF KeyOf
  <2>6. KeysInUse'
    BY <2>2, <2>3, <2>4, <2>5 DEF KeysInUse
  <2>7. Excluded'
    BY <2>2, <2>4, <2>5 DEF KeyInv, Excluded
  <2> QED BY <2>6, <2>7 DEF KeyInv
<1>7. CASE Release(w)
  <2>1. \A v \in Workers : held'[v] = held[v] /\ (v # w => pc'[v] = pc[v]) /\ ~Gated(w)'
    BY <1>0, <1>7 DEF Release, Gated, PastGate
  <2>2. \A v \in Workers : Gated(v)' => v # w /\ Gated(v)
    BY <2>1 DEF Gated
  <2>3. \A v \in Workers : v # w /\ Gated(v) => KeyOf(v) # KeyOf(w)
    <3> SUFFICES ASSUME NEW v \in Workers, v # w, Gated(v), KeyOf(v) = KeyOf(w) PROVE FALSE
      OBVIOUS
    <3>1. LaneOf[w] = LaneOf[v] /\ PluginKeyOf[held[w]] = PluginKeyOf[held[v]]
      BY DEF KeyOf
    <3>2. Gated(w)
      BY <1>7, <3>1 DEF Release, Gated, PastGate
    <3> QED BY <3>2 DEF KeyInv, Excluded
  <2>4. inUse' = inUse \ {KeyOf(w)}
    BY <1>7 DEF Release
  <2>5. \A v \in Workers : KeyOf(v)' = KeyOf(v)
    BY <2>1 DEF KeyOf
  <2>6. KeysInUse'
    BY <2>2, <2>3, <2>4, <2>5 DEF KeyInv, KeysInUse
  <2>7. Excluded'
    BY <2>2, <2>5 DEF KeyInv, Excluded
  <2> QED BY <2>6, <2>7 DEF KeyInv
<1> QED BY <1>2, <1>3, <1>4, <1>5, <1>6, <1>7 DEF Worker, Select

LEMMA NextKeys == TypeInv /\ KeyInv /\ [Next]_vars => KeyInv'
<1> SUFFICES ASSUME TypeInv, KeyInv, [Next]_vars PROVE KeyInv'
  OBVIOUS
<1>1. ASSUME NEW w \in Workers, Worker(w) PROVE KeyInv'
  BY <1>1, KeysStep
<1>2. ASSUME NEW c \in Jobs, Enqueue(c) \/ AwaitResult(c) \/ AwaitAbandon(c)
      PROVE UNCHANGED <<inUse, pc, held>>
  BY <1>2 DEF Enqueue, EnqueueClosed, EnqueueOpen, EnqueueJoin, EnqueuePublish, EnqueuePush,
              EnqueueGiveUp, failQueued, AwaitResult, AwaitAbandon, poolVars, workerVars
<1>3. CASE UNCHANGED <<inUse, pc, held>>
  BY <1>3 DEF KeyInv, KeysInUse, Excluded, Gated, KeyOf
<1>4. CASE ShutdownClose \/ ShutdownStop \/ UNCHANGED vars
  BY <1>3, <1>4 DEF ShutdownClose, ShutdownStop, vars, poolVars, workerVars
<1> QED BY <1>1, <1>2, <1>3, <1>4 DEF Next

\* Two workers of a gated lane never run jobs of one plugin at once, for every
\* number of workers and plugins: takeKey's test under the mutex is enough,
\* although jobs are vetoed, parked and requeued outside it.
THEOREM PluginsExcluded == Spec => []KeyExclusive
<1>1. KeyInv => KeyExclusive
  BY DEF KeyInv, Excluded, Gated, KeyOf, KeyExclusive
<1> QED BY InitType, NextType, InitKeys, NextKeys, <1>1, PTL DEF Spec

-----------------------------------------------------------------------------
(* Queues as sequences without repetition *)

In(s, j) == \E i \in 1..Len(s) : s[i] = j

Distinct(s) == \A i, k \in 1..Len(s) : s[i] = s[k] => i = k

\* Appending adds the new job and nothing else.
LEMMA AppendIn ==
  ASSUME NEW s \in Seq(Jobs), NEW j \in Jobs
  PROVE  /\ \A x : In(Append(s, j), x) <=> In(s, x) \/ x = j
         /\ Distinct(s) /\ ~In(s, j) => Distinct(Append(s, j))
<1> DEFINE t == Append(s, j)
<1>1. /\ Len(t) = Len(s) + 1 /\ Len(s) \in Nat
      /\ \A i \in 1..Len(s) : t[i] = s[i]
      /\ t[Len(s) + 1] = j
  OBVIOUS
<1>2. \A i \in 1..Len(t) : i \in 1..Len(s) \/ i = Len(s) + 1
  BY <1>1
<1>3. 1..Len(s) \subseteq 1..Len(t) /\ Len(s) + 1 \in 1..Len(t)
  BY <1>1
<1> HIDE DEF t
<1>4. \A x : In(t, x) <=> In(s, x) \/ x = j
  BY <1>1, <1>2, <1>3 DEF In
<1>5. Distinct(s) /\ ~In(s, j) => Distinct(t)
  BY <1>1, <1>2 DEF In, Distinct
<1> QED BY <1>4, <1>5 DEF t

\* Receiving the head takes that job out and no other.
LEMMA TailIn ==
  ASSUME NEW s \in Seq(Jobs), s # <<>>, Distinct(s)
  PROVE  /\ In(s, Head(s)) /\ Head(s) \in Jobs
         /\ \A x : In(Tail(s), x) <=> In(s, x) /\ x # Head(s)
         /\ Distinct(Tail(s))
<1> DEFINE t == Tail(s)
<1>1. /\ Len(s) \in Nat \ {0} /\ Len(t) = Len(s) - 1
      /\ \A i \in 1..Len(t) : t[i] = s[i + 1]
      /\ Head(s) = s[1] /\ Head(s) \in Jobs
  OBVIOUS
<1>2. \A i \in 1..Len(t) : i + 1 \in 1..Len(s) /\ i + 1 # 1
  BY <1>1
<1>3. \A i \in 1..Len(s) : i # 1 => i - 1 \in 1..Len(t) /\ (i - 1) + 1 = i
  BY <1>1
<1>4. 1 \in 1..Len(s)
  BY <1>1
<1> HIDE DEF t
<1>5. In(s, Head(s))
  BY <1>1, <1>4 DEF In
<1>6. ASSUME NEW x, In(t, x) PROVE In(s, x) /\ x # Head(s)
  BY <1>1, <1>2, <1>4, <1>6 DEF In, Distinct
<1>7. ASSUME NEW x, In(s, x), x # Head(s) PROVE In(t, x)
  <2>1. PICK i \in 1..Len(s) : s[i] = x
    BY <1>7 DEF In
  <2>2. i # 1
    BY <2>1, <1>1, <1>7
  <2>3. t[i - 1] = x /\ i - 1 \in 1..Len(t)
    BY <2>1, <2>2, <1>1, <1>3
  <2> QED BY <2>3 DEF In
<1>8. Distinct(t)
  <2> SUFFICES ASSUME NEW i \in 1..Len(t), NEW k \in 1..Len(t), t[i] = t[k] PROVE i = k
    BY DEF Distinct
  <2>1. s[i + 1] = s[k + 1]
    BY <1>1
  <2>2. i + 1 = k + 1
    BY <2>1, <1>2 DEF Distinct
  <2> QED BY <2>2, <1>1
<1> QED BY <1>1, <1>5, <1>6, <1>7, <1>8 DEF t

-----------------------------------------------------------------------------
(* One place for each job: its caller's push, its queue, or one worker.      *)

Accepted == {"held", "answered"}

QueuesOK ==
  /\ \A q \in Queues : Distinct(queue[q])
  /\ \A q \in Queues, j \in Jobs : In(queue[q], j) => QueueOf[j] = q /\ caller[j] \in Accepted

HandsOK ==
  \A w \in Workers : held[w] \in Jobs =>
    /\ pc[w] \in Holding
    /\ QueueOf[held[w]] \in Sources(w)
    /\ caller[held[w]] \in Accepted
    /\ ~In(queue[QueueOf[held[w]]], held[w])

OneHolder == \A v, w \in Workers : held[v] = held[w] /\ held[v] \in Jobs => v = w

PlaceInv == QueuesOK /\ HandsOK /\ OneHolder

LEMMA InitPlaces == Init => PlaceInv
BY ConstantsAssumption
   DEF Init, PlaceInv, QueuesOK, HandsOK, OneHolder, In, Distinct

\* A caller that moves on, and whose job is accepted stays so.
LEMMA PlacesCaller ==
  ASSUME TypeInv, PlaceInv, NEW c \in Jobs, NEW x,
         caller' = [caller EXCEPT ![c] = x], caller[c] \in Accepted => x \in Accepted,
         UNCHANGED <<queue, pc, held>>
  PROVE  PlaceInv'
<1>1. \A j \in Jobs : caller[j] \in Accepted => caller'[j] \in Accepted
  BY DEF TypeInv, TypeOK
<1> QED BY <1>1 DEF PlaceInv, QueuesOK, HandsOK, OneHolder

\* A worker that keeps its job, or that drops it.
LEMMA PlacesHand ==
  ASSUME TypeInv, PlaceInv, NEW w \in Workers, NEW s, NEW h,
         pc' = [pc EXCEPT ![w] = s], held' = [held EXCEPT ![w] = h],
         h = None \/ (h = held[w] /\ (held[w] \in Jobs => s \in Holding)),
         UNCHANGED <<queue, caller>>
  PROVE  PlaceInv'
<1>1. \A v \in Workers : held'[v] \in Jobs =>
        /\ held'[v] = held[v] /\ held[v] \in Jobs
        /\ (pc'[v] = pc[v] \/ pc'[v] \in Holding)
  BY DEF TypeInv, TypeOK
<1> QED BY <1>1 DEF PlaceInv, QueuesOK, HandsOK, OneHolder

\* A job that is nowhere goes into its queue.
LEMMA PlacesAppend ==
  ASSUME TypeInv, PlaceInv, NEW j \in Jobs,
         queue' = [queue EXCEPT ![QueueOf[j]] = Append(@, j)],
         ~In(queue[QueueOf[j]], j), \A w \in Workers : held'[w] # j,
         \A i \in Jobs : caller[i] \in Accepted => caller'[i] \in Accepted,
         caller'[j] \in Accepted,
         \A w \in Workers : held'[w] \in Jobs => held'[w] = held[w] /\ pc'[w] = pc[w]
  PROVE  PlaceInv'
<1>1. queue \in [Queues -> Seq(Jobs)] /\ QueueOf[j] \in Queues
  BY DEF TypeInv, TypeOK
<1>2. \A x : In(queue'[QueueOf[j]], x) <=> In(queue[QueueOf[j]], x) \/ x = j
  BY <1>1, AppendIn
<1>3. Distinct(queue'[QueueOf[j]])
  BY <1>1, AppendIn DEF PlaceInv, QueuesOK
<1>4. \A q \in Queues : q # QueueOf[j] => queue'[q] = queue[q]
  BY <1>1
<1>5. QueuesOK'
  BY <1>2, <1>3, <1>4 DEF PlaceInv, QueuesOK
<1>6. HandsOK'
  <2> SUFFICES ASSUME NEW w \in Workers, held'[w] \in Jobs
               PROVE  /\ pc'[w] \in Holding
                      /\ QueueOf[held'[w]] \in Sources(w)
                      /\ caller'[held'[w]] \in Accepted
                      /\ ~In(queue'[QueueOf[held'[w]]], held'[w])
    BY DEF HandsOK, Sources
  <2>1. held'[w] = held[w] /\ pc'[w] = pc[w] /\ held[w] # j /\ QueueOf[held[w]] \in Queues
    OBVIOUS
  <2> QED BY <2>1, <1>2, <1>4 DEF PlaceInv, HandsOK
<1>7. OneHolder'
  BY DEF PlaceInv, OneHolder
<1> QED BY <1>5, <1>6, <1>7 DEF PlaceInv

\* A worker takes the head of one of its queues.
LEMMA PlacesReceive ==
  ASSUME TypeInv, PlaceInv, NEW w \in Workers, NEW q \in Sources(w), q \in Queues, Receive(w, q),
         pc[w] \in {"idle", "wait"}
  PROVE  PlaceInv'
<1> DEFINE h == Head(queue[q])
<1>1. queue \in [Queues -> Seq(Jobs)] /\ held \in [Workers -> Jobs \cup {None}]
      /\ pc \in [Workers -> WorkerStates]
  BY DEF TypeInv, TypeOK
<1>2. /\ In(queue[q], h) /\ h \in Jobs
      /\ \A x : In(Tail(queue[q]), x) <=> In(queue[q], x) /\ x # h
      /\ Distinct(Tail(queue[q]))
  BY <1>1, TailIn DEF Receive, PlaceInv, QueuesOK
<1>3. QueueOf[h] = q /\ caller[h] \in Accepted
  BY <1>2 DEF PlaceInv, QueuesOK
<1>4. \A v \in Workers : held[v] # h
  BY <1>2, <1>3 DEF PlaceInv, HandsOK
<1> HIDE DEF h
<1>5. /\ queue' = [queue EXCEPT ![q] = Tail(queue[q])]
      /\ held' = [held EXCEPT ![w] = h]
      /\ caller' = caller
  BY DEF Receive, h, callerVars
<1>6. pc'[w] \in Holding /\ \A v \in Workers : v # w => pc'[v] = pc[v]
  BY <1>1 DEF Receive, Holding, WorkerStates
<1>7. \A p \in Queues : Distinct(queue'[p])
                        /\ \A j : In(queue'[p], j) => In(queue[p], j) /\ (p = q => j # h)
  BY <1>1, <1>2, <1>5 DEF PlaceInv, QueuesOK
<1>8. QueuesOK'
  BY <1>5, <1>7 DEF PlaceInv, QueuesOK
<1>9. HandsOK'
  <2> SUFFICES ASSUME NEW v \in Workers, held'[v] \in Jobs
               PROVE  /\ pc'[v] \in Holding
                      /\ QueueOf[held'[v]] \in Sources(v)
                      /\ caller'[held'[v]] \in Accepted
                      /\ ~In(queue'[QueueOf[held'[v]]], held'[v])
    BY DEF HandsOK, Sources
  <2>1. CASE v = w
    BY <2>1, <1>1, <1>3, <1>5, <1>6, <1>7
  <2>2. CASE v # w
    <3>1. held'[v] = held[v] /\ pc'[v] = pc[v] /\ QueueOf[held[v]] \in Queues
      BY <2>2, <1>1, <1>5, <1>6
    <3> QED BY <3>1, <1>5, <1>7 DEF PlaceInv, HandsOK
  <2> QED BY <2>1, <2>2
<1>10. OneHolder'
  BY <1>1, <1>4, <1>5 DEF PlaceInv, OneHolder
<1> QED BY <1>8, <1>9, <1>10 DEF PlaceInv

\* What a worker has received comes from a queue of its own.
LEMMA OwnSources ==
  ASSUME NEW w \in Workers
  PROVE  /\ Sources(w) \subseteq Queues
         /\ LaneOf[w] = "image" => "imageHigh" \in Sources(w)
         /\ LaneOf[w] \in GatedLanes => Sources(w) = {LaneOf[w]}
BY DEF Sources, Queues, ImageQueues, Lanes, GatedLanes

LEMMA WorkerPlaces ==
  ASSUME TypeInv, PlaceInv, NEW w \in Workers, Worker(w)
  PROVE  PlaceInv'
<1> USE DEF poolVars, handleVars, callerVars, workerVars
<1>0. pc \in [Workers -> WorkerStates] /\ held \in [Workers -> Jobs \cup {None}]
      /\ (pc[w] \in Holding => held[w] \in Jobs)
      /\ held = [held EXCEPT ![w] = held[w]]
  BY DEF TypeInv, TypeOK, WhereaboutsOK
<1>1. CASE Dequeue(w)
  <2>1. PICK q \in Sources(w) : Receive(w, q)
    BY <1>1 DEF Dequeue
  <2> QED BY <1>1, <2>1, PlacesReceive, OwnSources DEF Dequeue
<1>2. CASE PollHigh(w)
  BY <1>2, PlacesReceive, OwnSources DEF PollHigh
<1>3. CASE PollEmpty(w)
  <2>1. held[w] \notin Jobs
    BY <1>3 DEF PollEmpty, PlaceInv, HandsOK, Holding
  <2> QED BY <1>0, <1>3, <2>1, PlacesHand DEF PollEmpty
<1>4. CASE Exit(w)
  BY <1>0, <1>4, PlacesHand DEF Exit
<1>5. CASE takeKey(w) \/ Veto(w) \/ RetryGate(w)
  BY <1>0, <1>5, PlacesHand DEF takeKey, Veto, RetryGate, Holding, WorkerStates
<1>6. CASE Begin(w) \/ Run(w) \/ GiveUp(w) \/ Backoff(w)
  BY <1>0, <1>6, PlacesHand DEF Begin, Run, GiveUp, Backoff, Holding, WorkerStates
<1>7. ASSUME NEW err \in RunErrors, RunReturns(w, err) PROVE PlaceInv'
  BY <1>0, <1>7, PlacesHand DEF RunReturns, Holding, WorkerStates
<1>8. CASE Release(w) \/ DeliverResult(w)
  BY <1>0, <1>8, PlacesHand DEF Release, DeliverResult, Holding, WorkerStates
<1>9. CASE deregister(w)
  BY <1>0, <1>9, PlacesHand DEF deregister
<1>10. CASE Requeue(w)
  <2>1. held[w] \in Jobs /\ LaneOf[w] \in GatedLanes
    BY <1>0, <1>10 DEF Requeue, Holding, WorkerStates, TypeInv, WhereaboutsOK
  <2>2. QueueOf[held[w]] = LaneOf[w] /\ ~In(queue[LaneOf[w]], held[w])
        /\ caller[held[w]] \in Accepted
    BY <2>1, OwnSources DEF PlaceInv, HandsOK
  <2>3. \A v \in Workers : held'[v] # held[w]
    BY <1>0, <1>10, <2>1 DEF Requeue, PlaceInv, OneHolder
  <2>4. \A v \in Workers : held'[v] \in Jobs => held'[v] = held[v] /\ pc'[v] = pc[v]
    BY <1>0, <1>10 DEF Requeue
  <2> QED BY <1>10, <2>1, <2>2, <2>3, <2>4, PlacesAppend DEF Requeue
<1> QED BY <1>1, <1>2, <1>3, <1>4, <1>5, <1>6, <1>7, <1>8, <1>9, <1>10 DEF Worker, Select

LEMMA CallerPlaces ==
  ASSUME TypeInv, PlaceInv, NEW c \in Jobs, Enqueue(c) \/ AwaitResult(c) \/ AwaitAbandon(c)
  PROVE  PlaceInv'
<1> USE DEF poolVars, handleVars, callerVars, workerVars
<1>1. CASE EnqueueClosed(c) \/ EnqueueOpen(c) \/ EnqueueJoin(c) \/ EnqueuePublish(c)
  BY <1>1, PlacesCaller DEF EnqueueClosed, EnqueueOpen, EnqueueJoin, EnqueuePublish, Accepted
<1>2. CASE EnqueuePush(c)
  <2>1. caller[c] = "push" /\ caller[c] \notin Accepted
    BY <1>2 DEF EnqueuePush, Accepted
  <2>2. ~In(queue[QueueOf[c]], c) /\ \A w \in Workers : held[w] # c
    BY <2>1 DEF PlaceInv, QueuesOK, HandsOK
  <2>3. \A i \in Jobs : caller[i] \in Accepted => caller'[i] \in Accepted
    BY <1>2, <2>1 DEF EnqueuePush, TypeInv, TypeOK
  <2>4. caller'[c] \in Accepted
    BY <1>2 DEF EnqueuePush, TypeInv, TypeOK, Accepted
  <2> QED BY <1>2, <2>2, <2>3, <2>4, PlacesAppend DEF EnqueuePush
<1>3. ASSUME NEW err \in Errors, EnqueueGiveUp(c, err) PROVE PlaceInv'
  BY <1>3, PlacesCaller DEF EnqueueGiveUp, Accepted
<1>4. CASE failQueued(c) \/ AwaitResult(c) \/ AwaitAbandon(c)
  BY <1>4, PlacesCaller DEF failQueued, AwaitResult, AwaitAbandon, Accepted
<1> QED BY <1>1, <1>2, <1>3, <1>4 DEF Enqueue

LEMMA NextPlaces == TypeInv /\ PlaceInv /\ [Next]_vars => PlaceInv'
<1> SUFFICES ASSUME TypeInv, PlaceInv, [Next]_vars PROVE PlaceInv'
  OBVIOUS
<1>1. CASE UNCHANGED <<queue, caller, pc, held>>
  BY <1>1 DEF PlaceInv, QueuesOK, HandsOK, OneHolder
<1>2. CASE ShutdownClose \/ ShutdownStop \/ UNCHANGED vars
  BY <1>1, <1>2 DEF ShutdownClose, ShutdownStop, vars, poolVars, callerVars, workerVars
<1> QED BY <1>2, CallerPlaces, WorkerPlaces DEF Next

-----------------------------------------------------------------------------
(* On the way to being run, or just settled *)

Carried(j) == \E w \in Workers : held[w] = j /\ pc[w] # "deregister"

OnWay(j) == caller[j] = "push" \/ In(queue[QueueOf[j]], j) \/ Carried(j)

Leaving(j) == \E w \in Workers : held[w] = j /\ pc[w] = "deregister"

\* Nobody's place changes.
Unmoved == \A j \in Jobs : (OnWay(j)' <=> OnWay(j)) /\ (Leaving(j)' <=> Leaving(j))

\* A worker's moves that keep its job, up to the delivery.
LEMMA HandUnmoved ==
  ASSUME TypeInv, NEW w \in Workers, NEW s, pc' = [pc EXCEPT ![w] = s],
         s # "deregister", pc[w] # "deregister", UNCHANGED <<queue, caller, held>>
  PROVE  Unmoved
<1>1. \A v \in Workers : (pc'[v] = "deregister") <=> (pc[v] = "deregister")
  BY DEF TypeInv, TypeOK
<1> QED BY <1>1 DEF Unmoved, OnWay, Carried, Leaving

\* What a worker receives was queued and is carried.
LEMMA ReceiveUnmoved ==
  ASSUME TypeInv, PlaceInv, NEW w \in Workers, NEW q \in Queues, Receive(w, q),
         pc[w] \in {"idle", "wait"}
  PROVE  Unmoved
<1> DEFINE h == Head(queue[q])
<1>1. queue \in [Queues -> Seq(Jobs)] /\ held \in [Workers -> Jobs \cup {None}]
      /\ pc \in [Workers -> WorkerStates]
  BY DEF TypeInv, TypeOK
<1>2. /\ In(queue[q], h) /\ h \in Jobs
      /\ \A x : In(Tail(queue[q]), x) <=> In(queue[q], x) /\ x # h
  BY <1>1, TailIn DEF Receive, PlaceInv, QueuesOK
<1>3. QueueOf[h] = q
  BY <1>2 DEF PlaceInv, QueuesOK
<1>4. held[w] \notin Jobs
  BY DEF PlaceInv, HandsOK, Holding
<1> HIDE DEF h
<1>5. /\ queue' = [queue EXCEPT ![q] = Tail(queue[q])]
      /\ held' = [held EXCEPT ![w] = h]
      /\ caller' = caller
  BY DEF Receive, h, callerVars
<1>6. pc'[w] # "deregister" /\ \A v \in Workers : v # w => pc'[v] = pc[v]
  BY <1>1 DEF Receive
<1>7. ASSUME NEW j \in Jobs PROVE Carried(j)' <=> Carried(j) \/ j = h
  BY <1>1, <1>2, <1>4, <1>5, <1>6 DEF Carried
<1>8. ASSUME NEW j \in Jobs PROVE Leaving(j)' <=> Leaving(j)
  BY <1>1, <1>4, <1>5, <1>6 DEF Leaving
<1>9. ASSUME NEW j \in Jobs
      PROVE  In(queue[QueueOf[j]], j)' <=> In(queue[QueueOf[j]], j) /\ j # h
  BY <1>1, <1>2, <1>3, <1>5
<1>10. ASSUME NEW j \in Jobs PROVE OnWay(j)' <=> OnWay(j)
  BY <1>2, <1>3, <1>5, <1>7, <1>9 DEF OnWay
<1> QED BY <1>8, <1>10 DEF Unmoved

\* What a worker requeues was carried and is queued.
LEMMA RequeueUnmoved ==
  ASSUME TypeInv, PlaceInv, NEW w \in Workers, Requeue(w)
  PROVE  Unmoved
<1> DEFINE h == held[w]
<1>1. queue \in [Queues -> Seq(Jobs)] /\ held \in [Workers -> Jobs \cup {None}]
      /\ pc \in [Workers -> WorkerStates]
  BY DEF TypeInv, TypeOK
<1>2. h \in Jobs /\ LaneOf[w] \in GatedLanes /\ pc[w] = "park"
  BY DEF Requeue, Holding, WorkerStates, TypeInv, WhereaboutsOK
<1>3. QueueOf[h] = LaneOf[w] /\ QueueOf[h] \in Queues
  BY <1>2, OwnSources DEF PlaceInv, HandsOK
<1>4. \A v \in Workers : v # w => held[v] # h
  BY <1>2 DEF PlaceInv, OneHolder
<1>5. /\ queue' = [queue EXCEPT ![QueueOf[h]] = Append(queue[QueueOf[h]], h)]
      /\ held' = [held EXCEPT ![w] = None]
      /\ pc' = [pc EXCEPT ![w] = "idle"]
      /\ caller' = caller
  BY <1>3 DEF Requeue, callerVars
<1>6. \A x : In(Append(queue[QueueOf[h]], h), x) <=> In(queue[QueueOf[h]], x) \/ x = h
  BY <1>1, <1>2, <1>3, AppendIn
<1>7. Carried(h)
  BY <1>2 DEF Carried
<1> HIDE DEF h
<1>8. ASSUME NEW j \in Jobs, j # h PROVE Carried(j)' <=> Carried(j)
  BY <1>1, <1>5, <1>8 DEF Carried, h
<1>9. ASSUME NEW j \in Jobs PROVE Leaving(j)' <=> Leaving(j)
  BY <1>1, <1>2, <1>5 DEF Leaving
<1>10. ASSUME NEW j \in Jobs
       PROVE  In(queue[QueueOf[j]], j)' <=> In(queue[QueueOf[j]], j) \/ j = h
  BY <1>1, <1>3, <1>5, <1>6
<1>11. ASSUME NEW j \in Jobs PROVE OnWay(j)' <=> OnWay(j)
  <2>1. CASE j = h
    BY <2>1, <1>7, <1>10 DEF OnWay
  <2>2. CASE j # h
    BY <2>2, <1>5, <1>8, <1>10 DEF OnWay
  <2> QED BY <2>1, <2>2
<1> QED BY <1>9, <1>11 DEF Unmoved

-----------------------------------------------------------------------------
(* The registry, the dedupe map and the futures are true to the places.     *)

Unborn == \A j \in Jobs : caller[j] \in {"idle", "publish"} => status[j] = "new" /\ ~done[j]

Born == \A j \in Jobs : caller[j] = "refused" \/ OnWay(j) => status[j] # "new" /\ ~done[j]

Listed ==
  \A j \in Jobs : OnWay(j) =>
    j \in registry /\ (DedupeKeyOf[j] # NoKey => dedupe[DedupeKeyOf[j]] = j)

Settled == \A j \in Jobs : Leaving(j) => done[j] /\ status[j] # "new"

DedupeOK ==
  \A k \in DedupeKeys : dedupe[k] # None => dedupe[k] \in registry /\ DedupeKeyOf[dedupe[k]] = k

RegistryOK == \A j \in registry : shut # "stopped" => OnWay(j) \/ Leaving(j)

RegInv == Unborn /\ Born /\ Listed /\ Settled /\ DedupeOK /\ RegistryOK

LEMMA InitReg == Init => RegInv
BY DEF Init, RegInv, Unborn, Born, Listed, Settled, DedupeOK, RegistryOK, OnWay, Leaving, Carried, In

\* A step that moves nobody and writes neither the maps nor a future.
LEMMA RegKept ==
  ASSUME TypeInv, RegInv, Unmoved, UNCHANGED <<shut, registry, dedupe, done>>,
         \A j \in Jobs : caller'[j] \in {"idle", "publish"} => caller[j] \in {"idle", "publish"},
         \A j \in Jobs : caller'[j] = "refused" => caller[j] = "refused",
         \A j \in Jobs : status'[j] = status[j] \/ (OnWay(j) /\ status'[j] # "new"),
         \A j \in Jobs : OnWay(j) => caller'[j] \notin {"idle", "publish"}
  PROVE  RegInv'
<1>1. Unborn'
  BY DEF RegInv, Unborn
<1>2. Born'
  BY DEF RegInv, Born, Unmoved
<1>3. Listed'
  BY DEF RegInv, Listed, Unmoved
<1>4. Settled'
  BY DEF RegInv, Settled, Unmoved
<1>5. DedupeOK'
  BY DEF RegInv, DedupeOK
<1>6. RegistryOK'
  BY DEF RegInv, RegistryOK, Unmoved, TypeInv, TypeOK
<1> QED BY <1>1, <1>2, <1>3, <1>4, <1>5, <1>6 DEF RegInv

\* Whoever is on the way has passed its publication.
LEMMA OnWayPublished ==
  ASSUME TypeInv, PlaceInv, NEW j \in Jobs, OnWay(j)
  PROVE  caller[j] \in Accepted \cup {"push"}
BY DEF OnWay, Carried, PlaceInv, QueuesOK, HandsOK

\* A job leaves the registry: the entries of the others stay.
LEMMA DeregisteredMaps ==
  ASSUME TypeInv, RegInv, NEW j \in Jobs, Deregistered(j)
  PROVE  /\ \A i \in Jobs : i # j /\ OnWay(i) =>
              i \in registry' /\ (DedupeKeyOf[i] # NoKey => dedupe'[DedupeKeyOf[i]] = i)
         /\ DedupeOK'
<1>1. /\ registry' = registry \ {j}
      /\ \A k \in DedupeKeys : dedupe'[k] = IF k = DedupeKeyOf[j] /\ dedupe[k] = j THEN None
                                            ELSE dedupe[k]
  BY DEF Deregistered
<1>2. \A i \in Jobs : DedupeKeyOf[i] # NoKey => DedupeKeyOf[i] \in DedupeKeys
  OBVIOUS
<1>3. ASSUME NEW i \in Jobs, i # j, OnWay(i)
      PROVE  i \in registry' /\ (DedupeKeyOf[i] # NoKey => dedupe'[DedupeKeyOf[i]] = i)
  BY <1>1, <1>2, <1>3 DEF RegInv, Listed
<1>4. DedupeOK'
  BY <1>1 DEF RegInv, DedupeOK
<1> QED BY <1>3, <1>4

\* Callers move on without touching a queue, a hand or a push.
LEMMA CallerUnmoved ==
  ASSUME TypeInv, NEW c \in Jobs, NEW x, caller' = [caller EXCEPT ![c] = x],
         x # "push", caller[c] # "push", UNCHANGED <<queue, pc, held>>
  PROVE  Unmoved
<1>1. \A j \in Jobs : (caller'[j] = "push") <=> (caller[j] = "push")
  BY DEF TypeInv, TypeOK
<1> QED BY <1>1 DEF Unmoved, OnWay, Carried, Leaving

LEMMA CallerRegKept ==
  ASSUME TypeInv, PlaceInv, RegInv, NEW c \in Jobs, NEW x,
         caller' = [caller EXCEPT ![c] = x], caller[c] \notin {"push", "refused"},
         x \in {"idle", "publish"} => caller[c] \in {"idle", "publish"},
         x \notin {"push", "refused"},
         UNCHANGED <<shut, registry, dedupe, done, status, queue, pc, held>>
  PROVE  RegInv'
<1>1. Unmoved
  BY CallerUnmoved
<1>2. \A j \in Jobs : caller'[j] = IF j = c THEN x ELSE caller[j]
  BY DEF TypeInv, TypeOK
<1>3. \A j \in Jobs : OnWay(j) => caller[j] \notin {"idle", "publish"}
  BY OnWayPublished DEF Accepted
<1> QED BY <1>1, <1>2, <1>3, RegKept

LEMMA CallerReg ==
  ASSUME TypeInv, PlaceInv, RegInv, NEW c \in Jobs,
         Enqueue(c) \/ AwaitResult(c) \/ AwaitAbandon(c)
  PROVE  RegInv'
<1> USE DEF poolVars, handleVars, callerVars, workerVars
<1>0. /\ caller \in [Jobs -> CallerStates] /\ status \in [Jobs -> {"new", "queued", "running", "failed", "done", "dead"}]
      /\ done \in [Jobs -> BOOLEAN] /\ registry \subseteq Jobs
      /\ dedupe \in [DedupeKeys -> Jobs \cup {None}]
  BY DEF TypeInv, TypeOK
<1>1. CASE EnqueueClosed(c) \/ EnqueueOpen(c) \/ EnqueueJoin(c) \/ AwaitResult(c) \/ AwaitAbandon(c)
  <2>1. UNCHANGED <<shut, registry, dedupe, done, status, queue, pc, held>>
    BY <1>1 DEF EnqueueClosed, EnqueueOpen, EnqueueJoin, AwaitResult, AwaitAbandon
  <2>2. \/ caller[c] = "idle" /\ caller' = [caller EXCEPT ![c] = "answered"]
        \/ caller[c] = "idle" /\ caller' = [caller EXCEPT ![c] = "publish"]
        \/ caller[c] = "publish" /\ caller' = [caller EXCEPT ![c] = "held"]
        \/ caller[c] = "held" /\ caller' = [caller EXCEPT ![c] = "answered"]
    BY <1>1 DEF EnqueueClosed, EnqueueOpen, EnqueueJoin, AwaitResult, AwaitAbandon
  <2> QED BY <2>1, <2>2, CallerRegKept
<1>2. CASE EnqueuePublish(c)
  <2>1. caller[c] = "publish" /\ caller' = [caller EXCEPT ![c] = "push"]
    BY <1>2 DEF EnqueuePublish
  <2>2. ASSUME NEW j \in Jobs PROVE (OnWay(j)' <=> OnWay(j) \/ j = c) /\ (Leaving(j)' <=> Leaving(j))
    BY <1>0, <1>2, <2>1 DEF EnqueuePublish, OnWay, Leaving, Carried
  <2>3. status[c] = "new" /\ ~done[c] /\ ~OnWay(c)
    BY <2>1, OnWayPublished DEF RegInv, Unborn, Accepted
  <2>4. /\ registry' = registry \cup {c} /\ done' = done /\ shut' = shut
        /\ \A j \in Jobs : status'[j] = IF j = c THEN "queued" ELSE status[j]
        /\ \A j \in Jobs : caller'[j] = IF j = c THEN "push" ELSE caller[j]
        /\ \A k \in DedupeKeys : dedupe'[k] = IF k = DedupeKeyOf[c] THEN c ELSE dedupe[k]
    BY <1>0, <1>2, <2>1 DEF EnqueuePublish
  <2>5. Unborn'
    BY <2>4 DEF RegInv, Unborn
  <2>6. Born'
    BY <2>2, <2>3, <2>4 DEF RegInv, Born
  <2>7. ASSUME NEW j \in Jobs, OnWay(j)
        PROVE  DedupeKeyOf[j] # NoKey => DedupeKeyOf[j] # DedupeKeyOf[c]
    BY <1>0, <1>2, <2>7 DEF EnqueuePublish, Duplicate, RegInv, Listed, Born
  <2>8. Listed'
    <3> SUFFICES ASSUME NEW j \in Jobs, OnWay(j)'
                 PROVE  j \in registry' /\ (DedupeKeyOf[j] # NoKey => dedupe'[DedupeKeyOf[j]] = j)
      BY DEF Listed
    <3>1. DedupeKeyOf[j] # NoKey => DedupeKeyOf[j] \in DedupeKeys
      OBVIOUS
    <3>2. CASE j = c
      BY <3>1, <3>2, <2>4
    <3>3. CASE j # c
      BY <3>1, <3>3, <2>2, <2>4, <2>7 DEF RegInv, Listed
    <3> QED BY <3>2, <3>3
  <2>9. Settled'
    BY <2>2, <2>3, <2>4 DEF RegInv, Settled
  <2>10. DedupeOK'
    BY <2>4 DEF RegInv, DedupeOK
  <2>11. RegistryOK'
    BY <1>0, <2>2, <2>4 DEF RegInv, RegistryOK
  <2> QED BY <2>5, <2>6, <2>8, <2>9, <2>10, <2>11 DEF RegInv
<1>3. CASE EnqueuePush(c)
  <2>1. caller[c] = "push" /\ caller' = [caller EXCEPT ![c] = "held"]
    BY <1>3 DEF EnqueuePush
  <2>2. queue \in [Queues -> Seq(Jobs)] /\ QueueOf[c] \in Queues
    BY DEF TypeInv, TypeOK
  <2>3. \A x : In(Append(queue[QueueOf[c]], c), x) <=> In(queue[QueueOf[c]], x) \/ x = c
    BY <2>2, AppendIn
  <2>4. ASSUME NEW j \in Jobs
        PROVE  In(queue[QueueOf[j]], j)' <=> In(queue[QueueOf[j]], j) \/ j = c
    BY <1>3, <2>2, <2>3 DEF EnqueuePush
  <2>5. ASSUME NEW j \in Jobs PROVE (Carried(j)' <=> Carried(j)) /\ (Leaving(j)' <=> Leaving(j))
    BY <1>3 DEF EnqueuePush, Carried, Leaving
  <2>6. \A j \in Jobs : caller'[j] = IF j = c THEN "held" ELSE caller[j]
    BY <1>0, <2>1
  <2>7. Unmoved
    <3>1. ASSUME NEW j \in Jobs PROVE OnWay(j)' <=> OnWay(j)
      BY <2>1, <2>4, <2>5, <2>6 DEF OnWay
    <3> QED BY <3>1, <2>5 DEF Unmoved
  <2>8. \A j \in Jobs : OnWay(j) => caller[j] \notin {"idle", "publish"}
    BY OnWayPublished DEF Accepted
  <2> QED BY <1>3, <2>6, <2>7, <2>8, RegKept DEF EnqueuePush
<1>4. ASSUME NEW err \in Errors, EnqueueGiveUp(c, err) PROVE RegInv'
  <2>1. caller[c] = "push" /\ caller' = [caller EXCEPT ![c] = "refused"] /\ Deregistered(c)
        /\ UNCHANGED <<shut, status, done, queue, pc, held>>
    BY <1>4 DEF EnqueueGiveUp
  <2>2. OnWay(c) /\ ~In(queue[QueueOf[c]], c) /\ (\A w \in Workers : held[w] # c)
    BY <2>1 DEF OnWay, PlaceInv, QueuesOK, HandsOK, Accepted
  <2>3. \A j \in Jobs : caller'[j] = IF j = c THEN "refused" ELSE caller[j]
    BY <1>0, <2>1
  <2>4. ASSUME NEW j \in Jobs
        PROVE  (OnWay(j)' <=> OnWay(j) /\ j # c) /\ (Leaving(j)' <=> Leaving(j))
    BY <2>1, <2>2, <2>3 DEF OnWay, Leaving, Carried
  <2>5. Unborn'
    BY <2>1, <2>3 DEF RegInv, Unborn
  <2>6. Born'
    BY <2>1, <2>2, <2>3, <2>4 DEF RegInv, Born
  <2>7. Listed'
    BY <2>1, <2>4, DeregisteredMaps DEF Listed
  <2>8. Settled'
    BY <2>1, <2>4 DEF RegInv, Settled
  <2>9. RegistryOK'
    BY <1>0, <2>1, <2>4 DEF RegInv, RegistryOK, Deregistered
  <2> QED BY <2>1, <2>5, <2>6, <2>7, <2>8, <2>9, DeregisteredMaps DEF RegInv
<1>5. CASE failQueued(c)
  <2>1. /\ caller[c] = "refused"
        /\ \A j \in Jobs : caller'[j] = IF j = c THEN "answered" ELSE caller[j]
        /\ \A j \in Jobs : status'[j] = IF j = c THEN "dead" ELSE status[j]
        /\ \A j \in Jobs : j # c => (done'[j] <=> done[j])
        /\ UNCHANGED <<shut, registry, dedupe, queue, pc, held>>
    BY <1>0, <1>5 DEF failQueued, Deliver
  <2>2. ~OnWay(c)
    BY <2>1, OnWayPublished DEF Accepted
  <2>3. ASSUME NEW j \in Jobs PROVE (OnWay(j)' <=> OnWay(j)) /\ (Leaving(j)' <=> Leaving(j))
    BY <2>1 DEF OnWay, Leaving, Carried
  <2>4. ~Leaving(c)
    BY <2>1 DEF Leaving, PlaceInv, HandsOK, Accepted
  <2>5. Unborn' /\ Born' /\ Settled'
    BY <2>1, <2>2, <2>3, <2>4 DEF RegInv, Unborn, Born, Settled
  <2>6. Listed' /\ DedupeOK' /\ RegistryOK'
    BY <1>0, <2>1, <2>3 DEF RegInv, Listed, DedupeOK, RegistryOK
  <2> QED BY <2>5, <2>6 DEF RegInv
<1> QED BY <1>1, <1>2, <1>3, <1>4, <1>5 DEF Enqueue

\* A worker's moves that keep its job up to the delivery; a status it writes is
\* its own job's.
LEMMA HandRegKept ==
  ASSUME TypeInv, PlaceInv, RegInv, NEW w \in Workers, NEW s, pc' = [pc EXCEPT ![w] = s],
         s # "deregister", pc[w] \in Holding \ {"deregister"},
         UNCHANGED <<shut, queue, registry, dedupe, done, caller, held>>,
         \A j \in Jobs : status'[j] = status[j] \/ (j = held[w] /\ status'[j] # "new")
  PROVE  RegInv'
<1>1. Unmoved
  BY HandUnmoved
<1>2. held[w] \in Jobs /\ OnWay(held[w])
  BY DEF OnWay, Carried, TypeInv, WhereaboutsOK
<1>3. \A j \in Jobs : OnWay(j) => caller[j] \notin {"idle", "publish"}
  BY OnWayPublished DEF Accepted
<1> QED BY <1>1, <1>2, <1>3, RegKept

\* A step of the pool that writes nothing but queues, hands and states of workers.
LEMMA PlaceRegKept ==
  ASSUME TypeInv, PlaceInv, RegInv, Unmoved,
         UNCHANGED <<shut, registry, dedupe, done, caller, status>>
  PROVE  RegInv'
<1>1. \A j \in Jobs : OnWay(j) => caller[j] \notin {"idle", "publish"}
  BY OnWayPublished DEF Accepted
<1> QED BY <1>1, RegKept

LEMMA WorkerReg ==
  ASSUME TypeInv, PlaceInv, RegInv, NEW w \in Workers, Worker(w)
  PROVE  RegInv'
<1> USE DEF poolVars, handleVars, callerVars, workerVars
<1>0. /\ pc \in [Workers -> WorkerStates] /\ held \in [Workers -> Jobs \cup {None}]
      /\ status \in [Jobs -> {"new", "queued", "running", "failed", "done", "dead"}]
      /\ done \in [Jobs -> BOOLEAN] /\ registry \subseteq Jobs
      /\ (pc[w] \in Holding => held[w] \in Jobs)
      /\ (pc[w] \notin Holding => held[w] \notin Jobs)
  BY DEF TypeInv, TypeOK, WhereaboutsOK, PlaceInv, HandsOK
<1>1. CASE Dequeue(w)
  <2>1. PICK q \in Sources(w) : Receive(w, q)
    BY <1>1 DEF Dequeue
  <2>2. Unmoved
    BY <1>1, <2>1, ReceiveUnmoved, OwnSources DEF Dequeue
  <2> QED BY <2>1, <2>2, PlaceRegKept DEF Receive
<1>2. CASE PollHigh(w)
  <2>1. Unmoved
    BY <1>2, ReceiveUnmoved, OwnSources DEF PollHigh
  <2> QED BY <1>2, <2>1, PlaceRegKept DEF PollHigh, Receive
<1>3. CASE PollEmpty(w)
  <2>1. Unmoved
    BY <1>3, HandUnmoved DEF PollEmpty
  <2> QED BY <1>3, <2>1, PlaceRegKept DEF PollEmpty
<1>4. CASE Exit(w)
  <2>1. /\ shut = "stopped" /\ pc[w] # "deregister"
        /\ UNCHANGED <<shut, registry, dedupe, done, caller, status, queue>>
        /\ \A v \in Workers : v # w => held'[v] = held[v] /\ pc'[v] = pc[v]
        /\ held'[w] = None /\ pc'[w] = "exited"
    BY <1>0, <1>4 DEF Exit
  <2>2. ASSUME NEW j \in Jobs PROVE (OnWay(j)' => OnWay(j)) /\ (Leaving(j)' <=> Leaving(j))
    BY <2>1 DEF OnWay, Carried, Leaving
  <2>3. Unborn' /\ Born' /\ Settled'
    BY <2>1, <2>2 DEF RegInv, Unborn, Born, Settled
  <2>4. Listed' /\ DedupeOK' /\ RegistryOK'
    BY <2>1, <2>2 DEF RegInv, Listed, DedupeOK, RegistryOK
  <2> QED BY <2>3, <2>4 DEF RegInv
<1>5. CASE takeKey(w)
  BY <1>5, HandRegKept DEF takeKey, Holding, WorkerStates
<1>6. CASE Veto(w)
  BY <1>6, HandRegKept DEF Veto, Holding, WorkerStates
<1>7. CASE RetryGate(w)
  BY <1>7, HandRegKept DEF RetryGate, Holding, WorkerStates
<1>8. CASE Requeue(w)
  BY <1>8, RequeueUnmoved, PlaceRegKept DEF Requeue
<1>9. CASE Begin(w)
  BY <1>0, <1>9, HandRegKept DEF Begin, Holding, WorkerStates
<1>10. CASE Run(w)
  BY <1>10, HandRegKept DEF Run, Holding, WorkerStates
<1>11. CASE GiveUp(w)
  BY <1>0, <1>11, HandRegKept DEF GiveUp, Holding, WorkerStates
<1>12. CASE Backoff(w)
  BY <1>12, HandRegKept DEF Backoff, Holding, WorkerStates
<1>13. ASSUME NEW err \in RunErrors, RunReturns(w, err) PROVE RegInv'
  <2>1. \A j \in Jobs : status'[j] = status[j] \/ (j = held[w] /\ status'[j] # "new")
    BY <1>0, <1>13 DEF RunReturns
  <2>2. \/ pc' = [pc EXCEPT ![w] = "backoff"]
        \/ pc' = [pc EXCEPT ![w] = "release"]
    BY <1>13 DEF RunReturns
  <2>3. UNCHANGED <<shut, queue, registry, dedupe, done, caller, held>>
    BY <1>13 DEF RunReturns
  <2>4. pc[w] \in Holding \ {"deregister"}
    BY <1>13 DEF RunReturns, Holding, WorkerStates
  <2> QED BY <2>1, <2>2, <2>3, <2>4, HandRegKept
<1>14. CASE Release(w)
  BY <1>14, HandRegKept DEF Release, Holding, WorkerStates
<1>15. CASE DeliverResult(w)
  <2>1. /\ pc[w] = "deliver" /\ held[w] \in Jobs
        /\ \A v \in Workers : pc'[v] = IF v = w THEN "deregister" ELSE pc[v]
        /\ \A j \in Jobs : j # held[w] => (done'[j] <=> done[j])
        /\ done'[held[w]]
        /\ UNCHANGED <<shut, registry, dedupe, caller, status, queue, held>>
    BY <1>0, <1>15 DEF DeliverResult, Deliver, Holding, WorkerStates
  <2>2. OnWay(held[w]) /\ caller[held[w]] # "push" /\ caller[held[w]] \in Accepted
        /\ ~In(queue[QueueOf[held[w]]], held[w])
    BY <2>1 DEF OnWay, Carried, PlaceInv, HandsOK, Accepted
  <2>3. \A v \in Workers : v # w => held[v] # held[w]
    BY <2>1 DEF PlaceInv, OneHolder
  <2>4. ASSUME NEW j \in Jobs
        PROVE  /\ OnWay(j)' <=> OnWay(j) /\ j # held[w]
               /\ Leaving(j)' <=> Leaving(j) \/ j = held[w]
    BY <2>1, <2>2, <2>3 DEF OnWay, Carried, Leaving
  <2>5. Unborn' /\ Born' /\ Settled'
    BY <2>1, <2>2, <2>4 DEF RegInv, Unborn, Born, Settled, Accepted
  <2>6. Listed' /\ DedupeOK' /\ RegistryOK'
    BY <1>0, <2>1, <2>4 DEF RegInv, Listed, DedupeOK, RegistryOK
  <2> QED BY <2>5, <2>6 DEF RegInv
<1>16. CASE deregister(w)
  <2>1. /\ pc[w] = "deregister" /\ held[w] \in Jobs
        /\ \A v \in Workers : v # w => pc'[v] = pc[v] /\ held'[v] = held[v]
        /\ pc'[w] = "idle" /\ held'[w] = None
        /\ Deregistered(held[w])
        /\ UNCHANGED <<shut, caller, status, queue, done>>
    BY <1>0, <1>16 DEF deregister, Holding, WorkerStates
  <2>2. \A v \in Workers : v # w => held[v] # held[w]
    BY <2>1 DEF PlaceInv, OneHolder
  <2>3. ASSUME NEW j \in Jobs
        PROVE  /\ OnWay(j)' <=> OnWay(j)
               /\ Leaving(j)' <=> Leaving(j) /\ j # held[w]
    BY <2>1, <2>2 DEF OnWay, Carried, Leaving
  <2>4. ~OnWay(held[w])
    BY <2>1 DEF RegInv, Born, Settled, Leaving
  <2>5. Unborn' /\ Born' /\ Settled'
    BY <2>1, <2>3 DEF RegInv, Unborn, Born, Settled
  <2>6. Listed'
    BY <2>1, <2>3, <2>4, DeregisteredMaps DEF Listed
  <2>7. RegistryOK'
    BY <1>0, <2>1, <2>3 DEF RegInv, RegistryOK, Deregistered
  <2> QED BY <2>1, <2>5, <2>6, <2>7, DeregisteredMaps DEF RegInv
<1> QED BY <1>1, <1>2, <1>3, <1>4, <1>5, <1>6, <1>7, <1>8, <1>9, <1>10, <1>11, <1>12, <1>13,
           <1>14, <1>15, <1>16 DEF Worker, Select

LEMMA NextReg == TypeInv /\ PlaceInv /\ RegInv /\ [Next]_vars => RegInv'
<1> SUFFICES ASSUME TypeInv, PlaceInv, RegInv, [Next]_vars PROVE RegInv'
  OBVIOUS
<1>1. CASE /\ shut' = shut \/ shut' = "stopped" \/ shut # "stopped"
           /\ UNCHANGED <<queue, caller, pc, held, registry, dedupe, status, done>>
  BY <1>1 DEF RegInv, Unborn, Born, Listed, Settled, DedupeOK, RegistryOK, OnWay, Leaving, Carried
<1>2. CASE ShutdownClose \/ ShutdownStop \/ UNCHANGED vars
  BY <1>1, <1>2 DEF ShutdownClose, ShutdownStop, vars, poolVars, callerVars, workerVars, handleVars
<1> QED BY <1>2, CallerReg, WorkerReg DEF Next

\* The inductive invariant of the places and what is kept about them.
LifeInv == TypeInv /\ PlaceInv /\ RegInv

LEMMA LifeInvariant == Spec => []LifeInv
<1>1. Init => LifeInv
  BY InitType, InitPlaces, InitReg DEF LifeInv
<1>2. LifeInv /\ [Next]_vars => LifeInv'
  BY NextType, NextPlaces, NextReg DEF LifeInv
<1> QED BY <1>1, <1>2, PTL DEF Spec

\* A job that is not on its way has no place.
LEMMA Placeless ==
  ASSUME LifeInv, NEW j \in Jobs, ~OnWay(j)
  PROVE  Places(j) = 0
<1>1. Pushing(j) = 0
  BY DEF Pushing, OnWay
<1>2. Queued(j) = 0
  <2>1. {i \in 1..Len(queue[QueueOf[j]]) : queue[QueueOf[j]][i] = j} = {}
    BY DEF OnWay, In
  <2> QED BY <2>1, FS_EmptySet DEF Queued
<1>3. HeldBy(j) = 0
  <2>1. {w \in Workers : held[w] = j /\ pc[w] # "deregister"} = {}
    BY DEF OnWay, Carried
  <2> QED BY <2>1, FS_EmptySet DEF HeldBy
<1> QED BY <1>1, <1>2, <1>3 DEF Places

\* A job that is on its way has one place.
LEMMA OnePlace ==
  ASSUME LifeInv, NEW j \in Jobs, OnWay(j)
  PROVE  Places(j) = 1
<1> DEFINE Spots == {i \in 1..Len(queue[QueueOf[j]]) : queue[QueueOf[j]][i] = j}
           Hands == {w \in Workers : held[w] = j /\ pc[w] # "deregister"}
<1>1. QueueOf[j] \in Queues
  OBVIOUS
<1>2. CASE caller[j] = "push"
  <2>0. ~In(queue[QueueOf[j]], j) /\ ~Carried(j)
    BY <1>1, <1>2 DEF LifeInv, PlaceInv, QueuesOK, HandsOK, Carried, Accepted
  <2>1. Spots = {} /\ Hands = {}
    BY <2>0 DEF In, Carried
  <2>2. Queued(j) = 0 /\ HeldBy(j) = 0 /\ Pushing(j) = 1
    BY <1>2, <2>1, FS_EmptySet DEF Queued, HeldBy, Pushing
  <2> QED BY <2>2 DEF Places
<1>3. CASE In(queue[QueueOf[j]], j)
  <2>1. PICK i \in 1..Len(queue[QueueOf[j]]) : queue[QueueOf[j]][i] = j
    BY <1>3 DEF In
  <2>0. Distinct(queue[QueueOf[j]])
    BY <1>1 DEF LifeInv, PlaceInv, QueuesOK
  <2>2. Spots = {i}
    <3>1. ASSUME NEW k \in Spots PROVE k = i
      BY <2>0, <2>1 DEF Distinct
    <3>2. i \in Spots
      BY <2>1
    <3> QED BY <3>1, <3>2
  <2>3. Hands = {} /\ caller[j] # "push"
    BY <1>1, <1>3 DEF LifeInv, PlaceInv, QueuesOK, HandsOK, Accepted
  <2>4. Queued(j) = 1 /\ HeldBy(j) = 0 /\ Pushing(j) = 0
    BY <2>2, <2>3, FS_EmptySet, FS_Singleton DEF Queued, HeldBy, Pushing
  <2> QED BY <2>4 DEF Places
<1>4. CASE Carried(j)
  <2>1. PICK w \in Workers : held[w] = j /\ pc[w] # "deregister"
    BY <1>4 DEF Carried
  <2>2. Hands = {w}
    BY <2>1 DEF LifeInv, PlaceInv, OneHolder
  <2>3. Spots = {} /\ caller[j] # "push"
    BY <1>1, <2>1 DEF LifeInv, PlaceInv, HandsOK, In, Accepted
  <2>4. Queued(j) = 0 /\ HeldBy(j) = 1 /\ Pushing(j) = 0
    BY <2>2, <2>3, FS_EmptySet, FS_Singleton DEF Queued, HeldBy, Pushing
  <2> QED BY <2>4 DEF Places
<1> QED BY <1>2, <1>3, <1>4 DEF OnWay

\* Of the jobs with one DedupeKey at most one is on its way, and the dedupe map
\* names it, for any number of callers: the look at the map and the publication
\* are one critical section, and no job is taken off the map before it is over.
THEOREM DuplicatesExcluded == Spec => []DedupeExclusive
<1>1. LifeInv => DedupeExclusive
  <2> SUFFICES ASSUME LifeInv, NEW j \in Jobs, DedupeKeyOf[j] # NoKey, Places(j) > 0
               PROVE  dedupe[DedupeKeyOf[j]] = j
    BY DEF DedupeExclusive
  <2>1. OnWay(j)
    BY Placeless
  <2> QED BY <2>1 DEF LifeInv, RegInv, Listed
<1> QED BY LifeInvariant, <1>1, PTL

\* Neither the registry nor the dedupe map keeps an entry of a job that is over,
\* and a registered job is at one place: requeueing neither loses nor doubles it.
THEOREM EntriesAccounted == Spec => []NoStaleEntry
<1>1. LifeInv => NoStaleEntry
  <2> SUFFICES ASSUME LifeInv PROVE NoStaleEntry
    OBVIOUS
  <2>1. ASSUME NEW j \in registry, shut # "stopped"
        PROVE  Places(j) = 1 \/ \E w \in Workers : held[w] = j /\ pc[w] = "deregister"
    <3>1. j \in Jobs /\ (OnWay(j) \/ Leaving(j))
      BY <2>1 DEF LifeInv, RegInv, RegistryOK, TypeInv, TypeOK
    <3> QED BY <3>1, OnePlace DEF Leaving
  <2> QED BY <2>1 DEF NoStaleEntry, LifeInv, RegInv, DedupeOK
<1> QED BY LifeInvariant, <1>1, PTL

-----------------------------------------------------------------------------
(* A waiter that is told nil.                                                *)

RanWell(j) == status[j] = "done" /\ attempts[j] \in 1..MaxAttempts[j]

Counted == {"try", "exec", "backoff"}

Over == {"release", "deliver"}

\* A future that holds nil is that of a job that ran and ended well.
SettledWell == \A j \in Jobs : done[j] /\ result[j] = "nil" => RanWell(j)

\* Attempts are counted from one to the job's maximum.
AttemptsOK ==
  \A w \in Workers : pc[w] \in Counted =>
    /\ attempts[held[w]] \in 1..MaxAttempts[held[w]]
    /\ pc[w] = "backoff" => attempts[held[w]] < MaxAttempts[held[w]]

\* The error that is about to be delivered is nil only after a good run.
EndedWell == \A w \in Workers : pc[w] \in Over /\ lastErr[held[w]] = "nil" => RanWell(held[w])

\* Whoever was told nil was told so by a settled future.
ToldBy ==
  \A c \in Jobs :
    /\ caller[c] = "refused" => answer[c] # "nil"
    /\ caller[c] = "answered" /\ answer[c] = "nil" =>
         future[c] \in Jobs /\ done[future[c]] /\ result[future[c]] = "nil"

HonestInv == SettledWell /\ AttemptsOK /\ EndedWell /\ ToldBy

LEMMA InitHonest == Init => HonestInv
BY DEF Init, HonestInv, SettledWell, AttemptsOK, EndedWell, ToldBy, Counted, Over

\* A step of the workers that writes no handle.
LEMMA HonestKept ==
  ASSUME HonestInv, UNCHANGED <<status, attempts, lastErr, done, result, caller, future, answer>>,
         \A v \in Workers : pc'[v] \in Counted \cup Over => pc'[v] = pc[v] /\ held'[v] = held[v]
  PROVE  HonestInv'
BY DEF HonestInv, SettledWell, AttemptsOK, EndedWell, ToldBy, RanWell

\* A step of the worker that has the job; no future is written.
LEMMA HandHonest ==
  ASSUME LifeInv, HonestInv, NEW w \in Workers, NEW s,
         pc[w] \in Holding \ {"deregister"}, pc' = [pc EXCEPT ![w] = s],
         UNCHANGED <<held, done, result, caller, future, answer>>,
         \A j \in Jobs : j # held[w] =>
           status'[j] = status[j] /\ attempts'[j] = attempts[j] /\ lastErr'[j] = lastErr[j],
         s \in Counted => attempts'[held[w]] \in 1..MaxAttempts[held[w]],
         s = "backoff" => attempts'[held[w]] < MaxAttempts[held[w]],
         s \in Over /\ lastErr'[held[w]] = "nil" =>
           status'[held[w]] = "done" /\ attempts'[held[w]] \in 1..MaxAttempts[held[w]]
  PROVE  HonestInv'
<1>1. held[w] \in Jobs /\ ~done[held[w]]
  BY DEF LifeInv, TypeInv, WhereaboutsOK, RegInv, Born, OnWay, Carried
<1>2. \A v \in Workers : v # w => pc'[v] = pc[v] /\ (pc[v] \in Holding => held[v] # held[w] /\ held[v] \in Jobs)
  BY <1>1 DEF LifeInv, TypeInv, TypeOK, WhereaboutsOK, PlaceInv, OneHolder
<1>3. pc'[w] = s
  BY DEF LifeInv, TypeInv, TypeOK
<1>4. Counted \cup Over \subseteq Holding
  BY DEF Counted, Over, Holding, WorkerStates
<1>5. SettledWell'
  BY <1>1 DEF HonestInv, SettledWell, RanWell
<1>6. AttemptsOK'
  BY <1>2, <1>3, <1>4 DEF HonestInv, AttemptsOK
<1>7. EndedWell'
  BY <1>2, <1>3, <1>4 DEF HonestInv, EndedWell, RanWell
<1>8. ToldBy'
  BY DEF HonestInv, ToldBy
<1> QED BY <1>5, <1>6, <1>7, <1>8 DEF HonestInv

LEMMA WorkerHonest ==
  ASSUME LifeInv, HonestInv, NEW w \in Workers, Worker(w)
  PROVE  HonestInv'
<1> USE DEF poolVars, handleVars, callerVars, workerVars
<1>0. /\ pc \in [Workers -> WorkerStates] /\ held \in [Workers -> Jobs \cup {None}]
      /\ attempts \in [Jobs -> Nat] /\ MaxAttempts \in [Jobs -> Nat \ {0}]
      /\ lastErr \in [Jobs -> Errors]
      /\ status \in [Jobs -> {"new", "queued", "running", "failed", "done", "dead"}]
      /\ (pc[w] \in Holding => held[w] \in Jobs)
  BY DEF LifeInv, TypeInv, TypeOK, WhereaboutsOK
<1> USE DEF Counted, Over, Holding, WorkerStates
<1>1. CASE Dequeue(w) \/ PollHigh(w)
  BY <1>0, <1>1, HonestKept DEF Dequeue, PollHigh, Receive
<1>2. CASE PollEmpty(w) \/ Exit(w) \/ takeKey(w) \/ Veto(w) \/ RetryGate(w) \/ Requeue(w)
  BY <1>0, <1>2, HonestKept DEF PollEmpty, Exit, takeKey, Veto, RetryGate, Requeue
<1>3. CASE Begin(w)
  <2>1. held[w] \in Jobs /\ pc[w] = "begin" /\ pc' = [pc EXCEPT ![w] = "try"]
    BY <1>0, <1>3 DEF Begin
  <2>2. attempts'[held[w]] = 1 /\ 1 \in 1..MaxAttempts[held[w]]
    BY <1>0, <1>3, <2>1 DEF Begin
  <2>3. \A j \in Jobs : j # held[w] => status'[j] = status[j] /\ attempts'[j] = attempts[j]
                                       /\ lastErr'[j] = lastErr[j]
    BY <1>0, <1>3 DEF Begin
  <2>4. UNCHANGED <<held, done, result, caller, future, answer>>
    BY <1>3 DEF Begin
  <2> QED BY <2>1, <2>2, <2>3, <2>4, HandHonest
<1>4. CASE Run(w)
  BY <1>0, <1>4, HandHonest DEF Run, HonestInv, AttemptsOK
<1>5. CASE GiveUp(w)
  BY <1>0, <1>5, HandHonest DEF GiveUp
<1>6. CASE Backoff(w)
  <2>1. attempts[held[w]] \in 1..MaxAttempts[held[w]] /\ attempts[held[w]] < MaxAttempts[held[w]]
    BY <1>6 DEF Backoff, HonestInv, AttemptsOK
  <2>2. attempts'[held[w]] = attempts[held[w]] + 1
    BY <1>0, <1>6 DEF Backoff
  <2>3. attempts'[held[w]] \in 1..MaxAttempts[held[w]]
    BY <1>0, <1>6, <2>1, <2>2 DEF Backoff
  <2> QED BY <1>0, <1>6, <2>3, HandHonest DEF Backoff
<1>7. ASSUME NEW err \in RunErrors, RunReturns(w, err) PROVE HonestInv'
  <2>1. held[w] \in Jobs /\ attempts' = attempts /\ attempts[held[w]] \in 1..MaxAttempts[held[w]]
    BY <1>0, <1>7 DEF RunReturns, HonestInv, AttemptsOK
  <2>2. \A j \in Jobs : j # held[w] => status'[j] = status[j] /\ lastErr'[j] = lastErr[j]
    BY <1>0, <1>7 DEF RunReturns
  <2>3. UNCHANGED <<held, done, result, caller, future, answer>> /\ pc[w] = "exec"
    BY <1>7 DEF RunReturns
  <2>4. CASE Retried(held[w], err)
    <3>1. pc' = [pc EXCEPT ![w] = "backoff"] /\ attempts[held[w]] < MaxAttempts[held[w]]
      BY <1>7, <2>4 DEF RunReturns, Retried
    <3> QED BY <2>1, <2>2, <2>3, <3>1, HandHonest
  <2>5. CASE ~Retried(held[w], err)
    <3>1. pc' = [pc EXCEPT ![w] = "release"] /\ lastErr'[held[w]] = err
      BY <1>0, <1>7, <2>1, <2>5 DEF RunReturns
    <3>2. err = "nil" => status'[held[w]] = "done"
      BY <1>0, <1>7, <2>1 DEF RunReturns
    <3> QED BY <2>1, <2>2, <2>3, <3>1, <3>2, HandHonest
  <2> QED BY <2>4, <2>5
<1>8. CASE Release(w)
  BY <1>0, <1>8, HandHonest DEF Release, HonestInv, EndedWell, RanWell
<1>9. CASE DeliverResult(w)
  <2>1. /\ held[w] \in Jobs /\ pc[w] = "deliver"
        /\ UNCHANGED <<held, status, attempts, lastErr, caller, future, answer>>
    BY <1>0, <1>9 DEF DeliverResult
  <2>2. ~done[held[w]]
    BY <2>1 DEF LifeInv, RegInv, Born, OnWay, Carried
  <2>3. /\ done \in [Jobs -> BOOLEAN] /\ result \in [Jobs -> Errors]
    BY DEF LifeInv, TypeInv, TypeOK
  <2>4. /\ result'[held[w]] = lastErr[held[w]]
        /\ \A j \in Jobs : j # held[w] => result'[j] = result[j] /\ (done'[j] <=> done[j])
        /\ \A v \in Workers : pc'[v] = pc[v] \/ pc'[v] = "deregister"
    BY <1>0, <1>9, <2>1, <2>2, <2>3 DEF DeliverResult, Deliver
  <2>5. SettledWell'
    BY <2>1, <2>4 DEF HonestInv, SettledWell, EndedWell, RanWell
  <2>6. AttemptsOK' /\ EndedWell'
    BY <2>1, <2>4 DEF HonestInv, AttemptsOK, EndedWell, RanWell
  <2>7. ToldBy'
    BY <2>1, <2>2, <2>4 DEF HonestInv, ToldBy
  <2> QED BY <2>5, <2>6, <2>7 DEF HonestInv
<1>10. CASE deregister(w)
  BY <1>0, <1>10, HonestKept DEF deregister
<1> QED BY <1>1, <1>2, <1>3, <1>4, <1>5, <1>6, <1>7, <1>8, <1>9, <1>10 DEF Worker, Select

\* A caller writes its own job's handle, which no worker has and which is open.
LEMMA OpenHandle ==
  ASSUME LifeInv, HonestInv, NEW c \in Jobs, caller[c] \in {"publish", "refused"}, UNCHANGED <<pc, held>>,
         \A j \in Jobs : j # c => status'[j] = status[j] /\ attempts'[j] = attempts[j] /\ lastErr'[j] = lastErr[j]
  PROVE  /\ ~done[c]
         /\ AttemptsOK' /\ EndedWell'
         /\ \A j \in Jobs : j # c /\ done[j] /\ result[j] = "nil" => RanWell(j)'
<1>1. \A w \in Workers : pc[w] \in Holding => held[w] \in Jobs /\ held[w] # c
  BY DEF LifeInv, TypeInv, WhereaboutsOK, PlaceInv, HandsOK, Accepted
<1>2. Counted \cup Over \subseteq Holding
  BY DEF Counted, Over, Holding, WorkerStates
<1>3. ~done[c]
  BY DEF LifeInv, RegInv, Unborn, Born
<1>4. AttemptsOK' /\ EndedWell'
  BY <1>1, <1>2 DEF HonestInv, AttemptsOK, EndedWell, RanWell
<1>5. \A j \in Jobs : j # c /\ done[j] /\ result[j] = "nil" => RanWell(j)'
  BY DEF HonestInv, SettledWell, RanWell
<1> QED BY <1>3, <1>4, <1>5

LEMMA CallerHonest ==
  ASSUME LifeInv, HonestInv, NEW c \in Jobs, Enqueue(c) \/ AwaitResult(c) \/ AwaitAbandon(c)
  PROVE  HonestInv'
<1> USE DEF poolVars, handleVars, callerVars, workerVars
<1>0. /\ caller \in [Jobs -> CallerStates] /\ answer \in [Jobs -> Errors \cup {None}]
      /\ future \in [Jobs -> Jobs \cup {None}] /\ result \in [Jobs -> Errors]
      /\ done \in [Jobs -> BOOLEAN]
      /\ status \in [Jobs -> {"new", "queued", "running", "failed", "done", "dead"}]
      /\ lastErr \in [Jobs -> Errors]
      /\ (caller[c] = "held" => future[c] \in Jobs)
  BY DEF LifeInv, TypeInv, TypeOK, WhereaboutsOK
<1>1. ASSUME UNCHANGED <<status, attempts, lastErr, done, result, pc, held>>, ToldBy'
      PROVE  HonestInv'
  BY <1>1 DEF HonestInv, SettledWell, AttemptsOK, EndedWell, RanWell
<1>2. CASE EnqueueClosed(c) \/ EnqueueOpen(c) \/ EnqueueJoin(c) \/ EnqueuePush(c)
  <2>1. UNCHANGED <<status, attempts, lastErr, done, result, pc, held>>
    BY <1>2 DEF EnqueueClosed, EnqueueOpen, EnqueueJoin, EnqueuePush
  <2>2. ToldBy'
    BY <1>0, <1>2, <2>1 DEF EnqueueClosed, EnqueueOpen, EnqueueJoin, EnqueuePush, HonestInv, ToldBy
  <2> QED BY <1>1, <2>1, <2>2
<1>3. ASSUME NEW err \in Errors, EnqueueGiveUp(c, err) PROVE HonestInv'
  <2>1. UNCHANGED <<status, attempts, lastErr, done, result, pc, held>>
    BY <1>3 DEF EnqueueGiveUp
  <2>2. ToldBy'
    BY <1>0, <1>3, <2>1 DEF EnqueueGiveUp, HonestInv, ToldBy
  <2> QED BY <1>1, <2>1, <2>2
<1>4. CASE AwaitResult(c) \/ AwaitAbandon(c)
  <2>1. UNCHANGED <<status, attempts, lastErr, done, result, pc, held>>
    BY <1>4 DEF AwaitResult, AwaitAbandon
  <2>2. ToldBy'
    BY <1>0, <1>4, <2>1 DEF AwaitResult, AwaitAbandon, HonestInv, ToldBy
  <2> QED BY <1>1, <2>1, <2>2
<1>5. CASE EnqueuePublish(c)
  <2>1. /\ caller[c] = "publish"
        /\ UNCHANGED <<attempts, lastErr, done, result, answer, pc, held>>
        /\ \A j \in Jobs : j # c => status'[j] = status[j]
        /\ \A j \in Jobs : j # c => caller'[j] = caller[j] /\ future'[j] = future[j]
        /\ caller'[c] = "push"
    BY <1>0, <1>5 DEF EnqueuePublish
  <2>2. ~done[c] /\ AttemptsOK' /\ EndedWell'
        /\ \A j \in Jobs : j # c /\ done[j] /\ result[j] = "nil" => RanWell(j)'
    BY <2>1, OpenHandle
  <2>3. SettledWell'
    BY <2>1, <2>2 DEF SettledWell
  <2>4. ToldBy'
    BY <2>1 DEF HonestInv, ToldBy
  <2> QED BY <2>2, <2>3, <2>4 DEF HonestInv
<1>6. CASE failQueued(c)
  <2>1. /\ caller[c] = "refused"
        /\ UNCHANGED <<attempts, future, answer, pc, held>>
        /\ \A j \in Jobs : j # c => status'[j] = status[j] /\ lastErr'[j] = lastErr[j]
        /\ \A j \in Jobs : j # c => caller'[j] = caller[j] /\ result'[j] = result[j]
                                    /\ (done'[j] <=> done[j])
        /\ caller'[c] = "answered"
    BY <1>0, <1>6 DEF failQueued, Deliver
  <2>2. ~done[c] /\ AttemptsOK' /\ EndedWell'
        /\ \A j \in Jobs : j # c /\ done[j] /\ result[j] = "nil" => RanWell(j)'
    BY <2>1, OpenHandle
  <2>3. result'[c] = answer[c] /\ answer[c] # "nil"
    BY <1>0, <1>6, <2>1, <2>2 DEF failQueued, Deliver, HonestInv, ToldBy
  <2>4. SettledWell'
    BY <2>1, <2>2, <2>3 DEF SettledWell
  <2>5. ToldBy'
    BY <2>1, <2>2, <2>3 DEF HonestInv, ToldBy
  <2> QED BY <2>2, <2>4, <2>5 DEF HonestInv
<1> QED BY <1>2, <1>3, <1>4, <1>5, <1>6 DEF Enqueue

LEMMA NextHonest == LifeInv /\ HonestInv /\ [Next]_vars => HonestInv'
<1> SUFFICES ASSUME LifeInv, HonestInv, [Next]_vars PROVE HonestInv'
  OBVIOUS
<1>1. CASE UNCHANGED <<status, attempts, lastErr, done, result, caller, future, answer, pc, held>>
  BY <1>1, HonestKept
<1>2. CASE ShutdownClose \/ ShutdownStop \/ UNCHANGED vars
  BY <1>1, <1>2 DEF ShutdownClose, ShutdownStop, vars, handleVars, callerVars, workerVars
<1> QED BY <1>2, CallerHonest, WorkerHonest DEF Next

\* A waiter is told nil only for a job that ran and ended well, whoever else
\* joined it, cancelled it or refused it, for any number of attempts.
THEOREM WaitersToldTruth == Spec => []HonestAnswer
<1>1. HonestInv => HonestAnswer
  BY DEF HonestInv, ToldBy, SettledWell, RanWell, HonestAnswer
<1> QED BY LifeInvariant, InitHonest, NextHonest, <1>1, PTL DEF Spec

-----------------------------------------------------------------------------
(* The pool implements JobLifecycle.                                         *)

Running(j) == \E w \in Workers : held[w] = j /\ pc[w] \in PastGate

Ended(j) == \E w \in Workers : held[w] = j /\ pc[w] = "deliver"

PhaseOf(new, running, ended, settled) ==
  IF new THEN "new" ELSE IF running THEN "running" ELSE IF ended THEN "finished"
  ELSE IF settled THEN "settled" ELSE "waiting"

\* A phase depends on these four facts about its job.
LEMMA PhaseFacts ==
  ASSUME NEW j \in Jobs
  PROVE  /\ Phase(j) = PhaseOf(status[j] = "new", Running(j), Ended(j), done[j])
         /\ Phase(j)' = PhaseOf(status'[j] = "new", Running(j)', Ended(j)', done'[j])
BY DEF Phase, PhaseOf, Running, Ended

\* The abstract variables.
Phased == [j \in Jobs |-> Phase(j)]

Same == \A j \in Jobs : Phase(j)' = Phase(j)

Others(j) == \A i \in Jobs : i # j => Phase(i)' = Phase(i)

\* Equal phases are a stutter, one changed phase is a move.
LEMMA Stutters ==
  ASSUME Same, result' = result
  PROVE  UNCHANGED <<result, Phased>>
BY DEF Same, Phased

LEMMA MovesStep ==
  ASSUME NEW j \in Jobs, NEW from, NEW to, Phase(j) = from, Phase(j)' = to, Others(j)
  PROVE  Lifecycle!Moves(j, from, to)
BY DEF Lifecycle!Moves, Others

\* The abstract initial state and next-state relation.
LEMMA InitRefines == Init => Lifecycle!Init
BY DEF Init, Lifecycle!Init, Phase

\* The four facts stay for every job.
LEMMA SamePhases ==
  ASSUME \A j \in Jobs : /\ (status'[j] = "new") <=> (status[j] = "new")
                         /\ Running(j)' <=> Running(j)
                         /\ Ended(j)' <=> Ended(j)
                         /\ done'[j] <=> done[j]
  PROVE  Same
BY PhaseFacts DEF Same, PhaseOf

LEMMA CallerRefines ==
  ASSUME LifeInv, HonestInv, NEW c \in Jobs, Enqueue(c) \/ AwaitResult(c) \/ AwaitAbandon(c)
  PROVE  Lifecycle!Next \/ UNCHANGED <<result, Phased>>
<1> USE DEF poolVars, handleVars, callerVars, workerVars
<1>0. /\ status \in [Jobs -> {"new", "queued", "running", "failed", "done", "dead"}]
      /\ done \in [Jobs -> BOOLEAN] /\ result \in [Jobs -> Errors]
      /\ answer \in [Jobs -> Errors \cup {None}]
  BY DEF LifeInv, TypeInv, TypeOK
<1>1. CASE UNCHANGED <<status, done, result, pc, held>>
  BY <1>1, SamePhases, Stutters DEF Running, Ended
<1>2. CASE EnqueueClosed(c) \/ EnqueueOpen(c) \/ EnqueueJoin(c) \/ EnqueuePush(c)
  BY <1>1, <1>2 DEF EnqueueClosed, EnqueueOpen, EnqueueJoin, EnqueuePush
<1>3. ASSUME NEW err \in Errors, EnqueueGiveUp(c, err)
      PROVE  Lifecycle!Next \/ UNCHANGED <<result, Phased>>
  BY <1>1, <1>3 DEF EnqueueGiveUp
<1>4. CASE AwaitResult(c) \/ AwaitAbandon(c)
  BY <1>1, <1>4 DEF AwaitResult, AwaitAbandon
<1>5. caller[c] \in {"publish", "refused"} =>
        ~done[c] /\ \A w \in Workers : held[w] # c
  BY DEF LifeInv, PlaceInv, HandsOK, RegInv, Unborn, Born, Accepted
<1>6. CASE EnqueuePublish(c)
  <2>1. /\ caller[c] = "publish" /\ status'[c] = "queued"
        /\ UNCHANGED <<done, result, pc, held>>
        /\ \A j \in Jobs : j # c => status'[j] = status[j]
    BY <1>0, <1>6 DEF EnqueuePublish
  <2>2. status[c] = "new"
    BY <2>1 DEF LifeInv, RegInv, Unborn
  <2>3. ~Running(c)' /\ ~Ended(c)'
    BY <1>5, <2>1 DEF Running, Ended
  <2>4. Phase(c) = "new" /\ Phase(c)' = "waiting"
    BY <1>5, <2>1, <2>2, <2>3, PhaseFacts DEF PhaseOf
  <2>5. \A j \in Jobs : (Running(j)' <=> Running(j)) /\ (Ended(j)' <=> Ended(j))
    BY <2>1 DEF Running, Ended
  <2>6. Others(c)
    BY <2>1, <2>5, PhaseFacts DEF Others, PhaseOf
  <2>7. Lifecycle!Submit(c)
    BY <2>1, <2>4, <2>6, MovesStep DEF Lifecycle!Submit
  <2> QED BY <2>7 DEF Lifecycle!Next
<1>7. CASE failQueued(c)
  <2>1. /\ caller[c] = "refused" /\ status'[c] = "dead"
        /\ UNCHANGED <<answer, pc, held>>
        /\ \A j \in Jobs : j # c => status'[j] = status[j] /\ (done'[j] <=> done[j])
        /\ done'[c]
    BY <1>0, <1>7 DEF failQueued, Deliver
  <2>2. status[c] # "new"
    BY <2>1 DEF LifeInv, RegInv, Born
  <2>3. ~Running(c) /\ ~Ended(c) /\ ~Running(c)' /\ ~Ended(c)'
    BY <1>5, <2>1 DEF Running, Ended
  <2>4. Phase(c) = "waiting" /\ Phase(c)' = "settled"
    BY <1>5, <2>1, <2>2, <2>3, PhaseFacts DEF PhaseOf
  <2>5. \A j \in Jobs : (Running(j)' <=> Running(j)) /\ (Ended(j)' <=> Ended(j))
    BY <2>1 DEF Running, Ended
  <2>6. Others(c)
    BY <2>1, <2>5, PhaseFacts DEF Others, PhaseOf
  <2>7. answer[c] \in Errors \ {"nil"}
    BY <2>1 DEF HonestInv, ToldBy, LifeInv, TypeInv, WhereaboutsOK
  <2>8. result' = [result EXCEPT ![c] = answer[c]]
    BY <1>5, <1>7, <2>1 DEF failQueued, Deliver
  <2>9. Lifecycle!Refuse(c)
    BY <2>4, <2>6, <2>7, <2>8, MovesStep DEF Lifecycle!Refuse
  <2> QED BY <2>9 DEF Lifecycle!Next
<1> QED BY <1>2, <1>3, <1>4, <1>6, <1>7 DEF Enqueue

\* What the workers do with the other jobs stays.
OtherHands(j) ==
  \A i \in Jobs : i # j => (Running(i)' <=> Running(i)) /\ (Ended(i)' <=> Ended(i))

LEMMA OthersStay ==
  ASSUME NEW j \in Jobs, OtherHands(j),
         \A i \in Jobs : i # j => status'[i] = status[i] /\ (done'[i] <=> done[i])
  PROVE  Others(j)
BY PhaseFacts DEF OtherHands, Others, PhaseOf

\* A worker's step with its job: that job's phase is told by the worker's state,
\* and no other job's phase changes.
LEMMA HandPhases ==
  ASSUME LifeInv, NEW w \in Workers, NEW h \in Jobs, held[w] = h, NEW s, pc' = [pc EXCEPT ![w] = s], held' = held
  PROVE  /\ OtherHands(h)
         /\ Running(h)' <=> s \in PastGate
         /\ Ended(h)' <=> s = "deliver"
         /\ Running(h) <=> pc[w] \in PastGate
         /\ Ended(h) <=> pc[w] = "deliver"
<1>1. \A v \in Workers : v # w => held[v] # h
  BY DEF LifeInv, PlaceInv, OneHolder
<1>2. \A v \in Workers : pc'[v] = IF v = w THEN s ELSE pc[v]
  BY DEF LifeInv, TypeInv, TypeOK
<1>3. ASSUME NEW j \in Jobs, j # h
      PROVE  (Running(j)' <=> Running(j)) /\ (Ended(j)' <=> Ended(j))
  BY <1>2, <1>3 DEF Running, Ended
<1>4. OtherHands(h)
  BY <1>3 DEF OtherHands
<1>5. Running(h)' <=> s \in PastGate
  BY <1>1, <1>2 DEF Running
<1>6. Ended(h)' <=> s = "deliver"
  BY <1>1, <1>2 DEF Ended
<1>7. (Running(h) <=> pc[w] \in PastGate) /\ (Ended(h) <=> pc[w] = "deliver")
  BY <1>1 DEF Running, Ended
<1> QED BY <1>4, <1>5, <1>6, <1>7

\* The step of a worker that is nobody's business: its job stays in its phase.
LEMMA HandStutters ==
  ASSUME LifeInv, NEW w \in Workers, NEW s, pc[w] \in Holding, pc' = [pc EXCEPT ![w] = s],
         (s \in PastGate) <=> (pc[w] \in PastGate), (s = "deliver") <=> (pc[w] = "deliver"),
         UNCHANGED <<held, done, result>>,
         \A j \in Jobs : (status'[j] = "new") <=> (status[j] = "new")
  PROVE  UNCHANGED <<result, Phased>>
<1>1. PICK h \in Jobs : held[w] = h
  BY DEF LifeInv, TypeInv, WhereaboutsOK
<1>2. /\ OtherHands(h)
      /\ Running(h)' <=> Running(h)
      /\ Ended(h)' <=> Ended(h)
  BY <1>1, HandPhases
<1>3. \A j \in Jobs : (Running(j)' <=> Running(j)) /\ (Ended(j)' <=> Ended(j))
  BY <1>2 DEF OtherHands
<1> QED BY <1>3, SamePhases, Stutters

\* Workers take and drop jobs outside the phases.
LEMMA SpareHands ==
  ASSUME \A v \in Workers : \/ pc'[v] = pc[v] /\ held'[v] = held[v]
                            \/ {pc[v], pc'[v]} \cap (PastGate \cup {"deliver"}) = {},
         UNCHANGED <<status, done, result>>
  PROVE  UNCHANGED <<result, Phased>>
<1>1. ASSUME NEW j \in Jobs PROVE (Running(j)' <=> Running(j)) /\ (Ended(j)' <=> Ended(j))
  BY DEF Running, Ended
<1> QED BY <1>1, SamePhases, Stutters

\* A job that is carried is waiting until its worker is past the gate.
LEMMA CarriedWaits ==
  ASSUME LifeInv, NEW w \in Workers, pc[w] \in {"gate", "park"}
  PROVE  held[w] \in Jobs /\ Phase(held[w]) = "waiting"
<1>1. held[w] \in Jobs /\ OnWay(held[w])
  BY DEF LifeInv, TypeInv, WhereaboutsOK, Holding, WorkerStates, OnWay, Carried
<1>2. status[held[w]] # "new" /\ ~done[held[w]]
  BY <1>1 DEF LifeInv, RegInv, Born
<1>3. ~Running(held[w]) /\ ~Ended(held[w])
  BY <1>1 DEF Running, Ended, PastGate, LifeInv, PlaceInv, OneHolder
<1> QED BY <1>1, <1>2, <1>3, PhaseFacts DEF PhaseOf

\* A job of an ungated lane starts as soon as it is received, one of a gated
\* lane waits on in the worker's hands.
LEMMA ReceiveRefines ==
  ASSUME LifeInv, NEW w \in Workers, NEW q \in Sources(w), q \in Queues, Receive(w, q),
         pc[w] \in {"idle", "wait"}
  PROVE  Lifecycle!Next \/ UNCHANGED <<result, Phased>>
<1>0. /\ pc \in [Workers -> WorkerStates] /\ held \in [Workers -> Jobs \cup {None}]
      /\ queue \in [Queues -> Seq(Jobs)]
  BY DEF LifeInv, TypeInv, TypeOK
<1>1. /\ UNCHANGED <<status, done, result>>
      /\ \A v \in Workers : v # w => pc'[v] = pc[v] /\ held'[v] = held[v]
      /\ held'[w] = Head(queue[q])
      /\ pc'[w] = IF LaneOf[w] \in GatedLanes THEN "gate" ELSE "begin"
  BY <1>0 DEF Receive, handleVars
<1>2. CASE LaneOf[w] \in GatedLanes
  BY <1>1, <1>2, SpareHands DEF PastGate
<1>3. CASE LaneOf[w] \notin GatedLanes
  <2>1. PICK h \in Jobs : h = Head(queue[q]) /\ In(queue[q], h)
    BY <1>0, TailIn DEF Receive, LifeInv, PlaceInv, QueuesOK
  <2>2. QueueOf[h] = q /\ OnWay(h)
    BY <2>1 DEF LifeInv, PlaceInv, QueuesOK, OnWay
  <2>3. status[h] # "new" /\ ~done[h] /\ \A v \in Workers : held[v] # h
    BY <2>1, <2>2 DEF LifeInv, RegInv, Born, PlaceInv, HandsOK
  <2>4. ~Running(h) /\ ~Ended(h)
    BY <2>3 DEF Running, Ended
  <2>5. Running(h)'
    BY <1>1, <1>3, <2>1 DEF Running, PastGate
  <2>6. Phase(h) = "waiting" /\ Phase(h)' = "running"
    BY <1>1, <2>1, <2>3, <2>4, <2>5, PhaseFacts DEF PhaseOf
  <2>7. ASSUME NEW j \in Jobs, j # h
        PROVE  (Running(j)' <=> Running(j)) /\ (Ended(j)' <=> Ended(j))
    BY <1>0, <1>1, <2>1, <2>3, <2>7 DEF Running, Ended, PastGate
  <2>8. Others(h)
    BY <1>1, <2>7, PhaseFacts DEF Others, PhaseOf
  <2>9. q \notin GatedLanes
    BY <1>3 DEF Sources, ImageQueues, GatedLanes
  <2>10. \A i \in Jobs : <<i, h>> \notin Conflict
    BY <2>2, <2>9 DEF Conflict
  <2>11. Lifecycle!Start(h)
    BY <1>1, <2>1, <2>6, <2>8, <2>10, MovesStep DEF Lifecycle!Start
  <2> QED BY <2>1, <2>11 DEF Lifecycle!Next
<1> QED BY <1>2, <1>3

\* The gate lets a job start only while no job of its plugin runs.
LEMMA GateRefines ==
  ASSUME LifeInv, KeyInv, NEW w \in Workers, takeKey(w)
  PROVE  Lifecycle!Next
<1>1. /\ pc[w] = "gate" /\ pc' = [pc EXCEPT ![w] = "begin"] /\ KeyOf(w) \notin inUse
      /\ UNCHANGED <<held, status, done, result>>
  BY DEF takeKey, handleVars
<1>2. PICK h \in Jobs : held[w] = h /\ Phase(h) = "waiting" /\ LaneOf[w] \in GatedLanes
  BY <1>1, CarriedWaits DEF LifeInv, TypeInv, WhereaboutsOK
<1>3. Others(h) /\ Running(h)'
  BY <1>1, <1>2, HandPhases, OthersStay DEF PastGate
<1>4. Phase(h)' = "running"
  <2>1. status[h] # "new"
    BY <1>1, <1>2 DEF LifeInv, RegInv, Born, OnWay, Carried
  <2> QED BY <1>1, <1>2, <1>3, <2>1, PhaseFacts DEF PhaseOf
<1>5. QueueOf[h] = LaneOf[w]
  BY <1>2, OwnSources DEF LifeInv, PlaceInv, HandsOK
<1>6. ASSUME NEW i \in Jobs, <<i, h>> \in Conflict, Phase(i) = "running" PROVE FALSE
  <2>1. PICK v \in Workers : held[v] = i /\ pc[v] \in PastGate
    <3>1. Running(i)
      BY <1>6, PhaseFacts DEF PhaseOf
    <3> QED BY <3>1 DEF Running
  <2>2. /\ QueueOf[i] = LaneOf[w] /\ PluginKeyOf[i] = PluginKeyOf[h]
        /\ PluginKeyOf[i] # NoKey
    BY <1>5, <1>6 DEF Conflict
  <2>3. QueueOf[i] \in Sources(v)
    BY <2>1 DEF LifeInv, PlaceInv, HandsOK
  <2>4. LaneOf[v] = LaneOf[w]
    BY <1>2, <2>2, <2>3 DEF Sources, ImageQueues, GatedLanes
  <2>5. KeyOf(v) \in inUse
    BY <1>2, <2>1, <2>2, <2>4 DEF KeyInv, KeysInUse, Gated
  <2> QED BY <1>1, <1>2, <2>1, <2>2, <2>4, <2>5 DEF KeyOf
<1>7. Lifecycle!Start(h)
  <2>1. Lifecycle!Moves(h, "waiting", "running")
    BY <1>2, <1>3, <1>4, MovesStep
  <2> QED BY <1>1, <1>6, <2>1 DEF Lifecycle!Start
<1> QED BY <1>2, <1>7 DEF Lifecycle!Next

LEMMA WorkerRefines ==
  ASSUME LifeInv, KeyInv, NEW w \in Workers, Worker(w)
  PROVE  Lifecycle!Next \/ UNCHANGED <<result, Phased>>
<1> USE DEF poolVars, handleVars, callerVars, workerVars
<1>0. /\ pc \in [Workers -> WorkerStates] /\ held \in [Workers -> Jobs \cup {None}]
      /\ status \in [Jobs -> {"new", "queued", "running", "failed", "done", "dead"}]
      /\ done \in [Jobs -> BOOLEAN] /\ result \in [Jobs -> Errors] /\ lastErr \in [Jobs -> Errors]
      /\ (pc[w] \in Holding => held[w] \in Jobs)
      /\ (pc[w] \in Holding \ {"deregister"} => OnWay(held[w]))
  BY DEF LifeInv, TypeInv, TypeOK, WhereaboutsOK, OnWay, Carried
<1>1. pc[w] \in Holding => status[held[w]] # "new"
  BY <1>0 DEF LifeInv, RegInv, Born, Settled, Leaving
<1>2. CASE Dequeue(w)
  BY <1>2, ReceiveRefines, OwnSources DEF Dequeue
<1>3. CASE PollHigh(w)
  BY <1>3, ReceiveRefines, OwnSources DEF PollHigh
<1>4. CASE PollEmpty(w) \/ Exit(w) \/ Veto(w) \/ RetryGate(w) \/ Requeue(w)
  BY <1>0, <1>4, SpareHands DEF PollEmpty, Exit, Veto, RetryGate, Requeue, PastGate
<1>5. CASE takeKey(w)
  BY <1>5, GateRefines
<1>6. CASE Begin(w)
  BY <1>0, <1>1, <1>6, HandStutters DEF Begin, PastGate, Holding, WorkerStates
<1>7. CASE Run(w)
  BY <1>7, HandStutters DEF Run, PastGate, Holding, WorkerStates
<1>8. CASE GiveUp(w)
  BY <1>0, <1>1, <1>8, HandStutters DEF GiveUp, PastGate, Holding, WorkerStates
<1>9. CASE Backoff(w)
  BY <1>9, HandStutters DEF Backoff, PastGate, Holding, WorkerStates
<1>10. ASSUME NEW err \in RunErrors, RunReturns(w, err)
       PROVE  Lifecycle!Next \/ UNCHANGED <<result, Phased>>
  <2>1. pc[w] = "exec" /\ UNCHANGED <<held, done, result>>
    BY <1>10 DEF RunReturns
  <2>2. \/ pc' = [pc EXCEPT ![w] = "backoff"]
        \/ pc' = [pc EXCEPT ![w] = "release"]
    BY <1>10 DEF RunReturns
  <2>3. \A j \in Jobs : (status'[j] = "new") <=> (status[j] = "new")
    BY <1>0, <1>1, <1>10, <2>1 DEF RunReturns, Holding, WorkerStates
  <2> QED BY <2>1, <2>2, <2>3, HandStutters DEF PastGate, Holding, WorkerStates
<1>11. CASE Release(w)
  <2>0. PICK h \in Jobs : h = held[w]
    BY <1>0, <1>11 DEF Release, DeliverResult, Holding, WorkerStates
  <2>1. /\ pc[w] = "release" /\ pc' = [pc EXCEPT ![w] = "deliver"]
        /\ UNCHANGED <<held, done, result, status>>
    BY <1>0, <1>11 DEF Release, Holding, WorkerStates
  <2>2. /\ Others(h) /\ Running(h) /\ ~Running(h)' /\ Ended(h)'
    BY <2>0, <2>1, HandPhases, OthersStay DEF PastGate
  <2>3. Phase(h) = "running" /\ Phase(h)' = "finished"
    BY <1>1, <2>0, <2>1, <2>2, PhaseFacts DEF PhaseOf, Holding, WorkerStates
  <2>4. Lifecycle!Finish(h)
    BY <2>1, <2>2, <2>3, MovesStep DEF Lifecycle!Finish
  <2> QED BY <2>1, <2>4 DEF Lifecycle!Next
<1>12. CASE DeliverResult(w)
  <2>0. PICK h \in Jobs : h = held[w]
    BY <1>0, <1>12 DEF Release, DeliverResult, Holding, WorkerStates
  <2>1. /\ pc[w] = "deliver" /\ pc' = [pc EXCEPT ![w] = "deregister"]
        /\ UNCHANGED <<held, status>>
    BY <1>0, <1>12 DEF DeliverResult, Holding, WorkerStates
  <2>2. ~done[h]
    BY <1>0, <2>0, <2>1 DEF LifeInv, RegInv, Born, Holding, WorkerStates
  <2>3. /\ result' = [result EXCEPT ![h] = lastErr[h]] /\ done'[h]
        /\ \A j \in Jobs : j # h => (done'[j] <=> done[j])
    BY <1>0, <1>12, <2>0, <2>1, <2>2 DEF DeliverResult, Deliver
  <2>4. /\ Others(h) /\ Ended(h) /\ ~Running(h)
        /\ ~Running(h)' /\ ~Ended(h)'
    <3>1. /\ OtherHands(h) /\ Ended(h) /\ ~Running(h)
          /\ ~Running(h)' /\ ~Ended(h)'
      <4>1. \E s : s \notin PastGate \cup {"deliver"} /\ pc' = [pc EXCEPT ![w] = s]
        BY <2>1 DEF PastGate
      <4>2. PICK s : s \notin PastGate \cup {"deliver"} /\ pc' = [pc EXCEPT ![w] = s]
        BY <4>1
      <4> QED BY <2>0, <2>1, <4>2, HandPhases DEF PastGate
    <3> QED BY <2>1, <2>3, <3>1, OthersStay
  <2>5. Phase(h) = "finished" /\ Phase(h)' = "settled"
    BY <1>1, <2>0, <2>1, <2>2, <2>3, <2>4, PhaseFacts DEF PhaseOf, Holding, WorkerStates
  <2>6. lastErr[h] \in Errors
    BY <1>0, <2>1
  <2>7. Lifecycle!Settle(h)
    BY <2>1, <2>3, <2>4, <2>5, <2>6, MovesStep DEF Lifecycle!Settle
  <2> QED BY <2>1, <2>7 DEF Lifecycle!Next
<1>13. CASE deregister(w)
  BY <1>0, <1>13, SpareHands DEF deregister, PastGate
<1> QED BY <1>2, <1>3, <1>4, <1>5, <1>6, <1>7, <1>8, <1>9, <1>10, <1>11, <1>12, <1>13
        DEF Worker, Select

LEMMA NextRefines ==
  LifeInv /\ KeyInv /\ HonestInv /\ [Next]_vars => [Lifecycle!Next]_<<result, Phased>>
<1> SUFFICES ASSUME LifeInv, KeyInv, HonestInv, [Next]_vars
             PROVE  Lifecycle!Next \/ UNCHANGED <<result, Phased>>
  OBVIOUS
<1>1. CASE ShutdownClose \/ ShutdownStop \/ UNCHANGED vars
  <2>1. UNCHANGED <<status, done, result, pc, held>>
    BY <1>1 DEF ShutdownClose, ShutdownStop, vars, handleVars, workerVars
  <2> QED BY <2>1, SpareHands
<1> QED BY <1>1, CallerRefines, WorkerRefines DEF Next

\* The pool implements the life cycle its callers rely on, for any number of
\* jobs, workers, plugins and retries: a job starts once and only while no job of
\* its plugin runs, and it is settled once, with nil only after it ran.
THEOREM PoolImplementsLifecycle == Spec => ImplementsLifecycle
<1>1. Init => Lifecycle!Init
  BY InitRefines
<1>2. LifeInv /\ KeyInv /\ HonestInv /\ [Next]_vars => [Lifecycle!Next]_<<result, Phased>>
  BY NextRefines
<1>3. TypeInv /\ KeyInv /\ [Next]_vars => KeyInv'
  BY NextKeys
<1>4. LifeInv => TypeInv
  BY DEF LifeInv
<1> QED BY <1>1, <1>2, <1>3, <1>4, InitKeys, InitHonest, NextHonest, LifeInvariant, PTL
        DEF Spec, ImplementsLifecycle, Lifecycle!Spec, Phased

-----------------------------------------------------------------------------
(* Overtaking. A low job passes a waiting high one only through a worker that *)
(* was in its blocking select already, and nobody enters that select while    *)
(* the high queue holds a job: each such worker may do it once.               *)

ImageWorkers == {w \in Workers : LaneOf[w] = "image"}

\* The image workers that no longer look at the high queue first.
Selecting == {w \in ImageWorkers : pc[w] = "wait"}

OvertakeInv ==
  \A j \in Jobs :
    /\ overtaken[j] <= Cardinality(ImageWorkers)
    /\ WaitsHigh(j) => overtaken[j] + Cardinality(Selecting) <= Cardinality(ImageWorkers)
    /\ caller[j] \notin Accepted => overtaken[j] = 0

LEMMA ImageWorkersFinite ==
  /\ IsFiniteSet(ImageWorkers) /\ Cardinality(ImageWorkers) \in Nat
  /\ IsFiniteSet(Selecting) /\ Cardinality(Selecting) \in Nat
  /\ Cardinality(Selecting) <= Cardinality(ImageWorkers)
<1>1. IsFiniteSet(ImageWorkers)
  BY FS_Subset DEF ImageWorkers
<1>2. IsFiniteSet(Selecting) /\ Cardinality(Selecting) <= Cardinality(ImageWorkers)
  BY <1>1, FS_Subset DEF Selecting
<1> QED BY <1>1, <1>2, FS_CardinalityType

LEMMA InitOvertaken == Init => OvertakeInv
<1> SUFFICES ASSUME Init PROVE OvertakeInv
  OBVIOUS
<1>1. \A j \in Jobs : overtaken[j] = 0 /\ ~WaitsHigh(j)
  BY DEF Init, WaitsHigh, Queues
<1> QED BY <1>1, ImageWorkersFinite DEF OvertakeInv

\* No high job comes in, nobody enters the select, nothing is counted.
LEMMA OvertakenKept ==
  ASSUME TypeInv, OvertakeInv, UNCHANGED overtaken, Selecting' \subseteq Selecting,
         \A j \in Jobs : (WaitsHigh(j)' => WaitsHigh(j)) /\ (caller'[j] \notin Accepted => caller[j] \notin Accepted)
  PROVE  OvertakeInv'
<1>1. Cardinality(Selecting') <= Cardinality(Selecting) /\ Cardinality(Selecting') \in Nat
  BY ImageWorkersFinite, FS_Subset, FS_CardinalityType
<1>2. ImageWorkers' = ImageWorkers /\ Cardinality(Selecting)' = Cardinality(Selecting')
  BY DEF ImageWorkers
<1>3. Cardinality(Selecting) \in Nat /\ Cardinality(ImageWorkers) \in Nat /\ \A j \in Jobs : overtaken[j] \in Nat
  BY ImageWorkersFinite DEF TypeInv, TypeOK
<1> QED BY <1>1, <1>2, <1>3 DEF OvertakeInv

\* The high queue as it is after a Receive.
LEMMA ReceiveHigh ==
  ASSUME TypeInv, PlaceInv, NEW w \in Workers, NEW q \in Queues, Receive(w, q), NEW j \in Jobs, WaitsHigh(j)'
  PROVE  WaitsHigh(j)
<1>1. queue \in [Queues -> Seq(Jobs)] /\ "imageHigh" \in Queues
  BY DEF TypeInv, TypeOK, Queues
<1>2. CASE q # "imageHigh"
  BY <1>1, <1>2 DEF Receive, WaitsHigh
<1>3. CASE q = "imageHigh"
  <2>1. queue'["imageHigh"] = Tail(queue["imageHigh"]) /\ queue["imageHigh"] # <<>>
    BY <1>1, <1>3 DEF Receive
  <2>2. In(Tail(queue["imageHigh"]), j) => In(queue["imageHigh"], j)
    BY <1>1, <2>1, TailIn DEF PlaceInv, QueuesOK
  <2> QED BY <2>1, <2>2 DEF WaitsHigh, In
<1> QED BY <1>2, <1>3

\* A worker leaves its select with a job, low or high.
LEMMA SelectOvertakes ==
  ASSUME TypeInv, PlaceInv, OvertakeInv, NEW w \in Workers, Dequeue(w)
  PROVE  OvertakeInv'
<1>1. PICK q \in Sources(w) : Receive(w, q)
  BY DEF Dequeue
<1>2. q \in Queues /\ (q = "imageLow" => LaneOf[w] = "image")
  BY OwnSources DEF Sources, Lanes, ImageQueues
<1>3. \A j \in Jobs : WaitsHigh(j)' => WaitsHigh(j)
  BY <1>1, <1>2, ReceiveHigh
<1>4. caller' = caller /\ pc \in [Workers -> WorkerStates] /\ overtaken \in [Jobs -> Nat]
      /\ pc' = [pc EXCEPT ![w] = IF LaneOf[w] \in GatedLanes THEN "gate" ELSE "begin"]
  BY <1>1 DEF Receive, callerVars, TypeInv, TypeOK
<1>5. CASE LaneOf[w] # "image"
  <2>1. UNCHANGED overtaken
    BY <1>1, <1>2, <1>4, <1>5 DEF Receive
  <2>2. Selecting' \subseteq Selecting
    BY <1>4 DEF Selecting, ImageWorkers
  <2> QED BY <1>3, <1>4, <2>1, <2>2, OvertakenKept
<1>6. CASE LaneOf[w] = "image"
  <2>1. w \in Selecting /\ Selecting' = Selecting \ {w}
    BY <1>4, <1>6 DEF Selecting, ImageWorkers, Dequeue
  <2>2. Cardinality(Selecting \ {w}) = Cardinality(Selecting) - 1
    BY <2>1, ImageWorkersFinite, FS_RemoveElement
  <2>3. Cardinality(Selecting \ {w}) \in Nat
    BY ImageWorkersFinite, FS_Subset, FS_CardinalityType
  <2>4. Cardinality(Selecting)' = Cardinality(Selecting) - 1 /\ ImageWorkers' = ImageWorkers
    BY <2>1, <2>2 DEF ImageWorkers
  <2>5. ASSUME NEW j \in Jobs
        PROVE  /\ overtaken'[j] \in {overtaken[j], overtaken[j] + 1}
               /\ ~WaitsHigh(j) => overtaken'[j] = overtaken[j]
               /\ overtaken[j] \in Nat
    BY <1>1, <1>4 DEF Receive
  <2>6. ASSUME NEW j \in Jobs PROVE caller[j] \notin Accepted => ~WaitsHigh(j)
    BY DEF PlaceInv, QueuesOK, WaitsHigh, In, Queues
  <2> QED BY <1>3, <1>4, <2>2, <2>3, <2>4, <2>5, <2>6, ImageWorkersFinite DEF OvertakeInv
<1> QED BY <1>5, <1>6

LEMMA WorkerOvertakes ==
  ASSUME TypeInv, PlaceInv, OvertakeInv, NEW w \in Workers, Worker(w)
  PROVE  OvertakeInv'
<1> USE DEF poolVars, handleVars, callerVars, workerVars
<1>0. pc \in [Workers -> WorkerStates]
  BY DEF TypeInv, TypeOK
<1>1. ASSUME NEW s, s # "wait", pc' = [pc EXCEPT ![w] = s], UNCHANGED <<overtaken, caller>>,
             \A j \in Jobs : WaitsHigh(j)' => WaitsHigh(j)
      PROVE  OvertakeInv'
  <2>1. Selecting' \subseteq Selecting
    BY <1>0, <1>1 DEF Selecting, ImageWorkers
  <2> QED BY <1>1, <2>1, OvertakenKept
<1>2. CASE Dequeue(w)
  BY <1>2, SelectOvertakes
<1>3. CASE PollHigh(w)
  <2>1. "imageHigh" \in Queues /\ Receive(w, "imageHigh")
    BY <1>3 DEF PollHigh, Queues
  <2>2. \A j \in Jobs : WaitsHigh(j)' => WaitsHigh(j)
    BY <2>1, ReceiveHigh
  <2>3. overtaken' = overtaken
    BY <2>1 DEF Receive, TypeInv, TypeOK
  <2>4. UNCHANGED caller /\ \E s \in {"gate", "begin"} : pc' = [pc EXCEPT ![w] = s]
    BY <2>1 DEF Receive
  <2> QED BY <1>1, <2>2, <2>3, <2>4
<1>4. CASE PollEmpty(w)
  <2>1. queue' = queue /\ queue["imageHigh"] = <<>> /\ UNCHANGED <<overtaken, caller>>
    BY <1>4 DEF PollEmpty
  <2>2. \A j \in Jobs : ~WaitsHigh(j)'
    BY <2>1 DEF WaitsHigh
  <2>3. Cardinality(ImageWorkers)' = Cardinality(ImageWorkers)
    BY DEF ImageWorkers
  <2> QED BY <2>1, <2>2, <2>3 DEF OvertakeInv
<1>5. CASE Requeue(w)
  <2>1. LaneOf[w] # "imageHigh"
    BY <1>5 DEF Requeue, TypeInv, WhereaboutsOK, GatedLanes
  <2>2. queue'["imageHigh"] = queue["imageHigh"]
    BY <1>5, <2>1 DEF Requeue, TypeInv, TypeOK, Queues
  <2> QED BY <1>1, <1>5, <2>2 DEF Requeue, WaitsHigh
<1>6. ASSUME UNCHANGED queue PROVE \A j \in Jobs : WaitsHigh(j)' => WaitsHigh(j)
  BY <1>6 DEF WaitsHigh
<1>7. CASE Exit(w) \/ takeKey(w) \/ Veto(w) \/ RetryGate(w)
  BY <1>1, <1>6, <1>7 DEF Exit, takeKey, Veto, RetryGate
<1>8. CASE Begin(w) \/ Run(w) \/ GiveUp(w) \/ Backoff(w)
  BY <1>1, <1>6, <1>8 DEF Begin, Run, GiveUp, Backoff
<1>9. CASE \E err \in RunErrors : RunReturns(w, err)
  BY <1>1, <1>6, <1>9 DEF RunReturns
<1>10. CASE Release(w) \/ DeliverResult(w) \/ deregister(w)
  BY <1>1, <1>6, <1>10 DEF Release, DeliverResult, deregister
<1> QED BY <1>2, <1>3, <1>4, <1>5, <1>7, <1>8, <1>9, <1>10 DEF Worker, Select

\* A job that is pushed has been passed by nobody yet.
LEMMA CallerOvertakes ==
  ASSUME TypeInv, PlaceInv, OvertakeInv, NEW c \in Jobs, Enqueue(c) \/ AwaitResult(c) \/ AwaitAbandon(c)
  PROVE  OvertakeInv'
<1> USE DEF poolVars, handleVars, callerVars, workerVars
<1>0. caller \in [Jobs -> CallerStates]
  BY DEF TypeInv, TypeOK
<1>1. ASSUME NEW x, caller' = [caller EXCEPT ![c] = x], caller[c] \in Accepted => x \in Accepted,
             UNCHANGED <<overtaken, queue, pc>>
      PROVE  OvertakeInv'
  <2>1. Selecting' \subseteq Selecting /\ \A j \in Jobs : WaitsHigh(j)' => WaitsHigh(j)
    BY <1>1 DEF Selecting, ImageWorkers, WaitsHigh
  <2>2. \A j \in Jobs : caller'[j] \notin Accepted => caller[j] \notin Accepted
    BY <1>0, <1>1
  <2> QED BY <1>1, <2>1, <2>2, OvertakenKept
<1>2. CASE EnqueueClosed(c) \/ EnqueueOpen(c) \/ EnqueueJoin(c) \/ EnqueuePublish(c)
  BY <1>1, <1>2 DEF EnqueueClosed, EnqueueOpen, EnqueueJoin, EnqueuePublish, Accepted
<1>3. CASE EnqueuePush(c)
  <2>1. /\ caller' = [caller EXCEPT ![c] = "held"] /\ caller[c] = "push" /\ UNCHANGED <<overtaken, pc>>
        /\ queue' = [queue EXCEPT ![QueueOf[c]] = Append(@, c)]
    BY <1>3 DEF EnqueuePush
  <2>2. ASSUME NEW j \in Jobs, j # c, WaitsHigh(j)' PROVE WaitsHigh(j)
    <3>1. queue \in [Queues -> Seq(Jobs)] /\ "imageHigh" \in Queues
      BY DEF TypeInv, TypeOK, Queues
    <3>2. \/ queue'["imageHigh"] = queue["imageHigh"]
          \/ queue'["imageHigh"] = Append(queue["imageHigh"], c)
      BY <2>1, <3>1
    <3>3. In(Append(queue["imageHigh"], c), j) => In(queue["imageHigh"], j)
      BY <2>2, <3>1, AppendIn
    <3> QED BY <2>2, <3>2, <3>3 DEF WaitsHigh, In
  <2>3. Selecting' = Selecting /\ ImageWorkers' = ImageWorkers
    BY <2>1 DEF Selecting, ImageWorkers
  <2>4. overtaken[c] = 0
    BY <2>1 DEF OvertakeInv, Accepted
  <2>5. \A j \in Jobs : j # c => caller'[j] = caller[j]
    BY <1>0, <2>1
  <2>6. caller'[c] \in Accepted
    BY <1>0, <2>1 DEF Accepted
  <2> QED BY <2>1, <2>2, <2>3, <2>4, <2>5, <2>6, ImageWorkersFinite DEF OvertakeInv
<1>4. ASSUME NEW err \in Errors, EnqueueGiveUp(c, err) PROVE OvertakeInv'
  BY <1>1, <1>4 DEF EnqueueGiveUp, Accepted
<1>5. CASE failQueued(c) \/ AwaitResult(c) \/ AwaitAbandon(c)
  BY <1>1, <1>5 DEF failQueued, AwaitResult, AwaitAbandon, Accepted
<1> QED BY <1>2, <1>3, <1>4, <1>5 DEF Enqueue

LEMMA NextOvertaken == TypeInv /\ PlaceInv /\ OvertakeInv /\ [Next]_vars => OvertakeInv'
<1> SUFFICES ASSUME TypeInv, PlaceInv, OvertakeInv, [Next]_vars PROVE OvertakeInv'
  OBVIOUS
<1>1. CASE ShutdownClose \/ ShutdownStop \/ UNCHANGED vars
  <2>1. UNCHANGED <<overtaken, queue, caller, pc>>
    BY <1>1 DEF ShutdownClose, ShutdownStop, vars, poolVars, callerVars, workerVars
  <2>2. Selecting' \subseteq Selecting /\ \A j \in Jobs : WaitsHigh(j)' => WaitsHigh(j)
    BY <2>1 DEF Selecting, ImageWorkers, WaitsHigh
  <2> QED BY <2>1, <2>2, OvertakenKept
<1> QED BY <1>1, CallerOvertakes, WorkerOvertakes DEF Next

\* A high image job is passed by at most one low job for each image worker, for
\* every number of jobs and workers and every crossing of pushes, polls,
\* selects, cancellations and Shutdown.
THEOREM OvertakingIsBounded == Spec => []BoundedOvertaking
<1>1. OvertakeInv => BoundedOvertaking
  BY DEF OvertakeInv, BoundedOvertaking, ImageWorkers
<1> QED BY InitType, NextType, InitPlaces, NextPlaces, InitOvertaken, NextOvertaken, <1>1, PTL DEF Spec

-----------------------------------------------------------------------------
(* Nobody is stranded: the job behind a future that somebody holds leaves the *)
(* registry only settled or refused, and a registered job has its place.      *)

FutureOK(c) ==
  /\ future[c] = c \/ DedupeKeyOf[c] # NoKey
  /\ done[future[c]] \/ future[c] \in registry \/ caller[future[c]] = "refused"

\* The workers leave when the root context is done, not before.
FutureInv ==
  /\ \A c \in Jobs : caller[c] = "push" => future[c] = c /\ c \in registry
  /\ \A c \in Jobs : caller[c] = "held" => FutureOK(c)
  /\ \A w \in Workers : pc[w] = "exited" => shut = "stopped"

\* A job that leaves the registry is settled or refused.
LEMMA FuturesKept ==
  ASSUME TypeInv, FutureInv, UNCHANGED future, shut = "stopped" => shut' = "stopped",
         \A j \in Jobs : (done[j] => done'[j]) /\ (j \in registry => j \in registry' \/ done'[j] \/ caller'[j] = "refused"),
         \A j \in Jobs : caller[j] = "refused" => caller'[j] = "refused" \/ done'[j],
         \A c \in Jobs : caller'[c] = "push" => caller[c] = "push" /\ c \in registry',
         \A c \in Jobs : caller'[c] = "held" => caller[c] \in {"held", "push"},
         \A w \in Workers : pc'[w] = "exited" => pc[w] = "exited" \/ shut = "stopped"
  PROVE  FutureInv'
<1>1. ASSUME NEW c \in Jobs, caller'[c] = "held" PROVE FutureOK(c)'
  <2>1. future[c] \in Jobs /\ FutureOK(c)
    BY <1>1 DEF FutureInv, FutureOK, TypeInv, WhereaboutsOK
  <2> QED BY <2>1 DEF FutureOK
<1> QED BY <1>1 DEF FutureInv

LEMMA InitFutures == Init => FutureInv
BY DEF Init, FutureInv

LEMMA CallerFutures ==
  ASSUME LifeInv, FutureInv, NEW c \in Jobs, Enqueue(c) \/ AwaitResult(c) \/ AwaitAbandon(c)
  PROVE  FutureInv'
<1> USE DEF LifeInv, TypeInv, TypeOK, poolVars, handleVars, callerVars, workerVars
<1>0. TypeInv
  OBVIOUS
<1>1. CASE EnqueueClosed(c) \/ EnqueueOpen(c) \/ AwaitResult(c) \/ AwaitAbandon(c)
  <2>1. /\ UNCHANGED <<future, shut, done, registry, pc>>
        /\ \A j \in Jobs : caller'[j] \in {"push", "held", "refused"} => caller'[j] = caller[j]
        /\ caller[c] # "refused" /\ \A j \in Jobs : j # c => caller'[j] = caller[j]
    BY <1>1 DEF EnqueueClosed, EnqueueOpen, AwaitResult, AwaitAbandon
  <2> QED BY <1>0, <2>1, FuturesKept DEF FutureInv
<1>2. CASE EnqueueJoin(c)
  <2> DEFINE k == DedupeKeyOf[c]
  <2>1. /\ UNCHANGED <<shut, done, registry, pc>> /\ caller[c] = "publish"
        /\ k # NoKey /\ dedupe[k] \in registry
        /\ \A j \in Jobs : caller'[j] = IF j = c THEN "held" ELSE caller[j]
        /\ \A j \in Jobs : future'[j] = IF j = c THEN dedupe[k] ELSE future[j]
    BY <1>2 DEF EnqueueJoin, Duplicate
  <2>2. ASSUME NEW j \in Jobs, j # c, caller[j] = "held" PROVE FutureOK(j)'
    <3>1. future[j] \in Jobs /\ FutureOK(j)
      BY <2>2 DEF FutureInv, WhereaboutsOK
    <3> QED BY <2>1, <2>2, <3>1 DEF FutureOK
  <2>3. FutureOK(c)'
    BY <2>1 DEF FutureOK
  <2> QED BY <2>1, <2>2, <2>3 DEF FutureInv
<1>3. CASE EnqueuePublish(c)
  <2>1. /\ UNCHANGED <<shut, done, pc>> /\ registry' = registry \cup {c} /\ caller[c] = "publish"
        /\ \A j \in Jobs : caller'[j] = IF j = c THEN "push" ELSE caller[j]
        /\ \A j \in Jobs : future'[j] = IF j = c THEN c ELSE future[j]
    BY <1>3 DEF EnqueuePublish
  <2>2. ASSUME NEW j \in Jobs, j # c, caller[j] = "held" PROVE FutureOK(j)'
    <3>1. future[j] \in Jobs /\ FutureOK(j)
      BY <2>2 DEF FutureInv, WhereaboutsOK
    <3> QED BY <2>1, <2>2, <3>1 DEF FutureOK
  <2> QED BY <2>1, <2>2 DEF FutureInv
<1>4. CASE EnqueuePush(c)
  <2>1. /\ UNCHANGED <<future, shut, done, registry, pc>> /\ caller[c] = "push"
        /\ \A j \in Jobs : caller'[j] = IF j = c THEN "held" ELSE caller[j]
    BY <1>4 DEF EnqueuePush
  <2> QED BY <1>0, <2>1, FuturesKept DEF FutureInv
<1>5. ASSUME NEW err \in Errors, EnqueueGiveUp(c, err) PROVE FutureInv'
  <2>1. /\ UNCHANGED <<future, shut, done, pc>> /\ registry' = registry \ {c}
        /\ \A j \in Jobs : caller'[j] = IF j = c THEN "refused" ELSE caller[j]
    BY <1>5 DEF EnqueueGiveUp, Deregistered
  <2> QED BY <1>0, <2>1, FuturesKept DEF FutureInv
<1>6. CASE failQueued(c)
  <2>1. /\ UNCHANGED <<future, shut, registry, pc>>
        /\ \A j \in Jobs : (done[j] => done'[j]) /\ (j = c => done'[j])
        /\ \A j \in Jobs : caller'[j] = IF j = c THEN "answered" ELSE caller[j]
    BY <1>6 DEF failQueued, Deliver
  <2> QED BY <1>0, <2>1, FuturesKept DEF FutureInv
<1> QED BY <1>1, <1>2, <1>3, <1>4, <1>5, <1>6 DEF Enqueue

LEMMA WorkerFutures ==
  ASSUME LifeInv, FutureInv, NEW w \in Workers, Worker(w)
  PROVE  FutureInv'
<1> USE DEF LifeInv, TypeInv, TypeOK, poolVars, handleVars, callerVars, workerVars
<1>0. TypeInv
  OBVIOUS
<1>1. ASSUME NEW s, pc' = [pc EXCEPT ![w] = s], s = "exited" => shut = "stopped",
             UNCHANGED <<caller, future, shut, registry>>, \A j \in Jobs : done[j] => done'[j]
      PROVE  FutureInv'
  <2>1. \A v \in Workers : pc'[v] = "exited" => pc[v] = "exited" \/ shut = "stopped"
    BY <1>1
  <2> QED BY <1>0, <1>1, <2>1, FuturesKept DEF FutureInv
<1>2. CASE Select(w) \/ Exit(w)
  <2>1. \E s \in {"gate", "begin", "wait"} : Select(w) => pc' = [pc EXCEPT ![w] = s]
    BY DEF Select, PollHigh, PollEmpty, Dequeue, Receive
  <2>2. UNCHANGED <<caller, future, shut, registry, done>>
    BY <1>2 DEF Select, PollHigh, PollEmpty, Dequeue, Receive, Exit
  <2> QED BY <1>1, <1>2, <2>1, <2>2 DEF Exit
<1>3. CASE takeKey(w) \/ Veto(w) \/ Requeue(w) \/ RetryGate(w)
  BY <1>1, <1>3 DEF takeKey, Veto, Requeue, RetryGate
<1>4. CASE Begin(w) \/ Run(w) \/ GiveUp(w) \/ Backoff(w)
  BY <1>1, <1>4 DEF Begin, Run, GiveUp, Backoff
<1>5. ASSUME NEW err \in RunErrors, RunReturns(w, err) PROVE FutureInv'
  <2>1. \E s \in {"backoff", "release"} : pc' = [pc EXCEPT ![w] = s]
    BY <1>5 DEF RunReturns
  <2> QED BY <1>1, <1>5, <2>1 DEF RunReturns
<1>6. CASE Release(w)
  BY <1>1, <1>6 DEF Release
<1>7. CASE DeliverResult(w)
  <2>1. \A j \in Jobs : done[j] => done'[j]
    BY <1>7 DEF DeliverResult, Deliver
  <2> QED BY <1>1, <1>7, <2>1 DEF DeliverResult
<1>8. CASE deregister(w)
  <2>1. /\ UNCHANGED <<caller, future, shut, done>> /\ registry' = registry \ {held[w]}
        /\ \A v \in Workers : pc'[v] = "exited" => pc[v] = "exited"
    BY <1>8 DEF deregister, Deregistered
  <2>2. held[w] \in Jobs /\ done[held[w]] /\ caller[held[w]] # "push"
    BY <1>8 DEF deregister, WhereaboutsOK, Holding, WorkerStates, RegInv, Settled, Leaving,
                PlaceInv, HandsOK, Accepted
  <2> QED BY <1>0, <2>1, <2>2, FuturesKept DEF FutureInv
<1> QED BY <1>2, <1>3, <1>4, <1>5, <1>6, <1>7, <1>8 DEF Worker

LEMMA NextFutures == LifeInv /\ FutureInv /\ [Next]_vars => FutureInv'
<1> SUFFICES ASSUME LifeInv, FutureInv, [Next]_vars PROVE FutureInv'
  OBVIOUS
<1>1. CASE ShutdownClose \/ ShutdownStop \/ UNCHANGED vars
  <2>1. UNCHANGED <<caller, future, registry, done, pc>> /\ (shut = "stopped" => shut' = "stopped")
    BY <1>1 DEF ShutdownClose, ShutdownStop, vars, poolVars, handleVars, callerVars, workerVars
  <2> QED BY <2>1, FuturesKept DEF FutureInv, LifeInv
<1> QED BY <1>1, CallerFutures, WorkerFutures DEF Next

LEMMA FuturesInvariant == Spec => []FutureInv
BY InitFutures, NextFutures, LifeInvariant, PTL DEF Spec

\* What a waiter can count on.
LEMMA FutureComes ==
  ASSUME LifeInv, FutureInv, shut # "stopped", NEW c \in Jobs, caller[c] = "held"
  PROVE  /\ future[c] \in Jobs /\ (future[c] = c \/ DedupeKeyOf[c] # NoKey)
         /\ done[future[c]] \/ OnWay(future[c]) \/ caller[future[c]] = "refused"
<1>1. future[c] \in Jobs /\ FutureOK(c)
  BY DEF LifeInv, TypeInv, WhereaboutsOK, FutureInv
<1>2. future[c] \in registry => OnWay(future[c]) \/ done[future[c]]
  BY <1>1 DEF LifeInv, RegInv, RegistryOK, Settled
<1> QED BY <1>1, <1>2 DEF FutureOK

\* Until the root context is cancelled nobody awaits a future that no one will
\* settle, whatever was shared, refused, vetoed, retried or cancelled.
THEOREM WaitersAreServed == Spec => []NobodyStranded
<1>1. LifeInv /\ FutureInv => NobodyStranded
  BY FutureComes, OnePlace DEF NobodyStranded
<1> QED BY LifeInvariant, FuturesInvariant, <1>1, PTL

=============================================================================
