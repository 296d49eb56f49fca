------------------------------ MODULE ImageLane ------------------------------
(***************************************************************************)
(* The image lane as the service uses it: the worker pool and one host's   *)
(* admission lanes composed with the two kinds of jobs the lane runs.      *)
(*                                                                         *)
(*  - A page fetch (fetchImage) keeps its worker while hostAcquire makes   *)
(*    it wait and until hostRelease.                                       *)
(*  - A chapter export (EnqueueExportCBZ, ExportCBZ's online path) keeps   *)
(*    its worker while it calls GetImage page by page, and each of those   *)
(*    calls puts a low-priority page fetch on this same lane and waits for *)
(*    it under a background context.                                       *)
(***************************************************************************)
EXTENDS WorkerPool, HostLanes

CONSTANTS
  Exports,   \* the jobs that are chapter exports, the others fetch a page
  ExportOf   \* the export that makes a page's GetImage call, None for a reader

PagesOf(e) == {p \in Fetches : ExportOf[p] = e}

\* The fetches HostLanes knows are this pool's other jobs; imageLane picks the
\* queue by the priority hostAcquire is called with.
ASSUME ImageLaneAssumption ==
  /\ Exports \subseteq Jobs
  /\ IsFiniteSet(Exports)
  /\ Fetches = Jobs \ Exports
  /\ ExportOf \in [Fetches -> Exports \cup {None}]
  /\ \A j \in Jobs : QueueOf[j] \in ImageQueues
  /\ \A f \in Fetches : PrioOf[f] = IF QueueOf[f] = "imageHigh" THEN "high" ELSE "low"
  /\ \A j \in Jobs : j \in Exports \/ ExportOf[j] # None => QueueOf[j] = "imageLow"
  /\ \A f \in Fetches : DedupeKeyOf[f] = NoKey

\* Job j's Run is in progress.
InRun(j) == \E w \in Workers : held[w] = j /\ pc[w] = "exec"

\* Run's body is at its end: the fetch has released its lane, the export has an
\* answer for every page.
BodyDone(j) ==
  IF j \in Exports THEN \A p \in PagesOf(j) : caller[p] = "answered"
                   ELSE at[j] = "out"

\* What Run returns here: with one attempt every error ends the job alike.
LaneErrors == {"nil", "permanent"}

LaneInit == Init /\ LanesInit

\* An export asks for its next page when it has the answer for the last one.
MayCall(c) ==
  c \in Fetches /\ ExportOf[c] # None =>
    /\ InRun(ExportOf[c])
    /\ \A p \in PagesOf(ExportOf[c]) \ {c} : caller[p] \in {"idle", "answered"}

\* An export's page is fetched under context.Background: only the lane's timer
\* ends its push.
MayGiveUp(c) == c \in Fetches /\ ExportOf[c] # None => answer'[c] = "busy"

\* The handler that queues an export, and GetImage down to its Await.
Call(c) ==
  /\ Enqueue(c) \/ AwaitResult(c)
  /\ caller[c] = "idle" => MayCall(c)
  /\ caller'[c] = "refused" => MayGiveUp(c)
  /\ UNCHANGED laneVars

\* The reader turns the page; nobody awaits an export's future.
ReaderLeaves(p) ==
  /\ ExportOf[p] = None
  /\ AwaitAbandon(p)
  /\ UNCHANGED laneVars

\* A worker's own steps; a fetch it starts goes straight to hostAcquire.
WorkerStep(w) ==
  \/ /\ Worker(w)
     /\ pc[w] # "exec" /\ pc'[w] # "exec"
     /\ UNCHANGED laneVars
  \/ /\ Run(w)
     /\ IF held[w] \in Exports THEN UNCHANGED laneVars ELSE Arrive(held[w])
  \/ /\ pc[w] = "exec" /\ BodyDone(held[w])
     /\ \E err \in LaneErrors : RunReturns(w, err)
     /\ UNCHANGED laneVars

\* The fetch inside hostAcquire, the request and hostRelease.
FetchStep(p) == Fetch(p) /\ at[p] # "idle" /\ UNCHANGED vars

LaneNext ==
  \/ \E c \in Jobs : Call(c)
  \/ \E p \in Fetches : ReaderLeaves(p) \/ FetchStep(p)
  \/ \E w \in Workers : WorkerStep(w)

LaneSpec == LaneInit /\ [][LaneNext]_<<vars, laneVars>>

\* As for the pool and the host lanes; a running export does ask for its pages.
LaneFairness ==
  /\ \A w \in Workers : WF_<<vars, laneVars>>(WorkerStep(w))
  /\ \A p \in Fetches : WF_<<vars, laneVars>>(FetchStep(p))
  /\ \A c \in Jobs :
       WF_<<vars, laneVars>>((c \in Exports \/ ExportOf[c] = None => caller[c] # "idle")
                             /\ Call(c))

FairLaneSpec == LaneSpec /\ LaneFairness

-----------------------------------------------------------------------------
(* Properties *)

\* "The finished path is announced via the job status callback" (jobs.go:31):
\* an export that was queued is settled in the end.
ExportsFinish ==
  \A e \in Exports : e \in registry ~> done[e]

\* A reader's GetImage returns although its fetch waits for a worker, for the
\* host and for the fetches of an export.
ReadersAnswered ==
  \A p \in Fetches : ExportOf[p] = None /\ caller[p] = "held" ~> caller[p] = "answered"

\* A worker waits for others: an export for its pages, a fetch to be woken.
Blocked(w) ==
  pc[w] = "exec" /\ IF held[w] \in Exports THEN ~BodyDone(held[w]) ELSE at[held[w]] = "wait"

\* A worker can go on by itself: it has a step that waits for nobody, or takes a job.
WorkerMoves(w) ==
  /\ LaneOf[w] = "image" /\ pc[w] # "exited" /\ ~Blocked(w)
  /\ pc[w] \in {"idle", "wait"} => \E q \in ImageQueues : queue[q] # <<>>

\* So can a GetImage of an export: its push ends when the lane's timer fires.
CallMoves(p) ==
  \/ caller[p] = "idle" /\ MayCall(p)
  \/ caller[p] \in {"publish", "push", "refused"}
  \/ caller[p] = "held" /\ done[future[p]]

\* What worker w waits for is under way.
ServedSoon(w) ==
  \/ \E v \in Workers : WorkerMoves(v)
  \/ held[w] \in Exports /\ \E p \in PagesOf(held[w]) : CallMoves(p)

\* Exports that wait for pages, fetches that wait for the host and sleepers that
\* wait to be woken never bring the lane to rest among themselves, but in one
\* way: every image worker runs an export. ExportStarvation shows that one.
OnlyExportsStarve ==
  shut # "stopped" => \A w \in Workers : Blocked(w) =>
    \/ ServedSoon(w)
    \/ \A v \in Workers : LaneOf[v] = "image" => pc[v] = "exec" /\ held[v] \in Exports

\* So a lane with more workers than there are exports goes on.
LaneGoesOn ==
  /\ shut # "stopped"
  /\ Cardinality(Exports) < Cardinality({w \in Workers : LaneOf[w] = "image"})
  => \A w \in Workers : Blocked(w) => ServedSoon(w)

=============================================================================
