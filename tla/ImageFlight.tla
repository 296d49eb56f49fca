----------------------------- MODULE ImageFlight -----------------------------
(***************************************************************************)
(* GetImage (internal/bridge/image.go) for one URL: the cache probes, the  *)
(* singleflight entry in imageFlight, the job a leader puts on the image   *)
(* lane, and its followers. Each request is one call of GetImage; the      *)
(* imageCall a request stored as a leader is named after that request.     *)
(* Of the image lane only what GetImage sees is left: a job is refused,    *)
(* or it waits, and is started with its context live or done.              *)
(***************************************************************************)
EXTENDS Naturals, FiniteSets

CONSTANTS
  Requests,
  NoCall,     \* no entry in imageFlight
  Patient,    \* the requests whose context is never cancelled
  MayRefuse   \* whether Enqueue can fail (a full lane, a closed pool)

ASSUME FlightAssumption ==
  /\ NoCall \notin Requests
  /\ Patient \subseteq Requests
  /\ MayRefuse \in BOOLEAN

VARIABLES
  cached,    \* the bytes are in the L1 or L2 cache
  flight,    \* imageFlight[url]
  call,      \* call.data and call.err of each imageCall, as one outcome
  closed,    \* whether call.done is closed
  job,       \* the lane job of each leader
  ctxDone,   \* whether the request's context is done
  at,        \* where each request is
  leader,    \* the imageCall a follower waits for
  answer     \* what GetImage returned

vars == <<cached, flight, call, closed, job, ctxDone, at, leader, answer>>

\* "none": neither data nor error; "raced": data, and an error written over.
Outcomes == {"none", "data", "error", "raced"}

\* "offline": the error for a plugin that is deactivated.
Replies == Outcomes \cup {"offline"}

JobStates == {"none", "queued", "running", "written", "deleted", "finished", "skipped"}

RequestStates == {"start", "missed", "flight", "probe", "hit", "enqueue", "refused", "await", "grace",
                  "follow", "drop", "returned"}

TypeOK ==
  /\ cached \in BOOLEAN
  /\ flight \in Requests \cup {NoCall}
  /\ call \in [Requests -> Outcomes]
  /\ closed \in [Requests -> BOOLEAN]
  /\ job \in [Requests -> JobStates]
  /\ ctxDone \in [Requests -> BOOLEAN]
  /\ at \in [Requests -> RequestStates]
  /\ leader \in [Requests -> Requests \cup {NoCall}]
  /\ answer \in [Requests -> Replies]
  /\ \A r \in Requests : closed[r] => call[r] # "none"

Init ==
  /\ cached = FALSE
  /\ flight = NoCall
  /\ call = [r \in Requests |-> "none"]
  /\ closed = [r \in Requests |-> FALSE]
  /\ job = [r \in Requests |-> "none"]
  /\ ctxDone = [r \in Requests |-> FALSE]
  /\ at = [r \in Requests |-> "start"]
  /\ leader = [r \in Requests |-> NoCall]
  /\ answer = [r \in Requests |-> "none"]

\* The reader turned the page: the request's context is cancelled.
CancelRequest(r) ==
  /\ r \notin Patient
  /\ ~ctxDone[r]
  /\ at[r] # "returned"
  /\ ctxDone' = [ctxDone EXCEPT ![r] = TRUE]
  /\ UNCHANGED <<cached, flight, call, closed, job, at, leader, answer>>

Goto(r, s) == at' = [at EXCEPT ![r] = s]

Return(r, outcome) == Goto(r, "returned") /\ answer' = [answer EXCEPT ![r] = outcome]

-----------------------------------------------------------------------------
(* GetImage *)

\* A dead caller returns its ctx error, a cached page its bytes.
Begin(r) ==
  /\ at[r] = "start"
  /\ IF ctxDone[r] THEN Return(r, "error")
     ELSE IF cached THEN Return(r, "data")
     ELSE Goto(r, "missed") /\ UNCHANGED answer
  /\ UNCHANGED <<cached, flight, call, closed, job, ctxDone, leader>>

\* IsPluginActive: plugins are switched on and off at any time. It is asked once,
\* before the loop, so a follower that retries does not ask again.
CheckActive(r) ==
  /\ at[r] = "missed"
  /\ \/ Goto(r, "flight") /\ UNCHANGED answer
     \/ Return(r, "offline")
  /\ UNCHANGED <<cached, flight, call, closed, job, ctxDone, leader>>

\* Mutant of JoinFlight: Store, whoever is in flight already.
JoinNobody(r) ==
  /\ at[r] = "flight"
  /\ flight' = r
  /\ Goto(r, "probe")
  /\ UNCHANGED <<cached, call, closed, job, ctxDone, leader, answer>>

\* LoadOrStore.
JoinFlight(r) ==
  /\ at[r] = "flight"
  /\ IF flight = NoCall
     THEN flight' = r /\ Goto(r, "probe") /\ UNCHANGED leader
     ELSE leader' = [leader EXCEPT ![r] = flight] /\ Goto(r, "follow") /\ UNCHANGED flight
  /\ UNCHANGED <<cached, call, closed, job, ctxDone, answer>>

\* The second probe, with the entry ours; a hit closes the call first ...
Probe(r) ==
  /\ at[r] = "probe"
  /\ IF cached
     THEN /\ call' = [call EXCEPT ![r] = "data"]
          /\ closed' = [closed EXCEPT ![r] = TRUE]
          /\ Goto(r, "hit")
     ELSE Goto(r, "enqueue") /\ UNCHANGED <<call, closed>>
  /\ UNCHANGED <<cached, flight, job, ctxDone, leader, answer>>

\* ... and then deletes the entry.
ProbeHit(r) ==
  /\ at[r] = "hit"
  /\ flight' = NoCall
  /\ Return(r, "data")
  /\ UNCHANGED <<cached, call, closed, job, ctxDone, leader>>

EnqueueJob(r) ==
  /\ at[r] = "enqueue"
  /\ job' = [job EXCEPT ![r] = "queued"]
  /\ Goto(r, "await")
  /\ UNCHANGED <<cached, flight, call, closed, ctxDone, leader, answer>>

\* The lane is full, the pool closed or ctx done: delete the entry ...
EnqueueRefused(r) ==
  /\ at[r] = "enqueue"
  /\ MayRefuse \/ ctxDone[r]
  /\ flight' = NoCall
  /\ Goto(r, "refused")
  /\ UNCHANGED <<cached, call, closed, job, ctxDone, leader, answer>>

\* Mutant of CloseRefused: the followers are not told.
RefusedInSilence(r) ==
  /\ at[r] = "refused"
  /\ call' = [call EXCEPT ![r] = "error"]
  /\ Return(r, "error")
  /\ UNCHANGED <<cached, flight, closed, job, ctxDone, leader>>

\* ... and publish the error.
CloseRefused(r) ==
  /\ at[r] = "refused"
  /\ call' = [call EXCEPT ![r] = "error"]
  /\ closed' = [closed EXCEPT ![r] = TRUE]
  /\ Return(r, "error")
  /\ UNCHANGED <<cached, flight, job, ctxDone, leader>>

\* Await returns the job's result once the future is settled.
AwaitResult(r) ==
  /\ at[r] = "await"
  /\ job[r] \in {"finished", "skipped"}
  /\ call' = IF job[r] = "skipped" THEN [call EXCEPT ![r] = "error"] ELSE call
  /\ Goto(r, "grace")
  /\ UNCHANGED <<cached, flight, closed, job, ctxDone, leader, answer>>

\* Await returns because the request's context is done, which also cancels the
\* job; the error is stored in the shared call unless one is seen there.
AwaitAbandoned(r) ==
  /\ at[r] = "await"
  /\ ctxDone[r]
  /\ call' = [call EXCEPT ![r] = IF @ = "data" THEN "raced" ELSE "error"]
  /\ Goto(r, "grace")
  /\ UNCHANGED <<cached, flight, closed, job, ctxDone, leader, answer>>

\* The shared fetch is over, or thirty seconds are.
LeaderReturns(r) ==
  /\ at[r] = "grace"
  /\ Return(r, call[r])
  /\ UNCHANGED <<cached, flight, call, closed, job, ctxDone, leader>>

\* Mutant of FollowerWakes: the leader's failure is the follower's too.
FollowerFails(r) ==
  /\ at[r] = "follow"
  /\ closed[leader[r]]
  /\ Return(r, call[leader[r]])
  /\ UNCHANGED <<cached, flight, call, closed, job, ctxDone, leader>>

\* A follower waits for done, whatever becomes of its own context.
FollowerWakes(r) ==
  /\ at[r] = "follow"
  /\ closed[leader[r]]
  /\ IF call[leader[r]] = "data" THEN Return(r, "data") ELSE Goto(r, "drop") /\ UNCHANGED answer
  /\ UNCHANGED <<cached, flight, call, closed, job, ctxDone, leader>>

\* Mutant of FollowerRetries: Delete, whoever owns the entry by now.
FollowerDeletes(r) ==
  /\ at[r] = "drop"
  /\ flight' = NoCall
  /\ leader' = [leader EXCEPT ![r] = NoCall]
  /\ Goto(r, "flight")
  /\ UNCHANGED <<cached, call, closed, job, ctxDone, answer>>

\* CompareAndDelete, and round the loop again.
FollowerRetries(r) ==
  /\ at[r] = "drop"
  /\ flight' = IF flight = leader[r] THEN NoCall ELSE flight
  /\ leader' = [leader EXCEPT ![r] = NoCall]
  /\ Goto(r, "flight")
  /\ UNCHANGED <<cached, call, closed, job, ctxDone, answer>>

-----------------------------------------------------------------------------
(* The job on the image lane *)

\* The lane cancels a job whose waiter has left Await on a done context.
Cancelled(r) == ctxDone[r] /\ at[r] \in {"grace", "returned"}

\* The pool does not call Run on a job whose context is done, so neither does
\* Run's defer execute.
JobSkipped(r) ==
  /\ job[r] = "queued"
  /\ Cancelled(r)
  /\ job' = [job EXCEPT ![r] = "skipped"]
  /\ UNCHANGED <<cached, flight, call, closed, ctxDone, at, leader, answer>>

JobStarts(r) ==
  /\ job[r] = "queued"
  /\ ~Cancelled(r)
  /\ job' = [job EXCEPT ![r] = "running"]
  /\ UNCHANGED <<cached, flight, call, closed, ctxDone, at, leader, answer>>

\* fetchImage returns; a success has filled the caches.
FetchReturns(r, outcome) ==
  /\ job[r] = "running"
  /\ outcome \in {"data", "error"}
  /\ cached' = (cached \/ outcome = "data")
  /\ call' = [call EXCEPT ![r] = outcome]
  /\ job' = [job EXCEPT ![r] = "written"]
  /\ UNCHANGED <<flight, closed, ctxDone, at, leader, answer>>

\* The defer: the entry goes first, then the followers are released.
JobDeletesEntry(r) ==
  /\ job[r] = "written"
  /\ flight' = NoCall
  /\ job' = [job EXCEPT ![r] = "deleted"]
  /\ UNCHANGED <<cached, call, closed, ctxDone, at, leader, answer>>

JobClosesCall(r) ==
  /\ job[r] = "deleted"
  /\ closed' = [closed EXCEPT ![r] = TRUE]
  /\ job' = [job EXCEPT ![r] = "finished"]
  /\ UNCHANGED <<cached, flight, call, ctxDone, at, leader, answer>>

GetImage(r) ==
  \/ Begin(r) \/ CheckActive(r) \/ JoinFlight(r)
  \/ Probe(r) \/ ProbeHit(r)
  \/ EnqueueJob(r) \/ EnqueueRefused(r) \/ CloseRefused(r)
  \/ AwaitResult(r) \/ AwaitAbandoned(r) \/ LeaderReturns(r)
  \/ FollowerWakes(r) \/ FollowerRetries(r)

Job(r) ==
  \/ JobSkipped(r) \/ JobStarts(r)
  \/ \E outcome \in Outcomes : FetchReturns(r, outcome)
  \/ JobDeletesEntry(r) \/ JobClosesCall(r)

Next == \E r \in Requests : CancelRequest(r) \/ GetImage(r) \/ Job(r)

Spec == Init /\ [][Next]_vars

\* Requests and workers keep going, and an upstream fetch ends (its budget and
\* the HTTP client's timeout bound it).
FairSpec == Spec /\ \A r \in Requests : WF_vars(GetImage(r)) /\ WF_vars(Job(r))

-----------------------------------------------------------------------------
(* Properties *)

\* The entry's owner is a leader that is yet to delete it, so no Delete in this
\* code ever removes another leader's entry.
Owns(r) ==
  \/ at[r] \in {"probe", "hit", "enqueue"}
  \/ job[r] \in {"queued", "running", "written"}

OwnEntryOnly ==
  \A r \in Requests : Owns(r) => flight = r

\* Concurrent callers share one upstream fetch (image.go:56-62), whoever
\* cancels, fails or retries in between.
OneFetch ==
  Cardinality({r \in Requests : job[r] = "running"}) <= 1

\* The owner of call r still has a step to take that closes it.
Serves(r) ==
  \/ at[r] \in {"probe", "enqueue", "refused"}
  \/ job[r] \in {"queued", "running", "written", "deleted"}

\* "Storing a throwaway here [...] would leave any goroutine arriving in
\* between holding a done channel nobody closes" (image.go:59-62): whoever waits
\* for a call waits for a closed one, or for one its owner is about to close;
\* and the entry names a leader that is about to delete it. The one exception
\* is a job the pool has skipped, which AbandonedCallCloses is about.
FollowersServed ==
  /\ \A r \in Requests : at[r] = "follow" =>
       closed[leader[r]] \/ Serves(leader[r]) \/ job[leader[r]] = "skipped"
  /\ flight # NoCall => Owns(flight) \/ job[flight] = "skipped"

\* "No duplicate upstream fetch for one page" (image.go:68-73): a page that is
\* in the cache is not fetched again.
NoRefetch ==
  [][\A r \in Requests : job[r] = "queued" /\ job'[r] = "running" => ~cached]_vars

\* GetImage never returns without bytes and without an error; bytes it returns
\* as a success are bytes that were fetched; and an error is the caller's own:
\* its context is done, the call it led itself was refused or failed, or its
\* plugin is offline, and then it has led and followed nobody. This is what the
\* loop does (image.go:82-92: a follower of a failed or cancelled leader tries
\* again), and not what the comment at image.go:37-39 says: that the other callers
\* see the cancellation error of the caller that started the fetch.
HonestAnswer ==
  \A r \in Requests : at[r] = "returned" =>
    /\ answer[r] # "none"
    /\ answer[r] = "data" => cached
    /\ answer[r] \in {"error", "raced"} => ctxDone[r] \/ call[r] = "error"
    /\ answer[r] = "offline" => call[r] = "none" /\ leader[r] = NoCall

\* While no call is cancelled, every request is answered, by the leader's fetch,
\* by its refused job or by becoming the leader itself (image.go:82-92).
EveryRequestReturns ==
  [](\A r \in Requests : ~ctxDone[r]) =>
    \A r \in Requests : at[r] # "start" ~> at[r] = "returned"

\* "Await cancels the job, which closes call.done via the job's defer"
\* (image.go:118-119): the call of a leader that was cancelled is closed, so
\* its followers move on.
AbandonedCallCloses ==
  \A r \in Requests : at[r] = "grace" ~> closed[r]

\* A result with an error is an error, whatever bytes come with it.
Told(r) == IF answer[r] \in {"raced", "offline"} THEN "error" ELSE answer[r]

Shared == INSTANCE SharedFetch WITH
  Callers <- Requests,
  fetching <- {r \in Requests : job[r] = "running"},
  answered <- [r \in Requests |-> Told(r)]

\* The singleflight implements the one fetch its callers share.
ImplementsSharedFetch == Shared!Spec

=============================================================================
