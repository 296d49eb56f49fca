-------------------------- MODULE ImageFlight_proofs --------------------------
(***************************************************************************)
(* Proofs about ImageFlight: for every number of concurrent requests it    *)
(* implements SharedFetch, no Delete takes away another leader's entry,    *)
(* nobody waits for a call that nobody will close, but for a skipped job's *)
(* (finding AbandonedFlight), and errors are the caller's own.             *)
(***************************************************************************)
EXTENDS ImageFlight, FiniteSetTheorems, TLAPS

\* How far a leader and its job can be: the job exists once the request has
\* reached Await, and the call is closed only by its owner's last step.
LeaderAndJob ==
  /\ \A r \in Requests : job[r] # "none" => at[r] \in {"await", "grace", "returned"}
  /\ \A r \in Requests : closed[r] =>
       \/ at[r] = "hit" /\ call[r] = "data"
       \/ ~Owns(r) /\ at[r] \in {"grace", "await", "returned"}
  /\ \A r \in Requests : at[r] = "hit" \/ job[r] = "finished" => closed[r]
  /\ \A r \in Requests :
       at[r] \in {"grace", "returned"} /\ job[r] \in {"queued", "running", "written", "deleted"} =>
         ctxDone[r]

\* A follower that is about to drop an entry waited for a call which its owner
\* has left for good.
Following ==
  /\ \A r \in Requests : at[r] \in {"follow", "drop"} => leader[r] \in Requests
  /\ \A r \in Requests : at[r] = "drop" =>
       ~Owns(leader[r]) /\ at[leader[r]] \in {"grace", "await", "returned"}

\* From its second probe until it is done, an owner knows the page is missing.
MissBeforeFetch ==
  \A r \in Requests : at[r] = "enqueue" \/ job[r] \in {"queued", "running"} => ~cached

\* What a call holds when it is read.
CallHolds ==
  /\ \A r \in Requests : call[r] \in {"data", "raced"} => cached
  /\ \A r \in Requests : at[r] = "grace" \/ job[r] \in {"written", "deleted", "finished"} =>
       call[r] # "none"
  /\ \A r \in Requests : at[r] = "hit" => cached
  /\ \A r \in Requests : call[r] = "raced" => ctxDone[r]

\* Nobody is told anything before GetImage returns.
Unanswered ==
  \A r \in Requests : at[r] # "returned" => answer[r] = "none"

\* Whoever has not come to the loop has no call, no job and no leader.
Outside ==
  \A r \in Requests : at[r] \in {"start", "missed"} \/ answer[r] = "offline" =>
    call[r] = "none" /\ job[r] = "none" /\ leader[r] = NoCall

FlightInv ==
  /\ TypeOK
  /\ LeaderAndJob
  /\ OwnEntryOnly
  /\ Following
  /\ MissBeforeFetch
  /\ CallHolds
  /\ HonestAnswer
  /\ FollowersServed
  /\ Unanswered
  /\ Outside

LEMMA InitFlight == Init => FlightInv
<1> SUFFICES ASSUME Init PROVE FlightInv
  OBVIOUS
<1>1. TypeOK
  BY DEF Init, TypeOK, Replies, Outcomes, JobStates, RequestStates
<1>2. \A r \in Requests : at[r] = "start" /\ job[r] = "none" /\ ~closed[r] /\ call[r] = "none"
  BY DEF Init
<1>3. LeaderAndJob /\ OwnEntryOnly /\ Following /\ MissBeforeFetch /\ CallHolds /\ HonestAnswer
  BY <1>2 DEF LeaderAndJob, OwnEntryOnly, Owns, Following, MissBeforeFetch, CallHolds, HonestAnswer
<1>4. FollowersServed /\ Unanswered /\ Outside
  BY <1>2 DEF Init, FollowersServed, Unanswered, Outside
<1> QED BY <1>1, <1>3, <1>4 DEF FlightInv

USE FlightAssumption

LEMMA FlightStep ==
  ASSUME FlightInv, NEW r \in Requests, CancelRequest(r) \/ GetImage(r) \/ Job(r)
  PROVE  FlightInv'
<1> USE DEF FlightInv, TypeOK, LeaderAndJob, OwnEntryOnly, Owns, Following, MissBeforeFetch,
            CallHolds, HonestAnswer, FollowersServed, Serves, Unanswered, Outside, Replies, Outcomes, JobStates,
            RequestStates, Goto, Return
<1>1. CASE CancelRequest(r)
  BY <1>1 DEF CancelRequest
<1>2. CASE Begin(r)
  BY <1>2 DEF Begin
<1>3. CASE JoinFlight(r)
  BY <1>3 DEF JoinFlight
<1>4. CASE Probe(r)
  <2>1. CASE cached
    <3>1. /\ call' = [call EXCEPT ![r] = "data"] /\ closed' = [closed EXCEPT ![r] = TRUE]
          /\ at' = [at EXCEPT ![r] = "hit"]
          /\ UNCHANGED <<cached, flight, job, ctxDone, leader, answer>>
      BY <1>4, <2>1 DEF Probe
    <3>2. TypeOK'
      BY <3>1
    <3>3. LeaderAndJob' /\ OwnEntryOnly' /\ Following'
      <4>1. LeaderAndJob'
        BY <1>4, <3>1 DEF Probe
      <4>2. OwnEntryOnly' /\ Following'
        BY <1>4, <3>1 DEF Probe
      <4> QED BY <4>1, <4>2
    <3>4. MissBeforeFetch' /\ CallHolds' /\ HonestAnswer' /\ FollowersServed' /\ Unanswered' /\ Outside'
      BY <1>4, <2>1 DEF Probe
    <3> QED BY <3>2, <3>3, <3>4
  <2>2. CASE ~cached
    BY <1>4, <2>2 DEF Probe
  <2> QED BY <2>1, <2>2
<1>5. CASE ProbeHit(r)
  BY <1>5 DEF ProbeHit
<1>6. CASE EnqueueJob(r)
  BY <1>6 DEF EnqueueJob
<1>7. CASE EnqueueRefused(r)
  BY <1>7 DEF EnqueueRefused
<1>8. CASE CloseRefused(r)
  BY <1>8 DEF CloseRefused
<1>9. CASE AwaitResult(r)
  BY <1>9 DEF AwaitResult
<1>10. CASE AwaitAbandoned(r)
  BY <1>10 DEF AwaitAbandoned
<1>11. CASE LeaderReturns(r)
  BY <1>11 DEF LeaderReturns
<1>12. CASE FollowerWakes(r)
  BY <1>12 DEF FollowerWakes
<1>13. CASE FollowerRetries(r)
  BY <1>13 DEF FollowerRetries
<1>14. CASE JobSkipped(r)
  BY <1>14 DEF JobSkipped
<1>15. CASE JobStarts(r)
  BY <1>15 DEF JobStarts
<1>16. CASE JobDeletesEntry(r)
  BY <1>16 DEF JobDeletesEntry
<1>17. CASE JobClosesCall(r)
  BY <1>17 DEF JobClosesCall
<1>18. ASSUME NEW outcome \in Outcomes, FetchReturns(r, outcome) PROVE FlightInv'
  <2>1. CASE outcome = "data"
    <3>1. TypeOK' /\ LeaderAndJob'
      BY <1>18, <2>1 DEF FetchReturns
    <3>2. OwnEntryOnly' /\ Following'
      BY <1>18, <2>1 DEF FetchReturns
    <3>3. MissBeforeFetch' /\ CallHolds' /\ HonestAnswer' /\ Unanswered' /\ Outside'
      <4>1. cached' = TRUE
        BY <1>18, <2>1 DEF FetchReturns
      <4>2. MissBeforeFetch' /\ Unanswered' /\ Outside'
        BY <1>18, <2>1 DEF FetchReturns
      <4>3. CallHolds'
        BY <1>18, <2>1, <4>1 DEF FetchReturns
      <4>4. HonestAnswer'
        BY <1>18, <2>1, <4>1 DEF FetchReturns
      <4> QED BY <4>2, <4>3, <4>4
    <3>4. FollowersServed'
      BY <1>18, <2>1 DEF FetchReturns
    <3> QED BY <3>1, <3>2, <3>3, <3>4
  <2>2. CASE outcome = "error"
    <3>1. TypeOK' /\ LeaderAndJob'
      BY <1>18, <2>2 DEF FetchReturns
    <3>2. OwnEntryOnly' /\ Following'
      BY <1>18, <2>2 DEF FetchReturns
    <3>3. MissBeforeFetch' /\ CallHolds' /\ HonestAnswer' /\ Unanswered' /\ Outside'
      BY <1>18, <2>2 DEF FetchReturns
    <3>4. FollowersServed'
      BY <1>18, <2>2 DEF FetchReturns
    <3> QED BY <3>1, <3>2, <3>3, <3>4
  <2> QED BY <1>18, <2>1, <2>2 DEF FetchReturns
<1>19. CASE CheckActive(r)
  BY <1>19 DEF CheckActive
<1> QED BY <1>1, <1>2, <1>3, <1>4, <1>5, <1>6, <1>7, <1>8, <1>9, <1>10, <1>11, <1>12, <1>13,
           <1>14, <1>15, <1>16, <1>17, <1>18, <1>19 DEF GetImage, Job

LEMMA NextFlight == FlightInv /\ [Next]_vars => FlightInv'
<1> SUFFICES ASSUME FlightInv, [Next]_vars PROVE FlightInv'
  OBVIOUS
<1>1. CASE Next
  BY <1>1, FlightStep DEF Next
<1>2. CASE UNCHANGED vars
  BY <1>2 DEF vars, FlightInv, TypeOK, LeaderAndJob, OwnEntryOnly, Owns, Following,
              MissBeforeFetch, CallHolds, HonestAnswer, FollowersServed, Serves,
              Unanswered, Outside
<1> QED BY <1>1, <1>2

LEMMA FlightInvariant == Spec => []FlightInv
<1> QED BY InitFlight, NextFlight, PTL DEF Spec

\* The types of the flight, and: a call whose done is closed holds bytes or an
\* error, for every number of requests.
THEOREM FlightTypeCorrect == Spec => []TypeOK
<1>1. FlightInv => TypeOK
  BY DEF FlightInv
<1> QED BY FlightInvariant, <1>1, PTL

\* While a leader is between its LoadOrStore and its own Delete the entry is
\* its own: neither a follower's CompareAndDelete nor another leader's Delete
\* ever takes it away (image.go).
THEOREM EntryIsOwn == Spec => []OwnEntryOnly
<1>1. FlightInv => OwnEntryOnly
  BY DEF FlightInv
<1> QED BY FlightInvariant, <1>1, PTL

\* No two upstream fetches of one page run at once, whatever number of callers
\* join, retry, are refused or leave (image.go).
THEOREM FetchesOnce == Spec => []OneFetch
<1>1. FlightInv => OneFetch
  <2> SUFFICES ASSUME FlightInv PROVE OneFetch
    OBVIOUS
  <2> DEFINE Running == {r \in Requests : job[r] = "running"}
  <2>1. Running \subseteq {flight}
    BY DEF FlightInv, OwnEntryOnly, Owns
  <2>2. IsFiniteSet({flight}) /\ Cardinality({flight}) = 1
    BY FS_Singleton
  <2>3. Cardinality(Running) <= 1
    BY <2>1, <2>2, FS_Subset
  <2> QED BY <2>3 DEF OneFetch
<1> QED BY FlightInvariant, <1>1, PTL

\* A leader whose second probe missed fetches a page nobody has fetched in
\* between: the probe under the entry closes the window (image.go:68-73).
THEOREM NeverRefetches == Spec => NoRefetch
<1>1. FlightInv /\ [Next]_vars =>
        [\A r \in Requests : job[r] = "queued" /\ job'[r] = "running" => ~cached]_vars
  BY DEF FlightInv, MissBeforeFetch
<1> QED BY FlightInvariant, <1>1, PTL DEF Spec, NoRefetch

\* GetImage returns bytes that were fetched, or an error of its own: its context
\* is done, the call it led was refused or failed, or its plugin is offline. The
\* error of another caller's fetch is never passed on (image.go:82-92).
THEOREM AnswersHonestly == Spec => []HonestAnswer
<1>1. FlightInv => HonestAnswer
  BY DEF FlightInv
<1> QED BY FlightInvariant, <1>1, PTL

\* Whoever waits for a shared call waits for a closed one, or for one whose
\* owner has the step to take that closes it, but for a job the pool has
\* skipped; and the entry in imageFlight names such an owner (image.go:56-62).
THEOREM NobodyIsLeft == Spec => []FollowersServed
<1>1. FlightInv => FollowersServed
  BY DEF FlightInv
<1> QED BY FlightInvariant, <1>1, PTL

-----------------------------------------------------------------------------
(* The singleflight implements the one fetch its callers share. *)

Running == {r \in Requests : job[r] = "running"}

Tell == [r \in Requests |-> Told(r)]

\* A step that moves no job into or out of Run and answers nobody.
LEMMA SharedStutter ==
  ASSUME UNCHANGED <<cached, answer>>, Running' = Running
  PROVE  UNCHANGED <<Tell, cached, Running>>
BY DEF Tell, Told

\* A request that returns is answered once, and with bytes only from the cache.
LEMMA SharedAnswer ==
  ASSUME FlightInv, NEW r \in Requests, NEW a \in Replies,
         at[r] # "returned", answer[r] = "none",
         a # "none", a = "data" => cached,
         answer' = [answer EXCEPT ![r] = a], UNCHANGED <<cached, job>>
  PROVE  Shared!Answer(r)
<1> DEFINE b == IF a \in {"raced", "offline"} THEN "error" ELSE a
<1>1. Running' = Running
  BY DEF Running
<1>2. Tell[r] = "none"
  BY DEF Tell, Told
<1>3. Tell' = [Tell EXCEPT ![r] = b]
  BY DEF FlightInv, TypeOK, Tell, Told
<1>4. b \in {"data", "error"} /\ (b = "data" => cached)
  BY DEF Replies, Outcomes
<1> QED BY <1>1, <1>2, <1>3, <1>4 DEF Shared!Answer, Running, Tell
\* Every step of one request, of its context or of its job maps to a step of
\* SharedFetch or to a stutter.
LEMMA SharedStep ==
  ASSUME FlightInv, NEW r \in Requests, CancelRequest(r) \/ GetImage(r) \/ Job(r)
  PROVE  [Shared!Next]_<<Tell, cached, Running>>
<1> USE DEF Goto, Return
<1> DEFINE Answers == Shared!Answer(r)
<1>0. Answers => Shared!Next
  BY DEF Shared!Next
<1>1. CASE UNCHANGED <<cached, answer, job>>
  BY <1>1, SharedStutter DEF Running
<1>2. CASE UNCHANGED <<cached, answer>> /\ \E s \in JobStates \ {"running"} :
             job[r] # "running" /\ job' = [job EXCEPT ![r] = s]
  <2>1. Running' = Running
    BY <1>2 DEF Running, FlightInv, TypeOK
  <2> QED BY <1>2, <2>1, SharedStutter
<1>3. CASE Begin(r) /\ answer' # answer
  <2>1. PICK a \in {"error", "data"} : answer' = [answer EXCEPT ![r] = a] /\ (a = "data" => cached)
    BY <1>3 DEF Begin
  <2>2. at[r] # "returned" /\ answer[r] = "none" /\ a \in Replies /\ UNCHANGED <<cached, job>>
    BY <1>3 DEF Begin, FlightInv, Unanswered, Replies, Outcomes
  <2> QED BY <1>0, <2>1, <2>2, SharedAnswer
<1>4. CASE ProbeHit(r)
  <2>1. /\ at[r] # "returned" /\ answer[r] = "none" /\ cached
        /\ answer' = [answer EXCEPT ![r] = "data"] /\ UNCHANGED <<cached, job>>
    BY <1>4 DEF ProbeHit, FlightInv, Unanswered, CallHolds
  <2> QED BY <1>0, <2>1, SharedAnswer DEF Replies, Outcomes
<1>5. CASE CloseRefused(r)
  <2>1. /\ at[r] # "returned" /\ answer[r] = "none"
        /\ answer' = [answer EXCEPT ![r] = "error"] /\ UNCHANGED <<cached, job>>
    BY <1>5 DEF CloseRefused, FlightInv, Unanswered
  <2> QED BY <1>0, <2>1, SharedAnswer DEF Replies, Outcomes
<1>6. CASE LeaderReturns(r)
  <2>1. /\ at[r] # "returned" /\ answer[r] = "none" /\ call[r] \in Outcomes
        /\ call[r] # "none" /\ (call[r] = "data" => cached)
        /\ answer' = [answer EXCEPT ![r] = call[r]] /\ UNCHANGED <<cached, job>>
    BY <1>6 DEF LeaderReturns, FlightInv, TypeOK, Unanswered, CallHolds
  <2> QED BY <1>0, <2>1, SharedAnswer DEF Replies
<1>7. CASE FollowerWakes(r) /\ answer' # answer
  <2>1. /\ at[r] # "returned" /\ answer[r] = "none" /\ cached
        /\ answer' = [answer EXCEPT ![r] = "data"] /\ UNCHANGED <<cached, job>>
    BY <1>7 DEF FollowerWakes, FlightInv, Unanswered, CallHolds, Following
  <2> QED BY <1>0, <2>1, SharedAnswer DEF Replies, Outcomes
<1>8. CASE JobStarts(r)
  <2>1. ~cached /\ flight = r
    BY <1>8 DEF JobStarts, FlightInv, MissBeforeFetch, OwnEntryOnly, Owns
  <2>2. Running = {}
    BY <1>8, <2>1 DEF JobStarts, Running, FlightInv, OwnEntryOnly, Owns
  <2>3. Running' = {r}
    BY <1>8, <2>2 DEF JobStarts, Running, FlightInv, TypeOK
  <2>4. Shared!StartFetch(r)
    BY <1>8, <2>1, <2>2, <2>3 DEF JobStarts, Shared!StartFetch, Running, Told
  <2> QED BY <2>4 DEF Shared!Next
<1>9. ASSUME NEW outcome \in Outcomes, FetchReturns(r, outcome) PROVE Shared!Next
  <2>1. Running = {r}
    BY <1>9 DEF FetchReturns, Running, FlightInv, OwnEntryOnly, Owns
  <2>2. Running' = {}
    BY <1>9, <2>1 DEF FetchReturns, Running, FlightInv, TypeOK
  <2>3. cached' \in {TRUE, cached} /\ UNCHANGED answer
    BY <1>9 DEF FetchReturns, FlightInv, TypeOK
  <2>4. Shared!EndFetch(r)
    BY <2>1, <2>2, <2>3 DEF Shared!EndFetch, Running, Told
  <2> QED BY <2>4 DEF Shared!Next
<1>10. CASE JobSkipped(r) \/ EnqueueJob(r) \/ JobDeletesEntry(r) \/ JobClosesCall(r)
  <2>1. job[r] # "running"
    BY <1>10 DEF JobSkipped, EnqueueJob, JobDeletesEntry, JobClosesCall, FlightInv, LeaderAndJob
  <2> QED BY <1>2, <1>10, <2>1 DEF JobSkipped, EnqueueJob, JobDeletesEntry, JobClosesCall, JobStates
<1>11. CASE CancelRequest(r) \/ JoinFlight(r) \/ Probe(r) \/ EnqueueRefused(r) \/ AwaitResult(r)
            \/ AwaitAbandoned(r) \/ FollowerRetries(r)
  BY <1>1, <1>11 DEF CancelRequest, JoinFlight, Probe, EnqueueRefused, AwaitResult, AwaitAbandoned,
                     FollowerRetries
<1>12. CASE (Begin(r) \/ CheckActive(r) \/ FollowerWakes(r)) /\ answer' = answer
  BY <1>1, <1>12 DEF Begin, CheckActive, FollowerWakes
<1>13. CASE CheckActive(r) /\ answer' # answer
  <2>1. /\ at[r] # "returned" /\ answer[r] = "none"
        /\ answer' = [answer EXCEPT ![r] = "offline"] /\ UNCHANGED <<cached, job>>
    BY <1>13 DEF CheckActive, FlightInv, Unanswered
  <2> QED BY <1>0, <2>1, SharedAnswer DEF Replies
<1> QED BY <1>3, <1>4, <1>5, <1>6, <1>7, <1>8, <1>9, <1>10, <1>11, <1>12, <1>13 DEF GetImage, Job

\* Every step of the singleflight is a step of the one fetch its callers share,
\* or a stutter, whatever number of callers join, leave, are refused or retry
\* (image.go): one fetch at a time, none of a cached page, one answer for each.
THEOREM FlightImplementsSharedFetch == Spec => ImplementsSharedFetch
<1>1. Init => Shared!Init
  BY DEF Init, Shared!Init, Told
<1>2. FlightInv /\ [Next]_vars => [Shared!Next]_<<Tell, cached, Running>>
  <2> SUFFICES ASSUME FlightInv, [Next]_vars PROVE [Shared!Next]_<<Tell, cached, Running>>
    OBVIOUS
  <2>1. CASE Next
    BY <2>1, SharedStep DEF Next
  <2>2. CASE UNCHANGED vars
    BY <2>2, SharedStutter DEF vars, Running
  <2> QED BY <2>1, <2>2
<1> QED BY FlightInvariant, <1>1, <1>2, PTL
        DEF Spec, ImplementsSharedFetch, Shared!Spec, Running, Tell

=============================================================================
