---------------------------- MODULE JobLifecycle ----------------------------
(***************************************************************************)
(* What the callers of the worker pool rely on: a job they enqueued waits, *)
(* runs while no conflicting job runs, and is settled once; or it is       *)
(* settled without ever running. How the pool gets there - queues, gate,   *)
(* requeueing, retries, cancellation - is WorkerPool's business.           *)
(***************************************************************************)
CONSTANTS
  Jobs,      \* what is enqueued
  Conflict,  \* the pairs of jobs that never run together
  Errors     \* the outcomes of a job

VARIABLES
  phase,    \* how far each job is
  outcome   \* what its future delivers

Phases == {"new", "waiting", "running", "finished", "settled"}

Init ==
  /\ phase = [j \in Jobs |-> "new"]
  /\ outcome = [j \in Jobs |-> "nil"]

\* Job j goes from one phase to another, the other jobs stay.
Moves(j, from, to) ==
  /\ phase[j] = from
  /\ phase' = [phase EXCEPT ![j] = to]

Submit(j) == Moves(j, "new", "waiting") /\ UNCHANGED outcome

Start(j) ==
  /\ Moves(j, "waiting", "running")
  /\ \A i \in Jobs : <<i, j>> \in Conflict => phase[i] # "running"
  /\ UNCHANGED outcome

Finish(j) == Moves(j, "running", "finished") /\ UNCHANGED outcome

\* A job that ran is settled with any outcome, nil included ...
Settle(j) ==
  /\ Moves(j, "finished", "settled")
  /\ \E err \in Errors : outcome' = [outcome EXCEPT ![j] = err]

\* ... one that never ran with an error.
Refuse(j) ==
  /\ Moves(j, "waiting", "settled")
  /\ \E err \in Errors \ {"nil"} : outcome' = [outcome EXCEPT ![j] = err]

Next == \E j \in Jobs : Submit(j) \/ Start(j) \/ Finish(j) \/ Settle(j) \/ Refuse(j)

Spec == Init /\ [][Next]_<<outcome, phase>>

=============================================================================
