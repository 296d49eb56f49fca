------------------------------ MODULE HostLanes ------------------------------
(***************************************************************************)
(* Per-host admission of image fetches, internal/bridge/image_pace.go:     *)
(* hostAcquire and hostRelease for one host (the entries of the hostLanes  *)
(* map share nothing). A released slot is not handed over: the waiter that *)
(* is woken competes for it again with whoever has just arrived.           *)
(***************************************************************************)
EXTENDS Naturals, Sequences, FiniteSets

CONSTANTS
  Fetches,  \* the image fetches, one call of fetchImage each
  PrioOf,   \* their priority
  NoFetch      \* no waiter

Prios == {"high", "low"}

\* The literals of hostAcquire's two conditions.
LaneCap == [p \in Prios |-> IF p = "high" THEN 2 ELSE 1]

ASSUME HostLanesAssumption ==
  /\ IsFiniteSet(Fetches)
  /\ PrioOf \in [Fetches -> Prios]
  /\ NoFetch \notin Fetches

VARIABLES
  count,    \* highCount and lowCount
  waiters,  \* highWaiters and lowWaiters
  at,       \* where each fetch is
  waking    \* the waiter a releasing fetch has popped and is about to wake

laneVars == <<count, waiters, at, waking>>

FetchStates == {"idle", "try", "wait", "in", "wake", "out"}

LanesTypeOK ==
  /\ count \in [Prios -> Nat]
  /\ waiters \in [Prios -> Seq(Fetches)]
  /\ at \in [Fetches -> FetchStates]
  /\ waking \in [Fetches -> Fetches \cup {NoFetch}]

LanesInit ==
  /\ count = [p \in Prios |-> 0]
  /\ waiters = [p \in Prios |-> <<>>]
  /\ at = [f \in Fetches |-> "idle"]
  /\ waking = [f \in Fetches |-> NoFetch]

\* hostAcquire is called.
Arrive(f) ==
  /\ at[f] = "idle"
  /\ at' = [at EXCEPT ![f] = "try"]
  /\ UNCHANGED <<count, waiters, waking>>

\* Mutant of Acquire: off by one.
AcquireOneMore(f) ==
  /\ at[f] = "try"
  /\ count[PrioOf[f]] <= LaneCap[PrioOf[f]]
  /\ count' = [count EXCEPT ![PrioOf[f]] = @ + 1]
  /\ at' = [at EXCEPT ![f] = "in"]
  /\ UNCHANGED <<waiters, waking>>

\* One turn of the loop under lanes.mu: take a slot ...
Acquire(f) ==
  /\ at[f] = "try"
  /\ count[PrioOf[f]] < LaneCap[PrioOf[f]]
  /\ count' = [count EXCEPT ![PrioOf[f]] = @ + 1]
  /\ at' = [at EXCEPT ![f] = "in"]
  /\ UNCHANGED <<waiters, waking>>

\* ... or line up and unlock; a woken fetch that finds no slot lines up again.
LineUp(f) ==
  /\ at[f] = "try"
  /\ count[PrioOf[f]] >= LaneCap[PrioOf[f]]
  /\ waiters' = [waiters EXCEPT ![PrioOf[f]] = Append(@, f)]
  /\ at' = [at EXCEPT ![f] = "wait"]
  /\ UNCHANGED <<count, waking>>

\* Mutant of hostRelease: nobody is woken.
hostReleaseQuietly(f) ==
  /\ at[f] = "in"
  /\ count' = [count EXCEPT ![PrioOf[f]] = @ - 1]
  /\ at' = [at EXCEPT ![f] = "out"]
  /\ UNCHANGED <<waiters, waking>>

\* hostRelease gives the slot back and, under the same lock, pops a waiter ...
hostRelease(f) ==
  /\ at[f] = "in"
  /\ count' = [count EXCEPT ![PrioOf[f]] = @ - 1]
  /\ IF waiters[PrioOf[f]] = <<>>
     THEN /\ at' = [at EXCEPT ![f] = "out"]
          /\ UNCHANGED <<waiters, waking>>
     ELSE /\ at' = [at EXCEPT ![f] = "wake"]
          /\ waking' = [waking EXCEPT ![f] = Head(waiters[PrioOf[f]])]
          /\ waiters' = [waiters EXCEPT ![PrioOf[f]] = Tail(@)]

\* ... which it wakes after unlocking.
Wake(f) ==
  /\ at[f] = "wake"
  /\ at' = [at EXCEPT ![f] = "out", ![waking[f]] = "try"]
  /\ waking' = [waking EXCEPT ![f] = NoFetch]
  /\ UNCHANGED <<count, waiters>>

Fetch(f) == Arrive(f) \/ Acquire(f) \/ LineUp(f) \/ hostRelease(f) \/ Wake(f)

LanesNext == \E f \in Fetches : Fetch(f)

LanesSpec == LanesInit /\ [][LanesNext]_laneVars

\* A fetch that has arrived keeps going; requests end (the HTTP client's
\* timeout bounds them), so a slot is released in the end.
LanesFairness == \A f \in Fetches : WF_laneVars(at[f] # "idle" /\ Fetch(f))

FairLanesSpec == LanesSpec /\ LanesFairness

-----------------------------------------------------------------------------
(* Properties *)

InLane(p) == {f \in Fetches : at[f] = "in" /\ PrioOf[f] = p}

\* A woken or arriving fetch that is yet to look at the count, and a releasing
\* one that is yet to wake a waiter.
OnTheWay(p) == {f \in Fetches : at[f] \in {"try", "wake"} /\ PrioOf[f] = p}

Waiting(p) == {waiters[p][i] : i \in 1..Len(waiters[p])}

\* A host is never sent more than two high and one low fetch at once, and the
\* counters neither leak a slot nor lose one.
AdmissionBounded ==
  \A p \in Prios : count[p] = Cardinality(InLane(p)) /\ count[p] <= LaneCap[p]

\* A fetch sleeps exactly while it is lined up, or popped and about to be woken.
SleepersKnown ==
  \A f \in Fetches :
    at[f] = "wait" <=> \/ f \in Waiting(PrioOf[f])
                       \/ \E g \in Fetches : at[g] = "wake" /\ waking[g] = f

\* While a fetch is lined up, every slot is taken or somebody is on the way to look.
SlotsWanted ==
  \A p \in Prios : waiters[p] # <<>> =>
    count[p] + Cardinality(OnTheWay(p)) >= LaneCap[p]

\* No lost wake-up: nobody sleeps unheard of, and no slot is free while all who
\* want it sleep - although hostRelease wakes one waiter only, outside the lock,
\* and an arriving fetch may take the slot from under it.
NoLostWakeup == SleepersKnown /\ SlotsWanted

\* Every fetch that asks for admission is admitted in the end.
EveryFetchAdmitted == \A f \in Fetches : at[f] = "try" ~> at[f] = "in"

=============================================================================
