--------------------------- MODULE HostLanes_proofs ---------------------------
(***************************************************************************)
(* Proofs about HostLanes: for every number of fetches the counters are    *)
(* exact and bounded, and no wake-up is lost.                              *)
(***************************************************************************)
EXTENDS HostLanes, FiniteSetTheorems, TLAPS

\* The types of all but the counts.
QueueTypeOK ==
  /\ waiters \in [Prios -> Seq(Fetches)]
  /\ at \in [Fetches -> FetchStates]
  /\ waking \in [Fetches -> Fetches \cup {NoFetch}]

\* A lined-up fetch waits, in the lane of its priority, once.
Line(p) ==
  /\ \A i \in 1..Len(waiters[p]) : at[waiters[p][i]] = "wait" /\ PrioOf[waiters[p][i]] = p
  /\ \A i, j \in 1..Len(waiters[p]) : waiters[p][i] = waiters[p][j] => i = j

LinedUp == \A p \in Prios : Line(p)

\* Who is about to be woken waits, is lined up no longer and woken by one only.
AboutToWake ==
  /\ \A g \in Fetches : at[g] = "wake" =>
       /\ waking[g] \in Fetches
       /\ at[waking[g]] = "wait" /\ PrioOf[waking[g]] = PrioOf[g]
       /\ waking[g] \notin Waiting(PrioOf[g])
  /\ \A g, h \in Fetches : at[g] = "wake" /\ at[h] = "wake" /\ waking[g] = waking[h] => g = h

QueueInv == QueueTypeOK /\ LinedUp /\ AboutToWake

USE HostLanesAssumption

\* Of a queue that is not empty the rest holds what the head does not.
LEMMA WaiterHead ==
  ASSUME NEW s \in Seq(Fetches), s # <<>>
  PROVE  /\ Head(s) \in Fetches /\ Tail(s) \in Seq(Fetches)
         /\ Head(s) = s[1] /\ Len(Tail(s)) = Len(s) - 1 /\ Len(s) \in Nat \ {0}
         /\ \A i \in 1..Len(Tail(s)) : Tail(s)[i] = s[i + 1]
OBVIOUS

LEMMA InitQueue == LanesInit => QueueInv
BY DEF LanesInit, QueueInv, QueueTypeOK, LinedUp, Line, AboutToWake, FetchStates

\* A lane stays in line when neither it nor where its waiters are changes.
LEMMA LineKept ==
  ASSUME QueueInv, NEW p \in Prios, waiters'[p] = waiters[p],
         \A g \in Fetches : at[g] = "wait" /\ g \in Waiting(p) => at'[g] = "wait"
  PROVE  Line(p)'
<1>1. Len(waiters[p]) \in Nat /\ \A i \in 1..Len(waiters[p]) : waiters[p][i] \in Fetches
  BY DEF QueueInv, QueueTypeOK
<1>2. Line(p)
  BY DEF QueueInv, LinedUp
<1> QED BY <1>1, <1>2 DEF Line, Waiting

LEMMA ArriveStep == ASSUME QueueInv, NEW f \in Fetches, Arrive(f) PROVE QueueInv'
<1>1. QueueTypeOK' /\ UNCHANGED <<waiters, waking>>
  BY DEF Arrive, QueueInv, QueueTypeOK, FetchStates
<1>2. \A g \in Fetches : (at[g] = "wait" => at'[g] = "wait") /\ (at'[g] = "wake" => at[g] = "wake")
  BY DEF Arrive, QueueInv, QueueTypeOK
<1>3. \A p \in Prios : Line(p)'
  BY <1>1, <1>2, LineKept
<1>4. AboutToWake'
  BY <1>1, <1>2 DEF QueueInv, AboutToWake, Waiting
<1> QED BY <1>1, <1>3, <1>4 DEF QueueInv, LinedUp

LEMMA AcquireStep == ASSUME QueueInv, NEW f \in Fetches, Acquire(f) PROVE QueueInv'
<1>1. QueueTypeOK' /\ UNCHANGED <<waiters, waking>>
  BY DEF Acquire, QueueInv, QueueTypeOK, FetchStates
<1>2. \A g \in Fetches : (at[g] = "wait" => at'[g] = "wait") /\ (at'[g] = "wake" => at[g] = "wake")
  BY DEF Acquire, QueueInv, QueueTypeOK
<1>3. \A p \in Prios : Line(p)'
  BY <1>1, <1>2, LineKept
<1>4. AboutToWake'
  BY <1>1, <1>2 DEF QueueInv, AboutToWake, Waiting
<1> QED BY <1>1, <1>3, <1>4 DEF QueueInv, LinedUp

LEMMA LineUpStep == ASSUME QueueInv, NEW f \in Fetches, LineUp(f) PROVE QueueInv'
<1> DEFINE p == PrioOf[f]
           n == Len(waiters[p])
<1>1. QueueTypeOK' /\ waking' = waking
  BY DEF LineUp, QueueInv, QueueTypeOK, FetchStates
<1>2. at[f] = "try" /\ \A g \in Fetches : at'[g] = IF g = f THEN "wait" ELSE at[g]
  BY DEF LineUp, QueueInv, QueueTypeOK
<1>3. /\ p \in Prios /\ waiters[p] \in Seq(Fetches) /\ waiters'[p] = Append(waiters[p], f)
      /\ \A q \in Prios : q # p => waiters'[q] = waiters[q]
  BY DEF LineUp, QueueInv, QueueTypeOK
<1>4. /\ n \in Nat /\ Len(waiters'[p]) = n + 1 /\ waiters'[p][n + 1] = f
      /\ \A i \in 1..n : waiters'[p][i] = waiters[p][i] /\ waiters[p][i] \in Fetches
  BY <1>3
<1>5. Line(p)
  BY <1>3 DEF QueueInv, LinedUp
<1>6. \A i \in 1..n : waiters[p][i] # f
  BY <1>2, <1>5 DEF Line
<1>7. Line(p)'
  <2>1. \A i \in 1..(n + 1) : i \in 1..n \/ i = n + 1
    BY <1>4
  <2>2. \A i \in 1..(n + 1) : at'[waiters'[p][i]] = "wait" /\ PrioOf[waiters'[p][i]] = p
    BY <1>2, <1>4, <1>5, <1>6, <2>1 DEF Line
  <2>3. \A i, j \in 1..(n + 1) : waiters'[p][i] = waiters'[p][j] => i = j
    BY <1>4, <1>5, <1>6, <2>1 DEF Line
  <2> QED BY <1>4, <2>2, <2>3 DEF Line
<1>8. \A q \in Prios : Line(q)'
  BY <1>2, <1>3, <1>7, LineKept
<1>9. \A q \in Prios : Waiting(q)' \subseteq Waiting(q) \cup {f}
  <2> SUFFICES ASSUME NEW q \in Prios PROVE Waiting(q)' \subseteq Waiting(q) \cup {f}
    OBVIOUS
  <2>1. CASE q = p
    BY <1>4, <2>1 DEF Waiting
  <2>2. CASE q # p
    BY <1>3, <2>2 DEF Waiting
  <2> QED BY <2>1, <2>2
<1>10. \A g \in Fetches : at'[g] = "wake" =>
         at[g] = "wake" /\ waking[g] \in Fetches /\ waking[g] # f /\ at'[waking[g]] = "wait"
  BY <1>2 DEF QueueInv, AboutToWake
<1>11. AboutToWake'
  BY <1>1, <1>9, <1>10 DEF QueueInv, AboutToWake
<1> QED BY <1>1, <1>8, <1>11 DEF QueueInv, LinedUp

LEMMA ReleaseStep == ASSUME QueueInv, NEW f \in Fetches, hostRelease(f) PROVE QueueInv'
<1> DEFINE p == PrioOf[f]
<1>1. p \in Prios /\ waiters[p] \in Seq(Fetches) /\ at[f] = "in"
  BY DEF hostRelease, QueueInv, QueueTypeOK
<1>2. CASE waiters[p] = <<>>
  <2>1. QueueTypeOK' /\ UNCHANGED <<waiters, waking>>
    BY <1>2 DEF hostRelease, QueueInv, QueueTypeOK, FetchStates
  <2>2. \A g \in Fetches : (at[g] = "wait" => at'[g] = "wait") /\ (at'[g] = "wake" => at[g] = "wake")
    BY <1>2 DEF hostRelease, QueueInv, QueueTypeOK
  <2>3. \A q \in Prios : Line(q)'
    BY <2>1, <2>2, LineKept
  <2>4. AboutToWake'
    BY <2>1, <2>2 DEF QueueInv, AboutToWake, Waiting
  <2> QED BY <2>1, <2>3, <2>4 DEF QueueInv, LinedUp
<1>3. CASE waiters[p] # <<>>
  <2> DEFINE h == Head(waiters[p])
             m == Len(waiters[p]) - 1
  <2>1. /\ h \in Fetches /\ h = waiters[p][1] /\ m \in Nat
        /\ Tail(waiters[p]) \in Seq(Fetches) /\ Len(Tail(waiters[p])) = m
        /\ \A i \in 1..m : Tail(waiters[p])[i] = waiters[p][i + 1]
    BY <1>1, <1>3, WaiterHead
  <2>2. /\ waiters' = [waiters EXCEPT ![p] = Tail(@)]
        /\ waking' = [waking EXCEPT ![f] = h]
        /\ at' = [at EXCEPT ![f] = "wake"]
    BY <1>3 DEF hostRelease
  <2>3. /\ \A g \in Fetches : at'[g] = IF g = f THEN "wake" ELSE at[g]
        /\ \A g \in Fetches : waking'[g] = IF g = f THEN h ELSE waking[g]
    BY <2>2 DEF QueueInv, QueueTypeOK
  <2>4. /\ waiters'[p] = Tail(waiters[p])
        /\ \A q \in Prios : q # p => waiters'[q] = waiters[q]
    BY <1>1, <2>2 DEF QueueInv, QueueTypeOK
  <2>5. QueueTypeOK'
    BY <1>1, <2>1, <2>2 DEF hostRelease, QueueInv, QueueTypeOK, FetchStates
  <2>6. Line(p)
    BY <1>1 DEF QueueInv, LinedUp
  <2>7. at[h] = "wait" /\ PrioOf[h] = p /\ h # f /\ h \in Waiting(p)
    BY <1>1, <2>1, <2>6 DEF Line, Waiting
  <2>8. Len(waiters'[p]) = m /\ \A i \in 1..m : waiters'[p][i] = waiters[p][i + 1] /\ i + 1 \in 1..(m + 1)
    BY <2>1, <2>4
  <2>9. Line(p)'
    <3>1. \A i \in 1..m : waiters[p][i + 1] \in Fetches /\ waiters[p][i + 1] # f
      BY <1>1, <2>1, <2>6, <2>8 DEF Line
    <3>2. ASSUME NEW i \in 1..m PROVE at'[waiters'[p][i]] = "wait" /\ PrioOf[waiters'[p][i]] = p
      <4>1. waiters'[p][i] = waiters[p][i + 1] /\ i + 1 \in 1..Len(waiters[p])
        BY <1>1, <2>1, <2>8
      <4>2. at[waiters[p][i + 1]] = "wait" /\ PrioOf[waiters[p][i + 1]] = p
        BY <2>6, <4>1 DEF Line
      <4> QED BY <2>3, <3>1, <4>1, <4>2
    <3>3. ASSUME NEW i \in 1..m, NEW j \in 1..m, waiters'[p][i] = waiters'[p][j] PROVE i = j
      <4>1. i + 1 \in 1..Len(waiters[p]) /\ j + 1 \in 1..Len(waiters[p])
        BY <1>1, <2>1
      <4>2. waiters[p][i + 1] = waiters[p][j + 1]
        BY <2>8, <3>3
      <4>3. i + 1 = j + 1
        BY <2>6, <4>1, <4>2 DEF Line
      <4> QED BY <2>1, <4>3
    <3> QED BY <2>8, <3>2, <3>3 DEF Line
  <2>10. \A q \in Prios : Line(q)'
    BY <1>1, <2>3, <2>4, <2>9, LineKept
  <2>11. h \notin Waiting(p)'
    <3>1. ASSUME NEW i \in 1..m, waiters'[p][i] = h PROVE FALSE
      <4>1. waiters[p][i + 1] = waiters[p][1]
        BY <2>1, <2>8, <3>1
      <4>2. i + 1 \in 1..Len(waiters[p]) /\ 1 \in 1..Len(waiters[p])
        BY <1>1, <2>1
      <4>3. i + 1 = 1
        BY <2>6, <4>1, <4>2 DEF Line
      <4> QED BY <2>1, <4>3
    <3> QED BY <2>8, <3>1 DEF Waiting
  <2>12. \A q \in Prios : Waiting(q)' \subseteq Waiting(q)
    <3> SUFFICES ASSUME NEW q \in Prios PROVE Waiting(q)' \subseteq Waiting(q)
      OBVIOUS
    <3>1. CASE q = p
      BY <2>8, <2>1, <3>1 DEF Waiting
    <3>2. CASE q # p
      BY <2>4, <3>2 DEF Waiting
    <3> QED BY <3>1, <3>2
  <2>13. \A g \in Fetches : at[g] = "wake" => waking[g] # h /\ waking[g] # f
    BY <1>1, <2>7 DEF QueueInv, AboutToWake
  <2>14. ASSUME NEW g \in Fetches, at'[g] = "wake"
         PROVE  /\ waking'[g] \in Fetches
                /\ at'[waking'[g]] = "wait" /\ PrioOf[waking'[g]] = PrioOf[g]
                /\ waking'[g] \notin Waiting(PrioOf[g])'
    <3>1. CASE g = f
      BY <2>1, <2>3, <2>7, <2>11, <3>1
    <3>2. CASE g # f
      <4>1. at[g] = "wake" /\ waking'[g] = waking[g] /\ PrioOf[g] \in Prios
        BY <2>3, <2>14, <3>2
      <4> QED BY <2>3, <2>12, <2>13, <4>1 DEF QueueInv, AboutToWake
    <3> QED BY <3>1, <3>2
  <2>15. \A g, k \in Fetches : at'[g] = "wake" /\ at'[k] = "wake" /\ waking'[g] = waking'[k] => g = k
    BY <2>3, <2>13 DEF QueueInv, AboutToWake
  <2> QED BY <2>5, <2>10, <2>14, <2>15 DEF QueueInv, LinedUp, AboutToWake
<1> QED BY <1>2, <1>3

LEMMA WakeStep == ASSUME QueueInv, NEW f \in Fetches, Wake(f) PROVE QueueInv'
<1> DEFINE h == waking[f]
<1>1. /\ at[f] = "wake" /\ h \in Fetches /\ at[h] = "wait" /\ h \notin Waiting(PrioOf[f])
      /\ PrioOf[h] = PrioOf[f] /\ PrioOf[f] \in Prios
  BY DEF Wake, QueueInv, AboutToWake
<1>2. QueueTypeOK' /\ waiters' = waiters
  BY <1>1 DEF Wake, QueueInv, QueueTypeOK, FetchStates
<1>3. \A g \in Fetches : at'[g] = IF g = h THEN "try" ELSE IF g = f THEN "out" ELSE at[g]
  BY <1>1 DEF Wake, QueueInv, QueueTypeOK
<1>4. \A g \in Fetches : g # f => waking'[g] = waking[g]
  BY DEF Wake, QueueInv, QueueTypeOK
<1>5. \A q \in Prios : h \notin Waiting(q)
  BY <1>1 DEF QueueInv, LinedUp, Line, Waiting
<1>6. \A q \in Prios : Line(q)'
  BY <1>1, <1>2, <1>3, <1>5, LineKept
<1>7. \A g \in Fetches : at'[g] = "wake" =>
        /\ at[g] = "wake" /\ waking'[g] = waking[g]
        /\ waking[g] # h /\ waking[g] # f
  BY <1>1, <1>3, <1>4 DEF QueueInv, AboutToWake
<1>8. AboutToWake'
  BY <1>2, <1>3, <1>7 DEF QueueInv, AboutToWake, Waiting
<1> QED BY <1>2, <1>6, <1>8 DEF QueueInv, LinedUp

LEMMA QueueNext == QueueInv /\ [LanesNext]_laneVars => QueueInv'
<1> SUFFICES ASSUME QueueInv, [LanesNext]_laneVars PROVE QueueInv'
  OBVIOUS
<1>1. ASSUME NEW f \in Fetches, Fetch(f) PROVE QueueInv'
  BY <1>1, ArriveStep, AcquireStep, LineUpStep, ReleaseStep, WakeStep DEF Fetch
<1>2. CASE UNCHANGED laneVars
  BY <1>2 DEF laneVars, QueueInv, QueueTypeOK, LinedUp, Line, AboutToWake, Waiting
<1> QED BY <1>1, <1>2 DEF LanesNext

-----------------------------------------------------------------------------
(* The counters: a fetch enters or leaves one of the two sets that are counted *)
(* at a time, except in Wake, where one leaves the way and another joins it.   *)

CountInv ==
  /\ count \in [Prios -> Nat]
  /\ AdmissionBounded

LEMMA SetsFinite ==
  \A p \in Prios : IsFiniteSet(InLane(p)) /\ IsFiniteSet(OnTheWay(p))
BY FS_Subset DEF InLane, OnTheWay

LEMMA LaneCapNat == \A p \in Prios : LaneCap[p] \in Nat
BY DEF LaneCap

LEMMA InitCount == LanesInit => CountInv /\ SlotsWanted
<1> SUFFICES ASSUME LanesInit PROVE CountInv /\ SlotsWanted
  OBVIOUS
<1>1. \A p \in Prios : InLane(p) = {} /\ waiters[p] = <<>> /\ count[p] = 0 /\ 0 <= LaneCap[p]
  BY LaneCapNat DEF LanesInit, InLane
<1>2. count \in [Prios -> Nat]
  BY DEF LanesInit
<1> QED BY <1>1, <1>2, FS_EmptySet DEF CountInv, AdmissionBounded, SlotsWanted

\* A fetch that joins or leaves a finite set changes its size by one.
LEMMA Joins ==
  ASSUME NEW S, NEW f, IsFiniteSet(S), f \notin S
  PROVE  Cardinality(S \cup {f}) = Cardinality(S) + 1 /\ Cardinality(S) \in Nat
BY FS_AddElement, FS_CardinalityType

LEMMA Leaves ==
  ASSUME NEW S, NEW f, IsFiniteSet(S), f \in S
  PROVE  Cardinality(S \ {f}) = Cardinality(S) - 1 /\ Cardinality(S) \in Nat \ {0}
<1>1. Cardinality(S \ {f}) = Cardinality(S) - 1
  BY FS_RemoveElement
<1>2. Cardinality(S) \in Nat /\ Cardinality(S) # 0
  BY FS_CardinalityType, FS_EmptySet
<1> QED BY <1>1, <1>2

LEMMA CountStep ==
  ASSUME QueueInv, CountInv, SlotsWanted, NEW f \in Fetches, Fetch(f)
  PROVE  CountInv' /\ SlotsWanted'
<1> DEFINE p == PrioOf[f]
<1>1. p \in Prios /\ \A q \in Prios : LaneCap[q] \in Nat /\ count[q] \in Nat
  BY LaneCapNat DEF CountInv
<1>2. \A q \in Prios : Cardinality(InLane(q)) \in Nat /\ Cardinality(OnTheWay(q)) \in Nat
  BY SetsFinite, FS_CardinalityType
<1>3. at \in [Fetches -> FetchStates]
  BY DEF QueueInv, QueueTypeOK
<1>4. CASE Arrive(f)
  <2>1. \A q \in Prios : InLane(q)' = InLane(q)
    BY <1>3, <1>4 DEF Arrive, InLane
  <2>2. /\ OnTheWay(p)' = OnTheWay(p) \cup {f} /\ f \notin OnTheWay(p)
        /\ \A q \in Prios : q # p => OnTheWay(q)' = OnTheWay(q)
    BY <1>3, <1>4 DEF Arrive, OnTheWay
  <2>3. \A q \in Prios : Cardinality(OnTheWay(q)') >= Cardinality(OnTheWay(q))
                          /\ Cardinality(OnTheWay(q)') \in Nat
    BY <1>1, <1>2, <2>2, SetsFinite, Joins
  <2>4. UNCHANGED <<count, waiters>>
    BY <1>4 DEF Arrive
  <2> QED BY <1>1, <1>2, <2>1, <2>3, <2>4 DEF CountInv, AdmissionBounded, SlotsWanted
<1>5. CASE Acquire(f)
  <2>1. /\ InLane(p)' = InLane(p) \cup {f} /\ f \notin InLane(p)
        /\ \A q \in Prios : q # p => InLane(q)' = InLane(q)
    BY <1>3, <1>5 DEF Acquire, InLane, FetchStates
  <2>2. /\ OnTheWay(p)' = OnTheWay(p) \ {f} /\ f \in OnTheWay(p)
        /\ \A q \in Prios : q # p => OnTheWay(q)' = OnTheWay(q)
    BY <1>3, <1>5 DEF Acquire, OnTheWay, FetchStates
  <2>3. /\ Cardinality(InLane(p)') = Cardinality(InLane(p)) + 1
        /\ Cardinality(OnTheWay(p)') = Cardinality(OnTheWay(p)) - 1
    BY <1>1, <2>1, <2>2, SetsFinite, Joins, Leaves
  <2>4. /\ count[p] < LaneCap[p] /\ count'[p] = count[p] + 1 /\ waiters' = waiters
        /\ count' \in [Prios -> Nat] /\ \A q \in Prios : q # p => count'[q] = count[q]
    BY <1>1, <1>5 DEF Acquire, CountInv
  <2>5. CountInv'
    <3> SUFFICES ASSUME NEW q \in Prios
                 PROVE  count'[q] = Cardinality(InLane(q)') /\ count'[q] <= LaneCap[q]
      BY <2>4 DEF CountInv, AdmissionBounded
    <3>1. count[q] = Cardinality(InLane(q)) /\ count[q] <= LaneCap[q]
      BY DEF CountInv, AdmissionBounded
    <3>2. CASE q = p
      BY <3>1, <3>2, <1>1, <1>2, <2>3, <2>4
    <3>3. CASE q # p
      BY <3>1, <3>3, <2>1, <2>4
    <3> QED BY <3>2, <3>3
  <2>6. ASSUME NEW q \in Prios, waiters'[q] # <<>>
        PROVE  count'[q] + Cardinality(OnTheWay(q)') >= LaneCap[q]
    <3>1. count[q] + Cardinality(OnTheWay(q)) >= LaneCap[q]
      BY <2>4, <2>6 DEF SlotsWanted
    <3>2. CASE q = p
      BY <1>1, <1>2, <2>3, <2>4, <3>1, <3>2
    <3>3. CASE q # p
      BY <2>2, <2>4, <3>1, <3>3
    <3> QED BY <3>2, <3>3
  <2> QED BY <2>5, <2>6 DEF SlotsWanted
<1>6. CASE LineUp(f)
  <2>1. \A q \in Prios : InLane(q)' = InLane(q)
    BY <1>3, <1>6 DEF LineUp, InLane, FetchStates
  <2>2. \A q \in Prios : q # p => OnTheWay(q)' = OnTheWay(q) /\ waiters'[q] = waiters[q]
    BY <1>1, <1>3, <1>6 DEF LineUp, OnTheWay, FetchStates, QueueInv, QueueTypeOK
  <2>3. Cardinality(OnTheWay(p)') \in Nat
    <3>1. OnTheWay(p)' = OnTheWay(p) \ {f} /\ f \in OnTheWay(p)
      BY <1>3, <1>6 DEF LineUp, OnTheWay, FetchStates
    <3>2. Cardinality(OnTheWay(p)') = Cardinality(OnTheWay(p)) - 1
          /\ Cardinality(OnTheWay(p)) \in Nat \ {0}
      BY <1>1, <3>1, SetsFinite, Leaves
    <3> QED BY <3>2
  <2>4. count' = count /\ count[p] >= LaneCap[p]
    BY <1>6 DEF LineUp
  <2>5. CountInv'
    BY <2>1, <2>4 DEF CountInv, AdmissionBounded
  <2>6. ASSUME NEW q \in Prios, waiters'[q] # <<>>
        PROVE  count'[q] + Cardinality(OnTheWay(q)') >= LaneCap[q]
    <3>1. CASE q = p
      BY <1>1, <2>3, <2>4, <3>1
    <3>2. CASE q # p
      BY <2>2, <2>4, <2>6, <3>2 DEF SlotsWanted
    <3> QED BY <3>1, <3>2
  <2> QED BY <2>5, <2>6 DEF SlotsWanted
<1>7. CASE hostRelease(f)
  <2>1. /\ InLane(p)' = InLane(p) \ {f} /\ f \in InLane(p)
        /\ \A q \in Prios : q # p => InLane(q)' = InLane(q)
    BY <1>3, <1>7 DEF hostRelease, InLane, FetchStates
  <2>2. Cardinality(InLane(p)') = Cardinality(InLane(p)) - 1 /\ Cardinality(InLane(p)) \in Nat \ {0}
    BY <1>1, <2>1, SetsFinite, Leaves
  <2>3. /\ count[p] = Cardinality(InLane(p)) /\ count' = [count EXCEPT ![p] = @ - 1]
    BY <1>1, <1>7 DEF hostRelease, CountInv, AdmissionBounded
  <2>4. /\ count'[p] = count[p] - 1 /\ count' \in [Prios -> Nat]
        /\ \A q \in Prios : q # p => count'[q] = count[q]
    BY <1>1, <2>2, <2>3 DEF CountInv
  <2>5. CountInv'
    <3>1. ASSUME NEW q \in Prios
          PROVE  count'[q] = Cardinality(InLane(q)') /\ count'[q] <= LaneCap[q]
      <4>1. CASE q = p
        BY <1>1, <2>2, <2>3, <2>4, <4>1 DEF CountInv, AdmissionBounded
      <4>2. CASE q # p
        BY <2>1, <2>4, <4>2 DEF CountInv, AdmissionBounded
      <4> QED BY <4>1, <4>2
    <3> QED BY <2>4, <3>1 DEF CountInv, AdmissionBounded
  <2>6. CASE waiters[p] = <<>>
    <3>1. waiters' = waiters /\ \A q \in Prios : q # p => OnTheWay(q)' = OnTheWay(q)
      BY <1>3, <1>7, <2>6 DEF hostRelease, OnTheWay, FetchStates
    <3>2. SlotsWanted'
      BY <2>4, <2>6, <3>1 DEF SlotsWanted
    <3> QED BY <2>5, <3>2
  <2>7. CASE waiters[p] # <<>>
    <3>1. /\ OnTheWay(p)' = OnTheWay(p) \cup {f} /\ f \notin OnTheWay(p)
          /\ \A q \in Prios : q # p => OnTheWay(q)' = OnTheWay(q)
      BY <1>3, <1>7, <2>7 DEF hostRelease, OnTheWay, FetchStates
    <3>2. \A q \in Prios : q # p => waiters'[q] = waiters[q]
      BY <1>1, <1>7, <2>7 DEF hostRelease, QueueInv, QueueTypeOK
    <3>3. Cardinality(OnTheWay(p)') = Cardinality(OnTheWay(p)) + 1
      BY <1>1, <3>1, SetsFinite, Joins
    <3>4. ASSUME NEW q \in Prios, waiters'[q] # <<>>
          PROVE  count'[q] + Cardinality(OnTheWay(q)') >= LaneCap[q]
      <4>1. CASE q = p
        <5>1. count[p] + Cardinality(OnTheWay(p)) >= LaneCap[p]
          BY <1>1, <2>7 DEF SlotsWanted
        <5> QED BY <1>1, <1>2, <2>4, <3>3, <4>1, <5>1
      <4>2. CASE q # p
        BY <2>4, <3>1, <3>2, <3>4, <4>2 DEF SlotsWanted
      <4> QED BY <4>1, <4>2
    <3> QED BY <2>5, <3>4 DEF SlotsWanted
  <2> QED BY <2>6, <2>7
<1>8. CASE Wake(f)
  <2> DEFINE h == waking[f]
  <2>1. at[f] = "wake" /\ h \in Fetches /\ at[h] = "wait" /\ PrioOf[h] = p
    BY <1>8 DEF Wake, QueueInv, AboutToWake
  <2>2. at' = [at EXCEPT ![f] = "out", ![h] = "try"] /\ UNCHANGED <<count, waiters>>
    BY <1>8 DEF Wake
  <2>3. \A g \in Fetches : at'[g] = IF g = h THEN "try" ELSE IF g = f THEN "out" ELSE at[g]
    BY <1>3, <2>1, <2>2
  <2>4. \A q \in Prios : InLane(q)' = InLane(q)
    BY <2>1, <2>3 DEF InLane
  <2>5. /\ OnTheWay(p)' = (OnTheWay(p) \ {f}) \cup {h} /\ f \in OnTheWay(p) /\ h \notin OnTheWay(p)
        /\ \A q \in Prios : q # p => OnTheWay(q)' = OnTheWay(q)
    BY <2>1, <2>3 DEF OnTheWay
  <2>6. Cardinality(OnTheWay(p)') = Cardinality(OnTheWay(p))
    <3>1. Cardinality(OnTheWay(p) \ {f}) = Cardinality(OnTheWay(p)) - 1
          /\ Cardinality(OnTheWay(p)) \in Nat \ {0} /\ IsFiniteSet(OnTheWay(p) \ {f})
      BY <1>1, <2>5, SetsFinite, Leaves, FS_RemoveElement
    <3>2. Cardinality(OnTheWay(p)') = Cardinality(OnTheWay(p) \ {f}) + 1
      BY <2>5, <3>1, Joins
    <3> QED BY <3>1, <3>2
  <2>7. \A q \in Prios : Cardinality(OnTheWay(q)') = Cardinality(OnTheWay(q))
    BY <2>5, <2>6
  <2> QED BY <2>2, <2>4, <2>7 DEF CountInv, AdmissionBounded, SlotsWanted
<1> QED BY <1>4, <1>5, <1>6, <1>7, <1>8 DEF Fetch

LEMMA CountNext ==
  QueueInv /\ CountInv /\ SlotsWanted /\ [LanesNext]_laneVars => CountInv' /\ SlotsWanted'
<1> SUFFICES ASSUME QueueInv, CountInv, SlotsWanted, [LanesNext]_laneVars
             PROVE  CountInv' /\ SlotsWanted'
  OBVIOUS
<1>1. CASE UNCHANGED laneVars
  BY <1>1 DEF laneVars, CountInv, AdmissionBounded, SlotsWanted, InLane, OnTheWay
<1> QED BY <1>1, CountStep DEF LanesNext

LEMMA LanesInvariant == LanesSpec => [](QueueInv /\ CountInv /\ SlotsWanted)
<1> QED BY InitQueue, InitCount, QueueNext, CountNext, PTL DEF LanesSpec

-----------------------------------------------------------------------------
(* The sleepers: who is no longer lined up has been popped by somebody.       *)

Popped(f) == \E g \in Fetches : at[g] = "wake" /\ waking[g] = f

SleepersHeld == \A f \in Fetches : at[f] = "wait" => f \in Waiting(PrioOf[f]) \/ Popped(f)

\* Nobody is forgotten while the queues lose nobody and no waker moves on.
LEMMA SleepersKept ==
  ASSUME QueueInv, SleepersHeld,
         \A p \in Prios : Waiting(p) \subseteq Waiting(p)',
         \A g \in Fetches : at[g] = "wake" => at'[g] = "wake" /\ waking'[g] = waking[g],
         \A f \in Fetches : at'[f] = "wait" => at[f] = "wait" \/ f \in Waiting(PrioOf[f])'
  PROVE  SleepersHeld'
BY DEF SleepersHeld, Popped

LEMMA SleepersNext == QueueInv /\ SleepersHeld /\ [LanesNext]_laneVars => SleepersHeld'
<1> SUFFICES ASSUME QueueInv, SleepersHeld, [LanesNext]_laneVars PROVE SleepersHeld'
  OBVIOUS
<1>0. at \in [Fetches -> FetchStates] /\ waking \in [Fetches -> Fetches \cup {NoFetch}]
      /\ waiters \in [Prios -> Seq(Fetches)]
  BY DEF QueueInv, QueueTypeOK
<1>1. ASSUME NEW f \in Fetches, Arrive(f) \/ Acquire(f) PROVE SleepersHeld'
  BY <1>0, <1>1, SleepersKept DEF Arrive, Acquire, Waiting
<1>2. ASSUME NEW f \in Fetches, LineUp(f) PROVE SleepersHeld'
  <2> DEFINE q == PrioOf[f]
  <2>1. /\ q \in Prios /\ waiters[q] \in Seq(Fetches) /\ waiters'[q] = Append(waiters[q], f)
        /\ \A p \in Prios : p # q => waiters'[p] = waiters[p]
    BY <1>0, <1>2 DEF LineUp
  <2>2. Waiting(q)' = Waiting(q) \cup {f}
    <3>1. /\ Len(waiters[q]) \in Nat /\ Len(waiters'[q]) = Len(waiters[q]) + 1
          /\ waiters'[q][Len(waiters[q]) + 1] = f
          /\ \A i \in 1..Len(waiters[q]) : waiters'[q][i] = waiters[q][i]
      BY <2>1
    <3>2. \A i \in 1..(Len(waiters[q]) + 1) : i \in 1..Len(waiters[q]) \/ i = Len(waiters[q]) + 1
      BY <3>1
    <3> QED BY <3>1, <3>2 DEF Waiting
  <2>3. \A p \in Prios : Waiting(p) \subseteq Waiting(p)'
    BY <2>1, <2>2 DEF Waiting
  <2>4. UNCHANGED waking /\ at[f] = "try" /\ \A g \in Fetches : g # f => at'[g] = at[g]
    BY <1>0, <1>2 DEF LineUp
  <2> QED BY <2>2, <2>3, <2>4, SleepersKept
<1>3. ASSUME NEW f \in Fetches, hostRelease(f) PROVE SleepersHeld'
  <2>0. at[f] = "in"
    BY <1>3 DEF hostRelease
  <2>1. CASE waiters[PrioOf[f]] = <<>>
    BY <1>0, <1>3, <2>1, SleepersKept DEF hostRelease, Waiting
  <2>2. CASE waiters[PrioOf[f]] # <<>>
    <3> DEFINE q == PrioOf[f]
    <3>0. PICK h \in Fetches : h = Head(waiters[q])
      BY <1>0, <1>3, <2>2, WaiterHead DEF hostRelease
    <3>1. /\ \A g \in Fetches : at'[g] = IF g = f THEN "wake" ELSE at[g]
          /\ \A g \in Fetches : waking'[g] = IF g = f THEN h ELSE waking[g]
          /\ q \in Prios /\ waiters'[q] = Tail(waiters[q])
          /\ \A p \in Prios : p # q => waiters'[p] = waiters[p]
      BY <1>0, <1>3, <2>2, <3>0 DEF hostRelease
    <3>2. Waiting(q) \subseteq Waiting(q)' \cup {h}
      <4>1. /\ h = waiters[q][1] /\ Len(Tail(waiters[q])) = Len(waiters[q]) - 1 /\ Len(waiters[q]) \in Nat \ {0}
            /\ \A i \in 1..Len(Tail(waiters[q])) : Tail(waiters[q])[i] = waiters[q][i + 1]
        BY <1>0, <2>2, <3>0, <3>1, WaiterHead
      <4>2. ASSUME NEW i \in 1..Len(waiters[q]), i # 1
            PROVE  i - 1 \in 1..Len(Tail(waiters[q])) /\ Tail(waiters[q])[i - 1] = waiters[q][i]
        <5>1. i - 1 \in 1..Len(Tail(waiters[q])) /\ (i - 1) + 1 = i
          BY <4>1, <4>2
        <5> QED BY <4>1, <5>1
      <4> QED BY <3>1, <4>1, <4>2 DEF Waiting
    <3>3. \A p \in Prios : p # q => Waiting(p)' = Waiting(p)
      BY <3>1 DEF Waiting
    <3>4. Popped(h)'
      BY <3>1 DEF Popped
    <3>5. ASSUME NEW g \in Fetches, Popped(g) PROVE Popped(g)'
      BY <2>0, <3>1, <3>5 DEF Popped
    <3> HIDE DEF q
    <3>6. ASSUME NEW g \in Fetches, at'[g] = "wait" PROVE g \in Waiting(PrioOf[g])' \/ Popped(g)'
      <4>1. at[g] = "wait"
        BY <3>1, <3>6
      <4>2. g \in Waiting(PrioOf[g]) \/ Popped(g)
        BY <4>1 DEF SleepersHeld
      <4>3. CASE g \in Waiting(PrioOf[g])
        <5>1. PrioOf[g] \in Prios
          OBVIOUS
        <5> QED BY <3>2, <3>3, <3>4, <4>3, <5>1
      <4> QED BY <3>5, <4>2, <4>3
    <3> QED BY <3>6 DEF SleepersHeld
  <2> QED BY <2>1, <2>2
<1>4. ASSUME NEW f \in Fetches, Wake(f) PROVE SleepersHeld'
  <2> DEFINE h == waking[f]
  <2>1. at[f] = "wake" /\ h \in Fetches /\ at[h] = "wait"
    BY <1>4 DEF Wake, QueueInv, AboutToWake
  <2>2. /\ waiters' = waiters
        /\ \A g \in Fetches : at'[g] = IF g = h THEN "try" ELSE IF g = f THEN "out" ELSE at[g]
        /\ \A g \in Fetches : g # f => waking'[g] = waking[g]
    BY <1>0, <1>4, <2>1 DEF Wake
  <2>3. ASSUME NEW g \in Fetches, at'[g] = "wait" PROVE g \in Waiting(PrioOf[g])' \/ Popped(g)'
    <3>1. g # h /\ g # f /\ at[g] = "wait"
      BY <2>2, <2>3
    <3>2. CASE g \in Waiting(PrioOf[g])
      BY <2>2, <3>2 DEF Waiting
    <3>3. CASE Popped(g)
      <4>1. PICK k \in Fetches : at[k] = "wake" /\ waking[k] = g
        BY <3>3 DEF Popped
      <4>2. k # f /\ k # h
        BY <2>1, <3>1, <4>1
      <4> QED BY <2>2, <4>1, <4>2 DEF Popped
    <3> QED BY <3>1, <3>2, <3>3 DEF SleepersHeld
  <2> QED BY <2>3 DEF SleepersHeld
<1>5. CASE UNCHANGED laneVars
  BY <1>5 DEF laneVars, SleepersHeld, Popped, Waiting
<1> QED BY <1>1, <1>2, <1>3, <1>4, <1>5 DEF LanesNext, Fetch

\* Whoever is lined up or popped does sleep.
LEMMA SleepersSleep == QueueInv /\ SleepersHeld => SleepersKnown
<1> SUFFICES ASSUME QueueInv, SleepersHeld, NEW f \in Fetches
             PROVE  at[f] = "wait" <=> f \in Waiting(PrioOf[f]) \/ Popped(f)
  BY DEF SleepersKnown, Popped
<1>1. f \in Waiting(PrioOf[f]) => at[f] = "wait"
  BY DEF QueueInv, LinedUp, Line, Waiting
<1>2. Popped(f) => at[f] = "wait"
  BY DEF QueueInv, AboutToWake, Popped
<1> QED BY <1>1, <1>2 DEF SleepersHeld

\* The lane variables keep their types; in particular no counter drops below 0.
THEOREM LanesTypeCorrect == LanesSpec => []LanesTypeOK
<1>1. QueueInv /\ CountInv => LanesTypeOK
  BY DEF QueueInv, QueueTypeOK, CountInv, LanesTypeOK
<1> QED BY LanesInvariant, <1>1, PTL

\* For every number of fetches, a host is sent at most two high and one low at
\* once, and the counters are exactly the fetches that are in (image_pace.go).
THEOREM AdmissionCorrect == LanesSpec => []AdmissionBounded
<1>1. CountInv => AdmissionBounded
  BY DEF CountInv
<1> QED BY LanesInvariant, <1>1, PTL

\* hostRelease wakes one waiter, after unlocking, and a fetch that arrives may
\* take the slot it was woken for: still nobody sleeps who is neither lined up
\* nor about to be woken, and no slot is free while all who want it sleep
\* (image_pace.go).
THEOREM WakeupsKept == LanesSpec => []NoLostWakeup
<1>1. LanesInit => SleepersHeld
  BY DEF LanesInit, SleepersHeld
<1>2. QueueInv /\ SleepersHeld /\ SlotsWanted => NoLostWakeup
  BY SleepersSleep DEF NoLostWakeup
<1> QED BY LanesInvariant, SleepersNext, <1>1, <1>2, PTL DEF LanesSpec

=============================================================================
