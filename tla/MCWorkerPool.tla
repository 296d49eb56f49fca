---------------------------- MODULE MCWorkerPool ----------------------------
(* Instances of WorkerPool for TLC. *)
EXTENDS WorkerPool, TLC

CONSTANTS j1, j2, j3, w1, w2, p1, d1

OneSlot == [q \in Queues |-> 1]

OneAttempt == [j \in Jobs |-> 1]

\* The fetch lane: j1 and j2 are of one plugin; j1 and j3 share a DedupeKey and
\* j3 has no PluginKey, as the library sync; j1 is retried.
FetchQueueOf == [j \in Jobs |-> "fetch"]
FetchPluginKeyOf == j1 :> p1 @@ j2 :> p1 @@ j3 :> NoKey
FetchDedupeKeyOf == j1 :> d1 @@ j2 :> NoKey @@ j3 :> d1
FetchLaneOf == [w \in Workers |-> "fetch"]
FetchAttempts == j1 :> 2 @@ j2 :> 1 @@ j3 :> 1
=============================================================================
