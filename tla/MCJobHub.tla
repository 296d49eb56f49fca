------------------------------ MODULE MCJobHub ------------------------------
(* Two pages with one form and a watcher; the last job is tried twice. All    *)
(* clients with one job, and each kind of client with two.                    *)
EXTENDS JobHub, TLC

CONSTANTS p1, p2, w, k

OneForm == [p \in Pages |-> k]

Tries == [j \in Jobs |-> IF j = MaxJobs THEN 2 ELSE 1]

Companies == {<<{p1, p2}, 1>>, <<{p1, w}, 1>>, <<{p1}, 0>>, <<{w}, 0>>}
=============================================================================
