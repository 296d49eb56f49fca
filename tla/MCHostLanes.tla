----------------------------- MODULE MCHostLanes -----------------------------
(* Four high and two low fetches of one host: both lanes overflow. *)
EXTENDS HostLanes, TLC

CONSTANTS h1, h2, h3, h4, l1, l2

MCPrioOf == [f \in Fetches |-> IF f \in {l1, l2} THEN "low" ELSE "high"]
=============================================================================
