---------------------------- MODULE MCImageFlight ----------------------------
(* Three concurrent requests for one page: a leader, a follower and a third *)
(* that comes when the first flight has landed.                             *)
EXTENDS ImageFlight, TLC

CONSTANTS r1, r2, r3
=============================================================================
