---------------------------- MODULE MCHostRequest ----------------------------
(* One plugin call under a deadline beside one page fetch of an export.       *)
EXTENDS HostRequest, TLC

CONSTANTS call, page, chrome, firefox, stdlib, ua

Rungs == <<chrome, firefox, stdlib>>

Plain == [needsJS |-> FALSE, manual |-> FALSE, cdp |-> FALSE, uas |-> <<>>]

Hints == {Plain,
          [Plain EXCEPT !.uas = <<ua>>],
          [Plain EXCEPT !.cdp = TRUE, !.needsJS = TRUE],
          [Plain EXCEPT !.cdp = TRUE, !.manual = TRUE]}
=============================================================================
