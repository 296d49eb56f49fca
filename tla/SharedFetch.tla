----------------------------- MODULE SharedFetch -----------------------------
(***************************************************************************)
(* What the callers of GetImage rely on, for one page: whoever asks and    *)
(* whoever leaves, the page is fetched by one of them at a time and only   *)
(* while it is not cached; each caller is answered once, with the page     *)
(* when the page is there, or with an error. How the callers find each     *)
(* other - singleflight entry, calls, lane jobs - is ImageFlight's         *)
(* business.                                                               *)
(***************************************************************************)
CONSTANT Callers

VARIABLES
  cached,    \* the page is in a cache
  fetching,  \* the callers on whose behalf an upstream fetch runs
  answered   \* what each caller was told

Init ==
  /\ cached = FALSE
  /\ fetching = {}
  /\ answered = [c \in Callers |-> "none"]

StartFetch(c) ==
  /\ ~cached
  /\ fetching = {}
  /\ fetching' = {c}
  /\ UNCHANGED <<cached, answered>>

\* The page has come, or the fetch has failed and left things as they were.
EndFetch(c) ==
  /\ fetching = {c}
  /\ fetching' = {}
  /\ cached' \in {TRUE, cached}
  /\ UNCHANGED answered

Answer(c) ==
  /\ answered[c] = "none"
  /\ \/ cached /\ answered' = [answered EXCEPT ![c] = "data"]
     \/ answered' = [answered EXCEPT ![c] = "error"]
  /\ UNCHANGED <<cached, fetching>>

Next == \E c \in Callers : StartFetch(c) \/ EndFetch(c) \/ Answer(c)

Spec == Init /\ [][Next]_<<answered, cached, fetching>>

=============================================================================
