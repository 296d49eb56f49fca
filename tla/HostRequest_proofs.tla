------------------------- MODULE HostRequest_proofs -------------------------
(***************************************************************************)
(* Proofs about HostRequest: what a call may hand to its caller, and who   *)
(* may set a pin, for every number of requests, every ladder, every list   *)
(* of User-Agents and every size of the CDP lane.                          *)
(***************************************************************************)
EXTENDS HostRequest, FiniteSetTheorems, WellFoundedInduction, TLAPS

USE RequestAssumption

-----------------------------------------------------------------------------
(* Where a request is and what it has got hold of.                           *)

States == {"idle", "submit", "wait", "route", "fetch", "ladder", "walk", "store", "pinUA",
           "judge", "done"}

\* The places of a request that has no answer yet.
Asking == {"submit", "wait", "route", "fetch", "ladder", "walk"}

\* The places of a request that has won on a rung and is about to say so.
Pinning == {"store", "pinUA"}

\* The types of the variables that tell answers apart.
AnswersTyped ==
  /\ pc \in [Requests -> States]
  /\ phase \in [Requests -> {"first", "stdlib", "challenge", "waf"}]
  /\ image \in [Requests -> BOOLEAN]
  /\ result \in [Requests -> Answers \cup {None, "verify"}]
  /\ heard \in [Requests -> BOOLEAN]

\* A request without an answer holds none, and the origin has given none.
Unanswered ==
  /\ \A r \in Requests : pc[r] \notin Pinning \cup {"judge"} => result[r] = None
  /\ \A r \in Requests : pc[r] \in Asking \cup {"idle"} => ~heard[r]

\* A request that pins was answered cleanly; a page is not yet a real answer.
Won ==
  \A r \in Requests : pc[r] \in Pinning =>
    /\ result[r] \in {"ok", "page"}
    /\ result[r] = "page" => ~image[r] /\ ~heard[r]

AnswerInv == AnswersTyped /\ Unanswered /\ Won /\ NoBlockSurfaces /\ NoAnswerWasted

\* An answer lands in one of these ways: it is judged, or an image fetch takes
\* the page for a block and walks the ladder.
LEMMA Answered ==
  ASSUME AnswersTyped, NEW r \in Requests, NEW a \in Answers, Respond(r, a)
  PROVE  \/ /\ r \in Images /\ a = "page"
            /\ pc' = [pc EXCEPT ![r] = "ladder"]
            /\ result' = [result EXCEPT ![r] = None]
            /\ image' = [image EXCEPT ![r] = TRUE]
         \/ /\ r \notin Images \/ a # "page"
            /\ pc' = [pc EXCEPT ![r] = "judge"]
            /\ result' = [result EXCEPT ![r] = a]
            /\ image' = [image EXCEPT ![r] = FALSE]
BY DEF Respond, Return, Goto

\* What Send leaves of the request's history.
LEMMA Sent ==
  ASSUME AnswersTyped, NEW r \in Requests, NEW profile, NEW a, Send(r, profile, a), pc[r] \in Asking,
         AnswerInv
  PROVE  /\ a \in Answers
         /\ r \notin Images => a \notin Pages
         /\ \A q \in Requests : q # r => (heard'[q] <=> heard[q])
         /\ heard'[r] => a \in {"ok", "refusal"}
         /\ heard' \in [Requests -> BOOLEAN]
<1>1. /\ a \in Answers
      /\ r \notin Images => a \notin Pages
  BY DEF Send, AnswersTo, Answers, Pages
<1>2. heard' = [heard EXCEPT ![r] = @ \/ a \in {"ok", "refusal"}]
  BY DEF Send
<1>3. ~heard[r]
  BY DEF AnswerInv, Unanswered, Asking
<1>4. \A q \in Requests : q # r => (heard'[q] <=> heard[q])
  BY <1>2 DEF AnswersTyped
<1>5. heard'[r] => a \in {"ok", "refusal"}
  BY <1>2, <1>3 DEF AnswersTyped
<1>6. heard' \in [Requests -> BOOLEAN]
  BY <1>2 DEF AnswersTyped
<1> QED BY <1>1, <1>4, <1>5, <1>6

\* One request moves and the others keep what they have.
Moved(r, place, way, page, outcome) ==
  /\ pc' = [pc EXCEPT ![r] = place]
  /\ phase' = [phase EXCEPT ![r] = way]
  /\ image' = [image EXCEPT ![r] = page]
  /\ result' = [result EXCEPT ![r] = outcome]
  /\ heard' \in [Requests -> BOOLEAN]
  /\ \A q \in Requests : q # r => (heard'[q] <=> heard[q])

\* What the new place asks of the one that has moved.
Landed(r, place, way, page, outcome) ==
  /\ place \in States
  /\ way \in {"first", "stdlib", "challenge", "waf"}
  /\ page \in BOOLEAN
  /\ outcome \in Answers \cup {None, "verify"}
  /\ place \notin Pinning \cup {"judge"} => outcome = None
  /\ place \in Asking \cup {"idle"} \/ outcome = "verify" => ~heard'[r]
  /\ place \in Pinning => /\ outcome \in {"ok", "page"}
                          /\ outcome = "page" => ~page /\ ~heard'[r]
  /\ place = "judge" =>
       \/ outcome \notin Blocks \cup (IF r \in Images THEN {"page"} ELSE {})
       \/ way = "stdlib" /\ outcome # "page"
       \/ way = "challenge" /\ outcome \in {"waf", "wall"}

LEMMA Lands ==
  ASSUME AnswerInv, NEW r \in Requests, NEW place, NEW way, NEW page, NEW outcome,
         Moved(r, place, way, page, outcome), Landed(r, place, way, page, outcome)
  PROVE  AnswerInv'
<1>1. AnswersTyped'
  BY DEF AnswerInv, AnswersTyped, Moved, Landed
<1>2. \A q \in Requests : /\ pc'[q] = IF q = r THEN place ELSE pc[q]
                          /\ phase'[q] = IF q = r THEN way ELSE phase[q]
                          /\ result'[q] = IF q = r THEN outcome ELSE result[q]
  BY DEF AnswerInv, AnswersTyped, Moved
<1>3. \A q \in Requests : q # r => (image'[q] <=> image[q]) /\ (heard'[q] <=> heard[q])
  BY DEF AnswerInv, AnswersTyped, Moved
<1>4. image'[r] <=> page
  BY DEF AnswerInv, AnswersTyped, Moved, Landed
<1>5. Unanswered'
  BY <1>2, <1>3 DEF AnswerInv, Unanswered, Landed
<1>6. Won'
  BY <1>2, <1>3, <1>4 DEF AnswerInv, Won, Landed
<1>7. NoBlockSurfaces'
  BY <1>2 DEF AnswerInv, NoBlockSurfaces, At, Landed
<1>8. NoAnswerWasted'
  BY <1>2, <1>3 DEF AnswerInv, NoAnswerWasted, Landed
<1> QED BY <1>1, <1>5, <1>6, <1>7, <1>8 DEF AnswerInv

-----------------------------------------------------------------------------
(* The ways an answer comes back.                                            *)

\* The history of the others stays.
HeardKept(r) == heard' \in [Requests -> BOOLEAN] /\ \A q \in Requests : q # r => (heard'[q] <=> heard[q])

Ways == {"first", "stdlib", "challenge", "waf"}

\* A response is judged if it is no block, or if this way does not look.
LEMMA ResponseLands ==
  ASSUME AnswerInv, NEW r \in Requests, NEW a \in Answers, NEW way \in Ways,
         Respond(r, a), phase' = [phase EXCEPT ![r] = way],
         HeardKept(r), a = "page" => ~heard'[r], r \notin Images => a \notin Pages,
         \/ a \notin Blocks
         \/ way = "stdlib"
         \/ way = "challenge" /\ a \in {"waf", "wall"}
  PROVE  AnswerInv'
<1>0. AnswersTyped
  BY DEF AnswerInv
<1>1. CASE /\ r \in Images /\ a = "page"
           /\ pc' = [pc EXCEPT ![r] = "ladder"]
           /\ result' = [result EXCEPT ![r] = None]
           /\ image' = [image EXCEPT ![r] = TRUE]
  <2>1. Moved(r, "ladder", way, TRUE, None)
    BY <1>1 DEF Moved, HeardKept
  <2>2. Landed(r, "ladder", way, TRUE, None)
    BY <1>1 DEF Landed, States, Ways, Asking, Pinning
  <2> QED BY <2>1, <2>2, Lands
<1>2. CASE /\ r \notin Images \/ a # "page"
           /\ pc' = [pc EXCEPT ![r] = "judge"]
           /\ result' = [result EXCEPT ![r] = a]
           /\ image' = [image EXCEPT ![r] = FALSE]
  <2>1. Moved(r, "judge", way, FALSE, a)
    BY <1>2 DEF Moved, HeardKept
  <2>2. Landed(r, "judge", way, FALSE, a)
    BY <1>2 DEF Landed, States, Ways, Asking, Pinning, Answers, Pages
  <2> QED BY <2>1, <2>2, Lands
<1> QED BY <1>0, <1>1, <1>2, Answered

\* A call that gives up reports it.
LEMMA SurfaceLands ==
  ASSUME AnswerInv, NEW r \in Requests, NEW way \in Ways, Surface(r),
         phase' = [phase EXCEPT ![r] = way], HeardKept(r), ~heard'[r]
  PROVE  AnswerInv'
<1>1. Moved(r, "judge", way, FALSE, "verify")
  BY DEF Surface, Return, Goto, Moved, HeardKept
<1>2. Landed(r, "judge", way, FALSE, "verify")
  BY DEF Landed, States, Ways, Asking, Pinning, Answers, Pages, Blocks
<1> QED BY <1>1, <1>2, Lands

\* A request that goes on asking keeps its empty hands.
LEMMA GoesOn ==
  ASSUME AnswerInv, NEW r \in Requests, NEW place \in Asking, NEW way \in Ways,
         pc[r] \notin Pinning \cup {"judge"},
         Goto(r, place), phase' = [phase EXCEPT ![r] = way], UNCHANGED <<image, result>>,
         HeardKept(r), ~heard'[r]
  PROVE  AnswerInv'
<1>1. result[r] = None /\ AnswersTyped
  BY DEF AnswerInv, Unanswered
<1>2. Moved(r, place, way, image[r], None)
  BY <1>1 DEF Goto, Moved, HeardKept, AnswersTyped
<1>3. Landed(r, place, way, image[r], None)
  BY <1>1 DEF Landed, States, Ways, Asking, Pinning, AnswersTyped, NoAnswerWasted
<1> QED BY <1>2, <1>3, Lands

\* The engine, or the report that there is none.
LEMMA LastResortLands ==
  ASSUME AnswerInv, NEW r \in Requests, pc[r] \in Asking, LastResort(r), HeardKept(r), ~heard'[r]
  PROVE  AnswerInv'
<1>0. phase[r] \in Ways /\ phase = [phase EXCEPT ![r] = phase[r]]
  BY DEF AnswerInv, AnswersTyped, Ways
<1>1. CASE manifest.cdp
  BY <1>1, GoesOn DEF LastResort, Asking, Pinning, Ways
<1>2. CASE ~manifest.cdp
  BY <1>0, <1>2, SurfaceLands DEF LastResort
<1> QED BY <1>1, <1>2

\* Nobody's answer is touched.
LEMMA AnswersKept ==
  ASSUME AnswerInv, UNCHANGED <<pc, phase, image, result, heard>>
  PROVE  AnswerInv'
BY DEF AnswerInv, AnswersTyped, Unanswered, Won, NoBlockSurfaces, NoAnswerWasted, At

\* A step that sends nothing keeps the history.
LEMMA Silent ==
  ASSUME AnswerInv, NEW r \in Requests, UNCHANGED heard
  PROVE  HeardKept(r) /\ (pc[r] \in Asking \cup {"idle"} => ~heard'[r])
BY DEF AnswerInv, AnswersTyped, Unanswered, HeardKept

-----------------------------------------------------------------------------
(* The steps of a request.                                                   *)

LEMMA EnterKeeps ==
  ASSUME AnswerInv, NEW r \in Requests, Enter(r), pc[r] \in {"idle", "judge"},
         \/ UNCHANGED <<phase, image, result, heard>> /\ pc[r] = "idle"
         \/ Forget(r) /\ UNCHANGED image
  PROVE  AnswerInv'
<1>1. PICK place \in {"submit", "route"} : Goto(r, place)
  BY DEF Enter
<1>2. CASE UNCHANGED <<phase, image, result, heard>> /\ pc[r] = "idle"
  <2>1. phase[r] \in Ways /\ phase' = [phase EXCEPT ![r] = phase[r]]
    BY <1>2 DEF AnswerInv, AnswersTyped, Ways
  <2>2. HeardKept(r) /\ ~heard'[r]
    BY <1>2, Silent
  <2> QED BY <1>1, <1>2, <2>1, <2>2, GoesOn DEF Asking, Pinning
<1>3. CASE Forget(r) /\ UNCHANGED image
  <2>1. heard' = [heard EXCEPT ![r] = FALSE] /\ AnswersTyped
    BY <1>3 DEF Forget, AnswerInv
  <2>2. HeardKept(r) /\ ~heard'[r]
    BY <2>1 DEF AnswersTyped, HeardKept
  <2>3. Moved(r, place, "first", image[r], None)
    BY <1>1, <1>3, <2>1, <2>2 DEF Goto, Forget, Moved, HeardKept, AnswersTyped
  <2>4. Landed(r, place, "first", image[r], None)
    BY <2>1, <2>2 DEF Landed, States, Pinning, AnswersTyped
  <2> QED BY <2>3, <2>4, Lands
<1> QED BY <1>2, <1>3

LEMMA RouteKeeps ==
  ASSUME AnswerInv, NEW r \in Requests, RouteStdlib(r) \/ RouteTLS(r)
  PROVE  AnswerInv'
<1>0. pc[r] = "route" /\ pc[r] \in Asking
  BY DEF RouteStdlib, RouteTLS, At, Asking
<1>1. CASE RouteStdlib(r)
  <2>1. PICK a \in Answers : Send(r, Stdlib, a) /\ Respond(r, a)
    BY <1>1 DEF RouteStdlib
  <2>2. /\ r \notin Images => a \notin Pages
        /\ a = "page" => ~heard'[r]
        /\ HeardKept(r)
    BY <1>0, <2>1, Sent DEF HeardKept, AnswerInv
  <2> QED BY <1>1, <2>1, <2>2, ResponseLands DEF RouteStdlib, Ways
<1>2. CASE RouteTLS(r)
  <2>1. phase[r] \in Ways /\ phase' = [phase EXCEPT ![r] = phase[r]]
    BY <1>2 DEF AnswerInv, AnswersTyped, Ways, RouteTLS
  <2>2. HeardKept(r) /\ ~heard'[r]
    BY <1>0, <1>2, Silent DEF RouteTLS
  <2> QED BY <1>0, <1>2, <2>1, <2>2, GoesOn DEF RouteTLS, Asking, Pinning
<1> QED BY <1>1, <1>2

\* A first answer that is a block is never returned; after a retry only the
\* block that the retry does not look for.
LEMMA FetchKeeps ==
  ASSUME AnswerInv, NEW r \in Requests, Fetch(r)
  PROVE  AnswerInv'
<1>0. pc[r] = "fetch" /\ pc[r] \in Asking
  BY DEF Fetch, At, Asking
<1>1. PICK a \in Answers : /\ Send(r, Pinned, a)
                           /\ IF phase[r] = "first" THEN AfterFetch(r, a) ELSE AfterRetry(r, a)
  BY DEF Fetch
<1>2. /\ r \notin Images => a \notin Pages
      /\ heard'[r] => a \in {"ok", "refusal"}
      /\ HeardKept(r)
  BY <1>0, <1>1, Sent DEF HeardKept, AnswerInv
<1>3. phase[r] \in Ways /\ phase = [phase EXCEPT ![r] = phase[r]]
  BY DEF AnswerInv, AnswersTyped, Ways
<1>4. CASE phase[r] = "first" /\ a = "challenge"
  <2>1. ~heard'[r]
    BY <1>2, <1>4
  <2>2. CASE manifest.cdp
    <3>1. Goto(r, "submit") /\ phase' = [phase EXCEPT ![r] = "challenge"] /\ UNCHANGED <<image, result>>
      BY <1>1, <1>4, <2>2 DEF AfterFetch
    <3> QED BY <1>0, <1>2, <2>1, <3>1, GoesOn DEF Asking, Pinning, Ways
  <2>3. CASE ~manifest.cdp
    <3>1. Surface(r) /\ UNCHANGED phase
      BY <1>1, <1>4, <2>3 DEF AfterFetch
    <3> QED BY <1>2, <1>3, <2>1, <3>1, SurfaceLands
  <2> QED BY <2>2, <2>3
<1>5. CASE phase[r] = "first" /\ a = "waf"
  <2>1. Goto(r, "ladder") /\ UNCHANGED <<phase, image, result>>
    BY <1>1, <1>5 DEF AfterFetch
  <2> QED BY <1>0, <1>2, <1>3, <1>5, <2>1, GoesOn DEF Asking, Pinning
<1>6. CASE phase[r] = "first" /\ a = "wall"
  <2>1. LastResort(r)
    BY <1>1, <1>6 DEF AfterFetch
  <2> QED BY <1>0, <1>2, <1>6, <2>1, LastResortLands
<1>7. CASE phase[r] = "first" /\ a \notin Blocks
  <2>1. Respond(r, a) /\ UNCHANGED phase
    BY <1>1, <1>7 DEF AfterFetch, Blocks
  <2> QED BY <1>2, <1>3, <1>7, <2>1, ResponseLands
<1>8. CASE phase[r] # "first"
  <2>1. UNCHANGED phase /\ \/ Surface(r) /\ a \in {"error"} \cup Blocks
                           \/ /\ Respond(r, a) /\ a # "challenge"
                              /\ phase[r] = "waf" => a \notin Blocks
    BY <1>1, <1>8 DEF AfterRetry, Blocks
  <2>2. CASE Surface(r) /\ a \in {"error"} \cup Blocks
    <3>1. ~heard'[r]
      BY <1>2, <2>2 DEF Blocks
    <3> QED BY <1>2, <1>3, <2>1, <2>2, <3>1, SurfaceLands
  <2>3. CASE Respond(r, a) /\ a # "challenge" /\ (phase[r] = "waf" => a \notin Blocks)
    <3>1. a = "page" => ~heard'[r]
      BY <1>2
    <3>2. \/ a \notin Blocks
          \/ phase[r] = "stdlib"
          \/ phase[r] = "challenge" /\ a \in {"waf", "wall"}
      BY <1>3, <1>8, <2>3 DEF Ways, Blocks
    <3> QED BY <1>2, <1>3, <2>1, <2>3, <3>1, <3>2, ResponseLands
  <2> QED BY <2>1, <2>2, <2>3
<1> QED BY <1>4, <1>5, <1>6, <1>7, <1>8 DEF Blocks

\* The walk ends with an answer, a pin, the engine or a report.
LEMMA LadderKeeps ==
  ASSUME AnswerInv, NEW r \in Requests,
         StartLadder(r) \/ NextRung(r) \/ Exhausted(r) \/ Probe(r)
  PROVE  AnswerInv'
<1>0. pc[r] \in {"ladder", "walk"} /\ pc[r] \in Asking /\ AnswersTyped
  BY DEF StartLadder, NextRung, Exhausted, Probe, At, Asking, AnswerInv
<1>1. phase[r] \in Ways /\ phase = [phase EXCEPT ![r] = phase[r]]
  BY <1>0 DEF AnswersTyped, Ways
<1>2. CASE StartLadder(r)
  <2>1. HeardKept(r) /\ ~heard'[r]
    BY <1>0, <1>2, Silent DEF StartLadder
  <2> QED BY <1>0, <1>1, <1>2, <2>1, GoesOn DEF StartLadder, Asking, Pinning
<1>3. CASE NextRung(r)
  BY <1>3, AnswersKept DEF NextRung, requestVars
<1>4. CASE Exhausted(r)
  <2>1. HeardKept(r) /\ ~heard'[r]
    BY <1>0, <1>4, Silent DEF Exhausted
  <2>2. (Surface(r) /\ UNCHANGED phase) \/ LastResort(r)
    BY <1>4 DEF Exhausted
  <2>3. CASE Surface(r) /\ UNCHANGED phase
    BY <1>1, <2>1, <2>3, SurfaceLands
  <2>4. CASE LastResort(r)
    BY <1>0, <2>1, <2>4, LastResortLands
  <2> QED BY <2>2, <2>3, <2>4
<1>5. CASE Probe(r)
  <2>1. PICK i \in walk[r], a \in Answers : Send(r, Ladder[rung[r]], a) /\ AfterProbe(r, i, a)
    BY <1>5 DEF Probe
  <2>2. /\ r \notin Images => a \notin Pages
        /\ heard'[r] => a \in {"ok", "refusal"}
        /\ HeardKept(r)
    BY <1>0, <2>1, Sent DEF HeardKept
  <2>3. UNCHANGED phase /\ pc[r] = "walk"
    BY <1>5 DEF Probe, At
  <2>4. CASE NextProbe(r, i) /\ (a = "error" \/ Blocked(r, a))
    <3>1. ~heard'[r]
      BY <2>2, <2>4 DEF Blocked, Blocks, Pages
    <3>2. Goto(r, "walk") /\ UNCHANGED <<image, result>>
      BY <1>0, <2>3, <2>4 DEF NextProbe, Goto, AnswersTyped
    <3> QED BY <1>0, <1>1, <2>2, <2>3, <3>1, <3>2, GoesOn DEF Asking, Pinning
  <2>5. CASE Return(r, a) /\ a \in {"refusal", "errorpage"}
    <3>1. Moved(r, "judge", phase[r], FALSE, a)
      BY <1>1, <2>2, <2>3, <2>5 DEF Return, Goto, Moved, HeardKept
    <3>2. Landed(r, "judge", phase[r], FALSE, a)
      BY <1>1, <2>5 DEF Landed, States, Ways, Asking, Pinning, Answers, Blocks
    <3> QED BY <3>1, <3>2, Lands
  <2>6. CASE PinProfile(r, a) /\ a # "error" /\ ~Blocked(r, a) /\ a \notin {"refusal", "errorpage"}
    <3>1. a \in {"ok", "page"} /\ (a = "page" => ~image[r] /\ ~heard'[r])
      BY <2>2, <2>6 DEF Blocked, Blocks, Pages, Answers
    <3>2. Moved(r, "store", phase[r], image[r], a)
      BY <1>0, <1>1, <2>2, <2>3, <2>6 DEF PinProfile, Goto, Moved, HeardKept, AnswersTyped
    <3>3. Landed(r, "store", phase[r], image[r], a)
      BY <1>0, <1>1, <3>1 DEF Landed, States, Ways, Asking, Pinning, Answers, AnswersTyped
    <3> QED BY <3>2, <3>3, Lands
  <2> QED BY <2>1, <2>4, <2>5, <2>6 DEF AfterProbe
<1> QED BY <1>2, <1>3, <1>4, <1>5

\* The answer waits for the pins to be written and is given then.
LEMMA PinKeeps ==
  ASSUME AnswerInv, NEW r \in Requests, StorePin(r) \/ PinUA(r)
  PROVE  AnswerInv'
<1>0. pc[r] \in Pinning /\ AnswersTyped /\ UNCHANGED <<phase, heard>>
  BY DEF StorePin, PinUA, At, Pinning, AnswerInv
<1>1. phase[r] \in Ways /\ phase' = [phase EXCEPT ![r] = phase[r]]
  BY <1>0 DEF AnswersTyped, Ways
<1>2. /\ result[r] \in {"ok", "page"}
      /\ result[r] = "page" => ~image[r] /\ ~heard'[r]
  BY <1>0 DEF AnswerInv, Won
<1>3. HeardKept(r)
  BY <1>0, Silent
<1>4. CASE Goto(r, "pinUA") /\ UNCHANGED <<result, image>>
  <2>1. Moved(r, "pinUA", phase[r], image[r], result[r])
    BY <1>0, <1>1, <1>3, <1>4 DEF Goto, Moved, HeardKept, AnswersTyped
  <2>2. Landed(r, "pinUA", phase[r], image[r], result[r])
    BY <1>0, <1>1, <1>2 DEF Landed, States, Ways, Asking, Pinning, Answers, AnswersTyped
  <2> QED BY <2>1, <2>2, Lands
<1>5. CASE Respond(r, result[r])
  <2>1. PICK a \in Answers : a = result[r]
    BY <1>2 DEF Answers
  <2>2. CASE a = "ok" \/ r \in Images
    <3>1. /\ Respond(r, a) /\ a \notin Blocks
          /\ a = "page" => ~heard'[r]
          /\ r \notin Images => a \notin Pages
      BY <1>2, <1>5, <2>1, <2>2 DEF Blocks, Pages
    <3> QED BY <1>1, <1>3, <3>1, ResponseLands
  <2>3. CASE a = "page" /\ r \notin Images
    <3>1. Moved(r, "judge", phase[r], FALSE, a)
      BY <1>1, <1>3, <1>5, <2>1, <2>3 DEF Respond, Return, Goto, Moved, HeardKept
    <3>2. Landed(r, "judge", phase[r], FALSE, a)
      BY <1>1, <1>2, <2>3 DEF Landed, States, Ways, Asking, Pinning, Answers, Blocks
    <3> QED BY <3>1, <3>2, Lands
  <2> QED BY <1>2, <2>1, <2>2, <2>3
<1> QED BY <1>4, <1>5 DEF StorePin, PinUA

\* A solve that fails before the first request is ignored, later it is reported.
LEMMA SolveKeeps ==
  ASSUME AnswerInv, NEW r \in Requests, Submit(r) \/ SolveEnds(r) \/ SolveAbandoned(r)
  PROVE  AnswerInv'
<1>0. pc[r] \in {"submit", "wait"} /\ UNCHANGED <<phase, heard>>
  BY DEF Submit, SolveEnds, SolveAbandoned, At
<1>1. phase[r] \in Ways /\ phase' = [phase EXCEPT ![r] = phase[r]]
  BY <1>0 DEF AnswerInv, AnswersTyped, Ways
<1>2. HeardKept(r) /\ ~heard'[r] /\ pc[r] \notin Pinning \cup {"judge"}
  BY <1>0, Silent DEF Asking, Pinning
<1>3. CASE SolveFailed(r)
  BY <1>1, <1>2, <1>3, GoesOn, SurfaceLands DEF SolveFailed, Asking
<1>4. ASSUME NEW place \in {"wait", "route", "fetch"}, Goto(r, place), UNCHANGED <<image, result>>
      PROVE  AnswerInv'
  BY <1>1, <1>2, <1>4, GoesOn DEF Asking
<1>5. CASE Submit(r)
  BY <1>3, <1>4, <1>5 DEF Submit
<1>6. CASE SolveEnds(r)
  BY <1>3, <1>4, <1>6 DEF SolveEnds
<1>7. CASE SolveAbandoned(r)
  BY <1>3, <1>7 DEF SolveAbandoned
<1> QED BY <1>5, <1>6, <1>7

LEMMA CallEndsKeeps ==
  ASSUME AnswerInv, NEW r \in Requests, CallEnds(r)
  PROVE  AnswerInv'
<1>1. heard' = [heard EXCEPT ![r] = FALSE] /\ AnswersTyped /\ UNCHANGED image
  BY DEF CallEnds, Forget, AnswerInv
<1>2. HeardKept(r) /\ ~heard'[r]
  BY <1>1 DEF AnswersTyped, HeardKept
<1>3. Moved(r, "done", "first", image[r], None)
  BY <1>1, <1>2 DEF CallEnds, Goto, Forget, Moved, HeardKept, AnswersTyped
<1>4. Landed(r, "done", "first", image[r], None)
  BY <1>1, <1>2 DEF Landed, States, Asking, Pinning, AnswersTyped
<1> QED BY <1>3, <1>4, Lands

LEMMA InitAnswers == Init => AnswerInv
BY DEF Init, AnswerInv, AnswersTyped, Unanswered, Won, NoBlockSurfaces, NoAnswerWasted, At, States,
       Pinning

LEMMA NextAnswers == AnswerInv /\ [Next]_vars => AnswerInv'
<1> SUFFICES ASSUME AnswerInv, [Next]_vars PROVE AnswerInv'
  OBVIOUS
<1> USE DEF requestVars
<1>1. ASSUME NEW r \in Requests, Arrive(r) PROVE AnswerInv'
  BY <1>1, EnterKeeps DEF Arrive, At
<1>2. ASSUME NEW r \in Requests, Request(r) PROVE AnswerInv'
  <2>1. CASE TryAgain(r)
    BY <2>1, EnterKeeps DEF TryAgain, At
  <2> QED BY <1>2, <2>1, RouteKeeps, FetchKeeps, LadderKeeps, PinKeeps, SolveKeeps, CallEndsKeeps
          DEF Request
<1>3. ASSUME NEW r \in Requests, Lane(r) \/ CtxEnds(r) PROVE AnswerInv'
  BY <1>3, AnswersKept DEF Lane, LaneTakes, SolverReturns, CtxEnds
<1>4. CASE ResetProfile \/ PasteCookies \/ UNCHANGED vars
  BY <1>4, AnswersKept DEF ResetProfile, PasteCookies, vars
<1> QED BY <1>1, <1>2, <1>3, <1>4 DEF Next

-----------------------------------------------------------------------------
(* The walk of a ladder. What another request or a reset does to the pins     *)
(* moves no place of a walk: a rung is passed once, a User-Agent that was     *)
(* probed is in seenUA, and the counters say how much of either is behind.    *)

OnLadder == {"walk"} \cup Pinning

\* The User-Agents of the plugin's list.
Declared == {manifest.uas[i] : i \in DOMAIN manifest.uas}

\* The rungs that are behind, or under the walk, but for the one it skips.
Passed(r) == {i \in 1..rung[r] : Ladder[i] # tried[r]}

\* The types of the walk's variables and of what they are filled from.
WalkTyped ==
  /\ tried \in [Requests -> Profiles \cup {None}]
  /\ rung \in [Requests -> 0..Len(Ladder)]
  /\ seenUA \in [Requests -> SUBSET UserAgents]
  /\ walk \in [Requests -> SUBSET Nat]
  /\ probes \in [Requests -> Nat]

SourcesTyped ==
  /\ manifest \in Manifests
  /\ pin \in Profiles \cup {None}
  /\ uaPin \in Declared \cup {None}

\* With a list: what is left to probe was not probed, and every probe has left
\* its User-Agent in seenUA.
ListWalked(r) ==
  /\ walk[r] \subseteq DOMAIN manifest.uas
  /\ seenUA[r] \subseteq Declared
  /\ \A i \in walk[r] : manifest.uas[i] \notin seenUA[r]
  /\ probes[r] <= Cardinality(seenUA[r])

\* Without one: every rung that was passed was probed once, or is about to be.
RungsWalked(r) ==
  /\ walk[r] \subseteq {0}
  /\ probes[r] = Cardinality(Passed(r)) - IF walk[r] = {} THEN 0 ELSE 1

Walking(r) ==
  /\ tried[r] \in Profiles
  /\ walk[r] # {} => rung[r] \in DOMAIN Ladder
  /\ pc[r] \in Pinning => walk[r] # {}
  /\ pc[r] = "pinUA" => Listed
  /\ Listed => ListWalked(r)
  /\ ~Listed => RungsWalked(r)

Resting(r) == rung[r] = 0 /\ walk[r] = {} /\ probes[r] = 0

WalkInv ==
  /\ WalkTyped
  /\ SourcesTyped
  /\ \A r \in Requests : IF pc[r] \in OnLadder THEN Walking(r) ELSE Resting(r)

\* A sequence's places are numbered from one.
LEMMA SequenceFacts ==
  ASSUME NEW S, NEW s \in Seq(S)
  PROVE  /\ DOMAIN s = 1..Len(s) /\ Len(s) \in Nat
         /\ \A i \in DOMAIN s : i \in Nat \ {0} /\ s[i] \in S
         /\ s # <<>> => 1 \in DOMAIN s
OBVIOUS

\* What is in a sequence is finitely much.
LEMMA SequenceRange ==
  ASSUME NEW S, NEW s \in Seq(S)
  PROVE  IsFiniteSet(DOMAIN s) /\ IsFiniteSet({s[i] : i \in DOMAIN s})
<1> DEFINE T == {s[i] : i \in DOMAIN s}
           f == [i \in DOMAIN s |-> s[i]]
<1>1. IsFiniteSet(DOMAIN s)
  BY SequenceFacts, FS_Interval
<1>2. f \in Surjection(DOMAIN s, T)
  BY DEF Surjection
<1> QED BY <1>1, <1>2, FS_Surjection

\* A list's places and entries.
LEMMA Lists ==
  ASSUME SourcesTyped
  PROVE  /\ manifest.uas \in Seq(UserAgents)
         /\ \A i \in DOMAIN manifest.uas : i \in Nat \ {0} /\ manifest.uas[i] \in UserAgents
         /\ Declared \subseteq UserAgents
         /\ Listed => 1 \in DOMAIN manifest.uas
         /\ IsFiniteSet(Declared)
<1>1. manifest.uas \in Seq(UserAgents)
  BY DEF SourcesTyped
<1>2. /\ DOMAIN manifest.uas = 1..Len(manifest.uas) /\ Len(manifest.uas) \in Nat
      /\ \A i \in DOMAIN manifest.uas : i \in Nat \ {0} /\ manifest.uas[i] \in UserAgents
      /\ Listed => 1 \in DOMAIN manifest.uas
  BY <1>1, SequenceFacts DEF Listed
<1>3. IsFiniteSet(Declared)
  BY <1>1, <1>2, SequenceRange DEF Declared
<1> QED BY <1>1, <1>2, <1>3 DEF Declared

LEMMA Rungs ==
  /\ DOMAIN Ladder = 1..Len(Ladder) /\ Len(Ladder) \in Nat
  /\ \A i \in DOMAIN Ladder : Ladder[i] \in Profiles
  /\ IsFiniteSet(Profiles)
<1>1. Ladder \in Seq(Profiles)
  OBVIOUS
<1> QED BY <1>1, SequenceFacts, SequenceRange DEF Profiles

\* As many rungs as profiles, but for one of them.
LEMMA RungsAreProfiles ==
  ASSUME NEW p \in Profiles
  PROVE  /\ IsFiniteSet({i \in DOMAIN Ladder : Ladder[i] # p})
         /\ Cardinality({i \in DOMAIN Ladder : Ladder[i] # p}) = Cardinality(Profiles \ {p})
         /\ Cardinality(Profiles \ {p}) = Cardinality(Profiles) - 1
         /\ Cardinality(Profiles) \in Nat
<1> DEFINE Others == {i \in DOMAIN Ladder : Ladder[i] # p}
           f == [i \in Others |-> Ladder[i]]
<1>1. IsFiniteSet(Others)
  <2>1. IsFiniteSet(DOMAIN Ladder)
    BY Rungs, FS_Interval
  <2> QED BY <2>1, FS_Subset
<1>2. f \in Bijection(Others, Profiles \ {p})
  <2>1. f \in [Others -> Profiles \ {p}]
    BY Rungs
  <2>2. \A i, k \in Others : f[i] = f[k] => i = k
    OBVIOUS
  <2>3. \A q \in Profiles \ {p} : \E i \in Others : f[i] = q
    BY DEF Profiles
  <2> HIDE DEF f, Others
  <2> QED BY <2>1, <2>2, <2>3 DEF Bijection, Injection, Surjection, IsInjective
<1>3. Cardinality(Profiles \ {p}) = Cardinality(Profiles) - 1
  BY Rungs, FS_RemoveElement
<1> QED BY <1>1, <1>2, <1>3, Rungs, FS_Bijection, FS_CardinalityType DEF ExistsBijection

\* The walk of a request that does not move.
LEMMA WalkStays ==
  ASSUME WalkInv, NEW q \in Requests, UNCHANGED manifest, pc'[q] = pc[q],
         tried'[q] = tried[q], rung'[q] = rung[q], seenUA'[q] = seenUA[q], walk'[q] = walk[q],
         probes'[q] = probes[q]
  PROVE  IF pc'[q] \in OnLadder THEN Walking(q)' ELSE Resting(q)'
<1>1. Passed(q)' = Passed(q) /\ Listed' = Listed /\ Declared' = Declared
  BY DEF Passed, Listed, Declared
<1> QED BY <1>1 DEF WalkInv, Walking, Resting, ListWalked, RungsWalked

\* One walk moves, the others stay.
WalksAlone(r) ==
  /\ UNCHANGED manifest
  /\ \A q \in Requests : q # r =>
       /\ pc'[q] = pc[q] /\ tried'[q] = tried[q] /\ rung'[q] = rung[q]
       /\ seenUA'[q] = seenUA[q] /\ walk'[q] = walk[q] /\ probes'[q] = probes[q]

LEMMA WalkMoves ==
  ASSUME WalkInv, NEW r \in Requests, WalkTyped', SourcesTyped', WalksAlone(r),
         IF pc'[r] \in OnLadder THEN Walking(r)' ELSE Resting(r)'
  PROVE  WalkInv'
BY WalkStays DEF WalksAlone, WalkInv

\* A step far from the ladder.
LEMMA WalksKept ==
  ASSUME AnswersTyped, WalkInv, SourcesTyped', UNCHANGED <<manifest, walkVars>>,
         \A q \in Requests : pc'[q] = pc[q] \/ (pc[q] \notin OnLadder /\ pc'[q] \notin OnLadder)
  PROVE  WalkInv'
<1>1. WalkTyped'
  BY DEF WalkInv, WalkTyped, walkVars
<1>2. ASSUME NEW q \in Requests PROVE IF pc'[q] \in OnLadder THEN Walking(q)' ELSE Resting(q)'
  <2>1. CASE pc'[q] = pc[q]
    BY <2>1, WalkStays DEF walkVars
  <2>2. CASE pc[q] \notin OnLadder /\ pc'[q] \notin OnLadder
    BY <2>2 DEF WalkInv, Resting, walkVars
  <2> QED BY <2>1, <2>2
<1> QED BY <1>1, <1>2 DEF WalkInv

LEMMA SourcesKept ==
  ASSUME SourcesTyped, UNCHANGED manifest, pin' \in Profiles \cup {None}, uaPin' \in Declared \cup {None}
  PROVE  SourcesTyped'
BY DEF SourcesTyped, Declared

\* Everybody returns to the same place: nothing tried, nothing left.
LEMMA WalkLeft ==
  ASSUME AnswersTyped, WalkInv, NEW r \in Requests, LeaveLadder(r), SourcesTyped', UNCHANGED manifest,
         NEW place, place \notin OnLadder, Goto(r, place)
  PROVE  WalkInv'
<1>1. WalkTyped'
  BY DEF WalkInv, WalkTyped, LeaveLadder
<1>2. WalksAlone(r) /\ pc'[r] \notin OnLadder /\ Resting(r)'
  BY DEF WalkInv, WalkTyped, AnswersTyped, LeaveLadder, Goto, WalksAlone, Resting
<1> QED BY <1>1, <1>2, WalkMoves

LEMMA OffTheLadder ==
  ASSUME AnswersTyped, WalkInv, NEW r \in Requests,
         \/ Arrive(r) \/ RouteStdlib(r) \/ RouteTLS(r) \/ Fetch(r)
         \/ Submit(r) \/ SolveEnds(r) \/ SolveAbandoned(r) \/ CallEnds(r) \/ TryAgain(r)
  PROVE  WalkInv'
<1>1. UNCHANGED <<manifest, pin, uaPin, walkVars>>
  BY DEF Arrive, RouteStdlib, RouteTLS, Fetch, Submit, SolveEnds, SolveAbandoned, CallEnds, TryAgain,
         proxyVars
<1>2. pc[r] \notin OnLadder
  BY DEF Arrive, RouteStdlib, RouteTLS, Fetch, Submit, SolveEnds, SolveAbandoned, CallEnds, TryAgain,
         At, OnLadder, Pinning
<1>3. \E place : place \notin OnLadder /\ Goto(r, place)
  <2> DEFINE Off == \E place : place \notin OnLadder /\ Goto(r, place)
  <2>1. ASSUME NEW a, Respond(r, a) PROVE Off
    BY <2>1 DEF Respond, Return, OnLadder, Pinning
  <2>2. Surface(r) => Off
    BY DEF Surface, Return, OnLadder, Pinning
  <2>3. LastResort(r) => Off
    BY <2>2 DEF LastResort, OnLadder, Pinning
  <2>4. SolveFailed(r) => Off
    BY <2>2 DEF SolveFailed, OnLadder, Pinning
  <2>5. Enter(r) => Off
    BY DEF Enter, OnLadder, Pinning
  <2>6. CASE Fetch(r)
    <3>1. PICK a \in Answers : AfterFetch(r, a) \/ AfterRetry(r, a)
      BY <2>6 DEF Fetch
    <3>2. AfterFetch(r, a) => Off
      BY <2>1, <2>2, <2>3 DEF AfterFetch, OnLadder, Pinning
    <3>3. AfterRetry(r, a) => Off
      BY <2>1, <2>2 DEF AfterRetry
    <3> QED BY <3>1, <3>2, <3>3
  <2>7. CASE Arrive(r) \/ TryAgain(r)
    BY <2>5, <2>7 DEF Arrive, TryAgain
  <2>8. CASE RouteStdlib(r) \/ RouteTLS(r) \/ CallEnds(r)
    BY <2>1, <2>8 DEF RouteStdlib, RouteTLS, CallEnds, OnLadder, Pinning
  <2>9. CASE Submit(r) \/ SolveEnds(r) \/ SolveAbandoned(r)
    BY <2>4, <2>9 DEF Submit, SolveEnds, SolveAbandoned, OnLadder, Pinning
  <2> QED BY <2>6, <2>7, <2>8, <2>9
<1>4. \A q \in Requests : pc'[q] = pc[q] \/ (pc[q] \notin OnLadder /\ pc'[q] \notin OnLadder)
  BY <1>2, <1>3 DEF Goto, AnswersTyped
<1>5. SourcesTyped'
  BY <1>1, SourcesKept DEF WalkInv, SourcesTyped
<1> QED BY <1>1, <1>4, <1>5, WalksKept

LEMMA PassedFinite ==
  ASSUME WalkTyped, NEW r \in Requests
  PROVE  IsFiniteSet(Passed(r)) /\ Cardinality(Passed(r)) \in Nat
<1>1. rung[r] \in Int /\ IsFiniteSet(1..rung[r])
  <2>1. rung[r] \in Int
    BY Rungs DEF WalkTyped
  <2> QED BY <2>1, FS_Interval
<1>2. IsFiniteSet(Passed(r))
  BY <1>1, FS_Subset DEF Passed
<1> QED BY <1>2, FS_CardinalityType

\* The walk begins behind the profile and the User-Agent that are pinned now.
LEMMA WalkStarts ==
  ASSUME AnswersTyped, WalkInv, NEW r \in Requests, StartLadder(r)
  PROVE  WalkInv'
<1>1. /\ Resting(r) /\ pc'[r] = "walk"
      /\ \A q \in Requests : q # r => pc'[q] = pc[q]
      /\ UNCHANGED <<manifest, pin, uaPin, rung, walk, probes>>
  BY DEF StartLadder, At, Goto, WalkInv, AnswersTyped, OnLadder, Pinning, proxyVars
<1>2. /\ tried' = [tried EXCEPT ![r] = IF pin = None THEN Default ELSE pin]
      /\ seenUA' = [seenUA EXCEPT ![r] = {uaPin} \ {None}]
  BY DEF StartLadder
<1>3. /\ (IF pin = None THEN Default ELSE pin) \in Profiles
      /\ {uaPin} \ {None} \subseteq Declared /\ Declared \subseteq UserAgents
  BY Lists DEF WalkInv, SourcesTyped
<1>4. SourcesTyped' /\ Declared' = Declared
  BY <1>1, SourcesKept DEF WalkInv, SourcesTyped, Declared
<1>5. WalkTyped' /\ WalksAlone(r)
  BY <1>1, <1>2, <1>3 DEF WalkInv, WalkTyped, WalksAlone
<1>6. tried'[r] \in Profiles /\ seenUA'[r] \subseteq Declared /\ IsFiniteSet(seenUA'[r])
  BY <1>2, <1>3, Lists, FS_Subset DEF WalkInv, WalkTyped
<1>7. rung'[r] = 0 /\ walk'[r] = {} /\ probes'[r] = 0
  BY <1>1 DEF Resting
<1>8. ListWalked(r)'
  BY <1>4, <1>6, <1>7, FS_CardinalityType DEF ListWalked
<1>9. RungsWalked(r)'
  BY <1>7, FS_EmptySet DEF RungsWalked, Passed
<1> QED BY <1>1, <1>4, <1>5, <1>6, <1>7, <1>8, <1>9, WalkMoves DEF Walking, OnLadder, Pinning

\* The next rung is the first one that is left: none is passed unprobed.
LEMMA WalkClimbs ==
  ASSUME AnswersTyped, WalkInv, NEW r \in Requests, NextRung(r)
  PROVE  WalkInv'
<1>1. PICK i \in Unseen(r) : IsFirst(i, Unseen(r)) /\ rung' = [rung EXCEPT ![r] = i]
  BY DEF NextRung
<1>2. /\ Walking(r) /\ walk[r] = {} /\ pc[r] = "walk" /\ pc' = pc
      /\ UNCHANGED <<manifest, pin, uaPin, tried, seenUA, probes>>
      /\ walk' = [walk EXCEPT ![r] = IF Listed THEN Unprobed(r) ELSE {0}]
  BY DEF NextRung, At, WalkInv, OnLadder, proxyVars, requestVars
<1>3. i \in DOMAIN Ladder /\ i \in 1..Len(Ladder) /\ i > rung[r] /\ Ladder[i] # tried[r] /\ rung[r] \in Nat
  BY <1>1, Rungs DEF Unseen, WalkInv, WalkTyped
<1>4. Listed => Unprobed(r) \subseteq DOMAIN manifest.uas /\ Unprobed(r) \subseteq Nat
  BY Lists DEF Unprobed, Candidates, WalkInv
<1>5. SourcesTyped' /\ Declared' = Declared /\ (Listed' <=> Listed)
  BY <1>2, SourcesKept DEF WalkInv, SourcesTyped, Declared, Listed
<1>6. WalkTyped' /\ WalksAlone(r)
  BY <1>1, <1>2, <1>3, <1>4 DEF WalkInv, WalkTyped, WalksAlone
<1>7. rung'[r] = i /\ walk'[r] = IF Listed THEN Unprobed(r) ELSE {0}
  BY <1>1, <1>2 DEF WalkInv, WalkTyped
<1>8. Listed => ListWalked(r)'
  BY <1>2, <1>4, <1>5, <1>7 DEF Walking, ListWalked, Unprobed
<1>9. Passed(r)' = Passed(r) \cup {i} /\ i \notin Passed(r)
  <2>1. Passed(r)' = {k \in 1..i : Ladder[k] # tried[r]}
    BY <1>2, <1>7 DEF Passed
  <2>2. ASSUME NEW k \in 1..i, k # i, Ladder[k] # tried[r] PROVE k \in 1..rung[r]
    BY <1>1, <1>3, <2>2, Rungs DEF IsFirst, Unseen
  <2> QED BY <1>3, <2>1, <2>2 DEF Passed
<1>10. ~Listed => RungsWalked(r)'
  <2>1. IsFiniteSet(Passed(r)) /\ Cardinality(Passed(r)) \in Nat
    BY PassedFinite DEF WalkInv
  <2>2. Cardinality(Passed(r)') = Cardinality(Passed(r)) + 1
    <3>1. Cardinality(Passed(r) \cup {i}) = Cardinality(Passed(r)) + 1
      BY <1>9, <2>1, FS_AddElement
    <3> QED BY <1>9, <3>1
  <2> SUFFICES ASSUME ~Listed PROVE RungsWalked(r)'
    OBVIOUS
  <2>3. walk'[r] = {0} /\ probes'[r] = probes[r]
    BY <1>2, <1>7
  <2>4. probes[r] = Cardinality(Passed(r))
    <3>1. probes[r] = Cardinality(Passed(r)) - 0
      BY <1>2 DEF Walking, RungsWalked
    <3> QED BY <2>1, <3>1
  <2>5. probes'[r] = Cardinality(Passed(r)') - 1
    BY <2>1, <2>2, <2>3, <2>4
  <2> QED BY <2>3, <2>5 DEF RungsWalked
<1> QED BY <1>2, <1>3, <1>5, <1>6, <1>7, <1>8, <1>10, WalkMoves DEF Walking, OnLadder, Pinning

\* A probe that does not end the walk leaves its User-Agent, or its rung, behind.
LEMMA WalkProbes ==
  ASSUME AnswersTyped, WalkInv, NEW r \in Requests, pc[r] = "walk", NEW i \in walk[r], NextProbe(r, i),
         UNCHANGED <<manifest, uaPin>>
  PROVE  WalkInv'
<1>1. /\ Walking(r) /\ UNCHANGED <<pc, pin, tried, rung>>
      /\ walk' = [walk EXCEPT ![r] = {k \in @ : Entry(k) # Entry(i)}]
      /\ seenUA' = [seenUA EXCEPT ![r] = IF Listed THEN @ \cup {Entry(i)} ELSE @]
      /\ probes' = [probes EXCEPT ![r] = @ + 1]
  BY DEF NextProbe, WalkInv, OnLadder
<1>2. /\ walk'[r] = {k \in walk[r] : Entry(k) # Entry(i)}
      /\ seenUA'[r] = IF Listed THEN seenUA[r] \cup {Entry(i)} ELSE seenUA[r]
      /\ probes'[r] = probes[r] + 1 /\ probes[r] \in Nat
  BY <1>1 DEF WalkInv, WalkTyped
<1>3. Listed => /\ \A k \in walk[r] : k # 0 /\ Entry(k) = manifest.uas[k] /\ manifest.uas[k] \in Declared
                /\ Declared \subseteq UserAgents
  <2>1. Declared \subseteq UserAgents /\ \A k \in DOMAIN manifest.uas : k # 0
    BY Lists DEF WalkInv
  <2>2. Listed => walk[r] \subseteq DOMAIN manifest.uas
    BY <1>1 DEF Walking, ListWalked
  <2> QED BY <2>1, <2>2 DEF Entry, Declared
<1>4. SourcesTyped' /\ Declared' = Declared /\ (Listed' <=> Listed)
  BY <1>1, SourcesKept DEF WalkInv, SourcesTyped, Declared, Listed
<1>5. WalkTyped' /\ WalksAlone(r)
  <2>1. Listed => Entry(i) \in UserAgents
    BY <1>3
  <2>2. seenUA' \in [Requests -> SUBSET UserAgents]
    BY <1>1, <2>1 DEF WalkInv, WalkTyped
  <2>3. walk' \in [Requests -> SUBSET Nat]
    BY <1>1 DEF WalkInv, WalkTyped
  <2>4. probes' \in [Requests -> Nat]
    BY <1>1 DEF WalkInv, WalkTyped
  <2>5. WalksAlone(r)
    BY <1>1 DEF WalkInv, WalkTyped, WalksAlone
  <2> QED BY <1>1, <2>2, <2>3, <2>4, <2>5 DEF WalkInv, WalkTyped
<1>6. Listed => ListWalked(r)'
  <2> SUFFICES ASSUME Listed PROVE ListWalked(r)'
    OBVIOUS
  <2>1. seenUA[r] \subseteq Declared /\ IsFiniteSet(seenUA[r])
    <3>1. seenUA[r] \subseteq Declared /\ IsFiniteSet(Declared)
      BY <1>1, Lists DEF Walking, ListWalked, WalkInv
    <3> QED BY <3>1, FS_Subset
  <2>2. Entry(i) \notin seenUA[r]
    BY <1>1, <1>3 DEF Walking, ListWalked
  <2>6. seenUA'[r] = seenUA[r] \cup {Entry(i)}
    BY <1>2
  <2>3. Cardinality(seenUA'[r]) = Cardinality(seenUA[r]) + 1 /\ Cardinality(seenUA[r]) \in Nat
    BY <2>1, <2>2, <2>6, FS_AddElement, FS_CardinalityType
  <2>4. probes'[r] <= Cardinality(seenUA'[r])
    BY <1>1, <1>2, <2>3 DEF Walking, ListWalked
  <2>5. /\ walk'[r] \subseteq DOMAIN manifest.uas /\ seenUA'[r] \subseteq Declared
        /\ \A k \in walk'[r] : manifest.uas[k] \notin seenUA'[r]
    BY <1>1, <1>2, <1>3 DEF Walking, ListWalked
  <2> QED BY <1>1, <1>4, <2>4, <2>5 DEF ListWalked
<1>7. ~Listed => RungsWalked(r)'
  <2>1. ~Listed => walk[r] = {0} /\ walk'[r] = {}
    BY <1>1, <1>2 DEF Walking, RungsWalked
  <2>2. Passed(r)' = Passed(r) /\ Cardinality(Passed(r)) \in Nat
    BY <1>1, PassedFinite DEF Passed, WalkInv
  <2>3. ~Listed => probes[r] = Cardinality(Passed(r)) - 1
    BY <1>1, <2>1 DEF Walking, RungsWalked
  <2> QED BY <1>2, <2>1, <2>2, <2>3 DEF RungsWalked
<1>8. tried'[r] \in Profiles /\ (walk'[r] # {} => rung'[r] \in DOMAIN Ladder) /\ pc'[r] = "walk"
  BY <1>1, <1>2 DEF Walking
<1> QED BY <1>1, <1>4, <1>5, <1>6, <1>7, <1>8, WalkMoves DEF Walking, OnLadder, Pinning

\* A clean answer leaves the walk where it is, for the pins to be written.
LEMMA WalkWins ==
  ASSUME AnswersTyped, WalkInv, NEW r \in Requests, pc[r] = "walk", NEW a, walk[r] # {}, PinProfile(r, a),
         UNCHANGED <<manifest, uaPin>>
  PROVE  WalkInv'
<1>1. Walking(r) /\ UNCHANGED walkVars /\ pc' = [pc EXCEPT ![r] = "store"] /\ pin' = Ladder[rung[r]]
  BY DEF WalkInv, OnLadder, PinProfile, Goto
<1>2. SourcesTyped'
  <2>1. pin' \in Profiles
    BY <1>1, Rungs DEF Walking
  <2> QED BY <2>1, SourcesKept DEF WalkInv, SourcesTyped
<1>3. WalkTyped' /\ WalksAlone(r)
  BY <1>1 DEF WalkInv, WalkTyped, WalksAlone, AnswersTyped, walkVars
<1>4. Passed(r)' = Passed(r) /\ Declared' = Declared /\ (Listed' <=> Listed) /\ manifest'.uas = manifest.uas
  BY <1>1 DEF Passed, Declared, Listed, walkVars
<1>5. Walking(r)' /\ pc'[r] = "store"
  BY <1>1, <1>4 DEF Walking, ListWalked, RungsWalked, AnswersTyped, Pinning, walkVars
<1> QED BY <1>2, <1>3, <1>5, WalkMoves DEF OnLadder, Pinning

\* A probe, whatever it is answered.
LEMMA ProbeWalks ==
  ASSUME AnswersTyped, WalkInv, NEW r \in Requests, Probe(r)
  PROVE  WalkInv'
<1>1. PICK i \in walk[r], a \in Answers : AfterProbe(r, i, a)
  BY DEF Probe
<1>2. pc[r] = "walk" /\ UNCHANGED <<manifest, uaPin>>
  BY DEF Probe, At
<1>3. CASE NextProbe(r, i)
  BY <1>2, <1>3, WalkProbes
<1>4. CASE Return(r, a) /\ LeaveLadder(r) /\ UNCHANGED pin
  <2>1. SourcesTyped'
    BY <1>2, <1>4, SourcesKept DEF WalkInv, SourcesTyped
  <2>2. "judge" \notin OnLadder /\ Goto(r, "judge")
    BY <1>4 DEF Return, OnLadder, Pinning
  <2> QED BY <1>2, <1>4, <2>1, <2>2, WalkLeft
<1>5. CASE PinProfile(r, a)
  BY <1>2, <1>5, WalkWins
<1> QED BY <1>1, <1>3, <1>4, <1>5 DEF AfterProbe

\* Whoever leaves the ladder goes somewhere else.
LEMMA Leaves ==
  ASSUME NEW r \in Requests,
         LastResort(r) \/ Surface(r) \/ \E a : Respond(r, a)
  PROVE  \E place : place \notin OnLadder /\ Goto(r, place)
<1> DEFINE Off == \E place : place \notin OnLadder /\ Goto(r, place)
<1>1. Surface(r) => Off
  BY DEF Surface, Return, OnLadder, Pinning
<1>2. LastResort(r) => Off
  BY <1>1 DEF LastResort, OnLadder, Pinning
<1>3. (\E a : Respond(r, a)) => Off
  BY DEF Respond, Return, OnLadder, Pinning
<1> QED BY <1>1, <1>2, <1>3

LEMMA ExhaustedLeaves ==
  ASSUME AnswersTyped, WalkInv, NEW r \in Requests, Exhausted(r)
  PROVE  WalkInv'
<1>1. UNCHANGED <<manifest, pin, uaPin>> /\ LeaveLadder(r)
  BY DEF Exhausted, proxyVars
<1>2. PICK place : place \notin OnLadder /\ Goto(r, place)
  BY Leaves DEF Exhausted
<1>3. SourcesTyped'
  BY <1>1, SourcesKept DEF WalkInv, SourcesTyped
<1> QED BY <1>1, <1>2, <1>3, WalkLeft

\* Only a plugin with a list comes to pin a User-Agent.
LEMMA StoreWalks ==
  ASSUME AnswersTyped, WalkInv, NEW r \in Requests, StorePin(r)
  PROVE  WalkInv'
<1>1. UNCHANGED <<manifest, pin, uaPin>> /\ pc[r] = "store"
  BY DEF StorePin, At
<1>2. SourcesTyped'
  BY <1>1, SourcesKept DEF WalkInv, SourcesTyped
<1>3. CASE Listed /\ Goto(r, "pinUA") /\ UNCHANGED walkVars
  <2>1. WalkTyped' /\ WalksAlone(r) /\ pc'[r] = "pinUA"
    BY <1>1, <1>3 DEF WalkInv, WalkTyped, WalksAlone, AnswersTyped, walkVars, Goto
  <2>2. Walking(r) /\ walk[r] # {}
    BY <1>1 DEF WalkInv, Walking, OnLadder, Pinning
  <2>3. Declared' = Declared /\ Listed' /\ manifest'.uas = manifest.uas
    BY <1>1, <1>3 DEF Declared, Listed
  <2>4. Walking(r)'
    BY <1>3, <2>1, <2>2, <2>3 DEF Walking, ListWalked, walkVars
  <2> QED BY <1>2, <2>1, <2>4, WalkMoves DEF OnLadder, Pinning
<1>4. CASE Respond(r, result[r]) /\ LeaveLadder(r)
  <2>1. PICK place : place \notin OnLadder /\ Goto(r, place)
    BY <1>4, Leaves
  <2> QED BY <1>1, <1>2, <1>4, <2>1, WalkLeft
<1> QED BY <1>3, <1>4 DEF StorePin

LEMMA PinUAWalks ==
  ASSUME AnswersTyped, WalkInv, NEW r \in Requests, PinUA(r)
  PROVE  WalkInv'
<1>1. UNCHANGED <<manifest, pin>> /\ pc[r] = "pinUA" /\ LeaveLadder(r) /\ Respond(r, result[r])
  BY DEF PinUA, At
<1>2. PICK i \in walk[r] : uaPin' = Entry(i)
  BY DEF PinUA
<1>3. Entry(i) \in Declared
  <2>1. ListWalked(r)
    BY <1>1 DEF WalkInv, Walking, OnLadder, Pinning
  <2>2. i \in DOMAIN manifest.uas /\ i # 0
    BY <1>2, <2>1, Lists DEF ListWalked, WalkInv
  <2> QED BY <2>2 DEF Entry, Declared
<1>4. SourcesTyped'
  BY <1>1, <1>2, <1>3, SourcesKept DEF WalkInv, SourcesTyped
<1>5. PICK place : place \notin OnLadder /\ Goto(r, place)
  BY <1>1, Leaves
<1> QED BY <1>1, <1>4, <1>5, WalkLeft

LEMMA InitWalk == Init => WalkInv
<1> SUFFICES ASSUME Init PROVE WalkInv
  OBVIOUS
<1>1. WalkTyped
  BY Rungs DEF Init, WalkTyped
<1>2. SourcesTyped
  BY DEF Init, SourcesTyped
<1>3. \A r \in Requests : pc[r] \notin OnLadder /\ Resting(r)
  BY DEF Init, Resting, OnLadder, Pinning
<1> QED BY <1>1, <1>2, <1>3 DEF WalkInv

LEMMA NextWalk == AnswerInv /\ WalkInv /\ [Next]_vars => WalkInv'
<1> SUFFICES ASSUME AnswersTyped, WalkInv, [Next]_vars PROVE WalkInv'
  BY DEF AnswerInv
<1>1. ASSUME NEW r \in Requests, Request(r) PROVE WalkInv'
  BY <1>1, OffTheLadder, WalkStarts, WalkClimbs, ExhaustedLeaves, ProbeWalks, StoreWalks, PinUAWalks DEF Request
<1>2. ASSUME NEW r \in Requests, Arrive(r) PROVE WalkInv'
  BY <1>2, OffTheLadder
<1>3. ASSUME UNCHANGED <<manifest, pc, walkVars>>, pin' \in {pin, None}, uaPin' \in {uaPin, None} PROVE WalkInv'
  <2>1. SourcesTyped'
    BY <1>3, SourcesKept DEF WalkInv, SourcesTyped
  <2> QED BY <1>3, <2>1, WalksKept
<1>4. ASSUME NEW r \in Requests, Lane(r) \/ CtxEnds(r) PROVE WalkInv'
  BY <1>3, <1>4 DEF Lane, LaneTakes, SolverReturns, CtxEnds, proxyVars, requestVars
<1>5. CASE ResetProfile
  BY <1>3, <1>5 DEF ResetProfile, requestVars
<1>6. CASE PasteCookies \/ UNCHANGED vars
  BY <1>3, <1>6 DEF PasteCookies, vars, proxyVars, requestVars
<1> QED BY <1>1, <1>2, <1>4, <1>5, <1>6 DEF Next

\* A walk that counts its probes stays within what there is to probe.
LEMMA WalksBounded == WalkInv => BurstBounded
<1> SUFFICES ASSUME WalkInv, NEW r \in Requests
             PROVE  probes[r] <= IF Listed THEN Cardinality(Declared) ELSE Cardinality(Profiles) - 1
  BY DEF BurstBounded, Declared
<1>1. Cardinality(Declared) \in Nat
  BY Lists, FS_CardinalityType DEF WalkInv
<1>2. Cardinality(Profiles) - 1 \in Nat
  <2>1. Cardinality(Profiles \ {Default}) = Cardinality(Profiles) - 1
    BY RungsAreProfiles
  <2>2. IsFiniteSet(Profiles \ {Default})
    BY Rungs, FS_Subset
  <2> QED BY <2>1, <2>2, FS_CardinalityType
<1>3. CASE pc[r] \notin OnLadder
  BY <1>1, <1>2, <1>3 DEF WalkInv, Resting
<1>4. CASE pc[r] \in OnLadder /\ Listed
  <2>1. seenUA[r] \subseteq Declared /\ probes[r] <= Cardinality(seenUA[r]) /\ probes[r] \in Nat
    BY <1>4 DEF WalkInv, Walking, ListWalked, WalkTyped
  <2>2. IsFiniteSet(Declared)
    BY Lists DEF WalkInv
  <2>3. Cardinality(seenUA[r]) \in Nat /\ Cardinality(seenUA[r]) <= Cardinality(Declared)
    BY <2>1, <2>2, FS_Subset, FS_CardinalityType
  <2> QED BY <1>1, <1>4, <2>1, <2>3
<1>5. CASE pc[r] \in OnLadder /\ ~Listed
  <2>1. RungsWalked(r) /\ tried[r] \in Profiles /\ probes[r] \in Nat
    BY <1>5 DEF WalkInv, Walking, WalkTyped
  <2>2. Cardinality(Passed(r)) \in Nat
    BY PassedFinite DEF WalkInv
  <2>3. probes[r] <= Cardinality(Passed(r))
    BY <2>1, <2>2 DEF RungsWalked
  <2> DEFINE Others == {i \in DOMAIN Ladder : Ladder[i] # tried[r]}
  <2>4. IsFiniteSet(Others) /\ Cardinality(Others) = Cardinality(Profiles) - 1
    BY <2>1, RungsAreProfiles
  <2>5. Passed(r) \subseteq Others
    BY Rungs DEF Passed, WalkInv, WalkTyped
  <2>6. Cardinality(Passed(r)) <= Cardinality(Others)
    BY <2>4, <2>5, FS_Subset
  <2> QED BY <1>2, <1>5, <2>1, <2>2, <2>3, <2>4, <2>6
<1> QED BY <1>3, <1>4, <1>5

\* When no rung is left, all but the one that was skipped lie behind.
LEMMA NothingLeft ==
  ASSUME WalkInv, NEW r \in Requests, pc[r] = "walk", ~Listed, walk[r] = {}, Unseen(r) = {}
  PROVE  probes[r] = Cardinality(Profiles \ {tried[r]})
<1>1. RungsWalked(r) /\ tried[r] \in Profiles
  BY DEF WalkInv, Walking, OnLadder
<1>2. Cardinality(Passed(r)) \in Nat
  BY PassedFinite DEF WalkInv
<1>3. probes[r] = Cardinality(Passed(r))
  <2>1. probes[r] = Cardinality(Passed(r)) - 0
    BY <1>1 DEF RungsWalked
  <2> QED BY <1>2, <2>1
<1>4. Passed(r) = {i \in DOMAIN Ladder : Ladder[i] # tried[r]}
  BY Rungs DEF Passed, Unseen, WalkInv, WalkTyped
<1> QED BY <1>1, <1>3, <1>4, RungsAreProfiles

\* The others neither move nor hear anything.
LEMMA OthersStay ==
  ASSUME AnswersTyped, NEW q \in Requests, Arrive(q) \/ Request(q) \/ Lane(q) \/ CtxEnds(q),
         NEW r \in Requests, r # q
  PROVE  pc'[r] = pc[r] /\ result'[r] = result[r]
<1> DEFINE Stays == pc'[r] = pc[r] /\ result'[r] = result[r]
<1>1. \A place : Goto(q, place) => pc'[r] = pc[r]
  BY DEF Goto, AnswersTyped
<1>2. \A a : Return(q, a) => Stays
  BY <1>1 DEF Return, AnswersTyped
<1>3. \A a : Respond(q, a) => Stays
  BY <1>1, <1>2 DEF Respond, AnswersTyped
<1>4. Surface(q) => Stays
  BY <1>2 DEF Surface
<1>5. LastResort(q) => Stays
  BY <1>1, <1>4 DEF LastResort
<1>6. SolveFailed(q) => Stays
  BY <1>1, <1>4 DEF SolveFailed
<1>7. Enter(q) => pc'[r] = pc[r]
  BY <1>1 DEF Enter
<1>8. Forget(q) => result'[r] = result[r]
  BY DEF Forget, AnswersTyped
<1>9. ASSUME Fetch(q) PROVE Stays
  <2>1. PICK a \in Answers : AfterFetch(q, a) \/ AfterRetry(q, a)
    BY <1>9 DEF Fetch
  <2>2. AfterFetch(q, a) => Stays
    BY <1>1, <1>3, <1>4, <1>5 DEF AfterFetch
  <2>3. AfterRetry(q, a) => Stays
    BY <1>3, <1>4 DEF AfterRetry
  <2> QED BY <2>1, <2>2, <2>3
<1>10. ASSUME Probe(q) PROVE Stays
  <2>1. PICK i \in walk[q], a \in Answers : AfterProbe(q, i, a)
    BY <1>10 DEF Probe
  <2>2. PinProfile(q, a) => Stays
    BY <1>1 DEF PinProfile, AnswersTyped
  <2> QED BY <1>2, <2>1, <2>2 DEF AfterProbe, NextProbe
<1>11. StartLadder(q) \/ NextRung(q) \/ Exhausted(q) => Stays
  BY <1>1, <1>4, <1>5 DEF StartLadder, NextRung, Exhausted, requestVars
<1>12. StorePin(q) \/ PinUA(q) => Stays
  BY <1>1, <1>3 DEF StorePin, PinUA
<1>13. Submit(q) \/ SolveEnds(q) \/ SolveAbandoned(q) => Stays
  BY <1>1, <1>6 DEF Submit, SolveEnds, SolveAbandoned
<1>14. Arrive(q) \/ TryAgain(q) \/ CallEnds(q) => Stays
  BY <1>1, <1>7, <1>8 DEF Arrive, TryAgain, CallEnds
<1>15. RouteStdlib(q) \/ RouteTLS(q) => Stays
  BY <1>1, <1>3 DEF RouteStdlib, RouteTLS
<1>16. Lane(q) \/ CtxEnds(q) => Stays
  BY DEF Lane, LaneTakes, SolverReturns, CtxEnds, requestVars
<1> QED BY <1>9, <1>10, <1>11, <1>12, <1>13, <1>14, <1>15, <1>16 DEF Request

-----------------------------------------------------------------------------
(* The types of what neither the answers nor the walk depend on.             *)

SolveStates == {"none", "queued", "running", "found", "failed", "refused"}

RestTyped ==
  /\ stored \in Profiles \cup {None}
  /\ seeded \in BOOLEAN
  /\ bare \in BOOLEAN
  /\ resetting \in {"no", "stored", "ua"}
  /\ gone \in [Requests -> BOOLEAN]
  /\ attempt \in [Requests -> 0..Attempts]
  /\ solve \in [Requests -> SolveStates]

LEMMA InitRest == Init => RestTyped
<1> SUFFICES ASSUME Init PROVE RestTyped
  OBVIOUS
<1>1. 0 \in 0..Attempts
  OBVIOUS
<1>2. stored \in Profiles \cup {None}
  BY DEF Init
<1>3. gone \in [Requests -> BOOLEAN] /\ attempt \in [Requests -> 0..Attempts] /\ bare \in BOOLEAN
  BY <1>1 DEF Init
<1> QED BY <1>2, <1>3 DEF Init, RestTyped, SolveStates

LEMMA NextRest == WalkInv /\ RestTyped /\ [Next]_vars => RestTyped'
<1> SUFFICES ASSUME WalkInv, RestTyped, [Next]_vars PROVE RestTyped'
  OBVIOUS
<1> DEFINE Kept == UNCHANGED <<stored, resetting, gone, attempt, solve>>
           Jars == seeded' \in BOOLEAN /\ bare' \in BOOLEAN
<1>1. ASSUME NEW r, NEW profile, NEW a, Send(r, profile, a), UNCHANGED seeded PROVE Jars
  BY <1>1 DEF Send, RestTyped
<1>2. Seed \/ UNCHANGED <<seeded, bare>> => Jars
  BY DEF Seed, RestTyped
<1>3. Kept /\ Jars => RestTyped'
  BY DEF RestTyped
<1>4. ASSUME NEW r \in Requests, Arrive(r) \/ TryAgain(r) \/ CallEnds(r) PROVE RestTyped'
  <2>1. /\ UNCHANGED <<stored, resetting, solve, seeded, bare>>
        /\ gone' = gone \/ gone' = [gone EXCEPT ![r] = FALSE]
    BY <1>4 DEF Arrive, TryAgain, CallEnds, proxyVars
  <2>2. PICK n \in 0..Attempts : attempt' = [attempt EXCEPT ![r] = n]
    <3>1. Arrive(r) \/ CallEnds(r) => attempt' = [attempt EXCEPT ![r] = 1] \/ attempt' = [attempt EXCEPT ![r] = 0]
      BY DEF Arrive, CallEnds
    <3>2. TryAgain(r) => attempt[r] < Attempts /\ attempt' = [attempt EXCEPT ![r] = attempt[r] + 1]
      BY DEF TryAgain, MoreReferers
    <3>3. attempt[r] \in 0..Attempts
      BY DEF RestTyped
    <3> QED BY <1>4, <3>1, <3>2, <3>3
  <2>3. attempt' \in [Requests -> 0..Attempts]
    BY <2>2 DEF RestTyped
  <2> QED BY <2>1, <2>3 DEF RestTyped
<1>5. ASSUME NEW r \in Requests, RouteStdlib(r) \/ Fetch(r) \/ Probe(r) PROVE RestTyped'
  BY <1>1, <1>3, <1>5 DEF RouteStdlib, Fetch, Probe
<1>6. ASSUME NEW r \in Requests,
             RouteTLS(r) \/ StartLadder(r) \/ NextRung(r) \/ Exhausted(r) \/ PinUA(r) \/ SolveAbandoned(r)
      PROVE  RestTyped'
  BY <1>2, <1>3, <1>6 DEF RouteTLS, StartLadder, NextRung, Exhausted, PinUA, SolveAbandoned, proxyVars, requestVars
<1>7. ASSUME NEW r \in Requests, StorePin(r) PROVE RestTyped'
  <2>1. Ladder[rung[r]] \in Profiles
    BY <1>7, Rungs DEF StorePin, At, WalkInv, Walking, OnLadder, Pinning
  <2> QED BY <1>7, <2>1 DEF StorePin, RestTyped
<1>8. ASSUME NEW r \in Requests, Submit(r) \/ LaneTakes(r) \/ SolverReturns(r) PROVE RestTyped'
  BY <1>8 DEF Submit, LaneTakes, SolverReturns, Deliver, RestTyped, SolveStates, proxyVars, requestVars
<1>9. ASSUME NEW r \in Requests, SolveEnds(r) PROVE RestTyped'
  BY <1>2, <1>9 DEF SolveEnds, RestTyped, SolveStates
<1>10. ASSUME NEW r \in Requests, CtxEnds(r) PROVE RestTyped'
  BY <1>10 DEF CtxEnds, RestTyped, proxyVars
<1>11. CASE ResetProfile
  BY <1>11 DEF ResetProfile, RestTyped, requestVars
<1>12. CASE PasteCookies
  BY <1>2, <1>3, <1>12 DEF PasteCookies, requestVars
<1>13. CASE UNCHANGED vars
  BY <1>2, <1>3, <1>13 DEF vars, proxyVars, requestVars
<1> QED BY <1>4, <1>5, <1>6, <1>7, <1>8, <1>9, <1>10, <1>11, <1>12, <1>13 DEF Next, Request, Lane

LEMMA TypesTogether == AnswerInv /\ WalkInv /\ RestTyped => TypeOK
<1> SUFFICES ASSUME AnswerInv, WalkInv, RestTyped PROVE TypeOK
  OBVIOUS
<1>1. uaPin \in UserAgents \cup {None} /\ pin \in Profiles \cup {None} /\ manifest \in Manifests
  BY Lists DEF WalkInv, SourcesTyped
<1>2. {pin, stored} \subseteq Profiles \cup {None}
  BY <1>1 DEF RestTyped
<1>3. AnswersTyped /\ WalkTyped
  BY DEF AnswerInv, WalkInv
<1> QED BY <1>1, <1>2, <1>3 DEF TypeOK, AnswersTyped, States, WalkTyped, RestTyped, SolveStates

-----------------------------------------------------------------------------
(* Solves: a call that waits for one has one on the lane, or is told.         *)

\* A solve that nobody waits for belongs to a caller that has gone: it is on its
\* way out, past every place that could ask for another.
Orphaned(r) ==
  solve[r] # "none" /\ pc[r] # "wait"
  => pc[r] = "done" \/ (gone[r] /\ pc[r] \in {"route", "fetch", "judge"})

SolveInv ==
  \A r \in Requests : (pc[r] = "wait" => solve[r] # "none") /\ Orphaned(r)

\* A request whose solve and place stay as they are, or that goes on without one.
LEMMA SolvesKept ==
  ASSUME SolveInv, NEW r \in Requests,
         \A q \in Requests \ {r} : pc'[q] = pc[q] /\ gone'[q] = gone[q] /\ solve'[q] = solve[q],
         pc'[r] = "wait" => solve'[r] # "none",
         Orphaned(r)'
  PROVE  SolveInv'
BY DEF SolveInv, Orphaned

\* Nothing is sent for a caller that has gone, so it meets no other challenge.
LEMMA GoneGetsNothing ==
  ASSUME AnswersTyped, NEW r \in Requests, gone[r], Fetch(r) \/ RouteStdlib(r)
  PROVE  pc' = [pc EXCEPT ![r] = "judge"]
<1>1. \A profile, a : Send(r, profile, a) => a = "error"
  BY DEF Send, AnswersTo
<1>2. Respond(r, "error") => pc' = [pc EXCEPT ![r] = "judge"]
  BY DEF Respond, Return, Goto
<1>3. Surface(r) => pc' = [pc EXCEPT ![r] = "judge"]
  BY DEF Surface, Return, Goto
<1>4. CASE RouteStdlib(r)
  BY <1>1, <1>2, <1>4 DEF RouteStdlib
<1>5. CASE Fetch(r)
  <2>1. PICK a \in Answers : /\ a = "error"
                             /\ IF phase[r] = "first" THEN AfterFetch(r, a) ELSE AfterRetry(r, a)
    BY <1>1, <1>5 DEF Fetch
  <2>2. AfterFetch(r, a) => Respond(r, "error")
    BY <2>1 DEF AfterFetch
  <2>3. AfterRetry(r, a) => Surface(r)
    BY <2>1 DEF AfterRetry
  <2> QED BY <1>2, <1>3, <2>1, <2>2, <2>3
<1> QED BY <1>4, <1>5

\* Only Submit makes a request wait.
LEMMA WaitsAfterSubmit ==
  ASSUME AnswersTyped, NEW r \in Requests, Arrive(r) \/ Request(r), ~Submit(r)
  PROVE  pc'[r] # "wait"
<1> DEFINE Awake == pc'[r] # "wait"
<1>1. \A place : Goto(r, place) => pc'[r] = place
  BY DEF Goto, AnswersTyped
<1>2. \A a : Return(r, a) => Awake
  BY <1>1 DEF Return
<1>3. \A a : Respond(r, a) => Awake
  BY <1>1, <1>2 DEF Respond
<1>4. Surface(r) => Awake
  BY <1>2 DEF Surface
<1>5. LastResort(r) => Awake
  BY <1>1, <1>4 DEF LastResort
<1>6. SolveFailed(r) => Awake
  BY <1>1, <1>4 DEF SolveFailed
<1>7. Enter(r) => Awake
  BY <1>1 DEF Enter
<1>8. ASSUME Fetch(r) PROVE Awake
  <2>1. PICK a \in Answers : AfterFetch(r, a) \/ AfterRetry(r, a)
    BY <1>8 DEF Fetch
  <2>2. AfterFetch(r, a) => Awake
    BY <1>1, <1>3, <1>4, <1>5 DEF AfterFetch
  <2>3. AfterRetry(r, a) => Awake
    BY <1>3, <1>4 DEF AfterRetry
  <2> QED BY <2>1, <2>2, <2>3
<1>9. ASSUME Probe(r) PROVE Awake
  <2>1. PICK i \in walk[r], a \in Answers : At(r, "walk") /\ AfterProbe(r, i, a)
    BY <1>9 DEF Probe
  <2>2. PinProfile(r, a) => Awake
    BY <1>1 DEF PinProfile
  <2>3. NextProbe(r, i) => Awake
    BY <2>1 DEF NextProbe, At
  <2> QED BY <1>2, <2>1, <2>2, <2>3 DEF AfterProbe
<1>10. StartLadder(r) \/ NextRung(r) \/ Exhausted(r) => Awake
  BY <1>1, <1>4, <1>5 DEF StartLadder, NextRung, Exhausted, requestVars, At
<1>11. StorePin(r) \/ PinUA(r) => Awake
  BY <1>1, <1>3 DEF StorePin, PinUA
<1>12. SolveEnds(r) \/ SolveAbandoned(r) => Awake
  BY <1>1, <1>6 DEF SolveEnds, SolveAbandoned
<1>13. Arrive(r) \/ TryAgain(r) \/ CallEnds(r) => Awake
  BY <1>1, <1>7 DEF Arrive, TryAgain, CallEnds
<1>14. RouteStdlib(r) \/ RouteTLS(r) => Awake
  BY <1>1, <1>3 DEF RouteStdlib, RouteTLS
<1> QED BY <1>8, <1>9, <1>10, <1>11, <1>12, <1>13, <1>14 DEF Request

LEMMA InitSolves == Init => SolveInv
BY DEF Init, SolveInv, Orphaned

\* A request's own steps.
LEMMA RequestSolves ==
  ASSUME AnswersTyped, RestTyped, SolveInv, NEW r \in Requests, Arrive(r) \/ Request(r)
  PROVE  SolveInv'
<1>1. \A q \in Requests \ {r} : pc'[q] = pc[q]
  BY OthersStay
<1>2. SUFFICES /\ \A q \in Requests \ {r} : gone'[q] = gone[q] /\ solve'[q] = solve[q]
               /\ pc'[r] = "wait" => solve'[r] # "none"
               /\ Orphaned(r)'
  BY <1>1, SolvesKept
<1>3. pc \in [Requests -> States] /\ gone \in [Requests -> BOOLEAN] /\ solve \in [Requests -> SolveStates]
  BY DEF AnswersTyped, RestTyped
<1>4. Orphaned(r) /\ (pc[r] = "wait" => solve[r] # "none")
  BY DEF SolveInv
<1>5. ASSUME UNCHANGED <<gone, solve>>, solve[r] = "none", ~Submit(r)
      PROVE  UNCHANGED <<gone, solve>> /\ pc'[r] # "wait" /\ Orphaned(r)'
  BY <1>5, WaitsAfterSubmit DEF Orphaned
<1>6. CASE Arrive(r) \/ StartLadder(r) \/ NextRung(r) \/ Exhausted(r) \/ Probe(r) \/ StorePin(r) \/ PinUA(r)
  <2>1. UNCHANGED <<gone, solve>>
    BY <1>6 DEF Arrive, StartLadder, NextRung, Exhausted, Probe, StorePin, PinUA, requestVars
  <2>2. pc[r] \in {"idle", "ladder", "walk", "store", "pinUA"}
    BY <1>6 DEF Arrive, StartLadder, NextRung, Exhausted, Probe, StorePin, PinUA, At
  <2> QED BY <1>4, <1>6, <2>1, <2>2, WaitsAfterSubmit DEF Orphaned, Submit, At
<1>7. CASE RouteStdlib(r) \/ Fetch(r)
  <2>1. UNCHANGED <<gone, solve>> /\ pc[r] \in {"route", "fetch"}
    BY <1>7 DEF RouteStdlib, Fetch, At
  <2>2. gone[r] => pc'[r] = "judge"
    BY <1>3, <1>7, GoneGetsNothing
  <2> QED BY <1>4, <1>7, <2>1, <2>2, WaitsAfterSubmit DEF Orphaned, Submit, At
<1>8. CASE RouteTLS(r)
  BY <1>3, <1>4, <1>8 DEF RouteTLS, Goto, Orphaned, At
<1>9. CASE Submit(r)
  <2>1. solve[r] = "none" /\ gone' = gone
    BY <1>4, <1>9 DEF Submit, Orphaned, At
  <2>2. CASE manifest.manual
    BY <1>3, <1>9, <2>1, <2>2 DEF Submit, SolveFailed, Surface, Return, Goto, Orphaned
  <2>3. CASE ~manifest.manual
    BY <1>3, <1>9, <2>1, <2>3 DEF Submit, Goto, Orphaned
  <2> QED BY <2>2, <2>3
<1>10. CASE SolveEnds(r)
  <2>1. pc'[r] # "wait"
    BY <1>10, WaitsAfterSubmit DEF SolveEnds, Submit, At
  <2> QED BY <1>3, <1>10, <2>1 DEF SolveEnds, Orphaned
<1>11. CASE SolveAbandoned(r)
  <2>1. pc'[r] \in {"route", "judge"}
    BY <1>3, <1>11 DEF SolveAbandoned, SolveFailed, Surface, Return, Goto
  <2> QED BY <1>11, <2>1 DEF SolveAbandoned, Orphaned
<1>12. CASE CallEnds(r)
  BY <1>3, <1>12 DEF CallEnds, Goto, Orphaned
<1>13. CASE TryAgain(r)
  <2>1. UNCHANGED <<gone, solve>> /\ pc[r] = "judge" /\ ~gone[r]
    BY <1>13 DEF TryAgain, At
  <2> QED BY <1>4, <1>13, <2>1, WaitsAfterSubmit DEF Orphaned, Submit, At
<1> QED BY <1>6, <1>7, <1>8, <1>9, <1>10, <1>11, <1>12, <1>13 DEF Request

LEMMA NextSolves == AnswersTyped /\ RestTyped /\ SolveInv /\ [Next]_vars => SolveInv'
<1> SUFFICES ASSUME AnswersTyped, RestTyped, SolveInv, [Next]_vars PROVE SolveInv'
  OBVIOUS
<1>1. gone \in [Requests -> BOOLEAN] /\ solve \in [Requests -> SolveStates]
  BY DEF RestTyped
<1>2. ASSUME NEW r \in Requests, LaneTakes(r) PROVE SolveInv'
  <2>1. solve[r] # "none" /\ solve'[r] = "running" /\ UNCHANGED <<pc, gone>>
    BY <1>1, <1>2 DEF LaneTakes, requestVars
  <2> QED BY <1>1, <1>2, <2>1 DEF LaneTakes, SolveInv, Orphaned
<1>3. ASSUME NEW r \in Requests, SolverReturns(r) PROVE SolveInv'
  <2>1. PICK outcome \in {"found", "failed"} : Deliver(r, outcome)
    BY <1>3 DEF SolverReturns
  <2>2. UNCHANGED <<pc, gone>>
    BY <1>3 DEF SolverReturns, requestVars
  <2> QED BY <1>1, <2>1, <2>2 DEF Deliver, At, SolveInv, Orphaned
<1>4. ASSUME NEW r \in Requests, CtxEnds(r) PROVE SolveInv'
  BY <1>1, <1>4 DEF CtxEnds, SolveInv, Orphaned
<1>5. CASE ResetProfile \/ PasteCookies \/ UNCHANGED vars
  <2>1. UNCHANGED <<pc, gone, solve>>
    BY <1>5 DEF ResetProfile, PasteCookies, vars, requestVars
  <2> QED BY <2>1 DEF SolveInv, Orphaned
<1> QED BY <1>2, <1>3, <1>4, <1>5, RequestSolves DEF Next, Lane

\* Among places there is a first.
LEMMA FirstPlace ==
  ASSUME NEW places \in SUBSET Nat, places # {}
  PROVE  \E i \in places : IsFirst(i, places)
<1> DEFINE R == OpToRel(<, Nat)
<1>1. PICK i \in places : \A k \in places : <<k, i>> \notin R
  BY NatLessThanWellFounded, WFMin
<1>2. \A k \in places : ~(k < i)
  BY <1>1 DEF OpToRel
<1> QED BY <1>2 DEF IsFirst

LEMMA CallsMove == AnswersTyped /\ WalkInv /\ RestTyped /\ SolveInv => CallsGoOn
<1> SUFFICES ASSUME AnswersTyped, WalkInv, RestTyped, SolveInv, NEW r \in Requests,
                    ~At(r, "idle"), ~At(r, "done"), ~RequestMoves(r), solve[r] # "refused" \/ ~At(r, "wait")
             PROVE  \E q \in Requests : LaneMoves(q)
  BY DEF CallsGoOn
<1>1. walk[r] \in SUBSET Nat /\ Unseen(r) \in SUBSET Nat
  BY Rungs DEF WalkInv, WalkTyped, Unseen
<1>2. ~At(r, "walk")
  BY <1>1, FirstPlace DEF RequestMoves, At
<1>3. ~At(r, "pinUA")
  <2>1. At(r, "pinUA") => walk[r] # {}
    BY DEF WalkInv, Walking, OnLadder, Pinning, At
  <2> QED BY <1>1, <2>1, FirstPlace DEF RequestMoves, At
<1>4. At(r, "wait") /\ solve[r] \in {"queued", "running"}
  BY <1>2, <1>3 DEF RequestMoves, SolveInv, RestTyped, SolveStates, At
<1>5. CASE OnLane = {}
  <2>1. Cardinality(OnLane) < CDPWorkers
    BY <1>5, FS_EmptySet
  <2> QED BY <1>4, <2>1 DEF LaneMoves
<1>6. CASE OnLane # {}
  BY <1>6 DEF OnLane, LaneMoves
<1> QED BY <1>5, <1>6

-----------------------------------------------------------------------------
(* The theorems.                                                             *)

\* Every variable keeps its type: a pin is always a profile of the ladder, the
\* rung of a walk always on it, and no image fetch takes more attempts than there
\* are Referers.
THEOREM RequestTypes == Spec => []TypeOK
BY InitAnswers, NextAnswers, InitWalk, NextWalk, InitRest, NextRest, TypesTogether, PTL DEF Spec

\* A blocked origin is probed at most once with every User-Agent of the list, or
\* at most once on every profile but one, in each walk, however other requests
\* and resets move the pins meanwhile.
THEOREM BurstsAreBounded == Spec => []BurstBounded
BY InitAnswers, NextAnswers, InitWalk, NextWalk, WalksBounded, PTL DEF Spec

\* A plugin without User-Agents whose caller is still there gives up only when
\* every profile but the one it began with was probed.
THEOREM WalksExhaust == Spec => WalkExhausts
<1> DEFINE Exhausts ==
      \A r \in Requests :
        At(r, "walk") /\ ~gone[r] /\ ~Listed /\ (At(r, "submit")' \/ result'[r] = "verify")
        => probes[r] = Cardinality(Profiles \ {tried[r]})
<1>1. AnswerInv /\ WalkInv /\ [Next]_vars => Exhausts
  <2> SUFFICES ASSUME AnswerInv, WalkInv, [Next]_vars, NEW r \in Requests,
                      pc[r] = "walk", ~gone[r], ~Listed, pc'[r] = "submit" \/ result'[r] = "verify"
               PROVE  probes[r] = Cardinality(Profiles \ {tried[r]})
    BY DEF At
  <2>1. result[r] = None /\ "verify" \notin Answers \cup {None}
    BY DEF AnswerInv, Unanswered, Pinning, Answers
  <2>2. pc'[r] # pc[r] \/ result'[r] # result[r]
    BY <2>1
  <2>3. Arrive(r) \/ Request(r) \/ Lane(r) \/ CtxEnds(r)
    <3>1. AnswersTyped
      BY DEF AnswerInv
    <3>2. ~ResetProfile /\ ~PasteCookies /\ ~UNCHANGED vars
      BY <2>2 DEF ResetProfile, PasteCookies, vars, requestVars
    <3> QED BY <2>2, <3>1, <3>2, OthersStay DEF Next
  <2>4. NextRung(r) \/ Exhausted(r) \/ Probe(r)
    BY <2>2, <2>3 DEF Request, Arrive, RouteStdlib, RouteTLS, Fetch, StartLadder, StorePin, PinUA, Submit,
       SolveEnds, SolveAbandoned, CallEnds, TryAgain, Lane, LaneTakes, SolverReturns, CtxEnds, At, requestVars
  <2>5. ~NextRung(r)
    BY <2>2 DEF NextRung, requestVars
  <2>6. ~Probe(r)
    <3> SUFFICES ASSUME Probe(r) PROVE FALSE
      OBVIOUS
    <3>1. PICK i \in walk[r], a \in Answers : AfterProbe(r, i, a)
      BY DEF Probe
    <3>2. AnswersTyped
      BY DEF AnswerInv
    <3>3. CASE Return(r, a) \/ PinProfile(r, a)
      BY <2>1, <3>2, <3>3 DEF Return, PinProfile, Goto, AnswersTyped
    <3>4. CASE NextProbe(r, i)
      BY <2>2, <3>4 DEF NextProbe
    <3> QED BY <3>1, <3>3, <3>4 DEF AfterProbe
  <2> QED BY <2>4, <2>5, <2>6, NothingLeft DEF Exhausted
<1> QED BY InitAnswers, NextAnswers, InitWalk, NextWalk, <1>1, PTL DEF Spec, WalkExhausts


\* A call can go on by itself, or a solve on the lane can, in every crossing of
\* solves, deadlines and callers that have gone; the one exception is a call
\* whose solve the lane has refused (challenge.go, service.go).
THEOREM NobodyWaitsInVain == Spec => []CallsGoOn
<1>1. AnswerInv => AnswersTyped
  BY DEF AnswerInv
<1> QED BY InitAnswers, NextAnswers, InitWalk, NextWalk, InitRest, NextRest, InitSolves, NextSolves, CallsMove,
         <1>1, PTL DEF Spec

\* The lane never holds two solves of one call, although a solve that its caller
\* has abandoned stays on it.
THEOREM SolvesAreSingle == Spec => []OneSolveEach
<1>1. SolveInv => OneSolveEach
  BY DEF SolveInv, Orphaned, OneSolveEach, At
<1>2. AnswerInv => AnswersTyped
  BY DEF AnswerInv
<1> QED BY InitAnswers, NextAnswers, InitWalk, NextWalk, InitRest, NextRest, InitSolves, NextSolves, <1>1, <1>2,
         PTL DEF Spec

\* An answer that RequestContext returns is no block, but on the stdlib shortcut
\* and for a WAF block after a challenge, however requests, solves and resets
\* cross.
THEOREM BlocksStayIn == Spec => []NoBlockSurfaces
<1>1. AnswerInv => NoBlockSurfaces
  BY DEF AnswerInv
<1> QED BY InitAnswers, NextAnswers, <1>1, PTL DEF Spec

\* "Requires verification" is reported only if the origin has given no real
\* answer in the whole call.
THEOREM AnswersReach == Spec => []NoAnswerWasted
<1>1. AnswerInv => NoAnswerWasted
  BY DEF AnswerInv
<1> QED BY InitAnswers, NextAnswers, <1>1, PTL DEF Spec

\* No client goes without the cookies of a solve: one made before the seed gets
\* them with it, one made after it from it.
THEOREM CookiesReachClients == Spec => []JarsSeeded
<1>1. Init => JarsSeeded
  BY DEF Init, JarsSeeded
<1>2. JarsSeeded /\ [Next]_vars => JarsSeeded'
  <2> SUFFICES ASSUME JarsSeeded, [Next]_vars PROVE JarsSeeded'
    OBVIOUS
  <2>1. ASSUME UNCHANGED <<seeded, bare>> \/ Seed \/ \E r, profile, a : Send(r, profile, a) /\ UNCHANGED seeded
        PROVE  JarsSeeded'
    BY <2>1 DEF JarsSeeded, Seed, Send
  <2>2. CASE \E r \in Requests : Request(r)
    <3>1. PICK r \in Requests : Request(r)
      BY <2>2
    <3>2. CASE RouteStdlib(r) \/ Fetch(r) \/ Probe(r)
      BY <2>1, <3>2 DEF RouteStdlib, Fetch, Probe
    <3>3. CASE SolveEnds(r)
      BY <2>1, <3>3 DEF SolveEnds
    <3> QED BY <2>1, <3>1, <3>2, <3>3 DEF Request, RouteTLS, StartLadder, NextRung, Exhausted, StorePin,
              PinUA, Submit, SolveAbandoned, CallEnds, TryAgain, proxyVars
  <2> QED BY <2>1, <2>2 DEF Next, Arrive, Lane, LaneTakes, SolverReturns, CtxEnds, ResetProfile,
            PasteCookies, vars, proxyVars
<1> QED BY <1>1, <1>2, PTL DEF Spec

\* A pin in memory or in the database, of a profile or a User-Agent, is set by
\* a request that was just answered cleanly, to what it was answered on.
THEOREM PinsAreEarned == Spec => PinsEarned
<1> DEFINE Earns ==
      /\ pin' \notin {pin, None} =>
           \E r \in Requests : At(r, "walk") /\ Earned(r, result'[r]) /\ pin' = Ladder[rung[r]]
      /\ stored' \notin {stored, None} =>
           \E r \in Requests : At(r, "store") /\ Earned(r, result[r]) /\ stored' = Ladder[rung[r]]
      /\ uaPin' \notin {uaPin, None} =>
           \E r \in Requests : /\ At(r, "pinUA") /\ Earned(r, result[r])
                               /\ \E i \in walk[r] : IsFirst(i, walk[r]) /\ uaPin' = Entry(i)
<1>1. AnswerInv /\ [Next]_vars => Earns
  <2> SUFFICES ASSUME AnswerInv, [Next]_vars PROVE Earns
    OBVIOUS
  <2>1. ASSUME NEW r \in Requests, Probe(r) PROVE Earns
    <3>1. PICK i \in walk[r], a \in Answers : AfterProbe(r, i, a)
      BY <2>1 DEF Probe
    <3>2. At(r, "walk") /\ UNCHANGED <<stored, uaPin>>
      BY <2>1 DEF Probe
    <3>3. CASE PinProfile(r, a) /\ a # "error" /\ ~Blocked(r, a) /\ a \notin {"refusal", "errorpage"}
      <4>1. a \in {"ok", "page"}
        BY <3>3 DEF Answers, Blocked, Blocks
      <4>2. result'[r] = a /\ pin' = Ladder[rung[r]]
        BY <3>3 DEF PinProfile, AnswerInv, AnswersTyped
      <4> QED BY <3>2, <3>3, <4>1, <4>2 DEF Earned
    <3>4. CASE UNCHANGED pin
      BY <3>2, <3>4
    <3> QED BY <3>1, <3>3, <3>4 DEF AfterProbe, NextProbe
  <2>2. ASSUME NEW r \in Requests, pc[r] \in Pinning PROVE Earned(r, result[r])
    BY <2>2 DEF AnswerInv, Won, Earned, Blocked, Blocks, Pages
  <2>3. ASSUME NEW r \in Requests, StorePin(r) PROVE Earns
    BY <2>2, <2>3 DEF StorePin, At, Pinning
  <2>4. ASSUME NEW r \in Requests, PinUA(r) PROVE Earns
    BY <2>2, <2>4 DEF PinUA, At, Pinning
  <2>5. CASE ResetProfile
    BY <2>5 DEF ResetProfile
  <2>6. CASE UNCHANGED <<pin, stored, uaPin>>
    BY <2>6
  <2>7. ASSUME NEW r \in Requests, Request(r) PROVE Earns
    BY <2>1, <2>3, <2>4, <2>6, <2>7 DEF Request, RouteStdlib, RouteTLS, Fetch, StartLadder, NextRung, Exhausted,
       Submit, SolveEnds, SolveAbandoned, CallEnds, TryAgain, proxyVars
  <2>8. ASSUME NEW r \in Requests, Arrive(r) \/ Lane(r) \/ CtxEnds(r) PROVE Earns
    BY <2>6, <2>8 DEF Arrive, Lane, LaneTakes, SolverReturns, CtxEnds, proxyVars
  <2> QED BY <2>5, <2>6, <2>7, <2>8 DEF Next, PasteCookies, vars, proxyVars
<1> QED BY InitAnswers, NextAnswers, <1>1, PTL DEF Spec, PinsEarned

=============================================================================
