----------------------------- MODULE HostRequest -----------------------------
(***************************************************************************)
(* Upstream requests of one plugin to one host (internal/hostnet), with    *)
(* the image path's retries (bridge/image_fetch_retry.go) and the          *)
(* challenge solves they put on the CDP lane.                              *)
(*                                                                         *)
(* A request is a goroutine in RequestContext (a plugin's host call) or in *)
(* fetchImageWithRetry, which goes through RequestImageContext. A step     *)
(* ends where Proxy.mu or the network lets another goroutine in; an        *)
(* upstream answer only touches its own request, so sending and being      *)
(* answered are one step.                                                  *)
(***************************************************************************)
EXTENDS Naturals, Sequences, FiniteSets

CONSTANTS
  Requests,    \* the requests
  Images,      \* those made by fetchImageWithRetry
  Timed,       \* those whose context has a deadline or a caller that may leave
  Ladder,      \* ladderFor: the plugin's hints, then the default ladder
  Default,     \* defaultProfileName
  Stdlib,      \* stdlibProfileName
  Manifests,   \* the possible hints of the plugin: [needsJS, manual, cdp, uas]
  CDPWorkers,  \* the size of the CDP lane
  Attempts,    \* the length of the Referer ladder of an image
  None         \* ""

Profiles == {Ladder[i] : i \in DOMAIN Ladder}

\* What an origin answers: a good one, an HTML page where an image was asked
\* for, a refusal that is no block (404, 429, 5xx), the same in HTML where an
\* image was asked for, an interstitial with a challenge marker, a WAF block in
\* JSON or in HTML, or no answer at all.
Answers == {"ok", "page", "refusal", "errorpage", "challenge", "waf", "wall", "error"}

Pages == {"page", "errorpage"}

Blocks == {"challenge", "waf", "wall"}

UserAgents == UNION {{m.uas[i] : i \in DOMAIN m.uas} : m \in Manifests}

\* ladderFor leaves no profile in twice, SetUserAgents no User-Agent empty.
ASSUME RequestAssumption ==
  /\ Images \subseteq Requests
  /\ Timed \subseteq Requests
  /\ Default \in Profiles /\ Stdlib \in Profiles /\ Default # Stdlib
  /\ Ladder \in Seq(Profiles)
  /\ \A i, k \in DOMAIN Ladder : Ladder[i] = Ladder[k] => i = k
  /\ None \notin Profiles \cup UserAgents \cup Answers \cup {"verify"}
  /\ \A m \in Manifests : /\ {m.needsJS, m.manual, m.cdp} \subseteq BOOLEAN
                          /\ m.uas \in Seq(UserAgents)
  /\ CDPWorkers \in Nat \ {0}
  /\ Attempts \in Nat \ {0}

VARIABLES
  manifest,  \* needsJS, manualCookies, cdp.enabled() and uaLists of the plugin
  pin,       \* Proxy.pins
  stored,    \* plugins.http_profile in the database
  uaPin,     \* Proxy.uaPins
  seeded,    \* whether pendingVerify holds cookies
  bare,      \* whether a cached client has no verify cookies
  resetting, \* where ResetProfile, called from the plugins page, is
  pc,        \* where each request is
  phase,     \* which way it took: what its solve is for, or the stdlib shortcut
  gone,      \* whether its context has ended
  image,     \* whether tryLadder takes an HTML page for a block (extraBlock)
  attempt,   \* the attempts of an image fetch
  result,    \* the answer it has got hold of, or how it ends without one
  tried, rung, seenUA,   \* tryLadder's variables
  walk,      \* the places of the User-Agents left to probe on this rung
  solve,     \* its job on the CDP lane
  probes,    \* history: the probes of the current walk
  heard      \* history: whether the origin gave a real answer, ok or refusal

proxyVars == <<pin, stored, uaPin, seeded, bare>>
requestVars == <<pc, phase, gone, image, attempt, result>>
walkVars == <<tried, rung, seenUA, walk, probes>>
vars == <<manifest, resetting, proxyVars, requestVars, walkVars, solve, heard>>

\* The plugin declares a list of User-Agents.
Listed == manifest.uas # <<>>

\* The User-Agent at a place of the list; place 0 is that of no override.
Entry(i) == IF i = 0 THEN None ELSE manifest.uas[i]

\* Lists are walked from their front.
IsFirst(i, places) == i \in places /\ \A k \in places : i <= k

TypeOK ==
  /\ manifest \in Manifests
  /\ {pin, stored} \subseteq Profiles \cup {None}
  /\ uaPin \in UserAgents \cup {None}
  /\ seeded \in BOOLEAN
  /\ bare \in BOOLEAN
  /\ resetting \in {"no", "stored", "ua"}
  /\ pc \in [Requests -> {"idle", "submit", "wait", "route", "fetch", "ladder", "walk", "store",
                          "pinUA", "judge", "done"}]
  /\ phase \in [Requests -> {"first", "stdlib", "challenge", "waf"}]
  /\ gone \in [Requests -> BOOLEAN]
  /\ image \in [Requests -> BOOLEAN]
  /\ attempt \in [Requests -> 0..Attempts]
  /\ result \in [Requests -> Answers \cup {None, "verify"}]
  /\ tried \in [Requests -> Profiles \cup {None}]
  /\ rung \in [Requests -> 0..Len(Ladder)]
  /\ seenUA \in [Requests -> SUBSET UserAgents]
  /\ walk \in [Requests -> SUBSET Nat]
  /\ solve \in [Requests -> {"none", "queued", "running", "found", "failed", "refused"}]
  /\ probes \in [Requests -> Nat]
  /\ heard \in [Requests -> BOOLEAN]

\* The process starts with the pin and the cookies the database holds.
Init ==
  /\ manifest \in Manifests
  /\ stored \in {None, Stdlib}
  /\ pin = stored
  /\ uaPin = None
  /\ seeded \in BOOLEAN
  /\ bare = FALSE
  /\ resetting = "no"
  /\ pc = [r \in Requests |-> "idle"]
  /\ phase = [r \in Requests |-> "first"]
  /\ gone = [r \in Requests |-> FALSE]
  /\ image = [r \in Requests |-> FALSE]
  /\ attempt = [r \in Requests |-> 0]
  /\ result = [r \in Requests |-> None]
  /\ tried = [r \in Requests |-> None]
  /\ rung = [r \in Requests |-> 0]
  /\ seenUA = [r \in Requests |-> {}]
  /\ walk = [r \in Requests |-> {}]
  /\ solve = [r \in Requests |-> "none"]
  /\ probes = [r \in Requests |-> 0]
  /\ heard = [r \in Requests |-> FALSE]

-----------------------------------------------------------------------------
(* Helpers *)

At(r, state) == pc[r] = state

Goto(r, state) == pc' = [pc EXCEPT ![r] = state]

\* RequestContext or RequestImageContext returns; its caller looks at what.
Return(r, outcome) ==
  /\ result' = [result EXCEPT ![r] = outcome]
  /\ Goto(r, "judge")
  /\ image' = [image EXCEPT ![r] = FALSE]

\* RequestContext returns response a: to an image fetch an HTML page is a block
\* like any other, and drives a ladder of its own (extraBlock).
Respond(r, a) ==
  IF r \in Images /\ a = "page"
    THEN /\ image' = [image EXCEPT ![r] = TRUE]
         /\ Goto(r, "ladder")
         /\ result' = [result EXCEPT ![r] = None]
    ELSE Return(r, a)

\* ChallengeError: the source requires verification.
Surface(r) == Return(r, "verify")

Blocked(r, a) == a \in Blocks \/ (a \in Pages /\ image[r])

\* The answers r may get; nothing is sent for a caller that has gone.
AnswersTo(r) ==
  IF gone[r] THEN {"error"} ELSE IF r \in Images THEN Answers ELSE Answers \ Pages

\* One upstream request of r on a profile (doRequestProfile, doRequestStd):
\* clientFor makes the client on first use and seeds its jar; the stdlib
\* client has no jar.
Send(r, profile, a) ==
  /\ a \in AnswersTo(r)
  /\ heard' = [heard EXCEPT ![r] = @ \/ a \in {"ok", "refusal"}]
  /\ bare' = (bare \/ (profile # Stdlib /\ ~seeded))

\* doRequest: the pinned profile, the default one for a stdlib pin.
Pinned == IF pin \in {None, Stdlib} THEN Default ELSE pin

\* Mutant of Seed: the cookies wait for new clients only.
SeedPending == seeded' = TRUE /\ UNCHANGED bare

\* SetVerifyCookies: under p.mu, the pending seed and every cached client.
Seed == seeded' = TRUE /\ bare' = FALSE

\* uaCandidates: the declared User-Agents but the pinned one, or the first.
Candidates ==
  LET rest == {i \in DOMAIN manifest.uas : manifest.uas[i] # uaPin}
  IN  IF rest = {} THEN {1} ELSE rest

-----------------------------------------------------------------------------
(* RequestContext *)

\* needs_js without a cookie for the host: solve first. A cached client may hold
\* cookies the site itself has set, which count as well (hasVerifyCookie). A
\* host that has cookies keeps them, so the look at the pin may come later.
Enter(r) ==
  \/ manifest.needsJS /\ manifest.cdp /\ ~seeded /\ Goto(r, "submit")
  \/ (manifest.needsJS /\ manifest.cdp => seeded \/ bare) /\ Goto(r, "route")

\* A request comes in; an image fetch starts its first attempt.
Arrive(r) ==
  /\ At(r, "idle")
  /\ Enter(r)
  /\ attempt' = [attempt EXCEPT ![r] = 1]
  /\ UNCHANGED <<manifest, resetting, proxyVars, phase, gone, image, result, walkVars, solve, heard>>

\* A plugin pinned to stdlib: one request whose answer nobody looks at.
RouteStdlib(r) ==
  /\ At(r, "route")
  /\ pin = Stdlib
  /\ \E a \in Answers :
       /\ Send(r, Stdlib, a)
       /\ Respond(r, a)
  /\ phase' = [phase EXCEPT ![r] = "stdlib"]
  /\ UNCHANGED <<manifest, resetting, pin, stored, uaPin, seeded, gone, attempt, walkVars,
                 solve>>

RouteTLS(r) ==
  /\ At(r, "route")
  /\ pin # Stdlib
  /\ Goto(r, "fetch")
  /\ UNCHANGED <<manifest, resetting, proxyVars, phase, gone, image, attempt, result,
                 walkVars, solve, heard>>

\* The ladder is exhausted, or the block is HTML: the engine, if there is one.
LastResort(r) ==
  IF manifest.cdp
    THEN /\ phase' = [phase EXCEPT ![r] = "waf"]
         /\ Goto(r, "submit")
         /\ UNCHANGED <<result, image>>
    ELSE Surface(r) /\ UNCHANGED phase

\* What follows the first answer: a challenge needs the browser engine, a JSON
\* WAF block another profile, an HTML one the engine again.
AfterFetch(r, a) ==
  CASE a = "challenge" ->
         IF manifest.cdp
           THEN /\ phase' = [phase EXCEPT ![r] = "challenge"]
                /\ Goto(r, "submit")
                /\ UNCHANGED <<result, image>>
           ELSE Surface(r) /\ UNCHANGED phase
    [] a = "waf" -> Goto(r, "ladder") /\ UNCHANGED <<phase, result, image>>
    [] a = "wall" -> LastResort(r)
    [] OTHER -> Respond(r, a) /\ UNCHANGED phase

\* Mutant of AfterRetry: a seeded cookie is taken for a cleared challenge.
AfterRetryTrusting(r, a) ==
  /\ IF a = "error" THEN Surface(r) ELSE Respond(r, a)
  /\ UNCHANGED phase

\* The retry after a solve; the one after a challenge does not look for a WAF
\* block.
AfterRetry(r, a) ==
  /\ IF a \in {"error", "challenge"} \/ (phase[r] = "waf" /\ a \in Blocks)
       THEN Surface(r) ELSE Respond(r, a)
  /\ UNCHANGED phase

Fetch(r) ==
  /\ At(r, "fetch")
  /\ \E a \in Answers :
       /\ Send(r, Pinned, a)
       /\ IF phase[r] = "first" THEN AfterFetch(r, a) ELSE AfterRetry(r, a)
  /\ UNCHANGED <<manifest, resetting, pin, stored, uaPin, seeded, gone, attempt, walkVars,
                 solve>>

-----------------------------------------------------------------------------
(* tryLadder *)

\* The profile pinned now counts as tried, and so does the pinned User-Agent.
StartLadder(r) ==
  /\ At(r, "ladder")
  /\ Goto(r, "walk")
  /\ tried' = [tried EXCEPT ![r] = IF pin = None THEN Default ELSE pin]
  /\ seenUA' = [seenUA EXCEPT ![r] = {uaPin} \ {None}]
  /\ UNCHANGED <<manifest, resetting, proxyVars, phase, gone, image, attempt, result, rung, walk,
                 probes, solve, heard>>

\* tryLadder returns.
LeaveLadder(r) ==
  /\ tried' = [tried EXCEPT ![r] = None]
  /\ rung' = [rung EXCEPT ![r] = 0]
  /\ seenUA' = [seenUA EXCEPT ![r] = {}]
  /\ walk' = [walk EXCEPT ![r] = {}]
  /\ probes' = [probes EXCEPT ![r] = 0]

\* Mutant of Unseen: the last rung is never climbed.
UnseenButLast(r) == {i \in DOMAIN Ladder : rung[r] < i /\ i < Len(Ladder) /\ Ladder[i] # tried[r]}

\* The rungs the walk has not come to (seen holds the others and tried).
Unseen(r) == {i \in DOMAIN Ladder : i > rung[r] /\ Ladder[i] # tried[r]}

\* Mutant of Unprobed: every rung walks all the User-Agents.
UnprobedOnRung(r) == Candidates

\* seenUA is one map for the whole walk.
Unprobed(r) == {i \in Candidates : manifest.uas[i] \notin seenUA[r]}

\* The next rung, with the User-Agents left to probe on it, if any.
NextRung(r) ==
  /\ At(r, "walk")
  /\ ~gone[r] /\ walk[r] = {}
  /\ \E i \in Unseen(r) : IsFirst(i, Unseen(r)) /\ rung' = [rung EXCEPT ![r] = i]
  /\ walk' = [walk EXCEPT ![r] = IF Listed THEN Unprobed(r) ELSE {0}]
  /\ UNCHANGED <<manifest, resetting, proxyVars, requestVars, tried, seenUA, probes, solve, heard>>

\* Every rung has been tried, or the caller has gone.
Exhausted(r) ==
  /\ At(r, "walk")
  /\ gone[r] \/ (walk[r] = {} /\ Unseen(r) = {})
  /\ IF image[r] THEN Surface(r) /\ UNCHANGED phase ELSE LastResort(r)
  /\ LeaveLadder(r)
  /\ UNCHANGED <<manifest, resetting, proxyVars, gone, attempt, solve, heard>>

\* The walk goes on with the next rung, or the next User-Agent that is another one.
NextProbe(r, i) ==
  /\ walk' = [walk EXCEPT ![r] = {k \in @ : Entry(k) # Entry(i)}]
  /\ seenUA' = [seenUA EXCEPT ![r] = IF Listed THEN @ \cup {Entry(i)} ELSE @]
  /\ probes' = [probes EXCEPT ![r] = @ + 1]
  /\ UNCHANGED <<pc, result, image, pin, tried, rung>>

\* A clean answer: setPin.
PinProfile(r, a) ==
  /\ pin' = Ladder[rung[r]]
  /\ result' = [result EXCEPT ![r] = a]
  /\ Goto(r, "store")
  /\ UNCHANGED <<image, walkVars>>

\* Mutant of AfterProbe: a refusal keeps the walk going.
AfterProbeStubborn(r, i, a) ==
  IF a \in {"error", "refusal", "errorpage"} \/ Blocked(r, a) THEN NextProbe(r, i) ELSE PinProfile(r, a)

\* Mutant of AfterProbe: the profile of a refusal is pinned as well.
AfterProbeEager(r, i, a) ==
  IF a = "error" \/ Blocked(r, a) THEN NextProbe(r, i) ELSE PinProfile(r, a)

\* A block or no answer: the next probe. A refusal is the origin's answer and
\* goes to the caller unpinned.
AfterProbe(r, i, a) ==
  CASE a = "error" \/ Blocked(r, a) -> NextProbe(r, i)
    [] a \in {"refusal", "errorpage"} /\ ~Blocked(r, a) -> Return(r, a) /\ LeaveLadder(r) /\ UNCHANGED pin
    [] OTHER -> PinProfile(r, a)

Probe(r) ==
  /\ At(r, "walk")
  /\ ~gone[r]
  /\ \E i \in walk[r], a \in Answers :
       IsFirst(i, walk[r]) /\ Send(r, Ladder[rung[r]], a) /\ AfterProbe(r, i, a)
  /\ UNCHANGED <<manifest, resetting, stored, uaPin, seeded, phase, gone, attempt, solve>>

\* setPin's callback, outside p.mu; a write that fails is only logged.
StorePin(r) ==
  /\ At(r, "store")
  /\ stored' \in {stored, Ladder[rung[r]]}
  /\ IF Listed THEN Goto(r, "pinUA") /\ UNCHANGED <<result, image, walkVars>>
               ELSE Respond(r, result[r]) /\ LeaveLadder(r)
  /\ UNCHANGED <<manifest, resetting, pin, uaPin, seeded, bare, phase, gone, attempt, solve, heard>>

PinUA(r) ==
  /\ At(r, "pinUA")
  /\ \E i \in walk[r] : IsFirst(i, walk[r]) /\ uaPin' = Entry(i)
  /\ Respond(r, result[r])
  /\ LeaveLadder(r)
  /\ UNCHANGED <<manifest, resetting, pin, stored, seeded, bare, phase, gone, attempt, solve, heard>>

-----------------------------------------------------------------------------
(* solveAndSeed and the job it submits to the CDP lane *)

\* The solve failed: before the first request that is ignored.
SolveFailed(r) ==
  IF phase[r] = "first" THEN Goto(r, "route") /\ UNCHANGED <<result, image>>
                        ELSE Surface(r)

\* SubmitSolve: a refused Enqueue is only logged and f never runs.
Submit(r) ==
  /\ At(r, "submit")
  /\ IF manifest.manual
       THEN SolveFailed(r) /\ UNCHANGED solve
       ELSE /\ Goto(r, "wait")
            /\ solve' \in {[solve EXCEPT ![r] = s] : s \in {"queued", "refused"}}
            /\ UNCHANGED <<result, image>>
  /\ UNCHANGED <<manifest, resetting, proxyVars, phase, gone, attempt, walkVars,
                 heard>>

\* The harvested cookies are seeded; a header without any is an error.
SolveEnds(r) ==
  /\ At(r, "wait")
  /\ \/ /\ solve[r] = "found"
        /\ Seed
        /\ Goto(r, IF phase[r] = "first" THEN "route" ELSE "fetch")
        /\ UNCHANGED <<result, image>>
     \/ /\ solve[r] \in {"found", "failed"}
        /\ SolveFailed(r)
        /\ UNCHANGED <<seeded, bare>>
  /\ solve' = [solve EXCEPT ![r] = "none"]
  /\ UNCHANGED <<manifest, resetting, pin, stored, uaPin, phase, gone, attempt, walkVars,
                 heard>>

\* ctx.Done: the solve goes on and its result is dropped.
SolveAbandoned(r) ==
  /\ At(r, "wait")
  /\ gone[r]
  /\ SolveFailed(r)
  /\ UNCHANGED <<manifest, resetting, proxyVars, phase, gone, attempt, walkVars,
                 solve, heard>>

OnLane == {r \in Requests : solve[r] = "running"}

LaneTakes(r) ==
  /\ solve[r] = "queued"
  /\ Cardinality(OnLane) < CDPWorkers
  /\ solve' = [solve EXCEPT ![r] = "running"]
  /\ UNCHANGED <<manifest, resetting, proxyVars, requestVars, walkVars, heard>>

\* Mutant of Deliver: the channel has no slot, the worker waits for its caller.
DeliverUnbuffered(r, outcome) ==
  /\ At(r, "wait")
  /\ solve' = [solve EXCEPT ![r] = outcome]

\* The outcome goes into a channel of one slot, whether or not anybody listens;
\* one that nobody listens for is gone with the channel.
Deliver(r, outcome) == solve' = [solve EXCEPT ![r] = IF At(r, "wait") THEN outcome ELSE "none"]

\* solveChallenge: one or two engines later there are cookies or there are none.
\* Which engines the circuit breaker skips depends on every plugin's solves.
SolverReturns(r) ==
  /\ solve[r] = "running"
  /\ \E outcome \in {"found", "failed"} : Deliver(r, outcome)
  /\ UNCHANGED <<manifest, resetting, proxyVars, requestVars, walkVars, heard>>

-----------------------------------------------------------------------------
(* The caller: a plugin's host call, or fetchImageWithRetry's loop *)

\* The variables of one RequestContext are gone with it.
Forget(r) ==
  /\ phase' = [phase EXCEPT ![r] = "first"]
  /\ result' = [result EXCEPT ![r] = None]
  /\ heard' = [heard EXCEPT ![r] = FALSE]

\* A plugin gets what RequestContext returned. An image that decodes, a block, a
\* caller that has gone, a 404, a spent budget and the last Referer end a fetch.
CallEnds(r) ==
  /\ At(r, "judge")
  /\ Goto(r, "done")
  /\ Forget(r)
  /\ gone' = [gone EXCEPT ![r] = FALSE]
  /\ attempt' = [attempt EXCEPT ![r] = 0]
  /\ UNCHANGED <<manifest, resetting, proxyVars, image, walkVars, solve>>

MoreReferers(r) == attempt[r] < Attempts

\* Anything else, a placeholder or a corrupt image too, is tried once more with
\* the next Referer.
TryAgain(r) ==
  /\ At(r, "judge")
  /\ r \in Images /\ ~gone[r] /\ result[r] # "verify" /\ MoreReferers(r)
  /\ Enter(r)
  /\ attempt' = [attempt EXCEPT ![r] = @ + 1]
  /\ Forget(r)
  /\ UNCHANGED <<manifest, resetting, proxyVars, gone, image, walkVars, solve>>

-----------------------------------------------------------------------------
(* The surroundings *)

\* A deadline passes, a reader turns the page.
CtxEnds(r) ==
  /\ r \in Timed /\ ~gone[r]
  /\ ~At(r, "idle") /\ ~At(r, "done")
  /\ gone' = [gone EXCEPT ![r] = TRUE]
  /\ UNCHANGED <<manifest, resetting, proxyVars, pc, phase, image, attempt, result,
                 walkVars, solve, heard>>

\* ResetProfile: clearPin drops the pin in memory, in the database and then the
\* pinned User-Agent.
ResetProfile ==
  /\ \/ /\ resetting = "no" /\ resetting' = "stored"
        /\ pin' = None
        /\ UNCHANGED <<stored, uaPin>>
     \/ /\ resetting = "stored" /\ resetting' = "ua"
        /\ stored' \in {stored, None}
        /\ UNCHANGED <<pin, uaPin>>
     \/ /\ resetting = "ua" /\ resetting' = "no"
        /\ uaPin' = None
        /\ UNCHANGED <<pin, stored>>
  /\ UNCHANGED <<manifest, seeded, bare, requestVars, walkVars, solve, heard>>

\* SavePluginVerify: the user pastes cookies.
PasteCookies ==
  /\ ~seeded
  /\ Seed
  /\ UNCHANGED <<manifest, resetting, pin, stored, uaPin, requestVars, walkVars, solve,
                 heard>>

Request(r) ==
  \/ RouteStdlib(r) \/ RouteTLS(r) \/ Fetch(r)
  \/ StartLadder(r) \/ NextRung(r) \/ Exhausted(r) \/ Probe(r) \/ StorePin(r) \/ PinUA(r)
  \/ Submit(r) \/ SolveEnds(r) \/ SolveAbandoned(r)
  \/ CallEnds(r) \/ TryAgain(r)

Lane(r) == LaneTakes(r) \/ SolverReturns(r)

Next ==
  \/ \E r \in Requests : Arrive(r) \/ Request(r) \/ Lane(r) \/ CtxEnds(r)
  \/ ResetProfile
  \/ PasteCookies

Spec == Init /\ [][Next]_vars

-----------------------------------------------------------------------------
(* Properties *)

\* "A solve that seeds cookies but does not clear the challenge must NOT surface
\* as success" (request.go:63-65): an answer that is returned is no block, but on
\* the stdlib shortcut, which looks at no answer, and for a WAF block that
\* follows a challenge.
NoBlockSurfaces ==
  \A r \in Requests : At(r, "judge") =>
    \/ result[r] \notin Blocks \cup (IF r \in Images THEN {"page"} ELSE {})
    \/ phase[r] = "stdlib" /\ result[r] # "page"
    \/ phase[r] = "challenge" /\ result[r] \in {"waf", "wall"}

\* A call that reports "the source requires verification" was answered by nothing
\* but blocks, pages in place of images and failed connections: no real answer
\* of the origin is thrown away on the way through retry, ladder and solve.
NoAnswerWasted ==
  \A r \in Requests : result[r] = "verify" => ~heard[r]

\* A blocked origin gets a bounded burst for each walk of the ladder: no profile
\* and no User-Agent is probed twice, whatever another request or a reset does
\* to the pins meanwhile. The comment at ladder.go:47-51 would have the burst of an
\* unpinned plugin end with the stdlib rung; the code below it walks them all, as
\* ladder_test.go:95-112 and :238-243 expect.
BurstBounded ==
  \A r \in Requests :
    probes[r] <= IF Listed THEN Cardinality({manifest.uas[i] : i \in DOMAIN manifest.uas})
                 ELSE Cardinality(Profiles) - 1

\* "ok is false when every candidate fails" (ladder.go:25): a plugin without a
\* User-Agent ladder gives up only after every profile has been probed, except the
\* one that was pinned when the walk began, which it takes for tried although
\* another request may have pinned it meanwhile. That goes for the plugin without a
\* pin and without an engine too, which the comment at ladder.go:47-51 says is
\* restricted to stdlib, but no code restricts.
WalkExhausts ==
  [][\A r \in Requests :
       At(r, "walk") /\ ~gone[r] /\ ~Listed /\ (At(r, "submit")' \/ result'[r] = "verify")
       => probes[r] = Cardinality(Profiles \ {tried[r]})]_vars

Earned(r, answer) == answer \in {"ok", "page"} /\ ~Blocked(r, answer)

\* "A 429/5xx from a rung must not become permanent" (ladder.go:22-24): memory and
\* database, profile and User-Agent are only ever set by a request that the origin
\* has just answered cleanly, and to what it was answered on, whatever the other
\* requests and a reset do between its three writes.
PinsEarned ==
  [][/\ pin' \notin {pin, None} =>
          \E r \in Requests : At(r, "walk") /\ Earned(r, result'[r]) /\ pin' = Ladder[rung[r]]
     /\ stored' \notin {stored, None} =>
          \E r \in Requests : At(r, "store") /\ Earned(r, result[r]) /\ stored' = Ladder[rung[r]]
     /\ uaPin' \notin {uaPin, None} =>
          \E r \in Requests : /\ At(r, "pinUA") /\ Earned(r, result[r])
                              /\ \E i \in walk[r] : IsFirst(i, walk[r]) /\ uaPin' = Entry(i)]_vars

\* "The seed applies whether the plugin's client exists yet or not"
\* (verify.go:65): no client, however old, goes without the cookies of a solve.
JarsSeeded == seeded => ~bare

\* A call has a step of its own: on its way it always has, in a walk if there is a
\* first rung or a first User-Agent, while it waits for a solve only when there
\* is an outcome or its caller has gone.
RequestMoves(r) ==
  /\ ~At(r, "idle") /\ ~At(r, "done")
  /\ At(r, "walk") \/ At(r, "pinUA") =>
       \/ At(r, "walk") /\ (gone[r] \/ (walk[r] = {} /\ Unseen(r) = {}))
       \/ At(r, "walk") /\ walk[r] = {} /\ \E i \in Unseen(r) : IsFirst(i, Unseen(r))
       \/ \E i \in walk[r] : IsFirst(i, walk[r])
  /\ At(r, "wait") => gone[r] \/ solve[r] \in {"found", "failed"}

\* A solve has: a queued one when a worker is free, a running one whatever has
\* become of its caller.
LaneMoves(r) ==
  solve[r] = "running" \/ (solve[r] = "queued" /\ Cardinality(OnLane) < CDPWorkers)

\* "The wait is bounded by ctx" (challenge.go:60): a call can always go on by
\* itself, or some solve on the lane can; no orphaned solve keeps the lane, and
\* the calls behind it, for good. The exception is the code's: a call whose solve
\* the lane has refused waits until its deadline, if it has one.
CallsGoOn ==
  \A r \in Requests :
    \/ At(r, "idle") \/ At(r, "done")
    \/ RequestMoves(r)
    \/ \E q \in Requests : LaneMoves(q)
    \/ At(r, "wait") /\ solve[r] = "refused"

\* What moves by this count does have a step that the specification lets it take.
MovesAreSteps ==
  \A r \in Requests :
    /\ RequestMoves(r) => ENABLED Request(r)
    /\ LaneMoves(r) => ENABLED Lane(r)

\* Nobody is stuck, by the count and by the steps.
NobodyStuck == CallsGoOn /\ MovesAreSteps

\* The lane never holds two solves for one call, though SubmitSolve's job has no
\* DedupeKey (service.go:58): what an abandoned wait leaves behind belongs to a
\* caller that has gone, for whom nothing is sent that could meet another challenge.
OneSolveEach == \A r \in Requests : At(r, "submit") => solve[r] = "none"

=============================================================================
