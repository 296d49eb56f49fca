------------------------------- MODULE JobHub -------------------------------
(***************************************************************************)
(* The status hub: what the pool says of its jobs (setStatus, SetProgress),*)
(* the registry of WebSocket clients and the broadcast to them             *)
(* (internal/httpserver/ws.go), and the page that has submitted a job and  *)
(* waits for its end (submitJobAction in alpine-components.js). A job is   *)
(* said to have moved by the goroutine that moves it, which waits for the  *)
(* hub's mutex and then for the sockets of all who are told.               *)
(***************************************************************************)
EXTENDS Naturals, Sequences, FiniteSets

CONSTANTS
  Pages,        \* pages with a form whose action is a job, one click each
  Watchers,     \* other clients of /api/jobs/ws, which filter as they like
  KeyOf,        \* the DedupeKey of each page's job
  NoKey,        \* the DedupeKey of the jobs nobody clicked for
  MaxJobs,      \* bound on the jobs enqueued
  Attempts,     \* Job.MaxAttempts
  Reporters,    \* the jobs whose Run reports progress
  Room,         \* messages a connection buffers ahead of its reader
  Casts         \* bound: <<the clients that turn up, the jobs over before they do>>

Clients == Pages \cup Watchers

Jobs == 1..MaxJobs

Keys == {KeyOf[p] : p \in Pages} \cup {NoKey}

ASSUME HubAssumption ==
  /\ MaxJobs \in Nat /\ Room \in Nat \ {0}
  /\ Attempts \in [Jobs -> Nat \ {0}] /\ Reporters \subseteq Jobs
  /\ Casts \subseteq (SUBSET Clients) \X (0..MaxJobs)
  /\ Pages \cap Watchers = {}
  /\ KeyOf \in [Pages -> Keys] /\ \A p \in Pages : KeyOf[p] # NoKey

VARIABLES
  seq,       \* Pool.seq: jobs get the numbers 1, 2, ...
  key,       \* each job's DedupeKey
  place,     \* where each job is
  attempt,   \* its attempt
  saying,    \* what its goroutine is announcing: it waits in the callback
  said,      \* what was announced of it last
  want,      \* the job each page has asked for
  shown,     \* what the page shows of it
  conn,      \* each client's connection, seen from the client
  handler,   \* streamJobs for that connection
  conns,     \* jobClients.conns
  filtered,  \* jobClients.filtered
  speaker,   \* who holds jobClients.mu over a broadcast: a job, or 0
  todo,      \* the writes it has left, <<client, map it is in>>
  inbox,     \* what each connection has buffered
  asked,     \* history: the jobs a client has filtered by since it registered or un-filtered
  due        \* history: what a client is owed and has not read

jobVars == <<seq, key, place, attempt>>
pageVars == <<want, shown>>
hubVars == <<conns, filtered, handler, asked>>
castVars == <<speaker, todo, inbox, due>>
vars == <<jobVars, saying, said, pageVars, conn, hubVars, castVars>>

Places == {"none", "pushing", "queued", "running", "backoff", "over", "refused", "settled"}

Statuses == {"queued", "running", "progress", "failed", "done", "dead"}

\* The last thing the pool says of a job.
Final == {"done", "dead"}

Silent(j) == saying[j] = "nothing"

Messages == Jobs \X Statuses

TypeOK ==
  /\ seq \in 0..MaxJobs
  /\ key \in [Jobs -> Keys]
  /\ place \in [Jobs -> Places]
  /\ attempt \in [Jobs -> Nat]
  /\ saying \in [Jobs -> Statuses \cup {"nothing"}]
  /\ said \in [Jobs -> Statuses \cup {"nothing"}]
  /\ want \in [Pages -> 0..MaxJobs]
  /\ shown \in [Pages -> {"form", "asking", "queued", "done", "failed", "left"}]
  /\ conn \in [Clients -> {"none", "open", "closed"}]
  /\ handler \in [Clients -> {"none", "on", "gone"}]
  /\ conns \in SUBSET Clients
  /\ filtered \in [Jobs -> SUBSET Clients]
  /\ speaker \in 0..MaxJobs
  /\ todo \in SUBSET (Clients \X {"filtered", "all"})
  /\ inbox \in [Clients -> Seq(Messages)]
  /\ asked \in [Clients -> SUBSET Jobs]
  /\ due \in [Clients -> Seq(Messages)]
  /\ speaker = 0 => todo = {}
  /\ speaker # 0 => ~Silent(speaker)

Init ==
  /\ \E cast \in Casts :
       /\ seq = cast[2]
       /\ place = [j \in Jobs |-> IF j <= cast[2] THEN "settled" ELSE "none"]
       /\ said = [j \in Jobs |-> IF j <= cast[2] THEN "done" ELSE "nothing"]
       /\ shown = [p \in Pages |-> IF p \in cast[1] THEN "form" ELSE "left"]
       /\ conn = [c \in Clients |-> IF c \in cast[1] THEN "none" ELSE "closed"]
       /\ handler = [c \in Clients |-> IF c \in cast[1] THEN "none" ELSE "gone"]
  /\ key = [j \in Jobs |-> NoKey]
  /\ attempt = [j \in Jobs |-> 0]
  /\ saying = [j \in Jobs |-> "nothing"]
  /\ want = [p \in Pages |-> 0]
  /\ conns = {}
  /\ filtered = [j \in Jobs |-> {}]
  /\ speaker = 0
  /\ todo = {}
  /\ inbox = [c \in Clients |-> <<>>]
  /\ asked = [c \in Clients |-> {}]
  /\ due = [c \in Clients |-> <<>>]

-----------------------------------------------------------------------------
(* The jobs. Every change of status is announced before the job goes on. *)

\* The job in the dedupe map whose future is open.
Live(k) == {j \in Jobs : key[j] = k /\ place[j] \in {"pushing", "queued", "running", "backoff", "over"}}

\* A job is put into the registry, and "queued" is announced before the push.
Publish(k) ==
  /\ seq < MaxJobs
  /\ seq' = seq + 1
  /\ key' = [key EXCEPT ![seq'] = k]
  /\ place' = [place EXCEPT ![seq'] = "pushing"]
  /\ saying' = [saying EXCEPT ![seq'] = "queued"]
  /\ UNCHANGED <<attempt, said>>

\* A page's form is submitted: Enqueue hands it the job on its way ...
SubmitJoin(p) ==
  /\ shown[p] = "form"
  /\ \E j \in Live(KeyOf[p]) : want' = [want EXCEPT ![p] = j]
  /\ shown' = [shown EXCEPT ![p] = "queued"]
  /\ UNCHANGED <<jobVars, saying, said, conn, hubVars, castVars>>

\* ... or starts one, and the page waits for the push.
SubmitNew(p) ==
  /\ shown[p] = "form"
  /\ Live(KeyOf[p]) = {}
  /\ Publish(KeyOf[p])
  /\ want' = [want EXCEPT ![p] = seq']
  /\ shown' = [shown EXCEPT ![p] = "asking"]
  /\ UNCHANGED <<conn, hubVars, castVars>>

\* A job nobody has clicked for: a page image, a warm-up, a plugin call.
Background ==
  /\ Publish(NoKey)
  /\ UNCHANGED <<pageVars, conn, hubVars, castVars>>

\* The page that waits for the push of j is answered.
Answer(j, s) == shown' = [p \in Pages |-> IF shown[p] = "asking" /\ want[p] = j THEN s ELSE shown[p]]

MoveTo(j, from, to) ==
  /\ Silent(j)
  /\ place[j] = from
  /\ place' = [place EXCEPT ![j] = to]

Say(j, s) == saying' = [saying EXCEPT ![j] = s]

Push(j) ==
  /\ MoveTo(j, "pushing", "queued")
  /\ Answer(j, "queued")
  /\ UNCHANGED <<seq, key, attempt, saying, said, want, conn, hubVars, castVars>>

\* The lane stays full, or the page has gone: the job is taken out of the registry, then "dead" is announced.
Refuse(j) ==
  /\ MoveTo(j, "pushing", "refused")
  /\ Say(j, "dead")
  /\ UNCHANGED <<seq, key, attempt, said, pageVars, conn, hubVars, castVars>>

Start(j) ==
  /\ MoveTo(j, "queued", "running")
  /\ attempt' = [attempt EXCEPT ![j] = 1]
  /\ Say(j, "running")
  /\ UNCHANGED <<seq, key, said, pageVars, conn, hubVars, castVars>>

\* SetProgress from inside Run; reports that follow each other are alike.
Progress(j) ==
  /\ j \in Reporters /\ place[j] = "running" /\ Silent(j)
  /\ said[j] # "progress"
  /\ Say(j, "progress")
  /\ UNCHANGED <<jobVars, said, pageVars, conn, hubVars, castVars>>

\* An attempt ends well, for good, or in an error that is worth another one.
RunReturns(j) ==
  /\ \/ MoveTo(j, "running", "over") /\ \E s \in Final : Say(j, s)
     \/ MoveTo(j, "running", "backoff") /\ attempt[j] < Attempts[j] /\ Say(j, "failed")
  /\ UNCHANGED <<seq, key, attempt, said, pageVars, conn, hubVars, castVars>>

\* The next attempt is not announced.
Backoff(j) ==
  /\ MoveTo(j, "backoff", "running")
  /\ attempt' = [attempt EXCEPT ![j] = @ + 1]
  /\ UNCHANGED <<seq, key, saying, said, pageVars, conn, hubVars, castVars>>

\* The future is closed; a refused page is answered with an error.
Settle(j) ==
  /\ MoveTo(j, "over", "settled") \/ MoveTo(j, "refused", "settled")
  /\ Answer(j, "failed")
  /\ UNCHANGED <<seq, key, attempt, saying, said, want, conn, hubVars, castVars>>

JobStep(j) ==
  \/ Push(j) \/ Refuse(j) \/ Start(j)
  \/ Progress(j) \/ RunReturns(j) \/ Backoff(j) \/ Settle(j)

-----------------------------------------------------------------------------
(* The hub. *)

\* Who should be told of job j, by what the clients have asked for.
Interested(c, j) == handler[c] = "on" /\ (asked[c] = {} \/ j \in asked[c])

\* broadcastJobMessage takes clients.mu.
Announce(j) ==
  /\ ~Silent(j)
  /\ speaker = 0
  /\ speaker' = j
  /\ todo' = (filtered[j] \X {"filtered"}) \cup (conns \X {"all"})
  /\ said' = [said EXCEPT ![j] = saying[j]]
  /\ due' = [c \in Clients |-> IF Interested(c, j) /\ conn[c] = "open"
                               THEN Append(due[c], <<j, saying[j]>>) ELSE due[c]]
  /\ UNCHANGED <<jobVars, saying, pageVars, conn, hubVars, inbox>>

\* Mutant of Write: a write waits for a connection that is closed.
WriteToTheDead(c, m) ==
  /\ <<c, m>> \in todo
  /\ m = "all" => \A d \in Clients : <<d, "filtered">> \notin todo
  /\ conn[c] = "open" /\ Len(inbox[c]) < Room
  /\ inbox' = [inbox EXCEPT ![c] = Append(@, <<speaker, saying[speaker]>>)]
  /\ todo' = todo \ {<<c, m>>}
  /\ UNCHANGED <<jobVars, saying, said, pageVars, conn, hubVars, speaker, due>>

\* The filtered connections first, then the rest. A write to a connection
\* that is full waits, one to a connection that is closed fails at once.
Write(c, m) ==
  /\ <<c, m>> \in todo
  /\ m = "all" => \A d \in Clients : <<d, "filtered">> \notin todo
  /\ \/ /\ conn[c] = "open" /\ Len(inbox[c]) < Room
        /\ inbox' = [inbox EXCEPT ![c] = Append(@, <<speaker, saying[speaker]>>)]
     \/ conn[c] # "open" /\ UNCHANGED inbox
  /\ todo' = todo \ {<<c, m>>}
  /\ UNCHANGED <<jobVars, saying, said, pageVars, conn, hubVars, speaker, due>>

\* The mutex is given back, and the job goes on.
EndBroadcast ==
  /\ speaker # 0 /\ todo = {}
  /\ speaker' = 0
  /\ Say(speaker, "nothing")
  /\ UNCHANGED <<jobVars, said, pageVars, conn, hubVars, todo, inbox, due>>

\* streamJobs registers the connection for all jobs.
Register(c) ==
  /\ conn[c] # "none" /\ handler[c] = "none"
  /\ speaker = 0
  /\ handler' = [handler EXCEPT ![c] = "on"]
  /\ conns' = conns \cup {c}
  /\ UNCHANGED <<jobVars, saying, said, pageVars, conn, filtered, asked, castVars>>

\* The client's next message: a page names the job it waits for, once; a
\* watcher may name any job, or none to get all.
Message(c, f) == c \in Pages => asked[c] = {} /\ f = want[c]

\* Mutant of Unfilter, the orphaned socket of an earlier version: not back to all.
UnfilterOrphans(c) ==
  /\ filtered' = [j \in Jobs |-> filtered[j] \ {c}]
  /\ UNCHANGED conns
  /\ asked' = [asked EXCEPT ![c] = {}]

\* filterClient with the empty id: out of every bucket, back to all.
Unfilter(c) ==
  /\ filtered' = [j \in Jobs |-> filtered[j] \ {c}]
  /\ conns' = conns \cup {c}
  /\ asked' = [asked EXCEPT ![c] = {}]

\* Mutant of FilterBy: the connection is in no bucket afterwards.
FilterDrops(c, j) ==
  /\ UNCHANGED filtered
  /\ conns' = conns \ {c}
  /\ asked' = [asked EXCEPT ![c] = @ \cup {j}]

\* filterClient with a job: into its bucket, beside those it is in already.
FilterBy(c, j) ==
  /\ filtered' = [filtered EXCEPT ![j] = @ \cup {c}]
  /\ conns' = conns \ {c}
  /\ asked' = [asked EXCEPT ![c] = @ \cup {j}]

\* The reader goroutine of streamJobs takes the client's next message.
FilterClient(c) ==
  /\ handler[c] = "on"
  /\ speaker = 0
  /\ \E f \in 0..MaxJobs : Message(c, f) /\ IF f = 0 THEN Unfilter(c) ELSE FilterBy(c, f)
  /\ UNCHANGED <<jobVars, saying, said, pageVars, conn, handler, castVars>>

\* The read fails: unregisterJobClient.
Unregister(c) ==
  /\ handler[c] = "on" /\ conn[c] = "closed"
  /\ speaker = 0
  /\ handler' = [handler EXCEPT ![c] = "gone"]
  /\ conns' = conns \ {c}
  /\ filtered' = [j \in Jobs |-> filtered[j] \ {c}]
  /\ asked' = [asked EXCEPT ![c] = {}]
  /\ UNCHANGED <<jobVars, saying, said, pageVars, conn, castVars>>

HubStep(c) == Register(c) \/ FilterClient(c) \/ Unregister(c)

-----------------------------------------------------------------------------
(* The clients. *)

\* A page opens its connection when it has the job's id.
Connect(c) ==
  /\ conn[c] = "none"
  /\ c \in Pages => shown[c] = "queued"
  /\ conn' = [conn EXCEPT ![c] = "open"]
  /\ UNCHANGED <<jobVars, saying, said, pageVars, hubVars, castVars>>

\* Whatever is under way to the client is lost.
Close(c) ==
  /\ conn' = [conn EXCEPT ![c] = "closed"]
  /\ inbox' = [inbox EXCEPT ![c] = <<>>]
  /\ due' = [due EXCEPT ![c] = <<>>]

\* ws.onmessage: other jobs are ignored, "done" and "failed" end the wait and
\* close the connection; the page knows no other status to end on.
Receive(c) ==
  /\ conn[c] = "open" /\ inbox[c] # <<>>
  /\ LET m == Head(inbox[c]) IN
       IF c \in Pages /\ m[1] = want[c] /\ m[2] \in {"done", "failed"}
       THEN Close(c) /\ shown' = [shown EXCEPT ![c] = m[2]]
       ELSE /\ inbox' = [inbox EXCEPT ![c] = Tail(@)]
            /\ due' = [due EXCEPT ![c] = Tail(@)]
            /\ UNCHANGED <<conn, shown>>
  /\ UNCHANGED <<jobVars, saying, said, want, hubVars, speaker, todo>>

\* ws.onerror: a connection that breaks is shown as a failure.
SocketError(p) ==
  /\ conn[p] = "open"
  /\ Close(p)
  /\ shown' = [shown EXCEPT ![p] = "failed"]
  /\ UNCHANGED <<jobVars, saying, said, want, hubVars, speaker, todo>>

\* The reader goes elsewhere, or a watcher stops.
Leave(c) ==
  /\ IF c \in Pages THEN shown[c] \in {"asking", "queued"} /\ shown' = [shown EXCEPT ![c] = "left"]
                    ELSE conn[c] = "open" /\ UNCHANGED shown
  /\ IF conn[c] = "open" THEN Close(c) ELSE UNCHANGED <<conn, inbox, due>>
  /\ UNCHANGED <<jobVars, saying, said, want, hubVars, speaker, todo>>

-----------------------------------------------------------------------------
Next ==
  \/ \E p \in Pages : SubmitJoin(p) \/ SubmitNew(p) \/ SocketError(p)
  \/ Background
  \/ \E j \in Jobs : JobStep(j) \/ Announce(j)
  \/ \E c \in Clients, m \in {"filtered", "all"} : Write(c, m)
  \/ EndBroadcast
  \/ \E c \in Clients : HubStep(c) \/ Connect(c) \/ Receive(c) \/ Leave(c)

Spec == Init /\ [][Next]_vars

\* Goroutines are scheduled, a lane takes a job or its timer ends the push, a
\* Run ends (its callers bound it), a mutex is not withheld; and a browser
\* reads its socket. Nobody has to submit, to leave, to filter by a second job.
Fairness ==
  /\ \A j \in Jobs : WF_vars(JobStep(j)) /\ WF_vars(Announce(j))
  /\ \A c \in Clients, m \in {"filtered", "all"} : WF_vars(Write(c, m))
  /\ WF_vars(EndBroadcast)
  /\ \A c \in Clients : WF_vars(Register(c)) /\ WF_vars(Unregister(c)) /\ WF_vars(Receive(c))
  /\ \A p \in Pages : WF_vars(Connect(p)) /\ WF_vars(FilterClient(p))

FairSpec == Spec /\ Fairness

-----------------------------------------------------------------------------
(* Properties *)

\* The hub is about to write to c.
Pending(c) == \E m \in {"filtered", "all"} : <<c, m>> \in todo

\* What c can read and is about to be sent.
Coming(c) == IF Pending(c) THEN Append(inbox[c], <<speaker, saying[speaker]>>) ELSE inbox[c]

\* A client that is registered gets every message about what it has asked for
\* once, in the order the jobs moved in, and nothing else - although it moves
\* between the two maps of jobClients as it filters and un-filters, and a
\* broadcast goes over both.
EveryMessageOnce == \A c \in Clients : conn[c] = "open" => Coming(c) = due[c]

\* What was announced last of the job page p has asked for.
LastSaid(p) == IF want[p] = 0 THEN "nothing" ELSE said[want[p]]

\* A page whose connection was registered before the job's last status was
\* announced shows how the job ended, or its reader has left it, whoever else
\* joins, filters or leaves; unless that status is "dead", which the page does
\* not know (alpine-components.js:395). A page that registers after the
\* announcement is told nothing, and is not spoken of.
SubscribersHear ==
  \A p \in Pages :
    (handler[p] = "on" /\ LastSaid(p) \notin Final)
      ~> (shown[p] \in {"done", "failed", "left"} \/ LastSaid(p) = "dead")

\* As long as browsers read their sockets every job ends: the hub's mutex and
\* the writes under it keep no job from going on for good.
EveryJobEnds == \A j \in Jobs : place[j] # "none" ~> place[j] = "settled"

-----------------------------------------------------------------------------
(* The jobs as the callers of the pool see them. *)

\* The phase of a job whose goroutine is at that place.
PhaseAt ==
  [none |-> "new", pushing |-> "waiting", queued |-> "waiting", refused |-> "waiting",
   running |-> "running", backoff |-> "running", over |-> "finished", settled |-> "settled"]

Phases == [j \in Jobs |-> PhaseAt[place[j]]]

\* What its future holds: what was announced of it last.
Outcomes == [j \in Jobs |-> IF place[j] = "settled" /\ said[j] = "dead" THEN "error" ELSE "nil"]

Life == INSTANCE JobLifecycle WITH
          phase <- Phases, outcome <- Outcomes, Conflict <- {}, Errors <- {"nil", "error"}

\* Every step of a job and of the hub is one of JobLifecycle's or a stutter: a
\* job whose status changes wait for a mutex and for sockets runs once and is
\* settled once all the same, and one that was refused is announced as dead
\* before its callers get their error.
JobsLiveOnce == [][Life!Next]_<<Phases, Outcomes>>

\* Of a job whose future is closed nothing more will be announced, and what was
\* announced last is its end, whoever holds the hub's mutex (enqueue_job.go:104-131,
\* future.go:46-56): a page need not look further than that.
EndIsLastWord == \A j \in Jobs : place[j] = "settled" => Silent(j) /\ said[j] \in Final

=============================================================================
