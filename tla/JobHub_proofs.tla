---------------------------- MODULE JobHub_proofs ----------------------------
(***************************************************************************)
(* Proofs about JobHub: for every number of jobs, pages and watchers, and  *)
(* however they filter, the two maps of jobClients say who is to be told,  *)
(* and a client that is registered gets every message it is owed once.     *)
(***************************************************************************)
EXTENDS JobHub, TLAPS

\* A job that is yet to be enqueued has not been heard of.
Numbered == \A j \in Jobs : j > seq => place[j] = "none" /\ Silent(j)

\* The maps hold a client where it has asked to be, and nowhere else.
Placed ==
  \A c \in Clients :
    /\ c \in conns <=> handler[c] = "on" /\ asked[c] = {}
    /\ \A j \in Jobs : c \in filtered[j] <=> handler[c] = "on" /\ j \in asked[c]
    /\ handler[c] # "on" => asked[c] = {}

\* The maps stand still under a broadcast.
Targets ==
  \A c \in Clients :
    /\ <<c, "filtered">> \in todo => c \in filtered[speaker]
    /\ <<c, "all">> \in todo => c \in conns

\* A connection is there before it is registered, and gets what it is owed.
Delivered ==
  \A c \in Clients :
    /\ conn[c] = "none" => handler[c] # "on"
    /\ conn[c] # "closed" => Coming(c) = due[c]

HubInv == TypeOK /\ Numbered /\ Placed /\ Targets /\ Delivered

USE HubAssumption

\* Reading the head of a queue and adding to its end do not disturb each other.
LEMMA TailAppend ==
  ASSUME NEW S, NEW s \in Seq(S), NEW x \in S, s # <<>>
  PROVE  /\ Tail(Append(s, x)) = Append(Tail(s), x)
         /\ Tail(s) \in Seq(S) /\ Append(Tail(s), x) \in Seq(S)
OBVIOUS

LEMMA InitHub == Init => HubInv
<1> SUFFICES ASSUME Init PROVE HubInv
  OBVIOUS
<1>1. PICK cast \in Casts :
        /\ seq = cast[2]
        /\ place = [j \in Jobs |-> IF j <= cast[2] THEN "settled" ELSE "none"]
        /\ said = [j \in Jobs |-> IF j <= cast[2] THEN "done" ELSE "nothing"]
        /\ shown = [p \in Pages |-> IF p \in cast[1] THEN "form" ELSE "left"]
        /\ conn = [c \in Clients |-> IF c \in cast[1] THEN "none" ELSE "closed"]
        /\ handler = [c \in Clients |-> IF c \in cast[1] THEN "none" ELSE "gone"]
  BY DEF Init
<1>2. seq \in 0..MaxJobs
  BY <1>1
<1>3. TypeOK
  BY <1>1, <1>2 DEF Init, TypeOK, Jobs, Keys, Places, Statuses, Messages, Silent
<1>4. Numbered
  BY <1>1 DEF Init, Numbered, Jobs, Silent
<1>5. Placed /\ Targets /\ Delivered
  BY <1>1 DEF Init, Placed, Targets, Delivered, Coming, Pending
<1> QED BY <1>3, <1>4, <1>5 DEF HubInv

\* Who holds the mutex is a job that was enqueued and waits in its callback.
LEMMA SpeakerKnown ==
  ASSUME HubInv, speaker # 0
  PROVE  /\ speaker \in Jobs /\ ~Silent(speaker) /\ speaker <= seq
         /\ <<speaker, saying[speaker]>> \in Messages
<1>1. speaker \in Jobs /\ ~Silent(speaker)
  BY DEF HubInv, TypeOK, Jobs
<1>2. speaker <= seq /\ seq \in Nat /\ speaker \in Nat
  BY <1>1 DEF HubInv, TypeOK, Numbered, Jobs
<1>3. saying[speaker] \in Statuses
  BY <1>1 DEF HubInv, TypeOK, Silent
<1> QED BY <1>1, <1>2, <1>3 DEF Messages

\* A step of a job that is not the one that speaks changes nothing for the hub.
LEMMA JobKeeps ==
  ASSUME HubInv, UNCHANGED <<conn, hubVars, castVars>>,
         NEW j \in Jobs, j # speaker, \A i \in Jobs : i # j => saying'[i] = saying[i]
  PROVE  Placed' /\ Targets' /\ Delivered'
<1>1. Placed' /\ Targets'
  BY DEF HubInv, Placed, Targets, hubVars, castVars
<1>2. ASSUME NEW c \in Clients PROVE Coming(c)' = Coming(c)
  <2>1. CASE Pending(c)
    <3>1. speaker # 0
      BY <2>1 DEF HubInv, TypeOK, Pending
    <3>2. saying'[speaker] = saying[speaker]
      BY <3>1, SpeakerKnown
    <3> QED BY <3>2 DEF Coming, Pending, castVars
  <2>2. CASE ~Pending(c)
    BY <2>2 DEF Coming, Pending, castVars
  <2> QED BY <2>1, <2>2
<1> QED BY <1>1, <1>2 DEF HubInv, Delivered, hubVars, castVars

\* Enqueue publishes a job under the next number.
LEMMA PublishKeeps ==
  ASSUME HubInv, NEW k \in Keys, Publish(k), UNCHANGED <<conn, hubVars, castVars>>,
         want' \in [Pages -> 0..MaxJobs],
         shown' \in [Pages -> {"form", "asking", "queued", "done", "failed", "left"}]
  PROVE  HubInv'
<1>1. seq \in Nat /\ seq' = seq + 1 /\ seq' \in Jobs
  BY DEF HubInv, TypeOK, Publish, Jobs
<1>2. speaker # seq'
  BY <1>1, SpeakerKnown
<1>3. TypeOK'
  <2>1. /\ seq' \in 0..MaxJobs /\ key' \in [Jobs -> Keys] /\ place' \in [Jobs -> Places]
        /\ saying' \in [Jobs -> Statuses \cup {"nothing"}]
    BY <1>1 DEF HubInv, TypeOK, Publish, Places, Statuses, Jobs
  <2>2. speaker # 0 => ~Silent(speaker)'
    BY <1>2, SpeakerKnown DEF Publish, Silent, HubInv, TypeOK, castVars
  <2> QED BY <2>1, <2>2 DEF HubInv, TypeOK, Publish, hubVars, castVars
<1>4. Numbered'
  BY <1>1 DEF HubInv, TypeOK, Numbered, Publish, Silent, Jobs
<1>5. Placed' /\ Targets' /\ Delivered'
  <2>1. \A i \in Jobs : i # seq' => saying'[i] = saying[i]
    BY <1>1 DEF HubInv, TypeOK, Publish
  <2> QED BY <1>1, <1>2, <2>1, JobKeeps
<1> QED BY <1>3, <1>4, <1>5 DEF HubInv

LEMMA SubmitKeeps ==
  ASSUME HubInv, NEW p \in Pages, SubmitJoin(p) \/ SubmitNew(p)
  PROVE  HubInv'
<1>1. CASE SubmitJoin(p)
  <2>1. TypeOK'
    BY <1>1 DEF HubInv, TypeOK, SubmitJoin, Live, Jobs, jobVars, hubVars, castVars, Silent
  <2>2. Numbered' /\ Placed' /\ Targets' /\ Delivered'
    BY <1>1 DEF HubInv, SubmitJoin, Numbered, Placed, Targets, Delivered, Coming, Pending,
                jobVars, hubVars, castVars, Silent
  <2> QED BY <2>1, <2>2 DEF HubInv
<1>2. CASE SubmitNew(p)
  <2>1. KeyOf[p] \in Keys
    BY DEF Keys
  <2>2. Publish(KeyOf[p]) /\ UNCHANGED <<conn, hubVars, castVars>>
    BY <1>2 DEF SubmitNew
  <2>3. /\ want' \in [Pages -> 0..MaxJobs]
        /\ shown' \in [Pages -> {"form", "asking", "queued", "done", "failed", "left"}]
    BY <1>2 DEF HubInv, TypeOK, SubmitNew, Publish
  <2> QED BY <2>1, <2>2, <2>3, PublishKeeps
<1> QED BY <1>1, <1>2

LEMMA BackgroundKeeps == ASSUME HubInv, Background PROVE HubInv'
<1>1. NoKey \in Keys
  BY DEF Keys
<1>2. Publish(NoKey) /\ UNCHANGED <<conn, hubVars, castVars>>
  BY DEF Background
<1>3. /\ want' \in [Pages -> 0..MaxJobs]
      /\ shown' \in [Pages -> {"form", "asking", "queued", "done", "failed", "left"}]
  BY DEF Background, HubInv, TypeOK, pageVars
<1> QED BY <1>1, <1>2, <1>3, PublishKeeps

LEMMA JobStepKeeps == ASSUME HubInv, NEW j \in Jobs, JobStep(j) PROVE HubInv'
<1> USE DEF MoveTo, Say, Answer
<1>1. Silent(j) /\ j # speaker
  <2>1. Silent(j)
    BY DEF JobStep, Push, Refuse, Start, Progress, RunReturns, Backoff, Settle
  <2> QED BY <2>1, SpeakerKnown DEF Jobs
<1>2. /\ UNCHANGED <<seq, key, said, want, conn, hubVars, castVars>>
      /\ place[j] # "none"
      /\ \A i \in Jobs : i # j => saying'[i] = saying[i] /\ place'[i] = place[i]
  BY DEF JobStep, Push, Refuse, Start, Progress, RunReturns, Backoff, Settle, jobVars, pageVars,
         HubInv, TypeOK
<1>3. /\ place' \in [Jobs -> Places]
      /\ saying' \in [Jobs -> Statuses \cup {"nothing"}]
  <2>1. place \in [Jobs -> Places] /\ saying \in [Jobs -> Statuses \cup {"nothing"}]
    BY DEF HubInv, TypeOK
  <2>2. \/ UNCHANGED place
        \/ \E s \in Places : place' = [place EXCEPT ![j] = s]
    BY DEF JobStep, Push, Refuse, Start, Progress, RunReturns, Backoff, Settle, jobVars, Places
  <2>3. \/ UNCHANGED saying
        \/ \E s \in Statuses : saying' = [saying EXCEPT ![j] = s]
    BY DEF JobStep, Push, Refuse, Start, Progress, RunReturns, Backoff, Settle, Statuses, Final
  <2> QED BY <2>1, <2>2, <2>3
<1>4. /\ attempt' \in [Jobs -> Nat]
      /\ shown' \in [Pages -> {"form", "asking", "queued", "done", "failed", "left"}]
  BY DEF JobStep, Push, Refuse, Start, Progress, RunReturns, Backoff, Settle, jobVars, pageVars,
         HubInv, TypeOK
<1>5. TypeOK'
  <2>1. speaker # 0 => ~Silent(speaker)'
    BY <1>1, <1>2, SpeakerKnown DEF Silent, castVars
  <2> QED BY <1>2, <1>3, <1>4, <2>1 DEF HubInv, TypeOK, hubVars, castVars
<1>6. Numbered'
  BY <1>2 DEF HubInv, TypeOK, Numbered, Silent, Jobs
<1>7. Placed' /\ Targets' /\ Delivered'
  BY <1>1, <1>2, JobKeeps
<1> QED BY <1>5, <1>6, <1>7 DEF HubInv

\* The audience of a broadcast is who has asked for it, each client once.
LEMMA AnnounceKeeps == ASSUME HubInv, NEW j \in Jobs, Announce(j) PROVE HubInv'
<1>1. /\ speaker = 0 /\ todo = {} /\ speaker' = j /\ ~Silent(j)
      /\ <<j, saying[j]>> \in Messages /\ saying[j] \in Statuses
  BY DEF Announce, HubInv, TypeOK, Messages, Silent
<1>2. TypeOK'
  <2>1. todo' \in SUBSET (Clients \X {"filtered", "all"})
    BY DEF Announce, HubInv, TypeOK
  <2>2. due' \in [Clients -> Seq(Messages)]
    <3>1. \A c \in Clients : due[c] \in Seq(Messages)
      BY DEF HubInv, TypeOK
    <3>2. \A c \in Clients : Append(due[c], <<j, saying[j]>>) \in Seq(Messages)
      BY <1>1, <3>1
    <3> QED BY <3>1, <3>2 DEF Announce
  <2>3. said' \in [Jobs -> Statuses \cup {"nothing"}] /\ speaker' \in 0..MaxJobs
    BY <1>1 DEF Announce, HubInv, TypeOK, Jobs
  <2>4. speaker' # 0 /\ ~Silent(speaker)'
    BY <1>1 DEF Announce, Silent, Jobs
  <2> QED BY <2>1, <2>2, <2>3, <2>4 DEF Announce, HubInv, TypeOK, jobVars, pageVars, hubVars
<1>3. Numbered' /\ Placed'
  BY DEF Announce, HubInv, Numbered, Placed, Silent, jobVars, hubVars
<1>4. Targets'
  BY <1>1 DEF Announce, Targets, hubVars
<1>5. Delivered'
  <2> SUFFICES ASSUME NEW c \in Clients
               PROVE  /\ conn[c] = "none" => handler[c] # "on"
                      /\ conn[c] # "closed" => Coming(c)' = due'[c]
    BY DEF Delivered, Announce, hubVars
  <2>1. conn[c] = "none" => handler[c] # "on"
    BY DEF HubInv, Delivered
  <2>2. ASSUME conn[c] # "closed" PROVE inbox[c] = due[c]
    BY <1>1, <2>2 DEF HubInv, Delivered, Coming, Pending
  <2>3. Pending(c)' <=> c \in conns \/ c \in filtered[j]
    BY DEF Announce, Pending
  <2>4. c \in conns \/ c \in filtered[j] <=> Interested(c, j)
    BY DEF HubInv, Placed, Interested
  <2>5. conn[c] \in {"none", "open", "closed"}
    BY DEF HubInv, TypeOK
  <2>6. ASSUME conn[c] # "closed" PROVE Coming(c)' = due'[c]
    <3>1. CASE Interested(c, j)
      <4>1. conn[c] = "open"
        BY <2>1, <2>5, <2>6, <3>1 DEF Interested
      <4>2. due'[c] = Append(due[c], <<j, saying[j]>>)
        BY <3>1, <4>1 DEF Announce
      <4>3. Coming(c)' = Append(inbox[c], <<j, saying[j]>>)
        BY <1>1, <2>3, <2>4, <3>1 DEF Coming, Announce
      <4> QED BY <4>2, <4>3, <2>2, <2>6
    <3>2. CASE ~Interested(c, j)
      <4>1. due'[c] = due[c]
        BY <3>2 DEF Announce
      <4>2. Coming(c)' = inbox[c]
        BY <2>3, <2>4, <3>2 DEF Coming, Announce
      <4> QED BY <4>1, <4>2, <2>2, <2>6
    <3> QED BY <3>1, <3>2
  <2> QED BY <2>1, <2>6
<1> QED BY <1>2, <1>3, <1>4, <1>5 DEF HubInv

\* A client is written to once in a broadcast: it is in one of the maps only.
LEMMA WriteKeeps ==
  ASSUME HubInv, NEW c \in Clients, NEW m \in {"filtered", "all"}, Write(c, m)
  PROVE  HubInv'
<1>1. speaker # 0 /\ speaker \in Jobs /\ <<speaker, saying[speaker]>> \in Messages
  BY SpeakerKnown DEF Write, HubInv, TypeOK
<1>2. TypeOK'
  <2>1. inbox' \in [Clients -> Seq(Messages)]
    <3>1. Append(inbox[c], <<speaker, saying[speaker]>>) \in Seq(Messages)
      BY <1>1 DEF HubInv, TypeOK
    <3> QED BY <3>1 DEF Write, HubInv, TypeOK
  <2> QED BY <2>1, <1>1 DEF Write, HubInv, TypeOK, jobVars, pageVars, hubVars, Silent
<1>3. Numbered' /\ Placed' /\ Targets'
  BY DEF Write, HubInv, Numbered, Placed, Targets, Silent, jobVars, hubVars
<1>4. handler[c] = "on" /\ conn[c] # "none"
  BY <1>1 DEF Write, HubInv, Placed, Targets, Delivered
<1>5. ~Pending(c)'
  <2>1. ~(<<c, "filtered">> \in todo /\ <<c, "all">> \in todo)
    BY <1>1 DEF HubInv, Placed, Targets
  <2> QED BY <2>1 DEF Write, Pending
<1>6. Coming(c) = Append(inbox[c], <<speaker, saying[speaker]>>)
  BY DEF Coming, Pending, Write
<1>7. Delivered'
  <2> SUFFICES ASSUME NEW d \in Clients
               PROVE  /\ conn[d] = "none" => handler[d] # "on"
                      /\ conn[d] # "closed" => Coming(d)' = due[d]
    BY DEF Delivered, Write, hubVars
  <2>1. conn[d] = "none" => handler[d] # "on"
    BY DEF HubInv, Delivered
  <2>2. CASE d # c
    <3>1. inbox'[d] = inbox[d]
      BY <2>2 DEF Write, HubInv, TypeOK
    <3>2. Pending(d)' <=> Pending(d)
      BY <2>2 DEF Write, Pending
    <3>3. Coming(d)' = Coming(d)
      BY <3>1, <3>2 DEF Coming, Write
    <3> QED BY <3>3, <2>1 DEF HubInv, Delivered
  <2>3. CASE d = c
    <3>1. ASSUME conn[c] # "closed" PROVE Coming(c)' = due[c]
      <4>1. conn[c] = "open"
        BY <1>4, <3>1 DEF HubInv, TypeOK
      <4>2. inbox'[c] = Append(inbox[c], <<speaker, saying[speaker]>>)
        BY <4>1 DEF Write, HubInv, TypeOK
      <4>3. Coming(c)' = Coming(c)
        BY <4>2, <1>5, <1>6 DEF Coming
      <4> QED BY <4>3, <3>1 DEF HubInv, Delivered
    <3> QED BY <2>1, <2>3, <3>1
  <2> QED BY <2>2, <2>3
<1> QED BY <1>2, <1>3, <1>7 DEF HubInv

LEMMA EndKeeps == ASSUME HubInv, EndBroadcast PROVE HubInv'
<1>1. speaker \in Jobs /\ speaker <= seq
  BY SpeakerKnown DEF EndBroadcast
<1>2. TypeOK' /\ Numbered'
  BY <1>1 DEF EndBroadcast, Say, HubInv, TypeOK, Numbered, Silent, jobVars, pageVars, hubVars
<1>3. Placed' /\ Targets' /\ Delivered'
  BY DEF EndBroadcast, HubInv, Placed, Targets, Delivered, Coming, Pending, hubVars
<1> QED BY <1>2, <1>3 DEF HubInv

\* The maps change only while nobody broadcasts.
LEMMA HubStepKeeps == ASSUME HubInv, NEW c \in Clients, HubStep(c) PROVE HubInv'
<1>1. /\ speaker = 0 /\ todo = {}
      /\ UNCHANGED <<jobVars, saying, said, pageVars, conn, castVars>>
  BY DEF HubStep, Register, FilterClient, Unregister, HubInv, TypeOK
<1>2. CASE Register(c)
  <2>1. TypeOK' /\ Numbered'
    BY <1>1, <1>2 DEF Register, HubInv, TypeOK, Numbered, Silent, jobVars, pageVars, castVars
  <2>2. Placed'
    BY <1>2 DEF Register, HubInv, TypeOK, Placed
  <2>3. Targets' /\ Delivered'
    BY <1>1, <1>2 DEF Register, HubInv, TypeOK, Targets, Delivered, Coming, Pending, castVars
  <2> QED BY <2>1, <2>2, <2>3 DEF HubInv
<1>3. CASE FilterClient(c)
  <2>1. PICK f \in 0..MaxJobs : IF f = 0 THEN Unfilter(c) ELSE FilterBy(c, f)
    BY <1>3 DEF FilterClient
  <2>2. f # 0 => f \in Jobs
    BY DEF Jobs
  <2>3. /\ conns' \in SUBSET Clients /\ filtered' \in [Jobs -> SUBSET Clients]
        /\ asked' \in [Clients -> SUBSET Jobs] /\ Placed'
    <3>1. /\ conns \in SUBSET Clients /\ filtered \in [Jobs -> SUBSET Clients]
          /\ asked \in [Clients -> SUBSET Jobs] /\ Placed
          /\ handler[c] = "on" /\ UNCHANGED handler
      BY <1>3 DEF FilterClient, HubInv, TypeOK
    <3>2. CASE f = 0
      BY <2>1, <3>1, <3>2 DEF Unfilter, Placed
    <3>3. CASE f # 0
      BY <2>1, <2>2, <3>1, <3>3 DEF FilterBy, Placed
    <3> QED BY <3>2, <3>3
  <2>4. TypeOK' /\ Numbered'
    BY <1>1, <1>3, <2>3
       DEF FilterClient, HubInv, TypeOK, Numbered, Silent, jobVars, pageVars, castVars
  <2>5. Targets' /\ Delivered'
    BY <1>1, <1>3 DEF FilterClient, HubInv, Targets, Delivered, Coming, Pending, castVars
  <2> QED BY <2>3, <2>4, <2>5 DEF HubInv
<1>4. CASE Unregister(c)
  <2>1. TypeOK' /\ Numbered'
    BY <1>1, <1>4 DEF Unregister, HubInv, TypeOK, Numbered, Silent, jobVars, pageVars, castVars
  <2>2. Placed'
    BY <1>4 DEF Unregister, HubInv, TypeOK, Placed
  <2>3. Targets' /\ Delivered'
    BY <1>1, <1>4 DEF Unregister, HubInv, TypeOK, Targets, Delivered, Coming, Pending, castVars
  <2> QED BY <2>1, <2>2, <2>3 DEF HubInv
<1> QED BY <1>2, <1>3, <1>4 DEF HubStep

\* A step of a client changes its connection and what it has of messages.
LEMMA ClientKeeps ==
  ASSUME HubInv, NEW c \in Clients,
         UNCHANGED <<jobVars, saying, said, want, hubVars, speaker, todo>>,
         shown' \in [Pages -> {"form", "asking", "queued", "done", "failed", "left"}],
         conn' \in [Clients -> {"none", "open", "closed"}],
         inbox' \in [Clients -> Seq(Messages)], due' \in [Clients -> Seq(Messages)],
         \A d \in Clients : d # c =>
           conn'[d] = conn[d] /\ inbox'[d] = inbox[d] /\ due'[d] = due[d],
         conn'[c] # "none" \/ conn[c] = "none",
         conn'[c] # "closed" => Coming(c)' = due'[c]
  PROVE  HubInv'
<1>1. TypeOK' /\ Numbered' /\ Placed' /\ Targets'
  BY DEF HubInv, TypeOK, Numbered, Placed, Targets, Silent, jobVars, hubVars
<1>2. \A d \in Clients : d # c => Coming(d)' = Coming(d)
  BY DEF Coming, Pending
<1>3. Delivered'
  BY <1>2 DEF HubInv, Delivered, hubVars
<1> QED BY <1>1, <1>3 DEF HubInv

LEMMA CloseTyped ==
  ASSUME HubInv, NEW c \in Clients, Close(c)
  PROVE  /\ conn' \in [Clients -> {"none", "open", "closed"}]
         /\ inbox' \in [Clients -> Seq(Messages)] /\ due' \in [Clients -> Seq(Messages)]
         /\ \A d \in Clients : d # c =>
              conn'[d] = conn[d] /\ inbox'[d] = inbox[d] /\ due'[d] = due[d]
         /\ conn'[c] = "closed"
<1>1. <<>> \in Seq(Messages)
  OBVIOUS
<1> QED BY <1>1 DEF Close, HubInv, TypeOK

LEMMA ConnectKeeps == ASSUME HubInv, NEW c \in Clients, Connect(c) PROVE HubInv'
<1>1. Coming(c) = due[c]
  BY DEF Connect, HubInv, Delivered
<1>2. Coming(c)' = due'[c]
  BY <1>1 DEF Connect, Coming, Pending, castVars
<1>3. conn' \in [Clients -> {"none", "open", "closed"}] /\ conn'[c] = "open"
      /\ \A d \in Clients : d # c => conn'[d] = conn[d]
  BY DEF Connect, HubInv, TypeOK
<1>4. TypeOK
  BY DEF HubInv
<1> QED BY <1>2, <1>3, <1>4, ClientKeeps DEF Connect, TypeOK, pageVars, castVars

LEMMA ReceiveKeeps == ASSUME HubInv, NEW c \in Clients, Receive(c) PROVE HubInv'
<1> DEFINE last == c \in Pages /\ Head(inbox[c])[1] = want[c] /\ Head(inbox[c])[2] \in {"done", "failed"}
<1>1. UNCHANGED <<jobVars, saying, said, want, hubVars, speaker, todo>>
  BY DEF Receive
<1>2. CASE last
  <2>1. Close(c) /\ shown' = [shown EXCEPT ![c] = Head(inbox[c])[2]]
    BY <1>2 DEF Receive
  <2>2. shown' \in [Pages -> {"form", "asking", "queued", "done", "failed", "left"}]
    BY <1>2, <2>1 DEF HubInv, TypeOK
  <2> QED BY <1>1, <2>1, <2>2, CloseTyped, ClientKeeps
<1>3. CASE ~last
  <2>1. /\ inbox' = [inbox EXCEPT ![c] = Tail(@)]
        /\ due' = [due EXCEPT ![c] = Tail(@)]
        /\ UNCHANGED <<conn, shown>>
    BY <1>3 DEF Receive
  <2>2. inbox[c] \in Seq(Messages) /\ inbox[c] # <<>> /\ conn[c] = "open" /\ Coming(c) = due[c]
    BY DEF Receive, HubInv, TypeOK, Delivered
  <2>3. /\ Tail(inbox[c]) \in Seq(Messages) /\ Tail(due[c]) \in Seq(Messages)
        /\ Coming(c)' = due'[c]
    <3>1. inbox'[c] = Tail(inbox[c]) /\ due'[c] = Tail(due[c])
      BY <2>1 DEF HubInv, TypeOK
    <3>2. CASE Pending(c)
      <4>1. <<speaker, saying[speaker]>> \in Messages
        BY <3>2, SpeakerKnown DEF Pending, HubInv, TypeOK
      <4>2. due[c] = Append(inbox[c], <<speaker, saying[speaker]>>)
        BY <2>2, <3>2 DEF Coming
      <4>3. Tail(due[c]) = Append(Tail(inbox[c]), <<speaker, saying[speaker]>>)
            /\ Tail(inbox[c]) \in Seq(Messages) /\ Tail(due[c]) \in Seq(Messages)
        BY <4>1, <4>2, <2>2, TailAppend
      <4>4. Coming(c)' = Append(Tail(inbox[c]), <<speaker, saying[speaker]>>)
        BY <1>1, <3>1, <3>2 DEF Coming, Pending
      <4> QED BY <3>1, <4>3, <4>4
    <3>3. CASE ~Pending(c)
      <4>1. due[c] = inbox[c] /\ Tail(inbox[c]) \in Seq(Messages)
        BY <2>2, <3>3 DEF Coming
      <4>2. Coming(c)' = Tail(inbox[c])
        BY <1>1, <3>1, <3>3 DEF Coming, Pending
      <4> QED BY <3>1, <4>1, <4>2
    <3> QED BY <3>2, <3>3
  <2>4. /\ inbox' \in [Clients -> Seq(Messages)] /\ due' \in [Clients -> Seq(Messages)]
        /\ \A d \in Clients : d # c => inbox'[d] = inbox[d] /\ due'[d] = due[d]
    BY <2>1, <2>3 DEF HubInv, TypeOK
  <2>5. TypeOK
    BY DEF HubInv
  <2> QED BY <1>1, <2>1, <2>2, <2>3, <2>4, <2>5, ClientKeeps DEF TypeOK
<1> QED BY <1>2, <1>3

LEMMA EndsKeep ==
  ASSUME HubInv, NEW c \in Clients, (c \in Pages /\ SocketError(c)) \/ Leave(c)
  PROVE  HubInv'
<1>1. UNCHANGED <<jobVars, saying, said, want, hubVars, speaker, todo>>
  BY DEF SocketError, Leave
<1>2. shown' \in [Pages -> {"form", "asking", "queued", "done", "failed", "left"}]
  <2>1. TypeOK
    BY DEF HubInv
  <2>2. CASE c \in Pages /\ SocketError(c)
    BY <2>1, <2>2 DEF SocketError, TypeOK
  <2>3. CASE Leave(c)
    <3>1. CASE c \in Pages
      <4>1. shown' = [shown EXCEPT ![c] = "left"]
        BY <2>3, <3>1 DEF Leave
      <4> QED BY <2>1, <4>1 DEF TypeOK
    <3>2. CASE c \notin Pages
      BY <2>1, <2>3, <3>2 DEF Leave, TypeOK
    <3> QED BY <3>1, <3>2
  <2> QED BY <2>2, <2>3
<1>3. CASE Close(c)
  BY <1>1, <1>2, <1>3, CloseTyped, ClientKeeps
<1>4. CASE UNCHANGED <<conn, inbox, due>>
  <2>1. conn[c] # "closed" => Coming(c)' = due'[c]
    BY <1>1, <1>4 DEF HubInv, Delivered, Coming, Pending
  <2>2. TypeOK
    BY DEF HubInv
  <2> QED BY <1>1, <1>2, <1>4, <2>1, <2>2, ClientKeeps DEF TypeOK
<1> QED BY <1>3, <1>4 DEF SocketError, Leave

LEMMA NextKeeps == ASSUME HubInv, [Next]_vars PROVE HubInv'
<1>1. CASE UNCHANGED vars
  BY <1>1 DEF HubInv, TypeOK, Numbered, Placed, Targets, Delivered, Coming, Pending, Silent,
              vars, jobVars, pageVars, hubVars, castVars
<1>2. ASSUME NEW p \in Pages, SubmitJoin(p) \/ SubmitNew(p) \/ SocketError(p) PROVE HubInv'
  BY <1>2, SubmitKeeps, EndsKeep DEF Clients
<1>3. ASSUME NEW j \in Jobs, JobStep(j) \/ Announce(j) PROVE HubInv'
  BY <1>3, JobStepKeeps, AnnounceKeeps
<1>4. ASSUME NEW c \in Clients, HubStep(c) \/ Connect(c) \/ Receive(c) \/ Leave(c) PROVE HubInv'
  BY <1>4, HubStepKeeps, ConnectKeeps, ReceiveKeeps, EndsKeep
<1> QED BY <1>1, <1>2, <1>3, <1>4, BackgroundKeeps, WriteKeeps, EndKeeps DEF Next

LEMMA Invariance == Spec => []HubInv
<1> QED BY InitHub, NextKeeps, PTL DEF Spec

\* Types of the hub, its clients and the jobs, and that the mutex is held over
\* a broadcast by a job that waits in its callback, for every number of each.
THEOREM HubTypeCorrect == Spec => []TypeOK
<1>1. HubInv => TypeOK
  BY DEF HubInv
<1> QED BY <1>1, Invariance, PTL

\* A registered client gets every message about what it has asked for once and
\* in order (broadcastJobMessage and filterClient in ws.go), however many
\* clients filter, un-filter, come and leave.
THEOREM MessagesArriveOnce == Spec => []EveryMessageOnce
<1>1. HubInv => EveryMessageOnce
  BY DEF HubInv, Delivered, EveryMessageOnce
<1> QED BY <1>1, Invariance, PTL

-----------------------------------------------------------------------------
(* The jobs under the hub. What is said of a job lags behind it by a mutex    *)
(* and a broadcast; its latest word is what it announces or has announced.    *)

Word(j) == IF Silent(j) THEN said[j] ELSE saying[j]

WordOK(j) ==
  /\ speaker = j => said[j] = saying[j]
  /\ place[j] = "refused" => Word(j) = "dead"
  /\ place[j] = "over" => Word(j) \in Final
  /\ place[j] = "settled" => Silent(j) /\ said[j] \in Final

WordInv == HubInv /\ \A j \in Jobs : WordOK(j)

LEMMA InitWord == Init => WordInv
<1> SUFFICES ASSUME Init PROVE WordInv
  OBVIOUS
<1>1. PICK cast \in Casts :
        /\ place = [j \in Jobs |-> IF j <= cast[2] THEN "settled" ELSE "none"]
        /\ said = [j \in Jobs |-> IF j <= cast[2] THEN "done" ELSE "nothing"]
  BY DEF Init
<1>2. speaker = 0 /\ \A j \in Jobs : j # 0 /\ Silent(j)
  BY DEF Init, Silent, Jobs
<1> QED BY <1>1, <1>2, InitHub DEF WordInv, WordOK, Final

\* Job j goes on to a place without a word, or with word s.
Quietly(j, to) == place' = [place EXCEPT ![j] = to] /\ UNCHANGED saying

Saying(j, to, s) == place' = [place EXCEPT ![j] = to] /\ saying' = [saying EXCEPT ![j] = s]

\* The ways of a job.
LEMMA Ways ==
  ASSUME HubInv, NEW j \in Jobs, JobStep(j)
  PROVE  \/ place[j] = "pushing" /\ (Quietly(j, "queued") \/ Saying(j, "refused", "dead"))
         \/ place[j] = "queued" /\ Saying(j, "running", "running")
         \/ place[j] = "running" /\ (\/ Saying(j, "running", "progress")
                                     \/ Saying(j, "backoff", "failed")
                                     \/ \E s \in Final : Saying(j, "over", s))
         \/ place[j] = "backoff" /\ Quietly(j, "running")
         \/ place[j] \in {"over", "refused"} /\ Quietly(j, "settled")
<1> USE DEF MoveTo, Say, Quietly, Saying
<1>1. CASE Push(j) \/ Refuse(j) \/ Start(j) \/ Backoff(j) \/ Settle(j)
  BY <1>1 DEF Push, Refuse, Start, Backoff, Settle
<1>2. CASE Progress(j)
  <2>1. place' = [place EXCEPT ![j] = "running"]
    BY <1>2 DEF Progress, jobVars, HubInv, TypeOK
  <2> QED BY <1>2, <2>1 DEF Progress
<1>3. CASE RunReturns(j)
  BY <1>3 DEF RunReturns
<1> QED BY <1>1, <1>2, <1>3 DEF JobStep

LEMMA JobStepFrame ==
  ASSUME HubInv, NEW j \in Jobs, JobStep(j)
  PROVE  Silent(j) /\ j # speaker /\ UNCHANGED <<said, speaker>>
<1>1. Silent(j) /\ UNCHANGED <<said, speaker>>
  BY DEF JobStep, Push, Refuse, Start, Progress, RunReturns, Backoff, Settle, MoveTo, castVars
<1> QED BY <1>1, SpeakerKnown DEF Jobs

\* A job that goes on has had its say, and leaves the others theirs.
LEMMA JobStepWord ==
  ASSUME WordInv, NEW j \in Jobs, JobStep(j), NEW i \in Jobs
  PROVE  WordOK(i)'
<1>0. /\ place \in [Jobs -> Places] /\ saying \in [Jobs -> Statuses \cup {"nothing"}]
      /\ Silent(j) /\ j # speaker /\ UNCHANGED <<said, speaker>>
      /\ WordOK(i) /\ HubInv
  BY JobStepFrame DEF WordInv, HubInv, TypeOK
<1>1. CASE i # j
  <2>1. place'[i] = place[i] /\ saying'[i] = saying[i]
    BY <1>0, <1>1, Ways DEF Quietly, Saying
  <2> QED BY <1>0, <2>1 DEF WordOK, Word, Silent
<1>2. CASE i = j
  <2>1. CASE place'[j] \in {"queued", "running", "backoff"}
    BY <1>0, <1>2, <2>1 DEF WordOK
  <2>2. CASE Saying(j, "refused", "dead") \/ \E s \in Final : Saying(j, "over", s)
    BY <1>0, <1>2, <2>2 DEF Saying, WordOK, Word, Silent, Final
  <2>3. CASE place[j] \in {"over", "refused"} /\ Quietly(j, "settled")
    BY <1>0, <1>2, <2>3 DEF Quietly, WordOK, Word, Silent, Final
  <2>4. \/ place'[j] \in {"queued", "running", "backoff"}
        \/ Saying(j, "refused", "dead") \/ \E s \in Final : Saying(j, "over", s)
        \/ place[j] \in {"over", "refused"} /\ Quietly(j, "settled")
    BY <1>0, Ways DEF Quietly, Saying
  <2> QED BY <2>1, <2>2, <2>3, <2>4
<1> QED BY <1>1, <1>2

\* Publication and broadcasts add no word to what a job has said.
LEMMA HubKeepsWord ==
  ASSUME WordInv, NEW i \in Jobs,
         \/ \E k \in Keys : Publish(k) /\ UNCHANGED speaker
         \/ \E j \in Jobs : Announce(j)
         \/ EndBroadcast
  PROVE  WordOK(i)'
<1>0. /\ saying \in [Jobs -> Statuses \cup {"nothing"}]
      /\ said \in [Jobs -> Statuses \cup {"nothing"}] /\ place \in [Jobs -> Places]
      /\ WordOK(i) /\ seq \in Nat /\ HubInv
  BY DEF WordInv, HubInv, TypeOK, Jobs
<1>1. ASSUME NEW k \in Keys, Publish(k), UNCHANGED speaker PROVE WordOK(i)'
  <2>1. CASE i = seq'
    <3>1. place'[i] = "pushing"
      BY <1>0, <1>1, <2>1 DEF Publish
    <3>2. speaker # i
      BY <1>0, <1>1, <2>1, SpeakerKnown DEF Publish, Jobs
    <3> QED BY <1>1, <3>1, <3>2 DEF WordOK
  <2>2. CASE i # seq'
    BY <1>0, <1>1, <2>2 DEF Publish, WordOK, Word, Silent
  <2> QED BY <2>1, <2>2
<1>2. ASSUME NEW j \in Jobs, Announce(j) PROVE WordOK(i)'
  BY <1>0, <1>2 DEF Announce, WordOK, Word, Silent, jobVars
<1>3. CASE EndBroadcast
  <2>1. speaker \in Jobs /\ speaker' = 0 /\ 0 \notin Jobs /\ UNCHANGED <<said, place>>
    BY <1>0, <1>3, SpeakerKnown DEF EndBroadcast, Jobs, jobVars
  <2>2. saying' = [saying EXCEPT ![speaker] = "nothing"] /\ ~Silent(speaker)
    BY <1>0, <1>3, SpeakerKnown DEF EndBroadcast, Say
  <2> QED BY <1>0, <2>1, <2>2 DEF WordOK, Word, Silent
<1> QED BY <1>1, <1>2, <1>3

\* What the others do is nothing to the jobs.
Bystanding == UNCHANGED <<place, saying, said, speaker>>

LEMMA Division ==
  ASSUME HubInv, [Next]_vars
  PROVE  \/ \E j \in Jobs : JobStep(j)
         \/ \E k \in Keys : Publish(k) /\ UNCHANGED speaker
         \/ \E j \in Jobs : Announce(j)
         \/ EndBroadcast
         \/ Bystanding
<1> USE DEF Bystanding, jobVars, castVars
<1>1. CASE UNCHANGED vars
  BY <1>1 DEF vars
<1>2. ASSUME NEW p \in Pages, SubmitJoin(p) \/ SocketError(p) PROVE Bystanding
  BY <1>2 DEF SubmitJoin, SocketError
<1>3. ASSUME NEW p \in Pages, SubmitNew(p) PROVE \E k \in Keys : Publish(k) /\ UNCHANGED speaker
  BY <1>3 DEF SubmitNew, Keys
<1>4. CASE Background
  BY <1>4 DEF Background, Keys
<1>5. ASSUME NEW c \in Clients, HubStep(c) \/ Connect(c) \/ Receive(c) \/ Leave(c) PROVE Bystanding
  BY <1>5 DEF HubStep, Register, FilterClient, Unregister, Connect, Receive, Leave
<1>6. ASSUME NEW c \in Clients, NEW m \in {"filtered", "all"}, Write(c, m) PROVE Bystanding
  BY <1>6 DEF Write
<1> QED BY <1>1, <1>2, <1>3, <1>4, <1>5, <1>6 DEF Next

LEMMA WordNext == WordInv /\ [Next]_vars => WordInv'
<1> SUFFICES ASSUME WordInv, [Next]_vars PROVE WordInv'
  OBVIOUS
<1>1. HubInv'
  BY NextKeeps DEF WordInv
<1>2. ASSUME NEW i \in Jobs, Bystanding PROVE WordOK(i)'
  BY <1>2 DEF WordInv, WordOK, Word, Silent, Bystanding
<1>3. \A i \in Jobs : WordOK(i)'
  BY <1>2, Division, JobStepWord, HubKeepsWord DEF WordInv
<1> QED BY <1>1, <1>3 DEF WordInv

LEMMA WordInvariance == Spec => []WordInv
<1> QED BY InitWord, WordNext, PTL DEF Spec

\* Of a job whose future is closed nothing more is announced, and what was
\* announced last is its end (enqueue_job.go:104-131, future.go:46-56), for every
\* number of jobs and clients, refused jobs and retried ones.
THEOREM EndsAreLastWords == Spec => []EndIsLastWord
<1>1. WordInv => EndIsLastWord
  BY DEF WordInv, WordOK, EndIsLastWord
<1> QED BY <1>1, WordInvariance, PTL

-----------------------------------------------------------------------------
(* The jobs as the callers of the pool see them. *)

\* A job's place decides its phase, and its last word its outcome.
LEMMA JobMoves ==
  ASSUME WordInv, NEW j \in Jobs, NEW to \in Places,
         place' = [place EXCEPT ![j] = to], UNCHANGED said, place[j] # "settled"
  PROVE  /\ Life!Moves(j, PhaseAt[place[j]], PhaseAt[to])
         /\ to # "settled" => UNCHANGED Outcomes
         /\ to = "settled" =>
              Outcomes' = [Outcomes EXCEPT ![j] = IF said[j] = "dead" THEN "error" ELSE "nil"]
<1>0. place \in [Jobs -> Places]
  BY DEF WordInv, HubInv, TypeOK
<1>1. Phases' = [Phases EXCEPT ![j] = PhaseAt[to]]
  BY <1>0 DEF Phases
<1>2. Phases[j] = PhaseAt[place[j]]
  BY DEF Phases
<1>3. to # "settled" => Outcomes' = Outcomes
  BY <1>0 DEF Outcomes
<1>4. to = "settled" =>
        Outcomes' = [Outcomes EXCEPT ![j] = IF said[j] = "dead" THEN "error" ELSE "nil"]
  BY <1>0 DEF Outcomes
<1> QED BY <1>1, <1>2, <1>3, <1>4 DEF Life!Moves

LEMMA PhasesOf ==
  /\ PhaseAt["none"] = "new" /\ PhaseAt["pushing"] = "waiting" /\ PhaseAt["queued"] = "waiting"
  /\ PhaseAt["refused"] = "waiting" /\ PhaseAt["running"] = "running"
  /\ PhaseAt["backoff"] = "running" /\ PhaseAt["over"] = "finished"
  /\ PhaseAt["settled"] = "settled"
BY DEF PhaseAt

LEMMA JobStepLives ==
  ASSUME WordInv, NEW j \in Jobs, JobStep(j)
  PROVE  Life!Next \/ UNCHANGED <<Phases, Outcomes>>
<1> USE PhasesOf DEF Quietly, Saying
<1>0. /\ UNCHANGED said /\ Silent(j) /\ WordOK(j) /\ HubInv
      /\ place \in [Jobs -> Places]
  BY JobStepFrame DEF WordInv, HubInv, TypeOK
<1>1. CASE place[j] = "pushing" /\ (Quietly(j, "queued") \/ Saying(j, "refused", "dead"))
  <2>1. PICK to \in {"queued", "refused"} : place' = [place EXCEPT ![j] = to]
    BY <1>1
  <2>2. Phases' = Phases
    BY <1>0, <1>1, <2>1 DEF Phases
  <2> QED BY <1>0, <1>1, <2>1, <2>2, JobMoves DEF Places
<1>2. CASE place[j] = "queued" /\ Saying(j, "running", "running")
  <2>1. place[j] = "queued" /\ place' = [place EXCEPT ![j] = "running"] /\ "running" \in Places
    BY <1>2 DEF Places
  <2>2. Life!Moves(j, PhaseAt["queued"], PhaseAt["running"]) /\ UNCHANGED Outcomes
    BY <1>0, <2>1, JobMoves
  <2> QED BY <2>2 DEF Life!Start, Life!Next
<1>3. CASE place[j] = "running" /\ (\E s \in Final : Saying(j, "over", s))
  <2>1. place[j] = "running" /\ place' = [place EXCEPT ![j] = "over"] /\ "over" \in Places
    BY <1>3 DEF Places
  <2>2. Life!Moves(j, PhaseAt["running"], PhaseAt["over"]) /\ UNCHANGED Outcomes
    BY <1>0, <2>1, JobMoves
  <2> QED BY <2>2 DEF Life!Finish, Life!Next
<1>4. CASE place[j] \in {"running", "backoff"} /\ place'[j] \in {"running", "backoff"}
  <2>1. PICK to \in {"running", "backoff"} : place' = [place EXCEPT ![j] = to]
    BY <1>0, <1>4, Ways
  <2>2. Phases' = Phases
    BY <1>0, <1>4, <2>1 DEF Phases
  <2> QED BY <1>0, <1>4, <2>1, <2>2, JobMoves DEF Places
<1>5. CASE place[j] = "over" /\ Quietly(j, "settled")
  <2>1. place[j] = "over" /\ place' = [place EXCEPT ![j] = "settled"] /\ "settled" \in Places
    BY <1>5 DEF Places
  <2>2. /\ Life!Moves(j, PhaseAt["over"], PhaseAt["settled"])
        /\ Outcomes' = [Outcomes EXCEPT ![j] = IF said[j] = "dead" THEN "error" ELSE "nil"]
    BY <1>0, <2>1, JobMoves
  <2>3. (IF said[j] = "dead" THEN "error" ELSE "nil") \in {"nil", "error"}
    OBVIOUS
  <2> QED BY <2>2, <2>3 DEF Life!Settle, Life!Next
<1>6. CASE place[j] = "refused" /\ Quietly(j, "settled")
  <2>1. said[j] = "dead"
    BY <1>0, <1>6 DEF WordOK, Word
  <2>2. place[j] = "refused" /\ place' = [place EXCEPT ![j] = "settled"] /\ "settled" \in Places
    BY <1>6 DEF Places
  <2>3. /\ Life!Moves(j, PhaseAt["refused"], PhaseAt["settled"])
        /\ Outcomes' = [Outcomes EXCEPT ![j] = IF said[j] = "dead" THEN "error" ELSE "nil"]
    BY <1>0, <2>2, JobMoves
  <2>4. Outcomes' = [Outcomes EXCEPT ![j] = "error"]
    BY <2>1, <2>3
  <2> QED BY <2>3, <2>4 DEF Life!Refuse, Life!Next
<1> QED BY <1>0, <1>1, <1>2, <1>3, <1>4, <1>5, <1>6, Ways

LEMMA HubStepLives ==
  ASSUME WordInv, [Next]_vars
  PROVE  Life!Next \/ UNCHANGED <<Phases, Outcomes>>
<1>0. place \in [Jobs -> Places] /\ HubInv /\ said \in [Jobs -> Statuses \cup {"nothing"}]
  BY DEF WordInv, HubInv, TypeOK
<1>1. ASSUME NEW k \in Keys, Publish(k) PROVE Life!Next
  <2>1. seq' \in Jobs /\ seq' > seq /\ UNCHANGED said /\ place' = [place EXCEPT ![seq'] = "pushing"]
    BY <1>0, <1>1 DEF Publish, HubInv, TypeOK, Jobs
  <2>2. place[seq'] = "none"
    BY <1>0, <2>1 DEF HubInv, Numbered
  <2>3. PICK j \in Jobs : j = seq'
    BY <2>1
  <2>4. Life!Submit(j)
    BY <2>1, <2>2, <2>3, JobMoves, PhasesOf DEF Places, Life!Submit
  <2> QED BY <2>4 DEF Life!Next
<1>2. ASSUME NEW j \in Jobs, Announce(j) PROVE UNCHANGED <<Phases, Outcomes>>
  <2>1. UNCHANGED place /\ said' = [said EXCEPT ![j] = saying[j]] /\ place[j] # "settled"
    BY <1>2 DEF Announce, jobVars, WordInv, WordOK
  <2> QED BY <1>0, <2>1 DEF Phases, Outcomes
<1>3. CASE EndBroadcast \/ Bystanding
  BY <1>3 DEF EndBroadcast, Bystanding, jobVars, Phases, Outcomes
<1> QED BY <1>0, <1>1, <1>2, <1>3, Division, JobStepLives

\* Whatever waits for the hub's mutex and its sockets, a job goes the way of
\* JobLifecycle, and its callers' error has been announced as dead before; for
\* every number of jobs and clients.
THEOREM JobsFollowLifecycle == Spec => JobsLiveOnce
<1>1. WordInv /\ [Next]_vars => [Life!Next]_<<Phases, Outcomes>>
  BY HubStepLives
<1> QED BY <1>1, WordInvariance, PTL DEF Spec, JobsLiveOnce

=============================================================================
