----------------------------- MODULE MapSession -----------------------------
(* From the map poll to the observer: a map session                          *)
(* (control/controlclient/map.go) takes responses of the server and disco    *)
(* keys learned from peers one by one, and hands each to the observer as     *)
(* increments, or else as a full netmap, through the queue of                *)
(* control/controlclient/auto.go, which other statuses use too.              *)
EXTENDS Naturals, Sequences

CONSTANTS Responses, \* bound on responses and disco keys handled
          Parts,     \* increments a response may have: packet filter, profiles, mutations
          Others     \* bound on statuses of other goroutines

None == <<>>
Mixed == <<0, 0>>
Enqueuer == {"poll", "tsmp"}
Sender == {"run", "other"}

VARIABLES
  loggedIn, inMapPoll, closed,   \* fields of Auto
  alive, changeQueueClosed,      \* sessionAliveCtx is not done; mapSession.changeQueueClosed
  pc,         \* Enqueuer -> where it is; holds cqmu in "enqueue"
  rpc,        \* mapSession.run, and in UpdateNetmapDelta and the like
  version,    \* responses the session has taken in
  part,       \* the increment of the response that is sent, and their number
  answer,     \* the channel that the queued increment answers on
  send,       \* Sender -> its call of sendStatus
  queue, lastStatus, \* observerQueue and lastStatus
  view,       \* the observer's version and the increments of the next one it has
  pushed,     \* history: what became of the disco key
  others      \* bound used up

session == <<alive, changeQueueClosed, pc, pushed>>
sending == <<loggedIn, inMapPoll, closed>>
vars == <<sending, session, rpc, version, part, answer, send, queue, lastStatus, view, others>>

Init == /\ loggedIn = TRUE /\ inMapPoll = FALSE /\ closed = FALSE
        /\ alive = TRUE /\ changeQueueClosed = FALSE
        /\ pc = [e \in Enqueuer |-> "idle"]
        /\ rpc = "select" /\ version = 0 /\ part = <<0, 0>> /\ answer = "none"
        /\ send = [s \in Sender |-> None]
        /\ queue = <<>> /\ lastStatus = None
        /\ view = Mixed
        /\ pushed = {} /\ others = 0

(* ------------------------- the session's queue ------------------------- *)

cqmuFree == \A e \in Enqueuer : pc[e] # "enqueue"

\* HandleNonKeepAliveMapResponse and updateDiscoForNode take cqmu, which they keep until
\* run has the response.  A disco key needs a peer, so a netmap.
Enqueue(e) ==
  /\ pc[e] = "idle" /\ version < Responses /\ (e = "tsmp" => version > 0)
  /\ cqmuFree
  /\ pc' = [pc EXCEPT ![e] = IF changeQueueClosed THEN "wait" ELSE "enqueue"]
  /\ UNCHANGED <<sending, alive, changeQueueClosed, pushed, rpc, version, part, answer, send, queue, lastStatus, view, others>>

\* ErrChangeQueueClosed: a disco key then goes to magicsock.
EnqueueFails(e) ==
  /\ \/ pc[e] = "enqueue" /\ ~alive
     \/ pc[e] = "wait" /\ rpc = "done"
  /\ pc' = [pc EXCEPT ![e] = IF e = "poll" THEN "close" ELSE "done"]
  /\ pushed' = IF e = "tsmp" THEN pushed \cup {"magicsock"} ELSE pushed
  /\ UNCHANGED <<sending, alive, changeQueueClosed, rpc, version, part, answer, send, queue, lastStatus, view, others>>

\* The stream ends: the session is closed.
PollEnds ==
  /\ pc["poll"] \in {"idle", "close"} /\ alive
  /\ alive' = FALSE
  /\ pc' = [pc EXCEPT !["poll"] = "closing"]
  /\ UNCHANGED <<sending, changeQueueClosed, pushed, rpc, version, part, answer, send, queue, lastStatus, view, others>>

\* Close returns, PollNetMap returns, and mapRoutine leaves inMapPoll.
CloseReturns ==
  /\ pc["poll"] = "closing" /\ rpc = "done"
  /\ pc' = [pc EXCEPT !["poll"] = "done"]
  /\ inMapPoll' = FALSE
  /\ UNCHANGED <<loggedIn, closed, alive, changeQueueClosed, pushed, rpc, version, part, answer, send, queue, lastStatus, view, others>>

\* run ends; no caller is blocked in the send when it has cqmu.
RunEnds ==
  /\ rpc = "select" /\ send["run"] = None /\ ~alive /\ cqmuFree
  /\ changeQueueClosed' = TRUE
  /\ rpc' = "done"
  /\ UNCHANGED <<sending, alive, pc, pushed, version, part, answer, send, queue, lastStatus, view, others>>

(* ----------------------- handling of one response ---------------------- *)

sendStatus(s, nm) == send' = [send EXCEPT ![s] = [ph |-> "snap", nm |-> nm]]

\* UpdateFullNetmap, with the netmap of version v.
UpdateFullNetmap(v) ==
  /\ inMapPoll' = TRUE
  /\ IF loggedIn THEN sendStatus("run", v) ELSE UNCHANGED send
  /\ rpc' = "select" /\ answer' = "none"
  /\ UNCHANGED <<loggedIn, closed, queue>>

\* UpdatePacketFilter, UpdateUserProfiles and UpdateNetmapDelta queue a function.
UpdateNetmapDelta(v, i, last) ==
  IF loggedIn /\ inMapPoll
  THEN /\ queue' = IF closed THEN queue ELSE Append(queue, [v |-> v, i |-> i, last |-> last])
       /\ rpc' = "delta" /\ answer' = "none"
       /\ UNCHANGED <<sending, send>>
  ELSE UpdateFullNetmap(v)

\* run has a response: from its state it is a full netmap, the first always, or n
\* increments.  A disco key that is not news is dropped.
Handle(e, n) ==
  /\ rpc = "select" /\ send["run"] = None
  /\ pc[e] = "enqueue"
  /\ version = 0 => n = 0
  /\ e = "tsmp" => n = 1
  /\ version' = version + 1
  /\ part' = <<1, n>>
  /\ IF n = 0 THEN UpdateFullNetmap(version') ELSE UpdateNetmapDelta(version', 1, n = 1)
  /\ pc' = [pc EXCEPT ![e] = IF e = "poll" THEN "idle" ELSE "done"]
  /\ pushed' = IF e = "tsmp" THEN pushed \cup {"session"} ELSE pushed
  /\ UNCHANGED <<alive, changeQueueClosed, lastStatus, view, others>>

HandleRejected ==
  /\ rpc = "select" /\ send["run"] = None
  /\ pc["tsmp"] = "enqueue"
  /\ pc' = [pc EXCEPT !["tsmp"] = "done"]
  /\ pushed' = pushed \cup {"session"}
  /\ UNCHANGED <<sending, alive, changeQueueClosed, rpc, version, part, answer, send, queue, lastStatus, view, others>>

\* The observer has applied the increment: the next one, or the response is done.
DeltaApplied ==
  /\ rpc = "delta" /\ answer = "true"
  /\ IF part[1] < part[2]
     THEN /\ part' = [part EXCEPT ![1] = @ + 1]
          /\ UpdateNetmapDelta(version, part'[1], part'[1] = part[2])
     ELSE /\ rpc' = "select" /\ answer' = "none" /\ part' = <<0, 0>>
          /\ UNCHANGED <<sending, send, queue>>
  /\ UNCHANGED <<session, version, lastStatus, view, others>>

\* The observer refuses, or two seconds are over or mapCtx is done: a full netmap.
DeltaFails ==
  /\ rpc = "delta" /\ answer # "true"
  /\ part' = <<0, 0>>
  /\ UpdateFullNetmap(version)
  /\ UNCHANGED <<session, version, lastStatus, view, others>>

(* ------------------------------- sendStatus ---------------------------- *)

\* auth and logout statuses carry no netmap.
OtherStatus ==
  /\ others < Others /\ send["other"] = None
  /\ others' = others + 1
  /\ loggedIn' \in {loggedIn, FALSE}
  /\ sendStatus("other", 0)
  /\ UNCHANGED <<inMapPoll, closed, session, rpc, version, part, answer, queue, lastStatus, view>>

\* Under the lock; a netmap is kept only if the node is logged in and polling.
StatusReads(s) ==
  /\ send[s] # None /\ send[s].ph = "snap"
  /\ IF closed THEN send' = [send EXCEPT ![s] = None]
     ELSE LET nm == IF loggedIn /\ inMapPoll THEN send[s].nm ELSE 0 IN
          send' = [send EXCEPT ![s] = [ph |-> "store", nm |-> nm, LoggedIn |-> loggedIn, InMapPoll |-> inMapPoll]]
  /\ UNCHANGED <<sending, session, rpc, version, part, answer, queue, lastStatus, view, others>>

\* lastStatus is stored, then the function is queued unless the queue is shut down.
StatusQueues(s) ==
  /\ send[s] # None /\ send[s].ph \in {"store", "add"}
  /\ IF send[s].ph = "store"
     THEN /\ lastStatus' = [send[s] EXCEPT !.ph = "add"]
          /\ send' = [send EXCEPT ![s].ph = "add"]
          /\ UNCHANGED queue
     ELSE /\ queue' = IF closed THEN queue ELSE Append(queue, send[s])
          /\ send' = [send EXCEPT ![s] = None]
          /\ UNCHANGED lastStatus
  /\ UNCHANGED <<sending, session, rpc, version, part, answer, view, others>>

SkipIf(s1, s2, differ) ==
  /\ s2 # None /\ differ
  /\ s1.nm # 0 /\ s2.nm # 0
  /\ s1.LoggedIn = s2.LoggedIn /\ s1.InMapPoll = s2.InMapPoll

\* Mutant: the last status of the queue may be skipped.
canSkipLast(s1, s2) == SkipIf(s1, s2, TRUE)

\* Statuses without error and URL; Persist is present exactly with a netmap.
canSkipStatus(s1, s2) == SkipIf(s1, s2, s1 # s2)

\* The observer gets a status, unless a newer netmap makes it superfluous.
ObserveStatus ==
  /\ queue # <<>> /\ "nm" \in DOMAIN Head(queue)
  /\ queue' = Tail(queue)
  /\ IF closed \/ canSkipStatus(Head(queue), lastStatus) THEN UNCHANGED <<view, lastStatus>>
     ELSE /\ view' = IF Head(queue).nm # 0 THEN <<Head(queue).nm, 0>> ELSE view
          /\ lastStatus' = IF lastStatus = Head(queue) THEN None ELSE lastStatus
  /\ UNCHANGED <<sending, session, rpc, version, part, answer, send, others>>

\* The observer applies an increment to what it has, or refuses it, perhaps half-way.
ObserveDelta ==
  /\ queue # <<>> /\ "nm" \notin DOMAIN Head(queue)
  /\ queue' = Tail(queue)
  /\ LET d == Head(queue)
         waiting == rpc = "delta" /\ <<d.v, d.i>> = <<version, part[1]>> /\ answer = "none" IN
     \/ /\ view' = IF view # <<d.v - 1, d.i - 1>> THEN Mixed
                   ELSE IF d.last THEN <<d.v, 0>> ELSE <<d.v - 1, d.i>>
        /\ answer' = IF waiting THEN "true" ELSE answer
     \/ view' \in {view, Mixed} /\ answer' = IF waiting THEN "false" ELSE answer
  /\ UNCHANGED <<sending, session, rpc, version, part, send, lastStatus, others>>

Shutdown ==
  /\ ~closed
  /\ closed' = TRUE /\ queue' = <<>>
  /\ UNCHANGED <<loggedIn, inMapPoll, session, rpc, version, part, answer, send, lastStatus, view, others>>

Goes == \/ \E e \in Enqueuer : EnqueueFails(e) \/ \E n \in 0..Parts : Handle(e, n)
        \/ CloseReturns \/ RunEnds \/ HandleRejected \/ DeltaApplied \/ DeltaFails
        \/ \E s \in Sender : StatusReads(s) \/ StatusQueues(s)
        \/ ObserveStatus \/ ObserveDelta

Next == Goes \/ PollEnds \/ OtherStatus \/ Shutdown \/ \E e \in Enqueuer : Enqueue(e)

Spec == Init /\ [][Next]_vars

\* Goroutines that can go on do, and a timeout fires.  The stream may last for ever.
Fairness == WF_vars(Goes)

FairSpec == Spec /\ Fairness

(* ------------------------------ properties ----------------------------- *)

TypeOK == /\ loggedIn \in BOOLEAN /\ inMapPoll \in BOOLEAN /\ closed \in BOOLEAN
          /\ alive \in BOOLEAN /\ changeQueueClosed \in BOOLEAN
          /\ pc \in [Enqueuer -> {"idle", "enqueue", "wait", "close", "closing", "done"}]
          /\ rpc \in {"select", "delta", "done"}
          /\ version \in 0..Responses /\ part \in (0..Parts) \X (0..Parts)
          /\ (changeQueueClosed => rpc = "done")

\* Once everything is observed, the observer of a client that is still logged in has what
\* the session has: no netmap that a later one did not replace was skipped, and no
\* increment is missing, whichever of them timed out and ran later.
ViewCurrent ==
  (~closed /\ loggedIn /\ queue = <<>> /\ rpc # "delta" /\ \A s \in Sender : send[s] = None)
     => version = 0 \/ view = <<version, 0>>

\* The session is told that an increment was applied only if the observer had everything
\* that came before it.
AppliedToItsBase == answer = "true" => view = IF part[1] = part[2] THEN <<version, 0>> ELSE <<version - 1, part[1]>>

\* A disco key learned from a peer is given to the session or else to magicsock.
DiscoKeyOnce == pc["tsmp"] = "done" => \E d \in {"session", "magicsock"} : pushed = {d}

\* Nobody sends on the closed queue, which would panic.
NoSendOnClosed == changeQueueClosed => \A e \in Enqueuer : pc[e] # "enqueue"

\* The session ends although callers hold the lock of its queue while they send.
Ending == ~alive /\ pc["poll"] # "done"
SessionEnds == Ending ~> ~Ending
=============================================================================
