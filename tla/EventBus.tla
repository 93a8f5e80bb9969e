------------------------------ MODULE EventBus ------------------------------
(* The event bus (util/eventbus): publishers hand events to a router with a  *)
(* bounded queue, which hands them to one dispatcher per client; callbacks   *)
(* may publish in turn, and subscriptions, clients and the bus are closed    *)
(* while events are under way.                                               *)
EXTENDS Naturals, Sequences, SequencesExt, FiniteSets

CONSTANTS Client,   \* clients of the bus
          Source,   \* the client that publishes from a goroutine of its own
          Subscribes, \* Client -> the topics it subscribes to with SubscribeFunc
          Owners,   \* clients that are closed by their owner, not only with the bus
          Replies,  \* clients whose callback for "x" publishes a "y"
          N,        \* bound: events the source publishes
          Cap       \* maxPublishedEvents

Topic == {"x", "y"}
Event == Topic \X (1..N)

VARIABLES
  topics,    \* Topic -> list of clients that subscribed
  outputs,   \* Client -> topics that still have a subscriber
  rpc, vals, dests, \* the router, its queue, and whom the first event still goes to
  routerCtx, \* the router was told to stop
  dpc, queue,\* Client -> its dispatcher and the queue of events
  dispCtx,   \* Client -> the dispatcher was told to stop
  cb,        \* Client -> the callback: none, run, publish (blocked in Publish), done
  sourceAt,  \* the source: publishing or not
  sentN,     \* events the source is done with
  pubStop,   \* Client -> its publisher is closed
  closing,   \* Client -> the first call of Client.Close
  bpc, bleft, bcur, \* Bus.Close, the clients it has to close, the one it closes
  routed,    \* history: events in the order the router took them
  given,     \* history: Client -> events given to its callback
  since,     \* history: Client -> events whose subscribers were looked up before it subscribed
  unsub,     \* history: Client -> events given when its subscription was closed, or 0
  gaveUp     \* history: clients whose callback the dispatcher stopped waiting for

rvars == <<rpc, vals, dests>>
svars == <<topics, outputs, since, unsub>>
pvars == <<sourceAt, sentN>>
kvars == <<closing, bpc, bleft, bcur, routerCtx, dispCtx, pubStop>>
vars == <<rvars, svars, pvars, kvars, dpc, queue, cb, routed, given, gaveUp>>

Init == /\ topics = [t \in Topic |-> <<>>]
        /\ outputs = [c \in Client |-> {}]
        /\ rpc = "idle" /\ vals = <<>> /\ dests = <<>> /\ routerCtx = FALSE
        /\ dpc = [c \in Client |-> "none"]
        /\ queue = [c \in Client |-> <<>>]
        /\ dispCtx = [c \in Client |-> FALSE]
        /\ cb = [c \in Client |-> "none"]
        /\ sourceAt = "idle" /\ sentN = 0
        /\ pubStop = [c \in Client |-> FALSE]
        /\ closing = [c \in Client |-> "open"]
        /\ bpc = "open" /\ bleft = {} /\ bcur = "none"
        /\ routed = <<>>
        /\ given = [c \in Client |-> <<>>]
        /\ since = [c \in Client |-> 0]
        /\ unsub = [c \in Client |-> 0]
        /\ gaveUp = {}

(* ------------------------ subscribe and unsubscribe -------------------- *)

\* How many events the router has looked up the subscribers of.
Routed == Len(routed) - Len(vals) + (IF rpc = "deliver" THEN 1 ELSE 0)

SubscribeFunc(c) ==
  /\ Subscribes[c] # {} /\ dpc[c] = "none" /\ closing[c] = "open"
  /\ dpc' = [dpc EXCEPT ![c] = "pump"]
  /\ outputs' = [outputs EXCEPT ![c] = Subscribes[c]]
  /\ topics' = [t \in Topic |-> IF t \in Subscribes[c] THEN Append(topics[t], c) ELSE topics[t]]
  /\ since' = [since EXCEPT ![c] = Routed]
  /\ UNCHANGED <<rvars, pvars, kvars, queue, cb, routed, given, unsub, gaveUp>>

Unsubscribe(c) ==
  /\ outputs' = [outputs EXCEPT ![c] = {}]
  /\ topics' = [t \in Topic |-> SelectSeq(topics[t], LAMBDA d : d # c)]
  /\ unsub' = [unsub EXCEPT ![c] = IF outputs[c] = {} THEN @ ELSE Len(given[c]) + 1]
  /\ UNCHANGED since

SubscriberFuncClose(c) ==
  /\ outputs[c] # {}
  /\ Unsubscribe(c)
  /\ UNCHANGED <<rvars, pvars, kvars, dpc, queue, cb, routed, given, gaveUp>>

(* ------------------------------- publish ------------------------------- *)

\* Publish of the source; of a client, it is the end of its callback.
PublishBegins ==
  /\ sourceAt = "idle" /\ sentN < N
  /\ IF pubStop[Source] THEN sentN' = sentN + 1 /\ UNCHANGED sourceAt
     ELSE sourceAt' = "publish" /\ UNCHANGED sentN
  /\ UNCHANGED <<rvars, svars, kvars, dpc, queue, cb, routed, given, gaveUp>>

PublishStopped ==
  /\ sourceAt = "publish" /\ pubStop[Source]
  /\ sourceAt' = "idle" /\ sentN' = sentN + 1
  /\ UNCHANGED <<rvars, svars, kvars, dpc, queue, cb, routed, given, gaveUp>>

(* --------------------------------- pump -------------------------------- *)

Accepting == (rpc = "idle" /\ vals = <<>>) \/ (rpc = "deliver" /\ dests # <<>> /\ Len(vals) < Cap)

Accept(e) == /\ Accepting
             /\ vals' = Append(vals, e)
             /\ routed' = Append(routed, e)
             /\ UNCHANGED <<rpc, dests>>

AcceptSource ==
  /\ sourceAt = "publish"
  /\ Accept(<<"x", sentN + 1>>)
  /\ sourceAt' = "idle" /\ sentN' = sentN + 1
  /\ UNCHANGED <<svars, kvars, dpc, queue, cb, given, gaveUp>>

AcceptReply(c) ==
  /\ cb[c] = "publish"
  /\ Accept(<<"y", Last(given[c])[2]>>)
  /\ cb' = [cb EXCEPT ![c] = "done"]
  /\ UNCHANGED <<svars, pvars, kvars, dpc, queue, given, gaveUp>>

RoutePeek ==
  /\ rpc = "idle" /\ vals # <<>>
  /\ dests' = topics[Head(vals)[1]]
  /\ rpc' = "deliver"
  /\ UNCHANGED <<vals, svars, pvars, kvars, dpc, queue, cb, routed, given, gaveUp>>

\* The dispatcher is at a select that accepts events; its queue has no bound.
Listening(c) == dpc[c] = "call" \/ (dpc[c] = "pump" /\ queue[c] = <<>>)

Deliver ==
  /\ rpc = "deliver" /\ dests # <<>> /\ Listening(Head(dests))
  /\ queue' = [queue EXCEPT ![Head(dests)] = Append(@, Head(vals))]
  /\ dests' = Tail(dests)
  /\ UNCHANGED <<rpc, vals, svars, pvars, kvars, dpc, cb, routed, given, gaveUp>>

DeliverClosed ==
  /\ rpc = "deliver" /\ dests # <<>> /\ dpc[Head(dests)] = "stopped"
  /\ dests' = Tail(dests)
  /\ UNCHANGED <<rpc, vals, svars, pvars, kvars, dpc, queue, cb, routed, given, gaveUp>>

RouteDrop ==
  /\ rpc = "deliver" /\ dests = <<>>
  /\ vals' = Tail(vals)
  /\ rpc' = "idle"
  /\ UNCHANGED <<dests, svars, pvars, kvars, dpc, queue, cb, routed, given, gaveUp>>

RouterStops ==
  /\ routerCtx
  /\ (rpc = "idle" /\ vals = <<>>) \/ (rpc = "deliver" /\ dests # <<>>)
  /\ rpc' = "stopped"
  /\ UNCHANGED <<vals, dests, svars, pvars, kvars, dpc, queue, cb, routed, given, gaveUp>>

(* ------------------------------ dispatcher ----------------------------- *)

\* subscriberFor: the event is dropped if the subscription is gone.
PumpPeek(c) ==
  /\ dpc[c] = "pump" /\ queue[c] # <<>>
  /\ IF Head(queue[c])[1] \in outputs[c]
     THEN dpc' = [dpc EXCEPT ![c] = "chosen"] /\ UNCHANGED queue
     ELSE queue' = [queue EXCEPT ![c] = Tail(@)] /\ UNCHANGED dpc
  /\ UNCHANGED <<rvars, svars, pvars, kvars, cb, routed, given, gaveUp>>

Dispatch(c) ==
  /\ dpc[c] = "chosen"
  /\ dpc' = [dpc EXCEPT ![c] = "call"]
  /\ cb' = [cb EXCEPT ![c] = "run"]
  /\ given' = [given EXCEPT ![c] = Append(@, Head(queue[c]))]
  /\ UNCHANGED <<rvars, svars, pvars, kvars, queue, routed, gaveUp>>

\* The callback returns, or publishes and blocks there.
RunFuncCallback(c) ==
  /\ cb[c] = "run"
  /\ cb' = [cb EXCEPT ![c] =
       IF c \in Replies /\ Last(given[c])[1] = "x" /\ ~pubStop[c] THEN "publish" ELSE "done"]
  /\ UNCHANGED <<rvars, svars, pvars, kvars, dpc, queue, routed, given, gaveUp>>

CallbackStopped(c) ==
  /\ cb[c] = "publish" /\ pubStop[c]
  /\ cb' = [cb EXCEPT ![c] = "done"]
  /\ UNCHANGED <<rvars, svars, pvars, kvars, dpc, queue, routed, given, gaveUp>>

CallDone(c) ==
  /\ dpc[c] = "call" /\ cb[c] = "done"
  /\ dpc' = [dpc EXCEPT ![c] = "pump"]
  /\ queue' = [queue EXCEPT ![c] = Tail(@)]
  /\ UNCHANGED <<rvars, svars, pvars, kvars, cb, routed, given, gaveUp>>

DispatcherStops(c) ==
  /\ dispCtx[c]
  /\ \/ /\ dpc[c] = "pump" /\ queue[c] = <<>>
        /\ dpc' = [dpc EXCEPT ![c] = "stopped"]
     \/ /\ dpc[c] = "call"
        /\ dpc' = [dpc EXCEPT ![c] = "closing"]
     \/ /\ dpc[c] = "closing" /\ cb[c] = "done"
        /\ dpc' = [dpc EXCEPT ![c] = "stopped"]
  /\ UNCHANGED <<rvars, svars, pvars, kvars, queue, cb, routed, given, gaveUp>>

\* After five times the timeout for slow subscribers.
GiveUp(c) ==
  /\ dpc[c] = "closing" /\ cb[c] # "done"
  /\ dpc' = [dpc EXCEPT ![c] = "stopped"]
  /\ gaveUp' = gaveUp \cup {c}
  /\ UNCHANGED <<rvars, svars, pvars, kvars, queue, cb, routed, given>>

(* --------------------------------- Close ------------------------------- *)

\* Client.Close takes c.sub and c.pub under the lock, so that only the first call has
\* something to do; it stops the dispatcher, the subscribers, then the publishers.
ClientCloses(c) ==
  /\ c \in Owners
  /\ closing[c] = "open"
  /\ closing' = [closing EXCEPT ![c] = "dispatcher"]
  /\ dispCtx' = [dispCtx EXCEPT ![c] = TRUE]
  /\ UNCHANGED <<bpc, bleft, bcur, routerCtx, pubStop, rvars, svars, pvars, dpc, queue, cb, routed, given, gaveUp>>

\* Mutant: the publishers are closed with nobody waiting for the dispatcher.
CloseDispatcherEarly(c) ==
  /\ closing[c] = "dispatcher"
  /\ closing' = [closing EXCEPT ![c] = "closed"]
  /\ pubStop' = [pubStop EXCEPT ![c] = TRUE]
  /\ Unsubscribe(c)
  /\ UNCHANGED <<bpc, bleft, bcur, routerCtx, dispCtx, rvars, pvars, dpc, queue, cb, routed, given, gaveUp>>

CloseDispatcher(c) ==
  /\ closing[c] = "dispatcher" /\ dpc[c] \in {"none", "stopped"}
  /\ closing' = [closing EXCEPT ![c] = "closed"]
  /\ pubStop' = [pubStop EXCEPT ![c] = TRUE]
  /\ Unsubscribe(c)
  /\ UNCHANGED <<bpc, bleft, bcur, routerCtx, dispCtx, rvars, pvars, dpc, queue, cb, routed, given, gaveUp>>

BusCloses ==
  /\ bpc = "open"
  /\ bpc' = "router" /\ routerCtx' = TRUE
  /\ UNCHANGED <<closing, bleft, bcur, dispCtx, pubStop, rvars, svars, pvars, dpc, queue, cb, routed, given, gaveUp>>

BusClosesClients ==
  /\ bpc = "router" /\ rpc = "stopped"
  /\ bpc' = "clients" /\ bleft' = Client
  /\ UNCHANGED <<closing, bcur, routerCtx, dispCtx, pubStop, rvars, svars, pvars, dpc, queue, cb, routed, given, gaveUp>>

BusClosesClient(c) ==
  /\ bpc = "clients" /\ bcur = "none" /\ c \in bleft
  /\ bleft' = bleft \ {c}
  /\ IF closing[c] = "open"
     THEN /\ bcur' = c
          /\ closing' = [closing EXCEPT ![c] = "dispatcher"]
          /\ dispCtx' = [dispCtx EXCEPT ![c] = TRUE]
     ELSE UNCHANGED <<bcur, closing, dispCtx>>
  /\ UNCHANGED <<bpc, routerCtx, pubStop, rvars, svars, pvars, dpc, queue, cb, routed, given, gaveUp>>

BusGoesOn ==
  /\ bpc = "clients"
  /\ IF bcur # "none" THEN closing[bcur] = "closed" /\ bcur' = "none" /\ UNCHANGED bpc
     ELSE bleft = {} /\ bpc' = "closed" /\ UNCHANGED bcur
  /\ UNCHANGED <<closing, bleft, routerCtx, dispCtx, pubStop, rvars, svars, pvars, dpc, queue, cb, routed, given, gaveUp>>

RouterStep == \/ AcceptSource \/ \E c \in Client : AcceptReply(c)
              \/ RoutePeek \/ Deliver \/ DeliverClosed \/ RouteDrop \/ RouterStops
DispatcherStep(c) == PumpPeek(c) \/ Dispatch(c) \/ CallDone(c) \/ DispatcherStops(c) \/ GiveUp(c)
CallbackStep(c) == RunFuncCallback(c) \/ CallbackStopped(c)
CloseStep == \/ BusClosesClients \/ BusGoesOn
             \/ \E c \in Client : BusClosesClient(c) \/ CloseDispatcher(c)

Next == \/ PublishBegins \/ PublishStopped \/ RouterStep \/ CloseStep \/ BusCloses
        \/ \E c \in Client : \/ SubscribeFunc(c) \/ SubscriberFuncClose(c) \/ ClientCloses(c)
                             \/ DispatcherStep(c) \/ CallbackStep(c)

Spec == Init /\ [][Next]_vars

(* A goroutine that can go on does, callbacks return unless they are blocked *)
(* in Publish, and the timer that bounds the wait for them fires.  Nobody    *)
(* has to subscribe, publish or close anything.                              *)
Progress == \/ RouterStep \/ CloseStep \/ PublishStopped
            \/ \E c \in Client : DispatcherStep(c) \/ CallbackStep(c)

Fairness == WF_vars(Progress)

FairSpec == Spec /\ Fairness

(* ------------------------------ properties ----------------------------- *)

TypeOK == /\ topics \in [Topic -> Seq(Client)]
          /\ outputs \in [Client -> SUBSET Topic]
          /\ rpc \in {"idle", "deliver", "stopped"}
          /\ vals \in Seq(Event) /\ Len(vals) <= Cap
          /\ dests \in Seq(Client)
          /\ dpc \in [Client -> {"none", "pump", "chosen", "call", "closing", "stopped"}]
          /\ cb \in [Client -> {"none", "run", "publish", "done"}]
          /\ closing \in [Client -> {"open", "dispatcher", "closed"}]
          /\ bpc \in {"open", "router", "clients", "closed"}
          /\ \A c \in Client, t \in Topic : c \in ToSet(topics[t]) <=> t \in outputs[c]

\* "Subscribers that share the same client receive events one at a time, in the order
\* they were published": no event is given twice or early, and none of the client's
\* topics is skipped between two that are given.
InOrder == \A c \in Client :
  IsPrefix(given[c], SelectSeq(SubSeq(routed, since[c] + 1, Len(routed)),
                               LAMBDA e : e[1] \in Subscribes[c]))

\* "After Close, no further events will be passed to the callback", except the one the
\* dispatcher had looked up the callback for.
OneAfterClose == \A c \in Client : unsub[c] # 0 => Len(given[c]) <= unsub[c]

\* "Close blocks until the bus is fully shut down": no callback runs and nothing is
\* delivered once it has returned, unless a callback was given up or another goroutine
\* is in the middle of closing the client.
ClosedIsQuiet == bpc = "closed" =>
  /\ rpc = "stopped"
  /\ \A c \in Client : \/ dpc[c] \in {"none", "stopped"} /\ cb[c] \in {"none", "done"}
                       \/ c \in gaveUp \/ closing[c] = "dispatcher"

\* Every event the router took reaches the callback of every client that subscribed
\* before and goes on, even though callbacks publish to a bounded queue.
Owed(c) == {i \in since[c]..(Len(routed) - 1) :
              routed[i + 1][1] \in outputs[c] /\ routed[i + 1] \notin ToSet(given[c])}
Pending == ~routerCtx /\ \E c \in Client : Owed(c) # {} /\ ~dispCtx[c]
Delivered == Pending ~> ~Pending

\* Bus.Close and Client.Close return, even though a callback may be blocked publishing
\* to a router that has stopped.
Closing == bpc \in {"router", "clients"} \/ \E c \in Client : closing[c] = "dispatcher"
CloseReturns == Closing ~> ~Closing
=============================================================================
