------------------------------ MODULE MCQueues ------------------------------
(* Four queues of the process, each on its own: part says which one a        *)
(* behaviour is about, and the variables of the others keep their values.    *)
EXTENDS Naturals, Sequences, TLC

CONSTANTS c1, c2, c3, w1, w2, k1, k2, inject, source, sub

VARIABLES part,
  closed, ctx, inFlight, doneWaiter, queue, runs, closedChs, op, pc, waitCh, res, before, accepted, started,
  chan, chanClosed, closedCh, dispatcher, refs, wpc, sent, writing, cpc, ctxDone, ipc, pkt,
  topics, outputs, rpc, vals, dests, routerCtx, dpc, queued, dispCtx, cb, sourceAt, sentN, pubStop,
  closing, bpc, bleft, bcur, routed, given, since, unsub, gaveUp,
  ipCache, flight, call, joined, lpc, lres, gpc, final, ctxEnded, known, deserted

Exec == INSTANCE ExecQueue WITH
  Caller <- {c1, c2, c3},
  Role <- c1 :> {"Add", "Wait"} @@ c2 :> {"RunSync", "Add"} @@ c3 :> {"Shutdown", "ShutdownAndWait", "Wait"}
Link == INSTANCE LinkEndpoint WITH
  Writer <- {w1, w2}, Closer <- {k1, k2}, Inject <- inject, Size <- 1, Batch <- 2, Replies <- 1
Bus == INSTANCE EventBus WITH queue <- queued,
  Client <- {source, sub}, Source <- source, Owners <- {sub}, Replies <- {sub},
  Subscribes <- source :> {} @@ sub :> {"x", "y"}, N <- 2, Cap <- 1
DNS == INSTANCE DNSCache WITH ctxDone <- ctxEnded,
  Caller <- {c1, c2}, Public <- {"public"}, Private <- {"private"}, Tries <- 1, UseLastGood <- TRUE

exec == <<closed, ctx, inFlight, doneWaiter, queue, runs, closedChs, op, pc, waitCh, res, before, accepted, started>>
link == <<chan, chanClosed, closedCh, dispatcher, refs, wpc, sent, writing, cpc, ctxDone, ipc, pkt>>
bus == <<topics, outputs, rpc, vals, dests, routerCtx, dpc, queued, dispCtx, cb, sourceAt, sentN, pubStop,
         closing, bpc, bleft, bcur, routed, given, since, unsub, gaveUp>>
dns == <<ipCache, flight, call, joined, lpc, lres, gpc, final, ctxEnded, known, deserted>>
vars == <<part, exec, link, bus, dns>>

Init == /\ part \in {"exec", "link", "bus", "dns"}
        /\ Exec!Init /\ Link!Init /\ Bus!Init
        /\ DNS!Init /\ (part # "dns" => ipCache = <<>>)

Next == \/ part = "exec" /\ Exec!Next /\ UNCHANGED <<part, link, bus, dns>>
        \/ part = "link" /\ Link!Next /\ UNCHANGED <<part, exec, bus, dns>>
        \/ part = "bus" /\ Bus!Next /\ UNCHANGED <<part, exec, link, dns>>
        \/ part = "dns" /\ DNS!Next /\ UNCHANGED <<part, exec, link, bus>>

\* The fairness of each, as its module states it.
Spec == /\ Init /\ [][Next]_vars
        /\ WF_exec(part = "exec" /\ Exec!Progress)
        /\ WF_link(part = "link" /\ Link!Progress)
        /\ WF_bus(part = "bus" /\ Bus!Progress)
        /\ WF_dns(part = "dns" /\ DNS!Progress)

(* ------------------------------ properties ----------------------------- *)

\* The types of all four, with what ties their fields together.
TypeOK == Exec!TypeOK /\ Link!TypeOK /\ Bus!TypeOK /\ DNS!TypeOK

\* execqueue runs what it was given one at a time and in order, and a nil error of
\* RunSync, Wait and ShutdownAndWait means what it says.
ExecSafe == Exec!OrderedOneAtATime /\ Exec!NilMeansDone

\* The link endpoint is closed under its writers without a send on a closed channel, and
\* neither leaks a packet nor frees one twice.
LinkSafe == Link!CloseIsSafe /\ Link!RefsBalanced

\* The event bus gives a client its events in the order they were published, at most one
\* after its subscription was closed, and none once the bus is closed, with the
\* exceptions that EventBus names.
BusSafe == Bus!InOrder /\ Bus!OneAfterClose /\ Bus!ClosedIsQuiet

\* A shared DNS lookup is cancelled under a live caller only in the window that DNSCache
\* names, and is over before its last caller returns; once a name was resolved, looking
\* it up fails only with the caller's context.
DNSSafe == DNS!LiveCallersServed /\ DNS!CallEndsBeforeLastCaller /\ DNS!LastGoodUsed

\* The calls of execqueue that wait return; Close of the link endpoint returns, and a
\* write to it ends unless its only reader is stuck or gone; the event bus delivers
\* although callbacks publish, and closing it returns; DNS lookups end.
CallsReturn == /\ Exec!CallsReturn
               /\ Link!CloseReturns /\ Link!WritesEnd
               /\ Bus!Delivered /\ Bus!CloseReturns
               /\ DNS!LookupsEnd
=============================================================================
