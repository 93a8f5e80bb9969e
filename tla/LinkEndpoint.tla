---------------------------- MODULE LinkEndpoint ----------------------------
(* The outbound packet queue between gVisor and the tunnel device            *)
(* (wgengine/netstack/link_endpoint.go) and its only reader, the inject      *)
(* goroutine (netstack.go), which may itself write to the queue when it      *)
(* delivers a packet of the node to itself.                                  *)
EXTENDS Naturals, Sequences, SequencesExt, FiniteSets

CONSTANTS Writer,  \* goroutines of gVisor, each with one call of WritePackets
          Closer,  \* goroutines that close the endpoint
          Inject,  \* the inject goroutine
          Size,    \* capacity of the channel
          Batch,   \* packets per call of WritePackets
          Replies  \* bound on replies to packets that are looped back

Sender == Writer \cup {Inject}
Limit(w) == IF w = Inject THEN Replies ELSE Batch
Packet == UNION {{<<w, n>> : n \in 1..Limit(w)} : w \in Sender}
NoPacket == <<>>

VARIABLES
  chan, chanClosed, closedCh, \* the channels q.c and q.closedCh
  dispatcher, \* whether a dispatcher is attached
  refs,      \* Packet -> reference counts the queue and its reader hold
  wpc, sent, \* Writer and Inject -> its call of WritePackets, packets written
  writing,   \* Writer and Inject -> the packet it is writing
  cpc,       \* Closer -> its call of Close
  ctxDone,   \* ns.ctx is cancelled
  ipc,       \* the inject goroutine
  pkt        \* the packet it has read

vars == <<chan, chanClosed, closedCh, dispatcher, refs, wpc, sent, writing, cpc, ctxDone, ipc, pkt>>
closing == <<chanClosed, closedCh, dispatcher, cpc, ctxDone>>

Init == /\ chan = <<>>
        /\ chanClosed = FALSE /\ closedCh = FALSE /\ dispatcher = TRUE
        /\ refs = [p \in Packet |-> 0]
        /\ wpc = [w \in Sender |-> "idle"]
        /\ sent = [w \in Sender |-> 0]
        /\ writing = [w \in Sender |-> NoPacket]
        /\ cpc = [c \in Closer |-> "idle"]
        /\ ctxDone = FALSE
        /\ ipc = "read"
        /\ pkt = NoPacket

(* -------------------------------- Write -------------------------------- *)

\* Writers hold q.mu for reading while they are in the select; a Close that waits
\* for the lock keeps new readers out.
RLockFree == \A c \in Closer : cpc[c] # "lock"

IncRef(p) == [refs EXCEPT ![p] = @ + 1]
DecRef(p) == [refs EXCEPT ![p] = @ - 1]

\* WritePackets writes the packets of its list one by one.
WriteBegins(w) ==
  /\ wpc[w] = "idle" /\ sent[w] < Limit(w)
  /\ w = Inject => ipc = "deliver"
  /\ RLockFree
  /\ IF chanClosed
     THEN /\ wpc' = [wpc EXCEPT ![w] = IF w = Inject THEN "idle" ELSE "done"]
          /\ ipc' = IF w = Inject THEN "read" ELSE ipc
          /\ UNCHANGED <<refs, writing>>
     ELSE /\ wpc' = [wpc EXCEPT ![w] = "select"]
          /\ writing' = [writing EXCEPT ![w] = <<w, sent[w] + 1>>]
          /\ refs' = IncRef(writing'[w])
          /\ UNCHANGED ipc
  /\ UNCHANGED <<chan, sent, closing, pkt>>

WriteSends(w) ==
  /\ wpc[w] = "select"
  /\ Len(chan) < Size
  /\ chan' = Append(chan, writing[w])
  /\ sent' = [sent EXCEPT ![w] = @ + 1]
  /\ wpc' = [wpc EXCEPT ![w] = IF w # Inject /\ sent'[w] = Batch THEN "done" ELSE "idle"]
  /\ writing' = [writing EXCEPT ![w] = NoPacket]
  /\ UNCHANGED <<refs, closing, ipc, pkt>>

\* The queue is being closed: the call ends with an error.
WriteClosed(w) ==
  /\ wpc[w] = "select" /\ closedCh
  /\ refs' = DecRef(writing[w])
  /\ writing' = [writing EXCEPT ![w] = NoPacket]
  /\ wpc' = [wpc EXCEPT ![w] = IF w = Inject THEN "idle" ELSE "done"]
  /\ ipc' = IF w = Inject THEN "read" ELSE ipc
  /\ UNCHANGED <<chan, sent, closing, pkt>>

(* -------------------------------- Close -------------------------------- *)

\* Impl.Close cancels ns.ctx before gVisor closes the endpoint.
Cancel ==
  /\ ~ctxDone
  /\ ctxDone' = TRUE
  /\ UNCHANGED <<chan, chanClosed, closedCh, dispatcher, refs, wpc, sent, writing, cpc, ipc, pkt>>

Detach(c) ==
  /\ ctxDone
  /\ cpc[c] = "idle"
  /\ dispatcher' = FALSE
  /\ cpc' = [cpc EXCEPT ![c] = "once"]
  /\ UNCHANGED <<chan, chanClosed, closedCh, refs, wpc, sent, writing, ctxDone, ipc, pkt>>

\* Mutant: closedCh is closed under the lock.
CloseOnceLate(c) ==
  /\ cpc[c] = "once"
  /\ cpc' = [cpc EXCEPT ![c] = "lock"]
  /\ UNCHANGED <<chan, chanClosed, closedCh, dispatcher, refs, wpc, sent, writing, ctxDone, ipc, pkt>>

CloseOnce(c) ==
  /\ cpc[c] = "once"
  /\ closedCh' = TRUE
  /\ cpc' = [cpc EXCEPT ![c] = "lock"]
  /\ UNCHANGED <<chan, chanClosed, dispatcher, refs, wpc, sent, writing, ctxDone, ipc, pkt>>

LockFree == \A w \in Sender : wpc[w] # "select"

CloseChanIf(c, free) ==
  /\ cpc[c] = "lock" /\ free
  /\ chanClosed' = TRUE
  /\ cpc' = [cpc EXCEPT ![c] = "drain"]
  /\ UNCHANGED <<chan, closedCh, dispatcher, refs, wpc, sent, writing, ctxDone, ipc, pkt>>

\* Mutant: the channel is closed without the lock.
CloseChanUnlocked(c) == CloseChanIf(c, TRUE)

CloseChan(c) == CloseChanIf(c, LockFree)

Drain(c) ==
  /\ cpc[c] = "drain"
  /\ IF chan # <<>>
     THEN refs' = DecRef(Head(chan)) /\ chan' = Tail(chan) /\ UNCHANGED cpc
     ELSE cpc' = [cpc EXCEPT ![c] = "done"] /\ UNCHANGED <<chan, refs>>
  /\ UNCHANGED <<chanClosed, closedCh, dispatcher, wpc, sent, writing, ctxDone, ipc, pkt>>

(* -------------------------------- inject ------------------------------- *)

ReadContext ==
  /\ ipc = "read" /\ chan # <<>>
  /\ pkt' = Head(chan)
  /\ chan' = Tail(chan)
  /\ ipc' = "handle"
  /\ UNCHANGED <<refs, wpc, sent, writing, closing>>

\* ReadContext returned nil, and the context is done.
ReadContextNil ==
  /\ ipc = "read" /\ ctxDone
  /\ ipc' = "done"
  /\ UNCHANGED <<chan, refs, wpc, sent, writing, closing, pkt>>

\* A packet for the host or for a peer; an error, which the device gives once it is
\* closed, ends the goroutine.
InjectPacket ==
  /\ ipc = "handle"
  /\ refs' = DecRef(pkt)
  /\ ipc' \in {"read", "done"}
  /\ pkt' = NoPacket
  /\ UNCHANGED <<chan, wpc, sent, writing, closing>>

\* A packet of the node to itself: gVisor handles it on this goroutine and may write
\* replies to the queue.
DeliverLoopback ==
  /\ ipc = "handle"
  /\ refs' = DecRef(pkt)
  /\ ipc' = IF dispatcher THEN "deliver" ELSE "read"
  /\ pkt' = NoPacket
  /\ UNCHANGED <<chan, wpc, sent, writing, closing>>

LoopbackReturns ==
  /\ ipc = "deliver" /\ wpc[Inject] = "idle"
  /\ ipc' = "read"
  /\ UNCHANGED <<chan, refs, wpc, sent, writing, closing, pkt>>

WritePackets(w) == WriteBegins(w) \/ WriteSends(w) \/ WriteClosed(w)
Close(c) == CloseOnce(c) \/ CloseChan(c) \/ Drain(c)
InjectStep == ReadContext \/ ReadContextNil \/ InjectPacket \/ DeliverLoopback \/ LoopbackReturns

Next == \/ \E w \in Sender : WritePackets(w)
        \/ Cancel
        \/ \E c \in Closer : Detach(c) \/ Close(c)
        \/ InjectStep

Spec == Init /\ [][Next]_vars

(* A goroutine that can go on does, and a Close that has begun goes on.      *)
(* Nobody has to close the endpoint.                                         *)
Progress == \/ \E w \in Sender : WritePackets(w)
            \/ \E c \in Closer : Close(c)
            \/ InjectStep

Fairness == WF_vars(Progress)

FairSpec == Spec /\ Fairness

(* ------------------------------ properties ----------------------------- *)

TypeOK == /\ chan \in Seq(Packet) /\ Len(chan) <= Size
          /\ chanClosed \in BOOLEAN /\ closedCh \in BOOLEAN /\ dispatcher \in BOOLEAN /\ ctxDone \in BOOLEAN
          /\ refs \in [Packet -> 0..1]
          /\ wpc \in [Sender -> {"idle", "select", "done"}]
          /\ sent \in [Sender -> 0..(Batch + Replies)]
          /\ writing \in [Sender -> Packet \cup {NoPacket}]
          /\ cpc \in [Closer -> {"idle", "once", "lock", "drain", "done"}]
          /\ ipc \in {"read", "handle", "deliver", "done"}
          /\ pkt \in Packet \cup {NoPacket}
          /\ \A w \in Sender : wpc[w] = "select" <=> writing[w] # NoPacket

\* "Close may be called concurrently with WritePackets": no writer sends on a closed
\* channel, which would panic, and nothing is left in the channel when Close returns.
CloseIsSafe == /\ chanClosed => \A w \in Sender : wpc[w] # "select"
               /\ \A c \in Closer : cpc[c] = "done" => chan = <<>>

\* A packet has a reference of the queue exactly while it is being written, is in the
\* channel, or is held by the inject goroutine: none leaks, none is freed twice.
RefsBalanced ==
  \A p \in Packet : refs[p] = (IF p \in ToSet(chan) THEN 1 ELSE 0)
                            + Cardinality({w \in Sender : writing[w] = p})
                            + (IF pkt = p THEN 1 ELSE 0)

\* Close returns although writers hold the lock it needs while they wait for room in
\* the channel.
Closing(c) == cpc[c] \in {"once", "lock", "drain"}
CloseReturns == (\E c \in Closer : Closing(c)) ~> (\A c \in Closer : ~Closing(c))

\* A blocked write is over in the end, unless the only reader is gone or is itself
\* blocked writing to the full queue.
ReaderStuck == ipc = "done" \/ (wpc[Inject] = "select" /\ Len(chan) = Size)
Blocked(w) == wpc[w] = "select" /\ ~ReaderStuck
WritesEnd == (\E w \in Writer : Blocked(w)) ~> (\A w \in Writer : ~Blocked(w))
=============================================================================
