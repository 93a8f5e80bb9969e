---------------------------- MODULE RelayManager ----------------------------
(* Peer relay discovery (wgengine/magicsock/relaymanager.go): one goroutine, *)
(* runLoop, owns the maps of allocations and handshakes in progress.  It     *)
(* ends when there is no work and is started again by whoever has an event   *)
(* for it, among them the goroutines of work that is done.                   *)
EXTENDS Naturals, Sequences, FiniteSets, FiniteSetsExt, Functions, TLC

CONSTANTS Endpoint, \* peers
          Server,   \* relay servers
          From,     \* addresses that challenges and pongs come from
          VNIs, Lamports, \* of the servers' endpoints
          DiscoKeys,      \* Endpoint -> the pair of disco keys
          MaxWork, MaxEvents \* bounds on allocations and handshakes, and on events

NoWork == 0
None == <<>>

VARIABLES
  m,       \* the manager's state
  running, \* runLoop runs
  token,   \* runLoopStoppedCh is full
  want,    \* a goroutine other than those of the work has an event for runLoop
  events,  \* such events so far
  stopped  \* history: endpoints whose work was stopped and not asked for again

vars == <<m, running, token, want, events, stopped>>

(* m.handshake and m.alloc hold all work ever started with the state of its  *)
(* goroutine: "bind" and "answered", or "run", then "notify" when its event  *)
(* is in doneCh, then "gone"; taken once runLoop has the event.  The other   *)
(* fields are the manager's maps, to indices of these.                       *)
Init == /\ m = [servers |-> {}, handshake |-> <<>>, alloc |-> <<>>,
                allocOf |-> [k \in Endpoint \X Server |-> NoWork],
                byEndpoint |-> [k \in Endpoint \X Server |-> NoWork],
                byVNI |-> [k \in Server \X VNIs |-> NoWork],
                awaitingPong |-> [i \in 1..MaxWork |-> None],
                byAPV |-> [k \in From \X VNIs |-> NoWork]]
        /\ running = FALSE /\ token = TRUE
        /\ want = FALSE /\ events = 0
        /\ stopped = {}

hasActiveWorkForEndpoint(s, ep) ==
  \E sv \in Server : s.allocOf[ep, sv] # NoWork \/ s.byEndpoint[ep, sv] # NoWork
hasActiveWork(s) == \E ep \in Endpoint : hasActiveWorkForEndpoint(s, ep)

(* ------------------- what runLoop does to its state -------------------- *)

\* The event of handshake i is taken.
handleHandshakeWorkDone(s, i) ==
  LET w == s.handshake[i]
      apv == s.awaitingPong[i] IN
  IF s.byEndpoint[w.ep, w.sv] # i THEN s
  ELSE [s EXCEPT !.handshake[i].taken = TRUE,
                 !.byEndpoint[w.ep, w.sv] = NoWork,
                 !.byVNI[w.sv, w.vni] = NoWork,
                 !.awaitingPong[i] = None,
                 !.byAPV = IF apv = None THEN @ ELSE [@ EXCEPT ![apv] = NoWork]]

\* cancel, then wait for doneCh.
CancelHandshake(s, i) ==
  handleHandshakeWorkDone([s EXCEPT !.handshake[i].cancelled = TRUE, !.handshake[i].st = "notify"], i)

StartHandshake(s, e) ==
  LET i == Len(s.handshake) + 1 IN
  [s EXCEPT !.handshake = Append(@, [ep |-> e.ep, sv |-> e.sv, vni |-> e.vni, lam |-> e.lam,
                                     st |-> "bind", cancelled |-> FALSE, taken |-> FALSE]),
            !.byEndpoint[e.ep, e.sv] = i,
            !.byVNI[e.sv, e.vni] = i]

\* Mutant: the LamportID is not looked at.
OutdatesNever(s, i, lam) == FALSE

\* Work i makes an event of that LamportID void, being as new.
Outdates(s, i, lam) == i # NoWork /\ s.handshake[i].lam >= lam

\* Older work for the same server endpoint, then for the same peer and server, is
\* replaced.  No handshake starts with the trusted best address.
handleNewServerEndpoint(s, e) ==
  LET i == s.byVNI[e.sv, e.vni]
      s1 == IF i = NoWork THEN s ELSE CancelHandshake(s, i)
      j == s1.byEndpoint[e.ep, e.sv]
      s2 == IF j = NoWork THEN s1 ELSE CancelHandshake(s1, j) IN
  IF Outdates(s, i, e.lam) THEN s
  ELSE IF Outdates(s1, j, e.lam) THEN s1
  ELSE IF e.trusted THEN s2 ELSE StartHandshake(s2, e)

handleAllocWorkDone(s, i) ==
  LET a == s.alloc[i]
      s1 == [s EXCEPT !.alloc[i].taken = TRUE, !.allocOf[a.ep, a.sv] = NoWork] IN
  IF s.allocOf[a.ep, a.sv] # i THEN s
  ELSE IF a.got = None THEN s1 ELSE handleNewServerEndpoint(s1, a.got)

StopAllocs(s, ep) ==
  FoldSet(LAMBDA i, t : handleAllocWorkDone([t EXCEPT !.alloc[i].cancelled = TRUE, !.alloc[i].st = "notify"], i),
          s, {s.allocOf[ep, sv] : sv \in Server} \ {NoWork})

StopHandshakes(s, ep) ==
  FoldSet(LAMBDA i, t : CancelHandshake(t, i), s, {s.byEndpoint[ep, sv] : sv \in Server} \ {NoWork})

\* Mutant: the other way round.
stopWorkSwapped(s, ep) == StopAllocs(StopHandshakes(s, ep), ep)

\* Allocations first: one that has just succeeded starts a handshake.
stopWork(s, ep) == StopHandshakes(StopAllocs(s, ep), ep)

\* One allocation per server, unless one with the same disco keys is in progress.
allocateAllServers(s, ep) ==
  FoldSet(LAMBDA sv, t :
            [t EXCEPT !.alloc = Append(@, [ep |-> ep, sv |-> sv, st |-> "run", got |-> None,
                                           cancelled |-> FALSE, taken |-> FALSE]),
                      !.allocOf[ep, sv] = Len(t.alloc) + 1],
          s, {sv \in s.servers : \A o \in Endpoint : s.allocOf[o, sv] # NoWork => DiscoKeys[o] # DiscoKeys[ep]})

\* A message for handshake i: its goroutine takes it, unless it is done.
Deliver(s, i, st) ==
  IF s.handshake[i].st = "notify" THEN handleHandshakeWorkDone(s, i)
  ELSE [s EXCEPT !.handshake[i].st = st]

(* ------------------------------- runLoop ------------------------------- *)

Notifiers(ws) == {i \in DOMAIN ws : ws[i].st = "notify"}

AnyWants == want \/ Notifiers(m.handshake) # {} \/ Notifiers(m.alloc) # {}

StartLoopIf(wanted) ==
  /\ token /\ wanted
  /\ token' = FALSE /\ running' = TRUE
  /\ UNCHANGED <<m, want, events, stopped>>

\* Mutant: work that is done does not start runLoop.
StartLoopIfWanted == StartLoopIf(want)

\* relayManagerInputEvent starts runLoop if it has stopped.
StartLoop == StartLoopIf(AnyWants)

Want ==
  /\ ~want /\ events < MaxEvents
  /\ want' = TRUE /\ events' = events + 1
  /\ UNCHANGED <<m, running, token, stopped>>

HandledIf(s, leavesToken) ==
  /\ running
  /\ m' = s
  /\ running' = hasActiveWork(s)
  /\ token' = (leavesToken /\ ~running')

\* Mutant: runLoop returns and does not say so.
HandledSilent(s) == HandledIf(s, FALSE)

\* An event is handled; runLoop returns if there is no work left.
Handled(s) == HandledIf(s, TRUE)

Event(s) == want /\ want' = FALSE /\ Handled(s) /\ UNCHANGED events

StartDiscovery(ep) ==
  /\ Len(m.handshake) + Len(m.alloc) + 2 * Cardinality(m.servers) <= MaxWork
  /\ Event(IF hasActiveWorkForEndpoint(m, ep) THEN m ELSE allocateAllServers(m, ep))
  /\ stopped' = stopped \ {ep}

\* A peer tells of a server endpoint.
CallMeMaybeVia(e) ==
  /\ Len(m.handshake) + Len(m.alloc) < MaxWork
  /\ Event(handleNewServerEndpoint(m, e))
  /\ stopped' = stopped \ {e.ep}

CancelWork(ep) ==
  /\ Event(stopWork(m, ep))
  /\ stopped' = stopped \cup {ep}

\* handleServersUpdate, handleServerUpsert and handleServerRemove.  getServers and a change
\* of a server's DERP home leave the set as it is.
Servers(svs) == Event([m EXCEPT !.servers = svs]) /\ UNCHANGED stopped

\* A response to an allocation request goes by the server and the disco keys; one to an
\* earlier request is not current.
AllocFor(sv, keys) == {m.allocOf[ep, sv] : ep \in {o \in Endpoint : DiscoKeys[o] = keys}} \ {NoWork}

Allocated(i, se) == se @@ [ep |-> m.alloc[i].ep]

RxAllocated(sv, keys, se, current) ==
  /\ LET as == AllocFor(sv, keys)
         i == CHOOSE j \in as : TRUE IN
     Event(IF as = {} THEN m
           ELSE IF m.alloc[i].st = "notify" THEN handleAllocWorkDone(m, i)
           ELSE IF current THEN [m EXCEPT !.alloc[i].st = "notify", !.alloc[i].got = Allocated(i, se)]
           ELSE m)
  /\ UNCHANGED stopped

\* Only the first challenge counts, and an address serves one handshake.
RxChallenge(sv, apv, valid) ==
  /\ LET i == m.byVNI[sv, apv[2]] IN
     Event(IF i = NoWork \/ (i # NoWork /\ m.awaitingPong[i] # None) \/ m.byAPV[apv] # NoWork THEN m
           ELSE Deliver([m EXCEPT !.awaitingPong[i] = apv, !.byAPV[apv] = i], i,
                        IF valid THEN "answered" ELSE m.handshake[i].st))
  /\ UNCHANGED stopped

\* A pong ends the handshake if it answers one of its pings; a ping does not.
RxPingPong(apv, pong) ==
  /\ LET i == m.byAPV[apv] IN
     Event(IF i = NoWork THEN m
           ELSE Deliver(m, i, IF pong /\ m.handshake[i].st = "answered" THEN "notify" ELSE m.handshake[i].st))
  /\ UNCHANGED stopped

(* -------------------------- the work's goroutines ---------------------- *)

\* A timer ends the work.
TimesOut ==
  /\ \/ \E i \in DOMAIN m.handshake : /\ m.handshake[i].st \in {"bind", "answered"}
                                      /\ m' = [m EXCEPT !.handshake[i].st = "notify"]
     \/ \E i \in DOMAIN m.alloc : m.alloc[i].st = "run" /\ m' = [m EXCEPT !.alloc[i].st = "notify"]
  /\ UNCHANGED <<running, token, want, events, stopped>>

\* runLoop gets the event of the work, perhaps for the second time.
Notifies ==
  /\ \/ \E i \in Notifiers(m.handshake) : Handled(handleHandshakeWorkDone([m EXCEPT !.handshake[i].st = "gone"], i))
     \/ \E i \in Notifiers(m.alloc) : Handled(handleAllocWorkDone([m EXCEPT !.alloc[i].st = "gone"], i))
  /\ UNCHANGED <<want, events, stopped>>

\* The work was cancelled: nobody waits for its event.
NotifyEnds ==
  /\ \/ \E i \in Notifiers(m.handshake) : m.handshake[i].cancelled /\ m' = [m EXCEPT !.handshake[i].st = "gone"]
     \/ \E i \in Notifiers(m.alloc) : m.alloc[i].cancelled /\ m' = [m EXCEPT !.alloc[i].st = "gone"]
  /\ UNCHANGED <<running, token, want, events, stopped>>

\* A server endpoint, and whether it is the trusted best address of the peer.
ServerEndpoint == [sv : Server, vni : VNIs, lam : Lamports, trusted : BOOLEAN]

Rx == \/ \E keys \in Range(DiscoKeys), se \in ServerEndpoint, b \in BOOLEAN : RxAllocated(se.sv, keys, se, b)
      \/ \E sv \in Server, apv \in From \X VNIs, b \in BOOLEAN : RxChallenge(sv, apv, b)
      \/ \E apv \in From \X VNIs, b \in BOOLEAN : RxPingPong(apv, b)

Ask == \/ \E ep \in Endpoint : StartDiscovery(ep) \/ CancelWork(ep)
       \/ \E ep \in Endpoint, se \in ServerEndpoint : CallMeMaybeVia(se @@ [ep |-> ep])
       \/ \E svs \in SUBSET Server : Servers(svs)

Goes == TimesOut \/ NotifyEnds \/ Notifies \/ StartLoop \/ Ask \/ Rx

Next == Want \/ Goes

Spec == Init /\ [][Next]_vars

\* Goroutines and timers go on.
Fairness == WF_vars(Goes)

FairSpec == Spec /\ Fairness

(* ------------------------------ properties ----------------------------- *)

TypeOK == /\ running \in BOOLEAN /\ token \in BOOLEAN /\ want \in BOOLEAN
          /\ events \in 0..MaxEvents /\ stopped \subseteq Endpoint
          /\ Len(m.handshake) <= MaxWork
          /\ token = ~running
          /\ (~running => ~hasActiveWork(m))

\* The maps agree: a handshake whose event runLoop has not had is in both maps, no other
\* is in any, and the addresses lead back to the handshakes that wait for a pong.
WorkTracked ==
  /\ \A i \in DOMAIN m.handshake :
       LET w == m.handshake[i] IN
       /\ (~w.taken) = (m.byEndpoint[w.ep, w.sv] = i)
       /\ (~w.taken) = (m.byVNI[w.sv, w.vni] = i)
       /\ w.taken => m.awaitingPong[i] = None
  /\ \A i \in 1..MaxWork, apv \in From \X VNIs : m.awaitingPong[i] = apv <=> m.byAPV[apv] = i
  /\ \A i \in DOMAIN m.alloc : (~m.alloc[i].taken) = (m.allocOf[m.alloc[i].ep, m.alloc[i].sv] = i)

\* After stopWork the endpoint has no work, not even that of an allocation that
\* succeeded at the same moment, until someone asks for it again.
StopStops == \A ep \in stopped : ~hasActiveWorkForEndpoint(m, ep)

\* Only a newer server endpoint, by its LamportID, replaces a handshake in progress.
NewestWins == [][\A k \in Server \X VNIs : m.byVNI[k] # NoWork /\ m'.byVNI[k] \notin {NoWork, m.byVNI[k]}
                   => m'.handshake[m'.byVNI[k]].lam > m.handshake[m.byVNI[k]].lam]_vars

\* All work ends and its goroutines with it, and every event is taken, although runLoop
\* stops and starts.
Busy == want \/ (\E i \in DOMAIN m.handshake : m.handshake[i].st # "gone")
             \/ (\E i \in DOMAIN m.alloc : m.alloc[i].st # "gone")
WorkEnds == Busy ~> ~Busy
=============================================================================
