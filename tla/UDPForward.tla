----------------------------- MODULE UDPForward -----------------------------
(* The UDP side of a served port: acceptUDP, forwardUDP and the two copiers  *)
(* startPacketCopy starts (wgengine/netstack/netstack.go), with the identity *)
(* map of proxymap/proxymap.go.  A flow is a (client, destination) pair of   *)
(* the VPN; gVisor hands its first datagram to acceptUDP and keeps feeding   *)
(* the endpoint created there until that endpoint is closed.  A session is   *)
(* one call of forwardUDP.                                                   *)
CONSTANTS Flow,       \* client address and destination address of datagrams
          Kind,       \* Flow -> "service", "filtered", "local" or "other"
          Peer,       \* Flow -> Tailscale IP of the client
          SrcPort,    \* Flow -> UDP port of the client
          RandomPort, \* ports the kernel picks for a bind to port 0
          Sess,       \* calls of forwardUDP
          None

Port == {SrcPort[f] : f \in Flow} \cup RandomPort
PeerIP == {Peer[f] : f \in Flow}

ASSUME ForwardAssumption ==
  /\ Kind \in [Flow -> {"service", "filtered", "local", "other"}]
  /\ DOMAIN Peer = Flow
  /\ DOMAIN SrcPort = Flow
  /\ None \notin Flow \cup Sess \cup Port \cup PeerIP

VARIABLES
  ep,       \* Flow -> session whose endpoint gVisor holds for the flow, or None
  flow,     \* Sess -> flow it forwards, None when not started
  pc,       \* where forwardUDP is
  port,     \* local port of backendConn, None before it is bound
  client,   \* state of the VPN endpoint
  backend,  \* state of backendConn
  done,     \* ctx is cancelled
  copier,   \* where the copier of each direction is
  timer,    \* the idle timer: "off", "armed", "due" (the idle time is over)
  fire,     \* where the timer function is, "idle" when it is not running
  pm        \* proxymap: local port -> Tailscale IP, or None

vars == <<ep, flow, pc, port, client, backend, done, copier, timer, fire, pm>>

Dir == {"toBackend", "toClient"}
Socket == {"none", "open", "closed"}

isLocal(s) == Kind[flow[s]] = "local"
PortFree(p) == \A t \in Sess : ~(backend[t] = "open" /\ port[t] = p)

Init == /\ ep = [f \in Flow |-> None]
        /\ flow = [s \in Sess |-> None]
        /\ pc = [s \in Sess |-> "none"]
        /\ port = [s \in Sess |-> None]
        /\ client = [s \in Sess |-> "none"]
        /\ backend = [s \in Sess |-> "none"]
        /\ done = [s \in Sess |-> FALSE]
        /\ copier = [s \in Sess |-> [d \in Dir |-> "none"]]
        /\ timer = [s \in Sess |-> "off"]
        /\ fire = [s \in Sess |-> "idle"]
        /\ pm = [p \in Port |-> None]

(* ------------------------ acceptUDP and forwardUDP --------------------- *)

\* A datagram of a flow without endpoint: an endpoint is created and forwardUDP
\* starts, except for the service IPs, whose endpoint is closed at once.
acceptUDP(f, s) ==
  /\ ep[f] = None
  /\ pc[s] = "none"
  /\ Kind[f] # "service"
  /\ ep' = [ep EXCEPT ![f] = s]
  /\ flow' = [flow EXCEPT ![s] = f]
  /\ client' = [client EXCEPT ![s] = "open"]
  /\ pc' = [pc EXCEPT ![s] = "filter"]
  /\ UNCHANGED <<port, backend, done, copier, timer, fire, pm>>

\* The whitelist of the port: a refused client returns without closing client.
Filter(s) ==
  /\ pc[s] = "filter"
  /\ pc' = [pc EXCEPT ![s] = IF Kind[flow[s]] = "filtered" THEN "returned" ELSE "bind"]
  /\ UNCHANGED <<ep, flow, port, client, backend, done, copier, timer, fire, pm>>

\* ListenUDP on the client's port number, else on a random port.
Bind(s, p) ==
  /\ pc[s] = "bind"
  /\ p \in {SrcPort[flow[s]]} \cup RandomPort
  /\ PortFree(p)
  /\ port' = [port EXCEPT ![s] = p]
  /\ backend' = [backend EXCEPT ![s] = "open"]
  /\ pc' = [pc EXCEPT ![s] = IF isLocal(s) THEN "register" ELSE "start"]
  /\ UNCHANGED <<ep, flow, client, done, copier, timer, fire, pm>>

\* Both binds fail: forwardUDP returns and leaves client open.
BindError(s) ==
  /\ pc[s] = "bind"
  /\ pc' = [pc EXCEPT ![s] = "returned"]
  /\ UNCHANGED <<ep, flow, port, client, backend, done, copier, timer, fire, pm>>

\* RegisterIPPortIdentity refuses a port that is registered already; forwardUDP
\* then returns and leaves both sockets open.
Register(s) ==
  /\ pc[s] = "register"
  /\ IF pm[port[s]] = None
       THEN /\ pm' = [pm EXCEPT ![port[s]] = Peer[flow[s]]]
            /\ pc' = [pc EXCEPT ![s] = "start"]
       ELSE /\ pc' = [pc EXCEPT ![s] = "returned"]
            /\ UNCHANGED pm
  /\ UNCHANGED <<ep, flow, port, client, backend, done, copier, timer, fire>>

\* The idle timer is armed and both copiers start.
Start(s) ==
  /\ pc[s] = "start"
  /\ pc' = [pc EXCEPT ![s] = "started"]
  /\ timer' = [timer EXCEPT ![s] = "armed"]
  /\ copier' = [copier EXCEPT ![s] = [d \in Dir |-> "top"]]
  /\ UNCHANGED <<ep, flow, port, client, backend, done, fire, pm>>

(* ---------------------------- startPacketCopy -------------------------- *)

srcOpen(s, d) == IF d = "toBackend" THEN client[s] = "open" ELSE backend[s] = "open"
dstOpen(s, d) == IF d = "toBackend" THEN backend[s] = "open" ELSE client[s] = "open"

\* A copier ends: the deferred cancel runs.
CopierEnds(s, d) ==
  /\ copier' = [copier EXCEPT ![s][d] = "done"]
  /\ done' = [done EXCEPT ![s] = TRUE]
  /\ UNCHANGED <<ep, flow, pc, port, client, backend, timer, fire, pm>>

CopierMoves(s, d, from, to) ==
  /\ copier[s][d] = from
  /\ copier' = [copier EXCEPT ![s][d] = to]
  /\ UNCHANGED <<ep, flow, pc, port, client, backend, done, timer, fire, pm>>

\* Top of the loop: look at ctx once, then block in ReadFrom.
CopierTop(s, d) ==
  IF done[s] THEN copier[s][d] = "top" /\ CopierEnds(s, d)
             ELSE CopierMoves(s, d, "top", "read")

CopierRead(s, d) == srcOpen(s, d) /\ CopierMoves(s, d, "read", "write")

\* ReadFrom fails: the socket is closed, or the datagram cannot be decrypted.
CopierReadError(s, d) == copier[s][d] = "read" /\ CopierEnds(s, d)

CopierWrite(s, d) == dstOpen(s, d) /\ CopierMoves(s, d, "write", "extend")

CopierWriteError(s, d) == copier[s][d] = "write" /\ CopierEnds(s, d)

\* timer.Reset: re-arms the timer, also one that has fired already.
Extend(s, d) ==
  /\ copier[s][d] = "extend"
  /\ copier' = [copier EXCEPT ![s][d] = "top"]
  /\ timer' = [timer EXCEPT ![s] = "armed"]
  /\ UNCHANGED <<ep, flow, pc, port, client, backend, done, fire, pm>>

(* ----------------------------- the idle timer -------------------------- *)

\* No datagram was copied for idleTimeout.
IdleTimeout(s) ==
  /\ timer[s] = "armed"
  /\ timer' = [timer EXCEPT ![s] = "due"]
  /\ UNCHANGED <<ep, flow, pc, port, client, backend, done, copier, fire, pm>>

\* Mutant: the timer is stopped when a copier cancels the session.
FireUnlessDone(s) ==
  /\ timer[s] = "due"
  /\ fire[s] = "idle"
  /\ ~done[s]
  /\ timer' = [timer EXCEPT ![s] = "off"]
  /\ fire' = [fire EXCEPT ![s] = "unregister"]
  /\ UNCHANGED <<ep, flow, pc, port, client, backend, done, copier, pm>>

\* The timer function starts; two runs of it are idleTimeout apart.
Fire(s) ==
  /\ timer[s] = "due"
  /\ fire[s] = "idle"
  /\ timer' = [timer EXCEPT ![s] = "off"]
  /\ fire' = [fire EXCEPT ![s] = "unregister"]
  /\ UNCHANGED <<ep, flow, pc, port, client, backend, done, copier, pm>>

\* Mutant: the timer function does not unregister the port.
UnregisterSkipped(s) ==
  /\ fire[s] = "unregister"
  /\ fire' = [fire EXCEPT ![s] = "cancel"]
  /\ UNCHANGED <<ep, flow, pc, port, client, backend, done, copier, timer, pm>>

\* Mutant: only a session no copier has cancelled is unregistered.
UnregisterIfRunning(s) ==
  /\ fire[s] = "unregister"
  /\ fire' = [fire EXCEPT ![s] = "cancel"]
  /\ pm' = IF isLocal(s) /\ ~done[s] THEN [pm EXCEPT ![port[s]] = None] ELSE pm
  /\ UNCHANGED <<ep, flow, pc, port, client, backend, done, copier, timer>>

Unregister(s) ==
  /\ fire[s] = "unregister"
  /\ fire' = [fire EXCEPT ![s] = "cancel"]
  /\ pm' = IF isLocal(s) THEN [pm EXCEPT ![port[s]] = None] ELSE pm
  /\ UNCHANGED <<ep, flow, pc, port, client, backend, done, copier, timer>>

Cancel(s) ==
  /\ fire[s] = "cancel"
  /\ fire' = [fire EXCEPT ![s] = "closeClient"]
  /\ done' = [done EXCEPT ![s] = TRUE]
  /\ UNCHANGED <<ep, flow, pc, port, client, backend, copier, timer, pm>>

\* The endpoint is closed; the next datagram of the flow reaches acceptUDP.
CloseClient(s) ==
  /\ fire[s] = "closeClient"
  /\ fire' = [fire EXCEPT ![s] = "closeBackend"]
  /\ client' = [client EXCEPT ![s] = "closed"]
  /\ ep' = [f \in Flow |-> IF ep[f] = s THEN None ELSE ep[f]]
  /\ UNCHANGED <<flow, pc, port, backend, done, copier, timer, pm>>

CloseBackend(s) ==
  /\ fire[s] = "closeBackend"
  /\ fire' = [fire EXCEPT ![s] = "idle"]
  /\ backend' = [backend EXCEPT ![s] = "closed"]
  /\ UNCHANGED <<ep, flow, pc, port, client, done, copier, timer, pm>>

ForwardUDP(s) == \/ \E f \in Flow : acceptUDP(f, s)
                 \/ Filter(s)
                 \/ \E p \in Port : Bind(s, p)
                 \/ BindError(s)
                 \/ Register(s)
                 \/ Start(s)

PacketCopy(s, d) == \/ CopierTop(s, d)
                    \/ CopierRead(s, d)
                    \/ CopierReadError(s, d)
                    \/ CopierWrite(s, d)
                    \/ CopierWriteError(s, d)
                    \/ Extend(s, d)

TimerFunc(s) == Unregister(s) \/ Cancel(s) \/ CloseClient(s) \/ CloseBackend(s)

Next == \E s \in Sess : \/ ForwardUDP(s)
                        \/ \E d \in Dir : PacketCopy(s, d)
                        \/ IdleTimeout(s)
                        \/ Fire(s)
                        \/ TimerFunc(s)

Spec == Init /\ [][Next]_vars

(* forwardUDP, the copiers and the timer function run when they can; the    *)
(* timer fires once it is due and nobody extends it.  Nothing says that a   *)
(* ReadFrom on an open socket ever returns.                                 *)
Runs ==
  \E s \in Sess :
    \/ ForwardUDP(s) /\ pc[s] # "none"
    \/ IdleTimeout(s) \/ Fire(s) \/ TimerFunc(s)
    \/ \E d \in Dir : PacketCopy(s, d) /\ (copier[s][d] = "read" => ~srcOpen(s, d))

Fairness == WF_vars(Runs)

FairSpec == Spec /\ Fairness

(* ------------------------------ properties ----------------------------- *)

TypeOK == /\ ep \in [Flow -> Sess \cup {None}]
          /\ flow \in [Sess -> Flow \cup {None}]
          /\ pc \in [Sess -> {"none", "filter", "bind", "register", "start",
                              "started", "returned"}]
          /\ port \in [Sess -> Port \cup {None}]
          /\ client \in [Sess -> Socket]
          /\ backend \in [Sess -> Socket]
          /\ done \in [Sess -> BOOLEAN]
          /\ copier \in [Sess -> [Dir -> {"none", "top", "read", "write", "extend", "done"}]]
          /\ timer \in [Sess -> {"off", "armed", "due"}]
          /\ fire \in [Sess -> {"idle", "unregister", "cancel", "closeClient", "closeBackend"}]
          /\ pm \in [Port -> PeerIP \cup {None}]

\* WhoIsIPPort never names a peer that is not using the port: a registered port
\* is bound by an open session of exactly that peer.
IdentityTrue ==
  \A p \in Port : pm[p] # None =>
    \E s \in Sess : /\ backend[s] = "open"
                    /\ port[s] = p
                    /\ Peer[flow[s]] = pm[p]

\* A session that has just bound its port finds it unregistered, although the
\* timer functions of earlier sessions run concurrently: the error return of
\* RegisterIPPortIdentity, which would leave both sockets open, is not taken.
RegisterNeverClashes ==
  \A s \in Sess : pc[s] = "register" => pm[port[s]] = None

\* Two open sessions never share a local port.
PortsDistinct ==
  \A s, t \in Sess :
    (backend[s] = "open" /\ backend[t] = "open" /\ port[s] = port[t]) => s = t

\* How far forwardUDP is, against what it has set up so far.
Progress ==
  \A s \in Sess :
    /\ pc[s] # "none" => flow[s] \in Flow
    /\ backend[s] = "none" <=> port[s] = None
    /\ pc[s] \in {"none", "filter", "bind"} => backend[s] = "none"
    /\ pc[s] \in {"register", "start"} => backend[s] = "open"
    /\ pc[s] = "started" => backend[s] # "none"
    /\ pc[s] = "register" => isLocal(s)
    /\ pc[s] # "started" => /\ fire[s] = "idle"
                            /\ timer[s] = "off"
                            /\ copier[s] = [d \in Dir |-> "none"]

\* A registration is held by the open local session it was made for, which has
\* not reached the Unregister of its timer function.
Registered ==
  \A p \in Port : pm[p] # None =>
    \E s \in Sess : /\ backend[s] = "open"
                    /\ port[s] = p
                    /\ Peer[flow[s]] = pm[p]
                    /\ isLocal(s)
                    /\ pc[s] \in {"start", "started"}
                    /\ fire[s] \in {"idle", "unregister"}

\* The inductive invariant of the sessions and the identity map.
IInv == TypeOK /\ PortsDistinct /\ Progress /\ Registered

\* Mapper "tracks which localhost ip:ports correspond to which remote Tailscale
\* IPs for connections proxied": while a local session forwards and its timer
\* function has not started, its port is registered for its client.
IdentityKept ==
  \A s \in Sess :
    (pc[s] = "started" /\ isLocal(s) /\ backend[s] = "open" /\ fire[s] = "idle")
      => pm[port[s]] = Peer[flow[s]]

\* A session whose copying has stopped in one direction holds its flow's
\* endpoint only for a while: both copiers end and both sockets are closed, so
\* that the next datagram of the flow starts a new session.
StoppedSessionsClose ==
  \A s \in Sess :
    done[s] ~> /\ client[s] = "closed"
               /\ backend[s] = "closed"
               /\ \A d \in Dir : copier[s][d] = "done"
               /\ \A f \in Flow : ep[f] # s
=============================================================================
