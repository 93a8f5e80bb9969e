--------------------------- MODULE TunnelStartup ---------------------------
(* From the command line to listening ports: runTunnelCLI starts runTunnel   *)
(* for every group; each of them starts its backend, polls for a netmap,     *)
(* retries the serve configuration of its server ports and holds back its    *)
(* client ports until the VPN is connected                                   *)
(* (cmd/tunnneji-tail/cli/tunnel.go).  The netmap of a group comes and goes  *)
(* with the control plane, which is external here.                           *)
EXTENDS Naturals

CONSTANTS Group,       \* groups of the command line
          ServerGroup, \* groups with at least one -S port
          Client,      \* Group -> its -C ports
          Polls,       \* polls for a netmap: 30
          Attempts     \* attempts at SetServeConfig: 60

VARIABLES
  proc,      \* "running", or how the process ended: "ok", "error"
  phase,     \* Group -> where runTunnel is
  netmap,    \* Group -> TRUE while the backend has a netmap with a valid self node
  seen,      \* Group -> TRUE once it had one
  polls,     \* Group -> polls done
  ready,     \* Group -> vpnReady is closed
  attempts,  \* Group -> attempts done
  served,    \* Group -> the serve configuration was accepted
  port,      \* Group -> -C port -> "tcp" or "udp" -> state of the listener
  signal     \* a signal has been delivered, to every channel of signal.Notify

vars == <<proc, phase, netmap, seen, polls, ready, attempts, served, port, signal>>

Proto == {"tcp", "udp"}
Listener == {"held", "setup", "listening", "failed"}

Init == /\ proc = "running"
        /\ phase = [g \in Group |-> "starting"]
        /\ netmap = [g \in Group |-> FALSE]
        /\ seen = [g \in Group |-> FALSE]
        /\ polls = [g \in Group |-> 0]
        /\ ready = [g \in Group |-> FALSE]
        /\ attempts = [g \in Group |-> 0]
        /\ served = [g \in Group |-> FALSE]
        /\ port = [g \in Group |-> [p \in Client[g] |-> [t \in Proto |-> "held"]]]
        /\ signal = FALSE

(* --------------------------- one group: runTunnel ---------------------- *)

\* The goroutines of a group outlive runTunnel; only the end of the process
\* stops them.
Runs(g) == proc = "running" /\ phase[g] \in {"running", "shutdown"}

\* Engine, backend and login are started; the goroutines are spawned.
Start(g) ==
  /\ proc = "running"
  /\ phase[g] = "starting"
  /\ phase' = [phase EXCEPT ![g] = "running"]
  /\ UNCHANGED <<proc, netmap, seen, polls, ready, attempts, served, port, signal>>

\* One of them fails: runTunnel returns the error.
StartFails(g) ==
  /\ proc = "running"
  /\ phase[g] = "starting"
  /\ phase' = [phase EXCEPT ![g] = "failed"]
  /\ UNCHANGED <<proc, netmap, seen, polls, ready, attempts, served, port, signal>>

\* Mutant: the client ports are released when the polls run out.
PollGivesUpReady(g) ==
  /\ Runs(g)
  /\ ~ready[g]
  /\ polls[g] < Polls
  /\ polls' = [polls EXCEPT ![g] = @ + 1]
  /\ ready' = [ready EXCEPT ![g] = netmap[g] \/ polls'[g] = Polls]
  /\ UNCHANGED <<proc, phase, netmap, seen, attempts, served, port, signal>>

\* One poll of the goroutine that closes vpnReady.
Poll(g) ==
  /\ Runs(g)
  /\ ~ready[g]
  /\ polls[g] < Polls
  /\ polls' = [polls EXCEPT ![g] = @ + 1]
  /\ ready' = [ready EXCEPT ![g] = netmap[g]]
  /\ UNCHANGED <<proc, phase, netmap, seen, attempts, served, port, signal>>

\* One attempt of the goroutine that installs the serve configuration; it
\* fails without a netmap, and when the state store cannot be written.
SetServeConfig(g, stored) ==
  /\ Runs(g)
  /\ g \in ServerGroup
  /\ ~served[g]
  /\ attempts[g] < Attempts
  /\ attempts' = [attempts EXCEPT ![g] = @ + 1]
  /\ served' = [served EXCEPT ![g] = netmap[g] /\ stored]
  /\ UNCHANGED <<proc, phase, netmap, seen, polls, ready, port, signal>>

\* The goroutine of a client port passes <-vpnReady and starts both listeners.
ReleasePort(g, p) ==
  /\ Runs(g)
  /\ ready[g]
  /\ port[g][p] = [t \in Proto |-> "held"]
  /\ port' = [port EXCEPT ![g][p] = [t \in Proto |-> "setup"]]
  /\ UNCHANGED <<proc, phase, netmap, seen, polls, ready, attempts, served, signal>>

\* setupTCPListener and setupUDPListener, each with its own error return.
Listen(g, p, t, l) ==
  /\ Runs(g)
  /\ port[g][p][t] = "setup"
  /\ port' = [port EXCEPT ![g][p][t] = l]
  /\ UNCHANGED <<proc, phase, netmap, seen, polls, ready, attempts, served, signal>>

\* runTunnel receives the signal and shuts its backend down.
Shutdown(g) ==
  /\ proc = "running"
  /\ phase[g] = "running"
  /\ signal
  /\ phase' = [phase EXCEPT ![g] = "shutdown"]
  /\ UNCHANGED <<proc, netmap, seen, polls, ready, attempts, served, port, signal>>

(* ------------------------ the process: runTunnelCLI -------------------- *)

Signal ==
  /\ proc = "running"
  /\ ~signal
  /\ signal' = TRUE
  /\ UNCHANGED <<proc, phase, netmap, seen, polls, ready, attempts, served, port>>

\* Mutant: one failed group among several leaves the others running.
ExitIfAllFailed ==
  /\ proc = "running"
  /\ \A g \in Group : phase[g] = "failed"
  /\ proc' = "error"
  /\ UNCHANGED <<phase, netmap, seen, polls, ready, attempts, served, port, signal>>

\* The error of a group is received from errCh: returned with one group, fatal
\* with several.
ExitOnError ==
  /\ proc = "running"
  /\ \E g \in Group : phase[g] = "failed"
  /\ proc' = "error"
  /\ UNCHANGED <<phase, netmap, seen, polls, ready, attempts, served, port, signal>>

\* The signal is received; a group may still be shutting down its backend.
ExitOnSignal ==
  /\ proc = "running"
  /\ signal
  /\ proc' = "ok"
  /\ UNCHANGED <<phase, netmap, seen, polls, ready, attempts, served, port, signal>>

\* External: a map response brings a netmap, or the netmap is dropped.
NetmapChanges(g) ==
  /\ proc = "running"
  /\ phase[g] = "running"
  /\ netmap' = [netmap EXCEPT ![g] = ~@]
  /\ seen' = [seen EXCEPT ![g] = TRUE]
  /\ UNCHANGED <<proc, phase, polls, ready, attempts, served, port, signal>>

RunTunnel(g) ==
  \/ Start(g)
  \/ StartFails(g)
  \/ Poll(g)
  \/ \E ok \in BOOLEAN : SetServeConfig(g, ok)
  \/ \E p \in Client[g] : ReleasePort(g, p)
  \/ \E p \in Client[g], t \in Proto, l \in {"listening", "failed"} : Listen(g, p, t, l)
  \/ Shutdown(g)

RunTunnelCLI == Signal \/ ExitOnError \/ ExitOnSignal

Next == RunTunnelCLI \/ \E g \in Group : RunTunnel(g) \/ NetmapChanges(g)

Spec == Init /\ [][Next]_vars

(* Every goroutine runs when it can.  Nothing says that a netmap or a signal *)
(* ever arrives, or that the store can be written.  The steps of all are      *)
(* bounded, so that fairness of the whole gives each its turn.                *)
Progress ==
  \/ ExitOnError \/ ExitOnSignal
  \/ \E g \in Group :
       \/ Start(g) \/ StartFails(g) \/ Poll(g)
       \/ \E ok \in BOOLEAN : SetServeConfig(g, ok)
       \/ \E p \in Client[g] : ReleasePort(g, p)
       \/ \E p \in Client[g], t \in Proto, l \in {"listening", "failed"} : Listen(g, p, t, l)

Fairness == WF_vars(Progress)

FairSpec == Spec /\ Fairness

(* ------------------------------ properties ----------------------------- *)

TypeOK == /\ proc \in {"running", "ok", "error"}
          /\ phase \in [Group -> {"starting", "running", "shutdown", "failed"}]
          /\ netmap \in [Group -> BOOLEAN]
          /\ seen \in [Group -> BOOLEAN]
          /\ polls \in [Group -> 0..Polls]
          /\ ready \in [Group -> BOOLEAN]
          /\ attempts \in [Group -> 0..Attempts]
          /\ served \in [Group -> BOOLEAN]
          /\ \A g \in Group : port[g] \in [Client[g] -> [Proto -> Listener]]
          /\ signal \in BOOLEAN

\* "Wait for VPN to be connected before starting listener": a client port is set
\* up, and a serve configuration accepted, only by a group whose VPN has been
\* connected, whatever the other groups, signals and late polls do.
NothingBeforeConnected ==
  \A g \in Group :
    (served[g] \/ \E p \in Client[g], t \in Proto : port[g][p][t] # "held") => seen[g]

\* Once a poll has found the VPN connected, every client port of the group is
\* tried for both protocols, whatever becomes of the other listeners and of the
\* netmap meanwhile, unless the process ends.
Unopened ==
  proc = "running" /\ \E g \in Group : ready[g] /\ \E p \in Client[g], t \in Proto : port[g][p][t] \in {"held", "setup"}
ReadyPortsOpen == Unopened ~> ~Unopened

\* A group that cannot start ends the process, however many other groups run.
FailureEndsProcess == (\E g \in Group : phase[g] = "failed") ~> proc # "running"
=============================================================================
