----------------------------- MODULE MCServing -----------------------------
(* Three parts of a running tunnel, each on its own: part says whether a     *)
(* behaviour is about the back end of a server port (ServeTarget), the start *)
(* and end of the process (TunnelStartup) or the end of a UDP session        *)
(* (UDPForward); the variables of the others keep their values.              *)
EXTENDS ServeTarget, TLC

CONSTANTS a, b, c,            \* addresses of the back end
          g1, g2, p1, p2,     \* groups and client ports
          f1, f2, f3, f4, peerA, peerB, srcPort, random, none, s1

VARIABLES part,
  proc, phase, netmap, seen, polls, ready, attempts, served, port, signal,
  ep, flow, spc, sport, client, backend, done, copier, timer, fire, pm

MCThree == <<a, b, c>>

\* g1 has a server port and a client port, g2 a client port only.
Startup == INSTANCE TunnelStartup WITH
  Group <- {g1, g2}, ServerGroup <- {g1}, Client <- g1 :> {p1} @@ g2 :> {p2}, Polls <- 2, Attempts <- 2

\* One session over one flow of each kind.
Forward == INSTANCE UDPForward WITH
  pc <- spc, port <- sport,
  Flow <- {f1, f2, f3, f4},
  Kind <- f1 :> "local" @@ f2 :> "filtered" @@ f3 :> "other" @@ f4 :> "service",
  Peer <- f1 :> peerA @@ f2 :> peerB @@ f3 :> peerB @@ f4 :> peerA,
  SrcPort <- [f \in {f1, f2, f3, f4} |-> srcPort],
  RandomPort <- {random}, Sess <- {s1}, None <- none

startup == <<proc, phase, netmap, seen, polls, ready, attempts, served, port, signal>>
forward == <<ep, flow, spc, sport, client, backend, done, copier, timer, fire, pm>>

MCInit == /\ part \in {"target", "startup", "forward"}
          /\ Init /\ (part # "target" => up = {})
          /\ Startup!Init /\ Forward!Init

MCNext == \/ part = "target" /\ Next /\ UNCHANGED <<part, startup, forward>>
          \/ part = "startup" /\ Startup!Next /\ UNCHANGED <<part, vars, forward>>
          \/ part = "forward" /\ Forward!Next /\ UNCHANGED <<part, vars, startup>>

\* The fairness of each, as its module states it.
MCSpec == /\ MCInit /\ [][MCNext]_<<part, vars, startup, forward>>
          /\ \A d \in Dialer : WF_vars(part = "target" /\ Step(d))
          /\ WF_startup(part = "startup" /\ Startup!Progress)
          /\ WF_forward(part = "forward" /\ Forward!Runs)

(* ------------------------------ properties ----------------------------- *)

\* The types of the back end and of the start, with what ties their fields together.
Types == TypeOK /\ Startup!TypeOK

\* No port is opened and no serve configuration accepted before the VPN was connected.
NothingBeforeConnected == Startup!NothingBeforeConnected

\* A group found connected opens its client ports, and one that cannot start ends the
\* process although others run on.
StartupEnds == Startup!ReadyPortsOpen /\ Startup!FailureEndsProcess

\* A UDP session whose copying has stopped in one direction is closed.
StoppedSessionsClose == Forward!StoppedSessionsClose
=============================================================================
