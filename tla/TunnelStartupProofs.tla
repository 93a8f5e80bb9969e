------------------------ MODULE TunnelStartupProofs ------------------------
(* Nothing is opened before the VPN was connected, for any groups, ports and *)
(* numbers of polls and attempts.                                            *)
EXTENDS TunnelStartup, TLAPS

Types == /\ netmap \in [Group -> BOOLEAN] /\ seen \in [Group -> BOOLEAN]
         /\ ready \in [Group -> BOOLEAN] /\ served \in [Group -> BOOLEAN]
         /\ port = [g \in Group |-> port[g]]
         /\ \A g \in Group : port[g] \in [Client[g] -> [Proto -> Listener]]

\* Opening a port needs vpnReady, and that and the serve configuration need a netmap.
Connected(g) ==
  /\ netmap[g] \/ ready[g] \/ served[g] => seen[g]
  /\ \A p \in Client[g], t \in Proto : port[g][p][t] # "held" => seen[g]

IInv == Types /\ \A g \in Group : Connected(g)

\* A step that opens nothing for others: what the group of the step may do.
LEMMA GroupStep ==
  ASSUME IInv, Types', NEW g \in Group, Connected(g)',
         \A h \in Group \ {g} : UNCHANGED <<netmap[h], seen[h], ready[h], served[h], port[h]>>
  PROVE  IInv'
  BY DEF IInv, Connected

\* Steps of the process change no group's ports.
LEMMA QuietStep ==
  ASSUME IInv, UNCHANGED <<netmap, seen, ready, served, port>>
  PROVE  IInv'
  BY DEF IInv, Types, Connected

\* Polling and setting the serve configuration find a netmap, or none.
LEMMA FindStep ==
  ASSUME IInv, NEW g \in Group, Poll(g) \/ \E ok \in BOOLEAN : SetServeConfig(g, ok)
  PROVE  IInv'
  <1>1. Types /\ Connected(g) /\ UNCHANGED <<netmap, seen, port>>
    BY DEF IInv, Poll, SetServeConfig
  <1>2. CASE Poll(g)
    <2>1. ready' = [ready EXCEPT ![g] = netmap[g]] /\ served' = served
      BY <1>2 DEF Poll
    <2>2. Types'
      BY <1>1, <2>1 DEF Types
    <2>3. Connected(g)'
      BY <1>1, <2>1 DEF Types, Connected
    <2> QED
      BY <1>1, <2>1, <2>2, <2>3, GroupStep DEF Types
  <1>3. ASSUME NEW ok \in BOOLEAN, SetServeConfig(g, ok) PROVE IInv'
    <2>1. served' = [served EXCEPT ![g] = netmap[g] /\ ok] /\ ready' = ready
      BY <1>3 DEF SetServeConfig
    <2>2. (netmap[g] /\ ok) \in BOOLEAN
      OBVIOUS
    <2>3. Types'
      BY <1>1, <2>1, <2>2 DEF Types
    <2>4. Connected(g)'
      BY <1>1, <2>1 DEF Types, Connected
    <2> QED
      BY <1>1, <2>1, <2>3, <2>4, GroupStep DEF Types
  <1> QED
    BY <1>2, <1>3

\* A port is released when vpnReady is closed, and its listeners open after that.
LEMMA OpenStep ==
  ASSUME IInv, NEW g \in Group, NEW p \in Client[g],
         \/ ReleasePort(g, p)
         \/ \E t \in Proto, l \in {"listening", "failed"} : Listen(g, p, t, l)
  PROVE  IInv'
  <1>1. Types /\ Connected(g) /\ UNCHANGED <<netmap, seen, ready, served>>
    BY DEF IInv, ReleasePort, Listen
  <1>2. port[g] \in [Client[g] -> [Proto -> Listener]] /\ port = [h \in Group |-> port[h]]
    BY <1>1 DEF Types
  <1>3. seen[g]
    <2>1. CASE ReleasePort(g, p)
      BY <1>1, <2>1 DEF ReleasePort, Connected
    <2>2. ASSUME NEW t \in Proto, NEW l, Listen(g, p, t, l) PROVE seen[g]
      BY <1>1, <2>2 DEF Listen, Connected
    <2> QED
      BY <2>1, <2>2
  <1>4. /\ port' = [h \in Group |-> port'[h]] /\ port'[g] \in [Client[g] -> [Proto -> Listener]]
        /\ \A h \in Group \ {g} : port'[h] = port[h]
    <2>1. CASE ReleasePort(g, p)
      <3>1. port' = [port EXCEPT ![g] = [port[g] EXCEPT ![p] = [t \in Proto |-> "setup"]]]
        BY <2>1 DEF ReleasePort
      <3>2. [port[g] EXCEPT ![p] = [t \in Proto |-> "setup"]] \in [Client[g] -> [Proto -> Listener]]
        BY <1>2 DEF Listener
      <3> QED
        BY <1>2, <3>1, <3>2
    <2>2. ASSUME NEW t \in Proto, NEW l \in {"listening", "failed"}, Listen(g, p, t, l)
          PROVE  /\ port' = [h \in Group |-> port'[h]] /\ port'[g] \in [Client[g] -> [Proto -> Listener]]
                 /\ \A h \in Group \ {g} : port'[h] = port[h]
      <3> DEFINE one == [port[g][p] EXCEPT ![t] = l]
      <3>1. port' = [port EXCEPT ![g] = [port[g] EXCEPT ![p] = one]]
        BY <2>2 DEF Listen
      <3>2. one \in [Proto -> Listener]
        BY <1>2 DEF Listener
      <3> HIDE DEF one
      <3>3. [port[g] EXCEPT ![p] = one] \in [Client[g] -> [Proto -> Listener]]
        BY <1>2, <3>2
      <3> QED
        BY <1>2, <3>1, <3>3
    <2> QED
      BY <2>1, <2>2
  <1>5. Types'
    BY <1>1, <1>4 DEF Types
  <1>6. Connected(g)'
    BY <1>1, <1>3 DEF Connected
  <1> QED
    BY <1>1, <1>4, <1>5, <1>6, GroupStep

\* A netmap comes, which is remembered, or goes.
LEMMA NetmapStep ==
  ASSUME IInv, NEW g \in Group, NetmapChanges(g)
  PROVE  IInv'
  <1>1. /\ Types /\ UNCHANGED <<ready, served, port>>
        /\ netmap' = [netmap EXCEPT ![g] = ~netmap[g]] /\ seen' = [seen EXCEPT ![g] = TRUE]
    BY DEF IInv, NetmapChanges
  <1>2. Types'
    BY <1>1 DEF Types
  <1>3. Connected(g)'
    BY <1>1 DEF Types, Connected
  <1> QED
    BY <1>1, <1>2, <1>3, GroupStep DEF Types

\* Whatever a group has opened, it has had a netmap.
THEOREM StartupInvariant == Spec => []IInv
  <1>1. Init => IInv
    <2> SUFFICES ASSUME Init PROVE IInv
      OBVIOUS
    <2>1. Types
      BY DEF Init, Types, Listener
    <2>2. ASSUME NEW g \in Group PROVE Connected(g)
      BY DEF Init, Connected
    <2> QED
      BY <2>1, <2>2 DEF IInv
  <1>2. IInv /\ [Next]_vars => IInv'
    <2> SUFFICES ASSUME IInv, [Next]_vars PROVE IInv'
      OBVIOUS
    <2>1. CASE RunTunnelCLI
      BY <2>1, QuietStep DEF RunTunnelCLI, Signal, ExitOnError, ExitOnSignal
    <2>2. ASSUME NEW g \in Group, Start(g) \/ StartFails(g) \/ Shutdown(g) PROVE IInv'
      BY <2>2, QuietStep DEF Start, StartFails, Shutdown
    <2>3. ASSUME NEW g \in Group, RunTunnel(g) PROVE IInv'
      BY <2>2, <2>3, FindStep, OpenStep DEF RunTunnel
    <2>4. ASSUME NEW g \in Group, NetmapChanges(g) PROVE IInv'
      BY <2>4, NetmapStep
    <2>5. CASE UNCHANGED vars
      BY <2>5, QuietStep DEF vars
    <2> QED
      BY <2>1, <2>3, <2>4, <2>5 DEF Next
  <1> QED
    BY <1>1, <1>2, PTL DEF Spec

\* "Wait for VPN to be connected before starting listener": no client port is set up and
\* no serve configuration accepted by a group whose VPN has never been connected.
THEOREM OpensOnlyConnected == Spec => []NothingBeforeConnected
  <1>1. IInv => NothingBeforeConnected
    BY DEF IInv, Connected, NothingBeforeConnected
  <1> QED
    BY <1>1, StartupInvariant, PTL
=============================================================================
