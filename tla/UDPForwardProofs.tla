-------------------------- MODULE UDPForwardProofs --------------------------
(* The identity map of forwarded UDP sessions is never wrong about a peer,   *)
(* for any flows, sessions and ports.                                        *)
EXTENDS UDPForward, TLAPS

\* Nothing is bound or registered initially.
LEMMA InitIInv == Init => IInv
<1> SUFFICES ASSUME Init PROVE IInv
  OBVIOUS
<1> USE ForwardAssumption DEF Init
<1>1. TypeOK
  BY DEF TypeOK, Socket
<1>2. PortsDistinct /\ Registered
  BY DEF PortsDistinct, Registered
<1>3. Progress
  BY DEF Progress
<1> QED
  BY <1>1, <1>2, <1>3 DEF IInv

\* acceptUDP and every step of forwardUDP preserve the inductive invariant; the
\* one that matters is Register, which needs the port to be its session's own.
LEMMA ForwardIInv == ASSUME NEW s \in Sess, IInv, ForwardUDP(s)
                     PROVE  IInv'
<1> USE ForwardAssumption DEF IInv, Socket, Dir, isLocal
<1>1. ASSUME NEW f \in Flow, acceptUDP(f, s)
      PROVE  IInv'
  <2>1. TypeOK' BY <1>1 DEF TypeOK, acceptUDP
  <2>2. PortsDistinct' BY <1>1 DEF PortsDistinct, acceptUDP
  <2>3. Progress' BY <1>1 DEF TypeOK, Progress, acceptUDP
  <2>4. Registered' BY <1>1 DEF TypeOK, Progress, Registered, acceptUDP
  <2> QED BY <2>1, <2>2, <2>3, <2>4
<1>2. CASE Filter(s)
  <2>1. TypeOK' BY <1>2 DEF TypeOK, Filter
  <2>2. PortsDistinct' BY <1>2 DEF PortsDistinct, Filter
  <2>3. Progress' BY <1>2 DEF TypeOK, Progress, Filter
  <2>4. Registered' BY <1>2 DEF TypeOK, Progress, Registered, Filter
  <2> QED BY <2>1, <2>2, <2>3, <2>4
<1>3. ASSUME NEW p \in Port, Bind(s, p)
      PROVE  IInv'
  <2>1. TypeOK' BY <1>3 DEF TypeOK, Bind
  <2>2. PortsDistinct' BY <1>3 DEF TypeOK, PortsDistinct, PortFree, Bind
  <2>3. Progress' BY <1>3 DEF TypeOK, Progress, Bind
  <2>4. Registered' BY <1>3 DEF TypeOK, Progress, Registered, Bind
  <2> QED BY <2>1, <2>2, <2>3, <2>4
<1>4. CASE BindError(s)
  BY <1>4 DEF TypeOK, PortsDistinct, Progress, Registered, BindError
<1>5. CASE Register(s)
  <2>1. port[s] \in Port /\ flow[s] \in Flow
    BY <1>5 DEF Register, TypeOK, Progress
  <2>2. pm[port[s]] = None
    BY <1>5, <2>1 DEF Register, TypeOK, PortsDistinct, Progress, Registered
  <2>3. /\ pm' = [pm EXCEPT ![port[s]] = Peer[flow[s]]]
        /\ pc' = [pc EXCEPT ![s] = "start"]
    BY <1>5, <2>2 DEF Register
  <2>4. TypeOK' BY <1>5, <2>1, <2>3 DEF Register, TypeOK, PeerIP
  <2>5. PortsDistinct' BY <1>5 DEF Register, PortsDistinct
  <2>6. Progress' BY <1>5, <2>3 DEF Register, TypeOK, Progress
  <2>7. Registered'
    BY <1>5, <2>1, <2>3 DEF Register, TypeOK, Progress, Registered
  <2> QED BY <2>4, <2>5, <2>6, <2>7
<1>6. CASE Start(s)
  <2>1. TypeOK' BY <1>6 DEF TypeOK, Start
  <2>2. PortsDistinct' BY <1>6 DEF PortsDistinct, Start
  <2>3. Progress' BY <1>6 DEF TypeOK, Progress, Start
  <2>4. Registered' BY <1>6 DEF TypeOK, Progress, Registered, Start
  <2> QED BY <2>1, <2>2, <2>3, <2>4
<1> QED
  BY <1>1, <1>2, <1>3, <1>4, <1>5, <1>6 DEF ForwardUDP

\* A copier never touches ports or registrations.
LEMMA CopyIInv == ASSUME NEW s \in Sess, NEW d \in Dir, IInv, PacketCopy(s, d)
                  PROVE  IInv'
<1>1. pc[s] = "started"
  BY DEF IInv, TypeOK, Progress, Dir, PacketCopy, CopierTop, CopierRead, CopierReadError,
     CopierWrite, CopierWriteError, Extend, CopierMoves
<1>2. UNCHANGED <<ep, flow, pc, port, client, backend, fire, pm>>
  BY DEF PacketCopy, CopierTop, CopierRead, CopierReadError, CopierWrite,
     CopierWriteError, Extend, CopierMoves, CopierEnds
<1>3. \A t \in Sess \ {s} : timer'[t] = timer[t] /\ copier'[t] = copier[t]
  BY DEF PacketCopy, CopierTop, CopierRead, CopierReadError, CopierWrite, IInv, TypeOK,
     CopierWriteError, Extend, CopierMoves, CopierEnds
<1>4. TypeOK'
  <2>1. \E c \in {"top", "read", "write", "extend", "done"} :
          copier' = [copier EXCEPT ![s][d] = c]
    BY DEF PacketCopy, CopierTop, CopierRead, CopierReadError, CopierWrite,
       CopierWriteError, Extend, CopierMoves, CopierEnds
  <2>2. done' \in [Sess -> BOOLEAN] /\ timer' \in [Sess -> {"off", "armed", "due"}]
    BY DEF PacketCopy, CopierTop, CopierRead, CopierReadError, CopierWrite, IInv, TypeOK,
       CopierWriteError, Extend, CopierMoves, CopierEnds
  <2>3. copier' \in [Sess -> [Dir -> {"none", "top", "read", "write", "extend", "done"}]]
    BY <2>1 DEF IInv, TypeOK
  <2> QED
    BY <1>2, <2>2, <2>3 DEF IInv, TypeOK
<1>5. PortsDistinct' /\ Registered'
  BY <1>2 DEF IInv, PortsDistinct, Registered, isLocal
<1>6. Progress'
  BY <1>1, <1>2, <1>3 DEF IInv, Progress, isLocal
<1> QED
  BY <1>4, <1>5, <1>6 DEF IInv

\* The timer unregisters before it closes, so a closed session holds nothing; a
\* second run of a re-armed timer can only remove registrations.
LEMMA TimerIInv == ASSUME NEW s \in Sess, IInv,
                          IdleTimeout(s) \/ Fire(s) \/ TimerFunc(s)
                   PROVE  IInv'
<1> USE ForwardAssumption DEF IInv, Socket, Dir, isLocal
<1>1. CASE IdleTimeout(s)
  BY <1>1 DEF TypeOK, PortsDistinct, Progress, Registered, IdleTimeout
<1>2. CASE Fire(s)
  BY <1>2 DEF TypeOK, PortsDistinct, Progress, Registered, Fire
<1>3. CASE Unregister(s)
  <2>1. TypeOK' BY <1>3 DEF Unregister, TypeOK
  <2>2. PortsDistinct' BY <1>3 DEF Unregister, PortsDistinct
  <2>3. Progress' BY <1>3 DEF Unregister, TypeOK, Progress
  <2>4. Registered' BY <1>3 DEF Unregister, TypeOK, Progress, Registered
  <2> QED BY <2>1, <2>2, <2>3, <2>4
<1>4. CASE Cancel(s)
  <2>1. TypeOK' BY <1>4 DEF TypeOK, Cancel
  <2>2. PortsDistinct' BY <1>4 DEF PortsDistinct, Cancel
  <2>3. Progress' BY <1>4 DEF TypeOK, Progress, Cancel
  <2>4. Registered' BY <1>4 DEF TypeOK, Progress, Registered, Cancel
  <2> QED BY <2>1, <2>2, <2>3, <2>4
<1>5. CASE CloseClient(s)
  <2>1. TypeOK' BY <1>5 DEF TypeOK, CloseClient
  <2>2. PortsDistinct' BY <1>5 DEF PortsDistinct, CloseClient
  <2>3. Progress' BY <1>5 DEF TypeOK, Progress, CloseClient
  <2>4. Registered' BY <1>5 DEF TypeOK, Progress, Registered, CloseClient
  <2> QED BY <2>1, <2>2, <2>3, <2>4
<1>6. CASE CloseBackend(s)
  <2>1. TypeOK' BY <1>6 DEF TypeOK, CloseBackend
  <2>2. PortsDistinct' BY <1>6 DEF PortsDistinct, CloseBackend
  <2>3. Progress' BY <1>6 DEF TypeOK, Progress, CloseBackend
  <2>4. Registered' BY <1>6 DEF TypeOK, Progress, Registered, CloseBackend
  <2> QED BY <2>1, <2>2, <2>3, <2>4
<1> QED
  BY <1>1, <1>2, <1>3, <1>4, <1>5, <1>6 DEF TimerFunc

\* The inductive invariant holds in every reachable state.
THEOREM ForwardInvariant == Spec => []IInv
<1>1. IInv /\ UNCHANGED vars => IInv'
  BY DEF vars, IInv, TypeOK, PortsDistinct, Progress, Registered, isLocal
<1>2. IInv /\ [Next]_vars => IInv'
  BY <1>1, ForwardIInv, CopyIInv, TimerIInv DEF Next
<1> QED
  BY InitIInv, <1>2, PTL DEF Spec

\* WhoIsIPPort never names a peer that does not hold the port.
THEOREM IdentityNeverWrong == Spec => []IdentityTrue
<1>1. IInv => IdentityTrue
  BY DEF IInv, Registered, IdentityTrue
<1> QED
  BY ForwardInvariant, <1>1, PTL

\* RegisterIPPortIdentity never fails for a session that has bound its port.
THEOREM RegisterSucceeds == Spec => []RegisterNeverClashes
<1>1. IInv => RegisterNeverClashes
  BY ForwardAssumption
  DEF IInv, TypeOK, PortsDistinct, Progress, Registered, RegisterNeverClashes
<1> QED
  BY ForwardInvariant, <1>1, PTL
=============================================================================
