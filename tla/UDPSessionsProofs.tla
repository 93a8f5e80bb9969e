------------------------- MODULE UDPSessionsProofs -------------------------
(* IInv is an invariant of the session table of a client UDP port, for any  *)
(* sets of sources and sessions; and the table implements UDPBindings.      *)
EXTENDS UDPSessions, TLAPS

\* The table starts empty, so the inductive invariant holds initially.
LEMMA InitIInv == Init => IInv
  BY SessAssumption DEF Init, IInv, TypeOK, EntriesLive, NoOrphan, Dialed,
     DeletesOwnSession, LoopLocals, Lifecycle, MainPC, ReaderPC

\* Every step of the loop of handleUDP preserves the inductive invariant.
LEMMA HandleUDPIInv == IInv /\ HandleUDP => IInv'
<1> SUFFICES ASSUME IInv, HandleUDP PROVE IInv'
  OBVIOUS
<1> USE SessAssumption DEF IInv, TypeOK, EntriesLive, NoOrphan, Dialed, InTable,
     DeletesOwnSession, LoopLocals, Lifecycle, MainPC, ReaderPC
<1>1. CASE \E k \in Src : ReadFromUDP(k)
  BY <1>1 DEF ReadFromUDP
<1>2. CASE ReadError
  BY <1>2 DEF ReadError
<1>3. CASE Lookup
  BY <1>3 DEF Lookup
<1>4. CASE \E s \in Sess : DialOK(s)
  BY <1>4 DEF DialOK
<1>5. CASE DialError
  BY <1>5 DEF DialError
<1>6. CASE WriteOK
  BY <1>6 DEF WriteOK
<1>7. CASE WriteError
  BY <1>7 DEF WriteError
<1>8. CASE DeleteEntry
  BY <1>8 DEF DeleteEntry
<1>9. CASE CloseRemote
  BY <1>9 DEF CloseRemote
<1> QED
  BY <1>1, <1>2, <1>3, <1>4, <1>5, <1>6, <1>7, <1>8, <1>9 DEF HandleUDP

\* Every step of a reader goroutine preserves the inductive invariant.
LEMMA ReaderIInv == ASSUME NEW s \in Sess, IInv, UdpRemoteToLocal(s) \/ Break(s)
                    PROVE  IInv'
<1> USE SessAssumption DEF IInv, TypeOK, EntriesLive, NoOrphan, Dialed, InTable,
     DeletesOwnSession, LoopLocals, Lifecycle, MainPC, ReaderPC
<1>1. CASE ReaderRead(s)
  BY <1>1 DEF ReaderRead
<1>2. CASE ReaderError(s)
  BY <1>2 DEF ReaderError
<1>3. CASE ReaderWriteOK(s)
  BY <1>3 DEF ReaderWriteOK
<1>4. CASE ReaderWriteError(s)
  BY <1>4 DEF ReaderWriteError
<1>5. CASE ReaderDelete(s)
  BY <1>5 DEF ReaderDelete, muFree
<1>6. CASE ReaderClose(s)
  BY <1>6 DEF ReaderClose
<1>7. CASE Break(s)
  BY <1>7 DEF Break
<1> QED
  BY <1>1, <1>2, <1>3, <1>4, <1>5, <1>6, <1>7 DEF UdpRemoteToLocal

\* A step that leaves the state unchanged preserves the inductive invariant.
LEMMA StutterIInv == IInv /\ UNCHANGED vars => IInv'
  BY DEF vars, IInv, TypeOK, EntriesLive, NoOrphan, Dialed, InTable,
     DeletesOwnSession, LoopLocals, Lifecycle

\* For all sources and sessions: the table of handleUDP holds only live sessions
\* of accepted sources, no dialed connection is orphaned, and the unconditional
\* delete after a write error only ever removes the loop's own session.
THEOREM SessionsSafe == Spec => []IInv
<1>1. IInv /\ [Next]_vars => IInv'
  BY HandleUDPIInv, ReaderIInv, StutterIInv DEF Next
<1> QED
  BY InitIInv, <1>1, PTL DEF Spec

\* The entries of the session table are live sessions of their own source.
THEOREM EntriesAlwaysLive == Spec => []EntriesLive
<1>1. IInv => EntriesLive
  BY DEF IInv
<1> QED
  BY SessionsSafe, <1>1, PTL

\* Deleting an entry never leaks the connection of its session.
THEOREM NeverOrphaned == Spec => []NoOrphan
<1>1. IInv => NoOrphan
  BY DEF IInv
<1> QED
  BY SessionsSafe, <1>1, PTL

\* Every step of handleUDP and of its readers is a step of the binding service,
\* or changes nothing it can see.
LEMMA StepRefines == IInv /\ [Next]_vars => [Bindings!BNext]_(Bindings!bvars)
<1> SUFFICES ASSUME IInv, [Next]_vars
             PROVE  [Bindings!BNext]_(Bindings!bvars)
  OBVIOUS
<1> USE SessAssumption DEF IInv, TypeOK, Lifecycle, Bindings!bvars
<1>1. CASE \E s \in Sess : DialOK(s)
  <2>1. PICK s \in Sess : DialOK(s)
    BY <1>1
  <2>2. Bindings!Bind(src, s)
    BY <2>1 DEF DialOK, Bindings!Bind, LoopLocals, Dialed
  <2> QED
    BY <2>1, <2>2 DEF DialOK, LoopLocals, Bindings!BNext
<1>2. CASE DeleteEntry
  <2>1. CASE sessions[src] = NoSess
    BY <1>2, <2>1 DEF DeleteEntry
  <2>2. CASE sessions[src] # NoSess
    <3>1. Bindings!Unbind(src)
      BY <1>2, <2>2 DEF DeleteEntry, Bindings!Unbind
    <3> QED
      BY <1>2, <3>1 DEF DeleteEntry, LoopLocals, Bindings!BNext
  <2> QED
    BY <2>1, <2>2
<1>3. CASE CloseRemote
  <2>1. CASE remote[sess] = "closed"
    BY <1>3, <2>1 DEF CloseRemote
  <2>2. CASE remote[sess] # "closed"
    <3>1. PICK s \in Sess : s = sess
      BY <1>3 DEF CloseRemote, LoopLocals
    <3>2. Bindings!Release(s)
      BY <1>3, <2>2, <3>1 DEF CloseRemote, Bindings!Release, LoopLocals, EntriesLive
    <3> QED
      BY <3>2 DEF Bindings!BNext
  <2> QED
    BY <2>1, <2>2
<1>4. CASE \E s \in Sess : ReaderDelete(s)
  <2>1. PICK s \in Sess : ReaderDelete(s)
    BY <1>4
  <2>2. CASE sessions[owner[s]] = s
    <3>1. owner[s] \in Src /\ Bindings!Unbind(owner[s])
      BY <2>1, <2>2 DEF ReaderDelete, Bindings!Unbind
    <3> QED
      BY <3>1 DEF Bindings!BNext
  <2>3. CASE sessions[owner[s]] # s
    BY <2>1, <2>3 DEF ReaderDelete
  <2> QED
    BY <2>2, <2>3
<1>5. CASE \E s \in Sess : ReaderClose(s)
  <2>1. PICK s \in Sess : ReaderClose(s)
    BY <1>5
  <2>2. CASE remote[s] = "closed"
    BY <2>1, <2>2 DEF ReaderClose
  <2>3. CASE remote[s] # "closed"
    <3>1. Bindings!Release(s)
      BY <2>1, <2>3 DEF ReaderClose, Bindings!Release, EntriesLive
    <3> QED
      BY <3>1 DEF Bindings!BNext
  <2> QED
    BY <2>2, <2>3
<1>6. CASE \E s \in Sess : Break(s)
  BY <1>6 DEF Break
<1>7. CASE UNCHANGED <<sessions, remote>>
  BY <1>7
<1> QED
  BY <1>1, <1>2, <1>3, <1>4, <1>5, <1>6, <1>7
  DEF Next, HandleUDP, UdpRemoteToLocal, ReadFromUDP, ReadError, Lookup, DialError,
      WriteOK, WriteError, ReaderRead, ReaderError, ReaderWriteOK, ReaderWriteError, vars

\* The session table of handleUDP implements the binding service: one connection
\* per source, bound to the source it was dialed for, closed only when unbound.
THEOREM SessionsImplementBindings == Spec => ImplementsBindings
<1>1. Init => Bindings!BInit
  BY DEF Init, Bindings!BInit
<1> QED
  BY <1>1, SessionsSafe, StepRefines, PTL DEF Spec, ImplementsBindings, Bindings!BSpec
=============================================================================
