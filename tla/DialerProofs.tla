---------------------------- MODULE DialerProofs ----------------------------
(* The connections of a dial, for any number of addresses and link changes.  *)
EXTENDS Dialer, TLAPS

(* What ConnsAccounted, LosersClosed and OpenAfterClose rest on: how far an  *)
(* attempt is tells whether it has a connection, and whether somebody will   *)
(* still close it.                                                           *)
Types == /\ closed \in BOOLEAN /\ activeSysConns \subseteq Addr /\ launched \in Nat
         /\ dpc \in [Addr -> {"idle", "check", "dial", "register", "boost", "send", "done"}]
         /\ ok \in [Addr -> BOOLEAN]
         /\ conn \in [Addr -> {"none", "open", "closed"}]
         /\ closes \in [Addr -> Nat]
         /\ rpc \in {"wait", "won", "failed", "cancelled", "closed"}

\* An attempt gets its connection in DialEnds, hands it to the dialer in Register, and
\* only the winner keeps it beyond the end.
Held(a) ==
  /\ closes[a] = IF conn[a] = "closed" THEN 1 ELSE 0
  /\ a \in activeSysConns <=> conn[a] = "open" /\ dpc[a] # "register"
  /\ dpc[a] \in {"idle", "check", "dial", "boost"} => conn[a] = "none"
  /\ dpc[a] = "register" => conn[a] = "open"
  /\ conn[a] = "open" /\ dpc[a] = "send" => ok[a]
  /\ conn[a] = "open" /\ dpc[a] = "done" => rpc = "won" /\ winner = a
  /\ a > launched => dpc[a] = "idle"

\* Close has seen every attempt that may still open a connection.
Seen(a) == closed => (conn[a] = "open" \/ dpc[a] = "dial" => a \in late)

IInv == Types /\ \A a \in Addr : Held(a) /\ Seen(a)

\* Nothing is open before the first attempt.
LEMMA DialInit == Init => IInv
  <1> SUFFICES ASSUME Init PROVE IInv
    OBVIOUS
  <1>1. Types
    BY DEF Init, Types
  <1>2. ASSUME NEW a \in Addr PROVE Held(a) /\ Seen(a)
    BY DEF Init, Held, Seen
  <1> QED
    BY <1>1, <1>2 DEF IInv

\* Closing a set of connections that the dialer has, and forgetting them.
LEMMA Forgets ==
  ASSUME IInv, NEW as, as \subseteq activeSysConns,
         activeSysConns' = activeSysConns \ as, CloseConns(as),
         closed' \in BOOLEAN, rpc' \in {"wait", "won", "failed", "cancelled", "closed"},
         UNCHANGED <<launched, dpc, ok, winner>>,
         \A a \in Addr \ as : conn[a] = "open" /\ dpc[a] = "done" => rpc' = "won",
         \A a \in Addr \ as : closed' => (conn[a] = "open" \/ dpc[a] = "dial" => a \in late'),
         \A a \in as : dpc[a] # "dial"
  PROVE  IInv'
  <1>1. Types'
    <2>1. closed' \in BOOLEAN
      BY Zenon
    <2>2. activeSysConns' \subseteq Addr
      BY DEF IInv, Types
    <2>3. launched' \in Nat
      BY DEF IInv, Types
    <2>4. dpc' \in [Addr -> {"idle", "check", "dial", "register", "boost", "send", "done"}]
      BY DEF IInv, Types
    <2>5. ok' \in [Addr -> BOOLEAN]
      BY DEF IInv, Types
    <2>6. conn' \in [Addr -> {"none", "open", "closed"}]
      BY DEF IInv, Types, CloseConns
    <2>7. closes' \in [Addr -> Nat]
      <3>1. \A a \in Addr : closes[a] \in Nat /\ closes[a] + 1 \in Nat
        BY DEF IInv, Types
      <3>2. closes' = [a \in Addr |-> IF a \in as THEN closes[a] + 1 ELSE closes[a]]
        BY DEF CloseConns
      <3> QED
        BY <3>1, <3>2, Zenon
    <2> QED
      BY <2>1, <2>2, <2>3, <2>4, <2>5, <2>6, <2>7, Zenon DEF Types
  <1>2. ASSUME NEW a \in Addr PROVE Held(a)' /\ Seen(a)'
    <2>1. Held(a) /\ Seen(a) /\ conn[a] \in {"none", "open", "closed"} /\ closes[a] \in Nat
      BY DEF IInv, Types
    <2>2. /\ conn'[a] = IF a \in as THEN "closed" ELSE conn[a]
          /\ closes'[a] = IF a \in as THEN closes[a] + 1 ELSE closes[a]
      BY DEF CloseConns
    <2>3. CASE a \in as
      <3>1. /\ conn[a] = "open" /\ closes[a] = 0 /\ dpc[a] \notin {"idle", "check", "dial", "boost", "register"}
            /\ conn'[a] = "closed" /\ closes'[a] = 1 /\ a \notin activeSysConns'
            /\ ~(a > launched)
        <4>1. conn[a] = "open"
          BY <2>1, <2>3 DEF Held
        <4>2. closes[a] = 0
          BY <2>1, <4>1 DEF Held
        <4>3. dpc[a] \notin {"idle", "check", "dial", "boost", "register"}
          BY <2>1, <2>3, <4>1 DEF Held
        <4>4. conn'[a] = "closed" /\ closes'[a] = 1
          BY <2>2, <2>3, <4>2
        <4>5. ~(a > launched)
          BY <2>1, <4>3 DEF Held
        <4> QED
          BY <4>1, <4>2, <4>3, <4>4, <4>5, <2>3
      <3> QED
        BY <3>1 DEF Held, Seen
    <2>4. CASE a \notin as
      <3>1. conn'[a] = conn[a] /\ closes'[a] = closes[a] /\ (a \in activeSysConns' <=> a \in activeSysConns)
        BY <2>2, <2>4
      <3>2. Held(a)'
        BY <2>1, <2>4, <3>1, Zenon DEF Held
      <3>3. Seen(a)'
        BY <2>1, <2>4, <3>1, Zenon DEF Seen
      <3> QED
        BY <3>2, <3>3
    <2> QED
      BY <2>3, <2>4
  <1> QED
    BY <1>1, <1>2 DEF IInv

\* What a step of another attempt leaves alone.
Same(b) == /\ dpc'[b] = dpc[b] /\ conn'[b] = conn[b]
           /\ closes'[b] = closes[b] /\ ok'[b] = ok[b]
           /\ b \in activeSysConns' <=> b \in activeSysConns
           /\ b > launched' => b > launched

\* A step of one attempt that leaves the others alone; RaceDial may end with it.
LEMMA OneAttempt ==
  ASSUME IInv, Types', NEW a \in Addr, Held(a)', Seen(a)',
         \A b \in Addr \ {a} : Same(b),
         rpc = "wait" \/ UNCHANGED <<rpc, winner>>,
         UNCHANGED <<closed, late>>
  PROVE  IInv'
  <1>1. ASSUME NEW b \in Addr \ {a} PROVE Held(b)' /\ Seen(b)'
    <2>1. Held(b) /\ Seen(b)
      BY DEF IInv
    <2>2. Same(b)
      OBVIOUS
    <2>3. conn[b] = "open" /\ dpc[b] = "done" => rpc' = "won" /\ winner' = b
      <3>1. CASE rpc = "wait"
        BY <2>1, <3>1 DEF Held
      <3>2. CASE UNCHANGED <<rpc, winner>>
        BY <2>1, <3>2 DEF Held
      <3> QED
        BY <3>1, <3>2
    <2>4. Held(b)'
      BY <2>1, <2>2, <2>3, Zenon DEF Held, Same
    <2>5. Seen(b)'
      BY <2>1, <2>2, Zenon DEF Seen, Same
    <2> QED
      BY <2>4, <2>5
  <1> QED
    BY <1>1, Zenon DEF IInv

\* Every step of the race, of an attempt and of the dialer preserves the invariant.
LEMMA DialStep == IInv /\ [Next]_vars => IInv'
  <1> SUFFICES ASSUME IInv, [Next]_vars PROVE IInv'
    OBVIOUS
  <1>1. CASE Launch
    <2>0. PICK a \in Nat : a = launched + 1
      BY DEF IInv, Types
    <2>1. /\ dpc' = [dpc EXCEPT ![a] = "check"] /\ launched' = a
          /\ UNCHANGED <<closed, activeSysConns, ok, conn, closes, rpc, winner, late>>
      BY <1>1, <2>0 DEF Launch, Goto, dialer, race
    <2>2. Types'
      <3>1. dpc' \in [Addr -> {"idle", "check", "dial", "register", "boost", "send", "done"}]
        BY <2>1 DEF Types, IInv
      <3> QED
        BY <2>1, <3>1 DEF Types, IInv
    <2>3. \A b \in Addr \ {a} : Same(b)
      BY <2>0, <2>1 DEF Types, Addr, IInv, Same
    <2>4. CASE a \in Addr
      <3>1. dpc[a] = "idle" /\ Held(a) /\ Seen(a) /\ ~(a > launched')
        BY <2>0, <2>1, <2>4 DEF Held, Types, IInv
      <3>2. dpc'[a] = "check"
        BY <2>1, <2>4 DEF Types, IInv
      <3>3. Held(a)'
        BY <2>1, <3>1, <3>2 DEF Held
      <3>4. Seen(a)'
        BY <2>1, <3>1, <3>2 DEF Seen, Held
      <3> QED
        BY <2>1, <2>2, <2>3, <2>4, <3>3, <3>4, OneAttempt
    <2>5. CASE a \notin Addr
      BY <2>1, <2>2, <2>3, <2>5, Zenon DEF Held, Seen, IInv, Same
    <2> QED
      BY <2>4, <2>5
  <1>2. CASE LaunchEnds \/ Cancel
    BY <1>2 DEF LaunchEnds, Cancel, Types, IInv, Held, Seen, dialer, race
  <1>3. CASE CollectEnds
    BY <1>3 DEF CollectEnds, Types, IInv, Held, Seen, dialer
  <1>4. ASSUME NEW a \in Addr, SystemDial(a) PROVE IInv'
    <2>1. Types'
      BY <1>4 DEF SystemDial, Goto, Types, IInv, dialer, race
    <2>2. Held(a)' /\ Seen(a)'
      BY <1>4 DEF SystemDial, Goto, Types, IInv, Held, Seen, dialer, race
    <2>3. \A d \in Addr \ {a} : Same(d)
      BY <1>4 DEF SystemDial, Goto, Types, dialer, race, IInv, Same
    <2>4. (rpc = "wait" \/ UNCHANGED <<rpc, winner>>) /\ UNCHANGED <<closed, late>>
      BY <1>4 DEF SystemDial, dialer, race
    <2> QED
      BY <2>1, <2>2, <2>3, <2>4, OneAttempt
  <1>5. ASSUME NEW a \in Addr, NEW b \in BOOLEAN, DialEnds(a, b) PROVE IInv'
    <2>1. Types'
      BY <1>5 DEF DialEnds, Goto, Types, IInv, dialer, race
    <2>2. Held(a)' /\ Seen(a)'
      BY <1>5 DEF DialEnds, Goto, Types, IInv, Held, Seen, dialer, race
    <2>3. \A d \in Addr \ {a} : Same(d)
      BY <1>5 DEF DialEnds, Goto, Types, dialer, race, IInv, Same
    <2>4. (rpc = "wait" \/ UNCHANGED <<rpc, winner>>) /\ UNCHANGED <<closed, late>>
      BY <1>5 DEF DialEnds, dialer, race
    <2> QED
      BY <2>1, <2>2, <2>3, <2>4, OneAttempt
  <1>6. ASSUME NEW a \in Addr, Register(a) PROVE IInv'
    <2>1. Types'
      BY <1>6 DEF Register, Goto, Types, IInv, race
    <2>2. Held(a)' /\ Seen(a)'
      BY <1>6 DEF Register, Goto, Types, IInv, Held, Seen, race
    <2>3. \A d \in Addr \ {a} : Same(d)
      BY <1>6 DEF Register, Goto, Types, race, IInv, Same
    <2>4. (rpc = "wait" \/ UNCHANGED <<rpc, winner>>) /\ UNCHANGED <<closed, late>>
      BY <1>6 DEF Register, dialer, race
    <2> QED
      BY <2>1, <2>2, <2>3, <2>4, OneAttempt
  <1>7. ASSUME NEW a \in Addr, Boost(a) PROVE IInv'
    <2>1. Types'
      BY <1>7 DEF Boost, Goto, Types, IInv, dialer, race
    <2>2. Held(a)' /\ Seen(a)'
      BY <1>7 DEF Boost, Goto, Types, IInv, Held, Seen, dialer, race
    <2>3. \A d \in Addr \ {a} : Same(d)
      BY <1>7 DEF Boost, Goto, Types, dialer, race, IInv, Same
    <2>4. (rpc = "wait" \/ UNCHANGED <<rpc, winner>>) /\ UNCHANGED <<closed, late>>
      BY <1>7 DEF Boost, dialer, race
    <2> QED
      BY <2>1, <2>2, <2>3, <2>4, OneAttempt
  <1>8. ASSUME NEW a \in Addr, Collect(a) PROVE IInv'
    <2>1. Types'
      BY <1>8 DEF Collect, Goto, Types, IInv, dialer
    <2>2. Held(a)' /\ Seen(a)'
      BY <1>8 DEF Collect, Goto, Types, IInv, Held, Seen, dialer
    <2>3. \A d \in Addr \ {a} : Same(d)
      BY <1>8 DEF Collect, Goto, Types, dialer, IInv, Same
    <2>4. (rpc = "wait" \/ UNCHANGED <<rpc, winner>>) /\ UNCHANGED <<closed, late>>
      BY <1>8 DEF Collect, dialer, race
    <2> QED
      BY <2>1, <2>2, <2>3, <2>4, OneAttempt
  <1>9. ASSUME NEW a \in Addr, Lose(a) PROVE IInv'
    <2>1. Types'
      BY <1>9 DEF Lose, Goto, closeSysConn, CloseConns, Types, IInv, race
    <2>2. Held(a)' /\ Seen(a)'
      BY <1>9 DEF Lose, Goto, closeSysConn, CloseConns, Types, IInv, Held, Seen, race
    <2>3. \A d \in Addr \ {a} : Same(d)
      BY <1>9 DEF Lose, Goto, closeSysConn, CloseConns, Types, race, IInv, Same
    <2>4. (rpc = "wait" \/ UNCHANGED <<rpc, winner>>) /\ UNCHANGED <<closed, late>>
      BY <1>9 DEF Lose, dialer, race
    <2> QED
      BY <2>1, <2>2, <2>3, <2>4, OneAttempt
  <1>10. CASE UserClose
    <2> DEFINE as == {winner} \cap activeSysConns
    <2>1. /\ as \subseteq activeSysConns /\ activeSysConns' = activeSysConns \ as /\ CloseConns(as)
          /\ closed' = closed /\ late' = late /\ rpc' = "closed" /\ UNCHANGED <<launched, dpc, ok, winner>>
      BY <1>10 DEF UserClose, closeSysConn
    <2>2. \A a \in Addr \ as : ~(conn[a] = "open" /\ dpc[a] = "done")
      BY DEF IInv, Held
    <2>3. \A a \in as : dpc[a] # "dial"
      BY DEF IInv, Held, Types
    <2>4. \A a \in Addr : closed => (conn[a] = "open" \/ dpc[a] = "dial" => a \in late)
      BY DEF IInv, Seen
    <2> HIDE DEF as
    <2> QED
      BY <2>1, <2>2, <2>3, <2>4, Forgets DEF IInv, Types
  <1>11. ASSUME NEW as \in SUBSET activeSysConns, linkChanged(as) PROVE IInv'
    <2>1. /\ activeSysConns' = activeSysConns \ as /\ CloseConns(as)
          /\ UNCHANGED <<closed, late, rpc, launched, dpc, ok, winner>>
      BY <1>11 DEF linkChanged, race
    <2>2. \A a \in Addr : conn[a] = "open" /\ dpc[a] = "done" => rpc = "won"
      BY DEF IInv, Held
    <2>3. \A a \in as : dpc[a] # "dial"
      BY DEF IInv, Held, Types
    <2>4. \A a \in Addr : closed => (conn[a] = "open" \/ dpc[a] = "dial" => a \in late)
      BY DEF IInv, Seen
    <2> QED
      BY <2>1, <2>2, <2>3, <2>4, Forgets DEF IInv, Types
  <1>12. CASE Close
    <2>1. /\ activeSysConns' = activeSysConns \ activeSysConns /\ CloseConns(activeSysConns)
          /\ closed' = TRUE /\ late' = {a \in Addr : dpc[a] \in {"dial", "register"}}
          /\ UNCHANGED <<rpc, launched, dpc, ok, winner>>
      BY <1>12 DEF Close, race
    <2>2. \A a \in Addr : conn[a] = "open" /\ dpc[a] = "done" => rpc = "won"
      BY DEF IInv, Held
    <2>3. \A a \in activeSysConns : dpc[a] # "dial"
      BY DEF IInv, Held, Types
    <2>4. \A a \in Addr \ activeSysConns : conn[a] = "open" \/ dpc[a] = "dial" => a \in late'
      BY <2>1 DEF IInv, Held
    <2> QED
      BY <2>1, <2>2, <2>3, <2>4, Forgets DEF IInv, Types
  <1>13. CASE UNCHANGED vars
    BY <1>13 DEF vars, dialer, race, Types, IInv, Held, Seen
  <1> QED
    BY <1>1, <1>2, <1>3, <1>4, <1>5, <1>6, <1>7, <1>8, <1>9, <1>10, <1>11, <1>12, <1>13 DEF Next, Goes, Attempt

\* The invariant holds in every behaviour, for any number of addresses.
THEOREM DialInvariant == Spec => []IInv
  BY DialInit, DialStep, PTL DEF Spec

\* The dialer has exactly the open connections that were registered, and none is closed
\* twice by the caller, the race, a link change and Close.
THEOREM ConnectionsAccountedFor == Spec => []ConnsAccounted
  <1>1. IInv => ConnsAccounted
    BY DEF IInv, ConnsAccounted, Held
  <1> QED
    BY <1>1, DialInvariant, PTL

\* RaceDial leaves no connection open but the one it returned.
THEOREM RaceLeavesOne == Spec => []LosersClosed
  <1>1. IInv => LosersClosed
    BY DEF IInv, LosersClosed, Held
  <1> QED
    BY <1>1, DialInvariant, PTL

\* Dialer.Close leaves open only what an attempt that was already dialing opens later.
THEOREM CloseLeavesLate == Spec => []OpenAfterClose
  <1>1. IInv => OpenAfterClose
    BY DEF IInv, OpenAfterClose, Seen
  <1> QED
    BY <1>1, DialInvariant, PTL
=============================================================================
