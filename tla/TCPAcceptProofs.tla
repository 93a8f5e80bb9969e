-------------------------- MODULE TCPAcceptProofs --------------------------
(* The completion of requests in TCPAccept, for any connections, classes and *)
(* limit.                                                                    *)
EXTENDS TCPAccept, TLAPS

\* Before the first SYN nothing is in flight.
LEMMA AcceptInit == Init => IInv
  BY DEF Init, IInv, TypeOK, PC, Paths, CompletedOnce, InFlightExactly

\* What a step of one attempt leaves alone, and what it has to bring about for
\* that attempt, so that the invariant is kept.
LEMMA OneAttempt ==
  ASSUME IInv, NEW c \in Conn, NEW l \in PC,
         NEW k \in Class, NEW n \in 0..1,
         stealth' = stealth,
         class' = [class EXCEPT ![c] = k],
         pc' = [pc EXCEPT ![c] = l],
         completed' = [completed EXCEPT ![c] = n],
         inFlight' \subseteq Conn,
         \A d \in Conn \ {c} : d \in inFlight' <=> d \in inFlight,
         l # "none",
         l = "nonce" => k = "servedPw",
         l = "handler" => k \in {"served", "servedPw"},
         l \in {"dial", "copy2", "copy1"} => k = "subnet",
         n = 1 <=> (l \notin {"accept", "dial"} /\ ~Silent(k)),
         c \in inFlight' <=> n = 0
  PROVE  IInv'
  <1>1. TypeOK'
    BY DEF IInv, TypeOK
  <1>2. \A d \in Conn : /\ class'[d] = IF d = c THEN k ELSE class[d]
                        /\ pc'[d] = IF d = c THEN l ELSE pc[d]
                        /\ completed'[d] = IF d = c THEN n ELSE completed[d]
    BY DEF IInv, TypeOK
  <1>3. Paths'
    BY <1>2 DEF IInv, Paths
  <1>4. \A q : Silent(q)' <=> Silent(q)
    BY DEF Silent
  <1>5. CompletedOnce'
    <2> SUFFICES ASSUME NEW d \in Conn
                 PROVE  completed'[d] = IF pc'[d] \in {"none", "accept", "dial"} THEN 0
                                        ELSE IF Silent(class[d])' THEN 0 ELSE 1
      BY DEF CompletedOnce
    <2>1. CASE d = c
      BY <1>2, <1>4, <2>1 DEF Silent
    <2>2. CASE d # c
      BY <1>2, <2>2 DEF IInv, CompletedOnce, Silent
    <2> QED
      BY <2>1, <2>2
  <1>6. InFlightExactly'
    <2> SUFFICES ASSUME NEW d \in Conn
                 PROVE  d \in inFlight' <=>
                          \/ pc'[d] \in {"accept", "dial"}
                          \/ pc'[d] = "returned" /\ Silent(class[d])'
      BY DEF InFlightExactly
    <2>1. CASE d = c
      BY <1>2, <2>1 DEF Silent, PC
    <2>2. CASE d # c
      BY <1>2, <2>2 DEF IInv, InFlightExactly, Silent
    <2> QED
      BY <2>1, <2>2
  <1> QED
    BY <1>1, <1>3, <1>5, <1>6 DEF IInv

\* Every step of acceptTCP and of the forwarder preserves the invariant.
LEMMA AcceptStep == IInv /\ [Next]_vars => IInv'
  <1> SUFFICES ASSUME IInv, [Next]_vars PROVE IInv'
    OBVIOUS
  <1>1. ASSUME NEW c \in Conn, NEW k \in Class, HandlePacket(c, k)
        PROVE  IInv'
    <2>1. completed[c] = 0
      BY <1>1 DEF HandlePacket, IInv, CompletedOnce
    <2>2. completed' = [completed EXCEPT ![c] = 0]
      BY <1>1, <2>1 DEF HandlePacket, IInv, TypeOK
    <2>3. /\ "accept" \in PC
          /\ 0 \in 0..1 /\ 0 # 1
          /\ stealth' = stealth
          /\ class' = [class EXCEPT ![c] = k]
          /\ pc' = [pc EXCEPT ![c] = "accept"]
          /\ inFlight' \subseteq Conn
          /\ \A d \in Conn \ {c} : d \in inFlight' <=> d \in inFlight
          /\ c \in inFlight'
      BY <1>1 DEF HandlePacket, IInv, TypeOK, PC
    <2> QED
      BY <2>2, <2>3, OneAttempt
  <1>2. ASSUME NEW c \in Conn, acceptTCP(c)
        PROVE  IInv'
    <2> DEFINE k == class[c]
    <2>0. /\ pc[c] # "none"
          /\ k \in Class
          /\ class = [class EXCEPT ![c] = k]
          /\ completed = [completed EXCEPT ![c] = completed[c]]
      BY <1>2 DEF acceptTCP, DropSilently, Reject, Serve, ServeError, Nonce,
                  HandlerReturns, StartDial, ForwardError, Forward, CopyEnds,
                  IInv, TypeOK, Paths
    <2> DEFINE Keeps(l) == /\ Goto(c, l)
                           /\ UNCHANGED <<inFlight, completed>>
    <2>1. ASSUME NEW l \in PC, Keeps(l), l # "none",
                 l = "nonce" => k = "servedPw",
                 l = "handler" => k \in {"served", "servedPw"},
                 l \in {"dial", "copy2", "copy1"} => k = "subnet",
                 completed[c] = 1 <=> (l \notin {"accept", "dial"} /\ ~Silent(k))
          PROVE  IInv'
      <3>1. completed[c] \in 0..1
        BY DEF IInv, TypeOK
      <3>2. c \in inFlight <=> completed[c] = 0
        BY <2>0 DEF IInv, TypeOK, PC, Paths, CompletedOnce, InFlightExactly, Silent
      <3>3. inFlight \subseteq Conn
        BY DEF IInv, TypeOK
      <3> HIDE DEF k
      <3> QED
        BY <2>0, <2>1, <3>1, <3>2, <3>3, OneAttempt DEF Goto
    <2>2. ASSUME NEW l \in PC, Goto(c, l), Complete(c),
                 pc[c] \in {"accept", "dial"}, ~Silent(k),
                 l \notin {"none", "accept", "dial"},
                 l = "nonce" => k = "servedPw",
                 l = "handler" => k \in {"served", "servedPw"},
                 l \in {"copy2", "copy1"} => k = "subnet"
          PROVE  IInv'
      <3>1. completed[c] = 0
        BY <2>2 DEF IInv, CompletedOnce
      <3>2. completed' = [completed EXCEPT ![c] = 1]
        BY <2>2, <3>1 DEF Complete
      <3>3. /\ inFlight' \subseteq Conn
            /\ c \notin inFlight'
            /\ \A d \in Conn \ {c} : d \in inFlight' <=> d \in inFlight
        BY <2>2 DEF Complete, IInv, TypeOK
      <3>4. /\ 1 \in 0..1 /\ 1 # 0
            /\ stealth' = stealth
            /\ class' = [class EXCEPT ![c] = k]
            /\ pc' = [pc EXCEPT ![c] = l]
        BY <2>0, <2>2 DEF Goto
      <3> HIDE DEF k
      <3> QED
        BY <2>0, <2>2, <3>2, <3>3, <3>4, OneAttempt
    <2>3. CASE DropSilently(c)
      BY <2>1, <2>3 DEF DropSilently, IInv, CompletedOnce, PC
    <2>4. CASE Reject(c)
      BY <2>2, <2>4 DEF Reject, Silent, PC
    <2>5. CASE Serve(c)
      BY <2>2, <2>5 DEF Serve, Silent, PC
    <2>6. CASE ServeError(c)
      BY <2>2, <2>6 DEF ServeError, Silent, PC
    <2>7. CASE Nonce(c)
      BY <2>1, <2>7 DEF Nonce, IInv, Paths, CompletedOnce, Silent, PC
    <2>8. CASE HandlerReturns(c)
      BY <2>1, <2>8 DEF HandlerReturns, IInv, Paths, CompletedOnce, Silent, PC
    <2>9. CASE StartDial(c)
      BY <2>1, <2>9 DEF StartDial, IInv, CompletedOnce, Silent, PC
    <2>10. CASE ForwardError(c)
      BY <2>2, <2>10 DEF ForwardError, IInv, Paths, Silent, PC
    <2>11. CASE Forward(c)
      BY <2>2, <2>11 DEF Forward, IInv, Paths, Silent, PC
    <2>12. CASE CopyEnds(c)
      BY <2>1, <2>12 DEF CopyEnds, IInv, Paths, CompletedOnce, Silent, PC
    <2> QED
      BY <1>2, <2>3, <2>4, <2>5, <2>6, <2>7, <2>8, <2>9, <2>10, <2>11, <2>12 DEF acceptTCP
  <1>3. CASE UNCHANGED vars
    BY <1>3 DEF vars, IInv, TypeOK, Paths, CompletedOnce, InFlightExactly, Silent
  <1> QED
    BY <1>1, <1>2, <1>3 DEF Next

\* The invariant holds in every behaviour, for any number of attempts and limit.
THEOREM AcceptInvariant == Spec => []IInv
  BY AcceptInit, AcceptStep, PTL DEF Spec

\* acceptTCP and forwardTCP complete a request exactly once, on every path but the
\* silent drops.
THEOREM RequestsCompletedOnce == Spec => []CompletedOnce
  <1>1. IInv => CompletedOnce
    BY DEF IInv
  <1> QED
    BY <1>1, AcceptInvariant, PTL

\* The forwarder's slots are held by the attempts being decided and by the silent
\* drops, and by no other.
THEOREM SlotsAccountedFor == Spec => []InFlightExactly
  <1>1. IInv => InFlightExactly
    BY DEF IInv
  <1> QED
    BY <1>1, AcceptInvariant, PTL
=============================================================================
