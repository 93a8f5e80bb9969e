----------------------------- MODULE TCPAccept -----------------------------
(* TCP connections arriving from the VPN: gVisor's forwarder (external)      *)
(* starts one acceptTCP goroutine per connection attempt, at most Max of     *)
(* them in flight, and an attempt stays in flight until its request is       *)
(* completed (r.Complete).  acceptTCP and forwardTCP decide what becomes of  *)
(* it (wgengine/netstack/netstack.go).  An attempt is classified by what the *)
(* code looks at:                                                            *)
(*   dns       port 53 of a service IP                                       *)
(*   refused   the whitelist of the port excludes the client                 *)
(*   served    a port of the serve configuration, servedPw with a password   *)
(*   unserved  any other port of a service IP or Tailscale IP                *)
(*   subnet    any other destination                                         *)
EXTENDS Naturals, FiniteSets

CONSTANTS Conn,        \* connection attempts
          Class,       \* the classes that occur
          Max          \* maxInFlightConnectionAttempts()

ASSUME AcceptAssumption ==
  /\ Max \in Nat \ {0}
  /\ Class \subseteq {"dns", "refused", "served", "servedPw", "unserved", "subnet"}
  /\ IsFiniteSet(Conn)

VARIABLES stealth,    \* StealthDrop, set before the stack starts
          class,      \* Conn -> class, "none" before its SYN arrived
          pc,         \* where its acceptTCP is
          inFlight,   \* attempts in flight
          completed   \* how often the request was completed

vars == <<stealth, class, pc, inFlight, completed>>

\* nonce: newEncryptedTCPConn; copy2, copy1: copiers of forwardTCP still running.
PC == {"none", "accept", "nonce", "handler", "dial", "copy2", "copy1", "returned"}

Init == /\ stealth \in BOOLEAN
        /\ class = [c \in Conn |-> "none"]
        /\ pc = [c \in Conn |-> "none"]
        /\ inFlight = {}
        /\ completed = [c \in Conn |-> 0]

\* A SYN below the limit; above it the SYN is ignored and sent again later.
HandlePacket(c, k) ==
  /\ pc[c] = "none"
  /\ Cardinality(inFlight) < Max
  /\ class' = [class EXCEPT ![c] = k]
  /\ inFlight' = inFlight \cup {c}
  /\ pc' = [pc EXCEPT ![c] = "accept"]
  /\ UNCHANGED <<stealth, completed>>

Goto(c, l) == pc' = [pc EXCEPT ![c] = l] /\ UNCHANGED <<stealth, class>>

\* Mutant: an attempt is released only when its connection ends.
CompleteKeepsSlot(c) == /\ UNCHANGED inFlight
                        /\ completed' = [completed EXCEPT ![c] = @ + 1]

\* r.Complete, with or without a RST.
Complete(c) == /\ inFlight' = inFlight \ {c}
               /\ completed' = [completed EXCEPT ![c] = @ + 1]

Silent(k) == k \in {"dns", "refused"} \/ (k = "unserved" /\ stealth)

\* acceptTCP returns without an answer.
DropSilently(c) ==
  /\ pc[c] = "accept"
  /\ Silent(class[c])
  /\ Goto(c, "returned")
  /\ UNCHANGED <<inFlight, completed>>

\* A port that is not served: RST.
Reject(c) ==
  /\ pc[c] = "accept"
  /\ class[c] = "unserved" /\ ~stealth
  /\ Goto(c, "returned")
  /\ Complete(c)

\* getConnOrReset creates the endpoint for a served port.
Serve(c) ==
  /\ pc[c] = "accept"
  /\ class[c] \in {"served", "servedPw"}
  /\ Goto(c, IF class[c] = "servedPw" THEN "nonce" ELSE "handler")
  /\ Complete(c)

\* Mutant: the request is not completed when the endpoint cannot be created.
ServeErrorIncomplete(c) ==
  /\ pc[c] = "accept"
  /\ class[c] \in {"served", "servedPw"}
  /\ Goto(c, "returned")
  /\ UNCHANGED <<inFlight, completed>>

\* getConnOrReset fails: RST.
ServeError(c) ==
  /\ pc[c] = "accept"
  /\ class[c] \in {"served", "servedPw"}
  /\ Goto(c, "returned")
  /\ Complete(c)

\* newEncryptedTCPConn: the nonces are exchanged, or c.Close() and return.
Nonce(c) ==
  /\ pc[c] = "nonce"
  /\ \/ Goto(c, "handler")
     \/ Goto(c, "returned")
  /\ UNCHANGED <<inFlight, completed>>

HandlerReturns(c) ==
  /\ pc[c] = "handler"
  /\ Goto(c, "returned")
  /\ UNCHANGED <<inFlight, completed>>

\* forwardTCP dials the backend before the client's handshake is completed.
StartDial(c) ==
  /\ pc[c] = "accept"
  /\ class[c] = "subnet"
  /\ Goto(c, "dial")
  /\ UNCHANGED <<inFlight, completed>>

\* The dial fails (acceptTCP sends the RST), or getClient does (it sends it).
ForwardError(c) ==
  /\ pc[c] = "dial"
  /\ Goto(c, "returned")
  /\ Complete(c)

Forward(c) ==
  /\ pc[c] = "dial"
  /\ Goto(c, "copy2")
  /\ Complete(c)

\* One direction ends; forwardTCP waits for both.
CopyEnds(c) ==
  /\ pc[c] \in {"copy2", "copy1"}
  /\ Goto(c, IF pc[c] = "copy2" THEN "copy1" ELSE "returned")
  /\ UNCHANGED <<inFlight, completed>>

acceptTCP(c) == \/ DropSilently(c)
                \/ Reject(c)
                \/ Serve(c)
                \/ ServeError(c)
                \/ Nonce(c)
                \/ HandlerReturns(c)
                \/ StartDial(c)
                \/ ForwardError(c)
                \/ Forward(c)
                \/ CopyEnds(c)

Next == \E c \in Conn : acceptTCP(c) \/ \E k \in Class : HandlePacket(c, k)

Spec == Init /\ [][Next]_vars

(* acceptTCP goroutines run, the kernel's dial ends, and clients send their  *)
(* SYN again.  Nothing says that a nonce arrives or that a connection ends.  *)
Fairness ==
  \A c \in Conn :
    /\ WF_vars(acceptTCP(c) /\ pc[c] \in {"accept", "dial"})
    /\ SF_vars(\E k \in Class : HandlePacket(c, k))

FairSpec == Spec /\ Fairness

(* ------------------------------ properties ----------------------------- *)

TypeOK == /\ stealth \in BOOLEAN
          /\ class \in [Conn -> Class \cup {"none"}]
          /\ pc \in [Conn -> PC]
          /\ inFlight \subseteq Conn
          /\ completed \in [Conn -> 0..1]

\* "Each in-flight connection attempt is a new goroutine": whatever is in flight
\* has an acceptTCP that is still deciding about it.
InFlightIsRunning ==
  \A c \in inFlight : pc[c] \in {"accept", "dial"}

\* The request of an attempt is completed once, on every path through acceptTCP
\* and forwardTCP, before bytes are exchanged and at the latest on return; the
\* silent drops are the exception and leave it in flight.
CompletedOnce ==
  \A c \in Conn :
    completed[c] = IF pc[c] \in {"none", "accept", "dial"} THEN 0
                   ELSE IF Silent(class[c]) THEN 0 ELSE 1

\* The attempts in flight are those being decided and those dropped silently.
InFlightExactly ==
  inFlight = {c \in Conn : \/ pc[c] \in {"accept", "dial"}
                           \/ pc[c] = "returned" /\ Silent(class[c])}

\* Where an attempt is, against what its class lets it reach.
Paths ==
  \A c \in Conn :
    /\ pc[c] # "none" => class[c] \in Class
    /\ pc[c] = "nonce" => class[c] = "servedPw"
    /\ pc[c] = "handler" => class[c] \in {"served", "servedPw"}
    /\ pc[c] \in {"dial", "copy2", "copy1"} => class[c] = "subnet"

\* The inductive invariant of the attempts.
IInv == TypeOK /\ Paths /\ CompletedOnce /\ InFlightExactly

\* Every attempt is decided in the end, however many wait behind the limit: the
\* limit shuts attempts out only if silent drops alone have used it up.
EveryAttemptDecided ==
  \A c \in Conn : <>(\/ pc[c] \notin {"none", "accept", "dial"}
                     \/ Cardinality({d \in Conn : pc[d] = "returned" /\ Silent(class[d])}) = Max)
=============================================================================
