---------------------------- MODULE ServeTarget ----------------------------
(* The back end of a server port: serveTarget resolves a host name once,     *)
(* pins the first address that accepts a probe, and drops the pin when a     *)
(* dial fails (ipn/ipnlocal/serve.go).  Dials of concurrent connections and  *)
(* the warm-up share one serveTarget.                                        *)
EXTENDS Naturals, Sequences, SequencesExt

CONSTANTS Ips,          \* what lookup returns, in order, without duplicates
          Name,         \* the unresolved host:port
          Literal,      \* whether the host is an IP literal (Ips has one element)
          Dialer,       \* goroutines: connections that dial the target, and the warm-up
          MaxFlaps,     \* bound on changes of which addresses accept connections
          LookupErrors, \* whether lookup can fail
          FalseEmpty,   \* whether a probe of a good address can time out
          Blackhole     \* whether an address that accepts no connection may stay silent

None == "none"
Addr == ToSet(Ips)

ASSUME TargetAssumption ==
  /\ Ips # <<>> /\ IsInjective(Ips) /\ Name \notin Addr
  /\ Literal => Len(Ips) = 1
  /\ MaxFlaps \in Nat
  /\ LookupErrors \in BOOLEAN /\ FalseEmpty \in BOOLEAN /\ Blackhole \in BOOLEAN

VARIABLES
  up,      \* addresses that accept connections
  flaps,   \* changes of up so far
  cur,     \* the pinned address, or None
  mu,      \* the dialer that holds st.mu while it resolves, or None
  next,    \* index of the address it probes next
  pc,      \* Dialer -> where its dial is
  target,  \* Dialer -> the address it got first, or None
  expired, \* Dialer -> the deadline of its context has passed
  second,  \* Dialer -> the address it got after invalidate, or None
  misled,  \* a probe of an address that accepts connections has timed out
  steady   \* Dialer -> addresses that accepted connections since its dial began

vars == <<up, flaps, cur, mu, next, pc, target, second, expired, misled, steady>>

PC == {"idle", "warm", "addr1", "dial1", "invalidate", "addr2", "dial2", "ok", "failed"}

Init == /\ up \in SUBSET Addr
        /\ flaps = 0
        /\ cur = None
        /\ mu = None
        /\ next = 1
        /\ pc = [d \in Dialer |-> "idle"]
        /\ target = [d \in Dialer |-> None]
        /\ second = [d \in Dialer |-> None]
        /\ expired = [d \in Dialer |-> FALSE]
        /\ misled = FALSE
        /\ steady = [d \in Dialer |-> {}]

Begin(d) ==
  /\ pc[d] = "idle"
  /\ pc' = [pc EXCEPT ![d] = "addr1"]
  /\ steady' = [steady EXCEPT ![d] = up]
  /\ UNCHANGED <<up, flaps, cur, mu, next, target, second, expired, misled>>

\* A serve config is applied: its goroutine only calls addr.
WarmUp(d) ==
  /\ pc[d] = "idle"
  /\ pc' = [pc EXCEPT ![d] = "warm"]
  /\ UNCHANGED <<up, flaps, cur, mu, next, target, second, expired, steady, misled>>

(* -------------------------------- addr() ------------------------------- *)

\* addr returns a: the second time, dial goes on only if it is another address.
Got(d, a) ==
  \/ /\ pc[d] = "warm"
     /\ pc' = [pc EXCEPT ![d] = "idle"]
     /\ UNCHANGED <<target, second, misled>>
  \/ /\ pc[d] = "addr1"
     /\ pc' = [pc EXCEPT ![d] = "dial1"]
     /\ target' = [target EXCEPT ![d] = a]
     /\ UNCHANGED second
  \/ /\ pc[d] = "addr2"
     /\ pc' = [pc EXCEPT ![d] = IF a # target[d] THEN "dial2" ELSE "failed"]
     /\ second' = [second EXCEPT ![d] = a]
     /\ UNCHANGED target

InAddr(d) == pc[d] \in {"warm", "addr1", "addr2"}

\* The pinned address, or a literal, which is pinned without a probe.
AddrPinned(d) ==
  /\ InAddr(d)
  /\ mu = None
  /\ cur # None \/ Literal
  /\ cur' = IF cur # None THEN cur ELSE Ips[1]
  /\ Got(d, cur')
  /\ UNCHANGED <<up, flaps, mu, next, expired, steady, misled>>

\* lookup fails: the dialer gets the name itself, and nothing is pinned.
LookupFails(d) ==
  /\ LookupErrors
  /\ InAddr(d)
  /\ mu = None
  /\ cur = None /\ ~Literal
  /\ Got(d, Name)
  /\ UNCHANGED <<up, flaps, cur, mu, next, expired, steady, misled>>

\* Mutant: the name is resolved for every connection.
LookupAlways(d) ==
  /\ InAddr(d)
  /\ mu = None
  /\ ~Literal
  /\ mu' = d
  /\ next' = 1
  /\ UNCHANGED <<up, flaps, cur, pc, target, second, expired, steady, misled>>

Lookup(d) ==
  /\ InAddr(d)
  /\ mu = None
  /\ cur = None /\ ~Literal
  /\ mu' = d
  /\ next' = 1
  /\ UNCHANGED <<up, flaps, cur, pc, target, second, expired, steady, misled>>

\* A probe is accepted: the address is pinned.
ProbeAccepted(d) ==
  /\ mu = d
  /\ next <= Len(Ips)
  /\ Ips[next] \in up
  /\ cur' = Ips[next]
  /\ mu' = None
  /\ Got(d, Ips[next])
  /\ UNCHANGED <<up, flaps, next, expired, steady, misled>>

ProbeEmpty(d) ==
  /\ mu = d
  /\ next <= Len(Ips)
  /\ Ips[next] \in up => FalseEmpty
  /\ next' = next + 1
  /\ misled' = (misled \/ Ips[next] \in up)
  /\ UNCHANGED <<up, flaps, cur, mu, pc, target, second, expired, steady>>

\* No probe was accepted: the first address is held anyway.
AllEmpty(d) ==
  /\ mu = d
  /\ next > Len(Ips)
  /\ cur' = Ips[1]
  /\ mu' = None
  /\ Got(d, Ips[1])
  /\ UNCHANGED <<up, flaps, next, expired, steady, misled>>

(* -------------------------------- dial() ------------------------------- *)

\* systemDial; a name is resolved by the dialer, which tries every address.
Reachable(a) == IF a = Name THEN up # {} ELSE a \in up

Dialed(d) == IF pc[d] = "dial1" THEN target[d] ELSE second[d]

DialOK(d) ==
  /\ pc[d] \in {"dial1", "dial2"}
  /\ Reachable(Dialed(d))
  /\ ~expired[d]
  /\ pc' = [pc EXCEPT ![d] = "ok"]
  /\ UNCHANGED <<up, flaps, cur, mu, next, target, second, expired, steady, misled>>

\* The dial is refused, or waits for the deadline: one context of ten seconds
\* covers both dials of a connection.
DialError(d) ==
  /\ pc[d] \in {"dial1", "dial2"}
  /\ expired[d] \/ ~Reachable(Dialed(d))
  /\ expired' \in {[expired EXCEPT ![d] = @ \/ e] : e \in {FALSE, Blackhole}}
  /\ pc' = [pc EXCEPT ![d] = IF @ = "dial1" THEN "invalidate" ELSE "failed"]
  /\ UNCHANGED <<up, flaps, cur, mu, next, target, second, steady, misled>>

\* Mutant: dial starts over.
InvalidateStartsOver(d) ==
  /\ pc[d] = "invalidate"
  /\ mu = None
  /\ cur' = None
  /\ pc' = [pc EXCEPT ![d] = "addr1"]
  /\ UNCHANGED <<up, flaps, mu, next, target, second, expired, steady, misled>>

\* Mutant: the pin is kept.
InvalidateNothing(d) ==
  /\ pc[d] = "invalidate"
  /\ mu = None
  /\ pc' = [pc EXCEPT ![d] = "addr2"]
  /\ UNCHANGED <<up, flaps, cur, mu, next, target, second, expired, steady, misled>>

\* invalidate waits for st.mu, and drops whatever is pinned by then.
Invalidate(d) ==
  /\ pc[d] = "invalidate"
  /\ mu = None
  /\ cur' = None
  /\ pc' = [pc EXCEPT ![d] = "addr2"]
  /\ UNCHANGED <<up, flaps, mu, next, target, second, expired, steady, misled>>

\* External: an address starts or stops accepting connections.
Flap(a) ==
  /\ flaps < MaxFlaps
  /\ flaps' = flaps + 1
  /\ up' = IF a \in up THEN up \ {a} ELSE up \cup {a}
  /\ steady' = [d \in Dialer |-> steady[d] \cap up']
  /\ UNCHANGED <<cur, mu, next, pc, target, second, expired, misled>>

Step(d) == \/ AddrPinned(d)
           \/ LookupFails(d)
           \/ Lookup(d)
           \/ ProbeAccepted(d)
           \/ ProbeEmpty(d)
           \/ AllEmpty(d)
           \/ DialOK(d)
           \/ DialError(d)
           \/ Invalidate(d)

Next == \/ \E d \in Dialer : Begin(d) \/ WarmUp(d) \/ Step(d)
        \/ \E a \in Addr : Flap(a)

Spec == Init /\ [][Next]_vars

(* Goroutines run when they can, and a probe or a dial ends: both have a     *)
(* deadline.                                                                 *)
FairSpec == Spec /\ \A d \in Dialer : WF_vars(Step(d))

(* ------------------------------ properties ----------------------------- *)

TypeOK == /\ up \subseteq Addr
          /\ flaps \in 0..MaxFlaps
          /\ cur \in Addr \cup {None}
          /\ mu \in Dialer \cup {None}
          /\ mu # None => cur = None
          /\ next \in 1..(Len(Ips) + 1)
          /\ pc \in [Dialer -> PC]
          /\ target \in [Dialer -> Addr \cup {Name, None}]
          /\ second \in [Dialer -> Addr \cup {Name, None}]
          /\ expired \in [Dialer -> BOOLEAN]
          /\ misled \in BOOLEAN
          /\ steady \in [Dialer -> SUBSET up]

\* "If a connection to the pinned address later fails, the address is invalidated
\* and re-resolved so traffic can fail over to a differently-resolved address": a
\* dial fails only if no address accepted connections all the time it ran, its own
\* deadline passed on a silent address, or a probe has timed out on a good one,
\* although other dials fail, pin and drop addresses concurrently.
FailsOver == \A d \in Dialer : pc[d] = "failed" => steady[d] = {} \/ expired[d] \/ misled

\* A dial that has begun ends, although resolving holds the lock all dials need.
DialEnds == \A d \in Dialer : pc[d] = "addr1" ~> pc[d] \in {"ok", "failed"}
=============================================================================
