------------------------------- MODULE Dialer -------------------------------
(* A dial to a name with several addresses (net/netx/racedial.go) over       *)
(* system connections that the dialer keeps track of (net/tsdial/tsdial.go): *)
(* attempts race, the caller may give up, the link may change and the dialer *)
(* may be closed while they are in progress.                                 *)
EXTENDS Naturals, FiniteSets, FiniteSetsExt

CONSTANTS Addrs,   \* number of addresses, in the order they are tried
          Changes  \* bound on link changes

Addr == 1..Addrs
NoAddr == 0

VARIABLES
  closed, activeSysConns,  \* Dialer.closed, the connections it knows
  launched,  \* addresses the launcher has started
  lpc,       \* the launcher
  failBoost, \* the channel that wakes it
  dpc,       \* Addr -> its attempt
  ok,        \* Addr -> whether its result is a connection
  conn,      \* Addr -> "none", "open" or "closed"
  closes,    \* Addr -> calls of Close on the connection itself
  rpc, nFailed, winner, \* RaceDial
  ctxDone,   \* its context is cancelled
  changes,   \* link changes
  late       \* history: attempts that were past the check of closed when Close ran

dialer == <<closed, activeSysConns>>
race == <<rpc, nFailed, winner, ctxDone>>
vars == <<dialer, launched, lpc, failBoost, dpc, ok, conn, closes, race, changes, late>>

Init == /\ closed = FALSE /\ activeSysConns = {}
        /\ launched = 0 /\ lpc = "launch" /\ failBoost = FALSE
        /\ dpc = [a \in Addr |-> "idle"]
        /\ ok = [a \in Addr |-> FALSE]
        /\ conn = [a \in Addr |-> "none"]
        /\ closes = [a \in Addr |-> 0]
        /\ rpc = "wait" /\ nFailed = 0 /\ winner = NoAddr /\ ctxDone = FALSE
        /\ changes = 0
        /\ late = {}

CloseConns(as) == /\ conn' = [a \in Addr |-> IF a \in as THEN "closed" ELSE conn[a]]
                  /\ closes' = [a \in Addr |-> IF a \in as THEN closes[a] + 1 ELSE closes[a]]

Goto(a, l) == dpc' = [dpc EXCEPT ![a] = l]

(* ------------------------------- RaceDial ------------------------------ *)

\* The launcher starts an attempt at once, after the delay, or when another has failed.
Launch ==
  /\ lpc = "launch" /\ launched < Addrs
  /\ launched' = launched + 1
  /\ Goto(launched', "check")
  /\ failBoost' \in IF launched = 0 THEN {failBoost} ELSE {failBoost, FALSE}
  /\ UNCHANGED <<dialer, lpc, ok, conn, closes, race, changes, late>>

LaunchEnds ==
  /\ lpc = "launch" /\ launched > 0 /\ (ctxDone \/ launched = Addrs)
  /\ lpc' = "done"
  /\ UNCHANGED <<dialer, launched, failBoost, dpc, ok, conn, closes, race, changes, late>>

\* The collector takes a result.
Collect(a) ==
  /\ dpc[a] = "send" /\ rpc = "wait"
  /\ Goto(a, "done")
  /\ IF ok[a] THEN rpc' = "won" /\ winner' = a /\ UNCHANGED nFailed
     ELSE /\ nFailed' = nFailed + 1
          /\ rpc' = IF nFailed' >= Addrs THEN "failed" ELSE rpc
          /\ UNCHANGED winner
  /\ ctxDone' = (ctxDone \/ rpc' # "wait")
  /\ UNCHANGED <<dialer, launched, lpc, failBoost, ok, conn, closes, changes, late>>

\* The caller's context is done.
Cancel ==
  /\ rpc = "wait" /\ ~ctxDone
  /\ ctxDone' = TRUE
  /\ UNCHANGED <<dialer, launched, lpc, failBoost, dpc, ok, conn, closes, rpc, nFailed, winner, changes, late>>

CollectEnds ==
  /\ rpc = "wait" /\ ctxDone
  /\ rpc' = "cancelled"
  /\ UNCHANGED <<dialer, launched, lpc, failBoost, dpc, ok, conn, closes, nFailed, winner, ctxDone, changes, late>>

\* sysConn.Close: the connection is closed if the dialer still has it.
closeSysConn(a) ==
  /\ activeSysConns' = activeSysConns \ {a}
  /\ CloseConns({a} \cap activeSysConns)

\* Mutant: a result nobody takes is dropped.
LoseDropped(a) ==
  /\ dpc[a] = "send" /\ ctxDone
  /\ Goto(a, "done")
  /\ UNCHANGED <<dialer, launched, lpc, failBoost, ok, conn, closes, race, changes, late>>

\* An attempt that lost closes what it got.
Lose(a) ==
  /\ dpc[a] = "send" /\ ctxDone
  /\ Goto(a, "done")
  /\ IF ok[a] THEN closeSysConn(a) ELSE UNCHANGED <<activeSysConns, conn, closes>>
  /\ UNCHANGED <<closed, launched, lpc, failBoost, ok, race, changes, late>>

(* ------------------------------ SystemDial ----------------------------- *)

\* Closed is read under the lock, before the connection is made.
SystemDial(a) ==
  /\ dpc[a] = "check"
  /\ Goto(a, IF closed THEN "boost" ELSE "dial")
  /\ UNCHANGED <<dialer, launched, lpc, failBoost, ok, conn, closes, race, changes, late>>

DialEnds(a, success) ==
  /\ dpc[a] = "dial"
  /\ Goto(a, IF success THEN "register" ELSE "boost")
  /\ conn' = [conn EXCEPT ![a] = IF success THEN "open" ELSE @]
  /\ UNCHANGED <<dialer, launched, lpc, failBoost, ok, closes, race, changes, late>>

Register(a) ==
  /\ dpc[a] = "register"
  /\ activeSysConns' = activeSysConns \cup {a}
  /\ ok' = [ok EXCEPT ![a] = TRUE]
  /\ Goto(a, "send")
  /\ UNCHANGED <<closed, launched, lpc, failBoost, conn, closes, race, changes, late>>

Boost(a) ==
  /\ dpc[a] = "boost"
  /\ failBoost' = TRUE
  /\ Goto(a, "send")
  /\ UNCHANGED <<dialer, launched, lpc, ok, conn, closes, race, changes, late>>

\* The caller closes the connection it got.
UserClose ==
  /\ rpc = "won"
  /\ rpc' = "closed"
  /\ closeSysConn(winner)
  /\ UNCHANGED <<closed, launched, lpc, failBoost, dpc, ok, nFailed, winner, ctxDone, changes, late>>

(* ------------------- link changes and the dialer's end ------------------ *)

\* The connections the change affects are closed.
linkChanged(as) ==
  /\ changes < Changes
  /\ changes' = changes + 1
  /\ activeSysConns' = activeSysConns \ as
  /\ CloseConns(as)
  /\ UNCHANGED <<closed, launched, lpc, failBoost, dpc, ok, race, late>>

Close ==
  /\ ~closed
  /\ closed' = TRUE
  /\ activeSysConns' = {}
  /\ CloseConns(activeSysConns)
  /\ late' = {a \in Addr : dpc[a] \in {"dial", "register"}}
  /\ UNCHANGED <<launched, lpc, failBoost, dpc, ok, race, changes>>

Attempt(a) == \/ SystemDial(a) \/ Register(a) \/ Boost(a) \/ Collect(a) \/ Lose(a)
              \/ \E b \in BOOLEAN : DialEnds(a, b)
Goes == Launch \/ LaunchEnds \/ CollectEnds \/ \E a \in Addr : Attempt(a)

Next == \/ Goes \/ Cancel \/ UserClose \/ Close
        \/ \E as \in SUBSET activeSysConns : linkChanged(as)

Spec == Init /\ [][Next]_vars

\* Goroutines and timers go on, and an attempt to connect ends by its own timeout.
Fairness == WF_vars(Goes)

FairSpec == Spec /\ Fairness

(* ------------------------------ properties ----------------------------- *)

TypeOK == /\ closed \in BOOLEAN /\ activeSysConns \subseteq Addr
          /\ launched \in 0..Addrs /\ lpc \in {"launch", "done"} /\ failBoost \in BOOLEAN
          /\ dpc \in [Addr -> {"idle", "check", "dial", "register", "boost", "send", "done"}]
          /\ ok \in [Addr -> BOOLEAN]
          /\ conn \in [Addr -> {"none", "open", "closed"}]
          /\ rpc \in {"wait", "won", "failed", "cancelled", "closed"}
          /\ nFailed \in 0..Addrs /\ winner \in Addr \cup {NoAddr}
          /\ \A a \in activeSysConns : conn[a] # "none"

\* The dialer has exactly the connections that are open, from their registration on, and
\* closes each once, whoever of the caller, the race, a link change and Close does it.
ConnsAccounted == \A a \in Addr : /\ closes[a] <= 1
                                  /\ a \in activeSysConns <=> conn[a] = "open" /\ dpc[a] # "register"

\* "Losers are cancelled and their connections closed": when every attempt is over, no
\* connection is open but the one the caller has.
LosersClosed == rpc # "wait" /\ (\A a \in Addr : dpc[a] \in {"idle", "done"})
                  => \A a \in Addr : conn[a] = "open" => a = winner /\ rpc = "won"

\* After Close only a connection whose attempt had passed the check before is open.
OpenAfterClose == closed => \A a \in Addr : conn[a] = "open" => a \in late

\* The dial ends, also when attempts fail faster than the launcher starts them.
Racing == rpc = "wait"
RaceEnds == Racing ~> ~Racing
=============================================================================
