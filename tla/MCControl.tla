----------------------------- MODULE MCControl -----------------------------
(* Four parts, each on its own: the control client, its map session, a dial  *)
(* and the relay manager.  part says which one a behaviour is about; the     *)
(* variables of the others keep their values.                                *)
EXTENDS Naturals, Sequences, TLC

CONSTANTS e1, e2, server, addr \* peers, a relay server and an address

VARIABLES part,
  paused, closed, loggedIn, loginGoal, pc, stale, goal, lastUpdateGen, nextGen, informed, updateCh, gen,
  lpc, spc, n, out, slipped,
  sLoggedIn, inMapPoll, sClosed, alive, changeQueueClosed, epc, rpc, version, increment, answer, send,
  queue, lastStatus, view, pushed, others,
  dClosed, activeSysConns, launched, launcher, failBoost, dpc, ok, conn, closes, race, nFailed, winner,
  ctxDone, changes, late,
  m, running, token, want, events, stopped

\* What each behaviour of the control client may have of Logins, Logouts and so on.
B(login, logout, pause, change, fail) ==
  [login |-> login, logout |-> logout, pause |-> pause, change |-> change, fail |-> fail]
Budget == {B(1, 0, 0, 0, 1), B(1, 1, 0, 0, 0), B(1, 0, 1, 0, 1), B(1, 0, 0, 1, 1)}

Control == INSTANCE ControlAuto WITH Budgets <- Budget
Session == INSTANCE MapSession WITH
  Responses <- 3, Parts <- 2, Others <- 1,
  loggedIn <- sLoggedIn, closed <- sClosed, pc <- epc, part <- increment
Dial == INSTANCE Dialer WITH
  Addrs <- 3, Changes <- 1, closed <- dClosed, lpc <- launcher, rpc <- race

Keys == e1 :> "keys1" @@ e2 :> "keys2"
Relay == INSTANCE RelayManager WITH
  Endpoint <- {e1, e2}, Server <- {server}, From <- {addr}, VNIs <- {1, 2}, Lamports <- {1, 2},
  DiscoKeys <- Keys, MaxWork <- 3, MaxEvents <- 4

control == <<paused, closed, loggedIn, loginGoal, pc, stale, goal, lastUpdateGen, nextGen, informed, updateCh,
             gen, lpc, spc, n, out, slipped>>
session == <<sLoggedIn, inMapPoll, sClosed, alive, changeQueueClosed, epc, rpc, version, increment, answer,
             send, queue, lastStatus, view, pushed, others>>
dial == <<dClosed, activeSysConns, launched, launcher, failBoost, dpc, ok, conn, closes, race, nFailed, winner,
          ctxDone, changes, late>>
relay == <<m, running, token, want, events, stopped>>
vars == <<part, control, session, dial, relay>>

Init == /\ part \in {"control", "session", "dial", "relay"}
        /\ Control!Init /\ (part # "control" => ~paused /\ n = B(1, 1, 0, 0, 0))
        /\ Session!Init /\ Dial!Init /\ Relay!Init

Next == \/ part = "control" /\ Control!Next /\ UNCHANGED <<part, session, dial, relay>>
        \/ part = "session" /\ Session!Next /\ UNCHANGED <<part, control, dial, relay>>
        \/ part = "dial" /\ Dial!Next /\ UNCHANGED <<part, control, session, relay>>
        \/ part = "relay" /\ Relay!Next /\ UNCHANGED <<part, control, session, dial>>

\* The fairness of each, as its module states it; part does not change.
Progress == \/ part = "control" /\ Control!Progress /\ UNCHANGED <<part, session, dial, relay>>
            \/ part = "session" /\ Session!Goes /\ UNCHANGED <<part, control, dial, relay>>
            \/ part = "dial" /\ Dial!Goes /\ UNCHANGED <<part, control, session, relay>>
            \/ part = "relay" /\ Relay!Goes /\ UNCHANGED <<part, control, session, dial>>

Spec == Init /\ [][Next]_vars /\ WF_vars(Progress)

(* ------------------------------ properties ----------------------------- *)

\* The types of all, with what ties their fields together.
TypeOK == Control!TypeOK /\ Session!TypeOK /\ Dial!TypeOK /\ Relay!TypeOK

\* A paused control client stops its requests, and one that was logged out stays so.
ControlSafe == Control!PausedIsQuiet /\ Control!LoggedOutStays

\* The observer of a map session ends up with what the session has, whichever updates
\* were skipped, refused or late; the session's queue is closed safely.
SessionSafe == /\ Session!ViewCurrent /\ Session!AppliedToItsBase
               /\ Session!DiscoKeyOnce /\ Session!NoSendOnClosed

\* No connection of a dial is lost or closed twice.
DialSafe == Dial!ConnsAccounted /\ Dial!LosersClosed /\ Dial!OpenAfterClose

\* The relay manager's maps agree, and work that is stopped stays stopped.
RelaySafe == part = "relay" => Relay!WorkTracked /\ Relay!StopStops

\* Only a newer server endpoint replaces a handshake.
RelayNewestWins == Relay!NewestWins

\* A control client that is neither paused nor closed does what is due, and its Shutdown
\* returns, although mapRoutine holds the lock while it backs off.
ControlDue == part = "control" /\ (Control!Due \/ spc = "wait")
ControlGoesOn == ControlDue ~> ~ControlDue

\* A map session that is closed, a dial, and relay work with its goroutines all end.
Busy == \/ part = "session" /\ Session!Ending
        \/ part = "dial" /\ Dial!Racing
        \/ part = "relay" /\ Relay!Busy
WorkEnds == Busy ~> ~Busy
=============================================================================
