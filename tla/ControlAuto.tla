---------------------------- MODULE ControlAuto ----------------------------
(* The control client (control/controlclient/auto.go): three routines log    *)
(* in, keep a map poll open and tell the server of changes, while callers    *)
(* log in and out, pause, resume and shut the client down.  MapSession       *)
(* models what the routines report.  The server is external.                 *)
EXTENDS Naturals

CONSTANT Budgets \* bounds on Logins, Logouts, pauses, changes, and on requests that fail
                 \* or end and URLs that repeat: each behaviour has one of them

Routine == {"auth", "map", "update"}
None == <<>>

VARIABLES
  paused, closed, loggedIn, \* fields of Auto
  loginGoal, \* None, or the Login it is from and whether it has a URL
  pc,        \* Routine -> where it is
  stale,     \* Routine -> the context it has read is cancelled
  goal,      \* authRoutine's goal
  lastUpdateGen, nextGen, informed, updateCh, \* updates; updateRoutine's lastUpdateGenInformed
  gen,       \* routines and a caller of updateControl -> its gen, or 0
  lpc, spc,  \* a Logout and a Shutdown
  n,         \* what is left of the budget
  out,       \* history: the last Logout succeeded and no Login came after it began
  slipped    \* history: routines that read their context after a pause they had not seen

fields == <<paused, closed, loggedIn, loginGoal>>
updates == <<lastUpdateGen, nextGen, informed, updateCh, gen>>
calls == <<lpc, spc, out>>
vars == <<fields, pc, stale, goal, updates, calls, n, slipped>>

Init == /\ paused \in BOOLEAN /\ closed = FALSE /\ loggedIn = FALSE
        /\ loginGoal = None /\ goal = None
        /\ pc = [r \in Routine |-> "top"]
        /\ stale = [r \in Routine |-> FALSE]
        /\ lastUpdateGen = 0 /\ nextGen = 0 /\ informed = 0 /\ updateCh = FALSE
        /\ gen = [u \in {"auth", "update", "user"} |-> 0]
        /\ lpc = "idle" /\ spc = "idle"
        /\ n \in Budgets
        /\ out = FALSE
        /\ slipped = {}

\* mapRoutine backs off while it holds c.mu.
muFree == pc["map"] # "backoff"

Goto(r, l) == pc' = [pc EXCEPT ![r] = l]
Count(f) == n[f] > 0 /\ n' = [n EXCEPT ![f] = @ - 1]

\* A context is replaced when it is cancelled, unless the client is closed.
cancelCtxLocked(rs) == stale' = [r \in Routine |-> stale[r] \/ r \in rs]

(* ------------------------ what the routines share ---------------------- *)

\* waitUnpause, at the top of the loop, when the wait for the context or the backoff
\* before it is over.
waitUnpause(r) ==
  /\ pc[r] = "top" \/ (pc[r] = "wait" /\ stale[r])
  /\ r = "auth" => gen[r] = 0
  /\ muFree
  /\ Goto(r, IF closed THEN "exit" ELSE IF paused THEN "unpause" ELSE "read")
  /\ UNCHANGED <<fields, stale, goal, updates, calls, n, slipped>>

\* Under the lock: the context and the fields that decide what to do.
Reads(r, label) ==
  /\ pc[r] = "read" /\ muFree
  /\ Goto(r, label)
  /\ stale' = [stale EXCEPT ![r] = closed]
  /\ slipped' = IF paused THEN slipped \cup {r} ELSE slipped \ {r}
  /\ UNCHANGED <<fields, calls, n>>

(* ------------------------------ authRoutine ---------------------------- *)

AuthReads ==
  /\ Reads("auth", IF loginGoal = None THEN "wait" ELSE "call")
  /\ goal' = loginGoal
  /\ UNCHANGED updates

\* TryLogin, or WaitLoginURL if the goal has a URL, fails.
AuthFails ==
  /\ pc["auth"] = "call"
  /\ IF stale["auth"] THEN UNCHANGED n ELSE Count("fail")
  /\ Goto("auth", "top")
  /\ UNCHANGED <<fields, stale, goal, updates, calls, slipped>>

\* A URL to visit becomes the goal, unless Login or Logout has replaced it.
AuthURL ==
  /\ pc["auth"] = "call" /\ muFree
  /\ IF goal[2] THEN Count("fail") ELSE UNCHANGED n
  /\ loginGoal' = IF loginGoal = goal THEN <<goal[1], TRUE>> ELSE loginGoal
  /\ Goto("auth", "top")
  /\ UNCHANGED <<paused, closed, loggedIn, stale, goal, updates, calls, slipped>>

CommitIf(current) ==
  /\ pc["auth"] = "call" /\ muFree
  /\ IF current
     THEN loggedIn' = TRUE /\ loginGoal' = None /\ Goto("auth", "restartMap")
     ELSE Goto("auth", "top") /\ UNCHANGED <<loggedIn, loginGoal>>
  /\ UNCHANGED <<paused, closed, stale, goal, updates, calls, n, slipped>>

\* Mutant: a login that was overtaken is committed.
AuthSucceedsAlways == CommitIf(TRUE)

\* The login is committed if its goal is still the current one.
AuthSucceeds == CommitIf(loginGoal = goal)

\* restartMap cancels the map poll, then updateControl begins.
RestartMap ==
  /\ pc["auth"] = "restartMap" /\ muFree
  /\ cancelCtxLocked({"map", "update"})
  /\ nextGen' = nextGen + 1
  /\ gen' = [gen EXCEPT !["auth"] = nextGen']
  /\ Goto("auth", "top")
  /\ UNCHANGED <<fields, goal, lastUpdateGen, informed, updateCh, calls, n, slipped>>

(* ------------------------------- mapRoutine ---------------------------- *)

MapReads == Reads("map", IF loggedIn THEN "poll" ELSE "wait") /\ UNCHANGED <<goal, updates>>

\* PollNetMap returns; after an error the routine backs off with the lock held, unless
\* the client is paused or the context is cancelled.
PollEnds ==
  /\ pc["map"] = "poll" /\ muFree
  /\ IF stale["map"] THEN UNCHANGED n ELSE Count("fail")
  /\ \E err \in BOOLEAN : Goto("map", IF err /\ ~paused /\ ~stale["map"] THEN "backoff" ELSE "top")
  /\ UNCHANGED <<fields, stale, goal, updates, calls, slipped>>

BackOffEnds ==
  /\ pc["map"] = "backoff"
  /\ Goto("map", "top")
  /\ UNCHANGED <<fields, stale, goal, updates, calls, n, slipped>>

(* ------------------------------ updateRoutine -------------------------- *)

UpdateReads ==
  /\ Reads("update", IF lastUpdateGen > 0 /\ lastUpdateGen # informed /\ loggedIn THEN "send" ELSE "wait")
  /\ gen' = [gen EXCEPT !["update"] = lastUpdateGen]
  /\ UNCHANGED <<goal, lastUpdateGen, nextGen, informed, updateCh>>

UpdateSignalled ==
  /\ pc["update"] = "wait" /\ updateCh
  /\ updateCh' = FALSE
  /\ Goto("update", "top")
  /\ UNCHANGED <<fields, stale, goal, lastUpdateGen, nextGen, informed, gen, calls, n, slipped>>

SendUpdate ==
  /\ pc["update"] = "send"
  /\ \/ informed' = gen["update"] /\ UNCHANGED n
     \/ UNCHANGED informed /\ IF stale["update"] THEN UNCHANGED n ELSE Count("fail")
  /\ Goto("update", "top")
  /\ UNCHANGED <<fields, stale, goal, lastUpdateGen, nextGen, updateCh, gen, calls, slipped>>

UpdateControl(u, signal) ==
  /\ gen[u] # 0 /\ muFree
  /\ gen' = [gen EXCEPT ![u] = 0]
  /\ IF gen[u] >= lastUpdateGen THEN lastUpdateGen' = gen[u] /\ updateCh' = signal
     ELSE UNCHANGED <<lastUpdateGen, updateCh>>
  /\ UNCHANGED <<fields, pc, stale, goal, nextGen, informed, calls, n, slipped>>

\* Mutant: updateRoutine is not signalled.
updateControlSilent(u) == UpdateControl(u, updateCh)

\* updateControl stores its gen under the lock and fills updateCh, or finds a newer one.
updateControl(u) == UpdateControl(u, TRUE)

(* -------------------------------- callers ------------------------------ *)

Login ==
  /\ muFree /\ ~closed
  /\ Count("login")
  /\ loginGoal' = <<n.login, FALSE>>
  /\ cancelCtxLocked(Routine)
  /\ out' = FALSE
  /\ lpc' = IF lpc = "logout" THEN "overtaken" ELSE lpc
  /\ UNCHANGED <<paused, closed, loggedIn, pc, goal, updates, spc, slipped>>

LogoutBegins ==
  /\ muFree /\ lpc = "idle"
  /\ Count("logout")
  /\ loginGoal' = None
  /\ lpc' = IF closed THEN "idle" ELSE "logout"
  /\ UNCHANGED <<paused, closed, loggedIn, pc, stale, goal, updates, spc, out, slipped>>

\* TryLogout fails, or the client is logged out.
LogoutEnds(ok) ==
  /\ lpc \in {"logout", "overtaken"} /\ muFree
  /\ lpc' = "idle"
  /\ IF ok THEN loggedIn' = FALSE /\ cancelCtxLocked(Routine) /\ out' = (lpc = "logout")
     ELSE UNCHANGED <<loggedIn, stale, out>>
  /\ UNCHANGED <<paused, closed, loginGoal, pc, goal, updates, spc, n, slipped>>

SetPaused(p) ==
  /\ muFree /\ ~closed /\ p # paused
  /\ Count("pause")
  /\ paused' = p
  /\ IF p THEN cancelCtxLocked(Routine) /\ UNCHANGED pc
     ELSE pc' = [r \in Routine |-> IF pc[r] = "unpause" THEN "read" ELSE pc[r]] /\ UNCHANGED stale
  /\ slipped' = {}
  /\ UNCHANGED <<closed, loggedIn, loginGoal, goal, updates, calls>>

\* SetHostinfo, SetNetInfo, UpdateEndpoints... with a change: updateControl begins.
Change ==
  /\ Count("change")
  /\ gen["user"] = 0
  /\ nextGen' = nextGen + 1
  /\ gen' = [gen EXCEPT !["user"] = nextGen']
  /\ UNCHANGED <<fields, pc, stale, goal, lastUpdateGen, informed, updateCh, calls, slipped>>

Shutdown ==
  /\ muFree /\ ~closed
  /\ closed' = TRUE
  /\ cancelCtxLocked(Routine)
  /\ pc' = [r \in Routine |-> IF pc[r] = "unpause" THEN "exit" ELSE pc[r]]
  /\ spc' = "wait"
  /\ UNCHANGED <<paused, loggedIn, loginGoal, goal, updates, lpc, out, n, slipped>>

\* The routines are done.
ShutdownReturns ==
  /\ spc = "wait" /\ \A r \in Routine : pc[r] = "exit"
  /\ spc' = "done"
  /\ UNCHANGED <<fields, pc, stale, goal, updates, lpc, out, n, slipped>>

Answer == AuthFails \/ AuthURL \/ AuthSucceeds
Call == \/ Login \/ LogoutBegins \/ Change \/ Shutdown
        \/ \E b \in BOOLEAN : LogoutEnds(b) \/ SetPaused(b)
Goes == \/ \E r \in Routine : waitUnpause(r)
        \/ AuthReads \/ RestartMap \/ MapReads \/ BackOffEnds
        \/ UpdateReads \/ UpdateSignalled \/ SendUpdate
        \/ \E u \in {"auth", "user"} : updateControl(u)
        \/ ShutdownReturns

Next == Goes \/ Call \/ Answer \/ PollEnds

Spec == Init /\ [][Next]_vars

(* Routines go on, timers fire, and a request ends once its context is       *)
(* cancelled; TryLogin ends anyway.  A map poll and the wait for a visit to  *)
(* the URL may last for ever, and nobody has to call.                        *)
Progress == \/ Goes
            \/ stale["map"] /\ PollEnds
            \/ pc["auth"] = "call" /\ (stale["auth"] \/ ~goal[2]) /\ Answer

Fairness == WF_vars(Progress)

FairSpec == Spec /\ Fairness

(* ------------------------------ properties ----------------------------- *)

\* Types, and a request is only made for what was there when it was read.
TypeOK == /\ paused \in BOOLEAN /\ closed \in BOOLEAN /\ loggedIn \in BOOLEAN
          /\ pc \in [Routine -> {"top", "unpause", "read", "wait", "call", "restartMap", "poll", "backoff",
                                 "send", "exit"}]
          /\ stale \in [Routine -> BOOLEAN]
          /\ informed <= lastUpdateGen /\ lastUpdateGen <= nextGen
          /\ lpc \in {"idle", "logout", "overtaken"} /\ spc \in {"idle", "wait", "done"}
          /\ pc["auth"] = "call" => goal # None

\* "whether we should stop making HTTP requests": in a paused client a request goes on
\* only until it notices that its context is cancelled, unless its routine had looked
\* at paused before the pause and read the new context after it.
PausedIsQuiet == \A r \in Routine :
  paused /\ pc[r] \in {"call", "poll", "send"} => stale[r] \/ r \in slipped

\* A login that was in flight when Logout moved on is not committed: after a Logout
\* that succeeded the client is logged out until the next Login.
LoggedOutStays == out => ~loggedIn

\* A client that is neither paused nor closed works on its login goal, polls the map if
\* it is logged in, and tells the server of every change.
Due == /\ ~closed /\ ~paused
       /\ \/ loginGoal # None /\ ~(pc["auth"] = "call" /\ goal = loginGoal /\ ~stale["auth"])
          \/ loggedIn /\ ~(pc["map"] = "poll" /\ ~stale["map"])
          \/ loggedIn /\ lastUpdateGen # informed
RoutinesGoOn == Due ~> ~Due

\* Shutdown returns, although mapRoutine may hold the lock while it backs off.
ShutdownEnds == spc = "wait" ~> spc = "done"
=============================================================================
