----------------------------- MODULE ExecQueue -----------------------------
(* An ordered asynchronous queue of functions (util/execqueue): one          *)
(* goroutine at a time runs what Add was given, and callers may wait for it  *)
(* with RunSync, Wait and ShutdownAndWait while others shut the queue down.  *)
EXTENDS Naturals, Sequences, SequencesExt, FiniteSets

CONSTANTS Caller, \* goroutines that use the queue, each for one call
          Role    \* Caller -> the calls it may make

Op == {"Add", "RunSync", "Wait", "Shutdown", "ShutdownAndWait"}
None == "none"

\* The function a caller adds, and the one with which RunSync signals it.
F(c) == <<c, "f">>
CloseCh(c) == <<c, "close">>
Func == {F(c) : c \in Caller} \cup {CloseCh(c) : c \in Caller}

VARIABLES
  closed, ctx, inFlight, doneWaiter, queue, \* the fields of ExecQueue
  runs,      \* [f, st]: the goroutines of run, and how far f() is
  closedChs, \* done channels that are closed, named after the caller that made them
  op, pc,    \* Caller -> its call and where it is
  waitCh,    \* Caller -> the done channel it waits for
  res,       \* Caller -> what its call returned
  before,    \* Caller -> functions accepted when its call began
  accepted,  \* history: functions Add took, in order
  started    \* history: functions that were called, in order

qvars == <<closed, ctx, inFlight, doneWaiter, queue>>
cvars == <<op, pc, waitCh, res, before>>
vars == <<qvars, cvars, runs, closedChs, accepted, started>>

Init == /\ closed = FALSE /\ inFlight = FALSE
        /\ ctx = "nil"
        /\ doneWaiter = None
        /\ queue = <<>>
        /\ runs = {}
        /\ closedChs = {}
        /\ op = [c \in Caller |-> None]
        /\ pc = [c \in Caller |-> "idle"]
        /\ waitCh = [c \in Caller |-> None]
        /\ res = [c \in Caller |-> None]
        /\ before = [c \in Caller |-> {}]
        /\ accepted = <<>>
        /\ started = <<>>

(* ------------------------------ operations ----------------------------- *)

initCtxLocked == ctx' = IF ctx = "nil" THEN "live" ELSE ctx
Cancelled == IF ctx = "live" THEN "done" ELSE ctx

\* Mutant: every function gets a goroutine.
AddRuns(f) ==
  IF closed THEN UNCHANGED <<qvars, runs, accepted>>
  ELSE /\ initCtxLocked
       /\ accepted' = Append(accepted, f)
       /\ inFlight' = TRUE
       /\ runs' = runs \cup {[f |-> f, st |-> "spawned"]}
       /\ UNCHANGED <<closed, doneWaiter, queue>>

Add(f) ==
  IF closed THEN UNCHANGED <<qvars, runs, accepted>>
  ELSE /\ initCtxLocked
       /\ accepted' = Append(accepted, f)
       /\ IF inFlight
          THEN /\ queue' = Append(queue, f)
               /\ UNCHANGED <<inFlight, runs>>
          ELSE /\ inFlight' = TRUE
               /\ runs' = runs \cup {[f |-> f, st |-> "spawned"]}
               /\ UNCHANGED queue
       /\ UNCHANGED <<closed, doneWaiter>>

Return(c, r) == /\ pc' = [pc EXCEPT ![c] = "done"]
                /\ res' = [res EXCEPT ![c] = r]

Goto(c, label) == pc' = [pc EXCEPT ![c] = label] /\ UNCHANGED res

\* doneWaiter, made by the first caller that waits while a goroutine runs.
JoinDoneWaiter(c) ==
  /\ doneWaiter' = IF inFlight /\ doneWaiter = None THEN c ELSE doneWaiter
  /\ waitCh' = [waitCh EXCEPT ![c] = doneWaiter']

\* Caller c, which has made no call yet, makes the call o.
Calls(c, o) == pc[c] = "idle" /\ o \in Role[c] /\ op' = [op EXCEPT ![c] = o]

Snapshot(c) == before' = [before EXCEPT ![c] = ToSet(accepted)]

CallAdd(c) ==
  /\ Calls(c, "Add")
  /\ Add(F(c))
  /\ Return(c, "nil")
  /\ UNCHANGED <<waitCh, before, closedChs, started>>

\* RunSync takes the shutdown context, then adds f and the signal, one by one.
CallRunSync(c) ==
  /\ Calls(c, "RunSync")
  /\ initCtxLocked
  /\ Snapshot(c)
  /\ Goto(c, "add1")
  /\ UNCHANGED <<closed, inFlight, doneWaiter, queue, waitCh, runs, closedChs, accepted, started>>

RunSyncAdds(c) ==
  /\ \/ pc[c] = "add1" /\ Add(F(c)) /\ Goto(c, "add2")
     \/ pc[c] = "add2" /\ Add(CloseCh(c)) /\ Goto(c, "wait")
  /\ UNCHANGED <<op, waitCh, before, closedChs, started>>

CallWait(c) ==
  /\ Calls(c, "Wait")
  /\ initCtxLocked
  /\ Snapshot(c)
  /\ JoinDoneWaiter(c)
  /\ IF closed THEN Return(c, "shutdown")
     ELSE IF waitCh'[c] = None THEN Return(c, "nil")
     ELSE Goto(c, "wait")
  /\ UNCHANGED <<closed, inFlight, queue, runs, closedChs, accepted, started>>

\* Shutdown returns at once, ShutdownAndWait only if no goroutine runs.
CallShutdown(c) ==
  /\ \E o \in {"Shutdown", "ShutdownAndWait"} : Calls(c, o)
  /\ closed' = TRUE
  /\ ctx' = Cancelled
  /\ IF op'[c] = "Shutdown"
     THEN /\ Return(c, "nil")
          /\ UNCHANGED <<doneWaiter, waitCh>>
     ELSE /\ JoinDoneWaiter(c)
          /\ IF waitCh'[c] = None THEN Return(c, "nil") ELSE Goto(c, "wait")
  /\ UNCHANGED <<inFlight, queue, before, runs, closedChs, accepted, started>>

(* -------------------------------- select ------------------------------- *)

Called(f) == [f |-> f, st |-> "running"] \notin runs /\ f \in ToSet(started)

\* The channel a waiting call is about is closed.
Signalled(c) == IF op[c] = "RunSync" THEN Called(CloseCh(c)) ELSE waitCh[c] \in closedChs

SelectDone(c) ==
  /\ pc[c] = "wait"
  /\ \/ Signalled(c) /\ Return(c, "nil")
     \/ ctx = "done" /\ op[c] # "ShutdownAndWait" /\ Return(c, "shutdown")
  /\ UNCHANGED <<qvars, op, waitCh, before, runs, closedChs, accepted, started>>

\* The context of the caller expires.
SelectExpired(c) ==
  /\ pc[c] = "wait"
  /\ Return(c, "ctx")
  /\ UNCHANGED <<qvars, op, waitCh, before, runs, closedChs, accepted, started>>

(* ---------------------------------- run -------------------------------- *)

Begin(g) ==
  /\ g \in runs /\ g.st = "spawned"
  /\ runs' = (runs \ {g}) \cup {[g EXCEPT !.st = "running"]}
  /\ started' = Append(started, g.f)
  /\ UNCHANGED <<qvars, cvars, closedChs, accepted>>

End(g) ==
  /\ g \in runs /\ g.st = "running"
  /\ runs' = (runs \ {g}) \cup {[g EXCEPT !.st = "ended"]}
  /\ UNCHANGED <<qvars, cvars, closedChs, accepted, started>>

\* The goroutine takes q.mu and unqueues the next function, or ends.
RunLoopWith(g, more) ==
  /\ g \in runs /\ g.st = "ended"
  /\ IF more
     THEN /\ runs' = (runs \ {g}) \cup {[f |-> Head(queue), st |-> "spawned"]}
          /\ queue' = Tail(queue)
          /\ UNCHANGED <<inFlight, doneWaiter, closedChs>>
     ELSE /\ runs' = runs \ {g}
          /\ inFlight' = FALSE
          /\ queue' = <<>>
          /\ closedChs' = closedChs \cup ({doneWaiter} \ {None})
          /\ doneWaiter' = None
  /\ UNCHANGED <<closed, ctx, cvars, accepted, started>>

\* Mutant: the goroutine leaves without waking the callers that wait.
RunLoopSilent(g) ==
  /\ g \in runs /\ g.st = "ended"
  /\ runs' = runs \ {g}
  /\ inFlight' = FALSE
  /\ queue' = <<>>
  /\ UNCHANGED <<closed, ctx, doneWaiter, closedChs, cvars, accepted, started>>

RunLoop(g) == RunLoopWith(g, queue # <<>> /\ ~closed)

Call(c) == CallAdd(c) \/ CallRunSync(c) \/ CallWait(c) \/ CallShutdown(c)
Go(c) == RunSyncAdds(c) \/ SelectDone(c)
Run == \E g \in runs : Begin(g) \/ End(g) \/ RunLoop(g)

Next == \/ \E c \in Caller : Call(c) \/ Go(c) \/ SelectExpired(c)
        \/ Run

Spec == Init /\ [][Next]_vars

(* A goroutine that can go on does, and the functions return; nobody has to  *)
(* call the queue, and a caller's context need not expire.                   *)
Progress == Run \/ \E c \in Caller : Go(c)

Fairness == WF_vars(Progress)

FairSpec == Spec /\ Fairness

(* ------------------------------ properties ----------------------------- *)

\* Types, with inFlight telling whether a goroutine runs, and somebody waiting only
\* while one does.
TypeOK == /\ closed \in BOOLEAN
          /\ inFlight = (runs # {})
          /\ doneWaiter # None => inFlight
          /\ ctx \in {"nil", "live", "done"}
          /\ doneWaiter \in Caller \cup {None}
          /\ queue \in Seq(Func)
          /\ runs \subseteq [f : Func, st : {"spawned", "running", "ended"}]
          /\ closedChs \subseteq Caller
          /\ op \in [Caller -> Op \cup {None}]
          /\ pc \in [Caller -> {"idle", "add1", "add2", "wait", "done"}]
          /\ waitCh \in [Caller -> Caller \cup {None}]
          /\ res \in [Caller -> {None, "nil", "shutdown", "ctx"}]
          /\ before \in [Caller -> SUBSET Func]
          /\ accepted \in Seq(Func) /\ started \in Seq(Func)

\* "an ordered asynchronous queue": functions are called one after the other, in
\* the order Add took them, whoever adds, waits or shuts down meanwhile.
OrderedOneAtATime == IsPrefix(started, accepted) /\ Cardinality(runs) <= 1

Finished(f) == f \in ToSet(started) /\ ~\E g \in runs : g.f = f /\ g.st = "running"

\* A nil error keeps its promise: RunSync has run its function and all that were
\* queued before it, Wait has seen everything queued before it run unless the queue
\* was shut down, and after ShutdownAndWait no function runs any more.
NilMeansDone ==
  \A c \in Caller : res[c] = "nil" =>
    /\ op[c] = "RunSync" => \A f \in before[c] \cup {F(c)} : Finished(f)
    /\ op[c] = "Wait" => closed \/ \A f \in before[c] : Finished(f)
    /\ op[c] = "ShutdownAndWait" => runs = {}

\* Every call that waits returns without help from its context, with one exception:
\* RunSync on a queue that was shut down before anything created its context, which
\* nothing cancels then.
Waiting(c) == pc[c] = "wait" /\ ~(op[c] = "RunSync" /\ closed /\ ctx = "live")
CallsReturn == (\E c \in Caller : Waiting(c)) ~> (\A c \in Caller : ~Waiting(c))
=============================================================================
