--------------------------- MODULE ExecQueueProofs ---------------------------
(* The order of execqueue and what a nil error of its calls means, for any   *)
(* callers and whatever calls they make.                                     *)
EXTENDS ExecQueue, FiniteSetTheorems, TLAPS

(* ---------------------------- what is queued --------------------------- *)

\* A goroutine that has not called its function yet.
Spawned == \E g \in runs : g.st = "spawned"

\* Functions that were taken off the queue.
Taken == Len(started) + (IF Spawned THEN 1 ELSE 0)

QTypes == /\ closed \in BOOLEAN
          /\ inFlight \in BOOLEAN /\ (inFlight <=> runs # {})
          /\ accepted \in Seq(Func) /\ started \in Seq(Func) /\ queue \in Seq(Func)
          /\ runs \subseteq [f : Func, st : {"spawned", "running", "ended"}]
          /\ \A g, h \in runs : g = h

\* Add's functions are, in this order: those that were called, the one that is about to
\* be, those in the queue and, once the queue is closed, those that were dropped.
Order == /\ Taken + Len(queue) <= Len(accepted)
         /\ ~closed => Taken + Len(queue) = Len(accepted)
         /\ runs = {} => queue = <<>>
         /\ \A i \in 1..Len(started) : accepted[i] = started[i]
         /\ \A i \in 1..Len(queue) : accepted[Taken + i] = queue[i]
         /\ \A g \in runs : IF g.st = "spawned" THEN accepted[Len(started) + 1] = g.f
                            ELSE Len(started) > 0 /\ started[Len(started)] = g.f

QInv == QTypes /\ Order

\* The queue starts empty.
LEMMA QueueInit == Init => QInv
  <1> SUFFICES ASSUME Init PROVE QInv
    OBVIOUS
  <1>1. QTypes
    <2>1. <<>> \in Seq(Func)
      OBVIOUS
    <2> QED
      BY <2>1, Zenon DEF Init, QTypes
  <1>2. ~Spawned /\ Taken = 0
    BY DEF Init, Taken, Spawned
  <1>3. Order
    BY <1>2 DEF Init, Order
  <1> QED
    BY <1>1, <1>3 DEF QInv

\* Add changes nothing on a closed queue; else the function is the last one accepted, and
\* it is queued behind the goroutine that runs, or gets one.
Added(f) == /\ ~closed /\ accepted' = Append(accepted, f)
            /\ IF runs = {}
               THEN queue' = queue /\ runs' = {[f |-> f, st |-> "spawned"]}
               ELSE queue' = Append(queue, f) /\ runs' = runs

LEMMA AddCases ==
  ASSUME QTypes, NEW f \in Func, Add(f)
  PROVE  /\ closed' = closed /\ doneWaiter' = doneWaiter
         /\ Added(f) \/ (closed /\ UNCHANGED <<accepted, queue, runs, inFlight>>)
         /\ inFlight' \in BOOLEAN /\ (inFlight' <=> runs' # {})
  <1>1. CASE closed
    BY <1>1 DEF Add, qvars, QTypes
  <1>2. CASE ~closed /\ inFlight
    BY <1>2 DEF Add, qvars, QTypes, Added
  <1>3. CASE ~closed /\ ~inFlight
    <2>1. runs = {}
      BY <1>3 DEF QTypes
    <2> QED
      BY <1>3, <2>1 DEF Add, qvars, Added
  <1> QED
    BY <1>1, <1>2, <1>3 DEF QTypes

\* A function that is added comes last.
LEMMA AddKeeps ==
  ASSUME QInv, NEW f \in Func, Add(f), started' = started
  PROVE  QInv'
  <1>1. CASE closed /\ UNCHANGED <<accepted, queue, runs, inFlight>>
    BY <1>1, AddCases DEF QInv, QTypes, Order, Taken, Spawned
  <1>2. CASE Added(f)
    <2>1. QTypes'
      <3>1. accepted' \in Seq(Func) /\ queue' \in Seq(Func)
        <4>1. accepted \in Seq(Func) /\ queue \in Seq(Func)
          BY DEF QInv, QTypes
        <4>2. Append(accepted, f) \in Seq(Func) /\ Append(queue, f) \in Seq(Func)
          BY <4>1
        <4> QED
          BY <1>2, <4>1, <4>2, Zenon DEF Added
      <3>2. runs' \subseteq [f : Func, st : {"spawned", "running", "ended"}] /\ \A g, h \in runs' : g = h
        BY <1>2 DEF Added, QInv, QTypes
      <3> QED
        BY <3>1, <3>2, AddCases DEF QInv, QTypes
    <2>2. /\ Len(accepted') = Len(accepted) + 1 /\ accepted'[Len(accepted) + 1] = f
          /\ \A i \in 1..Len(accepted) : accepted'[i] = accepted[i]
          /\ closed' = closed /\ ~closed
      BY <1>2, AddCases DEF Added, QInv, QTypes
    <2>3. CASE runs = {}
      <3>1. queue = <<>> /\ ~Spawned /\ Taken = Len(started) /\ Len(started) = Len(accepted)
        BY <1>2, <2>3 DEF Added, QInv, QTypes, Order, Taken, Spawned
      <3>2. queue' = <<>> /\ runs' = {[f |-> f, st |-> "spawned"]} /\ Spawned' /\ Taken' = Len(started) + 1
        <4>1. queue' = <<>> /\ runs' = {[f |-> f, st |-> "spawned"]}
          BY <1>2, <2>3, <3>1 DEF Added
        <4>2. Spawned'
          BY <4>1 DEF Spawned
        <4> QED
          BY <4>1, <4>2 DEF Taken
      <3>3. \A i \in 1..Len(started') : accepted'[i] = started'[i]
        BY <2>2, <3>1 DEF QInv, QTypes, Order
      <3> QED
        BY <2>1, <2>2, <3>1, <3>2, <3>3 DEF QInv, QTypes, Order
    <2>4. CASE runs # {}
      <3>1. runs' = runs /\ queue' = Append(queue, f) /\ (Spawned' <=> Spawned) /\ Taken' = Taken
        BY <1>2, <2>4 DEF Added, Taken, Spawned
      <3>2. Taken \in Nat /\ Len(started) <= Taken /\ Taken + Len(queue) = Len(accepted)
        BY <2>2 DEF QInv, QTypes, Order, Taken
      <3>3. /\ Len(queue') = Len(queue) + 1 /\ queue'[Len(queue) + 1] = f
            /\ \A i \in 1..Len(queue) : queue'[i] = queue[i]
        BY <3>1 DEF QInv, QTypes
      <3>4. \A i \in 1..Len(queue') : accepted'[Taken' + i] = queue'[i]
        <4> SUFFICES ASSUME NEW i \in 1..Len(queue') PROVE accepted'[Taken + i] = queue'[i]
          BY <3>1
        <4>1. Len(queue) \in Nat /\ Len(accepted) \in Nat
          BY DEF QInv, QTypes
        <4>2. CASE i = Len(queue) + 1
          BY <2>2, <3>2, <3>3, <4>1, <4>2
        <4>3. CASE i # Len(queue) + 1
          <5>1. i \in 1..Len(queue) /\ Taken + i \in 1..Len(accepted)
            BY <3>2, <3>3, <4>1, <4>3
          <5>2. accepted[Taken + i] = queue[i]
            BY <5>1 DEF QInv, Order
          <5> QED
            BY <2>2, <3>3, <5>1, <5>2
        <4> QED
          BY <4>2, <4>3
      <3>5. \A i \in 1..Len(started') : accepted'[i] = started'[i]
        BY <2>2, <3>2 DEF QInv, QTypes, Order
      <3>6. \A g \in runs' : IF g.st = "spawned" THEN accepted'[Len(started') + 1] = g.f
                              ELSE Len(started') > 0 /\ started'[Len(started')] = g.f
        <4> SUFFICES ASSUME NEW g \in runs
                     PROVE  IF g.st = "spawned" THEN accepted'[Len(started) + 1] = g.f
                            ELSE Len(started) > 0 /\ started[Len(started)] = g.f
          BY <3>1
        <4>1. CASE g.st = "spawned"
          <5>1. Taken = Len(started) + 1 /\ Len(queue) \in Nat /\ Len(started) \in Nat /\ Len(accepted) \in Nat
            BY <4>1 DEF Taken, Spawned, QInv, QTypes
          <5>2. Len(started) + 1 \in 1..Len(accepted)
            BY <3>2, <5>1
          <5> QED
            BY <2>2, <4>1, <5>2 DEF QInv, Order
        <4>2. CASE g.st # "spawned"
          BY <4>2 DEF QInv, Order
        <4> QED
          BY <4>1, <4>2
      <3>7. Taken' + Len(queue') = Len(accepted')
        BY <2>2, <3>1, <3>2, <3>3 DEF QInv, QTypes
      <3> QED
        BY <2>1, <2>2, <2>4, <3>1, <3>4, <3>5, <3>6, <3>7 DEF QInv, QTypes, Order
    <2> QED
      BY <2>3, <2>4
  <1> QED
    BY <1>1, <1>2, AddCases DEF QInv

\* A function is called when all before it were.
LEMMA BeginKeeps ==
  ASSUME QInv, NEW g \in runs, Begin(g)
  PROVE  QInv'
  <1>1. /\ g.st = "spawned" /\ runs = {g} /\ g \in [f : Func, st : {"spawned", "running", "ended"}]
        /\ Spawned /\ Taken = Len(started) + 1
    BY DEF Begin, QInv, QTypes, Taken, Spawned
  <1>2. /\ runs' = {[g EXCEPT !.st = "running"]} /\ started' = Append(started, g.f)
        /\ UNCHANGED <<closed, inFlight, queue, accepted>>
    BY <1>1 DEF Begin, qvars
  <1>3. QTypes'
    BY <1>1, <1>2 DEF QInv, QTypes
  <1>4. /\ Len(started') = Len(started) + 1 /\ started'[Len(started')] = g.f
        /\ \A i \in 1..Len(started) : started'[i] = started[i]
    BY <1>1, <1>2 DEF QInv, QTypes
  <1>5. ~Spawned' /\ Taken' = Taken
    BY <1>1, <1>2, <1>4 DEF Taken, Spawned
  <1>6. accepted[Len(started) + 1] = g.f
    BY <1>1 DEF QInv, Order
  <1>7. \A i \in 1..Len(started') : accepted'[i] = started'[i]
    BY <1>2, <1>4, <1>6 DEF QInv, QTypes, Order
  <1>8. \A h \in runs' : h.st = "running" /\ h.f = g.f
    BY <1>1, <1>2
  <1>9. Len(started') > 0
    BY <1>4 DEF QInv, QTypes
  <1> QED
    BY <1>1, <1>2, <1>3, <1>4, <1>5, <1>7, <1>8, <1>9 DEF QInv, Order

\* A function returns.
LEMMA EndKeeps ==
  ASSUME QInv, NEW g \in runs, End(g)
  PROVE  QInv'
  <1>1. /\ g.st = "running" /\ runs = {g} /\ g \in [f : Func, st : {"spawned", "running", "ended"}]
        /\ ~Spawned /\ Taken = Len(started)
    BY DEF End, QInv, QTypes, Taken, Spawned
  <1>2. /\ runs' = {[g EXCEPT !.st = "ended"]}
        /\ UNCHANGED <<closed, inFlight, queue, accepted, started>>
    BY <1>1 DEF End, qvars
  <1>3. QTypes'
    BY <1>1, <1>2 DEF QInv, QTypes
  <1>4. ~Spawned' /\ Taken' = Taken
    BY <1>1, <1>2 DEF Taken, Spawned
  <1> QED
    BY <1>1, <1>2, <1>3, <1>4 DEF QInv, Order

\* The goroutine takes the next function, or drops what is left and ends.
LEMMA RunLoopKeeps ==
  ASSUME QInv, NEW g \in runs, RunLoop(g)
  PROVE  QInv'
  <1>1. /\ g.st = "ended" /\ runs = {g} /\ ~Spawned /\ Taken = Len(started)
        /\ UNCHANGED <<closed, accepted, started>>
    BY DEF RunLoop, RunLoopWith, QInv, QTypes, Taken, Spawned
  <1>2. CASE queue # <<>> /\ ~closed
    <2>1. /\ runs' = {[f |-> Head(queue), st |-> "spawned"]} /\ queue' = Tail(queue) /\ inFlight' = inFlight
      BY <1>1, <1>2 DEF RunLoop, RunLoopWith
    <2>2. /\ Head(queue) = queue[1] /\ queue[1] \in Func /\ Len(queue) > 0 /\ Len(queue') = Len(queue) - 1
          /\ \A i \in 1..Len(queue') : queue'[i] = queue[i + 1]
      BY <1>2, <2>1 DEF QInv, QTypes
    <2>3. QTypes'
      BY <1>1, <1>2, <2>1, <2>2 DEF QInv, QTypes
    <2>4. Spawned' /\ Taken' = Taken + 1
      BY <1>1, <2>1 DEF Taken, Spawned
    <2>5. accepted[Len(started) + 1] = queue[1]
      BY <1>1, <2>2 DEF QInv, QTypes, Order
    <2>6. \A i \in 1..Len(queue') : accepted'[Taken' + i] = queue'[i]
      <3> SUFFICES ASSUME NEW i \in 1..Len(queue') PROVE accepted[Taken + 1 + i] = queue[i + 1]
        BY <1>1, <2>2, <2>4
      <3>1. Len(queue) \in Nat /\ Taken \in Nat
        BY <1>1 DEF QInv, QTypes
      <3>2. i + 1 \in 1..Len(queue) /\ Taken + 1 + i = Taken + (i + 1)
        BY <2>2, <3>1
      <3> QED
        BY <3>2 DEF QInv, Order
    <2>7. \A h \in runs' : h.st = "spawned" /\ h.f = queue[1]
      BY <2>1, <2>2
    <2>8. Taken' + Len(queue') = Taken + Len(queue) /\ runs' # {} /\ Len(started') = Len(started)
      <3>1. Len(queue) \in Nat /\ Taken \in Nat /\ Len(started') = Len(started) /\ runs' # {}
        BY <1>1, <2>1 DEF QInv, QTypes
      <3> QED
        BY <2>2, <2>4, <3>1
    <2>9. \A i \in 1..Len(started') : accepted'[i] = started'[i]
      BY <1>1 DEF QInv, Order
    <2>10. /\ Taken' + Len(queue') <= Len(accepted')
           /\ ~closed' => Taken' + Len(queue') = Len(accepted')
      BY <1>1, <2>8 DEF QInv, Order
    <2> QED
      BY <1>1, <2>3, <2>5, <2>6, <2>7, <2>8, <2>9, <2>10 DEF QInv, Order
  <1>3. CASE queue = <<>> \/ closed
    <2>1. runs' = {} /\ queue' = <<>> /\ inFlight' = FALSE
      BY <1>1, <1>3 DEF RunLoop, RunLoopWith
    <2>2. QTypes'
      <3>1. <<>> \in Seq(Func)
        OBVIOUS
      <3> QED
        BY <1>1, <2>1, <3>1, Zenon DEF QInv, QTypes
    <2>3. ~Spawned' /\ Taken' = Taken
      BY <1>1, <2>1 DEF Taken, Spawned
    <2> QED
      BY <1>1, <1>3, <2>1, <2>2, <2>3 DEF QInv, QTypes, Order
  <1> QED
    BY <1>2, <1>3

\* Closing the queue, and what only waits, leaves the functions alone.
LEMMA QuietKeeps ==
  ASSUME QInv, UNCHANGED <<inFlight, runs, accepted, started, queue>>, closed' \in BOOLEAN, closed => closed'
  PROVE  QInv'
  <1>1. QTypes'
    BY Zenon DEF QInv, QTypes
  <1>2. Taken' = Taken
    BY DEF Taken, Spawned
  <1> QED
    BY <1>1, <1>2 DEF QInv, Order

(* --------------------------- what has finished ------------------------- *)

\* No function is accepted twice.
Unique == \A i, j \in 1..Len(accepted) : accepted[i] = accepted[j] => i = j

\* The members of a sequence, by their places.
LEMMA Members ==
  ASSUME NEW S, NEW s \in Seq(S), NEW x
  PROVE  x \in ToSet(s) <=> \E i \in 1..Len(s) : s[i] = x
  BY DEF ToSet

LEMMA MembersAppend ==
  ASSUME NEW S, NEW s \in Seq(S), NEW x \in S
  PROVE  ToSet(Append(s, x)) = ToSet(s) \cup {x}
  <1>1. /\ Append(s, x) \in Seq(S) /\ Len(Append(s, x)) = Len(s) + 1 /\ Len(s) \in Nat
        /\ Append(s, x)[Len(s) + 1] = x
        /\ \A i \in 1..Len(s) : Append(s, x)[i] = s[i]
    OBVIOUS
  <1>2. ASSUME NEW y PROVE y \in ToSet(Append(s, x)) <=> y \in ToSet(s) \/ y = x
    <2>1. y \in ToSet(Append(s, x)) <=> \E i \in 1..(Len(s) + 1) : Append(s, x)[i] = y
      BY <1>1 DEF ToSet
    <2>2. y \in ToSet(s) <=> \E i \in 1..Len(s) : s[i] = y
      BY Members
    <2> QED
      BY <1>1, <2>1, <2>2
  <1> QED
    BY <1>2

\* With nothing queued and no shutdown, all functions have been called.
LEMMA AllStarted ==
  ASSUME QInv, ~Spawned, queue = <<>>, ~closed, NEW f \in ToSet(accepted)
  PROVE  f \in ToSet(started)
  <1>1. accepted \in Seq(Func) /\ started \in Seq(Func) /\ Len(started) \in Nat
    BY DEF QInv, QTypes
  <1>2. Len(started) = Len(accepted) /\ \A i \in 1..Len(started) : accepted[i] = started[i]
    BY <1>1 DEF QInv, Order, Taken
  <1>3. PICK i \in 1..Len(accepted) : accepted[i] = f
    BY <1>1, Members
  <1> QED
    BY <1>1, <1>2, <1>3, Members

\* Once a function has been called and does not run any more, neither do those that were
\* accepted before it.
LEMMA EarlierFinished ==
  ASSUME QInv, Unique, NEW j \in 1..Len(started), NEW i \in 1..(j - 1), Called(accepted[j])
  PROVE  Finished(accepted[i])
  <1>1. /\ started \in Seq(Func) /\ accepted \in Seq(Func) /\ Len(started) \in Nat /\ Len(accepted) \in Nat
        /\ Len(started) <= Len(accepted)
        /\ \A k \in 1..Len(started) : accepted[k] = started[k]
    BY DEF QInv, QTypes, Order, Taken
  <1>2. i \in 1..Len(started) /\ i # Len(started) /\ i \in 1..Len(accepted)
    BY <1>1
  <1>3. accepted[i] \in ToSet(started)
    BY <1>1, <1>2, Members
  <1>4. ASSUME NEW g \in runs, g.f = accepted[i], g.st = "running" PROVE FALSE
    <2>1. Len(started) > 0 /\ started[Len(started)] = g.f
      BY <1>4 DEF QInv, Order
    <2>2. Len(started) \in 1..Len(accepted) /\ accepted[Len(started)] = accepted[i]
      BY <1>1, <1>4, <2>1
    <2> QED
      BY <1>2, <2>2 DEF Unique
  <1> QED
    BY <1>3, <1>4 DEF Finished

\* What has finished stays so: functions are not called again.
LEMMA FinishedStays ==
  ASSUME QInv, Unique, NEW f, Finished(f),
         \/ UNCHANGED <<started, runs>>
         \/ \E h \in Func : Add(h) /\ started' = started
         \/ \E g \in runs : Begin(g) \/ End(g) \/ RunLoop(g)
  PROVE  Finished(f)'
  <1>0. f \in ToSet(started) /\ \A g \in runs : ~(g.f = f /\ g.st = "running")
    BY DEF Finished
  <1>1. CASE UNCHANGED <<started, runs>>
    BY <1>0, <1>1 DEF Finished
  <1>2. ASSUME NEW h \in Func, Add(h), started' = started PROVE Finished(f)'
    <2>1. runs' = runs \/ runs' = {[f |-> h, st |-> "spawned"]}
      BY <1>2, AddCases DEF Added, QInv
    <2> QED
      BY <1>0, <1>2, <2>1 DEF Finished
  <1>3. ASSUME NEW g \in runs, Begin(g) PROVE Finished(f)'
    <2>1. /\ started \in Seq(Func) /\ accepted \in Seq(Func) /\ Len(started) \in Nat
          /\ g.st = "spawned" /\ runs = {g} /\ g.f \in Func /\ g \in [f : Func, st : {"spawned", "running", "ended"}]
          /\ Len(started) + 1 \in 1..Len(accepted) /\ accepted[Len(started) + 1] = g.f
      <3>1. g.st = "spawned" /\ runs = {g} /\ Spawned /\ Taken = Len(started) + 1
        BY <1>3 DEF Begin, QInv, QTypes, Taken, Spawned
      <3> QED
        BY <3>1 DEF QInv, QTypes, Order
    <2>2. PICK i \in 1..Len(started) : started[i] = f
      BY <1>0, <2>1, Members
    <2>3. f # g.f
      BY <2>1, <2>2 DEF QInv, Order, Unique
    <2>4. runs' = {[g EXCEPT !.st = "running"]} /\ started' = Append(started, g.f)
      BY <1>3, <2>1 DEF Begin
    <2>5. f \in ToSet(started')
      BY <1>0, <2>1, <2>4, MembersAppend
    <2> QED
      BY <2>1, <2>3, <2>4, <2>5 DEF Finished
  <1>4. ASSUME NEW g \in runs, End(g) PROVE Finished(f)'
    <2>1. runs = {g} /\ runs' = {[g EXCEPT !.st = "ended"]} /\ started' = started
          /\ g \in [f : Func, st : {"spawned", "running", "ended"}]
      BY <1>4 DEF End, QInv, QTypes
    <2> QED
      BY <1>0, <2>1 DEF Finished
  <1>5. ASSUME NEW g \in runs, RunLoop(g) PROVE Finished(f)'
    <2>1. started' = started /\ (runs' = {[f |-> Head(queue), st |-> "spawned"]} \/ runs' = {})
      BY <1>5 DEF RunLoop, RunLoopWith, QInv, QTypes
    <2> QED
      BY <1>0, <2>1 DEF Finished
  <1> QED
    BY <1>1, <1>2, <1>3, <1>4, <1>5

(* -------------------------------- callers ------------------------------ *)

CTypes == /\ op \in [Caller -> Op \cup {None}]
          /\ pc \in [Caller -> {"idle", "add1", "add2", "wait", "done"}]
          /\ waitCh \in [Caller -> Caller \cup {None}]
          /\ res \in [Caller -> {None, "nil", "shutdown", "ctx"}]
          /\ before \in [Caller -> SUBSET Func]
          /\ doneWaiter \in Caller \cup {None}
          /\ closedChs \subseteq Caller

\* The functions that c has added are there, its signal behind those it is to wait for.
Adds(c) ==
  /\ before[c] \subseteq ToSet(accepted)
  /\ F(c) \in ToSet(accepted) => pc[c] \notin {"idle", "add1"}
  /\ CloseCh(c) \in ToSet(accepted) => pc[c] \in {"wait", "done"} /\ op[c] = "RunSync"
  /\ pc[c] = "add2" /\ ~closed => F(c) \in ToSet(accepted)
  /\ pc[c] \in {"add1", "add2"} => op[c] = "RunSync"
  /\ \A j \in 1..Len(accepted) : accepted[j] = CloseCh(c) =>
       \A f \in before[c] \cup {F(c)} : \E i \in 1..(j - 1) : accepted[i] = f

\* What a nil error of c's call promises.
Promise(c) ==
  /\ op[c] = "RunSync" => \A f \in before[c] \cup {F(c)} : Finished(f)
  /\ op[c] = "Wait" => closed \/ \A f \in before[c] : Finished(f)
  /\ op[c] = "ShutdownAndWait" => runs = {}

\* Wait and ShutdownAndWait wait for a channel that is closed, when the promise is kept,
\* or will be by the goroutine that runs.
Waits(c) ==
  /\ pc[c] = "wait" /\ op[c] # "RunSync" =>
       /\ waitCh[c] # None /\ waitCh[c] \in closedChs \cup {doneWaiter}
       /\ waitCh[c] \in closedChs => Promise(c)
  /\ op[c] = "ShutdownAndWait" => closed
  /\ res[c] = "nil" => pc[c] = "done" /\ Promise(c)
  /\ c \in closedChs \cup {doneWaiter} => pc[c] # "idle"

CInv == /\ CTypes /\ Unique
        /\ doneWaiter \notin closedChs
        /\ doneWaiter # None => runs # {}
        /\ \A c \in Caller : Adds(c) /\ Waits(c)

IInv == QInv /\ CInv

\* A caller is not the value that stands for no channel.
NoneFree == None \notin Caller

\* Nobody has called the queue.
LEMMA CallersInit ==
  ASSUME NoneFree, Init
  PROVE  CInv
  <1>1. CTypes
    BY DEF Init, CTypes
  <1>2. ToSet(accepted) = {} /\ Len(accepted) = 0
    BY DEF Init, ToSet
  <1>3. ASSUME NEW c \in Caller PROVE Adds(c) /\ Waits(c)
    <2>1. /\ op[c] = None /\ pc[c] = "idle" /\ res[c] = None /\ before[c] = {}
          /\ c \notin closedChs \cup {doneWaiter}
      BY DEF Init, NoneFree
    <2>2. Adds(c)
      BY <1>2, <2>1 DEF Adds
    <2>3. Waits(c)
      BY <2>1 DEF Waits, None
    <2> QED
      BY <2>2, <2>3
  <1> QED
    BY <1>1, <1>2, <1>3 DEF CInv, Unique, Init

\* What a caller relies on while others go on: h is the function that is added, if any.
Evolves(h) ==
  /\ accepted' = accepted \/ (~closed /\ accepted' = Append(accepted, h))
  /\ closed => closed'
  /\ \A f : Finished(f) => Finished(f)'
  /\ closed /\ runs = {} => runs' = {}
  /\ closedChs \subseteq closedChs' /\ closedChs' \subseteq closedChs \cup {doneWaiter}
  /\ doneWaiter \in closedChs' \cup {doneWaiter'} \/ doneWaiter = None
  /\ closedChs' # closedChs => runs' = {} /\ (closed \/ \A f \in ToSet(accepted) : Finished(f)')

Unmoved(d) == /\ op'[d] = op[d] /\ pc'[d] = pc[d] /\ waitCh'[d] = waitCh[d]
              /\ res'[d] = res[d] /\ before'[d] = before[d]

\* A promise is kept for good.
LEMMA PromiseStays ==
  ASSUME NEW h, Evolves(h), NEW d \in Caller, Unmoved(d), Promise(d), Waits(d)
  PROVE  Promise(d)'
  <1>1. op'[d] = "RunSync" => \A f \in before'[d] \cup {F(d)} : Finished(f)'
    BY DEF Evolves, Unmoved, Promise
  <1>2. op'[d] = "Wait" => closed' \/ \A f \in before'[d] : Finished(f)'
    BY DEF Evolves, Unmoved, Promise
  <1>3. op'[d] = "ShutdownAndWait" => runs' = {}
    BY DEF Evolves, Unmoved, Promise, Waits
  <1> QED
    BY <1>1, <1>2, <1>3 DEF Promise

\* What others do leaves a caller's conditions alone.
LEMMA OthersKeep ==
  ASSUME IInv, NEW h \in Func, Evolves(h), NEW d \in Caller, Unmoved(d),
         h \notin {F(d), CloseCh(d)} \/ accepted' = accepted,
         d # doneWaiter' \/ d = doneWaiter
  PROVE  Adds(d)' /\ Waits(d)'
  <1>0. Adds(d) /\ Waits(d) /\ accepted \in Seq(Func) /\ CTypes
    BY DEF IInv, CInv, QInv, QTypes
  <1>1. Adds(d)'
    <2>1. CASE accepted' = accepted
      BY <1>0, <2>1 DEF Adds, Unmoved, Evolves
    <2>2. CASE ~closed /\ accepted' = Append(accepted, h) /\ h \notin {F(d), CloseCh(d)}
      <3>1. /\ ToSet(accepted') = ToSet(accepted) \cup {h}
            /\ Len(accepted) \in Nat /\ Len(accepted') = Len(accepted) + 1 /\ accepted'[Len(accepted) + 1] = h
            /\ \A i \in 1..Len(accepted) : accepted'[i] = accepted[i]
        BY <1>0, <2>2, MembersAppend
      <3>2. ASSUME NEW j \in 1..Len(accepted'), accepted'[j] = CloseCh(d),
                   NEW f \in before'[d] \cup {F(d)}
            PROVE  \E i \in 1..(j - 1) : accepted'[i] = f
        <4>1. j \in 1..Len(accepted) /\ accepted[j] = CloseCh(d) /\ f \in before[d] \cup {F(d)}
          BY <2>2, <3>1, <3>2 DEF Unmoved
        <4>2. PICK i \in 1..(j - 1) : accepted[i] = f
          BY <1>0, <4>1 DEF Adds
        <4>3. i \in 1..Len(accepted)
          BY <3>1, <4>1
        <4> QED
          BY <3>1, <4>2, <4>3
      <3> QED
        BY <1>0, <2>2, <3>1, <3>2 DEF Adds, Unmoved, Evolves
    <2> QED
      BY <2>1, <2>2 DEF Evolves
  <1>2. Waits(d)'
    <2>1. pc'[d] = "wait" /\ op'[d] # "RunSync" =>
            /\ waitCh'[d] # None /\ waitCh'[d] \in closedChs' \cup {doneWaiter'}
            /\ waitCh'[d] \in closedChs' => Promise(d)'
      <3> SUFFICES ASSUME pc[d] = "wait", op[d] # "RunSync"
                   PROVE  /\ waitCh[d] # None /\ waitCh[d] \in closedChs' \cup {doneWaiter'}
                          /\ waitCh[d] \in closedChs' => Promise(d)'
        BY DEF Unmoved
      <3>1. waitCh[d] # None /\ waitCh[d] \in closedChs \cup {doneWaiter}
        BY <1>0 DEF Waits
      <3>2. waitCh[d] \in closedChs' \cup {doneWaiter'}
        BY <3>1 DEF Evolves
      <3>3. CASE waitCh[d] \in closedChs
        BY <1>0, <3>1, <3>2, <3>3, PromiseStays DEF Waits
      <3>4. CASE waitCh[d] \notin closedChs /\ waitCh[d] \in closedChs'
        <4>1. runs' = {} /\ (closed' \/ \A f \in ToSet(accepted) : Finished(f)')
          BY <3>4 DEF Evolves
        <4>2. before'[d] \subseteq ToSet(accepted) /\ op'[d] # "RunSync"
          BY <1>0 DEF Adds, Unmoved
        <4> QED
          BY <3>1, <3>2, <4>1, <4>2 DEF Promise
      <3> QED
        BY <3>1, <3>2, <3>3, <3>4
    <2>2. res'[d] = "nil" => pc'[d] = "done" /\ Promise(d)'
      BY <1>0, PromiseStays DEF Waits, Unmoved
    <2>3. op'[d] = "ShutdownAndWait" => closed'
      BY <1>0 DEF Waits, Evolves, Unmoved
    <2>4. d \in closedChs' \cup {doneWaiter'} => pc'[d] # "idle"
      BY <1>0 DEF Waits, Evolves, Unmoved
    <2> QED
      BY <2>1, <2>2, <2>3, <2>4, Zenon DEF Waits
  <1> QED
    BY <1>1, <1>2

(* --------------------------------- steps ------------------------------- *)

\* Add changes nothing others rely on.
LEMMA AddEvolves ==
  ASSUME IInv, NEW h \in Func, Add(h), UNCHANGED <<started, closedChs>>
  PROVE  Evolves(h) /\ doneWaiter' = doneWaiter /\ (runs # {} => runs' # {}) /\ closed' = closed
  <1>1. /\ closed' = closed /\ doneWaiter' = doneWaiter
        /\ Added(h) \/ (closed /\ UNCHANGED <<accepted, queue, runs, inFlight>>)
    BY AddCases DEF IInv, QInv
  <1>2. \A f : Finished(f) => Finished(f)'
    BY FinishedStays DEF IInv, CInv
  <1> QED
    BY <1>1, <1>2 DEF Evolves, Added

\* A function that is new keeps the functions apart.
LEMMA UniqueStays ==
  ASSUME QInv, Unique, NEW h \in Func, h \notin ToSet(accepted),
         accepted' = accepted \/ accepted' = Append(accepted, h)
  PROVE  Unique'
  <1>1. CASE accepted' = accepted
    BY <1>1 DEF Unique
  <1>2. CASE accepted' = Append(accepted, h)
    <2>1. accepted \in Seq(Func) /\ Len(accepted) \in Nat
      BY DEF QInv, QTypes
    <2>2. /\ Len(accepted') = Len(accepted) + 1 /\ accepted'[Len(accepted) + 1] = h
          /\ \A i \in 1..Len(accepted) : accepted'[i] = accepted[i]
      BY <1>2, <2>1
    <2>3. \A i \in 1..Len(accepted) : accepted[i] # h
      BY <2>1, Members
    <2> QED
      BY <2>1, <2>2, <2>3 DEF Unique
  <1> QED
    BY <1>1, <1>2

\* Steps of a caller, put together from what becomes of it and of the queue.
LEMMA CallerStep ==
  ASSUME IInv, NEW c \in Caller, QInv', CTypes', Unique', NEW h \in {F(c), CloseCh(c)}, Evolves(h),
         \A d \in Caller \ {c} : Unmoved(d),
         doneWaiter' \in {doneWaiter, c}, doneWaiter' \notin closedChs', doneWaiter' # None => runs' # {},
         Adds(c)', Waits(c)'
  PROVE  IInv'
  <1>1. ASSUME NEW d \in Caller \ {c} PROVE Adds(d)' /\ Waits(d)'
    <2>1. h \in Func /\ h \notin {F(d), CloseCh(d)}
      BY DEF Func, F, CloseCh
    <2>2. d # doneWaiter' \/ d = doneWaiter
      OBVIOUS
    <2>3. Unmoved(d)
      OBVIOUS
    <2> QED
      BY <2>1, <2>2, <2>3, OthersKeep
  <1>2. \A d \in Caller : Adds(d)' /\ Waits(d)'
    BY <1>1
  <1> QED
    BY <1>2 DEF IInv, CInv

\* What Add leaves behind for the callers.
LEMMA AddStep ==
  ASSUME IInv, NEW h \in Func, h \notin ToSet(accepted), Add(h), UNCHANGED <<started, closedChs>>
  PROVE  /\ QInv' /\ Unique' /\ Evolves(h) /\ closed' = closed
         /\ doneWaiter' = doneWaiter /\ doneWaiter' \notin closedChs' /\ (doneWaiter' # None => runs' # {})
         /\ accepted \in Seq(Func) /\ accepted' \in Seq(Func)
         /\ \/ closed /\ accepted' = accepted
            \/ accepted' = Append(accepted, h) /\ ToSet(accepted') = ToSet(accepted) \cup {h}
  <1>1. QInv /\ Unique /\ accepted \in Seq(Func) /\ doneWaiter \notin closedChs /\ (doneWaiter # None => runs # {})
    BY DEF IInv, CInv, QInv, QTypes
  <1>2. QInv'
    BY <1>1, AddKeeps
  <1>3. Evolves(h) /\ doneWaiter' = doneWaiter /\ (runs # {} => runs' # {}) /\ closed' = closed
    BY AddEvolves
  <1>4. accepted' = accepted \/ accepted' = Append(accepted, h)
    BY <1>3 DEF Evolves
  <1>5. Unique'
    BY <1>1, <1>4, UniqueStays
  <1>6. ToSet(Append(accepted, h)) = ToSet(accepted) \cup {h}
    BY <1>1, MembersAppend
  <1>7. accepted' \in Seq(Func)
    BY <1>2 DEF QInv, QTypes
  <1>8. \/ closed /\ accepted' = accepted
        \/ accepted' = Append(accepted, h) /\ ToSet(accepted') = ToSet(accepted) \cup {h}
    BY <1>1, <1>6, AddCases DEF QInv, Added
  <1> QED
    BY <1>1, <1>2, <1>3, <1>5, <1>7, <1>8

\* A step that adds and runs nothing leaves behind what there was.
LEMMA QuietStep ==
  ASSUME IInv, UNCHANGED <<inFlight, runs, accepted, started, queue, closedChs>>,
         closed' \in BOOLEAN, closed => closed', doneWaiter' = doneWaiter \/ doneWaiter = None, NEW h
  PROVE  QInv' /\ Unique' /\ Evolves(h)
  <1>1. QInv'
    BY QuietKeeps DEF IInv
  <1>2. Unique'
    BY DEF IInv, CInv, Unique
  <1>3. Evolves(h)
    BY DEF Evolves, Finished
  <1> QED
    BY <1>1, <1>2, <1>3

\* Add by a caller that had not called yet.
LEMMA CallAddStep ==
  ASSUME IInv, NEW c \in Caller, CallAdd(c)
  PROVE  IInv'
  <1>1. /\ pc[c] = "idle" /\ Add(F(c)) /\ UNCHANGED <<waitCh, before, closedChs, started>>
        /\ op' = [op EXCEPT ![c] = "Add"] /\ pc' = [pc EXCEPT ![c] = "done"] /\ res' = [res EXCEPT ![c] = "nil"]
    BY DEF CallAdd, Calls, Return
  <1>2. F(c) \in Func /\ CloseCh(c) \in Func /\ F(c) # CloseCh(c)
    BY DEF Func, F, CloseCh
  <1>3. Adds(c) /\ CTypes
    BY DEF IInv, CInv
  <1>4. F(c) \notin ToSet(accepted) /\ CloseCh(c) \notin ToSet(accepted)
    BY <1>1, <1>3 DEF Adds
  <1>5. /\ QInv' /\ Unique' /\ Evolves(F(c))
        /\ doneWaiter' = doneWaiter /\ doneWaiter' \notin closedChs' /\ (doneWaiter' # None => runs' # {})
        /\ accepted' \in Seq(Func)
        /\ ToSet(accepted') = ToSet(accepted) \/ ToSet(accepted') = ToSet(accepted) \cup {F(c)}
    BY <1>1, <1>2, <1>4, AddStep
  <1>6. CTypes'
    BY <1>1, <1>3, <1>5 DEF CTypes, Op
  <1>7. \A d \in Caller \ {c} : Unmoved(d)
    BY <1>1, <1>3 DEF Unmoved, CTypes
  <1>8. op'[c] = "Add" /\ pc'[c] = "done" /\ res'[c] = "nil" /\ before'[c] = before[c]
    BY <1>1, <1>3 DEF CTypes
  <1>9. CloseCh(c) \notin ToSet(accepted') /\ before'[c] \subseteq ToSet(accepted')
    BY <1>2, <1>3, <1>4, <1>5, <1>8 DEF Adds
  <1>10. \A j \in 1..Len(accepted') : accepted'[j] # CloseCh(c)
    BY <1>5, <1>9, Members
  <1>11. Adds(c)'
    BY <1>8, <1>9, <1>10 DEF Adds
  <1>12. Waits(c)'
    BY <1>8 DEF Waits, Promise
  <1> QED
    BY <1>5, <1>6, <1>7, <1>11, <1>12, CallerStep

\* RunSync takes its snapshot.
LEMMA CallRunSyncStep ==
  ASSUME IInv, NEW c \in Caller, CallRunSync(c)
  PROVE  IInv'
  <1>1. /\ pc[c] = "idle" /\ UNCHANGED <<closed, inFlight, doneWaiter, queue, waitCh, res, runs, closedChs, accepted, started>>
        /\ op' = [op EXCEPT ![c] = "RunSync"] /\ pc' = [pc EXCEPT ![c] = "add1"]
        /\ before' = [before EXCEPT ![c] = ToSet(accepted)]
    BY DEF CallRunSync, Calls, Goto, Snapshot
  <1>2. Adds(c) /\ Waits(c) /\ CTypes /\ accepted \in Seq(Func) /\ closed \in BOOLEAN
        /\ doneWaiter \notin closedChs /\ (doneWaiter # None => runs # {})
    BY DEF IInv, CInv, QInv, QTypes
  <1>3. QInv' /\ Unique' /\ Evolves(F(c))
    BY <1>1, <1>2, QuietStep
  <1>4. ToSet(accepted) \in SUBSET Func
    BY <1>2, Members
  <1>5. CTypes'
    BY <1>1, <1>2, <1>4 DEF CTypes, Op
  <1>6. \A d \in Caller \ {c} : Unmoved(d)
    BY <1>1, <1>2 DEF Unmoved, CTypes
  <1>7. op'[c] = "RunSync" /\ pc'[c] = "add1" /\ res'[c] = res[c] /\ before'[c] = ToSet(accepted)
    BY <1>1, <1>2 DEF CTypes
  <1>8. F(c) \notin ToSet(accepted) /\ CloseCh(c) \notin ToSet(accepted) /\ res[c] # "nil"
    BY <1>1, <1>2 DEF Adds, Waits
  <1>9. \A j \in 1..Len(accepted) : accepted[j] # CloseCh(c)
    BY <1>2, <1>8, Members
  <1>10. Adds(c)'
    BY <1>1, <1>7, <1>8, <1>9 DEF Adds
  <1>11. Waits(c)'
    BY <1>7, <1>8 DEF Waits
  <1> QED
    BY <1>1, <1>2, <1>3, <1>5, <1>6, <1>10, <1>11, CallerStep

\* RunSync adds its function and then, behind it, its signal.
LEMMA RunSyncAddsStep ==
  ASSUME IInv, NEW c \in Caller, RunSyncAdds(c)
  PROVE  IInv'
  <1>1. UNCHANGED <<op, waitCh, before, res, closedChs, started>>
    BY DEF RunSyncAdds, Goto
  <1>2. F(c) \in Func /\ CloseCh(c) \in Func /\ F(c) # CloseCh(c)
    BY DEF Func, F, CloseCh
  <1>3. Adds(c) /\ Waits(c) /\ CTypes
    BY DEF IInv, CInv
  <1>4. CASE pc[c] = "add1" /\ Add(F(c)) /\ pc' = [pc EXCEPT ![c] = "add2"]
    <2>1. F(c) \notin ToSet(accepted) /\ CloseCh(c) \notin ToSet(accepted) /\ op[c] = "RunSync" /\ res[c] # "nil"
      BY <1>3, <1>4 DEF Adds, Waits
    <2>2. /\ QInv' /\ Unique' /\ Evolves(F(c)) /\ closed' = closed
          /\ doneWaiter' = doneWaiter /\ doneWaiter' \notin closedChs' /\ (doneWaiter' # None => runs' # {})
          /\ accepted' \in Seq(Func)
          /\ (closed /\ accepted' = accepted) \/ ToSet(accepted') = ToSet(accepted) \cup {F(c)}
      BY <1>1, <1>2, <1>4, <2>1, AddStep
    <2>3. CTypes'
      BY <1>1, <1>3, <1>4, <2>2 DEF CTypes
    <2>4. \A d \in Caller \ {c} : Unmoved(d)
      BY <1>1, <1>3, <1>4 DEF Unmoved, CTypes
    <2>5. op'[c] = "RunSync" /\ pc'[c] = "add2" /\ res'[c] = res[c] /\ before'[c] = before[c]
      BY <1>1, <1>3, <1>4, <2>1 DEF CTypes
    <2>6. CloseCh(c) \notin ToSet(accepted') /\ before'[c] \subseteq ToSet(accepted')
      BY <1>2, <1>3, <2>1, <2>2, <2>5 DEF Adds
    <2>7. \A j \in 1..Len(accepted') : accepted'[j] # CloseCh(c)
      BY <2>2, <2>6, Members
    <2>8. Adds(c)'
      BY <2>2, <2>5, <2>6, <2>7 DEF Adds
    <2>9. Waits(c)'
      BY <2>1, <2>5 DEF Waits
    <2> QED
      BY <2>2, <2>3, <2>4, <2>8, <2>9, CallerStep
  <1>5. CASE pc[c] = "add2" /\ Add(CloseCh(c)) /\ pc' = [pc EXCEPT ![c] = "wait"]
    <2>1. CloseCh(c) \notin ToSet(accepted) /\ op[c] = "RunSync" /\ res[c] # "nil" /\ (~closed => F(c) \in ToSet(accepted))
      BY <1>3, <1>5 DEF Adds, Waits
    <2>2. /\ QInv' /\ Unique' /\ Evolves(CloseCh(c))
          /\ doneWaiter' = doneWaiter /\ doneWaiter' \notin closedChs' /\ (doneWaiter' # None => runs' # {})
          /\ accepted' \in Seq(Func) /\ accepted \in Seq(Func)
          /\ \/ closed /\ accepted' = accepted
             \/ ~closed /\ accepted' = Append(accepted, CloseCh(c)) /\ ToSet(accepted') = ToSet(accepted) \cup {CloseCh(c)}
      <3>1. closed => accepted' = accepted
        BY <1>2, <1>5 DEF Add, qvars
      <3>2. accepted' = Append(accepted, CloseCh(c)) => ~closed
        <4>1. accepted \in Seq(Func) /\ Len(Append(accepted, CloseCh(c))) = Len(accepted) + 1 /\ Len(accepted) \in Nat
          BY <1>2 DEF IInv, QInv, QTypes
        <4> QED
          BY <3>1, <4>1
      <3> QED
        BY <1>1, <1>2, <1>5, <2>1, <3>2, AddStep
    <2>3. CTypes'
      BY <1>1, <1>3, <1>5, <2>2 DEF CTypes
    <2>4. \A d \in Caller \ {c} : Unmoved(d)
      BY <1>1, <1>3, <1>5 DEF Unmoved, CTypes
    <2>5. /\ op'[c] = "RunSync" /\ pc'[c] = "wait" /\ res'[c] = res[c] /\ before'[c] = before[c]
          /\ before[c] \subseteq ToSet(accepted)
      BY <1>1, <1>3, <1>5, <2>1 DEF CTypes, Adds
    <2>6. before'[c] \subseteq ToSet(accepted')
      BY <2>2, <2>5
    <2>7. ASSUME NEW j \in 1..Len(accepted'), accepted'[j] = CloseCh(c), NEW f \in before[c] \cup {F(c)}
          PROVE  \E i \in 1..(j - 1) : accepted'[i] = f
      <3>1. ~(closed /\ accepted' = accepted)
        BY <2>1, <2>2, <2>7, Members
      <3>2. accepted' = Append(accepted, CloseCh(c)) /\ f \in ToSet(accepted)
        BY <2>1, <2>2, <2>5, <3>1
      <3>3. /\ Len(accepted) \in Nat /\ Len(accepted') = Len(accepted) + 1
            /\ \A i \in 1..Len(accepted) : accepted'[i] = accepted[i]
        BY <1>2, <2>2, <3>2
      <3>4. j = Len(accepted) + 1
        BY <2>1, <2>2, <2>7, <3>3, Members
      <3>5. PICK i \in 1..Len(accepted) : accepted[i] = f
        BY <2>2, <3>2, Members
      <3> QED
        BY <3>3, <3>4, <3>5
    <2>8. Adds(c)'
      BY <2>5, <2>6, <2>7 DEF Adds
    <2>9. Waits(c)'
      BY <2>1, <2>5 DEF Waits
    <2> QED
      BY <2>2, <2>3, <2>4, <2>8, <2>9, CallerStep
  <1> QED
    BY <1>4, <1>5 DEF RunSyncAdds, Goto

\* A call that was waiting returns.
LEMMA ReturnStep ==
  ASSUME IInv, NEW c \in Caller, pc[c] = "wait", NEW r \in {"nil", "shutdown", "ctx"}, Return(c, r),
         UNCHANGED <<qvars, op, waitCh, before, runs, closedChs, accepted, started>>,
         r = "nil" => Promise(c)
  PROVE  IInv'
  <1>1. /\ UNCHANGED <<closed, inFlight, doneWaiter, queue, runs, closedChs, accepted, started, op, waitCh, before>>
        /\ pc' = [pc EXCEPT ![c] = "done"] /\ res' = [res EXCEPT ![c] = r]
    BY DEF qvars, Return
  <1>2. Adds(c) /\ Waits(c) /\ CTypes /\ closed \in BOOLEAN
        /\ doneWaiter \notin closedChs /\ (doneWaiter # None => runs # {})
    BY DEF IInv, CInv, QInv, QTypes
  <1>3. QInv' /\ Unique' /\ Evolves(F(c))
    BY <1>1, <1>2, QuietStep
  <1>4. CTypes'
    BY <1>1, <1>2 DEF CTypes
  <1>5. \A d \in Caller \ {c} : Unmoved(d)
    BY <1>1, <1>2 DEF Unmoved, CTypes
  <1>6. pc'[c] = "done" /\ res'[c] = r
    BY <1>1, <1>2 DEF CTypes
  <1>7. Adds(c)'
    BY <1>1, <1>2, <1>6 DEF Adds
  <1>8. Promise(c) => Promise(c)'
    BY <1>1 DEF Promise, Finished
  <1>9. Waits(c)'
    BY <1>1, <1>2, <1>6, <1>8 DEF Waits
  <1> QED
    BY <1>1, <1>2, <1>3, <1>4, <1>5, <1>7, <1>9, CallerStep

\* The select of a waiting call.
LEMMA SelectStep ==
  ASSUME IInv, NEW c \in Caller, SelectDone(c) \/ SelectExpired(c)
  PROVE  IInv'
  <1>1. pc[c] = "wait" /\ UNCHANGED <<qvars, op, waitCh, before, runs, closedChs, accepted, started>>
    BY DEF SelectDone, SelectExpired
  <1>2. CASE Return(c, "shutdown")
    BY <1>1, <1>2, ReturnStep
  <1>3. CASE Return(c, "ctx")
    BY <1>1, <1>3, ReturnStep
  <1>4. CASE Signalled(c) /\ Return(c, "nil")
    <2>1. Adds(c) /\ Waits(c) /\ QInv /\ Unique /\ started \in Seq(Func) /\ accepted \in Seq(Func)
      BY DEF IInv, CInv, QInv, QTypes
    <2>2. CASE op[c] = "RunSync"
      <3>1. Called(CloseCh(c))
        BY <1>4, <2>2 DEF Signalled
      <3>2. PICK j \in 1..Len(started) : started[j] = CloseCh(c)
        BY <2>1, <3>1, Members DEF Called
      <3>3. /\ accepted[j] = CloseCh(c) /\ j \in 1..Len(accepted)
        <4>1. Len(started) \in Nat /\ Len(accepted) \in Nat /\ Len(queue) \in Nat /\ Len(started) <= Len(accepted)
          BY DEF IInv, QInv, QTypes, Order, Taken
        <4> QED
          BY <2>1, <3>2, <4>1 DEF QInv, Order
      <3>4. ASSUME NEW f \in before[c] \cup {F(c)} PROVE Finished(f)
        <4>1. PICK i \in 1..(j - 1) : accepted[i] = f
          BY <2>1, <3>3 DEF Adds
        <4> QED
          BY <2>1, <3>1, <3>3, <4>1, EarlierFinished
      <3>5. Promise(c)
        BY <2>2, <3>4 DEF Promise
      <3> QED
        BY <1>1, <1>4, <3>5, ReturnStep
    <2>3. CASE op[c] # "RunSync"
      <3>1. Promise(c)
        BY <1>1, <1>4, <2>1, <2>3 DEF Signalled, Waits
      <3> QED
        BY <1>1, <1>4, <3>1, ReturnStep
    <2> QED
      BY <2>2, <2>3
  <1> QED
    BY <1>2, <1>3, <1>4 DEF SelectDone, SelectExpired

\* Wait and ShutdownAndWait find no goroutine, or join those that wait for it.
LEMMA JoinStep ==
  ASSUME IInv, NEW c \in Caller, pc[c] = "idle", JoinDoneWaiter(c)
  PROVE  /\ doneWaiter' = doneWaiter \/ doneWaiter = None
         /\ doneWaiter' \in {doneWaiter, c} /\ doneWaiter' \in Caller \cup {None}
         /\ doneWaiter' \notin closedChs
         /\ waitCh' = [waitCh EXCEPT ![c] = doneWaiter'] /\ waitCh'[c] = doneWaiter'
         /\ doneWaiter' # None => runs # {}
         /\ doneWaiter' = None => runs = {}
  <1>1. /\ QTypes /\ CTypes /\ Waits(c)
        /\ doneWaiter \notin closedChs /\ (doneWaiter # None => runs # {})
    BY DEF IInv, CInv, QInv
  <1>2. /\ doneWaiter' = IF inFlight /\ doneWaiter = None THEN c ELSE doneWaiter
        /\ waitCh' = [waitCh EXCEPT ![c] = doneWaiter'] /\ waitCh'[c] = doneWaiter'
    BY <1>1 DEF JoinDoneWaiter, CTypes
  <1>3. c \notin closedChs /\ c # doneWaiter
    BY <1>1 DEF Waits
  <1>4. (inFlight <=> runs # {}) /\ doneWaiter \in Caller \cup {None}
    BY <1>1 DEF QTypes, CTypes
  <1>5. CASE inFlight /\ doneWaiter = None
    BY <1>1, <1>2, <1>3, <1>4, <1>5
  <1>6. CASE ~(inFlight /\ doneWaiter = None)
    BY <1>1, <1>2, <1>3, <1>4, <1>6
  <1> QED
    BY <1>5, <1>6

\* Wait: it returns at once on a closed queue or when all functions are done.
LEMMA CallWaitStep ==
  ASSUME IInv, NEW c \in Caller, CallWait(c)
  PROVE  IInv'
  <1>1. /\ pc[c] = "idle" /\ UNCHANGED <<closed, inFlight, queue, runs, closedChs, accepted, started>>
        /\ op' = [op EXCEPT ![c] = "Wait"] /\ before' = [before EXCEPT ![c] = ToSet(accepted)]
        /\ JoinDoneWaiter(c)
        /\ IF closed THEN Return(c, "shutdown")
           ELSE IF waitCh'[c] = None THEN Return(c, "nil") ELSE Goto(c, "wait")
    BY DEF CallWait, Calls, Snapshot
  <1>2. Adds(c) /\ Waits(c) /\ CTypes /\ QInv /\ accepted \in Seq(Func) /\ closed \in BOOLEAN
    BY DEF IInv, CInv, QInv, QTypes
  <1>3. /\ doneWaiter' = doneWaiter \/ doneWaiter = None
        /\ doneWaiter' \in {doneWaiter, c} /\ doneWaiter' \in Caller \cup {None}
        /\ doneWaiter' \notin closedChs
        /\ waitCh' = [waitCh EXCEPT ![c] = doneWaiter'] /\ waitCh'[c] = doneWaiter'
        /\ doneWaiter' # None => runs # {}
        /\ doneWaiter' = None => runs = {}
    BY <1>1, JoinStep
  <1>4. QInv' /\ Unique' /\ Evolves(F(c))
    BY <1>1, <1>2, <1>3, QuietStep
  <1>5. \/ closed /\ Return(c, "shutdown")
        \/ ~closed /\ doneWaiter' = None /\ Return(c, "nil")
        \/ ~closed /\ doneWaiter' # None /\ Goto(c, "wait")
    BY <1>1, <1>2, <1>3
  <1>6. /\ \A d \in Caller \ {c} : pc'[d] = pc[d] /\ res'[d] = res[d]
        /\ pc' \in [Caller -> {"idle", "add1", "add2", "wait", "done"}]
        /\ res' \in [Caller -> {None, "nil", "shutdown", "ctx"}]
        /\ \/ pc'[c] = "done" /\ res'[c] = "shutdown"
           \/ ~closed /\ doneWaiter' = None /\ pc'[c] = "done" /\ res'[c] = "nil"
           \/ ~closed /\ doneWaiter' # None /\ pc'[c] = "wait" /\ res'[c] = res[c]
    BY <1>2, <1>5 DEF Return, Goto, CTypes
  <1>7. ToSet(accepted) \in SUBSET Func
    BY <1>2, Members
  <1>8. CTypes'
    BY <1>1, <1>2, <1>3, <1>6, <1>7 DEF CTypes, Op
  <1>9. \A d \in Caller \ {c} : Unmoved(d)
    BY <1>1, <1>2, <1>3, <1>6 DEF Unmoved, CTypes
  <1>10. op'[c] = "Wait" /\ before'[c] = ToSet(accepted)
    BY <1>1, <1>2 DEF CTypes
  <1>11. F(c) \notin ToSet(accepted) /\ CloseCh(c) \notin ToSet(accepted) /\ res[c] # "nil" /\ pc'[c] \in {"wait", "done"}
    BY <1>1, <1>2, <1>6 DEF Adds, Waits
  <1>12. \A j \in 1..Len(accepted) : accepted[j] # CloseCh(c)
    BY <1>2, <1>11, Members
  <1>13. Adds(c)'
    BY <1>1, <1>10, <1>11, <1>12 DEF Adds
  <1>14. ~closed /\ doneWaiter' = None => Promise(c)'
    <2>1. SUFFICES ASSUME ~closed, doneWaiter' = None, NEW f \in ToSet(accepted) PROVE Finished(f)'
      BY <1>10 DEF Promise
    <2>2. runs = {} /\ ~Spawned /\ queue = <<>>
      BY <1>2, <1>3, <2>1 DEF QInv, Order, Spawned
    <2>3. f \in ToSet(started)
      BY <1>2, <2>1, <2>2, AllStarted
    <2> QED
      BY <1>1, <2>2, <2>3 DEF Finished
  <1>15. Waits(c)'
    BY <1>1, <1>3, <1>6, <1>10, <1>11, <1>14 DEF Waits
  <1> QED
    BY <1>1, <1>3, <1>4, <1>8, <1>9, <1>13, <1>15, CallerStep

\* Shutdown, and ShutdownAndWait with no goroutine, return at once.
LEMMA CallShutdownStep ==
  ASSUME IInv, NEW c \in Caller, CallShutdown(c)
  PROVE  IInv'
  <1>1. PICK o \in {"Shutdown", "ShutdownAndWait"} : Calls(c, o)
    BY DEF CallShutdown
  <1>2. Adds(c) /\ Waits(c) /\ CTypes /\ QInv /\ accepted \in Seq(Func) /\ closed \in BOOLEAN
        /\ doneWaiter \notin closedChs /\ (doneWaiter # None => runs # {})
    BY DEF IInv, CInv, QInv, QTypes
  <1>3. /\ pc[c] = "idle" /\ UNCHANGED <<inFlight, queue, before, runs, closedChs, accepted, started>>
        /\ op' = [op EXCEPT ![c] = o] /\ op'[c] = o /\ closed' = TRUE
        /\ IF o = "Shutdown"
           THEN Return(c, "nil") /\ UNCHANGED <<doneWaiter, waitCh>>
           ELSE /\ JoinDoneWaiter(c)
                /\ IF waitCh'[c] = None THEN Return(c, "nil") ELSE Goto(c, "wait")
    BY <1>1, <1>2 DEF CallShutdown, Calls, CTypes
  <1>4. /\ doneWaiter' = doneWaiter \/ doneWaiter = None
        /\ doneWaiter' \in {doneWaiter, c} /\ doneWaiter' \in Caller \cup {None}
        /\ doneWaiter' \notin closedChs
        /\ doneWaiter' # None => runs # {}
        /\ waitCh' \in [Caller -> Caller \cup {None}] /\ \A d \in Caller \ {c} : waitCh'[d] = waitCh[d]
    <2>1. CASE o = "Shutdown"
      BY <1>2, <1>3, <2>1 DEF CTypes
    <2>2. CASE o # "Shutdown"
      BY <1>2, <1>3, <2>2, JoinStep DEF CTypes
    <2> QED
      BY <2>1, <2>2
  <1>5. \/ o = "Shutdown" /\ Return(c, "nil")
        \/ o = "ShutdownAndWait" /\ runs = {} /\ Return(c, "nil")
        \/ o = "ShutdownAndWait" /\ waitCh'[c] = doneWaiter' /\ doneWaiter' # None /\ Goto(c, "wait")
    BY <1>3, JoinStep
  <1>6. /\ \A d \in Caller \ {c} : pc'[d] = pc[d] /\ res'[d] = res[d]
        /\ pc' \in [Caller -> {"idle", "add1", "add2", "wait", "done"}]
        /\ res' \in [Caller -> {None, "nil", "shutdown", "ctx"}]
        /\ \/ o = "Shutdown" /\ pc'[c] = "done"
           \/ o = "ShutdownAndWait" /\ runs = {} /\ pc'[c] = "done"
           \/ /\ o = "ShutdownAndWait" /\ waitCh'[c] = doneWaiter' /\ doneWaiter' # None
              /\ pc'[c] = "wait" /\ res'[c] = res[c]
    BY <1>2, <1>5 DEF Return, Goto, CTypes
  <1>7. QInv' /\ Unique' /\ Evolves(F(c))
    BY <1>2, <1>3, <1>4, QuietStep
  <1>8. CTypes'
    BY <1>2, <1>3, <1>4, <1>6 DEF CTypes, Op
  <1>9. \A d \in Caller \ {c} : Unmoved(d)
    BY <1>2, <1>3, <1>4, <1>6 DEF Unmoved, CTypes
  <1>10. F(c) \notin ToSet(accepted) /\ CloseCh(c) \notin ToSet(accepted) /\ res[c] # "nil" /\ pc'[c] \in {"wait", "done"}
    BY <1>2, <1>3, <1>6 DEF Adds, Waits
  <1>11. \A j \in 1..Len(accepted) : accepted[j] # CloseCh(c)
    BY <1>2, <1>10, Members
  <1>12. Adds(c)'
    BY <1>2, <1>3, <1>10, <1>11 DEF Adds
  <1>13. Waits(c)'
    <2>1. o = "Shutdown" \/ runs = {} => Promise(c)'
      BY <1>3 DEF Promise
    <2> QED
      BY <1>3, <1>4, <1>6, <1>10, <2>1 DEF Waits
  <1> QED
    BY <1>3, <1>4, <1>7, <1>8, <1>9, <1>12, <1>13, CallerStep

\* The goroutine calls its function, the function returns, and the goroutine goes on or
\* ends: then it wakes those that wait, all functions done or the queue closed.
LEMMA RunStep ==
  ASSUME IInv, NoneFree, NEW g \in runs, Begin(g) \/ End(g) \/ RunLoop(g)
  PROVE  IInv'
  <1>1. UNCHANGED <<op, pc, waitCh, res, before, closed, accepted>>
    BY DEF Begin, End, RunLoop, RunLoopWith, qvars, cvars
  <1>2. QInv /\ CTypes /\ Unique /\ QTypes /\ runs = {g} /\ doneWaiter \notin closedChs /\ closed \in BOOLEAN
    BY DEF IInv, CInv, QInv, QTypes
  <1>3. QInv'
    BY <1>2, BeginKeeps, EndKeeps, RunLoopKeeps
  <1>4. Unique'
    BY <1>1, <1>2 DEF Unique
  <1>5. \A f : Finished(f) => Finished(f)'
    BY <1>2, FinishedStays
  <1>6. \/ UNCHANGED <<doneWaiter, closedChs>> /\ runs' # {}
        \/ /\ g.st = "ended" /\ ~(queue # <<>> /\ ~closed) /\ runs' = {} /\ started' = started
           /\ closedChs' = closedChs \cup ({doneWaiter} \ {None}) /\ doneWaiter' = None
    <2>1. CASE Begin(g) \/ End(g)
      BY <2>1 DEF Begin, End, qvars
    <2>2. CASE RunLoop(g)
      BY <1>2, <2>2 DEF RunLoop, RunLoopWith
    <2> QED
      BY <2>1, <2>2
  <1>7. closedChs' # closedChs => runs' = {} /\ (closed \/ \A f \in ToSet(accepted) : Finished(f)')
    <2>1. SUFFICES ASSUME closedChs' # closedChs, ~closed, NEW f \in ToSet(accepted) PROVE Finished(f)'
      BY <1>6
    <2>2. g.st = "ended" /\ queue = <<>> /\ runs' = {} /\ started' = started
      BY <1>6, <2>1
    <2>3. f \in ToSet(started)
      <3>1. ~Spawned
        BY <1>2, <2>2 DEF Spawned
      <3> QED
        BY <1>2, <2>1, <2>2, <3>1, AllStarted
    <2> QED
      BY <2>2, <2>3 DEF Finished
  <1>8. ASSUME NEW h PROVE Evolves(h)
    BY <1>1, <1>2, <1>5, <1>6, <1>7 DEF Evolves
  <1>9. CTypes'
    <2>1. doneWaiter' \in Caller \cup {None} /\ closedChs' \subseteq Caller
      BY <1>2, <1>6 DEF CTypes
    <2> QED
      BY <1>1, <1>2, <2>1 DEF CTypes
  <1>10. doneWaiter' \notin closedChs' /\ (doneWaiter' # None => runs' # {})
    BY <1>2, <1>6 DEF CTypes, NoneFree
  <1>11. ASSUME NEW d \in Caller PROVE Adds(d)' /\ Waits(d)'
    <2>1. Unmoved(d) /\ Evolves(F(d)) /\ F(d) \in Func /\ accepted' = accepted
      BY <1>1, <1>8 DEF Unmoved, Func
    <2>2. d # doneWaiter' \/ d = doneWaiter
      BY <1>6 DEF NoneFree
    <2> QED
      BY <2>1, <2>2, OthersKeep
  <1> QED
    BY <1>3, <1>4, <1>9, <1>10, <1>11 DEF IInv, CInv

(* -------------------------------- theorems ----------------------------- *)

\* The queue, its goroutine and its callers stay in step with each other.
THEOREM QueueInvariant == ASSUME NoneFree PROVE Spec => []IInv
  <1>1. Init => IInv
    BY QueueInit, CallersInit DEF IInv
  <1>2. IInv /\ [Next]_vars => IInv'
    <2> SUFFICES ASSUME IInv, [Next]_vars PROVE IInv'
      OBVIOUS
    <2>1. ASSUME NEW c \in Caller, Call(c) PROVE IInv'
      BY <2>1, CallAddStep, CallRunSyncStep, CallWaitStep, CallShutdownStep DEF Call
    <2>2. ASSUME NEW c \in Caller, Go(c) \/ SelectExpired(c) PROVE IInv'
      BY <2>2, RunSyncAddsStep, SelectStep DEF Go
    <2>3. CASE Run
      BY <2>3, RunStep DEF Run
    <2>4. CASE UNCHANGED vars
      <3>1. UNCHANGED <<closed, inFlight, doneWaiter, queue, runs, closedChs, accepted, started, op, pc, waitCh, res, before>>
        BY <2>4 DEF vars, qvars, cvars
      <3>2. QInv'
        BY <3>1, QuietKeeps DEF IInv, QInv, QTypes
      <3>3. CTypes' /\ Unique' /\ doneWaiter' \notin closedChs' /\ (doneWaiter' # None => runs' # {})
        BY <3>1 DEF IInv, CInv, CTypes, Unique
      <3>4. ASSUME NEW c \in Caller PROVE Adds(c)' /\ Waits(c)'
        <4>1. Adds(c) /\ Waits(c)
          BY DEF IInv, CInv
        <4>2. Adds(c)'
          BY <3>1, <4>1 DEF Adds
        <4>3. Waits(c)'
          BY <3>1, <4>1 DEF Waits, Promise, Finished
        <4> QED
          BY <4>2, <4>3
      <3> QED
        BY <3>2, <3>3, <3>4 DEF IInv, CInv
    <2> QED
      BY <2>1, <2>2, <2>3, <2>4 DEF Next
  <1> QED
    BY <1>1, <1>2, PTL DEF Spec

\* execqueue is an ordered queue: functions are called in the order in which Add took
\* them and one after the other, whoever adds, waits or shuts down meanwhile.
THEOREM CalledInOrder == ASSUME NoneFree PROVE Spec => []OrderedOneAtATime
  <1>1. IInv => OrderedOneAtATime
    <2> SUFFICES ASSUME IInv PROVE OrderedOneAtATime
      OBVIOUS
    <2>1. started \in Seq(Func) /\ accepted \in Seq(Func) /\ Len(started) \in Nat /\ Len(accepted) \in Nat /\ Len(queue) \in Nat
      BY DEF IInv, QInv, QTypes
    <2>2. Len(started) <= Len(accepted) /\ \A i \in 1..Len(started) : accepted[i] = started[i]
      BY <2>1 DEF IInv, QInv, Order, Taken
    <2>3. SubSeq(accepted, 1, Len(started)) = started
      BY <2>1, <2>2
    <2>4. IsPrefix(started, accepted)
      BY <2>1, <2>2, <2>3 DEF IsPrefix
    <2>5. Cardinality(runs) <= 1
      <3>1. CASE runs = {}
        BY <3>1, FS_EmptySet
      <3>2. CASE runs # {}
        <4>1. PICK g \in runs : TRUE
          BY <3>2
        <4>2. runs = {g}
          BY <4>1 DEF IInv, QInv, QTypes
        <4> QED
          BY <4>2, FS_Singleton
      <3> QED
        BY <3>1, <3>2
    <2> QED
      BY <2>4, <2>5 DEF OrderedOneAtATime
  <1> QED
    BY <1>1, QueueInvariant, PTL

\* A nil error of RunSync, Wait or ShutdownAndWait keeps its promise, whatever other
\* callers do: what the caller waited for has run, or nothing runs any more.
THEOREM NilKeepsPromise == ASSUME NoneFree PROVE Spec => []NilMeansDone
  <1>1. IInv => NilMeansDone
    BY DEF IInv, CInv, Waits, Promise, NilMeansDone
  <1> QED
    BY <1>1, QueueInvariant, PTL
=============================================================================
