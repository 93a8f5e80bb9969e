------------------------------ MODULE DNSCache ------------------------------
(* LookupIP of the caching resolver (net/dnscache) for one host name, with   *)
(* the call that concurrent callers share (util/singleflight DoChanContext). *)
EXTENDS Naturals, FiniteSets

CONSTANTS Caller,      \* goroutines, each with one call of LookupIP
          Public, Private, \* answers of a resolver: lists whose primary address is ...
          Tries,       \* resolvers asked in turn: Forward, the cloud's, the fallback
          UseLastGood  \* the option of the Resolver

None == "none"

VARIABLES
  ipCache,  \* the entry of the host, fresh or expired; <<>> if there is none
  flight,   \* g.m: the call in progress, named after the caller that made it
  call,     \* Caller -> the call it made: st, waiters (ctxWaiters), cancelled, res
  joined,   \* Caller -> the call it waits for
  lpc, lres,\* Caller -> LookupIP, and what it returned
  gpc,      \* Caller -> its waitCtx goroutine
  final,    \* Caller -> the channel from waitCtx to LookupIP
  ctxDone,  \* Caller -> its context is done
  known, deserted \* history: there was an entry when LookupIP began; the call joined
                  \* had been given up by all its callers

vars == <<ipCache, flight, call, joined, lpc, lres, gpc, final, ctxDone, known, deserted>>

Answers == Public \cup Private
Err == {"ctx", "canceled", "lookup"}

Init == /\ ipCache \in {<<>>} \cup (Public \X {FALSE})
        /\ flight = None
        /\ call = [c \in Caller |-> [st |-> 0, waiters |-> 0, cancelled |-> FALSE, res |-> None]]
        /\ joined = [c \in Caller |-> None]
        /\ lpc = [c \in Caller |-> "idle"]
        /\ lres = [c \in Caller |-> None]
        /\ gpc = [c \in Caller |-> "none"]
        /\ final = [c \in Caller |-> None]
        /\ ctxDone = [c \in Caller |-> FALSE]
        /\ known = [c \in Caller |-> FALSE]
        /\ deserted = [c \in Caller |-> FALSE]

(* ------------------------------- LookupIP ------------------------------ *)

lookupIPCache == ipCache # <<>> /\ ipCache[2]

Returns(c, r) == /\ lpc' = [lpc EXCEPT ![c] = "done"]
                 /\ lres' = [lres EXCEPT ![c] = r]

LookupIP(c) ==
  /\ lpc[c] = "idle"
  /\ known' = [known EXCEPT ![c] = ipCache # <<>>]
  /\ IF lookupIPCache THEN Returns(c, ipCache[1])
     ELSE lpc' = [lpc EXCEPT ![c] = "join"] /\ UNCHANGED lres
  /\ UNCHANGED <<ipCache, flight, call, joined, gpc, final, ctxDone, deserted>>

\* Joins the call in progress or starts one; waitCtx then stands between the two.
DoChanContext(c) ==
  /\ lpc[c] = "join"
  /\ lpc' = [lpc EXCEPT ![c] = "select"]
  /\ gpc' = [gpc EXCEPT ![c] = "select"]
  /\ flight' = IF flight = None THEN c ELSE flight
  /\ joined' = [joined EXCEPT ![c] = flight']
  /\ call' = [call EXCEPT ![flight'].waiters = @ + 1,
                          ![flight'].st = IF flight = None THEN 1 ELSE @]
  /\ deserted' = [deserted EXCEPT ![c] = flight # None /\ call[flight].waiters = 0]
  /\ UNCHANGED <<ipCache, lres, final, ctxDone, known>>

LookupIPGets(c) ==
  /\ lpc[c] = "select" /\ final[c] # None
  /\ Returns(c, IF final[c] \in Err /\ UseLastGood /\ ipCache # <<>> THEN ipCache[1] ELSE final[c])
  /\ UNCHANGED <<ipCache, flight, call, joined, gpc, final, ctxDone, known, deserted>>

LookupIPExpires(c) ==
  /\ lpc[c] = "select" /\ ctxDone[c]
  /\ Returns(c, "ctx")
  /\ UNCHANGED <<ipCache, flight, call, joined, gpc, final, ctxDone, known, deserted>>

(* ------------------------------- waitCtx ------------------------------- *)

CallDone(c) == call[joined[c]].st = Tries + 3

\* The context is done or the result is there: the caller leaves the call.
LeaveWith(c, last) ==
  /\ gpc[c] = "select"
  /\ ctxDone[c] \/ CallDone(c)
  /\ call' = [call EXCEPT ![joined[c]].waiters = @ - 1]
  /\ gpc' = [gpc EXCEPT ![c] = IF last THEN "cancel" ELSE "out"]
  /\ UNCHANGED <<ipCache, flight, joined, lpc, lres, final, ctxDone, known, deserted>>

\* Mutant: whoever leaves cancels the call.
WaitCtxLeavesFirst(c) == LeaveWith(c, TRUE)

WaitCtxLeaves(c) == LeaveWith(c, call[joined[c]].waiters = 1)

WaitCtxCancels(c) ==
  /\ gpc[c] = "cancel"
  /\ call' = [call EXCEPT ![joined[c]].cancelled = TRUE]
  /\ gpc' = [gpc EXCEPT ![c] = "wg"]
  /\ UNCHANGED <<ipCache, flight, joined, lpc, lres, final, ctxDone, known, deserted>>

\* The last one waits for the call.  The context takes precedence; a caller whose
\* context is alive got the result.  The channel has room for it.
WaitCtxOutputs(c) ==
  /\ gpc[c] = "out" \/ (gpc[c] = "wg" /\ CallDone(c))
  /\ final' = [final EXCEPT ![c] = IF ctxDone[c] THEN "ctx" ELSE call[joined[c]].res]
  /\ gpc' = [gpc EXCEPT ![c] = "done"]
  /\ UNCHANGED <<ipCache, flight, call, joined, lpc, lres, ctxDone, known, deserted>>

(* ------------------------------- lookupIP ------------------------------ *)

\* A private address is used but not cached.
addIPCache(r) == ipCache' = IF r \in Private THEN ipCache ELSE <<r, TRUE>>

\* fn looks at the cache again, then asks the resolvers in turn.
CallChecksCache(k) ==
  /\ call[k].st = 1
  /\ call' = [call EXCEPT ![k].st = IF lookupIPCache THEN Tries + 2 ELSE 2,
                          ![k].res = IF lookupIPCache THEN ipCache[1] ELSE @]
  /\ UNCHANGED <<ipCache, flight, joined, lpc, lres, gpc, final, ctxDone, known, deserted>>

CallAnswered(k) ==
  /\ call[k].st \in 2..(Tries + 1)
  /\ \E ips \in Answers :
       /\ addIPCache(ips)
       /\ call' = [call EXCEPT ![k].st = Tries + 2, ![k].res = ips]
  /\ UNCHANGED <<flight, joined, lpc, lres, gpc, final, ctxDone, known, deserted>>

\* An error, no addresses, or a timeout: the next resolver, if there is one.
CallUnanswered(k) ==
  /\ call[k].st \in 2..(Tries + 1)
  /\ call' = [call EXCEPT ![k].st = @ + 1,
       ![k].res = IF call[k].st < Tries + 1 THEN @
                  ELSE IF call[k].cancelled THEN "canceled" ELSE "lookup"]
  /\ UNCHANGED <<ipCache, flight, joined, lpc, lres, gpc, final, ctxDone, known, deserted>>

\* doCall delivers under g.mu: the call leaves the group, every caller gets the result.
CallFinishes(k) ==
  /\ call[k].st = Tries + 2
  /\ call' = [call EXCEPT ![k].st = Tries + 3]
  /\ flight' = IF flight = k THEN None ELSE flight
  /\ UNCHANGED <<ipCache, joined, lpc, lres, gpc, final, ctxDone, known, deserted>>

(* ----------------------------- environment ----------------------------- *)

TTLPasses ==
  /\ lookupIPCache
  /\ ipCache' = <<ipCache[1], FALSE>>
  /\ UNCHANGED <<flight, call, joined, lpc, lres, gpc, final, ctxDone, known, deserted>>

ContextEnds(c) ==
  /\ lpc[c] \in {"join", "select"} /\ ~ctxDone[c]
  /\ ctxDone' = [ctxDone EXCEPT ![c] = TRUE]
  /\ UNCHANGED <<ipCache, flight, call, joined, lpc, lres, gpc, final, known, deserted>>

LookupStep(c) == DoChanContext(c) \/ LookupIPGets(c) \/ LookupIPExpires(c)
WaitCtx(c) == WaitCtxLeaves(c) \/ WaitCtxCancels(c) \/ WaitCtxOutputs(c)
DoCall(k) == CallChecksCache(k) \/ CallAnswered(k) \/ CallUnanswered(k) \/ CallFinishes(k)

Next == \/ \E c \in Caller : LookupIP(c) \/ LookupStep(c) \/ WaitCtx(c) \/ DoCall(c) \/ ContextEnds(c)
        \/ TTLPasses

Spec == Init /\ [][Next]_vars

(* A goroutine that can go on does, and every lookup ends, for it has a      *)
(* timeout.  No context has to end, and no entry has to expire.              *)
Progress == \E c \in Caller : LookupStep(c) \/ WaitCtx(c) \/ DoCall(c)

Fairness == WF_vars(Progress)

FairSpec == Spec /\ Fairness

(* ------------------------------ properties ----------------------------- *)

Waiting(k) == {c \in Caller : joined[c] = k /\ gpc[c] = "select"}

\* Types, with ctxWaiters equal to the callers that have not left, and the group
\* holding exactly the call that is not over.
TypeOK == /\ flight \in Caller \cup {None}
          /\ joined \in [Caller -> Caller \cup {None}]
          /\ lpc \in [Caller -> {"idle", "join", "select", "done"}]
          /\ gpc \in [Caller -> {"none", "select", "cancel", "wg", "out", "done"}]
          /\ ctxDone \in [Caller -> BOOLEAN]
          /\ ipCache \in {<<>>} \cup (Public \X BOOLEAN)
          /\ lres \in [Caller -> Answers \cup Err \cup {None}] /\ final \in [Caller -> Answers \cup Err \cup {None}]
          /\ \A k \in Caller : /\ call[k].st \in 0..(Tries + 3)
                               /\ call[k].waiters = Cardinality(Waiting(k))
                               /\ call[k].st \in 1..(Tries + 2) <=> flight = k

\* "canceled only when there are no callers waiting on a result": a caller whose
\* context is alive gets a cancellation only if it joined a call that all callers
\* had given up but whose function had not returned yet.
LiveCallersServed == \A c \in Caller :
  final[c] = "canceled" => deserted[c]

\* "the call has finished executing after the last caller has returned".
CallEndsBeforeLastCaller == \A k \in Caller :
  (call[k].st > 0 /\ \A c \in Caller : joined[c] = k => gpc[c] = "done") => call[k].st = Tries + 3

\* UseLastGood: once the host was resolved, LookupIP fails only with its context.
LastGoodUsed == \A c \in Caller :
  UseLastGood /\ known[c] /\ lpc[c] = "done" /\ lres[c] \in Err => ctxDone[c]

\* Every LookupIP returns and leaves no goroutine behind.
Looking(c) == lpc[c] \in {"join", "select"} \/ gpc[c] \notin {"none", "done"}
LookupsEnd == (\E c \in Caller : Looking(c)) ~> (\A c \in Caller : ~Looking(c))
=============================================================================
