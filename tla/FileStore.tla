----------------------------- MODULE FileStore -----------------------------
(* The state file of a group: FileStore keeps all state in a cache and       *)
(* rewrites the whole file on every change (ipn/store/stores.go), through a  *)
(* temporary file that is renamed (atomicfile/atomicfile.go).  The process   *)
(* may crash at any point and start again; the file survives.                *)
CONSTANTS Key, Value,
          Absent,       \* no state: ErrStateNotExist, and a nil argument
          Empty,        \* a value of length 0
          NoFile,       \* the file is missing or of length 0
          Caller        \* goroutines that use the store

State == Value \cup {Absent}

ASSUME StoreAssumption == /\ Absent \notin Value \cup Caller
                          /\ Empty \in Value
                          /\ NoFile \notin [Key -> State]
                          /\ Absent \notin [key : Key, val : State]

VARIABLES
  faulty,   \* whether writing the file can fail
  file,     \* the file: NoFile, or Key -> State
  run,      \* "down", "init" (writing the initial file), "up"
  cache,    \* Key -> State
  holder,   \* the caller that holds the store's lock to write the file, or Absent
  step,     \* where its atomicfile.WriteFile is: "none", "temp", "rename"
  op,       \* Caller -> [key, val] of its call, or Absent
  allowed,  \* Key -> values the callers may find, by the results they were given
  stale     \* the last file write of this process failed

vars == <<faulty, file, run, cache, holder, step, op, allowed, stale>>

Contents == IF file = NoFile THEN [k \in Key |-> Absent] ELSE file

Init == /\ faulty \in BOOLEAN
        /\ file = NoFile
        /\ run = "down"
        /\ cache = [k \in Key |-> Absent]
        /\ holder = Absent
        /\ step = "none"
        /\ op = [c \in Caller |-> Absent]
        /\ allowed = [k \in Key |-> {Absent}]
        /\ stale = FALSE

(* ------------------------------ NewFileStore --------------------------- *)

\* The file is read into the cache; a missing one is first written.
NewFileStore ==
  /\ run = "down"
  /\ run' = IF file = NoFile THEN "init" ELSE "up"
  /\ cache' = Contents
  /\ UNCHANGED <<faulty, file, holder, step, op, allowed, stale>>

InitialFile ==
  /\ run = "init"
  /\ file' = cache
  /\ run' = "up"
  /\ UNCHANGED <<faulty, cache, holder, step, op, allowed, stale>>

InitialFileFails ==
  /\ faulty
  /\ run = "init"
  /\ run' = "down"
  /\ UNCHANGED <<faulty, file, cache, holder, step, op, allowed, stale>>

(* ------------------------------- WriteState ---------------------------- *)

\* bytes.Equal: nil and an empty slice are equal.
Equal(a, b) == a = b \/ {a, b} \subseteq {Absent, Empty}

\* The caller is told that k now has state v.
Succeed(c, k, v) == /\ op' = [op EXCEPT ![c] = Absent]
                    /\ allowed' = [allowed EXCEPT ![k] = {v}]

\* ipn.WriteState: nothing to do if the store already has the value.
Check(c, k, v) ==
  /\ run = "up"
  /\ holder = Absent
  /\ op[c] = Absent
  /\ IF cache[k] # Absent /\ Equal(cache[k], v)
       THEN Succeed(c, k, v)
       ELSE op' = [op EXCEPT ![c] = [key |-> k, val |-> v]] /\ UNCHANGED allowed
  /\ UNCHANGED <<faulty, file, run, cache, holder, step, stale>>

\* Mutant: the file is written after the caller was told of the success.
WriteStateEarly(c) ==
  /\ run = "up"
  /\ holder = Absent
  /\ op[c] # Absent
  /\ LET k == op[c].key
         v == op[c].val
     IN IF Equal(cache[k], v)
          THEN /\ Succeed(c, k, v)
               /\ UNCHANGED <<cache, holder, step>>
          ELSE /\ cache' = [cache EXCEPT ![k] = v]
               /\ allowed' = [allowed EXCEPT ![k] = {v}]
               /\ holder' = c
               /\ step' = "temp"
               /\ UNCHANGED op
  /\ UNCHANGED <<faulty, file, run, stale>>

\* WriteState up to atomicfile.WriteFile; the lock is held from here on.
WriteState(c) ==
  /\ run = "up"
  /\ holder = Absent
  /\ op[c] # Absent
  /\ LET k == op[c].key
         v == op[c].val
     IN IF Equal(cache[k], v)
          THEN /\ Succeed(c, k, v)
               /\ UNCHANGED <<cache, holder, step>>
          ELSE /\ cache' = [cache EXCEPT ![k] = v]
               /\ allowed' = [allowed EXCEPT ![k] = @ \cup {v}]
               /\ holder' = c
               /\ step' = "temp"
               /\ UNCHANGED op
  /\ UNCHANGED <<faulty, file, run, stale>>

\* The temporary file is complete: written, synced, closed.
WriteTemp ==
  /\ step = "temp"
  /\ step' = "rename"
  /\ UNCHANGED <<faulty, file, run, cache, holder, op, allowed, stale>>

Release == holder' = Absent /\ step' = "none"

\* Mutant: only the changed key reaches the file.
RenameOneKey ==
  /\ step = "rename"
  /\ file' = [file EXCEPT ![op[holder].key] = op[holder].val]
  /\ stale' = FALSE
  /\ Succeed(holder, op[holder].key, op[holder].val)
  /\ Release
  /\ UNCHANGED <<faulty, run, cache>>

\* It replaces the file, and WriteState returns nil.
Rename ==
  /\ step = "rename"
  /\ file' = cache
  /\ stale' = FALSE
  /\ Succeed(holder, op[holder].key, op[holder].val)
  /\ Release
  /\ UNCHANGED <<faulty, run, cache>>

\* Any step of WriteFile fails: the temporary file is removed, the cache stays
\* and the caller is told.
WriteFails ==
  /\ faulty
  /\ step \in {"temp", "rename"}
  /\ stale' = TRUE
  /\ op' = [op EXCEPT ![holder] = Absent]
  /\ Release
  /\ UNCHANGED <<faulty, file, run, cache, allowed>>

\* External: the process is killed.
Crash ==
  /\ run # "down"
  /\ run' = "down"
  /\ op' = [c \in Caller |-> Absent]
  /\ stale' = FALSE
  /\ Release
  /\ UNCHANGED <<faulty, file, cache, allowed>>

Next == \/ NewFileStore
        \/ InitialFile
        \/ InitialFileFails
        \/ \E c \in Caller : WriteState(c) \/ \E k \in Key, v \in State : Check(c, k, v)
        \/ WriteTemp
        \/ Rename
        \/ WriteFails
        \/ Crash

Spec == Init /\ [][Next]_vars

(* ------------------------------ properties ----------------------------- *)

TypeOK == /\ faulty \in BOOLEAN
          /\ file = NoFile \/ file \in [Key -> State]
          /\ run \in {"down", "init", "up"}
          /\ run = "up" => file # NoFile
          /\ cache \in [Key -> State]
          /\ holder \in Caller \cup {Absent}
          /\ step \in {"none", "temp", "rename"}
          /\ (holder = Absent) <=> (step = "none")
          /\ op \in [Caller -> [key : Key, val : State] \cup {Absent}]
          /\ holder # Absent => op[holder] # Absent
          /\ allowed \in [Key -> SUBSET State]
          /\ stale \in BOOLEAN

\* "StateStore persists state, and produces it back on request": for every key
\* the file, hence a store opened on it after a crash, has the state of the last
\* WriteState that returned nil, or of a later one that did not return.
Persists == \A k \in Key : \E v \in allowed[k] : Equal(Contents[k], v)

\* Crashes alone, between any two steps of concurrent writes, lose nothing that
\* was acknowledged.
AcknowledgedSurvives == ~faulty => Persists

\* A failed write leaves the cache ahead of the file for a while only: once a
\* write of any key succeeds, the file has the changes of all keys again.
HealsWhole == (run = "up" /\ holder = Absent /\ ~stale) => file = cache

\* A store that is being opened on a missing file has nothing in its cache.
Opening == run = "init" => file = NoFile /\ cache = [k \in Key |-> Absent]

\* While a caller holds the lock to write the file, its value is in the cache and
\* among the allowed ones; without failures only its key is ahead of the file.
Writing ==
  holder # Absent =>
    LET k == op[holder].key
    IN /\ run = "up"
       /\ cache[k] = op[holder].val
       /\ op[holder].val \in allowed[k]
       /\ ~stale => \A j \in Key \ {k} : cache[j] = file[j]

\* The inductive invariant of the store.
IInv == /\ TypeOK
        /\ HealsWhole
        /\ Opening
        /\ Writing
        /\ ~faulty => ~stale
        /\ AcknowledgedSurvives
=============================================================================
