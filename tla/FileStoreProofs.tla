-------------------------- MODULE FileStoreProofs --------------------------
(* The invariants of FileStore, for any keys, values and callers.            *)
EXTENDS FileStore, TLAPS

\* What the types say of the call of the caller that holds the lock.
LEMMA HolderOp ==
  ASSUME TypeOK, step # "none"
  PROVE  /\ holder \in Caller
         /\ op[holder] \in [key : Key, val : State]
         /\ op[holder].key \in Key
         /\ op[holder].val \in State
  <1>1. holder \in Caller
    BY DEF TypeOK
  <1>2. op[holder] \in [key : Key, val : State]
    BY <1>1 DEF TypeOK
  <1> QED
    BY <1>1, <1>2

\* NewFileStore, the writes, failures and crashes keep the types; in particular
\* an open store has a file.
LEMMA StoreTypes ==
  ASSUME TypeOK, [Next]_vars
  PROVE  TypeOK'
  <1> USE StoreAssumption DEF TypeOK
  <1>1. CASE NewFileStore
    <2>1. Contents \in [Key -> State]
      BY DEF Contents, State
    <2> QED
      BY <1>1, <2>1 DEF NewFileStore
  <1>2. CASE InitialFile
    BY <1>2 DEF InitialFile
  <1>3. CASE InitialFileFails
    BY <1>3 DEF InitialFileFails
  <1>4. ASSUME NEW c \in Caller, WriteState(c)
        PROVE  TypeOK'
    <2>1. /\ op[c] \in [key : Key, val : State]
          /\ op[c].key \in Key
          /\ op[c].val \in State
      BY <1>4 DEF WriteState
    <2>2. CASE Equal(cache[op[c].key], op[c].val)
      BY <1>4, <2>1, <2>2 DEF WriteState, Succeed
    <2>3. CASE ~Equal(cache[op[c].key], op[c].val)
      BY <1>4, <2>1, <2>3 DEF WriteState
    <2> QED
      BY <2>2, <2>3
  <1>5. ASSUME NEW c \in Caller, NEW k \in Key, NEW v \in State, Check(c, k, v)
        PROVE  TypeOK'
    <2>1. [key |-> k, val |-> v] \in [key : Key, val : State]
      OBVIOUS
    <2>2. CASE cache[k] # Absent /\ Equal(cache[k], v)
      BY <1>5, <2>2 DEF Check, Succeed
    <2>3. CASE ~(cache[k] # Absent /\ Equal(cache[k], v))
      BY <1>5, <2>1, <2>3 DEF Check
    <2> QED
      BY <2>2, <2>3
  <1>6. CASE WriteTemp
    BY <1>6 DEF WriteTemp
  <1>7. CASE Rename
    <2>1. step # "none"
      BY <1>7 DEF Rename
    <2> QED
      BY <1>7, <2>1, HolderOp DEF Rename, Succeed, Release
  <1>8. CASE WriteFails
    BY <1>8, HolderOp DEF WriteFails, Release
  <1>9. CASE Crash
    BY <1>9 DEF Crash, Release
  <1>10. CASE UNCHANGED vars
    BY <1>10 DEF vars
  <1> QED
    BY <1>1, <1>2, <1>3, <1>4, <1>5, <1>6, <1>7, <1>8, <1>9, <1>10 DEF Next

\* A write that is acknowledged while the file is level with the cache, because
\* the cache has the value already, leaves what is acknowledged in the file.
LEMMA AcknowledgedByCache ==
  ASSUME TypeOK, Persists, run = "up", file = cache,
         NEW k \in Key, NEW v \in State, Equal(cache[k], v),
         allowed' = [allowed EXCEPT ![k] = {v}], file' = file
  PROVE  Persists'
  <1>1. Contents = cache /\ Contents' = cache
    BY DEF TypeOK, Contents
  <1> SUFFICES ASSUME NEW j \in Key
               PROVE  \E w \in allowed'[j] : Equal(Contents'[j], w)
    BY DEF Persists
  <1>2. CASE j = k
    <2>1. v \in allowed'[j]
      BY <1>2 DEF TypeOK
    <2> QED
      BY <1>1, <1>2, <2>1
  <1>3. CASE j # k
    <2>1. allowed'[j] = allowed[j]
      BY <1>3 DEF TypeOK
    <2> QED
      BY <1>1, <2>1 DEF Persists
  <1> QED
    BY <1>2, <1>3

\* A store starts without a file, and no state is what its callers may find.
LEMMA StoreInit == Init => IInv
  <1> SUFFICES ASSUME Init PROVE IInv
    OBVIOUS
  <1> USE StoreAssumption DEF Init
  <1>1. TypeOK
    BY DEF TypeOK, State
  <1>2. Persists
    BY DEF Persists, Contents, Equal
  <1> QED
    BY <1>1, <1>2 DEF IInv, HealsWhole, Opening, Writing, AcknowledgedSurvives

\* Every step of the store preserves its invariant: the cache is ahead of the
\* file only at the key being written, unless a write has failed.
LEMMA StoreStep == IInv /\ [Next]_vars => IInv'
  <1> SUFFICES ASSUME IInv, [Next]_vars PROVE IInv'
    OBVIOUS
  <1> DEFINE Rest == /\ HealsWhole
                     /\ Opening
                     /\ Writing
                     /\ ~faulty => ~stale
                     /\ AcknowledgedSurvives
  <1>t. TypeOK /\ TypeOK'
    BY StoreTypes DEF IInv
  <1>r. Rest
    BY DEF IInv
  <1> SUFFICES Rest'
    BY <1>t DEF IInv
  <1> HIDE DEF Rest
  <1>1. CASE NewFileStore
    <2>1. Contents' = Contents
      BY <1>1 DEF NewFileStore, Contents
    <2>2. holder = Absent
      BY <1>1, <1>r DEF NewFileStore, Rest, Writing
    <2>3. HealsWhole' /\ Opening'
      BY <1>1, <1>t DEF NewFileStore, HealsWhole, Opening, Contents
    <2>4. AcknowledgedSurvives'
      BY <1>1, <1>r, <2>1 DEF NewFileStore, Rest, AcknowledgedSurvives, Persists
    <2> QED
      BY <1>1, <1>r, <2>2, <2>3, <2>4 DEF NewFileStore, Rest, Writing
  <1>2. CASE InitialFile
    <2>1. Contents = cache /\ Contents' = cache
      BY <1>2, <1>r, <1>t, StoreAssumption
         DEF InitialFile, Rest, Opening, Contents, TypeOK
    <2>2. holder = Absent
      BY <1>2, <1>r DEF InitialFile, Rest, Writing
    <2>3. AcknowledgedSurvives'
      BY <1>2, <1>r, <2>1 DEF InitialFile, Rest, AcknowledgedSurvives, Persists
    <2> QED
      BY <1>2, <1>r, <2>2, <2>3 DEF InitialFile, Rest, HealsWhole, Opening, Writing
  <1>3. CASE InitialFileFails
    <2>1. holder = Absent
      BY <1>3, <1>r DEF InitialFileFails, Rest, Writing
    <2> QED
      BY <1>3, <1>r, <2>1 DEF InitialFileFails, Rest, HealsWhole, Opening, Writing,
                              AcknowledgedSurvives
  <1>4. ASSUME NEW c \in Caller, WriteState(c)
        PROVE  Rest'
    <2> DEFINE k == op[c].key
               v == op[c].val
    <2>1. /\ run = "up" /\ holder = Absent
          /\ k \in Key /\ v \in State
          /\ file # NoFile /\ file \in [Key -> State]
      BY <1>4, <1>t DEF WriteState, TypeOK
    <2>2. ~stale => file = cache
      BY <2>1, <1>r DEF Rest, HealsWhole
    <2> HIDE DEF k, v
    <2>3. CASE Equal(cache[k], v)
      <3>1. /\ allowed' = [allowed EXCEPT ![k] = {v}]
            /\ UNCHANGED <<faulty, file, run, cache, holder, stale>>
        BY <1>4, <2>3 DEF WriteState, Succeed, k, v
      <3>2. AcknowledgedSurvives'
        BY <1>r, <1>t, <2>1, <2>2, <2>3, <3>1, AcknowledgedByCache
           DEF Rest, AcknowledgedSurvives
      <3> QED
        BY <1>r, <2>1, <3>1, <3>2 DEF Rest, HealsWhole, Opening, Writing
    <2>4. CASE ~Equal(cache[k], v)
      <3>1. /\ cache' = [cache EXCEPT ![k] = v]
            /\ allowed' = [allowed EXCEPT ![k] = @ \cup {v}]
            /\ holder' = c
            /\ UNCHANGED <<faulty, file, run, op, stale>>
        BY <1>4, <2>4 DEF WriteState, k, v
      <3>2. c # Absent
        BY StoreAssumption
      <3>3. \A j \in Key : allowed[j] \subseteq allowed'[j]
        BY <1>t, <2>1, <3>1 DEF TypeOK
      <3>4. AcknowledgedSurvives'
        BY <1>r, <3>1, <3>3 DEF Rest, AcknowledgedSurvives, Persists, Contents
      <3>5. Writing'
        <4>1. /\ cache'[k] = v
              /\ v \in allowed'[k]
              /\ \A j \in Key \ {k} : cache'[j] = cache[j]
          BY <1>t, <2>1, <3>1 DEF TypeOK
        <4>2. op'[holder'].key = k /\ op'[holder'].val = v
          BY <3>1 DEF k, v
        <4> QED
          BY <2>1, <2>2, <3>1, <4>1, <4>2 DEF Writing
      <3> QED
        BY <1>r, <2>1, <3>1, <3>2, <3>4, <3>5 DEF Rest, HealsWhole, Opening
    <2> QED
      BY <2>3, <2>4
  <1>5. ASSUME NEW c \in Caller, NEW k \in Key, NEW v \in State, Check(c, k, v)
        PROVE  Rest'
    <2>1. /\ run = "up" /\ holder = Absent
          /\ UNCHANGED <<faulty, file, run, cache, holder, stale>>
      BY <1>5 DEF Check
    <2>2. ~stale => file = cache
      BY <2>1, <1>r DEF Rest, HealsWhole
    <2>3. AcknowledgedSurvives'
      <3>1. CASE cache[k] # Absent /\ Equal(cache[k], v)
        <4>1. allowed' = [allowed EXCEPT ![k] = {v}]
          BY <1>5, <3>1 DEF Check, Succeed
        <4> QED
          BY <1>r, <1>t, <2>1, <2>2, <3>1, <4>1, AcknowledgedByCache
             DEF Rest, AcknowledgedSurvives
      <3>2. CASE ~(cache[k] # Absent /\ Equal(cache[k], v))
        <4>1. allowed' = allowed
          BY <1>5, <3>2 DEF Check
        <4> QED
          BY <1>r, <2>1, <4>1 DEF Rest, AcknowledgedSurvives, Persists, Contents
      <3> QED
        BY <3>1, <3>2
    <2> QED
      BY <1>r, <2>1, <2>3 DEF Rest, HealsWhole, Opening, Writing
  <1>6. CASE WriteTemp
    BY <1>6, <1>r DEF WriteTemp, Rest, HealsWhole, Opening, Writing,
                      AcknowledgedSurvives, Persists, Contents
  <1>7. CASE Rename
    <2> DEFINE k == op[holder].key
               v == op[holder].val
    <2>1. step # "none"
      BY <1>7 DEF Rename
    <2>2. /\ holder \in Caller /\ holder # Absent
          /\ k \in Key /\ v \in State
      BY <1>t, <2>1, HolderOp, StoreAssumption
    <2>3. /\ run = "up"
          /\ cache[k] = v
          /\ ~stale => \A j \in Key \ {k} : cache[j] = file[j]
      BY <1>r, <2>2 DEF Rest, Writing
    <2>4. /\ file' = cache /\ cache' = cache
          /\ ~stale' /\ run' = run /\ faulty' = faulty
          /\ holder' = Absent
          /\ allowed' = [allowed EXCEPT ![k] = {v}]
      BY <1>7 DEF Rename, Succeed, Release
    <2>5. Contents = file /\ Contents' = cache
      BY <1>t, <2>3, <2>4 DEF TypeOK, Contents
    <2> HIDE DEF k, v
    <2>6. AcknowledgedSurvives'
      <3> SUFFICES ASSUME ~faulty, NEW j \in Key
                   PROVE  \E w \in allowed'[j] : Equal(Contents'[j], w)
        BY <2>4 DEF AcknowledgedSurvives, Persists
      <3>1. CASE j = k
        BY <1>t, <2>2, <2>3, <2>4, <2>5, <3>1 DEF TypeOK, Equal
      <3>2. CASE j # k
        <4>1. allowed'[j] = allowed[j] /\ Contents'[j] = Contents[j]
          BY <1>t, <1>r, <2>2, <2>3, <2>4, <2>5, <3>2 DEF TypeOK, Rest
        <4> QED
          BY <1>r, <4>1 DEF Rest, AcknowledgedSurvives, Persists
      <3> QED
        BY <3>1, <3>2
    <2> QED
      BY <2>3, <2>4, <2>6 DEF Rest, HealsWhole, Opening, Writing
  <1>8. CASE WriteFails
    <2>1. run = "up"
      BY <1>8, <1>t, <1>r DEF WriteFails, Rest, Writing, TypeOK
    <2> QED
      BY <1>8, <2>1 DEF WriteFails, Release, Rest, HealsWhole, Opening, Writing,
                        AcknowledgedSurvives
  <1>9. CASE Crash
    BY <1>9, <1>r DEF Crash, Release, Rest, HealsWhole, Opening, Writing,
                      AcknowledgedSurvives, Persists, Contents
  <1>10. CASE UNCHANGED vars
    BY <1>10, <1>r DEF vars, Rest, HealsWhole, Opening, Writing,
                       AcknowledgedSurvives, Persists, Contents
  <1> QED
    BY <1>1, <1>2, <1>3, <1>4, <1>5, <1>6, <1>7, <1>8, <1>9, <1>10 DEF Next

\* The invariant of the store holds in every behaviour of FileStore and
\* atomicfile.WriteFile, with any number of callers, crashes and failed writes.
THEOREM StoreInvariant == Spec => []IInv
  BY StoreInit, StoreStep, PTL DEF Spec

\* Crashes alone never lose a state whose WriteState returned nil.
THEOREM CrashesLoseNothing == Spec => []AcknowledgedSurvives
  <1>1. IInv => AcknowledgedSurvives
    BY DEF IInv
  <1> QED
    BY <1>1, StoreInvariant, PTL

\* Whenever no file write has failed since the last that succeeded, the file has
\* everything the cache has.
THEOREM SuccessHealsWhole == Spec => []HealsWhole
  <1>1. IInv => HealsWhole
    BY DEF IInv
  <1> QED
    BY <1>1, StoreInvariant, PTL
=============================================================================
