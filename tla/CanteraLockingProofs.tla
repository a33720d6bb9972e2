------------------------ MODULE CanteraLockingProofs ------------------------
(***************************************************************************)
(* What cantera_mutex protects, for any number of threads and quadrature   *)
(* points: the calls of one source file never see each other's state.      *)
(***************************************************************************)
EXTENDS CanteraLocking, TLAPS

\* Every call of the workload locks, and they all lock the same mutex.
OneFile(w) ==
  \A i, j \in 1..Len(w) : Locked(w[i]) /\ Unit(w[i]) = Unit(w[j])

Inside(t) == pc[t] \in {"temperature", "composition", "read", "unlock"}

\* A thread inside a locked call holds the mutex of the call's file.
HoldsMutex ==
  \A t \in Threads : Inside(t) /\ Locked(Current(t)) =>
                       mutex[Unit(Current(t))] = t

\* What a thread has written to the shared gas is still there.
GasPlace ==
  \A t \in Threads :
    /\ pc[t] \in {"composition", "read"} => gas.T = Own(t)
    /\ pc[t] = "read" => gas.PY = Own(t)

IInv == TypeOK /\ HoldsMutex /\ OneFile(work) /\ GasPlace /\ ResultsAreOwn

USE NQPointsAssumption, WorkloadsAssumption, FreeAssumption
USE DEF Points, Labels, Goto

\* A workload is a nonempty sequence of calls.
LEMMA WorkloadType == TypeOK => /\ work \in Seq(Calls)
                                /\ Len(work) \in Nat
                                /\ \A i \in 1..Len(work) : work[i] \in Calls
  BY DEF TypeOK

\* Every call belongs to one of the three files.
LEMMA UnitType == ASSUME NEW c PROVE Unit(c) \in Units
  BY DEF Unit, Units

LEMMA OwnType ==
  ASSUME TypeOK, NEW t \in Threads
  PROVE  /\ Own(t) \in States
         /\ Current(t) \in Calls
         /\ Unit(Current(t)) \in Units
  BY WorkloadType, UnitType DEF TypeOK, Own, States, Current

LEMMA TypeInit == Init => TypeOK
  <1> SUFFICES ASSUME Init PROVE TypeOK
    OBVIOUS
  <1>1. work \in Seq(Calls) /\ Len(work) \in Nat /\ Len(work) # 0
    BY DEF Init
  <1>2. Initially \in Gases
    BY DEF Initially, Gases, States
  <1> QED
    BY <1>1, <1>2 DEF Init, TypeOK

LEMMA TypeNext == TypeOK /\ [Next]_vars => TypeOK'
  <1> SUFFICES ASSUME TypeOK, [Next]_vars PROVE TypeOK'
    OBVIOUS
  <1>0. Len(work) \in Nat
    BY WorkloadType
  <1>1. ASSUME NEW t \in Threads, Lock(t) PROVE TypeOK'
    BY <1>1, OwnType DEF Lock, TypeOK
  <1>2. ASSUME NEW t \in Threads, SetTemperature(t) PROVE TypeOK'
    BY <1>2, OwnType DEF SetTemperature, TypeOK, Gases
  <1>3. ASSUME NEW t \in Threads, SetComposition(t) PROVE TypeOK'
    BY <1>3, OwnType DEF SetComposition, TypeOK, Gases
  <1>4. ASSUME NEW t \in Threads, Read(t) PROVE TypeOK'
    <2>1. [gas EXCEPT !.PY = IF TemperatureOnly(Current(t)) THEN Own(t)
                             ELSE @] \in Gases
      BY OwnType DEF TypeOK, Gases
    <2> QED
      BY <1>4, <2>1 DEF Read, TypeOK
  <1>5. ASSUME NEW t \in Threads, Unlock(t) PROVE TypeOK'
    <2>1. /\ work' \in Workloads /\ gas' \in Gases
          /\ cache' \in [Threads -> [Points -> [1..Len(work') -> Gases]]]
      BY <1>5 DEF Unlock, TypeOK
    <2>2. mutex' \in [Units -> Threads \union {Free}]
      BY <1>5, OwnType DEF Unlock, Released, TypeOK
    <2>3. pc' \in [Threads -> Labels]
      BY <1>5 DEF Unlock, TypeOK
    <2>4. point' \in [Threads -> Points]
      <3>1. point[t] < NQPoints => point[t] + 1 \in Points
        BY DEF TypeOK
      <3> QED
        BY <1>5, <3>1 DEF Unlock, TypeOK
    <2>5. call' \in [Threads -> 1..Len(work)] /\ work' = work
      <3>1. AnotherCall(t) => call[t] + 1 \in 1..Len(work)
        BY <1>0 DEF TypeOK, AnotherCall
      <3>2. 1 \in 1..Len(work)
        BY <1>0 DEF TypeOK
      <3> QED
        BY <1>5, <3>1, <3>2 DEF Unlock, TypeOK
    <2> QED
      BY <2>1, <2>2, <2>3, <2>4, <2>5 DEF TypeOK
  <1>6. ASSUME NEW t \in Threads, Fail(t) PROVE TypeOK'
    BY <1>6, OwnType DEF Fail, ReleasedOnError, Released, TypeOK
  <1>7. CASE UNCHANGED vars
    BY <1>7 DEF vars, TypeOK
  <1> QED
    BY <1>1, <1>2, <1>3, <1>4, <1>5, <1>6, <1>7
       DEF Next, Thread, AllFinished

\* The types hold for any number of threads, points and workloads.
THEOREM TypeCorrect == Spec => []TypeOK
  <1> QED
    BY TypeInit, TypeNext, PTL DEF Spec

\* Under one mutex no two threads are inside a call.
LEMMA Exclusive ==
  ASSUME TypeOK, HoldsMutex, OneFile(work),
         NEW s \in Threads, NEW t \in Threads, Inside(s), Inside(t)
  PROVE  s = t
  <1>1. call[s] \in 1..Len(work) /\ call[t] \in 1..Len(work)
    BY DEF TypeOK
  <1>2. /\ Locked(Current(s)) /\ Locked(Current(t))
        /\ Unit(Current(s)) = Unit(Current(t))
    BY <1>1 DEF OneFile, Current
  <1>3. mutex[Unit(Current(s))] = s /\ mutex[Unit(Current(t))] = t
    BY <1>2 DEF HoldsMutex
  <1> QED
    BY <1>2, <1>3

\* In such a workload every call locks and sets the whole state.
LEMMA AllLocked ==
  ASSUME TypeOK, OneFile(work), NEW t \in Threads
  PROVE  Locked(Current(t)) /\ ~TemperatureOnly(Current(t))
  BY DEF TypeOK, OneFile, Current, Locked, TemperatureOnly

LEMMA HoldsMutexNext ==
  ASSUME TypeOK, TypeOK', HoldsMutex, OneFile(work), [Next]_vars
  PROVE  HoldsMutex'
  <1> SUFFICES ASSUME NEW s \in Threads, Inside(s)', Locked(Current(s))'
               PROVE  (mutex[Unit(Current(s))])' = s
    BY DEF HoldsMutex
  <1>1. ASSUME NEW t \in Threads, Lock(t)
        PROVE  (mutex[Unit(Current(s))])' = s
    <2>1. /\ Current(s)' = Current(s) /\ Locked(Current(t))
          /\ mutex[Unit(Current(t))] = Free
          /\ mutex' = [mutex EXCEPT ![Unit(Current(t))] = t]
      BY <1>1, AllLocked DEF Lock, Current
    <2>2. mutex \in [Units -> Threads \union {Free}]
      BY DEF TypeOK
    <2>3. CASE s = t
      BY <2>1, <2>2, <2>3, OwnType
    <2>4. CASE s # t
      <3>1. Inside(s)
        BY <1>1, <2>4 DEF Lock, Inside, TypeOK
      <3>2. mutex[Unit(Current(s))] = s
        BY <3>1, AllLocked DEF HoldsMutex
      <3> QED
        BY <2>1, <2>2, <3>2, OwnType
    <2> QED
      BY <2>3, <2>4
  <1>2. ASSUME NEW t \in Threads,
               SetTemperature(t) \/ SetComposition(t) \/ Read(t)
        PROVE  (mutex[Unit(Current(s))])' = s
    <2>1. Inside(s) /\ Current(s)' = Current(s) /\ mutex' = mutex
      BY <1>2 DEF SetTemperature, SetComposition, Read, Inside, Current, TypeOK
    <2> QED
      BY <2>1, AllLocked DEF HoldsMutex
  <1>3. ASSUME NEW t \in Threads, Unlock(t) \/ Fail(t)
        PROVE  (mutex[Unit(Current(s))])' = s
    <2>1. Inside(s) /\ s # t
      BY <1>3 DEF Unlock, Fail, Inside, TypeOK
    <2>2. Inside(t)
      BY <1>3 DEF Unlock, Fail, Inside
    <2> QED
      BY <2>1, <2>2, Exclusive
  <1>4. CASE UNCHANGED vars
    BY <1>4 DEF vars, HoldsMutex, Inside, Current
  <1> QED
    BY <1>1, <1>2, <1>3, <1>4 DEF Next, Thread, AllFinished

LEMMA GasPlaceNext ==
  ASSUME TypeOK, HoldsMutex, OneFile(work), GasPlace, [Next]_vars
  PROVE  GasPlace'
  <1> SUFFICES ASSUME NEW s \in Threads
               PROVE  /\ pc'[s] \in {"composition", "read"} =>
                           gas'.T = Own(s)'
                      /\ pc'[s] = "read" => gas'.PY = Own(s)'
    BY DEF GasPlace
  <1>1. ASSUME NEW t \in Threads, SetTemperature(t)
        PROVE  /\ pc'[s] \in {"composition", "read"} => gas'.T = Own(s)'
               /\ pc'[s] = "read" => gas'.PY = Own(s)'
    <2>1. Own(s)' = Own(s)
      BY <1>1 DEF SetTemperature, Own
    <2>2. CASE s = t
      BY <1>1, <2>1, <2>2, AllLocked DEF SetTemperature, TypeOK, Gases
    <2>3. CASE s # t
      BY <1>1, <2>3, Exclusive DEF SetTemperature, TypeOK, Inside
    <2> QED
      BY <2>2, <2>3
  <1>2. ASSUME NEW t \in Threads, SetComposition(t)
        PROVE  /\ pc'[s] \in {"composition", "read"} => gas'.T = Own(s)'
               /\ pc'[s] = "read" => gas'.PY = Own(s)'
    <2>1. Own(s)' = Own(s)
      BY <1>2 DEF SetComposition, Own
    <2>2. CASE s = t
      BY <1>2, <2>1, <2>2 DEF SetComposition, TypeOK, Gases, GasPlace
    <2>3. CASE s # t
      BY <1>2, <2>3, Exclusive DEF SetComposition, TypeOK, Inside
    <2> QED
      BY <2>2, <2>3
  <1>3. ASSUME NEW t \in Threads, Lock(t) \/ Read(t) \/ Unlock(t) \/ Fail(t)
        PROVE  /\ pc'[s] \in {"composition", "read"} => gas'.T = Own(s)'
               /\ pc'[s] = "read" => gas'.PY = Own(s)'
    BY <1>3 DEF Lock, Read, Unlock, Fail, TypeOK, GasPlace, Own
  <1>4. CASE UNCHANGED vars
    BY <1>4 DEF vars, GasPlace, Own
  <1> QED
    BY <1>1, <1>2, <1>3, <1>4 DEF Next, Thread, AllFinished

LEMMA ResultsNext ==
  ASSUME TypeOK, OneFile(work), GasPlace, ResultsAreOwn, [Next]_vars
  PROVE  ResultsAreOwn'
  <1> SUFFICES ASSUME NEW s \in Threads, NEW q \in Points,
                      NEW i \in 1..Len(work), Evaluated(s, q, i)'
               PROVE  cache'[s][q][i] = [T |-> <<s, q>>, PY |-> <<s, q>>]
    <2>1. work' = work
      BY DEF Next, Thread, AllFinished, vars, Lock, SetTemperature,
             SetComposition, Read, Unlock, Fail
    <2> QED
      BY <2>1 DEF ResultsAreOwn
  <1>0. Evaluated(s, q, i) =>
          cache[s][q][i] = [T |-> <<s, q>>, PY |-> <<s, q>>]
    BY DEF ResultsAreOwn
  <1>1. ASSUME NEW t \in Threads, Read(t)
        PROVE  cache'[s][q][i] = [T |-> <<s, q>>, PY |-> <<s, q>>]
    <2>1. /\ gas.T = Own(t) /\ gas.PY = Own(t)
          /\ point[t] \in Points /\ call[t] \in 1..Len(work)
      BY <1>1 DEF Read, GasPlace, TypeOK
    <2>2. cache' = [cache EXCEPT ![t][point[t]][call[t]] =
                      [T |-> Own(t), PY |-> Own(t)]]
      <3>1. [gas EXCEPT !.PY = Own(t)] = [T |-> Own(t), PY |-> Own(t)]
        BY <2>1 DEF TypeOK, Gases
      <3>2. gas = [T |-> Own(t), PY |-> Own(t)]
        BY <2>1 DEF TypeOK, Gases
      <3> QED
        BY <1>1, <3>1, <3>2, AllLocked DEF Read
    <2>3. cache \in [Threads -> [Points -> [1..Len(work) -> Gases]]]
      BY DEF TypeOK
    <2>4. CASE s = t /\ q = point[t] /\ i = call[t]
      BY <2>1, <2>2, <2>3, <2>4 DEF Own
    <2>5. CASE ~(s = t /\ q = point[t] /\ i = call[t])
      <3>1. Evaluated(s, q, i)
        BY <1>1, <2>5 DEF Read, Evaluated, TypeOK
      <3>2. cache'[s][q][i] = cache[s][q][i]
        BY <2>1, <2>2, <2>3, <2>5
      <3> QED
        BY <1>0, <3>1, <3>2
    <2> QED
      BY <2>4, <2>5
  <1>2. ASSUME NEW t \in Threads, Unlock(t)
        PROVE  cache'[s][q][i] = [T |-> <<s, q>>, PY |-> <<s, q>>]
    <2>1. cache' = cache
      BY <1>2 DEF Unlock
    <2>2. Len(work) \in Nat /\ call[t] \in 1..Len(work) /\ point[t] \in Points
          /\ point[s] \in Points /\ call[s] \in 1..Len(work)
      BY WorkloadType DEF TypeOK
    <2>3. Evaluated(s, q, i)
      <3>1. CASE s # t
        BY <1>2, <3>1 DEF Unlock, Evaluated, TypeOK
      <3>2. CASE s = t /\ AnotherCall(t)
        BY <1>2, <2>2, <3>2 DEF Unlock, Evaluated, TypeOK
      <3>3. CASE s = t /\ ~AnotherCall(t) /\ point[t] < NQPoints
        BY <1>2, <2>2, <3>3 DEF Unlock, Evaluated, TypeOK, AnotherCall
      <3>4. CASE s = t /\ ~AnotherCall(t) /\ point[t] = NQPoints
        BY <1>2, <2>2, <3>4 DEF Unlock, Evaluated, TypeOK, AnotherCall
      <3> QED
        BY <1>2, <3>1, <3>2, <3>3, <3>4 DEF Unlock
    <2> QED
      BY <1>0, <2>1, <2>3
  <1>3. ASSUME NEW t \in Threads,
               Lock(t) \/ SetTemperature(t) \/ SetComposition(t) \/ Fail(t)
        PROVE  cache'[s][q][i] = [T |-> <<s, q>>, PY |-> <<s, q>>]
    <2>1. Evaluated(s, q, i) /\ cache' = cache
      BY <1>3 DEF Lock, SetTemperature, SetComposition, Fail, Evaluated, TypeOK
    <2> QED
      BY <1>0, <2>1
  <1>4. CASE UNCHANGED vars
    BY <1>0, <1>4 DEF vars, Evaluated
  <1> QED
    BY <1>1, <1>2, <1>3, <1>4 DEF Next, Thread, AllFinished

LEMMA InvariantInit == Init /\ OneFile(work) => IInv
  <1> SUFFICES ASSUME Init, OneFile(work) PROVE IInv
    OBVIOUS
  <1>1. TypeOK
    BY TypeInit
  <1>2. HoldsMutex /\ GasPlace
    BY DEF Init, HoldsMutex, GasPlace, Inside
  <1>3. ResultsAreOwn
    BY <1>1 DEF Init, ResultsAreOwn, Evaluated, TypeOK
  <1> QED
    BY <1>1, <1>2, <1>3 DEF IInv

LEMMA InvariantNext == IInv /\ [Next]_vars => IInv'
  <1> SUFFICES ASSUME IInv, [Next]_vars PROVE IInv'
    OBVIOUS
  <1>1. TypeOK'
    BY TypeNext DEF IInv
  <1>2. HoldsMutex'
    BY <1>1, HoldsMutexNext DEF IInv
  <1>3. OneFile(work)'
    BY DEF IInv, OneFile, Next, Thread, AllFinished, vars, Lock,
           SetTemperature, SetComposition, Read, Unlock, Fail
  <1>4. GasPlace'
    BY GasPlaceNext DEF IInv
  <1>5. ResultsAreOwn'
    BY ResultsNext DEF IInv
  <1> QED
    BY <1>1, <1>2, <1>3, <1>4, <1>5 DEF IInv

\* When all calls of a run lock the mutex of one source file, every thread
\* gets the properties of its own state, whatever the other threads do.
THEOREM OneFileResultsAreOwn == Spec /\ OneFile(work) => []ResultsAreOwn
  <1>1. IInv => ResultsAreOwn
    BY DEF IInv
  <1> QED
    BY <1>1, InvariantInit, InvariantNext, PTL DEF Spec
--------------------------------------------------------------------------
(* The mutexes, whatever the workload: each keeps the calls of its file    *)
(* apart, some thread can always go on, and each step of a thread brings   *)
(* its end nearer.                                                         *)

\* Thread t is inside a call under the mutex of file u.
InsideFile(t, u) == Inside(t) /\ Locked(Current(t)) /\ Unit(Current(t)) = u

\* A mutex is held by the thread that is inside a call of its file, and only
\* then.
HeldInside ==
  \A u \in Units, t \in Threads : mutex[u] = t <=> InsideFile(t, u)

\* Every step keeps it: only taking and releasing a mutex change who is
\* inside, and a call that throws releases what it took.
LEMMA HeldInsideNext ==
  ASSUME TypeOK, HeldInside, [Next]_vars
  PROVE  HeldInside'
  <1> SUFFICES ASSUME NEW u \in Units, NEW s \in Threads
               PROVE  mutex'[u] = s <=> InsideFile(s, u)'
    BY DEF HeldInside
  <1>0. /\ mutex[u] = s <=> InsideFile(s, u)
        /\ mutex \in [Units -> Threads \union {Free}]
        /\ s # Free
    BY DEF HeldInside, TypeOK
  <1>1. ASSUME NEW t \in Threads, Lock(t)
        PROVE  mutex'[u] = s <=> InsideFile(s, u)'
    <2>1. /\ \A r \in Threads : Current(r)' = Current(r)
          /\ ~Inside(t) /\ Inside(t)'
          /\ s # t => (Inside(s)' <=> Inside(s))
      BY <1>1 DEF Lock, Current, Inside, TypeOK
    <2>2. CASE s = t
      BY <1>0, <1>1, <2>1, <2>2, OwnType DEF Lock, InsideFile
    <2>3. CASE s # t
      BY <1>0, <1>1, <2>1, <2>3, OwnType DEF Lock, InsideFile
    <2> QED
      BY <2>2, <2>3
  <1>2. ASSUME NEW t \in Threads,
               SetTemperature(t) \/ SetComposition(t) \/ Read(t)
        PROVE  mutex'[u] = s <=> InsideFile(s, u)'
    <2>1. Current(s)' = Current(s) /\ mutex' = mutex
          /\ (Inside(s)' <=> Inside(s))
      BY <1>2 DEF SetTemperature, SetComposition, Read, Inside, Current, TypeOK
    <2> QED
      BY <1>0, <2>1 DEF InsideFile
  <1>3. ASSUME NEW t \in Threads, Unlock(t) \/ Fail(t)
        PROVE  mutex'[u] = s <=> InsideFile(s, u)'
    <2>1. Released(t) /\ Inside(t) /\ ~Inside(t)'
      BY <1>3 DEF Unlock, Fail, ReleasedOnError, Inside, TypeOK
    <2>2. s # t => Current(s)' = Current(s) /\ (Inside(s)' <=> Inside(s))
      BY <1>3 DEF Unlock, Fail, Inside, Current, TypeOK
    <2>3. Locked(Current(t)) => mutex[Unit(Current(t))] = t
      BY <2>1, OwnType DEF HeldInside, InsideFile
    <2>4. CASE s = t
      <3>1. Locked(Current(t)) /\ Unit(Current(t)) = u => mutex'[u] = Free
        BY <1>0, <2>1 DEF Released
      <3>2. ~(Locked(Current(t)) /\ Unit(Current(t)) = u) => mutex'[u] # t
        BY <1>0, <2>1, <2>4, OwnType DEF Released, InsideFile
      <3> QED
        BY <1>0, <2>1, <2>4, <3>1, <3>2 DEF InsideFile
    <2>5. CASE s # t
      <3>1. mutex'[u] = s <=> mutex[u] = s
        BY <1>0, <2>1, <2>3, <2>5, OwnType DEF Released
      <3> QED
        BY <1>0, <2>2, <2>5, <3>1 DEF InsideFile
    <2> QED
      BY <2>4, <2>5
  <1>4. CASE UNCHANGED vars
    BY <1>0, <1>4 DEF vars, InsideFile, Inside, Current
  <1> QED
    BY <1>1, <1>2, <1>3, <1>4 DEF Next, Thread, AllFinished

\* HeldInside in every reachable state, for every workload.
LEMMA HeldInsideAlways == Spec => []HeldInside
  <1>1. Init => HeldInside
    BY DEF Init, HeldInside, InsideFile, Inside
  <1> QED
    BY <1>1, HeldInsideNext, TypeCorrect, PTL DEF Spec

\* For every workload: of the locked calls of one source file only one is
\* under way at a time, also after calls that threw.
THEOREM FilesExclude ==
  Spec => [](\A u \in Units, s, t \in Threads :
               InsideFile(s, u) /\ InsideFile(t, u) => s = t)
  <1>1. HeldInside => \A u \in Units, s, t \in Threads :
                        InsideFile(s, u) /\ InsideFile(t, u) => s = t
    BY DEF HeldInside
  <1> QED
    BY <1>1, HeldInsideAlways, PTL

\* A thread that has not finished goes on unless it wants a mutex another
\* thread holds.
GoesOn(t) ==
  /\ pc[t] \notin {"done", "failed"}
  /\ pc[t] = "lock" /\ Locked(Current(t)) => mutex[Unit(Current(t))] = Free

\* No deadlock, for every workload: while a thread has not finished some
\* thread goes on.  A call holds one mutex and waits for none inside.
THEOREM SomeThreadGoesOn == Spec => [](Finished \/ \E t \in Threads : GoesOn(t))
  <1>1. ASSUME TypeOK, HeldInside, ~Finished
        PROVE  \E t \in Threads : GoesOn(t)
    <2>1. PICK t \in Threads : pc[t] \notin {"done", "failed"}
      BY <1>1 DEF Finished
    <2>2. CASE GoesOn(t)
      BY <2>2
    <2>3. CASE ~GoesOn(t)
      <3> DEFINE u == Unit(Current(t))
      <3>1. u \in Units /\ mutex[u] # Free
        BY <1>1, <2>1, <2>3, OwnType DEF GoesOn
      <3>2. mutex[u] \in Threads
        BY <1>1, <3>1 DEF TypeOK
      <3>3. Inside(mutex[u])
        BY <1>1, <3>1, <3>2 DEF HeldInside, InsideFile
      <3> QED
        BY <3>2, <3>3 DEF GoesOn, Inside
    <2> QED
      BY <2>2, <2>3
  <1> QED
    BY <1>1, TypeCorrect, HeldInsideAlways, PTL

\* The statements a thread has yet to execute: those of the points and calls
\* not begun and the rest of the current call.
Rest == [lock |-> 5, temperature |-> 4, composition |-> 3, read |-> 2,
         unlock |-> 1, done |-> 0, failed |-> 0]
CallsLeft(t) == (NQPoints - point[t]) * Len(work) + (Len(work) - call[t])
StatementsOf(t) == 5 * CallsLeft(t) + Rest[pc[t]]

\* The product that counts the calls of the points not begun.
LEMMA OnePointLess ==
  ASSUME NEW n \in Nat, NEW l \in Nat
  PROVE  n * l \in Nat /\ (n + 1) * l = n * l + l
  OBVIOUS

\* The counts are natural numbers.
LEMMA StatementsAreCounted ==
  TypeOK => \A t \in Threads : CallsLeft(t) \in Nat /\ StatementsOf(t) \in Nat
  <1> SUFFICES ASSUME TypeOK, NEW t \in Threads
               PROVE  CallsLeft(t) \in Nat /\ StatementsOf(t) \in Nat
    OBVIOUS
  <1>1. NQPoints - point[t] \in Nat /\ Len(work) - call[t] \in Nat
    BY WorkloadType DEF TypeOK
  <1>2. CallsLeft(t) \in Nat
    BY <1>1, WorkloadType, OnePointLess DEF CallsLeft
  <1>3. Rest[pc[t]] \in Nat
    BY DEF TypeOK, Rest
  <1> QED
    BY <1>2, <1>3 DEF StatementsOf

\* A step of a thread brings its own end nearer and leaves the others where
\* they are.
LEMMA ThreadComesNearer ==
  ASSUME TypeOK, NEW t \in Threads, Thread(t)
  PROVE  /\ StatementsOf(t)' < StatementsOf(t)
         /\ \A s \in Threads \ {t} : StatementsOf(s)' = StatementsOf(s)
  <1>0. /\ Len(work) \in Nat /\ NQPoints \in Nat
        /\ point[t] \in 1..NQPoints /\ call[t] \in 1..Len(work)
        /\ pc[t] \in Labels /\ CallsLeft(t) \in Nat
    BY WorkloadType, StatementsAreCounted DEF TypeOK
  <1>1. \A s \in Threads \ {t} : StatementsOf(s)' = StatementsOf(s)
    BY DEF Thread, Lock, SetTemperature, SetComposition, Read, Unlock, Fail,
           TypeOK, StatementsOf, CallsLeft
  <1> SUFFICES StatementsOf(t)' < StatementsOf(t)
    BY <1>1
  <1>2. ASSUME UNCHANGED <<work, point, call>>, pc'[t] \in Labels,
               Rest[pc'[t]] < Rest[pc[t]]
        PROVE  StatementsOf(t)' < StatementsOf(t)
    <2>1. Rest[pc[t]] \in Nat /\ Rest[pc'[t]] \in Nat
      BY <1>0, <1>2 DEF Rest
    <2>2. CallsLeft(t)' = CallsLeft(t)
      BY <1>2 DEF CallsLeft
    <2> QED
      BY <1>0, <1>2, <2>1, <2>2 DEF StatementsOf
  <1>3. CASE Lock(t) \/ SetTemperature(t) \/ SetComposition(t) \/ Read(t)
             \/ Fail(t)
    BY <1>2, <1>3 DEF Lock, SetTemperature, SetComposition, Read, Fail, TypeOK,
       Rest
  <1>4. CASE Unlock(t)
    <2>1. pc[t] = "unlock" /\ work' = work
      BY <1>4 DEF Unlock
    <2>2. ASSUME CallsLeft(t)' = CallsLeft(t) - 1, pc'[t] = "lock"
          PROVE  StatementsOf(t)' < StatementsOf(t)
      BY <1>0, <2>1, <2>2 DEF StatementsOf, Rest
    <2>3. CASE AnotherCall(t)
      <3>1. /\ pc'[t] = "lock" /\ call'[t] = call[t] + 1
            /\ point'[t] = point[t]
        BY <1>4, <2>3 DEF Unlock, TypeOK
      <3>2. CallsLeft(t)' = CallsLeft(t) - 1
        BY <1>0, <2>1, <3>1, OnePointLess DEF CallsLeft
      <3> QED
        BY <2>2, <3>1, <3>2
    <2>4. CASE ~AnotherCall(t) /\ point[t] < NQPoints
      <3>1. /\ pc'[t] = "lock" /\ call'[t] = 1
            /\ point'[t] = point[t] + 1 /\ call[t] = Len(work)
        BY <1>0, <1>4, <2>4 DEF Unlock, TypeOK, AnotherCall
      <3> DEFINE n == NQPoints - (point[t] + 1)
                 begun == n * Len(work)
      <3>2. n \in Nat /\ NQPoints - point[t] = n + 1
        BY <1>0, <2>4
      <3>3. CallsLeft(t)' = begun + (Len(work) - 1)
        BY <2>1, <3>1 DEF CallsLeft
      <3>4. CallsLeft(t) = (n + 1) * Len(work) + (Len(work) - Len(work))
        BY <3>1, <3>2 DEF CallsLeft
      <3> HIDE DEF n
      <3>5. (n + 1) * Len(work) = begun + Len(work) /\ begun \in Nat
        BY <1>0, <3>2, OnePointLess
      <3> HIDE DEF begun
      <3>6. CallsLeft(t)' = CallsLeft(t) - 1
        BY <1>0, <3>3, <3>4, <3>5
      <3> QED
        BY <2>2, <3>1, <3>6
    <2>5. CASE ~AnotherCall(t) /\ point[t] = NQPoints
      BY <1>2, <1>4, <2>1, <2>5 DEF Unlock, TypeOK, Rest
    <2> QED
      BY <1>0, <2>3, <2>4, <2>5
  <1> QED
    BY <1>3, <1>4 DEF Thread

\* Every step is a step of one thread that brings its end nearer, for every
\* workload: with SomeThreadGoesOn, no thread is kept from finishing for ever.
THEOREM EndComesNearer ==
  Spec => [][\E t \in Threads :
               /\ StatementsOf(t) \in Nat
               /\ StatementsOf(t)' < StatementsOf(t)
               /\ \A s \in Threads \ {t} :
                    StatementsOf(s)' = StatementsOf(s)]_vars
  <1>1. TypeOK /\ [Next]_vars =>
          [\E t \in Threads :
             /\ StatementsOf(t) \in Nat
             /\ StatementsOf(t)' < StatementsOf(t)
             /\ \A s \in Threads \ {t} :
                  StatementsOf(s)' = StatementsOf(s)]_vars
    BY ThreadComesNearer, StatementsAreCounted DEF Next, AllFinished
  <1> QED
    BY <1>1, TypeCorrect, PTL DEF Spec
=============================================================================
