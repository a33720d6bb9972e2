--------------------------- MODULE CanteraLocking ---------------------------
(***************************************************************************)
(* The evaluation of gas properties through Cantera by several assembly    *)
(* threads.  All threads share the one Cantera::IdealGasMix that the       *)
(* CanteraMixture owns; every call puts its thermodynamic state into that  *)
(* object and then reads the property from it.  The calls hold a spin      *)
(* mutex meanwhile, but cantera_mutex is a static in an unnamed namespace  *)
(* of a header: each source file that includes it has a mutex of its own.  *)
(*                                                                         *)
(* A thread evaluates the calls of its workload at each quadrature point   *)
(* of an element.  A thermodynamic state is named by the thread and the    *)
(* quadrature point it belongs to.                                         *)
(***************************************************************************)
EXTENDS Integers, Sequences

CONSTANTS
  Threads,   \* the assembly threads
  NQPoints,  \* quadrature points of an element
  Workloads, \* sequences of calls that a quadrature point may need
  Free       \* the holder of a mutex that nobody holds

Calls == {"mu", "k", "D", "cp", "cv", "h_s", "h_species", "h_T",
          "omega_dot", "omega_dot_TRY"}

ASSUME NQPointsAssumption == NQPoints \in Nat \ {0}
ASSUME WorkloadsAssumption == Workloads \subseteq Seq(Calls) \ {<<>>}
ASSUME FreeAssumption == Free \notin Threads

\* The source file that defines a call, hence the mutex it locks.
Units == {"cantera_transport.C", "cantera_thermo.C", "cantera_kinetics.C"}
Unit(c) == IF c \in {"mu", "k", "D"} THEN "cantera_transport.C"
           ELSE IF c \in {"omega_dot", "omega_dot_TRY"}
                THEN "cantera_kinetics.C" ELSE "cantera_thermo.C"

\* h(T,species) takes no lock; the mutant forgets the one of mu as well.
LockedButMu(c) == c \notin {"h_T", "mu"}
Locked(c) == c # "h_T"

\* h(T,species) sets and needs the temperature only.
TemperatureOnly(c) == c = "h_T"

VARIABLES
  work,   \* the workload of this run
  pc,     \* the next statement of each thread's call
  point,  \* the quadrature point each thread is at
  call,   \* the index in work of the call each thread is in
  mutex,  \* the holder of each file's cantera_mutex
  gas,    \* the shared IdealGasMix: whose temperature, whose composition
  cache   \* what each thread stored: [point][call] -> the state it is of

vars == <<work, pc, point, call, mutex, gas, cache>>

Points == 1..NQPoints
States == (Threads \X Points) \union {<<Free, 0>>}
Gases == [T: States, PY: States]
Initially == [T |-> <<Free, 0>>, PY |-> <<Free, 0>>]

Own(t) == <<t, point[t]>>
Current(t) == work[call[t]]

\* The calls of compute_element_time_derivative_cache at a point.
ElementCalls == <<"mu", "k", "cp", "h_s", "D", "omega_dot">>

Init ==
  /\ work \in Workloads
  /\ pc = [t \in Threads |-> "lock"]
  /\ point = [t \in Threads |-> 1]
  /\ call = [t \in Threads |-> 1]
  /\ mutex = [u \in Units |-> Free]
  /\ gas = Initially
  /\ cache = [t \in Threads |->
               [q \in Points |-> [i \in 1..Len(work) |-> Initially]]]

Goto(t, from, to) == pc[t] = from /\ pc' = [pc EXCEPT ![t] = to]

\* scoped_lock lock(cantera_mutex): spins until the file's mutex is free.
Lock(t) ==
  /\ Goto(t, "lock", "temperature")
  /\ IF Locked(Current(t))
     THEN /\ mutex[Unit(Current(t))] = Free
          /\ mutex' = [mutex EXCEPT ![Unit(Current(t))] = t]
     ELSE UNCHANGED mutex
  /\ UNCHANGED <<work, point, call, gas, cache>>

\* setState_TPY, setState_TRY or setTemperature: writes of several words,
\* which a thread without the same mutex can see half done.
SetTemperature(t) ==
  /\ Goto(t, "temperature",
          IF TemperatureOnly(Current(t)) THEN "read" ELSE "composition")
  /\ gas' = [gas EXCEPT !.T = Own(t)]
  /\ UNCHANGED <<work, point, call, mutex, cache>>

SetComposition(t) ==
  /\ Goto(t, "composition", "read")
  /\ gas' = [gas EXCEPT !.PY = Own(t)]
  /\ UNCHANGED <<work, point, call, mutex, cache>>

\* cp_mass(), viscosity(), getNetProductionRates(), ... of the gas as it is.
Read(t) ==
  /\ Goto(t, "read", "unlock")
  /\ cache' = [cache EXCEPT ![t][point[t]][call[t]] =
       [gas EXCEPT !.PY = IF TemperatureOnly(Current(t)) THEN Own(t) ELSE @]]
  /\ UNCHANGED <<work, point, call, mutex, gas>>

\* The end of the scope of the lock.
Released(t) ==
  mutex' = IF Locked(Current(t))
           THEN [mutex EXCEPT ![Unit(Current(t))] = Free] ELSE mutex

\* The next call at this point; the mutant runs past the last one.
AnotherCallTooMany(t) == call[t] <= Len(work)
AnotherCall(t) == call[t] < Len(work)

Unlock(t) ==
  /\ pc[t] = "unlock"
  /\ Released(t)
  /\ \/ /\ AnotherCall(t)
        /\ call' = [call EXCEPT ![t] = @ + 1]
        /\ pc' = [pc EXCEPT ![t] = "lock"]
        /\ UNCHANGED point
     \/ /\ ~AnotherCall(t)
        /\ point[t] < NQPoints
        /\ call' = [call EXCEPT ![t] = 1]
        /\ point' = [point EXCEPT ![t] = @ + 1]
        /\ pc' = [pc EXCEPT ![t] = "lock"]
     \/ /\ ~AnotherCall(t)
        /\ point[t] = NQPoints
        /\ pc' = [pc EXCEPT ![t] = "done"]
        /\ UNCHANGED <<point, call>>
  /\ UNCHANGED <<work, gas, cache>>

\* Cantera throws, libmesh_error() throws on, and the scoped lock goes with
\* the stack; the mutant leaves it locked.
LeftLocked(t) == UNCHANGED mutex
ReleasedOnError(t) == Released(t)

Fail(t) ==
  /\ pc[t] \in {"temperature", "composition", "read"}
  /\ pc' = [pc EXCEPT ![t] = "failed"]
  /\ ReleasedOnError(t)
  /\ UNCHANGED <<work, point, call, gas, cache>>

Thread(t) == Lock(t) \/ SetTemperature(t) \/ SetComposition(t) \/ Read(t)
             \/ Unlock(t) \/ Fail(t)

Finished == \A t \in Threads : pc[t] \in {"done", "failed"}
AllFinished == Finished /\ UNCHANGED vars

Next == (\E t \in Threads : Thread(t)) \/ AllFinished

Spec == Init /\ [][Next]_vars
FairSpec == Spec /\ \A t \in Threads : WF_vars(Thread(t))

(***************************************************************************)
(* Properties.                                                             *)
(***************************************************************************)

Labels == {"lock", "temperature", "composition", "read", "unlock", "done",
           "failed"}

\* The type invariant of the threads, the mutexes and the shared gas.
TypeOK ==
  /\ work \in Workloads
  /\ pc \in [Threads -> Labels]
  /\ point \in [Threads -> Points]
  /\ call \in [Threads -> 1..Len(work)]
  /\ mutex \in [Units -> Threads \union {Free}]
  /\ gas \in Gases
  /\ cache \in [Threads -> [Points -> [1..Len(work) -> Gases]]]

\* Thread t is past its i-th call at point q.
Evaluated(t, q, i) ==
  \/ q < point[t]
  \/ q = point[t] /\ i < call[t]
  \/ q = point[t] /\ i = call[t] /\ pc[t] \in {"unlock", "done"}

\* Whatever the other threads do meanwhile, each property a thread stores
\* was computed at that thread's own temperature and composition.
ResultsAreOwn ==
  \A t \in Threads : \A q \in Points : \A i \in 1..Len(work) :
    Evaluated(t, q, i) => cache[t][q][i] = [T |-> <<t, q>>, PY |-> <<t, q>>]

\* No thread waits for ever for a mutex, one that a failing call held
\* included.
AllThreadsFinish == <>Finished
=============================================================================
