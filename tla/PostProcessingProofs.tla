------------------------ MODULE PostProcessingProofs ------------------------
(***************************************************************************)
(* Proofs about PostProcessing: the type invariant for every request, and  *)
(* for the requests whose quantities the physics can compute, that every   *)
(* field holds the quantity that was asked for.                            *)
(***************************************************************************)
EXTENDS PostProcessing, TLAPS

(***************************************************************************)
(* The tables.                                                             *)
(***************************************************************************)

\* The physics are listed once each.
LEMMA OrderInjective ==
  /\ DOMAIN PhysicsOrder = 1..8
  /\ \A i, j \in 1..8 : PhysicsOrder[i] = PhysicsOrder[j] => i = j
BY DEF PhysicsOrder

\* Every physics is somewhere in the list.
LEMMA InOrder ==
  /\ \A p \in PhysicsNames : \E j \in 1..8 : PhysicsOrder[j] = p
  /\ \A j \in 1..8 : PhysicsOrder[j] \in PhysicsNames
BY OrderInjective DEF PhysicsNames, Range

\* The members of the membrane's index vectors.
StressNames == {"stress_xx", "stress_xy", "stress_yy", "sigma_max",
                "sigma_1", "sigma_2", "sigma_3"}
StrainNames == {"strain_xx", "strain_xy", "strain_yy"}

LEMMA StressesListed == Stresses = StressNames \union StrainNames
<1>1. Range(MembraneOffers.stress) = StressNames
  BY DEF Range, MembraneOffers, StressNames
<1>2. Range(MembraneOffers.strain) = StrainNames
  BY DEF Range, MembraneOffers, StrainNames
<1> QED BY <1>1, <1>2 DEF Stresses

\* What the membrane registers.
LEMMA MembraneRegisters ==
  Registered("ElasticMembrane") = Stresses \union {"stress_zz"}
<1>1. Offers["ElasticMembrane"] = MembraneOffers
  BY DEF Offers
<1>2. DOMAIN MembraneOffers = {"stress", "stress_zz", "strain"}
  BY DEF MembraneOffers
<1>3. Range(MembraneOffers["stress_zz"]) = {"stress_zz"}
  BY DEF Range, MembraneOffers
<1>4. Registered("ElasticMembrane")
      = UNION {Range(MembraneOffers[o]) : o \in {"stress", "stress_zz", "strain"}}
  BY <1>1, <1>2 DEF Registered
<1> QED BY <1>3, <1>4 DEF Stresses

LEMMA MembraneIsPhysics == "ElasticMembrane" \in PhysicsNames
<1>1. PhysicsOrder[2] = "ElasticMembrane"
  BY DEF PhysicsOrder
<1> QED BY <1>1, InOrder

LEMMA ComputesQuantities ==
  \A p \in PhysicsNames : Registered(p) \subseteq Quantities
BY DEF Quantities

LEMMA ComputesRegistered ==
  \A p \in PhysicsNames : Computes[p] \subseteq Quantities
BY DEF Quantities

\* The membrane's vectors start empty.
LEMMA StressesStartEmpty ==
  \A r : \A n \in Stresses : InitialIndex(r, "ElasticMembrane", n) = Empty
<1>1. \A n \in Stresses : n # "stress_zz"
  BY StressesListed DEF StressNames, StrainNames
<1>2. \A n \in Stresses : Call("ElasticMembrane", n) # Uninitialised
  BY <1>1 DEF Call, Uninitialised
<1>3. \A n \in Stresses : Call("ElasticMembrane", n) \in KeptInVectors
  BY MembraneRegisters DEF KeptInVectors
<1> QED BY <1>2, <1>3 DEF InitialIndex

(***************************************************************************)
(* Types.                                                                  *)
(***************************************************************************)

Contexts == [elem: Elements \union {NoElem}, level: Levels]

USE MaxLevelAssumption, RequestsAssumption, ElementsAssumption

\* What an input file holds.
LEMMA RequestFacts ==
  ASSUME request \in Requests
  PROVE  /\ request \in RequestType
         /\ calls \in Seq([physics: PhysicsNames,
                           name: Quantities \union {Invalid}])
         /\ nCalls \in Nat
         /\ DOMAIN calls = 1..nCalls
         /\ \A i \in 1..nCalls :
              /\ calls[i].physics \in PhysicsNames
              /\ calls[i].name \in Quantities \union {Invalid}
              /\ calls[i] = Call(calls[i].physics, calls[i].name)
         /\ request.garbage \in Nat
         /\ request.enabled \in [PhysicsNames -> SUBSET Elements]
<1>1. request \in RequestType
  OBVIOUS
<1>2. /\ calls \in Seq([physics: PhysicsNames,
                        name: Quantities \union {Invalid}])
      /\ request.garbage \in Nat
      /\ request.enabled \in [PhysicsNames -> SUBSET Elements]
  BY <1>1 DEF RequestType, calls
<1> DEFINE C == [physics: PhysicsNames, name: Quantities \union {Invalid}]
<1>3. calls \in Seq(C)
  BY <1>2
<1> HIDE DEF C
<1>4. /\ nCalls \in Nat /\ DOMAIN calls = 1..nCalls
      /\ \A i \in 1..nCalls : calls[i] \in C
  BY <1>3 DEF nCalls
<1>5. \A c \in C : /\ c.physics \in PhysicsNames
                   /\ c.name \in Quantities \union {Invalid}
                   /\ c = Call(c.physics, c.name)
  BY DEF C, Call
<1> QED BY <1>1, <1>2, <1>4, <1>5

\* Of the physics that write a value one is the last.
LEMMA LastWriter ==
  ASSUME NEW S \in SUBSET (1..8), S # {}
  PROVE  \E j \in S : \A i \in S : i <= j
<1> SUFFICES ASSUME \A j \in S : \E i \in S : j < i
             PROVE  FALSE
  <2>1. \A i, j \in S : i \in Int /\ j \in Int
    OBVIOUS
  <2> QED BY <2>1
<1>0. \A i \in S : i \in Int /\ 1 <= i /\ i <= 8
  OBVIOUS
<1>8. 8 \notin S BY <1>0
<1>7. 7 \notin S BY <1>0, <1>8
<1>6. 6 \notin S BY <1>0, <1>7, <1>8
<1>5. 5 \notin S BY <1>0, <1>6, <1>7, <1>8
<1>4. 4 \notin S BY <1>0, <1>5, <1>6, <1>7, <1>8
<1>3. 3 \notin S BY <1>0, <1>4, <1>5, <1>6, <1>7, <1>8
<1>2. 2 \notin S BY <1>0, <1>3, <1>4, <1>5, <1>6, <1>7, <1>8
<1>1. 1 \notin S BY <1>0, <1>2, <1>3, <1>4, <1>5, <1>6, <1>7, <1>8
<1>9. PICK e \in S : TRUE
  OBVIOUS
<1>10. e \in 1..8
  OBVIOUS
<1>11. e = 1 \/ e = 2 \/ e = 3 \/ e = 4 \/ e = 5 \/ e = 6 \/ e = 7 \/ e = 8
  BY <1>10
<1> QED BY <1>1, <1>2, <1>3, <1>4, <1>5, <1>6, <1>7, <1>8, <1>9, <1>11

\* compute_postprocessed_quantity returns a value of one of the physics that
\* have something to say of the index, or zero.
LEMMA ValueType ==
  ASSUME NEW q, NEW ctx \in Contexts
  PROVE  Value(q, ctx) \in Values
<1> DEFINE W == Writers(q, ctx)
           j == CHOOSE j \in W : \A i \in W : i <= j
<1>1. CASE W = {}
  <2>1. Zero \in Values
    BY DEF Zero, Values, Levels
  <2> QED BY <1>1, <2>1 DEF Value
<1>2. CASE W # {}
  <2>1. W \subseteq 1..8
    BY OrderInjective DEF Writers
  <2>2. j \in W
    <3>1. \E i \in W : \A k \in W : k <= i
      BY <1>2, <2>1, LastWriter
    <3> QED BY <3>1
  <2> DEFINE p == PhysicsOrder[j]
             n == CHOOSE n \in Matches(p, q) : TRUE
  <2>3. p \in PhysicsNames
    BY <2>1, <2>2, InOrder
  <2>4. Matches(p, q) # {}
    BY <2>2 DEF Writers
  <2>5. n \in Matches(p, q)
    BY <2>4
  <2>6. n \in Quantities
    BY <2>3, <2>5, ComputesRegistered DEF Matches
  <2>7. Value(q, ctx) = [by |-> p, name |-> n, elem |-> ctx.elem,
                         level |-> ctx.level]
    BY <1>2 DEF Value
  <2>8. ctx.elem \in Elements \union {NoElem} /\ ctx.level \in Levels
    BY DEF Contexts
  <2> HIDE DEF p, n
  <2> QED BY <2>3, <2>6, <2>7, <2>8 DEF Values
<1> QED BY <1>1, <1>2

LEMMA TypeInit == Init => TypeOK
<1> SUFFICES ASSUME Init PROVE TypeOK
  OBVIOUS
<1>1. request \in Requests
  BY DEF Init
<1>2. nCalls \in Nat /\ request.garbage \in Nat
  BY <1>1, RequestFacts
<1>3. \A p, n : InitialIndex(request, p, n) \in Nat \union {Empty}
  BY <1>2 DEF InitialIndex
<1>4. cached \in [PhysicsNames -> [Quantities -> Nat \union {Empty}]]
  BY <1>3 DEF Init
<1>5. Idle \in ThreadStates /\ Zero \in Values
      /\ Blank \in [elem: Elements \union {NoElem}, level: Levels]
  BY DEF Idle, ThreadStates, Zero, Values, Levels, Blank
<1>6. field \in [Quantities -> [Elements -> Values]]
  BY <1>5 DEF Init
<1> QED BY <1>1, <1>2, <1>4, <1>5, <1>6 DEF Init, TypeOK, Levels, Never

\* The names registered so far are offered, and differ.
Registry ==
  /\ \A i \in 1..size : calls[i].name # Invalid
  /\ \A i, j \in 1..size : calls[i].name = calls[j].name => i = j

\* Only register_quantity touches what is registered.
LEMMA OthersKeepRegistry ==
  ASSUME [Next]_vars, ~RegisterQuantity
  PROVE  UNCHANGED <<request, size, cached>>
<1>1. CASE \E t \in Threads : Step(t)
  BY <1>1 DEF Step, StartRange, Reinit, Evaluate
<1> QED
  BY <1>1 DEF Next, vars, Initialize, Advance, UpdateQuantities, EndUpdate

LEMMA RegisterFacts ==
  ASSUME TypeOK, RegisterQuantity
  PROVE  /\ size + 1 \in 1..nCalls /\ size \in Nat /\ nCalls \in Nat
         /\ calls' = calls /\ nCalls' = nCalls
         /\ calls[size + 1].physics \in PhysicsNames
         /\ calls[size + 1].name \in Quantities \union {Invalid}
         /\ UNCHANGED <<request, variables, level, todo, thread, contexts,
                        field, updated>>
         /\ \/ pc' = "error" /\ UNCHANGED <<size, cached>>
            \/ /\ ~Refuses(calls[size + 1])
               /\ pc' = pc /\ pc = "register" /\ size' = size + 1
               /\ cached' = [cached EXCEPT ![calls[size + 1].physics] =
                     [@ EXCEPT ![calls[size + 1].name] = NewIndex(size)]]
<1>1. nCalls \in Nat /\ request \in Requests /\ size \in 0..nCalls
  BY RequestFacts DEF TypeOK
<1>2. size + 1 \in 1..nCalls /\ size \in Nat
  BY <1>1 DEF RegisterQuantity
<1>3. calls' = calls /\ nCalls' = nCalls
  BY DEF RegisterQuantity, calls, nCalls
<1>4. /\ calls[size + 1].physics \in PhysicsNames
      /\ calls[size + 1].name \in Quantities \union {Invalid}
  BY <1>1, <1>2, RequestFacts
<1> QED BY <1>1, <1>2, <1>3, <1>4 DEF RegisterQuantity, Projection

LEMMA RegistryNext == TypeOK /\ Registry /\ [Next]_vars => Registry'
<1> SUFFICES ASSUME TypeOK, Registry, [Next]_vars PROVE Registry'
  OBVIOUS
<1>1. CASE RegisterQuantity
  <2>1. CASE UNCHANGED <<size, cached>>
    BY <1>1, <2>1, RegisterFacts DEF Registry
  <2>2. CASE ~Refuses(calls[size + 1]) /\ size' = size + 1
    <3>1. /\ calls[size + 1].name # Invalid
          /\ \A i \in 1..size : calls[i].name # calls[size + 1].name
      BY <2>2 DEF Refuses, RegisteredNames
    <3>2. \A i \in 1..(size + 1) : i \in 1..size \/ i = size + 1
      BY <1>1, RegisterFacts
    <3>3. calls' = calls
      BY <1>1, RegisterFacts
    <3> QED BY <2>2, <3>1, <3>2, <3>3 DEF Registry
  <2> QED BY <1>1, <2>1, <2>2, RegisterFacts
<1>2. CASE ~RegisterQuantity
  BY <1>2, OthersKeepRegistry DEF Registry, calls
<1> QED BY <1>1, <1>2

\* A thread in a range uses the context it made.
UsesOwn == \A t \in Threads : thread[t].at # "idle" => thread[t].context = t

LEMMA UsesOwnNext == TypeOK /\ UsesOwn /\ [Next]_vars => UsesOwn'
<1> SUFFICES ASSUME TypeOK, UsesOwn, [Next]_vars PROVE UsesOwn'
  OBVIOUS
<1>0. \A t \in Threads : thread[t] \in ThreadStates
  BY DEF TypeOK
<1>1. ASSUME NEW t \in Threads, StartRange(t) PROVE UsesOwn'
  BY <1>0, <1>1 DEF StartRange, UsesOwn, TypeOK, OwnContext
<1>2. ASSUME NEW t \in Threads, Reinit(t) PROVE UsesOwn'
  BY <1>0, <1>2 DEF Reinit, Evaluating, UsesOwn, TypeOK, ThreadStates
<1>3. ASSUME NEW t \in Threads, Evaluate(t) PROVE UsesOwn'
  <2>1. CASE UNCHANGED thread
    BY <2>1 DEF UsesOwn
  <2>2. CASE thread' = [thread EXCEPT ![t] =
                   Evaluated(t)]
    BY <1>0, <1>3, <2>2
       DEF Evaluate, Evaluated, UsesOwn, TypeOK, Idle, ThreadStates
  <2> QED BY <1>3, <2>1, <2>2 DEF Evaluate
<1>4. CASE UNCHANGED thread
  BY <1>4 DEF UsesOwn
<1> QED BY <1>1, <1>2, <1>3, <1>4
        DEF Next, Step, vars, RegisterQuantity, Initialize, Advance,
            UpdateQuantities, EndUpdate, Projection

LEMMA TypeNext == TypeOK /\ Registry /\ UsesOwn /\ [Next]_vars => TypeOK'
<1> SUFFICES ASSUME TypeOK, Registry, UsesOwn, [Next]_vars PROVE TypeOK'
  OBVIOUS
<1>0. nCalls \in Nat /\ request \in Requests /\ size \in 0..nCalls
  BY RequestFacts DEF TypeOK
<1>1. CASE RegisterQuantity
  <2> DEFINE c == calls[size + 1]
  <2>1. CASE pc' = "error" /\ UNCHANGED <<size, cached>>
    BY <1>1, <2>1, RegisterFacts DEF TypeOK
  <2>2. CASE /\ ~Refuses(c)
             /\ pc' = pc /\ size' = size + 1
             /\ cached' = [cached EXCEPT ![c.physics] =
                             [@ EXCEPT ![c.name] = NewIndex(size)]]
    <3> DEFINE R == Nat \union {Empty}
    <3>1. NewIndex(size) \in R
      BY <1>0 DEF NewIndex
    <3>2. cached \in [PhysicsNames -> [Quantities -> R]]
      BY DEF TypeOK
    <3>3. c.physics \in PhysicsNames
      BY <1>1, RegisterFacts
    <3> HIDE DEF R, c
    <3>4. cached' \in [PhysicsNames -> [Quantities -> R]]
      BY <2>2, <3>1, <3>2, <3>3
    <3>5. cached' \in [PhysicsNames -> [Quantities -> Nat \union {Empty}]]
      BY <3>4 DEF R
    <3>6. size' \in 0..nCalls
      BY <1>1, <2>2, RegisterFacts
    <3> QED BY <1>1, <2>2, <3>5, <3>6, RegisterFacts DEF TypeOK
  <2> QED BY <1>1, <2>1, <2>2, RegisterFacts
<1>2. CASE ~RegisterQuantity
  <2> DEFINE Ctxs == [elem: Elements \union {NoElem}, level: Levels]
  <2>1. /\ UNCHANGED <<request, size, cached, calls, nCalls>>
    BY <1>2, OthersKeepRegistry DEF calls, nCalls
  <2>2. CASE Initialize
    <3>1. DOMAIN variables' \subseteq Quantities
      <4>1. DOMAIN variables' = RegisteredNames
        BY <2>2 DEF Initialize
      <4>2. \A i \in 1..size : calls[i].name \in Quantities
        BY <1>0, RequestFacts DEF Registry
      <4> QED BY <4>1, <4>2 DEF RegisteredNames
    <3> QED BY <2>1, <2>2, <3>1 DEF Initialize, Projection, TypeOK
  <2>3. CASE Advance
    <3>1. level' \in Levels
      BY <2>3 DEF Advance, TypeOK, Levels
    <3> QED BY <2>1, <2>3, <3>1 DEF Advance, Projection, TypeOK
  <2>4. CASE UpdateQuantities
    BY <2>1, <2>4 DEF UpdateQuantities, TypeOK
  <2>5. ASSUME NEW t \in Threads, StartRange(t) PROVE TypeOK'
    <3>1. PICK range \in SUBSET todo \ {{}} :
            /\ todo' = todo \ range
            /\ thread' = [thread EXCEPT ![t] =
                 [at |-> "next", range |-> range, elem |-> NoElem,
                  context |-> OwnContext(t)]]
      BY <2>5 DEF StartRange
    <3>2. [at |-> "next", range |-> range, elem |-> NoElem,
           context |-> OwnContext(t)] \in ThreadStates
      BY DEF ThreadStates, TypeOK, OwnContext
    <3>3. todo' \subseteq Elements
      BY <3>1 DEF TypeOK
    <3>4. thread' \in [Threads -> ThreadStates]
      BY <3>1, <3>2 DEF TypeOK
    <3>5. contexts' \in [Threads -> Ctxs]
      BY <2>5 DEF StartRange, OwnContext, TypeOK, Blank, Levels
    <3> QED BY <2>1, <2>5, <3>3, <3>4, <3>5 DEF StartRange, TypeOK
  <2>6. ASSUME NEW t \in Threads, pc = "update", Reinit(t) PROVE TypeOK'
    <3>1. PICK e \in thread[t].range :
            /\ thread' = [thread EXCEPT ![t] = Evaluating(t, e)]
            /\ contexts' = IF contexts[thread[t].context].elem # e
                      THEN [contexts EXCEPT ![thread[t].context] =
                              [elem |-> e, level |-> level]]
                      ELSE contexts
      BY <2>6 DEF Reinit
    <3>2. thread[t] \in ThreadStates
      BY DEF TypeOK
    <3>3. thread[t].range \subseteq Elements /\ e \in Elements
      BY <3>2 DEF ThreadStates
    <3>4. Evaluating(t, e) \in ThreadStates
      BY <3>2, <3>3 DEF Evaluating, ThreadStates
    <3>5. thread' \in [Threads -> ThreadStates]
      <4>1. thread \in [Threads -> ThreadStates]
        BY DEF TypeOK
      <4> QED BY <3>1, <3>4, <4>1
    <3>6. contexts' \in [Threads -> Ctxs]
      <4>1. [elem |-> e, level |-> level] \in Ctxs
        BY <3>3 DEF TypeOK
      <4>2. contexts \in [Threads -> Ctxs]
        BY DEF TypeOK
      <4> HIDE DEF Ctxs
      <4> QED BY <3>1, <4>1, <4>2
    <3> QED BY <2>1, <2>6, <3>5, <3>6 DEF Reinit, TypeOK
  <2>7. ASSUME NEW t \in Threads, pc = "update", Evaluate(t) PROVE TypeOK'
    <3>1. CASE pc' = "error" /\ UNCHANGED <<thread, field>>
      BY <2>1, <2>7, <3>1 DEF Evaluate, TypeOK
    <3> DEFINE ctx == contexts[thread[t].context]
               e == thread[t].elem
    <3>2. CASE /\ pc' = pc
               /\ thread' = [thread EXCEPT ![t] = Evaluated(t)]
               /\ field' = [n \in Quantities |->
                    IF n \in DOMAIN variables
                    THEN [field[n] EXCEPT ![e] = Value(variables[n], ctx)]
                    ELSE field[n]]
      <4>1. thread[t] \in ThreadStates /\ Idle \in ThreadStates
        BY DEF TypeOK, Idle, ThreadStates
      <4>2. Evaluated(t) \in ThreadStates
        BY <4>1 DEF Evaluated, ThreadStates
      <4>3. thread' \in [Threads -> ThreadStates]
        BY <3>2, <4>2 DEF TypeOK
      <4>4. ctx \in Contexts
        <5>1. thread[t].context = t
          BY <2>7 DEF Evaluate, UsesOwn
        <5> QED BY <5>1 DEF TypeOK, Contexts
      <4>5. \A n \in DOMAIN variables : Value(variables[n], ctx) \in Values
        BY <4>4, ValueType
      <4>6. field \in [Quantities -> [Elements -> Values]]
        BY DEF TypeOK
      <4> HIDE DEF ctx, e
      <4>7. field' \in [Quantities -> [Elements -> Values]]
        BY <3>2, <4>5, <4>6
      <4> QED BY <2>1, <2>7, <3>2, <4>3, <4>7 DEF Evaluate, TypeOK
    <3> QED BY <2>7, <3>1, <3>2 DEF Evaluate
  <2>8. CASE EndUpdate
    BY <2>1, <2>8 DEF EndUpdate, TypeOK
  <2>9. CASE UNCHANGED vars
    BY <2>1, <2>9 DEF vars, TypeOK
  <2> QED BY <1>2, <2>2, <2>3, <2>4, <2>5, <2>6, <2>7, <2>8, <2>9
          DEF Next, Step
<1> QED BY <1>1, <1>2

(***************************************************************************)
(* Contexts and registration, for every request.                           *)
(***************************************************************************)

\* Threads work only in an update, and what their contexts hold is of now.
Working(t) ==
  /\ pc \in {"register", "ready"} => thread[t].at = "idle"
  /\ (pc = "update" /\ thread[t].at # "idle") =>
       contexts[t] = Blank \/ contexts[t].level = level
  /\ (pc = "update" /\ thread[t].at = "evaluate") =>
       /\ thread[t].elem \in Elements
       /\ contexts[t] = [elem |-> thread[t].elem, level |-> level]
ThreadsWork == \A t \in Threads : Working(t)

\* Once registration is over every call was made and has its variable.
Complete ==
  pc \in {"ready", "update"} =>
    /\ size = nCalls
    /\ variables = [n \in RegisteredNames |-> IndexOf(n)]

LEMMA CompleteNext == TypeOK /\ Complete /\ [Next]_vars => Complete'
<1> SUFFICES ASSUME TypeOK, Complete, [Next]_vars PROVE Complete'
  OBVIOUS
<1>1. CASE RegisterQuantity
  BY <1>1 DEF RegisterQuantity, Complete
<1>2. CASE ~RegisterQuantity
  <2>1. UNCHANGED <<request, size, cached>>
    BY <1>2, OthersKeepRegistry
  <2>2. UNCHANGED <<nCalls, RegisteredNames>> /\ \A n : IndexOf(n)' = IndexOf(n)
    BY <2>1 DEF nCalls, calls, RegisteredNames, IndexOf
  <2>3. CASE Initialize
    BY <2>1, <2>2, <2>3 DEF Initialize, Complete
  <2>4. CASE UNCHANGED variables /\ (pc' \in {"ready", "update"} => pc \in {"ready", "update"})
    BY <2>1, <2>2, <2>4 DEF Complete
  <2>5. CASE \E t \in Threads : Step(t)
    BY <2>4, <2>5 DEF Step, StartRange, Reinit, Evaluate
  <2> QED BY <1>2, <2>3, <2>4, <2>5
          DEF Next, vars, Advance, UpdateQuantities, EndUpdate, Projection
<1> QED BY <1>1, <1>2

LEMMA ThreadsWorkNext ==
  TypeOK /\ UsesOwn /\ ThreadsWork /\ [Next]_vars => ThreadsWork'
<1> SUFFICES ASSUME TypeOK, UsesOwn, ThreadsWork, [Next]_vars,
                    NEW u \in Threads
             PROVE  Working(u)'
  BY DEF ThreadsWork
<1>0. /\ \A t \in Threads : thread[t] \in ThreadStates
      /\ thread \in [Threads -> ThreadStates]
      /\ DOMAIN contexts = Threads
      /\ Working(u)
  BY DEF TypeOK, ThreadsWork
<1>1. ASSUME NEW t \in Threads, StartRange(t) PROVE Working(u)'
  <2>1. /\ pc = "update" /\ pc' = pc /\ level' = level
        /\ contexts' = [contexts EXCEPT ![t] = Blank]
    BY <1>1 DEF StartRange, OwnContext
  <2>2. PICK r \in SUBSET todo :
          thread' = [thread EXCEPT ![t] =
            [at |-> "next", range |-> r, elem |-> NoElem, context |-> t]]
    BY <1>1 DEF StartRange, OwnContext
  <2>3. CASE u = t
    BY <1>0, <2>1, <2>2, <2>3 DEF Working
  <2>4. CASE u # t
    BY <1>0, <2>1, <2>2, <2>4 DEF Working
  <2> QED BY <2>3, <2>4
<1>2. ASSUME NEW t \in Threads, pc = "update", Reinit(t) PROVE Working(u)'
  <2>1. /\ pc' = pc /\ level' = level /\ thread[t].at = "next"
        /\ thread[t].context = t
    BY <1>2 DEF Reinit, UsesOwn
  <2>2. PICK e \in thread[t].range :
          /\ thread' = [thread EXCEPT ![t] = Evaluating(t, e)]
          /\ contexts' = IF contexts[t].elem # e
                         THEN [contexts EXCEPT ![t] =
                                 [elem |-> e, level |-> level]]
                         ELSE contexts
    BY <1>2, <2>1 DEF Reinit
  <2>3. e \in Elements /\ e # NoElem
    BY <1>0 DEF ThreadStates
  <2>4. CASE u # t
    BY <1>0, <1>2, <2>1, <2>2, <2>4 DEF Working
  <2>5. CASE u = t
    <3>1. Evaluating(t, e).at = "evaluate" /\ Evaluating(t, e).elem = e
      BY <1>0 DEF Evaluating, ThreadStates
    <3>2. thread'[t] = Evaluating(t, e)
      BY <1>0, <2>2
    <3>3. contexts'[t] = [elem |-> e, level |-> level]
      <4>1. CASE contexts[t].elem # e
        BY <1>0, <2>2, <4>1
      <4>2. CASE contexts[t].elem = e
        <5>1. contexts[t] \in Contexts
          BY DEF TypeOK, Contexts
        <5>2. contexts[t] # Blank
          BY <4>2, <2>3 DEF Blank
        <5>3. contexts[t].level = level
          BY <1>0, <1>2, <2>1, <2>5, <5>2 DEF Working
        <5> QED BY <2>2, <4>2, <5>1, <5>3 DEF Contexts
      <4> QED BY <4>1, <4>2
    <3> QED BY <1>2, <2>1, <2>3, <2>5, <3>1, <3>2, <3>3 DEF Working
  <2> QED BY <2>4, <2>5
<1>3. ASSUME NEW t \in Threads, pc = "update", Evaluate(t) PROVE Working(u)'
  <2>1. CASE pc' = "error"
    BY <2>1 DEF Working
  <2>2. CASE /\ pc' = pc /\ UNCHANGED <<level, contexts>>
             /\ thread[t].at = "evaluate"
             /\ thread' = [thread EXCEPT ![t] = Evaluated(t)]
    <3>1. Evaluated(t).at \in {"idle", "next"}
      BY <1>0 DEF Evaluated, Idle, ThreadStates
    <3>2. u # t => thread'[u] = thread[u]
      BY <1>0, <2>2
    <3>3. thread'[t] = Evaluated(t)
      BY <1>0, <2>2
    <3> QED BY <1>0, <1>3, <2>2, <3>1, <3>2, <3>3 DEF Working
  <2> QED BY <1>3, <2>1, <2>2 DEF Evaluate
<1>4. CASE EndUpdate
  BY <1>0, <1>4 DEF EndUpdate, Working
<1>5. CASE UpdateQuantities
  BY <1>0, <1>5 DEF UpdateQuantities, Working
<1>6. CASE Advance
  BY <1>0, <1>6 DEF Advance, Projection, Working
<1>7. CASE RegisterQuantity
  BY <1>0, <1>7, RegisterFacts DEF Working
<1>8. CASE Initialize
  BY <1>0, <1>8 DEF Initialize, Projection, Working
<1>9. CASE UNCHANGED vars
  BY <1>0, <1>9 DEF vars, Working
<1> QED BY <1>1, <1>2, <1>3, <1>4, <1>5, <1>6, <1>7, <1>8, <1>9 DEF Next, Step

\* The inductive invariant for every request.
IInv == TypeOK /\ Registry /\ UsesOwn /\ ThreadsWork /\ Complete

LEMMA IInvInit == Init => IInv
<1> SUFFICES ASSUME Init PROVE IInv
  OBVIOUS
<1>1. TypeOK
  BY TypeInit
<1>2. Registry /\ UsesOwn /\ ThreadsWork /\ Complete
  BY DEF Init, Registry, UsesOwn, ThreadsWork, Working, Complete, Idle
<1> QED BY <1>1, <1>2 DEF IInv

LEMMA IInvNext == IInv /\ [Next]_vars => IInv'
BY TypeNext, RegistryNext, UsesOwnNext, ThreadsWorkNext, CompleteNext DEF IInv

LEMMA Inductive == Spec => []IInv
BY IInvInit, IInvNext, PTL DEF Spec

\* Every request, as read from any input, keeps the state of registration and
\* projection well typed.
THEOREM TypeCorrect == Spec => []TypeOK
<1>1. IInv => TypeOK
  BY DEF IInv
<1> QED BY Inductive, <1>1, PTL

\* A thread of the projection evaluates in a context at its own element and
\* in the present state, with any number of threads and elements.
THEOREM ThreadsUseTheirContext == Spec => []ContextIsOwn
<1>1. IInv => ContextIsOwn
  BY DEF IInv, ThreadsWork, Working, UsesOwn, ContextIsOwn
<1> QED BY Inductive, <1>1, PTL

\* Whatever the input asks for, the program does not go on with one name for
\* two quantities.
THEOREM NamesDiffer == Spec => []NoNameTwice
<1>1. IInv => NoNameTwice
  BY DEF IInv, Registry, Complete, NoNameTwice
<1> QED BY Inductive, <1>1, PTL

(***************************************************************************)
(* Fields, for requests the physics can compute.                           *)
(***************************************************************************)

Asked(r, c) == \E i \in 1..Len(r.calls) : r.calls[i] = c

\* No quantity that its physics cannot evaluate, and the membrane's stress
\* and stress_zz either both or neither.
Computable(r) ==
  /\ \A i \in 1..Len(r.calls) :
       r.calls[i].name # Invalid =>
         r.calls[i].name \in Computes[r.calls[i].physics]
  /\ Asked(r, Uninitialised) <=> Asked(r, Call("ElasticMembrane", "stress_xx"))

\* A physics caches the position of its own call, or its initial index.
Caches ==
  \A p \in PhysicsNames, n \in Quantities :
    \/ \E i \in 1..size : calls[i] = Call(p, n) /\ cached[p][n] = i
    \/ /\ \A i \in 1..size : calls[i] # Call(p, n)
       /\ cached[p][n] = InitialIndex(request, p, n)

LEMMA CachesNext == TypeOK /\ Registry /\ Caches /\ [Next]_vars => Caches'
<1> SUFFICES ASSUME TypeOK, Registry, Caches, [Next]_vars PROVE Caches'
  OBVIOUS
<1>1. CASE RegisterQuantity
  <2> DEFINE c == calls[size + 1]
  <2>0. calls' = calls /\ request' = request /\ size \in Nat
    BY <1>1, RegisterFacts
  <2>1. CASE UNCHANGED <<size, cached>>
    BY <2>0, <2>1 DEF Caches, InitialIndex
  <2>2. CASE /\ ~Refuses(c)
             /\ size' = size + 1
             /\ cached' = [cached EXCEPT ![c.physics] =
                             [@ EXCEPT ![c.name] = NewIndex(size)]]
    <3>1. c.physics \in PhysicsNames /\ c.name \in Quantities
      BY <1>1, <2>2, RegisterFacts DEF Refuses
    <3>2. c = Call(c.physics, c.name)
      BY <1>1, RegisterFacts, RequestFacts DEF TypeOK
    <3>3. NewIndex(size) = size + 1 /\ size + 1 \in 1..(size + 1)
      BY <2>0 DEF NewIndex
    <3>4. /\ size + 1 \in 1..size'
          /\ 1..size' = 1..size \union {size + 1}
      BY <2>0, <2>2
    <3> SUFFICES ASSUME NEW p \in PhysicsNames, NEW n \in Quantities
                 PROVE  \/ \E i \in 1..size' :
                             calls[i] = Call(p, n) /\ cached'[p][n] = i
                        \/ /\ \A i \in 1..size' : calls[i] # Call(p, n)
                           /\ cached'[p][n] = InitialIndex(request, p, n)
      BY <2>0 DEF Caches, InitialIndex
    <3>5. cached \in [PhysicsNames -> [Quantities -> Nat \union {Empty}]]
      BY DEF TypeOK
    <3>6. CASE c.physics = p /\ c.name = n
      <4>1. cached'[p][n] = size + 1
        BY <2>2, <3>1, <3>3, <3>5, <3>6
      <4> QED BY <3>2, <3>4, <3>6, <4>1
    <3>7. CASE c.physics # p \/ c.name # n
      <4>1. cached'[p][n] = cached[p][n]
        BY <2>2, <3>1, <3>5, <3>7
      <4>2. c # Call(p, n)
        BY <3>7 DEF Call
      <4> QED BY <3>4, <4>1, <4>2 DEF Caches
    <3> QED BY <3>6, <3>7
  <2> QED BY <1>1, <2>1, <2>2, RegisterFacts
<1>2. CASE ~RegisterQuantity
  BY <1>2, OthersKeepRegistry DEF Caches, InitialIndex, calls
<1> QED BY <1>1, <1>2

\* The position of a call determines who answers for that index: the physics
\* that made the call, with the quantity it asked for.
LEMMA MatchesOwn ==
  ASSUME TypeOK, Registry, Caches, Computable(request), size = nCalls,
         NEW i \in 1..nCalls, NEW p \in PhysicsNames
  PROVE  Matches(p, i) = IF calls[i].physics = p THEN {calls[i].name} ELSE {}
<1>0. /\ nCalls \in Nat /\ i \in Nat /\ i >= 1 /\ 1..Len(request.calls) = 1..size
      /\ calls[i].physics \in PhysicsNames
      /\ calls[i].name \in Quantities
      /\ calls[i] = Call(calls[i].physics, calls[i].name)
  BY RequestFacts DEF TypeOK, Registry, nCalls, calls
<1>1. \A n \in Quantities : calls[i] # Call(p, n) =>
         cached[p][n] # i \/ (/\ cached[p][n] = InitialIndex(request, p, n)
                              /\ \A j \in 1..size : calls[j] # Call(p, n))
  BY DEF Caches
<1>2. \A n \in Quantities : calls[i] = Call(p, n) => cached[p][n] = i
  <2> SUFFICES ASSUME NEW n \in Quantities, calls[i] = Call(p, n)
               PROVE  cached[p][n] = i
    OBVIOUS
  <2>1. PICK j \in 1..size : calls[j] = Call(p, n) /\ cached[p][n] = j
    BY DEF Caches
  <2>2. calls[j].name = calls[i].name
    BY <2>1
  <2> QED BY <2>1, <2>2 DEF Registry
<1>3. \A n \in Quantities : Call(p, n) # Uninitialised =>
         InitialIndex(request, p, n) # i
  BY <1>0 DEF InitialIndex, Empty
<1>4. \A n \in Stresses : n \in Quantities
  BY MembraneRegisters, MembraneIsPhysics, ComputesQuantities
<1>5. "stress_xx" \in Stresses
  BY StressesListed DEF StressNames
<1>6. \A n \in Stresses : Call("ElasticMembrane", n) # Uninitialised
  BY StressesListed DEF Call, Uninitialised, StressNames, StrainNames
<1>7. cached["ElasticMembrane"]["stress_xx"] # Empty
         <=> Asked(request, Call("ElasticMembrane", "stress_xx"))
  <2> DEFINE c == Call("ElasticMembrane", "stress_xx")
  <2>1. CASE \E j \in 1..size : calls[j] = c /\ cached["ElasticMembrane"]["stress_xx"] = j
    BY <1>0, <2>1 DEF Asked, calls, Empty
  <2>2. CASE /\ \A j \in 1..size : calls[j] # c
             /\ cached["ElasticMembrane"]["stress_xx"]
                  = InitialIndex(request, "ElasticMembrane", "stress_xx")
    BY <1>0, <1>5, <2>2, StressesStartEmpty DEF Asked, calls
  <2> QED BY <2>1, <2>2, <1>4, <1>5, MembraneIsPhysics DEF Caches
<1>8. ASSUME NEW n \in Matches(p, i) PROVE calls[i] = Call(p, n)
  <2> SUFFICES ASSUME calls[i] # Call(p, n) PROVE FALSE
    OBVIOUS
  <2>1. /\ n \in Quantities /\ cached[p][n] = i
        /\ Call(p, n) = Uninitialised => IsStressZZ(i)
    BY ComputesRegistered DEF Matches
  <2>2. /\ InitialIndex(request, p, n) = i
        /\ \A j \in 1..size : calls[j] # Call(p, n)
    BY <1>1, <2>1
  <2>3. Call(p, n) = Uninitialised
    BY <1>3, <2>1, <2>2
  <2>4. Asked(request, Uninitialised)
    BY <1>7, <2>1, <2>3 DEF IsStressZZ, Computable
  <2> QED BY <1>0, <2>2, <2>3, <2>4 DEF Asked, calls
<1>9. ASSUME calls[i].physics = p PROVE calls[i].name \in Matches(p, i)
  <2> DEFINE n == calls[i].name
  <2>1. n \in Computes[p] /\ cached[p][n] = i
    BY <1>0, <1>2, <1>9 DEF Computable, Registry, calls
  <2>2. CASE Call(p, n) = Uninitialised
    <3>1. p = "ElasticMembrane"
      BY <2>2 DEF Call, Uninitialised
    <3>2. Asked(request, Uninitialised)
      BY <1>0, <1>9, <2>2 DEF Asked, calls
    <3>3. cached["ElasticMembrane"]["stress_xx"] # Empty
      BY <1>7, <3>2 DEF Computable
    <3>4. ASSUME NEW m \in Stresses PROVE cached["ElasticMembrane"][m] # i
      <4>1. calls[i] # Call("ElasticMembrane", m)
        BY <1>0, <1>6, <1>9, <2>2
      <4>2. /\ m \in Quantities
            /\ Call(p, m) # Uninitialised
            /\ calls[i] # Call(p, m)
        BY <1>4, <1>6, <3>1, <4>1
      <4>3. cached[p][m] # i
        BY <1>1, <1>3, <4>2
      <4> QED BY <3>1, <4>3
    <3> QED BY <2>1, <3>3, <3>4 DEF Matches, IsStressZZ
  <2> QED BY <2>1, <2>2 DEF Matches
<1>10. \A n \in Matches(p, i) : calls[i].physics = p /\ calls[i].name = n
  <2>1. \A n : Call(p, n).physics = p /\ Call(p, n).name = n
    BY DEF Call
  <2> QED BY <1>8, <2>1
<1>11. CASE calls[i].physics = p
  BY <1>9, <1>10, <1>11
<1>12. CASE calls[i].physics # p
  BY <1>10, <1>12
<1> QED BY <1>11, <1>12

\* The value of an index is what was asked for in the call it stands for.
LEMMA ValueIsExpected ==
  ASSUME TypeOK, Registry, Caches, Computable(request), size = nCalls,
         NEW i \in 1..nCalls, NEW e \in Elements
  PROVE  Value(i, [elem |-> e, level |-> level]) = Expected(calls[i], e, level)
<1> DEFINE p == calls[i].physics
           ctx == [elem |-> e, level |-> level]
<1>1. p \in PhysicsNames /\ i \in 1..size
  BY RequestFacts DEF TypeOK
<1>2. PICK j \in 1..8 : PhysicsOrder[j] = p
  BY <1>1, InOrder
<1>3. \A k \in 1..8 : k # j => PhysicsOrder[k] # p
  BY <1>2, OrderInjective
<1>4. \A k \in 1..8 : Matches(PhysicsOrder[k], i) =
                       IF k = j THEN {calls[i].name} ELSE {}
  BY <1>2, <1>3, InOrder, MatchesOwn
<1>5. Writers(i, ctx) = IF EnabledOnElem(p, e) THEN {j} ELSE {}
  BY <1>2, <1>4, OrderInjective DEF Writers
<1>6. CASE EnabledOnElem(p, e)
  <2> DEFINE W == Writers(i, ctx)
             last == PhysicsOrder[CHOOSE k \in W : \A m \in W : m <= k]
  <2>1. W = {j}
    BY <1>5, <1>6
  <2>2. (CHOOSE k \in W : \A m \in W : m <= k) = j
    BY <2>1
  <2>3. last = p
    BY <1>2, <2>2
  <2>4. (CHOOSE n \in Matches(last, i) : TRUE) = calls[i].name
    BY <1>2, <1>4, <2>3
  <2>5. Value(i, ctx) = [by |-> last, name |-> CHOOSE n \in Matches(last, i) : TRUE,
                         elem |-> e, level |-> level]
    BY <2>1 DEF Value
  <2> QED BY <1>6, <2>3, <2>4, <2>5 DEF Expected
<1>7. CASE ~EnabledOnElem(p, e)
  BY <1>5, <1>7 DEF Value, Expected
<1> QED BY <1>6, <1>7

\* The variable of a call stands for its position.
LEMMA VariableOfCall ==
  ASSUME TypeOK, Registry, Complete, pc = "update", NEW i \in 1..nCalls
  PROVE  /\ calls[i].name \in DOMAIN variables
         /\ calls[i].name \in Quantities
         /\ variables[calls[i].name] = i
<1> DEFINE n == calls[i].name
           k == CHOOSE j \in 1..size : calls[j].name = n
<1>1. /\ size = nCalls /\ nCalls \in Nat
      /\ variables = [m \in RegisteredNames |-> IndexOf(m)]
      /\ n \in Quantities
  BY RequestFacts DEF Complete, TypeOK, Registry
<1>2. n \in RegisteredNames
  BY <1>1 DEF RegisteredNames
<1>3. k \in 1..size /\ calls[k].name = n
  BY <1>1
<1>4. k = i
  BY <1>1, <1>3 DEF Registry
<1>5. IndexOf(n) = i
  <2>1. IndexOf(n) = NewIndex(k - 1)
    BY DEF IndexOf
  <2> HIDE DEF k
  <2> QED BY <1>1, <1>4, <2>1 DEF NewIndex
<1> QED BY <1>1, <1>2, <1>5

FieldRight(e, lvl) ==
  \A i \in 1..nCalls : field[calls[i].name][e] = Expected(calls[i], e, lvl)

\* An element that is still to come in the projection under way.
Ahead(e) ==
  \/ e \in todo
  \/ \E t \in Threads : /\ thread[t].at # "idle"
                        /\ \/ e \in thread[t].range
                           \/ thread[t].at = "evaluate" /\ thread[t].elem = e

\* What the projection has left behind is right.
FieldsInv ==
  /\ Computable(request)
  /\ Caches
  /\ pc = "update" => \A e \in Elements : Ahead(e) \/ FieldRight(e, level)
  /\ (pc = "ready" /\ updated # Never) =>
       \A e \in Elements : FieldRight(e, updated)
  /\ pc = "register" => updated = Never

LEMMA FieldsInvNext == IInv /\ FieldsInv /\ [Next]_vars => FieldsInv'
<1> SUFFICES ASSUME IInv, FieldsInv, [Next]_vars PROVE FieldsInv'
  OBVIOUS
<1>0. /\ TypeOK /\ Registry /\ UsesOwn /\ ThreadsWork /\ Complete
      /\ Computable(request) /\ Caches /\ Caches'
  BY CachesNext DEF IInv, FieldsInv
<1>a. \A t \in Threads : thread[t] \in ThreadStates /\ Working(t)
  BY <1>0 DEF TypeOK, ThreadsWork
<1>1. CASE RegisterQuantity
  BY <1>0, <1>1, RegisterFacts DEF FieldsInv
<1>2. CASE ~RegisterQuantity
  <2>0. UNCHANGED <<request, size, cached, calls, nCalls>>
    BY <1>2, OthersKeepRegistry DEF calls, nCalls
  <2>1. CASE Initialize
    BY <1>0, <2>0, <2>1 DEF Initialize, Projection, FieldsInv
  <2>2. CASE Advance
    BY <1>0, <2>0, <2>2
       DEF Advance, Projection, FieldsInv, FieldRight, Expected, EnabledOnElem
  <2>3. CASE UpdateQuantities
    BY <1>0, <2>0, <2>3 DEF UpdateQuantities, FieldsInv, Ahead
  <2>4. ASSUME NEW t \in Threads, StartRange(t) PROVE FieldsInv'
    <3>1. /\ pc = "update" /\ pc' = pc /\ thread[t].at = "idle"
          /\ UNCHANGED <<level, field, updated>>
      BY <2>4 DEF StartRange
    <3>2. PICK r \in SUBSET todo :
            /\ todo' = todo \ r
            /\ thread' = [thread EXCEPT ![t] =
                 [at |-> "next", range |-> r, elem |-> NoElem,
                  context |-> OwnContext(t)]]
      BY <2>4 DEF StartRange
    <3>3. ASSUME NEW e \in Elements, Ahead(e) PROVE Ahead(e)'
      BY <1>0, <3>1, <3>2, <3>3 DEF Ahead, TypeOK
    <3>4. \A e \in Elements : FieldRight(e, level)' = FieldRight(e, level)
      BY <2>0, <3>1 DEF FieldRight, Expected, EnabledOnElem
    <3> QED BY <1>0, <2>0, <3>1, <3>3, <3>4 DEF FieldsInv
  <2>5. ASSUME NEW t \in Threads, pc = "update", Reinit(t) PROVE FieldsInv'
    <3>1. /\ pc' = pc /\ thread[t].at = "next"
          /\ UNCHANGED <<level, todo, field, updated>>
      BY <2>5 DEF Reinit
    <3>2. PICK d \in thread[t].range :
            thread' = [thread EXCEPT ![t] = Evaluating(t, d)]
      BY <2>5 DEF Reinit
    <3>3. /\ thread[t].range \subseteq Elements
          /\ Evaluating(t, d).at = "evaluate"
          /\ Evaluating(t, d).elem = d
          /\ Evaluating(t, d).range = thread[t].range \ {d}
      BY <1>a DEF Evaluating, ThreadStates
    <3>4. /\ thread'[t] = Evaluating(t, d)
          /\ \A u \in Threads : u # t => thread'[u] = thread[u]
      BY <1>0, <3>2 DEF TypeOK
    <3>5. ASSUME NEW e \in Elements, Ahead(e) PROVE Ahead(e)'
      BY <3>1, <3>3, <3>4, <3>5 DEF Ahead
    <3>6. \A e \in Elements : FieldRight(e, level)' = FieldRight(e, level)
      BY <2>0, <3>1 DEF FieldRight, Expected, EnabledOnElem
    <3> QED BY <1>0, <2>0, <2>5, <3>1, <3>5, <3>6 DEF FieldsInv
  <2>6. ASSUME NEW t \in Threads, pc = "update", Evaluate(t) PROVE FieldsInv'
    <3>1. CASE pc' = "error"
      BY <1>0, <2>0, <3>1 DEF FieldsInv
    <3> DEFINE d == thread[t].elem
               ctx == [elem |-> d, level |-> level]
    <3>2. CASE /\ pc' = pc /\ UNCHANGED <<level, todo, updated>>
               /\ thread' = [thread EXCEPT ![t] = Evaluated(t)]
               /\ field' = [n \in Quantities |->
                    IF n \in DOMAIN variables
                    THEN [field[n] EXCEPT ![d] = Value(variables[n], ctx)]
                    ELSE field[n]]
      <4>1. d \in Elements /\ thread[t].at = "evaluate"
        BY <1>a, <2>6 DEF Working, Evaluate
      <4>2. size = nCalls
        BY <1>0, <2>6 DEF Complete
      <4>3. /\ thread'[t] = Evaluated(t)
            /\ \A u \in Threads : u # t => thread'[u] = thread[u]
        BY <1>0, <3>2 DEF TypeOK
      <4>4. thread[t].range # {} => /\ Evaluated(t).at = "next"
                                   /\ Evaluated(t).range = thread[t].range
        BY <1>a DEF Evaluated, ThreadStates
      <4>5. ASSUME NEW e \in Elements, Ahead(e), e # d PROVE Ahead(e)'
        BY <3>2, <4>3, <4>4, <4>5 DEF Ahead
      <4>6. ASSUME NEW i \in 1..nCalls, NEW e \in Elements
            PROVE  field'[calls[i].name][e] =
                     IF e = d THEN Expected(calls[i], d, level)
                     ELSE field[calls[i].name][e]
        <5> DEFINE n == calls[i].name
        <5>1. n \in DOMAIN variables /\ n \in Quantities /\ variables[n] = i
          BY <1>0, <2>6, VariableOfCall
        <5>2. Value(i, ctx) = Expected(calls[i], d, level)
          BY <1>0, <4>1, <4>2, ValueIsExpected
        <5>3. DOMAIN field[n] = Elements
          BY <1>0, <5>1 DEF TypeOK
        <5>4. field'[n] = [field[n] EXCEPT ![d] = Value(i, ctx)]
          BY <3>2, <5>1
        <5> HIDE DEF n, ctx, d
        <5>5. field'[n][e] = IF e = d THEN Value(i, ctx) ELSE field[n][e]
          BY <5>3, <5>4
        <5> QED BY <5>2, <5>5 DEF n
      <4> HIDE DEF d, ctx
      <4>7. \A e \in Elements : e = d \/ FieldRight(e, level) =>
                                 FieldRight(e, level)'
        <5>1. \A c, e : Expected(c, e, level)' = Expected(c, e, level)
          BY <2>0, <3>2 DEF Expected, EnabledOnElem
        <5> QED BY <2>0, <3>2, <4>6, <5>1 DEF FieldRight
      <4> QED BY <1>0, <2>0, <2>6, <3>2, <4>5, <4>7 DEF FieldsInv
    <3>3. contexts[thread[t].context] = ctx
      BY <1>0, <1>a, <2>6 DEF Working, Evaluate, UsesOwn
    <3> QED BY <2>6, <3>1, <3>2, <3>3 DEF Evaluate
  <2>7. CASE EndUpdate
    BY <1>0, <2>0, <2>7
       DEF EndUpdate, FieldsInv, Ahead, FieldRight, Expected, EnabledOnElem
  <2>8. CASE UNCHANGED vars
    BY <1>0, <2>0, <2>8
       DEF vars, FieldsInv, Ahead, FieldRight, Expected, EnabledOnElem
  <2> QED BY <1>2, <2>1, <2>2, <2>3, <2>4, <2>5, <2>6, <2>7, <2>8 DEF Next, Step
<1> QED BY <1>1, <1>2

\* For every request whose quantities the physics can compute: after an update
\* each field holds the quantity it was asked for, of the state of the update,
\* on any mesh and with any number of threads.
THEOREM FieldsAreRight ==
  Spec /\ Computable(request) => []FieldsHoldTheirQuantity
<1>1. Init /\ Computable(request) => FieldsInv
  BY DEF Init, FieldsInv, Caches
<1>2. FieldsInv => FieldsHoldTheirQuantity
  BY DEF FieldsInv, FieldsHoldTheirQuantity, FieldRight
<1> QED BY Inductive, <1>1, <1>2, FieldsInvNext, PTL DEF Spec
=============================================================================
