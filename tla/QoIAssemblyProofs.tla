------------------------- MODULE QoIAssemblyProofs -------------------------
(***************************************************************************)
(* For any number of processors, threads, elements and quantities, any     *)
(* distribution of the elements and any program of passes: what a          *)
(* processor is told of a quantity is the sum over the whole domain.       *)
(* The argument: the sums of the threads are over disjoint sets of         *)
(* elements that make up the processor's own; the processors make their    *)
(* collective calls in step, so a sum adds up one quantity in one solution.*)
(***************************************************************************)
EXTENDS QoIAssembly, TLAPS, FiniteSetTheorems



-----------------------------------------------------------------------------
(* Sums over disjoint sets of elements.  W gives the contribution of each   *)
(* element.                                                                 *)

Separate(W) ==
  \A e, f \in Elements :
    /\ W[e] = [items |-> W[e].items, once |-> TRUE]
    /\ e # f => W[e].items \intersect W[f].items = {}

PartOf(W, E) == [items |-> UNION {W[e].items : e \in E}, once |-> TRUE]

\* Plus of two sums that have nothing in common.
LEMMA PlusApart ==
  ASSUME NEW A, NEW B, A \intersect B = {}
  PROVE  Plus([items |-> A, once |-> TRUE], [items |-> B, once |-> TRUE])
           = [items |-> A \union B, once |-> TRUE]
  BY DEF Plus

\* One more element.
LEMMA PlusOne ==
  ASSUME NEW W, Separate(W), NEW E \in SUBSET Elements,
         NEW e \in Elements, e \notin E
  PROVE  Plus(PartOf(W, E), W[e]) = PartOf(W, E \union {e})
  <1> DEFINE A == UNION {W[f].items : f \in E}
  <1>1. W[e] = [items |-> W[e].items, once |-> TRUE]
    BY DEF Separate
  <1>2. A \intersect W[e].items = {}
    <2> SUFFICES ASSUME NEW c, c \in A, c \in W[e].items PROVE FALSE
      OBVIOUS
    <2>1. PICK f \in E : c \in W[f].items
      OBVIOUS
    <2> QED
      BY <2>1 DEF Separate
  <1>3. A \union W[e].items = UNION {W[f].items : f \in E \union {e}}
    OBVIOUS
  <1>4. Plus([items |-> A, once |-> TRUE],
             [items |-> W[e].items, once |-> TRUE])
          = [items |-> A \union W[e].items, once |-> TRUE]
    BY <1>2, PlusApart
  <1> QED
    BY <1>1, <1>3, <1>4 DEF PartOf

\* Two disjoint sets of elements.
LEMMA PlusParts ==
  ASSUME NEW W, Separate(W), NEW E \in SUBSET Elements,
         NEW F \in SUBSET Elements, E \intersect F = {}
  PROVE  Plus(PartOf(W, E), PartOf(W, F)) = PartOf(W, E \union F)
  <1> DEFINE A == UNION {W[f].items : f \in E}
             B == UNION {W[f].items : f \in F}
  <1>2. A \intersect B = {}
    <2> SUFFICES ASSUME NEW c, c \in A, c \in B PROVE FALSE
      OBVIOUS
    <2>1. PICK f \in E : c \in W[f].items
      OBVIOUS
    <2>2. PICK g \in F : c \in W[g].items
      OBVIOUS
    <2>3. f # g /\ f \in Elements /\ g \in Elements
      OBVIOUS
    <2> QED
      BY <2>1, <2>2, <2>3 DEF Separate
  <1>3. A \union B = UNION {W[f].items : f \in E \union F}
    OBVIOUS
  <1>4. Plus([items |-> A, once |-> TRUE], [items |-> B, once |-> TRUE])
          = [items |-> A \union B, once |-> TRUE]
    BY <1>2, PlusApart
  <1> QED
    BY <1>3, <1>4 DEF PartOf

LEMMA PartFields ==
  ASSUME NEW W, NEW E
  PROVE  /\ PartOf(W, E).items = UNION {W[e].items : e \in E}
         /\ PartOf(W, E).once = TRUE
  BY DEF PartOf

\* Nothing added yet.
LEMMA PartOfNothing == ASSUME NEW W PROVE PartOf(W, {}) = Zero
  BY DEF PartOf, Zero

\* The processors' own elements are all the elements.
LEMMA TotalOfParts ==
  ASSUME NEW W, Separate(W), owner \in [Elements -> Ranks],
         NEW v, \A p \in Ranks : v[p] = PartOf(W, Own(p))
  PROVE  Total(v) = PartOf(W, Elements)
  <1>1. \A p \in Ranks : v[p].items = UNION {W[e].items : e \in Own(p)}
                         /\ v[p].once = TRUE
    <2> TAKE p \in Ranks
    <2> QED
      BY PartFields, Zenon
  <1>2. UNION {v[p].items : p \in Ranks} = UNION {W[e].items : e \in Elements}
    <2>1. ASSUME NEW c, c \in UNION {v[p].items : p \in Ranks}
          PROVE  c \in UNION {W[e].items : e \in Elements}
      <3>1. PICK p \in Ranks : c \in v[p].items
        BY <2>1
      <3> QED
        BY <3>1, <1>1 DEF Own
    <2>2. ASSUME NEW c, c \in UNION {W[e].items : e \in Elements}
          PROVE  c \in UNION {v[p].items : p \in Ranks}
      <3>1. PICK e \in Elements : c \in W[e].items
        BY <2>2
      <3>2. owner[e] \in Ranks /\ e \in Own(owner[e])
        BY DEF Own
      <3>3. c \in v[owner[e]].items
        BY <3>1, <3>2, <1>1
      <3> QED
        BY <3>2, <3>3
    <2> QED
      BY <2>1, <2>2
  <1>3. ASSUME NEW p \in Ranks, NEW r \in Ranks, p # r
        PROVE  v[p].items \intersect v[r].items = {}
    <2> SUFFICES ASSUME NEW c, c \in v[p].items, c \in v[r].items PROVE FALSE
      OBVIOUS
    <2>1. PICK e \in Own(p) : c \in W[e].items
      BY <1>1
    <2>2. PICK f \in Own(r) : c \in W[f].items
      BY <1>1
    <2>3. e \in Elements /\ f \in Elements /\ e # f
      BY <1>3 DEF Own
    <2> QED
      BY <2>1, <2>2, <2>3 DEF Separate
  <1>4. /\ \A p \in Ranks : v[p].once
        /\ \A p, r \in Ranks : p # r => v[p].items \intersect v[r].items = {}
    BY <1>1, <1>3
  <1> QED
    BY <1>2, <1>4 DEF Total, PartOf

-----------------------------------------------------------------------------
(* Types.                                                                   *)

LEMMA QuantitiesType ==
  /\ Len(QoIs) \in Nat /\ 1 \in Quantities /\ Quantities \subseteq Nat
  /\ \A q \in Quantities :
       /\ QoIs[q].kind \in {"nusselt", "vorticity"}
       /\ ReadBy(q) \subseteq Variables
  <1> DEFINE Q == [kind: {"nusselt", "vorticity"}, ids: SUBSET Int]
  <1>1. QoIs \in Seq(Q) /\ Len(QoIs) >= 1
    BY QoIsAssumption
  <1>2. \A q \in Quantities : QoIs[q] \in Q
    <2> HIDE DEF Q
    <2> QED
      BY <1>1 DEF Quantities
  <1> QED
    BY <1>1, <1>2 DEF Quantities, ReadBy, Variables

LEMMA SumTypes ==
  /\ Zero \in Sums /\ Zero \in Derivatives
  /\ \A a, b \in Sums : Plus(a, b) \in Sums
  /\ \A a, b \in Derivatives : Plus(a, b) \in Derivatives
  BY DEF Zero, Sums, Derivatives, Plus

LEMMA WorkType ==
  ASSUME NEW q \in Quantities, NEW e \in Elements, NEW l \in Nat
  PROVE  Work(q, e, l) \in Sums /\ DerivativeWork(q, e, l) \in Derivatives
  <1>1. ElementItems(q, e, l) \subseteq Parts
    BY DEF ElementItems, Parts
  <1>2. SideItems(q, e, l) \subseteq Parts
    BY SidesAssumption DEF SideItems, ListedSides, Parts
  <1>3. SideIsOnce(q, e) \in BOOLEAN
    BY DEF SideIsOnce
  <1>4. Work(q, e, l) \in Sums
    BY <1>1, <1>2, <1>3 DEF Work, Sums
  <1>5. DofLoop(q) \subseteq Nat
    BY DEF DofLoop
  <1>6. {<<c, v, i>> : c \in Work(q, e, l).items, v \in ReadBy(q),
                       i \in DofLoop(q)} \subseteq Parts \X Variables \X Nat
    BY <1>4, <1>5, QuantitiesType DEF Sums
  <1>7. Work(q, e, l).once \in BOOLEAN
    BY <1>4 DEF Sums
  <1> QED
    BY <1>4, <1>6, <1>7 DEF DerivativeWork, Derivatives

LEMMA TotalType ==
  ASSUME NEW v
  PROVE  /\ (\A p \in Ranks : v[p] \in Sums) => Total(v) \in Sums
         /\ (\A p \in Ranks : v[p] \in Derivatives) => Total(v) \in Derivatives
  <1> DEFINE once == /\ \A p \in Ranks : v[p].once
                     /\ \A p, r \in Ranks :
                          p # r => v[p].items \intersect v[r].items = {}
  <1>1. once \in BOOLEAN
    OBVIOUS
  <1>2. Total(v) = [items |-> UNION {v[p].items : p \in Ranks}, once |-> once]
    BY DEF Total
  <1> HIDE DEF once
  <1>3. ASSUME \A p \in Ranks : v[p] \in Sums PROVE Total(v) \in Sums
    <2>1. UNION {v[p].items : p \in Ranks} \subseteq Parts
      BY <1>3 DEF Sums
    <2> QED
      BY <1>1, <1>2, <2>1 DEF Sums
  <1>4. ASSUME \A p \in Ranks : v[p] \in Derivatives
        PROVE Total(v) \in Derivatives
    <2>1. UNION {v[p].items : p \in Ranks} \subseteq Parts \X Variables \X Nat
      BY <1>4 DEF Derivatives
    <2> QED
      BY <1>1, <1>2, <2>1 DEF Derivatives
  <1> QED
    BY <1>3, <1>4

LEMMA TypeInit == Init => TypeOK
  BY SumTypes, QuantitiesType, RoundsAssumption DEF Init, TypeOK, Each

\* A pass is an element of Rounds, and a round follows.
LEMMA PassType ==
  ASSUME TypeOK, NEW p \in Ranks
  PROVE  /\ Len(Rounds) \in Nat
         /\ round[p] \in Nat
         /\ Pass(p) \in Passes \union {"end"}
         /\ Pass(p) # "end" => round[p] + 1 \in 1..(Len(Rounds) + 1)
  BY RoundsAssumption DEF TypeOK, Pass

\* Where in a pass a processor can be.
Places ==
  \A p \in Ranks :
    /\ phase[p] \in {"summing", "summed"} => Pass(p) = "values"
    /\ phase[p] = "visiting" => Pass(p) \in {"values", "derivatives"}
    /\ phase[p] \in {"start", "visiting"} => at[p] = 1

LEMMA TypeNext == TypeOK /\ Places /\ [Next]_vars => TypeOK'
  <1> SUFFICES ASSUME TypeOK, Places, [Next]_vars PROVE TypeOK'
    OBVIOUS
  <1>1. CASE Solve
    <2>1. \A p \in Ranks : round[p] + 1 \in 1..(Len(Rounds) + 1)
      BY <1>1, PassType DEF Solve
    <2>2. round' \in [Ranks -> 1..(Len(Rounds) + 1)]
      BY <1>1, <2>1 DEF Solve
    <2> QED
      BY <1>1, <2>2 DEF Solve, TypeOK
  <1>2. CASE Sum
    <2>1. ASSUME NEW p \in Ranks
          PROVE  Total([r \in Ranks |-> local[r][at[r]]]) \in Sums
      <3>1. \A r \in Ranks : [s \in Ranks |-> local[s][at[s]]][r] \in Sums
        BY DEF TypeOK
      <3> QED
        BY <3>1, TotalType
    <2>2. local' \in [Ranks -> [Quantities -> Sums]]
      BY <1>2, <2>1 DEF Sum, TypeOK
    <2> QED
      BY <1>2, <2>2 DEF Sum, TypeOK
  <1>3. CASE CloseDerivatives
    <2>1. \A p \in Ranks : round[p] + 1 \in 1..(Len(Rounds) + 1)
      BY <1>3, PassType DEF CloseDerivatives
    <2>2. round' \in [Ranks -> 1..(Len(Rounds) + 1)]
      BY <1>3, <2>1 DEF CloseDerivatives
    <2>3. ASSUME NEW q \in Quantities
          PROVE  Total([p \in Ranks |-> pending[p][q]]) \in Derivatives
      <3>1. \A r \in Ranks : [p \in Ranks |-> pending[p][q]][r] \in Derivatives
        BY DEF TypeOK
      <3> QED
        BY <3>1, TotalType
    <2>4. rhs' \in [Quantities -> Derivatives]
      BY <1>3, <2>3 DEF CloseDerivatives
    <2> QED
      BY <1>3, <2>2, <2>4 DEF CloseDerivatives, TypeOK
  <1>4. ASSUME NEW p \in Ranks, StartPass(p) PROVE TypeOK'
    <2>1. Own(p) \subseteq Elements
      BY DEF Own
    <2>2. Each(Zero) \in [Quantities -> Sums]
          /\ Each(Zero) \in [Quantities -> Derivatives]
      BY SumTypes DEF Each
    <2> QED
      BY <1>4, <2>1, <2>2 DEF StartPass, TypeOK
  <1>5. ASSUME NEW p \in Ranks, NEW t \in Threads, Visit(p, t) PROVE TypeOK'
    <2>1. PICK e \in todo[p] :
            /\ todo' = [todo EXCEPT ![p] = @ \ {e}]
            /\ range' = [range EXCEPT ![p][t] = @ \union {e}]
            /\ VisitValue(p, t, e) \/ VisitDerivative(p, e)
      BY <1>5 DEF Visit
    <2>2. e \in Elements /\ level \in Nat
      BY DEF TypeOK
    <2>3. /\ todo' \in [Ranks -> SUBSET Elements]
          /\ range' \in [Ranks -> [Threads -> SUBSET Elements]]
      BY <2>1, <2>2 DEF TypeOK
    <2>4. body' \in [Ranks -> [Threads -> [Quantities -> Sums]]]
      <3>1. [q \in Quantities |-> Plus(body[p][t][q], Work(q, e, level))]
              \in [Quantities -> Sums]
        BY <2>2, SumTypes, WorkType DEF TypeOK
      <3>2. \/ body' = body
            \/ body' = [body EXCEPT ![p][t] =
                 [q \in Quantities |-> Plus(body[p][t][q], Work(q, e, level))]]
        BY <2>1 DEF VisitValue, VisitDerivative, TypeOK
      <3>3. body \in [Ranks -> [Threads -> [Quantities -> Sums]]]
        BY DEF TypeOK
      <3> DEFINE S == [Quantities -> Sums]
                 x == [q \in Quantities |->
                         Plus(body[p][t][q], Work(q, e, level))]
      <3> HIDE DEF S, x
      <3>4. x \in S /\ body \in [Ranks -> [Threads -> S]]
            /\ (body' = body \/ body' = [body EXCEPT ![p][t] = x])
        BY <3>1, <3>2, <3>3 DEF S, x
      <3>5. body' \in [Ranks -> [Threads -> S]]
        BY <3>4
      <3> QED
        BY <3>5 DEF S
    <2>5. pending' \in [Ranks -> [Quantities -> Derivatives]]
      <3>1. [q \in Quantities |->
               Plus(pending[p][q], DerivativeWork(q, e, level))]
              \in [Quantities -> Derivatives]
        BY <2>2, SumTypes, WorkType DEF TypeOK
      <3>2. \/ pending' = pending
            \/ pending' = [pending EXCEPT ![p] =
                 [q \in Quantities |->
                    Plus(pending[p][q], DerivativeWork(q, e, level))]]
        BY <2>1 DEF VisitValue, VisitDerivative, TypeOK
      <3> QED
        BY <3>1, <3>2 DEF TypeOK
    <2> QED
      BY <1>5, <2>3, <2>4, <2>5 DEF Visit, TypeOK
  <1>6. ASSUME NEW p \in Ranks, NEW t \in Threads, ThreadJoin(p, t)
        PROVE TypeOK'
    <2>1. Joined(p, t) \in [Quantities -> Sums]
      BY SumTypes, RootAssumption DEF Joined, TypeOK
    <2>2. Each(Zero) \in [Quantities -> Sums]
      BY SumTypes DEF Each
    <2>3. body' \in [Ranks -> [Threads -> [Quantities -> Sums]]]
      <3> DEFINE S == [Quantities -> Sums]
      <3>1. /\ Joined(p, t) \in S /\ Each(Zero) \in S
            /\ body \in [Ranks -> [Threads -> S]]
            /\ body' = [body EXCEPT ![p] = [@ EXCEPT ![Root] = Joined(p, t),
                                                    ![t] = Each(Zero)]]
        BY <1>6, <2>1, <2>2 DEF ThreadJoin, TypeOK
      <3> HIDE DEF S
      <3>2. body' \in [Ranks -> [Threads -> S]]
        BY <3>1
      <3> QED
        BY <3>2 DEF S
    <2>4. range' \in [Ranks -> [Threads -> SUBSET Elements]]
      <3> DEFINE S == SUBSET Elements
                 x == range[p][Root] \union range[p][t]
      <3>1. /\ x \in S /\ {} \in S /\ range \in [Ranks -> [Threads -> S]]
            /\ range' = [range EXCEPT ![p] = [@ EXCEPT ![Root] = x, ![t] = {}]]
        BY <1>6, RootAssumption DEF ThreadJoin, TypeOK
      <3> HIDE DEF S, x
      <3>2. range' \in [Ranks -> [Threads -> S]]
        BY <3>1
      <3> QED
        BY <3>2 DEF S
    <2> QED
      BY <1>6, <2>3, <2>4 DEF ThreadJoin, TypeOK
  <1>7. ASSUME NEW p \in Ranks, StartReduction(p) PROVE TypeOK'
    BY <1>7, QuantitiesType, RootAssumption DEF StartReduction, TypeOK
  <1>8. ASSUME NEW p \in Ranks, Store(p) PROVE TypeOK'
    <2>1. value' \in [Ranks -> [Quantities -> Sums]]
      BY <1>8 DEF Store, TypeOK
    <2>2. at' \in [Ranks -> Quantities]
      BY <1>8, QuantitiesType DEF Store, TypeOK
    <2>3. round' \in [Ranks -> 1..(Len(Rounds) + 1)]
      <3>1. round[p] + 1 \in 1..(Len(Rounds) + 1)
        BY <1>8, PassType DEF Store, Places
      <3> QED
        BY <1>8, <3>1 DEF Store, TypeOK
    <2>4. phase' \in [Ranks -> {"start", "visiting", "summing", "summed"}]
      BY <1>8 DEF Store, TypeOK
    <2> QED
      BY <1>8, <2>1, <2>2, <2>3, <2>4 DEF Store, TypeOK
  <1>9. CASE UNCHANGED vars
    BY <1>9 DEF vars, TypeOK
  <1> QED
    BY <1>1, <1>2, <1>3, <1>4, <1>5, <1>6, <1>7, <1>8, <1>9
    DEF Next, Collective, Rank

LEMMA PlacesInit == Init => Places
  BY DEF Init, Places, Pass

LEMMA PlacesNext == TypeOK /\ Places /\ [Next]_vars => Places'
  <1> SUFFICES ASSUME TypeOK, Places, [Next]_vars PROVE Places'
    OBVIOUS
  <1>1. CASE Solve
    BY <1>1 DEF Solve, Places, TypeOK, Pass
  <1>2. CASE Sum
    BY <1>2 DEF Sum, Places, TypeOK, Pass
  <1>3. CASE CloseDerivatives
    BY <1>3 DEF CloseDerivatives, Places, TypeOK, Pass
  <1>4. ASSUME NEW p \in Ranks, StartPass(p) PROVE Places'
    BY <1>4 DEF StartPass, Places, TypeOK, Pass
  <1>5. ASSUME NEW p \in Ranks, NEW t \in Threads, Visit(p, t) PROVE Places'
    BY <1>5 DEF Visit, Places, TypeOK, Pass
  <1>6. ASSUME NEW p \in Ranks, NEW t \in Threads, ThreadJoin(p, t)
        PROVE Places'
    BY <1>6 DEF ThreadJoin, Places, TypeOK, Pass
  <1>7. ASSUME NEW p \in Ranks, StartReduction(p) PROVE Places'
    BY <1>7 DEF StartReduction, Places, TypeOK, Pass
  <1>8. ASSUME NEW p \in Ranks, Store(p) PROVE Places'
    BY <1>8 DEF Store, Places, TypeOK, Pass
  <1>9. CASE UNCHANGED vars
    BY <1>9 DEF vars, Places, Pass
  <1> QED
    BY <1>1, <1>2, <1>3, <1>4, <1>5, <1>6, <1>7, <1>8, <1>9
    DEF Next, Collective, Rank

\* Every processor's passes and sums are of their types in every state.
THEOREM TypeCorrect == Spec => []TypeOK
  <1>1. Init => TypeOK /\ Places
    BY TypeInit, PlacesInit
  <1>2. TypeOK /\ Places /\ [Next]_vars => (TypeOK /\ Places)'
    BY TypeNext, PlacesNext
  <1> QED
    BY <1>1, <1>2, PTL DEF Spec

-----------------------------------------------------------------------------
(* The collective calls.                                                    *)

\* The next collective call a processor makes.
NextCall(p) ==
  IF phase[p] # "summed" THEN <<round[p], at[p]>>
  ELSE IF NextSum(p) \in Quantities THEN <<round[p], NextSum(p)>>
  ELSE <<round[p] + 1, 1>>

InStep == \A p, r \in Ranks : NextCall(p) = NextCall(r)

LEMMA InStepInit == Init => InStep
  BY DEF Init, InStep, NextCall

LEMMA InStepNext == TypeOK /\ Places /\ InStep /\ [Next]_vars => InStep'
  <1> SUFFICES ASSUME TypeOK, Places, InStep, [Next]_vars PROVE InStep'
    OBVIOUS
  <1> USE DEF NextCall, NextSum
  <1>1. CASE Solve
    <2>1. \A p \in Ranks : phase[p] = "start" /\ at[p] = 1
      BY <1>1 DEF Solve, Places, TypeOK
    <2> QED
      BY <1>1, <2>1 DEF Solve, InStep, TypeOK
  <1>2. CASE Sum
    BY <1>2 DEF Sum, InStep, TypeOK
  <1>3. CASE CloseDerivatives
    <2>1. \A p \in Ranks : phase[p] = "visiting" /\ at[p] = 1
      BY <1>3 DEF CloseDerivatives, Places, TypeOK
    <2> QED
      BY <1>3, <2>1 DEF CloseDerivatives, InStep, TypeOK
  <1>4. ASSUME NEW p \in Ranks, StartPass(p) PROVE InStep'
    BY <1>4 DEF StartPass, InStep, TypeOK
  <1>5. ASSUME NEW p \in Ranks, NEW t \in Threads, Visit(p, t) PROVE InStep'
    BY <1>5 DEF Visit, InStep, TypeOK
  <1>6. ASSUME NEW p \in Ranks, NEW t \in Threads, ThreadJoin(p, t)
        PROVE InStep'
    BY <1>6 DEF ThreadJoin, InStep, TypeOK
  <1>7. ASSUME NEW p \in Ranks, StartReduction(p) PROVE InStep'
    <2>1. ASSUME NEW r \in Ranks PROVE NextCall(r)' = NextCall(r)
      <3>1. round' = round
        BY <1>7 DEF StartReduction
      <3>2. phase[r] # "summed" <=> phase'[r] # "summed"
        BY <1>7 DEF StartReduction, TypeOK
      <3>3. at'[r] = at[r]
        BY <1>7 DEF StartReduction, TypeOK, Places
      <3> QED
        BY <3>1, <3>2, <3>3
    <2> HIDE DEF NextCall
    <2> QED
      BY <2>1 DEF InStep
  <1>8. ASSUME NEW p \in Ranks, Store(p) PROVE InStep'
    <2>1. ASSUME NEW r \in Ranks PROVE NextCall(r)' = NextCall(r)
      <3>1. CASE r # p
        <4>1. round'[r] = round[r] /\ phase'[r] = phase[r] /\ at'[r] = at[r]
          BY <1>8, <3>1 DEF Store, TypeOK
        <4> QED
          BY <4>1
      <3>2. CASE r = p /\ NextSum(p) \in Quantities
        <4>1. /\ round'[p] = round[p] /\ phase'[p] = "summing"
              /\ at'[p] = NextSum(p) /\ phase[p] = "summed"
          BY <1>8, <3>2 DEF Store, TypeOK
        <4> QED
          BY <4>1, <3>2
      <3>3. CASE r = p /\ NextSum(p) \notin Quantities
        <4>1. /\ round'[p] = round[p] + 1 /\ phase'[p] = "start"
              /\ at'[p] = 1 /\ phase[p] = "summed"
          BY <1>8, <3>3 DEF Store, TypeOK
        <4> QED
          BY <4>1, <3>3
      <3> QED
        BY <3>1, <3>2, <3>3
    <2> HIDE DEF NextCall
    <2> QED
      BY <2>1 DEF InStep
  <1>9. CASE UNCHANGED vars
    BY <1>9 DEF vars, InStep
  <1> QED
    BY <1>1, <1>2, <1>3, <1>4, <1>5, <1>6, <1>7, <1>8, <1>9
    DEF Next, Collective, Rank

-----------------------------------------------------------------------------
(* What the sums hold.                                                      *)

V(q) == [e \in Elements |-> Work(q, e, level)]
D(q) == [e \in Elements |-> DerivativeWork(q, e, level)]

\* While a processor visits elements: each thread's sums are over its range,
\* and the ranges and the elements left make up the processor's own.
Visited(p) ==
  /\ \A t, s \in Threads : t # s => range[p][t] \intersect range[p][s] = {}
  /\ \A t \in Threads : range[p][t] \intersect todo[p] = {}
  /\ todo[p] \union UNION {range[p][t] : t \in Threads} = Own(p)
  /\ \A q \in Quantities :
       /\ Pass(p) = "values" =>
            \A t \in Threads : body[p][t][q] = PartOf(V(q), range[p][t])
       /\ Pass(p) = "derivatives" =>
            pending[p][q] = PartOf(D(q), Own(p) \ todo[p])

\* In the reduction: the quantities not summed yet are the processor's part,
\* the one just summed is whole.
Reduced(p) ==
  \A q \in Quantities :
    /\ (q > at[p] \/ (q = at[p] /\ phase[p] = "summing")) =>
         local[p][q] = PartOf(V(q), Own(p))
    /\ (q = at[p] /\ phase[p] = "summed") => local[p][q] = Whole(q, level)

SumsAreParts ==
  \A p \in Ranks :
    /\ phase[p] = "visiting" => Visited(p)
    /\ phase[p] \in {"summing", "summed"} => Reduced(p)

LEMMA WorkIsSeparate ==
  ASSUME OneListedId, NEW q \in Quantities
  PROVE  Separate(V(q)) /\ Separate(D(q))
  <1>1. ASSUME NEW e \in Elements
        PROVE  /\ Work(q, e, level).once = TRUE
               /\ Work(q, e, level) = [items |-> Work(q, e, level).items,
                                       once |-> TRUE]
               /\ \A c \in Work(q, e, level).items : c[1] = e
    <2>1. SideIsOnce(q, e) = TRUE
      BY DEF OneListedId, SideIsOnce
    <2>2. Work(q, e, level) = [items |-> ElementItems(q, e, level) \union
                                         SideItems(q, e, level),
                               once |-> TRUE]
      BY <2>1 DEF Work
    <2>3. \A c \in ElementItems(q, e, level) : c[1] = e
      BY DEF ElementItems
    <2>4. \A c \in SideItems(q, e, level) : c[1] = e
      BY DEF SideItems
    <2> QED
      BY <2>2, <2>3, <2>4
  <1>2. ASSUME NEW e \in Elements
        PROVE  /\ DerivativeWork(q, e, level)
                    = [items |-> DerivativeWork(q, e, level).items,
                       once |-> TRUE]
               /\ \A c \in DerivativeWork(q, e, level).items : c[1][1] = e
    <2> DEFINE X == {<<c, v, i>> : c \in Work(q, e, level).items,
                                   v \in ReadBy(q), i \in DofLoop(q)}
    <2>0. /\ Work(q, e, level).once = TRUE
          /\ \A c \in Work(q, e, level).items : c[1] = e
      BY <1>1
    <2>1. DerivativeWork(q, e, level) = [items |-> X, once |-> TRUE]
      <3>1. DerivativeWork(q, e, level)
              = [items |-> X, once |-> Work(q, e, level).once]
        BY DEF DerivativeWork
      <3> DEFINE w == Work(q, e, level).once
      <3>2. w = TRUE
        BY <2>0
      <3> HIDE DEF w, X
      <3>3. DerivativeWork(q, e, level) = [items |-> X, once |-> w]
        BY <3>1 DEF w
      <3> QED
        BY <3>2, <3>3
    <2>2. \A c \in X : c[1][1] = e
      <3> DEFINE W == Work(q, e, level).items
      <3>1. \A c \in X : \E d \in W : \E v, i : c = <<d, v, i>>
        OBVIOUS
      <3>2. \A d \in W : d[1] = e
        BY <2>0
      <3> HIDE DEF W, X
      <3> QED
        BY <3>1, <3>2
    <2> HIDE DEF X
    <2> QED
      BY <2>1, <2>2
  <1>3. Separate(V(q))
    <2> SUFFICES ASSUME NEW e \in Elements, NEW f \in Elements
                 PROVE  /\ V(q)[e] = [items |-> V(q)[e].items, once |-> TRUE]
                        /\ e # f => V(q)[e].items \intersect V(q)[f].items = {}
      BY DEF Separate
    <2>1. V(q)[e] = Work(q, e, level) /\ V(q)[f] = Work(q, f, level)
      BY DEF V
    <2> QED
      BY <1>1, <2>1
  <1>4. Separate(D(q))
    BY <1>2 DEF Separate, D
  <1> QED
    BY <1>3, <1>4

\* The contributions of all elements are the quantity over its domain.
LEMMA AllIsWhole ==
  ASSUME NEW q \in Quantities
  PROVE  PartOf(V(q), Elements) = Whole(q, level)
  <1>1. ASSUME NEW e \in Elements, NEW c
        PROVE  c \in Work(q, e, level).items <=>
                 \E d \in Domain(q) : d[1] = e /\ c = <<d[1], d[2], level>>
    <2>1. CASE QoIs[q].kind = "nusselt"
      <3>1. Work(q, e, level).items = {<<e, s, level>> : s \in ListedSides(q, e)}
        BY <2>1 DEF Work, ElementItems, SideItems, AssembleSides
      <3> QED
        <4>1. BoundarySides[e] \subseteq Sides
          BY SidesAssumption
        <4>2. Domain(q) = {d \in Elements \X Sides :
                 /\ d[2] \in BoundarySides[d[1]]
                 /\ SideIds[d[1]][d[2]] \intersect QoIs[q].ids # {}}
          BY <2>1 DEF Domain
        <4>3. ASSUME NEW s \in ListedSides(q, e)
              PROVE  <<e, s>> \in Domain(q)
          BY <4>1, <4>2 DEF ListedSides
        <4>4. ASSUME NEW d \in Domain(q), d[1] = e
              PROVE  d[2] \in ListedSides(q, e)
          BY <4>2, <4>4 DEF ListedSides
        <4>5. ASSUME c \in Work(q, e, level).items
              PROVE  \E d \in Domain(q) : d[1] = e
                                         /\ c = <<d[1], d[2], level>>
          <5>1. PICK s \in ListedSides(q, e) : c = <<e, s, level>>
            BY <3>1, <4>5
          <5>2. /\ <<e, s>> \in Domain(q)
                /\ <<e, s>>[1] = e /\ <<e, s>>[2] = s
            BY <4>3
          <5> QED
            BY <5>1, <5>2
        <4>6. ASSUME NEW d \in Domain(q), d[1] = e,
                     c = <<d[1], d[2], level>>
              PROVE  c \in Work(q, e, level).items
          BY <3>1, <4>4, <4>6
        <4> QED
          BY <4>5, <4>6
    <2>2. CASE QoIs[q].kind = "vorticity"
      <3>1. Work(q, e, level).items = IF Subdomain[e] \in QoIs[q].ids
                                      THEN {<<e, Interior, level>>} ELSE {}
        BY <2>2 DEF Work, ElementItems, SideItems, AssembleElements
      <3> QED
        <4>1. Domain(q) = {d \in Elements \X {Interior} :
                             Subdomain[d[1]] \in QoIs[q].ids}
          BY <2>2 DEF Domain
        <4>2. Subdomain[e] \in QoIs[q].ids => <<e, Interior>> \in Domain(q)
          BY <4>1
        <4>3. \A d \in Domain(q) : d = <<d[1], Interior>> /\ d[2] = Interior
          BY <4>1
        <4>4. ASSUME c \in Work(q, e, level).items
              PROVE  \E d \in Domain(q) : d[1] = e
                                         /\ c = <<d[1], d[2], level>>
          <5>1. Subdomain[e] \in QoIs[q].ids /\ c = <<e, Interior, level>>
            BY <3>1, <4>4
          <5>2. /\ <<e, Interior>> \in Domain(q)
                /\ <<e, Interior>>[1] = e /\ <<e, Interior>>[2] = Interior
            BY <5>1, <4>2
          <5> QED
            BY <5>1, <5>2
        <4>5. ASSUME NEW d \in Domain(q), d[1] = e,
                     c = <<d[1], d[2], level>>
              PROVE  c \in Work(q, e, level).items
          BY <3>1, <4>1, <4>3, <4>5
        <4> QED
          BY <4>4, <4>5
    <2> QED
      BY <2>1, <2>2, QuantitiesType
  <1>2. \A d \in Domain(q) : d[1] \in Elements
    BY DEF Domain
  <1>3. UNION {V(q)[e].items : e \in Elements}
          = {<<d[1], d[2], level>> : d \in Domain(q)}
    <2>1. UNION {V(q)[e].items : e \in Elements}
            = UNION {Work(q, e, level).items : e \in Elements}
      BY DEF V
    <2>2. ASSUME NEW c, c \in UNION {Work(q, e, level).items : e \in Elements}
          PROVE  c \in {<<d[1], d[2], level>> : d \in Domain(q)}
      BY <2>2, <1>1
    <2>3. ASSUME NEW c, c \in {<<d[1], d[2], level>> : d \in Domain(q)}
          PROVE  c \in UNION {Work(q, e, level).items : e \in Elements}
      BY <2>3, <1>1, <1>2
    <2> QED
      BY <2>1, <2>2, <2>3
  <1> QED
    BY <1>3 DEF PartOf, Whole

\* What a step of another processor leaves alone.
LEMMA VisitedFrame ==
  ASSUME NEW r \in Ranks, level' = level, owner' = owner, Visited(r),
         todo'[r] = todo[r], range'[r] = range[r], body'[r] = body[r],
         pending'[r] = pending[r], round'[r] = round[r]
  PROVE  Visited(r)'
  BY DEF Visited, V, D, Own, Pass

LEMMA ReducedFrame ==
  ASSUME NEW r \in Ranks, level' = level, owner' = owner, Reduced(r),
         at'[r] = at[r], local'[r] = local[r], phase'[r] = phase[r]
  PROVE  Reduced(r)'
  BY DEF Reduced, V, Own

\* What a step inside a pass leaves alone.
LEMMA SameSolution ==
  ASSUME level' = level, owner' = owner
  PROVE  /\ \A q \in Quantities : V(q)' = V(q) /\ D(q)' = D(q)
         /\ \A p \in Ranks : Own(p)' = Own(p)
  BY DEF V, D, Own

LEMMA SamePass ==
  ASSUME NEW p \in Ranks, round'[p] = round[p]
  PROVE  Pass(p)' = Pass(p)
  BY DEF Pass

\* How a step inside a pass arrives at Visited.
LEMMA VisitedAfter ==
  ASSUME NEW p \in Ranks, level' = level, owner' = owner,
         round'[p] = round[p],
         \A t, s \in Threads : t # s => range'[p][t] \intersect range'[p][s] = {},
         \A t \in Threads : range'[p][t] \intersect todo'[p] = {},
         todo'[p] \union UNION {range'[p][t] : t \in Threads} = Own(p),
         \A q \in Quantities : Pass(p) = "values" =>
           \A t \in Threads : body'[p][t][q] = PartOf(V(q), range'[p][t]),
         \A q \in Quantities : Pass(p) = "derivatives" =>
           pending'[p][q] = PartOf(D(q), Own(p) \ todo'[p])
  PROVE  Visited(p)'
  <1>1. /\ Pass(p)' = Pass(p) /\ Own(p)' = Own(p)
        /\ \A q \in Quantities : V(q)' = V(q) /\ D(q)' = D(q)
    BY SameSolution, SamePass
  <1>2. \A q \in Quantities :
          /\ Pass(p)' = "values" => \A t \in Threads :
               body'[p][t][q] = PartOf(V(q)', range'[p][t])
          /\ Pass(p)' = "derivatives" =>
               pending'[p][q] = PartOf(D(q)', Own(p)' \ todo'[p])
    BY <1>1
  <1>3. todo'[p] \union UNION {range'[p][t] : t \in Threads} = Own(p)'
    BY <1>1
  <1> QED
    BY <1>2, <1>3 DEF Visited, PartOf

LEMMA SumsInit == Init => SumsAreParts
  BY DEF Init, SumsAreParts

LEMMA SumsVisit ==
  ASSUME OneListedId, TypeOK, SumsAreParts,
         NEW p \in Ranks, NEW t \in Threads, Visit(p, t)
  PROVE  Visited(p)'
  <1>1. PICK e \in todo[p] :
          /\ todo' = [todo EXCEPT ![p] = @ \ {e}]
          /\ range' = [range EXCEPT ![p][t] = @ \union {e}]
          /\ VisitValue(p, t, e) \/ VisitDerivative(p, e)
    BY DEF Visit
  <1>2. /\ Visited(p) /\ level' = level /\ owner' = owner /\ round' = round
    <2>1. phase[p] = "visiting" /\ level' = level /\ owner' = owner
          /\ round' = round
      BY DEF Visit
    <2> QED
      BY <2>1 DEF SumsAreParts
  <1>3. /\ e \in Elements /\ e \in Own(p)
        /\ \A s \in Threads : e \notin range[p][s]
        /\ \A s \in Threads : range[p][s] \in SUBSET Elements
        /\ todo'[p] = todo[p] \ {e}
        /\ range'[p][t] = range[p][t] \union {e}
        /\ \A s \in Threads : s # t => range'[p][s] = range[p][s]
    BY <1>1, <1>2 DEF TypeOK, Visited
  <1>4. \A s, u \in Threads : s # u => range'[p][s] \intersect range'[p][u] = {}
    BY <1>2, <1>3 DEF Visited
  <1>5. \A s \in Threads : range'[p][s] \intersect todo'[p] = {}
    BY <1>2, <1>3 DEF Visited
  <1>6. todo'[p] \union UNION {range'[p][s] : s \in Threads} = Own(p)
    <2>1. todo[p] \union UNION {range[p][s] : s \in Threads} = Own(p)
      BY <1>2 DEF Visited
    <2>2. ASSUME NEW c, c \in todo'[p] \union UNION {range'[p][s] : s \in Threads}
          PROVE  c \in Own(p)
      <3>1. CASE c \in todo'[p]
        BY <3>1, <2>1, <1>3
      <3>2. CASE \E s \in Threads : c \in range'[p][s]
        BY <3>2, <2>1, <1>3
      <3> QED
        BY <2>2, <3>1, <3>2
    <2>3. ASSUME NEW c, c \in Own(p)
          PROVE  c \in todo'[p] \union UNION {range'[p][s] : s \in Threads}
      <3>1. CASE c \in todo[p]
        BY <3>1, <1>3
      <3>2. CASE \E s \in Threads : c \in range[p][s]
        BY <3>2, <1>3
      <3> QED
        BY <2>1, <2>3, <3>1, <3>2
    <2> QED
      BY <2>2, <2>3
  <1>7. ASSUME NEW q \in Quantities, Pass(p) = "values", NEW s \in Threads
        PROVE  body'[p][s][q] = PartOf(V(q), range'[p][s])
    <2>1. body[p][s][q] = PartOf(V(q), range[p][s])
      BY <1>2, <1>7 DEF Visited
    <2>2. CASE s # t
      BY <1>1, <1>3, <1>7, <2>1, <2>2 DEF VisitValue, VisitDerivative, TypeOK
    <2>3. CASE s = t
      <3>1. body'[p][t][q] = Plus(body[p][t][q], Work(q, e, level))
        BY <1>1, <1>7 DEF VisitValue, VisitDerivative, TypeOK
      <3>2. V(q)[e] = Work(q, e, level)
        BY <1>3 DEF V
      <3>3. Plus(PartOf(V(q), range[p][t]), V(q)[e])
              = PartOf(V(q), range[p][t] \union {e})
        BY <1>3, PlusOne, WorkIsSeparate
      <3> QED
        BY <2>1, <2>3, <3>1, <3>2, <3>3, <1>3
    <2> QED
      BY <2>2, <2>3
  <1>8. ASSUME NEW q \in Quantities, Pass(p) = "derivatives"
        PROVE  pending'[p][q] = PartOf(D(q), Own(p) \ todo'[p])
    <2>1. pending[p][q] = PartOf(D(q), Own(p) \ todo[p])
      BY <1>2, <1>8 DEF Visited
    <2>2. pending'[p][q] = Plus(pending[p][q], DerivativeWork(q, e, level))
      BY <1>1, <1>8 DEF VisitValue, VisitDerivative, TypeOK
    <2>3. D(q)[e] = DerivativeWork(q, e, level)
      BY <1>3 DEF D
    <2>4. /\ Own(p) \ todo[p] \in SUBSET Elements
          /\ e \notin Own(p) \ todo[p]
          /\ (Own(p) \ todo[p]) \union {e} = Own(p) \ todo'[p]
      BY <1>3 DEF Own
    <2>5. Plus(PartOf(D(q), Own(p) \ todo[p]), D(q)[e])
            = PartOf(D(q), (Own(p) \ todo[p]) \union {e})
      BY <1>3, <2>4, PlusOne, WorkIsSeparate
    <2> QED
      BY <2>1, <2>2, <2>3, <2>4, <2>5
  <1> QED
    BY <1>2, <1>4, <1>5, <1>6, <1>7, <1>8, VisitedAfter

LEMMA SumsJoin ==
  ASSUME OneListedId, TypeOK, SumsAreParts,
         NEW p \in Ranks, NEW t \in Threads, ThreadJoin(p, t)
  PROVE  Visited(p)'
  <1>1. /\ Visited(p) /\ level' = level /\ owner' = owner /\ todo' = todo
        /\ round' = round /\ Pass(p) = "values"
        /\ t # Root /\ Root \in Threads
    <2>1. /\ phase[p] = "visiting" /\ level' = level /\ owner' = owner
          /\ todo' = todo /\ round' = round /\ Pass(p) = "values" /\ t # Root
      BY DEF ThreadJoin
    <2> QED
      BY <2>1, RootAssumption DEF SumsAreParts
  <1>2. /\ range'[p][Root] = range[p][Root] \union range[p][t]
        /\ range'[p][t] = {}
        /\ \A s \in Threads \ {t, Root} : range'[p][s] = range[p][s]
        /\ \A s \in Threads : range[p][s] \in SUBSET Elements
    BY <1>1 DEF ThreadJoin, TypeOK
  <1>3. \A s, u \in Threads : s # u => range'[p][s] \intersect range'[p][u] = {}
    BY <1>1, <1>2 DEF Visited
  <1>4. \A s \in Threads : range'[p][s] \intersect todo'[p] = {}
    BY <1>1, <1>2 DEF Visited
  <1>5. todo'[p] \union UNION {range'[p][s] : s \in Threads} = Own(p)
    <2>1. todo[p] \union UNION {range[p][s] : s \in Threads} = Own(p)
      BY <1>1 DEF Visited
    <2>2. ASSUME NEW c
          PROVE  (\E s \in Threads : c \in range'[p][s])
                   <=> (\E s \in Threads : c \in range[p][s])
      BY <1>1, <1>2
    <2> QED
      BY <1>1, <2>1, <2>2
  <1>6. ASSUME NEW q \in Quantities, NEW s \in Threads
        PROVE  body'[p][s][q] = PartOf(V(q), range'[p][s])
    <2>1. \A u \in Threads : body[p][u][q] = PartOf(V(q), range[p][u])
      BY <1>1 DEF Visited
    <2>2. CASE s = Root
      <3>1. body'[p][Root][q] = Plus(body[p][Root][q], body[p][t][q])
        BY <1>1 DEF ThreadJoin, Joined, TypeOK
      <3>2. range[p][Root] \intersect range[p][t] = {}
        BY <1>1 DEF Visited
      <3>3. Plus(PartOf(V(q), range[p][Root]), PartOf(V(q), range[p][t]))
              = PartOf(V(q), range[p][Root] \union range[p][t])
        BY <1>2, <1>1, <3>2, PlusParts, WorkIsSeparate
      <3> QED
        BY <1>1, <1>2, <2>1, <2>2, <3>1, <3>3
    <2>3. CASE s = t
      <3>1. body'[p][t][q] = Zero
        BY <1>1 DEF ThreadJoin, Each, TypeOK
      <3> QED
        BY <1>2, <2>3, <3>1, PartOfNothing
    <2>4. CASE s \notin {t, Root}
      BY <1>1, <1>2, <2>1, <2>4 DEF ThreadJoin, TypeOK
    <2> QED
      BY <2>2, <2>3, <2>4
  <1> QED
    BY <1>1, <1>3, <1>4, <1>5, <1>6, VisitedAfter

\* Steps of one processor leave the others' sums as they are.
LEMMA SumsOfOthers ==
  ASSUME SumsAreParts, NEW p \in Ranks, level' = level, owner' = owner,
         \A r \in Ranks \ {p} :
           /\ todo'[r] = todo[r] /\ range'[r] = range[r] /\ body'[r] = body[r]
           /\ pending'[r] = pending[r] /\ round'[r] = round[r]
           /\ at'[r] = at[r] /\ local'[r] = local[r] /\ phase'[r] = phase[r],
         phase'[p] = "visiting" => Visited(p)',
         phase'[p] \in {"summing", "summed"} => Reduced(p)'
  PROVE  SumsAreParts'
  <1> SUFFICES ASSUME NEW r \in Ranks
               PROVE  /\ phase'[r] = "visiting" => Visited(r)'
                      /\ phase'[r] \in {"summing", "summed"} => Reduced(r)'
    BY DEF SumsAreParts
  <1>1. CASE r = p
    BY <1>1
  <1>2. CASE r # p
    <2>1. /\ todo'[r] = todo[r] /\ range'[r] = range[r] /\ body'[r] = body[r]
          /\ pending'[r] = pending[r] /\ round'[r] = round[r]
          /\ at'[r] = at[r] /\ local'[r] = local[r] /\ phase'[r] = phase[r]
      BY <1>2
    <2>2. /\ phase[r] = "visiting" => Visited(r)
          /\ phase[r] \in {"summing", "summed"} => Reduced(r)
      BY DEF SumsAreParts
    <2> QED
      BY <2>1, <2>2, VisitedFrame, ReducedFrame
  <1> QED
    BY <1>1, <1>2

LEMMA SumsStart ==
  ASSUME TypeOK, SumsAreParts, NEW p \in Ranks, StartPass(p)
  PROVE  Visited(p)'
  <1>1. /\ level' = level /\ owner' = owner /\ round' = round
        /\ todo'[p] = Own(p) /\ pending'[p] = Each(Zero)
        /\ \A t \in Threads : range'[p][t] = {} /\ body'[p][t] = Each(Zero)
    BY DEF StartPass, TypeOK
  <1>2. \A q \in Quantities : Each(Zero)[q] = Zero
    BY DEF Each
  <1>3. Own(p) \ todo'[p] = {}
    BY <1>1
  <1>4. todo'[p] \union UNION {range'[p][t] : t \in Threads} = Own(p)
    BY <1>1
  <1> QED
    BY <1>1, <1>2, <1>3, <1>4, PartOfNothing, VisitedAfter

LEMMA SumsReduction ==
  ASSUME TypeOK, SumsAreParts, NEW p \in Ranks, StartReduction(p)
  PROVE  Reduced(p)'
  <1>1. /\ phase[p] = "visiting" /\ Pass(p) = "values" /\ AllJoined(p)
        /\ level' = level /\ owner' = owner
        /\ local'[p] = body[p][Root]
    BY DEF StartReduction, TypeOK
  <1>2. Visited(p)
    BY <1>1 DEF SumsAreParts
  <1>3. range[p][Root] = Own(p)
    <2>1. todo[p] \union UNION {range[p][t] : t \in Threads} = Own(p)
      BY <1>2 DEF Visited
    <2>2. todo[p] = {} /\ \A t \in Threads \ {Root} : range[p][t] = {}
      BY <1>1 DEF AllJoined
    <2> QED
      BY <2>1, <2>2, RootAssumption
  <1>4. \A q \in Quantities : local'[p][q] = PartOf(V(q), Own(p))
    BY <1>1, <1>2, <1>3, RootAssumption DEF Visited
  <1>5. \A q \in Quantities : local'[p][q] = PartOf(V(q)', Own(p)')
    BY <1>1, <1>4, SameSolution
  <1>6. phase'[p] = "summing"
    BY DEF StartReduction, TypeOK
  <1> QED
    BY <1>5, <1>6 DEF Reduced

\* The collective sum: everybody is in the sum of the same quantity.
LEMMA SumsTogether ==
  ASSUME OneListedId, TypeOK, InStep, SumsAreParts, NEW p \in Ranks, Sum
  PROVE  Reduced(p)'
  <1>1. /\ level' = level /\ owner' = owner /\ at' = at
        /\ \A r \in Ranks : phase[r] = "summing" /\ phase'[r] = "summed"
    BY DEF Sum
  <1>2. \A r \in Ranks : at[r] = at[p] /\ Reduced(r)
    <2>1. \A r \in Ranks : Reduced(r)
      BY <1>1 DEF SumsAreParts
    <2>2. \A r \in Ranks : <<round[r], at[r]>> = <<round[p], at[p]>>
      BY <1>1 DEF InStep, NextCall
    <2> QED
      BY <2>1, <2>2
  <1> DEFINE q == at[p]
             v == [r \in Ranks |-> local[r][at[r]]]
  <1>3. q \in Quantities
    BY DEF TypeOK
  <1>4. \A r \in Ranks : v[r] = PartOf(V(q), Own(r))
    BY <1>1, <1>2, <1>3 DEF Reduced
  <1>5. Total(v) = PartOf(V(q), Elements)
    <2>1. owner \in [Elements -> Ranks]
      BY DEF TypeOK
    <2> HIDE DEF v, q
    <2> QED
      BY <1>3, <1>4, <2>1, TotalOfParts, WorkIsSeparate
  <1>6. Total(v) = Whole(q, level)
    BY <1>3, <1>5, AllIsWhole
  <1>7. local'[p] = [local[p] EXCEPT ![q] = Total(v)]
    BY DEF Sum
  <1>8. local'[p][q] = Whole(q, level)
        /\ \A s \in Quantities : s # q => local'[p][s] = local[p][s]
    <2> HIDE DEF v, q
    <2> QED
      BY <1>3, <1>6, <1>7 DEF TypeOK
  <1>9. \A s \in Quantities : s > q => local[p][s] = PartOf(V(s), Own(p))
    BY <1>2 DEF Reduced
  <1>10. \A s \in Quantities : s > q => s # q
    BY <1>3, QuantitiesType
  <1>11. \A s \in Quantities : V(s)' = V(s) /\ Own(p)' = Own(p)
    BY <1>1, SameSolution
  <1>12. \A s \in Quantities :
           s > at'[p] => local'[p][s] = PartOf(V(s)', Own(p)')
    BY <1>1, <1>8, <1>9, <1>10, <1>11
  <1>13. phase'[p] = "summed" /\ local'[p][at'[p]] = Whole(at'[p], level')
    BY <1>1, <1>8
  <1> QED
    BY <1>12, <1>13 DEF Reduced

LEMMA SumsStore ==
  ASSUME TypeOK, SumsAreParts, NEW p \in Ranks, Store(p),
         NextSum(p) \in Quantities
  PROVE  Reduced(p)'
  <1>1. /\ phase[p] = "summed" /\ at'[p] = at[p] + 1 /\ phase'[p] = "summing"
        /\ level' = level /\ owner' = owner /\ local' = local
    BY DEF Store, NextSum, TypeOK
  <1>2. Reduced(p)
    BY <1>1 DEF SumsAreParts
  <1>3. ASSUME NEW q \in Quantities, q > at'[p] \/ q = at'[p]
        PROVE  local'[p][q] = PartOf(V(q)', Own(p)')
    <2>1. q > at[p]
      <3>1. at[p] \in Quantities /\ q \in Quantities
        BY DEF TypeOK
      <3>2. at[p] \in Nat /\ q \in Nat /\ at'[p] = at[p] + 1
        BY <1>1, <3>1, QuantitiesType
      <3> QED
        BY <1>3, <3>2
    <2>2. local[p][q] = PartOf(V(q), Own(p))
      BY <1>2, <2>1 DEF Reduced
    <2> QED
      BY <1>1, <2>2, SameSolution
  <1> QED
    BY <1>1, <1>3 DEF Reduced

LEMMA SumsNext ==
  ASSUME OneListedId, TypeOK, Places, InStep, SumsAreParts, [Next]_vars
  PROVE  SumsAreParts'
  <1>1. CASE Solve
    <2>1. \A p \in Ranks : phase'[p] = "start"
      BY <1>1 DEF Solve, Places, TypeOK
    <2> QED
      BY <2>1 DEF SumsAreParts
  <1>2. CASE Sum
    <2>1. \A p \in Ranks : phase'[p] = "summed"
      BY <1>2 DEF Sum
    <2> QED
      BY <1>2, <2>1, SumsTogether DEF SumsAreParts
  <1>3. CASE CloseDerivatives
    <2>1. \A p \in Ranks : phase'[p] = "start"
      BY <1>3 DEF CloseDerivatives
    <2> QED
      BY <2>1 DEF SumsAreParts
  <1>4. ASSUME NEW p \in Ranks, StartPass(p) PROVE SumsAreParts'
    <2>1. phase'[p] = "visiting" /\ Visited(p)'
      BY <1>4, SumsStart DEF StartPass, TypeOK
    <2> QED
      BY <1>4, <2>1, SumsOfOthers DEF StartPass, TypeOK
  <1>5. ASSUME NEW p \in Ranks, NEW t \in Threads, Visit(p, t)
        PROVE  SumsAreParts'
    <2>1. Visited(p)' /\ phase'[p] = "visiting"
      BY <1>5, SumsVisit DEF Visit
    <2>2. PICK e \in todo[p] :
            /\ todo' = [todo EXCEPT ![p] = @ \ {e}]
            /\ range' = [range EXCEPT ![p][t] = @ \union {e}]
            /\ VisitValue(p, t, e) \/ VisitDerivative(p, e)
      BY <1>5 DEF Visit
    <2>3. \A r \in Ranks \ {p} : body'[r] = body[r] /\ pending'[r] = pending[r]
      BY <2>2 DEF VisitValue, VisitDerivative, TypeOK
    <2>4. \A r \in Ranks \ {p} : todo'[r] = todo[r] /\ range'[r] = range[r]
      BY <2>2 DEF TypeOK
    <2>5. UNCHANGED <<owner, level, round, phase, at, local>>
      BY <1>5 DEF Visit
    <2> QED
      BY <2>1, <2>3, <2>4, <2>5, SumsOfOthers
  <1>6. ASSUME NEW p \in Ranks, NEW t \in Threads, ThreadJoin(p, t)
        PROVE  SumsAreParts'
    <2>1. Visited(p)' /\ phase'[p] = "visiting"
      BY <1>6, SumsJoin DEF ThreadJoin
    <2>2. \A r \in Ranks \ {p} : body'[r] = body[r] /\ range'[r] = range[r]
      BY <1>6 DEF ThreadJoin, TypeOK
    <2>3. UNCHANGED <<owner, level, round, phase, todo, at, local, pending>>
      BY <1>6 DEF ThreadJoin
    <2> QED
      BY <2>1, <2>2, <2>3, SumsOfOthers
  <1>7. ASSUME NEW p \in Ranks, StartReduction(p) PROVE SumsAreParts'
    <2>1. Reduced(p)' /\ phase'[p] = "summing"
      BY <1>7, SumsReduction DEF StartReduction, TypeOK
    <2>2. \A r \in Ranks \ {p} : /\ local'[r] = local[r] /\ at'[r] = at[r]
                                 /\ phase'[r] = phase[r]
      BY <1>7 DEF StartReduction, TypeOK
    <2>3. UNCHANGED <<owner, level, round, todo, range, body, pending>>
      BY <1>7 DEF StartReduction
    <2> QED
      BY <2>1, <2>2, <2>3, SumsOfOthers
  <1>8. ASSUME NEW p \in Ranks, Store(p) PROVE SumsAreParts'
    <2>1. phase'[p] # "visiting"
          /\ (phase'[p] \in {"summing", "summed"} => Reduced(p)')
      <3>1. CASE NextSum(p) \in Quantities
        BY <1>8, <3>1, SumsStore DEF Store, TypeOK
      <3>2. CASE NextSum(p) \notin Quantities
        BY <1>8, <3>2 DEF Store, TypeOK
      <3> QED
        BY <3>1, <3>2
    <2>2. \A r \in Ranks \ {p} : /\ at'[r] = at[r] /\ phase'[r] = phase[r]
                                 /\ round'[r] = round[r]
      BY <1>8 DEF Store, TypeOK
    <2>3. UNCHANGED <<owner, level, todo, range, body, local, pending>>
      BY <1>8 DEF Store
    <2> QED
      BY <2>1, <2>2, <2>3, SumsOfOthers
  <1>9. CASE UNCHANGED vars
    <2>1. \A p \in Ranks :
            /\ phase[p] = "visiting" => Visited(p)'
            /\ phase[p] \in {"summing", "summed"} => Reduced(p)'
      BY <1>9, VisitedFrame, ReducedFrame DEF vars, SumsAreParts
    <2>2. phase' = phase
      BY <1>9 DEF vars
    <2> QED
      BY <2>1, <2>2 DEF SumsAreParts
  <1> QED
    BY <1>1, <1>2, <1>3, <1>4, <1>5, <1>6, <1>7, <1>8, <1>9
    DEF Next, Collective, Rank

SumsInv == TypeOK /\ Places /\ InStep /\ SumsAreParts

LEMMA SumsInvariant == ASSUME OneListedId PROVE Spec => []SumsInv
  <1>1. Init => SumsInv
    BY TypeInit, PlacesInit, InStepInit, SumsInit DEF SumsInv
  <1>2. SumsInv /\ [Next]_vars => SumsInv'
    BY TypeNext, PlacesNext, InStepNext, SumsNext DEF SumsInv
  <1> QED
    BY <1>1, <1>2, PTL DEF Spec

-----------------------------------------------------------------------------
(* The promise.                                                             *)

\* Whichever processor owns an element and whichever thread visits it, what
\* CompositeQoI::parallel_op leaves in _qoi_value is the quantity over the
\* whole domain in the latest solution, provided no side carries two of the
\* boundary ids of one quantity.
THEOREM Implements == ASSUME OneListedId PROVE Spec => SumSpec
  <1>1. Init => Promise!Init
    BY DEF Init, Promise!Init, Each
  <1>2. SumsInv /\ [Next]_vars => [Promise!Next]_<<level, value>>
    <2> SUFFICES ASSUME SumsInv, [Next]_vars
                 PROVE  Promise!Next \/ UNCHANGED <<level, value>>
      OBVIOUS
    <2>1. CASE Solve
      BY <2>1 DEF Solve, Promise!Next, Promise!Solve
    <2>2. ASSUME NEW p \in Ranks, Store(p) PROVE Promise!Next
      <3>1. at[p] \in Quantities /\ phase[p] = "summed" /\ Reduced(p)
        BY <2>2 DEF Store, SumsInv, SumsAreParts, TypeOK
      <3>2. local[p][at[p]] = Whole(at[p], level)
        BY <3>1 DEF Reduced
      <3>3. /\ value' = [value EXCEPT ![p][at[p]] = local[p][at[p]]]
            /\ level' = level
        BY <2>2 DEF Store
      <3>4. Promise!Tell(p, at[p])
        BY <3>2, <3>3 DEF Promise!Tell
      <3> QED
        BY <3>1, <3>4 DEF Promise!Next
    <2>3. CASE Sum \/ CloseDerivatives
      BY <2>3 DEF Sum, CloseDerivatives
    <2>4. ASSUME NEW p \in Ranks, StartPass(p) \/ StartReduction(p)
          PROVE  UNCHANGED <<level, value>>
      BY <2>4 DEF StartPass, StartReduction
    <2>5. ASSUME NEW p \in Ranks, NEW t \in Threads,
                 Visit(p, t) \/ ThreadJoin(p, t)
          PROVE  UNCHANGED <<level, value>>
      BY <2>5 DEF Visit, ThreadJoin
    <2>6. CASE UNCHANGED vars
      BY <2>6 DEF vars
    <2> QED
      BY <2>1, <2>2, <2>3, <2>4, <2>5, <2>6 DEF Next, Collective, Rank
  <1> QED
    BY <1>1, <1>2, SumsInvariant, PTL DEF Spec, SumSpec, Promise!Spec

-----------------------------------------------------------------------------
(* The derivatives.                                                         *)

\* Each variable a quantity reads has as many unknowns as the loop has steps.
DofsAgree == \A q \in Quantities : \A v \in ReadBy(q) :
               DofLoop(q) = 0..(Dofs[v] - 1)

\* The derivatives of all elements.
LEMMA DerivativesOfAll ==
  ASSUME DofsAgree, NEW q \in Quantities
  PROVE  PartOf(D(q), Elements) = WholeDerivative(q, level)
  <1> DEFINE W == Whole(q, level).items
             A == UNION {D(q)[e].items : e \in Elements}
             B == UNION {{<<c, v, i>> : c \in W, i \in 0..(Dofs[v] - 1)} :
                           v \in ReadBy(q)}
  <1>1. W = UNION {Work(q, e, level).items : e \in Elements}
    <2>1. PartOf(V(q), Elements).items = UNION {V(q)[e].items : e \in Elements}
      BY PartFields
    <2>2. UNION {V(q)[e].items : e \in Elements}
            = UNION {Work(q, e, level).items : e \in Elements}
      BY DEF V
    <2> QED
      BY <2>1, <2>2, AllIsWhole
  <1>2. \A e \in Elements : D(q)[e].items =
           {<<c, v, i>> : c \in Work(q, e, level).items,
                          v \in ReadBy(q), i \in DofLoop(q)}
    BY DEF D, DerivativeWork
  <1>3. \A v \in ReadBy(q) : DofLoop(q) = 0..(Dofs[v] - 1)
    BY DEF DofsAgree
  <1>4. A = B
    <2> HIDE DEF W
    <2>1. ASSUME NEW x, x \in A PROVE x \in B
      <3>1. PICK e \in Elements : x \in D(q)[e].items
        BY <2>1
      <3>2. PICK c \in Work(q, e, level).items, v \in ReadBy(q),
                 i \in DofLoop(q) : x = <<c, v, i>>
        BY <3>1, <1>2
      <3>3. c \in W /\ i \in 0..(Dofs[v] - 1)
        BY <3>2, <1>1, <1>3
      <3> QED
        BY <3>2, <3>3
    <2>2. ASSUME NEW x, x \in B PROVE x \in A
      <3>1. PICK v \in ReadBy(q) :
              x \in {<<c, v, i>> : c \in W, i \in 0..(Dofs[v] - 1)}
        BY <2>2
      <3>2. PICK c \in W, i \in 0..(Dofs[v] - 1) : x = <<c, v, i>>
        BY <3>1
      <3>3. PICK e \in Elements : c \in Work(q, e, level).items
        BY <1>1
      <3>4. x \in D(q)[e].items
        <4>1. v \in ReadBy(q) /\ i \in DofLoop(q)
          BY <3>1, <3>2, <1>3
        <4> QED
          BY <3>2, <3>3, <4>1, <1>2
      <3> QED
        BY <3>4
    <2> QED
      BY <2>1, <2>2
  <1>5. PartOf(D(q), Elements) = [items |-> A, once |-> TRUE]
    BY DEF PartOf
  <1>6. WholeDerivative(q, level) = [items |-> B, once |-> TRUE]
    BY DEF WholeDerivative
  <1> HIDE DEF A, B, W
  <1> QED
    BY <1>4, <1>5, <1>6

\* Closing the right-hand sides adds up every processor's part.
LEMMA CloseIsWhole ==
  ASSUME OneListedId, DofsAgree, SumsInv, CloseDerivatives,
         NEW q \in Quantities
  PROVE  rhs'[q] = WholeDerivative(q, level)
  <1> DEFINE v == [p \in Ranks |-> pending[p][q]]
  <1>1. ASSUME NEW p \in Ranks PROVE v[p] = PartOf(D(q), Own(p))
    <2>1. phase[p] = "visiting" /\ Pass(p) = "derivatives" /\ todo[p] = {}
      BY DEF CloseDerivatives
    <2>2. Visited(p)
      BY <2>1 DEF SumsInv, SumsAreParts
    <2>3. pending[p][q] = PartOf(D(q), Own(p) \ todo[p])
      BY <2>1, <2>2 DEF Visited
    <2>4. Own(p) \ todo[p] = Own(p)
      BY <2>1
    <2> QED
      BY <2>3, <2>4
  <1>2. Separate(D(q)) /\ owner \in [Elements -> Ranks]
    BY WorkIsSeparate DEF SumsInv, TypeOK
  <1>3. rhs'[q] = Total(v)
    BY DEF CloseDerivatives
  <1>4. Total(v) = PartOf(D(q), Elements)
    <2> HIDE DEF v
    <2> QED
      BY <1>1, <1>2, TotalOfParts
  <1> QED
    BY <1>3, <1>4, DerivativesOfAll

\* Provided the variables a quantity depends on have the number of unknowns
\* its derivative loops over, the right-hand side of its adjoint problem has
\* the entries of the value's parts, each once.
THEOREM DerivativeCorrect ==
  ASSUME OneListedId, DofsAgree PROVE Spec => []DerivativeIsOfValue
  <1> DEFINE OfLevel(q) == rhs[q] = Zero
                           \/ \E l \in 0..level : rhs[q] = WholeDerivative(q, l)
             DInv == \A q \in Quantities : OfLevel(q)
  <1>1. Init => DInv
    BY DEF Init, Each
  <1>2. SumsInv /\ DInv /\ [Next]_vars => DInv'
    <2> SUFFICES ASSUME SumsInv, DInv, [Next]_vars PROVE DInv'
      OBVIOUS
    <2>0. level \in Nat
      BY DEF SumsInv, TypeOK
    <2>1. CASE CloseDerivatives
      <3>1. level \in 0..level /\ level' = level
        BY <2>0, <2>1 DEF CloseDerivatives
      <3>2. \A q \in Quantities : rhs'[q] = WholeDerivative(q, level)
        BY <2>1, CloseIsWhole
      <3> QED
        BY <3>1, <3>2
    <2>2. CASE rhs' = rhs /\ (level' = level \/ level' = level + 1)
      <3>1. 0..level \subseteq 0..level'
        BY <2>0, <2>2
      <3>2. ASSUME NEW q \in Quantities PROVE OfLevel(q)'
        <4>1. OfLevel(q)
          OBVIOUS
        <4> QED
          BY <2>2, <3>1, <4>1
      <3> QED
        BY <3>2
    <2>3. \/ CloseDerivatives
          \/ rhs' = rhs /\ (level' = level \/ level' = level + 1)
      <3>1. CASE Solve \/ Sum
        BY <3>1 DEF Solve, Sum
      <3>2. ASSUME NEW p \in Ranks,
                   StartPass(p) \/ StartReduction(p) \/ Store(p)
            PROVE  rhs' = rhs /\ level' = level
        BY <3>2 DEF StartPass, StartReduction, Store
      <3>3. ASSUME NEW p \in Ranks, NEW t \in Threads,
                   Visit(p, t) \/ ThreadJoin(p, t)
            PROVE  rhs' = rhs /\ level' = level
        BY <3>3 DEF Visit, ThreadJoin
      <3>4. CASE UNCHANGED vars
        BY <3>4 DEF vars
      <3> QED
        BY <3>1, <3>2, <3>3, <3>4 DEF Next, Collective, Rank
    <2> QED
      BY <2>1, <2>2, <2>3
  <1>3. DInv => DerivativeIsOfValue
    BY DEF DerivativeIsOfValue
  <1> HIDE DEF DInv
  <1> QED
    BY <1>1, <1>2, <1>3, SumsInvariant, PTL DEF Spec
-----------------------------------------------------------------------------
(* The end.  Some processor or all of them together can go on, and every    *)
(* step brings a processor nearer to the end of the program.                *)

\* Threads whose elements have not been joined yet.
Unjoined(p) == {t \in Threads \ {Root} : range[p][t] # {}}

\* A bound on the steps of a processor in a pass, and those it has to make
\* in this pass and in the program.
StepsOfPass == 2 * Cardinality(Elements) + 2 * Len(QoIs) + 2
LeftInPass(p) ==
  CASE phase[p] = "start" -> 2 * Cardinality(Elements) + 2 * Len(QoIs) + 1
    [] phase[p] = "visiting" -> 2 * Cardinality(todo[p])
                                  + Cardinality(Unjoined(p)) + 2 * Len(QoIs)
    [] phase[p] = "summing" -> 2 * (Len(QoIs) - at[p]) + 1
    [] phase[p] = "summed" -> 2 * (Len(QoIs) - at[p])
StepsLeft(p) == (Len(Rounds) + 1 - round[p]) * StepsOfPass + LeftInPass(p)

\* Until the processors have reached the end of the program, one of them goes
\* on by itself or all of them meet in one collective call: for any number of
\* processors, elements and passes.
THEOREM NobodyIsLeftWaiting == Spec => []ProcessorsMeet
  <1>1. ASSUME TypeOK, Places, InStep, \A p \in Ranks : ~GoesOn(p)
        PROVE  AllEnd \/ AllMeet
    <2>1. ASSUME NEW p \in Ranks
          PROVE  \/ phase[p] = "start" /\ Pass(p) \in {"solve", "end"}
                 \/ /\ phase[p] = "visiting" /\ Pass(p) = "derivatives"
                    /\ todo[p] = {}
                 \/ phase[p] = "summing" /\ Pass(p) = "values"
      <3>1. /\ phase[p] \in {"start", "visiting", "summing", "summed"}
            /\ Pass(p) \in Passes \union {"end"}
        BY <1>1, PassType DEF TypeOK
      <3> QED
        BY <1>1, <3>1 DEF GoesOn, Places, Passes
    <2>2. ASSUME NEW p \in Ranks, NEW r \in Ranks
          PROVE  Pass(p) = Pass(r)
      <3>1. NextCall(p) = <<round[p], at[p]>>
            /\ NextCall(r) = <<round[r], at[r]>>
        BY <2>1 DEF NextCall
      <3>2. round[p] = round[r]
        BY <1>1, <3>1 DEF InStep
      <3> QED
        BY <3>2 DEF Pass
    <2>3. CASE \A p \in Ranks : Pass(p) = "end"
      BY <2>3 DEF AllEnd
    <2>4. ASSUME NEW r \in Ranks, Pass(r) # "end"
          PROVE  AllMeet
      <3>1. \A p \in Ranks : Pass(p) = Pass(r)
        BY <2>2
      <3> QED
        BY <2>1, <2>4, <3>1 DEF AllMeet
    <2> QED
      BY <2>3, <2>4
  <1>2. Init => TypeOK /\ Places /\ InStep
    BY TypeInit, PlacesInit, InStepInit
  <1>3. TypeOK /\ Places /\ InStep /\ [Next]_vars
          => (TypeOK /\ Places /\ InStep)'
    BY TypeNext, PlacesNext, InStepNext
  <1>4. TypeOK /\ Places /\ InStep => ProcessorsMeet
    BY <1>1 DEF ProcessorsMeet
  <1> QED
    BY <1>2, <1>3, <1>4, PTL DEF Spec

\* One round less outweighs what a pass adds.
LEMMA ARoundLess ==
  ASSUME NEW n \in Nat, NEW s \in Nat, NEW a \in Nat, NEW b \in Nat, b < s
  PROVE  /\ n * s \in Nat
         /\ (n + 1) * s = n * s + s
         /\ n * s + b < (n + 1) * s + a
  <1>1. n * s \in Nat /\ (n + 1) * s = n * s + s
    OBVIOUS
  <1> DEFINE product == n * s
  <1> HIDE DEF product
  <1>2. product \in Nat /\ (n + 1) * s = product + s
    BY <1>1 DEF product
  <1>3. product + b < (n + 1) * s + a
    BY <1>2
  <1> QED
    BY <1>1, <1>3 DEF product

\* The counts of a pass are natural numbers.
LEMMA CountsAreNatural ==
  ASSUME IsFiniteSet(Elements), IsFiniteSet(Threads), TypeOK,
         NEW p \in Ranks
  PROVE  /\ Cardinality(Elements) \in Nat /\ Len(QoIs) \in Nat
         /\ IsFiniteSet(todo[p]) /\ Cardinality(todo[p]) \in Nat
         /\ Cardinality(todo[p]) <= Cardinality(Elements)
         /\ IsFiniteSet(Unjoined(p)) /\ Cardinality(Unjoined(p)) \in Nat
         /\ at[p] \in 1..Len(QoIs)
         /\ LeftInPass(p) \in Nat
         /\ StepsOfPass \in Nat
  <1>1. Cardinality(Elements) \in Nat /\ Len(QoIs) \in Nat
    BY FS_CardinalityType, QuantitiesType
  <1>2. todo[p] \in SUBSET Elements
    BY DEF TypeOK
  <1>3. /\ IsFiniteSet(todo[p])
        /\ Cardinality(todo[p]) <= Cardinality(Elements)
    BY <1>2, FS_Subset
  <1>4. Cardinality(todo[p]) \in Nat
    BY <1>3, FS_CardinalityType
  <1>5. Unjoined(p) \in SUBSET Threads
    BY DEF Unjoined
  <1>6. IsFiniteSet(Unjoined(p))
    BY <1>5, FS_Subset
  <1>7. Cardinality(Unjoined(p)) \in Nat
    BY <1>6, FS_CardinalityType
  <1>8. /\ at[p] \in 1..Len(QoIs)
        /\ phase[p] \in {"start", "visiting", "summing", "summed"}
    BY DEF TypeOK, Quantities
  <1>9. LeftInPass(p) \in Nat
    <2>1. CASE phase[p] = "start"
      BY <1>1, <2>1 DEF LeftInPass
    <2>2. CASE phase[p] = "visiting"
      BY <1>1, <1>4, <1>7, <2>2 DEF LeftInPass
    <2>3. CASE phase[p] = "summing"
      BY <1>1, <1>8, <2>3 DEF LeftInPass
    <2>4. CASE phase[p] = "summed"
      BY <1>1, <1>8, <2>4 DEF LeftInPass
    <2> QED
      BY <1>8, <2>1, <2>2, <2>3, <2>4
  <1> QED
    BY <1>1, <1>3, <1>4, <1>6, <1>7, <1>8, <1>9 DEF StepsOfPass

\* The steps left are a natural number.
LEMMA StepsAreCounted ==
  ASSUME IsFiniteSet(Elements), IsFiniteSet(Threads), TypeOK,
         NEW p \in Ranks
  PROVE  StepsLeft(p) \in Nat
  <1>1. Len(Rounds) + 1 - round[p] \in Nat
    BY RoundsAssumption DEF TypeOK
  <1>2. StepsOfPass \in Nat /\ LeftInPass(p) \in Nat
    BY CountsAreNatural
  <1>3. (Len(Rounds) + 1 - round[p]) * StepsOfPass \in Nat
    <2> DEFINE n == Len(Rounds) + 1 - round[p]
               s == StepsOfPass
    <2> HIDE DEF n, s
    <2>1. n \in Nat /\ s \in Nat
      BY <1>1, <1>2 DEF n, s
    <2>2. n * s \in Nat
      BY <2>1
    <2> QED
      BY <2>2 DEF n, s
  <1> QED
    BY <1>2, <1>3 DEF StepsLeft

\* A processor that stays in its round has fewer steps left if it has fewer
\* in its pass; one that enters the next round begins a new pass.
LEMMA FewerInPass ==
  ASSUME IsFiniteSet(Elements), IsFiniteSet(Threads), TypeOK, TypeOK',
         NEW p \in Ranks, round'[p] = round[p],
         LeftInPass(p)' < LeftInPass(p)
  PROVE  StepsLeft(p)' < StepsLeft(p)
  <1> DEFINE product == (Len(Rounds) + 1 - round[p]) * StepsOfPass
  <1>1. LeftInPass(p)' \in Int
    <2>1. /\ Cardinality(todo'[p]) \in Nat
          /\ Cardinality(Unjoined(p)') \in Nat
      <3>1. todo'[p] \in SUBSET Elements /\ Unjoined(p)' \in SUBSET Threads
        BY DEF TypeOK, Unjoined
      <3>2. IsFiniteSet(todo'[p]) /\ IsFiniteSet(Unjoined(p)')
        BY <3>1, FS_Subset
      <3> QED
        BY <3>2, FS_CardinalityType
    <2>2. /\ at'[p] \in 1..Len(QoIs)
          /\ phase'[p] \in {"start", "visiting", "summing", "summed"}
      BY DEF TypeOK, Quantities
    <2>3. Cardinality(Elements) \in Nat /\ Len(QoIs) \in Nat
      BY CountsAreNatural
    <2>4. CASE phase'[p] = "start"
      BY <2>3, <2>4 DEF LeftInPass
    <2>5. CASE phase'[p] = "visiting"
      BY <2>1, <2>3, <2>5 DEF LeftInPass
    <2>6. CASE phase'[p] = "summing"
      BY <2>2, <2>3, <2>6 DEF LeftInPass
    <2>7. CASE phase'[p] = "summed"
      BY <2>2, <2>3, <2>7 DEF LeftInPass
    <2> QED
      BY <2>2, <2>4, <2>5, <2>6, <2>7
  <1>2. product \in Int
    <2>1. Len(Rounds) + 1 - round[p] \in Int /\ StepsOfPass \in Int
      BY RoundsAssumption, CountsAreNatural DEF TypeOK
    <2> DEFINE n == Len(Rounds) + 1 - round[p]
               s == StepsOfPass
    <2> HIDE DEF n, s
    <2>2. n \in Int /\ s \in Int
      BY <2>1 DEF n, s
    <2>3. n * s \in Int
      BY <2>2
    <2> QED
      BY <2>3 DEF n, s
  <1>3. /\ StepsLeft(p) = product + LeftInPass(p)
        /\ StepsLeft(p)' = product + LeftInPass(p)'
    BY DEF StepsLeft, StepsOfPass
  <1> HIDE DEF product
  <1>4. LeftInPass(p) \in Nat
    BY CountsAreNatural
  <1> QED
    BY <1>1, <1>2, <1>3, <1>4

\* The last step of a pass.
LEMMA NextRoundIsLess ==
  ASSUME IsFiniteSet(Elements), IsFiniteSet(Threads), TypeOK,
         NEW p \in Ranks, round'[p] = round[p] + 1, phase'[p] = "start",
         Pass(p) # "end"
  PROVE  StepsLeft(p)' < StepsLeft(p)
  <1> DEFINE n == Len(Rounds) + 1 - (round[p] + 1)
             b == 2 * Cardinality(Elements) + 2 * Len(QoIs) + 1
  <1>1. n \in Nat /\ Len(Rounds) + 1 - round[p] = n + 1
    BY PassType DEF TypeOK
  <1>2. /\ b \in Nat /\ StepsOfPass \in Nat /\ b < StepsOfPass
        /\ LeftInPass(p) \in Nat
    BY CountsAreNatural DEF StepsOfPass
  <1>3. StepsLeft(p)' = n * StepsOfPass + b
    BY DEF StepsLeft, StepsOfPass, LeftInPass
  <1>4. StepsLeft(p) = (n + 1) * StepsOfPass + LeftInPass(p)
    BY <1>1 DEF StepsLeft
  <1> HIDE DEF n, b
  <1> QED
    BY <1>1, <1>2, <1>3, <1>4, ARoundLess

\* One step of one processor.
LEMMA RankComesNearer ==
  ASSUME IsFiniteSet(Elements), IsFiniteSet(Threads), TypeOK, TypeOK', Places,
         NEW p \in Ranks, Rank(p)
  PROVE  StepsLeft(p)' < StepsLeft(p)
  <1>0. /\ Cardinality(Elements) \in Nat /\ Len(QoIs) \in Nat
        /\ Cardinality(todo[p]) \in Nat /\ IsFiniteSet(todo[p])
        /\ Cardinality(Unjoined(p)) \in Nat /\ IsFiniteSet(Unjoined(p))
        /\ at[p] \in 1..Len(QoIs)
        /\ p \in DOMAIN phase /\ p \in DOMAIN todo /\ p \in DOMAIN at
        /\ p \in DOMAIN round /\ p \in DOMAIN range
    BY CountsAreNatural DEF TypeOK
  <1>1. CASE StartPass(p)
    <2>1. /\ phase[p] = "start" /\ phase'[p] = "visiting"
          /\ todo'[p] \in SUBSET Elements /\ round'[p] = round[p]
      BY <1>0, <1>1 DEF StartPass, Own
    <2>2. Unjoined(p)' = {}
      BY <1>0, <1>1 DEF StartPass, Unjoined
    <2>3. /\ Cardinality(todo'[p]) <= Cardinality(Elements)
          /\ Cardinality(todo'[p]) \in Nat
      BY <2>1, FS_Subset, FS_CardinalityType
    <2>4. Cardinality(Unjoined(p)') = 0
      BY <2>2, FS_EmptySet
    <2>5. LeftInPass(p)' < LeftInPass(p)
      BY <1>0, <2>1, <2>3, <2>4 DEF LeftInPass
    <2> QED
      BY <2>1, <2>5, FewerInPass
  <1>2. ASSUME NEW t \in Threads, Visit(p, t)
        PROVE  StepsLeft(p)' < StepsLeft(p)
    <2>1. PICK e \in todo[p] :
            /\ todo' = [todo EXCEPT ![p] = @ \ {e}]
            /\ range' = [range EXCEPT ![p][t] = @ \union {e}]
      BY <1>2 DEF Visit
    <2>2. /\ phase[p] = "visiting" /\ phase'[p] = "visiting"
          /\ round'[p] = round[p]
      BY <1>2 DEF Visit
    <2>3. Cardinality(todo'[p]) = Cardinality(todo[p]) - 1
      BY <1>0, <2>1, FS_RemoveElement
    <2>4. Unjoined(p)' \in {Unjoined(p), Unjoined(p) \union {t}}
      <3>1. /\ range'[p][t] # {}
            /\ \A s \in Threads \ {t} : range'[p][s] = range[p][s]
        BY <1>0, <2>1 DEF TypeOK
      <3>2. CASE t = Root
        BY <3>1, <3>2 DEF Unjoined
      <3>3. CASE t # Root
        BY <3>1, <3>3 DEF Unjoined
      <3> QED
        BY <3>2, <3>3
    <2>5. /\ Cardinality(Unjoined(p)') <= Cardinality(Unjoined(p)) + 1
          /\ Cardinality(Unjoined(p)') \in Nat
      <3>1. CASE Unjoined(p)' = Unjoined(p)
        BY <1>0, <3>1
      <3>2. CASE Unjoined(p)' = Unjoined(p) \union {t}
        <4>1. Cardinality(Unjoined(p)') = IF t \in Unjoined(p)
                                          THEN Cardinality(Unjoined(p))
                                          ELSE Cardinality(Unjoined(p)) + 1
          BY <1>0, <3>2, FS_AddElement
        <4> QED
          BY <1>0, <4>1
      <3> QED
        BY <2>4, <3>1, <3>2
    <2>6. LeftInPass(p)' < LeftInPass(p)
      BY <1>0, <2>2, <2>3, <2>5 DEF LeftInPass
    <2> QED
      BY <2>2, <2>6, FewerInPass
  <1>3. ASSUME NEW t \in Threads, ThreadJoin(p, t)
        PROVE  StepsLeft(p)' < StepsLeft(p)
    <2>1. /\ phase[p] = "visiting" /\ phase'[p] = "visiting"
          /\ round'[p] = round[p] /\ todo' = todo
          /\ t \in Unjoined(p)
      BY <1>3 DEF ThreadJoin, Unjoined
    <2>2. Unjoined(p)' = Unjoined(p) \ {t}
      <3>1. /\ range'[p][t] = {}
            /\ \A s \in Threads \ {t, Root} : range'[p][s] = range[p][s]
        BY <1>0, <1>3 DEF ThreadJoin, TypeOK
      <3> QED
        BY <3>1 DEF Unjoined
    <2>3. Cardinality(Unjoined(p)') = Cardinality(Unjoined(p)) - 1
      BY <1>0, <2>1, <2>2, FS_RemoveElement
    <2>4. LeftInPass(p)' < LeftInPass(p)
      BY <1>0, <2>1, <2>3 DEF LeftInPass
    <2> QED
      BY <2>1, <2>4, FewerInPass
  <1>4. CASE StartReduction(p)
    <2>1. /\ phase[p] = "visiting" /\ phase'[p] = "summing"
          /\ round'[p] = round[p] /\ at'[p] = 1
      BY <1>0, <1>4 DEF StartReduction
    <2>2. LeftInPass(p)' < LeftInPass(p)
      BY <1>0, <2>1 DEF LeftInPass
    <2> QED
      BY <2>1, <2>2, FewerInPass
  <1>5. CASE Store(p)
    <2>1. CASE NextSum(p) \in Quantities
      <3>1. /\ phase[p] = "summed" /\ phase'[p] = "summing"
            /\ round'[p] = round[p] /\ at'[p] = at[p] + 1
        BY <1>0, <1>5, <2>1 DEF Store, NextSum
      <3>2. LeftInPass(p)' < LeftInPass(p)
        BY <1>0, <3>1 DEF LeftInPass
      <3> QED
        BY <3>1, <3>2, FewerInPass
    <2>2. CASE NextSum(p) \notin Quantities
      <3>1. /\ phase[p] = "summed" /\ phase'[p] = "start"
            /\ round'[p] = round[p] + 1
        BY <1>0, <1>5, <2>2 DEF Store
      <3>2. Pass(p) = "values"
        BY <3>1 DEF Places
      <3> QED
        BY <3>1, <3>2, NextRoundIsLess
    <2> QED
      BY <2>1, <2>2
  <1> QED
    BY <1>1, <1>2, <1>3, <1>4, <1>5 DEF Rank

\* A step of one processor leaves the counts of the others.
LEMMA OthersStay ==
  ASSUME TypeOK, NEW p \in Ranks, Rank(p), NEW r \in Ranks, r # p
  PROVE  StepsLeft(r)' = StepsLeft(r)
  <1>1. /\ round'[r] = round[r] /\ phase'[r] = phase[r] /\ at'[r] = at[r]
        /\ todo'[r] = todo[r] /\ range'[r] = range[r]
    BY DEF TypeOK, Rank, StartPass, Visit, ThreadJoin, StartReduction, Store
  <1>2. Unjoined(r)' = Unjoined(r)
    BY <1>1 DEF Unjoined
  <1> QED
    BY <1>1, <1>2 DEF StepsLeft, StepsOfPass, LeftInPass

\* A collective call brings every processor nearer.
LEMMA AllComeNearer ==
  ASSUME IsFiniteSet(Elements), IsFiniteSet(Threads), TypeOK, TypeOK', Places,
         Collective, NEW p \in Ranks
  PROVE  StepsLeft(p)' < StepsLeft(p)
  <1>1. CASE Solve
    <2>1. /\ Pass(p) = "solve" /\ round'[p] = round[p] + 1
          /\ phase'[p] = phase[p]
      BY <1>1 DEF Solve
    <2>2. phase[p] = "start"
      BY <2>1 DEF Places, TypeOK
    <2> QED
      BY <2>1, <2>2, NextRoundIsLess
  <1>2. CASE Sum
    <2>1. /\ phase[p] = "summing" /\ phase'[p] = "summed"
          /\ round'[p] = round[p] /\ at'[p] = at[p]
      BY <1>2 DEF Sum
    <2>2. LeftInPass(p)' < LeftInPass(p)
      BY <2>1, CountsAreNatural DEF LeftInPass
    <2> QED
      BY <2>1, <2>2, FewerInPass
  <1>3. CASE CloseDerivatives
    <2>1. /\ Pass(p) = "derivatives" /\ round'[p] = round[p] + 1
          /\ phase'[p] = "start"
      BY <1>3 DEF CloseDerivatives
    <2> QED
      BY <2>1, NextRoundIsLess
  <1> QED
    BY <1>1, <1>2, <1>3 DEF Collective

\* Every step brings some processor nearer to the end of the program and
\* none further from it, for finitely many elements and threads: with
\* NobodyIsLeftWaiting, the passes end on all processors.
THEOREM EndComesNearer ==
  ASSUME IsFiniteSet(Elements), IsFiniteSet(Threads), Ranks # {}
  PROVE  Spec => [][/\ \A p \in Ranks : /\ StepsLeft(p) \in Nat
                                        /\ StepsLeft(p)' <= StepsLeft(p)
                    /\ \E p \in Ranks : StepsLeft(p)' < StepsLeft(p)]_vars
  <1> DEFINE Counted == \A p \in Ranks : StepsLeft(p) \in Nat
             Nearer == /\ \A p \in Ranks : StepsLeft(p)' <= StepsLeft(p)
                       /\ \E p \in Ranks : StepsLeft(p)' < StepsLeft(p)
  <1>1. ASSUME TypeOK, TypeOK', Places, Counted, Counted', Next
        PROVE  Nearer
    <2>1. CASE Collective
      <3>1. \A p \in Ranks : StepsLeft(p)' < StepsLeft(p)
        BY <1>1, <2>1, AllComeNearer
      <3> QED
        BY <1>1, <3>1
    <2>2. ASSUME NEW p \in Ranks, Rank(p)
          PROVE  Nearer
      <3>1. StepsLeft(p)' < StepsLeft(p)
        BY <1>1, <2>2, RankComesNearer
      <3>2. \A r \in Ranks : r # p => StepsLeft(r)' = StepsLeft(r)
        BY <1>1, <2>2, OthersStay
      <3> QED
        BY <1>1, <3>1, <3>2
    <2> QED
      BY <1>1, <2>1, <2>2 DEF Next
  <1>2. TypeOK => Counted
    BY StepsAreCounted
  <1>3. ASSUME TypeOK, TypeOK', Places, Counted, Counted', [Next]_vars
        PROVE  [/\ \A p \in Ranks : /\ StepsLeft(p) \in Nat
                                    /\ StepsLeft(p)' <= StepsLeft(p)
                /\ \E p \in Ranks : StepsLeft(p)' < StepsLeft(p)]_vars
    BY <1>1, <1>3
  <1>4. Spec => [](TypeOK /\ Places)
    <2>1. Init => TypeOK /\ Places
      BY TypeInit, PlacesInit
    <2>2. TypeOK /\ Places /\ [Next]_vars => (TypeOK /\ Places)'
      BY TypeNext, PlacesNext
    <2> QED
      BY <2>1, <2>2, PTL DEF Spec
  <1> HIDE DEF Counted
  <1> QED
    BY <1>2, <1>3, <1>4, PTL DEF Spec
=============================================================================
