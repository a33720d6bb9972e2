---------------------- MODULE MultiphysicsSystemProofs ----------------------
(***************************************************************************)
(* The system has its properties for every list of physics, every mesh     *)
(* and every sequence of calls, if each physics gives what it owes one at  *)
(* a time.  The invariants follow the loops over the list: what the        *)
(* physics before the iterator have done is done, and what a finished loop *)
(* has established lasts.                                                  *)
(***************************************************************************)
EXTENDS ProgramPhysics, TLAPS

\* The indices of the physics a loop has passed: all of them once it is over.
Before == 1..(next - 1)

\* The ranges the proofs need.
InRange ==
  /\ c \in Configs
  /\ phase \in Phases
  /\ next \in DOMAIN c.list
  /\ phase \in {"steady", "built", "ready", "returned"} => next = 1
  /\ visit \in Visits \union {NoVisit}
  /\ hook \in Nat \ {0}
  /\ request \in BOOLEAN
  /\ phase \in {"caching", "physics", "returned"} =>
       visit \in Visits /\ hook \in DOMAIN Hooks(c)[visit.kind]

\* The list of a configuration is not empty.
LEMMA ListFacts ==
  ASSUME NEW k \in Configs
  PROVE  /\ Len(k.list) \in Nat \ {0}
         /\ DOMAIN k.list = 1..Len(k.list)
  <1>1. k.list \in Seq(STRING) /\ k.list # <<>>
    BY ListsAreNotEmpty
  <1> QED BY <1>1

\* A visit calls two or three residual functions, in order.
LEMMA HookFacts ==
  ASSUME NEW k, NEW v \in Visits
  PROVE  /\ v.kind \in Kinds
         /\ DOMAIN Hooks(k)[v.kind] = 1..Len(Hooks(k)[v.kind])
         /\ Len(Hooks(k)[v.kind]) \in 2..3
         /\ \A i \in DOMAIN Hooks(k)[v.kind] : Hooks(k)[v.kind][i] \in HookNames(k)
  <1>1. v.kind \in Kinds
    BY DEF Visits, Kinds
  <1>2. /\ DOMAIN Hooks(k)[v.kind] = 1..Len(Hooks(k)[v.kind])
        /\ Len(Hooks(k)[v.kind]) \in 2..3
    <2>1. CASE k.scheme = "steady" BY <1>1, <2>1 DEF Hooks, Kinds
    <2>2. CASE k.scheme # "steady" BY <1>1, <2>2 DEF Hooks, Kinds
    <2> QED BY <2>1, <2>2
  <1>3. \A i \in DOMAIN Hooks(k)[v.kind] : Hooks(k)[v.kind][i] \in HookNames(k)
    BY <1>1 DEF HookNames
  <1> QED BY <1>1, <1>2, <1>3

\* A loop moves its iterator inside the list.
LEMMA StepMoves ==
  ASSUME InRange, NEW after, Step(after)
  PROVE  /\ next' \in DOMAIN c.list
         /\ ListDone => next' = 1 /\ phase' = after
         /\ ~ListDone => next' = next + 1 /\ phase' = phase
         /\ next < Len(c.list) \/ ListDone
  <1>1. Len(c.list) \in Nat \ {0} /\ DOMAIN c.list = 1..Len(c.list)
    BY ListFacts DEF InRange
  <1> QED BY <1>1 DEF InRange, Step, ListDone

\* The type invariant holds always.
LEMMA InRangeInvariant == Spec => []InRange
  <1>1. Init => InRange
    <2> SUFFICES ASSUME Init PROVE InRange OBVIOUS
    <2>1. 1 \in DOMAIN c.list
      BY ListFacts DEF Init
    <2>2. request \in BOOLEAN
      BY Zenon DEF Init
    <2> QED BY <2>1, <2>2 DEF Init, InRange, Phases
  <1>2. InRange /\ [Next]_vars => InRange'
    <2> SUFFICES ASSUME InRange, [Next]_vars PROVE InRange' OBVIOUS
    <2>l. Len(c.list) \in Nat \ {0} /\ DOMAIN c.list = 1..Len(c.list)
      BY ListFacts DEF InRange
    <2>m. ASSUME NEW after \in Phases, Step(after)
          PROVE /\ next' \in DOMAIN c.list
                /\ phase' \in {phase, after}
                /\ phase' # phase => next' = 1
      BY <2>m, StepMoves
    <2>1. CASE InitVariables
      BY <2>1, <2>m DEF InitVariables, InRange, Phases, call
    <2>2. CASE RefuseVariable
      BY <2>2 DEF RefuseVariable, InRange, Phases, call, system
    <2>3. CASE SetTimeEvolving
      BY <2>3, <2>m DEF SetTimeEvolving, InRange, Phases, call
    <2>4. CASE SetIsSteady
      BY <2>4 DEF SetIsSteady, InRange, Phases, call
    <2>5. CASE BuildContext
      BY <2>5 DEF BuildContext, InRange, Phases, call, system
    <2>6. CASE InitContext
      BY <2>6, <2>m DEF InitContext, InRange, Phases, call, system
    <2>7. ASSUME NEW v \in Visits, StartVisit(v) PROVE InRange'
      <3>1. 1 \in DOMAIN Hooks(c)[v.kind]
        BY HookFacts
      <3> QED BY <2>7, <3>1 DEF StartVisit, InRange, Phases, system
    <2>8. CASE ComputeCache
      BY <2>8, <2>m DEF ComputeCache, InRange, Phases, system
    <2>9. CASE Contribute
      BY <2>9, <2>m DEF Contribute, InRange, Phases, system
    <2>10. CASE Skip
      BY <2>10, <2>m DEF Skip, InRange, Phases, system, call
    <2>11. CASE Stop
      BY <2>11 DEF Stop, InRange, Phases, system, call
    <2>12. CASE NextHook
      <3>1. hook + 1 \in DOMAIN Hooks(c)[visit.kind]
        BY <2>12, HookFacts DEF NextHook, InRange, MoreHooks
      <3> QED BY <2>12, <3>1 DEF NextHook, InRange, Phases, system
    <2>13. CASE EndVisit
      <3>1. request' \in BOOLEAN
        BY <2>13, Zenon DEF EndVisit
      <3> QED BY <2>13, <3>1 DEF EndVisit, InRange, Phases, system
    <2>14. CASE UNCHANGED vars
      BY <2>14 DEF vars, InRange
    <2> QED BY <2>1, <2>2, <2>3, <2>4, <2>5, <2>6, <2>7, <2>8, <2>9, <2>10,
               <2>11, <2>12, <2>13, <2>14 DEF Next
  <1> QED BY <1>1, <1>2, PTL DEF Spec

--------------------------------------------------------------------------
(* The variables: what a physics has added keeps its type, because a       *)
(* later physics that wants another stops the program.                     *)

AddsDone(i) == \A a \in Adds(c, c.list[i]) : types[a[1]] = a[2]
VariablesLoop ==
  /\ phase = "variables" => \A i \in Before : AddsDone(i)
  /\ phase \notin {"variables", "aborted"} =>
       \A i \in DOMAIN c.list : AddsDone(i)

\* What the loop passes in a step that passes all or one.
LEMMA LoopStep ==
  ASSUME InRange, NEW after, Step(after)
  PROVE  /\ ListDone => \A i \in DOMAIN c.list : i \in Before \/ i = next
         /\ ~ListDone => \A i \in 1..(next' - 1) : i \in Before \/ i = next
         /\ \A i \in Before : i \in DOMAIN c.list
  <1>1. Len(c.list) \in Nat \ {0} /\ DOMAIN c.list = 1..Len(c.list)
    BY ListFacts DEF InRange
  <1> QED BY <1>1 DEF InRange, Step, ListDone, Before

\* A physics that adds its variables gives types to new ones only.
LEMMA AddingKeepsTypes ==
  ASSUME InRange, InitVariables
  PROVE  /\ \A a \in Adds(c, Physics) : types'[a[1]] = a[2]
         /\ \A i \in DOMAIN c.list : AddsDone(i) =>
              \A a \in Adds(c, c.list[i]) : types'[a[1]] = a[2]
  <1> DEFINE pairs == Adds(c, Physics)
  <1>0. c \in Configs /\ next \in DOMAIN c.list
    BY DEF InRange
  <1>1. \A a \in pairs : /\ a[1] \in Variables /\ a[2] # NoType
                        /\ \A b \in pairs : a[1] = b[1] => a[2] = b[2]
    BY <1>0, AddsAreFunctions DEF Physics
  <1>2. \A a \in pairs : types[a[1]] \in {NoType, a[2]}
    BY DEF InitVariables, Clashes
  <1>3. types' = [v \in Variables |->
                    IF \E a \in pairs : a[1] = v
                    THEN (CHOOSE a \in pairs : a[1] = v)[2] ELSE types[v]]
    BY DEF InitVariables, WithVariables
  <1>4. ASSUME NEW a \in pairs PROVE types'[a[1]] = a[2]
    <2>1. PICK b \in pairs : b = CHOOSE d \in pairs : d[1] = a[1]
      OBVIOUS
    <2>2. b[1] = a[1]
      BY <2>1
    <2>3. types'[a[1]] = b[2]
      BY <1>1, <1>3, <2>1
    <2> QED BY <1>1, <2>2, <2>3
  <1>5. ASSUME NEW i \in DOMAIN c.list, AddsDone(i), NEW d \in Adds(c, c.list[i])
        PROVE  types'[d[1]] = d[2]
    <2>1. d[1] \in Variables /\ d[2] # NoType /\ types[d[1]] = d[2]
      BY <1>0, <1>5, AddsAreFunctions DEF AddsDone
    <2>2. CASE \E a \in pairs : a[1] = d[1]
      <3>1. PICK a \in pairs : a[1] = d[1]
        BY <2>2
      <3>2. types'[a[1]] = a[2]
        BY <1>4
      <3> QED BY <1>2, <2>1, <3>1, <3>2
    <2>3. CASE ~ \E a \in pairs : a[1] = d[1]
      BY <1>3, <2>1, <2>3
    <2> QED BY <2>2, <2>3
  <1> QED BY <1>4, <1>5

\* The loop over add_variables has added what its physics add.
LEMMA VariablesInvariant == Spec => []VariablesLoop
  <1>1. Init => VariablesLoop
    BY DEF Init, VariablesLoop, Before
  <1>2. InRange /\ InRange' /\ VariablesLoop /\ [Next]_vars => VariablesLoop'
    <2> SUFFICES ASSUME InRange, InRange', VariablesLoop, [Next]_vars
                 PROVE  VariablesLoop'
      OBVIOUS
    <2>1. CASE InitVariables
      <3>1. /\ phase = "variables" /\ Step("evolving") /\ c' = c
            /\ \A i \in Before : AddsDone(i)
        BY <2>1 DEF InitVariables, VariablesLoop
      <3>2. \A i \in DOMAIN c.list : i \in Before \/ i = next => AddsDone(i)'
        BY <2>1, <3>1, AddingKeepsTypes, LoopStep DEF AddsDone, Physics
      <3>3. CASE ListDone
        BY <3>1, <3>2, <3>3, LoopStep, StepMoves DEF VariablesLoop
      <3>4. CASE ~ListDone
        <4>1. phase' = "variables" /\ next' \in DOMAIN c.list
          BY <3>1, <3>4, StepMoves
        <4>2. \A i \in 1..(next' - 1) : i \in DOMAIN c.list
          BY <4>1, ListFacts DEF InRange
        <4>3. \A i \in 1..(next' - 1) : AddsDone(i)'
          BY <3>1, <3>2, <3>4, <4>2, LoopStep
        <4> QED BY <4>1, <4>3 DEF VariablesLoop, Before
      <3> QED BY <3>3, <3>4
    <2>2. CASE RefuseVariable
      BY <2>2 DEF RefuseVariable, VariablesLoop
    <2>3. ASSUME c' = c, types' = types, phase # "variables",
                 phase' # "variables", phase' # "aborted" => phase # "aborted"
          PROVE  VariablesLoop'
      BY <2>3 DEF VariablesLoop, AddsDone
    <2>m. ASSUME NEW after, after \notin {"variables", "aborted"}, Step(after),
                 phase \notin {"variables", "aborted"}
          PROVE  phase' \notin {"variables", "aborted"}
      BY <2>m DEF Step
    <2>4. CASE SetTimeEvolving
      BY <2>3, <2>4, <2>m DEF SetTimeEvolving
    <2>5. CASE SetIsSteady
      BY <2>3, <2>5 DEF SetIsSteady
    <2>6. CASE BuildContext
      BY <2>3, <2>6 DEF BuildContext, system
    <2>7. CASE InitContext
      BY <2>3, <2>7, <2>m DEF InitContext, system
    <2>8. ASSUME NEW v \in Visits, StartVisit(v) PROVE VariablesLoop'
      BY <2>3, <2>8 DEF StartVisit, system
    <2>9. CASE ComputeCache
      BY <2>3, <2>9, <2>m DEF ComputeCache, system
    <2>10. CASE Contribute
      BY <2>3, <2>10, <2>m DEF Contribute, system
    <2>11. CASE Skip
      BY <2>3, <2>11, <2>m DEF Skip, system
    <2>12. CASE Stop
      BY <2>3, <2>12 DEF Stop, system
    <2>13. CASE NextHook
      BY <2>3, <2>13 DEF NextHook, system
    <2>14. CASE EndVisit
      BY <2>3, <2>14 DEF EndVisit, system
    <2>15. CASE UNCHANGED vars
      BY <2>15 DEF vars, VariablesLoop, AddsDone, Before
    <2> QED BY <2>1, <2>2, <2>4, <2>5, <2>6, <2>7, <2>8, <2>9, <2>10, <2>11,
               <2>12, <2>13, <2>14, <2>15 DEF Next
  <1> QED BY <1>1, <1>2, InRangeInvariant, PTL DEF Spec

--------------------------------------------------------------------------
(* Only added variables are marched, read and filled.                      *)

OwnOf(i) == {a[1] : a \in Adds(c, c.list[i])}
EvolvingLoop ==
  /\ phase = "variables" => evolving = {}
  /\ phase # "variables" => evolving \subseteq Added

\* What a physics adds has been added once it had its turn.
LEMMA OwnIsAdded ==
  ASSUME InRange, NEW i \in DOMAIN c.list, AddsDone(i)
  PROVE  OwnOf(i) \subseteq Added
  <1>1. \A a \in Adds(c, c.list[i]) : a[1] \in Variables /\ types[a[1]] # NoType
    BY AddsAreFunctions DEF AddsDone, InRange
  <1> QED BY <1>1 DEF OwnOf, Added

\* The loop over set_time_evolving_vars marks added variables only.
LEMMA EvolvingInvariant ==
  ASSUME \A k \in Configs : TouchesOwn(k)
  PROVE  Spec => []EvolvingLoop
  <1>1. Init => EvolvingLoop
    BY DEF Init, EvolvingLoop
  <1>2. InRange /\ VariablesLoop /\ EvolvingLoop /\ [Next]_vars => EvolvingLoop'
    <2> SUFFICES ASSUME InRange, VariablesLoop, EvolvingLoop, [Next]_vars
                 PROVE  EvolvingLoop'
      OBVIOUS
    <2>1. CASE InitVariables
      BY <2>1 DEF InitVariables, EvolvingLoop
    <2>2. CASE RefuseVariable
      BY <2>2 DEF RefuseVariable, EvolvingLoop, system
    <2>3. CASE SetTimeEvolving
      <3>1. next \in DOMAIN c.list /\ AddsDone(next) /\ c \in Configs
        BY <2>3 DEF SetTimeEvolving, VariablesLoop, InRange
      <3>2. Evolves(c, Physics) \subseteq OwnOf(next)
        BY <3>1 DEF TouchesOwn, OwnOf, Physics
      <3>3. evolving' \subseteq Added
        BY <2>3, <3>1, <3>2, OwnIsAdded DEF SetTimeEvolving, EvolvingLoop
      <3>4. Added' = Added /\ phase' # "variables"
        BY <2>3 DEF SetTimeEvolving, Added, Step
      <3> QED BY <3>3, <3>4 DEF EvolvingLoop
    <2>o. ASSUME phase # "variables", phase' # "variables",
                 types' = types, evolving' = evolving
          PROVE  EvolvingLoop'
      BY <2>o DEF EvolvingLoop, Added
    <2>m. ASSUME NEW after, after # "variables", phase # "variables", Step(after)
          PROVE  phase' # "variables"
      BY <2>m DEF Step
    <2>4. CASE SetIsSteady
      BY <2>4, <2>o DEF SetIsSteady
    <2>5. CASE BuildContext
      BY <2>5, <2>o DEF BuildContext, system
    <2>6. CASE InitContext
      BY <2>6, <2>o, <2>m DEF InitContext, system
    <2>7. ASSUME NEW v \in Visits, StartVisit(v) PROVE EvolvingLoop'
      BY <2>7, <2>o DEF StartVisit, system
    <2>8. CASE ComputeCache
      BY <2>8, <2>o, <2>m DEF ComputeCache, system
    <2>9. CASE Contribute
      BY <2>9, <2>o, <2>m DEF Contribute, system
    <2>10. CASE Skip
      BY <2>10, <2>o, <2>m DEF Skip, system
    <2>11. CASE Stop
      BY <2>11, <2>o DEF Stop, system
    <2>12. CASE NextHook
      BY <2>12, <2>o DEF NextHook, system
    <2>13. CASE EndVisit
      BY <2>13, <2>o DEF EndVisit, system
    <2>14. CASE UNCHANGED vars
      BY <2>14 DEF vars, EvolvingLoop, Added
    <2> QED BY <2>1, <2>2, <2>3, <2>4, <2>5, <2>6, <2>7, <2>8, <2>9, <2>10,
               <2>11, <2>12, <2>13, <2>14 DEF Next
  <1> QED BY <1>1, <1>2, InRangeInvariant, VariablesInvariant, PTL DEF Spec

\* While the physics contribute, the hook is one the time solver calls.
LEMMA HookIsCalled ==
  ASSUME InRange, phase \in {"caching", "physics", "returned"}
  PROVE  Hook \in HookNames(c)
  BY HookFacts DEF InRange, Hook

\* BlocksExist: if each physics uses, asks for and marches only variables it
\* adds itself, no list of them makes one touch a variable the system lacks:
\* all variables are added before anything else is done.
THEOREM TouchedVariablesExist ==
  ASSUME \A k \in Configs : TouchesOwn(k)
  PROVE  Spec => []BlocksExist
  <1>1. InRange /\ VariablesLoop /\ EvolvingLoop => BlocksExist
    <2> SUFFICES ASSUME InRange, VariablesLoop, EvolvingLoop PROVE BlocksExist
      OBVIOUS
    <2>1. ASSUME Contributing
          PROVE  /\ \A e \in ResFunc.reads \union ResFunc.jac :
                      e[1] \in Added /\ e[2] \in Added
                 /\ \A s \in ResFunc.shapes : s[1] \in Added
      <3>1. /\ phase = "physics" /\ next \in DOMAIN c.list /\ c \in Configs
            /\ AddsDone(next)
        BY <2>1 DEF Contributing, InRange, VariablesLoop
      <3>2. Hook \in HookNames(c)
        BY <3>1, HookIsCalled
      <3>3. /\ \A e \in ResFunc.reads \union ResFunc.jac :
                 e[1] \in OwnOf(next) /\ e[2] \in OwnOf(next)
            /\ \A s \in ResFunc.shapes : s[1] \in OwnOf(next)
        BY <3>1, <3>2 DEF TouchesOwn, OwnOf, ResFunc, Physics
      <3> QED BY <3>1, <3>3, OwnIsAdded
    <2>2. ASSUME phase = "context", NEW r \in Requests(c, Physics)
          PROVE  r[1] \in Added
      <3>1. next \in DOMAIN c.list /\ c \in Configs /\ AddsDone(next)
        BY <2>2 DEF InRange, VariablesLoop
      <3>2. r[1] \in OwnOf(next)
        BY <2>2, <3>1 DEF TouchesOwn, OwnOf, Physics
      <3> QED BY <3>1, <3>2, OwnIsAdded
    <2> QED BY <2>1, <2>2 DEF BlocksExist, EvolvingLoop
  <1> QED BY <1>1, InRangeInvariant, VariablesInvariant, EvolvingInvariant, PTL

--------------------------------------------------------------------------
(* The context: what every physics asked for is in it before it is used,   *)
(* and nothing that nobody asked for.                                      *)

Asked(i) == \A r \in Requests(c, c.list[i]) : <<types[r[1]], r[2]>> \in context
NothingElse ==
  \A s \in context : \E r \in AllRequests(c) : s = <<types[r[1]], r[2]>>
InUse == {"ready", "caching", "physics", "returned"}
ContextLoop ==
  /\ phase = "context" => (\A i \in Before : Asked(i)) /\ NothingElse
  /\ phase \in InUse => (\A i \in DOMAIN c.list : Asked(i)) /\ NothingElse
  /\ phase = "built" => next = 1

\* The loop over init_context has asked for what its physics request.
LEMMA ContextInvariant == Spec => []ContextLoop
  <1>1. Init => ContextLoop
    BY DEF Init, ContextLoop, InUse
  <1>2. InRange /\ InRange' /\ ContextLoop /\ [Next]_vars => ContextLoop'
    <2> SUFFICES ASSUME InRange, InRange', ContextLoop, [Next]_vars
                 PROVE  ContextLoop'
      OBVIOUS
    <2>e. ASSUME phase' \in {"variables", "evolving", "steady", "aborted"}
          PROVE  ContextLoop'
      BY <2>e DEF ContextLoop, InUse
    <2>1. CASE InitVariables
      BY <2>1, <2>e DEF InitVariables, Step
    <2>2. CASE RefuseVariable
      BY <2>2, <2>e DEF RefuseVariable
    <2>3. CASE SetTimeEvolving
      BY <2>3, <2>e DEF SetTimeEvolving, Step
    <2>4. CASE SetIsSteady
      BY <2>4 DEF SetIsSteady, ContextLoop, InUse, InRange
    <2>5. CASE BuildContext
      BY <2>5 DEF BuildContext, ContextLoop, NothingElse, InUse, InRange,
          Before,
                  system
    <2>6. CASE InitContext
      <3>1. /\ phase = "context" /\ Step("ready") /\ c' = c /\ types' = types
            /\ \A i \in Before : Asked(i)
            /\ NothingElse
            /\ context' = context \union ShapesOf(Requests(c, Physics))
        BY <2>6 DEF InitContext, ContextLoop, system
      <3>n. NothingElse'
        <4>1. Requests(c, Physics) \subseteq AllRequests(c)
          BY DEF AllRequests, Physics, InRange
        <4>2. \A s \in context' : \E r \in AllRequests(c) :
                s = <<types[r[1]], r[2]>>
          BY <3>1, <4>1 DEF NothingElse, ShapesOf
        <4>3. AllRequests(c') = AllRequests(c)
          BY <3>1
        <4> QED BY <3>1, <4>2, <4>3 DEF NothingElse
      <3>2. \A i \in DOMAIN c.list : i \in Before \/ i = next => Asked(i)'
        BY <3>1 DEF Asked, ShapesOf, Physics
      <3>3. CASE ListDone
        BY <3>1, <3>n, <3>2, <3>3, LoopStep, StepMoves DEF ContextLoop, InUse
      <3>4. CASE ~ListDone
        <4>1. phase' = "context" /\ next' \in DOMAIN c.list
          BY <3>1, <3>4, StepMoves
        <4>2. \A i \in 1..(next' - 1) : i \in DOMAIN c.list
          BY <4>1, ListFacts DEF InRange
        <4>3. \A i \in 1..(next' - 1) : Asked(i)'
          BY <3>1, <3>2, <3>4, <4>2, LoopStep
        <4> QED BY <3>n, <4>1, <4>3 DEF ContextLoop, Before, InUse
      <3> QED BY <3>3, <3>4
    <2>o. ASSUME phase \in InUse, phase' \in InUse, c' = c, types' = types,
                 context' = context
          PROVE  ContextLoop'
      BY <2>o DEF ContextLoop, Asked, NothingElse, AllRequests, InUse
    <2>m. ASSUME NEW after \in InUse, phase \in InUse, Step(after)
          PROVE  phase' \in InUse
      BY <2>m DEF Step
    <2>7. ASSUME NEW v \in Visits, StartVisit(v) PROVE ContextLoop'
      BY <2>7, <2>o DEF StartVisit, system, InUse
    <2>8. CASE ComputeCache
      BY <2>8, <2>o, <2>m DEF ComputeCache, system, InUse
    <2>9. CASE Contribute
      BY <2>9, <2>o, <2>m DEF Contribute, system, InUse
    <2>10. CASE Skip
      BY <2>10, <2>o, <2>m DEF Skip, system, InUse
    <2>11. CASE Stop
      BY <2>11, <2>e DEF Stop
    <2>12. CASE NextHook
      BY <2>12, <2>o DEF NextHook, system, InUse
    <2>13. CASE EndVisit
      BY <2>13, <2>o DEF EndVisit, system, InUse
    <2>14. CASE UNCHANGED vars
      BY <2>14 DEF vars, ContextLoop, Asked, NothingElse, AllRequests, Before,
                   InUse
    <2> QED BY <2>1, <2>2, <2>3, <2>4, <2>5, <2>6, <2>7, <2>8, <2>9, <2>10,
               <2>11, <2>12, <2>13, <2>14 DEF Next
  <1> QED BY <1>1, <1>2, InRangeInvariant, PTL DEF Spec

\* DataWasRequested: if for each shape function a physics uses some physics of
\* the list asks for that of a variable added with the same type, or none asks
\* for anything of that type, the context computes it, whatever the types and
\* the order of the list.
THEOREM RequestsPrecedeUse ==
  ASSUME \A k \in Configs : RequestsSuffice(k) /\ TouchesOwn(k)
  PROVE  Spec => []DataWasRequested
  <1>1. InRange /\ VariablesLoop /\ ContextLoop => DataWasRequested
    <2> SUFFICES ASSUME InRange, VariablesLoop, ContextLoop, Contributing,
                        NEW s \in ResFunc.shapes
                 PROVE  Provided(types[s[1]], s[2])
      BY DEF DataWasRequested
    <2>1. /\ phase = "physics" /\ next \in DOMAIN c.list /\ c \in Configs
          /\ \A i \in DOMAIN c.list : AddsDone(i) /\ Asked(i)
          /\ NothingElse
      BY DEF Contributing, InRange, VariablesLoop, ContextLoop, InUse
    <2>2. Hook \in HookNames(c)
      BY <2>1, HookIsCalled
    <2>3. \A a \in AllAdds(c) : types[a[1]] = a[2]
      BY <2>1 DEF AllAdds, AddsDone
    <2>4. TypesAgree(c)
      BY <2>3 DEF TypesAgree
    <2>5. CASE s[2] \in KindsAsked(c, s[1])
      <3>1. PICK r \in AllRequests(c) : SameType(c, r[1], s[1]) /\ r[2] = s[2]
        BY <2>5 DEF KindsAsked
      <3>2. types[r[1]] = types[s[1]]
        BY <2>3, <3>1 DEF SameType
      <3>3. <<types[r[1]], r[2]>> \in context
        BY <2>1 DEF Asked, AllRequests
      <3> QED BY <3>1, <3>2, <3>3 DEF Provided
    <2>6. CASE KindsAsked(c, s[1]) = {}
      <3>1. ASSUME NEW q \in context, q[1] = types[s[1]]
            PROVE  FALSE
        <4>1. PICK r \in AllRequests(c) : q = <<types[r[1]], r[2]>>
          BY <2>1 DEF NothingElse
        <4>2. PICK j \in DOMAIN c.list : r \in Requests(c, c.list[j])
          BY DEF AllRequests
        <4>3. PICK a \in Adds(c, c.list[j]) : a[1] = r[1]
          BY <2>1, <4>2 DEF TouchesOwn
        <4>4. PICK b \in Adds(c, Physics) : b[1] = s[1]
          BY <2>1, <2>2 DEF TouchesOwn, ResFunc, Physics
        <4>5. a \in AllAdds(c) /\ b \in AllAdds(c)
          BY <2>1 DEF AllAdds, Physics
        <4>6. a[2] = b[2]
          BY <2>3, <3>1, <4>1, <4>3, <4>4, <4>5
        <4>7. SameType(c, r[1], s[1])
          BY <4>3, <4>4, <4>5, <4>6 DEF SameType
        <4>8. r[2] \in KindsAsked(c, s[1])
          BY <4>1, <4>7 DEF KindsAsked
        <4> QED BY <2>6, <4>8
      <3> QED BY <3>1 DEF Provided
    <2>7. s[2] \in KindsAsked(c, s[1]) \/ KindsAsked(c, s[1]) = {}
      BY <2>1, <2>2, <2>4 DEF RequestsSuffice, ResFunc, Physics
    <2> QED BY <2>5, <2>6, <2>7
  <1> QED BY <1>1, InRangeInvariant, VariablesInvariant, ContextInvariant, PTL

--------------------------------------------------------------------------
(* The cache of a residual function. *)

Filled(i) == Caches(c, c.list[i], Hook) \subseteq cache
CacheLoop ==
  /\ phase = "caching" => \A i \in Before : Filled(i)
  /\ phase = "physics" => \A i \in DOMAIN c.list : Filled(i)
  /\ phase \in {"ready", "returned"} => next = 1

\* The loop over compute_*_cache has filled the cache for its residuals.
LEMMA CacheInvariant == Spec => []CacheLoop
  <1>1. Init => CacheLoop
    BY DEF Init, CacheLoop
  <1>2. InRange /\ InRange' /\ CacheLoop /\ [Next]_vars => CacheLoop'
    <2> SUFFICES ASSUME InRange, InRange', CacheLoop, [Next]_vars
                 PROVE  CacheLoop'
      OBVIOUS
    <2>i. phase' \in {"ready", "returned"} => next' = 1
      BY DEF InRange
    <2>e. ASSUME phase' \notin {"caching", "physics"} PROVE CacheLoop'
      BY <2>e, <2>i DEF CacheLoop
    <2>n. ASSUME phase' = "caching", next' = 1 PROVE CacheLoop'
      BY <2>n DEF CacheLoop, Before
    <2>1. CASE InitVariables
      BY <2>1, <2>e DEF InitVariables, Step
    <2>2. CASE RefuseVariable
      BY <2>2, <2>e DEF RefuseVariable
    <2>3. CASE SetTimeEvolving
      BY <2>3, <2>e DEF SetTimeEvolving, Step
    <2>4. CASE SetIsSteady
      BY <2>4, <2>e DEF SetIsSteady
    <2>5. CASE BuildContext
      BY <2>5, <2>e DEF BuildContext
    <2>6. CASE InitContext
      BY <2>6, <2>e DEF InitContext, Step
    <2>7. ASSUME NEW v \in Visits, StartVisit(v) PROVE CacheLoop'
      BY <2>7, <2>n DEF StartVisit, InRange
    <2>8. CASE ComputeCache
      <3>1. /\ phase = "caching" /\ Step("physics") /\ c' = c /\ Hook' = Hook
            /\ \A i \in Before : Filled(i)
            /\ cache' = cache \union Caches(c, Physics, Hook)
        BY <2>8 DEF ComputeCache, CacheLoop, system, Hook
      <3>2. \A i \in DOMAIN c.list : i \in Before \/ i = next => Filled(i)'
        BY <3>1 DEF Filled, Physics
      <3>3. CASE ListDone
        BY <3>1, <3>2, <3>3, LoopStep, StepMoves DEF CacheLoop
      <3>4. CASE ~ListDone
        <4>1. phase' = "caching" /\ next' \in DOMAIN c.list
          BY <3>1, <3>4, StepMoves
        <4>2. \A i \in 1..(next' - 1) : i \in DOMAIN c.list
          BY <4>1, ListFacts DEF InRange
        <4>3. \A i \in 1..(next' - 1) : Filled(i)'
          BY <3>1, <3>2, <3>4, <4>2, LoopStep
        <4> QED BY <4>1, <4>3 DEF CacheLoop, Before
      <3> QED BY <3>3, <3>4
    <2>o. ASSUME phase = "physics", phase' \in {"physics", "returned"}, c' = c,
                 visit' = visit, hook' = hook, cache' = cache
          PROVE  CacheLoop'
      BY <2>o, <2>i DEF CacheLoop, Filled, Hook
    <2>9. CASE Contribute
      BY <2>9, <2>o DEF Contribute, system, Step
    <2>10. CASE Skip
      BY <2>10, <2>o DEF Skip, system, call, Step
    <2>11. CASE Stop
      BY <2>11, <2>e DEF Stop
    <2>12. CASE NextHook
      BY <2>12, <2>n DEF NextHook, CacheLoop
    <2>13. CASE EndVisit
      BY <2>13, <2>e DEF EndVisit
    <2>14. CASE UNCHANGED vars
      BY <2>14 DEF vars, CacheLoop, Filled, Hook, Before
    <2> QED BY <2>1, <2>2, <2>3, <2>4, <2>5, <2>6, <2>7, <2>8, <2>9, <2>10,
               <2>11, <2>12, <2>13, <2>14 DEF Next
  <1> QED BY <1>1, <1>2, InRangeInvariant, PTL DEF Spec

\* CachedBeforeRead: if the cache function of a physics computes what its
\* residual function takes, the values are there, although the cache is new in
\* each call and all physics share it.
THEOREM CachePrecedesUse ==
  ASSUME \A k \in Configs : CachesSuffice(k)
  PROVE  Spec => []CachedBeforeRead
  <1>1. InRange /\ CacheLoop => CachedBeforeRead
    <2> SUFFICES ASSUME InRange, CacheLoop, Contributing
                 PROVE  ResFunc.gets \subseteq cache
      BY DEF CachedBeforeRead
    <2>1. phase = "physics" /\ next \in DOMAIN c.list /\ c \in Configs /\ Filled(next)
      BY DEF Contributing, InRange, CacheLoop
    <2>2. ResFunc.gets \subseteq Caches(c, Physics, Hook)
      BY <2>1, HookIsCalled DEF CachesSuffice, ResFunc, Physics
    <2> QED BY <2>1, <2>2 DEF Filled, Physics
  <1> QED BY <1>1, InRangeInvariant, CacheInvariant, PTL

--------------------------------------------------------------------------
(* The Jacobian.  A call that ends with one has met no physics that stops  *)
(* the program for it; those it met have given their part of it.           *)

Assembling == {"caching", "physics", "returned"}
\* The loop has passed physics i in the n-th residual function.
Passed(i, n) ==
  \/ n < hook
  \/ n = hook /\ (phase = "returned" \/ (phase = "physics" /\ i \in Before))

VisitHooks == Hooks(c)[visit.kind]
Enabled(p) ==
  visit.kind = "nonlocal" \/ c.where[p] = {} \/ visit.where \in c.where[p]
Halts(term) == term.stops \in {"always", "jacobian"}

\* What is collected is of enabled physics, in the Jacobian as in the residual
\* unless the physics is one that stops; and none that was passed did.
PartsAgree ==
  /\ \A e \in reads \union jac :
       \E i \in DOMAIN c.list : e[1][1] = c.list[i] /\ Enabled(c.list[i])
  /\ \A e \in reads \union jac :
       ~StopsJacobian(c, e[1][1], visit.kind) => (e \in jac <=> e \in reads)
NoneStopped ==
  \A i \in DOMAIN c.list, n \in DOMAIN VisitHooks :
    Passed(i, n) /\ Enabled(c.list[i]) => ~Halts(Terms(c, c.list[i], VisitHooks[n]))
JacobianSoFar ==
  phase \in Assembling /\ ComputeJacobian => PartsAgree /\ NoneStopped

\* The step of a physics that adds to the residual and to the Jacobian.
LEMMA JacobianContribute ==
  ASSUME \A k \in Configs : JacobiansAreComplete(k),
         InRange, JacobianSoFar, Contribute
  PROVE  JacobianSoFar'
  <1>1. /\ phase = "physics" /\ Step("returned") /\ c' = c
        /\ request' = request /\ visit' = visit /\ hook' = hook
        /\ reads' = reads \union Contribution(ResFunc.reads)
        /\ ComputeJacobian => jac' = jac \union Contribution(ResFunc.jac)
        /\ EnabledOnElem /\ ~Stops
    BY DEF Contribute, system
  <1>2. SUFFICES ASSUME ComputeJacobian PROVE (PartsAgree /\ NoneStopped)'
    BY <1>1 DEF JacobianSoFar, ComputeJacobian
  <1>3. PartsAgree /\ NoneStopped
    BY <1>1, <1>2 DEF JacobianSoFar, Assembling
  <1>4. /\ c \in Configs /\ c.analytic /\ next \in DOMAIN c.list
        /\ visit.kind \in Kinds /\ hook \in DOMAIN VisitHooks
        /\ Hook = VisitHooks[hook] /\ Physics = c.list[next]
    BY <1>1, <1>2, HookFacts DEF InRange, ComputeJacobian, VisitHooks, Hook,
        Physics
  <1>5. Enabled(Physics) /\ ~Halts(ResFunc)
    BY <1>1, <1>2 DEF EnabledOnElem, Enabled, Stops, Halts
  <1>6. \A e \in Contribution(ResFunc.reads) \union Contribution(ResFunc.jac) :
          e[1][1] = Physics
    BY DEF Contribution
  <1>7. ~StopsJacobian(c, Physics, visit.kind) =>
          Contribution(ResFunc.jac) = Contribution(ResFunc.reads)
    <2>1. ~StopsJacobian(c, Physics, visit.kind) =>
            Scaled(c, Hook, ResFunc.jac) = Scaled(c, Hook, ResFunc.reads)
      BY <1>4 DEF JacobiansAreComplete, ResFunc, VisitHooks
    <2> QED BY <2>1 DEF Contribution
  <1>8. PartsAgree'
    <2>1. ASSUME NEW e \in reads' \union jac'
          PROVE  /\ \E i \in DOMAIN c.list :
                      e[1][1] = c.list[i] /\ Enabled(c.list[i])
                 /\ ~StopsJacobian(c, e[1][1], visit.kind) =>
                      (e \in jac' <=> e \in reads')
      <3>1. CASE e \in reads \union jac
        <4>1. /\ \E i \in DOMAIN c.list :
                   e[1][1] = c.list[i] /\ Enabled(c.list[i])
              /\ ~StopsJacobian(c, e[1][1], visit.kind) =>
                   (e \in jac <=> e \in reads)
          BY <1>3, <3>1 DEF PartsAgree
        <4>2. /\ e \in reads => e \in reads'
              /\ e \in jac => e \in jac'
          BY <1>1, <1>2
        <4> QED BY <3>1, <4>1, <4>2
      <3>2. CASE e \notin reads \union jac
        <4>1. /\ e \in reads' <=> e \in Contribution(ResFunc.reads)
              /\ e \in jac' <=> e \in Contribution(ResFunc.jac)
          BY <1>1, <1>2, <3>2
        <4>2. e[1][1] = Physics
          BY <1>6, <2>1, <4>1
        <4> QED BY <1>4, <1>5, <1>7, <4>1, <4>2
      <3> QED BY <3>1, <3>2
    <2> QED BY <1>1, <2>1 DEF PartsAgree, Enabled
  <1>9. NoneStopped'
    <2> SUFFICES ASSUME NEW i \in DOMAIN c.list, NEW n \in DOMAIN VisitHooks,
                        Passed(i, n)', Enabled(c.list[i])
                 PROVE  ~Halts(Terms(c, c.list[i], VisitHooks[n]))
      BY <1>1 DEF NoneStopped, Enabled, VisitHooks
    <2>1. Passed(i, n) \/ (n = hook /\ i = next)
      <3>1. CASE ListDone
        BY <1>1, <3>1, LoopStep DEF Passed
      <3>2. CASE ~ListDone
        <4>1. phase' = "physics"
          BY <1>1, <3>2, StepMoves
        <4>2. i \in 1..(next' - 1) => i \in Before \/ i = next
          BY <1>1, <3>2, LoopStep
        <4> QED BY <1>1, <4>1, <4>2 DEF Passed, Before
      <3> QED BY <3>1, <3>2
    <2>2. CASE Passed(i, n)
      BY <1>3, <2>2 DEF NoneStopped
    <2>3. CASE n = hook /\ i = next
      BY <1>4, <1>5, <2>3 DEF ResFunc
    <2> QED BY <2>1, <2>2, <2>3
  <1> QED BY <1>8, <1>9

\* The step past a physics that is not enabled.
LEMMA JacobianSkip ==
  ASSUME InRange, JacobianSoFar, Skip
  PROVE  JacobianSoFar'
  <1>1. /\ phase = "physics" /\ Step("returned") /\ c' = c /\ ~EnabledOnElem
        /\ request' = request /\ visit' = visit /\ hook' = hook
        /\ reads' = reads /\ jac' = jac
    BY DEF Skip, system, call
  <1>2. SUFFICES ASSUME ComputeJacobian PROVE (PartsAgree /\ NoneStopped)'
    BY <1>1 DEF JacobianSoFar, ComputeJacobian
  <1>3. PartsAgree /\ NoneStopped
    BY <1>1, <1>2 DEF JacobianSoFar, Assembling
  <1>4. PartsAgree'
    BY <1>1, <1>3 DEF PartsAgree, Enabled
  <1>5. NoneStopped'
    <2> SUFFICES ASSUME NEW i \in DOMAIN c.list, NEW n \in DOMAIN VisitHooks,
                        Passed(i, n)', Enabled(c.list[i])
                 PROVE  ~Halts(Terms(c, c.list[i], VisitHooks[n]))
      BY <1>1 DEF NoneStopped, Enabled, VisitHooks
    <2>1. Passed(i, n) \/ (n = hook /\ i = next)
      <3>1. CASE ListDone
        BY <1>1, <3>1, LoopStep DEF Passed
      <3>2. CASE ~ListDone
        <4>1. phase' = "physics"
          BY <1>1, <3>2, StepMoves
        <4>2. i \in 1..(next' - 1) => i \in Before \/ i = next
          BY <1>1, <3>2, LoopStep
        <4> QED BY <1>1, <4>1, <4>2 DEF Passed, Before
      <3> QED BY <3>1, <3>2
    <2>2. i # next
      BY <1>1 DEF EnabledOnElem, Enabled, Physics
    <2> QED BY <1>3, <2>1, <2>2 DEF NoneStopped
  <1> QED BY <1>4, <1>5

\* A step that collects nothing and passes no physics.
LEMMA JacobianStays ==
  ASSUME JacobianSoFar, phase \in Assembling, c' = c, request' = request,
         visit' = visit, reads' = reads, jac' = jac,
         \A i \in DOMAIN c.list, n \in DOMAIN VisitHooks :
           Passed(i, n)' => Passed(i, n)
  PROVE  JacobianSoFar'
  <1> SUFFICES ASSUME ComputeJacobian PROVE (PartsAgree /\ NoneStopped)'
    BY DEF JacobianSoFar, ComputeJacobian
  <1>1. PartsAgree /\ NoneStopped
    BY DEF JacobianSoFar
  <1> QED BY <1>1 DEF PartsAgree, NoneStopped, Enabled, VisitHooks

\* Residual and Jacobian agree after every call that did not stop.
LEMMA JacobianInvariant ==
  ASSUME \A k \in Configs : JacobiansAreComplete(k)
  PROVE  Spec => []JacobianSoFar
  <1>1. Init => JacobianSoFar
    BY DEF Init, JacobianSoFar, Assembling
  <1>2. InRange /\ JacobianSoFar /\ [Next]_vars => JacobianSoFar'
    <2> SUFFICES ASSUME InRange, JacobianSoFar, [Next]_vars
                 PROVE  JacobianSoFar'
      OBVIOUS
    <2>e. ASSUME phase' \notin Assembling PROVE JacobianSoFar'
      BY <2>e DEF JacobianSoFar
    <2>1. CASE InitVariables
      BY <2>1, <2>e DEF InitVariables, Step, Assembling
    <2>2. CASE RefuseVariable
      BY <2>2, <2>e DEF RefuseVariable, Assembling
    <2>3. CASE SetTimeEvolving
      BY <2>3, <2>e DEF SetTimeEvolving, Step, Assembling
    <2>4. CASE SetIsSteady
      BY <2>4, <2>e DEF SetIsSteady, Assembling
    <2>5. CASE BuildContext
      BY <2>5, <2>e DEF BuildContext, Assembling
    <2>6. CASE InitContext
      BY <2>6, <2>e DEF InitContext, Step, Assembling
    <2>7. ASSUME NEW v \in Visits, StartVisit(v) PROVE JacobianSoFar'
      <3>1. /\ hook' = 1 /\ phase' = "caching" /\ c' = c /\ visit' = v
            /\ reads' = {} /\ jac' = {}
        BY <2>7 DEF StartVisit, system
      <3>2. PartsAgree'
        BY <3>1 DEF PartsAgree
      <3>3. \A n \in DOMAIN VisitHooks' : ~(n < 1)
        BY <3>1, HookFacts DEF VisitHooks
      <3>4. \A i, n : Passed(i, n)' => n < 1
        BY <3>1 DEF Passed
      <3>5. NoneStopped'
        BY <3>3, <3>4 DEF NoneStopped
      <3> QED BY <3>2, <3>5 DEF JacobianSoFar
    <2>8. CASE ComputeCache
      <3>1. /\ phase = "caching" /\ Step("physics") /\ c' = c /\ hook' = hook
            /\ visit' = visit /\ reads' = reads /\ jac' = jac
            /\ request' = request
        BY <2>8 DEF ComputeCache, system
      <3>2. (phase' = "caching") \/ (phase' = "physics" /\ next' = 1)
        BY <3>1, StepMoves
      <3>3. \A i, n : Passed(i, n)' => Passed(i, n)
        BY <3>1, <3>2 DEF Passed, Before
      <3> QED BY <3>1, <3>3, JacobianStays DEF Assembling
    <2>9. CASE Contribute
      BY <2>9, JacobianContribute
    <2>10. CASE Skip
      BY <2>10, JacobianSkip
    <2>11. CASE Stop
      BY <2>11, <2>e DEF Stop, Assembling
    <2>12. CASE NextHook
      <3>1. /\ phase = "returned" /\ hook' = hook + 1 /\ phase' = "caching"
            /\ c' = c /\ visit' = visit /\ reads' = reads /\ jac' = jac
            /\ request' = request
        BY <2>12 DEF NextHook, system
      <3>2. \A i \in DOMAIN c.list, n \in DOMAIN VisitHooks :
              Passed(i, n)' => Passed(i, n)
        <4>1. DOMAIN VisitHooks \subseteq Nat
          BY <3>1, HookFacts DEF VisitHooks, InRange
        <4> QED BY <3>1, <4>1 DEF Passed, InRange
      <3> QED BY <3>1, <3>2, JacobianStays DEF Assembling
    <2>13. CASE EndVisit
      BY <2>13, <2>e DEF EndVisit, Assembling
    <2>14. CASE UNCHANGED vars
      BY <2>14 DEF vars, JacobianSoFar, ComputeJacobian, PartsAgree,
          NoneStopped,
                   Enabled, VisitHooks, Passed, Before
    <2> QED BY <2>1, <2>2, <2>3, <2>4, <2>5, <2>6, <2>7, <2>8, <2>9, <2>10,
               <2>11, <2>12, <2>13, <2>14 DEF Next
  <1> QED BY <1>1, <1>2, InRangeInvariant, PTL DEF Spec

\* JacobianIsOfResidual: if the Jacobian of each physics is complete in the
\* scaling of each residual function, or the physics stops the program in that
\* kind of call, that of the system is complete whenever a call returns with
\* one, whatever the time solver, the physics enabled on the element and their
\* order.
THEOREM JacobianIsComplete ==
  ASSUME \A k \in Configs : JacobiansAreComplete(k)
  PROVE  Spec => []JacobianIsOfResidual
  <1>1. InRange /\ JacobianSoFar => JacobianIsOfResidual
    <2> SUFFICES ASSUME InRange, JacobianSoFar, VisitDone, ComputeJacobian
                 PROVE  jac = reads
      BY DEF JacobianIsOfResidual
    <2>1. phase = "returned" /\ ~MoreHooks /\ PartsAgree /\ NoneStopped
      BY DEF JacobianSoFar, VisitDone, Assembling
    <2>2. \A n \in DOMAIN VisitHooks : n < hook \/ n = hook
      <3>1. /\ DOMAIN VisitHooks = 1..Len(VisitHooks)
            /\ Len(VisitHooks) \in 2..3 /\ hook \in DOMAIN VisitHooks
        BY <2>1, HookFacts DEF InRange, VisitHooks
      <3>2. ~(hook < Len(VisitHooks))
        BY <2>1 DEF MoreHooks, VisitHooks
      <3> QED BY <3>1, <3>2
    <2>3. \A i \in DOMAIN c.list, n \in DOMAIN VisitHooks :
            Enabled(c.list[i]) => ~Halts(Terms(c, c.list[i], VisitHooks[n]))
      BY <2>1, <2>2 DEF NoneStopped, Passed
    <2>4. \A i \in DOMAIN c.list :
            Enabled(c.list[i]) => ~StopsJacobian(c, c.list[i], visit.kind)
      BY <2>3 DEF StopsJacobian, Halts, VisitHooks
    <2>5. \A e \in reads \union jac : e \in jac <=> e \in reads
      BY <2>1, <2>4 DEF PartsAgree
    <2> QED BY <2>5
  <1> QED BY <1>1, InRangeInvariant, JacobianInvariant, PTL

--------------------------------------------------------------------------
(* The rates.  Once the loop that marks the variables marched in time is   *)
(* over, nothing changes them.                                             *)

Marked(i) == Evolves(c, c.list[i]) \subseteq evolving
MarkingLoop ==
  /\ phase = "variables" => next \in DOMAIN c.list
  /\ phase = "evolving" => \A i \in Before : Marked(i)
  /\ phase \notin {"variables", "evolving", "aborted"} =>
       \A i \in DOMAIN c.list : Marked(i)

\* The loop over set_time_evolving_vars has marked what its physics march.
LEMMA MarkingInvariant == Spec => []MarkingLoop
  <1>1. Init => MarkingLoop
    BY ListFacts DEF Init, MarkingLoop
  <1>2. InRange /\ InRange' /\ MarkingLoop /\ [Next]_vars => MarkingLoop'
    <2> SUFFICES ASSUME InRange, InRange', MarkingLoop, [Next]_vars
                 PROVE  MarkingLoop'
      OBVIOUS
    <2>i. next' \in DOMAIN c'.list
      BY DEF InRange
    <2>1. CASE InitVariables
      <3>1. phase = "variables" /\ Step("evolving")
        BY <2>1 DEF InitVariables
      <3>2. phase' = "variables" \/ (phase' = "evolving" /\ next' = 1)
        BY <3>1, StepMoves
      <3> QED BY <2>i, <3>2 DEF MarkingLoop, Before
    <2>2. CASE RefuseVariable
      BY <2>2 DEF RefuseVariable, MarkingLoop
    <2>3. CASE SetTimeEvolving
      <3>1. /\ phase = "evolving" /\ Step("steady") /\ c' = c
            /\ \A i \in Before : Marked(i)
            /\ evolving' = evolving \union Evolves(c, Physics)
        BY <2>3 DEF SetTimeEvolving, MarkingLoop
      <3>2. \A i \in DOMAIN c.list : i \in Before \/ i = next => Marked(i)'
        BY <3>1 DEF Marked, Physics
      <3>3. CASE ListDone
        BY <3>1, <3>2, <3>3, LoopStep, StepMoves DEF MarkingLoop
      <3>4. CASE ~ListDone
        <4>1. phase' = "evolving" /\ next' \in DOMAIN c.list
          BY <3>1, <3>4, StepMoves
        <4>2. \A i \in 1..(next' - 1) : i \in DOMAIN c.list
          BY <4>1, ListFacts DEF InRange
        <4>3. \A i \in 1..(next' - 1) : Marked(i)'
          BY <3>1, <3>2, <3>4, <4>2, LoopStep
        <4> QED BY <4>1, <4>3 DEF MarkingLoop, Before
      <3> QED BY <3>3, <3>4
    <2>o. ASSUME phase \notin {"variables", "evolving", "aborted"},
                 phase' \notin {"variables", "evolving"},
                 c' = c, evolving' = evolving
          PROVE  MarkingLoop'
      BY <2>o DEF MarkingLoop, Marked
    <2>m. ASSUME NEW after, phase \notin {"variables", "evolving", "aborted"},
                 after \notin {"variables", "evolving"}, Step(after)
          PROVE  phase' \notin {"variables", "evolving"}
      BY <2>m DEF Step
    <2>4. CASE SetIsSteady
      BY <2>4, <2>o DEF SetIsSteady
    <2>5. CASE BuildContext
      BY <2>5, <2>o DEF BuildContext, system
    <2>6. CASE InitContext
      BY <2>6, <2>o, <2>m DEF InitContext, system
    <2>7. ASSUME NEW v \in Visits, StartVisit(v) PROVE MarkingLoop'
      BY <2>7, <2>o DEF StartVisit, system
    <2>8. CASE ComputeCache
      BY <2>8, <2>o, <2>m DEF ComputeCache, system
    <2>9. CASE Contribute
      BY <2>9, <2>o, <2>m DEF Contribute, system
    <2>10. CASE Skip
      BY <2>10, <2>o, <2>m DEF Skip, system
    <2>11. CASE Stop
      BY <2>11, <2>o DEF Stop, system
    <2>12. CASE NextHook
      BY <2>12, <2>o DEF NextHook, system
    <2>13. CASE EndVisit
      BY <2>13, <2>o DEF EndVisit, system
    <2>14. CASE UNCHANGED vars
      BY <2>14 DEF vars, MarkingLoop, Marked, Before
    <2> QED BY <2>1, <2>2, <2>3, <2>4, <2>5, <2>6, <2>7, <2>8, <2>9, <2>10,
               <2>11, <2>12, <2>13, <2>14 DEF Next
  <1> QED BY <1>1, <1>2, InRangeInvariant, PTL DEF Spec

\* MassHoldsRates: if each mass residual has a rate in each equation it
\* touches, of a variable some physics marches, then of one the system marches.
THEOREM MassesVanishAtRest ==
  ASSUME \A k \in Configs : MassesHoldRates(k)
  PROVE  Spec => []MassHoldsRates
  <1>1. InRange /\ MarkingLoop => MassHoldsRates
    <2> SUFFICES ASSUME InRange, MarkingLoop, Contributing, Hook \in MassHooks,
                        NEW e \in ResFunc.reads
                 PROVE  \E r \in ResFunc.reads :
                          r[1] = e[1] /\ r[3] = "rate" /\ r[2] \in evolving
      BY DEF MassHoldsRates
    <2>1. /\ phase = "physics" /\ next \in DOMAIN c.list /\ c \in Configs
          /\ \A j \in DOMAIN c.list : Marked(j)
      BY DEF Contributing, InRange, MarkingLoop
    <2>2. Hook \in MassHooks \intersect HookNames(c)
      BY <2>1, HookIsCalled
    <2>3. PICK r \in ResFunc.reads :
            /\ r[1] = e[1] /\ r[3] = "rate"
            /\ \E j \in DOMAIN c.list : r[2] \in Evolves(c, c.list[j])
      BY <2>1, <2>2 DEF MassesHoldRates, ResFunc, Physics
    <2> QED BY <2>1, <2>3 DEF Marked
  <1> QED BY <1>1, InRangeInvariant, MarkingInvariant, PTL

--------------------------------------------------------------------------
(* Types. *)

Types ==
  /\ types \in [Variables -> {NoType} \union
                  {a[2] : a \in UNION {Adds(c, c.list[i]) : i \in DOMAIN c.list}}]
  /\ evolving \subseteq UNION {Evolves(c, c.list[i]) : i \in DOMAIN c.list}
  /\ steady \in BOOLEAN
  /\ hook \in 1..3

\* TypeOK: every step keeps the system and the call of their types.
THEOREM TypeCorrect == Spec => []TypeOK
  <1>1. Init => Types
    <2> SUFFICES ASSUME Init PROVE Types OBVIOUS
    <2>1. steady \in BOOLEAN
      BY Zenon DEF Init
    <2> QED BY <2>1 DEF Init, Types
  <1>2. InRange /\ InRange' /\ Types /\ [Next]_vars => Types'
    <2> SUFFICES ASSUME InRange, InRange', Types, [Next]_vars PROVE Types'
      OBVIOUS
    <2>o. ASSUME system' = system, hook' = hook PROVE Types'
      BY <2>o DEF Types, system
    <2>1. CASE InitVariables
      <3> DEFINE range == {NoType} \union
             {a[2] : a \in UNION {Adds(c, c.list[i]) : i \in DOMAIN c.list}}
      <3>1. /\ types' = WithVariables(Adds(c, Physics)) /\ c' = c
            /\ evolving' = evolving /\ steady' = steady /\ hook' = hook
        BY <2>1 DEF InitVariables, call
      <3>2. \A a \in Adds(c, Physics) : a[2] \in range
        BY DEF Physics, InRange
      <3>3. \A v \in Variables : types[v] \in range
        BY DEF Types
      <3>4. ASSUME NEW v \in Variables
            PROVE  (IF \E a \in Adds(c, Physics) : a[1] = v
                    THEN (CHOOSE a \in Adds(c, Physics) : a[1] = v)[2]
                    ELSE types[v]) \in range
        BY <3>2, <3>3
      <3>5. types' \in [Variables -> range]
        BY <3>1, <3>4 DEF WithVariables
      <3> QED BY <3>1, <3>5 DEF Types
    <2>2. CASE RefuseVariable
      BY <2>2, <2>o DEF RefuseVariable, call
    <2>3. CASE SetTimeEvolving
      <3>1. Evolves(c, Physics) \subseteq
              UNION {Evolves(c, c.list[i]) : i \in DOMAIN c.list}
        BY DEF Physics, InRange
      <3>2. steady' \in BOOLEAN /\ hook' = hook
        BY <2>3, Zenon DEF SetTimeEvolving, Types, call
      <3> QED BY <2>3, <3>1, <3>2 DEF SetTimeEvolving, Types, call
    <2>4. CASE SetIsSteady
      <3>1. steady' \in BOOLEAN
        BY <2>4, Zenon DEF SetIsSteady
      <3> QED BY <2>4, <3>1 DEF SetIsSteady, Types, call
    <2>5. CASE BuildContext
      BY <2>5, <2>o DEF BuildContext, call
    <2>6. CASE InitContext
      BY <2>6, <2>o DEF InitContext, call
    <2>h. ASSUME system' = system, hook' \in 1..3 PROVE Types'
      BY <2>h DEF Types, system
    <2>7. ASSUME NEW v \in Visits, StartVisit(v) PROVE Types'
      BY <2>7, <2>h DEF StartVisit
    <2>8. CASE ComputeCache
      BY <2>8, <2>o DEF ComputeCache
    <2>9. CASE Contribute
      BY <2>9, <2>o DEF Contribute
    <2>10. CASE Skip
      BY <2>10, <2>o DEF Skip, call
    <2>11. CASE Stop
      BY <2>11, <2>o DEF Stop, call
    <2>12. CASE NextHook
      <3>1. visit \in Visits /\ hook \in Nat \ {0}
        BY <2>12 DEF NextHook, InRange
      <3>l. Len(Hooks(c)[visit.kind]) \in 2..3
        BY <3>1, HookFacts
      <3>m. hook < Len(Hooks(c)[visit.kind])
        BY <2>12 DEF NextHook, MoreHooks
      <3>n. ASSUME NEW n \in 2..3, NEW h \in Nat \ {0}, h < n
            PROVE  h + 1 \in 1..3
        BY <3>n
      <3>2. hook + 1 \in 1..3
        BY <3>1, <3>l, <3>m, <3>n
      <3>3. hook' = hook + 1 /\ system' = system
        BY <2>12 DEF NextHook
      <3>4. hook' \in 1..3
        BY <3>2, <3>3
      <3> QED BY <2>h, <3>3, <3>4
    <2>13. CASE EndVisit
      BY <2>13, <2>h DEF EndVisit
    <2>14. CASE UNCHANGED vars
      BY <2>14, <2>o DEF vars, system
    <2> QED BY <2>1, <2>2, <2>3, <2>4, <2>5, <2>6, <2>7, <2>8, <2>9, <2>10,
               <2>11, <2>12, <2>13, <2>14 DEF Next
  <1>3. InRange /\ Types => TypeOK
    BY DEF InRange, Types, TypeOK
  <1> QED BY <1>1, <1>2, <1>3, InRangeInvariant, PTL DEF Spec

--------------------------------------------------------------------------
(* The variables marched in time.  An element where every physics is       *)
(* enabled collects what each of them reads in each residual function.     *)

ElementHooks == Hooks(c).element
\* Physics i did not stop in the n-th residual function, and the rates it
\* reads there are collected.
Collected(i, n) ==
  /\ Terms(c, c.list[i], ElementHooks[n]).stops # "always"
  /\ \A e \in Terms(c, c.list[i], ElementHooks[n]).reads :
       e[3] = "rate" => \E d \in reads : d[2][1] = e[1] /\ d[2][3] = "rate"
OnElement == phase \in Assembling /\ visit.kind = "element" /\ EnabledEverywhere
CollectLoop ==
  OnElement => \A i \in DOMAIN c.list, n \in DOMAIN ElementHooks :
                 Passed(i, n) => Collected(i, n)

\* What was collected of a residual function stays collected.
LEMMA CollectedGrows ==
  ASSUME c' = c, reads \subseteq reads', NEW i, NEW n, Collected(i, n)
  PROVE  Collected(i, n)'
  BY DEF Collected, ElementHooks

\* A loop of an element's call that adds nothing, or passes one more physics.
LEMMA CollectContribute ==
  ASSUME InRange, CollectLoop, Contribute
  PROVE  CollectLoop'
  <1>1. /\ phase = "physics" /\ Step("returned") /\ c' = c
        /\ visit' = visit /\ hook' = hook
        /\ reads' = reads \union Contribution(ResFunc.reads)
    BY DEF Contribute, system
  <1>2. SUFFICES ASSUME OnElement',
                        NEW i \in DOMAIN c.list, NEW n \in DOMAIN ElementHooks,
                        Passed(i, n)'
                 PROVE  Collected(i, n)'
    BY <1>1 DEF CollectLoop, ElementHooks
  <1>3. OnElement
    BY <1>1, <1>2 DEF OnElement, EnabledEverywhere, Assembling
  <1>4. Passed(i, n) \/ (n = hook /\ i = next)
    <2>1. CASE ListDone
      BY <1>1, <1>2, <2>1, LoopStep DEF Passed
    <2>2. CASE ~ListDone
      <3>1. phase' = "physics"
        BY <1>1, <2>2, StepMoves
      <3>2. i \in 1..(next' - 1) => i \in Before \/ i = next
        BY <1>1, <2>2, LoopStep
      <3> QED BY <1>1, <1>2, <3>1, <3>2 DEF Passed, Before
    <2> QED BY <2>1, <2>2
  <1>5. CASE Passed(i, n)
    BY <1>1, <1>3, <1>5, CollectedGrows DEF CollectLoop
  <1>6. CASE n = hook /\ i = next
    <2>1. ResFunc = Terms(c, c.list[i], ElementHooks[n])
      BY <1>2, <1>1, <1>6 DEF ResFunc, Physics, Hook, ElementHooks, OnElement
    <2>2. ASSUME NEW e \in ResFunc.reads, e[3] = "rate"
          PROVE  \E d \in reads' : d[2][1] = e[1] /\ d[2][3] = "rate"
      <3> DEFINE d == <<<<Physics, Hook>>, <<e[1], e[2], "rate">>>>
      <3>1. <<e[1], e[2], "rate">> \in Scaled(c, Hook, ResFunc.reads)
        BY <2>2 DEF Scaled
      <3>2. d \in reads'
        BY <1>1, <3>1 DEF Contribution
      <3>3. d[2][1] = e[1] /\ d[2][3] = "rate"
        OBVIOUS
      <3> QED BY <3>2, <3>3
    <2>3. ResFunc.stops # "always"
      BY DEF Contribute, Stops
    <2> QED BY <1>1, <2>1, <2>2, <2>3 DEF Collected, ElementHooks
  <1> QED BY <1>4, <1>5, <1>6

\* The loop over the residual functions has collected what they read.
LEMMA CollectInvariant == Spec => []CollectLoop
  <1>1. Init => CollectLoop
    BY DEF Init, CollectLoop, OnElement, Assembling
  <1>2. InRange /\ InRange' /\ CollectLoop /\ [Next]_vars => CollectLoop'
    <2> SUFFICES ASSUME InRange, InRange', CollectLoop, [Next]_vars
                 PROVE  CollectLoop'
      OBVIOUS
    <2>e. ASSUME phase' \notin Assembling PROVE CollectLoop'
      BY <2>e DEF CollectLoop, OnElement
    <2>1. CASE InitVariables
      BY <2>1, <2>e DEF InitVariables, Step, Assembling
    <2>2. CASE RefuseVariable
      BY <2>2, <2>e DEF RefuseVariable, Assembling
    <2>3. CASE SetTimeEvolving
      BY <2>3, <2>e DEF SetTimeEvolving, Step, Assembling
    <2>4. CASE SetIsSteady
      BY <2>4, <2>e DEF SetIsSteady, Assembling
    <2>5. CASE BuildContext
      BY <2>5, <2>e DEF BuildContext, Assembling
    <2>6. CASE InitContext
      BY <2>6, <2>e DEF InitContext, Step, Assembling
    <2>7. ASSUME NEW v \in Visits, StartVisit(v) PROVE CollectLoop'
      <3>1. hook' = 1 /\ phase' = "caching" /\ c' = c
        BY <2>7 DEF StartVisit, system
      <3>2. \A n \in DOMAIN ElementHooks : ~(n < 1)
        BY DEF ElementHooks, Hooks
      <3>3. ElementHooks' = ElementHooks
        BY <3>1 DEF ElementHooks
      <3>4. \A i, n : Passed(i, n)' => n < 1
        BY <3>1 DEF Passed
      <3> QED
        BY <3>1, <3>2, <3>3, <3>4 DEF CollectLoop
    <2>s. ASSUME phase \in Assembling, c' = c, visit' = visit, reads' = reads,
                 \A i \in DOMAIN c.list, n \in DOMAIN ElementHooks :
                   OnElement /\ Passed(i, n)' => Passed(i, n)
          PROVE  CollectLoop'
      BY <2>s DEF CollectLoop, OnElement, EnabledEverywhere, Collected,
                  ElementHooks
    <2>8. CASE ComputeCache
      <3>1. /\ phase = "caching" /\ Step("physics") /\ c' = c /\ hook' = hook
            /\ visit' = visit /\ reads' = reads
        BY <2>8 DEF ComputeCache, system
      <3>2. (phase' = "caching") \/ (phase' = "physics" /\ next' = 1)
        BY <3>1, StepMoves
      <3>3. \A i, n : Passed(i, n)' => Passed(i, n)
        BY <3>1, <3>2 DEF Passed, Before
      <3> QED BY <2>s, <3>1, <3>3 DEF Assembling
    <2>9. CASE Contribute
      BY <2>9, CollectContribute
    <2>10. CASE Skip
      <3>1. /\ phase = "physics" /\ ~EnabledOnElem /\ c' = c
            /\ visit' = visit /\ reads' = reads
        BY <2>10 DEF Skip, system, call
      <3>2. ~EnabledEverywhere
        BY <3>1 DEF EnabledOnElem, EnabledEverywhere, InRange, Physics
      <3> QED BY <2>s, <3>1, <3>2 DEF OnElement, Assembling
    <2>11. CASE Stop
      BY <2>11, <2>e DEF Stop, Assembling
    <2>12. CASE NextHook
      <3>1. /\ phase = "returned" /\ hook' = hook + 1 /\ phase' = "caching"
            /\ c' = c /\ visit' = visit /\ reads' = reads
        BY <2>12 DEF NextHook, system
      <3>2. \A i \in DOMAIN c.list, n \in DOMAIN ElementHooks :
              Passed(i, n)' => Passed(i, n)
        <4>1. DOMAIN ElementHooks \subseteq Nat
          BY DEF ElementHooks, Hooks
        <4> QED BY <3>1, <4>1 DEF Passed, InRange
      <3> QED BY <2>s, <3>1, <3>2 DEF Assembling
    <2>13. CASE EndVisit
      BY <2>13, <2>e DEF EndVisit, Assembling
    <2>14. CASE UNCHANGED vars
      BY <2>14 DEF vars, CollectLoop, OnElement, EnabledEverywhere, Passed,
                   Before, Collected, ElementHooks
    <2> QED BY <2>1, <2>2, <2>3, <2>4, <2>5, <2>6, <2>7, <2>8, <2>9, <2>10,
               <2>11, <2>12, <2>13, <2>14 DEF Next
  <1> QED BY <1>1, <1>2, InRangeInvariant, PTL DEF Spec

\* set_is_steady tells the physics what the time solver is.
SteadyIsTold ==
  phase \notin {"variables", "evolving", "steady", "aborted"} =>
    steady = (c.scheme = "steady")

\* Every physics has been told, before the first residual is assembled.
LEMMA SteadyInvariant == Spec => []SteadyIsTold
  <1>1. Init => SteadyIsTold
    BY DEF Init, SteadyIsTold
  <1>2. SteadyIsTold /\ [Next]_vars => SteadyIsTold'
    BY Zenon DEF SteadyIsTold, Next, vars, system, call, Step, InitVariables,
       RefuseVariable, SetTimeEvolving, SetIsSteady, BuildContext, InitContext,
       StartVisit, ComputeCache, Contribute, Skip, Stop, NextHook, EndVisit
  <1> QED BY <1>1, <1>2, PTL DEF Spec

\* EvolvingAreMarched: if some physics of the list reads a rate for each
\* variable one of them marches, or stops the program there, then on every
\* element where all are enabled each of these variables has its rate,
\* whatever the list and its order.
THEOREM MarchedHaveRates ==
  ASSUME \A k \in Configs : RatesAreRead(k)
  PROVE  Spec => []EvolvingAreMarched
  <1>1. InRange /\ TypeOK /\ VariablesLoop /\ SteadyIsTold /\ CollectLoop
          => EvolvingAreMarched
    <2> SUFFICES ASSUME InRange, TypeOK, VariablesLoop, SteadyIsTold,
                        CollectLoop, VisitDone, visit.kind = "element",
                        EnabledEverywhere, ~steady,
                        NEW v \in evolving, types[v] # "scalar"
                 PROVE  \E e \in reads : e[2][1] = v /\ e[2][3] = "rate"
      BY DEF EvolvingAreMarched
    <2>1. /\ phase = "returned" /\ c \in Configs /\ c.scheme # "steady"
          /\ \A i \in DOMAIN c.list : AddsDone(i)
      BY DEF VisitDone, InRange, SteadyIsTold, VariablesLoop
    <2>2. PICK i \in DOMAIN c.list : v \in Evolves(c, c.list[i])
      BY DEF TypeOK
    <2>3. ~ \E a \in Adds(c, c.list[i]) : a[1] = v /\ a[2] = "scalar"
      BY <2>1 DEF AddsDone
    <2>4. PICK j \in DOMAIN c.list, n \in DOMAIN ElementHooks :
            \/ \E e \in Terms(c, c.list[j], ElementHooks[n]).reads :
                 e[1] = v /\ e[3] = "rate"
            \/ Terms(c, c.list[j], ElementHooks[n]).stops = "always"
      BY <2>1, <2>2, <2>3 DEF RatesAreRead, ElementHooks
    <2>5. Passed(j, n)
      <3>1. visit \in Visits /\ hook \in DOMAIN Hooks(c)[visit.kind]
        BY <2>1 DEF InRange
      <3>2. /\ DOMAIN ElementHooks = 1..Len(ElementHooks)
            /\ Len(ElementHooks) \in 2..3 /\ hook \in DOMAIN ElementHooks
        BY <3>1, HookFacts DEF ElementHooks
      <3>3. ~(hook < Len(ElementHooks))
        BY DEF VisitDone, MoreHooks, ElementHooks
      <3> QED BY <2>1, <3>2, <3>3 DEF Passed
    <2> QED BY <2>1, <2>4, <2>5 DEF CollectLoop, OnElement, Assembling,
        Collected
  <1> QED BY <1>1, InRangeInvariant, TypeCorrect, VariablesInvariant,
             SteadyInvariant, CollectInvariant, PTL

--------------------------------------------------------------------------
(* The factory.                                                            *)

\* What the check makes a physics come with is in every list that passes.
LEMMA LeastIsListed ==
  ASSUME NEW list, IsConsistent(list), NEW p \in list
  PROVE  Least(p) \subseteq list
  <1>1. ASSUME NEW part, part \subseteq list
        PROVE  Requiring(part) \subseteq list
    BY <1>1 DEF IsConsistent, Requiring
  <1>2. Requiring({p}) \subseteq list
    BY <1>1
  <1> QED BY <1>1, <1>2 DEF Least

--------------------------------------------------------------------------
(* The physics of the program, one class at a time.                        *)

\* The members of the sets of dependences and of shapes.
LEMMA Dependences ==
  \A R, C, e :
    /\ e \in Value(R, C) <=>
         e = <<e[1], e[2], "value">> /\ e[1] \in R /\ e[2] \in C
    /\ e \in Rate(R, C) <=>
         e = <<e[1], e[2], "rate">> /\ e[1] \in R /\ e[2] \in C
    /\ e \in Plain(R, C) <=>
         e = <<e[1], e[2], "one">> /\ e[1] \in R /\ e[2] \in C
  BY DEF Value, Rate, Plain

\* The members of the sets of each variable's own dependences.
LEMMA OwnDependences ==
  \A R, e :
    /\ e \in OwnValue(R) <=> e = <<e[1], e[1], "value">> /\ e[1] \in R
    /\ e \in OwnRate(R) <=> e = <<e[1], e[1], "rate">> /\ e[1] \in R
  BY DEF OwnValue, OwnRate

\* The members of the sets of shape functions.
LEMMA Shapes ==
  \A V, s :
    /\ s \in Phi(V) <=> s = <<s[1], "phi">> /\ s[1] \in V
    /\ s \in Gradients(V) <=>
         s = <<s[1], s[2]>> /\ s[1] \in V /\ s[2] \in {"phi", "dphi"}
    /\ s \in Hessians(V) <=>
         s = <<s[1], s[2]>> /\ s[1] \in V /\ s[2] \in {"phi", "dphi", "d2phi"}
  BY DEF Phi, Gradients, Hessians

\* What a residual function is that has no Jacobian yet or takes from the cache.
LEMMA NoJacobianYetIs ==
  ASSUME NEW r, NEW s
  PROVE  NoJacobianYet(r, s) =
           [reads |-> r, jac |-> {}, shapes |-> s, gets |-> {},
            stops |-> "jacobian"]
  BY DEF NoJacobianYet, Term

\* What a residual function is that takes values from the cache.
LEMMA CachedIs ==
  ASSUME NEW r, NEW j, NEW s, NEW q
  PROVE  Cached(Term(r, j, s), q) =
           [reads |-> r, jac |-> j, shapes |-> s, gets |-> q,
            stops |-> "never"]
  BY DEF Cached, Term

\* What it is that also has no Jacobian yet.
LEMMA CachedButNoJacobian ==
  ASSUME NEW r, NEW s, NEW q
  PROVE  Cached(NoJacobianYet(r, s), q) =
           [reads |-> r, jac |-> {}, shapes |-> s, gets |-> q,
            stops |-> "jacobian"]
  <1>1. NoJacobianYet(r, s) =
          [reads |-> r, jac |-> {}, shapes |-> s, gets |-> {},
           stops |-> "jacobian"]
    BY NoJacobianYetIs
  <1> QED BY <1>1 DEF Cached

\* The variables that a set of pairs of variable and type names.
NamesOf(pairs) == {a[1] : a \in pairs}

\* Pairs name some variables when each pair names one of them and each of
\* them is in a pair.
LEMMA NamesOfPairs ==
  ASSUME NEW pairs, NEW names, \A a \in pairs : a[1] \in names,
         \A v \in names : \E t : <<v, t>> \in pairs
  PROVE  NamesOf(pairs) = names
  <1>1. ASSUME NEW v \in names PROVE v \in NamesOf(pairs)
    <2>1. PICK t : <<v, t>> \in pairs OBVIOUS
    <2>2. <<v, t>>[1] = v OBVIOUS
    <2> QED BY <2>1, <2>2 DEF NamesOf
  <1>2. ASSUME NEW v \in NamesOf(pairs) PROVE v \in names
    BY <1>2 DEF NamesOf
  <1> QED BY <1>1, <1>2

\* The variables of the flow are the velocity and the pressure.
LEMMA FlowNames ==
  ASSUME NEW k, NEW s PROVE NamesOf(FlowVars(k, s)) = Flow(k)
  <1>1. \A a \in FlowVars(k, s) : a[1] \in Flow(k)
    BY DEF FlowVars, Flow
  <1>2. \A v \in Flow(k) : \E t : <<v, t>> \in FlowVars(k, s)
    BY DEF FlowVars, Flow
  <1> QED BY <1>1, <1>2, NamesOfPairs

\* The variable of the temperature.
LEMMA TempNames ==
  ASSUME NEW k, NEW s PROVE NamesOf(TempVar(k, s)) = {"T"}
  <1>1. \A a \in TempVar(k, s) : a[1] \in {"T"}
    BY DEF TempVar
  <1>2. \A v \in {"T"} : \E t : <<v, t>> \in TempVar(k, s)
    BY DEF TempVar
  <1> QED BY <1>1, <1>2, NamesOfPairs

\* The variables of heat transfer are the flow's and the temperature.
LEMMA HeatTransferNames ==
  ASSUME NEW k PROVE NamesOf(HeatTransferVars(k)) = Flow(k) \union {"T"}
  <1>1. \A a \in HeatTransferVars(k) : a[1] \in Flow(k) \union {"T"}
    BY DEF HeatTransferVars, FlowVars, Flow, TempVar
  <1>2. \A v \in Flow(k) \union {"T"} : \E t : <<v, t>> \in HeatTransferVars(k)
    BY DEF HeatTransferVars, FlowVars, Flow, TempVar
  <1> QED BY <1>1, <1>2, NamesOfPairs

\* The variables of the low Mach flow are those it marches.
LEMMA LowMachNames ==
  ASSUME NEW k PROVE NamesOf(LowMachVars(k)) = LowMachEvolves(k)
  <1>1. \A a \in LowMachVars(k) : a[1] \in LowMachEvolves(k)
    BY DEF LowMachVars, LowMachEvolves, FlowVars, Flow, TempVar
  <1>2. \A v \in LowMachEvolves(k) : \E t : <<v, t>> \in LowMachVars(k)
    BY DEF LowMachVars, LowMachEvolves, FlowVars, Flow, TempVar
  <1> QED BY <1>1, <1>2, NamesOfPairs

\* The variables of the reacting flow are those it marches.
LEMMA ReactingNames ==
  ASSUME NEW k PROVE NamesOf(ReactingVars(k)) = ReactingEvolves(k)
  <1>1. \A a \in ReactingVars(k) : a[1] \in ReactingEvolves(k)
    BY DEF ReactingVars, ReactingEvolves, FlowVars, Flow, TempVar
  <1>2. \A v \in ReactingEvolves(k) : \E t : <<v, t>> \in ReactingVars(k)
    BY DEF ReactingVars, ReactingEvolves, FlowVars, Flow, TempVar
  <1> QED BY <1>1, <1>2, NamesOfPairs

\* The variables of the turbine are the flow's and the speed of the fan.
LEMMA TurbineNames ==
  ASSUME NEW k PROVE NamesOf(TurbineVars(k)) = {"fan_speed"} \union Flow(k)
  <1>1. \A a \in TurbineVars(k) : a[1] \in {"fan_speed"} \union Flow(k)
    BY DEF TurbineVars, FlowVars, Flow
  <1>2. \A v \in {"fan_speed"} \union Flow(k) : \E t : <<v, t>> \in TurbineVars(k)
    BY DEF TurbineVars, FlowVars, Flow
  <1> QED BY <1>1, <1>2, NamesOfPairs

\* The variables of axisymmetric heat transfer.
LEMMA AxisymmetricNames ==
  ASSUME NEW k PROVE NamesOf(AxisymmetricVars(k)) = AxisVelocity \union {"T"}
  <1>1. \A a \in AxisymmetricVars(k) : a[1] \in AxisVelocity \union {"T"}
    BY DEF AxisymmetricVars, TempVar
  <1>2. \A v \in AxisVelocity \union {"T"} : \E t : <<v, t>> \in AxisymmetricVars(k)
    BY DEF AxisymmetricVars, TempVar
  <1> QED BY <1>1, <1>2, NamesOfPairs

\* The variables of a solid are its displacements.
LEMMA DisplacementNames ==
  ASSUME NEW k, NEW s PROVE NamesOf(DisplacementVars(k, s)) = Displacement
  <1>1. \A a \in DisplacementVars(k, s) : a[1] \in Displacement
    BY DEF DisplacementVars
  <1>2. \A v \in Displacement : \E t : <<v, t>> \in DisplacementVars(k, s)
    BY DEF DisplacementVars
  <1> QED BY <1>1, <1>2, NamesOfPairs

\* The variables of a membrane are its displacements and its stretch.
LEMMA MembraneNames ==
  ASSUME NEW k PROVE NamesOf(MembraneVars(k)) = Displacement \union Stretch(k)
  <1>1. \A a \in MembraneVars(k) : a[1] \in Displacement \union Stretch(k)
    BY DEF MembraneVars, DisplacementVars
  <1>2. \A v \in Displacement \union Stretch(k) : \E t : <<v, t>> \in MembraneVars(k)
    BY DEF MembraneVars, DisplacementVars
  <1> QED BY <1>1, <1>2, NamesOfPairs

\* The variable of the scalar equation.
LEMMA ScalarNames ==
  NamesOf(ScalarVars) = {"scalar_var"}
  <1>1. \A a \in ScalarVars : a[1] \in {"scalar_var"}
    BY DEF ScalarVars
  <1>2. \A v \in {"scalar_var"} : \E t : <<v, t>> \in ScalarVars
    BY DEF ScalarVars
  <1> QED BY <1>1, <1>2, NamesOfPairs

\* The names of the physics, one by one.
LEMMA NamesOfPhysics ==
  ASSUME NEW p \in AllPhysics
  PROVE  p \in
           {"AveragedFan",
            "AveragedFanAdjointStabilization",
            "AveragedTurbine",
            "AxisymmetricBoussinesqBuoyancy",
            "AxisymmetricHeatTransfer",
            "BoussinesqBuoyancy",
            "BoussinesqBuoyancyAdjointStabilization",
            "BoussinesqBuoyancySPGSMStabilization",
            "ElasticCable",
            "ElasticCableConstantGravity",
            "ElasticMembrane",
            "ElasticMembraneConstantPressure",
            "HeatConduction",
            "HeatTransfer",
            "HeatTransferAdjointStabilization",
            "HeatTransferSPGSMStabilization",
            "HeatTransferSource",
            "IncompressibleNavierStokes",
            "IncompressibleNavierStokesAdjointStabilization",
            "IncompressibleNavierStokesSPGSMStabilization",
            "LowMachNavierStokes",
            "LowMachNavierStokesBraackStabilization",
            "LowMachNavierStokesSPGSMStabilization",
            "LowMachNavierStokesVMSStabilization",
            "ReactingLowMachNavierStokes",
            "ScalarODE",
            "Stokes",
            "VelocityDrag",
            "VelocityDragAdjointStabilization",
            "VelocityPenalty",
            "VelocityPenaltyAdjointStabilization"}
  BY DEF AllPhysics, PhysicsOrder

\* A residual function takes and fills only blocks and shapes of its own.
StaysIn(term, own) ==
  /\ \A e \in term.reads \union term.jac : e[1] \in own /\ e[2] \in own
  /\ \A s \in term.shapes : s[1] \in own

\* Two residuals that keep to some variables do so together.
LEMMA TogetherStays ==
  ASSUME NEW a, NEW b, NEW own, StaysIn(a, own), StaysIn(b, own)
  PROVE  StaysIn(Together(a, b), own)
  BY DEF StaysIn, Together, Term

\* A class marches, asks for and uses only variables that it adds.
KeepsToOwn(cl) ==
  LET own == NamesOf(cl.adds)
  IN /\ cl.evolves \subseteq own
     /\ \A r \in cl.requests : r[1] \in own
     /\ \A h \in DOMAIN cl.terms : StaysIn(cl.terms[h], own)

\* The low Mach flow keeps to the variables it adds.
LEMMA LowMachKeepsToOwn ==
  ASSUME NEW k
  PROVE  KeepsToOwn(ClassOf(k, "LowMachNavierStokes"))
  <1> DEFINE own == LowMachEvolves(k)
  <1> USE Dependences, OwnDependences, Shapes DEF Term, StaysIn
  <1>1. StaysIn(LowMachContinuity(k), own) /\ StaysIn(LowMachMomentum(k), own)
    BY DEF LowMachContinuity, LowMachMomentum, LowMachEvolves, Flow, Velocity
  <1>2. StaysIn(LowMachEnergy(k), own) /\ StaysIn(LowMachThermo(k), own)
    BY DEF LowMachEnergy, LowMachThermo, LowMachEvolves, Flow, Velocity
  <1>3. StaysIn(ContinuityMass, own) /\ StaysIn(MomentumMass(k), own)
    BY DEF ContinuityMass, MomentumMass, LowMachEvolves, Flow, Velocity
  <1>4. StaysIn(EnergyMass(k), own) /\ (k.p0 => StaysIn(ThermoMass(k), own))
    BY DEF EnergyMass, ThermoMass, LowMachEvolves, Flow, ThermoPressure
  <1>5. StaysIn(NoTerm, own)
    BY DEF NoTerm
  <1>6. StaysIn(LowMachMass(k), own)
    BY <1>3, <1>4, <1>5, TogetherStays DEF LowMachMass
  <1>7. ASSUME NEW a, NEW b, NEW q, StaysIn(Together(a, b), own)
        PROVE  StaysIn(Cached(Together(a, b), q), own)
    BY <1>7 DEF Cached, Together
  <1>8. StaysIn(LowMachTime(k), own)
    <2>1. StaysIn(Together(LowMachContinuity(k), LowMachMomentum(k)), own)
      BY <1>1, TogetherStays
    <2>2. StaysIn(Together(LowMachEnergy(k),
                           IF k.p0 THEN LowMachThermo(k) ELSE NoTerm), own)
      BY <1>2, <1>5, TogetherStays
    <2> QED BY <2>1, <2>2, <1>7, TogetherStays, Zenon DEF LowMachTime
  <1>9. StaysIn(Pinning, own)
    BY DEF Pinning, LowMachEvolves, Flow
  <1> HIDE DEF Term, StaysIn
  <1>10. \A r \in LowMachRequests : r[1] \in own
    BY DEF LowMachRequests, LowMachEvolves, Flow, Velocity
  <1> HIDE DEF own
  <1>11. NamesOf(LowMachVars(k)) = own
    BY LowMachNames DEF own
  <1> QED
    BY <1>6, <1>8, <1>9, <1>10, <1>11
       DEF KeepsToOwn, ClassOf, LowMachClass, Class, own

\* So does the reacting flow.
LEMMA ReactingKeepsToOwn ==
  ASSUME NEW k
  PROVE  KeepsToOwn(ClassOf(k, "ReactingLowMachNavierStokes"))
  <1> DEFINE own == ReactingEvolves(k)
  <1> USE Dependences, Shapes DEF Term, StaysIn
  <1>1. StaysIn(ReactingTime(k), own)
    BY CachedButNoJacobian
       DEF ReactingTime, ReactingEvolves, ReactingUnknowns, LowMachUnknowns,
           Flow, Velocity, Species
  <1>2. StaysIn(Pinning, own) /\ StaysIn(NotImplemented, own)
    BY DEF Pinning, NotImplemented, ReactingEvolves, Flow
  <1> HIDE DEF Term, StaysIn
  <1>3. \A r \in ReactingRequests : r[1] \in own
    BY DEF ReactingRequests, ReactingEvolves, Flow, Velocity, Species
  <1> HIDE DEF own
  <1>4. NamesOf(ReactingVars(k)) = own
    BY ReactingNames DEF own
  <1> QED
    BY <1>1, <1>2, <1>3, <1>4
       DEF KeepsToOwn, ClassOf, ReactingClass, Class, own

\* Every class keeps to the variables it adds, but for the stabilized fan in
\* two dimensions.
LEMMA ClassesKeepToOwn ==
  ASSUME NEW k, NEW p \in AllPhysics \ Overreaching(k)
  PROVE  KeepsToOwn(ClassOf(k, p))
  <1> USE Dependences, OwnDependences, Shapes
      DEF KeepsToOwn, StaysIn, ClassOf, Class, Term
  <1>1. KeepsToOwn(ClassOf(k, "AveragedFan"))
    BY FlowNames DEF ForceClass, FanTime, ForceTime, Velocity, FlowClass,
        ForceRequests, FlowEvolves, Flow
  <1>2. ASSUME k.dim = 3
        PROVE  KeepsToOwn(ClassOf(k, "AveragedFanAdjointStabilization"))
    BY <1>2, FlowNames DEF ForceStabClass, FanStabTime, FanStabConstraint,
        ForceStabConstraint, FanStabBlocks, Velocity, ForceStabTime,
        FlowClass, ForceStabRequests, FlowEvolves, Flow
  <1>3. KeepsToOwn(ClassOf(k, "AveragedTurbine"))
    BY TurbineNames DEF TurbineClass, TurbineEvolves, ForceRequests,
        TurbineTime, TurbineSpeedTime, TurbineSpeedMass, TurbineUnknowns,
        Velocity, FlowEvolves, Flow
  <1>4. KeepsToOwn(ClassOf(k, "AxisymmetricBoussinesqBuoyancy"))
    BY AxisymmetricNames DEF AxisymmetricBuoyancyTime, AxisVelocity
  <1>5. KeepsToOwn(ClassOf(k, "AxisymmetricHeatTransfer"))
    BY AxisymmetricNames DEF AxisymmetricEvolves, AxisymmetricRequests,
        AxisymmetricHeatTime, AxisymmetricHeatMass, AxisVelocity
  <1>6. KeepsToOwn(ClassOf(k, "BoussinesqBuoyancy"))
    BY HeatTransferNames DEF BuoyancyClass, BuoyancyTime, Velocity, Flow
  <1>7. KeepsToOwn(ClassOf(k, "BoussinesqBuoyancyAdjointStabilization"))
    BY HeatTransferNames DEF BuoyancyClass, BuoyancyStabRequests,
        BuoyancyStabTime, BuoyancyStabConstraint, Velocity, Flow
  <1>8. KeepsToOwn(ClassOf(k, "BoussinesqBuoyancySPGSMStabilization"))
    BY HeatTransferNames, NoJacobianYetIs DEF BuoyancyClass,
        BuoyancySPGSMTime, BuoyancySPGSMConstraint, Velocity, Flow
  <1>9. KeepsToOwn(ClassOf(k, "ElasticCable"))
    BY DisplacementNames DEF SolidClass, CableRequests, CableTime, SolidMass,
        NotImplemented, Displacement, SolidEvolves
  <1>10. KeepsToOwn(ClassOf(k, "ElasticCableConstantGravity"))
    BY DisplacementNames DEF SolidClass, CableRequests, GravityTime,
        SolidEvolves, Displacement
  <1>11. KeepsToOwn(ClassOf(k, "ElasticMembrane"))
    <2>1. CASE k.compressible
      BY <2>1, MembraneNames, NoJacobianYetIs DEF SolidClass,
          MembraneRequests, MembraneTime, MembraneConstraint, SolidMass,
          NotImplemented, Displacement, SolidEvolves, Stretch
    <2>2. CASE ~k.compressible
      BY <2>2, MembraneNames, NoJacobianYetIs DEF SolidClass,
          MembraneRequests, MembraneTime, MembraneConstraint, SolidMass,
          NotImplemented, Displacement, SolidEvolves, Stretch, NoTerm
    <2> QED BY <2>1, <2>2
  <1>12. KeepsToOwn(ClassOf(k, "ElasticMembraneConstantPressure"))
    BY DisplacementNames DEF SolidClass, MembraneRequests, PressureTime,
        Across, Displacement, SolidEvolves
  <1>13. KeepsToOwn(ClassOf(k, "HeatConduction"))
    BY TempNames DEF TempEvolves, ConductionRequests, ConductionTime,
        ConductionMass
  <1>14. KeepsToOwn(ClassOf(k, "HeatTransfer"))
    BY HeatTransferNames DEF HeatClass, TempRequests, HeatTransferTime,
        HeatTransferMass, Velocity, TempEvolves, Flow
  <1>15. KeepsToOwn(ClassOf(k, "HeatTransferAdjointStabilization"))
    BY HeatTransferNames DEF HeatClass, TempStabRequests, HeatStabTime,
        HeatStabMass, Velocity, TempRequests, TempEvolves, Flow
  <1>16. KeepsToOwn(ClassOf(k, "HeatTransferSPGSMStabilization"))
    BY HeatTransferNames, NoJacobianYetIs DEF HeatClass, TempStabRequests,
        HeatSPGSMTime, HeatSPGSMMass, Velocity, TempRequests, TempEvolves,
        Flow
  <1>17. KeepsToOwn(ClassOf(k, "HeatTransferSource"))
    BY TempNames DEF SourceTime
  <1>18. KeepsToOwn(ClassOf(k, "IncompressibleNavierStokes"))
    BY FlowNames DEF NavierStokesClass, FlowEvolves, FlowRequests,
        NavierStokesTime, NavierStokesConstraint, Pinning, NavierStokesMass,
        Velocity, Flow
  <1>19. KeepsToOwn(ClassOf(k, "IncompressibleNavierStokesAdjointStabilization"))
    BY FlowNames DEF AdjointStabClass, FlowClass, FlowStabRequests,
        AdjointStabTime, AdjointStabConstraint, AdjointStabMass, Velocity,
        Flow, MomentumData, FlowRequests, FlowEvolves
  <1>20. KeepsToOwn(ClassOf(k, "IncompressibleNavierStokesSPGSMStabilization"))
    BY FlowNames, NoJacobianYetIs DEF SPGSMStabClass, FlowClass,
        FlowStabRequests, SPGSMStabTime, SPGSMStabConstraint, SPGSMStabMass,
        Flow, Velocity, MomentumData, FlowRequests, FlowEvolves
  <1>21. KeepsToOwn(ClassOf(k, "LowMachNavierStokes"))
    BY LowMachKeepsToOwn
  <1>22. KeepsToOwn(ClassOf(k, "LowMachNavierStokesBraackStabilization"))
    BY LowMachNames DEF LowMachStabClass, BraackTime, BraackMass,
        LowMachTransient, LowMachData, Velocity, Flow, LowMachUnknowns,
        TransientVia, LowMachStabRows, LowMachClass, LowMachStabRequests,
        LowMachRequests, LowMachEvolves
  <1>23. KeepsToOwn(ClassOf(k, "LowMachNavierStokesSPGSMStabilization"))
    BY LowMachNames DEF LowMachStabClass, LowMachSPGSMTime, LowMachSPGSMMass,
        LowMachTransient, LowMachData, Velocity, Flow, LowMachUnknowns,
        TransientVia, LowMachStabRows, LowMachClass, LowMachStabRequests,
        LowMachRequests, LowMachEvolves
  <1>24. KeepsToOwn(ClassOf(k, "LowMachNavierStokesVMSStabilization"))
    BY LowMachNames DEF LowMachStabClass, VMSTime, VMSMass, LowMachTransient,
        Velocity, LowMachData, Flow, LowMachUnknowns, TransientVia,
        LowMachStabRows, LowMachClass, LowMachStabRequests, LowMachRequests,
        LowMachEvolves
  <1>25. KeepsToOwn(ClassOf(k, "ReactingLowMachNavierStokes"))
    BY ReactingKeepsToOwn
  <1>26. KeepsToOwn(ClassOf(k, "ScalarODE"))
    BY ScalarNames DEF ScalarEvolves, ScalarTime, ScalarMass, ScalarConstraint
  <1>27. KeepsToOwn(ClassOf(k, "Stokes"))
    BY FlowNames DEF StokesClass, FlowEvolves, FlowRequests, StokesTime,
        StokesConstraint, StokesMass, Velocity, Flow
  <1>28. KeepsToOwn(ClassOf(k, "VelocityDrag"))
    BY FlowNames DEF ForceClass, DragTime, ForceTime, Velocity, FlowClass,
        ForceRequests, FlowEvolves, Flow
  <1>29. KeepsToOwn(ClassOf(k, "VelocityDragAdjointStabilization"))
    BY FlowNames DEF ForceStabClass, DragStabTime, DragStabConstraint,
        ForceStabConstraint, Velocity, ForceStabTime, FlowClass,
        ForceStabRequests, FlowEvolves, Flow
  <1>30. KeepsToOwn(ClassOf(k, "VelocityPenalty"))
    BY FlowNames DEF ForceClass, PenaltyTime, ForceTime, Velocity, FlowClass,
        ForceRequests, FlowEvolves, Flow
  <1>31. KeepsToOwn(ClassOf(k, "VelocityPenaltyAdjointStabilization"))
    BY FlowNames DEF ForceStabClass, PenaltyStabTime, PenaltyStabConstraint,
        ForceStabConstraint, Velocity, ForceStabTime, FlowClass,
        ForceStabRequests, FlowEvolves, Flow
  <1> HIDE DEF KeepsToOwn, ClassOf
  <1> QED BY NamesOfPhysics, <1>1, <1>2, <1>3, <1>4, <1>5, <1>6, <1>7, <1>8,
      <1>9, <1>10, <1>11, <1>12, <1>13, <1>14, <1>15, <1>16, <1>17, <1>18,
      <1>19, <1>20, <1>21, <1>22, <1>23, <1>24, <1>25, <1>26, <1>27, <1>28,
      <1>29, <1>30, <1>31
         DEF Overreaching

\* A mass residual has a rate, of a variable the class marches, in each
\* equation it touches.
MassIsOfRates(cl) ==
  \A h \in MassHooks \intersect DOMAIN cl.terms : \A e \in cl.terms[h].reads :
    \E v \in cl.evolves : <<e[1], v, "rate">> \in cl.terms[h].reads

\* The stabilized flow holds the rate of a velocity in its continuity, and the
\* low Mach flow that of the temperature, or of the thermodynamic pressure.
LEMMA StabilizedMassHasRates ==
  ASSUME NEW k,
         NEW term \in {AdjointStabMass(k), SPGSMStabMass(k)},
         NEW e \in term.reads
  PROVE  \E v \in FlowEvolves(k) : <<e[1], v, "rate">> \in term.reads
  <1> USE Dependences, OwnDependences DEF Term
  <1>1. CASE term = AdjointStabMass(k)
    <2>1. e[1] \in Velocity(k) \union {"p"}
      BY <1>1 DEF AdjointStabMass
    <2>2. /\ \A v \in Velocity(k) : <<v, v, "rate">> \in term.reads
          /\ "u" \in Velocity(k) /\ <<"p", "u", "rate">> \in term.reads
      BY <1>1 DEF AdjointStabMass, Velocity
    <2> QED BY <2>1, <2>2 DEF FlowEvolves
  <1>2. CASE term = SPGSMStabMass(k)
    <2>1. e[1] \in Velocity(k) \union {"p"}
      BY <1>2, NoJacobianYetIs DEF SPGSMStabMass, Flow
    <2>2. /\ \A v \in Velocity(k) : <<v, v, "rate">> \in term.reads
          /\ "u" \in Velocity(k) /\ <<"p", "u", "rate">> \in term.reads
      BY <1>2, NoJacobianYetIs DEF SPGSMStabMass, Velocity
    <2> QED BY <2>1, <2>2 DEF FlowEvolves
  <1> QED BY <1>1, <1>2

\* Each equation with a mass term of the low Mach flow has a rate in it.
LEMMA LowMachMassHasRates ==
  ASSUME NEW k, NEW e \in LowMachMass(k).reads
  PROVE  \E v \in LowMachEvolves(k) : <<e[1], v, "rate">> \in LowMachMass(k).reads
  <1> USE Dependences, OwnDependences DEF Term
  <1>1. e[1] \in Velocity(k) \union {"p", "T"} \union ThermoPressure(k)
    BY DEF LowMachMass, Together, ContinuityMass, MomentumMass, EnergyMass,
           ThermoMass, NoTerm, ThermoPressure
  <1>2. /\ \A v \in Velocity(k) \union {"T"} :
             <<v, v, "rate">> \in LowMachMass(k).reads
        /\ <<"p", "T", "rate">> \in LowMachMass(k).reads
    BY DEF LowMachMass, Together, ContinuityMass, MomentumMass, EnergyMass
  <1>3. \A v \in ThermoPressure(k) : <<v, v, "rate">> \in LowMachMass(k).reads
    BY DEF LowMachMass, Together, ThermoMass, ThermoPressure
  <1> QED BY <1>1, <1>2, <1>3 DEF LowMachEvolves, Flow

\* Every class has rates in its mass residuals, but for the stabilized low
\* Mach flow.
LEMMA ClassesHaveRates ==
  ASSUME NEW k, NEW p \in AllPhysics \ LowMachStabs
  PROVE  MassIsOfRates(ClassOf(k, p))
  <1> USE Dependences, OwnDependences
      DEF MassIsOfRates, MassHooks, ClassOf, Class, Term
  <1>1. MassIsOfRates(ClassOf(k, "AveragedFan"))
    BY DEF ForceClass, FlowClass
  <1>2. MassIsOfRates(ClassOf(k, "AveragedFanAdjointStabilization"))
    BY DEF ForceStabClass, FlowClass
  <1>3. MassIsOfRates(ClassOf(k, "AveragedTurbine"))
    BY DEF TurbineClass, TurbineEvolves, TurbineSpeedMass
  <1>4. MassIsOfRates(ClassOf(k, "AxisymmetricBoussinesqBuoyancy"))
    OBVIOUS
  <1>5. MassIsOfRates(ClassOf(k, "AxisymmetricHeatTransfer"))
    BY DEF AxisymmetricEvolves, AxisymmetricHeatMass
  <1>6. MassIsOfRates(ClassOf(k, "BoussinesqBuoyancy"))
    BY DEF BuoyancyClass
  <1>7. MassIsOfRates(ClassOf(k, "BoussinesqBuoyancyAdjointStabilization"))
    BY DEF BuoyancyClass
  <1>8. MassIsOfRates(ClassOf(k, "BoussinesqBuoyancySPGSMStabilization"))
    BY DEF BuoyancyClass
  <1>9. MassIsOfRates(ClassOf(k, "ElasticCable"))
    BY DEF SolidClass, SolidMass, NotImplemented, SolidEvolves, Displacement
  <1>10. MassIsOfRates(ClassOf(k, "ElasticCableConstantGravity"))
    BY DEF SolidClass, Displacement
  <1>11. MassIsOfRates(ClassOf(k, "ElasticMembrane"))
    BY DEF SolidClass, SolidMass, NotImplemented, SolidEvolves, Displacement
  <1>12. MassIsOfRates(ClassOf(k, "ElasticMembraneConstantPressure"))
    BY DEF SolidClass, Displacement
  <1>13. MassIsOfRates(ClassOf(k, "HeatConduction"))
    BY DEF TempEvolves, ConductionMass
  <1>14. MassIsOfRates(ClassOf(k, "HeatTransfer"))
    BY DEF HeatClass, HeatTransferMass, TempEvolves
  <1>15. MassIsOfRates(ClassOf(k, "HeatTransferAdjointStabilization"))
    BY DEF HeatClass, HeatStabMass, Velocity, TempEvolves
  <1>16. MassIsOfRates(ClassOf(k, "HeatTransferSPGSMStabilization"))
    BY DEF HeatClass, HeatSPGSMMass, Velocity, TempEvolves
  <1>17. MassIsOfRates(ClassOf(k, "HeatTransferSource"))
    OBVIOUS
  <1>18. MassIsOfRates(ClassOf(k, "IncompressibleNavierStokes"))
    BY DEF NavierStokesClass, FlowEvolves, NavierStokesMass, Velocity
  <1>19. MassIsOfRates(ClassOf(k, "IncompressibleNavierStokesAdjointStabilization"))
    BY StabilizedMassHasRates DEF AdjointStabClass, FlowClass
  <1>20. MassIsOfRates(ClassOf(k, "IncompressibleNavierStokesSPGSMStabilization"))
    BY StabilizedMassHasRates DEF SPGSMStabClass, FlowClass
  <1>21. MassIsOfRates(ClassOf(k, "LowMachNavierStokes"))
    BY LowMachMassHasRates DEF LowMachClass
  <1>22. MassIsOfRates(ClassOf(k, "ReactingLowMachNavierStokes"))
    BY DEF ReactingClass, ReactingEvolves, NotImplemented, Species, Flow,
           ThermoPressure, Velocity
  <1>23. MassIsOfRates(ClassOf(k, "ScalarODE"))
    BY DEF ScalarEvolves, ScalarMass
  <1>24. MassIsOfRates(ClassOf(k, "Stokes"))
    BY DEF StokesClass, FlowEvolves, StokesMass, Velocity
  <1>25. MassIsOfRates(ClassOf(k, "VelocityDrag"))
    BY DEF ForceClass, FlowClass
  <1>26. MassIsOfRates(ClassOf(k, "VelocityDragAdjointStabilization"))
    BY DEF ForceStabClass, FlowClass
  <1>27. MassIsOfRates(ClassOf(k, "VelocityPenalty"))
    BY DEF ForceClass, FlowClass
  <1>28. MassIsOfRates(ClassOf(k, "VelocityPenaltyAdjointStabilization"))
    BY DEF ForceStabClass, FlowClass
  <1> HIDE DEF MassIsOfRates, ClassOf
  <1> QED BY NamesOfPhysics, <1>1, <1>2, <1>3, <1>4, <1>5, <1>6, <1>7, <1>8,
      <1>9, <1>10, <1>11, <1>12, <1>13, <1>14, <1>15, <1>16, <1>17, <1>18,
      <1>19, <1>20, <1>21, <1>22, <1>23, <1>24, <1>25, <1>26, <1>27, <1>28
         DEF LowMachStabs

\* The residual functions of a steady solver hold no mass.
LEMMA SteadyHooks ==
  ASSUME NEW k, k.scheme = "steady"
  PROVE  MassHooks \intersect HookNames(k) = {}
  <1>1. ASSUME NEW kind \in Kinds, NEW i \in DOMAIN Hooks(k)[kind]
        PROVE  Hooks(k)[kind][i] \notin MassHooks
    BY <1>1 DEF Kinds, Hooks, MassHooks
  <1> QED BY <1>1 DEF HookNames

\* A residual function fills the Jacobian of what it reads, up to the factor
\* that is one in the scaling of its residual function.
Triples(entries) ==
  \A e \in entries : /\ e = <<e[1], e[2], e[3]>>
                     /\ e[3] \in {"value", "rate", "one"}
Complete(k, h, term) ==
  /\ Triples(term.reads) /\ Triples(term.jac)
  /\ \A r, x :
       /\ <<r, x, "rate">> \in term.jac <=> <<r, x, "rate">> \in term.reads
       /\ Unit(k, h) =>
            (\/ <<r, x, "one">> \in term.jac
             \/ <<r, x, "value">> \in term.jac)
              <=> (\/ <<r, x, "one">> \in term.reads
                   \/ <<r, x, "value">> \in term.reads)
       /\ ~Unit(k, h) =>
            /\ <<r, x, "one">> \in term.jac <=> <<r, x, "one">> \in term.reads
            /\ <<r, x, "value">> \in term.jac
                 <=> <<r, x, "value">> \in term.reads

\* Scaled by the weights of the time solver, the two still agree.
LEMMA CompleteIsScaled ==
  ASSUME NEW k, NEW h, NEW term, Complete(k, h, term)
  PROVE  Scaled(k, h, term.jac) = Scaled(k, h, term.reads)
  <1>1. ASSUME NEW S, Triples(S), NEW r, NEW x, NEW via
        PROVE  <<r, x, via>> \in Scaled(k, h, S) <=>
                 \/ via # "value" /\ <<r, x, via>> \in S
                 \/ ~Unit(k, h) /\ <<r, x, via>> \in S
                 \/ Unit(k, h) /\ via = "one" /\ <<r, x, "value">> \in S
    BY <1>1 DEF Scaled, Triples
  <1>2. ASSUME NEW S, Triples(S), NEW e \in Scaled(k, h, S)
        PROVE  e = <<e[1], e[2], e[3]>> /\ e[3] \in {"value", "rate", "one"}
    BY <1>2 DEF Scaled, Triples
  <1>3. Triples(term.jac) /\ Triples(term.reads)
    BY DEF Complete
  <1>4. ASSUME NEW r, NEW x, NEW via \in {"value", "rate", "one"}
        PROVE  <<r, x, via>> \in Scaled(k, h, term.jac)
                 <=> <<r, x, via>> \in Scaled(k, h, term.reads)
    <2>1. \A S \in {term.jac, term.reads} :
            <<r, x, via>> \in Scaled(k, h, S) <=>
              \/ via # "value" /\ <<r, x, via>> \in S
              \/ ~Unit(k, h) /\ <<r, x, via>> \in S
              \/ Unit(k, h) /\ via = "one" /\ <<r, x, "value">> \in S
      BY <1>1, <1>3
    <2>2. CASE via = "value" BY <2>1, <2>2 DEF Complete
    <2>3. CASE via = "rate" BY <2>1, <2>3 DEF Complete
    <2>4. CASE via = "one" BY <2>1, <2>4 DEF Complete
    <2> QED BY <2>2, <2>3, <2>4
  <1>5. ASSUME NEW e \in Scaled(k, h, term.jac)
        PROVE  e \in Scaled(k, h, term.reads)
    <2>1. e = <<e[1], e[2], e[3]>> /\ e[3] \in {"value", "rate", "one"}
      BY <1>2, <1>3
    <2> QED BY <2>1, <1>4
  <1>6. ASSUME NEW e \in Scaled(k, h, term.reads)
        PROVE  e \in Scaled(k, h, term.jac)
    <2>1. e = <<e[1], e[2], e[3]>> /\ e[3] \in {"value", "rate", "one"}
      BY <1>2, <1>3
    <2> QED BY <2>1, <1>4
  <1> QED BY <1>5, <1>6

\* A class fills the Jacobian of each of its residual functions, or stops the
\* program before a call on an element has it.
ElementHooks3 ==
  {"element_time_derivative", "mass_residual", "element_constraint"}
JacobianIsWhole(k, cl) ==
  \/ \A h \in DOMAIN cl.terms \intersect HookNames(k) :
       Complete(k, h, cl.terms[h])
  \/ /\ \E h \in DOMAIN cl.terms :
          /\ h \in ElementHooks3
          /\ h \in MassHooks => k.scheme # "steady"
          /\ cl.terms[h].stops \in {"always", "jacobian"}
     /\ \A h \in DOMAIN cl.terms \ ElementHooks3 :
          Complete(k, h, cl.terms[h])

\* The residual functions with an entry for each dependence, by itself.
LEMMA CompleteTerms ==
  ASSUME NEW k, NEW h
  PROVE  /\ Complete(k, h, ForceTime(k))
         /\ Complete(k, h, ForceStabTime(k))
         /\ Complete(k, h, DragStabConstraint(k))
         /\ Complete(k, h, PenaltyStabConstraint(k))
         /\ Complete(k, h, NavierStokesTime(k))
         /\ Complete(k, h, NavierStokesConstraint(k))
         /\ Complete(k, h, NavierStokesMass(k))
         /\ Complete(k, h, StokesTime(k))
         /\ Complete(k, h, BuoyancyTime(k))
         /\ Complete(k, h, BuoyancyStabTime(k))
         /\ Complete(k, h, BuoyancyStabConstraint(k))
         /\ Complete(k, h, AxisymmetricBuoyancyTime)
         /\ Complete(k, h, HeatTransferTime(k))
         /\ Complete(k, h, HeatTransferMass)
         /\ Complete(k, h, HeatStabTime(k))
         /\ Complete(k, h, SourceTime)
         /\ Complete(k, h, ConductionTime)
         /\ Complete(k, h, ConductionMass)
         /\ Complete(k, h, AxisymmetricHeatTime)
         /\ Complete(k, h, AxisymmetricHeatMass)
         /\ Complete(k, h, TurbineSpeedMass)
         /\ Complete(k, h, GravityTime)
         /\ Complete(k, h, ScalarTime)
         /\ Complete(k, h, ScalarMass)
         /\ Complete(k, h, ScalarConstraint)
         /\ Complete(k, h, NoTerm)
  <1> USE Dependences, OwnDependences DEF Complete, Triples, Term
  <1>1. Complete(k, h, ForceTime(k))
    BY DEF ForceTime, Velocity
  <1>2. Complete(k, h, ForceStabTime(k))
    BY DEF ForceStabTime, Velocity
  <1>3. Complete(k, h, DragStabConstraint(k))
    BY DEF DragStabConstraint, ForceStabConstraint, Velocity
  <1>4. Complete(k, h, PenaltyStabConstraint(k))
    BY DEF PenaltyStabConstraint, ForceStabConstraint, Velocity
  <1>5. Complete(k, h, NavierStokesTime(k))
    BY DEF NavierStokesTime, Velocity, Flow
  <1>6. Complete(k, h, NavierStokesConstraint(k))
    BY DEF NavierStokesConstraint, Velocity
  <1>7. Complete(k, h, NavierStokesMass(k))
    BY DEF NavierStokesMass, Velocity
  <1>8. Complete(k, h, StokesTime(k))
    BY DEF StokesTime, Velocity
  <1>9. Complete(k, h, BuoyancyTime(k))
    BY DEF BuoyancyTime, Velocity
  <1>10. Complete(k, h, BuoyancyStabTime(k))
    BY DEF BuoyancyStabTime, Velocity
  <1>11. Complete(k, h, BuoyancyStabConstraint(k))
    BY DEF BuoyancyStabConstraint, Velocity
  <1>12. Complete(k, h, AxisymmetricBuoyancyTime)
    BY DEF AxisymmetricBuoyancyTime, AxisVelocity
  <1>13. Complete(k, h, HeatTransferTime(k))
    BY DEF HeatTransferTime, Velocity
  <1>14. Complete(k, h, HeatTransferMass)
    BY DEF HeatTransferMass
  <1>15. Complete(k, h, HeatStabTime(k))
    BY DEF HeatStabTime, Velocity
  <1>16. Complete(k, h, SourceTime)
    BY DEF SourceTime
  <1>17. Complete(k, h, ConductionTime)
    BY DEF ConductionTime
  <1>18. Complete(k, h, ConductionMass)
    BY DEF ConductionMass
  <1>19. Complete(k, h, AxisymmetricHeatTime)
    BY DEF AxisymmetricHeatTime, AxisVelocity
  <1>20. Complete(k, h, AxisymmetricHeatMass)
    BY DEF AxisymmetricHeatMass
  <1>21. Complete(k, h, TurbineSpeedMass)
    BY DEF TurbineSpeedMass
  <1>22. Complete(k, h, GravityTime)
    BY DEF GravityTime
  <1>23. Complete(k, h, ScalarTime)
    BY DEF ScalarTime
  <1>24. Complete(k, h, ScalarMass)
    BY DEF ScalarMass
  <1>25. Complete(k, h, ScalarConstraint)
    BY DEF ScalarConstraint
  <1>26. Complete(k, h, NoTerm)
    BY DEF NoTerm
  <1> HIDE DEF Complete
  <1> QED BY <1>1, <1>2, <1>3, <1>4, <1>5, <1>6, <1>7, <1>8, <1>9, <1>10,
             <1>11, <1>12, <1>13, <1>14, <1>15, <1>16, <1>17, <1>18, <1>19,
             <1>20, <1>21, <1>22, <1>23, <1>24, <1>25, <1>26
\* Those whose entries leave out a factor that is one.
LEMMA CompleteAtUnit ==
  ASSUME NEW k, NEW h, Unit(k, h)
  PROVE  /\ Complete(k, h, Pinning)
         /\ Complete(k, h, StokesConstraint(k))
         /\ Complete(k, h, AdjointStabTime(k))
         /\ Complete(k, h, AdjointStabConstraint(k))
         /\ Complete(k, h, TurbineTime(k))
         /\ Complete(k, h, TurbineSpeedTime)
         /\ Complete(k, h, CableTime)
         /\ Complete(k, h, PressureTime)
         /\ ~k.compressible => Complete(k, h, MembraneTime(k))
         /\ Complete(k, h, LowMachContinuity(k))
         /\ ~k.p0 => Complete(k, h, LowMachMomentum(k))
         /\ ~k.p0 => Complete(k, h, LowMachEnergy(k))
  <1> USE Dependences, OwnDependences DEF Complete, Triples, Term
  <1>1. Complete(k, h, Pinning)
    BY DEF Pinning
  <1>2. Complete(k, h, StokesConstraint(k))
    BY DEF StokesConstraint, Flow, Velocity
  <1>3. Complete(k, h, AdjointStabTime(k))
    BY DEF AdjointStabTime, Velocity, Flow
  <1>4. Complete(k, h, AdjointStabConstraint(k))
    BY DEF AdjointStabConstraint, Flow, Velocity
  <1>5. Complete(k, h, TurbineTime(k))
    BY DEF TurbineTime, TurbineUnknowns, Velocity
  <1>6. Complete(k, h, TurbineSpeedTime)
    BY DEF TurbineSpeedTime
  <1>7. Complete(k, h, CableTime)
    BY DEF CableTime, Displacement
  <1>8. Complete(k, h, PressureTime)
    BY DEF PressureTime, Across, Displacement
  <1>9. ASSUME ~k.compressible PROVE Complete(k, h, MembraneTime(k))
    BY <1>9 DEF MembraneTime, Displacement, Stretch
  <1>10. Complete(k, h, LowMachContinuity(k))
    BY DEF LowMachContinuity, Velocity
  <1>11. ASSUME ~k.p0 PROVE Complete(k, h, LowMachMomentum(k))
    BY <1>11 DEF LowMachMomentum, Velocity, Flow, ThermoPressure
  <1>12. ASSUME ~k.p0 PROVE Complete(k, h, LowMachEnergy(k))
    BY <1>12 DEF LowMachEnergy, Velocity, ThermoPressure
  <1> HIDE DEF Complete
  <1> QED BY <1>1, <1>2, <1>3, <1>4, <1>5, <1>6, <1>7, <1>8, <1>9, <1>10,
             <1>11, <1>12

\* Two complete residuals are complete together.
LEMMA TogetherComplete ==
  ASSUME NEW k, NEW h, Unit(k, h),
         NEW a, NEW b, Complete(k, h, a), Complete(k, h, b)
  PROVE  Complete(k, h, Together(a, b))
  BY DEF Complete, Triples, Together, Term

\* The low Mach flow is complete at a steady state and a given pressure.
LEMMA LowMachTimeComplete ==
  ASSUME NEW k, NEW h, Unit(k, h), ~k.p0
  PROVE  Complete(k, h, LowMachTime(k))
  <1> DEFINE ab == Together(LowMachContinuity(k), LowMachMomentum(k))
             cd == Together(LowMachEnergy(k), NoTerm)
  <1>1. Complete(k, h, Together(ab, cd))
    <2>1. Complete(k, h, ab) BY CompleteAtUnit, TogetherComplete
    <2>2. Complete(k, h, cd) BY CompleteAtUnit, CompleteTerms, TogetherComplete
    <2> QED BY <2>1, <2>2, TogetherComplete
  <1>2. ASSUME NEW a, NEW b, NEW q, Complete(k, h, Together(a, b))
        PROVE  Complete(k, h, Cached(Together(a, b), q))
    BY <1>2 DEF Complete, Triples, Cached, Together, Term
  <1>3. LowMachTime(k) = Cached(Together(ab, cd), LowMachCached(k))
    BY DEF LowMachTime
  <1> QED BY <1>1, <1>2, <1>3

\* Every class fills the Jacobian of its residuals, but for those with a
\* partial one.
LEMMA ClassesHaveJacobians ==
  ASSUME NEW k, NEW p \in AllPhysics \ WithPartialJacobian(k)
  PROVE  JacobianIsWhole(k, ClassOf(k, p))
  <1>0. /\ \A h \in ConstraintHooks : Unit(k, h)
        /\ k.scheme # "theta" => \A h : Unit(k, h)
    BY DEF Unit
  <1> USE CompleteTerms, CompleteAtUnit DEF JacobianIsWhole, ClassOf, Class
  <1>1. JacobianIsWhole(k, ClassOf(k, "AveragedFan"))
    BY DEF ForceClass, FanTime, FlowClass
  <1>2. ASSUME k.dim = 3
        PROVE  JacobianIsWhole(k, ClassOf(k, "AveragedFanAdjointStabilization"))
    BY <1>2, <1>0 DEF ForceStabClass, FanStabTime, FlowClass, ConstraintHooks,
        FanStabConstraint, FanStabBlocks, PenaltyStabConstraint
  <1>3. ASSUME k.scheme # "theta"
        PROVE  JacobianIsWhole(k, ClassOf(k, "AveragedTurbine"))
    BY <1>3, <1>0 DEF TurbineClass
  <1>4. JacobianIsWhole(k, ClassOf(k, "AxisymmetricBoussinesqBuoyancy"))
    OBVIOUS
  <1>5. JacobianIsWhole(k, ClassOf(k, "AxisymmetricHeatTransfer"))
    OBVIOUS
  <1>6. JacobianIsWhole(k, ClassOf(k, "BoussinesqBuoyancy"))
    BY DEF BuoyancyClass
  <1>7. JacobianIsWhole(k, ClassOf(k, "BoussinesqBuoyancyAdjointStabilization"))
    BY <1>0 DEF BuoyancyClass, ConstraintHooks
  <1>8. JacobianIsWhole(k, ClassOf(k, "BoussinesqBuoyancySPGSMStabilization"))
    BY <1>0, NoJacobianYetIs DEF BuoyancyClass, BuoyancySPGSMTime,
        BuoyancySPGSMConstraint, Velocity, ConstraintHooks, MassHooks,
        ElementHooks3
  <1>9. JacobianIsWhole(k, ClassOf(k, "ElasticCable"))
    <2>1. CASE k.scheme = "steady"
      BY <2>1, <1>0, SteadyHooks DEF SolidClass, MassHooks
    <2>2. CASE k.scheme # "steady"
      BY <2>2 DEF SolidClass, SolidMass, NotImplemented, Term,
             ElementHooks3
    <2> QED BY <2>1, <2>2
  <1>10. JacobianIsWhole(k, ClassOf(k, "ElasticCableConstantGravity"))
    BY DEF SolidClass
  <1>11. JacobianIsWhole(k, ClassOf(k, "ElasticMembrane"))
    <2>1. CASE k.scheme = "steady" /\ ~k.compressible
      BY <2>1, <1>0, SteadyHooks DEF SolidClass, MassHooks, MembraneConstraint
    <2>2. CASE k.compressible
      BY <2>2, NoJacobianYetIs
         DEF SolidClass, MembraneConstraint, MassHooks, ElementHooks3
    <2>3. CASE k.scheme # "steady"
      BY <2>3 DEF SolidClass, SolidMass, NotImplemented, Term,
             ElementHooks3
    <2> QED BY <2>1, <2>2, <2>3
  <1>12. ASSUME k.scheme # "theta"
        PROVE  JacobianIsWhole(k, ClassOf(k, "ElasticMembraneConstantPressure"))
    BY <1>12, <1>0 DEF SolidClass
  <1>13. JacobianIsWhole(k, ClassOf(k, "HeatConduction"))
    OBVIOUS
  <1>14. JacobianIsWhole(k, ClassOf(k, "HeatTransfer"))
    BY DEF HeatClass
  <1>15. ASSUME k.scheme = "steady"
        PROVE  JacobianIsWhole(k, ClassOf(k, "HeatTransferAdjointStabilization"))
    BY <1>15, SteadyHooks, <1>0 DEF HeatClass, Velocity, MassHooks
  <1>16. JacobianIsWhole(k, ClassOf(k, "HeatTransferSPGSMStabilization"))
    BY NoJacobianYetIs DEF HeatClass, HeatSPGSMTime, HeatSPGSMMass, Velocity,
        MassHooks, ElementHooks3
  <1>17. JacobianIsWhole(k, ClassOf(k, "HeatTransferSource"))
    OBVIOUS
  <1>18. JacobianIsWhole(k, ClassOf(k, "IncompressibleNavierStokes"))
    BY <1>0 DEF NavierStokesClass, ConstraintHooks
  <1>19. ASSUME k.scheme = "steady"
        PROVE  JacobianIsWhole(k,
                 ClassOf(k, "IncompressibleNavierStokesAdjointStabilization"))
    BY <1>19, <1>0, SteadyHooks DEF AdjointStabClass, FlowClass, Velocity,
        ConstraintHooks, MassHooks
  <1>20. JacobianIsWhole(k,
           ClassOf(k, "IncompressibleNavierStokesSPGSMStabilization"))
    BY <1>0, NoJacobianYetIs DEF SPGSMStabClass, FlowClass, SPGSMStabTime,
        SPGSMStabConstraint, SPGSMStabMass, Flow, Velocity, ConstraintHooks,
        MassHooks, ElementHooks3
  <1>21. ASSUME k.scheme = "steady", ~k.p0
        PROVE  JacobianIsWhole(k, ClassOf(k, "LowMachNavierStokes"))
    BY <1>21, <1>0, SteadyHooks, LowMachTimeComplete DEF LowMachClass,
        Together, ThermoPressure, Velocity, ConstraintHooks, MassHooks
  <1>22. JacobianIsWhole(k, ClassOf(k, "ReactingLowMachNavierStokes"))
    <2>1. ReactingTime(k).stops = "jacobian"
      BY CachedButNoJacobian DEF ReactingTime
    <2> QED BY <2>1, <1>0 DEF ReactingClass, ConstraintHooks, MassHooks,
        ElementHooks3
  <1>23. JacobianIsWhole(k, ClassOf(k, "ScalarODE"))
    BY <1>0 DEF ConstraintHooks
  <1>24. ASSUME k.scheme = "steady"
        PROVE  JacobianIsWhole(k, ClassOf(k, "Stokes"))
    BY <1>24, <1>0, SteadyHooks DEF StokesClass, Velocity, ConstraintHooks,
        MassHooks
  <1>25. JacobianIsWhole(k, ClassOf(k, "VelocityDrag"))
    BY DEF ForceClass, DragTime, FlowClass
  <1>26. JacobianIsWhole(k, ClassOf(k, "VelocityDragAdjointStabilization"))
    BY <1>0 DEF ForceStabClass, DragStabTime, FlowClass, ConstraintHooks
  <1>27. JacobianIsWhole(k, ClassOf(k, "VelocityPenalty"))
    BY DEF ForceClass, PenaltyTime, FlowClass
  <1>28. JacobianIsWhole(k, ClassOf(k, "VelocityPenaltyAdjointStabilization"))
    BY <1>0 DEF ForceStabClass, PenaltyStabTime, FlowClass, ConstraintHooks
  <1> HIDE CompleteTerms, CompleteAtUnit DEF JacobianIsWhole, ClassOf
  <1> QED BY NamesOfPhysics, <1>1, <1>2, <1>3, <1>4, <1>5, <1>6, <1>7, <1>8,
      <1>9, <1>10, <1>11, <1>12, <1>13, <1>14, <1>15, <1>16, <1>17, <1>18,
      <1>19, <1>20, <1>21, <1>22, <1>23, <1>24, <1>25, <1>26, <1>27, <1>28
         DEF WithPartialJacobian, LowMachStabs, Overreaching, OnlySteady,
             OnlyAtOneLevel

\* Two variables that a class gives the same type.
Alike(adds, v, w) == \E t : <<v, t>> \in adds /\ <<w, t>> \in adds

\* The components of a velocity or a displacement have one type.
LEMMA AlikeAdded ==
  ASSUME NEW k
  PROVE  /\ \A s : /\ \A v \in Velocity(k) : Alike(FlowVars(k, s), "u", v)
                   /\ Alike(FlowVars(k, s), "p", "p")
         /\ \A s : Alike(TempVar(k, s), "T", "T")
         /\ /\ \A v \in Velocity(k) : Alike(HeatTransferVars(k), "u", v)
            /\ \A v \in {"p", "T"} : Alike(HeatTransferVars(k), v, v)
         /\ /\ \A v \in Velocity(k) : Alike(LowMachVars(k), "u", v)
            /\ \A v \in {"p", "T"} : Alike(LowMachVars(k), v, v)
         /\ \A v \in {"w_N2", "u", "p", "T"} : Alike(ReactingVars(k), v, v)
         /\ Alike(AxisymmetricVars(k), "T", "T")
         /\ \A s : Alike(DisplacementVars(k, s), "u", "u")
         /\ Alike(MembraneVars(k), "u", "u")
  <1> USE DEF Alike
  <1>1. \A s, v : v \in Velocity(k) => Alike(FlowVars(k, s), "u", v)
    BY DEF FlowVars, Velocity
  <1>2. \A s : Alike(FlowVars(k, s), "p", "p") /\ Alike(TempVar(k, s), "T", "T")
    BY DEF FlowVars, TempVar
  <1>3. ASSUME NEW A, NEW B, NEW v, NEW w, Alike(A, v, w) \/ Alike(B, v, w)
        PROVE  Alike(A \union B, v, w)
    BY <1>3
  <1>4. /\ \A v \in Velocity(k) : Alike(HeatTransferVars(k), "u", v)
        /\ \A v \in {"p", "T"} : Alike(HeatTransferVars(k), v, v)
    BY <1>1, <1>2 DEF HeatTransferVars
  <1>5. /\ \A v \in Velocity(k) : Alike(LowMachVars(k), "u", v)
        /\ \A v \in {"p", "T"} : Alike(LowMachVars(k), v, v)
    BY <1>1, <1>2 DEF LowMachVars
  <1>6. "u" \in Velocity(k)
    BY DEF Velocity
  <1>7. \A v \in {"w_N2", "u", "p", "T"} : Alike(ReactingVars(k), v, v)
    BY <1>1, <1>2, <1>6 DEF ReactingVars, Species
  <1>8. Alike(AxisymmetricVars(k), "T", "T")
    BY <1>2 DEF AxisymmetricVars
  <1>9. \A s : Alike(DisplacementVars(k, s), "u", "u")
    BY DEF DisplacementVars, Displacement
  <1>10. Alike(MembraneVars(k), "u", "u")
    BY <1>9 DEF MembraneVars
  <1> QED BY <1>1, <1>2, <1>4, <1>5, <1>7, <1>8, <1>9, <1>10

\* A class asks for the derivatives it uses, of a variable of the same type;
\* and where it asks for anything, it asks for the values.
AsksForDerivatives(cl) ==
  \A h \in DOMAIN cl.terms : \A s \in cl.terms[h].shapes :
    \/ s[2] = "phi"
    \/ \E v : <<v, s[2]>> \in cl.requests /\ Alike(cl.adds, v, s[1])
AsksForValues(cl) ==
  \A r \in cl.requests : <<r[1], "phi">> \in cl.requests

\* Low Mach flow uses the gradients of the velocity and the temperature.
LEMMA LowMachDerivatives ==
  ASSUME NEW k
  PROVE  /\ \A s \in LowMachTime(k).shapes :
              \/ s[2] = "phi"
              \/ s[2] = "dphi" /\ s[1] \in Velocity(k) \union {"T"}
         /\ \A s \in LowMachMass(k).shapes \union Pinning.shapes : s[2] = "phi"
         /\ \A v \in {"u", "T"} : <<v, "dphi">> \in LowMachRequests
  <1> USE Shapes DEF Term
  <1> DEFINE OK(term) ==
        \A s \in term.shapes :
          \/ s[2] = "phi"
          \/ s[2] = "dphi" /\ s[1] \in Velocity(k) \union {"T"}
  <1>0. "u" \in Velocity(k)
    BY DEF Velocity
  <1>1. OK(LowMachContinuity(k)) /\ OK(LowMachMomentum(k))
    <2>1. OK(LowMachContinuity(k)) BY DEF LowMachContinuity, Velocity
    <2>2. OK(LowMachMomentum(k)) BY DEF LowMachMomentum, Velocity
    <2> QED BY <2>1, <2>2
  <1>2. OK(LowMachEnergy(k)) /\ OK(LowMachThermo(k)) /\ OK(NoTerm)
    BY DEF LowMachEnergy, LowMachThermo, NoTerm, Velocity
  <1>3. ASSUME NEW a, NEW b, OK(a), OK(b) PROVE OK(Together(a, b))
    BY <1>3 DEF Together
  <1>4. ASSUME NEW a, NEW b, NEW q, OK(Together(a, b))
        PROVE  OK(Cached(Together(a, b), q))
    BY <1>4 DEF Cached, Together
  <1> HIDE DEF OK
  <1>5. /\ OK(Together(LowMachContinuity(k), LowMachMomentum(k)))
        /\ OK(Together(LowMachEnergy(k),
                       IF k.p0 THEN LowMachThermo(k) ELSE NoTerm))
    BY <1>1, <1>2, <1>3
  <1>6. OK(LowMachTime(k))
    BY <1>3, <1>4, <1>5, Zenon DEF LowMachTime
  <1>7. \A s \in LowMachMass(k).shapes \union Pinning.shapes : s[2] = "phi"
    BY DEF LowMachMass, Pinning, Together, ContinuityMass, MomentumMass,
           EnergyMass, ThermoMass, NoTerm
  <1>8. \A v \in {"u", "T"} : <<v, "dphi">> \in LowMachRequests
    BY DEF LowMachRequests
  <1> QED BY <1>6, <1>7, <1>8 DEF OK

\* Shapes of the flow and of the temperature that these requests cover: those
\* of the velocity, which share a type, by a request for "u".
Covered(k, requests, shapes) ==
  \A s \in shapes :
    \/ s[2] = "phi"
    \/ s[1] \in Velocity(k) /\ <<"u", s[2]>> \in requests
    \/ s[1] \in {"p", "T"} /\ <<s[1], s[2]>> \in requests

\* What the residuals of the flows and their stabilizations use is covered by
\* what their init_context asks for.
LEMMA FlowShapesAreCovered ==
  ASSUME NEW k
  PROVE  /\ \A requests, V : Covered(k, requests, Phi(V))
         /\ Covered(k, FlowRequests,
                    Gradients(Velocity(k)) \union Phi({"p"}))
         /\ Covered(k, FlowStabRequests, MomentumData(k))
         /\ Covered(k, FlowStabRequests,
                    Hessians(Velocity(k)) \union Gradients({"p"}))
         /\ Covered(k, FlowStabRequests, Gradients(Flow(k)))
         /\ Covered(k, LowMachStabRequests, LowMachData(k))
  <1> USE Shapes DEF Covered
  <1>1. \A requests, V : Covered(k, requests, Phi(V))
    OBVIOUS
  <1>2. Covered(k, FlowRequests, Gradients(Velocity(k)) \union Phi({"p"}))
    BY DEF FlowRequests
  <1>3. \A d \in {"phi", "dphi", "d2phi"} : <<"u", d>> \in FlowStabRequests
    BY DEF FlowStabRequests, FlowRequests
  <1>4. \A d \in {"phi", "dphi"} : <<"p", d>> \in FlowStabRequests
    BY DEF FlowStabRequests, FlowRequests
  <1>5. Covered(k, FlowStabRequests,
                Hessians(Velocity(k)) \union Gradients({"p"}))
    BY <1>3, <1>4
  <1>6. Covered(k, FlowStabRequests, MomentumData(k))
    BY <1>5 DEF MomentumData
  <1>7. Covered(k, FlowStabRequests, Gradients(Flow(k)))
    BY <1>3, <1>4 DEF Flow
  <1>8. /\ \A d \in {"phi", "dphi", "d2phi"} : \A v \in {"u", "T"} :
             <<v, d>> \in LowMachStabRequests
        /\ \A d \in {"phi", "dphi"} : <<"p", d>> \in LowMachStabRequests
    BY DEF LowMachStabRequests, LowMachRequests
  <1>9. Covered(k, LowMachStabRequests, LowMachData(k))
    BY <1>8 DEF LowMachData
  <1> QED BY <1>1, <1>2, <1>5, <1>6, <1>7, <1>9

\* A class whose requests cover its residuals asks for the derivatives they
\* use, when it gives the components of the velocity one type.
LEMMA CoveredIsAskedFor ==
  ASSUME NEW k, NEW cl,
         \A h \in DOMAIN cl.terms : Covered(k, cl.requests, cl.terms[h].shapes),
         \A v \in Velocity(k) : Alike(cl.adds, "u", v),
         \A r \in cl.requests : r[1] \in {"p", "T"} => Alike(cl.adds, r[1], r[1])
  PROVE  AsksForDerivatives(cl)
  <1> SUFFICES ASSUME NEW h \in DOMAIN cl.terms,
                      NEW s \in cl.terms[h].shapes, s[2] # "phi"
               PROVE  \E v : <<v, s[2]>> \in cl.requests
                              /\ Alike(cl.adds, v, s[1])
    BY DEF AsksForDerivatives
  <1>1. CASE s[1] \in Velocity(k) /\ <<"u", s[2]>> \in cl.requests
    BY <1>1
  <1>2. CASE s[1] \in {"p", "T"} /\ <<s[1], s[2]>> \in cl.requests
    <2>1. Alike(cl.adds, s[1], s[1])
      BY <1>2
    <2> QED BY <1>2, <2>1
  <1> QED BY <1>1, <1>2 DEF Covered

\* The classes of the flows and of their stabilizations.
LEMMA FlowClassesAskForDerivatives ==
  ASSUME NEW k
  PROVE  /\ AsksForDerivatives(NavierStokesClass(k))
         /\ AsksForDerivatives(StokesClass(k))
         /\ AsksForDerivatives(AdjointStabClass(k))
         /\ AsksForDerivatives(SPGSMStabClass(k))
  <1>1. \A s : /\ \A v \in Velocity(k) : Alike(FlowVars(k, s), "u", v)
              /\ Alike(FlowVars(k, s), "p", "p")
    BY AlikeAdded
  <1>2. /\ \A r \in FlowRequests : r[1] # "T"
        /\ \A r \in FlowStabRequests : r[1] # "T"
    BY Shapes DEF FlowRequests, FlowStabRequests
  <1>3. ASSUME NEW cl, NEW s, cl.adds = FlowVars(k, s),
               cl.requests \in {FlowRequests, FlowStabRequests},
               \A h \in DOMAIN cl.terms :
                 Covered(k, cl.requests, cl.terms[h].shapes)
        PROVE  AsksForDerivatives(cl)
    <2>1. \A v \in Velocity(k) : Alike(cl.adds, "u", v)
      BY <1>1, <1>3
    <2>2. \A r \in cl.requests :
            r[1] \in {"p", "T"} => Alike(cl.adds, r[1], r[1])
      BY <1>1, <1>2, <1>3
    <2> QED BY <1>3, <2>1, <2>2, CoveredIsAskedFor
  <1>4. AsksForDerivatives(NavierStokesClass(k))
    <2> DEFINE cl == NavierStokesClass(k)
    <2>1. /\ cl.adds = FlowVars(k, "IncompressibleNavierStokes")
          /\ cl.requests = FlowRequests
          /\ cl.terms = [element_time_derivative |-> NavierStokesTime(k),
                         element_constraint |-> NavierStokesConstraint(k),
                         side_constraint |-> Pinning,
                         mass_residual |-> NavierStokesMass(k)]
      BY DEF NavierStokesClass, Class
    <2>2. /\ Covered(k, FlowRequests, NavierStokesTime(k).shapes)
          /\ Covered(k, FlowRequests, NavierStokesConstraint(k).shapes)
          /\ Covered(k, FlowRequests, NavierStokesMass(k).shapes)
      BY FlowShapesAreCovered DEF NavierStokesTime, NavierStokesConstraint,
         NavierStokesMass, Term
    <2>3. Covered(k, FlowRequests, Pinning.shapes)
      BY DEF Covered, Pinning, Term
    <2> HIDE DEF cl
    <2>4. \A h \in DOMAIN cl.terms : Covered(k, cl.requests, cl.terms[h].shapes)
      BY <2>1, <2>2, <2>3
    <2>5. AsksForDerivatives(cl)
      BY <1>3, <2>1, <2>4
    <2> QED BY <2>5 DEF cl
  <1>5. AsksForDerivatives(StokesClass(k))
    <2> DEFINE cl == StokesClass(k)
    <2>1. /\ cl.adds = FlowVars(k, "Stokes")
          /\ cl.requests = FlowRequests
          /\ cl.terms = [element_time_derivative |-> StokesTime(k),
                         element_constraint |-> StokesConstraint(k),
                         mass_residual |-> StokesMass(k)]
      BY DEF StokesClass, Class
    <2>2. /\ Covered(k, FlowRequests, StokesTime(k).shapes)
          /\ Covered(k, FlowRequests, StokesConstraint(k).shapes)
          /\ Covered(k, FlowRequests, StokesMass(k).shapes)
      BY FlowShapesAreCovered DEF StokesTime, StokesConstraint, StokesMass, Term
    <2> HIDE DEF cl
    <2>3. \A h \in DOMAIN cl.terms : Covered(k, cl.requests, cl.terms[h].shapes)
      BY <2>1, <2>2
    <2>4. AsksForDerivatives(cl)
      BY <1>3, <2>1, <2>3
    <2> QED BY <2>4 DEF cl
  <1>6. AsksForDerivatives(AdjointStabClass(k))
    <2> DEFINE cl == AdjointStabClass(k)
    <2>1. /\ cl.adds = FlowVars(k, "IncompressibleNavierStokes")
          /\ cl.requests = FlowStabRequests
          /\ cl.terms = [element_time_derivative |-> AdjointStabTime(k),
                         element_constraint |-> AdjointStabConstraint(k),
                         mass_residual |-> AdjointStabMass(k)]
      BY DEF AdjointStabClass, FlowClass, Class
    <2>2. /\ Covered(k, FlowStabRequests, AdjointStabTime(k).shapes)
          /\ Covered(k, FlowStabRequests, AdjointStabConstraint(k).shapes)
          /\ Covered(k, FlowStabRequests, AdjointStabMass(k).shapes)
      BY FlowShapesAreCovered DEF AdjointStabTime, AdjointStabConstraint,
         AdjointStabMass, Term
    <2> HIDE DEF cl
    <2>3. \A h \in DOMAIN cl.terms : Covered(k, cl.requests, cl.terms[h].shapes)
      BY <2>1, <2>2
    <2>4. AsksForDerivatives(cl)
      BY <1>3, <2>1, <2>3
    <2> QED BY <2>4 DEF cl
  <1>7. AsksForDerivatives(SPGSMStabClass(k))
    <2> DEFINE cl == SPGSMStabClass(k)
    <2>1. /\ cl.adds = FlowVars(k, "IncompressibleNavierStokes")
          /\ cl.requests = FlowStabRequests
          /\ cl.terms = [element_time_derivative |-> SPGSMStabTime(k),
                         element_constraint |-> SPGSMStabConstraint(k),
                         mass_residual |-> SPGSMStabMass(k)]
      BY DEF SPGSMStabClass, FlowClass, Class
    <2>2. /\ Covered(k, FlowStabRequests, SPGSMStabTime(k).shapes)
          /\ Covered(k, FlowStabRequests, SPGSMStabConstraint(k).shapes)
          /\ Covered(k, FlowStabRequests, SPGSMStabMass(k).shapes)
      BY FlowShapesAreCovered, NoJacobianYetIs DEF SPGSMStabTime,
         SPGSMStabConstraint, SPGSMStabMass
    <2> HIDE DEF cl
    <2>3. \A h \in DOMAIN cl.terms : Covered(k, cl.requests, cl.terms[h].shapes)
      BY <2>1, <2>2
    <2>4. AsksForDerivatives(cl)
      BY <1>3, <2>1, <2>3
    <2> QED BY <2>4 DEF cl
  <1> QED BY <1>4, <1>5, <1>6, <1>7

\* The classes of the stabilized low Mach flow, whose residuals use the second
\* derivatives of the velocity and the temperature.
LEMMA LowMachStabsAskForDerivatives ==
  ASSUME NEW k, NEW time, NEW mass,
         time.shapes = LowMachData(k), mass.shapes = LowMachData(k)
  PROVE  AsksForDerivatives(LowMachStabClass(k, time, mass))
  <1> DEFINE cl == LowMachStabClass(k, time, mass)
  <1>1. /\ cl.adds = LowMachVars(k)
        /\ cl.requests = LowMachStabRequests
        /\ cl.terms = [element_time_derivative |-> time, mass_residual |-> mass]
    BY DEF LowMachStabClass, LowMachClass, Class
  <1> HIDE DEF cl
  <1>2. \A h \in DOMAIN cl.terms : Covered(k, cl.requests, cl.terms[h].shapes)
    <2>1. Covered(k, LowMachStabRequests, LowMachData(k))
      BY FlowShapesAreCovered
    <2> QED BY <1>1, <2>1
  <1>3. /\ \A v \in Velocity(k) : Alike(cl.adds, "u", v)
        /\ \A r \in cl.requests :
             r[1] \in {"p", "T"} => Alike(cl.adds, r[1], r[1])
    BY <1>1, AlikeAdded
  <1>4. AsksForDerivatives(cl)
    BY <1>2, <1>3, CoveredIsAskedFor
  <1> QED BY <1>4 DEF cl

\* Every class but the Galerkin-stabilized buoyancy asks for the derivatives
\* that its residuals use.
LEMMA ClassesAskForDerivatives ==
  ASSUME NEW k, NEW p \in AllPhysics, p # UsesGradientsOfOthers
  PROVE  AsksForDerivatives(ClassOf(k, p))
  <1> USE AlikeAdded, Shapes DEF AsksForDerivatives, ClassOf, Class, Term
  <1>1. AsksForDerivatives(ClassOf(k, "AveragedFan"))
    BY DEF ForceClass, FanTime, ForceTime, Velocity, FlowClass, ForceRequests
  <1>2. AsksForDerivatives(ClassOf(k, "AveragedFanAdjointStabilization"))
    BY DEF ForceStabClass, FanStabTime, FanStabConstraint,
           ForceStabConstraint, Velocity, ForceStabTime, FlowClass,
           ForceStabRequests
  <1>3. AsksForDerivatives(ClassOf(k, "AveragedTurbine"))
    BY DEF TurbineClass, ForceRequests, TurbineTime, TurbineSpeedTime,
           TurbineSpeedMass, TurbineUnknowns, Velocity
  <1>4. AsksForDerivatives(ClassOf(k, "AxisymmetricBoussinesqBuoyancy"))
    BY DEF AxisymmetricBuoyancyTime, AxisVelocity
  <1>5. AsksForDerivatives(ClassOf(k, "AxisymmetricHeatTransfer"))
    BY DEF AxisymmetricRequests, AxisymmetricHeatTime, AxisymmetricHeatMass,
           AxisVelocity
  <1>6. AsksForDerivatives(ClassOf(k, "BoussinesqBuoyancy"))
    BY DEF BuoyancyClass, BuoyancyTime, Velocity
  <1>7. AsksForDerivatives(ClassOf(k, "BoussinesqBuoyancyAdjointStabilization"))
    BY DEF BuoyancyClass, BuoyancyStabRequests, BuoyancyStabTime,
           BuoyancyStabConstraint, Velocity
  <1>8. AsksForDerivatives(ClassOf(k, "ElasticCable"))
    <2>1. Alike(DisplacementVars(k, "ElasticCable"), "u", "u")
      OBVIOUS
    <2> HIDE AlikeAdded
    <2> QED BY <2>1 DEF SolidClass, CableRequests, CableTime, SolidMass,
        NotImplemented, Displacement
  <1>9. AsksForDerivatives(ClassOf(k, "ElasticCableConstantGravity"))
    BY DEF SolidClass, CableRequests, GravityTime
  <1>10. AsksForDerivatives(ClassOf(k, "ElasticMembrane"))
    BY NoJacobianYetIs DEF SolidClass, MembraneRequests, MembraneTime,
        MembraneConstraint, SolidMass, NotImplemented, Displacement, NoTerm,
        Stretch
  <1>11. AsksForDerivatives(ClassOf(k, "ElasticMembraneConstantPressure"))
    <2>1. Alike(DisplacementVars(k, "ElasticMembraneConstantPressure"), "u", "u")
      OBVIOUS
    <2>2. PressureTime.shapes = Gradients({"u"})
      BY DEF PressureTime
    <2>3. \A s \in Gradients({"u"}) :
            s[1] = "u" /\ <<"u", s[2]>> \in Gradients({"u"})
      OBVIOUS
    <2> HIDE AlikeAdded, Shapes
    <2> QED BY <2>1, <2>2, <2>3 DEF SolidClass, MembraneRequests
  <1>12. AsksForDerivatives(ClassOf(k, "HeatConduction"))
    <2>1. Alike(TempVar(k, "HeatConduction"), "T", "T")
      OBVIOUS
    <2> HIDE AlikeAdded
    <2> QED BY <2>1 DEF ConductionRequests, ConductionTime, ConductionMass
  <1>13. AsksForDerivatives(ClassOf(k, "HeatTransfer"))
    BY DEF HeatClass, TempRequests, HeatTransferTime, HeatTransferMass,
           Velocity
  <1>14. AsksForDerivatives(ClassOf(k, "HeatTransferAdjointStabilization"))
    BY DEF HeatClass, TempStabRequests, HeatStabTime, HeatStabMass, Velocity,
           TempRequests
  <1>15. AsksForDerivatives(ClassOf(k, "HeatTransferSPGSMStabilization"))
    BY NoJacobianYetIs DEF HeatClass, TempStabRequests, HeatSPGSMTime,
        HeatSPGSMMass, Velocity, TempRequests
  <1>16. AsksForDerivatives(ClassOf(k, "HeatTransferSource"))
    BY DEF SourceTime
  <1>17. AsksForDerivatives(ClassOf(k, "IncompressibleNavierStokes"))
    <2> HIDE AlikeAdded, Shapes DEF AsksForDerivatives, Class, Term
    <2> QED BY FlowClassesAskForDerivatives
  <1>18. AsksForDerivatives(
           ClassOf(k, "IncompressibleNavierStokesAdjointStabilization"))
    <2> HIDE AlikeAdded, Shapes DEF AsksForDerivatives, Class, Term
    <2> QED BY FlowClassesAskForDerivatives
  <1>19. AsksForDerivatives(
           ClassOf(k, "IncompressibleNavierStokesSPGSMStabilization"))
    <2> HIDE AlikeAdded, Shapes DEF AsksForDerivatives, Class, Term
    <2> QED BY FlowClassesAskForDerivatives
  <1>20. AsksForDerivatives(ClassOf(k, "LowMachNavierStokes"))
    BY LowMachDerivatives DEF LowMachClass
  <1>21. AsksForDerivatives(ClassOf(k, "LowMachNavierStokesBraackStabilization"))
    <2> HIDE AlikeAdded, Shapes DEF AsksForDerivatives, Class
    <2>1. /\ BraackTime(k).shapes = LowMachData(k)
          /\ BraackMass(k).shapes = LowMachData(k)
      BY DEF BraackTime, BraackMass
    <2> QED BY <2>1, LowMachStabsAskForDerivatives
  <1>22. AsksForDerivatives(ClassOf(k, "LowMachNavierStokesSPGSMStabilization"))
    <2> HIDE AlikeAdded, Shapes DEF AsksForDerivatives, Class
    <2>1. /\ LowMachSPGSMTime(k).shapes = LowMachData(k)
          /\ LowMachSPGSMMass(k).shapes = LowMachData(k)
      BY DEF LowMachSPGSMTime, LowMachSPGSMMass
    <2> QED BY <2>1, LowMachStabsAskForDerivatives
  <1>23. AsksForDerivatives(ClassOf(k, "LowMachNavierStokesVMSStabilization"))
    <2> HIDE AlikeAdded, Shapes DEF AsksForDerivatives, Class
    <2>1. /\ VMSTime(k).shapes = LowMachData(k)
          /\ VMSMass(k).shapes = LowMachData(k)
      BY DEF VMSTime, VMSMass
    <2> QED BY <2>1, LowMachStabsAskForDerivatives
  <1>24. AsksForDerivatives(ClassOf(k, "ReactingLowMachNavierStokes"))
    BY CachedButNoJacobian DEF ReactingClass, ReactingRequests, ReactingTime,
        Pinning, NotImplemented, Flow, Species, ReactingUnknowns,
        LowMachUnknowns, Velocity
  <1>25. AsksForDerivatives(ClassOf(k, "ScalarODE"))
    BY DEF ScalarTime, ScalarMass, ScalarConstraint
  <1>26. AsksForDerivatives(ClassOf(k, "Stokes"))
    <2> HIDE AlikeAdded, Shapes DEF AsksForDerivatives, Class, Term
    <2> QED BY FlowClassesAskForDerivatives
  <1>27. AsksForDerivatives(ClassOf(k, "VelocityDrag"))
    BY DEF ForceClass, DragTime, ForceTime, Velocity, FlowClass, ForceRequests
  <1>28. AsksForDerivatives(ClassOf(k, "VelocityDragAdjointStabilization"))
    BY DEF ForceStabClass, DragStabTime, DragStabConstraint,
           ForceStabConstraint, Velocity, ForceStabTime, FlowClass,
           ForceStabRequests
  <1>29. AsksForDerivatives(ClassOf(k, "VelocityPenalty"))
    BY DEF ForceClass, PenaltyTime, ForceTime, Velocity, FlowClass,
           ForceRequests
  <1>30. AsksForDerivatives(ClassOf(k, "VelocityPenaltyAdjointStabilization"))
    BY DEF ForceStabClass, PenaltyStabTime, PenaltyStabConstraint,
           ForceStabConstraint, Velocity, ForceStabTime, FlowClass,
           ForceStabRequests
  <1> HIDE AlikeAdded, Shapes DEF AsksForDerivatives, ClassOf
  <1> QED BY NamesOfPhysics, <1>1, <1>2, <1>3, <1>4, <1>5, <1>6, <1>7, <1>8,
      <1>9, <1>10, <1>11, <1>12, <1>13, <1>14, <1>15, <1>16, <1>17, <1>18,
      <1>19, <1>20, <1>21, <1>22, <1>23, <1>24, <1>25, <1>26, <1>27, <1>28,
      <1>29, <1>30
         DEF UsesGradientsOfOthers

\* Every class asks for the values where it asks for derivatives, but for the
\* stabilizations of the forces and of the buoyancy.
LEMMA ClassesAskForValues ==
  ASSUME NEW k,
         NEW p \in AllPhysics
                  \ (ForceStabs
                       \union {"BoussinesqBuoyancyAdjointStabilization"})
  PROVE  AsksForValues(ClassOf(k, p))
  <1> USE Shapes DEF AsksForValues, ClassOf, Class
  <1>1. AsksForValues(ClassOf(k, "AveragedFan"))
    BY DEF ForceClass, FlowClass, ForceRequests
  <1>2. AsksForValues(ClassOf(k, "AveragedTurbine"))
    BY DEF TurbineClass, ForceRequests
  <1>3. AsksForValues(ClassOf(k, "AxisymmetricBoussinesqBuoyancy"))
    OBVIOUS
  <1>4. AsksForValues(ClassOf(k, "AxisymmetricHeatTransfer"))
    BY DEF AxisymmetricRequests
  <1>5. AsksForValues(ClassOf(k, "BoussinesqBuoyancy"))
    BY DEF BuoyancyClass
  <1>6. AsksForValues(ClassOf(k, "BoussinesqBuoyancySPGSMStabilization"))
    BY DEF BuoyancyClass
  <1>7. AsksForValues(ClassOf(k, "ElasticCable"))
    BY DEF SolidClass, CableRequests
  <1>8. AsksForValues(ClassOf(k, "ElasticCableConstantGravity"))
    BY DEF SolidClass, CableRequests
  <1>9. AsksForValues(ClassOf(k, "ElasticMembrane"))
    BY DEF SolidClass, MembraneRequests
  <1>10. AsksForValues(ClassOf(k, "ElasticMembraneConstantPressure"))
    BY DEF SolidClass, MembraneRequests
  <1>11. AsksForValues(ClassOf(k, "HeatConduction"))
    BY DEF ConductionRequests
  <1>12. AsksForValues(ClassOf(k, "HeatTransfer"))
    BY DEF HeatClass, TempRequests
  <1>13. AsksForValues(ClassOf(k, "HeatTransferAdjointStabilization"))
    BY DEF HeatClass, TempStabRequests, TempRequests
  <1>14. AsksForValues(ClassOf(k, "HeatTransferSPGSMStabilization"))
    BY DEF HeatClass, TempStabRequests, TempRequests
  <1>15. AsksForValues(ClassOf(k, "HeatTransferSource"))
    OBVIOUS
  <1>16. AsksForValues(ClassOf(k, "IncompressibleNavierStokes"))
    BY DEF NavierStokesClass, FlowRequests
  <1>17. AsksForValues(ClassOf(k, "IncompressibleNavierStokesAdjointStabilization"))
    BY DEF AdjointStabClass, FlowClass, FlowStabRequests, FlowRequests
  <1>18. AsksForValues(ClassOf(k, "IncompressibleNavierStokesSPGSMStabilization"))
    BY DEF SPGSMStabClass, FlowClass, FlowStabRequests, FlowRequests
  <1>19. AsksForValues(ClassOf(k, "LowMachNavierStokes"))
    BY DEF LowMachClass, LowMachRequests
  <1>20. AsksForValues(ClassOf(k, "LowMachNavierStokesBraackStabilization"))
    BY DEF LowMachStabClass, LowMachClass, LowMachStabRequests,
           LowMachRequests
  <1>21. AsksForValues(ClassOf(k, "LowMachNavierStokesSPGSMStabilization"))
    BY DEF LowMachStabClass, LowMachClass, LowMachStabRequests,
           LowMachRequests
  <1>22. AsksForValues(ClassOf(k, "LowMachNavierStokesVMSStabilization"))
    BY DEF LowMachStabClass, LowMachClass, LowMachStabRequests,
           LowMachRequests
  <1>23. AsksForValues(ClassOf(k, "ReactingLowMachNavierStokes"))
    BY DEF ReactingClass, ReactingRequests, NotImplemented
  <1>24. AsksForValues(ClassOf(k, "ScalarODE"))
    OBVIOUS
  <1>25. AsksForValues(ClassOf(k, "Stokes"))
    BY DEF StokesClass, FlowRequests
  <1>26. AsksForValues(ClassOf(k, "VelocityDrag"))
    BY DEF ForceClass, FlowClass, ForceRequests
  <1>27. AsksForValues(ClassOf(k, "VelocityPenalty"))
    BY DEF ForceClass, FlowClass, ForceRequests
  <1> HIDE Shapes DEF AsksForValues, ClassOf
  <1> QED BY NamesOfPhysics, <1>1, <1>2, <1>3, <1>4, <1>5, <1>6, <1>7, <1>8,
      <1>9, <1>10, <1>11, <1>12, <1>13, <1>14, <1>15, <1>16, <1>17, <1>18,
      <1>19, <1>20, <1>21, <1>22, <1>23, <1>24, <1>25, <1>26, <1>27
         DEF ForceStabs

\* Only the low Mach flows take from the cache, what they put there.
LEMMA ClassesGetNothing ==
  ASSUME NEW k,
         NEW p \in AllPhysics
                  \ {"LowMachNavierStokes", "ReactingLowMachNavierStokes"},
         NEW h \in DOMAIN ClassOf(k, p).terms
  PROVE  ClassOf(k, p).terms[h].gets = {}
  <1> DEFINE GetsNothing(q) ==
        \A g \in DOMAIN ClassOf(k, q).terms : ClassOf(k, q).terms[g].gets = {}
  <1> USE DEF ClassOf, Class, Term
  <1>1. GetsNothing("AveragedFan")
    BY DEF ForceClass, FanTime, ForceTime, FlowClass
  <1>2. GetsNothing("AveragedFanAdjointStabilization")
    BY DEF ForceStabClass, FanStabTime, FanStabConstraint,
           ForceStabConstraint, ForceStabTime, FlowClass
  <1>3. GetsNothing("AveragedTurbine")
    BY DEF TurbineClass, TurbineTime, TurbineSpeedTime, TurbineSpeedMass
  <1>4. GetsNothing("AxisymmetricBoussinesqBuoyancy")
    BY DEF AxisymmetricBuoyancyTime
  <1>5. GetsNothing("AxisymmetricHeatTransfer")
    BY DEF AxisymmetricHeatTime, AxisymmetricHeatMass
  <1>6. GetsNothing("BoussinesqBuoyancy")
    BY DEF BuoyancyClass, BuoyancyTime
  <1>7. GetsNothing("BoussinesqBuoyancyAdjointStabilization")
    BY DEF BuoyancyClass, BuoyancyStabTime, BuoyancyStabConstraint
  <1>8. GetsNothing("BoussinesqBuoyancySPGSMStabilization")
    BY DEF BuoyancyClass, BuoyancySPGSMTime, BuoyancySPGSMConstraint,
           NoJacobianYet
  <1>9. GetsNothing("ElasticCable")
    BY DEF SolidClass, CableTime, SolidMass, NotImplemented
  <1>10. GetsNothing("ElasticCableConstantGravity")
    BY DEF SolidClass, GravityTime
  <1>11. GetsNothing("ElasticMembrane")
    BY DEF SolidClass, MembraneTime, MembraneConstraint, SolidMass,
           NotImplemented, NoTerm, NoJacobianYet
  <1>12. GetsNothing("ElasticMembraneConstantPressure")
    BY DEF SolidClass, PressureTime
  <1>13. GetsNothing("HeatConduction")
    BY DEF ConductionTime, ConductionMass
  <1>14. GetsNothing("HeatTransfer")
    BY DEF HeatClass, HeatTransferTime, HeatTransferMass
  <1>15. GetsNothing("HeatTransferAdjointStabilization")
    BY DEF HeatClass, HeatStabTime, HeatStabMass
  <1>16. GetsNothing("HeatTransferSPGSMStabilization")
    BY DEF HeatClass, HeatSPGSMTime, HeatSPGSMMass, NoJacobianYet
  <1>17. GetsNothing("HeatTransferSource")
    BY DEF SourceTime
  <1>18. GetsNothing("IncompressibleNavierStokes")
    BY DEF NavierStokesClass, NavierStokesTime, NavierStokesConstraint,
           Pinning, NavierStokesMass
  <1>19. GetsNothing("IncompressibleNavierStokesAdjointStabilization")
    BY DEF AdjointStabClass, FlowClass, AdjointStabTime,
           AdjointStabConstraint, AdjointStabMass
  <1>20. GetsNothing("IncompressibleNavierStokesSPGSMStabilization")
    BY DEF SPGSMStabClass, FlowClass, SPGSMStabTime, SPGSMStabConstraint,
           SPGSMStabMass, NoJacobianYet
  <1>21. GetsNothing("LowMachNavierStokesBraackStabilization")
    BY DEF LowMachStabClass, BraackTime, BraackMass, LowMachClass
  <1>22. GetsNothing("LowMachNavierStokesSPGSMStabilization")
    BY DEF LowMachStabClass, LowMachSPGSMTime, LowMachSPGSMMass, LowMachClass
  <1>23. GetsNothing("LowMachNavierStokesVMSStabilization")
    BY DEF LowMachStabClass, VMSTime, VMSMass, LowMachClass
  <1>24. GetsNothing("ScalarODE")
    BY DEF ScalarTime, ScalarMass, ScalarConstraint
  <1>25. GetsNothing("Stokes")
    BY DEF StokesClass, StokesTime, StokesConstraint, StokesMass
  <1>26. GetsNothing("VelocityDrag")
    BY DEF ForceClass, DragTime, ForceTime, FlowClass
  <1>27. GetsNothing("VelocityDragAdjointStabilization")
    BY DEF ForceStabClass, DragStabTime, DragStabConstraint,
           ForceStabConstraint, ForceStabTime, FlowClass
  <1>28. GetsNothing("VelocityPenalty")
    BY DEF ForceClass, PenaltyTime, ForceTime, FlowClass
  <1>29. GetsNothing("VelocityPenaltyAdjointStabilization")
    BY DEF ForceStabClass, PenaltyStabTime, PenaltyStabConstraint,
           ForceStabConstraint, ForceStabTime, FlowClass
  <1> HIDE DEF ClassOf
  <1> QED BY NamesOfPhysics, <1>1, <1>2, <1>3, <1>4, <1>5, <1>6, <1>7, <1>8,
      <1>9, <1>10, <1>11, <1>12, <1>13, <1>14, <1>15, <1>16, <1>17, <1>18,
      <1>19, <1>20, <1>21, <1>22, <1>23, <1>24, <1>25, <1>26, <1>27, <1>28,
      <1>29

\* The low Mach flows put into the cache what they take.
LEMMA LowMachGetsCached ==
  ASSUME NEW k,
         NEW p \in {"LowMachNavierStokes", "ReactingLowMachNavierStokes"},
         NEW h \in DOMAIN ClassOf(k, p).terms
  PROVE  ClassOf(k, p).terms[h].gets \subseteq CachesOf(k, p, h)
  <1>1. LowMachTime(k).gets = LowMachCached(k) /\ LowMachMass(k).gets = {}
    BY DEF LowMachTime, LowMachMass, Cached, Together, Term
  <1>2. ReactingTime(k).gets = ReactingGets(k)
    BY CachedButNoJacobian DEF ReactingTime
  <1>3. ReactingGets(k) \subseteq ReactingCached(k)
    BY DEF ReactingGets, ReactingCached, LowMachCached
  <1>4. Pinning.gets = {} /\ NotImplemented.gets = {}
    BY DEF Pinning, NotImplemented, Term
  <1>5. CASE p = "LowMachNavierStokes"
    BY <1>1, <1>4, <1>5 DEF ClassOf, LowMachClass, Class, CachesOf
  <1>6. CASE p = "ReactingLowMachNavierStokes"
    BY <1>2, <1>3, <1>4, <1>6 DEF ClassOf, ReactingClass, Class, CachesOf
  <1> QED BY <1>5, <1>6

\* A class reads a rate in the equation of each variable it marches, or the
\* variable is a scalar.
ReadsRate(k, p, v) ==
  \E w : <<v, w, "rate">> \in TermOf(k, p, "mass_residual").reads
MarchesOwn(k, p) ==
  \A v \in ClassOf(k, p).evolves :
    <<v, "scalar">> \in ClassOf(k, p).adds \/ ReadsRate(k, p, v)

\* The own rates of some variables hold each one's.
LEMMA OwnRateHolds ==
  ASSUME NEW R, NEW v \in R
  PROVE  <<v, v, "rate">> \in OwnRate(R)
  BY DEF OwnRate

\* The low Mach flow reads a rate in the equation of each unknown it marches.
LEMMA LowMachReadsRates ==
  ASSUME NEW k, NEW v \in LowMachEvolves(k)
  PROVE  ReadsRate(k, "LowMachNavierStokes", v)
  <1>1. TermOf(k, "LowMachNavierStokes", "mass_residual") = LowMachMass(k)
    BY DEF TermOf, ClassOf, LowMachClass, Class
  <1>2. /\ \A u \in Velocity(k) \union {"T"} :
             <<u, u, "rate">> \in LowMachMass(k).reads
        /\ <<"p", "T", "rate">> \in LowMachMass(k).reads
    BY Dependences, OwnDependences
       DEF LowMachMass, Together, ContinuityMass, MomentumMass, EnergyMass, Term
  <1>3. \A u \in ThermoPressure(k) : <<u, u, "rate">> \in LowMachMass(k).reads
    BY Dependences, OwnDependences
       DEF LowMachMass, Together, ThermoMass, ThermoPressure, Term
  <1> QED BY <1>1, <1>2, <1>3 DEF ReadsRate, LowMachEvolves, Flow

\* The flows and their stabilizations read the rate of each velocity.
LEMMA FlowReadsRates ==
  ASSUME NEW k, NEW p \in ReadRatesOfFlow, NEW v \in Velocity(k)
  PROVE  ReadsRate(k, p, v)
  <1> USE OwnRateHolds
  <1>1. ReadsRate(k, "IncompressibleNavierStokes", v)
    <2>1. TermOf(k, "IncompressibleNavierStokes", "mass_residual")
            = NavierStokesMass(k)
      BY DEF TermOf, ClassOf, Class, NavierStokesClass
    <2>2. <<v, v, "rate">> \in NavierStokesMass(k).reads
      BY DEF NavierStokesMass, Term
    <2> QED BY <2>1, <2>2 DEF ReadsRate
  <1>2. ReadsRate(k, "Stokes", v)
    <2>1. TermOf(k, "Stokes", "mass_residual") = StokesMass(k)
      BY DEF TermOf, ClassOf, Class, StokesClass
    <2>2. <<v, v, "rate">> \in StokesMass(k).reads
      BY DEF StokesMass, Term
    <2> QED BY <2>1, <2>2 DEF ReadsRate
  <1>3. ReadsRate(k, "IncompressibleNavierStokesAdjointStabilization", v)
    <2>1. TermOf(k, "IncompressibleNavierStokesAdjointStabilization",
                 "mass_residual") = AdjointStabMass(k)
      BY DEF TermOf, ClassOf, Class, AdjointStabClass, FlowClass
    <2>2. <<v, v, "rate">> \in AdjointStabMass(k).reads
      BY DEF AdjointStabMass, Term
    <2> QED BY <2>1, <2>2 DEF ReadsRate
  <1>4. ReadsRate(k, "IncompressibleNavierStokesSPGSMStabilization", v)
    <2>1. TermOf(k, "IncompressibleNavierStokesSPGSMStabilization",
                 "mass_residual") = SPGSMStabMass(k)
      BY DEF TermOf, ClassOf, Class, SPGSMStabClass, FlowClass
    <2>2. <<v, v, "rate">> \in SPGSMStabMass(k).reads
      BY NoJacobianYetIs DEF SPGSMStabMass
    <2> QED BY <2>1, <2>2 DEF ReadsRate
  <1>5. ReadsRate(k, "LowMachNavierStokes", v)
    BY LowMachReadsRates DEF LowMachEvolves, Flow
  <1> QED BY <1>1, <1>2, <1>3, <1>4, <1>5 DEF ReadRatesOfFlow, FlowStabs

\* The other classes read the rates of what they march.
LEMMA ClassesMarchOwn ==
  ASSUME NEW k,
         NEW p \in AllPhysics \ (StopInTime \union MarchFlowOfOthers
                              \union LowMachStabs \union MarchSolidOfOthers)
  PROVE  MarchesOwn(k, p)
  <1> USE OwnDependences
      DEF MarchesOwn, ReadsRate, TermOf, ClassOf, Class, Term
  <1>1. MarchesOwn(k, "AxisymmetricBoussinesqBuoyancy")
    OBVIOUS
  <1>2. MarchesOwn(k, "AxisymmetricHeatTransfer")
    BY DEF AxisymmetricEvolves, AxisymmetricHeatMass
  <1>3. MarchesOwn(k, "BoussinesqBuoyancy")
    BY DEF BuoyancyClass
  <1>4. MarchesOwn(k, "BoussinesqBuoyancyAdjointStabilization")
    BY DEF BuoyancyClass
  <1>5. MarchesOwn(k, "BoussinesqBuoyancySPGSMStabilization")
    BY DEF BuoyancyClass
  <1>6. MarchesOwn(k, "HeatConduction")
    BY DEF TempEvolves, ConductionMass
  <1>7. MarchesOwn(k, "HeatTransfer")
    BY DEF HeatClass, HeatTransferMass, TempEvolves
  <1>8. MarchesOwn(k, "HeatTransferAdjointStabilization")
    BY DEF HeatClass, HeatStabMass, Velocity, TempEvolves
  <1>9. MarchesOwn(k, "HeatTransferSPGSMStabilization")
    BY DEF HeatClass, HeatSPGSMMass, Velocity, TempEvolves
  <1>10. MarchesOwn(k, "HeatTransferSource")
    OBVIOUS
  <1>11. MarchesOwn(k, "IncompressibleNavierStokes")
    <2>1. ClassOf(k, "IncompressibleNavierStokes").evolves = Velocity(k)
      BY DEF NavierStokesClass, FlowEvolves
    <2> HIDE DEF ReadsRate
    <2> QED BY <2>1, FlowReadsRates DEF ReadRatesOfFlow, FlowStabs
  <1>12. MarchesOwn(k, "IncompressibleNavierStokesAdjointStabilization")
    <2>1. ClassOf(k, "IncompressibleNavierStokesAdjointStabilization").evolves
            = Velocity(k)
      BY DEF AdjointStabClass, FlowClass, FlowEvolves
    <2> HIDE DEF ReadsRate
    <2> QED BY <2>1, FlowReadsRates DEF ReadRatesOfFlow, FlowStabs
  <1>13. MarchesOwn(k, "IncompressibleNavierStokesSPGSMStabilization")
    <2>1. ClassOf(k, "IncompressibleNavierStokesSPGSMStabilization").evolves
            = Velocity(k)
      BY DEF SPGSMStabClass, FlowClass, FlowEvolves
    <2> HIDE DEF ReadsRate
    <2> QED BY <2>1, FlowReadsRates DEF ReadRatesOfFlow, FlowStabs
  <1>14. MarchesOwn(k, "LowMachNavierStokes")
    BY LowMachReadsRates DEF LowMachClass
  <1>15. MarchesOwn(k, "ScalarODE")
    BY DEF ScalarVars, ScalarEvolves
  <1>16. MarchesOwn(k, "Stokes")
    <2>1. ClassOf(k, "Stokes").evolves = Velocity(k)
      BY DEF StokesClass, FlowEvolves
    <2> HIDE DEF ReadsRate
    <2> QED BY <2>1, FlowReadsRates DEF ReadRatesOfFlow, FlowStabs
  <1> HIDE DEF MarchesOwn, ClassOf
  <1> QED BY NamesOfPhysics, <1>1, <1>2, <1>3, <1>4, <1>5, <1>6, <1>7, <1>8,
      <1>9, <1>10, <1>11, <1>12, <1>13, <1>14, <1>15, <1>16
         DEF StopInTime, MarchFlowOfOthers, ForceStabs, LowMachStabs,
             MarchSolidOfOthers

--------------------------------------------------------------------------
(* The lists of the program's own physics.                                 *)

\* What a physics of a list does is what its class does; a class without a
\* residual function adds nothing to it.
LEMMA PhysicsAreClasses ==
  ASSUME NEW k \in Configs, NEW p \in Listed(k)
  PROVE  /\ p \in AllPhysics
         /\ Adds(k, p) = ClassOf(k, p).adds
         /\ Evolves(k, p) = ClassOf(k, p).evolves
         /\ Requests(k, p) = ClassOf(k, p).requests
         /\ \A h \in HookNames(k) :
              /\ Caches(k, p, h) = CachesOf(k, p, h)
              /\ Terms(k, p, h) = TermOf(k, p, h)
  BY PhysicsAreOfProgram, ListsAreAccepted DEF AddsOf, EvolvesOf, RequestsOf

\* A residual function that a class does not have adds nothing.
LEMMA TermsAreOfClasses ==
  ASSUME NEW k, NEW p, NEW h
  PROVE  IF h \in DOMAIN ClassOf(k, p).terms
         THEN TermOf(k, p, h) = ClassOf(k, p).terms[h]
         ELSE TermOf(k, p, h) = [reads |-> {}, jac |-> {}, shapes |-> {},
                                 gets |-> {}, stops |-> "never"]
  BY DEF TermOf, NoTerm, Term

\* The physics of a list are those at its positions.
LEMMA ListIsListed ==
  ASSUME NEW k
  PROVE  /\ \A i \in DOMAIN k.list : k.list[i] \in Listed(k)
         /\ \A p \in Listed(k) : \E i \in DOMAIN k.list : k.list[i] = p
  BY DEF Listed

\* But for the stabilized fan in two dimensions, every list keeps to the
\* variables it adds.
LEMMA ListsTouchOwn ==
  ASSUME NEW k \in Configs, Listed(k) \intersect Overreaching(k) = {}
  PROVE  TouchesOwn(k)
  <1> SUFFICES ASSUME NEW i \in DOMAIN k.list
               PROVE  LET own == {a[1] : a \in Adds(k, k.list[i])}
                      IN /\ Evolves(k, k.list[i]) \subseteq own
                         /\ \A r \in Requests(k, k.list[i]) : r[1] \in own
                         /\ \A h \in HookNames(k) :
                              StaysIn(Terms(k, k.list[i], h), own)
    BY DEF TouchesOwn, StaysIn
  <1> DEFINE p == k.list[i]
             cl == ClassOf(k, p)
  <1>1. p \in Listed(k) /\ p \notin Overreaching(k)
    BY ListIsListed
  <1>2. /\ p \in AllPhysics
        /\ Adds(k, p) = cl.adds /\ Evolves(k, p) = cl.evolves
        /\ Requests(k, p) = cl.requests
        /\ \A h \in HookNames(k) : Terms(k, p, h) = TermOf(k, p, h)
    BY <1>1, PhysicsAreClasses
  <1>3. KeepsToOwn(cl)
    BY <1>1, <1>2, ClassesKeepToOwn
  <1>4. {a[1] : a \in Adds(k, p)} = NamesOf(cl.adds)
    BY <1>2 DEF NamesOf
  <1>5. ASSUME NEW h \in HookNames(k)
        PROVE  StaysIn(Terms(k, p, h), NamesOf(cl.adds))
    <2>1. CASE h \in DOMAIN cl.terms
      BY <1>2, <1>3, <2>1, TermsAreOfClasses DEF KeepsToOwn
    <2>2. CASE h \notin DOMAIN cl.terms
      BY <1>2, <2>2, TermsAreOfClasses DEF StaysIn
    <2> QED BY <2>1, <2>2
  <1> HIDE DEF p, cl
  <1> QED BY <1>2, <1>3, <1>4, <1>5 DEF KeepsToOwn, p

\* Every list puts into the cache what it takes from it.
LEMMA ListsFillCaches ==
  ASSUME NEW k \in Configs
  PROVE  CachesSuffice(k)
  <1> SUFFICES ASSUME NEW i \in DOMAIN k.list, NEW h \in HookNames(k)
               PROVE  Terms(k, k.list[i], h).gets \subseteq Caches(k, k.list[i], h)
    BY DEF CachesSuffice
  <1> DEFINE p == k.list[i]
  <1>1. p \in Listed(k)
    BY ListIsListed
  <1>2. /\ p \in AllPhysics
        /\ Caches(k, p, h) = CachesOf(k, p, h)
        /\ Terms(k, p, h) = TermOf(k, p, h)
    BY <1>1, PhysicsAreClasses
  <1> HIDE DEF p
  <1>3. CASE h \notin DOMAIN ClassOf(k, p).terms
    BY <1>2, <1>3, TermsAreOfClasses DEF p
  <1>4. CASE h \in DOMAIN ClassOf(k, p).terms
    <2>1. Terms(k, p, h) = ClassOf(k, p).terms[h]
      BY <1>2, <1>4, TermsAreOfClasses
    <2>2. ClassOf(k, p).terms[h].gets \subseteq CachesOf(k, p, h)
      BY <1>2, <1>4, ClassesGetNothing, LowMachGetsCached
    <2> QED BY <1>2, <2>1, <2>2 DEF p
  <1> QED BY <1>3, <1>4

\* But for a stabilized low Mach flow in time, the mass residuals of every
\* list hold rates.
LEMMA ListsHoldRates ==
  ASSUME NEW k \in Configs, Listed(k) \intersect WithoutRates(k) = {}
  PROVE  MassesHoldRates(k)
  <1> SUFFICES ASSUME NEW i \in DOMAIN k.list,
                      NEW h \in MassHooks \intersect HookNames(k),
                      NEW e \in Terms(k, k.list[i], h).reads
               PROVE  \E r \in Terms(k, k.list[i], h).reads :
                        /\ r[1] = e[1] /\ r[3] = "rate"
                        /\ \E j \in DOMAIN k.list : r[2] \in Evolves(k, k.list[j])
    BY DEF MassesHoldRates
  <1> DEFINE p == k.list[i]
             cl == ClassOf(k, p)
  <1>1. k.scheme # "steady"
    BY SteadyHooks
  <1>2. p \in Listed(k) /\ p \notin LowMachStabs
    BY <1>1, ListIsListed DEF WithoutRates
  <1>3. /\ p \in AllPhysics /\ Evolves(k, p) = cl.evolves
        /\ Terms(k, p, h) = TermOf(k, p, h)
    BY <1>2, PhysicsAreClasses
  <1> HIDE DEF cl
  <1>4. h \in DOMAIN cl.terms /\ TermOf(k, p, h) = cl.terms[h]
    BY <1>3, TermsAreOfClasses DEF cl
  <1>5. MassIsOfRates(cl)
    BY <1>2, <1>3, ClassesHaveRates DEF cl
  <1>6. PICK v \in cl.evolves : <<e[1], v, "rate">> \in cl.terms[h].reads
    BY <1>3, <1>4, <1>5 DEF MassIsOfRates
  <1>7. <<e[1], v, "rate">> \in Terms(k, k.list[i], h).reads
    BY <1>3, <1>4, <1>6
  <1>8. v \in Evolves(k, k.list[i])
    BY <1>3, <1>6
  <1> QED BY <1>7, <1>8

\* The residual functions of an unsteady or steady solver on an element.
LEMMA ElementHooksAre ==
  ASSUME NEW k, NEW h \in ElementHooks3, h \in MassHooks => k.scheme # "steady"
  PROVE  \E n \in DOMAIN Hooks(k)["element"] : Hooks(k)["element"][n] = h
  <1> DEFINE S == Hooks(k)["element"]
  <1>1. CASE k.scheme = "steady"
    <2>1. S = <<"element_time_derivative", "element_constraint">>
      BY <1>1 DEF Hooks
    <2>2. h \in {"element_time_derivative", "element_constraint"}
      BY <1>1 DEF ElementHooks3, MassHooks
    <2>3. 1 \in DOMAIN S /\ 2 \in DOMAIN S
      BY <2>1
    <2> QED BY <2>1, <2>2, <2>3
  <1>2. CASE k.scheme # "steady"
    <2>1. S = <<"element_time_derivative", "mass_residual",
                "element_constraint">>
      BY <1>2 DEF Hooks
    <2>2. 1 \in DOMAIN S /\ 2 \in DOMAIN S /\ 3 \in DOMAIN S
      BY <2>1
    <2> QED BY <2>1, <2>2 DEF ElementHooks3
  <1> QED BY <1>1, <1>2

\* Sides and nonlocal visits call other residual functions than elements.
LEMMA ElsewhereAreOthers ==
  ASSUME NEW k, NEW kind \in Kinds \ {"element"}, NEW n \in DOMAIN Hooks(k)[kind]
  PROVE  Hooks(k)[kind][n] \notin ElementHooks3
  BY DEF Hooks, Kinds, ElementHooks3

\* But for the physics with partial Jacobians, every list fills the Jacobian
\* of its residual or stops.
LEMMA ListsHaveJacobians ==
  ASSUME NEW k \in Configs, Listed(k) \intersect WithPartialJacobian(k) = {}
  PROVE  JacobiansAreComplete(k)
  <1> SUFFICES ASSUME NEW i \in DOMAIN k.list, NEW kind \in Kinds,
                      ~StopsJacobian(k, k.list[i], kind),
                      NEW n \in DOMAIN Hooks(k)[kind]
               PROVE  LET h == Hooks(k)[kind][n]
                      IN Scaled(k, h, Terms(k, k.list[i], h).jac)
                           = Scaled(k, h, Terms(k, k.list[i], h).reads)
    BY DEF JacobiansAreComplete
  <1> DEFINE p == k.list[i]
             cl == ClassOf(k, p)
             h == Hooks(k)[kind][n]
  <1>1. p \in Listed(k) /\ p \notin WithPartialJacobian(k)
    BY ListIsListed
  <1>2. /\ p \in AllPhysics
        /\ \A g \in HookNames(k) : Terms(k, p, g) = TermOf(k, p, g)
    BY <1>1, PhysicsAreClasses
  <1>3. JacobianIsWhole(k, cl)
    BY <1>1, <1>2, ClassesHaveJacobians
  <1>4. h \in HookNames(k)
    BY DEF HookNames
  <1> HIDE DEF p, cl, h
  <1>5. CASE h \notin DOMAIN cl.terms
    <2>1. Terms(k, p, h).jac = {} /\ Terms(k, p, h).reads = {}
      BY <1>2, <1>4, <1>5, TermsAreOfClasses DEF cl
    <2> QED BY <2>1 DEF p, h
  <1>6. CASE h \in DOMAIN cl.terms
    <2>1. Terms(k, p, h) = cl.terms[h]
      BY <1>2, <1>4, <1>6, TermsAreOfClasses DEF cl
    <2>2. Complete(k, h, cl.terms[h])
      <3>1. CASE \A g \in DOMAIN cl.terms \intersect HookNames(k) :
                   Complete(k, g, cl.terms[g])
        BY <1>4, <1>6, <3>1
      <3>2. CASE /\ \E g \in DOMAIN cl.terms :
                      /\ g \in ElementHooks3
                      /\ g \in MassHooks => k.scheme # "steady"
                      /\ cl.terms[g].stops \in {"always", "jacobian"}
                 /\ \A g \in DOMAIN cl.terms \ ElementHooks3 :
                      Complete(k, g, cl.terms[g])
        <4>1. PICK g \in DOMAIN cl.terms :
                     /\ g \in ElementHooks3
                     /\ g \in MassHooks => k.scheme # "steady"
                     /\ cl.terms[g].stops \in {"always", "jacobian"}
          BY <3>2
        <4>2. PICK j \in DOMAIN Hooks(k)["element"] : Hooks(k)["element"][j] = g
          BY <4>1, ElementHooksAre
        <4>3. g \in HookNames(k)
          BY <4>2 DEF HookNames, Kinds
        <4>4. Terms(k, p, g).stops \in {"always", "jacobian"}
          BY <1>2, <4>1, <4>3, TermsAreOfClasses DEF cl
        <4>5. kind # "element"
          BY <4>2, <4>4 DEF StopsJacobian, p
        <4>6. h \notin ElementHooks3
          BY <4>5, ElsewhereAreOthers DEF h
        <4> QED BY <1>6, <3>2, <4>6
      <3> QED BY <1>3, <3>1, <3>2 DEF JacobianIsWhole
    <2>3. Scaled(k, h, cl.terms[h].jac) = Scaled(k, h, cl.terms[h].reads)
      BY <2>2, CompleteIsScaled
    <2> QED BY <2>1, <2>3 DEF h, p
  <1> QED BY <1>5, <1>6

\* In company, every list asks for the values of what it asks for ...
LEMMA ListsAskForValues ==
  ASSUME NEW k \in Configs, RequestsHaveOwners(k), NEW q \in AllRequests(k)
  PROVE  <<q[1], "phi">> \in AllRequests(k)
  <1>1. ASSUME NEW p \in Listed(k), NEW r \in ClassOf(k, p).requests
        PROVE  r \in AllRequests(k)
    BY <1>1, PhysicsAreClasses, ListIsListed DEF AllRequests
  <1>2. PICK i \in DOMAIN k.list : q \in Requests(k, k.list[i])
    BY DEF AllRequests
  <1> DEFINE p == k.list[i]
  <1>3. p \in Listed(k) /\ p \in AllPhysics /\ q \in ClassOf(k, p).requests
    BY <1>2, PhysicsAreClasses, ListIsListed
  <1> HIDE DEF p
  <1>4. CASE p \notin ForceStabs \union {"BoussinesqBuoyancyAdjointStabilization"}
    <2>1. AsksForValues(ClassOf(k, p))
      BY <1>3, <1>4, ClassesAskForValues
    <2> QED BY <1>1, <1>3, <2>1 DEF AsksForValues
  <1>5. CASE p \in ForceStabs \union {"BoussinesqBuoyancyAdjointStabilization"}
    <2>1. q[1] \in {"u", "p"}
      <3>1. ClassOf(k, p).requests \in {ForceStabRequests, BuoyancyStabRequests}
        BY <1>5 DEF ForceStabs, ClassOf, ForceStabClass, FlowClass,
            BuoyancyClass,
                    Class
      <3> QED BY <1>3, <3>1 DEF ForceStabRequests, BuoyancyStabRequests,
          Hessians
    <2>2. PICK f \in Listed(k) :
            f \in FlowStabs \union {"IncompressibleNavierStokes"}
      <3>1. CASE p \in ForceStabs
        BY <1>3, <3>1 DEF RequestsHaveOwners
      <3>2. CASE p = "BoussinesqBuoyancyAdjointStabilization"
        BY <1>3, <3>2, ListsAreAccepted DEF IsConsistent, Required, NeedsFlow
      <3> QED BY <1>5, <3>1, <3>2
    <2>3. FlowRequests \subseteq ClassOf(k, f).requests
      BY <2>2 DEF FlowStabs, ClassOf, AdjointStabClass, SPGSMStabClass,
          FlowClass,
                  NavierStokesClass, Class, FlowStabRequests
    <2>4. <<"u", "phi">> \in FlowRequests /\ <<"p", "phi">> \in FlowRequests
      BY DEF FlowRequests, Gradients, Phi
    <2> QED BY <1>1, <2>1, <2>2, <2>3, <2>4
  <1> QED BY <1>4, <1>5

\* ... and for the derivatives that it uses.
LEMMA ListsAskForDerivatives ==
  ASSUME NEW k \in Configs, RequestsHaveOwners(k),
         NEW p \in Listed(k), NEW h \in DOMAIN ClassOf(k, p).terms,
         NEW s \in ClassOf(k, p).terms[h].shapes, s[2] # "phi"
  PROVE  s[2] \in KindsAsked(k, s[1])
  <1>1. ASSUME NEW f \in Listed(k), NEW r \in ClassOf(k, f).requests
        PROVE  r \in AllRequests(k)
    BY <1>1, PhysicsAreClasses, ListIsListed DEF AllRequests
  <1>2. ASSUME NEW a \in ClassOf(k, p).adds
        PROVE  a \in AllAdds(k)
    BY <1>2, PhysicsAreClasses, ListIsListed DEF AllAdds
  <1>3. ASSUME NEW v, NEW w, Alike(ClassOf(k, p).adds, v, w)
        PROVE  SameType(k, v, w)
    BY <1>2, <1>3 DEF Alike, SameType
  <1>4. SUFFICES \E v : <<v, s[2]>> \in AllRequests(k) /\ SameType(k, v, s[1])
    <2>1. PICK v : <<v, s[2]>> \in AllRequests(k) /\ SameType(k, v, s[1])
      BY <1>4
    <2> DEFINE r == <<v, s[2]>>
    <2>2. r \in {q \in AllRequests(k) : SameType(k, q[1], s[1])}
      BY <2>1
    <2> QED BY <2>2 DEF KindsAsked
  <1>5. CASE p # UsesGradientsOfOthers
    <2>1. AsksForDerivatives(ClassOf(k, p))
      BY <1>5, PhysicsAreClasses, ClassesAskForDerivatives
    <2>2. PICK v : <<v, s[2]>> \in ClassOf(k, p).requests
                   /\ Alike(ClassOf(k, p).adds, v, s[1])
      BY <2>1 DEF AsksForDerivatives
    <2> QED BY <1>1, <1>3, <2>2
  <1>6. CASE p = UsesGradientsOfOthers
    <2>1. s \in {<<"u", "dphi">>, <<"p", "dphi">>}
      BY <1>6, Shapes, NoJacobianYetIs
         DEF UsesGradientsOfOthers, ClassOf, BuoyancyClass, Class,
             BuoyancySPGSMTime, BuoyancySPGSMConstraint
    <2>2. PICK f \in Listed(k) :
            f \in FlowStabs \union ForceStabs
                    \union {"BoussinesqBuoyancyAdjointStabilization"}
      BY <1>6 DEF RequestsHaveOwners
    <2>3. ClassOf(k, f).requests
            \in {FlowStabRequests, ForceStabRequests, BuoyancyStabRequests}
      BY <2>2 DEF FlowStabs, ForceStabs, ClassOf, AdjointStabClass,
                  SPGSMStabClass, FlowClass, ForceStabClass, BuoyancyClass, Class
    <2>4. s \in ClassOf(k, f).requests
      BY <2>1, <2>3 DEF FlowStabRequests, FlowRequests, ForceStabRequests,
                        BuoyancyStabRequests, Gradients, Hessians
    <2>5. s = <<s[1], s[2]>> /\ s[1] \in {"u", "p"}
      BY <2>1
    <2>6. /\ Alike(HeatTransferVars(k), "u", "u")
          /\ Alike(HeatTransferVars(k), "p", "p")
      <3>1. "u" \in Velocity(k)
        BY DEF Velocity
      <3> QED BY <3>1, AlikeAdded
    <2>7. ClassOf(k, p).adds = HeatTransferVars(k)
      BY <1>6 DEF UsesGradientsOfOthers, ClassOf, BuoyancyClass, Class
    <2> QED BY <1>1, <1>3, <2>2, <2>4, <2>5, <2>6, <2>7
  <1> QED BY <1>5, <1>6

\* In company, every list asks for the shape functions that it uses.
LEMMA ListsAskForAll ==
  ASSUME NEW k \in Configs, RequestsHaveOwners(k)
  PROVE  RequestsSuffice(k)
  <1> SUFFICES ASSUME NEW i \in DOMAIN k.list, NEW h \in HookNames(k),
                      NEW s \in Terms(k, k.list[i], h).shapes,
                      KindsAsked(k, s[1]) # {}
               PROVE  s[2] \in KindsAsked(k, s[1])
    BY DEF RequestsSuffice
  <1> DEFINE p == k.list[i]
  <1>1. p \in Listed(k)
    BY ListIsListed
  <1>2. Terms(k, p, h) = TermOf(k, p, h)
    BY <1>1, PhysicsAreClasses
  <1>3. h \in DOMAIN ClassOf(k, p).terms /\ s \in ClassOf(k, p).terms[h].shapes
    BY <1>2, TermsAreOfClasses
  <1> HIDE DEF p
  <1>4. CASE s[2] = "phi"
    <2>1. PICK q \in AllRequests(k) : SameType(k, q[1], s[1])
      BY DEF KindsAsked
    <2> DEFINE r == <<q[1], "phi">>
    <2>2. r \in {o \in AllRequests(k) : SameType(k, o[1], s[1])}
      BY <2>1, ListsAskForValues
    <2> QED BY <1>4, <2>2 DEF KindsAsked
  <1>5. CASE s[2] # "phi"
    BY <1>1, <1>3, <1>5, ListsAskForDerivatives
  <1> QED BY <1>4, <1>5

\* In company, every list reads the rates of what it marches, or stops.
LEMMA ListsReadRates ==
  ASSUME NEW k \in Configs, RatesHaveOwners(k)
  PROVE  RatesAreRead(k)
  <1> DEFINE Read(v) ==
        \E j \in DOMAIN k.list : \E n \in DOMAIN Hooks(k).element :
          LET term == Terms(k, k.list[j], Hooks(k).element[n])
          IN \/ \E e \in term.reads : e[1] = v /\ e[3] = "rate"
             \/ term.stops = "always"
  <1> SUFFICES ASSUME k.scheme # "steady",
                      NEW i \in DOMAIN k.list, NEW v \in Evolves(k, k.list[i])
               PROVE  \/ \E a \in Adds(k, k.list[i]) : a[1] = v /\ a[2] = "scalar"
                      \/ Read(v)
    BY DEF RatesAreRead
  <1>1. PICK m \in DOMAIN Hooks(k).element : Hooks(k).element[m] = "mass_residual"
    BY ElementHooksAre DEF ElementHooks3
  <1>2. "mass_residual" \in HookNames(k)
    BY <1>1 DEF HookNames, Kinds
  <1>3. ASSUME NEW f \in Listed(k),
               \/ ReadsRate(k, f, v)
               \/ TermOf(k, f, "mass_residual").stops = "always"
        PROVE  Read(v)
    <2>1. PICK j \in DOMAIN k.list : k.list[j] = f
      BY ListIsListed
    <2>2. Terms(k, f, "mass_residual") = TermOf(k, f, "mass_residual")
      BY <1>2, PhysicsAreClasses
    <2>3. CASE ReadsRate(k, f, v)
      <3>1. PICK w : <<v, w, "rate">> \in TermOf(k, f, "mass_residual").reads
        BY <2>3 DEF ReadsRate
      <3> QED BY <1>1, <2>1, <2>2, <3>1
    <2>4. CASE TermOf(k, f, "mass_residual").stops = "always"
      BY <1>1, <2>1, <2>2, <2>4
    <2> QED BY <1>3, <2>3, <2>4
  <1> HIDE DEF Read
  <1> DEFINE p == k.list[i]
             cl == ClassOf(k, p)
  <1>4. /\ p \in Listed(k) /\ p \in AllPhysics /\ v \in cl.evolves
        /\ Adds(k, p) = cl.adds
    BY PhysicsAreClasses, ListIsListed
  <1> HIDE DEF p, cl
  <1>5. CASE Listed(k) \intersect StopInTime # {}
    <2>1. PICK f \in Listed(k) : f \in StopInTime
      BY <1>5
    <2>2. TermOf(k, f, "mass_residual").stops = "always"
      BY <2>1 DEF StopInTime, TermOf, ClassOf, SolidClass, ReactingClass, Class,
                  SolidMass, NotImplemented, Term
    <2> QED BY <1>3, <2>2
  <1>6. CASE Listed(k) \intersect StopInTime = {}
    <2>1. CASE p \notin StopInTime \union MarchFlowOfOthers
                          \union LowMachStabs \union MarchSolidOfOthers
      <3>1. MarchesOwn(k, p)
        BY <1>4, <2>1, ClassesMarchOwn
      <3>2. CASE <<v, "scalar">> \in cl.adds
        <4> DEFINE a == <<v, "scalar">>
        <4>1. a \in Adds(k, k.list[i]) /\ a[1] = v /\ a[2] = "scalar"
          BY <1>4, <3>2 DEF p
        <4> QED BY <4>1
      <3>3. CASE ReadsRate(k, p, v)
        BY <1>3, <1>4, <3>3
      <3> QED BY <1>4, <3>1, <3>2, <3>3 DEF MarchesOwn, cl
    <2>2. CASE p \in MarchFlowOfOthers
      <3>1. PICK f \in Listed(k) : f \in ReadRatesOfFlow
        BY <1>4, <1>6, <2>2 DEF RatesHaveOwners
      <3>2. CASE v \in Velocity(k)
        BY <1>3, <3>1, <3>2, FlowReadsRates
      <3>3. CASE v \notin Velocity(k)
        <4>1. p = "AveragedTurbine" /\ v = "fan_speed"
          BY <1>4, <2>2, <3>3
             DEF MarchFlowOfOthers, ForceStabs, cl, ClassOf, ForceClass,
                 ForceStabClass, TurbineClass, FlowClass, Class, FlowEvolves,
                 TurbineEvolves
        <4> DEFINE a == <<"fan_speed", "scalar">>
        <4>2. a \in cl.adds /\ a[1] = "fan_speed" /\ a[2] = "scalar"
          BY <4>1 DEF cl, ClassOf, TurbineClass, Class, TurbineVars
        <4> QED BY <1>4, <4>1, <4>2 DEF p
      <3> QED BY <3>2, <3>3
    <2>3. CASE p \in LowMachStabs
      <3>1. "LowMachNavierStokes" \in Listed(k)
        BY <1>4, <1>6, <2>3 DEF RatesHaveOwners
      <3>2. v \in LowMachEvolves(k)
        BY <1>4, <2>3 DEF LowMachStabs, cl, ClassOf, LowMachStabClass,
                          LowMachClass, Class
      <3> QED BY <1>3, <3>1, <3>2, LowMachReadsRates
    <2> QED BY <1>4, <1>6, <2>1, <2>2, <2>3 DEF RatesHaveOwners
  <1> QED BY <1>5, <1>6

--------------------------------------------------------------------------
(* The equations of the program's physics.                                 *)

\* A physics has an equation for an unknown.
Solves(k, p, x) ==
  \E h \in Residuals : \E e \in TermOf(k, p, h).reads : e[1] = x

\* The equations of a list are those of its physics.
LEMMA EquationsAreSolved ==
  ASSUME NEW k, NEW list, NEW x
  PROVE  x \in Equations(k, list) <=> \E p \in list : Solves(k, p, x)
  BY DEF Equations, Solves

\* The unknowns of a list are those that its physics add.
LEMMA UnknownsAreNames ==
  ASSUME NEW k, NEW list, NEW x
  PROVE  x \in Unknowns(k, list) <=>
           \E p \in list : x \in NamesOf(ClassOf(k, p).adds)
  BY DEF Unknowns, NamesOf, AddsOf

\* The rows of the sets of dependences.
LEMMA RowsAre ==
  \A R, C, x :
    /\ (\E e \in Value(R, C) : e[1] = x) <=> x \in R /\ C # {}
    /\ (\E e \in OwnValue(R) : e[1] = x) <=> x \in R
  <1> TAKE R, C, x
  <1>1. ASSUME x \in R, NEW y \in C PROVE \E e \in Value(R, C) : e[1] = x
    <2> DEFINE e == <<x, y, "value">>
    <2>1. e \in Value(R, C) /\ e[1] = x
      BY <1>1 DEF Value
    <2> QED BY <2>1
  <1>2. ASSUME NEW e \in Value(R, C) PROVE e[1] \in R /\ C # {}
    BY <1>2 DEF Value
  <1>3. ASSUME x \in R PROVE \E e \in OwnValue(R) : e[1] = x
    <2> DEFINE e == <<x, x, "value">>
    <2>1. e \in OwnValue(R) /\ e[1] = x
      BY <1>3 DEF OwnValue
    <2> QED BY <2>1
  <1>4. ASSUME NEW e \in OwnValue(R) PROVE e[1] \in R
    BY <1>4 DEF OwnValue
  <1> QED BY <1>1, <1>2, <1>3, <1>4

\* The flow, its stabilizations and those of the forces have an equation for
\* each velocity and for the pressure.
FlowSolvers ==
  {"IncompressibleNavierStokes", "Stokes"} \union FlowStabs \union ForceStabs

\* They have an equation for every unknown of the flow.
LEMMA FlowIsSolved ==
  ASSUME NEW k, NEW p \in FlowSolvers, NEW x \in Flow(k)
  PROVE  Solves(k, p, x)
  <1> DEFINE time(q) == TermOf(k, q, "element_time_derivative")
             constraint(q) == TermOf(k, q, "element_constraint")
  <1>1. Velocity(k) # {} /\ Flow(k) # {}
    BY DEF Velocity, Flow
  <1>2. SUFFICES /\ \A v \in Velocity(k) : \E e \in time(p).reads : e[1] = v
                 /\ \E e \in constraint(p).reads : e[1] = "p"
    BY DEF Solves, Residuals, Flow
  <1>3. CASE p = "IncompressibleNavierStokes"
    <2>1. /\ time(p) = NavierStokesTime(k)
          /\ constraint(p) = NavierStokesConstraint(k)
      BY <1>3 DEF TermOf, ClassOf, NavierStokesClass, Class
    <2>2. /\ \A v \in Velocity(k) : \E e \in NavierStokesTime(k).reads : e[1] = v
          /\ \E e \in NavierStokesConstraint(k).reads : e[1] = "p"
      BY <1>1, RowsAre DEF NavierStokesTime, NavierStokesConstraint, Term
    <2> QED BY <2>1, <2>2
  <1>4. CASE p = "IncompressibleNavierStokesAdjointStabilization"
    <2>1. time(p) = AdjointStabTime(k) /\ constraint(p) = AdjointStabConstraint(k)
      BY <1>4 DEF TermOf, ClassOf, AdjointStabClass, FlowClass, Class
    <2>2. /\ \A v \in Velocity(k) : \E e \in AdjointStabTime(k).reads : e[1] = v
          /\ \E e \in AdjointStabConstraint(k).reads : e[1] = "p"
      BY <1>1, RowsAre DEF AdjointStabTime, AdjointStabConstraint, Term
    <2> QED BY <2>1, <2>2
  <1>5. CASE p = "IncompressibleNavierStokesSPGSMStabilization"
    <2>1. time(p) = SPGSMStabTime(k) /\ constraint(p) = SPGSMStabConstraint(k)
      BY <1>5 DEF TermOf, ClassOf, SPGSMStabClass, FlowClass, Class
    <2>2. /\ \A v \in Velocity(k) : \E e \in SPGSMStabTime(k).reads : e[1] = v
          /\ \E e \in SPGSMStabConstraint(k).reads : e[1] = "p"
      BY NoJacobianYetIs, <1>1, RowsAre DEF SPGSMStabTime, SPGSMStabConstraint,
          Term
    <2> QED BY <2>1, <2>2
  <1>6. CASE p = "Stokes"
    <2>1. time(p) = StokesTime(k) /\ constraint(p) = StokesConstraint(k)
      BY <1>6 DEF TermOf, ClassOf, StokesClass, Class
    <2>2. /\ \A v \in Velocity(k) : \E e \in StokesTime(k).reads : e[1] = v
          /\ \E e \in StokesConstraint(k).reads : e[1] = "p"
      BY <1>1, RowsAre DEF StokesTime, StokesConstraint, Term
    <2> QED BY <2>1, <2>2
  <1>7. CASE p = "AveragedFanAdjointStabilization"
    <2>1. time(p) = FanStabTime(k) /\ constraint(p) = FanStabConstraint(k)
      BY <1>7 DEF TermOf, ClassOf, ForceStabClass, FlowClass, Class
    <2>2. /\ \A v \in Velocity(k) : \E e \in FanStabTime(k).reads : e[1] = v
          /\ \E e \in FanStabConstraint(k).reads : e[1] = "p"
      BY <1>1, RowsAre DEF FanStabTime, FanStabConstraint, ForceStabTime,
          ForceStabConstraint, Term
    <2> QED BY <2>1, <2>2
  <1>8. CASE p = "VelocityDragAdjointStabilization"
    <2>1. time(p) = DragStabTime(k) /\ constraint(p) = DragStabConstraint(k)
      BY <1>8 DEF TermOf, ClassOf, ForceStabClass, FlowClass, Class
    <2>2. /\ \A v \in Velocity(k) : \E e \in DragStabTime(k).reads : e[1] = v
          /\ \E e \in DragStabConstraint(k).reads : e[1] = "p"
      BY <1>1, RowsAre DEF DragStabTime, DragStabConstraint, ForceStabTime,
          ForceStabConstraint, Term
    <2> QED BY <2>1, <2>2
  <1>9. CASE p = "VelocityPenaltyAdjointStabilization"
    <2>1. time(p) = PenaltyStabTime(k) /\ constraint(p) = PenaltyStabConstraint(k)
      BY <1>9 DEF TermOf, ClassOf, ForceStabClass, FlowClass, Class
    <2>2. /\ \A v \in Velocity(k) : \E e \in PenaltyStabTime(k).reads : e[1] = v
          /\ \E e \in PenaltyStabConstraint(k).reads : e[1] = "p"
      BY <1>1, RowsAre DEF PenaltyStabTime, PenaltyStabConstraint,
          ForceStabTime, ForceStabConstraint, Term
    <2> QED BY <2>1, <2>2
  <1> HIDE DEF time, constraint
  <1> QED BY <1>3, <1>4, <1>5, <1>6, <1>7, <1>8, <1>9 DEF FlowSolvers,
      FlowStabs, ForceStabs

\* The low Mach flows have an equation for every unknown but, where they are
\* reacting or stabilizations, the thermodynamic pressure.
LowMachSolvers == {"LowMachNavierStokes"} \union LowMachStabs

\* They have one for every other unknown.
LEMMA LowMachIsSolved ==
  ASSUME NEW k, NEW p \in LowMachSolvers, NEW x \in Flow(k) \union {"T"}
  PROVE  Solves(k, p, x)
  <1> DEFINE time(q) == TermOf(k, q, "element_time_derivative")
  <1>1. Velocity(k) # {} /\ Flow(k) # {} /\ LowMachUnknowns(k) # {}
    BY DEF Velocity, Flow, LowMachUnknowns
  <1>2. SUFFICES \E e \in time(p).reads : e[1] = x
    BY DEF Solves, Residuals
  <1>3. CASE p = "LowMachNavierStokes"
    <2>1. time(p) = LowMachTime(k)
      BY <1>3 DEF TermOf, ClassOf, LowMachClass, Class
    <2>2. LowMachTime(k).reads =
            (LowMachContinuity(k).reads \union LowMachMomentum(k).reads)
              \union (LowMachEnergy(k).reads \union
                       (IF k.p0 THEN LowMachThermo(k) ELSE NoTerm).reads)
      BY DEF LowMachTime, Cached, Together, Term
    <2>3. /\ \E e \in LowMachContinuity(k).reads : e[1] = "p"
          /\ \A v \in Velocity(k) : \E e \in LowMachMomentum(k).reads : e[1] = v
          /\ \E e \in LowMachEnergy(k).reads : e[1] = "T"
      BY <1>1, RowsAre
         DEF LowMachContinuity, LowMachMomentum, LowMachEnergy, Term
    <2> QED BY <2>1, <2>2, <2>3 DEF Flow
  <1>4. CASE p \in LowMachStabs
    <2>1. \A energy : \E e \in LowMachStabRows(k, energy) : e[1] = x
      <3>1. /\ x \in Flow(k) =>
                 \E e \in Value(Flow(k), LowMachUnknowns(k) \union {"p"}) :
                   e[1] = x
            /\ x = "T" => \A energy :
                 \E e \in Value({"T"}, LowMachUnknowns(k) \union energy) :
                   e[1] = x
        BY <1>1, RowsAre
      <3> QED BY <3>1 DEF LowMachStabRows
    <2>2. \E energy : time(p).reads = LowMachStabRows(k, energy)
      <3>1. time(p) \in {BraackTime(k), LowMachSPGSMTime(k), VMSTime(k)}
        BY <1>4 DEF LowMachStabs, TermOf, ClassOf, LowMachStabClass,
                    LowMachClass, Class
      <3> QED BY <3>1 DEF BraackTime, LowMachSPGSMTime, VMSTime, Term
    <2> QED BY <2>1, <2>2
  <1> QED BY <1>3, <1>4 DEF LowMachSolvers

\* The low Mach flow has one for the thermodynamic pressure.
LEMMA PressureIsSolved ==
  ASSUME NEW k, NEW x \in ThermoPressure(k)
  PROVE  Solves(k, "LowMachNavierStokes", x)
  <1>1. k.p0 /\ ThermoPressure(k) # {}
    BY DEF ThermoPressure
  <1>2. TermOf(k, "LowMachNavierStokes", "element_time_derivative")
          = LowMachTime(k)
    BY DEF TermOf, ClassOf, LowMachClass, Class
  <1>3. LowMachThermo(k).reads \subseteq LowMachTime(k).reads
    BY <1>1 DEF LowMachTime, Cached, Together, Term
  <1>4. \E e \in LowMachThermo(k).reads : e[1] = x
    BY <1>1, RowsAre DEF LowMachThermo, Term
  <1> QED BY <1>2, <1>3, <1>4 DEF Solves, Residuals

\* The reacting flow has one for each species, the flow and the temperature.
LEMMA ReactingIsSolved ==
  ASSUME NEW k, NEW x \in Species \union Flow(k) \union {"T"}
  PROVE  Solves(k, "ReactingLowMachNavierStokes", x)
  <1>1. TermOf(k, "ReactingLowMachNavierStokes", "element_time_derivative")
          = ReactingTime(k)
    BY DEF TermOf, ClassOf, ReactingClass, Class
  <1>2. ReactingTime(k).reads =
          Value(Flow(k) \union {"T"} \union Species,
                ReactingUnknowns(k) \union {"p"})
    BY CachedButNoJacobian DEF ReactingTime
  <1>3. \E e \in ReactingTime(k).reads : e[1] = x
    BY <1>2, RowsAre
  <1> QED BY <1>1, <1>3 DEF Solves, Residuals

\* Heat, the structures and the scalar have an equation for what they march;
\* the axisymmetric buoyancy has one for the velocities.
LEMMA HeatIsSolved ==
  ASSUME NEW k,
         NEW p \in {"HeatTransfer", "HeatConduction", "AxisymmetricHeatTransfer"}
  PROVE  Solves(k, p, "T")
  <1>1. \E e \in TermOf(k, p, "element_time_derivative").reads : e[1] = "T"
    <2>1. TermOf(k, p, "element_time_derivative")
            \in {HeatTransferTime(k), ConductionTime, AxisymmetricHeatTime}
      BY DEF TermOf, ClassOf, HeatClass, Class
    <2>2. Velocity(k) \union {"T"} # {} /\ AxisVelocity \union {"T"} # {}
      OBVIOUS
    <2>3. \A term \in {HeatTransferTime(k), ConductionTime,
                       AxisymmetricHeatTime} :
            \E e \in term.reads : e[1] = "T"
      BY <2>2, RowsAre
         DEF HeatTransferTime, ConductionTime, AxisymmetricHeatTime, Term
    <2> QED BY <2>1, <2>3
  <1> QED BY <1>1 DEF Solves, Residuals

\* The solids have one for each displacement; the load of the pressure too.
LEMMA SolidIsSolved ==
  ASSUME NEW k,
         NEW p \in {"ElasticCable", "ElasticMembrane",
                    "ElasticMembraneConstantPressure"},
         NEW x \in Displacement
  PROVE  Solves(k, p, x)
  <1>1. \E e \in TermOf(k, p, "element_time_derivative").reads : e[1] = x
    <2>1. TermOf(k, p, "element_time_derivative")
            \in {CableTime, MembraneTime(k), PressureTime}
      BY DEF TermOf, ClassOf, SolidClass, Class
    <2>2. \E e \in CableTime.reads : e[1] = x
      BY RowsAre DEF CableTime, Term
    <2>3. \E e \in MembraneTime(k).reads : e[1] = x
      BY RowsAre DEF MembraneTime, Term
    <2>4. \E e \in PressureTime.reads : e[1] = x
      <3>1. PICK y \in Displacement : y # x
        BY DEF Displacement
      <3>2. <<x, y>> \in Across(Displacement)
        BY <3>1 DEF Across
      <3>3. <<x, y, "value">> \in PressureTime.reads
        BY <3>2 DEF PressureTime, Term
      <3> DEFINE e == <<x, y, "value">>
      <3>4. e \in PressureTime.reads /\ e[1] = x
        BY <3>3
      <3> QED BY <3>4
    <2> QED BY <2>1, <2>2, <2>3, <2>4
  <1> QED BY <1>1 DEF Solves, Residuals

\* The compressible membrane has one for its stretch.
LEMMA StretchIsSolved ==
  ASSUME NEW k, NEW x \in Stretch(k)
  PROVE  Solves(k, "ElasticMembrane", x)
  <1>1. k.compressible /\ x = "lambda_sq"
    BY DEF Stretch
  <1>2. TermOf(k, "ElasticMembrane", "element_constraint")
          = MembraneConstraint(k)
    BY DEF TermOf, ClassOf, SolidClass, Class
  <1>3. \E e \in MembraneConstraint(k).reads : e[1] = x
    BY <1>1, RowsAre, NoJacobianYetIs DEF MembraneConstraint
  <1> QED BY <1>2, <1>3 DEF Solves, Residuals

\* The scalar has its own.
LEMMA ScalarIsSolved ==
  ASSUME NEW k
  PROVE  Solves(k, "ScalarODE", "scalar_var")
  <1>1. TermOf(k, "ScalarODE", "nonlocal_time_derivative") = ScalarTime
    BY DEF TermOf, ClassOf, Class
  <1>2. \E e \in ScalarTime.reads : e[1] = "scalar_var"
    BY RowsAre DEF ScalarTime, Term
  <1> QED BY <1>1, <1>2 DEF Solves, Residuals

\* The axisymmetric buoyancy has one for each component of the velocity.
LEMMA AxisIsSolved ==
  ASSUME NEW k, NEW x \in AxisVelocity
  PROVE  Solves(k, "AxisymmetricBoussinesqBuoyancy", x)
  <1>1. TermOf(k, "AxisymmetricBoussinesqBuoyancy", "element_time_derivative")
          = AxisymmetricBuoyancyTime
    BY DEF TermOf, ClassOf, Class
  <1>2. \E e \in AxisymmetricBuoyancyTime.reads : e[1] = x
    BY RowsAre DEF AxisymmetricBuoyancyTime, Term
  <1> QED BY <1>1, <1>2 DEF Solves, Residuals

\* What the check makes the physics come with.
LEMMA LeastLists ==
  /\ \A p : p \in Least(p)
  /\ \A p \in {"BoussinesqBuoyancy", "HeatTransferSource",
               "HeatTransferAdjointStabilization"} :
       Least(p) = {p, "HeatTransfer", "IncompressibleNavierStokes"}
  /\ \A p \in {"HeatTransfer", "BoussinesqBuoyancyAdjointStabilization"}
               \union FlowStabs :
       Least(p) = {p, "IncompressibleNavierStokes"}
  /\ Least("AxisymmetricBoussinesqBuoyancy")
       = {"AxisymmetricBoussinesqBuoyancy", "AxisymmetricHeatTransfer"}
  /\ \A p : \/ p \in NeedsFlow \union NeedsHeat
            \/ p = "AxisymmetricBoussinesqBuoyancy"
            \/ Least(p) = {p}
  <1> USE DEF Required, NeedsFlow, NeedsHeat
  <1>1. \A list : list \subseteq Requiring(list)
    BY DEF Requiring
  <1>2. ASSUME NEW p PROVE Requiring({p}) = {p} \union Required(p)
    BY DEF Requiring
  <1>3. \A p : p \in Least(p)
    BY <1>1 DEF Least
  <1>4. Required("IncompressibleNavierStokes") = {}
    OBVIOUS
  <1>5. Required("HeatTransfer") = {"IncompressibleNavierStokes"}
    OBVIOUS
  <1>6. Required("AxisymmetricHeatTransfer") = {}
    OBVIOUS
  <1>8. ASSUME NEW p, NEW q, Required(p) = {q}, Required(q) = {}
        PROVE  Least(p) = {p, q}
    <2>1. Requiring({p}) = {p, q}
      BY <1>2, <1>8
    <2>2. Requiring({p, q}) = {p, q}
      <3> HIDE DEF Required
      <3> QED BY <1>8 DEF Requiring
    <2> QED BY <2>1, <2>2 DEF Least
  <1>9. ASSUME NEW p, NEW q, NEW r, {q} \subseteq Required(p),
               Required(p) \subseteq {q, r}, Required(q) = {r}, Required(r) = {}
        PROVE  Least(p) = {p, q, r}
    <2> HIDE DEF Required
    <2>1. Requiring({p}) \in {{p, q}, {p, q, r}}
      BY <1>2, <1>9
    <2>2. Requiring({p, q}) = {p, q, r} /\ Requiring({p, q, r}) = {p, q, r}
      BY <1>9 DEF Requiring
    <2> QED BY <2>1, <2>2 DEF Least
  <1>10. ASSUME NEW p, Required(p) = {}
         PROVE  Least(p) = {p}
    <2> HIDE DEF Required
    <2>1. Requiring({p}) = {p}
      BY <1>2, <1>10
    <2> QED BY <2>1 DEF Least
  <1>11. \A p \in {"BoussinesqBuoyancy", "HeatTransferSource",
                   "HeatTransferAdjointStabilization"} :
           Least(p) = {p, "HeatTransfer", "IncompressibleNavierStokes"}
    <2>1. \A p \in {"BoussinesqBuoyancy", "HeatTransferSource",
                    "HeatTransferAdjointStabilization"} :
            /\ {"HeatTransfer"} \subseteq Required(p)
            /\ Required(p) \subseteq {"HeatTransfer", "IncompressibleNavierStokes"}
      OBVIOUS
    <2> HIDE DEF Required
    <2> QED BY <1>4, <1>5, <1>9, <2>1
  <1>12. \A p \in {"HeatTransfer", "BoussinesqBuoyancyAdjointStabilization"}
                   \union FlowStabs :
           Least(p) = {p, "IncompressibleNavierStokes"}
    <2>1. \A p \in {"HeatTransfer", "BoussinesqBuoyancyAdjointStabilization"}
                    \union FlowStabs :
            Required(p) = {"IncompressibleNavierStokes"}
      BY DEF FlowStabs
    <2> HIDE DEF Required
    <2> QED BY <1>4, <1>8, <2>1
  <1>13. Least("AxisymmetricBoussinesqBuoyancy")
           = {"AxisymmetricBoussinesqBuoyancy", "AxisymmetricHeatTransfer"}
    BY <1>6, <1>8
  <1>14. \A p : \/ p \in NeedsFlow \union NeedsHeat
               \/ p = "AxisymmetricBoussinesqBuoyancy"
               \/ Least(p) = {p}
    BY <1>10
  <1> QED BY <1>3, <1>11, <1>12, <1>13, <1>14

\* Every guarded physics, with what the check makes it come with, has an
\* equation for each unknown but the thermodynamic pressure.
LEMMA GuardedAreSquare ==
  ASSUME NEW k, NEW p \in AllPhysics \ Unguarded
  PROVE  Undetermined(k, Least(p)) \subseteq ThermoPressure(k)
  <1> SUFFICES ASSUME NEW q \in Least(p), NEW x \in NamesOf(ClassOf(k, q).adds),
                      x \notin ThermoPressure(k)
               PROVE  \E o \in Least(p) : Solves(k, o, x)
    BY EquationsAreSolved, UnknownsAreNames DEF Undetermined
  <1> DEFINE Heat == {"BoussinesqBuoyancy", "HeatTransfer", "HeatTransferSource",
                      "HeatTransferAdjointStabilization"}
             FlowOnly == {"IncompressibleNavierStokes"} \union FlowStabs
             Alones == {"Stokes"} \union ForceStabs
  <1>1. ASSUME NEW o \in {"IncompressibleNavierStokes"} \union FlowStabs
                            \union Alones
        PROVE  NamesOf(ClassOf(k, o).adds) = Flow(k) /\ o \in FlowSolvers
    <2>1. ClassOf(k, o).adds \in {FlowVars(k, "Stokes"),
                                   FlowVars(k, "IncompressibleNavierStokes")}
      BY <1>1 DEF FlowStabs, ForceStabs, ClassOf, NavierStokesClass,
          StokesClass,
                  AdjointStabClass, SPGSMStabClass, ForceStabClass, FlowClass,
                  Class
    <2> QED BY <1>1, <2>1, FlowNames DEF FlowSolvers
  <1>2. ASSUME NEW o \in Heat
        PROVE  NamesOf(ClassOf(k, o).adds) \subseteq Flow(k) \union {"T"}
    <2>1. ClassOf(k, o).adds \in {HeatTransferVars(k), TempVar(k, "HeatTransfer")}
      BY <1>2 DEF ClassOf, HeatClass, BuoyancyClass, Class
    <2> QED BY <2>1, HeatTransferNames, TempNames
  <1>3. CASE p \in Heat
    <2>1. /\ "IncompressibleNavierStokes" \in Least(p)
          /\ "HeatTransfer" \in Least(p)
          /\ q \in Heat \union {"IncompressibleNavierStokes"}
      BY <1>3, LeastLists
    <2>2. x \in Flow(k) \union {"T"}
      BY <1>1, <1>2, <2>1
    <2> QED BY <1>1, <2>1, <2>2, FlowIsSolved, HeatIsSolved
  <1>4. CASE p \in FlowOnly
    <2>1. "IncompressibleNavierStokes" \in Least(p) /\ q \in FlowOnly
      <3>1. CASE p = "IncompressibleNavierStokes"
        BY <3>1, LeastLists DEF NeedsFlow, NeedsHeat
      <3>2. CASE p \in FlowStabs
        <4>1. Least(p) = {p, "IncompressibleNavierStokes"}
          BY <3>2, LeastLists
        <4> QED BY <3>2, <4>1
      <3> QED BY <1>4, <3>1, <3>2
    <2> QED BY <1>1, <2>1, FlowIsSolved
  <1>5. CASE p = "AxisymmetricBoussinesqBuoyancy"
    <2>1. "AxisymmetricHeatTransfer" \in Least(p) /\ p \in Least(p)
      BY <1>5, LeastLists
    <2>2. ClassOf(k, q).adds = AxisymmetricVars(k)
      BY <1>5, LeastLists DEF ClassOf, Class
    <2> QED BY <1>5, <2>1, <2>2, AxisymmetricNames, AxisIsSolved, HeatIsSolved
  <1>6. ASSUME p \notin Heat \union FlowOnly,
               p # "AxisymmetricBoussinesqBuoyancy"
        PROVE  q = p /\ p \in Least(p)
    BY <1>6, LeastLists DEF NeedsFlow, NeedsHeat, FlowStabs, Unguarded
  <1>7. CASE p \in Alones
    <2>1. q = p /\ p \in Least(p)
      BY <1>6, <1>7 DEF ForceStabs, FlowStabs
    <2> QED BY <1>1, <1>7, <2>1, FlowIsSolved
  <1>8. CASE p \in LowMachSolvers
    <2>1. q = p /\ p \in Least(p)
      BY <1>6, <1>8 DEF LowMachSolvers, LowMachStabs, FlowStabs
    <2>2. ClassOf(k, p).adds = LowMachVars(k)
      BY <1>8 DEF LowMachSolvers, LowMachStabs, ClassOf, LowMachStabClass,
                  LowMachClass, Class
    <2> QED BY <1>8, <2>1, <2>2, LowMachNames,
        LowMachIsSolved DEF LowMachEvolves
  <1>9. CASE p = "ReactingLowMachNavierStokes"
    <2>1. q = p /\ p \in Least(p)
      BY <1>6, <1>9 DEF FlowStabs
    <2>2. ClassOf(k, p).adds = ReactingVars(k)
      BY <1>9 DEF ClassOf, ReactingClass, Class
    <2> QED BY <1>9, <2>1, <2>2, ReactingNames, ReactingIsSolved
            DEF ReactingEvolves
  <1>10. CASE p \in {"ElasticCable", "ElasticMembrane",
                     "ElasticMembraneConstantPressure"}
    <2>1. q = p /\ p \in Least(p)
      BY <1>6, <1>10 DEF FlowStabs
    <2>2. \/ \E s : ClassOf(k, p).adds = DisplacementVars(k, s)
          \/ p = "ElasticMembrane" /\ ClassOf(k, p).adds = MembraneVars(k)
      BY <1>10 DEF ClassOf, SolidClass, Class
    <2> QED BY <1>10, <2>1, <2>2, DisplacementNames, MembraneNames,
               SolidIsSolved, StretchIsSolved
  <1>11. CASE p = "HeatConduction"
    <2>1. q = p /\ p \in Least(p)
      BY <1>6, <1>11 DEF FlowStabs
    <2>2. ClassOf(k, p).adds = TempVar(k, "HeatConduction")
      BY <1>11 DEF ClassOf, Class
    <2> QED BY <1>11, <2>1, <2>2, TempNames, HeatIsSolved
  <1>12. CASE p = "ScalarODE"
    <2>1. q = p /\ p \in Least(p)
      BY <1>6, <1>12 DEF FlowStabs
    <2>2. ClassOf(k, p).adds = ScalarVars
      BY <1>12 DEF ClassOf, Class
    <2> QED BY <1>12, <2>1, <2>2, ScalarNames, ScalarIsSolved
  <1> QED BY NamesOfPhysics, <1>3, <1>4, <1>5, <1>7, <1>8, <1>9, <1>10, <1>11,
             <1>12
          DEF Unguarded, FlowStabs, ForceStabs, LowMachSolvers, LowMachStabs

\* A physics that nobody guards brings an unknown without an equation: the
\* forces the pressure, the axisymmetric temperature a velocity, the
\* stabilized buoyancy the temperature, gravity on a cable its displacement
\* and the stabilized temperature the velocity.
LEMMA UnguardedAreNot ==
  ASSUME NEW k, NEW p \in Unguarded
  PROVE  Undetermined(k, Least(p)) \ ThermoPressure(k) # {}
  <1> DEFINE Needs(x) == /\ x \in NamesOf(ClassOf(k, p).adds)
                         /\ x # "p0"
                         /\ \A q \in Least(p) : ~Solves(k, q, x)
  <1>1. SUFFICES \E x : Needs(x)
    <2>1. PICK x : Needs(x)
      BY <1>1
    <2>2. x \in Undetermined(k, Least(p))
      BY <2>1, LeastLists, EquationsAreSolved, UnknownsAreNames DEF Undetermined
    <2>3. x \notin ThermoPressure(k)
      BY <2>1 DEF ThermoPressure
    <2> QED BY <2>2, <2>3
  <1>2. ASSUME NEW q, NEW x,
               \A h \in Residuals : \A e \in TermOf(k, q, h).reads : e[1] # x
        PROVE  ~Solves(k, q, x)
    BY <1>2 DEF Solves
  <1> USE Dependences, OwnDependences
  <1>3. CASE p \in {"AveragedFan", "AveragedTurbine", "VelocityDrag",
                    "VelocityPenalty"}
    <2>1. "p" \in NamesOf(ClassOf(k, p).adds)
      <3>1. \/ \E s : ClassOf(k, p).adds = FlowVars(k, s)
            \/ ClassOf(k, p).adds = TurbineVars(k)
        BY <1>3 DEF ClassOf, ForceClass, FlowClass, TurbineClass, Class
      <3> QED BY <3>1, FlowNames, TurbineNames DEF Flow
    <2>2. Least(p) = {p}
      BY <1>3, LeastLists DEF NeedsFlow, NeedsHeat
    <2>3. ~Solves(k, p, "p")
      <3>1. CASE p = "AveragedTurbine"
        <4>1. \A h \in Residuals :
                TermOf(k, p, h) \in {TurbineTime(k), TurbineSpeedTime, NoTerm}
          BY <3>1 DEF Residuals, TermOf, ClassOf, TurbineClass, Class
        <4>2. \A term \in {TurbineTime(k), TurbineSpeedTime, NoTerm} :
                \A e \in term.reads : e[1] # "p"
          BY DEF TurbineTime, TurbineUnknowns, Velocity, TurbineSpeedTime,
                 NoTerm, Term
        <4> QED BY <1>2, <4>1, <4>2
      <3>2. CASE p # "AveragedTurbine"
        <4>1. \A h \in Residuals : TermOf(k, p, h) \in {ForceTime(k), NoTerm}
          BY <1>3, <3>2
             DEF Residuals, TermOf, ClassOf, ForceClass, FlowClass, Class,
                 FanTime, DragTime, PenaltyTime
        <4>2. \A term \in {ForceTime(k), NoTerm} : \A e \in term.reads : e[1] # "p"
          BY DEF ForceTime, Velocity, NoTerm, Term
        <4> QED BY <1>2, <4>1, <4>2
      <3> QED BY <3>1, <3>2
    <2>4. Needs("p")
      BY <2>1, <2>2, <2>3
    <2> QED BY <2>4
  <1>4. CASE p = "AxisymmetricHeatTransfer"
    <2>1. "r_vel" \in NamesOf(ClassOf(k, p).adds)
      BY <1>4, AxisymmetricNames DEF ClassOf, Class, AxisVelocity
    <2>2. Least(p) = {p}
      BY <1>4, LeastLists DEF NeedsFlow, NeedsHeat
    <2>3. \A h \in Residuals :
            TermOf(k, p, h) \in {AxisymmetricHeatTime, NoTerm}
      BY <1>4 DEF Residuals, TermOf, ClassOf, Class
    <2>4. \A term \in {AxisymmetricHeatTime, NoTerm} :
            \A e \in term.reads : e[1] # "r_vel"
      BY DEF AxisymmetricHeatTime, NoTerm, Term
    <2>5. Needs("r_vel")
      BY <1>2, <2>1, <2>2, <2>3, <2>4
    <2> QED BY <2>5
  <1>5. CASE p = "BoussinesqBuoyancyAdjointStabilization"
    <2>1. "T" \in NamesOf(ClassOf(k, p).adds)
      BY <1>5, HeatTransferNames DEF ClassOf, BuoyancyClass, Class
    <2>2. Least(p) = {p, "IncompressibleNavierStokes"}
      BY <1>5, LeastLists
    <2> DEFINE these == {BuoyancyStabTime(k), BuoyancyStabConstraint(k),
                         NavierStokesTime(k), NavierStokesConstraint(k), NoTerm}
    <2>3. \A q \in Least(p), h \in Residuals : TermOf(k, q, h) \in these
      BY <1>5, <2>2 DEF Residuals, TermOf, ClassOf, BuoyancyClass,
                        NavierStokesClass, Class
    <2>4. \A term \in these : \A e \in term.reads : e[1] # "T"
      BY DEF BuoyancyStabTime, BuoyancyStabConstraint, NavierStokesTime,
             NavierStokesConstraint, Velocity, NoTerm, Term
    <2>5. Needs("T")
      BY <1>2, <2>1, <2>3, <2>4
    <2> QED BY <2>5
  <1>6. CASE p = "BoussinesqBuoyancySPGSMStabilization"
    <2>1. "T" \in NamesOf(ClassOf(k, p).adds)
      BY <1>6, HeatTransferNames DEF ClassOf, BuoyancyClass, Class
    <2>2. Least(p) = {p}
      BY <1>6, LeastLists DEF NeedsFlow, NeedsHeat
    <2> DEFINE these == {BuoyancySPGSMTime(k), BuoyancySPGSMConstraint(k), NoTerm}
    <2>3. \A h \in Residuals : TermOf(k, p, h) \in these
      BY <1>6 DEF Residuals, TermOf, ClassOf, BuoyancyClass, Class
    <2>4. \A term \in these : \A e \in term.reads : e[1] # "T"
      BY NoJacobianYetIs
         DEF BuoyancySPGSMTime, BuoyancySPGSMConstraint, Velocity, NoTerm, Term
    <2>5. Needs("T")
      BY <1>2, <2>1, <2>2, <2>3, <2>4
    <2> QED BY <2>5
  <1>7. CASE p = "ElasticCableConstantGravity"
    <2>1. "u" \in NamesOf(ClassOf(k, p).adds)
      BY <1>7, DisplacementNames DEF ClassOf, SolidClass, Class, Displacement
    <2>2. Least(p) = {p}
      BY <1>7, LeastLists DEF NeedsFlow, NeedsHeat
    <2>3. \A h \in Residuals : TermOf(k, p, h).reads = {}
      BY <1>7 DEF Residuals, TermOf, ClassOf, SolidClass, Class, GravityTime,
                  NoTerm, Term
    <2>4. Needs("u")
      BY <1>2, <2>1, <2>2, <2>3
    <2> QED BY <2>4
  <1>8. CASE p = "HeatTransferSPGSMStabilization"
    <2>1. "u" \in NamesOf(ClassOf(k, p).adds)
      BY <1>8, HeatTransferNames DEF ClassOf, HeatClass, Class, Flow, Velocity
    <2>2. Least(p) = {p}
      BY <1>8, LeastLists DEF NeedsFlow, NeedsHeat
    <2>3. \A h \in Residuals : TermOf(k, p, h) \in {HeatSPGSMTime(k), NoTerm}
      BY <1>8 DEF Residuals, TermOf, ClassOf, HeatClass, Class
    <2>4. \A term \in {HeatSPGSMTime(k), NoTerm} :
            \A e \in term.reads : e[1] # "u"
      BY NoJacobianYetIs DEF HeatSPGSMTime, NoTerm, Term
    <2>5. Needs("u")
      BY <1>2, <2>1, <2>2, <2>3, <2>4
    <2> QED BY <2>5
  <1> QED BY <1>3, <1>4, <1>5, <1>6, <1>7, <1>8 DEF Unguarded

\* The low Mach flow solves for its thermodynamic pressure.
LEMMA LowMachIsSquare ==
  ASSUME NEW k
  PROVE  "p0" \notin Undetermined(k, {"LowMachNavierStokes"})
  <1>1. ASSUME "p0" \in Unknowns(k, {"LowMachNavierStokes"})
        PROVE  Solves(k, "LowMachNavierStokes", "p0")
    <2>1. "p0" \in NamesOf(LowMachVars(k))
      <3>1. ClassOf(k, "LowMachNavierStokes").adds = LowMachVars(k)
        BY DEF ClassOf, LowMachClass, Class
      <3> QED BY <1>1, <3>1, UnknownsAreNames
    <2>2. "p0" \in ThermoPressure(k)
      BY <2>1, LowMachNames DEF LowMachEvolves, Flow, Velocity
    <2> QED BY <2>2, PressureIsSolved
  <1>2. Solves(k, "LowMachNavierStokes", "p0")
          => "p0" \in Equations(k, {"LowMachNavierStokes"})
    BY EquationsAreSolved
  <1> QED BY <1>1, <1>2 DEF Undetermined

--------------------------------------------------------------------------
(* The exceptions are ones: what they lack.                                *)

\* The residual functions an element has in time.
LEMMA HooksOfElement ==
  ASSUME NEW k
  PROVE  /\ \E n \in DOMAIN Hooks(k)["element"] :
              Hooks(k)["element"][n] = "element_time_derivative"
         /\ \E n \in DOMAIN Hooks(k)["element"] :
              Hooks(k)["element"][n] = "element_constraint"
         /\ k.scheme # "steady" =>
              \E n \in DOMAIN Hooks(k)["element"] :
                Hooks(k)["element"][n] = "mass_residual"
         /\ {"element_time_derivative", "element_constraint"} \subseteq HookNames(k)
         /\ k.scheme # "steady" => "mass_residual" \in HookNames(k)
  <1>1. /\ \E n \in DOMAIN Hooks(k)["element"] :
             Hooks(k)["element"][n] = "element_time_derivative"
        /\ \E n \in DOMAIN Hooks(k)["element"] :
             Hooks(k)["element"][n] = "element_constraint"
        /\ k.scheme # "steady" =>
             \E n \in DOMAIN Hooks(k)["element"] :
               Hooks(k)["element"][n] = "mass_residual"
    BY ElementHooksAre DEF ElementHooks3, MassHooks
  <1> QED BY <1>1 DEF HookNames, Kinds

\* The stabilized fan in two dimensions does not keep to its variables.
LEMMA FanOverreaches ==
  ASSUME NEW k \in Configs, Listed(k) \intersect Overreaching(k) # {}
  PROVE  ~TouchesOwn(k)
  <1> DEFINE p == "AveragedFanAdjointStabilization"
             term == Terms(k, p, "element_constraint")
             e == <<"p", "w", "value">>
  <1>1. k.dim # 3 /\ p \in Listed(k)
    BY DEF Overreaching
  <1>2. PICK i \in DOMAIN k.list : k.list[i] = p
    BY <1>1, ListIsListed
  <1>3. term = FanStabConstraint(k) /\ Adds(k, p) = ClassOf(k, p).adds
    <2>1. /\ term = TermOf(k, p, "element_constraint")
          /\ Adds(k, p) = ClassOf(k, p).adds
      BY <1>1, HooksOfElement, PhysicsAreClasses
    <2>2. TermOf(k, p, "element_constraint") = FanStabConstraint(k)
      BY DEF TermOf, ClassOf, ForceStabClass, FlowClass, Class
    <2> QED BY <2>1, <2>2
  <1>4. {a[1] : a \in Adds(k, p)} = Flow(k)
    <2>1. ClassOf(k, p).adds = FlowVars(k, "IncompressibleNavierStokes")
      BY DEF ClassOf, ForceStabClass, FlowClass, Class
    <2> QED BY <1>3, <2>1, FlowNames DEF NamesOf
  <1>5. e \in term.jac /\ e[2] \notin Flow(k)
    BY <1>1, <1>3 DEF FanStabConstraint, ForceStabConstraint, FanStabBlocks,
                      Value, Term, Flow, Velocity
  <1>6. e \in term.reads \union term.jac
    BY <1>5
  <1> HIDE DEF term, e, p
  <1>7. "element_constraint" \in HookNames(k)
    BY HooksOfElement
  <1> QED BY <1>2, <1>4, <1>5, <1>6, <1>7 DEF TouchesOwn, term

\* The stabilized low Mach flow has no rate in its mass residual.
LEMMA LowMachStabsHaveNoRates ==
  ASSUME NEW k \in Configs, Listed(k) \intersect WithoutRates(k) # {}
  PROVE  ~MassesHoldRates(k)
  <1>1. PICK p \in Listed(k) : k.scheme # "steady" /\ p \in LowMachStabs
    BY DEF WithoutRates
  <1>2. PICK i \in DOMAIN k.list : k.list[i] = p
    BY ListIsListed
  <1> DEFINE term == Terms(k, p, "mass_residual")
             e == <<"p", "u", "value">>
  <1>3. term \in {BraackMass(k), LowMachSPGSMMass(k), VMSMass(k)}
    <2>1. term = TermOf(k, p, "mass_residual")
      BY <1>1, HooksOfElement, PhysicsAreClasses
    <2>2. TermOf(k, p, "mass_residual")
            \in {BraackMass(k), LowMachSPGSMMass(k), VMSMass(k)}
      BY <1>1 DEF LowMachStabs, TermOf, ClassOf, LowMachStabClass,
                  LowMachClass, Class
    <2> QED BY <2>1, <2>2
  <1>4. e \in term.reads
    BY <1>3 DEF BraackMass, LowMachSPGSMMass, VMSMass, LowMachTransient,
                TransientVia, Flow, LowMachUnknowns, Velocity, Term
  <1>5. \A r \in term.reads : r[3] = "value"
    <2>1. \A r \in LowMachTransient(k) : r[3] = "value"
      BY DEF LowMachTransient, TransientVia
    <2> QED BY <1>3, <2>1, Dependences
            DEF BraackMass, LowMachSPGSMMass, VMSMass, Term
  <1>6. "mass_residual" \in MassHooks \intersect HookNames(k)
    BY <1>1, HooksOfElement DEF MassHooks
  <1> HIDE DEF term, e
  <1> QED BY <1>2, <1>4, <1>5, <1>6 DEF MassesHoldRates, term

\* A Jacobian with an entry too many or too few is not complete, unless the
\* physics stops the program.
LEMMA ScaledHolds ==
  ASSUME NEW k, NEW h, NEW S, Triples(S), NEW r, NEW x, NEW via
  PROVE  <<r, x, via>> \in Scaled(k, h, S) <=>
           \/ via # "value" /\ <<r, x, via>> \in S
           \/ ~Unit(k, h) /\ <<r, x, via>> \in S
           \/ Unit(k, h) /\ via = "one" /\ <<r, x, "value">> \in S
  BY DEF Scaled, Triples
NeverStops(k, p) ==
  \A h \in DOMAIN ClassOf(k, p).terms : ClassOf(k, p).terms[h].stops = "never"
Lacks(k, h, term) ==
  /\ Triples(term.reads) /\ Triples(term.jac)
  /\ \E r, x, via : ~(<<r, x, via>> \in Scaled(k, h, term.jac)
                        <=> <<r, x, via>> \in Scaled(k, h, term.reads))

\* A list with a residual function that lacks a dependence has no complete
\* Jacobian.
LEMMA LackingIsPartial ==
  ASSUME NEW k \in Configs, k.analytic, NEW p \in Listed(k), NeverStops(k, p),
         NEW h \in ElementHooks3, h \in MassHooks => k.scheme # "steady",
         Lacks(k, h, TermOf(k, p, h))
  PROVE  ~JacobiansAreComplete(k)
  <1>1. PICK i \in DOMAIN k.list : k.list[i] = p
    BY ListIsListed
  <1>2. \A g \in HookNames(k) : Terms(k, p, g) = TermOf(k, p, g)
    BY PhysicsAreClasses
  <1>3. \A g : TermOf(k, p, g).stops = "never"
    BY TermsAreOfClasses DEF NeverStops
  <1>4. ~StopsJacobian(k, p, "element")
    <2>1. \A n \in DOMAIN Hooks(k)["element"] :
            Hooks(k)["element"][n] \in HookNames(k)
      BY DEF HookNames, Kinds
    <2> QED BY <1>2, <1>3, <2>1 DEF StopsJacobian
  <1>5. PICK n \in DOMAIN Hooks(k)["element"] : Hooks(k)["element"][n] = h
    BY ElementHooksAre
  <1>6. h \in HookNames(k)
    BY <1>5 DEF HookNames, Kinds
  <1>7. Scaled(k, h, Terms(k, p, h).jac) # Scaled(k, h, Terms(k, p, h).reads)
    BY <1>2, <1>6 DEF Lacks
  <1>8. "element" \in Kinds
    BY DEF Kinds
  <1> QED BY <1>1, <1>4, <1>5, <1>7, <1>8 DEF JacobiansAreComplete

\* A dependence on a value or a rate that only one of the two has.
LEMMA OnlyOneHas ==
  ASSUME NEW k, NEW h, NEW term, Triples(term.reads), Triples(term.jac),
         NEW r, NEW x,
         \/ /\ <<r, x, "value">> \in term.reads
            /\ <<r, x, "value">> \notin term.jac
            /\ <<r, x, "one">> \notin term.jac \/ ~Unit(k, h)
         \/ /\ <<r, x, "value">> \in term.jac
            /\ <<r, x, "value">> \notin term.reads
            /\ <<r, x, "one">> \notin term.reads
         \/ <<r, x, "rate">> \in term.reads /\ <<r, x, "rate">> \notin term.jac
  PROVE  Lacks(k, h, term)
  <1>1. \A S \in {term.reads, term.jac}, via \in {"value", "one", "rate"} :
          <<r, x, via>> \in Scaled(k, h, S) <=>
            \/ via # "value" /\ <<r, x, via>> \in S
            \/ ~Unit(k, h) /\ <<r, x, via>> \in S
            \/ Unit(k, h) /\ via = "one" /\ <<r, x, "value">> \in S
    BY ScaledHolds
  <1>2. \E via \in {"value", "one", "rate"} :
          ~(<<r, x, via>> \in Scaled(k, h, term.jac)
              <=> <<r, x, via>> \in Scaled(k, h, term.reads))
    <2>1. CASE Unit(k, h) BY <1>1, <2>1
    <2>2. CASE ~Unit(k, h) BY <1>1, <2>2
    <2> QED BY <2>1, <2>2
  <1> QED BY <1>2 DEF Lacks

\* The sets of dependences are of triples.
LEMMA DependencesAreTriples ==
  /\ \A R, C :
       Triples(Value(R, C)) /\ Triples(Rate(R, C)) /\ Triples(Plain(R, C))
  /\ \A R : Triples(OwnValue(R)) /\ Triples(OwnRate(R))
  /\ Triples({})
  /\ \A A, B : Triples(A) /\ Triples(B) => Triples(A \union B)
  <1>1. \A R, C :
          Triples(Value(R, C)) /\ Triples(Rate(R, C)) /\ Triples(Plain(R, C))
    BY DEF Triples, Value, Rate, Plain
  <1>2. \A R : Triples(OwnValue(R)) /\ Triples(OwnRate(R))
    BY DEF Triples, OwnValue, OwnRate
  <1> QED BY <1>1, <1>2 DEF Triples

\* The union of four sets of triples.
LEMMA FourOfTriples ==
  ASSUME NEW A, NEW B, NEW C, NEW D,
         Triples(A), Triples(B), Triples(C), Triples(D)
  PROVE  Triples((A \union B) \union (C \union D))
  BY DEF Triples

\* None of the physics with partial Jacobians stops the program for one.
LEMMA PartialNeverStop ==
  ASSUME NEW k, NEW p \in WithPartialJacobian(k)
  PROVE  NeverStops(k, p)
  <1> USE DEF NeverStops, ClassOf, Class, Term
  <1>1. NeverStops(k, "AveragedFanAdjointStabilization")
    BY DEF ForceStabClass, FlowClass, FanStabTime, ForceStabTime,
           FanStabConstraint, ForceStabConstraint
  <1>2. NeverStops(k, "AveragedTurbine")
    BY DEF TurbineClass, TurbineTime, TurbineSpeedTime, TurbineSpeedMass
  <1>3. NeverStops(k, "ElasticMembraneConstantPressure")
    BY DEF SolidClass, PressureTime
  <1>4. NeverStops(k, "HeatTransferAdjointStabilization")
    BY DEF HeatClass, HeatStabTime, HeatStabMass
  <1>5. NeverStops(k, "IncompressibleNavierStokesAdjointStabilization")
    BY DEF AdjointStabClass, FlowClass, AdjointStabTime,
           AdjointStabConstraint, AdjointStabMass
  <1>6. NeverStops(k, "Stokes")
    BY DEF StokesClass, StokesTime, StokesConstraint, StokesMass
  <1>7. NeverStops(k, "LowMachNavierStokes")
    BY DEF LowMachClass, LowMachTime, LowMachMass, Cached, Together, Pinning
  <1>8. NeverStops(k, "LowMachNavierStokesBraackStabilization")
    BY DEF LowMachStabClass, LowMachClass, BraackTime, BraackMass
  <1>9. NeverStops(k, "LowMachNavierStokesSPGSMStabilization")
    BY DEF LowMachStabClass, LowMachClass, LowMachSPGSMTime, LowMachSPGSMMass
  <1>10. NeverStops(k, "LowMachNavierStokesVMSStabilization")
    BY DEF LowMachStabClass, LowMachClass, VMSTime, VMSMass
  <1> HIDE DEF NeverStops, ClassOf
  <1> QED BY <1>1, <1>2, <1>3, <1>4, <1>5, <1>6, <1>7, <1>8, <1>9, <1>10
          DEF WithPartialJacobian, Overreaching, LowMachStabs, OnlySteady,
              OnlyAtOneLevel

\* What each lacks.
LEMMA LowMachStabsLack ==
  ASSUME NEW k, NEW p \in LowMachStabs
  PROVE  Lacks(k, "element_time_derivative",
               TermOf(k, p, "element_time_derivative"))
  <1> DEFINE time == TermOf(k, p, "element_time_derivative")
  <1>1. time \in {BraackTime(k), LowMachSPGSMTime(k), VMSTime(k)}
    BY DEF LowMachStabs, TermOf, ClassOf, LowMachStabClass, LowMachClass, Class
  <1>2. time.jac = {} /\ \E q : time.reads = LowMachStabRows(k, q)
    BY <1>1 DEF BraackTime, LowMachSPGSMTime, VMSTime, Term
  <1>3. <<"u", "u", "value">> \in Value(Flow(k), LowMachUnknowns(k) \union {"p"})
    BY DEF LowMachUnknowns, Flow, Velocity, Value
  <1>4. \A q : /\ <<"u", "u", "value">> \in LowMachStabRows(k, q)
               /\ Triples(LowMachStabRows(k, q))
    BY <1>3, DependencesAreTriples DEF LowMachStabRows
  <1>5. Triples(time.reads) /\ Triples(time.jac)
    BY <1>2, <1>4, DependencesAreTriples
  <1>6. <<"u", "u", "value">> \in time.reads
    BY <1>2, <1>4
  <1> HIDE DEF time
  <1> QED BY <1>2, <1>5, <1>6, OnlyOneHas DEF time

\* In two dimensions the stabilized fan fills the block of another variable.
LEMMA FanLacks ==
  ASSUME NEW k, k.dim # 3
  PROVE  Lacks(k, "element_constraint",
               TermOf(k, "AveragedFanAdjointStabilization", "element_constraint"))
  <1>1. TermOf(k, "AveragedFanAdjointStabilization", "element_constraint")
          = FanStabConstraint(k)
    BY DEF TermOf, ClassOf, ForceStabClass, FlowClass, Class
  <1>2. /\ FanStabConstraint(k).reads = Value({"p"}, {"u", "v"})
        /\ FanStabConstraint(k).jac = Value({"p"}, {"w"})
    BY DEF FanStabConstraint, ForceStabConstraint, FanStabBlocks, Velocity, Term
  <1>3. /\ <<"p", "w", "value">> \in Value({"p"}, {"w"})
        /\ <<"p", "w", "value">> \notin Value({"p"}, {"u", "v"})
        /\ <<"p", "w", "one">> \notin Value({"p"}, {"u", "v"})
    BY DEF Value
  <1>4. /\ Triples(FanStabConstraint(k).reads)
        /\ Triples(FanStabConstraint(k).jac)
    BY <1>2, DependencesAreTriples
  <1> QED BY <1>1, <1>2, <1>3, <1>4, OnlyOneHas

\* The low Mach flow has no Jacobian of its thermodynamic pressure.
LEMMA LowMachLacksPressure ==
  ASSUME NEW k, k.p0
  PROVE  Lacks(k, "element_time_derivative",
               TermOf(k, "LowMachNavierStokes", "element_time_derivative"))
  <1>1. TermOf(k, "LowMachNavierStokes", "element_time_derivative")
          = LowMachTime(k)
    BY DEF TermOf, ClassOf, LowMachClass, Class
  <1>2. /\ LowMachTime(k).jac =
             (LowMachContinuity(k).jac \union LowMachMomentum(k).jac)
                \union (LowMachEnergy(k).jac \union LowMachThermo(k).jac)
        /\ LowMachTime(k).reads =
             (LowMachContinuity(k).reads \union LowMachMomentum(k).reads)
                \union (LowMachEnergy(k).reads \union LowMachThermo(k).reads)
    BY DEF LowMachTime, Cached, Together, Term
  <1>3. <<"p0", "T", "value">> \in LowMachThermo(k).reads
    BY DEF LowMachThermo, ThermoPressure, Value, Term
  <1>4. /\ \A e \in LowMachContinuity(k).jac : e[1] # "p0"
        /\ \A e \in LowMachMomentum(k).jac : e[1] # "p0"
        /\ \A e \in LowMachEnergy(k).jac : e[1] # "p0"
        /\ LowMachThermo(k).jac = {}
    BY Dependences DEF LowMachContinuity, LowMachMomentum, LowMachEnergy,
                       LowMachThermo, Velocity, Term
  <1>5. /\ <<"p0", "T", "value">> \notin LowMachTime(k).jac
        /\ <<"p0", "T", "one">> \notin LowMachTime(k).jac
    BY <1>2, <1>4
  <1>6. \A term \in {LowMachContinuity(k), LowMachMomentum(k), LowMachEnergy(k),
                     LowMachThermo(k)} :
          Triples(term.reads) /\ Triples(term.jac)
    BY DependencesAreTriples
       DEF LowMachContinuity, LowMachMomentum, LowMachEnergy, LowMachThermo,
           Term
  <1>7. Triples(LowMachTime(k).reads) /\ Triples(LowMachTime(k).jac)
    BY <1>2, <1>6, FourOfTriples
  <1>8. <<"p0", "T", "value">> \in LowMachTime(k).reads
    BY <1>2, <1>3
  <1> QED BY <1>1, <1>5, <1>7, <1>8, OnlyOneHas

\* These mass residuals read rates whose Jacobian they do not fill.
LEMMA MassesLack ==
  ASSUME NEW k, NEW p \in OnlySteady
  PROVE  Lacks(k, "mass_residual", TermOf(k, p, "mass_residual"))
  <1>1. ASSUME NEW term, NEW x, <<x, x, "rate">> \in term.reads,
               <<x, x, "rate">> \notin term.jac,
               Triples(term.reads), Triples(term.jac)
        PROVE  Lacks(k, "mass_residual", term)
    BY <1>1, OnlyOneHas
  <1>2. "u" \in Velocity(k)
    BY DEF Velocity
  <1>3. CASE p = "IncompressibleNavierStokesAdjointStabilization"
    <2>1. TermOf(k, "IncompressibleNavierStokesAdjointStabilization",
                 "mass_residual") = AdjointStabMass(k)
      BY DEF TermOf, ClassOf, AdjointStabClass, FlowClass, Class
    <2>2. <<"u", "u", "rate">> \in AdjointStabMass(k).reads
      BY <1>2, OwnRateHolds DEF AdjointStabMass, Term
    <2>3. <<"u", "u", "rate">> \notin AdjointStabMass(k).jac
      BY Dependences DEF AdjointStabMass, Term
    <2>4. Triples(AdjointStabMass(k).reads) /\ Triples(AdjointStabMass(k).jac)
      BY DependencesAreTriples DEF AdjointStabMass, Term
    <2> QED BY <1>1, <1>3, <2>1, <2>2, <2>3, <2>4
  <1>4. CASE p = "Stokes"
    <2>1. TermOf(k, "Stokes", "mass_residual") = StokesMass(k)
      BY DEF TermOf, ClassOf, StokesClass, Class
    <2>2. <<"u", "u", "rate">> \in StokesMass(k).reads
      BY <1>2, OwnRateHolds DEF StokesMass, Term
    <2>3. <<"u", "u", "rate">> \notin StokesMass(k).jac
      BY OwnDependences DEF StokesMass, Term
    <2>4. Triples(StokesMass(k).reads) /\ Triples(StokesMass(k).jac)
      BY DependencesAreTriples DEF StokesMass, Term
    <2> QED BY <1>1, <1>4, <2>1, <2>2, <2>3, <2>4
  <1>5. CASE p = "HeatTransferAdjointStabilization"
    <2>1. TermOf(k, "HeatTransferAdjointStabilization", "mass_residual")
            = HeatStabMass(k)
      BY DEF TermOf, ClassOf, HeatClass, Class
    <2>2. <<"T", "T", "rate">> \in HeatStabMass(k).reads
      BY OwnRateHolds DEF HeatStabMass, Term
    <2>3. <<"T", "T", "rate">> \notin HeatStabMass(k).jac
      BY Dependences DEF HeatStabMass, Term
    <2>4. Triples(HeatStabMass(k).reads) /\ Triples(HeatStabMass(k).jac)
      BY DependencesAreTriples DEF HeatStabMass, Term
    <2> QED BY <1>1, <1>5, <2>1, <2>2, <2>3, <2>4
  <1>6. CASE p = "LowMachNavierStokes"
    <2>1. TermOf(k, "LowMachNavierStokes", "mass_residual") = LowMachMass(k)
      BY DEF TermOf, ClassOf, LowMachClass, Class
    <2> DEFINE last == IF k.p0 THEN ThermoMass(k) ELSE NoTerm
    <2>2. \A term \in {ContinuityMass, MomentumMass(k), EnergyMass(k), last} :
            Triples(term.reads) /\ term.jac = {}
      <3>1. Triples(ContinuityMass.reads) /\ ContinuityMass.jac = {}
        BY DependencesAreTriples DEF ContinuityMass, Term
      <3>2. Triples(MomentumMass(k).reads) /\ MomentumMass(k).jac = {}
        BY DependencesAreTriples DEF MomentumMass, Term
      <3>3. Triples(EnergyMass(k).reads) /\ EnergyMass(k).jac = {}
        BY DependencesAreTriples DEF EnergyMass, Term
      <3>4. Triples(ThermoMass(k).reads) /\ ThermoMass(k).jac = {}
        <4>1. ThermoMass(k).reads =
                (Rate({"p0", "T", "p"}, {"p0"}) \union Value({"p0"}, {"T"}))
                  \union Value({"p"}, {"p0"})
          BY DEF ThermoMass, Term
        <4>2. Triples(ThermoMass(k).reads)
          BY <4>1, DependencesAreTriples
        <4> QED BY <4>2 DEF ThermoMass, Term
      <3>5. Triples(NoTerm.reads) /\ NoTerm.jac = {}
        BY DependencesAreTriples DEF NoTerm, Term
      <3> QED BY <3>1, <3>2, <3>3, <3>4, <3>5
    <2>3. /\ LowMachMass(k).reads =
               (ContinuityMass.reads \union MomentumMass(k).reads)
                  \union (EnergyMass(k).reads \union last.reads)
          /\ LowMachMass(k).jac =
               (ContinuityMass.jac \union MomentumMass(k).jac)
                  \union (EnergyMass(k).jac \union last.jac)
      BY DEF LowMachMass, Together, Term
    <2>4. <<"T", "T", "rate">> \in EnergyMass(k).reads
      BY OwnRateHolds DEF EnergyMass, Term
    <2> HIDE DEF last
    <2>5. LowMachMass(k).jac = {} /\ <<"T", "T", "rate">> \in LowMachMass(k).reads
      BY <2>2, <2>3, <2>4
    <2>6. Triples(LowMachMass(k).reads) /\ Triples(LowMachMass(k).jac)
      BY <2>2, <2>3, <2>5, FourOfTriples, DependencesAreTriples
    <2> QED BY <1>1, <1>6, <2>1, <2>5, <2>6
  <1> QED BY <1>3, <1>4, <1>5, <1>6 DEF OnlySteady

\* These residuals forget the factor of the time level in their Jacobian.
LEMMA LevelsLack ==
  ASSUME NEW k, NEW p \in OnlyAtOneLevel, k.scheme = "theta"
  PROVE  Lacks(k, "element_time_derivative",
               TermOf(k, p, "element_time_derivative"))
  <1>1. ~Unit(k, "element_time_derivative")
    BY DEF Unit, ConstraintHooks
  <1>2. CASE p = "AveragedTurbine"
    <2>1. TermOf(k, "AveragedTurbine", "element_time_derivative")
            = TurbineTime(k)
      BY DEF TermOf, ClassOf, TurbineClass, Class
    <2>2. /\ <<"u", "u", "value">> \in TurbineTime(k).reads
          /\ <<"u", "u", "value">> \notin TurbineTime(k).jac
      BY DEF TurbineTime, TurbineUnknowns, Velocity, Value, Plain, Term
    <2>3. Triples(TurbineTime(k).reads) /\ Triples(TurbineTime(k).jac)
      BY DependencesAreTriples DEF TurbineTime, Term
    <2> QED BY <1>1, <1>2, <2>1, <2>2, <2>3, OnlyOneHas
  <1>3. CASE p = "ElasticMembraneConstantPressure"
    <2>1. TermOf(k, "ElasticMembraneConstantPressure", "element_time_derivative")
            = PressureTime
      BY DEF TermOf, ClassOf, SolidClass, Class
    <2>2. <<"u", "v">> \in Across(Displacement)
      BY DEF Across, Displacement
    <2>3. Triples(PressureTime.reads) /\ Triples(PressureTime.jac)
      BY DEF PressureTime, Term, Triples
    <2>4. <<"u", "v", "value">> \notin PressureTime.jac
      BY DEF PressureTime, Term
    <2>5. <<"u", "v", "value">> \in PressureTime.reads
      BY <2>2 DEF PressureTime, Term
    <2> QED BY <1>1, <1>3, <2>1, <2>3, <2>4, <2>5, OnlyOneHas
  <1> QED BY <1>2, <1>3 DEF OnlyAtOneLevel

\* With any of the physics named, the analytic Jacobian is not complete.
LEMMA PartialIsPartial ==
  ASSUME NEW k \in Configs, k.analytic,
         Listed(k) \intersect WithPartialJacobian(k) # {}
  PROVE  ~JacobiansAreComplete(k)
  <1>1. PICK p \in Listed(k) : p \in WithPartialJacobian(k)
    OBVIOUS
  <1>2. \A h \in ElementHooks3 :
          /\ h \in MassHooks => k.scheme # "steady"
          /\ Lacks(k, h, TermOf(k, p, h))
          => ~JacobiansAreComplete(k)
    BY <1>1, PartialNeverStop, LackingIsPartial
  <1>3. /\ "element_time_derivative" \in ElementHooks3 \ MassHooks
        /\ "element_constraint" \in ElementHooks3 \ MassHooks
        /\ "mass_residual" \in ElementHooks3
    BY DEF ElementHooks3, MassHooks
  <1>4. CASE p \in LowMachStabs
    BY <1>2, <1>3, <1>4, LowMachStabsLack
  <1>5. CASE p \in Overreaching(k)
    <2>1. k.dim # 3 /\ p = "AveragedFanAdjointStabilization"
      BY <1>5 DEF Overreaching
    <2> QED BY <1>2, <1>3, <2>1, FanLacks
  <1>6. CASE p = "LowMachNavierStokes" /\ k.p0
    BY <1>2, <1>3, <1>6, LowMachLacksPressure
  <1>7. CASE p \in OnlySteady /\ k.scheme # "steady"
    BY <1>2, <1>3, <1>7, MassesLack
  <1>8. CASE p \in OnlyAtOneLevel /\ k.scheme = "theta"
    BY <1>2, <1>3, <1>8, LevelsLack
  <1> QED BY <1>1, <1>4, <1>5, <1>6, <1>7, <1>8 DEF WithPartialJacobian

--------------------------------------------------------------------------
(* The program.                                                            *)

\* PhysicsAreSound: whatever physics the factory accepts, each puts into the
\* cache what it takes; but for those named in ProgramPhysics, and only for
\* them, each keeps to its variables, has rates in its mass residuals and
\* fills its Jacobian; in company the list asks for the shape functions it
\* uses and reads the rates of what it marches.
THEOREM PhysicsAlwaysSound == Spec => []PhysicsAreSound
  <1>1. InRange => PhysicsAreSound
    <2> SUFFICES ASSUME InRange PROVE PhysicsAreSound
      OBVIOUS
    <2>1. c \in Configs
      BY DEF InRange
    <2>2. CachesSuffice(c)
      BY <2>1, ListsFillCaches
    <2>3. TouchesOwn(c) <=> Listed(c) \intersect Overreaching(c) = {}
      BY <2>1, ListsTouchOwn, FanOverreaches
    <2>4. MassesHoldRates(c) <=> Listed(c) \intersect WithoutRates(c) = {}
      BY <2>1, ListsHoldRates, LowMachStabsHaveNoRates
    <2>5. c.analytic => (JacobiansAreComplete(c)
                          <=> Listed(c) \intersect WithPartialJacobian(c) = {})
      BY <2>1, ListsHaveJacobians, PartialIsPartial
    <2>6. RequestsHaveOwners(c) => RequestsSuffice(c)
      BY <2>1, ListsAskForAll
    <2>7. RatesHaveOwners(c) => RatesAreRead(c)
      BY <2>1, ListsReadRates
    <2> QED BY <2>2, <2>3, <2>4, <2>5, <2>6, <2>7 DEF PhysicsAreSound
  <1> QED BY <1>1, InRangeInvariant, PTL

\* The models of the examples are ones that add_physics knows, and make a
\* mixture of gases that add_reacting_low_mach can build.
LEMMA ModelsAreKnown ==
  ASSUME NEW m \in Models
  PROVE  /\ m.viscosity \in {"constant", "parsed"}
         /\ m.conductivity \in {"constant", "parsed"}
         /\ m.lowMach = "constant"
         /\ m.source = "constant"
         /\ m.membrane \in {"HookesLaw", "MooneyRivlin"}
         /\ m.cable = "HookesLaw"
         /\ AddsReacting(m)
  <1> USE DEF AddsReacting, WilkeMixture, ConstantMixture
  <1>1. CASE m = Constants
    BY <1>1 DEF Constants
  <1>2. CASE m = [Constants EXCEPT !.library = "antioch"]
    <2>1. m = [viscosity |-> "constant", conductivity |-> "constant",
               lowMach |-> "constant", source |-> "constant",
               membrane |-> "HookesLaw", cable |-> "HookesLaw",
               library |-> "antioch", mixing |-> "wilke",
               thermo |-> "stat_mech", diffusivity |-> "constant_lewis",
               gasConductivity |-> "eucken", gasViscosity |-> "blottner"]
      BY <1>2 DEF Constants
    <2> QED BY <2>1
  <1>3. CASE m = [Constants EXCEPT !.viscosity = "parsed",
                                   !.conductivity = "parsed"]
    BY <1>3 DEF Constants
  <1>4. CASE m = [Constants EXCEPT !.membrane = "MooneyRivlin"]
    BY <1>4 DEF Constants
  <1>5. CASE m = [Constants EXCEPT !.library = "antioch", !.mixing = "constant",
                                   !.thermo = "cea",
                                   !.gasConductivity = "constant",
                                   !.gasViscosity = "constant"]
    <2>1. m = [viscosity |-> "constant", conductivity |-> "constant",
               lowMach |-> "constant", source |-> "constant",
               membrane |-> "HookesLaw", cable |-> "HookesLaw",
               library |-> "antioch", mixing |-> "constant",
               thermo |-> "cea", diffusivity |-> "constant_lewis",
               gasConductivity |-> "constant", gasViscosity |-> "constant"]
      BY <1>5 DEF Constants
    <2> QED BY <2>1
  <1> QED BY <1>1, <1>2, <1>3, <1>4, <1>5 DEF Models

\* AcceptedAreSquare: the factory builds every accepted list with the models
\* of the examples; each guarded physics has equations for its unknowns in the
\* least list it comes in, and no other has (PhysicsFactory::build_physics_map,
\* check_physics_consistency).
THEOREM ListsAlwaysSquare == Spec => []AcceptedAreSquare
  <1>1. InRange => AcceptedAreSquare
    <2> SUFFICES ASSUME InRange PROVE AcceptedAreSquare
      OBVIOUS
    <2>1. c \in Configs
      BY DEF InRange
    <2>2. ASSUME NEW m \in Models PROVE Builds(Listed(c), m)
      <3>1. Listed(c) \subseteq AllPhysics /\ IsConsistent(Listed(c))
        BY <2>1, ListsAreAccepted
      <3>2. 1 \in DOMAIN c.list
        BY <2>1, ListFacts
      <3>3. Listed(c) # {}
        BY <3>2 DEF Listed
      <3>4. ASSUME NEW p \in AllPhysics PROVE AddsPhysics(p, m)
        BY ModelsAreKnown DEF AddsPhysics
      <3> QED BY <3>1, <3>3, <3>4 DEF Builds
    <2>3. ASSUME NEW p \in AllPhysics
          PROVE  p \in Unguarded
                   <=> Undetermined(c, Least(p)) \ ThermoPressure(c) # {}
      BY GuardedAreSquare, UnguardedAreNot
    <2>4. "p0" \notin Undetermined(c, {"LowMachNavierStokes"})
      BY LowMachIsSquare
    <2> QED BY <2>2, <2>3, <2>4 DEF AcceptedAreSquare
  <1> QED BY <1>1, InRangeInvariant, PTL

\* Every list of guarded physics that the factory accepts has an equation for
\* each of its unknowns, but for the thermodynamic pressure, which only
\* LowMachNavierStokes solves for (PhysicsFactory::check_physics_consistency).
THEOREM GuardedListsAreSquare ==
  ASSUME NEW k, NEW list, NEW m, Builds(list, m), list \intersect Unguarded = {}
  PROVE  /\ Undetermined(k, list) \subseteq ThermoPressure(k)
         /\ "LowMachNavierStokes" \in list => Undetermined(k, list) = {}
  <1>1. list \subseteq AllPhysics \ Unguarded /\ IsConsistent(list)
    BY DEF Builds, AddsPhysics
  <1>2. ASSUME NEW p \in list, NEW x \in Unknowns(k, {p}),
               x \notin ThermoPressure(k)
        PROVE  x \in Equations(k, list)
    <2>1. Least(p) \subseteq list
      BY <1>1, LeastIsListed
    <2>2. x \in Unknowns(k, Least(p))
      BY <1>2, LeastLists DEF Unknowns
    <2>3. x \in Equations(k, Least(p))
      BY <1>1, <1>2, <2>2, GuardedAreSquare DEF Undetermined
    <2> QED BY <2>1, <2>3 DEF Equations
  <1>3. \A x \in Unknowns(k, list) : \E p \in list : x \in Unknowns(k, {p})
    BY DEF Unknowns
  <1>4. Undetermined(k, list) \subseteq ThermoPressure(k)
    BY <1>2, <1>3 DEF Undetermined
  <1>5. ASSUME "LowMachNavierStokes" \in list, NEW x \in ThermoPressure(k)
        PROVE  x \in Equations(k, list)
    BY <1>5, PressureIsSolved, EquationsAreSolved
  <1> QED BY <1>4, <1>5 DEF Undetermined

\* BlocksExist, of the program: but for the stabilized fan in two dimensions,
\* no accepted list touches a variable that the system lacks.
THEOREM ProgramTouchesAdded ==
  ASSUME \A k \in Configs : Listed(k) \intersect Overreaching(k) = {}
  PROVE  Spec => []BlocksExist
  BY ListsTouchOwn, TouchedVariablesExist

\* DataWasRequested, of the program: in company, every accepted list has the
\* shape functions it uses, whatever its order and its finite elements.
THEOREM ProgramAsksFirst ==
  ASSUME \A k \in Configs : /\ Listed(k) \intersect Overreaching(k) = {}
                            /\ RequestsHaveOwners(k)
  PROVE  Spec => []DataWasRequested
  BY ListsTouchOwn, ListsAskForAll, RequestsPrecedeUse

\* CachedBeforeRead, of the program: in every accepted list the cached values
\* are there, without a condition.
THEOREM ProgramCachesFirst == Spec => []CachedBeforeRead
  BY ListsFillCaches, CachePrecedesUse

\* JacobianIsOfResidual, of the program: without the physics whose Jacobian is
\* partial for that solver, the analytic Jacobian of every accepted list is
\* complete, whatever the elements, the sides and where the physics are.
THEOREM ProgramHasJacobian ==
  ASSUME \A k \in Configs : Listed(k) \intersect WithPartialJacobian(k) = {}
  PROVE  Spec => []JacobianIsOfResidual
  BY ListsHaveJacobians, JacobianIsComplete

\* MassHoldsRates, of the program: but for a stabilized low Mach flow in time,
\* every mass residual of an accepted list holds rates of what it marches.
THEOREM ProgramMassesVanish ==
  ASSUME \A k \in Configs : Listed(k) \intersect WithoutRates(k) = {}
  PROVE  Spec => []MassHoldsRates
  BY ListsHoldRates, MassesVanishAtRest

\* EvolvingAreMarched, of the program: in company, what an accepted list
\* marches has its rate on every element where all its physics are enabled.
THEOREM ProgramMarchesAll ==
  ASSUME \A k \in Configs : RatesHaveOwners(k)
  PROVE  Spec => []EvolvingAreMarched
  BY ListsReadRates, MarchedHaveRates
=============================================================================
