--------------------------- MODULE SimulationProofs ---------------------------
(***************************************************************************)
(* What holds of a simulation for every input, every number of processors  *)
(* and every mesh.  The invariants follow the stages: where the processors *)
(* are (Places), how often the mesh was refined (Counts), in how many      *)
(* passes (PassesKnown), what the solution vector holds (Holds), what the  *)
(* processors know of the mesh (Knows), how far the solver is (Solves),    *)
(* and in which part of the refinement the processors are (SamePart).      *)
(***************************************************************************)
EXTENDS Simulation, TLAPS, FiniteSetTheorems, WellFoundedInduction

RefiningStages == {"refining", "refining again"}
PCs == {"outside", "uniform", "flag", "max", "agreed", "refine", "done"}

\* Outside of the refinement all processors are together.
Places ==
  /\ pc \in [Ranks -> PCs]
  /\ found \in [Ranks -> BOOLEAN]
  /\ left \in Nat /\ passes \in Nat
  /\ stage \in Stages
  /\ stage \notin RefiningStages => AtAll("outside")

\* The stages before a mesh that is not read from a restart file has been
\* refined, and those before one that is.
Counts ==
  /\ stage \in {"build", "built"} => refinements = 0
  /\ stage \in {"solver", "physics", "qois", "estimator"} =>
       refinements = IF Restarting THEN 0 ELSE 1
  /\ stage = "refining" => ~Restarting /\ refinements = 1
  /\ stage \in {"restart", "read"} => Restarting /\ refinements = 0
  /\ stage \in {"refining again", "reinit"} => Restarting /\ refinements = 1
  /\ Ready => refinements = 1
  /\ Ready \/ stage \in {"qois", "estimator", "restart", "read"} => passes = 0
  /\ refinements \in {0, 1}

--------------------------------------------------------------------------

\* The inputs, as far as the proofs need them.
LEMMA InputFacts ==
  ASSUME input \in Inputs
  PROVE  /\ input.uniform \in Nat /\ input.local \in BOOLEAN
         /\ input.continuation \in BOOLEAN /\ input.outputVis \in BOOLEAN
         /\ input.increments \in Nat /\ input.boundary \in Int
         /\ input.dirichlet \in Seq(Conditions)
  BY InputsAssumption


\* Counting.
LEMMA OneMore == \A n \in Nat : n + 1 \in Nat
  OBVIOUS
LEMMA ZeroOne == 0 + 1 = 1
  OBVIOUS
LEMMA OneLess == \A n \in Nat : n > 0 => n - 1 \in Nat
  OBVIOUS

LEMMA InputInvariant == Spec => [](input \in Inputs)
  <1>1. Init => input \in Inputs
    BY DEF Init
  <1>2. input \in Inputs /\ [Next]_vars => (input \in Inputs)'
    BY DEF Next, vars
  <1> QED BY <1>1, <1>2, PTL DEF Spec

LEMMA PlacesStep ==
  ASSUME input \in Inputs, Places, [Next]_vars
  PROVE  Places'
  <1> USE DEF Places, PCs, RefiningStages, Stages
  <1>1. CASE Construct
    <2>1. CASE BuildMesh
      BY <2>1 DEF BuildMesh, Stage, AtAll
    <2>2. CASE EnterBuildRefinement
      BY <2>2, InputFacts
      DEF EnterBuildRefinement, Stage, EnterRefinement, AllTo, AtAll
    <2>3. CASE EndBuildRefinement
      BY <2>3 DEF EndBuildRefinement, LeaveRefinement, AllTo, AtAll
    <2>4. CASE EnterRestartRefinement
      BY <2>4, InputFacts
      DEF EnterRestartRefinement, Stage, EnterRefinement, AllTo, AtAll
    <2>5. CASE EndRestartRefinement
      BY <2>5 DEF EndRestartRefinement, LeaveRefinement, AllTo, AtAll
    <2>6. CASE InitMultiphysicsSystem \/ Reinit
      <3>1. passes' = 0 /\ UNCHANGED <<left, found, pc>> /\ Outside
            /\ stage' \in {"qois", "check"}
        BY <2>6 DEF InitMultiphysicsSystem, Reinit, Stage
      <3> QED BY <3>1 DEF Outside, AtAll
    <2>7. CASE SkipBuildRefinement \/ BuildSolver \/ InitQoIs \/ ReadRestart
                 \/ CheckForUnusedVars
      BY <2>7 DEF SkipBuildRefinement, BuildSolver, InitQoIs, ReadRestart,
                  CheckForUnusedVars, Stage, Outside, AtAll, meshVars
    <2>8. CASE BuildErrorEstimator
      BY <2>8 DEF BuildErrorEstimator, Stage, Outside, AtAll, meshVars
    <2>9. CASE Fail
      BY <2>9 DEF Fail, Stop, AtAll, meshVars
    <2> QED BY <1>1, <2>1, <2>2, <2>3, <2>4, <2>5, <2>6, <2>7, <2>8, <2>9
            DEF Construct
  <1>2. CASE RunAll
    BY <1>2 DEF RunAll, Run, Solving, EndSolve, RunOther, PrintQoI, Stage,
                Outside, AtAll, meshVars
  <1>3. CASE Refining(RefineTogether)
    <2> stage \in RefiningStages /\ stage' = stage
      BY <1>3 DEF Refining
    <2>1. CASE UniformPass
      <3>1. /\ left' = left - 1 /\ passes' = passes + 1
            /\ UNCHANGED <<found, pc>> /\ left > 0
        BY <2>1 DEF UniformPass
      <3>2. left' \in Nat /\ passes' \in Nat
        BY <3>1, OneMore, OneLess
      <3> QED BY <3>1, <3>2
    <2>2. CASE Agree
      BY <2>2 DEF Agree, AllTo, Agreed
    <2>3. CASE RefineAndCoarsen
      <3>1. passes' = passes + 1 /\ UNCHANGED <<left, found>>
        BY <2>3 DEF RefineAndCoarsen
      <3>2. pc' = [p \in Ranks |-> AfterPass]
        BY <2>3 DEF RefineAndCoarsen, AllTo
      <3>3. AfterPass \in PCs
        BY DEF AfterPass
      <3>4. pc' \in [Ranks -> PCs]
        BY <3>2, <3>3
      <3>5. passes' \in Nat
        BY <3>1, OneMore
      <3> QED BY <3>1, <3>4, <3>5
    <2> QED BY <1>3, <2>1, <2>2, <2>3 DEF Refining, RefineTogether
  <1>4. ASSUME NEW p \in Ranks, Alone(p)
        PROVE  Places'
    BY <1>4 DEF Alone, Refining, RefineAlone, UniformDone, Flag, Leave,
                StartPass
  <1>5. CASE UNCHANGED vars
    BY <1>5 DEF vars, meshVars, AtAll
  <1> QED BY <1>1, <1>2, <1>3, <1>4, <1>5 DEF Next, Together

LEMMA PlacesInvariant == Spec => []Places
  <1>1. Init => Places
    BY DEF Init, InitMesh, Places, PCs, Stages, RefiningStages, AtAll
  <1> QED BY <1>1, InputInvariant, PlacesStep, PTL DEF Spec

--------------------------------------------------------------------------
(* How often the mesh is refined. *)

LEMMA CountsStep ==
  ASSUME Counts, [Next]_vars
  PROVE  Counts'
  <1> USE DEF Counts, Ready, Restarting
  <1>i. UNCHANGED input
    BY DEF Next, vars
  <1>1. CASE Construct
    <2>1. CASE BuildMesh
      BY <2>1, <1>i DEF BuildMesh, Stage
    <2>2. CASE EnterBuildRefinement
      <3>1. /\ stage = "built" /\ stage' = "refining" /\ ~Restarting
            /\ refinements' = refinements + 1
        BY <2>2 DEF EnterBuildRefinement, Stage, RefineAtBuild
      <3> QED BY <3>1, <1>i
    <2>3. CASE EndBuildRefinement
      BY <2>3, <1>i DEF EndBuildRefinement
    <2>4. CASE EnterRestartRefinement
      <3>1. /\ stage = "read" /\ stage' = "refining again"
            /\ refinements' = refinements + 1
        BY <2>4 DEF EnterRestartRefinement, Stage
      <3>2. refinements = 0 /\ Restarting
        BY <3>1
      <3> HIDE DEF Counts, Ready, Restarting
      <3>3. refinements' = 1
        BY <3>1, <3>2, ZeroOne
      <3> USE DEF Counts, Ready, Restarting
      <3> QED BY <3>1, <3>2, <3>3, <1>i
    <2>5. CASE EndRestartRefinement
      BY <2>5, <1>i DEF EndRestartRefinement
    <2>6. CASE InitMultiphysicsSystem \/ Reinit
      <3>1. /\ passes' = 0 /\ refinements' = refinements
            /\ \/ stage = "physics" /\ stage' = "qois"
               \/ stage = "reinit" /\ stage' = "check"
        BY <2>6 DEF InitMultiphysicsSystem, Reinit, Stage
      <3> QED BY <3>1, <1>i
    <2>7. CASE SkipBuildRefinement
      BY <2>7, <1>i DEF SkipBuildRefinement, Stage, RefineAtBuild, meshVars
    <2>8. CASE BuildErrorEstimator
      BY <2>8, <1>i DEF BuildErrorEstimator, Stage, meshVars
    <2>9. CASE BuildSolver \/ InitQoIs \/ ReadRestart \/ CheckForUnusedVars
      BY <2>9, <1>i DEF BuildSolver, InitQoIs, ReadRestart,
                        CheckForUnusedVars, Stage, meshVars
    <2>10. CASE Fail
      BY <2>10, <1>i DEF Fail, Stop, meshVars
    <2> QED BY <1>1, <2>1, <2>2, <2>3, <2>4, <2>5, <2>6, <2>7, <2>8, <2>9,
               <2>10 DEF Construct
  <1>2. CASE RunAll
    BY <1>2, <1>i DEF RunAll, Run, Solving, EndSolve, RunOther, PrintQoI,
                      Stage, meshVars
  <1>3. CASE Refining(RefineTogether) \/ \E p \in Ranks : Alone(p)
    <2>1. stage \in RefiningStages /\ UNCHANGED <<stage, refinements>>
      BY <1>3 DEF Alone, Refining, RefiningStages
    <2> QED BY <2>1, <1>i DEF RefiningStages
  <1>4. CASE UNCHANGED vars
    BY <1>4 DEF vars, meshVars
  <1> QED BY <1>1, <1>2, <1>3, <1>4 DEF Next, Together

LEMMA CountsInvariant == Spec => []Counts
  <1>1. Init => Counts
    BY DEF Init, Counts, Ready, InitMesh
  <1> QED BY <1>1, CountsStep, PTL DEF Spec

\* Whether the simulation starts or restarts, the mesh is refined from the
\* input once, in MeshBuilder::build or in Simulation::init_restart, and the
\* unknowns are distributed on the mesh that is solved on.
THEOREM MeshRefinedOnce == Spec => []RefinedOnce
  <1>1. ASSUME refinements \in {0, 1}
        PROVE  refinements <= 1
    BY <1>1
  <1>2. Counts => RefinedOnce
    BY <1>1 DEF Counts, RefinedOnce
  <1> QED BY <1>2, CountsInvariant, PTL

--------------------------------------------------------------------------
(* In how many passes the mesh is refined after a restart. *)

InLoop == {"flag", "max", "agreed", "refine"}
Local == IF input.local THEN 1 ELSE 0
PassesKnown ==
  /\ stage = "refining again" =>
       /\ \A p \in Ranks : pc[p] = "uniform" => passes + left = input.uniform
       /\ \A p \in Ranks :
            pc[p] \in InLoop => input.local /\ passes = input.uniform
  /\ stage \in {"refining again", "reinit"} => passes <= input.uniform + Local

\* The arithmetic of the passes.
LEMMA PassArithmetic ==
  ASSUME NEW u \in Nat, NEW n \in Nat, NEW k \in Nat, NEW m \in {0, 1}
  PROVE  /\ 0 + u = u /\ 0 <= u + m
         /\ n + k = u /\ k > 0 => (n + 1) + (k - 1) = u /\ n + 1 <= u + m
         /\ n + 0 = u => n = u
         /\ n = u /\ m = 1 => n + 1 <= u + m
         /\ n <= u + m /\ u + m <= 1 => n <= 1
  OBVIOUS

LEMMA PassesStep ==
  ASSUME input \in Inputs, Places, Counts, PassesKnown, [Next]_vars
  PROVE  PassesKnown'
  <1>i. UNCHANGED input
    BY DEF Next, vars
  <1>l. UNCHANGED Local
    BY <1>i DEF Local
  <1>n. /\ input.uniform \in Nat /\ passes \in Nat /\ left \in Nat
        /\ Local \in {0, 1}
    BY InputFacts DEF Places, Local
  <1>1. CASE EnterRestartRefinement
    <2>1. /\ stage = "read" /\ stage' = "refining again"
          /\ left' = input.uniform /\ passes' = passes
          /\ pc' = [p \in Ranks |-> "uniform"]
      BY <1>1 DEF EnterRestartRefinement, EnterRefinement, Stage, AllTo
    <2>2. passes = 0
      BY <2>1 DEF Counts
    <2>3. passes' + left' = input'.uniform /\ passes' <= input'.uniform + Local'
      BY <1>i, <1>l, <1>n, <2>1, <2>2, PassArithmetic
    <2> QED BY <2>1, <2>3 DEF PassesKnown, InLoop
  <1>2. CASE EndRestartRefinement
    BY <1>2, <1>i, <1>l
    DEF EndRestartRefinement, LeaveRefinement, PassesKnown
  <1>3. CASE Refining(RefineTogether) \/ \E p \in Ranks : Alone(p)
    <2>0. stage \in RefiningStages /\ stage' = stage
      BY <1>3 DEF Alone, Refining, RefiningStages
    <2>1. CASE stage = "refining"
      BY <2>1, <2>0 DEF PassesKnown
    <2>2. CASE stage = "refining again"
      <3>1. CASE UniformPass
        <4>1. /\ left > 0 /\ left' = left - 1 /\ passes' = passes + 1
              /\ pc' = pc /\ \A p \in Ranks : pc[p] = "uniform"
          BY <3>1 DEF UniformPass, AtAll
        <4>2. passes + left = input.uniform
          BY <2>2, <4>1, RanksAssumption DEF PassesKnown
        <4>3. /\ passes' + left' = input.uniform
              /\ passes' <= input.uniform + Local
          BY <1>n, <4>1, <4>2, PassArithmetic
        <4> QED BY <1>i, <1>l, <4>1, <4>3 DEF PassesKnown, InLoop
      <3>2. CASE Agree
        <4>1. /\ passes' = passes /\ \A p \in Ranks : pc[p] = "max"
              /\ pc' = [p \in Ranks |-> "agreed"]
          BY <3>2 DEF Agree, AtAll, AllTo
        <4> QED BY <1>i, <1>l, <2>0, <2>2, <4>1 DEF PassesKnown, InLoop
      <3>3. CASE RefineAndCoarsen
        <4>1. /\ passes' = passes + 1 /\ \A p \in Ranks : pc[p] = "refine"
              /\ pc' = [p \in Ranks |-> AfterPass]
          BY <3>3 DEF RefineAndCoarsen, AtAll, AllTo
        <4>2. AfterPass = "done"
          BY <2>2 DEF AfterPass, Counts
        <4>3. input.local /\ passes = input.uniform
          BY <2>2, <4>1, RanksAssumption DEF PassesKnown, InLoop
        <4>4. passes' <= input.uniform + Local
          BY <1>n, <4>1, <4>3, PassArithmetic DEF Local
        <4> QED BY <1>i, <1>l, <4>1, <4>2, <4>4 DEF PassesKnown, InLoop
      <3>4. ASSUME NEW q \in Ranks, RefineAlone(q)
            PROVE  PassesKnown'
        <4>1. UNCHANGED <<left, passes>>
          BY <3>4 DEF RefineAlone, UniformDone, Flag, Leave, StartPass
        <4>2. \/ /\ pc[q] = "uniform" /\ left = 0
                 /\ pc' = [pc EXCEPT ![q] = IF input.local THEN "flag"
                                            ELSE "done"]
              \/ /\ pc[q] \in InLoop
                 /\ pc' \in {[pc EXCEPT ![q] = "max"],
                             [pc EXCEPT ![q] = "done"],
                             [pc EXCEPT ![q] = "refine"]}
          BY <3>4 DEF RefineAlone, UniformDone, Flag, Leave, StartPass, InLoop
        <4>3. pc[q] = "uniform" /\ left = 0 => passes = input.uniform
          BY <1>n, <2>2, PassArithmetic DEF PassesKnown
        <4>4. input.local \in BOOLEAN /\ pc \in [Ranks -> PCs]
          BY InputFacts DEF Places
        <4>5. \A p \in Ranks : pc'[p] = "uniform" => pc[p] = "uniform"
          BY <4>2, <4>4
        <4>6. \A p \in Ranks :
                pc'[p] \in InLoop => input.local /\ passes = input.uniform
          BY <2>2, <4>2, <4>3, <4>4 DEF PassesKnown, InLoop
        <4> QED BY <1>i, <1>l, <2>2, <4>1, <4>5, <4>6 DEF PassesKnown
      <3> QED BY <1>3, <3>1, <3>2, <3>3, <3>4
              DEF Refining, RefineTogether, Alone
    <2> QED BY <2>0, <2>1, <2>2 DEF RefiningStages
  <1>4. CASE /\ ~EnterRestartRefinement /\ ~EndRestartRefinement
             /\ Construct \/ RunAll
    <2>1. stage' \notin {"refining again", "reinit"}
      BY <1>4 DEF Construct, RunAll, BuildMesh, EnterBuildRefinement,
        SkipBuildRefinement, EndBuildRefinement, BuildSolver,
        InitMultiphysicsSystem, InitQoIs, BuildErrorEstimator, ReadRestart,
        Reinit, CheckForUnusedVars, Fail, Stop, Run, Solving, EndSolve,
        RunOther, PrintQoI, Stage
    <2> QED BY <2>1 DEF PassesKnown
  <1>5. CASE UNCHANGED vars
    BY <1>5, <1>l DEF vars, meshVars, PassesKnown
  <1> QED BY <1>1, <1>2, <1>3, <1>4, <1>5 DEF Next, Together

LEMMA PassesInvariant == Spec => []PassesKnown
  <1>1. Init => PassesKnown
    BY DEF Init, PassesKnown
  <1> QED BY <1>1, PassesStep, InputInvariant, PlacesInvariant,
             CountsInvariant, PTL DEF Spec

--------------------------------------------------------------------------
(* What the solution vector holds. *)

FromStart == IF input.ics["ids"] = 1 THEN "initial" ELSE "zero"
Expected == IF input.restart \in {"xdr", "xda"} THEN "restart" ELSE FromStart
Holds ==
  /\ loadedOn \in {{}, Coarse}
  /\ stage = "built" => mesh = Coarse
  /\ Restarting /\ stage \in {"solver", "physics", "qois", "estimator",
                               "restart"} => mesh = Coarse
  /\ stage \in {"qois", "estimator", "restart"} => values = FromStart
  /\ stage \in {"read", "refining again", "reinit"} => values = Expected
  /\ Ready /\ OnePass => values \in {Expected, "solved"}

LEMMA HoldsStep ==
  ASSUME input \in Inputs, Places, Counts, PassesKnown, Holds, [Next]_vars
  PROVE  Holds'
  <1>i. UNCHANGED <<input, FromStart, Expected, Restarting, OnePass>>
    BY DEF Next, vars, FromStart, Expected, Restarting, OnePass
  <1>1. CASE BuildMesh
    BY <1>1, <1>i DEF BuildMesh, Stage, Holds, Ready
  <1>2. CASE InitMultiphysicsSystem
    BY <1>2, <1>i
    DEF InitMultiphysicsSystem, InitialValues, HasInitialFunction, Stage,
        Holds, Ready, FromStart
  <1>3. CASE BuildErrorEstimator
    <2>1. /\ stage = "estimator"
          /\ stage' = IF Restarting THEN "restart" ELSE "check"
          /\ UNCHANGED <<mesh, values, loadedOn>>
      BY <1>3 DEF BuildErrorEstimator, Stage, meshVars
    <2>2. ~Restarting => Expected = FromStart
      BY DEF Restarting, Expected
    <2> QED BY <1>i, <2>1, <2>2 DEF Holds, Ready
  <1>4. CASE ReadRestart
    <2>1. /\ stage = "restart" /\ stage' = "read" /\ mesh' = mesh
          /\ Readable /\ Restarting
          /\ IF input.restart = "none" THEN UNCHANGED <<values, loadedOn>>
             ELSE values' = "restart" /\ loadedOn' = mesh
      BY <1>4 DEF ReadRestart, Stage, meshVars, Counts
    <2>2. /\ input.restart = "none" => Expected = FromStart
          /\ input.restart # "none" => Expected = "restart"
      BY <2>1 DEF Readable, Expected
    <2>3. values' = Expected /\ loadedOn' \in {{}, Coarse}
      BY <2>1, <2>2 DEF Holds
    <2> QED BY <1>i, <2>1, <2>3 DEF Holds, Ready
  <1>5. CASE Reinit
    <2>1. /\ stage = "reinit" /\ stage' = "check"
          /\ UNCHANGED <<mesh, loadedOn>>
          /\ passes <= 1 => values' = values
      BY <1>5 DEF Reinit, Stage
    <2>2. passes <= input.uniform + Local
      BY <2>1 DEF PassesKnown
    <2>3. /\ input.uniform \in Nat /\ passes \in Nat /\ Local \in {0, 1}
      BY InputFacts DEF Places, Local
    <2>4. OnePass => passes <= 1
      BY <2>2, <2>3, PassArithmetic DEF OnePass, Local
    <2> QED BY <1>i, <2>1, <2>4 DEF Holds, Ready
  <1>6. CASE RunAll
    <2>1. /\ stage \in {"run", "solving", "print"}
          /\ stage' \in {"run", "solving", "print", "done", "error"}
          /\ UNCHANGED <<mesh, loadedOn>>
          /\ values' \in {values, "solved"}
      BY <1>6 DEF RunAll, Run, Solving, EndSolve, RunOther, PrintQoI, Stage,
                  meshVars
    <2> QED BY <1>i, <2>1 DEF Holds, Ready
  <1>7. CASE Refining(RefineTogether) \/ \E p \in Ranks : Alone(p)
    <2>1. /\ stage \in RefiningStages
          /\ UNCHANGED <<stage, values, loadedOn>>
      BY <1>7 DEF Alone, Refining, RefiningStages
    <2> QED BY <1>i, <2>1 DEF Holds, Ready, RefiningStages
  <1>8. CASE EndBuildRefinement
    <2>1. /\ stage = "refining" /\ stage' = "solver" /\ ~Restarting
          /\ UNCHANGED <<values, loadedOn>>
      BY <1>8 DEF EndBuildRefinement, Counts
    <2> QED BY <1>i, <2>1 DEF Holds, Ready
  <1>9. CASE EnterBuildRefinement \/ EnterRestartRefinement
               \/ EndRestartRefinement
    BY <1>9, <1>i
    DEF EnterBuildRefinement, EnterRestartRefinement, EndRestartRefinement,
        Stage, Holds, Ready
  <1>10. CASE SkipBuildRefinement \/ BuildSolver \/ InitQoIs
                \/ CheckForUnusedVars \/ Fail
    BY <1>10, <1>i
    DEF SkipBuildRefinement, BuildSolver, InitQoIs, CheckForUnusedVars, Fail,
        Stop, Stage, meshVars, Holds, Ready
  <1>11. CASE UNCHANGED vars
    BY <1>11, <1>i DEF vars, meshVars, Holds, Ready
  <1> QED BY <1>1, <1>2, <1>3, <1>4, <1>5, <1>6, <1>7, <1>8, <1>9, <1>10,
             <1>11 DEF Next, Together, Construct

LEMMA HoldsInvariant == Spec => []Holds
  <1>1. Init => Holds
    BY DEF Init, InitMesh, Holds, Ready
  <1> QED BY <1>1, HoldsStep, InputInvariant, PlacesInvariant,
             CountsInvariant, PassesInvariant, PTL DEF Spec

\* The data of a restart file is read on the mesh of the input, and it, or
\* the initial conditions, are what the solver starts from, if the input asks
\* for one pass of refinement at most (Simulation::init_restart).
THEOREM RestartIsKept == Spec => []RestartKeepsSolution
  <1>1. Holds => RestartKeepsSolution
    BY DEF Holds, RestartKeepsSolution, Expected, FromStart
  <1> QED BY <1>1, HoldsInvariant, PTL

--------------------------------------------------------------------------
(* What the processors know of the mesh.  An element comes from one coarse *)
(* element, as do its children; levels and wishes are numbers.             *)

ElementsAssumption ==
  /\ \A e \in Coarse : Origin(e) \in Coarse
  /\ \A e : \A f \in Children(e) : Origin(f) = Origin(e)
  /\ \A e : Level(e) \in Int
  /\ \A i, e : Wanted(i, e) \in Int

AnyNeeds == \E e \in mesh : Needs(e)
SeesNeed(p) == \E e \in Active(p) : Needs(e)
Knowing(p) ==
  /\ pc[p] = "max" => (found[p] <=> SeesNeed(p))
  /\ pc[p] = "agreed" => (found[p] <=> AnyNeeds)
  /\ pc[p] = "done" /\ ~Restarting => ~AnyNeeds
Settled == stage \notin {"build", "built", "refining", "error"}
Knows ==
  /\ owner \in [Coarse -> Ranks]
  /\ \A e \in mesh : Origin(e) \in Coarse
  /\ stage \in RefiningStages /\ input.local => \A p \in Ranks : Knowing(p)
  /\ input.local /\ ~Restarting /\ Settled => ~AnyNeeds

\* Between them the processors see every element.
LEMMA AllIsSeen ==
  ASSUME Knows
  PROVE  /\ \A p \in Ranks : Active(p) \subseteq mesh
         /\ \A e \in mesh : \E p \in Ranks : e \in Active(p)
  <1>1. ASSUME NEW e \in mesh
        PROVE  \E p \in Ranks : e \in Active(p)
    <2>1. owner[Origin(e)] \in Ranks
      BY DEF Knows
    <2> QED BY <2>1 DEF Active, Own
  <1> QED BY <1>1 DEF Active, Own

\* What a step has to show that leaves the mesh alone.
LEMMA SameMesh ==
  ASSUME UNCHANGED <<input, owner, mesh>>, Knows,
         stage' \in RefiningStages /\ input.local =>
           \A p \in Ranks :
             /\ pc'[p] = "max" => (found'[p] <=> SeesNeed(p))
             /\ pc'[p] = "agreed" => (found'[p] <=> AnyNeeds)
             /\ pc'[p] = "done" /\ ~Restarting => ~AnyNeeds,
         input.local /\ ~Restarting /\ Settled' => ~AnyNeeds
  PROVE  Knows'
  <1>1. UNCHANGED <<AnyNeeds, Restarting>>
    BY DEF AnyNeeds, Restarting, Needs
  <1>2. \A p \in Ranks : Active(p)' = Active(p)
    BY DEF Active, Own
  <1>3. \A p \in Ranks : SeesNeed(p)' <=> SeesNeed(p)
    BY <1>2 DEF SeesNeed, Needs
  <1>4. ASSUME stage' \in RefiningStages, input.local, NEW p \in Ranks
        PROVE  Knowing(p)'
    BY <1>1, <1>3, <1>4 DEF Knowing
  <1>5. (stage \in RefiningStages /\ input.local
           => \A p \in Ranks : Knowing(p))'
    BY <1>4
  <1> QED BY <1>1, <1>5 DEF Knows

LEMMA KnowsStep ==
  ASSUME ElementsAssumption, input \in Inputs, Places, Counts, Knows,
         [Next]_vars
  PROVE  Knows'
  <1>i. UNCHANGED <<input, owner, Restarting>>
    BY DEF Next, Together, Construct, RunAll, Alone, Refining, RefineTogether,
      RefineAlone, BuildMesh, EnterBuildRefinement, SkipBuildRefinement,
      EndBuildRefinement, BuildSolver, InitMultiphysicsSystem, InitQoIs,
      BuildErrorEstimator, ReadRestart, EnterRestartRefinement,
      EndRestartRefinement, Reinit, CheckForUnusedVars, Fail, Stop, Run,
      Solving, EndSolve, RunOther, PrintQoI, UniformPass, Agree,
      RefineAndCoarsen, UniformDone, Flag, Leave, StartPass, EnterRefinement,
      LeaveRefinement, Restarting, meshVars, vars
  <1>1. CASE BuildMesh
    <2>1. stage' = "built" /\ mesh' = Coarse
      BY <1>1 DEF BuildMesh, Stage
    <2> QED BY <1>i, <2>1 DEF Knows, Settled, RefiningStages,
                              ElementsAssumption
  <1>2. CASE EnterBuildRefinement \/ EnterRestartRefinement
    <2>1. /\ mesh' = mesh /\ pc' = [p \in Ranks |-> "uniform"]
          /\ \/ stage = "built" /\ stage' = "refining"
             \/ stage = "read" /\ stage' = "refining again"
      BY <1>2 DEF EnterBuildRefinement, EnterRestartRefinement, Stage,
                  EnterRefinement, AllTo
    <2>2. ~Settled \/ (stage' = "refining again" /\ stage = "read")
      BY <2>1 DEF Settled
    <2>3. input.local /\ ~Restarting /\ Settled' => ~AnyNeeds
      BY <2>1, <2>2 DEF Settled, Knows
    <2> QED BY <1>i, <2>1, <2>3, SameMesh
  <1>3. CASE EndBuildRefinement \/ EndRestartRefinement
    <2>1. /\ mesh' = mesh /\ \A p \in Ranks : pc[p] = "done"
          /\ \/ stage = "refining" /\ stage' = "solver"
             \/ stage = "refining again" /\ stage' = "reinit"
      BY <1>3 DEF EndBuildRefinement, EndRestartRefinement, LeaveRefinement,
                  AtAll
    <2>2. input.local /\ ~Restarting => ~AnyNeeds
      BY <2>1, RanksAssumption DEF Knows, Knowing, RefiningStages
    <2>3. stage' \notin RefiningStages
      BY <2>1 DEF RefiningStages
    <2> QED BY <1>i, <2>1, <2>2, <2>3, SameMesh
  <1>4. CASE SkipBuildRefinement
    <2>1. mesh' = mesh /\ stage' \notin RefiningStages /\ Restarting
      BY <1>4 DEF SkipBuildRefinement, Stage, RefineAtBuild, RefiningStages,
                  meshVars
    <2> QED BY <1>i, <2>1, SameMesh
  <1>5. CASE BuildSolver \/ InitMultiphysicsSystem \/ InitQoIs
               \/ BuildErrorEstimator \/ ReadRestart \/ Reinit
               \/ CheckForUnusedVars \/ Fail \/ RunAll
    <2>1. /\ mesh' = mesh
          /\ stage' \notin RefiningStages \union {"build", "built"}
          /\ stage \notin {"build", "built", "refining"} \/ stage' = "error"
      BY <1>5 DEF BuildSolver, InitMultiphysicsSystem, InitQoIs,
        BuildErrorEstimator, ReadRestart, Reinit, CheckForUnusedVars, Fail,
        Stop, RunAll, Run, Solving, EndSolve, RunOther, PrintQoI, Stage,
        RefiningStages, meshVars
    <2>2. stage = "error" => stage' = "error"
      BY <1>5 DEF BuildSolver, InitMultiphysicsSystem, InitQoIs,
        BuildErrorEstimator, ReadRestart, Reinit, CheckForUnusedVars, Fail,
        Stop, RunAll, Run, Solving, EndSolve, RunOther, PrintQoI, Stage
    <2>3. input.local /\ ~Restarting /\ Settled' => ~AnyNeeds
      BY <2>1, <2>2 DEF Settled, Knows
    <2> QED BY <1>i, <2>1, <2>3, SameMesh
  <1>6. CASE Refining(RefineTogether)
    <2>0. stage \in RefiningStages /\ stage' = stage
      BY <1>6 DEF Refining, RefiningStages
    <2>1. CASE UniformPass
      <3>1. /\ mesh' = UNION {Children(e) : e \in mesh}
            /\ pc' = pc /\ \A p \in Ranks : pc[p] = "uniform"
        BY <2>1 DEF UniformPass, AtAll
      <3>2. \A e \in mesh' : Origin(e) \in Coarse
        BY <3>1 DEF Knows, ElementsAssumption
      <3>3. \A p \in Ranks : Knowing(p)'
        BY <3>1 DEF Knowing
      <3>4. stage = "refining again" => Restarting
        BY DEF Counts
      <3> QED BY <1>i, <2>0, <3>2, <3>3, <3>4 DEF Knows, Settled, RefiningStages
    <2>2. CASE Agree
      <3>1. /\ mesh' = mesh /\ \A p \in Ranks : pc[p] = "max"
            /\ pc' = [p \in Ranks |-> "agreed"]
            /\ found' = [p \in Ranks |-> \E r \in Ranks : found[r]]
        BY <2>2 DEF Agree, Agreed, AtAll, AllTo
      <3>2. ASSUME input.local
            PROVE  (\E r \in Ranks : found[r]) <=> AnyNeeds
        <4>1. \A r \in Ranks :
                found[r] <=> \E e \in Active(r) : Needs(e)
          BY <2>0, <3>1, <3>2 DEF Knows, Knowing, SeesNeed
        <4> QED BY <4>1, AllIsSeen DEF AnyNeeds
      <3>3. \A p \in Ranks : found'[p] <=> \E r \in Ranks : found[r]
        BY <3>1
      <3>4. \A p \in Ranks : pc'[p] = "agreed"
        BY <3>1
      <3>5. stage = "refining again" => Restarting
        BY DEF Counts
      <3>6. input.local =>
              \A p \in Ranks :
                /\ pc'[p] = "max" => (found'[p] <=> SeesNeed(p))
                /\ pc'[p] = "agreed" => (found'[p] <=> AnyNeeds)
                /\ pc'[p] = "done" /\ ~Restarting => ~AnyNeeds
        BY <3>2, <3>3, <3>4, Zenon
      <3>7. ~Restarting => ~Settled'
        BY <2>0, <3>5 DEF Settled, RefiningStages
      <3> QED BY <1>i, <3>1, <3>6, <3>7, SameMesh
    <2>3. CASE RefineAndCoarsen
      <3>1. /\ mesh' = (mesh \ Marked) \union UNION {Children(e) : e \in Marked}
            /\ pc' = [p \in Ranks |-> AfterPass]
        BY <2>3 DEF RefineAndCoarsen, AllTo
      <3>2. Marked \subseteq mesh
        BY DEF Marked
      <3>3. \A e \in mesh' : Origin(e) \in Coarse
        BY <3>1, <3>2 DEF Knows, ElementsAssumption
      <3>4. \A p \in Ranks :
              pc'[p] \notin {"max", "agreed"} /\ (pc'[p] = "done" => Restarting)
        BY <3>1 DEF AfterPass
      <3>5. stage = "refining again" => Restarting
        BY DEF Counts
      <3>6. ASSUME stage' = "refining", NEW p \in Ranks
            PROVE  Knowing(p)'
        BY <1>i, <3>4 DEF Knowing
      <3>7. ASSUME stage' = "refining again", NEW p \in Ranks
            PROVE  Knowing(p)'
        BY <1>i, <2>0, <3>4, <3>5, <3>7 DEF Knowing
      <3> QED BY <1>i, <2>0, <3>3, <3>5, <3>6, <3>7
              DEF Knows, Settled, RefiningStages
    <2> QED BY <1>6, <2>1, <2>2, <2>3 DEF Refining, RefineTogether
  <1>7. ASSUME NEW q \in Ranks, Alone(q)
        PROVE  Knows'
    <2>0. /\ stage \in RefiningStages /\ UNCHANGED <<stage, mesh>>
          /\ RefineAlone(q)
      BY <1>7 DEF Alone, Refining, RefiningStages, RefineAlone, UniformDone,
                  Flag, Leave, StartPass
    <2>p. pc \in [Ranks -> PCs] /\ found \in [Ranks -> BOOLEAN]
      BY DEF Places
    <2>f. input.local /\ ~Restarting /\ Settled' => ~AnyNeeds
      BY <2>0 DEF Knows, Settled
    <2>k. input.local => \A p \in Ranks : Knowing(p)
      BY <2>0 DEF Knows
    <2>1. CASE UniformDone(q)
      <3>1. /\ found' = found
            /\ pc' = [pc EXCEPT ![q] = IF input.local THEN "flag" ELSE "done"]
        BY <2>1 DEF UniformDone
      <3>2. input.local => \A p \in Ranks : pc'[p] = pc[p] \/ pc'[p] = "flag"
        BY <2>p, <3>1
      <3> QED BY <1>i, <2>0, <2>f, <2>k, <3>1, <3>2, SameMesh DEF Knowing
    <2>2. CASE Flag(q)
      <3>1. /\ found' = [found EXCEPT ![q] = SeesNeed(q)]
            /\ pc' = [pc EXCEPT ![q] = "max"]
        BY <2>2 DEF Flag, SeesNeed
      <3>2. pc'[q] = "max" /\ \A p \in Ranks \ {q} : pc'[p] = pc[p]
        BY <2>p, <3>1
      <3>3. (found'[q] <=> SeesNeed(q))
              /\ \A p \in Ranks : p # q => (found'[p] <=> found[p])
        BY <2>p, <3>1, Zenon
      <3>4. input.local =>
              \A p \in Ranks :
                /\ pc'[p] = "max" => (found'[p] <=> SeesNeed(p))
                /\ pc'[p] = "agreed" => (found'[p] <=> AnyNeeds)
                /\ pc'[p] = "done" /\ ~Restarting => ~AnyNeeds
        <4> SUFFICES ASSUME input.local, NEW p \in Ranks
                     PROVE  /\ pc'[p] = "max" => (found'[p] <=> SeesNeed(p))
                            /\ pc'[p] = "agreed" => (found'[p] <=> AnyNeeds)
                            /\ pc'[p] = "done" /\ ~Restarting => ~AnyNeeds
          OBVIOUS
        <4>1. CASE p = q
          BY <4>1, <3>2, <3>3
        <4>2. CASE p # q
          BY <4>2, <2>k, <3>2, <3>3 DEF Knowing
        <4> QED BY <4>1, <4>2
      <3> QED BY <1>i, <2>0, <2>f, <3>4, SameMesh
    <2>3. CASE Leave(q) \/ StartPass(q)
      <3>1. /\ found' = found /\ pc[q] = "agreed"
            /\ \/ pc' = [pc EXCEPT ![q] = "done"] /\ ~found[q]
               \/ pc' = [pc EXCEPT ![q] = "refine"]
        BY <2>3 DEF Leave, StartPass
      <3>2. \A p \in Ranks \ {q} : pc'[p] = pc[p]
        BY <2>p, <3>1
      <3>3. pc'[q] = "refine" \/ (pc'[q] = "done" /\ ~found[q])
        BY <2>p, <3>1
      <3>4. input.local /\ ~found[q] => ~AnyNeeds
        BY <2>k, <3>1 DEF Knowing
      <3> QED BY <1>i, <2>0, <2>f, <2>k, <3>1, <3>2, <3>3, <3>4, SameMesh
              DEF Knowing
    <2> QED BY <2>0, <2>1, <2>2, <2>3 DEF RefineAlone
  <1>8. CASE UNCHANGED vars
    <2>1. UNCHANGED <<mesh, stage, pc, found>>
      BY <1>8 DEF vars, meshVars
    <2> QED BY <1>i, <2>1, SameMesh DEF Knows, Knowing, Settled
  <1> QED BY <1>1, <1>2, <1>3, <1>4, <1>5, <1>6, <1>7, <1>8
          DEF Next, Together, Construct

LEMMA KnowsInvariant ==
  ASSUME ElementsAssumption
  PROVE  Spec => []Knows
  <1>1. Init => Knows
    BY DEF Init, InitMesh, Knows, Settled, RefiningStages
  <1>2. input \in Inputs /\ Places /\ Counts /\ Knows /\ [Next]_vars => Knows'
    BY KnowsStep
  <1> QED BY <1>1, <1>2, InputInvariant, PlacesInvariant, CountsInvariant,
             PTL DEF Spec

\* When the construction is over no active element of the mesh needs another
\* refinement, although no processor of a distributed mesh sees all of them
\* (MeshBuilder::do_mesh_refinement_from_input).
THEOREM MeshIsAsAsked ==
  ASSUME ElementsAssumption
  PROVE  Spec => []MeshAsAsked
  <1>1. ASSUME input \in Inputs, Knows
        PROVE  MeshAsAsked
    <2>1. ASSUME NEW e \in mesh, ~Needs(e)
          PROVE  Level(e) >= input.uniform + Wanted(input, e)
      <3>1. /\ Level(e) \in Int /\ Wanted(input, e) \in Int
            /\ input.uniform \in Int
        BY <1>1, InputFacts DEF ElementsAssumption
      <3>2. ~(Level(e) - input.uniform < Wanted(input, e))
        BY <2>1 DEF Needs
      <3> QED BY <3>1, <3>2
    <2> QED BY <1>1, <2>1 DEF MeshAsAsked, Knows, Ready, Settled, AnyNeeds
  <1> QED BY <1>1, InputInvariant, KnowsInvariant, PTL

--------------------------------------------------------------------------
(* How far the solver is.  Shown(k) is the list of conditions with the     *)
(* displacement of increment k; there is none before the first increment.  *)

Shown(k) ==
  IF k = 0 THEN input.dirichlet ELSE [input.dirichlet EXCEPT ![index].value = k]

Early == {"build", "built", "refining", "solver", "physics"}
Waiting == {"qois", "estimator", "restart", "read", "refining again", "reinit",
            "check", "run"}
Initialised ==
  /\ dirichlet = input.dirichlet /\ constraints = input.dirichlet
  /\ input.continuation => index = FirstIndex

\* A continuation has solved for the increments begun, except the last while
\* it is in between, and its last file is of a begun increment.
Continuing ==
  /\ index = FirstIndex
  /\ step \in Nat /\ step <= input.increments
  /\ dirichlet = Shown(step) /\ constraints = Shown(step)
  /\ at \in {"next", "solve", "output", "end"}
  /\ at \in {"solve", "output"} => step > 0
  /\ at = "output" \/ (at \in {"next", "end"} /\ step > 0)
       => solution = Shown(step)
  /\ at \in {"next", "end"} /\ step > 0 /\ input.outputVis
       => file.holds = solution
  /\ at = "end" => step = input.increments
  /\ file # NoFile =>
       /\ file.step \in Nat
       /\ file.holds = Shown(file.step + 1)
SolvingOnce ==
  /\ dirichlet = input.dirichlet /\ constraints = input.dirichlet
  /\ at \in {"initial", "solve", "output", "residual", "end"}
  /\ at \in {"output", "residual", "end"} => solution = input.dirichlet
  /\ at \in {"residual", "end"} /\ input.outputVis => file.holds = solution
  /\ at = "end" /\ input.outputResidual => residualFile = solution

Solves ==
  /\ at = "outside" => step = 0 /\ file = NoFile
  /\ stage \in Early \union Waiting => at = "outside"
  /\ stage \in Waiting => Initialised
  /\ at # "outside" =>
       IF input.continuation THEN Continuing ELSE SolvingOnce

\* Setting the displacement again leaves nothing of the one before.
LEMMA ShownAgain ==
  ASSUME NEW k \in Nat, NEW n \in Nat, n # 0
  PROVE  [Shown(k) EXCEPT ![index].value = n] = Shown(n)
  <1>1. CASE k = 0
    BY <1>1 DEF Shown
  <1>2. CASE k # 0
    <2>1. Shown(k) = [input.dirichlet EXCEPT ![index].value = k]
      BY <1>2 DEF Shown
    <2>2. Shown(n) = [input.dirichlet EXCEPT ![index].value = n]
      BY DEF Shown
    <2> QED BY <2>1, <2>2
  <1> QED BY <1>1, <1>2

\* What the list with a displacement is.
LEMMA ShownIs ==
  ASSUME input \in Inputs, NEW k \in Nat, k # 0,
         index \in DOMAIN input.dirichlet
  PROVE  /\ DOMAIN Shown(k) = DOMAIN input.dirichlet
         /\ \A j \in DOMAIN input.dirichlet :
              /\ Shown(k)[j].ids = input.dirichlet[j].ids
              /\ Shown(k)[j].vars = input.dirichlet[j].vars
              /\ j # index => Shown(k)[j] = input.dirichlet[j]
         /\ Shown(k)[index].value = k
  <1>1. Shown(k) = [input.dirichlet EXCEPT ![index].value = k]
    BY DEF Shown
  <1>2. \A j \in DOMAIN input.dirichlet : input.dirichlet[j] \in Conditions
    BY InputFacts
  <1> QED BY <1>1, <1>2 DEF Conditions

\* The arithmetic of the increments.
LEMMA StepArithmetic ==
  ASSUME NEW k \in Nat, NEW n \in Nat
  PROVE  /\ k > 0 => k - 1 \in Nat /\ (k - 1) + 1 = k
         /\ k < n => k + 1 \in Nat /\ k + 1 <= n /\ k + 1 > 0 /\ k + 1 # 0
         /\ k <= n /\ k >= n => k = n
  OBVIOUS

LEMMA SolverStepSolves ==
  ASSUME input \in Inputs, Solves, SolverStep, UNCHANGED input,
         at # "outside", stage = "solving", stage' = "solving"
  PROVE  Solves'
  <1>c. input.continuation \in BOOLEAN /\ input.outputVis \in BOOLEAN
        /\ input.increments \in Nat
    BY InputFacts
  <1>i. index' = index
    BY DEF SolverStep, OutputInitial, IncrementDisplacement, SolveSystem,
           Output, OutputResidual, EndContinuation
  <1>g. ASSUME index = FirstIndex,
               step' \in Nat, step' <= input.increments,
               dirichlet' = Shown(step'), constraints' = Shown(step'),
               at' \in {"next", "solve", "output", "end"},
               at' \in {"solve", "output"} => step' > 0,
               at' = "output" \/ (at' \in {"next", "end"} /\ step' > 0)
                 => solution' = Shown(step'),
               at' \in {"next", "end"} /\ step' > 0 /\ input.outputVis
                 => file'.holds = solution',
               at' = "end" => step' = input.increments,
               file' # NoFile =>
                 /\ file'.step \in Nat
                 /\ file'.holds = Shown(file'.step + 1)
        PROVE  Continuing'
    BY <1>g, <1>i
    DEF Continuing, Shown, FirstIndex, OnBoundary, NoFile, NoSolution
  <1>o. at' # "outside"
    BY DEF SolverStep, OutputInitial, IncrementDisplacement, SolveSystem,
           Output, OutputResidual, EndContinuation
  <1>1. CASE input.continuation
    <2>0. Continuing
      BY <1>1 DEF Solves
    <2>1. SUFFICES Continuing'
      BY <1>1, <1>o DEF Solves, Early, Waiting
    <2>k. step \in Nat
      BY <2>0 DEF Continuing
    <2>2. CASE OutputInitial
      BY <2>0, <2>2 DEF OutputInitial, Continuing
    <2>3. CASE IncrementDisplacement
      <3>1. /\ at = "next" /\ at' = "solve" /\ step < input.increments
            /\ dirichlet' = Displaced /\ constraints' = Displaced
            /\ step' = step + 1 /\ UNCHANGED <<solution, file>>
        BY <2>3 DEF IncrementDisplacement, AfterReinit
      <3>2. step + 1 \in Nat /\ step + 1 <= input.increments /\ step + 1 > 0
            /\ step + 1 # 0
        BY <1>c, <2>k, <3>1, StepArithmetic
      <3>3. dirichlet = Shown(step)
        BY <2>0 DEF Continuing
      <3>4. Displaced = Shown(step + 1)
        BY <2>k, <3>2, <3>3, ShownAgain DEF Displaced
      <3>5. /\ step' \in Nat /\ step' <= input.increments /\ step' > 0
            /\ dirichlet' = Shown(step') /\ constraints' = Shown(step')
        BY <3>1, <3>2, <3>4
      <3> QED BY <1>g, <2>0, <3>1, <3>5 DEF Continuing
    <2>4. CASE SolveSystem
      <3>1. /\ at = "solve" /\ at' = "output" /\ solution' = constraints
            /\ UNCHANGED <<dirichlet, constraints, step, file>>
        BY <2>4 DEF SolveSystem
      <3> QED BY <1>g, <2>0, <3>1 DEF Continuing
    <2>5. CASE Output
      <3>1. /\ at = "output" /\ at' = "next"
            /\ UNCHANGED <<dirichlet, constraints, step, solution>>
            /\ file' = IF input.outputVis
                       THEN [step |-> step - 1, holds |-> solution] ELSE file
        BY <1>1, <2>5 DEF Output, FileStep
      <3>2. step > 0 /\ solution = Shown(step)
        BY <2>0, <3>1 DEF Continuing
      <3>3. step - 1 \in Nat /\ (step - 1) + 1 = step
        BY <2>k, <3>2, StepArithmetic
      <3>4. file' # NoFile => /\ file'.step \in Nat
                              /\ file'.holds = Shown(file'.step + 1)
        <4>1. CASE input.outputVis
          BY <3>1, <3>2, <3>3, <4>1
        <4>2. CASE ~input.outputVis
          BY <2>0, <3>1, <4>2 DEF Continuing
        <4> QED BY <4>1, <4>2
      <3>5. input.outputVis => file'.holds = solution'
        BY <3>1
      <3> QED BY <1>g, <2>0, <3>1, <3>2, <3>4, <3>5 DEF Continuing
    <2>6. CASE EndContinuation
      <3>1. /\ at = "next" /\ at' = "end" /\ step >= input.increments
            /\ UNCHANGED <<dirichlet, constraints, step, solution, file>>
        BY <2>6 DEF EndContinuation
      <3>2. step = input.increments
        BY <1>c, <2>0, <2>k, <3>1, StepArithmetic DEF Continuing
      <3> QED BY <1>g, <2>0, <3>1, <3>2 DEF Continuing
    <2>7. CASE OutputResidual
      BY <2>0, <2>7 DEF OutputResidual, Continuing
    <2> QED BY <2>2, <2>3, <2>4, <2>5, <2>6, <2>7 DEF SolverStep
  <1>2. CASE ~input.continuation
    <2>0. SolvingOnce
      BY <1>2 DEF Solves
    <2>1. SUFFICES SolvingOnce'
      BY <1>2, <1>o DEF Solves, Early, Waiting
    <2> QED BY <1>2, <2>0
            DEF SolverStep, OutputInitial, IncrementDisplacement, SolveSystem,
                Output, OutputResidual, EndContinuation, SolvingOnce
  <1> QED BY <1>c, <1>1, <1>2

LEMMA SolvesStep ==
  ASSUME input \in Inputs, Solves, [Next]_vars
  PROVE  Solves'
  <1>i. UNCHANGED input
    BY DEF Next, vars
  <1>1. CASE InitMultiphysicsSystem
    <2>1. /\ stage = "physics" /\ stage' = "qois"
          /\ dirichlet' = input.dirichlet /\ constraints' = input.dirichlet
          /\ input.continuation => index' = FirstIndex
          /\ UNCHANGED <<step, file, at>>
      BY <1>1 DEF InitMultiphysicsSystem, InitializeSolver, Stage
    <2>2. at = "outside"
      BY <2>1 DEF Solves, Early
    <2>3. Initialised'
      BY <1>i, <2>1 DEF Initialised, FirstIndex, OnBoundary
    <2> QED BY <2>1, <2>2, <2>3 DEF Solves, Early, Waiting, NoFile, NoSolution
  <1>2. CASE Run
    <2>1. /\ stage = "run" /\ stage' = "solving"
          /\ at' = IF input.continuation THEN "next" ELSE "initial"
          /\ UNCHANGED <<dirichlet, index, step, constraints, solution, file>>
      BY <1>2 DEF Run, EnterSolve, Stage
    <2>2. Initialised /\ step = 0 /\ file = NoFile
      BY <2>1 DEF Solves, Waiting
    <2>3. input.increments \in Nat /\ input.continuation \in BOOLEAN
          /\ 0 <= input.increments
      BY InputFacts
    <2>4. input.continuation => Continuing'
      BY <1>i, <2>1, <2>2, <2>3
      DEF Continuing, Initialised, Shown, FirstIndex, OnBoundary, NoFile,
          NoSolution
    <2>5. ~input.continuation => SolvingOnce'
      BY <1>i, <2>1, <2>2 DEF SolvingOnce, Initialised
    <2> QED BY <1>i, <2>1, <2>4, <2>5 DEF Solves, Early, Waiting
  <1>3. CASE Solving
    <2>1. stage = "solving" /\ stage' = "solving" /\ SolverStep
      BY <1>3 DEF Solving
    <2>2. at # "outside"
      BY <2>1 DEF SolverStep, OutputInitial, IncrementDisplacement,
                  SolveSystem, Output, OutputResidual, EndContinuation
    <2> QED BY <1>i, <2>1, <2>2, SolverStepSolves
  <1>4. ASSUME UNCHANGED solverVars,
               stage' \in Early \union Waiting =>
                 stage \in Early \union Waiting,
               stage' \in Waiting => stage \in Waiting
        PROVE  Solves'
    <2>1. UNCHANGED <<dirichlet, index, step, constraints, solution, file,
                      residualFile, at>>
      BY <1>4 DEF solverVars
    <2>2. UNCHANGED Initialised
      BY <1>i, <2>1 DEF Initialised, FirstIndex, OnBoundary
    <2>3. UNCHANGED <<Continuing, SolvingOnce>>
      BY <1>i, <2>1
      DEF Continuing, SolvingOnce, Shown, FirstIndex, OnBoundary, NoFile,
          NoSolution
    <2> QED BY <1>i, <1>4, <2>1, <2>2, <2>3 DEF Solves, NoFile, NoSolution
  <1>5. CASE BuildMesh \/ EnterBuildRefinement \/ SkipBuildRefinement
               \/ EndBuildRefinement \/ BuildSolver \/ InitQoIs
    BY <1>5, <1>4
    DEF BuildMesh, EnterBuildRefinement, SkipBuildRefinement,
        EndBuildRefinement, BuildSolver, InitQoIs, Stage, Early, Waiting
  <1>6. CASE BuildErrorEstimator
    <2>1. /\ stage = "estimator" /\ UNCHANGED solverVars
          /\ stage' \in {"restart", "check"}
      BY <1>6 DEF BuildErrorEstimator, Stage
    <2> QED BY <1>4, <2>1 DEF Early, Waiting
  <1>7. CASE ReadRestart \/ EnterRestartRefinement \/ EndRestartRefinement
               \/ Reinit \/ CheckForUnusedVars \/ Fail
    BY <1>7, <1>4
    DEF ReadRestart, EnterRestartRefinement, EndRestartRefinement, Reinit,
        CheckForUnusedVars, Fail, Stop, Stage, Early, Waiting
  <1>8. CASE EndSolve \/ RunOther \/ PrintQoI
    BY <1>8, <1>4 DEF EndSolve, RunOther, PrintQoI, Stage, Early, Waiting
  <1>9. CASE Refining(RefineTogether) \/ \E p \in Ranks : Alone(p)
    <2>1. UNCHANGED <<solverVars, stage>>
      BY <1>9 DEF Alone, Refining
    <2> QED BY <2>1, <1>4
  <1>10. CASE UNCHANGED vars
    BY <1>10, <1>4 DEF vars
  <1> QED BY <1>1, <1>2, <1>3, <1>5, <1>6, <1>7, <1>8, <1>9, <1>10
          DEF Next, Together, Construct, RunAll

LEMMA SolvesInvariant == Spec => []Solves
  <1>1. Init => Solves
    BY DEF Init, InitSolver, Solves, Early, Waiting
  <1> QED BY <1>1, SolvesStep, InputInvariant, PTL DEF Spec

\* The condition that is incremented is the displacement.
LEMMA DisplacementIsFirst ==
  ASSUME input \in Inputs, FirstIsDisplacement, index = FirstIndex
  PROVE  /\ index \in DOMAIN input.dirichlet
         /\ \A j \in OnBoundary : index <= j
         /\ IsDisplacement(input.dirichlet[index])
  <1>1. PICK i \in OnBoundary : /\ \A j \in OnBoundary : i <= j
                                /\ IsDisplacement(input.dirichlet[i])
    BY DEF FirstIsDisplacement
  <1>2. OnBoundary \subseteq Int /\ OnBoundary \subseteq DOMAIN input.dirichlet
    BY InputFacts DEF OnBoundary
  <1>3. /\ index \in OnBoundary
        /\ \A j \in OnBoundary : index <= j
    BY <1>1 DEF FirstIndex
  <1>4. index = i
    BY <1>1, <1>2, <1>3
  <1> QED BY <1>1, <1>2, <1>3, <1>4

\* The smallest of some numbers.
LEMMA LeastNatural ==
  ASSUME NEW T, T \subseteq Nat, T # {}
  PROVE  \E x \in T : \A y \in T : x <= y
  <1> DEFINE Upto == {0..i : i \in T}
  <1>1. Upto \subseteq FiniteSubsetsOf(Nat) /\ Upto # {}
    <2>1. ASSUME NEW i \in T
          PROVE  0..i \in SUBSET Nat /\ IsFiniteSet(0..i)
      <3>1. i \in Nat /\ i \in Int /\ 0 \in Int
        OBVIOUS
      <3> QED BY <3>1, FS_Interval
    <2> QED BY <2>1 DEF FiniteSubsetsOf
  <1>2. PICK u \in Upto :
          \A w \in Upto : <<w, u>> \notin StrictSubsetOrdering(Nat)
    <2> HIDE DEF Upto
    <2> QED BY <1>1, WFMin, FS_StrictSubsetOrderingWellFounded
  <1>3. PICK x \in T : u = 0..x
    OBVIOUS
  <1>4. ASSUME NEW y \in T, y < x
        PROVE  FALSE
    <2>1. x \in Nat /\ y \in Nat
      OBVIOUS
    <2>2. 0..y \subseteq 0..x /\ x \in 0..x /\ x \notin 0..y
      BY <1>4, <2>1
    <2>3. 0..y \in SUBSET Nat /\ 0..x \in SUBSET Nat
      BY <2>1
    <2>4. <<0..y, 0..x>> \in StrictSubsetOrdering(Nat)
      BY <2>2, <2>3 DEF StrictSubsetOrdering
    <2> QED BY <1>2, <1>3, <2>4
  <1>5. \A y \in T : x <= y
    BY <1>4
  <1> QED BY <1>5

\* What the list imposes with the displacement of an increment.
LEMMA ShownImposes ==
  ASSUME input \in Inputs, FirstIsDisplacement, index = FirstIndex,
         NEW k \in Nat, k # 0
  PROVE  /\ Imposed(Shown(k), "u") = k
         /\ \A v \in {"v", "w"} :
              Imposed(Shown(k), v) = Imposed(input.dirichlet, v)
         /\ \A i \in DOMAIN input.dirichlet :
              ~IsDisplacement(input.dirichlet[i]) =>
                Shown(k)[i] = input.dirichlet[i]
         /\ Shown(k) = <<>> => input.dirichlet = <<>>
  <1> DEFINE list == input.dirichlet
  <1>1. /\ index \in DOMAIN list
        /\ \A j \in OnBoundary : index <= j
        /\ list[index].vars = {"u"} /\ list[index].ids = {input.boundary}
    BY DisplacementIsFirst DEF IsDisplacement
  <1>2. /\ DOMAIN Shown(k) = DOMAIN list
        /\ \A j \in DOMAIN list :
             /\ Shown(k)[j].ids = list[j].ids
             /\ Shown(k)[j].vars = list[j].vars
             /\ j # index => Shown(k)[j] = list[j]
        /\ Shown(k)[index].value = k
    BY <1>1, ShownIs
  <1>3. \A v : Imposing(Shown(k), v) = Imposing(list, v)
    BY <1>2 DEF Imposing
  <1>4. Imposed(Shown(k), "u") = k
    <2>1. index \in Imposing(list, "u")
      BY <1>1 DEF Imposing
    <2>2. Imposing(list, "u") \subseteq OnBoundary
      BY DEF Imposing, OnBoundary
    <2>3. OnBoundary \subseteq Int
      BY InputFacts DEF OnBoundary
    <2>4. (CHOOSE i \in Imposing(list, "u") :
             \A j \in Imposing(list, "u") : i <= j) = index
      <3>1. \A i \in Imposing(list, "u") :
              (\A j \in Imposing(list, "u") : i <= j) => i = index
        <4> SUFFICES ASSUME NEW i \in Imposing(list, "u"), i <= index
                     PROVE  i = index
          BY <2>1
        <4>1. i \in Int /\ index \in Int /\ index <= i
          BY <1>1, <2>1, <2>2, <2>3
        <4> QED BY <4>1
      <3>2. \A j \in Imposing(list, "u") : index <= j
        BY <1>1, <2>2
      <3> QED BY <2>1, <3>1, <3>2, Zenon
    <2> QED BY <1>2, <1>3, <2>1, <2>4 DEF Imposed
  <1>5. ASSUME NEW v \in {"v", "w"}
        PROVE  Imposed(Shown(k), v) = Imposed(list, v)
    <2>1. Imposing(list, v) \subseteq DOMAIN list \ {index}
      BY <1>1 DEF Imposing
    <2>2. \A i \in Imposing(list, v) : Shown(k)[i] = list[i]
      BY <1>2, <2>1
    <2> DEFINE First(i) == \A j \in Imposing(list, v) : i <= j
    <2>3. CASE \E i \in Imposing(list, v) : First(i)
      <3> DEFINE first == CHOOSE i \in Imposing(list, v) : First(i)
      <3>1. first \in Imposing(list, v)
        BY <2>3, Zenon
      <3>2. Imposed(list, v) = list[first].value
        BY <3>1 DEF Imposed
      <3>3. Imposed(Shown(k), v) = Shown(k)[first].value
        BY <1>3, <3>1 DEF Imposed
      <3> HIDE DEF first
      <3> QED BY <2>2, <3>1, <3>2, <3>3
    <2>4. CASE Imposing(list, v) = {}
      BY <1>3, <2>4 DEF Imposed
    <2>5. Imposing(list, v) # {} => \E i \in Imposing(list, v) : First(i)
      <3>1. Imposing(list, v) \subseteq Nat
        BY InputFacts DEF Imposing
      <3> QED BY <3>1, LeastNatural
    <2> QED BY <2>3, <2>4, <2>5
  <1>6. ASSUME NEW i \in DOMAIN list, ~IsDisplacement(list[i])
        PROVE  Shown(k)[i] = list[i]
    BY <1>2, <1>6, DisplacementIsFirst
  <1>7. Shown(k) = <<>> => list = <<>>
    BY <1>1, <1>2
  <1> QED BY <1>4, <1>5, <1>6, <1>7

\* A file of the continuation holds the displacement of its number on the
\* boundary, and everything else as in the input, if the displacement is the
\* first condition of the boundary (DisplacementContinuationSolver::solve).
THEOREM FilesAlwaysHoldTheirDisplacement == Spec => []FilesHoldTheirDisplacement
  <1>1. ASSUME input \in Inputs, Solves
        PROVE  FilesHoldTheirDisplacement
    <2> SUFFICES ASSUME input.continuation, FirstIsDisplacement, file # NoFile
                 PROVE  FilesHoldTheirDisplacement
      BY DEF FilesHoldTheirDisplacement
    <2>1. Continuing
      BY <1>1 DEF Solves
    <2>2. /\ index = FirstIndex
          /\ file.step \in Nat /\ file.holds = Shown(file.step + 1)
      BY <2>1 DEF Continuing
    <2>3. file.step + 1 \in Nat /\ file.step + 1 # 0
      BY <2>2
    <2> QED BY <1>1, <2>2, <2>3, ShownImposes DEF FilesHoldTheirDisplacement
  <1> QED BY <1>1, InputInvariant, SolvesInvariant, PTL

\* solve() returns a solution under the conditions of the input, or under the
\* whole displacement, and the last file holds it.
THEOREM AlwaysEndsAsAsked == Spec => []EndsAsAsked
  <1>1. ASSUME input \in Inputs, Solves
        PROVE  EndsAsAsked
    <2> SUFFICES ASSUME at = "end", SomeIncrement
                 PROVE  EndsAsAsked
      BY DEF EndsAsAsked
    <2>1. input.continuation \in BOOLEAN /\ input.outputVis \in BOOLEAN
          /\ input.increments \in Nat
      BY <1>1, InputFacts
    <2>2. CASE ~input.continuation
      <3>1. SolvingOnce
        BY <1>1, <2>2 DEF Solves
      <3> QED BY <2>2, <3>1 DEF SolvingOnce, EndsAsAsked, NoSolution
    <2>3. CASE input.continuation
      <3>1. Continuing /\ input.increments > 0
        BY <1>1, <2>3 DEF Solves, SomeIncrement
      <3>2. /\ step = input.increments /\ step > 0 /\ index = FirstIndex
            /\ solution = Shown(step) /\ dirichlet = Shown(step)
            /\ input.outputVis => file.holds = solution
        BY <3>1 DEF Continuing
      <3>3. FirstIsDisplacement =>
              Imposed(solution, "u") = input.increments
        BY <1>1, <2>1, <3>2, ShownImposes
      <3>4. Shown(step) = <<>> => input.dirichlet = <<>>
        <4>1. DOMAIN Shown(step) = DOMAIN input.dirichlet
          BY <2>1, <3>2 DEF Shown
        <4>2. input.dirichlet \in Seq(Conditions)
          BY <1>1, InputFacts
        <4> QED BY <4>1, <4>2
      <3> QED BY <2>3, <3>2, <3>3, <3>4 DEF EndsAsAsked, NoSolution
    <2> QED BY <2>1, <2>2, <2>3
  <1> QED BY <1>1, InputInvariant, SolvesInvariant, PTL

--------------------------------------------------------------------------
(* The types.  Elements are flagged in a pass and the flags cleared with   *)
(* the refinement, so that those of a uniform pass are none; what the      *)
(* solver keeps are lists of conditions of the input.                      *)

FlagsKnown ==
  /\ flags \subseteq mesh
  /\ refinements = 0 \/ AtAll("uniform") => flags = {}
SolverTyped ==
  /\ dirichlet \in Seq(Conditions) /\ constraints \in Seq(Conditions)
  /\ index \in 0..Len(dirichlet) /\ step \in 0..input.increments
  /\ solution \in Seq(Conditions)
  /\ file \in [step: Int, holds: Seq(Conditions)]
  /\ residualFile \in Seq(Conditions)
  /\ at \in {"outside", "initial", "next", "solve", "output", "residual", "end"}
RestTyped ==
  /\ owner \in [Coarse -> Ranks] /\ refinements \in Nat
  /\ values \in {"none", "zero", "initial", "restart", "lost", "solved"}
  /\ qois \subseteq {"nusselt", "vorticity"}

\* The flags are of active elements, step by step.
LEMMA FlagsStep ==
  ASSUME Places, Counts, FlagsKnown, [Next]_vars
  PROVE  FlagsKnown'
  <1> USE DEF FlagsKnown
  <1>r. Ranks # {}
    BY RanksAssumption
  <1>1. CASE BuildMesh
    <2>1. refinements = 0 /\ UNCHANGED <<flags, refinements>>
      BY <1>1 DEF BuildMesh, Stage, Counts
    <2> QED BY <2>1
  <1>2. CASE EnterBuildRefinement \/ EnterRestartRefinement
    <2>1. refinements = 0 /\ UNCHANGED <<mesh, flags>>
      BY <1>2 DEF EnterBuildRefinement, EnterRestartRefinement,
                  EnterRefinement, Stage, Counts
    <2> QED BY <2>1
  <1>3. CASE EndBuildRefinement \/ EndRestartRefinement
    <2>1. UNCHANGED <<mesh, flags, refinements>>
          /\ pc' = [p \in Ranks |-> "outside"]
      BY <1>3 DEF EndBuildRefinement, EndRestartRefinement, LeaveRefinement,
                  AllTo
    <2> QED BY <1>r, <2>1 DEF AtAll
  <1>4. ASSUME UNCHANGED <<mesh, flags, pc, refinements>>
        PROVE  FlagsKnown'
    BY <1>4 DEF AtAll
  <1>5. CASE InitMultiphysicsSystem \/ Reinit \/ SkipBuildRefinement
               \/ BuildSolver \/ InitQoIs \/ BuildErrorEstimator
               \/ ReadRestart \/ CheckForUnusedVars \/ Fail
    BY <1>4, <1>5
    DEF InitMultiphysicsSystem, Reinit, SkipBuildRefinement, BuildSolver,
        InitQoIs, BuildErrorEstimator, ReadRestart, CheckForUnusedVars, Fail,
        Stop, meshVars
  <1>6. CASE RunAll
    BY <1>4, <1>6
    DEF RunAll, Run, Solving, EndSolve, RunOther, PrintQoI, meshVars
  <1>7. CASE Refining(RefineTogether)
    <2>0. refinements' = refinements /\ refinements = 1
      BY <1>7 DEF Refining, Counts
    <2>1. CASE UniformPass
      BY <2>1 DEF UniformPass, AtAll
    <2>2. CASE Agree
      <3>1. UNCHANGED <<mesh, flags>> /\ pc' = [p \in Ranks |-> "agreed"]
        BY <2>2 DEF Agree, AllTo
      <3> QED BY <1>r, <2>0, <3>1 DEF AtAll
    <2>3. CASE RefineAndCoarsen
      BY <2>3 DEF RefineAndCoarsen
    <2> QED BY <1>7, <2>1, <2>2, <2>3 DEF Refining, RefineTogether
  <1>8. ASSUME NEW p \in Ranks, Alone(p)
        PROVE  FlagsKnown'
    <2>0. /\ refinements' = refinements /\ refinements = 1
          /\ pc \in [Ranks -> PCs]
      BY <1>8 DEF Alone, Refining, Counts, Places
    <2>1. CASE Flag(p)
      <3>1. /\ mesh' = mesh /\ pc' = [pc EXCEPT ![p] = "max"]
            /\ flags' = flags \union {e \in Active(p) : Needs(e)}
        BY <2>1 DEF Flag
      <3>2. Active(p) \subseteq mesh
        BY DEF Active, Own
      <3>3. ~AtAll("uniform")'
        BY <2>0, <3>1 DEF AtAll
      <3> QED BY <2>0, <3>1, <3>2, <3>3
    <2>2. ASSUME UNCHANGED <<mesh, flags>>,
                 NEW place \in PCs \ {"uniform"},
                 pc' = [pc EXCEPT ![p] = place]
          PROVE  FlagsKnown'
      <3>1. ~AtAll("uniform")'
        BY <2>0, <2>2 DEF AtAll
      <3> QED BY <2>0, <2>2, <3>1
    <2>3. CASE UniformDone(p) \/ Leave(p) \/ StartPass(p)
      BY <2>2, <2>3 DEF UniformDone, Leave, StartPass, PCs
    <2> QED BY <1>8, <2>1, <2>3 DEF Alone, Refining, RefineAlone
  <1>9. CASE UNCHANGED vars
    BY <1>4, <1>9 DEF vars, meshVars
  <1> QED BY <1>1, <1>2, <1>3, <1>5, <1>6, <1>7, <1>8, <1>9
          DEF Next, Together, Construct

\* The flags are of active elements.
LEMMA FlagsInvariant == Spec => []FlagsKnown
  <1>1. Init => FlagsKnown
    BY DEF Init, InitMesh, FlagsKnown
  <1> QED BY <1>1, FlagsStep, PlacesInvariant, CountsInvariant, PTL DEF Spec

\* The condition to displace is one of the list.
LEMMA FirstIsListed ==
  ASSUME input \in Inputs, Found
  PROVE  FirstIndex \in 0..Len(input.dirichlet)
  <1>1. OnBoundary \subseteq 1..Len(input.dirichlet)
    BY InputFacts DEF OnBoundary
  <1>2. OnBoundary \subseteq Nat /\ OnBoundary # {}
    BY <1>1 DEF Found
  <1>3. \E i \in OnBoundary : \A j \in OnBoundary : i <= j
    BY <1>2, LeastNatural
  <1>4. FirstIndex \in OnBoundary
    BY <1>3 DEF FirstIndex
  <1>5. Len(input.dirichlet) \in Nat
    BY InputFacts
  <1> QED BY <1>1, <1>4, <1>5

\* A displacement leaves a list of as many conditions.
LEMMA DisplacedIsTyped ==
  ASSUME dirichlet \in Seq(Conditions), step \in Nat
  PROVE  Displaced \in Seq(Conditions) /\ Len(Displaced) = Len(dirichlet)
  <1>1. \A i \in DOMAIN dirichlet :
          [dirichlet[i] EXCEPT !.value = step + 1] \in Conditions
    <2> TAKE i \in DOMAIN dirichlet
    <2>1. dirichlet[i] \in Conditions /\ step + 1 \in Int
      OBVIOUS
    <2> QED BY <2>1 DEF Conditions
  <1>2. /\ DOMAIN Displaced = 1..Len(dirichlet)
        /\ \A i \in 1..Len(dirichlet) : Displaced[i] \in Conditions
    BY <1>1 DEF Displaced
  <1>3. Len(dirichlet) \in Nat
    OBVIOUS
  <1>4. Displaced = [i \in 1..Len(dirichlet) |-> Displaced[i]]
    BY <1>2 DEF Displaced
  <1>5. Displaced \in [1..Len(dirichlet) -> Conditions]
    BY <1>2, <1>4
  <1>6. ASSUME NEW s, NEW n \in Nat, s \in [1..n -> Conditions]
        PROVE  s \in Seq(Conditions) /\ Len(s) = n
    BY <1>6
  <1> QED BY <1>3, <1>5, <1>6

\* The solver keeps lists of conditions, step by step.
LEMMA SolverTypedStep ==
  ASSUME input \in Inputs, SolverTyped, [Next]_vars
  PROVE  SolverTyped'
  <1> USE DEF SolverTyped
  <1>i. UNCHANGED input /\ input.increments \in Nat
    BY InputFacts DEF Next, vars
  <1>1. CASE InitMultiphysicsSystem
    <2>1. /\ dirichlet' = input.dirichlet /\ constraints' = input.dirichlet
          /\ index' = IF input.continuation THEN FirstIndex ELSE 0
          /\ input.continuation => Found
          /\ UNCHANGED <<step, solution, file, residualFile, at>>
      BY <1>1 DEF InitMultiphysicsSystem, InitializeSolver
    <2>2. index' \in 0..Len(dirichlet')
      BY <2>1, InputFacts, FirstIsListed
    <2> QED BY <1>i, <2>1, <2>2, InputFacts
  <1>2. CASE Run
    BY <1>2, <1>i DEF Run, EnterSolve
  <1>3. CASE Solving
    <2>1. CASE OutputInitial
      <3>1. file' \in [step: Int, holds: Seq(Conditions)]
        BY <2>1 DEF OutputInitial
      <3> QED BY <1>i, <2>1, <3>1 DEF OutputInitial
    <2>2. CASE IncrementDisplacement
      <3>1. /\ step \in Nat /\ step < input.increments
            /\ dirichlet' = Displaced /\ constraints' = Displaced
            /\ step' = step + 1 /\ at' = "solve"
            /\ UNCHANGED <<index, solution, file, residualFile>>
        BY <2>2, <1>i DEF IncrementDisplacement, AfterReinit
      <3>2. Displaced \in Seq(Conditions) /\ Len(Displaced) = Len(dirichlet)
        BY <3>1, DisplacedIsTyped
      <3>3. step' \in 0..input.increments
        BY <1>i, <3>1
      <3> QED BY <1>i, <3>1, <3>2, <3>3
    <2>3. CASE SolveSystem
      BY <1>i, <2>3 DEF SolveSystem
    <2>4. CASE Output
      <3>1. FileStep \in Int
        BY <1>i DEF FileStep
      <3>2. file' \in [step: Int, holds: Seq(Conditions)]
        BY <2>4, <3>1 DEF Output
      <3> QED BY <1>i, <2>4, <3>2 DEF Output
    <2>5. CASE EndContinuation
      BY <1>i, <2>5 DEF EndContinuation
    <2>6. CASE OutputResidual
      BY <1>i, <2>6 DEF OutputResidual
    <2> QED BY <1>3, <2>1, <2>2, <2>3, <2>4, <2>5, <2>6
            DEF Solving, SolverStep
  <1>4. ASSUME UNCHANGED solverVars PROVE SolverTyped'
    BY <1>i, <1>4 DEF solverVars
  <1>5. CASE BuildMesh \/ EnterBuildRefinement \/ SkipBuildRefinement
               \/ EndBuildRefinement \/ BuildSolver \/ InitQoIs
               \/ BuildErrorEstimator \/ ReadRestart
               \/ EnterRestartRefinement \/ EndRestartRefinement \/ Reinit
               \/ CheckForUnusedVars \/ Fail
    BY <1>4, <1>5
    DEF BuildMesh, EnterBuildRefinement, SkipBuildRefinement,
        EndBuildRefinement, BuildSolver, InitQoIs, BuildErrorEstimator,
        ReadRestart, EnterRestartRefinement, EndRestartRefinement, Reinit,
        CheckForUnusedVars, Fail, Stop
  <1>6. CASE EndSolve \/ RunOther \/ PrintQoI
    BY <1>4, <1>6 DEF EndSolve, RunOther, PrintQoI
  <1>7. CASE Refining(RefineTogether) \/ \E p \in Ranks : Alone(p)
    BY <1>4, <1>7 DEF Alone, Refining
  <1>8. CASE UNCHANGED vars
    BY <1>4, <1>8 DEF vars
  <1> QED BY <1>1, <1>2, <1>3, <1>5, <1>6, <1>7, <1>8
          DEF Next, Together, Construct, RunAll

\* What is left of the types, step by step.
LEMMA RestTypedStep ==
  ASSUME input \in Inputs, RestTyped, [Next]_vars
  PROVE  RestTyped'
  <1>1. owner' = owner
    BY DEF Next, Together, Construct, RunAll, BuildMesh, EnterBuildRefinement,
           SkipBuildRefinement, EndBuildRefinement, BuildSolver, InitQoIs,
           InitMultiphysicsSystem, BuildErrorEstimator, ReadRestart,
           EnterRestartRefinement, EndRestartRefinement, Reinit,
           CheckForUnusedVars, Fail, Stop, Run, Solving, EndSolve, RunOther,
           PrintQoI, Alone, Refining, EnterRefinement, LeaveRefinement,
           RefineTogether, UniformPass, Agree, RefineAndCoarsen, RefineAlone,
           UniformDone, Flag, Leave, StartPass, meshVars, vars
  <1>2. values' \in {values, "zero", "initial", "restart", "lost", "solved"}
    BY DEF Next, Together, Construct, RunAll, BuildMesh, EnterBuildRefinement,
           SkipBuildRefinement, EndBuildRefinement, BuildSolver, InitQoIs,
           InitMultiphysicsSystem, InitialValues, BuildErrorEstimator,
           ReadRestart, EnterRestartRefinement, EndRestartRefinement, Reinit,
           CheckForUnusedVars, Fail, Stop, Run, Solving, EndSolve, RunOther,
           PrintQoI, Alone, Refining, vars
  <1>3. qois' = qois \/ (qois' = input.qois /\ "unknown" \notin input.qois)
    BY DEF Next, Together, Construct, RunAll, BuildMesh, EnterBuildRefinement,
           SkipBuildRefinement, EndBuildRefinement, BuildSolver, InitQoIs,
           InitMultiphysicsSystem, BuildErrorEstimator, ReadRestart,
           EnterRestartRefinement, EndRestartRefinement, Reinit,
           CheckForUnusedVars, Fail, Stop, Run, Solving, EndSolve, RunOther,
           PrintQoI, QoIsAreKnown, Alone, Refining, vars
  <1>4. input.qois \subseteq {"nusselt", "vorticity", "unknown"}
    BY InputsAssumption
  <1>5. refinements' \in {refinements, refinements + 1}
    BY DEF Next, Together, Construct, RunAll, BuildMesh, EnterBuildRefinement,
           SkipBuildRefinement, EndBuildRefinement, BuildSolver, InitQoIs,
           InitMultiphysicsSystem, BuildErrorEstimator, ReadRestart,
           EnterRestartRefinement, EndRestartRefinement, Reinit,
           CheckForUnusedVars, Fail, Stop, Run, Solving, EndSolve, RunOther,
           PrintQoI, Alone, Refining, vars
  <1>6. qois' \subseteq {"nusselt", "vorticity"}
    <2>1. CASE qois' = qois
      BY <2>1 DEF RestTyped
    <2>2. CASE qois' = input.qois /\ "unknown" \notin input.qois
      <3>1. \A q \in input.qois : q \in {"nusselt", "vorticity"}
        BY <1>4, <2>2
      <3> QED BY <2>2, <3>1
    <2> QED BY <1>3, <2>1, <2>2
  <1> QED BY <1>1, <1>2, <1>5, <1>6 DEF RestTyped

\* TypeOK: where the processors are, what is flagged, the solution and the
\* conditions of the solver have their types for every input, mesh and number
\* of processors; only active elements are flagged, and the index of the
\* displaced condition is in the list (DisplacementContinuationSolver).
THEOREM TypeCorrect == Spec => []TypeOK
  <1>1. Init => RestTyped
    BY DEF Init, InitMesh, RestTyped
  <1>2. input \in Inputs /\ Init => SolverTyped
    <2> SUFFICES ASSUME input \in Inputs, Init PROVE SolverTyped
      OBVIOUS
    <2>1. <<>> \in Seq(Conditions) /\ Len(<<>>) = 0
      OBVIOUS
    <2>2. NoFile \in [step: Int, holds: Seq(Conditions)]
      BY <2>1 DEF NoFile, NoSolution
    <2> QED BY <2>1, <2>2, InputFacts
            DEF Init, InitSolver, SolverTyped, NoSolution
  <1>3. Spec => []RestTyped
    BY <1>1, RestTypedStep, InputInvariant, PTL DEF Spec
  <1>4. Spec => []SolverTyped
    BY <1>2, SolverTypedStep, InputInvariant, PTL DEF Spec
  <1>5. /\ input \in Inputs /\ Places /\ Counts /\ Holds
        /\ FlagsKnown /\ SolverTyped /\ RestTyped
        => TypeOK
    BY DEF Places, PCs, Counts, Holds, FlagsKnown, SolverTyped, RestTyped,
           TypeOK
  <1> QED BY <1>3, <1>4, <1>5, InputInvariant, PlacesInvariant,
             CountsInvariant, HoldsInvariant, FlagsInvariant, PTL
--------------------------------------------------------------------------
(* The processors meet.  Between two collective calls all of them are in   *)
(* the same part of the function: before the first call of comm.max, after *)
(* one that found something, or after one that found nothing.              *)

InPart(places) == \A p \in Ranks : pc[p] \in places
SamePart ==
  stage \in RefiningStages =>
    \/ AtAll("uniform")
    \/ /\ left = 0
       /\ \/ input.local /\ InPart({"uniform", "flag", "max"})
          \/ ~input.local /\ InPart({"uniform", "done"})
          \/ /\ input.local
             /\ \A p \in Ranks : found[p]
             /\ InPart({"agreed", "refine"})
          \/ /\ input.local
             /\ \A p \in Ranks : ~found[p]
             /\ InPart({"agreed", "done"})
          \/ AtAll("done")

\* They stay in the same part, step by step.
LEMMA SamePartStep ==
  ASSUME input \in Inputs, Places, SamePart, [Next]_vars
  PROVE  SamePart'
  <1> USE DEF AtAll, InPart
  <1>i. UNCHANGED input /\ input.local \in BOOLEAN
    BY InputFacts DEF Next, vars
  <1>t. pc \in [Ranks -> PCs] /\ found \in [Ranks -> BOOLEAN]
    BY DEF Places
  <1>1. CASE EnterBuildRefinement \/ EnterRestartRefinement
    BY <1>1 DEF EnterBuildRefinement, EnterRestartRefinement,
                EnterRefinement, AllTo, SamePart
  <1>2. CASE Refining(RefineTogether)
    <2>0. stage \in RefiningStages /\ UNCHANGED stage
      BY <1>2 DEF Refining, RefiningStages
    <2>1. CASE UniformPass
      BY <2>1 DEF UniformPass, SamePart
    <2>2. CASE Agree
      <3>1. /\ \A p \in Ranks : pc[p] = "max" /\ left' = left
            /\ pc' = [p \in Ranks |-> "agreed"]
            /\ found' = [p \in Ranks |-> Agreed(p)]
        BY <2>2 DEF Agree, AllTo
      <3>2. left = 0 /\ input.local
        BY <2>0, <3>1, RanksAssumption DEF SamePart
      <3>3. (\A p \in Ranks : found'[p]) \/ (\A p \in Ranks : ~found'[p])
        BY <3>1 DEF Agreed
      <3> QED BY <1>i, <3>1, <3>2, <3>3 DEF SamePart
    <2>3. CASE RefineAndCoarsen
      <3>1. /\ \A p \in Ranks : pc[p] = "refine" /\ left' = left
            /\ pc' = [p \in Ranks |-> AfterPass]
        BY <2>3 DEF RefineAndCoarsen, AllTo
      <3>2. left = 0 /\ input.local
        BY <2>0, <3>1, RanksAssumption DEF SamePart
      <3>3. AfterPass \in {"flag", "done"}
        BY DEF AfterPass
      <3> QED BY <1>i, <3>1, <3>2, <3>3 DEF SamePart
    <2> QED BY <1>2, <2>1, <2>2, <2>3 DEF Refining, RefineTogether
  <1>3. ASSUME NEW p \in Ranks, Alone(p)
        PROVE  SamePart'
    <2>0. stage \in RefiningStages /\ UNCHANGED stage
      BY <1>3 DEF Alone, Refining, RefiningStages
    <2>1. CASE UniformDone(p)
      <3>1. /\ pc[p] = "uniform" /\ left = 0 /\ UNCHANGED <<left, found>>
            /\ pc' = [pc EXCEPT ![p] = IF input.local THEN "flag" ELSE "done"]
        BY <2>1 DEF UniformDone
      <3>2. CASE input.local
        <4>1. InPart({"uniform", "flag", "max"})
          BY <2>0, <3>1, <3>2 DEF SamePart
        <4>2. InPart({"uniform", "flag", "max"})'
          BY <1>t, <3>1, <3>2, <4>1
        <4> QED BY <1>i, <3>1, <3>2, <4>2 DEF SamePart
      <3>3. CASE ~input.local
        <4>1. InPart({"uniform", "done"})
          BY <2>0, <3>1, <3>3 DEF SamePart
        <4>2. InPart({"uniform", "done"})'
          BY <1>t, <3>1, <3>3, <4>1
        <4> QED BY <1>i, <3>1, <3>3, <4>2 DEF SamePart
      <3> QED BY <3>2, <3>3
    <2>2. CASE Flag(p)
      <3>1. /\ pc[p] = "flag" /\ UNCHANGED left
            /\ pc' = [pc EXCEPT ![p] = "max"]
        BY <2>2 DEF Flag
      <3>2. left = 0 /\ input.local /\ InPart({"uniform", "flag", "max"})
        BY <2>0, <3>1 DEF SamePart
      <3>3. InPart({"uniform", "flag", "max"})'
        BY <1>t, <3>1, <3>2
      <3> QED BY <1>i, <3>1, <3>2, <3>3 DEF SamePart
    <2>3. CASE Leave(p)
      <3>1. /\ pc[p] = "agreed" /\ ~found[p] /\ UNCHANGED <<left, found>>
            /\ pc' = [pc EXCEPT ![p] = "done"]
        BY <2>3 DEF Leave
      <3>2. /\ left = 0 /\ input.local /\ \A q \in Ranks : ~found[q]
            /\ InPart({"agreed", "done"})
        BY <2>0, <3>1 DEF SamePart
      <3>3. InPart({"agreed", "done"})'
        BY <1>t, <3>1, <3>2
      <3> QED BY <1>i, <3>1, <3>2, <3>3 DEF SamePart
    <2>4. CASE StartPass(p)
      <3>1. /\ pc[p] = "agreed" /\ found[p] /\ UNCHANGED <<left, found>>
            /\ pc' = [pc EXCEPT ![p] = "refine"]
        BY <2>4 DEF StartPass
      <3>2. /\ left = 0 /\ input.local /\ \A q \in Ranks : found[q]
            /\ InPart({"agreed", "refine"})
        BY <2>0, <3>1 DEF SamePart
      <3>3. InPart({"agreed", "refine"})'
        BY <1>t, <3>1, <3>2
      <3> QED BY <1>i, <3>1, <3>2, <3>3 DEF SamePart
    <2> QED BY <1>3, <2>1, <2>2, <2>3, <2>4 DEF Alone, Refining, RefineAlone
  <1>4. ASSUME stage' \notin RefiningStages PROVE SamePart'
    BY <1>4 DEF SamePart
  <1>5. CASE BuildMesh \/ SkipBuildRefinement \/ EndBuildRefinement
               \/ BuildSolver \/ InitQoIs \/ InitMultiphysicsSystem
               \/ BuildErrorEstimator \/ ReadRestart \/ EndRestartRefinement
               \/ Reinit \/ CheckForUnusedVars \/ Fail
    BY <1>4, <1>5
    DEF BuildMesh, SkipBuildRefinement, EndBuildRefinement, BuildSolver,
        InitQoIs, InitMultiphysicsSystem, BuildErrorEstimator, ReadRestart,
        EndRestartRefinement, Reinit, CheckForUnusedVars, Fail, Stop, Stage,
        RefiningStages
  <1>6. CASE RunAll
    BY <1>4, <1>6 DEF RunAll, Run, Solving, EndSolve, RunOther, PrintQoI,
                      Stage, RefiningStages
  <1>7. CASE UNCHANGED vars
    BY <1>7 DEF vars, meshVars, SamePart
  <1> QED BY <1>1, <1>2, <1>3, <1>5, <1>6, <1>7 DEF Next, Together, Construct

\* SamePart holds in every reachable state.
LEMMA SamePartInvariant == Spec => []SamePart
  <1>1. Init => SamePart
    BY DEF Init, SamePart, RefiningStages
  <1> QED BY <1>1, SamePartStep, InputInvariant, PlacesInvariant, PTL DEF Spec

\* ProcessorsMeet: the processors make the collective calls of the refinement
\* in the same order, for any number of them, any mesh and any input.
THEOREM NobodyIsLeftWaiting == Spec => []ProcessorsMeet
  <1>1. ASSUME Places, SamePart, stage \in RefiningStages,
               \A p \in Ranks : ~GoesOn(p)
        PROVE  AllMeet
    <2> USE DEF AtAll, InPart, GoesOn, AllMeet
    <2>1. left \in Nat
      BY <1>1 DEF Places
    <2>2. CASE AtAll("uniform")
      BY <1>1, <2>1, <2>2, RanksAssumption
    <2>3. CASE left = 0 /\ ~AtAll("uniform")
      BY <1>1, <2>3 DEF SamePart
    <2> QED BY <1>1, <2>2, <2>3 DEF SamePart
  <1>2. Places /\ SamePart => ProcessorsMeet
    BY <1>1 DEF ProcessorsMeet, RefiningStages
  <1> QED BY <1>2, PlacesInvariant, SamePartInvariant, PTL
=============================================================================
