------------------------ MODULE AdaptiveSolverProofs ------------------------
(***************************************************************************)
(* The safety properties of AdaptiveSolver for every bound on the number   *)
(* of passes.  The properties speak of the labels where a vector is used;  *)
(* the inductive invariant says where the forward solution, the dual and   *)
(* the residual are at every label, in and out of the swaps, what the      *)
(* ghosted copy of the solution holds meanwhile, and how the mesh version  *)
(* follows the loop counter.                                               *)
(***************************************************************************)
EXTENDS AdaptiveSolver, TLAPS

Primal == Vector("primal", mesh)
Dual == Vector("dual", mesh)
Residual == Vector("residual", mesh)
Adjoint == opts.estimator \in AdjointEstimators

\* The labels of a pass, in the order of the code.
SwappedDual == {"output_dual", "swap_dual_back"}
SwappedResidual == {"output_residual", "swap_residual_back"}
AfterResidual == {"estimate", "check", "flag", "refine"}
AfterDual == {"residual"} \union SwappedResidual \union AfterResidual
AfterAdjoint == {"swap_dual"} \union SwappedDual \union AfterDual
AfterOutput == {"adjoint"} \union AfterAdjoint
AfterSolve == {"output"} \union AfterOutput
\* A pass that ends the loop.
Ended == (pc \in {"next", "loop"} /\ mesh < r_step + (IF pc = "next" THEN 1 ELSE 0))
         \/ (pc = "done" /\ MaxRefinementSteps > 0)

\* The mesh is refined once per pass, except in the last one.
Counting ==
  /\ pc \in {"construct", "error", "build"} => r_step = 0 /\ mesh = 0
  /\ pc \in {"solve"} \union (AfterSolve \ {"refine", "flag"}) =>
       mesh = r_step /\ r_step < MaxRefinementSteps
  /\ pc \in {"flag", "refine"} => mesh = r_step /\ r_step < MaxRefinementSteps - 1
  /\ pc \in {"reinit", "qoi"} => mesh = r_step + 1 /\ mesh < MaxRefinementSteps
  /\ pc = "next" => \/ mesh = r_step + 1 /\ mesh < MaxRefinementSteps
                    \/ mesh = r_step /\ mesh = MaxRefinementSteps - 1
  /\ pc = "loop" => \/ mesh = r_step /\ (mesh < MaxRefinementSteps \/ r_step = 0)
                    \/ mesh = r_step - 1 /\ r_step = MaxRefinementSteps
  /\ pc = "done" => MaxRefinementSteps = 0 \/ mesh < MaxRefinementSteps

\* Where the forward solution is.
PrimalPlace ==
  /\ pc \in AfterSolve \ (SwappedDual \union SwappedResidual) => solution = Primal
  /\ pc \in SwappedDual => adjoint = Primal
  /\ pc \in SwappedResidual => rhs = Primal
  /\ pc = "reinit" => solution = Vector("primal", mesh - 1)
  /\ Ended => solution = Primal
  /\ pc \notin AfterSolve \union {"reinit"} => solution.on = mesh

\* Where the dual is.
DualPlace ==
  /\ (Adjoint /\ pc \in AfterAdjoint \ SwappedDual) => adjoint = Dual
  /\ pc \in SwappedDual => solution = Dual /\ WritesDual
  /\ (Adjoint /\ Ended) => adjoint = Dual

\* Where the residual is.
ResidualPlace ==
  /\ pc \in AfterSolve \ (SwappedResidual \union AfterResidual) => rhs = Residual
  /\ pc \in SwappedResidual => solution = Residual /\ opts.outputResidual

\* What the ghosted copy holds: the forward solution until the dual may be
\* written, and again once a residual is.
LocalPlace ==
  /\ pc \in {"output", "adjoint", "swap_dual", "output_dual"} => local = Primal
  /\ pc \in {"swap_dual_back", "residual"} \union AfterResidual \/ Ended =>
       local = Primal \/ (WritesDual /\ local = Dual)
  /\ pc \in SwappedResidual => local = Residual
  /\ (pc \in AfterResidual \/ Ended) /\ DualIsReplaced => local = Primal

\* What the estimate and the files were made from.
Made ==
  /\ pc \in {"check", "flag", "refine"} =>
       /\ estimate.primal = Primal \/ (WritesDual /\ estimate.primal = Dual)
       /\ DualIsReplaced => estimate.primal = Primal
       /\ estimate.dual = IF Adjoint THEN Dual ELSE Nothing
  /\ pc = "refine" => flagged = mesh
  /\ opts.outputVis /\ (pc \in AfterOutput \/ Ended) => visFile.quantities = Primal
  /\ opts.outputVis /\ pc \in AfterOutput => quantities = Primal
  /\ (opts.outputVis /\ ~WritesDual /\ (pc \in AfterOutput \/ Ended)) =>
       visFile.vector = Primal
  /\ (WritesDual /\ (pc \in {"swap_dual_back"} \union AfterDual \/ Ended)) =>
       visFile.vector = Dual
  /\ (opts.outputResidual /\ (pc \in {"swap_residual_back"} \union AfterResidual \/ Ended)) =>
       residualFile = Residual

IInv == /\ TypeOK
        /\ Counting
        /\ PrimalPlace
        /\ DualPlace
        /\ ResidualPlace
        /\ LocalPlace
        /\ Made

USE MaxRefinementStepsAssumption

\* The shapes of the vectors and the label sets are needed at every step.
USE DEF Primal, Dual, Residual, Adjoint, Vector, Vectors, Contents, Versions,
        Nothing, Goto, Labels, Ended, SwappedDual, SwappedResidual,
        AfterResidual, AfterDual, AfterAdjoint, AfterOutput, AfterSolve

LEMMA InitIInv == Init => IInv
  <1> SUFFICES ASSUME Init
               PROVE  IInv
    OBVIOUS
  <1>1. TypeOK
    <2>1. adjointFlag \in BOOLEAN
      BY DEF Init
    <2> QED
      BY <2>1 DEF Init, TypeOK
  <1>2. Counting
    BY DEF Init, Counting
  <1>3. PrimalPlace
    BY DEF Init, PrimalPlace
  <1>4. DualPlace
    BY DEF Init, DualPlace
  <1>5. ResidualPlace
    BY DEF Init, ResidualPlace
  <1>6. Made
    BY DEF Init, Made
  <1>7. LocalPlace
    BY DEF Init, LocalPlace
  <1> QED
    BY <1>1, <1>2, <1>3, <1>4, <1>5, <1>6, <1>7 DEF IInv

\* One step per action.
LEMMA StepIInv == IInv /\ [Next]_vars => IInv'
  <1> SUFFICES ASSUME IInv, [Next]_vars
               PROVE  IInv'
    OBVIOUS
  <1> USE DEF IInv, TypeOK, Counting, PrimalPlace, DualPlace, ResidualPlace,
              LocalPlace, Made, WritesDual, DualIsReplaced
  <1>1. CASE Construct
    BY <1>1 DEF Construct
  <1>2. CASE BuildMeshRefinement
    BY <1>2 DEF BuildMeshRefinement
  <1>3. CASE LoopHead
    BY <1>3 DEF LoopHead, AnotherPass
  <1>4. CASE Solve
    BY <1>4 DEF Solve
  <1>5. CASE OutputPrimal
    BY <1>5 DEF OutputPrimal, WriterMayUpdate
  <1>6. CASE SwapDualIn
    BY <1>6 DEF SwapDualIn, CheckForAdjointSolve
  <1>7. CASE OutputDual
    BY <1>7 DEF OutputDual, WriterMayUpdate
  <1>8. CASE SwapDualBack
    BY <1>8 DEF SwapDualBack
  <1>9. CASE SwapResidualIn
    BY <1>9 DEF SwapResidualIn, SwapResidual
  <1>10. CASE OutputResidual
    BY <1>10 DEF OutputResidual, WriterMayUpdate
  <1>11. CASE SwapResidualBack
    BY <1>11 DEF SwapResidualBack, SwapResidual
  <1>12. CASE AdjointSolve
    <2>1. adjointFlag' \in BOOLEAN
      BY <1>12, Zenon DEF AdjointSolve
    <2> QED
      BY <1>12, <2>1 DEF AdjointSolve, DoAdjointSolve, CheckForAdjointSolve
  <1>13. CASE EstimateError
    BY <1>13 DEF EstimateError, CheckForAdjointSolve
  <1>14. CASE CheckForConvergence
    BY <1>14 DEF CheckForConvergence, RefinesThisPass
  <1>15. CASE FlagElements
    BY <1>15 DEF FlagElements
  <1>16. CASE RefineAndCoarsen
    BY <1>16 DEF RefineAndCoarsen
  <1>17. CASE Reinit
    BY <1>17 DEF Reinit
  <1>18. CASE PrintQoI
    BY <1>18 DEF PrintQoI
  <1>19. CASE NextPass
    BY <1>19 DEF NextPass, CountsPasses
  <1>20. CASE UNCHANGED vars
    BY <1>20 DEF vars
  <1> QED
    BY <1>1, <1>2, <1>3, <1>4, <1>5, <1>6, <1>7, <1>8, <1>9, <1>10,
       <1>11, <1>12, <1>13, <1>14, <1>15, <1>16, <1>17, <1>18, <1>19,
       <1>20 DEF Next, Output, Refine

\* The inductive invariant holds in every reachable state of solve().
THEOREM InductiveInvariant == Spec => []IInv
  BY InitIInv, StepIInv, PTL DEF Spec

\* The type invariant for every bound on the passes.
THEOREM TypeCorrect == Spec => []TypeOK
  <1>1. IInv => TypeOK
    BY DEF IInv
  <1> QED
    BY <1>1, InductiveInvariant, PTL

\* estimate_error and flag_elements_for_refinement work on vectors of the
\* current mesh, for every bound on the passes, and on the forward solution
\* itself unless a dual is written and no residual after it.
THEOREM EstimateAlwaysCurrent == Spec => []EstimateIsCurrent
  <1>1. IInv => EstimateIsCurrent
    BY DEF IInv, Made, EstimateIsCurrent
  <1> QED
    BY <1>1, InductiveInvariant, PTL

\* solve() never returns on a mesh refined after the last solve.
THEOREM AlwaysReturnsSolved == Spec => []ReturnsSolvedState
  <1>1. IInv => ReturnsSolvedState
    BY DEF IInv, PrimalPlace, DualPlace, LocalPlace, ReturnsSolvedState
  <1> QED
    BY <1>1, InductiveInvariant, PTL

\* The files of a finished run show the final mesh.
THEOREM FilesAlwaysOfFinalMesh == Spec => []FilesAreOfFinalMesh
  <1>1. IInv => FilesAreOfFinalMesh
    BY DEF IInv, Made, FilesAreOfFinalMesh
  <1> QED
    BY <1>1, InductiveInvariant, PTL

\* Every change of the mesh uses flags and a forward solution of that mesh.
THEOREM AlwaysRefinesFreshFlags == Spec => RefinesFreshFlags
  <1> DEFINE Fresh == /\ mesh' = mesh + 1
                     /\ flagged = mesh
                     /\ solution = Vector("primal", mesh)
                     /\ mesh' < MaxRefinementSteps
  <1>1. ASSUME IInv, [Next]_vars, mesh' # mesh
        PROVE  Fresh
    <2>1. RefineAndCoarsen
      BY <1>1 DEF Next, Output, Refine, vars, Construct, BuildMeshRefinement,
         LoopHead, Solve, OutputPrimal, SwapDualIn, OutputDual, SwapDualBack,
         SwapResidualIn, OutputResidual, SwapResidualBack, AdjointSolve,
         EstimateError, CheckForConvergence, FlagElements, Reinit, PrintQoI,
         NextPass
    <2> QED
      BY <1>1, <2>1 DEF RefineAndCoarsen, IInv, TypeOK, Counting, PrimalPlace,
         Made
  <1>2. IInv /\ [Next]_vars => [mesh' # mesh => Fresh]_vars
    BY <1>1
  <1> QED
    BY <1>2, InductiveInvariant, PTL DEF Spec, RefinesFreshFlags

(***************************************************************************)
(* solve() implements AdaptiveLoop.  PrimalPlace says which vector holds   *)
(* the forward solution after a solve; before the solve of a level none of *)
(* the three may, or the level would count as solved on.                   *)
(***************************************************************************)

Holders == {solution, rhs, adjoint}
NoneSolved == \A v \in Holders : v.what # "primal"

Unsolved ==
  /\ pc \in {"construct", "error", "build", "qoi", "solve"} => NoneSolved
  /\ pc \in {"next", "loop"} /\ ~Ended => NoneSolved
  /\ pc = "done" /\ MaxRefinementSteps = 0 => NoneSolved

\* The labels where the level of the vectors is solved on.
IsSolvedOn == pc \in AfterSolve \union {"reinit"} \/ Ended

LEMMA StepUnsolved == IInv /\ Unsolved /\ [Next]_vars => Unsolved'
  <1> SUFFICES ASSUME IInv, Unsolved, [Next]_vars
               PROVE  Unsolved'
    OBVIOUS
  <1> USE DEF IInv, TypeOK, Counting, Unsolved, NoneSolved, Holders
  <1>1. CASE Construct
    BY <1>1 DEF Construct
  <1>2. CASE BuildMeshRefinement
    BY <1>2 DEF BuildMeshRefinement
  <1>3. CASE LoopHead
    BY <1>3 DEF LoopHead, AnotherPass
  <1>4. CASE Solve
    BY <1>4 DEF Solve
  <1>5. CASE Output
    BY <1>5 DEF Output, OutputPrimal, SwapDualIn, OutputDual, SwapDualBack,
       SwapResidualIn, OutputResidual, SwapResidualBack, SwapResidual
  <1>6. CASE AdjointSolve \/ EstimateError
    BY <1>6 DEF AdjointSolve, EstimateError
  <1>7. CASE CheckForConvergence
    BY <1>7 DEF CheckForConvergence, RefinesThisPass
  <1>8. CASE FlagElements \/ RefineAndCoarsen
    BY <1>8 DEF FlagElements, RefineAndCoarsen
  <1>9. CASE Reinit
    BY <1>9 DEF Reinit
  <1>10. CASE PrintQoI
    BY <1>10 DEF PrintQoI
  <1>11. CASE NextPass
    BY <1>11 DEF NextPass, CountsPasses
  <1>12. CASE UNCHANGED vars
    BY <1>12 DEF vars
  <1> QED
    BY <1>1, <1>2, <1>3, <1>4, <1>5, <1>6, <1>7, <1>8, <1>9, <1>10, <1>11,
       <1>12 DEF Next, Refine

\* What the level and the last level solved on are, at every label.
Levels ==
  /\ SolvedOn = IF IsSolvedOn THEN solution.on ELSE solution.on - 1
  /\ solution.on = IF pc = "reinit" THEN mesh - 1 ELSE mesh
  /\ solution.on \in Int

LEMMA LevelAndSolved == IInv /\ Unsolved => Levels
  <1> SUFFICES ASSUME IInv, Unsolved
               PROVE  Levels
    OBVIOUS
  <1>1. IsSolvedOn => \E v \in Holders : v.what = "primal"
    BY DEF IInv, TypeOK, PrimalPlace, IsSolvedOn, Holders
  <1>2. ~IsSolvedOn => NoneSolved
    BY DEF IInv, TypeOK, Counting, Unsolved, IsSolvedOn
  <1>3. /\ solution.on \in Int
        /\ solution.on = IF pc = "reinit" THEN mesh - 1 ELSE mesh
    BY DEF IInv, TypeOK, PrimalPlace, DualPlace, ResidualPlace
  <1> QED
    BY <1>1, <1>2, <1>3 DEF Levels, SolvedOn, NoneSolved, Holders

\* Which step of the abstract loop each action is.
LEMMA StepLoop ==
  IInv /\ Unsolved /\ [Next]_vars => [Loop!Next]_(Loop!vars)
  <1>1. IInv /\ Unsolved /\ [Next]_vars => IInv' /\ Levels'
    <2>1. (IInv /\ Unsolved => Levels)'
      BY LevelAndSolved, PTL
    <2> QED
      BY <2>1, StepIInv, StepUnsolved
  <1> SUFFICES ASSUME IInv, Unsolved, [Next]_vars
               PROVE  [Loop!Next]_(Loop!vars)
    OBVIOUS
  <1>2. Levels /\ IInv' /\ Levels'
    BY <1>1, LevelAndSolved
  <1>3. TypeOK /\ Counting /\ TypeOK' /\ Counting'
    BY <1>2 DEF IInv
  <1> DEFINE done == pc \in {"done", "error"}
  <1>4. SUFFICES \/ /\ ~done /\ done' = done
                    /\ SolvedOn = solution.on - 1 /\ SolvedOn' = solution.on
                    /\ solution.on' = solution.on
                 \/ /\ ~done /\ done' = done
                    /\ SolvedOn = solution.on /\ SolvedOn' = SolvedOn
                    /\ solution.on + 1 < MaxRefinementSteps
                    /\ solution.on' = solution.on + 1
                 \/ /\ ~done /\ done' = TRUE
                    /\ solution.on = 0 \/ SolvedOn = solution.on
                    /\ SolvedOn' = SolvedOn /\ solution.on' = solution.on
                 \/ /\ done' = done
                    /\ SolvedOn' = SolvedOn /\ solution.on' = solution.on
    BY <1>4 DEF Loop!Next, Loop!SolveOn, Loop!RefineMesh, Loop!Finish, Loop!vars
  <1> USE <1>2, <1>3 DEF Levels, TypeOK, Counting, IsSolvedOn
  <1>5. CASE Solve
    BY <1>5 DEF Solve
  <1>6. CASE Reinit
    BY <1>6 DEF Reinit
  <1>7. CASE Construct
    BY <1>7 DEF Construct
  <1>8. CASE LoopHead
    BY <1>8 DEF LoopHead, AnotherPass
  <1>9. CASE CheckForConvergence
    BY <1>9 DEF CheckForConvergence, RefinesThisPass
  <1>10. CASE BuildMeshRefinement
    BY <1>10 DEF BuildMeshRefinement
  <1>11. CASE AdjointSolve
    BY <1>11 DEF AdjointSolve
  <1>12. CASE EstimateError
    BY <1>12 DEF EstimateError
  <1>13. CASE OutputPrimal
    BY <1>13 DEF OutputPrimal
  <1>14. CASE SwapDualIn
    BY <1>14 DEF SwapDualIn
  <1>15. CASE OutputDual
    BY <1>15 DEF OutputDual
  <1>16. CASE SwapDualBack
    BY <1>16 DEF SwapDualBack
  <1>17. CASE SwapResidualIn
    BY <1>17 DEF SwapResidualIn, SwapResidual
  <1>18. CASE OutputResidual
    BY <1>18 DEF OutputResidual
  <1>19. CASE SwapResidualBack
    BY <1>19 DEF SwapResidualBack, SwapResidual
  <1>20. CASE FlagElements
    BY <1>20 DEF FlagElements
  <1>21. CASE RefineAndCoarsen
    BY <1>21 DEF RefineAndCoarsen
  <1>22. CASE PrintQoI
    BY <1>22 DEF PrintQoI
  <1>23. CASE NextPass
    BY <1>23 DEF NextPass, CountsPasses
  <1>24. CASE UNCHANGED vars
    BY <1>24 DEF vars, SolvedOn
  <1> QED
    BY <1>5, <1>6, <1>7, <1>8, <1>9, <1>10, <1>11, <1>12, <1>13, <1>14,
       <1>15, <1>16, <1>17, <1>18, <1>19, <1>20, <1>21, <1>22, <1>23, <1>24
       DEF Next, Output, Refine

\* The adaptive solve keeps the abstract loop's promise, for every bound on
\* the passes: a level is solved on before it is refined, and the solve ends
\* on a level that was solved on.
THEOREM ImplementsLoop == Spec => LoopSpec
  <1>1. Init => Unsolved
    BY DEF Init, Unsolved, NoneSolved, Holders
  <1>2. Init => Loop!Init
    BY DEF Init, Loop!Init, SolvedOn
  <1> QED
    BY <1>1, <1>2, StepUnsolved, StepLoop, InductiveInvariant, PTL
       DEF Spec, LoopSpec, Loop!Spec
--------------------------------------------------------------------------
(* The end.  Statements is a bound on the statements solve() has yet to    *)
(* execute: those of the passes not begun and the rest of the current one. *)

Rest == [construct |-> 21, build |-> 20, loop |-> 19, solve |-> 18,
         output |-> 17, adjoint |-> 16, swap_dual |-> 15, output_dual |-> 14,
         swap_dual_back |-> 13, residual |-> 12, output_residual |-> 11,
         swap_residual_back |-> 10, estimate |-> 9, check |-> 8, flag |-> 7,
         refine |-> 6, reinit |-> 5, qoi |-> 4, next |-> 3, done |-> 0,
         error |-> 0]
Statements == 20 * (MaxRefinementSteps - r_step) + Rest[pc]

\* Statements is a natural number.
LEMMA StatementsAreCounted == IInv => Statements \in Nat
  <1> SUFFICES ASSUME IInv PROVE Statements \in Nat
    OBVIOUS
  <1>1. Rest[pc] \in Nat
    BY DEF IInv, TypeOK, Rest
  <1>2. MaxRefinementSteps - r_step \in Nat
    BY DEF IInv, TypeOK
  <1> QED
    BY <1>1, <1>2 DEF Statements

\* Every step of solve() brings its end nearer, so that no run of it makes
\* more than 20 * MaxRefinementSteps + 21 steps: neither the branches of the
\* output nor a pass without refinement go back to where they were.
THEOREM EndComesNearer ==
  Spec => [][/\ Statements \in Nat
             /\ Statements' \in Nat
             /\ Statements' < Statements]_vars
  <1> USE DEF IInv, TypeOK
  <1>1. ASSUME IInv, Next
        PROVE  Statements' < Statements
    <2>1. CASE NextPass
      BY <1>1, <2>1 DEF NextPass, CountsPasses, Statements, Rest
    <2>2. ASSUME r_step' = r_step, Rest[pc'] < Rest[pc], pc' \in Labels
          PROVE  Statements' < Statements
      <3>1. Rest[pc] \in Nat /\ Rest[pc'] \in Nat
        BY <1>1, <2>2 DEF Rest
      <3> QED
        BY <1>1, <2>2, <3>1 DEF Statements
    <2>3. CASE Construct \/ BuildMeshRefinement \/ LoopHead \/ Solve
               \/ AdjointSolve \/ EstimateError \/ CheckForConvergence
      BY <2>2, <2>3 DEF Construct, BuildMeshRefinement, LoopHead, Solve,
         AdjointSolve, EstimateError, CheckForConvergence, Rest
    <2>4. CASE Output
      BY <2>2, <2>4 DEF Output, OutputPrimal, SwapDualIn, OutputDual,
         SwapDualBack, SwapResidualIn, OutputResidual, SwapResidualBack, Rest
    <2>5. CASE FlagElements \/ RefineAndCoarsen \/ Reinit \/ PrintQoI
      BY <2>2, <2>5 DEF FlagElements, RefineAndCoarsen, Reinit, PrintQoI, Rest
    <2> QED
      BY <1>1, <2>1, <2>3, <2>4, <2>5 DEF Next, Refine
  <1>2. ASSUME IInv, [Next]_vars, Statements \in Nat, (Statements \in Nat)'
        PROVE  [/\ Statements \in Nat
                /\ Statements' \in Nat
                /\ Statements' < Statements]_vars
    BY <1>1, <1>2
  <1>3. Spec => [](Statements \in Nat)
    BY StatementsAreCounted, InductiveInvariant, PTL
  <1> QED
    BY <1>2, <1>3, InductiveInvariant, PTL DEF Spec
=============================================================================
