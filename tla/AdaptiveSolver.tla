--------------------------- MODULE AdaptiveSolver ---------------------------
(***************************************************************************)
(* SteadyMeshAdaptiveSolver::solve and the base class that owns its        *)
(* options: the loop solve - output - adjoint - estimate - test - refine.  *)
(*                                                                         *)
(* The mesh is a version number that every call of                         *)
(* refine_and_coarsen_elements advances.  A system vector is a record of   *)
(* what it holds and of the mesh version its degrees of freedom live on,   *)
(* so a vector that was not moved to the new mesh, or was not computed     *)
(* again on it, can be told from one that was.  The error of a pass is     *)
(* abstracted to whether it meets _absolute_global_tolerance.              *)
(***************************************************************************)
EXTENDS Integers

CONSTANT
  MaxRefinementSteps   \* MeshAdaptivity/max_refinement_steps

ASSUME MaxRefinementStepsAssumption == MaxRefinementSteps \in Nat

VARIABLES
  pc,          \* the next statement of solve()
  opts,        \* the options read once by the constructors
  r_step,      \* the loop counter
  mesh,        \* version of the mesh
  solution,    \* system->solution
  local,       \* system->current_local_solution, its ghosted copy
  rhs,         \* system->rhs
  adjoint,     \* system->get_adjoint_solution(0)
  adjointFlag, \* set_adjoint_already_solved
  quantities,  \* the vector the postprocessed quantities were computed from
  estimate,    \* the two vectors the error vector was estimated from
  flagged,     \* version of the mesh whose elements carry refinement flags
  visFile,     \* last solution file: the vector and the quantities in it
  residualFile,\* last residual file
  qoi          \* the vector the printed QoI was assembled from

vars == <<pc, opts, r_step, mesh, solution, local, rhs, adjoint, adjointFlag,
          quantities, estimate, flagged, visFile, residualFile, qoi>>

(***************************************************************************)
(* Options.                                                                *)
(***************************************************************************)

Strategies == {"error_tolerance", "nelem_target", "error_fraction",
               "elem_fraction", "mean_std_dev"}

AdjointEstimators == {"adjoint_residual", "adjoint_refinement"}
Estimators == AdjointEstimators \union {"kelly", "patch_recovery"}

\* MeshAdaptiveSolverBase::set_refinement_type accepts the input.
RefinementTypeAccepted(input) ==
  /\ input.haveTolerance
  /\ input.strategy \in Strategies
  /\ input.strategy = "nelem_target" => input.haveNelemTarget

\* MeshAdaptiveSolverBase::check_for_adjoint_solve: the name of the
\* estimator contains "adjoint".
CheckForAdjointSolve(estimator) == estimator \in AdjointEstimators

Inputs == [strategy: Strategies \union {"other"}, estimator: Estimators,
           haveTolerance: BOOLEAN, haveNelemTarget: BOOLEAN,
           outputVis: BOOLEAN, outputAdjointSol: BOOLEAN,
           outputResidual: BOOLEAN, printQoi: BOOLEAN]

(***************************************************************************)
(* Vectors.                                                                *)
(***************************************************************************)

Contents == {"nothing", "initial", "primal", "projected", "dual", "residual"}
Versions == 0..MaxRefinementSteps
NoMesh == -1
Vectors == [what: Contents, on: Versions]
Vector(what, on) == [what |-> what, on |-> on]
Nothing == Vector("nothing", 0)

Goto(from, to) == pc = from /\ pc' = to

Init ==
  /\ pc = "construct"
  /\ opts \in Inputs
  /\ r_step = 0
  /\ mesh = 0
  /\ solution = Vector("initial", 0)
  /\ local = solution
  /\ rhs = Nothing
  /\ adjoint = Nothing
  /\ adjointFlag = FALSE
  /\ quantities = Nothing
  /\ estimate = [primal |-> Nothing, dual |-> Nothing]
  /\ flagged = NoMesh
  /\ visFile = [vector |-> Nothing, quantities |-> Nothing]
  /\ residualFile = Nothing
  /\ qoi = Nothing

\* The constructor: an input it does not accept ends the program.
Construct ==
  /\ pc = "construct"
  /\ pc' = IF RefinementTypeAccepted(opts) THEN "build" ELSE "error"
  /\ UNCHANGED <<opts, r_step, mesh, solution, local, rhs, adjoint,
                 adjointFlag, quantities, estimate, flagged, visFile,
                 residualFile, qoi>>

\* build_mesh_refinement: a refinement object without any flag.
BuildMeshRefinement ==
  /\ Goto("build", "loop")
  /\ flagged' = NoMesh
  /\ UNCHANGED <<opts, r_step, mesh, solution, local, rhs, adjoint,
                 adjointFlag, quantities, estimate, visFile, residualFile,
                 qoi>>

\* The condition of the for loop, and its off-by-one mutant.
OnePassTooMany == r_step <= MaxRefinementSteps
AnotherPass == r_step < MaxRefinementSteps

LoopHead ==
  /\ pc = "loop"
  /\ pc' = IF AnotherPass THEN "solve" ELSE "done"
  /\ UNCHANGED <<opts, r_step, mesh, solution, local, rhs, adjoint,
                 adjointFlag, quantities, estimate, flagged, visFile,
                 residualFile, qoi>>

\* context.system->solve(): rhs keeps the last residual.
Solve ==
  /\ Goto("solve", "output")
  /\ solution' = Vector("primal", solution.on)
  /\ local' = solution'
  /\ rhs' = Vector("residual", solution.on)
  /\ UNCHANGED <<opts, r_step, mesh, adjoint, adjointFlag, quantities,
                 estimate, flagged, visFile, residualFile, qoi>>

\* libMesh's writer takes the values of solution.  Whether it brings the
\* ghosted copy up to date on the way is left open: versions differ in it.
WriterMayUpdate == local' \in {local, solution}

\* update_quantities, which reads the ghosted copy, then vis->output into the
\* one solution file.
OutputPrimal ==
  /\ Goto("output", "adjoint")
  /\ IF opts.outputVis
     THEN /\ WriterMayUpdate
          /\ quantities' = local
          /\ visFile' = [vector |-> solution, quantities |-> local]
     ELSE UNCHANGED <<local, quantities, visFile>>
  /\ UNCHANGED <<opts, r_step, mesh, solution, rhs, adjoint, adjointFlag,
                 estimate, flagged, residualFile, qoi>>

\* _do_adjoint_solve; the mutant trusts the flag the system keeps.
AdjointSolvedOnce == opts.estimator \in AdjointEstimators /\ ~adjointFlag
DoAdjointSolve == CheckForAdjointSolve(opts.estimator)

\* adjoint_solve() linearises about the vector in solution.
AdjointSolve ==
  /\ Goto("adjoint", "swap_dual")
  /\ IF DoAdjointSolve
     THEN /\ adjoint' = Vector("dual", solution.on)
          /\ adjointFlag' = TRUE
     ELSE UNCHANGED <<adjoint, adjointFlag>>
  /\ UNCHANGED <<opts, r_step, mesh, solution, local, rhs, quantities,
                 estimate, flagged, visFile, residualFile, qoi>>

\* The condition of the dual's output; the mutant forgets that without an
\* adjoint solve there is no dual.
WritesUnsolvedDual == opts.outputVis /\ opts.outputAdjointSol
WritesDual == /\ opts.outputVis
              /\ opts.outputAdjointSol
              /\ CheckForAdjointSolve(opts.estimator)

\* primal_solution.swap( dual_solution ), when the dual is to be written:
\* neither this swap nor the one that undoes it is followed by an update.
SwapDualIn ==
  /\ pc = "swap_dual"
  /\ \/ /\ WritesDual
        /\ solution' = adjoint
        /\ adjoint' = solution
        /\ pc' = "output_dual"
     \/ /\ ~WritesDual
        /\ pc' = "residual"
        /\ UNCHANGED <<solution, adjoint>>
  /\ UNCHANGED <<opts, r_step, mesh, local, rhs, adjointFlag, quantities,
                 estimate, flagged, visFile, residualFile, qoi>>

\* The same file name as OutputPrimal; the quantities are not updated.
OutputDual ==
  /\ Goto("output_dual", "swap_dual_back")
  /\ WriterMayUpdate
  /\ visFile' = [vector |-> solution, quantities |-> quantities]
  /\ UNCHANGED <<opts, r_step, mesh, solution, rhs, adjoint, adjointFlag,
                 quantities, estimate, flagged, residualFile, qoi>>

SwapDualBack ==
  /\ Goto("swap_dual_back", "residual")
  /\ solution' = adjoint
  /\ adjoint' = solution
  /\ UNCHANGED <<opts, r_step, mesh, local, rhs, adjointFlag, quantities,
                 estimate, flagged, visFile, residualFile, qoi>>

\* system->solution->swap( *(system->rhs) ) and equation_system->update();
\* the mutant leaves the update out, as the swaps of the dual do.
SwapResidualOnly ==
  /\ solution' = rhs
  /\ rhs' = solution
  /\ UNCHANGED local
SwapResidual ==
  /\ solution' = rhs
  /\ rhs' = solution
  /\ local' = solution'

\* SteadyVisualization::output_residual: the first swap.
SwapResidualIn ==
  /\ pc = "residual"
  /\ \/ /\ opts.outputResidual
        /\ SwapResidual
        /\ pc' = "output_residual"
     \/ /\ ~opts.outputResidual
        /\ pc' = "estimate"
        /\ UNCHANGED <<solution, local, rhs>>
  /\ UNCHANGED <<opts, r_step, mesh, adjoint, adjointFlag, quantities,
                 estimate, flagged, visFile, residualFile, qoi>>

OutputResidual ==
  /\ Goto("output_residual", "swap_residual_back")
  /\ WriterMayUpdate
  /\ residualFile' = solution
  /\ UNCHANGED <<opts, r_step, mesh, solution, rhs, adjoint, adjointFlag,
                 quantities, estimate, flagged, visFile, qoi>>

SwapResidualBack ==
  /\ Goto("swap_residual_back", "estimate")
  /\ SwapResidual
  /\ UNCHANGED <<opts, r_step, mesh, adjoint, adjointFlag, quantities,
                 estimate, flagged, visFile, residualFile, qoi>>

\* error_estimator->estimate_error(), which evaluates the forward solution
\* through the ghosted copy.  An adjoint estimator takes the adjoint the
\* system says is solved, and solves it itself otherwise.
EstimateError ==
  /\ Goto("estimate", "check")
  /\ adjoint' = IF CheckForAdjointSolve(opts.estimator) /\ ~adjointFlag
                THEN Vector("dual", solution.on) ELSE adjoint
  /\ estimate' = [primal |-> local,
                  dual   |-> IF CheckForAdjointSolve(opts.estimator)
                             THEN adjoint' ELSE Nothing]
  /\ UNCHANGED <<opts, r_step, mesh, solution, local, rhs, adjointFlag,
                 quantities, flagged, visFile, residualFile, qoi>>

\* The test that keeps the last pass from refining; the mutant lacks it.
RefinesEveryPass == TRUE
RefinesThisPass == r_step < MaxRefinementSteps - 1

\* check_for_convergence, the break, and the test for the last pass.
CheckForConvergence ==
  /\ pc = "check"
  /\ \/ pc' = "done"
     \/ pc' = IF RefinesThisPass THEN "flag" ELSE "next"
  /\ UNCHANGED <<opts, r_step, mesh, solution, local, rhs, adjoint,
                 adjointFlag, quantities, estimate, flagged, visFile,
                 residualFile, qoi>>

\* flag_elements_for_refinement marks the elements the error is indexed by.
FlagElements ==
  /\ Goto("flag", "refine")
  /\ flagged' = estimate.primal.on
  /\ UNCHANGED <<opts, r_step, mesh, solution, local, rhs, adjoint,
                 adjointFlag, quantities, estimate, visFile, residualFile,
                 qoi>>

\* refine_and_coarsen_elements consumes the flags.
RefineAndCoarsen ==
  /\ Goto("refine", "reinit")
  /\ mesh' = mesh + 1
  /\ flagged' = NoMesh
  /\ UNCHANGED <<opts, r_step, solution, local, rhs, adjoint, adjointFlag,
                 quantities, estimate, visFile, residualFile, qoi>>

\* equation_system->reinit() moves the vectors to the new mesh.
Reinit ==
  /\ Goto("reinit", "qoi")
  /\ solution' = Vector("projected", mesh)
  /\ local' = solution'
  /\ rhs' = Vector("nothing", mesh)
  /\ adjoint' = Vector("nothing", mesh)
  /\ UNCHANGED <<opts, r_step, mesh, adjointFlag, quantities, estimate,
                 flagged, visFile, residualFile, qoi>>

\* assemble_qoi() and output_qoi along the way.
PrintQoI ==
  /\ Goto("qoi", "next")
  /\ qoi' = IF opts.printQoi THEN local ELSE qoi
  /\ UNCHANGED <<opts, r_step, mesh, solution, local, rhs, adjoint,
                 adjointFlag, quantities, estimate, flagged, visFile,
                 residualFile>>

\* r_step++; the mutant counts refinements instead of passes.
CountsRefinements == mesh
CountsPasses == r_step + 1

NextPass ==
  /\ Goto("next", "loop")
  /\ r_step' = CountsPasses
  /\ UNCHANGED <<opts, mesh, solution, local, rhs, adjoint, adjointFlag,
                 quantities, estimate, flagged, visFile, residualFile, qoi>>

Output == OutputPrimal \/ SwapDualIn \/ OutputDual \/ SwapDualBack
          \/ SwapResidualIn \/ OutputResidual \/ SwapResidualBack

Refine == FlagElements \/ RefineAndCoarsen \/ Reinit \/ PrintQoI
          \/ NextPass

Next == Construct \/ BuildMeshRefinement \/ LoopHead \/ Solve \/ Output
        \/ AdjointSolve \/ EstimateError \/ CheckForConvergence \/ Refine

Spec == Init /\ [][Next]_vars
FairSpec == Spec /\ WF_vars(Next)

(***************************************************************************)
(* Properties.                                                             *)
(***************************************************************************)

Labels == {"construct", "error", "build", "loop", "solve", "output",
           "adjoint", "swap_dual", "output_dual", "swap_dual_back",
           "residual", "output_residual", "swap_residual_back", "estimate",
           "check", "flag", "refine", "reinit", "qoi", "next", "done"}

\* The type invariant of the solver's state.
TypeOK ==
  /\ pc \in Labels
  /\ opts \in Inputs
  /\ r_step \in Versions
  /\ mesh \in Versions
  /\ solution \in Vectors
  /\ local \in Vectors
  /\ rhs \in Vectors
  /\ adjoint \in Vectors
  /\ adjointFlag \in BOOLEAN
  /\ quantities \in Vectors
  /\ estimate \in [primal: Vectors, dual: Vectors]
  /\ flagged \in Versions \union {NoMesh}
  /\ visFile \in [vector: Vectors, quantities: Vectors]
  /\ residualFile \in Vectors
  /\ qoi \in Vectors

\* Where the code leaves the dual's output without bringing the ghosted copy
\* up to date, only the swaps of the residual's output do.
DualIsReplaced == WritesDual => opts.outputResidual

\* The error that decides convergence and the flags is estimated from the
\* forward solution of this very mesh, and for an adjoint estimator from an
\* adjoint of this mesh: the flag set_adjoint_already_solved, which is never
\* reset, leaves no old one, and of the output's swaps only the dual's can
\* leave another vector in the ghosted copy, when no residual is written
\* after it.  Then the estimate may be of the dual, but of this mesh still.
EstimateIsCurrent ==
  pc \in {"check", "flag", "refine"} =>
    /\ estimate.primal \in {Vector("primal", mesh), Vector("dual", mesh)}
    /\ DualIsReplaced => estimate.primal = Vector("primal", mesh)
    /\ opts.estimator \in AdjointEstimators =>
         estimate.dual = Vector("dual", mesh)

\* When solve() returns, the solution it leaves for the QoI and for a restart
\* was solved for on the final mesh: no refinement follows the last solve.
\* So is its ghosted copy, unless a dual written last is still in it.
ReturnsSolvedState ==
  (pc = "done" /\ MaxRefinementSteps > 0) =>
    /\ solution = Vector("primal", mesh)
    /\ DualIsReplaced => local = solution
    /\ opts.estimator \in AdjointEstimators => adjoint = Vector("dual", mesh)

\* The files a finished run leaves are of the final mesh, the quantities in
\* them were computed from the forward solution, and the residual file holds
\* a residual: every swap of vectors is undone before the next writer.
FilesAreOfFinalMesh ==
  (pc = "done" /\ MaxRefinementSteps > 0) =>
    /\ opts.outputVis =>
         /\ visFile.quantities = Vector("primal", mesh)
         /\ visFile.vector = IF WritesDual THEN Vector("dual", mesh)
                             ELSE Vector("primal", mesh)
    /\ opts.outputResidual => residualFile = Vector("residual", mesh)

\* A refinement uses flags set on the mesh it refines, after a forward solve
\* on that mesh, and never follows the last pass.
RefinesFreshFlags ==
  [][mesh' # mesh => /\ mesh' = mesh + 1
                     /\ flagged = mesh
                     /\ solution = Vector("primal", mesh)
                     /\ mesh' < MaxRefinementSteps]_vars

\* solve() returns, or the constructor ends the program: the loop makes at
\* most MaxRefinementSteps passes.
Returns == <>(pc \in {"done", "error"})

(***************************************************************************)
(* The loop implements AdaptiveLoop: solves and refinements alternate.     *)
(* The level is the mesh the vectors live on: between                      *)
(* refine_and_coarsen_elements and reinit that is still the old one.  A    *)
(* level is solved on once the forward solution is in one of the vectors.  *)
(***************************************************************************)

SolvedOn ==
  IF \E v \in {solution, rhs, adjoint} : v.what = "primal"
  THEN solution.on
  ELSE solution.on - 1

Loop == INSTANCE AdaptiveLoop
          WITH passes   <- MaxRefinementSteps,
               level    <- solution.on,
               solvedOn <- SolvedOn,
               finished <- pc \in {"done", "error"}

\* Every step of solve() is a step of the abstract loop or changes nothing
\* in it.
LoopSpec == Loop!Spec
=============================================================================
