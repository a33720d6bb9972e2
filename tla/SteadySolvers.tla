---------------------------- MODULE SteadySolvers ----------------------------
(***************************************************************************)
(* SteadySolver and DisplacementContinuationSolver: one solve, with files  *)
(* before and after it and a file of the residual, or one for each         *)
(* increment of a displacement that is imposed on a boundary by replacing  *)
(* the function of one of the Dirichlet conditions of the DofMap.          *)
(***************************************************************************)
EXTENDS SimulationInput

VARIABLES
  dirichlet,   \* the Dirichlet conditions, in the order they were added
  index,       \* _bc_index, counted from one
  step,        \* the increments begun
  constraints, \* the conditions the constraints were last computed from
  solution,    \* the constraints the solution was computed under
  file,        \* the last file: its step and the solution in it
  residualFile,\* the solution whose residual is in the residual file
  at           \* where solve() is

solverVars == <<dirichlet, index, step, constraints, solution, file,
                residualFile, at>>

NoSolution == <<>>
NoFile == [step |-> -1, holds |-> NoSolution]

InitSolver ==
  /\ dirichlet = <<>> /\ index = 0 /\ step = 0
  /\ constraints = <<>> /\ solution = NoSolution
  /\ file = NoFile /\ residualFile = NoSolution
  /\ at = "outside"

\* The conditions on the boundary, in the order of the DofMap.
OnBoundary == {i \in DOMAIN input.dirichlet :
                 input.boundary \in input.dirichlet[i].ids}
Found == OnBoundary # {}

\* initialize() takes the first of them; the mutant takes the last.
LastIndex == CHOOSE i \in OnBoundary : \A j \in OnBoundary : i >= j
FirstIndex == CHOOSE i \in OnBoundary : \A j \in OnBoundary : i <= j

\* Solver::initialize: EquationSystems::init adds the conditions and computes
\* the constraints; then the continuation looks for its condition.
InitializeSolver ==
  /\ input.continuation => Found
  /\ dirichlet' = input.dirichlet
  /\ constraints' = input.dirichlet
  /\ index' = IF input.continuation THEN FirstIndex ELSE 0
  /\ UNCHANGED <<step, solution, file, residualFile, at>>

EnterSolve ==
  /\ at' = IF input.continuation THEN "next" ELSE "initial"
  /\ UNCHANGED <<dirichlet, index, step, constraints, solution, file,
                 residualFile>>

\* SteadySolver writes what it starts from, which has no constraints.
OutputInitial ==
  /\ at = "initial"
  /\ file' = IF input.outputVis THEN [step |-> 0, holds |-> solution] ELSE file
  /\ at' = "solve"
  /\ UNCHANGED <<dirichlet, index, step, constraints, solution, residualFile>>

\* Displacement s+1 of so many increments, which are equal.
Displaced == [dirichlet EXCEPT ![index].value = step + 1]

\* increment_displacement: a new function for the condition, and a reinit,
\* which computes the constraints again; the mutant does not.
AfterReinitNone == constraints
AfterReinit == Displaced

IncrementDisplacement ==
  /\ at = "next" /\ step < input.increments
  /\ dirichlet' = Displaced
  /\ constraints' = AfterReinit
  /\ step' = step + 1
  /\ at' = "solve"
  /\ UNCHANGED <<index, solution, file, residualFile>>

SolveSystem ==
  /\ at = "solve"
  /\ solution' = constraints
  /\ at' = "output"
  /\ UNCHANGED <<dirichlet, index, step, constraints, file, residualFile>>

\* The file of increment s is numbered s.
FileStep == IF input.continuation THEN step - 1 ELSE 0
Output ==
  /\ at = "output"
  /\ file' = IF input.outputVis
             THEN [step |-> FileStep, holds |-> solution] ELSE file
  /\ at' = IF input.continuation THEN "next" ELSE "residual"
  /\ UNCHANGED <<dirichlet, index, step, constraints, solution, residualFile>>

\* output_residual of SteadySolver.  It swaps the solution and the residual
\* for the writer and back, each time with an update, so that it leaves the
\* vectors as they were; AdaptiveSolver has these steps one by one.
OutputResidual ==
  /\ at = "residual"
  /\ residualFile' = IF input.outputResidual THEN solution ELSE residualFile
  /\ at' = "end"
  /\ UNCHANGED <<dirichlet, index, step, constraints, solution, file>>

EndContinuation ==
  /\ at = "next" /\ step >= input.increments
  /\ at' = "end"
  /\ UNCHANGED <<dirichlet, index, step, constraints, solution, file,
                 residualFile>>

SolverStep ==
  OutputInitial \/ IncrementDisplacement \/ SolveSystem \/ Output
    \/ OutputResidual \/ EndContinuation

-----------------------------------------------------------------------------

\* The value a list of conditions gives a component on the boundary: libMesh
\* lets the first condition on an unknown stand.
Imposing(list, v) ==
  {i \in DOMAIN list : input.boundary \in list[i].ids /\ v \in list[i].vars}
Imposed(list, v) ==
  IF Imposing(list, v) = {} THEN "free"
  ELSE list[CHOOSE i \in Imposing(list, v) :
              \A j \in Imposing(list, v) : i <= j].value

\* A condition that imposes the displacement, on that boundary alone and along
\* the first axis alone; it is the first that is listed for the boundary.
IsDisplacement(c) == c.vars = {"u"} /\ c.ids = {input.boundary}
FirstIsDisplacement ==
  \E i \in OnBoundary : /\ \A j \in OnBoundary : i <= j
                        /\ IsDisplacement(input.dirichlet[i])

\* The input asks a continuation for at least one increment.
SomeIncrement == input.continuation => input.increments > 0

\* A file of the continuation holds a solution whose displacement on the
\* boundary is that of the file's number, with the other components and the
\* other boundaries as in the input.
FilesHoldTheirDisplacement ==
  input.continuation /\ FirstIsDisplacement /\ file # NoFile =>
    /\ Imposed(file.holds, "u") = file.step + 1
    /\ \A v \in {"v", "w"} : Imposed(file.holds, v) = Imposed(input.dirichlet, v)
    /\ \A i \in DOMAIN input.dirichlet :
         ~IsDisplacement(input.dirichlet[i]) =>
           file.holds[i] = input.dirichlet[i]

\* When solve() returns the solution obeys the conditions: those of the input,
\* or the displacement in full; the last file holds that solution, and the
\* residual file, which only SteadySolver writes, is of it.
EndsAsAsked ==
  at = "end" /\ SomeIncrement =>
    /\ solution # NoSolution \/ input.dirichlet = <<>>
    /\ solution = dirichlet
    /\ input.continuation /\ FirstIsDisplacement =>
         Imposed(solution, "u") = input.increments
    /\ input.outputVis => file.holds = solution
    /\ input.outputResidual /\ ~input.continuation => residualFile = solution
=============================================================================
