----------------------------- MODULE Simulation -----------------------------
(***************************************************************************)
(* A simulation from its construction to the end of run(): the mesh is     *)
(* built and refined, the system of equations initialised, quantities of   *)
(* interest and an error estimator attached, a restart file read, and the  *)
(* solver the input asks for is run.  The refinement is made while the     *)
(* mesh is built, or, for a restart, after the file has been read.         *)
(*                                                                         *)
(* The steps of the adaptive and of the unsteady solver are those of       *)
(* AdaptiveSolver and UnsteadySolver; here they are one.                   *)
(***************************************************************************)
EXTENDS MeshRefinement, SteadySolvers

VARIABLES
  stage,        \* where the construction or the run is
  refinements,  \* calls of do_mesh_refinement_from_input
  values,       \* what the solution vector holds
  loadedOn,     \* the mesh the data of the restart file was read on
  qois          \* the quantities attached to the system

vars == <<input, meshVars, solverVars, stage, refinements, values, loadedOn,
          qois>>

Outside == AtAll("outside")
Stage(from, to) == stage = from /\ Outside /\ stage' = to

Init ==
  /\ input \in Inputs
  /\ InitMesh
  /\ InitSolver
  /\ stage = "build"
  /\ refinements = 0
  /\ values = "none"
  /\ loadedOn = {}
  /\ qois = {}

Stop == stage' = "error"
         /\ UNCHANGED <<meshVars, solverVars, refinements, values, loadedOn,
                        qois>>

\* MeshBuilder::build up to the refinement: a mesh is read from a file that
\* is named, or generated with a dimension and numbers of elements.
MeshIsGiven == input.mesh \in {"read", "generate"}
MeshIsComplete == "mesh" \notin input.missing
BuildMesh ==
  /\ Stage("build", "built")
  /\ MeshIsGiven /\ MeshIsComplete
  /\ mesh' = Coarse
  /\ UNCHANGED <<owner, left, passes, flags, found, pc, solverVars,
                 refinements, values, loadedOn, qois>>

\* Without a restart file the mesh is refined here; the mutant always does.
RefineAtBuildAlways == TRUE
RefineAtBuild == ~Restarting

EnterBuildRefinement ==
  /\ Stage("built", "refining")
  /\ RefineAtBuild
  /\ EnterRefinement
  /\ refinements' = refinements + 1
  /\ UNCHANGED <<solverVars, values, loadedOn, qois>>

SkipBuildRefinement ==
  /\ Stage("built", "solver")
  /\ ~RefineAtBuild
  /\ UNCHANGED <<meshVars, solverVars, refinements, values, loadedOn, qois>>

EndBuildRefinement ==
  /\ stage = "refining" /\ stage' = "solver"
  /\ LeaveRefinement
  /\ UNCHANGED <<solverVars, refinements, values, loadedOn, qois>>

\* SolverFactory::build: a continuation whatever else is asked for, if its
\* three options are there; adaptive and in time at once is not implemented.
SolverIsImplemented ==
  IF input.continuation THEN "continuation" \notin input.missing
  ELSE ~(input.transient /\ input.adaptive)
BuildSolver ==
  /\ Stage("solver", "physics")
  /\ SolverIsImplemented
  /\ UNCHANGED <<meshVars, solverVars, refinements, values, loadedOn, qois>>

\* The initial conditions a physics reads in its constructor: so many of
\* each, and one at most, of a known type.
HasInitialFunction == input.ics["ids"] = 1
InitialConditionsAreRead ==
  /\ \A k \in DOMAIN input.ics : input.ics[k] = input.ics["ids"]
  /\ input.ics["ids"] <= 1
  /\ HasInitialFunction => input.icType # "unknown"

\* MultiphysicsSystem::init_data: what the solution is projected from.
InitialValues == IF HasInitialFunction THEN "initial" ELSE "zero"

\* init_multiphysics_system: the physics, then the solver, which initialises
\* the system of equations and projects the initial conditions.
InitMultiphysicsSystem ==
  /\ Stage("physics", "qois")
  /\ InitialConditionsAreRead
  /\ InitializeSolver
  /\ values' = InitialValues
  /\ passes' = 0
  /\ UNCHANGED <<owner, mesh, left, flags, found, pc, refinements, loadedOn,
                 qois>>

\* QoIFactory knows each name, and a Nusselt number needs a temperature.  Each
\* quantity then finds what it reads: a conductivity and boundary ids, or
\* subdomains, and its unknowns in the system.
QoIsAreKnown == "unknown" \notin input.qois
QoIsAreConsistent == "nusselt" \in input.qois => input.heat
QoIsAreComplete == "qoi" \in input.missing => input.qois = {}
InitQoIs ==
  /\ Stage("qois", "estimator")
  /\ QoIsAreKnown /\ QoIsAreConsistent /\ QoIsAreComplete
  /\ qois' = input.qois
  /\ UNCHANGED <<meshVars, solverVars, refinements, values, loadedOn>>

\* build_error_estimator; what it builds is in AdaptiveSolver.
BuildErrorEstimator ==
  /\ Stage("estimator", IF Restarting THEN "restart" ELSE "check")
  /\ UNCHANGED <<meshVars, solverVars, refinements, values, loadedOn, qois>>

\* read_restart: data on the mesh as it is.
Readable == input.restart \in {"none", "xdr", "xda"}
ReadRestart ==
  /\ Stage("restart", "read")
  /\ Readable
  /\ IF input.restart = "none" THEN UNCHANGED <<values, loadedOn>>
     ELSE values' = "restart" /\ loadedOn' = mesh
  /\ UNCHANGED <<meshVars, solverVars, refinements, qois>>

EnterRestartRefinement ==
  /\ Stage("read", "refining again")
  /\ EnterRefinement
  /\ refinements' = refinements + 1
  /\ UNCHANGED <<solverVars, values, loadedOn, qois>>

EndRestartRefinement ==
  /\ stage = "refining again" /\ stage' = "reinit"
  /\ LeaveRefinement
  /\ UNCHANGED <<solverVars, refinements, values, loadedOn, qois>>

\* EquationSystems::reinit carries a solution over one pass of refinement,
\* from the unknowns of an element or of its parent.
Reinit ==
  /\ Stage("reinit", "check")
  /\ values' = IF passes <= 1 THEN values ELSE "lost"
  /\ passes' = 0
  /\ UNCHANGED <<owner, mesh, left, flags, found, pc, solverVars, refinements,
                 loadedOn, qois>>

CheckForUnusedVars ==
  /\ Stage("check", "run")
  /\ input.unused => input.warnOnly
  /\ UNCHANGED <<meshVars, solverVars, refinements, values, loadedOn, qois>>

\* run() of the steady and the continuation solver.
SolvesHere == input.continuation \/ ~(input.transient \/ input.adaptive)
Run ==
  /\ Stage("run", "solving")
  /\ SolvesHere
  /\ EnterSolve
  /\ UNCHANGED <<meshVars, refinements, values, loadedOn, qois>>

Solving ==
  /\ stage = "solving" /\ UNCHANGED stage
  /\ SolverStep
  /\ values' = IF at = "solve" THEN "solved" ELSE values
  /\ UNCHANGED <<meshVars, refinements, loadedOn, qois>>

EndSolve ==
  /\ Stage("solving", "print")
  /\ at = "end"
  /\ UNCHANGED <<meshVars, solverVars, refinements, values, loadedOn, qois>>

RunOther ==
  /\ Stage("run", "print")
  /\ ~SolvesHere
  /\ values' = "solved"
  /\ UNCHANGED <<meshVars, solverVars, refinements, loadedOn, qois>>

\* The quantities are summed again and printed.  With none attached the cast
\* to CompositeQoI is checked in a debugging build and undefined otherwise.
PrintQoI ==
  /\ \/ Stage("print", "done")
     \/ input.printQoI /\ qois = {} /\ Stage("print", "error")
  /\ UNCHANGED <<meshVars, solverVars, refinements, values, loadedOn, qois>>

\* The errors that end the construction.
Fail ==
  /\ \/ stage = "build" /\ ~MeshIsGiven
     \/ stage = "build" /\ ~MeshIsComplete
     \/ stage = "solver" /\ ~SolverIsImplemented
     \/ stage = "physics" /\ ~InitialConditionsAreRead
     \/ stage = "physics" /\ input.continuation /\ ~Found
     \/ stage = "qois" /\ ~QoIsAreKnown
     \/ stage = "qois" /\ ~QoIsAreConsistent
     \/ stage = "qois" /\ ~QoIsAreComplete
     \/ stage = "restart" /\ ~Readable
     \/ stage = "check" /\ input.unused /\ ~input.warnOnly
  /\ Stop

\* The steps inside do_mesh_refinement_from_input.
Refining(action) ==
  /\ stage \in {"refining", "refining again"}
  /\ action
  /\ UNCHANGED <<solverVars, stage, refinements, values, loadedOn, qois>>

Construct ==
  \/ BuildMesh \/ EnterBuildRefinement \/ SkipBuildRefinement
  \/ EndBuildRefinement \/ BuildSolver \/ InitMultiphysicsSystem \/ InitQoIs
  \/ BuildErrorEstimator \/ ReadRestart \/ EnterRestartRefinement
  \/ EndRestartRefinement \/ Reinit \/ CheckForUnusedVars \/ Fail
RunAll == Run \/ Solving \/ EndSolve \/ RunOther \/ PrintQoI

Together == Construct \/ RunAll \/ Refining(RefineTogether)
Alone(p) == Refining(RefineAlone(p))

Next == (Together \/ \E p \in Ranks : Alone(p)) /\ UNCHANGED input

Spec == Init /\ [][Next]_vars
FairSpec ==
  /\ Spec
  /\ WF_vars(Together /\ UNCHANGED input)
  /\ \A p \in Ranks : WF_vars(Alone(p) /\ UNCHANGED input)

(***************************************************************************)
(* Properties.                                                             *)
(***************************************************************************)

Stages == {"build", "built", "refining", "solver", "physics", "qois",
           "estimator", "restart", "read", "refining again", "reinit", "check",
           "run", "solving", "print", "done", "error"}
Ready == stage \in {"check", "run", "solving", "print", "done"}

\* The type invariant of a simulation.
TypeOK ==
  /\ input \in Inputs
  /\ owner \in [Coarse -> Ranks]
  /\ left \in Nat /\ passes \in Nat /\ refinements \in Nat
  /\ flags \subseteq mesh
  /\ found \in [Ranks -> BOOLEAN]
  /\ pc \in [Ranks -> {"outside", "uniform", "flag", "max", "agreed", "refine",
                       "done"}]
  /\ stage \in Stages
  /\ values \in {"none", "zero", "initial", "restart", "lost", "solved"}
  /\ loadedOn \in {{}, Coarse}
  /\ qois \subseteq {"nusselt", "vorticity"}
  /\ dirichlet \in Seq(Conditions) /\ constraints \in Seq(Conditions)
  /\ index \in 0..Len(dirichlet) /\ step \in 0..input.increments
  /\ solution \in Seq(Conditions)
  /\ file \in [step: Int, holds: Seq(Conditions)]
  /\ residualFile \in Seq(Conditions)
  /\ at \in {"outside", "initial", "next", "solve", "output", "residual", "end"}

\* When the construction is over every active element has been refined as
\* often as the function wants at its centroid, on top of the uniform
\* refinement, unless a restart file limits the passes to one.
MeshAsAsked ==
  Ready /\ input.local /\ ~Restarting =>
    \A e \in mesh : Level(e) >= input.uniform + Wanted(input, e)

\* The input asks for at most one pass of refinement after a restart.
OnePass == input.uniform + (IF input.local THEN 1 ELSE 0) <= 1

\* The data of a restart file is read on the mesh of the input, before it is
\* refined, and reaches the solver; and so do the initial conditions.
RestartKeepsSolution ==
  /\ loadedOn \in {{}, Coarse}
  /\ Ready /\ values # "solved" /\ OnePass =>
       values = IF input.restart \in {"xdr", "xda"} THEN "restart"
                ELSE IF input.ics["ids"] = 1 THEN "initial" ELSE "zero"

\* Whatever way the simulation starts, the mesh is refined from the input
\* once, and the unknowns are distributed on the mesh that is solved on.
RefinedOnce ==
  /\ refinements <= 1
  /\ Ready => refinements = 1 /\ passes = 0

\* Between the reading of a restart file and the redistribution of its data
\* there is one pass of refinement at most, as the warning of
\* do_mesh_refinement_from_input says.
OnePassOnRestart == loadedOn # {} /\ input.local => passes <= 1

\* In the refinement a processor goes on by itself unless it is in a
\* collective call, and all of them go on once they are in the same one.
GoesOn(p) ==
  \/ pc[p] = "uniform" /\ left = 0
  \/ pc[p] \in {"flag", "agreed"}
AllMeet ==
  \/ AtAll("uniform") /\ left > 0
  \/ AtAll("max")
  \/ AtAll("refine")
  \/ AtAll("done")

\* Nobody waits in comm.max for a processor that is in
\* refine_and_coarsen_elements or has left the function, whatever each of
\* them has seen of the mesh.
ProcessorsMeet ==
  stage \in {"refining", "refining again"} =>
    AllMeet \/ \E p \in Ranks : GoesOn(p)

\* No processor waits for ever in a collective call of the refinement, and a
\* simulation ends, with its results or an error.
SimulationEnds == <>(stage \in {"done", "error"})
=============================================================================
