# A TLA+ verification of GRINS

GRINS is a C++ library and program, built on libMesh, that solves multiphysics
flow problems with finite elements.  This directory holds TLA+ models of the
parts of it that have control worth checking - loops that swap vectors, shared
objects under locks, registries that several classes feed, lists of physics that
must agree with one another - with TLC configurations for small instances and
TLAPS proofs for all instances.

Paths below are relative to the `src/` directory of the repository
(`physics/src/physics.C` and so on).

- [1. The system](#1-the-system)
- [2. The modules](#2-the-modules)
- [3. The runs](#3-the-runs)
- [4. The proofs](#4-the-proofs)
- [5. Disagreements between code and documents](#5-disagreements-between-code-and-documents)
- [6. What is not modelled](#6-what-is-not-modelled)
- [7. How it grew, and what is left](#7-how-it-grew-and-what-is-left)

## 1. The system

### How a run goes

`solver/src/simulation.C` drives everything.  `Simulation` builds the mesh
(`mesh_builder.C`), the list of physics (`physics_factory.C`, whose
constructors read the boundary conditions of the input), the solver
(`solver_factory.C`), the `MultiphysicsSystem`, the visualization, the
postprocessed quantities, the QoI and the error estimator.  It attaches the
user's Dirichlet functions, initialises the system (variables, time evolving
variables, boundary and initial conditions), attaches the Neumann functions,
and calls the solver, which calls back into the system: libMesh asks
`MultiphysicsSystem` for residuals and Jacobians element by element, on several
threads; the system asks its physics; the physics ask their gas properties.

### Inventory

| Component | State | Operations | What is hard |
|---|---|---|---|
| Adaptive steady solver `solver/src/steady_mesh_adaptive_solver.C`, `mesh_adaptive_solver_base.C` | the mesh, the solution, adjoint and residual vectors, the error, the flags of the elements | solve, output, adjoint solve, estimate, test, flag, refine, reinit | vectors that are swapped for a writer, left on an old mesh, or declared current by a flag that is never reset |
| Unsteady solver `solver/src/grins_unsteady_solver.C`, `visualization/src/unsteady_visualization.C` | time, old and new solution, the ghosted copy, the time solver, files | the time step, Dirichlet update, output, residual output, advance | the time solver and the solution are exchanged while a residual is written; a cadence read without a check |
| Cantera gas properties `properties/src/cantera_*.C` | one `Cantera::IdealGasMix` per mixture, a mutex | set the state and read a property | threads share the one gas |
| Postprocessed quantities `visualization/*/postprocessed_quantities.*` | registered names and indices, variables of the output system, per-thread contexts | register, initialize, update (threaded projection) | indices kept by one class and answered by another; contexts recognised by an address |
| Multiphysics system `physics/src/multiphysics_sys.C` | variables, time evolving set, contexts, caches | init_data, build and init_context, the residual functions | every physics depends on what the others asked for or added; the loops over the list cannot be fused |
| Physics `physics/src/*.C` | options, variable numbers | variables, requests, caches, residual functions | a Jacobian block, a scaling or a request that is missing in one branch |
| Boundary conditions `bc_handling/src/*.C`, `boundary_conditions/src/boundary_conditions.C` | per handler four lists and maps; a static axisymmetry flag | read, attach functions, initialise the DofMap, apply fluxes | entries lost between lists; a shared flag read at two times |
| Simulation `solver/src/simulation.C`, steady solver `grins_steady_solver.C`, displacement continuation `displacement_continuation_solver.C`, solver factory | the stage of the construction, the solution vector, the Dirichlet conditions and their constraints | build, attach, initialise, read a restart, refine, run, print | the order of set-up and restart; a condition replaced by its place in a list |
| Mesh builder `solver/src/mesh_builder.C` | the mesh, the flags and the count of found refinements on each processor | build, refine uniformly, refine where a function says | processors that see different elements must make the same collective calls |
| Physics factory `physics/src/physics_factory.C` | - | build, check the combination | what the check accepts must be solvable |
| Quantities of interest `qoi/src/*.C` | the sums of each thread and processor | assemble, join threads, sum over processors, derivative | each element and side counted once; collective sums in one order |
| Initial conditions, error estimation factory, visualization formats | options | construction | - |
| Antioch gas properties `properties/src/antioch_*.C` | a temperature cache, local to one loop | evaluate | - |
| Other properties, elasticity laws, pressure pinning, profiles, utilities, applications | none or formulas | evaluate | arithmetic over the reals |
| tinyxml2 | vendored code | | |

Interaction is by calls, except for these pieces of shared state: the vectors of
the system (solver, visualization, error estimator), the static flag
`BCHandlingBase::_axisymmetric` (all handlers and three physics), the gas
(all threads), the registered quantities (all physics), and the finite elements
of an assembly context (all physics with variables of a type).

### What makes each part correct

- *Adaptive solver*: the error is estimated on the current mesh from current
  solutions, whatever the output has swapped meanwhile; flags are of the mesh they refine; no refinement follows the last
  solve; files are of the final mesh.
- *Unsteady solver*: each step starts from the committed state with the right
  time solver and current Dirichlet data; files hold what their suffix says; the
  committed state advances by one level at a time.
- *Cantera*: a property is of the state of the thread that asked for it; no
  thread waits for ever.
- *Postprocessing*: each output field holds the quantity it is named for, of the
  present state, on each element.
- *Multiphysics system*: shape functions and cached values are there when a
  residual function uses them, blocks exist, the Jacobian has the dependences
  and the scaling of the residual, mass residuals vanish at rest, and what is
  marched in time has an equation with a rate.
- *Boundary conditions*: what the input asks for reaches the DofMap and the
  residual, once, in order and with the weight of the equation.
- *Simulation*: the mesh is refined from the input once, the data of a restart
  is read on the mesh it was written on and survives the refinement, initial
  conditions reach the solver, and every way through the construction ends.
- *Displacement continuation*: a file numbered s holds the solution under
  displacement s and the other conditions of the input; the last solve is under
  the full displacement.
- *Mesh builder*: every active element was refined as often as the function asks
  at its centroid, and no processor is left alone in a collective call.
- *Physics factory*: what the check of combinations accepts has an equation for
  each unknown.
- *Quantities of interest*: each processor gets the integral over the whole
  domain, every part once, and the adjoint's right-hand side has an entry for
  each unknown the value depends on.

`PROJECT.json` lists, under `hazards`, the lines where each of these can go wrong.

## 2. The modules

One module per component; `MC*` modules give constants their values, `*Proofs`
modules hold theorems about a component for all values.

### `AdaptiveSolver` and `AdaptiveLoop`

`AdaptiveSolver` is `SteadyMeshAdaptiveSolver::solve` with the constructor's
checks and `SteadyVisualization::output_residual`.  The mesh is a version number
which each `refine_and_coarsen_elements` advances; a vector is a record `[what,
on]` of what it holds and of the mesh its degrees of freedom live on.  A solve
keeps the mesh of the vector and not the mesh of the elements, so a missing
reinit would show.  There is one action per statement: `Construct`,
`BuildMeshRefinement`, `LoopHead`, `Solve`, `OutputPrimal`, `AdjointSolve`,
the three steps of the dual's output (`SwapDualIn`, `OutputDual`,
`SwapDualBack`), those of the residual's, `EstimateError`,
`CheckForConvergence` (its outcome is open: both answers are explored),
`FlagElements`, `RefineAndCoarsen`, `Reinit`, `PrintQoI` and `NextPass`.
libMesh's estimator and projection are external, modelled by what this code
relies on: an adjoint estimator trusts `set_adjoint_already_solved`.

`local` is `current_local_solution`, the ghosted copy of the solution from which
the estimator, the postprocessed quantities and the quantities of interest
evaluate.  `Solve` and `Reinit` bring it up to date, and so does each swap of the
residual's output (`SwapResidual`, with `equation_system->update()`); the swaps of
the dual's output do not.  Whether libMesh's writer updates the copy on its way
is not a matter of this code and is left open (`WriterMayUpdate`).  An update
missing from the residual's swaps violates `EstimateIsCurrent` and
`ReturnsSolvedState`.

`AdaptiveLoop` is the promise of an adaptive solve: solve on a level, then
possibly refine it, at most `passes` levels, and end on a level that was solved
on.  `AdaptiveSolver` implements it (`LoopSpec`) with `level <- solution.on`,
because between the refinement and the reinit the vectors still live on the old
mesh, and `solvedOn` computed from whichever of the three vectors holds the
forward solution, because the writers swap it away.

### `UnsteadySolver`

`UnsteadySolver::solve` with `UnsteadyVisualization::output_residual`.  Level k
is the state after k steps.  `solution`, its ghosted copy `local`, `rhs` and the
`old` solution of the time solver are separate vectors; `time_solver` and `prev`
are the pointer the system owns and the one `output_residual` keeps.  Actions:
`OutputInitial`, `LoopHead`, `UpdateDirichlet`, `Solve`, `Output`, the six steps
of `OutputResidual`, and `AdvanceTimestep`.  A cadence of zero, which the code
divides by, is the step to `crash`.

### `CanteraLocking`

Threads evaluate a workload of calls at each quadrature point.  A call locks the
mutex of its source file (`cantera_mutex` is a static in an unnamed namespace of
a header, so each file has one), sets temperature and composition in separate
steps, reads, and unlocks; `h(T,species)` does not lock.  `Fail` is Cantera's
exception anywhere in a call, with the scoped lock released by the stack.  The
state of the gas is the name of the thread and point it was set for.

### `OutputVars` and `PostProcessing`

`OutputVars` is the table of the options each physics accepts, the quantities
it registers for them and those its `compute_postprocessed_quantity` answers.
`PostProcessing` is the life of the quantities: `RegisterQuantity` (indices from
one, kept by the physics), `Initialize` (variables by name), `Advance` (a solve,
step or refinement elsewhere), `UpdateQuantities` (the projection's start),
`StartRange`, `Reinit` and `Evaluate` of each thread, `EndUpdate`.  The last
physics of the list that recognises the index wins; a value nobody writes is
zero.  `_stress_zz_index` is uninitialised unless requested, and its value is an
input of the model (`garbage`).  The projection itself is libMesh's; a field is
kept per element where libMesh also shares nodes.

### `PhysicsTerms` and `MultiphysicsSystem`

`PhysicsTerms` holds, for every class the factory builds, operators of a
configuration: the variables added and marched, the shapes asked for, the cached
values computed, and per residual function a `Term` - which unknowns each
equation reads, which Jacobian blocks it fills and with which factor, which
shapes and cached values it takes, and where it stops with
`libmesh_not_implemented`.  A dependence is a triple `<<row, column, via>>` with
`via` one of `value`, `rate` and `one`, the three factors libMesh distinguishes.
The integrals' arithmetic is left out.

`MultiphysicsSystem` takes those operators as CONSTANTS and is the control of
the class: the loops of `init_data` (`InitVariables`, `RefuseVariable`,
`SetTimeEvolving`, `SetIsSteady`), `BuildContext` and `InitContext`, and one
visit of an element, side or the scalar unknowns by a time solver:
`StartVisit`, `ComputeCache`, `Contribute`, `Skip` (not enabled there), `Stop`,
`NextHook`, `EndVisit`.

`ProgramPhysics` composes the system with `PhysicsTerms` and `PhysicsFactory`:
two assumptions say that the operators of the system are those of the classes
(`PhysicsAreOfProgram`) and that the factory's check has passed each list
(`ListsAreAccepted`).  It names the physics that do not give the system what they
owe it (`Overreaching`, `WithoutRates`, `WithPartialJacobian`) and the company
others need (`RequestsHaveOwners`, `RatesHaveOwners`).  `MCMultiphysicsSystem`
lists configurations of it.

### `BoundaryTypes` and `BoundaryConditions`

`BoundaryTypes` is the table of the condition types: which handler takes each
into which list, what it imposes or adds, and, apart from that, what its name
promises.  `BoundaryConditions` is the life of the conditions: `ReadEntry` and
`RefuseLists` (`read_bc_data` and the handlers' `init_bc_types`; the low Mach
physics read two lists and the reacting one three, each counted before it is
read, and the first two through the virtual functions of the base class, which
refuse the types of the species: `Reader`),
`ConstructPhysics` (three physics copy the shared flag here),
`AttachDirichletFuncs`, `StartInit`, `InitDirichletBC`, `InitDirichletFuncObj`,
`InitPeriodic` (`Physics::init_bcs` one condition at a time),
`AttachNeumannFuncs`, and `AssembleSide` (the fluxes of a side for each of its
ids).  Errors the code detects lead to `error`; a map dereferenced where nothing
is leads to `undefined`.  Profiles are functions; two species stand for any.  The
fractions of a species and the text of a catalytic reaction are right or `wrong`.

### `SimulationInput`, `MeshRefinement`, `SteadySolvers` and `Simulation`

`SimulationInput` names what the input file asks for.  `MeshRefinement` is
`MeshBuilder::do_mesh_refinement_from_input` on several processors: `UniformPass`,
`Flag` (a processor sees its own elements and their neighbours, all of them on a
serial mesh), `Agree` (`comm.max` of the count of found refinements), `Leave` or
`StartPass`, and `RefineAndCoarsen`, with the level-one rule of libMesh
(`Marked`).  Collective calls are actions of all processors together, so a
processor that does not come blocks the others.

`SteadySolvers` holds `SteadySolver::solve` and
`DisplacementContinuationSolver`: the condition that is found by its place in the
DofMap, `IncrementDisplacement` (replace its function and reinit), `SolveSystem`,
`Output`, and `OutputResidual` of the steady solver alone, in one step: its swaps,
each followed by an update, are steps of `AdaptiveSolver`.  A solution is the list
of conditions it was computed under, a file its number and the solution in it.

`Simulation` composes them: `BuildMesh`, refinement at the build or, with a
restart, after the data has been read, `BuildSolver`, `InitMultiphysicsSystem`,
`InitQoIs`, `BuildErrorEstimator`, `ReadRestart`, `Reinit`,
`CheckForUnusedVars`, the run (`Run`, `Solving`, `EndSolve`; `RunOther` is the
adaptive or unsteady solver, whose steps are in their own modules), `PrintQoI`
and the errors that end the construction (`Fail`), those of an unknown, an
inconsistent or an incomplete quantity of interest among them (`QoIsAreKnown`,
`QoIsAreConsistent`, `QoIsAreComplete`).  `values` says what the
solution vector holds; a vector carried over more than one pass of refinement
without a redistribution is `lost`.

### `PhysicsFactory`

The names and models the factory builds (`AddsPhysics`) and
`check_physics_consistency` (`IsConsistent`), over the tables of `PhysicsTerms`:
`Undetermined` are the unknowns of a list without an equation.

### `QoIAssembly` and `WholeSum`

`CompositeQoI` with the average Nusselt number and the vorticity.  A program is a
sequence of solves, passes of the values and passes of the derivatives.
`StartPass`, `Visit` (a thread takes an element of its processor),
`ThreadJoin`, `StartReduction`, `Sum` (one collective sum per quantity) and
`Store` are the values; `CloseDerivatives` ends the assembly of the adjoint's
right-hand sides.  A sum is the set of its contributions - element, side or
interior, and the solution they were integrated in - and whether one was added
twice.  `WholeSum` is the promise: what a processor learns is the quantity over
the whole domain in the latest solution; `QoIAssembly` implements it (`SumSpec`).

## 3. The runs

| Run (`.cfg`) | Instance | Checks |
|---|---|---|
| adaptive (`MCAdaptiveSolver`) | three passes; every strategy, estimator and output option; every outcome of the convergence test; a writer that updates the ghosted copy or not | `EstimateIsCurrent ReturnsSolvedState FilesAreOfFinalMesh RefinesFreshFlags Returns LoopSpec` |
| unsteady (`MCUnsteadySolver`) | four steps, cadences 0 to 3, every option | `StepsFromCommittedState DirichletIsCurrent FilesHoldTheirStep CommitsInOrder Terminates` |
| cantera_one_file (`MCCanteraLocking`) | three threads, two points, the locked calls of each file | `ResultsAreOwn AllThreadsFinish` |
| postprocessing (`MCPostProcessing`) | two threads, three elements, two changes of the state; flow, membrane and gas requests, duplicate and invalid names | `FieldsHoldTheirQuantity NoNameTwice ContextIsOwn` |
| multiphysics (`MCMultiphysicsSystem`) | 100 configurations of the examples' and tests' physics: steady, backward Euler and theta schemes, 2 and 3 dimensions, analytic and numerical Jacobians, two subdomains; the models of the examples and tests, and each physics with what the check makes it come with | `DataWasRequested CachedBeforeRead BlocksExist JacobianIsOfResidual MassHoldsRates EvolvingAreMarched AcceptedAreSquare`, and `PhysicsAreSound`: in a list the factory accepts the physics meet the hypotheses of the theorems, exactly when it has none of the named exceptions |
| boundary_conditions (`MCBoundaryConditions`) | five ids; every pair of entries a physics accepts, flow with heat in both orders, whole inputs of each physics, inputs with each error | `DirichletAreOfInput FluxesAreOfInput WeightsAgree PeriodicIdsArePaired InputOrderKept` |
| qoi (`MCQoIAssembly`) | three processors, two threads each, three elements with every partition, two quantities, five rounds with two solves | `SumSpec DerivativeIsOfValue ProcessorsMeet AllRanksFinish` |
| simulation (`MCSimulation`) | two processors, two coarse elements, up to two uniform and two local levels; more than two thousand inputs: every way to refine, restart, initialise, measure, choose a solver and continue a displacement, and each error | `MeshAsAsked RestartKeepsSolution RefinedOnce FilesHoldTheirDisplacement EndsAsAsked ProcessorsMeet SimulationEnds` |

Four further runs each check one property that a document of the repository
states and the code violates; see section 5.  Their modules are the same, their
inputs differ (`MCCanteraElement`, `MCMultiphysicsLowMachStab`,
`MCBoundaryAxisLast`, `MCSimulationRestart`).

The type invariants (`TypeOK` of each module) are theorems of section 4.

**Bounds.**
Three passes (`MaxRefinementSteps = 3`) have a pass that refines a fresh mesh,
one that refines a refined mesh and the one that does not refine; every further
pass is like the second.  Four steps with a cadence of up to three have steps on
and off the cadence, consecutive outputs, and a last step on either side.  Three
threads and two points let one thread hold a mutex while two wait, and a point's
state meet that of the next one.  Three elements for two threads let a thread
take a range of several elements while another has one, and `MaxLevel = 2` lets
a context survive two changes of state.  Two subdomains, two of every kind of
finite element and each physics with its companions cover each branch of a
residual function.  Two entries on the same or different ids reach every
interaction of two lists of a handler; whole inputs reach those of more.
Three processors let two of them agree on something the third does not see, and
three elements leave one of them without any; five rounds have a value pass after
a solve that outdates the previous value.  Two coarse elements on two processors
have an edge between processors, where a flag set on one side must be seen on the
other, and two local levels on top of up to two uniform ones need several passes
and the level-one rule.  Three increments have a first, a middle and a last one.
`Advance` is bounded by `MaxLevel` and `UpdateQuantities` is made once per level;
`Rounds` bounds the solves; no other counter of the models is unbounded.

**Fairness.**  `FairSpec` of the two solvers is `WF_vars(Next)`: a sequential
program whose library calls return.  `CanteraLocking` has weak fairness of each
thread: the operating system runs every thread, and that is all; a spin lock
gives no fairness among waiters, and none is assumed (each workload is finite, so
waiters get their turn).  `QoIAssembly` and `Simulation` have weak fairness of
each processor's own steps and of the collective calls, which the message passing
library completes once all processors are in them.  The other components state
safety only.

**Deadlock** is checked in `CanteraLocking`, where a stuck thread is the hazard.
The other models end: the program returns, refuses its input or stops in an
error, so their configurations do not check it.  A processor that waits for ever
in a collective call is found by `ProcessorsMeet`, `AllRanksFinish` and
`SimulationEnds`; `ProcessorsMeet` says that no state is reached in which some
wait for a call the others do not make, and is also proved.

**Inputs left out of passing runs** are named operators, not silent choices.
`AdaptiveSolver` states its properties for at least one pass; with
`max_refinement_steps` zero nothing is solved.  `EstimateIsCurrent` and
`ReturnsSolvedState` say more when `DualIsReplaced`: a run that writes the dual
and no residual after it is checked for the rest only (section 5).
`MCMultiphysicsSystem` lists its configurations; the combinations left out
because the code fails on them are in section 5.  `BoundaryConditions` names the
conditions under which the code keeps its promises: `OneFluxPerId` (the map of
fluxes has one per boundary), `FluxesArePassedOn` (some physics never apply
them), `AxisIsKnown` (the order of physics), `DisplacementsAreComplete` and
`PeriodicAreEven`.  A gas-solid reaction without an arrow, whose missing product
is read past the end of a vector (`reacting_low_mach_navier_stokes_bc_handling.C:313`),
is not among the `wrong` entries.  `PostProcessing`'s passing requests have a harmless value in
the membrane's uninitialised index.  `QoIAssembly` assumes in its theorem that no
side carries two ids of one quantity (`OneListedId`: such a side is integrated
twice) and that the velocities have as many unknowns as variable zero
(`DofsAgree`); `Simulation` excludes by `OnePass`, `SomeIncrement` and
`FirstIsDisplacement` the inputs in which the code's own warning, an increment
count of zero, or a boundary whose first condition is not the displacement, make
the promise void.

## 4. The proofs

Every theorem holds for all values of the module's constants that its named
`ASSUME`s allow, and TLC evaluates those assumptions in the runs.

**`AdaptiveSolverProofs`** - `TypeCorrect`, `EstimateAlwaysCurrent`,
`AlwaysReturnsSolved`, `FilesAlwaysOfFinalMesh`, `AlwaysRefinesFreshFlags`, for
every bound on the passes.  The properties speak of the few labels where a vector
is used; the inductive invariant says where the forward solution, the dual and
the residual are at every label, in and out of the swaps, which of them the
ghosted copy holds there (`LocalPlace`), and how the mesh version follows the loop
counter.  After the dual's output the copy is known to be of the current mesh only;
it is the forward solution again once the residual's swaps have updated it.  `ImplementsLoop`: the solver implements
`AdaptiveLoop`.  Besides the invariant it needs that none of the three vectors
holds a forward solution before a level's solve (`Unsolved`), from which
`Levels` computes the abstract state at every label; a solve, a reinit and an end
are then steps of the abstract loop, everything else a stutter.
`EndComesNearer`: every step lowers a natural number, so a solve makes at most
`20 * MaxRefinementSteps + 21` steps, whatever the convergence tests answer.

**`UnsteadySolverProofs`** - `TypeCorrect`, `AlwaysStepsFromCommittedState`,
`DirichletAlwaysCurrent`, `FilesAlwaysHoldTheirStep`, `AlwaysCommitsInOrder`, for
every number of steps and every cadence.  The invariant places the state, the
residual and the time solver at every label, and says for each step, over or
current, which files are written.  `EndComesNearer`: a solve makes at most
`11 * NTimesteps + 13` steps.

**`CanteraLockingProofs`** - `TypeCorrect`, and `OneFileResultsAreOwn`: if every
call of the workload locks the same file's mutex, each thread stores only
properties of its own state, for any number of threads and points.  The
invariant: a thread inside a call holds its mutex, so what it wrote to the gas is
still there.  The hypothesis `OneFile` is what the program does not guarantee.
What the mutexes do give holds for every workload, with calls that throw and calls
that lock nothing: `FilesExclude`, at most one thread is inside a locked call of a
file; `SomeThreadGoesOn`, while a thread has not finished some thread is not
waiting, because who holds a mutex is inside a call and waits for none there
(`HeldInside`: holding and being inside are the same); and `EndComesNearer`, each
step brings one thread nearer to its end and leaves the others where they are.

**`PostProcessingProofs`** - `TypeCorrect`, `ThreadsUseTheirContext`,
`NamesDiffer`, and `FieldsAreRight`: for every request the physics can compute,
any mesh and any number of threads, each field holds its own quantity after each
update.  The argument: indices are positions of the calls, a physics keeps the
position of its own call or its initial index, hence only the physics that asked
recognises an index; and a thread's context is at its own element in the present
level, hence so is the value.  `Computable` excludes the cable's unanswered
quantities and a membrane's stress without `stress_zz`.

**`MultiphysicsSystemProofs`** - `TypeCorrect`, `TouchedVariablesExist`,
`RequestsPrecedeUse`, `CachePrecedesUse`, `JacobianIsComplete`,
`MassesVanishAtRest`, `MarchedHaveRates`, for every list of physics, whatever their operators are,
under an obligation each physics owes on its own: `TouchesOwn`,
`RequestsSuffice`, `CachesSuffice`, `JacobiansAreComplete`, `MassesHoldRates`,
`RatesAreRead`.
This is the composition argument of the project: the theorems carry the
obligations through the loops over the list, the contexts, the caches and the
subdomains.  The invariants say what the part of a loop that is over has done.

The second half is about `ProgramPhysics` and discharges the obligations for
every list the factory accepts, in any configuration of dimension, scheme,
options and models.  `PhysicsAlwaysSound`: caches always suffice; a physics
touches only what it adds, its masses hold rates and its Jacobian is complete if
and only if the list has none of `Overreaching`, `WithoutRates` and
`WithPartialJacobian`, so these sets name all exceptions and nothing else;
requests suffice and rates are read in the company `RequestsHaveOwners` and
`RatesHaveOwners` describe, which is sufficient and not claimed to be necessary.
The argument goes class by class: each class of physics has a lemma that its
`Term` keeps to the variables it adds, that its mass reads rates only, and that
its Jacobian has the dependences of its residual with their factors; the shapes
and cached values it takes are compared with what it asks for and computes, and
where the flow's unknowns are another physics', the check of the factory says
which it can be (`FlowShapesAreCovered`).  Each exception comes with the entry
that refutes it.  `ProgramTouchesAdded`, `ProgramAsksFirst`,
`ProgramCachesFirst`, `ProgramHasJacobian`, `ProgramMassesVanish` and
`ProgramMarchesAll` then put the halves together: the six properties for the
program's physics, for every set of configurations without the exceptions, and
without any hypothesis for the caches.

`ListsAlwaysSquare` and `GuardedListsAreSquare`: every list the check accepts has
an equation for each unknown if none of its physics is in `Unguarded`, and
`Unguarded` is exactly the physics whose least list has an unknown too many; the
thermodynamic pressure, which only `LowMachNavierStokes` solves for, is apart.

**`BoundaryConditionsProofs`** - `TypeCorrect` for every input: the handlers hold
conditions of types they know, what reaches the DofMap are conditions and pairs
of ids.  `WeightsAreOfEquations`: for every input in which the axis is known
(`AxisIsKnown`) each flux has the weight of the equation it enters.  The
invariant `Weighing` relates the shared flag to the entries read so far, what
each physics copied to the flag as it was then, and what the catalytic walls were
told to the flag at the end.
The other four theorems say that the program does what the input asks, for any
physics, ids and entries: `ConditionsAreAsked` (under
`DisplacementsAreComplete`), `ConditionsAreInOrder` (always), `PeriodicArePaired`
(under `PeriodicAreEven` and `PairsNameTheIds`: a pair is of the ids called
periodic, which the code does not check), `FluxesAreAsked` (under `OneFluxPerId`
and `FluxesArePassedOn`).  The argument follows an entry through the program:
`HandlersHold` says what each handler holds of the entries its physics has read
and of the user's functions; `Initialising` says that what the physics that had
their turn impose is in the `DofMap` or still in the lists of the current one,
and that the pairs of those that are through are known; `ImposedInOrder` says how
far each has come and that the `DofMap` keeps the order up to there;
`FluxIsOfSide` says what the last side got.  The lemmas about the tables
(`ImposesThePromised`, `FluxesPromised`) then compare, type by type, what the
handlers impose with what the types promise.

**`QoIAssemblyProofs`** - `TypeCorrect`; `Implements`: under `OneListedId` every
processor's values are those of `WholeSum`, for any number of processors and
threads, any partition and any program; `DerivativeCorrect`: under `DofsAgree`
too, the derivative has exactly the entries of the value's unknowns.  The
invariant accounts for every element of the domain: it is still to be visited, in
the sum of one thread, or in the sum of its processor, and only there; the
collective sums pair the same quantity of all processors because the next
collective call of each is the same (`InStep`).  `NobodyIsLeftWaiting`
(`ProcessorsMeet`) follows from it too: until all have ended, one processor goes on
by itself or all are in the same collective call.  `EndComesNearer`: each step
brings a processor nearer to the end of the program and none further from it; it
counts the elements still to be visited and the threads still to be joined, hence
assumes that both are finite.

**`SimulationProofs`** - for every input, number of processors and mesh:
`TypeCorrect`, `MeshRefinedOnce`, `RestartIsKept`, `FilesAlwaysHoldTheirDisplacement`,
`AlwaysEndsAsAsked`; and `MeshIsAsAsked` for elements with one origin and rising
levels (`ElementsAssumption`).  The invariants follow the stages: where the
processors are (`Places`), how often the mesh was refined and in how many passes
(`Counts`, `PassesKnown`), what the solution holds (`Holds`), what the processors
know of the elements that still want refinement (`Knows`: a processor that found
nothing has seen every element it owns, and together they own all), and how far
the continuation is (`Solves`).  The types need two more: flags are of active
elements and gone when the mesh changes (`FlagsKnown`), and the solver's lists
keep their length, so that the index it displaces stays in them
(`SolverTyped`).  `NobodyIsLeftWaiting` (`ProcessorsMeet`): in the refinement a
processor goes on by itself or all are in the same collective call.  Its invariant
`SamePart` says that all are on the way to the same agreement (or, without local
refinement, to the end), or all past one with the same answer, which `comm.max`
gives to each whatever it has seen of the mesh.

**Only model-checked**: liveness (`Returns`, `Terminates`, `AllThreadsFinish`,
`AllRanksFinish`, `SimulationEnds`), which the prover does not reach: it needs
`ENABLED` and fairness.  The theorems `EndComesNearer`, with `SomeThreadGoesOn` and
`NobodyIsLeftWaiting`, are the part of the argument that is about the code: nobody
is stuck and no step leads away from the end; what the properties add is that what
can go on does.  For `Simulation` no such measure is proved.  Its passes of local
refinement are not bounded by the levels the function asks for: an element that
was refined only to keep neighbours within a level may have a child that wants
more, and the flags are set again for it.

## 5. Disagreements between code and documents

Each of these is a run that TLC finds violated.

- **cantera_element**: the element cache of the reacting flow calls transport,
  thermodynamics and kinetics, which lock a mutex each; two threads read each
  other's state.  `cantera_mixture.h` puts `cantera_mutex` in an unnamed
  namespace.
- **low_mach_stab_mass**: the transient residuals of the stabilized low Mach flow
  take the value of the solution for its rate (`low_mach_navier_stokes_stab_base.C`).
- **axisymmetric_order**: the heat equation listed before the flow that has the
  axis integrates its volume without the weight r and its fluxes with it.
- **restart_refined**: after a restart the data is carried over one pass per
  uniform level and one local pass, before the one reinit, where the warning in
  `mesh_builder.C` speaks of limiting the refinement to one pass.

Met on the way and kept as hazards with their line in `PROJECT.json`: Stokes flow
and the stabilized heat equation scale the Jacobian of their mass residual as if
it held values; the averaged turbine's Jacobian has no factor; the stabilized
averaged fan fills a third velocity's block in two dimensions; the cable
registers stresses it never computes; the membrane compares an uninitialised
index; the stabilized buoyancy uses gradients only other stabilizations ask for;
and `steady_mesh_adaptive_solver.C:145` refines on every step but the last where
the comment above it says "only [...] if we're on the last step" (the code is
right, and `RefinesFreshFlags` is about the code).

Of the adaptive solver: the dual is swapped into the solution and back without
`update()` (`steady_mesh_adaptive_solver.C:104` and `:106`), where
`steady_visualization.C:64` and `:70` update after each swap.  If the writer
updates the ghosted copy while the dual is in the solution, the copy keeps the
dual, and with `output_vis`, `output_adjoint_sol`, an adjoint estimator and no
`output_residual` the estimator at line 120 reads it as the forward solution.
What the writer does depends on the version of libMesh and no document of the
repository speaks of it, so this is the hypothesis `DualIsReplaced` of two
properties and a hazard, and no run of its own.

Of the quantities: `vorticity.C:150` warns "we assume here that vorticity is the
only QoI" and refers to an assertion in `grins_mesh_adaptive_solver.C`, a file
the repository does not have (the adaptive solver that it has asserts nothing of
the kind).  The code below the warning takes the derivatives of its own
`qoi_index`; the run has the vorticity second of two quantities and each gets its
own derivative, so the comment is out of date.  The loop over `n_T_dofs`, taken
from variable zero, is a restriction that remains (`DofsAgree`): variable zero is
`u` in the run.

Of the boundary conditions: `HeatConduction` accepts heat fluxes and never applies
them (`FluxesArePassedOn`), though the input of a test has them; one periodic
boundary without a pair passes the consistency check, because half of one is zero
(`PeriodicAreEven`).

Of the factory: `AveragedFan`, `AveragedTurbine`, `VelocityDrag`,
`VelocityPenalty`, `AxisymmetricHeatTransfer`, two stabilizations of the buoyancy,
one of the heat equation and the cable's gravity are accepted without the physics
whose unknowns they add (`Unguarded`); the comment at `physics_factory.C:677` asks
for both the axisymmetric heat transfer and the axisymmetric flow where one is
checked; those at lines 689 and 737 forbid all companions of the low Mach flows
but a stabilization where any one is allowed.  The reacting low Mach flow with
`enable_thermo_press_calc` has an unknown pressure without an equation.

Of the simulation: `print_qoi` without a quantity dereferences a cast of nothing
(`simulation.C:248`; `PrintQoI` has both outcomes), and `mesh_builder.C:169` names
a function `check_for_restart` that `Simulation` does not have.

## 6. What is not modelled

- The arithmetic of integrals, elasticity laws, profiles and property formulas:
  real numbers, out of reach of TLC and of the provers used here.  A term is its
  dependences and its factors; Jacobians of boundary terms are left out.
- libMesh, Cantera and Antioch: external, modelled by what this code relies on.
  The nonlinear solver's convergence is not: a solve returns.
- Parsing, formats, names of files, logs and messages.
- `twostep`'s inner steps and its norms: they are the library's.
- Processors, except in `QoIAssembly` and `MeshRefinement`, where they disagree on
  what they see: the solvers, the DofMap and the output are collective, and one
  process stands for all.
- The redistribution of the mesh's nodes, deprecated names of options and what
  libMesh generates or reads; `print_scalars`; which variables an initial function
  sets.
- The residual a steady or unsteady run writes is assembled by a steady solver
  while the physics still believe in the other one; only the values of the
  stabilization terms differ, and values are abstracted.
- Antioch: whether its cache keeps a reference to a temperature is decided by the
  library; in this code an evaluator never outlives the temperatures of its loop.
- Components with status `not_modelled` in `PROJECT.json`, with their reasons.

## 7. How it grew, and what is left

Done, in this order, by importance of what can go wrong:

1. `AdaptiveSolver` implementing `AdaptiveLoop`, and its proofs.
2. `UnsteadySolver` and its proofs.
3. `CanteraLocking` and its proofs.
4. `PostProcessing` over `OutputVars`, and its proofs.
5. `MultiphysicsSystem` composed with `PhysicsTerms`, and its proofs.
6. `BoundaryConditions` over `BoundaryTypes`, and its proofs: types, weights,
   order, and what every regular input asks for.
7. `QoIAssembly` implementing `WholeSum`, and its proofs.
8. `Simulation` over `MeshRefinement` and `SteadySolvers`: set-up, restart, the
   steady and the continuation solver, and its proofs.
9. `PhysicsFactory` composed with `MultiphysicsSystem`.
10. The implementation of `AdaptiveLoop`, and `EvolvingAreMarched`, proved.
11. `ProgramPhysics`: what the physics owe the system, proved of the program's
    classes for every list the factory accepts; the types of `Simulation`.
12. No deadlock of threads or processors for any workload, partition or mesh, and
    the approach to the end of the solvers, the threads and the quantities, proved.

Left: side terms and their Jacobians in `PhysicsTerms`.

## Files

Specifications: `AdaptiveLoop`, `AdaptiveSolver`, `UnsteadySolver`,
`CanteraLocking`, `OutputVars`, `PostProcessing`, `PhysicsTerms`,
`PhysicsFactory`, `MultiphysicsSystem`, `ProgramPhysics`, `BoundaryTypes`,
`BoundaryConditions`,
`SimulationInput`, `MeshRefinement`, `SteadySolvers`, `Simulation`, `WholeSum`,
`QoIAssembly`.
Instances: `MCAdaptiveSolver`, `MCUnsteadySolver`, `MCCanteraLocking`,
`MCPostProcessing`, `MCMultiphysicsSystem`, `MCBoundaryConditions`,
`MCQoIAssembly`, `MCSimulation`.
Proofs: `AdaptiveSolverProofs`, `UnsteadySolverProofs`, `CanteraLockingProofs`,
`PostProcessingProofs`, `MultiphysicsSystemProofs`, `BoundaryConditionsProofs`,
`QoIAssemblyProofs`, `SimulationProofs`.

`tlc -config X.cfg M` runs an instance, `tlapm M.tla` checks the proofs of a
module.  `PROJECT.json` maps every definition to the lines it models and lists,
for every property, a mutation of the model that violates it.
