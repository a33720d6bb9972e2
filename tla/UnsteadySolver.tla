--------------------------- MODULE UnsteadySolver ---------------------------
(***************************************************************************)
(* UnsteadySolver::solve with UnsteadyVisualization::output_residual: the  *)
(* time loop, the update of solution-dependent Dirichlet data, the output  *)
(* of solutions and residuals, and the time solver that is swapped for a   *)
(* SteadySolver while the residual of a step is evaluated.                 *)
(*                                                                         *)
(* A vector is a record of what it holds and of the time level it holds:   *)
(* level k is the state after k time steps.                                *)
(***************************************************************************)
EXTENDS Integers

CONSTANTS
  NTimesteps,         \* unsteady-solver/n_timesteps
  MaxTimestepsPerVis  \* bound on vis-options/timesteps_per_vis

ASSUME NTimestepsAssumption == NTimesteps \in Nat
ASSUME MaxTimestepsPerVisAssumption == MaxTimestepsPerVis \in Nat

VARIABLES
  pc,          \* the next statement of solve() or output_residual()
  opts,        \* the options and the boundary data of the run
  t_step,      \* the loop counter
  time,        \* system->time, in steps
  solution,    \* system->solution
  local,       \* system->current_local_solution, what an assembly reads
  rhs,         \* system->rhs
  old,         \* the vector "_old_nonlinear_solution" of the time solver
  time_solver, \* the time solver the system owns
  prev,        \* prev_time_solver, what output_residual keeps meanwhile
  is_steady,   \* Physics::_is_steady, set once in init_data
  dirichlet,   \* the level the Dirichlet values in force were computed at
  quantities,  \* the level of the postprocessed quantities
  visFiles,    \* solution files: suffix -> what was written
  residualFiles\* residual files: suffix -> what was written

vars == <<pc, opts, t_step, time, solution, local, rhs, old, time_solver,
          prev, is_steady, dirichlet, quantities, visFiles, residualFiles>>

\* nonlinearBC: some DirichletBoundary has an f_fem.
Opts == [outputVis: BOOLEAN, outputResidual: BOOLEAN, nonlinearBC: BOOLEAN,
         twostep: BOOLEAN, timestepsPerVis: 0..MaxTimestepsPerVis]

Levels == 0..NTimesteps
NoLevel == -1
Vectors == [what: {"nothing", "state", "residual"}, level: Levels]
State(k) == [what |-> "state", level |-> k]
Nothing == [what |-> "nothing", level |-> 0]

\* The suffix of a file is the loop counter; the first file has none.
NoSuffix == -1
Suffixes == {NoSuffix} \union Levels
NoFile == [vector |-> Nothing, quantities |-> NoLevel, time |-> 0]

\* init_time_solver builds Euler, or Twostep around it.
InitTimeSolver(o) == IF o.twostep THEN "twostep" ELSE "euler"

Init ==
  /\ pc = "enter"
  /\ opts \in Opts
  /\ t_step = 0
  /\ time = 0
  /\ solution = State(0)
  /\ local = State(0)
  /\ rhs = Nothing
  /\ old = Nothing
  /\ time_solver = InitTimeSolver(opts)
  /\ prev = "none"
  /\ is_steady = FALSE
  /\ dirichlet = 0
  /\ quantities = NoLevel
  /\ visFiles = [s \in Suffixes |-> NoFile]
  /\ residualFiles = [s \in Suffixes |-> NoFile]

Goto(from, to) == pc = from /\ pc' = to

\* update_quantities, then the file of the given suffix; the mutant writes
\* the quantities of the last output.
WriteStaleQuantities(suffix, stamp) ==
  /\ quantities' = solution.level
  /\ visFiles' = [visFiles EXCEPT ![suffix] =
       [vector |-> solution, quantities |-> quantities, time |-> stamp]]
WriteSolution(suffix, stamp) ==
  /\ quantities' = solution.level
  /\ visFiles' = [visFiles EXCEPT ![suffix] =
       [vector |-> solution, quantities |-> solution.level, time |-> stamp]]

\* The output of the initial condition.
OutputInitial ==
  /\ Goto("enter", "loop")
  /\ IF opts.outputVis THEN WriteSolution(NoSuffix, 0)
                       ELSE UNCHANGED <<quantities, visFiles>>
  /\ UNCHANGED <<opts, t_step, time, solution, local, rhs, old, time_solver,
                 prev, is_steady, dirichlet, residualFiles>>

\* The condition of the for loop, and its off-by-one mutant.
OneStepTooMany == t_step <= NTimesteps
AnotherStep == t_step < NTimesteps

LoopHead ==
  /\ pc = "loop"
  /\ pc' = IF AnotherStep THEN "dirichlet" ELSE "done"
  /\ UNCHANGED <<opts, t_step, time, solution, local, rhs, old, time_solver,
                 prev, is_steady, dirichlet, quantities, visFiles,
                 residualFiles>>

\* The scan of the Dirichlet boundaries; the mutant does it in the first
\* step only.
UpdatesDirichletOnce == opts.nonlinearBC /\ t_step = 0
UpdatesDirichlet == opts.nonlinearBC

\* reinit() evaluates the Dirichlet data at the current solution.
UpdateDirichlet ==
  /\ Goto("dirichlet", "solve")
  /\ dirichlet' = IF UpdatesDirichlet THEN solution.level ELSE dirichlet
  /\ UNCHANGED <<opts, t_step, time, solution, local, rhs, old, time_solver,
                 prev, is_steady, quantities, visFiles, residualFiles>>

\* system->solve(): the first solve stores the initial state as the old one.
\* A step is taken from the old solution by the time solver the system has.
Solve ==
  /\ Goto("solve", "output")
  /\ old' = IF old = Nothing THEN solution ELSE old
  /\ solution' = [old' EXCEPT !.level = @ + 1]
  /\ local' = solution'
  /\ rhs' = [what |-> "residual", level |-> solution'.level]
  /\ UNCHANGED <<opts, t_step, time, time_solver, prev, is_steady, dirichlet,
                 quantities, visFiles, residualFiles>>

\* (t_step+1)%timesteps_per_vis == 0; undefined when the divisor is zero.
VisStep(k) == (k + 1) % opts.timestepsPerVis = 0

Output ==
  /\ pc = "output"
  /\ \/ /\ opts.outputVis
        /\ opts.timestepsPerVis = 0
        /\ pc' = "crash"
        /\ UNCHANGED <<quantities, visFiles>>
     \/ /\ opts.outputVis
        /\ opts.timestepsPerVis > 0
        /\ pc' = "residual"
        /\ IF VisStep(t_step) THEN WriteSolution(t_step, time)
                        ELSE UNCHANGED <<quantities, visFiles>>
     \/ /\ ~opts.outputVis
        /\ pc' = "residual"
        /\ UNCHANGED <<quantities, visFiles>>
  /\ UNCHANGED <<opts, t_step, time, solution, local, rhs, old, time_solver,
                 prev, is_steady, dirichlet, residualFiles>>

\* The condition of output_residual, and the swap of the time solvers.
SwapTimeSolver ==
  /\ pc = "residual"
  /\ \/ /\ opts.outputResidual
        /\ opts.timestepsPerVis = 0
        /\ pc' = "crash"
        /\ UNCHANGED <<prev, time_solver>>
     \/ /\ opts.outputResidual
        /\ opts.timestepsPerVis > 0
        /\ VisStep(t_step)
        /\ prev' = time_solver
        /\ time_solver' = "steady"
        /\ pc' = "assemble"
     \/ /\ opts.outputResidual => opts.timestepsPerVis > 0 /\ ~VisStep(t_step)
        /\ pc' = "advance"
        /\ UNCHANGED <<prev, time_solver>>
  /\ UNCHANGED <<opts, t_step, time, solution, local, rhs, old, is_steady,
                 dirichlet, quantities, visFiles, residualFiles>>

\* assembly(true, false): the residual of the localized solution.
AssembleResidual ==
  /\ Goto("assemble", "swap")
  /\ rhs' = [what |-> "residual", level |-> local.level]
  /\ UNCHANGED <<opts, t_step, time, solution, local, old, time_solver, prev,
                 is_steady, dirichlet, quantities, visFiles, residualFiles>>

\* solution->swap(*rhs) and update().
SwapAndUpdate ==
  /\ solution' = rhs
  /\ rhs' = solution
  /\ local' = rhs

SwapIn ==
  /\ Goto("swap", "dump")
  /\ SwapAndUpdate
  /\ UNCHANGED <<opts, t_step, time, old, time_solver, prev, is_steady,
                 dirichlet, quantities, visFiles, residualFiles>>

DumpResidual ==
  /\ Goto("dump", "swap_back")
  /\ residualFiles' = [residualFiles EXCEPT ![t_step] =
       [vector |-> solution, quantities |-> quantities, time |-> time]]
  /\ UNCHANGED <<opts, t_step, time, solution, local, rhs, old, time_solver,
                 prev, is_steady, dirichlet, quantities, visFiles>>

\* The mutant swaps back without the second update().
SwapWithoutUpdate ==
  /\ solution' = rhs
  /\ rhs' = solution
  /\ UNCHANGED local
SwapBackAndUpdate == SwapAndUpdate

SwapBack ==
  /\ Goto("swap_back", "restore")
  /\ SwapBackAndUpdate
  /\ UNCHANGED <<opts, t_step, time, old, time_solver, prev, is_steady,
                 dirichlet, quantities, visFiles, residualFiles>>

\* system->time_solver = prev_time_solver.
Restored == time_solver' = prev /\ prev' = "none"

RestoreTimeSolver ==
  /\ Goto("restore", "advance")
  /\ Restored
  /\ UNCHANGED <<opts, t_step, time, solution, local, rhs, old, is_steady,
                 dirichlet, quantities, visFiles, residualFiles>>

\* advance_timestep() and t_step++.  The first mutant commits the vector the
\* residual was in, the second advances only in steps that write output.
CommitsRhs == rhs
Commits == solution

AdvanceOnOutput ==
  /\ Goto("advance", "loop")
  /\ IF opts.timestepsPerVis > 0 /\ VisStep(t_step)
     THEN old' = solution /\ time' = time + 1 /\ t_step' = t_step + 1
     ELSE UNCHANGED <<old, time, t_step>>
  /\ UNCHANGED <<opts, solution, local, rhs, time_solver, prev, is_steady,
                 dirichlet, quantities, visFiles, residualFiles>>

AdvanceTimestep ==
  /\ Goto("advance", "loop")
  /\ old' = Commits
  /\ time' = time + 1
  /\ t_step' = t_step + 1
  /\ UNCHANGED <<opts, solution, local, rhs, time_solver, prev, is_steady,
                 dirichlet, quantities, visFiles, residualFiles>>

OutputResidual == SwapTimeSolver \/ AssembleResidual \/ SwapIn
                  \/ DumpResidual \/ SwapBack \/ RestoreTimeSolver

Next == OutputInitial \/ LoopHead \/ UpdateDirichlet \/ Solve \/ Output
        \/ OutputResidual \/ AdvanceTimestep

Spec == Init /\ [][Next]_vars
FairSpec == Spec /\ WF_vars(Next)

(***************************************************************************)
(* Properties.                                                             *)
(***************************************************************************)

Labels == {"enter", "loop", "dirichlet", "solve", "output", "residual",
           "assemble", "swap", "dump", "swap_back", "restore", "advance",
           "done", "crash"}
TimeSolvers == {"euler", "twostep", "steady"}
Files == [vector: Vectors, quantities: Levels \union {NoLevel}, time: Levels]

\* The type invariant of the solver's state.
TypeOK ==
  /\ pc \in Labels
  /\ opts \in Opts
  /\ t_step \in Levels
  /\ time \in Levels
  /\ solution \in Vectors
  /\ local \in Vectors
  /\ rhs \in Vectors
  /\ old \in Vectors
  /\ time_solver \in TimeSolvers
  /\ prev \in TimeSolvers \union {"none"}
  /\ is_steady \in BOOLEAN
  /\ dirichlet \in Levels
  /\ quantities \in Levels \union {NoLevel}
  /\ visFiles \in [Suffixes -> Files]
  /\ residualFiles \in [Suffixes -> Files]

\* A step is always taken by the time solver init_time_solver built, from
\* the state the last step left, ghosted and not, and never from the residual
\* that output_residual puts in its place for a while.
StepsFromCommittedState ==
  pc \in {"dirichlet", "solve"} =>
    /\ time_solver = InitTimeSolver(opts)
    /\ solution = State(t_step)
    /\ local = State(t_step)
    /\ t_step > 0 => old = State(t_step)

\* With solution-dependent Dirichlet boundaries every step is solved with
\* data of the state it starts from.
DirichletIsCurrent ==
  (pc = "solve" /\ opts.nonlinearBC) => dirichlet = t_step

\* A solution file of suffix k holds the state after k+1 steps with
\* quantities of that state, a residual file the residual of that state, and
\* every step on the output cadence that is over has its files.
FilesHoldTheirStep ==
  \A k \in 0..NTimesteps - 1 :
    /\ visFiles[k] # NoFile =>
         visFiles[k].vector = State(k + 1) /\ visFiles[k].quantities = k + 1
    /\ residualFiles[k] # NoFile =>
         residualFiles[k].vector = [what |-> "residual", level |-> k + 1]
    /\ (k < t_step /\ opts.timestepsPerVis > 0) =>
         /\ (visFiles[k] # NoFile) <=> (opts.outputVis /\ VisStep(k))
         /\ (residualFiles[k] # NoFile) <=> (opts.outputResidual /\ VisStep(k))

\* The committed state moves forward by one level at a time.
CommitsInOrder ==
  [][old' # old => /\ old'.what = "state"
                   /\ old # Nothing => old'.level = old.level + 1]_vars

\* The time loop ends, whatever is written on the way.
Terminates == <>(pc \in {"done", "crash"})
=============================================================================
