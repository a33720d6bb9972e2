------------------------ MODULE UnsteadySolverProofs ------------------------
(***************************************************************************)
(* The safety properties of UnsteadySolver for every number of steps and   *)
(* every output cadence.  The inductive invariant follows the state of the *)
(* current step through the swap with the residual and the time solver     *)
(* through its replacement, and says which files exist at every label.     *)
(***************************************************************************)
EXTENDS UnsteadySolver, TLAPS

Residual(k) == [what |-> "residual", level |-> k]

\* The labels of a step before and after system->solve().
BeforeSolve == {"enter", "loop", "dirichlet", "solve"}
Swapped == {"dump", "swap_back"}
SteadySolverIn == {"assemble", "swap", "restore"} \union Swapped
AfterSolve == {"output", "residual", "advance"} \union SteadySolverIn

\* Where the state of the current step is.
StatePlace ==
  /\ pc \in BeforeSolve =>
       /\ solution = State(t_step)
       /\ old = IF t_step = 0 THEN Nothing ELSE State(t_step)
  /\ pc \in AfterSolve => t_step < NTimesteps /\ old = State(t_step)
  /\ pc \in AfterSolve \ Swapped => solution = State(t_step + 1)
  /\ pc \in Swapped => solution = Residual(t_step + 1) /\ rhs = State(t_step + 1)
  /\ pc = "swap" => rhs = Residual(t_step + 1)
  /\ pc \in BeforeSolve \union AfterSolve => local = solution
  /\ pc \in {"dirichlet", "solve"} => t_step < NTimesteps
  /\ pc = "enter" => t_step = 0
  /\ pc \in BeforeSolve \union AfterSolve => time = t_step
  /\ (pc = "solve" /\ opts.nonlinearBC) => dirichlet = t_step
  /\ pc = "crash" => opts.timestepsPerVis = 0

\* Which time solver the system has.
SolverPlace ==
  /\ pc \in SteadySolverIn => prev = InitTimeSolver(opts)
  /\ pc \in BeforeSolve \union (AfterSolve \ SteadySolverIn) =>
       time_solver = InitTimeSolver(opts)
  /\ pc \in SteadySolverIn => /\ opts.outputResidual
                               /\ opts.timestepsPerVis > 0
                               /\ VisStep(t_step)

\* The files of the steps that are over and of the current step.
VisWritten(k) == \/ k < t_step
                 \/ k = t_step /\ pc \in AfterSolve \ {"output"}
ResidualWritten(k) == \/ k < t_step
                      \/ k = t_step /\ pc \in {"swap_back", "restore", "advance"}

FilesOf(k) ==
  /\ visFiles[k] = NoFile \/ ( /\ visFiles[k].vector = State(k + 1)
                               /\ visFiles[k].quantities = k + 1 )
  /\ residualFiles[k] = NoFile \/ residualFiles[k].vector = Residual(k + 1)
  /\ ~VisWritten(k) => visFiles[k] = NoFile
  /\ ~ResidualWritten(k) => residualFiles[k] = NoFile
  /\ opts.timestepsPerVis = 0 => visFiles[k] = NoFile /\ residualFiles[k] = NoFile
  /\ (VisWritten(k) /\ opts.timestepsPerVis > 0) =>
       ((visFiles[k] # NoFile) <=> (opts.outputVis /\ VisStep(k)))
  /\ (ResidualWritten(k) /\ opts.timestepsPerVis > 0) =>
       ((residualFiles[k] # NoFile) <=> (opts.outputResidual /\ VisStep(k)))

FilesPlace == \A k \in 0..NTimesteps - 1 : FilesOf(k)

IInv == /\ TypeOK
        /\ StatePlace
        /\ SolverPlace
        /\ FilesPlace

USE NTimestepsAssumption, MaxTimestepsPerVisAssumption

USE DEF State, Residual, Nothing, Vectors, Levels, Goto, Labels, TimeSolvers,
        BeforeSolve, Swapped, SteadySolverIn, AfterSolve

LEMMA NoSuffixIsNoStep == NoSuffix \notin Nat
  BY DEF NoSuffix

LEMMA InitIInv == Init => IInv
  <1> SUFFICES ASSUME Init
               PROVE  IInv
    OBVIOUS
  <1>1. TypeOK
    <2>1. is_steady \in BOOLEAN
      BY DEF Init
    <2>2. NoFile \in Files
      BY DEF NoFile, Files
    <2> QED
      BY <2>1, <2>2 DEF Init, TypeOK, InitTimeSolver
  <1>2. StatePlace
    BY DEF Init, StatePlace
  <1>3. SolverPlace
    BY DEF Init, SolverPlace
  <1>4. FilesPlace
    BY DEF Init, FilesPlace, FilesOf, VisWritten, ResidualWritten, Suffixes
  <1> QED
    BY <1>1, <1>2, <1>3, <1>4 DEF IInv

\* One step per action, and one below it per part of the invariant.
LEMMA StepIInv == IInv /\ [Next]_vars => IInv'
  <1> SUFFICES ASSUME IInv, [Next]_vars
               PROVE  IInv'
    OBVIOUS
  <1> USE DEF IInv
  <1>1. CASE OutputInitial
    <2> USE <1>1 DEF OutputInitial, WriteSolution
    <2>1. TypeOK'
      BY DEF TypeOK, StatePlace, SolverPlace, InitTimeSolver, Files, Suffixes
    <2>2. StatePlace'
      BY DEF TypeOK, StatePlace
    <2>3. SolverPlace'
      BY DEF TypeOK, SolverPlace, InitTimeSolver, VisStep
    <2>4. \A k : VisStep(k)' <=> VisStep(k)
      BY DEF VisStep
    <2>5. ASSUME NEW k \in 0..NTimesteps - 1
          PROVE  FilesOf(k)'
      <3>1. FilesOf(k)
        BY DEF FilesPlace
      <3>2. k \in Suffixes /\ t_step \in Suffixes /\ k # NoSuffix
        BY NoSuffixIsNoStep DEF TypeOK, Suffixes
      <3> QED
        BY <2>4, <3>1, <3>2 DEF TypeOK, StatePlace, SolverPlace, FilesOf,
           VisWritten, ResidualWritten, NoFile
    <2>6. FilesPlace'
      BY <2>5 DEF FilesPlace
    <2> QED
      BY <2>1, <2>2, <2>3, <2>6
  <1>2. CASE LoopHead
    <2> USE <1>2 DEF LoopHead, AnotherStep
    <2>1. TypeOK'
      BY DEF TypeOK, StatePlace, SolverPlace, InitTimeSolver, Files, Suffixes
    <2>2. StatePlace'
      BY DEF TypeOK, StatePlace
    <2>3. SolverPlace'
      BY DEF TypeOK, SolverPlace, InitTimeSolver, VisStep
    <2>4. \A k : VisStep(k)' <=> VisStep(k)
      BY DEF VisStep
    <2>5. ASSUME NEW k \in 0..NTimesteps - 1
          PROVE  FilesOf(k)'
      <3>1. FilesOf(k)
        BY DEF FilesPlace
      <3>2. k \in Suffixes /\ t_step \in Suffixes /\ k # NoSuffix
        BY NoSuffixIsNoStep DEF TypeOK, Suffixes
      <3> QED
        BY <2>4, <3>1, <3>2 DEF TypeOK, StatePlace, SolverPlace, FilesOf,
           VisWritten, ResidualWritten, NoFile
    <2>6. FilesPlace'
      BY <2>5 DEF FilesPlace
    <2> QED
      BY <2>1, <2>2, <2>3, <2>6
  <1>3. CASE UpdateDirichlet
    <2> USE <1>3 DEF UpdateDirichlet, UpdatesDirichlet
    <2>1. TypeOK'
      BY DEF TypeOK, StatePlace, SolverPlace, InitTimeSolver, Files, Suffixes
    <2>2. StatePlace'
      BY DEF TypeOK, StatePlace
    <2>3. SolverPlace'
      BY DEF TypeOK, SolverPlace, InitTimeSolver, VisStep
    <2>4. \A k : VisStep(k)' <=> VisStep(k)
      BY DEF VisStep
    <2>5. ASSUME NEW k \in 0..NTimesteps - 1
          PROVE  FilesOf(k)'
      <3>1. FilesOf(k)
        BY DEF FilesPlace
      <3>2. k \in Suffixes /\ t_step \in Suffixes /\ k # NoSuffix
        BY NoSuffixIsNoStep DEF TypeOK, Suffixes
      <3> QED
        BY <2>4, <3>1, <3>2 DEF TypeOK, StatePlace, SolverPlace, FilesOf,
           VisWritten, ResidualWritten, NoFile
    <2>6. FilesPlace'
      BY <2>5 DEF FilesPlace
    <2> QED
      BY <2>1, <2>2, <2>3, <2>6
  <1>4. CASE Solve
    <2> USE <1>4 DEF Solve
    <2>1. TypeOK'
      BY DEF TypeOK, StatePlace, SolverPlace, InitTimeSolver, Files, Suffixes
    <2>2. StatePlace'
      BY DEF TypeOK, StatePlace
    <2>3. SolverPlace'
      BY DEF TypeOK, SolverPlace, InitTimeSolver, VisStep
    <2>4. \A k : VisStep(k)' <=> VisStep(k)
      BY DEF VisStep
    <2>5. ASSUME NEW k \in 0..NTimesteps - 1
          PROVE  FilesOf(k)'
      <3>1. FilesOf(k)
        BY DEF FilesPlace
      <3>2. k \in Suffixes /\ t_step \in Suffixes /\ k # NoSuffix
        BY NoSuffixIsNoStep DEF TypeOK, Suffixes
      <3> QED
        BY <2>4, <3>1, <3>2 DEF TypeOK, StatePlace, SolverPlace, FilesOf,
           VisWritten, ResidualWritten, NoFile
    <2>6. FilesPlace'
      BY <2>5 DEF FilesPlace
    <2> QED
      BY <2>1, <2>2, <2>3, <2>6
  <1>5. CASE Output
    <2> USE <1>5 DEF Output, WriteSolution
    <2>1. TypeOK'
      BY DEF TypeOK, StatePlace, SolverPlace, InitTimeSolver, Files, Suffixes
    <2>2. StatePlace'
      BY DEF TypeOK, StatePlace
    <2>3. SolverPlace'
      BY DEF TypeOK, SolverPlace, InitTimeSolver, VisStep
    <2>4. \A k : VisStep(k)' <=> VisStep(k)
      BY DEF VisStep
    <2>5. ASSUME NEW k \in 0..NTimesteps - 1
          PROVE  FilesOf(k)'
      <3>1. FilesOf(k)
        BY DEF FilesPlace
      <3>2. k \in Suffixes /\ t_step \in Suffixes /\ k # NoSuffix
        BY NoSuffixIsNoStep DEF TypeOK, Suffixes
      <3> QED
        BY <2>4, <3>1, <3>2 DEF TypeOK, StatePlace, SolverPlace, FilesOf,
           VisWritten, ResidualWritten, NoFile
    <2>6. FilesPlace'
      BY <2>5 DEF FilesPlace
    <2> QED
      BY <2>1, <2>2, <2>3, <2>6
  <1>6. CASE SwapTimeSolver
    <2> USE <1>6 DEF SwapTimeSolver
    <2>1. TypeOK'
      BY DEF TypeOK, StatePlace, SolverPlace, InitTimeSolver, Files, Suffixes
    <2>2. StatePlace'
      BY DEF TypeOK, StatePlace
    <2>3. SolverPlace'
      BY DEF TypeOK, SolverPlace, InitTimeSolver, VisStep
    <2>4. \A k : VisStep(k)' <=> VisStep(k)
      BY DEF VisStep
    <2>5. ASSUME NEW k \in 0..NTimesteps - 1
          PROVE  FilesOf(k)'
      <3>1. FilesOf(k)
        BY DEF FilesPlace
      <3>2. k \in Suffixes /\ t_step \in Suffixes /\ k # NoSuffix
        BY NoSuffixIsNoStep DEF TypeOK, Suffixes
      <3>3. CASE pc' = "crash"
        BY <2>4, <3>1, <3>2, <3>3 DEF TypeOK, FilesOf, VisWritten,
           ResidualWritten, NoFile
      <3>4. CASE pc' = "assemble"
        BY <2>4, <3>1, <3>2, <3>4 DEF TypeOK, FilesOf, VisWritten,
           ResidualWritten, NoFile
      <3>5. CASE pc' = "advance" /\ k # t_step
        BY <2>4, <3>1, <3>2, <3>5 DEF TypeOK, FilesOf, VisWritten,
           ResidualWritten, NoFile
      <3>6. CASE pc' = "advance" /\ k = t_step
        <4>1. opts.outputResidual => ~VisStep(t_step)
          BY <3>6
        <4>2. residualFiles[k] = NoFile /\ residualFiles' = residualFiles
          BY <3>1, <3>6 DEF FilesOf, ResidualWritten
        <4> QED
          BY <2>4, <3>1, <3>2, <3>6, <4>1, <4>2 DEF TypeOK, FilesOf,
             VisWritten, ResidualWritten, NoFile
      <3> QED
        BY <3>3, <3>4, <3>5, <3>6
    <2>6. FilesPlace'
      BY <2>5 DEF FilesPlace
    <2> QED
      BY <2>1, <2>2, <2>3, <2>6
  <1>7. CASE AssembleResidual
    <2> USE <1>7 DEF AssembleResidual
    <2>1. TypeOK'
      BY DEF TypeOK, StatePlace, SolverPlace, InitTimeSolver, Files, Suffixes
    <2>2. StatePlace'
      BY DEF TypeOK, StatePlace
    <2>3. SolverPlace'
      BY DEF TypeOK, SolverPlace, InitTimeSolver, VisStep
    <2>4. \A k : VisStep(k)' <=> VisStep(k)
      BY DEF VisStep
    <2>5. ASSUME NEW k \in 0..NTimesteps - 1
          PROVE  FilesOf(k)'
      <3>1. FilesOf(k)
        BY DEF FilesPlace
      <3>2. k \in Suffixes /\ t_step \in Suffixes /\ k # NoSuffix
        BY NoSuffixIsNoStep DEF TypeOK, Suffixes
      <3> QED
        BY <2>4, <3>1, <3>2 DEF TypeOK, StatePlace, SolverPlace, FilesOf,
           VisWritten, ResidualWritten, NoFile
    <2>6. FilesPlace'
      BY <2>5 DEF FilesPlace
    <2> QED
      BY <2>1, <2>2, <2>3, <2>6
  <1>8. CASE SwapIn
    <2> USE <1>8 DEF SwapIn, SwapAndUpdate
    <2>1. TypeOK'
      BY DEF TypeOK, StatePlace, SolverPlace, InitTimeSolver, Files, Suffixes
    <2>2. StatePlace'
      BY DEF TypeOK, StatePlace
    <2>3. SolverPlace'
      BY DEF TypeOK, SolverPlace, InitTimeSolver, VisStep
    <2>4. \A k : VisStep(k)' <=> VisStep(k)
      BY DEF VisStep
    <2>5. ASSUME NEW k \in 0..NTimesteps - 1
          PROVE  FilesOf(k)'
      <3>1. FilesOf(k)
        BY DEF FilesPlace
      <3>2. k \in Suffixes /\ t_step \in Suffixes /\ k # NoSuffix
        BY NoSuffixIsNoStep DEF TypeOK, Suffixes
      <3> QED
        BY <2>4, <3>1, <3>2 DEF TypeOK, StatePlace, SolverPlace, FilesOf,
           VisWritten, ResidualWritten, NoFile
    <2>6. FilesPlace'
      BY <2>5 DEF FilesPlace
    <2> QED
      BY <2>1, <2>2, <2>3, <2>6
  <1>9. CASE DumpResidual
    <2> USE <1>9 DEF DumpResidual
    <2>1. TypeOK'
      BY DEF TypeOK, StatePlace, SolverPlace, InitTimeSolver, Files, Suffixes
    <2>2. StatePlace'
      BY DEF TypeOK, StatePlace
    <2>3. SolverPlace'
      BY DEF TypeOK, SolverPlace, InitTimeSolver, VisStep
    <2>4. \A k : VisStep(k)' <=> VisStep(k)
      BY DEF VisStep
    <2>5. ASSUME NEW k \in 0..NTimesteps - 1
          PROVE  FilesOf(k)'
      <3>1. FilesOf(k)
        BY DEF FilesPlace
      <3>2. k \in Suffixes /\ t_step \in Suffixes /\ k # NoSuffix
        BY NoSuffixIsNoStep DEF TypeOK, Suffixes
      <3>3. CASE k # t_step
        BY <2>4, <3>1, <3>2, <3>3 DEF TypeOK, FilesOf, VisWritten,
           ResidualWritten, NoFile
      <3>4. CASE k = t_step
        <4>1. residualFiles'[k].vector = Residual(k + 1)
          BY <3>2, <3>4 DEF TypeOK, StatePlace
        <4>2. residualFiles'[k] # NoFile
          BY <4>1 DEF NoFile
        <4>3. opts.outputResidual /\ opts.timestepsPerVis > 0 /\ VisStep(k)
          BY <3>4 DEF SolverPlace
        <4> QED
          BY <2>4, <3>1, <3>4, <4>1, <4>2, <4>3
             DEF TypeOK, FilesOf, VisWritten, ResidualWritten
      <3> QED
        BY <3>3, <3>4
    <2>6. FilesPlace'
      BY <2>5 DEF FilesPlace
    <2> QED
      BY <2>1, <2>2, <2>3, <2>6
  <1>10. CASE SwapBack
    <2> USE <1>10 DEF SwapBack, SwapBackAndUpdate, SwapAndUpdate
    <2>1. TypeOK'
      BY DEF TypeOK, StatePlace, SolverPlace, InitTimeSolver, Files, Suffixes
    <2>2. StatePlace'
      BY DEF TypeOK, StatePlace
    <2>3. SolverPlace'
      BY DEF TypeOK, SolverPlace, InitTimeSolver, VisStep
    <2>4. \A k : VisStep(k)' <=> VisStep(k)
      BY DEF VisStep
    <2>5. ASSUME NEW k \in 0..NTimesteps - 1
          PROVE  FilesOf(k)'
      <3>1. FilesOf(k)
        BY DEF FilesPlace
      <3>2. k \in Suffixes /\ t_step \in Suffixes /\ k # NoSuffix
        BY NoSuffixIsNoStep DEF TypeOK, Suffixes
      <3> QED
        BY <2>4, <3>1, <3>2 DEF TypeOK, StatePlace, SolverPlace, FilesOf,
           VisWritten, ResidualWritten, NoFile
    <2>6. FilesPlace'
      BY <2>5 DEF FilesPlace
    <2> QED
      BY <2>1, <2>2, <2>3, <2>6
  <1>11. CASE RestoreTimeSolver
    <2> USE <1>11 DEF RestoreTimeSolver, Restored
    <2>1. TypeOK'
      BY DEF TypeOK, StatePlace, SolverPlace, InitTimeSolver, Files, Suffixes
    <2>2. StatePlace'
      BY DEF TypeOK, StatePlace
    <2>3. SolverPlace'
      BY DEF TypeOK, SolverPlace, InitTimeSolver, VisStep
    <2>4. \A k : VisStep(k)' <=> VisStep(k)
      BY DEF VisStep
    <2>5. ASSUME NEW k \in 0..NTimesteps - 1
          PROVE  FilesOf(k)'
      <3>1. FilesOf(k)
        BY DEF FilesPlace
      <3>2. k \in Suffixes /\ t_step \in Suffixes /\ k # NoSuffix
        BY NoSuffixIsNoStep DEF TypeOK, Suffixes
      <3> QED
        BY <2>4, <3>1, <3>2 DEF TypeOK, StatePlace, SolverPlace, FilesOf,
           VisWritten, ResidualWritten, NoFile
    <2>6. FilesPlace'
      BY <2>5 DEF FilesPlace
    <2> QED
      BY <2>1, <2>2, <2>3, <2>6
  <1>12. CASE AdvanceTimestep
    <2> USE <1>12 DEF AdvanceTimestep, Commits
    <2>1. TypeOK'
      BY DEF TypeOK, StatePlace, SolverPlace, InitTimeSolver, Files, Suffixes
    <2>2. StatePlace'
      BY DEF TypeOK, StatePlace
    <2>3. SolverPlace'
      BY DEF TypeOK, SolverPlace, InitTimeSolver, VisStep
    <2>4. \A k : VisStep(k)' <=> VisStep(k)
      BY DEF VisStep
    <2>5. ASSUME NEW k \in 0..NTimesteps - 1
          PROVE  FilesOf(k)'
      <3>1. FilesOf(k)
        BY DEF FilesPlace
      <3>2. k \in Suffixes /\ t_step \in Suffixes /\ k # NoSuffix
        BY NoSuffixIsNoStep DEF TypeOK, Suffixes
      <3> QED
        BY <2>4, <3>1, <3>2 DEF TypeOK, StatePlace, SolverPlace, FilesOf,
           VisWritten, ResidualWritten, NoFile
    <2>6. FilesPlace'
      BY <2>5 DEF FilesPlace
    <2> QED
      BY <2>1, <2>2, <2>3, <2>6
  <1>13. CASE UNCHANGED vars
    <2> USE <1>13 DEF vars
    <2>1. TypeOK'
      BY DEF TypeOK, StatePlace, SolverPlace, InitTimeSolver, Files, Suffixes
    <2>2. StatePlace'
      BY DEF TypeOK, StatePlace
    <2>3. SolverPlace'
      BY DEF TypeOK, SolverPlace, InitTimeSolver, VisStep
    <2>4. \A k : VisStep(k)' <=> VisStep(k)
      BY DEF VisStep
    <2>5. ASSUME NEW k \in 0..NTimesteps - 1
          PROVE  FilesOf(k)'
      <3>1. FilesOf(k)
        BY DEF FilesPlace
      <3>2. k \in Suffixes /\ t_step \in Suffixes /\ k # NoSuffix
        BY NoSuffixIsNoStep DEF TypeOK, Suffixes
      <3> QED
        BY <2>4, <3>1, <3>2 DEF TypeOK, StatePlace, SolverPlace, FilesOf,
           VisWritten, ResidualWritten, NoFile
    <2>6. FilesPlace'
      BY <2>5 DEF FilesPlace
    <2> QED
      BY <2>1, <2>2, <2>3, <2>6
  <1> QED
    BY <1>1, <1>2, <1>3, <1>4, <1>5, <1>6, <1>7, <1>8, <1>9, <1>10,
       <1>11, <1>12, <1>13 DEF Next, OutputResidual

\* The inductive invariant holds in every reachable state of solve().
THEOREM InductiveInvariant == Spec => []IInv
  BY InitIInv, StepIInv, PTL DEF Spec

\* The type invariant for every number of steps.
THEOREM TypeCorrect == Spec => []TypeOK
  <1>1. IInv => TypeOK
    BY DEF IInv
  <1> QED
    BY <1>1, InductiveInvariant, PTL

\* Every step starts from the state the last one committed, with the time
\* solver the run was built with, for every number of steps and cadence.
THEOREM AlwaysStepsFromCommittedState == Spec => []StepsFromCommittedState
  <1>1. IInv => StepsFromCommittedState
    BY DEF IInv, StatePlace, SolverPlace, StepsFromCommittedState
  <1> QED
    BY <1>1, InductiveInvariant, PTL

\* Solution-dependent Dirichlet data is of the state a step starts from.
THEOREM DirichletAlwaysCurrent == Spec => []DirichletIsCurrent
  <1>1. IInv => DirichletIsCurrent
    BY DEF IInv, StatePlace, DirichletIsCurrent
  <1> QED
    BY <1>1, InductiveInvariant, PTL

\* Every file on the output cadence is there and holds its own step.
THEOREM FilesAlwaysHoldTheirStep == Spec => []FilesHoldTheirStep
  <1>1. ASSUME IInv, NEW k \in 0..NTimesteps - 1
        PROVE  /\ visFiles[k] # NoFile =>
                    /\ visFiles[k].vector = State(k + 1)
                    /\ visFiles[k].quantities = k + 1
               /\ residualFiles[k] # NoFile =>
                    residualFiles[k].vector = Residual(k + 1)
    BY <1>1 DEF IInv, FilesPlace, FilesOf
  <1>2. ASSUME IInv, NEW k \in 0..NTimesteps - 1,
               k < t_step, opts.timestepsPerVis > 0
        PROVE  /\ (visFiles[k] # NoFile) <=> (opts.outputVis /\ VisStep(k))
               /\ (residualFiles[k] # NoFile) <=>
                    (opts.outputResidual /\ VisStep(k))
    BY <1>2 DEF IInv, FilesPlace, FilesOf, VisWritten, ResidualWritten,
                StatePlace
  <1>3. IInv => FilesHoldTheirStep
    BY <1>1, <1>2 DEF FilesHoldTheirStep
  <1> QED
    BY <1>3, InductiveInvariant, PTL

\* The old solution of the time solver moves forward one level at a time.
THEOREM AlwaysCommitsInOrder == Spec => CommitsInOrder
  <1>1. ASSUME IInv, Next, old' # old
        PROVE  /\ old'.what = "state"
               /\ old # Nothing => old'.level = old.level + 1
    <2>1. CASE Solve
      BY <1>1, <2>1 DEF IInv, TypeOK, StatePlace, Solve
    <2>2. CASE AdvanceTimestep
      BY <1>1, <2>2 DEF IInv, TypeOK, StatePlace, AdvanceTimestep, Commits
    <2> QED
      BY <1>1, <2>1, <2>2 DEF Next, OutputInitial, LoopHead, UpdateDirichlet,
         Output, OutputResidual, SwapTimeSolver, AssembleResidual, SwapIn,
         DumpResidual, SwapBack, RestoreTimeSolver
  <1>2. IInv /\ [Next]_vars =>
          [old' # old => /\ old'.what = "state"
                         /\ old # Nothing => old'.level = old.level + 1]_vars
    BY <1>1 DEF vars
  <1> QED
    BY <1>2, InductiveInvariant, PTL DEF Spec, CommitsInOrder
--------------------------------------------------------------------------
(* The end.  Statements is a bound on the statements solve() has yet to    *)
(* execute: those of the steps not begun and the rest of the current one.  *)

Rest == [enter |-> 13, loop |-> 12, dirichlet |-> 11, solve |-> 10,
         output |-> 9, residual |-> 8, assemble |-> 7, swap |-> 6,
         dump |-> 5, swap_back |-> 4, restore |-> 3, advance |-> 2,
         done |-> 0, crash |-> 0]
Statements == 11 * (NTimesteps - t_step) + Rest[pc]

\* Statements is a natural number.
LEMMA StatementsAreCounted == IInv => Statements \in Nat
  <1> SUFFICES ASSUME IInv PROVE Statements \in Nat
    OBVIOUS
  <1>1. Rest[pc] \in Nat
    BY DEF IInv, TypeOK, Rest
  <1>2. NTimesteps - t_step \in Nat
    BY DEF IInv, TypeOK
  <1> QED
    BY <1>1, <1>2 DEF Statements

\* Every step of solve() brings its end nearer, so that no run of it makes
\* more than 11 * NTimesteps + 13 steps: each time step is counted by
\* advance_timestep and t_step++, whether it writes or not.
THEOREM EndComesNearer ==
  Spec => [][/\ Statements \in Nat
             /\ Statements' \in Nat
             /\ Statements' < Statements]_vars
  <1> USE DEF IInv, TypeOK
  <1>1. ASSUME IInv, Next
        PROVE  Statements' < Statements
    <2>1. CASE AdvanceTimestep
      BY <1>1, <2>1 DEF AdvanceTimestep, Statements, Rest
    <2>2. ASSUME t_step' = t_step, Rest[pc'] < Rest[pc], pc' \in Labels
          PROVE  Statements' < Statements
      <3>1. Rest[pc] \in Nat /\ Rest[pc'] \in Nat
        BY <1>1, <2>2 DEF Rest
      <3> QED
        BY <1>1, <2>2, <3>1 DEF Statements
    <2>3. CASE OutputInitial \/ LoopHead \/ UpdateDirichlet \/ Solve \/ Output
      BY <2>2, <2>3 DEF OutputInitial, LoopHead, UpdateDirichlet, Solve,
         Output, Rest
    <2>4. CASE OutputResidual
      BY <2>2, <2>4 DEF OutputResidual, SwapTimeSolver, AssembleResidual,
         SwapIn, DumpResidual, SwapBack, RestoreTimeSolver, Rest
    <2> QED
      BY <1>1, <2>1, <2>3, <2>4 DEF Next
  <1>2. ASSUME IInv, [Next]_vars, Statements \in Nat, (Statements \in Nat)'
        PROVE  [/\ Statements \in Nat
                /\ Statements' \in Nat
                /\ Statements' < Statements]_vars
    BY <1>1, <1>2
  <1>3. Spec => [](Statements \in Nat)
    BY StatementsAreCounted, InductiveInvariant, PTL
  <1> QED
    BY <1>2, <1>3, InductiveInvariant, PTL DEF Spec
=============================================================================
