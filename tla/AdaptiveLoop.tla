---------------------------- MODULE AdaptiveLoop ----------------------------
(***************************************************************************)
(* What an adaptive solve promises: a level of the mesh is solved on       *)
(* before it is refined, at most `passes` levels are used, and the solve   *)
(* ends on a level that was solved on.                                     *)
(***************************************************************************)
EXTENDS Integers

CONSTANT passes

VARIABLES
  level,     \* the mesh of the equation systems
  solvedOn,  \* the last level solved on; level - 1 when this one is not yet
  finished

vars == <<level, solvedOn, finished>>

Init == level = 0 /\ solvedOn = -1 /\ finished = FALSE

SolveOn == /\ ~finished
           /\ solvedOn = level - 1
           /\ solvedOn' = level
           /\ UNCHANGED <<level, finished>>

RefineMesh == /\ ~finished
              /\ solvedOn = level
              /\ level + 1 < passes
              /\ level' = level + 1
              /\ UNCHANGED <<solvedOn, finished>>

\* Nothing was asked for, or the input was refused, or this level is solved.
Finish == /\ ~finished
          /\ level = 0 \/ solvedOn = level
          /\ finished' = TRUE
          /\ UNCHANGED <<level, solvedOn>>

Next == SolveOn \/ RefineMesh \/ Finish

Spec == Init /\ [][Next]_vars
=============================================================================
