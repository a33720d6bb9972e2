------------------------------ MODULE WholeSum ------------------------------
(***************************************************************************)
(* What a parallel run promises of its quantities of interest, whatever    *)
(* the number of processors and threads: after a solve each processor      *)
(* learns each quantity, and what it learns is the quantity over the       *)
(* whole domain in the solution of that solve.                             *)
(***************************************************************************)
EXTENDS Integers

CONSTANTS
  Ranks,         \* the processors
  Quantities,    \* the indices of the quantities
  Whole(_, _),   \* the quantity over the whole domain in a solution
  Unknown        \* what a processor holds before it has learnt anything

VARIABLES
  level,  \* how many solves there have been
  told    \* what each processor holds of each quantity

Init ==
  /\ level = 0
  /\ told = [p \in Ranks |-> [q \in Quantities |-> Unknown]]

Solve ==
  /\ level' = level + 1
  /\ UNCHANGED told

Tell(p, q) ==
  /\ told' = [told EXCEPT ![p][q] = Whole(q, level)]
  /\ UNCHANGED level

Next == Solve \/ \E p \in Ranks, q \in Quantities : Tell(p, q)

Spec == Init /\ [][Next]_<<level, told>>
=============================================================================
