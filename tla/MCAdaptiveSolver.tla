-------------------------- MODULE MCAdaptiveSolver --------------------------
(***************************************************************************)
(* Three passes: one on the first mesh, one on a refined mesh that is      *)
(* refined again, and the last one, which does not refine.                 *)
(***************************************************************************)
EXTENDS AdaptiveSolver
=============================================================================
