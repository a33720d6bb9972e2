-------------------------- MODULE MCUnsteadySolver --------------------------
(***************************************************************************)
(* Four steps with an output cadence of 0 to 3: every step, steps on and   *)
(* off the cadence, one output only, and the cadence zero the input parser *)
(* lets through.                                                           *)
(***************************************************************************)
EXTENDS UnsteadySolver
=============================================================================
