-------------------------- MODULE MCPostProcessing --------------------------
(***************************************************************************)
(* Requests for flow, heat, membrane and gas quantities, with a physics    *)
(* enabled on part of the mesh, quantities asked for twice and options     *)
(* nothing accepts; two changes of the state and three elements taken by   *)
(* two threads in any order.                                               *)
(***************************************************************************)
EXTENDS PostProcessing

\* HeatTransfer and VelocityPenalty2 are enabled on one element.
Enabled == [p \in PhysicsNames |->
              IF p \in {"HeatTransfer", "VelocityPenalty2"} THEN {"e1"}
              ELSE {"e1", "e2", "e3"}]
Request(outputs, cantera, garbage) ==
  [calls |-> Calls(outputs), enabled |-> Enabled, cantera |-> cantera,
   garbage |-> garbage]

Flow == [IncompressibleNavierStokes |-> <<"mu">>, HeatTransfer |-> <<"k">>,
         VelocityPenalty2 |-> <<"velocity_penalty">>,
         VelocityPenalty |-> <<"velocity_penalty_base">>]
Membrane == [ElasticMembrane |-> <<"strain", "stress", "stress_zz">>,
             LowMachNavierStokes |-> <<"rho">>]
StrainOnly == [ElasticMembrane |-> <<"strain">>, HeatTransfer |-> <<"k">>]
Gas == [ReactingLowMachNavierStokes |->
          <<"omega_dot", "rho", "mole_fractions", "mu", "h_s", "k", "cp">>]
GasTransport == [ReactingLowMachNavierStokes |-> <<"rho", "mu">>]
Twice == [ReactingLowMachNavierStokes |-> <<"rho", "k">>,
          HeatTransfer |-> <<"k">>]
Wrong == [LowMachNavierStokes |-> <<"rho", "rho_mix">>]
Nothing == [HeatTransfer |-> <<>>]

SoundRequests ==
  {Request(o, FALSE, g) :
     o \in {Flow, Membrane, StrainOnly, Gas, Twice, Wrong, Nothing},
     g \in {0, 2}}
  \union {Request(GasTransport, TRUE, 0)}
=============================================================================
