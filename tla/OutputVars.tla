----------------------------- MODULE OutputVars -----------------------------
(***************************************************************************)
(* What each physics can postprocess: the options it accepts in its        *)
(* output_vars, the quantities it registers for each, and the quantities   *)
(* its compute_postprocessed_quantity can evaluate.  The gas mixture has   *)
(* the two species N2 and N.                                               *)
(***************************************************************************)
EXTENDS SequencesExt

\* The physics that override register_postprocessing_vars, in the order in
\* which the map of the multiphysics system iterates them.
PhysicsOrder ==
  <<"ElasticCable", "ElasticMembrane", "HeatTransfer",
    "IncompressibleNavierStokes", "LowMachNavierStokes",
    "ReactingLowMachNavierStokes", "VelocityPenalty", "VelocityPenalty2">>
PhysicsNames == Range(PhysicsOrder)

CableOffers == [stress |-> <<"stress_xx", "stress_xy", "stress_yy">>,
                strain |-> <<"strain_xx", "strain_xy", "strain_yy">>]
MembraneOffers ==
  [stress |-> <<"stress_xx", "stress_xy", "stress_yy", "sigma_max",
                "sigma_1", "sigma_2", "sigma_3">>,
   stress_zz |-> <<"stress_zz">>,
   strain |-> <<"strain_xx", "strain_xy", "strain_yy">>]
HeatTransferOffers == [k |-> <<"k">>]
NavierStokesOffers == [mu |-> <<"mu">>]
LowMachOffers == [rho |-> <<"rho">>]
ReactingOffers ==
  [rho |-> <<"rho">>, mu |-> <<"mu">>, k |-> <<"k">>, cp |-> <<"cp">>,
   mole_fractions |-> <<"X_N2", "X_N">>, h_s |-> <<"h_N2", "h_N">>,
   omega_dot |-> <<"omega_dot_N2", "omega_dot_N">>]
\* The quantities of the second VelocityPenalty have names of their own.
PenaltyOffers ==
  [velocity_penalty |-> <<"vel_penalty_x", "vel_penalty_y", "vel_penalty_z">>,
   velocity_penalty_base |->
     <<"vel_penalty_base_x", "vel_penalty_base_y", "vel_penalty_base_z">>]
Penalty2Offers ==
  [velocity_penalty |->
     <<"vel_penalty2_x", "vel_penalty2_y", "vel_penalty2_z">>,
   velocity_penalty_base |->
     <<"vel_penalty2_base_x", "vel_penalty2_base_y", "vel_penalty2_base_z">>]

Offers ==
  [ElasticCable |-> CableOffers, ElasticMembrane |-> MembraneOffers,
   HeatTransfer |-> HeatTransferOffers,
   IncompressibleNavierStokes |-> NavierStokesOffers,
   LowMachNavierStokes |-> LowMachOffers,
   ReactingLowMachNavierStokes |-> ReactingOffers,
   VelocityPenalty |-> PenaltyOffers, VelocityPenalty2 |-> Penalty2Offers]

\* An option no branch accepts.
Invalid == "invalid"

Registered(p) == UNION {Range(Offers[p][o]) : o \in DOMAIN Offers[p]}

\* What each compute_postprocessed_quantity knows an index for.  The cable
\* evaluates the first of its strains only.
CableComputes == {"strain_xx"}
MembraneComputes ==
  {"stress_xx", "stress_xy", "stress_yy", "sigma_max", "sigma_1", "sigma_2",
   "sigma_3", "stress_zz", "strain_xx", "strain_xy", "strain_yy"}
HeatTransferComputes == {"k"}
NavierStokesComputes == {"mu"}
LowMachComputes == {"rho"}
ReactingComputes ==
  {"rho", "mu", "k", "cp", "h_N2", "h_N", "X_N2", "X_N", "omega_dot_N2",
   "omega_dot_N"}
PenaltyComputes ==
  {"vel_penalty_x", "vel_penalty_y", "vel_penalty_z", "vel_penalty_base_x",
   "vel_penalty_base_y", "vel_penalty_base_z"}
Penalty2Computes ==
  {"vel_penalty2_x", "vel_penalty2_y", "vel_penalty2_z",
   "vel_penalty2_base_x", "vel_penalty2_base_y", "vel_penalty2_base_z"}

Computes ==
  [ElasticCable |-> CableComputes, ElasticMembrane |-> MembraneComputes,
   HeatTransfer |-> HeatTransferComputes,
   IncompressibleNavierStokes |-> NavierStokesComputes,
   LowMachNavierStokes |-> LowMachComputes,
   ReactingLowMachNavierStokes |-> ReactingComputes,
   VelocityPenalty |-> PenaltyComputes, VelocityPenalty2 |-> Penalty2Computes]

Quantities == UNION {Registered(p) \union Computes[p] : p \in PhysicsNames}

\* The calls of register_quantity for the options given: each names the
\* physics that makes it and the quantity.
Call(p, n) == [physics |-> p, name |-> n]
CallsOfOption(p, o) ==
  IF o \in DOMAIN Offers[p]
  THEN [i \in DOMAIN Offers[p][o] |-> Call(p, Offers[p][o][i])]
  ELSE <<Call(p, Invalid)>>
\* Physics in the order of the list, and each one's options in input order.
Calls(outputs) ==
  LET Options(p) == IF p \in DOMAIN outputs THEN outputs[p] ELSE <<>>
      OfPhysics(p) == FlattenSeq([i \in DOMAIN Options(p) |->
                                    CallsOfOption(p, Options(p)[i])])
  IN FlattenSeq([j \in DOMAIN PhysicsOrder |-> OfPhysics(PhysicsOrder[j])])
=============================================================================
