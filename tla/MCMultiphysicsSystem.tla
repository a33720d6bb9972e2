------------------------ MODULE MCMultiphysicsSystem ------------------------
(***************************************************************************)
(* The combinations of physics of the examples and tests of the program:   *)
(* steady and unsteady, in two and three dimensions, with the Jacobian of  *)
(* the physics where they have one and with a numerical one elsewhere,     *)
(* finite elements that are shared or not, and physics on part of a mesh   *)
(* of two subdomains.                                                      *)
(***************************************************************************)
EXTENDS ProgramPhysics

TaylorHood == [flow |-> "Q2", pressure |-> "Q1", temperature |-> "Q2",
               species |-> "Q2", displacement |-> "Q2"]
EqualOrder == [flow |-> "Q1", pressure |-> "Q1", temperature |-> "Q1",
               species |-> "Q1", displacement |-> "Q1"]
AllDifferent == [flow |-> "Q2", pressure |-> "Q1", temperature |-> "H3",
                 species |-> "H2", displacement |-> "Q3"]

Run(enabled, dim, scheme, analytic) ==
  [list |-> ListOf(enabled), dim |-> dim, scheme |-> scheme,
   analytic |-> analytic, where |-> [p \in enabled |-> {}],
   fe |-> AllDifferent, p0 |-> FALSE, compressible |-> FALSE,
   defaulted |-> {}]
On(run, p, subdomains) == [run EXCEPT !.where[p] = subdomains]
WithFE(run, fe) == [run EXCEPT !.fe = fe]

Schemes == {"steady", "backward_euler", "theta"}
Dims == {2, 3}
INS == "IncompressibleNavierStokes"
Buoyant == {INS, "HeatTransfer", "BoussinesqBuoyancy"}
FlowStab == "IncompressibleNavierStokesAdjointStabilization"
HeatStab == "HeatTransferAdjointStabilization"
BuoyancyStab == "BoussinesqBuoyancyAdjointStabilization"

\* With analytic Jacobians, at all times.
FlowRuns ==
  {Run(e, d, s, TRUE) :
     e \in {{INS}, {INS, "AveragedFan"}, {INS, "VelocityPenalty"},
            {INS, "VelocityDrag"}, Buoyant},
     d \in Dims, s \in Schemes}
OtherRuns ==
  {Run({"ScalarODE"}, 2, s, TRUE) : s \in Schemes}
  \union {Run({INS, "AxisymmetricHeatTransfer",
               "AxisymmetricBoussinesqBuoyancy"}, 2, s, TRUE) : s \in Schemes}
  \union {WithFE(Run(Buoyant \union {"HeatTransferSource"}, 2, s, TRUE),
                 TaylorHood) : s \in Schemes}
\* At no or one time level only.
UnitRuns ==
  {Run({INS, "AveragedTurbine"}, 3, s, TRUE) : s \in {"steady", "backward_euler"}}
  \union {Run({"Stokes", "HeatConduction"}, 2, "steady", TRUE)}
SteadyRuns ==
  {WithFE(Run(e, d, "steady", TRUE), TaylorHood) :
     e \in {{INS, FlowStab}, {INS, "VelocityDrag", "VelocityDragAdjointStabilization"},
            {INS, "VelocityPenalty", "VelocityPenaltyAdjointStabilization"},
            {INS, "HeatTransfer", HeatStab},
            Buoyant \union {FlowStab, HeatStab, BuoyancyStab},
            {"LowMachNavierStokes"}},
     d \in Dims}
  \union {Run({INS, "AveragedFan", "AveragedFanAdjointStabilization"}, 3,
              "steady", TRUE)}
  \union {Run(e, 3, "steady", TRUE) :
            e \in {{"ElasticMembrane"},
                   {"ElasticMembrane", "ElasticMembraneConstantPressure"},
                   {"ElasticCable", "ElasticCableConstantGravity"}}}
\* With numerical Jacobians.
NumericalRuns ==
  {WithFE(Run(e, d, s, FALSE), EqualOrder) :
     e \in {{"Stokes"}, {INS, FlowStab}, {INS, "HeatTransfer", HeatStab},
            {INS, "IncompressibleNavierStokesSPGSMStabilization"},
            Buoyant \union {"IncompressibleNavierStokesSPGSMStabilization",
                            "HeatTransferSPGSMStabilization",
                            "BoussinesqBuoyancySPGSMStabilization"}},
     d \in Dims, s \in {"steady", "theta"}}
  \union {[Run({p}, 2, s, FALSE) EXCEPT !.p0 = p0] :
            p \in {"LowMachNavierStokes", "ReactingLowMachNavierStokes"},
            s \in {"steady", "theta"}, p0 \in BOOLEAN}
  \union {Run({"LowMachNavierStokes", stab}, d, "steady", FALSE) :
            stab \in {"LowMachNavierStokesBraackStabilization",
                      "LowMachNavierStokesSPGSMStabilization",
                      "LowMachNavierStokesVMSStabilization"}, d \in Dims}
  \union {[Run({"ElasticMembrane", "ElasticMembraneConstantPressure"}, 3, s,
               a) EXCEPT !.compressible = TRUE] :
            s \in {"steady", "theta"}, a \in BOOLEAN}
\* Physics on part of the mesh, and an input that gives T two types.
PartialRuns ==
  {On(On(Run(Buoyant, 2, "theta", TRUE), "HeatTransfer", {"solid", "fluid"}),
      "BoussinesqBuoyancy", {"fluid"}),
   On(Run({INS, "AveragedFan"}, 2, "theta", TRUE), "AveragedFan", {"fluid"}),
   On(On(Run({"HeatConduction", "Stokes"}, 2, "steady", TRUE),
         "HeatConduction", {"solid"}), "Stokes", {"fluid"})}
ClashingRuns ==
  {[Run({"HeatConduction", INS, "HeatTransfer"}, 2, "steady", TRUE)
      EXCEPT !.defaulted = {"HeatConduction"}]}
SoundRuns ==
  FlowRuns \union OtherRuns \union UnitRuns \union SteadyRuns
    \union NumericalRuns \union PartialRuns \union ClashingRuns

\* Each of these runs has the company that its physics need, and those with
\* the Jacobian of the physics have no physics with a partial one.
ASSUME SoundRunsHaveOwners ==
  \A run \in SoundRuns :
    /\ Listed(run) \intersect (Overreaching(run) \union WithoutRates(run)) = {}
    /\ RequestsHaveOwners(run) /\ RatesHaveOwners(run)
    /\ run.analytic /\ ~run.compressible =>
         Listed(run) \intersect WithPartialJacobian(run) = {}

\* A stabilized low Mach flow between two time levels.
LowMachStabRuns ==
  {Run({"LowMachNavierStokes", "LowMachNavierStokesSPGSMStabilization"}, 2,
       "theta", FALSE)}
=============================================================================
