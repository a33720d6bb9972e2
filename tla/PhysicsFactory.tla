---------------------------- MODULE PhysicsFactory ----------------------------
(***************************************************************************)
(* PhysicsFactory: the physics an input enables, each with the models of   *)
(* its material, and the check that those that need one another are there. *)
(*                                                                         *)
(* m holds the models the input names.  The classes of incompressible flow *)
(* read that of IncompressibleNavierStokes, those of heat transfer that of *)
(* HeatTransfer and those of low Mach flow that of LowMachNavierStokes.    *)
(***************************************************************************)
EXTENDS PhysicsTerms, Naturals

AllPhysics == {PhysicsOrder[i] : i \in DOMAIN PhysicsOrder}

WithViscosity ==
  {"IncompressibleNavierStokes", "Stokes",
   "IncompressibleNavierStokesAdjointStabilization",
   "IncompressibleNavierStokesSPGSMStabilization", "VelocityDrag",
   "VelocityDragAdjointStabilization", "VelocityPenalty",
   "VelocityPenaltyAdjointStabilization", "AveragedFan",
   "AveragedFanAdjointStabilization", "AveragedTurbine"}
WithConductivity ==
  {"HeatTransfer", "HeatTransferAdjointStabilization",
   "HeatTransferSPGSMStabilization", "AxisymmetricHeatTransfer",
   "HeatConduction"}
WithLowMach ==
  {"LowMachNavierStokes", "LowMachNavierStokesSPGSMStabilization",
   "LowMachNavierStokesVMSStabilization",
   "LowMachNavierStokesBraackStabilization"}

\* add_reacting_low_mach: what Antioch is compiled for.
WilkeMixture(m) ==
  /\ m.thermo = "stat_mech" /\ m.diffusivity = "constant_lewis"
  /\ m.gasConductivity = "eucken"
  /\ m.gasViscosity \in {"sutherland", "blottner"}
ConstantMixture(m) ==
  /\ m.thermo \in {"stat_mech", "cea"} /\ m.diffusivity = "constant_lewis"
  /\ m.gasConductivity \in {"constant", "constant_prandtl"}
  /\ m.gasViscosity = "constant"
AddsReacting(m) ==
  \/ m.library = "cantera"
  \/ m.library = "antioch" /\ m.mixing = "wilke" /\ WilkeMixture(m)
  \/ m.library = "antioch" /\ m.mixing = "constant" /\ ConstantMixture(m)

\* add_physics stops on a name or on models it does not know.
AddsPhysics(p, m) ==
  /\ p \in AllPhysics
  /\ p \in WithViscosity => m.viscosity \in {"constant", "parsed"}
  /\ p \in WithConductivity => m.conductivity \in {"constant", "parsed"}
  /\ p \in WithLowMach => m.lowMach = "constant"
  /\ p = "HeatTransferSource" => m.source = "constant"
  /\ p = "ElasticMembrane" => m.membrane \in {"HookesLaw", "MooneyRivlin"}
  /\ p = "ElasticCable" => m.cable = "HookesLaw"
  /\ p = "ReactingLowMachNavierStokes" => AddsReacting(m)

\* check_physics_consistency; the mutant lets heat transfer go without flow.
NeedsFlow ==
  {"IncompressibleNavierStokesAdjointStabilization",
   "IncompressibleNavierStokesSPGSMStabilization", "HeatTransfer",
   "BoussinesqBuoyancy", "BoussinesqBuoyancyAdjointStabilization"}
NeedsHeat ==
  {"BoussinesqBuoyancy", "HeatTransferSource",
   "HeatTransferAdjointStabilization"}
RequiredButFlow(p) == IF p \in NeedsHeat THEN {"HeatTransfer"} ELSE {}
Required(p) ==
  (IF p \in NeedsFlow THEN {"IncompressibleNavierStokes"} ELSE {})
    \union (IF p \in NeedsHeat THEN {"HeatTransfer"} ELSE {})
    \union (IF p = "AxisymmetricBoussinesqBuoyancy"
            THEN {"AxisymmetricHeatTransfer"} ELSE {})
Alone == {"LowMachNavierStokes", "ReactingLowMachNavierStokes"}
IsConsistent(list) ==
  \A p \in list : /\ Required(p) \subseteq list
                  /\ p \in Alone => Cardinality(list) <= 2

\* build: the map of physics an input with these names and models makes.
Builds(list, m) ==
  list # {} /\ (\A p \in list : AddsPhysics(p, m)) /\ IsConsistent(list)

-----------------------------------------------------------------------------

\* The unknowns that no residual of a list has an equation for.
Residuals == {"element_time_derivative", "element_constraint",
              "nonlocal_time_derivative", "nonlocal_constraint"}
Unknowns(c, list) == {a[1] : a \in UNION {AddsOf(c, p) : p \in list}}
Equations(c, list) ==
  {e[1] : e \in UNION {TermOf(c, p, h).reads : p \in list, h \in Residuals}}
Undetermined(c, list) == Unknowns(c, list) \ Equations(c, list)

\* A physics with what the check makes it come with.
Requiring(list) == list \union UNION {Required(p) : p \in list}
Least(p) == Requiring(Requiring({p}))

\* The physics that add unknowns for which the check does not ask anybody to
\* bring an equation.
Unguarded ==
  {"AveragedFan", "AveragedTurbine", "VelocityDrag", "VelocityPenalty",
   "AxisymmetricHeatTransfer", "BoussinesqBuoyancyAdjointStabilization",
   "BoussinesqBuoyancySPGSMStabilization", "ElasticCableConstantGravity",
   "HeatTransferSPGSMStabilization"}
=============================================================================
