---------------------------- MODULE ProgramPhysics ----------------------------
(***************************************************************************)
(* ProgramPhysics: the multiphysics system of the program's own physics,   *)
(* in the lists the factory accepts.  Each physics gives the system what   *)
(* it owes it, but for the few named here; with the others every list has  *)
(* the properties of MultiphysicsSystem.                                   *)
(***************************************************************************)
EXTENDS PhysicsFactory, MultiphysicsSystem

Listed(k) == {k.list[i] : i \in DOMAIN k.list}

\* What the physics of the system do is what the classes of the program do,
\* and the factory's check has passed the list.
ASSUME PhysicsAreOfProgram ==
  \A k \in Configs : \A p \in Listed(k) :
    /\ Adds(k, p) = AddsOf(k, p)
    /\ Evolves(k, p) = EvolvesOf(k, p)
    /\ Requests(k, p) = RequestsOf(k, p)
    /\ \A h \in HookNames(k) : /\ Caches(k, p, h) = CachesOf(k, p, h)
                               /\ Terms(k, p, h) = TermOf(k, p, h)
ASSUME ListsAreAccepted ==
  \A k \in Configs : Listed(k) \subseteq AllPhysics /\ IsConsistent(Listed(k))

--------------------------------------------------------------------------
(* The physics that do not give what they owe, alone or without company.   *)

\* The stabilized fan writes a third velocity's block in two dimensions.
Overreaching(k) ==
  IF k.dim = 3 THEN {} ELSE {"AveragedFanAdjointStabilization"}

\* The stabilizations of the low Mach flow read values for rates.
LowMachStabs ==
  {"LowMachNavierStokesBraackStabilization",
   "LowMachNavierStokesSPGSMStabilization",
   "LowMachNavierStokesVMSStabilization"}
WithoutRates(k) == IF k.scheme = "steady" THEN {} ELSE LowMachStabs

\* Their Jacobians, that of a low Mach flow in time or with the thermodynamic
\* pressure, and that of the overreaching fan lack entries or have too many.
\* Others are complete only for a steady solver, or at one time level.
OnlySteady ==
  {"IncompressibleNavierStokesAdjointStabilization", "Stokes",
   "HeatTransferAdjointStabilization", "LowMachNavierStokes"}
OnlyAtOneLevel == {"AveragedTurbine", "ElasticMembraneConstantPressure"}
WithPartialJacobian(k) ==
  LowMachStabs \union Overreaching(k)
    \union (IF k.p0 THEN {"LowMachNavierStokes"} ELSE {})
    \union (IF k.scheme # "steady" THEN OnlySteady ELSE {})
    \union (IF k.scheme = "theta" THEN OnlyAtOneLevel ELSE {})

\* The stabilized buoyancy uses gradients that only others ask for, and the
\* stabilized forces ask for the gradients of the pressure but not for itself.
UsesGradientsOfOthers == "BoussinesqBuoyancySPGSMStabilization"
ForceStabs ==
  {"AveragedFanAdjointStabilization", "VelocityDragAdjointStabilization",
   "VelocityPenaltyAdjointStabilization"}
FlowStabs ==
  {"IncompressibleNavierStokesAdjointStabilization",
   "IncompressibleNavierStokesSPGSMStabilization"}
RequestsHaveOwners(k) ==
  /\ UsesGradientsOfOthers \in Listed(k) =>
       Listed(k) \intersect (FlowStabs \union ForceStabs
                    \union {"BoussinesqBuoyancyAdjointStabilization"}) # {}
  /\ Listed(k) \intersect ForceStabs # {} =>
       Listed(k) \intersect (FlowStabs \union {"IncompressibleNavierStokes"}) # {}

\* Forces and loads march unknowns whose rates only others read.
StopInTime == {"ElasticCable", "ElasticMembrane", "ReactingLowMachNavierStokes"}
MarchFlowOfOthers ==
  {"AveragedFan", "AveragedTurbine", "VelocityDrag", "VelocityPenalty"}
    \union ForceStabs
ReadRatesOfFlow ==
  {"IncompressibleNavierStokes", "Stokes", "LowMachNavierStokes"}
    \union FlowStabs
MarchSolidOfOthers ==
  {"ElasticCableConstantGravity", "ElasticMembraneConstantPressure"}
RatesHaveOwners(k) ==
  \/ k.scheme = "steady"
  \/ Listed(k) \intersect StopInTime # {}
  \/ /\ Listed(k) \intersect MarchFlowOfOthers # {} =>
          Listed(k) \intersect ReadRatesOfFlow # {}
     /\ Listed(k) \intersect LowMachStabs # {} =>
          "LowMachNavierStokes" \in Listed(k)
     /\ Listed(k) \intersect MarchSolidOfOthers = {}

--------------------------------------------------------------------------
(* Properties *)

\* The physics of the program give the system what each owes it, one at a
\* time, for every list that the factory accepts but for those named above:
\* the hypotheses of the theorems hold of the program.  With a physics that
\* overreaches, lacks rates or fills a part of its Jacobian they do not.
PhysicsAreSound ==
  phase = "variables" /\ next = 1 =>
    /\ CachesSuffice(c)
    /\ TouchesOwn(c) <=> Listed(c) \intersect Overreaching(c) = {}
    /\ MassesHoldRates(c) <=> Listed(c) \intersect WithoutRates(c) = {}
    /\ c.analytic => (JacobiansAreComplete(c)
                        <=> Listed(c) \intersect WithPartialJacobian(c) = {})
    /\ RequestsHaveOwners(c) => RequestsSuffice(c)
    /\ RatesHaveOwners(c) => RatesAreRead(c)

\* The models of the examples and tests of the program.
Constants ==
  [viscosity |-> "constant", conductivity |-> "constant",
   lowMach |-> "constant", source |-> "constant", membrane |-> "HookesLaw",
   cable |-> "HookesLaw", library |-> "cantera", mixing |-> "wilke",
   thermo |-> "stat_mech", diffusivity |-> "constant_lewis",
   gasConductivity |-> "eucken", gasViscosity |-> "blottner"]
Models ==
  {Constants, [Constants EXCEPT !.library = "antioch"],
   [Constants EXCEPT !.viscosity = "parsed", !.conductivity = "parsed"],
   [Constants EXCEPT !.membrane = "MooneyRivlin"],
   [Constants EXCEPT !.library = "antioch", !.mixing = "constant",
                     !.thermo = "cea", !.gasConductivity = "constant",
                     !.gasViscosity = "constant"]}

\* The factory builds the lists of the runs; and with whatever physics it
\* builds a list, other than those nobody guards, it has made sure that every
\* unknown of the list has an equation: a list is the union of such least
\* lists.  The exception is the thermodynamic pressure, which only
\* LowMachNavierStokes solves for.  A physics that nobody guards brings an
\* unknown too many.
AcceptedAreSquare ==
  phase = "variables" /\ next = 1 =>
    /\ \A m \in Models : Builds(Listed(c), m)
    /\ \A p \in AllPhysics :
         LET missing == Undetermined(c, Least(p)) \ ThermoPressure(c)
         IN  p \in Unguarded <=> missing # {}
    /\ "p0" \notin Undetermined(c, {"LowMachNavierStokes"})
=============================================================================
