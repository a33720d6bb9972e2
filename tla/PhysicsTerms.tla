---------------------------- MODULE PhysicsTerms ----------------------------
(***************************************************************************)
(* What the physics classes give the multiphysics system: the variables    *)
(* they add and march in time, the shape functions they prerequest, and,   *)
(* for each residual function, the unknowns each equation reads, the       *)
(* blocks of the Jacobian it fills, the shape functions it uses and the    *)
(* cached values it needs.                                                 *)
(*                                                                         *)
(* A dependence is a triple <<row, column, via>>.  Via "value" is the      *)
(* solution (fixed or not) at the time the solver evaluates it, whose      *)
(* derivative is get_elem_solution_derivative or its fixed counterpart;    *)
(* via "rate" is the time derivative, get_elem_solution_rate_derivative;   *)
(* via "one" is the plain unknown, a Jacobian term without any factor.     *)
(*                                                                         *)
(* c is a configuration: the dimension of the mesh, the options that add   *)
(* unknowns and the type of the finite elements of each physics section.   *)
(***************************************************************************)
EXTENDS FiniteSets, Sequences

Value(rows, cols) == rows \X cols \X {"value"}
Rate(rows, cols) == rows \X cols \X {"rate"}
Plain(rows, cols) == rows \X cols \X {"one"}
\* Each equation with its own unknown.
OwnValue(vars) == {<<v, v, "value">> : v \in vars}
OwnRate(vars) == {<<v, v, "rate">> : v \in vars}

Phi(vars) == vars \X {"phi"}
Gradients(vars) == vars \X {"phi", "dphi"}
Hessians(vars) == vars \X {"phi", "dphi", "d2phi"}

\* A residual function: what its equations read, the Jacobian it fills, the
\* shape functions it evaluates, the cached values it takes, and whether it
\* stops with libmesh_not_implemented, always or for a Jacobian.
Term(reads, jac, shapes) ==
  [reads |-> reads, jac |-> jac, shapes |-> shapes, gets |-> {},
   stops |-> "never"]
Cached(term, quantities) == [term EXCEPT !.gets = quantities]
NoJacobianYet(reads, shapes) ==
  [Term(reads, {}, shapes) EXCEPT !.stops = "jacobian"]
NotImplemented == [Term({}, {}, {}) EXCEPT !.stops = "always"]
NoTerm == Term({}, {}, {})

Velocity(c) == IF c.dim = 3 THEN {"u", "v", "w"} ELSE {"u", "v"}
Flow(c) == Velocity(c) \union {"p"}
Displacement == {"u", "v", "w"}
AxisVelocity == {"r_vel", "z_vel"}
ThermoPressure(c) == IF c.p0 THEN {"p0"} ELSE {}
Stretch(c) == IF c.compressible THEN {"lambda_sq"} ELSE {}
Species == {"w_N2", "w_N"}
VariableNames == {"u", "v", "w", "p", "T", "r_vel", "z_vel", "p0", "lambda_sq",
                  "fan_speed", "scalar_var"} \union Species

--------------------------------------------------------------------------
(* Variables and their finite elements, from the section of the input that *)
(* each physics reads.                                                     *)

FEOf(c, section, kind) ==
  IF section \in c.defaulted THEN "default" ELSE c.fe[kind]
FlowVars(c, section) ==
  (Velocity(c) \X {FEOf(c, section, "flow")})
    \union {<<"p", FEOf(c, section, "pressure")>>}
TempVar(c, section) == {<<"T", FEOf(c, section, "temperature")>>}
LowMachVars(c) ==
  FlowVars(c, "LowMachNavierStokes") \union TempVar(c, "LowMachNavierStokes")
    \union (ThermoPressure(c) \X {"scalar"})
ReactingVars(c) ==
  (Species \X {FEOf(c, "ReactingLowMachNavierStokes", "species")})
    \union FlowVars(c, "ReactingLowMachNavierStokes")
    \union TempVar(c, "ReactingLowMachNavierStokes")
    \union (ThermoPressure(c) \X {"scalar"})
HeatTransferVars(c) ==
  FlowVars(c, "IncompressibleNavierStokes") \union TempVar(c, "HeatTransfer")
TurbineVarsFlowOnly(c) == FlowVars(c, "IncompressibleNavierStokes")
TurbineVars(c) ==
  {<<"fan_speed", "scalar">>} \union FlowVars(c, "IncompressibleNavierStokes")
AxisymmetricVars(c) ==
  (AxisVelocity \X {FEOf(c, "IncompressibleNavierStokes", "flow")})
    \union TempVar(c, "AxisymmetricHeatTransfer")
DisplacementVars(c, section) ==
  Displacement \X {FEOf(c, section, "displacement")}
MembraneVars(c) ==
  DisplacementVars(c, "ElasticMembrane") \union (Stretch(c) \X {"Q1"})
ScalarVars == {<<"scalar_var", "scalar">>}

\* What each physics marches in time.
FlowEvolves(c) == Velocity(c)
TempEvolves == {"T"}
AxisymmetricEvolves == {"T"}
LowMachEvolves(c) == Flow(c) \union {"T"} \union ThermoPressure(c)
ReactingEvolves(c) == Species \union Flow(c) \union {"T"} \union ThermoPressure(c)
TurbineEvolves(c) == {"fan_speed"} \union FlowEvolves(c)
SolidEvolves == Displacement
ScalarEvolves == {"scalar_var"}

\* The shape functions each init_context asks for in the element interior.
FlowRequests == Gradients({"u"}) \union Phi({"p"})
FlowStabRequests ==
  FlowRequests \union {<<"p", "dphi">>, <<"u", "d2phi">>}
ForceRequests == Phi({"u"})
ForceStabRequests == {<<"p", "dphi">>} \union Hessians({"u"})
BuoyancyStabRequests ==
  {<<"p", "dphi">>, <<"u", "dphi">>, <<"u", "d2phi">>}
TempRequests == Gradients({"T"})
TempStabRequestsNoHessian == TempRequests
TempStabRequests == TempRequests \union {<<"T", "d2phi">>}
ConductionRequests == Gradients({"T"})
AxisymmetricRequests == Gradients({"T"})
LowMachRequests == Gradients({"u", "T"}) \union Phi({"p"})
LowMachStabRequests ==
  LowMachRequests \union {<<"p", "dphi">>, <<"u", "d2phi">>, <<"T", "d2phi">>}
ReactingRequests == Gradients({"w_N2", "u", "T"}) \union Phi({"p"})
CableRequests == Gradients({"u"})
MembraneRequests == Gradients({"u"})

--------------------------------------------------------------------------
(* Incompressible flow. *)

NavierStokesTime(c) ==
  Term(Value(Velocity(c), Flow(c)),
       Value(Velocity(c), Velocity(c)) \union Value(Velocity(c), {"p"}),
       Gradients(Velocity(c)) \union Phi({"p"}))
NavierStokesConstraint(c) ==
  Term(Value({"p"}, Velocity(c)), Value({"p"}, Velocity(c)),
       Gradients(Velocity(c)) \union Phi({"p"}))
\* PressurePinning::pin_value at a point of the element.
Pinning == Term(Value({"p"}, {"p"}), Plain({"p"}, {"p"}), {})
NavierStokesMassOfValue(c) ==
  Term(OwnValue(Velocity(c)), OwnValue(Velocity(c)), Phi(Velocity(c)))
NavierStokesMass(c) ==
  Term(OwnRate(Velocity(c)), OwnRate(Velocity(c)), Phi(Velocity(c)))

StokesTime(c) ==
  Term(OwnValue(Velocity(c)) \union Value(Velocity(c), {"p"}),
       OwnValue(Velocity(c)) \union Value(Velocity(c), {"p"}),
       Gradients(Velocity(c)) \union Phi({"p"}))
\* Stokes pins the pressure in its element constraint.
StokesConstraint(c) ==
  Term(Value({"p"}, Flow(c)),
       Value({"p"}, Velocity(c)) \union Plain({"p"}, {"p"}),
       Gradients(Velocity(c)) \union Phi({"p"}))
\* The Jacobian takes the derivative of the solution, not of its rate.
StokesMass(c) ==
  Term(OwnRate(Velocity(c)), OwnValue(Velocity(c)), Phi(Velocity(c)))

\* The residuals the stabilizations weight: steady momentum and continuity,
\* and transient momentum.
MomentumData(c) == Hessians(Velocity(c)) \union Gradients({"p"})
\* The derivative of the test function has no factor.
AdjointStabTime(c) ==
  Term(Value(Velocity(c), Flow(c)),
       Value(Velocity(c), Velocity(c)) \union Value(Velocity(c), {"p"})
         \union Plain(Velocity(c), Velocity(c)),
       MomentumData(c))
AdjointStabConstraint(c) ==
  Term(Value({"p"}, Flow(c)),
       Plain({"p"}, {"p"}) \union Value({"p"}, Velocity(c)), MomentumData(c))
\* The rates are read; the Jacobian holds only values.
AdjointStabMass(c) ==
  Term(Value(Velocity(c) \union {"p"}, Velocity(c)) \union OwnRate(Velocity(c))
         \union Rate({"p"}, Velocity(c)),
       Value(Velocity(c), Velocity(c)) \union Value({"p"}, Velocity(c)),
       Hessians(Velocity(c)) \union Gradients({"p"}))
SPGSMStabTime(c) ==
  NoJacobianYet(Value(Velocity(c), Flow(c)), MomentumData(c))
SPGSMStabConstraint(c) ==
  NoJacobianYet(Value({"p"}, Flow(c)), MomentumData(c))
SPGSMStabMass(c) ==
  NoJacobianYet(Value(Flow(c), Velocity(c)) \union OwnRate(Velocity(c))
                  \union Rate({"p"}, Velocity(c)),
                Gradients(Flow(c)))

--------------------------------------------------------------------------
(* Forces on the flow. *)

ForceTimeAlways3D(c) ==
  Term(Value({"u", "v", "w"}, {"u", "v", "w"}),
       Value({"u", "v", "w"}, {"u", "v", "w"}), Phi(Velocity(c)))
ForceTime(c) ==
  Term(Value(Velocity(c), Velocity(c)), Value(Velocity(c), Velocity(c)),
       Phi(Velocity(c)))
FanTime(c) == ForceTime(c)
DragTime(c) == ForceTime(c)
PenaltyTime(c) == ForceTime(c)

ForceStabTime(c) ==
  Term(Value(Velocity(c), Velocity(c)), Value(Velocity(c), Velocity(c)),
       Hessians({"u"}) \union Phi(Velocity(c)))
FanStabTime(c) == ForceStabTime(c)
DragStabTime(c) == ForceStabTime(c)
PenaltyStabTime(c) == ForceStabTime(c)

ForceStabConstraint(c, jac) ==
  Term(Value({"p"}, Velocity(c)), jac,
       Phi(Velocity(c)) \union {<<"p", "dphi">>})
\* In two dimensions the fan writes the block of w only.
FanStabBlocks(c) == Value({"p"}, IF c.dim = 3 THEN Velocity(c) ELSE {"w"})
FanStabConstraint(c) == ForceStabConstraint(c, FanStabBlocks(c))
DragStabConstraint(c) ==
  ForceStabConstraint(c, Value({"p"}, {"u", "v"})
                           \union Value({"p"}, Velocity(c) \ {"u", "v"}))
PenaltyStabConstraint(c) == ForceStabConstraint(c, Value({"p"}, Velocity(c)))

\* The turbine couples every component of the flow with the fan speed, and
\* gives its Jacobian no factor.
TurbineUnknowns(c) == Velocity(c) \union {"fan_speed"}
TurbineTime(c) ==
  Term(Value(TurbineUnknowns(c), TurbineUnknowns(c)),
       Plain(TurbineUnknowns(c), TurbineUnknowns(c)),
       Phi(Velocity(c)))
\* The torque is evaluated at the present iterate of the fan speed.
TurbineSpeedTime ==
  Term(Plain({"fan_speed"}, {"fan_speed"}), OwnValue({"fan_speed"}), {})
TurbineSpeedMass == Term(OwnRate({"fan_speed"}), OwnRate({"fan_speed"}), {})

BuoyancyTime(c) ==
  Term(Value(Velocity(c), {"T"}), Value(Velocity(c), {"T"}), Phi({"u", "T"}))
BuoyancyStabTime(c) ==
  Term(Value(Velocity(c), Velocity(c) \union {"T"}),
       Value(Velocity(c), {"T"}) \union Value(Velocity(c), Velocity(c)),
       Hessians({"u"}) \union Phi(Velocity(c) \union {"T"}))
BuoyancyStabConstraint(c) ==
  Term(Value({"p"}, Velocity(c) \union {"T"}),
       Value({"p"}, {"T"}) \union Value({"p"}, Velocity(c)),
       Phi(Velocity(c) \union {"T"}) \union {<<"p", "dphi">>})
BuoyancySPGSMTime(c) ==
  NoJacobianYet(Value(Velocity(c), Velocity(c) \union {"T"}),
                Gradients({"u"}) \union Phi(Velocity(c) \union {"T"}))
BuoyancySPGSMConstraint(c) ==
  NoJacobianYet(Value({"p"}, Velocity(c) \union {"T"}),
                {<<"p", "dphi">>} \union Phi(Velocity(c) \union {"T"}))
AxisymmetricBuoyancyTime ==
  Term(Value(AxisVelocity, {"T"}), Value(AxisVelocity, {"T"}),
       Phi({"r_vel", "T"}))

--------------------------------------------------------------------------
(* Heat transfer. *)

HeatTransferTime(c) ==
  Term(Value({"T"}, Velocity(c) \union {"T"}),
       OwnValue({"T"}) \union Value({"T"}, Velocity(c)),
       Gradients({"T"}) \union Phi(Velocity(c)))
HeatTransferMassOfValue == Term(OwnRate({"T"}), OwnValue({"T"}), Phi({"T"}))
HeatTransferMass == Term(OwnRate({"T"}), OwnRate({"T"}), Phi({"T"}))
SourceTime == Term({}, {}, Phi({"T"}))
ConductionTime == Term(OwnValue({"T"}), OwnValue({"T"}), Gradients({"T"}))
ConductionMass == Term(OwnRate({"T"}), OwnRate({"T"}), Phi({"T"}))
AxisymmetricHeatTime ==
  Term(Value({"T"}, AxisVelocity \union {"T"}),
       OwnValue({"T"}) \union Value({"T"}, AxisVelocity),
       Gradients({"T"}) \union Phi(AxisVelocity))
AxisymmetricHeatMassForgotten == NoTerm
AxisymmetricHeatMass == Term(OwnRate({"T"}), OwnRate({"T"}), Phi({"T"}))
HeatStabTime(c) ==
  Term(Value({"T"}, Velocity(c) \union {"T"}),
       OwnValue({"T"}) \union Value({"T"}, Velocity(c)),
       Hessians({"T"}) \union Phi(Velocity(c)))
\* The derivative of the rate of T has no factor.
HeatStabMass(c) ==
  Term(OwnRate({"T"}) \union Value({"T"}, Velocity(c)),
       Plain({"T"}, {"T"}) \union Value({"T"}, Velocity(c)),
       Hessians({"T"}) \union Phi(Velocity(c)))
HeatSPGSMTime(c) ==
  NoJacobianYet(Value({"T"}, Velocity(c) \union {"T"}),
                Hessians({"T"}) \union Phi(Velocity(c)))
\* No Jacobian, and no complaint.
HeatSPGSMMass(c) ==
  Term(OwnRate({"T"}) \union Value({"T"}, Velocity(c)), {},
       Gradients({"T"}) \union Phi(Velocity(c)))

--------------------------------------------------------------------------
(* Low Mach number flow.  The thermodynamic pressure is an unknown when it *)
(* is computed.                                                            *)

LowMachCached(c) ==
  {"T", "grad T", "p", "p0"} \union Velocity(c)
    \union {"grad " \o v : v \in Velocity(c)}
LowMachContinuity(c) ==
  Term(Value({"p"}, Velocity(c) \union {"T"}),
       Plain({"p"}, Velocity(c)) \union Plain({"p"}, {"T"}),
       Gradients({"u", "T"}) \union Phi({"p"}))
LowMachMomentum(c) ==
  Term(Value(Velocity(c), Flow(c) \union {"T"} \union ThermoPressure(c)),
       Plain(Velocity(c), Velocity(c)) \union Plain(Velocity(c), {"p", "T"}),
       Gradients({"u"}) \union Phi({"p", "T"}))
LowMachEnergy(c) ==
  Term(Value({"T"}, Velocity(c) \union {"T"} \union ThermoPressure(c)),
       Plain({"T"}, Velocity(c)) \union Plain({"T"}, {"T"}),
       Gradients({"T"}) \union Phi({"u"}))
LowMachThermo(c) ==
  Term(Value(ThermoPressure(c), ThermoPressure(c) \union {"T"}), {},
       Gradients(Velocity(c)) \union Phi({"T"}))
Together(a, b) == Term(a.reads \union b.reads, a.jac \union b.jac,
                       a.shapes \union b.shapes)
LowMachTime(c) ==
  Cached(Together(Together(LowMachContinuity(c), LowMachMomentum(c)),
                  Together(LowMachEnergy(c),
                           IF c.p0 THEN LowMachThermo(c) ELSE NoTerm)),
         LowMachCached(c))

\* None of the mass residuals fills a Jacobian.
ContinuityMass == Term(Rate({"p"}, {"T"}) \union Value({"p"}, {"T"}), {},
                       Phi({"p", "T"}))
MomentumMass(c) ==
  Term(OwnRate(Velocity(c))
         \union Value(Velocity(c), {"T"} \union ThermoPressure(c)), {},
       Phi(Velocity(c) \union {"T"}))
EnergyMass(c) ==
  Term(OwnRate({"T"}) \union Value({"T"}, {"T"} \union ThermoPressure(c)), {},
       Phi({"T"}))
ThermoMass(c) ==
  Term(Rate({"p0", "T", "p"}, {"p0"}) \union Value({"p0"}, {"T"})
         \union Value({"p"}, {"p0"}), {}, Phi({"p", "T"}))
LowMachMass(c) ==
  Together(Together(ContinuityMass, MomentumMass(c)),
           Together(EnergyMass(c), IF c.p0 THEN ThermoMass(c) ELSE NoTerm))

\* The stabilizations fill no Jacobian.  What they weight is the steady
\* residual, and a transient one that reads the values of the solution.
LowMachData(c) == Hessians(Velocity(c) \union {"T"}) \union Gradients({"p"})
LowMachUnknowns(c) == Velocity(c) \union {"T"} \union ThermoPressure(c)
LowMachStabRows(c, energyReads) ==
  Value(Flow(c), LowMachUnknowns(c) \union {"p"})
    \union Value({"T"}, LowMachUnknowns(c) \union energyReads)
BraackTime(c) == Term(LowMachStabRows(c, {}), {}, LowMachData(c))
LowMachSPGSMTime(c) == Term(LowMachStabRows(c, {}), {}, LowMachData(c))
VMSTime(c) == Term(LowMachStabRows(c, {"p"}), {}, LowMachData(c))
TransientVia == "value"
LowMachTransient(c) ==
  (Flow(c) \union {"T"}) \X LowMachUnknowns(c) \X {TransientVia}
BraackMass(c) == Term(LowMachTransient(c), {}, LowMachData(c))
LowMachSPGSMMass(c) == Term(LowMachTransient(c), {}, LowMachData(c))
\* The multiscale terms weight with the steady momentum residual too.
VMSMass(c) ==
  Term(LowMachTransient(c) \union Value(Velocity(c) \union {"T"}, {"p"}), {},
       LowMachData(c))

ReactingCachedNoSource(c) ==
  LowMachCached(c) \union {"Y", "grad Y", "M", "R", "rho", "mu", "cp", "k", "h", "D"}
ReactingCached(c) ==
  LowMachCached(c) \union
  {"Y", "grad Y", "M", "R", "rho", "mu", "cp", "k", "h", "D", "omega"}
ReactingGets(c) ==
  ({"T", "grad T", "p"} \union Velocity(c)
     \union {"grad " \o v : v \in Velocity(c)})
  \union {"grad Y", "M", "rho", "mu", "cp", "k", "h", "D", "omega"}
ReactingUnknowns(c) == LowMachUnknowns(c) \union Species
ReactingTime(c) ==
  Cached(NoJacobianYet(Value(Flow(c) \union {"T"} \union Species,
                             ReactingUnknowns(c) \union {"p"}),
                       Gradients({"w_N2", "u", "T"}) \union Phi({"p"})),
         ReactingGets(c))

--------------------------------------------------------------------------
(* Structures and scalars.  Cables and membranes move in three dimensions. *)

CableTime ==
  Term(Value(Displacement, Displacement), Plain(Displacement, Displacement),
       Gradients({"u"}))
\* A compressible membrane stretches by an unknown of its own, which the
\* Jacobian of the forces leaves out.
MembraneTime(c) ==
  Term(Value(Displacement, Displacement \union Stretch(c)),
       Plain(Displacement, Displacement),
       Gradients({"u"}) \union Phi(Stretch(c)))
MembraneConstraint(c) ==
  IF c.compressible
  THEN NoJacobianYet(Value({"lambda_sq"}, Displacement \union {"lambda_sq"}),
                     Gradients({"u"}) \union Phi({"lambda_sq"}))
  ELSE NoTerm
SolidMass == NotImplemented
GravityTime == Term({}, {}, Phi({"u"}))
\* The force on a component depends on the other two.
Across(vars) == {e \in vars \X vars : e[1] # e[2]}
PressureTime ==
  Term({<<e[1], e[2], "value">> : e \in Across(Displacement)},
       {<<e[1], e[2], "one">> : e \in Across(Displacement)},
       Gradients({"u"}))

ScalarTime == Term(OwnValue({"scalar_var"}), OwnValue({"scalar_var"}), {})
ScalarMass == Term(OwnRate({"scalar_var"}), OwnRate({"scalar_var"}), {})
ScalarConstraint == Term(OwnValue({"scalar_var"}), OwnValue({"scalar_var"}), {})

--------------------------------------------------------------------------
(* The classes, in the order of the map of the multiphysics system.        *)

PhysicsOrder ==
  <<"AveragedFan", "AveragedFanAdjointStabilization", "AveragedTurbine",
    "AxisymmetricBoussinesqBuoyancy", "AxisymmetricHeatTransfer",
    "BoussinesqBuoyancy", "BoussinesqBuoyancyAdjointStabilization",
    "BoussinesqBuoyancySPGSMStabilization", "ElasticCable",
    "ElasticCableConstantGravity", "ElasticMembrane",
    "ElasticMembraneConstantPressure", "HeatConduction", "HeatTransfer",
    "HeatTransferAdjointStabilization", "HeatTransferSPGSMStabilization",
    "HeatTransferSource", "IncompressibleNavierStokes",
    "IncompressibleNavierStokesAdjointStabilization",
    "IncompressibleNavierStokesSPGSMStabilization", "LowMachNavierStokes",
    "LowMachNavierStokesBraackStabilization",
    "LowMachNavierStokesSPGSMStabilization",
    "LowMachNavierStokesVMSStabilization", "ReactingLowMachNavierStokes",
    "ScalarODE", "Stokes", "VelocityDrag",
    "VelocityDragAdjointStabilization", "VelocityPenalty",
    "VelocityPenaltyAdjointStabilization">>
ListOf(enabled) == SelectSeq(PhysicsOrder, LAMBDA p : p \in enabled)

\* A class: the variables it adds and marches, what it prerequests, and its
\* residual functions.
Class(adds, evolves, requests, terms) ==
  [adds |-> adds, evolves |-> evolves, requests |-> requests, terms |-> terms]

NavierStokesClass(c) ==
  Class(FlowVars(c, "IncompressibleNavierStokes"), FlowEvolves(c), FlowRequests,
        [element_time_derivative |-> NavierStokesTime(c),
         element_constraint |-> NavierStokesConstraint(c),
         side_constraint |-> Pinning, mass_residual |-> NavierStokesMass(c)])
StokesClass(c) ==
  Class(FlowVars(c, "Stokes"), FlowEvolves(c), FlowRequests,
        [element_time_derivative |-> StokesTime(c),
         element_constraint |-> StokesConstraint(c),
         mass_residual |-> StokesMass(c)])
\* The other classes of incompressible flow take the section of Navier-Stokes.
FlowClass(c, requests, terms) ==
  Class(FlowVars(c, "IncompressibleNavierStokes"), FlowEvolves(c), requests,
        terms)
AdjointStabClass(c) ==
  FlowClass(c, FlowStabRequests,
            [element_time_derivative |-> AdjointStabTime(c),
             element_constraint |-> AdjointStabConstraint(c),
             mass_residual |-> AdjointStabMass(c)])
SPGSMStabClass(c) ==
  FlowClass(c, FlowStabRequests,
            [element_time_derivative |-> SPGSMStabTime(c),
             element_constraint |-> SPGSMStabConstraint(c),
             mass_residual |-> SPGSMStabMass(c)])
ForceClass(c, term) ==
  FlowClass(c, ForceRequests, [element_time_derivative |-> term])
ForceStabClass(c, term, constraint) ==
  FlowClass(c, ForceStabRequests, [element_time_derivative |-> term,
                                   element_constraint |-> constraint])
TurbineClass(c) ==
  Class(TurbineVars(c), TurbineEvolves(c), ForceRequests,
        [element_time_derivative |-> TurbineTime(c),
         nonlocal_time_derivative |-> TurbineSpeedTime,
         nonlocal_mass_residual |-> TurbineSpeedMass])
\* Buoyancy adds the variables it couples and marches none.
BuoyancyClass(c, requests, terms) ==
  Class(HeatTransferVars(c), {}, requests, terms)
HeatClass(c, requests, terms) ==
  Class(HeatTransferVars(c), TempEvolves, requests, terms)
LowMachClass(c, requests, terms) ==
  Class(LowMachVars(c), LowMachEvolves(c), requests, terms)
LowMachStabClass(c, time, mass) ==
  LowMachClass(c, LowMachStabRequests,
               [element_time_derivative |-> time, mass_residual |-> mass])
ReactingClass(c) ==
  Class(ReactingVars(c), ReactingEvolves(c), ReactingRequests,
        [element_time_derivative |-> ReactingTime(c),
         side_constraint |-> Pinning, mass_residual |-> NotImplemented])
SolidClass(vars, requests, terms) == Class(vars, SolidEvolves, requests, terms)

ClassOf(c, p) ==
  CASE p = "AveragedFan" -> ForceClass(c, FanTime(c))
    [] p = "AveragedFanAdjointStabilization" ->
         ForceStabClass(c, FanStabTime(c), FanStabConstraint(c))
    [] p = "AveragedTurbine" -> TurbineClass(c)
    [] p = "AxisymmetricBoussinesqBuoyancy" ->
         Class(AxisymmetricVars(c), {}, {},
               [element_time_derivative |-> AxisymmetricBuoyancyTime])
    [] p = "AxisymmetricHeatTransfer" ->
         Class(AxisymmetricVars(c), AxisymmetricEvolves, AxisymmetricRequests,
               [element_time_derivative |-> AxisymmetricHeatTime,
                mass_residual |-> AxisymmetricHeatMass])
    [] p = "BoussinesqBuoyancy" ->
         BuoyancyClass(c, {}, [element_time_derivative |-> BuoyancyTime(c)])
    [] p = "BoussinesqBuoyancyAdjointStabilization" ->
         BuoyancyClass(c, BuoyancyStabRequests,
                       [element_time_derivative |-> BuoyancyStabTime(c),
                        element_constraint |-> BuoyancyStabConstraint(c)])
    [] p = "BoussinesqBuoyancySPGSMStabilization" ->
         BuoyancyClass(c, {},
                       [element_time_derivative |-> BuoyancySPGSMTime(c),
                        element_constraint |-> BuoyancySPGSMConstraint(c)])
    [] p = "ElasticCable" ->
         SolidClass(DisplacementVars(c, "ElasticCable"), CableRequests,
                    [element_time_derivative |-> CableTime,
                     mass_residual |-> SolidMass])
    [] p = "ElasticCableConstantGravity" ->
         SolidClass(DisplacementVars(c, "ElasticCableConstantGravity"),
                    CableRequests, [element_time_derivative |-> GravityTime])
    [] p = "ElasticMembrane" ->
         SolidClass(MembraneVars(c), MembraneRequests,
                    [element_time_derivative |-> MembraneTime(c),
                     element_constraint |-> MembraneConstraint(c),
                     mass_residual |-> SolidMass])
    [] p = "ElasticMembraneConstantPressure" ->
         SolidClass(DisplacementVars(c, "ElasticMembraneConstantPressure"),
                    MembraneRequests,
                    [element_time_derivative |-> PressureTime])
    [] p = "HeatConduction" ->
         Class(TempVar(c, "HeatConduction"), TempEvolves, ConductionRequests,
               [element_time_derivative |-> ConductionTime,
                mass_residual |-> ConductionMass])
    [] p = "HeatTransfer" ->
         HeatClass(c, TempRequests,
                   [element_time_derivative |-> HeatTransferTime(c),
                    mass_residual |-> HeatTransferMass])
    [] p = "HeatTransferAdjointStabilization" ->
         HeatClass(c, TempStabRequests,
                   [element_time_derivative |-> HeatStabTime(c),
                    mass_residual |-> HeatStabMass(c)])
    [] p = "HeatTransferSPGSMStabilization" ->
         HeatClass(c, TempStabRequests,
                   [element_time_derivative |-> HeatSPGSMTime(c),
                    mass_residual |-> HeatSPGSMMass(c)])
    [] p = "HeatTransferSource" ->
         Class(TempVar(c, "HeatTransfer"), {}, {},
               [element_time_derivative |-> SourceTime])
    [] p = "IncompressibleNavierStokes" -> NavierStokesClass(c)
    [] p = "IncompressibleNavierStokesAdjointStabilization" ->
         AdjointStabClass(c)
    [] p = "IncompressibleNavierStokesSPGSMStabilization" -> SPGSMStabClass(c)
    [] p = "LowMachNavierStokes" ->
         LowMachClass(c, LowMachRequests,
                      [element_time_derivative |-> LowMachTime(c),
                       side_constraint |-> Pinning,
                       mass_residual |-> LowMachMass(c)])
    [] p = "LowMachNavierStokesBraackStabilization" ->
         LowMachStabClass(c, BraackTime(c), BraackMass(c))
    [] p = "LowMachNavierStokesSPGSMStabilization" ->
         LowMachStabClass(c, LowMachSPGSMTime(c), LowMachSPGSMMass(c))
    [] p = "LowMachNavierStokesVMSStabilization" ->
         LowMachStabClass(c, VMSTime(c), VMSMass(c))
    [] p = "ReactingLowMachNavierStokes" -> ReactingClass(c)
    [] p = "ScalarODE" ->
         Class(ScalarVars, ScalarEvolves, {},
               [nonlocal_time_derivative |-> ScalarTime,
                nonlocal_mass_residual |-> ScalarMass,
                nonlocal_constraint |-> ScalarConstraint])
    [] p = "Stokes" -> StokesClass(c)
    [] p = "VelocityDrag" -> ForceClass(c, DragTime(c))
    [] p = "VelocityDragAdjointStabilization" ->
         ForceStabClass(c, DragStabTime(c), DragStabConstraint(c))
    [] p = "VelocityPenalty" -> ForceClass(c, PenaltyTime(c))
    [] p = "VelocityPenaltyAdjointStabilization" ->
         ForceStabClass(c, PenaltyStabTime(c), PenaltyStabConstraint(c))

AddsOf(c, p) == ClassOf(c, p).adds
EvolvesOf(c, p) == ClassOf(c, p).evolves
RequestsOf(c, p) == ClassOf(c, p).requests
\* A class without the function inherits the empty one of Physics.
TermOf(c, p, h) ==
  LET terms == ClassOf(c, p).terms
  IN IF h \in DOMAIN terms THEN terms[h] ELSE NoTerm
CachesOf(c, p, h) ==
  IF h # "element_time_derivative" THEN {}
  ELSE CASE p = "LowMachNavierStokes" -> LowMachCached(c)
         [] p = "ReactingLowMachNavierStokes" -> ReactingCached(c)
         [] OTHER -> {}
=============================================================================
