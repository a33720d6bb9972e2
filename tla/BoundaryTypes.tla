--------------------------- MODULE BoundaryTypes ---------------------------
(***************************************************************************)
(* The boundary condition types the handlers of the physics know: which    *)
(* list of the handler each goes to, what it imposes on the degrees of     *)
(* freedom or adds to the residual, and, apart from that, what a user who  *)
(* asks for the type is promised.                                          *)
(***************************************************************************)
EXTENDS Integers, Sequences, FiniteSets

\* The physics with a handler, in the order of PhysicsList, a map by name.
Order == <<"AxisymmetricHeatTransfer", "ElasticCable", "ElasticMembrane",
           "HeatConduction", "HeatTransfer", "IncompressibleNavierStokes",
           "LowMachNavierStokes", "ReactingLowMachNavierStokes", "Stokes">>
Physics == {Order[i] : i \in DOMAIN Order}
Before(p, q) == \E i, j \in DOMAIN Order : i < j /\ Order[i] = p /\ Order[j] = q

\* The handler each of them creates.
HandlerOf ==
  [AxisymmetricHeatTransfer |-> "AxisymHeat", ElasticCable |-> "Solid",
   ElasticMembrane |-> "Solid", HeatConduction |-> "Heat",
   HeatTransfer |-> "Heat", IncompressibleNavierStokes |-> "Flow",
   LowMachNavierStokes |-> "LowMach",
   ReactingLowMachNavierStokes |-> "Reacting", Stokes |-> "Flow"]

\* Variables: velocities, displacements, the temperature and the mass
\* fractions of two species.
Velocity(dim) == IF dim = 3 THEN {"u", "v", "w"} ELSE {"u", "v"}
Displacement == {"d1", "d2", "d3"}
Species == {"s1", "s2"}
NSpecies == 2
Variables == Velocity(3) \union Displacement \union Species \union {"T"}
VariablesOf(p, dim) ==
  CASE HandlerOf[p] = "Solid" -> Displacement
    [] HandlerOf[p] = "Flow" -> Velocity(dim)
    [] HandlerOf[p] \in {"Heat", "AxisymHeat"} -> {"T"}
    [] HandlerOf[p] = "LowMach" -> Velocity(dim) \union {"T"}
    [] HandlerOf[p] = "Reacting" -> Velocity(dim) \union {"T"} \union Species

\* The name of a variable the input leaves out.
Missing == "DIE!"

\* What init_bc_types does with a type: the types of the base class, and per
\* handler those kept for the Dirichlet conditions and those kept for the
\* side integrals.  The low Mach handlers keep the temperature's and the
\* species' Dirichlet conditions in lists of their own.
FunctionTypes == {"constant_dirichlet", "parsed_dirichlet", "parsed_fem_dirichlet"}
BaseTypes == {"periodic", "axisymmetric"} \union FunctionTypes
FlowTypes == {"no_slip", "prescribed_vel", "parabolic_profile",
              "general_velocity", "axisymmetric"}
LowMachTypes == FlowTypes \union {"zero_x_velocity", "zero_y_velocity"}
SolidTypes == {"pinned", "constant_displacement", "roller_x", "roller_y",
               "roller_z", "yz_symmetry", "xz_symmetry", "xy_symmetry"}
TempTypes == {"isothermal", "general_isothermal"}
SpeciesTypes == {"prescribed_species", "prescribed_mole_fracs"}
DirichletTypes ==
  [Flow |-> FlowTypes, Heat |-> {"isothermal_wall"},
   AxisymHeat |-> {"isothermal_wall"}, LowMach |-> LowMachTypes,
   Reacting |-> LowMachTypes \union {"general_species"}, Solid |-> SolidTypes]

HeatFluxTypes == {"prescribed_heat_flux", "general_heat_flux"}
WallTypes == {"gas_recombination_catalytic_wall", "gas_solid_catalytic_wall"}
NeumannTypes ==
  [Flow |-> {}, Heat |-> HeatFluxTypes \union {"adiabatic_wall"},
   AxisymHeat |-> HeatFluxTypes \union {"adiabatic_wall", "axisymmetric"},
   LowMach |-> HeatFluxTypes \union {"adiabatic"},
   Reacting |-> HeatFluxTypes \union {"adiabatic", "zero_species_flux"}
                  \union WallTypes,
   Solid |-> {"constant_traction"}]

\* string_to_int: the names a handler accepts, and the ones that init_bc_types
\* then has no case for.
Handlers == DOMAIN DirichletTypes
LowMachOnly(h) == IF h \in {"LowMach", "Reacting"} THEN TempTypes ELSE {}
ReactingOnly(h) == IF h = "Reacting" THEN SpeciesTypes ELSE {}
Accepted(h) == DirichletTypes[h] \union NeumannTypes[h] \union LowMachOnly(h)
                 \union ReactingOnly(h)
                 \union (IF h = "AxisymHeat" THEN {} ELSE BaseTypes)
Handled(h) == IF h \in {"Heat", "Solid"} THEN Accepted(h) \ {"axisymmetric"}
              ELSE Accepted(h)
Types == UNION {Accepted(h) : h \in Handlers}

\* Values: the component of the input's option for this boundary, or zero, or
\* a function.
Zero == -1
Func == -2
Components == 0..2
Values == Components \union {Zero, Func}

\* user_init_dirichlet_bcs: the conditions of a type, in the order they are
\* added to the DofMap.  Function conditions come from elsewhere.
On(names, value) == [vars |-> names, value |-> value]
Imposes(dim) ==
  [no_slip |-> <<On(Velocity(dim), Zero)>>,
   zero_x_velocity |-> <<On({"u"}, Zero)>>,
   zero_y_velocity |-> <<On({"v"}, Zero)>>,
   prescribed_vel |-> <<On({"u"}, 0), On({"v"}, 1)>>
                        \o (IF dim = 3 THEN <<On({"w"}, 2)>> ELSE <<>>),
   parabolic_profile |-> <<>>,
   general_velocity |-> <<>>,
   axisymmetric |-> <<On({"u"}, Zero)>>,
   isothermal_wall |-> <<On({"T"}, 0)>>,
   isothermal |-> <<On({"T"}, 0)>>,
   general_isothermal |-> <<>>,
   prescribed_species |-> <<On({"s1"}, 0), On({"s2"}, 1)>>,
   prescribed_mole_fracs |-> <<On({"s1"}, 0), On({"s2"}, 1)>>,
   general_species |-> <<>>,
   pinned |-> <<On({"d1", "d2", "d3"}, Zero)>>,
   constant_displacement |-> <<On({"d1"}, 0), On({"d2"}, 1), On({"d3"}, 2)>>,
   roller_x |-> <<On({"d2", "d3"}, Zero)>>,
   roller_y |-> <<On({"d1", "d3"}, Zero)>>,
   roller_z |-> <<On({"d1", "d2"}, Zero)>>,
   yz_symmetry |-> <<On({"d1"}, Zero)>>,
   xz_symmetry |-> <<On({"d2"}, Zero)>>,
   xy_symmetry |-> <<On({"d3"}, Zero)>>]

\* user_apply_neumann_bcs: the variables whose residual gets a flux, and which
\* component of the option, or the function, it is.
HeatFluxes == [prescribed_heat_flux |-> {On({"T"}, 0)},
               general_heat_flux |-> {On({"T"}, Func)},
               adiabatic_wall |-> {}, axisymmetric |-> {}]
Tractions ==
  [constant_traction |-> {On({"d1"}, 0), On({"d2"}, 1), On({"d3"}, 2)}]

(***************************************************************************)
(* What the types promise: the group of variables a type is about, those it *)
(* leaves free (or to a function given apart), and the value of the others. *)
(***************************************************************************)
InDirection == [x |-> "d1", y |-> "d2", z |-> "d3"]
Component == [u |-> 0, v |-> 1, w |-> 2, T |-> 0, s1 |-> 0, s2 |-> 1,
              d1 |-> 0, d2 |-> 1, d3 |-> 2]

About(type, dim) ==
  CASE type \in LowMachTypes -> Velocity(dim)
    [] type \in SolidTypes \union {"constant_traction"} -> Displacement
    [] type \in SpeciesTypes \union {"general_species"} -> Species
    [] type \in TempTypes \union HeatFluxTypes \union {"isothermal_wall"} -> {"T"}
    [] OTHER -> {}

\* "Roller is free to move in the x-direction", "Symmetric about YZ-plane so
\* pin x-direction".
Free(type, dim) ==
  CASE type = "roller_x" -> {InDirection.x}
    [] type = "roller_y" -> {InDirection.y}
    [] type = "roller_z" -> {InDirection.z}
    [] type = "yz_symmetry" -> Displacement \ {InDirection.x}
    [] type = "xz_symmetry" -> Displacement \ {InDirection.y}
    [] type = "xy_symmetry" -> Displacement \ {InDirection.z}
    [] type \in {"zero_x_velocity", "axisymmetric"} -> Velocity(dim) \ {"u"}
    [] type = "zero_y_velocity" -> Velocity(dim) \ {"v"}
    [] type \in {"parabolic_profile", "general_velocity", "general_isothermal",
                 "general_species"} -> About(type, dim)
    [] OTHER -> {}

Given == {"prescribed_vel", "isothermal_wall", "isothermal",
          "prescribed_heat_flux", "constant_displacement", "constant_traction"}
           \union SpeciesTypes

\* <<variable, value>> for each variable a type determines.
Promised(type, dim) ==
  {<<x, CASE type \in Given -> Component[x]
          [] type = "general_heat_flux" -> Func
          [] OTHER -> Zero>> : x \in About(type, dim) \ Free(type, dim)}
=============================================================================
