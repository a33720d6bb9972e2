------------------------- MODULE MCBoundaryConditions -----------------------
(***************************************************************************)
(* Inputs for the boundary conditions: the flow, heat, low Mach, reacting  *)
(* and structural physics with each of their types, in two and three       *)
(* dimensions; axisymmetric flows with the orders of the physics in which  *)
(* the weights agree; inputs with each of the errors the handlers find.    *)
(***************************************************************************)
EXTENDS BoundaryConditions

MCIds == 0..4
None0 == [p \in Physics |-> <<>>]

\* An entry with the options its type needs, in the list it is usually in.
E(id, type) ==
  [list |-> CASE type \in TempTypes \union {"adiabatic"} -> 2
              [] type \in SpeciesTypes \union WallTypes \union
                   {"general_species", "zero_species_flux"} -> 3
              [] OTHER -> 1,
   id |-> id, type |-> type, wrong |-> FALSE,
   var |-> IF type \in {"constant_dirichlet", "parsed_dirichlet",
                        "parsed_fem_dirichlet"} THEN "T" ELSE "u",
   fix |-> "v",
   comps |-> CASE type = "parabolic_profile" -> 6
               [] type \in SpeciesTypes -> NSpecies
               [] OTHER -> 3,
   pair |-> <<>>, offset |-> 3, listed |-> TRUE,
   reactions |-> IF type \in WallTypes
                 THEN <<[reactant |-> "s1", product |-> "s2"]>> ELSE <<>>]
In(list, e) == [e EXCEPT !.list = list]
Pair(id, other) == [E(id, "periodic") EXCEPT !.pair = <<other, id>>]

Input(order, entries, dim) ==
  [physics |-> order, dim |-> dim, flag |-> FALSE,
   entries |-> [p \in Physics |->
                  IF p \in DOMAIN entries THEN entries[p] ELSE <<>>],
   unequal |-> {}, user |-> None0,
   functions |-> [p \in Physics |-> {}],
   sides |-> {{0}, {1}, {2}, {0, 1}, {2, 3, 4}}, analytic |-> FALSE]
With(r, p, conditions) == [r EXCEPT !.user[p] = conditions]
WithFlux(r, p, id) ==
  [r EXCEPT !.functions[p] = {[id |-> id, vars |-> {"T"}]}]

INS == "IncompressibleNavierStokes"
HT == "HeatTransfer"
AHT == "AxisymmetricHeatTransfer"
LM == "LowMachNavierStokes"
RLM == "ReactingLowMachNavierStokes"

\* Thermally driven flow, with and without axisymmetry.
FlowEntries == <<E(3, "no_slip"), E(1, "prescribed_vel"),
                 E(0, "parabolic_profile"), E(2, "general_velocity")>>
HeatEntries == <<E(1, "prescribed_heat_flux"), E(0, "general_heat_flux"),
                 E(2, "adiabatic_wall"), E(3, "isothermal_wall"),
                 E(4, "constant_dirichlet")>>
AxisFlow == <<E(2, "no_slip"), E(1, "axisymmetric")>>
Cond(id, name) == [ids |-> {id}, vars |-> {name}, value |-> Func]
Thermal(order, flow, heat, dim) ==
  WithFlux(With(Input(order, [IncompressibleNavierStokes |-> flow,
                              HeatTransfer |-> heat], dim),
                INS, <<Cond(2, "u")>>), HT, 0)

FlowRuns ==
  {Thermal(order, FlowEntries, HeatEntries, dim) :
     order \in {<<INS, HT>>, <<HT, INS>>}, dim \in {2, 3}}
    \union {Thermal(<<INS, HT>>, AxisFlow, HeatEntries, 2),
            Input(<<AHT, INS>>,
                  [IncompressibleNavierStokes |-> AxisFlow,
                   AxisymmetricHeatTransfer |->
                     <<E(1, "axisymmetric"), E(2, "prescribed_heat_flux"),
                       E(3, "isothermal_wall")>>], 2),
            [Input(<<INS>>, [IncompressibleNavierStokes |->
                               <<E(4, "no_slip"), E(2, "prescribed_vel")>>], 2)
               EXCEPT !.flag = TRUE],
            Input(<<INS, "Stokes">>,
                  [Stokes |-> <<E(0, "no_slip"), Pair(1, 3), E(3, "periodic")>>],
                  2)}

\* Low Mach flows; the reacting one with its walls.
LowMachEntries == <<E(3, "no_slip"), E(2, "zero_x_velocity"),
                    E(1, "zero_y_velocity"), E(0, "general_velocity"),
                    E(4, "axisymmetric"), E(1, "isothermal"),
                    E(3, "general_isothermal"), In(2, E(2, "constant_dirichlet"))>>
ReactingEntries == <<E(3, "no_slip"), E(1, "prescribed_vel"),
                     E(1, "isothermal"), E(2, "general_isothermal"),
                     E(3, "adiabatic"), E(1, "prescribed_species"),
                     E(0, "prescribed_mole_fracs"),
                     E(3, "gas_recombination_catalytic_wall"),
                     E(2, "gas_solid_catalytic_wall")>>
Reacting(order, entries) ==
  Input(order, [ReactingLowMachNavierStokes |-> entries], 2)

LowMachRuns ==
  {Input(<<LM>>, [LowMachNavierStokes |-> LowMachEntries], dim) : dim \in {2, 3}}
    \union {Reacting(<<RLM>>, ReactingEntries),
            Reacting(<<RLM>>, ReactingEntries \o <<In(3, E(4, "axisymmetric"))>>),
            Reacting(<<RLM>>, ReactingEntries \o <<E(0, "zero_species_flux")>>),
            [Reacting(<<RLM>>, ReactingEntries) EXCEPT !.analytic = TRUE]}

\* Structures, the conditions of symmetry and the traction of the cable.
SolidEntries == <<E(4, "pinned"), E(2, "constant_displacement"),
                  E(1, "roller_x"), E(3, "roller_y"), E(0, "yz_symmetry")>>
SolidRuns ==
  {Input(<<"ElasticMembrane", "ElasticCable">>,
         [ElasticMembrane |-> SolidEntries,
          ElasticCable |-> <<E(1, "xz_symmetry"), E(3, "roller_z"),
                             E(2, "constant_traction"), E(4, "xy_symmetry")>>],
         dim) : dim \in {2, 3}}

\* What the handlers refuse: in the lists the base class reads of a reacting
\* flow also the types of the species.
OneEntry(p, e) == Input(<<p>>, [q \in {p} |-> <<E(3, "periodic"), e>>], 2)
Refused ==
  {OneEntry(INS, e) :
     e \in {In(1, E(1, "isothermal")), [E(1, "prescribed_vel") EXCEPT !.comps = 2],
            [E(1, "parabolic_profile") EXCEPT !.comps = 5],
            [E(1, "parabolic_profile") EXCEPT !.fix = Missing],
            Pair(1, 3), [Pair(1, 3) EXCEPT !.offset = 0],
            [Pair(1, 3) EXCEPT !.pair = <<0, 2>>],
            [Pair(1, 3) EXCEPT !.pair = <<NoId, 1>>],
            E(1, "periodic")}}
    \union {OneEntry(HT, E(1, "axisymmetric")), OneEntry(HT, E(1, "unknown")),
            OneEntry("ElasticCable",
                     [E(1, "constant_traction") EXCEPT !.comps = 2]),
            OneEntry("ElasticCable",
                     [E(1, "constant_displacement") EXCEPT !.comps = 0]),
            OneEntry(RLM, [E(1, "prescribed_species") EXCEPT !.comps = 1]),
            OneEntry(RLM, [E(1, "gas_solid_catalytic_wall")
                             EXCEPT !.listed = FALSE]),
            OneEntry(LM, [E(1, "parabolic_profile") EXCEPT !.fix = Missing]),
            Input(<<LM>>, [q \in {LM} |->
                     <<[E(1, "parabolic_profile") EXCEPT !.fix = Missing]>>], 2),
            Input(<<"ElasticCable">>, [q \in {"ElasticCable"} |->
                     <<[E(1, "constant_displacement") EXCEPT !.comps = 0]>>], 3),
            Input(<<HT>>, [q \in {HT} |-> <<E(1, "general_heat_flux")>>], 2),
            [Input(<<INS>>, [q \in {INS} |-> <<E(1, "no_slip")>>], 2)
               EXCEPT !.unequal = {<<INS, 1>>}]}
    \union {OneEntry(RLM, In(list, E(1, type))) :
              list \in {1, 2}, type \in {"prescribed_species", "general_species"}}
    \union {OneEntry(RLM, [E(1, type) EXCEPT !.wrong = TRUE]) :
              type \in SpeciesTypes \union WallTypes}
    \union {[Reacting(<<RLM>>, ReactingEntries) EXCEPT !.unequal = {<<RLM, l>>}] :
              l \in Lists}

\* Every pair of entries a physics accepts, on two boundaries; and an entry of
\* the flow with one of the heat equation, in either order.
EntriesFor(p) ==
  {E(id, type) : id \in {0, 1}, type \in Accepted(HandlerOf[p])}
    \union (IF HandlerOf[p] = "AxisymHeat" THEN {} ELSE {Pair(0, 1)})
Small(r) == WithFlux([r EXCEPT !.sides = {{0}, {0, 1}}],
                     r.physics[Len(r.physics)], 0)
InOrder(p) == {ef \in EntriesFor(p) \X EntriesFor(p) : ef[1].list <= ef[2].list}
Alone == UNION {{Small(Input(<<p>>, [q \in {p} |-> ef], 2)) : ef \in InOrder(p)} :
                  p \in Physics \ {"Stokes", "ElasticMembrane"}}
Coupled == {[Small(Input(order, [IncompressibleNavierStokes |-> <<e>>,
                                 HeatTransfer |-> <<f>>], 2))
               EXCEPT !.flag = flag] :
              order \in {<<INS, HT>>, <<HT, INS>>}, e \in EntriesFor(INS),
              f \in EntriesFor(HT), flag \in BOOLEAN}
Regular(r) == /\ OneFluxPerId(r) /\ FluxesArePassedOn(r) /\ AxisIsKnown(r)
              /\ DisplacementsAreComplete(r) /\ PeriodicAreEven(r)

Runs == FlowRuns \union LowMachRuns \union SolidRuns \union Refused
          \union {r \in Alone \union Coupled : Regular(r)}

\* The heat equation before the flow that has the axis.
AxisLast == {Thermal(<<HT, INS>>, AxisFlow, HeatEntries, 2)}
=============================================================================
