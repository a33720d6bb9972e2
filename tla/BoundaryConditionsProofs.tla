----------------------- MODULE BoundaryConditionsProofs ---------------------
(***************************************************************************)
(* The boundary conditions, for every set of boundaries and every input:   *)
(* their types; the weight of fluxes and volume integrals, which agree if  *)
(* the axis is known when the physics with fluxes are constructed; the     *)
(* essential conditions and the fluxes, which are those the input asks     *)
(* for; their order, which is the input's; and the periodic boundaries,    *)
(* which are paired.                                                       *)
(***************************************************************************)
EXTENDS BoundaryConditions, TLAPS, FiniteSetTheorems

(***************************************************************************)
(* Types.                                                                  *)
(***************************************************************************)

\* The physics of the list, and their handlers, are those of the tables.
LEMMA Tables ==
  /\ HandlerOf \in [Physics -> Handlers]
  /\ DirichletTypes \in [Handlers -> SUBSET Types]
  /\ NeumannTypes \in [Handlers -> SUBSET Types]
  <1>1. Physics = {"AxisymmetricHeatTransfer", "ElasticCable",
                   "ElasticMembrane", "HeatConduction", "HeatTransfer",
                   "IncompressibleNavierStokes", "LowMachNavierStokes",
                   "ReactingLowMachNavierStokes", "Stokes"}
    BY DEF Physics, Order
  <1>2. Handlers = {"Flow", "Heat", "AxisymHeat", "LowMach", "Reacting",
                    "Solid"}
    BY DEF Handlers, DirichletTypes
  <1>3. HandlerOf \in [Physics -> Handlers]
    BY <1>1, <1>2 DEF HandlerOf
  <1>4. ASSUME NEW h \in Handlers
        PROVE  DirichletTypes[h] \subseteq Types /\ NeumannTypes[h] \subseteq Types
    BY DEF Types, Accepted
  <1>5. DOMAIN NeumannTypes = Handlers
    BY <1>2 DEF NeumannTypes
  <1>6. /\ DirichletTypes = [h \in Handlers |-> DirichletTypes[h]]
        /\ NeumannTypes = [h \in Handlers |-> NeumannTypes[h]]
    <2>1. DirichletTypes = [h \in Handlers |-> DirichletTypes[h]]
      BY DEF Handlers, DirichletTypes
    <2>2. NeumannTypes = [h \in Handlers |-> NeumannTypes[h]]
      BY <1>2 DEF NeumannTypes
    <2> QED
      BY <2>1, <2>2
  <1> QED
    BY <1>3, <1>4, <1>6

\* The types of the Dirichlet lists are those that impose something.
LEMMA ImposingTypes ==
  ASSUME NEW dim
  PROVE  /\ DOMAIN Imposes(dim) = DOMAIN Imposes(2)
         /\ TempTypes \union SpeciesTypes \subseteq DOMAIN Imposes(2)
         /\ \A h \in Handlers : DirichletTypes[h] \subseteq DOMAIN Imposes(2)
  <1>1. DOMAIN Imposes(dim) = DOMAIN Imposes(2)
    BY DEF Imposes
  <1>2. TempTypes \union SpeciesTypes \subseteq DOMAIN Imposes(2)
    BY DEF Imposes, TempTypes, SpeciesTypes
  <1>3. LowMachTypes \union SolidTypes \union {"isothermal_wall", "general_species"}
          \subseteq DOMAIN Imposes(2)
    BY DEF Imposes, LowMachTypes, FlowTypes, SolidTypes
  <1>4. \A h \in Handlers :
          DirichletTypes[h] \subseteq LowMachTypes \union SolidTypes
                                     \union {"isothermal_wall", "general_species"}
    BY DEF Handlers, DirichletTypes, LowMachTypes
  <1> QED
    BY <1>1, <1>2, <1>3, <1>4

\* Whoever reads a list, the handler itself knows the types it accepts.
LEMMA Reading ==
  ASSUME NEW h \in Handlers, NEW e, ~Refuses(h, e)
  PROVE  e.type \in Handled(h) /\ e.type \in Accepted(h)
  <1>1. e.type \in Handled(Reader(h, e.list))
    BY DEF Refuses
  <1>2. Handled("LowMach") \subseteq Handled("Reacting")
    BY DEF Handled, Accepted, DirichletTypes, NeumannTypes, LowMachOnly,
           ReactingOnly
  <1>3. e.type \in Handled(h)
    BY <1>1, <1>2 DEF Reader
  <1> QED
    BY <1>3 DEF Handled

\* Each type is of a list, and what a handler accepts is a type.
LEMMA Accepting ==
  ASSUME NEW h \in Handlers, NEW e \in Entry, ~Refuses(h, e)
  PROVE  e.type \in Types
  BY Reading DEF Types

LEMMA SlaveIsId ==
  ASSUME NEW h \in Handlers, NEW e \in Entry, ~Refuses(h, e), IsMaster(e)
  PROVE  Slave(e) \in Ids
  <1>1. ~WrongPair(e)
    BY DEF Refuses
  <1>2. e.pair \in Seq(Ids \union {NoId}) /\ Len(e.pair) = 2
    BY <1>1 DEF WrongPair, Entry
  <1>3. e.pair[1] \in Ids \union {NoId} /\ e.pair[2] \in Ids \union {NoId}
    BY <1>2
  <1>4. 1 \in DOMAIN e.pair /\ 2 \in DOMAIN e.pair
    BY <1>2
  <1>5. e.pair[1] # NoId /\ e.pair[2] # NoId
    BY <1>1, <1>4 DEF WrongPair
  <1> QED
    BY <1>3, <1>5 DEF Slave

LEMMA ObjectsType ==
  ASSUME NEW h \in Handlers, NEW e \in Entry
  PROVE  Objects(h, e) \in Seq(Condition)
  <1>1. Func \in Values /\ Zero \in Values
    BY DEF Values
  <1>2. \A name \in Variables \union {Missing}, value \in Values :
          Object(e, name, value) \in Condition
    BY DEF Object, Condition, Entry
  <1>3. e.var \in Variables \union {Missing} /\ e.fix \in Variables \union {Missing}
    BY DEF Entry
  <1>4. /\ Object(e, e.var, Func) \in Condition
        /\ Object(e, e.fix, Zero) \in Condition
    BY <1>1, <1>2, <1>3
  <1>5. /\ <<Object(e, e.var, Func)>> \in Seq(Condition)
        /\ <<Object(e, e.fix, Zero)>> \in Seq(Condition)
        /\ <<Object(e, e.var, Func), Object(e, e.fix, Zero)>> \in Seq(Condition)
        /\ <<>> \in Seq(Condition)
    BY <1>4
  <1> QED
    BY <1>5 DEF Objects

LEMMA StoresType ==
  ASSUME NEW e \in Entry
  PROVE  Stores(e) \subseteq [id: Ids, store: {"dirichlet", "T", "species"},
                              component: Nat]
  <1>1. StoreOf(e.type) \in {"dirichlet", "T", "species"}
    BY DEF StoreOf
  <1>2. e.comps \in Nat /\ e.id \in Ids
    BY DEF Entry
  <1>3. (CASE e.type \in {"isothermal_wall", "isothermal"} -> {0}
           [] e.type = "prescribed_vel" -> Components
           [] e.type \in SpeciesTypes -> {0, 1}
           [] e.type = "constant_displacement" -> 0..(e.comps - 1)
           [] OTHER -> {}) \subseteq Nat
    BY <1>2 DEF Components
  <1> QED
    BY <1>1, <1>2, <1>3 DEF Stores

\* An entry a handler accepts leaves it a handler.
LEMMA AfterEntryType ==
  ASSUME NEW h \in Handlers, NEW s \in HandlerStates, NEW e \in Entry,
         ~Refuses(h, e)
  PROVE  AfterEntry(h, s, e) \in HandlerStates
  <1>1. e.type \in Types /\ e.id \in Ids
    BY Accepting DEF Entry
  <1>2. /\ e.type \in DirichletTypes[h] => <<e.id, e.type>> \in IdTypes
        /\ e.type \in TempTypes => <<e.id, e.type>> \in IdTypes
        /\ e.type \in SpeciesTypes => <<e.id, e.type>> \in IdTypes
    BY <1>1, ImposingTypes DEF IdTypes
  <1>a. /\ s.dirichlet \in Seq(IdTypes) /\ s.temp \in Seq(IdTypes)
        /\ s.species \in Seq(IdTypes)
        /\ s.neumann \in [Ids -> Types \union {None}]
        /\ s.objects \in Seq(Condition) /\ s.counted \in Nat
        /\ s.pairs \in Seq(Ids \X Ids)
    BY DEF HandlerStates
  <1>3. /\ AddIf(e.type \in DirichletTypes[h], s.dirichlet, <<e.id, e.type>>)
             \in Seq(IdTypes)
        /\ AddIf(e.type \in TempTypes, s.temp, <<e.id, e.type>>) \in Seq(IdTypes)
        /\ AddIf(e.type \in SpeciesTypes, s.species, <<e.id, e.type>>)
             \in Seq(IdTypes)
    BY <1>a, <1>2 DEF AddIf, Listing
  <1>4. (IF e.type \in NeumannTypes[h] THEN [s.neumann EXCEPT ![e.id] = e.type]
         ELSE s.neumann) \in [Ids -> Types \union {None}]
    BY <1>a, <1>1
  <1>5. s.objects \o Objects(h, e) \in Seq(Condition)
    BY <1>a, ObjectsType
  <1>6. (IF e.type = "periodic" THEN s.counted + 1 ELSE s.counted) \in Nat
    BY <1>a
  <1>7. AddIf(IsMaster(e), s.pairs, <<e.id, Slave(e)>>) \in Seq(Ids \X Ids)
    BY <1>a, <1>1, SlaveIsId DEF AddIf, Listing
  <1>8. s.values \union Stores(e)
          \subseteq [id: Ids, store: {"dirichlet", "T", "species"},
                     component: Nat]
    BY StoresType DEF HandlerStates
  <1>9. (IF e.type \in WallTypes THEN s.walls \union Walls(e) ELSE s.walls)
          \subseteq [id: Ids, number: Nat,
                     on: [reactant: Species, product: Species]]
    <2> DEFINE R == [reactant: Species, product: Species]
    <2>a. e.reactions \in Seq(R)
      BY DEF Entry
    <2>b. \A q \in Seq(R) : \A r \in DOMAIN q : r \in Nat /\ q[r] \in R
      <3> HIDE DEF R
      <3> QED
        OBVIOUS
    <2>1. \A r \in DOMAIN e.reactions :
            r \in Nat /\ e.reactions[r] \in R
      BY <2>a, <2>b
    <2>2. Walls(e) \subseteq [id: Ids, number: Nat,
                              on: [reactant: Species, product: Species]]
      BY <2>1, <1>1 DEF Walls
    <2> QED
      BY <2>2 DEF HandlerStates
  <1> QED
    BY <1>3, <1>4, <1>5, <1>6, <1>7, <1>8, <1>9 DEF AfterEntry, HandlerStates

\* The entries of an input are entries, and its conditions conditions.
LEMMA InputTypes ==
  ASSUME TypeOK
  PROVE  /\ \A p \in Physics : \A i \in DOMAIN Entries(p) : Entries(p)[i] \in Entry
         /\ \A p \in Physics : request.user[p] \in Seq(Condition)
         /\ \A i \in 1..Len(request.physics) : request.physics[i] \in Physics
         /\ Len(request.physics) \in Nat
         /\ Listed \subseteq Physics
         /\ \A p \in Physics : Len(Entries(p)) \in Nat
  <1>1. /\ request.entries \in [Physics -> Seq(Entry)]
        /\ request.user \in [Physics -> Seq(Condition)]
        /\ request.physics \in Seq(Physics)
    BY DEF TypeOK, RequestType
  <1>2. \A p \in Physics : Entries(p) \in Seq(Entry)
    BY <1>1 DEF Entries
  <1>3. \A q \in Seq(Entry) : \A i \in DOMAIN q : q[i] \in Entry
    OBVIOUS
  <1>4. \A p \in Physics : \A i \in DOMAIN Entries(p) : Entries(p)[i] \in Entry
    BY <1>2, <1>3
  <1>5. \A p \in Physics : Len(Entries(p)) \in Nat
    BY <1>2
  <1> QED
    BY <1>1, <1>4, <1>5 DEF Listed

LEMMA TypeInit ==
  ASSUME Init
  PROVE  TypeOK
  <1>1. request \in RequestType
    BY RequestsAssumption DEF Init
  <1>2. Empty \in HandlerStates
    BY DEF Empty, HandlerStates
  <1>3. Len(request.physics) \in Nat /\ request.flag \in BOOLEAN
    BY <1>1 DEF RequestType
  <1>4. handler \in [Physics -> HandlerStates]
    BY <1>2 DEF Init
  <1>5. \A p \in Physics, i \in Ids :
          handler[p].neumann[i] \in NeumannTypes[HandlerOf[p]] \union {None}
    BY DEF Init, Empty
  <1>6. weighted \in [Physics -> BOOLEAN]
    BY <1>3, Zenon DEF Init
  <1>7. /\ types \in Seq(IdTypes) /\ objects \in Seq(Condition)
        /\ dofmap \in Seq(Condition)
    BY DEF Init
  <1>8. /\ pc \in {"construct", "init", "solve", "error", "undefined"}
        /\ built \in 0..Len(request.physics) /\ read \in Nat
        /\ waiting \subseteq Physics /\ current \in Physics \union {None}
        /\ periodic \subseteq Ids \X Ids /\ side \subseteq Ids
        /\ flux \subseteq FluxType
    BY <1>3 DEF Init
  <1>9. axisymmetric \in BOOLEAN
    BY Zenon DEF Init
  <1> QED
    BY <1>1, <1>4, <1>5, <1>6, <1>7, <1>8, <1>9, Zenon DEF TypeOK

LEMMA TypeReadEntry ==
  ASSUME TypeOK, ReadEntry
  PROVE  TypeOK'
  <1> DEFINE p == Constructing
             e == Entries(p)[read + 1]
  <1>1. p \in Physics
    BY InputTypes DEF ReadEntry, TypeOK, Constructing
  <1>2. e \in Entry
    <2>1. read + 1 \in DOMAIN Entries(p)
      <3>1. Entries(p) \in Seq(Entry)
        BY <1>1 DEF TypeOK, RequestType, Entries
      <3>2. DOMAIN Entries(p) = 1..Len(Entries(p))
        BY <3>1
      <3> QED
        BY <3>2, <3>1 DEF ReadEntry, TypeOK
    <2> QED
      BY <2>1, <1>1, InputTypes
  <1>3. HandlerOf[p] \in Handlers
    BY <1>1, Tables
  <1>4. CASE Refuses(HandlerOf[p], e)
    BY <1>4 DEF ReadEntry, TypeOK, Imposing, Assembly
  <1>5. CASE ~Refuses(HandlerOf[p], e)
    <2> HIDE DEF p, e
    <2>1. /\ handler' = [handler EXCEPT ![p] = AfterEntry(HandlerOf[p], handler[p], e)]
          /\ pc' = pc
          /\ read' = read + 1
      BY <1>5 DEF ReadEntry, p, e
    <2>2. AfterEntry(HandlerOf[p], handler[p], e) \in HandlerStates
      BY <1>1, <1>2, <1>3, <1>5, AfterEntryType DEF TypeOK
    <2>3. handler' \in [Physics -> HandlerStates]
      BY <2>1, <2>2, <1>1 DEF TypeOK
    <2>4. ASSUME NEW i \in Ids
          PROVE  AfterEntry(HandlerOf[p], handler[p], e).neumann[i]
                   \in NeumannTypes[HandlerOf[p]] \union {None}
      <3>1. handler[p].neumann \in [Ids -> Types \union {None}]
        BY <1>1 DEF TypeOK, HandlerStates
      <3>2. handler[p].neumann[i] \in NeumannTypes[HandlerOf[p]] \union {None}
        BY <1>1 DEF TypeOK
      <3>3. AfterEntry(HandlerOf[p], handler[p], e).neumann =
              IF e.type \in NeumannTypes[HandlerOf[p]]
              THEN [handler[p].neumann EXCEPT ![e.id] = e.type]
              ELSE handler[p].neumann
        <4>1. handler[p] \in HandlerStates
          BY <1>1 DEF TypeOK
        <4> QED
          BY <4>1 DEF AfterEntry, HandlerStates
      <3> QED
        BY <3>1, <3>2, <3>3
    <2>5. \A q \in Physics, i \in Ids :
            handler'[q].neumann[i] \in NeumannTypes[HandlerOf[q]] \union {None}
      BY <2>1, <2>4, <1>1 DEF TypeOK
    <2>6. UNCHANGED <<request, built, weighted, Imposing, Assembly>>
      BY DEF ReadEntry
    <2>7. axisymmetric' \in BOOLEAN
      BY DEF ReadEntry
    <2> QED
      BY <2>1, <2>3, <2>5, <2>6, <2>7 DEF TypeOK, Imposing, Assembly
  <1> QED
    BY <1>4, <1>5

\* What user_init_dirichlet_bcs adds are conditions.
LEMMA BoundariesType ==
  ASSUME TypeOK, NEW p \in Physics, NEW id \in Ids,
         NEW type \in DOMAIN Imposes(2)
  PROVE  Boundaries(p, id, type) \in Seq(Condition)
  <1> DEFINE On1 == [vars: SUBSET Variables, value: Values]
             dim == request.dim
  <1>1. \A x \in SUBSET Variables, v \in Values : On(x, v) \in On1
    BY DEF On
  <1>2. /\ Zero \in Values /\ 0 \in Values /\ 1 \in Values /\ 2 \in Values
    BY DEF Values, Components
  <1>3. /\ Velocity(dim) \subseteq Variables
        /\ \A x \in {"u", "v", "w", "T", "s1", "s2", "d1", "d2", "d3"} :
             x \in Variables
    BY DEF Variables, Velocity, Displacement, Species
  <1>4. Imposes(dim)[type] \in Seq(On1)
    <2> HIDE DEF On1, dim
    <2>1. ASSUME NEW x \in On1, NEW y \in On1, NEW z \in On1
          PROVE  /\ <<>> \in Seq(On1) /\ <<x>> \in Seq(On1)
                 /\ <<x, y>> \in Seq(On1) /\ <<x, y, z>> \in Seq(On1)
                 /\ <<x, y>> \o <<z>> \in Seq(On1)
                 /\ <<x, y>> \o <<>> \in Seq(On1)
      OBVIOUS
    <2>2. /\ On(Velocity(dim), Zero) \in On1
          /\ On({"u"}, Zero) \in On1 /\ On({"v"}, Zero) \in On1
          /\ On({"u"}, 0) \in On1 /\ On({"v"}, 1) \in On1 /\ On({"w"}, 2) \in On1
          /\ On({"T"}, 0) \in On1 /\ On({"s1"}, 0) \in On1 /\ On({"s2"}, 1) \in On1
      BY <1>1, <1>2, <1>3
    <2>3. /\ On({"d1", "d2", "d3"}, Zero) \in On1
          /\ On({"d1"}, 0) \in On1 /\ On({"d2"}, 1) \in On1 /\ On({"d3"}, 2) \in On1
          /\ On({"d2", "d3"}, Zero) \in On1 /\ On({"d1", "d3"}, Zero) \in On1
          /\ On({"d1", "d2"}, Zero) \in On1 /\ On({"d1"}, Zero) \in On1
          /\ On({"d2"}, Zero) \in On1 /\ On({"d3"}, Zero) \in On1
      BY <1>1, <1>2, <1>3
    <2>4. \A x, y, z \in On1 :
            /\ <<>> \in Seq(On1) /\ <<x>> \in Seq(On1)
            /\ <<x, y>> \in Seq(On1) /\ <<x, y, z>> \in Seq(On1)
            /\ <<x, y>> \o <<z>> \in Seq(On1)
            /\ <<x, y>> \o <<>> \in Seq(On1)
      BY <2>1
    <2>5. (<<On({"u"}, 0), On({"v"}, 1)>>
             \o (IF dim = 3 THEN <<On({"w"}, 2)>> ELSE <<>>)) \in Seq(On1)
      BY <2>2, <2>4
    <2>6. /\ Imposes(dim).no_slip \in Seq(On1)
          /\ Imposes(dim).zero_x_velocity \in Seq(On1)
          /\ Imposes(dim).zero_y_velocity \in Seq(On1)
          /\ Imposes(dim).prescribed_vel \in Seq(On1)
          /\ Imposes(dim).parabolic_profile \in Seq(On1)
          /\ Imposes(dim).general_velocity \in Seq(On1)
          /\ Imposes(dim).axisymmetric \in Seq(On1)
          /\ Imposes(dim).isothermal_wall \in Seq(On1)
          /\ Imposes(dim).isothermal \in Seq(On1)
          /\ Imposes(dim).general_isothermal \in Seq(On1)
          /\ Imposes(dim).prescribed_species \in Seq(On1)
          /\ Imposes(dim).prescribed_mole_fracs \in Seq(On1)
          /\ Imposes(dim).general_species \in Seq(On1)
          /\ Imposes(dim).pinned \in Seq(On1)
          /\ Imposes(dim).constant_displacement \in Seq(On1)
          /\ Imposes(dim).roller_x \in Seq(On1)
          /\ Imposes(dim).roller_y \in Seq(On1)
          /\ Imposes(dim).roller_z \in Seq(On1)
          /\ Imposes(dim).yz_symmetry \in Seq(On1)
          /\ Imposes(dim).xz_symmetry \in Seq(On1)
          /\ Imposes(dim).xy_symmetry \in Seq(On1)
      BY <2>2, <2>3, <2>4, <2>5 DEF Imposes
    <2>7. type \in {"no_slip", "zero_x_velocity", "zero_y_velocity",
                    "prescribed_vel", "parabolic_profile",
                    "general_velocity", "axisymmetric", "isothermal_wall",
                    "isothermal", "general_isothermal",
                    "prescribed_species", "prescribed_mole_fracs",
                    "general_species", "pinned", "constant_displacement",
                    "roller_x", "roller_y", "roller_z", "yz_symmetry",
                    "xz_symmetry", "xy_symmetry"}
      BY DEF Imposes
    <2> QED
      BY <2>6, <2>7
  <1>5. ASSUME NEW i \in DOMAIN Imposes(dim)[type]
        PROVE  [ids |-> {id}, vars |-> Imposes(dim)[type][i].vars,
                value |-> Stored(p, id, StoreOf(type), Imposes(dim)[type][i].value)]
                 \in Condition
    <2>1. Imposes(dim)[type][i] \in On1
      <3> HIDE DEF On1, dim
      <3> QED
        BY <1>4
    <2>2. Stored(p, id, StoreOf(type), Imposes(dim)[type][i].value) \in Values
      BY <2>1, <1>2 DEF Stored
    <2> QED
      BY <2>1, <2>2 DEF Condition
  <1>6. DOMAIN Imposes(dim)[type] = 1..Len(Imposes(dim)[type])
        /\ Len(Imposes(dim)[type]) \in Nat
    <2> HIDE DEF On1, dim
    <2> QED
      BY <1>4
  <1> DEFINE B(i) == [ids |-> {id}, vars |-> Imposes(dim)[type][i].vars,
                      value |-> Stored(p, id, StoreOf(type),
                                       Imposes(dim)[type][i].value)]
  <1>7. Boundaries(p, id, type) = [i \in 1..Len(Imposes(dim)[type]) |-> B(i)]
    BY <1>6 DEF Boundaries
  <1>8. \A i \in 1..Len(Imposes(dim)[type]) : B(i) \in Condition
    BY <1>5, <1>6
  <1>9. ASSUME NEW n \in Nat, \A i \in 1..n : B(i) \in Condition
        PROVE  [i \in 1..n |-> B(i)] \in Seq(Condition)
    <2> HIDE DEF B, Condition
    <2> QED
      BY <1>9
  <1> QED
    BY <1>6, <1>7, <1>8, <1>9

LEMMA TypeConstruct ==
  ASSUME TypeOK, RefuseLists \/ ConstructPhysics
  PROVE  TypeOK'
  <1>1. CASE RefuseLists
    BY <1>1 DEF RefuseLists, TypeOK, Setup, Imposing, Assembly
  <1>2. CASE ConstructPhysics
    <2>1. built + 1 \in 0..Len(request.physics)
      BY <1>2, InputTypes DEF ConstructPhysics, TypeOK
    <2>2. Weighs(Constructing) \in BOOLEAN
      BY Zenon DEF Weighs
    <2>3. weighted' \in [Physics -> BOOLEAN]
      BY <1>2, <2>2, Zenon DEF ConstructPhysics, TypeOK
    <2> QED
      BY <1>2, <2>1, <2>3 DEF ConstructPhysics, TypeOK, Imposing, Assembly
  <1> QED
    BY <1>1, <1>2

\* Changing the function objects, the walls' weight or the functions of a
\* handler leaves it a handler, with the same Neumann types.
LEMMA HandlerUpdates ==
  ASSUME NEW s \in HandlerStates
  PROVE  /\ \A c \in Seq(Condition) :
              /\ [s EXCEPT !.objects = s.objects \o c] \in HandlerStates
              /\ [s EXCEPT !.objects = s.objects \o c].neumann = s.neumann
         /\ \A b \in BOOLEAN :
              /\ [s EXCEPT !.weighsWalls = b] \in HandlerStates
              /\ [s EXCEPT !.weighsWalls = b].neumann = s.neumann
         /\ \A f \in SUBSET [id: Ids, vars: SUBSET Variables] :
              /\ [s EXCEPT !.functions = f] \in HandlerStates
              /\ [s EXCEPT !.functions = f].neumann = s.neumann
  <1>1. ASSUME NEW c \in Seq(Condition)
        PROVE  s.objects \o c \in Seq(Condition)
    BY DEF HandlerStates
  <1> QED
    BY <1>1 DEF HandlerStates

\* What the steps of the initialisation and the assembly leave alone.
LEMMA SetupKept ==
  ASSUME TypeOK, UNCHANGED <<request, Setup>>
  PROVE  /\ request' \in RequestType
         /\ built' \in 0..Len(request'.physics)
         /\ read' \in Nat
         /\ axisymmetric' \in BOOLEAN
         /\ weighted' \in [Physics -> BOOLEAN]
  BY Zenon DEF TypeOK, Setup

LEMMA AssemblyKept ==
  ASSUME TypeOK, UNCHANGED Assembly
  PROVE  side' \subseteq Ids /\ flux' \subseteq FluxType
  BY DEF TypeOK, Assembly

LEMMA ImposingKept ==
  ASSUME TypeOK, UNCHANGED Imposing
  PROVE  /\ waiting' \subseteq Physics
         /\ current' \in Physics \union {None}
         /\ types' \in Seq(IdTypes)
         /\ objects' \in Seq(Condition)
         /\ dofmap' \in Seq(Condition)
         /\ periodic' \subseteq Ids \X Ids
  BY Zenon DEF TypeOK, Imposing

LEMMA HandlersKept ==
  ASSUME TypeOK, UNCHANGED handler
  PROVE  /\ handler' \in [Physics -> HandlerStates]
         /\ \A p \in Physics, i \in Ids :
              handler'[p].neumann[i] \in NeumannTypes[HandlerOf[p]] \union {None}
  BY Zenon DEF TypeOK

\* Lists built from lists and items of a set are lists of that set.
LEMMA ListFacts ==
  ASSUME NEW S, NEW a \in Seq(S), NEW b \in Seq(S)
  PROVE  /\ a \o b \in Seq(S)
         /\ \A x \in S : Append(a, x) \in Seq(S)
         /\ a # <<>> => Head(a) \in S /\ Tail(a) \in Seq(S)
  OBVIOUS

LEMMA TypeAttach ==
  ASSUME TypeOK, AttachDirichletFuncs \/ AttachNeumannFuncs
  PROVE  TypeOK'
  <1>1. CASE AttachDirichletFuncs
    <2>1. \A p \in Physics :
            handler'[p] = [handler[p] EXCEPT !.objects = handler[p].objects
                                                           \o request.user[p]]
      BY <1>1 DEF AttachDirichletFuncs
    <2>2. \A p \in Physics : /\ handler'[p] \in HandlerStates
                             /\ handler'[p].neumann = handler[p].neumann
      <3>1. \A p \in Physics : /\ handler[p] \in HandlerStates
                               /\ request.user[p] \in Seq(Condition)
        BY InputTypes DEF TypeOK
      <3> TAKE p \in Physics
      <3>2. handler[p] \in HandlerStates /\ request.user[p] \in Seq(Condition)
        BY <3>1
      <3>3. /\ [handler[p] EXCEPT !.objects = handler[p].objects
                                               \o request.user[p]] \in HandlerStates
            /\ [handler[p] EXCEPT !.objects = handler[p].objects
                                  \o request.user[p]].neumann = handler[p].neumann
        BY <3>2, HandlerUpdates
      <3> QED
        BY <2>1, <3>3
    <2>3. handler' \in [Physics -> HandlerStates]
      BY <1>1, <2>2 DEF AttachDirichletFuncs
    <2>4. \A p \in Physics, i \in Ids :
            handler'[p].neumann[i] \in NeumannTypes[HandlerOf[p]] \union {None}
      BY <2>2 DEF TypeOK
    <2>5. /\ pc' \in {"construct", "init", "solve", "error", "undefined"}
          /\ waiting' \subseteq Physics
      BY <1>1, InputTypes DEF AttachDirichletFuncs
    <2>6. /\ current' \in Physics \union {None}
          /\ types' \in Seq(IdTypes) /\ objects' \in Seq(Condition)
          /\ dofmap' \in Seq(Condition) /\ periodic' \subseteq Ids \X Ids
      BY <1>1, Zenon DEF AttachDirichletFuncs, TypeOK
    <2> QED
      BY <1>1, <2>3, <2>4, <2>5, <2>6, SetupKept, AssemblyKept, Zenon
         DEF AttachDirichletFuncs, TypeOK
  <1>2. CASE AttachNeumannFuncs
    <2>0. \A p \in Physics :
            request.functions[p] \in SUBSET [id: Ids, vars: SUBSET Variables]
      BY DEF TypeOK, RequestType
    <2>1. \A p \in Physics :
            handler'[p] = [handler[p] EXCEPT !.functions = request.functions[p]]
      BY <1>2 DEF AttachNeumannFuncs
    <2>2. \A p \in Physics : /\ handler'[p] \in HandlerStates
                             /\ handler'[p].neumann = handler[p].neumann
      <3>1. \A p \in Physics : handler[p] \in HandlerStates
        BY DEF TypeOK
      <3> TAKE p \in Physics
      <3>2. /\ [handler[p] EXCEPT !.functions = request.functions[p]]
                 \in HandlerStates
            /\ [handler[p] EXCEPT !.functions = request.functions[p]].neumann
                 = handler[p].neumann
        BY <2>0, <3>1, HandlerUpdates
      <3> QED
        BY <2>1, <3>2
    <2>3. handler' \in [Physics -> HandlerStates]
      BY <1>2, <2>2 DEF AttachNeumannFuncs
    <2>4. \A p \in Physics, i \in Ids :
            handler'[p].neumann[i] \in NeumannTypes[HandlerOf[p]] \union {None}
      BY <2>2 DEF TypeOK
    <2>5. pc' \in {"construct", "init", "solve", "error", "undefined"}
      BY <1>2 DEF AttachNeumannFuncs
    <2> QED
      BY <1>2, <2>3, <2>4, <2>5, SetupKept, ImposingKept, AssemblyKept, Zenon
         DEF AttachNeumannFuncs, TypeOK
  <1> QED
    BY <1>1, <1>2

LEMMA TypeInitBCs ==
  ASSUME TypeOK,
         \/ \E p \in Physics : StartInit(p)
         \/ InitDirichletBC \/ InitDirichletFuncObj \/ InitPeriodic
  PROVE  TypeOK'
  <1>1. ASSUME NEW p \in Physics, StartInit(p)
        PROVE  TypeOK'
    <2>1. handler[p] \in HandlerStates /\ axisymmetric \in BOOLEAN
      BY DEF TypeOK
    <2>2. handler' = [handler EXCEPT
                        ![p] = [handler[p] EXCEPT !.weighsWalls = axisymmetric]]
      BY <1>1 DEF StartInit
    <2>3. /\ [handler[p] EXCEPT !.weighsWalls = axisymmetric] \in HandlerStates
          /\ [handler[p] EXCEPT !.weighsWalls = axisymmetric].neumann
               = handler[p].neumann
      BY <2>1, HandlerUpdates
    <2>4. /\ handler' \in [Physics -> HandlerStates]
          /\ \A q \in Physics, i \in Ids :
               handler'[q].neumann[i] \in NeumannTypes[HandlerOf[q]] \union {None}
      BY <2>2, <2>3 DEF TypeOK
    <2>5. types' \in Seq(IdTypes) /\ objects' \in Seq(Condition)
      <3>1. /\ handler[p].dirichlet \in Seq(IdTypes)
            /\ handler[p].temp \in Seq(IdTypes)
            /\ handler[p].species \in Seq(IdTypes)
            /\ handler[p].objects \in Seq(Condition)
        BY <2>1 DEF HandlerStates
      <3>2. handler[p].dirichlet \o handler[p].temp \o handler[p].species
              \in Seq(IdTypes)
        BY <3>1, ListFacts, Zenon
      <3> QED
        BY <1>1, <3>1, <3>2, Zenon DEF StartInit, AllLists
    <2>6. /\ pc' \in {"construct", "init", "solve", "error", "undefined"}
          /\ waiting' \subseteq Physics /\ current' \in Physics \union {None}
          /\ dofmap' \in Seq(Condition) /\ periodic' \subseteq Ids \X Ids
          /\ UNCHANGED <<request, Setup, Assembly>>
      BY <1>1, Zenon DEF StartInit, TypeOK
    <2> QED
      BY <2>4, <2>5, <2>6, SetupKept, AssemblyKept, Zenon DEF TypeOK
  <1>2. CASE InitDirichletBC
    <2>1. Head(types) \in IdTypes /\ Tail(types) \in Seq(IdTypes)
      BY <1>2, ListFacts, Zenon DEF InitDirichletBC, TypeOK
    <2>2. Head(types)[1] \in Ids /\ Head(types)[2] \in DOMAIN Imposes(2)
      BY <2>1 DEF IdTypes
    <2>3. current \in Physics
      BY <1>2 DEF InitDirichletBC, TypeOK
    <2>4. Boundaries(current, Head(types)[1], Head(types)[2]) \in Seq(Condition)
      BY <2>2, <2>3, BoundariesType
    <2>5. dofmap' \in Seq(Condition)
      <3>1. dofmap \in Seq(Condition)
        BY DEF TypeOK
      <3>2. dofmap \o Boundaries(current, Head(types)[1], Head(types)[2])
              \in Seq(Condition)
        BY <2>4, <3>1, ListFacts, Zenon
      <3> QED
        BY <1>2, <3>1, <3>2, Zenon DEF InitDirichletBC
    <2>6. pc' \in {"construct", "init", "solve", "error", "undefined"}
      BY <1>2, Zenon DEF InitDirichletBC, TypeOK
    <2>7. /\ types' \in Seq(IdTypes) /\ objects' \in Seq(Condition)
          /\ waiting' \subseteq Physics /\ current' \in Physics \union {None}
          /\ periodic' \subseteq Ids \X Ids
          /\ UNCHANGED <<request, handler, Setup, Assembly>>
      BY <1>2, <2>1, Zenon DEF InitDirichletBC, TypeOK
    <2> QED
      BY <2>5, <2>6, <2>7, HandlersKept, SetupKept, AssemblyKept, Zenon
         DEF TypeOK
  <1>3. CASE InitDirichletFuncObj
    <2>1. Head(objects) \in Condition /\ Tail(objects) \in Seq(Condition)
      BY <1>3, ListFacts, Zenon DEF InitDirichletFuncObj, TypeOK
    <2>2. dofmap' \in Seq(Condition)
      <3>1. dofmap \in Seq(Condition)
        BY DEF TypeOK
      <3>2. Append(dofmap, Head(objects)) \in Seq(Condition)
        BY <2>1, <3>1, ListFacts, Zenon
      <3> QED
        BY <1>3, <3>1, <3>2, Zenon DEF InitDirichletFuncObj
    <2>3. pc' \in {"construct", "init", "solve", "error", "undefined"}
      BY <1>3, Zenon DEF InitDirichletFuncObj, TypeOK
    <2>4. /\ types' \in Seq(IdTypes) /\ objects' \in Seq(Condition)
          /\ waiting' \subseteq Physics /\ current' \in Physics \union {None}
          /\ periodic' \subseteq Ids \X Ids
          /\ UNCHANGED <<request, handler, Setup, Assembly>>
      BY <1>3, <2>1, Zenon DEF InitDirichletFuncObj, TypeOK
    <2> QED
      BY <2>2, <2>3, <2>4, HandlersKept, SetupKept, AssemblyKept, Zenon
         DEF TypeOK
  <1>4. CASE InitPeriodic
    <2>1. current \in Physics
      BY <1>4 DEF InitPeriodic, TypeOK
    <2>2. handler[current].pairs \in Seq(Ids \X Ids)
      BY <2>1 DEF TypeOK, HandlerStates
    <2>3. \A i \in DOMAIN handler[current].pairs :
            handler[current].pairs[i] \in Ids \X Ids
      BY <2>2
    <2>4. periodic' \subseteq Ids \X Ids
      BY <1>4, <2>3 DEF InitPeriodic, TypeOK
    <2> QED
      BY <1>4, <2>4 DEF InitPeriodic, TypeOK, Setup, Assembly
  <1> QED
    BY <1>1, <1>2, <1>3, <1>4

\* The fluxes of a boundary that can be applied.
LEMMA FluxesType ==
  ASSUME TypeOK, NEW p \in Applying, NEW id \in Ids, ~Fails(p, id)
  PROVE  /\ Fluxes(p, id) \subseteq FluxType
         /\ \A f \in Fluxes(p, id) : f.physics = p /\ f.weighted = Weight(p)
  <1> DEFINE type == handler[p].neumann[id]
  <1>1. p \in Physics /\ p \in AppliesFluxes
    BY InputTypes DEF Applying
  <1>2. type \in NeumannTypes[HandlerOf[p]] \union {None}
    BY <1>1 DEF TypeOK
  <1>3. Weight(p) \in BOOLEAN
    <2>1. axisymmetric \in BOOLEAN /\ handler[p].weighsWalls \in BOOLEAN
      BY <1>1 DEF TypeOK, HandlerStates
    <2> QED
      BY <2>1, Zenon DEF Weight
  <1>4. ASSUME NEW x \in Variables, NEW v \in Values \union Nat
        PROVE  /\ Flux(p, id, x, v) \in FluxType
               /\ Flux(p, id, x, v).physics = p
               /\ Flux(p, id, x, v).weighted = Weight(p)
    <2>1. Flux(p, id, x, v) = [physics |-> p, id |-> id, var |-> x, value |-> v,
                               weighted |-> Weight(p)]
      BY DEF Flux
    <2> HIDE DEF Flux
    <2>2. \A b \in BOOLEAN :
            [physics |-> p, id |-> id, var |-> x, value |-> v, weighted |-> b]
              \in FluxType
      BY <1>1 DEF FluxType
    <2> QED
      BY <1>3, <2>1, <2>2
  <1>5. CASE type = None
    BY <1>5 DEF Fluxes
  <1>6. CASE type # None /\ type \in WallTypes
    <2>1. \A wall \in handler[p].walls :
            wall.on.reactant \in Variables /\ wall.on.product \in Variables
              /\ wall.number \in Nat
      <3>1. handler[p].walls \subseteq
              [id: Ids, number: Nat, on: [reactant: Species, product: Species]]
        BY <1>1 DEF TypeOK, HandlerStates
      <3>2. Species \subseteq Variables
        BY DEF Variables
      <3> QED
        BY <3>1, <3>2
    <2>2. Fluxes(p, id) = WallFluxes(p, id)
      BY <1>6 DEF Fluxes
    <2> QED
      BY <1>4, <2>1, <2>2 DEF WallFluxes
  <1>7. CASE type # None /\ type \notin WallTypes
    <2>1. HandlerOf[p] # "Reacting"
      BY <1>7 DEF Fails
    <2>2. p \in {"AxisymmetricHeatTransfer", "ElasticCable", "HeatTransfer"}
      BY <1>1, <2>1 DEF AppliesFluxes, HandlerOf
    <2>3. type \in HeatFluxTypes \union {"adiabatic_wall", "axisymmetric",
                                         "constant_traction"}
      BY <1>2, <1>7, <2>2 DEF HandlerOf, NeumannTypes
    <2> DEFINE ons == IF type \in DOMAIN Tractions THEN Tractions[type]
                      ELSE HeatFluxes[type]
    <2>4. ons \subseteq {On({"d1"}, 0), On({"d2"}, 1), On({"d3"}, 2),
                         On({"T"}, 0), On({"T"}, Func)}
      BY <2>3 DEF Tractions, HeatFluxes, HeatFluxTypes
    <2>5. \A x : (CHOOSE y \in {x} : TRUE) = x
      OBVIOUS
    <2>6. \A on \in ons : /\ (CHOOSE x \in on.vars : TRUE) \in Variables
                          /\ on.value \in Values
      <3>1. /\ {"d1", "d2", "d3", "T"} \subseteq Variables
            /\ {0, 1, 2, Func} \subseteq Values
        BY DEF Variables, Displacement, Values, Components
      <3> HIDE DEF ons
      <3> QED
        BY <2>4, <2>5, <3>1 DEF On
    <2>7. Fluxes(p, id) = {Flux(p, id, CHOOSE x \in on.vars : TRUE, on.value) :
                             on \in ons}
      BY <1>7 DEF Fluxes
    <2> HIDE DEF ons
    <2> QED
      BY <1>4, <2>6, <2>7
  <1> QED
    BY <1>5, <1>6, <1>7

LEMMA TypeAssembleSide ==
  ASSUME TypeOK, NEW ids \in request.sides, AssembleSide(ids)
  PROVE  TypeOK'
  <1>1. ids \subseteq Ids
    BY DEF TypeOK, RequestType
  <1> DEFINE Bad == \E p \in Applying, id \in ids :
                      Fails(p, id) \/ Dangles(p, id)
  <1>0. /\ pc = "solve"
        /\ UNCHANGED <<request, handler, Setup, Imposing>>
        /\ Bad => pc' \in {"error", "undefined"} /\ UNCHANGED flux
        /\ ~Bad => /\ pc' = pc
                   /\ flux' = UNION {Fluxes(p, id) : p \in Applying,
                                                    id \in SideIds(ids)}
    BY DEF AssembleSide
  <1>2. pc' \in {"construct", "init", "solve", "error", "undefined"}
    <2> HIDE DEF Bad
    <2> QED
      BY <1>0
  <1>3. side' \subseteq Ids
    BY <1>1 DEF AssembleSide
  <1>4. flux' \subseteq FluxType
    <2>1. CASE Bad
      <3> HIDE DEF Bad
      <3>1. flux' = flux
        BY <1>0, <2>1
      <3> QED
        BY <3>1, Zenon DEF TypeOK
    <2>2. CASE ~Bad
      <3>1. flux' = UNION {Fluxes(p, id) : p \in Applying, id \in ids}
        <4>1. SideIds(ids) = ids
          BY DEF SideIds
        <4> HIDE DEF Bad
        <4>2. flux' = UNION {Fluxes(p, id) : p \in Applying, id \in SideIds(ids)}
          BY <1>0, <2>2
        <4> QED
          BY <4>1, <4>2
      <3>2. \A p \in Applying, id \in ids : Fluxes(p, id) \subseteq FluxType
        BY <1>1, <2>2, FluxesType
      <3> QED
        BY <3>1, <3>2
    <2> QED
      BY <2>1, <2>2
  <1> QED
    BY <1>0, <1>2, <1>3, <1>4, HandlersKept, SetupKept, ImposingKept, Zenon
       DEF TypeOK

\* The type invariant holds of every input: the handlers hold conditions of
\* types they know, what reaches the DofMap are conditions and id pairs, and a
\* side gets fluxes of variables of the simulation.
THEOREM TypeCorrect == Spec => []TypeOK
  <1>1. Init => TypeOK
    BY TypeInit
  <1>2. TypeOK /\ [Next]_vars => TypeOK'
    <2> SUFFICES ASSUME TypeOK, [Next]_vars
                 PROVE  TypeOK'
      OBVIOUS
    <2>1. CASE ReadEntry
      BY <2>1, TypeReadEntry
    <2>2. CASE RefuseLists \/ ConstructPhysics
      BY <2>2, TypeConstruct
    <2>3. CASE AttachDirichletFuncs \/ AttachNeumannFuncs
      BY <2>3, TypeAttach
    <2>4. CASE \/ \E p \in Physics : StartInit(p)
               \/ InitDirichletBC \/ InitDirichletFuncObj \/ InitPeriodic
      BY <2>4, TypeInitBCs
    <2>5. ASSUME NEW ids \in request.sides, AssembleSide(ids)
          PROVE  TypeOK'
      BY <2>5, TypeAssembleSide
    <2>6. CASE UNCHANGED vars
      <3>1. UNCHANGED <<pc, request, handler, Setup, Imposing, Assembly>>
        BY <2>6 DEF vars, Setup, Imposing, Assembly
      <3>2. pc' \in {"construct", "init", "solve", "error", "undefined"}
        BY <3>1 DEF TypeOK
      <3> QED
        BY <3>1, <3>2, HandlersKept, SetupKept, ImposingKept, AssemblyKept,
           Zenon DEF TypeOK
    <2> QED
      BY <2>1, <2>2, <2>3, <2>4, <2>5, <2>6, Zenon DEF Next
  <1> QED
    BY <1>1, <1>2, PTL DEF Spec

(***************************************************************************)
(* The weights.  Conditions enter the residual with the shared flag, read  *)
(* when a side is assembled, and the equations with what their physics     *)
(* read while it was constructed: the invariant says what both know of the *)
(* input at every step of the construction and of the initialisation.      *)
(***************************************************************************)

\* The shared flag follows the entries that have been read.
FlagIsOfEntries ==
  pc = "construct" =>
    /\ axisymmetric <=>
         \/ AxisAmong(request, built)
         \/ \E i \in 1..read : SetsFlag(Constructing, Entries(Constructing)[i])
    /\ built = Len(request.physics) => read = 0

\* And is complete when the construction is.
FlagIsComplete ==
  pc \in {"init", "solve"} =>
    /\ built = Len(request.physics)
    /\ axisymmetric <=> AxisAmong(request, Len(request.physics))

\* What a physics takes for its weight, when it is constructed.
Takes(k) ==
  \/ request.physics[k] = "AxisymmetricHeatTransfer"
  \/ request.physics[k] \in ReadsFlag /\ AxisAmong(request, k)
WeightsAreTaken ==
  \A k \in DOMAIN request.physics :
    weighted[request.physics[k]] <=> (request.flag \/ (k <= built /\ Takes(k)))

\* The catalytic walls are told the flag when their physics is initialised.
WallsAreTold ==
  pc \in {"init", "solve"} =>
    \A p \in Listed \ waiting : handler[p].weighsWalls <=> axisymmetric

\* The fluxes of the last side have the weight of their handler.
FluxesAreWeighed ==
  /\ pc \in {"construct", "init"} => flux = {}
  /\ pc = "solve" => /\ waiting = {}
                     /\ \A f \in flux : /\ f.physics \in Applying
                                        /\ f.weighted = Weight(f.physics)

Weighing ==
  /\ TypeOK
  /\ NoPhysicsTwice(request)
  /\ FlagIsOfEntries
  /\ FlagIsComplete
  /\ WeightsAreTaken
  /\ WallsAreTold
  /\ FluxesAreWeighed

LEMMA WeighingInit ==
  ASSUME Init
  PROVE  Weighing
  <1>1. TypeOK
    BY TypeInit
  <1>2. /\ pc = "construct" /\ built = 0 /\ read = 0 /\ axisymmetric = FALSE
        /\ flux = {} /\ request \in Requests
    BY DEF Init
  <1>3. NoPhysicsTwice(request)
    BY <1>2, RequestsAssumption
  <1>4. ~AxisAmong(request, 0)
    BY DEF AxisAmong
  <1>5. WeightsAreTaken
    <2>1. \A k \in DOMAIN request.physics :
            /\ request.physics[k] \in Physics
            /\ ~(k <= built)
      BY <1>1, <1>2 DEF TypeOK, RequestType
    <2>2. \A p \in Physics : weighted[p] = request.flag
      BY DEF Init
    <2> QED
      BY <2>1, <2>2, Zenon DEF WeightsAreTaken
  <1>6. FlagIsOfEntries
    BY <1>2, <1>4 DEF FlagIsOfEntries
  <1> QED
    BY <1>1, <1>2, <1>3, <1>5, <1>6
       DEF Weighing, FlagIsComplete, WallsAreTold, FluxesAreWeighed

\* A physics has a boundary of the axis if one of its entries is one.
LEMMA AxisOfEntries ==
  ASSUME request \in RequestType, NEW p \in Physics
  PROVE  HasAxis(request, p) <=>
           \E i \in 1..Len(Entries(p)) : SetsFlag(p, Entries(p)[i])
  <1>1. DOMAIN request.entries[p] = 1..Len(request.entries[p])
    BY DEF RequestType
  <1> QED
    BY <1>1 DEF HasAxis, EntriesIn, Entries

LEMMA AxisOfOneMore ==
  ASSUME NEW r, NEW k \in Nat
  PROVE  AxisAmong(r, k + 1) <=> AxisAmong(r, k) \/ HasAxis(r, r.physics[k + 1])
  <1>1. 1..(k + 1) = (1..k) \union {k + 1}
    OBVIOUS
  <1> QED
    BY <1>1 DEF AxisAmong

\* The steps of a construction.
LEMMA WeighingRead ==
  ASSUME Weighing, ReadEntry
  PROVE  Weighing'
  <1>1. TypeOK'
    BY TypeReadEntry DEF Weighing
  <1>2. /\ pc = "construct" /\ built < Len(request.physics)
        /\ UNCHANGED <<request, built, weighted, waiting, flux>>
        /\ pc' = "error" \/ (pc' = "construct" /\ read' = read + 1)
        /\ axisymmetric' = (axisymmetric \/
             SetsFlag(Constructing, Entries(Constructing)[read + 1]))
    BY DEF ReadEntry, Imposing, Assembly
  <1>3. FlagIsOfEntries'
    <2> SUFFICES ASSUME pc' = "construct"
                 PROVE  FlagIsOfEntries'
      BY DEF FlagIsOfEntries
    <2>1. read' = read + 1 /\ read \in Nat
      BY <1>2 DEF Weighing, TypeOK
    <2>2. axisymmetric <=>
            \/ AxisAmong(request, built)
            \/ \E i \in 1..read : SetsFlag(Constructing, Entries(Constructing)[i])
      BY <1>2 DEF Weighing, FlagIsOfEntries
    <2>3. 1..(read + 1) = (1..read) \union {read + 1}
      BY <2>1
    <2>4. axisymmetric' <=>
            \/ AxisAmong(request, built)
            \/ \E i \in 1..(read + 1) :
                 SetsFlag(Constructing, Entries(Constructing)[i])
      BY <1>2, <2>2, <2>3, Zenon
    <2>5. Constructing' = Constructing /\ request' = request /\ built' = built
      BY <1>2 DEF Constructing
    <2>6. axisymmetric' <=>
            \/ AxisAmong(request', built')
            \/ \E i \in 1..read' :
                 SetsFlag(Constructing', request'.entries[Constructing'][i])
      <3>1. axisymmetric' <=>
              \/ AxisAmong(request, built)
              \/ \E i \in 1..(read + 1) :
                   SetsFlag(Constructing, request.entries[Constructing][i])
        BY <2>4, Zenon DEF Entries
      <3> QED
        BY <2>1, <2>5, <3>1
    <2>7. built' # Len(request'.physics)
      BY <1>2 DEF Weighing, TypeOK
    <2> QED
      BY <2>6, <2>7, Zenon DEF FlagIsOfEntries, Entries
  <1>4. WeightsAreTaken'
    BY <1>2, Zenon DEF Weighing, WeightsAreTaken, Takes
  <1>5. /\ pc' \notin {"init", "solve"} /\ flux' = {}
        /\ NoPhysicsTwice(request')
    BY <1>2 DEF Weighing, FluxesAreWeighed
  <1> QED
    BY <1>1, <1>3, <1>4, <1>5
       DEF Weighing, FlagIsComplete, WallsAreTold, FluxesAreWeighed

LEMMA WeighingConstruct ==
  ASSUME Weighing, ConstructPhysics
  PROVE  Weighing'
  <1> DEFINE n == Len(request.physics)
             p == Constructing
  <1>1. TypeOK'
    BY TypeConstruct DEF Weighing
  <1>2. /\ pc = "construct" /\ built < n /\ read = Len(Entries(p))
        /\ pc' = pc /\ built' = built + 1 /\ read' = 0
        /\ weighted' = [weighted EXCEPT ![p] = Weighs(p)]
        /\ UNCHANGED <<request, axisymmetric, waiting, flux>>
    BY DEF ConstructPhysics, Imposing, Assembly
  <1>3. /\ request \in RequestType /\ built \in Nat /\ n \in Nat
        /\ DOMAIN request.physics = 1..n
        /\ built + 1 \in DOMAIN request.physics
        /\ p = request.physics[built + 1] /\ p \in Physics
        /\ \A k \in DOMAIN request.physics : request.physics[k] \in Physics
        /\ weighted \in [Physics -> BOOLEAN]
    <2>1. request \in RequestType /\ built \in 0..n
          /\ weighted \in [Physics -> BOOLEAN]
      BY DEF Weighing, TypeOK
    <2>2. request.physics \in Seq(Physics)
      BY <2>1 DEF RequestType
    <2> QED
      BY <1>2, <2>1, <2>2 DEF Constructing
  <1>4. axisymmetric <=> AxisAmong(request, built + 1)
    <2>1. axisymmetric <=>
            \/ AxisAmong(request, built)
            \/ \E i \in 1..Len(Entries(p)) : SetsFlag(p, Entries(p)[i])
      BY <1>2, Zenon DEF Weighing, FlagIsOfEntries
    <2> QED
      BY <1>3, <2>1, AxisOfEntries, AxisOfOneMore, Zenon
  <1>5. FlagIsOfEntries'
    <2>1. axisymmetric' <=> AxisAmong(request', built')
      BY <1>2, <1>4
    <2>2. 1..read' = {} /\ read' = 0
      BY <1>2
    <2> QED
      BY <2>1, <2>2, Zenon DEF FlagIsOfEntries
  <1>6. WeightsAreTaken'
    <2>1. ASSUME NEW k \in DOMAIN request.physics
          PROVE  weighted'[request.physics[k]] <=>
                   (request.flag \/ (k <= built + 1 /\ Takes(k)))
      <3>0. weighted[request.physics[k]] <=>
              (request.flag \/ (k <= built /\ Takes(k)))
        BY DEF Weighing, WeightsAreTaken
      <3>1. CASE k = built + 1
        <4>1. ~(k <= built) /\ k <= built + 1 /\ request.physics[k] = p
          BY <1>3, <3>1
        <4>2. weighted'[p] <=> Weighs(p)
          BY <1>2, <1>3, Zenon
        <4>3. weighted[p] <=> request.flag
          BY <3>0, <4>1, Zenon
        <4>4. Weighs(p) <=> request.flag \/ p = "AxisymmetricHeatTransfer"
                              \/ (p \in ReadsFlag /\ axisymmetric)
          BY <4>3, Zenon DEF Weighs
        <4>5. axisymmetric <=> AxisAmong(request, k)
          BY <1>4, <3>1
        <4> QED
          BY <4>1, <4>2, <4>4, <4>5, Zenon DEF Takes
      <3>2. CASE k # built + 1
        <4>1. request.physics[k] # p
          BY <1>3, <3>2 DEF Weighing, NoPhysicsTwice
        <4>2. weighted'[request.physics[k]] = weighted[request.physics[k]]
          BY <1>2, <1>3, <4>1, Zenon
        <4>3. k <= built <=> k <= built + 1
          BY <1>3, <3>2
        <4> QED
          BY <3>0, <4>2, <4>3, Zenon
      <3> QED
        BY <3>1, <3>2
    <2>2. \A k : Takes(k)' <=> Takes(k)
      BY <1>2, Zenon DEF Takes
    <2> QED
      BY <1>2, <2>1, <2>2, Zenon DEF WeightsAreTaken
  <1>7. /\ pc' \notin {"init", "solve"} /\ flux' = {}
        /\ NoPhysicsTwice(request')
    BY <1>2 DEF Weighing, FluxesAreWeighed
  <1> QED
    BY <1>1, <1>5, <1>6, <1>7
       DEF Weighing, FlagIsComplete, WallsAreTold, FluxesAreWeighed

\* Nothing after the construction changes what was read in it.
LEMMA TakenKept ==
  ASSUME Weighing, UNCHANGED <<request, Setup>>
  PROVE  /\ NoPhysicsTwice(request')
         /\ WeightsAreTaken'
  <1>1. UNCHANGED <<request, built, weighted>>
    BY DEF Setup
  <1>2. WeightsAreTaken'
    BY <1>1, Zenon DEF Weighing, WeightsAreTaken, Takes
  <1> QED
    BY <1>1, <1>2, Zenon DEF Weighing

LEMMA CompleteKept ==
  ASSUME Weighing, UNCHANGED <<request, Setup>>, pc \in {"init", "solve"}
  PROVE  FlagIsComplete'
  <1>1. UNCHANGED <<request, built, axisymmetric>>
    BY DEF Setup
  <1>2. /\ built = Len(request.physics)
        /\ axisymmetric <=> AxisAmong(request, Len(request.physics))
    BY Zenon DEF Weighing, FlagIsComplete
  <1> QED
    BY <1>1, <1>2, Zenon DEF FlagIsComplete

LEMMA WeighingAttach ==
  ASSUME Weighing, AttachDirichletFuncs \/ AttachNeumannFuncs
  PROVE  Weighing'
  <1>1. TypeOK'
    BY TypeAttach DEF Weighing
  <1>2. UNCHANGED <<request, Setup, flux>>
    BY DEF AttachDirichletFuncs, AttachNeumannFuncs, Assembly
  <1>3. UNCHANGED axisymmetric
    BY <1>2 DEF Setup
  <1>4. CASE AttachDirichletFuncs
    <2>1. /\ pc = "construct" /\ built = Len(request.physics) /\ pc' = "init"
          /\ waiting' = Listed
      BY <1>4 DEF AttachDirichletFuncs
    <2>2. ~\E i \in 1..read : SetsFlag(Constructing, Entries(Constructing)[i])
      <3>1. read = 0
        BY <2>1 DEF Weighing, FlagIsOfEntries
      <3>2. 1..read = {}
        BY <3>1
      <3> QED
        BY <3>2, Zenon
    <2>3. axisymmetric <=> AxisAmong(request, Len(request.physics))
      BY <2>1, <2>2, Zenon DEF Weighing, FlagIsOfEntries
    <2>4. FlagIsComplete'
      <3>1. request' = request /\ built' = built
        BY <1>2 DEF Setup
      <3> QED
        BY <1>3, <2>1, <2>3, <3>1, Zenon DEF FlagIsComplete
    <2>5. WallsAreTold'
      <3>1. Listed' = Listed
        BY <1>2 DEF Listed
      <3> QED
        BY <2>1, <3>1 DEF WallsAreTold
    <2>6. FlagIsOfEntries' /\ FluxesAreWeighed'
      BY <1>2, <2>1 DEF Weighing, FlagIsOfEntries, FluxesAreWeighed
    <2> QED
      BY <1>1, <1>2, <2>4, <2>5, <2>6, TakenKept, Zenon DEF Weighing
  <1>5. CASE AttachNeumannFuncs
    <2>1. pc = "init" /\ waiting = {} /\ pc' = "solve" /\ waiting' = waiting
      BY <1>5 DEF AttachNeumannFuncs, Imposing
    <2>2. \A p \in Physics : handler'[p].weighsWalls = handler[p].weighsWalls
      <3>1. \A p \in Physics : handler[p] \in HandlerStates
        BY DEF Weighing, TypeOK
      <3>2. \A p \in Physics :
              handler'[p] = [handler[p] EXCEPT !.functions = request.functions[p]]
        BY <1>5 DEF AttachNeumannFuncs
      <3> QED
        BY <3>1, <3>2 DEF HandlerStates
    <2>3. WallsAreTold'
      <3>1. Listed' = Listed
        BY <1>2 DEF Listed
      <3>2. \A p \in Listed : p \in Physics
        BY InputTypes DEF Weighing
      <3>3. \A p \in Listed \ waiting : handler[p].weighsWalls <=> axisymmetric
        BY <2>1 DEF Weighing, WallsAreTold
      <3> QED
        BY <1>3, <2>1, <2>2, <3>1, <3>2, <3>3, Zenon DEF WallsAreTold
    <2>4. FluxesAreWeighed'
      <3>1. flux' = {}
        BY <1>2, <2>1 DEF Weighing, FluxesAreWeighed
      <3> QED
        BY <2>1, <3>1 DEF FluxesAreWeighed
    <2>5. FlagIsOfEntries'
      BY <2>1 DEF FlagIsOfEntries
    <2> QED
      BY <1>1, <1>2, <2>1, <2>3, <2>4, <2>5, TakenKept, CompleteKept, Zenon
         DEF Weighing
  <1> QED
    BY <1>4, <1>5

LEMMA WeighingInitBCs ==
  ASSUME Weighing,
         \/ \E p \in Physics : StartInit(p)
         \/ InitDirichletBC \/ InitDirichletFuncObj \/ InitPeriodic
  PROVE  Weighing'
  <1>1. TypeOK'
    BY TypeInitBCs DEF Weighing
  <1>2. /\ UNCHANGED <<request, Setup, flux>> /\ pc = "init"
        /\ pc' \in {"init", "error", "undefined"}
    <2>1. ASSUME NEW p \in Physics, StartInit(p)
          PROVE  UNCHANGED <<request, Setup, flux>> /\ pc = "init" /\ pc' = "init"
      BY <2>1 DEF StartInit, Assembly
    <2>2. CASE InitDirichletBC
      BY <2>2, Zenon DEF InitDirichletBC, Assembly
    <2>3. CASE InitDirichletFuncObj
      BY <2>3, Zenon DEF InitDirichletFuncObj, Assembly
    <2>4. CASE InitPeriodic
      BY <2>4, Zenon DEF InitPeriodic, Assembly
    <2> QED
      BY <2>1, <2>2, <2>3, <2>4
  <1>3. UNCHANGED axisymmetric /\ Listed' = Listed
    BY <1>2 DEF Setup, Listed
  <1>4. \A p \in Listed \ waiting : handler[p].weighsWalls <=> axisymmetric
    BY <1>2 DEF Weighing, WallsAreTold
  <1>5. \A p \in Listed \ waiting' : handler'[p].weighsWalls <=> axisymmetric
    <2>1. ASSUME NEW p \in Physics, StartInit(p)
          PROVE  \A q \in Listed \ waiting' :
                   handler'[q].weighsWalls <=> axisymmetric
      <3>1. /\ waiting' = waiting \ {p}
            /\ handler' = [handler EXCEPT ![p] =
                             [handler[p] EXCEPT !.weighsWalls = axisymmetric]]
        BY <2>1 DEF StartInit
      <3>2. \A q \in Physics : handler[q] \in HandlerStates
        BY DEF Weighing, TypeOK
      <3>3. handler'[p].weighsWalls = axisymmetric
        BY <3>1, <3>2 DEF Weighing, TypeOK, HandlerStates
      <3>4. \A q \in Physics \ {p} : handler'[q] = handler[q]
        BY <3>1 DEF Weighing, TypeOK
      <3>5. \A q \in Listed : q \in Physics
        BY InputTypes DEF Weighing
      <3> TAKE q \in Listed \ waiting'
      <3>6. CASE q = p
        BY <3>3, <3>6
      <3>7. CASE q # p
        BY <1>4, <3>1, <3>4, <3>5, <3>7
      <3> QED
        BY <3>6, <3>7
    <2>2. CASE InitDirichletBC \/ InitDirichletFuncObj \/ InitPeriodic
      <3>1. waiting' = waiting /\ handler' = handler
        BY <2>2 DEF InitDirichletBC, InitDirichletFuncObj, InitPeriodic
      <3> QED
        BY <1>4, <3>1
    <2> QED
      BY <2>1, <2>2
  <1>6. WallsAreTold'
    BY <1>3, <1>5, Zenon DEF WallsAreTold
  <1>7. FlagIsOfEntries' /\ FluxesAreWeighed'
    BY <1>2 DEF Weighing, FlagIsOfEntries, FluxesAreWeighed
  <1> QED
    BY <1>1, <1>2, <1>6, <1>7, TakenKept, CompleteKept, Zenon DEF Weighing

LEMMA WeighingAssembleSide ==
  ASSUME Weighing, NEW ids \in request.sides, AssembleSide(ids)
  PROVE  Weighing'
  <1>1. TypeOK'
    BY TypeAssembleSide DEF Weighing
  <1> DEFINE Bad == \E p \in Applying, id \in ids :
                      Fails(p, id) \/ Dangles(p, id)
  <1>2. /\ pc = "solve"
        /\ UNCHANGED <<request, handler, Setup, Imposing>>
        /\ Bad => pc' \in {"error", "undefined"} /\ UNCHANGED flux
        /\ ~Bad => /\ pc' = pc
                   /\ flux' = UNION {Fluxes(p, id) : p \in Applying,
                                                    id \in SideIds(ids)}
    BY DEF AssembleSide
  <1>3. ids \subseteq Ids /\ SideIds(ids) = ids
    BY DEF Weighing, TypeOK, RequestType, SideIds
  <1>4. UNCHANGED <<axisymmetric, waiting>> /\ Listed' = Listed
    BY <1>2 DEF Setup, Imposing, Listed
  <1>5. pc' \in {"solve", "error", "undefined"}
    <2> HIDE DEF Bad
    <2> QED
      BY <1>2
  <1>6. WallsAreTold'
    BY <1>2, <1>4, Zenon DEF Weighing, WallsAreTold
  <1>7. FluxesAreWeighed'
    <2> SUFFICES ASSUME pc' = "solve"
                 PROVE  FluxesAreWeighed'
      BY <1>5 DEF FluxesAreWeighed
    <2>1. ~Bad
      <3> HIDE DEF Bad
      <3> QED
        BY <1>2
    <2>2. flux' = UNION {Fluxes(p, id) : p \in Applying, id \in ids}
      <3> HIDE DEF Bad
      <3> QED
        BY <1>2, <1>3, <2>1
    <2>3. \A p \in Applying, id \in ids : \A f \in Fluxes(p, id) :
            f.physics = p /\ f.weighted = Weight(p)
      BY <1>3, <2>1, FluxesType DEF Weighing
    <2>4. \A f \in flux' : f.physics \in Applying /\ f.weighted = Weight(f.physics)
      BY <2>2, <2>3
    <2>5. /\ Applying' = Applying /\ \A p : Weight(p)' = Weight(p)
      BY <1>2, <1>4, Zenon DEF Applying, Weight
    <2>6. waiting' = {}
      BY <1>2, <1>4 DEF Weighing, FluxesAreWeighed
    <2> QED
      BY <2>4, <2>5, <2>6, Zenon DEF FluxesAreWeighed
  <1>8. FlagIsOfEntries'
    BY <1>5 DEF FlagIsOfEntries
  <1> QED
    BY <1>1, <1>2, <1>6, <1>7, <1>8, TakenKept, CompleteKept, Zenon DEF Weighing

LEMMA WeighingKept ==
  ASSUME Weighing, [Next]_vars, TypeOK'
  PROVE  Weighing'
  <1>1. CASE ReadEntry
    BY <1>1, WeighingRead
  <1>2. CASE RefuseLists
    <2>1. /\ UNCHANGED <<request, Setup, flux>> /\ pc = "construct"
          /\ pc' = "error"
      BY <1>2 DEF RefuseLists, Assembly
    <2>2. /\ FlagIsOfEntries' /\ FlagIsComplete' /\ WallsAreTold'
          /\ FluxesAreWeighed'
      BY <2>1 DEF FlagIsOfEntries, FlagIsComplete, WallsAreTold,
                  FluxesAreWeighed
    <2> QED
      BY <2>1, <2>2, TakenKept, Zenon DEF Weighing
  <1>3. CASE ConstructPhysics
    BY <1>3, WeighingConstruct
  <1>4. CASE AttachDirichletFuncs \/ AttachNeumannFuncs
    BY <1>4, WeighingAttach
  <1>5. CASE \/ \E p \in Physics : StartInit(p)
             \/ InitDirichletBC \/ InitDirichletFuncObj \/ InitPeriodic
    BY <1>5, WeighingInitBCs
  <1>6. ASSUME NEW ids \in request.sides, AssembleSide(ids)
        PROVE  Weighing'
    BY <1>6, WeighingAssembleSide
  <1>7. CASE UNCHANGED vars
    <2>1. UNCHANGED <<pc, request, built, read, axisymmetric, weighted,
                      waiting, handler, flux>>
      BY <1>7 DEF vars
    <2> QED
      BY <2>1, Zenon
         DEF Weighing, FlagIsOfEntries, FlagIsComplete, WeightsAreTaken, Takes,
             WallsAreTold, FluxesAreWeighed, Constructing, Entries, Listed,
             Applying, Weight
  <1> QED
    BY <1>1, <1>2, <1>3, <1>4, <1>5, <1>6, <1>7, Zenon DEF Next

\* At the assembly the two weights are of the same input.
LEMMA WeightsMeet ==
  ASSUME Weighing, AxisIsKnown(request)
  PROVE  WeightsAgree
  <1> SUFFICES ASSUME pc = "solve", NEW f \in flux
               PROVE  f.weighted = weighted[f.physics]
    BY DEF WeightsAgree
  <1> DEFINE p == f.physics
             last == Len(request.physics)
  <1>1. p \in AppliesFluxes /\ p \in Listed /\ f.weighted = Weight(p)
    BY DEF Weighing, FluxesAreWeighed, Applying
  <1>2. PICK k \in DOMAIN request.physics : request.physics[k] = p
    BY <1>1 DEF Listed
  <1>3. k <= built
    <2>1. request.physics \in Seq(Physics) /\ built = last
      BY DEF Weighing, TypeOK, RequestType, FlagIsComplete
    <2> QED
      BY <2>1
  <1>4. p \in Physics /\ weighted[p] \in BOOLEAN /\ axisymmetric \in BOOLEAN
        /\ handler[p].weighsWalls \in BOOLEAN
    <2>1. p \in Physics
      BY <1>1, InputTypes DEF Weighing
    <2> QED
      BY <2>1 DEF Weighing, TypeOK, HandlerStates
  <1>5. weighted[p] <=> (request.flag \/ Takes(k))
    BY <1>2, <1>3, Zenon DEF Weighing, WeightsAreTaken
  <1>6. axisymmetric <=> AxisAmong(request, last)
    BY Zenon DEF Weighing, FlagIsComplete
  <1>7. handler[p].weighsWalls <=> axisymmetric
    BY <1>1 DEF Weighing, WallsAreTold, FluxesAreWeighed
  <1>8. CASE p = "AxisymmetricHeatTransfer"
    <2>1. Weight(p) = TRUE
      BY <1>8, Tables DEF Weight, HandlerOf
    <2> QED
      BY <1>1, <1>2, <1>4, <1>5, <1>8, <2>1, Zenon DEF Takes
  <1>9. CASE p = "ElasticCable"
    <2>1. Weight(p) = FALSE
      BY <1>9 DEF Weight, HandlerOf
    <2>2. ~request.flag
      BY <1>2, <1>9 DEF AxisIsKnown
    <2>3. ~Takes(k)
      BY <1>2, <1>9 DEF Takes, ReadsFlag
    <2> QED
      BY <1>1, <1>4, <1>5, <2>1, <2>2, <2>3, Zenon
  <1>10. CASE p \in {"HeatTransfer", "ReactingLowMachNavierStokes"}
    <2>1. Weight(p) <=> axisymmetric
      BY <1>7, <1>10 DEF Weight, HandlerOf
    <2>2. Weight(p) \in BOOLEAN
      BY <1>4, <1>10 DEF Weight, HandlerOf
    <2>3. (request.flag \/ AxisAmong(request, k)) = AxisAmong(request, last)
      BY <1>2, <1>10 DEF AxisIsKnown
    <2>4. Takes(k) <=> AxisAmong(request, k)
      BY <1>2, <1>10 DEF Takes, ReadsFlag
    <2> QED
      BY <1>1, <1>4, <1>5, <1>6, <2>1, <2>2, <2>3, <2>4, Zenon
  <1> QED
    BY <1>1, <1>8, <1>9, <1>10 DEF AppliesFluxes

\* An input that makes the axis known before a physics with fluxes is
\* constructed gets every flux with the weight of its equation, whatever the
\* physics, the boundaries and the sides.
THEOREM WeightsAreOfEquations ==
  Spec => [](AxisIsKnown(request) => WeightsAgree)
  <1>1. Init => Weighing
    BY WeighingInit
  <1>2. Weighing /\ TypeOK' /\ [Next]_vars => Weighing'
    BY WeighingKept
  <1>3. Weighing => (AxisIsKnown(request) => WeightsAgree)
    BY WeightsMeet
  <1> QED
    BY <1>1, <1>2, <1>3, TypeCorrect, PTL DEF Spec

(***************************************************************************)
(* What the handlers hold.  Each property about the conditions an input    *)
(* asks for rests on the same fact: at every step of the construction a    *)
(* handler holds what the entries its physics has read ask for, in their   *)
(* order, and nothing that comes later takes any of it away.               *)
(***************************************************************************)

In(x, list) == \E k \in DOMAIN list : list[k] = x

\* How many entries of a physics have been read.
Done(p) ==
  IF \E k \in 1..built : request.physics[k] = p THEN Len(Entries(p))
  ELSE IF built < Len(request.physics) /\ p = Constructing THEN read ELSE 0

\* What the handler s of the physics p holds of the first n entries in q, and of
\* the user's conditions u.
HoldsFluxes(p, q, s, n) ==
  /\ \A id \in Ids : s.neumann[id] # None =>
       \E i \in 1..n : /\ IsFlux(p, q[i])
                       /\ q[i].id = id
                       /\ s.neumann[id] = q[i].type
  /\ \A i \in 1..n :
       IsFlux(p, q[i]) => s.neumann[q[i].id] # None
HoldsWalls(p, q, s, n) ==
  \A w : w \in s.walls <=>
    \E i \in 1..n : q[i].type \in WallTypes /\ w \in Walls(q[i])

IsPeriodic(e) == e.type = "periodic"
PairOf(e) == <<e.id, Slave(e)>>
HoldsPairs(p, q, s, n) ==
  /\ (\E i \in 1..n : IsPeriodic(q[i])) => s.counted >= 1
  /\ (\E i, j \in 1..n : i < j /\ IsPeriodic(q[i]) /\ IsPeriodic(q[j])) =>
       s.counted >= 2
  /\ \A k \in DOMAIN s.pairs :
       \E i \in 1..n : /\ IsMaster(q[i])
                       /\ s.pairs[k] = PairOf(q[i])

ListOf(e) == <<e.id, e.type>>
Ordered(p, e) == e.type \in DirichletTypes[HandlerOf[p]]
IsListed(p, e) == Ordered(p, e) \/ e.type \in TempTypes \union SpeciesTypes
HoldsLists(p, q, s, n) ==
  \A l : In(l, AllLists(s)) <=>
    \E i \in 1..n : IsListed(p, q[i]) /\ l = ListOf(q[i])
HoldsOrder(p, q, s, n) ==
  /\ \A i \in 1..n :
       Ordered(p, q[i]) => In(ListOf(q[i]), s.dirichlet)
  /\ \A i, j \in 1..n :
       (i < j /\ Ordered(p, q[i]) /\ Ordered(p, q[j])) =>
         \E a, b \in DOMAIN s.dirichlet :
           /\ a < b
           /\ s.dirichlet[a] = ListOf(q[i])
           /\ s.dirichlet[b] = ListOf(q[j])

HoldsValues(p, q, s, n) == \A i \in 1..n : Stores(q[i]) \subseteq s.values
HoldsObjects(p, q, s, n, u) ==
  \A c : In(c, s.objects) <=>
    \/ \E i \in 1..n : In(c, Objects(HandlerOf[p], q[i]))
    \/ In(c, u)

HasRead(p, q, s, n, u) ==
  /\ \A i \in 1..n : ~Refuses(HandlerOf[p], q[i])
  /\ HoldsFluxes(p, q, s, n)
  /\ HoldsWalls(p, q, s, n)
  /\ HoldsPairs(p, q, s, n)
  /\ HoldsLists(p, q, s, n)
  /\ HoldsOrder(p, q, s, n)
  /\ HoldsValues(p, q, s, n)
  /\ HoldsObjects(p, q, s, n, u)

Attached(p) == IF pc = "construct" THEN <<>> ELSE request.user[p]
HandlersHold ==
  pc \in {"construct", "init", "solve"} =>
    \A p \in Physics :
      HasRead(p, Entries(p), handler[p], Done(p), Attached(p))

\* The members of the lists the code builds.
LEMMA Members ==
  ASSUME NEW S, NEW a \in Seq(S), NEW b \in Seq(S)
  PROVE  /\ \A x : In(x, a \o b) <=> In(x, a) \/ In(x, b)
         /\ \A x : \A y \in S : In(x, Append(a, y)) <=> In(x, a) \/ x = y
         /\ a # <<>> => \A x : In(x, a) <=> x = Head(a) \/ In(x, Tail(a))
         /\ \A x : ~In(x, <<>>)
  <1>1. ASSUME NEW x
        PROVE  In(x, a \o b) <=> In(x, a) \/ In(x, b)
    <2>1. Len(a) \in Nat /\ Len(b) \in Nat /\ DOMAIN a = 1..Len(a)
          /\ DOMAIN b = 1..Len(b) /\ DOMAIN (a \o b) = 1..(Len(a) + Len(b))
      OBVIOUS
    <2>2. \A k \in 1..Len(a) : (a \o b)[k] = a[k]
      OBVIOUS
    <2>3. \A k \in 1..Len(b) : (a \o b)[Len(a) + k] = b[k]
      OBVIOUS
    <2>4. \A k \in 1..(Len(a) + Len(b)) :
            k \in 1..Len(a) \/ \E m \in 1..Len(b) : k = Len(a) + m
      <3> TAKE k \in 1..(Len(a) + Len(b))
      <3>1. CASE k <= Len(a)
        BY <2>1, <3>1
      <3>2. CASE k > Len(a)
        <4>1. k - Len(a) \in 1..Len(b) /\ k = Len(a) + (k - Len(a))
          BY <2>1, <3>2
        <4> QED
          BY <4>1
      <3> QED
        BY <2>1, <3>1, <3>2
    <2>5. \A k \in 1..Len(b) : Len(a) + k \in 1..(Len(a) + Len(b))
      BY <2>1
    <2>6. \A k \in 1..Len(a) : k \in 1..(Len(a) + Len(b))
      BY <2>1
    <2>7. ASSUME In(x, a \o b)
          PROVE  In(x, a) \/ In(x, b)
      <3>1. PICK k \in 1..(Len(a) + Len(b)) : (a \o b)[k] = x
        BY <2>1, <2>7 DEF In
      <3> QED
        BY <2>1, <2>2, <2>3, <2>4, <3>1 DEF In
    <2> QED
      BY <2>1, <2>2, <2>3, <2>5, <2>6, <2>7 DEF In
  <1>2. ASSUME NEW x, NEW y \in S
        PROVE  In(x, Append(a, y)) <=> In(x, a) \/ x = y
    <2>1. /\ Len(a) \in Nat /\ DOMAIN a = 1..Len(a)
          /\ DOMAIN Append(a, y) = 1..(Len(a) + 1)
          /\ \A k \in 1..Len(a) : Append(a, y)[k] = a[k]
          /\ Append(a, y)[Len(a) + 1] = y
      OBVIOUS
    <2>2. 1..(Len(a) + 1) = (1..Len(a)) \union {Len(a) + 1}
      BY <2>1
    <2> QED
      BY <2>1, <2>2 DEF In
  <1>3. ASSUME NEW x, a # <<>>
        PROVE  In(x, a) <=> x = Head(a) \/ In(x, Tail(a))
    <2>1. Len(a) \in Nat \ {0} /\ DOMAIN a = 1..Len(a)
          /\ DOMAIN Tail(a) = 1..(Len(a) - 1) /\ Head(a) = a[1]
          /\ \A k \in 1..(Len(a) - 1) : Tail(a)[k] = a[k + 1]
      BY <1>3
    <2>2. ASSUME NEW k \in 1..Len(a), k # 1
          PROVE  k - 1 \in 1..(Len(a) - 1) /\ a[k] = Tail(a)[k - 1]
      BY <2>1, <2>2
    <2>3. \A k \in 1..(Len(a) - 1) : k + 1 \in 1..Len(a)
      BY <2>1
    <2>4. 1 \in 1..Len(a)
      BY <2>1
    <2> QED
      BY <2>1, <2>2, <2>3, <2>4 DEF In
  <1>4. \A x : ~In(x, <<>>)
    BY DEF In
  <1> QED
    BY <1>1, <1>2, <1>3, <1>4

\* What an entry adds to a handler.
LEMMA AfterEntryLists ==
  ASSUME NEW h \in Handlers, NEW s \in HandlerStates, NEW e
  PROVE  /\ AfterEntry(h, s, e).dirichlet =
              IF e.type \in DirichletTypes[h]
              THEN Append(s.dirichlet, ListOf(e)) ELSE s.dirichlet
         /\ AfterEntry(h, s, e).temp =
              IF e.type \in TempTypes THEN Append(s.temp, ListOf(e)) ELSE s.temp
         /\ AfterEntry(h, s, e).species =
              IF e.type \in SpeciesTypes
              THEN Append(s.species, ListOf(e)) ELSE s.species
         /\ AfterEntry(h, s, e).pairs =
              IF IsMaster(e) THEN Append(s.pairs, PairOf(e)) ELSE s.pairs
         /\ AfterEntry(h, s, e).counted =
              IF e.type = "periodic" THEN s.counted + 1 ELSE s.counted
  BY DEF AfterEntry, HandlerStates, ListOf, PairOf, AddIf, Listing

LEMMA AfterEntryFlux ==
  ASSUME NEW h \in Handlers, NEW s \in HandlerStates, NEW e, NEW id \in Ids
  PROVE  AfterEntry(h, s, e).neumann[id] =
           IF id = e.id /\ e.type \in NeumannTypes[h]
           THEN e.type ELSE s.neumann[id]
  BY DEF AfterEntry, HandlerStates

LEMMA AfterEntryWalls ==
  ASSUME NEW h \in Handlers, NEW s \in HandlerStates, NEW e
  PROVE  AfterEntry(h, s, e).walls =
           IF e.type \in WallTypes THEN s.walls \union Walls(e) ELSE s.walls
  BY DEF AfterEntry, HandlerStates

LEMMA OneMore ==
  ASSUME NEW n \in Nat
  PROVE  1..(n + 1) = (1..n) \union {n + 1}
  OBVIOUS

\* One entry more, seen from the handler it is added to.
LEMMA FluxesOneMore ==
  ASSUME NEW p \in Physics, NEW q, NEW s \in HandlerStates, NEW n \in Nat,
         HoldsFluxes(p, q, s, n), HoldsWalls(p, q, s, n),
         \A i \in 1..n : q[i] \in Entry,
         HandlerOf[p] \in Handlers, NEW e \in Entry, e = q[n + 1],
         ~Refuses(HandlerOf[p], e), NEW t, t = AfterEntry(HandlerOf[p], s, e)
  PROVE  HoldsFluxes(p, q, t, n + 1) /\ HoldsWalls(p, q, t, n + 1)
  <1>1. /\ \A id \in Ids : t.neumann[id] = IF id = e.id /\ IsFlux(p, e)
                                           THEN e.type ELSE s.neumann[id]
        /\ t.walls = IF e.type \in WallTypes THEN s.walls \union Walls(e)
                     ELSE s.walls
    BY AfterEntryFlux, AfterEntryWalls DEF IsFlux
  <1>2. s.neumann \in [Ids -> Types \union {None}] /\ e.id \in Ids
        /\ e.type # None
    <2>1. None \notin Types
      BY DEF None, Types, Accepted, Handlers, DirichletTypes, NeumannTypes,
             LowMachOnly, ReactingOnly, BaseTypes, FunctionTypes, FlowTypes,
             LowMachTypes, SolidTypes, TempTypes, SpeciesTypes, HeatFluxTypes,
             WallTypes
    <2>2. e.type \in Types
      BY Accepting, Zenon
    <2> QED
      BY <2>1, <2>2 DEF HandlerStates, Entry
  <1>3. HoldsFluxes(p, q, t, n + 1)
    <2>1. ASSUME NEW id \in Ids, t.neumann[id] # None
          PROVE  \E i \in 1..(n + 1) : /\ IsFlux(p, q[i])
                                       /\ q[i].id = id
                                       /\ t.neumann[id] = q[i].type
      <3>1. CASE IsFlux(p, e) /\ e.id = id
        <4>1. t.neumann[id] = e.type
          BY <1>1, <1>2, <3>1
        <4>2. n + 1 \in 1..(n + 1)
          OBVIOUS
        <4> QED
          BY <3>1, <4>1, <4>2
      <3>2. CASE ~(IsFlux(p, e) /\ e.id = id)
        <4>1. t.neumann[id] = s.neumann[id]
          BY <1>1, <1>2, <3>2
        <4> QED
          BY <2>1, <4>1, OneMore DEF HoldsFluxes
      <3> QED
        BY <3>1, <3>2
    <2>2. ASSUME NEW i \in 1..(n + 1), IsFlux(p, q[i])
          PROVE  t.neumann[q[i].id] # None
      <3>1. CASE i = n + 1
        BY <1>1, <1>2, <2>2, <3>1
      <3>2. CASE i \in 1..n
        <4>1. s.neumann[q[i].id] # None
          BY <2>2, <3>2 DEF HoldsFluxes
        <4>2. q[i].id \in Ids
          BY <3>2 DEF Entry
        <4> QED
          BY <1>1, <1>2, <4>1, <4>2
      <3> QED
        BY <3>1, <3>2, OneMore
    <2> QED
      BY <2>1, <2>2 DEF HoldsFluxes
  <1>4. HoldsWalls(p, q, t, n + 1)
    BY <1>1, OneMore DEF HoldsWalls
  <1> QED
    BY <1>3, <1>4

LEMMA PairsOneMore ==
  ASSUME NEW p \in Physics, NEW q, NEW s \in HandlerStates, NEW n \in Nat,
         HoldsPairs(p, q, s, n), HandlerOf[p] \in Handlers,
         NEW e \in Entry, e = q[n + 1], ~Refuses(HandlerOf[p], e),
         NEW t, t = AfterEntry(HandlerOf[p], s, e)
  PROVE  HoldsPairs(p, q, t, n + 1)
  <1>1. /\ t.counted = IF IsPeriodic(e) THEN s.counted + 1 ELSE s.counted
        /\ t.pairs = IF IsMaster(e) THEN Append(s.pairs, PairOf(e)) ELSE s.pairs
    BY AfterEntryLists DEF IsPeriodic
  <1>2. /\ s.counted \in Nat /\ s.pairs \in Seq(Ids \X Ids)
        /\ IsMaster(e) => PairOf(e) \in Ids \X Ids
    BY SlaveIsId DEF HandlerStates, PairOf, Entry
  <1>3. ASSUME NEW k \in DOMAIN t.pairs
        PROVE  \E i \in 1..(n + 1) : /\ IsMaster(q[i])
                                     /\ t.pairs[k] = PairOf(q[i])
    <2>1. In(t.pairs[k], t.pairs)
      BY DEF In
    <2>2. In(t.pairs[k], s.pairs) \/ (IsMaster(e) /\ t.pairs[k] = PairOf(e))
      <3>1. CASE IsMaster(e)
        <4>1. t.pairs = Append(s.pairs, PairOf(e))
          BY <1>1, <3>1
        <4> QED
          BY <1>2, <2>1, <3>1, <4>1, Members
      <3>2. CASE ~IsMaster(e)
        BY <1>1, <2>1, <3>2
      <3> QED
        BY <3>1, <3>2
    <2>3. CASE In(t.pairs[k], s.pairs)
      BY <2>3, OneMore DEF In, HoldsPairs
    <2>4. CASE IsMaster(e) /\ t.pairs[k] = PairOf(e)
      <3>1. n + 1 \in 1..(n + 1)
        OBVIOUS
      <3> QED
        BY <2>4, <3>1
    <2> QED
      BY <2>2, <2>3, <2>4
  <1>4. ASSUME NEW i \in 1..(n + 1), IsPeriodic(q[i])
        PROVE  t.counted >= 1
    <2>1. i = n + 1 \/ i \in 1..n
      BY OneMore
    <2> QED
      BY <1>1, <1>2, <1>4, <2>1 DEF HoldsPairs
  <1>5. ASSUME NEW i \in 1..(n + 1), NEW j \in 1..(n + 1), i < j,
               IsPeriodic(q[i]), IsPeriodic(q[j])
        PROVE  t.counted >= 2
    <2>1. i \in 1..n /\ (j = n + 1 \/ j \in 1..n)
      BY <1>5
    <2>2. s.counted >= 1
      BY <1>5, <2>1 DEF HoldsPairs
    <2>3. CASE j = n + 1
      BY <1>1, <1>2, <1>5, <2>2, <2>3
    <2>4. CASE j \in 1..n
      <3>1. s.counted >= 2
        BY <1>5, <2>1, <2>4 DEF HoldsPairs
      <3> QED
        BY <1>1, <1>2, <3>1
    <2> QED
      BY <2>1, <2>3, <2>4
  <1> QED
    BY <1>3, <1>4, <1>5 DEF HoldsPairs

LEMMA ListsOneMore ==
  ASSUME NEW p \in Physics, NEW q, NEW s \in HandlerStates, NEW n \in Nat,
         HoldsLists(p, q, s, n), HoldsOrder(p, q, s, n),
         HandlerOf[p] \in Handlers, NEW e \in Entry, e = q[n + 1],
         ~Refuses(HandlerOf[p], e), NEW t, t = AfterEntry(HandlerOf[p], s, e)
  PROVE  HoldsLists(p, q, t, n + 1) /\ HoldsOrder(p, q, t, n + 1)
  <1>1. /\ t.dirichlet = IF Ordered(p, e) THEN Append(s.dirichlet, ListOf(e)) ELSE s.dirichlet
        /\ t.temp = IF e.type \in TempTypes THEN Append(s.temp, ListOf(e)) ELSE s.temp
        /\ t.species = IF e.type \in SpeciesTypes
                       THEN Append(s.species, ListOf(e)) ELSE s.species
    BY AfterEntryLists DEF Ordered
  <1>2. /\ s.dirichlet \in Seq(IdTypes) /\ s.temp \in Seq(IdTypes)
        /\ s.species \in Seq(IdTypes)
        /\ IsListed(p, e) => ListOf(e) \in IdTypes
    <2>1. e.id \in Ids
      BY DEF Entry
    <2> QED
      BY <2>1, ImposingTypes DEF HandlerStates, IdTypes, ListOf, IsListed, Ordered
  <1>2a. /\ Ordered(p, e) => ListOf(e) \in IdTypes
         /\ e.type \in TempTypes => ListOf(e) \in IdTypes
         /\ e.type \in SpeciesTypes => ListOf(e) \in IdTypes
    BY <1>2 DEF IsListed
  <1>3. /\ t.dirichlet \in Seq(IdTypes) /\ t.temp \in Seq(IdTypes)
        /\ t.species \in Seq(IdTypes)
    BY AfterEntryType DEF HandlerStates
  <1>4. ASSUME NEW x, NEW a \in Seq(IdTypes), NEW b \in Seq(IdTypes),
               NEW c \in Seq(IdTypes)
        PROVE  In(x, a \o b \o c) <=> In(x, a) \/ In(x, b) \/ In(x, c)
    <2>1. a \o b \in Seq(IdTypes)
      BY ListFacts
    <2>2. In(x, (a \o b) \o c) <=> In(x, a \o b) \/ In(x, c)
      BY <2>1, Members
    <2>3. In(x, a \o b) <=> In(x, a) \/ In(x, b)
      BY Members
    <2> QED
      BY <2>2, <2>3
  <1>5. ASSUME NEW l
        PROVE  In(l, AllLists(t)) <=>
                 In(l, AllLists(s)) \/ (IsListed(p, e) /\ l = ListOf(e))
    <2>1. In(l, t.dirichlet) <=>
            In(l, s.dirichlet) \/ (Ordered(p, e) /\ l = ListOf(e))
      BY <1>1, <1>2, <1>2a, Members
    <2>2. In(l, t.temp) <=>
            In(l, s.temp) \/ (e.type \in TempTypes /\ l = ListOf(e))
      BY <1>1, <1>2, <1>2a, Members
    <2>3. In(l, t.species) <=>
            In(l, s.species) \/ (e.type \in SpeciesTypes /\ l = ListOf(e))
      BY <1>1, <1>2, <1>2a, Members
    <2>4. In(l, AllLists(s)) <=>
            In(l, s.dirichlet) \/ In(l, s.temp) \/ In(l, s.species)
      BY <1>2, <1>4 DEF AllLists
    <2>5. In(l, AllLists(t)) <=>
            In(l, t.dirichlet) \/ In(l, t.temp) \/ In(l, t.species)
      <3>1. AllLists(t) = (t.dirichlet \o t.temp) \o t.species
        BY DEF AllLists
      <3>2. In(l, (t.dirichlet \o t.temp) \o t.species) <=>
              In(l, t.dirichlet) \/ In(l, t.temp) \/ In(l, t.species)
        BY <1>3, <1>4
      <3> QED
        BY <3>1, <3>2
    <2> QED
      BY <2>1, <2>2, <2>3, <2>4, <2>5 DEF IsListed
  <1>6. HoldsLists(p, q, t, n + 1)
    <2>1. n + 1 \in 1..(n + 1)
      OBVIOUS
    <2> QED
      BY <1>5, <2>1, OneMore, Zenon DEF HoldsLists
  <1>7. HoldsOrder(p, q, t, n + 1)
    <2>0. ASSUME NEW i \in 1..(n + 1), Ordered(p, q[i])
          PROVE  In(ListOf(q[i]), t.dirichlet)
      <3>1. In(ListOf(q[i]), t.dirichlet) <=>
              \/ In(ListOf(q[i]), s.dirichlet)
              \/ Ordered(p, e) /\ ListOf(q[i]) = ListOf(e)
        BY <1>1, <1>2, <1>2a, Members
      <3> QED
        BY <2>0, <3>1, OneMore DEF HoldsOrder
    <2> SUFFICES ASSUME NEW i \in 1..(n + 1), NEW j \in 1..(n + 1), i < j,
                        Ordered(p, q[i]), Ordered(p, q[j])
                 PROVE  \E a, b \in DOMAIN t.dirichlet :
                          /\ a < b
                          /\ t.dirichlet[a] = ListOf(q[i])
                          /\ t.dirichlet[b] = ListOf(q[j])
      BY <2>0 DEF HoldsOrder
    <2>1. /\ DOMAIN s.dirichlet = 1..Len(s.dirichlet)
          /\ Len(s.dirichlet) \in Nat
      BY <1>2
    <2>2. i \in 1..n /\ (j = n + 1 \/ j \in 1..n)
      OBVIOUS
    <2>3. CASE j = n + 1
      <3>1. t.dirichlet = Append(s.dirichlet, ListOf(e))
        BY <1>1, <2>3
      <3>2. /\ DOMAIN t.dirichlet = 1..(Len(s.dirichlet) + 1)
            /\ \A a \in 1..Len(s.dirichlet) : t.dirichlet[a] = s.dirichlet[a]
            /\ t.dirichlet[Len(s.dirichlet) + 1] = ListOf(e)
        BY <1>2, <3>1, ListFacts
      <3>3. In(ListOf(q[i]), s.dirichlet)
        BY <2>2 DEF HoldsOrder
      <3>4. PICK a \in 1..Len(s.dirichlet) :
              s.dirichlet[a] = ListOf(q[i])
        BY <2>1, <3>3 DEF In
      <3>5. /\ a \in DOMAIN t.dirichlet
            /\ Len(s.dirichlet) + 1 \in DOMAIN t.dirichlet
            /\ a < Len(s.dirichlet) + 1
        BY <2>1, <3>2
      <3>6. /\ t.dirichlet[a] = ListOf(q[i])
            /\ t.dirichlet[Len(s.dirichlet) + 1] = ListOf(q[j])
        BY <2>3, <3>2, <3>4
      <3> QED
        BY <3>5, <3>6
    <2>4. CASE j \in 1..n
      <3>1. PICK a, b \in DOMAIN s.dirichlet :
              /\ a < b
              /\ s.dirichlet[a] = ListOf(q[i])
              /\ s.dirichlet[b] = ListOf(q[j])
        BY <2>2, <2>4 DEF HoldsOrder
      <3>2. /\ DOMAIN s.dirichlet \subseteq DOMAIN t.dirichlet
            /\ \A k \in DOMAIN s.dirichlet : t.dirichlet[k] = s.dirichlet[k]
        BY <1>1, <1>2, <2>1
      <3> QED
        BY <3>1, <3>2
    <2> QED
      BY <2>2, <2>3, <2>4
  <1> QED
    BY <1>6, <1>7

LEMMA ObjectsOneMore ==
  ASSUME NEW p \in Physics, NEW q, NEW u, NEW s \in HandlerStates, NEW n \in Nat,
         HoldsValues(p, q, s, n), HoldsObjects(p, q, s, n, u),
         HandlerOf[p] \in Handlers, NEW e \in Entry, e = q[n + 1],
         NEW t, t = AfterEntry(HandlerOf[p], s, e)
  PROVE  HoldsValues(p, q, t, n + 1) /\ HoldsObjects(p, q, t, n + 1, u)
  <1>1. /\ t.values = s.values \union Stores(e)
        /\ t.objects = s.objects \o Objects(HandlerOf[p], e)
    BY DEF AfterEntry, HandlerStates
  <1>2. /\ s.objects \in Seq(Condition)
        /\ Objects(HandlerOf[p], e) \in Seq(Condition)
    BY ObjectsType DEF HandlerStates
  <1>3. HoldsValues(p, q, t, n + 1)
    BY <1>1, OneMore DEF HoldsValues
  <1>4. \A c : In(c, t.objects) <=>
                 In(c, s.objects) \/ In(c, Objects(HandlerOf[p], e))
    BY <1>1, <1>2, Members
  <1>5. n + 1 \in 1..(n + 1)
    OBVIOUS
  <1>6. HoldsObjects(p, q, t, n + 1, u)
    <2>1. \A c : In(c, s.objects) <=>
            \/ \E i \in 1..n : In(c, Objects(HandlerOf[p], q[i]))
            \/ In(c, u)
      BY Zenon DEF HoldsObjects
    <2>2. \A c : In(c, t.objects) <=>
            \/ \E i \in 1..(n + 1) : In(c, Objects(HandlerOf[p], q[i]))
            \/ In(c, u)
      BY <1>4, <1>5, <2>1, OneMore, Zenon
    <2> QED
      BY <2>2, Zenon DEF HoldsObjects
  <1> QED
    BY <1>3, <1>6

LEMMA ReadOneMore ==
  ASSUME NEW p \in Physics, NEW q, NEW u, NEW s \in HandlerStates, NEW n \in Nat,
         HasRead(p, q, s, n, u),
         \A i \in 1..n : q[i] \in Entry,
         NEW e \in Entry, e = q[n + 1], ~Refuses(HandlerOf[p], e)
  PROVE  HasRead(p, q, AfterEntry(HandlerOf[p], s, e), n + 1, u)
  <1>1. HandlerOf[p] \in Handlers
    BY Tables
  <1> DEFINE t == AfterEntry(HandlerOf[p], s, e)
  <1>2. \A i \in 1..(n + 1) : ~Refuses(HandlerOf[p], q[i])
    BY OneMore DEF HasRead
  <1>3. HoldsFluxes(p, q, t, n + 1) /\ HoldsWalls(p, q, t, n + 1)
    BY <1>1, FluxesOneMore DEF HasRead
  <1>4. HoldsPairs(p, q, t, n + 1)
    BY <1>1, PairsOneMore DEF HasRead
  <1>5. HoldsLists(p, q, t, n + 1) /\ HoldsOrder(p, q, t, n + 1)
    BY <1>1, ListsOneMore DEF HasRead
  <1>6. HoldsValues(p, q, t, n + 1) /\ HoldsObjects(p, q, t, n + 1, u)
    BY <1>1, ObjectsOneMore DEF HasRead
  <1> QED
    BY <1>2, <1>3, <1>4, <1>5, <1>6 DEF HasRead

(***************************************************************************)
(* The steps of the construction and of the initialisation.                *)
(***************************************************************************)

\* What is about the conditions does not change in a handler when it is told
\* the weight of its walls or given its functions.
SameConditions(s, t) ==
  /\ t.dirichlet = s.dirichlet /\ t.temp = s.temp /\ t.species = s.species
  /\ t.neumann = s.neumann /\ t.values = s.values /\ t.objects = s.objects
  /\ t.counted = s.counted /\ t.pairs = s.pairs /\ t.walls = s.walls

LEMMA Holding ==
  ASSUME NEW p, NEW q, NEW u, NEW s, NEW t, NEW n,
         HasRead(p, q, s, n, u), SameConditions(s, t)
  PROVE  HasRead(p, q, t, n, u)
  <1>1. /\ AllLists(t) = AllLists(s) /\ t.dirichlet = s.dirichlet
        /\ t.neumann = s.neumann /\ t.values = s.values
        /\ t.objects = s.objects /\ t.counted = s.counted
        /\ t.pairs = s.pairs /\ t.walls = s.walls
    BY DEF SameConditions, AllLists
  <1>2. HoldsFluxes(p, q, t, n)
    BY <1>1 DEF HasRead, HoldsFluxes
  <1>3. HoldsWalls(p, q, t, n)
    BY <1>1 DEF HasRead, HoldsWalls
  <1>4. HoldsPairs(p, q, t, n)
    BY <1>1 DEF HasRead, HoldsPairs
  <1>5. HoldsLists(p, q, t, n) /\ HoldsOrder(p, q, t, n)
    BY <1>1 DEF HasRead, HoldsLists, HoldsOrder
  <1>6. HoldsValues(p, q, t, n) /\ HoldsObjects(p, q, t, n, u)
    BY <1>1 DEF HasRead, HoldsValues, HoldsObjects
  <1> QED
    BY <1>2, <1>3, <1>4, <1>5, <1>6 DEF HasRead

\* At the start no handler holds anything, and nothing has been read.
LEMMA HandlersInit ==
  ASSUME Init
  PROVE  HandlersHold
  <1> SUFFICES ASSUME NEW p \in Physics
               PROVE  HasRead(p, Entries(p), Empty, 0, <<>>)
    <2>1. 1..0 = {}
      OBVIOUS
    <2>2. pc = "construct" /\ \A x \in Physics : handler[x] = Empty /\ Done(x) = 0
      BY <2>1, Zenon DEF Init, Done
    <2> QED
      BY <2>2, Zenon DEF HandlersHold, Attached
  <1>1. 1..0 = {} /\ \A x : ~In(x, <<>>)
    BY DEF In
  <1>2. /\ Empty.neumann = [i \in Ids |-> None] /\ Empty.walls = {}
        /\ Empty.pairs = <<>> /\ AllLists(Empty) = <<>> /\ Empty.objects = <<>>
    BY DEF Empty, AllLists
  <1>3. HoldsFluxes(p, Entries(p), Empty, 0) /\ HoldsWalls(p, Entries(p), Empty, 0)
    BY <1>1, <1>2 DEF HoldsFluxes, HoldsWalls
  <1>4. HoldsPairs(p, Entries(p), Empty, 0)
    BY <1>1, <1>2 DEF HoldsPairs
  <1>5. HoldsLists(p, Entries(p), Empty, 0) /\ HoldsOrder(p, Entries(p), Empty, 0)
    BY <1>1, <1>2 DEF HoldsLists, HoldsOrder
  <1>6. /\ HoldsValues(p, Entries(p), Empty, 0)
        /\ HoldsObjects(p, Entries(p), Empty, 0, <<>>)
    BY <1>1, <1>2 DEF HoldsValues, HoldsObjects
  <1> QED
    BY <1>1, <1>3, <1>4, <1>5, <1>6 DEF HasRead

\* Reading an entry adds to the handler of its physics what the entry asks for.
LEMMA HandlersRead ==
  ASSUME Weighing, HandlersHold, ReadEntry, pc' = "construct"
  PROVE  HandlersHold'
  <1> DEFINE c == Constructing
             e == Entries(c)[read + 1]
  <1>1. /\ pc = "construct" /\ built < Len(request.physics)
        /\ read < Len(Entries(c)) /\ UNCHANGED <<request, built>>
        /\ ~Refuses(HandlerOf[c], e) /\ read' = read + 1
        /\ handler' = [handler EXCEPT ![c] = AfterEntry(HandlerOf[c], handler[c], e)]
    BY DEF ReadEntry
  <1>2. /\ c \in Physics /\ read \in Nat /\ built \in Nat
        /\ built + 1 \in DOMAIN request.physics /\ DOMAIN request.physics = 1..Len(request.physics)
        /\ Entries(c) \in Seq(Entry) /\ handler[c] \in HandlerStates
        /\ c = request.physics[built + 1]
    <2>1. request.physics \in Seq(Physics) /\ request.entries \in [Physics -> Seq(Entry)]
      BY DEF Weighing, TypeOK, RequestType
    <2>2. built \in Nat /\ built < Len(request.physics) /\ read \in Nat
      BY <1>1 DEF Weighing, TypeOK
    <2>3. c \in Physics
      BY <2>1, <2>2 DEF Constructing
    <2> QED
      BY <2>1, <2>2, <2>3 DEF Weighing, TypeOK, Constructing, Entries
  <1>3. \A i \in 1..(read + 1) : Entries(c)[i] \in Entry
    BY <1>1, <1>2
  <1>4. ~\E k \in 1..built : request.physics[k] = c
    <2>1. ASSUME NEW k \in 1..built, request.physics[k] = c
          PROVE  FALSE
      <3>1. k \in DOMAIN request.physics /\ k # built + 1
        BY <1>1, <1>2
      <3> QED
        BY <1>2, <2>1, <3>1 DEF Weighing, NoPhysicsTwice
    <2> QED
      BY <2>1
  <1>5. \A p : p = c => Done(p) = read /\ Done(p)' = read + 1
    BY <1>1, <1>4, Zenon DEF Done, Constructing
  <1>6. ASSUME NEW p \in Physics
        PROVE  HasRead(p, Entries(p), handler'[p], Done(p)', <<>>)
    <2>1. HasRead(p, Entries(p), handler[p], Done(p), <<>>)
      BY <1>1 DEF HandlersHold, Attached
    <2>2. CASE p = c
      <3>1. handler'[p] = AfterEntry(HandlerOf[p], handler[p], e)
        BY <1>1, <1>2, <2>2 DEF Weighing, TypeOK
      <3>2. HasRead(p, Entries(p), handler[p], read, <<>>)
        BY <1>5, <2>1, <2>2, Zenon
      <3>3. HasRead(p, Entries(p), AfterEntry(HandlerOf[p], handler[p], e), read + 1, <<>>)
        <4>1. /\ e \in Entry /\ e = Entries(p)[read + 1]
              /\ ~Refuses(HandlerOf[p], e) /\ handler[p] \in HandlerStates
              /\ \A i \in 1..read : Entries(p)[i] \in Entry
          BY <1>1, <1>2, <1>3, <2>2
        <4> HIDE DEF c, e
        <4> QED
          BY <1>2, <3>2, <4>1, ReadOneMore
      <3> QED
        BY <1>5, <2>2, <3>1, <3>3, Zenon
    <2>3. CASE p # c
      <3>1. handler'[p] = handler[p]
        BY <1>1, <1>2, <2>3 DEF Weighing, TypeOK
      <3>2. Done(p)' = Done(p)
        BY <1>1, <2>3, Zenon DEF Done, Constructing, Entries
      <3> QED
        BY <2>1, <3>1, <3>2
    <2> QED
      BY <2>2, <2>3
  <1> QED
    BY <1>1, <1>6, Zenon DEF HandlersHold, Attached, Entries

\* The end of a constructor changes nothing: the physics has read its entries.
LEMMA HandlersConstruct ==
  ASSUME Weighing, HandlersHold, ConstructPhysics
  PROVE  HandlersHold'
  <1>1. /\ pc = "construct" /\ pc' = pc /\ built < Len(request.physics)
        /\ read = Len(Entries(Constructing)) /\ built' = built + 1 /\ read' = 0
        /\ UNCHANGED <<request, handler>>
    BY DEF ConstructPhysics
  <1>2. built \in Nat
    BY DEF Weighing, TypeOK
  <1>3. ASSUME NEW p \in Physics
        PROVE  Done(p)' = Done(p)
    <2>1. (\E k \in 1..(built + 1) : request.physics[k] = p) <=>
            \/ \E k \in 1..built : request.physics[k] = p
            \/ p = Constructing
      BY <1>2, OneMore DEF Constructing
    <2>2. Done(p)' = IF \E k \in 1..(built + 1) : request.physics[k] = p
                     THEN Len(Entries(p)) ELSE 0
      BY <1>1, Zenon DEF Done, Entries
    <2> QED
      BY <1>1, <2>1, <2>2, Zenon DEF Done
  <1> QED
    BY <1>1, <1>3, Zenon DEF HandlersHold, Attached, Entries

\* Attaching the user's functions adds them to the function objects.
LEMMA HandlersAttach ==
  ASSUME Weighing, HandlersHold, AttachDirichletFuncs
  PROVE  HandlersHold'
  <1>1. /\ pc = "construct" /\ pc' = "init" /\ UNCHANGED <<request, Setup>>
        /\ handler' = [p \in Physics |->
              [handler[p] EXCEPT !.objects = handler[p].objects \o request.user[p]]]
    BY DEF AttachDirichletFuncs
  <1>2. ASSUME NEW p \in Physics
        PROVE  HasRead(p, Entries(p), handler'[p], Done(p), request.user[p])
    <2> DEFINE s == handler[p]
               t == handler'[p]
               q == Entries(p)
               n == Done(p)
    <2>1. HasRead(p, q, s, n, <<>>)
      BY <1>1 DEF HandlersHold, Attached
    <2>2. s \in HandlerStates /\ request.user[p] \in Seq(Condition)
          /\ s.objects \in Seq(Condition)
      BY InputTypes DEF Weighing, TypeOK, HandlerStates
    <2>3. /\ t = [s EXCEPT !.objects = s.objects \o request.user[p]]
      BY <1>1
    <2>4. /\ t.dirichlet = s.dirichlet /\ t.temp = s.temp
          /\ t.species = s.species /\ t.neumann = s.neumann
          /\ t.values = s.values /\ t.counted = s.counted
          /\ t.pairs = s.pairs /\ t.walls = s.walls
          /\ t.objects = s.objects \o request.user[p]
      BY <2>2, <2>3 DEF HandlerStates
    <2>5. AllLists(t) = AllLists(s)
      BY <2>4 DEF AllLists
    <2> HIDE DEF s, t, q, n
    <2>6. HoldsFluxes(p, q, t, n)
      BY <2>1, <2>4 DEF HasRead, HoldsFluxes
    <2>7. HoldsWalls(p, q, t, n)
      BY <2>1, <2>4 DEF HasRead, HoldsWalls
    <2>8. HoldsPairs(p, q, t, n)
      BY <2>1, <2>4 DEF HasRead, HoldsPairs
    <2>9. HoldsLists(p, q, t, n) /\ HoldsOrder(p, q, t, n)
      BY <2>1, <2>4, <2>5 DEF HasRead, HoldsLists, HoldsOrder
    <2>10. HoldsValues(p, q, t, n)
      BY <2>1, <2>4 DEF HasRead, HoldsValues
    <2>11. HoldsObjects(p, q, t, n, request.user[p])
      <3>1. \A x : In(x, t.objects) <=> In(x, s.objects) \/ In(x, request.user[p])
        BY <2>2, <2>4, Members
      <3>2. \A x : ~In(x, <<>>)
        BY DEF In
      <3> QED
        BY <2>1, <3>1, <3>2, Zenon DEF HasRead, HoldsObjects
    <2> QED
      BY <2>1, <2>6, <2>7, <2>8, <2>9, <2>10, <2>11 DEF HasRead, s, t, q, n
  <1>3. \A p : Done(p)' = Done(p)
    BY <1>1, Zenon DEF Done, Setup, Constructing, Entries
  <1> QED
    BY <1>1, <1>2, <1>3, Zenon DEF HandlersHold, Attached, Entries

\* The other steps leave what the handlers hold alone.
LEMMA HandlersStay ==
  ASSUME HandlersHold, pc \in {"construct", "init", "solve"},
         UNCHANGED <<request, built, read>>, pc' = "construct" <=> pc = "construct",
         \A p \in Physics : SameConditions(handler[p], handler'[p])
  PROVE  HandlersHold'
  <1>1. \A p : Done(p)' = Done(p) /\ Attached(p)' = Attached(p)
    BY Zenon DEF Done, Constructing, Entries, Attached
  <1>2. ASSUME NEW p \in Physics
        PROVE  HasRead(p, Entries(p), handler'[p], Done(p), Attached(p))
    BY Holding DEF HandlersHold
  <1> QED
    BY <1>1, <1>2, Zenon DEF HandlersHold, Entries

\* Telling a handler the weight of its walls, or giving it the functions.
LEMMA SameHandlers ==
  ASSUME NEW s \in HandlerStates
  PROVE  /\ SameConditions(s, s)
         /\ \A b : SameConditions(s, [s EXCEPT !.weighsWalls = b])
         /\ \A f : SameConditions(s, [s EXCEPT !.functions = f])
  BY DEF SameConditions, HandlerStates

\* Every step keeps what the handlers hold.
LEMMA HandlersInvariant ==
  ASSUME Weighing, HandlersHold, [Next]_vars
  PROVE  HandlersHold'
  <1>0. \A p \in Physics : handler[p] \in HandlerStates
    BY DEF Weighing, TypeOK
  <1>1. CASE ReadEntry
    <2>1. pc' \in {"construct", "error"}
      BY <1>1 DEF ReadEntry
    <2>2. CASE pc' = "error"
      BY <2>2 DEF HandlersHold
    <2> QED
      BY <1>1, <2>1, <2>2, HandlersRead
  <1>2. CASE RefuseLists
    BY <1>2 DEF RefuseLists, HandlersHold
  <1>3. CASE ConstructPhysics
    BY <1>3, HandlersConstruct
  <1>4. CASE AttachDirichletFuncs
    BY <1>4, HandlersAttach
  <1>5. ASSUME NEW p \in Physics, StartInit(p)
        PROVE  HandlersHold'
    <2>1. /\ pc = "init" /\ pc' = "init" /\ UNCHANGED <<request, built, read>>
          /\ handler' = [handler EXCEPT
                           ![p] = [handler[p] EXCEPT !.weighsWalls = axisymmetric]]
      BY <1>5 DEF StartInit, Setup
    <2>2. \A x \in Physics : SameConditions(handler[x], handler'[x])
      <3> TAKE x \in Physics
      <3>1. CASE x = p
        <4>1. handler'[p] = [handler[p] EXCEPT !.weighsWalls = axisymmetric]
          BY <2>1 DEF Weighing, TypeOK
        <4> QED
          BY <1>0, <3>1, <4>1, SameHandlers
      <3>2. CASE x # p
        <4>1. handler'[x] = handler[x]
          BY <2>1, <3>2 DEF Weighing, TypeOK
        <4> QED
          BY <1>0, <4>1, SameHandlers
      <3> QED
        BY <3>1, <3>2
    <2> QED
      BY <2>1, <2>2, HandlersStay
  <1>6. CASE InitDirichletBC \/ InitDirichletFuncObj \/ InitPeriodic
    <2>1. /\ pc = "init" /\ pc' \in {"init", "error", "undefined"}
          /\ UNCHANGED <<request, built, read, handler>>
      BY <1>6 DEF InitDirichletBC, InitDirichletFuncObj, InitPeriodic, Setup
    <2>2. CASE pc' # "init"
      BY <2>1, <2>2 DEF HandlersHold
    <2>3. \A x \in Physics : SameConditions(handler[x], handler'[x])
      BY <1>0, <2>1, SameHandlers
    <2> QED
      BY <2>1, <2>2, <2>3, HandlersStay
  <1>7. CASE AttachNeumannFuncs
    <2>1. /\ pc = "init" /\ pc' = "solve" /\ UNCHANGED <<request, built, read>>
          /\ handler' = [x \in Physics |->
                           [handler[x] EXCEPT !.functions = request.functions[x]]]
      BY <1>7 DEF AttachNeumannFuncs, Setup
    <2>2. \A x \in Physics : SameConditions(handler[x], handler'[x])
      <3> TAKE x \in Physics
      <3>1. handler'[x] = [handler[x] EXCEPT !.functions = request.functions[x]]
        BY <2>1
      <3> QED
        BY <1>0, <3>1, SameHandlers
    <2> QED
      BY <2>1, <2>2, HandlersStay
  <1>8. ASSUME NEW ids \in request.sides, AssembleSide(ids)
        PROVE  HandlersHold'
    <2>1. /\ pc = "solve" /\ UNCHANGED <<request, built, read, handler>>
          /\ pc' \in {"solve", "error", "undefined"}
      <3>1. pc = "solve" /\ UNCHANGED <<request, built, read, handler>>
        BY <1>8 DEF AssembleSide, Setup
      <3> DEFINE Bad == \E p \in Applying, id \in ids :
                          Fails(p, id) \/ Dangles(p, id)
      <3>2. /\ Bad => pc' \in {"error", "undefined"}
            /\ ~Bad => pc' = pc
        BY <1>8 DEF AssembleSide
      <3> HIDE DEF Bad
      <3> QED
        BY <3>1, <3>2
    <2>2. CASE pc' # "solve"
      BY <2>1, <2>2 DEF HandlersHold
    <2>3. \A x \in Physics : SameConditions(handler[x], handler'[x])
      BY <1>0, <2>1, SameHandlers
    <2> QED
      BY <2>1, <2>2, <2>3, HandlersStay
  <1>9. CASE UNCHANGED vars
    <2>1. UNCHANGED <<pc, request, built, read, handler>>
      BY <1>9 DEF vars
    <2>2. \A x \in Physics : SameConditions(handler[x], handler'[x])
      BY <1>0, <2>1, SameHandlers
    <2>3. CASE pc \notin {"construct", "init", "solve"}
      BY <2>1, <2>3 DEF HandlersHold
    <2> QED
      BY <2>1, <2>2, <2>3, HandlersStay
  <1> QED
    BY <1>1, <1>2, <1>3, <1>4, <1>5, <1>6, <1>7, <1>8, <1>9, Zenon DEF Next

(***************************************************************************)
(* The initialisation.  What the physics that had their turn impose is in  *)
(* the DofMap or still in the lists of the one whose turn it is, and what  *)
(* is in the DofMap is in the order of those lists.                        *)
(***************************************************************************)

\* The conditions of a pair of id and type, and those of a physics.
Imposed(p, l) == Boundaries(p, l[1], l[2])
IsOf(p, c) ==
  \/ \E l \in IdTypes : In(l, AllLists(handler[p])) /\ In(c, Imposed(p, l))
  \/ In(c, handler[p].objects)
Pending(c) ==
  /\ current # None
  /\ \/ \E l \in IdTypes : In(l, types) /\ In(c, Imposed(current, l))
     \/ In(c, objects)

TurnsAreTaken ==
  /\ pc = "construct" => current = None /\ dofmap = <<>>
  /\ pc \in {"init", "solve"} =>
       waiting \subseteq Listed /\ (current # None => current \in Listed \ waiting)
  /\ pc = "solve" => waiting = {} /\ current = None
DofMapIsComplete ==
  pc \in {"init", "solve"} =>
    \A c : In(c, dofmap) \/ Pending(c) <=>
             \E p \in Listed \ waiting : IsOf(p, c)
PairsAreGiven ==
  pc \in {"init", "solve"} =>
    \A p \in Listed \ waiting :
      p # current => /\ PairsAreConsistent(p)
                     /\ \A x : In(x, handler[p].pairs) => x \in periodic

Initialising == TurnsAreTaken /\ DofMapIsComplete /\ PairsAreGiven

LEMMA SameGiven ==
  ASSUME UNCHANGED request,
         \A p \in Physics : SameConditions(handler[p], handler'[p])
  PROVE  \A p \in Physics :
           /\ \A l : Imposed(p, l)' = Imposed(p, l)
           /\ \A c : IsOf(p, c)' <=> IsOf(p, c)
           /\ handler'[p].pairs = handler[p].pairs
           /\ PairsAreConsistent(p)' <=> PairsAreConsistent(p)
           /\ AllLists(handler'[p]) = AllLists(handler[p])
           /\ handler'[p].objects = handler[p].objects
  <1> SUFFICES ASSUME NEW p \in Physics
               PROVE  /\ \A l : Imposed(p, l)' = Imposed(p, l)
                      /\ \A c : IsOf(p, c)' <=> IsOf(p, c)
                      /\ handler'[p].pairs = handler[p].pairs
                      /\ PairsAreConsistent(p)' <=> PairsAreConsistent(p)
                      /\ AllLists(handler'[p]) = AllLists(handler[p])
                      /\ handler'[p].objects = handler[p].objects
    OBVIOUS
  <1>1. /\ handler'[p].values = handler[p].values
        /\ handler'[p].pairs = handler[p].pairs
        /\ handler'[p].counted = handler[p].counted
        /\ handler'[p].objects = handler[p].objects
        /\ AllLists(handler'[p]) = AllLists(handler[p])
    BY DEF SameConditions, AllLists
  <1>2. \A l : Imposed(p, l)' = Imposed(p, l)
    BY <1>1, Zenon DEF Imposed, Boundaries, Stored
  <1>3. PairsAreConsistent(p)' <=> PairsAreConsistent(p)
    BY <1>1, Zenon DEF PairsAreConsistent
  <1>4. \A c : IsOf(p, c)' <=> IsOf(p, c)
    BY <1>1, <1>2, Zenon DEF IsOf
  <1> QED
    BY <1>1, <1>2, <1>3, <1>4

LEMMA InitialisingInit ==
  ASSUME Init
  PROVE  Initialising
  BY DEF Init, Initialising, TurnsAreTaken, DofMapIsComplete, PairsAreGiven

LEMMA InitialisingAttach ==
  ASSUME Weighing, Initialising, AttachDirichletFuncs
  PROVE  Initialising'
  <1>1. /\ pc = "construct" /\ pc' = "init" /\ waiting' = Listed
        /\ UNCHANGED <<request, current, dofmap>> /\ Listed' = Listed
    BY DEF AttachDirichletFuncs, Listed
  <1>2. current' = None /\ dofmap' = <<>>
    BY <1>1 DEF Initialising, TurnsAreTaken
  <1>3. Listed' \ waiting' = {}
    BY <1>1
  <1>4. \A c : ~In(c, dofmap') /\ ~Pending(c)'
    BY <1>2 DEF In, Pending
  <1> QED
    BY <1>1, <1>2, <1>3, <1>4, Zenon
       DEF Initialising, TurnsAreTaken, DofMapIsComplete, PairsAreGiven

\* A physics whose turn comes has all its conditions before it.
LEMMA InitialisingStart ==
  ASSUME Weighing, Initialising, NEW p \in Physics, StartInit(p),
         \A x \in Physics : SameConditions(handler[x], handler'[x])
  PROVE  Initialising'
  <1>1. /\ pc = "init" /\ pc' = "init" /\ current = None /\ p \in waiting
        /\ waiting' = waiting \ {p} /\ current' = p
        /\ types' = AllLists(handler[p]) /\ objects' = handler[p].objects
        /\ UNCHANGED <<request, dofmap, periodic>> /\ Listed' = Listed
    BY DEF StartInit, Listed
  <1>2. /\ waiting \subseteq Listed /\ Listed \subseteq Physics
        /\ Listed \ waiting' = (Listed \ waiting) \union {p}
        /\ p \in Listed \ waiting' /\ p # None
    <2>1. waiting \subseteq Listed /\ Listed \subseteq Physics
      BY <1>1, InputTypes DEF Initialising, TurnsAreTaken, Weighing
    <2>2. None \notin Physics
      BY DEF None, Physics, Order
    <2> QED
      BY <1>1, <2>1, <2>2
  <1>3. TurnsAreTaken'
    BY <1>1, <1>2 DEF TurnsAreTaken
  <1>4. \A c : Pending(c)' <=> IsOf(p, c)
    BY <1>1, <1>2, SameGiven, Zenon DEF Pending, IsOf
  <1>5. \A c : In(c, dofmap) <=> \E x \in Listed \ waiting : IsOf(x, c)
    BY <1>1, Zenon DEF Initialising, DofMapIsComplete, Pending
  <1>6. \A c : In(c, dofmap') \/ Pending(c)' <=>
                 \E x \in Listed \ waiting' : IsOf(x, c)
    BY <1>1, <1>2, <1>4, <1>5, Zenon
  <1>7. DofMapIsComplete'
    <2>1. \A x \in Listed \ waiting' : \A c : IsOf(x, c)' <=> IsOf(x, c)
      <3>1. \A x \in Listed \ waiting' : x \in Physics
        BY <1>2
      <3> QED
        BY <1>1, <3>1, SameGiven, Zenon
    <2> QED
      BY <1>1, <1>6, <2>1, Zenon DEF DofMapIsComplete
  <1>8. PairsAreGiven'
    <2>1. \A x \in Listed \ waiting :
            /\ PairsAreConsistent(x)
            /\ \A y : In(y, handler[x].pairs) => y \in periodic
      <3>1. None \notin Listed
        BY <1>2 DEF None, Physics, Order
      <3> QED
        BY <1>1, <3>1, Zenon DEF Initialising, PairsAreGiven
    <2>2. \A x \in Listed \ waiting' : x # p => x \in Listed \ waiting
      BY <1>2
    <2> QED
      BY <1>1, <1>2, <2>1, <2>2, SameGiven, Zenon DEF PairsAreGiven
  <1> QED
    BY <1>3, <1>7, <1>8 DEF Initialising

LEMMA SameImposed ==
  ASSUME UNCHANGED <<request, handler>>
  PROVE  /\ Listed' = Listed
         /\ \A p : \A l : Imposed(p, l)' = Imposed(p, l)
         /\ \A p : \A c : IsOf(p, c)' <=> IsOf(p, c)
         /\ \A p : PairsAreConsistent(p)' <=> PairsAreConsistent(p)
  <1>1. Listed' = Listed
    BY DEF Listed
  <1>2. \A p : \A l : Imposed(p, l)' = Imposed(p, l)
    BY Zenon DEF Imposed, Boundaries, Stored
  <1>3. \A p : \A c : IsOf(p, c)' <=> IsOf(p, c)
    BY <1>2, Zenon DEF IsOf
  <1>4. \A p : PairsAreConsistent(p)' <=> PairsAreConsistent(p)
    BY Zenon DEF PairsAreConsistent
  <1> QED
    BY <1>1, <1>2, <1>3, <1>4

\* What a step of init_bcs that leaves the turn where it is has to show.
LEMMA InitialisingStep ==
  ASSUME Weighing, Initialising, pc = "init", pc' = "init", current # None,
         UNCHANGED <<request, handler, waiting, current, periodic>>,
         \A c : In(c, dofmap') \/ Pending(c)' <=> In(c, dofmap) \/ Pending(c)
  PROVE  Initialising'
  <1>1. Listed' = Listed
    BY DEF Listed
  <1>2. /\ \A p : \A c : IsOf(p, c)' <=> IsOf(p, c)
        /\ \A p : PairsAreConsistent(p)' <=> PairsAreConsistent(p)
    BY SameImposed, Zenon
  <1>3. TurnsAreTaken'
    BY <1>1, Zenon DEF Initialising, TurnsAreTaken
  <1>4. DofMapIsComplete'
    <2>1. \A c : In(c, dofmap) \/ Pending(c) <=>
                   \E p \in Listed \ waiting : IsOf(p, c)
      BY DEF Initialising, DofMapIsComplete
    <2> QED
      BY <1>1, <1>2, <2>1, Zenon DEF DofMapIsComplete
  <1>5. PairsAreGiven'
    <2>1. \A p \in Listed \ waiting :
            p # current => /\ PairsAreConsistent(p)
                           /\ \A x : In(x, handler[p].pairs) => x \in periodic
      BY DEF Initialising, PairsAreGiven
    <2> QED
      BY <1>1, <1>2, <2>1, Zenon DEF PairsAreGiven
  <1> QED
    BY <1>3, <1>4, <1>5 DEF Initialising

\* A type that is imposed goes from the list to the DofMap.
LEMMA InitialisingDirichlet ==
  ASSUME Weighing, Initialising, InitDirichletBC, pc' = "init"
  PROVE  Initialising'
  <1> DEFINE l == Head(types)
  <1>1. /\ pc = "init" /\ current # None /\ types # <<>>
        /\ types' = Tail(types) /\ dofmap' = dofmap \o Imposed(current, l)
        /\ UNCHANGED <<request, handler, waiting, current, objects, periodic>>
    BY DEF InitDirichletBC, Imposed
  <1>2. /\ types \in Seq(IdTypes) /\ dofmap \in Seq(Condition)
        /\ current \in Physics
    BY <1>1 DEF Weighing, TypeOK
  <1>3. l \in IdTypes
    BY <1>1, <1>2, ListFacts
  <1>4. Imposed(current, l) \in Seq(Condition)
    BY <1>2, <1>3, BoundariesType DEF Imposed, IdTypes, Weighing
  <1>5. \A x : In(x, types) <=> x = l \/ In(x, types')
    BY <1>1, <1>2, Members
  <1>6. \A c : In(c, dofmap') <=> In(c, dofmap) \/ In(c, Imposed(current, l))
    BY <1>1, <1>2, <1>4, Members
  <1>7. \A p, x : Imposed(p, x)' = Imposed(p, x)
    BY <1>1, SameImposed, Zenon
  <1> HIDE DEF l
  <1>8. \A c : Pending(c)' <=>
          \/ \E x \in IdTypes : In(x, types') /\ In(c, Imposed(current, x))
          \/ In(c, objects)
    BY <1>1, <1>7, Zenon DEF Pending
  <1>9. \A c : In(c, dofmap') \/ Pending(c)' <=> In(c, dofmap) \/ Pending(c)
    BY <1>1, <1>3, <1>5, <1>6, <1>8, Zenon DEF Pending
  <1> QED
    BY <1>1, <1>9, InitialisingStep

\* So does a function object.
LEMMA InitialisingFuncObj ==
  ASSUME Weighing, Initialising, InitDirichletFuncObj, pc' = "init"
  PROVE  Initialising'
  <1>1. /\ pc = "init" /\ current # None /\ types = <<>> /\ objects # <<>>
        /\ objects' = Tail(objects) /\ dofmap' = Append(dofmap, Head(objects))
        /\ UNCHANGED <<request, handler, waiting, current, types, periodic>>
    BY DEF InitDirichletFuncObj
  <1>2. objects \in Seq(Condition) /\ dofmap \in Seq(Condition)
    BY <1>1 DEF Weighing, TypeOK
  <1>3. Head(objects) \in Condition
    BY <1>1, <1>2, ListFacts
  <1>4. \A c : In(c, objects) <=> c = Head(objects) \/ In(c, objects')
    BY <1>1, <1>2, Members
  <1>5. \A c : In(c, dofmap') <=> In(c, dofmap) \/ c = Head(objects)
    BY <1>1, <1>2, <1>3, Members
  <1>6. \A p, x : Imposed(p, x)' = Imposed(p, x)
    BY <1>1, SameImposed, Zenon
  <1>7. \A c : In(c, dofmap') \/ Pending(c)' <=> In(c, dofmap) \/ Pending(c)
    BY <1>1, <1>4, <1>5, <1>6, Zenon DEF Pending
  <1> QED
    BY <1>1, <1>7, InitialisingStep

\* The turn ends when nothing is left, and the pairs are those of the handler.
LEMMA InitialisingPeriodic ==
  ASSUME Weighing, Initialising, InitPeriodic, pc' = "init"
  PROVE  Initialising'
  <1>1. /\ pc = "init" /\ current # None /\ types = <<>> /\ objects = <<>>
        /\ PairsAreConsistent(current) /\ current' = None
        /\ periodic' = periodic \union
               {handler[current].pairs[i] : i \in DOMAIN handler[current].pairs}
        /\ UNCHANGED <<request, handler, waiting, dofmap>>
    BY DEF InitPeriodic
  <1>2. /\ Listed' = Listed
        /\ \A p : \A c : IsOf(p, c)' <=> IsOf(p, c)
        /\ \A p : PairsAreConsistent(p)' <=> PairsAreConsistent(p)
    BY <1>1, SameImposed, Zenon
  <1>3. TurnsAreTaken'
    BY <1>1, <1>2, Zenon DEF Initialising, TurnsAreTaken
  <1>4. \A c : ~Pending(c) /\ ~Pending(c)'
    BY <1>1, Members DEF Pending, In
  <1>5. DofMapIsComplete'
    <2>1. \A c : In(c, dofmap) \/ Pending(c) <=>
                   \E p \in Listed \ waiting : IsOf(p, c)
      BY <1>1 DEF Initialising, DofMapIsComplete
    <2> QED
      BY <1>1, <1>2, <1>4, <2>1, Zenon DEF DofMapIsComplete
  <1>6. PairsAreGiven'
    <2>1. \A p \in Listed \ waiting :
            p # current => /\ PairsAreConsistent(p)
                           /\ \A x : In(x, handler[p].pairs) => x \in periodic
      BY <1>1 DEF Initialising, PairsAreGiven
    <2>2. /\ \A x : In(x, handler[current].pairs) => x \in periodic'
          /\ \A x \in periodic : x \in periodic'
      BY <1>1 DEF In
    <2>3. \A p \in Listed \ waiting :
            /\ PairsAreConsistent(p)
            /\ \A x : In(x, handler[p].pairs) => x \in periodic'
      BY <1>1, <2>1, <2>2, Zenon
    <2> QED
      BY <1>1, <1>2, <2>3, Zenon DEF PairsAreGiven
  <1> QED
    BY <1>3, <1>5, <1>6 DEF Initialising

LEMMA InitialisingNeumann ==
  ASSUME Weighing, Initialising, AttachNeumannFuncs,
         \A p \in Physics : SameConditions(handler[p], handler'[p])
  PROVE  Initialising'
  <1>1. /\ pc = "init" /\ pc' = "solve" /\ current = None /\ waiting = {}
        /\ UNCHANGED <<request, waiting, current, dofmap, periodic>>
        /\ Listed' = Listed
    BY DEF AttachNeumannFuncs, Imposing, Listed
  <1>2. Listed \subseteq Physics
    BY InputTypes DEF Weighing
  <1>3. \A p \in Listed : /\ \A c : IsOf(p, c)' <=> IsOf(p, c)
                          /\ handler'[p].pairs = handler[p].pairs
                          /\ PairsAreConsistent(p)' <=> PairsAreConsistent(p)
    <2>1. \A p \in Listed : p \in Physics
      BY <1>2
    <2> QED
      BY <1>1, <2>1, SameGiven, Zenon
  <1>4. \A p \in Listed \ waiting : p \in Listed
    OBVIOUS
  <1>5. DofMapIsComplete'
    <2>1. \A c : In(c, dofmap) <=> \E p \in Listed \ waiting : IsOf(p, c)
      BY <1>1, Zenon DEF Initialising, DofMapIsComplete, Pending
    <2>2. \A c : In(c, dofmap) <=> \E p \in Listed \ waiting : IsOf(p, c)'
      BY <1>3, <1>4, <2>1, Zenon
    <2> QED
      BY <1>1, <2>2, Zenon DEF DofMapIsComplete, Pending
  <1>6. PairsAreGiven'
    <2>1. \A p \in Listed \ waiting :
            p # current => /\ PairsAreConsistent(p)
                           /\ \A x : In(x, handler[p].pairs) => x \in periodic
      BY <1>1 DEF Initialising, PairsAreGiven
    <2> QED
      BY <1>1, <1>3, <1>4, <2>1, Zenon DEF PairsAreGiven
  <1>7. TurnsAreTaken'
    BY <1>1 DEF TurnsAreTaken
  <1> QED
    BY <1>5, <1>6, <1>7 DEF Initialising

LEMMA InitialisingStays ==
  ASSUME Weighing, Initialising,
         UNCHANGED <<pc, request, handler, waiting, current, types, objects,
                     dofmap, periodic>>
  PROVE  Initialising'
  <1>1. TurnsAreTaken'
    BY SameImposed, Zenon DEF Initialising, TurnsAreTaken
  <1>2. DofMapIsComplete'
    BY SameImposed, Zenon DEF Initialising, DofMapIsComplete, Pending
  <1>3. PairsAreGiven'
    BY SameImposed, Zenon DEF Initialising, PairsAreGiven
  <1> QED
    BY <1>1, <1>2, <1>3 DEF Initialising

\* Every step keeps what the initialisation has done.
LEMMA InitialisingInvariant ==
  ASSUME Weighing, Initialising, [Next]_vars
  PROVE  Initialising'
  <1>0. \A p \in Physics : handler[p] \in HandlerStates
    BY DEF Weighing, TypeOK
  <1>1. CASE ReadEntry
    <2>1. /\ pc = "construct" /\ pc' \in {"construct", "error"}
          /\ UNCHANGED <<current, dofmap>>
      BY <1>1 DEF ReadEntry, Imposing
    <2> QED
      BY <2>1 DEF Initialising, TurnsAreTaken, DofMapIsComplete, PairsAreGiven
  <1>2. CASE RefuseLists \/ ConstructPhysics
    <2>1. /\ pc = "construct" /\ pc' \in {"construct", "error"}
          /\ UNCHANGED <<current, dofmap>>
      BY <1>2 DEF RefuseLists, ConstructPhysics, Imposing
    <2> QED
      BY <2>1 DEF Initialising, TurnsAreTaken, DofMapIsComplete, PairsAreGiven
  <1>3. CASE AttachDirichletFuncs
    BY <1>3, InitialisingAttach
  <1>4. ASSUME NEW p \in Physics, StartInit(p)
        PROVE  Initialising'
    <2>1. \A x \in Physics : SameConditions(handler[x], handler'[x])
      <3>1. handler' = [handler EXCEPT
                          ![p] = [handler[p] EXCEPT !.weighsWalls = axisymmetric]]
        BY <1>4 DEF StartInit
      <3> TAKE x \in Physics
      <3>2. CASE x = p
        <4>1. handler'[p] = [handler[p] EXCEPT !.weighsWalls = axisymmetric]
          BY <3>1 DEF Weighing, TypeOK
        <4> QED
          BY <1>0, <3>2, <4>1, SameHandlers
      <3>3. CASE x # p
        <4>1. handler'[x] = handler[x]
          BY <3>1, <3>3 DEF Weighing, TypeOK
        <4> QED
          BY <1>0, <4>1, SameHandlers
      <3> QED
        BY <3>2, <3>3
    <2> QED
      BY <1>4, <2>1, InitialisingStart
  <1>5. CASE InitDirichletBC
    <2>1. pc' \in {"init", "undefined"}
      BY <1>5, Zenon DEF InitDirichletBC
    <2>2. CASE pc' = "undefined"
      BY <2>2 DEF Initialising, TurnsAreTaken, DofMapIsComplete, PairsAreGiven
    <2> QED
      BY <1>5, <2>1, <2>2, InitialisingDirichlet
  <1>6. CASE InitDirichletFuncObj
    <2>1. pc' \in {"init", "error"}
      BY <1>6, Zenon DEF InitDirichletFuncObj
    <2>2. CASE pc' = "error"
      BY <2>2 DEF Initialising, TurnsAreTaken, DofMapIsComplete, PairsAreGiven
    <2> QED
      BY <1>6, <2>1, <2>2, InitialisingFuncObj
  <1>7. CASE InitPeriodic
    <2>1. pc' \in {"init", "error"}
      BY <1>7, Zenon DEF InitPeriodic
    <2>2. CASE pc' = "error"
      BY <2>2 DEF Initialising, TurnsAreTaken, DofMapIsComplete, PairsAreGiven
    <2> QED
      BY <1>7, <2>1, <2>2, InitialisingPeriodic
  <1>8. CASE AttachNeumannFuncs
    <2>1. \A x \in Physics : SameConditions(handler[x], handler'[x])
      <3> TAKE x \in Physics
      <3>1. handler'[x] = [handler[x] EXCEPT !.functions = request.functions[x]]
        BY <1>8 DEF AttachNeumannFuncs
      <3> QED
        BY <1>0, <3>1, SameHandlers
    <2> QED
      BY <1>8, <2>1, InitialisingNeumann
  <1>9. ASSUME NEW ids \in request.sides, AssembleSide(ids)
        PROVE  Initialising'
    <2>1. /\ pc = "solve" /\ UNCHANGED <<request, handler, waiting, current,
                                         types, objects, dofmap, periodic>>
      BY <1>9 DEF AssembleSide, Imposing
    <2>2. pc' \in {"solve", "error", "undefined"}
      <3> DEFINE Bad == \E p \in Applying, id \in ids :
                          Fails(p, id) \/ Dangles(p, id)
      <3>1. /\ Bad => pc' \in {"error", "undefined"}
            /\ ~Bad => pc' = pc
        BY <1>9 DEF AssembleSide
      <3> HIDE DEF Bad
      <3> QED
        BY <2>1, <3>1
    <2>3. CASE pc' # "solve"
      BY <2>2, <2>3 DEF Initialising, TurnsAreTaken, DofMapIsComplete,
                        PairsAreGiven
    <2> QED
      BY <2>1, <2>2, <2>3, InitialisingStays
  <1>10. CASE UNCHANGED vars
    BY <1>10, InitialisingStays DEF vars
  <1> QED
    BY <1>1, <1>2, <1>3, <1>4, <1>5, <1>6, <1>7, <1>8, <1>9, <1>10, Zenon
       DEF Next

(***************************************************************************)
(* Periodic boundaries.                                                    *)
(***************************************************************************)

\* An input that gives a pair gives the ids it calls periodic.
PairsNameTheIds(r) ==
  \A p \in PhysicsIn(r) : \A e, f \in EntriesIn(r, p) :
    (e.type = "periodic" /\ IsMaster(f)) =>
      \E i \in DOMAIN f.pair : f.pair[i] = e.id

\* At the assembly every physics of the list has read its input.
LEMMA AllRead ==
  ASSUME Weighing, HandlersHold, pc \in {"init", "solve"}, NEW p \in Listed
  PROVE  /\ p \in Physics
         /\ handler[p] \in HandlerStates
         /\ Entries(p) \in Seq(Entry)
         /\ HasRead(p, Entries(p), handler[p], Len(Entries(p)), request.user[p])
  <1>1. p \in Physics /\ handler[p] \in HandlerStates /\ Entries(p) \in Seq(Entry)
    <2>1. p \in Physics
      BY InputTypes DEF Weighing
    <2> QED
      BY <2>1 DEF Weighing, TypeOK, RequestType, Entries
  <1>2. Done(p) = Len(Entries(p))
    <2>1. PICK k \in DOMAIN request.physics : request.physics[k] = p
      BY DEF Listed
    <2>2. request.physics \in Seq(Physics) /\ built = Len(request.physics)
      BY DEF Weighing, TypeOK, RequestType, FlagIsComplete
    <2>3. k \in 1..built
      BY <2>1, <2>2
    <2> QED
      BY <2>1, <2>3, Zenon DEF Done
  <1>3. HasRead(p, Entries(p), handler[p], Done(p), Attached(p))
    BY <1>1 DEF HandlersHold
  <1> QED
    BY <1>1, <1>2, <1>3 DEF Attached

\* With two periodic boundaries the check finds exactly one pair, of these two.
LEMMA PairsAreConditions ==
  ASSUME Weighing, HandlersHold, Initialising,
         PeriodicAreEven(request), PairsNameTheIds(request)
  PROVE  PeriodicIdsArePaired
  <1> SUFFICES ASSUME pc = "solve", NEW p \in Listed, NEW i \in DOMAIN Entries(p),
                      Entries(p)[i].type = "periodic"
               PROVE  \E pair \in periodic : Entries(p)[i].id \in {pair[1], pair[2]}
    BY DEF PeriodicIdsArePaired, EntriesOf, EntriesIn, Entries
  <1> DEFINE q == Entries(p)
             s == handler[p]
             n == Len(q)
             Periodic == {k \in 1..n : IsPeriodic(q[k])}
             ids == {e.id : e \in {f \in EntriesIn(request, p) :
                                            f.type = "periodic"}}
  <1>1. /\ p \in Physics /\ s \in HandlerStates /\ q \in Seq(Entry)
        /\ HasRead(p, q, s, n, request.user[p])
    BY AllRead
  <1>2. n \in Nat /\ DOMAIN q = 1..n /\ \A k \in 1..n : q[k] \in Entry
    BY <1>1
  <1>3. p \in PhysicsIn(request)
    BY DEF Listed, PhysicsIn
  <1>4. \E j \in 1..n : j # i /\ IsPeriodic(q[j])
    <2>1. ids = {q[k].id : k \in Periodic}
      BY <1>2 DEF EntriesIn, Entries, IsPeriodic
    <2>2. q[i].id \in ids
      BY <1>2, <2>1 DEF IsPeriodic
    <2>3. IsFiniteSet(ids)
      <3>1. IsFiniteSet(1..n)
        BY <1>2, FS_Interval
      <3>2. IsFiniteSet(Periodic)
        BY <3>1, FS_Subset
      <3> DEFINE f == [k \in Periodic |-> q[k].id]
      <3>3. f \in Surjection(Periodic, ids)
        <4> HIDE DEF Periodic, ids
        <4>1. f \in [Periodic -> ids] /\ \A x \in ids : \E k \in Periodic : f[k] = x
          BY <2>1
        <4> QED
          BY <4>1 DEF Surjection
      <3> HIDE DEF ids, Periodic, f
      <3> QED
        BY <3>2, <3>3, FS_Surjection
    <2>4. Cardinality(ids) \in {0, 2}
      BY <1>3 DEF PeriodicAreEven
    <2>5. Cardinality(ids) # 0
      BY <2>2, <2>3, FS_EmptySet
    <2>6. ids # {q[i].id}
      <3>1. Cardinality({q[i].id}) = 1
        BY FS_Singleton
      <3> HIDE DEF ids
      <3> QED
        BY <2>4, <3>1
    <2>7. PICK x \in ids : x # q[i].id
      BY <2>2, <2>6
    <2> QED
      BY <2>1, <2>7
  <1>5. s.counted >= 2
    <2>1. PICK j \in 1..n : j # i /\ IsPeriodic(q[j])
      BY <1>4
    <2>2. i \in 1..n /\ IsPeriodic(q[i]) /\ (i < j \/ j < i)
      BY <1>2, <2>1 DEF IsPeriodic
    <2> QED
      BY <1>1, <2>1, <2>2 DEF HasRead, HoldsPairs
  <1>6. PairsAreConsistent(p) /\ \A x : In(x, s.pairs) => x \in periodic
    <2>1. waiting = {} /\ current = None
      BY DEF Initialising, TurnsAreTaken
    <2>2. p # None
      BY <1>1 DEF None, Physics, Order
    <2> QED
      BY <2>1, <2>2 DEF Initialising, PairsAreGiven
  <1>7. 1 \in DOMAIN s.pairs
    <2>1. Len(s.pairs) = s.counted \div 2 /\ s.counted \in Nat
          /\ s.pairs \in Seq(Ids \X Ids)
      BY <1>1, <1>6 DEF PairsAreConsistent, HandlerStates
    <2>2. s.counted \div 2 >= 1
      BY <1>5, <2>1
    <2> QED
      BY <2>1, <2>2
  <1>8. PICK k \in 1..n : IsMaster(q[k]) /\ s.pairs[1] = PairOf(q[k])
    BY <1>1, <1>7 DEF HasRead, HoldsPairs
  <1>9. PairOf(q[k]) \in periodic
    BY <1>6, <1>7, <1>8 DEF In
  <1>10. q[i].id \in {q[k].id, Slave(q[k])}
    <2>1. ~WrongPair(q[k])
      BY <1>1, <1>8 DEF HasRead, Refuses
    <2>2. Len(q[k].pair) = 2 /\ q[k].pair \in Seq(Ids \union {NoId})
      BY <1>2, <2>1 DEF WrongPair, Entry
    <2>3. DOMAIN q[k].pair = {1, 2}
      BY <2>2
    <2>4. q[k].pair[1] = q[k].id \/ q[k].pair[2] = q[k].id
      BY <2>1, <2>3 DEF WrongPair
    <2>5. q[i].id = q[k].pair[1] \/ q[i].id = q[k].pair[2]
      <3>1. q[i] \in EntriesIn(request, p) /\ q[k] \in EntriesIn(request, p)
        BY <1>2 DEF EntriesIn, Entries
      <3> QED
        BY <1>3, <1>8, <2>3, <3>1 DEF PairsNameTheIds
    <2> QED
      BY <2>4, <2>5 DEF Slave
  <1> QED
    BY <1>9, <1>10 DEF PairOf

(***************************************************************************)
(* Fluxes.                                                                 *)
(***************************************************************************)

\* The last side got what its ids have, and nothing of it could not be applied.
FluxIsOfSide ==
  /\ pc \in {"construct", "init"} => side = {} /\ flux = {}
  /\ pc = "solve" =>
       /\ side \subseteq Ids
       /\ flux = UNION {Fluxes(p, id) : p \in Applying, id \in side}
       /\ \A p \in Applying, id \in side : ~Fails(p, id)

\* What a side gets depends on the input, the handlers and the flag.
LEMMA SameFluxes ==
  ASSUME UNCHANGED <<request, handler, axisymmetric>>, NEW p, NEW id
  PROVE  /\ Fluxes(p, id)' = Fluxes(p, id)
         /\ Fails(p, id)' <=> Fails(p, id)
  <1>1. Weight(p)' = Weight(p)
    BY Zenon DEF Weight
  <1>2. \A x, v : Flux(p, id, x, v)' = Flux(p, id, x, v)
    BY <1>1, Zenon DEF Flux
  <1>3. WallFluxes(p, id)' = WallFluxes(p, id)
    BY <1>2 DEF WallFluxes
  <1>4. Fluxes(p, id)' = Fluxes(p, id)
    <2> DEFINE type == handler[p].neumann[id]
               ons == IF type \in DOMAIN Tractions THEN Tractions[type]
                      ELSE HeatFluxes[type]
               name(on) == CHOOSE x \in on.vars : TRUE
    <2>1. Fluxes(p, id) = IF type = None THEN {}
                          ELSE IF type \in WallTypes THEN WallFluxes(p, id)
                          ELSE {Flux(p, id, name(on), on.value) : on \in ons}
      BY DEF Fluxes
    <2>2. Fluxes(p, id)' = IF type = None THEN {}
                          ELSE IF type \in WallTypes THEN WallFluxes(p, id)'
                          ELSE {Flux(p, id, name(on), on.value)' : on \in ons}
      BY DEF Fluxes
    <2> HIDE DEF type, ons, name
    <2>3. {Flux(p, id, name(on), on.value) : on \in ons} =
            {Flux(p, id, name(on), on.value)' : on \in ons}
      BY <1>2
    <2> QED
      BY <1>3, <2>1, <2>2, <2>3
  <1>5. Fails(p, id)' <=> Fails(p, id)
    BY <1>3, Zenon DEF Fails
  <1> QED
    BY <1>4, <1>5

\* Every step keeps that the fluxes are of the last side.
LEMMA FluxIsOfSideInvariant ==
  ASSUME Weighing, FluxIsOfSide, [Next]_vars
  PROVE  FluxIsOfSide'
  <1>1. CASE ReadEntry
    <2>1. pc = "construct" /\ pc' \in {"construct", "error"}
          /\ UNCHANGED <<side, flux>>
      BY <1>1 DEF ReadEntry, Assembly
    <2> QED
      BY <2>1 DEF FluxIsOfSide
  <1>2. CASE RefuseLists \/ ConstructPhysics \/ AttachDirichletFuncs
    <2>1. pc = "construct" /\ pc' \in {"construct", "init", "error"}
          /\ UNCHANGED <<side, flux>>
      BY <1>2 DEF RefuseLists, ConstructPhysics, AttachDirichletFuncs, Assembly
    <2> QED
      BY <2>1 DEF FluxIsOfSide
  <1>3. CASE \/ \E p \in Physics : StartInit(p)
             \/ InitDirichletBC \/ InitDirichletFuncObj \/ InitPeriodic
    <2>1. pc = "init" /\ pc' \in {"init", "error", "undefined"}
          /\ UNCHANGED <<side, flux>>
      BY <1>3 DEF StartInit, InitDirichletBC, InitDirichletFuncObj,
                  InitPeriodic, Assembly
    <2> QED
      BY <2>1 DEF FluxIsOfSide
  <1>4. CASE AttachNeumannFuncs
    <2>1. pc = "init" /\ pc' = "solve" /\ UNCHANGED <<side, flux>>
      BY <1>4 DEF AttachNeumannFuncs, Assembly
    <2> QED
      BY <2>1 DEF FluxIsOfSide
  <1>5. ASSUME NEW ids \in request.sides, AssembleSide(ids)
        PROVE  FluxIsOfSide'
    <2> DEFINE Bad == \E p \in Applying, id \in ids :
                        Fails(p, id) \/ Dangles(p, id)
    <2>1. /\ pc = "solve" /\ side' = ids
          /\ UNCHANGED <<request, handler, Setup, Imposing>>
          /\ Bad => pc' \in {"error", "undefined"}
          /\ ~Bad => /\ pc' = pc
                     /\ flux' = UNION {Fluxes(p, id) : p \in Applying,
                                                      id \in SideIds(ids)}
      BY <1>5 DEF AssembleSide
    <2>2. CASE Bad
      <3> HIDE DEF Bad
      <3> QED
        BY <2>1, <2>2 DEF FluxIsOfSide
    <2>3. CASE ~Bad
      <3>1. flux' = UNION {Fluxes(p, id) : p \in Applying, id \in ids}
        <4> HIDE DEF Bad
        <4> QED
          BY <2>1, <2>3 DEF SideIds
      <3>2. UNCHANGED <<request, handler, axisymmetric>>
        BY <2>1 DEF Setup
      <3>3. /\ Applying' = Applying
            /\ \A p, id : Fluxes(p, id)' = Fluxes(p, id)
            /\ \A p, id : Fails(p, id)' <=> Fails(p, id)
        BY <3>2, SameFluxes, Zenon DEF Applying, Listed
      <3>4. ids \subseteq Ids
        BY DEF Weighing, TypeOK, RequestType
      <3>5. (UNION {Fluxes(p, id) : p \in Applying, id \in side})' =
              UNION {Fluxes(p, id) : p \in Applying, id \in ids}
        BY <2>1, <3>3
      <3>6. (\A p \in Applying, id \in side : ~Fails(p, id))'
        BY <2>1, <2>3, <3>3, Zenon
      <3>7. pc' = "solve"
        <4> HIDE DEF Bad
        <4> QED
          BY <2>1, <2>3
      <3> HIDE DEF Bad
      <3> QED
        BY <2>1, <3>1, <3>4, <3>5, <3>6, <3>7 DEF FluxIsOfSide
    <2> QED
      BY <2>2, <2>3
  <1>6. CASE UNCHANGED vars
    <2>1. UNCHANGED <<pc, request, handler, axisymmetric, side, flux>>
      BY <1>6 DEF vars
    <2>2. /\ Applying' = Applying
          /\ \A p, id : Fluxes(p, id)' = Fluxes(p, id)
          /\ \A p, id : Fails(p, id)' <=> Fails(p, id)
      BY <2>1, SameFluxes, Zenon DEF Applying, Listed
    <2>3. (UNION {Fluxes(p, id) : p \in Applying, id \in side})' =
            UNION {Fluxes(p, id) : p \in Applying, id \in side}
      BY <2>1, <2>2
    <2>4. (\A p \in Applying, id \in side : ~Fails(p, id))' <=>
            \A p \in Applying, id \in side : ~Fails(p, id)
      BY <2>1, <2>2, Zenon
    <2> QED
      BY <2>1, <2>3, <2>4 DEF FluxIsOfSide
  <1> QED
    BY <1>1, <1>2, <1>3, <1>4, <1>5, <1>6, Zenon DEF Next

\* What the types that come to their handlers' side integrals promise.
LEMMA FluxesPromised ==
  ASSUME NEW p \in {"AxisymmetricHeatTransfer", "ElasticCable", "HeatTransfer"},
         NEW type \in NeumannTypes[HandlerOf[p]]
  PROVE  /\ type \notin WallTypes
         /\ Promise(p, type) =
              {<<CHOOSE x \in on.vars : TRUE, on.value>> :
                 on \in IF type \in DOMAIN Tractions THEN Tractions[type]
                        ELSE HeatFluxes[type]}
  <1> DEFINE dim == request.dim
             ons == IF type \in DOMAIN Tractions THEN Tractions[type]
                    ELSE HeatFluxes[type]
             name(on) == CHOOSE x \in on.vars : TRUE
  <1>0. \A x, v : name(On({x}, v)) = x /\ On({x}, v).value = v
    BY DEF On
  <1>1. CASE p = "ElasticCable"
    <2>1. type = "constant_traction"
      BY <1>1 DEF NeumannTypes, HandlerOf
    <2>2. ons = {On({"d1"}, 0), On({"d2"}, 1), On({"d3"}, 2)}
      BY <2>1 DEF Tractions
    <2>3. /\ About(type, dim) = {"d1", "d2", "d3"} /\ Free(type, dim) = {}
          /\ VariablesOf(p, dim) = {"d1", "d2", "d3"}
      <3>1. About(type, dim) = {"d1", "d2", "d3"}
        BY <2>1 DEF About, Displacement, LowMachTypes, FlowTypes, SolidTypes,
           SpeciesTypes, TempTypes, HeatFluxTypes
      <3>2. Free(type, dim) = {}
        BY <2>1 DEF Free
      <3>3. VariablesOf(p, dim) = {"d1", "d2", "d3"}
        BY <1>1 DEF VariablesOf, HandlerOf, Displacement
      <3> QED
        BY <3>1, <3>2, <3>3
    <2>4. Promised(type, dim) = {<<"d1", 0>>, <<"d2", 1>>, <<"d3", 2>>}
      BY <2>1, <2>3 DEF Promised, Given, Component
    <2>5. Promise(p, type) = {<<"d1", 0>>, <<"d2", 1>>, <<"d3", 2>>}
      BY <2>3, <2>4 DEF Promise
    <2> HIDE DEF ons, name
    <2>6. {<<name(on), on.value>> : on \in ons} =
            {<<"d1", 0>>, <<"d2", 1>>, <<"d3", 2>>}
      <3> DEFINE both(on) == <<name(on), on.value>>
      <3>1. /\ both(On({"d1"}, 0)) = <<"d1", 0>>
            /\ both(On({"d2"}, 1)) = <<"d2", 1>>
            /\ both(On({"d3"}, 2)) = <<"d3", 2>>
        BY <1>0
      <3> HIDE DEF both
      <3>2. {both(on) : on \in ons} = {<<"d1", 0>>, <<"d2", 1>>, <<"d3", 2>>}
        BY <2>2, <3>1
      <3> QED
        BY <3>2 DEF both
    <2> QED
      BY <2>1, <2>5, <2>6 DEF WallTypes, ons, name
  <1>2. CASE p # "ElasticCable"
    <2>1. /\ type \in {"prescribed_heat_flux", "general_heat_flux",
                       "adiabatic_wall", "axisymmetric"}
          /\ VariablesOf(p, dim) = {"T"}
      BY <1>2 DEF NeumannTypes, HeatFluxTypes, HandlerOf, VariablesOf
    <2>2. CASE type = "prescribed_heat_flux"
      <3>1. ons = {On({"T"}, 0)}
        BY <2>2 DEF Tractions, HeatFluxes
      <3>2. About(type, dim) = {"T"} /\ Free(type, dim) = {}
        BY <2>2 DEF About, Free, LowMachTypes, FlowTypes, SolidTypes,
           SpeciesTypes, TempTypes, HeatFluxTypes
      <3>3. Promise(p, type) = {<<"T", 0>>}
        BY <2>1, <2>2, <3>2 DEF Promise, Promised, Given, Component
      <3> HIDE DEF ons, name
      <3>4. {<<name(on), on.value>> : on \in ons} = {<<"T", 0>>}
        BY <1>0, <3>1
      <3> QED
        BY <2>2, <3>3, <3>4 DEF WallTypes, ons, name
    <2>3. CASE type = "general_heat_flux"
      <3>1. ons = {On({"T"}, Func)}
        BY <2>3 DEF Tractions, HeatFluxes
      <3>2. About(type, dim) = {"T"} /\ Free(type, dim) = {}
        BY <2>3 DEF About, Free, LowMachTypes, FlowTypes, SolidTypes,
           SpeciesTypes, TempTypes, HeatFluxTypes
      <3>3. Promise(p, type) = {<<"T", Func>>}
        BY <2>1, <2>3, <3>2 DEF Promise, Promised, Given, SpeciesTypes
      <3> HIDE DEF ons, name
      <3>4. {<<name(on), on.value>> : on \in ons} = {<<"T", Func>>}
        BY <1>0, <3>1
      <3> QED
        BY <2>3, <3>3, <3>4 DEF WallTypes, ons, name
    <2>4. CASE type = "adiabatic_wall"
      <3>1. ons = {}
        BY <2>4 DEF Tractions, HeatFluxes
      <3>2. About(type, dim) = {}
        BY <2>4 DEF About, LowMachTypes, FlowTypes, SolidTypes,
           SpeciesTypes, TempTypes, HeatFluxTypes
      <3>3. Promise(p, type) = {}
        BY <3>2 DEF Promise, Promised
      <3> HIDE DEF ons, name
      <3> QED
        BY <2>4, <3>1, <3>3 DEF WallTypes, ons, name
    <2>5. CASE type = "axisymmetric"
      <3>1. ons = {}
        BY <2>5 DEF Tractions, HeatFluxes
      <3>2. About(type, dim) = Velocity(dim)
        BY <2>5 DEF About, LowMachTypes, FlowTypes, SolidTypes, SpeciesTypes,
           TempTypes, HeatFluxTypes
      <3>3. Promise(p, type) = {}
        BY <2>1, <3>2 DEF Promise, Promised, Velocity
      <3> HIDE DEF ons, name
      <3> QED
        BY <2>5, <3>1, <3>3 DEF WallTypes, ons, name
    <2> QED
      BY <2>1, <2>2, <2>3, <2>4, <2>5
  <1> QED
    BY <1>1, <1>2

LEMMA NoFluxPromised ==
  ASSUME NEW p \in Physics \ AppliesFluxes,
         NEW type \in NeumannTypes[HandlerOf[p]],
         type \notin HeatFluxTypes \union {"constant_traction"}
  PROVE  type \notin WallTypes /\ Promise(p, type) = {}
  <1>1. p \in {"ElasticMembrane", "HeatConduction", "IncompressibleNavierStokes",
               "LowMachNavierStokes", "Stokes"}
    BY DEF Physics, Order, AppliesFluxes
  <1>2. type \in {"adiabatic_wall", "adiabatic"}
    BY <1>1 DEF NeumannTypes, HandlerOf
  <1>3. /\ type \notin WallTypes
        /\ type \notin LowMachTypes
        /\ type \notin SolidTypes \union {"constant_traction"}
        /\ type \notin SpeciesTypes \union {"general_species"}
        /\ type \notin TempTypes \union HeatFluxTypes \union {"isothermal_wall"}
    BY <1>2 DEF WallTypes, LowMachTypes, FlowTypes, SolidTypes, SpeciesTypes,
                TempTypes, HeatFluxTypes
  <1>4. About(type, request.dim) = {}
    BY <1>3 DEF About
  <1> QED
    BY <1>3, <1>4 DEF Promise, Promised

\* A handler that knows an entry of a wall is the reacting one.
LEMMA WallsAreFluxes ==
  ASSUME NEW p \in Physics, NEW e, ~Refuses(HandlerOf[p], e),
         e.type \in WallTypes
  PROVE  IsFlux(p, e)
  <1>1. HandlerOf[p] \in Handlers /\ e.type \in Accepted(HandlerOf[p])
    BY Tables, Reading
  <1>2. /\ \A h \in Handlers : e.type \notin DirichletTypes[h]
        /\ e.type \notin TempTypes \union SpeciesTypes \union BaseTypes
    BY DEF WallTypes, Handlers, DirichletTypes, LowMachTypes, FlowTypes,
           SolidTypes, TempTypes, SpeciesTypes, BaseTypes, FunctionTypes
  <1> QED
    BY <1>1, <1>2 DEF Accepted, LowMachOnly, ReactingOnly, IsFlux

\* The flux on an id is the one of the only entry for it.
LEMMA FluxOfEntry ==
  ASSUME Weighing, HandlersHold, pc = "solve", OneFluxPerId(request),
         NEW p \in Applying, NEW e \in EntriesOf(p), IsFlux(p, e),
         ~Fails(p, e.id)
  PROVE  {<<f.physics, f.id, f.var, f.value>> : f \in Fluxes(p, e.id)} =
           {<<p, e.id, d[1], d[2]>> : d \in AskedFluxes(p, e)}
  <1> DEFINE q == Entries(p)
             s == handler[p]
             n == Len(q)
             Tuple(f) == <<f.physics, f.id, f.var, f.value>>
  <1>1. /\ p \in Listed /\ p \in Physics /\ s \in HandlerStates
        /\ q \in Seq(Entry) /\ p \in AppliesFluxes
        /\ HasRead(p, q, s, n, request.user[p]) /\ p \in PhysicsIn(request)
    BY AllRead DEF Applying, Listed, PhysicsIn
  <1>2. PICK i \in 1..n : q[i] = e
    <2>1. DOMAIN q = 1..n
      BY <1>1
    <2> QED
      BY <2>1 DEF EntriesOf, EntriesIn, Entries
  <1>3. e \in Entry /\ e.id \in Ids /\ e.type # None
    <2>1. e \in Entry /\ HandlerOf[p] \in Handlers /\ ~Refuses(HandlerOf[p], e)
      BY <1>1, <1>2, Tables DEF HasRead
    <2>2. e.type \in Types
      BY <2>1, Accepting
    <2>3. None \notin Types
      BY DEF None, Types, Accepted, Handlers, DirichletTypes, NeumannTypes,
             LowMachOnly, ReactingOnly, BaseTypes, FunctionTypes, FlowTypes,
             LowMachTypes, SolidTypes, TempTypes, SpeciesTypes, HeatFluxTypes,
             WallTypes
    <2> QED
      BY <2>1, <2>2, <2>3 DEF Entry
  <1>4. \A j \in 1..n : (IsFlux(p, q[j]) /\ q[j].id = e.id) => j = i
    <2>1. DOMAIN q = 1..n
      BY <1>1
    <2> QED
      BY <1>1, <1>2, <2>1 DEF OneFluxPerId, Entries
  <1>5. s.neumann[e.id] = e.type
    <2>1. s.neumann[e.id] # None
      BY <1>1, <1>2 DEF HasRead, HoldsFluxes
    <2>2. PICK j \in 1..n : /\ IsFlux(p, q[j]) /\ q[j].id = e.id
                            /\ s.neumann[e.id] = q[j].type
      BY <1>1, <1>3, <2>1 DEF HasRead, HoldsFluxes
    <2> QED
      BY <1>2, <1>4, <2>2
  <1>6. \A x, v : /\ Flux(p, e.id, x, v).physics = p
                  /\ Flux(p, e.id, x, v).id = e.id
                  /\ Flux(p, e.id, x, v).var = x
                  /\ Flux(p, e.id, x, v).value = v
    BY DEF Flux
  <1>7. CASE e.type \in WallTypes
    <2>1. Fluxes(p, e.id) = WallFluxes(p, e.id)
      BY <1>3, <1>5, <1>7 DEF Fluxes
    <2>2. {w \in s.walls : w.id = e.id} = Walls(e)
      <3>1. \A j \in 1..n : ~Refuses(HandlerOf[p], q[j])
        BY <1>1 DEF HasRead
      <3>2. \A w : w \in s.walls <=>
              \E j \in 1..n : q[j].type \in WallTypes /\ w \in Walls(q[j])
        BY <1>1 DEF HasRead, HoldsWalls
      <3>3. \A x, w : w \in Walls(x) => w.id = x.id
        BY DEF Walls
      <3>4. ASSUME NEW w \in s.walls, w.id = e.id
            PROVE  w \in Walls(e)
        <4>1. PICK j \in 1..n : q[j].type \in WallTypes /\ w \in Walls(q[j])
          BY <3>2
        <4>2. IsFlux(p, q[j])
          BY <1>1, <3>1, <4>1, WallsAreFluxes
        <4>3. q[j].id = e.id
          BY <3>3, <3>4, <4>1
        <4> QED
          BY <1>2, <1>4, <4>1, <4>2, <4>3
      <3>5. \A w \in Walls(e) : w \in s.walls /\ w.id = e.id
        BY <1>2, <1>7, <3>2, <3>3
      <3> QED
        BY <3>4, <3>5
    <2>3. WallFluxes(p, e.id) =
            UNION {{Flux(p, e.id, w.on.reactant, w.number),
                    Flux(p, e.id, w.on.product, w.number)} : w \in Walls(e)}
      BY <2>2 DEF WallFluxes
    <2>4. \A f : f \in Fluxes(p, e.id) <=>
            \E r \in DOMAIN e.reactions :
              \/ f = Flux(p, e.id, e.reactions[r].reactant, r)
              \/ f = Flux(p, e.id, e.reactions[r].product, r)
      <3> DEFINE W(r) == [id |-> e.id, number |-> r, on |-> e.reactions[r]]
      <3>1. Walls(e) = {W(r) : r \in DOMAIN e.reactions}
        BY DEF Walls
      <3>2. \A r : W(r).number = r /\ W(r).on = e.reactions[r]
        OBVIOUS
      <3> HIDE DEF W
      <3> QED
        BY <2>1, <2>3, <3>1, <3>2
    <2>5. AskedFluxes(p, e) =
            UNION {{<<e.reactions[r].reactant, r>>, <<e.reactions[r].product, r>>} :
                     r \in DOMAIN e.reactions}
      BY <1>7 DEF AskedFluxes
    <2>6. \A d : d \in AskedFluxes(p, e) <=>
            \E r \in DOMAIN e.reactions :
              d = <<e.reactions[r].reactant, r>> \/ d = <<e.reactions[r].product, r>>
      BY <2>5
    <2> DEFINE Pair(d) == <<p, e.id, d[1], d[2]>>
    <2>7. \A x, r : Pair(<<x, r>>) = Tuple(Flux(p, e.id, x, r))
      BY <1>6
    <2> HIDE DEF Pair, Tuple
    <2>8. {Tuple(f) : f \in Fluxes(p, e.id)} = {Pair(d) : d \in AskedFluxes(p, e)}
      <3>1. ASSUME NEW f \in Fluxes(p, e.id)
            PROVE  \E d \in AskedFluxes(p, e) : Tuple(f) = Pair(d)
        <4>1. PICK r \in DOMAIN e.reactions :
                \/ f = Flux(p, e.id, e.reactions[r].reactant, r)
                \/ f = Flux(p, e.id, e.reactions[r].product, r)
          BY <2>4
        <4>2. /\ <<e.reactions[r].reactant, r>> \in AskedFluxes(p, e)
              /\ <<e.reactions[r].product, r>> \in AskedFluxes(p, e)
          BY <2>6
        <4> QED
          BY <2>7, <4>1, <4>2
      <3>2. ASSUME NEW d \in AskedFluxes(p, e)
            PROVE  \E f \in Fluxes(p, e.id) : Pair(d) = Tuple(f)
        BY <2>4, <2>6, <2>7
      <3> QED
        BY <3>1, <3>2
    <2> QED
      BY <2>8 DEF Pair, Tuple
  <1>8. CASE e.type \notin WallTypes
    <2> DEFINE ons == IF e.type \in DOMAIN Tractions THEN Tractions[e.type]
                      ELSE HeatFluxes[e.type]
               name(on) == CHOOSE x \in on.vars : TRUE
    <2>1. HandlerOf[p] # "Reacting"
      BY <1>3, <1>5, <1>8 DEF Fails
    <2>2. p \in {"AxisymmetricHeatTransfer", "ElasticCable", "HeatTransfer"}
      BY <1>1, <2>1 DEF AppliesFluxes, HandlerOf
    <2>3. Fluxes(p, e.id) = {Flux(p, e.id, name(on), on.value) : on \in ons}
      BY <1>3, <1>5, <1>8 DEF Fluxes
    <2>4. AskedFluxes(p, e) = {<<name(on), on.value>> : on \in ons}
      BY <1>8, <2>2, FluxesPromised DEF AskedFluxes, IsFlux
    <2> DEFINE Pair(d) == <<p, e.id, d[1], d[2]>>
    <2>5. \A x, v : Pair(<<x, v>>) = Tuple(Flux(p, e.id, x, v))
      BY <1>6
    <2> HIDE DEF ons, name, Pair, Tuple
    <2>6. {Tuple(f) : f \in Fluxes(p, e.id)} = {Pair(d) : d \in AskedFluxes(p, e)}
      <3>1. ASSUME NEW f \in Fluxes(p, e.id)
            PROVE  \E d \in AskedFluxes(p, e) : Tuple(f) = Pair(d)
        <4>1. PICK on \in ons : f = Flux(p, e.id, name(on), on.value)
          BY <2>3
        <4>2. <<name(on), on.value>> \in AskedFluxes(p, e)
          BY <2>4
        <4> QED
          BY <2>5, <4>1, <4>2
      <3>2. ASSUME NEW d \in AskedFluxes(p, e)
            PROVE  \E f \in Fluxes(p, e.id) : Pair(d) = Tuple(f)
        <4>1. PICK on \in ons : d = <<name(on), on.value>>
          BY <2>4
        <4>2. Flux(p, e.id, name(on), on.value) \in Fluxes(p, e.id)
          BY <2>3
        <4> QED
          BY <2>5, <4>1, <4>2
      <3> QED
        BY <3>1, <3>2
    <2> QED
      BY <2>6 DEF Pair, Tuple
  <1> QED
    BY <1>7, <1>8

\* The fluxes of a side are those of the entries of its ids.
LEMMA FluxesMeet ==
  ASSUME Weighing, HandlersHold, FluxIsOfSide,
         OneFluxPerId(request), FluxesArePassedOn(request)
  PROVE  FluxesAreOfInput
  <1> SUFFICES ASSUME pc = "solve"
               PROVE  {<<f.physics, f.id, f.var, f.value>> : f \in flux} =
                 UNION {UNION {{<<p, e.id, d[1], d[2]>> : d \in AskedFluxes(p, e)} :
                          e \in {g \in EntriesOf(p) : IsFlux(p, g) /\ g.id \in side}} :
                        p \in Listed}
    BY DEF FluxesAreOfInput
  <1> DEFINE Tuple(f) == <<f.physics, f.id, f.var, f.value>>
             Told(p, e) == {<<p, e.id, d[1], d[2]>> : d \in AskedFluxes(p, e)}
  <1>1. ASSUME NEW p \in Applying, NEW id \in side, NEW f \in Fluxes(p, id)
        PROVE  \E e \in EntriesOf(p) : IsFlux(p, e) /\ e.id = id
    <2>1. handler[p].neumann[id] # None
      BY <1>1 DEF Fluxes
    <2>2. /\ p \in Physics /\ Entries(p) \in Seq(Entry)
          /\ HasRead(p, Entries(p), handler[p], Len(Entries(p)), request.user[p])
      BY AllRead DEF Applying
    <2>3. id \in Ids
      BY DEF FluxIsOfSide
    <2>4. PICK i \in 1..Len(Entries(p)) :
            IsFlux(p, Entries(p)[i]) /\ Entries(p)[i].id = id
      BY <2>1, <2>2, <2>3 DEF HasRead, HoldsFluxes
    <2>5. Entries(p)[i] \in EntriesOf(p)
      <3>1. DOMAIN Entries(p) = 1..Len(Entries(p))
        BY <2>2
      <3> QED
        BY <3>1 DEF EntriesOf, EntriesIn, Entries
    <2> QED
      BY <2>4, <2>5
  <1>2. ASSUME NEW p \in Applying, NEW e \in EntriesOf(p), IsFlux(p, e), e.id \in side
        PROVE  {Tuple(f) : f \in Fluxes(p, e.id)} = Told(p, e)
    BY <1>2, FluxOfEntry DEF FluxIsOfSide
  <1>3. ASSUME NEW p \in Listed, p \notin AppliesFluxes, NEW e \in EntriesOf(p),
               IsFlux(p, e)
        PROVE  Told(p, e) = {}
    <2>1. p \in Physics /\ p \in PhysicsIn(request)
      BY AllRead DEF Listed, PhysicsIn
    <2>2. e.type \notin HeatFluxTypes \union {"constant_traction"}
      BY <1>3, <2>1 DEF FluxesArePassedOn, EntriesOf
    <2>3. AskedFluxes(p, e) = {}
      BY <1>3, <2>1, <2>2, NoFluxPromised DEF AskedFluxes, IsFlux
    <2> QED
      BY <2>3
  <1>4. flux = UNION {Fluxes(p, id) : p \in Applying, id \in side}
        /\ \A p : p \in Applying <=> p \in Listed /\ p \in AppliesFluxes
    BY DEF FluxIsOfSide, Applying
  <1> HIDE DEF Tuple, Told
  <1>5. ASSUME NEW x \in {Tuple(f) : f \in flux}
        PROVE  \E p \in Listed : \E e \in EntriesOf(p) :
                 IsFlux(p, e) /\ e.id \in side /\ x \in Told(p, e)
    <2>1. PICK p \in Applying, id \in side : \E f \in Fluxes(p, id) : x = Tuple(f)
      BY <1>4
    <2>2. PICK e \in EntriesOf(p) : IsFlux(p, e) /\ e.id = id
      BY <1>1, <2>1
    <2>3. x \in {Tuple(f) : f \in Fluxes(p, e.id)}
      BY <2>1, <2>2
    <2> QED
      BY <1>2, <1>4, <2>2, <2>3
  <1>6. ASSUME NEW p \in Listed, NEW e \in EntriesOf(p), IsFlux(p, e),
               e.id \in side, NEW x \in Told(p, e)
        PROVE  x \in {Tuple(f) : f \in flux}
    <2>1. p \in Applying
      BY <1>3, <1>4, <1>6
    <2>2. x \in {Tuple(f) : f \in Fluxes(p, e.id)}
      BY <1>2, <1>6, <2>1
    <2> QED
      BY <1>4, <1>6, <2>1, <2>2
  <1> QED
    BY <1>5, <1>6 DEF Tuple, Told

(***************************************************************************)
(* Essential conditions.                                                   *)
(***************************************************************************)

\* The variables and values of a list of conditions.
OnPairs(s) == {d \in Variables \X Values :
                 \E i \in DOMAIN s : d[1] \in s[i].vars /\ d[2] = s[i].value}

\* What a type determines.
Determined(type, dim) == About(type, dim) \ Free(type, dim)

\* What each type determines, type by type.
LEMMA DeterminedOf ==
  ASSUME NEW dim \in {2, 3}
  PROVE  /\ Determined("no_slip", dim) = Velocity(dim)
         /\ Determined("zero_x_velocity", dim) = {"u"}
         /\ Determined("zero_y_velocity", dim) = {"v"}
         /\ Determined("axisymmetric", dim) = {"u"}
         /\ Determined("prescribed_vel", dim) = Velocity(dim)
         /\ Determined("parabolic_profile", dim) = {}
         /\ Determined("general_velocity", dim) = {}
         /\ Determined("isothermal_wall", dim) = {"T"}
         /\ Determined("isothermal", dim) = {"T"}
         /\ Determined("general_isothermal", dim) = {}
         /\ Determined("prescribed_species", dim) = {"s1", "s2"}
         /\ Determined("prescribed_mole_fracs", dim) = {"s1", "s2"}
         /\ Determined("general_species", dim) = {}
         /\ Determined("pinned", dim) = {"d1", "d2", "d3"}
         /\ Determined("constant_displacement", dim) = {"d1", "d2", "d3"}
         /\ Determined("roller_x", dim) = {"d2", "d3"}
         /\ Determined("roller_y", dim) = {"d1", "d3"}
         /\ Determined("roller_z", dim) = {"d1", "d2"}
         /\ Determined("yz_symmetry", dim) = {"d1"}
         /\ Determined("xz_symmetry", dim) = {"d2"}
         /\ Determined("xy_symmetry", dim) = {"d3"}
  <1>1. /\ \A x \in LowMachTypes : About(x, dim) = Velocity(dim)
        /\ \A x \in SolidTypes : About(x, dim) = {"d1", "d2", "d3"}
        /\ \A x \in SpeciesTypes \union {"general_species"} :
             About(x, dim) = {"s1", "s2"}
        /\ \A x \in TempTypes \union {"isothermal_wall"} : About(x, dim) = {"T"}
    BY DEF About, LowMachTypes, FlowTypes, SolidTypes, SpeciesTypes, TempTypes,
           HeatFluxTypes, Displacement, Species
  <1>2. "u" \in Velocity(dim) /\ "v" \in Velocity(dim)
    BY DEF Velocity
  <1>3. /\ Free("zero_x_velocity", dim) = Velocity(dim) \ {"u"}
        /\ Free("zero_y_velocity", dim) = Velocity(dim) \ {"v"}
        /\ Free("axisymmetric", dim) = Velocity(dim) \ {"u"}
        /\ Free("roller_x", dim) = {"d1"}
        /\ Free("roller_y", dim) = {"d2"}
        /\ Free("roller_z", dim) = {"d3"}
        /\ Free("yz_symmetry", dim) = {"d2", "d3"}
        /\ Free("xz_symmetry", dim) = {"d1", "d3"}
        /\ Free("xy_symmetry", dim) = {"d1", "d2"}
    BY DEF Free, InDirection, Displacement
  <1>4. \A x \in {"parabolic_profile", "general_velocity", "general_isothermal",
                  "general_species"} : Free(x, dim) = About(x, dim)
    BY DEF Free
  <1>5. \A x \in {"no_slip", "prescribed_vel", "isothermal_wall", "isothermal",
                  "prescribed_species", "prescribed_mole_fracs", "pinned",
                  "constant_displacement"} : Free(x, dim) = {}
    BY DEF Free
  <1>6. /\ {"no_slip", "zero_x_velocity", "zero_y_velocity", "axisymmetric",
            "prescribed_vel"} \subseteq LowMachTypes
        /\ {"pinned", "constant_displacement", "roller_x", "roller_y",
            "roller_z", "yz_symmetry", "xz_symmetry", "xy_symmetry"}
             \subseteq SolidTypes
        /\ {"prescribed_species", "prescribed_mole_fracs"} \subseteq SpeciesTypes
        /\ "isothermal" \in TempTypes
    BY DEF LowMachTypes, FlowTypes, SolidTypes, SpeciesTypes, TempTypes
  <1> QED
    BY <1>1, <1>2, <1>3, <1>4, <1>5, <1>6 DEF Determined

\* Sequences one after another.
LEMMA Joined ==
  ASSUME NEW S, NEW a \in Seq(S), NEW b \in Seq(S)
  PROVE  /\ a \o b \in Seq(S)
         /\ Len(a \o b) = Len(a) + Len(b)
         /\ \A k \in 1..Len(a) : (a \o b)[k] = a[k]
         /\ \A k \in 1..Len(b) : (a \o b)[Len(a) + k] = b[k]
  OBVIOUS

LEMMA SameThree ==
  ASSUME NEW S, NEW c \in Seq(S), NEW d \in Seq(S), Len(c) = 3, Len(d) = 3,
         c[1] = d[1], c[2] = d[2], c[3] = d[3]
  PROVE  c = d
  <1>1. \A k \in 1..3 : k = 1 \/ k = 2 \/ k = 3
    OBVIOUS
  <1>2. \A k \in 1..3 : c[k] = d[k]
    BY <1>1
  <1> QED
    BY <1>2

LEMMA JoinedThree ==
  ASSUME NEW S, NEW x \in S, NEW y \in S, NEW z \in S
  PROVE  <<x, y>> \o <<z>> = <<x, y, z>>
  <1>1. /\ <<x, y>> \in Seq(S) /\ <<z>> \in Seq(S) /\ <<x, y, z>> \in Seq(S)
        /\ Len(<<x, y>>) = 2 /\ Len(<<z>>) = 1 /\ Len(<<x, y, z>>) = 3
    OBVIOUS
  <1>2. <<x, y>> \o <<z>> \in Seq(S) /\ Len(<<x, y>> \o <<z>>) = 3
    BY <1>1, Joined
  <1>3. (<<x, y>> \o <<z>>)[1] = x
    <2>1. 1 \in 1..Len(<<x, y>>)
      BY <1>1
    <2>2. (<<x, y>> \o <<z>>)[1] = <<x, y>>[1]
      BY <1>1, <2>1, Joined
    <2> QED
      BY <2>2
  <1>4. (<<x, y>> \o <<z>>)[2] = y
    <2>1. 2 \in 1..Len(<<x, y>>)
      BY <1>1
    <2>2. (<<x, y>> \o <<z>>)[2] = <<x, y>>[2]
      BY <1>1, <2>1, Joined
    <2> QED
      BY <2>2
  <1>5. (<<x, y>> \o <<z>>)[3] = z
    <2>1. 1 \in 1..Len(<<z>>)
      BY <1>1
    <2>2. (<<x, y>> \o <<z>>)[Len(<<x, y>>) + 1] = <<z>>[1]
      BY <1>1, <2>1, Joined
    <2>3. Len(<<x, y>>) + 1 = 3
      BY <1>1
    <2> QED
      BY <2>2, <2>3
  <1> QED
    BY <1>1, <1>2, <1>3, <1>4, <1>5, SameThree

\* The pairs of a list of one, two and three conditions.
LEMMA OnPairsOfOne ==
  ASSUME NEW V \in SUBSET Variables, NEW v \in Values
  PROVE  OnPairs(<<On(V, v)>>) = {<<x, v>> : x \in V}
  <1>1. \A S, x : On(S, x).vars = S /\ On(S, x).value = x
    BY DEF On
  <1>2. ASSUME NEW d
        PROVE  d \in OnPairs(<<On(V, v)>>) <=> d \in {<<x, v>> : x \in V}
    BY <1>1 DEF OnPairs
  <1> QED
    BY <1>2

LEMMA OnPairsOfTwo ==
  ASSUME NEW a \in Variables, NEW b \in Variables,
         NEW u \in Values, NEW v \in Values
  PROVE  OnPairs(<<On({a}, u), On({b}, v)>>) = {<<a, u>>, <<b, v>>}
  <1>1. \A S, x : On(S, x).vars = S /\ On(S, x).value = x
    BY DEF On
  <1>2. ASSUME NEW d
        PROVE  d \in OnPairs(<<On({a}, u), On({b}, v)>>) <=>
                 d \in {<<a, u>>, <<b, v>>}
    BY <1>1 DEF OnPairs
  <1> QED
    BY <1>2

LEMMA OnPairsOfThree ==
  ASSUME NEW a \in Variables, NEW b \in Variables, NEW c \in Variables,
         NEW u \in Values, NEW v \in Values, NEW w \in Values
  PROVE  OnPairs(<<On({a}, u), On({b}, v), On({c}, w)>>) =
           {<<a, u>>, <<b, v>>, <<c, w>>}
  <1>1. \A S, x : On(S, x).vars = S /\ On(S, x).value = x
    BY DEF On
  <1>2. ASSUME NEW d
        PROVE  d \in OnPairs(<<On({a}, u), On({b}, v), On({c}, w)>>) <=>
                 d \in {<<a, u>>, <<b, v>>, <<c, w>>}
    BY <1>1 DEF OnPairs
  <1> QED
    BY <1>2

\* The lists, type by type.
LEMMA ImposesOf ==
  ASSUME NEW dim \in {2, 3}
  PROVE  /\ \A x \in {"no_slip", "zero_x_velocity", "zero_y_velocity",
                      "axisymmetric", "pinned", "roller_x", "roller_y",
                      "roller_z", "yz_symmetry", "xz_symmetry", "xy_symmetry"} :
              Imposes(dim)[x] = <<On(Determined(x, dim), Zero)>>
         /\ \A x \in {"isothermal_wall", "isothermal"} :
              Imposes(dim)[x] = <<On({"T"}, 0)>>
         /\ \A x \in {"prescribed_species", "prescribed_mole_fracs"} :
              Imposes(dim)[x] = <<On({"s1"}, 0), On({"s2"}, 1)>>
         /\ Imposes(dim)["constant_displacement"] =
              <<On({"d1"}, 0), On({"d2"}, 1), On({"d3"}, 2)>>
         /\ Imposes(dim)["prescribed_vel"] =
              IF dim = 3 THEN <<On({"u"}, 0), On({"v"}, 1), On({"w"}, 2)>>
              ELSE <<On({"u"}, 0), On({"v"}, 1)>>
         /\ \A x \in {"parabolic_profile", "general_velocity",
                      "general_isothermal", "general_species"} :
              Imposes(dim)[x] = <<>>
  <1>1. /\ Imposes(dim)["no_slip"] = <<On(Velocity(dim), Zero)>>
        /\ Imposes(dim)["zero_x_velocity"] = <<On({"u"}, Zero)>>
        /\ Imposes(dim)["zero_y_velocity"] = <<On({"v"}, Zero)>>
        /\ Imposes(dim)["axisymmetric"] = <<On({"u"}, Zero)>>
        /\ Imposes(dim)["pinned"] = <<On({"d1", "d2", "d3"}, Zero)>>
        /\ Imposes(dim)["roller_x"] = <<On({"d2", "d3"}, Zero)>>
        /\ Imposes(dim)["roller_y"] = <<On({"d1", "d3"}, Zero)>>
        /\ Imposes(dim)["roller_z"] = <<On({"d1", "d2"}, Zero)>>
        /\ Imposes(dim)["yz_symmetry"] = <<On({"d1"}, Zero)>>
        /\ Imposes(dim)["xz_symmetry"] = <<On({"d2"}, Zero)>>
        /\ Imposes(dim)["xy_symmetry"] = <<On({"d3"}, Zero)>>
    BY DEF Imposes
  <1>2. \A x \in {"no_slip", "zero_x_velocity", "zero_y_velocity",
                  "axisymmetric", "pinned", "roller_x", "roller_y",
                  "roller_z", "yz_symmetry", "xz_symmetry", "xy_symmetry"} :
          Imposes(dim)[x] = <<On(Determined(x, dim), Zero)>>
    BY <1>1, DeterminedOf
  <1>3. /\ \A x \in {"isothermal_wall", "isothermal"} :
             Imposes(dim)[x] = <<On({"T"}, 0)>>
        /\ \A x \in {"prescribed_species", "prescribed_mole_fracs"} :
             Imposes(dim)[x] = <<On({"s1"}, 0), On({"s2"}, 1)>>
        /\ Imposes(dim)["constant_displacement"] =
             <<On({"d1"}, 0), On({"d2"}, 1), On({"d3"}, 2)>>
        /\ \A x \in {"parabolic_profile", "general_velocity",
                     "general_isothermal", "general_species"} :
             Imposes(dim)[x] = <<>>
    BY DEF Imposes
  <1>4. Imposes(dim)["prescribed_vel"] =
          <<On({"u"}, 0), On({"v"}, 1)>> \o
            (IF dim = 3 THEN <<On({"w"}, 2)>> ELSE <<>>)
    BY DEF Imposes
  <1>5. CASE dim = 3
    <2>1. <<On({"u"}, 0), On({"v"}, 1)>> \o <<On({"w"}, 2)>> =
            <<On({"u"}, 0), On({"v"}, 1), On({"w"}, 2)>>
      <3> DEFINE S == {On({"u"}, 0), On({"v"}, 1), On({"w"}, 2)}
      <3>1. On({"u"}, 0) \in S /\ On({"v"}, 1) \in S /\ On({"w"}, 2) \in S
        OBVIOUS
      <3> HIDE DEF S
      <3> QED
        BY <3>1, JoinedThree
    <2>2. Imposes(dim)["prescribed_vel"] =
            <<On({"u"}, 0), On({"v"}, 1), On({"w"}, 2)>>
      BY <1>4, <1>5, <2>1
    <2> QED
      BY <1>2, <1>3, <1>5, <2>2
  <1>6. CASE dim # 3
    <2>1. \A x, y : <<x, y>> \o <<>> = <<x, y>>
      OBVIOUS
    <2>2. Imposes(dim)["prescribed_vel"] = <<On({"u"}, 0), On({"v"}, 1)>>
      BY <1>4, <1>6, <2>1
    <2> QED
      BY <1>2, <1>3, <1>6, <2>2
  <1> QED
    BY <1>5, <1>6

\* What each of the lists imposes is what its type promises.
LEMMA ImposesThePromised ==
  ASSUME NEW dim \in {2, 3}, NEW type \in DOMAIN Imposes(2)
  PROVE  OnPairs(Imposes(dim)[type]) = Promised(type, dim)
  <1> DEFINE Z(V) == {<<x, Zero>> : x \in V}
  <1>1. ASSUME NEW x, x \notin Given, x # "general_heat_flux"
        PROVE  Promised(x, dim) = Z(Determined(x, dim))
    BY <1>1 DEF Promised, Determined
  <1>2. ASSUME NEW x \in Given
        PROVE  Promised(x, dim) = {<<y, Component[y]>> : y \in Determined(x, dim)}
    <2>1. x # "general_heat_flux"
      BY DEF Given, SpeciesTypes
    <2> QED
      BY <1>2, <2>1 DEF Promised, Determined
  <1>3. /\ Zero \in Values /\ 0 \in Values /\ 1 \in Values /\ 2 \in Values
        /\ Velocity(dim) \subseteq Variables
        /\ "u" \in Variables /\ "v" \in Variables /\ "w" \in Variables
        /\ "T" \in Variables /\ "s1" \in Variables /\ "s2" \in Variables
        /\ "d1" \in Variables /\ "d2" \in Variables /\ "d3" \in Variables
    BY DEF Values, Components, Variables, Velocity, Displacement, Species
  <1>4. CASE type \in {"no_slip", "zero_x_velocity", "zero_y_velocity",
                       "axisymmetric", "pinned", "roller_x", "roller_y",
                       "roller_z", "yz_symmetry", "xz_symmetry", "xy_symmetry"}
    <2>1. type \notin Given /\ type # "general_heat_flux"
      BY <1>4 DEF Given, SpeciesTypes
    <2>2. Imposes(dim)[type] = <<On(Determined(type, dim), Zero)>>
      BY <1>4, ImposesOf, Zenon
    <2>3. Determined(type, dim) \in SUBSET Variables
      BY <1>3, <1>4, DeterminedOf
    <2>4. OnPairs(<<On(Determined(type, dim), Zero)>>) = Z(Determined(type, dim))
      BY <1>3, <2>3, OnPairsOfOne
    <2> QED
      BY <1>1, <2>1, <2>2, <2>4
  <1>5. CASE type \in {"parabolic_profile", "general_velocity",
                       "general_isothermal", "general_species"}
    <2>1. type \notin Given /\ type # "general_heat_flux"
      BY <1>5 DEF Given, SpeciesTypes
    <2>2. Imposes(dim)[type] = <<>>
      BY <1>5, ImposesOf, Zenon
    <2>3. Determined(type, dim) = {}
      BY <1>5, DeterminedOf
    <2>4. OnPairs(<<>>) = {}
      BY DEF OnPairs
    <2> QED
      BY <1>1, <2>1, <2>2, <2>3, <2>4
  <1>6. CASE type \in {"isothermal_wall", "isothermal"}
    <2>1. type \in Given /\ Determined(type, dim) = {"T"}
      BY <1>6, DeterminedOf DEF Given
    <2>2. Imposes(dim)[type] = <<On({"T"}, 0)>>
      BY <1>6, ImposesOf, Zenon
    <2>3. Promised(type, dim) = {<<"T", 0>>}
      BY <1>2, <2>1 DEF Component
    <2>4. OnPairs(<<On({"T"}, 0)>>) = {<<x, 0>> : x \in {"T"}}
      <3>1. {"T"} \in SUBSET Variables
        BY <1>3
      <3> QED
        BY <1>3, <3>1, OnPairsOfOne
    <2> QED
      BY <2>2, <2>3, <2>4
  <1>7. CASE type \in {"prescribed_species", "prescribed_mole_fracs"}
    <2>1. type \in Given /\ Determined(type, dim) = {"s1", "s2"}
      BY <1>7, DeterminedOf DEF Given, SpeciesTypes
    <2>2. Imposes(dim)[type] = <<On({"s1"}, 0), On({"s2"}, 1)>>
      BY <1>7, ImposesOf, Zenon
    <2>3. Promised(type, dim) = {<<"s1", 0>>, <<"s2", 1>>}
      BY <1>2, <2>1 DEF Component
    <2> QED
      BY <1>3, <2>2, <2>3, OnPairsOfTwo
  <1>8. CASE type = "constant_displacement"
    <2>1. type \in Given /\ Determined(type, dim) = {"d1", "d2", "d3"}
      BY <1>8, DeterminedOf DEF Given
    <2>2. Imposes(dim)[type] = <<On({"d1"}, 0), On({"d2"}, 1), On({"d3"}, 2)>>
      BY <1>8, ImposesOf, Zenon
    <2>3. Promised(type, dim) = {<<"d1", 0>>, <<"d2", 1>>, <<"d3", 2>>}
      BY <1>2, <2>1 DEF Component
    <2> QED
      BY <1>3, <2>2, <2>3, OnPairsOfThree
  <1>9. CASE type = "prescribed_vel"
    <2>1. type \in Given /\ Determined(type, dim) = Velocity(dim)
      BY <1>9, DeterminedOf DEF Given
    <2>2. CASE dim = 3
      <3>1. Imposes(dim)[type] = <<On({"u"}, 0), On({"v"}, 1), On({"w"}, 2)>>
        BY <1>9, <2>2, ImposesOf
      <3>2. Promised(type, dim) = {<<"u", 0>>, <<"v", 1>>, <<"w", 2>>}
        BY <1>2, <2>1, <2>2 DEF Component, Velocity
      <3> QED
        BY <1>3, <3>1, <3>2, OnPairsOfThree
    <2>3. CASE dim # 3
      <3>1. Imposes(dim)[type] = <<On({"u"}, 0), On({"v"}, 1)>>
        BY <1>9, <2>3, ImposesOf
      <3>2. Promised(type, dim) = {<<"u", 0>>, <<"v", 1>>}
        BY <1>2, <2>1, <2>3 DEF Component, Velocity
      <3> QED
        BY <1>3, <3>1, <3>2, OnPairsOfTwo
    <2> QED
      BY <2>2, <2>3
  <1> QED
    BY <1>4, <1>5, <1>6, <1>7, <1>8, <1>9 DEF Imposes

\* The lists are of variables and values, and what they take from the input is
\* among the components an entry of the type stores.
Complete(e) == e.type = "constant_displacement" => e.comps >= 3

LEMMA ImposesStored ==
  ASSUME NEW dim \in {2, 3}, NEW e \in Entry, e.type \in DOMAIN Imposes(2),
         Complete(e), NEW i \in DOMAIN Imposes(dim)[e.type]
  PROVE  LET on == Imposes(dim)[e.type][i] IN
         /\ on.vars \subseteq Variables
         /\ on.value \in Values
         /\ on.value \in Components =>
              [id |-> e.id, store |-> StoreOf(e.type), component |-> on.value]
                \in Stores(e)
  <1> DEFINE on == Imposes(dim)[e.type][i]
             In3(C) == [id |-> e.id, store |-> StoreOf(e.type),
                        component |-> C] \in Stores(e)
  <1>1. \A S, x : On(S, x).vars = S /\ On(S, x).value = x
    BY DEF On
  <1>2. /\ Zero \in Values /\ 0 \in Values /\ 1 \in Values /\ 2 \in Values
        /\ Zero \notin Components
        /\ Velocity(dim) \subseteq Variables
        /\ "u" \in Variables /\ "v" \in Variables /\ "w" \in Variables
        /\ "T" \in Variables /\ "s1" \in Variables /\ "s2" \in Variables
        /\ "d1" \in Variables /\ "d2" \in Variables /\ "d3" \in Variables
    BY DEF Values, Components, Zero, Variables, Velocity, Displacement, Species
  <1>3. CASE e.type \in {"no_slip", "zero_x_velocity", "zero_y_velocity",
                         "axisymmetric", "pinned", "roller_x", "roller_y",
                         "roller_z", "yz_symmetry", "xz_symmetry",
                         "xy_symmetry"}
    <2>1. Imposes(dim)[e.type] = <<On(Determined(e.type, dim), Zero)>>
      BY <1>3, ImposesOf, Zenon
    <2>2. Determined(e.type, dim) \subseteq Variables
      BY <1>2, <1>3, DeterminedOf
    <2>3. on = On(Determined(e.type, dim), Zero)
      BY <2>1
    <2> QED
      BY <1>1, <1>2, <2>2, <2>3
  <1>4. CASE e.type \in {"isothermal_wall", "isothermal"}
    <2>1. Imposes(dim)[e.type] = <<On({"T"}, 0)>>
      BY <1>4, ImposesOf, Zenon
    <2>2. In3(0)
      BY <1>4 DEF Stores
    <2>3. on = On({"T"}, 0)
      BY <2>1
    <2> QED
      BY <1>1, <1>2, <2>2, <2>3
  <1>5. CASE e.type \in SpeciesTypes
    <2>1. Imposes(dim)[e.type] = <<On({"s1"}, 0), On({"s2"}, 1)>>
      BY <1>5, ImposesOf, Zenon DEF SpeciesTypes
    <2>2. In3(0) /\ In3(1)
      <3>1. e.type \notin {"isothermal_wall", "isothermal", "prescribed_vel"}
        BY <1>5 DEF SpeciesTypes
      <3>2. e.type # "constant_displacement"
        BY <1>5 DEF SpeciesTypes
      <3> QED
        BY <1>5, <3>1, <3>2 DEF Stores
    <2>3. on = On({"s1"}, 0) \/ on = On({"s2"}, 1)
      BY <2>1
    <2> QED
      BY <1>1, <1>2, <2>2, <2>3
  <1>6. CASE e.type = "constant_displacement"
    <2>1. Imposes(dim)[e.type] = <<On({"d1"}, 0), On({"d2"}, 1), On({"d3"}, 2)>>
      BY <1>6, ImposesOf, Zenon
    <2>2. In3(0) /\ In3(1) /\ In3(2)
      <3>1. e.comps \in Nat /\ e.comps >= 3
        BY <1>6 DEF Entry, Complete
      <3>2. 0 \in 0..(e.comps - 1) /\ 1 \in 0..(e.comps - 1)
            /\ 2 \in 0..(e.comps - 1)
        BY <3>1
      <3>3. e.type \notin SpeciesTypes
        BY <1>6 DEF SpeciesTypes
      <3> QED
        BY <1>6, <3>2, <3>3 DEF Stores
    <2>3. on = On({"d1"}, 0) \/ on = On({"d2"}, 1) \/ on = On({"d3"}, 2)
      BY <2>1
    <2> QED
      BY <1>1, <1>2, <2>2, <2>3
  <1>7. CASE e.type = "prescribed_vel"
    <2>1. on = On({"u"}, 0) \/ on = On({"v"}, 1) \/ on = On({"w"}, 2)
      <3>1. CASE dim = 3
        <4>1. Imposes(dim)[e.type] =
                <<On({"u"}, 0), On({"v"}, 1), On({"w"}, 2)>>
          BY <1>7, <3>1, ImposesOf
        <4> QED
          BY <4>1
      <3>2. CASE dim # 3
        <4>1. Imposes(dim)[e.type] = <<On({"u"}, 0), On({"v"}, 1)>>
          BY <1>7, <3>2, ImposesOf
        <4> QED
          BY <4>1
      <3> QED
        BY <3>1, <3>2
    <2>2. In3(0) /\ In3(1) /\ In3(2)
      <3>1. e.type \notin SpeciesTypes
        BY <1>7 DEF SpeciesTypes
      <3> QED
        BY <1>7, <3>1 DEF Stores, Components
    <2> QED
      BY <1>1, <1>2, <2>1, <2>2
  <1>8. CASE e.type \in {"parabolic_profile", "general_velocity",
                         "general_isothermal", "general_species"}
    <2>1. Imposes(dim)[e.type] = <<>>
      BY <1>8, ImposesOf, Zenon
    <2> QED
      BY <2>1
  <1> QED
    BY <1>3, <1>4, <1>5, <1>6, <1>7, <1>8 DEF Imposes, SpeciesTypes

\* A condition as its variables on a boundary with a value.
TripleOf(d, id) == <<d[1], id, d[2]>>

\* A list imposes on the boundary of its entry what the type promises.
LEMMA ListedImposes ==
  ASSUME NEW p \in Physics, NEW e \in Entry, request.dim \in {2, 3},
         e.type \in DOMAIN Imposes(2), Complete(e),
         Stores(e) \subseteq handler[p].values, NEW t
  PROVE  (\E c : In(c, Imposed(p, ListOf(e))) /\ t \in OnIds(c)) <=>
           \E d \in Promised(e.type, request.dim) : t = TripleOf(d, e.id)
  <1> DEFINE list == Imposes(request.dim)[e.type]
             b == Boundaries(p, e.id, e.type)
  <1>1. Imposed(p, ListOf(e)) = b
    BY DEF Imposed, ListOf
  <1>2. DOMAIN b = DOMAIN list
    BY DEF Boundaries
  <1>3. ASSUME NEW i \in DOMAIN list
        PROVE  /\ b[i].ids = {e.id}
               /\ b[i].vars = list[i].vars
               /\ b[i].value = list[i].value
               /\ list[i].vars \subseteq Variables
               /\ list[i].value \in Values
    <2>1. /\ b[i].ids = {e.id}
          /\ b[i].vars = list[i].vars
          /\ b[i].value = Stored(p, e.id, StoreOf(e.type), list[i].value)
      BY DEF Boundaries
    <2>2. /\ list[i].vars \subseteq Variables
          /\ list[i].value \in Values
          /\ list[i].value \in Components =>
               [id |-> e.id, store |-> StoreOf(e.type),
                component |-> list[i].value] \in Stores(e)
      BY ImposesStored
    <2>3. Stored(p, e.id, StoreOf(e.type), list[i].value) = list[i].value
      BY <2>2 DEF Stored
    <2> QED
      BY <2>1, <2>2, <2>3
  <1>4. OnPairs(list) = Promised(e.type, request.dim)
    BY ImposesThePromised
  <1>5. \A i \in DOMAIN list : t \in OnIds(b[i]) <=>
          \E x \in list[i].vars : t = <<x, e.id, list[i].value>>
    BY <1>3 DEF OnIds
  <1>6. ASSUME NEW i \in DOMAIN list, t \in OnIds(b[i])
        PROVE  \E d \in Promised(e.type, request.dim) : t = TripleOf(d, e.id)
    <2>1. PICK x \in list[i].vars : t = <<x, e.id, list[i].value>>
      BY <1>5, <1>6
    <2>2. <<x, list[i].value>> \in OnPairs(list)
      <3>1. <<x, list[i].value>> \in Variables \X Values
        BY <1>3, <2>1
      <3> QED
        BY <3>1, <2>1 DEF OnPairs
    <2> QED
      BY <1>4, <2>1, <2>2 DEF TripleOf
  <1>7. ASSUME NEW d \in Promised(e.type, request.dim), t = TripleOf(d, e.id)
        PROVE  \E i \in DOMAIN list : t \in OnIds(b[i])
    <2>1. PICK i \in DOMAIN list : d[1] \in list[i].vars /\ d[2] = list[i].value
      BY <1>4 DEF OnPairs
    <2>2. t = <<d[1], e.id, list[i].value>>
      BY <1>7, <2>1 DEF TripleOf
    <2> QED
      BY <1>5, <2>1, <2>2
  <1> HIDE DEF list, b
  <1> QED
    BY <1>1, <1>2, <1>6, <1>7 DEF In

\* The function objects an entry adds are those it names.
LEMMA ObjectsAsked ==
  ASSUME NEW p \in Physics, NEW e \in Entry, ~Refuses(HandlerOf[p], e), NEW t
  PROVE  (\E c : In(c, Objects(HandlerOf[p], e)) /\ t \in OnIds(c)) <=>
           \E d \in PromisedObjects(p, e) : t = TripleOf(d, e.id)
  <1> DEFINE h == HandlerOf[p]
  <1> DEFINE Tells(c) == t \in OnIds(c)
             Named(d) == t = TripleOf(d, e.id)
             Claim(list, pairs) ==
               (\E c : In(c, list) /\ Tells(c)) <=> \E d \in pairs : Named(d)
  <1> SUFFICES Claim(Objects(h, e), PromisedObjects(p, e))
    BY DEF Claim, Tells, Named
  <1>1. ASSUME NEW x, NEW v
        PROVE  Tells(Object(e, x, v)) <=> Named(<<x, v>>)
    BY DEF OnIds, Object, TripleOf
  <1> HIDE DEF Tells, Named, Claim
  <1>2. ASSUME NEW x, NEW v
        PROVE  (\E c : In(c, <<Object(e, x, v)>>) /\ Tells(c)) <=>
                 \E d \in {<<x, v>>} : Named(d)
    <2>1. \A c : In(c, <<Object(e, x, v)>>) <=> c = Object(e, x, v)
      BY DEF In
    <2>2. (\E d \in {<<x, v>>} : Named(d)) <=> Named(<<x, v>>)
      OBVIOUS
    <2>3. Tells(Object(e, x, v)) <=> Named(<<x, v>>)
      BY <1>1
    <2> QED
      BY <2>1, <2>2, <2>3
  <1>3. ASSUME NEW x, NEW v, NEW a, NEW w
        PROVE  (\E c : In(c, <<Object(e, x, v), Object(e, a, w)>>)
                       /\ Tells(c)) <=>
                 \E d \in {<<x, v>>, <<a, w>>} : Named(d)
    <2>1. \A c : In(c, <<Object(e, x, v), Object(e, a, w)>>) <=>
            c = Object(e, x, v) \/ c = Object(e, a, w)
      BY DEF In
    <2>2. (\E d \in {<<x, v>>, <<a, w>>} : Named(d)) <=>
            Named(<<x, v>>) \/ Named(<<a, w>>)
      OBVIOUS
    <2>3. /\ Tells(Object(e, x, v)) <=> Named(<<x, v>>)
          /\ Tells(Object(e, a, w)) <=> Named(<<a, w>>)
      BY <1>1
    <2> QED
      BY <2>1, <2>2, <2>3
  <1>4. CASE e.type \in FunctionTypes
    <2>1. Objects(h, e) = <<Object(e, e.var, Func)>>
      BY <1>4 DEF Objects, FunctionTypes
    <2>2. PromisedObjects(p, e) = {<<e.var, Func>>}
      BY <1>4 DEF PromisedObjects, FunctionTypes
    <2> QED
      BY <1>2, <2>1, <2>2 DEF Claim
  <1>5. CASE e.type = "parabolic_profile"
    <2>1. Objects(h, e) = <<Object(e, e.var, Func), Object(e, e.fix, Zero)>>
      BY <1>5 DEF Objects, FunctionTypes
    <2>2. PromisedObjects(p, e) = {<<e.var, Func>>, <<e.fix, Zero>>}
      BY <1>5 DEF PromisedObjects, FunctionTypes
    <2> QED
      BY <1>3, <2>1, <2>2 DEF Claim
  <1>6. CASE e.type = "general_velocity" /\ h # "Flow"
    <2>1. Objects(h, e) = <<Object(e, e.fix, Zero)>>
      BY <1>6 DEF Objects, FunctionTypes
    <2>2. h \in {"LowMach", "Reacting"}
      <3>1. h \in Handlers /\ e.type \in Accepted(h)
        BY Tables, Reading
      <3>2. e.type \notin NeumannTypes[h] /\ e.type \notin LowMachOnly(h)
            /\ e.type \notin ReactingOnly(h) /\ e.type \notin BaseTypes
        BY <1>6, <3>1 DEF NeumannTypes, Handlers, DirichletTypes, LowMachOnly,
           ReactingOnly, BaseTypes, FunctionTypes, TempTypes, SpeciesTypes,
           HeatFluxTypes, WallTypes
      <3>3. e.type \in DirichletTypes[h]
        BY <3>1, <3>2 DEF Accepted
      <3> QED
        BY <1>6, <3>1, <3>3 DEF Handlers, DirichletTypes, SolidTypes
    <2>3. PromisedObjects(p, e) = {<<e.fix, Zero>>}
      BY <1>6, <2>2 DEF PromisedObjects, FunctionTypes
    <2> QED
      BY <1>2, <2>1, <2>3 DEF Claim
  <1>7. CASE /\ e.type \notin FunctionTypes
             /\ e.type # "parabolic_profile"
             /\ ~(e.type = "general_velocity" /\ h # "Flow")
    <2>1. Objects(h, e) = <<>>
      BY <1>7 DEF Objects
    <2>2. PromisedObjects(p, e) = {}
      BY <1>7 DEF PromisedObjects
    <2>3. \A c : ~In(c, <<>>)
      BY DEF In
    <2> QED
      BY <2>1, <2>2, <2>3 DEF Claim
  <1> QED
    BY <1>4, <1>5, <1>6, <1>7

\* What is kept in the lists is about the physics' variables and no flux; what
\* is neither in the lists nor a flux promises nothing but functions.
LEMMA ListedIsNoFlux ==
  ASSUME NEW p \in Physics, NEW e \in Entry, ~Refuses(HandlerOf[p], e),
         request.dim \in {2, 3}
  PROVE  /\ IsListed(p, e) =>
              /\ ~IsFlux(p, e)
              /\ e.type \in DOMAIN Imposes(2)
              /\ Promise(p, e.type) = Promised(e.type, request.dim)
         /\ IsFlux(p, e) => PromisedObjects(p, e) = {}
         /\ (~IsListed(p, e) /\ ~IsFlux(p, e)) => Promise(p, e.type) = {}
  <1> DEFINE h == HandlerOf[p]
             dim == request.dim
  <1>1. h \in Handlers /\ e.type \in Handled(h)
    BY Tables, Reading
  <1>2. e.type \in Accepted(h)
    BY <1>1 DEF Handled
  <1>3. ASSUME IsFlux(p, e)
        PROVE  PromisedObjects(p, e) = {}
    <2>1. /\ e.type \notin FunctionTypes
          /\ e.type # "parabolic_profile"
          /\ e.type # "general_velocity"
      BY <1>1, <1>3 DEF IsFlux, NeumannTypes, Handlers, DirichletTypes,
         FunctionTypes, HeatFluxTypes, WallTypes
    <2> QED
      BY <2>1 DEF PromisedObjects
  <1>4. ASSUME ~IsListed(p, e), ~IsFlux(p, e)
        PROVE  Promise(p, e.type) = {}
    <2>1. e.type \notin LowMachOnly(h) /\ e.type \notin ReactingOnly(h)
      BY <1>4 DEF IsListed, LowMachOnly, ReactingOnly
    <2>2. e.type \in BaseTypes /\ h # "AxisymHeat"
      BY <1>2, <1>4, <2>1 DEF Accepted, IsFlux, IsListed, Ordered
    <2>3. e.type # "axisymmetric"
      BY <1>1, <1>4, <2>2 DEF Handled, Handlers, DirichletTypes, IsListed,
         Ordered, LowMachTypes, FlowTypes
    <2>4. e.type \in {"periodic"} \union FunctionTypes
      BY <2>2, <2>3 DEF BaseTypes
    <2>5. About(e.type, dim) = {}
      BY <2>4 DEF About, LowMachTypes, FlowTypes, SolidTypes, SpeciesTypes,
         TempTypes, HeatFluxTypes, FunctionTypes
    <2>6. Promised(e.type, dim) = {}
      BY <2>5 DEF Promised
    <2> QED
      BY <2>6 DEF Promise
  <1>5. ASSUME IsListed(p, e)
        PROVE  /\ ~IsFlux(p, e)
               /\ e.type \in DOMAIN Imposes(2)
               /\ About(e.type, dim) \subseteq VariablesOf(p, dim)
    <2>1. e.type \in DOMAIN Imposes(2)
      BY <1>1, <1>5 DEF IsListed, Ordered, Handlers, DirichletTypes, Imposes,
         LowMachTypes, FlowTypes, SolidTypes, TempTypes, SpeciesTypes
    <2>2. CASE e.type \in DirichletTypes[h]
      <3>1. ~IsFlux(p, e)
        BY <1>1, <2>2 DEF IsFlux, NeumannTypes, Handlers, DirichletTypes,
           LowMachTypes, FlowTypes, SolidTypes, HeatFluxTypes, WallTypes
      <3>2. CASE h \in {"Flow", "LowMach", "Reacting"}
        <4>1. CASE e.type \in LowMachTypes
          <5>1. About(e.type, dim) = Velocity(dim)
            BY <4>1 DEF About, LowMachTypes, FlowTypes, SolidTypes,
               SpeciesTypes, TempTypes, HeatFluxTypes
          <5>2. Velocity(dim) \subseteq VariablesOf(p, dim)
            BY <3>2 DEF VariablesOf
          <5> QED
            BY <2>1, <3>1, <5>1, <5>2
        <4>2. CASE e.type = "general_species" /\ h = "Reacting"
          <5>1. About(e.type, dim) = Species
            BY <4>2 DEF About, LowMachTypes, FlowTypes, SolidTypes,
               SpeciesTypes, TempTypes, HeatFluxTypes
          <5>2. Species \subseteq VariablesOf(p, dim)
            BY <4>2 DEF VariablesOf
          <5> QED
            BY <2>1, <3>1, <5>1, <5>2
        <4> QED
          BY <2>2, <3>2, <4>1, <4>2 DEF DirichletTypes, LowMachTypes
      <3>3. CASE h \in {"Heat", "AxisymHeat"}
        <4>1. e.type = "isothermal_wall"
          BY <2>2, <3>3 DEF DirichletTypes
        <4>2. About(e.type, dim) = {"T"}
          BY <4>1 DEF About, LowMachTypes, FlowTypes, SolidTypes, SpeciesTypes,
             TempTypes, HeatFluxTypes
        <4>3. VariablesOf(p, dim) = {"T"}
          BY <3>3 DEF VariablesOf
        <4> QED
          BY <2>1, <3>1, <4>2, <4>3
      <3>4. CASE h = "Solid"
        <4>1. e.type \in SolidTypes
          BY <2>2, <3>4 DEF DirichletTypes
        <4>2. About(e.type, dim) = Displacement
          BY <4>1 DEF About, LowMachTypes, FlowTypes, SolidTypes, SpeciesTypes,
             TempTypes, HeatFluxTypes
        <4>3. VariablesOf(p, dim) = Displacement
          BY <3>4 DEF VariablesOf
        <4> QED
          BY <2>1, <3>1, <4>2, <4>3
      <3> QED
        BY <1>1, <3>2, <3>3, <3>4 DEF Handlers, DirichletTypes
    <2>3. CASE e.type \in TempTypes
      <3>1. h \in {"LowMach", "Reacting"}
        BY <1>1, <1>2, <2>3 DEF Accepted, LowMachOnly, ReactingOnly, Handlers,
           DirichletTypes, NeumannTypes, BaseTypes, FunctionTypes, LowMachTypes,
           FlowTypes, SolidTypes, HeatFluxTypes, WallTypes, TempTypes,
           SpeciesTypes
      <3>2. ~IsFlux(p, e)
        BY <2>3, <3>1 DEF IsFlux, NeumannTypes, HeatFluxTypes, WallTypes,
           TempTypes
      <3>3. About(e.type, dim) = {"T"}
        BY <2>3 DEF About, LowMachTypes, FlowTypes, SolidTypes, SpeciesTypes,
           TempTypes, HeatFluxTypes
      <3>4. "T" \in VariablesOf(p, dim)
        BY <3>1 DEF VariablesOf
      <3> QED
        BY <2>1, <3>2, <3>3, <3>4
    <2>4. CASE e.type \in SpeciesTypes
      <3>1. h = "Reacting"
        BY <1>1, <1>2, <2>4 DEF Accepted, LowMachOnly, ReactingOnly, Handlers,
           DirichletTypes, NeumannTypes, BaseTypes, FunctionTypes, LowMachTypes,
           FlowTypes, SolidTypes, HeatFluxTypes, WallTypes, TempTypes,
           SpeciesTypes
      <3>2. ~IsFlux(p, e)
        BY <2>4, <3>1 DEF IsFlux, NeumannTypes, HeatFluxTypes, WallTypes,
           SpeciesTypes
      <3>3. About(e.type, dim) = Species
        BY <2>4 DEF About, LowMachTypes, FlowTypes, SolidTypes, SpeciesTypes,
           TempTypes, HeatFluxTypes
      <3>4. Species \subseteq VariablesOf(p, dim)
        BY <3>1 DEF VariablesOf
      <3> QED
        BY <2>1, <3>2, <3>3, <3>4
    <2> QED
      BY <1>5, <2>2, <2>3, <2>4 DEF IsListed, Ordered
  <1>6. ASSUME IsListed(p, e)
        PROVE  Promise(p, e.type) = Promised(e.type, dim)
    <2>1. About(e.type, dim) \subseteq VariablesOf(p, dim)
      BY <1>5, <1>6
    <2>2. \A d \in Promised(e.type, dim) : d[1] \in About(e.type, dim)
      BY DEF Promised
    <2> QED
      BY <2>1, <2>2 DEF Promise
  <1> QED
    BY <1>3, <1>4, <1>5, <1>6

\* What one entry asks for is what the lists and the objects got of it.
LEMMA EntryAsks ==
  ASSUME NEW p \in Physics, NEW e \in Entry, ~Refuses(HandlerOf[p], e),
         request.dim \in {2, 3}, Complete(e),
         Stores(e) \subseteq handler[p].values, NEW t
  PROVE  (\E d \in AskedOf(p, e) : t = TripleOf(d, e.id)) <=>
           \/ /\ IsListed(p, e)
              /\ \E c : In(c, Imposed(p, ListOf(e))) /\ t \in OnIds(c)
           \/ \E c : In(c, Objects(HandlerOf[p], e)) /\ t \in OnIds(c)
  <1> DEFINE Named(d) == t = TripleOf(d, e.id)
             Given1 == \E c : In(c, Imposed(p, ListOf(e))) /\ t \in OnIds(c)
             Given2 == \E c : In(c, Objects(HandlerOf[p], e)) /\ t \in OnIds(c)
  <1>1. Given2 <=> \E d \in PromisedObjects(p, e) : Named(d)
    BY ObjectsAsked
  <1>2. CASE IsListed(p, e)
    <2>1. /\ ~IsFlux(p, e)
          /\ e.type \in DOMAIN Imposes(2)
          /\ Promise(p, e.type) = Promised(e.type, request.dim)
      BY <1>2, ListedIsNoFlux
    <2>2. Given1 <=> \E d \in Promised(e.type, request.dim) : Named(d)
      BY <2>1, ListedImposes
    <2>3. AskedOf(p, e) = Promised(e.type, request.dim) \union PromisedObjects(p, e)
      BY <2>1 DEF AskedOf
    <2> HIDE DEF Named, Given1, Given2
    <2>4. (\E d \in AskedOf(p, e) : Named(d)) <=>
            \/ \E d \in Promised(e.type, request.dim) : Named(d)
            \/ \E d \in PromisedObjects(p, e) : Named(d)
      BY <2>3
    <2>5. (\E d \in AskedOf(p, e) : Named(d)) <=>
            (IsListed(p, e) /\ Given1) \/ Given2
      BY <1>1, <1>2, <2>2, <2>4
    <2> QED
      BY <2>5 DEF Named, Given1, Given2
  <1>3. CASE ~IsListed(p, e)
    <2>1. IsFlux(p, e) => PromisedObjects(p, e) = {}
      BY ListedIsNoFlux
    <2>2. ~IsFlux(p, e) => Promise(p, e.type) = {}
      BY <1>3, ListedIsNoFlux
    <2>3. AskedOf(p, e) = PromisedObjects(p, e)
      BY <2>1, <2>2 DEF AskedOf
    <2> HIDE DEF Named, Given1, Given2
    <2>4. (\E d \in AskedOf(p, e) : Named(d)) <=>
            (IsListed(p, e) /\ Given1) \/ Given2
      BY <1>1, <1>3, <2>3
    <2> QED
      BY <2>4 DEF Named, Given1, Given2
  <1> QED
    BY <1>2, <1>3

\* What a physics asks for is what it hands to the DofMap.
Asks(p, t) ==
  \/ \E e \in EntriesOf(p) : \E d \in AskedOf(p, e) : t = TripleOf(d, e.id)
  \/ \E c : In(c, request.user[p]) /\ t \in OnIds(c)

\* Of the entries and the user together.
LEMMA PhysicsAsks ==
  ASSUME Weighing, HandlersHold, pc = "solve",
         DisplacementsAreComplete(request), NEW p \in Listed, NEW t
  PROVE  (\E c : IsOf(p, c) /\ t \in OnIds(c)) <=> Asks(p, t)
  <1> DEFINE q == Entries(p)
             s == handler[p]
             n == Len(q)
             h == HandlerOf[p]
             u == request.user[p]
             FromList(i) == /\ IsListed(p, q[i])
                            /\ \E c : In(c, Imposed(p, ListOf(q[i])))
                                      /\ t \in OnIds(c)
             FromObject(i) == \E c : In(c, Objects(h, q[i])) /\ t \in OnIds(c)
             FromEntry(i) == \E d \in AskedOf(p, q[i]) : t = TripleOf(d, q[i].id)
             FromUser == \E c : In(c, u) /\ t \in OnIds(c)
  <1>1. /\ p \in Physics
        /\ s \in HandlerStates
        /\ q \in Seq(Entry)
        /\ HasRead(p, q, s, n, u)
    BY AllRead
  <1>2. DOMAIN q = 1..n /\ \A i \in 1..n : q[i] \in Entry
    BY <1>1
  <1>3. request.dim \in {2, 3}
    BY DEF Weighing, TypeOK, RequestType
  <1>4. ASSUME NEW i \in 1..n
        PROVE  /\ ~Refuses(h, q[i])
               /\ Complete(q[i])
               /\ Stores(q[i]) \subseteq s.values
    <2>1. ~Refuses(h, q[i]) /\ Stores(q[i]) \subseteq s.values
      BY <1>1 DEF HasRead, HoldsValues
    <2>2. p \in PhysicsIn(request) /\ q[i] \in EntriesIn(request, p)
      BY <1>2 DEF Listed, PhysicsIn, EntriesIn, Entries
    <2> QED
      BY <2>1, <2>2 DEF DisplacementsAreComplete, Complete
  <1>5. \A i \in 1..n : FromEntry(i) <=> FromList(i) \/ FromObject(i)
    <2> TAKE i \in 1..n
    <2>1. /\ q[i] \in Entry
          /\ ~Refuses(h, q[i])
          /\ Complete(q[i])
          /\ Stores(q[i]) \subseteq s.values
      BY <1>2, <1>4
    <2> QED
      BY <1>1, <1>3, <2>1, EntryAsks
  <1>6. \A l : In(l, AllLists(s)) <=> \E i \in 1..n : IsListed(p, q[i]) /\ l = ListOf(q[i])
    BY <1>1 DEF HasRead, HoldsLists
  <1>7. \A i \in 1..n : IsListed(p, q[i]) => ListOf(q[i]) \in IdTypes
    <2> SUFFICES ASSUME NEW i \in 1..n, IsListed(p, q[i])
                 PROVE  ListOf(q[i]) \in IdTypes
      OBVIOUS
    <2>1. q[i].type \in DOMAIN Imposes(2)
      BY <1>1, <1>2, <1>3, <1>4, ListedIsNoFlux
    <2>2. q[i].id \in Ids
      BY <1>2 DEF Entry
    <2> QED
      BY <2>1, <2>2 DEF ListOf, IdTypes
  <1>8. \A c : In(c, s.objects) <=>
          (\E i \in 1..n : In(c, Objects(h, q[i]))) \/ In(c, u)
    BY <1>1 DEF HasRead, HoldsObjects
  <1>9. \A c : IsOf(p, c) <=>
          \/ \E i \in 1..n : IsListed(p, q[i]) /\ In(c, Imposed(p, ListOf(q[i])))
          \/ \E i \in 1..n : In(c, Objects(h, q[i]))
          \/ In(c, u)
    BY <1>6, <1>7, <1>8 DEF IsOf
  <1>10. (\E c : IsOf(p, c) /\ t \in OnIds(c)) <=>
           \/ \E i \in 1..n : FromList(i)
           \/ \E i \in 1..n : FromObject(i)
           \/ FromUser
    BY <1>9, Zenon
  <1>11. (\E e \in EntriesOf(p) : \E d \in AskedOf(p, e) : t = TripleOf(d, e.id))
           <=> \E i \in 1..n : FromEntry(i)
    <2>1. EntriesOf(p) = {q[i] : i \in 1..n}
      BY <1>2 DEF EntriesOf, EntriesIn, Entries
    <2> QED
      BY <2>1
  <1> HIDE DEF FromList, FromObject, FromEntry
  <1>12. (\E i \in 1..n : FromEntry(i)) <=>
           (\E i \in 1..n : FromList(i)) \/ (\E i \in 1..n : FromObject(i))
    BY <1>5
  <1> QED
    BY <1>10, <1>11, <1>12 DEF Asks

\* The DofMap holds what the physics of the list ask for.
LEMMA ConditionsMeet ==
  ASSUME Weighing, HandlersHold, Initialising, DisplacementsAreComplete(request)
  PROVE  DirichletAreOfInput
  <1> SUFFICES ASSUME pc = "solve", NEW t
               PROVE  t \in UNION {OnIds(dofmap[k]) : k \in DOMAIN dofmap} <=>
                        t \in Asked
    BY DEF DirichletAreOfInput
  <1>1. t \in UNION {OnIds(dofmap[k]) : k \in DOMAIN dofmap} <=>
          \E c : In(c, dofmap) /\ t \in OnIds(c)
    BY DEF In
  <1>2. \A c : In(c, dofmap) <=> \E p \in Listed : IsOf(p, c)
    BY Zenon DEF Initialising, TurnsAreTaken, DofMapIsComplete, Pending
  <1>3. (\E c : In(c, dofmap) /\ t \in OnIds(c)) <=>
          \E p \in Listed : \E c : IsOf(p, c) /\ t \in OnIds(c)
    BY <1>2
  <1>4. \A p \in Listed : (\E c : IsOf(p, c) /\ t \in OnIds(c)) <=> Asks(p, t)
    BY PhysicsAsks
  <1>5. t \in Asked <=> \E p \in Listed : Asks(p, t)
    <2> DEFINE ByEntries ==
                 UNION {UNION {{<<d[1], e.id, d[2]>> : d \in AskedOf(p, e)} :
                                 e \in EntriesOf(p)} : p \in Listed}
               ByUser ==
                 UNION {UNION {OnIds(request.user[p][i]) :
                                 i \in DOMAIN request.user[p]} : p \in Listed}
    <2>1. t \in ByEntries <=>
            \E p \in Listed : \E e \in EntriesOf(p) : \E d \in AskedOf(p, e) :
              t = TripleOf(d, e.id)
      BY DEF TripleOf
    <2>2. t \in ByUser <=>
            \E p \in Listed : \E c : In(c, request.user[p]) /\ t \in OnIds(c)
      BY DEF In
    <2>3. Asked = ByEntries \union ByUser
      BY DEF Asked
    <2> HIDE DEF ByEntries, ByUser
    <2>4. (\E p \in Listed : Asks(p, t)) <=> t \in ByEntries \/ t \in ByUser
      BY <2>1, <2>2, Zenon DEF Asks
    <2> QED
      BY <2>3, <2>4
  <1> QED
    BY <1>1, <1>3, <1>4, <1>5

(***************************************************************************)
(* The order of the conditions.                                            *)
(***************************************************************************)

\* The conditions of a list, and those of a physics' lists one after another.
InOrder(b, k, d) ==
  /\ \A i \in 1..k : b[i] # <<>> => \E m \in DOMAIN d : In(d[m], b[i])
  /\ \A i, j \in 1..k :
       (i < j /\ b[i] # <<>> /\ b[j] # <<>>) =>
         \E m, n \in DOMAIN d : m < n /\ In(d[m], b[i]) /\ In(d[n], b[j])
Conditions(p) ==
  [i \in DOMAIN AllLists(handler[p]) |-> Imposed(p, AllLists(handler[p])[i])]

\* How far a physics has come; the rest of its lists waits for its turn.
Far(p) == IF p = current THEN Len(AllLists(handler[p])) - Len(types)
          ELSE Len(AllLists(handler[p]))
IsRest(t, list) ==
  /\ Len(t) <= Len(list)
  /\ \A i \in 1..Len(t) : t[i] = list[Len(list) - Len(t) + i]
ImposedInOrder ==
  pc \in {"init", "solve"} =>
    /\ \A p \in Listed \ waiting : InOrder(Conditions(p), Far(p), dofmap)
    /\ current # None => IsRest(types, AllLists(handler[current]))

\* What comes later in the DofMap disturbs no order.
LEMMA InOrderGrows ==
  ASSUME NEW S, NEW d \in Seq(S), NEW x \in Seq(S), NEW b, NEW k,
         InOrder(b, k, d)
  PROVE  InOrder(b, k, d \o x)
  <1>1. \A m \in DOMAIN d : m \in DOMAIN (d \o x) /\ (d \o x)[m] = d[m]
    <2>1. /\ Len(d) \in Nat /\ Len(x) \in Nat /\ DOMAIN d = 1..Len(d)
          /\ DOMAIN (d \o x) = 1..(Len(d) + Len(x))
      OBVIOUS
    <2>2. \A m \in 1..Len(d) : m \in 1..(Len(d) + Len(x))
      BY <2>1
    <2> QED
      BY <2>1, <2>2, Joined
  <1>2. \A i \in 1..k :
          b[i] # <<>> => \E m \in DOMAIN (d \o x) : In((d \o x)[m], b[i])
    BY <1>1, Zenon DEF InOrder
  <1>3. ASSUME NEW i \in 1..k, NEW j \in 1..k, i < j, b[i] # <<>>, b[j] # <<>>
        PROVE  \E m, n \in DOMAIN (d \o x) :
                 m < n /\ In((d \o x)[m], b[i]) /\ In((d \o x)[n], b[j])
    <2>1. PICK m \in DOMAIN d, n \in DOMAIN d :
            m < n /\ In(d[m], b[i]) /\ In(d[n], b[j])
      BY <1>3, Zenon DEF InOrder
    <2> QED
      BY <1>1, <2>1, Zenon
  <1> QED
    BY <1>2, <1>3, Zenon DEF InOrder

\* The next conditions of a list come after all that precede them.
LEMMA InOrderOneMore ==
  ASSUME NEW S, NEW d \in Seq(S), NEW k \in Nat, NEW b, b[k + 1] \in Seq(S),
         InOrder(b, k, d)
  PROVE  InOrder(b, k + 1, d \o b[k + 1])
  <1> DEFINE x == b[k + 1]
             g == d \o x
  <1>1. InOrder(b, k, g)
    BY InOrderGrows
  <1>2. /\ Len(d) \in Nat /\ Len(x) \in Nat /\ DOMAIN d = 1..Len(d)
        /\ DOMAIN x = 1..Len(x) /\ DOMAIN g = 1..(Len(d) + Len(x))
    OBVIOUS
  <1>3. \A m \in 1..Len(d) : m \in DOMAIN g /\ g[m] = d[m]
    <2>1. \A m \in 1..Len(d) : m \in 1..(Len(d) + Len(x))
      BY <1>2
    <2> QED
      BY <1>2, <2>1, Joined
  <1>4. ASSUME x # <<>>
        PROVE  Len(d) + 1 \in DOMAIN g /\ In(g[Len(d) + 1], x)
    <2>1. 1 \in 1..Len(x)
      BY <1>4, <1>2
    <2>2. g[Len(d) + 1] = x[1]
      BY <2>1, Joined
    <2>3. Len(d) + 1 \in 1..(Len(d) + Len(x))
      BY <1>2, <2>1
    <2> QED
      BY <1>2, <2>1, <2>2, <2>3 DEF In
  <1>5. \A m \in 1..Len(d) : m < Len(d) + 1
    BY <1>2
  <1>6. \A i \in 1..(k + 1) : i \in 1..k \/ i = k + 1
    OBVIOUS
  <1>7. \A i \in 1..(k + 1) : ~(k + 1 < i)
    OBVIOUS
  <1>8. ASSUME NEW i \in 1..(k + 1), b[i] # <<>>
        PROVE  \E m \in DOMAIN g : In(g[m], b[i])
    <2>1. CASE i \in 1..k
      <3> HIDE DEF g, x
      <3> QED
        BY <1>1, <1>8, <2>1, Zenon DEF InOrder
    <2>2. CASE i = k + 1
      BY <1>4, <1>8, <2>2
    <2> QED
      BY <1>6, <2>1, <2>2
  <1>9. ASSUME NEW i \in 1..(k + 1), NEW j \in 1..(k + 1),
               i < j, b[i] # <<>>, b[j] # <<>>
        PROVE  \E m, n \in DOMAIN g : m < n /\ In(g[m], b[i]) /\ In(g[n], b[j])
    <2>1. i \in 1..k
      BY <1>9
    <2>2. CASE j \in 1..k
      <3> HIDE DEF g, x
      <3> QED
        BY <1>1, <1>9, <2>1, <2>2, Zenon DEF InOrder
    <2>3. CASE j = k + 1
      <3>1. PICK m \in 1..Len(d) : In(d[m], b[i])
        BY <1>2, <1>9, <2>1, Zenon DEF InOrder
      <3>2. m \in DOMAIN g /\ In(g[m], b[i])
        BY <1>3, <3>1
      <3>3. Len(d) + 1 \in DOMAIN g /\ In(g[Len(d) + 1], b[j])
        BY <1>4, <1>9, <2>3
      <3>4. m < Len(d) + 1
        BY <1>5
      <3> HIDE DEF g, x
      <3> QED
        BY <3>2, <3>3, <3>4
    <2> QED
      BY <1>6, <2>2, <2>3
  <1> HIDE DEF g
  <1>10. InOrder(b, k + 1, g)
    BY <1>8, <1>9, Zenon DEF InOrder
  <1> QED
    BY <1>10 DEF g

LEMMA InOrderOfNone ==
  ASSUME NEW b, NEW d
  PROVE  InOrder(b, 0, d)
  <1>1. 1..0 = {}
    OBVIOUS
  <1> QED
    BY <1>1 DEF InOrder

\* The rest of a list, and its first element.
LEMMA IsRestFacts ==
  ASSUME NEW S, NEW list \in Seq(S), NEW t \in Seq(S)
  PROVE  /\ IsRest(list, list)
         /\ (IsRest(t, list) /\ t # <<>>) =>
              /\ IsRest(Tail(t), list)
              /\ Len(list) - Len(t) \in Nat
              /\ Len(list) - Len(Tail(t)) = Len(list) - Len(t) + 1
              /\ Len(list) - Len(t) + 1 \in DOMAIN list
              /\ list[Len(list) - Len(t) + 1] = Head(t)
  <1>1. IsRest(list, list)
    <2>1. Len(list) \in Nat /\ Len(list) - Len(list) = 0
      OBVIOUS
    <2>2. \A i \in 1..Len(list) : Len(list) - Len(list) + i = i
      BY <2>1
    <2> QED
      BY <2>1, <2>2 DEF IsRest
  <1>2. ASSUME IsRest(t, list), t # <<>>
        PROVE  /\ IsRest(Tail(t), list)
               /\ Len(list) - Len(t) \in Nat
               /\ Len(list) - Len(Tail(t)) = Len(list) - Len(t) + 1
               /\ Len(list) - Len(t) + 1 \in DOMAIN list
               /\ list[Len(list) - Len(t) + 1] = Head(t)
    <2>1. /\ Len(list) \in Nat /\ Len(t) \in Nat \ {0}
          /\ Len(Tail(t)) = Len(t) - 1 /\ Head(t) = t[1]
          /\ \A i \in 1..(Len(t) - 1) : Tail(t)[i] = t[i + 1]
          /\ DOMAIN list = 1..Len(list)
      BY <1>2
    <2>2. Len(t) <= Len(list)
          /\ \A i \in 1..Len(t) : t[i] = list[Len(list) - Len(t) + i]
      BY <1>2 DEF IsRest
    <2>3. ASSUME NEW i \in 1..(Len(t) - 1)
          PROVE  Tail(t)[i] = list[Len(list) - Len(Tail(t)) + i]
      <3>1. i + 1 \in 1..Len(t)
        BY <2>1
      <3>2. Len(list) - Len(t) + (i + 1) = Len(list) - Len(Tail(t)) + i
        BY <2>1
      <3> QED
        BY <2>1, <2>2, <3>1, <3>2
    <2>4. 1 \in 1..Len(t)
      BY <2>1
    <2>5. IsRest(Tail(t), list)
      BY <2>1, <2>2, <2>3 DEF IsRest
    <2>6. /\ Len(list) - Len(t) \in Nat
          /\ Len(list) - Len(Tail(t)) = Len(list) - Len(t) + 1
          /\ Len(list) - Len(t) + 1 \in DOMAIN list
      BY <2>1, <2>2
    <2> QED
      BY <2>1, <2>2, <2>4, <2>5, <2>6
  <1> QED
    BY <1>1, <1>2

LEMMA SameOrder ==
  ASSUME UNCHANGED request,
         \A p \in Physics : SameConditions(handler[p], handler'[p])
  PROVE  \A p \in Physics : /\ Conditions(p)' = Conditions(p)
                            /\ AllLists(handler'[p]) = AllLists(handler[p])
  <1> TAKE p \in Physics
  <1>1. /\ handler'[p].values = handler[p].values
        /\ AllLists(handler'[p]) = AllLists(handler[p])
    BY DEF SameConditions, AllLists
  <1>2. Conditions(p)' = Conditions(p)
    BY <1>1, Zenon DEF Conditions, Imposed, Boundaries, Stored
  <1> QED
    BY <1>1, <1>2

LEMMA ListsOfAll ==
  ASSUME Weighing
  PROVE  /\ \A p \in Physics : AllLists(handler[p]) \in Seq(IdTypes)
         /\ \A p \in Physics : Len(AllLists(handler[p])) \in Nat
         /\ Listed \subseteq Physics
         /\ None \notin Physics
         /\ types \in Seq(IdTypes)
         /\ dofmap \in Seq(Condition)
  <1>1. ASSUME NEW p \in Physics
        PROVE  AllLists(handler[p]) \in Seq(IdTypes)
    <2>1. handler[p] \in HandlerStates
      BY DEF Weighing, TypeOK
    <2> QED
      BY <2>1 DEF HandlerStates, AllLists
  <1>2. \A p \in Physics : Len(AllLists(handler[p])) \in Nat
    BY <1>1
  <1>3. Listed \subseteq Physics
    BY InputTypes DEF Weighing
  <1>4. None \notin Physics
    BY DEF None, Physics, Order
  <1> QED
    BY <1>1, <1>2, <1>3, <1>4 DEF Weighing, TypeOK

\* A physics whose turn comes has imposed nothing; the others, everything.
LEMMA OrderStart ==
  ASSUME Weighing, Initialising, ImposedInOrder, NEW p \in Physics, StartInit(p),
         \A x \in Physics : SameConditions(handler[x], handler'[x])
  PROVE  ImposedInOrder'
  <1>1. /\ pc = "init" /\ pc' = "init" /\ current = None /\ p \in waiting
        /\ waiting' = waiting \ {p} /\ current' = p
        /\ types' = AllLists(handler[p])
        /\ UNCHANGED <<request, dofmap>> /\ Listed' = Listed
    BY DEF StartInit, Listed
  <1>2. /\ AllLists(handler[p]) \in Seq(IdTypes)
        /\ Listed \subseteq Physics
        /\ None \notin Physics
        /\ Len(AllLists(handler[p])) - Len(AllLists(handler[p])) = 0
    BY ListsOfAll
  <1>3. \A x \in Listed \ waiting :
          InOrder(Conditions(x), Len(AllLists(handler[x])), dofmap)
    <2>1. \A x \in Listed \ waiting : InOrder(Conditions(x), Far(x), dofmap)
      BY <1>1 DEF ImposedInOrder
    <2>2. \A x \in Listed \ waiting : Far(x) = Len(AllLists(handler[x]))
      BY <1>1, <1>2 DEF Far
    <2> QED
      BY <2>1, <2>2
  <1>4. \A x \in Physics : /\ Conditions(x)' = Conditions(x)
                           /\ AllLists(handler'[x]) = AllLists(handler[x])
    BY <1>1, SameOrder
  <1>5. ASSUME NEW x \in Listed \ waiting'
        PROVE  InOrder(Conditions(x)', Far(x)', dofmap')
    <2>1. x \in Physics
      BY <1>2
    <2>2. CASE x = p
      <3>1. Far(x)' = 0
        BY <1>1, <1>2, <1>4, <2>1, <2>2 DEF Far
      <3> QED
        BY <3>1, InOrderOfNone
    <2>3. CASE x # p
      <3>1. x \in Listed \ waiting
        BY <1>1, <2>3
      <3>2. Far(x)' = Len(AllLists(handler[x]))
        BY <1>1, <1>4, <2>1, <2>3 DEF Far
      <3> QED
        BY <1>1, <1>3, <1>4, <2>1, <3>1, <3>2
    <2> QED
      BY <2>2, <2>3
  <1>6. IsRest(types', AllLists(handler'[p]))
    BY <1>1, <1>2, <1>4, IsRestFacts
  <1> QED
    BY <1>1, <1>5, <1>6 DEF ImposedInOrder

\* A type that is imposed comes after those that precede it in the list.
LEMMA OrderDirichlet ==
  ASSUME Weighing, Initialising, ImposedInOrder, InitDirichletBC, pc' = "init"
  PROVE  ImposedInOrder'
  <1> DEFINE list == AllLists(handler[current])
             k == Len(list) - Len(types)
             x == Imposed(current, Head(types))
  <1>1. /\ pc = "init" /\ current # None /\ types # <<>>
        /\ types' = Tail(types) /\ dofmap' = dofmap \o x
        /\ UNCHANGED <<request, handler, waiting, current>> /\ Listed' = Listed
    BY DEF InitDirichletBC, Imposed, Listed
  <1>2. /\ list \in Seq(IdTypes)
        /\ Listed \subseteq Physics /\ current \in Physics
        /\ types \in Seq(IdTypes) /\ dofmap \in Seq(Condition)
    BY <1>1, ListsOfAll DEF Weighing, TypeOK
  <1>3. IsRest(types, list)
    BY <1>1 DEF ImposedInOrder
  <1>4. /\ IsRest(types', list)
        /\ k \in Nat
        /\ Len(list) - Len(types') = k + 1
        /\ k + 1 \in DOMAIN list
        /\ list[k + 1] = Head(types)
    BY <1>1, <1>2, <1>3, IsRestFacts
  <1>5. x \in Seq(Condition)
    <2>1. Head(types) \in IdTypes
      BY <1>1, <1>2, ListFacts
    <2> QED
      BY <1>2, <2>1, BoundariesType DEF Imposed, IdTypes, Weighing
  <1>6. Conditions(current)[k + 1] = x
    BY <1>4 DEF Conditions
  <1>7. \A p \in Physics : /\ Conditions(p)' = Conditions(p)
                           /\ AllLists(handler'[p]) = AllLists(handler[p])
    <2>1. \A p \in Physics : SameConditions(handler[p], handler'[p])
      BY <1>1 DEF SameConditions
    <2> QED
      BY <1>1, <2>1, SameOrder
  <1> HIDE DEF list, k, x
  <1>8. \A p \in Listed \ waiting : InOrder(Conditions(p), Far(p), dofmap)
    BY <1>1 DEF ImposedInOrder
  <1>9. ASSUME NEW p \in Listed \ waiting'
        PROVE  InOrder(Conditions(p)', Far(p)', dofmap')
    <2>1. p \in Physics /\ p \in Listed \ waiting
      BY <1>1, <1>2
    <2>2. CASE p = current
      <3>1. Far(p) = k
        BY <2>2 DEF Far, k, list
      <3>2. Far(p)' = k + 1
        BY <1>1, <1>4, <1>7, <2>1, <2>2 DEF Far, list
      <3>3. InOrder(Conditions(p), k, dofmap)
        BY <1>8, <2>1, <3>1
      <3>4. InOrder(Conditions(p), k + 1, dofmap \o Conditions(p)[k + 1])
        BY <1>2, <1>4, <1>5, <1>6, <2>2, <3>3, InOrderOneMore
      <3> QED
        BY <1>1, <1>6, <1>7, <2>1, <2>2, <3>2, <3>4
    <2>3. CASE p # current
      <3>1. Far(p)' = Far(p)
        BY <1>1, <1>7, <2>1, <2>3 DEF Far
      <3>2. InOrder(Conditions(p), Far(p), dofmap \o x)
        BY <1>2, <1>5, <1>8, <2>1, InOrderGrows
      <3> QED
        BY <1>1, <1>7, <2>1, <3>1, <3>2
    <2> QED
      BY <2>2, <2>3
  <1>10. IsRest(types', AllLists(handler'[current']))
    BY <1>1, <1>4 DEF list
  <1> QED
    BY <1>1, <1>9, <1>10 DEF ImposedInOrder

\* A step that adds to the DofMap what is not of the lists.
LEMMA OrderGrows ==
  ASSUME Weighing, Initialising, ImposedInOrder,
         pc \in {"init", "solve"}, pc' \in {"init", "solve"},
         UNCHANGED <<request, waiting, types>>,
         \A p \in Physics : SameConditions(handler[p], handler'[p]),
         current' = current \/ (types = <<>> /\ current' = None),
         NEW x \in Seq(Condition), dofmap' = dofmap \/ dofmap' = dofmap \o x
  PROVE  ImposedInOrder'
  <1>1. Listed' = Listed
    BY DEF Listed
  <1>2. /\ Listed \subseteq Physics /\ None \notin Physics
        /\ \A p \in Physics : Len(AllLists(handler[p])) \in Nat
        /\ dofmap \in Seq(Condition)
    BY ListsOfAll
  <1>3. \A p \in Physics : /\ Conditions(p)' = Conditions(p)
                           /\ AllLists(handler'[p]) = AllLists(handler[p])
    BY SameOrder
  <1>4. \A p \in Physics : Far(p)' = Far(p)
    <2> TAKE p \in Physics
    <2>1. CASE current' = current
      BY <1>3, <2>1 DEF Far
    <2>2. CASE types = <<>> /\ current' = None
      <3>1. Len(types) = 0
        BY <2>2
      <3>2. Far(p)' = Len(AllLists(handler[p]))
        BY <1>2, <1>3, <2>2 DEF Far
      <3> QED
        BY <1>2, <3>1, <3>2 DEF Far
    <2> QED
      BY <2>1, <2>2
  <1>5. ASSUME NEW p \in Listed \ waiting'
        PROVE  InOrder(Conditions(p)', Far(p)', dofmap')
    <2>1. p \in Physics /\ p \in Listed \ waiting
      BY <1>2
    <2>2. InOrder(Conditions(p), Far(p), dofmap)
      BY <2>1 DEF ImposedInOrder
    <2>3. InOrder(Conditions(p), Far(p), dofmap \o x)
      BY <1>2, <2>2, InOrderGrows
    <2>4. InOrder(Conditions(p), Far(p), dofmap')
      BY <2>2, <2>3
    <2> QED
      BY <1>3, <1>4, <2>1, <2>4
  <1>6. current' # None => IsRest(types', AllLists(handler'[current']))
    <2> SUFFICES ASSUME current' # None
                 PROVE  IsRest(types', AllLists(handler'[current']))
      OBVIOUS
    <2>1. current' = current /\ current \in Physics
      BY DEF Weighing, TypeOK
    <2>2. IsRest(types, AllLists(handler[current]))
      BY <2>1 DEF ImposedInOrder
    <2> QED
      BY <1>3, <2>1, <2>2
  <1> QED
    BY <1>1, <1>5, <1>6 DEF ImposedInOrder

LEMMA OrderAttach ==
  ASSUME Weighing, Initialising, AttachDirichletFuncs
  PROVE  ImposedInOrder'
  <1>1. /\ pc = "construct" /\ waiting' = Listed /\ UNCHANGED <<request, current>>
        /\ Listed' = Listed
    BY DEF AttachDirichletFuncs, Listed
  <1>2. Listed' \ waiting' = {} /\ current' = None
    BY <1>1 DEF Initialising, TurnsAreTaken
  <1> QED
    BY <1>2 DEF ImposedInOrder

\* Every step keeps the order.
LEMMA OrderInvariant ==
  ASSUME Weighing, Initialising, ImposedInOrder, [Next]_vars
  PROVE  ImposedInOrder'
  <1>0. /\ \A p \in Physics : handler[p] \in HandlerStates
        /\ <<>> \in Seq(Condition)
    BY DEF Weighing, TypeOK
  <1>1. CASE ReadEntry \/ RefuseLists \/ ConstructPhysics
    <2>1. pc = "construct" /\ pc' \in {"construct", "error"}
      BY <1>1 DEF ReadEntry, RefuseLists, ConstructPhysics
    <2> QED
      BY <2>1 DEF ImposedInOrder
  <1>2. CASE AttachDirichletFuncs
    BY <1>2, OrderAttach
  <1>3. ASSUME NEW p \in Physics, StartInit(p)
        PROVE  ImposedInOrder'
    <2>1. \A x \in Physics : SameConditions(handler[x], handler'[x])
      <3>1. handler' = [handler EXCEPT
                          ![p] = [handler[p] EXCEPT !.weighsWalls = axisymmetric]]
        BY <1>3 DEF StartInit
      <3> TAKE x \in Physics
      <3>2. CASE x = p
        <4>1. handler'[p] = [handler[p] EXCEPT !.weighsWalls = axisymmetric]
          BY <3>1 DEF Weighing, TypeOK
        <4> QED
          BY <1>0, <3>2, <4>1, SameHandlers
      <3>3. CASE x # p
        <4>1. handler'[x] = handler[x]
          BY <3>1, <3>3 DEF Weighing, TypeOK
        <4> QED
          BY <1>0, <4>1, SameHandlers
      <3> QED
        BY <3>2, <3>3
    <2> QED
      BY <1>3, <2>1, OrderStart
  <1>4. CASE InitDirichletBC
    <2>1. pc' \in {"init", "undefined"}
      BY <1>4, Zenon DEF InitDirichletBC
    <2>2. CASE pc' = "undefined"
      BY <2>2 DEF ImposedInOrder
    <2> QED
      BY <1>4, <2>1, <2>2, OrderDirichlet
  <1>5. CASE InitDirichletFuncObj
    <2>1. /\ pc = "init" /\ pc' \in {"init", "error"} /\ objects # <<>>
          /\ UNCHANGED <<request, handler, waiting, types, current>>
          /\ pc' = "init" => dofmap' = Append(dofmap, Head(objects))
      BY <1>5 DEF InitDirichletFuncObj
    <2>2. CASE pc' = "init"
      <3>1. objects \in Seq(Condition) /\ dofmap \in Seq(Condition)
        BY DEF Weighing, TypeOK
      <3>2. Head(objects) \in Condition
        BY <2>1, <3>1, ListFacts
      <3>3. /\ <<Head(objects)>> \in Seq(Condition)
            /\ dofmap' = dofmap \o <<Head(objects)>>
        BY <2>1, <2>2, <3>1, <3>2
      <3>4. \A p \in Physics : SameConditions(handler[p], handler'[p])
        BY <1>0, <2>1, SameHandlers
      <3> QED
        BY <2>1, <2>2, <3>3, <3>4, OrderGrows
    <2>3. CASE pc' = "error"
      BY <2>3 DEF ImposedInOrder
    <2> QED
      BY <2>1, <2>2, <2>3
  <1>6. CASE InitPeriodic
    <2>1. /\ pc = "init" /\ pc' \in {"init", "error"} /\ types = <<>>
          /\ current' = None
          /\ UNCHANGED <<request, handler, waiting, types, dofmap>>
      BY <1>6 DEF InitPeriodic
    <2>2. \A p \in Physics : SameConditions(handler[p], handler'[p])
      BY <1>0, <2>1, SameHandlers
    <2>3. CASE pc' = "error"
      BY <2>3 DEF ImposedInOrder
    <2> QED
      BY <1>0, <2>1, <2>2, <2>3, OrderGrows
  <1>7. CASE AttachNeumannFuncs
    <2>1. /\ pc = "init" /\ pc' = "solve"
          /\ UNCHANGED <<request, waiting, types, current, dofmap>>
      BY <1>7 DEF AttachNeumannFuncs, Imposing
    <2>2. \A x \in Physics : SameConditions(handler[x], handler'[x])
      <3> TAKE x \in Physics
      <3>1. handler'[x] = [handler[x] EXCEPT !.functions = request.functions[x]]
        BY <1>7 DEF AttachNeumannFuncs
      <3> QED
        BY <1>0, <3>1, SameHandlers
    <2> QED
      BY <1>0, <2>1, <2>2, OrderGrows
  <1>8. ASSUME NEW ids \in request.sides, AssembleSide(ids)
        PROVE  ImposedInOrder'
    <2>1. /\ pc = "solve"
          /\ UNCHANGED <<request, handler, waiting, types, current, dofmap>>
      BY <1>8 DEF AssembleSide, Imposing
    <2>2. \A x \in Physics : SameConditions(handler[x], handler'[x])
      BY <1>0, <2>1, SameHandlers
    <2>3. CASE pc' \in {"init", "solve"}
      BY <1>0, <2>1, <2>2, <2>3, OrderGrows
    <2>4. CASE pc' \notin {"init", "solve"}
      BY <2>4 DEF ImposedInOrder
    <2> QED
      BY <2>3, <2>4
  <1>9. CASE UNCHANGED vars
    <2>1. UNCHANGED <<pc, request, handler, waiting, types, current, dofmap>>
      BY <1>9 DEF vars
    <2>2. \A x \in Physics : SameConditions(handler[x], handler'[x])
      BY <1>0, <2>1, SameHandlers
    <2>3. CASE pc \in {"init", "solve"}
      BY <1>0, <2>1, <2>2, <2>3, OrderGrows
    <2>4. CASE pc \notin {"init", "solve"}
      BY <2>1, <2>4 DEF ImposedInOrder
    <2> QED
      BY <2>3, <2>4
  <1> QED
    BY <1>1, <1>2, <1>3, <1>4, <1>5, <1>6, <1>7, <1>8, <1>9, Zenon DEF Next

\* The built-in list of a handler is the first of its lists.
LEMMA ListsInOrder ==
  ASSUME NEW p \in Physics, handler[p] \in HandlerStates,
         NEW a \in DOMAIN handler[p].dirichlet
  PROVE  /\ a \in 1..Len(AllLists(handler[p]))
         /\ Conditions(p)[a] = Imposed(p, handler[p].dirichlet[a])
  <1> DEFINE d == handler[p].dirichlet
             r == handler[p].temp
             t == handler[p].species
  <1>1. d \in Seq(IdTypes) /\ r \in Seq(IdTypes) /\ t \in Seq(IdTypes)
    BY DEF HandlerStates
  <1>4. a \in 1..Len(d) /\ Len(d) \in Nat /\ Len(r) \in Nat /\ Len(t) \in Nat
    BY <1>1
  <1>5. AllLists(handler[p]) = (d \o r) \o t
    BY DEF AllLists
  <1> SUFFICES /\ a \in 1..Len((d \o r) \o t)
               /\ ((d \o r) \o t)[a] = d[a]
               /\ DOMAIN ((d \o r) \o t) = 1..Len((d \o r) \o t)
    BY <1>5 DEF Conditions
  <1> HIDE DEF d, r, t
  <1>2. /\ d \o r \in Seq(IdTypes) /\ Len(d \o r) = Len(d) + Len(r)
        /\ \A k \in 1..Len(d) : (d \o r)[k] = d[k]
    BY <1>1, Joined
  <1>3. /\ (d \o r) \o t \in Seq(IdTypes)
        /\ Len((d \o r) \o t) = Len(d \o r) + Len(t)
        /\ \A k \in 1..Len(d \o r) : ((d \o r) \o t)[k] = (d \o r)[k]
    BY <1>1, <1>2, Joined
  <1>6. a \in 1..Len(d \o r) /\ a \in 1..Len((d \o r) \o t)
    BY <1>2, <1>3, <1>4
  <1>7. ((d \o r) \o t)[a] = d[a]
    BY <1>2, <1>3, <1>4, <1>6
  <1>8. DOMAIN ((d \o r) \o t) = 1..Len((d \o r) \o t)
    BY <1>3
  <1> QED
    BY <1>6, <1>7, <1>8

\* A type that imposes something imposes a first condition.
LEMMA ImposesFirst ==
  ASSUME NEW dim \in {2, 3}, NEW type \in DOMAIN Imposes(2),
         Imposes(dim)[type] # <<>>
  PROVE  1 \in DOMAIN Imposes(dim)[type]
  <1>1. CASE type \in {"no_slip", "zero_x_velocity", "zero_y_velocity",
                       "axisymmetric", "pinned", "roller_x", "roller_y",
                       "roller_z", "yz_symmetry", "xz_symmetry", "xy_symmetry"}
    <2>1. Imposes(dim)[type] = <<On(Determined(type, dim), Zero)>>
      BY <1>1, ImposesOf, Zenon
    <2> QED
      BY <2>1
  <1>2. CASE type \in {"isothermal_wall", "isothermal"}
    <2>1. Imposes(dim)[type] = <<On({"T"}, 0)>>
      BY <1>2, ImposesOf, Zenon
    <2> QED
      BY <2>1
  <1>3. CASE type \in {"prescribed_species", "prescribed_mole_fracs"}
    <2>1. Imposes(dim)[type] = <<On({"s1"}, 0), On({"s2"}, 1)>>
      BY <1>3, ImposesOf, Zenon
    <2> QED
      BY <2>1
  <1>4. CASE type = "constant_displacement"
    <2>1. Imposes(dim)[type] = <<On({"d1"}, 0), On({"d2"}, 1), On({"d3"}, 2)>>
      BY <1>4, ImposesOf, Zenon
    <2> QED
      BY <2>1
  <1>5. CASE type = "prescribed_vel"
    <2>1. CASE dim = 3
      <3>1. Imposes(dim)[type] = <<On({"u"}, 0), On({"v"}, 1), On({"w"}, 2)>>
        BY <1>5, <2>1, ImposesOf
      <3> QED
        BY <3>1
    <2>2. CASE dim # 3
      <3>1. Imposes(dim)[type] = <<On({"u"}, 0), On({"v"}, 1)>>
        BY <1>5, <2>2, ImposesOf
      <3> QED
        BY <3>1
    <2> QED
      BY <2>1, <2>2
  <1>6. CASE type \in {"parabolic_profile", "general_velocity",
                       "general_isothermal", "general_species"}
    BY <1>6, ImposesOf, Zenon
  <1> QED
    BY <1>1, <1>2, <1>3, <1>4, <1>5, <1>6 DEF Imposes

\* The handler's list is in the order of the input, and the DofMap in that of
\* the list.
LEMMA OrderMeets ==
  ASSUME Weighing, HandlersHold, Initialising, ImposedInOrder
  PROVE  InputOrderKept
  <1> SUFFICES ASSUME pc = "solve", NEW p \in Listed,
                      NEW i \in DOMAIN Entries(p), NEW j \in DOMAIN Entries(p),
                      i < j, BuiltIn(p, Entries(p)[i]), BuiltIn(p, Entries(p)[j])
               PROVE  \E m, n \in DOMAIN dofmap :
                        m < n /\ Holds(m, p, Entries(p)[i])
                              /\ Holds(n, p, Entries(p)[j])
    BY DEF InputOrderKept
  <1> DEFINE q == Entries(p)
             s == handler[p]
             b == Conditions(p)
  <1>1. /\ p \in Physics
        /\ s \in HandlerStates
        /\ q \in Seq(Entry)
        /\ HasRead(p, q, s, Len(q), request.user[p])
    BY AllRead
  <1>2. i \in 1..Len(q) /\ j \in 1..Len(q)
    BY <1>1
  <1>3. Ordered(p, q[i]) /\ Ordered(p, q[j])
    BY DEF BuiltIn, Ordered
  <1>4. PICK x \in DOMAIN s.dirichlet, y \in DOMAIN s.dirichlet :
          /\ x < y
          /\ s.dirichlet[x] = ListOf(q[i])
          /\ s.dirichlet[y] = ListOf(q[j])
    BY <1>1, <1>2, <1>3 DEF HasRead, HoldsOrder
  <1>5. InOrder(b, Len(AllLists(s)), dofmap)
    <2>1. p \in Listed \ waiting /\ p # current
      BY <1>1, ListsOfAll DEF Initialising, TurnsAreTaken
    <2>2. Far(p) = Len(AllLists(s))
      BY <2>1 DEF Far
    <2> QED
      BY <2>1, <2>2 DEF ImposedInOrder
  <1>6. /\ x \in 1..Len(AllLists(s)) /\ b[x] = Imposed(p, ListOf(q[i]))
        /\ y \in 1..Len(AllLists(s)) /\ b[y] = Imposed(p, ListOf(q[j]))
    BY <1>1, <1>4, ListsInOrder
  <1>7. request.dim \in {2, 3}
    BY DEF Weighing, TypeOK, RequestType
  <1>8. ASSUME NEW k \in 1..Len(q), BuiltIn(p, q[k])
        PROVE  /\ Imposed(p, ListOf(q[k])) = Boundaries(p, q[k].id, q[k].type)
               /\ Boundaries(p, q[k].id, q[k].type) # <<>>
    <2>1. Imposed(p, ListOf(q[k])) = Boundaries(p, q[k].id, q[k].type)
      BY DEF Imposed, ListOf
    <2>2. q[k] \in Entry /\ ~Refuses(HandlerOf[p], q[k])
      BY <1>1 DEF HasRead
    <2>3. q[k].type \in DOMAIN Imposes(2)
      BY <1>1, <1>7, <1>8, <2>2, ListedIsNoFlux DEF BuiltIn, IsListed, Ordered
    <2>4. 1 \in DOMAIN Imposes(request.dim)[q[k].type]
      BY <1>7, <1>8, <2>3, ImposesFirst DEF BuiltIn
    <2>5. 1 \in DOMAIN Boundaries(p, q[k].id, q[k].type)
      BY <2>4 DEF Boundaries
    <2> QED
      BY <2>1, <2>5
  <1>9. /\ b[x] = Boundaries(p, q[i].id, q[i].type) /\ b[x] # <<>>
        /\ b[y] = Boundaries(p, q[j].id, q[j].type) /\ b[y] # <<>>
    BY <1>2, <1>6, <1>8
  <1>10. x < y /\ x \in 1..Len(AllLists(s)) /\ y \in 1..Len(AllLists(s))
    BY <1>4, <1>6
  <1> HIDE DEF b, q, s
  <1>11. PICK m \in DOMAIN dofmap, n \in DOMAIN dofmap :
           m < n /\ In(dofmap[m], b[x]) /\ In(dofmap[n], b[y])
    BY <1>5, <1>9, <1>10, Zenon DEF InOrder
  <1>12. Holds(m, p, q[i]) /\ Holds(n, p, q[j])
    BY <1>9, <1>11 DEF Holds, In
  <1> QED
    BY <1>11, <1>12 DEF q

(***************************************************************************)
(* The theorems.                                                           *)
(***************************************************************************)

\* What holds of every state of the construction, the initialisation and the
\* assembly.
Following ==
  Weighing /\ HandlersHold /\ Initialising /\ FluxIsOfSide /\ ImposedInOrder

LEMMA FollowingInit ==
  ASSUME Init
  PROVE  Following
  <1>1. pc = "construct" /\ side = {} /\ flux = {}
    BY DEF Init
  <1>2. FluxIsOfSide /\ ImposedInOrder
    BY <1>1 DEF FluxIsOfSide, ImposedInOrder
  <1> QED
    BY <1>2, WeighingInit, HandlersInit, InitialisingInit DEF Following

\* Each part follows from itself and the parts before it.
LEMMA FollowingInvariant == Spec => []Following
  <1>1. Init => Following
    BY FollowingInit
  <1>2. Following /\ TypeOK' /\ [Next]_vars => Following'
    BY WeighingKept, HandlersInvariant, InitialisingInvariant,
       FluxIsOfSideInvariant, OrderInvariant DEF Following
  <1> QED
    BY <1>1, <1>2, TypeCorrect, PTL DEF Spec

\* When the system is initialised the DofMap holds, on every boundary, the
\* essential conditions the input and the user's functions ask for and no
\* others, whatever the physics, the boundaries and the entries, of an input
\* whose displacements have their three components.
THEOREM ConditionsAreAsked ==
  Spec => [](DisplacementsAreComplete(request) => DirichletAreOfInput)
  <1>1. Following => (DisplacementsAreComplete(request) => DirichletAreOfInput)
    BY ConditionsMeet DEF Following
  <1> QED
    BY <1>1, FollowingInvariant, PTL

\* The built-in conditions of a physics are in the DofMap in the order of the
\* input, for every input.
THEOREM ConditionsAreInOrder == Spec => []InputOrderKept
  <1>1. Following => InputOrderKept
    BY OrderMeets DEF Following
  <1> QED
    BY <1>1, FollowingInvariant, PTL

\* Every boundary an input calls periodic is of a pair the DofMap knows, if a
\* physics has none or two of them and the pairs are of these two.
THEOREM PeriodicArePaired ==
  Spec => [](PeriodicAreEven(request) /\ PairsNameTheIds(request) =>
               PeriodicIdsArePaired)
  <1>1. Following => (PeriodicAreEven(request) /\ PairsNameTheIds(request) =>
                        PeriodicIdsArePaired)
    BY PairsAreConditions DEF Following
  <1> QED
    BY <1>1, FollowingInvariant, PTL

\* A side that was assembled got the fluxes the input asks for on each of its
\* boundaries and no others, if a physics asks for one type of flux per id and
\* passes its sides on.
THEOREM FluxesAreAsked ==
  Spec => [](OneFluxPerId(request) /\ FluxesArePassedOn(request) =>
               FluxesAreOfInput)
  <1>1. Following => (OneFluxPerId(request) /\ FluxesArePassedOn(request) =>
                        FluxesAreOfInput)
    BY FluxesMeet DEF Following
  <1> QED
    BY <1>1, FollowingInvariant, PTL
=============================================================================
