------------------------- MODULE BoundaryConditions -------------------------
(***************************************************************************)
(* The boundary conditions of a simulation: each physics' handler reads    *)
(* its section of the input while the physics is constructed, the user's   *)
(* functions are attached, the system hands the essential and periodic     *)
(* conditions to the DofMap physics by physics, and the assembly adds the  *)
(* fluxes of the boundaries a side is on.  Whether integrals carry the     *)
(* weight r of an axisymmetric domain is a flag all handlers share and     *)
(* each physics copies when it is constructed.                             *)
(***************************************************************************)
EXTENDS BoundaryTypes

CONSTANTS
  Ids,       \* boundary ids
  Requests   \* the inputs a run may be given, see RequestsAssumption

\* The default of an id the input leaves out.
NoId == -1
ASSUME IdsAssumption == Ids \subseteq Nat

\* The lists of a physics' section: the low Mach physics have one for the
\* velocity and one for the temperature, the reacting one for its species too.
Lists == 1..3
ListsOf(p) == CASE HandlerOf[p] = "LowMach" -> 1..2
                [] HandlerOf[p] = "Reacting" -> 1..3
                [] OTHER -> 1..1

\* One boundary of a list and the options named after its id:
\* var, fix: the variables of a parabolic profile, the one of bc_variables, or
\* the one a general velocity fixes; comps: how many components the option has;
\* pair, offset: the ids of periodic_wall and the length of periodic_offset;
\* listed, reactions: the catalytic reactions, if the list is there at all;
\* wrong: a fraction outside [0, 1], or a reaction or a catalycity that cannot
\* be read.
Entry == [list: Lists, id: Ids, type: Types \union {"unknown"}, wrong: BOOLEAN,
          var: Variables \union {Missing}, fix: Variables \union {Missing},
          comps: Nat, pair: Seq(Ids \union {NoId}), offset: Nat, listed: BOOLEAN,
          reactions: Seq([reactant: Species, product: Species])]

\* An essential condition on its way to the DofMap.
Condition == [ids: SUBSET Ids, vars: SUBSET (Variables \union {Missing}),
              value: Values]

\* physics: enabled_physics; flag: Physics/is_axisymmetric; unequal: the lists
\* with more ids than types, or fewer; user, functions: what the boundary
\* condition factory attaches; sides: the sets of ids the sides carry;
\* analytic: whether the Jacobian is asked of the physics.
RequestType ==
  [physics: Seq(Physics), dim: {2, 3}, flag: BOOLEAN,
   entries: [Physics -> Seq(Entry)], unequal: SUBSET (Physics \X Lists),
   user: [Physics -> Seq(Condition)],
   functions: [Physics -> SUBSET [id: Ids, vars: SUBSET Variables]],
   sides: SUBSET SUBSET Ids, analytic: BOOLEAN]
NoPhysicsTwice(r) ==
  \A i, j \in DOMAIN r.physics : r.physics[i] = r.physics[j] => i = j
\* The factory builds at most one container, of one boundary, per physics.
OneContainer(r) == \A p \in Physics : \A f, g \in r.functions[p] : f = g
\* The lists are those the handler reads, one after the other.
ListsAreRead(r) ==
  /\ \A p \in Physics : \A i \in DOMAIN r.entries[p] :
       r.entries[p][i].list \in ListsOf(p)
  /\ \A p \in Physics : \A i, j \in DOMAIN r.entries[p] :
       i < j => r.entries[p][i].list <= r.entries[p][j].list
  /\ \A l \in r.unequal : l[2] \in ListsOf(l[1])
ASSUME RequestsAssumption ==
  \A r \in Requests :
    r \in RequestType /\ NoPhysicsTwice(r) /\ OneContainer(r) /\ ListsAreRead(r)

VARIABLES
  pc,           \* where the program is
  request,      \* the input
  built,        \* how many physics are constructed
  read,         \* how many entries the next one has read
  handler,      \* the handlers
  axisymmetric, \* BCHandlingBase::_axisymmetric, shared by all handlers
  weighted,     \* Physics::_is_axisymmetric
  waiting,      \* the physics whose init_bcs has not started
  current,      \* the physics in init_bcs
  types,        \* of its Dirichlet lists, what is still to be imposed
  objects,      \* of its function objects, the same
  dofmap,       \* the DirichletBoundaries, in order
  periodic,     \* the PeriodicBoundaries
  side,         \* the ids of the side assembled last
  flux          \* what that added to the residual

vars == <<pc, request, built, read, handler, axisymmetric, weighted, waiting,
          current, types, objects, dofmap, periodic, side, flux>>

None == "none"

Empty == [dirichlet |-> <<>>, temp |-> <<>>, species |-> <<>>,
          neumann |-> [i \in Ids |-> None], values |-> {}, objects |-> <<>>,
          counted |-> 0, pairs |-> <<>>, walls |-> {}, weighsWalls |-> FALSE,
          functions |-> {}]

Listed == {request.physics[i] : i \in DOMAIN request.physics}
SystemVariables == UNION {VariablesOf(p, request.dim) : p \in Listed}

\* The static flag starts false, and each physics with the input's flag.
Init ==
  /\ pc = "construct"
  /\ request \in Requests
  /\ built = 0
  /\ read = 0
  /\ handler = [p \in Physics |-> Empty]
  /\ axisymmetric = FALSE
  /\ weighted = [p \in Physics |-> request.flag]
  /\ waiting = {}
  /\ current = None
  /\ types = <<>>
  /\ objects = <<>>
  /\ dofmap = <<>>
  /\ periodic = {}
  /\ side = {}
  /\ flux = {}

Setup == <<built, read, axisymmetric, weighted>>
Imposing == <<waiting, current, types, objects, dofmap, periodic>>
Assembly == <<side, flux>>

(***************************************************************************)
(* Construction: read_bc_data and the handlers' init_bc_types.             *)
(***************************************************************************)

\* The master of a periodic pair is the id that lists it.  Both ids must be
\* there and this one among them; a mutant forgets the default.
IsMaster(e) == e.type = "periodic" /\ e.pair # <<>>
WrongIds(e) ==
  \/ Len(e.pair) # 2
  \/ \A i \in DOMAIN e.pair : e.pair[i] # e.id
  \/ e.offset = 0
WrongPair(e) ==
  \/ Len(e.pair) # 2
  \/ \E i \in DOMAIN e.pair : e.pair[i] = NoId
  \/ \A i \in DOMAIN e.pair : e.pair[i] # e.id
  \/ e.offset = 0
Slave(e) == IF e.pair[1] = e.id THEN e.pair[2] ELSE e.pair[1]

\* The reacting handler's base class reads the first two lists in its own
\* constructor, where the virtual string_to_int and init_bc_types are its own.
Reader(h, list) == IF h = "Reacting" /\ list < 3 THEN "LowMach" ELSE h

\* A fraction for each species, between zero and one; for a catalytic wall its
\* reactions, and their catalycities.
WrongSpecies(e) ==
  \/ e.type \in SpeciesTypes /\ (e.comps # NSpecies \/ e.wrong)
  \/ e.type \in WallTypes /\ (~e.listed \/ e.wrong)

\* Only the incompressible handler insists on the variables of a profile, and
\* constant_displacement is checked against variables that are not there yet.
Refuses(h, e) ==
  \/ e.type \notin Handled(Reader(h, e.list))
  \/ e.type = "prescribed_vel" /\ e.comps # 3
  \/ e.type = "parabolic_profile" /\ e.comps # 6
  \/ /\ e.type = "parabolic_profile"
     /\ h = "Flow"
     /\ Missing \in {e.var, e.fix}
  \/ e.type = "constant_traction" /\ e.comps < 3
  \/ WrongSpecies(e)
  \/ IsMaster(e) /\ WrongPair(e)

\* Function objects an entry adds to _dirichlet_bound_funcs.
Object(e, name, value) == [ids |-> {e.id}, vars |-> {name}, value |-> value]
Objects(h, e) ==
  CASE e.type \in FunctionTypes -> <<Object(e, e.var, Func)>>
    [] e.type = "parabolic_profile" ->
         <<Object(e, e.var, Func), Object(e, e.fix, Zero)>>
    [] e.type = "general_velocity" /\ h # "Flow" -> <<Object(e, e.fix, Zero)>>
    [] OTHER -> <<>>

\* Which of the maps of values a type reads and writes, and the components it
\* stores there.
StoreOf(type) == IF type \in TempTypes THEN "T"
                 ELSE IF type \in SpeciesTypes THEN "species" ELSE "dirichlet"
Stores(e) ==
  {[id |-> e.id, store |-> StoreOf(e.type), component |-> c] :
     c \in CASE e.type \in {"isothermal_wall", "isothermal"} -> {0}
             [] e.type = "prescribed_vel" -> Components
             [] e.type \in SpeciesTypes -> {0, 1}
             [] e.type = "constant_displacement" -> 0..(e.comps - 1)
             [] OTHER -> {}}

Walls(e) == {[id |-> e.id, number |-> r, on |-> e.reactions[r]] :
               r \in DOMAIN e.reactions}

\* set_dirichlet_bc_type keeps a list "in the same order as in the input
\* file"; a map would order it by id.
Prepended(list, item) == <<item>> \o list
Listing(list, item) == Append(list, item)
AddIf(holds, list, item) == IF holds THEN Listing(list, item) ELSE list

\* The handler s of class h after init_bc_types of an entry it accepts.
AfterEntry(h, s, e) ==
  [s EXCEPT
     !.dirichlet = AddIf(e.type \in DirichletTypes[h], @, <<e.id, e.type>>),
     !.temp = AddIf(e.type \in TempTypes, @, <<e.id, e.type>>),
     !.species = AddIf(e.type \in SpeciesTypes, @, <<e.id, e.type>>),
     !.neumann = IF e.type \in NeumannTypes[h]
                 THEN [@ EXCEPT ![e.id] = e.type] ELSE @,
     !.values = @ \union Stores(e),
     !.objects = @ \o Objects(h, e),
     !.counted = IF e.type = "periodic" THEN @ + 1 ELSE @,
     !.pairs = AddIf(IsMaster(e), @, <<e.id, Slave(e)>>),
     !.walls = IF e.type \in WallTypes THEN @ \union Walls(e) ELSE @]

\* The physics under construction, and the entries of its input.
Constructing == request.physics[built + 1]
Entries(p) == request.entries[p]

\* "Must specify equal number of boundary ids and boundary conditions", which
\* read_bc_data asks of a list before it reads its entries.
IsUnequal(list) == <<Constructing, list>> \in request.unequal

\* string_to_int of the base class sets the shared flag, even where no case of
\* init_bc_types follows; the axisymmetric heat transfer has its own.
SetsFlag(p, e) == e.type = "axisymmetric" /\ HandlerOf[p] # "AxisymHeat"

ReadEntry ==
  /\ pc = "construct"
  /\ built < Len(request.physics)
  /\ read < Len(Entries(Constructing))
  /\ \A l \in 1..Entries(Constructing)[read + 1].list : ~IsUnequal(l)
  /\ LET p == Constructing
         e == Entries(p)[read + 1]
     IN /\ axisymmetric' = (axisymmetric \/ SetsFlag(p, e))
        /\ IF Refuses(HandlerOf[p], e)
           THEN pc' = "error" /\ UNCHANGED <<read, handler>>
           ELSE /\ pc' = pc
                /\ read' = read + 1
                /\ handler' = [handler EXCEPT
                                 ![p] = AfterEntry(HandlerOf[p], @, e)]
  /\ UNCHANGED <<request, built, weighted, Imposing, Assembly>>

RefuseLists ==
  /\ pc = "construct"
  /\ built < Len(request.physics)
  /\ \E l \in Lists :
       /\ IsUnequal(l)
       /\ read < Len(Entries(Constructing)) =>
            l <= Entries(Constructing)[read + 1].list
  /\ pc' = "error"
  /\ UNCHANGED <<request, handler, Setup, Imposing, Assembly>>

\* The rest of the physics' constructor: three of them read the shared flag as
\* their handler leaves it, and the axisymmetric heat transfer always weighs.
ReadsFlag == {"HeatTransfer", "IncompressibleNavierStokes",
              "ReactingLowMachNavierStokes"}
\* A mutant has a flag per handler.
WeighsOwn(p) == weighted[p] \/ p = "AxisymmetricHeatTransfer"
                  \/ \E i \in DOMAIN Entries(p) : SetsFlag(p, Entries(p)[i])
Weighs(p) == weighted[p] \/ p = "AxisymmetricHeatTransfer"
               \/ (p \in ReadsFlag /\ axisymmetric)

ConstructPhysics ==
  /\ pc = "construct"
  /\ built < Len(request.physics)
  /\ read = Len(Entries(Constructing))
  /\ \A l \in Lists : ~IsUnequal(l)
  /\ weighted' = [weighted EXCEPT ![Constructing] = Weighs(Constructing)]
  /\ built' = built + 1
  /\ read' = 0
  /\ UNCHANGED <<pc, request, handler, axisymmetric, Imposing, Assembly>>

\* attach_dirichlet_bc_funcs, before the system is initialised.
AttachDirichletFuncs ==
  /\ pc = "construct"
  /\ built = Len(request.physics)
  /\ pc' = "init"
  /\ handler' = [p \in Physics |->
                   [handler[p] EXCEPT !.objects = @ \o request.user[p]]]
  /\ waiting' = Listed
  /\ UNCHANGED <<request, Setup, current, types, objects, dofmap, periodic,
                 Assembly>>

(***************************************************************************)
(* Physics::init_bcs, for the physics in the order of the list.            *)
(***************************************************************************)

\* init_dirichlet_bcs: the low Mach handlers go on with their other lists,
\* which a mutant forgets.
FlowListOnly(s) == s.dirichlet
AllLists(s) == s.dirichlet \o s.temp \o s.species

\* init_bc_data passes the shared flag to the catalytic walls.
StartInit(p) ==
  /\ pc = "init"
  /\ current = None
  /\ p \in waiting
  /\ \A q \in waiting : ~Before(q, p)
  /\ waiting' = waiting \ {p}
  /\ current' = p
  /\ types' = AllLists(handler[p])
  /\ objects' = handler[p].objects
  /\ handler' = [handler EXCEPT ![p].weighsWalls = axisymmetric]
  /\ UNCHANGED <<pc, request, Setup, dofmap, periodic, Assembly>>

\* get_dirichlet_bc_value: an entry that is not in the map is undefined, a
\* component that was not set is zero.
InMap(p, id, store) ==
  \E v \in handler[p].values : v.id = id /\ v.store = store
Stored(p, id, store, value) ==
  IF \/ value \notin Components
     \/ [id |-> id, store |-> store, component |-> value] \in handler[p].values
  THEN value ELSE Zero
Reads(type) ==
  \E i \in DOMAIN Imposes(request.dim)[type] :
     Imposes(request.dim)[type][i].value \in Components

\* user_init_dirichlet_bcs: one DirichletBoundary per condition of the type.
Boundaries(p, id, type) ==
  [i \in DOMAIN Imposes(request.dim)[type] |->
     LET on == Imposes(request.dim)[type][i] IN
       [ids |-> {id}, vars |-> on.vars,
        value |-> Stored(p, id, StoreOf(type), on.value)]]

InitDirichletBC ==
  /\ pc = "init"
  /\ current # None
  /\ types # <<>>
  /\ LET id == Head(types)[1]
         type == Head(types)[2]
     IN IF Reads(type) /\ ~InMap(current, id, StoreOf(type))
        THEN pc' = "undefined" /\ UNCHANGED dofmap
        ELSE /\ pc' = pc
             /\ dofmap' = dofmap \o Boundaries(current, id, type)
  /\ types' = Tail(types)
  /\ UNCHANGED <<request, handler, Setup, waiting, current, objects, periodic,
                 Assembly>>

\* A function object of a variable the system does not have is an error.
InitDirichletFuncObj ==
  /\ pc = "init"
  /\ current # None
  /\ types = <<>>
  /\ objects # <<>>
  /\ IF Head(objects).vars \subseteq SystemVariables
     THEN pc' = pc /\ dofmap' = Append(dofmap, Head(objects))
     ELSE pc' = "error" /\ UNCHANGED dofmap
  /\ objects' = Tail(objects)
  /\ UNCHANGED <<request, handler, Setup, waiting, current, types, periodic,
                 Assembly>>

\* "Consistency check required to make sure user actually set periodic bc
\* data", with the integer division of the code; a mutant has none.
NoCheck(p) == TRUE
PairsAreConsistent(p) == Len(handler[p].pairs) = handler[p].counted \div 2

InitPeriodic ==
  /\ pc = "init"
  /\ current # None
  /\ types = <<>>
  /\ objects = <<>>
  /\ IF PairsAreConsistent(current)
     THEN /\ pc' = pc
          /\ periodic' = periodic \union
               {handler[current].pairs[i] : i \in DOMAIN handler[current].pairs}
     ELSE pc' = "error" /\ UNCHANGED periodic
  /\ current' = None
  /\ UNCHANGED <<request, handler, Setup, waiting, types, objects, dofmap,
                 Assembly>>

\* attach_neumann_bc_funcs, after the initialisation.
AttachNeumannFuncs ==
  /\ pc = "init"
  /\ current = None
  /\ waiting = {}
  /\ pc' = "solve"
  /\ handler' = [p \in Physics |->
                   [handler[p] EXCEPT !.functions = request.functions[p]]]
  /\ UNCHANGED <<request, Setup, Imposing, Assembly>>

(***************************************************************************)
(* Assembly of a side: side_time_derivative of the physics that have one   *)
(* calls apply_neumann_bcs with each id of the side.                       *)
(***************************************************************************)

\* Heat conduction has none, the low Mach one and the membrane's do not call
\* it, and the flow's handlers know no fluxes.
AppliesFluxes ==
  {"AxisymmetricHeatTransfer", "ElasticCable", "HeatTransfer",
   "ReactingLowMachNavierStokes"}
Applying == {p \in AppliesFluxes : p \in Listed}

\* user_apply_neumann_bcs: the flux, its weight, and what cannot be applied.
Weight(p) == CASE HandlerOf[p] = "AxisymHeat" -> TRUE
               [] HandlerOf[p] = "Heat" -> axisymmetric
               [] HandlerOf[p] = "Reacting" -> handler[p].weighsWalls
               [] OTHER -> FALSE
Flux(p, id, name, value) ==
  [physics |-> p, id |-> id, var |-> name, value |-> value,
   weighted |-> Weight(p)]
WallFluxes(p, id) ==
  UNION {{Flux(p, id, wall.on.reactant, wall.number),
          Flux(p, id, wall.on.product, wall.number)} :
           wall \in {w \in handler[p].walls : w.id = id}}
Fluxes(p, id) ==
  LET type == handler[p].neumann[id] IN
    IF type = None THEN {}
    ELSE IF type \in WallTypes THEN WallFluxes(p, id)
    ELSE LET ons == IF type \in DOMAIN Tractions THEN Tractions[type]
                    ELSE HeatFluxes[type]
         IN {Flux(p, id, CHOOSE x \in on.vars : TRUE, on.value) : on \in ons}

\* The reacting handler has cases for its walls only, and these have no
\* Jacobians.
Fails(p, id) ==
  LET type == handler[p].neumann[id] IN
    /\ HandlerOf[p] = "Reacting"
    /\ type # None
    /\ type \in WallTypes => (request.analytic /\ WallFluxes(p, id) # {})

\* get_neumann_bound_func dereferences what it finds.
Dangles(p, id) ==
  /\ handler[p].neumann[id] = "general_heat_flux"
  /\ ~\E f \in handler[p].functions : f.id = id /\ "T" \in f.vars

\* The ids of the side a physics asks about; in the mutant the first.
FirstId(ids) == IF ids = {} THEN {} ELSE {CHOOSE i \in ids : \A j \in ids : i <= j}
SideIds(ids) == ids

AssembleSide(ids) ==
  /\ pc = "solve"
  /\ side' = ids
  /\ IF \E p \in Applying, id \in ids : Fails(p, id) \/ Dangles(p, id)
     THEN /\ \E p \in Applying, id \in ids :
               \/ Fails(p, id) /\ pc' = "error"
               \/ Dangles(p, id) /\ pc' = "undefined"
          /\ UNCHANGED flux
     ELSE /\ pc' = pc
          /\ flux' = UNION {Fluxes(p, id) : p \in Applying, id \in SideIds(ids)}
  /\ UNCHANGED <<request, handler, Setup, Imposing>>

Next == \/ ReadEntry \/ RefuseLists \/ ConstructPhysics
        \/ AttachDirichletFuncs
        \/ (\E p \in Physics : StartInit(p))
        \/ InitDirichletBC \/ InitDirichletFuncObj \/ InitPeriodic
        \/ AttachNeumannFuncs
        \/ (\E ids \in request.sides : AssembleSide(ids))

Spec == Init /\ [][Next]_vars

(***************************************************************************)
(* What an input must be like for its boundary conditions to be those it   *)
(* asks for; the runs outside these hypotheses show what happens then.     *)
(***************************************************************************)

EntriesIn(r, p) == {r.entries[p][i] : i \in DOMAIN r.entries[p]}
PhysicsIn(r) == {r.physics[i] : i \in DOMAIN r.physics}
IsFlux(p, e) == e.type \in NeumannTypes[HandlerOf[p]]

\* The map of Neumann types has one per id.
OneFluxPerId(r) ==
  \A p \in PhysicsIn(r) : \A i, j \in DOMAIN r.entries[p] :
    (/\ i # j
     /\ IsFlux(p, r.entries[p][i])
     /\ IsFlux(p, r.entries[p][j])) => r.entries[p][i].id # r.entries[p][j].id

\* Only some physics pass the sides on to their handlers.
FluxesArePassedOn(r) ==
  \A p \in PhysicsIn(r) \ AppliesFluxes : \A e \in EntriesIn(r, p) :
    e.type \notin HeatFluxTypes \union {"constant_traction"}

\* A physics with fluxes must be constructed when the shared flag is known,
\* and the flag of the input agree with it.
HasAxis(r, p) == \E e \in EntriesIn(r, p) : SetsFlag(p, e)
AxisAmong(r, k) == \E i \in 1..k : HasAxis(r, r.physics[i])
AxisIsKnown(r) ==
  \A k \in DOMAIN r.physics :
    CASE r.physics[k] = "AxisymmetricHeatTransfer" -> TRUE
      [] r.physics[k] = "ElasticCable" -> ~r.flag
      [] OTHER -> (r.flag \/ AxisAmong(r, k)) = AxisAmong(r, Len(r.physics))

\* Missing components of a displacement are not noticed, nor is a periodic
\* boundary more or less than the pairs.
DisplacementsAreComplete(r) ==
  \A p \in PhysicsIn(r) : \A e \in EntriesIn(r, p) :
    e.type = "constant_displacement" => e.comps >= 3
PeriodicAreEven(r) ==
  \A p \in PhysicsIn(r) :
    LET ids == {e.id : e \in {f \in EntriesIn(r, p) : f.type = "periodic"}} IN
      /\ Cardinality(ids) \in {0, 2}
      /\ \A i, j \in DOMAIN r.entries[p] :
           (/\ i # j
            /\ r.entries[p][i].type = "periodic"
            /\ r.entries[p][j].type = "periodic") =>
             r.entries[p][i].id # r.entries[p][j].id

(***************************************************************************)
(* Properties.                                                             *)
(***************************************************************************)

IdTypes == Ids \X DOMAIN Imposes(2)
HandlerStates ==
  [dirichlet: Seq(IdTypes), temp: Seq(IdTypes), species: Seq(IdTypes),
   neumann: [Ids -> Types \union {None}],
   values: SUBSET [id: Ids, store: {"dirichlet", "T", "species"},
                   component: Nat],
   objects: Seq(Condition), counted: Nat, pairs: Seq(Ids \X Ids),
   walls: SUBSET [id: Ids, number: Nat,
                  on: [reactant: Species, product: Species]],
   weighsWalls: BOOLEAN,
   functions: SUBSET [id: Ids, vars: SUBSET Variables]]
FluxType == [physics: Physics, id: Ids, var: Variables, value: Values \union Nat,
             weighted: BOOLEAN]

\* The type invariant.
TypeOK ==
  /\ pc \in {"construct", "init", "solve", "error", "undefined"}
  /\ request \in RequestType
  /\ built \in 0..Len(request.physics)
  /\ read \in Nat
  /\ handler \in [Physics -> HandlerStates]
  /\ \A p \in Physics, i \in Ids :
       handler[p].neumann[i] \in NeumannTypes[HandlerOf[p]] \union {None}
  /\ axisymmetric \in BOOLEAN
  /\ weighted \in [Physics -> BOOLEAN]
  /\ waiting \subseteq Physics
  /\ current \in Physics \union {None}
  /\ types \in Seq(IdTypes)
  /\ objects \in Seq(Condition)
  /\ dofmap \in Seq(Condition)
  /\ periodic \subseteq Ids \X Ids
  /\ side \subseteq Ids
  /\ flux \subseteq FluxType

EntriesOf(p) == EntriesIn(request, p)
Promise(p, type) ==
  {d \in Promised(type, request.dim) : d[1] \in VariablesOf(p, request.dim)}

\* The essential conditions an entry asks for: what its type promises and the
\* functions it names.
PromisedObjects(p, e) ==
  CASE e.type \in FunctionTypes -> {<<e.var, Func>>}
    [] e.type = "parabolic_profile" -> {<<e.var, Func>>, <<e.fix, Zero>>}
    [] e.type = "general_velocity" /\ HandlerOf[p] \in {"LowMach", "Reacting"} ->
         {<<e.fix, Zero>>}
    [] OTHER -> {}
AskedOf(p, e) ==
  IF IsFlux(p, e) THEN {} ELSE Promise(p, e.type) \union PromisedObjects(p, e)
OnIds(condition) ==
  {<<x, id, condition.value>> : x \in condition.vars, id \in condition.ids}
Asked ==
  (UNION {UNION {{<<d[1], e.id, d[2]>> : d \in AskedOf(p, e)} :
                   e \in EntriesOf(p)} : p \in Listed})
  \union (UNION {UNION {OnIds(request.user[p][i]) :
                          i \in DOMAIN request.user[p]} : p \in Listed})

\* When the system is initialised, the DofMap holds the essential conditions
\* the input and the user's functions ask for, each on its boundary and its
\* variable with its value: none is lost between the lists, none left over.
DirichletAreOfInput ==
  pc = "solve" =>
    UNION {OnIds(dofmap[k]) : k \in DOMAIN dofmap} = Asked

\* The fluxes an entry asks for.
AskedFluxes(p, e) ==
  IF e.type \in WallTypes
  THEN UNION {{<<e.reactions[r].reactant, r>>, <<e.reactions[r].product, r>>} :
                r \in DOMAIN e.reactions}
  ELSE Promise(p, e.type)

\* A side that was assembled got the fluxes the input asks for on each of its
\* boundaries, and no others.
FluxesAreOfInput ==
  pc = "solve" =>
    {<<f.physics, f.id, f.var, f.value>> : f \in flux} =
    UNION {UNION {{<<p, e.id, d[1], d[2]>> : d \in AskedFluxes(p, e)} :
                    e \in {g \in EntriesOf(p) : IsFlux(p, g) /\ g.id \in side}} :
             p \in Listed}

\* A flux has the weight of the equation it enters: with r if the volume
\* integrals of its physics have it, and without if they do not.
WeightsAgree ==
  pc = "solve" => \A f \in flux : f.weighted = weighted[f.physics]

\* When the system is initialised, every boundary an input calls periodic is
\* of a pair the DofMap knows, and those are pairs the input lists.
PeriodicIdsArePaired ==
  pc = "solve" =>
    \A p \in Listed : \A e \in EntriesOf(p) :
      e.type = "periodic" =>
        \E pair \in periodic : e.id \in {pair[1], pair[2]}

\* "the boundary condition functors get added to the libMesh::DofMap in the
\* same order as in the input file": of two built-in conditions of a physics,
\* the one listed first is the first in the DofMap.
BuiltIn(p, e) ==
  /\ e.type \in DirichletTypes[HandlerOf[p]]
  /\ Imposes(request.dim)[e.type] # <<>>
Holds(k, p, e) ==
  \E i \in DOMAIN Boundaries(p, e.id, e.type) :
     dofmap[k] = Boundaries(p, e.id, e.type)[i]
InputOrderKept ==
  pc = "solve" =>
    \A p \in Listed : \A i, j \in DOMAIN Entries(p) :
      (i < j /\ BuiltIn(p, Entries(p)[i]) /\ BuiltIn(p, Entries(p)[j])) =>
        \E m, n \in DOMAIN dofmap :
          m < n /\ Holds(m, p, Entries(p)[i]) /\ Holds(n, p, Entries(p)[j])
=============================================================================
