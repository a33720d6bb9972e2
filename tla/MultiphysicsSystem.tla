------------------------- MODULE MultiphysicsSystem -------------------------
(***************************************************************************)
(* MultiphysicsSystem: the list of physics the input enables, turned into  *)
(* one system.  init_data makes every physics add its variables and mark   *)
(* those it marches in time; init_context lets each ask for the shape      *)
(* functions it needs; and each residual function of the system first lets *)
(* every physics fill a cache, then adds up what the physics enabled on    *)
(* the element contribute to the residual and, if asked, to the Jacobian.  *)
(*                                                                         *)
(* The physics are operators of the configuration c and the name of the    *)
(* physics; PhysicsTerms holds those of the program.  The elements, the    *)
(* time solver that calls the residual functions and the finite elements   *)
(* are libMesh's.                                                          *)
(***************************************************************************)
EXTENDS Naturals, Sequences

CONSTANTS
  Configs,          \* list, scheme, analytic, where and what the operators read
  Subdomains, NoSubdomain,
  Variables,
  NoType,           \* the type of a variable nobody added
  Adds(_, _),       \* init_variables: pairs of variable and type
  Evolves(_, _),    \* set_time_evolving_vars
  Requests(_, _),   \* init_context: pairs of variable and kind of shape
  Caches(_, _, _),  \* what compute_*_cache puts in the cache
  Terms(_, _, _)    \* a residual function: see Term in PhysicsTerms

ASSUME ListsAreNotEmpty == \A k \in Configs : k.list \in Seq(STRING) \ {<<>>}
ASSUME AddsAreFunctions ==
  \A k \in Configs : \A i \in DOMAIN k.list : \A a \in Adds(k, k.list[i]) :
    /\ a[1] \in Variables
    /\ a[2] # NoType
    /\ \A b \in Adds(k, k.list[i]) : a[1] = b[1] => a[2] = b[2]

VARIABLES
  c,         \* the configuration, read from the input
  phase, next,           \* the running loop and its iterator into the list
  types, evolving,       \* the variables of the system
  steady,                \* Physics::_is_steady
  context,               \* the shapes the context will compute, by type
  visit, hook, request,  \* the call of the time solver being served
  cache, reads, jac      \* of that call: cached values, residual and Jacobian
vars == <<c, phase, next, types, evolving, steady, context, visit, hook,
          request, cache, reads, jac>>
system == <<c, types, evolving, steady>>
call == <<visit, hook, request, cache, reads, jac>>

Phases == {"variables", "evolving", "steady", "built", "context", "ready",
           "caching", "physics", "returned", "aborted"}
NoVisit == [kind |-> "none", where |-> NoSubdomain]
\* The calls of a time solver: the interior of an element, one of its sides,
\* and the scalar unknowns, which belong to no element.
Visits == [kind : {"element", "side"}, where : Subdomains]
            \union {[kind |-> "nonlocal", where |-> NoSubdomain]}

Physics == c.list[next]
Added == {v \in Variables : types[v] # NoType}

Init ==
  /\ c \in Configs
  /\ phase = "variables" /\ next = 1
  /\ types = [v \in Variables |-> NoType]
  /\ evolving = {}
  /\ steady = FALSE
  /\ context = {}
  /\ visit = NoVisit /\ hook = 1 /\ request = FALSE
  /\ cache = {} /\ reads = {} /\ jac = {}

ListOverrun == next > Len(c.list)
\* The loops over the list run to its end before the next one starts.
ListDone == next = Len(c.list)
Step(after) ==
  /\ next' = IF ListDone THEN 1 ELSE next + 1
  /\ phase' = IF ListDone THEN after ELSE phase

--------------------------------------------------------------------------
(* init_data *)

\* System::add_variable hands back a variable of that name and type, and
\* stops the program if the type is another.
Clashes(pairs) == \E a \in pairs : types[a[1]] \notin {NoType, a[2]}
WithVariables(pairs) ==
  [v \in Variables |->
     IF \E a \in pairs : a[1] = v
     THEN (CHOOSE a \in pairs : a[1] = v)[2] ELSE types[v]]
InitVariables ==
  /\ phase = "variables"
  /\ ~Clashes(Adds(c, Physics))
  /\ types' = WithVariables(Adds(c, Physics))
  /\ Step("evolving")
  /\ UNCHANGED <<c, evolving, steady, context, call>>
RefuseVariable ==
  /\ phase = "variables"
  /\ Clashes(Adds(c, Physics))
  /\ phase' = "aborted"
  /\ UNCHANGED <<system, next, context, call>>

SetTimeEvolving ==
  /\ phase = "evolving"
  /\ evolving' = evolving \union Evolves(c, Physics)
  /\ Step("steady")
  /\ UNCHANGED <<c, types, steady, context, call>>

SetIsSteady ==
  /\ phase = "steady"
  /\ steady' = (c.scheme = "steady")
  /\ phase' = "built"
  /\ UNCHANGED <<c, types, evolving, next, context, call>>

--------------------------------------------------------------------------
(* build_context, init_context *)

\* Every assembly has contexts of its own.
BuildContext ==
  /\ phase \in {"built", "ready"}
  /\ context' = {}
  /\ phase' = "context"
  /\ UNCHANGED <<system, next, call>>

\* Variables of the same type share their finite element.
ShapesOf(pairs) == {<<types[r[1]], r[2]>> : r \in pairs}
InitContext ==
  /\ phase = "context"
  /\ context' = context \union ShapesOf(Requests(c, Physics))
  /\ Step("ready")
  /\ UNCHANGED <<system, call>>

--------------------------------------------------------------------------
(* _general_residual and its callers *)

\* The residual functions a time solver calls, in its order.
Hooks(k) ==
  IF k.scheme = "steady"
  THEN [element |-> <<"element_time_derivative", "element_constraint">>,
        side |-> <<"side_time_derivative", "side_constraint">>,
        nonlocal |-> <<"nonlocal_time_derivative", "nonlocal_constraint">>]
  ELSE [element |-> <<"element_time_derivative", "mass_residual",
                      "element_constraint">>,
        side |-> <<"side_time_derivative", "side_constraint">>,
        nonlocal |-> <<"nonlocal_time_derivative", "nonlocal_mass_residual",
                       "nonlocal_constraint">>]
MassHooks == {"mass_residual", "nonlocal_mass_residual"}
ConstraintHooks == {"element_constraint", "side_constraint",
                    "nonlocal_constraint"}
Hook == Hooks(c)[visit.kind][hook]

\* The derivative of the solution a residual function sees with respect to
\* the unknowns: one, except between two time levels.
Unit(k, h) == k.scheme # "theta" \/ h \in ConstraintHooks
Scaled(k, h, entries) ==
  {<<e[1], e[2], IF e[3] = "value" /\ Unit(k, h) THEN "one" ELSE e[3]>> :
     e \in entries}
\* What a physics adds in a residual function.
Contribution(entries) == {<<Physics, Hook>>} \X Scaled(c, Hook, entries)

\* libMesh visits the scalar unknowns only if there are some.
Visitable(v) == v.kind = "nonlocal" => \E x \in Variables : types[x] = "scalar"
StartVisit(v) ==
  /\ phase = "ready"
  /\ Visitable(v)
  /\ visit' = v
  /\ hook' = 1
  /\ request' \in BOOLEAN
  /\ cache' = {} /\ reads' = {} /\ jac' = {}
  /\ phase' = "caching"
  /\ UNCHANGED <<system, next, context>>

ComputeJacobian == request /\ c.analytic

\* The caches are filled by every physics, wherever it is enabled.
ComputeCache ==
  /\ phase = "caching"
  /\ cache' = cache \union Caches(c, Physics, Hook)
  /\ Step("physics")
  /\ UNCHANGED <<system, context, visit, hook, request, reads, jac>>

ResFunc == Terms(c, Physics, Hook)
EnabledOnElem ==
  \/ visit.kind = "nonlocal"
  \/ c.where[Physics] = {}
  \/ visit.where \in c.where[Physics]
Stops ==
  \/ ResFunc.stops = "always"
  \/ ResFunc.stops = "jacobian" /\ ComputeJacobian

Contribute ==
  /\ phase = "physics"
  /\ EnabledOnElem
  /\ ~Stops
  /\ reads' = reads \union Contribution(ResFunc.reads)
  /\ jac' = IF ComputeJacobian THEN jac \union Contribution(ResFunc.jac)
            ELSE jac
  /\ Step("returned")
  /\ UNCHANGED <<system, context, visit, hook, request, cache>>
Skip ==
  /\ phase = "physics"
  /\ ~EnabledOnElem
  /\ Step("returned")
  /\ UNCHANGED <<system, context, call>>
Stop ==
  /\ phase = "physics"
  /\ EnabledOnElem
  /\ Stops
  /\ phase' = "aborted"
  /\ UNCHANGED <<system, next, context, call>>

MoreHooks == hook < Len(Hooks(c)[visit.kind])
NextHook ==
  /\ phase = "returned"
  /\ MoreHooks
  /\ hook' = hook + 1
  /\ cache' = {}
  /\ phase' = "caching"
  /\ UNCHANGED <<system, next, context, visit, request, reads, jac>>
EndVisit ==
  /\ phase = "returned"
  /\ ~MoreHooks
  /\ phase' = "ready"
  /\ visit' = NoVisit /\ hook' = 1 /\ request' = FALSE
  /\ cache' = {} /\ reads' = {} /\ jac' = {}
  /\ UNCHANGED <<system, next, context>>

Next ==
  \/ InitVariables \/ RefuseVariable \/ SetTimeEvolving \/ SetIsSteady
  \/ BuildContext \/ InitContext
  \/ \E v \in Visits : StartVisit(v)
  \/ ComputeCache \/ Contribute \/ Skip \/ Stop
  \/ NextHook \/ EndVisit

Spec == Init /\ [][Next]_vars

--------------------------------------------------------------------------
(* Properties *)

\* The types of the variables.
TypeOK ==
  /\ c \in Configs
  /\ phase \in Phases
  /\ next \in DOMAIN c.list
  /\ types \in [Variables -> {NoType} \union
                  {a[2] : a \in UNION {Adds(c, c.list[i]) : i \in DOMAIN c.list}}]
  /\ evolving \subseteq UNION {Evolves(c, c.list[i]) : i \in DOMAIN c.list}
  /\ steady \in BOOLEAN
  /\ visit \in Visits \union {NoVisit}
  /\ hook \in 1..3
  /\ request \in BOOLEAN

Contributing == phase = "physics" /\ EnabledOnElem /\ ~Stops

\* The residual function about to run takes from the context only shape
\* functions somebody asked for before the finite elements were initialised:
\* its own init_context, or that of a physics whose variable has the same
\* type.  A finite element nobody asked anything computes everything.
Provided(type, kind) ==
  \/ <<type, kind>> \in context
  \/ \A s \in context : s[1] # type
DataWasRequested ==
  Contributing => \A s \in ResFunc.shapes : Provided(types[s[1]], s[2])

\* It takes from the cache only values that a physics has put there.
CachedBeforeRead == Contributing => ResFunc.gets \subseteq cache

\* It takes residuals, blocks of the Jacobian, solutions and shape functions
\* only of variables that were added; the context is asked only for the shape
\* functions of such variables, and only they are marched in time.
BlocksExist ==
  /\ Contributing =>
       /\ \A e \in ResFunc.reads \union ResFunc.jac :
            e[1] \in Added /\ e[2] \in Added
       /\ \A s \in ResFunc.shapes : s[1] \in Added
  /\ phase = "context" => \A r \in Requests(c, Physics) : r[1] \in Added
  /\ phase # "variables" => evolving \subseteq Added

\* When the system says it computed the Jacobian, every contribution to the
\* residual has an entry for each unknown it depends on and for no other,
\* scaled like the dependence: verify_analytic_jacobians tests their sum.
VisitDone == phase = "returned" /\ ~MoreHooks
JacobianIsOfResidual == VisitDone /\ ComputeJacobian => jac = reads

\* A mass residual holds the time derivative only: each equation it touches
\* has a rate in it, of a variable marched in time.
MassHoldsRates ==
  Contributing /\ Hook \in MassHooks =>
    \A e \in ResFunc.reads :
      \E r \in ResFunc.reads : r[1] = e[1] /\ r[3] = "rate" /\ r[2] \in evolving

\* In an unsteady run every variable marched in time has an equation that
\* reads a rate, once an element where all physics are enabled is done.
EnabledEverywhere ==
  \A i \in DOMAIN c.list :
    c.where[c.list[i]] = {} \/ visit.where \in c.where[c.list[i]]
EvolvingAreMarched ==
  VisitDone /\ visit.kind = "element" /\ EnabledEverywhere /\ ~steady =>
    \A v \in evolving :
      types[v] # "scalar" => \E e \in reads : e[2][1] = v /\ e[2][3] = "rate"

--------------------------------------------------------------------------
(* What the physics owe the system, one at a time, under which the system  *)
(* has the properties above for every list of them.                        *)

Kinds == {"element", "side", "nonlocal"}
HookNames(k) ==
  UNION {{Hooks(k)[kind][i] : i \in DOMAIN Hooks(k)[kind]} : kind \in Kinds}

\* Each physics marches, asks for and uses only variables that it adds.
TouchesOwn(k) ==
  \A i \in DOMAIN k.list :
    LET own == {a[1] : a \in Adds(k, k.list[i])}
    IN /\ Evolves(k, k.list[i]) \subseteq own
       /\ \A r \in Requests(k, k.list[i]) : r[1] \in own
       /\ \A h \in HookNames(k) :
            LET term == Terms(k, k.list[i], h)
            IN /\ \A e \in term.reads \union term.jac :
                    e[1] \in own /\ e[2] \in own
               /\ \A s \in term.shapes : s[1] \in own

\* Each Jacobian is complete in the scaling of its residual function; or the
\* physics stops the program before a call of that kind has its Jacobian.
StopsJacobian(k, p, kind) ==
  \E n \in DOMAIN Hooks(k)[kind] :
    Terms(k, p, Hooks(k)[kind][n]).stops \in {"always", "jacobian"}
JacobiansAreComplete(k) ==
  k.analytic =>
    \A i \in DOMAIN k.list : \A kind \in Kinds :
      \/ StopsJacobian(k, k.list[i], kind)
      \/ \A n \in DOMAIN Hooks(k)[kind] :
           LET h == Hooks(k)[kind][n]
           IN Scaled(k, h, Terms(k, k.list[i], h).jac)
                = Scaled(k, h, Terms(k, k.list[i], h).reads)

\* Each mass residual has a rate, of a variable some physics of the list
\* marches, in each equation it touches.
MassesHoldRates(k) ==
  \A i \in DOMAIN k.list : \A h \in MassHooks \intersect HookNames(k) :
    \A e \in Terms(k, k.list[i], h).reads :
      \E r \in Terms(k, k.list[i], h).reads :
        /\ r[1] = e[1] /\ r[3] = "rate"
        /\ \E j \in DOMAIN k.list : r[2] \in Evolves(k, k.list[j])

\* In an unsteady run each variable a physics marches is a scalar of the
\* whole domain, or a physics of the list reads a rate in its equation on the
\* elements, or stops the program there.
RatesAreRead(k) ==
  k.scheme # "steady" =>
    \A i \in DOMAIN k.list : \A v \in Evolves(k, k.list[i]) :
      \/ \E a \in Adds(k, k.list[i]) : a[1] = v /\ a[2] = "scalar"
      \/ \E j \in DOMAIN k.list : \E n \in DOMAIN Hooks(k).element :
           LET term == Terms(k, k.list[j], Hooks(k).element[n])
           IN \/ \E e \in term.reads : e[1] = v /\ e[3] = "rate"
              \/ term.stops = "always"

\* Each cache function computes what its residual function takes.
CachesSuffice(k) ==
  \A i \in DOMAIN k.list : \A h \in HookNames(k) :
    Terms(k, k.list[i], h).gets \subseteq Caches(k, k.list[i], h)

\* Each shape function used is asked for by a physics of the list, of a
\* variable of the same type; or nobody asks for any of that type.
AllAdds(k) == UNION {Adds(k, k.list[i]) : i \in DOMAIN k.list}
SameType(k, v, w) ==
  \E a, b \in AllAdds(k) : a[1] = v /\ b[1] = w /\ a[2] = b[2]
AllRequests(k) == UNION {Requests(k, k.list[i]) : i \in DOMAIN k.list}
KindsAsked(k, v) ==
  {r[2] : r \in {q \in AllRequests(k) : SameType(k, q[1], v)}}
TypesAgree(k) ==
  \A a, b \in AllAdds(k) : a[1] = b[1] => a[2] = b[2]
RequestsSuffice(k) ==
  TypesAgree(k) =>
    \A i \in DOMAIN k.list : \A h \in HookNames(k) :
      \A s \in Terms(k, k.list[i], h).shapes :
        s[2] \in KindsAsked(k, s[1]) \/ KindsAsked(k, s[1]) = {}
=============================================================================
