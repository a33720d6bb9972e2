--------------------------- MODULE PostProcessing ---------------------------
(***************************************************************************)
(* PostProcessedQuantities and the physics that feed it: the registration  *)
(* of the requested quantities, whose indices each physics keeps, the      *)
(* variables of the output system, and the projection of the quantities    *)
(* onto it, in which threads evaluate them element by element in contexts  *)
(* of their own.                                                           *)
(***************************************************************************)
EXTENDS Integers, OutputVars

CONSTANTS
  Requests,   \* the requests an input file may make, see RequestsAssumption
  Elements,   \* addresses of the mesh elements
  Threads,    \* threads of the projection
  MaxLevel    \* bound on the changes of the solution or the mesh

ASSUME MaxLevelAssumption == MaxLevel \in Nat

\* calls: the calls of register_quantity the output_vars lead to;
\* enabled: the elements of the subdomains a physics is enabled on;
\* cantera: whether the gas evaluator is Cantera's;
\* garbage: what the uninitialised _stress_zz_index holds.
RequestType ==
  [calls: Seq([physics: PhysicsNames, name: Quantities \union {Invalid}]),
   enabled: [PhysicsNames -> SUBSET Elements],
   cantera: BOOLEAN,
   garbage: Nat]
ASSUME RequestsAssumption == Requests \subseteq RequestType

NoElem == "no element"
ASSUME ElementsAssumption == NoElem \notin Elements

VARIABLES
  pc,       \* where the program is
  request,  \* the input
  size,     \* number of quantities registered
  cached,   \* cached[p][n]: the index physics p keeps for its quantity n
  variables,\* output variable -> quantity index, _quantity_index_var_map
  level,    \* the number of changes of the solution and the mesh so far
  todo,     \* elements no thread has taken yet in this projection
  thread,   \* what each thread does
  contexts, \* the contexts in memory
  field,    \* the solution of the output system, per variable and element
  updated   \* the level of the last update_quantities

vars == <<pc, request, size, cached, variables, level, todo, thread, contexts,
          field, updated>>

Levels == 0..MaxLevel
Never == -1
Blank == [elem |-> NoElem, level |-> 0]
Zero == [by |-> "none", name |-> "zero", elem |-> NoElem, level |-> 0]

calls == request.calls
nCalls == Len(calls)

\* The indices start at zero, the vectors of indices empty, and
\* _stress_zz_index uninitialised.
Empty == -1
KeptInVectors ==
  {Call("ElasticMembrane", n) : n \in Registered("ElasticMembrane")}
    \union {Call("ElasticCable", n) : n \in Registered("ElasticCable")}
    \union {Call("ReactingLowMachNavierStokes", n) :
              n \in {"X_N2", "X_N", "h_N2", "h_N", "omega_dot_N2",
                     "omega_dot_N"}}
Uninitialised == Call("ElasticMembrane", "stress_zz")
InitialIndex(r, p, n) == IF Call(p, n) = Uninitialised THEN r.garbage
                         ELSE IF Call(p, n) \in KeptInVectors THEN Empty
                         ELSE 0

Idle == [at |-> "idle", range |-> {}, elem |-> NoElem, context |-> NoElem]

Init ==
  /\ pc = "register"
  /\ request \in Requests
  /\ size = 0
  /\ cached = [p \in PhysicsNames |->
                 [n \in Quantities |-> InitialIndex(request, p, n)]]
  /\ variables = [n \in {} |-> 0]
  /\ level = 0
  /\ todo = {}
  /\ thread = [t \in Threads |-> Idle]
  /\ contexts = [c \in Threads |-> Blank]
  /\ field = [n \in Quantities |-> [e \in Elements |-> Zero]]
  /\ updated = Never

Projection == <<todo, thread, contexts, field, updated>>

\* The names in the map of registered quantities.
RegisteredNames == {calls[i].name : i \in 1..size}

\* register_quantity: "we add 1 so that the locally cached indices in each of
\* the Physics can safely initialize the index to zero".
NewIndexFromZero(n) == n
NewIndex(n) == n + 1

\* An option that is not offered, or a quantity that exists already, is an
\* error; the mutants miss one or the other.
RefusesInvalid(call) == call.name = Invalid
RefusesDuplicate(call) == call.name \in RegisteredNames
Refuses(call) == call.name \in RegisteredNames \union {Invalid}

RegisterQuantity ==
  /\ pc = "register"
  /\ size < nCalls
  /\ LET call == calls[size + 1] IN
       IF Refuses(call)
       THEN pc' = "error" /\ UNCHANGED <<size, cached>>
       ELSE /\ pc' = pc
            /\ size' = size + 1
            /\ cached' = [cached EXCEPT ![call.physics] =
                            [@ EXCEPT ![call.name] = NewIndex(size)]]
  /\ UNCHANGED <<request, variables, level, Projection>>

\* The index register_quantity returned for a name.
IndexOf(n) ==
  NewIndex((CHOOSE i \in 1..size : calls[i].name = n) - 1)

\* initialize: a variable for each registered name.
Initialize ==
  /\ pc = "register"
  /\ size = nCalls
  /\ pc' = "ready"
  /\ variables' = [n \in RegisteredNames |-> IndexOf(n)]
  /\ UNCHANGED <<request, size, cached, level, Projection>>

\* A solve, a time step or a refinement between two updates; elements of the
\* new mesh may have the addresses of deleted ones.
Advance ==
  /\ pc = "ready"
  /\ level < MaxLevel
  /\ level' = level + 1
  /\ UNCHANGED <<pc, request, size, cached, variables, Projection>>

\* update_quantities, when anything is registered: project_solution copies
\* the function for each thread.  One update per level bounds the model: a
\* second one starts from the same state and projects the same.
UpdateQuantities ==
  /\ pc = "ready"
  /\ size > 0
  /\ updated < level
  /\ pc' = "update"
  /\ todo' = Elements
  /\ UNCHANGED <<request, size, cached, variables, level, thread, contexts,
                 field, updated>>

\* init_context creates the context of the multiphysics system that this
\* thread's copy of the function uses; in the mutant the copies share one.
SharedContext(t) == CHOOSE c \in Threads : TRUE
OwnContext(t) == t

StartRange(t) ==
  /\ pc = "update"
  /\ thread[t].at = "idle"
  /\ \E range \in SUBSET todo \ {{}} :
       /\ todo' = todo \ range
       /\ thread' = [thread EXCEPT ![t] =
            [at |-> "next", range |-> range, elem |-> NoElem,
             context |-> OwnContext(t)]]
  /\ contexts' = [contexts EXCEPT ![OwnContext(t)] = Blank]
  /\ UNCHANGED <<pc, request, size, cached, variables, level, field, updated>>

\* What a thread does next: evaluate an element of its range, and then the
\* next one, if any.
Evaluating(t, e) ==
  [thread[t] EXCEPT !.at = "evaluate", !.range = thread[t].range \ {e},
                    !.elem = e]
Evaluated(t) == IF thread[t].range = {} THEN Idle
                ELSE [thread[t] EXCEPT !.at = "next"]

\* component, on the first point of an element: reinitialise the context
\* unless it is at this element's address already.
Reinit(t) ==
  /\ thread[t].at = "next"
  /\ \E e \in thread[t].range :
       /\ thread' = [thread EXCEPT ![t] = Evaluating(t, e)]
       /\ contexts' = IF contexts[thread[t].context].elem # e
                      THEN [contexts EXCEPT ![thread[t].context] =
                              [elem |-> e, level |-> level]]
                      ELSE contexts
  /\ UNCHANGED <<pc, request, size, cached, variables, level, todo, field,
                 updated>>

\* compute_postprocessed_quantity of one physics: the names whose cached
\* index is q.  The membrane looks at _stress_zz_index when it has stress
\* indices, and after them.
Stresses == Range(MembraneOffers.stress) \union Range(MembraneOffers.strain)
IsStressZZ(q) ==
  /\ cached["ElasticMembrane"]["stress_xx"] # Empty
  /\ \A n \in Stresses : cached["ElasticMembrane"][n] # q
Matches(p, q) ==
  {n \in Computes[p] : /\ cached[p][n] = q
                       /\ Call(p, n) = Uninitialised => IsStressZZ(q)}

\* Cantera's evaluator does not implement these.
Unimplemented(p, n) ==
  /\ request.cantera
  /\ p = "ReactingLowMachNavierStokes"
  /\ n \in {"mu", "k", "cp"}

EnabledOnElem(p, e) == e \in request.enabled[p]

\* MultiphysicsSystem::compute_postprocessed_quantity in the context ctx:
\* the last physics of the list that writes the value wins, and a value no
\* physics writes is zero.
Writers(q, ctx) ==
  {j \in DOMAIN PhysicsOrder :
     /\ EnabledOnElem(PhysicsOrder[j], ctx.elem)
     /\ Matches(PhysicsOrder[j], q) # {}}
Value(q, ctx) ==
  LET writers == Writers(q, ctx)
      last == PhysicsOrder[CHOOSE j \in writers : \A i \in writers : i <= j]
  IN IF writers = {} THEN Zero
     ELSE [by |-> last, name |-> CHOOSE n \in Matches(last, q) : TRUE,
           elem |-> ctx.elem, level |-> ctx.level]
Throws(q, ctx) ==
  \E j \in Writers(q, ctx) : \E n \in Matches(PhysicsOrder[j], q) :
     Unimplemented(PhysicsOrder[j], n)

\* operator(): every component at the points of the element.
Evaluate(t) ==
  /\ thread[t].at = "evaluate"
  /\ LET ctx == contexts[thread[t].context]
         e == thread[t].elem
     IN IF \E n \in DOMAIN variables : Throws(variables[n], ctx)
        THEN pc' = "error" /\ UNCHANGED <<thread, field>>
        ELSE /\ pc' = pc
             /\ thread' = [thread EXCEPT ![t] = Evaluated(t)]
             /\ field' = [n \in Quantities |->
                  IF n \in DOMAIN variables
                  THEN [field[n] EXCEPT ![e] = Value(variables[n], ctx)]
                  ELSE field[n]]
  /\ UNCHANGED <<request, size, cached, variables, level, todo, contexts,
                 updated>>

EndUpdate ==
  /\ pc = "update"
  /\ todo = {}
  /\ \A t \in Threads : thread[t].at = "idle"
  /\ pc' = "ready"
  /\ updated' = level
  /\ UNCHANGED <<request, size, cached, variables, level, todo, thread,
                 contexts, field>>

Step(t) == StartRange(t) \/ (pc = "update" /\ (Reinit(t) \/ Evaluate(t)))

Next == \/ RegisterQuantity \/ Initialize \/ Advance \/ UpdateQuantities
        \/ (\E t \in Threads : Step(t)) \/ EndUpdate

Spec == Init /\ [][Next]_vars

(***************************************************************************)
(* Properties.                                                             *)
(***************************************************************************)

Values == [by: PhysicsNames \union {"none"},
           name: Quantities \union {"zero"},
           elem: Elements \union {NoElem}, level: Levels]
ThreadStates == [at: {"idle", "next", "evaluate"}, range: SUBSET Elements,
                 elem: Elements \union {NoElem},
                 context: Threads \union {NoElem}]

\* The type invariant.
TypeOK ==
  /\ pc \in {"register", "ready", "update", "error"}
  /\ request \in Requests
  /\ size \in 0..nCalls
  /\ cached \in [PhysicsNames -> [Quantities -> Nat \union {Empty}]]
  /\ DOMAIN variables \subseteq Quantities
  /\ level \in Levels
  /\ todo \subseteq Elements
  /\ thread \in [Threads -> ThreadStates]
  /\ contexts \in [Threads -> [elem: Elements \union {NoElem}, level: Levels]]
  /\ field \in [Quantities -> [Elements -> Values]]
  /\ updated \in Levels \union {Never}

\* What the field of a requested quantity should hold at an element: the
\* value of the physics that was asked for it, in the state of that level, or
\* zero where that physics is not enabled.
Expected(call, e, lvl) ==
  IF EnabledOnElem(call.physics, e)
  THEN [by |-> call.physics, name |-> call.name, elem |-> e, level |-> lvl]
  ELSE Zero

\* After an update every requested quantity has a variable, and its field is
\* what was asked for, of the state the update was made in, on every element:
\* never another physics' quantity, another thread's element or an old state.
FieldsHoldTheirQuantity ==
  (pc = "ready" /\ updated # Never) =>
    \A i \in 1..nCalls : \A e \in Elements :
      field[calls[i].name][e] = Expected(calls[i], e, updated)

\* No two quantities that the program goes on to compute have one name.
NoNameTwice ==
  pc \in {"ready", "update"} =>
    \A i, j \in 1..nCalls : calls[i].name = calls[j].name => i = j

\* A thread evaluates in a context that is at its own element, in the state
\* of now.
ContextIsOwn ==
  \A t \in Threads :
    (pc = "update" /\ thread[t].at = "evaluate") =>
      contexts[thread[t].context] = [elem |-> thread[t].elem, level |-> level]
=============================================================================
