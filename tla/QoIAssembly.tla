---------------------------- MODULE QoIAssembly ----------------------------
(***************************************************************************)
(* Quantities of interest: every processor of a run visits its elements    *)
(* on several threads, joins what the threads added, and sums each         *)
(* quantity over the processors, CompositeQoI calling its quantities one   *)
(* by one in each of these.  A pass assembles the values (assemble_qoi,    *)
(* what Simulation::run and the adaptive solver print) or the derivatives  *)
(* (the right-hand side of the adjoint problem).                           *)
(*                                                                         *)
(* A contribution is named by the element, the side (or the interior) and  *)
(* the solution it was integrated in; a sum is the set of what was added   *)
(* and whether anything was added twice.                                   *)
(***************************************************************************)
EXTENDS Integers, Sequences, FiniteSets

CONSTANTS
  Ranks,          \* the processors
  Threads, Root,  \* the assembly threads of one, and the one joined into
  Elements, Sides,
  BoundarySides,  \* the sides of an element that have no neighbour
  Subdomain,      \* the subdomain of an element
  SideIds,        \* the boundary ids of a side of an element
  QoIs,           \* the enabled quantities, [kind, ids], in order
  Dofs, FirstVar, \* unknowns of a variable per element; variable zero
  Rounds          \* what the program does, in order

Passes == {"solve", "values", "derivatives"}
Interior == "interior"

ASSUME RootAssumption == Root \in Threads
ASSUME SidesAssumption ==
  /\ Interior \notin Sides
  /\ BoundarySides \in [Elements -> SUBSET Sides]
  /\ \A e \in Elements, s \in Sides : IsFiniteSet(SideIds[e][s])
ASSUME QoIsAssumption ==
  /\ QoIs \in Seq([kind: {"nusselt", "vorticity"}, ids: SUBSET Int])
  /\ Len(QoIs) >= 1
ASSUME RoundsAssumption == Rounds \in Seq(Passes)

Quantities == 1..Len(QoIs)

\* CompositeQoI::add_qoi, which clone() repeats: the loops libMesh has to run.
AssembleElements == \E q \in Quantities : QoIs[q].kind = "vorticity"
AssembleSides == \E q \in Quantities : QoIs[q].kind = "nusselt"

Zero == [items |-> {}, once |-> TRUE]
Plus(a, b) == [items |-> a.items \union b.items,
               once |-> a.once /\ b.once /\ a.items \intersect b.items = {}]

\* The integral over an element: vorticity, on the subdomains it lists.
ElementItems(q, e, l) ==
  IF /\ AssembleElements
     /\ QoIs[q].kind = "vorticity"
     /\ Subdomain[e] \in QoIs[q].ids
  THEN {<<e, Interior, l>>} ELSE {}

\* libMesh calls the side functions on sides without a neighbour only.
ListedSides(q, e) ==
  {s \in BoundarySides[e] : SideIds[e][s] \intersect QoIs[q].ids # {}}

\* The integrals over the sides of an element: the Nusselt number, once for
\* each of its ids that the side has.
SideItems(q, e, l) ==
  IF AssembleSides /\ QoIs[q].kind = "nusselt"
  THEN {<<e, s, l>> : s \in ListedSides(q, e)} ELSE {}

SideIsOnce(q, e) ==
  QoIs[q].kind = "nusselt" => \A s \in ListedSides(q, e) :
    Cardinality(SideIds[e][s] \intersect QoIs[q].ids) = 1

\* What the visit of an element adds to a quantity.
Work(q, e, l) ==
  [items |-> ElementItems(q, e, l) \union SideItems(q, e, l),
   once |-> SideIsOnce(q, e)]

\* The variables a quantity depends on.
ReadBy(q) == IF QoIs[q].kind = "nusselt" THEN {"T"} ELSE {"u", "v"}

\* The entries of the derivative a visit fills: the Nusselt number loops over
\* the unknowns of its variable, the vorticity over those of variable zero
\* (the mutant does so for both).
DofLoopOfFirst(q) == 0..(Dofs[FirstVar] - 1)
DofLoop(q) ==
  0..((IF QoIs[q].kind = "nusselt" THEN Dofs["T"] ELSE Dofs[FirstVar]) - 1)

DerivativeWork(q, e, l) ==
  [items |-> {<<c, v, i>> : c \in Work(q, e, l).items,
                            v \in ReadBy(q), i \in DofLoop(q)},
   once |-> Work(q, e, l).once]

VARIABLES
  owner,   \* the processor of each element
  level,   \* the number of the solve whose solution the system holds
  round,   \* the place of each processor in Rounds
  phase,   \* what it is doing there
  todo,    \* elements of this pass its threads have not taken yet
  range,   \* the elements that went into each thread's sums
  body,    \* the sums of each thread (QoIContributions)
  at,      \* the quantity whose collective sum the processor is in
  local,   \* local_qoi of parallel_op
  value,   \* _qoi_value of each quantity, what output_qoi prints
  pending, \* contributions to the adjoint right-hand sides
  rhs      \* the assembled right-hand sides

vars == <<owner, level, round, phase, todo, range, body, at, local, value,
          pending, rhs>>

Each(x) == [q \in Quantities |-> x]

Own(p) == {e \in Elements : owner[e] = p}
Pass(p) == IF round[p] <= Len(Rounds) THEN Rounds[round[p]] ELSE "end"

Init ==
  /\ owner \in [Elements -> Ranks]
  /\ level = 0
  /\ round = [p \in Ranks |-> 1]
  /\ phase = [p \in Ranks |-> "start"]
  /\ todo = [p \in Ranks |-> {}]
  /\ range = [p \in Ranks |-> [t \in Threads |-> {}]]
  /\ body = [p \in Ranks |-> [t \in Threads |-> Each(Zero)]]
  /\ at = [p \in Ranks |-> 1]
  /\ local = [p \in Ranks |-> Each(Zero)]
  /\ value = [p \in Ranks |-> Each(Zero)]
  /\ pending = [p \in Ranks |-> Each(Zero)]
  /\ rhs = Each(Zero)

\* A solve is collective: nobody leaves it before all have entered.
Solve ==
  /\ \A p \in Ranks : Pass(p) = "solve"
  /\ level' = level + 1
  /\ round' = [p \in Ranks |-> round[p] + 1]
  /\ UNCHANGED <<owner, phase, todo, range, body, at, local, value, pending,
                 rhs>>

\* A pass over the active local elements begins with sums of zero.
StartPass(p) ==
  /\ phase[p] = "start"
  /\ Pass(p) \in {"values", "derivatives"}
  /\ phase' = [phase EXCEPT ![p] = "visiting"]
  /\ todo' = [todo EXCEPT ![p] = Own(p)]
  /\ range' = [range EXCEPT ![p] = [t \in Threads |-> {}]]
  /\ body' = [body EXCEPT ![p] = [t \in Threads |-> Each(Zero)]]
  /\ pending' = [pending EXCEPT ![p] = Each(Zero)]
  /\ UNCHANGED <<owner, level, round, at, local, value, rhs>>

\* element_qoi and side_qoi of every quantity, on a thread's own context.
VisitValue(p, t, e) ==
  /\ Pass(p) = "values"
  /\ body' = [body EXCEPT ![p][t] =
       [q \in Quantities |-> Plus(@[q], Work(q, e, level))]]
  /\ UNCHANGED pending

\* element_qoi_derivative and side_qoi_derivative, then added under a lock.
VisitDerivative(p, e) ==
  /\ Pass(p) = "derivatives"
  /\ pending' = [pending EXCEPT ![p] =
       [q \in Quantities |-> Plus(@[q], DerivativeWork(q, e, level))]]
  /\ UNCHANGED body

Visit(p, t) ==
  /\ phase[p] = "visiting"
  /\ \E e \in todo[p] :
       /\ todo' = [todo EXCEPT ![p] = @ \ {e}]
       /\ range' = [range EXCEPT ![p][t] = @ \union {e}]
       /\ VisitValue(p, t, e) \/ VisitDerivative(p, e)
  /\ UNCHANGED <<owner, level, round, phase, at, local, value, rhs>>

\* What a joined thread leaves in the sums of the one that takes it over;
\* the mutant forgets the quantities after the first.
JoinedFirst(p, t) ==
  [q \in Quantities |-> IF q = 1 THEN Plus(body[p][Root][q], body[p][t][q])
                        ELSE body[p][Root][q]]
Joined(p, t) == [q \in Quantities |-> Plus(body[p][Root][q], body[p][t][q])]

\* CompositeQoI::thread_join when the threads have run out of elements.
ThreadJoin(p, t) ==
  /\ phase[p] = "visiting" /\ Pass(p) = "values" /\ todo[p] = {}
  /\ t # Root /\ range[p][t] # {}
  /\ body' = [body EXCEPT ![p] = [@ EXCEPT ![Root] = Joined(p, t),
                                           ![t] = Each(Zero)]]
  /\ range' = [range EXCEPT
       ![p] = [@ EXCEPT ![Root] = range[p][Root] \union range[p][t],
                        ![t] = {}]]
  /\ UNCHANGED <<owner, level, round, phase, todo, at, local, value, pending,
                 rhs>>

AllJoined(p) == todo[p] = {} /\ \A t \in Threads \ {Root} : range[p][t] = {}

\* parallel_op begins: the first quantity's sum is entered.
StartReduction(p) ==
  /\ phase[p] = "visiting" /\ Pass(p) = "values" /\ AllJoined(p)
  /\ local' = [local EXCEPT ![p] = body[p][Root]]
  /\ at' = [at EXCEPT ![p] = 1]
  /\ phase' = [phase EXCEPT ![p] = "summing"]
  /\ UNCHANGED <<owner, level, round, todo, range, body, value, pending, rhs>>

\* The sum over the processors of what each has in the collective call.
Total(v) ==
  [items |-> UNION {v[p].items : p \in Ranks},
   once |-> /\ \A p \in Ranks : v[p].once
            /\ \A p, r \in Ranks :
                 p # r => v[p].items \intersect v[r].items = {}]

\* communicator.sum: it ends when every processor is in it.
Sum ==
  /\ \A p \in Ranks : phase[p] = "summing"
  /\ local' = [p \in Ranks |-> [local[p] EXCEPT ![at[p]] =
                 Total([r \in Ranks |-> local[r][at[r]]])]]
  /\ phase' = [p \in Ranks |-> "summed"]
  /\ UNCHANGED <<owner, level, round, todo, range, body, at, value, pending,
                 rhs>>

\* What a processor does after a quantity's sum: the next one; the mutant
\* leaves out a quantity that none of its own elements contribute to.
NextSumNonzero(p) ==
  IF at[p] + 1 \in Quantities /\ local[p][at[p] + 1].items = {}
  THEN at[p] + 2 ELSE at[p] + 1
NextSum(p) == at[p] + 1

\* sys_qoi = local_qoi; _qoi_value = sys_qoi; on to the next quantity.
Store(p) ==
  /\ phase[p] = "summed"
  /\ value' = [value EXCEPT ![p][at[p]] = local[p][at[p]]]
  /\ \/ /\ NextSum(p) \in Quantities
        /\ at' = [at EXCEPT ![p] = NextSum(p)]
        /\ phase' = [phase EXCEPT ![p] = "summing"]
        /\ UNCHANGED round
     \/ /\ NextSum(p) \notin Quantities
        /\ at' = [at EXCEPT ![p] = 1]
        /\ phase' = [phase EXCEPT ![p] = "start"]
        /\ round' = [round EXCEPT ![p] = @ + 1]
  /\ UNCHANGED <<owner, level, todo, range, body, local, pending, rhs>>

\* The right-hand sides are closed by all processors together.
CloseDerivatives ==
  /\ \A p \in Ranks : /\ phase[p] = "visiting"
                      /\ Pass(p) = "derivatives"
                      /\ todo[p] = {}
  /\ rhs' = [q \in Quantities |-> Total([p \in Ranks |-> pending[p][q]])]
  /\ round' = [p \in Ranks |-> round[p] + 1]
  /\ phase' = [p \in Ranks |-> "start"]
  /\ UNCHANGED <<owner, level, todo, range, body, at, local, value, pending>>

Rank(p) ==
  \/ StartPass(p)
  \/ \E t \in Threads : Visit(p, t) \/ ThreadJoin(p, t)
  \/ StartReduction(p)
  \/ Store(p)

Collective == Solve \/ Sum \/ CloseDerivatives

Next == Collective \/ \E p \in Ranks : Rank(p)

Spec == Init /\ [][Next]_vars
FairSpec == Spec /\ WF_vars(Collective) /\ \A p \in Ranks : WF_vars(Rank(p))

(***************************************************************************)
(* Properties.                                                             *)
(***************************************************************************)

Variables == {"u", "v", "T"}
Parts == Elements \X (Sides \union {Interior}) \X Nat
Sums == [items: SUBSET Parts, once: BOOLEAN]
Derivatives == [items: SUBSET (Parts \X Variables \X Nat), once: BOOLEAN]

\* The type invariant of the processors' passes and sums.
TypeOK ==
  /\ owner \in [Elements -> Ranks]
  /\ level \in Nat
  /\ round \in [Ranks -> 1..(Len(Rounds) + 1)]
  /\ phase \in [Ranks -> {"start", "visiting", "summing", "summed"}]
  /\ todo \in [Ranks -> SUBSET Elements]
  /\ range \in [Ranks -> [Threads -> SUBSET Elements]]
  /\ body \in [Ranks -> [Threads -> [Quantities -> Sums]]]
  /\ at \in [Ranks -> Quantities]
  /\ local \in [Ranks -> [Quantities -> Sums]]
  /\ value \in [Ranks -> [Quantities -> Sums]]
  /\ pending \in [Ranks -> [Quantities -> Derivatives]]
  /\ rhs \in [Quantities -> Derivatives]

\* A side with two of the ids of one quantity is integrated twice.
OneListedId == \A q \in Quantities, e \in Elements : SideIsOnce(q, e)

\* The parts of the domain a quantity is defined on: the walls with its ids,
\* or the elements of its subdomains.
Domain(q) ==
  IF QoIs[q].kind = "nusselt"
  THEN {d \in Elements \X Sides :
          /\ d[2] \in BoundarySides[d[1]]
          /\ SideIds[d[1]][d[2]] \intersect QoIs[q].ids # {}}
  ELSE {d \in Elements \X {Interior} : Subdomain[d[1]] \in QoIs[q].ids}

\* A quantity over the whole domain, every part of it once.
Whole(q, l) ==
  [items |-> {<<d[1], d[2], l>> : d \in Domain(q)}, once |-> TRUE]

\* Its derivative: an entry for every unknown of every variable it reads.
WholeDerivative(q, l) ==
  [items |-> UNION {{<<c, v, i>> : c \in Whole(q, l).items,
                                   i \in 0..(Dofs[v] - 1)} : v \in ReadBy(q)},
   once |-> TRUE]

Promise == INSTANCE WholeSum WITH told <- value, Unknown <- Zero

\* Whoever owns an element and whichever thread visits it, what a processor
\* holds of a quantity is the sum over the whole domain, every element and
\* side once, in the solution of the latest solve.
SumSpec == Promise!Spec

\* The derivative has an entry for every unknown of every variable that a
\* part of the value depends on, once each, and no other.  The vorticity's is
\* right beside other quantities too, though the code above it warns "we assume
\* here that vorticity is the only QoI": it uses the index it is given.
DerivativeIsOfValue ==
  \A q \in Quantities :
    rhs[q] = Zero \/ \E l \in 0..level : rhs[q] = WholeDerivative(q, l)

\* A processor goes on by itself unless it is in a collective call, and all
\* of them go on together once they are in the same one.
GoesOn(p) ==
  \/ phase[p] = "start" /\ Pass(p) \in {"values", "derivatives"}
  \/ phase[p] = "visiting" /\ (Pass(p) = "values" \/ todo[p] # {})
  \/ phase[p] = "summed"
AllMeet ==
  \/ \A p \in Ranks : Pass(p) = "solve"
  \/ \A p \in Ranks : phase[p] = "summing"
  \/ \A p \in Ranks : /\ phase[p] = "visiting"
                      /\ Pass(p) = "derivatives"
                      /\ todo[p] = {}
AllEnd == \A p \in Ranks : Pass(p) = "end"

\* Nobody waits in a sum for a processor that waits in another collective
\* call or has left: until all are at the end, one of them goes on by itself
\* or all meet.
ProcessorsMeet == AllEnd \/ AllMeet \/ \E p \in Ranks : GoesOn(p)

\* No processor waits for ever in a collective call the others do not make.
AllRanksFinish == <>AllEnd
=============================================================================
