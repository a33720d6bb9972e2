----------------------------- MODULE MCSimulation -----------------------------
(***************************************************************************)
(* A line of two elements on two processors: an element <<k, i>> is the    *)
(* i-th of the 2 * 2^k elements of level k.                                *)
(***************************************************************************)
EXTENDS Simulation

MCCoarse == {<<0, 0>>, <<0, 1>>}
MCLevel(e) == e[1]
MCChildren(e) == {<<e[1] + 1, 2 * e[2]>>, <<e[1] + 1, 2 * e[2] + 1>>}
MCOrigin(e) == <<0, e[2] \div 2^e[1]>>

\* The ends of an element, in units of the smallest element.
Finest == 5
From(e) == e[2] * 2^(Finest - e[1])
To(e) == (e[2] + 1) * 2^(Finest - e[1])
MCAdjacent(e, f) == From(e) = To(f) \/ To(e) = From(f)

\* The input wants so many refinements near the left end, or near the middle
\* on the right.
MCWanted(i, e) ==
  LET centroid == (From(e) + To(e)) \div 2
  IN  CASE i.where = "left"   -> IF centroid <= 16 THEN 2 ELSE 0
        [] i.where = "middle" -> IF centroid \in 33..48 THEN 2 ELSE 0
        [] i.where = "right"  -> IF centroid > 32 THEN 1 ELSE 0
        [] OTHER -> 0

ICs(n, m) == [ids |-> n, types |-> n, vars |-> n, values |-> m]

Plain ==
  [mesh |-> "generate", parallel |-> TRUE, uniform |-> 0, local |-> FALSE,
   where |-> "nowhere", restart |-> "absent", missing |-> {},
   ics |-> ICs(0, 0), icType |-> "constant", qois |-> {},
   printQoI |-> FALSE, heat |-> FALSE, unused |-> FALSE, warnOnly |-> FALSE,
   continuation |-> FALSE, transient |-> FALSE, adaptive |-> FALSE,
   dirichlet |-> <<>>, boundary |-> -1, increments |-> 0, outputVis |-> TRUE,
   outputResidual |-> FALSE]

Pinned == [ids |-> {3}, vars |-> {"u", "v", "w"}, value |-> 0]
Pulled == [ids |-> {1}, vars |-> {"u"}, value |-> 0]
Held == [ids |-> {1}, vars |-> {"v"}, value |-> 0]
Clamped == [ids |-> {1, 3}, vars |-> {"u", "v"}, value |-> 0]

\* How the mesh is refined, from the start or after a restart.
Refined ==
  {[Plain EXCEPT !.parallel = p, !.uniform = u, !.local = TRUE, !.where = w,
                 !.restart = r] :
     p \in BOOLEAN, u \in 0..2, w \in {"left", "middle", "right", "nowhere"},
     r \in {"absent", "none", "xdr"}}

\* What is read, in every combination with a restart.
Started ==
  {[Plain EXCEPT !.mesh = m, !.restart = r, !.ics = c, !.uniform = u,
                 !.icType = t, !.qois = q, !.heat = h, !.printQoI = TRUE] :
     m \in {"read", "both", "neither"}, t \in {"parsed", "unknown"},
     r \in {"absent", "none", "xdr", "xda", "other"},
     c \in {ICs(0, 0), ICs(1, 1), ICs(2, 2), ICs(1, 2)}, u \in 0..1,
     q \in {{}, {"nusselt"}, {"vorticity"}}, h \in BOOLEAN}

\* Which quantities are asked for, and what of theirs is missing.
Measured ==
  {[Plain EXCEPT !.qois = q, !.missing = x, !.heat = TRUE, !.printQoI = TRUE] :
     q \in SUBSET {"nusselt", "vorticity", "unknown"}, x \in {{}, {"qoi"}}}

\* Which solver is run.
Solved ==
  {[Plain EXCEPT !.unused = x, !.warnOnly = w, !.transient = t, !.adaptive = a,
                 !.outputVis = v, !.outputResidual = f, !.dirichlet = d] :
     x \in BOOLEAN, w \in BOOLEAN, t \in BOOLEAN, a \in BOOLEAN,
     v \in BOOLEAN, f \in BOOLEAN, d \in {<<>>, <<Pinned, Clamped>>}}

Continued ==
  {[Plain EXCEPT !.continuation = TRUE, !.dirichlet = d, !.boundary = b,
                 !.increments = n, !.outputVis = v, !.restart = r,
                 !.adaptive = v, !.transient = v, !.outputResidual = v,
                 !.missing = x] :
     d \in {<<Pinned, Pulled, Held>>, <<Pulled, Held, Pinned>>,
            <<Pinned, Pulled, Clamped>>, <<Held, Pulled>>, <<Clamped, Pulled>>,
            <<>>},
     b \in {1, 3}, n \in {0, 1, 3}, v \in BOOLEAN, r \in {"absent", "xdr"},
     x \in SUBSET {"mesh", "continuation"}}

\* A restart that asks for one uniform and for local refinement.
MCRestarts == {i \in Refined : i.restart = "xdr" /\ i.uniform = 1}

MCInputs ==
  Refined \union Started \union Measured \union Solved \union Continued
=============================================================================
