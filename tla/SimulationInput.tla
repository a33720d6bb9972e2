--------------------------- MODULE SimulationInput ---------------------------
(***************************************************************************)
(* What the input file asks of a simulation.  It is read, never written.   *)
(***************************************************************************)
EXTENDS Integers, Sequences

CONSTANT Inputs  \* the input files of a run

Restarts == {"absent", "none", "xdr", "xda", "other"}
Conditions == [ids: SUBSET Int, vars: SUBSET {"u", "v", "w"}, value: Int]

ASSUME InputsAssumption ==
  \A i \in Inputs :
    /\ i.mesh \in {"read", "generate", "both", "neither"}
    /\ i.parallel \in BOOLEAN       \* Mesh/class: each processor has a part
    /\ i.uniform \in Nat            \* Mesh/Refinement/uniformly_refine
    /\ i.local \in BOOLEAN          \* a function for locally_h_refine
    /\ i.restart \in Restarts       \* restart-options/restart_file
    \* lacks an option there; "qoi" also stands for an unknown of a quantity
    /\ i.missing \subseteq {"mesh", "continuation", "qoi"}
    /\ i.ics \in [{"ids", "types", "vars", "values"} -> Nat]
    /\ i.icType \in {"constant", "parsed", "unknown"}
    /\ i.qois \subseteq {"nusselt", "vorticity", "unknown"}
    /\ i.printQoI \in BOOLEAN      \* screen-options/print_qoi
    /\ i.heat \in BOOLEAN           \* heat transfer or low Mach enabled
    /\ i.unused \in BOOLEAN         \* has a variable that nothing reads
    /\ i.warnOnly \in BOOLEAN       \* --warn-only-unused-var
    /\ i.continuation \in BOOLEAN   \* solver_type = displacement_continuation
    /\ i.transient \in BOOLEAN /\ i.adaptive \in BOOLEAN
    /\ i.dirichlet \in Seq(Conditions)
    /\ i.boundary \in Int           \* the boundary to displace
    /\ i.increments \in Nat         \* in so many steps
    /\ i.outputVis \in BOOLEAN /\ i.outputResidual \in BOOLEAN

VARIABLE input
=============================================================================
