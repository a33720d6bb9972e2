--------------------------- MODULE MeshRefinement ---------------------------
(***************************************************************************)
(* MeshBuilder::do_mesh_refinement_from_input: the refinement the input    *)
(* asks for before the first solve, on processors that each hold a part of *)
(* the mesh.  The whole mesh is refined so many times; then every element  *)
(* is asked at its centroid whether it is to be refined, until none is.    *)
(*                                                                         *)
(* The elements are abstract: libMesh refines an element into Children.    *)
(* Outside are the collective calls of libMesh.                            *)
(***************************************************************************)
EXTENDS SimulationInput

CONSTANTS
  Ranks,          \* the processors
  Coarse,         \* the elements that are read or generated
  Children(_), Level(_),
  Origin(_),      \* the coarse element an element comes from
  Adjacent(_, _),
  Wanted(_, _)    \* the refinements an input asks for at an element's centroid

ASSUME RanksAssumption == Ranks # {}

VARIABLES
  owner,   \* the processor of each coarse element
  mesh,    \* the active elements
  left,    \* passes left of uniformly_refine
  passes,  \* passes since the unknowns were last distributed
  flags,   \* the elements flagged for refinement
  found,   \* each processor: found_refinements is not zero
  pc       \* where each processor is in the function

meshVars == <<owner, mesh, left, passes, flags, found, pc>>

AtAll(place) == \A p \in Ranks : pc[p] = place
AllTo(place) == pc' = [p \in Ranks |-> place]
Restarting == input.restart # "absent"

InitMesh ==
  /\ owner \in [Coarse -> Ranks]
  /\ mesh = {}
  /\ left = 0 /\ passes = 0
  /\ flags = {}
  /\ found = [p \in Ranks |-> FALSE]
  /\ pc = [p \in Ranks |-> "outside"]

\* The call of do_mesh_refinement_from_input.
EnterRefinement ==
  /\ AllTo("uniform")
  /\ left' = input.uniform
  /\ UNCHANGED <<owner, mesh, passes, flags, found>>

\* One pass of uniformly_refine, which is collective.
UniformPass ==
  /\ AtAll("uniform") /\ left > 0
  /\ mesh' = UNION {Children(e) : e \in mesh}
  /\ left' = left - 1
  /\ passes' = passes + 1
  /\ UNCHANGED <<owner, flags, found, pc>>

UniformDone(p) ==
  /\ pc[p] = "uniform" /\ left = 0
  /\ pc' = [pc EXCEPT ![p] = IF input.local THEN "flag" ELSE "done"]
  /\ UNCHANGED <<owner, mesh, left, passes, flags, found>>

\* A distributed mesh shows a processor its elements and their neighbours.
Own(p) == {e \in mesh : owner[Origin(e)] = p}
Active(p) ==
  IF input.parallel
  THEN Own(p) \union {e \in mesh : \E f \in Own(p) : Adjacent(e, f)}
  ELSE mesh

\* The local function counts on top of the uniform refinement; the mutant
\* counts the levels of both.
NeedsTotal(e) == Level(e) < Wanted(input, e)
Needs(e) == Level(e) - input.uniform < Wanted(input, e)

Flag(p) ==
  /\ pc[p] = "flag"
  /\ flags' = flags \union {e \in Active(p) : Needs(e)}
  /\ found' = [found EXCEPT ![p] = \E e \in Active(p) : Needs(e)]
  /\ pc' = [pc EXCEPT ![p] = "max"]
  /\ UNCHANGED <<owner, mesh, left, passes>>

\* comm.max(found_refinements): it is zero for nobody unless it was zero for
\* everybody; the mutant goes on with what it found itself.
AgreedAlone(p) == found[p]
Agreed(p) == \E r \in Ranks : found[r]

Agree ==
  /\ AtAll("max")
  /\ found' = [p \in Ranks |-> Agreed(p)]
  /\ AllTo("agreed")
  /\ UNCHANGED <<owner, mesh, left, passes, flags>>

\* The end of the loop, or one more pass.
Leave(p) ==
  /\ pc[p] = "agreed" /\ ~found[p]
  /\ pc' = [pc EXCEPT ![p] = "done"]
  /\ UNCHANGED <<owner, mesh, left, passes, flags, found>>

StartPass(p) ==
  /\ pc[p] = "agreed" /\ found[p]
  /\ pc' = [pc EXCEPT ![p] = "refine"]
  /\ UNCHANGED <<owner, mesh, left, passes, flags, found>>

\* libMesh keeps the levels of neighbours within one of each other.
Compatible(marked) ==
  \A e \in marked, f \in mesh :
    Adjacent(e, f) /\ Level(f) < Level(e) => f \in marked
Marked ==
  {e \in mesh : \A marked \in SUBSET mesh :
                  flags \subseteq marked /\ Compatible(marked) => e \in marked}

\* refine_and_coarsen_elements, which is collective; with a restart file
\* there is one pass only.
AfterPass == IF Restarting THEN "done" ELSE "flag"
RefineAndCoarsen ==
  /\ AtAll("refine")
  /\ mesh' = (mesh \ Marked) \union UNION {Children(e) : e \in Marked}
  /\ passes' = passes + 1
  /\ flags' = {}
  /\ AllTo(AfterPass)
  /\ UNCHANGED <<owner, left, found>>

LeaveRefinement ==
  /\ AtAll("done")
  /\ AllTo("outside")
  /\ UNCHANGED <<owner, mesh, left, passes, flags, found>>

RefineTogether == UniformPass \/ Agree \/ RefineAndCoarsen
RefineAlone(p) == UniformDone(p) \/ Flag(p) \/ Leave(p) \/ StartPass(p)
=============================================================================
