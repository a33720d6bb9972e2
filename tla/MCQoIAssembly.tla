---------------------------- MODULE MCQoIAssembly ----------------------------
(* QoIAssembly for TLC: three elements in a row on three processors with    *)
(* two threads each; a heated wall in two pieces.                           *)
EXTENDS QoIAssembly, TLC

CONSTANTS r1, r2, r3, t1, t2, e1, e2, e3

TheRanks == {r1, r2, r3}
TheThreads == {t1, t2}
TheElements == {e1, e2, e3}

TheSides == {"left", "right", "wall"}
TheBoundarySides == (e1 :> {"left", "wall"}) @@ (e2 :> {"wall"})
                    @@ (e3 :> {"right", "wall"})
TheSubdomains == (e1 :> 1) @@ (e2 :> 2) @@ (e3 :> 1)

\* The side between e1 and e2 has an id too.
Ids(e, s) == CASE s = "wall" -> IF e = e3 THEN {5} ELSE {4}
               [] s = "left" -> IF e = e2 THEN {4} ELSE {3}
               [] s = "right" -> IF e = e1 THEN {4} ELSE {}
TheSideIds == [e \in TheElements |-> [s \in TheSides |-> Ids(e, s)]]

\* The average Nusselt number of the walls and the vorticity of a subdomain.
TheQoIs == <<[kind |-> "nusselt", ids |-> {4, 5}],
             [kind |-> "vorticity", ids |-> {2}]>>

TheDofs == "u" :> 3 @@ "v" :> 3 @@ "T" :> 2

\* Two steps of an adaptive solve that ends in printing the quantities.
TheRounds == <<"solve", "derivatives", "values", "solve", "values">>
=============================================================================
