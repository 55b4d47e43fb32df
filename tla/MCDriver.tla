------------------------------ MODULE MCDriver ------------------------------
(***************************************************************************)
(* The small program of MCExtractor, run three times: over what the roots  *)
(* find, over flags that name one interface, none, or something else, and  *)
(* over state files that still hold a type that is gone.                   *)
(***************************************************************************)
EXTENDS Driver, MCExtractor

CONSTANT I2

MCDTypes == MCTypes \cup {I2}
MCFlags == {<<>>, <<I1>>, <<I1, D1>>, <<D1>>, <<I2>>, <<I2, I1>>}
MCScanned == {{A}, {A, B}}
MCImplementers == {<<S1, S2>>, <<P1, S2>>, <<S1, C1, P1>>}

MCPrograms ==
  {[Base EXCEPT !.kind = (I2 :> "interface") @@ @, !.home = (I2 :> B) @@ (I1 :> hi) @@ @,
                !.refs = (I2 :> <<>>) @@ (S1 :> a) @@ (S2 :> b) @@ (C1 :> <<P1>>) @@ @,
                !.impls = (I2 :> <<S2>>) @@ (I1 :> i) @@ @,
                !.found = MCDTypes, !.roots = {},
                !.joined = [x \in MCPackages \X MCDTypes |-> x]] :
     a \in {<<S2, I1>>, <<C1, P1>>}, b \in {<<>>, <<I1, S1>>},
     i \in MCImplementers, hi \in {A, B}}

MCDJobs ==
  MCPrograms \cup
  \* The state file is old, holds a type that is gone, or is not used.
  {[j EXCEPT !.found = MCDTypes \ f, !.ids = m, !.hasState = st] :
     j \in MCPrograms, f \in {{}, {S2}, {P1}}, m \in {<<>>, (S2 :> 4) @@ (S1 :> 2)}, st \in {TRUE}} \cup
  {[j EXCEPT !.hasState = FALSE] : j \in MCPrograms} \cup
  \* The shim of P1 is recorded under the name of S2.
  {[j EXCEPT !.joined[<<A, P1>>] = <<S2>>] : j \in MCPrograms} \cup
  \* What the sources declare.
  {[j EXCEPT !.ignores = (B :> g) @@ @, !.shims = (B :> s) @@ @, !.hidden = h] :
     j \in MCPrograms, g \in {{}, {S2}}, s \in {{}, {P1}, {S1}}, h \in {{}, {S2}}}
=============================================================================
