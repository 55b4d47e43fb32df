---------------------------- MODULE MCExtractor ----------------------------
(***************************************************************************)
(* A small program: structs S1 (package A) and S2 (package B), a primitive *)
(* type P1, a compound C1, an interface I1, a type msgp knows, one nobody  *)
(* supports.  Packages A and B are the user's, V is vendored.              *)
(***************************************************************************)
EXTENDS Extractor, TLC

CONSTANTS S1, S2, P1, C1, I1, D1, U1, A, B, V

MCTypes == {S1, S2, P1, C1, I1, D1, U1}
MCPackages == {A, B, V}

MCKind == (S1 :> "struct") @@ (S2 :> "struct") @@ (P1 :> "shimmable") @@
  (C1 :> "compound") @@ (I1 :> "interface") @@ (D1 :> "direct") @@ (U1 :> "unsupported")

MCHome == (S1 :> A) @@ (S2 :> B) @@ (P1 :> A) @@ (C1 :> B) @@ (I1 :> A) @@
  (D1 :> V) @@ (U1 :> V)

Base ==
  [kind |-> MCKind, home |-> MCHome,
   refs |-> [t \in MCTypes |-> <<>>], impls |-> [t \in MCTypes |-> <<>>],
   hidden |-> {}, user |-> {A, B},
   shims |-> [p \in MCPackages |-> {}], ignores |-> [p \in MCPackages |-> {}],
   roots |-> {S1}, found |-> MCTypes,
   hasState |-> TRUE, ids |-> <<>>, allowExtra |-> FALSE,
   private |-> {}, joined |-> [x \in MCPackages \X MCTypes |-> x], Unexported |-> FALSE]

(***************************************************************************)
(* Who refers to what: fields of both structs and of the compound, types   *)
(* that implement the interface, places where P1, C1 and I1 are declared.  *)
(* No compound refers to itself.                                           *)
(***************************************************************************)
GraphJobs ==
  {[Base EXCEPT !.refs = (S1 :> a) @@ (S2 :> b) @@ (C1 :> c) @@ (P1 :> <<D1>>) @@ @,
                !.impls[I1] = i, !.home = (P1 :> hp) @@ (C1 :> hc) @@ (I1 :> hi) @@ @] :
     a \in {<<S1>>, <<S1, S2>>, <<C1, S2>>, <<I1, P1>>, <<D1, C1>>},
     b \in {<<>>, <<S1, I1>>, <<P1, C1>>},
     c \in {<<S2>>, <<I1, P1>>},
     i \in {<<S2>>, <<P1, S2>>, <<S1, C1>>},
     hp \in {A, V}, hc \in {A, B}, hi \in {A, B}}

(***************************************************************************)
(* What the user declares: shims of S2 in either package, ignores of S2    *)
(* and C1 by the package that declares them, roots in both packages.       *)
(***************************************************************************)
DirectiveJobs ==
  {[Base EXCEPT !.refs = (S1 :> a) @@ (C1 :> <<P1>>) @@ @,
                !.impls[I1] = <<S2, C1>>, !.hidden = h,
                !.shims = (A :> sa) @@ (B :> sb) @@ @, !.ignores[B] = g,
                !.roots = {S1, S2}, !.allowExtra = TRUE] :
     a \in {<<S2, C1>>, <<I1>>, <<C1, I1, S2>>},
     h \in {{}, {S2}},
     sa \in {{}, {S2}}, sb \in {{}, {S2, P1}},
     g \in {{}, {C1}, {S2, C1}}}

\* The state file: none, or one that has given IDs with gaps.
StateJobs ==
  {[Base EXCEPT !.refs = (S1 :> <<I1>>) @@ @, !.impls[I1] = <<S1, S2, P1>>,
                !.hidden = h, !.hasState = b, !.ids = m, !.roots = {S1, P1, D1}] :
     h \in {{}, {S1}}, b \in BOOLEAN,
     m \in {<<>>, S1 :> 7, (S2 :> 1) @@ (S1 :> 3), (S2 :> 2) @@ (P1 :> -1)}}

\* What ends the run early: types that cannot be found, extracted or served.
ErrorJobs ==
  {[Base EXCEPT !.refs = (S1 :> <<S2, t>>) @@ @, !.user = u, !.found = f,
                !.roots = {S1, S2}] :
     t \in {U1, C1}, u \in {{A, B}, {A}, {}}, f \in {MCTypes, MCTypes \ {S2}}}

\* Structs that are not exported, with the flag -unexported or without.
PrivateJobs ==
  {[Base EXCEPT !.refs = (S1 :> a) @@ (S2 :> b) @@ @, !.impls[I1] = <<S1, S2>>,
                !.private = v, !.hidden = v, !.Unexported = u] :
     a \in {<<I1>>, <<S2, I1>>}, b \in {<<>>, <<I1>>},
     v \in {{S1}, {S2}, {S1, S2}}, u \in BOOLEAN}

\* The shim of P1 for package A is recorded under the name of S2 or of C1;
\* the shims of two primitive types for two packages, under one text.
KeyJobs ==
  {[Base EXCEPT !.refs = (S1 :> a) @@ (C1 :> <<S2>>) @@ @, !.impls[I1] = i,
                !.joined[<<A, P1>>] = <<n>>] :
     a \in {<<P1, S2, C1>>, <<S2, P1>>, <<C1, I1, P1>>, <<P1, I1>>},
     i \in {<<P1, S2>>, <<S2, C1, P1>>}, n \in {S2, C1}} \cup
  {[Base EXCEPT !.kind[U1] = "shimmable", !.refs = (S1 :> a) @@ (S2 :> b) @@ @,
                !.joined[<<B, U1>>] = <<A, P1>>] :
     a \in {<<P1, S2>>, <<S2, P1>>}, b \in {<<U1>>, <<P1, U1>>}}

MCJobs == GraphJobs \cup DirectiveJobs \cup StateJobs \cup ErrorJobs \cup
  PrivateJobs \cup KeyJobs
=============================================================================
