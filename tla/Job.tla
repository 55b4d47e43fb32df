-------------------------------- MODULE Job --------------------------------
(***************************************************************************)
(* What one call of Generate is given: the Go program under generation, as *)
(* structer's TypePackageSet and go/types describe it (external to this    *)
(* repository), the directives its packages declare, the loaded state file *)
(* and the Config.  A job is a value; a behaviour of the generator picks   *)
(* one member of Jobs in its initial state and never changes it.           *)
(***************************************************************************)
EXTENDS Names, Integers, Sequences, Functions

CONSTANT Jobs   \* the inputs considered

(***************************************************************************)
(* The branches of extract's dispatch on a queued type (extractor.go:54):  *)
(*   direct       its string is a key of msgp's table of primitives        *)
(*   struct       a named struct                                           *)
(*   shimmable    a named type over a primitive, not an interface          *)
(*   compound     a named array, slice, map or channel                     *)
(*   interface    a named interface                                        *)
(*   unsupported  everything else (func types, uintptr, error): a panic    *)
(***************************************************************************)
Kinds == {"direct", "struct", "shimmable", "compound", "interface", "unsupported"}

(***************************************************************************)
(* refs[t]: the named and basic types a walk of t's underlying type visits *)
(* in order, not looking inside named types; nothing for a shimmable type  *)
(* unless it is over []byte, as the visitor walks slices alone. impls[i]:  *)
(* what FindImplementers finds, in the order of SortedKeys. hidden: the    *)
(* types skipped as implementers, unexported or in a main package. user:   *)
(* the packages whose kind is structer.UserPackage. shims, ignores: the    *)
(* //msgp:shim and //msgp:ignore comments of each package. ids:            *)
(* State.Types as loaded. private: the types that are not exported.        *)
(* joined: the text "<package>/<type>" under which the shim of a type for  *)
(* a package is recorded, the pair unless the text is also the name of a   *)
(* type ("x/time.Duration" of a package x/time) or the text of another     *)
(* pair.                                                                   *)
(***************************************************************************)
JobFields ==
  {"kind", "home", "refs", "impls", "hidden", "user", "shims", "ignores",
   "roots", "found", "hasState", "ids", "allowExtra", "private", "joined", "Unexported"}

\* The keys of tempRendered: names of types, and packages joined with them.
Keys == {<<t>> : t \in Types} \cup (Packages \X Types)

JobTypeOK(j) ==
  /\ DOMAIN j = JobFields
  /\ j.kind \in [Types -> Kinds]
  /\ j.home \in [Types -> Packages]
  /\ j.refs \in [Types -> Seq(Types)]
  /\ j.impls \in [Types -> Seq(Types)]
  /\ j.hidden \subseteq Types
  /\ j.user \subseteq Packages
  /\ j.shims \in [Packages -> SUBSET Types]
  /\ j.ignores \in [Packages -> SUBSET Types]
  /\ j.roots \subseteq Types
  /\ j.found \subseteq Types
  /\ j.hasState \in BOOLEAN
  /\ DOMAIN j.ids \subseteq Types
  /\ j.ids \in [DOMAIN j.ids -> Int]
  /\ j.allowExtra \in BOOLEAN
  /\ j.private \subseteq Types
  /\ j.joined \in [Packages \X Types -> Keys]
  /\ j.Unexported \in BOOLEAN

(***************************************************************************)
(* What the callers guarantee of a job: main.gen queues the structs of     *)
(* FindIfaces and the implementers in the state file, none an interface;   *)
(* State.Init has refused a state file that gives one ID to two types. A   *)
(* []byte refers to byte alone. A type is no implementer unless it is      *)
(* exported, and the text joined from a package and it is longer than its  *)
(* name and tells the packages apart.                                      *)
(***************************************************************************)
WellFormed(j) ==
  /\ \A t \in j.roots : j.kind[t] # "interface"
  /\ \A s, t \in DOMAIN j.ids : j.ids[s] = j.ids[t] => s = t
  /\ \A t \in Types :
       j.kind[t] = "shimmable" => \A r \in Range(j.refs[t]) : j.kind[r] = "direct"
  /\ j.private \subseteq j.hidden
  /\ \A p \in Packages, t \in Types :
       /\ j.joined[<<p, t>>] # <<t>>
       /\ \A q \in Packages : j.joined[<<p, t>>] = j.joined[<<q, t>>] => p = q

ASSUME JobsAssumption == \A j \in Jobs : JobTypeOK(j) /\ WellFormed(j)
=============================================================================
