----------------------------- MODULE Directives -----------------------------
(***************************************************************************)
(* directives.go: the //msgp: directives of each package, read from its    *)
(* sources when the package is first asked for and kept in a cache, to     *)
(* which the extractor then adds its own.  The maps shim, ignore, ... of   *)
(* Directives index the list of directives and are read through Declares.  *)
(***************************************************************************)
EXTENDS Names

VARIABLES
  cached,      \* the keys of DirectivesCache.pkgDirectives
  directives   \* the directives of each cached package

dctvVars == <<cached, directives>>

Directive ==
  [dir : {"shim", "ignore", "intercept", "tuple", "allowextra"},
   type : Types,
   by : {"source", "msgpgen"}]

NewDirectivesCache == cached = {} /\ directives = [p \in Packages |-> {}]

Declares(ds, d, t) == \E x \in ds : x.dir = d /\ x.type = t

Generated(d, t) == [dir |-> d, type |-> t, by |-> "msgpgen"]

\* What Ensure(p) returns; src[p] is what the sources of p declare.
DirectivesOf(p, src) == IF p \in cached THEN directives[p] ELSE src[p]

\* Ensure each package of ps, then add the directives ds to package p of ps.
EnsureAndAdd(ps, src, p, ds) ==
  /\ cached' = cached \cup ps
  /\ directives' = [q \in Packages |->
       (IF q \in ps THEN DirectivesOf(q, src) ELSE directives[q])
         \cup (IF q = p THEN ds ELSE {})]

Ensure(ps, src) ==
  /\ cached' = cached \cup ps
  /\ directives' = [q \in Packages |->
       IF q \in ps THEN DirectivesOf(q, src) ELSE directives[q]]
=============================================================================
