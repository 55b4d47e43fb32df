----------------------------- MODULE MCDirecting -----------------------------
(***************************************************************************)
(* Two packages whose paths end alike and a package that is not called as  *)
(* its path ends, each with types of the same names; up to two comments.   *)
(***************************************************************************)
EXTENDS Directing

MCPackages == {"a/b", "x/b", "c.v1"}
MCPackageName == [p \in MCPackages |-> IF p = "c.v1" THEN "c" ELSE "b"]
MCBase == [p \in MCPackages |-> IF p = "c.v1" THEN "c.v1" ELSE "b"]
MCTypes == [pkg : MCPackages, name : {"X", "Y"}]

AX == [pkg |-> "a/b", name |-> "X"]
AY == [pkg |-> "a/b", name |-> "Y"]
XX == [pkg |-> "x/b", name |-> "X"]
CX == [pkg |-> "c.v1", name |-> "X"]

Line(d, ws) == [dir |-> d, words |-> ws]
As == KeyValue("as", <<<<"string">>>>)
Using == KeyValue("using", <<<<"to">>, <<"from">>>>)

MCLines ==
  {Line("ignore", <<Arg(<<"X">>)>>),
   Line("ignore", <<Arg(<<"a/b", "X">>), Arg(<<"Y">>)>>),
   Line("ignore", <<Arg(<<"x/b", "X">>)>>),
   Line("ignore", <<Arg(<<"b", "X">>)>>),
   Line("tuple", <<Arg(<<"Y">>), As>>),
   Line("allowextra", <<>>),
   Line("intercept", <<Arg(<<"x/b", "Y">>), Using>>),
   Line("intercept", <<Arg(<<"X">>), As>>),
   Line("shim", <<Arg(<<"c.v1", "X">>), As, Using>>),
   Line("shim", <<Using, As, KeyValue("as", <<<<"int">>>>), Arg(<<"Y">>),
                  KeyValue("mode", Convert)>>),
   Line("shim", <<Arg(<<"Y">>), As, Using, KeyValue("mode", <<<<"other">>>>)>>),
   Line("shim", <<Arg(<<"Y">>), As, KeyValue("using", <<<<"to">>>>)>>),
   Line("shim", <<Arg(<<"Y">>), KeyValue("invalid", <<>>)>>),
   Line("other", <<>>)}

MCComments ==
  {<<>>} \cup {<<m>> : m \in MCLines} \cup {<<m, n>> : m, n \in MCLines}

Use(t, text) == [type |-> t, text |-> text]

\* What the package defines and names: by the names of packages, and by others.
MCExtracted ==
  {[structs |-> {AY}, primitives |-> <<XX, AX>>, ifaces |-> <<AX>>, seen |-> MCTypes,
    uses |-> {Use(AX, <<"X">>), Use(XX, <<"b", "X">>), Use(CX, <<"c", "X">>)}],
   [structs |-> {}, primitives |-> <<CX>>, ifaces |-> <<XX>>, seen |-> {XX, AY},
    uses |-> {Use(AX, <<"X">>), Use(AY, <<"Y">>), Use(XX, <<"other", "X">>)}],
   [structs |-> {AX}, primitives |-> <<>>, ifaces |-> <<>>, seen |-> {AX, AY},
    uses |-> {Use(AY, <<"Y">>), Use(XX, <<"b", "X">>), Use(CX, <<"c", "X">>)}]}

\* A package that names types of both the others, by one name.
MCAmbiguous ==
  [pkg |-> "c.v1", comments |-> <<>>, structs |-> {CX}, primitives |-> <<AY>>, ifaces |-> <<>>,
   allowExtra |-> FALSE, seen |-> {AX, AY, CX}, uses |-> {Use(AX, <<"b", "X">>), Use(XX, <<"b", "X">>)}]

MCInputs ==
  {[MCAmbiguous EXCEPT !.comments = c] : c \in MCComments} \cup
  {[pkg |-> "a/b", comments |-> c, structs |-> e.structs, primitives |-> e.primitives,
    ifaces |-> e.ifaces, allowExtra |-> TRUE, seen |-> e.seen, uses |-> e.uses] :
     c \in MCComments, e \in MCExtracted}
=============================================================================
