--------------------------- MODULE DirectiveSyntax ---------------------------
(***************************************************************************)
(* directive.go and util.go: a //msgp: comment is a directive and words,   *)
(* from which ParseDirective and Populate make a record and Build makes a  *)
(* comment again, with the names of types as one package writes them.      *)
(*                                                                         *)
(* A type is a package path and a name.  A text is what stands for it in a *)
(* source: <<name>>, or <<qualifier, name>>.  A word is a text, or a key   *)
(* with the texts between its slashes; a word that the two patterns refuse *)
(* has the key "invalid".  What may fail returns a set of one or none.     *)
(***************************************************************************)
EXTENDS Names, Sequences, SequencesExt, FiniteSets

CONSTANTS
  PackageName,   \* the name in the package clause, by package path
  Base           \* the last part of the path

Lists == {"ignore", "tuple", "allowextra"}
Cast == <<<<"cast">>>>
Convert == <<<<"convert">>>>
ShimModes == {Cast, Convert}

Arg(text) == [key |-> "", val |-> <<text>>]
KeyValue(k, v) == [key |-> k, val |-> v]

\* args and kval of ParseDirective: of two words with one key the last counts.
Args(line) ==
  LET plain == {n \in DOMAIN line.words : line.words[n].key = ""}
      nth(i) == CHOOSE n \in plain : Cardinality(plain \cap 1..n) = i
  IN [i \in 1..Cardinality(plain) |-> line.words[nth(i)].val[1]]

Keys(line) == {w.key : w \in ToSet(line.words)} \ {""}

Val(line, k) ==
  line.words[Max({n \in DOMAIN line.words : line.words[n].key = k})].val

Mode(line) == IF "mode" \in Keys(line) THEN Val(line, "mode") ELSE Cast

\* Bug: any mode will do.
AnyMode(line) == Len(Mode(line)) = 1

ModeKnown(line) == Mode(line) \in ShimModes

\* ParseDirective and the Populate of each directive.
Parse(line) ==
  CASE "invalid" \in Keys(line) -> {}
    [] line.dir \in Lists /\ Keys(line) = {} ->
         {[dir |-> line.dir, types |-> Args(line)]}
    [] line.dir = "intercept" /\ Len(Args(line)) = 1 /\ Keys(line) = {"using"} ->
         {[dir |-> "intercept", types |-> Args(line), using |-> Val(line, "using")]}
    [] /\ line.dir = "shim" /\ Len(Args(line)) = 1
       /\ {"as", "using"} \subseteq Keys(line) /\ Keys(line) \subseteq {"as", "using", "mode"}
       /\ ModeKnown(line) /\ Len(Val(line, "using")) = 2 ->
         {[dir |-> "shim", types |-> Args(line), as |-> Val(line, "as"),
           using |-> Val(line, "using"), mode |-> Mode(line)]}
    [] OTHER -> {}

\* structer.ParseLocalName
ParseLocalName(text, p) ==
  IF Len(text) = 1 THEN [pkg |-> p, name |-> text[1]] ELSE [pkg |-> text[1], name |-> text[2]]

\* structer.LocalImportName: it knows the packages that were imported.
LocalImportName(t, p) ==
  IF t.pkg = p THEN {<<t.name>>}
  ELSE {<<PackageName[q], t.name>> : q \in Packages \cap {t.pkg}}

\* findImportedName, of the full name of t.
FindImportedName(t, p) ==
  IF Base[t.pkg] = Base[p] THEN <<t.name>> ELSE <<Base[t.pkg], t.name>>

LocalTypes(d, p) ==
  LET local(i) == LocalImportName(ParseLocalName(d.types[i], p), p)
  IN IF \E i \in DOMAIN d.types : local(i) = {} THEN {}
     ELSE {[i \in DOMAIN d.types |-> Arg(CHOOSE text \in local(i) : TRUE)]}

\* Bug: the mode is left out.
OptionsWithoutMode(d) ==
  CASE d.dir = "intercept" -> <<KeyValue("using", d.using)>>
    [] d.dir = "shim" -> <<KeyValue("as", d.as), KeyValue("using", d.using)>>
    [] OTHER -> <<>>

Options(d) ==
  CASE d.dir = "intercept" -> <<KeyValue("using", d.using)>>
    [] d.dir = "shim" ->
         <<KeyValue("as", d.as), KeyValue("using", d.using), KeyValue("mode", d.mode)>>
    [] OTHER -> <<>>

\* The Build of each directive.
Build(d, p) == {[dir |-> d.dir, words |-> ts \o Options(d)] : ts \in LocalTypes(d, p)}
=============================================================================
