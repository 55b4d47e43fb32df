------------------------------ MODULE Directing ------------------------------
(***************************************************************************)
(* The directives of one package, from the comments of its sources to the  *)
(* temporary file and to the judgement of what msgp says of that file:     *)
(* directives.go: loadDirectives and add; the directives that extractor.go *)
(* adds; generate.go: the Build of each; msgp.go: checkMsgpOutput.         *)
(*                                                                         *)
(* Which types the extractor has queued, and how the definitions in the    *)
(* file name the types they refer to, is the value input (see Extractor).  *)
(* Of msgp (external): it may warn of any of these names, or of the field  *)
(* that has one, or say something else.                                    *)
(***************************************************************************)
EXTENDS DirectiveSyntax, FiniteSets

CONSTANTS
  Inputs,
  MaxLines   \* bound: the lines msgp prints

VARIABLES
  input,       \* what the behaviour is about
  phase,       \* where the program is, or how it ended
  left,        \* what is left of the loop that is running
  directives,  \* Directives.directives of the package
  lines,       \* the directives in the temporary file
  said,        \* the lines msgp has printed
  refused      \* those that checkMsgpOutput has not let pass

vars == <<input, phase, left, directives, lines, said, refused>>

\* pkg: the package; comments: its //msgp: comments; structs, primitives and
\* ifaces: what is extracted, shimmed and intercepted in it; allowExtra: that
\* of Config; seen: the names in TypeQueue.seenTypes; uses: the types its
\* definitions name, and how.
InputFields ==
  {"pkg", "comments", "structs", "primitives", "ifaces", "allowExtra", "seen", "uses"}

ASSUME InputsAssumption ==
  \A i \in Inputs :
    /\ DOMAIN i = InputFields
    /\ i.pkg \in Packages
    /\ i.comments \in Seq(ToSet(i.comments))
    /\ \A line \in ToSet(i.comments) : line.words \in Seq(ToSet(line.words))
    /\ i.primitives \in Seq(Types) /\ i.ifaces \in Seq(Types)
    /\ IsFiniteSet(i.structs)
    /\ i.allowExtra \in BOOLEAN
    /\ i.structs \cup i.seen \subseteq Types
    /\ \A u \in i.uses : u.type \in Types

ASSUME NamesAssumption == \A t \in Types : t.pkg \in Packages

ASSUME LinesAssumption == MaxLines \in Nat

pkg == input.pkg

Init ==
  /\ input \in Inputs
  /\ phase = "load"
  /\ left = input.comments
  /\ directives = <<>>
  /\ lines = <<>>
  /\ said = {}
  /\ refused = {}

\* One comment of a source; one that does not parse ends the run.
LoadDirective ==
  /\ phase = "load"
  /\ left # <<>>
  /\ IF Parse(Head(left)) = {}
       THEN phase' = "error" /\ UNCHANGED <<left, directives>>
       ELSE /\ \E d \in Parse(Head(left)) : directives' = Append(directives, d)
            /\ left' = Tail(left)
            /\ UNCHANGED phase
  /\ UNCHANGED <<input, lines, said, refused>>

Full(t) == <<t.pkg, t.name>>

\* extractShimmedSupported: cast to the underlying type and back.
Shim(t) ==
  [dir |-> "shim", types |-> <<Full(t)>>, as |-> <<<<"string">>>>,
   using |-> <<<<"string">>, FindImportedName(t, pkg)>>, mode |-> Cast]

\* extractNamedStruct, and the directive genIntercept returns.
Tuple(t) == [dir |-> "tuple", types |-> <<FindImportedName(t, pkg)>>]
AllowExtra(t) == [dir |-> "allowextra", types |-> <<FindImportedName(t, pkg)>>]
Intercept(t) == [dir |-> "intercept", types |-> <<Full(t)>>, using |-> <<<<"Interceptor">>>>]

\* What extractNamedStruct adds for each struct, in any order.
OfStructs ==
  {Tuple(t) : t \in input.structs} \cup
  {AllowExtra(t) : t \in {s \in input.structs : input.allowExtra}}

\* What the extractor adds after the package's own.
AddGenerated ==
  /\ phase = "load"
  /\ left = <<>>
  /\ directives' = directives
       \o SetToSeq(OfStructs)
       \o [i \in DOMAIN input.primitives |-> Shim(input.primitives[i])]
       \o [i \in DOMAIN input.ifaces |-> Intercept(input.ifaces[i])]
  /\ left' = directives'
  /\ phase' = "build"
  /\ UNCHANGED <<input, lines, said, refused>>

BuildDirective ==
  /\ phase = "build"
  /\ left # <<>>
  /\ IF Build(Head(left), pkg) = {}
       THEN phase' = "error" /\ UNCHANGED <<left, lines>>
       ELSE /\ \E line \in Build(Head(left), pkg) : lines' = Append(lines, line)
            /\ left' = Tail(left)
            /\ UNCHANGED phase
  /\ UNCHANGED <<input, directives, said, refused>>

\* A line by what checkMsgpOutput makes of it (msgp.go:107): "identifier" and
\* "ignored" are warnings, of an unresolved or non-local identifier and of a
\* field that is left out; "warning" is any other; "ok" is empty, green, or
\* says what msgp has written; "error" is red or nothing of these.
MsgpLines ==
  [level : {"identifier", "ignored"}, use : input.uses] \cup
  [level : {"ok", "warning", "error"}]

RunMsgp ==
  /\ phase = "build"
  /\ left = <<>>
  /\ \E n \in 0..MaxLines : left' \in [1..n -> MsgpLines]
  /\ said' = ToSet(left')
  /\ phase' = "check"
  /\ UNCHANGED <<input, directives, lines, refused>>

\* runMsgp returns an error, or msgp has written to stderr.
MsgpFails ==
  /\ phase = "build"
  /\ left = <<>>
  /\ phase' = "error"
  /\ UNCHANGED <<input, left, directives, lines, said, refused>>
----------------------------------------------------------------------------
\* What the directives dir of the package name, and the text under which a map
\* of Directives keeps the name: the last one.
Named(dir) ==
  {ParseLocalName(text, pkg) :
     text \in UNION {ToSet(d.types) : d \in {x \in ToSet(directives) : x.dir = dir}}}

Places(dir) ==
  UNION {{<<n, k>> : k \in DOMAIN directives[n].types} :
           n \in {m \in DOMAIN directives : directives[m].dir = dir}}

TextAt(x) == directives[x[1]].types[x[2]]
Later(x, y) == x[1] > y[1] \/ (x[1] = y[1] /\ x[2] > y[2])

Texts(dir) ==
  {TextAt(x) : x \in {y \in Places(dir) :
     \A z \in Places(dir) :
       ParseLocalName(TextAt(z), pkg) = ParseLocalName(TextAt(y), pkg) => ~Later(z, y)}}

\* Bug: of the full name of a type that was seen only the type is kept.
SeenByName == {<<t.name>> : t \in input.seen} \cup {<<Base[t.pkg], t.name>> : t \in input.seen}

\* generate.go:197
Seen == {<<Base[t.pkg], t.name>> : t \in input.seen}

\* Bug: the directives of the user are not looked at.
IsIgnoredSeen(line) ==
  \/ line.level = "identifier" /\ line.use.text \in Seen
  \/ line.level = "ignored"

\* isIgnoredUnresolved: of an identifier the text is looked up; a warning of a
\* field that is left out passes, whatever it is about (msgp.go:132).
IsIgnoredUnresolved(line) ==
  \/ /\ line.level = "identifier"
     /\ line.use.text \in Seen \cup Texts("ignore") \cup Texts("intercept")
  \/ line.level = "ignored"

\* checkMsgpOutput: what is let pass.
CheckWarning ==
  /\ phase = "check"
  /\ left # <<>>
  /\ Head(left).level = "ok" \/ IsIgnoredUnresolved(Head(left))
  /\ left' = Tail(left)
  /\ UNCHANGED <<input, phase, directives, lines, said, refused>>

\* checkMsgpOutput: the first line that is not let pass ends the run, with a
\* panic if it is a warning that isIgnoredUnresolved cannot read.
RefuseLine ==
  /\ phase = "check"
  /\ left # <<>>
  /\ Head(left).level # "ok" /\ ~IsIgnoredUnresolved(Head(left))
  /\ phase' = IF Head(left).level = "warning" THEN "panic" ELSE "error"
  /\ refused' = {Head(left)}
  /\ UNCHANGED <<input, left, directives, lines, said>>

Accept ==
  /\ phase = "check"
  /\ left = <<>>
  /\ phase' = "done"
  /\ UNCHANGED <<input, left, directives, lines, said, refused>>

Next ==
  \/ LoadDirective \/ AddGenerated \/ BuildDirective
  \/ RunMsgp \/ MsgpFails \/ CheckWarning \/ RefuseLine \/ Accept

Spec == Init /\ [][Next]_vars
----------------------------------------------------------------------------
TypeOK ==
  /\ input \in Inputs
  /\ phase \in {"load", "build", "check", "done", "error", "panic"}
  /\ \A i \in DOMAIN directives : directives[i].dir \in Lists \cup {"shim", "intercept"}
  /\ \A i \in DOMAIN directives :
       directives[i].dir = "shim" => directives[i].mode \in ShimModes
  /\ Len(lines) <= Len(directives)
  /\ refused \subseteq said /\ said \subseteq MsgpLines

\* Every directive of the user and of the extractor reaches msgp as it was
\* meant (directive.go): the line in the file is read as the same directive,
\* about types that have, in this package, the names it gives.
WrittenAsMeant ==
  \A i \in DOMAIN lines :
    \E read \in Parse(lines[i]) :
      /\ [read EXCEPT !.types = directives[i].types] = directives[i]
      /\ Len(read.types) = Len(directives[i].types)
      /\ \A k \in DOMAIN read.types :
           read.types[k] \in LocalImportName(ParseLocalName(directives[i].types[k], pkg), pkg)

\* What a warning of an identifier may be about (msgp.go:136): a type that the
\* extractor has taken care of, or that the package names in a directive.  Two
\* homonyms are taken for such a type: a type of another package, whose path
\* ends alike, and one that the sources call by what a directive calls another
\* (the identifier of an import may be the path of another, and an import may
\* be without a qualifier).
Expected(u) ==
  \/ u.type \in input.seen \cup Named("ignore") \cup Named("intercept")
  \/ \E t \in input.seen : u.text = <<Base[t.pkg], t.name>>
  \/ /\ ParseLocalName(u.text, pkg) # u.type
     /\ ParseLocalName(u.text, pkg) \in Named("ignore") \cup Named("intercept")
     /\ ParseLocalName(u.text, pkg).pkg \in Packages

\* A run that succeeds was told of no error and of no warning but of fields that
\* msgp leaves out, whatever they are (msgp.go:132 says that more should be
\* asked of these), and of identifiers that were expected: the maps by type,
\* in which a later directive takes the place of an earlier one, keep no text
\* under a type that it does not name.
WarningsExpected ==
  phase = "done" =>
    \A line \in said :
      \/ line.level \in {"ok", "ignored"}
      \/ line.level = "identifier" /\ Expected(line.use)

\* No warning ends the run that is about a type the extractor has taken care of
\* in another package, if the sources name it after the last part of its path;
\* or about a type that this package ignores, if its directives always name it
\* as its sources do.
NoFalseAlarm ==
  \A u \in input.uses :
    [level |-> "identifier", use |-> u] \in refused =>
      /\ u.type \in input.seen => u.text # <<Base[u.type.pkg], u.type.name>>
      /\ u.type \in Named("ignore") =>
           \E d \in ToSet(directives) : \E text \in ToSet(d.types) :
             ParseLocalName(text, pkg) = u.type /\ text # u.text
=============================================================================
