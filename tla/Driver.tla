------------------------------- MODULE Driver -------------------------------
(***************************************************************************)
(* msgpgen/main.go: gen, and msgpcmd/cmd.go: FindIfaces.  One run of the   *)
(* program loads the state file, takes the types in it and the structs     *)
(* that implement the flagged interfaces as roots, extracts, and saves the *)
(* state.  Extractor is the extraction; what Generate does with its output *)
(* is in modules Generate and StateFile, where the state file can be lost. *)
(*                                                                         *)
(* A behaviour is a sequence of runs on sources that stay the same.  Each  *)
(* run starts where the one before has left the state file.                *)
(***************************************************************************)
EXTENDS Extractor, FiniteSets

CONSTANTS
  Flags,     \* the lists of -ifaces considered
  Scanned,   \* the sets of packages that -import has loaded
  MaxRuns    \* bound: runs of the program

ASSUME DriverAssumption ==
  /\ Flags \subseteq Seq(Types)
  /\ Scanned \subseteq SUBSET Packages
  /\ MaxRuns \in Nat
  /\ NoItem \notin Types

\* FindImplementers lists types that have values; a state file that a run has
\* written thus names no interface.
ASSUME ConcreteAssumption ==
  \A j \in Jobs :
    /\ \A i \in Types : \A t \in Range(j.impls[i]) : j.kind[t] # "interface"
    /\ \A t \in DOMAIN j.ids : j.kind[t] # "interface"

VARIABLES
  at,          \* where gen is
  given,       \* the arguments of the command
  flags,       \* the interfaces not yet searched for
  allNamed,    \* FindIfaces: the structs it has seen
  ifaceNamed,  \* FindIfaces: the interface it has found, NoItem before
  types,       \* the roots so far
  file,        \* State.Types in the state file
  runs,        \* runs begun
  good,        \* runs that have succeeded
  before       \* what the last of these has written, <<>> at first

extractorVars == vars
searchVars == <<flags, allNamed, ifaceNamed, types>>
driverVars == <<at, given, searchVars, file, runs, good, before>>
dvars == <<extractorVars, driverVars>>

\* generate.go:137, 226: the parts of a file are sorted. Of the order they came
\* in nothing is left, only how often each came.
sortOutput(parts) ==
  [t \in Range(parts) |-> Cardinality({n \in DOMAIN parts : parts[n] = t})]

\* What a run writes into each package: the definitions and directives in the
\* temporary file, and the mappers.
Written ==
  [defined |-> [p \in Packages |-> sortOutput(tempOutput[p])],
   directives |-> [p \in Packages |-> IF tempOutput[p] = <<>> THEN {} ELSE directives[p]],
   mappers |-> [p \in Packages |-> Range(extraOutput[p])]]

DInit ==
  /\ Init
  /\ at = "idle"
  /\ given \in [flags : Flags, scanned : Scanned]
  /\ flags = <<>> /\ allNamed = {} /\ ifaceNamed = NoItem /\ types = {}
  /\ file = job.ids
  /\ runs = 0 /\ good = 0
  /\ before = <<>>
----------------------------------------------------------------------------
\* LoadStateFromFile, and the types of the file that still exist.
Load ==
  /\ at = "idle"
  /\ runs < MaxRuns
  /\ runs' = runs + 1
  /\ at' = "ifaces"
  /\ flags' = given.flags
  /\ types' = IF job.hasState THEN DOMAIN file \cap job.found ELSE {}
  /\ UNCHANGED <<extractorVars, given, allNamed, ifaceNamed, file, good, before>>

\* The structs of the packages that were imported.
Structs == {t \in job.found : job.kind[t] = "struct" /\ Home(t) \in given.scanned}

\* go list, the name of an interface, or the state file: refused.
LoadFails ==
  /\ at = "idle"
  /\ runs < MaxRuns
  /\ runs' = runs + 1
  /\ at' = "failed"
  /\ UNCHANGED <<extractorVars, given, searchVars, file, good, before>>

\* Whether a search finds interface i.
Present(i) == i \in job.found /\ job.kind[i] = "interface" /\ Home(i) \in given.scanned

\* Bug: every named type is a candidate, interfaces too.
FindIfaceAmongAll ==
  LET named == {t \in job.found : Home(t) \in given.scanned}
      iface == IF Present(Head(flags)) THEN Head(flags) ELSE ifaceNamed
  IN /\ at = "ifaces"
     /\ flags # <<>>
     /\ ifaceNamed' = iface
     /\ allNamed' = named
     /\ flags' = Tail(flags)
     /\ IF iface = NoItem
          THEN at' = "failed" /\ UNCHANGED types
          ELSE types' = types \cup (Range(job.impls[iface]) \cap named) \cup {iface} /\ UNCHANGED at
     /\ UNCHANGED <<extractorVars, given, file, runs, good, before>>

\* Bug: the interface found first is kept.
FindIfaceFirst ==
  LET iface == IF Present(Head(flags)) /\ ifaceNamed = NoItem THEN Head(flags) ELSE ifaceNamed
  IN /\ at = "ifaces"
     /\ flags # <<>>
     /\ ifaceNamed' = iface
     /\ allNamed' = allNamed \cup Structs
     /\ flags' = Tail(flags)
     /\ IF iface = NoItem
          THEN at' = "failed" /\ UNCHANGED types
          ELSE types' = types \cup (Range(job.impls[iface]) \cap allNamed') /\ UNCHANGED at
     /\ UNCHANGED <<extractorVars, given, file, runs, good, before>>

\* One turn of FindIfaces: its two variables keep what the turn before has
\* found, so that only the first interface is ever missed.
FindIface ==
  LET iface == IF Present(Head(flags)) THEN Head(flags) ELSE ifaceNamed
  IN /\ at = "ifaces"
     /\ flags # <<>>
     /\ ifaceNamed' = iface
     /\ allNamed' = allNamed \cup Structs
     /\ flags' = Tail(flags)
     /\ IF iface = NoItem
          THEN at' = "failed" /\ UNCHANGED types
          ELSE types' = types \cup (Range(job.impls[iface]) \cap allNamed') /\ UNCHANGED at
     /\ UNCHANGED <<extractorVars, given, file, runs, good, before>>

\* "no types found in -ifaces or -state"
NoTypes ==
  /\ at = "ifaces"
  /\ flags = <<>>
  /\ types = {}
  /\ at' = "failed"
  /\ UNCHANGED <<extractorVars, given, searchVars, file, runs, good, before>>

\* Generate is called with the roots and the state.
CallGenerate ==
  /\ at = "ifaces"
  /\ flags = <<>>
  /\ types # {}
  /\ at' = "extract"
  /\ job' = [job EXCEPT !.roots = types, !.ids = file]
  /\ rootsLeft' = types
  /\ phase' = "roots"
  /\ LoadState(file)
  /\ UNCHANGED <<cur, todo, outVars, ifaceVars, queueVars, dctvVars,
                 given, searchVars, file, runs, good, before>>

\* A step of the extraction.
Extract ==
  /\ at = "extract"
  /\ phase \in Running
  /\ Next
  /\ UNCHANGED driverVars

\* The process ends: nothing of it is left but the files.
Forget ==
  /\ job' = [job EXCEPT !.roots = {}, !.ids = <<>>]
  /\ phase' = "roots" /\ rootsLeft' = {} /\ cur' = NoItem /\ todo' = <<>>
  /\ tempRendered' = {}
  /\ tempOutput' = [p \in Packages |-> <<>>]
  /\ extraOutput' = [p \in Packages |-> <<>>]
  /\ ifaces' = {}
  /\ inPackages' = [i \in Types |-> <<>>]
  /\ mapped' = [i \in Types |-> 0]
  /\ contents' = <<>> /\ seenItems' = {}
  /\ cached' = {} /\ directives' = [p \in Packages |-> {}]
  /\ LoadState(<<>>)
  /\ flags' = <<>> /\ allNamed' = {} /\ ifaceNamed' = NoItem /\ types' = {}

\* Bug: the state is saved as it was loaded.
SaveOld ==
  /\ at = "extract"
  /\ phase = "done"
  /\ at' = "idle"
  /\ good' = good + 1
  /\ before' = Written
  /\ Forget
  /\ UNCHANGED <<given, file, runs>>

\* Bug: only the types that are new are saved.
SaveNew ==
  /\ at = "extract"
  /\ phase = "done"
  /\ at' = "idle"
  /\ file' = [t \in DOMAIN ids \ DOMAIN file |-> ids[t]]
  /\ good' = good + 1 /\ before' = Written
  /\ Forget
  /\ UNCHANGED <<given, runs>>

\* SaveToFile; without -state there is no file.
Save ==
  /\ at = "extract"
  /\ phase = "done"
  /\ at' = "idle"
  /\ file' = IF job.hasState THEN ids ELSE file
  /\ good' = good + 1
  /\ before' = Written
  /\ Forget
  /\ UNCHANGED <<given, runs>>

\* Any error on the way ends the run, and the state is not saved.
GiveUp ==
  /\ at = "failed" \/ (at = "extract" /\ phase \in {"error", "panic"})
  /\ at' = "idle"
  /\ Forget
  /\ UNCHANGED <<given, file, runs, good, before>>

DNext ==
  \/ Load \/ LoadFails \/ FindIface \/ NoTypes
  \/ CallGenerate \/ Extract \/ Save \/ GiveUp

DSpec == DInit /\ [][DNext]_dvars
----------------------------------------------------------------------------
\* TypeOK of the extraction is part of it: the driver keeps what JobsAssumption
\* asks of its callers, that no root is an interface and that IDs are unique.
DriverTypeOK ==
  /\ TypeOK
  /\ at \in {"idle", "ifaces", "failed", "extract"}
  /\ flags \in Seq(Types)
  /\ allNamed \cup types \subseteq Types
  /\ ifaceNamed \in Types \cup {NoItem}
  /\ DOMAIN file \subseteq Types
  /\ good \in 0..runs /\ runs \in 0..MaxRuns
  /\ before = <<>> \/ DOMAIN before = DOMAIN Written

\* The roots are the types of the state file that exist and the structs of the
\* imported packages that implement a flagged interface (msgpcmd/cmd.go:48):
\* the search goes on with what it found for the flag before, and still adds
\* nothing else.  It ends the run for the first flag alone (cmd.go:55, 81).
RootsRight ==
  at = "extract" =>
    /\ job.roots =
         {t \in job.found :
            \/ job.hasState /\ t \in DOMAIN file
            \/ t \in Structs /\ \E i \in Range(given.flags) :
                                  Present(i) /\ t \in Range(job.impls[i])}
    /\ given.flags # <<>> => Present(given.flags[1])

RerunDone == at = "extract" /\ phase = "done" /\ good > 0
NoShims == \A p \in Packages : \A t \in job.shims[p] : job.kind[t] # "struct"

\* The text under which a use is rendered tells what type it is of.
KeysApart ==
  \A x, y \in TypeQueueItem :
    {job.kind[x.type], job.kind[y.type]} \subseteq {"struct", "compound", "shimmable"} =>
      (RenderKey(x) = RenderKey(y) => x.type = y.type)

\* The switches of a set of mappers, with the shims in them but for those of
\* primitive types.
Switches(ms) ==
  {[iface |-> m.iface, types |-> m.types,
    shimmed |-> {t \in m.shimmed : job.kind[t] # "shimmable"}] : m \in ms}

\* The implementers over a primitive are in packages that were imported.
PrimitivesFound ==
  \A i \in Types : \A t \in Range(job.impls[i]) : job.kind[t] = "shimmable" => t \in job.found

\* A run on the same sources gives no type a new ID and changes no mapper but in
\* which primitives it casts: the shim of one goes to the package that comes
\* first.  It defines all that the run before has defined, and beyond that only
\* primitive implementers, in their own packages.  They have become roots through
\* the state file (main.go:69).  One that was not imported does not become a
\* root: where it is defined depends on which package comes first to an interface
\* it implements.  Shims of structs apart, which hide a struct from whoever comes
\* later, and keys that two types share, which do so too.
RerunKeeps ==
  RerunDone /\ NoShims /\ KeysApart =>
    /\ ids = file
    /\ \A p \in Packages :
         /\ Switches(Written.mappers[p]) = Switches(before.mappers[p])
         /\ \A t \in DOMAIN before.defined[p] \ DOMAIN Written.defined[p] :
              job.kind[t] = "shimmable" /\ t \notin job.found
         /\ \A t \in DOMAIN Written.defined[p] \ DOMAIN before.defined[p] :
              job.kind[t] = "shimmable" /\ t \in DOMAIN file

\* What the state file adds to the roots has settled with the second success:
\* further runs write the same definitions, each as often, and the same
\* switches, in whatever order the roots come (main.go:69 ranges over a map).
\* Not the same directives, although "consistent output ordering of temporary
\* file should hopefully yield consistent generated code" (generate.go:135): the
\* shim of a primitive implementer goes to the package that comes first, and
\* the cast in the mapper with it.  Where such an implementer was not imported,
\* its definition moves in the same way.
Settles ==
  RerunDone /\ NoShims /\ KeysApart /\ PrimitivesFound /\ good > 1 =>
    /\ Written.defined = before.defined
    /\ \A p \in Packages :
         /\ Switches(Written.mappers[p]) = Switches(before.mappers[p])
         /\ \A d \in (Written.directives[p] \cup before.directives[p])
                       \ (Written.directives[p] \cap before.directives[p]) :
              /\ d = Generated("shim", d.type)
              /\ \E i \in Types : d.type \in Range(job.impls[i])
=============================================================================
