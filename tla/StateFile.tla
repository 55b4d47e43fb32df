----------------------------- MODULE StateFile -----------------------------
(***************************************************************************)
(* msgpgen/main.go:gen with state.go: a run loads the state file, gives an *)
(* ID to each implementer that has none, puts the mappers of the packages  *)
(* it has reached in place and only then saves the state.  The others keep *)
(* the output that an earlier run gave them.  Runs follow each other over  *)
(* the same files; they fail, and they are killed.                         *)
(*                                                                         *)
(* The order in which the types get their IDs is that of the type queue,   *)
(* which starts from the order of a Go map: any order.                     *)
(***************************************************************************)
EXTENDS State, FiniteSets

CONSTANT MaxEdits   \* bound: changes of the sources

ASSUME MaxEditsAssumption == MaxEdits \in Nat

VARIABLES
  impls,      \* the implementers in the sources; without any, gen refuses
  edits,
  file,       \* the state file: what it says, and whether it is cut short
  phase,
  todo,       \* types that extraction has not reached yet
  reached,    \* the packages that get a mapper in the current or last run
  toPublish,  \* those whose output is not yet in place
  published,  \* per package: the IDs in its mapper
  wire,       \* history: every (type, ID) pair that was ever put in place
  lost,       \* history: a run began from a file that lacks one of these
  result

fileVars == <<impls, edits, file, published, wire, lost>>
vars == <<stateVars, fileVars, phase, todo, reached, toPublish, result>>

Graph(m) == {<<t, m[t]>> : t \in DOMAIN m}
NoIDs == [t \in {} |-> 0]

\* A file that does not exist is loaded as one without types.
Init ==
  /\ ids = NoIDs
  /\ nextID = 1
  /\ impls \in (SUBSET Types) \ {{}}
  /\ edits = 0
  /\ file = [torn |-> FALSE, types |-> NoIDs]
  /\ phase = "idle"
  /\ todo = {}
  /\ reached = {}
  /\ toPublish = {}
  /\ published = [p \in Packages |-> NoIDs]
  /\ wire = {}
  /\ lost = FALSE
  /\ result = "none"

Edit ==
  /\ phase = "idle"
  /\ edits < MaxEdits
  /\ edits' = edits + 1
  /\ impls' \in (SUBSET Types) \ {{}}
  /\ UNCHANGED <<stateVars, file, published, wire, lost, phase, todo, reached, toPublish, result>>

\* The user removes a state file that no run can read any more.
RemoveFile ==
  /\ phase = "idle"
  /\ file.torn
  /\ file' = [torn |-> FALSE, types |-> NoIDs]
  /\ result' = "none"
  /\ UNCHANGED <<stateVars, impls, edits, published, wire, lost, phase, todo, reached, toPublish>>

\* LoadStateFromFile: a file cut short is no JSON, and the run ends there.
\* Which packages the run reaches, as importing the interface or as declaring
\* it, depends on the flags -import and -iface and on the sources.
Load ==
  /\ phase = "idle"
  /\ IF file.torn
       THEN /\ result' = "unreadable"
            /\ UNCHANGED <<stateVars, phase, todo, reached, toPublish, lost>>
       ELSE /\ LoadState(file.types)
            /\ phase' = "extract"
            /\ reached' \in SUBSET Packages
            /\ todo' = IF reached' = {} THEN {} ELSE impls
            /\ toPublish' = reached'
            /\ lost' = (lost \/ ~(wire \subseteq Graph(file.types)))
            /\ result' = "running"
  /\ UNCHANGED <<impls, edits, file, published, wire>>

Assign(t) ==
  /\ phase = "extract"
  /\ t \in todo
  /\ EnsureType(t)
  /\ todo' = todo \ {t}
  /\ UNCHANGED <<fileVars, phase, reached, toPublish, result>>

Extracted ==
  /\ phase = "extract"
  /\ todo = {}
  /\ phase' = "publish"
  /\ UNCHANGED <<stateVars, fileVars, todo, reached, toPublish, result>>

\* Bug: a package that has an output keeps it.
PublishNew(p) ==
  /\ phase = "publish"
  /\ p \in toPublish
  /\ toPublish' = toPublish \ {p}
  /\ published' = IF DOMAIN published[p] = {}
                    THEN [published EXCEPT ![p] = [t \in impls |-> ids[t]]]
                    ELSE published
  /\ wire' = wire \cup Graph(published'[p])
  /\ UNCHANGED <<stateVars, impls, edits, file, lost, phase, todo, reached, result>>

\* One rename of Generate's loop of moves.
Publish(p) ==
  /\ phase = "publish"
  /\ p \in toPublish
  /\ toPublish' = toPublish \ {p}
  /\ published' = [published EXCEPT ![p] = [t \in impls |-> ids[t]]]
  /\ wire' = wire \cup Graph(published'[p])
  /\ UNCHANGED <<stateVars, impls, edits, file, lost, phase, todo, reached, result>>

\* SaveToFile opens the file with O_TRUNC ...
Truncate ==
  /\ phase = "publish"
  /\ toPublish = {}
  /\ phase' = "save"
  /\ file' = [torn |-> TRUE, types |-> NoIDs]
  /\ UNCHANGED <<stateVars, impls, edits, published, wire, lost, todo, reached, toPublish, result>>

\* ... and writes it; a write that fails is not reported, because the
\* deferred function puts the error of Close in its place.
Write ==
  /\ phase = "save"
  /\ phase' = "idle"
  /\ file' \in {file, [torn |-> FALSE, types |-> ids]}
  /\ result' = "ok"
  /\ UNCHANGED <<stateVars, impls, edits, published, wire, lost, todo, reached, toPublish>>

\* Generate or the opening of the file fails: nothing is saved.
Fail ==
  /\ phase \in {"extract", "publish"}
  /\ phase' = "idle"
  /\ result' = "failed"
  /\ UNCHANGED <<stateVars, fileVars, todo, reached, toPublish>>

Crash ==
  /\ phase # "idle"
  /\ phase' = "idle"
  /\ result' = "crashed"
  /\ UNCHANGED <<stateVars, fileVars, todo, reached, toPublish>>

Next ==
  \/ Edit \/ RemoveFile \/ Load \/ Extracted \/ Truncate \/ Write \/ Fail \/ Crash
  \/ \E t \in Types : Assign(t)
  \/ \E p \in Packages : Publish(p)

Spec == Init /\ [][Next]_vars
----------------------------------------------------------------------------
IsIDs(m) == DOMAIN m \subseteq Types /\ \A t \in DOMAIN m : m[t] \in Nat \ {0}

TypeOK ==
  /\ IsIDs(ids)
  /\ nextID \in Nat \ {0}
  /\ impls \subseteq Types
  /\ edits \in 0..MaxEdits
  /\ DOMAIN file = {"torn", "types"}
  /\ file.torn \in BOOLEAN
  /\ IsIDs(file.types)
  /\ phase \in {"idle", "extract", "publish", "save"}
  /\ todo \subseteq Types
  /\ {reached, toPublish} \subseteq SUBSET Packages
  /\ DOMAIN published = Packages
  /\ \A p \in Packages : IsIDs(published[p])
  /\ wire \subseteq Types \X (Nat \ {0})
  /\ lost \in BOOLEAN
  /\ result \in {"none", "running", "ok", "failed", "crashed", "unreadable"}

\* Messages written by any generated code can be read by any later one: over
\* all runs a type has one ID and an ID one type, as long as no run begins
\* from a state file that lacks an ID already in use.
WireStableUnlessLost ==
  ~lost => \A x, y \in wire : x[1] = y[1] <=> x[2] = y[2]

\* After a run that succeeds all packages give the same type the same ID, so
\* that one can read what another writes, also those that this run has not
\* reached and that run on what earlier ones gave them.  Once IDs have been
\* lost that holds of the packages the run has reached.
PackagesAgree ==
  phase = "idle" /\ result = "ok" =>
    \A p, q \in Packages :
      (lost => {p, q} \subseteq reached) =>
        \A s \in DOMAIN published[p], t \in DOMAIN published[q] :
          s = t <=> published[p][s] = published[q][t]

\* extractor.go:345: "Every interface type needs a stable ID in the state
\* file": an ID that was put in place is never another type's, nor the type
\* another's.
WireStable == \A x, y \in wire : x[1] = y[1] <=> x[2] = y[2]
=============================================================================
