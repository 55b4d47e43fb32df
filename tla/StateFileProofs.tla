-------------------------- MODULE StateFileProofs --------------------------
(***************************************************************************)
(* Theorems about StateFile, for any types, packages and number of runs.   *)
(*                                                                         *)
(* A run works with the map ids, in which an ID has one type (IdsInv); all *)
(* it puts in place is cut out of ids (PublishedInv).  As long as nothing  *)
(* was lost, ids has all that was ever in place (WireInv), which includes  *)
(* the output of the packages that the run does not reach.                 *)
(***************************************************************************)
EXTENDS StateFile, TLAPS

Distinct(m) == \A s, t \in DOMAIN m : m[s] = m[t] => s = t

\* What State.Init and EnsureType keep.
IdsInv ==
  /\ Distinct(ids)
  /\ \A t \in DOMAIN ids : ids[t] < nextID
  /\ Distinct(file.types)

\* Extraction gives each implementer an ID, and what is in place of this run
\* says what ids says.
PublishedInv ==
  /\ phase = "extract" =>
       /\ reached # {} => impls \ todo \subseteq DOMAIN ids
       /\ toPublish = reached
  /\ phase \in {"publish", "save"} =>
       /\ toPublish \subseteq reached
       /\ reached # {} => impls \subseteq DOMAIN ids
       /\ \A p \in reached \ toPublish :
            /\ DOMAIN published[p] = impls
            /\ \A t \in impls : published[p][t] = ids[t]
  /\ phase = "save" => toPublish = {}
  /\ PackagesAgree

WireInv ==
  ~lost =>
    /\ WireStable
    /\ \A p \in Packages : Graph(published[p]) \subseteq wire
    /\ phase # "idle" => \A x \in wire : x[1] \in DOMAIN ids /\ x[2] = ids[x[1]]

Inv == TypeOK /\ IdsInv /\ PublishedInv /\ WireInv
----------------------------------------------------------------------------
LEMMA LoadKeepsIds ==
  ASSUME IsIDs(file.types), Distinct(file.types), LoadState(file.types)
  PROVE  /\ IsIDs(ids') /\ nextID' \in Nat \ {0}
         /\ Distinct(ids') /\ \A t \in DOMAIN ids' : ids'[t] < nextID'
<1>1. PICK max \in MaxID(file.types) : nextID' = max + 1
  BY DEF LoadState, NextIDPast
<1>2. max \in Nat /\ \A t \in DOMAIN file.types : file.types[t] <= max
  BY DEF MaxID, IsIDs
<1>3. ids' = file.types
  BY DEF LoadState
<1>4. \A t \in DOMAIN ids' : ids'[t] \in Nat \ {0} /\ ids'[t] <= max
  BY <1>2, <1>3 DEF IsIDs
<1>5. \A i \in Nat : i <= max => i < max + 1
  BY <1>2
<1> QED BY <1>1, <1>2, <1>3, <1>4, <1>5 DEF IsIDs, Distinct

LEMMA EnsureTypeKeepsIds ==
  ASSUME IsIDs(ids), nextID \in Nat \ {0}, Distinct(ids),
         \A t \in DOMAIN ids : ids[t] < nextID,
         NEW t \in Types, EnsureType(t)
  PROVE  /\ IsIDs(ids') /\ nextID' \in Nat \ {0}
         /\ Distinct(ids') /\ \A s \in DOMAIN ids' : ids'[s] < nextID'
         /\ DOMAIN ids' = DOMAIN ids \cup {t}
         /\ \A s \in DOMAIN ids : ids'[s] = ids[s]
<1>1. CASE t \in DOMAIN ids
  BY <1>1 DEF EnsureType, stateVars
<1>2. CASE t \notin DOMAIN ids
  <2>1. /\ DOMAIN ids' = DOMAIN ids \cup {t}
        /\ ids'[t] = nextID
        /\ \A s \in DOMAIN ids : ids'[s] = ids[s]
        /\ nextID' = nextID + 1
    BY <1>2 DEF EnsureType
  <2>2. \A s \in DOMAIN ids : ids[s] \in Nat \ {0} /\ ids[s] < nextID
    BY DEF IsIDs
  <2>3. IsIDs(ids')
    BY <2>1, <2>2 DEF IsIDs
  <2>4. Distinct(ids')
    BY <2>1, <2>2 DEF Distinct
  <2>5. \A s \in DOMAIN ids' : ids'[s] < nextID'
    BY <2>1, <2>2
  <2> QED BY <2>1, <2>3, <2>4, <2>5
<1> QED BY <1>1, <1>2
----------------------------------------------------------------------------
LEMMA InitInv == Init => Inv
<1> SUFFICES ASSUME Init PROVE Inv
  OBVIOUS
<1>1. DOMAIN NoIDs = {}
  BY DEF NoIDs
<1>2. IsIDs(NoIDs) /\ Distinct(NoIDs)
  BY <1>1 DEF IsIDs, Distinct
<1>3. file.types = NoIDs /\ \A p \in Packages : published[p] = NoIDs
  BY DEF Init
<1>4. DOMAIN file = {"torn", "types"} /\ file.torn \in BOOLEAN /\ lost \in BOOLEAN
  BY Zenon DEF Init
<1>5. TypeOK
  <2>1. /\ IsIDs(ids) /\ nextID \in Nat \ {0} /\ impls \subseteq Types /\ edits \in 0..MaxEdits
        /\ phase \in {"idle", "extract", "publish", "save"}
        /\ todo \subseteq Types /\ {reached, toPublish} \subseteq SUBSET Packages
        /\ DOMAIN published = Packages
        /\ wire \subseteq Types \X (Nat \ {0})
        /\ result \in {"none", "running", "ok", "failed", "crashed", "unreadable"}
    BY <1>2, MaxEditsAssumption DEF Init
  <2> QED BY <1>2, <1>3, <1>4, <2>1, Zenon DEF TypeOK
<1> QED
  BY <1>1, <1>2, <1>3, <1>5
     DEF Init, Inv, IdsInv, PublishedInv, WireInv, PackagesAgree, WireStable, Graph

LEMMA EditKeeps ==
  ASSUME Inv, Edit
  PROVE  Inv'
<1>1. TypeOK'
  BY MaxEditsAssumption DEF Inv, TypeOK, Edit, stateVars
<1> QED
  BY <1>1 DEF Inv, Edit, stateVars, IdsInv, PublishedInv, WireInv, PackagesAgree, WireStable,
              Distinct

LEMMA RemoveFileKeeps ==
  ASSUME Inv, RemoveFile
  PROVE  Inv'
<1>1. /\ phase = "idle" /\ file' = [torn |-> FALSE, types |-> NoIDs] /\ result' = "none"
      /\ UNCHANGED <<ids, nextID, impls, edits, published, wire, lost, phase, todo, reached, toPublish>>
  BY DEF RemoveFile, stateVars
<1>2. IsIDs(NoIDs) /\ Distinct(NoIDs)
  BY DEF NoIDs, IsIDs, Distinct
<1>3. DOMAIN file' = {"torn", "types"} /\ file'.torn \in BOOLEAN /\ file'.types = NoIDs
  BY <1>1, Zenon
<1>4. TypeOK' /\ IdsInv'
  BY <1>1, <1>2, <1>3 DEF Inv, TypeOK, IdsInv
<1> QED
  BY <1>1, <1>4 DEF Inv, PublishedInv, WireInv, PackagesAgree, WireStable

LEMMA LoadKeeps ==
  ASSUME Inv, Load
  PROVE  Inv'
<1>1. CASE file.torn
  <2>1. TypeOK'
    BY <1>1 DEF Inv, TypeOK, Load, stateVars
  <2> QED
    BY <1>1, <2>1 DEF Inv, Load, stateVars, IdsInv, PublishedInv, WireInv, PackagesAgree,
                      WireStable, Distinct
<1>2. CASE ~file.torn
  <2>1. /\ LoadState(file.types) /\ phase' = "extract"
        /\ todo' = IF reached' = {} THEN {} ELSE impls
        /\ reached' \in SUBSET Packages /\ toPublish' = reached' /\ result' = "running"
        /\ lost' = (lost \/ ~(wire \subseteq Graph(file.types)))
        /\ UNCHANGED <<impls, edits, file, published, wire>>
    BY <1>2 DEF Load
  <2>2. /\ IsIDs(ids') /\ nextID' \in Nat \ {0}
        /\ Distinct(ids') /\ \A t \in DOMAIN ids' : ids'[t] < nextID'
    BY <2>1, LoadKeepsIds DEF Inv, TypeOK, IdsInv
  <2>3. TypeOK'
    BY <2>1, <2>2 DEF Inv, TypeOK
  <2>4. IdsInv' /\ PublishedInv'
    BY <2>1, <2>2 DEF Inv, IdsInv, PublishedInv, PackagesAgree
  <2>5. WireInv'
    <3> SUFFICES ASSUME ~lost'
                 PROVE  /\ WireStable'
                        /\ \A p \in Packages : Graph(published[p]) \subseteq wire
                        /\ \A x \in wire : x[1] \in DOMAIN ids' /\ x[2] = ids'[x[1]]
      BY <2>1 DEF WireInv
    <3>1. wire \subseteq Graph(file.types) /\ ids' = file.types /\ ~lost
      BY <2>1 DEF LoadState
    <3>2. WireStable'
      BY <2>1, <3>1 DEF Inv, WireInv, WireStable
    <3>3. \A p \in Packages : Graph(published[p]) \subseteq wire
      BY <3>1 DEF Inv, WireInv
    <3> QED BY <3>1, <3>2, <3>3 DEF Graph
  <2> QED BY <2>3, <2>4, <2>5 DEF Inv
<1> QED BY <1>1, <1>2

LEMMA AssignKeeps ==
  ASSUME Inv, NEW t \in Types, Assign(t)
  PROVE  Inv'
<1>1. /\ phase = "extract" /\ t \in todo /\ EnsureType(t) /\ todo' = todo \ {t}
      /\ UNCHANGED <<impls, edits, file, published, wire, lost, phase, reached, toPublish, result>>
  BY DEF Assign, fileVars
<1>2. /\ IsIDs(ids') /\ nextID' \in Nat \ {0}
      /\ Distinct(ids') /\ \A s \in DOMAIN ids' : ids'[s] < nextID'
      /\ DOMAIN ids' = DOMAIN ids \cup {t}
      /\ \A s \in DOMAIN ids : ids'[s] = ids[s]
  BY <1>1, EnsureTypeKeepsIds DEF Inv, TypeOK, IdsInv
<1>3. TypeOK'
  BY <1>1, <1>2 DEF Inv, TypeOK
<1>4. IdsInv' /\ PublishedInv'
  BY <1>1, <1>2 DEF Inv, IdsInv, PublishedInv, PackagesAgree
<1>5. WireInv'
  BY <1>1, <1>2 DEF Inv, WireInv, WireStable
<1> QED BY <1>3, <1>4, <1>5 DEF Inv

LEMMA PublishKeeps ==
  ASSUME Inv, NEW p \in Packages, Publish(p)
  PROVE  Inv'
<1>1. /\ phase = "publish" /\ toPublish' = toPublish \ {p}
      /\ published' = [published EXCEPT ![p] = [t \in impls |-> ids[t]]]
      /\ wire' = wire \cup Graph(published'[p])
      /\ UNCHANGED <<ids, nextID, impls, edits, file, lost, phase, todo, reached, result>>
  BY DEF Publish, stateVars
<1>2. /\ DOMAIN published' = Packages
      /\ published'[p] = [t \in impls |-> ids[t]]
      /\ \A q \in Packages \ {p} : published'[q] = published[q]
  BY <1>1 DEF Inv, TypeOK
<1>3. impls \subseteq DOMAIN ids
  BY DEF Publish, Inv, PublishedInv
<1>4. wire' = wire \cup {<<t, ids[t]>> : t \in impls}
  BY <1>1, <1>2 DEF Graph
<1>5. TypeOK'
  <2>1. IsIDs(published'[p])
    BY <1>2, <1>3 DEF Inv, TypeOK, IsIDs
  <2>2. wire' \subseteq Types \X (Nat \ {0})
    BY <1>3, <1>4 DEF Inv, TypeOK, IsIDs
  <2> QED BY <1>1, <1>2, <2>1, <2>2 DEF Inv, TypeOK
<1>6. IdsInv' /\ PublishedInv'
  BY <1>1, <1>2, <1>3 DEF Inv, IdsInv, PublishedInv, PackagesAgree
<1>7. WireInv'
  <2> SUFFICES ASSUME ~lost
               PROVE  /\ WireStable'
                      /\ \A q \in Packages : Graph(published'[q]) \subseteq wire'
                      /\ \A x \in wire' : x[1] \in DOMAIN ids /\ x[2] = ids[x[1]]
    BY <1>1 DEF WireInv
  <2>1. \A x \in wire' : x[1] \in DOMAIN ids /\ x[2] = ids[x[1]]
    BY <1>1, <1>3, <1>4 DEF Inv, WireInv
  <2>2. WireStable'
    BY <1>1, <2>1 DEF Inv, IdsInv, Distinct, WireStable
  <2>3. \A q \in Packages : Graph(published'[q]) \subseteq wire'
    BY <1>1, <1>2 DEF Inv, WireInv
  <2> QED BY <2>1, <2>2, <2>3
<1> QED BY <1>5, <1>6, <1>7 DEF Inv

LEMMA WriteKeeps ==
  ASSUME Inv, Write
  PROVE  Inv'
<1>1. /\ phase = "save" /\ phase' = "idle" /\ result' = "ok"
      /\ file' = file \/ file' = [torn |-> FALSE, types |-> ids]
      /\ UNCHANGED <<ids, nextID, impls, edits, published, wire, lost, todo, reached, toPublish>>
  BY DEF Write, stateVars
<1>2. TypeOK' /\ IdsInv'
  <2>1. file'.types = file.types \/ file'.types = ids
    BY <1>1
  <2>2. CASE file' = file
    BY <1>1, <2>2 DEF Inv, TypeOK, IdsInv
  <2>3. CASE file' = [torn |-> FALSE, types |-> ids]
    <3>1. DOMAIN file' = {"torn", "types"} /\ file'.torn \in BOOLEAN
      BY <2>3, Zenon
    <3> QED BY <1>1, <2>1, <3>1, <2>3 DEF Inv, TypeOK, IdsInv
  <2> QED BY <1>1, <2>2, <2>3
<1>3. PackagesAgree'
  <2>1. CASE lost
    <3>1. \A p \in reached : /\ DOMAIN published[p] = impls /\ impls \subseteq DOMAIN ids
                             /\ \A t \in impls : published[p][t] = ids[t]
      BY <1>1 DEF Inv, PublishedInv
    <3>2. \A p, q \in reached : \A s \in DOMAIN published[p], t \in DOMAIN published[q] :
            s = t <=> published[p][s] = published[q][t]
      BY <3>1 DEF Inv, IdsInv, Distinct
    <3> QED BY <1>1, <2>1, <3>2 DEF PackagesAgree
  <2>2. CASE ~lost
    <3>1. \A p \in Packages : \A s \in DOMAIN published[p] : <<s, published[p][s]>> \in wire
      BY <2>2 DEF Inv, WireInv, Graph
    <3>2. \A x, y \in wire : x[1] = y[1] <=> x[2] = y[2]
      BY <2>2 DEF Inv, WireInv, WireStable
    <3>3. ASSUME NEW p \in Packages, NEW q \in Packages,
                 NEW s \in DOMAIN published[p], NEW t \in DOMAIN published[q]
          PROVE  s = t <=> published[p][s] = published[q][t]
      <4>1. <<s, published[p][s]>> \in wire /\ <<t, published[q][t]>> \in wire
        BY <3>1
      <4> QED BY <3>2, <4>1
    <3> QED BY <1>1, <3>3 DEF PackagesAgree
  <2> QED BY <2>1, <2>2
<1>4. PublishedInv' /\ WireInv'
  BY <1>1, <1>3 DEF Inv, PublishedInv, WireInv, WireStable
<1> QED BY <1>2, <1>4 DEF Inv

LEMMA OthersKeep ==
  ASSUME Inv, Extracted \/ Truncate \/ Fail \/ Crash \/ UNCHANGED vars
  PROVE  Inv'
<1>1. CASE Extracted
  <2>1. TypeOK' /\ IdsInv'
    BY <1>1 DEF Extracted, stateVars, fileVars, Inv, TypeOK, IdsInv, Distinct
  <2> QED
    BY <1>1, <2>1 DEF Extracted, stateVars, fileVars, Inv, PublishedInv, PackagesAgree, WireInv,
                      WireStable
<1>2. CASE Truncate
  <2>1. IsIDs(NoIDs) /\ Distinct(NoIDs)
    BY DEF NoIDs, IsIDs, Distinct
  <2>2. TypeOK' /\ IdsInv'
    BY <1>2, <2>1 DEF Truncate, stateVars, Inv, TypeOK, IdsInv, Distinct
  <2> QED
    BY <1>2, <2>2 DEF Truncate, stateVars, Inv, PublishedInv, PackagesAgree, WireInv, WireStable
<1>3. CASE Fail \/ Crash
  <2>1. TypeOK' /\ IdsInv'
    BY <1>3 DEF Fail, Crash, stateVars, fileVars, Inv, TypeOK, IdsInv, Distinct
  <2> QED
    BY <1>3, <2>1 DEF Fail, Crash, stateVars, fileVars, Inv, PublishedInv, PackagesAgree,
                      WireInv, WireStable
<1>4. CASE UNCHANGED vars
  BY <1>4 DEF vars, stateVars, fileVars, Inv, TypeOK, IdsInv, PublishedInv, PackagesAgree,
              WireInv, WireStable, Distinct
<1> QED BY <1>1, <1>2, <1>3, <1>4

LEMMA Invariant == Spec => []Inv
<1>1. Inv /\ [Next]_vars => Inv'
  <2> SUFFICES ASSUME Inv, [Next]_vars PROVE Inv'
    OBVIOUS
  <2> QED
    BY EditKeeps, RemoveFileKeeps, LoadKeeps, AssignKeeps, PublishKeeps, WriteKeeps, OthersKeep DEF Next
<1> QED BY InitInv, <1>1, PTL DEF Spec
----------------------------------------------------------------------------
\* Type correctness of the runs and their files.
THEOREM TypeCorrect == Spec => []TypeOK
BY Invariant, PTL DEF Inv

\* However runs fail, are killed and follow each other, one type has one ID
\* on the wire and one ID one type, as long as no run began from a state file
\* that lacks an ID in use (extractor.go:345, main.go:99).
THEOREM WireAlwaysStableUnlessLost == Spec => []WireStableUnlessLost
<1>1. Inv => WireStableUnlessLost
  BY DEF Inv, WireInv, WireStable, WireStableUnlessLost
<1> QED BY Invariant, <1>1, PTL

\* After a run that succeeds the mappers in place in all packages agree, those
\* of packages it has not reached included; where IDs had been lost, those of
\* the packages it has reached do (generate.go:90-97, 253).
THEOREM PackagesAlwaysAgree == Spec => []PackagesAgree
<1>1. Inv => PackagesAgree
  BY DEF Inv, PublishedInv
<1> QED BY Invariant, <1>1, PTL
=============================================================================
