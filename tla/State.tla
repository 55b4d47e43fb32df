------------------------------- MODULE State -------------------------------
(***************************************************************************)
(* state.go: the registry that gives every implementer of an intercepted   *)
(* interface the integer ID written on the wire in front of its messages.  *)
(***************************************************************************)
EXTENDS Names, Integers

VARIABLES
  ids,     \* State.Types, a map from type names to IDs
  nextID   \* State.NextID

stateVars == <<ids, nextID>>

\* The largest ID in the map m, at least 0.
MaxID(m) ==
  {max \in {0} \cup {m[t] : t \in DOMAIN m} : \A t \in DOMAIN m : m[t] <= max}

\* Bug: the largest ID in use is given again.
NextIDAtMax(m) == MaxID(m)

\* State.Init: NextID is one past the largest ID (a set of one number).
NextIDPast(m) == {max + 1 : max \in MaxID(m)}

\* State.Init on the map m read from the file, at the start or in a later run.
InitState(m) == ids = m /\ nextID \in NextIDPast(m)
LoadState(m) == ids' = m /\ nextID' \in NextIDPast(m)

\* Bug: a type that has an ID is given a new one.
EnsureTypeAnew(t) ==
  /\ ids' = [s \in DOMAIN ids \cup {t} |-> IF s = t THEN nextID ELSE ids[s]]
  /\ nextID' = nextID + 1

\* Bug: NextID is not advanced.
EnsureTypeStuck(t) ==
  IF t \in DOMAIN ids
    THEN UNCHANGED stateVars
    ELSE /\ ids' = [s \in DOMAIN ids \cup {t} |-> IF s = t THEN nextID ELSE ids[s]]
         /\ UNCHANGED nextID

EnsureType(t) ==
  IF t \in DOMAIN ids
    THEN UNCHANGED stateVars
    ELSE /\ ids' = [s \in DOMAIN ids \cup {t} |-> IF s = t THEN nextID ELSE ids[s]]
         /\ nextID' = nextID + 1
=============================================================================
