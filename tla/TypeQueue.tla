------------------------------ MODULE TypeQueue ------------------------------
(***************************************************************************)
(* typequeue.go: a FIFO queue of (origin package, type) pairs that refuses *)
(* a pair it has seen before.  The origin is the package that refers to    *)
(* the type.  Parents, which only error messages read, are left out.       *)
(***************************************************************************)
EXTENDS Names, Sequences

VARIABLES
  contents,   \* TypeQueue.contents
  seenItems   \* TypeQueue.seenItems, the set of keys; the key is the pair

queueVars == <<contents, seenItems>>

TypeQueueItem == [origin : Packages, type : Types]

Item(o, t) == [origin |-> o, type |-> t]

NewTypeQueue == contents = <<>> /\ seenItems = {}

\* Bug: the key is recorded, never looked up.
AddUnchecked(x) ==
  /\ contents' = Append(contents, x)
  /\ seenItems' = seenItems \cup {x}

\* Bug: the key is looked up without its origin.
AddByName(x) ==
  IF \E y \in seenItems : y.type = x.type
    THEN UNCHANGED queueVars
    ELSE /\ contents' = Append(contents, x)
         /\ seenItems' = seenItems \cup {x}

Add(x) ==
  IF x \in seenItems
    THEN UNCHANGED queueVars
    ELSE /\ contents' = Append(contents, x)
         /\ seenItems' = seenItems \cup {x}

Dequeue ==
  /\ contents # <<>>
  /\ contents' = Tail(contents)
  /\ UNCHANGED seenItems
=============================================================================
