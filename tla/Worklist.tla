------------------------------ MODULE Worklist ------------------------------
(***************************************************************************)
(* What TypeQueue promises the extractor, whatever the order of the queue: *)
(* an item that is found is handled at most once, nothing found is lost,   *)
(* and the work is finished only when everything found has been handled.   *)
(* It may be given up at any time, by the handler of an item or outside.   *)
(***************************************************************************)
CONSTANT Items

VARIABLES
  found,     \* items ever added
  handled,   \* items taken out to be processed
  status     \* "open", "finished" or "failed"

wvars == <<found, handled, status>>

WInit == found = {} /\ handled = {} /\ status = "open"

\* An item not seen before turns up.
Find(x) ==
  /\ status = "open"
  /\ x \notin found
  /\ found' = found \cup {x}
  /\ UNCHANGED <<handled, status>>

\* An item that waits is processed, well or not.
Handle(x) ==
  /\ status = "open"
  /\ x \in found \ handled
  /\ handled' = handled \cup {x}
  /\ status' \in {"open", "failed"}
  /\ UNCHANGED found

\* Nothing waits, and nothing can turn up any more.
Finish ==
  /\ status = "open"
  /\ found = handled
  /\ status' = "finished"
  /\ UNCHANGED <<found, handled>>

Fail == status' = "failed" /\ UNCHANGED <<found, handled>>

WNext == Finish \/ Fail \/ \E x \in Items : Find(x) \/ Handle(x)

WSpec == WInit /\ [][WNext]_wvars
=============================================================================
