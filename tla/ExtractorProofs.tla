-------------------------- MODULE ExtractorProofs --------------------------
(***************************************************************************)
(* What holds of the extractor for every program, every set of directives  *)
(* and every state file: TypeOK, that the queue is a work list, that IDs   *)
(* are stable and unique.                                                  *)
(***************************************************************************)
EXTENDS Extractor, TLAPS

LEMMA JobFacts ==
  ASSUME TypeOK
  PROVE  JobTypeOK(job) /\ WellFormed(job)
BY DEF TypeOK

LEMMA AddTyped ==
  ASSUME contents \in Seq(TypeQueueItem), seenItems \subseteq TypeQueueItem,
         NEW x \in TypeQueueItem, Add(x)
  PROVE  contents' \in Seq(TypeQueueItem) /\ seenItems' \subseteq TypeQueueItem
BY DEF Add, queueVars

LEMMA HeadTyped ==
  ASSUME TypeOK, contents # <<>>
  PROVE  /\ Head(contents) \in TypeQueueItem
         /\ Head(contents).type \in Types
         /\ Head(contents).origin \in Packages
         /\ Home(Head(contents).type) \in Packages
         /\ Tail(contents) \in Seq(TypeQueueItem)
<1>1. Head(contents) \in TypeQueueItem /\ Tail(contents) \in Seq(TypeQueueItem)
  BY DEF TypeOK
<1>2. job.home \in [Types -> Packages]
  BY JobFacts DEF JobTypeOK
<1>3. QED
  BY <1>1, <1>2 DEF TypeQueueItem, Home

LEMMA SourceTyped ==
  ASSUME TypeOK
  PROVE  SourceDirectives \in [Packages -> SUBSET Directive]
<1>1. job.shims \in [Packages -> SUBSET Types] /\ job.ignores \in [Packages -> SUBSET Types]
  BY JobFacts DEF JobTypeOK
<1>2. QED
  BY <1>1 DEF SourceDirectives, Directive

LEMMA EnsureTyped ==
  ASSUME TypeOK, NEW ps \in SUBSET Packages, Ensure(ps, SourceDirectives)
  PROVE  cached' \subseteq Packages /\ directives' \in [Packages -> SUBSET Directive]
BY SourceTyped DEF TypeOK, Ensure, DirectivesOf

LEMMA EnsureAndAddTyped ==
  ASSUME TypeOK, NEW ps \in SUBSET Packages, NEW p \in ps, NEW ds \in SUBSET Directive,
         EnsureAndAdd(ps, SourceDirectives, p, ds)
  PROVE  cached' \subseteq Packages /\ directives' \in [Packages -> SUBSET Directive]
BY SourceTyped DEF TypeOK, EnsureAndAdd, DirectivesOf

LEMMA EnsureTypeTyped ==
  ASSUME TypeOK, NEW t \in Types, EnsureType(t)
  PROVE  DOMAIN ids' \subseteq Types /\ ids' \in [DOMAIN ids' -> Int] /\ nextID' \in Int
BY DEF TypeOK, EnsureType, stateVars

LEMMA RenderKeyTyped ==
  ASSUME TypeOK, NEW x \in TypeQueueItem
  PROVE  RenderKey(x) \in Keys
<1>1. job.joined \in [Packages \X Types -> Keys]
  BY JobFacts DEF JobTypeOK
<1>2. <<x.origin, x.type>> \in Packages \X Types /\ <<x.type>> \in Keys
  BY DEF TypeQueueItem, Keys
<1> HIDE DEF Keys
<1>3. QED
  BY <1>1, <1>2 DEF RenderKey

LEMMA GeneratedTyped ==
  ASSUME NEW t \in Types, NEW d \in {"shim", "ignore", "intercept", "tuple", "allowextra"}
  PROVE  Generated(d, t) \in Directive
BY DEF Generated, Directive

----------------------------------------------------------------------------
LEMMA TypeStep == TypeOK /\ [Next]_vars => TypeOK'
<1> SUFFICES ASSUME TypeOK, [Next]_vars PROVE TypeOK'
  OBVIOUS
<1> USE DEF outVars, ifaceVars, loopVars, queueVars, dctvVars, stateVars, Running, Ended
<1>j. JobTypeOK(job)
  BY JobFacts
<1>1. ASSUME NEW t \in Types, AddRoot(t) PROVE TypeOK'
  <2>1. Item(Home(t), t) \in TypeQueueItem
    BY <1>j DEF JobTypeOK, Home, Item, TypeQueueItem
  <2>2. contents' \in Seq(TypeQueueItem) /\ seenItems' \subseteq TypeQueueItem
    BY <1>1, <2>1, AddTyped DEF AddRoot, TypeOK
  <2> QED
    BY <1>1, <2>2 DEF AddRoot, TypeOK
<1>2. ASSUME NEW t \in Types, BuildMapper(t) PROVE TypeOK'
  <2> DEFINE p == inPackages[t][mapped[t] + 1]
  <2>1. p \in Packages
    BY <1>2 DEF BuildMapper, TypeOK
  <2>2. job.impls[t] \in Seq(Types)
    BY <1>j DEF JobTypeOK
  <2>3. Mapped(t, p) \subseteq Types
    BY <2>2 DEF Mapped, Range
  <2>4. Mapper(t, p) \in [iface : Types, types : SUBSET Types, shimmed : SUBSET Types]
    BY <2>3 DEF Mapper
  <2>5. Generated("intercept", t) \in Directive
    BY GeneratedTyped
  <2> QED
    <3>1. CASE phase' = "error" /\ UNCHANGED <<directives, extraOutput, mapped>>
      BY <1>2, <3>1 DEF BuildMapper, TypeOK
    <3>2. CASE /\ directives' = [directives EXCEPT ![p] = @ \cup {Generated("intercept", t)}]
               /\ extraOutput' = [extraOutput EXCEPT ![p] = Append(@, Mapper(t, p))]
               /\ mapped' = [mapped EXCEPT ![t] = @ + 1]
               /\ UNCHANGED phase
      <4>1. directives' \in [Packages -> SUBSET Directive]
        BY <3>2, <2>1, <2>5 DEF TypeOK
      <4>2. extraOutput' \in
              [Packages -> Seq([iface : Types, types : SUBSET Types, shimmed : SUBSET Types])]
        BY <3>2, <2>1, <2>4 DEF TypeOK
      <4>3. mapped' \in [Types -> Nat]
        BY <3>2 DEF TypeOK
      <4> QED
        BY <1>2, <3>2, <4>1, <4>2, <4>3 DEF BuildMapper, TypeOK
    <3> QED
      BY <1>2, <3>1, <3>2 DEF BuildMapper
<1>3. CASE Handler
  <2> DEFINE x == Head(contents)
  <2>h. ASSUME NEW k, Take(k)
        PROVE  /\ x \in TypeQueueItem /\ x.type \in Types /\ x.origin \in Packages
               /\ Home(x.type) \in Packages
               /\ contents' \in Seq(TypeQueueItem) /\ seenItems' = seenItems
               /\ RenderKey(x) \in Keys
    BY <2>h, HeadTyped, RenderKeyTyped DEF Take, Dequeue
  <2>1. CASE SkipDirect \/ Panic \/ SkipRendered
    BY <2>1, <2>h DEF SkipDirect, Panic, SkipRendered, TypeOK
  <2>2. CASE DeclineStruct
    <3>1. Take("struct")
      BY <2>2 DEF DeclineStruct
    <3>2. cached' \subseteq Packages /\ directives' \in [Packages -> SUBSET Directive]
      BY <2>2, <3>1, <2>h, EnsureTyped DEF DeclineStruct
    <3> QED
      BY <2>2, <3>1, <3>2, <2>h DEF DeclineStruct, MarkRendered, TypeOK
  <2>3. CASE BeginStruct
    <3>1. Take("struct")
      BY <2>3 DEF BeginStruct
    <3>2. cached' \subseteq Packages /\ directives' \in [Packages -> SUBSET Directive]
      BY <2>3, <3>1, <2>h, EnsureTyped DEF BeginStruct
    <3>3. job.refs[x.type] \in Seq(Types)
      BY <1>j, <3>1, <2>h DEF JobTypeOK
    <3> QED
      BY <2>3, <3>1, <3>2, <3>3, <2>h DEF BeginStruct, MarkRendered, TypeOK
  <2>4. CASE Visit
    <3>1. /\ Head(todo) \in Types /\ Tail(todo) \in Seq(Types)
          /\ job.refs[Head(todo)] \in Seq(Types)
      BY <2>4, <1>j DEF Visit, TypeOK, JobTypeOK
    <3>2. Item(Home(cur.type), Head(todo)) \in TypeQueueItem
      BY <2>4, <1>j, <3>1 DEF Visit, TypeOK, JobTypeOK, Home, Item, TypeQueueItem
    <3>3. contents' \in Seq(TypeQueueItem) /\ seenItems' \subseteq TypeQueueItem
      BY <2>4, <3>2, AddTyped DEF Visit, TypeOK
    <3>4. todo' \in Seq(Types)
      BY <2>4, <3>1 DEF Visit
    <3> QED
      BY <2>4, <3>3, <3>4 DEF Visit, TypeOK
  <2>5. CASE FinishStruct
    <3>1. cur.type \in Types /\ Home(cur.type) \in Packages
      BY <2>5, <1>j DEF FinishStruct, TypeOK, JobTypeOK, Home, TypeQueueItem
    <3>2. {Generated("tuple", cur.type)} \cup
            (IF job.allowExtra THEN {Generated("allowextra", cur.type)} ELSE {})
            \in SUBSET Directive
      BY <3>1, GeneratedTyped
    <3>3. cached' \subseteq Packages /\ directives' \in [Packages -> SUBSET Directive]
      BY <2>5, <3>1, <3>2, EnsureAndAddTyped DEF FinishStruct
    <3>4. tempOutput' \in [Packages -> Seq(Types)]
      BY <2>5, <3>1 DEF FinishStruct, TypeOK
    <3> QED
      BY <2>5, <3>3, <3>4 DEF FinishStruct, TypeOK
  <2>6. CASE ExtractNamedCompound
    <3>1. Take("compound")
      BY <2>6 DEF ExtractNamedCompound
    <3>2. cached' \subseteq Packages /\ directives' \in [Packages -> SUBSET Directive]
      BY <2>6, <3>1, <2>h, EnsureTyped DEF ExtractNamedCompound
    <3>3. tempOutput' \in [Packages -> Seq(Types)]
      BY <2>6, <3>1, <2>h DEF ExtractNamedCompound, TypeOK
    <3> QED
      BY <2>6, <3>1, <3>2, <3>3, <2>h DEF ExtractNamedCompound, MarkRendered, TypeOK
  <2>7. CASE ExtractShimmedSupported
    <3>1. Take("shimmable")
      BY <2>7 DEF ExtractShimmedSupported
    <3>2. {Generated("shim", x.type)} \in SUBSET Directive
      BY <3>1, <2>h, GeneratedTyped
    <3>3. cached' \subseteq Packages /\ directives' \in [Packages -> SUBSET Directive]
      BY <2>7, <3>1, <3>2, <2>h, EnsureAndAddTyped DEF ExtractShimmedSupported
    <3>4. tempOutput' \in [Packages -> Seq(Types)]
      BY <2>7, <3>1, <2>h DEF ExtractShimmedSupported, TypeOK
    <3> QED
      BY <2>7, <3>1, <3>3, <3>4, <2>h DEF ExtractShimmedSupported, MarkRendered, TypeOK
  <2>8. CASE BeginInterface
    <3>1. Take("interface")
      BY <2>8 DEF BeginInterface
    <3>2. job.impls[x.type] \in Seq(Types)
      BY <1>j, <3>1, <2>h DEF JobTypeOK
    <3>3. CASE phase' = "error" /\ UNCHANGED <<cur, ifaces, todo>>
      BY <2>8, <3>1, <3>3, <2>h DEF BeginInterface, TypeOK
    <3>4. CASE /\ phase' = "impls" /\ cur' = x /\ ifaces' = ifaces \cup {x.type}
               /\ todo' = IF x.type \in ifaces THEN <<>> ELSE job.impls[x.type]
      <4>1. todo' \in Seq(Types) /\ ifaces' \subseteq Types /\ cur' \in TypeQueueItem
        BY <3>1, <3>2, <3>4, <2>h DEF TypeOK
      <4> QED
        BY <2>8, <3>1, <3>4, <4>1, <2>h DEF BeginInterface, TypeOK
    <3> QED
      BY <2>8, <3>3, <3>4 DEF BeginInterface
  <2>9. CASE AddImplementer
    <3>1. Head(todo) \in Types /\ Tail(todo) \in Seq(Types)
      BY <2>9 DEF AddImplementer, TypeOK
    <3>2. Item(cur.origin, Head(todo)) \in TypeQueueItem
      BY <2>9, <3>1 DEF AddImplementer, TypeOK, Item, TypeQueueItem
    <3>3. contents' \in Seq(TypeQueueItem) /\ seenItems' \subseteq TypeQueueItem
      BY <2>9, <3>2, AddTyped DEF AddImplementer, TypeOK
    <3>4. DOMAIN ids' \subseteq Types /\ ids' \in [DOMAIN ids' -> Int] /\ nextID' \in Int
      BY <2>9, <3>1, EnsureTypeTyped DEF AddImplementer, TypeOK
    <3> QED
      BY <2>9, <3>1, <3>3, <3>4 DEF AddImplementer, TypeOK
  <2>10. CASE FinishInterface
    <3>1. cur.type \in Types /\ Home(cur.type) \in Packages /\ cur.origin \in Packages
      BY <2>10, <1>j DEF FinishInterface, TypeOK, JobTypeOK, Home, TypeQueueItem
    <3>2. /\ tempOutput' \in [Packages -> Seq(Types)]
          /\ inPackages' \in [Types -> Seq(Packages)]
      BY <2>10, <3>1 DEF FinishInterface, TypeOK
    <3> QED
      BY <2>10, <3>2 DEF FinishInterface, TypeOK
  <2> QED
    BY <1>3, <2>1, <2>2, <2>3, <2>4, <2>5, <2>6, <2>7, <2>8, <2>9, <2>10 DEF Handler
<1>4. CASE StartExtract \/ StartMappers \/ Finish \/ ExternalError
  BY <1>4 DEF StartExtract, StartMappers, Finish, ExternalError, TypeOK
<1>5. CASE Halted \/ UNCHANGED vars
  BY <1>5 DEF Halted, vars, TypeOK
<1> QED
  BY <1>1, <1>2, <1>3, <1>4, <1>5 DEF Next

LEMMA TypeInit == Init => TypeOK
<1> SUFFICES ASSUME Init PROVE TypeOK
  OBVIOUS
<1>1. JobTypeOK(job) /\ WellFormed(job)
  BY JobsAssumption DEF Init
<1>2. /\ job.roots \subseteq Types
      /\ DOMAIN job.ids \subseteq Types /\ job.ids \in [DOMAIN job.ids -> Int]
  BY <1>1 DEF JobTypeOK
<1>3. DOMAIN ids \subseteq Types /\ ids \in [DOMAIN ids -> Int] /\ nextID \in Int
  BY <1>2 DEF Init, InitState, NextIDPast, MaxID
<1>4. contents \in Seq(TypeQueueItem) /\ seenItems \subseteq TypeQueueItem
  BY DEF Init, NewTypeQueue
<1>5. cached \subseteq Packages /\ directives \in [Packages -> SUBSET Directive]
  BY DEF Init, NewDirectivesCache
<1>6. /\ tempOutput \in [Packages -> Seq(Types)] /\ inPackages \in [Types -> Seq(Packages)]
      /\ extraOutput \in
           [Packages -> Seq([iface : Types, types : SUBSET Types, shimmed : SUBSET Types])]
  BY DEF Init
<1> QED
  BY <1>1, <1>2, <1>3, <1>4, <1>5, <1>6 DEF Init, TypeOK, Running

\* Every variable keeps its type, whatever the program under generation.
THEOREM TypeCorrect == Spec => []TypeOK
BY TypeInit, TypeStep, PTL DEF Spec
----------------------------------------------------------------------------
(***************************************************************************)
(* IDs.  IdsUnique is inductive only with the fact that NextID is past     *)
(* every ID in use, which Init computes and EnsureType keeps.              *)
(***************************************************************************)
IdsBelow == \A t \in DOMAIN ids : ids[t] < nextID

LEMMA EnsureTypeKeepsIds ==
  ASSUME TypeOK, IdsUnique, IdsBelow, NEW t \in Types, EnsureType(t)
  PROVE  IdsUnique' /\ IdsBelow'
<1>1. CASE t \in DOMAIN ids
  BY <1>1 DEF EnsureType, stateVars, IdsUnique, IdsBelow
<1>2. CASE t \notin DOMAIN ids
  <2>1. /\ DOMAIN ids' = DOMAIN ids \cup {t}
        /\ \A s \in DOMAIN ids : ids'[s] = ids[s] /\ ids[s] \in Int
        /\ ids'[t] = nextID /\ nextID \in Int /\ nextID' = nextID + 1
    BY <1>2 DEF EnsureType, TypeOK
  <2> QED
    BY <2>1, <1>2 DEF IdsUnique, IdsBelow
<1> QED
  BY <1>1, <1>2

\* The state changes only where extractInterface calls EnsureType.
LEMMA StateSteps ==
  ASSUME TypeOK, [Next]_vars
  PROVE  UNCHANGED stateVars \/ \E t \in Types : EnsureType(t)
<1> USE DEF stateVars, vars
<1>1. CASE AddImplementer
  <2>1. Head(todo) \in Types
    BY <1>1 DEF AddImplementer, TypeOK
  <2> QED
    BY <1>1, <2>1 DEF AddImplementer
<1>2. CASE \E t \in Types : AddRoot(t) \/ BuildMapper(t)
  BY <1>2 DEF AddRoot, BuildMapper
<1>3. CASE Handler /\ ~AddImplementer
  BY <1>3 DEF Handler, SkipDirect, Panic, SkipRendered, DeclineStruct, BeginStruct, Visit,
       FinishStruct, ExtractNamedCompound, ExtractShimmedSupported, BeginInterface,
       FinishInterface
<1>4. CASE StartExtract \/ StartMappers \/ Finish \/ ExternalError \/ Halted
  BY <1>4 DEF StartExtract, StartMappers, Finish, ExternalError, Halted
<1> QED
  BY <1>1, <1>2, <1>3, <1>4 DEF Next

LEMMA IdsStep == TypeOK /\ IdsUnique /\ IdsBelow /\ [Next]_vars => IdsUnique' /\ IdsBelow'
<1> SUFFICES ASSUME TypeOK, IdsUnique, IdsBelow, [Next]_vars PROVE IdsUnique' /\ IdsBelow'
  OBVIOUS
<1>1. CASE UNCHANGED stateVars
  BY <1>1 DEF stateVars, IdsUnique, IdsBelow
<1>2. CASE \E t \in Types : EnsureType(t)
  BY <1>2, EnsureTypeKeepsIds
<1> QED
  BY <1>1, <1>2, StateSteps

LEMMA IdsInit == Init => IdsUnique /\ IdsBelow
<1> SUFFICES ASSUME Init PROVE IdsUnique /\ IdsBelow
  OBVIOUS
<1>1. WellFormed(job) /\ JobTypeOK(job)
  BY JobsAssumption DEF Init
<1>2. ids = job.ids
  BY DEF Init, InitState, NextIDPast, MaxID
<1>3. ids \in [DOMAIN ids -> Int]
  BY <1>1, <1>2 DEF JobTypeOK
<1>4. IdsUnique
  BY <1>1, <1>2 DEF WellFormed, IdsUnique
<1>5. IdsBelow
  BY <1>2, <1>3 DEF Init, InitState, NextIDPast, MaxID, IdsBelow
<1> QED
  BY <1>4, <1>5

\* Two types never share an ID, for every state file State.Init accepts.
THEOREM IdsAlwaysUnique == Spec => []IdsUnique
BY IdsInit, IdsStep, TypeInit, TypeStep, PTL DEF Spec

\* A type that has an ID keeps it to the end of the run.
THEOREM IdsAlwaysStable == Spec => IdsStable
<1>1. TypeOK /\ [Next]_vars =>
        [\A t \in DOMAIN ids : t \in DOMAIN ids' /\ ids'[t] = ids[t]]_vars
  BY StateSteps DEF EnsureType, stateVars
<1>2. QED
  BY <1>1, TypeCorrect, PTL DEF Spec, IdsStable
----------------------------------------------------------------------------
(***************************************************************************)
(* The queue.  What is handled is what was added and does not wait, so the *)
(* refinement needs that nothing waits twice and that only what was added  *)
(* waits; and that nothing waits once the loop of extract has ended.       *)
(***************************************************************************)
QueueInv ==
  /\ Range(contents) \subseteq seenItems
  /\ \A m, n \in 1..Len(contents) : contents[m] = contents[n] => m = n
  /\ Status = "finished" => contents = <<>>

LEMMA RangeOfSeq ==
  ASSUME NEW S, NEW s \in Seq(S)
  PROVE  \A x : x \in Range(s) <=> \E n \in 1..Len(s) : x = s[n]
BY DEF Range

LEMMA TailDropsHead ==
  ASSUME NEW S, NEW s \in Seq(S), s # <<>>,
         \A m, n \in 1..Len(s) : s[m] = s[n] => m = n
  PROVE  /\ Range(Tail(s)) = Range(s) \ {Head(s)}
         /\ Head(s) \in Range(s)
         /\ \A m, n \in 1..Len(Tail(s)) : Tail(s)[m] = Tail(s)[n] => m = n
<1>1. /\ Tail(s) \in Seq(S) /\ Len(Tail(s)) = Len(s) - 1 /\ Len(s) \in Nat /\ Len(s) # 0
      /\ Head(s) = s[1]
      /\ \A n \in 1..Len(Tail(s)) : Tail(s)[n] = s[n + 1]
  OBVIOUS
<1>r1. \A x : x \in Range(s) <=> \E n \in 1..Len(s) : x = s[n]
  BY RangeOfSeq
<1>r2. \A x : x \in Range(Tail(s)) <=> \E n \in 1..Len(Tail(s)) : x = Tail(s)[n]
  BY <1>1, RangeOfSeq
<1>2. \A m, n \in 1..Len(Tail(s)) : Tail(s)[m] = Tail(s)[n] => m = n
  BY <1>1
<1>3. Head(s) \in Range(s)
  BY <1>1, <1>r1, <1>r2
<1>4. ASSUME NEW x \in Range(Tail(s)) PROVE x \in Range(s) \ {Head(s)}
  <2>1. PICK n \in 1..Len(Tail(s)) : x = Tail(s)[n]
    BY <1>1, <1>r1, <1>r2
  <2>2. x = s[n + 1] /\ n + 1 \in 1..Len(s) /\ n + 1 # 1 /\ 1 \in 1..Len(s)
    BY <1>1, <2>1
  <2> QED
    BY <1>1, <2>2, <1>r1, <1>r2
<1>5. ASSUME NEW x \in Range(s) \ {Head(s)} PROVE x \in Range(Tail(s))
  <2>1. PICK n \in 1..Len(s) : x = s[n]
    BY <1>r1, <1>r2
  <2>2. n # 1
    BY <1>1, <2>1
  <2>3. n - 1 \in 1..Len(Tail(s)) /\ x = Tail(s)[n - 1]
    BY <1>1, <2>1, <2>2
  <2> QED
    BY <1>1, <2>3, <1>r1, <1>r2
<1> QED
  BY <1>2, <1>3, <1>4, <1>5

LEMMA AppendAddsLast ==
  ASSUME NEW S, NEW s \in Seq(S), NEW x \in S, x \notin Range(s),
         \A m, n \in 1..Len(s) : s[m] = s[n] => m = n
  PROVE  /\ Range(Append(s, x)) = Range(s) \cup {x}
         /\ \A m, n \in 1..Len(Append(s, x)) : Append(s, x)[m] = Append(s, x)[n] => m = n
<1> DEFINE a == Append(s, x)
<1>1. /\ a \in Seq(S) /\ Len(a) = Len(s) + 1 /\ Len(s) \in Nat /\ a[Len(s) + 1] = x
      /\ \A n \in 1..Len(s) : a[n] = s[n]
  OBVIOUS
<1>r1. \A y : y \in Range(s) <=> \E n \in 1..Len(s) : y = s[n]
  BY RangeOfSeq
<1>r2. \A y : y \in Range(a) <=> \E n \in 1..Len(a) : y = a[n]
  BY <1>1, RangeOfSeq
<1>2. \A n \in 1..Len(s) : s[n] # x
  BY <1>r1, <1>r2
<1>3. \A m, n \in 1..Len(a) : a[m] = a[n] => m = n
  BY <1>1, <1>2
<1>4. ASSUME NEW y \in Range(a) PROVE y \in Range(s) \cup {x}
  <2>1. PICK n \in 1..Len(a) : y = a[n]
    BY <1>1, <1>r1, <1>r2
  <2>2. n \in 1..Len(s) \/ n = Len(s) + 1
    BY <1>1
  <2> QED
    BY <1>1, <2>1, <2>2, <1>r1, <1>r2
<1>5. ASSUME NEW y \in Range(s) \cup {x} PROVE y \in Range(a)
  <2>1. CASE y = x
    <3>1. Len(s) + 1 \in 1..Len(a)
      BY <1>1
    <3> QED
      BY <1>1, <2>1, <3>1, <1>r1, <1>r2
  <2>2. CASE y \in Range(s)
    <3>1. PICK n \in 1..Len(s) : y = s[n]
      BY <2>2, <1>r1, <1>r2
    <3>2. n \in 1..Len(a) /\ a[n] = y
      BY <1>1, <3>1
    <3> QED
      BY <1>1, <3>2, <1>r1, <1>r2
  <2> QED
    BY <2>1, <2>2
<1> QED
  BY <1>3, <1>4, <1>5

\* The three ways a step of the extractor touches the queue, and the rest.
QueueKept == UNCHANGED queueVars /\ Status' \in {Status, "failed"}
QueueEmptied == UNCHANGED queueVars /\ contents = <<>> /\ Status = "open" /\ Status' = "finished"
QueueAdded == Status = "open" /\ Status' = "open" /\ \E x \in TypeQueueItem : Add(x)
QueueTaken == Status = "open" /\ Status' \in {"open", "failed"} /\ Dequeue

LEMMA QueueSteps ==
  ASSUME TypeOK, [Next]_vars
  PROVE  QueueKept \/ QueueEmptied \/ QueueAdded \/ QueueTaken
<1> USE DEF queueVars, vars
<1>j. JobTypeOK(job)
  BY JobFacts
<1>1. ASSUME NEW t \in Types, AddRoot(t) PROVE QueueKept \/ QueueAdded
  <2>1. Item(Home(t), t) \in TypeQueueItem
    BY <1>j DEF JobTypeOK, Home, Item, TypeQueueItem
  <2> QED
    BY <1>1, <2>1 DEF AddRoot, QueueKept, QueueAdded, Status
<1>2. ASSUME NEW t \in Types, BuildMapper(t) PROVE QueueKept
  BY <1>2 DEF BuildMapper, QueueKept, Status
<1>3. CASE SkipDirect \/ Panic \/ SkipRendered \/ DeclineStruct \/ BeginStruct
           \/ ExtractNamedCompound \/ ExtractShimmedSupported \/ BeginInterface
  <2>1. PICK k : Take(k)
    BY <1>3 DEF SkipDirect, Panic, SkipRendered, DeclineStruct, BeginStruct,
         ExtractNamedCompound, ExtractShimmedSupported, BeginInterface
  <2>2. phase' \in {phase, "panic", "error", "walk", "impls"}
    BY <1>3 DEF SkipDirect, Panic, SkipRendered, DeclineStruct, BeginStruct,
         ExtractNamedCompound, ExtractShimmedSupported, BeginInterface
  <2> QED
    BY <2>1, <2>2 DEF Take, QueueTaken, Status
<1>4. CASE Visit
  <2>1. Item(Home(cur.type), Head(todo)) \in TypeQueueItem
    <3>1. cur.type \in Types /\ Head(todo) \in Types
      BY <1>4 DEF Visit, TypeOK, TypeQueueItem
    <3> QED
      BY <3>1, <1>j DEF JobTypeOK, Home, Item, TypeQueueItem
  <2> QED
    BY <1>4, <2>1 DEF Visit, QueueAdded, Status
<1>5. CASE AddImplementer
  <2>1. Item(cur.origin, Head(todo)) \in TypeQueueItem
    BY <1>5 DEF AddImplementer, TypeOK, Item, TypeQueueItem
  <2> QED
    BY <1>5, <2>1 DEF AddImplementer, QueueAdded, QueueKept, Status
<1>6. CASE FinishStruct \/ FinishInterface
  BY <1>6 DEF FinishStruct, FinishInterface, QueueKept, Status
<1>7. CASE StartMappers
  BY <1>7 DEF StartMappers, QueueEmptied, Status
<1>8. CASE StartExtract \/ Finish \/ ExternalError
  BY <1>8 DEF StartExtract, Finish, ExternalError, QueueKept, Status
<1>9. CASE Halted \/ UNCHANGED vars
  BY <1>9 DEF Halted, QueueKept, Status
<1> QED
  BY <1>1, <1>2, <1>3, <1>4, <1>5, <1>6, <1>7, <1>8, <1>9 DEF Next, Handler

LEMMA AddKeepsQueueInv ==
  ASSUME TypeOK, QueueInv, QueueAdded
  PROVE  QueueInv' /\ (Queue!WNext \/ UNCHANGED queueVars)
<1>1. PICK x \in TypeQueueItem : Add(x)
  BY DEF QueueAdded
<1>2. CASE x \in seenItems
  BY <1>1, <1>2 DEF Add, queueVars, QueueInv, QueueAdded
<1>3. CASE x \notin seenItems
  <2>1. /\ contents' = Append(contents, x) /\ seenItems' = seenItems \cup {x}
        /\ contents \in Seq(TypeQueueItem) /\ x \notin Range(contents)
    BY <1>1, <1>3 DEF Add, TypeOK, QueueInv
  <2>2. /\ Range(contents') = Range(contents) \cup {x}
        /\ \A m, n \in 1..Len(contents') : contents'[m] = contents'[n] => m = n
    BY <2>1, AppendAddsLast DEF QueueInv
  <2>3. QueueInv'
    BY <2>1, <2>2 DEF QueueInv, QueueAdded
  <2>4. seenItems' \ Range(contents') = seenItems \ Range(contents)
    BY <2>1, <2>2, <1>3
  <2>5. Queue!Find(x)
    BY <2>1, <2>4, <1>3 DEF Queue!Find, QueueAdded
  <2> QED
    BY <2>3, <2>5 DEF Queue!WNext
<1> QED
  BY <1>2, <1>3

LEMMA DequeueKeepsQueueInv ==
  ASSUME TypeOK, QueueInv, QueueTaken
  PROVE  QueueInv' /\ Queue!WNext
<1> DEFINE x == Head(contents)
<1>1. /\ contents # <<>> /\ contents' = Tail(contents) /\ seenItems' = seenItems
      /\ contents \in Seq(TypeQueueItem) /\ x \in TypeQueueItem
  BY DEF QueueTaken, Dequeue, TypeOK
<1>2. /\ Range(contents') = Range(contents) \ {x} /\ x \in Range(contents)
      /\ \A m, n \in 1..Len(contents') : contents'[m] = contents'[n] => m = n
  BY <1>1, TailDropsHead DEF QueueInv
<1>3. QueueInv'
  BY <1>1, <1>2 DEF QueueInv, QueueTaken
<1>4. seenItems' \ Range(contents') = (seenItems \ Range(contents)) \cup {x}
  BY <1>1, <1>2 DEF QueueInv
<1>5. Queue!Handle(x)
  BY <1>1, <1>2, <1>4 DEF Queue!Handle, QueueInv, QueueTaken
<1> QED
  BY <1>1, <1>3, <1>5 DEF Queue!WNext

LEMMA QueueStepsRefine ==
  ASSUME TypeOK, QueueInv, [Next]_vars
  PROVE  QueueInv' /\ [Queue!WNext]_(Queue!wvars)
<1>1. CASE QueueKept
  <2>1. QueueInv'
    BY <1>1 DEF QueueKept, queueVars, QueueInv
  <2>2. CASE Status' = Status
    BY <1>1, <2>1, <2>2 DEF QueueKept, queueVars, Queue!wvars
  <2>3. CASE Status' = "failed"
    BY <1>1, <2>1, <2>3 DEF QueueKept, queueVars, Queue!Fail, Queue!WNext
  <2> QED
    BY <1>1, <2>1, <2>2, <2>3 DEF QueueKept
<1>2. CASE QueueEmptied
  <2>1. QueueInv'
    BY <1>2 DEF QueueEmptied, queueVars, QueueInv
  <2>2. Range(contents) = {}
    BY <1>2 DEF QueueEmptied, Range
  <2>3. Queue!Finish
    BY <1>2, <2>2 DEF QueueEmptied, queueVars, Queue!Finish
  <2> QED
    BY <2>1, <2>3 DEF Queue!WNext
<1>3. CASE QueueAdded
  BY <1>3, AddKeepsQueueInv DEF QueueAdded, queueVars, Queue!wvars
<1>4. CASE QueueTaken
  BY <1>4, DequeueKeepsQueueInv
<1> QED
  BY <1>1, <1>2, <1>3, <1>4, QueueSteps

\* The queue is a work list: each pair of origin and type is handled once,
\* and the mappers wait for all of them.
THEOREM QueueRefinesWorklist == Spec => QueueIsWorklist
<1>1. Init => QueueInv /\ Queue!WInit
  BY DEF Init, NewTypeQueue, QueueInv, Queue!WInit, Status, Range
<1>2. TypeOK /\ QueueInv /\ [Next]_vars => QueueInv' /\ [Queue!WNext]_(Queue!wvars)
  BY QueueStepsRefine
<1>3. QED
  BY <1>1, <1>2, TypeCorrect, PTL DEF Spec, QueueIsWorklist, Queue!WSpec
----------------------------------------------------------------------------
(***************************************************************************)
(* The mappers.  Neither error of the mapper loop can be raised, because   *)
(* an interface is only ever queued for a package whose directives have    *)
(* been loaded, and the loop over its implementers ends before the mappers *)
(* are begun.                                                              *)
(***************************************************************************)
IsInterface(t) == job.kind[t] = "interface"

RootsInv == rootsLeft \subseteq job.roots

OriginsCached == \A x \in seenItems : IsInterface(x.type) => x.origin \in cached

LoopInv ==
  /\ phase = "walk" => Home(cur.type) \in cached
  /\ phase = "impls" => cur \in seenItems /\ IsInterface(cur.type)

IfacesCached == \A i \in Types : Range(inPackages[i]) \subseteq cached

ImplsHaveIds ==
  phase # "error" =>
    \A i \in ifaces : \A t \in Range(job.impls[i]) \ job.hidden :
      t \in DOMAIN ids \/ (phase = "impls" /\ cur.type = i /\ t \in Range(todo))

MapperInv ==
  /\ RootsInv /\ OriginsCached /\ LoopInv /\ IfacesCached /\ ImplsHaveIds

\* Directives stay loaded, IDs stay given, the job does not change.
LEMMA Grows ==
  ASSUME TypeOK, [Next]_vars
  PROVE  cached \subseteq cached' /\ DOMAIN ids \subseteq DOMAIN ids' /\ job' = job
<1> USE DEF dctvVars, vars
<1>1. DOMAIN ids \subseteq DOMAIN ids'
  BY StateSteps DEF stateVars, EnsureType
<1> SUFFICES cached \subseteq cached' /\ job' = job
  BY <1>1
<1>2. ASSUME NEW t \in Types, AddRoot(t) \/ BuildMapper(t)
      PROVE  cached \subseteq cached' /\ job' = job
  BY <1>2 DEF AddRoot, BuildMapper
<1>3. CASE SkipDirect \/ Panic \/ SkipRendered \/ BeginInterface \/ FinishInterface
           \/ AddImplementer \/ Visit
  BY <1>3 DEF SkipDirect, Panic, SkipRendered, BeginInterface, FinishInterface,
       AddImplementer, Visit
<1>4. CASE DeclineStruct \/ BeginStruct \/ ExtractNamedCompound
  BY <1>4 DEF DeclineStruct, BeginStruct, ExtractNamedCompound, Ensure
<1>5. CASE FinishStruct \/ ExtractShimmedSupported
  BY <1>5 DEF FinishStruct, ExtractShimmedSupported, EnsureAndAdd
<1>6. CASE StartExtract \/ StartMappers \/ Finish \/ ExternalError \/ Halted
  BY <1>6 DEF StartExtract, StartMappers, Finish, ExternalError, Halted
<1> QED
  BY <1>2, <1>3, <1>4, <1>5, <1>6 DEF Next, Handler

LEMMA TailKeepsRest ==
  ASSUME NEW S, NEW s \in Seq(S), NEW x \in Range(s), x # Head(s)
  PROVE  s # <<>> /\ x \in Range(Tail(s))
<1>1. PICK n \in 1..Len(s) : x = s[n]
  BY RangeOfSeq
<1>2. /\ s # <<>> /\ Tail(s) \in Seq(S) /\ n # 1
      /\ n - 1 \in 1..Len(Tail(s)) /\ Tail(s)[n - 1] = x
  BY <1>1
<1> QED
  BY <1>2, RangeOfSeq

\* Each action adds at most one item, and its origin has its directives.
LEMMA OriginsStayCached ==
  ASSUME TypeOK, MapperInv, [Next]_vars
  PROVE  OriginsCached'
<1> USE DEF queueVars, vars, MapperInv
<1>k. ASSUME UNCHANGED seenItems PROVE OriginsCached'
  BY <1>k, Grows DEF OriginsCached, IsInterface
<1>a. ASSUME NEW x, Add(x), IsInterface(x.type) => x.origin \in cached
      PROVE  OriginsCached'
  BY <1>a, Grows DEF OriginsCached, IsInterface, Add
<1>1. ASSUME NEW t \in Types, AddRoot(t) PROVE OriginsCached'
  <2>1. ~IsInterface(t)
    BY <1>1, JobFacts DEF AddRoot, RootsInv, WellFormed, IsInterface
  <2> QED
    BY <1>1, <2>1, <1>k, <1>a DEF AddRoot, Item
<1>2. CASE Visit
  BY <1>2, <1>a DEF Visit, Item, LoopInv
<1>3. CASE AddImplementer
  BY <1>3, <1>a, <1>k DEF AddImplementer, Item, LoopInv, OriginsCached
<1>4. ASSUME NEW t \in Types, BuildMapper(t) PROVE OriginsCached'
  BY <1>4, <1>k DEF BuildMapper
<1>5. CASE Handler /\ ~Visit /\ ~AddImplementer
  BY <1>5, <1>k DEF Handler, SkipDirect, Panic, SkipRendered, DeclineStruct, BeginStruct,
       FinishStruct, ExtractNamedCompound, ExtractShimmedSupported, BeginInterface,
       FinishInterface, Take, Dequeue
<1>6. CASE StartExtract \/ StartMappers \/ Finish \/ ExternalError \/ Halted \/ UNCHANGED vars
  BY <1>6, <1>k DEF StartExtract, StartMappers, Finish, ExternalError, Halted
<1> QED
  BY <1>1, <1>2, <1>3, <1>4, <1>5, <1>6 DEF Next

LEMMA LoopStaysReady ==
  ASSUME TypeOK, QueueInv, MapperInv, [Next]_vars
  PROVE  LoopInv'
<1> USE DEF queueVars, dctvVars, loopVars, vars, MapperInv
<1>g. cached \subseteq cached' /\ job' = job
  BY Grows
<1>1. CASE BeginStruct
  <2>1. Home(Head(contents).type) \in cached'
    BY <1>1 DEF BeginStruct, Ensure
  <2> QED
    BY <1>1, <2>1, <1>g DEF BeginStruct, LoopInv, Home
<1>2. CASE BeginInterface
  <2>1. Take("interface") /\ contents # <<>> /\ contents \in Seq(TypeQueueItem)
    BY <1>2 DEF BeginInterface, Take, Dequeue, TypeOK
  <2>2. Head(contents) \in seenItems' /\ IsInterface(Head(contents).type)
    BY <2>1, TailDropsHead DEF QueueInv, Take, Dequeue, IsInterface
  <2>3. phase' # "walk" /\ (phase' = "impls" => cur' = Head(contents))
    BY <1>2 DEF BeginInterface
  <2> QED
    BY <2>2, <2>3, <1>g DEF LoopInv, IsInterface
<1>3. CASE Visit \/ AddImplementer
  BY <1>3, <1>g DEF Visit, AddImplementer, LoopInv, Add, Home, IsInterface
<1>4. CASE phase' \notin {"walk", "impls"}
  BY <1>4 DEF LoopInv
<1>5. CASE UNCHANGED vars
  BY <1>5 DEF LoopInv, Home, IsInterface
<1>6. ASSUME NEW t \in Types, AddRoot(t) \/ BuildMapper(t)
      PROVE  phase' \notin {"walk", "impls"}
  BY <1>6 DEF AddRoot, BuildMapper
<1>7. ASSUME Handler, ~BeginStruct, ~BeginInterface, ~Visit, ~AddImplementer
      PROVE  phase' \notin {"walk", "impls"}
  BY <1>7 DEF Handler, SkipDirect, Panic, SkipRendered, DeclineStruct, FinishStruct,
       ExtractNamedCompound, ExtractShimmedSupported, FinishInterface, Take
<1>8. ASSUME StartExtract \/ StartMappers \/ Finish \/ ExternalError
      PROVE  phase' \notin {"walk", "impls"}
  BY <1>8 DEF StartExtract, StartMappers, Finish, ExternalError
<1> QED
  BY <1>1, <1>2, <1>3, <1>4, <1>5, <1>6, <1>7, <1>8 DEF Next, Halted

LEMMA IfacesStayCached ==
  ASSUME TypeOK, MapperInv, [Next]_vars
  PROVE  IfacesCached'
<1> USE DEF ifaceVars, vars, MapperInv
<1>g. cached \subseteq cached'
  BY Grows
<1>1. CASE FinishInterface
  <2>1. /\ cur.origin \in cached /\ cur.origin \in Packages /\ cur.type \in Types
        /\ inPackages \in [Types -> Seq(Packages)]
    BY <1>1 DEF FinishInterface, LoopInv, OriginsCached, TypeOK, TypeQueueItem
  <2>2. ASSUME NEW i \in Types, NEW p \in Range(inPackages'[i])
        PROVE  p \in Range(inPackages[i]) \/ p = cur.origin
    <3>1. CASE i # cur.type
      BY <1>1, <2>1, <2>2, <3>1 DEF FinishInterface
    <3>2. CASE i = cur.type
      <4>1. inPackages'[i] = Append(inPackages[i], cur.origin) /\ inPackages[i] \in Seq(Packages)
        BY <1>1, <2>1, <3>2 DEF FinishInterface
      <4>2. inPackages'[i] \in Seq(Packages)
        BY <4>1, <2>1
      <4>3. PICK n \in 1..Len(inPackages'[i]) : p = inPackages'[i][n]
        BY <4>2, <2>2, RangeOfSeq
      <4>4. CASE n = Len(inPackages[i]) + 1
        BY <4>1, <4>3, <4>4
      <4>5. CASE n # Len(inPackages[i]) + 1
        <5>1. n \in 1..Len(inPackages[i]) /\ p = inPackages[i][n]
          BY <4>1, <4>3, <4>5
        <5> QED
          BY <4>1, <5>1, RangeOfSeq
      <4> QED
        BY <4>4, <4>5
    <3> QED
      BY <3>1, <3>2
  <2> QED
    BY <2>1, <2>2, <1>g DEF IfacesCached
<1>2. ASSUME UNCHANGED inPackages PROVE IfacesCached'
  BY <1>2, <1>g DEF IfacesCached
<1>3. ASSUME NEW t \in Types, AddRoot(t) \/ BuildMapper(t) PROVE UNCHANGED inPackages
  BY <1>3 DEF AddRoot, BuildMapper
<1>4. ASSUME Handler, ~FinishInterface PROVE UNCHANGED inPackages
  BY <1>4 DEF Handler, SkipDirect, Panic, SkipRendered, DeclineStruct, BeginStruct, Visit,
       FinishStruct, ExtractNamedCompound, ExtractShimmedSupported, BeginInterface,
       AddImplementer
<1>5. ASSUME StartExtract \/ StartMappers \/ Finish \/ ExternalError \/ Halted \/ UNCHANGED vars
      PROVE  UNCHANGED inPackages
  BY <1>5 DEF StartExtract, StartMappers, Finish, ExternalError, Halted
<1> QED
  BY <1>1, <1>2, <1>3, <1>4, <1>5 DEF Next

LEMMA ImplsKeepIds ==
  ASSUME TypeOK, MapperInv, [Next]_vars
  PROVE  ImplsHaveIds'
<1> USE DEF ifaceVars, loopVars, vars, MapperInv
<1>g. DOMAIN ids \subseteq DOMAIN ids' /\ job' = job
  BY Grows
<1>1. CASE BeginInterface
  <2> DEFINE x == Head(contents)
  <2>1. phase = "extract"
    BY <1>1 DEF BeginInterface, Take
  <2>2. CASE phase' = "error"
    BY <2>2 DEF ImplsHaveIds
  <2>3. CASE /\ phase' = "impls" /\ cur' = x /\ ifaces' = ifaces \cup {x.type}
             /\ todo' = IF x.type \in ifaces THEN <<>> ELSE job.impls[x.type]
    <3>1. ASSUME NEW i \in ifaces', NEW t \in Range(job.impls[i]) \ job.hidden,
                 t \notin DOMAIN ids
          PROVE  i = x.type /\ i \notin ifaces
      BY <2>1, <2>3, <3>1 DEF ImplsHaveIds
    <3> QED
      BY <2>3, <3>1, <1>g DEF ImplsHaveIds
  <2> QED
    BY <1>1, <2>2, <2>3 DEF BeginInterface
<1>2. CASE AddImplementer
  <2>1. /\ phase = "impls" /\ phase' = "impls" /\ cur' = cur /\ ifaces' = ifaces
        /\ todo' = Tail(todo) /\ todo \in Seq(Types) /\ todo # <<>>
        /\ Head(todo) \in job.hidden \/ EnsureType(Head(todo))
    BY <1>2 DEF AddImplementer, TypeOK
  <2>2. Head(todo) \in job.hidden \/ Head(todo) \in DOMAIN ids'
    BY <2>1 DEF EnsureType, stateVars
  <2>3. ASSUME NEW i \in ifaces, NEW t \in Range(job.impls[i]) \ job.hidden
        PROVE  t \in DOMAIN ids' \/ (cur.type = i /\ t \in Range(Tail(todo)))
    <3>1. CASE t \in DOMAIN ids \/ t = Head(todo)
      BY <2>2, <2>3, <3>1, <1>g
    <3>2. CASE t \notin DOMAIN ids /\ t # Head(todo)
      <4>1. cur.type = i /\ t \in Range(todo)
        BY <2>1, <2>3, <3>2 DEF ImplsHaveIds
      <4> QED
        BY <2>1, <3>2, <4>1, TailKeepsRest
    <3> QED
      BY <3>1, <3>2
  <2> QED
    BY <2>1, <2>3, <1>g DEF ImplsHaveIds
<1>3. CASE FinishInterface
  <2>1. Range(todo) = {} /\ phase = "impls" /\ ifaces' = ifaces
    BY <1>3 DEF FinishInterface, Range
  <2> QED
    BY <2>1, <1>g DEF ImplsHaveIds
<1>4. ASSUME phase' = "error" \/ (UNCHANGED ifaces /\ phase \notin {"impls", "error"})
      PROVE  ImplsHaveIds'
  BY <1>4, <1>g DEF ImplsHaveIds
<1>5. ASSUME NEW t \in Types, AddRoot(t) \/ BuildMapper(t)
      PROVE  UNCHANGED ifaces /\ phase \notin {"impls", "error"}
  BY <1>5 DEF AddRoot, BuildMapper
<1>6. ASSUME Handler, ~BeginInterface, ~AddImplementer, ~FinishInterface
      PROVE  UNCHANGED ifaces /\ phase \notin {"impls", "error"}
  BY <1>6 DEF Handler, SkipDirect, Panic, SkipRendered, DeclineStruct, BeginStruct, Visit,
       FinishStruct, ExtractNamedCompound, ExtractShimmedSupported, Take
<1>7. ASSUME StartExtract \/ StartMappers \/ Finish \/ ExternalError
      PROVE  phase' = "error" \/ (UNCHANGED ifaces /\ phase \notin {"impls", "error"})
  BY <1>7 DEF StartExtract, StartMappers, Finish, ExternalError
<1>8. CASE Halted \/ UNCHANGED vars
  BY <1>8, <1>g DEF Halted, ImplsHaveIds
<1> QED
  BY <1>1, <1>2, <1>3, <1>4, <1>5, <1>6, <1>7, <1>8 DEF Next

LEMMA MapperInvariant == Spec => [](QueueInv /\ MapperInv)
<1>1. Init => QueueInv /\ MapperInv
  <2> SUFFICES ASSUME Init PROVE QueueInv /\ MapperInv
    OBVIOUS
  <2>1. QueueInv
    BY DEF Init, NewTypeQueue, QueueInv, Status, Range
  <2>2. ASSUME NEW i \in Types PROVE Range(inPackages[i]) = {}
    <3>1. inPackages[i] = <<>>
      BY DEF Init
    <3> QED
      BY <3>1 DEF Range
  <2> QED
    BY <2>1, <2>2 DEF Init, NewTypeQueue, MapperInv, RootsInv, OriginsCached, LoopInv,
         IfacesCached, ImplsHaveIds
<1>2. TypeOK /\ QueueInv /\ MapperInv /\ [Next]_vars => QueueInv' /\ MapperInv'
  <2> SUFFICES ASSUME TypeOK, QueueInv, MapperInv, [Next]_vars PROVE QueueInv' /\ MapperInv'
    OBVIOUS
  <2>1. RootsInv'
    <3>1. rootsLeft' \subseteq rootsLeft
      <4>1. ASSUME NEW t \in Types, AddRoot(t) \/ BuildMapper(t)
            PROVE  rootsLeft' \subseteq rootsLeft
        BY <4>1 DEF AddRoot, BuildMapper, loopVars
      <4>2. ASSUME Handler PROVE rootsLeft' = rootsLeft
        <5>1. CASE SkipDirect \/ Panic \/ SkipRendered \/ DeclineStruct \/ BeginStruct
          BY <5>1 DEF SkipDirect, Panic, SkipRendered, DeclineStruct, BeginStruct, loopVars
        <5>2. CASE Visit \/ FinishStruct \/ ExtractNamedCompound \/ ExtractShimmedSupported
          BY <5>2 DEF Visit, FinishStruct, ExtractNamedCompound, ExtractShimmedSupported,
               loopVars
        <5>3. CASE BeginInterface \/ AddImplementer \/ FinishInterface
          BY <5>3 DEF BeginInterface, AddImplementer, FinishInterface
        <5> QED
          BY <4>2, <5>1, <5>2, <5>3 DEF Handler
      <4>3. ASSUME StartExtract \/ StartMappers \/ Finish \/ ExternalError \/ Halted
                   \/ UNCHANGED vars
            PROVE  rootsLeft' = rootsLeft
        BY <4>3 DEF StartExtract, StartMappers, Finish, ExternalError, Halted, vars, loopVars
      <4> QED
        BY <4>1, <4>2, <4>3 DEF Next
    <3> QED
      BY <3>1, Grows DEF MapperInv, RootsInv
  <2> QED
    BY <2>1, QueueStepsRefine, OriginsStayCached, LoopStaysReady, IfacesStayCached,
       ImplsKeepIds DEF MapperInv
<1> QED
  BY <1>1, <1>2, TypeCorrect, PTL DEF Spec

\* The errors of the mapper loop are never raised: where a mapper is built,
\* the directives are loaded and every type of its switch has an ID.
THEOREM MappersAlwaysReady == Spec => []MapperReady
<1>1. TypeOK /\ MapperInv => MapperReady
  <2> SUFFICES ASSUME TypeOK, MapperInv, phase = "mappers", NEW i \in ifaces,
                      NEW p \in Range(inPackages[i])
               PROVE  p \in cached /\ Mapped(i, p) \subseteq DOMAIN ids
    BY DEF MapperReady
  <2> QED
    BY DEF TypeOK, MapperInv, IfacesCached, ImplsHaveIds, Mapped
<1> QED
  BY <1>1, MapperInvariant, TypeCorrect, PTL
=============================================================================
