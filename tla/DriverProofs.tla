---------------------------- MODULE DriverProofs ----------------------------
(***************************************************************************)
(* What the driver keeps from run to run, for every program, command line  *)
(* and state file: it gives the extraction what JobsAssumption asks of its *)
(* callers, and the roots it should, whatever the search carries along;    *)
(* and a run on the same sources writes what the run before has written,   *)
(* as what an extraction writes is a function of what its roots reach.     *)
(***************************************************************************)
EXTENDS Driver, OutputProofs, FiniteSetTheorems

Concrete(S) == \A t \in S : job.kind[t] # "interface"

\* The file can be loaded: State.Init would not refuse it.
FileLoads ==
  /\ DOMAIN file \subseteq Types
  /\ file \in [DOMAIN file -> Int]
  /\ \A s, t \in DOMAIN file : file[s] = file[t] => s = t

\* What gets an ID is no interface; so neither is a root that comes from the file.
ConcreteInv ==
  /\ \A i \in Types : Concrete(Range(job.impls[i]))
  /\ phase = "impls" => Concrete(Range(todo))
  /\ Concrete(DOMAIN ids) /\ Concrete(DOMAIN file)

\* The roots from the file, and those for the first k interfaces.
Recorded == {t \in job.found : job.hasState /\ t \in DOMAIN file}
Searched(k) ==
  {t \in Structs : \E n \in 1..k : /\ Present(given.flags[n])
                                   /\ t \in Range(job.impls[given.flags[n]])}

\* After k turns of FindIfaces the interface it has kept is one of the first k,
\* so that the search for it again adds nothing.
SearchAt(k) ==
  /\ Len(flags) = Len(given.flags) - k
  /\ \A n \in 1..Len(flags) : flags[n] = given.flags[k + n]
  /\ types = Recorded \cup Searched(k)
  /\ k = 0 => allNamed = {} /\ ifaceNamed = NoItem
  /\ k > 0 => /\ allNamed = Structs
              /\ Present(given.flags[1])
              /\ \E n \in 1..k : Present(given.flags[n]) /\ ifaceNamed = given.flags[n]

SearchInv ==
  /\ at = "idle" => allNamed = {} /\ ifaceNamed = NoItem
  /\ at = "ifaces" => \E k \in 0..Len(given.flags) : SearchAt(k)
  /\ RootsRight

RunsInv == at # "idle" => good < runs

DInv ==
  /\ DriverTypeOK /\ given \in [flags : Flags, scanned : Scanned]
  /\ IdsUnique /\ IdsBelow /\ FileLoads /\ ConcreteInv /\ SearchInv /\ RunsInv
----------------------------------------------------------------------------
LEMMA GivenFacts ==
  ASSUME DInv
  PROVE  /\ given.flags \in Seq(Types)
         /\ Structs \subseteq Types
         /\ \A i : Present(i) => i \in Types /\ i # NoItem
<1>1. JobTypeOK(job)
  BY JobFacts DEF DInv, DriverTypeOK
<1>2. job.found \subseteq Types
  BY <1>1 DEF JobTypeOK
<1>3. given.flags \in Seq(Types)
  BY DriverAssumption DEF DInv
<1>4. NoItem \notin Types
  BY DriverAssumption
<1> QED
  BY <1>2, <1>3, <1>4 DEF Structs, Present

\* The initial numbers of a state are above what it holds.
LEMMA LoadedState ==
  ASSUME NEW m, DOMAIN m \subseteq Types, m \in [DOMAIN m -> Int], LoadState(m),
         \A s, t \in DOMAIN m : m[s] = m[t] => s = t
  PROVE  /\ ids' = m /\ nextID' \in Int /\ IdsUnique' /\ IdsBelow'
<1>1. PICK max \in MaxID(m) : nextID' = max + 1
  BY DEF LoadState, NextIDPast
<1>2. max \in Int /\ \A t \in DOMAIN m : m[t] <= max
  BY <1>1 DEF MaxID
<1>3. ids' = m
  BY DEF LoadState
<1> QED
  BY <1>1, <1>2, <1>3 DEF IdsUnique, IdsBelow

\* What Forget leaves of the extraction and of the search.
LEMMA ForgetKeeps ==
  ASSUME DInv, Forget
  PROVE  /\ TypeOK' /\ IdsUnique' /\ IdsBelow'
         /\ DOMAIN ids' = {} /\ phase' # "impls"
         /\ \A f \in JobFields \ {"roots", "ids"} : job'[f] = job[f]
         /\ flags' = <<>> /\ allNamed' = {} /\ ifaceNamed' = NoItem /\ types' = {}
<1>1. JobTypeOK(job) /\ WellFormed(job)
  BY JobFacts DEF DInv, DriverTypeOK
<1>2. DOMAIN job' = JobFields /\ job'.roots = {} /\ job'.ids = <<>>
  BY <1>1 DEF Forget, JobTypeOK, JobFields
<1>3. \A f \in JobFields \ {"roots", "ids"} : job'[f] = job[f]
  BY <1>1 DEF Forget, JobTypeOK, JobFields
<1>4. DOMAIN <<>> = {}
  OBVIOUS
 <1>f. /\ job'.kind = job.kind /\ job'.home = job.home /\ job'.refs = job.refs
      /\ job'.impls = job.impls /\ job'.hidden = job.hidden /\ job'.user = job.user
      /\ job'.shims = job.shims /\ job'.ignores = job.ignores /\ job'.found = job.found
      /\ job'.hasState = job.hasState /\ job'.allowExtra = job.allowExtra
      /\ job'.private = job.private /\ job'.joined = job.joined
      /\ job'.Unexported = job.Unexported
  BY <1>3 DEF JobFields
<1>5. JobTypeOK(job') /\ WellFormed(job')
  <2>1. JobTypeOK(job')
    BY <1>1, <1>2, <1>4, <1>f DEF JobTypeOK
  <2>2. WellFormed(job')
    BY <1>1, <1>2, <1>4, <1>f DEF WellFormed
  <2> QED
    BY <2>1, <2>2
<1>6. ids' = <<>> /\ nextID' \in Int /\ IdsUnique' /\ IdsBelow'
  <2> DEFINE m == <<>>
  <2>1. DOMAIN m \subseteq Types /\ m \in [DOMAIN m -> Int]
    BY <1>4
  <2>2. \A s, t \in DOMAIN m : m[s] = m[t] => s = t
    BY <1>4
  <2>3. LoadState(m)
    BY DEF Forget
  <2> HIDE DEF m
  <2>4. ids' = m /\ nextID' \in Int /\ IdsUnique' /\ IdsBelow'
    BY <2>1, <2>2, <2>3, LoadedState
  <2> QED
    BY <2>4 DEF m
<1>7. TypeOK'
  <2>1. contents' \in Seq(TypeQueueItem) /\ todo' \in Seq(Types)
    BY DEF Forget
  <2>2. /\ tempOutput' \in [Packages -> Seq(Types)] /\ inPackages' \in [Types -> Seq(Packages)]
        /\ extraOutput' \in
             [Packages -> Seq([iface : Types, types : SUBSET Types, shimmed : SUBSET Types])]
    BY DEF Forget
  <2>3. DOMAIN ids' \subseteq Types /\ ids' \in [DOMAIN ids' -> Int]
    BY <1>4, <1>6
  <2>4. /\ mapped' \in [Types -> Nat] /\ directives' \in [Packages -> SUBSET Directive]
        /\ seenItems' = {} /\ cached' = {} /\ ifaces' = {} /\ tempRendered' = {} /\ rootsLeft' = {}
        /\ phase' = "roots" /\ cur' = NoItem
    BY DEF Forget
  <2> QED
    BY <1>5, <1>6, <2>1, <2>2, <2>3, <2>4 DEF TypeOK, Running
<1> QED
  BY <1>3, <1>4, <1>6, <1>7 DEF Forget
----------------------------------------------------------------------------
LEMMA InitDInv == DInit => DInv
<1> SUFFICES ASSUME DInit PROVE DInv
  OBVIOUS
<1>1. TypeOK /\ IdsUnique /\ IdsBelow
  BY TypeInit, IdsInit DEF DInit
<1>2. JobTypeOK(job) /\ WellFormed(job)
  BY <1>1, JobFacts
<1>3. FileLoads
  BY <1>2 DEF DInit, FileLoads, JobTypeOK, WellFormed
<1>4. ConcreteInv
  <2>1. job \in Jobs /\ ids = job.ids /\ file = job.ids /\ phase = "roots"
    BY DEF DInit, Init, InitState
  <2> QED
    BY <2>1, ConcreteAssumption DEF ConcreteInv, Concrete
<1>5. given \in [flags : Flags, scanned : Scanned]
  BY DEF DInit
<1>6. DriverTypeOK
  BY <1>1, <1>3, DriverAssumption DEF DInit, DriverTypeOK, FileLoads
<1>7. SearchInv /\ RunsInv
  BY DEF DInit, SearchInv, RunsInv, RootsRight
<1> QED
  BY <1>1, <1>3, <1>4, <1>5, <1>6, <1>7 DEF DInv
----------------------------------------------------------------------------
\* A turn of FindIfaces: what it adds for an interface that it has searched
\* for before is there already.
LEMMA TurnKeeps ==
  ASSUME DInv, FindIface
  PROVE  SearchInv'
<1> DEFINE i == Head(flags)
           iface == IF Present(i) THEN i ELSE ifaceNamed
<1> USE DEF searchVars
<1>1. given.flags \in Seq(Types) /\ \A j : Present(j) => j \in Types /\ j # NoItem
  BY GivenFacts
<1>2. /\ at = "ifaces" /\ flags # <<>> /\ flags \in Seq(Types)
      /\ UNCHANGED <<job, given, file>>
  BY DEF FindIface, DInv, DriverTypeOK, extractorVars, vars
<1>3. Structs' = Structs /\ Recorded' = Recorded /\ \A j : Present(j)' = Present(j)
  BY <1>2 DEF Structs, Recorded, Present, Home
<1>4. \A k : Searched(k)' = Searched(k)
  BY <1>2, <1>3 DEF Searched
<1>5. PICK k \in 0..Len(given.flags) : SearchAt(k)
  BY <1>2 DEF DInv, SearchInv
<1>6. /\ k + 1 \in 1..Len(given.flags) /\ i = given.flags[k + 1]
      /\ flags' = Tail(flags) /\ Len(flags') = Len(given.flags) - (k + 1)
      /\ \A n \in 1..Len(flags') : flags'[n] = given.flags[(k + 1) + n]
  <2>1. Len(flags) \in Nat \ {0} /\ flags' = Tail(flags) /\ Len(given.flags) \in Nat
    BY <1>1, <1>2 DEF FindIface
  <2>2. /\ i = flags[1] /\ Len(flags') = Len(flags) - 1
        /\ \A n \in 1..Len(flags') : flags'[n] = flags[n + 1]
    BY <1>2, <2>1
  <2>3. k + 1 \in 1..Len(given.flags) /\ i = given.flags[k + 1]
    BY <1>5, <2>1, <2>2 DEF SearchAt
  <2>4. \A n \in 1..Len(flags') : flags'[n] = given.flags[(k + 1) + n]
    <3> TAKE n \in 1..Len(flags')
    <3>1. n + 1 \in 1..Len(flags) /\ n \in Nat
      BY <2>1, <2>2
    <3>2. flags[n + 1] = given.flags[k + (n + 1)]
      BY <1>5, <3>1 DEF SearchAt
    <3> QED
      BY <2>2, <3>1, <3>2
  <2> QED
    BY <1>5, <2>1, <2>2, <2>3, <2>4 DEF SearchAt
<1>7. CASE iface = NoItem
  <2>1. at' = "failed"
    BY <1>7 DEF FindIface
  <2> QED
    BY <2>1 DEF SearchInv, RootsRight
<1>8. CASE iface # NoItem
  <2>1. /\ at' = at /\ ifaceNamed' = iface
        /\ allNamed' = allNamed \cup Structs
        /\ types' = types \cup (Range(job.impls[iface]) \cap allNamed')
    BY <1>8 DEF FindIface
  <2>2. allNamed' = Structs
    BY <1>5, <2>1 DEF SearchAt
  <2>3. \E n \in 1..(k + 1) : Present(given.flags[n]) /\ iface = given.flags[n]
    <3>1. CASE Present(i)
      BY <1>5, <1>6, <3>1
    <3>2. CASE ~Present(i)
      BY <1>5, <1>8, <3>2 DEF SearchAt
    <3> QED
      BY <3>1, <3>2
  <2>4. Present(given.flags[1])
    <3>1. CASE k = 0
      BY <1>8, <1>5, <1>6, <3>1 DEF SearchAt
    <3>2. CASE k # 0
      BY <1>5, <3>2 DEF SearchAt
    <3> QED
      BY <3>1, <3>2
  <2>5. Present(given.flags[k + 1]) => iface = given.flags[k + 1]
    BY <1>6
  <2>6. Searched(k + 1) = Searched(k) \cup (Range(job.impls[iface]) \cap Structs)
    <3>1. \A n \in 1..(k + 1) : n \in 1..k \/ n = k + 1
      BY <1>5
    <3>2. 1..k \subseteq 1..(k + 1)
      BY <1>5
    <3> HIDE DEF i, iface
    <3>3. Searched(k + 1) \subseteq Searched(k) \cup (Range(job.impls[iface]) \cap Structs)
      BY <2>5, <3>1 DEF Searched
    <3>4. Searched(k) \subseteq Searched(k + 1)
      BY <3>2 DEF Searched
    <3>5. Range(job.impls[iface]) \cap Structs \subseteq Searched(k + 1)
      BY <2>3 DEF Searched
    <3> QED
      BY <3>3, <3>4, <3>5
  <2>7. types' = Recorded \cup Searched(k + 1)
    BY <1>5, <2>1, <2>2, <2>6 DEF SearchAt
  <2>8. SearchAt(k + 1)'
    <3> HIDE DEF i, iface
    <3>1. k + 1 > 0 /\ k + 1 # 0
      BY <1>5
    <3>2. types' = Recorded' \cup Searched(k + 1)'
      BY <1>3, <1>4, <2>7
    <3>3. allNamed' = Structs' /\ Present(given.flags[1])'
      BY <1>2, <1>3, <2>2, <2>4 DEF Present, Home
    <3>4. \E n \in 1..(k + 1) : Present(given.flags[n])' /\ ifaceNamed' = given'.flags[n]
      BY <1>2, <1>3, <2>1, <2>3 DEF Present, Home
    <3> QED
      BY <1>2, <1>6, <3>1, <3>2, <3>3, <3>4 DEF SearchAt
  <2>9. k + 1 \in 0..Len(given'.flags)
    BY <1>2, <1>5, <1>6
  <2> QED
    BY <1>2, <2>1, <2>8, <2>9 DEF SearchInv, RootsRight
<1> QED
  BY <1>7, <1>8

\* Steps of the driver that leave the extraction alone.
LEMMA SearchSteps ==
  ASSUME DInv, Load \/ LoadFails \/ FindIface \/ NoTypes
  PROVE  DInv'
<1> USE DEF driverVars, searchVars
<1>1. /\ UNCHANGED <<extractorVars, given, file, good, before>>
      /\ TypeOK /\ IdsUnique /\ IdsBelow /\ FileLoads /\ ConcreteInv
  BY DEF DInv, DriverTypeOK, Load, LoadFails, FindIface, NoTypes
<1>2. TypeOK' /\ IdsUnique' /\ IdsBelow' /\ FileLoads' /\ ConcreteInv'
  <2> USE DEF extractorVars, vars, outVars, ifaceVars, loopVars, queueVars, dctvVars, stateVars
  <2>1. TypeOK'
    BY <1>1 DEF TypeOK
  <2>2. IdsUnique' /\ IdsBelow' /\ FileLoads' /\ ConcreteInv'
    BY <1>1 DEF IdsUnique, IdsBelow, FileLoads, ConcreteInv, Concrete
  <2> QED
    BY <2>1, <2>2
<1>3. /\ UNCHANGED <<job, Structs, Recorded>> /\ given' \in [flags : Flags, scanned : Scanned]
      /\ DOMAIN Written' = DOMAIN Written
  <2>1. DOMAIN Written' = DOMAIN Written
    BY DEF Written
  <2> QED
    BY <1>1, <2>1 DEF DInv, extractorVars, vars, Structs, Home, Recorded
<1>4. /\ given.flags \in Seq(Types) /\ Structs \subseteq Types
      /\ \A i : Present(i) => i \in Types /\ i # NoItem
  BY GivenFacts
<1>5. DriverTypeOK' /\ RunsInv'
  <2>1. CASE Load
    BY <1>1, <1>2, <1>3, <1>4, <2>1, DriverAssumption DEF Load, DInv, DriverTypeOK, RunsInv, FileLoads
  <2>2. CASE LoadFails \/ NoTypes
    BY <1>1, <1>2, <1>3, <1>4, <2>2, DriverAssumption
      DEF LoadFails, NoTypes, DInv, DriverTypeOK, RunsInv, FileLoads
  <2>3. CASE FindIface
    BY <1>1, <1>2, <1>3, <1>4, <2>3 DEF FindIface, DInv, DriverTypeOK, RunsInv, FileLoads
  <2> QED
    BY <2>1, <2>2, <2>3
<1>6. \A k : Searched(k)' = Searched(k)
  BY <1>1, <1>3 DEF Searched, Present, Home
<1>7. SearchInv'
  <2>1. CASE Load
    <3>1. SearchAt(0)'
      <4>1. types' = Recorded' \cup Searched(0)'
        BY <1>3, <1>6, <2>1 DEF Load, Recorded, Searched
      <4> QED
        BY <1>1, <1>4, <2>1, <4>1 DEF Load, SearchAt, DInv, SearchInv
    <3> QED
      BY <1>1, <1>4, <2>1, <3>1 DEF Load, SearchInv, RootsRight
  <2>2. CASE LoadFails \/ NoTypes
    BY <2>2 DEF LoadFails, NoTypes, DInv, SearchInv, RootsRight
  <2>3. CASE FindIface
    BY <2>3, TurnKeeps
  <2> QED
    BY <2>1, <2>2, <2>3
<1> QED
  BY <1>2, <1>3, <1>5, <1>7 DEF DInv
----------------------------------------------------------------------------
\* Which steps of the extraction the two parts of ConcreteInv depend on.
LEMMA OnlyImplementersGetIds ==
  ASSUME [Next]_vars, ~AddImplementer
  PROVE  UNCHANGED ids
<1> USE DEF stateVars, vars
<1>1. CASE \E t \in Types : AddRoot(t) \/ BuildMapper(t)
  BY <1>1 DEF AddRoot, BuildMapper
<1>2. CASE Handler
  BY <1>2 DEF Handler, SkipDirect, Panic, SkipRendered, DeclineStruct, BeginStruct, Visit,
       FinishStruct, ExtractNamedCompound, ExtractShimmedSupported, BeginInterface,
       FinishInterface
<1>3. CASE StartExtract \/ StartMappers \/ Finish \/ ExternalError \/ Halted
  BY <1>3 DEF StartExtract, StartMappers, Finish, ExternalError, Halted
<1> QED
  BY <1>1, <1>2, <1>3 DEF Next

LEMMA ImplsBeginOnce ==
  ASSUME [Next]_vars, ~AddImplementer
  PROVE  BeginInterface \/ (phase' = "impls" => phase = "impls" /\ todo' = todo)
<1> USE DEF loopVars, vars
<1>1. CASE \E t \in Types : AddRoot(t) \/ BuildMapper(t)
  BY <1>1 DEF AddRoot, BuildMapper
<1>2. CASE Handler /\ ~BeginInterface
  BY <1>2 DEF Handler, Take, SkipDirect, Panic, SkipRendered, DeclineStruct, BeginStruct, Visit,
       FinishStruct, ExtractNamedCompound, ExtractShimmedSupported, FinishInterface
<1>3. CASE StartExtract \/ StartMappers \/ Finish \/ ExternalError \/ Halted
  BY <1>3 DEF StartExtract, StartMappers, Finish, ExternalError, Halted
<1> QED
  BY <1>1, <1>2, <1>3 DEF Next

----------------------------------------------------------------------------
\* The extraction gives an ID to what implements an interface, and changes
\* nothing that the search relies on.
LEMMA ExtractKeeps ==
  ASSUME DInv, Extract
  PROVE  DInv'
<1>1. TypeOK /\ IdsUnique /\ IdsBelow /\ [Next]_vars /\ UNCHANGED driverVars
  BY DEF DInv, DriverTypeOK, Extract
<1>2. TypeOK' /\ IdsUnique' /\ IdsBelow'
  BY <1>1, TypeStep, IdsStep
<1>3. job' = job
  BY <1>1, Grows
<1>4. UNCHANGED <<at, given, flags, allNamed, ifaceNamed, types, file, runs, good, before>>
  BY <1>1 DEF driverVars, searchVars
<1>5. FileLoads' /\ RunsInv'
  BY <1>4 DEF DInv, FileLoads, RunsInv
<1>6. DriverTypeOK'
  BY <1>2, <1>4 DEF DInv, DriverTypeOK, Written
<1>7. SearchInv'
  <2>1. at' = "extract"
    BY <1>4 DEF Extract
  <2>2. RootsRight'
    BY <1>3, <1>4 DEF DInv, SearchInv, RootsRight, Structs, Present, Home
  <2> QED
    BY <2>1, <2>2 DEF SearchInv
<1>8. ConcreteInv'
  <2>j. JobTypeOK(job)
    BY <1>1, JobFacts
  <2>1. ConcreteInv
    BY DEF DInv
  <2>2. \A i \in Types : Concrete(Range(job.impls[i]))'
    BY <1>3, <2>1 DEF ConcreteInv, Concrete
  <2>3. Concrete(DOMAIN file)'
    BY <1>3, <1>4, <2>1 DEF ConcreteInv, Concrete
  <2>4. CASE AddImplementer
    <3>1. Head(todo) \in Range(todo) /\ Range(Tail(todo)) \subseteq Range(todo)
      <4>1. todo \in Seq(Types) /\ todo # <<>>
        BY <1>1, <2>4 DEF AddImplementer, TypeOK
      <4> QED
        BY <4>1, RangeOfSeq DEF Range
    <3>2. Concrete(Range(todo)') /\ Concrete(DOMAIN ids')
      BY <2>1, <2>4, <3>1 DEF AddImplementer, ConcreteInv, Concrete, EnsureType, stateVars
    <3> QED
      BY <1>3, <2>2, <2>3, <3>2 DEF ConcreteInv, Concrete
  <2>5. CASE ~AddImplementer
    <3>1. UNCHANGED ids
      BY <1>1, <2>5, OnlyImplementersGetIds
    <3>2. phase' = "impls" => Concrete(Range(todo'))
      <4>1. CASE BeginInterface
        <5>1. Head(contents).type \in Types
          BY <1>1, <4>1, HeadTyped DEF BeginInterface, Take, Dequeue
        <5>2. CASE todo' = <<>>
          BY <5>2 DEF Range, Concrete
        <5>3. CASE todo' = job.impls[Head(contents).type]
          BY <2>1, <5>1, <5>3 DEF ConcreteInv
        <5> QED
          BY <4>1, <5>2, <5>3 DEF BeginInterface
      <4>2. CASE phase' = "impls" => phase = "impls" /\ todo' = todo
        BY <2>1, <4>2 DEF ConcreteInv
      <4> QED
        BY <1>1, <2>5, <4>1, <4>2, ImplsBeginOnce
    <3> QED
      BY <1>3, <2>1, <2>2, <2>3, <3>1, <3>2 DEF ConcreteInv, Concrete
  <2> QED
    BY <2>4, <2>5
<1> QED
  BY <1>2, <1>4, <1>5, <1>6, <1>7, <1>8 DEF DInv
----------------------------------------------------------------------------
\* What Generate is called with: roots and IDs that JobsAssumption allows.
LEMMA CallKeeps ==
  ASSUME DInv, CallGenerate
  PROVE  DInv'
<1>1. TypeOK /\ FileLoads /\ ConcreteInv /\ JobTypeOK(job) /\ at = "ifaces" /\ flags = <<>>
  BY JobFacts DEF DInv, DriverTypeOK, CallGenerate
<1>2. UNCHANGED <<given, flags, allNamed, ifaceNamed, types, file, runs, good, before>>
  BY DEF CallGenerate, searchVars
<1>3. PICK k \in 0..Len(given.flags) : SearchAt(k)
  BY <1>1 DEF DInv, SearchInv
<1>4. k = Len(given.flags)
  BY <1>1, <1>3, GivenFacts DEF SearchAt
<1>5. types = Recorded \cup Searched(k)
  BY <1>3 DEF SearchAt
<1>6. types \subseteq Types /\ Concrete(types)
  BY <1>1, <1>5 DEF Recorded, Searched, Structs, ConcreteInv, Concrete, DInv, DriverTypeOK
<1>7. /\ DOMAIN job' = JobFields /\ job'.roots = types /\ job'.ids = file
      /\ \A f \in JobFields \ {"roots", "ids"} : job'[f] = job[f]
  BY <1>1 DEF CallGenerate, JobTypeOK, JobFields
 <1>f. /\ job'.kind = job.kind /\ job'.home = job.home /\ job'.refs = job.refs
      /\ job'.impls = job.impls /\ job'.hidden = job.hidden /\ job'.user = job.user
      /\ job'.shims = job.shims /\ job'.ignores = job.ignores /\ job'.found = job.found
      /\ job'.hasState = job.hasState /\ job'.allowExtra = job.allowExtra
      /\ job'.private = job.private /\ job'.joined = job.joined
      /\ job'.Unexported = job.Unexported
  BY <1>7 DEF JobFields
<1>8. JobTypeOK(job') /\ WellFormed(job')
  <2>0. DOMAIN file \subseteq Types /\ file \in [DOMAIN file -> Int]
    BY <1>1 DEF FileLoads
  <2>n. JobTypeOK(job)
    BY <1>1
  <2>1. JobTypeOK(job')
    BY <1>6, <1>7, <1>f, <2>0, <2>n DEF JobTypeOK
  <2>c. WellFormed(job)
    BY JobFacts DEF DInv, DriverTypeOK
  <2>t. \A t \in job'.roots : job'.kind[t] # "interface"
    BY <1>6, <1>7, <1>f DEF Concrete
  <2>u. \A s, t \in DOMAIN job'.ids : job'.ids[s] = job'.ids[t] => s = t
    BY <1>1, <1>7 DEF FileLoads
  <2>2. WellFormed(job')
    BY <1>f, <2>c, <2>t, <2>u DEF WellFormed
  <2> QED
    BY <2>1, <2>2
<1>9. ids' = file /\ nextID' \in Int /\ IdsUnique' /\ IdsBelow'
  BY <1>1, LoadedState DEF CallGenerate, FileLoads
<1>10. TypeOK'
  BY <1>1, <1>6, <1>8, <1>9
    DEF CallGenerate, TypeOK, FileLoads, outVars, ifaceVars, queueVars, dctvVars, Running
<1>11. DriverTypeOK' /\ RunsInv' /\ FileLoads'
  BY <1>2, <1>10 DEF CallGenerate, DInv, DriverTypeOK, Written, RunsInv, FileLoads, outVars
<1>12. ConcreteInv'
  <2>1. job'.kind = job.kind /\ job'.impls = job.impls
    BY <1>7 DEF JobFields
  <2> QED
    BY <1>1, <1>2, <1>9, <2>1 DEF CallGenerate, ConcreteInv, Concrete
<1>13. RootsRight'
  <2>1. job'.kind = job.kind /\ job'.found = job.found /\ job'.home = job.home
        /\ job'.hasState = job.hasState /\ job'.impls = job.impls
    BY <1>7 DEF JobFields
  <2>2. given.flags \in Seq(Types) /\ Range(given.flags) = {given.flags[n] : n \in 1..k}
    BY <1>4, GivenFacts DEF Range
  <2>3. types = {t \in job.found :
                   \/ job.hasState /\ t \in DOMAIN file
                   \/ t \in Structs /\ \E i \in Range(given.flags) :
                                         Present(i) /\ t \in Range(job.impls[i])}
    <3>1. Structs \subseteq job.found
      BY DEF Structs
    <3>2. Searched(k) = {t \in Structs : \E i \in Range(given.flags) :
                                           Present(i) /\ t \in Range(job.impls[i])}
      BY <2>2 DEF Searched
    <3> QED
      BY <1>5, <3>1, <3>2 DEF Recorded
  <2>4. given.flags # <<>> => Present(given.flags[1])
    BY <1>3, <1>4, <2>2 DEF SearchAt
  <2> QED
    BY <1>2, <1>7, <2>1, <2>3, <2>4 DEF RootsRight, Structs, Present, Home
<1> QED
  BY <1>2, <1>9, <1>10, <1>11, <1>12, <1>13 DEF CallGenerate, DInv, SearchInv

\* The state is saved, or the run has failed; and the process ends.
LEMMA EndKeeps ==
  ASSUME DInv, Save \/ GiveUp
  PROVE  DInv'
<1>1. /\ TypeOK' /\ IdsUnique' /\ IdsBelow'
      /\ DOMAIN ids' = {} /\ phase' # "impls"
      /\ \A f \in JobFields \ {"roots", "ids"} : job'[f] = job[f]
      /\ flags' = <<>> /\ allNamed' = {} /\ ifaceNamed' = NoItem /\ types' = {}
  BY ForgetKeeps DEF Save, GiveUp
<1>2. job'.kind = job.kind /\ job'.impls = job.impls
  BY <1>1 DEF JobFields
<1>3. at # "idle" /\ at' = "idle" /\ UNCHANGED <<given, runs>> /\ (file' = file \/ file' = ids)
  BY DEF Save, GiveUp
<1>4. /\ DOMAIN ids \subseteq Types /\ ids \in [DOMAIN ids -> Int] /\ FileLoads /\ ConcreteInv
      /\ IdsUnique
  BY DEF DInv, DriverTypeOK, TypeOK
<1>5. FileLoads'
  BY <1>3, <1>4 DEF FileLoads, IdsUnique
<1>6. ConcreteInv'
  BY <1>1, <1>2, <1>3, <1>4 DEF ConcreteInv, Concrete
<1>7. good' \in 0..runs' /\ runs' \in 0..MaxRuns
  BY <1>3, DriverAssumption DEF Save, GiveUp, DInv, DriverTypeOK, RunsInv
<1>8. before' = <<>> \/ DOMAIN before' = DOMAIN Written'
  <2>1. CASE Save
    BY <2>1 DEF Save, Written
  <2>2. CASE GiveUp
    BY <2>2 DEF GiveUp, Written, DInv, DriverTypeOK
  <2> QED
    BY <2>1, <2>2
<1>9. DriverTypeOK'
  BY <1>1, <1>3, <1>5, <1>7, <1>8 DEF DriverTypeOK, FileLoads
<1> QED
  BY <1>1, <1>3, <1>5, <1>6, <1>9 DEF DInv, SearchInv, RootsRight, RunsInv
----------------------------------------------------------------------------
LEMMA StutterKeeps ==
  ASSUME DInv, UNCHANGED dvars
  PROVE  DInv'
<1> USE DEF dvars, driverVars, searchVars, extractorVars, vars, outVars, ifaceVars, loopVars,
        queueVars, dctvVars, stateVars
<1>1. TypeOK' /\ IdsUnique' /\ IdsBelow' /\ ConcreteInv'
  <2>1. TypeOK'
    BY TypeStep DEF DInv, DriverTypeOK
  <2>2. IdsUnique' /\ IdsBelow' /\ ConcreteInv'
    BY DEF DInv, IdsUnique, IdsBelow, ConcreteInv, Concrete
  <2> QED
    BY <2>1, <2>2
<1>2. DriverTypeOK' /\ FileLoads' /\ RunsInv'
  BY <1>1 DEF DInv, DriverTypeOK, Written, FileLoads, RunsInv
<1>3. SearchInv'
  BY DEF DInv, SearchInv, SearchAt, Recorded, Searched, Structs, RootsRight, Present, Home
<1> QED
  BY <1>1, <1>2, <1>3 DEF DInv

LEMMA DriverInvariant == DSpec => []DInv
<1>1. DInv /\ [DNext]_dvars => DInv'
  <2> SUFFICES ASSUME DInv, [DNext]_dvars PROVE DInv'
    OBVIOUS
  <2>1. CASE UNCHANGED dvars
    BY <2>1, StutterKeeps
  <2> QED
    BY <2>1, SearchSteps, CallKeeps, ExtractKeeps, EndKeeps DEF DNext
<1> QED
  BY <1>1, InitDInv, PTL DEF DSpec

\* Every variable of the driver keeps its type, through any number of runs; and
\* so do those of the extraction, which the driver never calls with an
\* interface as a root or with a state in which two types have one ID.
THEOREM DriverTypeCorrect == DSpec => []DriverTypeOK
<1>1. DInv => DriverTypeOK
  BY DEF DInv
<1> QED
  BY <1>1, DriverInvariant, PTL

\* The roots of each run are the types of the state file and the implementers
\* of the interfaces of the flags, although FindIfaces searches for an
\* interface again when it misses the next.
THEOREM RootsAlwaysRight == DSpec => []RootsRight
<1>1. DInv => RootsRight
  BY DEF DInv, SearchInv
<1> QED
  BY <1>1, DriverInvariant, PTL
----------------------------------------------------------------------------
(***************************************************************************)
(* What an extraction that ends well has written, as a function of its     *)
(* roots.  A run on the same sources has other roots, as the state file    *)
(* now holds the implementers, but they reach the same types.  Wherever    *)
(* the order of the queue has a say, more is said of it than of the roots: *)
(* a primitive implementer goes to the package that came first.            *)
(***************************************************************************)
Open(t) == job.kind[t] = "struct" /\ ~Excused(t)
Impls(i) == Range(job.impls[i]) \ job.hidden

\* What a written struct uses is reached, and what implements an interface.
Closed(S) ==
  \A t \in S : /\ Open(t) => Uses(t) \subseteq S
               /\ IsInterface(t) => Impls(t) \subseteq S

Reach(R) == {t \in Types : \A S \in SUBSET Types : R \subseteq S /\ Closed(S) => t \in S}

ImplsOf(R) == {t \in Types : \E i \in Reach(R) : IsInterface(i) /\ t \in Impls(i)}

\* The packages that refer to t whatever the order: by a field, or as its home.
UsedBy(R, p, t) == \E s \in Reach(R) : Open(s) /\ Home(s) = p /\ t \in Uses(s)
SureAt(R, p, t) == (t \in R /\ Home(t) = p) \/ UsedBy(R, p, t)

\* ... and those that may, as the first that came to an interface.
AskedFor(R, p, t) ==
  SureAt(R, p, t) \/ \E i \in Types : IsInterface(i) /\ UsedBy(R, p, i) /\ t \in Impls(i)

DefinedIn(R, p, t) ==
  /\ Home(t) = p /\ t \in Reach(R)
  /\ \/ Open(t)
     \/ job.kind[t] = "compound" /\ ~Excused(t)
     \/ IsInterface(t)
     \/ job.kind[t] = "shimmable" /\ p \in job.user /\ SureAt(R, p, t)

MayBeIn(R, p, t) ==
  job.kind[t] = "shimmable" /\ Home(t) = p /\ p \in job.user /\ t \in ImplsOf(R)

\* An interface is written once for each package that refers to it.
Count(R, t) == IF IsInterface(t) THEN Cardinality({p \in Packages : UsedBy(R, p, t)}) ELSE 1

CastsIn(p, i) ==
  {t \in Impls(i) \ job.ignores[p] : job.kind[t] # "shimmable" /\ t \in job.shims[p]}

MappersOf(R, p) ==
  {[iface |-> i, types |-> Impls(i) \ job.ignores[p], shimmed |-> CastsIn(p, i)] :
     i \in {j \in Types : IsInterface(j) /\ UsedBy(R, p, j)}}

\* The packages whose directives are loaded, and the directives of each.
LoadedBy(R, p) ==
  \E t \in Reach(R) : /\ Home(t) = p
                      /\ \/ job.kind[t] \in {"struct", "compound"}
                         \/ job.kind[t] = "shimmable" /\ t \in R

DirectiveIn(R, p, d) ==
  \/ d \in SourceDirectives[p]
  \/ \E t \in Reach(R) : /\ Open(t) /\ Home(t) = p
                         /\ d = Generated("tuple", t) \/ (job.allowExtra /\ d = Generated("allowextra", t))
  \/ \E t \in Types : IsInterface(t) /\ UsedBy(R, p, t) /\ d = Generated("intercept", t)
  \/ \E t \in Types : job.kind[t] = "shimmable" /\ SureAt(R, p, t) /\ d = Generated("shim", t)

DefinedRight(R, p, f) ==
  /\ \A t \in Types : DefinedIn(R, p, t) => t \in DOMAIN f
  /\ \A t \in DOMAIN f : DefinedIn(R, p, t) \/ MayBeIn(R, p, t)
  /\ f = [t \in DOMAIN f |-> Count(R, t)]

\* Directives go out with definitions alone.
DirectivesRight(R, p, f, ds) ==
  /\ DOMAIN f # {} /\ LoadedBy(R, p) => \A d : DirectiveIn(R, p, d) => d \in ds
  /\ DOMAIN f = {} => ds = {}
  /\ \A d \in ds : /\ LoadedBy(R, p)
                   /\ \/ DirectiveIn(R, p, d)
                      \/ \E t \in ImplsOf(R) : d = Generated("shim", t)

Outcome(R, w) ==
  /\ \A p \in Packages : Switches(w.mappers[p]) = MappersOf(R, p)
  /\ w.defined = [p \in Packages |-> w.defined[p]]
  /\ \A p \in Packages : /\ DefinedRight(R, p, w.defined[p])
                         /\ DirectivesRight(R, p, w.defined[p], w.directives[p])
----------------------------------------------------------------------------
LEMMA UsesFacts ==
  ASSUME JobTypeOK(job), NEW t \in Types
  PROVE  /\ Uses(t) \in SUBSET Types /\ Range(job.refs[t]) \subseteq Uses(t)
         /\ WalksThrough(Uses(t))
<1>1. job.refs \in [Types -> Seq(Types)]
  BY DEF JobTypeOK
<1>2. Range(job.refs[t]) \in SUBSET Types
  <2>1. job.refs[t] \in Seq(Types)
    BY <1>1
  <2> QED
    BY <2>1, RangeOfSeq
<1> QED
  BY <1>1, <1>2, WalkedHasAll, WalkedIsClosed DEF Uses, Walked

LEMMA ImplsTyped ==
  ASSUME JobTypeOK(job), NEW i \in Types
  PROVE  Range(job.impls[i]) \subseteq Types /\ Impls(i) \subseteq Types
<1>1. job.impls[i] \in Seq(Types)
  BY DEF JobTypeOK
<1> QED
  BY <1>1, RangeOfSeq DEF Impls

\* Reach is the least closed set that has the roots.
LEMMA ReachFacts ==
  ASSUME JobTypeOK(job), NEW R \in SUBSET Types
  PROVE  R \subseteq Reach(R) /\ Reach(R) \in SUBSET Types /\ Closed(Reach(R))
<1>1. R \subseteq Reach(R) /\ Reach(R) \in SUBSET Types
  BY DEF Reach
<1>2. ASSUME NEW t \in Reach(R), Open(t) PROVE Uses(t) \subseteq Reach(R)
  <2>1. Uses(t) \subseteq Types
    BY <1>1, UsesFacts
  <2>2. ASSUME NEW S \in SUBSET Types, R \subseteq S, Closed(S) PROVE Uses(t) \subseteq S
    BY <1>2, <2>2 DEF Reach, Closed
  <2> QED
    BY <2>1, <2>2 DEF Reach
<1>3. ASSUME NEW t \in Reach(R), IsInterface(t) PROVE Impls(t) \subseteq Reach(R)
  <2>1. Impls(t) \subseteq Types
    BY <1>1, ImplsTyped
  <2>2. ASSUME NEW S \in SUBSET Types, R \subseteq S, Closed(S) PROVE Impls(t) \subseteq S
    BY <1>3, <2>2 DEF Reach, Closed
  <2> QED
    BY <2>1, <2>2 DEF Reach
<1> QED
  BY <1>1, <1>2, <1>3 DEF Closed

LEMMA ReachIsLeast ==
  ASSUME NEW R, NEW S \in SUBSET Types, R \subseteq S, Closed(S)
  PROVE  Reach(R) \subseteq S
BY DEF Reach

\* More roots that are reached anyway reach nothing more.
LEMMA ReachSame ==
  ASSUME JobTypeOK(job), NEW Q \in SUBSET Types, NEW R \in SUBSET Types,
         Q \subseteq R, R \subseteq Q \cup ImplsOf(Q)
  PROVE  Reach(R) = Reach(Q) /\ ImplsOf(R) = ImplsOf(Q)
<1>1. /\ Q \subseteq Reach(Q) /\ Reach(Q) \in SUBSET Types /\ Closed(Reach(Q))
      /\ R \subseteq Reach(R) /\ Reach(R) \in SUBSET Types /\ Closed(Reach(R))
  BY ReachFacts
<1>2. ImplsOf(Q) \subseteq Reach(Q)
  BY <1>1 DEF ImplsOf, Closed
<1>3. Reach(R) \subseteq Reach(Q)
  BY <1>1, <1>2, ReachIsLeast
<1>4. Reach(Q) \subseteq Reach(R)
  BY <1>1, ReachIsLeast
<1> QED
  BY <1>3, <1>4 DEF ImplsOf

LEMMA AskedIsReached ==
  ASSUME JobTypeOK(job), NEW R \in SUBSET Types, NEW p, NEW t, AskedFor(R, p, t)
  PROVE  t \in Reach(R)
<1>1. R \subseteq Reach(R) /\ Reach(R) \in SUBSET Types /\ Closed(Reach(R))
  BY ReachFacts
<1>2. \A u : UsedBy(R, p, u) => u \in Reach(R)
  BY <1>1 DEF UsedBy, Closed
<1> QED
  BY <1>1, <1>2 DEF AskedFor, SureAt, Closed

\* Only a field asks for an interface.
LEMMA InterfaceIsUsed ==
  ASSUME NEW R, Concrete(R), \A i \in Types : Concrete(Range(job.impls[i])),
         NEW p, NEW t, IsInterface(t), AskedFor(R, p, t)
  PROVE  UsedBy(R, p, t)
BY DEF AskedFor, SureAt, Concrete, IsInterface, Impls

\* All this is decided by the sources.
SameSources ==
  \A f \in JobFields \ {"roots", "ids"} : job'[f] = job[f]

LEMMA SourcesDecide ==
  ASSUME SameSources
  PROVE  /\ SourceDirectives' = SourceDirectives
         /\ \A t : /\ Home(t)' = Home(t) /\ Excused(t)' = Excused(t) /\ Open(t)' = Open(t)
                   /\ Impls(t)' = Impls(t) /\ Uses(t)' = Uses(t) /\ IsInterface(t)' = IsInterface(t)
         /\ \A R : /\ Reach(R)' = Reach(R) /\ ImplsOf(R)' = ImplsOf(R)
         /\ \A R, p, t : /\ UsedBy(R, p, t)' = UsedBy(R, p, t) /\ AskedFor(R, p, t)' = AskedFor(R, p, t)
                         /\ LoadedBy(R, p)' = LoadedBy(R, p)
         /\ \A R, w : Outcome(R, w)' = Outcome(R, w)
<1>0. /\ job'.kind = job.kind /\ job'.home = job.home /\ job'.refs = job.refs
      /\ job'.impls = job.impls /\ job'.hidden = job.hidden /\ job'.user = job.user
      /\ job'.shims = job.shims /\ job'.ignores = job.ignores /\ job'.allowExtra = job.allowExtra
      /\ job'.joined = job.joined
  BY DEF SameSources, JobFields
<1>1. \A t : Home(t)' = Home(t) /\ IsInterface(t)' = IsInterface(t) /\ Impls(t)' = Impls(t)
  BY <1>0 DEF Home, IsInterface, Impls
<1>2. \A t : Excused(t)' = Excused(t)
  BY <1>0, <1>1 DEF Excused
<1>3. \A t : Open(t)' = Open(t)
  BY <1>0, <1>2 DEF Open
<1>4. \A t : Uses(t)' = Uses(t)
  <2>1. \A S : WalksThrough(S)' = WalksThrough(S)
    BY <1>0 DEF WalksThrough
  <2>2. \A ts : Walked(ts)' = Walked(ts)
    BY <2>1 DEF Walked
  <2> QED
    BY <1>0, <2>2 DEF Uses
<1>5. \A R : Reach(R)' = Reach(R)
  <2>1. \A S : Closed(S)' = Closed(S)
    BY <1>1, <1>3, <1>4 DEF Closed
  <2> QED
    BY <2>1 DEF Reach
<1>6. \A R : ImplsOf(R)' = ImplsOf(R)
  BY <1>1, <1>5 DEF ImplsOf
<1>7. \A R, p, t : UsedBy(R, p, t)' = UsedBy(R, p, t)
  BY <1>1, <1>3, <1>4, <1>5 DEF UsedBy
<1>8. \A R, p, t : SureAt(R, p, t)' = SureAt(R, p, t)
  BY <1>1, <1>7 DEF SureAt
<1>9. \A R, p, t : AskedFor(R, p, t)' = AskedFor(R, p, t)
  BY <1>1, <1>7, <1>8 DEF AskedFor
<1>10. \A R, p : LoadedBy(R, p)' = LoadedBy(R, p)
  BY <1>0, <1>1, <1>5 DEF LoadedBy
<1>11. SourceDirectives' = SourceDirectives
  BY <1>0 DEF SourceDirectives
<1>12. \A R, p, d : DirectiveIn(R, p, d)' = DirectiveIn(R, p, d)
  BY <1>0, <1>1, <1>3, <1>5, <1>7, <1>8, <1>11 DEF DirectiveIn, Generated
<1>13. \A R, p, t : DefinedIn(R, p, t)' = DefinedIn(R, p, t)
  BY <1>0, <1>1, <1>2, <1>3, <1>5, <1>8 DEF DefinedIn
<1>14. \A R, p, t : MayBeIn(R, p, t)' = MayBeIn(R, p, t)
  BY <1>0, <1>1, <1>6 DEF MayBeIn
<1>15. \A R, t : Count(R, t)' = Count(R, t)
  BY <1>1, <1>7 DEF Count
<1>16. \A R, p, f : DefinedRight(R, p, f)' = DefinedRight(R, p, f)
  BY <1>13, <1>14, <1>15 DEF DefinedRight
<1>17. \A R, p, f, ds : DirectivesRight(R, p, f, ds)' = DirectivesRight(R, p, f, ds)
  BY <1>6, <1>10, <1>12 DEF DirectivesRight, Generated
<1>18. \A R, p : MappersOf(R, p)' = MappersOf(R, p)
  <2>1. \A p, i : CastsIn(p, i)' = CastsIn(p, i)
    BY <1>0, <1>1 DEF CastsIn
  <2> QED
    BY <1>0, <1>1, <1>7, <2>1 DEF MappersOf
<1>s. \A ms : Switches(ms)' = Switches(ms)
  BY <1>0 DEF Switches
<1>19. \A R, w : Outcome(R, w)' = Outcome(R, w)
  BY <1>16, <1>17, <1>18, <1>s DEF Outcome
<1> QED
  BY <1>1, <1>2, <1>3, <1>4, <1>5, <1>6, <1>7, <1>9, <1>10, <1>11, <1>19
----------------------------------------------------------------------------
(***************************************************************************)
(* What an extraction does on the way to its outcome: nothing is queued,   *)
(* written or declared but for a root, a use or an implementer, ...        *)
(***************************************************************************)
AskedInv == \A x \in seenItems : AskedFor(job.roots, x.origin, x.type)

\* ... as the loops go over what they began with.
LoopFrom ==
  /\ phase = "walk" =>
       cur \in seenItems /\ Open(cur.type) /\ Range(todo) \subseteq Uses(cur.type)
  /\ phase = "impls" => Range(todo) \subseteq Range(job.impls[cur.type])

\* The roots are queued before anything is taken from the queue.
RootedInv ==
  /\ Live => \A t \in job.roots \ rootsLeft : Item(Home(t), t) \in seenItems
  /\ phase \notin {"roots", "error"} => rootsLeft = {}

Queuing(x) ==
  \/ \E t \in rootsLeft : phase = "roots" /\ t \in Types /\ x = Item(Home(t), t)
  \/ phase = "walk" /\ Visit /\ x = Item(Home(cur.type), Head(todo)) /\ Head(todo) \in Range(todo)
  \/ /\ phase = "impls" /\ AddImplementer /\ x = Item(cur.origin, Head(todo))
     /\ Head(todo) \in Range(todo) \ job.hidden

LEMMA QueuedBy ==
  ASSUME TypeOK, [Next]_vars, NEW x \in seenItems', x \notin seenItems
  PROVE  Queuing(x)
<1> USE DEF queueVars, vars
<1>h. ASSUME todo # <<>> PROVE Head(todo) \in Range(todo)
  <2>1. todo \in Seq(Types)
    BY DEF TypeOK
  <2> QED
    BY <1>h, <2>1 DEF Range
<1>1. ASSUME NEW t \in Types, AddRoot(t) PROVE Queuing(x)
  BY <1>1 DEF AddRoot, Add, Queuing
<1>2. CASE Visit
  BY <1>2, <1>h DEF Visit, Add, Queuing
<1>3. CASE AddImplementer
  BY <1>3, <1>h DEF AddImplementer, Add, Queuing
<1>4. ASSUME NEW t \in Types, BuildMapper(t) PROVE FALSE
  BY <1>4 DEF BuildMapper
<1>5. ASSUME Handler, ~Visit, ~AddImplementer PROVE FALSE
  BY <1>5 DEF Handler, SkipDirect, Panic, SkipRendered, DeclineStruct, BeginStruct, FinishStruct,
     ExtractNamedCompound, ExtractShimmedSupported, BeginInterface, FinishInterface, Take, Dequeue
<1>6. ASSUME StartExtract \/ StartMappers \/ Finish \/ ExternalError \/ Halted \/ UNCHANGED vars
      PROVE  FALSE
  BY <1>6 DEF StartExtract, StartMappers, Finish, ExternalError, Halted
<1> QED
  BY <1>1, <1>2, <1>3, <1>4, <1>5, <1>6 DEF Next

\* The job is the same to the end of the extraction.
LEMMA StepDecides ==
  ASSUME TypeOK, [Next]_vars
  PROVE  SameSources /\ job'.roots = job.roots /\ job'.ids = job.ids
BY Grows DEF SameSources

LEMMA AskedStays ==
  ASSUME TypeOK, MapperInv, LoopFrom, AskedInv, \A i \in Types : Concrete(Range(job.impls[i])),
         [Next]_vars
  PROVE  AskedInv'
<1>1. job' = job /\ \A R, p, t : AskedFor(R, p, t)' = AskedFor(R, p, t)
  BY Grows, StepDecides, SourcesDecide
<1>t. JobTypeOK(job) /\ WellFormed(job)
  BY JobFacts
<1> SUFFICES ASSUME NEW x \in seenItems' PROVE AskedFor(job.roots, x.origin, x.type)
  BY <1>1 DEF AskedInv
<1>2. CASE x \in seenItems
  BY <1>2 DEF AskedInv
<1>3. CASE \E t \in rootsLeft : phase = "roots" /\ t \in Types /\ x = Item(Home(t), t)
  BY <1>3 DEF AskedFor, SureAt, Item, MapperInv, RootsInv
<1>4. CASE phase = "walk" /\ Visit /\ x = Item(Home(cur.type), Head(todo)) /\ Head(todo) \in Range(todo)
  <2>1. cur \in seenItems /\ Open(cur.type) /\ Head(todo) \in Uses(cur.type)
    BY <1>4 DEF LoopFrom
  <2>2. cur.type \in Reach(job.roots)
    BY <1>t, <2>1, AskedIsReached DEF AskedInv, JobTypeOK
  <2>3. UsedBy(job.roots, Home(cur.type), Head(todo))
    BY <2>1, <2>2 DEF UsedBy
  <2> QED
    BY <1>4, <2>3 DEF AskedFor, SureAt, Item
<1>5. CASE /\ phase = "impls" /\ AddImplementer /\ x = Item(cur.origin, Head(todo))
           /\ Head(todo) \in Range(todo) \ job.hidden
  <2>1. cur \in seenItems /\ IsInterface(cur.type) /\ Head(todo) \in Impls(cur.type)
    BY <1>5 DEF MapperInv, LoopInv, LoopFrom, Impls
  <2>2. Concrete(job.roots)
    BY <1>t DEF WellFormed, Concrete
  <2>3. UsedBy(job.roots, cur.origin, cur.type) /\ cur.type \in Types
    BY <1>5, <2>1, <2>2, InterfaceIsUsed DEF AskedInv, TypeOK, TypeQueueItem
  <2> QED
    BY <1>5, <2>1, <2>3 DEF AskedFor, Item
<1> QED
  BY <1>2, <1>3, <1>4, <1>5, QueuedBy DEF Queuing
----------------------------------------------------------------------------
LEMMA LoopTurns ==
  ASSUME TypeOK, [Next]_vars, phase' \in {"walk", "impls"}
  PROVE  \/ BeginStruct \/ Visit \/ BeginInterface \/ AddImplementer
         \/ phase' = phase /\ cur' = cur /\ todo' = todo
<1> USE DEF loopVars, vars
<1>1. ASSUME NEW t \in Types, AddRoot(t) \/ BuildMapper(t) PROVE FALSE
  BY <1>1 DEF AddRoot, BuildMapper
<1>2. ASSUME Handler, ~BeginStruct, ~Visit, ~BeginInterface, ~AddImplementer PROVE FALSE
  BY <1>2 DEF Handler, SkipDirect, Panic, SkipRendered, DeclineStruct, FinishStruct,
     ExtractNamedCompound, ExtractShimmedSupported, FinishInterface, Take
<1>3. ASSUME StartExtract \/ StartMappers \/ Finish \/ ExternalError PROVE FALSE
  BY <1>3 DEF StartExtract, StartMappers, Finish, ExternalError
<1>4. CASE Halted \/ UNCHANGED vars
  BY <1>4 DEF Halted
<1> QED
  BY <1>1, <1>2, <1>3, <1>4 DEF Next

LEMMA RangeOfConcat ==
  ASSUME NEW S, NEW s \in Seq(S), NEW u \in Seq(S)
  PROVE  Range(s \o u) \subseteq Range(s) \cup Range(u)
<1>1. /\ s \o u \in Seq(S) /\ Len(s \o u) = Len(s) + Len(u) /\ Len(s) \in Nat /\ Len(u) \in Nat
      /\ \A n \in 1..Len(s) : (s \o u)[n] = s[n]
      /\ \A n \in 1..Len(u) : (s \o u)[Len(s) + n] = u[n]
  OBVIOUS
<1> SUFFICES ASSUME NEW x \in Range(s \o u) PROVE x \in Range(s) \cup Range(u)
  OBVIOUS
<1>2. PICK n \in 1..Len(s \o u) : x = (s \o u)[n]
  <2>1. PICK c : c = s \o u
    OBVIOUS
  <2>2. c \in Seq(S) /\ x \in Range(c)
    BY <1>1, <2>1
  <2>3. \E n \in 1..Len(c) : x = c[n]
    BY <2>2, RangeOfSeq
  <2> QED
    BY <2>1, <2>3
<1>3. CASE n <= Len(s)
  <2>1. n \in 1..Len(s) /\ x = s[n]
    BY <1>1, <1>2, <1>3
  <2> QED
    BY <2>1, RangeOfSeq
<1>4. CASE n > Len(s)
  <2>1. n - Len(s) \in 1..Len(u) /\ x = u[n - Len(s)]
    <3>1. n - Len(s) \in 1..Len(u) /\ n = Len(s) + (n - Len(s))
      BY <1>1, <1>2, <1>4
    <3> QED
      BY <1>1, <1>2, <3>1
  <2> QED
    BY <2>1, RangeOfSeq
<1> QED
  BY <1>1, <1>2, <1>3, <1>4

LEMMA LoopStaysFrom ==
  ASSUME TypeOK, QueueInv, WrittenInv, LoopFrom, [Next]_vars
  PROVE  LoopFrom'
<1>j. /\ job' = job /\ seenItems \subseteq seenItems' /\ JobTypeOK(job)
      /\ \A t : Open(t)' = Open(t) /\ Uses(t)' = Uses(t)
  BY Grows, SeenGrows, StepDecides, SourcesDecide, JobFacts
<1> SUFFICES ASSUME phase' \in {"walk", "impls"}
             PROVE  /\ phase' = "walk" =>
                         cur' \in seenItems' /\ Open(cur'.type) /\ Range(todo') \subseteq Uses(cur'.type)
                    /\ phase' = "impls" => Range(todo') \subseteq Range(job.impls[cur'.type])
  BY <1>j DEF LoopFrom
<1>t. todo \in Seq(Types) /\ contents \in Seq(TypeQueueItem)
  BY DEF TypeOK
<1>1. CASE BeginStruct
  <2>x. PICK x : x = Head(contents)
    OBVIOUS
  <2>1. /\ contents # <<>> /\ job.kind[x.type] = "struct" /\ ~Says(Home(x.type), "ignore", x.type)
        /\ phase' = "walk" /\ cur' = x /\ todo' = job.refs[x.type]
    BY <1>1, <2>x DEF BeginStruct, Take, Dequeue
  <2>2. x \in seenItems /\ x.type \in Types /\ Home(x.type) \in Packages
    <3>1. x \in Range(contents)
      BY <1>t, <2>1, <2>x DEF Range
    <3> QED
      BY <2>1, <2>x, <3>1, HeadTyped DEF QueueInv
  <2>3. Open(x.type)
    BY <2>1, <2>2, SaysItsIgnores DEF Open, Excused, WrittenInv
  <2>4. Range(job.refs[x.type]) \subseteq Uses(x.type)
    BY <1>j, <2>2, UsesFacts
  <2> QED
    BY <1>j, <2>1, <2>2, <2>3, <2>4
<1>2. CASE Visit
  <2>1. /\ phase = "walk" /\ phase' = "walk" /\ cur' = cur /\ todo # <<>>
        /\ cur \in seenItems /\ Open(cur.type) /\ Range(todo) \subseteq Uses(cur.type)
        /\ cur.type \in Types
    BY <1>2 DEF Visit, LoopFrom, TypeOK, TypeQueueItem
  <2>2. Head(todo) \in Range(todo) /\ Range(Tail(todo)) \subseteq Range(todo) /\ Tail(todo) \in Seq(Types)
    BY <1>t, <2>1, RangeOfSeq DEF Range
  <2>3. Range(todo') \subseteq Uses(cur.type)
    <3>1. CASE todo' = Tail(todo)
      BY <2>1, <2>2, <3>1
    <3>2. CASE /\ todo' = job.refs[Head(todo)] \o Tail(todo)
               /\ job.kind[Head(todo)] \in {"compound", "shimmable"}
      <4>1. Range(job.refs[Head(todo)]) \subseteq Uses(cur.type)
        BY <1>j, <2>1, <2>2, <3>2, UsesFacts DEF WalksThrough
      <4>2. job.refs[Head(todo)] \in Seq(Types)
        BY <1>j, <1>t, <2>1 DEF JobTypeOK
      <4>3. Range(todo') \subseteq Range(job.refs[Head(todo)]) \cup Range(Tail(todo))
        BY <2>2, <3>2, <4>2, RangeOfConcat
      <4> QED
        BY <2>1, <2>2, <4>1, <4>3
    <3> QED
      BY <1>2, <3>1, <3>2 DEF Visit
  <2> QED
    BY <1>j, <2>1, <2>3
<1>3. CASE BeginInterface
  <2>1. /\ phase' = "impls" /\ cur' = Head(contents)
        /\ todo' = <<>> \/ todo' = job.impls[Head(contents).type]
    BY <1>3 DEF BeginInterface
  <2> QED
    BY <2>1 DEF Range
<1>4. CASE AddImplementer
  <2>1. /\ phase = "impls" /\ phase' = "impls" /\ cur' = cur /\ todo # <<>> /\ todo' = Tail(todo)
        /\ Range(todo) \subseteq Range(job.impls[cur.type])
    BY <1>4 DEF AddImplementer, LoopFrom
  <2>2. Range(Tail(todo)) \subseteq Range(todo)
    BY <1>t, <2>1, RangeOfSeq DEF Range
  <2> QED
    BY <2>1, <2>2
<1>5. CASE phase' = phase /\ cur' = cur /\ todo' = todo
  BY <1>j, <1>5 DEF LoopFrom
<1> QED
  BY <1>1, <1>2, <1>3, <1>4, <1>5, LoopTurns
----------------------------------------------------------------------------
LEMMA RootsSteps ==
  ASSUME [Next]_vars
  PROVE  \/ rootsLeft' = rootsLeft /\ (phase' = phase \/ phase # "roots" \/ phase' = "error")
         \/ rootsLeft' = rootsLeft /\ rootsLeft = {}
         \/ \E t \in Types : AddRoot(t)
<1> USE DEF loopVars, vars
<1>1. CASE StartExtract
  BY <1>1 DEF StartExtract
<1>2. CASE Handler
  BY <1>2 DEF Handler, SkipDirect, Panic, SkipRendered, DeclineStruct, BeginStruct, Visit,
     FinishStruct, ExtractNamedCompound, ExtractShimmedSupported, BeginInterface, AddImplementer,
     FinishInterface, Take
<1>3. ASSUME NEW t \in Types, BuildMapper(t) PROVE rootsLeft' = rootsLeft /\ phase # "roots"
  BY <1>3 DEF BuildMapper
<1>4. CASE StartMappers \/ Finish \/ ExternalError \/ Halted \/ UNCHANGED vars
  BY <1>4 DEF StartMappers, Finish, ExternalError, Halted
<1> QED
  BY <1>1, <1>2, <1>3, <1>4 DEF Next

LEMMA RootedStays ==
  ASSUME TypeOK, RootedInv, [Next]_vars
  PROVE  RootedInv'
<1>j. job' = job /\ seenItems \subseteq seenItems' /\ (Live' => Live) /\ \A t : Home(t)' = Home(t)
  BY Grows, SeenGrows, LoopSteps DEF Home
<1> SUFFICES /\ Live' => \A t \in job.roots \ rootsLeft' : Item(Home(t), t) \in seenItems'
             /\ phase' \notin {"roots", "error"} => rootsLeft' = {}
  BY <1>j DEF RootedInv, Item
<1>1. CASE rootsLeft' = rootsLeft
  <2>1. Live' => \A t \in job.roots \ rootsLeft' : Item(Home(t), t) \in seenItems'
    BY <1>j, <1>1 DEF RootedInv
  <2>2. CASE rootsLeft = {}
    BY <1>1, <2>1, <2>2
  <2>3. CASE phase' = phase \/ phase' = "error"
    BY <1>1, <2>1, <2>3 DEF RootedInv
  <2>4. CASE phase # "roots" /\ phase # "error"
    BY <1>1, <2>1, <2>4 DEF RootedInv
  <2>5. CASE phase = "error"
    <3>1. phase' = "error"
      BY <2>5 DEF Next, Handler, AddRoot, BuildMapper, SkipDirect, Panic, SkipRendered, DeclineStruct, BeginStruct, Visit,
     FinishStruct, ExtractNamedCompound, ExtractShimmedSupported, BeginInterface, AddImplementer,
     FinishInterface, Take, StartExtract, StartMappers, Finish, ExternalError, Halted, vars, Running
    <3> QED
      BY <2>1, <3>1
  <2> QED
    BY <1>1, <2>2, <2>3, <2>4, <2>5, RootsSteps DEF AddRoot
<1>2. ASSUME NEW t \in Types, AddRoot(t) PROVE RootedInv'
  <2>1. /\ phase = "roots" /\ phase' \in {"roots", "error"} /\ rootsLeft' = rootsLeft \ {t}
        /\ phase' = "error" \/ Add(Item(Home(t), t))
    BY <1>2 DEF AddRoot
  <2>2. Live' => Item(Home(t), t) \in seenItems'
    BY <2>1 DEF Add, queueVars, Live
  <2> QED
    BY <1>j, <2>1, <2>2 DEF RootedInv, Item
<1> QED
  BY <1>1, <1>2, <1>j, RootsSteps DEF RootedInv, Item
----------------------------------------------------------------------------
\* What is written was queued, a primitive for its own package.
WrittenSeen ==
  \A p \in Packages : \A t \in Range(tempOutput[p]) :
    \E x \in seenItems : /\ x.type = t
                         /\ job.kind[t] \in {"struct", "compound", "shimmable", "interface"}
                         /\ job.kind[t] = "shimmable" => x.origin = p

\* The packages of an interface are those it was taken from the queue for.
ReferInv ==
  /\ \A i \in Types : \A p \in Range(inPackages[i]) :
       IsInterface(i) /\ Item(p, i) \in seenItems \ Range(contents)
  /\ phase = "impls" => cur \notin Range(contents) /\ cur.origin \notin Range(inPackages[cur.type])

\* An interface is written as often as a package is noted for it.
PlacesOf(t) == {n \in DOMAIN tempOutput[Home(t)] : tempOutput[Home(t)][n] = t}

CountInv ==
  \A i \in Types : IsInterface(i) =>
    /\ IsFiniteSet(Range(inPackages[i])) /\ IsFiniteSet(PlacesOf(i))
    /\ Cardinality(PlacesOf(i)) = Cardinality(Range(inPackages[i]))

Writes(x) ==
  /\ tempOutput' = [tempOutput EXCEPT ![Home(x.type)] = Append(@, x.type)]
  /\ job.kind[x.type] \in {"struct", "compound", "shimmable", "interface"}
  /\ job.kind[x.type] = "shimmable" => x.origin = Home(x.type)
  /\ IsInterface(x.type) => FinishInterface /\ x = cur

LEMMA WriteSteps ==
  ASSUME TypeOK, QueueInv, MapperInv, WrittenInv, LoopFrom, [Next]_vars
  PROVE  tempOutput' = tempOutput \/ \E x \in seenItems : Writes(x)
<1> USE DEF outVars, vars
<1>h. ASSUME NEW k, Take(k)
      PROVE  Head(contents) \in seenItems /\ job.kind[Head(contents).type] = k
  <2>1. contents # <<>> /\ contents \in Seq(TypeQueueItem)
    BY <1>h DEF Take, Dequeue, TypeOK
  <2>2. Head(contents) \in Range(contents)
    BY <2>1 DEF Range
  <2> QED
    BY <1>h, <2>2 DEF QueueInv, Take
<1>1. CASE FinishStruct
  <2>1. cur \in seenItems /\ job.kind[cur.type] = "struct"
    BY <1>1 DEF FinishStruct, LoopFrom, Open
  <2> QED
    BY <1>1, <2>1 DEF FinishStruct, Writes, IsInterface
<1>2. CASE FinishInterface
  <2>1. cur \in seenItems /\ job.kind[cur.type] = "interface"
    BY <1>2 DEF FinishInterface, MapperInv, LoopInv, IsInterface
  <2> QED
    BY <1>2, <2>1 DEF FinishInterface, Writes, IsInterface
<1>3. CASE ExtractNamedCompound
  <2>1. Head(contents) \in seenItems /\ job.kind[Head(contents).type] = "compound"
    BY <1>3, <1>h DEF ExtractNamedCompound
  <2> QED
    BY <1>3, <2>1 DEF ExtractNamedCompound, Writes, IsInterface
<1>4. CASE ExtractShimmedSupported
  <2>1. Head(contents) \in seenItems /\ job.kind[Head(contents).type] = "shimmable"
    BY <1>4, <1>h DEF ExtractShimmedSupported
  <2> QED
    BY <1>4, <2>1 DEF ExtractShimmedSupported, Writes, IsInterface
<1>5. ASSUME NEW t \in Types, AddRoot(t) \/ BuildMapper(t) PROVE tempOutput' = tempOutput
  BY <1>5 DEF AddRoot, BuildMapper
<1>6. ASSUME SkipDirect \/ Panic \/ SkipRendered \/ DeclineStruct \/ BeginStruct \/ Visit
             \/ BeginInterface \/ AddImplementer
      PROVE  tempOutput' = tempOutput
  BY <1>6 DEF SkipDirect, Panic, SkipRendered, DeclineStruct, BeginStruct, Visit,
       BeginInterface, AddImplementer
<1>7. ASSUME StartExtract \/ StartMappers \/ Finish \/ ExternalError \/ Halted
             \/ UNCHANGED vars
      PROVE  tempOutput' = tempOutput
  BY <1>7 DEF StartExtract, StartMappers, Finish, ExternalError, Halted
<1> QED
  BY <1>1, <1>2, <1>3, <1>4, <1>5, <1>6, <1>7 DEF Next, Handler

LEMMA WrittenStaysSeen ==
  ASSUME TypeOK, QueueInv, MapperInv, WrittenInv, LoopFrom, WrittenSeen, [Next]_vars
  PROVE  WrittenSeen'
<1> DEFINE Seen(p, t) ==
             \E x \in seenItems : /\ x.type = t
                                  /\ job.kind[t] \in {"struct", "compound", "shimmable", "interface"}
                                  /\ job.kind[t] = "shimmable" => x.origin = p
<1>1. job' = job /\ seenItems \subseteq seenItems'
  BY Grows, SeenGrows
<1> SUFFICES ASSUME NEW p \in Packages, NEW t \in Range(tempOutput'[p]) PROVE Seen(p, t)
  BY <1>1 DEF WrittenSeen
<1>2. ASSUME t \in Range(tempOutput[p]) PROVE Seen(p, t)
  BY <1>2 DEF WrittenSeen
<1>3. ASSUME NEW x \in seenItems, Writes(x) PROVE Seen(p, t)
  <2>1. x.type \in Types /\ tempOutput \in [Packages -> Seq(Types)]
    BY DEF TypeOK, TypeQueueItem
  <2>2. CASE p = Home(x.type)
    <3>1. tempOutput'[p] = Append(tempOutput[p], x.type) /\ tempOutput[p] \in Seq(Types)
      BY <1>3, <2>1, <2>2 DEF Writes
    <3>2. t \in Range(tempOutput[p]) \/ t = x.type
      BY <2>1, <3>1, AppendAdds
    <3> QED
      BY <1>2, <1>3, <2>2, <3>2 DEF Writes
  <2>3. CASE p # Home(x.type)
    BY <1>2, <1>3, <2>1, <2>3 DEF Writes
  <2> QED
    BY <2>2, <2>3
<1> QED
  BY <1>2, <1>3, WriteSteps

LEMMA HandledGrows ==
  ASSUME TypeOK, QueueInv, [Next]_vars
  PROVE  seenItems \ Range(contents) \subseteq seenItems' \ Range(contents')
<1>c. contents \in Seq(TypeQueueItem)
  BY DEF TypeOK
<1>1. CASE Takers /\ Dequeue
  <2>1. seenItems' = seenItems /\ contents # <<>> /\ contents' = Tail(contents)
    BY <1>1 DEF Dequeue
  <2>2. Range(Tail(contents)) \subseteq Range(contents)
    BY <1>c, <2>1, RangeOfSeq DEF Range
  <2> QED
    BY <2>1, <2>2
<1>2. CASE UNCHANGED queueVars
  BY <1>2 DEF queueVars
<1>3. ASSUME NEW y \in TypeQueueItem, Add(y), y \notin seenItems
      PROVE  seenItems \ Range(contents) \subseteq seenItems' \ Range(contents')
  <2>1. contents' = Append(contents, y) /\ seenItems' = seenItems \cup {y}
    BY <1>3 DEF Add
  <2>2. Range(contents') = Range(contents) \cup {y}
    BY <1>c, <2>1, AppendAdds
  <2> QED
    BY <1>3, <2>1, <2>2
<1> QED
  BY <1>1, <1>2, <1>3, TakersOrAdders DEF Add

LEMMA PackageNoted ==
  ASSUME TypeOK, FinishInterface, NEW i \in Types
  PROVE  Range(inPackages'[i]) = Range(inPackages[i]) \cup (IF i = cur.type THEN {cur.origin} ELSE {})
<1>1. /\ inPackages' = [inPackages EXCEPT ![cur.type] = Append(@, cur.origin)]
      /\ cur.type \in Types /\ cur.origin \in Packages /\ inPackages \in [Types -> Seq(Packages)]
  BY DEF FinishInterface, TypeOK, TypeQueueItem
<1>2. CASE i = cur.type
  <2>1. inPackages'[i] = Append(inPackages[i], cur.origin) /\ inPackages[i] \in Seq(Packages)
    BY <1>1, <1>2
  <2>2. Range(inPackages'[i]) = Range(inPackages[i]) \cup {cur.origin}
    BY <1>1, <2>1, AppendAdds
  <2> QED
    BY <1>2, <2>2
<1>3. CASE i # cur.type
  BY <1>1, <1>3
<1> QED
  BY <1>2, <1>3

LEMMA StillReferred ==
  ASSUME TypeOK, QueueInv, MapperInv, ReferInv, [Next]_vars
  PROVE  ReferInv'
<1> USE DEF vars
<1>j. /\ job' = job /\ \A t : IsInterface(t)' = IsInterface(t)
      /\ seenItems \ Range(contents) \subseteq seenItems' \ Range(contents')
  BY Grows, HandledGrows DEF IsInterface
<1>t. contents \in Seq(TypeQueueItem)
  BY DEF TypeOK
<1>1. ASSUME NEW i \in Types, NEW p \in Range(inPackages'[i])
      PROVE  IsInterface(i) /\ Item(p, i) \in seenItems' \ Range(contents')
  <2>1. CASE p \in Range(inPackages[i])
    BY <1>j, <2>1 DEF ReferInv
  <2>2. CASE FinishInterface /\ p \notin Range(inPackages[i])
    <3>1. i = cur.type /\ p = cur.origin
      BY <1>1, <2>2, PackageNoted
    <3>2. IsInterface(i) /\ cur \in seenItems \ Range(contents) /\ cur = Item(p, i)
      BY <2>2, <3>1 DEF FinishInterface, ReferInv, MapperInv, LoopInv, TypeOK, TypeQueueItem, Item
    <3> QED
      BY <1>j, <3>2
  <2> QED
    BY <1>1, <2>1, <2>2, IfacesGrow
<1>2. ASSUME phase' = "impls"
      PROVE  cur' \notin Range(contents') /\ cur'.origin \notin Range(inPackages'[cur'.type])
  <2>1. CASE BeginInterface
    <3>x. PICK x : x = Head(contents)
      OBVIOUS
    <3>1. contents # <<>> /\ contents' = Tail(contents) /\ cur' = x /\ inPackages' = inPackages
      BY <1>2, <2>1, <3>x DEF BeginInterface, Take, Dequeue
    <3>2. Range(contents') = Range(contents) \ {x} /\ x \in Range(contents)
      BY <1>t, <3>x, <3>1, TailDropsHead DEF QueueInv
    <3>3. x.type \in Types /\ Item(x.origin, x.type) = x
      BY <1>t, <3>x, <3>1, HeadTyped DEF Item, TypeQueueItem
    <3> QED
      BY <3>1, <3>2, <3>3 DEF ReferInv
  <2>2. CASE phase = "impls" /\ cur' = cur
    <3>1. cur \in seenItems \ Range(contents)
      BY <2>2 DEF ReferInv, MapperInv, LoopInv
    <3>2. inPackages' = inPackages
      BY <1>2, IfacesGrow DEF FinishInterface
    <3> QED
      BY <1>j, <2>2, <3>1, <3>2 DEF ReferInv
  <2>3. ASSUME BeginStruct \/ Visit PROVE FALSE
    BY <1>2, <2>3 DEF BeginStruct, Visit
  <2>4. CASE AddImplementer
    BY <2>2, <2>4 DEF AddImplementer
  <2> QED
    BY <1>2, <2>1, <2>2, <2>3, <2>4, LoopTurns
<1> QED
  BY <1>j, <1>1, <1>2 DEF ReferInv, Item

LEMMA CountStays ==
  ASSUME TypeOK, QueueInv, MapperInv, WrittenInv, LoopFrom, ReferInv, CountInv, [Next]_vars
  PROVE  CountInv'
<1>j. job' = job /\ \A t : IsInterface(t)' = IsInterface(t) /\ Home(t)' = Home(t)
  BY Grows DEF IsInterface, Home
<1>t. /\ tempOutput \in [Packages -> Seq(Types)] /\ \A t \in Types : Home(t) \in Packages
  BY JobFacts DEF TypeOK, JobTypeOK, Home
<1> SUFFICES ASSUME NEW i \in Types, IsInterface(i)
             PROVE  /\ IsFiniteSet(Range(inPackages'[i])) /\ IsFiniteSet(PlacesOf(i)')
                    /\ Cardinality(PlacesOf(i)') = Cardinality(Range(inPackages'[i]))
  BY <1>j DEF CountInv
<1>c. /\ IsFiniteSet(Range(inPackages[i])) /\ IsFiniteSet(PlacesOf(i))
      /\ Cardinality(PlacesOf(i)) = Cardinality(Range(inPackages[i]))
  BY DEF CountInv
<1>h. PICK h \in Packages : h = Home(i)
  BY <1>t
<1>s. PICK s \in Seq(Types) : s = tempOutput[h]
  BY <1>t
<1>p. PlacesOf(i) = {n \in DOMAIN s : s[n] = i}
  BY <1>h, <1>s DEF PlacesOf
<1>p2. PlacesOf(i)' = {n \in DOMAIN tempOutput'[h] : tempOutput'[h][n] = i}
  BY <1>h, <1>j DEF PlacesOf
<1>1. CASE FinishInterface /\ i = cur.type
  <2>1. tempOutput'[h] = Append(s, i) /\ phase = "impls"
    BY <1>1, <1>t, <1>h, <1>s DEF FinishInterface
  <2>2. /\ DOMAIN s = 1..Len(s) /\ DOMAIN Append(s, i) = 1..(Len(s) + 1) /\ Len(s) \in Nat
        /\ Append(s, i)[Len(s) + 1] = i
        /\ \A n \in 1..Len(s) : Append(s, i)[n] = s[n]
    OBVIOUS
  <2>3. PlacesOf(i)' = PlacesOf(i) \cup {Len(s) + 1} /\ Len(s) + 1 \notin PlacesOf(i)
    BY <1>p, <1>p2, <2>1, <2>2
  <2>4. cur.origin \notin Range(inPackages[i]) /\ Range(inPackages'[i]) = Range(inPackages[i]) \cup {cur.origin}
    BY <1>1, <2>1, PackageNoted DEF ReferInv
  <2>5. /\ IsFiniteSet(PlacesOf(i)') /\ Cardinality(PlacesOf(i)') = Cardinality(PlacesOf(i)) + 1
    BY <1>c, <2>3, FS_AddElement
  <2>6. /\ IsFiniteSet(Range(inPackages'[i]))
        /\ Cardinality(Range(inPackages'[i])) = Cardinality(Range(inPackages[i])) + 1
    BY <1>c, <2>4, FS_AddElement
  <2> QED
    BY <1>c, <2>5, <2>6
<1>2. CASE ~(FinishInterface /\ i = cur.type)
  <2>1. Range(inPackages'[i]) = Range(inPackages[i])
    <3>1. CASE FinishInterface
      BY <1>2, <3>1, PackageNoted
    <3>2. CASE inPackages' = inPackages
      BY <3>2
    <3> QED
      BY <3>1, <3>2, IfacesGrow
  <2>2. PlacesOf(i)' = PlacesOf(i)
    <3>1. CASE tempOutput' = tempOutput
      BY <1>p, <1>p2, <1>s, <3>1
    <3>2. ASSUME NEW x \in seenItems, Writes(x) PROVE PlacesOf(i)' = PlacesOf(i)
      <4>1. x.type \in Types /\ x.type # i
        BY <1>2, <3>2 DEF Writes, TypeOK, TypeQueueItem
      <4>2. tempOutput'[h] = s \/ tempOutput'[h] = Append(s, x.type)
        BY <1>t, <1>s, <3>2 DEF Writes
      <4>3. /\ DOMAIN s = 1..Len(s) /\ DOMAIN Append(s, x.type) = 1..(Len(s) + 1) /\ Len(s) \in Nat
            /\ Append(s, x.type)[Len(s) + 1] = x.type
            /\ \A n \in 1..Len(s) : Append(s, x.type)[n] = s[n]
        BY <4>1
      <4>4. CASE tempOutput'[h] = Append(s, x.type)
        BY <1>p, <1>p2, <4>1, <4>3, <4>4
      <4> QED
        BY <1>p, <1>p2, <4>2, <4>4
    <3> QED
      BY <3>1, <3>2, WriteSteps
  <2> QED
    BY <1>c, <2>1, <2>2
<1> QED
  BY <1>1, <1>2
----------------------------------------------------------------------------
\* A mapper switches on the implementers its package has not ignored.
MappersRight ==
  \A p \in Packages : \A m \in Range(extraOutput[p]) :
    /\ p \in Range(inPackages[m.iface])
    /\ m.types = Impls(m.iface) \ job.ignores[p]
    /\ {t \in m.shimmed : job.kind[t] # "shimmable"} = CastsIn(p, m.iface)
    /\ Generated("intercept", m.iface) \in directives[p]

IdsFrom ==
  /\ \A t \in DOMAIN job.ids : t \in DOMAIN ids /\ ids[t] = job.ids[t]
  /\ DOMAIN ids \subseteq DOMAIN job.ids \cup ImplsOf(job.roots)
  /\ ifaces # {} => job.hasState

LEMMA PackagesGrow ==
  ASSUME TypeOK, [Next]_vars, NEW i \in Types
  PROVE  Range(inPackages[i]) \subseteq Range(inPackages'[i])
BY IfacesGrow, PackageNoted

LEMMA MappedIsNotIgnored ==
  ASSUME TypeOK, IgnoresLoaded, SourcedInv, NEW i \in Types, NEW p \in cached
  PROVE  Mapped(i, p) = Impls(i) \ job.ignores[p]
<1>1. \A t : Declares(directives[p], "ignore", t) => t \in job.ignores[p]
  BY DEF SourcedInv, Declares
<1>2. \A t \in job.ignores[p] : Declares(directives[p], "ignore", t)
  BY DEF IgnoresLoaded
<1> QED
  BY <1>1, <1>2 DEF Mapped, Impls

\* Of types that are no primitives a mapper casts those that the sources shim.
LEMMA CastsAreSourced ==
  ASSUME TypeOK, IgnoresLoaded, SourcedInv, NEW i \in Types, NEW p \in cached,
         SourceDirectives[p] \subseteq directives[p], p \in Packages
  PROVE  {t \in Mapper(i, p).shimmed : job.kind[t] # "shimmable"} = CastsIn(p, i)
<1>1. Mapped(i, p) = Impls(i) \ job.ignores[p]
  BY MappedIsNotIgnored
<1>2. \A t : Declares(directives[p], "shim", t) /\ job.kind[t] # "shimmable" => t \in job.shims[p]
  BY DEF SourcedInv, Declares
<1>3. ASSUME NEW t \in job.shims[p] PROVE Declares(directives[p], "shim", t)
  <2>1. [dir |-> "shim", type |-> t, by |-> "source"] \in SourceDirectives[p]
    BY <1>3 DEF SourceDirectives
  <2> QED
    BY <2>1 DEF Declares
<1>4. Mapper(i, p).shimmed = {t \in Mapped(i, p) : Declares(directives[p], "shim", t)}
  BY DEF Mapper
<1> QED
  BY <1>1, <1>2, <1>3, <1>4 DEF CastsIn

LEMMA MappersStayRight ==
  ASSUME TypeOK, MapperInv, WrittenInv, SourcedInv, MappersRight, [Next]_vars,
         \A p \in cached : SourceDirectives[p] \subseteq directives[p]
  PROVE  MappersRight'
<1> USE DEF outVars, vars
<1> DEFINE Entry == [iface : Types, types : SUBSET Types, shimmed : SUBSET Types]
           Right(p, m) == /\ p \in Range(inPackages'[m.iface])
                          /\ m.types = Impls(m.iface) \ job.ignores[p]
                          /\ {t \in m.shimmed : job.kind[t] # "shimmable"} = CastsIn(p, m.iface)
                          /\ Generated("intercept", m.iface) \in directives'[p]
<1>j. /\ job' = job /\ \A i : Impls(i)' = Impls(i)
      /\ \A i, p : CastsIn(p, i)' = CastsIn(p, i)
  BY Grows DEF Impls, CastsIn
<1>t. extraOutput \in [Packages -> Seq(Entry)] /\ inPackages \in [Types -> Seq(Packages)]
      /\ mapped \in [Types -> Nat] /\ directives \in [Packages -> SUBSET Directive]
  BY DEF TypeOK
<1>s. SUFFICES ASSUME NEW p \in Packages, NEW m \in Range(extraOutput'[p]) PROVE Right(p, m)
  BY <1>j DEF MappersRight, Generated
<1>k. ASSUME m \in Range(extraOutput[p]) PROVE Right(p, m)
  <2>1. m.iface \in Types
    <3>1. extraOutput[p] \in Seq(Entry)
      BY <1>t
    <3>2. m \in Entry
      <4> HIDE DEF Entry
      <4>1. PICK n \in 1..Len(extraOutput[p]) : m = extraOutput[p][n]
        BY <1>k, <3>1, RangeOfSeq
      <4> QED
        BY <3>1, <4>1
    <3> QED
      BY <3>2
  <2>2. /\ p \in Range(inPackages[m.iface]) /\ m.types = Impls(m.iface) \ job.ignores[p]
        /\ {t \in m.shimmed : job.kind[t] # "shimmable"} = CastsIn(p, m.iface)
        /\ Generated("intercept", m.iface) \in directives[p]
    BY <1>k DEF MappersRight
  <2>3. p \in cached
    BY <2>1, <2>2 DEF MapperInv, IfacesCached
  <2> QED
    BY <2>1, <2>2, <2>3, PackagesGrow, DirectivesGrow
<1>q. ASSUME UNCHANGED extraOutput PROVE Right(p, m)
  BY <1>k, <1>q, <1>s
<1>1. ASSUME NEW i \in Types, BuildMapper(i) PROVE Right(p, m)
  <2>o. PICK o : o = inPackages[i][mapped[i] + 1]
    OBVIOUS
  <2>r. inPackages[i] \in Seq(Packages) /\ o \in Range(inPackages[i]) /\ o \in Packages
    <3>1. /\ inPackages[i] \in Seq(Packages) /\ mapped[i] \in Nat
          /\ mapped[i] < Len(inPackages[i])
      BY <1>1, <1>t DEF BuildMapper
    <3>2. mapped[i] + 1 \in 1..Len(inPackages[i])
      BY <3>1
    <3> QED
      BY <2>o, <3>1, <3>2, RangeOfSeq
  <2>1. CASE extraOutput' = extraOutput
    BY <1>q, <2>1
  <2>2. CASE /\ o \in cached /\ inPackages' = inPackages
             /\ directives' = [directives EXCEPT ![o] = @ \cup {Generated("intercept", i)}]
             /\ extraOutput' = [extraOutput EXCEPT ![o] = Append(@, Mapper(i, o))]
    <3>1. Right(o, Mapper(i, o)) /\ Mapper(i, o) \in Entry
      <4>1. Mapper(i, o).iface = i /\ Mapper(i, o).types = Impls(i) \ job.ignores[o]
        BY <2>2, MappedIsNotIgnored DEF Mapper, WrittenInv
      <4>2. Impls(i) \subseteq Types
        BY JobFacts, ImplsTyped
      <4>3. Generated("intercept", i) \in directives'[o]
        BY <1>t, <2>r, <2>2
      <4>4. Mapped(i, o) \subseteq Types
        BY <4>2 DEF Mapped, Impls
      <4>5. Mapper(i, o) \in Entry
        BY <4>4 DEF Mapper
      <4>6. {t \in Mapper(i, o).shimmed : job.kind[t] # "shimmable"} = CastsIn(o, i)
        BY <2>r, <2>2, CastsAreSourced DEF WrittenInv
      <4> QED
        BY <2>r, <2>2, <4>1, <4>3, <4>5, <4>6
    <3> HIDE DEF Right, Entry
    <3>2. /\ extraOutput[p] \in Seq(Entry)
          /\ \/ extraOutput'[p] = extraOutput[p]
             \/ p = o /\ extraOutput'[p] = Append(extraOutput[p], Mapper(i, o))
      BY <1>t, <2>2
    <3>3. Range(Append(extraOutput[p], Mapper(i, o))) = Range(extraOutput[p]) \cup {Mapper(i, o)}
      BY <3>1, <3>2, AppendAdds
    <3> QED
      BY <1>k, <1>s, <3>1, <3>2, <3>3
  <2> QED
    BY <1>1, <2>o, <2>1, <2>2 DEF BuildMapper
<1>2. ASSUME NEW t \in Types, AddRoot(t) PROVE UNCHANGED extraOutput
  BY <1>2 DEF AddRoot
<1>3. ASSUME Handler PROVE UNCHANGED extraOutput
  BY <1>3 DEF Handler, SkipDirect, Panic, SkipRendered, DeclineStruct, BeginStruct, Visit,
       FinishStruct, ExtractNamedCompound, ExtractShimmedSupported, BeginInterface,
       AddImplementer, FinishInterface
<1>4. ASSUME StartExtract \/ StartMappers \/ Finish \/ ExternalError \/ Halted \/ UNCHANGED vars
      PROVE  UNCHANGED extraOutput
  BY <1>4 DEF StartExtract, StartMappers, Finish, ExternalError, Halted
<1> QED
  BY <1>1, <1>2, <1>3, <1>4, <1>q DEF Next

\* An interface that is handled has its implementers in the state; none is
\* handled without a state.
LEMMA IfacesNeedState ==
  ASSUME [Next]_vars, ifaces' # ifaces
  PROVE  job.hasState
<1> USE DEF ifaceVars, vars
<1>1. ASSUME NEW t \in Types, AddRoot(t) \/ BuildMapper(t) PROVE FALSE
  BY <1>1 DEF AddRoot, BuildMapper
<1>2. CASE BeginInterface
  BY <1>2 DEF BeginInterface
<1>3. ASSUME Handler, ~BeginInterface PROVE FALSE
  BY <1>3 DEF Handler, SkipDirect, Panic, SkipRendered, DeclineStruct, BeginStruct, Visit,
       FinishStruct, ExtractNamedCompound, ExtractShimmedSupported, AddImplementer, FinishInterface
<1>4. ASSUME StartExtract \/ StartMappers \/ Finish \/ ExternalError \/ Halted \/ UNCHANGED vars
      PROVE  FALSE
  BY <1>4 DEF StartExtract, StartMappers, Finish, ExternalError, Halted
<1> QED
  BY <1>1, <1>2, <1>3, <1>4 DEF Next

LEMMA IdsStayFrom ==
  ASSUME TypeOK, MapperInv, LoopFrom, AskedInv, IdsFrom, [Next]_vars
  PROVE  IdsFrom'
<1>j. job' = job /\ \A R : ImplsOf(R)' = ImplsOf(R)
  BY Grows, StepDecides, SourcesDecide
<1>1. ifaces' # {} => job.hasState
  BY IfacesNeedState DEF IdsFrom
<1>2. CASE UNCHANGED ids
  BY <1>j, <1>1, <1>2 DEF IdsFrom
<1>3. CASE AddImplementer /\ ids' # ids
  <2>1. /\ phase = "impls" /\ todo # <<>> /\ todo \in Seq(Types)
        /\ Head(todo) \notin job.hidden /\ EnsureType(Head(todo))
    BY <1>3 DEF AddImplementer, stateVars, TypeOK
  <2>2. Head(todo) \in Types /\ Head(todo) \in Range(todo)
    BY <2>1 DEF Range
  <2>3. cur \in seenItems /\ IsInterface(cur.type) /\ Head(todo) \in Impls(cur.type)
    BY <2>1, <2>2 DEF MapperInv, LoopInv, LoopFrom, Impls
  <2>4. cur.type \in Reach(job.roots)
    BY <2>3, AskedIsReached, JobFacts DEF AskedInv, JobTypeOK
  <2>5. Head(todo) \in ImplsOf(job.roots)
    BY <2>2, <2>3, <2>4 DEF ImplsOf
  <2>6. /\ DOMAIN ids' = DOMAIN ids \cup {Head(todo)} /\ \A t \in DOMAIN ids : ids'[t] = ids[t]
    BY <1>3, <2>1 DEF EnsureType, stateVars
  <2> QED
    BY <1>j, <1>1, <2>5, <2>6 DEF IdsFrom
<1> QED
  BY <1>2, <1>3, OnlyImplementersGetIds
----------------------------------------------------------------------------
\* Whence a directive of package p comes.
DirectiveFrom(p, d) ==
  \/ d \in SourceDirectives[p]
  \/ \E t \in Types : /\ job.kind[t] = "struct" /\ Home(t) = p /\ Defined(t)
                      /\ d = Generated("tuple", t) \/ (job.allowExtra /\ d = Generated("allowextra", t))
  \/ \E i \in Types : p \in Range(inPackages[i]) /\ d = Generated("intercept", i)
  \/ \E x \in seenItems : /\ x.origin = p /\ job.kind[x.type] = "shimmable"
                          /\ d = Generated("shim", x.type)

DirectivesFrom ==
  \A p \in Packages :
    /\ p \notin cached => directives[p] = {}
    /\ p \in cached => SourceDirectives[p] \subseteq directives[p] /\ LoadedBy(job.roots, p)
    /\ \A d \in directives[p] : DirectiveFrom(p, d)

\* A struct that is written has its directives.
DirectivesOfWritten ==
  \A t \in Types : job.kind[t] = "struct" /\ Defined(t) =>
    /\ Home(t) \in cached
    /\ Generated("tuple", t) \in directives[Home(t)]
    /\ job.allowExtra => Generated("allowextra", t) \in directives[Home(t)]

LEMMA CacheSteps ==
  ASSUME TypeOK, QueueInv, LoopFrom, [Next]_vars, NEW p \in Packages
  PROVE  \/ p \in cached /\ p \in cached'
         \/ p \notin cached' /\ directives'[p] = directives[p]
         \/ \E x \in seenItems :
              /\ p \in cached'
              /\ job.kind[x.type] \in {"struct", "compound", "shimmable"}
              /\ p = x.origin \/ (job.kind[x.type] # "shimmable" /\ p = Home(x.type))
<1> USE DEF dctvVars, vars
<1>g. cached \subseteq cached' /\ directives \in [Packages -> SUBSET Directive]
  BY Grows DEF TypeOK
<1>h. ASSUME NEW k, Take(k)
      PROVE  Head(contents) \in seenItems /\ job.kind[Head(contents).type] = k
  <2>1. contents # <<>> /\ contents \in Seq(TypeQueueItem)
    BY <1>h DEF Take, Dequeue, TypeOK
  <2>2. Head(contents) \in Range(contents)
    BY <2>1 DEF Range
  <2> QED
    BY <1>h, <2>2 DEF QueueInv, Take
<1>k. ASSUME cached' = cached, p \notin cached => directives'[p] = directives[p]
      PROVE  (p \in cached /\ p \in cached') \/ (p \notin cached' /\ directives'[p] = directives[p])
  BY <1>k
<1>1. CASE DeclineStruct \/ BeginStruct
  <2>1. /\ Head(contents) \in seenItems /\ job.kind[Head(contents).type] = "struct"
        /\ Ensure({Head(contents).origin, Home(Head(contents).type)}, SourceDirectives)
    BY <1>1, <1>h DEF DeclineStruct, BeginStruct
  <2> QED
    BY <1>g, <2>1 DEF Ensure
<1>2. CASE ExtractNamedCompound
  <2>1. /\ Head(contents) \in seenItems /\ job.kind[Head(contents).type] = "compound"
        /\ Ensure({Home(Head(contents).type)}, SourceDirectives)
    BY <1>2, <1>h DEF ExtractNamedCompound
  <2> QED
    BY <1>g, <2>1 DEF Ensure
<1>3. CASE ExtractShimmedSupported
  <2>x. PICK x : x = Head(contents)
    OBVIOUS
  <2>1. /\ x \in seenItems /\ job.kind[x.type] = "shimmable"
        /\ EnsureAndAdd({x.origin}, SourceDirectives, x.origin, {Generated("shim", x.type)})
    BY <1>3, <1>h, <2>x DEF ExtractShimmedSupported
  <2>2. CASE p = x.origin
    BY <2>1, <2>2 DEF EnsureAndAdd
  <2>3. CASE p # x.origin
    BY <1>g, <2>1, <2>3 DEF EnsureAndAdd
  <2> QED
    BY <2>2, <2>3
<1>4. CASE FinishStruct
  <2>1. cur \in seenItems /\ job.kind[cur.type] = "struct"
    BY <1>4 DEF FinishStruct, LoopFrom, Open
  <2>2. PICK ds : EnsureAndAdd({Home(cur.type)}, SourceDirectives, Home(cur.type), ds)
    BY <1>4 DEF FinishStruct
  <2>3. CASE p = Home(cur.type)
    BY <2>1, <2>2, <2>3 DEF EnsureAndAdd
  <2>4. CASE p # Home(cur.type)
    BY <1>g, <2>2, <2>4 DEF EnsureAndAdd
  <2> QED
    BY <2>3, <2>4
<1>5. ASSUME NEW i \in Types, BuildMapper(i)
      PROVE  cached' = cached /\ (p \notin cached => directives'[p] = directives[p])
  <2>o. PICK o : o = inPackages[i][mapped[i] + 1]
    OBVIOUS
  <2>1. CASE directives' = directives
    BY <1>5, <2>1 DEF BuildMapper
  <2>2. CASE o \in cached /\ directives' = [directives EXCEPT ![o] = @ \cup {Generated("intercept", i)}]
    BY <1>5, <1>g, <2>2 DEF BuildMapper
  <2> QED
    BY <1>5, <2>o, <2>1, <2>2 DEF BuildMapper
<1>6. ASSUME NEW t \in Types, AddRoot(t) PROVE cached' = cached /\ directives' = directives
  BY <1>6 DEF AddRoot
<1>7. ASSUME SkipDirect \/ Panic \/ SkipRendered \/ Visit \/ BeginInterface \/ AddImplementer
             \/ FinishInterface
      PROVE  cached' = cached /\ directives' = directives
  BY <1>7 DEF SkipDirect, Panic, SkipRendered, Visit, BeginInterface, AddImplementer,
     FinishInterface
<1>8. ASSUME StartExtract \/ StartMappers \/ Finish \/ ExternalError \/ Halted \/ UNCHANGED vars
      PROVE  cached' = cached /\ directives' = directives
  BY <1>8 DEF StartExtract, StartMappers, Finish, ExternalError, Halted
<1> QED
  BY <1>1, <1>2, <1>3, <1>4, <1>5, <1>6, <1>7, <1>8, <1>k DEF Next, Handler

\* Directives are added where a struct is written, a primitive is shimmed or a
\* mapper is built.
LEMMA DirectiveSteps ==
  ASSUME TypeOK, QueueInv, LoopFrom, [Next]_vars, NEW p \in Packages, NEW d \in directives'[p]
  PROVE  \/ d \in directives[p] \/ d \in SourceDirectives[p]
         \/ /\ FinishStruct /\ p = Home(cur.type)
            /\ d = Generated("tuple", cur.type) \/ (job.allowExtra /\ d = Generated("allowextra", cur.type))
         \/ \E i \in Types : p \in Range(inPackages[i]) /\ d = Generated("intercept", i)
         \/ \E x \in seenItems : /\ x.origin = p /\ job.kind[x.type] = "shimmable"
                                 /\ d = Generated("shim", x.type)
<1> USE DEF dctvVars, vars
<1>t. directives \in [Packages -> SUBSET Directive] /\ inPackages \in [Types -> Seq(Packages)]
      /\ mapped \in [Types -> Nat]
  BY DEF TypeOK
<1>1. CASE DeclineStruct \/ BeginStruct \/ ExtractNamedCompound
  <2>1. PICK ps : Ensure(ps, SourceDirectives)
    BY <1>1 DEF DeclineStruct, BeginStruct, ExtractNamedCompound
  <2> QED
    BY <1>t, <2>1 DEF Ensure, DirectivesOf
<1>2. CASE FinishStruct
  <2>t. PICK t : t = cur.type
    OBVIOUS
  <2>1. PICK ds : /\ EnsureAndAdd({Home(t)}, SourceDirectives, Home(t), ds)
                  /\ ds = {Generated("tuple", t)} \cup
                            (IF job.allowExtra THEN {Generated("allowextra", t)} ELSE {})
    BY <1>2, <2>t DEF FinishStruct
  <2>2. d \in directives[p] \/ d \in SourceDirectives[p] \/ (p = Home(t) /\ d \in ds)
    BY <1>t, <2>1 DEF EnsureAndAdd, DirectivesOf
  <2> QED
    BY <1>2, <2>t, <2>1, <2>2
<1>3. CASE ExtractShimmedSupported
  <2>x. PICK x : x = Head(contents)
    OBVIOUS
  <2>1. /\ contents # <<>> /\ contents \in Seq(TypeQueueItem) /\ job.kind[x.type] = "shimmable"
        /\ EnsureAndAdd({x.origin}, SourceDirectives, x.origin, {Generated("shim", x.type)})
    BY <1>3, <2>x DEF ExtractShimmedSupported, Take, Dequeue, TypeOK
  <2>2. x \in seenItems
    <3>1. x \in Range(contents)
      BY <2>x, <2>1 DEF Range
    <3> QED
      BY <3>1 DEF QueueInv
  <2>3. d \in directives[p] \/ d \in SourceDirectives[p] \/ (p = x.origin /\ d = Generated("shim", x.type))
    BY <1>t, <2>1 DEF EnsureAndAdd, DirectivesOf
  <2> QED
    BY <2>1, <2>2, <2>3
<1>4. ASSUME NEW i \in Types, BuildMapper(i)
      PROVE  d \in directives[p] \/ (p \in Range(inPackages[i]) /\ d = Generated("intercept", i))
  <2>o. PICK o : o = inPackages[i][mapped[i] + 1]
    OBVIOUS
  <2>1. \/ directives' = directives
        \/ directives' = [directives EXCEPT ![o] = @ \cup {Generated("intercept", i)}]
    BY <1>4, <2>o DEF BuildMapper
  <2>2. o \in Range(inPackages[i])
    <3>1. /\ inPackages[i] \in Seq(Packages) /\ mapped[i] \in Nat
          /\ mapped[i] < Len(inPackages[i])
      BY <1>4, <1>t DEF BuildMapper
    <3>2. mapped[i] + 1 \in 1..Len(inPackages[i])
      BY <3>1
    <3> QED
      BY <2>o, <3>1, <3>2, RangeOfSeq
  <2> QED
    BY <1>t, <2>1, <2>2
<1>5. ASSUME NEW t \in Types, AddRoot(t) PROVE directives' = directives
  BY <1>5 DEF AddRoot
<1>6. ASSUME SkipDirect \/ Panic \/ SkipRendered \/ Visit \/ BeginInterface \/ AddImplementer
             \/ FinishInterface
      PROVE  directives' = directives
  BY <1>6 DEF SkipDirect, Panic, SkipRendered, Visit, BeginInterface, AddImplementer,
     FinishInterface
<1>7. ASSUME StartExtract \/ StartMappers \/ Finish \/ ExternalError \/ Halted \/ UNCHANGED vars
      PROVE  directives' = directives
  BY <1>7 DEF StartExtract, StartMappers, Finish, ExternalError, Halted
<1> QED
  BY <1>1, <1>2, <1>3, <1>4, <1>5, <1>6, <1>7 DEF Next, Handler

\* The definition that FinishStruct writes.
LEMMA FinishDefines ==
  ASSUME TypeOK, LoopFrom, FinishStruct, NEW t, t = cur.type
  PROVE  /\ t \in Types /\ job.kind[t] = "struct" /\ Defined(t)'
         /\ Home(t) \in cached' /\ Generated("tuple", t) \in directives'[Home(t)]
         /\ job.allowExtra => Generated("allowextra", t) \in directives'[Home(t)]
<1>1. /\ t \in Types /\ job.kind[t] = "struct" /\ Home(t) \in Packages
      /\ tempOutput \in [Packages -> Seq(Types)]
      /\ tempOutput' = [tempOutput EXCEPT ![Home(t)] = Append(@, t)] /\ job' = job
  BY JobFacts DEF FinishStruct, LoopFrom, Open, TypeOK, TypeQueueItem, JobTypeOK, Home
<1>2. tempOutput'[Home(t)] = Append(tempOutput[Home(t)], t) /\ tempOutput[Home(t)] \in Seq(Types)
  BY <1>1
<1>3. t \in Range(tempOutput'[Home(t)])
  BY <1>1, <1>2, AppendAdds
<1>4. Defined(t)'
  BY <1>1, <1>3 DEF Defined, Home
<1>5. EnsureAndAdd({Home(t)}, SourceDirectives, Home(t),
        {Generated("tuple", t)} \cup
          (IF job.allowExtra THEN {Generated("allowextra", t)} ELSE {}))
  BY DEF FinishStruct
<1>6. /\ Home(t) \in cached' /\ Generated("tuple", t) \in directives'[Home(t)]
      /\ job.allowExtra => Generated("allowextra", t) \in directives'[Home(t)]
  BY <1>1, <1>5 DEF EnsureAndAdd
<1> QED
  BY <1>1, <1>4, <1>6

LEMMA DirectivesStayFrom ==
  ASSUME TypeOK, QueueInv, WrittenInv, LoopFrom, AskedInv, DirectivesFrom, [Next]_vars
  PROVE  DirectivesFrom'
<1>j. /\ job' = job /\ seenItems \subseteq seenItems' /\ cached \subseteq cached' /\ JobTypeOK(job)
      /\ \A t : Home(t)' = Home(t)
      /\ \A R, p : LoadedBy(R, p)' = LoadedBy(R, p)
      /\ SourceDirectives' = SourceDirectives
  BY Grows, SeenGrows, JobFacts, StepDecides, SourcesDecide
<1> SUFFICES ASSUME NEW p \in Packages
             PROVE  /\ p \notin cached' => directives'[p] = {}
                    /\ p \in cached' => SourceDirectives[p] \subseteq directives'[p] /\ LoadedBy(job.roots, p)
                    /\ \A d \in directives'[p] : DirectiveFrom(p, d)'
  BY <1>j DEF DirectivesFrom
<1>1. p \notin cached' => directives'[p] = {}
  BY <1>j, CacheSteps DEF DirectivesFrom
<1>2. ASSUME p \in cached' PROVE SourceDirectives[p] \subseteq directives'[p]
  <2>1. CASE p \in cached
    BY <2>1, DirectivesGrow DEF DirectivesFrom
  <2>2. CASE p \notin cached
    BY <1>2, <2>2, DirectivesGrow
  <2> QED
    BY <2>1, <2>2
<1>3. ASSUME p \in cached' PROVE LoadedBy(job.roots, p)
  <2>1. CASE p \in cached
    BY <2>1 DEF DirectivesFrom
  <2>2. ASSUME NEW x \in seenItems, job.kind[x.type] \in {"struct", "compound", "shimmable"},
               p = x.origin \/ (job.kind[x.type] # "shimmable" /\ p = Home(x.type))
        PROVE  LoadedBy(job.roots, p)
    <3>1. AskedFor(job.roots, x.origin, x.type) /\ x.type \in Reach(job.roots)
      BY <1>j, AskedIsReached DEF AskedInv, JobTypeOK
    <3>2. CASE p = Home(x.type) /\ job.kind[x.type] # "shimmable"
      BY <2>2, <3>1, <3>2 DEF LoadedBy
    <3>3. CASE p = x.origin /\ x.type \in job.roots /\ Home(x.type) = p
      BY <2>2, <3>1, <3>3 DEF LoadedBy
    <3>4. ASSUME NEW t, UsedBy(job.roots, p, t) PROVE LoadedBy(job.roots, p)
      BY <3>4 DEF UsedBy, Open, LoadedBy
    <3> QED
      BY <2>2, <3>1, <3>2, <3>3, <3>4 DEF AskedFor, SureAt
  <2> QED
    BY <1>3, <2>1, <2>2, CacheSteps
<1>4. ASSUME NEW d \in directives'[p] PROVE DirectiveFrom(p, d)'
  <2>1. ASSUME DirectiveFrom(p, d) PROVE DirectiveFrom(p, d)'
    <3>1. CASE d \in SourceDirectives[p]
      BY <1>j, <3>1 DEF DirectiveFrom
    <3>2. ASSUME NEW t \in Types, job.kind[t] = "struct", Home(t) = p, Defined(t),
                 d = Generated("tuple", t) \/ (job.allowExtra /\ d = Generated("allowextra", t))
          PROVE  DirectiveFrom(p, d)'
      <4>1. Defined(t)'
        BY <3>2, DefinedStays
      <4> QED
        BY <1>j, <3>2, <4>1 DEF DirectiveFrom, Generated
    <3>3. ASSUME NEW i \in Types, p \in Range(inPackages[i]), d = Generated("intercept", i)
          PROVE  DirectiveFrom(p, d)'
      <4>1. p \in Range(inPackages'[i])
        BY <3>3, PackagesGrow
      <4> QED
        BY <3>3, <4>1 DEF DirectiveFrom, Generated
    <3>4. ASSUME NEW x \in seenItems, x.origin = p, job.kind[x.type] = "shimmable",
                 d = Generated("shim", x.type)
          PROVE  DirectiveFrom(p, d)'
      BY <1>j, <3>4 DEF DirectiveFrom, Generated
    <3> QED
      BY <2>1, <3>1, <3>2, <3>3, <3>4 DEF DirectiveFrom
  <2>2. CASE d \in directives[p]
    BY <2>1, <2>2 DEF DirectivesFrom
  <2>3. CASE d \in SourceDirectives[p]
    BY <2>1, <2>3 DEF DirectiveFrom
  <2>4. CASE /\ FinishStruct /\ p = Home(cur.type)
             /\ \/ d = Generated("tuple", cur.type)
                \/ job.allowExtra /\ d = Generated("allowextra", cur.type)
    <3>t. PICK t : t = cur.type
      OBVIOUS
    <3>1. t \in Types /\ job.kind[t] = "struct" /\ Defined(t)'
      BY <2>4, <3>t, FinishDefines
    <3> QED
      BY <1>j, <2>4, <3>t, <3>1 DEF DirectiveFrom, Generated
  <2>5. CASE \E i \in Types : p \in Range(inPackages[i]) /\ d = Generated("intercept", i)
    BY <2>1, <2>5 DEF DirectiveFrom
  <2>6. CASE \E x \in seenItems : /\ x.origin = p /\ job.kind[x.type] = "shimmable"
                                  /\ d = Generated("shim", x.type)
    BY <2>1, <2>6 DEF DirectiveFrom
  <2> QED
    BY <2>2, <2>3, <2>4, <2>5, <2>6, DirectiveSteps
<1> QED
  BY <1>1, <1>2, <1>3, <1>4

LEMMA WrittenKeepsDirectives ==
  ASSUME TypeOK, WrittenInv, LoopFrom, DirectivesOfWritten, [Next]_vars
  PROVE  DirectivesOfWritten'
<1>j. job' = job /\ cached \subseteq cached' /\ \A t : Home(t)' = Home(t)
  BY Grows DEF Home
<1> SUFFICES ASSUME NEW t \in Types, job.kind[t] = "struct", Defined(t)'
             PROVE  /\ Home(t) \in cached' /\ Generated("tuple", t) \in directives'[Home(t)]
                    /\ job.allowExtra => Generated("allowextra", t) \in directives'[Home(t)]
  BY <1>j DEF DirectivesOfWritten, Generated
<1>1. CASE Defined(t)
  BY <1>1, <1>j, DirectivesGrow DEF DirectivesOfWritten
<1>2. CASE FinishStruct /\ t = cur.type
  BY <1>2, FinishDefines
<1> QED
  BY <1>1, <1>2, DefinedStays
----------------------------------------------------------------------------
\* All that holds while an extraction runs, ...
ExtractionInv ==
  /\ QueueInv /\ MapperInv /\ WrittenInv /\ ServedInv
  /\ LoopFrom /\ AskedInv /\ RootedInv
  /\ WrittenSeen /\ ReferInv /\ CountInv
  /\ MappersRight /\ IdsFrom /\ DirectivesFrom /\ DirectivesOfWritten

LEMMA RootsStay ==
  ASSUME TypeOK, MapperInv, [Next]_vars
  PROVE  RootsInv'
<1>1. rootsLeft' \subseteq rootsLeft
  BY RootsSteps DEF AddRoot
<1> QED
  BY <1>1, Grows DEF MapperInv, RootsInv

LEMMA ExtractionStep ==
  ASSUME TypeOK, ExtractionInv, \A i \in Types : Concrete(Range(job.impls[i])), [Next]_vars
  PROVE  ExtractionInv'
<1>1. QueueInv' /\ MapperInv' /\ WrittenInv'
  BY QueueStepsRefine, RootsStay, OriginsStayCached, LoopStaysReady, IfacesStayCached, ImplsKeepIds,
     OutputStays, HandlerStaysAllowed, IgnoresStayLoaded DEF ExtractionInv, MapperInv, WrittenInv
<1>2. ServedInv'
  BY HandledStays, RenderedStays, SourcedStays, WalkStays, FieldsStay, MappedStays,
     ImplsStayQueued, MapperTypesStay DEF ExtractionInv, ServedInv
<1>3. LoopFrom' /\ AskedInv' /\ RootedInv'
  BY LoopStaysFrom, AskedStays, RootedStays DEF ExtractionInv
<1>4. WrittenSeen' /\ ReferInv' /\ CountInv'
  BY WrittenStaysSeen, StillReferred, CountStays DEF ExtractionInv
<1>5. MappersRight' /\ IdsFrom'
  <2>1. \A p \in cached : SourceDirectives[p] \subseteq directives[p]
    BY DEF ExtractionInv, DirectivesFrom, TypeOK
  <2> QED
    BY <2>1, MappersStayRight, IdsStayFrom DEF ExtractionInv, ServedInv
<1>6. DirectivesFrom' /\ DirectivesOfWritten'
  BY DirectivesStayFrom, WrittenKeepsDirectives DEF ExtractionInv
<1> QED
  BY <1>1, <1>2, <1>3, <1>4, <1>5, <1>6 DEF ExtractionInv

\* ... from its beginning, in whatever run.
Begun ==
  /\ phase = "roots" /\ rootsLeft = job.roots /\ cur = NoItem /\ todo = <<>>
  /\ tempRendered = {}
  /\ tempOutput = [p \in Packages |-> <<>>] /\ extraOutput = [p \in Packages |-> <<>>]
  /\ ifaces = {} /\ inPackages = [i \in Types |-> <<>>] /\ mapped = [i \in Types |-> 0]
  /\ NewTypeQueue /\ NewDirectivesCache
  /\ ids = job.ids

LEMMA BegunIsRight == TypeOK /\ Begun => ExtractionInv
<1> SUFFICES ASSUME TypeOK, Begun PROVE ExtractionInv
  OBVIOUS
<1>r. Range(<<>>) = {}
  BY DEF Range
<1>1. /\ phase = "roots" /\ rootsLeft = job.roots /\ contents = <<>> /\ seenItems = {}
      /\ tempRendered = {} /\ cached = {} /\ ifaces = {} /\ ids = job.ids
      /\ \A i \in Types : mapped[i] = 0 /\ inPackages[i] = <<>>
      /\ \A p \in Packages : extraOutput[p] = <<>> /\ tempOutput[p] = <<>> /\ directives[p] = {}
  BY DEF Begun, NewTypeQueue, NewDirectivesCache
<1>2. \A t \in Types : Home(t) \in Packages
  BY JobFacts DEF JobTypeOK, Home
<1>3. \A t \in Types : ~Defined(t)
  BY <1>r, <1>1, <1>2 DEF Defined
<1>4. QueueInv /\ MapperInv
  BY <1>r, <1>1 DEF QueueInv, Status, MapperInv, RootsInv, OriginsCached, LoopInv, IfacesCached, ImplsHaveIds
<1>5. WrittenInv
  BY <1>1 DEF WrittenInv, OutputInv, HandlerInv, IgnoresLoaded
<1>6. ServedInv
  BY <1>r, <1>1, <1>3 DEF ServedInv, HandledInv, RenderedInv, SourcedInv, WalkInv, FieldsInv, MappedInv,
     ImplsQueued, MapperTypes
<1>7. LoopFrom /\ AskedInv /\ RootedInv /\ WrittenSeen /\ ReferInv
  <2>1. LoopFrom /\ AskedInv /\ RootedInv
    BY <1>1 DEF LoopFrom, AskedInv, RootedInv
  <2>2. \A p \in Packages : Range(tempOutput[p]) = {}
    BY <1>r, <1>1
  <2>3. \A i \in Types : Range(inPackages[i]) = {}
    BY <1>r, <1>1
  <2>4. WrittenSeen
    BY <2>2 DEF WrittenSeen
  <2>5. ReferInv
    BY <1>1, <2>3 DEF ReferInv
  <2> QED
    BY <2>1, <2>4, <2>5
<1>8. CountInv
  <2>1. ASSUME NEW i \in Types PROVE PlacesOf(i) = {}
    <3>1. tempOutput[Home(i)] = <<>>
      BY <1>1, <1>2
    <3>2. DOMAIN <<>> = {}
      OBVIOUS
    <3> QED
      BY <3>1, <3>2 DEF PlacesOf
  <2> QED
    BY <1>r, <1>1, <2>1, FS_EmptySet DEF CountInv
<1>9. MappersRight /\ IdsFrom /\ DirectivesFrom /\ DirectivesOfWritten
  BY <1>r, <1>1, <1>3 DEF MappersRight, IdsFrom, DirectivesFrom, DirectivesOfWritten
<1> QED
  BY <1>4, <1>5, <1>6, <1>7, <1>8, <1>9 DEF ExtractionInv
----------------------------------------------------------------------------
(***************************************************************************)
(* What an extraction has written when it ends well.                       *)
(***************************************************************************)
\* What the theorems about reruns ask of the sources.
Undisturbed == NoShims /\ KeysApart

AtEnd ==
  /\ TypeOK /\ ExtractionInv /\ phase = "done" /\ Undisturbed
  /\ \A i \in Types : Concrete(Range(job.impls[i]))

SeenTypes == {t \in Types : Queued(t)}

\* What was taken from the queue is cared for; a struct, but for shims, by being
\* written.
LEMMA SeenIsCared ==
  ASSUME AtEnd, NEW p, NEW t, Item(p, t) \in seenItems
  PROVE  /\ p \in Packages /\ t \in Types /\ Home(t) \in Packages
         /\ Cared(p, t)
         /\ Open(t) => Defined(t) /\ FieldsSeen(t)
         /\ IsInterface(t) => t \in ifaces /\ p \in Range(inPackages[t])
<1>1. Item(p, t) \in TypeQueueItem /\ Cared(Item(p, t).origin, Item(p, t).type)
  <2>1. Item(p, t) \in TypeQueueItem /\ Answered(Item(p, t))
    BY AllAnsweredAtEnd DEF AtEnd, ExtractionInv
  <2>2. seenItems \subseteq TypeQueueItem
    BY DEF AtEnd, TypeOK
  <2>3. ~KeyShared(Item(p, t))
    BY <2>1, <2>2 DEF KeyShared, AtEnd, Undisturbed, KeysApart
  <2> QED
    BY <2>1, <2>3 DEF Answered
<1>2. p \in Packages /\ t \in Types /\ Cared(p, t)
  BY <1>1 DEF TypeQueueItem, Item
<1>3. Home(t) \in Packages
  BY <1>2, JobFacts DEF AtEnd, JobTypeOK, Home
<1>4. Open(t) => Defined(t)
  BY <1>2 DEF AtEnd, Open, Cared, Undisturbed, NoShims
<1>5. Open(t) => FieldsSeen(t)
  BY <1>2, <1>4 DEF AtEnd, Open, ExtractionInv, ServedInv, FieldsInv
<1>6. IsInterface(t) => t \in ifaces /\ p \in Range(inPackages[t])
  BY <1>2 DEF AtEnd, Cared, IsInterface
<1> QED
  BY <1>2, <1>3, <1>4, <1>5, <1>6

LEMMA SeenIsClosed ==
  ASSUME AtEnd
  PROVE  job.roots \subseteq SeenTypes /\ Closed(SeenTypes)
<1>j. JobTypeOK(job)
  BY JobFacts DEF AtEnd
<1>1. job.roots \subseteq SeenTypes
  <2>1. rootsLeft = {} /\ Live
    BY DEF AtEnd, ExtractionInv, RootedInv, Live
  <2>2. \A t \in job.roots : t \in Types /\ Home(t) \in Packages /\ Item(Home(t), t) \in seenItems
    BY <1>j, <2>1 DEF AtEnd, ExtractionInv, RootedInv, JobTypeOK, Home
  <2> QED
    BY <2>2 DEF SeenTypes, Queued
<1>2. ASSUME NEW t \in SeenTypes, Open(t) PROVE Uses(t) \subseteq SeenTypes
  <2>1. PICK o : Item(o, t) \in seenItems
    BY DEF SeenTypes, Queued
  <2>2. FieldsSeen(t) /\ Home(t) \in Packages /\ t \in Types
    BY <1>2, <2>1, SeenIsCared
  <2> QED
    BY <1>j, <2>2, UsesFacts DEF SeenTypes, Queued, FieldsSeen
<1>3. ASSUME NEW t \in SeenTypes, IsInterface(t) PROVE Impls(t) \subseteq SeenTypes
  <2>1. PICK o : Item(o, t) \in seenItems
    BY DEF SeenTypes, Queued
  <2>2. t \in ifaces /\ t \in Types
    BY <1>3, <2>1, SeenIsCared
  <2>3. \A u \in Impls(t) : Queued(u)
    BY <2>2 DEF AtEnd, ExtractionInv, ServedInv, ImplsQueued, Impls
  <2> QED
    BY <1>j, <2>2, <2>3, ImplsTyped DEF SeenTypes
<1> QED
  BY <1>1, <1>2, <1>3 DEF Closed

\* What is reached has been taken from the queue, and nothing else.
LEMMA SeenIsReached ==
  ASSUME AtEnd
  PROVE  Reach(job.roots) = SeenTypes
<1>j. JobTypeOK(job) /\ job.roots \in SUBSET Types
  BY JobFacts DEF AtEnd, JobTypeOK
<1>1. Reach(job.roots) \subseteq SeenTypes
  <2>1. SeenTypes \in SUBSET Types
    BY DEF SeenTypes
  <2> QED
    BY <2>1, SeenIsClosed, ReachIsLeast
<1>2. ASSUME NEW t \in SeenTypes PROVE t \in Reach(job.roots)
  <2>1. PICK o \in Packages : Item(o, t) \in seenItems
    BY DEF SeenTypes, Queued
  <2>2. AskedFor(job.roots, o, t)
    BY <2>1 DEF AtEnd, ExtractionInv, AskedInv, Item
  <2> QED
    BY <1>j, <2>2, AskedIsReached
<1> QED
  BY <1>1, <1>2

\* A package gets what it uses, and its roots.
LEMMA SureIsSeen ==
  ASSUME AtEnd, NEW p, NEW t, SureAt(job.roots, p, t)
  PROVE  Item(p, t) \in seenItems
<1>1. CASE t \in job.roots /\ Home(t) = p
  BY <1>1 DEF AtEnd, ExtractionInv, RootedInv, Live
<1>2. CASE UsedBy(job.roots, p, t)
  <2>1. PICK s \in Reach(job.roots) : Open(s) /\ Home(s) = p /\ t \in Uses(s)
    BY <1>2 DEF UsedBy
  <2>2. PICK o : Item(o, s) \in seenItems
    BY SeenIsReached DEF SeenTypes, Queued
  <2>3. FieldsSeen(s)
    BY <2>1, <2>2, SeenIsCared
  <2> QED
    BY <2>1, <2>3 DEF FieldsSeen
<1> QED
  BY <1>1, <1>2 DEF SureAt

LEMMA SeenIsAsked ==
  ASSUME AtEnd, NEW x \in seenItems
  PROVE  AskedFor(job.roots, x.origin, x.type)
BY DEF AtEnd, ExtractionInv, AskedInv

\* The packages of an interface are those of its uses.
LEMMA ReferredIsUsed ==
  ASSUME AtEnd, NEW i \in Types
  PROVE  /\ IsInterface(i) => Range(inPackages[i]) = {p \in Packages : UsedBy(job.roots, p, i)}
         /\ \A p \in Range(inPackages[i]) : IsInterface(i)
<1>j. Concrete(job.roots) /\ Range(inPackages[i]) \subseteq Packages
  <2>1. inPackages[i] \in Seq(Packages)
    BY DEF AtEnd, TypeOK
  <2> QED
    BY <2>1, JobFacts, RangeOfSeq DEF AtEnd, WellFormed, Concrete
<1>1. ASSUME NEW p \in Range(inPackages[i])
      PROVE  IsInterface(i) /\ UsedBy(job.roots, p, i)
  <2>1. IsInterface(i) /\ Item(p, i) \in seenItems
    BY DEF AtEnd, ExtractionInv, ReferInv
  <2>2. AskedFor(job.roots, p, i)
    BY <2>1, SeenIsAsked DEF Item
  <2> QED
    BY <1>j, <2>1, <2>2, InterfaceIsUsed DEF AtEnd
<1>2. ASSUME NEW p \in Packages, UsedBy(job.roots, p, i), IsInterface(i)
      PROVE  p \in Range(inPackages[i])
  <2>1. Item(p, i) \in seenItems
    BY <1>2, SureIsSeen DEF SureAt
  <2> QED
    BY <1>2, <2>1, SeenIsCared
<1> QED
  BY <1>j, <1>1, <1>2

\* The definitions of a package.
LEMMA DefinedAtEnd ==
  ASSUME AtEnd, NEW p \in Packages
  PROVE  DefinedRight(job.roots, p, sortOutput(tempOutput[p]))
<1> DEFINE out == tempOutput[p]
           f == sortOutput(out)
<1>o. OutputInv /\ WrittenSeen /\ CountInv
  BY DEF AtEnd, ExtractionInv, WrittenInv
<1>1. DOMAIN f = Range(out) /\ Range(out) \subseteq Types
  <2>1. out \in Seq(Types)
    BY DEF AtEnd, TypeOK
  <2> QED
    BY <2>1, RangeOfSeq DEF sortOutput
<1>2. ASSUME NEW t \in Types, DefinedIn(job.roots, p, t) PROVE t \in Range(out)
  <2>1. Home(t) = p /\ \E o \in Packages : Item(o, t) \in seenItems
    BY <1>2, SeenIsReached DEF DefinedIn, SeenTypes, Queued
  <2>2. PICK o \in Packages : Item(o, t) \in seenItems
    BY <2>1
  <2>3. CASE Open(t)
    BY <2>1, <2>2, <2>3, SeenIsCared DEF Defined
  <2>4. CASE job.kind[t] = "compound" /\ ~Excused(t)
    BY <2>1, <2>2, <2>4, SeenIsCared DEF Defined, Cared
  <2>5. CASE IsInterface(t)
    <3>1. o \in Range(inPackages[t])
      BY <2>2, <2>5, SeenIsCared
    <3>2. PlacesOf(t) # {}
      <4>1. IsFiniteSet(Range(inPackages[t])) /\ Cardinality(PlacesOf(t)) = Cardinality(Range(inPackages[t]))
        BY <1>o, <2>5 DEF CountInv
      <4>2. Cardinality(Range(inPackages[t])) # 0
        BY <3>1, <4>1, FS_EmptySet
      <4> QED
        BY <4>1, <4>2, FS_EmptySet
    <3> QED
      BY <2>1, <3>2 DEF PlacesOf, Range
  <2>6. CASE job.kind[t] = "shimmable" /\ p \in job.user /\ SureAt(job.roots, p, t)
    <3>1. Cared(p, t)
      BY <2>6, SureIsSeen, SeenIsCared
    <3> QED
      BY <2>1, <2>6, <3>1 DEF Cared, Defined
  <2> QED
    BY <1>2, <2>3, <2>4, <2>5, <2>6 DEF DefinedIn
<1>3. ASSUME NEW t \in Range(out)
      PROVE  DefinedIn(job.roots, p, t) \/ MayBeIn(job.roots, p, t)
  <2>1. /\ t \in Types /\ Home(t) = p /\ (CanIgnore(t) => t \notin job.ignores[p])
        /\ ~IsInterface(t) => p \in job.user
    BY <1>1, <1>o DEF OutputInv, Range
  <2>2. PICK x \in seenItems : /\ x.type = t
                               /\ job.kind[t] \in {"struct", "compound", "shimmable", "interface"}
                               /\ job.kind[t] = "shimmable" => x.origin = p
    BY <1>o DEF WrittenSeen
  <2>3. AskedFor(job.roots, x.origin, t)
    BY <2>2, SeenIsAsked
  <2>4. t \in Reach(job.roots)
    BY <2>3, AskedIsReached, JobFacts DEF AtEnd, JobTypeOK
  <2>5. CASE job.kind[t] # "shimmable"
    BY <2>1, <2>2, <2>4, <2>5 DEF DefinedIn, Open, Excused, CanIgnore, IsInterface
  <2>6. CASE job.kind[t] = "shimmable"
    <3>1. p \in job.user
      BY <2>1, <2>6 DEF IsInterface
    <3>2. CASE SureAt(job.roots, p, t)
      BY <2>1, <2>4, <2>6, <3>1, <3>2 DEF DefinedIn
    <3>3. CASE \E i \in Types : IsInterface(i) /\ UsedBy(job.roots, p, i) /\ t \in Impls(i)
      <4>1. t \in ImplsOf(job.roots)
        <5>1. PICK i \in Types : IsInterface(i) /\ UsedBy(job.roots, p, i) /\ t \in Impls(i)
          BY <3>3
        <5>2. i \in Reach(job.roots)
          BY <5>1, AskedIsReached, JobFacts DEF AtEnd, JobTypeOK, AskedFor, SureAt
        <5> QED
          BY <2>1, <5>1, <5>2 DEF ImplsOf
      <4> QED
        BY <2>1, <2>6, <3>1, <4>1 DEF MayBeIn
    <3> QED
      BY <2>2, <2>3, <2>6, <3>2, <3>3 DEF AskedFor
  <2> QED
    BY <2>5, <2>6
<1>4. ASSUME NEW t \in Range(out)
      PROVE  Cardinality({n \in DOMAIN out : out[n] = t}) = Count(job.roots, t)
  <2>1. t \in Types /\ Home(t) = p
    BY <1>1, <1>o DEF OutputInv, Range
  <2>2. PlacesOf(t) = {n \in DOMAIN out : out[n] = t}
    BY <2>1 DEF PlacesOf
  <2>3. CASE IsInterface(t)
    BY <1>o, <2>1, <2>2, <2>3, ReferredIsUsed DEF CountInv, Count
  <2>4. CASE ~IsInterface(t)
    <3>1. PICK m \in DOMAIN out : out[m] = t
      BY DEF Range
    <3>2. PlacesOf(t) = {m}
      BY <1>o, <2>2, <2>4, <3>1 DEF OutputInv
    <3> QED
      BY <2>2, <2>4, <3>2, FS_Singleton DEF Count
  <2> QED
    BY <2>3, <2>4
<1>5. f = [t \in DOMAIN f |-> Count(job.roots, t)]
  BY <1>1, <1>4 DEF sortOutput
<1> QED
  BY <1>1, <1>2, <1>3, <1>5 DEF DefinedRight

\* Its mappers.
LEMMA MappersAtEnd ==
  ASSUME AtEnd, NEW p \in Packages
  PROVE  Switches(Range(extraOutput[p])) = MappersOf(job.roots, p)
<1>1. \A m \in Range(extraOutput[p]) : m.iface \in Types
  <2> DEFINE M == [iface : Types, types : SUBSET Types, shimmed : SUBSET Types]
  <2>1. extraOutput[p] \in Seq(M)
    BY DEF AtEnd, TypeOK
  <2>2. Range(extraOutput[p]) \subseteq M
    <3> HIDE DEF M
    <3> QED
      BY <2>1, RangeOfSeq
  <2> QED
    BY <2>2
<1>2. ASSUME NEW m \in Range(extraOutput[p])
      PROVE  /\ m.iface \in Types /\ IsInterface(m.iface) /\ UsedBy(job.roots, p, m.iface)
             /\ m.types = Impls(m.iface) \ job.ignores[p]
             /\ {t \in m.shimmed : job.kind[t] # "shimmable"} = CastsIn(p, m.iface)
  <2>1. /\ p \in Range(inPackages[m.iface]) /\ m.types = Impls(m.iface) \ job.ignores[p]
        /\ {t \in m.shimmed : job.kind[t] # "shimmable"} = CastsIn(p, m.iface)
    BY DEF AtEnd, ExtractionInv, MappersRight
  <2> QED
    BY <1>1, <2>1, ReferredIsUsed
<1>3. ASSUME NEW i \in Types, IsInterface(i), UsedBy(job.roots, p, i)
      PROVE  \E m \in Range(extraOutput[p]) : m.iface = i
  <2>1. p \in Range(inPackages[i])
    BY <1>3, ReferredIsUsed
  <2>2. i \in ifaces
    BY <1>3, SureIsSeen, SeenIsCared DEF SureAt
  <2>3. PICK n \in DOMAIN inPackages[i] : inPackages[i][n] = p
    BY <2>1 DEF Range
  <2>4. n \in 1..mapped[i]
    BY <2>2, <2>3 DEF AtEnd, TypeOK, ExtractionInv, ServedInv, MappedInv
  <2> QED
    BY <2>3, <2>4 DEF AtEnd, ExtractionInv, ServedInv, MappedInv, Range
<1> DEFINE built == Switches(Range(extraOutput[p]))
           In(m) == {t \in m.shimmed : job.kind[t] # "shimmable"}
<1>4. built \subseteq MappersOf(job.roots, p)
  <2> SUFFICES ASSUME NEW m \in Range(extraOutput[p])
               PROVE  [iface |-> m.iface, types |-> m.types, shimmed |-> In(m)]
                        \in MappersOf(job.roots, p)
    BY DEF Switches
  <2> QED
    BY <1>2 DEF MappersOf
<1>5. MappersOf(job.roots, p) \subseteq built
  <2> SUFFICES ASSUME NEW i \in Types, IsInterface(i), UsedBy(job.roots, p, i)
               PROVE  [iface |-> i, types |-> Impls(i) \ job.ignores[p],
                       shimmed |-> CastsIn(p, i)] \in built
    BY DEF MappersOf
  <2>1. PICK m \in Range(extraOutput[p]) : m.iface = i
    BY <1>3
  <2>2. m.types = Impls(i) \ job.ignores[p] /\ In(m) = CastsIn(p, i)
    BY <1>2, <2>1
  <2> QED
    BY <2>1, <2>2 DEF Switches
<1> QED
  BY <1>4, <1>5

\* Its directives.
LEMMA DirectivesAtEnd ==
  ASSUME AtEnd, NEW p \in Packages
  PROVE  DirectivesRight(job.roots, p, sortOutput(tempOutput[p]), Written.directives[p])
<1> DEFINE R == job.roots
           out == tempOutput[p]
           ds == Written.directives[p]
<1>j. JobTypeOK(job) /\ R \in SUBSET Types /\ out \in Seq(Types)
  BY JobFacts DEF AtEnd, JobTypeOK, TypeOK
<1>o. OutputInv /\ WrittenSeen /\ DirectivesFrom /\ DirectivesOfWritten /\ MappersRight
  BY DEF AtEnd, ExtractionInv, WrittenInv
<1>1. ds = IF out = <<>> THEN {} ELSE directives[p]
  BY DEF Written
<1>2. DOMAIN sortOutput(out) = {} <=> out = <<>>
  <2>1. DOMAIN sortOutput(out) = Range(out)
    BY DEF sortOutput
  <2>2. out # <<>> => 1 \in 1..Len(out)
    BY <1>j
  <2>3. out # <<>> => Range(out) # {}
    BY <1>j, <2>2, RangeOfSeq
  <2>4. out = <<>> => Range(out) = {}
    BY DEF Range
  <2> QED
    BY <2>1, <2>3, <2>4
<1>3. ASSUME LoadedBy(R, p) PROVE p \in cached
  <2>1. PICK t \in Reach(R) : /\ Home(t) = p
                              /\ \/ job.kind[t] \in {"struct", "compound"}
                                 \/ job.kind[t] = "shimmable" /\ t \in R
    BY <1>3 DEF LoadedBy
  <2>2. PICK o \in Packages : Item(o, t) \in seenItems
    BY SeenIsReached DEF SeenTypes, Queued
  <2>3. CASE job.kind[t] \in {"struct", "compound"}
    BY <2>1, <2>2, <2>3, SeenIsCared DEF Cared
  <2>4. CASE job.kind[t] = "shimmable" /\ t \in R
    <3>1. SureAt(R, p, t)
      BY <2>1, <2>4 DEF SureAt
    <3>2. Cared(p, t)
      BY <3>1, SureIsSeen, SeenIsCared
    <3> QED
      BY <2>4, <3>2 DEF Cared
  <2> QED
    BY <2>1, <2>3, <2>4
<1>4. ASSUME p \in cached, NEW d, DirectiveIn(R, p, d) PROVE d \in directives[p]
  <2>1. CASE d \in SourceDirectives[p]
    BY <1>4, <1>o, <2>1 DEF DirectivesFrom
  <2>2. CASE \E t \in Reach(R) :
               /\ Open(t) /\ Home(t) = p
               /\ d = Generated("tuple", t) \/ (job.allowExtra /\ d = Generated("allowextra", t))
    <3>1. PICK t \in Reach(R) :
               /\ Open(t) /\ Home(t) = p
               /\ d = Generated("tuple", t) \/ (job.allowExtra /\ d = Generated("allowextra", t))
      BY <2>2
    <3>2. t \in Types /\ Defined(t)
      BY <3>1, SeenIsReached, SeenIsCared DEF SeenTypes, Queued
    <3> QED
      BY <1>o, <3>1, <3>2 DEF DirectivesOfWritten, Open
  <2>3. CASE \E t \in Types : IsInterface(t) /\ UsedBy(R, p, t) /\ d = Generated("intercept", t)
    <3>1. PICK t \in Types : IsInterface(t) /\ UsedBy(R, p, t) /\ d = Generated("intercept", t)
      BY <2>3
    <3>2. [iface |-> t, types |-> Impls(t) \ job.ignores[p], shimmed |-> CastsIn(p, t)]
            \in MappersOf(R, p)
      BY <3>1 DEF MappersOf
    <3>3. PICK m \in Range(extraOutput[p]) :
            [iface |-> t, types |-> Impls(t) \ job.ignores[p], shimmed |-> CastsIn(p, t)]
              = [iface |-> m.iface, types |-> m.types,
                 shimmed |-> {s \in m.shimmed : job.kind[s] # "shimmable"}]
      BY <3>2, MappersAtEnd DEF Switches
    <3>4. m.iface = t
      BY <3>3
    <3> QED
      BY <1>o, <3>1, <3>4 DEF MappersRight
  <2>4. CASE \E t \in Types : job.kind[t] = "shimmable" /\ SureAt(R, p, t) /\ d = Generated("shim", t)
    BY <2>4, SureIsSeen, SeenIsCared DEF Cared
  <2> QED
    BY <1>4, <2>1, <2>2, <2>3, <2>4 DEF DirectiveIn
<1>5. ASSUME NEW d \in directives[p]
      PROVE  /\ LoadedBy(R, p)
             /\ DirectiveIn(R, p, d) \/ \E t \in ImplsOf(R) : d = Generated("shim", t)
  <2>0. LoadedBy(R, p) /\ DirectiveFrom(p, d)
    BY <1>o DEF DirectivesFrom
  <2>1. CASE d \in SourceDirectives[p]
    BY <2>0, <2>1 DEF DirectiveIn
  <2>2. CASE \E t \in Types : /\ job.kind[t] = "struct" /\ Home(t) = p /\ Defined(t)
                              /\ d = Generated("tuple", t) \/ (job.allowExtra /\ d = Generated("allowextra", t))
    <3>1. PICK t \in Types : /\ job.kind[t] = "struct" /\ Home(t) = p /\ Defined(t)
                             /\ d = Generated("tuple", t) \/ (job.allowExtra /\ d = Generated("allowextra", t))
      BY <2>2
    <3>2. t \in Range(out)
      BY <3>1 DEF Defined
    <3>3. ~Excused(t)
      BY <1>o, <3>1, <3>2 DEF OutputInv, Range, CanIgnore, Excused
    <3>4. t \in Reach(R)
      BY <1>j, <1>o, <3>1, <3>2, SeenIsAsked, AskedIsReached DEF WrittenSeen
    <3> QED
      BY <2>0, <3>1, <3>3, <3>4 DEF DirectiveIn, Open
  <2>3. CASE \E i \in Types : p \in Range(inPackages[i]) /\ d = Generated("intercept", i)
    BY <2>0, <2>3, ReferredIsUsed DEF DirectiveIn
  <2>4. CASE \E x \in seenItems : /\ x.origin = p /\ job.kind[x.type] = "shimmable"
                                  /\ d = Generated("shim", x.type)
    <3>1. PICK x \in seenItems : /\ x.origin = p /\ job.kind[x.type] = "shimmable"
                                 /\ d = Generated("shim", x.type)
      BY <2>4
    <3>2. x.type \in Types /\ AskedFor(R, p, x.type)
      BY <3>1, SeenIsAsked DEF AtEnd, TypeOK, TypeQueueItem
    <3>3. CASE SureAt(R, p, x.type)
      BY <2>0, <3>1, <3>2, <3>3 DEF DirectiveIn
    <3>4. CASE \E i \in Types : IsInterface(i) /\ UsedBy(R, p, i) /\ x.type \in Impls(i)
      <4>1. PICK i \in Types : IsInterface(i) /\ UsedBy(R, p, i) /\ x.type \in Impls(i)
        BY <3>4
      <4>2. i \in Reach(R)
        BY <1>j, <4>1, AskedIsReached DEF AskedFor, SureAt
      <4> QED
        BY <2>0, <3>1, <3>2, <4>1, <4>2 DEF ImplsOf
    <3> QED
      BY <3>2, <3>3, <3>4 DEF AskedFor
  <2> QED
    BY <2>0, <2>1, <2>2, <2>3, <2>4 DEF DirectiveFrom
<1> QED
  <2> HIDE DEF R, out, ds
  <2>1. DOMAIN sortOutput(out) # {} /\ LoadedBy(R, p) => \A d : DirectiveIn(R, p, d) => d \in ds
    BY <1>1, <1>2, <1>3, <1>4
  <2>2. DOMAIN sortOutput(out) = {} => ds = {}
    BY <1>1, <1>2
  <2>3. \A d \in ds : LoadedBy(R, p) /\ (DirectiveIn(R, p, d) \/ \E t \in ImplsOf(R) : d = Generated("shim", t))
    BY <1>1, <1>5
  <2>4. DirectivesRight(R, p, sortOutput(out), ds)
    BY <2>1, <2>2, <2>3 DEF DirectivesRight
  <2> QED
    BY <2>4 DEF R, out, ds

LEMMA OutcomeAtEnd ==
  ASSUME AtEnd
  PROVE  Outcome(job.roots, Written)
<1>1. Written.defined = [p \in Packages |-> sortOutput(tempOutput[p])]
  BY DEF Written
<1>2. \A p \in Packages : Switches(Written.mappers[p]) = MappersOf(job.roots, p)
  <2>1. \A p \in Packages : Written.mappers[p] = Range(extraOutput[p])
    BY DEF Written
  <2> QED
    BY <2>1, MappersAtEnd
<1>3. \A p \in Packages : Written.defined[p] = sortOutput(tempOutput[p])
  BY <1>1
<1>4. Written.defined = [p \in Packages |-> Written.defined[p]]
  BY <1>1
<1> QED
  BY <1>2, <1>3, <1>4, DefinedAtEnd, DirectivesAtEnd DEF Outcome

\* The implementers have IDs, and nothing else has got one.
LEMMA IdsAtEnd ==
  ASSUME AtEnd
  PROVE  /\ DOMAIN ids = DOMAIN job.ids \cup ImplsOf(job.roots)
         /\ \A t \in DOMAIN job.ids : ids[t] = job.ids[t]
         /\ ~job.hasState => ImplsOf(job.roots) = {}
<1>1. \A i \in Reach(job.roots) : IsInterface(i) => i \in ifaces
  BY SeenIsReached, SeenIsCared DEF SeenTypes, Queued
<1>2. ImplsOf(job.roots) \subseteq DOMAIN ids
  BY <1>1 DEF ImplsOf, Impls, AtEnd, ExtractionInv, MapperInv, ImplsHaveIds
<1>3. ~job.hasState => ifaces = {}
  BY DEF AtEnd, ExtractionInv, IdsFrom
<1> QED
  BY <1>1, <1>2, <1>3 DEF AtEnd, ExtractionInv, IdsFrom, ImplsOf
----------------------------------------------------------------------------
(***************************************************************************)
(* From run to run: what the last success has written is the outcome for   *)
(* some roots, and the roots of the next run are these and implementers.   *)
(***************************************************************************)
RootsNow ==
  {t \in job.found :
     \/ job.hasState /\ t \in DOMAIN file
     \/ t \in Structs /\ \E i \in Range(given.flags) : Present(i) /\ t \in Range(job.impls[i])}

KnownFrom(R) ==
  /\ Outcome(R, before)
  /\ ImplsOf(R) \subseteq DOMAIN file
  /\ ImplsOf(R) # {} => job.hasState
  /\ R \subseteq RootsNow /\ RootsNow \subseteq R \cup ImplsOf(R)
  /\ good > 1 => RootsNow = R

SettledInv == good > 0 /\ Undisturbed => \E R \in SUBSET Types : KnownFrom(R)

\* A run begins with an empty extractor, and goes on as an extraction.
ProgressInv ==
  /\ at # "extract" => Begun
  /\ at = "extract" => (Begun \/ ExtractionInv) /\ job.ids = file

LEMMA ExtractionRuns ==
  ASSUME DInv, ProgressInv, at = "extract"
  PROVE  ExtractionInv
BY BegunIsRight DEF DInv, DriverTypeOK, ProgressInv

LEMMA RunEndsWell ==
  ASSUME DInv, ProgressInv, at = "extract", phase = "done", Undisturbed
  PROVE  /\ AtEnd /\ job.ids = file /\ job.roots = RootsNow /\ job.roots \in SUBSET Types
         /\ JobTypeOK(job)
<1>1. ExtractionInv
  BY ExtractionRuns
<1>2. TypeOK /\ RootsRight /\ ConcreteInv
  BY DEF DInv, DriverTypeOK, SearchInv
<1>3. JobTypeOK(job)
  BY <1>2, JobFacts
<1> QED
  BY <1>1, <1>2, <1>3 DEF AtEnd, ProgressInv, RootsRight, RootsNow, ConcreteInv, JobTypeOK
----------------------------------------------------------------------------
LEMMA ForgetBegins ==
  ASSUME DInv, Forget
  PROVE  Begun' /\ SameSources
<1>1. JobTypeOK(job)
  BY JobFacts DEF DInv, DriverTypeOK
<1>2. job'.roots = {} /\ job'.ids = <<>> /\ SameSources
  BY <1>1 DEF Forget, JobTypeOK, JobFields, SameSources
<1> QED
  BY <1>2 DEF Forget, Begun, LoadState, NewTypeQueue, NewDirectivesCache

LEMMA CallBegins ==
  ASSUME DInv, ProgressInv, CallGenerate
  PROVE  Begun' /\ SameSources /\ job'.ids = file' /\ file' = file
<1>1. JobTypeOK(job)
  BY JobFacts DEF DInv, DriverTypeOK
<1>2. job'.roots = types /\ job'.ids = file /\ SameSources
  BY <1>1 DEF CallGenerate, JobTypeOK, JobFields, SameSources
<1>3. Begun
  BY DEF ProgressInv, CallGenerate
<1> QED
  BY <1>2, <1>3 DEF CallGenerate, Begun, LoadState, NewTypeQueue, NewDirectivesCache,
     outVars, ifaceVars, queueVars, dctvVars

LEMMA BegunStays ==
  ASSUME Begun, UNCHANGED extractorVars
  PROVE  Begun'
BY DEF Begun, NewTypeQueue, NewDirectivesCache, extractorVars, vars, outVars, ifaceVars, loopVars,
   queueVars, dctvVars, stateVars

LEMMA ProgressStays ==
  ASSUME DInv, ProgressInv, [DNext]_dvars
  PROVE  ProgressInv'
<1> USE DEF driverVars, searchVars
<1>1. CASE Load \/ LoadFails \/ FindIface \/ NoTypes
  <2>1. at # "extract" /\ at' # "extract" /\ UNCHANGED extractorVars
    BY <1>1 DEF Load, LoadFails, FindIface, NoTypes
  <2> QED
    BY <2>1, BegunStays DEF ProgressInv
<1>2. CASE CallGenerate
  BY <1>2, CallBegins DEF ProgressInv, CallGenerate
<1>3. CASE Extract
  <2>1. ExtractionInv /\ TypeOK /\ ConcreteInv /\ [Next]_vars /\ at = "extract" /\ UNCHANGED <<at, file>>
    BY <1>3, ExtractionRuns DEF Extract, DInv, DriverTypeOK
  <2>2. ExtractionInv'
    BY <2>1, ExtractionStep DEF ConcreteInv
  <2>3. job' = job
    BY <2>1, Grows
  <2> QED
    BY <2>1, <2>2, <2>3 DEF ProgressInv
<1>4. CASE Save \/ GiveUp
  BY <1>4, ForgetBegins DEF Save, GiveUp, ProgressInv
<1>5. CASE UNCHANGED dvars
  <2>1. UNCHANGED <<at, file, job, extractorVars>>
    BY <1>5 DEF dvars, extractorVars, vars
  <2>2. ExtractionInv /\ at = "extract" => ExtractionInv'
    BY <2>1, ExtractionStep DEF extractorVars, DInv, DriverTypeOK, ConcreteInv
  <2> QED
    BY <2>1, <2>2, BegunStays DEF ProgressInv
<1> QED
  BY <1>1, <1>2, <1>3, <1>4, <1>5 DEF DNext
----------------------------------------------------------------------------
LEMMA SourcesDecideMore ==
  ASSUME SameSources
  PROVE  /\ Undisturbed' = Undisturbed /\ job'.hasState = job.hasState
         /\ UNCHANGED <<file, given>> => RootsNow' = RootsNow
<1>1. /\ job'.kind = job.kind /\ job'.home = job.home /\ job'.impls = job.impls
      /\ job'.shims = job.shims /\ job'.found = job.found /\ job'.hasState = job.hasState
      /\ job'.joined = job.joined
  BY DEF SameSources, JobFields
<1>2. Undisturbed' = Undisturbed
  <2>1. NoShims' = NoShims
    BY <1>1 DEF NoShims
  <2>2. \A x : RenderKey(x)' = RenderKey(x)
    BY <1>1 DEF RenderKey
  <2>3. KeysApart' = KeysApart
    BY <1>1, <2>2 DEF KeysApart
  <2> QED
    BY <2>1, <2>3 DEF Undisturbed
<1>3. ASSUME UNCHANGED <<file, given>> PROVE RootsNow' = RootsNow
  BY <1>1, <1>3 DEF RootsNow, Structs, Present, Home
<1> QED
  BY <1>1, <1>2, <1>3

LEMMA OutcomeLater ==
  ASSUME SameSources, NEW R, NEW w, w = before', Outcome(R, w)
  PROVE  Outcome(R, before)'
<1>1. Outcome(R, w)'
  BY SourcesDecide
<1> QED
  BY <1>1 DEF Outcome

LEMMA SettledStays ==
  ASSUME SettledInv, SameSources, UNCHANGED <<given, file, good, before>>
  PROVE  SettledInv'
<1>1. SUFFICES ASSUME NEW R \in SUBSET Types, KnownFrom(R)
               PROVE  KnownFrom(R)'
  BY SourcesDecideMore DEF SettledInv
<1>2. Outcome(R, before)'
  BY <1>1, OutcomeLater DEF KnownFrom
<1>3. ImplsOf(R)' = ImplsOf(R) /\ RootsNow' = RootsNow /\ job'.hasState = job.hasState
  BY SourcesDecide, SourcesDecideMore
<1> QED
  BY <1>1, <1>2, <1>3 DEF KnownFrom

\* The roots that a run adds to those of the run before reach nothing new.
LEMMA SameReach ==
  ASSUME JobTypeOK(job), NEW R \in SUBSET Types, KnownFrom(R), RootsNow \in SUBSET Types
  PROVE  /\ Reach(RootsNow) = Reach(R) /\ ImplsOf(RootsNow) = ImplsOf(R)
         /\ \A p, t : UsedBy(RootsNow, p, t) = UsedBy(R, p, t)
<1>1. Reach(RootsNow) = Reach(R) /\ ImplsOf(RootsNow) = ImplsOf(R)
  BY ReachSame DEF KnownFrom
<1> QED
  BY <1>1 DEF UsedBy

\* A run on the same sources gives no new ID.
LEMMA NoNewIds ==
  ASSUME DInv, ProgressInv, SettledInv, at = "extract", phase = "done", Undisturbed, good > 0
  PROVE  ids = file
<1>1. AtEnd /\ job.ids = file /\ job.roots = RootsNow /\ job.roots \in SUBSET Types /\ JobTypeOK(job)
  BY RunEndsWell
<1>2. PICK R \in SUBSET Types : KnownFrom(R)
  BY DEF SettledInv
<1>3. ImplsOf(job.roots) \subseteq DOMAIN file
  BY <1>1, <1>2, SameReach DEF KnownFrom
<1>4. DOMAIN ids = DOMAIN file /\ \A t \in DOMAIN file : ids[t] = file[t]
  BY <1>1, <1>3, IdsAtEnd
<1>5. ids \in [DOMAIN ids -> Int] /\ file \in [DOMAIN file -> Int]
  BY DEF DInv, DriverTypeOK, TypeOK, FileLoads
<1> QED
  BY <1>4, <1>5

LEMMA SaveSettles ==
  ASSUME DInv, ProgressInv, SettledInv, Save
  PROVE  SettledInv'
<1>1. /\ SameSources /\ at = "extract" /\ phase = "done"
      /\ file' = (IF job.hasState THEN ids ELSE file)
      /\ good' = good + 1 /\ before' = Written /\ given' = given
  BY ForgetBegins DEF Save
<1>2. Undisturbed' = Undisturbed /\ job'.hasState = job.hasState
  BY <1>1, SourcesDecideMore
<1>3. SUFFICES ASSUME Undisturbed, NEW R, R = job.roots
               PROVE  R \in SUBSET Types /\ KnownFrom(R)'
  BY <1>2 DEF SettledInv
<1>4. AtEnd /\ job.ids = file /\ R = RootsNow /\ R \in SUBSET Types /\ JobTypeOK(job)
  BY <1>1, <1>3, RunEndsWell
<1>5. Outcome(R, before)'
  <2>1. Outcome(R, Written)
    BY <1>3, <1>4, OutcomeAtEnd
  <2> QED
    BY <1>1, <2>1, OutcomeLater
<1>6. DOMAIN ids = DOMAIN file \cup ImplsOf(R) /\ (~job.hasState => ImplsOf(R) = {})
  BY <1>3, <1>4, IdsAtEnd
<1>7. ImplsOf(R)' = ImplsOf(R)
  BY <1>1, SourcesDecide
<1>8. ImplsOf(R) \subseteq DOMAIN file' /\ (ImplsOf(R) # {} => job.hasState)
  BY <1>1, <1>6
<1>9. R \subseteq RootsNow' /\ RootsNow' \subseteq R \cup ImplsOf(R)
  <2>1. /\ job'.kind = job.kind /\ job'.home = job.home /\ job'.impls = job.impls
        /\ job'.found = job.found /\ job'.hasState = job.hasState
    BY <1>1 DEF SameSources, JobFields
  <2>2. RootsNow' = {t \in job.found :
                       \/ job.hasState /\ t \in DOMAIN file'
                       \/ t \in Structs /\ \E i \in Range(given.flags) :
                                             Present(i) /\ t \in Range(job.impls[i])}
    BY <1>1, <2>1 DEF RootsNow, Structs, Present, Home
  <2>3. RootsNow' = RootsNow \cup {t \in job.found : job.hasState /\ t \in DOMAIN file'}
    BY <1>1, <1>6, <2>2 DEF RootsNow
  <2>4. job.hasState => job.found \cap DOMAIN file' \subseteq RootsNow \cup ImplsOf(R)
    BY <1>1, <1>6 DEF RootsNow
  <2> QED
    BY <1>4, <2>3, <2>4
<1>10. good' > 1 => RootsNow' = R
  <2>1. good \in Nat
    BY DriverAssumption DEF DInv, DriverTypeOK
  <2>2. SUFFICES ASSUME good > 0 PROVE RootsNow' = R
    BY <1>1, <2>1
  <2>3. file' = file
    BY <1>1, <1>3, <2>2, NoNewIds
  <2> QED
    BY <1>1, <1>4, <2>3, SourcesDecideMore
<1> QED
  BY <1>4, <1>5, <1>7, <1>8, <1>9, <1>10, <1>1, <1>2 DEF KnownFrom

LEMMA SettledStep ==
  ASSUME DInv, ProgressInv, SettledInv, [DNext]_dvars
  PROVE  SettledInv'
<1> USE DEF driverVars, searchVars
<1>0. ASSUME job' = job PROVE SameSources
  BY <1>0 DEF SameSources
<1>1. CASE Load \/ LoadFails \/ FindIface \/ NoTypes
  BY <1>0, <1>1, SettledStays DEF Load, LoadFails, FindIface, NoTypes, extractorVars, vars
<1>2. CASE CallGenerate
  BY <1>2, CallBegins, SettledStays DEF CallGenerate
<1>3. CASE Extract
  <2>1. SameSources
    BY <1>3, StepDecides DEF Extract, DInv, DriverTypeOK
  <2> QED
    BY <1>3, <2>1, SettledStays DEF Extract
<1>4. CASE GiveUp
  BY <1>4, ForgetBegins, SettledStays DEF GiveUp
<1>5. CASE Save
  BY <1>5, SaveSettles
<1>6. CASE UNCHANGED dvars
  BY <1>0, <1>6, SettledStays DEF dvars, extractorVars, vars
<1> QED
  BY <1>1, <1>2, <1>3, <1>4, <1>5, <1>6 DEF DNext

LEMMA RunsInvariant == DSpec => [](DInv /\ ProgressInv /\ SettledInv)
<1>1. DInit => DInv /\ ProgressInv /\ SettledInv
  <2>1. DInit => ProgressInv
    BY DEF DInit, Init, ProgressInv, Begun, InitState
  <2>2. DInit => SettledInv
    BY DEF DInit, SettledInv
  <2> QED
    BY <2>1, <2>2, InitDInv
<1>2. DInv /\ ProgressInv /\ SettledInv /\ [DNext]_dvars => ProgressInv' /\ SettledInv'
  BY ProgressStays, SettledStep
<1>3. DSpec => []DInv
  BY DriverInvariant
<1> QED
  BY <1>1, <1>2, <1>3, PTL DEF DSpec
----------------------------------------------------------------------------
\* Two outcomes of the same sources: what the one defines and the other does
\* not is a primitive implementer, or a primitive root.
LEMMA DefinedMoves ==
  ASSUME JobTypeOK(job), NEW R \in SUBSET Types, NEW Q, Reach(Q) = Reach(R),
         NEW p, NEW f, DefinedRight(R, p, f), NEW g, DefinedRight(Q, p, g),
         NEW t \in DOMAIN f \ DOMAIN g
  PROVE  /\ job.kind[t] = "shimmable" /\ Home(t) = p /\ ~SureAt(Q, p, t)
         /\ t \in ImplsOf(R) \/ t \in R \ Q
<1>0. Reach(R) \subseteq Types /\ ImplsOf(R) \subseteq Reach(R)
  BY ReachFacts DEF ImplsOf, Closed
<1>1. DefinedIn(R, p, t) \/ MayBeIn(R, p, t)
  BY DEF DefinedRight
<1>2. t \in Reach(R) /\ t \in Types /\ Home(t) = p
  BY <1>0, <1>1 DEF DefinedIn, MayBeIn
<1>3. ~DefinedIn(Q, p, t)
  BY <1>2 DEF DefinedRight
<1>4. job.kind[t] = "shimmable" /\ p \in job.user
  BY <1>1, <1>2, <1>3 DEF DefinedIn, MayBeIn
<1>5. ~SureAt(Q, p, t)
  BY <1>2, <1>3, <1>4 DEF DefinedIn
<1>6. CASE MayBeIn(R, p, t)
  BY <1>2, <1>4, <1>5, <1>6 DEF MayBeIn
<1>7. CASE DefinedIn(R, p, t)
  <2>1. SureAt(R, p, t)
    BY <1>4, <1>7 DEF DefinedIn, Open, IsInterface
  <2>2. UsedBy(Q, p, t) = UsedBy(R, p, t)
    BY DEF UsedBy
  <2> QED
    BY <1>2, <1>4, <1>5, <2>1, <2>2 DEF SureAt
<1> QED
  BY <1>1, <1>6, <1>7

\* A second run against the first.
LEMMA SecondRun ==
  ASSUME DInv, ProgressInv, SettledInv, RerunDone, Undisturbed
  PROVE  /\ ids = file /\ JobTypeOK(job)
         /\ Outcome(RootsNow, Written)
         /\ \E R \in SUBSET Types : /\ KnownFrom(R)
                                    /\ Reach(RootsNow) = Reach(R) /\ ImplsOf(RootsNow) = ImplsOf(R)
                                    /\ \A p, t : UsedBy(RootsNow, p, t) = UsedBy(R, p, t)
         /\ RootsNow \in SUBSET Types
<1>1. AtEnd /\ job.ids = file /\ job.roots = RootsNow /\ job.roots \in SUBSET Types /\ JobTypeOK(job)
  BY RunEndsWell DEF RerunDone
<1>2. PICK R \in SUBSET Types : KnownFrom(R)
  BY DEF SettledInv, RerunDone
<1>3. ids = file
  BY NoNewIds DEF RerunDone
<1>4. Outcome(RootsNow, Written)
  BY <1>1, OutcomeAtEnd
<1> QED
  BY <1>1, <1>2, <1>3, <1>4, SameReach

LEMMA SameMappers ==
  ASSUME NEW R, NEW Q, \A p, t : UsedBy(Q, p, t) = UsedBy(R, p, t),
         NEW v, Outcome(R, v), NEW w, Outcome(Q, w)
  PROVE  \A p \in Packages : Switches(w.mappers[p]) = Switches(v.mappers[p])
<1>1. \A p \in Packages : MappersOf(Q, p) = MappersOf(R, p)
  BY DEF MappersOf
<1> QED
  BY <1>1 DEF Outcome

LEMMA RerunKept ==
  ASSUME DInv, ProgressInv, SettledInv
  PROVE  RerunKeeps
<1> SUFFICES ASSUME RerunDone, Undisturbed
             PROVE  /\ ids = file
                    /\ \A p \in Packages :
                         /\ Switches(Written.mappers[p]) = Switches(before.mappers[p])
                         /\ \A t \in DOMAIN before.defined[p] \ DOMAIN Written.defined[p] :
                              job.kind[t] = "shimmable" /\ t \notin job.found
                         /\ \A t \in DOMAIN Written.defined[p] \ DOMAIN before.defined[p] :
                              job.kind[t] = "shimmable" /\ t \in DOMAIN file
  BY DEF RerunKeeps, Undisturbed
<1>1. ids = file /\ JobTypeOK(job) /\ Outcome(RootsNow, Written) /\ RootsNow \in SUBSET Types
  BY SecondRun
<1>2. PICK R \in SUBSET Types : /\ KnownFrom(R)
                                /\ Reach(RootsNow) = Reach(R) /\ ImplsOf(RootsNow) = ImplsOf(R)
                                /\ \A p, t : UsedBy(RootsNow, p, t) = UsedBy(R, p, t)
  BY SecondRun
<1>3. Outcome(R, before)
  BY <1>2 DEF KnownFrom
<1>4. \A p \in Packages : Switches(Written.mappers[p]) = Switches(before.mappers[p])
  BY <1>1, <1>2, <1>3, SameMappers
<1>5. ASSUME NEW p \in Packages
      PROVE  DefinedRight(R, p, before.defined[p]) /\ DefinedRight(RootsNow, p, Written.defined[p])
  BY <1>1, <1>3 DEF Outcome
<1>6. ASSUME NEW p \in Packages, NEW t \in DOMAIN before.defined[p] \ DOMAIN Written.defined[p]
      PROVE  job.kind[t] = "shimmable" /\ t \notin job.found
  <2>1. /\ job.kind[t] = "shimmable" /\ Home(t) = p /\ ~SureAt(RootsNow, p, t)
        /\ t \in ImplsOf(R) \/ t \in R \ RootsNow
    BY <1>1, <1>2, <1>5, DefinedMoves
  <2>2. t \in ImplsOf(R) /\ t \in DOMAIN file /\ job.hasState
    BY <1>2, <2>1 DEF KnownFrom
  <2>3. t \notin RootsNow
    BY <2>1 DEF SureAt
  <2> QED
    BY <2>1, <2>2, <2>3 DEF RootsNow
<1>7. ASSUME NEW p \in Packages, NEW t \in DOMAIN Written.defined[p] \ DOMAIN before.defined[p]
      PROVE  job.kind[t] = "shimmable" /\ t \in DOMAIN file
  <2>1. job.kind[t] = "shimmable" /\ (t \in ImplsOf(RootsNow) \/ t \in RootsNow \ R)
    BY <1>1, <1>2, <1>5, DefinedMoves
  <2> QED
    BY <1>2, <2>1 DEF KnownFrom
<1> QED
  BY <1>1, <1>4, <1>6, <1>7

LEMMA ImplsImplement ==
  ASSUME NEW R, NEW t \in ImplsOf(R)
  PROVE  \E i \in Types : t \in Range(job.impls[i])
<1>1. PICK i \in Reach(R) : IsInterface(i) /\ t \in Impls(i)
  BY DEF ImplsOf
<1> QED
  BY <1>1 DEF Impls, Reach

\* With the same roots nothing is left to move but what was not imported.
LEMMA SameDefined ==
  ASSUME JobTypeOK(job), PrimitivesFound, NEW R \in SUBSET Types,
         ImplsOf(R) \cap job.found \subseteq R,
         NEW p, NEW f, DefinedRight(R, p, f), NEW g, DefinedRight(R, p, g)
  PROVE  DOMAIN f \subseteq DOMAIN g
<1> SUFFICES ASSUME NEW t \in DOMAIN f \ DOMAIN g PROVE FALSE
  OBVIOUS
<1>1. job.kind[t] = "shimmable" /\ Home(t) = p /\ ~SureAt(R, p, t) /\ t \in ImplsOf(R)
  BY DefinedMoves
<1>2. t \in job.found
  BY <1>1, ImplsImplement DEF PrimitivesFound
<1> QED
  BY <1>1, <1>2 DEF SureAt

LEMMA SameDirectives ==
  ASSUME NEW R, NEW p, NEW f, NEW g, DOMAIN f = DOMAIN g,
         NEW ds, DirectivesRight(R, p, f, ds), NEW es, DirectivesRight(R, p, g, es),
         NEW d \in ds \ es
  PROVE  \E t \in ImplsOf(R) : d = Generated("shim", t)
BY DEF DirectivesRight

LEMMA RunsSettle ==
  ASSUME DInv, ProgressInv, SettledInv
  PROVE  Settles
<1> SUFFICES ASSUME RerunDone, Undisturbed, PrimitivesFound, good > 1
             PROVE  /\ Written.defined = before.defined
                    /\ \A p \in Packages :
                         /\ Switches(Written.mappers[p]) = Switches(before.mappers[p])
                         /\ \A d \in (Written.directives[p] \cup before.directives[p])
                                       \ (Written.directives[p] \cap before.directives[p]) :
                              /\ d = Generated("shim", d.type)
                              /\ \E i \in Types : d.type \in Range(job.impls[i])
  BY DEF Settles, Undisturbed
<1>1. ids = file /\ JobTypeOK(job) /\ Outcome(RootsNow, Written) /\ RootsNow \in SUBSET Types
  BY SecondRun
<1>2. PICK R \in SUBSET Types : KnownFrom(R)
  BY SecondRun
<1>3. RootsNow = R /\ Outcome(R, before)
  BY <1>2 DEF KnownFrom
<1>4. \A p \in Packages : Switches(Written.mappers[p]) = Switches(before.mappers[p])
  BY <1>1, <1>3, SameMappers
<1>5. ImplsOf(R) \cap job.found \subseteq R
  BY <1>2, <1>3 DEF KnownFrom, RootsNow
<1>6. ASSUME NEW p \in Packages
      PROVE  /\ DefinedRight(R, p, before.defined[p]) /\ DefinedRight(R, p, Written.defined[p])
             /\ DirectivesRight(R, p, before.defined[p], before.directives[p])
             /\ DirectivesRight(R, p, Written.defined[p], Written.directives[p])
  BY <1>1, <1>3 DEF Outcome
<1>7. ASSUME NEW p \in Packages PROVE DOMAIN Written.defined[p] = DOMAIN before.defined[p]
  BY <1>1, <1>5, <1>6, SameDefined
<1>8. ASSUME NEW p \in Packages PROVE Written.defined[p] = before.defined[p]
  BY <1>6, <1>7 DEF DefinedRight
<1>9. Written.defined = before.defined
  BY <1>1, <1>3, <1>8 DEF Outcome
<1>10. ASSUME NEW p \in Packages,
              NEW d \in (Written.directives[p] \cup before.directives[p])
                          \ (Written.directives[p] \cap before.directives[p])
       PROVE  /\ d = Generated("shim", d.type)
              /\ \E i \in Types : d.type \in Range(job.impls[i])
  <2>1. PICK t \in ImplsOf(R) : d = Generated("shim", t)
    BY <1>6, <1>7, SameDirectives
  <2>2. d.type = t
    BY <2>1 DEF Generated
  <2> QED
    BY <2>1, <2>2, ImplsImplement
<1> QED
  BY <1>4, <1>9, <1>10

\* Whatever the program, the flags and the first state file: where no struct is
\* shimmed and no two types share a key, a run on the same sources gives no ID,
\* changes no mapper but in its casts of primitives, and defines what the run
\* before has defined, but for primitive implementers.  Those roots that are new, main.go:69, were reached before.
THEOREM RerunAlwaysKeeps == DSpec => []RerunKeeps
<1>1. DInv /\ ProgressInv /\ SettledInv => RerunKeeps
  BY RerunKept
<1> QED
  BY <1>1, RunsInvariant, PTL

\* From the second success on the roots are the same, and where the primitive
\* implementers were imported, so are the definitions, each as often, and the
\* mappers but for their casts of primitives, whatever the order of the queue was.
THEOREM AlwaysSettles == DSpec => []Settles
<1>1. DInv /\ ProgressInv /\ SettledInv => Settles
  BY RunsSettle
<1> QED
  BY <1>1, RunsInvariant, PTL
=============================================================================
