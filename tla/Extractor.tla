----------------------------- MODULE Extractor -----------------------------
(***************************************************************************)
(* generate.go:59-80 and extractor.go: from the root types, find every     *)
(* type the generated code will have to serialise, give it a shim, a       *)
(* definition in the temporary file of its package, or an interface        *)
(* mapper, and add the directives that tell msgp so.                       *)
(*                                                                         *)
(* The program is one goroutine.  A handler that queues types in a loop    *)
(* (the walk of a struct, the implementers of an interface) is cut at each *)
(* turn of the loop; phase says which loop is running.                     *)
(***************************************************************************)
EXTENDS Job, TypeQueue, Directives, State

CONSTANT NoItem

VARIABLES
  job,           \* the input of this run
  phase,         \* the loop that is running, or how the run ended
  rootsLeft,     \* the roots that Generate has not queued yet
  cur,           \* tqi, the item whose handler is running
  todo,          \* what is left of the loop of that handler
  tempRendered,  \* keys of what was rendered
  tempOutput,    \* definitions in the temporary file of each package
  extraOutput,   \* mappers for the output file of each package
  ifaces,        \* interfaces seen
  inPackages,    \* the packages that refer to each interface, in order
  mapped         \* how many of these have their mapper

outVars == <<tempRendered, tempOutput, extraOutput>>
ifaceVars == <<ifaces, inPackages, mapped>>
loopVars == <<rootsLeft, cur, todo>>
vars == <<job, phase, loopVars, outVars, ifaceVars, queueVars, dctvVars, stateVars>>

Running == {"roots", "extract", "walk", "impls", "mappers"}
Ended == {"done", "error", "panic"}

ASSUME NoItemAssumption == NoItem \notin TypeQueueItem
----------------------------------------------------------------------------
Home(t) == job.home[t]

\* The package's own directives as loadDirectives reads them.
SourceDirectives ==
  [p \in Packages |->
     {[dir |-> "shim", type |-> t, by |-> "source"] : t \in job.shims[p]} \cup
     {[dir |-> "ignore", type |-> t, by |-> "source"] : t \in job.ignores[p]}]

\* The directive d for t, as seen by a handler that has Ensured package p.
Says(p, d, t) == Declares(DirectivesOf(p, SourceDirectives), d, t)

\* Bug: the key has the origin even for a definition.
RenderKeyByOrigin(x) == <<x.origin, x.type>>

\* The key under which an item is rendered: a shim once for each package
\* that uses the type, a definition once. Both are texts in one map.
RenderKey(x) ==
  IF job.kind[x.type] = "shimmable" THEN job.joined[<<x.origin, x.type>>] ELSE <<x.type>>

\* Another type was queued that is rendered under the key of x. Whichever of
\* the two comes second is skipped as rendered.
KeyShared(x) ==
  \E y \in seenItems :
    /\ y.type # x.type
    /\ {job.kind[x.type], job.kind[y.type]} \subseteq {"struct", "compound", "shimmable"}
    /\ RenderKey(y) = RenderKey(x)

\* What genIntercept emits into package p for interface i: the types in the
\* mapper's switch, and those of them that are written through a shim.
Mapped(i, p) ==
  {t \in Range(job.impls[i]) \ job.hidden : ~Declares(directives[p], "ignore", t)}

Mapper(i, p) ==
  [iface |-> i, types |-> Mapped(i, p),
   shimmed |-> {t \in Mapped(i, p) : Declares(directives[p], "shim", t)}]
----------------------------------------------------------------------------
Init ==
  /\ job \in Jobs
  /\ phase = "roots"
  /\ rootsLeft = job.roots
  /\ cur = NoItem
  /\ todo = <<>>
  /\ tempRendered = {}
  /\ tempOutput = [p \in Packages |-> <<>>]
  /\ extraOutput = [p \in Packages |-> <<>>]
  /\ ifaces = {}
  /\ inPackages = [i \in Types |-> <<>>]
  /\ mapped = [i \in Types |-> 0]
  /\ NewTypeQueue
  /\ NewDirectivesCache
  /\ InitState(job.ids)

\* Generate queues its Config.Types; their order is that of a map (main.gen).
AddRoot(t) ==
  /\ phase = "roots"
  /\ t \in rootsLeft
  /\ rootsLeft' = rootsLeft \ {t}
  /\ IF t \in job.found
       THEN Add(Item(Home(t), t)) /\ UNCHANGED phase
       ELSE phase' = "error" /\ UNCHANGED queueVars
  /\ UNCHANGED <<job, cur, todo, outVars, ifaceVars, dctvVars, stateVars>>

StartExtract ==
  /\ phase = "roots"
  /\ rootsLeft = {}
  /\ phase' = "extract"
  /\ UNCHANGED <<job, loopVars, outVars, ifaceVars, queueVars, dctvVars, stateVars>>

\* extract dequeues an item of kind k.
Take(k) ==
  /\ phase = "extract"
  /\ Dequeue
  /\ job.kind[Head(contents).type] = k

SkipDirect ==
  /\ Take("direct")
  /\ UNCHANGED <<job, phase, loopVars, outVars, ifaceVars, dctvVars, stateVars>>

Panic ==
  /\ Take("unsupported")
  /\ phase' = "panic"
  /\ UNCHANGED <<job, loopVars, outVars, ifaceVars, dctvVars, stateVars>>

\* A struct, a compound or a shim that has been rendered is not looked at.
SkipRendered ==
  /\ \E k \in {"struct", "compound", "shimmable"} : Take(k)
  /\ RenderKey(Head(contents)) \in tempRendered
  /\ UNCHANGED <<job, phase, loopVars, outVars, ifaceVars, dctvVars, stateVars>>

MarkRendered(x) ==
  /\ RenderKey(x) \notin tempRendered
  /\ tempRendered' = tempRendered \cup {RenderKey(x)}
----------------------------------------------------------------------------
\* The early returns of extractNamedStruct: a shim of the referring package,
\* an ignore of the declaring one, or an error outside the user's packages.
DeclineStruct ==
  LET x == Head(contents)
      declined == \/ Says(x.origin, "shim", x.type)
                  \/ Says(Home(x.type), "ignore", x.type)
  IN /\ Take("struct")
     /\ MarkRendered(x)
     /\ Ensure({x.origin, Home(x.type)}, SourceDirectives)
     /\ declined \/ Home(x.type) \notin job.user
     /\ phase' = IF declined THEN phase ELSE "error"
     /\ UNCHANGED <<job, loopVars, tempOutput, extraOutput, ifaceVars, stateVars>>

\* extractNamedStruct up to the walk of the struct's fields.
BeginStruct ==
  LET x == Head(contents)
  IN /\ Take("struct")
     /\ MarkRendered(x)
     /\ Ensure({x.origin, Home(x.type)}, SourceDirectives)
     /\ ~Says(x.origin, "shim", x.type)
     /\ ~Says(Home(x.type), "ignore", x.type)
     /\ Home(x.type) \in job.user
     /\ phase' = "walk"
     /\ cur' = x
     /\ todo' = job.refs[x.type]
     /\ UNCHANGED <<job, rootsLeft, tempOutput, extraOutput, ifaceVars, stateVars>>

\* Bug: every named type is walked, not the compounds alone.
VisitWalkingAll ==
  /\ phase = "walk"
  /\ todo # <<>>
  /\ Add(Item(Home(cur.type), Head(todo)))
  /\ todo' = job.refs[Head(todo)] \o Tail(todo)
  /\ UNCHANGED <<job, phase, rootsLeft, cur, outVars, ifaceVars, dctvVars, stateVars>>

\* VisitBasic and VisitNamed: queue the type for the struct's package; a
\* named compound is walked at once, a shimmable []byte among them.
Visit ==
  /\ phase = "walk"
  /\ todo # <<>>
  /\ Add(Item(Home(cur.type), Head(todo)))
  /\ todo' = IF job.kind[Head(todo)] \in {"compound", "shimmable"}
               THEN job.refs[Head(todo)] \o Tail(todo)
               ELSE Tail(todo)
  /\ UNCHANGED <<job, phase, rootsLeft, cur, outVars, ifaceVars, dctvVars, stateVars>>

\* Bug: the definition is written for the package that refers to the struct.
FinishStructAtOrigin ==
  LET t == cur.type
  IN /\ phase = "walk"
     /\ todo = <<>>
     /\ EnsureAndAdd({Home(t)}, SourceDirectives, Home(t), {Generated("tuple", t)})
     /\ tempOutput' = [tempOutput EXCEPT ![cur.origin] = Append(@, t)]
     /\ phase' = "extract"
     /\ cur' = NoItem
     /\ UNCHANGED <<job, rootsLeft, todo, tempRendered, extraOutput, ifaceVars,
                    queueVars, stateVars>>

\* The rest of extractNamedStruct: the directives and the definition.
FinishStruct ==
  LET t == cur.type
  IN /\ phase = "walk"
     /\ todo = <<>>
     /\ EnsureAndAdd({Home(t)}, SourceDirectives, Home(t),
          {Generated("tuple", t)} \cup
          (IF job.allowExtra THEN {Generated("allowextra", t)} ELSE {}))
     /\ tempOutput' = [tempOutput EXCEPT ![Home(t)] = Append(@, t)]
     /\ phase' = "extract"
     /\ cur' = NoItem
     /\ UNCHANGED <<job, rootsLeft, todo, tempRendered, extraOutput, ifaceVars,
                    queueVars, stateVars>>
----------------------------------------------------------------------------
\* Bug: an ignored compound is written all the same.
CompoundUnignored ==
  LET x == Head(contents)
  IN /\ Take("compound")
     /\ MarkRendered(x)
     /\ Ensure({Home(x.type)}, SourceDirectives)
     /\ phase' = IF Home(x.type) \in job.user THEN phase ELSE "error"
     /\ tempOutput' = IF Home(x.type) \in job.user
                        THEN [tempOutput EXCEPT ![Home(x.type)] = Append(@, x.type)]
                        ELSE tempOutput
     /\ UNCHANGED <<job, loopVars, extraOutput, ifaceVars, stateVars>>

ExtractNamedCompound ==
  LET x == Head(contents)
      ignored == Says(Home(x.type), "ignore", x.type)
      user == Home(x.type) \in job.user
  IN /\ Take("compound")
     /\ MarkRendered(x)
     /\ Ensure({Home(x.type)}, SourceDirectives)
     /\ phase' = IF ignored \/ user THEN phase ELSE "error"
     /\ tempOutput' = IF user /\ ~ignored
                        THEN [tempOutput EXCEPT ![Home(x.type)] = Append(@, x.type)]
                        ELSE tempOutput
     /\ UNCHANGED <<job, loopVars, extraOutput, ifaceVars, stateVars>>

\* The definition goes out only where the type is at home.
ExtractShimmedSupported ==
  LET x == Head(contents)
  IN /\ Take("shimmable")
     /\ MarkRendered(x)
     /\ EnsureAndAdd({x.origin}, SourceDirectives, x.origin, {Generated("shim", x.type)})
     /\ tempOutput' = IF Home(x.type) \in job.user /\ Home(x.type) = x.origin
                        THEN [tempOutput EXCEPT ![x.origin] = Append(@, x.type)]
                        ELSE tempOutput
     /\ UNCHANGED <<job, phase, loopVars, extraOutput, ifaceVars, stateVars>>
----------------------------------------------------------------------------
\* Bug: the item is not kept for the rest of the handler.
BeginInterfaceForgets ==
  LET x == Head(contents)
  IN /\ Take("interface")
     /\ phase' = IF job.hasState THEN "impls" ELSE "error"
     /\ ifaces' = ifaces \cup {x.type}
     /\ todo' = IF x.type \in ifaces THEN <<>> ELSE job.impls[x.type]
     /\ UNCHANGED <<job, rootsLeft, cur, outVars, inPackages, mapped, dctvVars, stateVars>>

\* extractInterface up to its loop over the implementers, which runs only
\* the first time the interface is seen.
BeginInterface ==
  LET x == Head(contents)
  IN /\ Take("interface")
     /\ IF job.hasState
          THEN /\ phase' = "impls"
               /\ cur' = x
               /\ ifaces' = ifaces \cup {x.type}
               /\ todo' = IF x.type \in ifaces THEN <<>> ELSE job.impls[x.type]
          ELSE phase' = "error" /\ UNCHANGED <<cur, ifaces, todo>>
     /\ UNCHANGED <<job, rootsLeft, outVars, inPackages, mapped, dctvVars, stateVars>>

\* Bug: the implementer is queued, and gets no ID.
ImplementerWithoutID ==
  /\ phase = "impls"
  /\ todo # <<>>
  /\ todo' = Tail(todo)
  /\ IF Head(todo) \in job.hidden
       THEN UNCHANGED queueVars
       ELSE Add(Item(cur.origin, Head(todo)))
  /\ UNCHANGED <<job, phase, rootsLeft, cur, outVars, ifaceVars, dctvVars, stateVars>>

\* Bug: the implementer gets its ID and is not queued.
ImplementerNotQueued ==
  /\ phase = "impls"
  /\ todo # <<>>
  /\ todo' = Tail(todo)
  /\ IF Head(todo) \in job.hidden THEN UNCHANGED stateVars ELSE EnsureType(Head(todo))
  /\ UNCHANGED <<job, phase, rootsLeft, cur, outVars, ifaceVars, queueVars, dctvVars>>

\* One turn of the loop over the implementers.
AddImplementer ==
  /\ phase = "impls"
  /\ todo # <<>>
  /\ todo' = Tail(todo)
  /\ IF Head(todo) \in job.hidden
       THEN UNCHANGED <<queueVars, stateVars>>
       ELSE EnsureType(Head(todo)) /\ Add(Item(cur.origin, Head(todo)))
  /\ UNCHANGED <<job, phase, rootsLeft, cur, outVars, ifaceVars, dctvVars>>

\* The rest of extractInterface.
FinishInterface ==
  LET t == cur.type
  IN /\ phase = "impls"
     /\ todo = <<>>
     /\ inPackages' = [inPackages EXCEPT ![t] = Append(@, cur.origin)]
     /\ tempOutput' = [tempOutput EXCEPT ![Home(t)] = Append(@, t)]
     /\ phase' = "extract"
     /\ cur' = NoItem
     /\ UNCHANGED <<job, rootsLeft, todo, tempRendered, extraOutput, ifaces, mapped,
                    queueVars, dctvVars, stateVars>>

StartMappers ==
  /\ phase = "extract"
  /\ contents = <<>>
  /\ phase' = "mappers"
  /\ UNCHANGED <<job, loopVars, outVars, ifaceVars, queueVars, dctvVars, stateVars>>

\* genIntercept for the next package that refers to interface i.  The
\* interfaces come in the order of a map, each with all of its packages.
BuildMapper(i) ==
  LET p == inPackages[i][mapped[i] + 1]
  IN /\ phase = "mappers"
     /\ i \in ifaces
     /\ mapped[i] < Len(inPackages[i])
     /\ \A j \in ifaces \ {i} : mapped[j] \in {0, Len(inPackages[j])}
     /\ IF p \in cached /\ Mapped(i, p) \subseteq DOMAIN ids
          THEN /\ directives' = [directives EXCEPT ![p] = @ \cup {Generated("intercept", i)}]
               /\ extraOutput' = [extraOutput EXCEPT ![p] = Append(@, Mapper(i, p))]
               /\ mapped' = [mapped EXCEPT ![i] = @ + 1]
               /\ UNCHANGED phase
          ELSE phase' = "error" /\ UNCHANGED <<directives, extraOutput, mapped>>
     /\ UNCHANGED <<job, loopVars, tempRendered, tempOutput, ifaces, inPackages,
                    queueVars, cached, stateVars>>

Finish ==
  /\ phase = "mappers"
  /\ \A i \in ifaces : mapped[i] = Len(inPackages[i])
  /\ phase' = "done"
  /\ UNCHANGED <<job, loopVars, outVars, ifaceVars, queueVars, dctvVars, stateVars>>

\* A source that cannot be imported, parsed or found, in any handler.
ExternalError ==
  /\ phase \in Running
  /\ phase' = "error"
  /\ UNCHANGED <<job, loopVars, outVars, ifaceVars, queueVars, dctvVars, stateVars>>

Halted == phase \in Ended /\ UNCHANGED vars

Handler ==
  \/ SkipDirect \/ Panic \/ SkipRendered
  \/ DeclineStruct \/ BeginStruct \/ Visit \/ FinishStruct
  \/ ExtractNamedCompound \/ ExtractShimmedSupported
  \/ BeginInterface \/ AddImplementer \/ FinishInterface

Next ==
  \/ \E t \in Types : AddRoot(t) \/ BuildMapper(t)
  \/ Handler
  \/ StartExtract \/ StartMappers \/ Finish \/ ExternalError \/ Halted

Spec == Init /\ [][Next]_vars /\ WF_vars(Next)
----------------------------------------------------------------------------
TypeOK ==
  /\ JobTypeOK(job) /\ WellFormed(job)
  /\ phase \in Running \cup Ended
  /\ rootsLeft \subseteq Types
  /\ cur \in TypeQueueItem \cup {NoItem}
  /\ phase \in {"walk", "impls"} => cur \in TypeQueueItem
  /\ todo \in Seq(Types)
  /\ tempRendered \subseteq Keys
  /\ tempOutput \in [Packages -> Seq(Types)]
  /\ extraOutput \in
       [Packages -> Seq([iface : Types, types : SUBSET Types, shimmed : SUBSET Types])]
  /\ ifaces \subseteq Types
  /\ inPackages \in [Types -> Seq(Packages)]
  /\ mapped \in [Types -> Nat]
  /\ contents \in Seq(TypeQueueItem)
  /\ seenItems \subseteq TypeQueueItem
  /\ cached \subseteq Packages
  /\ directives \in [Packages -> SUBSET Directive]
  /\ DOMAIN ids \subseteq Types
  /\ ids \in [DOMAIN ids -> Int]
  /\ nextID \in Int
----------------------------------------------------------------------------
\* TypeQueue.Add, Dequeue and the loop of extract keep the promise of a work
\* list: each (origin, type) pair is handled once, none is dropped, and the
\* mappers are built only when the closure of the roots is complete.
Status ==
  CASE phase \in {"mappers", "done"} -> "finished"
    [] phase \in {"error", "panic"} -> "failed"
    [] OTHER -> "open"

Queue == INSTANCE Worklist WITH
  Items <- TypeQueueItem,
  found <- seenItems,
  handled <- seenItems \ Range(contents),
  status <- Status

QueueIsWorklist == Queue!WSpec

\* No two types share the ID that tells them apart on the wire: State.Init
\* starts past every ID of the file and EnsureType never reuses one.
IdsUnique == \A s, t \in DOMAIN ids : ids[s] = ids[t] => s = t

\* "Every interface type needs a stable ID" (extractor.go:345): no step of a
\* run takes an ID away from a type or gives it another.
IdsStable ==
  [][\A t \in DOMAIN ids : t \in DOMAIN ids' /\ ids'[t] = ids[t]]_vars

\* A temporary file defines only types of its own package, and a struct, a
\* compound or a primitive type only once and only in a package of the user,
\* however many packages refer to it.  (An interface is written once for
\* each of them: extractInterface has no such check.)
DefinedOnceAtHome ==
  \A p \in Packages : \A m \in DOMAIN tempOutput[p] :
    LET t == tempOutput[p][m]
    IN /\ Home(t) = p
       /\ job.kind[t] # "interface" =>
            /\ p \in job.user
            /\ \A n \in DOMAIN tempOutput[p] : tempOutput[p][n] = t => n = m

\* The package that declares a struct or a compound can keep it out of the
\* generated code with //msgp:ignore, whichever package refers to it.
IgnoredNotDefined ==
  \A p \in Packages : \A t \in Range(tempOutput[p]) :
    job.kind[t] \in {"struct", "compound"} => t \notin job.ignores[p]

\* The two errors of the mapper loop, directives not loaded and ID not found,
\* cannot happen: what the queue loop did before provides both.
MapperReady ==
  phase = "mappers" =>
    \A i \in ifaces : \A p \in Range(inPackages[i]) :
      p \in cached /\ Mapped(i, p) \subseteq DOMAIN ids

Defined(t) == t \in Range(tempOutput[Home(t)])
Excused(t) == t \in job.ignores[Home(t)]

\* The generated code of package p can serialise a field of type t.  For a
\* struct it is enough here that some package declares a shim.
Served(p, t) ==
  CASE job.kind[t] = "direct" -> TRUE
    [] job.kind[t] = "shimmable" -> Declares(directives[p], "shim", t)
    [] job.kind[t] = "compound" -> Defined(t) \/ Excused(t)
    [] job.kind[t] = "struct" ->
         \/ Defined(t) \/ Excused(t)
         \/ \E q \in Packages : t \in job.shims[q]
    [] job.kind[t] = "interface" ->
         \E n \in DOMAIN extraOutput[p] : extraOutput[p][n].iface = t
    [] OTHER -> FALSE

\* The types a use of the types ts comes to, looking through named compounds:
\* the least set that has them and what its compounds refer to.
LooksThrough(S) == \A c \in S : job.kind[c] = "compound" => Range(job.refs[c]) \subseteq S

Reached(ts) == {r \in Types : \A S \in SUBSET Types : ts \subseteq S /\ LooksThrough(S) => r \in S}

FieldTypes(t) == Reached(Range(job.refs[t]))

\* msgp looks at the definition of t (parse.File, external).
MsgpSees(t) == t \notin job.private \/ job.Unexported

\* t is a struct with a field of an interface.
UsesInterface(t) ==
  job.kind[t] = "struct" /\ \E i \in FieldTypes(t) : job.kind[i] = "interface"

\* Generate appends the mappers of a package to the file msgp made from its
\* temporary file, and panics if there is none (generate.go:216).  A package
\* with a mapper has given msgp a struct to make that file from, if msgp sees
\* all structs of the package that use interfaces; without -unexported it
\* does not see the unexported ones, for which a mapper is made all the same.
MapperNotLost ==
  phase = "done" =>
    \A p \in Packages :
      /\ extraOutput[p] # <<>>
      /\ \A t \in Types : Home(t) = p /\ UsesInterface(t) => MsgpSees(t)
      => \E t \in Range(tempOutput[p]) : job.kind[t] = "struct" /\ MsgpSees(t)

\* When extraction ends well, the package of every struct that was written
\* can serialise all of its fields, as far as msgp sees their types; all but
\* those whose key was another type's.
EveryUseServed ==
  phase = "done" =>
    \A t \in Types :
      job.kind[t] = "struct" /\ Defined(t) =>
        \A r \in FieldTypes(t) : Served(Home(t), r) \/ KeyShared(Item(Home(t), r))

\* ... and so can every mapper the types of its switch, shims apart.
EveryImplementerServed ==
  phase = "done" =>
    \A p \in Packages : \A m \in Range(extraOutput[p]) : \A t \in m.types \ m.shimmed :
      job.kind[t] \in {"struct", "compound"} => Served(p, t) \/ KeyShared(Item(p, t))

\* Whatever the sources hold, the extractor stops, if no named compound type
\* refers to itself: the walk goes through compounds without a guard.
Terminates == <>(phase \in Ended)
----------------------------------------------------------------------------
\* extractor.go:153: "the package that uses the type is responsible for
\* declaring //msgp:shim, not the package that declares it": a package that
\* has not shimmed a struct it refers to gets the struct's own methods.
ShimIsOfTheUser ==
  phase = "done" =>
    \A x \in seenItems :
      job.kind[x.type] = "struct" =>
        \/ Defined(x.type) \/ Excused(x.type) \/ KeyShared(x)
        \/ x.type \in job.shims[x.origin]

\* extractor.go:253: a primitive type is shimmed with a cast; extractor.go:360:
\* the package that refers to an interface gets code to handle it.  So each
\* mapper writes a primitive implementer through a shim or its own methods.
MapperCastsPrimitives ==
  phase = "done" =>
    \A p \in Packages : \A m \in Range(extraOutput[p]) : \A t \in m.types \ m.shimmed :
      job.kind[t] = "shimmable" => Defined(t) \/ KeyShared(Item(p, t))

\* structwalker.go:65: "Compound named types need to be walked as well": the
\* structs that a compound in the generated code refers to can be serialised.
CompoundsWalked ==
  phase = "done" =>
    \A t \in Types :
      job.kind[t] = "compound" /\ Defined(t) =>
        \A r \in FieldTypes(t) :
          job.kind[r] = "struct" => Served(Home(t), r) \/ KeyShared(Item(Home(t), r))
=============================================================================
