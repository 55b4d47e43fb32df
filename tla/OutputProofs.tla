---------------------------- MODULE OutputProofs ----------------------------
(***************************************************************************)
(* What the extractor writes: each definition once, in a package of the    *)
(* user that declares the type, and none the package has ignored.  The     *)
(* code never looks into what it has written; it relies on the keys in     *)
(* tempRendered, which it sets long before the definition goes out, and on *)
(* directives that it may have loaded for another type.                    *)
(***************************************************************************)
EXTENDS ExtractorProofs

\* The key that guards the definition of t.
DefinitionKey(t) == RenderKey(Item(Home(t), t))

CanIgnore(t) == job.kind[t] \in {"struct", "compound"}

AbsentFrom(t, s) == \A n \in DOMAIN s : s[n] # t

\* Everything written is at home and, interfaces apart, was rendered.
OutputInv ==
  \A p \in Packages : \A m \in DOMAIN tempOutput[p] :
    LET t == tempOutput[p][m]
    IN /\ Home(t) = p
       /\ CanIgnore(t) => t \notin job.ignores[p]
       /\ ~IsInterface(t) =>
            /\ p \in job.user
            /\ DefinitionKey(t) \in tempRendered
            /\ \A n \in DOMAIN tempOutput[p] : tempOutput[p][n] = t => n = m

\* What allows a definition of t to be written now.
MayWrite(t) ==
  /\ CanIgnore(t) => t \notin job.ignores[Home(t)]
  /\ ~IsInterface(t) => Home(t) \in job.user /\ AbsentFrom(t, tempOutput[Home(t)])

\* The item of a running handler may be written when its loop ends.
HandlerInv ==
  /\ phase = "walk" =>
       /\ job.kind[cur.type] = "struct"
       /\ DefinitionKey(cur.type) \in tempRendered
       /\ MayWrite(cur.type)
  /\ phase = "impls" => IsInterface(cur.type)

\* The directives of a loaded package have those of its sources.
IgnoresLoaded ==
  \A p \in cached : \A t \in job.ignores[p] : Declares(directives[p], "ignore", t)

WrittenInv == OutputInv /\ HandlerInv /\ IgnoresLoaded

LEMMA SaysItsIgnores ==
  ASSUME TypeOK, IgnoresLoaded, NEW p \in Packages, NEW t \in job.ignores[p]
  PROVE  Says(p, "ignore", t)
<1>1. CASE p \in cached
  BY <1>1 DEF IgnoresLoaded, Says, DirectivesOf
<1>2. CASE p \notin cached
  <2>1. [dir |-> "ignore", type |-> t, by |-> "source"] \in SourceDirectives[p]
    BY DEF SourceDirectives
  <2> QED
    BY <1>2, <2>1 DEF Says, DirectivesOf, Declares
<1> QED
  BY <1>1, <1>2

\* An item whose key is the one of the definition has not been written.
LEMMA UnrenderedIsAbsent ==
  ASSUME OutputInv, NEW t \in Types, Home(t) \in Packages, ~IsInterface(t),
         DefinitionKey(t) \notin tempRendered
  PROVE  AbsentFrom(t, tempOutput[Home(t)])
BY DEF OutputInv, AbsentFrom

LEMMA WriteKeepsOutput ==
  ASSUME TypeOK, OutputInv, NEW t \in Types, MayWrite(t),
         tempOutput' = [tempOutput EXCEPT ![Home(t)] = Append(@, t)],
         tempRendered \subseteq tempRendered',
         IsInterface(t) \/ DefinitionKey(t) \in tempRendered',
         job' = job
  PROVE  OutputInv'
<1> DEFINE h == Home(t)
           s == tempOutput[h]
<1>1. h \in Packages /\ tempOutput \in [Packages -> Seq(Types)] /\ s \in Seq(Types)
  BY JobFacts DEF TypeOK, JobTypeOK, Home
<1>2. /\ tempOutput'[h] = Append(s, t)
      /\ \A p \in Packages \ {h} : tempOutput'[p] = tempOutput[p]
  BY <1>1
<1>3. /\ DOMAIN s = 1..Len(s) /\ DOMAIN Append(s, t) = 1..(Len(s) + 1) /\ Len(s) \in Nat
      /\ Append(s, t)[Len(s) + 1] = t
      /\ \A n \in 1..Len(s) : Append(s, t)[n] = s[n]
  BY <1>1
<1>4. /\ \A u : Home(u)' = Home(u) /\ DefinitionKey(u)' = DefinitionKey(u)
      /\ \A u : IsInterface(u)' = IsInterface(u) /\ CanIgnore(u)' = CanIgnore(u)
  BY DEF Home, DefinitionKey, RenderKey, Item, IsInterface, CanIgnore
<1>5. SUFFICES ASSUME NEW p \in Packages, NEW m \in DOMAIN tempOutput'[p],
                      NEW u, u = tempOutput'[p][m]
               PROVE  /\ Home(u) = p
                      /\ CanIgnore(u) => u \notin job.ignores[p]
                      /\ ~IsInterface(u) =>
                           /\ p \in job.user
                           /\ DefinitionKey(u) \in tempRendered'
                           /\ \A n \in DOMAIN tempOutput'[p] : tempOutput'[p][n] = u => n = m
  BY <1>4 DEF OutputInv
<1>6. CASE p # h
  BY <1>2, <1>5, <1>6 DEF OutputInv
<1>7. CASE p = h /\ m = Len(s) + 1
  <2>1. u = t
    BY <1>2, <1>3, <1>5, <1>7
  <2>2. ~IsInterface(t) => \A n \in 1..Len(s) : s[n] # t
    BY <1>3 DEF MayWrite, AbsentFrom
  <2>3. ASSUME ~IsInterface(t), NEW n \in DOMAIN tempOutput'[p], tempOutput'[p][n] = t
        PROVE  n = m
    BY <1>2, <1>3, <1>7, <2>2, <2>3
  <2> QED
    BY <1>7, <2>1, <2>3 DEF MayWrite
<1>8. CASE p = h /\ m # Len(s) + 1
  <2>1. m \in DOMAIN s /\ u = s[m]
    BY <1>2, <1>3, <1>5, <1>8
  <2>2. Home(u) = h /\ (CanIgnore(u) => u \notin job.ignores[h])
    BY <1>1, <2>1 DEF OutputInv
  <2>3. ASSUME ~IsInterface(u)
        PROVE  /\ h \in job.user /\ DefinitionKey(u) \in tempRendered
               /\ \A n \in DOMAIN s : s[n] = u => n = m
    BY <1>1, <2>1, <2>3 DEF OutputInv
  <2>4. ASSUME ~IsInterface(u), NEW n \in DOMAIN tempOutput'[p], tempOutput'[p][n] = u
        PROVE  n = m
    <3>1. CASE n = Len(s) + 1
      <4>1. u = t
        BY <1>2, <1>3, <1>8, <2>4, <3>1
      <4> QED
        BY <2>1, <2>4, <4>1 DEF MayWrite, AbsentFrom
    <3>2. CASE n # Len(s) + 1
      BY <1>2, <1>3, <1>8, <2>3, <2>4, <3>2
    <3> QED
      BY <3>1, <3>2
  <2> QED
    BY <1>8, <2>2, <2>3, <2>4
<1> QED
  BY <1>6, <1>7, <1>8

\* Nothing is written, and nothing is forgotten that was rendered.
LEMMA QuietStepKeepsOutput ==
  ASSUME OutputInv, tempOutput' = tempOutput, tempRendered \subseteq tempRendered', job' = job
  PROVE  OutputInv'
BY DEF OutputInv, Home, DefinitionKey, RenderKey, Item, IsInterface, CanIgnore

\* A compound, or a primitive type at home, as it is taken from the queue.
LEMMA TakenMayBeWritten ==
  ASSUME TypeOK, WrittenInv, NEW k \in {"struct", "compound", "shimmable"}, Take(k),
         MarkRendered(Head(contents)),
         k = "shimmable" => Home(Head(contents).type) = Head(contents).origin,
         k # "shimmable" => ~Says(Home(Head(contents).type), "ignore", Head(contents).type),
         Home(Head(contents).type) \in job.user
  PROVE  /\ MayWrite(Head(contents).type)
         /\ DefinitionKey(Head(contents).type) \in tempRendered'
<1> DEFINE x == Head(contents)
           t == x.type
<1>1. /\ x \in TypeQueueItem /\ t \in Types /\ Home(t) \in Packages
      /\ job.kind[t] = k /\ ~IsInterface(t)
  BY HeadTyped DEF Take, Dequeue, IsInterface
<1>2. DefinitionKey(t) = RenderKey(x)
  BY <1>1 DEF DefinitionKey, RenderKey, Item
<1>3. DefinitionKey(t) \notin tempRendered /\ DefinitionKey(t) \in tempRendered'
  BY <1>2 DEF MarkRendered
<1>4. AbsentFrom(t, tempOutput[Home(t)])
  BY <1>1, <1>3, UnrenderedIsAbsent DEF WrittenInv
<1>5. CanIgnore(t) => t \notin job.ignores[Home(t)]
  BY <1>1, SaysItsIgnores DEF CanIgnore, WrittenInv
<1> QED
  BY <1>3, <1>4, <1>5 DEF MayWrite

LEMMA OutputStays ==
  ASSUME TypeOK, WrittenInv, [Next]_vars
  PROVE  OutputInv'
<1> USE DEF outVars, vars, WrittenInv
<1>j. job' = job /\ JobTypeOK(job)
  BY Grows, JobFacts
<1>q. ASSUME tempOutput' = tempOutput, tempRendered \subseteq tempRendered' PROVE OutputInv'
  BY <1>j, <1>q, QuietStepKeepsOutput
<1>1. CASE FinishStruct
  <2>1. /\ cur.type \in Types /\ MayWrite(cur.type)
        /\ DefinitionKey(cur.type) \in tempRendered
    BY <1>1 DEF FinishStruct, HandlerInv, TypeOK, TypeQueueItem
  <2>2. /\ tempOutput' = [tempOutput EXCEPT ![Home(cur.type)] = Append(@, cur.type)]
        /\ tempRendered' = tempRendered
    BY <1>1 DEF FinishStruct
  <2> QED
    BY <1>j, <2>1, <2>2, WriteKeepsOutput
<1>2. CASE FinishInterface
  <2>1. cur.type \in Types /\ IsInterface(cur.type)
    BY <1>2 DEF FinishInterface, HandlerInv, TypeOK, TypeQueueItem
  <2>2. MayWrite(cur.type)
    BY <2>1 DEF MayWrite, IsInterface, CanIgnore
  <2>3. /\ tempOutput' = [tempOutput EXCEPT ![Home(cur.type)] = Append(@, cur.type)]
        /\ tempRendered' = tempRendered
    BY <1>2 DEF FinishInterface
  <2> QED
    BY <1>j, <2>1, <2>2, <2>3, WriteKeepsOutput
<1>3. CASE ExtractNamedCompound
  <2> DEFINE t == Head(contents).type
  <2>1. /\ Take("compound") /\ MarkRendered(Head(contents))
        /\ tempRendered \subseteq tempRendered' /\ t \in Types
    BY <1>3, HeadTyped DEF ExtractNamedCompound, MarkRendered, Take, Dequeue
  <2>2. CASE Home(t) \in job.user /\ ~Says(Home(t), "ignore", t)
    <3>1. MayWrite(t) /\ DefinitionKey(t) \in tempRendered'
      BY <2>1, <2>2, TakenMayBeWritten
    <3>2. tempOutput' = [tempOutput EXCEPT ![Home(t)] = Append(@, t)]
      BY <1>3, <2>2 DEF ExtractNamedCompound
    <3> QED
      BY <1>j, <2>1, <3>1, <3>2, WriteKeepsOutput
  <2>3. CASE ~(Home(t) \in job.user /\ ~Says(Home(t), "ignore", t))
    BY <1>3, <1>q, <2>1, <2>3 DEF ExtractNamedCompound
  <2> QED
    BY <2>2, <2>3
<1>4. CASE ExtractShimmedSupported
  <2> DEFINE x == Head(contents)
             t == x.type
  <2>1. /\ Take("shimmable") /\ MarkRendered(x)
        /\ tempRendered \subseteq tempRendered' /\ t \in Types
    BY <1>4, HeadTyped DEF ExtractShimmedSupported, MarkRendered, Take, Dequeue
  <2>2. CASE Home(t) \in job.user /\ Home(t) = x.origin
    <3>1. MayWrite(t) /\ DefinitionKey(t) \in tempRendered'
      BY <2>1, <2>2, TakenMayBeWritten
    <3>2. tempOutput' = [tempOutput EXCEPT ![Home(t)] = Append(@, t)]
      BY <1>4, <2>2 DEF ExtractShimmedSupported
    <3> QED
      BY <1>j, <2>1, <3>1, <3>2, WriteKeepsOutput
  <2>3. CASE ~(Home(t) \in job.user /\ Home(t) = x.origin)
    BY <1>4, <1>q, <2>1, <2>3 DEF ExtractShimmedSupported
  <2> QED
    BY <2>2, <2>3
<1>5. CASE DeclineStruct \/ BeginStruct
  BY <1>5, <1>q DEF DeclineStruct, BeginStruct, MarkRendered
<1>6. ASSUME NEW t \in Types, AddRoot(t) \/ BuildMapper(t) PROVE OutputInv'
  BY <1>6, <1>q DEF AddRoot, BuildMapper
<1>7. CASE SkipDirect \/ Panic \/ SkipRendered \/ Visit \/ BeginInterface \/ AddImplementer
  BY <1>7, <1>q DEF SkipDirect, Panic, SkipRendered, Visit, BeginInterface, AddImplementer
<1>8. CASE StartExtract \/ StartMappers \/ Finish \/ ExternalError \/ Halted \/ UNCHANGED vars
  BY <1>8, <1>q DEF StartExtract, StartMappers, Finish, ExternalError, Halted
<1> QED
  BY <1>1, <1>2, <1>3, <1>4, <1>5, <1>6, <1>7, <1>8 DEF Next, Handler

\* A struct whose walk is running keeps what allows it to be written.
LEMMA HandlerStaysAllowed ==
  ASSUME TypeOK, WrittenInv, [Next]_vars
  PROVE  HandlerInv'
<1> USE DEF outVars, loopVars, vars, WrittenInv
<1>j. job' = job
  BY Grows
<1>i. \A t : /\ IsInterface(t)' = IsInterface(t) /\ Home(t)' = Home(t)
             /\ CanIgnore(t)' = CanIgnore(t) /\ DefinitionKey(t)' = DefinitionKey(t)
  BY <1>j DEF IsInterface, Home, CanIgnore, DefinitionKey, RenderKey, Item
<1>1. CASE BeginStruct
  <2> DEFINE t == Head(contents).type
  <2>1. /\ Take("struct") /\ MarkRendered(Head(contents)) /\ ~Says(Home(t), "ignore", t)
        /\ Home(t) \in job.user /\ phase' = "walk" /\ cur' = Head(contents)
        /\ tempOutput' = tempOutput
    BY <1>1 DEF BeginStruct
  <2>2. MayWrite(t) /\ DefinitionKey(t) \in tempRendered' /\ job.kind[t] = "struct"
    BY <2>1, TakenMayBeWritten DEF Take
  <2> QED
    BY <1>j, <1>i, <2>1, <2>2 DEF HandlerInv, MayWrite, AbsentFrom
<1>2. CASE BeginInterface
  BY <1>2, <1>i DEF BeginInterface, Take, HandlerInv, IsInterface
<1>3. CASE Visit \/ AddImplementer
  BY <1>3, <1>j, <1>i DEF Visit, AddImplementer, HandlerInv, MayWrite, AbsentFrom
<1>4. CASE UNCHANGED vars
  BY <1>4, <1>j, <1>i DEF HandlerInv, MayWrite, AbsentFrom
<1>5. CASE phase' \notin {"walk", "impls"}
  BY <1>5 DEF HandlerInv
<1>6. ASSUME NEW t \in Types, AddRoot(t) \/ BuildMapper(t)
      PROVE  phase' \notin {"walk", "impls"}
  BY <1>6 DEF AddRoot, BuildMapper
<1>7. ASSUME Handler, ~BeginStruct, ~BeginInterface, ~Visit, ~AddImplementer
      PROVE  phase' \notin {"walk", "impls"}
  BY <1>7 DEF Handler, SkipDirect, Panic, SkipRendered, DeclineStruct, FinishStruct,
       ExtractNamedCompound, ExtractShimmedSupported, FinishInterface, Take
<1>8. ASSUME StartExtract \/ StartMappers \/ Finish \/ ExternalError
      PROVE  phase' \notin {"walk", "impls"}
  BY <1>8 DEF StartExtract, StartMappers, Finish, ExternalError
<1> QED
  BY <1>1, <1>2, <1>3, <1>4, <1>5, <1>6, <1>7, <1>8 DEF Next, Halted

\* Directives are loaded from the sources, then only added to.
LEMMA DirectivesGrow ==
  ASSUME TypeOK, [Next]_vars
  PROVE  /\ \A p \in cached : directives[p] \subseteq directives'[p]
         /\ \A p \in cached' \ cached : SourceDirectives[p] \subseteq directives'[p]
         /\ cached' \subseteq Packages
<1> USE DEF dctvVars, vars
<1>d. directives \in [Packages -> SUBSET Directive] /\ cached \subseteq Packages
  BY DEF TypeOK
<1>k. ASSUME cached' = cached, \A p \in cached : directives[p] \subseteq directives'[p]
      PROVE  /\ \A p \in cached : directives[p] \subseteq directives'[p]
             /\ \A p \in cached' \ cached : SourceDirectives[p] \subseteq directives'[p]
             /\ cached' \subseteq Packages
  BY <1>d, <1>k
<1>1. CASE DeclineStruct \/ BeginStruct \/ ExtractNamedCompound
  <2>1. PICK ps \in SUBSET Packages : Ensure(ps, SourceDirectives)
    <3>1. Head(contents).origin \in Packages /\ Home(Head(contents).type) \in Packages
      BY <1>1, HeadTyped DEF DeclineStruct, BeginStruct, ExtractNamedCompound, Take, Dequeue
    <3> QED
      BY <1>1, <3>1 DEF DeclineStruct, BeginStruct, ExtractNamedCompound
  <2> QED
    BY <1>d, <2>1 DEF Ensure, DirectivesOf
<1>2. CASE FinishStruct \/ ExtractShimmedSupported
  <2>1. PICK ps \in SUBSET Packages, p \in Packages :
          \E ds : EnsureAndAdd(ps, SourceDirectives, p, ds)
    <3>1. CASE FinishStruct
      <4>1. Home(cur.type) \in Packages
        BY <3>1, JobFacts DEF FinishStruct, TypeOK, TypeQueueItem, JobTypeOK, Home
      <4> QED
        BY <3>1, <4>1 DEF FinishStruct
    <3>2. CASE ExtractShimmedSupported
      <4>1. Head(contents).origin \in Packages
        BY <3>2, HeadTyped DEF ExtractShimmedSupported, Take, Dequeue
      <4> QED
        BY <3>2, <4>1 DEF ExtractShimmedSupported
    <3> QED
      BY <1>2, <3>1, <3>2
  <2>2. PICK ds : EnsureAndAdd(ps, SourceDirectives, p, ds)
    BY <2>1
  <2> QED
    BY <1>d, <2>2 DEF EnsureAndAdd, DirectivesOf
<1>3. ASSUME NEW t \in Types, AddRoot(t) \/ BuildMapper(t)
      PROVE  /\ \A p \in cached : directives[p] \subseteq directives'[p]
             /\ cached' = cached
  BY <1>3, <1>d DEF AddRoot, BuildMapper
<1>4. ASSUME SkipDirect \/ Panic \/ SkipRendered \/ Visit \/ BeginInterface \/ AddImplementer
             \/ FinishInterface
      PROVE  UNCHANGED dctvVars
  BY <1>4 DEF SkipDirect, Panic, SkipRendered, Visit, BeginInterface, AddImplementer,
       FinishInterface
<1>5. ASSUME StartExtract \/ StartMappers \/ Finish \/ ExternalError \/ Halted \/ UNCHANGED vars
      PROVE  UNCHANGED dctvVars
  BY <1>5 DEF StartExtract, StartMappers, Finish, ExternalError, Halted
<1>6. CASE UNCHANGED dctvVars
  BY <1>6, <1>k
<1> QED
  BY <1>1, <1>2, <1>3, <1>4, <1>5, <1>6, <1>k DEF Next, Handler

LEMMA IgnoresStayLoaded ==
  ASSUME TypeOK, WrittenInv, [Next]_vars
  PROVE  IgnoresLoaded'
<1> SUFFICES ASSUME NEW p \in cached', NEW t \in job.ignores[p]
             PROVE  Declares(directives'[p], "ignore", t)
  BY Grows DEF IgnoresLoaded
<1>1. CASE p \in cached
  BY <1>1, DirectivesGrow DEF WrittenInv, IgnoresLoaded, Declares
<1>2. CASE p \notin cached
  <2>1. [dir |-> "ignore", type |-> t, by |-> "source"] \in SourceDirectives[p]
    BY DirectivesGrow DEF SourceDirectives
  <2> QED
    BY <1>2, <2>1, DirectivesGrow DEF Declares
<1> QED
  BY <1>1, <1>2

LEMMA WrittenInvariant == Spec => []WrittenInv
<1>1. Init => WrittenInv
  BY DEF Init, NewDirectivesCache, WrittenInv, OutputInv, HandlerInv, IgnoresLoaded
<1>2. TypeOK /\ WrittenInv /\ [Next]_vars => WrittenInv'
  BY OutputStays, HandlerStaysAllowed, IgnoresStayLoaded DEF WrittenInv
<1> QED
  BY <1>1, <1>2, TypeCorrect, PTL DEF Spec

\* Each definition goes out once, at home, in a package of the user.
THEOREM AlwaysDefinedOnceAtHome == Spec => []DefinedOnceAtHome
<1>1. WrittenInv => DefinedOnceAtHome
  BY DEF WrittenInv, OutputInv, DefinedOnceAtHome, IsInterface
<1> QED
  BY <1>1, WrittenInvariant, PTL

\* What its own package ignores is never written.
THEOREM AlwaysIgnoredNotDefined == Spec => []IgnoredNotDefined
<1>1. WrittenInv => IgnoredNotDefined
  BY DEF WrittenInv, OutputInv, IgnoredNotDefined, CanIgnore, Range
<1> QED
  BY <1>1, WrittenInvariant, PTL
----------------------------------------------------------------------------
LEMMA AppendAdds ==
  ASSUME NEW S, NEW s \in Seq(S), NEW t \in S
  PROVE  Range(Append(s, t)) = Range(s) \cup {t}
<1>1. /\ Append(s, t) \in Seq(S) /\ Len(Append(s, t)) = Len(s) + 1 /\ Len(s) \in Nat
      /\ Append(s, t)[Len(s) + 1] = t
      /\ \A n \in 1..Len(s) : Append(s, t)[n] = s[n]
  OBVIOUS
<1>2. /\ \A x : x \in Range(s) <=> \E n \in 1..Len(s) : x = s[n]
      /\ \A x : x \in Range(Append(s, t)) <=> \E n \in 1..Len(Append(s, t)) : x = Append(s, t)[n]
  BY <1>1, RangeOfSeq
<1> QED
  BY <1>1, <1>2
----------------------------------------------------------------------------
(***************************************************************************)
(* The purpose of the extractor: what a written struct or a mapper refers  *)
(* to can be serialised where it is referred to.  No handler establishes   *)
(* it: a walk queues what it sees, the queue drops what it knows, and      *)
(* other handlers, before or after, write, shim or intercept it.           *)
(***************************************************************************)

Live == phase \notin {"error", "panic"}

\* What a walk of the types ts visits: it goes on through named compounds, and
\* through primitives too, of which those over []byte refer to something.
WalksThrough(S) ==
  \A c \in S : job.kind[c] \in {"compound", "shimmable"} => Range(job.refs[c]) \subseteq S

Walked(ts) ==
  {r \in Types : \A S \in SUBSET Types : ts \subseteq S /\ WalksThrough(S) => r \in S}

Uses(t) == Walked(Range(job.refs[t]))

\* A use of t by package p has been cared for, or its handler is running.
Cared(p, t) ==
  /\ job.kind[t] # "unsupported"
  /\ job.kind[t] \in {"struct", "compound"} => Home(t) \in cached
  /\ job.kind[t] = "shimmable" =>
       /\ p \in cached /\ Generated("shim", t) \in directives[p]
       /\ p = Home(t) /\ p \in job.user => Defined(t)
  /\ job.kind[t] = "compound" => Defined(t) \/ Excused(t)
  /\ job.kind[t] = "struct" =>
       \/ Defined(t) \/ Excused(t)
       \/ \E q \in Packages : t \in job.shims[q]
       \/ phase = "walk" /\ cur.type = t
  /\ job.kind[t] = "interface" =>
       /\ t \in ifaces
       /\ p \in Range(inPackages[t]) \/ (phase = "impls" /\ cur = Item(p, t))

\* ... or is never looked at, as another type has its key.
Answered(x) == Cared(x.origin, x.type) \/ KeyShared(x)

\* What has been taken from the queue is answered.
HandledInv ==
  Live => \A x \in seenItems \ Range(contents) : Answered(x)

\* So is what is skipped because its key was rendered.
RenderedInv ==
  Live =>
    \A x \in TypeQueueItem :
      job.kind[x.type] \in {"struct", "compound", "shimmable"} /\ RenderKey(x) \in tempRendered =>
        Answered(x)

\* Loaded directives are those of the sources, shims of primitives apart.
SourcedInv ==
  \A p \in cached : \A d \in directives[p] :
    /\ d.dir = "ignore" => d.type \in job.ignores[p]
    /\ d.dir = "shim" /\ job.kind[d.type] # "shimmable" => d.type \in job.shims[p]

FieldsSeen(t) == \A r \in Uses(t) : Item(Home(t), r) \in seenItems

\* The fields of a struct are in the queue, or ahead in its walk.
WalkInv ==
  phase = "walk" =>
    \A r \in Uses(cur.type) :
      Item(Home(cur.type), r) \in seenItems \/ r \in Walked(Range(todo))

FieldsInv == \A t \in Types : job.kind[t] = "struct" /\ Defined(t) => FieldsSeen(t)

\* The packages of an interface that have had their turn have its mapper.
MappedInv ==
  /\ \A i \in Types : mapped[i] <= Len(inPackages[i])
  /\ \A i \in Types : \A n \in 1..mapped[i] :
       \E m \in DOMAIN extraOutput[inPackages[i][n]] :
         extraOutput[inPackages[i][n]][m].iface = i
  /\ phase = "done" => \A i \in ifaces : mapped[i] = Len(inPackages[i])

Queued(t) == \E o \in Packages : Item(o, t) \in seenItems

\* Every implementer is in the queue for some package, or ahead in the loop.
ImplsQueued ==
  phase # "error" =>
    \A i \in ifaces : \A t \in Range(job.impls[i]) \ job.hidden :
      Queued(t) \/ (phase = "impls" /\ cur.type = i /\ t \in Range(todo))

MapperTypes ==
  \A p \in Packages : \A m \in Range(extraOutput[p]) :
    m.iface \in ifaces /\ m.types \subseteq Range(job.impls[m.iface]) \ job.hidden

----------------------------------------------------------------------------
\* Walked is the least set that is closed: it has what it starts from, ...
LEMMA WalkedHasAll ==
  ASSUME NEW ts \in SUBSET Types
  PROVE  ts \subseteq Walked(ts)
BY DEF Walked

\* ... is closed, ...
LEMMA WalkedIsClosed ==
  ASSUME NEW ts \in SUBSET Types, job.refs \in [Types -> Seq(Types)]
  PROVE  WalksThrough(Walked(ts))
<1> SUFFICES ASSUME NEW c \in Walked(ts), job.kind[c] \in {"compound", "shimmable"}, NEW r \in Range(job.refs[c])
             PROVE  r \in Walked(ts)
  BY DEF WalksThrough
<1>1. c \in Types
  BY DEF Walked
<1>2. r \in Types
  <2>1. job.refs[c] \in Seq(Types)
    BY <1>1
  <2> QED
    BY <2>1, RangeOfSeq
<1>3. ASSUME NEW S \in SUBSET Types, ts \subseteq S, WalksThrough(S)
      PROVE  r \in S
  <2>1. c \in S
    BY <1>3 DEF Walked
  <2> QED
    BY <1>3, <2>1 DEF WalksThrough
<1> QED
  BY <1>2, <1>3 DEF Walked

\* ... and no closed set that has what it starts from leaves any of it out.
LEMMA WalkedIsLeast ==
  ASSUME NEW ts \in SUBSET Types, NEW S \in SUBSET Types, ts \subseteq S, WalksThrough(S)
  PROVE  Walked(ts) \subseteq S
BY DEF Walked

\* A walk visits all that a use comes to by looking through compounds.
LEMMA FieldTypesAreUses ==
  ASSUME TypeOK, NEW t \in Types
  PROVE  FieldTypes(t) \subseteq Uses(t)
<1>1. job.refs \in [Types -> Seq(Types)]
  BY JobFacts DEF JobTypeOK
<1>2. Range(job.refs[t]) \in SUBSET Types
  <2>1. job.refs[t] \in Seq(Types)
    BY <1>1
  <2> QED
    BY <2>1, RangeOfSeq
<1>3. /\ Range(job.refs[t]) \subseteq Uses(t) /\ WalksThrough(Uses(t))
      /\ Uses(t) \in SUBSET Types
  BY <1>1, <1>2, WalkedHasAll, WalkedIsClosed DEF Uses, Walked
<1>4. LooksThrough(Uses(t))
  BY <1>3 DEF LooksThrough, WalksThrough
<1> QED
  BY <1>3, <1>4 DEF FieldTypes, Reached

\* One turn of the walk: the type it visits, and what is ahead after it.
LEMMA WalkTurn ==
  ASSUME TypeOK, Visit
  PROVE  Walked(Range(todo)) \subseteq {Head(todo)} \cup Walked(Range(todo'))
<1> DEFINE h == Head(todo)
           S == {h} \cup Walked(Range(todo'))
<1>1. /\ todo \in Seq(Types) /\ todo # <<>> /\ h \in Types /\ Tail(todo) \in Seq(Types)
      /\ job.refs \in [Types -> Seq(Types)]
  <2>1. todo \in Seq(Types) /\ todo # <<>>
    BY DEF Visit, TypeOK
  <2>2. job.refs \in [Types -> Seq(Types)]
    BY JobFacts DEF JobTypeOK
  <2> QED
    BY <2>1, <2>2
<1>2. /\ todo' \in Seq(Types)
      /\ Range(Tail(todo)) \subseteq Range(todo')
      /\ job.kind[h] \in {"compound", "shimmable"} => Range(job.refs[h]) \subseteq Range(todo')
  <2>1. CASE job.kind[h] \in {"compound", "shimmable"}
    <3>1. todo' = job.refs[h] \o Tail(todo) /\ job.refs[h] \in Seq(Types)
      BY <1>1, <2>1 DEF Visit
    <3>2. todo' \in Seq(Types) /\ Len(todo') = Len(job.refs[h]) + Len(Tail(todo))
      BY <1>1, <3>1
    <3>3. ASSUME NEW x \in Range(job.refs[h]) PROVE x \in Range(todo')
      <4>1. PICK n \in 1..Len(job.refs[h]) : x = job.refs[h][n]
        BY <3>1, <3>3, RangeOfSeq
      <4>2. n \in 1..Len(todo') /\ todo'[n] = x
        BY <1>1, <3>1, <3>2, <4>1
      <4> QED
        BY <3>2, <4>2, RangeOfSeq
    <3>4. ASSUME NEW x \in Range(Tail(todo)) PROVE x \in Range(todo')
      <4>1. PICK n \in 1..Len(Tail(todo)) : x = Tail(todo)[n]
        BY <1>1, <3>4, RangeOfSeq
      <4>2. Len(job.refs[h]) + n \in 1..Len(todo') /\ todo'[Len(job.refs[h]) + n] = x
        BY <1>1, <3>1, <3>2, <4>1
      <4> QED
        BY <3>2, <4>2, RangeOfSeq
    <3> QED
      BY <3>2, <3>3, <3>4
  <2>2. CASE job.kind[h] \notin {"compound", "shimmable"}
    BY <1>1, <2>2 DEF Visit
  <2> QED
    BY <2>1, <2>2
<1>3. Range(todo') \in SUBSET Types /\ Range(todo) \in SUBSET Types
  <2>1. ASSUME NEW s \in Seq(Types), NEW x \in Range(s) PROVE x \in Types
    BY <2>1, RangeOfSeq
  <2> QED
    BY <1>1, <1>2, <2>1
<1>4. Range(todo') \subseteq Walked(Range(todo')) /\ WalksThrough(Walked(Range(todo')))
  BY <1>1, <1>3, WalkedHasAll, WalkedIsClosed
<1>5. Range(todo) \subseteq S
  BY <1>1, <1>2, <1>4, TailKeepsRest
<1>6. WalksThrough(S)
  BY <1>2, <1>4 DEF WalksThrough
<1>7. S \in SUBSET Types
  BY <1>1 DEF Walked
<1> QED
  BY <1>3, <1>5, <1>6, <1>7, WalkedIsLeast
----------------------------------------------------------------------------
\* What a step can write: a definition at home, a struct only as its walk ends.
LEMMA OutputSteps ==
  ASSUME TypeOK, WrittenInv, [Next]_vars
  PROVE  \/ tempOutput' = tempOutput
         \/ \E t \in Types :
              /\ tempOutput' = [tempOutput EXCEPT ![Home(t)] = Append(@, t)]
              /\ job.kind[t] = "struct" => FinishStruct /\ t = cur.type
<1> USE DEF outVars, vars
<1>1. CASE FinishStruct
  BY <1>1 DEF FinishStruct, TypeOK, TypeQueueItem
<1>2. CASE FinishInterface
  <2>1. cur.type \in Types /\ job.kind[cur.type] = "interface"
    BY <1>2 DEF FinishInterface, TypeOK, TypeQueueItem, WrittenInv, HandlerInv, IsInterface
  <2> QED
    BY <1>2, <2>1 DEF FinishInterface
<1>3. CASE ExtractNamedCompound
  <2>1. Head(contents).type \in Types /\ job.kind[Head(contents).type] = "compound"
    BY <1>3, HeadTyped DEF ExtractNamedCompound, Take, Dequeue
  <2> QED
    BY <1>3, <2>1 DEF ExtractNamedCompound
<1>4. CASE ExtractShimmedSupported
  <2>1. Head(contents).type \in Types /\ job.kind[Head(contents).type] = "shimmable"
    BY <1>4, HeadTyped DEF ExtractShimmedSupported, Take, Dequeue
  <2> QED
    BY <1>4, <2>1 DEF ExtractShimmedSupported
<1>5. ASSUME NEW t \in Types, AddRoot(t) \/ BuildMapper(t) PROVE tempOutput' = tempOutput
  BY <1>5 DEF AddRoot, BuildMapper
<1>6. ASSUME SkipDirect \/ Panic \/ SkipRendered \/ DeclineStruct \/ BeginStruct \/ Visit
             \/ BeginInterface \/ AddImplementer
      PROVE  tempOutput' = tempOutput
  BY <1>6 DEF SkipDirect, Panic, SkipRendered, DeclineStruct, BeginStruct, Visit,
       BeginInterface, AddImplementer
<1>7. ASSUME StartExtract \/ StartMappers \/ Finish \/ ExternalError \/ Halted
             \/ UNCHANGED vars
      PROVE  tempOutput' = tempOutput
  BY <1>7 DEF StartExtract, StartMappers, Finish, ExternalError, Halted
<1> QED
  BY <1>1, <1>2, <1>3, <1>4, <1>5, <1>6, <1>7 DEF Next, Handler

LEMMA DefinedStays ==
  ASSUME TypeOK, WrittenInv, [Next]_vars, NEW t \in Types
  PROVE  /\ Defined(t) => Defined(t)'
         /\ job.kind[t] = "struct" /\ Defined(t)' => Defined(t) \/ (FinishStruct /\ t = cur.type)
<1>j. job' = job /\ Home(t)' = Home(t)
  BY Grows DEF Home
<1>1. CASE tempOutput' = tempOutput
  BY <1>j, <1>1 DEF Defined
<1>2. ASSUME NEW u \in Types, tempOutput' = [tempOutput EXCEPT ![Home(u)] = Append(@, u)]
      PROVE  /\ Defined(t) => Defined(t)'
             /\ Defined(t)' => Defined(t) \/ t = u
  <2>1. Home(t) \in Packages /\ Home(u) \in Packages
    BY JobFacts DEF JobTypeOK, Home
  <2>2. tempOutput \in [Packages -> Seq(Types)]
    BY DEF TypeOK
  <2>3. CASE Home(t) = Home(u)
    <3>1. tempOutput'[Home(t)] = Append(tempOutput[Home(t)], u)
      BY <1>2, <2>1, <2>2, <2>3
    <3> QED
      BY <1>j, <2>1, <2>2, <3>1, AppendAdds DEF Defined
  <2>4. CASE Home(t) # Home(u)
    BY <1>2, <1>j, <2>1, <2>2, <2>4 DEF Defined
  <2> QED
    BY <2>3, <2>4
<1> QED
  BY <1>1, <1>2, OutputSteps

\* A loop ends with its handler, unless the run fails.
LEMMA LoopSteps ==
  ASSUME TypeOK, [Next]_vars, Live'
  PROVE  /\ Live
         /\ phase = "walk" => FinishStruct \/ (phase' = "walk" /\ cur' = cur)
         /\ phase = "impls" => FinishInterface \/ (phase' = "impls" /\ cur' = cur)
<1> USE DEF loopVars, vars
<1>1. ASSUME NEW t \in Types, AddRoot(t) \/ BuildMapper(t)
      PROVE  Live /\ phase \notin {"walk", "impls"}
  BY <1>1 DEF AddRoot, BuildMapper, Live
<1>2. ASSUME SkipDirect \/ Panic \/ SkipRendered \/ DeclineStruct \/ BeginStruct
             \/ ExtractNamedCompound \/ ExtractShimmedSupported \/ BeginInterface
      PROVE  Live /\ phase \notin {"walk", "impls"}
  BY <1>2 DEF SkipDirect, Panic, SkipRendered, DeclineStruct, BeginStruct, ExtractNamedCompound,
       ExtractShimmedSupported, BeginInterface, Take, Live
<1>3. CASE Visit \/ FinishStruct
  BY <1>3 DEF Visit, FinishStruct, Live
<1>4. CASE AddImplementer \/ FinishInterface
  BY <1>4 DEF AddImplementer, FinishInterface, Live
<1>5. ASSUME StartExtract \/ StartMappers \/ Finish
      PROVE  Live /\ phase \notin {"walk", "impls"}
  BY <1>5 DEF StartExtract, StartMappers, Finish, Live
<1>6. ASSUME ExternalError PROVE FALSE
  BY <1>6 DEF ExternalError, Live
<1>7. CASE Halted \/ UNCHANGED vars
  BY <1>7 DEF Halted, Live
<1> QED
  BY <1>1, <1>2, <1>3, <1>4, <1>5, <1>6, <1>7 DEF Next, Handler

LEMMA IfacesGrow ==
  ASSUME TypeOK, [Next]_vars
  PROVE  /\ ifaces \subseteq ifaces'
         /\ inPackages' = inPackages \/ FinishInterface
<1> USE DEF ifaceVars, vars
<1>1. ASSUME NEW t \in Types, AddRoot(t) \/ BuildMapper(t)
      PROVE  ifaces' = ifaces /\ inPackages' = inPackages
  BY <1>1 DEF AddRoot, BuildMapper
<1>2. CASE BeginInterface \/ FinishInterface
  BY <1>2 DEF BeginInterface, FinishInterface
<1>3. CASE Handler /\ ~BeginInterface /\ ~FinishInterface
  BY <1>3 DEF Handler, SkipDirect, Panic, SkipRendered, DeclineStruct, BeginStruct, Visit,
       FinishStruct, ExtractNamedCompound, ExtractShimmedSupported, AddImplementer
<1>4. CASE StartExtract \/ StartMappers \/ Finish \/ ExternalError \/ Halted \/ UNCHANGED vars
  BY <1>4 DEF StartExtract, StartMappers, Finish, ExternalError, Halted
<1> QED
  BY <1>1, <1>2, <1>3, <1>4 DEF Next

\* What is cared for stays so to the end of a run that does not fail.
LEMMA CaredStays ==
  ASSUME TypeOK, WrittenInv, [Next]_vars, Live', NEW p \in Packages, NEW t \in Types, Cared(p, t)
  PROVE  Cared(p, t)'
<1>j. /\ job' = job /\ cached \subseteq cached'
      /\ Home(t)' = Home(t) /\ Item(p, t)' = Item(p, t)
  BY Grows DEF Home, Item
<1>1. ASSUME job.kind[t] = "shimmable"
      PROVE  /\ p \in cached' /\ Generated("shim", t) \in directives'[p]
             /\ p = Home(t) /\ p \in job.user => Defined(t)'
  <2>1. p \in cached /\ Generated("shim", t) \in directives[p]
    BY <1>1 DEF Cared
  <2>2. directives[p] \subseteq directives'[p]
    BY <2>1, DirectivesGrow
  <2> QED
    BY <1>1, <1>j, <2>1, <2>2, DefinedStays DEF Cared
<1>0. ASSUME job.kind[t] \in {"struct", "compound"} PROVE Home(t) \in cached'
  BY <1>0, <1>j DEF Cared
<1>2. ASSUME job.kind[t] = "compound" PROVE Defined(t)' \/ Excused(t)'
  BY <1>2, <1>j, DefinedStays DEF Cared, Excused
<1>3. ASSUME job.kind[t] = "struct"
      PROVE  \/ Defined(t)' \/ Excused(t)'
             \/ \E q \in Packages : t \in job.shims[q]
             \/ phase' = "walk" /\ cur'.type = t
  <2>1. CASE Defined(t) \/ Excused(t) \/ \E q \in Packages : t \in job.shims[q]
    BY <1>j, <2>1, DefinedStays DEF Excused
  <2>2. CASE phase = "walk" /\ cur.type = t
    <3>1. CASE FinishStruct
      <4>1. /\ Home(t) \in Packages /\ tempOutput \in [Packages -> Seq(Types)]
            /\ tempOutput' = [tempOutput EXCEPT ![Home(t)] = Append(@, t)]
        BY <2>2, <3>1, JobFacts DEF FinishStruct, TypeOK, JobTypeOK, Home
      <4>2. tempOutput'[Home(t)] = Append(tempOutput[Home(t)], t)
        BY <4>1
      <4> QED
        BY <1>j, <4>1, <4>2, AppendAdds DEF Defined
    <3> QED
      BY <2>2, <3>1, LoopSteps
  <2> QED
    BY <1>3, <2>1, <2>2 DEF Cared
<1>4. ASSUME job.kind[t] = "interface"
      PROVE  /\ t \in ifaces'
             /\ p \in Range(inPackages'[t]) \/ (phase' = "impls" /\ cur' = Item(p, t))
  <2>i. inPackages \in [Types -> Seq(Packages)]
    BY DEF TypeOK
  <2>f. ASSUME FinishInterface
        PROVE  Range(inPackages'[t]) = Range(inPackages[t])
                 \cup (IF t = cur.type THEN {cur.origin} ELSE {})
    <3>1. /\ inPackages' = [inPackages EXCEPT ![cur.type] = Append(@, cur.origin)]
          /\ cur.type \in Types /\ cur.origin \in Packages
      BY <2>f DEF FinishInterface, TypeOK, TypeQueueItem
    <3>2. CASE t = cur.type
      <4>1. inPackages'[t] = Append(inPackages[t], cur.origin) /\ inPackages[t] \in Seq(Packages)
        BY <2>i, <3>1, <3>2
      <4> QED
        BY <3>1, <3>2, <4>1, AppendAdds
    <3>3. CASE t # cur.type
      BY <2>i, <3>1, <3>3
    <3> QED
      BY <3>2, <3>3
  <2>1. CASE p \in Range(inPackages[t])
    BY <1>4, <2>1, <2>f, IfacesGrow DEF Cared
  <2>2. CASE phase = "impls" /\ cur = Item(p, t)
    <3>1. CASE FinishInterface
      BY <1>4, <2>2, <2>f, <3>1, IfacesGrow DEF Cared, Item
    <3> QED
      BY <1>4, <2>2, <3>1, LoopSteps, IfacesGrow DEF Cared
  <2> QED
    BY <1>4, <2>1, <2>2 DEF Cared
<1> QED
  <2>1. Generated("shim", t)' = Generated("shim", t)
    BY DEF Generated
  <2> QED
    BY <1>j, <1>0, <1>1, <1>2, <1>3, <1>4, <2>1 DEF Cared
----------------------------------------------------------------------------
LEMMA SaysFromSource ==
  ASSUME TypeOK, SourcedInv, NEW p \in Packages, NEW t \in Types
  PROVE  /\ Says(p, "ignore", t) => t \in job.ignores[p]
         /\ Says(p, "shim", t) /\ job.kind[t] # "shimmable" => t \in job.shims[p]
<1>1. CASE p \in cached
  BY <1>1 DEF SourcedInv, Says, DirectivesOf, Declares
<1>2. CASE p \notin cached
  <2>1. ASSUME NEW d \in SourceDirectives[p]
        PROVE  /\ d.dir = "ignore" => d.type \in job.ignores[p]
               /\ d.dir = "shim" => d.type \in job.shims[p]
    BY <2>1 DEF SourceDirectives
  <2> QED
    BY <1>2, <2>1 DEF Says, DirectivesOf, Declares
<1> QED
  BY <1>1, <1>2

\* The handlers that take an item from the queue.
Takers ==
  \/ SkipDirect \/ Panic \/ SkipRendered \/ DeclineStruct \/ BeginStruct
  \/ ExtractNamedCompound \/ ExtractShimmedSupported \/ BeginInterface

LEMMA SeenGrows ==
  ASSUME TypeOK, [Next]_vars
  PROVE  seenItems \subseteq seenItems'
BY QueueSteps DEF QueueKept, QueueEmptied, QueueAdded, QueueTaken, Add, Dequeue, queueVars

\* A key that two types share is shared to the end.
LEMMA KeySharedStays ==
  ASSUME TypeOK, [Next]_vars, NEW x, KeyShared(x)
  PROVE  KeyShared(x)'
<1>1. job' = job /\ seenItems \subseteq seenItems'
  BY Grows, SeenGrows
<1> QED
  BY <1>1 DEF KeyShared, RenderKey

LEMMA AnsweredStays ==
  ASSUME TypeOK, WrittenInv, [Next]_vars, Live', NEW x \in TypeQueueItem, Answered(x)
  PROVE  Answered(x)'
<1>1. x.origin \in Packages /\ x.type \in Types
  BY DEF TypeQueueItem
<1>2. CASE Cared(x.origin, x.type)
  BY <1>1, <1>2, CaredStays DEF Answered
<1>3. CASE KeyShared(x)
  BY <1>3, KeySharedStays DEF Answered
<1> QED
  BY <1>2, <1>3 DEF Answered

\* Taken from the queue, a use is answered by the handler it is taken by.
LEMMA HeadIsAnswered ==
  ASSUME TypeOK, WrittenInv, SourcedInv, RenderedInv, [Next]_vars, Takers, Live',
         NEW x, x = Head(contents)
  PROVE  x \in TypeQueueItem /\ Answered(x)'
<1> DEFINE p == x.origin
           t == x.type
<1>j. job' = job /\ Home(t)' = Home(t) /\ Live
  BY Grows, LoopSteps DEF Home
<1>h. x \in TypeQueueItem /\ t \in Types /\ p \in Packages /\ Home(t) \in Packages
  <2>1. contents # <<>>
    BY DEF Takers, SkipDirect, Panic, SkipRendered, DeclineStruct, BeginStruct,
       ExtractNamedCompound, ExtractShimmedSupported, BeginInterface, Take, Dequeue
  <2> QED
    BY <2>1, HeadTyped
<1>3. CASE SkipRendered
  <2>1. job.kind[t] \in {"struct", "compound", "shimmable"} /\ RenderKey(x) \in tempRendered
    BY <1>3 DEF SkipRendered, Take
  <2>2. Answered(x)
    BY <1>h, <1>j, <2>1 DEF RenderedInv
  <2> QED
    BY <1>h, <2>2, AnsweredStays
<1> SUFFICES ASSUME ~SkipRendered PROVE Cared(p, t)'
  BY <1>h, <1>3 DEF Answered
<1>1. CASE SkipDirect
  BY <1>1, <1>j DEF SkipDirect, Take, Cared
<1>2. CASE Panic
  BY <1>2 DEF Panic, Live
<1>4. CASE DeclineStruct
  <2>1. /\ job.kind[t] = "struct"
        /\ Says(p, "shim", t) \/ Says(Home(t), "ignore", t)
    BY <1>4 DEF DeclineStruct, Take, Live
  <2>2. t \in job.shims[p] \/ Excused(t)
    BY <1>h, <2>1, SaysFromSource DEF Excused
  <2>3. Home(t) \in cached'
    BY <1>4 DEF DeclineStruct, Ensure
  <2> QED
    BY <1>h, <1>j, <2>1, <2>2, <2>3 DEF Cared, Excused
<1>5. CASE BeginStruct
  BY <1>5, <1>j DEF BeginStruct, Take, Cared, Ensure
<1>6. CASE ExtractNamedCompound
  <2>1. job.kind[t] = "compound" /\ Home(t) \in cached'
    BY <1>6 DEF ExtractNamedCompound, Take, Ensure
  <2>2. CASE Says(Home(t), "ignore", t)
    BY <1>h, <1>j, <2>1, <2>2, SaysFromSource DEF Excused, Cared
  <2>3. CASE ~Says(Home(t), "ignore", t)
    <3>1. tempOutput' = [tempOutput EXCEPT ![Home(t)] = Append(@, t)]
      BY <1>6, <2>3 DEF ExtractNamedCompound, Live
    <3>2. tempOutput \in [Packages -> Seq(Types)] /\ tempOutput[Home(t)] \in Seq(Types)
      BY <1>h DEF TypeOK
    <3>3. tempOutput'[Home(t)] = Append(tempOutput[Home(t)], t)
      BY <1>h, <3>1, <3>2
    <3>4. t \in Range(Append(tempOutput[Home(t)], t))
      BY <1>h, <3>2, AppendAdds
    <3>5. Defined(t)'
      BY <1>j, <3>3, <3>4 DEF Defined
    <3> QED
      BY <1>j, <2>1, <3>5 DEF Cared
  <2> QED
    BY <2>2, <2>3
<1>7. CASE ExtractShimmedSupported
  <2>1. job.kind[t] = "shimmable"
    BY <1>7 DEF ExtractShimmedSupported, Take
  <2>2. p \in cached' /\ Generated("shim", t) \in directives'[p]
    BY <1>7, <1>h DEF ExtractShimmedSupported, EnsureAndAdd
  <2>3. ASSUME p = Home(t), p \in job.user PROVE Defined(t)'
    <3>1. tempOutput' = [tempOutput EXCEPT ![p] = Append(@, t)]
      BY <1>7, <2>3 DEF ExtractShimmedSupported
    <3>2. tempOutput \in [Packages -> Seq(Types)] /\ tempOutput[p] \in Seq(Types)
      BY <1>h DEF TypeOK
    <3>3. tempOutput'[p] = Append(tempOutput[p], t)
      BY <1>h, <3>1, <3>2
    <3>4. t \in Range(Append(tempOutput[p], t))
      BY <1>h, <3>2, AppendAdds
    <3> QED
      BY <1>j, <2>3, <3>3, <3>4 DEF Defined
  <2>4. Generated("shim", t)' = Generated("shim", t)
    BY DEF Generated
  <2> QED
    BY <1>j, <2>1, <2>2, <2>3, <2>4 DEF Cared
<1>8. CASE BeginInterface
  <2>1. /\ job.kind[t] = "interface" /\ phase' = "impls" /\ cur' = x /\ t \in ifaces'
    BY <1>8 DEF BeginInterface, Take, Live
  <2>2. x = Item(p, t)
    BY <1>h DEF TypeQueueItem, Item
  <2>3. cur' = Item(p, t)'
    BY <2>1, <2>2 DEF Item
  <2> QED
    BY <1>j, <2>1, <2>3 DEF Cared
<1> QED
  BY <1>h, <1>1, <1>2, <1>4, <1>5, <1>6, <1>7, <1>8 DEF Takers

\* The queue changes by those handlers and by Add, whatever else a step does.
LEMMA TakersOrAdders ==
  ASSUME TypeOK, [Next]_vars
  PROVE  \/ Takers /\ Dequeue
         \/ UNCHANGED queueVars
         \/ \E x \in TypeQueueItem : Add(x)
<1>1. CASE Takers
  BY <1>1 DEF Takers, SkipDirect, Panic, SkipRendered, DeclineStruct, BeginStruct,
     ExtractNamedCompound, ExtractShimmedSupported, BeginInterface, Take
<1>2. CASE QueueKept \/ QueueEmptied \/ QueueAdded
  BY <1>2 DEF QueueKept, QueueEmptied, QueueAdded
<1>3. CASE QueueTaken /\ ~Takers
  <2>1. contents' # contents
    <3>1. contents \in Seq(TypeQueueItem) /\ contents # <<>> /\ contents' = Tail(contents)
      BY <1>3 DEF QueueTaken, Dequeue, TypeOK
    <3>2. Len(contents') = Len(contents) - 1 /\ Len(contents) \in Nat
      BY <3>1
    <3> QED
      BY <3>2
  <2>2. ASSUME NEW t \in Types, AddRoot(t) \/ BuildMapper(t)
        PROVE  UNCHANGED queueVars \/ \E x \in TypeQueueItem : Add(x)
    <3>1. Item(Home(t), t) \in TypeQueueItem
      BY JobFacts DEF JobTypeOK, Home, Item, TypeQueueItem
    <3> QED
      BY <2>2, <3>1 DEF AddRoot, BuildMapper
  <2>3. CASE FinishStruct \/ FinishInterface
    BY <2>3 DEF FinishStruct, FinishInterface
  <2>4. CASE Visit \/ AddImplementer
    <3>1. \A t \in Types : Home(t) \in Packages
      BY JobFacts DEF JobTypeOK, Home
    <3>2. cur \in TypeQueueItem /\ todo \in Seq(Types) /\ todo # <<>>
      BY <2>4 DEF Visit, AddImplementer, TypeOK
    <3>3. /\ Item(Home(cur.type), Head(todo)) \in TypeQueueItem
          /\ Item(cur.origin, Head(todo)) \in TypeQueueItem
      BY <3>1, <3>2 DEF Item, TypeQueueItem
    <3> QED
      BY <2>4, <3>3 DEF Visit, AddImplementer
  <2>5. CASE StartExtract \/ StartMappers \/ Finish \/ ExternalError \/ Halted \/ UNCHANGED vars
    BY <2>5 DEF StartExtract, StartMappers, Finish, ExternalError, Halted, vars
  <2> QED
    BY <1>3, <2>2, <2>3, <2>4, <2>5 DEF Next, Handler, Takers
<1> QED
  BY <1>1, <1>2, <1>3, QueueSteps

LEMMA HandledStays ==
  ASSUME TypeOK, QueueInv, WrittenInv, SourcedInv, RenderedInv, HandledInv, [Next]_vars
  PROVE  HandledInv'
<1> SUFFICES ASSUME Live', NEW x \in seenItems', x \notin Range(contents')
             PROVE  Answered(x)'
  BY DEF HandledInv
<1>c. contents \in Seq(TypeQueueItem)
  BY DEF TypeOK
<1>k. ASSUME x \in seenItems, x \notin Range(contents) PROVE Answered(x)'
  <2>1. x \in TypeQueueItem /\ Live
    BY <1>k, LoopSteps DEF TypeOK
  <2>2. Answered(x)
    BY <1>k, <2>1 DEF HandledInv
  <2> QED
    BY <2>1, <2>2, AnsweredStays
<1>1. CASE Takers /\ Dequeue
  <2>1. seenItems' = seenItems /\ contents # <<>> /\ contents' = Tail(contents)
    BY <1>1 DEF Dequeue
  <2>2. x \notin Range(contents) \/ x = Head(contents)
    BY <1>c, <2>1, TailKeepsRest
  <2> QED
    BY <1>1, <1>k, <2>1, <2>2, HeadIsAnswered
<1>2. CASE UNCHANGED queueVars
  BY <1>2, <1>k DEF queueVars
<1>3. ASSUME NEW y \in TypeQueueItem, Add(y) PROVE Answered(x)'
  <2>1. CASE y \in seenItems
    BY <1>3, <1>k, <2>1 DEF Add, queueVars
  <2>2. CASE y \notin seenItems
    <3>1. contents' = Append(contents, y) /\ seenItems' = seenItems \cup {y}
      BY <1>3, <2>2 DEF Add
    <3>2. Range(contents') = Range(contents) \cup {y}
      BY <1>c, <3>1, AppendAdds
    <3> QED
      BY <1>k, <3>1, <3>2
  <2> QED
    BY <2>1, <2>2
<1> QED
  BY <1>1, <1>2, <1>3, TakersOrAdders

\* What answers one of two items with the same type and key answers the other.
LEMMA SameKeyAnswered ==
  ASSUME TypeOK, job' = job, NEW x \in TypeQueueItem, NEW y \in TypeQueueItem,
         x.type = y.type, RenderKey(x) = RenderKey(y), Answered(y)',
         job.kind[x.type] \in {"struct", "compound", "shimmable"}
  PROVE  Answered(x)'
<1>1. CASE job.kind[x.type] = "shimmable"
  <2>1. job.joined[<<x.origin, x.type>>] = job.joined[<<y.origin, x.type>>]
    BY <1>1 DEF RenderKey
  <2>2. x.origin \in Packages /\ y.origin \in Packages /\ x.type \in Types
    BY DEF TypeQueueItem
  <2>3. x.origin = y.origin
    BY <2>1, <2>2, JobFacts DEF WellFormed
  <2> QED
    BY <2>3 DEF Answered, KeyShared, RenderKey
<1>2. CASE job.kind[x.type] # "shimmable"
  <2>1. Cared(y.origin, y.type)' => Cared(x.origin, x.type)'
    BY <1>2 DEF Cared
  <2>2. KeyShared(y)' => KeyShared(x)'
    BY DEF KeyShared, RenderKey
  <2> QED
    BY <2>1, <2>2 DEF Answered
<1> QED
  BY <1>1, <1>2

LEMMA RenderedStays ==
  ASSUME TypeOK, QueueInv, WrittenInv, SourcedInv, RenderedInv, [Next]_vars
  PROVE  RenderedInv'
<1> USE DEF outVars, vars
<1>j. job' = job
  BY Grows
<1> SUFFICES ASSUME Live', NEW x \in TypeQueueItem,
                    job.kind[x.type] \in {"struct", "compound", "shimmable"},
                    RenderKey(x) \in tempRendered'
             PROVE  Answered(x)'
  BY <1>j DEF RenderedInv, RenderKey
<1>k. ASSUME RenderKey(x) \in tempRendered PROVE Answered(x)'
  <2>1. Answered(x)
    BY <1>k, LoopSteps DEF RenderedInv
  <2> QED
    BY <2>1, AnsweredStays
<1>1. CASE DeclineStruct \/ BeginStruct \/ ExtractNamedCompound \/ ExtractShimmedSupported
  <2>y. PICK y : y = Head(contents)
    OBVIOUS
  <2>1. Takers /\ MarkRendered(y)
    BY <1>1, <2>y DEF Takers, DeclineStruct, BeginStruct, ExtractNamedCompound,
         ExtractShimmedSupported
  <2>2. y \in TypeQueueItem /\ Answered(y)'
    BY <2>y, <2>1, HeadIsAnswered
  <2>3. RenderKey(x) \in tempRendered \/ RenderKey(x) = RenderKey(y)
    BY <2>1 DEF MarkRendered
  <2>4. CASE RenderKey(x) = RenderKey(y)
    <3>1. y \in seenItems'
      <4>1. contents # <<>> /\ contents \in Seq(TypeQueueItem)
        BY <1>1 DEF DeclineStruct, BeginStruct, ExtractNamedCompound, ExtractShimmedSupported,
           Take, Dequeue, TypeOK
      <4>2. 1 \in 1..Len(contents) /\ y = contents[1]
        BY <2>y, <4>1
      <4>3. y \in Range(contents)
        BY <4>1, <4>2, RangeOfSeq
      <4> QED
        BY <4>3, SeenGrows DEF QueueInv
    <3>2. job.kind[y.type] \in {"struct", "compound", "shimmable"}
      BY <1>1, <2>y DEF DeclineStruct, BeginStruct, ExtractNamedCompound,
         ExtractShimmedSupported, Take
    <3>3. CASE x.type # y.type
      BY <1>j, <2>4, <3>1, <3>2, <3>3 DEF Answered, KeyShared, RenderKey
    <3>4. CASE x.type = y.type
      BY <1>j, <2>2, <2>4, <3>4, SameKeyAnswered
    <3> QED
      BY <3>3, <3>4
  <2> QED
    BY <1>k, <2>3, <2>4
<1>2. ASSUME NEW t \in Types, AddRoot(t) \/ BuildMapper(t) PROVE tempRendered' = tempRendered
  BY <1>2 DEF AddRoot, BuildMapper
<1>3. ASSUME SkipDirect \/ Panic \/ SkipRendered \/ Visit \/ FinishStruct \/ BeginInterface
             \/ AddImplementer \/ FinishInterface
      PROVE  tempRendered' = tempRendered
  BY <1>3 DEF SkipDirect, Panic, SkipRendered, Visit, FinishStruct, BeginInterface,
     AddImplementer, FinishInterface
<1>4. ASSUME StartExtract \/ StartMappers \/ Finish \/ ExternalError \/ Halted \/ UNCHANGED vars
      PROVE  tempRendered' = tempRendered
  BY <1>4 DEF StartExtract, StartMappers, Finish, ExternalError, Halted
<1> QED
  BY <1>1, <1>2, <1>3, <1>4, <1>k DEF Next, Handler

\* Loaded directives say of a type, unless it is a shimmed primitive, only
\* what the sources say.
LEMMA SourcedStays ==
  ASSUME TypeOK, WrittenInv, SourcedInv, [Next]_vars
  PROVE  SourcedInv'
<1> USE DEF dctvVars, vars
<1> DEFINE Honest(p, d) ==
             /\ d.dir = "ignore" => d.type \in job.ignores[p]
             /\ d.dir = "shim" /\ job.kind[d.type] # "shimmable" => d.type \in job.shims[p]
<1>j. job' = job
  BY Grows
<1> SUFFICES ASSUME NEW p \in cached', NEW d \in directives'[p] PROVE Honest(p, d)
  BY <1>j DEF SourcedInv
<1>c. p \in Packages /\ directives \in [Packages -> SUBSET Directive] /\ cached \subseteq Packages
  BY DirectivesGrow DEF TypeOK
<1>s. ASSUME NEW q \in Packages, NEW e \in SourceDirectives[q] PROVE Honest(q, e)
  BY <1>s DEF SourceDirectives
<1>k. ASSUME d \in DirectivesOf(p, SourceDirectives) PROVE Honest(p, d)
  BY <1>c, <1>k, <1>s DEF DirectivesOf, SourcedInv
<1>g. ASSUME NEW t, NEW c \in {"tuple", "allowextra", "intercept", "shim"}, d = Generated(c, t),
             c = "shim" => job.kind[t] = "shimmable"
      PROVE  Honest(p, d)
  BY <1>g DEF Generated
<1> HIDE DEF Honest
<1>1. CASE DeclineStruct \/ BeginStruct \/ ExtractNamedCompound
  <2>1. PICK ps \in SUBSET Packages : Ensure(ps, SourceDirectives)
    <3>1. Head(contents).origin \in Packages /\ Home(Head(contents).type) \in Packages
      BY <1>1, HeadTyped DEF DeclineStruct, BeginStruct, ExtractNamedCompound, Take, Dequeue
    <3> QED
      BY <1>1, <3>1 DEF DeclineStruct, BeginStruct, ExtractNamedCompound
  <2>2. d \in DirectivesOf(p, SourceDirectives)
    BY <1>c, <2>1 DEF Ensure, DirectivesOf
  <2> QED
    BY <1>k, <2>2
<1>2. CASE FinishStruct
  <2> DEFINE t == cur.type
  <2>1. d \in DirectivesOf(p, SourceDirectives) \/ d = Generated("tuple", t)
          \/ d = Generated("allowextra", t)
    BY <1>2, <1>c DEF FinishStruct, EnsureAndAdd, DirectivesOf
  <2> QED
    BY <1>k, <1>g, <2>1
<1>3. CASE ExtractShimmedSupported
  <2> DEFINE t == Head(contents).type
  <2>1. d \in DirectivesOf(p, SourceDirectives) \/ d = Generated("shim", t)
    BY <1>3, <1>c DEF ExtractShimmedSupported, EnsureAndAdd, DirectivesOf
  <2>2. job.kind[t] = "shimmable"
    BY <1>3 DEF ExtractShimmedSupported, Take
  <2> QED
    BY <1>k, <1>g, <2>1, <2>2
<1>q. ASSUME cached' = cached, directives' = directives PROVE Honest(p, d)
  BY <1>k, <1>q DEF DirectivesOf
<1>4. ASSUME NEW t \in Types, BuildMapper(t) PROVE Honest(p, d)
  <2>1. cached' = cached /\ (d \in directives[p] \/ d = Generated("intercept", t))
    BY <1>4, <1>c DEF BuildMapper
  <2>2. d \in directives[p] => d \in DirectivesOf(p, SourceDirectives)
    BY <2>1 DEF DirectivesOf
  <2> QED
    BY <1>k, <1>g, <2>1, <2>2
<1>5. ASSUME NEW t \in Types, AddRoot(t) PROVE Honest(p, d)
  BY <1>5, <1>q DEF AddRoot
<1>6. CASE SkipDirect \/ Panic \/ SkipRendered \/ Visit \/ BeginInterface \/ AddImplementer
           \/ FinishInterface
  BY <1>6, <1>q DEF SkipDirect, Panic, SkipRendered, Visit, BeginInterface, AddImplementer,
     FinishInterface
<1>7. CASE StartExtract \/ StartMappers \/ Finish \/ ExternalError \/ Halted \/ UNCHANGED vars
  BY <1>7, <1>q DEF StartExtract, StartMappers, Finish, ExternalError, Halted
<1> QED
  BY <1>1, <1>2, <1>3, <1>4, <1>5, <1>6, <1>7 DEF Next, Handler
----------------------------------------------------------------------------
\* What a turn of the walk visits is in the queue after it; the rest is ahead.
LEMMA WalkStays ==
  ASSUME TypeOK, WalkInv, [Next]_vars
  PROVE  WalkInv'
<1>j. /\ job' = job
      /\ \A t : Home(t)' = Home(t) /\ Uses(t)' = Uses(t)
      /\ \A ts : Walked(ts)' = Walked(ts)
      /\ seenItems \subseteq seenItems'
  BY Grows, SeenGrows DEF Home, Uses, Walked, WalksThrough
<1> SUFFICES ASSUME phase' = "walk", NEW c, c = cur', NEW td, td = Range(todo'),
                    NEW r \in Uses(c.type)
             PROVE  Item(Home(c.type), r) \in seenItems' \/ r \in Walked(td)
  <2>1. WalkInv' <=> (phase' = "walk" =>
          \A r \in Uses(cur'.type) :
            Item(Home(cur'.type), r) \in seenItems' \/ r \in Walked(Range(todo')))
    BY <1>j DEF WalkInv, Item
  <2> QED
    BY <2>1
<1> USE DEF loopVars, vars
<1>1. CASE BeginStruct
  <2>1. td = Range(job.refs[c.type])
    BY <1>1 DEF BeginStruct
  <2> QED
    BY <2>1 DEF Uses
<1>2. CASE Visit
  <2>1. phase = "walk" /\ c = cur /\ Add(Item(Home(c.type), Head(todo)))
    BY <1>2 DEF Visit
  <2>2. Item(Home(c.type), r) \in seenItems \/ r \in Walked(Range(todo))
    BY <2>1 DEF WalkInv
  <2>3. r \in Walked(Range(todo)) => r = Head(todo) \/ r \in Walked(td)
    BY <1>2, WalkTurn, <1>j
  <2>4. Item(Home(c.type), Head(todo)) \in seenItems'
    BY <2>1 DEF Add, queueVars
  <2> QED
    BY <1>j, <2>2, <2>3, <2>4
<1>3. CASE Halted \/ UNCHANGED vars
  <2>1. phase = "walk" /\ c = cur /\ td = Range(todo)
    BY <1>3 DEF Halted
  <2> QED
    BY <1>j, <2>1 DEF WalkInv
<1>4. ASSUME NEW t \in Types, AddRoot(t) \/ BuildMapper(t) PROVE FALSE
  BY <1>4 DEF AddRoot, BuildMapper
<1>5. ASSUME Handler, ~BeginStruct, ~Visit PROVE FALSE
  BY <1>5 DEF Handler, SkipDirect, Panic, SkipRendered, DeclineStruct, FinishStruct,
     ExtractNamedCompound, ExtractShimmedSupported, BeginInterface, AddImplementer,
     FinishInterface, Take
<1>6. ASSUME StartExtract \/ StartMappers \/ Finish \/ ExternalError PROVE FALSE
  BY <1>6 DEF StartExtract, StartMappers, Finish, ExternalError
<1> QED
  BY <1>1, <1>2, <1>3, <1>4, <1>5, <1>6 DEF Next

\* A struct is written when nothing of its walk is left.
LEMMA FieldsStay ==
  ASSUME TypeOK, WrittenInv, WalkInv, FieldsInv, [Next]_vars
  PROVE  FieldsInv'
<1>j. /\ job' = job
      /\ \A t : Home(t)' = Home(t) /\ Uses(t)' = Uses(t)
      /\ seenItems \subseteq seenItems'
  BY Grows, SeenGrows DEF Home, Uses, Walked, WalksThrough
<1> SUFFICES ASSUME NEW t \in Types, job.kind[t] = "struct", Defined(t)',
                    NEW r \in Uses(t)
             PROVE  Item(Home(t), r) \in seenItems'
  BY <1>j DEF FieldsInv, FieldsSeen, Item
<1>1. CASE Defined(t)
  BY <1>j, <1>1 DEF FieldsInv, FieldsSeen
<1>2. CASE FinishStruct /\ t = cur.type
  <2>1. phase = "walk" /\ todo = <<>>
    BY <1>2 DEF FinishStruct
  <2>2. Range(todo) = {} /\ WalksThrough({})
    BY <2>1 DEF Range, WalksThrough
  <2>3. Walked(Range(todo)) = {}
    BY <2>2, WalkedIsLeast
  <2> QED
    BY <1>2, <1>j, <2>1, <2>3 DEF WalkInv
<1> QED
  BY <1>1, <1>2, DefinedStays
----------------------------------------------------------------------------
\* The loop over interfaces and their packages.
LEMMA MappedStays ==
  ASSUME TypeOK, MappedInv, [Next]_vars
  PROVE  MappedInv'
<1> USE DEF ifaceVars, outVars, vars
<1> DEFINE In(e, i) == \E m \in DOMAIN e : e[m].iface = i
<1>t. /\ inPackages \in [Types -> Seq(Packages)] /\ mapped \in [Types -> Nat]
      /\ extraOutput \in
           [Packages -> Seq([iface : Types, types : SUBSET Types, shimmed : SUBSET Types])]
  BY DEF TypeOK
<1>v. ASSUME mapped' = mapped, extraOutput' = extraOutput,
             \A i \in Types : /\ Len(inPackages[i]) <= Len(inPackages'[i])
                              /\ \A n \in 1..Len(inPackages[i]) : inPackages'[i][n] = inPackages[i][n],
             \A i \in Types : Len(inPackages'[i]) \in Nat,
             phase' = "done" => \A i \in ifaces' : mapped'[i] = Len(inPackages'[i])
      PROVE  MappedInv'
  <2> SUFFICES ASSUME NEW i \in Types
               PROVE  /\ mapped'[i] <= Len(inPackages'[i])
                      /\ \A n \in 1..mapped'[i] : In(extraOutput'[inPackages'[i][n]], i)
    BY <1>v DEF MappedInv
  <2>1. mapped[i] \in Nat /\ Len(inPackages[i]) \in Nat /\ mapped[i] <= Len(inPackages[i])
    BY <1>t DEF MappedInv
  <2>2. mapped'[i] <= Len(inPackages'[i])
    BY <1>v, <2>1
  <2>3. ASSUME NEW n \in 1..mapped'[i] PROVE In(extraOutput'[inPackages'[i][n]], i)
    <3>1. n \in 1..Len(inPackages[i]) /\ n \in 1..mapped[i]
      BY <1>v, <2>1
    <3>2. inPackages'[i][n] = inPackages[i][n] /\ In(extraOutput[inPackages[i][n]], i)
      BY <1>v, <3>1 DEF MappedInv
    <3> QED
      BY <1>v, <3>2
  <2> QED
    BY <2>2, <2>3
<1>k. ASSUME UNCHANGED <<mapped, extraOutput, inPackages>>,
             phase' = "done" => \A i \in ifaces' : mapped[i] = Len(inPackages[i])
      PROVE  MappedInv'
  BY <1>k DEF MappedInv
<1>1. CASE FinishInterface
  <2>1. /\ inPackages' = [inPackages EXCEPT ![cur.type] = Append(@, cur.origin)]
        /\ cur.type \in Types /\ cur.origin \in Packages
        /\ mapped' = mapped /\ extraOutput' = extraOutput /\ phase' # "done"
    BY <1>1 DEF FinishInterface, TypeOK, TypeQueueItem
  <2>2. ASSUME NEW i \in Types
        PROVE  /\ Len(inPackages[i]) <= Len(inPackages'[i]) /\ Len(inPackages'[i]) \in Nat
               /\ \A n \in 1..Len(inPackages[i]) : inPackages'[i][n] = inPackages[i][n]
    <3>1. /\ inPackages[i] \in Seq(Packages)
          /\ inPackages'[i] = inPackages[i] \/ inPackages'[i] = Append(inPackages[i], cur.origin)
      BY <1>t, <2>1
    <3> QED
      BY <2>1, <3>1
  <2> QED
    BY <1>v, <2>1, <2>2
<1>2. ASSUME NEW i \in Types, BuildMapper(i) PROVE MappedInv'
  <2> DEFINE p == inPackages[i][mapped[i] + 1]
  <2>0. phase' # "done" /\ UNCHANGED inPackages
    BY <1>2 DEF BuildMapper
  <2>1. CASE phase' = "error" /\ UNCHANGED <<directives, extraOutput, mapped>>
    BY <1>k, <2>0, <2>1
  <2>2. CASE /\ extraOutput' = [extraOutput EXCEPT ![p] = Append(@, Mapper(i, p))]
             /\ mapped' = [mapped EXCEPT ![i] = @ + 1]
    <3>1. /\ mapped[i] \in Nat /\ mapped[i] + 1 \in 1..Len(inPackages[i])
          /\ Len(inPackages[i]) \in Nat /\ p \in Packages
      BY <1>t, <1>2 DEF BuildMapper
    <3>2. Mapper(i, p) \in [iface : Types, types : SUBSET Types, shimmed : SUBSET Types]
          /\ Mapper(i, p).iface = i
      <4>1. job.impls[i] \in Seq(Types)
        BY JobFacts DEF JobTypeOK
      <4>2. Range(job.impls[i]) \subseteq Types
        BY <4>1, RangeOfSeq
      <4> QED
        BY <4>2 DEF Mapper, Mapped
    <3> HIDE DEF p
    <3>3. ASSUME NEW q \in Packages, NEW k, In(extraOutput[q], k) PROVE In(extraOutput'[q], k)
      <4>1. PICK m \in DOMAIN extraOutput[q] : extraOutput[q][m].iface = k
        BY <3>3
      <4>2. extraOutput'[q] = extraOutput[q] \/ extraOutput'[q] = Append(extraOutput[q], Mapper(i, p))
        BY <1>t, <2>2
      <4>3. extraOutput[q] \in Seq([iface : Types, types : SUBSET Types, shimmed : SUBSET Types])
        BY <1>t
      <4>4. m \in DOMAIN extraOutput'[q] /\ extraOutput'[q][m] = extraOutput[q][m]
        BY <3>2, <4>1, <4>2, <4>3
      <4> QED
        BY <4>1, <4>4
    <3>4. In(extraOutput'[p], i)
      <4>1. extraOutput'[p] = Append(extraOutput[p], Mapper(i, p))
        BY <1>t, <2>2, <3>1
      <4>2. extraOutput[p] \in Seq([iface : Types, types : SUBSET Types, shimmed : SUBSET Types])
        BY <1>t, <3>1
      <4>3. /\ Len(extraOutput[p]) + 1 \in DOMAIN extraOutput'[p]
            /\ extraOutput'[p][Len(extraOutput[p]) + 1] = Mapper(i, p)
        BY <3>2, <4>1, <4>2
      <4> QED
        BY <3>2, <4>3
    <3>5. ASSUME NEW k \in Types
          PROVE  /\ mapped'[k] <= Len(inPackages[k])
                 /\ \A n \in 1..mapped'[k] : In(extraOutput'[inPackages[k][n]], k)
      <4>1. /\ mapped[k] \in Nat /\ mapped[k] <= Len(inPackages[k])
            /\ mapped'[k] = IF k = i THEN mapped[k] + 1 ELSE mapped[k]
            /\ Len(inPackages[k]) \in Nat
        BY <1>t, <2>2 DEF MappedInv
      <4>2. ASSUME NEW n \in 1..mapped[k] PROVE In(extraOutput'[inPackages[k][n]], k)
        <5>1. In(extraOutput[inPackages[k][n]], k) /\ n \in 1..Len(inPackages[k])
          BY <4>1 DEF MappedInv
        <5>2. inPackages[k][n] \in Packages
          BY <1>t, <5>1
        <5> HIDE DEF In
        <5> QED
          BY <3>3, <5>1, <5>2
      <4>3. k = i => In(extraOutput'[inPackages[k][mapped[k] + 1]], k)
        BY <3>4 DEF p
      <4> HIDE DEF In
      <4> QED
        BY <3>1, <4>1, <4>2, <4>3
    <3> QED
      BY <2>0, <3>5 DEF MappedInv
  <2> QED
    BY <1>2, <2>1, <2>2 DEF BuildMapper
<1>3. CASE Finish
  BY <1>3, <1>k DEF Finish
<1>4. CASE Halted \/ UNCHANGED vars
  BY <1>4, <1>k DEF Halted, MappedInv
<1>5. ASSUME NEW t \in Types, AddRoot(t) PROVE MappedInv'
  BY <1>5, <1>k DEF AddRoot
<1>6. ASSUME Handler, ~FinishInterface
      PROVE  phase' # "done" /\ UNCHANGED <<mapped, extraOutput, inPackages>>
  BY <1>6 DEF Handler, SkipDirect, Panic, SkipRendered, DeclineStruct, BeginStruct, Visit,
     FinishStruct, ExtractNamedCompound, ExtractShimmedSupported, BeginInterface,
     AddImplementer, Take
<1>7. ASSUME StartExtract \/ StartMappers \/ ExternalError
      PROVE  phase' # "done" /\ UNCHANGED <<mapped, extraOutput, inPackages>>
  BY <1>7 DEF StartExtract, StartMappers, ExternalError
<1> QED
  BY <1>1, <1>2, <1>3, <1>4, <1>5, <1>6, <1>7, <1>k DEF Next
----------------------------------------------------------------------------
LEMMA ImplsStayQueued ==
  ASSUME TypeOK, ImplsQueued, [Next]_vars
  PROVE  ImplsQueued'
<1> USE DEF ifaceVars, loopVars, vars
<1>j. job' = job /\ \A t : Queued(t) => Queued(t)'
  BY Grows, SeenGrows DEF Queued, Item
<1>1. CASE BeginInterface
  <2> DEFINE x == Head(contents)
  <2>1. phase = "extract"
    BY <1>1 DEF BeginInterface, Take
  <2>2. CASE phase' = "error"
    BY <2>2 DEF ImplsQueued
  <2>3. CASE /\ phase' = "impls" /\ cur' = x /\ ifaces' = ifaces \cup {x.type}
             /\ todo' = IF x.type \in ifaces THEN <<>> ELSE job.impls[x.type]
    <3>1. ASSUME NEW i \in ifaces', NEW t \in Range(job.impls[i]) \ job.hidden, ~Queued(t)
          PROVE  i = x.type /\ i \notin ifaces
      BY <2>1, <2>3, <3>1 DEF ImplsQueued
    <3> QED
      BY <2>3, <3>1, <1>j DEF ImplsQueued
  <2> QED
    BY <1>1, <2>2, <2>3 DEF BeginInterface
<1>2. CASE AddImplementer
  <2>1. /\ phase = "impls" /\ phase' = "impls" /\ cur' = cur /\ ifaces' = ifaces
        /\ todo' = Tail(todo) /\ todo \in Seq(Types) /\ todo # <<>> /\ cur.origin \in Packages
        /\ Head(todo) \in job.hidden \/ Add(Item(cur.origin, Head(todo)))
    BY <1>2 DEF AddImplementer, TypeOK, TypeQueueItem
  <2>h. PICK h : h = Head(todo)
    OBVIOUS
  <2>2. h \in job.hidden \/ Queued(h)'
    <3>1. Add(Item(cur.origin, h)) => Item(cur.origin, h) \in seenItems'
      BY DEF Add, queueVars
    <3>2. h \in job.hidden \/ Item(cur.origin, h) \in seenItems'
      BY <2>1, <2>h, <3>1
    <3> QED
      BY <2>1, <3>2 DEF Queued, Item
  <2>3. ASSUME NEW i \in ifaces, NEW t \in Range(job.impls[i]) \ job.hidden
        PROVE  Queued(t)' \/ (cur.type = i /\ t \in Range(Tail(todo)))
    <3>1. CASE Queued(t) \/ t = h
      BY <2>2, <2>3, <3>1, <1>j
    <3>2. CASE ~Queued(t) /\ t # h
      <4>1. cur.type = i /\ t \in Range(todo)
        BY <2>1, <2>3, <3>2 DEF ImplsQueued
      <4> QED
        BY <2>1, <2>h, <3>2, <4>1, TailKeepsRest
    <3> QED
      BY <3>1, <3>2
  <2> QED
    BY <2>1, <2>3, <1>j DEF ImplsQueued
<1>3. CASE FinishInterface
  <2>1. Range(todo) = {} /\ phase = "impls" /\ ifaces' = ifaces
    BY <1>3 DEF FinishInterface, Range
  <2> QED
    BY <2>1, <1>j DEF ImplsQueued
<1>4. ASSUME phase' = "error" \/ (UNCHANGED ifaces /\ phase \notin {"impls", "error"})
      PROVE  ImplsQueued'
  BY <1>4, <1>j DEF ImplsQueued
<1>5. ASSUME NEW t \in Types, AddRoot(t) \/ BuildMapper(t)
      PROVE  UNCHANGED ifaces /\ phase \notin {"impls", "error"}
  BY <1>5 DEF AddRoot, BuildMapper
<1>6. ASSUME Handler, ~BeginInterface, ~AddImplementer, ~FinishInterface
      PROVE  UNCHANGED ifaces /\ phase \notin {"impls", "error"}
  BY <1>6 DEF Handler, SkipDirect, Panic, SkipRendered, DeclineStruct, BeginStruct, Visit,
       FinishStruct, ExtractNamedCompound, ExtractShimmedSupported, Take
<1>7. ASSUME StartExtract \/ StartMappers \/ Finish \/ ExternalError
      PROVE  phase' = "error" \/ (UNCHANGED ifaces /\ phase \notin {"impls", "error"})
  BY <1>7 DEF StartExtract, StartMappers, Finish, ExternalError
<1>8. CASE Halted \/ UNCHANGED vars
  BY <1>8, <1>j DEF Halted, ImplsQueued
<1> QED
  BY <1>1, <1>2, <1>3, <1>4, <1>5, <1>6, <1>7, <1>8 DEF Next

LEMMA MapperTypesStay ==
  ASSUME TypeOK, MapperTypes, [Next]_vars
  PROVE  MapperTypes'
<1> USE DEF ifaceVars, outVars, vars
<1> DEFINE Entry == [iface : Types, types : SUBSET Types, shimmed : SUBSET Types]
           Fits(m) == m.iface \in ifaces /\ m.types \subseteq Range(job.impls[m.iface]) \ job.hidden
<1>j. job' = job /\ ifaces \subseteq ifaces'
  BY Grows, IfacesGrow
<1>t. extraOutput \in [Packages -> Seq(Entry)]
  BY DEF TypeOK
<1>s. SUFFICES ASSUME NEW p \in Packages, NEW m \in Range(extraOutput'[p]) PROVE Fits(m)
  BY <1>j DEF MapperTypes
<1>k. ASSUME m \in Range(extraOutput[p]) PROVE Fits(m)
  BY <1>k DEF MapperTypes
<1>q. ASSUME UNCHANGED extraOutput PROVE Fits(m)
  BY <1>k, <1>q, <1>s
<1>1. ASSUME NEW i \in Types, BuildMapper(i) PROVE Fits(m)
  <2> DEFINE o == inPackages[i][mapped[i] + 1]
  <2>1. i \in ifaces /\ Fits(Mapper(i, o)) /\ Mapper(i, o) \in Entry
    <3>1. job.impls[i] \in Seq(Types)
      BY JobFacts DEF JobTypeOK
    <3>2. Range(job.impls[i]) \subseteq Types
      BY <3>1, RangeOfSeq
    <3> QED
      BY <1>1, <3>2 DEF BuildMapper, Mapper, Mapped
  <2>2. extraOutput' = extraOutput
          \/ extraOutput' = [extraOutput EXCEPT ![o] = Append(@, Mapper(i, o))]
    BY <1>1 DEF BuildMapper
  <2> HIDE DEF o, Fits, Entry
  <2>3. /\ extraOutput[p] \in Seq(Entry)
        /\ extraOutput'[p] = extraOutput[p] \/ extraOutput'[p] = Append(extraOutput[p], Mapper(i, o))
    BY <1>t, <2>2
  <2>4. Range(Append(extraOutput[p], Mapper(i, o))) = Range(extraOutput[p]) \cup {Mapper(i, o)}
    BY <2>1, <2>3, AppendAdds
  <2> QED
    BY <1>k, <1>s, <2>1, <2>3, <2>4
<1>2. ASSUME NEW t \in Types, AddRoot(t) PROVE UNCHANGED extraOutput
  BY <1>2 DEF AddRoot
<1>3. ASSUME Handler PROVE UNCHANGED extraOutput
  BY <1>3 DEF Handler, SkipDirect, Panic, SkipRendered, DeclineStruct, BeginStruct, Visit,
       FinishStruct, ExtractNamedCompound, ExtractShimmedSupported, BeginInterface,
       AddImplementer, FinishInterface
<1>4. ASSUME StartExtract \/ StartMappers \/ Finish \/ ExternalError \/ Halted \/ UNCHANGED vars
      PROVE  UNCHANGED extraOutput
  BY <1>4 DEF StartExtract, StartMappers, Finish, ExternalError, Halted
<1> QED
  BY <1>1, <1>2, <1>3, <1>4, <1>q DEF Next
----------------------------------------------------------------------------
ServedInv ==
  /\ HandledInv /\ RenderedInv /\ SourcedInv
  /\ WalkInv /\ FieldsInv /\ MappedInv
  /\ ImplsQueued /\ MapperTypes

LEMMA ServedInvariant == Spec => []ServedInv
<1>1. Init => ServedInv
  <2> SUFFICES ASSUME Init PROVE ServedInv
    OBVIOUS
  <2>1. /\ seenItems = {} /\ tempRendered = {} /\ cached = {} /\ phase = "roots" /\ ifaces = {}
        /\ \A i \in Types : mapped[i] = 0 /\ inPackages[i] = <<>>
        /\ \A p \in Packages : extraOutput[p] = <<>> /\ tempOutput[p] = <<>>
    BY DEF Init, NewTypeQueue, NewDirectivesCache
  <2>2. HandledInv /\ RenderedInv /\ SourcedInv /\ WalkInv /\ ImplsQueued
    BY <2>1 DEF HandledInv, RenderedInv, SourcedInv, WalkInv, ImplsQueued
  <2>3. FieldsInv
    <3>1. ASSUME NEW t \in Types PROVE ~Defined(t)
      <4>1. Home(t) \in Packages
        BY JobsAssumption DEF Init, JobTypeOK, Home
      <4> QED
        BY <2>1, <4>1 DEF Defined, Range
    <3> QED
      BY <3>1 DEF FieldsInv
  <2>4. MappedInv
    BY <2>1 DEF MappedInv
  <2>5. MapperTypes
    BY <2>1 DEF MapperTypes, Range
  <2> QED
    BY <2>2, <2>3, <2>4, <2>5 DEF ServedInv
<1>2. TypeOK /\ QueueInv /\ WrittenInv /\ ServedInv /\ [Next]_vars => ServedInv'
  BY HandledStays, RenderedStays, SourcedStays, WalkStays, FieldsStay, MappedStays,
     ImplsStayQueued, MapperTypesStay DEF ServedInv
<1> QED
  BY <1>1, <1>2, TypeCorrect, MapperInvariant, WrittenInvariant, PTL DEF Spec

\* When the mappers are done, every use that was ever queued is answered.
LEMMA AllAnsweredAtEnd ==
  ASSUME TypeOK, QueueInv, ServedInv, phase = "done", NEW x \in seenItems
  PROVE  x \in TypeQueueItem /\ Answered(x)
<1>1. Range(contents) = {}
  BY DEF QueueInv, Status, Range
<1> QED
  BY <1>1 DEF ServedInv, HandledInv, Live, TypeOK

\* At the end of a successful extraction, whatever the program, each written
\* struct finds all it needs in the package it is written to, but for what was
\* skipped because tempRendered had the key from another type.
THEOREM EveryUseAlwaysServed == Spec => []EveryUseServed
<1>1. TypeOK /\ QueueInv /\ ServedInv => EveryUseServed
  <2> SUFFICES ASSUME TypeOK, QueueInv, ServedInv, phase = "done",
                      NEW t \in Types, job.kind[t] = "struct", Defined(t),
                      NEW r \in FieldTypes(t),
                      ~KeyShared(Item(Home(t), r))
               PROVE  Served(Home(t), r)
    BY DEF EveryUseServed
  <2> DEFINE p == Home(t)
  <2>1. p \in Packages /\ r \in Types /\ job.kind[r] \in Kinds
    BY JobFacts DEF JobTypeOK, Home, FieldTypes, Reached
  <2>2. Item(p, r) \in seenItems
    BY FieldTypesAreUses DEF ServedInv, FieldsInv, FieldsSeen
  <2>3. Cared(p, r)
    <3>1. Item(p, r).origin = p /\ Item(p, r).type = r
      BY DEF Item
    <3> QED
      BY <2>2, <3>1, AllAnsweredAtEnd DEF Answered
  <2>4. ASSUME job.kind[r] = "interface"
        PROVE  \E n \in DOMAIN extraOutput[p] : extraOutput[p][n].iface = r
    <3>1. r \in ifaces /\ p \in Range(inPackages[r]) /\ mapped[r] = Len(inPackages[r])
      BY <2>3, <2>4 DEF Cared, ServedInv, MappedInv
    <3>2. inPackages[r] \in Seq(Packages)
      BY <2>1 DEF TypeOK
    <3>3. PICK n \in 1..mapped[r] : inPackages[r][n] = p
      BY <3>1, <3>2, RangeOfSeq
    <3> QED
      BY <2>1, <3>3 DEF ServedInv, MappedInv
  <2> HIDE DEF p
  <2>5. job.kind[r] = "shimmable" => Declares(directives[p], "shim", r)
    BY <2>3 DEF Cared, Declares, Generated
  <2>6. Served(p, r)
    BY <2>1, <2>3, <2>4, <2>5 DEF Served, Cared, Kinds
  <2> QED
    BY <2>6 DEF p
<1> QED
  BY <1>1, TypeCorrect, MapperInvariant, ServedInvariant, PTL

\* ... and so does each mapper for the structs and compounds of its switch,
\* although they were queued for the first package with the interface only;
\* again but for those whose key was another type's.
THEOREM EveryImplementerAlwaysServed == Spec => []EveryImplementerServed
<1>1. TypeOK /\ QueueInv /\ ServedInv => EveryImplementerServed
  <2> SUFFICES ASSUME TypeOK, QueueInv, ServedInv, phase = "done",
                      NEW p \in Packages, NEW m \in Range(extraOutput[p]),
                      NEW t \in m.types, job.kind[t] \in {"struct", "compound"},
                      ~KeyShared(Item(p, t))
               PROVE  Served(p, t)
    BY DEF EveryImplementerServed
  <2>1. m.iface \in ifaces /\ t \in Range(job.impls[m.iface]) \ job.hidden
    BY DEF ServedInv, MapperTypes
  <2>2. PICK o \in Packages : Item(o, t) \in seenItems
    BY <2>1 DEF ServedInv, ImplsQueued, Queued
  <2>3. Cared(o, t)
    <3>1. /\ Item(o, t).origin = o /\ Item(o, t).type = t /\ Item(p, t).type = t
          /\ RenderKey(Item(o, t)) = RenderKey(Item(p, t))
      BY DEF Item, RenderKey
    <3>2. ~KeyShared(Item(o, t))
      BY <3>1 DEF KeyShared
    <3> QED
      BY <2>2, <3>1, <3>2, AllAnsweredAtEnd DEF Answered
  <2> QED
    BY <2>3 DEF Cared, Served
<1> QED
  BY <1>1, TypeCorrect, MapperInvariant, ServedInvariant, PTL
----------------------------------------------------------------------------
(***************************************************************************)
(* The file a mapper is appended to.  A package gets a mapper because it   *)
(* refers to an interface.  The first time it does so, it is the package   *)
(* of a struct whose walk is running and which is then written to it; an   *)
(* implementer is queued for a package that refers to an interface already.*)
(* msgp makes a file from that struct unless it does not look at it.       *)
(***************************************************************************)
HasUser(p) == \E t \in Range(tempOutput[p]) : UsesInterface(t)

\* The package p refers to an interface.
Refers(p) == \E x \in seenItems : IsInterface(x.type) /\ x.origin = p

ReferrersHaveStruct ==
  phase \notin {"error", "panic"} =>
    \A p \in Packages :
      Refers(p) => HasUser(p) \/ (phase = "walk" /\ p = Home(cur.type) /\ UsesInterface(cur.type))

\* A walk visits nothing but what the struct uses.
TodoUsed == phase = "walk" => Range(todo) \subseteq Uses(cur.type)

InPackagesRefer == \A i \in Types : \A p \in Range(inPackages[i]) : Refers(p)

ExtraRefers == \A p \in Packages : extraOutput[p] # <<>> => Refers(p)

FileInv == ReferrersHaveStruct /\ TodoUsed /\ InPackagesRefer /\ ExtraRefers

\* Neither what a struct uses nor whether it has a field of an interface changes.
LEMMA UsesStay ==
  ASSUME job' = job
  PROVE  \A t : Uses(t)' = Uses(t) /\ UsesInterface(t)' = UsesInterface(t)
<1>1. \A t : Uses(t)' = Uses(t)
  BY DEF Uses, Walked, WalksThrough
<1>2. \A t : UsesInterface(t)' = UsesInterface(t)
  BY DEF UsesInterface, FieldTypes, Reached, LooksThrough
<1> QED
  BY <1>1, <1>2

\* An interface that a walk visits is a field of the struct: beside the fields
\* the walk visits only the byte of a []byte.
LEMMA InterfaceUsedIsField ==
  ASSUME TypeOK, NEW t \in Types, NEW i \in Uses(t), job.kind[i] = "interface"
  PROVE  i \in FieldTypes(t)
<1>1. job.refs \in [Types -> Seq(Types)]
  BY JobFacts DEF JobTypeOK
<1>2. \A c \in Types : Range(job.refs[c]) \subseteq Types
  BY <1>1, RangeOfSeq
<1> SUFFICES ASSUME NEW S \in SUBSET Types, Range(job.refs[t]) \subseteq S, LooksThrough(S)
             PROVE  i \in S
  BY DEF FieldTypes, Reached, Uses, Walked
<1> DEFINE W == S \cup {r \in Types : job.kind[r] = "direct"}
<1>3. WalksThrough(W)
  <2> SUFFICES ASSUME NEW c \in W, job.kind[c] \in {"compound", "shimmable"},
                      NEW r \in Range(job.refs[c])
               PROVE  r \in W
    BY DEF WalksThrough
  <2>1. c \in S /\ c \in Types /\ r \in Types
    BY <1>2
  <2>2. CASE job.kind[c] = "compound"
    BY <2>1, <2>2 DEF LooksThrough
  <2>3. CASE job.kind[c] = "shimmable"
    <3>1. job.kind[r] = "direct"
      BY <2>1, <2>3, JobFacts DEF WellFormed
    <3> QED
      BY <2>1, <3>1
  <2> QED
    BY <2>2, <2>3
<1>4. Range(job.refs[t]) \subseteq W /\ W \in SUBSET Types
  OBVIOUS
<1> HIDE DEF W
<1>5. i \in W
  BY <1>3, <1>4 DEF Uses, Walked
<1> QED
  BY <1>5 DEF W

\* What is written stays, what is referred to stays so.
LEMMA OutputGrows ==
  ASSUME TypeOK, [Next]_vars
  PROVE  \A p \in Packages : /\ HasUser(p) => HasUser(p)'
                             /\ Refers(p) => Refers(p)'
<1> USE DEF queueVars, outVars, vars
<1>j. job' = job
  BY Grows
<1>1. seenItems \subseteq seenItems'
  BY QueueSteps DEF QueueKept, QueueEmptied, QueueAdded, QueueTaken, Add, Dequeue
<1>2. ASSUME NEW p \in Packages PROVE Range(tempOutput[p]) \subseteq Range(tempOutput'[p])
  <2>t. tempOutput \in [Packages -> Seq(Types)]
    BY DEF TypeOK
  <2>a. ASSUME NEW q, NEW t \in Types, tempOutput' = [tempOutput EXCEPT ![q] = Append(@, t)]
        PROVE  Range(tempOutput[p]) \subseteq Range(tempOutput'[p])
    <3>1. /\ tempOutput[p] \in Seq(Types)
          /\ tempOutput'[p] \in {tempOutput[p], Append(tempOutput[p], t)}
      BY <2>t, <2>a
    <3>2. Range(Append(tempOutput[p], t)) = Range(tempOutput[p]) \cup {t}
      BY <3>1, AppendAdds
    <3> QED
      BY <3>1, <3>2
  <2>1. CASE FinishStruct \/ FinishInterface
    <3>1. cur.type \in Types
      BY <2>1 DEF FinishStruct, FinishInterface, TypeOK, TypeQueueItem
    <3> QED
      BY <2>1, <2>a, <3>1 DEF FinishStruct, FinishInterface
  <2>2. CASE ExtractNamedCompound \/ ExtractShimmedSupported
    <3>1. Head(contents).type \in Types
      BY <2>2, HeadTyped DEF ExtractNamedCompound, ExtractShimmedSupported, Take, Dequeue
    <3> QED
      BY <2>2, <2>a, <3>1 DEF ExtractNamedCompound, ExtractShimmedSupported
  <2>3. ASSUME NEW t \in Types, AddRoot(t) \/ BuildMapper(t) PROVE tempOutput' = tempOutput
    BY <2>3 DEF AddRoot, BuildMapper
  <2>4. ASSUME SkipDirect \/ Panic \/ SkipRendered \/ DeclineStruct \/ BeginStruct \/ Visit
               \/ BeginInterface \/ AddImplementer
        PROVE  tempOutput' = tempOutput
    BY <2>4 DEF SkipDirect, Panic, SkipRendered, DeclineStruct, BeginStruct, Visit,
         BeginInterface, AddImplementer
  <2>5. ASSUME StartExtract \/ StartMappers \/ Finish \/ ExternalError \/ Halted
               \/ UNCHANGED vars
        PROVE  tempOutput' = tempOutput
    BY <2>5 DEF StartExtract, StartMappers, Finish, ExternalError, Halted
  <2> QED
    BY <2>1, <2>2, <2>3, <2>4, <2>5 DEF Next, Handler
<1> QED
  BY <1>j, <1>1, <1>2, UsesStay DEF HasUser, Refers, IsInterface

LEMMA ReferrersKeepStruct ==
  ASSUME TypeOK, WrittenInv, MapperInv, FileInv, [Next]_vars
  PROVE  ReferrersHaveStruct'
<1> USE DEF queueVars, loopVars, vars, WrittenInv, FileInv
<1>j. /\ job' = job
      /\ \A t : IsInterface(t)' = IsInterface(t) /\ Home(t)' = Home(t)
  BY Grows DEF IsInterface, Home
<1> SUFFICES ASSUME phase' \notin {"error", "panic"}, NEW p \in Packages, Refers(p)'
             PROVE  \/ HasUser(p)'
                    \/ phase' = "walk" /\ p = Home(cur'.type) /\ UsesInterface(cur'.type)
  <2>1. \A c : UsesInterface(c)' = UsesInterface(c)
    BY <1>j, UsesStay
  <2>2. ReferrersHaveStruct' <=>
          (phase' \notin {"error", "panic"} =>
             \A q \in Packages :
               Refers(q)' =>
                 \/ HasUser(q)'
                 \/ phase' = "walk" /\ q = Home(cur'.type) /\ UsesInterface(cur'.type))
    BY <1>j, <2>1 DEF ReferrersHaveStruct
  <2> QED
    BY <2>2
<1>h. HasUser(p) => HasUser(p)'
  BY OutputGrows
<1>a. ASSUME NEW x, Add(x), ~(IsInterface(x.type) /\ x.origin = p) PROVE Refers(p)
  BY <1>j, <1>a DEF Refers, Add
<1>k. ASSUME UNCHANGED seenItems PROVE Refers(p)
  BY <1>j, <1>k DEF Refers
<1>1. CASE Visit
  <2>1. phase = "walk" /\ phase' = "walk" /\ cur' = cur
        /\ Add(Item(Home(cur.type), Head(todo)))
    BY <1>1 DEF Visit
  <2>2. CASE p # Home(cur.type) \/ ~IsInterface(Head(todo))
    BY <1>a, <1>h, <2>1, <2>2 DEF ReferrersHaveStruct, Item
  <2>3. CASE p = Home(cur.type) /\ IsInterface(Head(todo))
    <3>1. cur.type \in Types /\ job.kind[cur.type] = "struct"
      BY <2>1 DEF HandlerInv, TypeOK, TypeQueueItem
    <3>2. todo \in Seq(Types) /\ todo # <<>>
      BY <1>1 DEF Visit, TypeOK
    <3>3. Head(todo) \in Range(todo)
      <4>1. 1 \in 1..Len(todo) /\ Head(todo) = todo[1]
        BY <3>2
      <4> QED
        BY <3>2, <4>1, RangeOfSeq
    <3>4. Head(todo) \in FieldTypes(cur.type)
      BY <2>1, <2>3, <3>1, <3>3, InterfaceUsedIsField DEF TodoUsed, IsInterface
    <3> QED
      BY <2>1, <2>3, <3>1, <3>4 DEF UsesInterface, IsInterface
  <2> QED
    BY <2>2, <2>3
<1>2. CASE FinishStruct
  <2> DEFINE t == cur.type
             h == Home(t)
  <2>1. /\ phase = "walk" /\ t \in Types /\ job.kind[t] = "struct" /\ UNCHANGED seenItems
        /\ tempOutput' = [tempOutput EXCEPT ![h] = Append(@, t)]
    BY <1>2 DEF FinishStruct, HandlerInv, TypeOK, TypeQueueItem
  <2>2. CASE p = h /\ UsesInterface(t)
    <3>1. tempOutput[p] \in Seq(Types) /\ tempOutput'[p] = Append(tempOutput[p], t)
      BY <2>1, <2>2 DEF TypeOK
    <3>2. t \in Range(tempOutput'[p])
      BY <2>1, <3>1, AppendAdds
    <3> QED
      BY <1>j, <2>2, <3>2, UsesStay DEF HasUser
  <2>3. CASE p # h \/ ~UsesInterface(t)
    BY <1>h, <1>k, <2>1, <2>3 DEF ReferrersHaveStruct
  <2> QED
    BY <2>2, <2>3
<1>3. CASE AddImplementer
  <2>1. phase = "impls" /\ cur \in seenItems /\ IsInterface(cur.type)
    BY <1>3 DEF AddImplementer, MapperInv, LoopInv
  <2>2. UNCHANGED queueVars \/ Add(Item(cur.origin, Head(todo)))
    BY <1>3 DEF AddImplementer
  <2>3. Refers(p)
    BY <1>a, <1>k, <2>1, <2>2 DEF Item, Refers
  <2> QED
    BY <1>h, <2>1, <2>3 DEF ReferrersHaveStruct
<1>4. ASSUME NEW t \in Types, AddRoot(t)
      PROVE  HasUser(p)'
  <2>1. ~IsInterface(t) /\ phase = "roots"
    BY <1>4, JobFacts DEF AddRoot, MapperInv, RootsInv, WellFormed, IsInterface
  <2>2. Refers(p)
    BY <1>4, <1>a, <1>k, <2>1 DEF AddRoot, Item
  <2> QED
    BY <1>h, <2>1, <2>2 DEF ReferrersHaveStruct
<1>5. ASSUME UNCHANGED seenItems, phase \notin {"walk", "error", "panic"}
      PROVE  HasUser(p)'
  BY <1>5, <1>h, <1>k DEF ReferrersHaveStruct
<1>6. ASSUME NEW t \in Types, BuildMapper(t)
      PROVE  UNCHANGED seenItems /\ phase \notin {"walk", "error", "panic"}
  BY <1>6 DEF BuildMapper
<1>7. ASSUME Handler, ~Visit, ~FinishStruct, ~AddImplementer
      PROVE  UNCHANGED seenItems /\ phase \notin {"walk", "error", "panic"}
  BY <1>7 DEF Handler, SkipDirect, Panic, SkipRendered, DeclineStruct, BeginStruct,
       ExtractNamedCompound, ExtractShimmedSupported, BeginInterface, FinishInterface,
       Take, Dequeue
<1>8. ASSUME StartExtract \/ StartMappers \/ Finish \/ ExternalError
      PROVE  UNCHANGED seenItems /\ phase \notin {"walk", "error", "panic"}
  BY <1>8 DEF StartExtract, StartMappers, Finish, ExternalError
<1>9. CASE Halted \/ UNCHANGED vars
  BY <1>9, <1>h, <1>k DEF Halted, ReferrersHaveStruct
<1> QED
  BY <1>1, <1>2, <1>3, <1>4, <1>5, <1>6, <1>7, <1>8, <1>9 DEF Next

\* A turn of the walk goes on with what the visited type refers to.
LEMMA TodoStaysUsed ==
  ASSUME TypeOK, TodoUsed, [Next]_vars
  PROVE  TodoUsed'
<1> USE DEF loopVars, vars
<1>j. job' = job /\ \A t : Uses(t)' = Uses(t)
  BY Grows, UsesStay
<1>r. job.refs \in [Types -> Seq(Types)] /\ \A c \in Types : Range(job.refs[c]) \in SUBSET Types
  <2>1. job.refs \in [Types -> Seq(Types)]
    BY JobFacts DEF JobTypeOK
  <2> QED
    BY <2>1, RangeOfSeq
<1> SUFFICES ASSUME phase' = "walk", NEW c, c = cur'.type
             PROVE  Range(todo') \subseteq Uses(c)
  BY <1>j DEF TodoUsed
<1>1. CASE BeginStruct
  <2>1. c \in Types /\ todo' = job.refs[c]
    BY <1>1, HeadTyped DEF BeginStruct, Take, Dequeue
  <2> QED
    BY <1>r, <2>1, WalkedHasAll DEF Uses
<1>2. CASE Visit
  <2>h. PICK h : h = Head(todo)
    OBVIOUS
  <2>1. /\ c \in Types /\ Range(todo) \subseteq Uses(c)
        /\ todo \in Seq(Types) /\ todo # <<>> /\ h \in Types /\ Tail(todo) \in Seq(Types)
    BY <1>2, <2>h DEF Visit, TodoUsed, TypeOK, TypeQueueItem
  <2>2. h \in Uses(c) /\ Range(Tail(todo)) \subseteq Uses(c)
    <3>1. 1 \in 1..Len(todo) /\ h = todo[1]
      BY <2>h, <2>1
    <3>2. h \in Range(todo)
      BY <2>1, <3>1, RangeOfSeq
    <3>3. ASSUME NEW n \in 1..Len(Tail(todo)) PROVE Tail(todo)[n] \in Range(todo)
      <4>1. n + 1 \in 1..Len(todo) /\ Tail(todo)[n] = todo[n + 1]
        BY <2>1
      <4> QED
        BY <2>1, <4>1, RangeOfSeq
    <3>4. ASSUME NEW x \in Range(Tail(todo)) PROVE x \in Range(todo)
      <4>1. PICK n \in 1..Len(Tail(todo)) : x = Tail(todo)[n]
        BY <2>1, RangeOfSeq
      <4> QED
        BY <3>3, <4>1
    <3> QED
      BY <2>1, <3>2, <3>4
  <2>3. WalksThrough(Uses(c))
    BY <1>r, <2>1, WalkedIsClosed DEF Uses
  <2>4. CASE job.kind[h] \in {"compound", "shimmable"}
    <3>1. todo' = job.refs[h] \o Tail(todo) /\ job.refs[h] \in Seq(Types)
      BY <1>2, <1>r, <2>h, <2>1, <2>4 DEF Visit
    <3>2. Range(job.refs[h]) \subseteq Uses(c)
      BY <2>2, <2>3, <2>4 DEF WalksThrough
    <3>3. ASSUME NEW x \in Range(todo') PROVE x \in Range(job.refs[h]) \cup Range(Tail(todo))
      <4>1. /\ todo' \in Seq(Types)
            /\ Len(todo') = Len(job.refs[h]) + Len(Tail(todo))
        BY <2>1, <3>1
      <4>2. PICK n \in 1..Len(todo') : x = todo'[n]
        BY <4>1, RangeOfSeq
      <4>3. CASE n <= Len(job.refs[h])
        <5>1. n \in 1..Len(job.refs[h]) /\ x = job.refs[h][n]
          BY <2>1, <3>1, <4>2, <4>3
        <5> QED
          BY <3>1, <5>1, RangeOfSeq
      <4>4. CASE n > Len(job.refs[h])
        <5>1. /\ n - Len(job.refs[h]) \in 1..Len(Tail(todo))
              /\ x = Tail(todo)[n - Len(job.refs[h])]
          BY <2>1, <3>1, <4>1, <4>2, <4>4
        <5> QED
          BY <2>1, <5>1, RangeOfSeq
      <4>5. Len(job.refs[h]) \in Nat /\ n \in Nat
        BY <3>1, <4>1, <4>2
      <4> QED
        BY <4>3, <4>4, <4>5
    <3> QED
      BY <2>2, <3>2, <3>3
  <2>5. CASE job.kind[h] \notin {"compound", "shimmable"}
    BY <1>2, <2>h, <2>2, <2>5 DEF Visit
  <2> QED
    BY <2>4, <2>5
<1>3. CASE Halted \/ UNCHANGED vars
  BY <1>3 DEF Halted, TodoUsed
<1>4. ASSUME NEW t \in Types, AddRoot(t) \/ BuildMapper(t) PROVE FALSE
  BY <1>4 DEF AddRoot, BuildMapper
<1>5. ASSUME Handler, ~BeginStruct, ~Visit PROVE FALSE
  BY <1>5 DEF Handler, SkipDirect, Panic, SkipRendered, DeclineStruct, FinishStruct,
     ExtractNamedCompound, ExtractShimmedSupported, BeginInterface, AddImplementer,
     FinishInterface, Take
<1>6. ASSUME StartExtract \/ StartMappers \/ Finish \/ ExternalError PROVE FALSE
  BY <1>6 DEF StartExtract, StartMappers, Finish, ExternalError
<1> QED
  BY <1>1, <1>2, <1>3, <1>4, <1>5, <1>6 DEF Next

LEMMA InPackagesStillRefer ==
  ASSUME TypeOK, MapperInv, FileInv, [Next]_vars
  PROVE  InPackagesRefer'
<1> USE DEF ifaceVars, vars, FileInv
<1>g. ASSUME NEW p \in Packages, Refers(p) PROVE Refers(p)'
  BY <1>g, OutputGrows
<1>t. inPackages \in [Types -> Seq(Packages)]
  BY DEF TypeOK
<1>k. ASSUME UNCHANGED inPackages PROVE InPackagesRefer'
  <2> SUFFICES ASSUME NEW i \in Types, NEW p \in Range(inPackages[i]) PROVE Refers(p)'
    BY <1>k DEF InPackagesRefer
  <2>1. p \in Packages /\ Refers(p)
    BY <1>t DEF InPackagesRefer, Range
  <2> QED
    BY <1>g, <2>1
<1>1. CASE FinishInterface
  <2>1. /\ cur.origin \in Packages /\ cur.type \in Types /\ Refers(cur.origin)
        /\ inPackages' = [inPackages EXCEPT ![cur.type] = Append(@, cur.origin)]
    BY <1>1 DEF FinishInterface, TypeOK, TypeQueueItem, MapperInv, LoopInv, Refers
  <2> SUFFICES ASSUME NEW i \in Types, NEW p \in Range(inPackages'[i]) PROVE Refers(p)'
    BY DEF InPackagesRefer
  <2>2. inPackages[i] \in Seq(Packages)
        /\ inPackages'[i] \in {inPackages[i], Append(inPackages[i], cur.origin)}
    BY <1>t, <2>1
  <2>3. p \in Range(inPackages[i]) \/ p = cur.origin
    BY <2>1, <2>2, AppendAdds
  <2>4. p \in Packages /\ Refers(p)
    BY <2>1, <2>2, <2>3 DEF InPackagesRefer, Range
  <2> QED
    BY <1>g, <2>4
<1>2. ASSUME NEW t \in Types, AddRoot(t) \/ BuildMapper(t) PROVE UNCHANGED inPackages
  BY <1>2 DEF AddRoot, BuildMapper
<1>3. ASSUME Handler, ~FinishInterface PROVE UNCHANGED inPackages
  BY <1>3 DEF Handler, SkipDirect, Panic, SkipRendered, DeclineStruct, BeginStruct, Visit,
       FinishStruct, ExtractNamedCompound, ExtractShimmedSupported, BeginInterface,
       AddImplementer
<1>4. ASSUME StartExtract \/ StartMappers \/ Finish \/ ExternalError \/ Halted \/ UNCHANGED vars
      PROVE  UNCHANGED inPackages
  BY <1>4 DEF StartExtract, StartMappers, Finish, ExternalError, Halted
<1> QED
  BY <1>1, <1>2, <1>3, <1>4, <1>k DEF Next

LEMMA ExtraStillRefers ==
  ASSUME TypeOK, FileInv, [Next]_vars
  PROVE  ExtraRefers'
<1> USE DEF outVars, vars, FileInv
<1>g. ASSUME NEW p \in Packages, Refers(p) PROVE Refers(p)'
  BY <1>g, OutputGrows
<1>k. ASSUME UNCHANGED extraOutput PROVE ExtraRefers'
  BY <1>g, <1>k DEF ExtraRefers
<1>1. ASSUME NEW i \in Types, BuildMapper(i) PROVE ExtraRefers'
  <2> DEFINE p == inPackages[i][mapped[i] + 1]
  <2>1. p \in Range(inPackages[i]) /\ p \in Packages
    <3>1. inPackages[i] \in Seq(Packages) /\ mapped[i] \in Nat /\ mapped[i] < Len(inPackages[i])
      BY <1>1 DEF BuildMapper, TypeOK
    <3>2. mapped[i] + 1 \in DOMAIN inPackages[i]
      BY <3>1
    <3> QED
      BY <3>1, <3>2 DEF Range
  <2>2. Refers(p)
    BY <2>1 DEF InPackagesRefer
  <2>3. \A q \in Packages : q # p => extraOutput'[q] = extraOutput[q]
    BY <1>1 DEF BuildMapper, TypeOK
  <2> QED
    BY <1>g, <2>1, <2>2, <2>3 DEF ExtraRefers
<1>2. ASSUME NEW t \in Types, AddRoot(t) PROVE UNCHANGED extraOutput
  BY <1>2 DEF AddRoot
<1>3. ASSUME Handler PROVE UNCHANGED extraOutput
  BY <1>3 DEF Handler, SkipDirect, Panic, SkipRendered, DeclineStruct, BeginStruct, Visit,
       FinishStruct, ExtractNamedCompound, ExtractShimmedSupported, BeginInterface,
       AddImplementer, FinishInterface
<1>4. ASSUME StartExtract \/ StartMappers \/ Finish \/ ExternalError \/ Halted \/ UNCHANGED vars
      PROVE  UNCHANGED extraOutput
  BY <1>4 DEF StartExtract, StartMappers, Finish, ExternalError, Halted
<1> QED
  BY <1>1, <1>2, <1>3, <1>4, <1>k DEF Next

\* Where Generate appends a mapper, msgp has had a struct to write a file for,
\* if it looks at the structs of the package that use interfaces.
THEOREM MapperNeverLost == Spec => []MapperNotLost
<1>1. Init => FileInv
  <2> SUFFICES ASSUME Init PROVE FileInv
    OBVIOUS
  <2>1. seenItems = {} /\ \A p \in Packages : extraOutput[p] = <<>>
    BY DEF Init, NewTypeQueue
  <2>2. ASSUME NEW i \in Types PROVE Range(inPackages[i]) = {}
    <3>1. inPackages[i] = <<>>
      BY DEF Init
    <3> QED
      BY <3>1 DEF Range
  <2> QED
    BY <2>1, <2>2 DEF Init, FileInv, ReferrersHaveStruct, TodoUsed, InPackagesRefer, ExtraRefers, Refers
<1>2. TypeOK /\ WrittenInv /\ MapperInv /\ FileInv /\ [Next]_vars => FileInv'
  BY ReferrersKeepStruct, TodoStaysUsed, InPackagesStillRefer, ExtraStillRefers DEF FileInv
<1>3. TypeOK /\ WrittenInv /\ FileInv => MapperNotLost
  <2> SUFFICES ASSUME TypeOK, WrittenInv, FileInv, phase = "done",
                      NEW p \in Packages, extraOutput[p] # <<>>,
                      \A t \in Types : Home(t) = p /\ UsesInterface(t) => MsgpSees(t)
               PROVE  \E t \in Range(tempOutput[p]) : job.kind[t] = "struct" /\ MsgpSees(t)
    BY DEF MapperNotLost
  <2>1. PICK t \in Range(tempOutput[p]) : UsesInterface(t)
    BY DEF FileInv, ReferrersHaveStruct, ExtraRefers, HasUser
  <2>2. t \in Types /\ Home(t) = p
    <3>1. tempOutput[p] \in Seq(Types)
      BY DEF TypeOK
    <3>2. PICK n \in 1..Len(tempOutput[p]) : t = tempOutput[p][n]
      BY <3>1, RangeOfSeq
    <3> QED
      BY <3>1, <3>2 DEF WrittenInv, OutputInv
  <2> QED
    BY <2>1, <2>2 DEF UsesInterface
<1> QED
  BY <1>1, <1>2, <1>3, TypeCorrect, WrittenInvariant, MapperInvariant, PTL DEF Spec
=============================================================================
