# A verification of msgpgen in TLA+

`msgpgen` wraps the code generator of `tinylib/msgp`. From a set of root types
it finds every type their messages can contain, across packages; writes the
definitions it found into a temporary file in each package, together with
`//msgp:` directives that shim primitives and intercept interfaces; runs msgp on
each of these files; appends a *mapper* for each interface, which puts the ID of
the concrete type in front of the message; and moves the results into place. The
IDs are kept in a state file, since they are part of the wire format.

This directory models that program, checks the models with TLC and proves the
central properties of the core with TLAPS.

## Inventory

The program is one goroutine (two helpers copy the output of msgp, and
`captureStdio` is written for several callers). What makes it hard is mostly not
concurrency but *order*: a queue that grows while it is drained,
handlers that depend on what earlier handlers left in shared maps, files that
are moved and removed by code far apart, and a state file that promises
something to every later run.

| Component | Source | State | Operations | What makes it correct |
|---|---|---|---|---|
| type extraction | `extractor.go`, `structwalker.go` | `tempRendered`, `tempOutput`, `extraOutput`, `ifaces` | `extract` and its four handlers, the visitor | everything a written type needs is written, shimmed or ignored; once; in the right package |
| type queue | `typequeue.go` | `contents`, `seenItems`, `seenTypes` | `Add`, `Dequeue` | each (origin, type) pair is handled exactly once |
| directives | `directives.go` | per package: a list, and maps by type | `Ensure`, `add`, `Ignored` | the directives of the right package decide |
| directive syntax | `directive.go` | none | `ParseDirective`, `Build` | what is built parses to the same thing |
| ID registry | `state.go` | `Types`, `NextID`, the file | `Init`, `EnsureType`, load, save | one ID per type and one type per ID, for ever |
| mappers | `intercept.go` | a stream of messages | `genIntercept`; `EncodeMsg`, `MarshalMsg`, `DecodeMsg`, `UnmarshalMsg` of its template | the switch has every implementer, with its ID and shim; what one end writes the other reads |
| generation | `generate.go`, `msgp.go`, `temp.go` | `files`, the clean-up stack, the disk | the loop over packages, the moves, `Cleanup` | all or nothing ready before a move, nothing temporary left |
| stdio capture | `stdio.go` | `os.Stdout`, `os.Stderr`, two pipes, a lock | `captureStdio` | restored when a call ends, nothing lost, nobody waits for ever |
| driver | `msgpgen/main.go` | the state in memory | `gen` | IDs in published code are saved; a run on the same sources changes nothing |
| root search | `msgpcmd/cmd.go` | the candidates so far | `FindIfaces`, `GoList` | the implementers of each interface, and nothing else |
| helpers | `util.go`, `log.go` | none | string helpers, an unused interface | |

How they interact: `main.gen` loads the state, chooses the roots and calls
`Generate`, which fills the queue and calls `extract`. `extract` takes types
from the queue; its handlers read and extend the shared directives cache, add
to the queue (through the visitor for the fields of a struct, directly for the
implementers of an interface), give IDs, and append to the outputs of packages.
When the queue is empty it builds the mappers from what the handlers left.
`Generate` then writes, runs msgp, appends, moves, and its deferred `Cleanup`
removes. Only then does `gen` save the state.

The hazards of each component, with the line where each bites and the properties
that watch over it, are listed in `PROJECT.json`.

## Modules

| Module | Models | Extends / composes |
|---|---|---|
| `Names` | type names and packages | |
| `Job` | the input of a run: the Go program, the directives in its sources, the state file, the roots | `Names` |
| `TypeQueue` | `typequeue.go` | `Names` |
| `Directives` | `directives.go` | `Names` |
| `State` | `State.Init` and `EnsureType` | `Names` |
| `Worklist` | *abstract*: what a queue of work promises | |
| `Extractor` | `Generate` up to `extract`, `extractor.go`, `structwalker.go`, the choices of `genIntercept` | `Job`, `TypeQueue`, `Directives`, `State`; `INSTANCE Worklist` |
| `Generate` | `generate.go` from line 82, `runMsgp`, `Cleanup`, over several runs | |
| `StateFile` | `main.gen`, load and save, over several runs with kills | `State` |
| `Driver` | `main.gen` with `FindIfaces`, over successive runs, each with its extraction | `Extractor` |
| `DirectiveSyntax` | `directive.go`; `findImportedName` of `util.go` | |
| `Directing` | one package's directives: loaded, added to, built, and the warnings of msgp judged by `checkMsgpOutput` | `DirectiveSyntax` |
| `Mapper` | the methods that the template of `intercept.go` generates, at both ends of a stream | |
| `CaptureStdio` | `stdio.go` and the goroutines around it | |
| `ExtractorProofs` | theorems about `Extractor`: types, IDs, the queue, the mapper loop | `Extractor` |
| `OutputProofs` | theorems about what `Extractor` writes and what the uses of a type find | `ExtractorProofs` |
| `DriverProofs` | theorems about `Driver`, and what an extraction writes as a function of its roots | `Driver`, `OutputProofs` |
| `GenerateProofs`, `StateFileProofs`, `CaptureStdioProofs`, `MapperProofs`, `DirectingProofs` | theorems about the module of that name | that module |
| `MCExtractor`, `MCGenerate`, `MCStateFile`, `MCDriver`, `MCDirecting`, `MCMapper`, `MCCaptureStdio` | instances for TLC | |

**Extractor.** A behaviour is one call of `extract`. The variable `job` holds the
input and never changes, so that TLC ranges over a family of programs and the
proofs over all of them; `Kinds` are the branches of the dispatch. `phase` says
which loop is running: `roots` (Generate queues the roots), `extract` (the
queue), `walk` (the fields of `cur.type`, left in `todo`), `impls` (the
implementers of `cur.type`), `mappers`. A handler without a loop is one action;
one with a loop is a `Begin`, a turn, and a `Finish`. Code that is cut by a loop
is the only code that is cut: the program has one goroutine. `TypeQueue.Add` is
called inside these actions as an operator on `contents` and `seenItems`, as are
`EnsureType` and `Ensure`. The order of Go maps (roots, interfaces) is left open. The
walk of `structer` is external: `job.refs[t]` is the list of types it visits.
`tempRendered` holds texts: the name `<<t>>` of a type, or the text `job.joined` for
a package joined with a shimmed type, which may be the name of another type, as in
the code (`x/time.Duration`). `job.private` are the types that are not exported and
`job.Unexported` is the flag that makes msgp look at them.

**Generate.** A file is what a reader can tell apart: the version of the sources
it was made from and how many mappers it lacks, or has twice. `files`, `stack` and `tempKeys`
are those of the code. The stack holds paths as pairs; `<<"test", p>>` is the
destination of the test file, as in the code, not its temporary copy. `Fail` is
any error of msgp, of its output's check or of the file system; `Crash` is a kill.
`CleanupFails` is a removal that fails, which may leave a directory with some of its
files and makes the run one that has failed. A package may have a mapper and
nothing that msgp finds a type in (`Sources`): appending to the file that is not
there is the result `panic`. `leftover` says that a kill or a failed removal has
left something since the last success. `Edit` changes the sources between runs.

**StateFile.** `file` is the state file, which may be cut short; `published` what
the mappers in place say; `wire` remembers every pair of type and ID that was
ever in place, and `lost` whether a run began from a file that lacks one of them.
A run puts mappers into the packages it has `reached`, any set of them, as flags and
sources say; the others keep what they have. `RemoveFile` is the user, who removes
a file that was cut short and that no run can read.

**Driver.** The whole of a run: `Load` or `LoadFails`, `FindIface` (one turn of
the loop of `FindIfaces`, with the two variables of Go that outlive a turn),
`NoTypes`, `CallGenerate`, `Extract` (a step of `Extractor`), `Save`, `GiveUp`.
`file` is the state file between runs, `before` what the last good run wrote: the
definitions, the directives, and the mappers with the types in their switches and
which of these go through a shim; `good` how many there were. The sources are those of `job` in every run; the
flags and the packages scanned are chosen anew for each behaviour (`given`).
`Generate` is left out here: it writes what `Extractor` decides, or fails.

**Directing.** A text such as a name is a sequence of abstract parts, a word is a
key with a value or an argument; `ParseDirective` and `Build` are operators that
return a set of one result or, on an error, of none. A behaviour takes the
comments of one package through `load`, the directives that the handlers of the
extractor add, the lines that `Build` makes, and the judgement of what msgp
says: `RunMsgp` lets it print up to `MaxLines` lines, warnings of any use of a type,
of a field that is left out, or others, errors, and lines of no consequence.
`CheckWarning` is what `checkMsgpOutput` lets pass; `RefuseLine` ends the run, with a
panic for a warning it cannot read, and puts the line into `refused`. `said` is all
that was printed.

**Mapper.** Two ends of a stream, generated at different times: `knows.enc` and
`knows.dec` are their implementers. `wire` is a sequence of msgpack objects. A
message is a chain of types: boxes, which hold an interface value, and a last
type with a body. `EncodeMsg` writes one object at a time, so that an error leaves
half a message and an encoder that goes on; `MarshalMsg` writes all or nothing.
`DecodeMsg` reads one object at a time and skips nothing when it fails;
`UnmarshalMsg` has the whole message. The bodies hold objects that look like the
header and the kind of a message.

**CaptureStdio.** Each caller has a program counter: `lock`, `swap`, `do`,
`restore`, `stdout`, `stderr` (the two waits), `done`, `panicked`. Two copiers per
call, pipes of limited capacity. A print reads the variable `os.Stdout` in one
step and writes in another, as a Go program does: the stream may be another by
then, or the pipe closed. `os.Pipe` may fail, whose error the code drops; a
function may panic, which leaves the variables replaced and frees the lock.

Definitions marked "Bug:" are not part of a specification. Each is a plausible
mistake in the code of the definition that follows it, and is used to show that
a property notices: see the mutants in `PROJECT.json`.

## Runs

| Run | Checks | Result |
|---|---|---|
| `extractor` | 8 invariants, refinement of `Worklist`, `IdsStable`, `Terminates` | holds, 31 185 states |
| `generate` | 5 invariants and `PublishedWhole` | holds, 1 222 640 states |
| `statefile` | 3 invariants | holds, 2 317 802 states up to symmetry |
| `driver` | `DriverTypeOK`, `RootsRight`, `RerunKeeps`, `Settles` | holds, 1 022 404 states |
| `directing` | `TypeOK`, `WrittenAsMeant`, `WarningsExpected`, `NoFalseAlarm` | holds, 49 937 states |
| `mapper` | `TypeOK`, `InOrder`, `ErrorsExplained`, `NewerReads`, `AllDelivered` | holds, 130 230 states |
| `stdio` | `TypeOK`, `Restored`, `CapturedAll`, `CallsEnd`, `PrintsEnd` | holds, 249 991 states |
| `shim_of_user` | `ShimIsOfTheUser` (comment, extractor.go:153) | violated |
| `mapper_casts` | `MapperCastsPrimitives` (comments, extractor.go:253, 360) | violated |
| `compounds_walked` | `CompoundsWalked` (comment, structwalker.go:65) | violated |
| `tests_created` | `TestsCreated` (flag, msgpcmd/cmd.go:36) | violated |
| `wire_stable` | `WireStable` (comment, extractor.go:345) | violated |

What they show:

* `extractor`: when extraction ends well, every field of every struct that was
  written can be serialised by the package of that struct (`EveryUseServed`):
  each is direct, shimmed *there*, defined, intercepted *there*, or excused by a
  directive. The same holds for the structs and compounds in each mapper
  (`EveryImplementerServed`). Both except the types of which another queued type
  has the key in `tempRendered` (`KeyShared`): the second of the two is lost, which
  is a finding. A definition is written once, in the package that
  declares it, and never if that package ignores it (for a struct or a compound).
  IDs are unique and never change. The mapper loop cannot fail for what the
  queue loop left undone. A package with a mapper has a struct that msgp makes a
  file of, to which the mapper can be appended, if msgp sees the structs that use
  interfaces (`MapperNotLost`); without `-unexported` it does not see the unexported
  ones.
* `generate`: a successful run brings each package in which msgp finds a type up to
  date, whatever killed or failed runs left behind; a run that returns leaves
  nothing temporary that it was able to remove; no file moves before all packages
  are complete. A panic for want of an output file comes only from a package with a
  mapper in which msgp finds no type (`MissingExplained`): that it does is a finding.
  In such a package an output that an earlier run has left in the temporary directory
  is put into place as if it were new, and nothing else is (`PublishedWhole`).
* `statefile`: the wire format is stable as long as no run begins from a state
  file that has lost an ID in use (`WireStableUnlessLost`); until then all packages
  agree after any successful run, those it has not touched included, and later on
  those that it has reached (`PackagesAgree`).
* `driver`: the roots of a run are the types of the state file that still exist
  and the implementers of the flagged interfaces, although the search carries its
  candidates from one interface to the next (`RootsRight`). A second run on the
  same sources changes no ID, and in the mappers no type and of the shims only those
  of primitives; it may only add definitions of
  primitive implementers, which have become roots through the state file
  (`RerunKeeps`). One whose package was not imported does not become a root: it is
  defined for the package that comes first to its interface, which may be another
  one in the second run. Where there is none of these, from the third on the
  definitions, each as often as before, and the types of the mappers stay, in
  whatever order the roots come. The shims of primitive implementers may move to
  another package, and with them the casts in its mappers, which changes the
  generated code; nothing else does (`Settles`). Both need
  that no struct is shimmed and no two types share a key in `tempRendered`
  (`KeysApart`): either hides a type from whoever comes later, and who does
  depends on the order of the roots.
* `directing`: a directive reaches msgp as the user or the extractor meant it,
  renamed to what the package calls its types (`WrittenAsMeant`). `WarningsExpected`
  and `NoFalseAlarm` state for which uses of a type `checkMsgpOutput` may be trusted,
  and name the homonyms it mistakes. Of the warnings that end in ": ignored."
  nothing is shown: the code lets them all pass.
* `mapper`: what one end sends the other receives, in order and whole, also if
  `EncodeMsg` failed half way in between: each half message costs the receiver
  one error (`InOrder`, `ErrorsExplained`). A receiver that was generated with all
  types of the sender meets no unknown kind, however much a body looks like a
  message (`NewerReads`); and nothing sent is withheld for ever. `InOrder` excepts
  `UnmarshalMsg` of a struct by value, which copies before it decodes.
* `stdio`: `os.Stdout` and `os.Stderr` are the terminal's whenever nobody captures
  and no function has panicked; a caller captures all that its function printed,
  in order, also beside a bystander whose prints it may capture too, and after
  the panic of another; calls and prints end.
* The five violations are disagreements of the code with its own comments or
  flags; `PROJECT.json` quotes both sides. In short: a shim of the first
  referring package hides a struct from all others; a mapper of the second
  referring package lacks the casts of the first; compounds not reached through
  a struct are not walked; generated tests are deleted after they are moved into
  place; IDs of published code can be lost.
* `PROJECT.json` also lists what was found while reading and has no run of its own:
  among them the keys of `tempRendered`, which two types may share; the panic for an
  unexported struct that uses an interface; `runMsgp`, which writes no file for a package of interfaces alone;
  `SaveToFile`, which reports no error of the write; the copy in `UnmarshalMsg`;
  mappers for shims in convert mode, which do not compile; `FindIfaces`, which
  does not notice that a second interface is missing; shims of primitives that
  move between packages from run to run; and directives that ignore
  a type by its full path, which the warnings of msgp never show.

### Bounds

* `MCExtractor`: seven types, one of each kind and two structs, in two packages
  of the user and a vendored one. Two packages that refer to one type, in both
  orders, are what every dedupe and every "first time" in the code can get wrong;
  a third would repeat the second. The jobs range over who refers to what,
  including cycles of structs and through interfaces; over declared shims and
  ignores; over state files with gaps and a negative ID; over unexported structs
  with the flag or without; over keys that a shim shares with a struct, a compound
  or another shim; and over every early end. No compound refers to itself: the walk of `structer` would not return.
* `MCGenerate`: two packages (the moves of one around the other, and a failure
  between them), `MaxVersion = 2` (one change of sources, so old and new content
  can meet), `MaxCrashes = 1` (what one kill, or one removal that fails, leaves meets a
  complete later run; other failures are unlimited). Four configurations turn each switch on and off.
* `MCStateFile`: three types, two packages, `MaxEdits = 2` (an implementer that
  appears and one that disappears). Failures, kills and removals of a torn file are
  unlimited, and each run reaches any set of packages. Types and
  packages are symmetric; the run has no liveness property.
* `MCDriver`: the types of `MCExtractor` and a second interface; `MaxRuns = 3`, as
  what the first run leaves changes the roots of the second, and the third shows
  that this is all. In some programs the shim of the primitive type shares its key with
  a struct. Flags name one interface, two in both orders, none, or a type
  that is no interface; state files may be empty, stale, or not used.
* `MCDirecting`: two packages whose paths end alike and one that is not called as
  its path ends, with types of like names; each input has up to two comments out
  of fourteen, well formed or not, which is enough for one to precede, repeat or
  contradict another. Each directive is treated by itself otherwise. `MaxLines = 2`:
  each line is judged by itself, and one may end the run before the next.
* `MCMapper`: a pointer, a struct, two structs written as tuples of different
  sizes, a box and a box by value; chains up to two boxes; two generations, one
  of which lacks two types. `MaxMessages = 3`: half a message between two whole
  ones. `MaxErrors = 4` is more than three messages can cause
  (`ErrorsExplained`), so it never stops the receiver.
* `MCCaptureStdio`: two callers and a bystander, so that a caller waits for the
  lock while another prints; `Capacity = 1`, the least at which a writer blocks;
  two prints of one caller for their order; `MaxFailures = 1`.

### Fairness

`Extractor` assumes `WF_vars(Next)`: a single goroutine whose loops do not block
keeps running. `Terminates` needs no more. It is about the loops of the code, not
about the `ExternalError` that may end a run, which fairness does not force.
`CaptureStdio` assumes weak fairness of each caller, of each copier and of a
print that has begun: goroutines the Go scheduler runs when they can run. No
print has to begin. `Mapper` assumes weak fairness of the sender and of the
receiver: neither stops for ever; which messages are sent, by which method, and
which of them fail is free. `Generate`, `StateFile`, `Driver` and `Directing` assume
none: failures and kills are free, and nothing is claimed to happen eventually.

## Proofs

For all values of the constants that satisfy the assumptions of the modules:

| Module | Theorem | Statement |
|---|---|---|
| `ExtractorProofs` | `TypeCorrect` | `Spec => []TypeOK` |
| | `IdsAlwaysUnique` | `Spec => []IdsUnique` |
| | `IdsAlwaysStable` | `Spec => IdsStable` |
| | `QueueRefinesWorklist` | `Spec => QueueIsWorklist` |
| | `MappersAlwaysReady` | `Spec => []MapperReady` |
| `OutputProofs` | `AlwaysDefinedOnceAtHome` | `Spec => []DefinedOnceAtHome` |
| | `AlwaysIgnoredNotDefined` | `Spec => []IgnoredNotDefined` |
| | `MapperNeverLost` | `Spec => []MapperNotLost` |
| | `EveryUseAlwaysServed` | `Spec => []EveryUseServed` |
| | `EveryImplementerAlwaysServed` | `Spec => []EveryImplementerServed` |
| `DriverProofs` | `DriverTypeCorrect` | `DSpec => []DriverTypeOK` |
| | `RootsAlwaysRight` | `DSpec => []RootsRight` |
| | `RerunAlwaysKeeps` | `DSpec => []RerunKeeps` |
| | `AlwaysSettles` | `DSpec => []Settles` |
| `GenerateProofs` | `TypeCorrect` | `Spec => []TypeOK` |
| | `TempAlwaysRemoved` | `Spec => []TempRemoved` |
| | `AlwaysUpToDate` | `Spec => []UpToDate` |
| | `AlwaysAllReady` | `Spec => []AllReady` |
| | `AlwaysMissingExplained` | `Spec => []MissingExplained` |
| | `OutputPublishedWhole` | `Spec => PublishedWhole` |
| `StateFileProofs` | `TypeCorrect` | `Spec => []TypeOK` |
| | `WireAlwaysStableUnlessLost` | `Spec => []WireStableUnlessLost` |
| | `PackagesAlwaysAgree` | `Spec => []PackagesAgree` |
| `CaptureStdioProofs` | `TypeCorrect` | `Spec => []TypeOK` |
| | `AlwaysRestored` | `Spec => []Restored` |
| | `EverythingCaptured` | `Spec => []CapturedAll` |
| `MapperProofs` | `MapperTypes` | `Spec => []TypeOK` |
| | `MessagesInOrder` | `Spec => []InOrder` |
| | `OneErrorForEachFailure` | `Spec => []ErrorsExplained` |
| | `NewerReceiverKnows` | `Spec => []NewerReads` |
| `DirectingProofs` | `DirectingTypes` | `Spec => []TypeOK` |
| | `DirectivesSurvive` | `Spec => []WrittenAsMeant` |
| | `WarningsWereExpected` | `Spec => []WarningsExpected` |
| | `AlarmsAreRight` | `Spec => []NoFalseAlarm` |

Assumptions: `JobsAssumption` (each job has its type and is `WellFormed`: no root
is an interface, as `FindIfaces` returns structs and the state file implementers;
the loaded IDs are distinct, as `State.Init` checks; what a `[]byte` type refers to is
direct; no unexported type is an implementer, as both filters skip it; and the text
joined from a package and a type is not the name of that type and tells the packages
apart) and `NoItemAssumption`; for
`Driver`, besides, that implementers and the types of the first state file are no
interfaces (`ConcreteAssumption`: what `FindImplementers` lists has values) and that
the flags name types; for
`Generate` that `TempKeys` lists the packages, of which there is one, and that
configurations and bounds have their types; for `StateFile` that `MaxEdits` is a
number; for `CaptureStdio` that callers are no bystanders, the terminal is no
pipe, a pipe holds something, and `Nothing` is no print; for `Mapper` that IDs are
distinct numbers, that what is no number is none, that the body of a type that is
no box ends with its contents, and that chains go on after boxes alone; for
`Directing` that the inputs are sequences and finite sets of the types they speak
of, that the package of every type is one of `Packages`, and that `MaxLines` is a
number. No finiteness is assumed beyond that, and the
programs may be of any shape.

The arguments:

* *Uniqueness.* `IdsUnique` alone is not inductive, since a step that gives
  `nextID` could repeat an ID above it. With `IdsBelow` (every ID is less than
  `nextID`) it is: `EnsureType` gives a number that no type has and moves on.
* *Refinement.* `found` is `seenItems`, `handled` what was seen and no longer
  waits. A `Dequeue` handles its item only if the item does not wait twice.
  `QueueInv` says so: what waits was seen, and nothing waits at two places. Every
  step is then one of four (`QueueSteps`: the queue is kept, found empty, added
  to, or taken from), and each maps to a step of `Worklist` or to a stutter.
* *Mappers.* `MapperReady` speaks about the end of the loop, so its invariant
  `MapperInv` follows an interface from its discovery. A root is no interface
  (`RootsInv`), so an interface is queued by a handler that has loaded the
  directives of the origin (`OriginsCached`, `LoopInv`); hence each package in
  `inPackages` is cached (`IfacesCached`). Each implementer that is not hidden
  has an ID or is still in the loop of the interface (`ImplsHaveIds`). Both
  tables only grow.

* *Output.* The code never looks into what it has written. What it relies on is
  `OutputInv`: whatever is written, interfaces apart, has its key in
  `tempRendered`. A handler that finds the key missing (`MarkRendered`) may
  therefore write (`TakenMayBeWritten`); for a struct it writes only when its
  walk has ended, and `HandlerInv` carries the permission through the loop.
  `IgnoresLoaded` says that a cached package has the ignores of its sources, so
  that asking the cache is asking the sources.
* *Files of mappers.* `ReferrersHaveStruct`: a package in the queue with an
  interface has a struct written, unless the walk that queued it is still
  running. Mappers are built only for such packages (`InPackagesRefer`,
  `ExtraRefers`) and no walk runs then. That msgp looks at the struct is the
  condition of the property. `Generate` assumes nothing of it: a mapper where msgp
  finds no type is the panic.
* *Uses.* No handler establishes `EveryUseServed`: a walk queues what it sees, the
  queue drops what it has seen before, a handler skips what is rendered, and
  directives are loaded for another reason. `ServedInv` says what each may rely
  on. `HandledInv`: a use taken from the queue is `Answered`, cared for or with a key
  that another type has, or its handler is the one running. `RenderedInv`: so is a
  use that is skipped because its key is rendered. `SourcedInv`: loaded directives are those of the sources, but for the
  shims of primitives. `WalkInv`: while a struct is walked, each type its fields
  need is queued or still reached from `todo`, where `Walked` is the least set
  closed under looking through compounds and primitives over `[]byte`; so that when
  it is written (`FieldsInv`) all are queued. `MappedInv` and `ImplsQueued` do the same for the packages of an
  interface and for its implementers. In the end the queue is empty, nothing
  runs, and what is left is that everything is answered.
* *Driver.* `DriverTypeOK` contains the `TypeOK` of the extraction and with it what
  `JobsAssumption` asks of a caller, which each run must find again after what the
  runs before have saved. `FileLoads` (the file could be loaded) and `ConcreteInv`
  (nothing with an ID is an interface) are kept because an extraction keeps
  `IdsUnique` and gives IDs to implementers alone. For `RootsRight`, `SearchAt(k)`
  says what the search holds after `k` turns: the interface it has kept is one of
  the first `k`, so that searching for it again adds nothing.
* *Runs again.* `RerunKeeps` and `Settles` compare two extractions, of which only what
  the first has written is left when the second ends. So what an extraction writes
  is described without the extraction: `Outcome(R, w)` says that `w` is what may be
  written for the roots `R`. It speaks of `Reach(R)`, the least set that has `R`, the
  uses of its structs and the implementers of its interfaces; of `SureAt`, the
  packages that refer to a type in whatever order the queue is worked through; and
  of `ImplsOf`, the implementers, whose package is the first to come to an interface,
  and about which `Outcome` therefore leaves open where they are defined or shimmed.
  `ExtractionInv` shows that an extraction writes that: `AskedInv` (nothing is queued
  but what the roots ask for), `RootedInv`, `WrittenSeen`, `ReferInv` and `CountInv` (an
  interface is written once for each package that refers to it), `MappersRight`,
  `IdsFrom`, `DirectivesFrom` and `DirectivesOfWritten` bound it from above, `ServedInv`
  from below, and at the end both meet (`SeenIsReached`, `OutcomeAtEnd`). From run to
  run, `SettledInv` keeps a set `R` of which the last success has written the outcome,
  whose implementers are in the state file, and which the next roots exceed by
  implementers alone. These reach nothing new (`ReachSame`), so they have IDs, and after
  the second success there are none left to add.
* *Generate.* `Inv` follows each file from where it is written to where it ends.
  `WorkInv`: packages the loop has been through are ready, and what exists of the
  one it is at; `MoveInv`: each file is complete where it is, in the temporary
  directory or in place; `CoverInv`: what is temporary is on the clean-up stack,
  unless a kill or a failed removal has left it; `LeftInv`: an output where msgp
  finds no type was left by one. `UpToDate` and `AllReady` are read from the second,
  `TempRemoved` from the third, which would not be inductive without knowing that
  a run that ends well has been through all packages (`WorkInv`), so that a
  temporary directory left by a kill is on the stack too.
* *State file.* `IdsInv`: the IDs in memory and in the file are distinct and below
  `nextID`. `PublishedInv`: after an extraction that reaches a package each
  implementer has an ID, and what this run has put in place says what memory says.
  `WireInv`: unless an ID was lost, whatever is in place anywhere is on the wire, and
  each pair ever on the wire is in memory while a run is under way, so an
  ID on the wire is never given again, and packages out of reach agree too.
* *Capture.* A caller between lock and unlock holds the lock (`LockInv`), so there
  is one; what it saved is the terminal's, and the variables are the terminal's
  unless a caller has them replaced (`StdInv`). A panic ends both, and the
  theorem. For `CapturedAll`, what a pipe has carried is followed as one sequence,
  what has been copied and then what is still in the pipe: the prints of the
  function are in it in order and once each, through every write and every copy,
  and a copier ends only when nothing is left in the pipe.
* *Mapper.* What is on the wire does not tell where a message begins, since a body
  may look like a header and a kind, and half a message is followed by the next
  one without a mark. The invariant gives every object on the wire a tag (`Tags`):
  the chain it is part of, how many messages came before it as a whole and in
  half, and its place in the message. `Framed` says which tag may follow which
  (the next place, the next message after the last place or after a header whose
  kind `EncodeMsg` failed to write) and that each object is the one its tag says.
  `ReaderAt` and `WriterAt` place the two ends at the first and the last tag.
  A sender's step adds tags at one end, a receiver's step drops some at the other.
  The receiver finds out about a half message at its end, where a header or nil
  stands for the kind: it has read nothing of the next message, and the count of
  halves in the tag is the count of its errors. `UnmarshalMsg` guesses a message
  of which the encoding is a prefix of the wire; object by object that can only
  be the one that is there (`MessageRead`).

* *Directives.* `BuiltIsRead` is about the syntax alone: of any directive that can be
  built, the line parses to one that differs in the names of its types only. It
  needs that the arguments of a line, counted among words with and without a key,
  are the names in their order, and that each key is found with its last value.
  The invariant (`BuildInv`) says that the n-th line is a `Build` of the n-th directive
  and `left` the rest of them. For the warnings `CheckInv` says of each line msgp
  has printed that it may pass, is still to come, or was refused. `Texts` keeps, of several
  texts for one type, the one at the last place; that there is a last one
  (`NamedHasText`) is what `NoFalseAlarm` needs the finite sequences for.

Only model-checked: `Terminates`, `CallsEnd`, `PrintsEnd` and `AllDelivered`, as
liveness under fairness and ENABLED are out of the prover's reach. Every safety
property that a passing run checks is proved. No module here uses RECURSIVE.

## Not modelled, and why

* The text of definitions, directives, mappers and messages; the
  visitor's progress messages; parents of queue items. No property is about them.
* `structer`, `go/types` and msgp are external. The first two are the value
  `job`; of msgp, whether it writes a file, and of which types it may warn.
* Directives as characters: the patterns that split a comment into words are not
  modelled, a word they refuse has the key `invalid`.
* In `Mapper`, `Msgsize`, the names of the generated types, and
  shims that are not casts. A shim in convert mode gives a mapper that does not
  compile; a cast shim of the user whose functions are no conversions is not
  symmetric. Both are findings in `PROJECT.json`.
* `TempFile` of `temp.go` and `splitType` of `util.go` are used by nothing in the
  repository, and nothing calls `log.go`.
* `GoList` runs another process: it gives the packages to scan, or fails. The
  parsing of flags is the value `given`. The JSON coding of the state file.
* A type that implements an interface is assumed to be filtered alike by
  `extractInterface` and `genIntercept` (`hidden`): both skip unexported types
  and those of main packages, through different calls of `structer`.
* A state file that the user edits, and directives that the extractor's own
  directives contradict (a user's shim of a primitive).

## Plan

Done, in this order: `TypeQueue`, `Directives`, `State`; `Extractor`, which composes
them and is the heart of the program, its refinement of `Worklist` and its
proofs; `Generate`; `StateFile`; `CaptureStdio`; `Mapper`; `Driver`;
`DirectiveSyntax` and `Directing`; the proofs of `Extractor`, `Generate`,
`StateFile`, `Driver`, `CaptureStdio`, `Mapper` and `Directing` that the table lists.

Left, the most useful first:

1. An abstract specification of the ID registry over the life of a state file, of
   which `Extractor` and `StateFile` are two implementations.
2. `TempFile` as a small state machine, should the program begin to use it, and
   shims in convert mode, should their mappers compile.
