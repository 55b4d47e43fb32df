------------------------------ MODULE Generate ------------------------------
(***************************************************************************)
(* generate.go:82-295, msgp.go:runMsgp, temp.go:Cleanup: what Generate     *)
(* does to the disk once the types are extracted.  In each package with    *)
(* definitions it fills a temporary directory, runs msgp there, appends    *)
(* the mappers, and when all packages are ready moves the files into       *)
(* place.  A deferred Cleanup removes every path that was pushed.          *)
(*                                                                         *)
(* The model runs the generator again and again over the same disk.        *)
(* Between two runs the sources may change; a run may fail in any call to  *)
(* msgp or to the file system, or be killed.                               *)
(***************************************************************************)
EXTENDS Integers, Sequences, SequencesExt

CONSTANTS
  Packages,    \* packages with temporary output
  TempKeys,    \* the same, sorted
  Configs,     \* the Config values considered
  MaxVersion,  \* bound: versions of the sources of a package
  MaxCrashes   \* bound: runs that are killed and removals that fail

ASSUME TempKeysAssumption ==
  TempKeys \in Seq(Packages) /\ ToSet(TempKeys) = Packages /\ Packages # {}

ASSUME ConfigsAssumption ==
  Configs \subseteq
    [GenTests : BOOLEAN, GenVersion : BOOLEAN, KeepTemp : BOOLEAN, defaultName : BOOLEAN]

ASSUME BoundsAssumption == MaxVersion \in Nat \ {0} /\ MaxCrashes \in Nat

(***************************************************************************)
(* defaultName: FileTemplate is "{pkg}_msgp_gen.go", so that the test file *)
(* msgp derives from it is the one Generate looks for.                     *)
(***************************************************************************)
VARIABLES
  config,
  source,    \* per package: version, does it define a type, has it a mapper
  disk,      \* per package: the generated files next to the sources
  temp,      \* per package: the files of the temporary directory
  tempDir,   \* packages that have a temporary directory
  phase,     \* "idle" between runs, else what Generate is doing
  key,       \* index into tempKeys
  files,     \* moves left: the file and the package it is for
  stack,     \* Cleanup.stack
  result,    \* how the current run ends, or the last one ended
  crashes,
  leftover   \* a run was killed or could not clean up, and none has succeeded since

diskVars == <<disk, temp, tempDir>>
vars == <<config, source, diskVars, phase, key, files, stack, result, crashes, leftover>>

Files == {"gen", "test", "version"}
None == [version |-> 0, lacks |-> 0]
Absent == [f \in Files |-> None]

\* A file made from version v of the sources that still lacks n mappers; it has
\* one too many if n is -1.
Content(v, n) == [version |-> v, lacks |-> n]

\* What is lacking once n mappers are appended.
Appended(lacks, n) == IF lacks - n < -1 THEN -1 ELSE lacks - n

Mappers(p) == IF source[p].mapper THEN 1 ELSE 0

UpToDateFile(p) == Content(source[p].version, 0)

pkg == TempKeys[key]

(***************************************************************************)
(* defines: msgp finds a type in the temporary file.  It may find none in  *)
(* one of interfaces alone, or, without the flag -unexported, of types     *)
(* that are not exported; and with the latter the package may still have a *)
(* mapper (MapperNotLost of Extractor).                                    *)
(***************************************************************************)
Sources(v) == [version : {v}, defines : BOOLEAN, mapper : BOOLEAN]

Init ==
  /\ config \in Configs
  /\ source \in [Packages -> Sources(1)]
  /\ disk = [p \in Packages |-> Absent]
  /\ temp = [p \in Packages |-> Absent]
  /\ tempDir = {}
  /\ phase = "idle"
  /\ key = 1
  /\ files = {}
  /\ stack = <<>>
  /\ result = "none"
  /\ crashes = 0
  /\ leftover = FALSE

\* The user changes a package between two runs.
Edit(p) ==
  /\ phase = "idle"
  /\ source[p].version < MaxVersion
  /\ \E s \in Sources(source[p].version + 1) : source' = [source EXCEPT ![p] = s]
  /\ result' = "none"
  /\ UNCHANGED <<config, diskVars, phase, key, files, stack, crashes, leftover>>

\* Generate has extracted the types and enters the loop over tempKeys.
Begin ==
  /\ phase = "idle"
  /\ phase' = "open"
  /\ result' = "running"
  /\ UNCHANGED <<config, source, diskVars, key, files, stack, crashes, leftover>>
----------------------------------------------------------------------------
\* Bug: the directory is not pushed, only what is written into it.
OpenWithoutDir ==
  /\ phase = "open"
  /\ tempDir' = tempDir \cup {pkg}
  /\ stack' = Append(stack, <<"defs", pkg>>)
  /\ phase' = "version"
  /\ UNCHANGED <<config, source, disk, temp, key, files, result, crashes, leftover>>

\* The temporary directory and the file of joined definitions, truncated.
OpenTemp ==
  /\ phase = "open"
  /\ tempDir' = tempDir \cup {pkg}
  /\ stack' = stack \o <<<<"dir", pkg>>, <<"defs", pkg>>>>
  /\ phase' = "version"
  /\ UNCHANGED <<config, source, disk, temp, key, files, result, crashes, leftover>>

\* Bug: the version file is to be moved even if it is not written.
VersionAlwaysMoved ==
  /\ phase = "version"
  /\ phase' = "msgp"
  /\ files' = files \cup {<<"version", pkg>>}
  /\ IF config.GenVersion
       THEN /\ temp' = [temp EXCEPT ![pkg]["version"] = UpToDateFile(pkg)]
            /\ stack' = Append(stack, <<"version", pkg>>)
       ELSE UNCHANGED <<temp, stack>>
  /\ UNCHANGED <<config, source, disk, tempDir, key, result, crashes, leftover>>

\* The hash of the definitions, if GenVersion.
WriteVersion ==
  /\ phase = "version"
  /\ phase' = "msgp"
  /\ IF config.GenVersion
       THEN /\ temp' = [temp EXCEPT ![pkg]["version"] = UpToDateFile(pkg)]
            /\ stack' = Append(stack, <<"version", pkg>>)
            /\ files' = files \cup {<<"version", pkg>>}
       ELSE UNCHANGED <<temp, stack, files>>
  /\ UNCHANGED <<config, source, disk, tempDir, key, result, crashes, leftover>>

\* The moves are noted before msgp runs, and the DESTINATION of the test file
\* is pushed.  msgp writes nothing if it finds no type to serialise.
RunMsgp ==
  LET new(n) == Content(source[pkg].version, n)
  IN /\ phase = "msgp"
     /\ phase' = "extra"
     /\ files' = files \cup {<<"gen", pkg>>}
                       \cup (IF config.GenTests THEN {<<"test", pkg>>} ELSE {})
     /\ stack' = IF config.GenTests THEN Append(stack, <<"test", pkg>>) ELSE stack
     /\ temp' = IF source[pkg].defines
                  THEN [temp EXCEPT ![pkg]["gen"] = new(Mappers(pkg)),
                          ![pkg]["test"] =
                            IF config.GenTests /\ config.defaultName THEN new(0) ELSE @]
                  ELSE temp
     /\ UNCHANGED <<config, source, disk, tempDir, key, result, crashes, leftover>>

\* Bug: the mappers are left out of the output.
SkipExtra ==
  /\ phase = "extra"
  /\ phase' = IF key = Len(TempKeys) THEN "move" ELSE "open"
  /\ key' = IF key = Len(TempKeys) THEN key ELSE key + 1
  /\ UNCHANGED <<config, source, diskVars, files, stack, result, crashes, leftover>>

\* Bug: a package is moved into place before the next one is ready.
MoveAtOnce ==
  /\ phase = "extra"
  /\ temp' = [temp EXCEPT ![pkg]["gen"].lacks = 0]
  /\ phase' = "move"
  /\ UNCHANGED <<config, source, disk, tempDir, key, files, stack, result, crashes, leftover>>

\* Bug: one package too many.
OnePackageMore ==
  /\ phase = "extra"
  /\ phase' = IF key > Len(TempKeys) THEN "move" ELSE "open"
  /\ key' = key + 1
  /\ UNCHANGED <<config, source, diskVars, files, stack, result, crashes, leftover>>

\* Append the package's mappers to msgp's output, whoever wrote it, and go on to
\* the next package.  An output that is not there is a panic, on whose way out
\* the deferred Cleanup runs too.
AppendExtra ==
  LET missing == source[pkg].mapper /\ temp[pkg]["gen"] = None
  IN /\ phase = "extra"
     /\ temp' = IF missing THEN temp
                ELSE [temp EXCEPT ![pkg]["gen"].lacks = Appended(@, Mappers(pkg))]
     /\ result' = IF missing THEN "panic" ELSE result
     /\ phase' = IF missing THEN "cleanup" ELSE IF key = Len(TempKeys) THEN "move" ELSE "open"
     /\ key' = IF missing \/ key = Len(TempKeys) THEN key ELSE key + 1
     /\ UNCHANGED <<config, source, disk, tempDir, files, stack, crashes, leftover>>

\* Bug: a file that is already there is taken to be up to date.
MoveIfAbsent(f, p) ==
  /\ phase = "move"
  /\ <<f, p>> \in files
  /\ files' = files \ {<<f, p>>}
  /\ temp' = [temp EXCEPT ![p][f] = None]
  /\ disk' = IF disk[p][f] = None THEN [disk EXCEPT ![p][f] = temp[p][f]] ELSE disk
  /\ UNCHANGED <<config, source, tempDir, phase, key, stack, result, crashes, leftover>>

\* One turn of the loop over the map of moves, in any order: rename if the
\* contents differ, else remove; either fails if the source is not there.
Move(f, p) ==
  /\ phase = "move"
  /\ <<f, p>> \in files
  /\ IF temp[p][f] = None
       THEN phase' = "cleanup" /\ result' = "missing" /\ UNCHANGED <<files, temp, disk>>
       ELSE /\ files' = files \ {<<f, p>>}
            /\ disk' = [disk EXCEPT ![p][f] = temp[p][f]]
            /\ temp' = [temp EXCEPT ![p][f] = None]
            /\ UNCHANGED <<phase, result>>
  /\ UNCHANGED <<config, source, tempDir, key, stack, crashes, leftover>>

Moved ==
  /\ phase = "move"
  /\ files = {}
  /\ phase' = "cleanup"
  /\ result' = "ok"
  /\ UNCHANGED <<config, source, diskVars, key, files, stack, crashes, leftover>>

\* A call to msgp or to the file system returns an error.
Fail ==
  /\ phase \in {"open", "version", "msgp", "extra", "move"}
  /\ phase' = "cleanup"
  /\ result' = "failed"
  /\ UNCHANGED <<config, source, diskVars, key, files, stack, crashes, leftover>>
----------------------------------------------------------------------------
\* The deferred Cleanup, one path of the stack at a time, from the top.  With
\* KeepTemp it is not deferred.
Cleanup ==
  LET top == Last(stack)
      f == top[1]
      p == top[2]
  IN /\ phase = "cleanup"
     /\ ~config.KeepTemp
     /\ stack # <<>>
     /\ stack' = Front(stack)
     /\ tempDir' = IF f = "dir" THEN tempDir \ {p} ELSE tempDir
     /\ temp' = CASE f = "dir" -> [temp EXCEPT ![p] = Absent]
                  [] f = "version" -> [temp EXCEPT ![p]["version"] = None]
                  [] OTHER -> temp
     /\ disk' = IF f = "test" THEN [disk EXCEPT ![p]["test"] = None] ELSE disk
     /\ UNCHANGED <<config, source, phase, key, files, result, crashes, leftover>>

\* RemoveAll fails: the path stays, a directory perhaps without some of its
\* files. The first error of a run is the one it returns; the loop goes on.
CleanupFails ==
  LET p == Last(stack)[2]
  IN /\ phase = "cleanup"
     /\ ~config.KeepTemp
     /\ stack # <<>>
     /\ crashes < MaxCrashes
     /\ crashes' = crashes + 1
     /\ stack' = Front(stack)
     /\ IF Last(stack)[1] = "dir"
          THEN \E gone \in SUBSET Files :
                 temp' = [temp EXCEPT ![p] = [f \in Files |-> IF f \in gone THEN None ELSE @[f]]]
          ELSE UNCHANGED temp
     /\ result' = IF result = "ok" THEN "failed" ELSE result
     /\ leftover' = TRUE
     /\ UNCHANGED <<config, source, disk, tempDir, phase, key, files>>

\* The locals of Generate end with it.
Leave ==
  /\ phase' = "idle"
  /\ key' = 1
  /\ files' = {}
  /\ stack' = <<>>

Return ==
  /\ phase = "cleanup"
  /\ stack = <<>> \/ config.KeepTemp
  /\ Leave
  /\ leftover' = (leftover /\ result # "ok")
  /\ UNCHANGED <<config, source, diskVars, result, crashes>>

\* The process is killed; nothing is cleaned up.
Crash ==
  /\ phase # "idle"
  /\ crashes < MaxCrashes
  /\ crashes' = crashes + 1
  /\ result' = "crashed"
  /\ leftover' = TRUE
  /\ Leave
  /\ UNCHANGED <<config, source, diskVars>>

Next ==
  \/ \E p \in Packages : Edit(p) \/ \E f \in Files : Move(f, p)
  \/ Begin \/ OpenTemp \/ WriteVersion \/ RunMsgp \/ AppendExtra \/ Moved
  \/ Fail \/ Cleanup \/ CleanupFails \/ Return \/ Crash

Spec == Init /\ [][Next]_vars
----------------------------------------------------------------------------
TypeOK ==
  /\ config \in Configs
  /\ source \in [Packages ->
       [version : 1..MaxVersion, defines : BOOLEAN, mapper : BOOLEAN]]
  /\ {disk, temp} \subseteq
       [Packages -> [Files -> [version : 0..MaxVersion, lacks : -1..1]]]
  /\ tempDir \subseteq Packages
  /\ phase \in {"idle", "open", "version", "msgp", "extra", "move", "cleanup"}
  /\ key \in DOMAIN TempKeys
  /\ files \subseteq Files \X Packages
  /\ stack \in Seq((Files \cup {"dir", "defs"}) \X Packages)
  /\ result \in {"none", "running", "ok", "failed", "missing", "panic", "crashed"}
  /\ crashes \in 0..MaxCrashes
  /\ leftover \in BOOLEAN

\* generate.go:85-88 with temp.go: nothing of the temporary directories is
\* left by a run that returns, however it ends, if it could remove its files;
\* and a run that succeeds also removes what runs that were killed or could
\* not clean up had left.  (What Cleanup removes elsewhere: TestsCreated.)
TempRemoved ==
  phase = "idle" /\ ~config.KeepTemp /\ (~leftover \/ result = "ok") =>
    tempDir = {} /\ \A p \in Packages : temp[p] = Absent

\* generate.go:251: a run that succeeds has brought every package that
\* defines a type up to date, whatever runs were killed or failed before it
\* and whatever they left in the temporary directories.
UpToDate ==
  phase = "idle" /\ result = "ok" =>
    \A p \in Packages :
      /\ source[p].defines => disk[p]["gen"] = UpToDateFile(p)
      /\ config.GenVersion => disk[p]["version"] = UpToDateFile(p)

\* Nothing is moved before every package is ready: while the moves run, the
\* output of each package is complete, in place or in its directory.
AllReady ==
  phase = "move" =>
    \A p \in Packages :
      source[p].defines =>
        (IF <<"gen", p>> \in files THEN temp ELSE disk)[p]["gen"] = UpToDateFile(p)

\* A step that changes the output in place of a package in which msgp finds a
\* type puts there what msgp makes of these sources, with each mapper once,
\* whatever was left in its directory.  Where msgp finds none, nothing goes
\* into place but what an earlier run has left there.
PublishedWhole ==
  [][\A p \in Packages :
       disk'[p]["gen"] # disk[p]["gen"] =>
         IF source[p].defines
           THEN disk'[p]["gen"] = UpToDateFile(p)
           ELSE leftover \/ config.KeepTemp]_vars

\* A run finds a file that should be there missing only if msgp finds no type
\* in a package, or if the test file goes by another name; and it panics for
\* want of a file to append to only if such a package has a mapper.
MissingExplained ==
  /\ result = "missing" =>
       \/ \E p \in Packages : ~source[p].defines
       \/ config.GenTests /\ ~config.defaultName
  /\ result = "panic" => \E p \in Packages : source[p].mapper /\ ~source[p].defines
----------------------------------------------------------------------------
\* msgpcmd/cmd.go:36: -tests, on by default, is to "create tests and
\* benchmarks": a run that succeeds leaves the test file of each package.
TestsCreated ==
  phase = "idle" /\ result = "ok" /\ config.GenTests =>
    \A p \in Packages : disk[p]["test"] = UpToDateFile(p)
=============================================================================
