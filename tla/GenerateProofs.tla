--------------------------- MODULE GenerateProofs ---------------------------
(***************************************************************************)
(* Theorems about Generate, for any packages, configurations, versions and *)
(* numbers of runs and kills.                                              *)
(*                                                                         *)
(* WorkInv follows the loop over tempKeys: what it leaves behind for each  *)
(* package in the temporary directory, in the moves and on the stack.      *)
(* MoveInv carries that through the moves, whatever their order; CoverInv  *)
(* says that what is temporary has its directory on the stack, and LeftInv *)
(* that a package in which msgp finds no type has no output.               *)
(***************************************************************************)
EXTENDS Generate, TLAPS

FileSet == [version : 0..MaxVersion, lacks : -1..1]
Disks == [Packages -> [Files -> FileSet]]
Working == {"open", "version", "msgp", "extra"}
Pushed == ToSet(stack)
Paths == (Files \cup {"dir", "defs"}) \X Packages

VersionReady(p) ==
  config.GenVersion => <<"version", p>> \in files /\ temp[p]["version"] = UpToDateFile(p)

GenReady(p) ==
  <<"gen", p>> \in files /\ (source[p].defines => temp[p]["gen"] = UpToDateFile(p))

\* The packages the loop has been through.
Done == {TempKeys[k] : k \in 1..(key - 1)}

\* Those packages, and the one the loop is at.
WorkInv ==
  /\ phase \in Working \cup {"move"} => result = "running"
  /\ phase \in Working =>
       \A q \in Done :
         /\ VersionReady(q)
         /\ phase # "extra" \/ q # pkg => GenReady(q)
         /\ <<"dir", q>> \in Pushed
  /\ phase \in {"version", "msgp", "extra"} => <<"dir", pkg>> \in Pushed
  /\ phase \in {"msgp", "extra"} => VersionReady(pkg)
  /\ phase = "extra" =>
       /\ <<"gen", pkg>> \in files
       /\ source[pkg].defines =>
            temp[pkg]["gen"] = Content(source[pkg].version, Mappers(pkg))

Where(f, p) == IF <<f, p>> \in files THEN temp[p][f] ELSE disk[p][f]

\* While the moves run, each file is complete where it is; and all are in place
\* once they have run.
MoveInv ==
  /\ phase = "move" =>
       \A p \in Packages :
         /\ source[p].defines => Where("gen", p) = UpToDateFile(p)
         /\ config.GenVersion => Where("version", p) = UpToDateFile(p)
         /\ <<"dir", p>> \in Pushed
  /\ result = "ok" =>
       \A p \in Packages :
         /\ source[p].defines => disk[p]["gen"] = UpToDateFile(p)
         /\ config.GenVersion => disk[p]["version"] = UpToDateFile(p)

\* Which moves are noted, and that the test file is there if it can be.
FilesInv ==
  \A p \in Packages :
    /\ <<"version", p>> \in files => config.GenVersion
    /\ <<"test", p>> \in files => config.GenTests
    /\ /\ phase \in Working \cup {"move"} /\ <<"test", p>> \in files
       /\ source[p].defines /\ config.defaultName
       => temp[p]["test"] # None

\* Unless an earlier run has left it, what is temporary will be cleaned up.
CoverInv ==
  ~leftover \/ result = "ok" =>
    \A p \in Packages :
      p \in tempDir \/ (\E f \in Files : temp[p][f] # None) => <<"dir", p>> \in Pushed

IdleInv == phase = "idle" => key = 1 /\ files = {} /\ (config.KeepTemp \/ stack = <<>>)

\* Where msgp finds no type there is an output only if an earlier run left it.
LeftInv ==
  phase \in Working \cup {"move"} /\ ~leftover =>
    \A p \in Packages : ~source[p].defines => temp[p]["gen"] = None

Inv ==
  /\ TypeOK /\ WorkInv /\ MoveInv /\ FilesInv /\ IdleInv /\ MissingExplained
  /\ ~config.KeepTemp => CoverInv /\ LeftInv
----------------------------------------------------------------------------
\* Facts about sequences and updates.

LEMMA KeysFacts ==
  /\ \A k \in 1..Len(TempKeys) : TempKeys[k] \in Packages
  /\ \A p \in Packages : \E k \in 1..Len(TempKeys) : TempKeys[k] = p
  /\ Len(TempKeys) \in Nat \ {0}
  /\ DOMAIN TempKeys = 1..Len(TempKeys)
BY TempKeysAssumption DEF ToSet

LEMMA PushedAppend ==
  ASSUME NEW s \in Seq(Paths), NEW e \in Paths
  PROVE  ToSet(Append(s, e)) = ToSet(s) \cup {e}
<1>1. /\ DOMAIN Append(s, e) = DOMAIN s \cup {Len(s) + 1}
      /\ \A i \in DOMAIN s : Append(s, e)[i] = s[i]
      /\ Append(s, e)[Len(s) + 1] = e
  OBVIOUS
<1> QED BY <1>1 DEF ToSet

LEMMA PushedTwo ==
  ASSUME NEW s \in Seq(Paths), NEW d \in Paths, NEW e \in Paths
  PROVE  s \o <<d, e>> \in Seq(Paths) /\ ToSet(s \o <<d, e>>) = ToSet(s) \cup {d, e}
<1> DEFINE r == Append(s, d)
<1>1. s \o <<d, e>> = Append(r, e)
  OBVIOUS
<1>2. r \in Seq(Paths) /\ Append(r, e) \in Seq(Paths)
  OBVIOUS
<1>3. ToSet(r) = ToSet(s) \cup {d}
  BY PushedAppend
<1> HIDE DEF r
<1>4. ToSet(Append(r, e)) = ToSet(r) \cup {e}
  BY <1>2, PushedAppend
<1>5. ToSet(s) \cup {d} \cup {e} = ToSet(s) \cup {d, e}
  OBVIOUS
<1> QED BY <1>1, <1>2, <1>3, <1>4, <1>5, Zenon

LEMMA PushedFront ==
  ASSUME NEW s \in Seq(Paths), s # <<>>
  PROVE  /\ Last(s) \in Paths /\ Front(s) \in Seq(Paths)
         /\ ToSet(s) = ToSet(Front(s)) \cup {Last(s)}
<1>0. Len(s) \in Nat \ {0} /\ DOMAIN s = 1..Len(s)
  OBVIOUS
<1>1. /\ Len(Front(s)) = Len(s) - 1
      /\ DOMAIN Front(s) = 1..(Len(s) - 1)
      /\ \A i \in 1..(Len(s) - 1) : Front(s)[i] = s[i]
  BY <1>0 DEF Front
<1>2. Front(s) \in Seq(Paths)
  BY DEF Front
<1>3. 1..Len(s) = 1..(Len(s) - 1) \cup {Len(s)}
  BY <1>0
<1> QED BY <1>0, <1>1, <1>2, <1>3 DEF ToSet, Last

LEMMA UpdateFile ==
  ASSUME NEW t \in Disks, NEW p \in Packages, NEW f \in Files, NEW e \in FileSet
  PROVE  /\ [t EXCEPT ![p][f] = e] \in Disks
         /\ [t EXCEPT ![p][f] = e][p][f] = e
         /\ \A q \in Packages, g \in Files :
              q # p \/ g # f => [t EXCEPT ![p][f] = e][q][g] = t[q][g]
BY DEF Disks

LEMMA ContentFacts ==
  ASSUME TypeOK, NEW p \in Packages
  PROVE  /\ source[p].version \in 1..MaxVersion
         /\ Mappers(p) \in 0..1
         /\ \A n \in 0..1 : Content(source[p].version, n) \in FileSet
         /\ \A n \in 0..1 : Content(source[p].version, n) # None
         /\ UpToDateFile(p) \in FileSet /\ UpToDateFile(p) # None
<1>1. source[p].version \in 1..MaxVersion
  BY DEF TypeOK
<1>2. Mappers(p) \in 0..1
  BY DEF Mappers
<1>3. \A n \in 0..1 : Content(source[p].version, n) \in FileSet
  BY <1>1, BoundsAssumption DEF Content, FileSet
<1>4. \A n \in 0..1 : Content(source[p].version, n) # None
  <2> SUFFICES ASSUME NEW n \in 0..1, Content(source[p].version, n) = None PROVE FALSE
    OBVIOUS
  <2>1. Content(source[p].version, n).version = None.version
    OBVIOUS
  <2> QED BY <1>1, <2>1 DEF Content, None
<1> QED BY <1>1, <1>2, <1>3, <1>4 DEF UpToDateFile

LEMMA TypeFacts ==
  ASSUME TypeOK
  PROVE  /\ temp \in Disks /\ disk \in Disks
         /\ key \in 1..Len(TempKeys) /\ pkg \in Packages /\ Done \subseteq Packages
         /\ stack \in Seq(Paths)
         /\ None \in FileSet
         /\ {"gen", "test", "version"} \subseteq Files
<1>1. key \in 1..Len(TempKeys)
  BY KeysFacts DEF TypeOK
<1>2. None \in FileSet
  BY BoundsAssumption DEF None, FileSet
<1>3. Done \subseteq Packages
  BY <1>1, KeysFacts DEF Done
<1> QED BY <1>1, <1>2, <1>3, KeysFacts DEF TypeOK, pkg, Disks, FileSet, Files, Paths
\* What the loop has left behind, seen from a package it has yet to finish.
LEMMA DoneFacts ==
  ASSUME Inv, phase \in Working \ {"extra"}, NEW q \in Done
  PROVE  VersionReady(q) /\ GenReady(q) /\ <<"dir", q>> \in Pushed
<1>1. phase \in Working /\ phase # "extra"
  OBVIOUS
<1> QED BY <1>1 DEF Inv, WorkInv
----------------------------------------------------------------------------
\* Each step keeps the invariant.

LEMMA InitInv == Init => Inv
<1> SUFFICES ASSUME Init PROVE Inv
  OBVIOUS
<1>1. None \in FileSet
  BY BoundsAssumption DEF None, FileSet
<1>2. TypeOK
  <2>1. disk \in Disks /\ temp \in Disks
    BY <1>1 DEF Init, Disks, Absent
  <2>2. source \in [Packages -> [version : 1..MaxVersion, defines : BOOLEAN, mapper : BOOLEAN]]
    BY BoundsAssumption DEF Init, Sources
  <2>3. stack \in Seq((Files \cup {"dir", "defs"}) \X Packages)
    BY DEF Init
  <2>4. key \in DOMAIN TempKeys
    BY KeysFacts DEF Init
  <2>5. crashes \in 0..MaxCrashes /\ tempDir \subseteq Packages /\ files \subseteq Files \X Packages
    BY BoundsAssumption DEF Init
  <2>6. config \in Configs /\ phase = "idle" /\ result = "none" /\ leftover \in BOOLEAN
    BY DEF Init
  <2> QED BY <2>1, <2>2, <2>3, <2>4, <2>5, <2>6 DEF TypeOK, Disks, FileSet
<1>3. \A p \in Packages, f \in Files : temp[p][f] = None
  BY DEF Init, Absent
<1> QED
  BY <1>2, <1>3 DEF Init, Inv, Sources, WorkInv, MoveInv, FilesInv, CoverInv, IdleInv,
                    LeftInv, MissingExplained, Working

LEMMA EditKeeps ==
  ASSUME Inv, NEW p \in Packages, Edit(p)
  PROVE  Inv'
<1>1. PICK s \in Sources(source[p].version + 1) : source' = [source EXCEPT ![p] = s]
  BY DEF Edit
<1>2. /\ phase = "idle" /\ source[p].version < MaxVersion /\ result' = "none"
      /\ UNCHANGED <<config, disk, temp, tempDir, phase, key, files, stack, crashes, leftover>>
  BY DEF Edit, diskVars
<1>3. source \in [Packages -> [version : 1..MaxVersion, defines : BOOLEAN, mapper : BOOLEAN]]
  BY DEF Inv, TypeOK
<1>4. source[p].version + 1 \in 1..MaxVersion
  BY <1>2, <1>3, BoundsAssumption
<1>5. s \in [version : 1..MaxVersion, defines : BOOLEAN, mapper : BOOLEAN]
  BY <1>4 DEF Sources
<1>6. source' \in [Packages -> [version : 1..MaxVersion, defines : BOOLEAN, mapper : BOOLEAN]]
  BY <1>1, <1>3, <1>5
<1>7. TypeOK'
  BY <1>1, <1>2, <1>3, <1>5, <1>6 DEF Inv, TypeOK
<1>8. LeftInv' /\ (CoverInv => CoverInv')
  BY <1>2 DEF CoverInv, LeftInv, Pushed, Working
<1> QED
  BY <1>2, <1>7, <1>8 DEF Inv, WorkInv, MoveInv, FilesInv, IdleInv, MissingExplained, Working

LEMMA BeginKeeps ==
  ASSUME Inv, Begin
  PROVE  Inv'
<1>1. /\ phase = "idle" /\ phase' = "open" /\ result' = "running"
      /\ UNCHANGED <<config, source, disk, temp, tempDir, key, files, stack, crashes, leftover>>
  BY DEF Begin, diskVars
<1>2. key = 1 /\ files = {}
  BY <1>1 DEF Inv, IdleInv
<1>3. TypeOK'
  BY <1>1 DEF Inv, TypeOK
<1>4. CoverInv => CoverInv'
  BY <1>1 DEF CoverInv, Pushed
<1>5. Done' = {}
  BY <1>1, <1>2 DEF Done
<1>7. ~config.KeepTemp /\ CoverInv => LeftInv'
  <2> SUFFICES ASSUME ~config.KeepTemp, CoverInv, ~leftover, NEW p \in Packages
               PROVE  temp[p]["gen"] = None
    BY <1>1 DEF LeftInv
  <2>1. Pushed = {}
    BY <1>1 DEF Inv, IdleInv, Pushed, ToSet
  <2> QED BY <2>1 DEF CoverInv, Files
<1>6. WorkInv'
  BY <1>1, <1>5 DEF WorkInv, Working
<1> QED
  BY <1>1, <1>2, <1>3, <1>4, <1>6, <1>7 DEF Inv, MoveInv, FilesInv, IdleInv, MissingExplained, Working

LEMMA OpenTempKeeps ==
  ASSUME Inv, OpenTemp
  PROVE  Inv'
<1>1. /\ phase = "open" /\ phase' = "version"
      /\ tempDir' = tempDir \cup {pkg}
      /\ stack' = stack \o <<<<"dir", pkg>>, <<"defs", pkg>>>>
      /\ UNCHANGED <<config, source, disk, temp, key, files, result, crashes, leftover>>
  BY DEF OpenTemp
<1>2. pkg \in Packages /\ pkg' = pkg
  BY <1>1, TypeFacts DEF Inv, pkg
<1>3. stack \in Seq(Paths) /\ <<"dir", pkg>> \in Paths /\ <<"defs", pkg>> \in Paths
  BY <1>2, TypeFacts DEF Inv, Paths
<1>4. stack' \in Seq(Paths) /\ Pushed' = Pushed \cup {<<"dir", pkg>>, <<"defs", pkg>>}
  <2> DEFINE d == <<"dir", pkg>>
             e == <<"defs", pkg>>
  <2>1. d \in Paths /\ e \in Paths /\ stack' = stack \o <<d, e>>
    BY <1>1, <1>3
  <2> HIDE DEF d, e
  <2>2. stack \o <<d, e>> \in Seq(Paths) /\ ToSet(stack \o <<d, e>>) = ToSet(stack) \cup {d, e}
    BY <1>3, <2>1, PushedTwo
  <2> QED BY <2>1, <2>2 DEF Pushed, d, e
<1>5. TypeOK'
  BY <1>1, <1>2, <1>4 DEF Inv, TypeOK, Paths
<1>6. result = "running"
  BY <1>1 DEF Inv, WorkInv, Working
<1>7. (CoverInv => CoverInv') /\ (LeftInv => LeftInv')
  BY <1>1, <1>2, <1>4 DEF CoverInv, LeftInv, Working
<1>8. WorkInv'
  <2>1. \A q \in Packages : (VersionReady(q) => VersionReady(q)') /\ (GenReady(q) => GenReady(q)')
    BY <1>1 DEF VersionReady, GenReady, UpToDateFile
  <2>2. Done' = Done /\ Done \subseteq Packages
    BY <1>1, TypeFacts DEF Inv, Done
  <2> QED BY <1>1, <1>2, <1>4, <1>6, <2>1, <2>2 DEF Inv, WorkInv, Working
<1> QED
  BY <1>1, <1>5, <1>6, <1>7, <1>8 DEF Inv, MoveInv, FilesInv, IdleInv, MissingExplained, Working

LEMMA WriteVersionKeeps ==
  ASSUME Inv, WriteVersion
  PROVE  Inv'
<1>1. /\ phase = "version" /\ phase' = "msgp"
      /\ UNCHANGED <<config, source, disk, tempDir, key, result, crashes, leftover>>
  BY DEF WriteVersion
<1>2. pkg \in Packages /\ pkg' = pkg /\ temp \in Disks
  BY <1>1, TypeFacts DEF Inv, pkg
<1>3. result = "running" /\ <<"dir", pkg>> \in Pushed
  BY <1>1 DEF Inv, WorkInv, Working
<1>4. Done' = Done /\ Done \subseteq Packages
  BY <1>1, TypeFacts DEF Inv, Done
<1>5. CASE ~config.GenVersion
  <2>1. UNCHANGED <<temp, stack, files>>
    BY <1>5 DEF WriteVersion
  <2>2. TypeOK' /\ (CoverInv => CoverInv') /\ (LeftInv => LeftInv')
    BY <1>1, <2>1 DEF Inv, TypeOK, CoverInv, LeftInv, Pushed, Working
  <2>3. WorkInv'
    <3>1. \A q \in Packages : VersionReady(q)' /\ (GenReady(q) => GenReady(q)')
      BY <1>1, <1>5, <2>1 DEF VersionReady, GenReady, UpToDateFile
    <3>2. Pushed' = Pushed
      BY <2>1 DEF Pushed
    <3> QED
      BY <1>1, <1>2, <1>3, <1>4, <3>1, <3>2 DEF Inv, WorkInv, Working
  <2> QED
    BY <1>1, <1>3, <2>1, <2>2, <2>3 DEF Inv, MoveInv, FilesInv, IdleInv, MissingExplained, Working
<1>6. CASE config.GenVersion
  <2>1. /\ temp' = [temp EXCEPT ![pkg]["version"] = UpToDateFile(pkg)]
        /\ stack' = Append(stack, <<"version", pkg>>)
        /\ files' = files \cup {<<"version", pkg>>}
    BY <1>6 DEF WriteVersion
  <2>2. /\ temp' \in Disks
        /\ temp'[pkg]["version"] = UpToDateFile(pkg)
        /\ \A q \in Packages, f \in Files :
             q # pkg \/ f # "version" => temp'[q][f] = temp[q][f]
    <3> DEFINE e == UpToDateFile(pkg)
    <3>1. e \in FileSet /\ "version" \in Files
      BY <1>2, ContentFacts DEF Inv, Files
    <3> HIDE DEF e
    <3>2. temp' = [temp EXCEPT ![pkg]["version"] = e]
      BY <2>1 DEF e
    <3>3. /\ [temp EXCEPT ![pkg]["version"] = e] \in Disks
          /\ [temp EXCEPT ![pkg]["version"] = e][pkg]["version"] = e
          /\ \A q \in Packages, f \in Files :
               q # pkg \/ f # "version" => [temp EXCEPT ![pkg]["version"] = e][q][f] = temp[q][f]
      BY <1>2, <3>1, UpdateFile
    <3> QED BY <3>2, <3>3 DEF e
  <2>3. stack' \in Seq(Paths) /\ Pushed \subseteq Pushed'
    <3> DEFINE e == <<"version", pkg>>
    <3>1. e \in Paths /\ stack \in Seq(Paths) /\ stack' = Append(stack, e)
      BY <1>2, <2>1, TypeFacts DEF Inv, Paths
    <3> HIDE DEF e
    <3>2. ToSet(Append(stack, e)) = ToSet(stack) \cup {e} /\ Append(stack, e) \in Seq(Paths)
      BY <3>1, PushedAppend
    <3> QED BY <3>1, <3>2 DEF Pushed
  <2>4. TypeOK'
    <3>1. files' \subseteq Files \X Packages
      BY <1>2, <2>1 DEF Inv, TypeOK, Files
    <3> QED BY <1>1, <2>2, <2>3, <3>1 DEF Inv, TypeOK, Paths, Disks, FileSet
  <2>5. (CoverInv => CoverInv') /\ (LeftInv => LeftInv')
    BY <1>1, <1>3, <2>2, <2>3 DEF CoverInv, LeftInv, Working, Files
  <2>6. WorkInv'
    <3>1. \A q \in Packages : /\ VersionReady(q) => VersionReady(q)'
                              /\ GenReady(q) => GenReady(q)'
      BY <1>1, <1>2, <2>1, <2>2, TypeFacts DEF Inv, VersionReady, GenReady, UpToDateFile
    <3>2. VersionReady(pkg)'
      BY <1>1, <1>2, <2>1, <2>2 DEF VersionReady, UpToDateFile
    <3>3. phase \in Working \ {"extra"}
      BY <1>1 DEF Working
    <3>4. \A q \in Done : VersionReady(q)' /\ GenReady(q)' /\ <<"dir", q>> \in Pushed'
      BY <1>4, <2>3, <3>1, <3>3, DoneFacts
    <3> QED
      BY <1>1, <1>2, <1>3, <1>4, <2>3, <3>2, <3>4 DEF WorkInv, Working
  <2>7. FilesInv'
    <3>1. \A q \in Packages : temp'[q]["test"] = temp[q]["test"]
      BY <2>2, TypeFacts DEF Inv
    <3>2. \A q \in Packages : /\ <<"test", q>> \in files' => <<"test", q>> \in files
                              /\ <<"version", q>> \in files' => config.GenVersion
      BY <1>6, <2>1
    <3>3. \A q \in Packages : <<"test", q>> \in files' =>
            /\ config.GenTests
            /\ source[q].defines /\ config.defaultName => temp[q]["test"] # None
      BY <1>1, <3>2 DEF Inv, FilesInv, Working
    <3> QED BY <1>1, <3>1, <3>2, <3>3 DEF FilesInv
  <2> QED
    BY <1>1, <1>3, <2>4, <2>5, <2>6, <2>7 DEF Inv, MoveInv, IdleInv, MissingExplained
<1> QED BY <1>5, <1>6

LEMMA RunMsgpKeeps ==
  ASSUME Inv, RunMsgp
  PROVE  Inv'
<1>1. /\ phase = "msgp" /\ phase' = "extra"
      /\ files' = files \cup {<<"gen", pkg>>} \cup (IF config.GenTests THEN {<<"test", pkg>>} ELSE {})
      /\ stack' = IF config.GenTests THEN Append(stack, <<"test", pkg>>) ELSE stack
      /\ UNCHANGED <<config, source, disk, tempDir, key, result, crashes, leftover>>
  BY DEF RunMsgp
<1>2. pkg \in Packages /\ pkg' = pkg /\ temp \in Disks
  BY <1>1, TypeFacts DEF Inv, pkg
<1>3. result = "running" /\ <<"dir", pkg>> \in Pushed
  BY <1>1 DEF Inv, WorkInv, Working
<1>4. Done' = Done /\ Done \subseteq Packages
  BY <1>1, TypeFacts DEF Inv, Done
<1>5. stack' \in Seq(Paths) /\ Pushed \subseteq Pushed'
  <2> DEFINE e == <<"test", pkg>>
  <2>1. e \in Paths /\ stack \in Seq(Paths) /\ (stack' = Append(stack, e) \/ stack' = stack)
    BY <1>1, <1>2, TypeFacts DEF Inv, Paths
  <2> HIDE DEF e
  <2>2. ToSet(Append(stack, e)) = ToSet(stack) \cup {e} /\ Append(stack, e) \in Seq(Paths)
    BY <2>1, PushedAppend
  <2> QED BY <2>1, <2>2 DEF Pushed
<1>6. /\ temp' \in Disks
      /\ source[pkg].defines => temp'[pkg]["gen"] = Content(source[pkg].version, Mappers(pkg))
      /\ source[pkg].defines /\ config.GenTests /\ config.defaultName => temp'[pkg]["test"] # None
      /\ \A q \in Packages, f \in Files :
           q # pkg \/ f = "version" \/ ~source[q].defines => temp'[q][f] = temp[q][f]
  <2> DEFINE new(n) == Content(source[pkg].version, n)
             test == IF config.GenTests /\ config.defaultName THEN new(0) ELSE temp[pkg]["test"]
             t == [temp EXCEPT ![pkg]["gen"] = new(Mappers(pkg))]
  <2>1. CASE ~source[pkg].defines
    BY <1>2, <2>1 DEF RunMsgp
  <2>2. CASE source[pkg].defines
    <3>1. temp' = [t EXCEPT ![pkg]["test"] = test]
      BY <1>2, <2>2 DEF RunMsgp, Disks, Files
    <3>2. new(Mappers(pkg)) \in FileSet /\ test \in FileSet
      BY <1>2, ContentFacts DEF Inv, Disks, Files
    <3>3. config.GenTests /\ config.defaultName => test # None
      BY <1>2, ContentFacts DEF Inv
    <3> HIDE DEF new, test
    <3>4. /\ t \in Disks /\ t[pkg]["gen"] = new(Mappers(pkg))
          /\ \A q \in Packages, f \in Files : q # pkg \/ f # "gen" => t[q][f] = temp[q][f]
      BY <1>2, <3>2, UpdateFile DEF Files
    <3> HIDE DEF t
    <3>5. /\ [t EXCEPT ![pkg]["test"] = test] \in Disks
          /\ [t EXCEPT ![pkg]["test"] = test][pkg]["test"] = test
          /\ \A q \in Packages, f \in Files :
               q # pkg \/ f # "test" => [t EXCEPT ![pkg]["test"] = test][q][f] = t[q][f]
      BY <1>2, <3>2, <3>4, UpdateFile DEF Files
    <3>6. /\ temp' \in Disks
          /\ temp'[pkg]["test"] = test /\ temp'[pkg]["gen"] = new(Mappers(pkg))
          /\ \A q \in Packages, f \in Files : q # pkg \/ f = "version" => temp'[q][f] = temp[q][f]
      BY <1>2, <3>1, <3>4, <3>5 DEF Files
    <3> QED BY <2>2, <3>3, <3>6 DEF new
  <2> QED BY <2>1, <2>2
<1>7. TypeOK'
  <2>1. files' \subseteq Files \X Packages
    <3>1. files \subseteq Files \X Packages
      BY DEF Inv, TypeOK
    <3>2. <<"gen", pkg>> \in Files \X Packages /\ <<"test", pkg>> \in Files \X Packages
      BY <1>2 DEF Files
    <3> QED BY <1>1, <3>1, <3>2
  <2> QED BY <1>1, <1>5, <1>6, <2>1 DEF Inv, TypeOK, Paths, Disks, FileSet
<1>8. (CoverInv => CoverInv') /\ (LeftInv => LeftInv')
  BY <1>1, <1>3, <1>5, <1>6 DEF CoverInv, LeftInv, Working, Files
<1>9. WorkInv'
  <2>1. \A q \in Packages : /\ VersionReady(q) => VersionReady(q)'
                            /\ q # pkg => (GenReady(q) => GenReady(q)')
    BY <1>1, <1>2, <1>6, TypeFacts DEF Inv, VersionReady, GenReady, UpToDateFile
  <2>2. <<"gen", pkg>> \in files' /\ Mappers(pkg)' = Mappers(pkg)
    BY <1>1, <1>2 DEF Mappers
  <2>3. VersionReady(pkg) /\ phase \in Working
    BY <1>1 DEF Inv, WorkInv, Working
  <2>4. \A q \in Done :
          VersionReady(q)' /\ (q # pkg => GenReady(q)') /\ <<"dir", q>> \in Pushed'
    <3>1. phase \in Working \ {"extra"}
      BY <1>1 DEF Working
    <3>2. \A q \in Done : VersionReady(q) /\ GenReady(q) /\ <<"dir", q>> \in Pushed
      BY <3>1, DoneFacts
    <3> QED BY <1>4, <1>5, <2>1, <3>2
  <2>5. VersionReady(pkg)'
    BY <1>1, <1>2, <1>6, <2>3 DEF VersionReady, UpToDateFile, Files
  <2>6. (source[pkg].defines => temp[pkg]["gen"] = Content(source[pkg].version, Mappers(pkg)))'
    BY <1>1, <1>2, <1>6, <2>2
  <2> QED
    BY <1>1, <1>2, <1>3, <1>4, <1>5, <2>2, <2>4, <2>5, <2>6 DEF WorkInv, Working
<1>10. FilesInv'
  <2>1. \A q \in Packages \ {pkg} : temp'[q]["test"] = temp[q]["test"]
    BY <1>6, TypeFacts DEF Inv
  <2>2. \A q \in Packages :
          /\ <<"version", q>> \in files' => <<"version", q>> \in files
          /\ <<"test", q>> \in files' =>
               <<"test", q>> \in files \/ (q = pkg /\ config.GenTests)
    BY <1>1
  <2> QED BY <1>1, <1>6, <2>1, <2>2 DEF Inv, FilesInv, Working
<1> QED
  BY <1>1, <1>3, <1>7, <1>8, <1>9, <1>10 DEF Inv, MoveInv, IdleInv, MissingExplained

LEMMA AppendExtraKeeps ==
  ASSUME Inv, AppendExtra
  PROVE  Inv'
<1> DEFINE last == key = Len(TempKeys)
           e == [temp[pkg]["gen"] EXCEPT !.lacks = Appended(@, Mappers(pkg))]
           missing == source[pkg].mapper /\ temp[pkg]["gen"] = None
<1>1. phase = "extra" /\ UNCHANGED <<config, source, disk, tempDir, files, stack, crashes, leftover>>
  BY DEF AppendExtra
<1>2. pkg \in Packages /\ temp \in Disks /\ key \in 1..Len(TempKeys) /\ Done \subseteq Packages
  BY TypeFacts DEF Inv
<1>3. /\ result = "running" /\ <<"dir", pkg>> \in Pushed /\ VersionReady(pkg)
      /\ <<"gen", pkg>> \in files
      /\ source[pkg].defines => temp[pkg]["gen"] = Content(source[pkg].version, Mappers(pkg))
      /\ \A q \in Done : /\ VersionReady(q)
                         /\ q # pkg => GenReady(q)
                         /\ <<"dir", q>> \in Pushed
  BY <1>1 DEF Inv, WorkInv, Working
<1>4. CASE missing
  <2>1. result' = "panic" /\ phase' = "cleanup" /\ UNCHANGED <<temp, key>>
    BY <1>4 DEF AppendExtra
  <2>2. source[pkg].mapper /\ ~source[pkg].defines
    BY <1>2, <1>3, <1>4, ContentFacts DEF Inv
  <2>3. TypeOK' /\ LeftInv' /\ (CoverInv => CoverInv')
    BY <1>1, <1>3, <2>1 DEF Inv, TypeOK, CoverInv, LeftInv, Pushed, Working
  <2>4. MissingExplained'
    BY <1>1, <1>2, <2>1, <2>2 DEF MissingExplained
  <2> QED
    BY <1>1, <2>1, <2>3, <2>4 DEF Inv, WorkInv, MoveInv, FilesInv, IdleInv, Working
<1> SUFFICES ASSUME ~missing PROVE Inv'
  BY <1>4
<1>5. /\ temp' = [temp EXCEPT ![pkg]["gen"].lacks = Appended(@, Mappers(pkg))]
      /\ result' = result
      /\ phase' = IF last THEN "move" ELSE "open"
      /\ key' = IF last THEN key ELSE key + 1
  BY DEF AppendExtra
<1>6. e \in FileSet /\ (source[pkg].defines => e = UpToDateFile(pkg))
  <2>1. temp[pkg]["gen"] \in FileSet
    BY <1>2 DEF Disks, Files
  <2>2. CASE source[pkg].defines
    <3>1. e = UpToDateFile(pkg)
      <4> DEFINE v == source[pkg].version
                 n == Mappers(pkg)
      <4>1. temp[pkg]["gen"] = [version |-> v, lacks |-> n]
        BY <1>3, <2>2 DEF Content
      <4>2. Appended(n, n) = 0
        BY <1>2, ContentFacts DEF Inv, Appended
      <4> HIDE DEF v, n
      <4>3. [[version |-> v, lacks |-> n] EXCEPT !.lacks = Appended(@, n)]
              = [version |-> v, lacks |-> Appended(n, n)]
        OBVIOUS
      <4> QED BY <4>1, <4>2, <4>3 DEF Content, UpToDateFile, v, n
    <3> QED BY <1>2, <3>1, ContentFacts DEF Inv
  <2>3. CASE ~source[pkg].defines
    <3>1. \A l \in -1..1, n \in 0..1 : Appended(l, n) \in -1..1
      BY DEF Appended
    <3>2. Mappers(pkg) \in 0..1
      BY DEF Mappers
    <3> QED BY <2>1, <2>3, <3>1, <3>2 DEF FileSet
  <2> QED BY <2>2, <2>3
<1>16. temp[pkg]["gen"] = None => e = None
  <2> SUFFICES ASSUME temp[pkg]["gen"] = None PROVE e = None
    OBVIOUS
  <2>1. Mappers(pkg) = 0
    BY DEF Mappers
  <2>2. Appended(0, 0) = 0
    BY DEF Appended
  <2> QED BY <2>1, <2>2 DEF None
<1>7. /\ temp' \in Disks
      /\ temp'[pkg]["gen"] = e
      /\ \A q \in Packages, f \in Files : q # pkg \/ f # "gen" => temp'[q][f] = temp[q][f]
  <2>1. temp' = [temp EXCEPT ![pkg]["gen"] = e]
    BY <1>2, <1>5 DEF Disks, Files
  <2> HIDE DEF e, missing
  <2>2. /\ [temp EXCEPT ![pkg]["gen"] = e] \in Disks
        /\ [temp EXCEPT ![pkg]["gen"] = e][pkg]["gen"] = e
        /\ \A q \in Packages, f \in Files :
             q # pkg \/ f # "gen" => [temp EXCEPT ![pkg]["gen"] = e][q][f] = temp[q][f]
    BY <1>2, <1>6, UpdateFile DEF Files
  <2> QED BY <2>1, <2>2
<1> HIDE DEF e, missing
<1>8. \A q \in Done \cup {pkg} :
        VersionReady(q)' /\ GenReady(q)' /\ <<"dir", q>> \in Pushed'
  <2>1. \A q \in Packages : VersionReady(q) => VersionReady(q)'
    BY <1>1, <1>7 DEF VersionReady, UpToDateFile, Files
  <2>2. \A q \in Packages \ {pkg} : GenReady(q) => GenReady(q)'
    BY <1>1, <1>7 DEF GenReady, UpToDateFile, Files
  <2>3. \A q \in {pkg} : GenReady(q)'
    BY <1>1, <1>3, <1>6, <1>7 DEF GenReady, UpToDateFile
  <2>4. Pushed' = Pushed
    BY <1>1 DEF Pushed
  <2> QED BY <1>2, <1>3, <2>1, <2>2, <2>3, <2>4
<1>9. /\ last => Done \cup {pkg} = Packages
      /\ ~last => Done' = Done \cup {pkg} /\ key' \in 1..Len(TempKeys)
  <2>1. Done \cup {pkg} = {TempKeys[k] : k \in 1..key}
    BY <1>2, KeysFacts DEF Done, pkg
  <2>2. last => \A p \in Packages : p \in {TempKeys[k] : k \in 1..key}
    BY KeysFacts
  <2>3. ~last => (key' - 1) = key /\ key' \in 1..Len(TempKeys)
    BY <1>2, <1>5, KeysFacts
  <2> QED BY <1>2, <2>1, <2>2, <2>3 DEF Done
<1>10. TypeOK'
  <2>1. key' \in DOMAIN TempKeys
    BY <1>2, <1>5, <1>9, KeysFacts
  <2>2. phase' \in {"open", "move"}
    BY <1>5
  <2> QED
    BY <1>1, <1>5, <1>7, <2>1, <2>2 DEF Inv, TypeOK, Disks, FileSet
<1>11. CoverInv => CoverInv'
  <2>1. Pushed' = Pushed
    BY <1>1 DEF Pushed
  <2> QED BY <1>1, <1>3, <1>5, <1>7, <2>1 DEF CoverInv
<1>15. LeftInv => LeftInv'
  <2>1. \A q \in Packages : temp[q]["gen"] = None => temp'[q]["gen"] = None
    BY <1>7, <1>16 DEF Files
  <2> QED BY <1>1, <2>1 DEF LeftInv, Working
<1>12. WorkInv'
  <2>1. CASE last
    BY <1>3, <1>5, <2>1 DEF WorkInv, Working
  <2>2. CASE ~last
    BY <1>3, <1>5, <1>8, <1>9, <2>2 DEF WorkInv, Working
  <2> QED BY <2>1, <2>2
<1>13. MoveInv'
  <2>1. CASE last
    <3>1. \A p \in Packages : VersionReady(p)' /\ GenReady(p)' /\ <<"dir", p>> \in Pushed'
      BY <1>8, <1>9, <2>1
    <3> QED
      BY <1>3, <1>5, <3>1 DEF MoveInv, VersionReady, GenReady, Where
  <2>2. CASE ~last
    BY <1>3, <1>5, <2>2 DEF MoveInv
  <2> QED BY <2>1, <2>2
<1>14. FilesInv'
  <2>1. \A q \in Packages : temp'[q]["test"] = temp[q]["test"]
    BY <1>7 DEF Files
  <2> QED BY <1>1, <2>1 DEF Inv, FilesInv, Working
<1> QED
  BY <1>3, <1>5, <1>10, <1>11, <1>12, <1>13, <1>14, <1>15, <1>1 DEF Inv, IdleInv, MissingExplained

LEMMA MoveKeeps ==
  ASSUME Inv, NEW f \in Files, NEW p \in Packages, Move(f, p)
  PROVE  Inv'
<1>1. /\ phase = "move" /\ <<f, p>> \in files
      /\ UNCHANGED <<config, source, tempDir, key, stack, crashes, leftover>>
  BY DEF Move
<1>2. temp \in Disks /\ disk \in Disks /\ None \in FileSet
  BY TypeFacts DEF Inv
<1>3. result = "running"
  BY <1>1 DEF Inv, WorkInv
<1>4. CASE temp[p][f] = None
  <2>1. phase' = "cleanup" /\ result' = "missing" /\ UNCHANGED <<files, temp, disk>>
    BY <1>4 DEF Move
  <2>5. MissingExplained'
    <3>1. ~source[p].defines \/ (config.GenTests /\ ~config.defaultName)
      <4>1. f = "test" => config.GenTests /\ (~source[p].defines \/ ~config.defaultName)
        BY <1>1, <1>4 DEF Inv, FilesInv
      <4>2. f # "version"
        BY <1>1, <1>4, ContentFacts DEF Inv, FilesInv, MoveInv, Where
      <4>3. f = "gen" => ~source[p].defines
        BY <1>1, <1>4, ContentFacts DEF Inv, MoveInv, Where
      <4> QED BY <4>1, <4>2, <4>3 DEF Files
    <3> QED BY <1>1, <2>1, <3>1 DEF MissingExplained
  <2>6. TypeOK' /\ LeftInv' /\ (CoverInv => CoverInv')
    BY <1>1, <1>3, <2>1 DEF Inv, TypeOK, CoverInv, LeftInv, Pushed, Working
  <2> QED
    BY <1>1, <2>1, <2>5, <2>6 DEF Inv, WorkInv, MoveInv, FilesInv, IdleInv, Working
<1>5. CASE temp[p][f] # None
  <2> DEFINE d == temp[p][f]
  <2>1. /\ files' = files \ {<<f, p>>}
        /\ disk' = [disk EXCEPT ![p][f] = d]
        /\ temp' = [temp EXCEPT ![p][f] = None]
        /\ UNCHANGED <<phase, result>>
    BY <1>5 DEF Move
  <2>2. d \in FileSet
    BY <1>2 DEF Disks
  <2> HIDE DEF d
  <2>3. /\ temp' \in Disks /\ temp'[p][f] = None
        /\ \A q \in Packages, g \in Files : q # p \/ g # f => temp'[q][g] = temp[q][g]
    <3>1. /\ [temp EXCEPT ![p][f] = None] \in Disks
          /\ [temp EXCEPT ![p][f] = None][p][f] = None
          /\ \A q \in Packages, g \in Files :
               q # p \/ g # f => [temp EXCEPT ![p][f] = None][q][g] = temp[q][g]
      BY <1>2, UpdateFile
    <3> QED BY <2>1, <3>1
  <2>4. /\ disk' \in Disks /\ disk'[p][f] = d
        /\ \A q \in Packages, g \in Files : q # p \/ g # f => disk'[q][g] = disk[q][g]
    <3>1. /\ [disk EXCEPT ![p][f] = d] \in Disks
          /\ [disk EXCEPT ![p][f] = d][p][f] = d
          /\ \A q \in Packages, g \in Files :
               q # p \/ g # f => [disk EXCEPT ![p][f] = d][q][g] = disk[q][g]
      BY <1>2, <2>2, UpdateFile
    <3> QED BY <2>1, <3>1
  <2>5. \A q \in Packages, g \in Files : Where(g, q)' = Where(g, q)
    BY <1>1, <2>1, <2>3, <2>4 DEF Where, d
  <2>6. TypeOK'
    BY <1>1, <2>1, <2>3, <2>4 DEF Inv, TypeOK, Disks, FileSet
  <2>7. CoverInv => CoverInv'
    <3>1. Pushed' = Pushed
      BY <1>1 DEF Pushed
    <3> QED BY <1>1, <1>3, <2>1, <2>3, <3>1 DEF CoverInv
  <2>10. LeftInv => LeftInv'
    <3>1. \A q \in Packages : temp[q]["gen"] = None => temp'[q]["gen"] = None
      BY <2>3 DEF Files
    <3> QED BY <1>1, <2>1, <3>1 DEF LeftInv
  <2>8. MoveInv'
    <3>1. Pushed' = Pushed
      BY <1>1 DEF Pushed
    <3> QED BY <1>1, <1>3, <2>1, <2>5, <3>1 DEF Inv, MoveInv, UpToDateFile, Files
  <2>9. FilesInv'
    <3>1. \A q \in Packages : <<"test", q>> \in files' => temp'[q]["test"] = temp[q]["test"]
      BY <2>1, <2>3 DEF Files
    <3> QED BY <1>1, <2>1, <3>1 DEF Inv, FilesInv, Working
  <2> QED
    BY <1>1, <1>3, <2>1, <2>6, <2>7, <2>8, <2>9, <2>10 DEF Inv, WorkInv, IdleInv, MissingExplained, Working
<1> QED BY <1>4, <1>5

LEMMA MovedKeeps ==
  ASSUME Inv, Moved
  PROVE  Inv'
<1>1. /\ phase = "move" /\ files = {} /\ phase' = "cleanup" /\ result' = "ok"
      /\ UNCHANGED <<config, source, disk, temp, tempDir, key, files, stack, crashes, leftover>>
  BY DEF Moved, diskVars
<1>2. Pushed' = Pushed
  BY <1>1 DEF Pushed
<1>3. MoveInv' /\ CoverInv' /\ LeftInv'
  BY <1>1, <1>2 DEF Inv, MoveInv, CoverInv, LeftInv, Where, UpToDateFile, Working
<1> QED
  BY <1>1, <1>3 DEF Inv, TypeOK, WorkInv, FilesInv, IdleInv, MissingExplained, Working

LEMMA FailKeeps ==
  ASSUME Inv, Fail
  PROVE  Inv'
<1>1. /\ phase # "idle" /\ phase' = "cleanup" /\ result' = "failed"
      /\ phase \in Working \cup {"move"}
      /\ UNCHANGED <<config, source, disk, temp, tempDir, key, files, stack, crashes, leftover>>
  BY DEF Fail, diskVars, Working
<1>2. result = "running"
  BY <1>1 DEF Inv, WorkInv
<1>3. LeftInv' /\ (CoverInv => CoverInv')
  BY <1>1, <1>2 DEF CoverInv, LeftInv, Pushed, Working
<1> QED
  BY <1>1, <1>3 DEF Inv, TypeOK, WorkInv, MoveInv, FilesInv, IdleInv,
                    MissingExplained, Working

LEMMA CleanupKeeps ==
  ASSUME Inv, Cleanup
  PROVE  Inv'
<1> DEFINE top == Last(stack)
           rest == Front(stack)
           f == top[1]
           p == top[2]
<1>1. /\ phase = "cleanup" /\ ~config.KeepTemp /\ stack # <<>> /\ stack' = rest
      /\ tempDir' = IF f = "dir" THEN tempDir \ {p} ELSE tempDir
      /\ temp' = CASE f = "dir" -> [temp EXCEPT ![p] = Absent]
                   [] f = "version" -> [temp EXCEPT ![p]["version"] = None]
                   [] OTHER -> temp
      /\ disk' = IF f = "test" THEN [disk EXCEPT ![p]["test"] = None] ELSE disk
      /\ UNCHANGED <<config, source, phase, key, files, result, crashes, leftover>>
  BY DEF Cleanup
<1>2. temp \in Disks /\ disk \in Disks /\ None \in FileSet /\ stack \in Seq(Paths)
  BY TypeFacts DEF Inv
<1>3. top \in Paths /\ rest \in Seq(Paths) /\ ToSet(stack) = ToSet(rest) \cup {top}
  BY <1>1, <1>2, PushedFront
<1>4. p \in Packages /\ top = <<f, p>>
  BY <1>3 DEF Paths
<1> HIDE DEF top, rest, f, p
<1>5. Pushed = Pushed' \cup {<<f, p>>} /\ stack' \in Seq(Paths)
  BY <1>1, <1>3, <1>4 DEF Pushed
<1>6. /\ temp' \in Disks
      /\ f = "dir" => \A g \in Files : temp'[p][g] = None
      /\ \A q \in Packages, g \in Files : temp'[q][g] # None => temp'[q][g] = temp[q][g]
  <2>1. Absent \in [Files -> FileSet] /\ \A g \in Files : Absent[g] = None
    BY <1>2 DEF Absent
  <2>2. CASE f = "dir"
    BY <1>1, <1>2, <1>4, <2>1, <2>2 DEF Disks
  <2>3. CASE f = "version"
    <3>1. temp' = [temp EXCEPT ![p]["version"] = None]
      BY <1>1, <2>3
    <3>2. /\ [temp EXCEPT ![p]["version"] = None] \in Disks
          /\ [temp EXCEPT ![p]["version"] = None][p]["version"] = None
          /\ \A q \in Packages, g \in Files :
               q # p \/ g # "version" =>
                 [temp EXCEPT ![p]["version"] = None][q][g] = temp[q][g]
      BY <1>2, <1>4, UpdateFile DEF Files
    <3> QED BY <2>3, <3>1, <3>2 DEF Files
  <2>4. CASE f \notin {"dir", "version"}
    BY <1>1, <1>2, <2>4
  <2> QED BY <2>2, <2>3, <2>4
<1>7. /\ disk' \in Disks
      /\ \A q \in Packages, g \in Files : g # "test" => disk'[q][g] = disk[q][g]
  BY <1>1, <1>2, <1>4, UpdateFile DEF Files
<1>8. TypeOK'
  BY <1>1, <1>5, <1>6, <1>7 DEF Inv, TypeOK, Paths, Disks, FileSet
<1>9. CoverInv => CoverInv'
  <2> SUFFICES ASSUME CoverInv, ~leftover \/ result = "ok", NEW q \in Packages,
                      q \in tempDir' \/ \E g \in Files : temp'[q][g] # None
               PROVE  <<"dir", q>> \in Pushed'
    BY <1>1 DEF CoverInv
  <2>1. q \in tempDir \/ \E g \in Files : temp[q][g] # None
    BY <1>1, <1>6
  <2>2. <<"dir", q>> \in Pushed
    BY <2>1 DEF CoverInv
  <2>3. CASE f = "dir" /\ q = p
    BY <1>1, <1>6, <2>3
  <2>4. CASE ~(f = "dir" /\ q = p)
    BY <1>5, <2>2, <2>4
  <2> QED BY <2>3, <2>4
<1>10. MoveInv' /\ LeftInv'
  BY <1>1, <1>7 DEF Inv, MoveInv, LeftInv, UpToDateFile, Files, Working
<1> QED
  BY <1>1, <1>8, <1>9, <1>10 DEF Inv, WorkInv, FilesInv, IdleInv, MissingExplained, Working

LEMMA CleanupFailsKeeps ==
  ASSUME Inv, CleanupFails
  PROVE  Inv'
<1> DEFINE p == Last(stack)[2]
<1>1. /\ phase = "cleanup" /\ stack # <<>> /\ stack' = Front(stack)
      /\ result' = IF result = "ok" THEN "failed" ELSE result
      /\ leftover' = TRUE /\ crashes < MaxCrashes /\ crashes' = crashes + 1
      /\ UNCHANGED <<config, source, disk, tempDir, phase, key, files>>
  BY DEF CleanupFails
<1>2. temp \in Disks /\ None \in FileSet /\ stack \in Seq(Paths)
  BY TypeFacts DEF Inv
<1>3. Last(stack) \in Paths /\ stack' \in Seq(Paths)
  BY <1>1, <1>2, PushedFront
<1>4. p \in Packages
  BY <1>3 DEF Paths
<1>5. temp' \in Disks
  <2>1. CASE UNCHANGED temp
    BY <1>2, <2>1
  <2>2. ASSUME NEW gone \in SUBSET Files,
               temp' = [temp EXCEPT ![p] = [f \in Files |-> IF f \in gone THEN None ELSE @[f]]]
        PROVE  temp' \in Disks
    <3> DEFINE t == [f \in Files |-> IF f \in gone THEN None ELSE temp[p][f]]
    <3>1. t \in [Files -> FileSet]
      BY <1>2, <1>4 DEF Disks
    <3>2. temp' = [temp EXCEPT ![p] = t]
      BY <1>2, <1>4, <2>2 DEF Disks
    <3> HIDE DEF t, p
    <3> QED BY <1>2, <1>4, <3>1, <3>2 DEF Disks
  <2> HIDE DEF p
  <2> QED BY <2>1, <2>2 DEF CleanupFails, p
<1>6. TypeOK'
  <2>1. crashes' \in 0..MaxCrashes
    BY <1>1, BoundsAssumption DEF Inv, TypeOK
  <2> QED BY <1>1, <1>3, <1>5, <2>1 DEF Inv, TypeOK, Paths, Disks, FileSet
<1>7. CoverInv' /\ LeftInv'
  BY <1>1 DEF CoverInv, LeftInv
<1>8. MoveInv' /\ MissingExplained'
  BY <1>1 DEF Inv, MoveInv, MissingExplained
<1> QED
  BY <1>1, <1>6, <1>7, <1>8 DEF Inv, WorkInv, FilesInv, IdleInv, Working

LEMMA LeaveKeeps ==
  ASSUME Inv, Return \/ Crash
  PROVE  Inv'
<1>1. phase' = "idle" /\ key' = 1 /\ files' = {} /\ stack' = <<>>
  BY DEF Return, Crash, Leave
<1>2. UNCHANGED <<config, source, disk, temp, tempDir>>
  BY DEF Return, Crash, diskVars
<1>3. key' \in DOMAIN TempKeys
  BY <1>1, KeysFacts
<1>4. TypeOK'
  <2>1. crashes' \in 0..MaxCrashes
    BY BoundsAssumption DEF Inv, TypeOK, Return, Crash
  <2>2. result' \in {"none", "running", "ok", "failed", "missing", "panic", "crashed"}
    BY DEF Inv, TypeOK, Return, Crash
  <2>3. stack' \in Seq((Files \cup {"dir", "defs"}) \X Packages)
    BY <1>1
  <2>4. leftover' \in BOOLEAN
    BY DEF Inv, TypeOK, Return, Crash
  <2> QED BY <1>1, <1>2, <1>3, <2>1, <2>2, <2>3, <2>4 DEF Inv, TypeOK
<1>5. ~config.KeepTemp /\ CoverInv => CoverInv'
  <2>1. CASE Return
    BY <1>2, <2>1 DEF Return, CoverInv, Pushed, Leave
  <2>2. CASE Crash
    BY <2>2 DEF Crash, CoverInv
  <2> QED BY <2>1, <2>2
<1>6. MoveInv' /\ LeftInv' /\ MissingExplained'
  BY <1>1, <1>2 DEF Inv, MoveInv, LeftInv, Working, MissingExplained, Return, Crash, UpToDateFile
<1> QED
  BY <1>1, <1>2, <1>4, <1>5, <1>6 DEF Inv, WorkInv, FilesInv, IdleInv, Working
----------------------------------------------------------------------------
LEMMA NextKeeps ==
  ASSUME Inv, [Next]_vars
  PROVE  Inv'
<1>1. CASE UNCHANGED vars
  <2>1. /\ UNCHANGED <<config, source, disk, temp, tempDir, phase, key, files, stack, result, crashes, leftover>>
        /\ Pushed' = Pushed /\ Done' = Done /\ pkg' = pkg
    BY <1>1 DEF vars, diskVars, Pushed, Done, pkg
  <2>2. TypeOK' /\ FilesInv' /\ IdleInv' /\ MissingExplained'
    BY <2>1 DEF Inv, TypeOK, FilesInv, IdleInv, MissingExplained
  <2>3. (CoverInv => CoverInv') /\ (LeftInv => LeftInv') /\ MoveInv'
    BY <2>1 DEF Inv, CoverInv, LeftInv, MoveInv, Where, UpToDateFile
  <2>4. WorkInv'
    BY <2>1 DEF Inv, WorkInv, VersionReady, GenReady, UpToDateFile, Mappers
  <2> QED BY <2>1, <2>2, <2>3, <2>4 DEF Inv
<1> QED
  BY <1>1, EditKeeps, BeginKeeps, OpenTempKeeps, WriteVersionKeeps, RunMsgpKeeps,
     AppendExtraKeeps, MoveKeeps, MovedKeeps, FailKeeps, CleanupKeeps, CleanupFailsKeeps, LeaveKeeps DEF Next

LEMMA Invariant == Spec => []Inv
BY InitInv, NextKeeps, PTL DEF Spec

\* Type correctness of Generate.
THEOREM TypeCorrect == Spec => []TypeOK
<1>1. Inv => TypeOK
  BY DEF Inv
<1> QED BY <1>1, Invariant, PTL

\* generate.go:85-88: a run that can remove its files leaves nothing temporary,
\* however it ends, and one that succeeds also removes what earlier ones left.
THEOREM TempAlwaysRemoved == Spec => []TempRemoved
<1>1. Inv => TempRemoved
  <2> SUFFICES ASSUME Inv, phase = "idle", ~config.KeepTemp, ~leftover \/ result = "ok"
               PROVE  tempDir = {} /\ \A p \in Packages : temp[p] = Absent
    BY DEF TempRemoved
  <2>1. Pushed = {}
    BY DEF Inv, IdleInv, Pushed, ToSet
  <2>2. tempDir = {} /\ \A p \in Packages, f \in Files : temp[p][f] = None
    BY <2>1 DEF Inv, TypeOK, CoverInv
  <2>3. \A p \in Packages : temp[p] \in [Files -> FileSet]
    BY TypeFacts DEF Inv, Disks
  <2> QED BY <2>2, <2>3 DEF Absent
<1> QED BY <1>1, Invariant, PTL

\* generate.go:251: a run that succeeds has brought every package up to date.
THEOREM AlwaysUpToDate == Spec => []UpToDate
<1>1. Inv => UpToDate
  BY DEF Inv, MoveInv, UpToDate
<1> QED BY <1>1, Invariant, PTL

\* generate.go:251-266: while the moves run, the output of each package is
\* complete wherever it is.
THEOREM AlwaysAllReady == Spec => []AllReady
<1>1. Inv => AllReady
  BY DEF Inv, MoveInv, AllReady, Where
<1> QED BY <1>1, Invariant, PTL

\* generate.go:226,255: what explains a file found missing.
THEOREM AlwaysMissingExplained == Spec => []MissingExplained
<1>1. Inv => MissingExplained
  BY DEF Inv
<1> QED BY <1>1, Invariant, PTL

\* generate.go:251-276: a step that changes an output in place puts there what
\* msgp makes of the current sources, with each mapper once; or, where msgp
\* finds no type in them, something that an earlier run has left.
THEOREM OutputPublishedWhole == Spec => PublishedWhole
<1> DEFINE Whole(p) == disk'[p]["gen"] # disk[p]["gen"] =>
                         IF source[p].defines
                           THEN disk'[p]["gen"] = UpToDateFile(p)
                           ELSE leftover \/ config.KeepTemp
<1>1. ASSUME Inv, [Next]_vars
      PROVE  [\A p \in Packages : Whole(p)]_vars
  <2> SUFFICES ASSUME NEW p \in Packages, disk'[p]["gen"] # disk[p]["gen"]
               PROVE  Whole(p)
    OBVIOUS
  <2>1. disk \in Disks
    BY <1>1, TypeFacts DEF Inv
  <2>2. CASE UNCHANGED disk
    BY <2>2
  <2>3. CASE Cleanup
    BY <2>1, <2>3 DEF Cleanup, Disks, Files
  <2>4. ASSUME NEW q \in Packages, NEW f \in Files, Move(f, q)
        PROVE  Whole(p)
    <3>1. disk' = disk \/ (temp[q][f] # None /\ disk' = [disk EXCEPT ![q][f] = temp[q][f]])
      BY <2>4 DEF Move
    <3>2. f = "gen" /\ q = p /\ disk'[p]["gen"] = temp[p]["gen"] /\ temp[p]["gen"] # None
      BY <2>1, <2>4, <3>1 DEF Disks, Files
    <3>3. CASE source[p].defines
      BY <1>1, <2>4, <3>2, <3>3 DEF Move, Inv, MoveInv, Where
    <3>4. CASE ~source[p].defines
      BY <1>1, <2>4, <3>2, <3>4 DEF Move, Inv, LeftInv
    <3> QED BY <3>3, <3>4
  <2> HIDE DEF Whole
  <2> QED
    BY <1>1, <2>2, <2>3, <2>4 DEF Next, vars, diskVars, Edit, Begin, OpenTemp, WriteVersion,
       RunMsgp, AppendExtra, Moved, Fail, CleanupFails, Return, Crash
<1> QED BY <1>1, Invariant, PTL DEF Spec, PublishedWhole
=============================================================================
