------------------------- MODULE CaptureStdioProofs -------------------------
(***************************************************************************)
(* Theorems about CaptureStdio, for any number of callers and bystanders.  *)
(***************************************************************************)
EXTENDS CaptureStdio, SequenceTheorems, TLAPS

Terminals == [s \in Streams |-> Terminal]
Holding == {"swap", "do", "restore", "stdout", "stderr"}
Places == Holding \cup {"lock", "done", "panicked"}

\* Where the variables of the process and the copies of them can be.
TypeInv ==
  /\ lock \in Callers \cup {Nobody}
  /\ pc \in [Callers -> Places]
  /\ old \in [Callers -> [Streams -> Pipes \cup {Terminal}]]
  /\ std \in [Streams -> Pipes \cup {Terminal}]

\* A caller is between Lock and Unlock exactly if it has the lock.
LockInv == \A c \in Callers : pc[c] \in Holding <=> lock = c

\* Until a function panics, what a caller will restore is the terminal, and
\* the variables are the terminal's unless a caller has them replaced.
StdInv ==
  (\A c \in Callers : pc[c] # "panicked") =>
    /\ \A c \in Callers : pc[c] \in {"swap", "do", "restore"} => old[c] = Terminals
    /\ (\A c \in Callers : pc[c] \notin {"do", "restore"}) => std = Terminals

Inv == TypeInv /\ LockInv /\ StdInv

\* Copying and printing change none of this.
LEMMA OthersKeep ==
  ASSUME Inv, UNCHANGED <<lock, pc, std, old>>
  PROVE  Inv'
BY DEF Inv, TypeInv, LockInv, StdInv

LEMMA CallerKeeps ==
  ASSUME Inv, NEW c \in Callers, Caller(c)
  PROVE  Inv'
<1> USE ActorsAssumption DEF Inv, TypeInv, LockInv, StdInv, Goto, Holding, Places, Terminals
<1>1. CASE Begin(c)
  <2>1. old' = [old EXCEPT ![c] = std] /\ lock = Nobody /\ lock' = c /\ UNCHANGED std
        /\ pc' = [pc EXCEPT ![c] = "swap"] /\ pc[c] = "lock"
    BY <1>1 DEF Begin
  <2> QED BY <2>1
<1>2. CASE Swap(c)
  <2>1. /\ pc[c] = "swap" /\ pc' = [pc EXCEPT ![c] = "do"] /\ UNCHANGED <<lock, old>>
        /\ std' = [s \in Streams |-> <<c, s>>]
    BY <1>2 DEF Swap
  <2>2. \A s \in Streams : <<c, s>> \in Pipes
    BY DEF Pipes
  <2> QED BY <2>1, <2>2
<1>3. CASE DoPanics(c)
  BY <1>3 DEF DoPanics
<1>4. CASE Close(c)
  BY <1>4 DEF Close
<1>5. CASE Restore(c)
  <2>1. /\ pc[c] = "restore" /\ pc' = [pc EXCEPT ![c] = "stdout"] /\ UNCHANGED <<lock, old>>
        /\ std' = old[c]
    BY <1>5 DEF Restore
  <2>2. \A d \in Callers \ {c} : pc[d] \notin Holding
    BY <2>1
  <2> QED BY <2>1, <2>2
<1>6. CASE ReceiveStdout(c)
  BY <1>6 DEF ReceiveStdout
<1>7. CASE ReceiveStderr(c)
  BY <1>7 DEF ReceiveStderr
<1> QED BY <1>1, <1>2, <1>3, <1>4, <1>5, <1>6, <1>7 DEF Caller

\* os.Stdout and os.Stderr are the terminal's whenever nobody captures, as
\* long as no function has panicked (stdio.go:47).
THEOREM AlwaysRestored == Spec => []Restored
<1>1. Init => Inv
  BY ActorsAssumption DEF Init, Inv, TypeInv, LockInv, StdInv, Terminals, Holding, Places
<1>2. Inv /\ [Next]_vars => Inv'
  <2> SUFFICES ASSUME Inv, [Next]_vars PROVE Inv'
    OBVIOUS
  <2>1. CASE UNCHANGED vars
    BY <2>1, OthersKeep DEF vars
  <2>2. CASE \E c \in Callers : Caller(c)
    BY <2>2, CallerKeeps
  <2>3. CASE \E p \in Pipes : Copier(p)
    <3>1. UNCHANGED <<lock, pc, std, old>>
      BY <2>3 DEF Copier, Copy, CopyEnds
    <3> QED BY <3>1, OthersKeep
  <2>4. CASE \E g \in Printers : Write(g) \/ \E s \in Streams : BeginPrint(g, s)
    <3>1. UNCHANGED <<lock, pc, std, old>>
      BY <2>4 DEF Write, BeginPrint
    <3> QED BY <3>1, OthersKeep
  <2>5. CASE Halted
    BY <2>5, OthersKeep DEF Halted, vars
  <2> QED BY <2>1, <2>2, <2>3, <2>4, <2>5 DEF Next
<1>3. Inv => Restored
  <2> SUFFICES ASSUME Inv, lock = Nobody, \A c \in Callers : pc[c] # "panicked",
                      NEW s \in Streams
               PROVE  std[s] = Terminal
    BY DEF Restored
  <2>1. \A c \in Callers : pc[c] \notin Holding
    BY ActorsAssumption DEF Inv, LockInv
  <2> QED BY <2>1 DEF Inv, StdInv, Holding, Terminals
<1> QED BY <1>1, <1>2, <1>3, PTL DEF Spec
----------------------------------------------------------------------------
\* Type correctness: in particular, a pipe never holds more than it can.

LEMMA ChunksAreChunks ==
  ASSUME TypeOK, NEW g \in Printers
  PROVE  [by |-> g, n |-> Count(g) + 1] \in Chunks
<1>1. "stdout" \in Streams /\ "stderr" \in Streams
  BY DEF Streams
<1>2. said[g]["stdout"] \in Seq(Chunks) /\ said[g]["stderr"] \in Seq(Chunks)
  BY <1>1 DEF TypeOK
<1>3. Len(said[g]["stdout"]) \in Nat /\ Len(said[g]["stderr"]) \in Nat
  BY <1>2
<1>4. \A m, n \in Nat : m + n + 1 \in Nat
  OBVIOUS
<1>5. Count(g) + 1 \in Nat
  BY <1>3, <1>4, Zenon DEF Count
<1> QED BY <1>5 DEF Chunks

LEMMA CallerKeepsTypes ==
  ASSUME TypeOK, NEW c \in Callers, Caller(c)
  PROVE  TypeOK'
<1>1. \A s \in Streams : <<c, s>> \in Pipes
  BY DEF Pipes
<1>2. "stdout" \in Streams /\ "stderr" \in Streams
  BY DEF Streams
<1> USE ActorsAssumption DEF TypeOK, Goto, printVars, pipeVars
<1>3. CASE Begin(c)
  <2>1. PICK opened \in SUBSET Streams :
          pipe' = [p \in Pipes |->
            IF p[1] # c THEN pipe[p]
            ELSE [holds |-> <<>>, state |-> IF p[2] \in opened THEN "open" ELSE "nil"]]
    BY <1>3 DEF Begin
  <2>2. /\ pipe' \in [Pipes -> [holds : Seq(Chunks), state : {"none", "open", "closed", "nil"}]]
        /\ \A p \in Pipes : Len(pipe'[p].holds) <= Capacity
    BY <2>1
  <2> QED BY <1>3, <2>2 DEF Begin
<1>4. CASE Swap(c)
  BY <1>4, <1>1 DEF Swap
<1>5. CASE DoPanics(c)
  BY <1>5 DEF DoPanics
<1>6. CASE Close(c)
  <2>1. /\ pipe' \in [Pipes -> [holds : Seq(Chunks), state : {"none", "open", "closed", "nil"}]]
        /\ \A p \in Pipes : pipe'[p].holds = pipe[p].holds
    BY <1>6 DEF Close
  <2> QED BY <1>6, <2>1 DEF Close
<1>7. CASE Restore(c)
  BY <1>7 DEF Restore
<1>8. CASE ReceiveStdout(c)
  BY <1>8, <1>1, <1>2 DEF ReceiveStdout
<1>9. CASE ReceiveStderr(c)
  BY <1>9, <1>1, <1>2 DEF ReceiveStderr
<1> QED BY <1>3, <1>4, <1>5, <1>6, <1>7, <1>8, <1>9 DEF Caller

LEMMA CopierKeepsTypes ==
  ASSUME TypeOK, NEW p \in Pipes, Copier(p)
  PROVE  TypeOK'
<1> USE ActorsAssumption DEF TypeOK, printVars
<1>1. CASE Copy(p)
  <2>1. /\ pipe[p].holds \in Seq(Chunks) /\ pipe[p].holds # <<>>
        /\ copied[p] \in Seq(Chunks)
    BY <1>1 DEF Copy
  <2>2. /\ Head(pipe[p].holds) \in Chunks
        /\ Tail(pipe[p].holds) \in Seq(Chunks)
        /\ Len(Tail(pipe[p].holds)) <= Capacity
    BY <2>1
  <2>3. /\ pipe' \in [Pipes -> [holds : Seq(Chunks), state : {"none", "open", "closed", "nil"}]]
        /\ \A q \in Pipes : Len(pipe'[q].holds) <= Capacity
    <3> DEFINE rest == [pipe[p] EXCEPT !.holds = Tail(@)]
    <3>1. pipe' = [pipe EXCEPT ![p] = rest]
      BY <1>1 DEF Copy
    <3>2. /\ rest \in [holds : Seq(Chunks), state : {"none", "open", "closed", "nil"}]
          /\ rest.holds = Tail(pipe[p].holds)
      BY <2>2
    <3> HIDE DEF rest
    <3> QED BY <2>2, <3>1, <3>2
  <2>4. copied' \in [Pipes -> Seq(Chunks)]
    BY <1>1, <2>1, <2>2 DEF Copy
  <2> QED BY <1>1, <2>3, <2>4 DEF Copy
<1>2. CASE CopyEnds(p)
  BY <1>2 DEF CopyEnds
<1> QED BY <1>1, <1>2 DEF Copier

LEMMA PrintKeepsTypes ==
  ASSUME TypeOK, NEW g \in Printers,
         Write(g) \/ \E s \in Streams : BeginPrint(g, s)
  PROVE  TypeOK'
<1> USE ActorsAssumption DEF TypeOK, pipeVars, Prints
<1>1. CASE Write(g)
  <2> DEFINE w == printing[g]
  <2>1. /\ w \in Prints
        /\ printing' = [printing EXCEPT ![g] = Nothing]
        /\ UNCHANGED <<lock, pc, std, old, copier, copied, said>>
    BY <1>1 DEF Write
  <2>2. CASE UNCHANGED pipe /\ shown' = [shown EXCEPT ![w.stream] = Append(@, w.chunk)]
    BY <2>1, <2>2
  <2>3. CASE /\ w.file # Terminal /\ Len(pipe[w.file].holds) < Capacity
             /\ pipe' = [pipe EXCEPT ![w.file].holds = Append(@, w.chunk)]
             /\ UNCHANGED shown
    <3>1. w.file \in Pipes /\ pipe[w.file].holds \in Seq(Chunks)
      BY <2>1, <2>3
    <3>2. /\ Append(pipe[w.file].holds, w.chunk) \in Seq(Chunks)
          /\ Len(Append(pipe[w.file].holds, w.chunk)) <= Capacity
      BY <2>1, <2>3, <3>1
    <3>3. /\ pipe' \in [Pipes -> [holds : Seq(Chunks), state : {"none", "open", "closed", "nil"}]]
          /\ \A q \in Pipes : Len(pipe'[q].holds) <= Capacity
      <4> DEFINE filled == [pipe[w.file] EXCEPT !.holds = Append(@, w.chunk)]
      <4>1. pipe' = [pipe EXCEPT ![w.file] = filled]
        BY <2>3
      <4>2. /\ filled \in [holds : Seq(Chunks), state : {"none", "open", "closed", "nil"}]
            /\ filled.holds = Append(pipe[w.file].holds, w.chunk)
        BY <3>1, <3>2
      <4> HIDE DEF filled, w
      <4> QED BY <3>1, <3>2, <4>1, <4>2
    <3> QED BY <2>1, <2>3, <3>3
  <2>4. CASE UNCHANGED <<pipe, shown>>
    BY <2>1, <2>4
  <2> QED BY <1>1, <2>2, <2>3, <2>4 DEF Write
<1>2. ASSUME NEW s \in Streams, BeginPrint(g, s)
      PROVE  TypeOK'
  <2>1. [by |-> g, n |-> Count(g) + 1] \in Chunks
    BY ChunksAreChunks
  <2>2. /\ printing' \in [Printers -> Prints \cup {Nothing}]
        /\ said' \in [Printers -> [Streams -> Seq(Chunks)]]
    BY <1>2, <2>1 DEF BeginPrint
  <2> QED BY <1>2, <2>2 DEF BeginPrint
<1> QED BY <1>1, <1>2

THEOREM TypeCorrect == Spec => []TypeOK
<1>1. Init => TypeOK
  BY ActorsAssumption DEF Init, TypeOK
<1>2. TypeOK /\ [Next]_vars => TypeOK'
  <2> SUFFICES ASSUME TypeOK, [Next]_vars PROVE TypeOK'
    OBVIOUS
  <2>1. CASE UNCHANGED vars \/ Halted
    BY <2>1 DEF Halted, vars, pipeVars, printVars, TypeOK
  <2>2. CASE \E c \in Callers : Caller(c)
    BY <2>2, CallerKeepsTypes
  <2>3. CASE \E p \in Pipes : Copier(p)
    BY <2>3, CopierKeepsTypes
  <2>4. CASE \E g \in Printers : Write(g) \/ \E s \in Streams : BeginPrint(g, s)
    BY <2>4, PrintKeepsTypes
  <2> QED BY <2>1, <2>2, <2>3, <2>4 DEF Next
<1> QED BY <1>1, <1>2, PTL DEF Spec
----------------------------------------------------------------------------
\* What there is of a goroutine in a copy: lemmas about Captures.

LEMMA CapturesNothing ==
  ASSUME NEW g
  PROVE  Captures(<<>>, g, <<>>)
<1> DEFINE own == {i \in DOMAIN <<>> : <<>>[i].by = g}
           at == [i \in {} |-> i]
<1>1. at \in Bijection(DOMAIN <<>>, own)
  BY DEF Bijection, Injection, Surjection, IsInjective
<1> QED BY <1>1 DEF Captures

\* A chunk of the goroutine comes to the end of both.
LEMMA CapturesOwn ==
  ASSUME NEW copy \in Seq(Chunks), NEW g, NEW prints \in Seq(Chunks),
         NEW x \in Chunks, x.by = g, Captures(copy, g, prints)
  PROVE  Captures(Append(copy, x), g, Append(prints, x))
<1> DEFINE own(s) == {i \in DOMAIN s : s[i].by = g}
           more == Append(copy, x)
           said1 == Append(prints, x)
<1>1. PICK at \in Bijection(DOMAIN prints, own(copy)) :
        \A i, j \in DOMAIN prints : copy[at[i]] = prints[i] /\ (i < j => at[i] < at[j])
  BY DEF Captures
<1>2. /\ at \in [1..Len(prints) -> own(copy)]
      /\ \A i, j \in 1..Len(prints) : at[i] = at[j] => i = j
      /\ \A k \in own(copy) : \E i \in 1..Len(prints) : at[i] = k
  BY <1>1 DEF Bijection, Injection, Surjection, IsInjective
<1>3. /\ Len(prints) \in Nat /\ Len(copy) \in Nat
      /\ DOMAIN copy = 1..Len(copy) /\ DOMAIN more = 1..(Len(copy) + 1)
      /\ DOMAIN prints = 1..Len(prints) /\ DOMAIN said1 = 1..(Len(prints) + 1)
      /\ \A i \in 1..Len(copy) : more[i] = copy[i]
      /\ more[Len(copy) + 1] = x
      /\ \A i \in 1..Len(prints) : said1[i] = prints[i]
      /\ said1[Len(prints) + 1] = x
  OBVIOUS
<1> DEFINE to == [i \in 1..(Len(prints) + 1) |->
                    IF i = Len(prints) + 1 THEN Len(copy) + 1 ELSE at[i]]
<1>4. own(more) = own(copy) \cup {Len(copy) + 1}
  BY <1>3
<1> HIDE DEF more, said1
<1>5. to \in [DOMAIN said1 -> own(more)]
  BY <1>2, <1>3, <1>4
<1>6. \A i \in 1..Len(prints) : at[i] \in 1..Len(copy)
  BY <1>2, <1>3
<1>7. \A i, j \in DOMAIN said1 : to[i] = to[j] => i = j
  BY <1>2, <1>3, <1>6
<1>8. \A k \in own(more) : \E i \in DOMAIN said1 : to[i] = k
  <2> TAKE k \in own(more)
  <2>1. CASE k = Len(copy) + 1
    BY <2>1, <1>3
  <2>2. CASE k \in own(copy)
    <3>1. PICK i \in 1..Len(prints) : at[i] = k
      BY <1>2, <2>2
    <3>2. i \in DOMAIN said1 /\ i # Len(prints) + 1
      BY <1>3
    <3> QED BY <1>3, <3>1, <3>2
  <2> QED BY <1>4, <2>1, <2>2
<1>9. \A i, j \in DOMAIN said1 : more[to[i]] = said1[i] /\ (i < j => to[i] < to[j])
  BY <1>1, <1>3, <1>6
<1>10. to \in Bijection(DOMAIN said1, own(more))
  BY <1>5, <1>7, <1>8 DEF Bijection, Injection, Surjection, IsInjective
<1> QED BY <1>9, <1>10 DEF Captures, more, said1

\* A chunk of another goroutine comes to the end of the copy.
LEMMA CapturesOther ==
  ASSUME NEW copy \in Seq(Chunks), NEW g, NEW prints \in Seq(Chunks),
         NEW x \in Chunks, x.by # g, Captures(copy, g, prints)
  PROVE  Captures(Append(copy, x), g, prints)
<1> DEFINE own(s) == {i \in DOMAIN s : s[i].by = g}
           more == Append(copy, x)
<1>1. PICK at \in Bijection(DOMAIN prints, own(copy)) :
        \A i, j \in DOMAIN prints : copy[at[i]] = prints[i] /\ (i < j => at[i] < at[j])
  BY DEF Captures
<1>2. /\ DOMAIN copy = 1..Len(copy) /\ DOMAIN more = 1..(Len(copy) + 1)
      /\ Len(copy) \in Nat
      /\ \A i \in 1..Len(copy) : more[i] = copy[i]
      /\ more[Len(copy) + 1] = x
  OBVIOUS
<1>3. own(more) = own(copy)
  BY <1>2
<1>4. \A i \in DOMAIN prints : at[i] \in own(copy)
  BY <1>1 DEF Bijection, Injection
<1>5. \A i \in DOMAIN prints : more[at[i]] = copy[at[i]]
  BY <1>2, <1>4
<1>6. /\ at \in Bijection(DOMAIN prints, own(more))
      /\ \A i, j \in DOMAIN prints : more[at[i]] = prints[i] /\ (i < j => at[i] < at[j])
  BY <1>1, <1>3, <1>5
<1> QED BY <1>6, Zenon DEF Captures

\* The first of what a pipe holds goes to the end of the copy.
LEMMA CopyOnMove ==
  ASSUME NEW copy \in Seq(Chunks), NEW holds \in Seq(Chunks), holds # <<>>
  PROVE  Append(copy, Head(holds)) \o Tail(holds) = copy \o holds
<1> DEFINE a == Append(copy, Head(holds)) \o Tail(holds)
           b == copy \o holds
<1>1. a \in Seq(Chunks) /\ b \in Seq(Chunks) /\ Len(a) = Len(b)
  OBVIOUS
<1>2. \A i \in 1..Len(a) : a[i] = b[i]
  OBVIOUS
<1> HIDE DEF a, b
<1> QED BY <1>1, <1>2, SeqEqual DEF a, b

LEMMA AppendToHolds ==
  ASSUME NEW copy \in Seq(Chunks), NEW holds \in Seq(Chunks), NEW x \in Chunks
  PROVE  copy \o Append(holds, x) = Append(copy \o holds, x)
<1> DEFINE a == copy \o Append(holds, x)
           b == Append(copy \o holds, x)
<1>1. a \in Seq(Chunks) /\ b \in Seq(Chunks) /\ Len(a) = Len(b)
  OBVIOUS
<1>2. \A i \in 1..Len(a) : a[i] = b[i]
  OBVIOUS
<1> HIDE DEF a, b
<1> QED BY <1>1, <1>2, SeqEqual DEF a, b

LEMMA FrontAndLast ==
  ASSUME NEW t \in Seq(Chunks), t # <<>>
  PROVE  Append(Front(t), Last(t)) = t
<1> DEFINE a == Append(Front(t), Last(t))
<1>1. /\ Len(t) \in Nat \ {0} /\ \A i \in 1..Len(t) : t[i] \in Chunks
      /\ Last(t) = t[Len(t)] /\ Last(t) \in Chunks
  BY DEF Last
<1>2. /\ Front(t) \in Seq(Chunks) /\ Len(Front(t)) = Len(t) - 1
      /\ \A i \in 1..(Len(t) - 1) : Front(t)[i] = t[i]
  <2>1. Front(t) = SubSeq(t, 1, Len(t) - 1)
    BY DEF Front
  <2>2. 1 \in Int /\ Len(t) - 1 \in Int /\ \A i \in 1..(Len(t) - 1) : t[i] \in Chunks
    BY <1>1
  <2>3. /\ Front(t) \in Seq(Chunks)
        /\ Len(Front(t)) = IF 1 <= Len(t) - 1 THEN Len(t) - 1 - 1 + 1 ELSE 0
        /\ \A i \in 1..(Len(t) - 1 - 1 + 1) : Front(t)[i] = t[1 + i - 1]
    BY <2>1, <2>2, SubSeqProperties
  <2>4. Len(Front(t)) = Len(t) - 1
    <3>1. \A n \in Nat \ {0} : (IF 1 <= n - 1 THEN n - 1 - 1 + 1 ELSE 0) = n - 1
      OBVIOUS
    <3>2. Len(Front(t)) = IF 1 <= Len(t) - 1 THEN Len(t) - 1 - 1 + 1 ELSE 0
      BY <2>3
    <3> QED BY <1>1, <3>1, <3>2, Zenon
  <2>5. ASSUME NEW i \in 1..(Len(t) - 1) PROVE Front(t)[i] = t[i]
    <3>1. i \in 1..(Len(t) - 1 - 1 + 1) /\ 1 + i - 1 = i
      BY <1>1
    <3> QED BY <2>3, <3>1
  <2> QED BY <2>3, <2>4, <2>5
<1>3. a \in Seq(Chunks) /\ Len(a) = Len(t)
  BY <1>1, <1>2
<1>4. \A i \in 1..Len(a) : a[i] = t[i]
  BY <1>1, <1>2
<1> HIDE DEF a
<1> QED BY <1>3, <1>4, SeqEqual DEF a

LEMMA FrontOfAppend ==
  ASSUME NEW t \in Seq(Chunks), NEW x \in Chunks
  PROVE  /\ Append(t, x) # <<>> /\ Last(Append(t, x)) = x /\ Front(Append(t, x)) = t
         /\ \A i \in DOMAIN Append(t, x) :
              (i \in DOMAIN t /\ Append(t, x)[i] = t[i]) \/ Append(t, x)[i] = x
<1> DEFINE a == Front(Append(t, x))
<1>1. a \in Seq(Chunks) /\ Len(a) = Len(t)
  BY DEF Front
<1>2. \A i \in 1..Len(a) : a[i] = t[i]
  BY DEF Front
<1>3. a = t
  <2> HIDE DEF a
  <2> QED BY <1>1, <1>2, SeqEqual
<1> QED BY <1>3 DEF Last
----------------------------------------------------------------------------
\* Everything a function prints is captured.

\* A caller has its pipes in the place of the files while the function runs.
HeldInv == \A c \in Callers : pc[c] = "do" => std = [s \in Streams |-> <<c, s>>]

\* A function prints while it runs, to its own pipe, and prints no chunk twice.
PrintInv ==
  \A g \in Printers :
    /\ printing[g] # Nothing =>
         LET w == printing[g]
         IN /\ w.chunk.by = g
            /\ said[g][w.stream] # <<>> /\ Last(said[g][w.stream]) = w.chunk
            /\ g \in Callers => pc[g] = "do" /\ w.file = <<g, w.stream>>
    /\ \A s \in Streams : \A i \in DOMAIN said[g][s] :
         said[g][s][i].by = g /\ said[g][s][i].n <= Count(g)
    /\ \A i \in DOMAIN said[g]["stdout"], j \in DOMAIN said[g]["stderr"] :
         said[g]["stdout"][i] # said[g]["stderr"][j]

\* How far the pipe and the copy of a stream are, as far as their caller is.
Placed(c, s) ==
  LET p == <<c, s>>
  IN /\ pipe[p].state = "none" <=> pc[c] = "lock"
     /\ pipe[p].state = "none" => pipe[p].holds = <<>> /\ copier[p] = "off"
     /\ pipe[p].state = "closed" => pc[c] \in {"restore", "stdout", "stderr", "done"}
     /\ copier[p] \in {"send", "done"} => pipe[p].holds = <<>> /\ pipe[p].state # "open"
     /\ pc[c] \in {"lock", "swap"} => said[c][s] = <<>>
     /\ pc[c] = "done" => copier[p] = "done"
     /\ pc[c] = "stderr" /\ s = "stdout" => copier[p] = "done"

PlaceInv == \A c \in Callers, s \in Streams : Placed(c, s)

\* What c has written on s: what it has printed, but for a write that it is in.
Written(c, s) ==
  IF printing[c] # Nothing /\ printing[c].stream = s THEN Front(said[c][s]) ELSE said[c][s]

\* The copy of a stream and what its pipe holds are, of the caller, what it has
\* written.
FlowInv ==
  \A c \in Callers, s \in Streams :
    pipe[<<c, s>>].state # "nil" =>
      Captures(copied[<<c, s>>] \o pipe[<<c, s>>].holds, c, Written(c, s))

\* A chunk of a caller is nowhere but in its own pipe and copy.
KeptInv ==
  /\ \A r \in Streams : \A i \in DOMAIN shown[r] : shown[r][i].by \notin Callers
  /\ \A p \in Pipes :
       LET flow == copied[p] \o pipe[p].holds
       IN \A i \in DOMAIN flow :
            flow[i].by \in Callers =>
              flow[i].by = p[1] /\ flow[i] \in ToSet(said[p[1]][p[2]])

CaptureInv == TypeOK /\ Inv /\ HeldInv /\ PrintInv /\ PlaceInv /\ FlowInv /\ KeptInv

LEMMA FlowUnchanged ==
  ASSUME TypeOK, FlowInv, KeptInv, UNCHANGED <<copied, printVars>>,
         \A p \in Pipes : /\ pipe'[p].holds = pipe[p].holds
                          /\ pipe[p].state = "nil" => pipe'[p].state = "nil"
  PROVE  FlowInv' /\ KeptInv'
<1>1. \A c \in Callers, s \in Streams : <<c, s>> \in Pipes
  BY DEF Pipes
<1>2. UNCHANGED <<printing, said, shown>>
  BY DEF printVars
<1>3. \A c \in Callers, s \in Streams : Written(c, s)' = Written(c, s)
  BY <1>2 DEF Written
<1>4. FlowInv'
  BY <1>1, <1>2, <1>3 DEF FlowInv
<1>5. KeptInv'
  BY <1>2 DEF KeptInv
<1> QED BY <1>4, <1>5

LEMMA CallerKeepsCapture ==
  ASSUME CaptureInv, NEW c \in Callers, Caller(c)
  PROVE  CaptureInv'
<1>1. \A d \in Callers, s \in Streams : <<d, s>> \in Pipes /\ <<d, s>>[1] = d /\ <<d, s>>[2] = s
  BY DEF Pipes
<1>2. "stdout" \in Streams /\ "stderr" \in Streams
  BY DEF Streams
<1>3. UNCHANGED <<copied, printing, said, shown>>
  BY DEF Caller, Begin, Swap, DoPanics, Close, Restore, ReceiveStdout, ReceiveStderr,
         pipeVars, printVars
<1>4. TypeOK' /\ Inv'
  BY CallerKeepsTypes, CallerKeeps DEF CaptureInv
<1>5. /\ pc \in [Callers -> Places]
      /\ \A d \in Callers : pc[d] \in Holding <=> lock = d
  BY DEF CaptureInv, Inv, TypeInv, LockInv
<1>6. \A d \in Callers : pc[d] # "do" => printing[d] = Nothing
  BY DEF CaptureInv, PrintInv, Printers
<1>7. ASSUME NEW there, pc' = [pc EXCEPT ![c] = there],
             pc[c] # "do" \/ printing[c] = Nothing
      PROVE  PrintInv'
  <2>1. \A g \in Printers : Count(g)' = Count(g)
    BY <1>3 DEF Count
  <2>2. \A d \in Callers : d # c => pc'[d] = pc[d]
    BY <1>5, <1>7
  <2>3. printing[c] = Nothing
    BY <1>6, <1>7
  <2> QED BY <1>3, <2>1, <2>2, <2>3 DEF CaptureInv, PrintInv
<1>8. CASE Begin(c)
  <2>1. PICK opened \in SUBSET Streams :
          pipe' = [p \in Pipes |->
            IF p[1] # c THEN pipe[p]
            ELSE [holds |-> <<>>, state |-> IF p[2] \in opened THEN "open" ELSE "nil"]]
    BY <1>8 DEF Begin
  <2>2. /\ pc[c] = "lock" /\ pc' = [pc EXCEPT ![c] = "swap"]
        /\ UNCHANGED <<std, copier, copied, printVars>>
    BY <1>8 DEF Begin, Goto
  <2>3. \A s \in Streams : /\ pipe[<<c, s>>].state = "none" /\ pipe[<<c, s>>].holds = <<>>
                           /\ copier[<<c, s>>] = "off" /\ said[c][s] = <<>>
    BY <2>2 DEF CaptureInv, PlaceInv, Placed
  <2>4. \A p \in Pipes : /\ pipe'[p].holds = pipe[p].holds
                         /\ pipe[p].state = "nil" => pipe'[p].state = "nil"
    BY <2>1, <2>3 DEF Pipes
  <2>5. FlowInv' /\ KeptInv'
    BY <2>2, <2>4, FlowUnchanged DEF CaptureInv
  <2>6. HeldInv'
    BY <2>2, <1>5 DEF CaptureInv, HeldInv
  <2>7. \A d \in Callers : d # c =>
          pc'[d] = pc[d] /\ \A s \in Streams : pipe'[<<d, s>>] = pipe[<<d, s>>]
    BY <2>1, <2>2, <1>1, <1>5
  <2>8. \A s \in Streams : pipe'[<<c, s>>].state \in {"open", "nil"}
    BY <2>1, <1>1
  <2>9. pc'[c] = "swap"
    BY <2>2, <1>5
  <2>10. PlaceInv'
    <3> SUFFICES ASSUME NEW d \in Callers, NEW s \in Streams PROVE Placed(d, s)'
      BY DEF PlaceInv
    <3>1. Placed(d, s) /\ <<d, s>> \in Pipes
      BY <1>1 DEF CaptureInv, PlaceInv
    <3>2. CASE d = c
      BY <3>1, <3>2, <1>3, <2>2, <2>3, <2>7, <2>8, <2>9, <1>1 DEF Placed
    <3>3. CASE d # c
      BY <3>1, <3>3, <1>3, <2>2, <2>3, <2>7, <2>8, <2>9, <1>1 DEF Placed
    <3> QED BY <3>2, <3>3
  <2> QED BY <1>4, <1>7, <2>2, <2>5, <2>6, <2>10 DEF CaptureInv
<1>9. CASE Swap(c)
  <2>1. /\ pc[c] = "swap" /\ pc' = [pc EXCEPT ![c] = "do"]
        /\ std' = [s \in Streams |-> <<c, s>>]
        /\ copier' = [p \in Pipes |-> IF p[1] = c THEN "copy" ELSE copier[p]]
        /\ UNCHANGED <<lock, old, pipe, copied, printVars>>
    BY <1>9 DEF Swap, Goto
  <2>2. FlowInv' /\ KeptInv'
    BY <2>1, FlowUnchanged DEF CaptureInv
  <2>3. \A d \in Callers : d # c => pc'[d] = pc[d] /\ pc[d] # "do"
    BY <2>1, <1>5 DEF Holding
  <2>4. HeldInv'
    BY <2>1, <2>3 DEF HeldInv
  <2>5. \A d \in Callers, s \in Streams :
          copier'[<<d, s>>] = IF d = c THEN "copy" ELSE copier[<<d, s>>]
    BY <2>1, <1>1
  <2>6. pc'[c] = "do"
    BY <2>1, <1>5
  <2>7. PlaceInv'
    <3> SUFFICES ASSUME NEW d \in Callers, NEW s \in Streams PROVE Placed(d, s)'
      BY DEF PlaceInv
    <3>1. Placed(d, s) /\ <<d, s>> \in Pipes
      BY <1>1 DEF CaptureInv, PlaceInv
    <3>2. CASE d = c
      BY <3>1, <3>2, <1>2, <1>3, <2>1, <2>3, <2>5, <2>6 DEF Placed
    <3>3. CASE d # c
      BY <3>1, <3>3, <1>2, <1>3, <2>1, <2>3, <2>5, <2>6 DEF Placed
    <3> QED BY <3>2, <3>3
  <2> QED BY <1>4, <1>7, <2>1, <2>2, <2>4, <2>7 DEF CaptureInv
<1>10. CASE DoPanics(c)
  <2>1. /\ pc[c] = "do" /\ pc' = [pc EXCEPT ![c] = "panicked"] /\ printing[c] = Nothing
        /\ UNCHANGED <<std, old, pipe, copier, copied, printVars>>
    BY <1>10 DEF DoPanics, Goto, pipeVars
  <2>2. FlowInv' /\ KeptInv'
    BY <2>1, FlowUnchanged DEF CaptureInv
  <2>3. HeldInv'
    BY <2>1, <1>5 DEF CaptureInv, HeldInv
  <2>4. PlaceInv'
    <3> SUFFICES ASSUME NEW d \in Callers, NEW s \in Streams PROVE Placed(d, s)'
      BY DEF PlaceInv
    <3>1. Placed(d, s) /\ <<d, s>> \in Pipes
      BY <1>1 DEF CaptureInv, PlaceInv
    <3>2. CASE d = c
      BY <3>1, <3>2, <1>3, <1>5, <2>1 DEF Placed
    <3>3. CASE d # c
      BY <3>1, <3>3, <1>3, <1>5, <2>1 DEF Placed
    <3> QED BY <3>2, <3>3
  <2> QED BY <1>4, <1>7, <2>1, <2>2, <2>3, <2>4 DEF CaptureInv
<1>11. CASE Close(c)
  <2>1. /\ pc[c] = "do" /\ pc' = [pc EXCEPT ![c] = "restore"] /\ printing[c] = Nothing
        /\ pipe' = [p \in Pipes |->
             IF p[1] = c /\ pipe[p].state = "open" THEN [pipe[p] EXCEPT !.state = "closed"]
             ELSE pipe[p]]
        /\ UNCHANGED <<lock, std, old, copier, copied, printVars>>
    BY <1>11 DEF Close, Goto
  <2>2. pipe \in [Pipes -> [holds : Seq(Chunks), state : {"none", "open", "closed", "nil"}]]
    BY DEF CaptureInv, TypeOK
  <2>3. \A p \in Pipes : /\ pipe'[p].holds = pipe[p].holds
                         /\ pipe'[p].state = IF p[1] = c /\ pipe[p].state = "open"
                                             THEN "closed" ELSE pipe[p].state
    BY <2>1, <2>2
  <2>4. FlowInv' /\ KeptInv'
    BY <2>1, <2>3, FlowUnchanged DEF CaptureInv
  <2>5. HeldInv'
    BY <2>1, <1>5 DEF CaptureInv, HeldInv
  <2>6. \A d \in Callers : d # c => pc'[d] = pc[d]
    BY <2>1, <1>5
  <2>7. pc'[c] = "restore"
    BY <2>1, <1>5
  <2>8. PlaceInv'
    <3> SUFFICES ASSUME NEW d \in Callers, NEW s \in Streams PROVE Placed(d, s)'
      BY DEF PlaceInv
    <3>1. Placed(d, s) /\ <<d, s>> \in Pipes
      BY <1>1 DEF CaptureInv, PlaceInv
    <3>2. CASE d = c
      BY <3>1, <3>2, <1>1, <1>2, <1>3, <2>1, <2>3, <2>6, <2>7 DEF Placed
    <3>3. CASE d # c
      BY <3>1, <3>3, <1>1, <1>2, <1>3, <2>1, <2>3, <2>6, <2>7 DEF Placed
    <3> QED BY <3>2, <3>3
  <2> QED BY <1>4, <1>7, <2>1, <2>4, <2>5, <2>8 DEF CaptureInv
<1>12. CASE Restore(c)
  <2>1. /\ pc[c] = "restore" /\ pc' = [pc EXCEPT ![c] = "stdout"]
        /\ UNCHANGED <<lock, old, pipe, copier, copied, printVars>>
    BY <1>12 DEF Restore, Goto, pipeVars
  <2>2. FlowInv' /\ KeptInv'
    BY <2>1, FlowUnchanged DEF CaptureInv
  <2>3. \A d \in Callers : pc'[d] # "do"
    BY <2>1, <1>5 DEF Holding
  <2>4. HeldInv'
    BY <2>3 DEF HeldInv
  <2>5. PlaceInv'
    <3> SUFFICES ASSUME NEW d \in Callers, NEW s \in Streams PROVE Placed(d, s)'
      BY DEF PlaceInv
    <3>1. Placed(d, s) /\ <<d, s>> \in Pipes
      BY <1>1 DEF CaptureInv, PlaceInv
    <3>2. CASE d = c
      BY <3>1, <3>2, <1>3, <1>5, <2>1 DEF Placed
    <3>3. CASE d # c
      BY <3>1, <3>3, <1>3, <1>5, <2>1 DEF Placed
    <3> QED BY <3>2, <3>3
  <2> QED BY <1>4, <1>7, <2>1, <2>2, <2>4, <2>5 DEF CaptureInv
<1>13. CASE ReceiveStdout(c)
  <2>1. /\ pc[c] = "stdout" /\ pc' = [pc EXCEPT ![c] = "stderr"]
        /\ copier[<<c, "stdout">>] = "send"
        /\ copier' = [copier EXCEPT ![<<c, "stdout">>] = "done"]
        /\ UNCHANGED <<lock, std, old, pipe, copied, printVars>>
    BY <1>13 DEF ReceiveStdout, Goto
  <2>2. FlowInv' /\ KeptInv'
    BY <2>1, FlowUnchanged DEF CaptureInv
  <2>3. HeldInv'
    BY <2>1, <1>5 DEF CaptureInv, HeldInv
  <2>4. copier \in [Pipes -> {"off", "copy", "send", "done"}]
    BY DEF CaptureInv, TypeOK
  <2>5. \A d \in Callers, s \in Streams :
          copier'[<<d, s>>] = IF d = c /\ s = "stdout" THEN "done" ELSE copier[<<d, s>>]
    BY <2>1, <2>4, <1>1
  <2>6. PlaceInv'
    <3> SUFFICES ASSUME NEW d \in Callers, NEW s \in Streams PROVE Placed(d, s)'
      BY DEF PlaceInv
    <3>1. Placed(d, s) /\ <<d, s>> \in Pipes
      BY <1>1 DEF CaptureInv, PlaceInv
    <3>2. CASE d = c
      BY <3>1, <3>2, <1>2, <1>3, <1>5, <2>1, <2>5 DEF Placed
    <3>3. CASE d # c
      BY <3>1, <3>3, <1>2, <1>3, <1>5, <2>1, <2>5 DEF Placed
    <3> QED BY <3>2, <3>3
  <2> QED BY <1>4, <1>7, <2>1, <2>2, <2>3, <2>6 DEF CaptureInv
<1>14. CASE ReceiveStderr(c)
  <2>1. /\ pc[c] = "stderr" /\ pc' = [pc EXCEPT ![c] = "done"]
        /\ copier[<<c, "stderr">>] = "send"
        /\ copier' = [copier EXCEPT ![<<c, "stderr">>] = "done"]
        /\ UNCHANGED <<std, old, pipe, copied, printVars>>
    BY <1>14 DEF ReceiveStderr, Goto
  <2>2. FlowInv' /\ KeptInv'
    BY <2>1, FlowUnchanged DEF CaptureInv
  <2>3. HeldInv'
    BY <2>1, <1>5 DEF CaptureInv, HeldInv
  <2>4. copier \in [Pipes -> {"off", "copy", "send", "done"}]
    BY DEF CaptureInv, TypeOK
  <2>5. \A d \in Callers, s \in Streams :
          copier'[<<d, s>>] = IF d = c /\ s = "stderr" THEN "done" ELSE copier[<<d, s>>]
    BY <2>1, <2>4, <1>1
  <2>6. PlaceInv'
    <3> SUFFICES ASSUME NEW d \in Callers, NEW s \in Streams PROVE Placed(d, s)'
      BY DEF PlaceInv
    <3>1. Placed(d, s) /\ <<d, s>> \in Pipes
      BY <1>1 DEF CaptureInv, PlaceInv
    <3>2. CASE d = c
      BY <3>1, <3>2, <1>2, <1>3, <1>5, <2>1, <2>5 DEF Placed, Streams
    <3>3. CASE d # c
      BY <3>1, <3>3, <1>2, <1>3, <1>5, <2>1, <2>5 DEF Placed
    <3> QED BY <3>2, <3>3
  <2> QED BY <1>4, <1>7, <2>1, <2>2, <2>3, <2>6 DEF CaptureInv
<1> QED BY <1>8, <1>9, <1>10, <1>11, <1>12, <1>13, <1>14 DEF Caller

LEMMA CopierKeepsCapture ==
  ASSUME CaptureInv, NEW p \in Pipes, Copier(p)
  PROVE  CaptureInv'
<1>1. \A d \in Callers, s \in Streams : <<d, s>> \in Pipes
  BY DEF Pipes
<1>2. UNCHANGED <<lock, pc, std, old, printing, said, shown>>
  BY DEF Copier, Copy, CopyEnds, printVars
<1>3. TypeOK' /\ Inv'
  BY <1>2, CopierKeepsTypes, OthersKeep DEF CaptureInv
<1>4. HeldInv' /\ PrintInv'
  <2>1. \A g \in Printers : Count(g)' = Count(g)
    BY <1>2 DEF Count
  <2> QED BY <1>2, <2>1 DEF CaptureInv, HeldInv, PrintInv
<1>5. /\ pipe \in [Pipes -> [holds : Seq(Chunks), state : {"none", "open", "closed", "nil"}]]
      /\ copier \in [Pipes -> {"off", "copy", "send", "done"}]
      /\ copied \in [Pipes -> Seq(Chunks)]
  BY DEF CaptureInv, TypeOK
<1>6. CASE Copy(p)
  <2> DEFINE rest == [pipe[p] EXCEPT !.holds = Tail(@)]
  <2>1. /\ copier[p] = "copy" /\ pipe[p].holds # <<>>
        /\ copied' = [copied EXCEPT ![p] = Append(@, Head(pipe[p].holds))]
        /\ pipe' = [pipe EXCEPT ![p] = rest]
        /\ UNCHANGED copier
    BY <1>6 DEF Copy
  <2>2. rest.holds = Tail(pipe[p].holds) /\ rest.state = pipe[p].state
    BY <1>5
  <2>3. \A q \in Pipes : /\ pipe'[q].state = pipe[q].state
                         /\ q # p => pipe'[q] = pipe[q] /\ copied'[q] = copied[q]
    BY <1>5, <2>1, <2>2
  <2>4. \A q \in Pipes : copied'[q] \o pipe'[q].holds = copied[q] \o pipe[q].holds
    <3> TAKE q \in Pipes
    <3>1. CASE q = p
      <4>1. copied'[p] = Append(copied[p], Head(pipe[p].holds))
            /\ pipe'[p].holds = Tail(pipe[p].holds)
        BY <1>5, <2>1, <2>2
      <4>2. copied[p] \in Seq(Chunks) /\ pipe[p].holds \in Seq(Chunks)
        BY <1>5
      <4>3. Append(copied[p], Head(pipe[p].holds)) \o Tail(pipe[p].holds)
              = copied[p] \o pipe[p].holds
        BY <2>1, <4>2, CopyOnMove
      <4> QED BY <3>1, <4>1, <4>3
    <3> QED BY <2>3, <3>1
  <2>5. \A c \in Callers, s \in Streams : Written(c, s)' = Written(c, s)
    BY <1>2 DEF Written
  <2>6. FlowInv'
    BY <1>1, <2>3, <2>4, <2>5 DEF CaptureInv, FlowInv
  <2>7. KeptInv'
    BY <1>2, <2>4 DEF CaptureInv, KeptInv
  <2>8. PlaceInv'
    <3> SUFFICES ASSUME NEW d \in Callers, NEW s \in Streams PROVE Placed(d, s)'
      BY DEF PlaceInv
    <3>1. Placed(d, s) /\ <<d, s>> \in Pipes
      BY <1>1 DEF CaptureInv, PlaceInv
    <3>2. CASE <<d, s>> = p
      BY <1>2, <2>1, <2>3, <3>1, <3>2 DEF Placed
    <3>3. CASE <<d, s>> # p
      BY <1>2, <2>1, <2>3, <3>1, <3>3 DEF Placed
    <3> QED BY <3>2, <3>3
  <2> QED BY <1>3, <1>4, <2>6, <2>7, <2>8 DEF CaptureInv
<1>7. CASE CopyEnds(p)
  <2>1. /\ copier[p] = "copy" /\ pipe[p].holds = <<>> /\ pipe[p].state # "open"
        /\ copier' = [copier EXCEPT ![p] = "send"]
        /\ UNCHANGED <<pipe, copied, printVars>>
    BY <1>7 DEF CopyEnds
  <2>2. FlowInv' /\ KeptInv'
    BY <2>1, FlowUnchanged DEF CaptureInv
  <2>3. PlaceInv'
    <3> SUFFICES ASSUME NEW d \in Callers, NEW s \in Streams PROVE Placed(d, s)'
      BY DEF PlaceInv
    <3>1. Placed(d, s) /\ <<d, s>> \in Pipes
      BY <1>1 DEF CaptureInv, PlaceInv
    <3>2. CASE <<d, s>> = p
      BY <1>2, <1>5, <2>1, <3>1, <3>2 DEF Placed
    <3>3. CASE <<d, s>> # p
      BY <1>2, <1>5, <2>1, <3>1, <3>3 DEF Placed
    <3> QED BY <3>2, <3>3
  <2> QED BY <1>3, <1>4, <2>2, <2>3 DEF CaptureInv
<1> QED BY <1>6, <1>7 DEF Copier

\* A write of g goes to the end of what its pipe holds, or to the terminal.
LEMMA WriteKeepsCapture ==
  ASSUME CaptureInv, NEW g \in Printers, Write(g)
  PROVE  CaptureInv'
<1> DEFINE w == printing[g]
<1>1. \A d \in Callers, s \in Streams : <<d, s>> \in Pipes
  BY DEF Pipes
<1>2. /\ UNCHANGED <<lock, pc, std, old, copier, copied, said>>
      /\ printing' = [printing EXCEPT ![g] = Nothing]
      /\ w # Nothing
  BY DEF Write
<1>3. TypeOK' /\ Inv'
  BY <1>2, PrintKeepsTypes, OthersKeep DEF CaptureInv
<1>4. /\ pipe \in [Pipes -> [holds : Seq(Chunks), state : {"none", "open", "closed", "nil"}]]
      /\ printing \in [Printers -> Prints \cup {Nothing}]
      /\ said \in [Printers -> [Streams -> Seq(Chunks)]]
      /\ copied \in [Pipes -> Seq(Chunks)]
      /\ shown \in [Streams -> Seq(Chunks)]
  BY DEF CaptureInv, TypeOK
<1>5. /\ w \in Prints /\ w.chunk \in Chunks /\ w.stream \in Streams
      /\ w.file \in Pipes \cup {Terminal}
  BY <1>2, <1>4 DEF Prints
<1>6. /\ w.chunk.by = g /\ said[g][w.stream] # <<>> /\ Last(said[g][w.stream]) = w.chunk
      /\ g \in Callers => pc[g] = "do" /\ w.file = <<g, w.stream>>
  BY <1>2 DEF CaptureInv, PrintInv
<1>7. HeldInv' /\ PrintInv'
  <2>1. \A h \in Printers : Count(h)' = Count(h)
    BY <1>2 DEF Count
  <2>2. \A h \in Printers : printing'[h] # Nothing => printing'[h] = printing[h]
    BY <1>2, <1>4
  <2> QED BY <1>2, <2>1, <2>2 DEF CaptureInv, HeldInv, PrintInv
<1>8. \A d \in Callers, s \in Streams :
        Written(d, s)' = IF d = g THEN said[d][s] ELSE Written(d, s)
  BY <1>2, <1>4 DEF Written, Printers
<1>9. /\ \A p \in Pipes : copied[p] \in Seq(Chunks) /\ pipe[p].holds \in Seq(Chunks)
      /\ \A s \in Streams : said[g][s] \in Seq(Chunks)
  BY <1>4
<1>10. \A d \in Callers, s \in Streams : Written(d, s) \in Seq(Chunks)
  BY <1>4 DEF Written, Front, Printers
<1>11. CASE /\ w.file = Terminal
            /\ shown' = [shown EXCEPT ![w.stream] = Append(@, w.chunk)]
            /\ UNCHANGED pipe
  <2>1. g \notin Callers
    BY <1>1, <1>5, <1>6, <1>11, ActorsAssumption
  <2>2. FlowInv'
    BY <1>2, <1>8, <1>11, <2>1 DEF CaptureInv, FlowInv
  <2>3. \A r \in Streams : \A i \in DOMAIN shown'[r] : shown'[r][i].by \notin Callers
    <3> TAKE r \in Streams
    <3>1. CASE r = w.stream
      <4>1. shown'[r] = Append(shown[r], w.chunk) /\ shown[r] \in Seq(Chunks)
        BY <1>4, <1>5, <1>11, <3>1
      <4>2. \A i \in DOMAIN Append(shown[r], w.chunk) :
              \/ i \in DOMAIN shown[r] /\ Append(shown[r], w.chunk)[i] = shown[r][i]
              \/ Append(shown[r], w.chunk)[i] = w.chunk
        BY <4>1, <1>5
      <4> QED BY <1>6, <2>1, <4>1, <4>2 DEF CaptureInv, KeptInv
    <3>2. CASE r # w.stream
      BY <1>4, <1>11, <3>2 DEF CaptureInv, KeptInv
    <3> QED BY <3>1, <3>2
  <2>4. KeptInv'
    BY <1>2, <1>11, <2>3 DEF CaptureInv, KeptInv
  <2>5. PlaceInv'
    <3>1. \A d \in Callers, s \in Streams : Placed(d, s)' <=> Placed(d, s)
      BY <1>2, <1>11 DEF Placed
    <3> QED BY <3>1 DEF CaptureInv, PlaceInv
  <2> QED BY <1>3, <1>7, <2>2, <2>4, <2>5 DEF CaptureInv
<1>12. CASE /\ w.file # Terminal /\ pipe[w.file].state = "open"
            /\ pipe' = [pipe EXCEPT ![w.file].holds = Append(@, w.chunk)]
            /\ UNCHANGED shown
  <2> DEFINE f == w.file
             more == [pipe[f] EXCEPT !.holds = Append(@, w.chunk)]
  <2>1. f \in Pipes /\ pipe' = [pipe EXCEPT ![f] = more]
    BY <1>5, <1>12
  <2>2. more.holds = Append(pipe[f].holds, w.chunk) /\ more.state = pipe[f].state
    BY <1>4, <2>1
  <2>3. /\ \A q \in Pipes : q # f => pipe'[q] = pipe[q]
        /\ pipe'[f].holds = Append(pipe[f].holds, w.chunk)
        /\ \A q \in Pipes : pipe'[q].state = pipe[q].state
    BY <1>4, <2>1, <2>2
  <2>4. /\ copied'[f] \o pipe'[f].holds = Append(copied[f] \o pipe[f].holds, w.chunk)
        /\ copied[f] \o pipe[f].holds \in Seq(Chunks)
    <3>1. copied[f] \in Seq(Chunks) /\ pipe[f].holds \in Seq(Chunks)
      BY <1>9, <2>1
    <3> HIDE DEF w, f
    <3>2. copied[f] \o Append(pipe[f].holds, w.chunk) = Append(copied[f] \o pipe[f].holds, w.chunk)
      BY <1>5, <3>1, AppendToHolds
    <3> QED BY <1>2, <2>3, <3>1, <3>2
  <2>5. FlowInv'
    <3> SUFFICES ASSUME NEW c \in Callers, NEW s \in Streams, pipe'[<<c, s>>].state # "nil"
                 PROVE  Captures(copied'[<<c, s>>] \o pipe'[<<c, s>>].holds, c, Written(c, s)')
      BY DEF FlowInv
    <3> DEFINE p == <<c, s>>
    <3>1. p \in Pipes /\ Captures(copied[p] \o pipe[p].holds, c, Written(c, s))
      BY <1>1, <2>3 DEF CaptureInv, FlowInv
    <3>2. CASE p # f
      <4>1. Written(c, s)' = Written(c, s)
        <5>1. c = g => s # w.stream
          BY <1>6, <3>2
        <5> QED BY <1>8, <5>1 DEF Written
      <4> QED BY <1>2, <2>3, <3>1, <3>2, <4>1
    <3>3. CASE p = f /\ c = g
      <4>1. s = w.stream
        BY <1>6, <3>3
      <4>2. Written(c, s) = Front(said[g][s]) /\ Written(c, s)' = said[g][s]
        BY <1>2, <1>8, <3>3, <4>1 DEF Written
      <4>3. Append(Front(said[g][s]), w.chunk) = said[g][s]
        <5>1. said[g][s] \in Seq(Chunks) /\ said[g][s] # <<>> /\ Last(said[g][s]) = w.chunk
          BY <1>6, <1>9, <4>1
        <5> QED BY <5>1, FrontAndLast
      <4> QED BY <1>5, <1>6, <1>10, <2>4, <3>1, <3>3, <4>2, <4>3, CapturesOwn
    <3>4. CASE p = f /\ c # g
      <4>1. Written(c, s)' = Written(c, s)
        BY <1>8, <3>4
      <4> QED BY <1>5, <1>6, <1>10, <2>4, <3>1, <3>4, <4>1, CapturesOther
    <3> QED BY <3>2, <3>3, <3>4
  <2>6. KeptInv'
    <3> SUFFICES ASSUME NEW p \in Pipes, NEW i \in DOMAIN (copied'[p] \o pipe'[p].holds),
                        (copied'[p] \o pipe'[p].holds)[i].by \in Callers
                 PROVE  /\ (copied'[p] \o pipe'[p].holds)[i].by = p[1]
                        /\ (copied'[p] \o pipe'[p].holds)[i] \in ToSet(said[p[1]][p[2]])
      BY <1>2, <1>12 DEF CaptureInv, KeptInv
    <3>1. CASE p # f
      BY <1>2, <2>3, <3>1 DEF CaptureInv, KeptInv
    <3>2. CASE p = f
      <4> DEFINE flow == copied[f] \o pipe[f].holds
      <4>1. copied'[p] \o pipe'[p].holds = Append(flow, w.chunk) /\ flow \in Seq(Chunks)
        BY <2>4, <3>2
      <4> HIDE DEF flow
      <4>2. \/ i \in DOMAIN flow /\ Append(flow, w.chunk)[i] = flow[i]
            \/ Append(flow, w.chunk)[i] = w.chunk
        BY <4>1, <1>5
      <4>3. CASE i \in DOMAIN flow /\ Append(flow, w.chunk)[i] = flow[i]
        BY <3>2, <4>1, <4>3, <2>1 DEF CaptureInv, KeptInv, flow
      <4>4. CASE Append(flow, w.chunk)[i] = w.chunk
        <5>1. g \in Callers /\ p = <<g, w.stream>>
          BY <1>6, <3>2, <4>1, <4>4
        <5>2. w.chunk \in ToSet(said[g][w.stream])
          BY <1>5, <1>6, <1>9 DEF ToSet, Last
        <5> QED BY <1>6, <4>1, <4>4, <5>1, <5>2
      <4> QED BY <4>2, <4>3, <4>4
    <3> QED BY <3>1, <3>2
  <2>7. PlaceInv'
    <3> SUFFICES ASSUME NEW d \in Callers, NEW s \in Streams PROVE Placed(d, s)'
      BY DEF PlaceInv
    <3>1. Placed(d, s) /\ <<d, s>> \in Pipes
      BY <1>1 DEF CaptureInv, PlaceInv
    <3>2. CASE <<d, s>> = f
      BY <1>2, <1>12, <2>3, <3>1, <3>2 DEF Placed
    <3>3. CASE <<d, s>> # f
      BY <1>2, <2>3, <3>1, <3>3 DEF Placed
    <3> QED BY <3>2, <3>3
  <2> QED BY <1>3, <1>7, <2>5, <2>6, <2>7 DEF CaptureInv
<1>13. CASE w.file # Terminal /\ pipe[w.file].state # "open" /\ UNCHANGED <<pipe, shown>>
  <2>1. FlowInv'
    <3> SUFFICES ASSUME NEW c \in Callers, NEW s \in Streams, pipe[<<c, s>>].state # "nil"
                 PROVE  Written(c, s)' = Written(c, s)
      BY <1>2, <1>13 DEF CaptureInv, FlowInv
    <3>1. CASE c = g /\ s = w.stream
      <4>1. pc[c] = "do" /\ w.file = <<c, s>>
        BY <1>6, <3>1
      <4>2. Placed(c, s) /\ <<c, s>> \in Pipes
        BY <1>1 DEF CaptureInv, PlaceInv
      <4>3. pipe[<<c, s>>].state = "open"
        BY <1>4, <4>1, <4>2 DEF Placed
      <4> QED BY <1>13, <4>1, <4>3
    <3> QED BY <1>8, <3>1 DEF Written
  <2>2. KeptInv'
    BY <1>2, <1>13 DEF CaptureInv, KeptInv
  <2>3. PlaceInv'
    <3>1. \A d \in Callers, s \in Streams : Placed(d, s)' <=> Placed(d, s)
      BY <1>2, <1>13 DEF Placed
    <3> QED BY <3>1 DEF CaptureInv, PlaceInv
  <2> QED BY <1>3, <1>7, <2>1, <2>2, <2>3 DEF CaptureInv
<1> QED BY <1>11, <1>12, <1>13 DEF Write

LEMMA PrintKeepsCapture ==
  ASSUME CaptureInv, NEW g \in Printers, NEW s \in Streams, BeginPrint(g, s)
  PROVE  CaptureInv'
<1> DEFINE x == [by |-> g, n |-> Count(g) + 1]
<1>1. \A d \in Callers, r \in Streams : <<d, r>> \in Pipes
  BY DEF Pipes
<1>2. /\ UNCHANGED <<lock, pc, std, old, pipe, copier, copied, shown>>
      /\ printing[g] = Nothing /\ (g \in Callers => pc[g] = "do")
      /\ printing' = [printing EXCEPT ![g] = [file |-> std[s], stream |-> s, chunk |-> x]]
      /\ said' = [said EXCEPT ![g][s] = Append(@, x)]
  BY DEF BeginPrint, MayPrint, pipeVars
<1>3. TypeOK' /\ Inv'
  BY <1>2, PrintKeepsTypes, OthersKeep DEF CaptureInv
<1>4. /\ printing \in [Printers -> Prints \cup {Nothing}]
      /\ said \in [Printers -> [Streams -> Seq(Chunks)]]
      /\ std \in [Streams -> Pipes \cup {Terminal}]
  BY DEF CaptureInv, TypeOK
<1>5. x \in Chunks /\ x.by = g /\ x.n = Count(g) + 1
  BY ChunksAreChunks DEF CaptureInv
<1>6. /\ \A h \in Printers : h # g => said'[h] = said[h] /\ printing'[h] = printing[h]
      /\ \A r \in Streams : r # s => said'[g][r] = said[g][r]
      /\ said'[g][s] = Append(said[g][s], x)
      /\ printing'[g] = [file |-> std[s], stream |-> s, chunk |-> x]
  BY <1>2, <1>4
<1>7. said[g][s] \in Seq(Chunks)
  BY <1>4
<1>8. /\ said'[g][s] # <<>> /\ Last(said'[g][s]) = x /\ Front(said'[g][s]) = said[g][s]
      /\ \A i \in DOMAIN said'[g][s] :
           \/ i \in DOMAIN said[g][s] /\ said'[g][s][i] = said[g][s][i]
           \/ said'[g][s][i] = x
  BY <1>5, <1>6, <1>7, FrontOfAppend
<1>9. /\ Count(g) \in Nat /\ Count(g)' = Count(g) + 1
      /\ \A h \in Printers : h # g => Count(h)' = Count(h)
  <2>1. "stdout" \in Streams /\ "stderr" \in Streams /\ Streams = {"stdout", "stderr"}
    BY DEF Streams
  <2>2. /\ said[g]["stdout"] \in Seq(Chunks) /\ said[g]["stderr"] \in Seq(Chunks)
        /\ Len(said'[g][s]) = Len(said[g][s]) + 1
    BY <1>4, <1>6, <1>7, <2>1
  <2> DEFINE m == Len(said[g]["stdout"])
             n == Len(said[g]["stderr"])
  <2>3. m \in Nat /\ n \in Nat /\ Count(g) = m + n
    BY <2>2 DEF Count
  <2>4. Count(g)' = Len(said'[g]["stdout"]) + Len(said'[g]["stderr"])
    BY DEF Count
  <2>5. Count(g)' = m + 1 + n \/ Count(g)' = m + (n + 1)
    BY <1>6, <2>1, <2>2, <2>4
  <2>6. \A h \in Printers : h # g => Count(h)' = Count(h)
    BY <1>6 DEF Count
  <2> HIDE DEF m, n
  <2> QED BY <2>3, <2>5, <2>6
<1>10. HeldInv'
  BY <1>2 DEF CaptureInv, HeldInv
<1>11. PrintInv'
  <2> DEFINE Own(h) == \A r \in Streams : \A i \in DOMAIN said[h][r] :
                         said[h][r][i].by = h /\ said[h][r][i].n <= Count(h)
             Apart(h) == \A i \in DOMAIN said[h]["stdout"], j \in DOMAIN said[h]["stderr"] :
                           said[h]["stdout"][i] # said[h]["stderr"][j]
  <2>1. \A r \in Streams, i \in Nat : i \in DOMAIN said[g][r] => said[g][r][i] \in Chunks
    BY <1>4
  <2>2. Own(g) /\ Apart(g)
    BY DEF CaptureInv, PrintInv
  <2>3. \A r \in Streams : \A i \in DOMAIN said'[g][r] :
          said'[g][r][i].by = g /\ said'[g][r][i].n <= Count(g) + 1
    <3> TAKE r \in Streams
    <3> TAKE i \in DOMAIN said'[g][r]
    <3>1. CASE r = s /\ said'[g][r][i] = x
      BY <1>5, <1>9, <3>1
    <3>2. CASE i \in DOMAIN said[g][r] /\ said'[g][r][i] = said[g][r][i]
      <4>1. said[g][r] \in Seq(Chunks)
        BY <1>4
      <4>2. said[g][r][i] \in Chunks
        BY <3>2, <4>1
      <4>3. said[g][r][i].by = g /\ said[g][r][i].n <= Count(g) /\ said[g][r][i].n \in Nat
        BY <2>2, <3>2, <4>2 DEF Chunks
      <4> QED BY <1>9, <3>2, <4>3
    <3> QED BY <1>6, <1>8, <3>1, <3>2
  <2>4. Apart(g)'
    <3>1. \A r \in Streams : \A i \in DOMAIN said[g][r] : said[g][r][i] # x
      BY <1>5, <1>9, <2>2
    <3>2. "stdout" \in Streams /\ "stderr" \in Streams /\ Streams = {"stdout", "stderr"}
      BY DEF Streams
    <3> SUFFICES ASSUME NEW i \in DOMAIN said'[g]["stdout"], NEW j \in DOMAIN said'[g]["stderr"]
                 PROVE  said'[g]["stdout"][i] # said'[g]["stderr"][j]
      OBVIOUS
    <3>3. CASE s = "stdout"
      <4>1. said'[g]["stderr"] = said[g]["stderr"]
        BY <1>6, <3>2, <3>3
      <4>2. \/ i \in DOMAIN said[g]["stdout"] /\ said'[g]["stdout"][i] = said[g]["stdout"][i]
            \/ said'[g]["stdout"][i] = x
        BY <1>8, <3>3
      <4> QED BY <2>2, <3>1, <3>2, <4>1, <4>2
    <3>4. CASE s = "stderr"
      <4>1. said'[g]["stdout"] = said[g]["stdout"]
        BY <1>6, <3>2, <3>4
      <4>2. \/ j \in DOMAIN said[g]["stderr"] /\ said'[g]["stderr"][j] = said[g]["stderr"][j]
            \/ said'[g]["stderr"][j] = x
        BY <1>8, <3>4
      <4> QED BY <2>2, <3>1, <3>2, <4>1, <4>2
    <3> QED BY <3>2, <3>3, <3>4
  <2>5. g \in Callers => std[s] = <<g, s>>
    BY <1>2 DEF CaptureInv, HeldInv
  <2> SUFFICES ASSUME NEW h \in Printers
               PROVE  /\ printing'[h] # Nothing =>
                           LET w == printing'[h]
                           IN /\ w.chunk.by = h
                              /\ said'[h][w.stream] # <<>> /\ Last(said'[h][w.stream]) = w.chunk
                              /\ h \in Callers => pc'[h] = "do" /\ w.file = <<h, w.stream>>
                      /\ Own(h)' /\ Apart(h)'
    BY DEF PrintInv
  <2>6. CASE h = g
    BY <1>2, <1>5, <1>6, <1>8, <1>9, <2>3, <2>4, <2>5, <2>6
  <2>7. CASE h # g
    BY <1>2, <1>6, <1>9, <2>7 DEF CaptureInv, PrintInv
  <2> QED BY <2>6, <2>7
<1>12. FlowInv'
  <2>1. [file |-> std[s], stream |-> s, chunk |-> x] \in Prints
    BY <1>4, <1>5 DEF Prints
  <2>2. \A c \in Callers, r \in Streams : Written(c, r)' = Written(c, r)
    <3> TAKE c \in Callers, r \in Streams
    <3>1. CASE c = g /\ r = s
      BY <1>2, <1>6, <1>8, <2>1, <3>1, ActorsAssumption DEF Written
    <3>2. CASE c = g /\ r # s
      BY <1>2, <1>6, <3>2 DEF Written
    <3>3. CASE c # g
      BY <1>6, <3>3 DEF Written, Printers
    <3> QED BY <3>1, <3>2, <3>3
  <2> QED BY <1>2, <2>2 DEF CaptureInv, FlowInv
<1>13. KeptInv'
  <2>1. \A p \in Pipes : p[1] \in Printers /\ p[2] \in Streams
    BY DEF Pipes, Printers
  <2>2. \A h \in Printers, r \in Streams : ToSet(said[h][r]) \subseteq ToSet(said'[h][r])
    <3> TAKE h \in Printers, r \in Streams
    <3>1. CASE h = g /\ r = s
      BY <1>5, <1>6, <1>7, <3>1 DEF ToSet
    <3> QED BY <1>6, <3>1
  <2> QED BY <1>2, <2>1, <2>2 DEF CaptureInv, KeptInv
<1>14. PlaceInv'
  <2> SUFFICES ASSUME NEW d \in Callers, NEW r \in Streams PROVE Placed(d, r)'
    BY DEF PlaceInv
  <2>1. Placed(d, r) /\ d \in Printers
    BY DEF CaptureInv, PlaceInv, Printers
  <2>2. CASE d = g
    BY <1>2, <2>1, <2>2 DEF Placed
  <2>3. CASE d # g
    BY <1>2, <1>6, <2>1, <2>3 DEF Placed
  <2> QED BY <2>2, <2>3
<1> QED BY <1>3, <1>10, <1>11, <1>12, <1>13, <1>14 DEF CaptureInv

\* Whatever a captured function prints is captured, all of it and in order, and
\* none of it gets to the terminal or to another capture (stdio.go:11); for any
\* number of goroutines that capture or print.
THEOREM EverythingCaptured == Spec => []CapturedAll
<1>1. Init => CaptureInv
  <2> SUFFICES ASSUME Init PROVE CaptureInv
    OBVIOUS
  <2>1. TypeOK /\ Inv
    BY ActorsAssumption DEF Init, TypeOK, Inv, TypeInv, LockInv, StdInv, Terminals, Holding, Places
  <2>2. /\ \A c \in Callers, s \in Streams : <<c, s>> \in Pipes
        /\ \A c \in Callers : c \in Printers
        /\ "stdout" \in Streams /\ "stderr" \in Streams
    BY DEF Pipes, Printers, Streams
  <2>3. HeldInv /\ PrintInv
    BY <2>2 DEF Init, HeldInv, PrintInv
  <2>4. PlaceInv
    BY <2>2 DEF Init, PlaceInv, Placed
  <2>5. \A p \in Pipes : copied[p] \o pipe[p].holds = <<>>
    BY DEF Init
  <2>6. FlowInv
    BY <2>2, <2>5, CapturesNothing DEF Init, FlowInv, Written
  <2>7. KeptInv
    BY <2>5 DEF Init, KeptInv
  <2> QED BY <2>1, <2>3, <2>4, <2>6, <2>7 DEF CaptureInv
<1>2. CaptureInv /\ [Next]_vars => CaptureInv'
  <2> SUFFICES ASSUME CaptureInv, [Next]_vars PROVE CaptureInv'
    OBVIOUS
  <2>1. CASE UNCHANGED vars
    <3>1. TypeOK' /\ Inv'
      BY <2>1, OthersKeep DEF vars, pipeVars, printVars, CaptureInv, TypeOK
    <3>2. UNCHANGED <<lock, pc, std, old, pipe, copier, copied, printing, said, shown>>
      BY <2>1 DEF vars, pipeVars, printVars
    <3>3. (\A g \in Printers : Count(g)' = Count(g))
          /\ (\A c \in Callers, s \in Streams : Written(c, s)' = Written(c, s))
      BY <3>2 DEF Count, Written
    <3>4. HeldInv' /\ PrintInv'
      BY <3>2, <3>3 DEF CaptureInv, HeldInv, PrintInv
    <3>5. FlowInv' /\ KeptInv'
      BY <3>2, <3>3 DEF CaptureInv, FlowInv, KeptInv
    <3>6. PlaceInv'
      <4>1. \A d \in Callers, s \in Streams : Placed(d, s)' <=> Placed(d, s)
        BY <3>2 DEF Placed
      <4> QED BY <4>1 DEF CaptureInv, PlaceInv
    <3> QED BY <3>1, <3>4, <3>5, <3>6 DEF CaptureInv
  <2>2. CASE \E c \in Callers : Caller(c)
    BY <2>2, CallerKeepsCapture
  <2>3. CASE \E p \in Pipes : Copier(p)
    BY <2>3, CopierKeepsCapture
  <2>4. CASE \E g \in Printers : Write(g) \/ \E s \in Streams : BeginPrint(g, s)
    BY <2>4, WriteKeepsCapture, PrintKeepsCapture
  <2> QED BY <2>1, <2>2, <2>3, <2>4 DEF Next, Halted
<1>3. CaptureInv => CapturedAll
  <2> SUFFICES ASSUME CaptureInv, NEW c \in Callers, NEW s \in Streams
               PROVE  /\ pc[c] = "done" /\ pipe[<<c, s>>].state = "closed" =>
                           Captures(copied[<<c, s>>], c, said[c][s])
                      /\ \A x \in ToSet(said[c][s]) :
                           /\ \A r \in Streams : x \notin ToSet(shown[r])
                           /\ \A p \in Pipes \ {<<c, s>>} : x \notin ToSet(copied[p])
    BY DEF CapturedAll
  <2>1. <<c, s>> \in Pipes /\ c \in Printers /\ Placed(c, s)
    BY DEF Pipes, Printers, CaptureInv, PlaceInv
  <2>2. \A p \in Pipes : copied[p] \in Seq(Chunks) /\ pipe[p].holds \in Seq(Chunks)
    BY DEF CaptureInv, TypeOK
  <2>3. ASSUME pc[c] = "done", pipe[<<c, s>>].state = "closed"
        PROVE  Captures(copied[<<c, s>>], c, said[c][s])
    <3>1. pipe[<<c, s>>].holds = <<>>
      BY <2>1, <2>3 DEF Placed
    <3>2. Written(c, s) = said[c][s]
      BY <2>1, <2>3 DEF CaptureInv, PrintInv, Written
    <3>3. copied[<<c, s>>] \o pipe[<<c, s>>].holds = copied[<<c, s>>]
      BY <2>1, <2>2, <3>1
    <3> QED BY <2>3, <3>2, <3>3 DEF CaptureInv, FlowInv
  <2>4. ASSUME NEW x \in ToSet(said[c][s])
        PROVE  x.by = c
    BY <2>1 DEF CaptureInv, PrintInv, ToSet
  <2>5. ASSUME NEW x \in ToSet(said[c][s]), NEW r \in Streams
        PROVE  x \notin ToSet(shown[r])
    BY <2>4 DEF CaptureInv, KeptInv, ToSet
  <2>6. ASSUME NEW x \in ToSet(said[c][s]), NEW p \in Pipes, x \in ToSet(copied[p])
        PROVE  p = <<c, s>>
    <3>1. PICK i \in DOMAIN copied[p] : copied[p][i] = x
      BY <2>6 DEF ToSet
    <3>2. /\ i \in DOMAIN (copied[p] \o pipe[p].holds)
          /\ (copied[p] \o pipe[p].holds)[i] = x
      <4>1. copied[p] \in Seq(Chunks) /\ pipe[p].holds \in Seq(Chunks)
        BY <2>2
      <4> DEFINE a == copied[p]
                 b == pipe[p].holds
      <4>2. i \in 1..Len(a) /\ a \in Seq(Chunks) /\ b \in Seq(Chunks) /\ a[i] = x
        BY <3>1, <4>1
      <4> HIDE DEF a, b
      <4>3. i \in DOMAIN (a \o b) /\ (a \o b)[i] = a[i]
        BY <4>2
      <4> QED BY <4>2, <4>3 DEF a, b
    <3>3. p[1] = c /\ x \in ToSet(said[c][p[2]])
      BY <2>4, <3>2 DEF CaptureInv, KeptInv
    <3>4. p[2] \in Streams /\ p = <<p[1], p[2]>>
      BY DEF Pipes
    <3>5. p[2] = s
      <4>1. PICK i1 \in DOMAIN said[c][s], i2 \in DOMAIN said[c][p[2]] :
              said[c][s][i1] = said[c][p[2]][i2]
        BY <3>3 DEF ToSet
      <4> QED BY <2>1, <3>4, <4>1 DEF CaptureInv, PrintInv, Streams
    <3> QED BY <3>3, <3>4, <3>5
  <2> QED BY <2>3, <2>5, <2>6
<1> QED BY <1>1, <1>2, <1>3, PTL DEF Spec
=============================================================================
