---------------------------- MODULE CaptureStdio ----------------------------
(***************************************************************************)
(* stdio.go: captureStdio runs a function with os.Stdout and os.Stderr     *)
(* replaced by pipes.  Two goroutines for each call copy what comes out of *)
(* the pipes; the caller closes the other ends, puts the variables back    *)
(* and waits for both copies.                                              *)
(*                                                                         *)
(* The variables belong to the process: other goroutines print as well,    *)
(* and a print reads the variable first and writes to the file after.  The *)
(* pipes, channels and the mutex are those of the Go runtime (external).   *)
(* A panic of the function is recovered further up, outside this package:  *)
(* the deferred unlock runs, and the goroutine does not call again.        *)
(***************************************************************************)
EXTENDS Naturals, Sequences, FiniteSets, SequencesExt

CONSTANTS
  Callers,    \* goroutines that call captureStdio, once each
  Others,     \* goroutines that do not, and print
  Terminal,   \* the files os.Stdout and os.Stderr are at the start
  Nobody, Nothing,
  MaxFailures,\* bound: pipes that cannot be opened
  Capacity,   \* how many prints a pipe holds before it blocks
  MaxPrints   \* bound: prints of each goroutine

Streams == {"stdout", "stderr"}
Printers == Callers \cup Others
Pipes == Callers \X Streams
Chunks == [by : Printers, n : Nat]
Prints == [file : Pipes \cup {Terminal}, stream : Streams, chunk : Chunks]

ASSUME ActorsAssumption ==
  /\ Callers \cap Others = {}
  /\ Terminal \notin Pipes
  /\ Nobody \notin Callers
  /\ Nothing \notin Prints
  /\ Capacity \in Nat \ {0}
  /\ MaxFailures \in Nat
  /\ MaxPrints \in [Printers -> Nat]

VARIABLES
  lock,      \* who holds captureLock
  pc,        \* where each caller is
  std,       \* os.Stdout and os.Stderr: the terminal or a pipe
  old,       \* oldStdout and oldStderr of each caller
  pipe,      \* per pipe: what it holds, and whether it can be written to
  copier,    \* per pipe: where its copying goroutine is
  copied,    \* per pipe: the copy
  printing,  \* per goroutine: the print it is in the middle of
  said,      \* per goroutine and stream: what it has printed
  shown      \* per stream: what the terminal has got

pipeVars == <<pipe, copier, copied>>
printVars == <<printing, said, shown>>
vars == <<lock, pc, std, old, pipeVars, printVars>>

Count(g) == Len(said[g]["stdout"]) + Len(said[g]["stderr"])

Init ==
  /\ lock = Nobody
  /\ pc = [c \in Callers |-> "lock"]
  /\ std = [s \in Streams |-> Terminal]
  /\ old = [c \in Callers |-> std]
  /\ pipe = [p \in Pipes |-> [holds |-> <<>>, state |-> "none"]]
  /\ copier = [p \in Pipes |-> "off"]
  /\ copied = [p \in Pipes |-> <<>>]
  /\ printing = [g \in Printers |-> Nothing]
  /\ said = [g \in Printers |-> [s \in Streams |-> <<>>]]
  /\ shown = [s \in Streams |-> <<>>]

Goto(c, there) == pc' = [pc EXCEPT ![c] = there]
----------------------------------------------------------------------------
\* The caller.

\* Bug: the lock is not waited for.
BeginUnlocked(c) ==
  /\ pc[c] = "lock"
  /\ lock' = c
  /\ old' = [old EXCEPT ![c] = std]
  /\ pipe' = [p \in Pipes |->
       IF p[1] # c THEN pipe[p] ELSE [holds |-> <<>>, state |-> "open"]]
  /\ Goto(c, "swap")
  /\ UNCHANGED <<std, copier, copied, printVars>>

\* The variables change only under the lock, so that saving them and opening
\* the pipes is one step with taking it.  The error of os.Pipe is not looked
\* at: without a pipe both ends are nil files, on which every call fails.
Begin(c) ==
  /\ pc[c] = "lock"
  /\ lock = Nobody
  /\ lock' = c
  /\ old' = [old EXCEPT ![c] = std]
  /\ \E opened \in SUBSET Streams :
     /\ Cardinality({p \in Pipes : pipe[p].state = "nil"} \cup ({c} \X (Streams \ opened)))
          <= MaxFailures
     /\ pipe' = [p \in Pipes |->
         IF p[1] # c THEN pipe[p]
         ELSE [holds |-> <<>>, state |-> IF p[2] \in opened THEN "open" ELSE "nil"]]
  /\ Goto(c, "swap")
  /\ UNCHANGED <<std, copier, copied, printVars>>

\* Bug: the copying is left for after the function.
SwapOnly(c) ==
  /\ pc[c] = "swap"
  /\ std' = [s \in Streams |-> <<c, s>>]
  /\ Goto(c, "do")
  /\ UNCHANGED <<lock, old, pipeVars, printVars>>

Swap(c) ==
  /\ pc[c] = "swap"
  /\ std' = [s \in Streams |-> <<c, s>>]
  /\ copier' = [p \in Pipes |-> IF p[1] = c THEN "copy" ELSE copier[p]]
  /\ Goto(c, "do")
  /\ UNCHANGED <<lock, old, pipe, copied, printVars>>

\* The function panics: of what follows, only the deferred unlock runs.
DoPanics(c) ==
  /\ pc[c] = "do"
  /\ printing[c] = Nothing
  /\ lock' = Nobody
  /\ Goto(c, "panicked")
  /\ UNCHANGED <<std, old, pipeVars, printVars>>

\* Bug: the pipe of stderr is left open.
CloseStdoutOnly(c) ==
  /\ pc[c] = "do"
  /\ printing[c] = Nothing
  /\ pipe' = [pipe EXCEPT ![<<c, "stdout">>].state = IF @ = "open" THEN "closed" ELSE @]
  /\ Goto(c, "restore")
  /\ UNCHANGED <<lock, std, old, copier, copied, printVars>>

\* The function returns, with an error or without.
Close(c) ==
  /\ pc[c] = "do"
  /\ printing[c] = Nothing
  /\ pipe' = [p \in Pipes |->
       IF p[1] = c /\ pipe[p].state = "open" THEN [pipe[p] EXCEPT !.state = "closed"]
       ELSE pipe[p]]
  /\ Goto(c, "restore")
  /\ UNCHANGED <<lock, std, old, copier, copied, printVars>>

Restore(c) ==
  /\ pc[c] = "restore"
  /\ std' = old[c]
  /\ Goto(c, "stdout")
  /\ UNCHANGED <<lock, old, pipeVars, printVars>>

\* stdout = <-outC: the copier waits to send.
ReceiveStdout(c) ==
  /\ pc[c] = "stdout"
  /\ copier[<<c, "stdout">>] = "send"
  /\ copier' = [copier EXCEPT ![<<c, "stdout">>] = "done"]
  /\ Goto(c, "stderr")
  /\ UNCHANGED <<lock, std, old, pipe, copied, printVars>>

\* stderr = <-errC, and the deferred unlock.
ReceiveStderr(c) ==
  /\ pc[c] = "stderr"
  /\ copier[<<c, "stderr">>] = "send"
  /\ copier' = [copier EXCEPT ![<<c, "stderr">>] = "done"]
  /\ lock' = Nobody
  /\ Goto(c, "done")
  /\ UNCHANGED <<std, old, pipe, copied, printVars>>

Caller(c) ==
  \/ Begin(c) \/ Swap(c) \/ DoPanics(c) \/ Close(c) \/ Restore(c)
  \/ ReceiveStdout(c) \/ ReceiveStderr(c)
----------------------------------------------------------------------------
\* io.Copy of a copying goroutine: it ends at the end of the file, which
\* comes when the pipe is empty and its other end is closed.

Copy(p) ==
  /\ copier[p] = "copy"
  /\ pipe[p].holds # <<>>
  /\ copied' = [copied EXCEPT ![p] = Append(@, Head(pipe[p].holds))]
  /\ pipe' = [pipe EXCEPT ![p].holds = Tail(@)]
  /\ UNCHANGED <<lock, pc, std, old, copier, printVars>>

\* Bug: the copy ends when the pipe is found empty.
CopyEndsEarly(p) ==
  /\ copier[p] = "copy"
  /\ pipe[p].holds = <<>>
  /\ copier' = [copier EXCEPT ![p] = "send"]
  /\ UNCHANGED <<lock, pc, std, old, pipe, copied, printVars>>

CopyEnds(p) ==
  /\ copier[p] = "copy"
  /\ pipe[p].holds = <<>>
  /\ pipe[p].state # "open"
  /\ copier' = [copier EXCEPT ![p] = "send"]
  /\ UNCHANGED <<lock, pc, std, old, pipe, copied, printVars>>

Copier(p) == Copy(p) \/ CopyEnds(p)
----------------------------------------------------------------------------
\* Printing: fmt.Println reads os.Stdout, then writes to that file.

MayPrint(g) ==
  /\ printing[g] = Nothing
  /\ Count(g) < MaxPrints[g]
  /\ g \in Callers => pc[g] = "do"

BeginPrint(g, s) ==
  /\ MayPrint(g)
  /\ printing' = [printing EXCEPT ![g] =
                    [file |-> std[s], stream |-> s, chunk |-> [by |-> g, n |-> Count(g) + 1]]]
  /\ said' = [said EXCEPT ![g][s] = Append(@, [by |-> g, n |-> Count(g) + 1])]
  /\ UNCHANGED <<lock, pc, std, old, pipeVars, shown>>

\* Bug: the pipe takes more than it holds.
WriteUnbounded(g) ==
  LET w == printing[g]
  IN /\ w # Nothing
     /\ w.file # Terminal
     /\ printing' = [printing EXCEPT ![g] = Nothing]
     /\ pipe' = [pipe EXCEPT ![w.file].holds = Append(@, w.chunk)]
     /\ UNCHANGED <<lock, pc, std, old, copier, copied, said, shown>>

\* The write appends to the terminal or to a pipe, waits while the pipe is
\* full, and fails unnoticed if the pipe has been closed or is nil.
Write(g) ==
  LET w == printing[g]
      Open == pipe[w.file].state = "open"
  IN /\ w # Nothing
     /\ printing' = [printing EXCEPT ![g] = Nothing]
     /\ \/ /\ w.file = Terminal
           /\ shown' = [shown EXCEPT ![w.stream] = Append(@, w.chunk)]
           /\ UNCHANGED pipe
        \/ /\ w.file # Terminal /\ Open
           /\ Len(pipe[w.file].holds) < Capacity
           /\ pipe' = [pipe EXCEPT ![w.file].holds = Append(@, w.chunk)]
           /\ UNCHANGED shown
        \/ /\ w.file # Terminal /\ ~Open
           /\ UNCHANGED <<pipe, shown>>
     /\ UNCHANGED <<lock, pc, std, old, copier, copied, said>>
----------------------------------------------------------------------------
\* Every call has ended and nobody is in the middle of a print.
Halted ==
  /\ \A c \in Callers : pc[c] \in {"done", "panicked"}
  /\ \A g \in Printers : printing[g] = Nothing
  /\ UNCHANGED vars

Next ==
  \/ \E c \in Callers : Caller(c)
  \/ \E p \in Pipes : Copier(p)
  \/ \E g \in Printers : Write(g) \/ \E s \in Streams : BeginPrint(g, s)
  \/ Halted

Spec ==
  /\ Init /\ [][Next]_vars
  /\ \A c \in Callers : WF_vars(Caller(c))
  /\ \A p \in Pipes : WF_vars(Copier(p))
  /\ \A g \in Printers : WF_vars(Write(g))
----------------------------------------------------------------------------
TypeOK ==
  /\ lock \in Callers \cup {Nobody}
  /\ pc \in [Callers -> {"lock", "swap", "do", "restore", "stdout", "stderr", "done", "panicked"}]
  /\ std \in [Streams -> Pipes \cup {Terminal}]
  /\ old \in [Callers -> [Streams -> Pipes \cup {Terminal}]]
  /\ pipe \in [Pipes -> [holds : Seq(Chunks), state : {"none", "open", "closed", "nil"}]]
  /\ \A p \in Pipes : Len(pipe[p].holds) <= Capacity
  /\ copier \in [Pipes -> {"off", "copy", "send", "done"}]
  /\ copied \in [Pipes -> Seq(Chunks)]
  /\ printing \in [Printers -> Prints \cup {Nothing}]
  /\ said \in [Printers -> [Streams -> Seq(Chunks)]]
  /\ shown \in [Streams -> Seq(Chunks)]

\* "back to normal state" (stdio.go:47): whenever nobody captures, os.Stdout
\* and os.Stderr are the terminal's again, whoever has captured in between;
\* unless a function has panicked.
Restored ==
  lock = Nobody /\ (\A c \in Callers : pc[c] # "panicked") =>
    \A s \in Streams : std[s] = Terminal

\* What there is of goroutine g in a copy is what it has printed, in that order.
Captures(copy, g, prints) ==
  LET own == {i \in DOMAIN copy : copy[i].by = g}
  IN \E at \in Bijection(DOMAIN prints, own) :
       \A i, j \in DOMAIN prints : copy[at[i]] = prints[i] /\ (i < j => at[i] < at[j])

\* stdio.go:11: what the function printed is captured, all of it, in order,
\* each stream for itself, and nothing of it goes to the terminal or to
\* another caller; whoever prints in between, and whoever has panicked.
CapturedAll ==
  \A c \in Callers, s \in Streams :
    /\ pc[c] = "done" /\ pipe[<<c, s>>].state = "closed" =>
         Captures(copied[<<c, s>>], c, said[c][s])
    /\ \A x \in ToSet(said[c][s]) :
         /\ \A r \in Streams : x \notin ToSet(shown[r])
         /\ \A p \in Pipes \ {<<c, s>>} : x \notin ToSet(copied[p])

\* A call ends if the function does, and leaves no goroutine behind unless the
\* function has panicked: the wait for the two copies is not in vain.
CallsEnd ==
  <>(\A c \in Callers :
       \/ pc[c] = "panicked"
       \/ pc[c] = "done" /\ \A s \in Streams : copier[<<c, s>>] = "done")

\* "so printing can't block indefinitely" (stdio.go:35): no print does, of
\* the function or of anybody else, even after a function has panicked: again
\* and again nobody is in the middle of one.
PrintsEnd == []<>(\A g \in Printers : printing[g] = Nothing)
=============================================================================
