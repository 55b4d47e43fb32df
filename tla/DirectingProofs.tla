--------------------------- MODULE DirectingProofs ---------------------------
(***************************************************************************)
(* Theorems about Directing, for any types, packages and comments: what    *)
(* the directives in the temporary file say, and of which types a run lets *)
(* msgp warn.                                                              *)
(***************************************************************************)
EXTENDS Directing, SequenceTheorems, FiniteSetTheorems, WellFoundedInduction, TLAPS

----------------------------------------------------------------------------
\* Numbers, sets and sequences.

\* A set of numbers that has a bound has a greatest one.
LEMMA GreatestOf ==
  ASSUME NEW T, T \subseteq Nat, T # {}, NEW b \in Nat, \A x \in T : x <= b
  PROVE  \E x \in T : \A y \in T : y <= x
<1> DEFINE below == {n \in Nat : \E x \in T : n = b - x}
<1>1. below \subseteq Nat
  OBVIOUS
<1>2. \A x \in T : b - x \in below
  OBVIOUS
<1>3. PICK n \in below : \A m \in below : <<m, n>> \notin OpToRel(<, Nat)
  <2> HIDE DEF below
  <2>1. below # {}
    BY <1>2
  <2> QED BY <1>1, <2>1, NatLessThanWellFounded, WFMin
<1>4. \A m \in below : ~(m < n)
  BY <1>1, <1>3 DEF OpToRel
<1>5. PICK x \in T : n = b - x
  BY <1>3
<1>6. ASSUME NEW y \in T PROVE y <= x
  <2>1. ~(b - y < n)
    BY <1>2, <1>4
  <2> QED BY <2>1, <1>5
<1> QED BY <1>6

LEMMA MaxOfOne ==
  ASSUME NEW n \in Nat
  PROVE  Max({n}) = n
BY DEF Max

LEMMA SeqFacts ==
  ASSUME NEW S, NEW s \in Seq(S)
  PROVE  /\ s \in Seq(ToSet(s)) /\ ToSet(s) \subseteq S
         /\ Len(s) \in Nat /\ DOMAIN s = 1..Len(s)
         /\ \A i \in DOMAIN s : s[i] \in ToSet(s)
<1>1. /\ Len(s) \in Nat /\ DOMAIN s = 1..Len(s) /\ s \in [1..Len(s) -> S]
  BY LenProperties
<1>2. s \in [1..Len(s) -> ToSet(s)]
  BY <1>1 DEF ToSet
<1>3. s \in Seq(ToSet(s))
  BY <1>1, <1>2, SeqDef
<1> QED BY <1>1, <1>3 DEF ToSet

\* The sequence of a set has the members of the set.
LEMMA SetAsSeq ==
  ASSUME NEW S, IsFiniteSet(S)
  PROVE  SetToSeq(S) \in Seq(S) /\ ToSet(SetToSeq(S)) = S
<1> DEFINE n == Cardinality(S)
<1>1. n \in Nat /\ ExistsBijection(1..n, S)
  BY FS_CardinalityType
<1>2. PICK f \in [1..n -> S] : IsInjective(f)
  <2>1. PICK f \in Bijection(1..n, S) : TRUE
    BY <1>1 DEF ExistsBijection
  <2> QED BY <2>1 DEF Bijection, Injection, Surjection, IsInjective
<1> DEFINE s == SetToSeq(S)
<1>3. s \in [1..n -> S] /\ IsInjective(s)
  BY <1>2 DEF SetToSeq
<1> HIDE DEF s
<1>4. s \in Injection(1..n, S)
  BY <1>3 DEF Injection, IsInjective
<1>5. IsFiniteSet(1..n) /\ Cardinality(1..n) = n
  BY <1>1, FS_Interval
<1>6. s \in Surjection(1..n, S)
  BY <1>4, <1>5, FS_Injection
<1>7. ToSet(s) = S
  BY <1>3, <1>6 DEF Surjection, ToSet
<1>8. s \in Seq(S)
  BY <1>1, <1>3, SeqDef
<1> QED BY <1>7, <1>8 DEF s

LEMMA ImageIsFinite ==
  ASSUME NEW S, IsFiniteSet(S), NEW f, f = [x \in S |-> f[x]]
  PROVE  IsFiniteSet({f[x] : x \in S})
<1>1. f \in Surjection(S, {f[x] : x \in S})
  BY DEF Surjection
<1> QED BY <1>1, FS_Surjection

\* A part of 1..n that begins at 1.
LEMMA CountedTo ==
  ASSUME NEW n \in Nat, NEW i \in 1..n
  PROVE  Cardinality(1..n \cap 1..i) = i
<1>1. 1..n \cap 1..i = 1..i
  OBVIOUS
<1>2. Cardinality(1..i) = i
  BY FS_Interval
<1> QED BY <1>1, <1>2
----------------------------------------------------------------------------
\* A directive that is written is read as the same directive.

\* What Populate leaves, and what the extractor makes.
Meant(d) ==
  /\ d.types \in Seq(ToSet(d.types))
  /\ \/ d.dir \in Lists /\ d = [dir |-> d.dir, types |-> d.types]
     \/ /\ Len(d.types) = 1
        /\ d = [dir |-> "intercept", types |-> d.types, using |-> d.using]
     \/ /\ Len(d.types) = 1 /\ Len(d.using) = 2 /\ d.mode \in ShimModes
        /\ d = [dir |-> "shim", types |-> d.types, as |-> d.as, using |-> d.using, mode |-> d.mode]

\* The plain words are the arguments, whatever comes between them.
LEMMA ArgsAreSeq ==
  ASSUME NEW line, line.words \in Seq(ToSet(line.words))
  PROVE  Args(line) \in Seq(ToSet(Args(line)))
<1> DEFINE plain == {n \in DOMAIN line.words : line.words[n].key = ""}
<1>1. Len(line.words) \in Nat /\ DOMAIN line.words = 1..Len(line.words)
  BY SeqFacts
<1>2. IsFiniteSet(plain)
  <2>1. IsFiniteSet(1..Len(line.words))
    BY <1>1, FS_Interval
  <2> QED BY <1>1, <2>1, FS_Subset
<1>3. Cardinality(plain) \in Nat
  BY <1>2, FS_CardinalityType
<1>4. DOMAIN Args(line) = 1..Cardinality(plain)
  BY DEF Args
<1>5. Args(line) = [i \in 1..Cardinality(plain) |-> Args(line)[i]]
  BY DEF Args
<1>6. Args(line) \in [1..Cardinality(plain) -> ToSet(Args(line))]
  BY <1>4, <1>5 DEF ToSet
<1> QED BY <1>3, <1>6, SeqDef

LEMMA ParsedIsMeant ==
  ASSUME NEW line, line.words \in Seq(ToSet(line.words)), NEW d \in Parse(line)
  PROVE  Meant(d)
<1>1. Args(line) \in Seq(ToSet(Args(line)))
  BY ArgsAreSeq
<1>2. CASE line.dir \in Lists /\ d = [dir |-> line.dir, types |-> Args(line)]
  BY <1>1, <1>2 DEF Meant
<1>3. CASE /\ Len(Args(line)) = 1
           /\ d = [dir |-> "intercept", types |-> Args(line), using |-> Val(line, "using")]
  BY <1>1, <1>3 DEF Meant
<1>4. CASE /\ Len(Args(line)) = 1 /\ ModeKnown(line) /\ Len(Val(line, "using")) = 2
           /\ d = [dir |-> "shim", types |-> Args(line), as |-> Val(line, "as"),
                   using |-> Val(line, "using"), mode |-> Mode(line)]
  BY <1>1, <1>4 DEF Meant, ModeKnown
<1> QED BY <1>2, <1>3, <1>4 DEF Parse

\* The words of a line: n arguments, and then m that have a key.
ArgsThenOptions(words, n, m, ts, opts) ==
  /\ DOMAIN words = 1..(n + m)
  /\ \A i \in 1..n : words[i] = ts[i] /\ ts[i].key = ""
  /\ \A i \in 1..m : words[n + i] = opts[i] /\ opts[i].key # ""

\* What is read from such words.
ArgsAre(line, n, ts) == Args(line) = [i \in 1..n |-> ts[i].val[1]]
KeysAre(line, m, opts) == Keys(line) = {opts[i].key : i \in 1..m}
ValuesAre(line, m, opts) ==
  \A i \in 1..m :
    (\A j \in 1..m : opts[j].key = opts[i].key => j = i) => Val(line, opts[i].key) = opts[i].val

LEMMA Summands ==
  ASSUME NEW n \in Nat, NEW m \in Nat
  PROVE  /\ \A i \in 1..n : i \in 1..(n + m) /\ i <= n
         /\ \A i \in 1..m : n + i \in 1..(n + m) /\ ~(n + i <= n) /\ (n + i) - n = i /\ n + i \in Nat
         /\ \A i \in 1..(n + m) : i \in 1..n \/ (i - n \in 1..m /\ i = n + (i - n))
OBVIOUS

LEMMA WordsAre ==
  ASSUME NEW S, NEW ts \in Seq(S), NEW opts \in Seq(S),
         \A i \in 1..Len(ts) : ts[i].key = "",
         \A i \in 1..Len(opts) : opts[i].key # ""
  PROVE  ArgsThenOptions(ts \o opts, Len(ts), Len(opts), ts, opts)
<1>1. Len(ts) \in Nat /\ Len(opts) \in Nat
  BY LenProperties
<1>2. /\ ts \o opts \in Seq(S) /\ Len(ts \o opts) = Len(ts) + Len(opts)
      /\ \A i \in 1..(Len(ts) + Len(opts)) :
           (ts \o opts)[i] = IF i <= Len(ts) THEN ts[i] ELSE opts[i - Len(ts)]
  BY ConcatProperties
<1>3. DOMAIN (ts \o opts) = 1..(Len(ts) + Len(opts))
  BY <1>2, LenProperties
<1> QED BY <1>1, <1>2, <1>3, Summands DEF ArgsThenOptions

LEMMA WordsRead ==
  ASSUME NEW line, NEW n \in Nat, NEW m \in Nat, NEW ts, NEW opts,
         ArgsThenOptions(line.words, n, m, ts, opts)
  PROVE  ArgsAre(line, n, ts) /\ KeysAre(line, m, opts)
<1>1. \A k \in 1..(n + m) : k \in 1..n \/ (k - n \in 1..m /\ k = n + (k - n))
  BY Summands
<1> DEFINE plain == {k \in DOMAIN line.words : line.words[k].key = ""}
           nth(i) == CHOOSE k \in plain : Cardinality(plain \cap 1..k) = i
<1>2. plain = 1..n
  <2>1. ASSUME NEW k \in plain PROVE k \in 1..n
    <3>1. k \in 1..(n + m) /\ line.words[k].key = ""
      BY DEF ArgsThenOptions
    <3>2. k - n \in 1..m => line.words[n + (k - n)].key # ""
      BY DEF ArgsThenOptions
    <3> QED BY <1>1, <3>1, <3>2
  <2>2. ASSUME NEW k \in 1..n PROVE k \in plain
    BY Summands DEF ArgsThenOptions
  <2> QED BY <2>1, <2>2
<1>3. Cardinality(1..n) = n
  BY FS_Interval
<1>4. \A i \in 1..n : Cardinality(1..n \cap 1..i) = i
  BY CountedTo
<1>5. ASSUME NEW i \in 1..n PROVE nth(i) = i
  <2> HIDE DEF plain
  <2> QED BY <1>2, <1>4
<1>6. Args(line) = [i \in 1..Cardinality(plain) |-> line.words[nth(i)].val[1]]
  BY DEF Args
<1>7. Args(line) = [i \in 1..n |-> ts[i].val[1]]
  <2>1. Args(line) = [i \in 1..n |-> line.words[nth(i)].val[1]]
    <3> HIDE DEF plain, nth
    <3> QED BY <1>2, <1>3, <1>6
  <2>2. \A i \in 1..n : line.words[nth(i)].val[1] = ts[i].val[1]
    <3> HIDE DEF nth
    <3> QED BY <1>5 DEF ArgsThenOptions
  <2> HIDE DEF nth
  <2> QED BY <2>1, <2>2
<1>8. ASSUME NEW k \in Keys(line) PROVE \E i \in 1..m : k = opts[i].key
  <2>1. PICK i \in 1..(n + m) : k = line.words[i].key /\ k # ""
    BY DEF Keys, ToSet, ArgsThenOptions
  <2>2. i - n \in 1..m /\ i = n + (i - n)
    BY <1>1, <2>1 DEF ArgsThenOptions
  <2>3. line.words[i] = opts[i - n]
    BY <2>2 DEF ArgsThenOptions
  <2> QED BY <2>1, <2>2, <2>3
<1>9. ASSUME NEW i \in 1..m PROVE opts[i].key \in Keys(line)
  <2>1. n + i \in DOMAIN line.words /\ line.words[n + i] = opts[i] /\ opts[i].key # ""
    BY Summands DEF ArgsThenOptions
  <2> QED BY <2>1 DEF Keys, ToSet
<1>10. Keys(line) = {opts[i].key : i \in 1..m}
  BY <1>8, <1>9
<1> QED BY <1>7, <1>10 DEF ArgsAre, KeysAre

\* Of a key that comes once the value is known.
LEMMA ValueOf ==
  ASSUME NEW line, NEW n \in Nat, NEW m \in Nat, NEW ts, NEW opts,
         ArgsThenOptions(line.words, n, m, ts, opts)
  PROVE  ValuesAre(line, m, opts)
<1> SUFFICES ASSUME NEW i \in 1..m, \A j \in 1..m : opts[j].key = opts[i].key => j = i
             PROVE  Val(line, opts[i].key) = opts[i].val
  BY DEF ValuesAre
<1>1. \A k \in 1..(n + m) : k \in 1..n \/ (k - n \in 1..m /\ k = n + (k - n))
  BY Summands
<1>2. n + i \in DOMAIN line.words /\ line.words[n + i] = opts[i] /\ n + i \in Nat
  BY Summands DEF ArgsThenOptions
<1>3. ASSUME NEW k \in DOMAIN line.words, line.words[k].key = opts[i].key PROVE k = n + i
  <2>1. k \notin 1..n
    BY <1>3 DEF ArgsThenOptions
  <2>2. k - n \in 1..m /\ k = n + (k - n)
    BY <1>1, <2>1 DEF ArgsThenOptions
  <2>3. line.words[k] = opts[k - n]
    BY <2>2 DEF ArgsThenOptions
  <2> QED BY <1>3, <2>2, <2>3
<1>4. {k \in DOMAIN line.words : line.words[k].key = opts[i].key} = {n + i}
  BY <1>2, <1>3
<1> QED BY <1>2, <1>4, MaxOfOne DEF Val
LEMMA WordFacts ==
  ASSUME NEW text
  PROVE  Arg(text).key = "" /\ Arg(text).val[1] = text
BY DEF Arg

LEMMA LenOf ==
  ASSUME NEW S, NEW s \in Seq(S), NEW n \in Nat, DOMAIN s = 1..n
  PROVE  Len(s) = n
<1>1. Len(s) \in Nat /\ DOMAIN s = 1..Len(s)
  BY LenProperties
<1> QED BY <1>1

LEMMA TypesBuilt ==
  ASSUME NEW d, NEW p, d.types \in Seq(ToSet(d.types)), NEW ts \in LocalTypes(d, p)
  PROVE  /\ ts \in Seq(ToSet(ts)) /\ Len(ts) = Len(d.types) /\ Len(ts) \in Nat
         /\ \A i \in 1..Len(ts) :
              /\ ts[i].key = ""
              /\ ts[i].val[1] \in LocalImportName(ParseLocalName(d.types[i], p), p)
<1> DEFINE local(i) == LocalImportName(ParseLocalName(d.types[i], p), p)
           n == Len(d.types)
<1>1. n \in Nat /\ DOMAIN d.types = 1..n
  BY LenProperties
<1>2. /\ \A i \in DOMAIN d.types : local(i) # {}
      /\ ts = [i \in DOMAIN d.types |-> Arg(CHOOSE text \in local(i) : TRUE)]
  BY DEF LocalTypes
<1>3. ts \in [1..n -> ToSet(ts)]
  BY <1>1, <1>2 DEF ToSet
<1>4. ts \in Seq(ToSet(ts))
  BY <1>1, <1>3, SeqDef
<1>5. Len(ts) = n
  <2> HIDE DEF n
  <2>1. DOMAIN ts = 1..n
    BY <1>3
  <2>2. Len(ts) \in Nat /\ DOMAIN ts = 1..Len(ts)
    BY <1>4, LenProperties
  <2> QED BY <1>1, <2>1, <2>2
<1>6. ASSUME NEW i \in 1..n
      PROVE  ts[i].key = "" /\ ts[i].val[1] \in local(i)
  <2> HIDE DEF local
  <2>1. ts[i] = Arg(CHOOSE text \in local(i) : TRUE)
    BY <1>1, <1>2
  <2>2. (CHOOSE text \in local(i) : TRUE) \in local(i)
    BY <1>1, <1>2
  <2> QED BY <2>1, <2>2, WordFacts
<1> QED BY <1>1, <1>4, <1>5, <1>6

\* The options of a directive, by key.
LEMMA OptionsOf ==
  ASSUME NEW d, Meant(d)
  PROVE  /\ Options(d) \in Seq(ToSet(Options(d)))
         /\ Len(Options(d)) \in Nat
         /\ \A i \in 1..Len(Options(d)) : Options(d)[i].key # ""
         /\ d.dir \in Lists => Len(Options(d)) = 0
         /\ d.dir = "intercept" =>
              /\ Len(Options(d)) = 1
              /\ Options(d)[1] = KeyValue("using", d.using)
         /\ d.dir = "shim" =>
              /\ Len(Options(d)) = 3
              /\ Options(d)[1] = KeyValue("as", d.as)
              /\ Options(d)[2] = KeyValue("using", d.using)
              /\ Options(d)[3] = KeyValue("mode", d.mode)
<1>0. d.dir \in Lists \cup {"intercept", "shim"}
  <2>1. ASSUME d = [dir |-> "intercept", types |-> d.types, using |-> d.using] PROVE d.dir = "intercept"
    BY <2>1
  <2>2. ASSUME d = [dir |-> "shim", types |-> d.types, as |-> d.as, using |-> d.using, mode |-> d.mode]
        PROVE d.dir = "shim"
    BY <2>2
  <2> QED BY <2>1, <2>2 DEF Meant
<1>1. CASE d.dir \in Lists
  <2>1. Options(d) = <<>>
    BY <1>1 DEF Options, Lists
  <2>2. <<>> \in Seq(ToSet(<<>>)) /\ Len(<<>>) = 0
    OBVIOUS
  <2> QED BY <1>1, <2>1, <2>2 DEF Lists
<1>2. CASE d.dir = "intercept"
  <2>1. Options(d) = <<KeyValue("using", d.using)>>
    BY <1>2 DEF Options
  <2>2. Options(d) \in Seq({KeyValue("using", d.using)})
    BY <2>1
  <2>3. Options(d) \in Seq(ToSet(Options(d)))
    BY <2>2, SeqFacts
  <2>4. Len(Options(d)) = 1 /\ Options(d)[1] = KeyValue("using", d.using)
    BY <2>1
  <2>5. Options(d)[1].key # ""
    BY <2>4 DEF KeyValue
  <2>6. \A i \in 1..1 : i = 1
    OBVIOUS
  <2>7. \A i \in 1..Len(Options(d)) : Options(d)[i].key # ""
    BY <2>4, <2>5, <2>6
  <2>8. d.dir \notin Lists /\ d.dir # "shim"
    BY <1>2 DEF Lists
  <2>9. Len(Options(d)) \in Nat
    BY <2>4
  <2> QED BY <1>2, <2>3, <2>4, <2>7, <2>8, <2>9
<1>3. CASE d.dir = "shim"
  <2> DEFINE a == KeyValue("as", d.as)
             u == KeyValue("using", d.using)
             m == KeyValue("mode", d.mode)
  <2>1. Options(d) = <<a, u, m>>
    BY <1>3 DEF Options
  <2>2. Options(d) \in Seq({a, u, m}) /\ Len(Options(d)) = 3
        /\ Options(d)[1] = a /\ Options(d)[2] = u /\ Options(d)[3] = m
    <3> HIDE DEF a, u, m
    <3> QED BY <2>1
  <2>3. Options(d) \in Seq(ToSet(Options(d)))
    BY <2>2, SeqFacts
  <2>4. Options(d)[1].key # "" /\ Options(d)[2].key # "" /\ Options(d)[3].key # ""
    BY <2>2 DEF KeyValue
  <2>5. \A i \in 1..3 : i = 1 \/ i = 2 \/ i = 3
    OBVIOUS
  <2>6. \A i \in 1..Len(Options(d)) : Options(d)[i].key # ""
    <3> HIDE DEF a, u, m
    <3> QED BY <2>2, <2>4, <2>5
  <2>7. d.dir \notin Lists
    BY <1>3 DEF Lists
  <2>8. Len(Options(d)) \in Nat
    BY <2>3
  <2> QED BY <1>3, <2>2, <2>3, <2>6, <2>7, <2>8
<1> QED BY <1>0, <1>1, <1>2, <1>3

\* The directive is read as it was, about what has these names in package p.
ReadAs(line, d, p) ==
  \E read \in Parse(line) :
    /\ [read EXCEPT !.types = d.types] = d
    /\ Len(read.types) = Len(d.types)
    /\ \A k \in DOMAIN read.types :
         read.types[k] \in LocalImportName(ParseLocalName(d.types[k], p), p)

LEMMA BuiltIsRead ==
  ASSUME NEW d, Meant(d), NEW p, NEW line \in Build(d, p)
  PROVE  ReadAs(line, d, p)
<1>1. d.types \in Seq(ToSet(d.types))
  BY DEF Meant
<1>2. PICK ts \in LocalTypes(d, p) : line = [dir |-> d.dir, words |-> ts \o Options(d)]
  BY DEF Build
<1>3. /\ ts \in Seq(ToSet(ts)) /\ Len(ts) = Len(d.types) /\ Len(ts) \in Nat
      /\ \A i \in 1..Len(ts) :
           /\ ts[i].key = ""
           /\ ts[i].val[1] \in LocalImportName(ParseLocalName(d.types[i], p), p)
  BY <1>1, TypesBuilt
<1> PICK opts : opts = Options(d)
  OBVIOUS
<1> PICK m : m = Len(opts)
  OBVIOUS
<1> DEFINE S == ToSet(ts) \cup ToSet(opts)
<1>4. ts \in Seq(S) /\ opts \in Seq(S) /\ m \in Nat /\ \A i \in 1..m : opts[i].key # ""
  <2>1. opts \in Seq(ToSet(opts)) /\ Len(opts) \in Nat /\ \A i \in 1..Len(opts) : opts[i].key # ""
    BY OptionsOf
  <2>2. ToSet(ts) \subseteq S /\ ToSet(opts) \subseteq S
    OBVIOUS
  <2> HIDE DEF S
  <2>3. ts \in Seq(S) /\ opts \in Seq(S)
    BY <1>3, <2>1, <2>2, SeqMonotonic
  <2> QED BY <2>1, <2>3
<1>5. ArgsThenOptions(line.words, Len(ts), m, ts, opts)
  <2> HIDE DEF S
  <2>1. ArgsThenOptions(ts \o opts, Len(ts), Len(opts), ts, opts)
    BY <1>3, <1>4, WordsAre
  <2> QED BY <1>2, <2>1
<1>6. Args(line) = [i \in 1..Len(ts) |-> ts[i].val[1]] /\ Keys(line) = {opts[i].key : i \in 1..m}
  <2>1. Len(ts) \in Nat /\ m \in Nat
    BY <1>3, <1>4
  <2>2. ArgsAre(line, Len(ts), ts) /\ KeysAre(line, m, opts)
    BY <2>1, <1>5, WordsRead, Zenon
  <2> QED BY <2>2 DEF ArgsAre, KeysAre
<1>7. ASSUME NEW i \in 1..m, \A j \in 1..m : opts[j].key = opts[i].key => j = i
      PROVE  Val(line, opts[i].key) = opts[i].val
  <2>1. Len(ts) \in Nat /\ m \in Nat
    BY <1>3, <1>4
  <2>2. ValuesAre(line, m, opts)
    BY <2>1, <1>5, ValueOf, Zenon
  <2> QED BY <1>7, <2>2 DEF ValuesAre
<1>8. /\ Len(Args(line)) = Len(d.types)
      /\ \A k \in DOMAIN Args(line) :
           Args(line)[k] \in LocalImportName(ParseLocalName(d.types[k], p), p)
  <2>1. Args(line) \in [1..Len(ts) -> ToSet(Args(line))]
    BY <1>6 DEF ToSet
  <2>2. Args(line) \in Seq(ToSet(Args(line)))
    BY <1>3, <2>1, SeqDef
  <2>3. Len(Args(line)) = Len(ts)
    <3>1. DOMAIN Args(line) = 1..Len(ts)
      BY <1>6
    <3> QED BY <1>3, <2>2, <3>1, LenOf, Zenon
  <2> QED BY <1>3, <1>6, <2>3
<1>9. line.dir = d.dir
  BY <1>2
<1>10. CASE d.dir \in Lists /\ d = [dir |-> d.dir, types |-> d.types]
  <2>1. Keys(line) = {}
    <3>1. m = 0
      BY <1>10, OptionsOf
    <3>2. 1..0 = {}
      OBVIOUS
    <3> QED BY <1>6, <3>1, <3>2
  <2>2. [dir |-> line.dir, types |-> Args(line)] \in Parse(line)
    BY <1>9, <1>10, <2>1 DEF Parse, Lists
  <2>3. [[dir |-> line.dir, types |-> Args(line)] EXCEPT !.types = d.types] = d
    BY <1>9, <1>10
  <2> QED BY <1>8, <2>2, <2>3 DEF ReadAs
<1>11. CASE /\ Len(d.types) = 1
            /\ d = [dir |-> "intercept", types |-> d.types, using |-> d.using]
  <2>1. d.dir = "intercept"
    BY <1>11
  <2>2. m = 1 /\ opts[1].key = "using" /\ opts[1].val = d.using
    <3>1. m = 1 /\ opts[1] = KeyValue("using", d.using)
      BY <2>1, OptionsOf
    <3> QED BY <3>1 DEF KeyValue
  <2>3. Keys(line) = {"using"}
    <3>1. 1..m = {1}
      BY <2>2
    <3> QED BY <1>6, <2>2, <3>1
  <2>4. Val(line, "using") = d.using
    <3>1. 1 \in 1..m /\ \A j \in 1..m : j = 1
      BY <2>2
    <3> QED BY <1>7, <2>2, <3>1
  <2> DEFINE read == [dir |-> "intercept", types |-> Args(line), using |-> Val(line, "using")]
  <2>5. read \in Parse(line)
    BY <1>8, <1>9, <1>11, <2>1, <2>3 DEF Parse, Lists
  <2>6. [read EXCEPT !.types = d.types] = d
    BY <1>11, <2>4
  <2>7. read.types = Args(line)
    OBVIOUS
  <2> HIDE DEF read
  <2> QED BY <1>8, <2>5, <2>6, <2>7 DEF ReadAs
<1>12. CASE /\ Len(d.types) = 1 /\ Len(d.using) = 2 /\ d.mode \in ShimModes
            /\ d = [dir |-> "shim", types |-> d.types, as |-> d.as, using |-> d.using, mode |-> d.mode]
  <2>1. d.dir = "shim"
    BY <1>12
  <2>2. m = 3 /\ opts[1] = KeyValue("as", d.as) /\ opts[2] = KeyValue("using", d.using)
        /\ opts[3] = KeyValue("mode", d.mode)
    BY <2>1, OptionsOf
  <2>3. opts[1].key = "as" /\ opts[2].key = "using" /\ opts[3].key = "mode"
        /\ opts[1].val = d.as /\ opts[2].val = d.using /\ opts[3].val = d.mode
    BY <2>2 DEF KeyValue
  <2>4. Keys(line) = {"as", "using", "mode"}
    <3>1. 1..3 = {1, 2, 3}
      OBVIOUS
    <3> QED BY <1>6, <2>2, <2>3, <3>1
  <2>5. Val(line, "as") = d.as /\ Val(line, "using") = d.using /\ Val(line, "mode") = d.mode
    <3>1. \A i \in 1..3 : i = 1 \/ i = 2 \/ i = 3
      OBVIOUS
    <3>2. 1 \in 1..m /\ 2 \in 1..m /\ 3 \in 1..m
      BY <2>2
    <3>3. \A j \in 1..m : opts[j].key = opts[1].key => j = 1
      BY <2>2, <2>3, <3>1
    <3>4. \A j \in 1..m : opts[j].key = opts[2].key => j = 2
      BY <2>2, <2>3, <3>1
    <3>5. \A j \in 1..m : opts[j].key = opts[3].key => j = 3
      BY <2>2, <2>3, <3>1
    <3> QED BY <1>7, <2>3, <3>2, <3>3, <3>4, <3>5
  <2>6. Mode(line) = d.mode
    BY <2>4, <2>5 DEF Mode
  <2> DEFINE read == [dir |-> "shim", types |-> Args(line), as |-> Val(line, "as"),
                      using |-> Val(line, "using"), mode |-> Mode(line)]
  <2>7. read \in Parse(line)
    BY <1>8, <1>9, <1>12, <2>1, <2>4, <2>5, <2>6 DEF Parse, Lists, ModeKnown
  <2>8. [read EXCEPT !.types = d.types] = d
    BY <1>12, <2>5, <2>6
  <2>9. read.types = Args(line)
    OBVIOUS
  <2> HIDE DEF read
  <2> QED BY <1>8, <2>7, <2>8, <2>9 DEF ReadAs
<1> QED BY <1>10, <1>11, <1>12 DEF Meant
----------------------------------------------------------------------------
\* The steps of a run.

IsSeq(s) == s \in Seq(ToSet(s))

LEMMA AppendFacts ==
  ASSUME NEW s, IsSeq(s), NEW x
  PROVE  /\ IsSeq(Append(s, x)) /\ Len(s) \in Nat
         /\ Len(Append(s, x)) = Len(s) + 1
         /\ DOMAIN Append(s, x) = 1..(Len(s) + 1) /\ DOMAIN s = 1..Len(s)
         /\ \A i \in DOMAIN s : Append(s, x)[i] = s[i]
         /\ Append(s, x)[Len(s) + 1] = x
         /\ \A i \in DOMAIN Append(s, x) : i \in DOMAIN s \/ i = Len(s) + 1
<1> DEFINE S == ToSet(s) \cup {x}
<1>1. s \in Seq(S)
  <2>1. s \in Seq(ToSet(s)) /\ ToSet(s) \subseteq S
    BY DEF IsSeq
  <2> HIDE DEF S
  <2> QED BY <2>1, SeqMonotonic
<1>2. x \in S
  OBVIOUS
<1> HIDE DEF S
<1>3. Len(s) \in Nat /\ DOMAIN s = 1..Len(s)
  BY <1>1, LenProperties
<1>4. /\ Append(s, x) \in Seq(S)
      /\ Len(Append(s, x)) = Len(s) + 1
      /\ \A i \in 1..Len(s) : Append(s, x)[i] = s[i]
      /\ Append(s, x)[Len(s) + 1] = x
  BY <1>1, <1>2, AppendProperties
<1>5. IsSeq(Append(s, x)) /\ DOMAIN Append(s, x) = 1..(Len(s) + 1)
  BY <1>4, SeqFacts DEF IsSeq
<1>6. \A n \in Nat : \A i \in 1..(n + 1) : i \in 1..n \/ i = n + 1
  OBVIOUS
<1> QED BY <1>3, <1>4, <1>5, <1>6

LEMMA TailFacts ==
  ASSUME NEW s, IsSeq(s), s # <<>>
  PROVE  /\ IsSeq(Tail(s)) /\ Len(s) \in Nat /\ Len(Tail(s)) \in Nat
         /\ Len(Tail(s)) = Len(s) - 1 /\ Len(s) = Len(Tail(s)) + 1
         /\ 1 \in DOMAIN s /\ Head(s) = s[1] /\ Head(s) \in ToSet(s)
         /\ DOMAIN s = 1..Len(s) /\ DOMAIN Tail(s) = 1..Len(Tail(s))
         /\ \A i \in DOMAIN Tail(s) : i + 1 \in DOMAIN s /\ Tail(s)[i] = s[i + 1]
         /\ ToSet(s) = ToSet(Tail(s)) \cup {Head(s)}
<1>1. s \in Seq(ToSet(s))
  BY DEF IsSeq
<1>2. Len(s) \in Nat /\ DOMAIN s = 1..Len(s) /\ Len(s) # 0
  BY <1>1, SeqFacts, EmptySeq
<1>3. /\ Tail(s) \in Seq(ToSet(s)) /\ Len(Tail(s)) = Len(s) - 1
      /\ \A i \in 1..Len(Tail(s)) : Tail(s)[i] = s[i + 1]
  BY <1>1, HeadTailProperties
<1>4. IsSeq(Tail(s)) /\ DOMAIN Tail(s) = 1..Len(Tail(s)) /\ ToSet(Tail(s)) \subseteq ToSet(s)
  BY <1>3, SeqFacts DEF IsSeq
<1>5. Head(s) = s[1] /\ 1 \in DOMAIN s
  BY <1>1, <1>2
<1>6. Head(s) \in ToSet(s)
  BY <1>5 DEF ToSet
<1>7. \A n \in Nat \ {0} : \A i \in 1..n : i = 1 \/ (i - 1 \in 1..(n - 1) /\ (i - 1) + 1 = i)
  OBVIOUS
<1>8. ASSUME NEW x \in ToSet(s) PROVE x \in ToSet(Tail(s)) \cup {Head(s)}
  <2>1. PICK i \in 1..Len(s) : x = s[i]
    BY <1>2 DEF ToSet
  <2>2. CASE i = 1
    BY <1>5, <2>1, <2>2
  <2>3. CASE i - 1 \in 1..(Len(s) - 1) /\ (i - 1) + 1 = i
    <3>1. i - 1 \in DOMAIN Tail(s) /\ Tail(s)[i - 1] = x
      BY <1>3, <1>4, <2>1, <2>3
    <3> QED BY <3>1 DEF ToSet
  <2> QED BY <1>2, <1>7, <2>2, <2>3
<1>9. ToSet(s) = ToSet(Tail(s)) \cup {Head(s)}
  BY <1>4, <1>6, <1>8
<1>10. \A n \in Nat \ {0} : /\ n - 1 \in Nat /\ n = (n - 1) + 1
                            /\ \A i \in 1..(n - 1) : i + 1 \in 1..n
  OBVIOUS
<1> QED BY <1>2, <1>3, <1>4, <1>5, <1>6, <1>9, <1>10

LEMMA ConcatFacts ==
  ASSUME NEW s, NEW t, IsSeq(s), IsSeq(t)
  PROVE  IsSeq(s \o t) /\ ToSet(s \o t) \subseteq ToSet(s) \cup ToSet(t)
<1> DEFINE S == ToSet(s) \cup ToSet(t)
<1>1. s \in Seq(S) /\ t \in Seq(S)
  <2>1. s \in Seq(ToSet(s)) /\ t \in Seq(ToSet(t)) /\ ToSet(s) \subseteq S /\ ToSet(t) \subseteq S
    BY DEF IsSeq
  <2> HIDE DEF S
  <2> QED BY <2>1, SeqMonotonic
<1> HIDE DEF S
<1>2. s \o t \in Seq(S)
  BY <1>1, ConcatProperties
<1>3. IsSeq(s \o t) /\ ToSet(s \o t) \subseteq S
  BY <1>2, SeqFacts DEF IsSeq
<1> QED BY <1>3 DEF S

LEMMA MappedFacts ==
  ASSUME NEW s, IsSeq(s), NEW t, DOMAIN t = DOMAIN s, t = [i \in DOMAIN s |-> t[i]]
  PROVE  IsSeq(t)
<1>1. Len(s) \in Nat /\ DOMAIN s = 1..Len(s)
  BY SeqFacts DEF IsSeq
<1>2. t \in [1..Len(s) -> ToSet(t)]
  BY <1>1 DEF ToSet
<1> QED BY <1>1, <1>2, SeqDef DEF IsSeq

\* What the extractor adds is meant as it is.
LEMMA GeneratedIsMeant ==
  ASSUME NEW t
  PROVE  Meant(Tuple(t)) /\ Meant(AllowExtra(t)) /\ Meant(Shim(t)) /\ Meant(Intercept(t))
<1>1. \A x : <<x>> \in Seq(ToSet(<<x>>)) /\ Len(<<x>>) = 1
  <2> TAKE x
  <2>1. <<x>> \in Seq({x})
    OBVIOUS
  <2>2. <<x>> \in Seq(ToSet(<<x>>))
    BY <2>1, SeqFacts
  <2> QED BY <2>2
<1>2. Meant(Tuple(t))
  <2>1. Tuple(t).types \in Seq(ToSet(Tuple(t).types))
    BY <1>1 DEF Tuple
  <2> QED BY <2>1 DEF Meant, Tuple, Lists
<1>a. Meant(AllowExtra(t))
  <2>1. AllowExtra(t).types \in Seq(ToSet(AllowExtra(t).types))
    BY <1>1 DEF AllowExtra
  <2> QED BY <2>1 DEF Meant, AllowExtra, Lists
<1>3. Meant(Shim(t))
  <2> DEFINE x == Full(t)
             u == <<<<"string">>, FindImportedName(t, pkg)>>
             d == [dir |-> "shim", types |-> <<x>>, as |-> <<<<"string">>>>, using |-> u, mode |-> Cast]
  <2>1. Shim(t) = d
    BY DEF Shim
  <2>2. Len(u) = 2
    OBVIOUS
  <2> HIDE DEF x, u
  <2>3. d.types \in Seq(ToSet(d.types)) /\ Len(d.types) = 1
    BY <1>1
  <2>4. d.mode \in ShimModes /\ Len(d.using) = 2
    BY <2>2 DEF ShimModes
  <2>5. d = [dir |-> "shim", types |-> d.types, as |-> d.as, using |-> d.using, mode |-> d.mode]
    OBVIOUS
  <2> HIDE DEF d
  <2>6. Meant(d)
    BY <2>3, <2>4, <2>5 DEF Meant
  <2> QED BY <2>1, <2>6
<1>4. Meant(Intercept(t))
  <2>1. Intercept(t).types \in Seq(ToSet(Intercept(t).types)) /\ Len(Intercept(t).types) = 1
    BY <1>1 DEF Intercept
  <2> QED BY <2>1 DEF Meant, Intercept
<1> QED BY <1>2, <1>a, <1>3, <1>4
----------------------------------------------------------------------------
\* The invariant.

\* A directive is in the file as it was built; what is left is still to come.
BuildInv ==
  /\ IsSeq(directives) /\ IsSeq(lines) /\ IsSeq(left)
  /\ \A n \in DOMAIN directives : Meant(directives[n])
  /\ Len(lines) <= Len(directives)
  /\ \A n \in DOMAIN lines : lines[n] \in Build(directives[n], pkg)
  /\ phase = "load" =>
       lines = <<>> /\ \A n \in DOMAIN left : IsSeq(left[n].words)
  /\ phase = "build" =>
       /\ Len(directives) = Len(lines) + Len(left)
       /\ \A n \in DOMAIN left : left[n] = directives[Len(lines) + n]
  /\ phase \in {"check", "done"} => Len(lines) = Len(directives)

Passes(line) == line.level = "ok" \/ IsIgnoredUnresolved(line)

\* A line of msgp passes, is still to be looked at, or ends the run.
CheckInv ==
  /\ phase \in {"load", "build"} => said = {}
  /\ phase \notin {"error", "panic"} => refused = {}
  /\ phase \in {"check", "done"} => \A x \in said : x \in ToSet(left) \/ Passes(x)
  /\ phase = "check" => ToSet(left) \subseteq said
  /\ phase = "done" => left = <<>>
  /\ refused \subseteq said
  /\ said \subseteq MsgpLines
  /\ \A x \in refused : ~IsIgnoredUnresolved(x)

Phases == {"load", "build", "check", "done", "error", "panic"}

DirectingInv == input \in Inputs /\ phase \in Phases /\ BuildInv /\ CheckInv

LEMMA InputFacts ==
  ASSUME input \in Inputs
  PROVE  /\ pkg \in Packages /\ IsSeq(input.comments)
         /\ \A n \in DOMAIN input.comments : IsSeq(input.comments[n].words)
         /\ IsSeq(input.primitives) /\ IsSeq(input.ifaces)
         /\ ToSet(input.primitives) \subseteq Types
         /\ IsFiniteSet(input.structs)
<1>1. /\ input.pkg \in Packages /\ input.comments \in Seq(ToSet(input.comments))
      /\ \A line \in ToSet(input.comments) : line.words \in Seq(ToSet(line.words))
      /\ input.primitives \in Seq(Types) /\ input.ifaces \in Seq(Types)
      /\ IsFiniteSet(input.structs)
  BY InputsAssumption
<1>2. IsSeq(input.primitives) /\ IsSeq(input.ifaces) /\ ToSet(input.primitives) \subseteq Types
  BY <1>1, SeqFacts DEF IsSeq
<1>3. \A n \in DOMAIN input.comments : input.comments[n] \in ToSet(input.comments)
  BY DEF ToSet
<1> QED BY <1>1, <1>2, <1>3 DEF IsSeq, pkg

LEMMA EmptyIsSeq == IsSeq(<<>>) /\ Len(<<>>) = 0 /\ DOMAIN <<>> = {} /\ ToSet(<<>>) = {}
<1>1. <<>> \in Seq({}) /\ Len(<<>>) = 0
  OBVIOUS
<1>2. DOMAIN <<>> = {}
  BY <1>1
<1>3. ToSet(<<>>) = {}
  BY <1>2 DEF ToSet
<1> QED BY <1>1, <1>2, <1>3 DEF IsSeq

LEMMA InitDirecting == Init => DirectingInv
<1> SUFFICES ASSUME Init PROVE DirectingInv
  OBVIOUS
<1>1. BuildInv
  <2>1. phase = "load" /\ lines = <<>> /\ directives = <<>> /\ left = input.comments /\ input \in Inputs
    BY DEF Init
  <2> QED BY <2>1, InputFacts, EmptyIsSeq DEF BuildInv
<1>2. CheckInv
  BY DEF Init, CheckInv
<1> QED BY <1>1, <1>2 DEF DirectingInv, Init, Phases

LEMMA LoadKeeps ==
  ASSUME DirectingInv, LoadDirective
  PROVE  DirectingInv'
<1>0. /\ phase = "load" /\ left # <<>> /\ input' = input /\ lines' = lines /\ said' = said
      /\ refused' = refused /\ lines = <<>> /\ said = {} /\ refused = {} /\ input \in Inputs
      /\ IsSeq(directives) /\ IsSeq(lines) /\ IsSeq(left)
      /\ \A n \in DOMAIN directives : Meant(directives[n])
      /\ \A n \in DOMAIN left : IsSeq(left[n].words)
  BY DEF LoadDirective, DirectingInv, BuildInv, CheckInv
<1>1. CASE Parse(Head(left)) = {}
  <2>1. phase' = "error" /\ left' = left /\ directives' = directives
    BY <1>1 DEF LoadDirective
  <2>2. BuildInv'
    BY <1>0, <2>1 DEF DirectingInv, BuildInv, pkg
  <2>3. CheckInv'
    BY <1>0, <2>1 DEF CheckInv
  <2> QED BY <1>0, <2>1, <2>2, <2>3 DEF DirectingInv, Phases
<1>2. CASE Parse(Head(left)) # {}
  <2>1. PICK d \in Parse(Head(left)) : directives' = Append(directives, d)
    BY <1>2 DEF LoadDirective
  <2>2. phase' = "load" /\ left' = Tail(left)
    BY <1>0, <1>2 DEF LoadDirective
  <2>3. Meant(d)
    <3>1. IsSeq(Head(left).words)
      BY <1>0, TailFacts
    <3> QED BY <3>1, ParsedIsMeant DEF IsSeq
  <2>4. IsSeq(directives') /\ \A n \in DOMAIN directives' : Meant(directives'[n])
    BY <1>0, <2>1, <2>3, AppendFacts
  <2>5. IsSeq(left') /\ \A n \in DOMAIN left' : IsSeq(left'[n].words)
    BY <1>0, <2>2, TailFacts
  <2>6. Len(lines') <= Len(directives')
    <3>1. Len(directives') = Len(directives) + 1 /\ Len(directives) \in Nat
      BY <1>0, <2>1, AppendFacts
    <3>2. Len(lines') = 0
      BY <1>0, EmptyIsSeq
    <3> QED BY <3>1, <3>2
  <2>7. BuildInv'
    BY <1>0, <2>2, <2>4, <2>5, <2>6, EmptyIsSeq DEF BuildInv
  <2>8. CheckInv'
    BY <1>0, <2>2 DEF CheckInv
  <2> QED BY <1>0, <2>2, <2>7, <2>8 DEF DirectingInv, Phases
<1> QED BY <1>1, <1>2

LEMMA AddKeeps ==
  ASSUME DirectingInv, AddGenerated
  PROVE  DirectingInv'
<1>0. /\ phase' = "build" /\ left' = directives' /\ input' = input /\ lines' = lines /\ said' = said
      /\ refused' = refused /\ lines = <<>> /\ said = {} /\ refused = {} /\ input \in Inputs
      /\ IsSeq(directives) /\ IsSeq(lines)
      /\ \A n \in DOMAIN directives : Meant(directives[n])
  BY DEF AddGenerated, DirectingInv, BuildInv, CheckInv
<1> PICK tuples : tuples = SetToSeq(OfStructs)
  OBVIOUS
<1> PICK shims : shims = [i \in DOMAIN input.primitives |-> Shim(input.primitives[i])]
  OBVIOUS
<1> PICK intercepts : intercepts = [i \in DOMAIN input.ifaces |-> Intercept(input.ifaces[i])]
  OBVIOUS
<1>1. directives' = ((directives \o tuples) \o shims) \o intercepts
  BY DEF AddGenerated
<1>2. IsSeq(tuples) /\ \A d \in ToSet(tuples) : Meant(d)
  <2>1. IsFiniteSet(OfStructs)
    <3> PICK S : S = input.structs
      OBVIOUS
    <3> PICK T : T = {s \in input.structs : input.allowExtra}
      OBVIOUS
    <3> PICK f : f = [t \in S |-> Tuple(t)]
      OBVIOUS
    <3> PICK g : g = [t \in T |-> AllowExtra(t)]
      OBVIOUS
    <3>1. IsFiniteSet(S)
      BY <1>0, InputFacts
    <3>2. IsFiniteSet(T)
      BY <3>1, FS_Subset
    <3>3. IsFiniteSet({f[t] : t \in S})
      BY <3>1, ImageIsFinite
    <3>g. g = [t \in T |-> g[t]]
      OBVIOUS
    <3>4. IsFiniteSet({g[t] : t \in T})
      <4> HIDE DEF AllowExtra
      <4> QED BY ONLY <3>2, <3>g, ImageIsFinite
    <3>5. OfStructs = {f[t] : t \in S} \cup {g[t] : t \in T}
      BY DEF OfStructs
    <3> QED BY <3>3, <3>4, <3>5, FS_Union
  <2>2. \A d \in OfStructs : Meant(d)
    BY GeneratedIsMeant DEF OfStructs
  <2>4. tuples \in Seq(OfStructs) /\ ToSet(tuples) = OfStructs
    BY <2>1, SetAsSeq
  <2> QED BY <2>2, <2>4 DEF IsSeq
<1>3. IsSeq(shims) /\ \A d \in ToSet(shims) : Meant(d)
  <2>1. IsSeq(input.primitives)
    BY <1>0, InputFacts
  <2>2. DOMAIN shims = DOMAIN input.primitives /\ shims = [i \in DOMAIN input.primitives |-> shims[i]]
    OBVIOUS
  <2> QED BY <2>1, <2>2, MappedFacts, GeneratedIsMeant DEF ToSet
<1>4. IsSeq(intercepts) /\ \A d \in ToSet(intercepts) : Meant(d)
  <2>1. IsSeq(input.ifaces)
    BY <1>0, InputFacts
  <2>2. DOMAIN intercepts = DOMAIN input.ifaces /\ intercepts = [i \in DOMAIN input.ifaces |-> intercepts[i]]
    OBVIOUS
  <2> QED BY <2>1, <2>2, MappedFacts, GeneratedIsMeant DEF ToSet
<1>5. \A d \in ToSet(directives) : Meant(d)
  BY <1>0 DEF ToSet
<1>6. IsSeq(directives \o tuples) /\ \A d \in ToSet(directives \o tuples) : Meant(d)
  BY <1>0, <1>2, <1>5, ConcatFacts
<1> PICK a : a = directives \o tuples
  OBVIOUS
<1>7. IsSeq(a \o shims) /\ \A d \in ToSet(a \o shims) : Meant(d)
  BY <1>3, <1>6, ConcatFacts
<1> PICK b : b = a \o shims
  OBVIOUS
<1>8. IsSeq(b \o intercepts) /\ \A d \in ToSet(b \o intercepts) : Meant(d)
  BY <1>4, <1>7, ConcatFacts
<1>9. IsSeq(directives') /\ \A n \in DOMAIN directives' : Meant(directives'[n])
  BY <1>1, <1>8 DEF ToSet
<1>10. /\ Len(lines') = 0 /\ DOMAIN lines' = {} /\ Len(directives') \in Nat
       /\ DOMAIN directives' = 1..Len(directives')
  BY <1>0, <1>9, EmptyIsSeq, SeqFacts DEF IsSeq
<1>11. BuildInv'
  <2>1. \A k \in Nat : 0 <= k /\ k = 0 + k
    OBVIOUS
  <2>2. \A n \in DOMAIN left' : left'[n] = directives'[Len(lines') + n]
    <3> SUFFICES ASSUME NEW n \in 1..Len(directives') PROVE directives'[n] = directives'[0 + n]
      BY <1>0, <1>10
    <3>1. 0 + n = n
      BY <1>10
    <3> QED BY <3>1
  <2> QED BY <1>0, <1>9, <1>10, <2>1, <2>2 DEF BuildInv
<1>12. CheckInv'
  BY <1>0 DEF CheckInv
<1> QED BY <1>0, <1>11, <1>12 DEF DirectingInv, Phases

LEMMA BuildKeeps ==
  ASSUME DirectingInv, BuildDirective
  PROVE  DirectingInv'
<1>0. /\ phase = "build" /\ left # <<>> /\ input' = input /\ directives' = directives /\ said' = said
      /\ refused' = refused /\ said = {} /\ refused = {} /\ input \in Inputs
      /\ IsSeq(directives) /\ IsSeq(lines) /\ IsSeq(left)
      /\ \A n \in DOMAIN directives : Meant(directives[n])
      /\ \A n \in DOMAIN lines : lines[n] \in Build(directives[n], pkg)
      /\ Len(directives) = Len(lines) + Len(left)
      /\ \A n \in DOMAIN left : left[n] = directives[Len(lines) + n]
      /\ Len(lines) <= Len(directives)
  BY DEF BuildDirective, DirectingInv, BuildInv, CheckInv
<1>1. CASE Build(Head(left), pkg) = {}
  <2>1. phase' = "error" /\ left' = left /\ lines' = lines
    BY <1>1 DEF BuildDirective
  <2>2. BuildInv'
    BY <1>0, <2>1 DEF BuildInv, pkg
  <2>3. CheckInv'
    BY <1>0, <2>1 DEF CheckInv
  <2> QED BY <1>0, <2>1, <2>2, <2>3 DEF DirectingInv, Phases
<1>2. CASE Build(Head(left), pkg) # {}
  <2>1. PICK line \in Build(Head(left), pkg) : lines' = Append(lines, line)
    BY <1>2 DEF BuildDirective
  <2>2. phase' = "build" /\ left' = Tail(left)
    BY <1>0, <1>2 DEF BuildDirective
  <2>3. /\ IsSeq(lines') /\ Len(lines) \in Nat /\ Len(lines') = Len(lines) + 1
        /\ DOMAIN lines = 1..Len(lines)
        /\ \A i \in DOMAIN lines : lines'[i] = lines[i]
        /\ lines'[Len(lines) + 1] = line
        /\ \A i \in DOMAIN lines' : i \in DOMAIN lines \/ i = Len(lines) + 1
    BY <1>0, <2>1, AppendFacts
  <2>4. /\ IsSeq(left') /\ Len(left') \in Nat /\ Len(left) = Len(left') + 1
        /\ 1 \in DOMAIN left /\ Head(left) = left[1] /\ DOMAIN left' = 1..Len(left')
        /\ \A i \in DOMAIN left' : i + 1 \in DOMAIN left /\ left'[i] = left[i + 1]
    BY <1>0, <2>2, TailFacts
  <2>5. line \in Build(directives[Len(lines) + 1], pkg)
    BY <1>0, <2>1, <2>4
  <2>6. \A n \in DOMAIN lines' : lines'[n] \in Build(directives'[n], pkg')
    BY <1>0, <2>3, <2>5 DEF pkg
  <2>7. Len(directives') = Len(lines') + Len(left') /\ Len(lines') <= Len(directives')
    BY <1>0, <2>3, <2>4
  <2>8. \A n \in DOMAIN left' : left'[n] = directives'[Len(lines') + n]
    <3> TAKE n \in DOMAIN left'
    <3>1. n \in Nat
      BY <2>4
    <3>2. left'[n] = directives[Len(lines) + (n + 1)]
      BY <1>0, <2>4
    <3>3. Len(lines) + (n + 1) = Len(lines') + n
      BY <2>3, <3>1
    <3> QED BY <1>0, <3>2, <3>3
  <2>9. BuildInv'
    BY <1>0, <2>2, <2>3, <2>4, <2>6, <2>7, <2>8 DEF BuildInv
  <2>10. CheckInv'
    BY <1>0, <2>2 DEF CheckInv
  <2> QED BY <1>0, <2>2, <2>9, <2>10 DEF DirectingInv, Phases
<1> QED BY <1>1, <1>2

LEMMA RunMsgpKeeps ==
  ASSUME DirectingInv, RunMsgp
  PROVE  DirectingInv'
<1>0. /\ phase = "build" /\ left = <<>> /\ phase' = "check"
      /\ input' = input /\ directives' = directives /\ lines' = lines
      /\ refused' = refused /\ refused = {} /\ input \in Inputs
      /\ Len(directives) = Len(lines) + Len(left)
      /\ IsSeq(directives) /\ IsSeq(lines)
      /\ \A n \in DOMAIN directives : Meant(directives[n])
      /\ \A n \in DOMAIN lines : lines[n] \in Build(directives[n], pkg)
      /\ Len(lines) <= Len(directives)
  BY DEF RunMsgp, DirectingInv, BuildInv, CheckInv
<1>1. PICK n \in 0..MaxLines : left' \in [1..n -> MsgpLines]
  BY DEF RunMsgp
<1>2. n \in Nat /\ MsgpLines' = MsgpLines
  BY <1>0, LinesAssumption DEF MsgpLines
<1>3. IsSeq(left') /\ ToSet(left') = said' /\ said' \subseteq MsgpLines
  <2>1. left' \in Seq(MsgpLines)
    BY <1>1, <1>2, SeqDef
  <2>2. said' = ToSet(left')
    BY DEF RunMsgp
  <2> QED BY <2>1, <2>2, SeqFacts DEF IsSeq
<1>4. Len(directives) = Len(lines)
  <2>1. Len(left) = 0 /\ Len(lines) \in Nat
    BY <1>0, EmptyIsSeq, SeqFacts DEF IsSeq
  <2> QED BY <1>0, <2>1
<1>5. BuildInv'
  BY <1>0, <1>3, <1>4 DEF BuildInv, pkg
<1>6. CheckInv'
  BY <1>0, <1>2, <1>3 DEF CheckInv
<1> QED BY <1>0, <1>5, <1>6 DEF DirectingInv, Phases

LEMMA MsgpFailsKeeps ==
  ASSUME DirectingInv, MsgpFails
  PROVE  DirectingInv'
<1>0. /\ phase = "build" /\ phase' = "error" /\ said = {} /\ refused = {}
      /\ UNCHANGED <<input, left, directives, lines, said, refused>>
  BY DEF MsgpFails, DirectingInv, CheckInv
<1>1. BuildInv'
  BY <1>0 DEF DirectingInv, BuildInv, pkg
<1>2. CheckInv'
  BY <1>0 DEF CheckInv
<1> QED BY <1>0, <1>1, <1>2 DEF DirectingInv, Phases

LEMMA CheckKeeps ==
  ASSUME DirectingInv, CheckWarning
  PROVE  DirectingInv'
<1>0. /\ phase = "check" /\ left # <<>> /\ IsSeq(left) /\ refused = {} /\ ToSet(left) \subseteq said
      /\ input' = input /\ directives' = directives /\ lines' = lines /\ said' = said
      /\ said \subseteq MsgpLines
      /\ \A x \in said : x \in ToSet(left) \/ Passes(x)
  BY DEF CheckWarning, DirectingInv, BuildInv, CheckInv
<1>1. (\A x : Passes(x)' <=> Passes(x)) /\ MsgpLines' = MsgpLines
  BY <1>0 DEF Passes, IsIgnoredUnresolved, Seen, Texts, Places, TextAt, pkg, MsgpLines
<1>2. Passes(Head(left)) /\ left' = Tail(left) /\ phase' = "check" /\ refused' = {}
  BY <1>0 DEF CheckWarning, Passes
<1>3. IsSeq(left') /\ ToSet(left) = ToSet(left') \cup {Head(left)}
  BY <1>0, <1>2, TailFacts
<1>4. BuildInv'
  BY <1>0, <1>2, <1>3 DEF DirectingInv, BuildInv, pkg
<1>5. CheckInv'
  BY <1>0, <1>1, <1>2, <1>3 DEF CheckInv
<1> QED BY <1>0, <1>2, <1>4, <1>5 DEF DirectingInv, Phases

LEMMA RefuseKeeps ==
  ASSUME DirectingInv, RefuseLine
  PROVE  DirectingInv'
<1>0. /\ phase = "check" /\ left # <<>> /\ IsSeq(left) /\ ToSet(left) \subseteq said
      /\ left' = left /\ phase' \in {"error", "panic"} /\ refused' = {Head(left)}
      /\ input' = input /\ directives' = directives /\ lines' = lines /\ said' = said
      /\ said \subseteq MsgpLines /\ ~IsIgnoredUnresolved(Head(left))
  BY DEF RefuseLine, DirectingInv, BuildInv, CheckInv
<1>1. /\ \A x : IsIgnoredUnresolved(x)' <=> IsIgnoredUnresolved(x)
      /\ MsgpLines' = MsgpLines
  <2>1. Seen' = Seen /\ MsgpLines' = MsgpLines
    BY <1>0 DEF Seen, MsgpLines
  <2>2. Texts("ignore")' = Texts("ignore") /\ Texts("intercept")' = Texts("intercept")
    BY <1>0 DEF Texts, Places, TextAt, pkg
  <2> QED BY <2>1, <2>2 DEF IsIgnoredUnresolved
<1>2. Head(left) \in said
  BY <1>0, TailFacts
<1>3. BuildInv'
  BY <1>0 DEF DirectingInv, BuildInv, pkg
<1>4. CheckInv'
  BY <1>0, <1>1, <1>2 DEF CheckInv
<1> QED BY <1>0, <1>3, <1>4 DEF DirectingInv, Phases

LEMMA AcceptKeeps ==
  ASSUME DirectingInv, Accept
  PROVE  DirectingInv'
<1>0. /\ phase = "check" /\ left = <<>> /\ phase' = "done" /\ UNCHANGED <<input, left, directives, lines, said, refused>>
  BY DEF Accept
<1>1. /\ \A x : Passes(x)' <=> Passes(x)
      /\ \A x : IsIgnoredUnresolved(x)' <=> IsIgnoredUnresolved(x)
      /\ MsgpLines' = MsgpLines
  BY <1>0 DEF Passes, IsIgnoredUnresolved, Seen, Texts, Places, TextAt, pkg, MsgpLines
<1>2. BuildInv'
  BY <1>0 DEF DirectingInv, BuildInv, pkg
<1>3. CheckInv'
  BY <1>0, <1>1 DEF DirectingInv, CheckInv
<1> QED BY <1>0, <1>2, <1>3 DEF DirectingInv, Phases

LEMMA StutterDirecting ==
  ASSUME DirectingInv, UNCHANGED vars
  PROVE  DirectingInv'
<1>0. UNCHANGED <<input, phase, left, directives, lines, said, refused>>
  BY DEF vars
<1>1. /\ \A x : Passes(x)' <=> Passes(x)
      /\ \A x : IsIgnoredUnresolved(x)' <=> IsIgnoredUnresolved(x)
      /\ MsgpLines' = MsgpLines
  BY <1>0 DEF Passes, IsIgnoredUnresolved, Seen, Texts, Places, TextAt, pkg, MsgpLines
<1>2. BuildInv'
  BY <1>0 DEF DirectingInv, BuildInv, pkg
<1>3. CheckInv'
  BY <1>0, <1>1 DEF DirectingInv, CheckInv
<1> QED BY <1>0, <1>2, <1>3 DEF DirectingInv

LEMMA DirectingInvariant == Spec => []DirectingInv
<1>1. DirectingInv /\ [Next]_vars => DirectingInv'
  BY LoadKeeps, AddKeeps, BuildKeeps, RunMsgpKeeps, MsgpFailsKeeps,
     CheckKeeps, RefuseKeeps, AcceptKeeps, StutterDirecting DEF Next
<1> QED BY <1>1, InitDirecting, PTL DEF Spec
----------------------------------------------------------------------------
\* The theorems.

LEMMA MeantHasType ==
  ASSUME NEW d, Meant(d)
  PROVE  d.dir \in Lists \cup {"shim", "intercept"} /\ (d.dir = "shim" => d.mode \in ShimModes)
<1>1. CASE d.dir \in Lists
  BY <1>1 DEF Lists
<1>2. CASE d = [dir |-> "intercept", types |-> d.types, using |-> d.using]
  BY <1>2
<1>3. CASE /\ d.mode \in ShimModes
           /\ d = [dir |-> "shim", types |-> d.types, as |-> d.as, using |-> d.using, mode |-> d.mode]
  BY <1>3
<1> QED BY <1>1, <1>2, <1>3 DEF Meant

\* What loadDirectives and the extractor have made are directives, shims with a
\* mode; no more of them are written than there are.
THEOREM DirectingTypes == Spec => []TypeOK
<1>1. DirectingInv => TypeOK
  BY MeantHasType DEF DirectingInv, BuildInv, CheckInv, TypeOK, Phases
<1> QED BY <1>1, DirectingInvariant, PTL

\* Every directive in the temporary file is read as the directive it was made
\* from, with its options, about the same types (directive.go).
THEOREM DirectivesSurvive == Spec => []WrittenAsMeant
<1>1. DirectingInv => WrittenAsMeant
  <2> SUFFICES ASSUME DirectingInv, NEW n \in DOMAIN lines
               PROVE  ReadAs(lines[n], directives[n], pkg)
    BY DEF WrittenAsMeant, ReadAs
  <2>1. /\ IsSeq(lines) /\ IsSeq(directives) /\ Len(lines) <= Len(directives)
        /\ lines[n] \in Build(directives[n], pkg)
    BY DEF DirectingInv, BuildInv
  <2>2. n \in DOMAIN directives
    BY <2>1, SeqFacts DEF IsSeq
  <2>3. Meant(directives[n])
    BY <2>2 DEF DirectingInv, BuildInv
  <2> QED BY <2>1, <2>3, BuiltIsRead
<1> QED BY <1>1, DirectingInvariant, PTL

\* A text of a directive names what the directive names.
LEMMA TextsAreNamed ==
  ASSUME NEW dir, NEW text \in Texts(dir)
  PROVE  /\ ParseLocalName(text, pkg) \in Named(dir)
         /\ \E n \in DOMAIN directives : \E k \in DOMAIN directives[n].types :
              text = directives[n].types[k]
<1>1. PICK x \in Places(dir) : text = TextAt(x)
  BY DEF Texts
<1>2. PICK n \in {m \in DOMAIN directives : directives[m].dir = dir} :
        \E k \in DOMAIN directives[n].types : x = <<n, k>>
  BY <1>1 DEF Places
<1>3. PICK k \in DOMAIN directives[n].types : x = <<n, k>>
  BY <1>2
<1>4. text = directives[n].types[k]
  BY <1>1, <1>3 DEF TextAt
<1>5. text \in ToSet(directives[n].types) /\ directives[n] \in {d \in ToSet(directives) : d.dir = dir}
  BY <1>2, <1>4 DEF ToSet
<1> QED BY <1>2, <1>4, <1>5 DEF Named

\* What is built is about the package or one that was imported.
LEMMA BuiltIsImported ==
  ASSUME NEW d, NEW p \in Packages, NEW line \in Build(d, p), NEW k \in DOMAIN d.types
  PROVE  ParseLocalName(d.types[k], p).pkg \in Packages
<1>1. LocalImportName(ParseLocalName(d.types[k], p), p) # {}
  BY DEF Build, LocalTypes
<1> QED BY <1>1 DEF LocalImportName

\* A run that succeeds was told of nothing but what may be (msgp.go:103, 139):
\* the text under which a map keeps a directive names the type it stands for.
THEOREM WarningsWereExpected == Spec => []WarningsExpected
<1>1. DirectingInv => WarningsExpected
  <2> SUFFICES ASSUME DirectingInv, phase = "done", NEW line \in said,
                      line.level \notin {"ok", "ignored"}
               PROVE  line.level = "identifier" /\ Expected(line.use)
    BY DEF WarningsExpected
  <2>0. left = <<>> /\ (line \in ToSet(left) \/ Passes(line))
    BY DEF DirectingInv, CheckInv
  <2>a. /\ line.level = "identifier"
        /\ line.use.text \in Seen \cup Texts("ignore") \cup Texts("intercept")
    BY <2>0, EmptyIsSeq DEF Passes, IsIgnoredUnresolved
  <2> PICK u : u = line.use
    OBVIOUS
  <2> SUFFICES Expected(u)
    BY <2>a
  <2>1. u.text \in Seen \cup Texts("ignore") \cup Texts("intercept")
    BY <2>a
  <2>2. CASE u.text \in Seen
    BY <2>2 DEF Seen, Expected
  <2>3. CASE u.text \in Texts("ignore") \cup Texts("intercept")
    <3>1. ParseLocalName(u.text, pkg) \in Named("ignore") \cup Named("intercept")
      BY <2>3, TextsAreNamed
    <3>2. PICK n \in DOMAIN directives : \E k \in DOMAIN directives[n].types :
              u.text = directives[n].types[k]
      BY <2>3, TextsAreNamed
    <3>3. n \in DOMAIN lines /\ pkg \in Packages
      <4>1. IsSeq(lines) /\ IsSeq(directives) /\ Len(lines) = Len(directives)
        BY DEF DirectingInv, BuildInv
      <4> QED BY <4>1, SeqFacts, InputFacts DEF IsSeq, DirectingInv
    <3>4. lines[n] \in Build(directives[n], pkg)
      BY <3>3 DEF DirectingInv, BuildInv
    <3>5. ParseLocalName(u.text, pkg).pkg \in Packages
      BY <3>2, <3>3, <3>4, BuiltIsImported
    <3> QED BY <3>1, <3>5 DEF Expected
  <2> QED BY <2>1, <2>2, <2>3
<1> QED BY <1>1, DirectingInvariant, PTL

\* Of the texts that name a type the last is kept.
LEMMA NamedHasText ==
  ASSUME BuildInv, NEW dir, NEW t \in Named(dir)
  PROVE  \E text \in Texts(dir) : ParseLocalName(text, pkg) = t
<1>1. \A n \in DOMAIN directives :
        /\ DOMAIN directives[n].types = 1..Len(directives[n].types)
        /\ Len(directives[n].types) \in Nat
  BY SeqFacts DEF BuildInv, Meant
<1>2. DOMAIN directives = 1..Len(directives) /\ Len(directives) \in Nat
  BY SeqFacts DEF BuildInv, IsSeq
<1> DEFINE is(n, k) == ParseLocalName(directives[n].types[k], pkg) = t
           N == {n \in DOMAIN directives :
                   directives[n].dir = dir /\ \E k \in DOMAIN directives[n].types : is(n, k)}
<1>3. PICK n \in N : \A m \in N : m <= n
  <2>1. N # {}
    <3>1. PICK d \in ToSet(directives) : d.dir = dir /\ \E text \in ToSet(d.types) : ParseLocalName(text, pkg) = t
      BY DEF Named
    <3>2. PICK n \in DOMAIN directives : d = directives[n]
      BY DEF ToSet
    <3> QED BY <3>1, <3>2 DEF ToSet
  <2>2. N \subseteq Nat /\ \A m \in N : m <= Len(directives)
    BY <1>2
  <2> HIDE DEF N
  <2> QED BY <1>2, <2>1, <2>2, GreatestOf
<1> DEFINE K == {k \in DOMAIN directives[n].types : is(n, k)}
<1>4. PICK k \in K : \A j \in K : j <= k
  <2>1. K # {}
    BY <1>3
  <2>2. K \subseteq Nat /\ \A j \in K : j <= Len(directives[n].types)
    BY <1>1, <1>3
  <2>3. Len(directives[n].types) \in Nat
    BY <1>1, <1>3
  <2> HIDE DEF K
  <2> QED BY <2>1, <2>2, <2>3, GreatestOf
<1> PICK x : x = <<n, k>>
  OBVIOUS
<1>5. x[1] = n /\ x[2] = k /\ TextAt(x) = directives[n].types[k]
  BY DEF TextAt
<1>6. n \in DOMAIN directives /\ directives[n].dir = dir /\ k \in DOMAIN directives[n].types /\ is(n, k)
  BY <1>3, <1>4
<1>7. x \in Places(dir)
  BY <1>6 DEF Places
<1>8. ASSUME NEW z \in Places(dir), ParseLocalName(TextAt(z), pkg) = t PROVE ~Later(z, x)
  <2>1. PICK m \in DOMAIN directives : directives[m].dir = dir /\ \E j \in DOMAIN directives[m].types : z = <<m, j>>
    BY DEF Places
  <2>2. PICK j \in DOMAIN directives[m].types : z = <<m, j>>
    BY <2>1
  <2>3. is(m, j) /\ z[1] = m /\ z[2] = j
    BY <1>8, <2>2 DEF TextAt
  <2>4. m \in N
    BY <2>1, <2>3
  <2>5. m <= n
    BY <1>3, <2>4
  <2>6. m = n => j <= k
    BY <1>4, <2>3
  <2>7. m \in Nat /\ n \in Nat /\ j \in Nat /\ k \in Nat
    BY <1>1, <1>2, <1>6
  <2> HIDE DEF N, K
  <2> QED BY <1>5, <2>3, <2>5, <2>6, <2>7 DEF Later
<1>9. ParseLocalName(TextAt(x), pkg) = t
  BY <1>5, <1>6
<1>10. TextAt(x) \in Texts(dir)
  BY <1>7, <1>8, <1>9 DEF Texts
<1> QED BY <1>9, <1>10

\* No run ends for a warning of a type the extractor has taken care of, named as
\* isIgnoredUnresolved expects it, or of one that is ignored by that name.
THEOREM AlarmsAreRight == Spec => []NoFalseAlarm
<1>1. DirectingInv => NoFalseAlarm
  <2> SUFFICES ASSUME DirectingInv, NEW u \in input.uses, [level |-> "identifier", use |-> u] \in refused
               PROVE  /\ u.type \in input.seen => u.text # <<Base[u.type.pkg], u.type.name>>
                      /\ u.type \in Named("ignore") =>
                           \E d \in ToSet(directives) : \E text \in ToSet(d.types) :
                             ParseLocalName(text, pkg) = u.type /\ text # u.text
    BY DEF NoFalseAlarm
  <2>1. u.text \notin Seen \cup Texts("ignore") \cup Texts("intercept")
    BY DEF DirectingInv, CheckInv, IsIgnoredUnresolved
  <2>2. u.type \in input.seen => u.text # <<Base[u.type.pkg], u.type.name>>
    BY <2>1 DEF Seen
  <2>3. ASSUME u.type \in Named("ignore")
        PROVE  \E d \in ToSet(directives) : \E text \in ToSet(d.types) :
                 ParseLocalName(text, pkg) = u.type /\ text # u.text
    <3>1. PICK text \in Texts("ignore") : ParseLocalName(text, pkg) = u.type
      BY <2>3, NamedHasText DEF DirectingInv
    <3>2. PICK n \in DOMAIN directives : \E k \in DOMAIN directives[n].types : text = directives[n].types[k]
      BY <3>1, TextsAreNamed
    <3>3. directives[n] \in ToSet(directives) /\ text \in ToSet(directives[n].types)
      BY <3>2 DEF ToSet
    <3> QED BY <2>1, <3>1, <3>3
  <2> QED BY <2>2, <2>3
<1> QED BY <1>1, DirectingInvariant, PTL
=============================================================================
