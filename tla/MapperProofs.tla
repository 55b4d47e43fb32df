---------------------------- MODULE MapperProofs ----------------------------
(***************************************************************************)
(* Theorems about Mapper, for any types, generations and messages: what is *)
(* on the wire is framed as the receiver reads it, half messages and       *)
(* bodies that look like messages included.                                *)
(***************************************************************************)
EXTENDS Mapper, SequenceTheorems, WellFoundedInduction, TLAPS

----------------------------------------------------------------------------
\* Numbers.

\* A set of numbers has a least one.
LEMMA LeastOf ==
  ASSUME NEW T, T \subseteq Nat, T # {}
  PROVE  \E x \in T : \A y \in T : x <= y
<1>1. PICK x \in T : \A y \in T : <<y, x>> \notin OpToRel(<, Nat)
  BY NatLessThanWellFounded, WFMin
<1>2. \A y \in T : ~(y < x)
  BY <1>1 DEF OpToRel
<1> QED BY <1>2

LEMMA Halves ==
  ASSUME NEW k \in Nat
  PROVE  /\ (2 * k) % 2 = 0 /\ (2 * k) \div 2 = k
         /\ (2 * k + 1) % 2 = 1
OBVIOUS

LEMMA EvenOrOdd ==
  ASSUME NEW i \in Nat
  PROVE  \E k \in Nat : i = 2 * k \/ i = 2 * k + 1
<1> DEFINE k == i \div 2
<1>1. k \in Nat /\ (i = 2 * k \/ i = 2 * k + 1)
  OBVIOUS
<1> QED BY <1>1
----------------------------------------------------------------------------
\* The encoding of a message.

\* The chains that are sent, and the empty one.
Chained == Shapes \cup {<<>>}

LEMMA ChainedAreChains ==
  ASSUME NEW types \in Chained
  PROVE  /\ types \in Seq(Implementers) /\ Len(types) \in Nat
         /\ \A i \in 1..Len(types) : types[i] \in Implementers
         /\ \A i \in 1..(Len(types) - 1) : types[i] \in Boxes
         /\ EndsInBody(types) => Len(types) > 0 /\ types[Len(types)] \in Implementers \ Boxes
         /\ ~EndsInBody(types) /\ Len(types) > 0 => types[Len(types)] \in Boxes
<1>1. types \in Seq(Implementers)
  <2>1. Shapes \subseteq Seq(Implementers)
    BY ImplementersAssumption
  <2>2. <<>> \in Seq(Implementers)
    OBVIOUS
  <2> QED BY <2>1, <2>2 DEF Chained
<1>2. \A i \in 1..(Len(types) - 1) : types[i] \in Boxes
  <2>1. CASE types \in Shapes
    BY <2>1, ImplementersAssumption
  <2>2. CASE types = <<>>
    <3>1. Len(types) = 0
      BY <2>2
    <3> QED BY <3>1
  <2> QED BY <2>1, <2>2 DEF Chained
<1>3. Len(types) \in Nat /\ (types = <<>> <=> Len(types) = 0)
      /\ \A i \in 1..Len(types) : types[i] \in Implementers
  BY <1>1
<1>4. EndsInBody(types) <=> types # <<>> /\ types[Len(types)] \notin Boxes
  BY DEF EndsInBody, Last
<1>5. Len(types) > 0 => Len(types) \in 1..Len(types)
  BY <1>3
<1> QED BY <1>1, <1>2, <1>3, <1>4, <1>5

LEMMA ObjectsApart ==
  /\ Nil # Array(2) /\ Nil # Array(3) /\ Array(2) # Array(3)
  /\ \A n : String(n) \notin {Nil, Array(2), Array(3)} /\ Value(n) \notin {Nil, Array(2), Array(3)}
  /\ \A m, n : String(m) # Value(n)
  /\ \A m, n : String(m) = String(n) => m = n
  /\ \A m, n : Value(m) = Value(n) => m = n
  /\ Nil.is = "nil" /\ \A n : Array(n).is = "arr" /\ String(n).is = "str" /\ Value(n).is = "val"
  /\ \A n : Value(n).n = n
BY DEF Nil, Array, String, Value

SameKinds(s, r) == \A i \in 1..Len(s) : s[i].is = r[i].is

\* The objects of a body, by the kinds in BodyOf; a value comes last.
LEMMA BodyFacts ==
  ASSUME NEW t \in Implementers \ Boxes, NEW n
  PROVE  /\ Len(Body(t, n)) = Len(BodyOf[t]) /\ Len(BodyOf[t]) \in Nat \ {0}
         /\ DOMAIN Body(t, n) = 1..Len(BodyOf[t])
         /\ Body(t, n)[Len(BodyOf[t])] = Value(n)
         /\ \A m : SameKinds(Body(t, n), Body(t, m))
         /\ Body(t, n) \in Seq(Objects \cup {Value(n)})
<1> DEFINE b == BodyOf[t]
<1>1. /\ b \in Seq({"arr2", "arr3", "str", "num", "val"}) /\ b # <<>> /\ Last(b) = "val"
  BY ImplementersAssumption
<1>2. /\ Len(b) \in Nat \ {0} /\ DOMAIN b = 1..Len(b) /\ b[Len(b)] = "val"
      /\ \A i \in 1..Len(b) : b[i] \in {"arr2", "arr3", "str", "num", "val"}
  BY <1>1 DEF Last
<1> DEFINE num == CHOOSE i \in {ID[u] : u \in Implementers} : TRUE
           Object(k, m) == CASE k = "arr2" -> Array(2)
                             [] k = "arr3" -> Array(3)
                             [] k = "str" -> String(NotANumber)
                             [] k = "num" -> String(num)
                             [] k = "val" -> Value(m)
<1>3. \A m : Body(t, m) = [i \in 1..Len(b) |-> Object(b[i], m)]
  BY <1>2 DEF Body
<1>4. num \in {ID[u] : u \in Implementers}
  OBVIOUS
<1>5. \A m : \A i \in 1..Len(b) : Object(b[i], m) \in Objects \cup {Value(m)}
  BY <1>2, <1>4 DEF Objects
<1>6. \A m : \A i \in 1..Len(b) : Object(b[i], m).is = Object(b[i], n).is
  BY <1>2, ObjectsApart
<1> HIDE DEF Object, b
<1>7. \A m : \A i \in 1..Len(b) : Body(t, m)[i] = Object(b[i], m)
  BY <1>3
<1>8. Len(Body(t, n)) = Len(b) /\ DOMAIN Body(t, n) = 1..Len(b)
  BY <1>2, <1>3
<1>9. Body(t, n) \in Seq(Objects \cup {Value(n)})
  BY <1>2, <1>3, <1>5
<1>10. Object(b[Len(b)], n) = Value(n)
  BY <1>2 DEF Object
<1>11. \A m : SameKinds(Body(t, n), Body(t, m))
  BY <1>6, <1>7, <1>8 DEF SameKinds
<1>12. Len(b) \in 1..Len(b)
  BY <1>2
<1>13. Body(t, n)[Len(b)] = Value(n)
  BY <1>7, <1>10, <1>12
<1> QED BY <1>2, <1>8, <1>9, <1>11, <1>13 DEF b

\* How many objects an encoding has.
Size(types) ==
  2 * Len(types) + (IF EndsInBody(types) THEN Len(BodyOf[Last(types)]) ELSE 1)

\* The headers and kinds of an encoding.
KindsAsOf(types, e) ==
  /\ \A d \in 0..(Len(types) - 1) : e[2 * d + 1] = Array(2)
  /\ \A d \in 1..Len(types) : e[2 * d] = String(ID[types[d]])

\* What comes after them.
TailAsOf(types, n, e) ==
  /\ ~EndsInBody(types) => Size(types) = 2 * Len(types) + 1 /\ e[2 * Len(types) + 1] = Nil
  /\ EndsInBody(types) =>
       /\ Size(types) = 2 * Len(types) + Len(BodyOf[Last(types)])
       /\ \A i \in 1..Len(BodyOf[Last(types)]) : e[2 * Len(types) + i] = Body(Last(types), n)[i]
       /\ e[Size(types)] = Value(n)

LEMMA EncodingFacts ==
  ASSUME NEW types \in Chained, NEW n, NEW known
  PROVE  LET e == Encoding(types, n, known)
             m == Len(types)
         IN /\ Size(types) \in Nat /\ Size(types) > 2 * m
            /\ Len(e) = Size(types) /\ DOMAIN e = 1..Size(types)
            /\ KindsAsOf(types, e) /\ TailAsOf(types, n, e)
            /\ e \in Seq(Objects \cup {Value(n)})
            /\ n \in 1..MaxMessages => Value(n) \in Objects /\ e \in Seq(Objects)
<1> DEFINE m == Len(types)
           head == [i \in 1..(2 * m) |->
                      IF i % 2 = 1 THEN Array(2) ELSE Kind(types[i \div 2], known)]
           tail == IF EndsInBody(types) THEN Body(Last(types), n) ELSE <<Nil>>
           e == Encoding(types, n, known)
<1>1. /\ m \in Nat /\ \A i \in 1..m : types[i] \in Implementers
      /\ EndsInBody(types) => Last(types) \in Implementers \ Boxes
  BY ChainedAreChains DEF Last
<1>2. e = head \o tail
  BY DEF Encoding
<1> DEFINE All == Objects \cup {Value(n)}
<1>4. tail \in Seq(All) /\ Len(tail) = Size(types) - 2 * m /\ Len(tail) > 0
  <2>1. CASE EndsInBody(types)
    <3>1. tail = Body(Last(types), n) /\ Size(types) = 2 * m + Len(BodyOf[Last(types)])
      BY <2>1 DEF Size
    <3>2. /\ Len(tail) = Len(BodyOf[Last(types)]) /\ Len(tail) \in Nat \ {0}
          /\ tail \in Seq(All)
      BY <1>1, <2>1, <3>1, BodyFacts
    <3> QED BY <1>1, <3>1, <3>2
  <2>2. CASE ~EndsInBody(types)
    <3>1. tail = <<Nil>> /\ Size(types) = 2 * m + 1
      BY <2>2 DEF Size
    <3>2. Nil \in All
      BY DEF Objects
    <3>3. <<Nil>> \in Seq(All) /\ Len(<<Nil>>) = 1
      BY <3>2
    <3> HIDE DEF tail, All
    <3> QED BY <1>1, <3>1, <3>3
  <2> QED BY <2>1, <2>2
<1>5. \A d \in 0..(m - 1) : head[2 * d + 1] = Array(2)
  BY <1>1, Halves
<1>6. \A d \in 1..m : head[2 * d] = String(ID[types[d]])
  BY <1>1, Halves DEF Kind
<1>7. \A i \in 1..(2 * m) : head[i] \in All
  <2> TAKE i \in 1..(2 * m)
  <2>1. PICK k \in Nat : i = 2 * k \/ i = 2 * k + 1
    <3>1. i \in Nat
      BY <1>1
    <3> QED BY <3>1, EvenOrOdd
  <2> HIDE DEF head
  <2>2. CASE i = 2 * k
    <3>1. k \in 1..m
      BY <1>1, <2>2
    <3>2. head[i] = String(ID[types[k]]) /\ types[k] \in Implementers
      BY <1>1, <1>6, <2>2, <3>1
    <3> QED BY <3>2 DEF Objects
  <2>3. CASE i = 2 * k + 1
    <3>1. k \in 0..(m - 1)
      BY <1>1, <2>3
    <3>2. head[i] = Array(2)
      BY <1>5, <2>3, <3>1
    <3> QED BY <3>2 DEF Objects
  <2> QED BY <2>1, <2>2, <2>3
<1>3. head \in Seq(All) /\ Len(head) = 2 * m
  <2>1. 2 * m \in Nat /\ head = [i \in 1..(2 * m) |-> head[i]]
    BY <1>1
  <2> HIDE DEF head, All
  <2> QED BY <1>7, <2>1
<1>8. Size(types) \in Nat /\ Size(types) > 2 * m
  <2>1. CASE EndsInBody(types)
    <3>1. Len(BodyOf[Last(types)]) \in Nat \ {0}
      BY <1>1, <2>1, BodyFacts
    <3>2. Size(types) = 2 * m + Len(BodyOf[Last(types)])
      BY <2>1 DEF Size
    <3>3. \A a, b \in Nat : b # 0 => 2 * a + b \in Nat /\ 2 * a + b > 2 * a
      OBVIOUS
    <3> QED BY <1>1, <3>1, <3>2, <3>3, Zenon
  <2>2. CASE ~EndsInBody(types)
    BY <1>1, <2>2 DEF Size
  <2> QED BY <2>1, <2>2
<1> HIDE DEF head, tail, All, e, m
<1>9. /\ Len(e) = Size(types) /\ DOMAIN e = 1..Size(types) /\ e \in Seq(All)
      /\ \A i \in 1..(2 * m) : e[i] = head[i]
      /\ \A i \in 1..Len(tail) : e[2 * m + i] = tail[i]
  <2>1. /\ e \in Seq(All) /\ Len(e) = 2 * m + Len(tail)
        /\ \A i \in 1..(2 * m + Len(tail)) :
             e[i] = IF i <= 2 * m THEN head[i] ELSE tail[i - 2 * m]
    <3>1. e = head \o tail /\ head \in Seq(All) /\ tail \in Seq(All)
      BY <1>2, <1>3, <1>4
    <3>2. /\ head \o tail \in Seq(All) /\ Len(head \o tail) = Len(head) + Len(tail)
          /\ \A i \in 1..(Len(head) + Len(tail)) :
               (head \o tail)[i] = IF i <= Len(head) THEN head[i] ELSE tail[i - Len(head)]
      BY <3>1, ConcatProperties
    <3> QED BY <1>3, <3>1, <3>2
  <2>2. Len(tail) \in Nat /\ 2 * m \in Nat
    BY <1>1, <1>4
  <2> HIDE DEF m
  <2> DEFINE k == 2 * m
             l == Len(tail)
  <2>3. \A i \in 1..k : e[i] = head[i]
    BY <2>1, <2>2
  <2>4. \A i \in 1..l : e[k + i] = tail[i]
    <3> TAKE i \in 1..l
    <3>1. k \in Nat /\ l \in Nat
      BY <2>2
    <3>2. k + i \in 1..(k + l) /\ ~(k + i <= k) /\ k + i - k = i
      <4> HIDE DEF k, l
      <4> QED BY <3>1
    <3>3. \A j \in 1..(k + l) : e[j] = IF j <= k THEN head[j] ELSE tail[j - k]
      BY <2>1, Zenon
    <3> HIDE DEF k, l
    <3>4. e[k + i] = tail[k + i - k]
      BY <3>2, <3>3, <3>1
    <3> QED BY <3>2, <3>4
  <2>5. Len(e) = Size(types)
    BY <1>4, <1>8, <2>1, <2>2
  <2> QED BY <2>1, <2>3, <2>4, <2>5
<1>10. \A d \in 0..(m - 1) : e[2 * d + 1] = Array(2)
  BY <1>1, <1>5, <1>9
<1>11. \A d \in 1..m : e[2 * d] = String(ID[types[d]])
  BY <1>1, <1>6, <1>9
<1>12. ASSUME ~EndsInBody(types)
       PROVE  Size(types) = 2 * m + 1 /\ e[2 * m + 1] = Nil
  <2>1. tail = <<Nil>> /\ Size(types) = 2 * m + 1
    BY <1>12 DEF Size, tail, m
  <2> QED BY <1>9, <2>1
<1>13. ASSUME EndsInBody(types)
       PROVE  /\ Size(types) = 2 * m + Len(BodyOf[Last(types)])
              /\ \A i \in 1..Len(BodyOf[Last(types)]) : e[2 * m + i] = Body(Last(types), n)[i]
              /\ e[Size(types)] = Value(n)
  <2>1. tail = Body(Last(types), n) /\ Size(types) = 2 * m + Len(BodyOf[Last(types)])
    BY <1>13 DEF Size, tail, m
  <2>2. /\ Len(tail) = Len(BodyOf[Last(types)]) /\ Len(tail) \in Nat \ {0}
        /\ tail[Len(tail)] = Value(n)
    BY <1>1, <1>13, <2>1, BodyFacts
  <2>3. \A i \in 1..Len(BodyOf[Last(types)]) : e[2 * m + i] = Body(Last(types), n)[i]
    BY <1>9, <2>1, <2>2
  <2>4. e[2 * m + Len(tail)] = tail[Len(tail)]
    BY <1>9, <2>2
  <2> QED BY <2>1, <2>2, <2>3, <2>4
<1>14. n \in 1..MaxMessages => Value(n) \in Objects /\ All = Objects
  BY DEF Objects, All
<1>15. KindsAsOf(types, e)
  BY <1>10, <1>11 DEF KindsAsOf, m
<1>16. TailAsOf(types, n, e)
  BY <1>12, <1>13 DEF TailAsOf, m
<1> QED BY <1>8, <1>9, <1>14, <1>15, <1>16 DEF All, e, m
----------------------------------------------------------------------------
\* Type correctness.

\* How many types of the chain EncodeMsg is done with.
Done == Len(writing.types) - Len(writing.rest)

\* What is left of a chain is its end; where EncodeMsg is tells what is left.
WriteInv ==
  writing.pc # "idle" =>
    /\ writing.types \in Shapes
    /\ Message <= MaxMessages
    /\ Len(writing.rest) <= Len(writing.types)
    /\ \A i \in 1..Len(writing.rest) : writing.rest[i] = writing.types[Done + i]
    /\ \A i \in 1..Done : writing.types[i] \in knows.enc
    /\ writing.pc = "kind" => writing.rest # <<>>
    /\ writing.pc = "body" => writing.rest = <<>> /\ EndsInBody(writing.types)
    /\ writing.pc = "head" /\ writing.rest = <<>> => ~EndsInBody(writing.types)

\* A body is read of a type that has one.
ReadInv == reading.pc = "body" => EndsInBody(reading.types)

TypeInv == TypeOK /\ WriteInv /\ ReadInv



LEMMA MessageIsANumber ==
  ASSUME TypeOK
  PROVE  /\ Len(sent) \in Nat /\ failed \in Nat /\ Message \in Nat \ {0}
         /\ Message = Len(sent) + failed + 1
BY ImplementersAssumption DEF TypeOK, Message

LEMMA SentKeepsTypes ==
  ASSUME TypeOK, NEW types \in Shapes, Message <= MaxMessages, Sent(types)
  PROVE  /\ sent' \in Seq([types : Shapes, n : 0..MaxMessages])
         /\ failed' \in 0..MaxMessages
         /\ writing' \in [pc : {"idle", "head", "kind", "body"}, rest : Chains, types : Chains]
         /\ writing'.pc = "idle"
<1>1. Contents(types, Message) \in 0..MaxMessages
  BY MessageIsANumber, ImplementersAssumption DEF Contents
<1>2. <<>> \in Chains
  BY DEF Chains
<1>3. Idle \in [pc : {"idle", "head", "kind", "body"}, rest : Chains, types : Chains]
  BY <1>2 DEF Idle
<1> QED BY <1>1, <1>3 DEF TypeOK, Sent, Idle

\* A message that EncodeMsg writes, piece by piece.
LEMMA EncodingKeepsTypes ==
  ASSUME TypeInv, writing.pc # "idle",
         EncodeNil \/ EncodeHead \/ EncodeKind \/ EncodeUnknown \/ EncodeBody
  PROVE  TypeInv'
<1> DEFINE types == writing.types
           rest == writing.rest
<1>1. TypeOK /\ WriteInv /\ ReadInv
  BY DEF TypeInv
<1>2. /\ types \in Shapes /\ types \in Chained /\ types \in Chains /\ rest \in Chains
      /\ Message <= MaxMessages
      /\ writing \in [pc : {"idle", "head", "kind", "body"}, rest : Chains, types : Chains]
      /\ wire \in Seq(Objects)
  BY <1>1 DEF TypeOK, WriteInv, Chained
<1>3. Message \in 1..MaxMessages /\ failed + 1 \in 0..MaxMessages
  BY <1>1, <1>2, MessageIsANumber, ImplementersAssumption
<1>4. /\ \A objects \in Seq(Objects) : wire \o objects \in Seq(Objects)
      /\ Nil \in Objects /\ Array(2) \in Objects
      /\ \A t \in Implementers : Kind(t, knows.enc) \in Objects
  BY <1>2 DEF Objects, Kind
<1>5. UNCHANGED <<knows, receiver>>
  BY DEF EncodeNil, EncodeHead, EncodeKind, EncodeUnknown, EncodeBody
<1>6. ReadInv'
  BY <1>1, <1>5 DEF ReadInv, receiver
<1>7. <<>> \in Chains
  BY DEF Chains
<1>8. CASE EncodeNil
  <2>1. wire' \in Seq(Objects)
    <3>1. <<Nil>> \in Seq(Objects) /\ wire' = wire \o <<Nil>>
      BY <1>4, <1>8 DEF EncodeNil, Write
    <3> QED BY <1>4, <3>1
  <2>2. Sent(types)
    BY <1>8 DEF EncodeNil
  <2> QED BY <1>1, <1>2, <1>5, <1>6, <2>1, <2>2, SentKeepsTypes DEF TypeInv, TypeOK, WriteInv, receiver
<1>9. CASE EncodeBody
  <2>1. Last(types) \in Implementers \ Boxes
    BY <1>1, <1>2, <1>9, ChainedAreChains DEF WriteInv, EncodeBody, Last
  <2>2. Body(Last(types), Message) \in Seq(Objects)
    <3>1. Body(Last(types), Message) \in Seq(Objects \cup {Value(Message)})
      BY <2>1, BodyFacts
    <3>2. Value(Message) \in Objects
      BY <1>3 DEF Objects
    <3>3. Objects \cup {Value(Message)} = Objects
      BY <3>2
    <3> QED BY <3>1, <3>3
  <2>3. wire' \in Seq(Objects)
    BY <1>4, <1>9, <2>2 DEF EncodeBody, Write
  <2>4. Sent(types)
    BY <1>9 DEF EncodeBody
  <2> QED BY <1>1, <1>2, <1>5, <1>6, <2>3, <2>4, SentKeepsTypes DEF TypeInv, TypeOK, WriteInv, receiver
<1>10. CASE EncodeHead
  <2>1. wire' \in Seq(Objects)
    <3>1. <<Array(2)>> \in Seq(Objects) /\ wire' = wire \o <<Array(2)>>
      BY <1>4, <1>10 DEF EncodeHead, Write
    <3> QED BY <1>4, <3>1
  <2>2. /\ writing' \in [pc : {"idle", "head", "kind", "body"}, rest : Chains, types : Chains]
        /\ writing'.pc = "kind" /\ writing'.types = types /\ writing'.rest = rest
        /\ writing.pc = "head" /\ rest # <<>>
        /\ UNCHANGED <<sent, failed>>
    BY <1>2, <1>10 DEF EncodeHead
  <2>3. Message' = Message /\ Done' = Done
    BY <2>2 DEF Message, Done
  <2>4. WriteInv'
    BY <1>1, <1>5, <2>2, <2>3 DEF WriteInv
  <2> QED BY <1>1, <1>5, <1>6, <2>1, <2>2, <2>4 DEF TypeInv, TypeOK, receiver
<1>11. CASE EncodeUnknown
  <2>1. failed' = failed + 1 /\ writing' = Idle /\ UNCHANGED <<sent, wire>>
    BY <1>11 DEF EncodeUnknown
  <2>2. Idle \in [pc : {"idle", "head", "kind", "body"}, rest : Chains, types : Chains]
    BY <1>7 DEF Idle
  <2> QED BY <1>1, <1>3, <1>5, <1>6, <2>1, <2>2 DEF TypeInv, TypeOK, WriteInv, Idle, receiver
<1>12. CASE EncodeKind
  <2> DEFINE t == Head(rest)
  <2>1. /\ writing.pc = "kind" /\ t \in knows.enc
        /\ wire' = wire \o <<Kind(t, knows.enc)>>
        /\ writing' = [writing EXCEPT !.pc = IF t \in Boxes THEN "head" ELSE "body",
                                      !.rest = Tail(@)]
        /\ UNCHANGED <<sent, failed>>
    BY <1>12 DEF EncodeKind, Write
  <2>2. /\ rest # <<>> /\ rest \in Seq(Implementers) /\ types \in Seq(Implementers)
        /\ Len(rest) <= Len(types)
        /\ \A i \in 1..Len(rest) : rest[i] = types[Done + i]
        /\ \A i \in 1..Done : types[i] \in knows.enc
    BY <1>1, <1>2, <2>1 DEF WriteInv, Chains
  <2>3. /\ t \in Implementers /\ t = rest[1] /\ Tail(rest) \in Seq(Implementers)
        /\ Len(rest) \in Nat \ {0} /\ Len(types) \in Nat
        /\ Len(Tail(rest)) = Len(rest) - 1
        /\ \A i \in 1..(Len(rest) - 1) : Tail(rest)[i] = rest[i + 1]
    BY <2>2
  <2>4. wire' \in Seq(Objects)
    <3>1. <<Kind(t, knows.enc)>> \in Seq(Objects)
      BY <1>4, <2>3
    <3> QED BY <1>4, <2>1, <3>1
  <2>5. /\ writing' \in [pc : {"idle", "head", "kind", "body"}, rest : Chains, types : Chains]
        /\ writing'.pc = (IF t \in Boxes THEN "head" ELSE "body")
        /\ writing'.types = types /\ writing'.rest = Tail(rest)
    BY <1>2, <2>1, <2>3 DEF Chains
  <2>6. Done \in Nat /\ Done' = Done + 1 /\ Done + Len(rest) = Len(types) /\ Message' = Message
    BY <2>1, <2>2, <2>3, <2>5 DEF Done, Message
  <2>7. t = types[Done + 1]
    BY <2>2, <2>3
  <2>8. \A i \in 1..Len(Tail(rest)) : Tail(rest)[i] = types[(Done + 1) + i]
    <3> TAKE i \in 1..Len(Tail(rest))
    <3>1. i + 1 \in 1..Len(rest) /\ i \in 1..(Len(rest) - 1) /\ Done + (i + 1) = (Done + 1) + i
      BY <2>3, <2>6
    <3> QED BY <2>2, <2>3, <3>1
  <2>9. \A i \in 1..(Done + 1) : types[i] \in knows.enc
    BY <2>1, <2>2, <2>6, <2>7
  <2>10. t \notin Boxes => Tail(rest) = <<>> /\ EndsInBody(types)
    <3> SUFFICES ASSUME t \notin Boxes PROVE Tail(rest) = <<>> /\ EndsInBody(types)
      OBVIOUS
    <3>1. ~(Done + 1 \in 1..(Len(types) - 1))
      BY <1>2, <2>7, ChainedAreChains
    <3>2. \A d \in Nat, r \in Nat \ {0}, m \in Nat :
            d + r = m /\ ~(d + 1 \in 1..(m - 1)) => d + 1 = m /\ r = 1
      OBVIOUS
    <3>3. Done + 1 = Len(types) /\ Len(rest) = 1
      BY <2>3, <2>6, <3>1, <3>2, Zenon
    <3>4. Len(Tail(rest)) = 0
      BY <2>3, <3>3
    <3>5. Tail(rest) = <<>>
      BY <2>3, <3>4, EmptySeq
    <3>6. types # <<>>
      BY <2>6, <3>3, EmptySeq
    <3>7. EndsInBody(types)
      BY <2>7, <3>3, <3>6 DEF EndsInBody, Last
    <3> QED BY <3>5, <3>7
  <2>11. t \in Boxes /\ Tail(rest) = <<>> => ~EndsInBody(types)
    <3> SUFFICES ASSUME t \in Boxes, Tail(rest) = <<>> PROVE ~EndsInBody(types)
      OBVIOUS
    <3>1. Len(Tail(rest)) = 0
      BY EmptySeq
    <3>2. \A d \in Nat, r \in Nat, m \in Nat : d + r = m /\ 0 = r - 1 => d + 1 = m
      OBVIOUS
    <3>3. Done + 1 = Len(types)
      BY <2>3, <2>6, <3>1, <3>2, Zenon
    <3> QED BY <2>7, <3>3 DEF EndsInBody, Last
  <2>12. WriteInv'
    <3>1. Len(Tail(rest)) <= Len(types)
      BY <2>2, <2>3
    <3> HIDE DEF types, rest, t
    <3> QED BY <1>2, <1>5, <2>5, <2>6, <2>8, <2>9, <2>10, <2>11, <3>1 DEF WriteInv
  <2> QED BY <1>1, <1>5, <1>6, <2>1, <2>4, <2>5, <2>12 DEF TypeInv, TypeOK, receiver
<1> QED BY <1>8, <1>9, <1>10, <1>11, <1>12

LEMMA SenderKeepsTypes ==
  ASSUME TypeInv, Sender
  PROVE  TypeInv'
<1>1. TypeOK /\ WriteInv /\ ReadInv
  BY DEF TypeInv
<1>2. <<>> \in Chains /\ Shapes \subseteq Chains
  BY ImplementersAssumption DEF Chains
<1>3. ASSUME NEW types \in Shapes, EncodeMsg(types)
      PROVE  TypeInv'
  <2>1. /\ writing' = [pc |-> "head", rest |-> types, types |-> types]
        /\ Message <= MaxMessages
        /\ UNCHANGED <<knows, sent, failed, wire, receiver>>
    BY <1>3 DEF EncodeMsg
  <2>2. types \in Chained /\ types \in Chains
    BY <1>2 DEF Chained
  <2>3. Len(types) \in Nat /\ (types = <<>> => ~EndsInBody(types))
    BY <2>2 DEF Chains, EndsInBody
  <2>4. Done' = 0
    BY <2>1, <2>3 DEF Done
  <2>5. Message' = Message
    BY <2>1 DEF Message
  <2>6. WriteInv'
    BY <2>1, <2>3, <2>4, <2>5 DEF WriteInv
  <2> QED BY <1>1, <2>1, <2>2, <2>6 DEF TypeInv, TypeOK, ReadInv, receiver
<1>4. ASSUME NEW types \in Shapes, MarshalMsg(types)
      PROVE  TypeInv'
  <2>1. /\ Message <= MaxMessages /\ Sent(types)
        /\ wire' = wire \o Encoding(types, Message, knows.enc)
        /\ UNCHANGED <<knows, receiver>>
    BY <1>4 DEF MarshalMsg, Write
  <2>2. Message \in 1..MaxMessages /\ types \in Chained
    BY <1>1, <2>1, MessageIsANumber, ImplementersAssumption DEF Chained
  <2>3. Encoding(types, Message, knows.enc) \in Seq(Objects)
    BY <2>2, EncodingFacts
  <2>4. wire' \in Seq(Objects)
    BY <1>1, <2>1, <2>3 DEF TypeOK
  <2> QED BY <1>1, <2>1, <2>4, SentKeepsTypes DEF TypeInv, TypeOK, WriteInv, ReadInv, receiver
<1>5. CASE EncodeNil \/ EncodeHead \/ EncodeKind \/ EncodeUnknown \/ EncodeBody
  <2>1. writing.pc # "idle"
    BY <1>5 DEF EncodeNil, EncodeHead, EncodeKind, EncodeUnknown, EncodeBody
  <2> QED BY <1>5, <2>1, EncodingKeepsTypes
<1> QED BY <1>3, <1>4, <1>5 DEF Sender

LEMMA ObjectKinds ==
  ASSUME NEW o \in Objects
  PROVE  /\ o.is \in {"nil", "arr", "str", "val"}
         /\ o.is = "nil" => o = Nil
         /\ o.is = "arr" => o \in {Array(2), Array(3)}
         /\ o.is = "str" => \E n \in {ID[t] : t \in Implementers} \cup {NotANumber} : o = String(n)
         /\ o.is = "val" => \E n \in 1..MaxMessages : o = Value(n)
         /\ o.is = "val" => o.n \in 1..MaxMessages /\ o = Value(o.n)
<1>1. \/ o \in {Nil, Array(2), Array(3)}
      \/ \E n \in {ID[t] : t \in Implementers} \cup {NotANumber} : o = String(n)
      \/ \E n \in 1..MaxMessages : o = Value(n)
  BY DEF Objects
<1> QED BY <1>1 DEF Nil, Array, String, Value

\* What is left of the wire when n objects are read.
LEMMA Consumed ==
  ASSUME TypeOK, NEW n \in 0..Len(wire), Consume(n)
  PROVE  /\ wire' \in Seq(Objects) /\ Len(wire') = Len(wire) - n /\ Len(wire') \in Nat
         /\ \A i \in 1..Len(wire') : wire'[i] = wire[n + i]
<1>1. wire \in Seq(Objects) /\ Len(wire) \in Nat
  BY DEF TypeOK
<1>2. \A i \in (n + 1)..Len(wire) : wire[i] \in Objects
  BY <1>1
<1>3. wire' = SubSeq(wire, n + 1, Len(wire)) /\ n + 1 \in Int /\ Len(wire) \in Int
  BY <1>1 DEF Consume
<1>4. /\ wire' \in Seq(Objects)
      /\ Len(wire') = IF n + 1 <= Len(wire) THEN Len(wire) - (n + 1) + 1 ELSE 0
      /\ \A i \in 1..(Len(wire) - (n + 1) + 1) : wire'[i] = wire[n + 1 + i - 1]
  BY <1>2, <1>3, SubSeqProperties
<1> DEFINE l == Len(wire)
<1>5. l \in Nat
  BY <1>1
<1> HIDE DEF l
<1>6. l - (n + 1) + 1 = l - n /\ (n + 1 > l => l - n = 0) /\ l - n \in Nat
  BY <1>5 DEF l
<1>7. Len(wire') = l - n
  <2>1. Len(wire') = IF n + 1 <= l THEN l - (n + 1) + 1 ELSE 0
    BY <1>4 DEF l
  <2>2. l \in Nat /\ n \in Nat /\ n <= l
    BY <1>1, <1>5 DEF l
  <2>3. IF n + 1 <= l THEN l - (n + 1) + 1 = l - n ELSE 0 = l - n
    BY <2>2
  <2> QED BY <2>1, <2>3
<1>8. \A i \in 1..(l - n) : wire'[i] = wire[n + i]
  <2> TAKE i \in 1..(l - n)
  <2>1. n + 1 + i - 1 = n + i
    BY <1>5
  <2>2. i \in 1..(Len(wire) - (n + 1) + 1)
    BY <1>6 DEF l
  <2> QED BY <1>4, <2>1, <2>2
<1> QED BY <1>4, <1>6, <1>7, <1>8 DEF l

\* A prefix, object by object.
LEMMA PrefixFacts ==
  ASSUME NEW S, NEW s \in Seq(S), NEW t \in Seq(S), IsPrefix(s, t)
  PROVE  Len(s) \in 0..Len(t) /\ \A i \in 1..Len(s) : s[i] = t[i]
<1>1. /\ Len(s) \in 0..Len(t) /\ Len(t) \in Nat
      /\ SubSeq(s, 1, Len(s)) = SubSeq(t, 1, Len(s))
  BY DEF IsPrefix
<1>2. SubSeq(s, 1, Len(s)) = s
  BY SubSeqFull
<1>3. \A i \in 1..Len(s) : t[i] \in S
  BY <1>1
<1>4. \A i \in 1..(Len(s) - 1 + 1) : SubSeq(t, 1, Len(s))[i] = t[1 + i - 1]
  BY <1>1, <1>3, SubSeqProperties
<1>5. \A i \in 1..Len(s) : i \in 1..(Len(s) - 1 + 1) /\ 1 + i - 1 = i
  BY <1>1
<1>6. \A i \in 1..Len(s) : s[i] = t[i]
  <2> TAKE i \in 1..Len(s)
  <2>1. SubSeq(t, 1, Len(s))[i] = t[i]
    BY <1>4, <1>5
  <2> QED BY <1>1, <1>2, <2>1
<1> QED BY <1>1, <1>6

\* What UnmarshalMsg returns: the chain, or the chain up to its first value.
LEMMA UnmarshalledFacts ==
  ASSUME NEW types \in Seq(Implementers), NEW n
  PROVE  LET u == Unmarshalled(types, n)
         IN \/ u = [types |-> types, n |-> n]
            \/ \E k \in 1..Len(types) :
                 /\ types[k] \in Values
                 /\ u = [types |-> SubSeq(types, 1, k), n |-> 0]
<1> DEFINE copies == {i \in DOMAIN types : types[i] \in Values}
           first == CHOOSE i \in copies : \A j \in copies : i <= j
<1>1. copies \subseteq Nat /\ DOMAIN types = 1..Len(types)
  OBVIOUS
<1>2. copies # {} => first \in copies
  BY <1>1, LeastOf
<1>3. Unmarshalled(types, n) = IF copies = {} THEN [types |-> types, n |-> n]
                               ELSE [types |-> SubSeq(types, 1, first), n |-> 0]
  BY DEF Unmarshalled
<1> HIDE DEF first
<1> QED BY <1>1, <1>2, <1>3

LEMMA ReceiverKeepsTypes ==
  ASSUME TypeInv, Receiver
  PROVE  TypeInv'
<1> DEFINE Reading == [pc : {"head", "kind", "body"}, types : Chains]
           Receptions == [types : Chains, n : 0..MaxMessages, by : {"DecodeMsg", "UnmarshalMsg"}]
<1>1. /\ TypeOK /\ WriteInv /\ ReadInv
      /\ reading \in Reading /\ reading.types \in Chains /\ received \in Seq(Receptions)
      /\ wire \in Seq(Objects) /\ Len(wire) \in Nat
  BY DEF TypeInv, TypeOK
<1>2. UNCHANGED <<knows, sender>> /\ wire # <<>> /\ errors < MaxErrors
  BY DEF Receiver, DecodeNil, DecodeHead, DecodeHeadFails, DecodeKind, DecodeKindFails,
         DecodeUnknown, DecodeBody, UnmarshalMsg, Reads
<1>3. 0 \in 0..Len(wire) /\ 1 \in 0..Len(wire) /\ 0 \in 0..MaxMessages
      /\ Head(wire) = wire[1] /\ Head(wire) \in Objects
  BY <1>1, <1>2, ImplementersAssumption
<1>4. WriteInv'
  BY <1>1, <1>2 DEF WriteInv, Done, Message, sender
<1>5. Start \in Reading /\ Start.pc = "head"
  <2>1. <<>> \in Chains
    BY DEF Chains
  <2> QED BY <2>1 DEF Start
<1> SUFFICES /\ wire' \in Seq(Objects) /\ reading' \in Reading /\ ReadInv'
             /\ received' \in Seq(Receptions) /\ errors' \in 0..MaxErrors /\ unknown' \in BOOLEAN
  BY <1>1, <1>2, <1>4 DEF TypeInv, TypeOK, sender
<1>6. \A n \in 0..Len(wire) : Consume(n) => wire' \in Seq(Objects)
  BY <1>1, Consumed
<1>7. ASSUME Fails
      PROVE  /\ reading' \in Reading /\ ReadInv'
             /\ received' \in Seq(Receptions) /\ errors' \in 0..MaxErrors
  <2>1. errors' = errors + 1 /\ reading' = Start /\ received' = received
    BY <1>7 DEF Fails
  <2>2. errors' \in 0..MaxErrors
    BY <1>1, <1>2, <2>1, ImplementersAssumption DEF TypeOK
  <2>3. ReadInv'
    BY <1>5, <2>1 DEF ReadInv
  <2> QED BY <1>1, <1>5, <2>1, <2>2, <2>3
<1>8. ASSUME NEW types \in Chains, NEW n \in 0..MaxMessages,
             NEW method \in {"DecodeMsg", "UnmarshalMsg"}, Delivers(types, n, method)
      PROVE  /\ reading' \in Reading /\ ReadInv'
             /\ received' \in Seq(Receptions) /\ errors' \in 0..MaxErrors
  <2>1. /\ received' = Append(received, [types |-> types, n |-> n, by |-> method])
        /\ reading' = Start /\ errors' = errors
    BY <1>8 DEF Delivers
  <2>2. received' \in Seq(Receptions)
    BY <1>1, <2>1
  <2>3. ReadInv'
    BY <1>5, <2>1 DEF ReadInv
  <2> QED BY <1>1, <1>5, <2>1, <2>2, <2>3 DEF TypeOK
<1>9. unknown \in BOOLEAN
  BY <1>1 DEF TypeOK
<1>10. CASE DecodeNil
  <2>1. Consume(1) /\ Delivers(reading.types, 0, "DecodeMsg") /\ unknown' = unknown
    BY <1>10 DEF DecodeNil
  <2> QED BY <1>1, <1>3, <1>6, <1>8, <1>9, <2>1
<1>11. CASE DecodeHead
  <2>1. /\ Consume(1) /\ reading' = [reading EXCEPT !.pc = "kind"]
        /\ UNCHANGED <<received, errors, unknown>>
    BY <1>11 DEF DecodeHead
  <2>2. reading' \in Reading /\ ReadInv'
    BY <1>1, <2>1 DEF ReadInv
  <2>3. wire' \in Seq(Objects)
    BY <1>3, <1>6, <2>1
  <2> QED BY <1>1, <2>1, <2>2, <2>3 DEF TypeOK
<1>12. CASE DecodeHeadFails
  <2>1. /\ Fails /\ unknown' = unknown
        /\ Consume(IF Head(wire).is = "arr" THEN 1 ELSE 0)
    BY <1>12 DEF DecodeHeadFails
  <2> QED BY <1>3, <1>6, <1>7, <1>9, <2>1
<1>13. CASE DecodeKind
  <2>1. PICK t \in KindsOf(Head(wire), knows.dec) :
          /\ Consume(1)
          /\ reading' = [pc |-> IF t \in Boxes THEN "head" ELSE "body",
                         types |-> Append(reading.types, t)]
    BY <1>13 DEF DecodeKind
  <2>2. t \in Implementers
    BY <1>1, <2>1, ImplementersAssumption DEF KindsOf, TypeOK
  <2>3. Append(reading.types, t) \in Chains /\ Append(reading.types, t) # <<>>
        /\ Last(Append(reading.types, t)) = t
    <3>1. reading.types \in Seq(Implementers)
      BY <1>1 DEF Chains
    <3> QED BY <2>2, <3>1, AppendProperties DEF Chains, Last
  <2>4. reading' \in Reading
    BY <2>1, <2>3
  <2>5. ReadInv'
    BY <2>1, <2>3 DEF ReadInv, EndsInBody
  <2>6. UNCHANGED <<received, errors, unknown>>
    BY <1>13 DEF DecodeKind
  <2> QED BY <1>1, <1>3, <1>6, <2>1, <2>4, <2>5, <2>6 DEF TypeOK
<1>14. CASE DecodeKindFails
  <2>1. /\ Fails /\ unknown' = unknown
        /\ Consume(IF Head(wire).is = "str" THEN 1 ELSE 0)
    BY <1>14 DEF DecodeKindFails
  <2> QED BY <1>3, <1>6, <1>7, <1>9, <2>1
<1>15. CASE DecodeUnknown
  BY <1>3, <1>6, <1>7, <1>15 DEF DecodeUnknown
<1>16. CASE DecodeBody
  <2> DEFINE t == Last(reading.types)
             body == Body(t, 1)
             Matches(n) == \A i \in 1..n : wire[i].is = body[i].is
  <2>1. EndsInBody(reading.types)
    BY <1>1, <1>16 DEF ReadInv, DecodeBody, Reads
  <2>2. t \in Implementers \ Boxes
    BY <1>1, <2>1 DEF EndsInBody, Last, Chains
  <2>3. /\ Len(body) \in Nat \ {0} /\ body[Len(body)] = Value(1)
    BY <2>2, BodyFacts
  <2>4. unknown' = unknown
    BY <1>16 DEF DecodeBody
  <2>5. CASE Len(wire) >= Len(body) /\ Matches(Len(body))
    <3>1. Consume(Len(body)) /\ Delivers(reading.types, wire[Len(body)].n, "DecodeMsg")
      BY <1>16, <2>5 DEF DecodeBody
    <3>2. Len(body) \in 1..Len(wire) /\ Len(body) \in 1..Len(body)
      BY <1>1, <2>3, <2>5
    <3>3. wire[Len(body)].is = "val" /\ wire[Len(body)] \in Objects
      BY <1>1, <2>3, <2>5, <3>2, ObjectsApart
    <3>4. wire[Len(body)].n \in 0..MaxMessages
      <4>1. wire[Len(body)].n \in 1..MaxMessages
        BY <3>3, ObjectKinds
      <4> QED BY <4>1
    <3>5. Len(body) \in 0..Len(wire)
      BY <3>2
    <3> QED BY <1>1, <1>6, <1>8, <1>9, <2>4, <3>1, <3>4, <3>5
  <2>6. CASE ~(Len(wire) >= Len(body) /\ Matches(Len(body)))
    <3>1. \E n \in 0..(Len(body) - 1) : Matches(n) /\ n < Len(wire) /\ ~Matches(n + 1)
                                        /\ Consume(n) /\ Fails
      BY <1>16, <2>6 DEF DecodeBody
    <3>2. PICK n \in 0..(Len(body) - 1) : n < Len(wire) /\ Consume(n) /\ Fails
      BY <3>1
    <3>3. n \in 0..Len(wire)
      BY <1>1, <3>2
    <3> QED BY <1>6, <1>7, <1>9, <2>4, <3>2, <3>3
  <2> QED BY <2>5, <2>6
<1>17. CASE UnmarshalMsg
  <2>1. PICK types \in Shapes, n \in 0..MaxMessages :
          /\ (n = 0) = ~EndsInBody(types)
          /\ IsPrefix(Encoding(types, n, knows.dec), wire)
          /\ Consume(Len(Encoding(types, n, knows.dec)))
          /\ Delivers(Unmarshalled(types, n).types, Unmarshalled(types, n).n, "UnmarshalMsg")
    BY <1>17 DEF UnmarshalMsg
  <2>2. types \in Seq(Implementers) /\ types \in Chained
    BY ImplementersAssumption DEF Chained
  <2>3. /\ Unmarshalled(types, n).types \in Chains
        /\ Unmarshalled(types, n).n \in 0..MaxMessages
    <3>1. CASE Unmarshalled(types, n) = [types |-> types, n |-> n]
      BY <2>2, <3>1 DEF Chains
    <3>2. CASE \E k \in 1..Len(types) :
                 Unmarshalled(types, n) = [types |-> SubSeq(types, 1, k), n |-> 0]
      <4>1. PICK k \in 1..Len(types) :
                 Unmarshalled(types, n) = [types |-> SubSeq(types, 1, k), n |-> 0]
        BY <3>2
      <4>2. SubSeq(types, 1, k) \in Seq(Implementers)
        BY <2>2
      <4> QED BY <1>3, <4>1, <4>2 DEF Chains
    <3> QED BY <2>2, <3>1, <3>2, UnmarshalledFacts
  <2>4. Len(Encoding(types, n, knows.dec)) \in 0..Len(wire)
    <3> DEFINE e == Encoding(types, n, knows.dec)
               All == Objects \cup {Value(n)}
    <3>1. e \in Seq(All)
      BY <2>2, EncodingFacts
    <3>2. \A i \in 1..Len(wire) : wire[i] \in All
      BY <1>1
    <3>3. wire \in Seq(All)
      BY <1>1, <3>2
    <3>4. IsPrefix(e, wire)
      BY <2>1
    <3> HIDE DEF e, All
    <3>5. Len(e) \in 0..Len(wire)
      BY <3>1, <3>3, <3>4, PrefixFacts
    <3> QED BY <3>5 DEF e
  <2>5. unknown' = unknown
    BY <1>17 DEF UnmarshalMsg
  <2> QED BY <1>6, <1>8, <1>9, <2>1, <2>3, <2>4, <2>5
<1> QED BY <1>10, <1>11, <1>12, <1>13, <1>14, <1>15, <1>16, <1>17 DEF Receiver

LEMMA InitTypes ==
  ASSUME Init
  PROVE  TypeInv
<1>1. <<>> \in Chains
  BY DEF Chains
<1>2. Idle \in [pc : {"idle", "head", "kind", "body"}, rest : Chains, types : Chains]
      /\ Start \in [pc : {"head", "kind", "body"}, types : Chains]
  BY <1>1 DEF Idle, Start
<1>3. \A S : <<>> \in Seq(S)
  OBVIOUS
<1>4. /\ knows \in [enc : Generations, dec : Generations]
      /\ sent = <<>> /\ failed = 0 /\ writing = Idle /\ wire = <<>>
      /\ reading = Start /\ received = <<>> /\ errors = 0 /\ unknown = FALSE
  BY DEF Init
<1>5. 0 \in 0..MaxMessages /\ 0 \in 0..MaxErrors
  BY ImplementersAssumption
<1>6. TypeOK
  BY <1>2, <1>3, <1>4, <1>5 DEF TypeOK
<1> QED BY <1>4, <1>6 DEF TypeInv, WriteInv, ReadInv, Idle, Start

LEMMA TypesStep ==
  ASSUME TypeInv, [Next]_vars
  PROVE  TypeInv'
<1>1. CASE UNCHANGED vars
  BY <1>1 DEF vars, sender, receiver, TypeInv, TypeOK, WriteInv, ReadInv, Done, Message
<1> QED BY <1>1, SenderKeepsTypes, ReceiverKeepsTypes DEF Next

LEMMA TypesInvariant == Spec => []TypeInv
<1>1. TypeInv /\ [Next]_vars => TypeInv'
  BY TypesStep
<1> QED BY <1>1, InitTypes, PTL DEF Spec

\* TypeOK of every mapper: in particular no more messages than MaxMessages are
\* begun, and what DecodeBody delivers is a number that some message carried.
THEOREM MapperTypes == Spec => []TypeOK
<1>1. TypeInv => TypeOK
  BY DEF TypeInv
<1> QED BY <1>1, TypesInvariant, PTL
----------------------------------------------------------------------------
\* What is on the wire.

\* A tag says of an object which message it is part of, and where in it: the
\* chain, how many messages came before it as a whole and in half, the place.
Tags == [types : Chained, whole : Int, half : Nat, at : Nat]

Number(a) == a.whole + a.half + 1
Encoded(a) == Encoding(a.types, Number(a), {})
Ends(a) == a.at = Size(a.types)

\* Where EncodeMsg may fail: after the header, before the kind.
Breaks(a) == \E d \in 0..(Len(a.types) - 1) : a.at = 2 * d + 1

\* The tag of the object k places on, in the same message.
Within(a, b, k) ==
  /\ b.types = a.types /\ b.whole = a.whole /\ b.half = a.half
  /\ b.at = a.at + k

Follows(a, b) ==
  \/ ~Ends(a) /\ Within(a, b, 1)
  \/ Ends(a) /\ b.at = 1 /\ b.whole = a.whole + 1 /\ b.half = a.half
  \/ Breaks(a) /\ b.at = 1 /\ b.whole = a.whole /\ b.half = a.half + 1

Carries(b, object) ==
  /\ b.at \in 1..Size(b.types)
  /\ b.whole >= 0 /\ b.half <= failed /\ Number(b) \in 1..MaxMessages
  /\ object = Encoded(b)[b.at]
  /\ Ends(b) => /\ b.whole + 1 <= Len(sent)
                /\ sent[b.whole + 1] = [types |-> b.types, n |-> Contents(b.types, Number(b))]
  /\ \A j \in 1..Len(b.types) : 2 * j <= b.at => b.types[j] \in knows.enc

\* The tags of the last object that was read and of those on the wire.
Framed(trace) ==
  /\ trace \in Seq(Tags) /\ Len(trace) = Len(wire) + 1
  /\ trace[1].half <= failed
  /\ \A i \in 1..Len(wire) : Follows(trace[i], trace[i + 1])
  /\ \A i \in 1..Len(wire) : Carries(trace[i + 1], wire[i])

\* Where the receiver is, if a is the tag of the last object it has read.
ReadSoFar(a) ==
  /\ Len(received) = a.whole
  /\ Len(reading.types) <= Len(a.types)
  /\ \A i \in 1..Len(reading.types) : reading.types[i] = a.types[i]
ReadsStart(a) == reading = Start /\ Ends(a) /\ Len(received) = a.whole + 1
ReadsKind(a) ==
  /\ reading.pc = "kind" /\ ReadSoFar(a)
  /\ Len(reading.types) < Len(a.types) /\ a.at = 2 * Len(reading.types) + 1
ReadsHead(a) ==
  /\ reading.pc = "head" /\ ReadSoFar(a) /\ a.at = 2 * Len(reading.types)
  /\ Len(reading.types) > 0 /\ a.types[Len(reading.types)] \in Boxes
ReadsBody(a) ==
  /\ reading.pc = "body" /\ ReadSoFar(a) /\ a.at = 2 * Len(reading.types)
  /\ Len(reading.types) = Len(a.types) /\ EndsInBody(a.types)
ReaderAt(a) ==
  /\ errors = a.half
  /\ ReadsStart(a) \/ ReadsKind(a) \/ ReadsHead(a) \/ ReadsBody(a)

\* Where the sender is, if z is the tag of the last object it has written.
WriterAt(z) ==
  IF writing.pc = "idle" \/ (writing.pc = "head" /\ Done = 0)
    THEN \/ Ends(z) /\ Len(sent) = z.whole + 1 /\ failed = z.half
         \/ Breaks(z) /\ Len(sent) = z.whole /\ failed = z.half + 1
    ELSE /\ z.types = writing.types /\ Len(sent) = z.whole /\ failed = z.half
         /\ z.at = 2 * Done + (IF writing.pc = "kind" THEN 1 ELSE 0)

StreamInv ==
  ~unknown =>
    \E trace : Framed(trace) /\ ReaderAt(trace[1]) /\ WriterAt(trace[Len(wire) + 1])

MapperInv == TypeInv /\ StreamInv /\ InOrder /\ NewerReads

----------------------------------------------------------------------------
\* Tags and objects.

LEMMA TagFacts ==
  ASSUME NEW a \in Tags
  PROVE  /\ a.types \in Chained /\ a.types \in Seq(Implementers) /\ Len(a.types) \in Nat
         /\ a.whole \in Int /\ a.half \in Nat /\ a.at \in Nat /\ Number(a) \in Int
         /\ Size(a.types) \in Nat /\ Size(a.types) > 2 * Len(a.types)
         /\ Breaks(a) => ~Ends(a) /\ a.at < 2 * Len(a.types)
<1>1. /\ a.types \in Chained /\ a.whole \in Int /\ a.half \in Nat /\ a.at \in Nat
  BY DEF Tags
<1>2. a.types \in Seq(Implementers) /\ Len(a.types) \in Nat
  BY <1>1, ChainedAreChains
<1>3. Size(a.types) \in Nat /\ Size(a.types) > 2 * Len(a.types)
  BY <1>1, EncodingFacts
<1>4. Number(a) \in Int
  BY <1>1 DEF Number
<1>5. ASSUME Breaks(a)
      PROVE  ~Ends(a) /\ a.at < 2 * Len(a.types)
  <2>1. PICK d \in 0..(Len(a.types) - 1) : a.at = 2 * d + 1
    BY <1>5 DEF Breaks
  <2>2. a.at < 2 * Len(a.types)
    BY <1>2, <2>1
  <2> QED BY <1>1, <1>2, <1>3, <2>2 DEF Ends
<1> QED BY <1>1, <1>2, <1>3, <1>4, <1>5

\* The objects of a message by their places.
LEMMA ObjectAt ==
  ASSUME NEW a \in Tags, a.at \in 1..Size(a.types)
  PROVE  LET o == Encoded(a)[a.at]
             m == Len(a.types)
         IN /\ \A d \in 0..(m - 1) : a.at = 2 * d + 1 => o = Array(2)
            /\ \A d \in 1..m : a.at = 2 * d => o = String(ID[a.types[d]])
            /\ a.at = 2 * m + 1 /\ ~EndsInBody(a.types) => o = Nil /\ Ends(a)
            /\ a.at = 1 => /\ o = (IF m = 0 THEN Nil ELSE Array(2))
                           /\ Ends(a) <=> m = 0
<1> DEFINE o == Encoded(a)[a.at]
           m == Len(a.types)
<1>1. /\ a.types \in Chained /\ m \in Nat
  BY TagFacts
<1>2. /\ \A d \in 0..(m - 1) : Encoded(a)[2 * d + 1] = Array(2)
      /\ \A d \in 1..m : Encoded(a)[2 * d] = String(ID[a.types[d]])
      /\ ~EndsInBody(a.types) => Size(a.types) = 2 * m + 1 /\ Encoded(a)[2 * m + 1] = Nil
      /\ Size(a.types) > 2 * m
  <2> DEFINE e == Encoding(a.types, Number(a), {})
  <2>1. KindsAsOf(a.types, e)
    BY <1>1, EncodingFacts
  <2>2. \A d \in 0..(m - 1) : e[2 * d + 1] = Array(2)
    BY <2>1 DEF KindsAsOf
  <2>3. \A d \in 1..m : e[2 * d] = String(ID[a.types[d]])
    BY <2>1 DEF KindsAsOf
  <2>4. ~EndsInBody(a.types) => Size(a.types) = 2 * m + 1 /\ e[2 * m + 1] = Nil
    <3>1. TailAsOf(a.types, Number(a), e)
      BY <1>1, EncodingFacts
    <3> QED BY <3>1 DEF TailAsOf
  <2>5. Size(a.types) > 2 * m
    BY <1>1, EncodingFacts
  <2> QED BY <2>2, <2>3, <2>4, <2>5 DEF Encoded
<1>3. a.at = 1 => o = (IF m = 0 THEN Nil ELSE Array(2)) /\ (Ends(a) <=> m = 0)
  <2> SUFFICES ASSUME a.at = 1
               PROVE  o = (IF m = 0 THEN Nil ELSE Array(2)) /\ (Ends(a) <=> m = 0)
    OBVIOUS
  <2>1. CASE m = 0
    <3>1. a.types = <<>>
      BY <2>1, TagFacts, EmptySeq
    <3>2. ~EndsInBody(a.types)
      BY <3>1 DEF EndsInBody
    <3> QED BY <1>2, <2>1, <3>2 DEF Ends
  <2>2. CASE m # 0
    <3>1. 0 \in 0..(m - 1) /\ 2 * 0 + 1 = 1
      BY <1>1, <2>2
    <3>2. o = Array(2)
      BY <1>2, <3>1
    <3>3. Size(a.types) # 1
      BY <1>1, <1>2, <2>2, TagFacts
    <3> QED BY <2>2, <3>2, <3>3 DEF Ends
  <2> QED BY <2>1, <2>2
<1> QED BY <1>1, <1>2, <1>3 DEF Ends

\* After the headers and kinds of a chain of boxes comes nil.
LEMMA LastObject ==
  ASSUME NEW a \in Tags, a.at \in 1..Size(a.types), a.at = 2 * Len(a.types) + 1,
         ~EndsInBody(a.types)
  PROVE  Encoded(a)[a.at] = Nil /\ Ends(a)
BY ObjectAt

\* In a body no message breaks: the objects that are there are the body's.
LEMMA BodyRuns ==
  ASSUME TypeOK, NEW trace, Framed(trace), NEW j \in 1..(Len(wire) + 1),
         trace[j].at >= 2 * Len(trace[j].types), NEW n \in Nat,
         trace[j].at + n <= Size(trace[j].types), j + n <= Len(wire) + 1
  PROVE  Within(trace[j], trace[j + n], n)
<1> DEFINE a == trace[j]
           bad == {k \in 0..n : ~Within(a, trace[j + k], k)}
<1>1. Len(wire) \in Nat /\ \A i \in 1..(Len(wire) + 1) : trace[i] \in Tags
  BY DEF TypeOK, Framed
<1>2. \A i \in 1..Len(wire) : Follows(trace[i], trace[i + 1])
  BY DEF Framed
<1>3. a \in Tags
  BY <1>1
<1>4. SUFFICES ASSUME bad # {} PROVE FALSE
  <2>1. n \in 0..n
    OBVIOUS
  <2> QED BY <1>4, <2>1
<1>5. PICK k \in bad : \A l \in bad : k <= l
  <2>1. bad \subseteq Nat
    OBVIOUS
  <2> HIDE DEF bad
  <2> QED BY <1>4, <2>1, LeastOf
<1>6. k # 0
  <2>1. j + 0 = j
    OBVIOUS
  <2>2. Within(a, trace[j + 0], 0)
    BY <1>3, <2>1, TagFacts DEF Within
  <2> QED BY <1>5, <2>2
<1>7. k \in Nat /\ k - 1 \in 0..n /\ k \in 0..n
  BY <1>5, <1>6
<1>8. k - 1 \notin bad
  BY <1>5, <1>7
<1> DEFINE b == trace[j + (k - 1)]
           c == trace[j + k]
<1>9. Within(a, b, k - 1)
  BY <1>7, <1>8
<1>10. j + (k - 1) \in 1..Len(wire) /\ j + (k - 1) + 1 = j + k /\ j + k \in 1..(Len(wire) + 1)
  BY <1>1, <1>7
<1>11. Follows(b, c) /\ b \in Tags /\ c \in Tags
  BY <1>1, <1>2, <1>10
<1> HIDE DEF a, b, c
<1>12. /\ b.types = a.types /\ b.at = a.at + (k - 1)
  BY <1>9 DEF Within
<1>13. /\ a.at \in Nat /\ a.at >= 2 * Len(a.types) /\ Len(a.types) \in Nat /\ Size(a.types) \in Nat
       /\ a.at + n <= Size(a.types)
  BY <1>3, TagFacts DEF a
<1>14. b.at < Size(b.types) /\ b.at >= 2 * Len(b.types)
  BY <1>7, <1>12, <1>13
<1>15. ~Ends(b) /\ ~Breaks(b)
  <2>1. /\ b.at \in Nat /\ Size(b.types) \in Nat
        /\ Breaks(b) => b.at < 2 * Len(b.types)
    BY <1>11, TagFacts
  <2>2. b.at # Size(b.types)
    BY <1>14, <2>1
  <2>3. ~(b.at < 2 * Len(b.types))
    BY <1>7, <1>12, <1>13
  <2> QED BY <2>1, <2>2, <2>3 DEF Ends
<1>16. Within(b, c, 1)
  BY <1>11, <1>15 DEF Follows
<1>17. Within(a, c, k)
  BY <1>7, <1>9, <1>13, <1>16 DEF Within
<1> QED BY <1>5, <1>17 DEF a, c

\* Reading takes the first tags away.
LEMMA FrameShrinks ==
  ASSUME TypeOK, NEW trace, Framed(trace), NEW n \in 0..Len(wire), Consume(n),
         UNCHANGED <<knows, sender>>
  PROVE  \E left : /\ Framed(left)' /\ left[1] = trace[n + 1]
                   /\ left[(Len(wire) + 1)'] = trace[Len(wire) + 1]
<1> DEFINE l == Len(wire)
<1>0. PICK left : left = [i \in 1..(l - n + 1) |-> trace[n + i]]
  OBVIOUS
<1>1. /\ l \in Nat /\ n \in Nat /\ l - n \in Nat /\ Len(trace) = l + 1
      /\ \A i \in 1..(l + 1) : trace[i] \in Tags
      /\ \A i \in 1..l : Follows(trace[i], trace[i + 1])
      /\ \A i \in 1..l : Carries(trace[i + 1], wire[i])
      /\ trace[1].half <= failed
  BY DEF TypeOK, Framed
<1>2. Len(wire') = l - n /\ \A i \in 1..(l - n) : wire'[i] = wire[n + i]
  BY Consumed
<1>3. knows' = knows /\ sent' = sent /\ failed' = failed
  BY DEF sender
<1>4. \A b, o : Carries(b, o)' <=> Carries(b, o)
  BY <1>3 DEF Carries
<1> HIDE DEF l
<1>5. \A i \in 1..(l - n + 1) : n + i \in 1..(l + 1) /\ left[i] = trace[n + i]
  BY <1>0, <1>1
<1>6. left \in Seq(Tags) /\ Len(left) = l - n + 1
  <2>1. \A i \in 1..(l - n + 1) : trace[n + i] \in Tags
    BY <1>1, <1>5
  <2>2. l - n + 1 \in Nat
    BY <1>1
  <2> QED BY <1>0, <2>1, <2>2
<1>7. ASSUME NEW i \in 1..(l - n)
      PROVE  Follows(left[i], left[i + 1]) /\ Carries(left[i + 1], wire'[i])
  <2>1. n + i \in 1..l /\ i \in 1..(l - n + 1) /\ i + 1 \in 1..(l - n + 1) /\ n + (i + 1) = (n + i) + 1
    BY <1>1
  <2>2. left[i] = trace[n + i] /\ left[i + 1] = trace[(n + i) + 1] /\ wire'[i] = wire[n + i]
    BY <1>2, <1>5, <2>1
  <2> QED BY <1>1, <2>1, <2>2
<1>8. left[1] = trace[n + 1] /\ left[l - n + 1] = trace[l + 1]
  <2>1. 1 \in 1..(l - n + 1) /\ l - n + 1 \in 1..(l - n + 1) /\ n + (l - n + 1) = l + 1
    BY <1>1
  <2> QED BY <1>5, <2>1
<1>9. left[1].half <= failed
  <2>1. CASE n = 0
    BY <1>1, <1>8, <2>1
  <2>2. CASE n # 0
    <3>1. n \in 1..l
      BY <1>1, <2>2 DEF l
    <3>2. Carries(trace[n + 1], wire[n])
      BY <1>1, <3>1
    <3> QED BY <1>8, <3>2 DEF Carries
  <2> QED BY <2>1, <2>2
<1>10. Framed(left)'
  BY <1>2, <1>3, <1>4, <1>6, <1>7, <1>9 DEF Framed
<1> QED BY <1>2, <1>8, <1>10 DEF l

\* A tag that the first object on the wire follows as well can replace the
\* tag of what was read before it.
LEMMA FrameForgets ==
  ASSUME TypeOK, NEW trace, Framed(trace), wire # <<>>, UNCHANGED <<knows, sender, wire>>,
         NEW h \in Tags, Follows(h, trace[2]), h.half <= failed
  PROVE  \E other : /\ Framed(other)' /\ other[1] = h
                    /\ other[(Len(wire) + 1)'] = trace[Len(wire) + 1]
<1> DEFINE l == Len(wire)
<1>0. PICK other : other = [i \in 1..(l + 1) |-> IF i = 1 THEN h ELSE trace[i]]
  OBVIOUS
<1>1. /\ l \in Nat \ {0}
      /\ \A i \in 1..(l + 1) : trace[i] \in Tags
      /\ \A i \in 1..l : Follows(trace[i], trace[i + 1])
      /\ \A i \in 1..l : Carries(trace[i + 1], wire[i])
  <2>1. wire \in Seq(Objects)
    BY DEF TypeOK
  <2>2. l \in Nat \ {0}
    BY <2>1, EmptySeq
  <2> QED BY <2>2 DEF Framed
<1>2. knows' = knows /\ sent' = sent /\ failed' = failed /\ wire' = wire
  BY DEF sender
<1>3. \A b, o : Carries(b, o)' <=> Carries(b, o)
  BY <1>2 DEF Carries
<1> HIDE DEF l
<1>4. other \in Seq(Tags) /\ Len(other) = l + 1
  BY <1>0, <1>1
<1>5. other[1] = h /\ other[l + 1] = trace[l + 1] /\ \A i \in 2..(l + 1) : other[i] = trace[i]
  BY <1>0, <1>1
<1>6. ASSUME NEW i \in 1..l
      PROVE  Follows(other[i], other[i + 1]) /\ Carries(other[i + 1], wire[i])
  <2>1. i + 1 \in 2..(l + 1) /\ (i = 1 \/ i \in 2..(l + 1))
    BY <1>1
  <2>2. other[i + 1] = trace[i + 1]
    BY <1>5, <2>1
  <2>3. Follows(other[i], trace[i + 1])
    <3>1. CASE i = 1
      <4>1. i + 1 = 2
        BY <3>1
      <4> QED BY <1>5, <3>1, <4>1
    <3>2. CASE i \in 2..(l + 1)
      BY <1>1, <1>5, <3>2
    <3> QED BY <2>1, <3>1, <3>2
  <2> QED BY <1>1, <2>2, <2>3
<1>7. Framed(other)'
  BY <1>2, <1>3, <1>4, <1>5, <1>6 DEF Framed, l
<1> QED BY <1>2, <1>5, <1>7 DEF l

\* What EncodeMsg and MarshalMsg write are the next objects of one message.
LEMMA FrameGrows ==
  ASSUME TypeOK, NEW trace, Framed(trace), knows' = knows,
         NEW b \in Tags, Follows(trace[Len(wire) + 1], b),
         NEW k \in Nat \ {0}, NEW objects \in Seq(Objects), Len(objects) = k, Write(objects),
         b.at + (k - 1) <= Size(b.types),
         \A i \in 1..k : objects[i] = Encoded(b)[b.at + (i - 1)],
         b.whole = Len(sent), b.half = failed, failed' = failed, Message <= MaxMessages,
         \A j \in 1..Len(b.types) : 2 * j <= b.at + (k - 1) => b.types[j] \in knows.enc,
         IF b.at + (k - 1) = Size(b.types) THEN Sent(b.types) ELSE sent' = sent
  PROVE  \E more : /\ Framed(more)' /\ more[1] = trace[1]
                   /\ Within(b, more[(Len(wire) + 1)'], k - 1)
<1> DEFINE l == Len(wire)
           tag(i) == [types |-> b.types, whole |-> b.whole, half |-> b.half, at |-> b.at + (i - 1)]
<1>0. PICK more : more = [i \in 1..(l + 1 + k) |->
                            IF i <= l + 1 THEN trace[i] ELSE tag(i - (l + 1))]
  OBVIOUS
<1>1. /\ l \in Nat /\ Len(trace) = l + 1 /\ wire \in Seq(Objects)
      /\ \A i \in 1..(l + 1) : trace[i] \in Tags
      /\ \A i \in 1..l : Follows(trace[i], trace[i + 1])
      /\ \A i \in 1..l : Carries(trace[i + 1], wire[i])
      /\ trace[1].half <= failed
  BY DEF TypeOK, Framed
<1>2. /\ b.types \in Chained /\ b.whole \in Int /\ b.half \in Nat /\ b.at \in Nat
      /\ Len(b.types) \in Nat /\ Size(b.types) \in Nat
  BY TagFacts
<1>3. Len(wire') = l + k /\ (\A i \in 1..l : wire'[i] = wire[i])
      /\ \A i \in 1..k : wire'[l + i] = objects[i]
  <2>1. /\ Len(wire \o objects) = l + k
        /\ \A i \in 1..(l + k) :
             (wire \o objects)[i] = IF i <= l THEN wire[i] ELSE objects[i - l]
    BY <1>1, ConcatProperties
  <2>2. wire' = wire \o objects
    BY DEF Write
  <2> HIDE DEF l
  <2>3. \A i \in 1..l : i \in 1..(l + k) /\ i <= l
    BY <1>1
  <2>4. \A i \in 1..k : l + i \in 1..(l + k) /\ ~(l + i <= l) /\ (l + i) - l = i
    BY <1>1
  <2>5. \A i \in 1..l : wire'[i] = wire[i]
    BY <2>1, <2>2, <2>3
  <2>6. \A i \in 1..k : wire'[l + i] = objects[i]
    <3> TAKE i \in 1..k
    <3>1. wire'[l + i] = objects[(l + i) - l]
      BY <2>1, <2>2, <2>4
    <3> QED BY <2>4, <3>1
  <2> QED BY <2>1, <2>2, <2>5, <2>6
<1>4. /\ Len(sent) \in Nat /\ failed \in Nat /\ sent \in Seq([types : Shapes, n : 0..MaxMessages])
      /\ Message = Len(sent) + failed + 1 /\ Message \in 1..MaxMessages
  <2>1. MaxMessages \in Nat
    BY ImplementersAssumption
  <2> QED BY <2>1, MessageIsANumber DEF TypeOK
<1>5. /\ Len(sent') >= Len(sent) /\ Len(sent') \in Nat
      /\ \A i \in 1..Len(sent) : sent'[i] = sent[i]
  <2>1. CASE sent' = sent
    BY <1>4, <2>1
  <2>2. CASE \E m : sent' = Append(sent, m)
    BY <1>4, <2>2
  <2> QED BY <2>1, <2>2 DEF Sent
<1>6. ASSUME NEW c \in Tags, NEW o, Carries(c, o)
      PROVE  Carries(c, o)'
  <2>1. c.whole \in Int /\ c.whole >= 0
    BY <1>6, TagFacts DEF Carries
  <2>2. Ends(c) => c.whole + 1 \in 1..Len(sent) /\ c.whole + 1 <= Len(sent')
    <3>1. Ends(c) => c.whole + 1 <= Len(sent)
      BY <1>6 DEF Carries
    <3>2. \A w \in Int, s, t \in Nat : w >= 0 /\ w + 1 <= s /\ t >= s => w + 1 \in 1..s /\ w + 1 <= t
      OBVIOUS
    <3> QED BY <1>4, <1>5, <2>1, <3>1, <3>2, Zenon
  <2>3. Ends(c) => sent'[c.whole + 1] = [types |-> c.types, n |-> Contents(c.types, Number(c))]
    BY <1>5, <1>6, <2>2 DEF Carries
  <2> QED BY <1>6, <2>2, <2>3 DEF Carries
<1> HIDE DEF l
<1>7. \A i \in 1..k : tag(i) \in Tags
  BY <1>2 DEF Tags
<1>8. \A i \in 1..(l + 1) : more[i] = trace[i]
  BY <1>0, <1>1
<1>9. \A i \in 1..k : more[l + 1 + i] = tag(i)
  <2> TAKE i \in 1..k
  <2>1. l + 1 + i \in 1..(l + 1 + k) /\ ~(l + 1 + i <= l + 1) /\ (l + 1 + i) - (l + 1) = i
    BY <1>1
  <2>2. more[l + 1 + i] = tag((l + 1 + i) - (l + 1))
    BY <1>0, <2>1
  <2> QED BY <2>1, <2>2
<1>10. more \in Seq(Tags) /\ Len(more) = l + k + 1
  <2>1. \A i \in 1..(l + 1 + k) : more[i] \in Tags
    <3> TAKE i \in 1..(l + 1 + k)
    <3>1. CASE i <= l + 1
      BY <1>1, <1>8, <3>1
    <3>2. CASE ~(i <= l + 1)
      <4>1. i - (l + 1) \in 1..k /\ l + 1 + (i - (l + 1)) = i
        BY <1>1, <3>2
      <4> HIDE DEF tag
      <4>2. more[l + 1 + (i - (l + 1))] \in Tags
        BY <1>7, <1>9, <4>1
      <4> QED BY <4>1, <4>2
    <3> QED BY <3>1, <3>2
  <2>2. l + 1 + k \in Nat /\ l + 1 + k = l + k + 1
    BY <1>1
  <2>3. more = [i \in 1..(l + 1 + k) |-> more[i]]
    BY <1>0
  <2>4. more \in Seq(Tags) /\ Len(more) = l + 1 + k
    <3> DEFINE m == l + 1 + k
    <3>1. m \in Nat /\ more = [i \in 1..m |-> more[i]] /\ \A i \in 1..m : more[i] \in Tags
      BY <2>1, <2>2, <2>3
    <3> HIDE DEF m
    <3>2. more \in Seq(Tags) /\ Len(more) = m
      BY <3>1
    <3> QED BY <3>2 DEF m
  <2> QED BY <2>2, <2>4
<1>11. ASSUME NEW i \in 1..k
       PROVE  Carries(tag(i), objects[i])'
  <2> DEFINE c == tag(i)
  <2>1. c \in Tags /\ c.types = b.types /\ c.whole = b.whole /\ c.half = b.half
        /\ c.at = b.at + (i - 1)
    BY <1>7
  <2> HIDE DEF tag, c
  <2>2. Number(c) = Message /\ Number(c) = Number(b) /\ Encoded(c) = Encoded(b)
    <3>1. Number(c) = Message /\ Number(c) = Number(b)
      BY <1>4, <2>1 DEF Number
    <3> QED BY <2>1, <3>1 DEF Encoded
  <2>3. b.at \in 1..Size(b.types)
    <3>1. trace[l + 1].at \in Nat
      <4>1. l + 1 \in 1..(l + 1)
        BY <1>1
      <4> QED BY <1>1, <4>1, TagFacts
    <3>2. b.at = 1 \/ b.at = trace[l + 1].at + 1
      BY DEF Follows, Within, l
    <3> QED BY <1>2, <3>1, <3>2
  <2>4. c.at \in 1..Size(c.types) /\ c.at <= b.at + (k - 1)
    BY <1>2, <2>1, <2>3
  <2>5. objects[i] = Encoded(c)[c.at]
    BY <2>1, <2>2
  <2>6. Ends(c) => /\ c.whole + 1 <= Len(sent')
                   /\ sent'[c.whole + 1] = [types |-> c.types, n |-> Contents(c.types, Number(c))]
    <3> SUFFICES ASSUME Ends(c)
                 PROVE  /\ c.whole + 1 <= Len(sent')
                        /\ sent'[c.whole + 1] = [types |-> c.types, n |-> Contents(c.types, Number(c))]
      OBVIOUS
    <3>1. b.at + (k - 1) = Size(b.types)
      BY <1>2, <2>1, <2>4 DEF Ends
    <3>2. sent' = Append(sent, [types |-> b.types, n |-> Contents(b.types, Message)])
      BY <3>1 DEF Sent
    <3> QED BY <1>4, <2>1, <2>2, <3>2
  <2>7. \A j \in 1..Len(c.types) : 2 * j <= c.at => c.types[j] \in knows.enc
    BY <1>2, <2>1, <2>4
  <2>8. c.whole >= 0 /\ c.half <= failed' /\ Number(c) \in 1..MaxMessages
    BY <1>2, <1>4, <2>1, <2>2
  <2>9. Carries(c, objects[i])'
    BY <2>4, <2>5, <2>6, <2>7, <2>8 DEF Carries
  <2> QED BY <2>9 DEF c
<1>12. tag(1) = b
  BY <1>2 DEF Tags
<1>13. ASSUME NEW i \in 1..(l + k)
       PROVE  Follows(more[i], more[i + 1]) /\ Carries(more[i + 1], wire[i])'
  <2>1. CASE i \in 1..l
    <3>1. i \in 1..(l + 1) /\ i + 1 \in 1..(l + 1)
      BY <1>1, <2>1
    <3>2. more[i] = trace[i] /\ more[i + 1] = trace[i + 1] /\ trace[i + 1] \in Tags
      BY <1>1, <1>8, <3>1
    <3>3. wire'[i] = wire[i]
      BY <1>3, <2>1
    <3>4. PICK o : o = wire[i]
      OBVIOUS
    <3>5. Follows(trace[i], trace[i + 1]) /\ Carries(trace[i + 1], o)
      BY <1>1, <2>1, <3>4
    <3>6. Carries(trace[i + 1], o)'
      BY <1>6, <3>2, <3>5
    <3> QED BY <3>2, <3>3, <3>4, <3>5, <3>6
  <2>2. CASE i \notin 1..l
    <3>1. PICK j \in 1..k : i = l + j /\ i + 1 = l + 1 + j
      <4>1. i - l \in 1..k /\ i = l + (i - l) /\ i + 1 = l + 1 + (i - l)
        BY <1>1, <2>2
      <4> QED BY <4>1
    <3>2. more[i + 1] = tag(j) /\ wire'[i] = objects[j]
      <4> HIDE DEF tag
      <4> QED BY <1>3, <1>9, <3>1
    <3>3. Carries(tag(j), objects[j])'
      BY <1>11, <3>1
    <3>4. Follows(more[i], tag(j))
      <4>1. CASE j = 1
        <5>1. i = l + 1 /\ l + 1 \in 1..(l + 1)
          BY <1>1, <3>1, <4>1
        <5>2. more[i] = trace[l + 1]
          BY <1>8, <5>1
        <5> HIDE DEF tag
        <5>3. tag(j) = b
          BY <1>12, <4>1
        <5> QED BY <5>2, <5>3 DEF l
      <4>2. CASE j # 1
        <5>1. j - 1 \in 1..k /\ i = l + 1 + (j - 1)
          BY <1>1, <3>1, <4>2
        <5>2. more[i] = tag(j - 1)
          BY <1>9, <5>1
        <5>3. Within(tag(j - 1), tag(j), 1)
          BY <1>2, <3>1 DEF Within
        <5>4. ~Ends(tag(j - 1))
          <6>1. b.at + (j - 1 - 1) < b.at + (k - 1)
            BY <1>2, <3>1
          <6>2. b.at + (j - 1 - 1) # Size(b.types)
            BY <1>2, <3>1, <6>1
          <6> QED BY <6>2 DEF Ends
        <5> HIDE DEF tag
        <5>5. Follows(tag(j - 1), tag(j))
          BY <5>3, <5>4 DEF Follows
        <5> QED BY <5>2, <5>5
      <4> QED BY <4>1, <4>2
    <3> QED BY <3>2, <3>3, <3>4
  <2> QED BY <2>1, <2>2
<1>14. more[1] = trace[1]
  <2>1. 1 \in 1..(l + 1)
    BY <1>1
  <2> QED BY <1>8, <2>1
<1>15. Within(b, more[l + k + 1], k - 1)
  <2>1. k \in 1..k /\ l + k + 1 = l + 1 + k
    <3>1. \A x \in Nat, y \in Nat \ {0} : y \in 1..y /\ x + y + 1 = x + 1 + y
      OBVIOUS
    <3> QED BY <1>1, <3>1, Zenon
  <2>2. more[l + k + 1] = tag(k)
    BY <1>9, <2>1
  <2> QED BY <2>2 DEF Within
<1>16. Framed(more)'
  <2>1. Len(more) = Len(wire') + 1
    BY <1>3, <1>10
  <2>2. more[1].half <= failed'
    BY <1>1, <1>14
  <2>3. \A i \in 1..Len(wire') : Follows(more[i], more[i + 1])
    BY <1>3, <1>13
  <2>4. \A i \in 1..Len(wire') : Carries(more[i + 1], wire[i])'
    BY <1>3, <1>13
  <2> QED BY <1>10, <2>1, <2>2, <2>3, <2>4 DEF Framed
<1> QED BY <1>3, <1>14, <1>15, <1>16

\* Nothing is written; the sender may fail.
LEMMA FrameStays ==
  ASSUME TypeOK, NEW trace, Framed(trace), UNCHANGED <<knows, sent, wire>>,
         failed' \in Nat, failed' >= failed
  PROVE  Framed(trace)'
<1>1. /\ Len(wire) \in Nat /\ failed \in Nat /\ Len(trace) = Len(wire) + 1
      /\ trace \in Seq(Tags) /\ \A i \in 1..(Len(wire) + 1) : trace[i] \in Tags
      /\ trace[1].half <= failed
      /\ \A i \in 1..Len(wire) : Follows(trace[i], trace[i + 1])
      /\ \A i \in 1..Len(wire) : Carries(trace[i + 1], wire[i])
  BY MessageIsANumber DEF TypeOK, Framed
<1>2. wire' = wire /\ sent' = sent /\ knows' = knows
  OBVIOUS
<1>3. ASSUME NEW c \in Tags, NEW o, Carries(c, o)
      PROVE  Carries(c, o)'
  <2>1. c.half \in Nat /\ c.half <= failed
    BY <1>3, TagFacts DEF Carries
  <2>2. c.half <= failed'
    BY <1>1, <2>1
  <2> QED BY <1>2, <1>3, <2>2 DEF Carries
<1>4. ASSUME NEW i \in 1..Len(wire)
      PROVE  Carries(trace[i + 1], wire[i])'
  <2>1. PICK o : o = wire[i]
    OBVIOUS
  <2>2. trace[i + 1] \in Tags /\ Carries(trace[i + 1], o)
    BY <1>1, <2>1
  <2>3. Carries(trace[i + 1], o)'
    BY <1>3, <2>2
  <2> QED BY <1>2, <2>1, <2>3
<1>5. trace[1].half <= failed'
  <2>1. 1 \in 1..(Len(wire) + 1)
    BY <1>1
  <2>2. trace[1].half \in Nat
    BY <1>1, <2>1, TagFacts
  <2> QED BY <1>1, <2>2
<1> QED BY <1>1, <1>2, <1>4, <1>5 DEF Framed

\* The next message may begin.
LEMMA FirstTag ==
  ASSUME TypeOK, NEW z \in Tags, WriterAt(z), NEW types \in Shapes,
         writing.pc = "idle" \/ (writing.pc = "head" /\ Done = 0),
         NEW b, b = [types |-> types, whole |-> Len(sent), half |-> failed, at |-> 1]
  PROVE  b \in Tags /\ Follows(z, b)
<1>1. b \in Tags
  BY MessageIsANumber DEF Tags, Chained
<1>2. z.whole \in Int /\ z.half \in Nat
  BY TagFacts
<1> QED BY <1>1, <1>2 DEF WriterAt, Follows

\* The message that EncodeMsg is writing goes on.
LEMMA NextTag ==
  ASSUME TypeInv, NEW z \in Tags, WriterAt(z),
         writing.pc # "idle", ~(writing.pc = "head" /\ Done = 0),
         NEW b, b = [types |-> writing.types, whole |-> Len(sent), half |-> failed, at |-> z.at + 1]
  PROVE  b \in Tags /\ Follows(z, b)
<1>1. /\ TypeOK /\ writing.types \in Shapes /\ z.types = writing.types
      /\ Len(sent) = z.whole /\ failed = z.half
      /\ z.at = 2 * Done + (IF writing.pc = "kind" THEN 1 ELSE 0)
      /\ Len(writing.rest) <= Len(writing.types) /\ writing.types \in Chained
      /\ writing.pc = "kind" => writing.rest # <<>>
      /\ writing.rest \in Seq(Implementers)
  BY DEF TypeInv, TypeOK, WriteInv, WriterAt, Chained, Chains
<1>2. z.at \in Nat /\ Size(z.types) \in Nat /\ Size(z.types) > 2 * Len(z.types) /\ Len(z.types) \in Nat
  BY TagFacts
<1>3. b \in Tags
  BY <1>1, <1>2, MessageIsANumber DEF Tags
<1>4. Len(writing.rest) \in Nat /\ (writing.pc = "kind" => Len(writing.rest) # 0)
  BY <1>1, EmptySeq
<1>5. z.at <= 2 * Len(z.types)
  <2> DEFINE m == Len(z.types)
             r == Len(writing.rest)
  <2>1. z.at = 2 * (m - r) + (IF writing.pc = "kind" THEN 1 ELSE 0) /\ m \in Nat /\ r \in Nat
        /\ (writing.pc = "kind" => r # 0) /\ r <= m
    BY <1>1, <1>2, <1>4 DEF Done
  <2> HIDE DEF m, r
  <2>2. CASE writing.pc = "kind"
    <3>1. z.at = 2 * (m - r) + 1 /\ r # 0
      BY <2>1, <2>2
    <3>2. z.at <= 2 * m
      BY <2>1, <3>1
    <3> QED BY <3>2 DEF m
  <2>3. CASE writing.pc # "kind"
    <3>1. z.at = 2 * (m - r)
      BY <2>1, <2>3
    <3>2. z.at <= 2 * m
      BY <2>1, <3>1
    <3> QED BY <3>2 DEF m
  <2> QED BY <2>2, <2>3
<1>6. ~Ends(z)
  BY <1>2, <1>5 DEF Ends
<1> QED BY <1>1, <1>3, <1>6 DEF Follows, Within

LEMMA EncodedFacts ==
  ASSUME NEW b \in Tags
  PROVE  /\ KindsAsOf(b.types, Encoded(b)) /\ TailAsOf(b.types, Number(b), Encoded(b))
         /\ Size(b.types) > 2 * Len(b.types)
BY EncodingFacts, TagFacts DEF Encoded

\* The receiver, and what it has read, are as they were.
LEMMA StreamGrows ==
  ASSUME NEW trace, ReaderAt(trace[1]), UNCHANGED receiver,
         NEW more, Framed(more)', more[1] = trace[1],
         NEW z, z = more[(Len(wire) + 1)'], WriterAt(z)'
  PROVE  StreamInv'
<1>1. PICK a : a = trace[1]
  OBVIOUS
<1>2. ReaderAt(a)'
  BY <1>1 DEF ReaderAt, ReadsStart, ReadsKind, ReadsHead, ReadsBody, ReadSoFar, receiver
<1>3. ReaderAt(more[1])'
  BY <1>1, <1>2
<1>4. WriterAt(more[Len(wire) + 1])'
  OBVIOUS
<1> QED BY <1>3, <1>4 DEF StreamInv

LEMMA TracesEnd ==
  ASSUME TypeOK, NEW trace, Framed(trace)
  PROVE  Len(wire) \in Nat /\ trace[1] \in Tags /\ trace[Len(wire) + 1] \in Tags
         /\ \A i \in 1..Len(wire) : trace[i] \in Tags /\ trace[i + 1] \in Tags
<1>1. Len(wire) \in Nat /\ trace \in Seq(Tags) /\ Len(trace) = Len(wire) + 1
  BY DEF TypeOK, Framed
<1> QED BY <1>1

\* One more object.
LEMMA FrameGrowsByOne ==
  ASSUME TypeOK, NEW trace, Framed(trace), knows' = knows,
         NEW b \in Tags, Follows(trace[Len(wire) + 1], b),
         NEW o \in Objects, Write(<<o>>), b.at <= Size(b.types), o = Encoded(b)[b.at],
         b.whole = Len(sent), b.half = failed, failed' = failed, Message <= MaxMessages,
         \A j \in 1..Len(b.types) : 2 * j <= b.at => b.types[j] \in knows.enc,
         IF Ends(b) THEN Sent(b.types) ELSE sent' = sent
  PROVE  \E more : /\ Framed(more)' /\ more[1] = trace[1]
                   /\ Within(b, more[(Len(wire) + 1)'], 0)
<1>1. 1 \in Nat \ {0} /\ <<o>> \in Seq(Objects) /\ Len(<<o>>) = 1 /\ <<o>>[1] = o /\ 1 - 1 = 0
  OBVIOUS
<1>2. b.at \in Nat
  BY TagFacts
<1>3. b.at + (1 - 1) = b.at
  BY <1>2
<1>4. \A i \in 1..1 : <<o>>[i] = Encoded(b)[b.at + (i - 1)]
  <2> TAKE i \in 1..1
  <2>1. i = 1
    OBVIOUS
  <2> QED BY <1>1, <1>3, <2>1
<1>5. b.at + (1 - 1) <= Size(b.types)
  BY <1>3
<1>6. \A j \in 1..Len(b.types) : 2 * j <= b.at + (1 - 1) => b.types[j] \in knows.enc
  BY <1>3
<1>7. IF b.at + (1 - 1) = Size(b.types) THEN Sent(b.types) ELSE sent' = sent
  BY <1>3 DEF Ends
<1>8. \E more : /\ Framed(more)' /\ more[1] = trace[1]
                 /\ Within(b, more[(Len(wire) + 1)'], 1 - 1)
  BY <1>1, <1>4, <1>5, <1>6, <1>7, FrameGrows
<1> QED BY <1>1, <1>8

LEMMA EncodeHeadKeepsStream ==
  ASSUME TypeInv, StreamInv, ~unknown, EncodeHead
  PROVE  StreamInv'
<1>1. PICK trace : Framed(trace) /\ ReaderAt(trace[1]) /\ WriterAt(trace[Len(wire) + 1])
  BY DEF StreamInv
<1>2. PICK z : z = trace[Len(wire) + 1]
  OBVIOUS
<1>3. TypeOK /\ z \in Tags /\ WriterAt(z) /\ Len(wire) \in Nat
  BY <1>1, <1>2, TracesEnd DEF TypeInv
<1>4. /\ writing.pc = "head" /\ writing.rest # <<>> /\ Write(<<Array(2)>>)
      /\ writing' = [writing EXCEPT !.pc = "kind"]
      /\ UNCHANGED <<knows, sent, failed, receiver>>
  BY DEF EncodeHead
<1> DEFINE types == writing.types
<1>5. PICK b : b = [types |-> types, whole |-> Len(sent), half |-> failed, at |-> 2 * Done + 1]
  OBVIOUS
<1>6. /\ writing \in [pc : {"idle", "head", "kind", "body"}, rest : Chains, types : Chains]
      /\ types \in Shapes /\ types \in Chained /\ Message <= MaxMessages
      /\ Len(writing.rest) <= Len(types)
      /\ \A i \in 1..Done : types[i] \in knows.enc
      /\ writing.rest \in Seq(Implementers)
  BY <1>3, <1>4 DEF TypeInv, TypeOK, WriteInv, Chained, Chains
<1>7. Done \in 0..(Len(types) - 1) /\ Len(types) \in Nat
  BY <1>6, EmptySeq, ChainedAreChains, <1>4 DEF Done
<1>8. b \in Tags /\ Follows(z, b)
  <2>1. CASE Done = 0
    BY <1>3, <1>4, <1>5, <1>6, <2>1, FirstTag
  <2>2. CASE Done # 0
    <3>1. z.at = 2 * Done
      BY <1>3, <1>4, <1>7, <2>2 DEF WriterAt
    <3> QED BY <1>3, <1>4, <1>5, <2>2, <3>1, NextTag
  <2> QED BY <2>1, <2>2
<1>9. /\ b.types = types /\ b.whole = Len(sent) /\ b.half = failed /\ b.at = 2 * Done + 1
  BY <1>5
<1>10. Array(2) = Encoded(b)[b.at] /\ b.at < Size(b.types)
  <2>1. KindsAsOf(types, Encoded(b)) /\ Size(types) > 2 * Len(types) /\ Size(types) \in Nat
    BY <1>8, <1>9, EncodedFacts, TagFacts
  <2>2. Encoded(b)[2 * Done + 1] = Array(2)
    BY <1>7, <2>1 DEF KindsAsOf
  <2>3. 2 * Done + 1 < Size(types)
    BY <1>7, <2>1
  <2> QED BY <1>9, <2>2, <2>3
<1>11. Array(2) \in Objects
  BY DEF Objects
<1>12. \A j \in 1..Len(b.types) : 2 * j <= b.at => b.types[j] \in knows.enc
  BY <1>6, <1>7, <1>9
<1>13. ~Ends(b) /\ b.at <= Size(b.types)
  BY <1>8, <1>10, TagFacts DEF Ends
<1>15. PICK more : /\ Framed(more)' /\ more[1] = trace[1]
                   /\ Within(b, more[(Len(wire) + 1)'], 0)
  <2> HIDE DEF types
  <2>1. Follows(trace[Len(wire) + 1], b) /\ Array(2) = Encoded(b)[b.at]
    BY <1>2, <1>8, <1>10
  <2>2. IF Ends(b) THEN Sent(b.types) ELSE sent' = sent
    BY <1>4, <1>13
  <2> QED BY <1>1, <1>3, <1>4, <1>6, <1>8, <1>9, <1>11, <1>12, <1>13, <2>1, <2>2, FrameGrowsByOne
<1>16. PICK y : y = more[(Len(wire) + 1)']
  OBVIOUS
<1>17. Done' = Done /\ writing'.pc = "kind" /\ writing'.types = types
  BY <1>4, <1>6 DEF Done
<1>18. y.types = types /\ y.whole = Len(sent) /\ y.half = failed /\ y.at = 2 * Done + 1
  BY <1>7, <1>9, <1>15, <1>16 DEF Within
<1>19. WriterAt(y)'
  BY <1>4, <1>17, <1>18 DEF WriterAt
<1> QED BY <1>1, <1>4, <1>15, <1>16, <1>19, StreamGrows

LEMMA EncodeNilKeepsStream ==
  ASSUME TypeInv, StreamInv, ~unknown, EncodeNil
  PROVE  StreamInv'
<1>1. PICK trace : Framed(trace) /\ ReaderAt(trace[1]) /\ WriterAt(trace[Len(wire) + 1])
  BY DEF StreamInv
<1>2. PICK z : z = trace[Len(wire) + 1]
  OBVIOUS
<1>3. TypeOK /\ z \in Tags /\ WriterAt(z) /\ Len(wire) \in Nat
  BY <1>1, <1>2, TracesEnd DEF TypeInv
<1> DEFINE types == writing.types
<1>4. /\ writing.pc = "head" /\ writing.rest = <<>> /\ Write(<<Nil>>) /\ Sent(types)
      /\ UNCHANGED <<knows, receiver>>
  BY DEF EncodeNil
<1>5. PICK b : b = [types |-> types, whole |-> Len(sent), half |-> failed, at |-> 2 * Done + 1]
  OBVIOUS
<1>6. /\ types \in Shapes /\ types \in Chained /\ Message <= MaxMessages /\ ~EndsInBody(types)
      /\ \A i \in 1..Done : types[i] \in knows.enc
  BY <1>3, <1>4 DEF TypeInv, TypeOK, WriteInv, Chained, Chains
<1>7. Done = Len(types) /\ Len(types) \in Nat
  BY <1>6, ChainedAreChains, <1>4 DEF Done
<1>8. b \in Tags /\ Follows(z, b)
  <2>1. CASE Done = 0
    BY <1>3, <1>4, <1>5, <1>6, <2>1, FirstTag
  <2>2. CASE Done # 0
    <3>1. z.at = 2 * Done
      BY <1>3, <1>4, <1>7, <2>2 DEF WriterAt
    <3> QED BY <1>3, <1>4, <1>5, <2>2, <3>1, NextTag
  <2> QED BY <2>1, <2>2
<1>9. /\ b.types = types /\ b.whole = Len(sent) /\ b.half = failed /\ b.at = 2 * Done + 1
  BY <1>5
<1>10. Nil = Encoded(b)[b.at] /\ b.at = Size(b.types)
  <2>1. TailAsOf(types, Number(b), Encoded(b))
    BY <1>8, <1>9, EncodedFacts
  <2>2. Size(types) = 2 * Len(types) + 1 /\ Encoded(b)[2 * Len(types) + 1] = Nil
    BY <1>6, <2>1 DEF TailAsOf
  <2> QED BY <1>7, <1>9, <2>2
<1>11. Nil \in Objects
  BY DEF Objects
<1>12. \A j \in 1..Len(b.types) : 2 * j <= b.at => b.types[j] \in knows.enc
  BY <1>6, <1>7, <1>9
<1>13. Ends(b) /\ b.at <= Size(b.types)
  BY <1>8, <1>10, TagFacts DEF Ends
<1>14. failed' = failed /\ sent' = Append(sent, [types |-> types, n |-> Contents(types, Message)])
       /\ writing' = Idle
  BY <1>4 DEF Sent
<1>15. PICK more : /\ Framed(more)' /\ more[1] = trace[1]
                   /\ Within(b, more[(Len(wire) + 1)'], 0)
  <2> HIDE DEF types
  <2>1. Follows(trace[Len(wire) + 1], b)
    BY <1>2, <1>8
  <2>2. IF Ends(b) THEN Sent(b.types) ELSE sent' = sent
    BY <1>4, <1>9, <1>13
  <2> QED BY <1>1, <1>3, <1>4, <1>6, <1>8, <1>9, <1>10, <1>11, <1>12, <1>13, <1>14, <2>1, <2>2, FrameGrowsByOne
<1>16. PICK y : y = more[(Len(wire) + 1)']
  OBVIOUS
<1>17. Len(sent') = Len(sent) + 1 /\ Len(sent) \in Nat
  BY <1>3, <1>14 DEF TypeOK
<1>18. y.types = types /\ y.whole = Len(sent) /\ y.half = failed /\ y.at = Size(types)
  BY <1>7, <1>9, <1>10, <1>15, <1>16 DEF Within
<1>19. WriterAt(y)'
  BY <1>14, <1>17, <1>18 DEF WriterAt, Ends, Idle
<1> QED BY <1>1, <1>4, <1>15, <1>16, <1>19, StreamGrows

LEMMA EncodeKindKeepsStream ==
  ASSUME TypeInv, StreamInv, ~unknown, EncodeKind
  PROVE  StreamInv'
<1>1. PICK trace : Framed(trace) /\ ReaderAt(trace[1]) /\ WriterAt(trace[Len(wire) + 1])
  BY DEF StreamInv
<1>2. PICK z : z = trace[Len(wire) + 1]
  OBVIOUS
<1>3. TypeOK /\ z \in Tags /\ WriterAt(z) /\ Len(wire) \in Nat
  BY <1>1, <1>2, TracesEnd DEF TypeInv
<1> DEFINE types == writing.types
           t == Head(writing.rest)
<1>4. /\ writing.pc = "kind" /\ t \in knows.enc /\ Write(<<Kind(t, knows.enc)>>)
      /\ writing' = [writing EXCEPT !.pc = IF t \in Boxes THEN "head" ELSE "body", !.rest = Tail(@)]
      /\ UNCHANGED <<knows, sent, failed, receiver>>
  BY DEF EncodeKind
<1>5. PICK b : b = [types |-> types, whole |-> Len(sent), half |-> failed, at |-> 2 * Done + 2]
  OBVIOUS
<1>6. /\ writing \in [pc : {"idle", "head", "kind", "body"}, rest : Chains, types : Chains]
      /\ types \in Shapes /\ types \in Chained /\ Message <= MaxMessages
      /\ Len(writing.rest) <= Len(types)
      /\ \A i \in 1..Len(writing.rest) : writing.rest[i] = types[Done + i]
      /\ \A i \in 1..Done : types[i] \in knows.enc
      /\ writing.rest # <<>> /\ writing.rest \in Seq(Implementers)
  BY <1>3, <1>4 DEF TypeInv, TypeOK, WriteInv, Chained, Chains
<1>7. Done \in 0..(Len(types) - 1) /\ Len(types) \in Nat /\ Done + 1 \in 1..Len(types)
  BY <1>6, EmptySeq, ChainedAreChains DEF Done
<1>8. t = types[Done + 1] /\ t \in Implementers
  <2>1. 1 \in 1..Len(writing.rest) /\ t = writing.rest[1]
    BY <1>6, EmptySeq
  <2> QED BY <1>6, <1>7, <2>1, ChainedAreChains
<1>9. b \in Tags /\ Follows(z, b)
  <2>1. z.at = 2 * Done + 1
    BY <1>3, <1>4 DEF WriterAt
  <2>2. 2 * Done + 2 = (2 * Done + 1) + 1
    BY <1>7
  <2> QED BY <1>3, <1>4, <1>5, <2>1, <2>2, NextTag
<1>10. /\ b.types = types /\ b.whole = Len(sent) /\ b.half = failed /\ b.at = 2 * Done + 2
  BY <1>5
<1>11. Kind(t, knows.enc) = Encoded(b)[b.at] /\ b.at < Size(b.types)
  <2>1. KindsAsOf(types, Encoded(b)) /\ Size(types) > 2 * Len(types) /\ Size(types) \in Nat
    BY <1>9, <1>10, EncodedFacts, TagFacts
  <2>2. Encoded(b)[2 * (Done + 1)] = String(ID[types[Done + 1]])
    BY <1>7, <2>1 DEF KindsAsOf
  <2>3. 2 * Done + 2 = 2 * (Done + 1) /\ 2 * Done + 2 < Size(types)
    BY <1>7, <2>1
  <2> QED BY <1>8, <1>10, <2>2, <2>3 DEF Kind
<1>12. Kind(t, knows.enc) \in Objects
  BY <1>8 DEF Objects, Kind
<1>13. \A i \in 1..(Done + 1) : types[i] \in knows.enc
  BY <1>4, <1>6, <1>7, <1>8
<1>14. \A j \in 1..Len(b.types) : 2 * j <= b.at => b.types[j] \in knows.enc
  BY <1>7, <1>10, <1>13
<1>15. ~Ends(b) /\ b.at <= Size(b.types)
  BY <1>9, <1>11, TagFacts DEF Ends
<1>16. PICK more : /\ Framed(more)' /\ more[1] = trace[1]
                   /\ Within(b, more[(Len(wire) + 1)'], 0)
  <2> HIDE DEF types, t
  <2>1. Follows(trace[Len(wire) + 1], b)
    BY <1>2, <1>9
  <2>2. IF Ends(b) THEN Sent(b.types) ELSE sent' = sent
    BY <1>4, <1>15
  <2> QED BY <1>1, <1>3, <1>4, <1>6, <1>9, <1>10, <1>11, <1>12, <1>14, <1>15, <2>1, <2>2, FrameGrowsByOne
<1>17. PICK y : y = more[(Len(wire) + 1)']
  OBVIOUS
<1>18. Done' = Done + 1 /\ writing'.types = types /\ writing'.pc \in {"head", "body"}
  <2>1. Len(Tail(writing.rest)) = Len(writing.rest) - 1 /\ Len(writing.rest) \in Nat
    BY <1>6
  <2>2. /\ writing'.types = types /\ writing'.rest = Tail(writing.rest)
        /\ writing'.pc \in {"head", "body"}
    BY <1>4, <1>6
  <2>3. \A m, r \in Nat : m - (r - 1) = (m - r) + 1
    OBVIOUS
  <2>4. Done' = Done + 1
    BY <1>7, <2>1, <2>2, <2>3, Zenon DEF Done
  <2> QED BY <2>2, <2>4
<1>19. y.types = types /\ y.whole = Len(sent) /\ y.half = failed /\ y.at = 2 * (Done + 1)
  BY <1>7, <1>10, <1>16, <1>17 DEF Within
<1>20. Done + 1 # 0 /\ 2 * (Done + 1) = 2 * (Done + 1) + 0
  BY <1>7
<1>21. WriterAt(y)'
  BY <1>4, <1>18, <1>19, <1>20 DEF WriterAt
<1> QED BY <1>1, <1>4, <1>16, <1>17, <1>21, StreamGrows

LEMMA EncodeMsgKeepsStream ==
  ASSUME TypeInv, StreamInv, ~unknown, NEW types \in Shapes, EncodeMsg(types)
  PROVE  StreamInv'
<1>1. PICK trace : Framed(trace) /\ ReaderAt(trace[1]) /\ WriterAt(trace[Len(wire) + 1])
  BY DEF StreamInv
<1>2. PICK z : z = trace[Len(wire) + 1]
  OBVIOUS
<1>3. /\ writing = Idle /\ writing' = [pc |-> "head", rest |-> types, types |-> types]
      /\ UNCHANGED <<knows, sent, failed, wire, receiver>>
  BY DEF EncodeMsg
<1>4. TypeOK /\ failed' \in Nat /\ failed' >= failed
  BY <1>3, MessageIsANumber DEF TypeInv
<1>5. Framed(trace)'
  BY <1>1, <1>3, <1>4, FrameStays
<1>6. Done' = 0
  <2>1. Len(types) \in Nat
    BY ChainedAreChains DEF Chained
  <2> QED BY <1>3, <2>1 DEF Done
<1>7. WriterAt(z)'
  BY <1>1, <1>2, <1>3, <1>6 DEF WriterAt, Idle
<1>8. z = trace[(Len(wire) + 1)']
  BY <1>2, <1>3
<1> QED BY <1>1, <1>3, <1>5, <1>7, <1>8, StreamGrows

\* The half of a message stays where it is, and counts as a failure.
LEMMA EncodeUnknownKeepsStream ==
  ASSUME TypeInv, StreamInv, ~unknown, EncodeUnknown
  PROVE  StreamInv'
<1>1. PICK trace : Framed(trace) /\ ReaderAt(trace[1]) /\ WriterAt(trace[Len(wire) + 1])
  BY DEF StreamInv
<1>2. PICK z : z = trace[Len(wire) + 1]
  OBVIOUS
<1>3. /\ writing.pc = "kind" /\ writing' = Idle /\ failed' = failed + 1
      /\ UNCHANGED <<knows, sent, wire, receiver>>
  BY DEF EncodeUnknown
<1>4. TypeOK /\ failed \in Nat /\ failed' \in Nat /\ failed' >= failed
  BY <1>3, MessageIsANumber DEF TypeInv
<1>5. Framed(trace)'
  BY <1>1, <1>3, <1>4, FrameStays
<1>6. /\ writing.rest # <<>> /\ writing.rest \in Seq(Implementers)
      /\ Len(writing.rest) <= Len(writing.types) /\ writing.types \in Chained
  BY <1>3, <1>4 DEF TypeInv, TypeOK, WriteInv, Chained, Chains
<1>7. Done \in 0..(Len(writing.types) - 1)
  <2>1. Len(writing.rest) \in Nat \ {0} /\ Len(writing.types) \in Nat
    BY <1>6, EmptySeq, ChainedAreChains
  <2>2. \A m \in Nat, r \in Nat \ {0} : r <= m => m - r \in 0..(m - 1)
    OBVIOUS
  <2> QED BY <1>6, <2>1, <2>2, Zenon DEF Done
<1>8. z.types = writing.types /\ Len(sent) = z.whole /\ failed = z.half /\ z.at = 2 * Done + 1
  BY <1>1, <1>2, <1>3 DEF WriterAt
<1>9. Breaks(z)
  BY <1>7, <1>8 DEF Breaks
<1>10. WriterAt(z)'
  BY <1>3, <1>8, <1>9 DEF WriterAt, Idle
<1>11. z = trace[(Len(wire) + 1)']
  BY <1>2, <1>3
<1> QED BY <1>1, <1>3, <1>5, <1>10, <1>11, StreamGrows

\* The rest of a message, to its end.
LEMMA FrameGrowsToEnd ==
  ASSUME TypeInv, NEW trace, Framed(trace), ReaderAt(trace[1]), UNCHANGED <<knows, receiver>>,
         NEW b \in Tags, Follows(trace[Len(wire) + 1], b), b.types \in Shapes,
         NEW objects \in Seq(Objects), Len(objects) > 0, Write(objects),
         b.at + (Len(objects) - 1) = Size(b.types),
         \A i \in 1..Len(objects) : objects[i] = Encoded(b)[b.at + (i - 1)],
         b.whole = Len(sent), b.half = failed, Message <= MaxMessages,
         \A j \in 1..Len(b.types) : b.types[j] \in knows.enc,
         Sent(b.types)
  PROVE  StreamInv'
<1> DEFINE k == Len(objects)
<1>1. TypeOK /\ k \in Nat \ {0} /\ knows' = knows
  BY DEF TypeInv
<1>2. /\ failed' = failed /\ writing' = Idle
      /\ sent' = Append(sent, [types |-> b.types, n |-> Contents(b.types, Message)])
  BY DEF Sent
<1>3. b.at \in Nat /\ Size(b.types) \in Nat
  BY TagFacts
<1>4. PICK more : /\ Framed(more)' /\ more[1] = trace[1]
                  /\ Within(b, more[(Len(wire) + 1)'], k - 1)
  <2>1. /\ b.at + (k - 1) <= Size(b.types)
        /\ IF b.at + (k - 1) = Size(b.types) THEN Sent(b.types) ELSE sent' = sent
    BY <1>3
  <2>2. /\ \A i \in 1..k : objects[i] = Encoded(b)[b.at + (i - 1)]
        /\ \A j \in 1..Len(b.types) : 2 * j <= b.at + (k - 1) => b.types[j] \in knows.enc
        /\ Len(objects) = k
    OBVIOUS
  <2> HIDE DEF k
  <2> QED BY <1>1, <1>2, <2>1, <2>2, FrameGrows
<1>5. PICK y : y = more[(Len(wire) + 1)']
  OBVIOUS
<1>6. y.types = b.types /\ y.whole = Len(sent) /\ y.half = failed /\ y.at = Size(b.types)
  BY <1>4, <1>5 DEF Within
<1>7. Len(sent') = Len(sent) + 1
  BY <1>1, <1>2 DEF TypeOK
<1>8. WriterAt(y)'
  BY <1>2, <1>6, <1>7 DEF WriterAt, Ends, Idle
<1> QED BY <1>4, <1>5, <1>8, StreamGrows

LEMMA EncodeBodyKeepsStream ==
  ASSUME TypeInv, StreamInv, ~unknown, EncodeBody
  PROVE  StreamInv'
<1>1. PICK trace : Framed(trace) /\ ReaderAt(trace[1]) /\ WriterAt(trace[Len(wire) + 1])
  BY DEF StreamInv
<1>2. PICK z : z = trace[Len(wire) + 1]
  OBVIOUS
<1>3. TypeOK /\ z \in Tags /\ WriterAt(z) /\ Len(wire) \in Nat
  BY <1>1, <1>2, TracesEnd DEF TypeInv
<1> DEFINE types == writing.types
           m == Len(types)
           t == Last(types)
           objects == Body(t, Message)
<1>4. /\ writing.pc = "body" /\ Write(objects) /\ Sent(types)
      /\ UNCHANGED <<knows, receiver>>
  BY DEF EncodeBody
<1>5. PICK b : b = [types |-> types, whole |-> Len(sent), half |-> failed, at |-> 2 * m + 1]
  OBVIOUS
<1>6. /\ types \in Shapes /\ types \in Chained /\ Message <= MaxMessages
      /\ EndsInBody(types) /\ writing.rest = <<>>
      /\ \A i \in 1..Done : types[i] \in knows.enc
  BY <1>3, <1>4 DEF TypeInv, TypeOK, WriteInv, Chained, Chains
<1>7. Done = m /\ m \in Nat /\ t \in Implementers \ Boxes
  BY <1>6, ChainedAreChains DEF Done, Last
<1>8. b \in Tags /\ Follows(z, b)
  <2>1. z.at = 2 * Done
    BY <1>3, <1>4, <1>7 DEF WriterAt
  <2> QED BY <1>3, <1>4, <1>5, <1>7, <2>1, NextTag
<1>9. /\ b.types = types /\ b.whole = Len(sent) /\ b.half = failed /\ b.at = 2 * m + 1
  BY <1>5
<1>10. Message \in 1..MaxMessages /\ Number(b) = Message
  BY <1>3, <1>6, <1>9, MessageIsANumber, ImplementersAssumption DEF Number
<1>11. objects \in Seq(Objects) /\ Len(objects) = Len(BodyOf[t]) /\ Len(BodyOf[t]) \in Nat \ {0}
  <2>1. Value(Message) \in Objects
    BY <1>10 DEF Objects
  <2>2. Objects \cup {Value(Message)} = Objects
    BY <2>1
  <2> QED BY <1>7, <2>2, BodyFacts
<1>12. /\ Size(types) = 2 * m + Len(BodyOf[t])
       /\ \A i \in 1..Len(BodyOf[t]) : Encoded(b)[2 * m + i] = objects[i]
  <2>1. TailAsOf(types, Message, Encoded(b))
    BY <1>8, <1>9, <1>10, EncodedFacts
  <2> QED BY <1>6, <2>1 DEF TailAsOf
<1>13. \A i \in 1..Len(objects) : objects[i] = Encoded(b)[b.at + (i - 1)]
  <2> TAKE i \in 1..Len(objects)
  <2>1. b.at + (i - 1) = 2 * m + i
    BY <1>7, <1>9, <1>11
  <2> QED BY <1>11, <1>12, <2>1
<1>14. b.at + (Len(objects) - 1) = Size(b.types)
  <2>1. \A x, y \in Nat : (2 * x + 1) + (y - 1) = 2 * x + y
    OBVIOUS
  <2> HIDE DEF types, m, t, objects
  <2>2. (2 * m + 1) + (Len(objects) - 1) = Size(types)
    BY <1>7, <1>11, <1>12, <2>1
  <2> QED BY <1>9, <2>2
<1>15. \A j \in 1..Len(b.types) : b.types[j] \in knows.enc
  BY <1>6, <1>7, <1>9
<1> HIDE DEF types, m, t, objects
<1>16. Follows(trace[Len(wire) + 1], b) /\ b.types \in Shapes /\ Sent(b.types) /\ Len(objects) > 0
  BY <1>2, <1>4, <1>6, <1>8, <1>9, <1>11
<1> QED BY <1>1, <1>4, <1>6, <1>8, <1>9, <1>11, <1>13, <1>14, <1>15, <1>16, FrameGrowsToEnd

LEMMA MarshalMsgKeepsStream ==
  ASSUME TypeInv, StreamInv, ~unknown, NEW types \in Shapes, MarshalMsg(types)
  PROVE  StreamInv'
<1>1. PICK trace : Framed(trace) /\ ReaderAt(trace[1]) /\ WriterAt(trace[Len(wire) + 1])
  BY DEF StreamInv
<1>2. PICK z : z = trace[Len(wire) + 1]
  OBVIOUS
<1>3. TypeOK /\ z \in Tags /\ WriterAt(z) /\ Len(wire) \in Nat
  BY <1>1, <1>2, TracesEnd DEF TypeInv
<1> DEFINE objects == Encoding(types, Message, knows.enc)
<1>4. /\ writing.pc = "idle" /\ Message <= MaxMessages /\ Write(objects) /\ Sent(types)
      /\ ToSet(types) \subseteq knows.enc /\ UNCHANGED <<knows, receiver>>
  BY DEF MarshalMsg, Idle
<1>5. PICK b : b = [types |-> types, whole |-> Len(sent), half |-> failed, at |-> 1]
  OBVIOUS
<1>6. b \in Tags /\ Follows(z, b)
  BY <1>3, <1>4, <1>5, FirstTag
<1>7. /\ b.types = types /\ b.whole = Len(sent) /\ b.half = failed /\ b.at = 1
  BY <1>5
<1>8. Message \in 1..MaxMessages /\ Number(b) = Message /\ types \in Chained
  BY <1>3, <1>4, <1>7, MessageIsANumber, ImplementersAssumption DEF Number, Chained
<1>9. /\ objects \in Seq(Objects) /\ Len(objects) = Size(types)
      /\ Size(types) \in Nat /\ Size(types) > 0
  <2>1. /\ objects \in Seq(Objects) /\ Len(objects) = Size(types)
        /\ Size(types) \in Nat /\ Size(types) > 2 * Len(types)
    BY <1>8, EncodingFacts
  <2>2. Len(types) \in Nat
    BY <1>8, ChainedAreChains
  <2> HIDE DEF objects
  <2> QED BY <2>1, <2>2
<1>10. objects = Encoded(b)
  BY <1>7, <1>8 DEF Encoded, Encoding, Kind
<1> HIDE DEF objects
<1>11. \A i \in 1..Len(objects) : objects[i] = Encoded(b)[b.at + (i - 1)]
  BY <1>7, <1>9, <1>10
<1>12. b.at + (Len(objects) - 1) = Size(b.types)
  BY <1>7, <1>9
<1>13. \A j \in 1..Len(b.types) : b.types[j] \in knows.enc
  <2>1. types \in Seq(Implementers)
    BY <1>8, ChainedAreChains
  <2> QED BY <1>4, <1>7, <2>1 DEF ToSet
<1>14. Follows(trace[Len(wire) + 1], b) /\ b.types \in Shapes /\ Sent(b.types) /\ Len(objects) > 0
  BY <1>2, <1>4, <1>6, <1>7, <1>9
<1> QED BY <1>1, <1>4, <1>6, <1>7, <1>9, <1>11, <1>12, <1>13, <1>14, FrameGrowsToEnd

LEMMA SenderKeepsStream ==
  ASSUME TypeInv, StreamInv, Sender
  PROVE  StreamInv'
<1>1. unknown' = unknown
  BY DEF Sender, EncodeMsg, MarshalMsg, EncodeNil, EncodeHead, EncodeKind, EncodeUnknown,
         EncodeBody, receiver
<1>2. CASE unknown
  BY <1>1, <1>2 DEF StreamInv
<1>3. CASE ~unknown
  BY <1>3, EncodeMsgKeepsStream, MarshalMsgKeepsStream, EncodeNilKeepsStream,
     EncodeHeadKeepsStream, EncodeKindKeepsStream, EncodeUnknownKeepsStream,
     EncodeBodyKeepsStream DEF Sender
<1> QED BY <1>2, <1>3
----------------------------------------------------------------------------
\* What the receiver finds.

LEMMA NextRead ==
  ASSUME TypeOK, NEW trace, Framed(trace), wire # <<>>, NEW a, a = trace[1], NEW b, b = trace[2]
  PROVE  /\ a \in Tags /\ b \in Tags /\ Follows(a, b)
         /\ Len(wire) \in Nat \ {0} /\ 1 \in 0..Len(wire) /\ Head(wire) = wire[1]
         /\ b.at \in 1..Size(b.types) /\ Head(wire) = Encoded(b)[b.at]
         /\ b.whole >= 0 /\ b.half <= failed /\ Number(b) \in 1..MaxMessages
         /\ Ends(b) => /\ b.whole + 1 <= Len(sent)
                       /\ sent[b.whole + 1] = [types |-> b.types, n |-> Contents(b.types, Number(b))]
         /\ \A j \in 1..Len(b.types) : 2 * j <= b.at => b.types[j] \in knows.enc
<1>1. wire \in Seq(Objects)
  BY DEF TypeOK
<1>2. Len(wire) \in Nat \ {0} /\ Head(wire) = wire[1]
  BY <1>1, EmptySeq
<1>3. 1 \in 1..Len(wire) /\ 1 \in 0..Len(wire) /\ 1 + 1 = 2
  BY <1>2
<1>4. a \in Tags /\ b \in Tags
  BY <1>3, TracesEnd
<1>5. Follows(a, b) /\ Carries(b, wire[1])
  BY <1>3 DEF Framed
<1> QED BY <1>2, <1>3, <1>4, <1>5 DEF Carries

\* In the place of a header: a header, or nil at the end of the chain.
LEMMA HeadRead ==
  ASSUME TypeOK, NEW trace, Framed(trace), wire # <<>>, NEW a, a = trace[1], NEW b, b = trace[2],
         ReaderAt(a), reading.pc = "head"
  PROVE  /\ b.half = errors /\ b.whole = Len(received) /\ b.at = 2 * Len(reading.types) + 1
         /\ \A i \in 1..Len(reading.types) : reading.types[i] = b.types[i]
         /\ \/ Len(reading.types) < Len(b.types) /\ Head(wire) = Array(2)
            \/ /\ reading.types = b.types /\ Head(wire) = Nil /\ Ends(b)
               /\ ~EndsInBody(b.types)
<1> DEFINE d == Len(reading.types)
           m == Len(b.types)
<1>1. /\ a \in Tags /\ b \in Tags /\ Follows(a, b) /\ b.at \in 1..Size(b.types)
      /\ Head(wire) = Encoded(b)[b.at]
  BY NextRead
<1>2. reading.types \in Seq(Implementers) /\ b.types \in Seq(Implementers) /\ d \in Nat /\ m \in Nat
  BY <1>1, TagFacts DEF TypeOK, Chains
<1>3. /\ b.half = errors /\ b.whole = Len(received) /\ b.at = 2 * d + 1 /\ d <= m
      /\ \A i \in 1..d : reading.types[i] = b.types[i]
      /\ d > 0 => b.types[d] \in Boxes
  <2>1. CASE ReadsStart(a)
    <3>1. reading.types = <<>> /\ d = 0 /\ Ends(a) /\ Len(received) = a.whole + 1 /\ errors = a.half
      BY <2>1 DEF ReadsStart, Start, ReaderAt
    <3>2. ~Breaks(a)
      BY <1>1, <3>1, TagFacts
    <3>3. b.at = 1 /\ b.whole = a.whole + 1 /\ b.half = a.half
      BY <1>1, <3>1, <3>2 DEF Follows
    <3> HIDE DEF d, m
    <3>4. 1..d = {} /\ d <= m /\ ~(d > 0) /\ 2 * d + 1 = 1
      BY <1>2, <3>1
    <3>5. \A i \in 1..d : reading.types[i] = b.types[i]
      BY <3>4
    <3> QED BY <3>1, <3>3, <3>4, <3>5
  <2>2. CASE ReadsHead(a)
    <3>1. /\ a.at = 2 * d /\ Len(received) = a.whole /\ errors = a.half
          /\ d <= Len(a.types) /\ \A i \in 1..d : reading.types[i] = a.types[i]
          /\ d > 0 /\ a.types[d] \in Boxes
      BY <2>2 DEF ReadsHead, ReadSoFar, ReaderAt
    <3>2. ~Ends(a) /\ ~Breaks(a)
      <4>1. a.at # Size(a.types)
        BY <1>1, <1>2, <3>1, TagFacts
      <4>2. \A e \in 0..(Len(a.types) - 1) : a.at # 2 * e + 1
        BY <1>2, <3>1
      <4> QED BY <4>1, <4>2 DEF Ends, Breaks
    <3>3. Within(a, b, 1)
      BY <1>1, <3>2 DEF Follows
    <3> QED BY <3>1, <3>3 DEF Within
  <2>3. ReadsStart(a) \/ ReadsHead(a)
    BY DEF ReaderAt, ReadsKind, ReadsBody
  <2> QED BY <2>1, <2>2, <2>3
<1>4. CASE d < m
  <2>1. Head(wire) = Array(2)
    <3>1. d \in 0..(m - 1)
      BY <1>2, <1>4
    <3> QED BY <1>1, <1>3, <3>1, ObjectAt
  <2> QED BY <1>3, <1>4, <2>1
<1>5. CASE ~(d < m)
  <2>1. d = m
    BY <1>2, <1>3, <1>5
  <2>2. reading.types = b.types
    BY <1>2, <1>3, <2>1, SeqEqual
  <2>3. ~EndsInBody(b.types)
    <3>1. CASE m = 0
      BY <1>2, <3>1, EmptySeq DEF EndsInBody
    <3>2. CASE m # 0
      BY <1>2, <1>3, <2>1, <3>2 DEF EndsInBody, Last
    <3> QED BY <3>1, <3>2
  <2>4. Head(wire) = Nil /\ Ends(b)
    <3>1. b.at = 2 * Len(b.types) + 1
      BY <1>3, <2>1
    <3> QED BY <1>1, <2>3, <3>1, LastObject
  <2> QED BY <1>3, <2>2, <2>3, <2>4
<1> QED BY <1>4, <1>5

\* In the place of a kind: the kind, or the next message, which begins with no
\* kind, if the one before is a half.
LEMMA KindRead ==
  ASSUME TypeOK, NEW trace, Framed(trace), wire # <<>>, NEW a, a = trace[1], NEW b, b = trace[2],
         ReadsKind(a)
  PROVE  LET d == Len(reading.types)
         IN \/ /\ Within(a, b, 1) /\ d + 1 \in 1..Len(b.types) /\ b.at = 2 * (d + 1)
               /\ Head(wire) = String(ID[b.types[d + 1]])
               /\ b.types[d + 1] \in knows.enc /\ b.types[d + 1] \in Implementers
            \/ /\ Head(wire) \in {Nil, Array(2)}
               /\ b.at = 1 /\ b.whole = a.whole /\ b.half = a.half + 1
<1> DEFINE d == Len(reading.types)
<1>1. /\ a \in Tags /\ b \in Tags /\ Follows(a, b) /\ b.at \in 1..Size(b.types)
      /\ Head(wire) = Encoded(b)[b.at]
      /\ \A j \in 1..Len(b.types) : 2 * j <= b.at => b.types[j] \in knows.enc
  BY NextRead
<1>2. d \in Nat /\ a.at = 2 * d + 1 /\ d < Len(a.types) /\ Len(a.types) \in Nat
  <2>1. reading.types \in Seq(Implementers)
    BY DEF TypeOK, Chains
  <2>2. d \in Nat /\ Len(a.types) \in Nat
    BY <1>1, <2>1, TagFacts
  <2> QED BY <2>2 DEF ReadsKind
<1>3. ~Ends(a)
  BY <1>1, <1>2, TagFacts DEF Ends
<1>4. CASE Within(a, b, 1)
  <2>1. b.types = a.types /\ b.at = (2 * d + 1) + 1
    BY <1>2, <1>4 DEF Within
  <2> HIDE DEF d
  <2>2. d + 1 \in 1..Len(b.types) /\ b.at = 2 * (d + 1) /\ 2 * (d + 1) <= b.at
    BY <1>2, <2>1
  <2>3. Head(wire) = String(ID[b.types[d + 1]])
    BY <1>1, <2>2, ObjectAt
  <2>4. b.types[d + 1] \in knows.enc
    BY <1>1, <2>2
  <2>5. b.types[d + 1] \in Implementers
    BY <1>1, <2>2, TagFacts
  <2> QED BY <1>4, <2>2, <2>3, <2>4, <2>5 DEF d
<1>5. CASE b.at = 1 /\ b.whole = a.whole /\ b.half = a.half + 1
  <2>1. Head(wire) \in {Nil, Array(2)}
    BY <1>1, <1>5, ObjectAt
  <2> QED BY <1>5, <2>1
<1> QED BY <1>1, <1>3, <1>4, <1>5 DEF Follows

\* The sender, and what it has written, are as they were.
LEMMA StreamShrinks ==
  ASSUME TypeOK, NEW trace, Framed(trace), WriterAt(trace[Len(wire) + 1]),
         UNCHANGED <<knows, sender>>,
         NEW n \in 0..Len(wire), Consume(n), NEW a, a = trace[n + 1], ReaderAt(a)'
  PROVE  StreamInv'
<1>1. PICK left : /\ Framed(left)' /\ left[1] = trace[n + 1]
                  /\ left[(Len(wire) + 1)'] = trace[Len(wire) + 1]
  BY FrameShrinks
<1>2. PICK z : z = trace[Len(wire) + 1]
  OBVIOUS
<1>3. WriterAt(z)
  BY <1>2
<1>4. WriterAt(z)'
  BY <1>3 DEF WriterAt, Done, sender
<1>5. ReaderAt(left[1])' /\ WriterAt(left[Len(wire) + 1])'
  BY <1>1, <1>2, <1>4
<1> QED BY <1>1, <1>5 DEF StreamInv

\* A message is delivered when its last object has been read.
LEMMA OrderGrows ==
  ASSUME TypeOK, InOrder, ~unknown, sent' = sent,
         NEW types, NEW n, NEW method, Delivers(types, n, method),
         NEW b \in Tags, Ends(b), b.whole = Len(received), b.whole + 1 <= Len(sent),
         sent[b.whole + 1] = [types |-> b.types, n |-> Contents(b.types, Number(b))],
         \/ types = b.types /\ n = Contents(b.types, Number(b))
         \/ /\ method = "UnmarshalMsg" /\ ToSet(b.types) \cap Values # {}
            /\ IsPrefix(types, b.types)
  PROVE  /\ InOrder' /\ ReadsStart(b)' /\ errors' = errors
<1> DEFINE got == [types |-> types, n |-> n, by |-> method]
           l == Len(received)
<1>1. l \in Nat
  BY DEF TypeOK
<1>2. received' = Append(received, got) /\ reading' = Start /\ errors' = errors
  BY DEF Delivers
<1>3. /\ Len(received') = l + 1 /\ received'[l + 1] = got
      /\ \A i \in 1..l : received'[i] = received[i]
      /\ DOMAIN received' = 1..(l + 1) /\ DOMAIN received = 1..l
  BY <1>1, <1>2 DEF TypeOK
<1> DEFINE Right(i, g) == LET was == sent[i]
                          IN \/ g.types = was.types /\ g.n = was.n
                             \/ /\ g.by = "UnmarshalMsg"
                                /\ ToSet(was.types) \cap Values # {}
                                /\ IsPrefix(g.types, was.types)
<1>4. \A i \in 1..l : Right(i, received[i])
  BY <1>3 DEF InOrder
<1>5. Right(l + 1, got)
  OBVIOUS
<1> HIDE DEF Right, got, l
<1>6. \A i \in 1..(l + 1) : Right(i, received'[i])
  <2> TAKE i \in 1..(l + 1)
  <2>1. CASE i \in 1..l
    BY <1>3, <1>4, <2>1
  <2>2. CASE i = l + 1
    BY <1>3, <1>5, <2>2
  <2> QED BY <1>1, <2>1, <2>2
<1>7. InOrder'
  <2>1. l + 1 <= Len(sent)
    BY DEF l
  <2> QED BY <1>3, <1>6, <2>1 DEF InOrder, Right
<1>8. ReadsStart(b)'
  BY <1>2, <1>3 DEF ReadsStart, l, Ends
<1> QED BY <1>2, <1>7, <1>8

\* Nothing is delivered.
LEMMA OrderStays ==
  ASSUME InOrder, ~unknown, sent' = sent, received' = received
  PROVE  InOrder'
BY DEF InOrder

LEMMA DecodeNilKeepsStream ==
  ASSUME TypeInv, StreamInv, InOrder, ~unknown, DecodeNil
  PROVE  StreamInv' /\ InOrder'
<1>1. PICK trace : Framed(trace) /\ ReaderAt(trace[1]) /\ WriterAt(trace[Len(wire) + 1])
  BY DEF StreamInv
<1>2. PICK a : a = trace[1]
  OBVIOUS
<1>3. PICK b : b = trace[2]
  OBVIOUS
<1>4. /\ reading.pc = "head" /\ wire # <<>> /\ Head(wire) = Nil /\ Consume(1)
      /\ Delivers(reading.types, 0, "DecodeMsg") /\ UNCHANGED <<knows, sender, unknown>>
  BY DEF DecodeNil, Reads
<1>5. TypeOK /\ ReaderAt(a)
  BY <1>1, <1>2 DEF TypeInv
<1>6. /\ b \in Tags /\ 1 \in 0..Len(wire)
      /\ Ends(b) => /\ b.whole + 1 <= Len(sent)
                    /\ sent[b.whole + 1] = [types |-> b.types, n |-> Contents(b.types, Number(b))]
  BY <1>1, <1>2, <1>3, <1>4, <1>5, NextRead
<1>7. /\ b.half = errors /\ b.whole = Len(received)
      /\ \/ Head(wire) = Array(2)
         \/ reading.types = b.types /\ Ends(b) /\ ~EndsInBody(b.types)
  BY <1>1, <1>2, <1>3, <1>4, <1>5, HeadRead
<1>8. reading.types = b.types /\ Ends(b) /\ 0 = Contents(b.types, Number(b))
  BY <1>4, <1>7, ObjectsApart DEF Contents
<1>9. PICK types : types = reading.types
  OBVIOUS
<1>10. InOrder' /\ ReadsStart(b)' /\ errors' = errors
  <2>1. sent' = sent /\ Delivers(types, 0, "DecodeMsg") /\ types = b.types
    BY <1>4, <1>8, <1>9 DEF sender
  <2> QED BY <1>5, <1>6, <1>7, <1>8, <2>1, OrderGrows
<1>11. ReaderAt(b)'
  BY <1>7, <1>10 DEF ReaderAt
<1>12. b = trace[1 + 1]
  BY <1>3
<1> QED BY <1>1, <1>4, <1>5, <1>6, <1>10, <1>11, <1>12, StreamShrinks

LEMMA DecodeHeadKeepsStream ==
  ASSUME TypeInv, StreamInv, InOrder, ~unknown, DecodeHead
  PROVE  StreamInv' /\ InOrder'
<1>1. PICK trace : Framed(trace) /\ ReaderAt(trace[1]) /\ WriterAt(trace[Len(wire) + 1])
  BY DEF StreamInv
<1>2. PICK a : a = trace[1]
  OBVIOUS
<1>3. PICK b : b = trace[2]
  OBVIOUS
<1>4. /\ reading.pc = "head" /\ wire # <<>> /\ Head(wire) = Array(2) /\ Consume(1)
      /\ reading' = [reading EXCEPT !.pc = "kind"]
      /\ UNCHANGED <<knows, sender, received, errors, unknown>>
  BY DEF DecodeHead, Reads
<1>5. TypeOK /\ ReaderAt(a)
  BY <1>1, <1>2 DEF TypeInv
<1>6. b \in Tags /\ 1 \in 0..Len(wire)
  BY <1>1, <1>2, <1>3, <1>4, <1>5, NextRead
<1>7. /\ b.half = errors /\ b.whole = Len(received) /\ b.at = 2 * Len(reading.types) + 1
      /\ \A i \in 1..Len(reading.types) : reading.types[i] = b.types[i]
      /\ Len(reading.types) < Len(b.types) \/ Head(wire) = Nil
  BY <1>1, <1>2, <1>3, <1>4, <1>5, HeadRead
<1>8. Len(reading.types) < Len(b.types) /\ Len(reading.types) <= Len(b.types)
  <2>1. reading.types \in Seq(Implementers) /\ b.types \in Seq(Implementers)
    BY <1>5, <1>6, TagFacts DEF TypeOK, Chains
  <2>2. Len(reading.types) \in Nat /\ Len(b.types) \in Nat
    BY <2>1
  <2>3. Len(reading.types) < Len(b.types)
    BY <1>4, <1>7, ObjectsApart
  <2> QED BY <2>2, <2>3
<1>9. reading'.pc = "kind" /\ reading'.types = reading.types
  BY <1>4, <1>5 DEF TypeOK
<1>10. ReaderAt(b)'
  BY <1>4, <1>7, <1>8, <1>9 DEF ReaderAt, ReadsKind, ReadSoFar
<1>11. InOrder' /\ b = trace[1 + 1]
  BY <1>3, <1>4, OrderStays DEF sender
<1> QED BY <1>1, <1>4, <1>5, <1>6, <1>10, <1>11, StreamShrinks

\* Every message begins with nil or with a header of two.
LEMMA NoHeadFails ==
  ASSUME TypeInv, StreamInv, ~unknown, DecodeHeadFails
  PROVE  FALSE
<1>1. PICK trace : Framed(trace) /\ ReaderAt(trace[1])
  BY DEF StreamInv
<1>2. PICK a : a = trace[1]
  OBVIOUS
<1>3. PICK b : b = trace[2]
  OBVIOUS
<1>4. reading.pc = "head" /\ wire # <<>> /\ Head(wire) \notin {Nil, Array(2)}
  BY DEF DecodeHeadFails, Reads
<1>5. TypeOK /\ ReaderAt(a)
  BY <1>1, <1>2 DEF TypeInv
<1> QED BY <1>1, <1>2, <1>3, <1>4, <1>5, HeadRead

LEMMA DecodeKindKeepsStream ==
  ASSUME TypeInv, StreamInv, InOrder, ~unknown, DecodeKind
  PROVE  StreamInv' /\ InOrder'
<1>1. PICK trace : Framed(trace) /\ ReaderAt(trace[1]) /\ WriterAt(trace[Len(wire) + 1])
  BY DEF StreamInv
<1>2. PICK a : a = trace[1]
  OBVIOUS
<1>3. PICK b : b = trace[2]
  OBVIOUS
<1>4. /\ reading.pc = "kind" /\ wire # <<>> /\ UNCHANGED <<knows, sender, received, errors, unknown>>
  BY DEF DecodeKind, Reads
<1>5. PICK t \in KindsOf(Head(wire), knows.dec) :
        /\ Consume(1)
        /\ reading' = [pc |-> IF t \in Boxes THEN "head" ELSE "body",
                       types |-> Append(reading.types, t)]
  BY DEF DecodeKind
<1>6. TypeOK /\ ReaderAt(a)
  BY <1>1, <1>2 DEF TypeInv
<1>7. ReadsKind(a) /\ errors = a.half
  BY <1>4, <1>6 DEF ReaderAt, ReadsStart, ReadsHead, ReadsBody, Start
<1>8. a \in Tags /\ b \in Tags /\ 1 \in 0..Len(wire)
  BY <1>1, <1>2, <1>3, <1>4, <1>6, NextRead
<1> DEFINE d == Len(reading.types)
<1>9. t \in Implementers /\ Head(wire) = String(ID[t])
  BY <1>5, <1>6, ImplementersAssumption DEF KindsOf, Kind, TypeOK
<1>10. /\ Within(a, b, 1) /\ d + 1 \in 1..Len(b.types) /\ b.at = 2 * (d + 1)
       /\ Head(wire) = String(ID[b.types[d + 1]]) /\ b.types[d + 1] \in Implementers
  BY <1>1, <1>2, <1>3, <1>4, <1>6, <1>7, <1>9, KindRead, ObjectsApart
<1>11. t = b.types[d + 1]
  <2>1. ID[t] = ID[b.types[d + 1]]
    BY <1>9, <1>10, ObjectsApart
  <2> QED BY <1>9, <1>10, <2>1, ImplementersAssumption
<1>12. /\ reading.types \in Seq(Implementers) /\ d \in Nat /\ Len(b.types) \in Nat
       /\ b.types \in Chained
  <2>1. reading.types \in Seq(Implementers)
    BY <1>6 DEF TypeOK, Chains
  <2> QED BY <1>8, <2>1, TagFacts
<1> DEFINE read == Append(reading.types, t)
<1>13. /\ Len(read) = d + 1 /\ read[d + 1] = t
       /\ \A i \in 1..d : read[i] = reading.types[i]
  BY <1>9, <1>12, AppendProperties
<1>14. /\ Len(received) = a.whole /\ \A i \in 1..d : reading.types[i] = a.types[i]
  BY <1>7 DEF ReadsKind, ReadSoFar
<1>15. b.types = a.types /\ b.whole = a.whole /\ b.half = a.half
  BY <1>10 DEF Within
<1>16. reading'.types = read /\ reading'.pc = IF t \in Boxes THEN "head" ELSE "body"
  BY <1>5
<1> HIDE DEF d, read
<1>17. \A i \in 1..(d + 1) : read[i] = b.types[i]
  <2> TAKE i \in 1..(d + 1)
  <2>1. CASE i \in 1..d
    BY <1>13, <1>14, <1>15, <2>1 DEF d
  <2>2. CASE i = d + 1
    BY <1>11, <1>13, <2>2
  <2> QED BY <1>12, <2>1, <2>2
<1>18. ReadSoFar(b)'
  <2>1. Len(received') = b.whole /\ d + 1 <= Len(b.types)
    BY <1>4, <1>10, <1>12, <1>14, <1>15
  <2> QED BY <1>13, <1>16, <1>17, <2>1 DEF ReadSoFar
<1>19. ReadsHead(b)' \/ ReadsBody(b)'
  <2>1. CASE t \in Boxes
    <3>1. d + 1 > 0
      BY <1>12
    <3> QED BY <1>10, <1>11, <1>13, <1>16, <1>18, <2>1, <3>1 DEF ReadsHead
  <2>2. CASE t \notin Boxes
    <3>1. ~(d + 1 \in 1..(Len(b.types) - 1))
      BY <1>11, <1>12, <2>2, ChainedAreChains
    <3>2. d + 1 = Len(b.types)
      BY <1>10, <1>12, <3>1
    <3>3. b.types # <<>>
      BY <1>12, <3>2, EmptySeq
    <3>4. EndsInBody(b.types)
      BY <1>11, <2>2, <3>2, <3>3 DEF EndsInBody, Last
    <3> QED BY <1>10, <1>13, <1>16, <1>18, <2>2, <3>2, <3>4 DEF ReadsBody
  <2> QED BY <2>1, <2>2
<1>20. ReaderAt(b)'
  BY <1>4, <1>7, <1>15, <1>19 DEF ReaderAt
<1>21. InOrder' /\ b = trace[1 + 1]
  BY <1>3, <1>4, OrderStays DEF sender
<1> QED BY <1>1, <1>4, <1>5, <1>6, <1>8, <1>20, <1>21, StreamShrinks

\* After half a message the next one is found where a kind should be.  It stays
\* there, and the half counts as an error.
LEMMA DecodeKindFailsKeepsStream ==
  ASSUME TypeInv, StreamInv, InOrder, ~unknown, DecodeKindFails
  PROVE  StreamInv' /\ InOrder'
<1>1. PICK trace : Framed(trace) /\ ReaderAt(trace[1]) /\ WriterAt(trace[Len(wire) + 1])
  BY DEF StreamInv
<1>2. PICK a : a = trace[1]
  OBVIOUS
<1>3. PICK b : b = trace[2]
  OBVIOUS
<1>4. /\ reading.pc = "kind" /\ wire # <<>> /\ UNCHANGED <<knows, sender, unknown>>
      /\ Head(wire).is # "str" \/ Head(wire) = String(NotANumber)
      /\ Consume(IF Head(wire).is = "str" THEN 1 ELSE 0)
      /\ errors' = errors + 1 /\ reading' = Start /\ received' = received
  BY DEF DecodeKindFails, Reads, Fails
<1>5. TypeOK /\ ReaderAt(a)
  BY <1>1, <1>2 DEF TypeInv
<1>6. ReadsKind(a) /\ errors = a.half
  BY <1>4, <1>5 DEF ReaderAt, ReadsStart, ReadsHead, ReadsBody, Start
<1>7. a \in Tags /\ b \in Tags /\ b.half <= failed
  BY <1>1, <1>2, <1>3, <1>4, <1>5, NextRead
<1>8. \A t \in Implementers : Head(wire) # String(ID[t])
  <2>1. \A t \in Implementers : ID[t] # NotANumber
    BY ImplementersAssumption
  <2> QED BY <1>4, <2>1, ObjectsApart
<1>9. Head(wire) \in {Nil, Array(2)} /\ b.at = 1 /\ b.whole = a.whole /\ b.half = a.half + 1
  BY <1>1, <1>2, <1>3, <1>4, <1>5, <1>6, <1>8, KindRead
<1>10. wire' = wire
  <2>1. Head(wire).is # "str"
    BY <1>9, ObjectsApart
  <2>2. wire' = SubSeq(wire, 0 + 1, Len(wire))
    BY <1>4, <2>1 DEF Consume
  <2>3. wire \in Seq(Objects)
    BY <1>5 DEF TypeOK
  <2> QED BY <2>2, <2>3, SubSeqFull
<1>11. PICK h : h = [types |-> <<>>, whole |-> a.whole - 1, half |-> a.half + 1, at |-> 1]
  OBVIOUS
<1>12. a.whole \in Int /\ a.half \in Nat
  BY <1>7, TagFacts
<1>13. /\ h \in Tags /\ h.types = <<>> /\ h.whole + 1 = a.whole /\ h.half = a.half + 1 /\ h.at = 1
  BY <1>11, <1>12 DEF Tags, Chained
<1>14. Ends(h)
  <2>1. Size(<<>>) = 1
    BY EmptySeq DEF Size, EndsInBody
  <2> QED BY <1>13, <2>1 DEF Ends
<1>15. Follows(h, b) /\ h.half <= failed
  BY <1>7, <1>9, <1>13, <1>14 DEF Follows
<1>16. PICK other : /\ Framed(other)' /\ other[1] = h
                    /\ other[(Len(wire) + 1)'] = trace[Len(wire) + 1]
  BY <1>1, <1>3, <1>4, <1>5, <1>10, <1>13, <1>15, FrameForgets
<1>17. PICK z : z = trace[Len(wire) + 1]
  OBVIOUS
<1>18. WriterAt(z)
  BY <1>1, <1>17
<1>19. WriterAt(z)'
  BY <1>4, <1>18 DEF WriterAt, Done, sender
<1>20. ReaderAt(h)'
  <2>1. Len(received) = a.whole
    BY <1>6 DEF ReadsKind, ReadSoFar
  <2>2. ReadsStart(h)'
    BY <1>4, <1>13, <1>14, <2>1 DEF ReadsStart, Ends
  <2> QED BY <1>4, <1>6, <1>13, <2>2 DEF ReaderAt
<1>21. ReaderAt(other[1])' /\ WriterAt(other[Len(wire) + 1])'
  BY <1>16, <1>17, <1>19, <1>20
<1>22. InOrder'
  BY <1>4, OrderStays DEF sender
<1> QED BY <1>16, <1>21, <1>22 DEF StreamInv

\* A kind that is unknown is a type's that the sender has.
LEMMA UnknownIsNew ==
  ASSUME TypeInv, StreamInv, ~unknown, DecodeUnknown
  PROVE  ~(knows.enc \subseteq knows.dec)
<1>1. PICK trace : Framed(trace) /\ ReaderAt(trace[1])
  BY DEF StreamInv
<1>2. PICK a : a = trace[1]
  OBVIOUS
<1>3. PICK b : b = trace[2]
  OBVIOUS
<1>4. /\ reading.pc = "kind" /\ wire # <<>> /\ Head(wire).is = "str"
      /\ KindsOf(Head(wire), knows.dec) = {}
  BY DEF DecodeUnknown, Reads
<1>5. TypeOK /\ ReaderAt(a)
  BY <1>1, <1>2 DEF TypeInv
<1>6. ReadsKind(a)
  BY <1>4, <1>5 DEF ReaderAt, ReadsStart, ReadsHead, ReadsBody, Start
<1>7. Head(wire) \notin {Nil, Array(2)}
  BY <1>4, ObjectsApart
<1>8. PICK t \in knows.enc : Head(wire) = String(ID[t])
  BY <1>1, <1>2, <1>3, <1>4, <1>5, <1>6, <1>7, KindRead
<1>9. t \notin knows.dec
  BY <1>4, <1>8 DEF KindsOf, Kind
<1> QED BY <1>8, <1>9

\* Object q of the wire is number i of the body that comes after the kind with
\* tag a, which is number j of the trace.
InBody(trace, j, a, q, i) ==
  /\ j \in 1..(Len(wire) + 1) /\ a = trace[j]
  /\ EndsInBody(a.types) /\ a.at = 2 * Len(a.types)
  /\ q \in 1..Len(wire) /\ i \in 1..Len(BodyOf[Last(a.types)]) /\ q = (j - 1) + i

LEMMA BodyRead ==
  ASSUME TypeOK, NEW trace, Framed(trace), NEW j, NEW a, NEW q, NEW i, InBody(trace, j, a, q, i)
  PROVE  /\ Within(a, trace[q + 1], i) /\ Carries(trace[q + 1], wire[q])
         /\ wire[q] = Body(Last(a.types), Number(a))[i]
<1> DEFINE m == Len(a.types)
           l == Len(wire)
           c == trace[q + 1]
<1>0. /\ j \in 1..(Len(wire) + 1) /\ a = trace[j]
      /\ EndsInBody(a.types) /\ a.at = 2 * Len(a.types)
      /\ q \in 1..Len(wire) /\ i \in 1..Len(BodyOf[Last(a.types)]) /\ q = (j - 1) + i
  BY DEF InBody
<1>1. /\ l \in Nat /\ a \in Tags /\ m \in Nat /\ i \in Nat /\ j \in Nat
      /\ a.types \in Chained /\ a.at \in Nat
  <2>1. l \in Nat /\ trace \in Seq(Tags) /\ Len(trace) = l + 1
    BY DEF TypeOK, Framed
  <2>2. a \in Tags /\ j \in Nat
    BY <1>0, <2>1
  <2>3. m \in Nat /\ a.types \in Chained /\ a.at \in Nat
    BY <2>2, TagFacts
  <2>4. Last(a.types) \in Implementers \ Boxes
    BY <1>0, <2>3, ChainedAreChains DEF Last
  <2>5. Len(BodyOf[Last(a.types)]) \in Nat
    BY <2>4, BodyFacts
  <2>6. i \in Nat
    BY <1>0, <2>5
  <2> QED BY <2>1, <2>2, <2>3, <2>6
<1>2. TailAsOf(a.types, Number(a), Encoded(a))
  BY <1>1, EncodedFacts
<1>3. /\ Size(a.types) = 2 * m + Len(BodyOf[Last(a.types)])
      /\ Encoded(a)[2 * m + i] = Body(Last(a.types), Number(a))[i]
  BY <1>0, <1>2 DEF TailAsOf
<1>4. a.at >= 2 * m /\ a.at + i <= Size(a.types)
  <2>1. Len(BodyOf[Last(a.types)]) \in Nat
    <3>1. Last(a.types) \in Implementers \ Boxes
      BY <1>0, <1>1, ChainedAreChains DEF Last
    <3> QED BY <3>1, BodyFacts
  <2>2. \A x, y, s \in Nat : \A z \in 1..y : s = 2 * x + y => 2 * x >= 2 * x /\ 2 * x + z <= s
    OBVIOUS
  <2>3. Size(a.types) \in Nat
    BY <1>1, TagFacts
  <2> QED BY <1>0, <1>1, <1>3, <2>1, <2>2, <2>3, Zenon
<1>5. Within(a, c, i)
  <2>1. j + i = q + 1 /\ j + i <= Len(wire) + 1
    BY <1>0, <1>1
  <2>2. Within(a, trace[j + i], i)
    BY <1>0, <1>1, <1>4, <2>1, BodyRuns
  <2> QED BY <2>1, <2>2
<1> HIDE DEF l, m
<1>6. Carries(c, wire[q])
  BY <1>0 DEF Framed
<1>7. c.types = a.types /\ Number(c) = Number(a) /\ c.at = 2 * m + i
  BY <1>0, <1>5 DEF Within, Number, m
<1>8. wire[q] = Encoded(a)[2 * m + i]
  BY <1>6, <1>7 DEF Carries, Encoded
<1> QED BY <1>3, <1>5, <1>6, <1>8

LEMMA DecodeBodyKeepsStream ==
  ASSUME TypeInv, StreamInv, InOrder, ~unknown, DecodeBody
  PROVE  StreamInv' /\ InOrder'
<1>1. PICK trace : Framed(trace) /\ ReaderAt(trace[1]) /\ WriterAt(trace[Len(wire) + 1])
  BY DEF StreamInv
<1>2. PICK a : a = trace[1]
  OBVIOUS
<1> DEFINE t == Last(reading.types)
           body == Body(t, 1)
           k == Len(body)
           Matches(n) == \A i \in 1..n : wire[i].is = body[i].is
<1>3. /\ reading.pc = "body" /\ UNCHANGED <<knows, sender, unknown>>
      /\ IF Len(wire) >= k /\ Matches(k)
           THEN Consume(k) /\ Delivers(reading.types, wire[k].n, "DecodeMsg")
           ELSE \E n \in 0..(k - 1) : Matches(n) /\ n < Len(wire) /\ ~Matches(n + 1)
  BY DEF DecodeBody, Reads
<1>4. TypeOK /\ ReaderAt(a) /\ Len(wire) \in Nat /\ a \in Tags
  BY <1>1, <1>2, TracesEnd DEF TypeInv
<1>5. ReadsBody(a) /\ errors = a.half
  BY <1>3, <1>4 DEF ReaderAt, ReadsStart, ReadsHead, ReadsKind, Start
<1>6. /\ Len(received) = a.whole /\ EndsInBody(a.types) /\ a.at = 2 * Len(a.types)
      /\ reading.types = a.types
  <2>1. reading.types \in Seq(Implementers) /\ a.types \in Seq(Implementers)
    BY <1>4, TagFacts DEF TypeOK, Chains
  <2>2. reading.types = a.types
    BY <1>5, <2>1, SeqEqual DEF ReadsBody, ReadSoFar
  <2> QED BY <1>5, <2>2 DEF ReadsBody, ReadSoFar
<1>7. t = Last(a.types) /\ t \in Implementers \ Boxes
  BY <1>4, <1>6, TagFacts, ChainedAreChains DEF Last
<1>8. /\ k = Len(BodyOf[t]) /\ k \in Nat \ {0}
      /\ \A i \in 1..k : Body(t, Number(a))[i].is = body[i].is
      /\ Body(t, Number(a))[k] = Value(Number(a))
  <2>1. k = Len(BodyOf[t]) /\ k \in Nat \ {0}
    BY <1>7, BodyFacts
  <2>2. SameKinds(Body(t, Number(a)), body) /\ Len(Body(t, Number(a))) = Len(BodyOf[t])
    BY <1>7, BodyFacts
  <2>3. Body(t, Number(a))[Len(BodyOf[t])] = Value(Number(a))
    BY <1>7, BodyFacts
  <2>4. \A i \in 1..k : Body(t, Number(a))[i].is = body[i].is
    BY <2>1, <2>2 DEF SameKinds
  <2> QED BY <2>1, <2>3, <2>4
<1> HIDE DEF t, body, k
<1>9. ASSUME NEW i \in 1..k, i <= Len(wire)
      PROVE  /\ Within(a, trace[1 + i], i) /\ Carries(trace[1 + i], wire[i])
             /\ wire[i] = Body(t, Number(a))[i]
  <2>1. 1 \in 1..(Len(wire) + 1) /\ i \in 1..Len(wire) /\ 1 + i = i + 1 /\ i = (1 - 1) + i
    BY <1>4, <1>8, <1>9
  <2>2. i \in 1..Len(BodyOf[Last(a.types)])
    BY <1>7, <1>8
  <2>3. /\ Within(a, trace[i + 1], i) /\ Carries(trace[i + 1], wire[i])
        /\ wire[i] = Body(Last(a.types), Number(a))[i]
    <3>1. a = trace[1] /\ Framed(trace) /\ TypeOK
      BY <1>1, <1>2, <1>4
    <3>2. InBody(trace, 1, a, i, i)
      BY <1>6, <2>1, <2>2, <3>1 DEF InBody
    <3> QED BY <3>1, <3>2, BodyRead
  <2> QED BY <1>7, <2>1, <2>3
<1>10. ~ \E n \in 0..(k - 1) : n < Len(wire) /\ ~Matches(n + 1)
  <2> SUFFICES ASSUME NEW n \in 0..(k - 1), n < Len(wire), NEW i \in 1..(n + 1)
               PROVE  wire[i].is = body[i].is
    OBVIOUS
  <2>1. i \in 1..k /\ i <= Len(wire)
    BY <1>4, <1>8
  <2> QED BY <1>8, <1>9, <2>1
<1>11. Len(wire) >= k /\ Consume(k) /\ Delivers(reading.types, wire[k].n, "DecodeMsg")
  BY <1>3, <1>10
<1>12. k \in 1..k /\ k <= Len(wire) /\ k \in 0..Len(wire)
  BY <1>4, <1>8, <1>11
<1>13. PICK b : b = trace[1 + k]
  OBVIOUS
<1>14. Within(a, b, k) /\ Carries(b, wire[k]) /\ wire[k] = Value(Number(a))
  BY <1>8, <1>9, <1>12, <1>13
<1>15. b \in Tags
  BY <1>1, <1>4, <1>12, <1>13, TracesEnd
<1>16. /\ b.types = a.types /\ b.whole = a.whole /\ b.half = a.half /\ Number(b) = Number(a)
       /\ b.at = 2 * Len(a.types) + k
  BY <1>6, <1>14 DEF Within, Number
<1>17. Ends(b)
  <2>1. Size(a.types) = 2 * Len(a.types) + k
    BY <1>6, <1>7, <1>8 DEF Size
  <2> QED BY <1>16, <2>1 DEF Ends
<1>18. wire[k].n = Contents(b.types, Number(b))
  BY <1>6, <1>14, <1>16, ObjectsApart DEF Contents
<1>19. PICK types, n : types = reading.types /\ n = wire[k].n
  OBVIOUS
<1>20. InOrder' /\ ReadsStart(b)' /\ errors' = errors
  <2>1. /\ sent' = sent /\ Delivers(types, n, "DecodeMsg") /\ types = b.types
        /\ n = Contents(b.types, Number(b)) /\ b.whole = Len(received)
    BY <1>3, <1>6, <1>11, <1>16, <1>18, <1>19 DEF sender
  <2>2. /\ b.whole + 1 <= Len(sent)
        /\ sent[b.whole + 1] = [types |-> b.types, n |-> Contents(b.types, Number(b))]
    BY <1>14, <1>17 DEF Carries
  <2> QED BY <1>4, <1>15, <1>17, <2>1, <2>2, OrderGrows
<1>21. ReaderAt(b)'
  BY <1>5, <1>16, <1>20 DEF ReaderAt
<1>22. b = trace[k + 1]
  BY <1>8, <1>13
<1> QED BY <1>1, <1>3, <1>4, <1>11, <1>12, <1>20, <1>21, <1>22, StreamShrinks

\* Up to the end of the shorter chain, the objects on the wire that read as the
\* encoding of a message are those of one message.
LEMMA HeadsRun ==
  ASSUME TypeOK, NEW trace, Framed(trace), NEW b, b = trace[2], b.at = 1,
         NEW types \in Chained, NEW e, KindsAsOf(types, e),
         2 * Len(types) + 1 <= Len(wire), \A i \in 1..(2 * Len(types)) : wire[i] = e[i],
         NEW n \in 0..(2 * Len(types)), n <= 2 * Len(b.types)
  PROVE  Within(b, trace[n + 2], n) /\ trace[n + 2] \in Tags /\ Carries(trace[n + 2], wire[n + 1])
<1> DEFINE l == Len(wire)
           m == Len(types)
           bad == {k \in 0..n : ~Within(b, trace[k + 2], k)}
<1>1. /\ l \in Nat /\ m \in Nat
      /\ \A i \in 1..l : trace[i] \in Tags /\ trace[i + 1] \in Tags
      /\ \A i \in 1..l : Follows(trace[i], trace[i + 1])
      /\ \A i \in 1..l : Carries(trace[i + 1], wire[i])
  BY TracesEnd, ChainedAreChains DEF Framed
<1>2. n \in Nat /\ n + 1 \in 1..l /\ (n + 1) + 1 = n + 2
  BY <1>1
<1>3. trace[n + 2] \in Tags /\ Carries(trace[n + 2], wire[n + 1])
  BY <1>1, <1>2
<1>4. b \in Tags
  <2>1. 1 \in 1..l /\ 1 + 1 = 2
    BY <1>1, <1>2
  <2> QED BY <1>1, <2>1
<1>5. /\ Len(b.types) \in Nat /\ Size(b.types) \in Nat /\ Size(b.types) > 2 * Len(b.types)
  BY <1>4, TagFacts
<1>6. SUFFICES ASSUME bad # {} PROVE FALSE
  <2>1. n \in 0..n
    BY <1>2
  <2> QED BY <1>3, <1>6, <2>1
<1>7. PICK k \in bad : \A j \in bad : k <= j
  <2>1. bad \subseteq Nat
    OBVIOUS
  <2> HIDE DEF bad
  <2> QED BY <1>6, <2>1, LeastOf
<1>8. k # 0
  <2>1. Within(b, trace[0 + 2], 0)
    BY <1>4, TagFacts DEF Within
  <2> QED BY <1>7, <2>1
<1>9. k \in 0..n /\ k - 1 \in 0..n /\ k \in Nat \ {0}
  BY <1>2, <1>7, <1>8
<1>10. k - 1 \notin bad
  BY <1>7, <1>9
<1> DEFINE c == trace[k + 1]
           d == trace[k + 2]
<1>11. Within(b, c, k - 1)
  <2>1. (k - 1) + 2 = k + 1
    BY <1>9
  <2>2. Within(b, trace[(k - 1) + 2], k - 1)
    BY <1>9, <1>10
  <2> QED BY <2>1, <2>2
<1> HIDE DEF bad
<1>12. k + 1 \in 1..l /\ (k + 1) + 1 = k + 2 /\ k + 1 \in 1..(2 * m + 1) /\ k \in 1..(2 * m)
  BY <1>1, <1>2, <1>9
<1>13. /\ c \in Tags /\ d \in Tags /\ Follows(c, d) /\ Carries(d, wire[k + 1])
  BY <1>1, <1>12
<1> HIDE DEF c, d, l
<1>14. c.types = b.types /\ c.at = k
  BY <1>9, <1>11 DEF Within
<1>15. ~Ends(c)
  <2>1. k < Size(b.types)
    BY <1>2, <1>5, <1>9
  <2> QED BY <1>14, <2>1, <1>9, <1>5 DEF Ends
<1>16. ~(Breaks(c) /\ d.at = 1)
  <2> SUFFICES ASSUME Breaks(c), d.at = 1 PROVE FALSE
    OBVIOUS
  <2>1. PICK f \in 0..(Len(b.types) - 1) : k = 2 * f + 1
    BY <1>14 DEF Breaks
  <2>2. f + 1 \in 1..m /\ k + 1 = 2 * (f + 1) /\ k + 1 \in 1..(2 * m)
    BY <1>1, <1>5, <1>12, <2>1
  <2>3. wire[k + 1] = e[2 * (f + 1)] /\ e[2 * (f + 1)] = String(ID[types[f + 1]])
    BY <2>2 DEF KindsAsOf
  <2>4. d.at \in 1..Size(d.types) /\ wire[k + 1] = Encoded(d)[d.at]
    BY <1>13 DEF Carries
  <2>5. wire[k + 1] \in {Nil, Array(2)}
    BY <1>13, <2>4, ObjectAt
  <2> QED BY <2>3, <2>5, ObjectsApart
<1>17. Within(c, d, 1)
  BY <1>13, <1>15, <1>16 DEF Follows
<1>18. Within(b, d, k)
  BY <1>4, <1>9, <1>11, <1>17, TagFacts DEF Within
<1> QED BY <1>7, <1>18 DEF bad, d

\* What UnmarshalMsg reads is one message, and the next.
LEMMA MessageRead ==
  ASSUME TypeOK, NEW trace, Framed(trace), wire # <<>>, NEW b, b = trace[2], b.at = 1,
         NEW types \in Chained, NEW n, (n = 0) = ~EndsInBody(types), NEW known,
         IsPrefix(Encoding(types, n, known), wire)
  PROVE  LET s == Size(types)
             z == trace[s + 1]
         IN /\ s \in 1..Len(wire) /\ z \in Tags /\ Carries(z, wire[s])
            /\ types = b.types /\ Within(b, z, s - 1) /\ Ends(z)
            /\ n = Contents(types, Number(z))
<1> DEFINE e == Encoding(types, n, known)
           m == Len(types)
           o == Len(b.types)
           s == Size(types)
           l == Len(wire)
           At(k) == trace[k + 2]
<1>1. /\ l \in Nat \ {0} /\ m \in Nat /\ types \in Seq(Implementers)
      /\ \A i \in 1..l : trace[i + 1] \in Tags
      /\ \A i \in 1..l : Carries(trace[i + 1], wire[i])
  <2>1. l \in Nat \ {0}
    BY EmptySeq DEF TypeOK
  <2> QED BY <2>1, TracesEnd, ChainedAreChains DEF Framed
<1>2. /\ KindsAsOf(types, e) /\ TailAsOf(types, n, e) /\ s \in Nat /\ s > 2 * m /\ Len(e) = s
  BY EncodingFacts
<1>3. s \in 0..l /\ \A i \in 1..s : wire[i] = e[i]
  <2> DEFINE All == Objects \cup {Value(n)}
  <2>1. e \in Seq(All)
    BY EncodingFacts
  <2>2. \A i \in 1..l : wire[i] \in All
    BY DEF TypeOK
  <2>3. wire \in Seq(All)
    <3>1. wire \in Seq(Objects)
      BY DEF TypeOK
    <3> HIDE DEF All
    <3> QED BY <2>2, <3>1
  <2>4. IsPrefix(e, wire)
    OBVIOUS
  <2> HIDE DEF e, All
  <2>5. Len(e) \in 0..l /\ \A i \in 1..Len(e) : e[i] = wire[i]
    BY <2>1, <2>3, <2>4, PrefixFacts
  <2> QED BY <1>2, <2>5
<1>4. b \in Tags
  <2>1. 1 \in 1..l /\ 1 + 1 = 2
    BY <1>1
  <2> QED BY <1>1, <2>1
<1>5. o \in Nat /\ b.types \in Chained /\ b.types \in Seq(Implementers)
  BY <1>4, TagFacts
<1> HIDE DEF e, m, o, s, l, At
<1>6. 2 * m + 1 <= l /\ \A i \in 1..(2 * m + 1) : wire[i] = e[i]
  BY <1>1, <1>2, <1>3
<1>7. ASSUME NEW k \in 0..(2 * m), k <= 2 * o
      PROVE  Within(b, At(k), k) /\ At(k) \in Tags /\ Carries(At(k), wire[k + 1])
  <2>1. 2 * Len(types) + 1 <= Len(wire) /\ \A i \in 1..(2 * Len(types)) : wire[i] = e[i]
    BY <1>1, <1>6 DEF m, l
  <2> QED BY <1>2, <1>7, <2>1, HeadsRun DEF m, o, At
\* Object k + 1 of the wire is object k + 1 of the message.
<1>8. ASSUME NEW k \in 0..(2 * m), k <= 2 * o
      PROVE  /\ \A d \in 0..(o - 1) : k + 1 = 2 * d + 1 => wire[k + 1] = Array(2)
             /\ \A d \in 1..o : k + 1 = 2 * d => wire[k + 1] = String(ID[b.types[d]])
             /\ k + 1 = 2 * o + 1 /\ ~EndsInBody(b.types) => wire[k + 1] = Nil
  <2> DEFINE c == At(k)
  <2>0. Within(b, c, k) /\ c \in Tags /\ Carries(c, wire[k + 1])
    BY <1>7, <1>8
  <2> HIDE DEF c
  <2>01. c.types = b.types /\ c.at = b.at + k
    BY <2>0 DEF Within
  <2>02. k \in Int
    BY <1>1
  <2>1. c.types = b.types /\ c.at = k + 1 /\ c \in Tags /\ Carries(c, wire[k + 1])
    BY <2>0, <2>01, <2>02
  <2>2. c.at \in 1..Size(c.types) /\ wire[k + 1] = Encoded(c)[c.at]
    BY <2>1 DEF Carries
  <2> QED BY <2>1, <2>2, ObjectAt DEF o
<1>9. ASSUME NEW d \in 1..m, d <= o
      PROVE  types[d] = b.types[d]
  <2>1. 2 * d - 1 \in 0..(2 * m) /\ 2 * d - 1 <= 2 * o /\ (2 * d - 1) + 1 = 2 * d /\ d \in 1..o
        /\ 2 * d \in 1..(2 * m + 1)
    BY <1>1, <1>5, <1>9
  <2>2. wire[2 * d] = String(ID[b.types[d]])
    BY <1>8, <2>1
  <2>3. wire[2 * d] = String(ID[types[d]])
    BY <1>2, <1>6, <2>1 DEF KindsAsOf, m
  <2>4. ID[types[d]] = ID[b.types[d]]
    <3>1. \A p, q : String(p) = String(q) => p = q
      BY DEF String
    <3>2. String(ID[types[d]]) = String(ID[b.types[d]])
      BY <2>2, <2>3
    <3> HIDE DEF String
    <3> QED BY <3>1, <3>2, Zenon
  <2>5. types[d] \in Implementers /\ b.types[d] \in Implementers
    BY <1>1, <1>5, <2>1 DEF m, o
  <2> QED BY <2>4, <2>5, ImplementersAssumption
\* Neither chain ends before the other.
<1>10. ASSUME m < o PROVE FALSE
  <2>1. 2 * m \in 0..(2 * m) /\ 2 * m <= 2 * o /\ m \in 0..(o - 1) /\ 2 * m + 1 \in 1..(2 * m + 1)
    BY <1>1, <1>5, <1>10
  <2>2. wire[2 * m + 1] = Array(2)
    BY <1>8, <2>1
  <2>3. EndsInBody(types)
    BY <1>2, <1>6, <2>1, <2>2, ObjectsApart DEF TailAsOf, m
  <2>4. m > 0 /\ types[m] \notin Boxes
    BY ChainedAreChains, <2>3 DEF m
  <2>5. m \in 1..m /\ m <= o /\ m \in 1..(o - 1)
    BY <1>1, <1>5, <1>10, <2>4
  <2>6. b.types[m] \in Boxes
    BY <1>5, <2>5, ChainedAreChains DEF o
  <2> QED BY <1>9, <2>4, <2>5, <2>6
<1>11. ASSUME o < m PROVE FALSE
  <2>1. 2 * o \in 0..(2 * m) /\ 2 * o <= 2 * o /\ o \in 0..(m - 1) /\ 2 * o + 1 \in 1..(2 * m + 1)
    BY <1>1, <1>5, <1>11
  <2>2. wire[2 * o + 1] = Array(2)
    BY <1>2, <1>6, <2>1 DEF KindsAsOf, m
  <2>3. EndsInBody(b.types)
    BY <1>8, <2>1, <2>2, ObjectsApart
  <2>4. o > 0 /\ b.types[o] \notin Boxes
    BY <1>5, ChainedAreChains, <2>3 DEF o
  <2>5. o \in 1..m /\ o <= o /\ o \in 1..(m - 1)
    BY <1>1, <1>5, <1>11, <2>4
  <2>6. types[o] \in Boxes
    BY <2>5, ChainedAreChains DEF m
  <2> QED BY <1>9, <2>4, <2>5, <2>6
<1>12. m = o /\ types = b.types
  <2>1. m = o
    BY <1>1, <1>5, <1>10, <1>11
  <2>2. \A d \in 1..m : types[d] = b.types[d]
    BY <1>1, <1>9, <2>1
  <2> QED BY <1>1, <1>5, <2>1, <2>2, SeqEqual DEF m, o
<1> DEFINE z == trace[s + 1]
<1>13. z \in Tags /\ Carries(z, wire[s]) /\ s \in 1..l
  <2>1. s \in 1..l
    BY <1>1, <1>2, <1>3
  <2> QED BY <1>1, <2>1
<1>14. CASE ~EndsInBody(types)
  <2>1. s = 2 * m + 1 /\ n = 0
    BY <1>2, <1>14 DEF TailAsOf, m, s
  <2>2. 2 * m \in 0..(2 * m) /\ 2 * m <= 2 * o /\ s + 1 = 2 * m + 2 /\ s - 1 = 2 * m
    <3>1. \A x, y \in Nat : y = 2 * x + 1 =>
            2 * x \in 0..(2 * x) /\ 2 * x <= 2 * x /\ y + 1 = 2 * x + 2 /\ y - 1 = 2 * x
      OBVIOUS
    <3>2. m \in Nat /\ s \in Nat /\ m = o /\ s = 2 * m + 1
      BY <1>1, <1>2, <1>12, <2>1
    <3> HIDE DEF z
    <3> QED BY <3>1, <3>2
  <2>3. Within(b, z, s - 1)
    BY <1>7, <2>2 DEF At
  <2>4. n = Contents(types, Number(z))
    BY <1>14, <2>1 DEF Contents
  <2>5. Ends(z)
    <3>1. z.types = b.types /\ z.at = b.at + (s - 1)
      BY <2>3 DEF Within
    <3>2. s \in Int /\ s = Size(b.types)
      BY <1>2, <1>12 DEF s
    <3> HIDE DEF z
    <3> QED BY <3>1, <3>2 DEF Ends
  <2> QED BY <1>12, <1>13, <2>3, <2>4, <2>5 DEF s, l, z
<1>15. CASE EndsInBody(types)
  <2> DEFINE k == Len(BodyOf[Last(types)])
             a == At(2 * m - 1)
  <2>1. /\ m > 0 /\ Last(types) \in Implementers \ Boxes
    BY <1>15, ChainedAreChains DEF m, Last
  <2>2. s = 2 * m + k /\ e[s] = Value(n)
    BY <1>2, <1>15 DEF TailAsOf, m, s
  <2>3. k \in Nat \ {0}
    BY <2>1, BodyFacts
  <2>4. 2 * m - 1 \in 0..(2 * m) /\ 2 * m - 1 <= 2 * o
    BY <1>1, <1>12, <2>1
  <2>5. Within(b, a, 2 * m - 1) /\ a \in Tags
    BY <1>7, <2>4
  <2> HIDE DEF k
  <2>6. a = trace[2 * m + 1] /\ 2 * m + 1 \in 1..(l + 1) /\ s = ((2 * m + 1) - 1) + k
        /\ k \in 1..k /\ 2 * m = 1 + (2 * m - 1)
    <3>1. (2 * m - 1) + 2 = 2 * m + 1
      BY <1>1
    <3>2. 2 * m + 1 \in 1..(l + 1)
      BY <1>1, <1>6
    <3>3. s = ((2 * m + 1) - 1) + k
      BY <1>1, <2>2, <2>3
    <3> QED BY <1>1, <2>3, <3>1, <3>2, <3>3 DEF At
  <2> HIDE DEF a
  <2>7. a.types = types /\ a.at = 2 * m /\ a.whole = b.whole /\ a.half = b.half
    BY <1>12, <2>5, <2>6 DEF Within
  <2>8. InBody(trace, 2 * m + 1, a, s, k)
    BY <1>13, <1>15, <2>6, <2>7 DEF InBody, m, l, k
  <2>9. Within(a, z, k) /\ wire[s] = Body(Last(types), Number(a))[k]
    BY <2>7, <2>8, BodyRead
  <2>10. wire[s] = Value(Number(a)) /\ wire[s] = Value(n)
    <3>1. Body(Last(types), Number(a))[k] = Value(Number(a))
      BY <2>1, BodyFacts DEF k
    <3>2. s \in 1..s
      BY <1>2, <1>13
    <3> QED BY <1>3, <2>2, <2>9, <3>1, <3>2
  <2>11. n = Number(a)
    BY <2>10, ObjectsApart
  <2> HIDE DEF z
  <2>12. Within(b, z, s - 1) /\ Number(z) = Number(a)
    <3>1. b.at = 1 /\ z.at = 2 * m + k /\ s - 1 = 2 * m + k - 1 /\ 2 * m + k = 1 + (s - 1)
      BY <1>1, <1>2, <2>2, <2>3, <2>7, <2>9 DEF Within
    <3> QED BY <1>12, <2>7, <2>9, <3>1 DEF Within, Number
  <2>13. n = Contents(types, Number(z))
    BY <1>15, <2>11, <2>12 DEF Contents
  <2>14. Ends(z)
    BY <1>12, <2>2, <2>7, <2>9 DEF Within, Ends, s
  <2> QED BY <1>12, <1>13, <2>12, <2>13, <2>14 DEF s, l, z
<1> QED BY <1>14, <1>15

\* The result of UnmarshalMsg is the message, or what comes before a value in it.
LEMMA UnmarshalledIsRight ==
  ASSUME NEW types \in Seq(Implementers), NEW n
  PROVE  LET u == Unmarshalled(types, n)
         IN \/ u.types = types /\ u.n = n
            \/ ToSet(types) \cap Values # {} /\ IsPrefix(u.types, types)
<1>1. CASE Unmarshalled(types, n) = [types |-> types, n |-> n]
  BY <1>1
<1>2. CASE \E k \in 1..Len(types) :
             /\ types[k] \in Values
             /\ Unmarshalled(types, n) = [types |-> SubSeq(types, 1, k), n |-> 0]
  <2>1. PICK k \in 1..Len(types) :
             /\ types[k] \in Values
             /\ Unmarshalled(types, n) = [types |-> SubSeq(types, 1, k), n |-> 0]
    BY <1>2
  <2>2. types[k] \in ToSet(types)
    BY DEF ToSet
  <2>3. PICK u : u = SubSeq(types, 1, k)
    OBVIOUS
  <2>4. u \in Seq(Implementers) /\ Len(u) = k /\ k \in Nat /\ k <= Len(types)
    BY <2>3
  <2>5. SubSeq(u, 1, Len(u)) = u
    BY <2>4, SubSeqFull
  <2>6. IsPrefix(u, types)
    BY <2>3, <2>4, <2>5 DEF IsPrefix
  <2> QED BY <2>1, <2>2, <2>3, <2>6
<1> QED BY <1>1, <1>2, UnmarshalledFacts

LEMMA UnmarshalMsgKeepsStream ==
  ASSUME TypeInv, StreamInv, InOrder, ~unknown, UnmarshalMsg
  PROVE  StreamInv' /\ InOrder'
<1>1. PICK trace : Framed(trace) /\ ReaderAt(trace[1]) /\ WriterAt(trace[Len(wire) + 1])
  BY DEF StreamInv
<1>2. PICK a : a = trace[1]
  OBVIOUS
<1>3. PICK b : b = trace[2]
  OBVIOUS
<1>4. /\ reading = Start /\ reading.pc = "head" /\ wire # <<>>
      /\ UNCHANGED <<knows, sender, unknown>>
  BY DEF UnmarshalMsg, Reads
<1>5. TypeOK /\ ReaderAt(a)
  BY <1>1, <1>2 DEF TypeInv
<1>6. b.half = errors /\ b.whole = Len(received) /\ b.at = 1
  <2>1. b.half = errors /\ b.whole = Len(received) /\ b.at = 2 * Len(reading.types) + 1
    BY <1>1, <1>2, <1>3, <1>4, <1>5, HeadRead
  <2>2. Len(reading.types) = 0
    BY <1>4 DEF Start
  <2> QED BY <2>1, <2>2
<1>7. PICK types \in Shapes, n \in 0..MaxMessages :
        /\ (n = 0) = ~EndsInBody(types)
        /\ IsPrefix(Encoding(types, n, knows.dec), wire)
        /\ Consume(Len(Encoding(types, n, knows.dec)))
        /\ Delivers(Unmarshalled(types, n).types, Unmarshalled(types, n).n, "UnmarshalMsg")
  BY DEF UnmarshalMsg
<1>8. PICK known, s, z, u : /\ known = knows.dec /\ s = Size(types) /\ z = trace[s + 1]
                            /\ u = Unmarshalled(types, n)
  OBVIOUS
<1>9. types \in Chained /\ types \in Seq(Implementers)
  BY ChainedAreChains DEF Chained
<1>10. /\ s \in 1..Len(wire) /\ z \in Tags /\ Carries(z, wire[s])
       /\ types = b.types /\ Within(b, z, s - 1) /\ Ends(z)
       /\ n = Contents(types, Number(z))
  <2>1. IsPrefix(Encoding(types, n, known), wire)
    BY <1>7, <1>8
  <2> QED BY <1>1, <1>3, <1>4, <1>5, <1>6, <1>7, <1>8, <1>9, <2>1, MessageRead
<1>11. Consume(s) /\ s \in 0..Len(wire)
  <2>1. Len(Encoding(types, n, known)) = s
    BY <1>8, <1>9, EncodingFacts
  <2>2. Consume(s)
    BY <1>7, <1>8, <2>1
  <2>3. Len(wire) \in Nat
    BY <1>5 DEF TypeOK
  <2> QED BY <1>10, <2>2, <2>3
<1>12. /\ z.types = types /\ z.whole = Len(received) /\ z.half = errors
  BY <1>6, <1>10 DEF Within
<1>13. PICK got, m : got = u.types /\ m = u.n
  OBVIOUS
<1>14. \/ got = z.types /\ m = Contents(z.types, Number(z))
       \/ ToSet(z.types) \cap Values # {} /\ IsPrefix(got, z.types)
  BY <1>8, <1>9, <1>10, <1>12, <1>13, UnmarshalledIsRight
<1>15. InOrder' /\ ReadsStart(z)' /\ errors' = errors
  <2>1. sent' = sent /\ Delivers(got, m, "UnmarshalMsg")
    BY <1>4, <1>7, <1>8, <1>13 DEF sender
  <2>2. /\ z.whole + 1 <= Len(sent)
        /\ sent[z.whole + 1] = [types |-> z.types, n |-> Contents(z.types, Number(z))]
    BY <1>10 DEF Carries
  <2> QED BY <1>5, <1>10, <1>12, <1>14, <2>1, <2>2, OrderGrows
<1>16. ReaderAt(z)'
  BY <1>12, <1>15 DEF ReaderAt
<1> QED BY <1>1, <1>4, <1>5, <1>8, <1>11, <1>15, <1>16, StreamShrinks

LEMMA ReceiverKeepsStream ==
  ASSUME TypeInv, StreamInv, InOrder, Receiver
  PROVE  StreamInv' /\ InOrder'
<1>1. CASE unknown
  <2>1. unknown'
    BY <1>1 DEF Receiver, DecodeNil, DecodeHead, DecodeHeadFails, DecodeKind, DecodeKindFails,
                DecodeUnknown, DecodeBody, UnmarshalMsg
  <2> QED BY <2>1 DEF StreamInv, InOrder
<1>2. CASE ~unknown /\ DecodeUnknown
  <2>1. unknown'
    BY <1>2 DEF DecodeUnknown
  <2> QED BY <2>1 DEF StreamInv, InOrder
<1>3. CASE ~unknown /\ ~DecodeUnknown
  BY <1>3, DecodeNilKeepsStream, DecodeHeadKeepsStream, NoHeadFails, DecodeKindKeepsStream,
     DecodeKindFailsKeepsStream, DecodeBodyKeepsStream, UnmarshalMsgKeepsStream DEF Receiver
<1> QED BY <1>1, <1>2, <1>3
----------------------------------------------------------------------------
\* What comes of it.

\* The sender takes nothing back.
LEMMA SenderKeepsOrder ==
  ASSUME TypeInv, InOrder, Sender
  PROVE  InOrder'
<1>1. /\ received' = received /\ unknown' = unknown
      /\ sent' = sent \/ \E m : sent' = Append(sent, m)
  BY DEF Sender, EncodeMsg, MarshalMsg, EncodeNil, EncodeHead, EncodeKind, EncodeUnknown,
         EncodeBody, Sent, receiver
<1>2. Len(sent) \in Nat /\ Len(received) \in Nat /\ DOMAIN received = 1..Len(received)
  BY DEF TypeInv, TypeOK
<1>3. Len(sent') >= Len(sent) /\ \A i \in 1..Len(sent) : sent'[i] = sent[i]
  <2>1. CASE sent' = sent
    BY <1>2, <2>1
  <2>2. CASE \E m : sent' = Append(sent, m)
    <3>1. PICK m : sent' = Append(sent, m)
      BY <2>2
    <3>2. PICK S : sent \in Seq(S)
      BY DEF TypeInv, TypeOK
    <3>3. sent \in Seq(S \cup {m})
      BY <3>2
    <3> QED BY <1>2, <3>1, <3>3, AppendProperties
  <2> QED BY <1>1, <2>1, <2>2
<1>4. CASE unknown
  BY <1>1, <1>4 DEF InOrder
<1>5. CASE ~unknown
  <2>1. Len(received) <= Len(sent)
    BY <1>5 DEF InOrder
  <2>2. Len(sent') \in Nat
    BY SenderKeepsTypes DEF TypeInv, TypeOK
  <2>3. \A i \in DOMAIN received : sent'[i] = sent[i]
    BY <1>2, <1>3, <2>1
  <2> QED BY <1>1, <1>2, <1>3, <1>5, <2>1, <2>2, <2>3 DEF InOrder
<1> QED BY <1>4, <1>5

LEMMA MapperInvariant == Spec => []MapperInv
<1>1. Init => MapperInv
  <2> SUFFICES ASSUME Init PROVE MapperInv
    OBVIOUS
  <2>1. TypeInv
    BY InitTypes
  <2>2. /\ failed = 0 /\ sent = <<>> /\ wire = <<>> /\ writing = Idle /\ reading = Start
        /\ received = <<>> /\ errors = 0 /\ unknown = FALSE
    BY DEF Init
  <2>3. PICK a : a = [types |-> <<>>, whole |-> -1, half |-> 0, at |-> 1]
    OBVIOUS
  <2>4. PICK trace : trace = <<a>>
    OBVIOUS
  <2>5. a \in Tags
    <3>1. <<>> \in Chained /\ 0 \in Nat /\ 1 \in Nat /\ -1 \in Int
      BY DEF Chained
    <3> QED BY <2>3, <3>1 DEF Tags
  <2>6. Ends(a)
    <3>1. Size(<<>>) = 1
      BY DEF Size, EndsInBody
    <3> QED BY <2>3, <3>1 DEF Ends
  <2>7. Framed(trace)
    <3>1. trace \in Seq(Tags) /\ Len(trace) = 1 /\ trace[1] = a
      BY <2>4, <2>5
    <3>2. Len(wire) = 0 /\ 1..0 = {}
      BY <2>2
    <3> QED BY <2>2, <2>3, <3>1, <3>2 DEF Framed
  <2>8. ReaderAt(a)
    BY <2>2, <2>3, <2>6 DEF ReaderAt, ReadsStart
  <2>9. WriterAt(a)
    BY <2>2, <2>3, <2>6 DEF WriterAt, Idle
  <2>10. trace[1] = a /\ Len(wire) + 1 = 1
    BY <2>2, <2>4
  <2>11. StreamInv
    BY <2>7, <2>8, <2>9, <2>10 DEF StreamInv
  <2>12. InOrder /\ NewerReads
    BY <2>2 DEF InOrder, NewerReads
  <2> QED BY <2>1, <2>11, <2>12 DEF MapperInv
<1>2. MapperInv /\ [Next]_vars => MapperInv'
  <2> SUFFICES ASSUME MapperInv, [Next]_vars PROVE MapperInv'
    OBVIOUS
  <2>1. TypeInv /\ StreamInv /\ InOrder /\ NewerReads
    BY DEF MapperInv
  <2>2. TypeInv'
    BY <2>1, TypesStep
  <2>3. CASE Sender
    <3>1. knows' = knows /\ unknown' = unknown
      BY <2>3 DEF Sender, EncodeMsg, MarshalMsg, EncodeNil, EncodeHead, EncodeKind,
                  EncodeUnknown, EncodeBody, receiver
    <3>2. NewerReads'
      BY <2>1, <3>1 DEF NewerReads
    <3> QED BY <2>1, <2>2, <2>3, <3>2, SenderKeepsStream, SenderKeepsOrder DEF MapperInv
  <2>4. CASE Receiver
    <3>1. knows' = knows /\ (unknown' = unknown \/ DecodeUnknown)
      BY <2>4 DEF Receiver, DecodeNil, DecodeHead, DecodeHeadFails, DecodeKind,
                  DecodeKindFails, DecodeBody, UnmarshalMsg, DecodeUnknown
    <3>2. NewerReads'
      BY <2>1, <3>1, UnknownIsNew DEF NewerReads
    <3> QED BY <2>1, <2>2, <2>4, <3>2, ReceiverKeepsStream DEF MapperInv
  <2>5. CASE UNCHANGED vars
    <3>1. UNCHANGED <<knows, sent, failed, writing, wire, reading, received, errors, unknown>>
      BY <2>5 DEF vars, sender, receiver
    <3>2. StreamInv'
      <4>1. CASE unknown
        BY <3>1, <4>1 DEF StreamInv
      <4>2. CASE ~unknown
        <5>1. PICK trace : Framed(trace) /\ ReaderAt(trace[1]) /\ WriterAt(trace[Len(wire) + 1])
          BY <2>1, <4>2 DEF StreamInv
        <5>2. PICK a, z : a = trace[1] /\ z = trace[Len(wire) + 1]
          OBVIOUS
        <5>3. Framed(trace)'
          BY <3>1, <5>1 DEF Framed, Carries
        <5>4. ReaderAt(a)' /\ WriterAt(z)'
          BY <3>1, <5>1, <5>2 DEF ReaderAt, ReadsStart, ReadsKind, ReadsHead, ReadsBody,
                                  ReadSoFar, WriterAt, Done
        <5>5. ReaderAt(trace[1])' /\ WriterAt(trace[Len(wire) + 1])'
          BY <3>1, <5>2, <5>4
        <5> QED BY <5>3, <5>5 DEF StreamInv
      <4> QED BY <4>1, <4>2
    <3>3. InOrder' /\ NewerReads'
      BY <2>1, <3>1 DEF InOrder, NewerReads
    <3> QED BY <2>2, <3>2, <3>3 DEF MapperInv
  <2> QED BY <2>3, <2>4, <2>5 DEF Next
<1> QED BY <1>1, <1>2, PTL DEF Spec

\* InOrder of every mapper: what EncodeMsg and MarshalMsg write is read back by
\* DecodeMsg and UnmarshalMsg as the same messages, in order and once each,
\* however deep the boxes are, whatever the bodies look like, and whatever
\* EncodeMsg has failed on in between (intercept.go:256-343).
THEOREM MessagesInOrder == Spec => []InOrder
<1>1. MapperInv => InOrder
  BY DEF MapperInv
<1> QED BY <1>1, MapperInvariant, PTL

\* ErrorsExplained of every mapper: DecodeMsg fails once for each message that
\* EncodeMsg has left half written, and for nothing else (intercept.go:262).
THEOREM OneErrorForEachFailure == Spec => []ErrorsExplained
<1>1. MapperInv => ErrorsExplained
  <2> SUFFICES ASSUME MapperInv, ~unknown PROVE errors <= failed
    BY DEF ErrorsExplained
  <2>1. PICK trace : Framed(trace) /\ ReaderAt(trace[1])
    BY DEF MapperInv, StreamInv
  <2> QED BY <2>1 DEF Framed, ReaderAt
<1> QED BY <1>1, MapperInvariant, PTL

\* NewerReads of every mapper: with IDs from one state file, a receiver that
\* knows the types of the sender meets no kind it does not know
\* (intercept.go:195).
THEOREM NewerReceiverKnows == Spec => []NewerReads
<1>1. MapperInv => NewerReads
  BY DEF MapperInv
<1> QED BY <1>1, MapperInvariant, PTL
=============================================================================
