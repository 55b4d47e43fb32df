------------------------------- MODULE Mapper -------------------------------
(***************************************************************************)
(* The code intercept.go generates for an interface: the mapper's methods  *)
(* EncodeMsg, MarshalMsg, DecodeMsg and UnmarshalMsg, used by a sender and *)
(* a receiver at the two ends of a stream.  The two may be of different    *)
(* generations: each knows the types that were implementers when it was    *)
(* generated, with IDs from one state file.                                *)
(*                                                                         *)
(* The wire is a sequence of msgpack objects.  A message is a chain: the   *)
(* body of a box is a value of the interface again, which its own methods  *)
(* hand to the mapper; the chain of nil is empty.  The reader and writer   *)
(* of msgp, and the methods it generates for the types, are external: a    *)
(* read that finds an object of another type fails and leaves it there.    *)
(***************************************************************************)
EXTENDS Integers, Sequences, FiniteSets, SequencesExt

CONSTANTS
  Implementers,  \* the types that implement the interface
  Boxes,         \* those with a field of the interface's type
  Values,        \* those that are structs, not pointers to structs
  ID,            \* the ID of each in the state file
  BodyOf,        \* what msgp writes for each that is no box: kinds of objects,
                 \* the last of which stands for the contents
  Shapes,        \* bound: the chains that are sent
  Generations,   \* the sets of types that a mapper may have been made with
  MaxMessages,   \* bound: messages sent, good and bad
  MaxErrors,     \* bound: errors the receiver sees
  NotANumber     \* a string that is no number

ASSUME ImplementersAssumption ==
  /\ Boxes \cup Values \subseteq Implementers
  /\ ID \in [Implementers -> Int]
  /\ \A t, u \in Implementers : ID[t] = ID[u] => t = u
  /\ NotANumber \notin Int
  /\ BodyOf \in [Implementers \ Boxes -> Seq({"arr2", "arr3", "str", "num", "val"})]
  /\ \A t \in Implementers \ Boxes : BodyOf[t] # <<>> /\ Last(BodyOf[t]) = "val"
  /\ Shapes \subseteq Seq(Implementers)
  /\ \A types \in Shapes : \A i \in 1..(Len(types) - 1) : types[i] \in Boxes
  /\ Generations \subseteq SUBSET Implementers
  /\ MaxMessages \in Nat
  /\ MaxErrors \in Nat

VARIABLES
  knows,     \* the types in the mapper of the sender and of the receiver
  sent,      \* the messages whose encoding succeeded
  failed,    \* how many EncodeMsg failed on
  writing,   \* where EncodeMsg is, and what is left of the chain
  wire,      \* what is written and not yet read
  reading,   \* where DecodeMsg is, and the chain so far
  received,  \* what the receiver got, and by which method
  errors,    \* how many calls of DecodeMsg failed
  unknown    \* whether one of them met an unknown kind

sender == <<sent, failed, writing>>
receiver == <<reading, received, errors, unknown>>
vars == <<knows, sender, wire, receiver>>

Nil == [is |-> "nil"]
Array(n) == [is |-> "arr", n |-> n]
String(n) == [is |-> "str", n |-> n]
Value(n) == [is |-> "val", n |-> n]

Objects ==
  {Nil, Array(2), Array(3)} \cup {Value(n) : n \in 1..MaxMessages}
    \cup {String(n) : n \in {ID[t] : t \in Implementers} \cup {NotANumber}}

\* Bug: kinds are numbered anew by each generation, in the order of the IDs.
KindAnew(t, known) == String(Cardinality({u \in known : ID[u] <= ID[t]}))

\* Bug: the same, from zero.
KindAnewFromZero(t, known) == String(Cardinality({u \in known : ID[u] < ID[t]}))

\* case {{.ImportName}}: en.WriteString("{{.ID}}")
Kind(t, known) == String(ID[t])

\* The types that the case of a kind stands for: one, or none.
KindsOf(object, known) == {t \in known : Kind(t, known) = object}

\* The body of a type without an interface field; a struct written as a tuple
\* looks like the array the mapper writes.
Body(t, n) ==
  LET Object(k) == CASE k = "arr2" -> Array(2)
                     [] k = "arr3" -> Array(3)
                     [] k = "str" -> String(NotANumber)
                     [] k = "num" -> String(CHOOSE i \in {ID[u] : u \in Implementers} : TRUE)
                     [] k = "val" -> Value(n)
  IN [i \in DOMAIN BodyOf[t] |-> Object(BodyOf[t][i])]

Idle == [pc |-> "idle", rest |-> <<>>, types |-> <<>>]
Start == [pc |-> "head", types |-> <<>>]

Init ==
  /\ knows \in [enc : Generations, dec : Generations]
  /\ sent = <<>> /\ failed = 0 /\ writing = Idle
  /\ wire = <<>>
  /\ reading = Start /\ received = <<>> /\ errors = 0 /\ unknown = FALSE
----------------------------------------------------------------------------
\* The sender.

Message == Len(sent) + failed + 1

Write(objects) == wire' = wire \o objects

\* Whether a chain ends with a type that has contents, and not with nil.
EndsInBody(types) == types # <<>> /\ Last(types) \notin Boxes

Contents(types, n) == IF EndsInBody(types) THEN n ELSE 0

Sent(types) ==
  /\ sent' = Append(sent, [types |-> types, n |-> Contents(types, Message)])
  /\ writing' = Idle
  /\ UNCHANGED failed

EncodeMsg(types) ==
  /\ writing = Idle
  /\ Message <= MaxMessages
  /\ writing' = [pc |-> "head", rest |-> types, types |-> types]
  /\ UNCHANGED <<knows, sent, failed, wire, receiver>>

EncodeNil ==
  /\ writing.pc = "head"
  /\ writing.rest = <<>>
  /\ Write(<<Nil>>)
  /\ Sent(writing.types)
  /\ UNCHANGED <<knows, receiver>>

\* The header is written before the type is looked at.
EncodeHead ==
  /\ writing.pc = "head"
  /\ writing.rest # <<>>
  /\ Write(<<Array(2)>>)
  /\ writing' = [writing EXCEPT !.pc = "kind"]
  /\ UNCHANGED <<knows, sent, failed, receiver>>

\* switch t := t.(type), and the call of t.EncodeMsg, which for a box is the
\* way back to the mapper.
EncodeKind ==
  LET t == Head(writing.rest)
  IN /\ writing.pc = "kind"
     /\ t \in knows.enc
     /\ Write(<<Kind(t, knows.enc)>>)
     /\ writing' = [writing EXCEPT !.pc = IF t \in Boxes THEN "head" ELSE "body",
                                   !.rest = Tail(@)]
     /\ UNCHANGED <<knows, sent, failed, receiver>>

\* Bug: the error of the switch is not returned, and the body is written.
EncodeUnknownBody ==
  LET t == Head(writing.rest)
  IN /\ writing.pc = "kind"
     /\ t \notin knows.enc \cup Boxes
     /\ failed' = failed + 1
     /\ writing' = Idle
     /\ Write(Body(t, Message))
     /\ UNCHANGED <<knows, sent, receiver>>

\* Bug: the kind is written before the type is looked at.
EncodeUnknownKind ==
  LET t == Head(writing.rest)
  IN /\ writing.pc = "kind"
     /\ t \notin knows.enc
     /\ failed' = failed + 1
     /\ writing' = Idle
     /\ Write(<<Kind(t, knows.enc)>>)
     /\ UNCHANGED <<knows, sent, receiver>>

\* default: the error leaves on the wire what has been written.
EncodeUnknown ==
  /\ writing.pc = "kind"
  /\ Head(writing.rest) \notin knows.enc
  /\ failed' = failed + 1
  /\ writing' = Idle
  /\ UNCHANGED <<knows, sent, wire, receiver>>

EncodeBody ==
  /\ writing.pc = "body"
  /\ Write(Body(Last(writing.types), Message))
  /\ Sent(writing.types)
  /\ UNCHANGED <<knows, receiver>>

\* A whole message, as a mapper that knows these types writes it.
Encoding(types, n, known) ==
  [i \in 1..(2 * Len(types)) |->
     IF i % 2 = 1 THEN Array(2) ELSE Kind(types[i \div 2], known)]
    \o (IF EndsInBody(types) THEN Body(Last(types), n) ELSE <<Nil>>)

\* MarshalMsg appends to a slice, which its caller writes if there is no error
\* and drops if there is one.
MarshalMsg(types) ==
  /\ writing = Idle
  /\ Message <= MaxMessages
  /\ ToSet(types) \subseteq knows.enc
  /\ Write(Encoding(types, Message, knows.enc))
  /\ Sent(types)
  /\ UNCHANGED <<knows, receiver>>

Sender ==
  \/ \E types \in Shapes : EncodeMsg(types) \/ MarshalMsg(types)
  \/ EncodeNil \/ EncodeHead \/ EncodeKind \/ EncodeUnknown \/ EncodeBody
----------------------------------------------------------------------------
\* The receiver: a caller that goes on after an error.

Reads(pc) == reading.pc = pc /\ wire # <<>> /\ errors < MaxErrors

\* The first n objects of the wire are read.
Consume(n) == wire' = SubSeq(wire, n + 1, Len(wire))

Fails ==
  /\ errors' = errors + 1
  /\ reading' = Start
  /\ UNCHANGED received

Delivers(types, n, method) ==
  /\ received' = Append(received, [types |-> types, n |-> n, by |-> method])
  /\ reading' = Start
  /\ UNCHANGED errors

DecodeNil ==
  /\ Reads("head")
  /\ Head(wire) = Nil
  /\ Consume(1)
  /\ Delivers(reading.types, 0, "DecodeMsg")
  /\ UNCHANGED <<knows, sender, unknown>>

DecodeHead ==
  /\ Reads("head")
  /\ Head(wire) = Array(2)
  /\ Consume(1)
  /\ reading' = [reading EXCEPT !.pc = "kind"]
  /\ UNCHANGED <<knows, sender, received, errors, unknown>>

\* An array of another size is read and refused; anything else stays there.
DecodeHeadFails ==
  /\ Reads("head")
  /\ Head(wire) \notin {Nil, Array(2)}
  /\ Consume(IF Head(wire).is = "arr" THEN 1 ELSE 0)
  /\ Fails
  /\ UNCHANGED <<knows, sender, unknown>>

DecodeKind ==
  /\ Reads("kind")
  /\ \E t \in KindsOf(Head(wire), knows.dec) :
       /\ Consume(1)
       /\ reading' = [pc |-> IF t \in Boxes THEN "head" ELSE "body",
                      types |-> Append(reading.types, t)]
  /\ UNCHANGED <<knows, sender, received, errors, unknown>>

\* Bug: what is found in the place of the kind is skipped.
DecodeKindSkips ==
  /\ Reads("kind")
  /\ Head(wire).is # "str"
  /\ Consume(1)
  /\ Fails
  /\ UNCHANGED <<knows, sender, unknown>>

\* No string, or a string that ParseInt refuses.
DecodeKindFails ==
  /\ Reads("kind")
  /\ Head(wire).is # "str" \/ Head(wire) = String(NotANumber)
  /\ Consume(IF Head(wire).is = "str" THEN 1 ELSE 0)
  /\ Fails
  /\ UNCHANGED <<knows, sender, unknown>>

\* default: the body of the message is left on the wire.
DecodeUnknown ==
  /\ Reads("kind")
  /\ Head(wire).is = "str"
  /\ Head(wire) # String(NotANumber)
  /\ KindsOf(Head(wire), knows.dec) = {}
  /\ Consume(1)
  /\ unknown' = TRUE
  /\ Fails
  /\ UNCHANGED <<knows, sender>>

\* v.DecodeMsg(dc) reads object after object and stops at one of another type.
DecodeBody ==
  LET t == Last(reading.types)
      body == Body(t, 1)
      Matches(n) == \A i \in 1..n : wire[i].is = body[i].is
  IN /\ Reads("body")
     /\ IF Len(wire) >= Len(body) /\ Matches(Len(body))
          THEN /\ Consume(Len(body))
               /\ Delivers(reading.types, wire[Len(body)].n, "DecodeMsg")
          ELSE \E n \in 0..(Len(body) - 1) :
                 /\ Matches(n) /\ n < Len(wire) /\ ~Matches(n + 1)
                 /\ Consume(n)
                 /\ Fails
     /\ UNCHANGED <<knows, sender, unknown>>

\* UnmarshalMsg puts the value in the result before it is decoded: of a struct
\* that is no pointer, the result is the empty one.
Unmarshalled(types, n) ==
  LET copies == {i \in DOMAIN types : types[i] \in Values}
      first == CHOOSE i \in copies : \A j \in copies : i <= j
  IN IF copies = {} THEN [types |-> types, n |-> n]
     ELSE [types |-> SubSeq(types, 1, first), n |-> 0]

\* UnmarshalMsg on what is there.  Its caller keeps the slice if it fails.
UnmarshalMsg ==
  /\ Reads("head")
  /\ reading = Start
  /\ \E types \in Shapes, n \in 0..MaxMessages :
       LET bytes == Encoding(types, n, knows.dec)
           result == Unmarshalled(types, n)
       IN /\ ToSet(types) \subseteq knows.dec
          /\ (n = 0) = ~EndsInBody(types)
          /\ IsPrefix(bytes, wire)
          /\ Consume(Len(bytes))
          /\ Delivers(result.types, result.n, "UnmarshalMsg")
  /\ UNCHANGED <<knows, sender, unknown>>

Receiver ==
  \/ DecodeNil \/ DecodeHead \/ DecodeHeadFails
  \/ DecodeKind \/ DecodeKindFails \/ DecodeUnknown \/ DecodeBody
  \/ UnmarshalMsg

Next == Sender \/ Receiver

Spec == Init /\ [][Next]_vars /\ WF_vars(Sender) /\ WF_vars(Receiver)
----------------------------------------------------------------------------
Chains == Seq(Implementers)

TypeOK ==
  /\ knows \in [enc : Generations, dec : Generations]
  /\ sent \in Seq([types : Shapes, n : 0..MaxMessages])
  /\ failed \in 0..MaxMessages
  /\ writing \in [pc : {"idle", "head", "kind", "body"}, rest : Chains, types : Chains]
  /\ wire \in Seq(Objects)
  /\ reading \in [pc : {"head", "kind", "body"}, types : Chains]
  /\ received \in
       Seq([types : Chains, n : 0..MaxMessages, by : {"DecodeMsg", "UnmarshalMsg"}])
  /\ errors \in 0..MaxErrors
  /\ unknown \in BOOLEAN

\* What one end sends the other gets, in that order, each message once and
\* whole, whichever methods are used and whatever EncodeMsg fails on in between;
\* until the receiver meets a kind it does not know.  intercept.go:244 excepts
\* UnmarshalMsg of a value: it is cut off where the value would begin.
InOrder ==
  ~unknown =>
    /\ Len(received) <= Len(sent)
    /\ \A i \in DOMAIN received :
         LET got == received[i]
             was == sent[i]
         IN \/ got.types = was.types /\ got.n = was.n
            \/ /\ got.by = "UnmarshalMsg"
               /\ ToSet(was.types) \cap Values # {}
               /\ IsPrefix(got.types, was.types)

\* The half of a message that a failed EncodeMsg leaves behind (intercept.go:262)
\* costs the receiver one error and no message that was sent in full.
ErrorsExplained == ~unknown => errors <= failed

\* A receiver that was generated with all the types of the sender never meets
\* an unknown kind (intercept.go:195), even after half a message, and however
\* much the body of a struct looks like a message.
NewerReads == knows.enc \subseteq knows.dec => ~unknown

\* Nothing that was sent is kept from the receiver: no half message makes it
\* wait, or refuse, for ever.
AllDelivered == []<>(unknown \/ Len(received) = Len(sent))
=============================================================================
