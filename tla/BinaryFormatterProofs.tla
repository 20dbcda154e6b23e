----------------------- MODULE BinaryFormatterProofs -----------------------
(***************************************************************************)
(* Theorems about BinaryFormatter, for every heap, on every pair of        *)
(* machines: what is deserialised is what was serialised.                  *)
(*                                                                         *)
(* What write_object is to have written is stated without its calls: the   *)
(* triple <<o, i, b>> is chunked if b are the chunks of the properties 1   *)
(* to i of object o, that of property i foremost.  The invariant of        *)
(* writing says that each call has written such chunks, that of reading    *)
(* that each call has such chunks before it and that its object is a copy  *)
(* but for the properties they are of.                                     *)
(***************************************************************************)
EXTENDS FrameLemmas

Size(objects, o) == Len(objects[o].props)
PropertyName(objects, o, i) == Classes[objects[o].class][i].name

\* No property between j and i has a frame.
Skips(objects, o, j, i) == \A k \in j + 1..i - 1 : ~Storable(objects[o].props[k])

\* f is the frame of v, if the chunks of objects are those of S.
IsFrame(objects, m, S, v, f) ==
  /\ f \in Seq(Nat) /\ f # <<>> /\ Len(f) <= MaxLength
  /\ IF IsObject(v)
     THEN \E i, total \in Nat : \E b \in Seq(Nat) :
            /\ <<v.ref, i, b>> \in S /\ Skips(objects, v.ref, i, Size(objects, v.ref) + 1)
            /\ f = WriteObject(objects[v.ref].class, b, total)
     ELSE Storable(v) /\ f = WriteScalar(v, m)

\* b is a chunk for property i of o, and those of the properties before it.
Justified(objects, m, S, o, i, b) ==
  \/ i = 0 /\ b = <<>>
  \/ /\ i \in 1..Size(objects, o)
     /\ \E j \in 0..i - 1 : \E c \in Seq(Nat) : \E f \in Seq(Nat) :
          /\ <<o, j, c>> \in S /\ Skips(objects, o, j, i)
          /\ IsFrame(objects, m, S, objects[o].props[i], f)
          /\ b = Chunk(PropertyName(objects, o, i), f) \o c

Triples(objects) == (1..Len(objects)) \X Nat \X Seq(Nat)
Traces(objects, m) ==
  {S \in SUBSET Triples(objects) : \A t \in S : Justified(objects, m, S, t[1], t[2], t[3])}
Chunked(objects, m) == UNION Traces(objects, m)

\* Chunks remain so where there are more.
LEMMA MoreChunks ==
  ASSUME NEW objects, NEW m, NEW S, NEW T, S \subseteq T, NEW o, NEW i, NEW b, Justified(objects, m, S, o, i, b)
  PROVE  Justified(objects, m, T, o, i, b)
<1>1. ASSUME NEW v, NEW f, IsFrame(objects, m, S, v, f) PROVE IsFrame(objects, m, T, v, f)
  BY <1>1, Zenon DEF IsFrame
<1>2. CASE i = 0 /\ b = <<>>
  BY <1>2, Zenon DEF Justified
<1>3. CASE ~(i = 0 /\ b = <<>>)
  <2>1. PICK j \in 0..i - 1, c \in Seq(Nat), f \in Seq(Nat) :
          /\ <<o, j, c>> \in S /\ Skips(objects, o, j, i)
          /\ IsFrame(objects, m, S, objects[o].props[i], f)
          /\ b = Chunk(PropertyName(objects, o, i), f) \o c
    BY <1>3, Zenon DEF Justified
  <2>2. i \in 1..Size(objects, o)
    BY <1>3, Zenon DEF Justified
  <2> QED BY <1>1, <2>1, <2>2, Zenon DEF Justified
<1> QED BY <1>2, <1>3

\* All chunks have a reason.
LEMMA ChunkedElim ==
  ASSUME NEW objects, NEW m, NEW o, NEW i, NEW b, <<o, i, b>> \in Chunked(objects, m)
  PROVE  /\ o \in 1..Len(objects) /\ i \in Nat /\ b \in Seq(Nat)
         /\ Justified(objects, m, Chunked(objects, m), o, i, b)
<1>1. PICK S \in Traces(objects, m) : <<o, i, b>> \in S
  BY DEF Chunked
<1>2. S \subseteq Triples(objects) /\ S \subseteq Chunked(objects, m)
  BY DEF Traces, Chunked
<1>3. Justified(objects, m, S, o, i, b)
  BY <1>1 DEF Traces
<1>4. o \in 1..Len(objects) /\ i \in Nat /\ b \in Seq(Nat)
  BY <1>1, <1>2 DEF Triples
<1> QED BY <1>2, <1>3, <1>4, MoreChunks, Zenon

\* What has a reason is chunked.
LEMMA ChunkedIntro ==
  ASSUME NEW objects, NEW m, NEW o \in 1..Len(objects), NEW i \in Nat, NEW b \in Seq(Nat),
         Justified(objects, m, Chunked(objects, m), o, i, b)
  PROVE  <<o, i, b>> \in Chunked(objects, m)
<1> DEFINE C == Chunked(objects, m)
           S == C \cup {<<o, i, b>>}
<1>1. S \in SUBSET Triples(objects)
  <2>1. C \subseteq Triples(objects)
    BY DEF Chunked, Traces
  <2>2. <<o, i, b>> \in Triples(objects)
    BY DEF Triples
  <2> QED BY <2>1, <2>2
<1>2. ASSUME NEW t \in S PROVE Justified(objects, m, S, t[1], t[2], t[3])
  <2>1. Justified(objects, m, C, t[1], t[2], t[3])
    <3>1. CASE t \in C
      <4>1. PICK T \in Traces(objects, m) : t \in T
        BY <3>1 DEF Chunked
      <4>2. Justified(objects, m, T, t[1], t[2], t[3]) /\ T \subseteq C
        BY <4>1 DEF Traces, Chunked
      <4> HIDE DEF C
      <4> QED BY <4>2, MoreChunks, Zenon
    <3>2. CASE t = <<o, i, b>>
      BY <3>2
    <3> QED BY <3>1, <3>2
  <2> HIDE DEF C
  <2>2. C \subseteq S
    OBVIOUS
  <2> HIDE DEF S
  <2> QED BY <2>1, <2>2, MoreChunks, Zenon
<1>3. S \in Traces(objects, m)
  BY <1>1, <1>2 DEF Traces
<1> QED BY <1>3 DEF Chunked

-----------------------------------------------------------------------------
\* What a sequence has.
LEMMA ElementOf == ASSUME NEW R, NEW s \in Seq(R), NEW i \in 1..Len(s) PROVE s[i] \in R
OBVIOUS

LEMMA LengthOf == ASSUME NEW R, NEW s \in Seq(R) PROVE Len(s) \in Nat
OBVIOUS

\* What a heap has.
LEMMA HeapObject ==
  ASSUME NEW objects, IsHeap(objects), NEW o \in 1..Len(objects)
  PROVE  /\ Len(objects) \in Nat /\ objects[o].class \in DOMAIN Classes /\ IsName(objects[o].class)
         /\ Size(objects, o) \in Nat /\ Size(objects, o) = Len(Classes[objects[o].class])
         /\ objects[o].props \in Seq(GValue) /\ DOMAIN objects[o].props = 1..Size(objects, o)
         /\ Properties(objects[o]) = Classes[objects[o].class]
<1>1. objects \in Seq([class : DOMAIN Classes, props : Seq(GValue)])
  BY DEF IsHeap
<1>2. objects[o] \in [class : DOMAIN Classes, props : Seq(GValue)]
  BY <1>1, ElementOf, Zenon
<1>3. Len(objects[o].props) = Len(Properties(objects[o]))
  BY DEF IsHeap
<1> QED BY <1>1, <1>2, <1>3, ClassAssumption DEF Size, Properties

\* And its properties.
LEMMA HeapProperty ==
  ASSUME NEW objects, IsHeap(objects), NEW o \in 1..Len(objects), NEW i \in 1..Size(objects, o)
  PROVE  /\ IsGValue(objects[o].props[i], Len(objects)) /\ IsName(PropertyName(objects, o, i))
         /\ objects[o].props[i].type = Classes[objects[o].class][i].type
         /\ \A j \in 1..Size(objects, o) : PropertyName(objects, o, i) = PropertyName(objects, o, j) => i = j
<1>1. /\ IsGValue(objects[o].props[i], Len(objects))
      /\ objects[o].props[i].type = Properties(objects[o])[i].type
  BY DEF IsHeap, Size
<1>2. objects[o].class \in DOMAIN Classes /\ Size(objects, o) = Len(Classes[objects[o].class])
  BY HeapObject, Zenon
<1> QED BY <1>1, <1>2, ClassAssumption DEF PropertyName, Properties

\* A GValue that refers to an object, and one that does not.
LEMMA References ==
  ASSUME NEW n \in Nat, NEW v, IsGValue(v, n)
  PROVE  /\ IsObject(v) => v.ref \in 1..n /\ v.type = "OBJECT" /\ Storable(v)
         /\ ~IsObject(v) /\ Storable(v) => v.type \in DOMAIN TypeId /\ v.type # "OBJECT"
         /\ ~IsObject(v) /\ ~Storable(v) => \A m : WriteScalar(v, m) = Failed
<1>1. IsObject(v) => v.ref \in 1..n /\ v.type = "OBJECT" /\ Storable(v)
  <2> SUFFICES ASSUME IsObject(v) PROVE v.ref \in 1..n /\ v.type = "OBJECT" /\ Storable(v)
    OBVIOUS
  <2>1. v.type = "OBJECT" /\ v # NullObject
    BY DEF IsObject
  <2>2. v \in GValue /\ v.bytes = <<>> /\ v.ref <= n
    BY <2>1 DEF IsGValue
  <2>3. v = Object(v.ref) /\ v.ref \in Nat
    BY <2>1, <2>2 DEF GValue, Object
  <2>4. v.ref # 0
    BY <2>1, <2>3 DEF NullObject
  <2>5. CanSerialize(v.type)
    BY <2>1, Ids DEF CanSerialize
  <2> QED BY <2>1, <2>2, <2>3, <2>4, <2>5 DEF Storable
<1>2. ~IsObject(v) /\ Storable(v) => v.type \in DOMAIN TypeId /\ v.type # "OBJECT"
  BY DEF IsObject, Storable, CanSerialize
<1>3. ~IsObject(v) /\ ~Storable(v) => \A m : WriteScalar(v, m) = Failed
  <2> SUFFICES ASSUME ~IsObject(v), ~Storable(v), NEW m PROVE WriteScalar(v, m) = Failed
    OBVIOUS
  <2>1. v.type = "OBJECT" \/ v.type \notin DOMAIN TypeId
    BY DEF Storable, CanSerialize, IsObject, NullObject, Object
  <2>2. v.type \notin {"STRING", "BOOLEAN", "CHAR", "UCHAR", "INT", "UINT", "LONG", "ULONG", "INT64", "UINT64"} \cup Real
    BY <2>1, Ids DEF Real
  <2> QED BY <2>2 DEF WriteScalar
<1> QED BY <1>1, <1>2, <1>3

\* What write_value writes of anything but an object is its frame.
LEMMA ScalarIsFrame ==
  ASSUME NEW objects, NEW n \in Nat, NEW v, IsGValue(v, n), ~IsObject(v), Storable(v), NEW m \in Machine, NEW S
  PROVE  IsFrame(objects, m, S, v, WriteScalar(v, m))
BY References, ScalarFrame, Zenon DEF IsFrame

\* No chunks, and one more.
LEMMA NoChunks ==
  ASSUME NEW objects, NEW m, NEW o \in 1..Len(objects)
  PROVE  <<o, 0, <<>> >> \in Chunked(objects, m)
<1>1. <<>> \in Seq(Nat) /\ 0 \in Nat
  OBVIOUS
<1> QED BY <1>1, ChunkedIntro, Zenon DEF Justified

LEMMA OneMore ==
  ASSUME NEW objects, IsHeap(objects), NEW m, NEW o \in 1..Len(objects), NEW n \in 1..Size(objects, o),
         NEW i \in 0..n - 1, NEW b, <<o, i, b>> \in Chunked(objects, m), Skips(objects, o, i, n),
         NEW f, IsFrame(objects, m, Chunked(objects, m), objects[o].props[n], f)
  PROVE  <<o, n, Chunk(PropertyName(objects, o, n), f) \o b>> \in Chunked(objects, m)
<1>1. b \in Seq(Nat)
  BY ChunkedElim, Zenon
<1>2. f \in Seq(Nat) /\ f # <<>> /\ Len(f) <= MaxLength
  BY Zenon DEF IsFrame
<1>3. IsName(PropertyName(objects, o, n))
  BY HeapProperty, Zenon
<1>4. Chunk(PropertyName(objects, o, n), f) \in Seq(Nat)
  BY <1>2, <1>3, Chunks, Zenon
<1>5. Chunk(PropertyName(objects, o, n), f) \o b \in Seq(Nat)
  BY <1>1, <1>4, Together, Zenon
<1>6. n \in Nat
  BY HeapObject
<1> QED BY <1>1, <1>2, <1>5, <1>6, ChunkedIntro, Zenon DEF Justified
-----------------------------------------------------------------------------
(***************************************************************************)
(* The calls under way: one more, one less, and another in place of the    *)
(* innermost.                                                              *)
(***************************************************************************)
LEMMA Pushed ==
  ASSUME NEW R, NEW s \in Seq(R), NEW e \in R
  PROVE  /\ Append(s, e) \in Seq(R) /\ Append(s, e) # <<>> /\ Len(Append(s, e)) = Len(s) + 1
         /\ Append(s, e)[Len(s) + 1] = e /\ Last(Append(s, e)) = e
         /\ \A i \in 1..Len(s) : Append(s, e)[i] = s[i]
BY DEF Last

LEMMA Popped ==
  ASSUME NEW R, NEW s \in Seq(R), s # <<>>
  PROVE  /\ Len(s) \in Nat /\ Len(s) > 0 /\ Last(s) = s[Len(s)] /\ Last(s) \in R
         /\ Front(s) \in Seq(R) /\ Len(Front(s)) = Len(s) - 1
         /\ \A i \in 1..Len(s) - 1 : Front(s)[i] = s[i]
<1>1. Len(s) \in Nat /\ Len(s) > 0 /\ Last(s) = s[Len(s)] /\ Last(s) \in R
  BY DEF Last
<1>2. /\ Front(s) \in Seq(R) /\ Len(Front(s)) = Len(s) - 1
      /\ \A i \in 1..Len(s) - 1 : Front(s)[i] = s[i]
  <2> DEFINE n == Len(s) - 1
  <2>1. n \in Nat /\ n <= Len(s) /\ 1 \in 1..n + 1 /\ Front(s) = SubSeq(s, 1, n)
    BY <1>1 DEF Front
  <2>2. \A i \in 1..n : 1 + i - 1 = i /\ i \in 1..Len(s)
    BY <1>1
  <2> HIDE DEF n
  <2>3. SubSeq(s, 1, n) \in Seq(R) /\ Len(SubSeq(s, 1, n)) = n /\ \A i \in 1..n : SubSeq(s, 1, n)[i] = s[i]
    BY <2>1, <2>2
  <2> QED BY <2>1, <2>3 DEF n
<1> QED BY <1>1, <1>2

LEMMA Replaced ==
  ASSUME NEW R, NEW s \in Seq(R), s # <<>>, NEW e \in R
  PROVE  LET t == Append(Front(s), e) IN
         /\ t \in Seq(R) /\ t # <<>> /\ Len(t) = Len(s) /\ t[Len(s)] = e
         /\ \A i \in 1..Len(s) - 1 : t[i] = s[i]
<1> DEFINE f == Front(s)
<1>1. Len(s) \in Nat /\ Len(s) > 0 /\ f \in Seq(R) /\ Len(f) = Len(s) - 1 /\ \A i \in 1..Len(s) - 1 : f[i] = s[i]
  BY Popped, Zenon
<1> HIDE DEF f
<1> DEFINE t == Append(f, e)
<1>2. t \in Seq(R) /\ t # <<>> /\ Len(t) = Len(f) + 1 /\ t[Len(f) + 1] = e /\ \A i \in 1..Len(f) : t[i] = f[i]
  BY ONLY <1>1, e \in R, Pushed
<1> HIDE DEF t
<1>3. Len(t) = Len(s) /\ t[Len(s)] = e
  BY <1>1, <1>2
<1>4. \A i \in 1..Len(s) - 1 : t[i] = s[i]
  BY <1>1, <1>2
<1> QED BY <1>2, <1>3, <1>4 DEF t, f
-----------------------------------------------------------------------------
WriteCalls(objects) == [object : 1..Len(objects), next : Nat, chunks : Seq(Nat)]

\* A call of write_object has written the properties before the next.
HasWritten(objects, m, call) ==
  /\ call.next \in 1..Size(objects, call.object) + 1
  /\ \E i \in 0..call.next - 1 :
       /\ <<call.object, i, call.chunks>> \in Chunked(objects, m)
       /\ Skips(objects, call.object, i, call.next)

\* Property i of o holds object r.
Refers(objects, o, i, r) == LET v == objects[o].props[i] IN IsObject(v) /\ v.ref = r

(***************************************************************************)
(* The outermost call is for v, each other one for the next property of    *)
(* the object of the call around it.                                       *)
(***************************************************************************)
WriteInv(objects, m, v, calls) ==
  /\ IsObject(v) /\ calls # <<>> /\ calls[1].object = v.ref
  /\ \A k \in 1..Len(calls) : HasWritten(objects, m, calls[k])
  /\ \A k \in 1..Len(calls) - 1 :
       /\ calls[k].next <= Size(objects, calls[k].object)
       /\ Refers(objects, calls[k].object, calls[k].next, calls[k + 1].object)

Grown(objects, call, f) ==
  [call EXCEPT !.next = @ + 1, !.chunks = Chunk(Properties(objects[call.object])[call.next].name, f) \o @]

\* A call that begins.
LEMMA CallBegins ==
  ASSUME NEW objects, IsHeap(objects), NEW m, NEW o \in 1..Len(objects)
  PROVE  /\ WriteCall(o) \in WriteCalls(objects) /\ HasWritten(objects, m, WriteCall(o)) /\ WriteCall(o).object = o
<1>1. WriteCall(o) \in WriteCalls(objects) /\ WriteCall(o).object = o /\ WriteCall(o).next = 1 /\ WriteCall(o).chunks = <<>>
  BY DEF WriteCall, WriteCalls
<1>2. Skips(objects, o, 0, 1) /\ 0 \in 0..1 - 1
  BY DEF Skips
<1>3. 1 \in 1..Size(objects, o) + 1
  BY HeapObject
<1>4. <<o, 0, <<>> >> \in Chunked(objects, m)
  BY NoChunks, Zenon
<1> QED BY <1>1, <1>2, <1>3, <1>4, Zenon DEF HasWritten

\* A call that goes on to the next property.
LEMMA CallGrows ==
  ASSUME NEW objects, IsHeap(objects), NEW m, NEW call \in WriteCalls(objects), HasWritten(objects, m, call),
         call.next <= Size(objects, call.object), NEW f,
         \/ f = Failed /\ ~Storable(objects[call.object].props[call.next])
         \/ IsFrame(objects, m, Chunked(objects, m), objects[call.object].props[call.next], f)
  PROVE  /\ Grown(objects, call, f) \in WriteCalls(objects) /\ HasWritten(objects, m, Grown(objects, call, f))
         /\ Grown(objects, call, f).object = call.object
<1> DEFINE o == call.object
           n == call.next
           b == call.chunks
           name == PropertyName(objects, o, n)
           c == Chunk(name, f) \o b
           call2 == Grown(objects, call, f)
<1>1. o \in 1..Len(objects) /\ n \in Nat /\ b \in Seq(Nat)
  BY DEF WriteCalls
<1>2. n \in 1..Size(objects, o) /\ Size(objects, o) \in Nat
  BY <1>1, HeapObject DEF HasWritten
<1>3. PICK i \in 0..n - 1 : <<o, i, b>> \in Chunked(objects, m) /\ Skips(objects, o, i, n)
  BY Zenon DEF HasWritten
<1>4. call2 = [object |-> o, next |-> n + 1, chunks |-> c]
  <2>1. call2 = [call EXCEPT !.next = n + 1, !.chunks = c]
    BY Zenon DEF Grown, PropertyName, Properties
  <2>2. call = [object |-> o, next |-> n, chunks |-> b]
    BY DEF WriteCalls
  <2> HIDE DEF o, n, b, c, call2
  <2> QED BY <2>1, <2>2
<1> HIDE DEF o, n, b
<1>5. \E j \in 0..n : <<o, j, c>> \in Chunked(objects, m) /\ Skips(objects, o, j, n + 1)
  <2>1. CASE f = Failed /\ ~Storable(objects[o].props[n])
    <3>1. Chunk(name, f) = <<>>
      BY <2>1 DEF Chunk
    <3>2. c = b
      BY <1>1, <3>1
    <3>3. i \in 0..n /\ Skips(objects, o, i, n + 1)
      BY <1>1, <1>3, <2>1 DEF Skips
    <3> QED BY <1>3, <3>2, <3>3, Zenon
  <2>2. CASE IsFrame(objects, m, Chunked(objects, m), objects[o].props[n], f)
    <3>1. <<o, n, c>> \in Chunked(objects, m)
      BY <1>1, <1>2, <1>3, <2>2, OneMore, Zenon
    <3>2. n \in 0..n /\ Skips(objects, o, n, n + 1)
      BY <1>1 DEF Skips
    <3> QED BY <3>1, <3>2, Zenon
  <2> QED BY <2>1, <2>2, Zenon DEF o, n
<1> HIDE DEF c, call2
<1>6. c \in Seq(Nat)
  BY <1>5, ChunkedElim, Zenon
<1>7. call2 \in WriteCalls(objects) /\ call2.object = o /\ call2.next = n + 1 /\ call2.chunks = c
  BY <1>1, <1>4, <1>6 DEF WriteCalls
<1>8. n + 1 \in 1..Size(objects, o) + 1 /\ (n + 1) - 1 = n
  BY <1>2
<1>9. HasWritten(objects, m, call2)
  BY <1>5, <1>7, <1>8, Zenon DEF HasWritten
<1> QED BY <1>7, <1>9 DEF call2, o

\* The outermost call.
LEMMA WriteBegins ==
  ASSUME NEW objects, IsHeap(objects), NEW m, NEW v, IsGValue(v, Len(objects)), IsObject(v)
  PROVE  LET calls == <<WriteCall(v.ref)>> IN calls \in Seq(WriteCalls(objects)) /\ WriteInv(objects, m, v, calls)
<1> DEFINE call == WriteCall(v.ref)
<1>1. Len(objects) \in Nat
  BY Zenon, LengthOf DEF IsHeap
<1>2. v.ref \in 1..Len(objects)
  BY <1>1, References, Zenon
<1>3. call \in WriteCalls(objects) /\ HasWritten(objects, m, call) /\ call.object = v.ref
  BY <1>2, CallBegins, Zenon
<1> HIDE DEF call
<1>4. <<call>> \in Seq(WriteCalls(objects)) /\ Len(<<call>>) = 1 /\ <<call>>[1] = call /\ <<call>> # <<>>
  BY <1>3
<1>5. \A k \in 1..Len(<<call>>) : <<call>>[k] = call
  BY <1>4
<1>6. 1..Len(<<call>>) - 1 = {}
  BY <1>4
<1>7. WriteInv(objects, m, v, <<call>>)
  BY <1>3, <1>4, <1>5, <1>6, ZenonT(40) DEF WriteInv
<1> QED BY <1>4, <1>7 DEF call

\* A call for the object that the next property holds.
LEMMA WriteDown ==
  ASSUME NEW objects, IsHeap(objects), NEW m, NEW v, NEW calls \in Seq(WriteCalls(objects)), WriteInv(objects, m, v, calls),
         Last(calls).next <= Size(objects, Last(calls).object),
         IsObject(objects[Last(calls).object].props[Last(calls).next])
  PROVE  LET more == Append(calls, WriteCall(objects[Last(calls).object].props[Last(calls).next].ref)) IN
         more \in Seq(WriteCalls(objects)) /\ WriteInv(objects, m, v, more)
<1> DEFINE call == Last(calls)
           w == objects[call.object].props[call.next]
           r == w.ref
           next == WriteCall(r)
           more == Append(calls, next)
           n == Len(calls)
<1>1. calls # <<>> /\ HasWritten(objects, m, call) /\ call \in WriteCalls(objects) /\ call = calls[n] /\ n \in Nat /\ n > 0
  <2>1. calls # <<>>
    BY Zenon DEF WriteInv
  <2>2. n \in Nat /\ n > 0 /\ call = calls[n] /\ call \in WriteCalls(objects)
    BY <2>1, Popped, Zenon
  <2>3. n \in 1..n
    BY <2>2
  <2> QED BY <2>1, <2>2, <2>3, Zenon DEF WriteInv
<1>2. call.object \in 1..Len(objects) /\ call.next \in 1..Size(objects, call.object)
  <2>1. call.object \in 1..Len(objects) /\ call.next \in Nat
    BY <1>1 DEF WriteCalls
  <2>2. Size(objects, call.object) \in Nat
    BY <2>1, HeapObject, Zenon
  <2>3. call.next \in 1..Size(objects, call.object) + 1
    BY <1>1, Zenon DEF HasWritten
  <2> HIDE DEF call
  <2> QED BY <2>1, <2>2, <2>3 DEF call
<1>3. r \in 1..Len(objects)
  BY <1>2, HeapProperty, HeapObject, References, Zenon
<1>4. next \in WriteCalls(objects) /\ HasWritten(objects, m, next) /\ next.object = r
  BY <1>3, CallBegins, Zenon
<1>5. Refers(objects, call.object, call.next, r)
  BY Zenon DEF Refers
<1> HIDE DEF call, r, next
<1>6. /\ more \in Seq(WriteCalls(objects)) /\ more # <<>> /\ Len(more) = n + 1
      /\ more[n + 1] = next /\ \A i \in 1..n : more[i] = calls[i]
  <2> DEFINE R == WriteCalls(objects)
  <2>1. calls \in Seq(R) /\ next \in R
    BY <1>4
  <2> HIDE DEF R
  <2>2. /\ more \in Seq(R) /\ more # <<>> /\ Len(more) = n + 1
        /\ more[n + 1] = next /\ \A i \in 1..n : more[i] = calls[i]
    BY ONLY <2>1, Pushed
  <2> QED BY <2>2 DEF R
<1> HIDE DEF more, n
<1>7. /\ more[1].object = v.ref
      /\ \A k \in 1..Len(more) : HasWritten(objects, m, more[k])
  <2>1. 1 \in 1..n /\ \A k \in 1..Len(more) : k \in 1..n \/ k = n + 1
    BY <1>1, <1>6
  <2> QED BY <1>4, <1>6, <2>1, Zenon DEF WriteInv, n
<1>8. ASSUME NEW k \in 1..Len(more) - 1
      PROVE  /\ more[k].next <= Size(objects, more[k].object)
             /\ Refers(objects, more[k].object, more[k].next, more[k + 1].object)
  <2>1. CASE k = n
    <3>1. n \in 1..n
      BY <1>1
    <3>2. more[k] = call /\ more[k + 1] = next
      BY <1>1, <1>6, <2>1, <3>1, Zenon
    <3> QED BY <1>4, <1>5, <3>2, Zenon DEF call
  <2>2. CASE k # n
    <3>1. k \in 1..n - 1 /\ k \in 1..n /\ k + 1 \in 1..n
      BY <1>1, <1>6, <2>2
    <3> QED BY <1>6, <3>1, Zenon DEF WriteInv, n
  <2> QED BY <2>1, <2>2
<1>9. WriteInv(objects, m, v, more)
  BY <1>6, <1>7, <1>8, Zenon DEF WriteInv
<1> QED BY <1>6, <1>9 DEF more, next, r, call

\* The innermost call, and those around it.
LEMMA Innermost ==
  ASSUME NEW objects, IsHeap(objects), NEW m, NEW v, NEW calls \in Seq(WriteCalls(objects)), WriteInv(objects, m, v, calls)
  PROVE  /\ calls # <<>> /\ Len(calls) \in Nat /\ Len(calls) > 0 /\ Last(calls) = calls[Len(calls)]
         /\ Last(calls) \in WriteCalls(objects) /\ HasWritten(objects, m, Last(calls))
         /\ Last(calls).object \in 1..Len(objects)
<1>1. calls # <<>>
  BY Zenon DEF WriteInv
<1>2. /\ Len(calls) \in Nat /\ Len(calls) > 0 /\ Last(calls) = calls[Len(calls)]
      /\ Last(calls) \in WriteCalls(objects)
  BY <1>1, Popped, Zenon
<1>3. Len(calls) \in 1..Len(calls)
  BY <1>2
<1>4. Last(calls).object \in 1..Len(objects)
  BY <1>2 DEF WriteCalls
<1> QED BY <1>1, <1>2, <1>3, <1>4, Zenon DEF WriteInv

\* It has passed a property.
LEMMA WriteNext ==
  ASSUME NEW objects, IsHeap(objects), NEW m, NEW v, NEW calls \in Seq(WriteCalls(objects)), WriteInv(objects, m, v, calls),
         Last(calls).next <= Size(objects, Last(calls).object), NEW f,
         \/ f = Failed /\ ~Storable(objects[Last(calls).object].props[Last(calls).next])
         \/ IsFrame(objects, m, Chunked(objects, m), objects[Last(calls).object].props[Last(calls).next], f)
  PROVE  LET then == Append(Front(calls), Grown(objects, Last(calls), f)) IN
         then \in Seq(WriteCalls(objects)) /\ WriteInv(objects, m, v, then)
<1> DEFINE call == Last(calls)
           grown == Grown(objects, call, f)
           then == Append(Front(calls), grown)
           n == Len(calls)
<1>1. /\ calls # <<>> /\ n \in Nat /\ n > 0 /\ call = calls[n]
      /\ call \in WriteCalls(objects) /\ HasWritten(objects, m, call)
  BY Innermost, Zenon
<1>2. grown \in WriteCalls(objects) /\ HasWritten(objects, m, grown) /\ grown.object = call.object
  <2> DEFINE w == objects[call.object].props[call.next]
  <2>1. /\ IsHeap(objects) /\ call.next <= Size(objects, call.object)
        /\ \/ f = Failed /\ ~Storable(w)
           \/ IsFrame(objects, m, Chunked(objects, m), w, f)
    OBVIOUS
  <2> HIDE DEF call
  <2> QED BY ONLY <1>1, <2>1, CallGrows, SMTT(20) DEF w
<1> HIDE DEF grown, call
<1>3. /\ then \in Seq(WriteCalls(objects)) /\ then # <<>> /\ Len(then) = n /\ then[n] = grown
      /\ \A i \in 1..n - 1 : then[i] = calls[i]
  <2> DEFINE R == WriteCalls(objects)
  <2>1. calls \in Seq(R) /\ calls # <<>> /\ grown \in R
    BY <1>1, <1>2
  <2> HIDE DEF R
  <2>2. /\ then \in Seq(R) /\ then # <<>> /\ Len(then) = n /\ then[n] = grown
        /\ \A i \in 1..n - 1 : then[i] = calls[i]
    BY ONLY <2>1, Replaced
  <2> QED BY <2>2 DEF R
<1> HIDE DEF then, n
<1>4. \A k \in 1..n : then[k].object = calls[k].object /\ HasWritten(objects, m, then[k])
  <2>1. \A k \in 1..n : k \in 1..n - 1 \/ k = n
    BY <1>1
  <2> QED BY <1>1, <1>2, <1>3, <2>1, Zenon DEF WriteInv, n
<1>5. ASSUME NEW k \in 1..n - 1
      PROVE  /\ then[k].next <= Size(objects, then[k].object)
             /\ Refers(objects, then[k].object, then[k].next, then[k + 1].object)
  <2>1. k + 1 \in 1..n
    BY <1>1
  <2> QED BY <1>3, <1>4, <2>1, Zenon DEF WriteInv, n
<1>6. IsObject(v) /\ then[1].object = v.ref
  <2>1. 1 \in 1..n
    BY <1>1
  <2> QED BY <1>4, <2>1, Zenon DEF WriteInv
<1>7. WriteInv(objects, m, v, then)
  BY <1>3, <1>4, <1>5, <1>6, Zenon DEF WriteInv
<1> QED BY <1>3, <1>7 DEF then, grown, call

\* It has passed them all: it has the frame of its object.
LEMMA WriteUp ==
  ASSUME NEW objects, IsHeap(objects), NEW m, NEW v, NEW calls \in Seq(WriteCalls(objects)), WriteInv(objects, m, v, calls),
         Last(calls).next > Size(objects, Last(calls).object), NEW total \in Nat,
         Len(WriteObject(objects[Last(calls).object].class, Last(calls).chunks, total)) <= MaxLength
  PROVE  LET f == WriteObject(objects[Last(calls).object].class, Last(calls).chunks, total)
             outer == Front(calls)
             C == Chunked(objects, m) IN
         IF outer = <<>> THEN IsFrame(objects, m, C, v, f)
         ELSE /\ outer \in Seq(WriteCalls(objects)) /\ WriteInv(objects, m, v, outer)
              /\ Last(outer).next <= Size(objects, Last(outer).object)
              /\ IsFrame(objects, m, C, objects[Last(outer).object].props[Last(outer).next], f)
<1> DEFINE call == Last(calls)
           o == call.object
           f == WriteObject(objects[o].class, call.chunks, total)
           outer == Front(calls)
           C == Chunked(objects, m)
           n == Len(calls)
<1>1. /\ calls # <<>> /\ n \in Nat /\ n > 0 /\ call = calls[n]
      /\ call \in WriteCalls(objects) /\ HasWritten(objects, m, call) /\ o \in 1..Len(objects)
  BY Innermost, Zenon
<1>2. call.next = Size(objects, o) + 1 /\ Size(objects, o) \in Nat /\ call.chunks \in Seq(Nat)
  <2>1. call.next \in 1..Size(objects, o) + 1 /\ Size(objects, o) \in Nat
    BY <1>1, HeapObject, Zenon DEF HasWritten
  <2>2. call.chunks \in Seq(Nat)
    BY <1>1 DEF WriteCalls
  <2> QED BY <2>1, <2>2
<1>3. PICK i \in 0..call.next - 1 :
        <<o, i, call.chunks>> \in C /\ Skips(objects, o, i, Size(objects, o) + 1)
  BY <1>1, <1>2, Zenon DEF HasWritten
<1>4. f \in Seq(Nat) /\ f # <<>> /\ i \in Nat
  <2>1. IsName(objects[o].class)
    BY <1>1, HeapObject, Zenon
  <2>2. f \in Seq(Nat) /\ f # <<>>
    BY <1>2, <2>1, ObjectFrames, Zenon
  <2>3. i \in Nat
    BY <1>2
  <2> QED BY <2>2, <2>3
<1>5. ASSUME NEW w, IsObject(w), w.ref = o PROVE IsFrame(objects, m, C, w, f)
  BY <1>2, <1>3, <1>4, <1>5, Zenon DEF IsFrame
<1> HIDE DEF f, call, C
<1>6. outer \in Seq(WriteCalls(objects)) /\ Len(outer) = n - 1 /\ \A k \in 1..n - 1 : outer[k] = calls[k]
  BY <1>1, Popped, Zenon
<1> HIDE DEF outer, n
<1>7. CASE outer = <<>>
  <2>1. Len(outer) = 0
    BY <1>7
  <2>2. n = 1
    BY <1>1, <1>6, <2>1
  <2>3. IsObject(v) /\ v.ref = o
    BY <1>1, <2>2, Zenon DEF WriteInv
  <2> QED BY <1>5, <1>7, <2>3, Zenon DEF outer, f, call, C
<1>8. CASE outer # <<>>
  <2>1. Len(outer) # 0
    BY <1>6, <1>8
  <2>2. n - 1 \in 1..n - 1 /\ (n - 1) + 1 = n /\ n - 1 > 0
    BY <1>1, <1>6, <2>1
  <2>3. Last(outer) = calls[n - 1]
    BY <1>6, <1>8, <2>2, Popped, Zenon
  <2>4. \A k \in 1..n - 1 : k \in 1..n
    BY <1>1
  <2>5. \A k \in 1..(n - 1) - 1 : k \in 1..n - 1 /\ k + 1 \in 1..n - 1
    BY <1>1
  <2>6. 1 \in 1..n - 1
    BY <2>2
  <2>7. WriteInv(objects, m, v, outer)
    BY <1>6, <1>8, <2>4, <2>5, <2>6, Zenon DEF WriteInv, n
  <2>8. /\ calls[n - 1].next <= Size(objects, calls[n - 1].object)
        /\ Refers(objects, calls[n - 1].object, calls[n - 1].next, o)
    BY <1>1, <2>2, Zenon DEF WriteInv, n
  <2>9. IsFrame(objects, m, C, objects[calls[n - 1].object].props[calls[n - 1].next], f)
    BY <1>5, <2>8, Zenon DEF Refers
  <2> QED BY <1>6, <1>8, <2>3, <2>7, <2>8, <2>9, Zenon DEF outer, f, call, C
<1> QED BY <1>7, <1>8
-----------------------------------------------------------------------------
\* Unreadable and HasUnreadable, for objects where the classes are known.
UnreadableIn(objects, classes, v) ==
  \/ v.type \in Real /\ v.bytes[1] = Tiny
  \/ IsObject(v) /\ objects[v.ref].class \notin classes

\* Where the chunk behind the one at a place is.
NextAt(memory, at) == FrameAt(memory, at) + FrameLength(memory, at)

\* The chunks of o for its properties up to i are found, and the 0 behind them is before the limit.
Found(objects, m, memory, at, o, i, limit) ==
  \E b \in Seq(Nat) : /\ <<o, i, b>> \in Chunked(objects, m)
                      /\ Holds(memory, at, b \o <<0>>) /\ at + Len(b) < limit

\* What read_value makes of a frame.
LEMMA FrameRead ==
  ASSUME NEW objects, IsHeap(objects), NEW m1 \in Machine, NEW m2 \in Machine, NEW v, IsGValue(v, Len(objects)),
         NEW f, IsFrame(objects, m1, Chunked(objects, m1), v, f),
         NEW memory, NEW at \in Nat, Holds(memory, at, f), NEW classes
  PROVE  LET read == ReadValue(memory, at, Len(f), m2, classes)
             cursor == at + 2 + Byte(memory, at + 1) IN
         IF UnreadableIn(objects, classes, v) THEN read = Fails("false")
         ELSE IF IsObject(v)
              THEN /\ read = Fails("object") /\ Name(memory, at + 1) = objects[v.ref].class /\ cursor \in Nat
                   /\ \E i \in Nat : /\ Found(objects, m1, memory, cursor, v.ref, i, at + Len(f))
                                     /\ Skips(objects, v.ref, i, Size(objects, v.ref) + 1)
              ELSE \E w : read = Value(w) /\ ReadAs(v, w, m1.point = m2.point)
<1> DEFINE read == ReadValue(memory, at, Len(f), m2, classes)
           cursor == at + 2 + Byte(memory, at + 1)
           C == Chunked(objects, m1)
<1>1. Len(objects) \in Nat
  BY Zenon, LengthOf DEF IsHeap
<1>2. CASE IsObject(v)
  <2>1. v.ref \in 1..Len(objects) /\ v.type = "OBJECT"
    BY <1>1, <1>2, References, Zenon
  <2>2. PICK i \in Nat, total \in Nat, b \in Seq(Nat) :
          /\ <<v.ref, i, b>> \in C /\ Skips(objects, v.ref, i, Size(objects, v.ref) + 1)
          /\ f = WriteObject(objects[v.ref].class, b, total)
    BY <1>2, Zenon DEF IsFrame
  <2>3. IsName(objects[v.ref].class)
    BY <2>1, HeapObject, Zenon
  <2>4. /\ objects[v.ref].class \in classes => read = Fails("object")
        /\ objects[v.ref].class \notin classes => read = Fails("false")
        /\ Name(memory, at + 1) = objects[v.ref].class
        /\ cursor \in Nat
        /\ Holds(memory, cursor, b \o <<0>>)
        /\ cursor + Len(b) < at + Len(WriteObject(objects[v.ref].class, b, total))
    <3> DEFINE class == objects[v.ref].class
    <3>1. IsName(class) /\ Holds(memory, at, WriteObject(class, b, total))
      BY <2>2, <2>3, Zenon
    <3>2. at \in Nat /\ b \in Seq(Nat) /\ total \in Nat
      BY <2>2
    <3> HIDE DEF class, read, cursor, C
    <3>3. Byte(memory, at) = 15 /\ Name(memory, at + 1) = class
      BY ONLY <3>1, <3>2, ReadObjectFrame, Zenon
    <3>4. /\ class \in classes => ReadValue(memory, at, Len(f), m2, classes) = Fails("object")
          /\ class \notin classes => ReadValue(memory, at, Len(f), m2, classes) = Fails("false")
      <4>1. ReadValue(memory, at, Len(f), m2, classes) =
              Fails(IF Name(memory, at + 1) \in classes THEN "object" ELSE "false")
        BY ONLY <3>3, ReadObjectValue, Zenon
      <4> QED BY ONLY <3>3, <4>1, Zenon
    <3>5. at + 2 + Byte(memory, at + 1) \in Nat
      BY ONLY <3>1, <3>2, ReadObjectFrame, Zenon
    <3>6. Holds(memory, at + 2 + Byte(memory, at + 1), b \o <<0>>)
      BY ONLY <3>1, <3>2, ReadObjectFrame, Zenon
    <3>7. at + 2 + Byte(memory, at + 1) + Len(b) < at + Len(WriteObject(class, b, total))
      BY ONLY <3>1, <3>2, ReadObjectFrame, Zenon
    <3> QED BY ONLY <3>3, <3>4, <3>5, <3>6, <3>7, Zenon DEF class, read, cursor
  <2> HIDE DEF read, cursor, C
  <2>5. Found(objects, m1, memory, cursor, v.ref, i, at + Len(f))
    <3> DEFINE g == WriteObject(objects[v.ref].class, b, total)
    <3>1. f = g /\ cursor + Len(b) < at + Len(g)
      BY <2>2, <2>4, Zenon
    <3> HIDE DEF g
    <3>2. cursor + Len(b) < at + Len(f)
      BY ONLY <3>1
    <3> QED BY ONLY <2>2, <2>4, <3>2, Zenon DEF Found, C
  <2>6. v.type \notin Real
    BY <2>1 DEF Real
  <2>7. UnreadableIn(objects, classes, v) <=> objects[v.ref].class \notin classes
    BY <1>2, <2>6, Zenon DEF UnreadableIn
  <2> QED BY <1>2, <2>2, <2>4, <2>5, <2>7 DEF read, cursor
<1>3. CASE ~IsObject(v)
  <2>1. Storable(v) /\ f = WriteScalar(v, m1)
    BY <1>3, Zenon DEF IsFrame
  <2>2. v.type \in DOMAIN TypeId /\ v.type # "OBJECT"
    BY <1>1, <1>3, <2>1, References, Zenon
  <2>3. IF v.type \in Real /\ v.bytes[1] = Tiny THEN read = Fails("false")
        ELSE \E w : read = Value(w) /\ ReadAs(v, w, m1.point = m2.point)
    <3>1. Holds(memory, at, WriteScalar(v, m1))
      BY <2>1, Zenon
    <3>2. LET same == ReadValue(memory, at, Len(WriteScalar(v, m1)), m2, classes) IN
          IF v.type \in Real /\ v.bytes[1] = Tiny THEN same = Fails("false")
          ELSE \E w : same = Value(w) /\ ReadAs(v, w, m1.point = m2.point)
      <4>1. PICK n \in Nat : IsGValue(v, n)
        BY <1>1
      <4> QED BY ONLY <2>2, <3>1, <4>1, m1 \in Machine, m2 \in Machine, at \in Nat, ReadScalarFrame
    <3> QED BY <2>1, <3>2
  <2> HIDE DEF read
  <2>4. UnreadableIn(objects, classes, v) <=> v.type \in Real /\ v.bytes[1] = Tiny
    BY <1>3, Zenon DEF UnreadableIn
  <2> QED BY <1>3, <2>3, <2>4, Zenon DEF read
<1> QED BY <1>2, <1>3

\* What read_object finds: the 0 at the end, or the chunk of a property with others behind it.
Ahead(objects, m, memory, at, o, i, limit) ==
  /\ i \in 1..Size(objects, o) /\ Byte(memory, at) \notin {0, Beyond}
  /\ Name(memory, at) = PropertyName(objects, o, i)
  /\ FrameAt(memory, at) \in Nat /\ NextAt(memory, at) \in Nat
  /\ \E f \in Seq(Nat) : /\ IsFrame(objects, m, Chunked(objects, m), objects[o].props[i], f)
                         /\ FrameLength(memory, at) = Len(f) /\ Holds(memory, FrameAt(memory, at), f)
  /\ \E j \in 0..i - 1 : /\ Skips(objects, o, j, i)
                         /\ Found(objects, m, memory, NextAt(memory, at), o, j, limit)

LEMMA NextChunk ==
  ASSUME NEW objects, IsHeap(objects), NEW m, NEW memory, NEW at \in Nat, NEW o, NEW i, NEW limit,
         Found(objects, m, memory, at, o, i, limit)
  PROVE  /\ o \in 1..Len(objects) /\ i \in Nat
         /\ IF i = 0 THEN Byte(memory, at) = 0 ELSE Ahead(objects, m, memory, at, o, i, limit)
<1>1. PICK b \in Seq(Nat) : /\ <<o, i, b>> \in Chunked(objects, m)
                           /\ Holds(memory, at, b \o <<0>>) /\ at + Len(b) < limit
  BY Zenon DEF Found
<1>2. o \in 1..Len(objects) /\ i \in Nat /\ Justified(objects, m, Chunked(objects, m), o, i, b)
  BY <1>1, ChunkedElim, Zenon
<1>3. CASE i = 0
  <2>1. b = <<>>
    <3>1. 0 \notin 1..Size(objects, o)
      BY ONLY <1>2, IsHeap(objects), HeapObject
    <3> QED BY <1>2, <1>3, <3>1, Zenon DEF Justified
  <2>2. b \o <<0>> = <<0>>
    BY ONLY <2>1
  <2>3. Holds(memory, at, <<0>>)
    BY ONLY <1>1, <2>2, Zenon
  <2>4. Byte(memory, at + 1 - 1) = 0
    <3>1. Len(<<0>>) = 1 /\ <<0>>[1] = 0 /\ 1 \in 1..1
      BY ONLY TRUE
    <3> QED BY ONLY <2>3, <3>1, Zenon DEF Holds
  <2>5. at + 1 - 1 = at
    BY ONLY at \in Nat
  <2> QED BY <1>2, <1>3, <2>4, <2>5, Zenon
<1>4. CASE i # 0
  <2> DEFINE name == PropertyName(objects, o, i)
             v == objects[o].props[i]
  <2>1. i \in 1..Size(objects, o)
    BY <1>2, <1>4, Zenon DEF Justified
  <2>2. PICK j \in 0..i - 1, c \in Seq(Nat), f \in Seq(Nat) :
          /\ <<o, j, c>> \in Chunked(objects, m) /\ Skips(objects, o, j, i)
          /\ IsFrame(objects, m, Chunked(objects, m), v, f)
          /\ b = Chunk(name, f) \o c
    BY <1>2, <1>4, Zenon DEF Justified
  <2>3. f # <<>> /\ Len(f) <= MaxLength
    BY <2>2, Zenon DEF IsFrame
  <2>4. IsName(name)
    BY <1>2, <2>1, HeapProperty, Zenon
  <2> HIDE DEF name, v
  <2>5. Chunk(name, f) \in Seq(Nat)
    BY <2>3, <2>4, Chunks, Zenon
  <2>6. <<0>> \in Seq(Nat)
    OBVIOUS
  <2>7. c \o <<0>> \in Seq(Nat)
    BY <2>6, Together, Zenon
  <2>8. (Chunk(name, f) \o c) \o <<0>> = Chunk(name, f) \o (c \o <<0>>)
    BY ONLY <2>5, <2>6, c \in Seq(Nat), Regroup, ZenonT(40)
  <2>9. Holds(memory, at, Chunk(name, f) \o (c \o <<0>>))
    BY <1>1, <2>2, <2>8, Zenon
  <2>10. /\ Byte(memory, at) \notin {0, Beyond}
         /\ Name(memory, at) = name /\ FrameLength(memory, at) = Len(f)
         /\ FrameAt(memory, at) \in Nat /\ Holds(memory, FrameAt(memory, at), f)
         /\ Holds(memory, FrameAt(memory, at) + FrameLength(memory, at), c \o <<0>>)
         /\ FrameAt(memory, at) + FrameLength(memory, at) + Len(c \o <<0>>) = at + Len(Chunk(name, f) \o (c \o <<0>>))
    <3> DEFINE rest == c \o <<0>>
    <3>1. IsName(name) /\ f \in Seq(Nat) /\ f # <<>> /\ Len(f) <= MaxLength /\ rest \in Seq(Nat)
      BY <2>2, <2>3, <2>4, <2>7
    <3>2. Holds(memory, at, Chunk(name, f) \o rest) /\ at \in Nat
      BY <2>9
    <3> HIDE DEF rest
    <3>3. /\ Byte(memory, at) \notin {0, Beyond}
          /\ Name(memory, at) = name /\ FrameLength(memory, at) = Len(f)
          /\ FrameAt(memory, at) \in Nat /\ Holds(memory, FrameAt(memory, at), f)
          /\ Holds(memory, FrameAt(memory, at) + FrameLength(memory, at), rest)
          /\ FrameAt(memory, at) + FrameLength(memory, at) + Len(rest) = at + Len(Chunk(name, f) \o rest)
      BY ONLY <3>1, <3>2, ReadChunk
    <3> QED BY <3>3, Zenon DEF rest
  <2>11. NextAt(memory, at) = FrameAt(memory, at) + FrameLength(memory, at) /\ NextAt(memory, at) \in Nat
    <3>1. Len(f) \in Nat
      BY ONLY f \in Seq(Nat)
    <3>2. FrameAt(memory, at) + FrameLength(memory, at) \in Nat
      BY ONLY <2>10, <3>1, SMTT(40)
    <3> QED BY ONLY <3>2, Zenon DEF NextAt
  <2>12. NextAt(memory, at) + Len(c) < limit
    <3> DEFINE next == NextAt(memory, at)
    <3>0. b \o <<0>> = Chunk(name, f) \o (c \o <<0>>)
      BY ONLY <2>2, <2>8
    <3> DEFINE k == Len(b)
               k0 == Len(b \o <<0>>)
               n == Len(c)
               n0 == Len(c \o <<0>>)
    <3>1. n \in Nat /\ n0 = n + 1 /\ k \in Nat /\ k0 = k + 1
      BY ONLY b \in Seq(Nat), c \in Seq(Nat)
    <3> HIDE DEF next, k, k0, n, n0
    <3>2. next + n0 = at + k0
      BY ONLY <2>10, <2>11, <3>0, Zenon DEF next, k0, n0
    <3>3. next \in Nat
      BY <2>11 DEF next
    <3>4. next + n = at + k
      BY ONLY <3>1, <3>2, <3>3, at \in Nat
    <3>5. at + k < limit
      BY <1>1 DEF k
    <3> QED BY ONLY <3>4, <3>5, Zenon DEF next, n
  <2>13. Found(objects, m, memory, NextAt(memory, at), o, j, limit)
    <3>1. Holds(memory, NextAt(memory, at), c \o <<0>>)
      BY <2>10, <2>11, Zenon
    <3> QED BY <2>2, <2>12, <3>1, Zenon DEF Found
  <2> QED BY <1>2, <1>4, <2>1, <2>2, <2>10, <2>11, <2>13, Zenon DEF Ahead, name, v
<1> QED BY <1>3, <1>4
-----------------------------------------------------------------------------
\* An object of a heap of n.
HeapRecord == [class : DOMAIN Classes, props : Seq(GValue)]
WellFormed(object, n) ==
  /\ Len(object.props) = Len(Classes[object.class])
  /\ \A i \in 1..Len(object.props) :
       IsGValue(object.props[i], n) /\ object.props[i].type = Classes[object.class][i].type

LEMMA Heaps ==
  ASSUME NEW objects
  PROVE  IsHeap(objects) <=> objects \in Seq(HeapRecord) /\ \A o \in 1..Len(objects) : WellFormed(objects[o], Len(objects))
BY Zenon DEF IsHeap, HeapRecord, WellFormed, Properties

\* A GValue remains one where there are more objects.
LEMMA Wider ==
  ASSUME NEW n \in Nat, NEW k \in Nat, n <= k
  PROVE  /\ \A v : IsGValue(v, n) => IsGValue(v, k)
         /\ \A object : WellFormed(object, n) => WellFormed(object, k)
<1>1. ASSUME NEW v, IsGValue(v, n) PROVE IsGValue(v, k)
  <2>1. v \in GValue
    BY <1>1, Zenon DEF IsGValue
  <2>2. v.ref \in Nat
    BY <2>1 DEF GValue
  <2>3. v.type = "OBJECT" => v.ref <= k
    BY <1>1, <2>2 DEF IsGValue
  <2> QED BY <1>1, <2>3, ZenonT(40) DEF IsGValue
<1> QED BY <1>1, Zenon DEF WellFormed

\* The property of a new object.
LEMMA DefaultGValue ==
  ASSUME NEW type \in STRING, NEW n \in Nat
  PROVE  IsGValue(Default(type), n) /\ Default(type).type = type /\ Default(type) \in GValue
<1> DEFINE v == Default(type)
<1>0. ASSUME NEW bytes \in Seq(Nat), v = Scalar(type, bytes)
      PROVE  v.type = type /\ v.bytes = bytes /\ v.ref = 0 /\ v \in GValue
  BY <1>0 DEF Scalar, GValue
<1>1. CASE type = "STRING"
  <2>1. v = Scalar(type, <<0>>) /\ <<0>> \in Seq(Nat)
    BY <1>1, Widths DEF Default, NullString, Real
  <2>2. v.type = type /\ v.bytes = <<0>> /\ v.ref = 0 /\ v \in GValue
    BY <1>0, <2>1, Zenon
  <2> HIDE DEF v
  <2> QED BY <1>1, <2>2, Widths DEF IsGValue, Real, v
<1>2. CASE type = "OBJECT"
  <2>1. v = Scalar(type, <<>>) /\ <<>> \in Seq(Nat)
    BY <1>2, Widths DEF Default, NullObject, Object, Scalar, Real
  <2>2. v.type = type /\ v.bytes = <<>> /\ v.ref = 0 /\ v \in GValue
    BY <1>0, <2>1, Zenon
  <2> HIDE DEF v
  <2>3. /\ v.type \notin DOMAIN Width /\ v.type # "BOOLEAN" /\ v.type \notin Real /\ v.type # "STRING"
        /\ v.type = "OBJECT" /\ v.ref <= n
    BY <1>2, <2>2, Widths DEF Real
  <2>4. IsGValue(v, n)
    BY <2>2, <2>3 DEF IsGValue
  <2> QED BY <2>2, <2>4 DEF v
<1>3. CASE type \in DOMAIN Width
  <2> DEFINE zeros == [i \in 1..Width[type] |-> 0]
  <2>1. v = Scalar(type, zeros) /\ type \notin {"STRING", "OBJECT", "DOUBLE", "FLOAT"}
    BY <1>3, Widths DEF Default, Real
  <2>2. Width[type] \in Nat /\ Width[type] >= 1
    BY <1>3, Widths
  <2>3. zeros \in Seq(Nat) /\ zeros \in [1..Width[type] -> 0..255] /\ zeros[1] = 0
    <3>1. ASSUME NEW k \in Nat, k >= 1
          PROVE  LET z == [i \in 1..k |-> 0] IN z \in Seq(Nat) /\ z \in [1..k -> 0..255] /\ z[1] = 0
      BY <3>1
    <3> QED BY <2>2, <3>1
  <2>4. v.type = type /\ v.bytes = zeros /\ v.ref = 0 /\ v \in GValue
    BY <1>0, <2>1, <2>3, Zenon
  <2> HIDE DEF v, zeros
  <2> QED BY <2>1, <2>3, <2>4, SMTT(40) DEF IsGValue, Real, v
<1>4. CASE type \in Real
  <2>1. v = Scalar(type, <<0>>) /\ type \notin {"STRING", "OBJECT", "BOOLEAN"} /\ type \notin DOMAIN Width
    BY <1>4, Widths DEF Default, Real
  <2>2. <<0>> \in Seq(Nat)
    OBVIOUS
  <2>3. v.type = type /\ v.bytes = <<0>> /\ v.ref = 0 /\ v \in GValue
    BY <1>0, <2>1, <2>2, Zenon
  <2> HIDE DEF v
  <2>4. Len(v.bytes) = 1 /\ v.bytes[1] \in 0..994 \cup {Tiny}
    BY <2>3
  <2>5. v.type \notin DOMAIN Width /\ v.type # "BOOLEAN" /\ v.type # "STRING" /\ v.type # "OBJECT"
    BY <2>1, <2>3, Zenon
  <2>6. IsGValue(v, n)
    BY <2>3, <2>4, <2>5, ZenonT(30) DEF IsGValue
  <2> QED BY <2>3, <2>6, Zenon DEF v
<1>5. CASE type \notin {"STRING", "OBJECT"} \cup DOMAIN Width \cup Real
  <2>1. v = Scalar(type, <<>>) /\ type # "BOOLEAN"
    BY <1>5, Widths DEF Default
  <2>2. <<>> \in Seq(Nat)
    OBVIOUS
  <2>3. v.type = type /\ v.bytes = <<>> /\ v.ref = 0 /\ v \in GValue
    BY <1>0, <2>1, <2>2, Zenon
  <2> HIDE DEF v
  <2> QED BY <1>5, <2>1, <2>3 DEF IsGValue, v
<1> QED BY <1>1, <1>2, <1>3, <1>4, <1>5

\* A new object.
LEMMA NewObject ==
  ASSUME NEW class \in DOMAIN Classes, NEW n \in Nat
  PROVE  /\ New(class) \in HeapRecord /\ WellFormed(New(class), n)
         /\ New(class).class = class
         /\ \A i \in 1..Len(Classes[class]) : New(class).props[i] = Default(Classes[class][i].type)
<1> DEFINE list == Classes[class]
           props == [i \in 1..Len(list) |-> Default(list[i].type)]
<1>1. Len(list) \in Nat /\ \A i \in 1..Len(list) : list[i].type \in STRING
  <2>1. list \in Seq([name : Seq(Char), type : STRING, writable : BOOLEAN])
    BY ClassAssumption
  <2>2. \A i \in 1..Len(list) : list[i] \in [name : Seq(Char), type : STRING, writable : BOOLEAN]
    BY <2>1, ElementOf, Zenon
  <2>3. Len(list) \in Nat
    BY <2>1, LengthOf, Zenon
  <2> QED BY <2>2, <2>3
<1>2. New(class) = [class |-> class, props |-> props]
  BY DEF New
<1> HIDE DEF list
<1>3. /\ props \in Seq(GValue) /\ Len(props) = Len(list)
      /\ \A i \in 1..Len(list) : props[i] = Default(list[i].type)
  <2>1. \A i \in 1..Len(list) : Default(list[i].type) \in GValue
    BY <1>1, DefaultGValue
  <2> QED BY <1>1, <2>1
<1>4. \A i \in 1..Len(list) : IsGValue(props[i], n) /\ props[i].type = list[i].type
  BY <1>1, <1>3, DefaultGValue, Zenon
<1> HIDE DEF props
<1>5. New(class) \in HeapRecord /\ New(class).class = class /\ New(class).props = props
  BY <1>2, <1>3 DEF HeapRecord
<1>6. WellFormed(New(class), n)
  BY <1>3, <1>4, <1>5, Zenon DEF WellFormed, list
<1> QED BY <1>3, <1>5, <1>6, Zenon DEF list

\* g_object_new.
LEMMA HeapGrows ==
  ASSUME NEW copies, IsHeap(copies), NEW class \in DOMAIN Classes
  PROVE  LET more == Append(copies, New(class)) IN
         /\ IsHeap(more) /\ Len(copies) \in Nat /\ Len(more) = Len(copies) + 1 /\ more[Len(copies) + 1] = New(class)
         /\ \A r \in 1..Len(copies) : more[r] = copies[r]
<1> DEFINE n == Len(copies)
           new == New(class)
           more == Append(copies, new)
<1>1. copies \in Seq(HeapRecord) /\ \A r \in 1..n : WellFormed(copies[r], n)
  BY Heaps, Zenon
<1>2. n \in Nat /\ n + 1 \in Nat /\ n <= n + 1
  BY <1>1
<1>3. new \in HeapRecord /\ WellFormed(new, n + 1)
  BY <1>2, NewObject, Zenon
<1> HIDE DEF new
<1>4. /\ more \in Seq(HeapRecord) /\ Len(more) = n + 1 /\ more[n + 1] = new
      /\ \A r \in 1..n : more[r] = copies[r]
  <2> DEFINE R == HeapRecord
  <2>1. copies \in Seq(R) /\ new \in R
    BY <1>1, <1>3
  <2> HIDE DEF R
  <2>2. /\ more \in Seq(R) /\ Len(more) = n + 1 /\ more[n + 1] = new
        /\ \A r \in 1..n : more[r] = copies[r]
    BY ONLY <2>1, Pushed
  <2> QED BY <2>2 DEF R
<1> HIDE DEF more, n
<1>5. ASSUME NEW r \in 1..Len(more) PROVE WellFormed(more[r], Len(more))
  <2>1. CASE r = n + 1
    BY <1>3, <1>4, <2>1, Zenon
  <2>2. CASE r # n + 1
    <3>1. r \in 1..n
      BY <1>2, <1>4, <2>2
    <3>2. WellFormed(copies[r], n + 1)
      BY <1>1, <1>2, <3>1, Wider, Zenon
    <3> QED BY <1>4, <3>1, <3>2, Zenon
  <2> QED BY <2>1, <2>2
<1>6. IsHeap(more)
  BY <1>4, <1>5, Heaps, Zenon
<1> QED BY <1>2, <1>4, <1>6, Zenon DEF more, new, n

\* g_object_set_property on one of the objects.
SetIn(copies, r, name, w) == [copies EXCEPT ![r] = SetProperty(@, name, w)]
IsSet(copies, then, r, name, w) ==
  LET list == Classes[copies[r].class] IN
  /\ Len(then) = Len(copies) /\ then[r].class = copies[r].class
  /\ \A i \in 1..Len(list) :
       then[r].props[i] = IF list[i].name = name /\ Restored(list[i], w) THEN w ELSE copies[r].props[i]
  /\ \A k \in 1..Len(copies) : k # r => then[k] = copies[k]

LEMMA HeapSet ==
  ASSUME NEW copies, IsHeap(copies), NEW r \in 1..Len(copies), NEW name, NEW w, IsGValue(w, Len(copies))
  PROVE  IsHeap(SetIn(copies, r, name, w)) /\ IsSet(copies, SetIn(copies, r, name, w), r, name, w)
<1> DEFINE n == Len(copies)
           object == copies[r]
           list == Classes[object.class]
           props == [i \in 1..Len(list) |-> IF list[i].name = name /\ Restored(list[i], w) THEN w ELSE object.props[i]]
           set == SetProperty(object, name, w)
           then == [copies EXCEPT ![r] = set]
<1>1. copies \in Seq(HeapRecord) /\ \A k \in 1..n : WellFormed(copies[k], n)
  BY Heaps, Zenon
<1>2. object \in HeapRecord /\ WellFormed(object, n)
  BY <1>1, ElementOf, Zenon
<1>3. w \in GValue
  BY Zenon DEF IsGValue
<1>4. /\ object.class \in DOMAIN Classes /\ object.props \in Seq(GValue) /\ Len(object.props) = Len(list)
      /\ object = [class |-> object.class, props |-> object.props]
  BY <1>2 DEF HeapRecord, WellFormed
<1>5. Len(list) \in Nat
  BY <1>4
<1>6. set = [object EXCEPT !.props = props]
  BY Zenon DEF SetProperty, Properties
<1> HIDE DEF list, object
<1>7. \A i \in 1..Len(list) : props[i] = w \/ props[i] = object.props[i]
  OBVIOUS
<1>8. /\ props \in Seq(GValue) /\ Len(props) = Len(list)
      /\ \A i \in 1..Len(list) : props[i] = IF list[i].name = name /\ Restored(list[i], w) THEN w ELSE object.props[i]
  <2>1. \A i \in 1..Len(list) : object.props[i] \in GValue
    BY <1>4, ElementOf
  <2> QED BY <1>3, <1>5, <2>1
<1>9. ASSUME NEW i \in 1..Len(list) PROVE IsGValue(props[i], n) /\ props[i].type = list[i].type
  <2>1. IsGValue(object.props[i], n) /\ object.props[i].type = list[i].type
    BY <1>2, <1>4 DEF WellFormed, list
  <2>2. Restored(list[i], w) => w.type = list[i].type
    BY DEF Restored
  <2> QED BY <1>8, <2>1, <2>2
<1> HIDE DEF props, set
<1>10. set.class = object.class /\ set.props = props /\ set \in HeapRecord
  BY <1>4, <1>6, <1>8 DEF HeapRecord
<1>11. WellFormed(set, n)
  BY <1>8, <1>9, <1>10, Zenon DEF WellFormed, list
<1>12. /\ then \in Seq(HeapRecord) /\ Len(then) = n /\ then[r] = set
       /\ \A k \in 1..n : k # r => then[k] = copies[k]
  BY <1>1, <1>10
<1> HIDE DEF then, n
<1>13. ASSUME NEW k \in 1..Len(then) PROVE WellFormed(then[k], Len(then))
  BY <1>1, <1>11, <1>12, Zenon
<1>14. IsHeap(then)
  BY <1>12, <1>13, Heaps, Zenon
<1>15. IsSet(copies, then, r, name, w)
  BY <1>8, <1>10, <1>12, Zenon DEF IsSet, object, list, n
<1>16. then = SetIn(copies, r, name, w)
  BY Zenon DEF SetIn, then, set, object
<1> QED BY <1>14, <1>15, <1>16

\* What a GValue is read as is one.
LEMMA ReadAsGValue ==
  ASSUME NEW n \in Nat, NEW v, IsGValue(v, n), v.type # "OBJECT", NEW w, NEW same, ReadAs(v, w, same), NEW k \in Nat
  PROVE  IsGValue(w, k) /\ w.type = v.type /\ ~IsObject(w)
<1>1. CASE v.type \in Real
  <2>1. PICK x \in 0..99 : w = Scalar(v.type, <<10 * x>>)
    BY <1>1 DEF ReadAs
  <2>2. v \in GValue
    BY Zenon DEF IsGValue
  <2>3. v.type \in STRING /\ v.type \notin DOMAIN Width \cup {"BOOLEAN", "STRING", "OBJECT"}
    BY <1>1, <2>2, Widths DEF Real, GValue
  <2>4. <<10 * x>> \in Seq(Nat) /\ Len(<<10 * x>>) = 1 /\ <<10 * x>>[1] = 10 * x /\ 10 * x \in 0..994
    OBVIOUS
  <2>5. w.type = v.type /\ w.bytes = <<10 * x>> /\ w.ref = 0 /\ w \in GValue
    BY <2>1, <2>3, <2>4 DEF Scalar, GValue
  <2>6. IsGValue(w, k)
    BY <1>1, <2>3, <2>4, <2>5 DEF IsGValue
  <2> QED BY <2>5, <2>6 DEF IsObject
<1>2. CASE v.type \notin Real
  <2>1. w = v
    BY <1>2 DEF ReadAs
  <2>2. IsGValue(v, k)
    BY ZenonT(40) DEF IsGValue
  <2> QED BY <2>1, <2>2 DEF IsObject
<1> QED BY <1>1, <1>2
-----------------------------------------------------------------------------
ReadCalls(copies) == [object : 1..Len(copies), cursor : Nat]

\* w is what v is read as, where object r is read for object of[r].
Copied(of, v, w, same) ==
  IF IsObject(v) THEN IsObject(w) /\ w.ref \in DOMAIN of /\ of[w.ref] = v.ref ELSE ReadAs(v, w, same)

\* Copy has what it can have of the properties of object, after the n-th.
PartCopy(of, same, object, copy, n) ==
  LET list == Classes[object.class] IN
  /\ copy.class = object.class
  /\ \A i \in 1..Len(list) :
       IF i > n /\ list[i].writable /\ Storable(object.props[i])
       THEN Copied(of, object.props[i], copy.props[i], same)
       ELSE copy.props[i] = Default(list[i].type)

\* Where the frame of the object of the k-th call ends: it is that of the whole
\* record, or of the property at which the call around it is.
Limit(memory, calls, k) == IF k = 1 THEN Len(memory) + 1 ELSE NextAt(memory, calls[k - 1].cursor)

(***************************************************************************)
(* Each object made is a copy, but for the properties to come.  These are  *)
(* found by the call that reads it, within the frame of its object; if     *)
(* there is none, there are no more.  A call other than the innermost is   *)
(* at the property for which the next one reads an object.                 *)
(***************************************************************************)
Reading(objects, parts, m, memory, copies, calls, of, todo, same) ==
  /\ of \in [1..Len(copies) -> parts] /\ todo \in [1..Len(copies) -> Nat]
  /\ \A r \in 1..Len(copies) : PartCopy(of, same, objects[of[r]], copies[r], todo[r])
  /\ \A r \in 1..Len(copies) : todo[r] # 0 => \E k \in 1..Len(calls) : calls[k].object = r
  /\ \A k \in 1..Len(calls) : Found(objects, m, memory, calls[k].cursor, of[calls[k].object],
                                   todo[calls[k].object], Limit(memory, calls, k))
  /\ \A k, l \in 1..Len(calls) : calls[k].object = calls[l].object => k = l
  /\ \A k \in 1..Len(calls) - 1 :
       /\ todo[calls[k].object] # 0
       /\ Refers(objects, of[calls[k].object], todo[calls[k].object], of[calls[k + 1].object])

\* A function at one place and at the others.
LEMMA Updated ==
  ASSUME NEW S, NEW T, NEW f \in [S -> T], NEW x \in S, NEW e \in T
  PROVE  LET g == [f EXCEPT ![x] = e] IN
         g \in [S -> T] /\ g[x] = e /\ \A y \in S : y # x => g[y] = f[y]
OBVIOUS

\* The indices of calls.
LEMMA Indices ==
  ASSUME NEW d \in Nat
  PROVE  /\ d + 1 \in 1..d + 1 /\ (d + 1) - 1 = d
         /\ \A k \in 1..d : k \in 1..d + 1 /\ k # d + 1 /\ ((k \in 1..d - 1 /\ k + 1 \in 1..d) \/ k = d)
         /\ \A k \in 1..d + 1 : k \in 1..d \/ k = d + 1
OBVIOUS

LEMMA IndicesBelow ==
  ASSUME NEW d \in Nat, d > 0
  PROVE  /\ d \in 1..d /\ 1 \in 1..d
         /\ \A k \in 1..d : k \in 1..d - 1 \/ k = d
         /\ \A k \in 1..d - 1 : k \in 1..d /\ k # d /\ k + 1 \in 1..d
OBVIOUS

\* The limits of calls are those of others where all around the innermost one are the same.
LEMMA SameLimits ==
  ASSUME NEW memory, NEW calls, NEW then, NEW d \in Nat, \A k \in 1..d - 1 : then[k] = calls[k]
  PROVE  \A k \in 1..d : Limit(memory, then, k) = Limit(memory, calls, k)
<1> SUFFICES ASSUME NEW k \in 1..d PROVE Limit(memory, then, k) = Limit(memory, calls, k)
  OBVIOUS
<1>1. CASE k = 1
  BY <1>1, Zenon DEF Limit
<1>2. CASE k # 1
  <2>1. k - 1 \in 1..d - 1
    BY ONLY <1>2, k \in 1..d, d \in Nat
  <2> QED BY <1>2, <2>1, Zenon DEF Limit
<1> QED BY <1>1, <1>2

\* What is a copy remains one as more objects are made.
LEMMA StillCopy ==
  ASSUME NEW of, NEW of2, DOMAIN of \subseteq DOMAIN of2, \A r \in DOMAIN of : of2[r] = of[r],
         NEW same, NEW object, NEW copy, NEW n, PartCopy(of, same, object, copy, n)
  PROVE  PartCopy(of2, same, object, copy, n)
<1>1. ASSUME NEW v, NEW w, Copied(of, v, w, same) PROVE Copied(of2, v, w, same)
  BY <1>1, Zenon DEF Copied
<1> QED BY <1>1, Zenon DEF PartCopy

\* A new object is a copy of what has no properties but those to come.
LEMMA NewCopy ==
  ASSUME NEW objects, IsHeap(objects), NEW o \in 1..Len(objects), NEW i \in Nat, Skips(objects, o, i, Size(objects, o) + 1),
         NEW of, NEW same
  PROVE  PartCopy(of, same, objects[o], New(objects[o].class), i)
<1> DEFINE class == objects[o].class
           list == Classes[class]
           n == Len(list)
<1>1. class \in DOMAIN Classes /\ Size(objects, o) = n /\ n \in Nat
  BY HeapObject, Zenon
<1>2. 0 \in Nat
  OBVIOUS
<1>3. New(class).class = class /\ \A k \in 1..n : New(class).props[k] = Default(list[k].type)
  BY <1>1, <1>2, NewObject, Zenon
<1>4. ASSUME NEW k \in 1..n, k > i PROVE ~Storable(objects[o].props[k])
  <2>1. k \in i + 1..(n + 1) - 1
    BY <1>1, <1>4
  <2> QED BY <1>1, <2>1 DEF Skips
<1> QED BY <1>3, <1>4, Zenon DEF PartCopy

\* One more object is made, for o, and one more call reads it.
ReadCall(object, cursor) == [object |-> object, cursor |-> cursor]
IsDown(objects, parts, m, memory, same, copies, calls, of, o, more, down) ==
  /\ IsHeap(more) /\ down \in Seq(ReadCalls(more)) /\ down # <<>>
  /\ calls = <<>> => down[1].object = Len(copies) + 1
  /\ calls # <<>> => down[1] = calls[1]
  /\ \E of2, todo2 : /\ Reading(objects, parts, m, memory, more, down, of2, todo2, same)
                     /\ of2[Len(copies) + 1] = o /\ \A r \in 1..Len(copies) : of2[r] = of[r]

\* read_object begins: its chunks are found.
LEMMA ReadDown ==
  ASSUME NEW objects, IsHeap(objects), NEW parts, parts \subseteq 1..Len(objects), NEW m, NEW memory, NEW same,
         NEW copies, IsHeap(copies), NEW calls \in Seq(ReadCalls(copies)),
         NEW of, NEW todo, Reading(objects, parts, m, memory, copies, calls, of, todo, same),
         NEW o \in parts, NEW i \in Nat, Skips(objects, o, i, Size(objects, o) + 1),
         NEW cursor \in Nat, NEW limit, Found(objects, m, memory, cursor, o, i, limit),
         limit = IF calls = <<>> THEN Len(memory) + 1 ELSE NextAt(memory, Last(calls).cursor),
         calls # <<>> => /\ todo[Last(calls).object] # 0
                         /\ Refers(objects, of[Last(calls).object], todo[Last(calls).object], o)
  PROVE  IsDown(objects, parts, m, memory, same, copies, calls, of, o,
                Append(copies, New(objects[o].class)), Append(calls, ReadCall(Len(copies) + 1, cursor)))
<1> DEFINE n == Len(copies)
           new == n + 1
           class == objects[o].class
           more == Append(copies, New(class))
           call == ReadCall(new, cursor)
           down == Append(calls, call)
           d == Len(calls)
           of2 == [r \in 1..new |-> IF r = new THEN o ELSE of[r]]
           todo2 == [r \in 1..new |-> IF r = new THEN i ELSE todo[r]]
<1>1. class \in DOMAIN Classes
  BY HeapObject, Zenon
<1>2. /\ IsHeap(more) /\ n \in Nat /\ Len(more) = new /\ more[new] = New(class)
      /\ \A r \in 1..n : more[r] = copies[r]
  BY <1>1, HeapGrows, Zenon
<1>3. PartCopy(of2, same, objects[o], New(class), i)
  BY NewCopy, Zenon
<1>4. of \in [1..n -> parts] /\ todo \in [1..n -> Nat]
  BY Zenon DEF Reading
<1> HIDE DEF more, class, n, of2, todo2, down
<1>5. /\ new \in 1..new /\ \A r \in 1..n : r \in 1..new /\ r # new
      /\ \A r \in 1..new : r \in 1..n \/ r = new
  BY ONLY <1>2
<1> HIDE DEF new
<1>6. ReadCalls(copies) \subseteq ReadCalls(more) /\ call \in ReadCalls(more) /\ call.object = new /\ call.cursor = cursor
  <2>1. ReadCalls(copies) = [object : 1..n, cursor : Nat] /\ ReadCalls(more) = [object : 1..new, cursor : Nat]
    BY <1>2, Zenon DEF ReadCalls, n
  <2>2. call = [object |-> new, cursor |-> cursor]
    BY Zenon DEF ReadCall
  <2> HIDE DEF call
  <2> QED BY ONLY <1>5, <2>1, <2>2, cursor \in Nat
<1>7. calls \in Seq(ReadCalls(more)) /\ d \in Nat
  BY ONLY <1>6, calls \in Seq(ReadCalls(copies))
<1> HIDE DEF call
<1>8. /\ down \in Seq(ReadCalls(more)) /\ down # <<>> /\ Len(down) = d + 1 /\ down[d + 1] = call
      /\ \A k \in 1..d : down[k] = calls[k]
  <2> DEFINE R == ReadCalls(more)
  <2>1. calls \in Seq(R) /\ call \in R
    BY <1>6, <1>7
  <2> HIDE DEF R
  <2>2. /\ down \in Seq(R) /\ down # <<>> /\ Len(down) = d + 1 /\ down[d + 1] = call
        /\ \A k \in 1..d : down[k] = calls[k]
    BY ONLY <2>1, Pushed DEF down
  <2> QED BY <2>2 DEF R
<1>9. \A k \in 1..d : calls[k].object \in 1..n
  <2> HIDE DEF d
  <2>1. ASSUME NEW k \in 1..d PROVE calls[k] \in ReadCalls(copies)
    BY ElementOf, Zenon DEF d
  <2> QED BY ONLY <2>1 DEF ReadCalls, n
<1>10. /\ d + 1 \in 1..d + 1 /\ (d + 1) - 1 = d
       /\ \A k \in 1..d : k \in 1..d + 1 /\ k # d + 1 /\ ((k \in 1..d - 1 /\ k + 1 \in 1..d) \/ k = d)
       /\ \A k \in 1..d + 1 : k \in 1..d \/ k = d + 1
  <2> HIDE DEF d
  <2> QED BY ONLY <1>7, Indices, Zenon
<1>11. /\ of2 \in [1..new -> parts] /\ todo2 \in [1..new -> Nat]
       /\ of2[new] = o /\ todo2[new] = i
       /\ \A r \in 1..n : of2[r] = of[r] /\ todo2[r] = todo[r]
  <2>1. of2 \in [1..new -> parts] /\ of2[new] = o /\ \A r \in 1..n : of2[r] = of[r]
    BY ONLY <1>4, <1>5, o \in parts DEF of2
  <2>2. todo2 \in [1..new -> Nat] /\ todo2[new] = i /\ \A r \in 1..n : todo2[r] = todo[r]
    BY ONLY <1>4, <1>5, i \in Nat DEF todo2
  <2> QED BY <2>1, <2>2
<1>12. ASSUME NEW r \in 1..new PROVE PartCopy(of2, same, objects[of2[r]], more[r], todo2[r])
  <2>1. CASE r = new
    BY <1>2, <1>3, <1>11, <2>1, Zenon DEF new
  <2>2. CASE r # new
    <3>1. r \in 1..n
      BY <1>5, <2>2
    <3>2. PartCopy(of, same, objects[of[r]], copies[r], todo[r])
      BY <3>1, Zenon DEF Reading, n
    <3>3. DOMAIN of = 1..n /\ DOMAIN of2 = 1..new /\ 1..n \subseteq 1..new
      BY <1>4, <1>5, <1>11
    <3>4. PartCopy(of2, same, objects[of[r]], copies[r], todo[r])
      BY <1>11, <3>2, <3>3, StillCopy, Zenon
    <3> QED BY <1>2, <1>11, <3>1, <3>4, Zenon
  <2> QED BY <2>1, <2>2
<1> HIDE DEF d
<1>13. ASSUME NEW r \in 1..new, todo2[r] # 0 PROVE \E k \in 1..d + 1 : down[k].object = r
  <2>1. CASE r = new
    BY <1>6, <1>8, <1>10, <2>1, Zenon
  <2>2. CASE r # new
    <3>1. r \in 1..n /\ todo[r] # 0
      BY <1>5, <1>11, <1>13, <2>2, Zenon
    <3>2. PICK k \in 1..d : calls[k].object = r
      BY <3>1, Zenon DEF Reading, n, d
    <3> QED BY <1>8, <1>10, <3>2, Zenon
  <2> QED BY <2>1, <2>2
<1>14. ASSUME NEW k \in 1..d + 1
       PROVE  Found(objects, m, memory, down[k].cursor, of2[down[k].object], todo2[down[k].object], Limit(memory, down, k))
  <2>1. CASE k = d + 1
    <3>1. Limit(memory, down, d + 1) = limit
      <4>1. CASE calls = <<>>
        <5>1. d + 1 = 1
          BY ONLY <4>1 DEF d
        <5> QED BY <4>1, <5>1, Zenon DEF Limit
      <4>2. CASE calls # <<>>
        <5>1. d \in 1..d /\ d + 1 # 1 /\ Last(calls) = calls[d]
          BY ONLY <4>2, calls \in Seq(ReadCalls(copies)) DEF d, Last
        <5>2. down[d] = Last(calls)
          BY <1>8, <5>1, Zenon
        <5> QED BY <1>10, <4>2, <5>1, <5>2, Zenon DEF Limit
      <4> QED BY <4>1, <4>2
    <3> QED BY <1>6, <1>8, <1>11, <2>1, <3>1, Zenon
  <2>2. CASE k \in 1..d
    <3>1. down[k] = calls[k] /\ calls[k].object \in 1..n
      BY <1>8, <1>9, <2>2, Zenon
    <3>2. Found(objects, m, memory, calls[k].cursor, of[calls[k].object], todo[calls[k].object], Limit(memory, calls, k))
      BY <2>2, Zenon DEF Reading, d
    <3>3. \A l \in 1..d - 1 : down[l] = calls[l]
      <4>1. \A l \in 1..d - 1 : l \in 1..d
        BY ONLY <1>7
      <4> QED BY <1>8, <4>1, Zenon
    <3>4. Limit(memory, down, k) = Limit(memory, calls, k)
      BY <1>7, <2>2, <3>3, SameLimits, Zenon
    <3> QED BY <1>11, <3>1, <3>2, <3>4, Zenon
  <2> QED BY <1>10, <2>1, <2>2
<1>15. ASSUME NEW k \in 1..d + 1, NEW l \in 1..d + 1, down[k].object = down[l].object PROVE k = l
  <2>1. \A j \in 1..d : down[j].object = calls[j].object /\ down[j].object # new
    BY <1>5, <1>8, <1>9, Zenon
  <2>2. down[d + 1].object = new
    BY <1>6, <1>8, Zenon
  <2>3. CASE k \in 1..d /\ l \in 1..d
    BY <1>15, <2>1, <2>3, Zenon DEF Reading, d
  <2> QED BY <1>10, <1>15, <2>1, <2>2, <2>3, Zenon
<1>16. ASSUME NEW k \in 1..d
       PROVE  /\ todo2[down[k].object] # 0
              /\ Refers(objects, of2[down[k].object], todo2[down[k].object], of2[down[k + 1].object])
  <2>1. down[k] = calls[k] /\ calls[k].object \in 1..n
    BY <1>8, <1>9, Zenon
  <2>2. of2[calls[k].object] = of[calls[k].object] /\ todo2[calls[k].object] = todo[calls[k].object]
    BY <1>11, <2>1, Zenon
  <2>3. CASE k = d
    <3>1. calls # <<>> /\ Last(calls) = calls[d]
      BY ONLY <2>3, k \in 1..d, calls \in Seq(ReadCalls(copies)) DEF Last, d
    <3>2. down[k + 1] = call /\ of2[call.object] = o
      BY <1>6, <1>8, <1>11, <2>3, Zenon
    <3> QED BY <2>1, <2>2, <2>3, <3>1, <3>2, Zenon
  <2>4. CASE k \in 1..d - 1 /\ k + 1 \in 1..d
    <3>1. down[k + 1] = calls[k + 1] /\ of2[calls[k + 1].object] = of[calls[k + 1].object]
      BY <1>8, <1>9, <1>11, <2>4, Zenon
    <3>2. /\ todo[calls[k].object] # 0
          /\ Refers(objects, of[calls[k].object], todo[calls[k].object], of[calls[k + 1].object])
      BY <2>4, Zenon DEF Reading, d
    <3> QED BY <2>1, <2>2, <3>1, <3>2, Zenon
  <2> QED BY <1>10, <2>3, <2>4, Zenon
<1>17. Reading(objects, parts, m, memory, more, down, of2, todo2, same)
  BY <1>2, <1>8, <1>10, <1>11, <1>12, <1>13, <1>14, <1>15, <1>16, Zenon DEF Reading
<1>18. calls = <<>> => down[1].object = new
  <2>1. calls = <<>> => d + 1 = 1
    BY ONLY TRUE DEF d
  <2> QED BY <1>6, <1>8, <2>1, Zenon
<1>19. calls # <<>> => down[1] = calls[1]
  <2>1. calls # <<>> => 1 \in 1..d
    BY ONLY calls \in Seq(ReadCalls(copies)) DEF d
  <2> QED BY <1>8, <2>1, Zenon
<1>20. IsDown(objects, parts, m, memory, same, copies, calls, of, o, more, down)
  BY <1>2, <1>8, <1>11, <1>17, <1>18, <1>19, Zenon DEF IsDown, new, n
<1> QED BY <1>20, Zenon DEF more, down, call, new, n, class

\* A call of read_object that has no chunk before it returns to the one around it.
LEMMA ReadUp ==
  ASSUME NEW objects, NEW parts, NEW m, NEW memory, NEW same,
         NEW copies, NEW calls \in Seq(ReadCalls(copies)), calls # <<>>, Front(calls) # <<>>,
         NEW of, NEW todo, Reading(objects, parts, m, memory, copies, calls, of, todo, same), todo[Last(calls).object] = 0
  PROVE  LET outer == Front(calls) IN
         /\ outer \in Seq(ReadCalls(copies)) /\ outer[1] = calls[1]
         /\ Reading(objects, parts, m, memory, copies, outer, of, todo, same)
         /\ Refers(objects, of[Last(outer).object], todo[Last(outer).object], of[Last(calls).object])
<1> DEFINE outer == Front(calls)
           d == Len(calls)
<1>1. /\ d \in Nat /\ d > 0 /\ Last(calls) = calls[d]
      /\ outer \in Seq(ReadCalls(copies)) /\ Len(outer) = d - 1 /\ \A k \in 1..d - 1 : outer[k] = calls[k]
  BY Popped, Zenon
<1> HIDE DEF d
<1>2. Len(outer) # 0 /\ Last(outer) = outer[d - 1]
  <2> DEFINE R == ReadCalls(copies)
  <2>1. outer \in Seq(R) /\ outer # <<>>
    BY <1>1
  <2> HIDE DEF outer, R
  <2>2. Len(outer) # 0 /\ Last(outer) = outer[Len(outer)]
    BY ONLY <2>1 DEF Last
  <2> QED BY <1>1, <2>2, Zenon
<1> HIDE DEF outer
<1>3. /\ 1 \in 1..d - 1 /\ d - 1 \in 1..d - 1 /\ (d - 1) + 1 = d
      /\ \A k \in 1..d : k \in 1..d - 1 \/ k = d
      /\ \A k \in 1..d - 1 : k \in 1..d
      /\ \A k \in 1..(d - 1) - 1 : k \in 1..d - 1 /\ k + 1 \in 1..d - 1
  <2>1. d - 1 # 0
    BY <1>1, <1>2, Zenon
  <2> QED BY ONLY <1>1, <2>1
<1>4. ASSUME NEW r \in 1..Len(copies), todo[r] # 0 PROVE \E k \in 1..d - 1 : outer[k].object = r
  <2>1. PICK k \in 1..d : calls[k].object = r
    BY <1>4, Zenon DEF Reading, d
  <2>2. k # d
    BY <1>1, <1>4, <2>1, Zenon
  <2> QED BY <1>1, <1>3, <2>1, <2>2, Zenon
<1>5. ASSUME NEW k \in 1..d - 1
      PROVE  /\ todo[calls[k].object] # 0
             /\ Refers(objects, of[calls[k].object], todo[calls[k].object], of[calls[k + 1].object])
  BY Zenon DEF Reading, d
<1>6. ASSUME NEW k \in 1..d - 1
      PROVE  Found(objects, m, memory, outer[k].cursor, of[outer[k].object], todo[outer[k].object], Limit(memory, outer, k))
  <2>1. Found(objects, m, memory, calls[k].cursor, of[calls[k].object], todo[calls[k].object], Limit(memory, calls, k))
    BY <1>3, Zenon DEF Reading, d
  <2>2. d - 1 \in Nat /\ \A l \in 1..(d - 1) - 1 : outer[l] = calls[l]
    <3>1. d - 1 \in Nat
      BY ONLY <1>1
    <3> QED BY <1>1, <1>3, <3>1, Zenon
  <2>3. Limit(memory, outer, k) = Limit(memory, calls, k)
    BY ONLY <2>2, k \in 1..d - 1, SameLimits, Zenon
  <2> QED BY <1>1, <2>1, <2>3, Zenon
<1>7. ASSUME NEW k \in 1..d - 1, NEW l \in 1..d - 1, outer[k].object = outer[l].object PROVE k = l
  <2>1. calls[k].object = calls[l].object
    BY <1>1, <1>7, Zenon
  <2> QED BY <1>3, <2>1, Zenon DEF Reading, d
<1>8. ASSUME NEW k \in 1..(d - 1) - 1
      PROVE  /\ todo[outer[k].object] # 0
             /\ Refers(objects, of[outer[k].object], todo[outer[k].object], of[outer[k + 1].object])
  <2>1. k \in 1..d - 1 /\ outer[k] = calls[k] /\ outer[k + 1] = calls[k + 1]
    BY <1>1, <1>3, Zenon
  <2> QED BY <1>5, <2>1, Zenon
<1>9. /\ of \in [1..Len(copies) -> parts] /\ todo \in [1..Len(copies) -> Nat]
      /\ \A r \in 1..Len(copies) : PartCopy(of, same, objects[of[r]], copies[r], todo[r])
  BY Zenon DEF Reading
<1>10. Reading(objects, parts, m, memory, copies, outer, of, todo, same)
  BY ONLY <1>1, <1>4, <1>6, <1>7, <1>8, <1>9, Zenon DEF Reading
<1>11. Refers(objects, of[Last(outer).object], todo[Last(outer).object], of[Last(calls).object])
  <2>1. Last(outer) = calls[d - 1] /\ Last(calls) = calls[(d - 1) + 1]
    BY ONLY <1>1, <1>2, <1>3, Zenon
  <2>2. Refers(objects, of[calls[d - 1].object], todo[calls[d - 1].object], of[calls[(d - 1) + 1].object])
    BY ONLY <1>3, <1>5, Zenon
  <2> QED BY ONLY <2>1, <2>2, Zenon
<1> QED BY <1>1, <1>3, <1>10, <1>11, Zenon DEF outer

\* A property is set: the copy has one more, or the same if it could not be set.
LEMMA CopyNext ==
  ASSUME NEW objects, IsHeap(objects), NEW o \in 1..Len(objects), NEW i \in 1..Size(objects, o), NEW j \in 0..i - 1,
         Skips(objects, o, j, i), Storable(objects[o].props[i]),
         NEW copies, IsHeap(copies), NEW q \in 1..Len(copies), NEW of, NEW same,
         PartCopy(of, same, objects[o], copies[q], i),
         NEW w, IsGValue(w, Len(copies)), w.type = objects[o].props[i].type, Copied(of, objects[o].props[i], w, same)
  PROVE  PartCopy(of, same, objects[o], SetIn(copies, q, PropertyName(objects, o, i), w)[q], j)
<1> DEFINE name == PropertyName(objects, o, i)
           then == SetIn(copies, q, name, w)
           list == Classes[objects[o].class]
           n == Len(list)
           props == copies[q].props
           v == objects[o].props
<1>1. n \in Nat /\ Size(objects, o) = n /\ i \in 1..n /\ \A k \in 1..n : k \in Int
  <2>1. n \in Nat /\ Size(objects, o) = n
    BY HeapObject, Zenon
  <2> HIDE DEF n
  <2> QED BY <2>1
<1>2. /\ copies[q].class = objects[o].class
      /\ \A k \in 1..n : IF k > i /\ list[k].writable /\ Storable(v[k]) THEN Copied(of, v[k], props[k], same)
                         ELSE props[k] = Default(list[k].type)
  BY Zenon DEF PartCopy
<1>3. /\ then[q].class = objects[o].class
      /\ \A k \in 1..n : then[q].props[k] = IF list[k].name = name /\ Restored(list[k], w) THEN w ELSE props[k]
  <2> HIDE DEF name
  <2>1. IsSet(copies, then, q, name, w)
    BY HeapSet, Zenon
  <2> HIDE DEF then
  <2> QED BY ONLY <1>2, <2>1 DEF IsSet
<1>4. list[i].name = name /\ list[i].type = w.type /\ \A k \in 1..n : list[k].name = name => k = i
  <2>1. \A k \in 1..Size(objects, o) : PropertyName(objects, o, k) = list[k].name
    BY DEF PropertyName
  <2>2. /\ objects[o].props[i].type = list[i].type
        /\ \A k \in 1..Size(objects, o) : name = PropertyName(objects, o, k) => i = k
    BY HeapProperty, Zenon
  <2> QED BY <1>1, <2>1, <2>2
<1> HIDE DEF then, props, list, name
<1>5. ASSUME NEW k \in 1..n
      PROVE  IF k > j /\ list[k].writable /\ Storable(v[k]) THEN Copied(of, v[k], then[q].props[k], same)
             ELSE then[q].props[k] = Default(list[k].type)
  <2>1. CASE k = i
    <3>1. i > j /\ ~(i > i)
      BY ONLY <1>1, j \in 0..i - 1
    <3>2. Restored(list[i], w) <=> list[i].writable
      BY <1>4, Zenon DEF Restored
    <3>3. props[i] = Default(list[i].type)
      BY <1>1, <1>2, <3>1, Zenon
    <3>4. then[q].props[i] = IF list[i].writable THEN w ELSE props[i]
      BY <1>1, <1>3, <1>4, <3>2, Zenon
    <3> QED BY <2>1, <3>1, <3>3, <3>4, Zenon
  <2>2. CASE k # i
    <3>1. then[q].props[k] = props[k]
      BY <1>3, <1>4, <2>2, Zenon
    <3>2. k > i => k > j
      BY <1>1
    <3>3. k > j /\ ~(k > i) => ~Storable(v[k])
      <4>1. k > j /\ ~(k > i) => k \in j + 1..i - 1
        BY <1>1, <2>2
      <4> QED BY <4>1, Zenon DEF Skips
    <3> QED BY <1>2, <3>1, <3>2, <3>3, Zenon
  <2> QED BY <2>1, <2>2
<1>6. then[q].class = objects[o].class
  BY <1>3
<1> QED BY <1>5, <1>6, Zenon DEF PartCopy, list, then, name

\* The innermost call of read_object.
LEMMA InnermostRead ==
  ASSUME NEW objects, IsHeap(objects), NEW parts, parts \subseteq 1..Len(objects), NEW m, NEW memory, NEW same,
         NEW copies, NEW calls \in Seq(ReadCalls(copies)), calls # <<>>,
         NEW of, NEW todo, Reading(objects, parts, m, memory, copies, calls, of, todo, same)
  PROVE  LET call == Last(calls)
             o == of[call.object]
             i == todo[call.object] IN
         /\ call \in ReadCalls(copies) /\ call.object \in 1..Len(copies) /\ call.cursor \in Nat
         /\ o \in parts /\ o \in 1..Len(objects) /\ i \in Nat
         /\ Found(objects, m, memory, call.cursor, o, i, Limit(memory, calls, Len(calls)))
         /\ IF i = 0 THEN Byte(memory, call.cursor) = 0
            ELSE Ahead(objects, m, memory, call.cursor, o, i, Limit(memory, calls, Len(calls)))
<1> DEFINE call == Last(calls)
           o == of[call.object]
           i == todo[call.object]
           d == Len(calls)
           limit == Limit(memory, calls, d)
<1>1. d \in Nat /\ d > 0 /\ call = calls[d] /\ call \in ReadCalls(copies)
  BY Popped, Zenon
<1> HIDE DEF call, d
<1>2. d \in 1..d
  BY ONLY <1>1
<1> HIDE DEF limit
<1>3. call.object \in 1..Len(copies) /\ call.cursor \in Nat
  BY ONLY <1>1 DEF ReadCalls
<1>4. o \in parts /\ i \in Nat
  <2>1. of \in [1..Len(copies) -> parts] /\ todo \in [1..Len(copies) -> Nat]
    BY Zenon DEF Reading
  <2> QED BY ONLY <1>3, <2>1
<1>5. Found(objects, m, memory, call.cursor, o, i, limit)
  BY <1>1, <1>2, Zenon DEF Reading, limit, d
<1>6. IF i = 0 THEN Byte(memory, call.cursor) = 0 ELSE Ahead(objects, m, memory, call.cursor, o, i, limit)
  <2> DEFINE at == call.cursor
  <2>1. at \in Nat /\ Found(objects, m, memory, at, o, i, limit)
    BY <1>3, <1>5
  <2> HIDE DEF o, i, at
  <2>2. IF i = 0 THEN Byte(memory, at) = 0 ELSE Ahead(objects, m, memory, at, o, i, limit)
    BY <2>1, NextChunk, Zenon
  <2> QED BY ONLY <2>2, Zenon DEF at
<1>7. o \in 1..Len(objects)
  BY <1>4, Zenon
<1> QED BY ONLY <1>1, <1>3, <1>4, <1>5, <1>6, <1>7, Zenon DEF call, limit, d

\* It has set a property and has gone on to the next chunk.
NextIn(memory, call) == [call EXCEPT !.cursor = NextAt(memory, call.cursor)]
IsNext(objects, parts, m, memory, same, copies, calls, of, then, next) ==
  /\ IsHeap(then) /\ Len(then) = Len(copies) /\ next \in Seq(ReadCalls(then)) /\ next # <<>>
  /\ next[1].object = calls[1].object
  /\ \E todo2 : Reading(objects, parts, m, memory, then, next, of, todo2, same)

\* The property is that whose chunk is before it.
LEMMA ReadNext ==
  ASSUME NEW objects, IsHeap(objects), NEW parts, parts \subseteq 1..Len(objects), NEW m, NEW memory, NEW same,
         NEW copies, IsHeap(copies), NEW calls \in Seq(ReadCalls(copies)), calls # <<>>,
         NEW of, NEW todo, Reading(objects, parts, m, memory, copies, calls, of, todo, same),
         NEW v, v = objects[of[Last(calls).object]].props[todo[Last(calls).object]],
         todo[Last(calls).object] # 0, Storable(v),
         NEW w, IsGValue(w, Len(copies)), w.type = v.type, Copied(of, v, w, same)
  PROVE  IsNext(objects, parts, m, memory, same, copies, calls, of,
                SetIn(copies, Last(calls).object, Name(memory, Last(calls).cursor), w),
                Append(Front(calls), NextIn(memory, Last(calls))))
<1> DEFINE call == Last(calls)
           q == call.object
           at == call.cursor
           o == of[q]
           i == todo[q]
           name == PropertyName(objects, o, i)
           cursor == NextAt(memory, at)
           limit == Limit(memory, calls, Len(calls))
           then == SetIn(copies, q, Name(memory, at), w)
           call2 == NextIn(memory, call)
           next == Append(Front(calls), call2)
           d == Len(calls)
           n == Len(copies)
<1>1. /\ call \in ReadCalls(copies) /\ q \in 1..n /\ at \in Nat
      /\ o \in parts /\ o \in 1..Len(objects) /\ i \in Nat
      /\ Ahead(objects, m, memory, at, o, i, limit)
  <2>1. /\ call \in ReadCalls(copies) /\ q \in 1..n /\ at \in Nat /\ o \in parts /\ o \in 1..Len(objects) /\ i \in Nat
        /\ IF i = 0 THEN Byte(memory, at) = 0 ELSE Ahead(objects, m, memory, at, o, i, limit)
    BY InnermostRead, Zenon
  <2> QED BY <2>1, Zenon
<1>2. PICK j \in 0..i - 1 : Skips(objects, o, j, i) /\ Found(objects, m, memory, cursor, o, j, limit)
  BY <1>1, Zenon DEF Ahead
<1>3. i \in 1..Size(objects, o) /\ Name(memory, at) = name /\ cursor \in Nat
  BY <1>1, Zenon DEF Ahead
<1>4. then = SetIn(copies, q, name, w) /\ v = objects[o].props[i]
  BY <1>3, Zenon
<1> HIDE DEF then, cursor, at, call, limit
<1>5. IsHeap(then) /\ IsSet(copies, then, q, name, w)
  BY <1>1, <1>4, HeapSet, Zenon
<1>6. PartCopy(of, same, objects[o], then[q], j)
  <2>1. PartCopy(of, same, objects[o], copies[q], i)
    BY <1>1, Zenon DEF Reading
  <2>2. Storable(objects[o].props[i]) /\ w.type = objects[o].props[i].type /\ Copied(of, objects[o].props[i], w, same)
    BY <1>4, Zenon
  <2> HIDE DEF o, i, q, name
  <2>3. PartCopy(of, same, objects[o], SetIn(copies, q, PropertyName(objects, o, i), w)[q], j)
    BY <1>1, <1>2, <1>3, <2>1, <2>2, CopyNext, Zenon
  <2> QED BY <1>4, <2>3, Zenon DEF name
<1>7. Len(then) = n /\ \A r \in 1..n : r # q => then[r] = copies[r]
  BY <1>5, Zenon DEF IsSet
<1>8. call2 \in ReadCalls(then) /\ call2.object = q /\ call2.cursor = cursor
  <2>1. call2 = [call EXCEPT !.cursor = cursor]
    BY Zenon DEF NextIn, cursor, at
  <2>2. call \in [object : 1..n, cursor : Nat] /\ q = call.object /\ ReadCalls(then) = [object : 1..n, cursor : Nat]
    BY <1>1, <1>7, Zenon DEF ReadCalls
  <2> HIDE DEF call2, q, n
  <2> QED BY ONLY <1>3, <2>1, <2>2
<1>9. ReadCalls(copies) = ReadCalls(then)
  BY <1>7, Zenon DEF ReadCalls
<1> HIDE DEF call2, d, n, q
<1>10. /\ d \in Nat /\ d > 0 /\ call = calls[d]
       /\ next \in Seq(ReadCalls(then)) /\ next # <<>> /\ Len(next) = d /\ next[d] = call2
       /\ \A k \in 1..d - 1 : next[k] = calls[k]
  <2> DEFINE R == ReadCalls(then)
  <2>1. calls \in Seq(R) /\ call2 \in R
    BY <1>8, <1>9
  <2> HIDE DEF R
  <2>2. next \in Seq(R) /\ next # <<>> /\ Len(next) = d /\ next[d] = call2 /\ \A k \in 1..d - 1 : next[k] = calls[k]
    BY ONLY <2>1, calls # <<>>, Replaced DEF d
  <2>3. d \in Nat /\ d > 0 /\ call = calls[d]
    BY Popped, Zenon DEF call, d
  <2> QED BY ONLY <2>2, <2>3, ZenonT(40) DEF R
<1> HIDE DEF next
<1>11. /\ d \in 1..d /\ 1 \in 1..d /\ \A k \in 1..d : k \in 1..d - 1 \/ k = d
       /\ \A k \in 1..d - 1 : k \in 1..d /\ k # d /\ k + 1 \in 1..d
  BY ONLY <1>10, IndicesBelow
<1>12. \A k \in 1..d : next[k].object = calls[k].object
  <2>1. next[d].object = calls[d].object
    BY <1>8, <1>10, Zenon DEF q
  <2> QED BY ONLY <1>10, <1>11, <2>1, Zenon
<1>13. \A k \in 1..d - 1 : calls[k].object # q /\ calls[k].object \in 1..n
  <2>1. \A k \in 1..d - 1 : calls[k].object # q
    BY <1>10, <1>11, Zenon DEF Reading, d, q
  <2>2. ASSUME NEW k \in 1..d PROVE calls[k] \in ReadCalls(copies)
    BY ElementOf, Zenon DEF d
  <2>3. \A k \in 1..d : calls[k].object \in 1..n
    BY ONLY <2>2 DEF ReadCalls, n
  <2> QED BY <1>11, <2>1, <2>3, Zenon
<1> DEFINE todo2 == [todo EXCEPT ![q] = j]
<1>14. of \in [1..n -> parts] /\ todo \in [1..n -> Nat]
  BY Zenon DEF Reading, n
<1>15. todo2 \in [1..n -> Nat] /\ todo2[q] = j /\ \A r \in 1..n : r # q => todo2[r] = todo[r]
  <2> HIDE DEF i, o, name
  <2>1. q \in 1..n
    BY <1>1, Zenon
  <2>2. j \in Nat
    BY ONLY <1>1, j \in 0..i - 1
  <2> HIDE DEF todo2
  <2>3. todo2 = [todo EXCEPT ![q] = j]
    BY ZenonT(40) DEF todo2
  <2> QED BY ONLY <1>14, <2>1, <2>2, <2>3, Updated
<1> HIDE DEF todo2
<1>16. \A r \in 1..n : PartCopy(of, same, objects[of[r]], then[r], todo2[r])
  <2> SUFFICES ASSUME NEW r \in 1..n PROVE PartCopy(of, same, objects[of[r]], then[r], todo2[r])
    OBVIOUS
  <2>1. CASE r = q
    BY <1>6, <1>15, <2>1, Zenon
  <2>2. CASE r # q
    <3>1. PartCopy(of, same, objects[of[r]], copies[r], todo[r])
      BY ZenonT(40) DEF Reading, n
    <3> QED BY <1>7, <1>15, <2>2, <3>1, Zenon
  <2> QED BY <2>1, <2>2, SMTT(40)
<1>17. \A r \in 1..n : todo2[r] # 0 => \E k \in 1..d : next[k].object = r
  <2> SUFFICES ASSUME NEW r \in 1..n, todo2[r] # 0 PROVE \E k \in 1..d : next[k].object = r
    OBVIOUS
  <2>1. CASE r = q
    BY <1>8, <1>10, <1>11, <2>1, Zenon
  <2>2. CASE r # q
    <3>1. todo[r] # 0
      BY <1>15, <2>2, Zenon
    <3>2. \E k \in 1..d : calls[k].object = r
      BY <3>1, Zenon DEF Reading, n, d
    <3> QED BY <1>12, <3>2, Zenon
  <2> QED BY <2>1, <2>2, SMTT(40)
<1>18. ASSUME NEW k \in 1..d
       PROVE  Found(objects, m, memory, next[k].cursor, of[next[k].object], todo2[next[k].object], Limit(memory, next, k))
  <2>0. Limit(memory, next, k) = Limit(memory, calls, k)
    BY ONLY <1>10, k \in 1..d, SameLimits, Zenon
  <2>1. CASE k = d
    <3>1. Limit(memory, next, k) = limit /\ of[q] = o
      BY <2>0, <2>1, Zenon DEF limit, d
    <3> QED BY <1>2, <1>8, <1>10, <1>15, <2>1, <3>1, Zenon
  <2>2. CASE k \in 1..d - 1
    <3>1. Found(objects, m, memory, calls[k].cursor, of[calls[k].object], todo[calls[k].object], Limit(memory, calls, k))
      BY Zenon DEF Reading, d
    <3>2. next[k] = calls[k] /\ todo2[calls[k].object] = todo[calls[k].object]
      BY <1>10, <1>13, <1>15, <2>2, Zenon
    <3> QED BY <2>0, <3>1, <3>2, Zenon
  <2> QED BY <1>11, <2>1, <2>2, Zenon
<1>19. \A k, l \in 1..d : next[k].object = next[l].object => k = l
  BY <1>12, Zenon DEF Reading, d
<1>20. ASSUME NEW k \in 1..d - 1
       PROVE  /\ todo2[next[k].object] # 0
              /\ Refers(objects, of[next[k].object], todo2[next[k].object], of[next[k + 1].object])
  <2>1. /\ todo[calls[k].object] # 0
        /\ Refers(objects, of[calls[k].object], todo[calls[k].object], of[calls[k + 1].object])
    BY Zenon DEF Reading, d
  <2>2. /\ todo2[calls[k].object] = todo[calls[k].object]
        /\ next[k].object = calls[k].object /\ next[k + 1].object = calls[k + 1].object
    BY <1>11, <1>12, <1>13, <1>15, Zenon
  <2> QED BY <2>1, <2>2, Zenon
<1>21. Reading(objects, parts, m, memory, then, next, of, todo2, same)
  BY <1>7, <1>10, <1>14, <1>15, <1>16, <1>17, <1>18, <1>19, <1>20, Zenon DEF Reading
<1>22. next[1].object = calls[1].object
  BY <1>11, <1>12, Zenon
<1>23. IsNext(objects, parts, m, memory, same, copies, calls, of, then, next)
  BY <1>5, <1>7, <1>10, <1>21, <1>22, Zenon DEF IsNext, n
<1> QED BY <1>23, Zenon DEF next, then, call2, at, q, call
-----------------------------------------------------------------------------
\* The objects that v refers to, directly or not, among objects.
ClosedIn(objects, v, P) ==
  /\ IsObject(v) => v.ref \in P
  /\ \A o \in P : \A i \in DOMAIN objects[o].props : IsObject(objects[o].props[i]) => objects[o].props[i].ref \in P
PartsIn(objects, v) == {o \in DOMAIN objects : \A P \in SUBSET DOMAIN objects : ClosedIn(objects, v, P) => o \in P}

\* They are Parts.
LEMMA PartsOfValue == Parts = PartsIn(heap, value)
BY Zenon DEF Parts, Closed, PartsIn, ClosedIn

\* What one of them refers to is another.
LEMMA PartsClosed ==
  ASSUME NEW objects, IsHeap(objects), NEW v, IsGValue(v, Len(objects))
  PROVE  /\ PartsIn(objects, v) \subseteq 1..Len(objects)
         /\ IsObject(v) => v.ref \in PartsIn(objects, v)
         /\ \A o \in PartsIn(objects, v) : \A i \in 1..Size(objects, o) :
              IsObject(objects[o].props[i]) => objects[o].props[i].ref \in PartsIn(objects, v)
<1>1. Len(objects) \in Nat /\ DOMAIN objects = 1..Len(objects)
  <2>1. objects \in Seq(HeapRecord)
    BY Heaps, Zenon
  <2> QED BY <2>1
<1>2. PartsIn(objects, v) \subseteq 1..Len(objects)
  BY <1>1 DEF PartsIn
<1>3. IsObject(v) => v.ref \in PartsIn(objects, v)
  <2>1. IsObject(v) => v.ref \in DOMAIN objects
    BY <1>1, References, Zenon
  <2> QED BY <2>1, Zenon DEF PartsIn, ClosedIn
<1>4. ASSUME NEW o \in PartsIn(objects, v), NEW i \in 1..Size(objects, o), IsObject(objects[o].props[i])
      PROVE  objects[o].props[i].ref \in PartsIn(objects, v)
  <2>1. o \in 1..Len(objects)
    BY <1>2
  <2>2. objects[o].props[i].ref \in DOMAIN objects /\ DOMAIN objects[o].props = 1..Size(objects, o)
    BY <1>1, <1>4, <2>1, HeapObject, HeapProperty, References, Zenon
  <2> QED BY <1>4, <2>2, Zenon DEF PartsIn, ClosedIn
<1> QED BY <1>2, <1>3, <1>4, Zenon

\* A reference to an object, in place of another.
LEMMA ObjectGValue ==
  ASSUME NEW n \in Nat, NEW r \in 1..n, NEW k, NEW u, IsGValue(u, k), IsObject(u)
  PROVE  /\ IsGValue(Object(r), n) /\ IsObject(Object(r)) /\ Object(r).ref = r /\ Object(r).type = "OBJECT"
<1> DEFINE v == Object(r)
<1>1. v = [type |-> "OBJECT", bytes |-> <<>>, ref |-> r] /\ <<>> \in Seq(Nat) /\ r \in Nat /\ r <= n /\ r # 0
  BY DEF Object
<1>2. "OBJECT" \in STRING
  BY DEF IsGValue, GValue, IsObject
<1> HIDE DEF v
<1>3. v.type = "OBJECT" /\ v.bytes = <<>> /\ v.ref = r /\ v \in GValue
  BY <1>1, <1>2 DEF GValue
<1>4. v.type \notin DOMAIN Width /\ v.type # "BOOLEAN" /\ v.type \notin Real /\ v.type # "STRING"
  BY <1>3, Widths DEF Real
<1>5. IsGValue(v, n)
  BY <1>1, <1>3, <1>4 DEF IsGValue
<1>6. NullObject.ref = 0
  BY DEF NullObject, Object
<1> QED BY <1>1, <1>3, <1>5, <1>6 DEF IsObject, v
-----------------------------------------------------------------------------
\* The record of v.
RecordInv(objects, m, v, bytes) ==
  \E f \in Seq(Nat) :
    /\ bytes = Stored(f)
    /\ IF Storable(v) THEN IsFrame(objects, m, Chunked(objects, m), v, f) ELSE f = <<>>

\* The objects made are copies of parts of v, the outermost call is for v.
ReadInv(objects, m, v, memory, classes, same, copies, calls) ==
  /\ IsObject(v) /\ objects[v.ref].class \in classes /\ calls # <<>>
  /\ \E of, todo : /\ Reading(objects, PartsIn(objects, v), m, memory, copies, calls, of, todo, same)
                   /\ of[calls[1].object] = v.ref

\* How the deserialisation of v ends.
Complete(objects, v, same, copies, w) ==
  \E of \in [1..Len(copies) -> PartsIn(objects, v)] :
    /\ Copied(of, v, w, same)
    /\ \A r \in 1..Len(copies) : PartCopy(of, same, objects[of[r]], copies[r], 0)
DoneInv(objects, v, classes, same, copies, w, how) ==
  /\ how \in {"value", "false", "abort", "overrun"}
  /\ how = "value" => Storable(v) /\ Complete(objects, v, same, copies, w)
  /\ how = "false" => UnreadableIn(objects, classes, v)
  /\ how = "abort" => /\ ~UnreadableIn(objects, classes, v)
                      /\ \E o \in PartsIn(objects, v) : \E i \in 1..Size(objects, o) :
                           UnreadableIn(objects, classes, objects[o].props[i])
  /\ how = "overrun" => ~Storable(v)

\* What has been read: reals have two digits, what cannot be stored or set is as in a new object.
TwoDigits(v) == v.type \in Real => \E x \in 0..99 : v = Scalar(v.type, <<10 * x>>)
StoredOnce(objects, v) ==
  /\ TwoDigits(v)
  /\ \A o \in 1..Len(objects) : \A i \in 1..Size(objects, o) :
       LET p == Classes[objects[o].class][i] IN
       /\ TwoDigits(objects[o].props[i])
       /\ ~(p.writable /\ CanSerialize(p.type)) => objects[o].props[i] = Default(p.type)

\* A value that is no object has a record at once.
LEMMA RecordOf ==
  ASSUME NEW objects, IsHeap(objects), NEW v, IsGValue(v, Len(objects)), ~IsObject(v), NEW m \in Machine
  PROVE  RecordInv(objects, m, v, Stored(WriteScalar(v, m))) /\ Stored(WriteScalar(v, m)) \in Seq(Nat)
<1>1. Len(objects) \in Nat
  BY Zenon, LengthOf DEF IsHeap
<1>2. CASE Storable(v)
  <2>1. IsFrame(objects, m, Chunked(objects, m), v, WriteScalar(v, m))
    BY <1>1, <1>2, ScalarIsFrame, Zenon
  <2>2. WriteScalar(v, m) \in Seq(Nat)
    BY <2>1, Zenon DEF IsFrame
  <2> QED BY <1>2, <2>1, <2>2, RecordHeld, Zenon DEF RecordInv
<1>3. CASE ~Storable(v)
  <2>1. WriteScalar(v, m) = <<>>
    BY <1>1, <1>3, References, Zenon DEF Failed
  <2>2. <<>> \in Seq(Nat)
    OBVIOUS
  <2> QED BY <1>3, <2>1, <2>2, RecordHeld, Zenon DEF RecordInv
<1> QED BY <1>2, <1>3

\* What write_object has for a property that is no object.
LEMMA FrameOrNone ==
  ASSUME NEW objects, NEW n \in Nat, NEW v, IsGValue(v, n), ~IsObject(v), NEW m \in Machine, NEW S
  PROVE  LET f == IF CanSerialize(v.type) THEN WriteScalar(v, m) ELSE Failed IN
         \/ f = Failed /\ ~Storable(v)
         \/ IsFrame(objects, m, S, v, f)
<1>1. CASE Storable(v)
  BY <1>1, ScalarIsFrame, Zenon DEF Storable
<1>2. CASE ~Storable(v)
  BY <1>2, References, Zenon
<1> QED BY <1>1, <1>2

\* read_object begins at the outermost object.
LEMMA ReadBegins ==
  ASSUME NEW objects, IsHeap(objects), NEW m, NEW v, IsGValue(v, Len(objects)), IsObject(v),
         NEW classes, objects[v.ref].class \in classes, NEW memory, NEW same,
         NEW cursor \in Nat, NEW i \in Nat, Found(objects, m, memory, cursor, v.ref, i, Len(memory) + 1),
         Skips(objects, v.ref, i, Size(objects, v.ref) + 1),
         NEW copies, copies = <<>>, NEW calls, calls = <<>>
  PROVE  LET more == Append(copies, New(objects[v.ref].class))
             down == Append(calls, ReadCall(Len(copies) + 1, cursor)) IN
         IsHeap(more) /\ down \in Seq(ReadCalls(more)) /\ ReadInv(objects, m, v, memory, classes, same, more, down)
<1> DEFINE parts == PartsIn(objects, v)
           o == v.ref
           new == Len(copies) + 1
           more == Append(copies, New(objects[o].class))
           down == Append(calls, ReadCall(new, cursor))
           none == [r \in 1..0 |-> 0]
<1>1. o \in parts /\ parts \subseteq 1..Len(objects)
  BY PartsClosed, Zenon
<1>2. IsHeap(copies) /\ calls \in Seq(ReadCalls(copies)) /\ Len(copies) = 0 /\ Len(calls) = 0
  BY DEF IsHeap
<1> HIDE DEF parts
<1>3. Reading(objects, parts, m, memory, copies, calls, none, none, same)
  <2>1. 1..Len(copies) = {} /\ 1..Len(calls) = {} /\ 1..Len(calls) - 1 = {}
    BY <1>2
  <2>2. none \in [1..Len(copies) -> parts] /\ none \in [1..Len(copies) -> Nat]
    BY <1>2
  <2> QED BY <2>1, <2>2, Zenon DEF Reading
<1> HIDE DEF none
<1>4. IsDown(objects, parts, m, memory, same, copies, calls, none, o, more, down)
  <2> DEFINE limit == IF calls = <<>> THEN Len(memory) + 1 ELSE NextAt(memory, Last(calls).cursor)
  <2>1. calls # <<>> => /\ none[Last(calls).object] # 0
                        /\ Refers(objects, none[Last(calls).object], none[Last(calls).object], o)
    OBVIOUS
  <2>2. Found(objects, m, memory, cursor, o, i, limit) /\ Skips(objects, o, i, Size(objects, o) + 1)
    <3>1. limit = Len(memory) + 1
      BY Zenon
    <3> QED BY <3>1, Zenon
  <2>3. limit = IF calls = <<>> THEN Len(memory) + 1 ELSE NextAt(memory, Last(calls).cursor)
    OBVIOUS
  <2> HIDE DEF o, limit, new
  <2>4. new = Len(copies) + 1
    BY DEF new
  <2> QED BY <1>1, <1>2, <1>3, <2>1, <2>2, <2>3, ReadDown, Zenon DEF new
<1> HIDE DEF more, down
<1>5. ReadInv(objects, m, v, memory, classes, same, more, down)
  BY <1>4, Zenon DEF IsDown, ReadInv, parts, o
<1> QED BY <1>4, <1>5, Zenon DEF IsDown, more, down, new, o

\* A turn of the loop of read_object.
Assigned(objects, m, v, memory, classes, same, copies, calls, w) ==
  LET call == Last(calls)
      then == SetIn(copies, call.object, Name(memory, call.cursor), w)
      next == Append(Front(calls), NextIn(memory, call)) IN
  IsHeap(then) /\ next \in Seq(ReadCalls(then)) /\ ReadInv(objects, m, v, memory, classes, same, then, next)
Descended(objects, m, v, memory, classes, same, copies, calls, at) ==
  LET more == Append(copies, New(Name(memory, at + 1)))
      down == Append(calls, ReadCall(Len(copies) + 1, at + 2 + Byte(memory, at + 1))) IN
  IsHeap(more) /\ down \in Seq(ReadCalls(more)) /\ ReadInv(objects, m, v, memory, classes, same, more, down)

LEMMA AssignStep ==
  ASSUME NEW objects, IsHeap(objects), NEW m, NEW v, IsGValue(v, Len(objects)), NEW memory, NEW classes, NEW same,
         IsObject(v), objects[v.ref].class \in classes,
         NEW copies, IsHeap(copies), NEW calls \in Seq(ReadCalls(copies)), calls # <<>>, NEW of, NEW todo,
         Reading(objects, PartsIn(objects, v), m, memory, copies, calls, of, todo, same), of[calls[1].object] = v.ref,
         NEW u, u = objects[of[Last(calls).object]].props[todo[Last(calls).object]],
         todo[Last(calls).object] # 0, Storable(u),
         NEW w, IsGValue(w, Len(copies)), w.type = u.type, Copied(of, u, w, same)
  PROVE  Assigned(objects, m, v, memory, classes, same, copies, calls, w)
<1> DEFINE parts == PartsIn(objects, v)
           call == Last(calls)
           then == SetIn(copies, call.object, Name(memory, call.cursor), w)
           next == Append(Front(calls), NextIn(memory, call))
<1>1. parts \subseteq 1..Len(objects)
  BY PartsClosed, ZenonT(40)
<1>2. Reading(objects, parts, m, memory, copies, calls, of, todo, same)
  OBVIOUS
<1> HIDE DEF parts
<1>3. IsNext(objects, parts, m, memory, same, copies, calls, of, then, next)
  BY <1>1, <1>2, ReadNext, Zenon
<1> HIDE DEF then, next
<1>4. ReadInv(objects, m, v, memory, classes, same, then, next)
  BY <1>3, Zenon DEF IsNext, ReadInv, parts
<1> QED BY <1>3, <1>4, Zenon DEF IsNext, Assigned, then, next, call

\* read_object calls itself.
LEMMA DescendStep ==
  ASSUME NEW objects, IsHeap(objects), NEW m, NEW v, IsGValue(v, Len(objects)), NEW memory, NEW classes, NEW same,
         IsObject(v), objects[v.ref].class \in classes,
         NEW copies, IsHeap(copies), NEW calls \in Seq(ReadCalls(copies)), calls # <<>>, NEW of, NEW todo,
         Reading(objects, PartsIn(objects, v), m, memory, copies, calls, of, todo, same), of[calls[1].object] = v.ref,
         todo[Last(calls).object] # 0, NEW o \in PartsIn(objects, v),
         Refers(objects, of[Last(calls).object], todo[Last(calls).object], o),
         NEW at \in Nat, Name(memory, at + 1) = objects[o].class, at + 2 + Byte(memory, at + 1) \in Nat, NEW i \in Nat,
         Found(objects, m, memory, at + 2 + Byte(memory, at + 1), o, i, NextAt(memory, Last(calls).cursor)),
         Skips(objects, o, i, Size(objects, o) + 1)
  PROVE  Descended(objects, m, v, memory, classes, same, copies, calls, at)
<1> DEFINE parts == PartsIn(objects, v)
           new == Len(copies) + 1
           more == Append(copies, New(objects[o].class))
           cursor == at + 2 + Byte(memory, at + 1)
           down == Append(calls, ReadCall(new, cursor))
<1>1. parts \subseteq 1..Len(objects)
  BY PartsClosed, Zenon
<1>2. Reading(objects, parts, m, memory, copies, calls, of, todo, same) /\ o \in parts
  OBVIOUS
<1> DEFINE limit == NextAt(memory, Last(calls).cursor)
<1>3. cursor \in Nat /\ Found(objects, m, memory, cursor, o, i, limit)
  OBVIOUS
<1> HIDE DEF parts, cursor
<1>4. IsDown(objects, parts, m, memory, same, copies, calls, of, o, more, down)
  <2>1. limit = IF calls = <<>> THEN Len(memory) + 1 ELSE NextAt(memory, Last(calls).cursor)
    BY Zenon
  <2> HIDE DEF limit
  <2> QED BY <1>1, <1>2, <1>3, <2>1, ReadDown, Zenon
<1>5. calls[1].object \in 1..Len(copies)
  <2>1. 1 \in 1..Len(calls)
    BY LengthOf
  <2>2. calls[1] \in ReadCalls(copies)
    BY <2>1, ElementOf, Zenon
  <2> QED BY <2>2 DEF ReadCalls
<1> HIDE DEF more, down
<1>6. ReadInv(objects, m, v, memory, classes, same, more, down)
  BY <1>4, <1>5, Zenon DEF IsDown, ReadInv, parts
<1>7. /\ more = Append(copies, New(Name(memory, at + 1)))
      /\ down = Append(calls, ReadCall(Len(copies) + 1, at + 2 + Byte(memory, at + 1)))
  BY Zenon DEF more, down, new, cursor
<1> QED BY <1>4, <1>6, <1>7, Zenon DEF IsDown, Descended

\* What read_object does with what read_value made of a property.
Turn(objects, m, v, memory, classes, same, copies, calls, at, read) ==
  \/ read.out = "value" /\ Assigned(objects, m, v, memory, classes, same, copies, calls, read.v)
  \/ read.out = "object" /\ Descended(objects, m, v, memory, classes, same, copies, calls, at)
  \/ /\ read.out = "false" /\ ~UnreadableIn(objects, classes, v)
     /\ \E o \in PartsIn(objects, v) : \E i \in 1..Size(objects, o) :
          UnreadableIn(objects, classes, objects[o].props[i])

LEMMA PropertyStep ==
  ASSUME NEW objects, IsHeap(objects), NEW m1 \in Machine, NEW m2 \in Machine, NEW v, IsGValue(v, Len(objects)),
         NEW memory, NEW classes, NEW same, same = (m1.point = m2.point),
         NEW copies, IsHeap(copies), NEW calls \in Seq(ReadCalls(copies)),
         ReadInv(objects, m1, v, memory, classes, same, copies, calls), Byte(memory, Last(calls).cursor) # 0
  PROVE  LET at == Last(calls).cursor IN
         Turn(objects, m1, v, memory, classes, same, copies, calls, FrameAt(memory, at),
              ReadValue(memory, FrameAt(memory, at), FrameLength(memory, at), m2, classes))
<1> DEFINE parts == PartsIn(objects, v)
           call == Last(calls)
           at == call.cursor
           fat == FrameAt(memory, at)
           length == FrameLength(memory, at)
           read == ReadValue(memory, fat, length, m2, classes)
<1>1. PICK of, todo : Reading(objects, parts, m1, memory, copies, calls, of, todo, same) /\ of[calls[1].object] = v.ref
  BY Zenon DEF ReadInv
<1>2. IsObject(v) /\ objects[v.ref].class \in classes /\ calls # <<>>
  BY Zenon DEF ReadInv
<1>3. Len(objects) \in Nat /\ Len(copies) \in Nat
  BY Zenon, LengthOf DEF IsHeap
<1>4. parts \subseteq 1..Len(objects)
  BY PartsClosed, Zenon
<1> DEFINE o == of[call.object]
           i == todo[call.object]
           u == objects[o].props[i]
<1> DEFINE limit == Limit(memory, calls, Len(calls))
<1>5. o \in parts /\ o \in 1..Len(objects) /\ i # 0 /\ Ahead(objects, m1, memory, at, o, i, limit)
  <2> HIDE DEF parts
  <2>1. o \in parts /\ o \in 1..Len(objects)
        /\ IF i = 0 THEN Byte(memory, at) = 0 ELSE Ahead(objects, m1, memory, at, o, i, limit)
    BY <1>1, <1>2, <1>4, InnermostRead, Zenon
  <2> QED BY <2>1
<1>6. i \in 1..Size(objects, o) /\ fat \in Nat
  BY <1>5, Zenon DEF Ahead
<1>7. PICK f \in Seq(Nat) : /\ IsFrame(objects, m1, Chunked(objects, m1), u, f)
                            /\ length = Len(f) /\ Holds(memory, fat, f)
  BY <1>5, Zenon DEF Ahead
<1>8. IsGValue(u, Len(objects))
  BY <1>5, <1>6, HeapProperty, Zenon
<1>9. Storable(u)
  BY <1>3, <1>7, <1>8, References, Zenon DEF IsFrame
<1>10. Reading(objects, PartsIn(objects, v), m1, memory, copies, calls, of, todo, same)
  BY <1>1
<1>0. NextAt(memory, Last(calls).cursor) = fat + Len(f)
  BY <1>7, Zenon DEF NextAt
<1> HIDE DEF parts, u, fat, length, o, i, at, limit
<1> DEFINE cursor == fat + 2 + Byte(memory, fat + 1)
<1>11. IF UnreadableIn(objects, classes, u) THEN read = Fails("false")
       ELSE IF IsObject(u)
            THEN /\ read = Fails("object") /\ Name(memory, fat + 1) = objects[u.ref].class /\ cursor \in Nat
                 /\ \E k \in Nat : /\ Found(objects, m1, memory, cursor, u.ref, k, fat + Len(f))
                                   /\ Skips(objects, u.ref, k, Size(objects, u.ref) + 1)
            ELSE \E w : read = Value(w) /\ ReadAs(u, w, same)
  <2> DEFINE r2 == ReadValue(memory, fat, Len(f), m2, classes)
  <2>1. IF UnreadableIn(objects, classes, u) THEN r2 = Fails("false")
        ELSE IF IsObject(u)
             THEN /\ r2 = Fails("object") /\ Name(memory, fat + 1) = objects[u.ref].class /\ cursor \in Nat
                  /\ \E k \in Nat : /\ Found(objects, m1, memory, cursor, u.ref, k, fat + Len(f))
                                    /\ Skips(objects, u.ref, k, Size(objects, u.ref) + 1)
             ELSE \E w : r2 = Value(w) /\ ReadAs(u, w, m1.point = m2.point)
    BY ONLY <1>6, <1>7, <1>8, IsHeap(objects), m1 \in Machine, m2 \in Machine, FrameRead
  <2>2. read = r2
    BY <1>7, Zenon
  <2> HIDE DEF read, r2, cursor
  <2> QED BY ONLY <2>1, <2>2, same = (m1.point = m2.point), Zenon
<1> HIDE DEF read, cursor
<1>12. CASE UnreadableIn(objects, classes, u)
  <2>1. read.out = "false"
    BY <1>11, <1>12 DEF Fails
  <2>2. ~UnreadableIn(objects, classes, v)
    BY <1>2 DEF UnreadableIn, IsObject, Real
  <2>3. Turn(objects, m1, v, memory, classes, same, copies, calls, fat, read)
    BY <1>5, <1>6, <1>12, <2>1, <2>2, Zenon DEF Turn, parts, u
  <2> QED BY <2>3, Zenon DEF read, fat, length, at, call
<1>13. CASE ~UnreadableIn(objects, classes, u) /\ IsObject(u)
  <2>1. read = Fails("object") /\ Name(memory, fat + 1) = objects[u.ref].class /\ cursor \in Nat
    BY <1>11, <1>13
  <2>2. read.out = "object"
    BY <2>1 DEF Fails
  <2>3. PICK k \in Nat : /\ Found(objects, m1, memory, cursor, u.ref, k, fat + Len(f))
                         /\ Skips(objects, u.ref, k, Size(objects, u.ref) + 1)
    BY <1>11, <1>13, Zenon
  <2>4. u.ref \in PartsIn(objects, v)
    BY <1>5, <1>6, <1>13, PartsClosed, Zenon DEF parts, u
  <2>5. Refers(objects, of[Last(calls).object], todo[Last(calls).object], u.ref)
    BY <1>13, Zenon DEF Refers, u, o, i
  <2>6. todo[Last(calls).object] # 0
    BY <1>5 DEF i
  <2>7. Descended(objects, m1, v, memory, classes, same, copies, calls, fat)
    <3> DEFINE p == u.ref
    <3>1. /\ Name(memory, fat + 1) = objects[p].class /\ fat + 2 + Byte(memory, fat + 1) \in Nat
          /\ Found(objects, m1, memory, fat + 2 + Byte(memory, fat + 1), p, k, NextAt(memory, Last(calls).cursor))
          /\ Skips(objects, p, k, Size(objects, p) + 1)
          /\ p \in PartsIn(objects, v) /\ Refers(objects, of[Last(calls).object], todo[Last(calls).object], p)
      BY <1>0, <2>1, <2>3, <2>4, <2>5, Zenon DEF cursor
    <3> HIDE DEF p
    <3> QED BY <1>1, <1>2, <1>6, <1>10, <2>6, <3>1, DescendStep, Zenon
  <2>8. Turn(objects, m1, v, memory, classes, same, copies, calls, fat, read)
    BY <2>2, <2>7, Zenon DEF Turn
  <2> QED BY <2>8, Zenon DEF read, fat, length, at, call
<1>14. CASE ~UnreadableIn(objects, classes, u) /\ ~IsObject(u)
  <2>1. PICK w : read = Value(w) /\ ReadAs(u, w, same)
    BY <1>11, <1>14
  <2>2. read.out = "value" /\ read.v = w
    BY <2>1 DEF Value
  <2>3. u.type # "OBJECT"
    BY <1>3, <1>8, <1>9, <1>14, References, Zenon
  <2>4. IsGValue(w, Len(copies)) /\ w.type = u.type
    BY <1>3, <1>8, <2>1, <2>3, ReadAsGValue, Zenon
  <2>5. Copied(of, u, w, same)
    BY <1>14, <2>1, Zenon DEF Copied
  <2>6. u = objects[of[Last(calls).object]].props[todo[Last(calls).object]] /\ todo[Last(calls).object] # 0
    BY <1>5 DEF u, o, i
  <2>7. Assigned(objects, m1, v, memory, classes, same, copies, calls, w)
    BY <1>1, <1>2, <1>9, <1>10, <2>4, <2>5, <2>6, AssignStep, ZenonT(40)
  <2>8. Turn(objects, m1, v, memory, classes, same, copies, calls, fat, read)
    BY <2>2, <2>7, Zenon DEF Turn
  <2> QED BY <2>8, Zenon DEF read, fat, length, at, call
<1> QED BY <1>12, <1>13, <1>14

\* The innermost call of read_object ends, and the one around it sets the object.
LEMMA EndStep ==
  ASSUME NEW objects, IsHeap(objects), NEW m, NEW v, IsGValue(v, Len(objects)), NEW memory, NEW classes, NEW same,
         NEW copies, IsHeap(copies), NEW calls \in Seq(ReadCalls(copies)),
         ReadInv(objects, m, v, memory, classes, same, copies, calls),
         Byte(memory, Last(calls).cursor) = 0, Front(calls) # <<>>
  PROVE  Assigned(objects, m, v, memory, classes, same, copies, Front(calls), Object(Last(calls).object))
<1> DEFINE parts == PartsIn(objects, v)
           call == Last(calls)
           outer == Front(calls)
<1>1. PICK of, todo : Reading(objects, parts, m, memory, copies, calls, of, todo, same) /\ of[calls[1].object] = v.ref
  BY Zenon DEF ReadInv
<1>2. IsObject(v) /\ objects[v.ref].class \in classes /\ calls # <<>>
  BY Zenon DEF ReadInv
<1>3. Len(objects) \in Nat /\ Len(copies) \in Nat
  BY Zenon, LengthOf DEF IsHeap
<1>4. parts \subseteq 1..Len(objects)
  BY PartsClosed, Zenon
<1> HIDE DEF parts
<1>5. call.object \in 1..Len(copies) /\ todo[call.object] = 0
  <2>1. /\ call.object \in 1..Len(copies)
        /\ IF todo[call.object] = 0 THEN Byte(memory, call.cursor) = 0
           ELSE Ahead(objects, m, memory, call.cursor, of[call.object], todo[call.object], Limit(memory, calls, Len(calls)))
    BY <1>1, <1>2, <1>4, InnermostRead, Zenon
  <2> QED BY <2>1, Zenon DEF Ahead
<1>6. /\ outer \in Seq(ReadCalls(copies)) /\ outer[1] = calls[1]
      /\ Reading(objects, parts, m, memory, copies, outer, of, todo, same)
      /\ Refers(objects, of[Last(outer).object], todo[Last(outer).object], of[call.object])
  BY <1>1, <1>2, <1>5, ReadUp, Zenon
<1> HIDE DEF call, outer
<1> DEFINE o == of[Last(outer).object]
           i == todo[Last(outer).object]
           u == objects[o].props[i]
           w == Object(call.object)
<1>7. IsObject(u) /\ u.ref = of[call.object]
  BY <1>6, Zenon DEF Refers
<1>8. outer # <<>>
  BY DEF outer
<1> DEFINE limit == Limit(memory, outer, Len(outer))
<1>9. o \in 1..Len(objects) /\ (i = 0 \/ Ahead(objects, m, memory, Last(outer).cursor, o, i, limit)) /\ i \in Nat
  <2>1. /\ o \in 1..Len(objects) /\ i \in Nat
        /\ IF i = 0 THEN Byte(memory, Last(outer).cursor) = 0 ELSE Ahead(objects, m, memory, Last(outer).cursor, o, i, limit)
    BY <1>4, <1>6, <1>8, InnermostRead, Zenon
  <2> QED BY <2>1, Zenon
<1> HIDE DEF limit
<1>10. i # 0
  <2>1. PICK k \in Nat : k = Len(calls)
    BY LengthOf, Zenon
  <2>2. k - 1 \in 1..k - 1 /\ outer \in Seq(ReadCalls(copies)) /\ Last(outer) = calls[k - 1]
    <3>1. Len(outer) = k - 1 /\ Len(outer) # 0 /\ \A l \in 1..k - 1 : outer[l] = calls[l]
      <4>1. Len(outer) = k - 1 /\ \A l \in 1..k - 1 : outer[l] = calls[l]
        BY <1>2, <2>1, Popped DEF outer
      <4> QED BY <4>1, <1>6, <1>8
    <3> QED BY <1>6, <3>1 DEF Last
  <2>3. todo[calls[k - 1].object] # 0
    BY <1>1, <2>1, <2>2, Zenon DEF Reading
  <2> QED BY <2>2, <2>3, Zenon
<1>11. i \in 1..Size(objects, o)
  BY <1>9, <1>10, Zenon DEF Ahead
<1>12. IsGValue(u, Len(objects))
  BY <1>9, <1>11, HeapProperty, Zenon
<1>13. Storable(u) /\ u.type = "OBJECT"
  BY <1>3, <1>7, <1>12, References, Zenon
<1>14. IsGValue(w, Len(copies)) /\ IsObject(w) /\ w.ref = call.object /\ w.type = u.type
  <2>1. IsGValue(w, Len(copies)) /\ IsObject(w) /\ w.ref = call.object /\ w.type = "OBJECT"
    <3> DEFINE n == Len(objects)
    <3>1. IsGValue(u, n)
      BY <1>12
    <3> HIDE DEF n, u
    <3> QED BY <1>3, <1>5, <1>7, <3>1, ObjectGValue, Zenon
  <2> QED BY <1>13, <2>1
<1>15. Copied(of, u, w, same)
  <2>1. DOMAIN of = 1..Len(copies)
    BY <1>1 DEF Reading
  <2> QED BY <1>5, <1>7, <1>14, <2>1, Zenon DEF Copied
<1>16. of[outer[1].object] = v.ref /\ Reading(objects, PartsIn(objects, v), m, memory, copies, outer, of, todo, same)
  BY <1>1, <1>6 DEF parts
<1> HIDE DEF w
<1>17. u = objects[of[Last(outer).object]].props[todo[Last(outer).object]] /\ todo[Last(outer).object] # 0
  BY <1>10
<1> HIDE DEF u, o, i
<1>18. Assigned(objects, m, v, memory, classes, same, copies, outer, w)
  BY <1>2, <1>6, <1>8, <1>13, <1>14, <1>15, <1>16, <1>17, AssignStep, Zenon
<1> QED BY <1>18 DEF w, outer, call

\* The outermost call ends: all has been read.
LEMMA ReadDone ==
  ASSUME NEW objects, IsHeap(objects), NEW m, NEW v, IsGValue(v, Len(objects)), NEW memory, NEW classes, NEW same,
         NEW copies, IsHeap(copies), NEW calls \in Seq(ReadCalls(copies)),
         ReadInv(objects, m, v, memory, classes, same, copies, calls),
         Byte(memory, Last(calls).cursor) = 0, Front(calls) = <<>>
  PROVE  /\ Storable(v) /\ Complete(objects, v, same, copies, Object(Last(calls).object))
         /\ IsGValue(Object(Last(calls).object), Len(copies))
<1> DEFINE parts == PartsIn(objects, v)
           call == Last(calls)
           q == call.object
<1>1. PICK of, todo : Reading(objects, parts, m, memory, copies, calls, of, todo, same) /\ of[calls[1].object] = v.ref
  BY Zenon DEF ReadInv
<1>2. IsObject(v) /\ calls # <<>>
  BY Zenon DEF ReadInv
<1>3. Len(objects) \in Nat /\ Len(copies) \in Nat
  BY Zenon, LengthOf DEF IsHeap
<1>4. parts \subseteq 1..Len(objects)
  BY PartsClosed, Zenon
<1> HIDE DEF parts
<1>5. q \in 1..Len(copies) /\ todo[q] = 0
  <2>1. /\ q \in 1..Len(copies)
        /\ IF todo[q] = 0 THEN Byte(memory, call.cursor) = 0
           ELSE Ahead(objects, m, memory, call.cursor, of[q], todo[q], Limit(memory, calls, Len(calls)))
    BY <1>1, <1>2, <1>4, InnermostRead, Zenon
  <2> QED BY <2>1, Zenon DEF Ahead
<1>6. Len(calls) = 1 /\ call = calls[1]
  <2>1. /\ Len(calls) \in Nat /\ Len(calls) > 0 /\ call = calls[Len(calls)] /\ Len(Front(calls)) = Len(calls) - 1
    BY <1>2, Popped, Zenon
  <2>2. Len(Front(calls)) = 0
    OBVIOUS
  <2>3. Len(calls) = 1
    BY <2>1, <2>2
  <2> QED BY <2>1, <2>3
<1> HIDE DEF call
<1>7. ASSUME NEW r \in 1..Len(copies) PROVE todo[r] = 0
  <2> SUFFICES ASSUME todo[r] # 0 PROVE FALSE
    OBVIOUS
  <2>1. PICK k \in 1..Len(calls) : calls[k].object = r
    BY <1>1, Zenon DEF Reading
  <2>2. k = 1
    BY <1>6
  <2> QED BY <1>5, <1>6, <2>1, <2>2
<1>8. ASSUME NEW r \in 1..Len(copies) PROVE PartCopy(of, same, objects[of[r]], copies[r], 0)
  <2>1. PartCopy(of, same, objects[of[r]], copies[r], todo[r])
    BY <1>1, Zenon DEF Reading
  <2> QED BY <1>7, <2>1
<1>9. IsGValue(Object(q), Len(copies)) /\ IsObject(Object(q)) /\ Object(q).ref = q
  <2> DEFINE n == Len(objects)
  <2>1. IsGValue(v, n)
    OBVIOUS
  <2> HIDE DEF n, q
  <2> QED BY <1>2, <1>3, <1>5, <2>1, ObjectGValue, Zenon
<1>10. of \in [1..Len(copies) -> parts]
  BY <1>1, Zenon DEF Reading
<1>11. Copied(of, v, Object(q), same)
  <2>1. DOMAIN of = 1..Len(copies) /\ of[q] = v.ref
    BY <1>1, <1>6, <1>10
  <2> QED BY <1>2, <1>5, <1>9, <2>1, Zenon DEF Copied
<1>12. Complete(objects, v, same, copies, Object(q))
  BY <1>8, <1>10, <1>11, Zenon DEF Complete, parts
<1>13. Storable(v)
  BY <1>2, <1>3, References, Zenon
<1> QED BY <1>9, <1>12, <1>13 DEF q, call

\* Reading never passes the end of the record.
LEMMA NeverBeyond ==
  ASSUME NEW objects, IsHeap(objects), NEW m, NEW v, IsGValue(v, Len(objects)), NEW memory, NEW classes, NEW same,
         NEW copies, NEW calls \in Seq(ReadCalls(copies)),
         ReadInv(objects, m, v, memory, classes, same, copies, calls)
  PROVE  Byte(memory, Last(calls).cursor) # Beyond
<1> DEFINE parts == PartsIn(objects, v)
           call == Last(calls)
<1>1. PICK of, todo : Reading(objects, parts, m, memory, copies, calls, of, todo, same)
  BY Zenon DEF ReadInv
<1>2. calls # <<>>
  BY Zenon DEF ReadInv
<1>3. parts \subseteq 1..Len(objects)
  BY PartsClosed, Zenon
<1> HIDE DEF parts
<1>4. IF todo[call.object] = 0 THEN Byte(memory, call.cursor) = 0
      ELSE Ahead(objects, m, memory, call.cursor, of[call.object], todo[call.object], Limit(memory, calls, Len(calls)))
  BY <1>1, <1>2, <1>3, InnermostRead, Zenon
<1> HIDE DEF call
<1>5. Byte(memory, call.cursor) # Beyond
  BY <1>4 DEF Ahead, Beyond
<1> QED BY <1>5 DEF call
-----------------------------------------------------------------------------
\* A new property, and what is read, has two digits.
LEMMA DefaultDigits == ASSUME NEW type PROVE TwoDigits(Default(type))
<1> SUFFICES ASSUME Default(type).type \in Real PROVE \E x \in 0..99 : Default(type) = Scalar(Default(type).type, <<10 * x>>)
  BY DEF TwoDigits
<1>1. type \in Real
  <2>1. CASE type = "STRING"
    BY <2>1, Widths DEF Default, NullString, Scalar, Real
  <2>2. CASE type = "OBJECT"
    BY <2>2, Widths DEF Default, NullObject, Object, Real
  <2>3. CASE type \in DOMAIN Width
    <3>1. Default(type) = Scalar(type, [i \in 1..Width[type] |-> 0])
      BY <2>3, Widths DEF Default, Real
    <3>2. Default(type).type = type
      BY <3>1 DEF Scalar
    <3> QED BY <3>2
  <2>4. CASE type \notin {"STRING", "OBJECT"} \cup DOMAIN Width \cup Real
    <3>1. Default(type) = Scalar(type, <<>>)
      BY <2>4, Widths DEF Default, Real
    <3>2. Default(type).type = type
      BY <3>1 DEF Scalar
    <3> QED BY <3>2
  <2> QED BY <2>1, <2>2, <2>3, <2>4
<1>2. Default(type) = Scalar(type, <<10 * 0>>)
  BY <1>1, Widths DEF Default, Real
<1>3. Default(type).type = type
  BY <1>2 DEF Scalar
<1> QED BY <1>2, <1>3

LEMMA CopiedDigits ==
  ASSUME NEW of, NEW v, NEW w, NEW same, Copied(of, v, w, same)
  PROVE  TwoDigits(w)
<1>1. CASE IsObject(v)
  BY <1>1 DEF Copied, IsObject, TwoDigits, Real
<1>2. CASE ~IsObject(v) /\ v.type \in Real
  <2>1. PICK x \in 0..99 : w = Scalar(v.type, <<10 * x>>)
    BY <1>2 DEF Copied, ReadAs
  <2>2. w.type = v.type
    BY <2>1 DEF Scalar
  <2> QED BY <2>1, <2>2 DEF TwoDigits
<1>3. CASE ~IsObject(v) /\ v.type \notin Real
  BY <1>3 DEF Copied, ReadAs, TwoDigits
<1> QED BY <1>1, <1>2, <1>3

\* What has been read has been stored once.
LEMMA ReadOnce ==
  ASSUME NEW objects, IsHeap(objects), NEW v, IsGValue(v, Len(objects)), NEW same,
         NEW copies, IsHeap(copies), NEW w, Complete(objects, v, same, copies, w)
  PROVE  StoredOnce(copies, w)
<1>1. PICK of \in [1..Len(copies) -> PartsIn(objects, v)] :
        /\ Copied(of, v, w, same)
        /\ \A r \in 1..Len(copies) : PartCopy(of, same, objects[of[r]], copies[r], 0)
  BY Zenon DEF Complete
<1>2. TwoDigits(w)
  BY <1>1, CopiedDigits, Zenon
<1>3. ASSUME NEW r \in 1..Len(copies), NEW i \in 1..Size(copies, r)
      PROVE  LET p == Classes[copies[r].class][i] IN
             /\ TwoDigits(copies[r].props[i])
             /\ ~(p.writable /\ CanSerialize(p.type)) => copies[r].props[i] = Default(p.type)
  <2> DEFINE object == objects[of[r]]
             list == Classes[object.class]
             x == copies[r].props[i]
  <2>1. PartCopy(of, same, object, copies[r], 0)
    BY <1>1
  <2>2. copies[r].class = object.class
    BY <2>1 DEF PartCopy
  <2>3. i \in 1..Len(list)
    BY <2>2, HeapObject
  <2>4. of[r] \in 1..Len(objects)
    BY <1>1, PartsClosed
  <2>5. object.props[i].type = list[i].type
    BY <2>2, <2>3, <2>4, HeapObject, HeapProperty
  <2> HIDE DEF object
  <2>6. IF i > 0 /\ list[i].writable /\ Storable(object.props[i]) THEN Copied(of, object.props[i], x, same)
        ELSE x = Default(list[i].type)
    BY <2>1, <2>3 DEF PartCopy
  <2>7. TwoDigits(x)
    BY <2>6, DefaultDigits, CopiedDigits, Zenon
  <2>8. ~(list[i].writable /\ CanSerialize(list[i].type)) => x = Default(list[i].type)
    BY <2>5, <2>6 DEF Storable
  <2> QED BY <2>2, <2>7, <2>8
<1> QED BY <1>2, <1>3, Zenon DEF StoredOnce

\* A value of two digits is read as itself.
LEMMA ReadAsSame ==
  ASSUME NEW of, NEW v, NEW w, Copied(of, v, w, TRUE), TwoDigits(v)
  PROVE  Same(v, w, of)
<1>1. CASE IsObject(v)
  BY <1>1, Zenon DEF Copied, Same
<1>2. CASE ~IsObject(v) /\ v.type \in Real
  <2>1. PICK x \in 0..99 : w = Scalar(v.type, <<10 * x>>) /\ 10 * x = Rounded(v.bytes[1])
    BY <1>2 DEF Copied, ReadAs
  <2>2. PICK y \in 0..99 : v = Scalar(v.type, <<10 * y>>)
    BY <1>2 DEF TwoDigits
  <2>3. v.bytes[1] = 10 * y
    BY <2>2 DEF Scalar
  <2>4. Rounded(10 * y) = 10 * y
    BY DEF Rounded
  <2>5. w = v
    BY <2>1, <2>2, <2>3, <2>4
  <2> QED BY <1>2, <2>5 DEF Same
<1>3. CASE ~IsObject(v) /\ v.type \notin Real
  BY <1>3 DEF Copied, ReadAs, Same
<1> QED BY <1>1, <1>2, <1>3

\* A value and its copy, as the properties state it.
LEMMA CopiedAs ==
  ASSUME NEW of, NEW v, NEW w, Copied(of, v, w, TRUE)
  PROVE  ComesBackAs(v, w, of)
<1>1. CASE IsObject(v)
  <2>1. v.type \notin Real
    BY <1>1 DEF IsObject, Real
  <2> QED BY <1>1, <2>1 DEF Copied, ComesBackAs
<1>2. CASE ~IsObject(v) /\ v.type \in Real
  <2>1. PICK x \in 0..99 : w = Scalar(v.type, <<10 * x>>) /\ 10 * x = Rounded(v.bytes[1])
    BY <1>2 DEF Copied, ReadAs
  <2> QED BY <1>2, <2>1 DEF ComesBackAs
<1>3. CASE ~IsObject(v) /\ v.type \notin Real
  BY <1>3 DEF Copied, ReadAs, ComesBackAs
<1> QED BY <1>1, <1>2, <1>3
-----------------------------------------------------------------------------
(***************************************************************************)
(* The inductive invariant.                                                *)
(***************************************************************************)
WriteOK  == pc = "write" => WriteInv(heap, writer, value, writes)
RecordOK == pc \in {"deserialize", "read", "done"} => RecordInv(heap, writer, value, record)
ReadOK   == pc = "read" => ReadInv(heap, writer, value, record, known, SamePoint, made, reads)
DoneOK   == pc = "done" => DoneInv(heap, value, known, SamePoint, made, back, outcome)
OnceOK   == round = 2 => StoredOnce(heap, value)

\* What is not in use is empty.
IdleOK ==
  /\ pc \notin {"read", "done"} => made = <<>>
  /\ pc # "read" => reads = <<>>
  /\ pc \notin {"write", "corrupted"} => writes = <<>>
  /\ pc # "done" => outcome = "none"

IInv == TypeOK /\ WriteOK /\ RecordOK /\ ReadOK /\ DoneOK /\ OnceOK /\ IdleOK

\* An empty heap.
LEMMA NoObjects == IsHeap(<<>>)
BY DEF IsHeap

\* It holds initially.
LEMMA InitIInv == Init => IInv
<1> SUFFICES ASSUME Init PROVE IInv
  OBVIOUS
<1>1. IsHeap(heap) /\ IsGValue(value, Len(heap))
  BY GivenAssumption DEF Init
<1>2. writer \in Machine /\ reader \in Machine
  BY DEF Init, Machine, AnyMachine
<1>3. IsHeap(made)
  BY NoObjects DEF Init
<1>4. /\ writes \in Seq([object : 1..Len(heap), next : Nat, chunks : Seq(Nat)])
      /\ record \in Seq(Nat) /\ reads \in Seq([object : 1..Len(made), cursor : Nat])
  BY DEF Init
<1>5. TypeOK
  BY <1>1, <1>2, <1>3, <1>4 DEF Init, TypeOK
<1> QED BY <1>5 DEF Init, IInv, WriteOK, RecordOK, ReadOK, DoneOK, OnceOK, IdleOK

\* real_serialize begins.
LEMMA SerializeStep == IInv /\ Serialize => IInv'
<1> SUFFICES ASSUME IInv, Serialize PROVE IInv'
  OBVIOUS
<1>1. /\ round' = round /\ value' = value /\ heap' = heap /\ reader' = reader /\ known' = known
      /\ made' = made /\ reads' = reads /\ outcome' = outcome /\ back' = back
      /\ pc = "serialize" /\ writer' \in Machine /\ short' = short
  BY DEF Serialize, given, reading, finished
<1>2. TypeOK /\ OnceOK /\ IdleOK /\ IsHeap(heap) /\ IsGValue(value, Len(heap))
  BY DEF IInv, TypeOK
<1>3. CASE IsObject(value)
  <2>1. pc' = "write" /\ writes' = <<WriteCall(value.ref)>> /\ record' = record
    BY <1>3 DEF Serialize
  <2>2. writes' \in Seq(WriteCalls(heap)) /\ WriteInv(heap, writer', value, writes')
    BY <1>2, <1>3, <2>1, WriteBegins
  <2>3. TypeOK'
    BY <1>1, <1>2, <2>1, <2>2 DEF TypeOK, WriteCalls
  <2> QED BY <1>1, <1>2, <2>1, <2>2, <2>3 DEF IInv, WriteOK, RecordOK, ReadOK, DoneOK, OnceOK, IdleOK
<1>4. CASE ~IsObject(value)
  <2>1. pc' = "deserialize" /\ writes' = writes /\ record' = Stored(WriteScalar(value, writer'))
    BY <1>4 DEF Serialize
  <2>2. RecordInv(heap, writer', value, record') /\ record' \in Seq(Nat)
    BY <1>1, <1>2, <1>4, <2>1, RecordOf
  <2>3. TypeOK'
    BY <1>1, <1>2, <2>1, <2>2 DEF TypeOK
  <2> QED BY <1>1, <1>2, <2>1, <2>2, <2>3 DEF IInv, WriteOK, RecordOK, ReadOK, DoneOK, OnceOK, IdleOK
<1> QED BY <1>3, <1>4

\* A turn of the loop of write_object.
LEMMA WritePropertyStep == IInv /\ WriteProperty => IInv'
<1> SUFFICES ASSUME IInv, WriteProperty PROVE IInv'
  OBVIOUS
<1> DEFINE call == Last(writes)
           v == heap[call.object].props[call.next]
<1>1. /\ round' = round /\ value' = value /\ heap' = heap /\ reader' = reader /\ known' = known
      /\ made' = made /\ reads' = reads /\ outcome' = outcome /\ back' = back
      /\ pc' = pc /\ writer' = writer /\ record' = record /\ short' = short /\ pc = "write"
  BY DEF WriteProperty, given, reading, finished
<1>2. TypeOK /\ OnceOK /\ IdleOK /\ IsHeap(heap) /\ IsGValue(value, Len(heap)) /\ writer \in Machine
  BY DEF IInv, TypeOK
<1>3. writes \in Seq(WriteCalls(heap)) /\ WriteInv(heap, writer, value, writes)
  BY <1>1 DEF IInv, TypeOK, WriteOK, WriteCalls
<1>4. /\ writes # <<>> /\ call.object \in 1..Len(heap) /\ call \in WriteCalls(heap)
      /\ HasWritten(heap, writer, call)
  BY <1>2, <1>3, Innermost, Zenon
<1>5. call.next <= Size(heap, call.object) /\ call.next \in 1..Size(heap, call.object)
  <2>1. call.next <= Len(Properties(heap[call.object]))
    BY DEF WriteProperty
  <2>2. Len(Properties(heap[call.object])) = Size(heap, call.object) /\ Size(heap, call.object) \in Nat
    BY <1>2, <1>4, HeapObject
  <2>3. call.next \in 1..Size(heap, call.object) + 1
    BY <1>4, Zenon DEF HasWritten
  <2> QED BY <2>1, <2>2, <2>3
<1>6. IsGValue(v, Len(heap)) /\ v.type = Properties(heap[call.object])[call.next].type
  BY <1>2, <1>4, <1>5, HeapProperty, Zenon DEF Properties
<1>7. writes' \in Seq(WriteCalls(heap)) /\ WriteInv(heap, writer, value, writes')
  <2>1. CASE IsObject(v)
    <3>1. writes' = Append(writes, WriteCall(v.ref))
      BY <2>1 DEF WriteProperty
    <3> QED BY <1>2, <1>3, <1>5, <2>1, <3>1, WriteDown
  <2>2. CASE ~IsObject(v)
    <3> DEFINE f == IF CanSerialize(v.type) THEN WriteScalar(v, writer) ELSE Failed
    <3>1. writes' = Append(Front(writes), Wrote(call, f))
      BY <1>6, <2>2 DEF WriteProperty
    <3>2. Wrote(call, f) = Grown(heap, call, f)
      BY Zenon DEF Wrote, Grown
    <3>3. \/ f = Failed /\ ~Storable(v)
          \/ IsFrame(heap, writer, Chunked(heap, writer), v, f)
      <4>1. Len(heap) \in Nat
        BY <1>2, LengthOf, Zenon DEF IsHeap
      <4> QED BY <1>2, <1>6, <2>2, <4>1, FrameOrNone
    <3> HIDE DEF f
    <3> QED BY <1>2, <1>3, <1>5, <3>1, <3>2, <3>3, WriteNext
  <2> QED BY <2>1, <2>2
<1>8. TypeOK'
  BY <1>1, <1>2, <1>7 DEF TypeOK, WriteCalls
<1> QED BY <1>1, <1>2, <1>7, <1>8 DEF IInv, WriteOK, RecordOK, ReadOK, DoneOK, OnceOK, IdleOK

\* write_object fills its buffer, and has room for the 0.
LEMMA WriteEndStep == IInv /\ WriteEnd /\ ~short' => IInv'
<1> SUFFICES ASSUME IInv, WriteEnd, ~short' PROVE IInv'
  OBVIOUS
<1> DEFINE call == Last(writes)
           class == heap[call.object].class
           outer == Front(writes)
           frame(total) == WriteObject(class, call.chunks, total)
<1>1. /\ round' = round /\ value' = value /\ heap' = heap /\ reader' = reader /\ known' = known
      /\ made' = made /\ reads' = reads /\ outcome' = outcome /\ back' = back
      /\ writer' = writer /\ pc = "write"
  BY DEF WriteEnd, given, reading, finished
<1>2. TypeOK /\ OnceOK /\ IdleOK /\ IsHeap(heap) /\ IsGValue(value, Len(heap)) /\ writer \in Machine
  BY DEF IInv, TypeOK
<1>3. writes \in Seq(WriteCalls(heap)) /\ WriteInv(heap, writer, value, writes)
  BY <1>1 DEF IInv, TypeOK, WriteOK, WriteCalls
<1>4. call.object \in 1..Len(heap) /\ Size(heap, call.object) = Len(Classes[class])
  BY <1>2, <1>3, Innermost, HeapObject, Zenon
<1>5. PICK total \in Garbage :
        /\ call.next > Len(Classes[class]) /\ short' = (short \/ total = -1)
        /\ \/ /\ total < -1 \/ Len(frame(total)) > MaxLength
              /\ pc' = "corrupted" /\ UNCHANGED <<writes, record>>
           \/ /\ total >= -1 /\ Len(frame(total)) <= MaxLength /\ outer # <<>>
              /\ writes' = Append(Front(outer), Wrote(Last(outer), frame(total))) /\ UNCHANGED <<pc, record>>
           \/ /\ total >= -1 /\ Len(frame(total)) <= MaxLength /\ outer = <<>>
              /\ writes' = outer /\ record' = Stored(frame(total)) /\ pc' = "deserialize"
  BY Zenon DEF WriteEnd
<1>10. short' = FALSE /\ total # -1 /\ total \in Int
  BY <1>5, GarbageAssumption
<1> DEFINE f == frame(total)
<1>6. CASE pc' = "corrupted" /\ UNCHANGED <<writes, record>>
  <2>1. TypeOK'
    BY <1>1, <1>2, <1>6, <1>10 DEF TypeOK
  <2> QED BY <1>1, <1>2, <1>6, <2>1 DEF IInv, WriteOK, RecordOK, ReadOK, DoneOK, OnceOK, IdleOK
<1>7. ASSUME total >= -1, Len(f) <= MaxLength
      PROVE  IF outer = <<>> THEN IsFrame(heap, writer, Chunked(heap, writer), value, f)
             ELSE /\ outer \in Seq(WriteCalls(heap)) /\ WriteInv(heap, writer, value, outer)
                  /\ Last(outer).next <= Size(heap, Last(outer).object)
                  /\ IsFrame(heap, writer, Chunked(heap, writer), heap[Last(outer).object].props[Last(outer).next], f)
  <2>1. total \in Nat
    BY <1>7, <1>10
  <2>2. call.next > Size(heap, call.object)
    BY <1>4, <1>5
  <2> QED BY <1>2, <1>3, <1>7, <2>1, <2>2, WriteUp
<1>8. CASE /\ total >= -1 /\ Len(f) <= MaxLength /\ outer # <<>>
           /\ writes' = Append(Front(outer), Wrote(Last(outer), f)) /\ UNCHANGED <<pc, record>>
  <2> HIDE DEF f, outer
  <2>1. /\ outer \in Seq(WriteCalls(heap)) /\ WriteInv(heap, writer, value, outer)
        /\ Last(outer).next <= Size(heap, Last(outer).object)
        /\ IsFrame(heap, writer, Chunked(heap, writer), heap[Last(outer).object].props[Last(outer).next], f)
    BY <1>7, <1>8
  <2>2. Wrote(Last(outer), f) = Grown(heap, Last(outer), f)
    BY Zenon DEF Wrote, Grown
  <2>3. writes' \in Seq(WriteCalls(heap)) /\ WriteInv(heap, writer, value, writes')
    BY <1>2, <1>8, <2>1, <2>2, WriteNext
  <2>4. TypeOK'
    BY <1>1, <1>2, <1>8, <1>10, <2>3 DEF TypeOK, WriteCalls
  <2> QED BY <1>1, <1>2, <1>8, <2>3, <2>4 DEF IInv, WriteOK, RecordOK, ReadOK, DoneOK, OnceOK, IdleOK
<1>9. CASE /\ total >= -1 /\ Len(f) <= MaxLength /\ outer = <<>>
           /\ writes' = outer /\ record' = Stored(f) /\ pc' = "deserialize"
  <2>1. IsFrame(heap, writer, Chunked(heap, writer), value, f)
    BY <1>7, <1>9
  <2> HIDE DEF f, outer
  <2>2. f \in Seq(Nat)
    BY <2>1, Zenon DEF IsFrame
  <2>3. Storable(value)
    <3>1. Len(heap) \in Nat
      BY <1>2, LengthOf, Zenon DEF IsHeap
    <3>2. IsObject(value)
      BY <1>3, Zenon DEF WriteInv
    <3> QED BY <1>2, <3>1, <3>2, References, Zenon
  <2>4. RecordInv(heap, writer, value, record') /\ record' \in Seq(Nat)
    BY <1>9, <2>1, <2>2, <2>3, RecordHeld, Zenon DEF RecordInv
  <2>5. writes' \in Seq(WriteCalls(heap))
    BY <1>9
  <2>6. TypeOK'
    BY <1>1, <1>2, <1>9, <1>10, <2>4, <2>5 DEF TypeOK, WriteCalls
  <2> QED BY <1>1, <1>2, <1>9, <2>4, <2>6 DEF IInv, WriteOK, RecordOK, ReadOK, DoneOK, OnceOK, IdleOK
<1> QED BY <1>5, <1>6, <1>8, <1>9

\* real_deserialize reads the frame of the value, if there is one.
LEMMA FirstFrame ==
  ASSUME NEW objects, IsHeap(objects), NEW m1 \in Machine, NEW m2 \in Machine, NEW v, IsGValue(v, Len(objects)),
         NEW memory, RecordInv(objects, m1, v, memory), NEW classes
  PROVE  LET read == ReadValue(memory, 3, Len(memory) - 2, m2, classes)
             cursor == 3 + 2 + Byte(memory, 3 + 1) IN
         /\ memory[1] = 1
         /\ IF ~Storable(v) THEN read = Fails("overrun")
            ELSE IF UnreadableIn(objects, classes, v) THEN read = Fails("false")
            ELSE IF IsObject(v)
            THEN /\ read = Fails("object") /\ Name(memory, 3 + 1) = objects[v.ref].class /\ cursor \in Nat
                 /\ \E i \in Nat : /\ Found(objects, m1, memory, cursor, v.ref, i, Len(memory) + 1)
                                   /\ Skips(objects, v.ref, i, Size(objects, v.ref) + 1)
            ELSE \E w : read = Value(w) /\ ReadAs(v, w, m1.point = m2.point)
<1>1. PICK f \in Seq(Nat) :
        /\ memory = Stored(f)
        /\ IF Storable(v) THEN IsFrame(objects, m1, Chunked(objects, m1), v, f) ELSE f = <<>>
  BY Zenon DEF RecordInv
<1>2. memory[1] = 1 /\ Len(memory) - 2 = Len(f) /\ Holds(memory, 3, f)
  BY <1>1, RecordHeld, Zenon
<1>3. 3 \in Nat /\ 3 + Len(f) = Len(memory) + 1
  <2>1. memory \in Seq(Nat)
    BY <1>1, RecordHeld, Zenon
  <2>2. Len(memory) \in Nat
    BY ONLY <2>1
  <2> QED BY ONLY <1>2, <2>2
<1>4. CASE Storable(v)
  <2> DEFINE Reads(length, limit) ==
        LET read == ReadValue(memory, 3, length, m2, classes)
            cursor == 3 + 2 + Byte(memory, 3 + 1) IN
        IF UnreadableIn(objects, classes, v) THEN read = Fails("false")
        ELSE IF IsObject(v)
        THEN /\ read = Fails("object") /\ Name(memory, 3 + 1) = objects[v.ref].class /\ cursor \in Nat
             /\ \E i \in Nat : /\ Found(objects, m1, memory, cursor, v.ref, i, limit)
                               /\ Skips(objects, v.ref, i, Size(objects, v.ref) + 1)
        ELSE \E w : read = Value(w) /\ ReadAs(v, w, m1.point = m2.point)
  <2>1. IsFrame(objects, m1, Chunked(objects, m1), v, f)
    BY <1>1, <1>4, Zenon
  <2>2. Reads(Len(f), 3 + Len(f))
    <3>1. IsHeap(objects) /\ m1 \in Machine /\ m2 \in Machine /\ IsGValue(v, Len(objects))
      OBVIOUS
    <3> QED BY ONLY <1>2, <1>3, <2>1, <3>1, FrameRead
  <2>3. Reads(Len(memory) - 2, Len(memory) + 1)
    <3> HIDE DEF Reads
    <3> QED BY ONLY <1>2, <1>3, <2>2, Zenon
  <2> QED BY ONLY <1>2, <1>4, <2>3, Zenon
<1>5. CASE ~Storable(v)
  <2>1. memory = <<1, 0>>
    BY <1>1, <1>5 DEF Stored
  <2>2. Byte(memory, 3) = Beyond
    BY <2>1 DEF Byte
  <2>3. ReadValue(memory, 3, Len(memory) - 2, m2, classes) = Fails("overrun")
    BY <2>2, Ids DEF ReadValue, Beyond
  <2> QED BY <1>2, <1>5, <2>3
<1> QED BY <1>4, <1>5

\* A value that is no object is read.
LEMMA ScalarDone ==
  ASSUME NEW objects, IsHeap(objects), NEW v, IsGValue(v, Len(objects)), ~IsObject(v), Storable(v),
         NEW same, NEW w, ReadAs(v, w, same), NEW copies, copies = <<>>
  PROVE  Complete(objects, v, same, copies, w) /\ IsGValue(w, Len(copies))
<1>1. Len(objects) \in Nat
  BY Zenon, LengthOf DEF IsHeap
<1>2. v.type # "OBJECT"
  BY <1>1, References, Zenon
<1>3. Len(copies) = 0 /\ Len(copies) \in Nat
  OBVIOUS
<1>4. IsGValue(w, Len(copies))
  BY <1>1, <1>2, <1>3, ReadAsGValue, Zenon
<1> DEFINE none == [r \in 1..0 |-> 0]
<1>5. none \in [1..Len(copies) -> PartsIn(objects, v)] /\ 1..Len(copies) = {}
  BY <1>3
<1> HIDE DEF none
<1>6. Copied(none, v, w, same)
  BY Zenon DEF Copied
<1> QED BY <1>4, <1>5, <1>6, Zenon DEF Complete

\* real_deserialize begins.
LEMMA DeserializeStep == IInv /\ Deserialize => IInv'
<1> SUFFICES ASSUME IInv, Deserialize PROVE IInv'
  OBVIOUS
<1> DEFINE same == writer.point = reader'.point
           read == ReadValue(record, 3, Len(record) - 2, reader', known')
           cursor == 3 + 2 + Byte(record, 3 + 1)
<1>1. /\ round' = round /\ value' = value /\ heap' = heap /\ writer' = writer
      /\ writes' = writes /\ record' = record /\ short' = short
      /\ pc = "deserialize" /\ reader' \in Machine /\ known' \in SUBSET DOMAIN Classes
  BY DEF Deserialize, given, writing
<1>2. TypeOK /\ OnceOK /\ RecordOK /\ IdleOK /\ IsHeap(heap) /\ IsGValue(value, Len(heap)) /\ writer \in Machine
  BY DEF IInv, TypeOK
<1>3. RecordInv(heap, writer, value, record) /\ RecordInv(heap, writer, value, record)'
  BY <1>1, <1>2 DEF RecordOK
<1>4. made = <<>> /\ reads = <<>>
  BY <1>1, <1>2 DEF IdleOK
<1>5. /\ record[1] = 1
      /\ IF ~Storable(value) THEN read = Fails("overrun")
         ELSE IF UnreadableIn(heap, known', value) THEN read = Fails("false")
         ELSE IF IsObject(value)
         THEN /\ read = Fails("object") /\ Name(record, 3 + 1) = heap[value.ref].class /\ cursor \in Nat
              /\ \E i \in Nat : /\ Found(heap, writer, record, cursor, value.ref, i, Len(record) + 1)
                                /\ Skips(heap, value.ref, i, Size(heap, value.ref) + 1)
         ELSE \E w : read = Value(w) /\ ReadAs(value, w, same)
  BY <1>1, <1>2, <1>3, FirstFrame, SMTT(40)
<1> HIDE DEF read
<1>6. IF read.out = "object" THEN ReadObject(3) ELSE Ends(read.out, read.v)
  <2>1. record[1] = 1
    BY ONLY <1>5
  <2> QED BY <2>1 DEF Deserialize, read
<1>7. SamePoint' = same
  BY <1>1 DEF SamePoint
<1>8. ASSUME Ends(read.out, read.v), DoneInv(heap, value, known', same, made, read.v, read.out),
             IF read.out = "value" THEN IsGValue(read.v, Len(made)) ELSE read.v = NoGValue
      PROVE  IInv'
  <2>1. pc' = "done" /\ outcome' = read.out /\ back' = read.v /\ reads' = <<>> /\ made' = made
    BY <1>8 DEF Ends
  <2>2. read.out \in {"value", "false", "abort", "overrun"}
    BY <1>8 DEF DoneInv
  <2>3. reads' \in Seq([object : 1..Len(made'), cursor : Nat])
    BY <2>1
  <2>4. TypeOK'
    BY <1>1, <1>2, <1>8, <2>1, <2>2, <2>3 DEF TypeOK
  <2>5. DoneInv(heap, value, known, SamePoint, made, back, outcome)'
    BY <1>1, <1>7, <1>8, <2>1
  <2> QED BY <1>1, <1>2, <1>3, <2>1, <2>4, <2>5 DEF IInv, WriteOK, RecordOK, ReadOK, DoneOK, OnceOK, IdleOK
<1>9. CASE ~Storable(value)
  <2>1. read.out = "overrun" /\ read.v = NoGValue
    BY <1>5, <1>9 DEF Fails
  <2>2. DoneInv(heap, value, known', same, made, read.v, read.out)
    BY <1>9, <2>1 DEF DoneInv
  <2> QED BY <1>6, <1>8, <2>1, <2>2
<1>10. CASE Storable(value) /\ UnreadableIn(heap, known', value)
  <2>1. read.out = "false" /\ read.v = NoGValue
    BY <1>5, <1>10 DEF Fails
  <2>2. DoneInv(heap, value, known', same, made, read.v, read.out)
    BY <1>10, <2>1 DEF DoneInv
  <2> QED BY <1>6, <1>8, <2>1, <2>2
<1>11. CASE Storable(value) /\ ~UnreadableIn(heap, known', value) /\ ~IsObject(value)
  <2>1. PICK w : read = Value(w) /\ ReadAs(value, w, same)
    BY <1>5, <1>11
  <2>2. read.out = "value" /\ read.v = w
    BY <2>1 DEF Value
  <2>3. Complete(heap, value, same, made, w) /\ IsGValue(w, Len(made))
    BY <1>2, <1>4, <1>11, <2>1, ScalarDone
  <2>4. DoneInv(heap, value, known', same, made, read.v, read.out)
    BY <1>11, <2>2, <2>3 DEF DoneInv
  <2> QED BY <1>6, <1>8, <2>2, <2>3, <2>4
<1>12. CASE Storable(value) /\ ~UnreadableIn(heap, known', value) /\ IsObject(value)
  <2>1. /\ read.out = "object" /\ Name(record, 3 + 1) = heap[value.ref].class /\ cursor \in Nat
        /\ \E i \in Nat : /\ Found(heap, writer, record, cursor, value.ref, i, Len(record) + 1)
                          /\ Skips(heap, value.ref, i, Size(heap, value.ref) + 1)
    BY <1>5, <1>12 DEF Fails
  <2>2. heap[value.ref].class \in known'
    BY <1>12, Zenon DEF UnreadableIn
  <2>3. /\ pc' = "read" /\ made' = Append(made, New(heap[value.ref].class))
        /\ reads' = Append(reads, ReadCall(Len(made) + 1, cursor))
        /\ outcome' = outcome /\ back' = back
    BY <1>6, <2>1 DEF ReadObject, ReadCall, finished
  <2>4. /\ IsHeap(made') /\ reads' \in Seq(ReadCalls(made'))
        /\ ReadInv(heap, writer, value, record, known', same, made', reads')
    BY <1>2, <1>4, <1>12, <2>1, <2>2, <2>3, ReadBegins
  <2>5. outcome = "none" /\ outcome # "value" /\ back = NoGValue
    BY <1>1, <1>2 DEF IdleOK, TypeOK
  <2>6. TypeOK'
    BY <1>1, <1>2, <2>3, <2>4, <2>5 DEF TypeOK, ReadCalls
  <2>7. ReadInv(heap, writer, value, record, known, SamePoint, made, reads)'
    BY <1>1, <1>7, <2>4
  <2> QED BY <1>1, <1>2, <1>3, <2>3, <2>5, <2>6, <2>7 DEF IInv, WriteOK, RecordOK, ReadOK, DoneOK, OnceOK, IdleOK
<1> QED BY <1>9, <1>10, <1>11, <1>12

\* read_object goes on, or its outermost call ends, as DoneInv or ReadInv has it.
LEMMA ReadGoesOn ==
  ASSUME IInv, pc = "read", UNCHANGED <<given, writing, reader, known>>, UNCHANGED <<pc, finished>> \/ (pc' = "read" /\ UNCHANGED finished),
         IsHeap(made'), reads' \in Seq(ReadCalls(made')),
         ReadInv(heap, writer, value, record, known, SamePoint, made', reads')
  PROVE  IInv'
<1>1. /\ round' = round /\ value' = value /\ heap' = heap /\ writer' = writer /\ writes' = writes /\ record' = record
      /\ short' = short /\ reader' = reader /\ known' = known /\ pc' = "read" /\ outcome' = outcome /\ back' = back
  BY DEF given, writing, finished
<1>2. TypeOK /\ OnceOK /\ RecordOK /\ IdleOK
  BY DEF IInv
<1>3. outcome = "none" /\ outcome # "value" /\ back = NoGValue
  BY <1>2 DEF IdleOK, TypeOK
<1>4. TypeOK'
  BY <1>1, <1>2, <1>3 DEF TypeOK, ReadCalls
<1>5. SamePoint' = SamePoint
  BY <1>1 DEF SamePoint
<1>6. ReadInv(heap, writer, value, record, known, SamePoint, made, reads)'
  BY <1>1, <1>5
<1>7. RecordInv(heap, writer, value, record)'
  BY <1>1, <1>2 DEF RecordOK
<1> QED BY <1>1, <1>2, <1>3, <1>4, <1>6, <1>7 DEF IInv, WriteOK, RecordOK, ReadOK, DoneOK, OnceOK, IdleOK

LEMMA ReadStops ==
  ASSUME IInv, pc = "read", UNCHANGED <<given, writing, reader, known>>, NEW how, NEW w, Ends(how, w),
         DoneInv(heap, value, known, SamePoint, made, w, how), IF how = "value" THEN IsGValue(w, Len(made)) ELSE w = NoGValue
  PROVE  IInv'
<1>1. /\ round' = round /\ value' = value /\ heap' = heap /\ writer' = writer /\ writes' = writes /\ record' = record
      /\ short' = short /\ reader' = reader /\ known' = known
      /\ pc' = "done" /\ outcome' = how /\ back' = w /\ reads' = <<>> /\ made' = made
  BY DEF given, writing, Ends
<1>2. TypeOK /\ OnceOK /\ RecordOK /\ IdleOK
  BY DEF IInv
<1>3. how \in {"value", "false", "abort", "overrun"}
  BY DEF DoneInv
<1>4. reads' \in Seq([object : 1..Len(made'), cursor : Nat])
  BY <1>1
<1>5. TypeOK'
  BY <1>1, <1>2, <1>3, <1>4 DEF TypeOK
<1>6. SamePoint' = SamePoint
  BY <1>1 DEF SamePoint
<1>7. DoneInv(heap, value, known, SamePoint, made, back, outcome)'
  BY <1>1, <1>6
<1>8. RecordInv(heap, writer, value, record)'
  BY <1>1, <1>2 DEF RecordOK
<1> QED BY <1>1, <1>2, <1>5, <1>7, <1>8 DEF IInv, WriteOK, RecordOK, ReadOK, DoneOK, OnceOK, IdleOK

\* What read_object has while it runs.
LEMMA WhileReading ==
  ASSUME IInv, pc = "read"
  PROVE  /\ IsHeap(heap) /\ IsGValue(value, Len(heap)) /\ writer \in Machine /\ reader \in Machine
         /\ IsHeap(made) /\ reads \in Seq(ReadCalls(made))
         /\ ReadInv(heap, writer, value, record, known, SamePoint, made, reads)
BY DEF IInv, TypeOK, ReadOK, ReadCalls

\* A turn of the loop of read_object.
LEMMA ReadPropertyStep == IInv /\ ReadProperty => IInv'
<1> SUFFICES ASSUME IInv, ReadProperty PROVE IInv'
  OBVIOUS
<1> DEFINE call == Last(reads)
           at == call.cursor
           fat == FrameAt(record, at)
           read == ReadValue(record, fat, FrameLength(record, at), reader, known)
           same == SamePoint
<1>1. pc = "read" /\ UNCHANGED <<given, writing, reader, known>> /\ Byte(record, at) # 0
  BY DEF ReadProperty
<1>2. /\ IsHeap(heap) /\ IsGValue(value, Len(heap)) /\ writer \in Machine /\ reader \in Machine
      /\ IsHeap(made) /\ reads \in Seq(ReadCalls(made))
      /\ ReadInv(heap, writer, value, record, known, same, made, reads)
  BY <1>1, WhileReading
<1>3. same = (writer.point = reader.point)
  BY DEF SamePoint
<1>4. \/ read.out = "value" /\ Got(reads, read.v)
      \/ read.out = "object" /\ ReadObject(fat)
      \/ read.out \notin {"value", "object"} /\ Ends("abort", NoGValue)
  BY DEF ReadProperty
<1> HIDE DEF same
<1>5. Turn(heap, writer, value, record, known, same, made, reads, fat, read)
  BY <1>1, <1>2, <1>3, PropertyStep, Zenon
<1> HIDE DEF read, fat
<1>6. CASE read.out = "value"
  <2>1. Got(reads, read.v) /\ Assigned(heap, writer, value, record, known, same, made, reads, read.v)
    BY <1>4, <1>5, <1>6 DEF Turn
  <2>2. /\ made' = SetIn(made, call.object, Name(record, at), read.v) /\ reads' = Append(Front(reads), NextIn(record, call))
        /\ UNCHANGED <<pc, finished>>
    BY <2>1, Zenon DEF Got, SetIn, NextIn, NextAt
  <2>3. /\ IsHeap(made') /\ reads' \in Seq(ReadCalls(made'))
        /\ ReadInv(heap, writer, value, record, known, same, made', reads')
    BY <2>1, <2>2 DEF Assigned
  <2> QED BY <1>1, <2>2, <2>3, ReadGoesOn DEF same
<1>7. CASE read.out = "object"
  <2>1. ReadObject(fat) /\ Descended(heap, writer, value, record, known, same, made, reads, fat)
    BY <1>4, <1>5, <1>7 DEF Turn
  <2>2. /\ made' = Append(made, New(Name(record, fat + 1)))
        /\ reads' = Append(reads, ReadCall(Len(made) + 1, fat + 2 + Byte(record, fat + 1)))
        /\ pc' = "read" /\ UNCHANGED finished
    BY <2>1, Zenon DEF ReadObject, ReadCall
  <2>3. /\ IsHeap(made') /\ reads' \in Seq(ReadCalls(made'))
        /\ ReadInv(heap, writer, value, record, known, same, made', reads')
    BY <2>1, <2>2 DEF Descended
  <2> QED BY <1>1, <2>2, <2>3, ReadGoesOn DEF same
<1>8. CASE read.out \notin {"value", "object"}
  <2>1. Ends("abort", NoGValue) /\ read.out = "false"
    BY <1>4, <1>5, <1>8 DEF Turn
  <2>2. DoneInv(heap, value, known, same, made, NoGValue, "abort")
    BY <1>5, <1>8 DEF DoneInv, Turn
  <2> QED BY <1>1, <2>1, <2>2, ReadStops DEF same
<1> QED BY <1>6, <1>7, <1>8

\* A call of read_object ends.
LEMMA ReadEndStep == IInv /\ ReadEnd => IInv'
<1> SUFFICES ASSUME IInv, ReadEnd PROVE IInv'
  OBVIOUS
<1> DEFINE call == Last(reads)
           outer == Front(reads)
           v == Object(call.object)
           same == SamePoint
<1>1. pc = "read" /\ UNCHANGED <<given, writing, reader, known>>
  BY DEF ReadEnd
<1>2. /\ IsHeap(heap) /\ IsGValue(value, Len(heap)) /\ IsHeap(made) /\ reads \in Seq(ReadCalls(made))
      /\ ReadInv(heap, writer, value, record, known, same, made, reads)
  BY <1>1, WhileReading
<1>3. Byte(record, call.cursor) # Beyond
  BY <1>2, NeverBeyond
<1>4. \/ Byte(record, call.cursor) = 0 /\ outer # <<>> /\ Got(outer, v)
      \/ Byte(record, call.cursor) = 0 /\ outer = <<>> /\ Ends("value", v)
  BY <1>3 DEF ReadEnd
<1> HIDE DEF same
<1>5. CASE Byte(record, call.cursor) = 0 /\ outer # <<>> /\ Got(outer, v)
  <2>1. Assigned(heap, writer, value, record, known, same, made, outer, v)
    BY <1>2, <1>5, EndStep
  <2>2. /\ made' = SetIn(made, Last(outer).object, Name(record, Last(outer).cursor), v)
        /\ reads' = Append(Front(outer), NextIn(record, Last(outer)))
        /\ UNCHANGED <<pc, finished>>
    BY <1>5, Zenon DEF Got, SetIn, NextIn, NextAt
  <2> HIDE DEF outer, v
  <2>3. /\ IsHeap(made') /\ reads' \in Seq(ReadCalls(made'))
        /\ ReadInv(heap, writer, value, record, known, same, made', reads')
    BY <2>1, <2>2 DEF Assigned
  <2> QED BY <1>1, <2>2, <2>3, ReadGoesOn DEF same
<1>6. CASE Byte(record, call.cursor) = 0 /\ outer = <<>> /\ Ends("value", v)
  <2>1. Storable(value) /\ Complete(heap, value, same, made, v) /\ IsGValue(v, Len(made))
    BY <1>2, <1>6, ReadDone
  <2> HIDE DEF v
  <2>2. DoneInv(heap, value, known, same, made, v, "value")
    BY <2>1 DEF DoneInv
  <2> QED BY <1>1, <1>6, <2>1, <2>2, ReadStops DEF same
<1> QED BY <1>4, <1>5, <1>6

\* The client stores what it got.
LEMMA AgainStep == IInv /\ Again => IInv'
<1> SUFFICES ASSUME IInv, Again PROVE IInv'
  OBVIOUS
<1>1. /\ writer' = AnyMachine /\ reader' = AnyMachine /\ record' = <<>> /\ known' = {}
      /\ writes' = writes /\ reads' = reads /\ short' = short
      /\ pc = "done" /\ outcome = "value" /\ pc' = "serialize" /\ round' = 2 /\ value' = back /\ heap' = made
      /\ made' = <<>> /\ outcome' = "none" /\ back' = NoGValue
  BY DEF Again
<1>2. TypeOK /\ IdleOK /\ IsHeap(heap) /\ IsGValue(value, Len(heap)) /\ IsHeap(made) /\ IsGValue(back, Len(made))
  BY <1>1 DEF IInv, TypeOK
<1>3. Complete(heap, value, SamePoint, made, back)
  BY <1>1 DEF IInv, DoneOK, DoneInv
<1>4. StoredOnce(made, back)
  BY <1>2, <1>3, ReadOnce
<1>5. reads = <<>>
  BY <1>1, <1>2 DEF IdleOK
<1>6. writes = <<>>
  BY <1>1, <1>2 DEF IdleOK
<1>7. TypeOK'
  <2>1. /\ writes' \in Seq([object : 1..Len(heap'), next : Nat, chunks : Seq(Nat)])
        /\ reads' \in Seq([object : 1..Len(made'), cursor : Nat])
        /\ record' \in Seq(Nat)
    BY <1>1, <1>5, <1>6
  <2>3. AnyMachine \in Machine
    BY DEF AnyMachine, Machine
  <2>2. IsHeap(made')
    BY <1>1, NoObjects
  <2> QED BY <1>1, <1>2, <2>1, <2>2, <2>3 DEF TypeOK
<1> QED BY <1>1, <1>4, <1>5, <1>6, <1>7 DEF IInv, WriteOK, RecordOK, ReadOK, DoneOK, OnceOK, IdleOK

\* It is kept by every step after which no frame lacks its 0.
LEMMA IInvStep == IInv /\ [Next]_vars /\ ~short' => IInv'
<1> SUFFICES ASSUME IInv, [Next]_vars, ~short' PROVE IInv'
  OBVIOUS
<1>1. CASE UNCHANGED vars
  <2>1. SamePoint' = SamePoint
    BY <1>1 DEF vars, SamePoint
  <2> QED BY <1>1, <2>1 DEF IInv, TypeOK, WriteOK, RecordOK, ReadOK, DoneOK, OnceOK, IdleOK, vars
<1> QED BY <1>1, SerializeStep, WritePropertyStep, WriteEndStep, DeserializeStep, ReadPropertyStep, ReadEndStep, AgainStep
        DEF Next

\* A frame that lacks its 0 is not forgotten.
LEMMA StaysShort == [Next]_vars /\ ~short' => ~short
<1>1. Next /\ ~short' => ~short
  BY DEF Next, Serialize, WriteProperty, WriteEnd, Deserialize, ReadProperty, ReadEnd, Again, writing
<1> QED BY <1>1 DEF vars

\* The inductive invariant holds in every state of every behaviour until a frame lacks its 0.
THEOREM Invariance == Spec => [](~short => IInv)
<1>1. Init => (~short => IInv)
  BY InitIInv
<1>2. (~short => IInv) /\ [Next]_vars => (~short => IInv)'
  BY IInvStep, StaysShort
<1> QED BY <1>1, <1>2, PTL DEF Spec

(***************************************************************************)
(* Each variable keeps to its type, where no frame lacks its 0: above all, *)
(* what deserialising makes is a heap whose objects have properties of the *)
(* types of their classes, and a value that refers to nothing outside it.  *)
(***************************************************************************)
THEOREM TypeCorrect == Spec => [](~short => TypeOK)
<1>1. IInv => TypeOK
  BY DEF IInv
<1> QED BY <1>1, Invariance, PTL
-----------------------------------------------------------------------------
(***************************************************************************)
(* What the invariant says of a value that has been read.                  *)
(***************************************************************************)

\* A property that is unset or no object is not mistaken for one.
LEMMA DefaultIsNoObject == ASSUME NEW type PROVE ~IsObject(Default(type))
<1> SUFFICES ASSUME Default(type).type = "OBJECT" PROVE Default(type) = NullObject
  BY DEF IsObject
<1>1. CASE type = "OBJECT"
  BY <1>1, Widths DEF Default, Real
<1>2. CASE type = "STRING"
  BY <1>2, Widths DEF Default, NullString, Scalar
<1>3. CASE type \in DOMAIN Width
  <2>1. Default(type) = Scalar(type, [i \in 1..Width[type] |-> 0])
    BY <1>3, Widths DEF Default, Real
  <2> QED BY <1>1, <2>1 DEF Scalar
<1>4. CASE type \in Real
  BY <1>1, <1>4, Widths DEF Default, Scalar, Real
<1>5. CASE type \notin {"STRING", "OBJECT"} \cup DOMAIN Width \cup Real
  <2>1. Default(type) = Scalar(type, <<>>)
    BY <1>5, Widths DEF Default, Real
  <2> QED BY <1>5, <2>1 DEF Scalar
<1> QED BY <1>1, <1>2, <1>3, <1>4, <1>5

\* Whose copy each object is.
LEMMA DoneCopies ==
  ASSUME IInv, pc = "done", outcome = "value", SamePoint
  PROVE  \E of \in [DOMAIN made -> DOMAIN heap] :
           /\ Copied(of, value, back, TRUE)
           /\ \A r \in DOMAIN made : r \in 1..Len(made) /\ of[r] \in 1..Len(heap)
                                     /\ PartCopy(of, TRUE, heap[of[r]], made[r], 0)
<1>1. IsHeap(heap) /\ IsHeap(made) /\ IsGValue(value, Len(heap))
  BY DEF IInv, TypeOK
<1>2. SamePoint = TRUE
  BY DEF SamePoint
<1>3. Complete(heap, value, TRUE, made, back)
  BY <1>2 DEF IInv, DoneOK, DoneInv
<1>4. PICK of \in [1..Len(made) -> PartsIn(heap, value)] :
        /\ Copied(of, value, back, TRUE)
        /\ \A r \in 1..Len(made) : PartCopy(of, TRUE, heap[of[r]], made[r], 0)
  BY <1>3, Zenon DEF Complete
<1>5. PartsIn(heap, value) \subseteq 1..Len(heap)
  BY <1>1, PartsClosed, Zenon
<1>6. DOMAIN made = 1..Len(made) /\ DOMAIN heap = 1..Len(heap)
  BY <1>1 DEF IsHeap
<1>7. of \in [DOMAIN made -> DOMAIN heap]
  BY <1>5, <1>6
<1>8. \A r \in 1..Len(made) : of[r] \in 1..Len(heap)
  BY <1>5
<1> QED BY <1>4, <1>6, <1>7, <1>8

\* A property of a copy: it is that of the object, or as in a new one, which it then has to be.
CopiedProperty(objects, o, i, of, same, x) ==
  LET p == Classes[objects[o].class][i]
      v == objects[o].props[i] IN
  /\ p.writable /\ CanSerialize(p.type) => Copied(of, v, x, same) \/ (x = NullObject /\ v = NullObject)
  /\ ~(p.writable /\ CanSerialize(p.type)) => x = Default(p.type)

LEMMA PropertyOf ==
  ASSUME NEW objects, IsHeap(objects), NEW o \in 1..Len(objects), NEW i \in 1..Size(objects, o),
         NEW of, NEW same, NEW copy, PartCopy(of, same, objects[o], copy, 0)
  PROVE  CopiedProperty(objects, o, i, of, same, copy.props[i])
<1> DEFINE list == Classes[objects[o].class]
           v == objects[o].props[i]
<1>1. v.type = list[i].type /\ i \in 1..Len(list) /\ i > 0
  BY HeapObject, HeapProperty
<1>2. IF i > 0 /\ list[i].writable /\ Storable(v) THEN Copied(of, v, copy.props[i], same)
      ELSE copy.props[i] = Default(list[i].type)
  BY <1>1 DEF PartCopy
<1>3. CanSerialize(v.type) /\ ~Storable(v) => v = NullObject
  BY DEF Storable
<1>4. Default("OBJECT") = NullObject /\ NullObject.type = "OBJECT"
  BY Widths DEF Default, NullObject, Object, Real
<1> QED BY <1>1, <1>2, <1>3, <1>4 DEF Storable, CopiedProperty

LEMMA DoneRestores ==
  ASSUME IInv, pc = "done", outcome = "value", SamePoint
  PROVE  Restores
<1>1. IsHeap(heap)
  BY DEF IInv, TypeOK
<1>2. PICK of \in [DOMAIN made -> DOMAIN heap] :
        /\ Copied(of, value, back, TRUE)
        /\ \A r \in DOMAIN made : r \in 1..Len(made) /\ of[r] \in 1..Len(heap)
                                  /\ PartCopy(of, TRUE, heap[of[r]], made[r], 0)
  BY DoneCopies
<1>3. ComesBackAs(value, back, of)
  BY <1>2, CopiedAs
<1>4. ASSUME NEW r \in DOMAIN made PROVE IsCopy(r, of)
  <2> DEFINE o == of[r]
             copy == made[r]
             list == Classes[heap[o].class]
  <2>1. o \in 1..Len(heap) /\ PartCopy(of, TRUE, heap[o], copy, 0)
    BY <1>2
  <2> HIDE DEF o, copy
  <2>2. copy.class = heap[o].class
    BY <2>1 DEF PartCopy
  <2>3. DOMAIN heap[o].props = 1..Size(heap, o)
    BY <1>1, <2>1, HeapObject, Zenon
  <2>4. ASSUME NEW i \in 1..Size(heap, o)
        PROVE  IF list[i].writable /\ CanSerialize(list[i].type) THEN ComesBackAs(heap[o].props[i], copy.props[i], of)
               ELSE copy.props[i] = Default(list[i].type)
    <3>1. CopiedProperty(heap, o, i, of, TRUE, copy.props[i])
      BY <1>1, <2>1, PropertyOf, Zenon
    <3>2. ComesBackAs(NullObject, NullObject, of)
      BY DEF ComesBackAs, IsObject, NullObject, Object, Real
    <3> QED BY <3>1, <3>2, CopiedAs DEF CopiedProperty
  <2> QED BY <2>2, <2>3, <2>4 DEF IsCopy, o, copy, Properties
<1> QED BY <1>2, <1>3, <1>4 DEF Restores

\* What a value that has been stored before is read as.
LEMMA DoneSettled == (~short => IInv) => Settled
<1> SUFFICES ASSUME IInv, ~short, pc = "done", round = 2, SamePoint, outcome = "value"
             PROVE  \E of \in [DOMAIN made -> DOMAIN heap] :
                      /\ Same(value, back, of)
                      /\ \A r \in DOMAIN made :
                           /\ made[r].class = heap[of[r]].class
                           /\ \A i \in DOMAIN made[r].props : Same(heap[of[r]].props[i], made[r].props[i], of)
  BY DEF Settled
<1>1. IsHeap(heap) /\ IsHeap(made) /\ StoredOnce(heap, value)
  BY DEF IInv, TypeOK, OnceOK
<1>2. PICK of \in [DOMAIN made -> DOMAIN heap] :
        /\ Copied(of, value, back, TRUE)
        /\ \A r \in DOMAIN made : r \in 1..Len(made) /\ of[r] \in 1..Len(heap)
                                  /\ PartCopy(of, TRUE, heap[of[r]], made[r], 0)
  BY DoneCopies
<1>3. Same(value, back, of)
  BY <1>1, <1>2, ReadAsSame DEF StoredOnce
<1>4. ASSUME NEW r \in DOMAIN made
      PROVE  /\ made[r].class = heap[of[r]].class
             /\ \A i \in DOMAIN made[r].props : Same(heap[of[r]].props[i], made[r].props[i], of)
  <2> DEFINE o == of[r]
             copy == made[r]
             list == Classes[heap[o].class]
  <2>1. o \in 1..Len(heap) /\ r \in 1..Len(made) /\ PartCopy(of, TRUE, heap[o], copy, 0)
    BY <1>2
  <2>2. copy.class = heap[o].class
    BY <2>1 DEF PartCopy
  <2>3. DOMAIN copy.props = 1..Size(heap, o)
    <3>1. DOMAIN copy.props = 1..Size(made, r) /\ Size(made, r) = Len(Classes[copy.class])
      BY <1>1, <2>1, HeapObject, Zenon
    <3>2. Size(heap, o) = Len(list)
      BY <1>1, <2>1, HeapObject, Zenon
    <3> QED BY <2>2, <3>1, <3>2
  <2> HIDE DEF o, copy
  <2>4. ASSUME NEW i \in 1..Size(heap, o)
        PROVE  Same(heap[o].props[i], copy.props[i], of)
    <3>1. CopiedProperty(heap, o, i, of, TRUE, copy.props[i])
      BY <1>1, <2>1, PropertyOf, Zenon
    <3>2. /\ TwoDigits(heap[o].props[i])
          /\ ~(list[i].writable /\ CanSerialize(list[i].type)) => heap[o].props[i] = Default(list[i].type)
      BY <1>1, <2>1 DEF StoredOnce
    <3>3. Same(NullObject, NullObject, of)
      BY DEF Same, IsObject
    <3>4. Same(Default(list[i].type), Default(list[i].type), of)
      BY DefaultIsNoObject DEF Same
    <3> QED BY <3>1, <3>2, <3>3, <3>4, ReadAsSame DEF CopiedProperty
  <2> QED BY <2>2, <2>3, <2>4 DEF o, copy
<1> QED BY <1>2, <1>3, <1>4

\* Why a value is not read.
LEMMA DoneExplained ==
  ASSUME IInv, pc = "done"
  PROVE  /\ outcome \in {"value", "false", "abort", "overrun"}
         /\ outcome = "false" => Unreadable(value)
         /\ outcome = "abort" => ~Unreadable(value) /\ \E o \in Parts : HasUnreadable(o)
         /\ outcome = "overrun" => ~Storable(value)
<1>1. DoneInv(heap, value, known, SamePoint, made, back, outcome) /\ IsHeap(heap) /\ IsGValue(value, Len(heap))
  BY DEF IInv, DoneOK, TypeOK
<1>2. \A v : Unreadable(v) <=> UnreadableIn(heap, known, v)
  BY Zenon DEF Unreadable, UnreadableIn
<1>3. ASSUME NEW o \in Parts, NEW i \in 1..Size(heap, o), UnreadableIn(heap, known, heap[o].props[i])
      PROVE  HasUnreadable(o)
  <2>1. o \in 1..Len(heap)
    BY <1>1, PartsOfValue, PartsClosed
  <2>2. DOMAIN heap[o].props = 1..Size(heap, o)
    BY <1>1, <2>1, HeapObject, Zenon
  <2> QED BY <1>2, <1>3, <2>2, Zenon DEF HasUnreadable
<1> QED BY <1>1, <1>2, <1>3, PartsOfValue, Zenon DEF DoneInv
-----------------------------------------------------------------------------
(***************************************************************************)
(* A value of a supported type, with all that it refers to, comes back     *)
(* from any machine on any other, of whatever byte order, where its        *)
(* classes are known, the decimal point is the same and no frame lacks its *)
(* 0.                                                                      *)
(***************************************************************************)
THEOREM RoundTripCorrect == Spec => []RoundTrip
<1>1. (~short => IInv) => RoundTrip
  BY DoneRestores, DoneExplained, Zenon DEF RoundTrip
<1> QED BY <1>1, Invariance, PTL

(***************************************************************************)
(* What real_deserialize returns as a success is the value that was        *)
(* stored, object for object, and never another, where no frame lacks its  *)
(* 0.                                                                      *)
(***************************************************************************)
THEOREM NeverWrongCorrect == Spec => []NeverWrong
<1>1. (~short => IInv) => NeverWrong
  BY DoneRestores, Zenon DEF NeverWrong
<1> QED BY <1>1, Invariance, PTL

(***************************************************************************)
(* Where the frame of every object has its 0, read_value returns FALSE,    *)
(* and read_object aborts the program, only for a tiny real or a class     *)
(* that is not known, and neither reads past the end of a record in which  *)
(* something was written.                                                  *)
(***************************************************************************)
THEOREM FailuresCorrect == Spec => [](~short => FailuresExplained)
<1>1. IInv => FailuresExplained
  BY DoneExplained, Zenon DEF FailuresExplained
<1> QED BY <1>1, Invariance, PTL

\* What has been stored and read once does not change when it is stored again, where no frame lacks its 0.
THEOREM SettledCorrect == Spec => []Settled
BY DoneSettled, Invariance, PTL
-----------------------------------------------------------------------------
(***************************************************************************)
(* What the invariant says of the way of read_object through the record.   *)
(***************************************************************************)

\* Whatever is read, it reads on behind it.
LEMMA FurtherOn ==
  ASSUME NEW memory \in Seq(Nat), NEW at \in Nat
  PROVE  /\ FrameAt(memory, at) \in Nat /\ FrameAt(memory, at) > at
         /\ NextAt(memory, at) \in Nat /\ NextAt(memory, at) > at
<1>1. \A x : Byte(memory, x) \in Nat
  BY DEF Byte, Beyond
<1>2. FrameLength(memory, at) \in Nat
  <2> DEFINE b == Bytes(memory, at + Byte(memory, at) + 1, 4)
  <2>1. b[1] \in Nat /\ b[2] \in Nat /\ b[3] \in Nat /\ b[4] \in Nat
    BY <1>1 DEF Bytes
  <2> HIDE DEF b
  <2>2. FromBE32(b) \in Nat
    <3> DEFINE w == 16777216 * b[1]
               x == 65536 * b[2]
               y == 256 * b[3]
    <3>1. w \in Nat
      BY ONLY <2>1, SMT
    <3>2. x \in Nat
      BY ONLY <2>1, SMT
    <3>3. y \in Nat
      BY ONLY <2>1, SMT
    <3>4. FromBE32(b) = w + x + y + b[4]
      BY ONLY SMT DEF FromBE32
    <3> HIDE DEF w, x, y
    <3> QED BY ONLY <2>1, <3>1, <3>2, <3>3, <3>4, SMT
  <2> QED BY <2>2 DEF FrameLength, b
<1>3. Byte(memory, at) \in Nat
  BY <1>1
<1>4. FrameAt(memory, at) = at + Byte(memory, at) + 5
  BY DEF FrameAt
<1>5. FrameAt(memory, at) \in Nat /\ FrameAt(memory, at) > at
  BY ONLY <1>3, <1>4, at \in Nat
<1>6. NextAt(memory, at) = FrameAt(memory, at) + FrameLength(memory, at)
  BY DEF NextAt
<1>7. NextAt(memory, at) \in Nat /\ NextAt(memory, at) > at
  BY ONLY <1>2, <1>5, <1>6, at \in Nat
<1> QED BY <1>5, <1>7

\* The innermost call has not come to where the one around it goes on.
LEMMA Within ==
  ASSUME NEW objects, NEW m, NEW v, NEW memory, NEW classes, NEW same,
         NEW copies, NEW calls \in Seq(ReadCalls(copies)), Front(calls) # <<>>,
         ReadInv(objects, m, v, memory, classes, same, copies, calls)
  PROVE  /\ Last(calls).cursor \in Nat
         /\ \E b \in Seq(Nat) : Last(calls).cursor + Len(b) < NextAt(memory, Last(Front(calls)).cursor)
<1> DEFINE d == Len(calls)
           R == ReadCalls(copies)
           outer == Front(calls)
<1>1. PICK of, todo : Reading(objects, PartsIn(objects, v), m, memory, copies, calls, of, todo, same)
  BY Zenon DEF ReadInv
<1>2. calls # <<>> /\ calls \in Seq(R)
  BY Zenon DEF ReadInv
<1>3. /\ d \in Nat /\ d > 0 /\ Last(calls) = calls[d] /\ Last(calls) \in R
      /\ outer \in Seq(R) /\ Len(outer) = d - 1 /\ \A i \in 1..d - 1 : outer[i] = calls[i]
  <2> HIDE DEF R
  <2> QED BY ONLY <1>2, Popped, Zenon DEF d, outer
<1>4. Last(calls).cursor \in Nat
  BY <1>3 DEF ReadCalls
<1>5. outer # <<>>
  OBVIOUS
<1> HIDE DEF outer, R
<1>6. Len(outer) \in Nat /\ Len(outer) > 0 /\ Last(outer) = outer[Len(outer)]
  BY ONLY <1>3, <1>5, Popped, Zenon
<1>7. d \in 1..d /\ d # 1 /\ d - 1 \in 1..d - 1
  BY ONLY <1>3, <1>6
<1>8. Last(outer) = calls[d - 1]
  BY ONLY <1>3, <1>6, <1>7
<1>9. Found(objects, m, memory, calls[d].cursor, of[calls[d].object], todo[calls[d].object], Limit(memory, calls, d))
  BY <1>1, <1>7, Zenon DEF Reading, d
<1>10. Limit(memory, calls, d) = NextAt(memory, Last(outer).cursor)
  BY ONLY <1>7, <1>8, Zenon DEF Limit
<1>11. \E b \in Seq(Nat) : calls[d].cursor + Len(b) < NextAt(memory, Last(outer).cursor)
  BY ONLY <1>9, <1>10, Zenon DEF Found
<1> QED BY ONLY <1>3, <1>4, <1>11, Zenon DEF outer

\* The innermost call is within the record.
LEMMA WithinRecord == IInv /\ pc = "read" => Last(reads).cursor \in 1..Len(record)
<1> SUFFICES ASSUME IInv, pc = "read" PROVE Last(reads).cursor \in 1..Len(record)
  OBVIOUS
<1>1. Byte(record, Last(reads).cursor) # Beyond
  BY WhileReading, NeverBeyond
<1> QED BY <1>1, Zenon DEF Byte

\* A call that has read a property or begins is behind what it was before.
LEMMA ReadsOnProperty ==
  ASSUME IInv, ReadProperty, pc' = "read"
  PROVE  Last(reads').cursor \in Nat /\ Last(reads').cursor > Last(reads).cursor
<1> DEFINE call == Last(reads)
           at == call.cursor
           fat == FrameAt(record, at)
           read == ReadValue(record, fat, FrameLength(record, at), reader, known)
<1>1. pc = "read"
  BY DEF ReadProperty
<1>2. \/ read.out = "value" /\ Got(reads, read.v)
      \/ read.out = "object" /\ ReadObject(fat)
      \/ read.out \notin {"value", "object"} /\ Ends("abort", NoGValue)
  BY DEF ReadProperty
<1> HIDE DEF read
<1>3. Got(reads, read.v) \/ ReadObject(fat)
  BY <1>2 DEF Ends
<1>4. record \in Seq(Nat) /\ reads \in Seq(ReadCalls(made)) /\ reads # <<>>
  BY <1>1, WhileReading DEF IInv, TypeOK, ReadInv
<1>5. call \in ReadCalls(made) /\ Front(reads) \in Seq(ReadCalls(made))
  <2> DEFINE R == ReadCalls(made)
  <2> HIDE DEF R
  <2>1. reads \in Seq(R) /\ reads # <<>>
    BY <1>4 DEF R
  <2>2. Last(reads) \in R /\ Front(reads) \in Seq(R)
    BY ONLY <2>1, Popped, Zenon
  <2> QED BY <2>2 DEF R
<1>6. at \in Nat
  BY <1>5 DEF ReadCalls
<1>7. fat \in Nat /\ fat > at /\ NextAt(record, at) \in Nat /\ NextAt(record, at) > at
  BY <1>4, <1>6, FurtherOn
<1>8. CASE Got(reads, read.v)
  <2> DEFINE n == NextIn(record, call)
  <2>1. reads' = Append(Front(reads), n)
    BY <1>8, Zenon DEF Got, NextIn, NextAt
  <2>2. n \in ReadCalls(made) /\ n.cursor = NextAt(record, at)
    BY <1>5, <1>7 DEF NextIn, ReadCalls
  <2> HIDE DEF n
  <2>3. Last(reads') = n
    BY ONLY <1>5, <2>1, <2>2, Pushed
  <2> QED BY ONLY <1>7, <2>2, <2>3
<1>9. CASE ReadObject(fat)
  <2> DEFINE n == ReadCall(Len(made) + 1, fat + 2 + Byte(record, fat + 1))
  <2>1. reads' = Append(reads, n)
    BY <1>9, Zenon DEF ReadObject, ReadCall
  <2>2. Last(reads') = n
    <3> HIDE DEF n
    <3>1. reads \in Seq(ReadCalls(made) \cup {n}) /\ n \in ReadCalls(made) \cup {n}
      BY <1>4
    <3> QED BY ONLY <2>1, <3>1, Pushed
  <2>3. n.cursor = fat + 2 + Byte(record, fat + 1) /\ Byte(record, fat + 1) \in Nat
    BY <1>4 DEF ReadCall, Byte, Beyond
  <2> HIDE DEF n, fat, at
  <2>4. n.cursor \in Nat /\ n.cursor > at
    BY ONLY <1>6, <1>7, <2>3
  <2> QED BY <2>2, <2>4 DEF at
<1> QED BY <1>3, <1>8, <1>9

\* A call that goes on when the one within it ends is behind that one.
LEMMA ReadsOnEnd ==
  ASSUME IInv, ReadEnd, pc' = "read"
  PROVE  Last(reads').cursor \in Nat /\ Last(reads').cursor > Last(reads).cursor
<1> DEFINE outer == Front(reads)
           around == Last(outer)
           R == ReadCalls(made)
<1>1. pc = "read"
  BY DEF ReadEnd
<1>2. outer # <<>> /\ Got(outer, Object(Last(reads).object))
  BY DEF ReadEnd, Ends
<1>3. /\ record \in Seq(Nat) /\ reads \in Seq(R) /\ reads # <<>>
      /\ ReadInv(heap, writer, value, record, known, SamePoint, made, reads)
  BY <1>1, WhileReading DEF IInv, TypeOK, ReadInv
<1>4. PICK b \in Seq(Nat) : Last(reads).cursor \in Nat /\ Last(reads).cursor + Len(b) < NextAt(record, around.cursor)
  BY <1>2, <1>3, Within, Zenon
<1> HIDE DEF R
<1>5. outer \in Seq(R)
  BY ONLY <1>3, Popped, Zenon DEF outer
<1>6. around \in R /\ Front(outer) \in Seq(R)
  <2> HIDE DEF outer
  <2> QED BY ONLY <1>2, <1>5, Popped, Zenon DEF around
<1>7. around.cursor \in Nat
  BY <1>6 DEF R, ReadCalls
<1>8. NextAt(record, around.cursor) \in Nat
  BY <1>3, <1>7, FurtherOn
<1> DEFINE n == NextIn(record, around)
<1>9. reads' = Append(Front(outer), n)
  BY <1>2, Zenon DEF Got, NextIn, NextAt
<1>10. n \in R /\ n.cursor = NextAt(record, around.cursor)
  BY <1>6, <1>8 DEF NextIn, ReadCalls, R
<1> HIDE DEF n, outer
<1>11. Last(reads') = n
  BY ONLY <1>6, <1>9, <1>10, Pushed
<1>12. Len(b) \in Nat
  OBVIOUS
<1> QED BY ONLY <1>4, <1>8, <1>10, <1>11, <1>12

(***************************************************************************)
(* Where the frame of every object has its 0, each turn of the loop of     *)
(* read_object is behind the one before it and within the record, although *)
(* it reads on until a 0 and is not held by the length of its frame: no    *)
(* chunk it reads is beyond that frame.  This is also why deserialising a  *)
(* record that was serialised ends.                                        *)
(***************************************************************************)
THEOREM ReadsOnCorrect == Spec => ReadsOn
<1> DEFINE On == pc = "read" /\ pc' = "read" /\ ~short => Last(reads').cursor \in Last(reads).cursor + 1..Len(record)
<1>1. (~short => IInv) /\ [Next]_vars => [On]_vars
  <2> SUFFICES ASSUME IInv, ~short, Next, pc = "read", pc' = "read"
               PROVE  Last(reads').cursor \in Last(reads).cursor + 1..Len(record)
    BY Zenon
  <2>1. ReadProperty \/ ReadEnd
    BY DEF Next, Serialize, WriteProperty, WriteEnd, Deserialize, Again
  <2>2. record' = record /\ short' = short
    BY <2>1 DEF ReadProperty, ReadEnd, writing
  <2>3. IInv'
    BY <2>2, IInvStep
  <2>4. Last(reads').cursor \in Nat /\ Last(reads').cursor > Last(reads).cursor
    BY <2>1, ReadsOnProperty, ReadsOnEnd
  <2>5. Last(reads).cursor \in 1..Len(record)
    BY WithinRecord
  <2>6. (Last(reads).cursor \in 1..Len(record))'
    <3>1. (IInv /\ pc = "read")'
      BY <2>3
    <3>2. (IInv /\ pc = "read" => Last(reads).cursor \in 1..Len(record))'
      BY WithinRecord, PTL
    <3> QED BY <3>1, <3>2
  <2> QED BY <2>2, <2>4, <2>5, <2>6
<1> QED BY <1>1, Invariance, PTL DEF Spec, ReadsOn
=============================================================================
