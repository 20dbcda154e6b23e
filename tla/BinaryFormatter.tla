-------------------------- MODULE BinaryFormatter --------------------------
(***************************************************************************)
(* CatalinaBinaryFormatter.  A GValue is serialised by one process and     *)
(* deserialised by another, which may run on a machine of the other byte   *)
(* order, may print decimal points differently and may know fewer classes; *)
(* what it got is then serialised again.                                   *)
(*                                                                         *)
(* Objects refer to each other by their place in the heap of the process.  *)
(* write_object and read_object call themselves for a property that is an  *)
(* object: the calls under way are kept in a sequence, the innermost last. *)
(*                                                                         *)
(* A byte is a number.  A GValue keeps the bytes of a number, the most     *)
(* significant first, or the characters of a string.  A real number has    *)
(* three digits, one more than it is printed with (eight of a double, six  *)
(* of a float), or is tiny: printed as a number below the smallest normal  *)
(* one, as a denormal and that number itself are.                          *)
(***************************************************************************)
EXTENDS Integers, SequencesExt

CONSTANTS
  Classes,   \* the properties of each class: name, type, writable
  Given,     \* the values to serialise, each with the heap it refers to
  Garbage,   \* what the uninitialised total of write_object may hold, as a signed number
  MaxLength  \* the largest length of a frame, at most the largest guint

Scalar(type, bytes) == [type |-> type, bytes |-> bytes, ref |-> 0]
Object(ref) == [type |-> "OBJECT", bytes |-> <<>>, ref |-> ref]
NullString == Scalar("STRING", <<0>>)        \* no string of C contains a 0
NullObject == Object(0)
NoGValue == Scalar("NONE", <<>>)
Tiny == 1000
IsObject(v) == v.type = "OBJECT" /\ v # NullObject

Real == {"DOUBLE", "FLOAT"}
Width == [BOOLEAN |-> 1, CHAR |-> 1, UCHAR |-> 1, INT |-> 4, UINT |-> 4,
          LONG |-> 8, ULONG |-> 8, INT64 |-> 8, UINT64 |-> 8]
TypeId == [BOOLEAN |-> 1, INT64 |-> 2, UINT64 |-> 130, LONG |-> 3, ULONG |-> 131, INT |-> 4, UINT |-> 132,
           CHAR |-> 6, UCHAR |-> 134, DOUBLE |-> 7, FLOAT |-> 8, STRING |-> 14, OBJECT |-> 15]
CanSerialize(type) == type \in DOMAIN TypeId

Machine == [endian : {"little", "big"}, point : {44, 46}]
AnyMachine == [endian |-> "little", point |-> 46]   \* while it does not matter

(***************************************************************************)
(* Names of classes and properties, whose length fits a byte with the 0 at *)
(* the end; GValues that refer to one of n objects; heaps.                 *)
(***************************************************************************)
Char == 1..255
IsName(name) == name \in Seq(Char) /\ Len(name) \in 1..254
GValue == [type : STRING, bytes : Seq(Nat), ref : Nat]
IsGValue(v, n) ==
  /\ v \in GValue
  /\ v.type \in DOMAIN Width => v.bytes \in [1..Width[v.type] -> 0..255]
  /\ v.type = "BOOLEAN" => v.bytes[1] \in {0, 1}
  /\ v.type \in Real => Len(v.bytes) = 1 /\ v.bytes[1] \in 0..994 \cup {Tiny}
  /\ v.type = "STRING" => v.bytes = <<0>> \/ (v.bytes \in Seq(Char) /\ Len(v.bytes) <= MaxLength - 6)
  /\ IF v.type = "OBJECT" THEN v.bytes = <<>> /\ v.ref <= n ELSE v.ref = 0
Properties(object) == Classes[object.class]
IsHeap(objects) ==
  /\ objects \in Seq([class : DOMAIN Classes, props : Seq(GValue)])
  /\ \A o \in 1..Len(objects) :
       /\ Len(objects[o].props) = Len(Properties(objects[o]))
       /\ \A i \in 1..Len(objects[o].props) :
            /\ IsGValue(objects[o].props[i], Len(objects))
            /\ objects[o].props[i].type = Properties(objects[o])[i].type

ASSUME ClassAssumption ==
  \A c \in DOMAIN Classes :
    /\ IsName(c)
    /\ Classes[c] \in Seq([name : Seq(Char), type : STRING, writable : BOOLEAN])
    /\ \A i, j \in 1..Len(Classes[c]) :
         IsName(Classes[c][i].name) /\ (Classes[c][i].name = Classes[c][j].name => i = j)
ASSUME GivenAssumption ==
  \A g \in Given : IsHeap(g.heap) /\ IsGValue(g.value, Len(g.heap))
ASSUME GarbageAssumption == Garbage \subseteq Int
ASSUME LengthAssumption == MaxLength \in Nat /\ MaxLength >= 9 /\ MaxLength \div 16777216 < 256

VARIABLES
  pc,        \* what comes next
  round,     \* how often the value has been serialised
  value,     \* the value to serialise
  heap,      \* the objects of the process that does it
  writer,    \* its machine
  writes,    \* its calls of write_object
  record,    \* the serialised bytes
  short,     \* whether the frame of an object has been left without its 0
  reader,    \* the machine that deserialises
  known,     \* the classes registered there
  made,      \* the objects of the process there
  reads,     \* its calls of read_object
  outcome,   \* of the deserialisation: a value, FALSE, g_error, or reading on
  back       \* the value it made

vars == <<pc, round, value, heap, writer, writes, record, short, reader, known, made, reads, outcome, back>>
given    == <<round, value, heap>>
writing  == <<writer, writes, record, short>>
reading  == <<reader, known, made, reads>>
finished == <<outcome, back>>
-----------------------------------------------------------------------------
(***************************************************************************)
(* Writing.  No frame is empty, so an empty one stands for FALSE.          *)
(***************************************************************************)
Failed == <<>>

\* A number as the machine keeps it
InMemory(bytes, m) == IF m.endian = "little" THEN Reverse(bytes) ELSE bytes

\* Mutant: the bytes are left as they are
ToBE_Skipped(bytes, m) == bytes

\* G*_TO_BE, and G*_FROM_BE the other way round
ToBE(bytes, m) == InMemory(bytes, m)

BE32(n) == <<n \div 16777216, (n \div 65536) % 256, (n \div 256) % 256, n % 256>>

WriteByte(v) == <<TypeId[v.type]>> \o v.bytes
WriteInt(v, m) == <<TypeId[v.type]>> \o ToBE(InMemory(v.bytes, m), m)
WriteLong(v, m) == <<TypeId[v.type]>> \o ToBE(InMemory(v.bytes, m), m)
WriteInt64(v, m) == <<TypeId[v.type]>> \o ToBE(InMemory(v.bytes, m), m)

\* bytes includes the 0 at the end; a NULL has none
WriteString(bytes) == <<TypeId.STRING>> \o BE32(Len(bytes)) \o bytes
Terminated(v) == IF v = NullString THEN <<>> ELSE Append(v.bytes, 0)

Digit(n) == 48 + n

\* printf ("%g") of a real, for the locale of the machine
Text(real, m) ==
  LET tenths == (real + 5) \div 10 IN
  IF real = Tiny THEN <<49, 101, 45>>
  ELSE IF tenths % 10 = 0 THEN <<Digit(tenths \div 10)>>
  ELSE <<Digit(tenths \div 10), m.point, Digit(tenths % 10)>>

\* write_double, write_float: a string frame under another type
WriteReal(v, m) == <<TypeId[v.type]>> \o Tail(WriteString(Append(Text(v.bytes[1], m), 0)))

\* Mutant: the chunk of a failed property is kept
Chunk_Kept(name, frame) == <<(1 + Len(name)) % 256>> \o name \o <<0>> \o BE32(Len(frame)) \o frame

\* A property's name, its length in a byte, and its frame; skipped if it has none
Chunk(name, frame) ==
  IF frame = Failed THEN <<>>
  ELSE <<(1 + Len(name)) % 256>> \o name \o <<0>> \o BE32(Len(frame)) \o frame

\* Mutant: no 0 is left behind the chunks
WriteObject_Unterminated(class, chunks, total) ==
  <<TypeId.OBJECT, (1 + Len(class)) % 256>> \o class \o <<0>> \o chunks \o [i \in 1..total |-> 0]

\* The header, the chunks, and what g_malloc0 left behind them: nothing, if total is -1
WriteObject(class, chunks, total) ==
  <<TypeId.OBJECT, (1 + Len(class)) % 256>> \o class \o <<0>> \o chunks \o [i \in 1..total + 1 |-> 0]

\* write_value of anything but an object
WriteScalar(v, m) ==
  CASE v.type = "STRING" -> WriteString(Terminated(v))
    [] v.type \in {"BOOLEAN", "CHAR", "UCHAR"} -> WriteByte(v)
    [] v.type \in {"INT", "UINT"} -> WriteInt(v, m)
    [] v.type \in {"LONG", "ULONG"} -> WriteLong(v, m)
    [] v.type \in {"INT64", "UINT64"} -> WriteInt64(v, m)
    [] v.type \in Real -> WriteReal(v, m)
    [] OTHER -> Failed
-----------------------------------------------------------------------------
(***************************************************************************)
(* Reading, from memory of which the record is all that is ours.           *)
(***************************************************************************)
Beyond == 256
Byte(memory, at) == IF at \in 1..Len(memory) THEN memory[at] ELSE Beyond
Bytes(memory, at, n) == [i \in 1..n |-> Byte(memory, at + i - 1)]
FromBE32(b) == 16777216 * b[1] + 65536 * b[2] + 256 * b[3] + b[4]

Value(v) == [out |-> "value", v |-> v]
Fails(how) == [out |-> how, v |-> NoGValue]

ReadByte(type, bytes) ==
  IF Len(bytes) # 1 THEN Fails("false")
  ELSE Value(Scalar(type, IF type = "BOOLEAN" /\ bytes # <<0>> THEN <<1>> ELSE bytes))
ReadInt(type, bytes, m) ==
  IF Len(bytes) # 4 THEN Fails("false") ELSE Value(Scalar(type, InMemory(ToBE(bytes, m), m)))
ReadLong(type, bytes, m) ==
  IF Len(bytes) # 8 THEN Fails("false") ELSE Value(Scalar(type, InMemory(ToBE(bytes, m), m)))
ReadInt64(type, bytes, m) ==
  IF Len(bytes) # 8 THEN Fails("false") ELSE Value(Scalar(type, InMemory(ToBE(bytes, m), m)))

\* The characters of a string frame; its length must be that of the frame
ReadString(bytes) == SubSeq(bytes, 5, Len(bytes))
StringFits(bytes) == Len(bytes) >= 4 /\ FromBE32(bytes) = Len(bytes) - 4

\* strtod, for the locale of the machine
ReadReal(type, text, m) ==
  Scalar(type, <<100 * (text[1] - 48) + IF text[2] = m.point THEN 10 * (text[3] - 48) ELSE 0>>)

\* Mutant: errno is not looked at
RangeError_Ignored(text) == FALSE

\* errno after strtod
RangeError(text) == text[2] = 101

Default(type) ==
  CASE type = "STRING" -> NullString
    [] type = "OBJECT" -> NullObject
    [] type \in DOMAIN Width -> Scalar(type, [i \in 1..Width[type] |-> 0])
    [] type \in Real -> Scalar(type, <<0>>)
    [] OTHER -> Scalar(type, <<>>)

Restored(p, v) == p.writable /\ p.type = v.type

\* Mutant: properties are assigned in the order in which they come
SetProperty_InOrder(object, name, v) ==
  LET list == Classes[object.class]
      free == {i \in 1..Len(list) : Restored(list[i], v) /\ object.props[i] = Default(v.type)}
  IN [object EXCEPT !.props = [i \in 1..Len(list) |->
        IF i \in free /\ \A j \in free : i <= j THEN v ELSE object.props[i]]]

\* g_object_set_property: an unknown or read-only property is passed over
SetProperty(object, name, v) ==
  LET list == Classes[object.class] IN
  [object EXCEPT !.props = [i \in 1..Len(list) |->
     IF list[i].name = name /\ Restored(list[i], v) THEN v ELSE object.props[i]]]

New(class) ==
  [class |-> class, props |-> [i \in 1..Len(Classes[class]) |-> Default(Classes[class][i].type)]]

\* The parts of an object's frame and of a property's chunk
Name(memory, at) == Bytes(memory, at + 1, Byte(memory, at) - 1)
FrameAt(memory, at) == at + Byte(memory, at) + 5
FrameLength(memory, at) == FromBE32(Bytes(memory, at + Byte(memory, at) + 1, 4))

\* read_value of anything but an object
ReadScalar(type, bytes, m) ==
  LET text == ReadString(bytes) IN
  CASE type \in {"BOOLEAN", "CHAR", "UCHAR"} -> ReadByte(type, bytes)
    [] type \in {"INT", "UINT"} -> ReadInt(type, bytes, m)
    [] type \in {"LONG", "ULONG"} -> ReadLong(type, bytes, m)
    [] type \in {"INT64", "UINT64"} -> ReadInt64(type, bytes, m)
    [] type = "STRING" /\ StringFits(bytes) ->
         Value(IF text = <<>> THEN NullString ELSE Scalar("STRING", Front(text)))
    [] type \in Real /\ StringFits(bytes) ->
         IF RangeError(text) THEN Fails("false") ELSE Value(ReadReal(type, text, m))
    [] OTHER -> Fails("false")

TypeOf(id) ==
  IF \E t \in DOMAIN TypeId : TypeId[t] = id THEN CHOOSE t \in DOMAIN TypeId : TypeId[t] = id ELSE "NONE"

(***************************************************************************)
(* read_value, as far as it is not read_object, which it calls for an      *)
(* object of a class that is known.                                        *)
(***************************************************************************)
ReadValue(memory, at, length, m, classes) ==
  LET id == Byte(memory, at) IN
  CASE id = Beyond -> Fails("overrun")
    [] id = TypeId.OBJECT -> Fails(IF Name(memory, at + 1) \in classes THEN "object" ELSE "false")
    [] OTHER -> ReadScalar(TypeOf(id), Bytes(memory, at + 1, length - 1), m)
-----------------------------------------------------------------------------
Init ==
  /\ pc = "serialize"
  /\ round = 1
  /\ \E g \in Given : value = g.value /\ heap = g.heap
  /\ writer = AnyMachine /\ reader = AnyMachine
  /\ record = <<>> /\ short = FALSE
  /\ known = {}
  /\ made = <<>>
  /\ writes = <<>> /\ reads = <<>>
  /\ outcome = "none"
  /\ back = NoGValue

(***************************************************************************)
(* write_object: a turn of its loop for each property; then the buffer is  *)
(* filled.                                                                 *)
(***************************************************************************)
WriteCall(ref) == [object |-> ref, next |-> 1, chunks |-> <<>>]
Wrote(call, frame) ==
  [call EXCEPT !.next = @ + 1, !.chunks = Chunk(Properties(heap[call.object])[call.next].name, frame) \o @]

\* real_serialize: what write_value returned is not looked at
Stored(frame) == <<1, 0>> \o frame

Serialize ==
  /\ pc = "serialize"
  /\ writer' \in Machine
  /\ IF IsObject(value)
     THEN pc' = "write" /\ writes' = <<WriteCall(value.ref)>> /\ UNCHANGED record
     ELSE pc' = "deserialize" /\ record' = Stored(WriteScalar(value, writer')) /\ UNCHANGED writes
  /\ UNCHANGED <<given, short, reading, finished>>

WriteProperty ==
  /\ pc = "write"
  /\ LET call == Last(writes)
         object == heap[call.object]
         v == object.props[call.next] IN
     /\ call.next <= Len(Properties(object))
     /\ writes' = IF IsObject(v) THEN Append(writes, WriteCall(v.ref))
                  ELSE Append(Front(writes), Wrote(call,
                         IF CanSerialize(Properties(object)[call.next].type) THEN WriteScalar(v, writer) ELSE Failed))
  /\ UNCHANGED <<pc, given, writer, record, short, reading, finished>>

(***************************************************************************)
(* total, which is never set to 0, is added to.  If the buffer is then too *)
(* small for the header and the chunks, or its length overflows, they are  *)
(* written past its end; if it is as long as they are, no 0 follows them.  *)
(***************************************************************************)
WriteEnd ==
  /\ pc = "write"
  /\ \E total \in Garbage :
       LET call == Last(writes)
           class == heap[call.object].class
           frame == WriteObject(class, call.chunks, total)
           outer == Front(writes) IN
       /\ call.next > Len(Classes[class])
       /\ short' = (short \/ total = -1)
       /\ \/ /\ total < -1 \/ Len(frame) > MaxLength
             /\ pc' = "corrupted" /\ UNCHANGED <<writes, record>>
          \/ /\ total >= -1 /\ Len(frame) <= MaxLength /\ outer # <<>>
             /\ writes' = Append(Front(outer), Wrote(Last(outer), frame)) /\ UNCHANGED <<pc, record>>
          \/ /\ total >= -1 /\ Len(frame) <= MaxLength /\ outer = <<>>
             /\ writes' = outer /\ record' = Stored(frame) /\ pc' = "deserialize"
  /\ UNCHANGED <<given, writer, reading, finished>>

\* Mutant: no object is made
ReadObject_NotMade(at) ==
  /\ pc' = "read"
  /\ reads' = Append(reads, [object |-> Len(made) + 1, cursor |-> at + 2 + Byte(record, at + 1)])
  /\ UNCHANGED <<made, finished>>

(***************************************************************************)
(* read_object: a turn of its loop for each chunk.  It ends at a 0 and     *)
(* never looks at the length.                                              *)
(***************************************************************************)
ReadObject(at) ==
  /\ pc' = "read"
  /\ made' = Append(made, New(Name(record, at + 1)))
  /\ reads' = Append(reads, [object |-> Len(made) + 1, cursor |-> at + 2 + Byte(record, at + 1)])
  /\ UNCHANGED finished

Ends(how, v) ==
  /\ pc' = "done" /\ outcome' = how /\ back' = v
  /\ reads' = <<>>
  /\ UNCHANGED made

Deserialize ==
  /\ pc = "deserialize"
  /\ reader' \in Machine
  /\ known' \in SUBSET DOMAIN Classes
  /\ LET read == IF record[1] = 1 THEN ReadValue(record, 3, Len(record) - 2, reader', known') ELSE Fails("false") IN
     IF read.out = "object" THEN ReadObject(3) ELSE Ends(read.out, read.v)
  /\ UNCHANGED <<given, writing>>

\* Mutant: the cursor stays where it is
Got_Stays(calls, v) ==
  LET call == Last(calls) IN
  /\ made' = [made EXCEPT ![call.object] = SetProperty(@, Name(record, call.cursor), v)]
  /\ reads' = calls
  /\ UNCHANGED <<pc, finished>>

\* g_object_set_property and the next chunk, in the given calls of read_object
Got(calls, v) ==
  LET call == Last(calls)
      at == call.cursor IN
  /\ made' = [made EXCEPT ![call.object] = SetProperty(@, Name(record, at), v)]
  /\ reads' = Append(Front(calls), [call EXCEPT !.cursor = FrameAt(record, at) + FrameLength(record, at)])
  /\ UNCHANGED <<pc, finished>>

ReadProperty ==
  /\ pc = "read"
  /\ LET at == Last(reads).cursor
         read == ReadValue(record, FrameAt(record, at), FrameLength(record, at), reader, known) IN
     /\ Byte(record, at) \notin {0, Beyond}
     /\ \/ read.out = "value" /\ Got(reads, read.v)
        \/ read.out = "object" /\ ReadObject(FrameAt(record, at))
        \/ read.out \notin {"value", "object"} /\ Ends("abort", NoGValue)
  /\ UNCHANGED <<given, writing, reader, known>>

ReadEnd ==
  /\ pc = "read"
  /\ LET call == Last(reads)
         outer == Front(reads) IN
     \/ Byte(record, call.cursor) = 0 /\ outer # <<>> /\ Got(outer, Object(call.object))
     \/ Byte(record, call.cursor) = 0 /\ outer = <<>> /\ Ends("value", Object(call.object))
     \/ Byte(record, call.cursor) = Beyond /\ Ends("overrun", NoGValue)
  /\ UNCHANGED <<given, writing, reader, known>>

\* The client stores what it got, maybe elsewhere
Again ==
  /\ pc = "done"
  /\ round = 1 /\ outcome = "value"
  /\ pc' = "serialize"
  /\ round' = 2
  /\ value' = back /\ heap' = made
  /\ made' = <<>>
  /\ writer' = AnyMachine /\ reader' = AnyMachine
  /\ record' = <<>> /\ known' = {}
  /\ outcome' = "none" /\ back' = NoGValue
  /\ UNCHANGED <<writes, short, reads>>

Next == Serialize \/ WriteProperty \/ WriteEnd \/ Deserialize \/ ReadProperty \/ ReadEnd \/ Again

Spec == Init /\ [][Next]_vars

\* A process that serialises or deserialises goes on.
FairSpec == Spec /\ WF_vars(Next)
-----------------------------------------------------------------------------
\* Each variable keeps to its type.
TypeOK ==
  /\ pc \in {"serialize", "write", "corrupted", "deserialize", "read", "done"}
  /\ round \in {1, 2}
  /\ IsHeap(heap) /\ IsGValue(value, Len(heap))
  /\ writer \in Machine /\ reader \in Machine
  /\ writes \in Seq([object : 1..Len(heap), next : Nat, chunks : Seq(Nat)])
  /\ record \in Seq(Nat) /\ short \in BOOLEAN
  /\ known \in SUBSET DOMAIN Classes
  /\ IsHeap(made)
  /\ reads \in Seq([object : 1..Len(made), cursor : Nat])
  /\ outcome \in {"none", "value", "false", "abort", "overrun"}
  /\ IF outcome = "value" THEN IsGValue(back, Len(made)) ELSE back = NoGValue

(***************************************************************************)
(* The objects that value refers to, directly or through others.           *)
(***************************************************************************)
Closed(P) ==
  /\ IsObject(value) => value.ref \in P
  /\ \A o \in P : \A i \in DOMAIN heap[o].props : IsObject(heap[o].props[i]) => heap[o].props[i].ref \in P
Parts == {o \in DOMAIN heap : \A P \in SUBSET DOMAIN heap : Closed(P) => o \in P}

Storable(v) == CanSerialize(v.type) /\ v # NullObject
Unreadable(v) ==
  \/ v.type \in Real /\ v.bytes[1] = Tiny
  \/ IsObject(v) /\ heap[v.ref].class \notin known
HasUnreadable(o) == \E i \in DOMAIN heap[o].props : Unreadable(heap[o].props[i])
SamePoint == writer.point = reader.point

(***************************************************************************)
(* What a value comes back as, where object r is read for object of[r]:    *)
(* reals as they were printed, properties that cannot be stored or set as  *)
(* in a new object.                                                        *)
(***************************************************************************)
Rounded(real) == 10 * ((real + 5) \div 10)
ComesBackAs(v, w, of) ==
  CASE v.type \in Real -> w = Scalar(v.type, <<Rounded(v.bytes[1])>>)
    [] IsObject(v) -> IsObject(w) /\ of[w.ref] = v.ref
    [] OTHER -> w = v
IsCopy(r, of) ==
  LET copy == made[r]
      object == heap[of[r]] IN
  /\ copy.class = object.class
  /\ \A i \in DOMAIN object.props :
       LET p == Properties(object)[i] IN
       IF p.writable /\ CanSerialize(p.type) THEN ComesBackAs(object.props[i], copy.props[i], of)
       ELSE copy.props[i] = Default(p.type)
Restores == \E of \in [DOMAIN made -> DOMAIN heap] :
  ComesBackAs(value, back, of) /\ \A r \in DOMAIN made : IsCopy(r, of)

(***************************************************************************)
(* A value of a supported type comes back, from any machine on any other,  *)
(* where its classes are known, the decimal point is the same and no frame *)
(* was left without its 0: "a tight, cross-endian data format"             *)
(* (src/doc/catalina.t2t).                                                 *)
(***************************************************************************)
RoundTrip ==
  pc = "done" /\ ~short /\ SamePoint /\ Storable(value) /\ ~Unreadable(value) /\ (\A o \in Parts : ~HasUnreadable(o))
  => outcome = "value" /\ Restores

\* No other value is returned as a success, where no frame lacks its 0 (catalina_formatter_deserialize).
NeverWrong == pc = "done" /\ ~short /\ SamePoint /\ outcome = "value" => Restores

(***************************************************************************)
(* read_value fails only for a value that is itself unreadable; the        *)
(* program is aborted (the g_error of read_object) only for one within an  *)
(* object; and the end of the record is passed only if nothing was written *)
(* or the frame of an object lacks its 0 (write_object, read_object).      *)
(***************************************************************************)
FailuresExplained ==
  pc = "done" =>
    /\ outcome = "false" => Unreadable(value)
    /\ outcome = "abort" => ~Unreadable(value) /\ \E o \in Parts : HasUnreadable(o)
    /\ outcome = "overrun" => ~Storable(value) \/ short

(***************************************************************************)
(* What has been stored and read once is not changed by storing it again,  *)
(* where no frame lacks its 0 (real_serialize, real_deserialize).          *)
(***************************************************************************)
Same(v, w, of) == IF IsObject(v) THEN IsObject(w) /\ of[w.ref] = v.ref ELSE w = v
Settled ==
  pc = "done" /\ round = 2 /\ ~short /\ SamePoint /\ outcome = "value" =>
    \E of \in [DOMAIN made -> DOMAIN heap] :
      /\ Same(value, back, of)
      /\ \A r \in DOMAIN made :
           /\ made[r].class = heap[of[r]].class
           /\ \A i \in DOMAIN made[r].props : Same(heap[of[r]].props[i], made[r].props[i], of)

(***************************************************************************)
(* read_object never looks at the length of its frame: it reads on until   *)
(* it comes to a 0, and read_value of the calls around it goes on where    *)
(* their lengths say.  Where no frame lacks its 0, each turn of a loop is  *)
(* behind the one before it, in whatever call, and within the record: no   *)
(* frame ends before what is read as part of it.                           *)
(***************************************************************************)
ReadsOn ==
  [][pc = "read" /\ pc' = "read" /\ ~short => Last(reads').cursor \in Last(reads).cursor + 1..Len(record)]_vars

(***************************************************************************)
(* Serialising and deserialising end, for objects that do not refer to     *)
(* each other in a circle (write_object and read_object call themselves).  *)
(***************************************************************************)
TripEnds == pc = "serialize" ~> pc \in {"done", "corrupted"}
=============================================================================
