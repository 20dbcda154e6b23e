--------------------------- MODULE ZlibTransform ---------------------------
(***************************************************************************)
(* A value on its way through CatalinaZlibTransform into a record and      *)
(* back: the write of catalina-zlib-transform.c, whose two loops are steps *)
(* of their own, the tdb_store of handle_set, and the read that handle_get *)
(* makes of the record, whatever became of the watermark in between.       *)
(*                                                                         *)
(* A buffer is a sequence of cells <<kind, of, total, at>>: a plain byte,  *)
(* the at-th cell of a deflated stream of total cells, the at-th of the    *)
(* four bytes of a big-endian length, or memory never written to.  zlib is *)
(* external: a value deflates to a stream of some length, and inflates     *)
(* from the whole of that stream only.                                     *)
(***************************************************************************)
EXTENDS Integers, SequencesExt

CONSTANTS
  Byte,                 \* the bytes a value is made of, '\0' among them
  MinLength, MaxLength, \* bounds on the length of a value
  Chunk,                \* CHUNK
  StreamLength,         \* how long a deflated stream may be
  Watermark             \* what the client sets the watermark to

ASSUME ByteAssumption == {0, 1} \subseteq Byte /\ Byte \subseteq 0..255
ASSUME LengthAssumption == MinLength \in Nat /\ MaxLength \in Nat /\ Chunk \in Nat \ {0}
ASSUME StreamAssumption == StreamLength \subseteq Nat \ {0} /\ Watermark \subseteq Nat

VARIABLES
  watermark,      \* priv->watermark
  pc,             \* where the write is
  input,          \* the value being written
  stream,         \* what deflate has not handed out yet
  parts, length,  \* the chunks it has, and their length in all
  output, offset, \* the buffer the chunks are copied to, and how far
  record,         \* external: the record in tdb, <<>> for none
  meant           \* the value last stored

vars == <<watermark, pc, input, stream, parts, length, output, offset, record, meant>>
work == <<stream, parts, length, offset>>

Value == UNION {[1..n -> Byte] : n \in MinLength..MaxLength}
Plain(b) == <<"plain", <<b>>, 1, 1>>
Garbage == <<"garbage", <<>>, 1, 1>>
Bytes(v) == [i \in 1..Len(v) |-> Plain(v[i])]
Stream(v, n) == [i \in 1..n |-> <<"deflated", v, n, i>>]
BigEndian(n) == [i \in 1..4 |-> <<"length", <<n>>, 4, i>>]
Least(a, b) == IF a <= b THEN a ELSE b

Init ==
  /\ watermark = 0
  /\ pc = "idle"
  /\ input = <<>> /\ stream = <<>> /\ parts = <<>> /\ output = <<>>
  /\ length = 0 /\ offset = 0
  /\ record = <<>> /\ meant = <<>>
-----------------------------------------------------------------------------
SetWatermark(w) ==
  /\ watermark' = w
  /\ UNCHANGED <<pc, input, work, output, record, meant>>

\* A value no longer than the watermark is copied, and a 0 put behind it
WritePlain(v) ==
  /\ pc = "idle"
  /\ Len(v) <= watermark
  /\ input' = v
  /\ output' = Append(Bytes(v), Plain(0))
  /\ pc' = "store"
  /\ UNCHANGED <<watermark, work, record, meant>>

WriteDeflated(v) ==
  /\ pc = "idle"
  /\ Len(v) > watermark
  /\ input' = v
  /\ \E n \in StreamLength : stream' = Stream(v, n)
  /\ parts' = <<>> /\ length' = 0 /\ offset' = 0
  /\ pc' = "deflate"
  /\ UNCHANGED <<watermark, output, record, meant>>

\* Mutants: one chunk is taken to be enough, or none ever (avail_out >= 0)
Full_Never(have) == FALSE
Full_Always(have) == have \in 0..Chunk

\* strm.avail_out == 0: there may be more
Full(have) == have = Chunk

\* One turn of the deflate loop: another chunk, until one has room left
Deflate ==
  LET have == Least(Chunk, Len(stream)) IN
  /\ pc = "deflate"
  /\ parts' = Append(parts, SubSeq(stream, 1, have) \o [i \in 1..Chunk - have |-> Garbage])
  /\ length' = length + have
  /\ stream' = SubSeq(stream, have + 1, Len(stream))
  /\ pc' = IF Full(have) THEN "deflate" ELSE "frame"
  /\ UNCHANGED <<watermark, input, output, offset, record, meant>>

\* the locals of the write are gone when it returns
Return ==
  /\ pc' = "idle"
  /\ input' = <<>> /\ stream' = <<>> /\ parts' = <<>> /\ output' = <<>>
  /\ length' = 0 /\ offset' = 0
  /\ UNCHANGED watermark

\* deflateInit or deflate fails, so handle_set does
WriteFails ==
  /\ pc = "deflate"
  /\ Return
  /\ UNCHANGED <<record, meant>>

\* The output buffer with its tail, the length of the value and a 1
Frame ==
  /\ pc = "frame"
  /\ output' = [i \in 1..length |-> Garbage] \o BigEndian(Len(input)) \o <<Plain(1)>>
  /\ pc' = "copy"
  /\ UNCHANGED <<watermark, input, work, record, meant>>

Overlay(buffer, at, cells) ==
  [i \in 1..Len(buffer) |-> IF i \in at + 1..at + Len(cells) THEN cells[i - at] ELSE buffer[i]]

\* Mutants: the last chunk is copied if full, or copied whole
Have_Full == IF length - offset >= Chunk THEN Chunk ELSE 0
Have_Whole == Chunk

Have == Least(length - offset, Chunk)

\* Mutant: the loop stays at the same chunk
Rest_Same == parts

Rest == Tail(parts)

\* One turn of the copying loop
CopyPart ==
  /\ pc = "copy"
  /\ \/ /\ parts = <<>>
        /\ pc' = "store"
        /\ UNCHANGED <<output, offset, parts>>
     \/ /\ parts # <<>> /\ length <= Chunk
        /\ output' = Overlay(output, 0, SubSeq(Head(parts), 1, length))
        /\ pc' = "store"
        /\ UNCHANGED <<offset, parts>>
     \/ /\ parts # <<>> /\ length > Chunk
        /\ output' = Overlay(output, offset, SubSeq(Head(parts), 1, Have))
        /\ offset' = offset + Have
        /\ parts' = Rest
        /\ UNCHANGED pc
  /\ UNCHANGED <<watermark, input, stream, length, record, meant>>

\* handle_set: tdb_store of the output, which may fail
Store ==
  /\ pc = "store"
  /\ Return
  /\ \/ record' = output /\ meant' = input
     \/ UNCHANGED <<record, meant>>

Write == Deflate \/ WriteFails \/ Frame \/ CopyPart \/ Store

Next ==
  \/ \E w \in Watermark : SetWatermark(w)
  \/ \E v \in Value : WritePlain(v) \/ WriteDeflated(v)
  \/ Write

Spec == Init /\ [][Next]_vars
FairSpec == Spec /\ WF_vars(Write)
-----------------------------------------------------------------------------
(***************************************************************************)
(* Reading a record: inflate needs the whole stream and room for its value;*)
(* otherwise the program aborts (g_error), which no stored record may cause. *)
(***************************************************************************)
Inflate(cells, room) ==
  IF \E n \in StreamLength, v \in Value : cells = Stream(v, n) /\ Len(v) <= room
  THEN Bytes(cells[1][2]) \o [i \in 1..room - Len(cells[1][2]) |-> Garbage]
  ELSE <<Garbage>>

\* A 0 at the end marks a copy, else the length of the value stands before it
RealRead(frame) ==
  LET last == Len(frame) IN
  IF frame[last] = Plain(0)
  THEN SubSeq(frame, 1, last - 1)
  ELSE Inflate(SubSeq(frame, 1, last - 5), frame[last - 4][2][1])

\* handle_get: an empty result of the transform means the record itself
Fetch(frame) == IF RealRead(frame) = <<>> THEN frame ELSE RealRead(frame)
-----------------------------------------------------------------------------
\* Each variable keeps to its type.
TypeOK ==
  /\ watermark \in Watermark \cup {0}
  /\ pc \in {"idle", "deflate", "frame", "copy", "store"}
  /\ input \in Value \cup {<<>>} /\ meant \in Value \cup {<<>>}
  /\ length \in Nat /\ offset \in 0..length
  /\ \A i \in 1..Len(parts) : Len(parts[i]) = Chunk

(***************************************************************************)
(* No byte of memory that was never written reaches the database: the      *)
(* chunks, of which the last is partly filled, cover the output exactly    *)
(* (catalina_zlib_transform_real_write).                                   *)
(***************************************************************************)
FrameIsFilled == Garbage \notin ToSet(record)

(***************************************************************************)
(* What get returns is what set was given, however long it is against the  *)
(* chunks, and wherever the watermark was then and is now: "the transform  *)
(* hides this detail".                                                     *)
(***************************************************************************)
StoredComesBack == record # <<>> => Fetch(record) = Bytes(meant)

(***************************************************************************)
(* A bound on the steps that are left of a write: two for each cell of the *)
(* stream that deflate still has, which may be a chunk of its own, one for *)
(* each chunk to be copied.  Both loops keep to it, and nothing else that  *)
(* happens meanwhile prolongs a write.                                     *)
(***************************************************************************)
StepsLeft ==
  CASE pc = "idle" -> 0
    [] pc = "store" -> 1
    [] pc = "copy" -> 2 + Len(parts)
    [] pc = "frame" -> 3 + Len(parts)
    [] pc = "deflate" -> 5 + Len(parts) + 2 * Len(stream)
StepsRunOut ==
  [][pc # "idle" => StepsLeft' < StepsLeft \/ (watermark' # watermark /\ StepsLeft' = StepsLeft)]_vars

\* A write that has begun ends: the chunk that fills up exactly is not the last.
WriteEnds == pc # "idle" ~> pc = "idle"
=============================================================================
