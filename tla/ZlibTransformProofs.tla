------------------------- MODULE ZlibTransformProofs -------------------------
(***************************************************************************)
(* Values come back whole from CatalinaZlibTransform for any bytes, lengths *)
(* from 1, chunk size, streams and watermarks.                             *)
(***************************************************************************)
EXTENDS ZlibTransform, SequenceTheorems, TLAPS

\* Where a chunk starts when i are before it.
At(i) == i * Chunk

Cell == {"plain", "garbage", "deflated", "length"} \X Seq(Nat) \X Nat \X Nat
Deflated(v, n, at) == <<"deflated", v, n, at>>

\* The chunks hold the stream from its cell base on, to its end.
Covers(base, v, n) ==
  \A i \in 1..Len(parts), j \in 1..Chunk :
    base + At(i - 1) + j <= n => parts[i][j] = Deflated(v, n, base + At(i - 1) + j)

\* The tail of a deflated frame, and the two kinds of frame.
Tailed(buffer, v, n) ==
  /\ buffer \in Seq(Cell) /\ Len(buffer) = n + 5
  /\ \A i \in 1..4 : buffer[n + i] = <<"length", <<Len(v)>>, 4, i>>
  /\ buffer[n + 5] = Plain(1)
Holds(buffer, v, n, upto) == \A i \in 1..upto : buffer[i] = Deflated(v, n, i)
Framed(buffer, v) ==
  \/ buffer = Append(Bytes(v), Plain(0))
  \/ \E n \in StreamLength : Tailed(buffer, v, n) /\ Holds(buffer, v, n, n)

Deflating == pc = "deflate" =>
  \E n \in StreamLength :
    /\ offset = 0 /\ length = At(Len(parts)) /\ length <= n
    /\ stream = [j \in 1..n - length |-> Deflated(input, n, length + j)]
    /\ Covers(0, input, n)
Framing == pc = "frame" =>
  length \in StreamLength /\ offset = 0 /\ length <= At(Len(parts)) /\ Covers(0, input, length)
Copying == pc = "copy" =>
  /\ length \in StreamLength /\ length - offset <= At(Len(parts)) /\ Covers(offset, input, length)
  /\ length <= Chunk => offset = 0
  /\ Tailed(output, input, length) /\ Holds(output, input, length, offset)
Storing == pc = "store" => Framed(output, input)
Stored == record # <<>> => meant \in Value /\ Framed(record, meant)

IInv ==
  /\ TypeOK /\ parts \in Seq(Seq(Cell))
  /\ pc = "idle" => parts = <<>> /\ length = 0 /\ offset = 0
  /\ pc # "idle" => input \in Value
  /\ Deflating /\ Framing /\ Copying /\ Storing /\ Stored
-----------------------------------------------------------------------------
(***************************************************************************)
(* Facts about the data.                                                   *)
(***************************************************************************)
\* Chunks are adjacent.
LEMMA AtFacts == At(0) = 0 /\ \A i \in Nat : At(i) \in Nat /\ At(i + 1) = At(i) + Chunk
BY LengthAssumption, SMTT(30) DEF At

\* The cells there are.
LEMMA CellFacts ==
  /\ Garbage \in Cell /\ Plain(0) # Plain(1)
  /\ \A v \in Seq(Nat), n, at \in Nat : Deflated(v, n, at) \in Cell /\ Deflated(v, n, at) # Garbage
  /\ \A n, at \in Nat : <<"length", <<n>>, 4, at>> \in Cell /\ <<"length", <<n>>, 4, at>> # Garbage
  /\ \A b \in Nat : Plain(b) \in Cell /\ Plain(b) # Garbage
<1>1. <<>> \in Seq(Nat) /\ \A n \in Nat : <<n>> \in Seq(Nat)
  OBVIOUS
<1>2. Garbage \in Cell
  BY <1>1 DEF Garbage, Cell
<1>3. \A b \in Nat : Plain(b) \in Cell /\ Plain(b) # Garbage
  BY <1>1 DEF Plain, Garbage, Cell
<1>4. Plain(0) # Plain(1)
  BY DEF Plain
<1>5. \A v \in Seq(Nat), n, at \in Nat : Deflated(v, n, at) \in Cell /\ Deflated(v, n, at) # Garbage
  BY DEF Deflated, Garbage, Cell
<1>6. \A n, at \in Nat : <<"length", <<n>>, 4, at>> \in Cell /\ <<"length", <<n>>, 4, at>> # Garbage
  BY <1>1 DEF Garbage, Cell
<1> QED BY <1>2, <1>3, <1>4, <1>5, <1>6

\* A value is a list of bytes.
LEMMA ValueFacts ==
  ASSUME NEW v \in Value
  PROVE  /\ v \in Seq(Byte) /\ v \in Seq(Nat) /\ Len(v) \in MinLength..MaxLength
         /\ Bytes(v) \in Seq(Cell) /\ Len(Bytes(v)) = Len(v)
         /\ \A i \in 1..Len(v) : Bytes(v)[i] = Plain(v[i]) /\ v[i] \in Nat
<1>1. PICK n \in MinLength..MaxLength : v \in [1..n -> Byte]
  BY DEF Value
<1>2. n \in Nat /\ v \in Seq(Byte) /\ Len(v) = n
  BY <1>1, LengthAssumption
<1>3. \A i \in 1..n : v[i] \in Nat /\ Plain(v[i]) \in Cell
  <2>1. \A i \in 1..n : v[i] \in Byte
    BY <1>1
  <2>2. \A b \in Byte : b \in Nat
    BY ByteAssumption
  <2> QED BY <2>1, <2>2, CellFacts
<1>4. Bytes(v) \in Seq(Cell) /\ Len(Bytes(v)) = n /\ \A i \in 1..n : Bytes(v)[i] = Plain(v[i])
  <2>1. Bytes(v) = [i \in 1..n |-> Plain(v[i])]
    BY <1>2 DEF Bytes
  <2>2. Bytes(v) \in [1..n -> Cell]
    BY <1>3, <2>1
  <2> QED BY <1>2, <2>1, <2>2
<1>5. v \in Seq(Nat)
  BY <1>2, <1>3
<1> QED BY <1>2, <1>3, <1>4, <1>5

\* A frame can be read back, and none of it is memory never written to.
LEMMA FramesRead ==
  ASSUME MinLength > 0, NEW v \in Value, NEW frame, Framed(frame, v)
  PROVE  Fetch(frame) = Bytes(v) /\ Garbage \notin ToSet(frame)
<1>1. /\ v \in Seq(Nat) /\ Len(v) \in Nat /\ Len(v) > 0
      /\ Bytes(v) \in Seq(Cell) /\ Len(Bytes(v)) = Len(v)
      /\ \A i \in 1..Len(v) : Bytes(v)[i] = Plain(v[i]) /\ v[i] \in Nat
  BY ValueFacts, LengthAssumption
<1>2. Bytes(v) # <<>>
  BY <1>1
<1>3. CASE frame = Append(Bytes(v), Plain(0))
  <2>1. /\ frame \in Seq(Cell) /\ Len(frame) = Len(v) + 1 /\ frame[Len(v) + 1] = Plain(0)
        /\ \A i \in 1..Len(v) : frame[i] = Bytes(v)[i]
    BY <1>1, <1>3, CellFacts
  <2>2. SubSeq(frame, 1, Len(v)) = Bytes(v)
    <3>1. /\ SubSeq(frame, 1, Len(v)) \in Seq(Cell) /\ Len(SubSeq(frame, 1, Len(v))) = Len(v)
          /\ \A i \in 1..Len(v) : SubSeq(frame, 1, Len(v))[i] = frame[i]
      BY <1>1, <2>1
    <3> QED BY <1>1, <2>1, <3>1
  <2>3. RealRead(frame) = Bytes(v)
    <3>1. Len(frame) - 1 = Len(v) /\ frame[Len(frame)] = Plain(0)
      BY <1>1, <2>1
    <3> QED BY <2>2, <3>1 DEF RealRead
  <2>4. Garbage \notin ToSet(frame)
    <3>1. \A i \in 1..Len(v) : frame[i] # Garbage
      BY <1>1, <2>1, CellFacts
    <3>2. frame[Len(v) + 1] # Garbage
      BY <2>1, CellFacts
    <3>3. DOMAIN frame = 1..Len(v) + 1
      BY <1>1, <2>1
    <3> QED BY <1>1, <3>1, <3>2, <3>3 DEF ToSet
  <2> QED BY <1>2, <2>3, <2>4 DEF Fetch
<1>4. CASE \E n \in StreamLength : Tailed(frame, v, n) /\ Holds(frame, v, n, n)
  <2> PICK n \in StreamLength : Tailed(frame, v, n) /\ Holds(frame, v, n, n)
    BY <1>4
  <2>0. n \in Nat /\ n > 0
    BY StreamAssumption
  <2>1. /\ frame \in Seq(Cell) /\ Len(frame) = n + 5 /\ frame[n + 5] = Plain(1)
        /\ frame[n + 1] = <<"length", <<Len(v)>>, 4, 1>>
        /\ \A i \in 1..n : frame[i] = Deflated(v, n, i)
    BY DEF Tailed, Holds
  <2>2. SubSeq(frame, 1, n) = Stream(v, n) /\ SubSeq(frame, 1, n)[1] = Deflated(v, n, 1)
    <3>1. /\ SubSeq(frame, 1, n) \in Seq(Cell) /\ Len(SubSeq(frame, 1, n)) = n
          /\ \A i \in 1..n : SubSeq(frame, 1, n)[i] = frame[i]
      BY <2>0, <2>1
    <3>2. \A i \in 1..n : Deflated(v, n, i) \in Cell
      BY <1>1, <2>0, CellFacts
    <3>3. Stream(v, n) = [i \in 1..n |-> Deflated(v, n, i)]
      BY DEF Stream, Deflated
    <3>4. Stream(v, n) \in Seq(Cell) /\ Len(Stream(v, n)) = n
      BY <2>0, <3>2, <3>3
    <3>5. \A i \in 1..n : Stream(v, n)[i] = frame[i]
      BY <2>1, <3>3
    <3> QED BY <2>0, <2>1, <3>1, <3>4, <3>5
  <2>3. SubSeq(frame, 1, n)[1][2] = v
    <3>1. Deflated(v, n, 1)[2] = v
      BY DEF Deflated
    <3> QED BY <2>2, <3>1
  <2>4. Inflate(SubSeq(frame, 1, n), Len(v)) = Bytes(v) \o [i \in 1..Len(v) - Len(v) |-> Garbage]
    <3>1. \E m \in StreamLength, w \in Value : SubSeq(frame, 1, n) = Stream(w, m) /\ Len(w) <= Len(v)
      <4>1. Len(v) <= Len(v)
        BY <1>1
      <4> QED BY <2>2, <4>1
    <3> QED BY <2>3, <3>1 DEF Inflate
  <2>5. Bytes(v) \o [i \in 1..Len(v) - Len(v) |-> Garbage] = Bytes(v)
    <3>0. 1..Len(v) - Len(v) = {}
      BY <1>1
    <3>1. [i \in 1..Len(v) - Len(v) |-> Garbage] = <<>>
      BY <3>0
    <3> QED BY <1>1, <3>1, ConcatEmptySeq
  <2>6. RealRead(frame) = Bytes(v)
    <3>1. Len(frame) - 5 = n /\ Len(frame) - 4 = n + 1 /\ frame[Len(frame)] # Plain(0)
      BY <2>0, <2>1, CellFacts
    <3>2. frame[n + 1][2][1] = Len(v)
      BY <2>1
    <3> QED BY <2>4, <2>5, <3>1, <3>2 DEF RealRead
  <2>7. Garbage \notin ToSet(frame)
    <3>1. \A i \in 1..4 : frame[n + i] = <<"length", <<Len(v)>>, 4, i>>
      BY DEF Tailed
    <3>2. \A i \in 1..n + 5 : i \in 1..n \/ i - n \in 1..4 \/ i = n + 5
      BY <2>0
    <3>3. \A i \in 1..n : frame[i] # Garbage
      BY <1>1, <2>0, <2>1, CellFacts
    <3>4. \A i \in 1..4 : frame[n + i] # Garbage
      <4>1. \A i \in 1..4 : i \in Nat
        OBVIOUS
      <4> QED BY <1>1, <3>1, <4>1, CellFacts
    <3>5. \A i \in 1..n + 5 : i - n \in 1..4 => frame[i] # Garbage
      BY <2>0, <3>4
    <3>6. frame[n + 5] # Garbage
      BY <2>1, CellFacts
    <3>7. DOMAIN frame = 1..n + 5
      BY <2>0, <2>1
    <3> QED BY <3>2, <3>3, <3>5, <3>6, <3>7 DEF ToSet
  <2> QED BY <1>2, <2>6, <2>7 DEF Fetch
<1> QED BY <1>3, <1>4 DEF Framed
-----------------------------------------------------------------------------
(***************************************************************************)
(* The steps of a write.                                                   *)
(***************************************************************************)
\* What only a step of the write touches.
LEMMA QuietStep ==
  ASSUME IInv, watermark' \in Watermark \cup {0},
         UNCHANGED <<pc, input, work, output, record, meant>>
  PROVE  IInv'
<1>1. TypeOK'
  BY DEF IInv, TypeOK, work
<1>2. Deflating' /\ Framing'
  BY DEF IInv, work, Deflating, Framing, Covers
<1>3. Copying'
  BY DEF IInv, work, Copying, Covers, Tailed, Holds
<1>4. Storing' /\ Stored'
  BY DEF IInv, Storing, Stored, Tailed, Holds, Framed
<1> QED BY <1>1, <1>2, <1>3, <1>4 DEF IInv, work

\* Starting a write: a value that is not compressed is framed at once.
LEMMA StartStep ==
  ASSUME IInv, NEW v \in Value, WritePlain(v) \/ WriteDeflated(v)
  PROVE  IInv'
<1> USE AtFacts
<1>0. TypeOK /\ Stored
  BY DEF IInv
<1>1. CASE WritePlain(v)
  <2>1. /\ pc' = "store" /\ input' = v /\ output' = Append(Bytes(v), Plain(0))
        /\ UNCHANGED <<watermark, stream, parts, length, offset, record, meant>>
    BY <1>1 DEF WritePlain, work
  <2>2. TypeOK' /\ Storing'
    BY <1>0, <2>1 DEF TypeOK, Storing, Framed
  <2>3. Stored'
    BY <1>0, <2>1 DEF Stored, Framed, Tailed, Holds
  <2> QED BY <2>1, <2>2, <2>3 DEF IInv, Deflating, Framing, Copying
<1>2. CASE WriteDeflated(v)
  <2>1. /\ pc' = "deflate" /\ input' = v /\ parts' = <<>> /\ length' = 0 /\ offset' = 0
        /\ UNCHANGED <<watermark, output, record, meant>>
    BY <1>2 DEF WriteDeflated
  <2>2. PICK n \in StreamLength : stream' = Stream(v, n)
    BY <1>2 DEF WriteDeflated
  <2>3. TypeOK'
    BY <1>0, <2>1 DEF TypeOK
  <2>4. Deflating'
    <3>1. Stream(v, n) = [j \in 1..n - 0 |-> Deflated(v, n, 0 + j)]
      BY StreamAssumption DEF Stream, Deflated
    <3>2. length' = At(Len(parts')) /\ length' <= n
      BY <2>1, StreamAssumption
    <3>3. stream' = [j \in 1..n - length' |-> Deflated(input', n, length' + j)]
      BY <2>1, <2>2, <3>1
    <3>4. Covers(0, input, n)'
      BY <2>1 DEF Covers
    <3> QED BY <2>1, <3>2, <3>3, <3>4 DEF Deflating
  <2>5. Stored'
    BY <1>0, <2>1 DEF Stored, Framed, Tailed, Holds
  <2> QED BY <2>1, <2>3, <2>4, <2>5 DEF IInv, Framing, Copying, Storing
<1> QED BY <1>1, <1>2

\* Returning: what the write leaves is the record.
LEMMA ReturnStep ==
  ASSUME IInv, Return, UNCHANGED <<record, meant>> \/ (record' = output /\ meant' = input /\ pc = "store")
  PROVE  IInv'
<1>1. TypeOK /\ Stored /\ Storing /\ (pc = "store" => input \in Value)
  BY DEF IInv
<1>2. /\ pc' = "idle" /\ input' = <<>> /\ stream' = <<>> /\ parts' = <<>> /\ length' = 0 /\ offset' = 0
      /\ watermark' = watermark
  BY DEF Return
<1>3. TypeOK'
  BY <1>1, <1>2 DEF TypeOK
<1>4. Stored'
  <2>1. CASE UNCHANGED <<record, meant>>
    BY <1>1, <2>1 DEF Stored, Framed, Tailed, Holds
  <2>2. CASE record' = output /\ meant' = input /\ pc = "store"
    BY <1>1, <2>2 DEF Stored, Storing, Framed, Tailed, Holds
  <2> QED BY <2>1, <2>2
<1> QED BY <1>2, <1>3, <1>4 DEF IInv, Deflating, Framing, Copying, Storing

\* Another chunk of the stream, the last if it has room left.
LEMMA DeflateStep ==
  ASSUME IInv, Deflate
  PROVE  IInv'
<1>0. TypeOK /\ Stored /\ pc = "deflate" /\ input \in Value /\ parts \in Seq(Seq(Cell)) /\ Len(parts) \in Nat
  BY DEF IInv, Deflate
<1>1. Chunk \in Nat /\ Chunk > 0 /\ input \in Seq(Nat)
  BY <1>0, LengthAssumption, ValueFacts
<1>2. PICK n \in StreamLength :
        /\ offset = 0 /\ length = At(Len(parts)) /\ length <= n
        /\ stream = [j \in 1..n - length |-> Deflated(input, n, length + j)]
        /\ Covers(0, input, n)
  BY <1>0 DEF IInv, Deflating
<1> DEFINE have == Least(Chunk, Len(stream))
           chunk == SubSeq(stream, 1, have) \o [i \in 1..Chunk - have |-> Garbage]
<1>3. /\ parts' = Append(parts, chunk) /\ length' = length + have
      /\ stream' = SubSeq(stream, have + 1, Len(stream))
      /\ pc' = IF Full(have) THEN "deflate" ELSE "frame"
      /\ UNCHANGED <<watermark, input, output, offset, record, meant>>
  BY DEF Deflate
<1>4. /\ stream \in Seq(Cell) /\ Len(stream) = n - length /\ n \in Nat /\ length \in Nat
      /\ \A j \in 1..n - length : stream[j] = Deflated(input, n, length + j)
  <2>0. n \in Nat /\ length \in Nat
    BY <1>0, StreamAssumption DEF TypeOK
  <2>1. n - length \in Nat /\ \A j \in 1..n - length : length + j \in Nat
    BY <1>2, <2>0
  <2>2. \A j \in 1..n - length : Deflated(input, n, length + j) \in Cell
    BY <1>1, <2>0, <2>1, CellFacts
  <2>3. stream \in [1..n - length -> Cell]
    BY <1>2, <2>2
  <2>4. \A m \in Nat : stream \in [1..m -> Cell] => stream \in Seq(Cell) /\ Len(stream) = m
    OBVIOUS
  <2>5. stream \in Seq(Cell) /\ Len(stream) = n - length
    BY <2>1, <2>3, <2>4
  <2>6. \A j \in 1..n - length : stream[j] = Deflated(input, n, length + j)
    BY <1>2
  <2> QED BY <2>0, <2>5, <2>6
<1>5. have \in 0..Chunk /\ have <= n - length /\ (have < Chunk => have = n - length)
  BY <1>2, <1>4, <1>1 DEF Least
<1> HIDE DEF have
<1>6. /\ Len(parts) + 1 \in Nat /\ At(Len(parts) + 1) = length + Chunk
      /\ have \in Nat /\ length + have \in Nat /\ length + have <= n
  <2>1. Len(parts) + 1 \in Nat /\ At(Len(parts) + 1) = length + Chunk
    BY <1>0, <1>2, AtFacts
  <2>2. have \in Nat /\ length + have \in Nat /\ length + have <= n
    BY <1>4, <1>5, <1>1
  <2> QED BY <2>1, <2>2
<1>7. chunk \in Seq(Cell) /\ Len(chunk) = Chunk /\ \A j \in 1..have : chunk[j] = Deflated(input, n, length + j)
  <2>1. /\ SubSeq(stream, 1, have) \in Seq(Cell) /\ Len(SubSeq(stream, 1, have)) = have
        /\ \A j \in 1..have : SubSeq(stream, 1, have)[j] = stream[j]
    BY <1>4, <1>5, <1>6, SubSeqProperties
  <2>2. [i \in 1..Chunk - have |-> Garbage] \in Seq(Cell) /\ Len([i \in 1..Chunk - have |-> Garbage]) = Chunk - have
    <3>1. Chunk - have \in Nat
      BY <1>5, <1>1
    <3> QED BY <3>1, CellFacts
  <2>3. /\ chunk \in Seq(Cell) /\ Len(chunk) = have + (Chunk - have)
        /\ \A j \in 1..have + (Chunk - have) : j <= have => chunk[j] = SubSeq(stream, 1, have)[j]
    BY <1>5, <1>1, <2>1, <2>2, ConcatProperties
  <2>4. Len(chunk) = Chunk /\ \A j \in 1..have : chunk[j] = SubSeq(stream, 1, have)[j]
    BY <1>5, <1>1, <2>3
  <2>5. \A j \in 1..have : j \in 1..n - length
    BY <1>4, <1>5, <1>1
  <2> QED BY <1>4, <2>1, <2>3, <2>4, <2>5
<1> HIDE DEF chunk
<1>8. /\ parts' \in Seq(Seq(Cell)) /\ Len(parts') = Len(parts) + 1 /\ parts'[Len(parts) + 1] = chunk
      /\ \A i \in 1..Len(parts) : parts'[i] = parts[i]
  BY <1>0, <1>3, <1>7
<1>9. TypeOK'
  <2>1. \A i \in 1..Len(parts') : Len(parts'[i]) = Chunk
    <3>1. \A i \in 1..Len(parts) : Len(parts[i]) = Chunk
      BY <1>0 DEF TypeOK
    <3>2. \A i \in 1..Len(parts) + 1 : i \in 1..Len(parts) \/ i = Len(parts) + 1
      BY <1>0
    <3> QED BY <1>7, <1>8, <3>1, <3>2
  <2>2. length' \in Nat /\ offset' \in 0..length' /\ pc' \in {"deflate", "frame"}
    BY <1>2, <1>3, <1>6
  <2> QED BY <1>0, <1>3, <2>1, <2>2 DEF TypeOK
<1>10. Covers(0, input, n)'
  <2> SUFFICES ASSUME NEW i \in 1..Len(parts) + 1, NEW j \in 1..Chunk, 0 + At(i - 1) + j <= n
               PROVE  parts'[i][j] = Deflated(input, n, 0 + At(i - 1) + j)
    BY <1>3, <1>8 DEF Covers
  <2>1. CASE i \in 1..Len(parts)
    BY <1>2, <1>8, <2>1 DEF Covers
  <2>2. CASE i = Len(parts) + 1
    <3>1. At(i - 1) = length /\ 0 + At(i - 1) + j = length + j
      BY <1>0, <1>2, <1>4, <1>1, <2>2
    <3>2. length + j <= n
      BY <3>1
    <3>3. j \in 1..have
      BY <1>4, <1>5, <1>1, <3>2
    <3> QED BY <1>7, <1>8, <2>2, <3>1, <3>3
  <2>3. i \in 1..Len(parts) \/ i = Len(parts) + 1
    BY <1>0
  <2> QED BY <2>1, <2>2, <2>3
<1>11. Stored'
  BY <1>0, <1>3 DEF Stored, Framed, Tailed, Holds
<1>12. CASE have = Chunk
  <2>1. length' = At(Len(parts')) /\ length' <= n
    BY <1>3, <1>8, <1>12, <1>6
  <2>2. stream' = [j \in 1..n - length' |-> Deflated(input', n, length' + j)]
    <3>1. /\ stream' \in Seq(Cell) /\ Len(stream') = n - length'
          /\ \A j \in 1..n - length' : stream'[j] = stream[have + j]
      <4>1. have + 1 \in Int /\ n - length \in Int /\ \A j \in have + 1..n - length : stream[j] \in Cell
        BY <1>4, <1>6
      <4>2. /\ stream' \in Seq(Cell)
            /\ Len(stream') = IF have + 1 <= n - length THEN n - length - (have + 1) + 1 ELSE 0
            /\ \A j \in 1..n - length - (have + 1) + 1 : stream'[j] = stream[have + 1 + j - 1]
        BY <1>3, <1>4, <4>1, SubSeqProperties, SMTT(40)
      <4>3. n - length' \in Nat /\ n - length - (have + 1) + 1 = n - length'
        BY <1>3, <1>4, <1>6
      <4>4. Len(stream') = n - length'
        BY <1>3, <1>4, <1>6, <4>2, <4>3
      <4>5. \A j \in 1..n - length' : stream'[j] = stream[have + j]
        <5>1. \A j \in 1..n - length' : have + 1 + j - 1 = have + j
          BY <1>6, <4>3
        <5> QED BY <4>2, <4>3, <5>1
      <4> QED BY <4>2, <4>4, <4>5
    <3>2. \A j \in 1..n - length' : have + j \in 1..n - length /\ length + (have + j) = length' + j
      BY <1>3, <1>4, <1>6
    <3>3. \A j \in 1..n - length' : stream[have + j] = Deflated(input, n, length' + j)
      BY <1>4, <3>2
    <3> QED BY <1>3, <3>1, <3>3, SMTT(40)
  <2>3. Deflating'
    BY <1>2, <1>3, <1>10, <2>1, <2>2 DEF Deflating
  <2>4. pc' = "deflate"
    BY <1>3, <1>12 DEF Full
  <2> QED BY <1>0, <1>3, <1>8, <1>9, <1>11, <2>3, <2>4 DEF IInv, Framing, Copying, Storing
<1>13. CASE have # Chunk
  <2>1. length' = n
    BY <1>3, <1>4, <1>5, <1>13, <1>1
  <2>2. n <= At(Len(parts'))
    BY <1>3, <1>5, <1>8, <1>1, <1>6, <1>4, <2>1, SMTT(40)
  <2>3. pc' = "frame"
    BY <1>3, <1>13 DEF Full
  <2>4. Framing'
    BY <1>2, <1>3, <1>10, <2>1, <2>2 DEF Framing
  <2> QED BY <1>0, <1>3, <1>8, <1>9, <1>11, <2>3, <2>4 DEF IInv, Deflating, Copying, Storing
<1> QED BY <1>12, <1>13

\* The output buffer gets its tail, and none of the stream yet.
LEMMA FrameStep ==
  ASSUME IInv, Frame
  PROVE  IInv'
<1>0. /\ TypeOK /\ Stored /\ pc = "frame" /\ input \in Value /\ parts \in Seq(Seq(Cell))
      /\ length \in StreamLength /\ length \in Nat /\ offset = 0 /\ length <= At(Len(parts)) /\ Covers(0, input, length)
  BY DEF IInv, TypeOK, Frame, Framing
<1>1. /\ pc' = "copy"
      /\ output' = [i \in 1..length |-> Garbage] \o BigEndian(Len(input)) \o <<Plain(1)>>
      /\ UNCHANGED <<watermark, input, stream, parts, length, offset, record, meant>>
  BY DEF Frame, work
<1>2. Tailed(output', input, length)
  <2> DEFINE room == [i \in 1..length |-> Garbage]
             tail == BigEndian(Len(input))
  <2>1. Garbage \in Cell /\ Plain(1) \in Cell /\ Len(input) \in Nat
        /\ \A i \in 1..4 : <<"length", <<Len(input)>>, 4, i>> \in Cell
    <3>1. Len(input) \in Nat
      BY <1>0, ValueFacts, LengthAssumption
    <3>2. \A i \in 1..4 : i \in Nat
      OBVIOUS
    <3> QED BY <3>1, <3>2, CellFacts
  <2>2. room \in Seq(Cell) /\ Len(room) = length
    BY <1>0, <2>1
  <2>3. tail \in Seq(Cell) /\ Len(tail) = 4 /\ \A i \in 1..4 : tail[i] = <<"length", <<Len(input)>>, 4, i>>
    <3>1. tail = [i \in 1..4 |-> <<"length", <<Len(input)>>, 4, i>>]
      BY DEF BigEndian
    <3>2. tail \in [1..4 -> Cell]
      BY <2>1, <3>1
    <3> QED BY <3>1, <3>2
  <2>4. <<Plain(1)>> \in Seq(Cell) /\ Len(<<Plain(1)>>) = 1 /\ <<Plain(1)>>[1] = Plain(1)
    BY <2>1
  <2> HIDE DEF room, tail
  <2>5. /\ room \o tail \in Seq(Cell) /\ Len(room \o tail) = length + 4
        /\ \A i \in 1..length + 4 : (room \o tail)[i] = IF i <= length THEN room[i] ELSE tail[i - length]
    <3>1. /\ room \o tail \in Seq(Cell) /\ Len(room \o tail) = Len(room) + Len(tail)
          /\ \A i \in 1..Len(room) + Len(tail) :
               (room \o tail)[i] = IF i <= Len(room) THEN room[i] ELSE tail[i - Len(room)]
      BY <2>2, <2>3, ConcatProperties
    <3> QED BY <2>2, <2>3, <3>1
  <2>6. /\ output' \in Seq(Cell) /\ Len(output') = length + 4 + 1
        /\ \A i \in 1..length + 4 + 1 :
             output'[i] = IF i <= length + 4 THEN (room \o tail)[i] ELSE <<Plain(1)>>[i - (length + 4)]
    <3>1. output' = (room \o tail) \o <<Plain(1)>>
      BY <1>1 DEF room, tail
    <3> QED BY <2>4, <2>5, <3>1, ConcatProperties
  <2>7. \A i \in 1..4 : output'[length + i] = tail[i]
    <3> TAKE i \in 1..4
    <3>1. /\ length \in Nat /\ i \in Nat /\ length + i \in 1..length + 4 /\ length + i \in 1..length + 4 + 1
          /\ ~(length + i <= length) /\ length + i <= length + 4 /\ length + i - length = i
      BY <1>0
    <3>2. output'[length + i] = (room \o tail)[length + i]
      BY <2>6, <3>1
    <3>3. (room \o tail)[length + i] = tail[length + i - length]
      BY <2>5, <3>1
    <3> QED BY <3>1, <3>2, <3>3
  <2>8. output'[length + 5] = Plain(1)
    <3>1. /\ length \in Nat /\ length + 5 \in 1..length + 4 + 1 /\ ~(length + 5 <= length + 4) /\ length + 5 - (length + 4) = 1
      BY <1>0
    <3>2. output'[length + 5] = <<Plain(1)>>[length + 5 - (length + 4)]
      BY <2>6, <3>1
    <3> QED BY <2>4, <3>1, <3>2
  <2>9. Len(output') = length + 5
    BY <1>0, <2>6, SMTT(40)
  <2> QED BY <2>3, <2>6, <2>7, <2>8, <2>9 DEF Tailed
<1>3. Copying'
  <2>1. Holds(output', input, length, 0)
    BY DEF Holds
  <2>2. length' - offset' <= At(Len(parts')) /\ Covers(offset, input, length)'
    BY <1>0, <1>1 DEF Covers
  <2> QED BY <1>0, <1>1, <1>2, <2>1, <2>2 DEF Copying, Tailed, Holds
<1>4. TypeOK'
  BY <1>0, <1>1 DEF TypeOK
<1>5. Stored'
  BY <1>0, <1>1 DEF Stored, Framed, Tailed, Holds
<1> QED BY <1>0, <1>1, <1>3, <1>4, <1>5 DEF IInv, Deflating, Framing, Storing

\* memcpy: the cells land where they belong, and nothing else changes.
LEMMA OverlayFacts ==
  ASSUME NEW buffer \in Seq(Cell), NEW at \in Nat, NEW cells \in Seq(Cell)
  PROVE  LET result == Overlay(buffer, at, cells) IN
         /\ result \in Seq(Cell) /\ Len(result) = Len(buffer)
         /\ \A i \in 1..Len(buffer) :
              /\ i \in at + 1..at + Len(cells) => result[i] = cells[i - at]
              /\ i \notin at + 1..at + Len(cells) => result[i] = buffer[i]
<1> DEFINE result == Overlay(buffer, at, cells)
<1>1. result = [i \in 1..Len(buffer) |-> IF i \in at + 1..at + Len(cells) THEN cells[i - at] ELSE buffer[i]]
  BY DEF Overlay
<1>2. \A i \in 1..Len(buffer) : i \in at + 1..at + Len(cells) => i - at \in 1..Len(cells)
  OBVIOUS
<1>3. result \in [1..Len(buffer) -> Cell]
  BY <1>1, <1>2
<1>4. result \in Seq(Cell) /\ Len(result) = Len(buffer)
  BY <1>3
<1> HIDE DEF result
<1>5. \A i \in 1..Len(buffer) :
              /\ i \in at + 1..at + Len(cells) => result[i] = cells[i - at]
              /\ i \notin at + 1..at + Len(cells) => result[i] = buffer[i]
  BY <1>1
<1> QED BY <1>4, <1>5 DEF result

\* The first chunk carries the output on by what it has of the stream.
LEMMA CopyOne ==
  ASSUME IInv, pc = "copy", parts # <<>>, NEW have \in Nat, have <= Chunk, have <= length - offset
  PROVE  LET buffer == Overlay(output, offset, SubSeq(Head(parts), 1, have)) IN
         Tailed(buffer, input, length) /\ Holds(buffer, input, length, offset + have)
<1> DEFINE cells == SubSeq(Head(parts), 1, have)
           buffer == Overlay(output, offset, cells)
<1>1. /\ length \in Nat /\ offset \in Nat /\ Chunk \in Nat /\ parts \in Seq(Seq(Cell)) /\ Len(parts) \in Nat
      /\ offset + have <= length /\ Len(parts) >= 1
  BY LengthAssumption DEF IInv, TypeOK
<1>2. /\ Covers(offset, input, length) /\ Tailed(output, input, length) /\ Holds(output, input, length, offset)
  BY DEF IInv, Copying
<1>3. Head(parts) = parts[1] /\ Head(parts) \in Seq(Cell) /\ Len(Head(parts)) = Chunk
  BY <1>1 DEF IInv, TypeOK
<1>4. cells \in Seq(Cell) /\ Len(cells) = have /\ \A j \in 1..have : cells[j] = Head(parts)[j]
  BY <1>1, <1>3
<1>5. \A j \in 1..have : Head(parts)[j] = Deflated(input, length, offset + j)
  <2> TAKE j \in 1..have
  <2>1. j \in 1..Chunk /\ offset + At(1 - 1) + j = offset + j /\ offset + j <= length
    BY <1>1, AtFacts
  <2> QED BY <1>1, <1>2, <1>3, <2>1 DEF Covers
<1> HIDE DEF cells
<1>6. output \in Seq(Cell) /\ Len(output) = length + 5
  BY <1>2 DEF Tailed
<1>7. /\ buffer \in Seq(Cell) /\ Len(buffer) = length + 5
      /\ \A i \in 1..length + 5 :
           /\ i \in offset + 1..offset + have => buffer[i] = cells[i - offset]
           /\ i \notin offset + 1..offset + have => buffer[i] = output[i]
  <2>1. /\ buffer \in Seq(Cell) /\ Len(buffer) = Len(output)
        /\ \A i \in 1..Len(output) :
             /\ i \in offset + 1..offset + Len(cells) => buffer[i] = cells[i - offset]
             /\ i \notin offset + 1..offset + Len(cells) => buffer[i] = output[i]
    BY <1>1, <1>4, <1>6, OverlayFacts, ZenonT(40)
  <2> QED BY <1>4, <1>6, <2>1
<1> HIDE DEF buffer
<1>8. \A i \in 1..offset + have : buffer[i] = Deflated(input, length, i)
  <2> TAKE i \in 1..offset + have
  <2>0. i \in 1..length + 5 /\ i \in Nat
    BY <1>1
  <2>1. CASE i \in offset + 1..offset + have
    <3>1. i - offset \in 1..have /\ offset + (i - offset) = i
      BY <1>1, <2>0, <2>1
    <3> QED BY <1>4, <1>5, <1>7, <2>0, <2>1, <3>1
  <2>2. CASE i \notin offset + 1..offset + have
    <3>1. i \in 1..offset
      BY <1>1, <2>0, <2>2
    <3> QED BY <1>2, <1>7, <2>0, <2>2, <3>1 DEF Holds
  <2> QED BY <2>1, <2>2
<1>9. \A i \in 1..5 : buffer[length + i] = output[length + i]
  <2> TAKE i \in 1..5
  <2>1. length + i \in 1..length + 5 /\ length + i \notin offset + 1..offset + have
    BY <1>1
  <2> QED BY <1>7, <2>1
<1>10. Tailed(buffer, input, length)
  BY <1>2, <1>7, <1>9, SMTT(40) DEF Tailed
<1> QED BY <1>8, <1>10 DEF Holds, buffer, cells

\* One chunk after the other until the stream is copied.
LEMMA CopyStep ==
  ASSUME IInv, CopyPart
  PROVE  IInv'
<1>0. /\ TypeOK /\ Stored /\ Copying /\ pc = "copy" /\ input \in Value /\ parts \in Seq(Seq(Cell))
      /\ length \in StreamLength /\ length \in Nat /\ offset \in 0..length /\ Chunk \in Nat /\ Chunk > 0
      /\ Len(parts) \in Nat
  BY LengthAssumption DEF IInv, TypeOK, CopyPart, Copying
<1>1. UNCHANGED <<watermark, input, stream, length, record, meant>>
  BY DEF CopyPart
<1>2. Stored'
  BY <1>0, <1>1 DEF Stored, Framed, Tailed, Holds
<1>3. ASSUME Tailed(output', input, length), Holds(output', input, length, length), UNCHANGED <<offset, parts>>,
             pc' = "store"
      PROVE  IInv'
  <2>1. Storing'
    BY <1>0, <1>1, <1>3 DEF Storing, Framed, Tailed, Holds
  <2>2. TypeOK'
    BY <1>0, <1>1, <1>3 DEF TypeOK
  <2> QED BY <1>0, <1>1, <1>2, <1>3, <2>1, <2>2 DEF IInv, Deflating, Framing, Copying
<1>4. CASE parts = <<>> /\ pc' = "store" /\ UNCHANGED <<output, offset, parts>>
  <2>1. offset = length
    <3>1. length - offset <= 0
      BY <1>0, <1>4, AtFacts DEF Copying
    <3> QED BY <1>0, <3>1
  <2> QED BY <1>0, <1>3, <1>4, <2>1 DEF Copying, Tailed, Holds
<1>5. CASE /\ parts # <<>> /\ length <= Chunk
           /\ output' = Overlay(output, 0, SubSeq(Head(parts), 1, length))
           /\ pc' = "store" /\ UNCHANGED <<offset, parts>>
  <2>1. offset = 0 /\ length <= length - offset
    BY <1>0, <1>5 DEF Copying
  <2>2. offset + length = length
    BY <1>0, <2>1
  <2>3. Tailed(output', input, length) /\ Holds(output', input, length, offset + length)
    BY <1>0, <1>5, <2>1, CopyOne
  <2> QED BY <1>3, <1>5, <2>2, <2>3
<1>6. CASE /\ parts # <<>> /\ length > Chunk
           /\ output' = Overlay(output, offset, SubSeq(Head(parts), 1, Have))
           /\ offset' = offset + Have /\ parts' = Rest /\ pc' = pc
  <2>1. Have \in Nat /\ Have <= Chunk /\ Have <= length - offset /\ (Have = Chunk \/ Have = length - offset)
    BY <1>0 DEF Have, Least
  <2>2. Tailed(output', input, length) /\ Holds(output', input, length, offset')
    BY <1>0, <1>6, <2>1, CopyOne
  <2>3. /\ parts' \in Seq(Seq(Cell)) /\ Len(parts') = Len(parts) - 1 /\ Len(parts) >= 1
        /\ \A i \in 1..Len(parts) - 1 : parts'[i] = parts[i + 1]
    BY <1>0, <1>6 DEF Rest
  <2>4. At(Len(parts)) = At(Len(parts) - 1) + Chunk /\ At(Len(parts) - 1) \in Nat
    <3>1. Len(parts) - 1 \in Nat /\ Len(parts) - 1 + 1 = Len(parts)
      BY <1>0, <2>3
    <3> QED BY <3>1, AtFacts
  <2>5. offset' \in 0..length
    BY <1>0, <1>6, <2>1
  <2>6. length - offset' <= At(Len(parts'))
    <3>1. length - offset <= At(Len(parts))
      BY <1>0 DEF Copying
    <3> QED BY <1>0, <1>6, <2>1, <2>3, <2>4, <3>1, SMTT(40)
  <2>7. Covers(offset, input, length)'
    <3> SUFFICES ASSUME NEW i \in 1..Len(parts'), NEW j \in 1..Chunk, offset' + At(i - 1) + j <= length
                 PROVE  parts'[i][j] = Deflated(input, length, offset' + At(i - 1) + j)
      BY <1>1 DEF Covers
    <3>1. i \in Nat /\ i - 1 \in Nat /\ i + 1 \in 1..Len(parts) /\ i \in 1..Len(parts) - 1 /\ i - 1 + 1 = i
          /\ j \in Nat /\ j > 0
      <4>1. i \in 1..Len(parts) - 1 /\ Len(parts) \in Nat
        BY <1>0, <2>3
      <4> QED BY <1>0, <4>1
    <3>2. At(i) = At(i - 1) + Chunk /\ At(i - 1) \in Nat
      BY <3>1, AtFacts
    <3>3. Have = Chunk
      BY <1>0, <1>6, <2>1, <3>1, <3>2, SMTT(30)
    <3>4. offset' + At(i - 1) + j = offset + At(i) + j
      BY <1>0, <1>6, <3>1, <3>2, <3>3
    <3>5. parts[i + 1][j] = Deflated(input, length, offset + At(i + 1 - 1) + j)
      <4>1. i + 1 - 1 = i
        BY <3>1
      <4> QED BY <1>0, <3>1, <3>4, <4>1, SMTT(30) DEF Copying, Covers
    <3>6. i + 1 - 1 = i
      BY <3>1
    <3> QED BY <2>3, <3>1, <3>4, <3>5, <3>6
  <2>8. Copying'
    <3>1. Tailed(output, input, length)' /\ Holds(output, input, length, offset)'
      BY <1>1, <2>2 DEF Tailed, Holds
    <3>2. length' \in StreamLength /\ length' - offset' <= At(Len(parts')) /\ (length' <= Chunk => offset' = 0)
      BY <1>0, <1>1, <1>6, <2>6
    <3> QED BY <2>7, <3>1, <3>2 DEF Copying
  <2>9. TypeOK'
    <3>1. \A i \in 1..Len(parts') : Len(parts'[i]) = Chunk
      <4>1. \A i \in 1..Len(parts) - 1 : i + 1 \in 1..Len(parts)
        BY <1>0
      <4> QED BY <1>0, <2>3, <4>1 DEF TypeOK
    <3> QED BY <1>0, <1>1, <1>6, <2>5, <3>1 DEF TypeOK
  <2> QED BY <1>0, <1>1, <1>2, <1>6, <2>3, <2>8, <2>9 DEF IInv, Deflating, Framing, Storing
<1> QED BY <1>4, <1>5, <1>6 DEF CopyPart
-----------------------------------------------------------------------------
(***************************************************************************)
(* The invariant, and what it says of the record.                          *)
(***************************************************************************)
\* Before the first write there is nothing.
LEMMA InitIInv == Init => IInv
BY DEF Init, IInv, TypeOK, Deflating, Framing, Copying, Storing, Stored

\* Every step, the failure of deflate and of tdb_store included, keeps it.
LEMMA NextIInv == IInv /\ [Next]_vars => IInv'
<1> SUFFICES ASSUME IInv, [Next]_vars PROVE IInv'
  OBVIOUS
<1>1. ASSUME NEW w \in Watermark, SetWatermark(w) PROVE IInv'
  BY <1>1, QuietStep DEF SetWatermark
<1>2. ASSUME NEW v \in Value, WritePlain(v) \/ WriteDeflated(v) PROVE IInv'
  BY <1>2, StartStep
<1>3. CASE Deflate
  BY <1>3, DeflateStep
<1>4. CASE Frame
  BY <1>4, FrameStep
<1>5. CASE CopyPart
  BY <1>5, CopyStep
<1>6. CASE WriteFails
  BY <1>6, ReturnStep DEF WriteFails
<1>7. CASE Store
  BY <1>7, ReturnStep DEF Store
<1>8. CASE UNCHANGED vars
  <2>1. watermark \in Watermark \cup {0}
    BY DEF IInv, TypeOK
  <2> QED BY <1>8, <2>1, QuietStep DEF vars, work
<1> QED BY <1>1, <1>2, <1>3, <1>4, <1>5, <1>6, <1>7, <1>8 DEF Next, Write

\* What the loops of the write maintain.
THEOREM Invariance == Spec => []IInv
BY InitIInv, NextIInv, PTL DEF Spec

(***************************************************************************)
(* Every variable keeps to its type: the copying loop never runs past the  *)
(* output (catalina_zlib_transform_real_write).                            *)
(***************************************************************************)
THEOREM TypeCorrect == Spec => []TypeOK
<1>1. IInv => TypeOK
  BY DEF IInv
<1> QED BY <1>1, Invariance, PTL

(***************************************************************************)
(* The chunks cover the output exactly, whatever their size and the length *)
(* of the stream: no byte that was never written reaches the database.     *)
(***************************************************************************)
THEOREM FramesAreFilled == MinLength > 0 => (Spec => []FrameIsFilled)
<1> SUFFICES ASSUME MinLength > 0 PROVE Spec => []FrameIsFilled
  OBVIOUS
<1>1. IInv => FrameIsFilled
  <2>1. record = <<>> => Garbage \notin ToSet(record)
    BY DEF ToSet
  <2> QED BY <2>1, FramesRead DEF IInv, Stored, FrameIsFilled
<1> QED BY <1>1, Invariance, PTL

(***************************************************************************)
(* A stored value that is not empty comes back as it was, wherever the     *)
(* watermark was when it was written and is when it is read.               *)
(***************************************************************************)
THEOREM StoredValuesComeBack == MinLength > 0 => (Spec => []StoredComesBack)
<1> SUFFICES ASSUME MinLength > 0 PROVE Spec => []StoredComesBack
  OBVIOUS
<1>1. IInv => StoredComesBack
  BY FramesRead DEF IInv, Stored, StoredComesBack
<1> QED BY <1>1, Invariance, PTL
-----------------------------------------------------------------------------
(***************************************************************************)
(* How long a write takes.                                                 *)
(***************************************************************************)
\* The lists the bound counts are finite.
LEMMA ListsCounted ==
  ASSUME IInv
  PROVE  /\ Len(parts) \in Nat
         /\ pc = "deflate" => stream \in Seq(Cell) /\ Len(stream) \in Nat
<1>1. parts \in Seq(Seq(Cell))
  BY DEF IInv
<1>2. ASSUME pc = "deflate" PROVE stream \in Seq(Cell)
  <2>1. PICK n \in StreamLength :
          length <= n /\ stream = [j \in 1..n - length |-> Deflated(input, n, length + j)]
    BY <1>2 DEF IInv, Deflating
  <2>2. n \in Nat /\ length \in Nat /\ n - length \in Nat
    BY <2>1, StreamAssumption DEF IInv, TypeOK
  <2>3. input \in Seq(Nat)
    BY <1>2, ValueFacts DEF IInv
  <2>4. \A j \in 1..n - length : Deflated(input, n, length + j) \in Cell
    BY <2>2, <2>3, CellFacts
  <2>5. stream \in [1..n - length -> Cell]
    BY <2>1, <2>4
  <2> QED BY <2>2, <2>5
<1> QED BY <1>1, <1>2

\* A turn of the deflate loop makes one chunk, of at least one cell unless it is the last.
LEMMA DeflateRunsOut ==
  ASSUME IInv, Deflate
  PROVE  StepsLeft' < StepsLeft
<1> DEFINE have == Least(Chunk, Len(stream))
<1>1. /\ pc = "deflate" /\ stream \in Seq(Cell) /\ Len(stream) \in Nat
      /\ parts \in Seq(Seq(Cell)) /\ Len(parts) \in Nat
      /\ Chunk \in Nat /\ Chunk > 0
  BY ListsCounted, LengthAssumption DEF Deflate, IInv
<1>2. have \in 0..Len(stream) /\ (have = Chunk => have > 0)
  BY <1>1 DEF Least
<1>3. stream' = SubSeq(stream, have + 1, Len(stream)) /\ pc' = IF have = Chunk THEN "deflate" ELSE "frame"
  BY DEF Deflate, Full
<1>4. \E part : parts' = Append(parts, part)
  BY DEF Deflate
<1> HIDE DEF have
<1>5. Len(parts') = Len(parts) + 1
  BY <1>1, <1>4
<1>6. Len(stream') = Len(stream) - have
  BY <1>1, <1>2, <1>3
<1>7. CASE have = Chunk
  <2>1. StepsLeft' = 5 + Len(parts') + 2 * Len(stream') /\ StepsLeft = 5 + Len(parts) + 2 * Len(stream)
    BY <1>1, <1>3, <1>7 DEF StepsLeft
  <2> QED BY <1>1, <1>2, <1>5, <1>6, <1>7, <2>1
<1>8. CASE have # Chunk
  <2>1. StepsLeft' = 3 + Len(parts') /\ StepsLeft = 5 + Len(parts) + 2 * Len(stream)
    BY <1>1, <1>3, <1>8 DEF StepsLeft
  <2> QED BY <1>1, <1>5, <2>1
<1> QED BY <1>7, <1>8

\* A turn of the copying loop takes a chunk away.
LEMMA CopyRunsOut ==
  ASSUME IInv, CopyPart
  PROVE  StepsLeft' < StepsLeft
<1>1. pc = "copy" /\ parts \in Seq(Seq(Cell)) /\ Len(parts) \in Nat
  BY ListsCounted DEF CopyPart, IInv
<1>2. pc' = "store" \/ (pc' = "copy" /\ parts # <<>> /\ parts' = Tail(parts))
  BY DEF CopyPart, Rest
<1>3. parts # <<>> => Len(Tail(parts)) = Len(parts) - 1
  BY <1>1
<1> QED BY <1>1, <1>2, <1>3 DEF StepsLeft

(***************************************************************************)
(* Every step of a write brings it nearer its end, whatever the size of    *)
(* the chunks and the length of the stream, and whoever sets the watermark *)
(* meanwhile (the loops of catalina_zlib_transform_real_write).            *)
(***************************************************************************)
THEOREM WritesRunOut == Spec => StepsRunOut
<1>1. ASSUME IInv, Next, pc # "idle"
      PROVE  StepsLeft' < StepsLeft \/ (watermark' # watermark /\ StepsLeft' = StepsLeft) \/ UNCHANGED vars
  <2>0. Len(parts) \in Nat /\ (pc = "deflate" => Len(stream) \in Nat)
    BY <1>1, ListsCounted
  <2>1. CASE \E w \in Watermark : SetWatermark(w)
    BY <2>1 DEF SetWatermark, StepsLeft, work, vars
  <2>2. CASE Store \/ WriteFails
    <3>1. StepsLeft' = 0
      BY <2>2 DEF Store, WriteFails, Return, StepsLeft
    <3>2. StepsLeft \in Nat /\ StepsLeft > 0
      <4>1. CASE pc = "store"
        BY <4>1 DEF StepsLeft
      <4>2. CASE pc = "deflate"
        BY <2>0, <4>2 DEF StepsLeft
      <4> QED BY <2>2, <4>1, <4>2 DEF Store, WriteFails
    <3> QED BY <3>1, <3>2
  <2>3. CASE Frame
    BY <2>0, <2>3 DEF Frame, work, StepsLeft
  <2>4. CASE Deflate \/ CopyPart
    BY <1>1, <2>4, DeflateRunsOut, CopyRunsOut
  <2>5. ~\E v \in Value : WritePlain(v) \/ WriteDeflated(v)
    BY <1>1 DEF WritePlain, WriteDeflated
  <2> QED BY <1>1, <2>1, <2>2, <2>3, <2>4, <2>5 DEF Next, Write
<1>2. IInv /\ [Next]_vars =>
        [pc # "idle" => StepsLeft' < StepsLeft \/ (watermark' # watermark /\ StepsLeft' = StepsLeft)]_vars
  BY <1>1
<1> QED BY <1>2, Invariance, PTL DEF Spec, StepsRunOut
=============================================================================
