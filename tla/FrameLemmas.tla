---------------------------- MODULE FrameLemmas ----------------------------
(***************************************************************************)
(* What the operators of BinaryFormatter write and read: the bytes of each *)
(* frame, and that a frame that is found in memory is read as the value it *)
(* was written for.                                                        *)
(***************************************************************************)
EXTENDS BinaryFormatter, SequenceTheorems, TLAPS

\* The memory has the bytes of b from at on.
Holds(memory, at, b) == \A i \in 1..Len(b) : Byte(memory, at + i - 1) = b[i]

\* Bytes put together are bytes.
LEMMA Together ==
  ASSUME NEW b \in Seq(Nat), NEW c \in Seq(Nat)
  PROVE  b \o c \in Seq(Nat) /\ Len(b \o c) = Len(b) + Len(c) /\ Len(b) \in Nat /\ Len(c) \in Nat
OBVIOUS

\* In whatever order they are put together.
LEMMA Regroup ==
  ASSUME NEW b \in Seq(Nat), NEW c \in Seq(Nat), NEW d \in Seq(Nat)
  PROVE  (b \o c) \o d = b \o (c \o d)
BY SMTT(60)

\* Without its first four.
LEMMA Dropped ==
  ASSUME NEW b \in Seq(Nat), NEW n \in Nat, Len(b) = 4 + n
  PROVE  /\ Len(SubSeq(b, 5, 4 + n)) = n /\ SubSeq(b, 5, 4 + n) \in Seq(Nat)
         /\ \A i \in 1..n : SubSeq(b, 5, 4 + n)[i] = b[4 + i]
<1>1. \A i \in 5..4 + n : i \in 1..Len(b) /\ b[i] \in Nat
  OBVIOUS
<1>2. Len(SubSeq(b, 5, 4 + n)) = n /\ SubSeq(b, 5, 4 + n) \in Seq(Nat)
  BY <1>1
<1>3. ASSUME NEW i \in 1..n PROVE SubSeq(b, 5, 4 + n)[i] = b[4 + i]
  BY <1>1, <1>3, SMTT(30)
<1> QED BY <1>2, <1>3

\* The 0 at the end of a string.
LEMMA Ending ==
  ASSUME NEW b \in Seq(Nat), NEW n \in Nat, Len(b) = n
  PROVE  /\ Append(b, 0) \in Seq(Nat) /\ Len(Append(b, 0)) = n + 1
         /\ \A i \in 1..n : Append(b, 0)[i] = b[i]
         /\ Append(b, 0)[n + 1] = 0
OBVIOUS

\* What is found of a concatenation is each of its halves.
LEMMA HoldsBoth ==
  ASSUME NEW memory, NEW at \in Nat, NEW b \in Seq(Nat), NEW c \in Seq(Nat), Holds(memory, at, b \o c)
  PROVE  Holds(memory, at, b) /\ Holds(memory, at + Len(b), c)
<1>1. Len(b \o c) = Len(b) + Len(c) /\ Len(b) \in Nat /\ Len(c) \in Nat
  OBVIOUS
<1>2. ASSUME NEW i \in 1..Len(b) PROVE Byte(memory, at + i - 1) = b[i]
  <2>1. i \in 1..Len(b \o c) /\ (b \o c)[i] = b[i]
    OBVIOUS
  <2> QED BY <2>1 DEF Holds
<1>3. ASSUME NEW i \in 1..Len(c) PROVE Byte(memory, at + Len(b) + i - 1) = c[i]
  <2>1. Len(b) + i \in 1..Len(b \o c) /\ (b \o c)[Len(b) + i] = c[i]
    OBVIOUS
  <2>2. Byte(memory, at + (Len(b) + i) - 1) = (b \o c)[Len(b) + i]
    BY <2>1 DEF Holds
  <2>3. at + (Len(b) + i) - 1 = at + Len(b) + i - 1
    BY <1>1
  <2> QED BY <2>1, <2>2, <2>3
<1> QED BY <1>2, <1>3 DEF Holds

\* A record is found where it begins.
LEMMA RecordHeld ==
  ASSUME NEW b \in Seq(Nat)
  PROVE  /\ Stored(b) \in Seq(Nat) /\ Stored(b)[1] = 1 /\ Len(Stored(b)) - 2 = Len(b)
         /\ Holds(Stored(b), 3, b)
<1> DEFINE r == Stored(b)
<1>1. r \in Seq(Nat) /\ r[1] = 1 /\ Len(r) = 2 + Len(b) /\ Len(b) \in Nat /\ \A i \in 1..Len(b) : r[2 + i] = b[i]
  BY DEF Stored
<1>2. ASSUME NEW i \in 1..Len(b) PROVE Byte(r, 3 + i - 1) = b[i]
  <2>1. 3 + i - 1 = 2 + i /\ 2 + i \in 1..Len(r)
    BY <1>1
  <2> QED BY <1>1, <2>1 DEF Byte
<1> HIDE DEF r
<1>3. Holds(r, 3, b)
  BY <1>2 DEF Holds
<1> QED BY <1>1, <1>3 DEF r

\* The bytes that are found are read.
LEMMA HeldBytes ==
  ASSUME NEW memory, NEW at \in Nat, NEW b \in Seq(Nat), Holds(memory, at, b)
  PROVE  Bytes(memory, at, Len(b)) = b
BY DEF Holds, Bytes

\* A frame begins with the identifier of its type.
LEMMA FrameHeld ==
  ASSUME NEW memory, NEW at \in Nat, NEW id \in Nat, NEW c \in Seq(Nat), Holds(memory, at, <<id>> \o c)
  PROVE  Byte(memory, at) = id /\ Holds(memory, at + 1, c) /\ Bytes(memory, at + 1, Len(c)) = c
<1>1. <<id>> \in Seq(Nat) /\ Len(<<id>>) = 1 /\ <<id>>[1] = id
  OBVIOUS
<1>2. Holds(memory, at, <<id>>) /\ Holds(memory, at + 1, c)
  BY <1>1, HoldsBoth
<1>3. Byte(memory, at + 1 - 1) = id /\ at + 1 - 1 = at
  BY <1>1, <1>2 DEF Holds
<1> QED BY <1>2, <1>3, HeldBytes

\* The length of a frame, in four bytes.
LEMMA LengthBytes ==
  ASSUME NEW n \in 0..MaxLength
  PROVE  BE32(n) \in Seq(0..255) /\ Len(BE32(n)) = 4 /\ FromBE32(BE32(n)) = n
<1> DEFINE a == n \div 256
           b == n \div 65536
           c == n \div 16777216
<1>1. c \in 0..255
  BY LengthAssumption, SMT
<1>2. b % 256 \in 0..255 /\ a % 256 \in 0..255 /\ n % 256 \in 0..255
  BY LengthAssumption, SMT
<1>3. n = 256 * a + (n % 256)
  BY LengthAssumption, SMT
<1>4. a = 256 * b + (a % 256)
  <2>1. a \div 256 = b
    BY LengthAssumption, SMT
  <2>2. a \in Int
    BY LengthAssumption, SMT
  <2> HIDE DEF a
  <2>3. a = 256 * (a \div 256) + (a % 256)
    BY <2>2, SMT
  <2> QED BY <2>1, <2>3
<1>5. b = 256 * c + (b % 256)
  <2>1. b \div 256 = c
    BY LengthAssumption, SMT
  <2>2. b \in Int
    BY LengthAssumption, SMT
  <2> HIDE DEF b
  <2>3. b = 256 * (b \div 256) + (b % 256)
    BY <2>2, SMT
  <2> QED BY <2>1, <2>3
<1>6. BE32(n) = <<c, b % 256, a % 256, n % 256>>
  BY SMT DEF BE32
<1> HIDE DEF a, b, c
<1>7. a \in Int /\ b \in Int /\ c \in Int
  BY LengthAssumption, SMT DEF a, b, c
<1>8. 16777216 * c + 65536 * (b % 256) + 256 * (a % 256) + (n % 256) = n
  BY <1>1, <1>2, <1>3, <1>4, <1>5, <1>7, SMT
<1>9. FromBE32(BE32(n)) = n
  BY <1>6, <1>8, SMT DEF FromBE32
<1> QED BY <1>1, <1>2, <1>6, <1>9, SMT

\* No two types have the same identifier.
LEMMA IdOfType ==
  ASSUME NEW t \in DOMAIN TypeId
  PROVE  TypeId[t] \in 1..255 /\ TypeOf(TypeId[t]) = t
<1>1. TypeId[t] \in 1..255 /\ \A u \in DOMAIN TypeId : TypeId[u] = TypeId[t] => u = t
  BY DEF TypeId
<1>2. \E u \in DOMAIN TypeId : TypeId[u] = TypeId[t]
  OBVIOUS
<1> QED BY <1>1, <1>2 DEF TypeOf

\* Writing and reading an integer turn it round twice, or not at all.
LEMMA TurnedTwice ==
  ASSUME NEW b \in Seq(Nat), NEW m
  PROVE  /\ ToBE(InMemory(b, m), m) = b /\ InMemory(ToBE(b, m), m) = b
<1> DEFINE r == Reverse(b)
           n == Len(b)
<1>1. n \in Nat /\ \A i \in 1..n : n - i + 1 \in 1..n /\ n - (n - i + 1) + 1 = i
  OBVIOUS
<1>2. r \in Seq(Nat) /\ Len(r) = n /\ \A i \in 1..n : r[i] = b[n - i + 1]
  BY <1>1 DEF Reverse
<1>3. Reverse(r) = [i \in 1..Len(r) |-> r[Len(r) - i + 1]]
  BY Zenon DEF Reverse
<1> HIDE DEF r
<1>4. Reverse(r) = [i \in 1..n |-> b[i]]
  BY ONLY <1>1, <1>2, <1>3, ZenonT(40)
<1>5. b = [i \in 1..n |-> b[i]]
  OBVIOUS
<1> QED BY <1>4, <1>5 DEF ToBE, InMemory, r

\* The types, by their identifiers.
LEMMA Ids ==
  /\ DOMAIN TypeId = {"BOOLEAN", "INT64", "UINT64", "LONG", "ULONG", "INT", "UINT",
                      "CHAR", "UCHAR", "DOUBLE", "FLOAT", "STRING", "OBJECT"}
  /\ TypeId["BOOLEAN"] = 1 /\ TypeId["INT64"] = 2 /\ TypeId["UINT64"] = 130 /\ TypeId["LONG"] = 3
  /\ TypeId["ULONG"] = 131 /\ TypeId["INT"] = 4 /\ TypeId["UINT"] = 132 /\ TypeId["CHAR"] = 6
  /\ TypeId["UCHAR"] = 134 /\ TypeId["DOUBLE"] = 7 /\ TypeId["FLOAT"] = 8 /\ TypeId["STRING"] = 14
  /\ TypeId["OBJECT"] = 15
BY DEF TypeId

\* A frame with contents c.
Framed(t, c) == <<TypeId[t]>> \o c

\* read_value looks at the type and the contents of a frame.
LEMMA ReadFrame ==
  ASSUME NEW memory, NEW at \in Nat, NEW t \in DOMAIN TypeId, t # "OBJECT", NEW c \in Seq(Nat), NEW m, NEW classes,
         Holds(memory, at, Framed(t, c))
  PROVE  ReadValue(memory, at, 1 + Len(c), m, classes) = ReadScalar(t, c, m)
<1> DEFINE id == TypeId[t]
<1>1. id \in 1..255 /\ TypeOf(id) = t
  BY IdOfType
<1>2. id = TypeId.OBJECT <=> t = "OBJECT"
  BY Ids
<1> HIDE DEF id
<1>3. Holds(memory, at, <<id>> \o c)
  BY DEF id, Framed
<1>4. Byte(memory, at) = id /\ Bytes(memory, at + 1, Len(c)) = c
  <2>1. id \in Nat
    BY <1>1
  <2> QED BY ONLY <2>1, <1>3, at \in Nat, c \in Seq(Nat), FrameHeld, Zenon
<1>5. 1 + Len(c) - 1 = Len(c) /\ id # Beyond
  BY <1>1 DEF Beyond
<1> QED BY <1>1, <1>2, <1>4, <1>5 DEF ReadValue

\* A name is a sequence of bytes, and its length is one.
LEMMA Names ==
  ASSUME NEW name, IsName(name)
  PROVE  /\ name \in Seq(Nat) /\ Len(name) \in 1..254 /\ (1 + Len(name)) % 256 = 1 + Len(name)
         /\ <<1 + Len(name)>> \in Seq(Nat) /\ Len(<<1 + Len(name)>>) = 1
<1>1. name \in Seq(Char) /\ Len(name) \in 1..254
  BY DEF IsName
<1>2. name \in Seq(Nat)
  <2>1. Char \subseteq Nat
    BY DEF Char
  <2> QED BY <1>1, <2>1, SeqMonotonic, Zenon
<1>3. (1 + Len(name)) % 256 = 1 + Len(name)
  <2>1. \A n \in 1..254 : (1 + n) % 256 = 1 + n
    BY SMT
  <2> QED BY <1>1, <2>1, Zenon
<1>4. <<1 + Len(name)>> \in Seq(Nat) /\ Len(<<1 + Len(name)>>) = 1
  <2>1. 1 + Len(name) \in Nat
    BY <1>1, SMTT(40)
  <2> QED BY ONLY <2>1
<1> QED BY <1>1, <1>2, <1>3, <1>4, Zenon

\* What a chunk consists of.
LEMMA Chunks ==
  ASSUME NEW name, IsName(name), NEW f \in Seq(Nat), f # <<>>, Len(f) <= MaxLength
  PROVE  /\ Chunk(name, f) = <<1 + Len(name)>> \o name \o <<0>> \o BE32(Len(f)) \o f
         /\ BE32(Len(f)) \in Seq(Nat) /\ Len(BE32(Len(f))) = 4 /\ FromBE32(BE32(Len(f))) = Len(f)
         /\ Chunk(name, f) \in Seq(Nat)
<1>1. (1 + Len(name)) % 256 = 1 + Len(name) /\ name \in Seq(Nat) /\ <<1 + Len(name)>> \in Seq(Nat)
  BY Names
<1>2. Chunk(name, f) = <<1 + Len(name)>> \o name \o <<0>> \o BE32(Len(f)) \o f
  BY <1>1 DEF Chunk, Failed
<1>3. Len(f) \in 0..MaxLength
  BY LengthAssumption, SMT
<1>4. BE32(Len(f)) \in Seq(0..255) /\ Len(BE32(Len(f))) = 4 /\ FromBE32(BE32(Len(f))) = Len(f)
  BY <1>3, LengthBytes, Zenon
<1>5. BE32(Len(f)) \in Seq(Nat)
  <2>1. 0..255 \subseteq Nat
    OBVIOUS
  <2> QED BY <1>4, <2>1, SeqMonotonic, Zenon
<1>6. <<0>> \in Seq(Nat)
  OBVIOUS
<1>7. <<1 + Len(name)>> \o name \o <<0>> \o BE32(Len(f)) \o f \in Seq(Nat)
  <2>1. <<1 + Len(name)>> \o name \in Seq(Nat)
    BY <1>1, ConcatProperties, Zenon
  <2>2. <<1 + Len(name)>> \o name \o <<0>> \in Seq(Nat)
    BY <2>1, <1>6, ConcatProperties, Zenon
  <2>3. <<1 + Len(name)>> \o name \o <<0>> \o BE32(Len(f)) \in Seq(Nat)
    BY <2>2, <1>5, ConcatProperties, Zenon
  <2> QED BY <2>3, ConcatProperties, Zenon
<1> QED BY <1>2, <1>4, <1>5, <1>7, Zenon

\* A chunk that is found is read: the name, the frame, and what follows it, which ends where all of it does.
LEMMA ReadChunk ==
  ASSUME NEW memory, NEW at \in Nat, NEW name, IsName(name), NEW f \in Seq(Nat), f # <<>>, Len(f) <= MaxLength,
         NEW rest \in Seq(Nat), Holds(memory, at, Chunk(name, f) \o rest)
  PROVE  /\ Byte(memory, at) = 1 + Len(name) /\ Byte(memory, at) \notin {0, Beyond}
         /\ Name(memory, at) = name /\ FrameLength(memory, at) = Len(f)
         /\ FrameAt(memory, at) \in Nat /\ Holds(memory, FrameAt(memory, at), f)
         /\ Holds(memory, FrameAt(memory, at) + FrameLength(memory, at), rest)
         /\ at < FrameAt(memory, at) + FrameLength(memory, at)
         /\ FrameAt(memory, at) + FrameLength(memory, at) + Len(rest) = at + Len(Chunk(name, f) \o rest)
<1> DEFINE be == BE32(Len(f))
           x0 == <<1 + Len(name)>>
           x1 == x0 \o name
           x2 == x1 \o <<0>>
           x3 == x2 \o be
           x4 == x3 \o f
<1>1. /\ be \in Seq(Nat) /\ Len(be) = 4 /\ FromBE32(be) = Len(f) /\ Chunk(name, f) = x4
  BY Chunks, Zenon
<1>2. x0 \in Seq(Nat) /\ Len(x0) = 1 /\ x0[1] = 1 + Len(name) /\ name \in Seq(Nat) /\ Len(name) \in 1..254
  BY Names
<1>3. <<0>> \in Seq(Nat) /\ Len(<<0>>) = 1
  OBVIOUS
<1> HIDE DEF be, x0
<1>4. x1 \in Seq(Nat) /\ Len(x1) = 1 + Len(name)
  <2>1. x1 \in Seq(Nat) /\ Len(x1) = Len(x0) + Len(name)
    BY <1>2, Together, Zenon
  <2> QED BY <2>1, <1>2
<1> HIDE DEF x1
<1>5. x2 \in Seq(Nat) /\ Len(x2) = 2 + Len(name)
  <2>1. x2 \in Seq(Nat) /\ Len(x2) = Len(x1) + Len(<<0>>)
    BY <1>3, <1>4, Together, ZenonT(40)
  <2> QED BY <2>1, <1>2, <1>3, <1>4
<1> HIDE DEF x2
<1>6. x3 \in Seq(Nat) /\ Len(x3) = 6 + Len(name)
  <2>1. x3 \in Seq(Nat) /\ Len(x3) = Len(x2) + Len(be)
    BY <1>1, <1>5, Together, Zenon
  <2> QED BY <2>1, <1>1, <1>2, <1>5
<1> HIDE DEF x3
<1>7. x4 \in Seq(Nat) /\ Len(x4) = 6 + Len(name) + Len(f) /\ Len(f) \in Nat
  <2>1. x4 \in Seq(Nat) /\ Len(x4) = Len(x3) + Len(f) /\ Len(f) \in Nat
    BY <1>6, Together, Zenon
  <2> QED BY <2>1, <1>6, <1>2
<1> HIDE DEF x4
<1>8. Holds(memory, at, x4) /\ Holds(memory, at + Len(x4), rest)
  BY <1>1, <1>7, HoldsBoth, Zenon
<1>9. Holds(memory, at, x3) /\ Holds(memory, at + Len(x3), f)
  BY <1>6, <1>8, HoldsBoth, Zenon DEF x4
<1>10. Holds(memory, at, x2) /\ Holds(memory, at + Len(x2), be)
  BY <1>5, <1>9, <1>1, HoldsBoth, Zenon DEF x3
<1>11. Holds(memory, at, x1)
  BY <1>3, <1>4, <1>10, HoldsBoth, Zenon DEF x2
<1>12. Holds(memory, at, x0) /\ Holds(memory, at + Len(x0), name)
  BY <1>2, <1>11, HoldsBoth, Zenon DEF x1
<1>13. Byte(memory, at) = 1 + Len(name)
  <2>1. 1 \in 1..Len(x0) /\ at + 1 - 1 = at
    BY <1>2
  <2> QED BY <2>1, <1>2, <1>12, SMTT(40) DEF Holds
<1>14. Name(memory, at) = name
  <2>1. Bytes(memory, at + 1, Len(name)) = name
    <3>1. at + 1 \in Nat /\ at + Len(x0) = at + 1
      BY <1>2
    <3> QED BY <3>1, <1>12, <1>2, HeldBytes, ZenonT(40)
  <2>2. Byte(memory, at) - 1 = Len(name)
    BY <1>13, <1>2, SMTT(40)
  <2> QED BY <2>1, <2>2 DEF Name
<1>15. FrameLength(memory, at) = Len(f)
  <2>1. at + Byte(memory, at) + 1 = at + Len(x2) /\ at + Len(x2) \in Nat
    BY <1>13, <1>5, <1>2, SMTT(40)
  <2>2. Bytes(memory, at + Byte(memory, at) + 1, 4) = be
    BY <2>1, <1>10, <1>1, HeldBytes, Zenon
  <2> QED BY <2>2, <1>1, Zenon DEF FrameLength
<1>16. FrameAt(memory, at) = at + Len(x3) /\ FrameAt(memory, at) \in Nat
  BY <1>13, <1>6, <1>2, SMTT(40) DEF FrameAt
<1>17. FrameAt(memory, at) + FrameLength(memory, at) = at + Len(x4)
  BY <1>15, <1>16, <1>7, <1>6, <1>2
<1>18. Byte(memory, at) \notin {0, Beyond}
  <2>1. Len(name) \in 1..254
    BY <1>2
  <2>2. 1 + Len(name) # 0 /\ 1 + Len(name) # 256
    <3>1. \A n \in 1..254 : 1 + n # 0 /\ 1 + n # 256
      BY SMTT(40)
    <3> QED BY <2>1, <3>1, ZenonT(40)
  <2>3. Byte(memory, at) # 0 /\ Byte(memory, at) # 256
    BY <1>13, <2>2, Zenon
  <2> QED BY ONLY <2>3, SMTT(40) DEF Beyond
<1>19. at < at + Len(x4) /\ at + Len(x4) + Len(rest) = at + Len(x4 \o rest)
  <2>1. Len(x4 \o rest) = Len(x4) + Len(rest) /\ Len(rest) \in Nat /\ Len(x4) \in Nat
    BY ONLY <1>7, rest \in Seq(Nat), Together
  <2>2. Len(x4) > 0
    BY <1>2, <1>7, SMTT(40)
  <2> QED BY ONLY <2>1, <2>2, at \in Nat
<1>20. /\ at < FrameAt(memory, at) + FrameLength(memory, at)
       /\ FrameAt(memory, at) + FrameLength(memory, at) + Len(rest) = at + Len(Chunk(name, f) \o rest)
  BY <1>1, <1>17, <1>19, Zenon
<1> QED BY <1>8, <1>9, <1>13, <1>14, <1>15, <1>16, <1>17, <1>18, <1>20, Zenon

\* What the frame of an object consists of.
LEMMA ObjectFrames ==
  ASSUME NEW class, IsName(class), NEW chunks \in Seq(Nat), NEW total \in Nat
  PROVE  LET zeros == [i \in 1..total + 1 |-> 0] IN
         /\ WriteObject(class, chunks, total) = <<15, 1 + Len(class)>> \o class \o <<0>> \o chunks \o zeros
         /\ zeros \in Seq(Nat) /\ Len(zeros) = total + 1 /\ zeros[1] = 0
         /\ WriteObject(class, chunks, total) \in Seq(Nat) /\ WriteObject(class, chunks, total) # <<>>
<1> DEFINE zeros == [i \in 1..total + 1 |-> 0]
           f == WriteObject(class, chunks, total)
<1>1. (1 + Len(class)) % 256 = 1 + Len(class) /\ class \in Seq(Nat) /\ Len(class) \in 1..254
  BY Names, SMTT(40)
<1>2. zeros \in Seq(Nat) /\ Len(zeros) = total + 1 /\ zeros[1] = 0
  <2>1. total + 1 \in Nat /\ 1 \in 1..total + 1
    OBVIOUS
  <2>2. ASSUME NEW k \in Nat, 1 \in 1..k
        PROVE  [i \in 1..k |-> 0] \in Seq(Nat) /\ Len([i \in 1..k |-> 0]) = k /\ [i \in 1..k |-> 0][1] = 0
    BY ONLY <2>2, SMTT(30)
  <2> QED BY ONLY <2>1, <2>2, Zenon
<1>3. f = <<15, 1 + Len(class)>> \o class \o <<0>> \o chunks \o zeros
  BY <1>1, Ids, ZenonT(40) DEF WriteObject
<1> HIDE DEF zeros, f
<1>4. <<15, 1 + Len(class)>> \o class \o <<0>> \in Seq(Nat) /\ Len(<<15, 1 + Len(class)>> \o class \o <<0>>) = 3 + Len(class)
  <2> DEFINE x == <<15, 1 + Len(class)>>
  <2>1. x \in Seq(Nat) /\ Len(x) = 2 /\ <<0>> \in Seq(Nat) /\ Len(<<0>>) = 1
    BY ONLY <1>1
  <2> HIDE DEF x
  <2>2. x \o class \in Seq(Nat) /\ Len(x \o class) = 2 + Len(class)
    <3>1. class \in Seq(Nat)
      BY <1>1
    <3> QED BY ONLY <2>1, <3>1, Together, ZenonT(40)
  <2>3. x \o class \o <<0>> \in Seq(Nat) /\ Len(x \o class \o <<0>>) = (2 + Len(class)) + 1
    BY ONLY <2>1, <2>2, Together, Zenon
  <2>4. (2 + Len(class)) + 1 = 3 + Len(class)
    BY <1>1
  <2> QED BY <2>3, <2>4 DEF x
<1>5. f \in Seq(Nat) /\ Len(f) = 3 + Len(class) + Len(chunks) + Len(zeros)
  <2> DEFINE x == <<15, 1 + Len(class)>> \o class \o <<0>>
  <2> HIDE DEF x
  <2>1. f = x \o chunks \o zeros
    BY <1>3 DEF x
  <2>2. x \in Seq(Nat) /\ Len(x) = 3 + Len(class)
    BY <1>4 DEF x
  <2>3. x \o chunks \in Seq(Nat) /\ Len(x \o chunks) = Len(x) + Len(chunks) /\ Len(chunks) \in Nat
    BY <2>2, Together, Zenon
  <2>4. f \in Seq(Nat) /\ Len(f) = Len(x \o chunks) + Len(zeros)
    BY <2>1, <2>3, <1>2, Together, Zenon
  <2> QED BY ONLY <2>2, <2>3, <2>4
<1>6. f # <<>>
  <2>1. Len(f) # 0
    BY ONLY <1>5, <1>1, <1>2, total \in Nat
  <2> QED BY ONLY <2>1
<1> QED BY <1>2, <1>3, <1>5, <1>6, SMTT(40) DEF zeros, f

\* read_value looks only at the class of an object, and leaves the rest to read_object.
LEMMA ReadObjectValue ==
  ASSUME NEW memory, NEW at, Byte(memory, at) = 15, NEW length, NEW m, NEW classes
  PROVE  ReadValue(memory, at, length, m, classes) =
           Fails(IF Name(memory, at + 1) \in classes THEN "object" ELSE "false")
<1>1. Byte(memory, at) = TypeId.OBJECT /\ Byte(memory, at) # Beyond
  BY Ids DEF Beyond
<1> QED BY <1>1, Zenon DEF ReadValue

\* The frame of an object that is found is read: its class and its chunks, which end before it does.
LEMMA ReadObjectFrame ==
  ASSUME NEW memory, NEW at \in Nat, NEW class, IsName(class), NEW chunks \in Seq(Nat), NEW total \in Nat,
         Holds(memory, at, WriteObject(class, chunks, total))
  PROVE  /\ Byte(memory, at) = 15
         /\ Name(memory, at + 1) = class
         /\ at + 2 + Byte(memory, at + 1) \in Nat
         /\ Holds(memory, at + 2 + Byte(memory, at + 1), chunks \o <<0>>)
         /\ at + 2 + Byte(memory, at + 1) + Len(chunks) < at + Len(WriteObject(class, chunks, total))
<1> DEFINE zeros == [i \in 1..total + 1 |-> 0]
           x0 == <<15, 1 + Len(class)>>
           x1 == x0 \o class
           x2 == x1 \o <<0>>
           x3 == x2 \o chunks
<1>1. class \in Seq(Nat) /\ Len(class) \in 1..254
  BY Names
<1>2. WriteObject(class, chunks, total) = x3 \o zeros /\ zeros \in Seq(Nat) /\ Len(zeros) = total + 1 /\ zeros[1] = 0
  <2>1. WriteObject(class, chunks, total) = <<15, 1 + Len(class)>> \o class \o <<0>> \o chunks \o zeros
    BY ObjectFrames, ZenonT(40)
  <2>2. zeros \in Seq(Nat) /\ Len(zeros) = total + 1 /\ zeros[1] = 0
    BY ObjectFrames, ZenonT(40)
  <2> QED BY <2>1, <2>2
<1>3. x0 \in Seq(Nat) /\ Len(x0) = 2 /\ x0[1] = 15 /\ x0[2] = 1 + Len(class)
  BY ONLY <1>1
<1>4. <<0>> \in Seq(Nat) /\ Len(<<0>>) = 1 /\ <<0>>[1] = 0
  OBVIOUS
<1> HIDE DEF x0, zeros
<1>5. x1 \in Seq(Nat) /\ Len(x1) = 2 + Len(class)
  <2>1. x1 \in Seq(Nat) /\ Len(x1) = Len(x0) + Len(class)
    BY <1>1, <1>3, Together, Zenon
  <2> QED BY <2>1, <1>1, <1>3
<1> HIDE DEF x1
<1>6. x2 \in Seq(Nat) /\ Len(x2) = 3 + Len(class)
  <2>1. x2 \in Seq(Nat) /\ Len(x2) = Len(x1) + Len(<<0>>)
    BY <1>4, <1>5, Together, Zenon
  <2> QED BY <2>1, <1>1, <1>4, <1>5
<1> HIDE DEF x2
<1>7. x3 \in Seq(Nat) /\ Len(x3) = Len(x2) + Len(chunks) /\ Len(chunks) \in Nat
  BY <1>6, Together, Zenon
<1> HIDE DEF x3
<1>8. Holds(memory, at, x3) /\ Holds(memory, at + Len(x3), zeros)
  BY <1>2, <1>7, HoldsBoth, ZenonT(40)
<1>9. Holds(memory, at, x2) /\ Holds(memory, at + Len(x2), chunks)
  BY <1>6, <1>8, HoldsBoth, Zenon DEF x3
<1>10. Holds(memory, at, x1)
  BY <1>4, <1>5, <1>9, HoldsBoth, Zenon DEF x2
<1>11. Holds(memory, at, x0) /\ Holds(memory, at + Len(x0), class)
  BY <1>1, <1>3, <1>10, HoldsBoth, Zenon DEF x1
<1>12. Byte(memory, at) = 15 /\ Byte(memory, at + 1) = 1 + Len(class)
  <2>1. 1 \in 1..Len(x0) /\ at + 1 - 1 = at /\ 2 \in 1..Len(x0) /\ at + 2 - 1 = at + 1
    BY <1>3
  <2>2. Byte(memory, at + 1 - 1) = x0[1] /\ Byte(memory, at + 2 - 1) = x0[2]
    BY <2>1, <1>11, Zenon DEF Holds
  <2> QED BY <2>1, <2>2, <1>3, Zenon
<1>13. Name(memory, at + 1) = class
  <2>1. at + 1 + 1 = at + Len(x0) /\ at + Len(x0) \in Nat /\ Byte(memory, at + 1) - 1 = Len(class)
    BY ONLY <1>1, <1>3, <1>12, at \in Nat, SMTT(40)
  <2>2. Bytes(memory, at + 1 + 1, Len(class)) = class
    BY <2>1, <1>1, <1>11, HeldBytes, Zenon
  <2> QED BY <2>1, <2>2, Zenon DEF Name
<1>15. at + 2 + Byte(memory, at + 1) = at + Len(x2) /\ at + Len(x2) \in Nat
  <2>1. Len(class) \in 1..254 /\ Len(x2) = 3 + Len(class) /\ Byte(memory, at + 1) = 1 + Len(class)
    BY <1>1, <1>6, <1>12
  <2> QED BY ONLY <2>1, at \in Nat
<1>16. Holds(memory, at + Len(x2), chunks \o <<0>>)
  <2>0. /\ Len(chunks \o <<0>>) = Len(chunks) + 1 /\ (chunks \o <<0>>)[Len(chunks) + 1] = 0
        /\ \A i \in 1..Len(chunks) : (chunks \o <<0>>)[i] = chunks[i]
    BY ONLY chunks \in Seq(Nat)
  <2>1. Len(chunks \o <<0>>) = Len(chunks) + 1
    BY <2>0
  <2>2. ASSUME NEW i \in 1..Len(chunks) PROVE Byte(memory, at + Len(x2) + i - 1) = (chunks \o <<0>>)[i]
    BY <2>0, <1>9, Zenon DEF Holds
  <2>3. Byte(memory, at + Len(x2) + (Len(chunks) + 1) - 1) = (chunks \o <<0>>)[Len(chunks) + 1]
    <3>1. (chunks \o <<0>>)[Len(chunks) + 1] = 0
      BY ONLY <2>0
    <3>2. 1 \in 1..Len(zeros) /\ at + Len(x3) + 1 - 1 = at + Len(x2) + (Len(chunks) + 1) - 1
      BY <1>2, <1>7, <1>6, <1>1
    <3>3. Byte(memory, at + Len(x3) + 1 - 1) = 0
      BY <3>2, <1>2, <1>8, Zenon DEF Holds
    <3> QED BY <3>1, <3>2, <3>3, Zenon
  <2>4. \A i \in 1..(Len(chunks) + 1) : i \in 1..Len(chunks) \/ i = Len(chunks) + 1
    BY <1>7
  <2> QED BY <2>1, <2>2, <2>3, <2>4, Zenon DEF Holds
<1>17. at + Len(x2) + Len(chunks) < at + Len(WriteObject(class, chunks, total))
  <2>1. Len(x3 \o zeros) = Len(x3) + Len(zeros)
    BY ONLY <1>2, <1>7, Together
  <2>2. Len(x2) \in Nat /\ Len(x2) > 0 /\ Len(chunks) \in Nat /\ Len(x3) = Len(x2) + Len(chunks) /\ Len(zeros) = total + 1
    BY <1>1, <1>2, <1>6, <1>7
  <2>3. Len(x3 \o zeros) = Len(x2) + Len(chunks) + (total + 1)
    BY <2>1, <2>2
  <2>4. at + Len(x2) + Len(chunks) < at + Len(x3 \o zeros)
    BY ONLY <2>2, <2>3, at \in Nat, total \in Nat
  <2> QED BY <1>2, <2>4, Zenon
<1>18. at + 2 + Byte(memory, at + 1) + Len(chunks) < at + Len(WriteObject(class, chunks, total))
  BY <1>15, <1>17, Zenon
<1> QED BY <1>12, <1>13, <1>15, <1>16, <1>18, ZenonT(40)

\* The sizes of numbers.
LEMMA Widths ==
  /\ DOMAIN Width = {"BOOLEAN", "CHAR", "UCHAR", "INT", "UINT", "LONG", "ULONG", "INT64", "UINT64"}
  /\ Width["BOOLEAN"] = 1 /\ Width["CHAR"] = 1 /\ Width["UCHAR"] = 1 /\ Width["INT"] = 4 /\ Width["UINT"] = 4
  /\ Width["LONG"] = 8 /\ Width["ULONG"] = 8 /\ Width["INT64"] = 8 /\ Width["UINT64"] = 8
BY DEF Width

\* A GValue that is no object is its type and its bytes.
LEMMA Scalars ==
  ASSUME NEW n \in Nat, NEW v, IsGValue(v, n), v.type # "OBJECT"
  PROVE  v = Scalar(v.type, v.bytes) /\ v.bytes \in Seq(Nat)
<1>1. v \in GValue /\ v.ref = 0
  BY DEF IsGValue
<1>2. v = [type |-> v.type, bytes |-> v.bytes, ref |-> v.ref] /\ v.bytes \in Seq(Nat)
  BY <1>1 DEF GValue
<1> QED BY <1>1, <1>2 DEF Scalar

\* A number has the bytes of its type.
LEMMA Numbers ==
  ASSUME NEW n \in Nat, NEW v, IsGValue(v, n), v.type \in DOMAIN Width
  PROVE  /\ v = Scalar(v.type, v.bytes) /\ v.bytes \in Seq(Nat) /\ Len(v.bytes) = Width[v.type]
         /\ \A i \in 1..Len(v.bytes) : v.bytes[i] \in 0..255
<1>1. v.type # "OBJECT" /\ Width[v.type] \in Nat
  BY Widths
<1>2. v.bytes \in [1..Width[v.type] -> 0..255]
  BY DEF IsGValue
<1>3. v = Scalar(v.type, v.bytes) /\ v.bytes \in Seq(Nat)
  BY <1>1, Scalars, Zenon
<1>4. Len(v.bytes) = Width[v.type]
  <2>1. DOMAIN v.bytes = 1..Width[v.type] /\ DOMAIN v.bytes = 1..Len(v.bytes) /\ Len(v.bytes) \in Nat
    BY <1>2, <1>3
  <2> QED BY <1>1, <2>1
<1> QED BY <1>2, <1>3, <1>4

\* The length and the characters of a string are read.
LEMMA StringFrame ==
  ASSUME NEW s \in Seq(Nat), Len(s) <= MaxLength
  PROVE  LET c == BE32(Len(s)) \o s IN
         /\ c \in Seq(Nat) /\ Len(c) = 4 + Len(s) /\ StringFits(c) /\ ReadString(c) = s
         /\ WriteString(s) = <<TypeId.STRING>> \o c /\ WriteString(s) \in Seq(Nat) /\ Tail(WriteString(s)) = c
<1> DEFINE be == BE32(Len(s))
           c == be \o s
<1>1. Len(s) \in 0..MaxLength
  BY LengthAssumption, SMT
<1>2. be \in Seq(0..255) /\ Len(be) = 4 /\ FromBE32(be) = Len(s)
  BY <1>1, LengthBytes, Zenon
<1>3. be \in Seq(Nat)
  <2>1. 0..255 \subseteq Nat
    OBVIOUS
  <2> QED BY <1>2, <2>1, SeqMonotonic, Zenon
<1>4. WriteString(s) = <<TypeId.STRING>> \o be \o s
  BY DEF WriteString
<1> HIDE DEF be
<1>5. c \in Seq(Nat) /\ Len(c) = 4 + Len(s)
  <2>1. c \in Seq(Nat) /\ Len(c) = Len(be) + Len(s)
    BY <1>3, Together, Zenon
  <2> QED BY <2>1, <1>2
<1>6. /\ c[1] = be[1] /\ c[2] = be[2] /\ c[3] = be[3] /\ c[4] = be[4]
      /\ \A i \in 1..Len(s) : c[4 + i] = s[i]
  <2>1. \A i \in 1..Len(be) + Len(s) : c[i] = IF i <= Len(be) THEN be[i] ELSE s[i - Len(be)]
    BY <1>3, ConcatProperties, Zenon
  <2>2. \A i \in 1..4 + Len(s) : c[i] = IF i <= 4 THEN be[i] ELSE s[i - 4]
    BY <2>1, <1>2, Zenon
  <2> HIDE DEF c
  <2>3. 1 \in 1..4 + Len(s) /\ 2 \in 1..4 + Len(s) /\ 3 \in 1..4 + Len(s) /\ 4 \in 1..4 + Len(s)
    BY <1>1
  <2>4. c[1] = be[1] /\ c[2] = be[2] /\ c[3] = be[3] /\ c[4] = be[4]
    BY <2>2, <2>3
  <2>5. ASSUME NEW i \in 1..Len(s) PROVE c[4 + i] = s[i]
    <3>1. 4 + i \in 1..4 + Len(s) /\ ~(4 + i <= 4) /\ 4 + i - 4 = i
      OBVIOUS
    <3>2. c[4 + i] = IF 4 + i <= 4 THEN be[4 + i] ELSE s[4 + i - 4]
      BY <2>2, <3>1
    <3> QED BY <3>1, <3>2
  <2> QED BY <2>4, <2>5
<1>7. FromBE32(c) = Len(s)
  <2>1. FromBE32(c) = FromBE32(be)
    BY <1>6, SMT DEF FromBE32
  <2> QED BY <2>1, <1>2
<1>8. StringFits(c)
  BY <1>5, <1>7 DEF StringFits
<1>9. ReadString(c) = s
  <2>2. ReadString(c) = SubSeq(c, 5, 4 + Len(s))
    BY <1>5 DEF ReadString
  <2> HIDE DEF c
  <2>3. Len(ReadString(c)) = Len(s) /\ ReadString(c) \in Seq(Nat) /\ \A i \in 1..Len(s) : ReadString(c)[i] = c[4 + i]
    <3>1. Len(s) \in Nat
      OBVIOUS
    <3>2. /\ Len(SubSeq(c, 5, 4 + Len(s))) = Len(s) /\ SubSeq(c, 5, 4 + Len(s)) \in Seq(Nat)
          /\ \A i \in 1..Len(s) : SubSeq(c, 5, 4 + Len(s))[i] = c[4 + i]
      BY <1>5, <3>1, Dropped, Zenon
    <3> QED BY <2>2, <3>2, Zenon
  <2> QED BY <1>6, <2>3, SeqEqual
<1>10. TypeId.STRING \in Nat
  BY Ids
<1> DEFINE id == TypeId.STRING
<1> HIDE DEF id
<1>11. WriteString(s) = <<id>> \o c
  <2>1. <<id>> \in Seq(Nat)
    BY <1>10 DEF id
  <2>2. (<<id>> \o be) \o s = <<id>> \o (be \o s)
    BY ONLY <1>3, <2>1, s \in Seq(Nat), Regroup, Zenon
  <2> QED BY <1>4, <2>2 DEF id
<1>12. WriteString(s) \in Seq(Nat) /\ Tail(WriteString(s)) = c
  <2> HIDE DEF c
  <2> QED BY <1>5, <1>10, <1>11, SMTT(40) DEF id
<1> QED BY <1>5, <1>8, <1>9, <1>11, <1>12 DEF be, id

\* Bytes are read as they were written.
LEMMA ReadWrittenByte ==
  ASSUME NEW n \in Nat, NEW v, IsGValue(v, n), v.type \in {"BOOLEAN", "CHAR", "UCHAR"}, NEW m1, NEW m2
  PROVE  WriteScalar(v, m1) = <<TypeId[v.type]>> \o v.bytes /\ ReadScalar(v.type, v.bytes, m2) = Value(v)
<1>1. v.type \in DOMAIN Width /\ Width[v.type] = 1
  BY Widths
<1>2. v = Scalar(v.type, v.bytes) /\ v.bytes \in Seq(Nat) /\ Len(v.bytes) = 1
  BY <1>1, Numbers, Zenon
<1>3. WriteScalar(v, m1) = <<TypeId[v.type]>> \o v.bytes
  BY DEF WriteScalar, WriteByte, Real
<1>4. ReadScalar(v.type, v.bytes, m2) = ReadByte(v.type, v.bytes)
  BY DEF ReadScalar, Real
<1>5. v.type = "BOOLEAN" /\ v.bytes # <<0>> => v.bytes = <<1>>
  <2>1. v.type = "BOOLEAN" => v.bytes[1] \in {0, 1}
    BY DEF IsGValue
  <2>2. v.bytes = <<v.bytes[1]>>
    BY <1>2
  <2> QED BY <2>1, <2>2
<1>6. ReadByte(v.type, v.bytes) = Value(v)
  BY <1>2, <1>5 DEF ReadByte
<1> QED BY <1>3, <1>4, <1>6

\* Integers are read as they were written, whatever the byte orders.
LEMMA ReadWrittenInteger ==
  ASSUME NEW n \in Nat, NEW v, IsGValue(v, n), v.type \in {"INT", "UINT", "LONG", "ULONG", "INT64", "UINT64"},
         NEW m1, NEW m2
  PROVE  WriteScalar(v, m1) = <<TypeId[v.type]>> \o v.bytes /\ ReadScalar(v.type, v.bytes, m2) = Value(v)
<1>1. v.type \in DOMAIN Width
  BY Widths
<1>2. v = Scalar(v.type, v.bytes) /\ v.bytes \in Seq(Nat) /\ Len(v.bytes) = Width[v.type]
  BY <1>1, Numbers, Zenon
<1>3. ToBE(InMemory(v.bytes, m1), m1) = v.bytes /\ InMemory(ToBE(v.bytes, m2), m2) = v.bytes
  BY <1>2, TurnedTwice, Zenon
<1>4. CASE v.type \in {"INT", "UINT"}
  <2>1. WriteScalar(v, m1) = WriteInt(v, m1) /\ ReadScalar(v.type, v.bytes, m2) = ReadInt(v.type, v.bytes, m2)
    BY <1>4 DEF WriteScalar, ReadScalar, Real
  <2>2. Len(v.bytes) = 4
    BY <1>2, <1>4, Widths
  <2> QED BY <2>1, <2>2, <1>2, <1>3, Zenon DEF WriteInt, ReadInt
<1>5. CASE v.type \in {"LONG", "ULONG"}
  <2>1. WriteScalar(v, m1) = WriteLong(v, m1) /\ ReadScalar(v.type, v.bytes, m2) = ReadLong(v.type, v.bytes, m2)
    BY <1>5 DEF WriteScalar, ReadScalar, Real
  <2>2. Len(v.bytes) = 8
    BY <1>2, <1>5, Widths
  <2> QED BY <2>1, <2>2, <1>2, <1>3, Zenon DEF WriteLong, ReadLong
<1>6. CASE v.type \in {"INT64", "UINT64"}
  <2>1. WriteScalar(v, m1) = WriteInt64(v, m1) /\ ReadScalar(v.type, v.bytes, m2) = ReadInt64(v.type, v.bytes, m2)
    BY <1>6 DEF WriteScalar, ReadScalar, Real
  <2>2. Len(v.bytes) = 8
    BY <1>2, <1>6, Widths
  <2> QED BY <2>1, <2>2, <1>2, <1>3, Zenon DEF WriteInt64, ReadInt64
<1> QED BY <1>4, <1>5, <1>6

\* Strings are read as they were written, NULL included.
LEMMA ReadWrittenString ==
  ASSUME NEW n \in Nat, NEW v, IsGValue(v, n), v.type = "STRING", NEW m1, NEW m2
  PROVE  \E c \in Seq(Nat) : /\ WriteScalar(v, m1) = <<TypeId[v.type]>> \o c /\ 1 + Len(c) <= MaxLength
                            /\ ReadScalar(v.type, c, m2) = Value(v)
<1> DEFINE s == Terminated(v)
           c == BE32(Len(s)) \o s
<1>1. v = Scalar("STRING", v.bytes) /\ v.bytes \in Seq(Nat)
  BY Scalars
<1>2. v.bytes = <<0>> \/ (v.bytes \in Seq(Char) /\ Len(v.bytes) <= MaxLength - 6)
  BY DEF IsGValue
<1>3. s \in Seq(Nat) /\ Len(s) <= MaxLength - 5 /\ MaxLength \in Nat
  <2>1. MaxLength \in Nat /\ MaxLength >= 9
    BY LengthAssumption, SMT
  <2>2. CASE v = NullString
    BY <2>1, <2>2 DEF Terminated
  <2>3. CASE v # NullString
    <3>1. Len(v.bytes) <= MaxLength - 6
      BY <1>1, <1>2, <2>3, Zenon DEF NullString
    <3>2. s = Append(v.bytes, 0)
      BY <2>3 DEF Terminated
    <3> QED BY <1>1, <2>1, <3>1, <3>2
  <2> QED BY <2>2, <2>3
<1>4. WriteScalar(v, m1) = WriteString(s)
  BY DEF WriteScalar, Real
<1>5. (IF s = <<>> THEN NullString ELSE Scalar("STRING", Front(s))) = v
  <2>1. CASE v = NullString
    BY <2>1 DEF Terminated
  <2>2. CASE v # NullString
    <3>1. s = Append(v.bytes, 0)
      BY <2>2 DEF Terminated
    <3>2. s # <<>> /\ Front(s) = v.bytes
      BY <3>1, <1>1 DEF Front
    <3> QED BY <1>1, <3>2
  <2> QED BY <2>1, <2>2
<1> HIDE DEF s
<1>6. /\ c \in Seq(Nat) /\ Len(c) = 4 + Len(s) /\ StringFits(c) /\ ReadString(c) = s
      /\ WriteString(s) = <<TypeId.STRING>> \o c
  <2>1. Len(s) <= MaxLength
    BY <1>3
  <2> QED BY <1>3, <2>1, StringFrame, Zenon
<1>7. 1 + Len(c) <= MaxLength
  BY <1>3, <1>6
<1> HIDE DEF c
<1>8. ReadScalar("STRING", c, m2) = Value(v)
  <2>1. ReadScalar("STRING", c, m2) = Value(IF s = <<>> THEN NullString ELSE Scalar("STRING", Front(s)))
    BY <1>6, SMTT(40) DEF ReadScalar, Real
  <2> QED BY <1>5, <2>1, Zenon
<1> QED BY <1>4, <1>6, <1>7, <1>8, SMTT(40)

\* The characters of a real.
Printed(real, m) == Append(Text(real, m), 0)

\* What a real is printed as, and what is read of it.
LEMMA Digits ==
  ASSUME NEW real \in Nat, (real + 5) \div 10 \in 0..99, real # Tiny, NEW m1 \in Machine, NEW m2 \in Machine
  PROVE  /\ Printed(real, m1) \in Seq(Nat) /\ Len(Printed(real, m1)) <= 4 /\ ~RangeError(Printed(real, m1))
         /\ \E x \in 0..99 :
              /\ \A type : ReadReal(type, Printed(real, m1), m2) = Scalar(type, <<10 * x>>)
              /\ m1.point = m2.point => x = (real + 5) \div 10
<1> DEFINE t == (real + 5) \div 10
           d == t \div 10
           r == t % 10
           s == Printed(real, m1)
<1>1. t \in 0..99
  OBVIOUS
<1>3. m1.point \in {44, 46} /\ m2.point \in {44, 46}
  BY DEF Machine
<1>4. Text(real, m1) = IF r = 0 THEN <<48 + d>> ELSE <<48 + d, m1.point, 48 + r>>
  BY DEF Text, Digit
<1> HIDE DEF t
<1>5. d \in 0..9 /\ r \in 0..9 /\ t = 10 * d + r
  <2>1. \A n \in 0..99 : n \div 10 \in 0..9 /\ n % 10 \in 0..9 /\ n = 10 * (n \div 10) + (n % 10)
    BY SMT
  <2> QED BY <1>1, <2>1, Zenon
<1> HIDE DEF d, r
<1>6. CASE r = 0
  <2>1. Text(real, m1) = <<48 + d>>
    BY <1>4, <1>6
  <2>2. s \in Seq(Nat) /\ Len(s) <= 4 /\ s[1] = 48 + d /\ s[2] = 0
    <3> DEFINE text == Text(real, m1)
    <3>1. text \in Seq(Nat) /\ Len(text) = 1 /\ text[1] = 48 + d
      BY <2>1, <1>5
    <3> HIDE DEF text, Printed
    <3>2. /\ Append(text, 0) \in Seq(Nat) /\ Len(Append(text, 0)) = 1 + 1
          /\ \A i \in 1..1 : Append(text, 0)[i] = text[i]
          /\ Append(text, 0)[1 + 1] = 0
      BY <3>1, Ending, Zenon
    <3> QED BY <3>1, <3>2 DEF text, Printed
  <2> HIDE DEF s
  <2>3. s[2] # 101 /\ s[2] # m2.point
    BY <2>2, <1>3
  <2>4. \A type : ReadReal(type, s, m2) = Scalar(type, <<100 * (s[1] - 48) + 0>>)
    BY <2>3 DEF ReadReal
  <2>5. 100 * (s[1] - 48) + 0 = 10 * t
    <3>1. 100 * ((48 + d) - 48) + 0 = 10 * t
      BY <1>5, <1>6
    <3> QED BY <2>2, <3>1
  <2>6. \A type : ReadReal(type, s, m2) = Scalar(type, <<10 * t>>)
    BY <2>4, <2>5, Zenon
  <2>7. ~RangeError(s)
    BY <2>3, Zenon DEF RangeError
  <2> QED BY <2>2, <2>6, <2>7, <1>1 DEF s, t
<1>7. CASE r # 0
  <2>1. Text(real, m1) = <<48 + d, m1.point, 48 + r>>
    BY <1>4, <1>7
  <2>2. s \in Seq(Nat) /\ Len(s) <= 4 /\ s[1] = 48 + d /\ s[2] = m1.point /\ s[3] = 48 + r
    <3> DEFINE text == Text(real, m1)
    <3>1. text \in Seq(Nat) /\ Len(text) = 3 /\ text[1] = 48 + d /\ text[2] = m1.point /\ text[3] = 48 + r
      BY <2>1, <1>5, <1>3
    <3> HIDE DEF text, Printed
    <3>2. /\ Append(text, 0) \in Seq(Nat) /\ Len(Append(text, 0)) = 3 + 1
          /\ \A i \in 1..3 : Append(text, 0)[i] = text[i]
      BY <3>1, Ending, 3 \in Nat, Zenon
    <3> QED BY <3>1, <3>2 DEF text, Printed
  <2> HIDE DEF s
  <2>3. s[2] # 101
    BY <2>2, <1>3
  <2>4. ~RangeError(s)
    BY <2>3, Zenon DEF RangeError
  <2>5. CASE m1.point = m2.point
    <3>1. \A type : ReadReal(type, s, m2) = Scalar(type, <<100 * (s[1] - 48) + 10 * (s[3] - 48)>>)
      BY <2>2, <2>5 DEF ReadReal
    <3>2. 100 * (s[1] - 48) + 10 * (s[3] - 48) = 10 * t
      <4>1. 100 * ((48 + d) - 48) + 10 * ((48 + r) - 48) = 10 * t
        BY <1>5
      <4> QED BY <2>2, <4>1
    <3>3. \A type : ReadReal(type, s, m2) = Scalar(type, <<10 * t>>)
      BY <3>1, <3>2, Zenon
    <3> QED BY <2>2, <2>4, <3>3, <1>1 DEF s, t
  <2>6. CASE m1.point # m2.point
    <3>1. \A type : ReadReal(type, s, m2) = Scalar(type, <<100 * (s[1] - 48) + 0>>)
      BY <2>2, <2>6 DEF ReadReal
    <3>2. 100 * (s[1] - 48) + 0 = 10 * (10 * d)
      <4>1. 100 * ((48 + d) - 48) + 0 = 10 * (10 * d)
        BY <1>5
      <4> QED BY <2>2, <4>1
    <3>3. \A type : ReadReal(type, s, m2) = Scalar(type, <<10 * (10 * d)>>) /\ 10 * d \in 0..99
      BY <3>1, <3>2, <1>5
    <3> QED BY <2>2, <2>4, <2>6, <3>3 DEF s
  <2> QED BY <2>5, <2>6
<1> QED BY <1>6, <1>7

\* The tiny real is printed, and not read.
LEMMA TinyText ==
  ASSUME NEW m1
  PROVE  /\ Printed(Tiny, m1) \in Seq(Nat) /\ Len(Printed(Tiny, m1)) <= 4
         /\ RangeError(Printed(Tiny, m1))
<1> DEFINE s == Printed(Tiny, m1)
<1>1. Text(Tiny, m1) = <<49, 101, 45>>
  BY DEF Text
<1>3. s \in Seq(Nat) /\ Len(s) <= 4 /\ s[2] = 101
  <2> DEFINE text == Text(Tiny, m1)
  <2>1. text \in Seq(Nat) /\ Len(text) = 3 /\ text[2] = 101
    BY <1>1
  <2> HIDE DEF text
  <2>2. /\ Append(text, 0) \in Seq(Nat) /\ Len(Append(text, 0)) = 3 + 1
        /\ \A i \in 1..3 : Append(text, 0)[i] = text[i]
    <3>1. 3 \in Nat /\ Len(text) = 3 /\ text \in Seq(Nat)
      BY <2>1
    <3> QED BY <3>1, Ending, Zenon
  <2> QED BY <2>1, <2>2 DEF text, Printed
<1> HIDE DEF s
<1> QED BY <1>3 DEF s, RangeError

(***************************************************************************)
(* What a value is read as: itself, but a real as a number of two digits,  *)
(* the nearest one if the decimal points are the same.                     *)
(***************************************************************************)
ReadAs(v, w, same) ==
  IF v.type \in Real
  THEN \E x \in 0..99 : w = Scalar(v.type, <<10 * x>>) /\ (same => 10 * x = Rounded(v.bytes[1]))
  ELSE w = v

\* The contents of the frame of v, and that they are read as v, unless that is the tiny real.
IsContents(c, v, m) == WriteScalar(v, m) = Framed(v.type, c) /\ 1 + Len(c) <= MaxLength
ReadsBack(c, v, m, same) ==
  IF v.type \in Real /\ v.bytes[1] = Tiny THEN ReadScalar(v.type, c, m) = Fails("false")
  ELSE \E w : ReadScalar(v.type, c, m) = Value(w) /\ ReadAs(v, w, same)

\* Reals are read as they were printed, or not at all.
LEMMA ReadWrittenReal ==
  ASSUME NEW n \in Nat, NEW v, IsGValue(v, n), v.type \in Real, NEW m1 \in Machine, NEW m2 \in Machine
  PROVE  \E c \in Seq(Nat) : IsContents(c, v, m1) /\ ReadsBack(c, v, m2, m1.point = m2.point)
<1> DEFINE it == v.bytes[1]
           s == Printed(it, m1)
           c == BE32(Len(s)) \o s
<1>1. it \in 0..994 \cup {Tiny}
  BY SMT DEF IsGValue
<1> HIDE DEF it
<1>2. it # Tiny => it \in Nat /\ (it + 5) \div 10 \in 0..99
  <2>1. \A r \in 0..994 : r \in Nat /\ (r + 5) \div 10 \in 0..99
    BY SMT
  <2> QED BY <1>1, <2>1, SMT
<1>3. s \in Seq(Nat) /\ Len(s) <= 4 /\ (RangeError(s) <=> it = Tiny)
  <2>1. CASE it = Tiny
    BY <2>1, TinyText, Zenon
  <2>2. CASE it # Tiny
    BY <1>2, <2>2, Digits, Zenon
  <2> QED BY <2>1, <2>2
<1>4. WriteScalar(v, m1) = <<TypeId[v.type]>> \o Tail(WriteString(s))
  BY DEF WriteScalar, WriteReal, Real, it, Printed
<1>5. Len(s) <= MaxLength /\ 5 + Len(s) <= MaxLength
  <2>1. MaxLength \in Nat /\ MaxLength >= 9
    BY LengthAssumption, SMT
  <2> HIDE DEF s
  <2> QED BY <1>3, <2>1
<1>6. it # Tiny =>
        \E x \in 0..99 :
          /\ \A type : ReadReal(type, s, m2) = Scalar(type, <<10 * x>>)
          /\ m1.point = m2.point => x = (it + 5) \div 10
  BY <1>2, Digits, ZenonT(40)
<1> HIDE DEF s
<1>7. c \in Seq(Nat) /\ Len(c) = 4 + Len(s) /\ StringFits(c) /\ ReadString(c) = s /\ Tail(WriteString(s)) = c
  BY <1>3, <1>5, StringFrame, Zenon
<1> HIDE DEF c
<1>8. IsContents(c, v, m1)
  <2>1. 1 + Len(c) <= MaxLength
    BY <1>3, <1>5, <1>7
  <2> QED BY <1>4, <1>7, <2>1, Zenon DEF IsContents, Framed
<1>9. ReadScalar(v.type, c, m2) = IF RangeError(s) THEN Fails("false") ELSE Value(ReadReal(v.type, s, m2))
  BY <1>7 DEF ReadScalar, Real
<1>10. CASE it = Tiny
  BY <1>3, <1>7, <1>8, <1>9, <1>10, Zenon DEF ReadsBack, it
<1>11. CASE it # Tiny
  <2>1. PICK x \in 0..99 :
          /\ \A type : ReadReal(type, s, m2) = Scalar(type, <<10 * x>>)
          /\ m1.point = m2.point => x = (it + 5) \div 10
    BY <1>6, <1>11, Zenon
  <2>2. m1.point = m2.point => 10 * x = Rounded(it)
    <3>1. ASSUME x = (it + 5) \div 10 PROVE 10 * x = Rounded(it)
      BY ONLY <3>1, x \in 0..99 DEF Rounded
    <3> QED BY <2>1, <3>1, Zenon
  <2>3. ReadAs(v, Scalar(v.type, <<10 * x>>), m1.point = m2.point)
    BY <2>1, <2>2, Zenon DEF ReadAs, it
  <2>4. ReadScalar(v.type, c, m2) = Value(Scalar(v.type, <<10 * x>>))
    <3>1. ~RangeError(s)
      BY <1>3, <1>11, Zenon
    <3>2. ReadScalar(v.type, c, m2) = Value(ReadReal(v.type, s, m2))
      BY <1>9, <3>1, Zenon
    <3> QED BY <2>1, <3>2, Zenon
  <2>5. ReadsBack(c, v, m2, m1.point = m2.point)
    BY <1>11, <2>3, <2>4, Zenon DEF ReadsBack, it
  <2> QED BY <1>7, <1>8, <2>5
<1> QED BY <1>10, <1>11, SMTT(40)

\* Every value of a supported type but an object has a frame, which reads back.
LEMMA ScalarContents ==
  ASSUME NEW n \in Nat, NEW v, IsGValue(v, n), v.type \in DOMAIN TypeId, v.type # "OBJECT",
         NEW m1 \in Machine, NEW m2 \in Machine
  PROVE  \E c \in Seq(Nat) : IsContents(c, v, m1) /\ ReadsBack(c, v, m2, m1.point = m2.point)
<1>1. CASE v.type \in Real
  BY <1>1, ReadWrittenReal, Zenon
<1>2. CASE v.type \notin Real
  <2>1. ASSUME NEW c \in Seq(Nat), ReadScalar(v.type, c, m2) = Value(v)
        PROVE  ReadsBack(c, v, m2, m1.point = m2.point)
    BY <1>2, <2>1, Zenon DEF ReadAs, ReadsBack
  <2>2. CASE v.type = "STRING"
    BY <2>1, <2>2, ReadWrittenString, Zenon DEF IsContents, Framed
  <2>3. CASE v.type # "STRING"
    <3>1. v.type \in {"BOOLEAN", "CHAR", "UCHAR", "INT", "UINT", "LONG", "ULONG", "INT64", "UINT64"}
      BY <1>2, <2>3, Ids DEF Real
    <3>2. WriteScalar(v, m1) = <<TypeId[v.type]>> \o v.bytes /\ ReadScalar(v.type, v.bytes, m2) = Value(v)
      BY <3>1, ReadWrittenByte, ReadWrittenInteger, Zenon
    <3>3. v.bytes \in Seq(Nat) /\ 1 + Len(v.bytes) <= MaxLength
      <4>1. v.type \in DOMAIN Width /\ Width[v.type] \in {1, 4, 8}
        BY <3>1, Widths
      <4>2. v.bytes \in Seq(Nat) /\ Len(v.bytes) = Width[v.type]
        BY <4>1, Numbers, Zenon
      <4>3. MaxLength \in Nat /\ MaxLength >= 9
        BY LengthAssumption, SMT
      <4> QED BY <4>1, <4>2, <4>3, SMTT(40)
    <3> QED BY <2>1, <3>2, <3>3, Zenon DEF IsContents, Framed
  <2> QED BY <2>2, <2>3
<1> QED BY <1>1, <1>2

\* The frame is made of bytes and not empty, and its length fits a guint.
LEMMA ContentsFrame ==
  ASSUME NEW v, v.type \in DOMAIN TypeId, NEW m, NEW c \in Seq(Nat), IsContents(c, v, m)
  PROVE  LET f == WriteScalar(v, m) IN f \in Seq(Nat) /\ f # <<>> /\ Len(f) = 1 + Len(c) /\ Len(f) <= MaxLength
<1> DEFINE f == WriteScalar(v, m)
           id == TypeId[v.type]
<1>1. f = Framed(v.type, c) /\ 1 + Len(c) <= MaxLength
  BY Zenon DEF IsContents
<1> HIDE DEF f
<1>2. f \in Seq(Nat) /\ Len(f) = 1 + Len(c) /\ f # <<>>
  <2>1. id \in Nat
    BY Ids
  <2>2. f = <<id>> \o c
    BY <1>1 DEF Framed
  <2> HIDE DEF id
  <2> QED BY <2>1, <2>2
<1>3. Len(f) <= MaxLength
  BY <1>1, <1>2
<1> QED BY <1>2, <1>3 DEF f

\* So it is for every such value.
LEMMA ScalarFrame ==
  ASSUME NEW n \in Nat, NEW v, IsGValue(v, n), v.type \in DOMAIN TypeId, v.type # "OBJECT", NEW m \in Machine
  PROVE  WriteScalar(v, m) \in Seq(Nat) /\ WriteScalar(v, m) # <<>> /\ Len(WriteScalar(v, m)) <= MaxLength
BY ScalarContents, ContentsFrame, Zenon

(***************************************************************************)
(* A frame of anything but an object that is found is read as the value it *)
(* was written for, unless that is the tiny real.                          *)
(***************************************************************************)
LEMMA ReadScalarFrame ==
  ASSUME NEW n \in Nat, NEW v, IsGValue(v, n), v.type \in DOMAIN TypeId, v.type # "OBJECT",
         NEW m1 \in Machine, NEW m2 \in Machine, NEW memory, NEW at \in Nat, NEW classes,
         Holds(memory, at, WriteScalar(v, m1))
  PROVE  LET read == ReadValue(memory, at, Len(WriteScalar(v, m1)), m2, classes) IN
         IF v.type \in Real /\ v.bytes[1] = Tiny THEN read = Fails("false")
         ELSE \E w : read = Value(w) /\ ReadAs(v, w, m1.point = m2.point)
<1>1. PICK c \in Seq(Nat) : IsContents(c, v, m1) /\ ReadsBack(c, v, m2, m1.point = m2.point)
  BY ScalarContents, Zenon
<1>2. Len(WriteScalar(v, m1)) = 1 + Len(c)
  BY <1>1, ContentsFrame, Zenon
<1>3. Holds(memory, at, Framed(v.type, c))
  BY <1>1, Zenon DEF IsContents
<1>4. ReadValue(memory, at, 1 + Len(c), m2, classes) = ReadScalar(v.type, c, m2)
  <2> DEFINE t == v.type
  <2>1. t \in DOMAIN TypeId /\ t # "OBJECT" /\ Holds(memory, at, Framed(t, c))
    BY <1>3
  <2> HIDE DEF t
  <2>2. ReadValue(memory, at, 1 + Len(c), m2, classes) = ReadScalar(t, c, m2)
    BY ONLY <2>1, at \in Nat, c \in Seq(Nat), ReadFrame
  <2> QED BY <2>2 DEF t
<1> QED BY <1>1, <1>2, <1>4, Zenon DEF ReadsBack
=============================================================================
