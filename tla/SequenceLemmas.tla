--------------------------- MODULE SequenceLemmas ---------------------------
(***************************************************************************)
(* How the operations on ports and message lists change the set of their   *)
(* elements, and that they keep lists free of duplicates.                  *)
(***************************************************************************)
EXTENDS SequencesExt, TLAPS

\* The empty list (an emptied port, a forgotten transaction) holds nothing.
LEMMA EmptyList == ToSet(<<>>) = {} /\ IsInjective(<<>>)
BY DEF ToSet, IsInjective

\* A list of tasks holds tasks only.
LEMMA ListElements == ASSUME NEW S, NEW s \in Seq(S) PROVE ToSet(s) \subseteq S
BY DEF ToSet

\* Appending, as iris_port_post and g_list_append do.
LEMMA AppendList ==
  ASSUME NEW S, NEW s \in Seq(S), NEW e \in S
  PROVE  /\ Append(s, e) \in Seq(S)
         /\ ToSet(Append(s, e)) = ToSet(s) \cup {e}
         /\ IsInjective(s) /\ e \notin ToSet(s) => IsInjective(Append(s, e))
<1>1. Append(s, e) \in Seq(S) /\ Len(Append(s, e)) = Len(s) + 1 /\ DOMAIN Append(s, e) = 1..(Len(s) + 1)
  OBVIOUS
<1>2. \A i \in 1..Len(s) : Append(s, e)[i] = s[i]
  OBVIOUS
<1>3. Append(s, e)[Len(s) + 1] = e
  OBVIOUS
<1>4. ToSet(Append(s, e)) = ToSet(s) \cup {e}
  BY <1>1, <1>2, <1>3 DEF ToSet
<1>5. IsInjective(s) /\ e \notin ToSet(s) => IsInjective(Append(s, e))
  BY <1>1, <1>2, <1>3 DEF ToSet, IsInjective
<1> QED BY <1>1, <1>4, <1>5

\* Taking the first element off.
LEMMA TailList ==
  ASSUME NEW S, NEW s \in Seq(S), s # <<>>
  PROVE  /\ Head(s) \in S /\ Tail(s) \in Seq(S)
         /\ ToSet(s) = ToSet(Tail(s)) \cup {Head(s)}
         /\ IsInjective(s) => IsInjective(Tail(s)) /\ Head(s) \notin ToSet(Tail(s))
<1>1. Head(s) \in S /\ Tail(s) \in Seq(S) /\ Len(s) \in Nat /\ Len(s) > 0 /\ Len(Tail(s)) = Len(s) - 1
  OBVIOUS
<1>2. Head(s) = s[1] /\ \A i \in 1..Len(Tail(s)) : Tail(s)[i] = s[i + 1]
  OBVIOUS
<1>3. DOMAIN s = 1..Len(s) /\ DOMAIN Tail(s) = 1..Len(Tail(s))
  BY <1>1
<1>4. ToSet(s) \subseteq ToSet(Tail(s)) \cup {Head(s)}
  <2> SUFFICES ASSUME NEW i \in 1..Len(s), i # 1
               PROVE  s[i] \in ToSet(Tail(s))
    BY <1>2, <1>3 DEF ToSet
  <2>1. i - 1 \in 1..Len(Tail(s)) /\ Tail(s)[i - 1] = s[i]
    BY <1>1, <1>2
  <2> QED BY <2>1, <1>3 DEF ToSet
<1>5. ToSet(Tail(s)) \cup {Head(s)} \subseteq ToSet(s)
  BY <1>1, <1>2, <1>3 DEF ToSet
<1>6. IsInjective(s) => IsInjective(Tail(s))
  BY <1>1, <1>2, <1>3 DEF IsInjective
<1>7. IsInjective(s) => Head(s) \notin ToSet(Tail(s))
  BY <1>1, <1>2, <1>3 DEF IsInjective, ToSet
<1> QED BY <1>1, <1>4, <1>5, <1>6, <1>7

\* g_list_prepend, as handle_set does to defer a set.
LEMMA ConsList ==
  ASSUME NEW S, NEW s \in Seq(S), NEW e \in S
  PROVE  /\ Cons(e, s) \in Seq(S)
         /\ ToSet(Cons(e, s)) = ToSet(s) \cup {e}
         /\ IsInjective(s) /\ e \notin ToSet(s) => IsInjective(Cons(e, s))
<1> DEFINE r == Cons(e, s)
<1>1. r \in Seq(S) /\ Len(r) = Len(s) + 1 /\ DOMAIN r = 1..(Len(s) + 1) /\ DOMAIN s = 1..Len(s)
  BY DEF Cons
<1>2. r[1] = e /\ \A i \in 1..Len(s) : r[i + 1] = s[i]
  BY DEF Cons
<1>3. \A i \in 2..(Len(s) + 1) : i - 1 \in 1..Len(s) /\ r[i] = s[i - 1]
  BY DEF Cons
<1> HIDE DEF r
<1>4. ToSet(r) = ToSet(s) \cup {e}
  <2>1. /\ ToSet(r) = {r[i] : i \in 1..(Len(s) + 1)} /\ ToSet(s) = {s[i] : i \in 1..Len(s)}
        /\ \A i \in 1..(Len(s) + 1) : i = 1 \/ i \in 2..(Len(s) + 1)
        /\ 1 \in 1..(Len(s) + 1) /\ \A i \in 1..Len(s) : i + 1 \in 1..(Len(s) + 1)
    BY <1>1 DEF ToSet
  <2>2. ASSUME NEW i \in 1..(Len(s) + 1) PROVE r[i] \in ToSet(s) \cup {e}
    BY <1>2, <1>3, <2>1, Zenon
  <2>3. ASSUME NEW i \in 1..Len(s) PROVE s[i] \in ToSet(r)
    BY <1>2, <2>1, Zenon
  <2>4. e \in ToSet(r)
    BY <1>2, <2>1, Zenon
  <2> QED BY <2>1, <2>2, <2>3, <2>4, Zenon
<1>5. IsInjective(s) /\ e \notin ToSet(s) => IsInjective(r)
  <2> SUFFICES ASSUME IsInjective(s), \A i \in 1..Len(s) : s[i] # e,
                      NEW i \in 1..(Len(s) + 1), NEW j \in 1..(Len(s) + 1), r[i] = r[j]
               PROVE  i = j
    BY <1>1 DEF ToSet, IsInjective
  <2>1. i = 1 \/ i \in 2..(Len(s) + 1)
    BY <1>1
  <2>2. j = 1 \/ j \in 2..(Len(s) + 1)
    BY <1>1
  <2>3. CASE i \in 2..(Len(s) + 1) /\ j \in 2..(Len(s) + 1)
    <3>1. i - 1 \in DOMAIN s /\ j - 1 \in DOMAIN s /\ s[i - 1] = s[j - 1]
      BY <1>1, <1>3, <2>3, Zenon
    <3>2. i - 1 = j - 1
      BY <3>1, Zenon DEF IsInjective
    <3> QED BY <3>2, <2>3
  <2> QED BY <2>1, <2>2, <2>3, <1>2, <1>3
<1> QED BY <1>1, <1>4, <1>5 DEF r

\* g_list_reverse, as txn_state_run does before its loop.
LEMMA ReverseList ==
  ASSUME NEW S, NEW s \in Seq(S)
  PROVE  /\ Reverse(s) \in Seq(S)
         /\ ToSet(Reverse(s)) = ToSet(s)
         /\ IsInjective(s) => IsInjective(Reverse(s))
         /\ s = <<>> <=> Reverse(s) = <<>>
<1> DEFINE r == Reverse(s)
<1>1. r \in Seq(S) /\ Len(r) = Len(s) /\ Len(s) \in Nat
  BY DEF Reverse
<1>2. DOMAIN r = 1..Len(s) /\ DOMAIN s = 1..Len(s)
  BY DEF Reverse
<1>3. \A i \in 1..Len(s) : r[i] = s[Len(s) - i + 1]
  BY DEF Reverse
<1>4. \A i \in 1..Len(s) : Len(s) - i + 1 \in 1..Len(s) /\ r[Len(s) - i + 1] = s[i]
  BY <1>1, <1>3
<1> HIDE DEF r
<1>5. ToSet(r) = ToSet(s)
  BY <1>2, <1>3, <1>4 DEF ToSet
<1>6. IsInjective(s) => IsInjective(r)
  <2> SUFFICES ASSUME IsInjective(s), NEW i \in 1..Len(s), NEW j \in 1..Len(s), r[i] = r[j]
               PROVE  i = j
    BY <1>2 DEF IsInjective
  <2>1. Len(s) - i + 1 = Len(s) - j + 1
    BY <1>2, <1>3, <1>4 DEF IsInjective
  <2> QED BY <1>1, <2>1
<1>7. s = <<>> <=> r = <<>>
  BY <1>1
<1> QED BY <1>1, <1>5, <1>6, <1>7 DEF r
=============================================================================
