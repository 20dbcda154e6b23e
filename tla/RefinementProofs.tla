-------------------------- MODULE RefinementProofs --------------------------
(***************************************************************************)
(* CatalinaStorage implements TransactionalStore for careful clients, for  *)
(* any numbers of tasks, keys, values and transactions.                    *)
(***************************************************************************)
EXTENDS StorageRefinement, CarefulClientProofs, WellFoundedInduction

Writes == [key : Key, data : Value]
Running(id) == RunsSets /\ id = txn

Histories ==
  /\ written \in [TxnId -> Seq(Writes)]
  /\ \A id \in TxnId : id \notin txn_state => written[id] = <<>>
SetsHaveData == \A t \in Task : request[t].what = "set" => request[t].key \in Key /\ request[t].data \in Value

\* Until its commit, what a transaction will write is what its sets say, the newest last.
Waits(s, w) == Len(s) = Len(w) /\ \A i \in 1..Len(s) : w[Len(s) - i + 1] = WriteOf(s[i])
HeldBack == \A id \in txn_state : ~Running(id) => Waits(txn_msgs[id], written[id])

\* The records once the first n writes of w are made
Made(records, w, n) == Abstract!After(records, SubSeq(w, 1, n))
With(records, write) == [records EXCEPT ![write.key] = write.data]

\* While its commit runs, the rest of it is waiting, and the connection sees what has run;
\* a commit that is given up has run a part, and has a set that failed.
Ahead(s, w, n) == n \in Nat /\ Len(w) = n + Len(s) /\ \A i \in 1..Len(s) : w[n + i] = WriteOf(s[i])
RunBack ==
  /\ pc = "run" => \E n \in Nat :
       /\ Ahead(txn_msgs[txn], written[txn], n)
       /\ tdb_view = Made(seen, written[txn], n)
  /\ pc = "abort" =>
       /\ txn_error[txn]
       /\ \E n \in 0..Len(written[txn]) : tdb_view = Made(seen, written[txn], n)

\* What was seen before is what is on disk, unless an earlier commit left a tdb transaction open.
SeenBack ==
  /\ ~RunsSets => seen = tdb_view
  /\ RunsSets /\ tdb_depth = 1 => seen = tdb_data

Tracked == Histories /\ HeldBack /\ RunBack /\ SeenBack
RInv == Tracked /\ SetsHaveData
-----------------------------------------------------------------------------
(***************************************************************************)
(* Writes, made one after the other (txn_state_run).                       *)
(***************************************************************************)
\* The last of the writes for a key is there, if any is.
LEMMA LargestIndex ==
  ASSUME NEW n \in Nat, NEW T \in SUBSET (1..n), T # {}
  PROVE  \E i \in T : \A j \in T : j <= i
<1> DEFINE R == {p \in Nat \X Nat : p[1] < p[2]}
           U == {n - i : i \in T}
<1>1. IsWellFoundedOn(R, Nat)
  BY NatLessThanWellFounded DEF OpToRel
<1>2. U \subseteq Nat /\ U # {}
  <2>1. \A i \in T : i \in 1..n /\ n - i \in Nat
    OBVIOUS
  <2>2. PICK i \in T : TRUE
    OBVIOUS
  <2> QED BY <2>1, <2>2
<1>3. PICK x \in U : \A y \in U : ~(<<y, x>> \in R)
  <2> HIDE DEF R, U
  <2> QED BY <1>1, <1>2, WFMin
<1>4. \A y \in U : ~(y < x)
  BY <1>2, <1>3
<1>5. PICK i \in T : x = n - i
  BY <1>3
<1>6. \A j \in T : n - j \in U
  OBVIOUS
<1>7. ASSUME NEW j \in T PROVE j <= i
  <2>1. ~(n - j < n - i) /\ n - j \in Nat
    BY <1>2, <1>4, <1>5, <1>6
  <2> QED BY <2>1
<1> QED BY <1>7

\* Making one write more changes its key, and nothing else.
LEMMA AfterOneMore ==
  ASSUME NEW c, NEW w \in Seq(Writes), NEW n \in Nat, n < Len(w)
  PROVE  Made(c, w, n + 1) = With(Made(c, w, n), w[n + 1])
<1> DEFINE v == SubSeq(w, 1, n)
           x == SubSeq(w, 1, n + 1)
           Naming(s, k) == {i \in 1..Len(s) : s[i].key = k}
           Newest(T) == CHOOSE i \in T : \A j \in T : j <= i
           Recorded(s, k) == IF Naming(s, k) = {} THEN c[k] ELSE s[Newest(Naming(s, k))].data
<1>1. /\ Len(v) = n /\ Len(x) = n + 1
      /\ \A i \in 1..n : v[i] = w[i] /\ x[i] = w[i]
      /\ x[n + 1] = w[n + 1]
  OBVIOUS
<1>2. \A s : Abstract!After(c, s) = [k \in Key |-> Recorded(s, k)]
  BY DEF Abstract!After
<1>3. ASSUME NEW k \in Key, w[n + 1].key = k PROVE Recorded(x, k) = w[n + 1].data
  <2>1. n + 1 \in Naming(x, k) /\ \A j \in Naming(x, k) : j <= n + 1
    BY <1>1, <1>3
  <2>2. \A i \in Naming(x, k) : (\A j \in Naming(x, k) : j <= i) => i = n + 1
    BY <1>1, <2>1
  <2>3. Newest(Naming(x, k)) = n + 1
    BY <2>1, <2>2
  <2>4. Naming(x, k) # {} /\ x[Newest(Naming(x, k))].data = w[n + 1].data
    BY <1>1, <2>1, <2>3
  <2> QED BY ONLY <2>4 DEF Recorded
<1>4. ASSUME NEW k \in Key, w[n + 1].key # k PROVE Recorded(x, k) = Recorded(v, k)
  <2>1. Naming(x, k) = Naming(v, k) /\ Naming(v, k) \in SUBSET (1..n)
    BY <1>1, <1>4
  <2>2. CASE Naming(v, k) = {}
    BY ONLY <2>1, <2>2 DEF Recorded
  <2>3. CASE Naming(v, k) # {}
    <3>1. \E i \in Naming(v, k) : \A j \in Naming(v, k) : j <= i
      <4> HIDE DEF Naming
      <4> QED BY <2>1, <2>3, LargestIndex
    <3>2. Newest(Naming(v, k)) \in Naming(v, k)
      BY <3>1
    <3>3. Newest(Naming(v, k)) \in 1..n
      BY <2>1, <3>2
    <3>4. v[Newest(Naming(v, k))] = x[Newest(Naming(x, k))]
      BY <1>1, <2>1, <3>3
    <3> HIDE DEF v, x, Naming, Newest
    <3> QED BY ONLY <2>1, <2>3, <3>4 DEF Recorded
  <2> QED BY <2>2, <2>3
<1> HIDE DEF Recorded
<1>5. [k \in Key |-> Recorded(x, k)] = [[k \in Key |-> Recorded(v, k)] EXCEPT ![w[n + 1].key] = w[n + 1].data]
  BY ONLY <1>3, <1>4
<1> QED BY <1>2, <1>5 DEF v, x, Made, With

\* Making no write changes nothing, and making all is making the whole list.
LEMMA AfterNoneAll ==
  ASSUME NEW w \in Seq(Writes)
  PROVE  /\ \A c \in Content : Made(c, w, 0) = c
         /\ \A c : Made(c, w, Len(w)) = Abstract!After(c, w)
<1>1. ASSUME NEW c \in Content PROVE Made(c, w, 0) = c
  <2>1. Len(SubSeq(w, 1, 0)) = 0
    OBVIOUS
  <2>2. \A k : {i \in 1..Len(SubSeq(w, 1, 0)) : SubSeq(w, 1, 0)[i].key = k} = {}
    BY <2>1
  <2>3. Abstract!After(c, SubSeq(w, 1, 0)) = [k \in Key |-> c[k]]
    BY <2>2 DEF Abstract!After
  <2> QED BY <2>3 DEF Content, Made
<1>2. SubSeq(w, 1, Len(w)) = w
  OBVIOUS
<1> QED BY <1>1, <1>2 DEF Made
-----------------------------------------------------------------------------
(***************************************************************************)
(* Lists of deferred sets, newest first until the commit reverses them.    *)
(***************************************************************************)
\* A set that is deferred is the newest and will be the last.
LEMMA WaitsCons ==
  ASSUME NEW s \in Seq(Task), NEW w \in Seq(Writes), NEW t \in Task, WriteOf(t) \in Writes, Waits(s, w)
  PROVE  Waits(Cons(t, s), Append(w, WriteOf(t)))
<1> DEFINE n == Len(s)
           r == Cons(t, s)
           v == Append(w, WriteOf(t))
<1>1. /\ n \in Nat /\ Len(w) = n /\ Len(r) = n + 1 /\ Len(v) = n + 1
      /\ r[1] = t /\ v[n + 1] = WriteOf(t)
      /\ \A i \in 1..n : v[i] = w[i] /\ w[n - i + 1] = WriteOf(s[i])
  BY DEF Waits, Cons
<1>2. \A i \in 2..(n + 1) : r[i] = s[i - 1]
  BY DEF Cons
<1> HIDE DEF n, r, v
<1>3. ASSUME NEW i \in 1..(n + 1) PROVE v[(n + 1) - i + 1] = WriteOf(r[i])
  <2>1. CASE i = 1
    <3>1. (n + 1) - i + 1 = n + 1
      BY <1>1, <2>1
    <3> QED BY <1>1, <2>1, <3>1
  <2>2. CASE i # 1
    <3>1. /\ i \in 2..(n + 1) /\ i - 1 \in 1..n
          /\ (n + 1) - i + 1 = n - (i - 1) + 1 /\ n - (i - 1) + 1 \in 1..n
      BY <1>1, <2>2
    <3>2. r[i] = s[i - 1] /\ w[n - (i - 1) + 1] = WriteOf(s[i - 1])
      BY <1>1, <1>2, <3>1
    <3> QED BY <1>1, <3>1, <3>2
  <2> QED BY <2>1, <2>2
<1>4. Len(r) = Len(v) /\ \A i \in 1..Len(r) : v[Len(r) - i + 1] = WriteOf(r[i])
  BY <1>1, <1>3
<1> QED BY <1>4 DEF Waits, r, v

\* Reversed, the list is what will be written, in order.
LEMMA WaitsReversed ==
  ASSUME NEW s \in Seq(Task), NEW w, Waits(s, w)
  PROVE  Ahead(Reverse(s), w, 0)
<1> DEFINE n == Len(s)
           r == Reverse(s)
<1>1. n \in Nat /\ Len(w) = n /\ Len(r) = n /\ \A i \in 1..n : r[i] = s[n - i + 1] /\ w[n - i + 1] = WriteOf(s[i])
  BY DEF Waits, Reverse
<1> HIDE DEF n, r
<1>2. ASSUME NEW i \in 1..n PROVE w[0 + i] = WriteOf(r[i])
  <2>1. n - i + 1 \in 1..n /\ n - (n - i + 1) + 1 = i /\ 0 + i = i
    BY <1>1
  <2>2. r[i] = s[n - i + 1] /\ w[n - (n - i + 1) + 1] = WriteOf(s[n - i + 1])
    BY <1>1, <2>1
  <2> QED BY <2>1, <2>2
<1>3. Len(w) = 0 + Len(r) /\ \A i \in 1..Len(r) : w[0 + i] = WriteOf(r[i])
  BY <1>1, <1>2
<1> QED BY <1>3 DEF Ahead, r

\* The first of what is ahead is run, and the rest is ahead.
LEMMA AheadRun ==
  ASSUME NEW s \in Seq(Task), s # <<>>, NEW w, NEW n, Ahead(s, w, n)
  PROVE  /\ n \in Nat /\ n < Len(w) /\ w[n + 1] = WriteOf(Head(s))
         /\ Ahead(Tail(s), w, n + 1)
<1>1. /\ n \in Nat /\ Len(w) = n + Len(s) /\ Len(s) \in Nat /\ Len(s) > 0
      /\ \A i \in 1..Len(s) : w[n + i] = WriteOf(s[i])
  BY DEF Ahead
<1>2. s[1] = Head(s) /\ Len(Tail(s)) = Len(s) - 1 /\ \A i \in 1..Len(Tail(s)) : Tail(s)[i] = s[i + 1]
  OBVIOUS
<1>3. ASSUME NEW i \in 1..Len(Tail(s)) PROVE w[(n + 1) + i] = WriteOf(Tail(s)[i])
  <2>1. i + 1 \in 1..Len(s) /\ n + (i + 1) = (n + 1) + i
    BY <1>1, <1>2
  <2>2. w[n + (i + 1)] = WriteOf(s[i + 1])
    BY <1>1, <2>1
  <2> QED BY <1>2, <2>1, <2>2
<1>4. 1 \in 1..Len(s) /\ n < Len(w) /\ n + 1 \in Nat /\ Len(w) = (n + 1) + Len(Tail(s))
  BY <1>1, <1>2
<1> QED BY <1>1, <1>2, <1>3, <1>4 DEF Ahead
-----------------------------------------------------------------------------
(***************************************************************************)
(* The requests, and the history of what is deferred.                      *)
(***************************************************************************)
\* Every set that is posted has a key and a value.
LEMMA DataStep ==
  ASSUME IInv, SetsHaveData, NEW t \in Task, Client(t) \/ Exclusive(t) \/ Concurrent(t) \/ Finish(t)
  PROVE  SetsHaveData'
<1>0. TypeOK
  BY DEF IInv
<1>1. ASSUME NEW r, Take(t, r), r.what = "set" => r.key \in Key /\ r.data \in Value
      PROVE  SetsHaveData'
  BY <1>0, <1>1 DEF Take, SetsHaveData, TypeOK
<1>2. CASE Client(t)
  BY <1>1, <1>2 DEF Client, Open, Close, CountKeys, Begin, Get, Set, Commit, Cancel, EndTxn, PostExclusive, PostConcurrent, Req
<1>3. CASE Finish(t)
  BY <1>0, <1>3 DEF Finish, SetsHaveData, TypeOK, Blank, Req
<1>4. CASE HandleTxnBegin(t)
  <2>1. request' = request \/ request' = [request EXCEPT ![t].txn = txn_seq']
    BY <1>4 DEF HandleTxnBegin
  <2>2. \A u \in Task : request'[u].what = request[u].what /\ request'[u].key = request[u].key
                        /\ request'[u].data = request[u].data
    <3>1. CASE request' = request
      BY <3>1
    <3>2. CASE request' = [request EXCEPT ![t].txn = txn_seq']
      BY <1>0, <3>2 DEF TypeOK, Request
    <3> QED BY <2>1, <3>1, <3>2
  <2> QED BY <2>2 DEF SetsHaveData
<1>5. CASE Concurrent(t) \/ HandleOpen(t) \/ HandleClose(t) \/ HandleSet(t) \/ HandleTxnCancel(t)
  <2>1. request' = request
    BY <1>5 DEF Concurrent, HandleGet, HandleCountKeys, Serve, HandleOpen, HandleClose, HandleSet, HandleTxnCancel
  <2> QED BY <2>1 DEF SetsHaveData
<1>6. CASE HandleTxnCommit(t)
  <2>1. request' = request
    BY <1>6 DEF HandleTxnCommit, ReceiveCommit, CommitClosed, CommitPostponed, CommitUnknown, CommitNotStarted, CommitStarted,
                TxnStateRun, CommitDone, CommitAborted, EndCommit, Run, Claim, Enter, tasks
  <2> QED BY <2>1 DEF SetsHaveData
<1> QED BY <1>2, <1>3, <1>4, <1>5, <1>6 DEF Exclusive

\* Nothing is remembered but what is deferred, and that of live transactions.
LEMMA NothingDeferred ==
  ASSUME Histories, Remember, txn_state' \subseteq TxnId, \A id \in TxnId : ~Deferring(id)
  PROVE  /\ Histories'
         /\ written' = [id \in TxnId |-> IF id \in txn_state' THEN written[id] ELSE <<>>]
         /\ txn_state' = txn_state => written' = written
<1>1. written' = [id \in TxnId |-> IF id \in txn_state' THEN written[id] ELSE <<>>]
  BY DEF Remember
<1>2. <<>> \in Seq(Writes)
  OBVIOUS
<1>3. Histories'
  BY <1>1, <1>2 DEF Histories
<1>4. txn_state' = txn_state => written' = written
  BY <1>1 DEF Histories
<1> QED BY <1>1, <1>3, <1>4

\* A list is no longer than before if it is the same, shortened or reversed.
LEMMA SameLists ==
  ASSUME TypeOK, txn_msgs' = txn_msgs
  PROVE  \A id \in TxnId : ~Deferring(id)
BY DEF TypeOK, Deferring

\* Dropping a transaction shortens its list and leaves the others.
LEMMA DroppedLists ==
  ASSUME TypeOK, NEW i, Drop(i)
  PROVE  /\ \A id \in TxnId : ~Deferring(id)
         /\ \A id \in TxnId : txn_msgs'[id] = IF id = i THEN <<>> ELSE txn_msgs[id]
         /\ txn_state' = txn_state \ {i} /\ txn_state' \subseteq TxnId
BY DEF TypeOK, Drop, Deferring
-----------------------------------------------------------------------------
(***************************************************************************)
(* The steps keep track of what each transaction will write.               *)
(***************************************************************************)
Held(u) == \E id \in TxnId : u \in ToSet(txn_msgs[id])
WaitsNext(id) ==
  /\ Len(txn_msgs'[id]) = Len(written'[id])
  /\ \A i \in 1..Len(txn_msgs'[id]) :
       written'[id][Len(txn_msgs'[id]) - i + 1] =
         [key |-> request'[txn_msgs'[id][i]].key, data |-> request'[txn_msgs'[id][i]].data]

\* A list that is not touched waits as it did.
LEMMA WaitsKept ==
  ASSUME HeldBack, NEW id \in txn_state, ~Running(id),
         txn_msgs'[id] = txn_msgs[id], written'[id] = written[id],
         \A i \in 1..Len(txn_msgs[id]) : /\ request'[txn_msgs[id][i]].key = request[txn_msgs[id][i]].key
                                         /\ request'[txn_msgs[id][i]].data = request[txn_msgs[id][i]].data
  PROVE  WaitsNext(id)
<1>1. Waits(txn_msgs[id], written[id])
  BY DEF HeldBack
<1> QED BY <1>1 DEF Waits, WaitsNext, WriteOf

\* The lists of the transactions that do not run are all there is to keep.
LEMMA HeldNext ==
  ASSUME \A id \in txn_state' : ~(RunsSets' /\ id = txn') => WaitsNext(id)
  PROVE  HeldBack'
BY DEF HeldBack, Running, Waits, WaitsNext, WriteOf

\* Where no commit runs, what is seen is what was seen.
LEMMA NoneRuns ==
  ASSUME Remember, pc' \in {"idle", "enter"}
  PROVE  RunBack' /\ SeenBack' /\ seen' = tdb_view'
BY DEF RunBack, SeenBack, RunsSets, Remember

\* Steps that leave the lists, and the tasks on them, alone.
LEMMA QuietHistory ==
  ASSUME IInv, Tracked, Remember, UNCHANGED <<txn, txn_state, txn_msgs>>,
         \A u \in Task : Held(u) => request'[u] = request[u],
         \/ pc' = pc /\ UNCHANGED <<tdb_data, tdb_view, tdb_depth, txn_error>>
         \/ pc \in {"idle", "enter"} /\ pc' \in {"idle", "enter"}
  PROVE  Tracked' /\ written' = written /\ (tdb_view' = tdb_view => seen' = seen)
<1>1. /\ txn_state \subseteq TxnId /\ txn_msgs \in [TxnId -> Seq(Task)] /\ TypeOK
      /\ RunsSets => txn \in txn_state
  BY DEF IInv, TdbTransactionOwned, TypeOK
<1>2. Histories' /\ written' = written
  BY <1>1, SameLists, NothingDeferred DEF Tracked
<1>3. \A id \in TxnId : \A i \in 1..Len(txn_msgs[id]) : request'[txn_msgs[id][i]] = request[txn_msgs[id][i]]
  BY <1>1 DEF Held, ToSet
<1>4. HeldBack'
  <2>1. ASSUME NEW id \in txn_state', ~(RunsSets' /\ id = txn') PROVE WaitsNext(id)
    <3>1. id \in txn_state /\ ~Running(id) /\ id \in TxnId
      BY <1>1, <2>1 DEF Running, RunsSets
    <3> QED BY <1>2, <1>3, <3>1, WaitsKept DEF Tracked
  <2> QED BY <2>1, HeldNext
<1>5. CASE pc' \in {"idle", "enter"} /\ pc \in {"idle", "enter"}
  <2>1. seen = tdb_view
    BY <1>5 DEF Tracked, SeenBack, RunsSets
  <2> QED BY <1>2, <1>4, <1>5, <2>1, NoneRuns DEF Tracked
<1>6. CASE pc' = pc /\ pc \in {"run", "abort"} /\ UNCHANGED <<tdb_data, tdb_view, tdb_depth, txn_error>>
  <2>1. seen' = seen
    BY <1>6 DEF Remember, RunsSets
  <2>2. SeenBack'
    BY <1>6, <2>1 DEF Tracked, SeenBack, RunsSets
  <2>3. /\ written' = written /\ txn' = txn /\ txn_msgs' = txn_msgs /\ txn_error' = txn_error /\ txn \in TxnId
        /\ \A i \in 1..Len(txn_msgs[txn]) : request'[txn_msgs[txn][i]] = request[txn_msgs[txn][i]]
    BY <1>1, <1>2, <1>3, <1>6 DEF RunsSets
  <2>4. RunBack'
    BY <1>6, <2>1, <2>3 DEF Tracked, RunBack, Ahead, WriteOf, Made
  <2> QED BY <1>2, <1>4, <2>1, <2>2, <2>4 DEF Tracked
<1>7. CASE pc' = pc /\ pc \notin {"run", "abort"}
  BY <1>5, <1>7, <1>1 DEF TypeOK
<1> QED BY <1>5, <1>6, <1>7

\* A transaction is over, and nothing of it is kept.
LEMMA EndHistory ==
  ASSUME IInv, Tracked, Remember, NEW i, Drop(i), request' = request, txn' = 0,
         pc' = "idle", ~Running(i) => txn = 0
  PROVE  Tracked' /\ seen' = tdb_view'
<1>1. txn_state \subseteq TxnId /\ txn_msgs \in [TxnId -> Seq(Task)] /\ Histories /\ HeldBack /\ TypeOK /\ 0 \notin TxnId
  BY DEF IInv, TypeOK, Tracked, TxnId
<1>2. /\ \A id \in TxnId : txn_msgs'[id] = IF id = i THEN <<>> ELSE txn_msgs[id]
      /\ txn_state' = txn_state \ {i}
  BY <1>1, DroppedLists
<1>3. Histories' /\ written' = [id \in TxnId |-> IF id \in txn_state' THEN written[id] ELSE <<>>]
  BY <1>1, DroppedLists, NothingDeferred
<1>4. HeldBack'
  <2>1. ASSUME NEW id \in txn_state' PROVE WaitsNext(id)
    <3>1. id \in txn_state /\ ~Running(id) /\ txn_msgs'[id] = txn_msgs[id] /\ written'[id] = written[id]
      BY <1>1, <1>2, <1>3 DEF Running
    <3> QED BY <1>1, <3>1, WaitsKept
  <2> QED BY <2>1, HeldNext
<1> QED BY <1>3, <1>4, NoneRuns DEF Tracked

\* A new transaction has written nothing.
LEMMA BeginHistory ==
  ASSUME IInv, TypeOK', CInv, Tracked, Remember, NEW t \in Task, StepBegun(t), tdb_view' = tdb_view
  PROVE  Tracked' /\ written' = written /\ seen' = seen
<1>1. /\ txn_state \subseteq TxnId /\ txn_msgs \in [TxnId -> Seq(Task)] /\ Histories /\ HeldBack /\ TypeOK
      /\ txn_state' \subseteq TxnId
  BY DEF IInv, TypeOK, Tracked
<1>2. /\ txn_state' = txn_state \cup {txn_seq + 1} /\ txn_msgs' = txn_msgs /\ txn_seq + 1 \in TxnId
      /\ pc = "idle" /\ pc' = "idle" /\ txn_seq + 1 \notin txn_state
  BY <1>1, BoundAssumption DEF StepBegun, FromPort, CInv, Ledger, Issued, TypeOK, TxnId
<1>3. Histories' /\ written' = [id \in TxnId |-> IF id \in txn_state' THEN written[id] ELSE <<>>]
  BY <1>1, SameLists, <1>2, NothingDeferred
<1>4. written' = written
  BY <1>1, <1>2, <1>3 DEF Histories
<1>5. txn_msgs[txn_seq + 1] = <<>> /\ written[txn_seq + 1] = <<>>
  BY <1>1, <1>2 DEF IInv, DeferredBelong, Histories
<1>6. \A u \in Task : request'[u].key = request[u].key /\ request'[u].data = request[u].data
  BY <1>1 DEF StepBegun, TypeOK, Request
<1>7. ASSUME NEW id \in txn_state' PROVE WaitsNext(id)
  <2>1. CASE id \in txn_state
    <3>1. \A i \in 1..Len(txn_msgs[id]) : txn_msgs[id][i] \in Task
      BY <1>1, <2>1
    <3>2. ~Running(id)
      BY <1>2 DEF Running, RunsSets
    <3> QED BY <1>1, <1>2, <1>4, <1>6, <2>1, <3>1, <3>2, WaitsKept
  <2>2. CASE id = txn_seq + 1
    BY <1>2, <1>4, <1>5, <2>2 DEF WaitsNext
  <2> QED BY <1>2, <2>1, <2>2
<1>8. HeldBack'
  BY <1>7, HeldNext
<1>9. seen = tdb_view
  BY <1>2 DEF Tracked, SeenBack, RunsSets
<1> QED BY <1>2, <1>3, <1>4, <1>8, <1>9, NoneRuns DEF Tracked

\* A set that is deferred is written after those before it.
LEMMA DeferHistory ==
  ASSUME IInv, RInv, Remember, NEW t \in Task, StepDeferred(t), tdb_view' = tdb_view
  PROVE  /\ Tracked' /\ seen' = seen
         /\ written' = [written EXCEPT ![request[t].txn] = Append(@, WriteOf(t))]
<1> DEFINE id == request[t].txn
<1>1. /\ txn_state \subseteq TxnId /\ txn_msgs \in [TxnId -> Seq(Task)] /\ Histories /\ HeldBack /\ TypeOK
      /\ id \in txn_state /\ id \in TxnId /\ request' = request /\ txn_state' = txn_state
      /\ txn_msgs' = [txn_msgs EXCEPT ![id] = Cons(t, @)] /\ pc = "idle" /\ pc' = "idle"
  BY DEF IInv, TypeOK, RInv, Tracked, StepDeferred, Kept, FromPort
<1>2. WriteOf(t) \in Writes
  BY DEF RInv, SetsHaveData, StepDeferred, IsSet, WriteOf, Writes
<1> HIDE DEF id
<1>3. /\ Len(txn_msgs'[id]) = Len(txn_msgs[id]) + 1 /\ Head(txn_msgs'[id]) = t /\ Len(txn_msgs[id]) \in Nat
      /\ txn_msgs'[id] = Cons(t, txn_msgs[id])
  BY <1>1 DEF Cons
<1>4. \A other \in TxnId : other # id => txn_msgs'[other] = txn_msgs[other] /\ ~Deferring(other)
  BY <1>1 DEF Deferring
<1>5. Deferring(id)
  BY <1>3 DEF Deferring
<1>6. written' = [other \in TxnId |-> IF other \in txn_state
                                      THEN IF other = id THEN Append(written[id], WriteOf(t)) ELSE written[other]
                                      ELSE <<>>]
  BY <1>1, <1>3, <1>4, <1>5 DEF Remember
<1>7. written' = [written EXCEPT ![id] = Append(@, WriteOf(t))]
  BY <1>1, <1>6 DEF Histories
<1>8. Histories'
  BY <1>1, <1>2, <1>7 DEF Histories
<1>9. ASSUME NEW other \in txn_state PROVE WaitsNext(other)
  <2>1. ~Running(other) /\ other \in TxnId
    BY <1>1 DEF Running, RunsSets
  <2>2. CASE other # id
    <3>1. txn_msgs'[other] = txn_msgs[other] /\ written'[other] = written[other]
      BY <1>1, <1>4, <1>6, <2>1, <2>2
    <3> QED BY <1>1, <2>1, <3>1, WaitsKept
  <2>3. CASE other = id
    <3>1. Waits(txn_msgs[id], written[id]) /\ txn_msgs[id] \in Seq(Task) /\ written[id] \in Seq(Writes)
      BY <1>1, <2>1, <2>3 DEF HeldBack, Histories
    <3>2. Waits(Cons(t, txn_msgs[id]), Append(written[id], WriteOf(t)))
      BY <1>2, <3>1, WaitsCons
    <3>3. written'[id] = Append(written[id], WriteOf(t))
      BY <1>1, <1>7 DEF Histories
    <3>4. Waits(txn_msgs'[id], written'[id])
      BY <1>3, <3>2, <3>3
    <3> QED BY <1>1, <2>3, <3>4 DEF Waits, WaitsNext, WriteOf
  <2> QED BY <2>2, <2>3
<1>10. HeldBack'
  BY <1>1, <1>9, HeldNext
<1>11. seen = tdb_view
  BY <1>1 DEF RInv, Tracked, SeenBack, RunsSets
<1> QED BY <1>1, <1>7, <1>8, <1>10, <1>11, NoneRuns DEF Tracked, id

\* What a running commit has yet to write, after a step.
AheadNext(n) ==
  /\ Len(written'[txn']) = n + Len(txn_msgs'[txn'])
  /\ \A i \in 1..Len(txn_msgs'[txn']) :
       written'[txn'][n + i] = [key |-> request'[txn_msgs'[txn'][i]].key, data |-> request'[txn_msgs'[txn'][i]].data]

\* The number of writes that have been made is what there is to know of a running commit.
LEMMA RunNext ==
  ASSUME pc' = "run", NEW n \in Nat, AheadNext(n), tdb_view' = Made(seen', written'[txn'], n)
  PROVE  RunBack'
BY DEF RunBack, Ahead, AheadNext, WriteOf, Made

\* Reversed, the list of a transaction is what its commit will write.
LEMMA StartHistory ==
  ASSUME IInv, Tracked, Remember, NEW t \in Task, StepStarted(t),
         UNCHANGED <<tdb_data, tdb_view>>, tdb_depth' = tdb_depth + 1
  PROVE  Tracked' /\ written' = written /\ seen' = seen
<1> DEFINE id == request[t].txn
<1>1. /\ txn_state \subseteq TxnId /\ txn_msgs \in [TxnId -> Seq(Task)] /\ Histories /\ HeldBack /\ TypeOK
      /\ id \in txn_state /\ id \in TxnId /\ request' = request /\ txn_state' = txn_state /\ txn' = id
      /\ txn_msgs' = [txn_msgs EXCEPT ![id] = Reverse(@)] /\ pc = "enter" /\ pc' = "run"
  BY DEF IInv, TypeOK, Tracked, StepStarted, Kept
<1> HIDE DEF id
<1>2. /\ txn_msgs[id] \in Seq(Task) /\ txn_msgs'[id] = Reverse(txn_msgs[id])
      /\ Len(txn_msgs'[id]) = Len(txn_msgs[id]) /\ Len(txn_msgs[id]) \in Nat
  BY <1>1 DEF Reverse
<1>3. \A other \in TxnId : other # id => txn_msgs'[other] = txn_msgs[other]
  BY <1>1
<1>4. \A other \in TxnId : ~Deferring(other)
  BY <1>1, <1>2, <1>3 DEF Deferring
<1>5. Histories' /\ written' = written
  BY <1>1, <1>4, NothingDeferred
<1>6. HeldBack'
  <2>1. ASSUME NEW other \in txn_state', ~(RunsSets' /\ other = txn') PROVE WaitsNext(other)
    <3>1. other \in txn_state /\ other # id /\ ~Running(other) /\ other \in TxnId
      BY <1>1, <2>1 DEF Running, RunsSets
    <3> QED BY <1>1, <1>3, <1>5, <3>1, WaitsKept
  <2> QED BY <2>1, HeldNext
<1>7. seen' = seen /\ seen = tdb_view /\ tdb_view \in Content
  BY <1>1 DEF Tracked, SeenBack, Remember, RunsSets, TypeOK
<1>8. SeenBack'
  <2>1. tdb_depth' = 1 => tdb_view = tdb_data
    BY <1>1 DEF IInv, TdbTransactionOwned, TypeOK
  <2> QED BY <1>1, <1>7, <2>1 DEF SeenBack, RunsSets
<1>9. RunBack'
  <2>1. Waits(txn_msgs[id], written[id]) /\ written[id] \in Seq(Writes)
    <3>1. ~Running(id)
      BY <1>1 DEF Running, RunsSets
    <3> QED BY <1>1, <3>1 DEF HeldBack, Histories
  <2>2. Ahead(Reverse(txn_msgs[id]), written[id], 0)
    BY <1>2, <2>1, WaitsReversed
  <2>3. AheadNext(0)
    BY <1>1, <1>2, <1>5, <2>2 DEF Ahead, AheadNext, WriteOf
  <2>4. Made(seen, written[id], 0) = seen
    BY <1>7, <2>1, AfterNoneAll
  <2>5. tdb_view' = Made(seen', written'[txn'], 0)
    BY <1>1, <1>5, <1>7, <2>4
  <2> QED BY <1>1, <2>3, <2>5, RunNext
<1> QED BY <1>5, <1>6, <1>7, <1>8, <1>9 DEF Tracked

\* One set after the other is run, and what has run is what the connection sees.
LEMMA RunHistory ==
  ASSUME IInv, RInv, Remember, NEW t \in Task, TxnStateRun(t), request' = request
  PROVE  Tracked' /\ written' = written /\ seen' = seen /\ UNCHANGED <<tdb_data, tdb_depth>>
<1> DEFINE old == txn_msgs[txn]
           new == txn_msgs'[txn]
           w == written[txn]
<1>1. /\ txn_state \subseteq TxnId /\ txn_msgs \in [TxnId -> Seq(Task)] /\ Histories /\ HeldBack /\ RunBack /\ TypeOK
      /\ txn \in txn_state /\ txn \in TxnId /\ txn' = txn /\ txn_state' = txn_state /\ txn_error \in [TxnId -> BOOLEAN]
      /\ pc = "run" /\ pc' \in {"run", "abort"} /\ tdb_depth > 0
      /\ txn_msgs' = [txn_msgs EXCEPT ![txn] = Tail(@)] /\ old # <<>> /\ t = Head(old)
  BY DEF IInv, TypeOK, TdbTransactionOwned, RunsSets, RInv, Tracked, TxnStateRun
<1>2. /\ old \in Seq(Task) /\ new = Tail(old) /\ Len(old) \in Nat /\ Len(old) > 0 /\ Len(new) = Len(old) - 1
  BY <1>1
<1>3. \A other \in TxnId : other # txn => txn_msgs'[other] = txn_msgs[other]
  BY <1>1
<1>4. \A other \in TxnId : ~Deferring(other)
  BY <1>1, <1>2, <1>3 DEF Deferring
<1>5. Histories' /\ written' = written
  BY <1>1, <1>4, NothingDeferred
<1>6. HeldBack'
  <2>1. ASSUME NEW other \in txn_state', ~(RunsSets' /\ other = txn') PROVE WaitsNext(other)
    <3>1. other \in txn_state /\ other # txn /\ ~Running(other) /\ other \in TxnId
      BY <1>1, <2>1 DEF Running, RunsSets
    <3> QED BY <1>1, <1>3, <1>5, <3>1, WaitsKept
  <2> QED BY <2>1, HeldNext
<1>7. UNCHANGED <<tdb_data, tdb_depth>>
  BY <1>1 DEF TxnStateRun, StoreData, TdbStore, tdb
<1>8. seen' = seen
  BY <1>1 DEF Remember, RunsSets
<1>9. SeenBack'
  BY <1>1, <1>7, <1>8 DEF RInv, Tracked, SeenBack, RunsSets
<1>10. RunBack'
  <2>1. PICK n \in Nat : Ahead(old, w, n) /\ tdb_view = Made(seen, w, n)
    BY <1>1 DEF RunBack
  <2>2. w \in Seq(Writes)
    BY <1>1 DEF Histories
  <2> HIDE DEF old, new, w
  <2>3. n < Len(w) /\ w[n + 1] = WriteOf(t) /\ Ahead(Tail(old), w, n + 1) /\ Len(w) \in Nat
    <3>1. old \in Seq(Task) /\ old # <<>> /\ Head(old) = t /\ Ahead(old, w, n)
      BY <1>1, <1>2, <2>1 DEF old
    <3>2. n \in Nat /\ n < Len(w) /\ w[n + 1] = WriteOf(Head(old)) /\ Ahead(Tail(old), w, n + 1)
      BY ONLY <3>1, AheadRun
    <3>3. Len(w) \in Nat
      BY <2>2
    <3> QED BY ONLY <3>1, <3>2, <3>3
  <2>4. request[t].what = "set" /\ request[t].txn = txn
    <3>1. t \in ToSet(old)
      BY <1>1, <1>2, TailList
    <3> QED BY <1>1, <3>1 DEF IInv, DeferredBelong, old
  <2>5. CASE TdbStore(request[t].key, request[t].data) /\ UNCHANGED txn_error
    <3>1. tdb_view' = With(tdb_view, w[n + 1])
      BY <2>3, <2>5 DEF TdbStore, WriteOf, With
    <3>2. tdb_view' = Made(seen, w, n + 1)
      <4>1. n \in Nat /\ w \in Seq(Writes) /\ n < Len(w)
        BY <2>2, <2>3
      <4>2. Made(seen, w, n + 1) = With(Made(seen, w, n), w[n + 1])
        BY ONLY <4>1, AfterOneMore
      <4> QED BY ONLY <2>1, <3>1, <4>2
    <3>3. CASE pc' = "run"
      <4>1. AheadNext(n + 1)
        BY <1>1, <1>2, <1>5, <2>3 DEF Ahead, AheadNext, WriteOf, new, w
      <4>2. tdb_view' = Made(seen', written'[txn'], n + 1)
        BY <1>1, <1>5, <1>8, <3>2 DEF w
      <4> QED BY <3>3, <4>1, <4>2, RunNext
    <3>4. CASE pc' = "abort"
      <4>1. txn_error'[txn']
        BY <1>1, <3>4 DEF TxnStateRun
      <4>2. n + 1 \in 0..Len(written'[txn']) /\ tdb_view' = Made(seen', written'[txn'], n + 1)
        BY <1>1, <1>5, <1>8, <2>3, <3>2 DEF w
      <4> QED BY <3>4, <4>1, <4>2 DEF RunBack, Made
    <3> QED BY <1>1, <3>3, <3>4
  <2>6. CASE Fail(t) /\ UNCHANGED tdb_view
    <3>1. txn_error'[txn] /\ pc' = "abort"
      BY <1>1, <2>4, <2>6 DEF Fail, Marked, TxnStateRun
    <3>2. n \in 0..Len(written'[txn']) /\ tdb_view' = Made(seen', written'[txn'], n)
      BY <1>1, <1>5, <1>8, <2>1, <2>3, <2>6 DEF w
    <3> QED BY <1>1, <3>1, <3>2 DEF RunBack, Made
  <2> QED BY <2>5, <2>6 DEF TxnStateRun, StoreData, tdb
<1> QED BY <1>5, <1>6, <1>7, <1>8, <1>9, <1>10 DEF Tracked
-----------------------------------------------------------------------------
(***************************************************************************)
(* Each step is one of the abstract store, or changes nothing it has.      *)
(***************************************************************************)
AbstractStep == Abstract!Next \/ UNCHANGED Abstract!vars

\* A tdb transaction stays open if nothing is begun, committed or closed.
LEMMA LooseKept ==
  ASSUME UNCHANGED <<tdb_depth, RunsSets>>
  PROVE  LeftOpen' = LeftOpen
BY DEF LeftOpen

\* Posting a request is asking the abstract store.
LEMMA PostRefines ==
  ASSUME IInv, RInv, Careful, Remember, NEW t \in Task, Client(t)
  PROVE  Tracked' /\ Abstract!Ask(t)
<1>0. TypeOK
  BY DEF IInv
<1>1. UNCHANGED <<storage, worker, tdb, result>>
  BY DEF Client, Open, Close, CountKeys, Begin, Get, Set, Commit, Cancel, EndTxn, PostExclusive, PostConcurrent, Take
<1>2. PICK r \in Request : /\ status[t] = "free" /\ status' = [status EXCEPT ![t] = "pending"]
                           /\ request' = [request EXCEPT ![t] = r]
  BY <1>0, ClientSteps DEF StepPosted
<1>3. \A u \in Task : Held(u) => request'[u] = request[u]
  BY <1>0, <1>2 DEF IInv, TasksAccounted, HeldWhilePending, Held, TypeOK
<1>4. Tracked' /\ written' = written /\ seen' = seen
  BY <1>1, <1>3, QuietHistory DEF RInv, storage, worker, tdb
<1>5. LeftOpen' = LeftOpen
  BY <1>1, LooseKept DEF worker, tdb, RunsSets
<1> QED BY <1>1, <1>2, <1>4, <1>5 DEF Abstract!Ask, Abstract!store, Abstract!txns, storage, tdb

\* Collecting an answer is releasing the request.
LEMMA FinishRefines ==
  ASSUME IInv, RInv, Remember, NEW t \in Task, Finish(t)
  PROVE  Tracked' /\ Abstract!Release(t)
<1>0. TypeOK
  BY DEF IInv
<1>1. UNCHANGED <<storage, worker, tdb>>
  BY DEF Finish
<1>2. /\ status[t] \in {"succeeded", "failed"} /\ status' = [status EXCEPT ![t] = "free"]
      /\ request' = [request EXCEPT ![t] = Blank] /\ result' = [result EXCEPT ![t] = NoValue]
      /\ Blank \in Request
  BY BoundAssumption DEF Finish, Blank, Req, Request, Message
<1>3. \A u \in Task : Held(u) => request'[u] = request[u]
  BY <1>0, <1>2 DEF IInv, TasksAccounted, HeldWhilePending, Held, TypeOK
<1>4. Tracked' /\ written' = written /\ seen' = seen
  BY <1>1, <1>3, QuietHistory DEF RInv, storage, worker, tdb
<1>5. LeftOpen' = LeftOpen
  BY <1>1, LooseKept DEF worker, tdb, RunsSets
<1> QED BY <1>1, <1>2, <1>4, <1>5 DEF Abstract!Release, Abstract!store, Abstract!txns, storage, tdb

\* A reader takes effect at once, on what the connection sees.
LEMMA ServeRefines ==
  ASSUME IInv, RInv, Remember, NEW t \in Task, Concurrent(t)
  PROVE  Tracked' /\ Abstract!Next
<1>0. /\ status[t] = "pending" /\ pc = "idle" /\ tdb_view = seen
  BY DEF Concurrent, HandleGet, HandleCountKeys, Serve, IInv, TasksAccounted, HeldWhilePending, RInv, Tracked, SeenBack, RunsSets
<1>1. UNCHANGED <<storage, worker, tdb_data, tdb_view, tdb_depth, request>>
  BY DEF Concurrent, HandleGet, HandleCountKeys, Serve
<1>2. Tracked' /\ written' = written /\ seen' = seen
  BY <1>1, QuietHistory DEF RInv, storage, worker
<1>3. UNCHANGED <<db_ctx, seen, tdb_data, txn_seq, txn_state, txn_error, txn_msgs, written, request>> /\ LeftOpen' = LeftOpen
  BY <1>1, <1>2, LooseKept DEF storage, worker, RunsSets
<1>4. CASE HandleGet(t)
  <2>1. request[t].what = "get"
    BY <1>4 DEF HandleGet, Serve
  <2>2. CASE Complete(t, "failed") /\ UNCHANGED result
    <3>1. Abstract!Refuse(t)
      BY <1>0, <1>3, <2>1, <2>2 DEF Abstract!Refuse, Abstract!Answer, Abstract!store, Abstract!txns, Complete
    <3> QED BY <1>2, <3>1 DEF Abstract!Next
  <2>3. CASE /\ db_ctx /\ tdb_view[request[t].key] # NoValue
             /\ result' = [result EXCEPT ![t] = tdb_view[request[t].key]] /\ Succeed(t)
    <3>1. Abstract!DoGet(t)
      BY <1>0, <1>3, <2>1, <2>3 DEF Abstract!DoGet, Abstract!Answer, Abstract!store, Abstract!txns, Succeed, Complete
    <3> QED BY <1>2, <3>1 DEF Abstract!Next
  <2> QED BY <1>4, <2>2, <2>3 DEF HandleGet
<1>5. CASE HandleCountKeys(t)
  <2>1. Abstract!DoCount(t)
    <3>1. request[t].what = "count" /\ status' = [status EXCEPT ![t] = "succeeded"]
      BY <1>5 DEF HandleCountKeys, Serve, Succeed, Complete
    <3>2. Present(tdb_view) = Cardinality({k \in Key : seen[k] # NoValue})
      BY <1>0 DEF Present
    <3>3. result' = [result EXCEPT ![t] = IF db_ctx THEN Cardinality({k \in Key : seen[k] # NoValue}) ELSE 0]
      BY <1>5, <3>2 DEF HandleCountKeys
    <3>4. \A S : Abstract!Cardinality(S) = Cardinality(S)
      BY DEF Abstract!Cardinality, Cardinality
    <3> QED BY <1>0, <1>3, <3>1, <3>3, <3>4 DEF Abstract!DoCount, Abstract!Answer, Abstract!store, Abstract!txns
  <2> QED BY <1>2, <2>1 DEF Abstract!Next
<1> QED BY <1>4, <1>5 DEF Concurrent

\* Failing a task whose transaction is not there marks none.
LEMMA FailsQuietly ==
  ASSUME TypeOK, NEW t \in Task, Fail(t), request[t].txn \notin txn_state
  PROVE  txn_error' = txn_error
BY DEF Fail, Marked, TypeOK

\* Opening and closing take effect at once, or are refused.
LEMMA OpenRefines ==
  ASSUME IInv, CInv, ErrorsFresh, RInv, Remember, NEW t \in Task, HandleOpen(t) \/ HandleClose(t)
  PROVE  Tracked' /\ Abstract!Next
<1>0. /\ TypeOK /\ txn = 0 /\ pc = "idle" /\ status[t] = "pending" /\ request[t].what \in {"open", "close"}
      /\ request[t].txn = 0 /\ 0 \notin txn_state /\ seen = tdb_view
      /\ ~db_ctx => txn_state = {} /\ txn_msgs = [i \in TxnId |-> <<>>] /\ tdb_depth = 0
  <2>1. pc = "idle" /\ status[t] = "pending" /\ request[t].what \in {"open", "close"}
    BY ReceiveSteps DEF HandleOpen, HandleClose, FromPort
  <2>2. ~db_ctx => txn_state = {} /\ txn_msgs = [i \in TxnId |-> <<>>] /\ tdb_depth = 0
    BY DEF IInv, TypeOK, ClosedIsClean, DeferredBelong
  <2>3. seen = tdb_view
    BY <2>1 DEF RInv, Tracked, SeenBack, RunsSets
  <2> QED BY <2>1, <2>2, <2>3 DEF IInv, TypeOK, TxnId, CInv, NoneCurrent, ErrorsFresh
<1>1. UNCHANGED <<txn_seq, txn, txn_state, txn_msgs, pc, request, result>>
  BY <1>0 DEF HandleOpen, HandleClose, worker
<1>2. Tracked' /\ written' = written /\ seen' = tdb_view'
  <2>1. Tracked' /\ written' = written
    BY <1>0, <1>1, QuietHistory DEF RInv
  <2> QED BY <1>0, <1>1, <2>1, NoneRuns
<1>3. {id \in txn_state' : txn_error'[id]} = {id \in txn_state : txn_error[id]}
  <2>1. CASE ~db_ctx \/ txn_state = {}
    BY <1>0, <1>1, <2>1
  <2>2. CASE db_ctx /\ txn_state # {}
    <3>1. txn_error' = txn_error
      BY <1>0, <2>2, FailsQuietly DEF HandleOpen, HandleClose
    <3> QED BY <1>1, <3>1
  <2> QED BY <2>1, <2>2
<1>4. CASE Complete(t, "failed") /\ db_ctx' = db_ctx /\ UNCHANGED tdb
  <2>1. UNCHANGED <<db_ctx, seen, tdb_data>> /\ LeftOpen' = LeftOpen
    BY <1>0, <1>1, <1>2, <1>4, LooseKept DEF tdb, RunsSets
  <2>2. Abstract!Refuse(t)
    BY <1>0, <1>1, <1>2, <1>3, <1>4, <2>1 DEF Abstract!Refuse, Abstract!Answer, Abstract!store, Abstract!txns, Complete
  <2> QED BY <1>2, <2>2 DEF Abstract!Next
<1>5. CASE HandleOpen(t) /\ ~db_ctx /\ TdbOpen /\ Succeed(t) /\ db_ctx' = TRUE
  <2>1. /\ tdb_data' \in {tdb_data} \cup (IF "O_TRUNC" \in StrayFlags THEN {Abstract!Nothing} ELSE {})
        /\ seen' = tdb_data'
    BY <1>2, <1>5 DEF TdbOpen, Empty, Abstract!Nothing
  <2>2. LeftOpen' = LeftOpen
    BY <1>1, <1>5, LooseKept DEF TdbOpen, RunsSets
  <2>3. request[t].what = "open"
    BY <1>5 DEF HandleOpen, Receive
  <2>4. Abstract!DoOpen(t)
    BY <1>0, <1>1, <1>2, <1>3, <1>5, <2>1, <2>2, <2>3 DEF Abstract!DoOpen, Abstract!Answer, Abstract!txns, Succeed, Complete
  <2> QED BY <1>2, <2>4 DEF Abstract!Next
<1>6. CASE /\ HandleClose(t) /\ db_ctx /\ txn_state = {} /\ TdbDiscards
           /\ \/ Complete(t, "failed") /\ UNCHANGED db_ctx
              \/ Succeed(t) /\ db_ctx' = FALSE
  <2>1. seen' = tdb_data /\ tdb_data' = tdb_data
    BY <1>2, <1>6 DEF TdbDiscards
  <2>2. LeftOpen' = FALSE
    BY <1>0, <1>1, <1>6 DEF TdbDiscards, LeftOpen, RunsSets
  <2>3. request[t].what = "close"
    BY <1>6 DEF HandleClose, Receive
  <2>4. Abstract!DoClose(t)
    BY <1>0, <1>1, <1>2, <1>3, <1>6, <2>1, <2>2, <2>3 DEF Abstract!DoClose, Abstract!Answer, Abstract!txns, Succeed, Complete
  <2> QED BY <1>2, <2>4 DEF Abstract!Next
<1> QED BY <1>4, <1>5, <1>6 DEF HandleOpen, HandleClose, Fail

\* A set is stored at once outside a transaction, and joins the write-set inside one.
LEMMA SetRefines ==
  ASSUME IInv, CInv, RInv, Remember, NEW t \in Task, HandleSet(t)
  PROVE  Tracked' /\ Abstract!Next
<1>0. /\ TypeOK /\ txn = 0 /\ FromPort(t) /\ request[t].what = "set" /\ 0 \notin txn_state
      /\ ~db_ctx => txn_state = {}
      /\ seen = tdb_view /\ t \in ToSet(ex_port)
  <2>1. FromPort(t) /\ request[t].what = "set"
    BY ReceiveSteps DEF HandleSet
  <2>2. TypeOK /\ txn = 0 /\ 0 \notin txn_state /\ (~db_ctx => txn_state = {}) /\ seen = tdb_view
    BY <2>1 DEF IInv, TypeOK, TxnId, CInv, NoneCurrent, ClosedIsClean, RInv, Tracked, SeenBack, RunsSets, FromPort
  <2>3. t \in ToSet(ex_port)
    BY <2>1, <2>2, TailList DEF FromPort, TypeOK
  <2> QED BY <2>1, <2>2, <2>3
<1>1. UNCHANGED <<db_ctx, txn_seq, txn, txn_state, pc, current, request, result, tdb_depth>> /\ LeftOpen' = LeftOpen
  <2>1. UNCHANGED <<db_ctx, txn_seq, txn, txn_state, pc, current, request, result>>
    BY DEF HandleSet, worker
  <2>2. tdb_depth' = tdb_depth
    BY DEF HandleSet, StoreData, TdbStore, tdb
  <2> QED BY <2>1, <2>2, LooseKept DEF RunsSets
<1>2. CASE txn_msgs' = txn_msgs
  <2>1. pc = "idle" /\ pc' = "idle" /\ request' = request
    BY <1>0, <1>1 DEF FromPort
  <2>2. Tracked' /\ written' = written /\ seen' = tdb_view'
    <3>1. Tracked' /\ written' = written
      BY <1>1, <1>2, <2>1, QuietHistory DEF RInv
    <3> QED BY <2>1, <3>1, NoneRuns
  <2>3. CASE Fail(t) /\ UNCHANGED <<tdb_data, tdb_view>> /\ request[t].txn \notin txn_state
    <3>1. txn_error' = txn_error
      BY <1>0, <2>3, FailsQuietly
    <3>2. UNCHANGED <<db_ctx, seen, tdb_data>> /\ LeftOpen' = LeftOpen
      BY <1>0, <1>1, <2>2, <2>3
    <3>3. Abstract!Refuse(t)
      BY <1>0, <1>1, <1>2, <2>2, <2>3, <3>1, <3>2 DEF Abstract!Refuse, Abstract!Answer, Abstract!store, Abstract!txns, Fail, Complete,
                                               FromPort
    <3> QED BY <2>2, <3>3 DEF Abstract!Next
  <2>4. CASE /\ db_ctx /\ request[t].txn = 0 /\ TdbStore(request[t].key, request[t].data) /\ Succeed(t)
             /\ txn_error' = txn_error
    <3>1. seen' = [seen EXCEPT ![request[t].key] = request[t].data]
      BY <1>0, <2>2, <2>4 DEF TdbStore
    <3>2. tdb_data' = IF tdb_depth > 0 THEN tdb_data ELSE seen'
      BY <2>2, <2>4 DEF TdbStore
    <3>3. LeftOpen <=> tdb_depth > 0
      BY <2>1 DEF LeftOpen, RunsSets
    <3>4. Abstract!Save
      BY <3>2, <3>3 DEF Abstract!Save
    <3>5. Abstract!DoSet(t)
      BY <1>0, <1>1, <1>2, <2>2, <2>4, <3>1, <3>4 DEF Abstract!DoSet, Abstract!Answer, Abstract!txns, Succeed, Complete, FromPort
    <3> QED BY <2>2, <3>5 DEF Abstract!Next
  <2>5. \/ Fail(t) /\ UNCHANGED <<tdb_data, tdb_view>> /\ request[t].txn \notin txn_state
        \/ /\ db_ctx /\ request[t].txn = 0 /\ TdbStore(request[t].key, request[t].data) /\ Succeed(t)
           /\ txn_error' = txn_error
    <3>1. txn_msgs[request[t].txn] \in Seq(Task) => Len(Cons(t, txn_msgs[request[t].txn])) = Len(txn_msgs[request[t].txn]) + 1
      BY DEF Cons
    <3>2. ASSUME request[t].txn \in txn_state, txn_msgs' = [txn_msgs EXCEPT ![request[t].txn] = Cons(t, @)] PROVE FALSE
      <4>1. request[t].txn \in TxnId /\ txn_msgs[request[t].txn] \in Seq(Task)
        BY <1>0, <3>2 DEF TypeOK
      <4>2. txn_msgs[request[t].txn] = Cons(t, txn_msgs[request[t].txn])
        BY <1>0, <1>2, <3>2, <4>1 DEF TypeOK
      <4> QED BY <3>1, <4>1, <4>2
    <3> QED BY <1>0, <3>2 DEF HandleSet, Deferred, StoreData, tdb
  <2> QED BY <2>3, <2>4, <2>5
<1>3. CASE StepDeferred(t) /\ UNCHANGED <<txn_error, tdb>>
  <2> DEFINE id == request[t].txn
  <2>1. Tracked' /\ seen' = seen /\ tdb_data' = tdb_data /\ written' = [written EXCEPT ![id] = Append(@, WriteOf(t))]
    BY <1>3, DeferHistory DEF tdb
  <2>2. id \in txn_state /\ id \in TxnId /\ status[t] = "pending" /\ UNCHANGED status
    BY <1>0, <1>3 DEF StepDeferred, FromPort, TypeOK
  <2>3. t \notin ToSet(txn_msgs[id])
    BY <1>0, <2>2 DEF IInv, TasksAccounted, HeldOnce
  <2>4. [i \in TxnId |-> ToSet(txn_msgs'[i])] = [[i \in TxnId |-> ToSet(txn_msgs[i])] EXCEPT ![id] = @ \cup {t}]
    <3>1. txn_msgs' = [txn_msgs EXCEPT ![id] = Cons(t, txn_msgs[id])] /\ txn_msgs[id] \in Seq(Task)
      BY <1>0, <1>3, <2>2 DEF StepDeferred, TypeOK
    <3>2. ToSet(Cons(t, txn_msgs[id])) = ToSet(txn_msgs[id]) \cup {t}
      BY <3>1, ConsList
    <3> QED BY <1>0, <2>2, <3>1, <3>2 DEF TypeOK
  <2>5. Abstract!Join(t)
    BY <1>0, <1>1, <1>3, <2>1, <2>2, <2>3, <2>4 DEF Abstract!Join, Abstract!store, WriteOf
  <2> QED BY <2>1, <2>5 DEF Abstract!Next
<1>4. txn_msgs' = txn_msgs \/ (StepDeferred(t) /\ UNCHANGED <<txn_error, tdb>>)
  <2>1. txn_msgs' = txn_msgs \/ (/\ Deferred(t) /\ request[t].txn \in txn_state
                                /\ txn_msgs' = [txn_msgs EXCEPT ![request[t].txn] = Cons(t, @)]
                                /\ UNCHANGED <<txn_error, status, tdb>>)
    BY <1>0 DEF HandleSet
  <2>2. handed' = handed /\ txn_commits' = txn_commits
    BY DEF HandleSet, Receive
  <2> QED BY <1>0, <1>1, <2>1, <2>2 DEF StepDeferred, Kept, IsSet, Deferred
<1> QED BY <1>2, <1>3, <1>4
\* A begin gives out an id that was never issued.
LEMMA BeginRefines ==
  ASSUME IInv, TypeOK', CInv, ErrorsFresh, RInv, Remember, NEW t \in Task, HandleTxnBegin(t)
  PROVE  Tracked' /\ Abstract!Next
<1>0. TypeOK /\ FromPort(t) /\ request[t].what = "begin" /\ handed' = handed
  BY ReceiveSteps DEF HandleTxnBegin, IInv
<1>1. /\ UNCHANGED <<db_ctx, txn, txn_commits, txn_msgs, pc, current, tdb_data, tdb_view, tdb_depth, result, txn_error>>
      /\ LeftOpen' = LeftOpen
  <2>1. UNCHANGED <<db_ctx, txn, txn_commits, txn_msgs, pc, current, tdb_data, tdb_view, tdb_depth, result, txn_error>>
    BY DEF HandleTxnBegin, worker, tdb
  <2> QED BY <2>1, LooseKept DEF RunsSets
<1>2. CASE ~db_ctx /\ Complete(t, "failed") /\ UNCHANGED <<txn_seq, txn_state, request>>
  <2>1. Tracked' /\ written' = written /\ seen' = seen
    BY <1>1, <1>2, QuietHistory DEF RInv
  <2>2. Abstract!Refuse(t)
    BY <1>0, <1>1, <1>2, <2>1 DEF Abstract!Refuse, Abstract!Answer, Abstract!store, Abstract!txns, Complete, FromPort
  <2> QED BY <2>1, <2>2 DEF Abstract!Next
<1>3. CASE db_ctx /\ txn_seq' = txn_seq + 1 /\ txn_state' = txn_state \cup {txn_seq'}
           /\ request' = [request EXCEPT ![t].txn = txn_seq'] /\ Succeed(t)
  <2> DEFINE id == txn_seq + 1
  <2>1. StepBegun(t)
    BY <1>0, <1>1, <1>3 DEF StepBegun, Answers, Succeed, Complete, FromPort
  <2>2. Tracked' /\ written' = written /\ seen' = seen
    BY <1>1, <2>1, BeginHistory DEF RInv
  <2>3. txn_seq \in Nat /\ id \in TxnId /\ id \notin 1..txn_seq /\ 1..id = (1..txn_seq) \cup {id}
    <3>1. txn_seq \in Nat /\ id \in 0..MaxTxn
      BY <1>0, <1>3, BoundAssumption DEF TypeOK
    <3> QED BY <3>1 DEF TxnId
  <2>4. {i \in txn_state' : txn_error'[i]} = {i \in txn_state : txn_error[i]}
    <3>1. ~txn_error[id]
      BY <1>0, <2>3 DEF ErrorsFresh, FromPort
    <3> QED BY <1>1, <1>3, <3>1
  <2>5. /\ 1..txn_seq' = (1..txn_seq) \cup {id}
        /\ txn_state' = txn_state \cup {id}
        /\ request' = [request EXCEPT ![t].txn = id]
    BY <1>3, <2>3
  <2>6. status[t] = "pending" /\ request[t].what = "begin" /\ status' = [status EXCEPT ![t] = "succeeded"]
    BY <1>0, <1>3 DEF FromPort, Succeed, Complete
  <2> HIDE DEF id
  <2>7. Abstract!DoBegin(t)
    BY <1>1, <1>3, <2>2, <2>3, <2>4, <2>5, <2>6 DEF Abstract!DoBegin, Abstract!Answer, Abstract!store, TxnId
  <2> QED BY <2>2, <2>7 DEF Abstract!Next
<1> QED BY <1>2, <1>3 DEF HandleTxnBegin

\* Dropping a transaction ends it: nothing of it is left in the abstract store.
LEMMA DropEnds ==
  ASSUME TypeOK, RInv, Remember, NEW i \in TxnId, Drop(i), UNCHANGED <<txn_seq, db_ctx, request, result>>
  PROVE  Abstract!End(i)
<1>1. /\ \A id \in TxnId : ~Deferring(id)
      /\ \A id \in TxnId : txn_msgs'[id] = IF id = i THEN <<>> ELSE txn_msgs[id]
      /\ txn_state' = txn_state \ {i} /\ txn_state' \subseteq TxnId
  BY DroppedLists
<1>2. written' = [id \in TxnId |-> IF id \in txn_state' THEN written[id] ELSE <<>>]
  BY <1>1, NothingDeferred DEF RInv, Tracked
<1>3. written' = [id \in TxnId |-> IF id = i THEN <<>> ELSE written[id]]
  BY <1>1, <1>2 DEF RInv, Tracked, Histories
<1>4. [id \in TxnId |-> ToSet(txn_msgs'[id])] = [id \in TxnId |-> IF id = i THEN {} ELSE ToSet(txn_msgs[id])]
  BY <1>1, EmptyList
<1>5. {id \in txn_state' : txn_error'[id]} = {id \in txn_state : txn_error[id]} \ {i}
  BY DEF Drop, TypeOK
<1> QED BY <1>1, <1>3, <1>4, <1>5 DEF Abstract!End, TxnId

\* A cancel ends its transaction and what it has written.
LEMMA CancelRefines ==
  ASSUME IInv, CInv, RInv, Remember, NEW t \in Task, HandleTxnCancel(t)
  PROVE  Tracked' /\ Abstract!Next
<1>0. TypeOK /\ FromPort(t) /\ request[t].what = "cancel"
  BY ReceiveSteps DEF HandleTxnCancel, IInv
<1>1. db_ctx /\ request[t].txn \in txn_state /\ request[t].txn \in TxnId
  BY <1>0, EndsFind DEF IsEnd, FromPort, TypeOK
<1>2. /\ UNCHANGED <<db_ctx, txn_seq, txn, pc, tdb_data, tdb_view, tdb_depth, request, result>>
      /\ Drop(request[t].txn) /\ Succeed(t)
  BY <1>1 DEF HandleTxnCancel, worker, tdb
<1>3. txn = 0 /\ pc = "idle"
  BY <1>0 DEF CInv, NoneCurrent, FromPort
<1>4. Tracked' /\ seen' = seen /\ LeftOpen' = LeftOpen
  <2>1. Tracked' /\ seen' = tdb_view'
    BY <1>2, <1>3, EndHistory DEF RInv
  <2>2. seen = tdb_view
    BY <1>3 DEF RInv, Tracked, SeenBack, RunsSets
  <2> QED BY <1>2, <2>1, <2>2, LooseKept DEF RunsSets
<1>5. Abstract!End(request[t].txn)
  <2>1. TypeOK /\ UNCHANGED <<txn_seq, db_ctx, request, result>>
    BY <1>0, <1>2
  <2>2. \A i \in TxnId : Drop(i) => Abstract!End(i)
    BY <2>1, DropEnds
  <2> QED BY <1>1, <1>2, <2>2 DEF Drop, Abstract!End
<1>6. Abstract!DoCancel(t)
  BY <1>0, <1>2, <1>4, <1>5 DEF Abstract!DoCancel, Abstract!Answer, FromPort, Succeed, Complete
<1> QED BY <1>4, <1>6 DEF Abstract!Next
\* Running a deferred set answers it; nobody sees what it stores yet.
LEMMA RunRefines ==
  ASSUME IInv, CInv, RInv, Remember, NEW t \in Task, TxnStateRun(t)
  PROVE  Tracked' /\ Abstract!Next
<1> DEFINE old == txn_msgs[txn]
<1>0. /\ TypeOK /\ txn \in txn_state /\ txn \in TxnId /\ old \in Seq(Task) /\ old # <<>> /\ t = Head(old)
      /\ current \in Task /\ status[current] = "pending" /\ request[current].what = "commit" /\ request[current].txn = txn
  BY DEF IInv, CInv, TypeOK, TdbTransactionOwned, RunsSets, TasksAccounted, HeldWhilePending, NoneCurrent, TxnStateRun
<1>1. /\ UNCHANGED <<db_ctx, txn_seq, txn_state, request, result>>
      /\ txn_msgs' = [txn_msgs EXCEPT ![txn] = Tail(@)]
      /\ StoreData(t)
  BY DEF TxnStateRun
<1>2. Tracked' /\ written' = written /\ UNCHANGED <<seen, tdb_data, tdb_depth>>
  BY <1>1, RunHistory
<1>3. t \in ToSet(old) /\ ToSet(Tail(old)) = ToSet(old) \ {t}
  BY <1>0, TailList DEF IInv, TasksAccounted, HeldOnce
<1>4. request[t].what = "set" /\ request[t].txn = txn /\ status[t] = "pending"
  BY <1>0, <1>3 DEF IInv, DeferredBelong, TasksAccounted, HeldWhilePending
<1>5. [i \in TxnId |-> ToSet(txn_msgs'[i])] = [[i \in TxnId |-> ToSet(txn_msgs[i])] EXCEPT ![txn] = @ \ {t}]
  <2>1. \A i \in TxnId : txn_msgs'[i] = IF i = txn THEN Tail(old) ELSE txn_msgs[i]
    BY <1>0, <1>1 DEF TypeOK
  <2> QED BY <1>0, <1>3, <2>1
<1>6. LeftOpen' = LeftOpen
  BY <1>2, LooseKept DEF TxnStateRun, RunsSets
<1>7. CASE Succeed(t) /\ UNCHANGED txn_error
  <2>1. Abstract!AnswerJoined(t)
    BY <1>0, <1>1, <1>2, <1>3, <1>4, <1>5, <1>6, <1>7
       DEF Abstract!AnswerJoined, Abstract!Answer, Abstract!store, Succeed, Complete
  <2> QED BY <1>2, <2>1 DEF Abstract!Next
<1>8. CASE Fail(t)
  <2>1. {i \in txn_state' : txn_error'[i]} = {i \in txn_state : txn_error[i]} \cup {txn}
    BY <1>0, <1>1, <1>4, <1>8 DEF Fail, Marked, TypeOK
  <2>2. Abstract!AnswerJoined(t)
    BY <1>0, <1>1, <1>2, <1>3, <1>4, <1>5, <1>6, <1>8, <2>1
       DEF Abstract!AnswerJoined, Abstract!Answer, Abstract!store, Fail, Complete
  <2> QED BY <1>2, <2>2 DEF Abstract!Next
<1> QED BY <1>1, <1>7, <1>8 DEF StoreData

\* The sets of a transaction become visible together, when its commit succeeds;
\* if one fails instead, those before it may.
LEMMA EndRefines ==
  ASSUME IInv, CInv, ErrorsFresh, RInv, Remember, NEW t \in Task, CommitDone(t) \/ CommitAborted(t)
  PROVE  Tracked' /\ Abstract!Next
<1> DEFINE w == written[txn]
<1>0. /\ TypeOK /\ pc \in {"run", "abort"} /\ t = current /\ txn \in txn_state /\ txn \in TxnId
      /\ status[t] = "pending" /\ request[t].what = "commit" /\ request[t].txn = txn
      /\ tdb_depth \in Nat /\ tdb_depth > 0
  <2>1. pc \in {"run", "abort"} /\ t = current
    BY DEF CommitDone, CommitAborted, Failing
  <2> QED BY <2>1 DEF IInv, CInv, TypeOK, TdbTransactionOwned, RunsSets, TasksAccounted, HeldWhilePending, NoneCurrent
<1>1. /\ Drop(txn) /\ txn' = 0 /\ pc' = "idle"
      /\ UNCHANGED <<db_ctx, txn_seq, request, result>>
  <2>1. EndCommit /\ txn_commits = <<>>
    BY DEF CommitDone, CommitAborted, CInv, NoneCurrent
  <2> QED BY <2>1 DEF EndCommit, NextCommit, Return
<1>2. Tracked' /\ seen' = tdb_view'
  <2>1. Running(txn)
    BY <1>0 DEF Running, RunsSets
  <2> QED BY <1>1, <2>1, EndHistory DEF RInv
<1>3. (LeftOpen <=> tdb_depth > 1) /\ (LeftOpen' <=> tdb_depth' > 0)
  BY <1>0, <1>1 DEF LeftOpen, RunsSets
<1>4. Abstract!End(txn)
  <2>1. TypeOK /\ UNCHANGED <<txn_seq, db_ctx, request, result>>
    BY <1>0, <1>1
  <2>2. \A i \in TxnId : Drop(i) => Abstract!End(i)
    BY <2>1, DropEnds
  <2> QED BY <1>0, <1>1, <2>2 DEF Drop, Abstract!End
<1>5. w \in Seq(Writes) /\ Len(w) \in Nat
  BY <1>0 DEF RInv, Tracked, Histories
<1>6. ASSUME pc = "run", txn_msgs[txn] = <<>>
      PROVE  ~txn_error[txn] /\ tdb_view = Made(seen, w, Len(w))
  <2>1. ~txn_error[txn]
    BY <1>0, <1>6 DEF ErrorsFresh
  <2>2. PICK n \in Nat : Ahead(<<>>, w, n) /\ tdb_view = Made(seen, w, n)
    BY <1>6 DEF RInv, Tracked, RunBack
  <2>3. Len(w) = n
    BY <2>2 DEF Ahead
  <2> QED BY <2>1, <2>2, <2>3
<1>7. CASE CommitDone(t)
  <2>1. pc = "run" /\ txn_msgs[txn] = <<>> /\ TdbCommits /\ status' = [status EXCEPT ![t] = "succeeded"]
    BY <1>7 DEF CommitDone, Succeed, Complete
  <2>2. ~txn_error[txn] /\ [i \in TxnId |-> ToSet(txn_msgs[i])][txn] = {}
    BY <1>0, <1>6, <2>1, EmptyList
  <2>3. seen' = Abstract!After(seen, w)
    <3>1. tdb_view' = Made(seen, w, Len(w))
      BY <1>6, <2>1 DEF TdbCommits
    <3> HIDE DEF w
    <3> QED BY <1>2, <1>5, <3>1, AfterNoneAll
  <2>4. Abstract!Save
    <3>1. tdb_data' = IF tdb_depth = 1 THEN seen' ELSE tdb_data
      BY <1>2, <2>1 DEF TdbCommits
    <3>2. ~LeftOpen <=> tdb_depth = 1
      BY <1>0, <1>3
    <3> QED BY <3>1, <3>2 DEF Abstract!Save
  <2>5. LeftOpen' = LeftOpen
    BY <1>0, <1>1, <2>1 DEF TdbCommits, LeftOpen, RunsSets
  <2>6. Abstract!DoCommit(t)
    BY <1>0, <1>4, <2>1, <2>2, <2>3, <2>4, <2>5 DEF Abstract!DoCommit, Abstract!Answer, Abstract!End
  <2> QED BY <1>2, <2>6 DEF Abstract!Next
<1>8. CASE CommitAborted(t)
  <2>1. Failing(t) /\ status' = [status EXCEPT ![t] = "failed"] /\ tdb_data' = tdb_data
    BY <1>8 DEF CommitAborted, Failing, TdbRecovers, TdbCommitFails, TdbDiscards, Complete, tdb
  <2>2. CASE pc = "run" /\ txn_msgs[txn] = <<>> /\ tdb_depth = 1 /\ TdbDiscards
    <3>1. ~LeftOpen /\ LeftOpen' = LeftOpen
      BY <1>1, <2>2 DEF TdbDiscards, LeftOpen, RunsSets
    <3>2. seen' = seen
      BY <1>0, <1>2, <2>2 DEF TdbDiscards, RInv, Tracked, SeenBack, RunsSets
    <3>3. txn \notin {id \in txn_state : txn_error[id]}
      BY <1>6, <2>2
    <3>4. Abstract!FailCommit(t)
      BY <1>0, <1>4, <2>1, <3>1, <3>2, <3>3 DEF Abstract!FailCommit, Abstract!Answer, Abstract!End
    <3> QED BY <1>2, <3>4 DEF Abstract!Next
  <2>3. CASE pc = "abort" \/ tdb_depth > 1
    <3>1. \/ pc = "abort" /\ UNCHANGED tdb
          \/ pc = "run" /\ txn_msgs[txn] = <<>> /\ tdb_depth' = tdb_depth - 1 /\ tdb_view' = tdb_view
      BY <1>0, <2>1, <2>3 DEF Failing, TdbRecovers, TdbCommitFails
    <3>2. LeftOpen' = TRUE
      BY <1>0, <1>3, <2>3, <3>1 DEF tdb
    <3>3. txn \in {id \in txn_state : txn_error[id]} \/ LeftOpen
      BY <1>0, <1>3, <2>3 DEF RInv, Tracked, RunBack
    <3>4. \E n \in 0..Len(w) : seen' = Abstract!After(seen, SubSeq(w, 1, n))
      <4>1. CASE pc = "abort"
        <5>1. PICK n \in 0..Len(w) : tdb_view = Made(seen, w, n)
          BY <4>1 DEF RInv, Tracked, RunBack
        <5> QED BY <1>2, <3>1, <4>1, <5>1 DEF Made, tdb
      <4>2. CASE pc = "run"
        <5>1. tdb_view = Made(seen, w, Len(w)) /\ Len(w) \in 0..Len(w) /\ tdb_view' = tdb_view
          BY <1>5, <1>6, <3>1, <4>2
        <5> QED BY <1>2, <5>1 DEF Made
      <4> QED BY <1>0, <4>1, <4>2
    <3>5. Abstract!FailCommit(t)
      BY <1>0, <1>4, <2>1, <3>2, <3>3, <3>4 DEF Abstract!FailCommit, Abstract!Answer, Abstract!End
    <3> QED BY <1>2, <3>5 DEF Abstract!Next
  <2> QED BY <1>0, <2>1, <2>2, <2>3 DEF Failing, TdbCommitFails
<1> QED BY <1>7, <1>8

\* Receiving a commit, and starting it, are not seen by the clients.
LEMMA CommitRefines ==
  ASSUME IInv, CInv, ErrorsFresh, RInv, Careful, Remember, NEW t \in Task, HandleTxnCommit(t)
  PROVE  Tracked' /\ AbstractStep
<1>0. TypeOK
  BY DEF IInv
<1>1. CASE ReceiveCommit(t)
  <2>1. UNCHANGED <<storage, tdb, tasks>> /\ pc = "idle" /\ pc' = "enter"
    BY <1>1 DEF ReceiveCommit, Receive
  <2>2. Tracked' /\ written' = written /\ seen' = seen
    BY <2>1, QuietHistory DEF RInv, storage, tdb, tasks
  <2>3. LeftOpen' = LeftOpen
    BY <2>1, LooseKept DEF tdb, RunsSets
  <2>4. UNCHANGED Abstract!vars
    BY <2>1, <2>2, <2>3 DEF Abstract!vars, storage, tdb, tasks
  <2> QED BY <2>2, <2>4 DEF AbstractStep
<1>2. CASE Enter(t)
  <2>1. CommitStarted(t)
    BY <1>2, CommitStarts
  <2>2. /\ UNCHANGED <<db_ctx, txn_seq, txn_state, txn_error, txn_commits, tdb_data, tdb_view, request, status, result>>
        /\ pc = "enter" /\ t = current /\ request[t].txn \in txn_state /\ txn' = request[t].txn /\ pc' = "run"
        /\ txn_msgs' = [txn_msgs EXCEPT ![request[t].txn] = Reverse(@)]
        /\ UNCHANGED <<handed, current, ex_port>> /\ tdb_depth' = tdb_depth + 1
    BY <2>1 DEF CommitStarted, Run, Claim, Enter, ports
  <2>3. StepStarted(t)
    BY <2>2 DEF StepStarted, Kept
  <2>4. Tracked' /\ written' = written /\ seen' = seen
    BY <2>2, <2>3, StartHistory DEF RInv
  <2>5. [i \in TxnId |-> ToSet(txn_msgs'[i])] = [i \in TxnId |-> ToSet(txn_msgs[i])]
    <3>1. \A i \in TxnId : txn_msgs[i] \in Seq(Task) /\ ToSet(Reverse(txn_msgs[i])) = ToSet(txn_msgs[i])
      BY <1>0, ReverseList DEF TypeOK
    <3>2. \A i \in TxnId : txn_msgs'[i] = IF i = request[t].txn THEN Reverse(txn_msgs[i]) ELSE txn_msgs[i]
      BY <1>0, <2>2 DEF TypeOK
    <3> QED BY <3>1, <3>2
  <2>6. LeftOpen' = LeftOpen
    BY <1>0, <2>2 DEF LeftOpen, RunsSets, TypeOK
  <2>7. UNCHANGED Abstract!vars
    BY <2>2, <2>4, <2>5, <2>6 DEF Abstract!vars
  <2> QED BY <2>4, <2>7 DEF AbstractStep
<1>3. CASE TxnStateRun(t) \/ CommitDone(t) \/ CommitAborted(t)
  BY <1>3, RunRefines, EndRefines DEF AbstractStep
<1> QED BY <1>1, <1>2, <1>3 DEF HandleTxnCommit, CommitClosed, CommitPostponed, CommitUnknown,
                                CommitNotStarted, CommitStarted, Claim, Run

\* Every step of the storage is one of the abstract store, or none.
LEMMA StepRefines ==
  ASSUME IInv, TypeOK', CInv, ErrorsFresh, RInv, Careful, HNext
  PROVE  RInv' /\ AbstractStep
<1>1. PICK t \in Task : Client(t) \/ Exclusive(t) \/ Concurrent(t) \/ Finish(t)
  BY DEF HNext, Next
<1>2. Remember
  BY DEF HNext
<1>3. SetsHaveData'
  BY <1>1, DataStep DEF RInv
<1>4. CASE Client(t) \/ Finish(t)
  <2>1. Tracked' /\ (Abstract!Ask(t) \/ Abstract!Release(t))
    BY <1>2, <1>4, PostRefines, FinishRefines
  <2> QED BY <1>3, <2>1 DEF Abstract!Next, AbstractStep, RInv
<1>5. CASE Concurrent(t) \/ HandleOpen(t) \/ HandleClose(t) \/ HandleSet(t) \/ HandleTxnBegin(t) \/ HandleTxnCancel(t)
  <2>1. Tracked' /\ Abstract!Next
    BY <1>2, <1>5, ServeRefines, OpenRefines, SetRefines, BeginRefines, CancelRefines
  <2> QED BY <1>3, <2>1 DEF AbstractStep, RInv
<1>6. CASE HandleTxnCommit(t)
  BY <1>2, <1>3, <1>6, CommitRefines DEF RInv
<1> QED BY <1>1, <1>4, <1>5, <1>6 DEF Exclusive

\* A new storage is a new abstract store.
LEMMA InitRefines == HInit => RInv /\ Abstract!Init
<1> SUFFICES ASSUME HInit PROVE RInv /\ Abstract!Init
  OBVIOUS
<1> USE BoundAssumption DEF HInit, Init
<1>1. Empty \in Content /\ Blank \in Request
  BY DEF Empty, Content, Blank, Req, Request, Message
<1>2. Tracked /\ SetsHaveData /\ ~LeftOpen
  <2>1. <<>> \in Seq(Writes)
    OBVIOUS
  <2> QED BY <2>1 DEF Tracked, Histories, SetsHaveData, HeldBack, RunBack, SeenBack, RunsSets, LeftOpen, Blank, Req
<1>3. 1..0 = {} /\ [i \in TxnId |-> ToSet(<<>>)] = [i \in TxnId |-> {}]
  BY EmptyList
<1>4. Abstract!Init
  BY <1>1, <1>2, <1>3 DEF Abstract!Init, Abstract!Nothing, Empty, TxnId
<1> QED BY <1>2, <1>4 DEF RInv

\* No transaction carries the error of an earlier commit.
LEMMA ErrorsInvariant ==
  ASSUME IInv, CInv, ErrorsFresh, Careful, [Next]_vars
  PROVE  ErrorsFresh'
<1>1. CASE Next
  BY <1>1, RequestsFresh, ErrorsStep DEF ErrorsFresh, Next
<1>2. CASE UNCHANGED vars
  BY <1>2 DEF ErrorsFresh, vars, storage, worker, tasks
<1> QED BY <1>1, <1>2

(***************************************************************************)
(* For clients that end each transaction once, and a tdb that can start    *)
(* one, the storage implements the abstract store: each request takes      *)
(* effect at one instant, and a transaction's sets are seen together or    *)
(* never, whatever else fails on the way, but for a commit one of whose    *)
(* sets failed, which leaves a part of them and a tdb transaction behind.  *)
(***************************************************************************)
THEOREM StorageImplements == Careful => (HSpec => Implements)
<1> SUFFICES ASSUME Careful PROVE HSpec => Implements
  OBVIOUS
<1> DEFINE AllInv == IInv /\ CInv /\ ErrorsFresh /\ RInv
<1>1. HInit => AllInv /\ Abstract!Init
  <2>1. Init => IInv /\ CInv /\ ErrorsFresh
    BY InitIInv, InitCInv DEF Init, ErrorsFresh, Blank, Req
  <2> QED BY <2>1, InitRefines DEF HInit
<1>2. AllInv /\ [HNext]_<<vars, written, seen>> => AllInv' /\ [Abstract!Next]_(Abstract!vars)
  <2> SUFFICES ASSUME AllInv, [HNext]_<<vars, written, seen>> PROVE AllInv' /\ [Abstract!Next]_(Abstract!vars)
    OBVIOUS
  <2>1. [Next]_vars
    BY DEF HNext
  <2>2. IInv' /\ CInv' /\ ErrorsFresh' /\ TypeOK'
    BY <2>1, NextIInv, NextCInv, ErrorsInvariant DEF IInv
  <2>3. CASE HNext
    <3>1. RInv' /\ AbstractStep
      BY <2>2, <2>3, StepRefines
    <3> QED BY <2>2, <3>1 DEF AbstractStep
  <2>4. CASE UNCHANGED <<vars, written, seen>>
    <3>1. UNCHANGED <<db_ctx, tdb_data, tdb_view, tdb_depth, txn_seq, txn, txn_state, txn_error, txn_msgs,
                      written, seen, request, status, result, pc>>
      BY <2>4 DEF vars, storage, tdb, tasks, worker
    <3>2. RInv'
      BY <3>1 DEF RInv, Tracked, Histories, SetsHaveData, HeldBack, Waits, WriteOf, RunBack, Ahead, Made, SeenBack, Running, RunsSets
    <3>3. LeftOpen' = LeftOpen
      BY <3>1, LooseKept DEF RunsSets
    <3>4. UNCHANGED Abstract!vars
      BY <3>1, <3>3 DEF Abstract!vars
    <3> QED BY <2>2, <3>2, <3>4
  <2> QED BY <2>3, <2>4
<1>3. QED
  BY <1>1, <1>2, PTL DEF HSpec, Implements, Abstract!Spec
=============================================================================
