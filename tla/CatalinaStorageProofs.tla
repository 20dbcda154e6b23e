----------------------- MODULE CatalinaStorageProofs -----------------------
(***************************************************************************)
(* Safety of CatalinaStorage for any numbers of tasks, keys, values and    *)
(* transactions, whichever library calls fail and however the client uses  *)
(* transaction ids.                                                        *)
(***************************************************************************)
EXTENDS CatalinaStorage, SequenceLemmas, FiniteSetTheorems, TLAPS

\* The bound on begun transactions counts those still asked for.
BeginsBounded == txn_seq + Cardinality(PendingBegins) <= MaxTxn

IInv ==
  /\ TypeOK
  /\ BeginsBounded
  /\ TasksAccounted
  /\ DeferredBelong
  /\ ClosedIsClean
  /\ TdbTransactionOwned

Handed == [TxnId -> {"new", "open", "ended"}]
-----------------------------------------------------------------------------
(***************************************************************************)
(* The initial state: nothing posted, nothing begun, nothing stored.       *)
(***************************************************************************)
LEMMA InitIInv == Init => IInv
<1> SUFFICES ASSUME Init PROVE IInv
  OBVIOUS
<1> USE BoundAssumption, TaskAssumption DEF Init
<1>1. TypeOK
  <2>1. Blank \in Request /\ Empty \in Content
    BY DEF Request, Message, Blank, Req, Empty, Content
  <2>2. <<>> \in Seq(Task)
    OBVIOUS
  <2>3. NoValue \in Result
    BY DEF Result
  <2>4. txn_seq \in 0..MaxTxn /\ txn \in 0..MaxTxn
    OBVIOUS
  <2>5. txn_msgs \in [TxnId -> Seq(Task)] /\ txn_error \in [TxnId -> BOOLEAN]
    BY <2>2
  <2>6. request \in [Task -> Request] /\ status \in [Task -> Status] /\ result \in [Task -> Result]
    BY <2>1, <2>3 DEF Status
  <2>7. handed \in [TxnId -> {"new", "open", "ended"}]
    OBVIOUS
  <2> QED BY <2>1, <2>2, <2>4, <2>5, <2>6, <2>7 DEF TypeOK
<1>2. BeginsBounded
  <2>1. PendingBegins = {}
    BY DEF PendingBegins
  <2> QED BY <2>1, FS_EmptySet DEF BeginsBounded
<1>3. TasksAccounted
  BY EmptyList DEF TasksAccounted, HeldWhilePending, HeldOnce
<1>4. DeferredBelong
  BY EmptyList DEF DeferredBelong
<1>5. ClosedIsClean /\ TdbTransactionOwned
  BY DEF ClosedIsClean, TdbTransactionOwned, RunsSets
<1> QED BY <1>1, <1>2, <1>3, <1>4, <1>5 DEF IInv

(***************************************************************************)
(* Whatever a client asks, it posts one well-formed request on one port,   *)
(* and begins no transaction beyond the bound.                             *)
(***************************************************************************)
LEMMA ClientPosts ==
  ASSUME TypeOK, NEW t \in Task, Client(t)
  PROVE  \E r \in Request :
           /\ PostExclusive(t, r) \/ PostConcurrent(t, r)
           /\ r.what = "begin" => txn_seq + Cardinality(PendingBegins) < MaxTxn
           /\ handed' \in Handed
<1> USE BoundAssumption DEF Request, Message, Req
<1>1. handed \in Handed
  BY DEF TypeOK, Handed
<1>2. CASE Open(t) \/ Close(t) \/ CountKeys(t) \/ Begin(t)
  BY <1>1, <1>2 DEF Open, Close, CountKeys, Begin, PostConcurrent
<1>3. ASSUME NEW k \in Key, Get(t, k) PROVE Req("get", 0, k, NoValue) \in Request /\ handed' = handed
  BY <1>3 DEF Get, PostConcurrent
<1>4. ASSUME NEW id \in 0..MaxTxn, NEW k \in Key, NEW v \in Value, Set(t, id, k, v)
      PROVE  Req("set", id, k, v) \in Request /\ handed' = handed
  BY <1>4 DEF Set
<1>5. ASSUME NEW id \in 0..MaxTxn, NEW what \in {"commit", "cancel"}, EndTxn(t, what, id)
      PROVE  Req(what, id, NoKey, NoValue) \in Request /\ handed' \in Handed
  BY <1>1, <1>5 DEF EndTxn, Handed
<1>6. CASE \E k \in Key : Get(t, k)
  BY <1>1, <1>3, <1>6 DEF Get
<1>7. CASE \E id \in 0..MaxTxn, k \in Key, v \in Value : Set(t, id, k, v)
  BY <1>1, <1>4, <1>7 DEF Set
<1>8. CASE \E id \in 0..MaxTxn : Commit(t, id) \/ Cancel(t, id)
  BY <1>5, <1>8 DEF Commit, Cancel, EndTxn
<1> QED BY <1>2, <1>6, <1>7, <1>8 DEF Client
-----------------------------------------------------------------------------
(***************************************************************************)
(* Types.  The shapes that most steps share come first: what tdb's calls   *)
(* leave of it, and what answering a task does.                            *)
(***************************************************************************)
TdbOK == tdb_data \in Content /\ tdb_view \in Content /\ tdb_depth \in Nat /\ tdb_broken \in BOOLEAN

LEMMA TdbTypes ==
  ASSUME TypeOK
  PROVE  /\ UNCHANGED tdb => TdbOK'
         /\ TdbOpen \/ TdbDiscards \/ TdbCommitFails => TdbOK'
         /\ TdbFails /\ UNCHANGED <<tdb_data, tdb_view, tdb_depth>> => TdbOK'
         /\ TdbCommits /\ tdb_depth > 0 => TdbOK'
         /\ \A k, v : v \in Value \cup {NoValue} /\ TdbStore(k, v) => TdbOK'
<1>1. TdbOK /\ Empty \in Content
  BY DEF TypeOK, TdbOK, Empty, Content
<1>2. UNCHANGED tdb \/ TdbOpen \/ TdbDiscards => TdbOK'
  <2>1. TdbDiscards => TdbOK'
    <3>1. TdbDiscards => tdb_broken' \in BOOLEAN
      BY Zenon DEF TdbDiscards
    <3>2. TdbDiscards => tdb_view' = tdb_data /\ tdb_depth' = 0 /\ tdb_data' = tdb_data
      BY DEF TdbDiscards
    <3> QED BY <1>1, <3>1, <3>2 DEF TdbOK
  <2>2. UNCHANGED tdb => TdbOK'
    BY <1>1, Zenon DEF tdb, TdbOK
  <2>3. TdbOpen => tdb_data' \in {Empty, tdb_data} /\ tdb_view' = tdb_data' /\ UNCHANGED <<tdb_depth, tdb_broken>>
    BY DEF TdbOpen
  <2> QED BY <1>1, <2>1, <2>2, <2>3 DEF TdbOK
<1>3. TdbCommitFails \/ (TdbCommits /\ tdb_depth > 0) => TdbOK'
  BY <1>1, <1>2 DEF TdbCommitFails, TdbCommits, TdbOK
<1>4. TdbFails /\ UNCHANGED <<tdb_data, tdb_view, tdb_depth>> => TdbOK'
  <2>1. tdb_broken \in BOOLEAN /\ (tdb_depth > 0) \in BOOLEAN
    BY <1>1 DEF TdbOK
  <2>2. TdbFails => tdb_broken' \in BOOLEAN
    BY <2>1, Zenon DEF TdbFails
  <2> QED BY <1>1, <2>2 DEF TdbOK
<1>5. ASSUME NEW k, NEW v \in Value \cup {NoValue}, TdbStore(k, v) PROVE TdbOK'
  <2>1. [tdb_view EXCEPT ![k] = v] \in Content
    BY <1>1 DEF TdbOK, Content
  <2> QED BY <1>1, <1>5, <2>1 DEF TdbStore, TdbOK
<1> QED BY <1>2, <1>3, <1>4, <1>5

\* Answering a task keeps the types, and so does handle_set beyond its early returns.
LEMMA AnswerTypes ==
  ASSUME TypeOK, NEW t \in Task
  PROVE  /\ \A verdict \in Status : Complete(t, verdict) => status' \in [Task -> Status]
         /\ Fail(t) => status' \in [Task -> Status] /\ txn_error' \in [TxnId -> BOOLEAN]
         /\ Succeed(t) => status' \in [Task -> Status]
         /\ StoreData(t) /\ request[t].what = "set" =>
              status' \in [Task -> Status] /\ txn_error' \in [TxnId -> BOOLEAN] /\ TdbOK'
<1>1. ASSUME NEW verdict \in Status, Complete(t, verdict) PROVE status' \in [Task -> Status]
  BY <1>1 DEF Complete, TypeOK
<1>2. "failed" \in Status /\ "succeeded" \in Status
  BY DEF Status
<1>3. ASSUME Fail(t) PROVE status' \in [Task -> Status] /\ txn_error' \in [TxnId -> BOOLEAN]
  BY <1>1, <1>2, <1>3 DEF Fail, Marked, TypeOK
<1>4. ASSUME Succeed(t) PROVE status' \in [Task -> Status]
  BY <1>1, <1>2, <1>4 DEF Succeed
<1>5. ASSUME StoreData(t) PROVE
              status' \in [Task -> Status] /\ txn_error' \in [TxnId -> BOOLEAN] /\ TdbOK'
  <2>1. request[t].data \in Value \cup {NoValue}
    BY DEF TypeOK, Request
  <2>2. TdbOK'
    BY <1>5, <2>1, TdbTypes DEF StoreData
  <2>3. txn_error \in [TxnId -> BOOLEAN]
    BY DEF TypeOK
  <2> QED BY <1>3, <1>4, <1>5, <2>2, <2>3 DEF StoreData
<1> QED BY <1>1, <1>3, <1>4, <1>5

\* Taking a message off ex_port leaves a port.
LEMMA ReceiveTypes ==
  ASSUME TypeOK, NEW t \in Task, NEW what, Receive(t, what)
  PROVE  /\ ex_port' \in Seq(Task) /\ cn_port' \subseteq Task /\ handed' \in Handed
         /\ pc = "idle" /\ request[t].what = what
         /\ t \in ToSet(ex_port)
         /\ ToSet(ex_port) = ToSet(ex_port') \cup {t}
         /\ IsInjective(ex_port) => IsInjective(ex_port') /\ t \notin ToSet(ex_port')
<1>1. ex_port \in Seq(Task) /\ ex_port # <<>> /\ t = Head(ex_port) /\ ex_port' = Tail(ex_port)
  BY DEF TypeOK, Receive
<1>2. ex_port' \in Seq(Task) /\ ToSet(ex_port) = ToSet(ex_port') \cup {t}
      /\ (IsInjective(ex_port) => IsInjective(ex_port') /\ t \notin ToSet(ex_port'))
  BY <1>1, TailList
<1> QED BY <1>2 DEF TypeOK, Receive, Handed

\* Forgetting a transaction (txn_state_free) keeps the types.
LEMMA DropTypes ==
  ASSUME TypeOK, NEW id, Drop(id)
  PROVE  /\ txn_state' \subseteq TxnId /\ txn_msgs' \in [TxnId -> Seq(Task)]
         /\ txn_error' \in [TxnId -> BOOLEAN]
BY DEF TypeOK, Drop

\* Posting a request keeps the types.
LEMMA ClientTypes ==
  ASSUME TypeOK, NEW t \in Task, Client(t)
  PROVE  TypeOK'
<1> PICK r \in Request : (PostExclusive(t, r) \/ PostConcurrent(t, r)) /\ handed' \in Handed
  BY ClientPosts
<1>1. Take(t, r) /\ status' \in [Task -> Status] /\ request' \in [Task -> Request]
  BY ZenonT(40) DEF PostExclusive, PostConcurrent, Take, TypeOK, Status
<1>2. ex_port' \in Seq(Task) /\ cn_port' \subseteq Task
  <2>1. ex_port \in Seq(Task) /\ Append(ex_port, t) \in Seq(Task) /\ cn_port \subseteq Task
    BY AppendList DEF TypeOK
  <2>2. CASE PostExclusive(t, r)
    BY <2>1, <2>2 DEF PostExclusive
  <2>3. CASE PostConcurrent(t, r)
    BY <2>1, <2>3 DEF PostConcurrent
  <2> QED BY <2>2, <2>3
<1>3. UNCHANGED <<db_ctx, txn_seq, txn, txn_commits, txn_state, txn_msgs, txn_error, pc, current,
                  tdb_data, tdb_view, tdb_depth, tdb_broken, result>>
  BY <1>1 DEF Take, storage, worker, tdb
<1> QED BY <1>1, <1>2, <1>3 DEF TypeOK, Handed

\* The readers, handle_get and handle_count_keys, keep the types.
LEMMA ConcurrentTypes ==
  ASSUME TypeOK, NEW t \in Task, Concurrent(t)
  PROVE  TypeOK'
<1>1. status' \in [Task -> Status]
  BY AnswerTypes DEF Concurrent, HandleGet, HandleCountKeys, Status
<1>2. cn_port' \subseteq Task
  BY DEF Concurrent, HandleGet, HandleCountKeys, Serve, TypeOK
<1>3. result' \in [Task -> Result]
  <2>1. CASE HandleGet(t)
    <3>1. request[t].what = "get" /\ request[t] \in Request
      BY <2>1 DEF HandleGet, Serve, TypeOK
    <3>2. tdb_view[request[t].key] \in Result
      BY <3>1 DEF TypeOK, Content, Request, Result
    <3> QED BY <2>1, <3>2 DEF HandleGet, TypeOK
  <2>2. CASE HandleCountKeys(t)
    <3>1. Present(tdb_view) \in Nat
      <4>1. {k \in Key : tdb_view[k] # NoValue} \subseteq Key
        OBVIOUS
      <4> QED BY <4>1, KeyAssumption, FS_Subset, FS_CardinalityType DEF Present
    <3> QED BY <2>2, <3>1 DEF HandleCountKeys, TypeOK, Result
  <2> QED BY <2>1, <2>2 DEF Concurrent
<1>4. UNCHANGED <<storage, ex_port, worker, tdb_data, tdb_view, tdb_depth, request, handed>>
  BY DEF Concurrent, HandleGet, HandleCountKeys, Serve
<1>5. TdbOK'
  <2>1. UNCHANGED tdb_broken \/ TdbFails
    BY DEF Concurrent, HandleGet, HandleCountKeys
  <2> QED BY <1>4, <2>1, TdbTypes DEF tdb
<1> QED BY <1>1, <1>2, <1>3, <1>4, <1>5 DEF TypeOK, TdbOK, storage, worker

\* Collecting an answer keeps the types.
LEMMA FinishTypes ==
  ASSUME TypeOK, NEW t \in Task, Finish(t)
  PROVE  TypeOK'
<1>1. Blank \in Request
  BY BoundAssumption DEF Request, Blank, Req
<1>2. /\ status' \in [Task -> Status] /\ request' \in [Task -> Request]
      /\ result' \in [Task -> Result] /\ handed' \in Handed
  BY <1>1 DEF Finish, TypeOK, Status, Result, Handed
<1>3. UNCHANGED <<storage, ports, worker, tdb>>
  BY DEF Finish
<1> QED BY <1>2, <1>3 DEF TypeOK, storage, ports, worker, tdb, Handed

\* Each step of handle_txn_commit keeps the types.
LEMMA CommitTypes ==
  ASSUME IInv, NEW t \in Task, HandleTxnCommit(t)
  PROVE  TypeOK'
<1> USE DEF Handed
<1>0. TypeOK /\ "failed" \in Status /\ "succeeded" \in Status
  BY DEF IInv, Status
<1>1. request[t].txn \in 0..MaxTxn
  BY <1>0 DEF TypeOK, Request
<1>2. CASE ReceiveCommit(t)
  <2>1. Receive(t, "commit") /\ pc' = "enter" /\ current' = t /\ UNCHANGED <<storage, tdb, tasks>>
    BY <1>2 DEF ReceiveCommit
  <2>2. ex_port' \in Seq(Task) /\ cn_port' \subseteq Task /\ handed' \in Handed
    BY <1>0, <2>1, ReceiveTypes
  <2> QED BY <1>0, <2>1, <2>2 DEF TypeOK, storage, tdb, tasks
<1>3. CASE CommitClosed(t) \/ CommitPostponed(t) \/ CommitUnknown(t) \/ CommitNotStarted(t)
  <2>1. Enter(t) /\ pc' = "idle" /\ current' = NoTask /\ UNCHANGED <<txn_msgs, tdb_depth>>
    BY <1>3 DEF CommitClosed, CommitPostponed, CommitUnknown, CommitNotStarted, Claim, Return
  <2>2. status' \in [Task -> Status] /\ txn_error' \in [TxnId -> BOOLEAN]
    BY <1>0, <1>3, AnswerTypes
    DEF CommitClosed, CommitPostponed, CommitUnknown, CommitNotStarted, TypeOK
  <2>3. txn' \in 0..MaxTxn
    BY <1>0, <1>1, <1>3
    DEF CommitClosed, CommitPostponed, CommitUnknown, CommitNotStarted, Claim, TypeOK
  <2>4. txn_commits' \in Seq(Task)
    <3>1. txn_commits \in Seq(Task) /\ Append(txn_commits, t) \in Seq(Task)
      BY <1>0, AppendList DEF TypeOK
    <3> QED BY <1>3, <3>1
        DEF CommitClosed, CommitPostponed, CommitUnknown, CommitNotStarted, Claim
  <2> QED BY <1>0, <2>1, <2>2, <2>3, <2>4 DEF Enter, TypeOK, ports
<1>4. CASE CommitStarted(t)
  <2>1. Enter(t) /\ txn' = request[t].txn /\ request[t].txn \in txn_state
        /\ tdb_depth' = tdb_depth + 1 /\ pc' = "run"
        /\ UNCHANGED <<txn_commits, txn_error, status, current>>
    BY <1>4 DEF CommitStarted, Run, Claim
  <2>2. txn_msgs' \in [TxnId -> Seq(Task)]
    <3>1. request[t].txn \in TxnId /\ txn_msgs[request[t].txn] \in Seq(Task)
      BY <1>0, <2>1 DEF TypeOK
    <3>2. Reverse(txn_msgs[request[t].txn]) \in Seq(Task)
      BY <3>1, ReverseList
    <3> QED BY <1>0, <1>4, <3>2 DEF CommitStarted, Run, TypeOK
  <2> QED BY <1>0, <1>1, <2>1, <2>2 DEF Enter, TypeOK, ports
<1>5. CASE TxnStateRun(t)
  <2>1. txn \in TxnId /\ txn_msgs[txn] \in Seq(Task) /\ txn_msgs[txn] # <<>>
    BY <1>0, <1>5 DEF IInv, TdbTransactionOwned, RunsSets, TypeOK, TxnStateRun
  <2>2. Tail(txn_msgs[txn]) \in Seq(Task) /\ t \in ToSet(txn_msgs[txn])
    BY <1>5, <2>1, TailList DEF TxnStateRun
  <2>3. request[t].what = "set"
    BY <2>1, <2>2 DEF IInv, DeferredBelong
  <2>4. status' \in [Task -> Status] /\ txn_error' \in [TxnId -> BOOLEAN] /\ TdbOK'
    BY <1>0, <1>5, <2>3, AnswerTypes DEF TxnStateRun
  <2>5. txn_msgs' \in [TxnId -> Seq(Task)] /\ pc' \in {"abort", "run"}
    BY <1>0, <1>5, <2>2 DEF TxnStateRun, TypeOK
  <2>6. UNCHANGED <<db_ctx, txn_seq, txn, txn_commits, txn_state, ports, current, request, result, handed>>
    BY <1>5 DEF TxnStateRun
  <2> QED BY <1>0, <2>4, <2>5, <2>6 DEF TypeOK, TdbOK, ports
<1>6. CASE CommitDone(t) \/ CommitAborted(t)
  <2>1. EndCommit
    BY <1>6 DEF CommitDone, CommitAborted, Failing
  <2>2. /\ txn_state' \subseteq TxnId /\ txn_msgs' \in [TxnId -> Seq(Task)]
        /\ txn_error' \in [TxnId -> BOOLEAN]
    BY <1>0, <2>1, DropTypes DEF EndCommit, NextCommit
  <2>3. txn_commits' \in Seq(Task) /\ current' \in Task \cup {NoTask} /\ pc' \in {"idle", "enter"}
    <3>1. txn_commits \in Seq(Task)
      BY <1>0 DEF TypeOK
    <3>2. CASE txn_commits = <<>>
      BY <2>1, <3>1, <3>2 DEF EndCommit, NextCommit, Return
    <3>3. CASE txn_commits # <<>>
      BY <2>1, <3>1, <3>3, TailList DEF EndCommit, NextCommit
    <3> QED BY <3>2, <3>3
  <2>4. status' \in [Task -> Status]
    BY <1>0, <1>6, AnswerTypes DEF CommitDone, CommitAborted
  <2>5. UNCHANGED <<db_ctx, txn_seq, ex_port, cn_port, request, result, handed>>
    BY <2>1 DEF EndCommit, ports
  <2>6. txn' \in 0..MaxTxn
    BY <2>1, BoundAssumption DEF EndCommit
  <2>7. TdbOK'
    <3>1. pc = "run" => tdb_depth > 0
      BY DEF IInv, TdbTransactionOwned, RunsSets
    <3>2. (TdbCommits /\ pc = "run") \/ TdbRecovers \/ TdbCommitFails
      BY <1>6 DEF CommitDone, CommitAborted, Failing
    <3> QED BY <1>0, <3>1, <3>2, TdbTypes DEF TdbRecovers
  <2> QED BY <1>0, <2>2, <2>3, <2>4, <2>5, <2>6, <2>7 DEF TypeOK, TdbOK
<1> QED BY <1>2, <1>3, <1>4, <1>5, <1>6 DEF HandleTxnCommit

\* Each exclusive handler keeps the types.
LEMMA ExclusiveTypes ==
  ASSUME IInv, NEW t \in Task, Exclusive(t)
  PROVE  TypeOK'
<1> USE DEF Handed
<1>0. TypeOK /\ <<>> \in Seq(Task) /\ "failed" \in Status /\ "succeeded" \in Status
  BY DEF IInv, Status
<1>1. CASE HandleOpen(t)
  <2>1. Receive(t, "open") /\ UNCHANGED <<txn_seq, worker, request, result>>
    BY <1>1 DEF HandleOpen
  <2>2. ex_port' \in Seq(Task) /\ cn_port' \subseteq Task /\ handed' \in Handed
    BY <1>0, <2>1, ReceiveTypes
  <2>3. CASE db_ctx
    <3>1. status' \in [Task -> Status] /\ txn_error' \in [TxnId -> BOOLEAN]
      BY <1>0, <1>1, <2>3, AnswerTypes DEF HandleOpen
    <3> QED BY <1>0, <1>1, <2>1, <2>2, <2>3, <3>1 DEF HandleOpen, TypeOK, worker, tdb
  <2>4. CASE ~db_ctx
    <3>1. status' \in [Task -> Status]
      BY <1>0, <1>1, <2>4, AnswerTypes DEF HandleOpen
    <3>2. /\ txn' = 0 /\ txn_commits' = <<>> /\ txn_state' = {}
          /\ txn_msgs' = [i \in TxnId |-> <<>>] /\ txn_error' = [i \in TxnId |-> FALSE]
      BY <1>1, <2>4 DEF HandleOpen
    <3>4. /\ txn' \in 0..MaxTxn /\ txn_commits' \in Seq(Task) /\ txn_state' \subseteq TxnId
          /\ txn_msgs' \in [TxnId -> Seq(Task)] /\ txn_error' \in [TxnId -> BOOLEAN]
      BY <1>0, <3>2, BoundAssumption
    <3>3. db_ctx' \in BOOLEAN /\ TdbOK'
      <4>1. UNCHANGED tdb \/ TdbOpen
        BY <1>1, <2>4 DEF HandleOpen
      <4>2. db_ctx' = db_ctx \/ db_ctx' = TRUE
        BY <1>1, <2>4 DEF HandleOpen
      <4>3. db_ctx' \in BOOLEAN
        BY <1>0, <4>2 DEF TypeOK
      <4> QED BY <1>0, <4>1, <4>3, TdbTypes
    <3> QED BY <1>0, <2>1, <2>2, <3>1, <3>3, <3>4 DEF TypeOK, TdbOK, worker
  <2> QED BY <2>3, <2>4
<1>2. CASE HandleClose(t)
  <2>1. Receive(t, "close")
        /\ UNCHANGED <<txn_seq, txn, txn_commits, txn_state, txn_msgs, worker, request, result>>
    BY <1>2 DEF HandleClose
  <2>2. ex_port' \in Seq(Task) /\ cn_port' \subseteq Task /\ handed' \in Handed
    BY <1>0, <2>1, ReceiveTypes
  <2>3. status' \in [Task -> Status] /\ txn_error' \in [TxnId -> BOOLEAN] /\ db_ctx' \in BOOLEAN
    BY <1>0, <1>2, AnswerTypes DEF HandleClose, TypeOK
  <2>4. TdbOK'
    <3>1. UNCHANGED tdb \/ TdbDiscards
      BY <1>2 DEF HandleClose
    <3> QED BY <1>0, <3>1, TdbTypes
  <2> QED BY <1>0, <2>1, <2>2, <2>3, <2>4 DEF TypeOK, TdbOK, worker
<1>3. CASE HandleSet(t)
  <2>1. Receive(t, "set")
        /\ UNCHANGED <<db_ctx, txn_seq, txn, txn_commits, txn_state, worker, request, result>>
    BY <1>3 DEF HandleSet
  <2>2. /\ ex_port' \in Seq(Task) /\ cn_port' \subseteq Task /\ handed' \in Handed
        /\ request[t].what = "set"
    BY <1>0, <2>1, ReceiveTypes
  <2>3. status' \in [Task -> Status] /\ txn_error' \in [TxnId -> BOOLEAN] /\ TdbOK'
    <3>1. UNCHANGED tdb => TdbOK'
      BY <1>0, TdbTypes
    <3>2. status \in [Task -> Status] /\ txn_error \in [TxnId -> BOOLEAN]
      BY <1>0 DEF TypeOK
    <3> QED BY <1>0, <1>3, <2>2, <3>1, <3>2, AnswerTypes DEF HandleSet
  <2>4. txn_msgs' \in [TxnId -> Seq(Task)]
    <3>1. CASE UNCHANGED txn_msgs
      BY <1>0, <3>1 DEF TypeOK
    <3>2. CASE /\ request[t].txn \in txn_state
               /\ txn_msgs' = [txn_msgs EXCEPT ![request[t].txn] = Cons(t, @)]
      <4>1. request[t].txn \in TxnId /\ txn_msgs[request[t].txn] \in Seq(Task)
        BY <1>0, <3>2 DEF TypeOK
      <4>2. Cons(t, txn_msgs[request[t].txn]) \in Seq(Task)
        BY <4>1, ConsList
      <4> QED BY <1>0, <3>2, <4>2 DEF TypeOK
    <3> QED BY <1>3, <3>1, <3>2 DEF HandleSet
  <2> QED BY <1>0, <2>1, <2>2, <2>3, <2>4 DEF TypeOK, TdbOK, worker
<1>4. CASE HandleTxnBegin(t)
  <2>1. /\ Receive(t, "begin")
        /\ UNCHANGED <<db_ctx, txn, txn_commits, txn_msgs, worker, tdb, result, txn_error>>
    BY <1>4 DEF HandleTxnBegin
  <2>2. /\ ex_port' \in Seq(Task) /\ cn_port' \subseteq Task /\ handed' \in Handed
        /\ request[t].what = "begin" /\ t \in ToSet(ex_port)
    BY <1>0, <2>1, ReceiveTypes
  <2>3. txn_seq + 1 \in 1..MaxTxn
    <3>1. t \in PendingBegins
      BY <2>2 DEF PendingBegins, IInv, TasksAccounted, HeldWhilePending
    <3>2. IsFiniteSet(PendingBegins)
      BY TaskAssumption, FS_Subset DEF PendingBegins
    <3>3. Cardinality(PendingBegins) \in Nat /\ Cardinality(PendingBegins) # 0
      BY <3>1, <3>2, FS_CardinalityType, FS_EmptySet
    <3> QED BY <1>0, <3>3, BoundAssumption DEF IInv, BeginsBounded, TypeOK
  <2>4. status' \in [Task -> Status]
    BY <1>0, <1>4, AnswerTypes DEF HandleTxnBegin
  <2>5. txn_seq' \in 0..MaxTxn /\ txn_state' \subseteq TxnId /\ request' \in [Task -> Request]
    <3>1. CASE db_ctx
      <4>1. txn_seq' = txn_seq + 1 /\ txn_state' = txn_state \cup {txn_seq'}
            /\ request' = [request EXCEPT ![t].txn = txn_seq']
        BY <1>4, <3>1 DEF HandleTxnBegin
      <4>2. txn_seq' \in 0..MaxTxn /\ txn_seq' \in TxnId
        BY <2>3, <4>1, BoundAssumption DEF TxnId
      <4>3. [request[t] EXCEPT !.txn = txn_seq'] \in Request
        BY <1>0, <2>2, <4>2, ZenonT(40) DEF TypeOK, Request
      <4> QED BY <1>0, <4>1, <4>2, <4>3 DEF TypeOK
    <3>2. CASE ~db_ctx
      BY <1>0, <1>4, <3>2 DEF HandleTxnBegin, TypeOK
    <3> QED BY <3>1, <3>2
  <2> QED BY <1>0, <2>1, <2>2, <2>4, <2>5 DEF TypeOK, worker, tdb
<1>5. CASE HandleTxnCancel(t)
  <2>1. /\ Receive(t, "cancel")
        /\ UNCHANGED <<db_ctx, txn_seq, txn, txn_commits, worker, tdb, request, result>>
    BY <1>5 DEF HandleTxnCancel
  <2>2. ex_port' \in Seq(Task) /\ cn_port' \subseteq Task /\ handed' \in Handed
    BY <1>0, <2>1, ReceiveTypes
  <2>3. /\ status' \in [Task -> Status] /\ txn_state' \subseteq TxnId
        /\ txn_msgs' \in [TxnId -> Seq(Task)] /\ txn_error' \in [TxnId -> BOOLEAN]
    BY <1>0, <1>5, AnswerTypes, DropTypes DEF HandleTxnCancel, TypeOK
  <2> QED BY <1>0, <2>1, <2>2, <2>3 DEF TypeOK, worker, tdb
<1>6. CASE HandleTxnCommit(t)
  BY CommitTypes, <1>6
<1> QED BY <1>1, <1>2, <1>3, <1>4, <1>5, <1>6 DEF Exclusive
-----------------------------------------------------------------------------
(***************************************************************************)
(* A handler answers at most the task of the message it is given, and      *)
(* rewrites no request, except that a begin is told its transaction's id.  *)
(***************************************************************************)
LEMMA ServerAnswers ==
  ASSUME TypeOK, NEW t \in Task, Exclusive(t) \/ Concurrent(t)
  PROVE  /\ \/ status' = status
            \/ \E verdict \in {"succeeded", "failed"} : status' = [status EXCEPT ![t] = verdict]
         /\ \/ request' = request /\ txn_seq' = txn_seq
            \/ /\ HandleTxnBegin(t) /\ db_ctx
               /\ txn_seq' = txn_seq + 1
               /\ request' = [request EXCEPT ![t].txn = txn_seq']
               /\ status' = [status EXCEPT ![t] = "succeeded"]
<1> USE DEF Complete, Succeed, Fail
<1>1. CASE HandleOpen(t) \/ HandleClose(t) \/ HandleTxnCancel(t)
  BY <1>1 DEF HandleOpen, TdbOpen, HandleClose, HandleTxnCancel
<1>2. CASE HandleSet(t)
  BY <1>2 DEF HandleSet, StoreData
<1>3. CASE HandleTxnBegin(t)
  BY <1>3 DEF HandleTxnBegin
<1>4. CASE HandleTxnCommit(t)
  <2>1. CASE ReceiveCommit(t)
    BY <2>1 DEF ReceiveCommit, storage, tasks
  <2>2. CASE CommitClosed(t) \/ CommitPostponed(t) \/ CommitUnknown(t) \/ CommitNotStarted(t)
               \/ CommitStarted(t)
    BY <2>2
    DEF CommitClosed, CommitPostponed, CommitUnknown, CommitNotStarted, CommitStarted, Run, Claim, Enter
  <2>3. CASE TxnStateRun(t)
    BY <2>3 DEF TxnStateRun, StoreData
  <2>4. CASE CommitDone(t) \/ CommitAborted(t)
    BY <2>4 DEF CommitDone, CommitAborted, Failing, EndCommit, NextCommit
  <2> QED BY <1>4, <2>1, <2>2, <2>3, <2>4 DEF HandleTxnCommit
<1>5. CASE Concurrent(t)
  BY <1>5 DEF Concurrent, HandleGet, HandleCountKeys, Serve, storage
<1> QED BY <1>1, <1>2, <1>3, <1>4, <1>5 DEF Exclusive

(***************************************************************************)
(* Begins: asking for one counts against the bound until it is answered,   *)
(* and then its transaction does.                                          *)
(***************************************************************************)
LEMMA BeginsStep ==
  ASSUME IInv, NEW t \in Task, Client(t) \/ Exclusive(t) \/ Concurrent(t) \/ Finish(t)
  PROVE  BeginsBounded'
<1>0. /\ TypeOK /\ IsFiniteSet(PendingBegins) /\ Cardinality(PendingBegins) \in Nat
      /\ txn_seq \in Nat /\ MaxTxn \in Nat
      /\ txn_seq + Cardinality(PendingBegins) <= MaxTxn
  BY TaskAssumption, BoundAssumption, FS_Subset, FS_CardinalityType
  DEF PendingBegins, IInv, BeginsBounded, TypeOK
<1>1. ASSUME txn_seq' = txn_seq, PendingBegins' \subseteq PendingBegins PROVE BeginsBounded'
  <2>1. Cardinality(PendingBegins') \in Nat /\ Cardinality(PendingBegins') <= Cardinality(PendingBegins)
    BY <1>0, <1>1, FS_Subset, FS_CardinalityType
  <2> QED BY <1>0, <1>1, <2>1 DEF BeginsBounded
<1>2. CASE Client(t)
  <2> PICK r \in Request : /\ PostExclusive(t, r) \/ PostConcurrent(t, r)
                           /\ r.what = "begin" => txn_seq + Cardinality(PendingBegins) < MaxTxn
    BY <1>0, <1>2, ClientPosts
  <2>1. /\ status' = [status EXCEPT ![t] = "pending"] /\ request' = [request EXCEPT ![t] = r]
        /\ txn_seq' = txn_seq
    BY DEF PostExclusive, PostConcurrent, Take, storage
  <2>2. CASE r.what # "begin"
    <3>1. PendingBegins' \subseteq PendingBegins
      BY <1>0, <2>1, <2>2 DEF PendingBegins, TypeOK
    <3> QED BY <1>1, <2>1, <3>1
  <2>3. CASE r.what = "begin"
    <3>1. PendingBegins' \subseteq PendingBegins \cup {t}
      BY <1>0, <2>1 DEF PendingBegins, TypeOK
    <3>2. /\ IsFiniteSet(PendingBegins \cup {t})
          /\ Cardinality(PendingBegins \cup {t}) <= Cardinality(PendingBegins) + 1
      <4>1. /\ IsFiniteSet(PendingBegins \cup {t})
            /\ Cardinality(PendingBegins \cup {t}) =
                 IF t \in PendingBegins THEN Cardinality(PendingBegins) ELSE Cardinality(PendingBegins) + 1
        BY <1>0, FS_AddElement
      <4> QED BY <1>0, <4>1
    <3>3. /\ Cardinality(PendingBegins') \in Nat
          /\ Cardinality(PendingBegins') <= Cardinality(PendingBegins \cup {t})
          /\ Cardinality(PendingBegins \cup {t}) \in Nat
      BY <3>1, <3>2, FS_Subset, FS_CardinalityType
    <3> QED BY <1>0, <2>1, <2>3, <3>2, <3>3 DEF BeginsBounded
  <2> QED BY <2>2, <2>3
<1>3. CASE Exclusive(t) \/ Concurrent(t)
  <2>1. CASE request' = request /\ txn_seq' = txn_seq
    <3>1. PendingBegins' \subseteq PendingBegins
      BY <1>0, <1>3, <2>1, ServerAnswers DEF PendingBegins, TypeOK
    <3> QED BY <1>1, <2>1, <3>1
  <2>2. CASE /\ HandleTxnBegin(t) /\ db_ctx
             /\ txn_seq' = txn_seq + 1
             /\ request' = [request EXCEPT ![t].txn = txn_seq']
             /\ status' = [status EXCEPT ![t] = "succeeded"]
    <3>1. t \in PendingBegins
      <4>1. Receive(t, "begin")
        BY <2>2 DEF HandleTxnBegin
      <4>2. request[t].what = "begin" /\ t \in ToSet(ex_port)
        BY <1>0, <4>1, ReceiveTypes
      <4> QED BY <4>2 DEF PendingBegins, IInv, TasksAccounted, HeldWhilePending
    <3>2. PendingBegins' \subseteq PendingBegins \ {t}
      <4>1. \A u \in Task : u # t => status'[u] = status[u] /\ request'[u] = request[u]
        BY <1>0, <2>2 DEF TypeOK
      <4>2. status'[t] # "pending"
        BY <1>0, <2>2 DEF TypeOK
      <4> QED BY <4>1, <4>2 DEF PendingBegins
    <3>3. /\ IsFiniteSet(PendingBegins \ {t})
          /\ Cardinality(PendingBegins \ {t}) = Cardinality(PendingBegins) - 1
      BY <1>0, <3>1, FS_RemoveElement
    <3>4. /\ Cardinality(PendingBegins') \in Nat
          /\ Cardinality(PendingBegins') <= Cardinality(PendingBegins \ {t})
      BY <3>2, <3>3, FS_Subset, FS_CardinalityType
    <3> QED BY <1>0, <2>2, <3>3, <3>4 DEF BeginsBounded
  <2> QED BY <1>0, <1>3, <2>1, <2>2, ServerAnswers
<1>4. CASE Finish(t)
  <2>1. PendingBegins' \subseteq PendingBegins /\ txn_seq' = txn_seq
    BY <1>0, <1>4 DEF Finish, PendingBegins, TypeOK, storage
  <2> QED BY <1>1, <2>1
<1> QED BY <1>2, <1>3, <1>4
-----------------------------------------------------------------------------
(***************************************************************************)
(* Tasks: each is referred to from one place, until it is answered.        *)
(***************************************************************************)
LEMMA HeldTasks ==
  ASSUME TypeOK
  PROVE  /\ ToSet(ex_port) \subseteq Task /\ cn_port \subseteq Task /\ ToSet(txn_commits) \subseteq Task
         /\ \A id \in TxnId : ToSet(txn_msgs[id]) \subseteq Task
BY ListElements DEF TypeOK

\* A handler answers no task but its own.
LEMMA OthersStayPending ==
  ASSUME TypeOK, NEW t \in Task, Exclusive(t) \/ Concurrent(t)
  PROVE  \A u \in Task : u # t /\ status[u] = "pending" => status'[u] = "pending"
BY ServerAnswers DEF TypeOK

\* Posting takes a free task, which nothing refers to.
LEMMA ClientAccounted ==
  ASSUME IInv, NEW t \in Task, Client(t)
  PROVE  TasksAccounted'
<1> USE DEF TasksAccounted, HeldWhilePending, HeldOnce
<1>0. TypeOK /\ TasksAccounted
  BY DEF IInv
<1> PICK r \in Request : PostExclusive(t, r) \/ PostConcurrent(t, r)
  BY <1>0, ClientPosts
<1>1. /\ status[t] = "free" /\ status' = [status EXCEPT ![t] = "pending"]
      /\ UNCHANGED <<txn_commits, txn_msgs, pc, current>>
  BY DEF PostExclusive, PostConcurrent, Take, storage, worker
<1>2. /\ t \notin ToSet(ex_port) /\ t \notin cn_port /\ t \notin ToSet(txn_commits) /\ t # current
      /\ \A id \in TxnId : t \notin ToSet(txn_msgs[id])
  BY <1>0, <1>1, TaskAssumption
<1>3. \A u \in Task : u = t \/ status[u] = "pending" => status'[u] = "pending"
  BY <1>0, <1>1 DEF TypeOK
<1>4. CASE PostExclusive(t, r)
  <2>1. ex_port \in Seq(Task) /\ ex_port' = Append(ex_port, t) /\ cn_port' = cn_port
    BY <1>0, <1>4 DEF PostExclusive, TypeOK
  <2>2. ToSet(ex_port') = ToSet(ex_port) \cup {t} /\ IsInjective(ex_port')
    BY <1>0, <1>2, <2>1, AppendList
  <2> QED BY <1>0, <1>1, <1>2, <1>3, <2>1, <2>2, HeldTasks, TaskAssumption DEF TypeOK
<1>5. CASE PostConcurrent(t, r)
  <2>1. cn_port' = cn_port \cup {t} /\ ex_port' = ex_port
    BY <1>5 DEF PostConcurrent
  <2> QED BY <1>0, <1>1, <1>2, <1>3, <2>1, HeldTasks DEF TypeOK
<1> QED BY <1>4, <1>5

\* Freeing takes an answered task, which nothing refers to.
LEMMA FinishAccounted ==
  ASSUME IInv, NEW t \in Task, Finish(t)
  PROVE  TasksAccounted'
<1> USE DEF TasksAccounted, HeldWhilePending, HeldOnce
<1>1. TypeOK /\ TasksAccounted
  BY DEF IInv
<1>2. /\ status[t] # "pending" /\ status' = [status EXCEPT ![t] = "free"]
      /\ UNCHANGED <<ex_port, cn_port, txn_commits, txn_msgs, pc, current>>
  BY DEF Finish, storage, ports, worker
<1>3. \A u \in Task : status[u] = "pending" => status'[u] = "pending"
  BY <1>1, <1>2 DEF TypeOK
<1> QED BY <1>1, <1>2, <1>3, HeldTasks DEF TypeOK

\* A reader answers a task it has taken from the port.
LEMMA ConcurrentAccounted ==
  ASSUME IInv, NEW t \in Task, Concurrent(t)
  PROVE  TasksAccounted'
<1> USE DEF TasksAccounted, HeldWhilePending, HeldOnce
<1>1. TypeOK /\ TasksAccounted
  BY DEF IInv
<1>2. /\ t \in cn_port /\ cn_port' = cn_port \ {t}
      /\ UNCHANGED <<ex_port, txn_commits, txn_msgs, pc, current>>
  BY DEF Concurrent, HandleGet, HandleCountKeys, Serve, storage, worker
<1>3. \A u \in Task : u # t /\ status[u] = "pending" => status'[u] = "pending"
  BY <1>1, OthersStayPending
<1>4. /\ t \notin ToSet(ex_port) /\ t \notin ToSet(txn_commits) /\ t # current
      /\ \A id \in TxnId : t \notin ToSet(txn_msgs[id])
  BY <1>1, <1>2
<1>5. HeldWhilePending'
  BY <1>1, <1>2, <1>3, <1>4, HeldTasks DEF TypeOK
<1>6. HeldOnce'
  BY <1>1, <1>2
<1> QED BY <1>5, <1>6

\* Messages that a handler is done with when it returns.
LEMMA ReceivedAccounted ==
  ASSUME IInv, NEW t \in Task, NEW what, Receive(t, what), Exclusive(t),
         UNCHANGED worker,
         txn_commits' \in {txn_commits, <<>>},
         \A id \in TxnId : txn_msgs'[id] \in {txn_msgs[id], <<>>}
  PROVE  TasksAccounted'
<1> USE DEF TasksAccounted, HeldWhilePending, HeldOnce
<1>1. TypeOK /\ TasksAccounted
  BY DEF IInv
<1>2. /\ ToSet(ex_port) = ToSet(ex_port') \cup {t} /\ IsInjective(ex_port') /\ t \notin ToSet(ex_port')
      /\ pc = "idle" /\ cn_port' = cn_port /\ pc' = pc /\ current' = current
  <2>1. IsInjective(ex_port)
    BY <1>1
  <2>2. pc = "idle" /\ cn_port' = cn_port /\ pc' = pc /\ current' = current
    BY DEF Receive, worker
  <2> QED BY <1>1, <2>1, <2>2, ReceiveTypes
<1>3. \A u \in Task : u # t /\ status[u] = "pending" => status'[u] = "pending"
  BY <1>1, OthersStayPending
<1>4. ToSet(txn_commits') \subseteq ToSet(txn_commits) /\ IsInjective(txn_commits')
  BY <1>1, EmptyList
<1>5. \A id \in TxnId : ToSet(txn_msgs'[id]) \subseteq ToSet(txn_msgs[id]) /\ IsInjective(txn_msgs'[id])
  BY <1>1, EmptyList
<1>6. HeldWhilePending'
  BY <1>1, <1>2, <1>3, <1>4, <1>5, HeldTasks, ZenonT(40) DEF TypeOK
<1>7. HeldOnce'
  BY <1>1, <1>2, <1>4, <1>5, ZenonT(40)
<1> QED BY <1>6, <1>7

\* handle_txn_commit answers the commit it works on and sets it has taken off the list.
LEMMA CommitAccounted ==
  ASSUME IInv, NEW t \in Task, HandleTxnCommit(t)
  PROVE  TasksAccounted'
<1> USE DEF TasksAccounted, HeldWhilePending, HeldOnce
<1>0. TypeOK /\ TasksAccounted /\ TdbTransactionOwned /\ txn_commits \in Seq(Task) /\ Exclusive(t)
  BY DEF IInv, TypeOK, Exclusive
<1>1. \A u \in Task : u # t /\ status[u] = "pending" => status'[u] = "pending"
  BY <1>0, OthersStayPending
<1>2. CASE ReceiveCommit(t)
  <2>1. /\ Receive(t, "commit") /\ pc' = "enter" /\ current' = t
        /\ UNCHANGED <<txn_commits, txn_msgs, status>>
    BY <1>2 DEF ReceiveCommit, storage, tasks
  <2>2. /\ ToSet(ex_port) = ToSet(ex_port') \cup {t} /\ t \notin ToSet(ex_port')
        /\ IsInjective(ex_port') /\ t # NoTask
    BY <1>0, <2>1, ReceiveTypes, TaskAssumption
  <2>3. cn_port' = cn_port
    BY <2>1 DEF Receive
  <2>4. HeldWhilePending'
    BY <1>0, <2>1, <2>2, <2>3
  <2>5. HeldOnce'
    BY <1>0, <2>1, <2>2, <2>3
  <2> QED BY <2>4, <2>5
<1>3. CASE CommitClosed(t) \/ CommitUnknown(t) \/ CommitNotStarted(t)
  <2>1. /\ t = current /\ pc' = "idle" /\ current' = NoTask
        /\ UNCHANGED <<ex_port, cn_port, txn_commits, txn_msgs>>
    BY <1>3 DEF CommitClosed, CommitUnknown, CommitNotStarted, Claim, Enter, Return, ports
  <2>2. NoTask \notin ToSet(ex_port) /\ NoTask \notin ToSet(txn_commits) /\ NoTask \notin cn_port
        /\ \A id \in TxnId : NoTask \notin ToSet(txn_msgs[id])
    BY <1>0, HeldTasks, TaskAssumption
  <2>3. HeldWhilePending'
    BY <1>0, <1>1, <2>1, HeldTasks DEF TypeOK
  <2>4. HeldOnce'
    BY <1>0, <2>1, <2>2, SMTT(60)
  <2> QED BY <2>3, <2>4
<1>4. CASE CommitPostponed(t)
  <2>1. /\ t = current /\ pc' = "idle" /\ current' = NoTask /\ txn_commits' = Append(txn_commits, t)
        /\ UNCHANGED <<ex_port, cn_port, txn_msgs, status>>
    BY <1>4 DEF CommitPostponed, Enter, Return, ports
  <2>2. t # NoTask /\ t \notin ToSet(txn_commits)
    BY <1>0, <2>1, TaskAssumption
  <2>3. ToSet(txn_commits') = ToSet(txn_commits) \cup {t} /\ IsInjective(txn_commits')
    BY <1>0, <2>1, <2>2, AppendList
  <2>4. NoTask \notin ToSet(ex_port) /\ NoTask \notin ToSet(txn_commits) /\ NoTask \notin cn_port
        /\ \A id \in TxnId : NoTask \notin ToSet(txn_msgs[id])
    BY <1>0, HeldTasks, TaskAssumption
  <2>5. HeldWhilePending'
    BY <1>0, <2>1, <2>2, <2>3
  <2>6. /\ t \notin ToSet(ex_port) /\ t \notin cn_port
        /\ \A id \in TxnId : t \notin ToSet(txn_msgs[id])
    BY <1>0, <2>1
  <2>7. HeldOnce'
    <3>1. ToSet(ex_port') \cap (cn_port' \cup ToSet(txn_commits') \cup {current'}) = {}
      BY <1>0, <2>1, <2>3, <2>4, <2>6
    <3>2. \A id \in TxnId :
            ToSet(txn_msgs'[id]) \cap (ToSet(ex_port') \cup cn_port' \cup ToSet(txn_commits') \cup {current'}) = {}
      BY <1>0, <2>1, <2>3, <2>4, <2>6
    <3>3. current' \notin ToSet(txn_commits') /\ cn_port' \cap (ToSet(txn_commits') \cup {current'}) = {}
      BY <1>0, <2>1, <2>2, <2>3, <2>4, <2>6
    <3> QED BY <1>0, <2>1, <2>3, <3>1, <3>2, <3>3
  <2> QED BY <2>5, <2>7
<1>5. CASE CommitStarted(t)
  <2>1. /\ pc = "enter" /\ pc' = "run"
        /\ txn_msgs' = [txn_msgs EXCEPT ![request[t].txn] = Reverse(@)]
        /\ UNCHANGED <<ex_port, cn_port, txn_commits, status, current>>
    BY <1>5 DEF CommitStarted, Run, Claim, Enter, ports
  <2>2. \A id \in TxnId : txn_msgs[id] \in Seq(Task) /\ txn_msgs'[id] \in {txn_msgs[id], Reverse(txn_msgs[id])}
    BY <1>0, <2>1 DEF TypeOK
  <2>3. \A id \in TxnId : ToSet(txn_msgs'[id]) = ToSet(txn_msgs[id]) /\ IsInjective(txn_msgs'[id])
    BY <1>0, <2>2, ReverseList
  <2>4. HeldWhilePending'
    BY <1>0, <2>1, <2>3
  <2>5. HeldOnce'
    BY <1>0, <2>1, <2>3
  <2> QED BY <2>4, <2>5
<1>6. CASE TxnStateRun(t)
  <2>1. /\ pc = "run" /\ pc' \in {"run", "abort"} /\ txn_msgs[txn] # <<>> /\ t = Head(txn_msgs[txn])
        /\ txn_msgs' = [txn_msgs EXCEPT ![txn] = Tail(@)]
        /\ UNCHANGED <<ex_port, cn_port, txn_commits, current>>
    BY <1>6 DEF TxnStateRun, ports
  <2>2. txn \in TxnId /\ txn_msgs[txn] \in Seq(Task)
    BY <1>0, <2>1 DEF TdbTransactionOwned, RunsSets, TypeOK
  <2>3. /\ ToSet(txn_msgs[txn]) = ToSet(Tail(txn_msgs[txn])) \cup {t}
        /\ IsInjective(Tail(txn_msgs[txn])) /\ t \notin ToSet(Tail(txn_msgs[txn]))
    BY <1>0, <2>1, <2>2, TailList
  <2>4. txn_msgs'[txn] = Tail(txn_msgs[txn]) /\ \A id \in TxnId \ {txn} : txn_msgs'[id] = txn_msgs[id]
    BY <1>0, <2>1, <2>2 DEF TypeOK
  <2>5. /\ t \in ToSet(txn_msgs[txn])
        /\ \A id \in TxnId : ToSet(txn_msgs'[id]) \subseteq ToSet(txn_msgs[id]) /\ IsInjective(txn_msgs'[id])
        /\ \A id \in TxnId : t \notin ToSet(txn_msgs'[id])
    BY <1>0, <2>2, <2>3, <2>4
  <2>6. t # current /\ t \notin ToSet(ex_port) /\ t \notin cn_port /\ t \notin ToSet(txn_commits)
    BY <1>0, <2>2, <2>5
  <2>7. HeldWhilePending'
    <3>1. current \in Task /\ current # NoTask /\ status'[current] = "pending"
      BY <1>0, <1>1, <2>1, <2>6 DEF TypeOK
    <3>2. \A u \in ToSet(ex_port) \cup cn_port \cup ToSet(txn_commits) : u \in Task /\ u # t
      BY <1>0, <2>6, HeldTasks
    <3>3. \A id \in TxnId : \A u \in ToSet(txn_msgs'[id]) : u \in Task /\ u # t /\ status[u] = "pending"
      BY <1>0, <2>5, HeldTasks
    <3> QED BY <1>0, <1>1, <2>1, <3>1, <3>2, <3>3
  <2>8. HeldOnce'
    BY <1>0, <2>1, <2>5
  <2> QED BY <2>7, <2>8
<1>7. CASE CommitDone(t) \/ CommitAborted(t)
  <2>1. t = current /\ EndCommit /\ UNCHANGED <<ex_port, cn_port>>
    BY <1>7 DEF CommitDone, CommitAborted, Failing, EndCommit, NextCommit, ports
  <2>2. \A id \in TxnId : txn_msgs'[id] \in {txn_msgs[id], <<>>}
    BY <2>1 DEF EndCommit, NextCommit, Drop
  <2>3. \A id \in TxnId : ToSet(txn_msgs'[id]) \subseteq ToSet(txn_msgs[id]) /\ IsInjective(txn_msgs'[id])
    BY <1>0, <2>2, EmptyList
  <2>4. CASE txn_commits = <<>>
    <3>1. pc' = "idle" /\ current' = NoTask /\ txn_commits' = txn_commits
      BY <2>1, <2>4 DEF EndCommit, NextCommit, Return
    <3>2. NoTask \notin ToSet(ex_port) /\ NoTask \notin ToSet(txn_commits) /\ NoTask \notin cn_port
          /\ \A id \in TxnId : NoTask \notin ToSet(txn_msgs[id])
      BY <1>0, HeldTasks, TaskAssumption
    <3>3. HeldWhilePending'
      BY <1>0, <1>1, <2>1, <2>3, <3>1, HeldTasks DEF TypeOK
    <3>4. HeldOnce'
      <4>1. ToSet(ex_port') \cap (cn_port' \cup ToSet(txn_commits') \cup {current'}) = {}
        BY <1>0, <2>1, <3>1, <3>2
      <4>2. \A id \in TxnId :
              ToSet(txn_msgs'[id]) \cap (ToSet(ex_port') \cup cn_port' \cup ToSet(txn_commits') \cup {current'}) = {}
        BY <1>0, <2>1, <2>3, <3>1, <3>2
      <4>3. current' \notin ToSet(txn_commits') /\ cn_port' \cap (ToSet(txn_commits') \cup {current'}) = {}
        BY <1>0, <2>1, <3>1, <3>2
      <4>4. \A i, j \in TxnId : i # j => ToSet(txn_msgs'[i]) \cap ToSet(txn_msgs'[j]) = {}
        BY <1>0, <2>3
      <4> QED BY <1>0, <2>1, <2>3, <3>1, <4>1, <4>2, <4>3, <4>4
    <3> QED BY <3>3, <3>4
  <2>5. CASE txn_commits # <<>>
    <3>1. pc' = "enter" /\ current' = Head(txn_commits) /\ txn_commits' = Tail(txn_commits)
      BY <2>1, <2>5 DEF EndCommit, NextCommit
    <3>2. /\ ToSet(txn_commits) = ToSet(txn_commits') \cup {current'} /\ current' \in Task
          /\ IsInjective(txn_commits') /\ current' \notin ToSet(txn_commits')
      BY <1>0, <2>5, <3>1, TailList
    <3>3. HeldWhilePending'
      <4>1. \A u \in ToSet(ex_port) \cup cn_port \cup ToSet(txn_commits) : u \in Task /\ u # t
        BY <1>0, <2>1, HeldTasks
      <4>2. \A id \in TxnId : \A u \in ToSet(txn_msgs'[id]) : u \in Task /\ u # t /\ status[u] = "pending"
        BY <1>0, <2>1, <2>3, HeldTasks
      <4>3. current' # NoTask /\ status'[current'] = "pending"
        BY <1>0, <1>1, <3>2, <4>1, TaskAssumption
      <4> QED BY <1>0, <1>1, <2>1, <3>1, <3>2, <4>1, <4>2, <4>3
    <3>4. HeldOnce'
      BY <1>0, <2>1, <2>3, <3>1, <3>2
    <3> QED BY <3>3, <3>4
  <2> QED BY <2>4, <2>5
<1> QED BY <1>2, <1>3, <1>4, <1>5, <1>6, <1>7 DEF HandleTxnCommit

\* An exclusive handler answers the message it has received, or keeps it in one list.
LEMMA ExclusiveAccounted ==
  ASSUME IInv, NEW t \in Task, Exclusive(t)
  PROVE  TasksAccounted'
<1>0. TypeOK
  BY DEF IInv
<1>1. CASE HandleOpen(t)
  <2>1. Receive(t, "open") /\ UNCHANGED worker /\ txn_commits' \in {txn_commits, <<>>}
        /\ \A id \in TxnId : txn_msgs'[id] \in {txn_msgs[id], <<>>}
    BY <1>1 DEF HandleOpen, TdbOpen
  <2> QED BY <2>1, ReceivedAccounted
<1>2. CASE HandleClose(t)
  BY <1>2, ReceivedAccounted DEF HandleClose
<1>3. CASE HandleTxnBegin(t)
  BY <1>3, ReceivedAccounted DEF HandleTxnBegin
<1>4. CASE HandleTxnCancel(t)
  <2>1. Receive(t, "cancel") /\ UNCHANGED <<worker, txn_commits>>
        /\ \A id \in TxnId : txn_msgs'[id] \in {txn_msgs[id], <<>>}
    BY <1>4 DEF HandleTxnCancel, Drop
  <2> QED BY <2>1, ReceivedAccounted
<1>5. CASE HandleSet(t)
  <2>1. Receive(t, "set") /\ UNCHANGED <<worker, txn_commits>>
    BY <1>5 DEF HandleSet
  <2>2. CASE UNCHANGED txn_msgs
    BY <2>1, <2>2, ReceivedAccounted
  <2>3. CASE /\ request[t].txn \in txn_state /\ status' = status
             /\ txn_msgs' = [txn_msgs EXCEPT ![request[t].txn] = Cons(t, @)]
    <3> USE DEF TasksAccounted, HeldWhilePending, HeldOnce
    <3> DEFINE id == request[t].txn
    <3>1. TasksAccounted /\ id \in TxnId /\ txn_msgs[id] \in Seq(Task)
      BY <1>0, <2>3 DEF IInv, TypeOK
    <3>2. /\ t \in ToSet(ex_port)
          /\ ToSet(ex_port) = ToSet(ex_port') \cup {t} /\ IsInjective(ex_port') /\ t \notin ToSet(ex_port')
      BY <1>0, <2>1, <3>1, ReceiveTypes
    <3>3. cn_port' = cn_port /\ pc' = pc /\ current' = current /\ txn_commits' = txn_commits
      BY <2>1 DEF Receive, worker
    <3>4. \A i \in TxnId : t \notin ToSet(txn_msgs[i])
      BY <3>1, <3>2
    <3>5. ToSet(Cons(t, txn_msgs[id])) = ToSet(txn_msgs[id]) \cup {t} /\ IsInjective(Cons(t, txn_msgs[id]))
      BY <3>1, <3>4, ConsList
    <3>6. txn_msgs'[id] = Cons(t, txn_msgs[id]) /\ \A i \in TxnId \ {id} : txn_msgs'[i] = txn_msgs[i]
      BY <1>0, <2>3, <3>1 DEF TypeOK
    <3> HIDE DEF id
    <3>7. /\ ToSet(txn_msgs'[id]) = ToSet(txn_msgs[id]) \cup {t}
          /\ \A i \in TxnId \ {id} : ToSet(txn_msgs'[i]) = ToSet(txn_msgs[i])
          /\ \A i \in TxnId : IsInjective(txn_msgs'[i])
      BY <3>1, <3>5, <3>6
    <3>8. HeldWhilePending'
      BY <2>3, <3>1, <3>2, <3>3, <3>7
    <3>9. HeldOnce'
      BY <3>1, <3>2, <3>3, <3>4, <3>7, SMTT(60)
    <3> QED BY <3>8, <3>9
  <2> QED BY <1>5, <2>2, <2>3 DEF HandleSet
<1>6. CASE HandleTxnCommit(t)
  BY <1>6, CommitAccounted
<1> QED BY <1>1, <1>2, <1>3, <1>4, <1>5, <1>6 DEF Exclusive
-----------------------------------------------------------------------------
(***************************************************************************)
(* Transactions: what they hold back, and what tdb has open for them.      *)
(***************************************************************************)
Transactions == DeferredBelong /\ ClosedIsClean /\ TdbTransactionOwned

\* A step that leaves the storage alone, and what is pending, keeps the transactions.
LEMMA FrameTransactions ==
  ASSUME IInv, UNCHANGED <<storage, worker, tdb_data, tdb_view, tdb_depth>>,
         UNCHANGED tdb_broken \/ TdbFails,
         \A u \in Task : status[u] = "pending" => request'[u] = request[u]
  PROVE  Transactions'
<1>1. TypeOK /\ TasksAccounted /\ DeferredBelong /\ ClosedIsClean /\ TdbTransactionOwned
  BY DEF IInv
<1>2. UNCHANGED <<db_ctx, txn, txn_state, txn_msgs, pc, current, tdb_data, tdb_view, tdb_depth>>
  BY DEF storage, worker
<1>3. DeferredBelong'
  BY <1>1, <1>2, HeldTasks DEF DeferredBelong, TasksAccounted, HeldWhilePending
<1>4. ClosedIsClean'
  BY <1>1, <1>2 DEF ClosedIsClean
<1>5. TdbTransactionOwned'
  <2>1. RunsSets => request'[current] = request[current]
    BY <1>1, TaskAssumption DEF RunsSets, TasksAccounted, HeldWhilePending, TypeOK
  <2>2. tdb_depth = 0 => ~tdb_broken'
    <3>1. ASSUME tdb_depth = 0 PROVE ~tdb_broken /\ ~(tdb_depth > 0)
      BY <1>1, <3>1 DEF TdbTransactionOwned
    <3> QED BY <3>1, Zenon DEF TdbFails
  <2> QED BY <1>1, <1>2, <2>1, <2>2 DEF TdbTransactionOwned, RunsSets
<1> QED BY <1>3, <1>4, <1>5 DEF Transactions

\* Clients and readers leave the transactions alone.
LEMMA OthersTransactions ==
  ASSUME IInv, NEW t \in Task, Client(t) \/ Concurrent(t) \/ Finish(t)
  PROVE  Transactions'
<1>0. TypeOK
  BY DEF IInv
<1>1. CASE Client(t)
  <2> PICK r \in Request : PostExclusive(t, r) \/ PostConcurrent(t, r)
    BY <1>0, <1>1, ClientPosts
  <2>1. status[t] = "free" /\ request' = [request EXCEPT ![t] = r] /\ UNCHANGED <<storage, worker, tdb>>
    BY DEF PostExclusive, PostConcurrent, Take
  <2>2. \A u \in Task : status[u] = "pending" => request'[u] = request[u]
    BY <1>0, <2>1 DEF TypeOK
  <2> QED BY <2>1, <2>2, FrameTransactions DEF tdb
<1>2. CASE Concurrent(t)
  <2>1. /\ UNCHANGED <<storage, worker, tdb_data, tdb_view, tdb_depth, request>>
        /\ UNCHANGED tdb_broken \/ TdbFails
    BY <1>2 DEF Concurrent, HandleGet, HandleCountKeys, Serve
  <2> QED BY <2>1, FrameTransactions
<1>3. CASE Finish(t)
  <2>1. /\ status[t] # "pending" /\ request' = [request EXCEPT ![t] = Blank]
        /\ UNCHANGED <<storage, worker, tdb>>
    BY <1>3 DEF Finish
  <2>2. \A u \in Task : status[u] = "pending" => request'[u] = request[u]
    BY <1>0, <2>1 DEF TypeOK
  <2> QED BY <2>1, <2>2, FrameTransactions DEF tdb
<1> QED BY <1>1, <1>2, <1>3

\* Forgetting a transaction leaves the sets of the others where they were.
LEMMA DropTransactions ==
  ASSUME IInv, NEW id, Drop(id), request' = request
  PROVE  DeferredBelong'
BY EmptyList DEF IInv, DeferredBelong, Drop

\* The handlers other than handle_txn_commit leave the view of a tdb without
\* transactions at what is on disk, and that of a closed storage is one.
LEMMA ReceivedTransactions ==
  ASSUME IInv, NEW t \in Task,
         HandleOpen(t) \/ HandleClose(t) \/ HandleSet(t) \/ HandleTxnBegin(t) \/ HandleTxnCancel(t)
  PROVE  Transactions'
<1>0. /\ TypeOK /\ TasksAccounted /\ DeferredBelong /\ ClosedIsClean /\ TdbTransactionOwned
      /\ pc = "idle" /\ pc' = "idle" /\ t \in ToSet(ex_port)
  <2>1. TypeOK /\ TasksAccounted /\ DeferredBelong /\ ClosedIsClean /\ TdbTransactionOwned
    BY DEF IInv
  <2>2. pc = "idle" /\ UNCHANGED worker /\ \E what : Receive(t, what)
    BY DEF HandleOpen, HandleClose, HandleSet, HandleTxnBegin, HandleTxnCancel, Receive
  <2>3. t \in ToSet(ex_port)
    BY <2>1, <2>2, ReceiveTypes
  <2> QED BY <2>1, <2>2, <2>3 DEF worker
<1>1. TdbTransactionOwned'
  <2>1. tdb_depth' = 0 => tdb_view' = tdb_data' /\ ~tdb_broken'
    <3>1. tdb_depth = 0 => tdb_view = tdb_data /\ ~tdb_broken
      BY <1>0 DEF TdbTransactionOwned
    <3>2. CASE HandleOpen(t) \/ HandleClose(t)
      BY <3>1, <3>2 DEF HandleOpen, TdbOpen, HandleClose, TdbDiscards, tdb
    <3>3. CASE HandleTxnBegin(t) \/ HandleTxnCancel(t)
      BY <3>1, <3>3 DEF HandleTxnBegin, HandleTxnCancel, tdb
    <3>4. CASE HandleSet(t)
      <4>1. CASE UNCHANGED tdb
        BY <3>1, <4>1 DEF tdb
      <4>2. CASE StoreData(t)
        BY <3>1, <4>2, <1>0 DEF StoreData, TdbStore, TdbFails, tdb, TypeOK
      <4> QED BY <3>4, <4>1, <4>2 DEF HandleSet
    <3> QED BY <3>2, <3>3, <3>4
  <2> QED BY <1>0, <2>1 DEF TdbTransactionOwned, RunsSets
<1>2. ClosedIsClean'
  <2>1. CASE db_ctx' = db_ctx /\ txn' = txn /\ txn_state' \subseteq txn_state /\ tdb_depth' = tdb_depth
    BY <1>0, <2>1 DEF ClosedIsClean
  <2>2. CASE HandleOpen(t) \/ HandleClose(t)
    BY <1>0, <2>2 DEF HandleOpen, TdbOpen, HandleClose, TdbDiscards, ClosedIsClean, tdb
  <2>3. CASE HandleTxnBegin(t)
    BY <1>0, <2>3 DEF HandleTxnBegin, ClosedIsClean, tdb
  <2>4. CASE HandleSet(t) \/ HandleTxnCancel(t)
    <3>1. UNCHANGED tdb \/ StoreData(t) => tdb_depth' = tdb_depth
      BY DEF StoreData, TdbStore, tdb
    <3> QED BY <2>1, <2>4, <3>1 DEF HandleSet, HandleTxnCancel, Drop
  <2> QED BY <2>2, <2>3, <2>4
<1>3. DeferredBelong'
  <2>1. CASE HandleOpen(t)
    <3>1. request' = request
      BY <2>1 DEF HandleOpen, TdbOpen
    <3>2. CASE db_ctx
      BY <1>0, <2>1, <3>1, <3>2 DEF HandleOpen, TdbOpen, DeferredBelong
    <3>3. CASE ~db_ctx
      <4>1. \A id \in TxnId : txn_msgs'[id] = <<>>
        BY <2>1, <3>3 DEF HandleOpen, TdbOpen
      <4> QED BY <4>1, EmptyList DEF DeferredBelong
    <3> QED BY <3>2, <3>3
  <2>2. CASE HandleClose(t)
    BY <1>0, <2>2 DEF HandleClose, DeferredBelong
  <2>3. CASE HandleTxnBegin(t)
    <3>1. /\ txn_msgs' = txn_msgs /\ txn_state \subseteq txn_state'
          /\ \A u \in Task : u # t => request'[u] = request[u]
      BY <1>0, <2>3 DEF HandleTxnBegin, TypeOK
    <3>2. \A id \in TxnId : t \notin ToSet(txn_msgs[id]) /\ ToSet(txn_msgs[id]) \subseteq Task
      BY <1>0, HeldTasks DEF TasksAccounted, HeldOnce
    <3> QED BY <1>0, <3>1, <3>2 DEF DeferredBelong
  <2>4. CASE HandleTxnCancel(t)
    <3>1. CASE db_ctx
      BY <2>4, <3>1, DropTransactions DEF HandleTxnCancel
    <3>2. CASE ~db_ctx
      BY <1>0, <2>4, <3>2 DEF HandleTxnCancel, DeferredBelong
    <3> QED BY <3>1, <3>2
  <2>5. CASE HandleSet(t)
    <3>1. request' = request /\ txn_state' = txn_state /\ request[t].what = "set"
      BY <2>5 DEF HandleSet, Receive
    <3>2. CASE UNCHANGED txn_msgs
      BY <1>0, <3>1, <3>2 DEF DeferredBelong
    <3>3. CASE /\ request[t].txn \in txn_state
               /\ txn_msgs' = [txn_msgs EXCEPT ![request[t].txn] = Cons(t, @)]
      <4> DEFINE id == request[t].txn
      <4>1. id \in TxnId /\ txn_msgs[id] \in Seq(Task)
        BY <1>0, <3>3 DEF TypeOK
      <4>2. txn_msgs'[id] = Cons(t, txn_msgs[id]) /\ \A i \in TxnId \ {id} : txn_msgs'[i] = txn_msgs[i]
        BY <1>0, <3>3, <4>1 DEF TypeOK
      <4>3. ToSet(Cons(t, txn_msgs[id])) = ToSet(txn_msgs[id]) \cup {t}
        BY <4>1, ConsList
      <4> QED BY <1>0, <3>1, <3>3, <4>2, <4>3 DEF DeferredBelong
    <3> QED BY <2>5, <3>2, <3>3 DEF HandleSet
  <2> QED BY <2>1, <2>2, <2>3, <2>4, <2>5
<1> QED BY <1>1, <1>2, <1>3 DEF Transactions

\* handle_txn_commit enters and leaves a tdb transaction with its own.
LEMMA CommitTransactions ==
  ASSUME IInv, NEW t \in Task, HandleTxnCommit(t)
  PROVE  Transactions'
<1>0. TypeOK /\ TasksAccounted /\ DeferredBelong /\ ClosedIsClean /\ TdbTransactionOwned
  BY DEF IInv
<1>1. CASE ReceiveCommit(t)
  <2>1. pc = "idle" /\ pc' = "enter" /\ UNCHANGED <<storage, tdb, request>>
    BY <1>1 DEF ReceiveCommit, Receive, tasks
  <2>2. DeferredBelong'
    BY <1>0, <2>1 DEF DeferredBelong, storage
  <2>3. ClosedIsClean' /\ TdbTransactionOwned'
    BY <1>0, <2>1 DEF ClosedIsClean, TdbTransactionOwned, RunsSets, storage, tdb
  <2> QED BY <2>2, <2>3 DEF Transactions
<1>2. CASE CommitClosed(t) \/ CommitPostponed(t) \/ CommitUnknown(t) \/ CommitNotStarted(t)
  <2>1. /\ pc = "enter" /\ pc' = "idle"
        /\ UNCHANGED <<db_ctx, txn_state, txn_msgs, tdb_data, tdb_view, tdb_depth, tdb_broken, request>>
        /\ ~db_ctx => txn' = txn
    BY <1>2 DEF CommitClosed, CommitPostponed, CommitUnknown, CommitNotStarted, Claim, Enter, Return
  <2>2. DeferredBelong'
    BY <1>0, <2>1 DEF DeferredBelong
  <2>3. ClosedIsClean' /\ TdbTransactionOwned'
    BY <1>0, <2>1 DEF ClosedIsClean, TdbTransactionOwned, RunsSets
  <2> QED BY <2>2, <2>3 DEF Transactions
<1>3. CASE CommitStarted(t)
  <2> DEFINE id == request[t].txn
  <2>1. /\ pc = "enter" /\ pc' = "run" /\ db_ctx /\ t = current /\ txn' = id /\ id \in txn_state
        /\ tdb_depth' = tdb_depth + 1 /\ txn_msgs' = [txn_msgs EXCEPT ![id] = Reverse(@)]
        /\ UNCHANGED <<db_ctx, txn_state, tdb_data, tdb_view, request, current>>
    BY <1>3 DEF CommitStarted, Run, Claim, Enter
  <2>2. \A i \in TxnId : txn_msgs[i] \in Seq(Task) /\ txn_msgs'[i] \in {txn_msgs[i], Reverse(txn_msgs[i])}
    BY <1>0, <2>1 DEF TypeOK
  <2>3. \A i \in TxnId : ToSet(txn_msgs'[i]) = ToSet(txn_msgs[i]) /\ (txn_msgs[i] = <<>> => txn_msgs'[i] = <<>>)
    BY <2>2, ReverseList
  <2>4. DeferredBelong'
    BY <1>0, <2>1, <2>3 DEF DeferredBelong
  <2>5. tdb_depth' > 0
    BY <1>0, <2>1 DEF TypeOK
  <2>6. ClosedIsClean' /\ TdbTransactionOwned'
    BY <2>1, <2>5 DEF ClosedIsClean, TdbTransactionOwned
  <2> QED BY <2>4, <2>6 DEF Transactions
<1>4. CASE TxnStateRun(t)
  <2>1. /\ pc = "run" /\ pc' \in {"run", "abort"} /\ txn_msgs[txn] # <<>>
        /\ txn_msgs' = [txn_msgs EXCEPT ![txn] = Tail(@)]
        /\ UNCHANGED <<db_ctx, txn, txn_state, request, current>>
    BY <1>4 DEF TxnStateRun
  <2>2. tdb_depth > 0 /\ txn \in txn_state /\ request[current].txn = txn /\ db_ctx
    BY <1>0, <2>1 DEF TdbTransactionOwned, RunsSets, ClosedIsClean
  <2>3. tdb_depth' = tdb_depth
    BY <1>4 DEF TxnStateRun, StoreData, TdbStore, tdb
  <2>4. txn \in TxnId /\ txn_msgs[txn] \in Seq(Task)
    BY <1>0, <2>2 DEF TypeOK
  <2>5. \A id \in TxnId : ToSet(txn_msgs'[id]) \subseteq ToSet(txn_msgs[id])
                          /\ (id # txn => txn_msgs'[id] = txn_msgs[id])
    BY <1>0, <2>1, <2>4, TailList DEF TypeOK
  <2>6. DeferredBelong'
    <3>1. ASSUME NEW id \in TxnId, id \notin txn_state PROVE txn_msgs'[id] = <<>>
      BY <1>0, <2>2, <2>5, <3>1 DEF DeferredBelong
    <3>2. ASSUME NEW id \in TxnId, NEW u \in ToSet(txn_msgs'[id])
          PROVE  request[u].what = "set" /\ request[u].txn = id
      <4>1. u \in ToSet(txn_msgs[id])
        BY <2>5, <3>2
      <4> QED BY <1>0, <4>1 DEF DeferredBelong
    <3>3. txn_state' = txn_state /\ request' = request
      BY <2>1
    <3> QED BY <3>1, <3>2, <3>3 DEF DeferredBelong
  <2>7. tdb_depth' > 0
    BY <2>2, <2>3
  <2>8. ClosedIsClean' /\ TdbTransactionOwned'
    BY <2>1, <2>2, <2>7 DEF ClosedIsClean, TdbTransactionOwned
  <2> QED BY <2>6, <2>8 DEF Transactions
<1>5. CASE CommitDone(t) \/ CommitAborted(t)
  <2>1. EndCommit /\ RunsSets /\ (TdbCommits \/ TdbRecovers \/ TdbCommitFails)
    BY <1>5 DEF CommitDone, CommitAborted, Failing, RunsSets
  <2>2. /\ Drop(txn) /\ pc' \in {"idle", "enter"} /\ db_ctx' = db_ctx /\ request' = request
    BY <2>1 DEF EndCommit, NextCommit, Return
  <2>3. DeferredBelong'
    BY <2>2, DropTransactions
  <2>4. tdb_depth \in Nat /\ tdb_depth > 0 /\ db_ctx
    BY <1>0, <2>1 DEF TdbTransactionOwned, ClosedIsClean, TypeOK, RunsSets
  <2>5. tdb_depth' = 0 => tdb_view' = tdb_data' /\ ~tdb_broken'
    BY <2>1, <2>4 DEF TdbCommits, TdbRecovers, TdbCommitFails, TdbDiscards, tdb
  <2>6. ClosedIsClean' /\ TdbTransactionOwned'
    BY <2>2, <2>4, <2>5 DEF ClosedIsClean, TdbTransactionOwned, RunsSets
  <2> QED BY <2>3, <2>6 DEF Transactions
<1> QED BY <1>1, <1>2, <1>3, <1>4, <1>5 DEF HandleTxnCommit
-----------------------------------------------------------------------------
(***************************************************************************)
(* The invariant is inductive.                                             *)
(***************************************************************************)
LEMMA NextIInv == IInv /\ [Next]_vars => IInv'
<1> SUFFICES ASSUME IInv, [Next]_vars PROVE IInv'
  OBVIOUS
<1>1. ASSUME NEW t \in Task, Client(t) \/ Exclusive(t) \/ Concurrent(t) \/ Finish(t)
      PROVE  IInv'
  <2>1. TypeOK'
    BY <1>1, ClientTypes, ExclusiveTypes, ConcurrentTypes, FinishTypes DEF IInv
  <2>2. BeginsBounded'
    BY <1>1, BeginsStep
  <2>3. TasksAccounted'
    BY <1>1, ClientAccounted, ExclusiveAccounted, ConcurrentAccounted, FinishAccounted
  <2>4. Transactions'
    BY <1>1, OthersTransactions, ReceivedTransactions, CommitTransactions DEF Exclusive
  <2> QED BY <2>1, <2>2, <2>3, <2>4 DEF IInv, Transactions
<1>2. CASE UNCHANGED vars
  BY <1>2
  DEF vars, storage, ports, worker, tdb, tasks, IInv, TypeOK, BeginsBounded, PendingBegins,
      TasksAccounted, HeldWhilePending, HeldOnce, DeferredBelong, ClosedIsClean, TdbTransactionOwned, RunsSets
<1> QED BY <1>1, <1>2 DEF Next

\* The inductive invariant holds in every reachable state.
THEOREM Invariance == Spec => []IInv
<1>1. Init => IInv
  BY InitIInv
<1>2. IInv /\ [Next]_vars => IInv'
  BY NextIInv
<1> QED BY <1>1, <1>2, PTL DEF Spec

(***************************************************************************)
(* Every reachable state is well typed, the bound on transactions included *)
(* (catalina_storage_init and every handler).                              *)
(***************************************************************************)
THEOREM TypeCorrect == Spec => []TypeOK
<1>1. IInv => TypeOK
  BY DEF IInv
<1> QED BY <1>1, Invariance, PTL

(***************************************************************************)
(* No handler is given a task that has been answered and may be freed, nor *)
(* one that another message still refers to: nothing is answered twice.    *)
(***************************************************************************)
THEOREM NoDanglingTask == Spec => []TasksAccounted
<1>1. IInv => TasksAccounted
  BY DEF IInv
<1> QED BY <1>1, Invariance, PTL

(***************************************************************************)
(* A closed storage has no transaction, registered or current, and tdb is  *)
(* not inside one, a failed tdb_close included (handle_close, handle_open).*)
(***************************************************************************)
THEOREM ClosingIsClean == Spec => []ClosedIsClean
<1>1. IInv => ClosedIsClean
  BY DEF IInv
<1> QED BY <1>1, Invariance, PTL

(***************************************************************************)
(* handle_txn_commit runs sets only inside a tdb transaction, and only of  *)
(* a registered transaction that is its own; and where no tdb transaction  *)
(* is open, the connection sees what is on disk.                           *)
(***************************************************************************)
THEOREM TdbTransactionsOwned == Spec => []TdbTransactionOwned
<1>1. IInv => TdbTransactionOwned
  BY DEF IInv
<1> QED BY <1>1, Invariance, PTL

(***************************************************************************)
(* A transaction never runs or drops a set that is not its own, and holds  *)
(* none back once it is over.                                              *)
(***************************************************************************)
THEOREM DeferredSetsBelong == Spec => []DeferredBelong
<1>1. IInv => DeferredBelong
  BY DEF IInv
<1> QED BY <1>1, Invariance, PTL
-----------------------------------------------------------------------------
(***************************************************************************)
(* Losses.  What the worker and the list of postponed commits hold are     *)
(* commits; a careful client's name a transaction, and are put off only    *)
(* behind the one that is current.                                         *)
(***************************************************************************)
Committing ==
  /\ \A t \in ToSet(txn_commits) : request[t].what = "commit"
  /\ pc # "idle" => request[current].what = "commit"
  /\ OneShot => /\ \A t \in Task : request[t].what = "commit" => request[t].txn # 0
                /\ txn_commits # <<>> => db_ctx /\ (txn # 0 \/ pc = "enter")

\* A pending task keeps its request, but for the id a begin is told.
LEMMA PendingKept ==
  ASSUME TypeOK, NEW t \in Task, Client(t) \/ Exclusive(t) \/ Concurrent(t) \/ Finish(t)
  PROVE  \A u \in Task : status[u] = "pending" =>
           /\ request'[u].what = request[u].what
           /\ request[u].what # "begin" => request'[u].txn = request[u].txn
<1>1. CASE Client(t)
  <2> PICK r \in Request : PostExclusive(t, r) \/ PostConcurrent(t, r)
    BY <1>1, ClientPosts
  <2>1. status[t] = "free" /\ request' = [request EXCEPT ![t] = r]
    BY DEF PostExclusive, PostConcurrent, Take
  <2> QED BY <2>1 DEF TypeOK
<1>2. CASE Finish(t)
  BY <1>2 DEF Finish, TypeOK
<1>3. CASE Exclusive(t) \/ Concurrent(t)
  <2>1. CASE request' = request
    BY <2>1
  <2>2. CASE HandleTxnBegin(t) /\ request' = [request EXCEPT ![t].txn = txn_seq']
    <3>1. request[t].what = "begin"
      BY <2>2, ReceiveTypes DEF HandleTxnBegin
    <3>2. request' = [request EXCEPT ![t] = [request[t] EXCEPT !.txn = txn_seq']] /\ request[t] \in Request
      BY <2>2 DEF TypeOK
    <3>3. request'[t].what = request[t].what /\ \A u \in Task \ {t} : request'[u] = request[u]
      BY <3>2 DEF TypeOK, Request
    <3> QED BY <3>1, <3>3
  <2> QED BY <1>3, <2>1, <2>2, ServerAnswers
<1> QED BY <1>1, <1>2, <1>3

\* A careful client commits only transactions it was given.
LEMMA CommitsNamed ==
  ASSUME TypeOK, OneShot, NEW t \in Task, Client(t)
  PROVE  request'[t].what = "commit" => request'[t].txn # 0
<1>1. ASSUME NEW r, Take(t, r) PROVE request'[t] = r
  BY <1>1 DEF Take, TypeOK
<1>2. CASE Open(t) \/ Close(t) \/ CountKeys(t) \/ Begin(t)
  BY <1>1, <1>2 DEF Open, Close, CountKeys, Begin, PostExclusive, PostConcurrent, Req
<1>3. CASE \E k \in Key : Get(t, k)
  BY <1>1, <1>3 DEF Get, PostConcurrent, Req
<1>4. CASE \E id \in 0..MaxTxn, k \in Key, v \in Value : Set(t, id, k, v)
  BY <1>1, <1>4 DEF Set, PostExclusive, Req
<1>5. CASE \E id \in 0..MaxTxn : Commit(t, id) \/ Cancel(t, id)
  BY <1>1, <1>5 DEF Commit, Cancel, EndTxn, PostExclusive, Req
<1> QED BY <1>2, <1>3, <1>4, <1>5 DEF Client

\* Steps that leave the worker and the postponed commits alone.
LEMMA CommittingElsewhere ==
  ASSUME IInv, Committing, NEW t \in Task, Client(t) \/ Concurrent(t) \/ Finish(t)
  PROVE  Committing'
<1>1. TypeOK /\ TasksAccounted
  BY DEF IInv
<1>2. UNCHANGED <<db_ctx, txn, txn_commits, pc, current>>
  <2>1. CASE Client(t)
    <3> PICK r \in Request : PostExclusive(t, r) \/ PostConcurrent(t, r)
      BY <1>1, <2>1, ClientPosts
    <3> QED BY DEF PostExclusive, PostConcurrent, Take, storage, worker
  <2>2. CASE Concurrent(t)
    BY <2>2 DEF Concurrent, HandleGet, HandleCountKeys, Serve, storage, worker
  <2>3. CASE Finish(t)
    BY <2>3 DEF Finish, storage, worker
  <2> QED BY <2>1, <2>2, <2>3
<1>3. \A u \in Task : status[u] = "pending" => request'[u].what = request[u].what
  BY <1>1, PendingKept
<1>4. \A u \in ToSet(txn_commits) : request'[u].what = "commit"
  BY <1>1, <1>3, HeldTasks DEF TasksAccounted, HeldWhilePending, Committing
<1>5. pc # "idle" => request'[current].what = "commit"
  BY <1>1, <1>3 DEF TasksAccounted, HeldWhilePending, Committing, TypeOK
<1>6. ASSUME OneShot, NEW u \in Task, request'[u].what = "commit" PROVE request'[u].txn # 0
  <2>1. CASE Client(t)
    <3> PICK r \in Request : PostExclusive(t, r) \/ PostConcurrent(t, r)
      BY <1>1, <2>1, ClientPosts
    <3>1. u # t => request'[u] = request[u]
      BY <1>1 DEF PostExclusive, PostConcurrent, Take, TypeOK
    <3> QED BY <1>1, <1>6, <2>1, <3>1, CommitsNamed DEF Committing
  <2>2. CASE Concurrent(t)
    <3>1. request' = request
      BY <2>2 DEF Concurrent, HandleGet, HandleCountKeys, Serve
    <3> QED BY <1>6, <3>1 DEF Committing
  <2>3. CASE Finish(t)
    <3>1. request'[t] = Blank /\ (u # t => request'[u] = request[u])
      BY <1>1, <2>3 DEF Finish, TypeOK
    <3> QED BY <1>6, <3>1 DEF Committing, Blank, Req
  <2> QED BY <2>1, <2>2, <2>3
<1> QED BY <1>2, <1>4, <1>5, <1>6 DEF Committing

\* A handler that returns at once leaves the worker idle, and keeps a closed storage clean.
LEMMA CommittingReceived ==
  ASSUME IInv, Committing, NEW t \in Task,
         HandleOpen(t) \/ HandleClose(t) \/ HandleSet(t) \/ HandleTxnBegin(t) \/ HandleTxnCancel(t)
  PROVE  /\ pc' = "idle" /\ txn_commits' \in {txn_commits, <<>>}
         /\ OneShot /\ txn_commits' # <<>> => db_ctx' /\ txn' # 0
<1>1. pc = "idle" /\ UNCHANGED worker
  BY DEF HandleOpen, HandleClose, HandleSet, HandleTxnBegin, HandleTxnCancel, Receive
<1>2. OneShot /\ txn_commits # <<>> => db_ctx /\ txn # 0
  BY <1>1 DEF Committing
<1>3. CASE HandleOpen(t)
  BY <1>1, <1>2, <1>3 DEF HandleOpen, worker
<1>4. CASE HandleClose(t)
  BY <1>1, <1>2, <1>4 DEF HandleClose, worker
<1>5. CASE HandleSet(t) \/ HandleTxnBegin(t) \/ HandleTxnCancel(t)
  BY <1>1, <1>2, <1>5 DEF HandleSet, HandleTxnBegin, HandleTxnCancel, worker
<1> QED BY <1>3, <1>4, <1>5

\* handle_txn_commit works on commits only.
LEMMA CommittingCommit ==
  ASSUME IInv, Committing, NEW t \in Task, HandleTxnCommit(t)
  PROVE  /\ \A u \in ToSet(txn_commits') : request[u].what = "commit"
         /\ pc' # "idle" => request[current'].what = "commit"
         /\ OneShot /\ txn_commits' # <<>> => db_ctx' /\ (txn' # 0 \/ pc' = "enter")
<1> USE DEF Committing
<1>1. TypeOK /\ TdbTransactionOwned /\ txn_commits \in Seq(Task) /\ (pc # "idle" => current \in Task)
  BY DEF IInv, TypeOK, TasksAccounted, HeldWhilePending
<1>2. CASE ReceiveCommit(t)
  BY <1>2 DEF ReceiveCommit, Receive, storage
<1>3. CASE CommitClosed(t) \/ CommitUnknown(t) \/ CommitNotStarted(t) \/ CommitStarted(t)
  <2>1. /\ t = current /\ pc = "enter" /\ txn_commits' = txn_commits /\ db_ctx' = db_ctx
        /\ pc' = "idle" \/ current' = current
        /\ ~db_ctx \/ txn' = request[t].txn
    BY <1>3
    DEF CommitClosed, CommitUnknown, CommitNotStarted, CommitStarted, Run, Claim, Enter, Return
  <2> QED BY <1>1, <2>1
<1>4. CASE CommitPostponed(t)
  <2>1. /\ t = current /\ pc = "enter" /\ txn_commits' = Append(txn_commits, t)
        /\ UNCHANGED <<db_ctx, txn>> /\ db_ctx /\ txn # 0 /\ pc' = "idle"
    BY <1>4 DEF CommitPostponed, Enter, Return
  <2>2. ToSet(txn_commits') = ToSet(txn_commits) \cup {t}
    BY <1>1, <2>1, AppendList
  <2> QED BY <2>1, <2>2
<1>5. CASE TxnStateRun(t)
  <2>1. pc = "run" /\ UNCHANGED <<db_ctx, txn, txn_commits, current>>
    BY <1>5 DEF TxnStateRun
  <2> QED BY <2>1
<1>6. CASE CommitDone(t) \/ CommitAborted(t)
  <2>1. NextCommit /\ db_ctx' = db_ctx /\ pc \in {"run", "abort"}
    BY <1>6 DEF CommitDone, CommitAborted, Failing, EndCommit
  <2>2. db_ctx
    BY <2>1 DEF IInv, ClosedIsClean
  <2>3. CASE txn_commits = <<>>
    BY <2>1, <2>3, EmptyList DEF NextCommit, Return
  <2>4. CASE txn_commits # <<>>
    <3>1. pc' = "enter" /\ current' = Head(txn_commits) /\ txn_commits' = Tail(txn_commits)
      BY <2>1, <2>4 DEF NextCommit
    <3>2. ToSet(txn_commits) = ToSet(txn_commits') \cup {current'}
      BY <1>1, <2>4, <3>1, TailList
    <3> QED BY <2>1, <2>2, <3>1, <3>2
  <2> QED BY <2>3, <2>4
<1> QED BY <1>2, <1>3, <1>4, <1>5, <1>6 DEF HandleTxnCommit

LEMMA CommittingStep ==
  ASSUME IInv, Committing, [Next]_vars
  PROVE  Committing'
<1>1. TypeOK /\ TasksAccounted /\ IInv'
  BY NextIInv DEF IInv
<1>2. CASE UNCHANGED vars
  BY <1>2 DEF Committing, vars, storage, ports, worker, tdb, tasks
<1>3. ASSUME NEW t \in Task, Client(t) \/ Concurrent(t) \/ Finish(t) PROVE Committing'
  BY <1>3, CommittingElsewhere
<1>4. ASSUME NEW t \in Task, Exclusive(t) PROVE Committing'
  <2>1. /\ \A u \in ToSet(txn_commits') : request[u].what = "commit"
        /\ pc' # "idle" => request[current'].what = "commit"
        /\ OneShot /\ txn_commits' # <<>> => db_ctx' /\ (txn' # 0 \/ pc' = "enter")
    <3>1. CASE HandleTxnCommit(t)
      BY <3>1, CommittingCommit
    <3>2. CASE HandleOpen(t) \/ HandleClose(t) \/ HandleSet(t) \/ HandleTxnBegin(t) \/ HandleTxnCancel(t)
      BY <3>2, CommittingReceived, EmptyList DEF Committing
    <3> QED BY <1>4, <3>1, <3>2 DEF Exclusive
  <2>2. \A u \in Task : request[u].what = "commit" => request'[u] = request[u]
    <3>1. CASE request' = request
      BY <3>1
    <3>2. CASE HandleTxnBegin(t) /\ request' = [request EXCEPT ![t].txn = txn_seq']
      <4>1. request[t].what = "begin"
        BY <1>1, <3>2, ReceiveTypes DEF HandleTxnBegin
      <4> QED BY <1>1, <3>2, <4>1 DEF TypeOK
    <3> QED BY <1>1, <1>4, <3>1, <3>2, ServerAnswers
  <2>3. \A u \in Task : request'[u].what = "commit" => request[u].what = "commit"
    <3>1. CASE request' = request
      BY <3>1
    <3>2. CASE HandleTxnBegin(t) /\ request' = [request EXCEPT ![t].txn = txn_seq']
      <4>1. request[t].what = "begin" /\ request[t] \in Request
        BY <1>1, <3>2, ReceiveTypes DEF HandleTxnBegin, TypeOK
      <4>2. request'[t].what = "begin" /\ \A u \in Task \ {t} : request'[u] = request[u]
        BY <1>1, <3>2, <4>1 DEF TypeOK, Request
      <4> QED BY <4>2
    <3> QED BY <1>1, <1>4, <3>1, <3>2, ServerAnswers
  <2>4. ToSet(txn_commits') \subseteq Task /\ (pc' # "idle" => current' \in Task)
    BY <1>1, ListElements DEF IInv, TypeOK, TasksAccounted, HeldWhilePending
  <2> QED BY <2>1, <2>2, <2>3, <2>4 DEF Committing
<1> QED BY <1>2, <1>3, <1>4 DEF Next

LEMMA CommittingInvariance == Spec => []Committing
<1>1. Init => Committing
  BY EmptyList DEF Init, Committing, Blank, Req
<1>2. IInv /\ Committing /\ [Next]_vars => Committing'
  BY CommittingStep
<1> QED BY <1>1, <1>2, Invariance, PTL DEF Spec

\* Where a task that is in hand no longer was, for a step that leaves the worker alone.
LEMMA ReceivedForgotten ==
  ASSUME IInv, NEW u \in Task, NEW what, Receive(u, what), UNCHANGED worker,
         NEW t \in Task, Forgotten(t)
  PROVE  /\ status[u] = "pending"
         /\ \/ t = u
            \/ t \in ToSet(txn_commits) /\ t \notin ToSet(txn_commits')
            \/ \E id \in TxnId : t \in ToSet(txn_msgs[id]) /\ t \notin ToSet(txn_msgs'[id])
<1>1. TypeOK /\ TasksAccounted
  BY DEF IInv
<1>2. u \in ToSet(ex_port) /\ ToSet(ex_port) = ToSet(ex_port') \cup {u}
  BY <1>1, ReceiveTypes
<1>3. cn_port' = cn_port /\ current' = current
  BY DEF Receive, worker
<1> QED BY <1>1, <1>2, <1>3 DEF Forgotten, InHand, TasksAccounted, HeldWhilePending

\* Requests and readers forget nothing; freeing a task takes nothing out of a hand.
LEMMA ElsewhereLosses ==
  ASSUME IInv, NEW u \in Task, Client(u) \/ Concurrent(u) \/ Finish(u), NEW t \in Task
  PROVE  ~Forgotten(t)
<1>1. TypeOK /\ TasksAccounted
  BY DEF IInv
<1>2. CASE Client(u)
  <2> PICK r \in Request : PostExclusive(u, r) \/ PostConcurrent(u, r)
    BY <1>1, <1>2, ClientPosts
  <2>1. UNCHANGED <<txn_commits, txn_msgs, current>>
    BY DEF PostExclusive, PostConcurrent, Take, storage, worker
  <2>2. cn_port \subseteq cn_port' /\ ToSet(ex_port) \subseteq ToSet(ex_port')
    <3>1. ToSet(Append(ex_port, u)) = ToSet(ex_port) \cup {u}
      BY <1>1, AppendList DEF TypeOK
    <3>2. cn_port \subseteq cn_port' /\ ex_port' \in {ex_port, Append(ex_port, u)}
      BY DEF PostExclusive, PostConcurrent
    <3> QED BY <3>1, <3>2
  <2> QED BY <2>1, <2>2 DEF Forgotten, InHand
<1>3. CASE Concurrent(u)
  <2>1. /\ u \in cn_port /\ cn_port' = cn_port \ {u}
        /\ UNCHANGED <<ex_port, txn_commits, txn_msgs, current>>
    BY <1>3 DEF Concurrent, HandleGet, HandleCountKeys, Serve, storage, worker
  <2>2. status[u] = "pending"
    BY <1>1, <2>1 DEF TasksAccounted, HeldWhilePending
  <2>3. status'[u] # "pending"
    BY <1>1, <1>3 DEF Concurrent, HandleGet, HandleCountKeys, Succeed, Complete, TypeOK
  <2> QED BY <2>1, <2>2, <2>3 DEF Forgotten, InHand
<1>4. CASE Finish(u)
  <2>1. UNCHANGED <<ex_port, cn_port, txn_commits, txn_msgs, current>>
    BY <1>4 DEF Finish, storage, ports, worker
  <2> QED BY <2>1 DEF Forgotten, InHand
<1> QED BY <1>2, <1>3, <1>4

\* handle_open forgets commits put off; with the transactions nothing is lost, there are none.
LEMMA OpenLosses ==
  ASSUME IInv, Committing, NEW u \in Task, HandleOpen(u), NEW t \in Task, Forgotten(t)
  PROVE  KnownLoss(t)
<1>1. TypeOK /\ DeferredBelong /\ ClosedIsClean
  BY DEF IInv
<1>2. Receive(u, "open") /\ UNCHANGED worker /\ request[u].what = "open"
  BY DEF HandleOpen, Receive
<1>3. status'[u] \in {"succeeded", "failed"}
  BY <1>1 DEF HandleOpen, Fail, Succeed, Complete, TypeOK
<1>4. t # u /\ status[u] = "pending"
  BY <1>2, <1>3, ReceivedForgotten DEF Forgotten
<1>5. \A id \in TxnId : ToSet(txn_msgs[id]) \subseteq ToSet(txn_msgs'[id])
  <2>1. CASE db_ctx
    BY <2>1 DEF HandleOpen
  <2>2. CASE ~db_ctx
    <3>1. \A id \in TxnId : txn_msgs[id] = <<>>
      BY <1>1, <2>2 DEF DeferredBelong, ClosedIsClean
    <3> QED BY <3>1, EmptyList
  <2> QED BY <2>1, <2>2
<1>6. t \in ToSet(txn_commits) /\ t \notin ToSet(txn_commits')
  BY <1>2, <1>4, <1>5, ReceivedForgotten
<1>7. ~db_ctx /\ txn_commits # <<>>
  BY <1>6, EmptyList DEF HandleOpen
<1>8. ~OneShot
  BY <1>7 DEF Committing
<1> QED BY <1>2, <1>3, <1>4, <1>6, <1>8 DEF KnownLoss, Answered

\* Closing and beginning answer, and forget nothing.
LEMMA PlainLosses ==
  ASSUME IInv, NEW u \in Task, HandleClose(u) \/ HandleTxnBegin(u), NEW t \in Task
  PROVE  ~Forgotten(t)
<1>1. SUFFICES ASSUME Forgotten(t) PROVE FALSE
  OBVIOUS
<1>2. TypeOK
  BY DEF IInv
<1>3. PICK what : Receive(u, what)
  BY DEF HandleClose, HandleTxnBegin
<1>4. UNCHANGED <<worker, txn_commits, txn_msgs>>
  BY DEF HandleClose, HandleTxnBegin
<1>5. status'[u] # "pending"
  BY <1>2 DEF HandleClose, HandleTxnBegin, Fail, Succeed, Complete, TypeOK
<1> QED BY <1>1, <1>3, <1>4, <1>5, ReceivedForgotten DEF Forgotten

\* handle_set answers, puts off, or meets its g_return_if_fail.
LEMMA SetLosses ==
  ASSUME IInv, NEW u \in Task, HandleSet(u), NEW t \in Task, Forgotten(t)
  PROVE  KnownLoss(t)
<1>1. TypeOK
  BY DEF IInv
<1>2. /\ Receive(u, "set") /\ UNCHANGED <<worker, txn_commits>>
      /\ request[u].what = "set" /\ pc = "idle"
  BY DEF HandleSet, Receive
<1>3. CASE txn_msgs' = txn_msgs
  <2>1. t = u /\ status[u] = "pending"
    BY <1>2, <1>3, ReceivedForgotten
  <2>2. ~(Fail(u) \/ StoreData(u))
    BY <1>1, <2>1 DEF Forgotten, StoreData, Fail, Succeed, Complete, TypeOK
  <2>3. \/ request[u].txn = 0 /\ txn # 0
        \/ request[u].txn \in txn_state /\ txn_msgs' = [txn_msgs EXCEPT ![request[u].txn] = Cons(u, @)]
    BY <2>2 DEF HandleSet
  <2>4. CASE request[u].txn \in txn_state /\ txn_msgs' = [txn_msgs EXCEPT ![request[u].txn] = Cons(u, @)]
    <3>1. request[u].txn \in TxnId /\ txn_msgs[request[u].txn] \in Seq(Task)
      BY <1>1, <2>4 DEF TypeOK
    <3>2. txn_msgs'[request[u].txn] = Cons(u, txn_msgs[request[u].txn])
      BY <1>1, <2>4, <3>1 DEF TypeOK
    <3>3. u \in ToSet(Cons(u, txn_msgs[request[u].txn]))
      BY <3>1, ConsList
    <3> QED BY <2>1, <3>1, <3>2, <3>3 DEF Forgotten, InHand
  <2> QED BY <1>2, <2>1, <2>3, <2>4 DEF KnownLoss
<1>4. CASE txn_msgs' # txn_msgs
  <2> DEFINE id == request[u].txn
  <2>1. id \in txn_state /\ txn_msgs' = [txn_msgs EXCEPT ![id] = Cons(u, @)]
    BY <1>4 DEF HandleSet
  <2>2. id \in TxnId /\ txn_msgs[id] \in Seq(Task)
    BY <1>1, <2>1 DEF TypeOK
  <2>3. txn_msgs'[id] = Cons(u, txn_msgs[id]) /\ \A i \in TxnId \ {id} : txn_msgs'[i] = txn_msgs[i]
    BY <1>1, <2>1, <2>2 DEF TypeOK
  <2> HIDE DEF id
  <2>4. ToSet(Cons(u, txn_msgs[id])) = ToSet(txn_msgs[id]) \cup {u}
    BY ONLY <2>2, u \in Task, ConsList
  <2>5. \A i \in TxnId : ToSet(txn_msgs[i]) \subseteq ToSet(txn_msgs'[i])
    BY <2>2, <2>3, <2>4
  <2>6. t = u
    BY <1>2, <2>5, ReceivedForgotten
  <2> QED BY <2>2, <2>3, <2>4, <2>6 DEF Forgotten, InHand
<1> QED BY <1>3, <1>4

\* handle_txn_cancel forgets the sets of the transaction it ends.
LEMMA CancelLosses ==
  ASSUME IInv, NEW u \in Task, HandleTxnCancel(u), NEW t \in Task, Forgotten(t)
  PROVE  KnownLoss(t)
<1>1. TypeOK /\ DeferredBelong
  BY DEF IInv
<1>2. Receive(u, "cancel") /\ UNCHANGED <<worker, txn_commits>> /\ request[u].what = "cancel"
  BY DEF HandleTxnCancel, Receive
<1>3. status'[u] \in {"succeeded", "failed"}
  BY <1>1 DEF HandleTxnCancel, Succeed, Complete, TypeOK
<1>4. t # u /\ status[u] = "pending"
  BY <1>2, <1>3, ReceivedForgotten DEF Forgotten
<1>5. PICK id \in TxnId : t \in ToSet(txn_msgs[id]) /\ t \notin ToSet(txn_msgs'[id])
  BY <1>2, <1>4, ReceivedForgotten
<1>6. id = request[u].txn
  BY <1>5 DEF HandleTxnCancel, Drop
<1>7. request[t].what = "set" /\ request[t].txn = id
  BY <1>1, <1>5 DEF DeferredBelong
<1> QED BY <1>2, <1>3, <1>4, <1>6, <1>7 DEF KnownLoss, DroppedWithTxn, Answered

\* A commit that fails forgets the sets that are left of its transaction; nothing else of it does.
LEMMA CommitLosses ==
  ASSUME IInv, Committing, NEW u \in Task, HandleTxnCommit(u), NEW t \in Task, Forgotten(t)
  PROVE  KnownLoss(t)
<1> USE DEF Forgotten, InHand
<1>1. TypeOK /\ DeferredBelong /\ TdbTransactionOwned /\ TasksAccounted /\ txn_commits \in Seq(Task)
  BY DEF IInv, TypeOK
<1>2. CASE ReceiveCommit(u)
  <2>1. Receive(u, "commit") /\ current' = u /\ pc = "idle" /\ UNCHANGED <<txn_commits, txn_msgs>>
    BY <1>2 DEF ReceiveCommit, Receive, storage
  <2>2. ToSet(ex_port) = ToSet(ex_port') \cup {u} /\ cn_port' = cn_port
    BY <1>1, <2>1, ReceiveTypes DEF Receive
  <2>3. current = NoTask
    BY <1>1, <2>1 DEF TasksAccounted, HeldWhilePending
  <2> QED BY <2>1, <2>2, <2>3, TaskAssumption
<1>3. CASE CommitClosed(u) \/ CommitUnknown(u) \/ CommitNotStarted(u)
  <2>1. u = current /\ Fail(u) /\ UNCHANGED <<ex_port, cn_port, txn_commits, txn_msgs>>
    BY <1>3 DEF CommitClosed, CommitUnknown, CommitNotStarted, Claim, Enter, ports
  <2>2. status[u] = "pending" /\ status'[u] = "failed"
    BY <1>1, <2>1, TaskAssumption DEF Fail, Complete, TasksAccounted, HeldWhilePending, TypeOK
  <2> QED BY <2>1, <2>2
<1>4. CASE CommitPostponed(u)
  <2>1. /\ u = current /\ txn_commits' = Append(txn_commits, u)
        /\ UNCHANGED <<ex_port, cn_port, txn_msgs>>
    BY <1>4 DEF CommitPostponed, Enter, ports
  <2>2. ToSet(txn_commits') = ToSet(txn_commits) \cup {u}
    BY <1>1, <2>1, AppendList
  <2> QED BY <2>1, <2>2
<1>5. CASE CommitStarted(u)
  <2>1. /\ txn_msgs' = [txn_msgs EXCEPT ![request[u].txn] = Reverse(@)]
        /\ UNCHANGED <<ex_port, cn_port, txn_commits, current>>
    BY <1>5 DEF CommitStarted, Run, Claim, Enter, ports
  <2>2. \A id \in TxnId : txn_msgs[id] \in Seq(Task) /\ txn_msgs'[id] \in {txn_msgs[id], Reverse(txn_msgs[id])}
    BY <1>1, <2>1 DEF TypeOK
  <2>3. \A id \in TxnId : ToSet(txn_msgs'[id]) = ToSet(txn_msgs[id])
    BY <2>2, ReverseList
  <2> QED BY <2>1, <2>3
<1>6. CASE TxnStateRun(u)
  <2>1. /\ pc = "run" /\ txn_msgs[txn] # <<>> /\ u = Head(txn_msgs[txn]) /\ StoreData(u)
        /\ txn_msgs' = [txn_msgs EXCEPT ![txn] = Tail(@)]
        /\ UNCHANGED <<ex_port, cn_port, txn_commits, current>>
    BY <1>6 DEF TxnStateRun, ports
  <2>2. txn \in TxnId /\ txn_msgs[txn] \in Seq(Task)
    BY <1>1, <2>1 DEF TdbTransactionOwned, RunsSets, TypeOK
  <2>3. ToSet(txn_msgs[txn]) = ToSet(Tail(txn_msgs[txn])) \cup {u}
    BY <2>1, <2>2, TailList
  <2>4. txn_msgs'[txn] = Tail(txn_msgs[txn]) /\ \A id \in TxnId \ {txn} : txn_msgs'[id] = txn_msgs[id]
    BY <1>1, <2>1, <2>2 DEF TypeOK
  <2>5. status[u] = "pending"
    BY <1>1, <2>2, <2>3 DEF TasksAccounted, HeldWhilePending
  <2>6. status'[u] # "pending"
    BY <1>1, <2>1 DEF StoreData, Fail, Succeed, Complete, TypeOK
  <2> QED BY <2>1, <2>2, <2>3, <2>4, <2>5, <2>6
<1>7. CASE CommitDone(u) \/ CommitAborted(u)
  <2>1. /\ u = current /\ NextCommit /\ Drop(txn) /\ pc \in {"run", "abort"}
        /\ UNCHANGED <<ex_port, cn_port>>
    BY <1>7 DEF CommitDone, CommitAborted, Failing, EndCommit, ports
  <2>2. status[u] = "pending" /\ status'[u] \in {"succeeded", "failed"}
    BY <1>1, <1>7, <2>1, TaskAssumption
    DEF CommitDone, CommitAborted, Succeed, Complete, TasksAccounted, HeldWhilePending, TypeOK
  <2>3. ToSet(txn_commits) \subseteq ToSet(txn_commits') \cup {current'}
    <3>1. CASE txn_commits = <<>>
      BY <3>1, EmptyList
    <3>2. CASE txn_commits # <<>>
      <4>1. txn_commits' = Tail(txn_commits) /\ current' = Head(txn_commits)
        BY <2>1, <3>2 DEF NextCommit
      <4>2. ToSet(txn_commits) = ToSet(Tail(txn_commits)) \cup {Head(txn_commits)}
        BY <1>1, <3>2, TailList
      <4> QED BY <4>1, <4>2
    <3> QED BY <3>1, <3>2
  <2>4. PICK id \in TxnId : t \in ToSet(txn_msgs[id]) /\ t \notin ToSet(txn_msgs'[id])
    BY <2>1, <2>2, <2>3
  <2>5. id = txn /\ txn_msgs[txn] # <<>>
    BY <2>1, <2>4, EmptyList DEF Drop
  <2>6. request[t].what = "set" /\ request[t].txn = txn
    BY <1>1, <2>4, <2>5 DEF DeferredBelong
  <2>7. request[u].what = "commit" /\ request[u].txn = txn
    BY <1>1, <2>1 DEF Committing, TdbTransactionOwned, RunsSets
  <2>8. status'[u] = "failed"
    BY <1>1, <1>7, <2>5 DEF CommitDone, CommitAborted, Complete, TypeOK
  <2> QED BY <2>2, <2>6, <2>7, <2>8 DEF KnownLoss, DroppedWithTxn, Answered
<1> QED BY <1>2, <1>3, <1>4, <1>5, <1>6, <1>7 DEF HandleTxnCommit
-----------------------------------------------------------------------------
(***************************************************************************)
(* A request is in somebody's hands until it is answered, but for the sets *)
(* that meet the g_return_if_fail of handle_set, those that go with their  *)
(* transaction (txn_state_free), and the commits that handle_open forgets, *)
(* which a client that ends each transaction once never has there.         *)
(***************************************************************************)
THEOREM LossesKnown == Spec => OnlyKnownLosses
<1>1. ASSUME IInv, Committing, NEW t \in Task, Forgotten(t), [Next]_vars PROVE KnownLoss(t)
  <2>1. CASE UNCHANGED vars
    BY <1>1, <2>1 DEF Forgotten, InHand, vars, storage, ports, worker, tasks
  <2>2. ASSUME NEW u \in Task, Client(u) \/ Concurrent(u) \/ Finish(u) PROVE KnownLoss(t)
    BY <1>1, <2>2, ElsewhereLosses
  <2>3. ASSUME NEW u \in Task, Exclusive(u) PROVE KnownLoss(t)
    BY <1>1, <2>3, OpenLosses, PlainLosses, SetLosses, CancelLosses, CommitLosses DEF Exclusive
  <2> QED BY <1>1, <2>1, <2>2, <2>3 DEF Next
<1>2. IInv /\ Committing /\ [Next]_vars => [\A t \in Task : Forgotten(t) => KnownLoss(t)]_vars
  BY <1>1
<1> QED BY <1>2, Invariance, CommittingInvariance, PTL DEF Spec, OnlyKnownLosses
-----------------------------------------------------------------------------
(***************************************************************************)
(* What stays open.  Whoever waits for a commit asked for one, and a       *)
(* close is answered by the handler that closes.                           *)
(***************************************************************************)
DepthKept == tdb_depth' = tdb_depth /\ RunsSets' = RunsSets

\* Steps outside handle_txn_commit keep what is open, but for a close that is answered.
LEMMA OpenElsewhere ==
  ASSUME IInv, NEW t \in Task,
         \/ Client(t) \/ Concurrent(t) \/ Finish(t)
         \/ HandleOpen(t) \/ HandleClose(t) \/ HandleSet(t) \/ HandleTxnBegin(t) \/ HandleTxnCancel(t)
  PROVE  DepthKept \/ (Answered(t, "close") /\ ~LeftOpen')
<1>1. TypeOK /\ TasksAccounted
  BY DEF IInv
<1> USE DEF DepthKept, RunsSets
<1>2. CASE Client(t)
  <2> PICK r \in Request : PostExclusive(t, r) \/ PostConcurrent(t, r)
    BY <1>1, <1>2, ClientPosts
  <2> QED BY DEF PostExclusive, PostConcurrent, Take, worker, tdb
<1>3. CASE Concurrent(t) \/ Finish(t)
  BY <1>3 DEF Concurrent, HandleGet, HandleCountKeys, Serve, Finish, worker, tdb
<1>4. CASE HandleOpen(t) \/ HandleTxnBegin(t) \/ HandleTxnCancel(t)
  BY <1>4 DEF HandleOpen, TdbOpen, HandleTxnBegin, HandleTxnCancel, worker, tdb
<1>5. CASE HandleSet(t)
  <2>1. UNCHANGED tdb \/ StoreData(t)
    BY <1>5 DEF HandleSet
  <2> QED BY <1>5, <2>1 DEF HandleSet, StoreData, TdbStore, worker, tdb
<1>6. CASE HandleClose(t)
  <2>1. Receive(t, "close") /\ pc = "idle" /\ UNCHANGED worker
    BY <1>6 DEF HandleClose, Receive
  <2>2. CASE UNCHANGED tdb
    BY <2>1, <2>2 DEF worker, tdb
  <2>3. CASE TdbDiscards
    <3>1. status[t] = "pending" /\ request[t].what = "close"
      BY <1>1, <2>1, ReceiveTypes DEF TasksAccounted, HeldWhilePending
    <3>2. status'[t] # "pending"
      BY <1>1, <1>6 DEF HandleClose, Fail, Succeed, Complete, TypeOK
    <3>3. tdb_depth' = 0 /\ pc' = "idle"
      BY <2>1, <2>3 DEF TdbDiscards, worker
    <3> QED BY <3>1, <3>2, <3>3 DEF Answered, LeftOpen
  <2> QED BY <1>6, <2>2, <2>3 DEF HandleClose
<1> QED BY <1>2, <1>3, <1>4, <1>5, <1>6

\* handle_txn_commit closes what it opens, unless a set of it has failed.
LEMMA OpenCommit ==
  ASSUME IInv, Committing, NEW t \in Task, HandleTxnCommit(t)
  PROVE  \/ LeftOpen' = LeftOpen
         \/ LeftOpen' /\ pc = "abort" /\ Answered(current, "commit") /\ status'[current] = "failed"
<1>1. TypeOK /\ TasksAccounted /\ TdbTransactionOwned /\ tdb_depth \in Nat
  BY DEF IInv, TypeOK
<1> USE DEF LeftOpen, RunsSets
<1>2. CASE ReceiveCommit(t)
  BY <1>2 DEF ReceiveCommit, Receive, tdb
<1>3. CASE CommitClosed(t) \/ CommitPostponed(t) \/ CommitUnknown(t) \/ CommitNotStarted(t)
  <2>1. pc = "enter" /\ pc' = "idle" /\ tdb_depth' = tdb_depth
    BY <1>3 DEF CommitClosed, CommitPostponed, CommitUnknown, CommitNotStarted, Claim, Enter, Return
  <2> QED BY <2>1
<1>4. CASE CommitStarted(t)
  <2>1. pc = "enter" /\ pc' = "run" /\ tdb_depth' = tdb_depth + 1
    BY <1>4 DEF CommitStarted, Run, Claim, Enter
  <2> QED BY <1>1, <2>1
<1>5. CASE TxnStateRun(t)
  <2>1. pc = "run" /\ pc' \in {"run", "abort"} /\ tdb_depth' = tdb_depth
    BY <1>5 DEF TxnStateRun, StoreData, TdbStore, tdb
  <2> QED BY <2>1
<1>6. CASE CommitDone(t) \/ CommitAborted(t)
  <2>1. t = current /\ EndCommit /\ pc \in {"run", "abort"} /\ tdb_depth > 0
    BY <1>1, <1>6 DEF CommitDone, CommitAborted, Failing, TdbTransactionOwned
  <2>2. pc' \in {"idle", "enter"}
    BY <2>1 DEF EndCommit, NextCommit, Return
  <2>3. CASE pc = "run"
    <3>1. TdbCommits \/ TdbCommitFails
      BY <1>6, <2>3 DEF CommitDone, CommitAborted, Failing
    <3>2. tdb_depth' = tdb_depth - 1
      BY <1>1, <3>1 DEF TdbCommits, TdbCommitFails, TdbDiscards
    <3> QED BY <1>1, <2>1, <2>2, <2>3, <3>2
  <2>4. CASE pc = "abort"
    <3>1. Complete(t, "failed") /\ tdb_depth' = tdb_depth
      BY <1>6, <2>4 DEF CommitDone, CommitAborted, Failing, TdbRecovers, tdb
    <3>2. status[t] = "pending" /\ request[t].what = "commit"
      BY <1>1, <2>1, <2>4, TaskAssumption DEF TasksAccounted, HeldWhilePending, Committing
    <3>3. status'[t] = "failed"
      BY <1>1, <3>1 DEF Complete, TypeOK
    <3> QED BY <2>1, <2>2, <2>4, <3>1, <3>2, <3>3 DEF Answered
  <2> QED BY <2>1, <2>3, <2>4
<1> QED BY <1>2, <1>3, <1>4, <1>5, <1>6 DEF HandleTxnCommit

(***************************************************************************)
(* A commit closes the tdb transaction it opens, whatever fails in it but  *)
(* a set of its own; then the transaction stays open, under every later    *)
(* begin, set and commit, until a close that is answered discards what was *)
(* stored in it (handle_txn_commit, handle_close).                         *)
(***************************************************************************)
THEOREM LeavingOpenHasCause == Spec => LeftOpenByFailedSet
<1> DEFINE Caused ==
      /\ ~LeftOpen /\ LeftOpen' => pc = "abort" /\ Answered(current, "commit") /\ status'[current] = "failed"
      /\ LeftOpen /\ ~LeftOpen' => \E t \in Task : Answered(t, "close")
<1>1. ASSUME IInv, Committing, [Next]_vars PROVE Caused
  <2>1. CASE UNCHANGED vars
    BY <2>1 DEF vars, worker, tdb, LeftOpen, RunsSets
  <2>2. ASSUME NEW t \in Task, DepthKept \/ (Answered(t, "close") /\ ~LeftOpen') PROVE Caused
    BY <2>2 DEF DepthKept, LeftOpen
  <2>3. ASSUME NEW t \in Task, HandleTxnCommit(t) PROVE Caused
    BY <1>1, <2>3, OpenCommit
  <2> QED BY <1>1, <2>1, <2>2, <2>3, OpenElsewhere DEF Next, Exclusive
<1>2. IInv /\ Committing /\ [Next]_vars => [Caused]_vars
  BY <1>1
<1> QED BY <1>2, Invariance, CommittingInvariance, PTL DEF Spec, LeftOpenByFailedSet
=============================================================================
