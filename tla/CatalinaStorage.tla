-------------------------- MODULE CatalinaStorage --------------------------
(***************************************************************************)
(* The transactional key/value store of catalina-storage.c: the client's   *)
(* requests, the two message ports, the handlers that the arbiter runs on  *)
(* them, and the transaction state that sits in front of tdb.              *)
(*                                                                         *)
(* A request of the API allocates a StorageTask and posts one message: to  *)
(* ex_port when its handler must run alone, to cn_port when it may run     *)
(* beside other readers.  The arbiter takes exclusive messages one by one, *)
(* in the order they were posted, and lets no reader in meanwhile; so an   *)
(* exclusive handler is one action here, except handle_txn_commit, whose   *)
(* loop over the deferred sets answers clients while it is under way and   *)
(* is therefore a machine of its own (pc, current).                        *)
(***************************************************************************)
EXTENDS Integers, FiniteSets, SequencesExt

CONSTANTS
  Task,        \* StorageTask slots: how many requests may be outstanding
  Key, Value,  \* what is stored; no property depends on their contents
  NoKey,       \* the key of a request that has none
  NoValue,     \* "no record": the value of an absent key, the result of a miss
  NoTask,      \* no message is being handled
  MaxTxn,      \* bound: transactions begun during a behaviour
  MaxPort,     \* bound: messages waiting in ex_port
  Faults,      \* which library calls may fail
  StrayFlags,  \* bits an uninitialised o_flags may hand to tdb_open
  OneShot      \* the client uses a transaction only until it ends it, once

FaultKind == {"open", "close", "start", "commit", "store", "transform", "fetch"}

ASSUME TaskAssumption == NoTask \notin Task /\ IsFiniteSet(Task)
ASSUME KeyAssumption == NoKey \notin Key /\ IsFiniteSet(Key)
ASSUME ValueAssumption == NoValue \notin Value
ASSUME BoundAssumption == MaxTxn \in Nat /\ MaxPort \in Nat
ASSUME FaultAssumption == Faults \subseteq FaultKind
ASSUME FlagAssumption == StrayFlags \subseteq {"O_TRUNC"}
ASSUME ClientAssumption == OneShot \in BOOLEAN

VARIABLES
  db_ctx,       \* priv->db_ctx is not NULL
  txn_seq,      \* priv->txn_seq
  txn,          \* priv->txn, the transaction being committed, 0 for none
  txn_commits,  \* priv->txn_commits, commits put off while txn is another's
  txn_state,    \* the keys of priv->txn_state
  txn_msgs,     \* TxnState.msgs of each transaction, newest first
  txn_error,    \* TxnState.error is set
  ex_port,      \* messages for the exclusive receiver
  cn_port,      \* messages for the concurrent receiver
  pc,           \* where the exclusive worker is
  current,      \* the commit it is working on
  tdb_data,     \* external: the committed records of the database
  tdb_view,     \* external: the records as this connection sees them
  tdb_depth,    \* external: tdb transactions begun and not over, each within the last
  tdb_broken,   \* external: an operation of theirs has failed on the file
  request,      \* what, txn_id, key and data of each StorageTask
  status,       \* whether the task is in use, and how it was completed
  result,       \* task->data of a get, task->value of a count
  handed        \* which transaction ids the client holds, and has ended

storage == <<db_ctx, txn_seq, txn, txn_commits, txn_state, txn_msgs, txn_error>>
ports   == <<ex_port, cn_port>>
worker  == <<pc, current>>
tdb     == <<tdb_data, tdb_view, tdb_depth, tdb_broken>>
tasks   == <<request, status, result>>
vars    == <<storage, ports, worker, tdb, tasks, handed>>

TxnId   == 1..MaxTxn
Content == [Key -> Value \cup {NoValue}]
Message == {"open", "close", "get", "set", "count", "begin", "commit", "cancel"}
Request == {r \in [what : Message \cup {"none"}, txn : 0..MaxTxn,
                    key : Key \cup {NoKey}, data : Value \cup {NoValue}] :
              r.what \in {"get", "set"} => r.key \in Key}
Status  == {"free", "pending", "succeeded", "failed"}
Result  == Value \cup {NoValue} \cup Nat

Empty == [k \in Key |-> NoValue]
Req(what, id, k, v) == [what |-> what, txn |-> id, key |-> k, data |-> v]
Blank == Req("none", 0, NoKey, NoValue)
Present(content) == Cardinality({k \in Key : content[k] # NoValue})

Init ==
  /\ db_ctx = FALSE
  /\ txn_seq = 0
  /\ txn = 0
  /\ txn_commits = <<>>
  /\ txn_state = {}
  /\ txn_msgs = [i \in TxnId |-> <<>>]
  /\ txn_error = [i \in TxnId |-> FALSE]
  /\ ex_port = <<>>
  /\ cn_port = {}
  /\ pc = "idle"
  /\ current = NoTask
  /\ tdb_data = Empty
  /\ tdb_view = Empty
  /\ tdb_depth = 0
  /\ tdb_broken = FALSE
  /\ request = [t \in Task |-> Blank]
  /\ status = [t \in Task |-> "free"]
  /\ result = [t \in Task |-> NoValue]
  /\ handed = [i \in TxnId |-> "new"]
-----------------------------------------------------------------------------
(***************************************************************************)
(* The client.  Each *_async (and each synchronous call) takes a fresh     *)
(* task and posts it; each *_finish reads the outcome and frees the task.  *)
(***************************************************************************)
Take(t, r) ==
  /\ status[t] = "free"
  /\ status' = [status EXCEPT ![t] = "pending"]
  /\ request' = [request EXCEPT ![t] = r]
  /\ UNCHANGED <<storage, worker, tdb, result>>

PostExclusive(t, r) ==
  /\ Take(t, r)
  /\ Len(ex_port) < MaxPort
  /\ ex_port' = Append(ex_port, t)
  /\ UNCHANGED cn_port

PostConcurrent(t, r) ==
  /\ Take(t, r)
  /\ cn_port' = cn_port \cup {t}
  /\ UNCHANGED <<ex_port, handed>>

Usable(id) == handed[id] = "open" \/ (handed[id] = "ended" /\ ~OneShot)

Open(t)  == PostExclusive(t, Req("open", 0, NoKey, NoValue)) /\ UNCHANGED handed
Close(t) == PostExclusive(t, Req("close", 0, NoKey, NoValue)) /\ UNCHANGED handed
Get(t, k) == PostConcurrent(t, Req("get", 0, k, NoValue))
CountKeys(t) == PostConcurrent(t, Req("count", 0, NoKey, NoValue))

Set(t, id, k, v) ==
  /\ id # 0 => Usable(id)
  /\ PostExclusive(t, Req("set", id, k, v))
  /\ UNCHANGED handed

PendingBegins == {t \in Task : status[t] = "pending" /\ request[t].what = "begin"}

Begin(t) ==
  /\ txn_seq + Cardinality(PendingBegins) < MaxTxn
  /\ PostExclusive(t, Req("begin", 0, NoKey, NoValue))
  /\ UNCHANGED handed

\* what is "commit" or "cancel"; id 0 is what begin_finish returned on failure
EndTxn(t, what, id) ==
  /\ id = 0 => ~OneShot
  /\ id # 0 => Usable(id)
  /\ PostExclusive(t, Req(what, id, NoKey, NoValue))
  /\ handed' = [i \in TxnId |-> IF i = id THEN "ended" ELSE handed[i]]
Commit(t, id) == EndTxn(t, "commit", id)
Cancel(t, id) == EndTxn(t, "cancel", id)

Finish(t) ==
  /\ status[t] \in {"succeeded", "failed"}
  /\ handed' = [i \in TxnId |->
                  IF request[t].what = "begin" /\ status[t] = "succeeded" /\ request[t].txn = i
                  THEN "open" ELSE handed[i]]
  /\ status' = [status EXCEPT ![t] = "free"]
  /\ request' = [request EXCEPT ![t] = Blank]
  /\ result' = [result EXCEPT ![t] = NoValue]
  /\ UNCHANGED <<storage, ports, worker, tdb>>
-----------------------------------------------------------------------------
(***************************************************************************)
(* Completing a task.  A set that fails while its transaction exists also  *)
(* marks the transaction (storage_task_fail).                              *)
(***************************************************************************)
Complete(t, verdict) == status' = [status EXCEPT ![t] = verdict]
Succeed(t) == Complete(t, "succeeded")

\* Mutant: a failing set marks every transaction
Marked_All(t) == [i \in TxnId |-> txn_error[i] \/ i \in txn_state]

Marked(t) == [i \in TxnId |-> txn_error[i] \/ (i = request[t].txn /\ i \in txn_state)]
Fail(t) == Complete(t, "failed") /\ txn_error' = Marked(t)

Receive(t, what) ==
  /\ pc = "idle"
  /\ ex_port # <<>>
  /\ t = Head(ex_port)
  /\ request[t].what = what
  /\ ex_port' = Tail(ex_port)
  /\ UNCHANGED <<cn_port, handed>>

\* tdb_open, with the o_flags that handle_open does not initialise
TdbOpen ==
  /\ \E flags \in SUBSET StrayFlags :
       tdb_data' = IF "O_TRUNC" \in flags THEN Empty ELSE tdb_data
  /\ tdb_view' = tdb_data'
  /\ UNCHANGED <<tdb_depth, tdb_broken>>

\* What the open transactions have stored is lost, by tdb_close or a failed commit.
TdbDiscards ==
  /\ tdb_view' = tdb_data
  /\ tdb_depth' = 0
  /\ tdb_broken' = FALSE
  /\ UNCHANGED tdb_data

\* A call that fails on the file may mark the transaction it is made in.
TdbFails == tdb_broken' \in {tdb_broken, tdb_depth > 0}

HandleOpen(t) ==
  /\ Receive(t, "open")
  /\ UNCHANGED <<txn_seq, worker, request, result>>
  /\ \/ /\ db_ctx
        /\ Fail(t)
        /\ UNCHANGED <<db_ctx, txn, txn_commits, txn_state, txn_msgs, tdb>>
     \/ /\ ~db_ctx
        /\ txn' = 0
        /\ txn_commits' = <<>>
        /\ txn_state' = {}
        /\ txn_msgs' = [i \in TxnId |-> <<>>]
        /\ txn_error' = [i \in TxnId |-> FALSE]
        /\ \/ /\ "open" \in Faults
              /\ Complete(t, "failed")
              /\ UNCHANGED <<db_ctx, tdb>>
           \/ /\ TdbOpen
              /\ db_ctx' = TRUE
              /\ Succeed(t)

\* Mutant: transactions are not looked for
HandleClose_Unguarded(t) ==
  /\ Receive(t, "close")
  /\ db_ctx' = FALSE
  /\ IF db_ctx THEN TdbDiscards /\ Succeed(t) ELSE UNCHANGED tdb /\ Complete(t, "failed")
  /\ UNCHANGED <<txn_seq, txn, txn_commits, txn_state, txn_msgs, txn_error, worker, request, result>>

HandleClose(t) ==
  /\ Receive(t, "close")
  /\ UNCHANGED <<txn_seq, txn, txn_commits, txn_state, txn_msgs, worker, request, result>>
  /\ \/ /\ ~db_ctx \/ txn # 0 \/ txn_state # {}
        /\ Fail(t)
        /\ UNCHANGED <<db_ctx, tdb>>
     \/ /\ db_ctx /\ txn = 0 /\ txn_state = {}
        /\ TdbDiscards
        /\ \/ "close" \in Faults /\ Fail(t) /\ UNCHANGED db_ctx
           \/ db_ctx' = FALSE /\ Succeed(t) /\ UNCHANGED txn_error

\* tdb_store, and tdb_traverse's view of it, outside or inside a tdb transaction
TdbStore(k, v) ==
  /\ tdb_view' = [tdb_view EXCEPT ![k] = v]
  /\ tdb_data' = IF tdb_depth > 0 THEN tdb_data ELSE tdb_view'
  /\ UNCHANGED <<tdb_depth, tdb_broken>>

\* handle_set beyond its early returns: transform, then store
StoreData(t) ==
  \/ /\ "transform" \in Faults
     /\ Fail(t)
     /\ UNCHANGED tdb
  \/ /\ "store" \in Faults
     /\ TdbFails
     /\ Fail(t)
     /\ UNCHANGED <<tdb_data, tdb_view, tdb_depth>>
  \/ /\ TdbStore(request[t].key, request[t].data)
     /\ Succeed(t)
     /\ UNCHANGED txn_error

Deferred(t) == request[t].txn # 0 /\ request[t].txn # txn

HandleSet(t) ==
  /\ Receive(t, "set")
  /\ UNCHANGED <<db_ctx, txn_seq, txn, txn_commits, txn_state, worker, request, result>>
  /\ \/ /\ ~db_ctx \/ (Deferred(t) /\ request[t].txn \notin txn_state)
        /\ Fail(t)
        /\ UNCHANGED <<txn_msgs, tdb>>
     \/ /\ db_ctx /\ Deferred(t) /\ request[t].txn \in txn_state
        /\ txn_msgs' = [txn_msgs EXCEPT ![request[t].txn] = Cons(t, @)]
        /\ UNCHANGED <<txn_error, status, tdb>>
     \/ /\ db_ctx /\ request[t].txn = 0 /\ txn # 0     \* g_return_if_fail
        /\ UNCHANGED <<txn_msgs, txn_error, status, tdb>>
     \/ /\ db_ctx /\ request[t].txn = txn
        /\ StoreData(t)
        /\ UNCHANGED txn_msgs

HandleTxnBegin(t) ==
  /\ Receive(t, "begin")
  /\ UNCHANGED <<db_ctx, txn, txn_commits, txn_msgs, worker, tdb, result, txn_error>>
  /\ \/ /\ ~db_ctx
        /\ Complete(t, "failed")
        /\ UNCHANGED <<txn_seq, txn_state, request>>
     \/ /\ db_ctx
        /\ txn_seq' = txn_seq + 1
        /\ txn_state' = txn_state \cup {txn_seq'}
        /\ request' = [request EXCEPT ![t].txn = txn_seq']
        /\ Succeed(t)

\* Mutant: txn_state_free leaves the messages behind
Drop_KeepsMessages(id) ==
  /\ txn_state' = txn_state \ {id}
  /\ txn_error' = [i \in TxnId |-> i # id /\ txn_error[i]]
  /\ UNCHANGED txn_msgs

\* g_hash_table_remove: txn_state_free drops the messages that are left
Drop(id) ==
  /\ txn_state' = txn_state \ {id}
  /\ txn_msgs' = [i \in TxnId |-> IF i = id THEN <<>> ELSE txn_msgs[i]]
  /\ txn_error' = [i \in TxnId |-> i # id /\ txn_error[i]]

\* txn_commits holds messages, never the TxnState that is looked for in it
HandleTxnCancel(t) ==
  /\ Receive(t, "cancel")
  /\ UNCHANGED <<db_ctx, txn_seq, txn, txn_commits, worker, tdb, request, result>>
  /\ \/ /\ ~db_ctx
        /\ Complete(t, "failed")
        /\ UNCHANGED <<txn_state, txn_msgs, txn_error>>
     \/ /\ db_ctx
        /\ Drop(request[t].txn)
        /\ Succeed(t)
-----------------------------------------------------------------------------
(***************************************************************************)
(* handle_txn_commit.  pc = "enter" is its entry, for the message just     *)
(* received or, by the call at its end, for the next postponed commit;     *)
(* "run" is the loop of txn_state_run, "abort" the loop left by an error.  *)
(***************************************************************************)
ReceiveCommit(t) ==
  /\ Receive(t, "commit")
  /\ pc' = "enter"
  /\ current' = t
  /\ UNCHANGED <<storage, tdb, tasks>>

Return == pc' = "idle" /\ current' = NoTask

Enter(t) ==
  /\ pc = "enter"
  /\ t = current
  /\ UNCHANGED <<db_ctx, txn_seq, txn_state, ports, tdb_data, tdb_view, tdb_broken, request, result, handed>>

CommitClosed(t) ==
  /\ Enter(t)
  /\ ~db_ctx
  /\ Fail(t)
  /\ Return
  /\ UNCHANGED <<txn, txn_commits, txn_msgs, tdb_depth>>

\* Mutant: the transaction is put off, not the message
CommitPostponed_ById(t) ==
  /\ Enter(t)
  /\ db_ctx
  /\ txn # 0 /\ txn # request[t].txn
  /\ txn_commits' = Append(txn_commits, request[t].txn)
  /\ Return
  /\ UNCHANGED <<txn, txn_msgs, txn_error, status, tdb_depth>>

CommitPostponed(t) ==
  /\ Enter(t)
  /\ db_ctx
  /\ txn # 0 /\ txn # request[t].txn
  /\ txn_commits' = Append(txn_commits, t)
  /\ Return
  /\ UNCHANGED <<txn, txn_msgs, txn_error, status, tdb_depth>>

Claim(t) ==
  /\ Enter(t)
  /\ db_ctx
  /\ txn \in {0, request[t].txn}
  /\ txn' = request[t].txn
  /\ UNCHANGED txn_commits

\* Mutant: the tdb transaction is started before the lookup
CommitUnknown_Started(t) ==
  /\ Claim(t)
  /\ request[t].txn \notin txn_state
  /\ tdb_depth' = tdb_depth + 1
  /\ Fail(t)
  /\ Return
  /\ UNCHANGED txn_msgs

CommitUnknown(t) ==
  /\ Claim(t)
  /\ request[t].txn \notin txn_state
  /\ Fail(t)
  /\ Return
  /\ UNCHANGED <<txn_msgs, tdb_depth>>

CommitNotStarted(t) ==
  /\ Claim(t)
  /\ request[t].txn \in txn_state
  /\ "start" \in Faults
  /\ Fail(t)
  /\ Return
  /\ UNCHANGED <<txn_msgs, tdb_depth>>

Run(t) ==
  /\ Claim(t)
  /\ request[t].txn \in txn_state
  /\ pc' = "run"
  /\ UNCHANGED <<txn_error, status, current>>

\* Mutant: the sets run outside any tdb transaction
CommitStarted_Bare(t) ==
  /\ Run(t)
  /\ txn_msgs' = [txn_msgs EXCEPT ![request[t].txn] = Reverse(@)]
  /\ UNCHANGED tdb_depth

\* Mutant: the sets run newest first
CommitStarted_Unordered(t) ==
  /\ Run(t)
  /\ tdb_depth' = tdb_depth + 1
  /\ UNCHANGED txn_msgs

\* tdb_transaction_start, inside a transaction that is open already if there is one
CommitStarted(t) ==
  /\ Run(t)
  /\ tdb_depth' = tdb_depth + 1
  /\ txn_msgs' = [txn_msgs EXCEPT ![request[t].txn] = Reverse(@)]

\* One turn of the loop: handle_set for the message under iter
TxnStateRun(t) ==
  /\ pc = "run"
  /\ txn_msgs[txn] # <<>>
  /\ t = Head(txn_msgs[txn])
  /\ txn_msgs' = [txn_msgs EXCEPT ![txn] = Tail(@)]
  /\ StoreData(t)
  /\ pc' = IF txn_error'[txn] THEN "abort" ELSE "run"
  /\ UNCHANGED <<db_ctx, txn_seq, txn, txn_commits, txn_state, ports, current, request, result, handed>>

\* Mutant: the postponed commit stays in the list
NextCommit_Peeks ==
  /\ IF txn_commits = <<>> THEN Return ELSE pc' = "enter" /\ current' = Head(txn_commits)
  /\ UNCHANGED txn_commits

\* The call of handle_txn_commit at its end, for the next postponed commit
NextCommit ==
  \/ /\ txn_commits = <<>>
     /\ Return
     /\ UNCHANGED txn_commits
  \/ /\ txn_commits # <<>>
     /\ pc' = "enter"
     /\ current' = Head(txn_commits)
     /\ txn_commits' = Tail(txn_commits)

\* Mutant: the transaction stays current
EndCommit_KeepsTxn ==
  /\ Drop(txn)
  /\ NextCommit
  /\ UNCHANGED <<db_ctx, txn_seq, txn, ports, request, result, handed>>

\* The transaction is over: forget it and turn to the next postponed commit
EndCommit ==
  /\ Drop(txn)
  /\ txn' = 0
  /\ NextCommit
  /\ UNCHANGED <<db_ctx, txn_seq, ports, request, result, handed>>

\* tdb_transaction_commit of the outermost transaction writes, of another does not.
TdbCommits ==
  /\ ~tdb_broken
  /\ tdb_depth' = tdb_depth - 1
  /\ tdb_data' = IF tdb_depth = 1 THEN tdb_view ELSE tdb_data
  /\ UNCHANGED <<tdb_view, tdb_broken>>

\* One that fails cancels the transaction, which only for the outermost undoes it.
TdbCommitFails ==
  \/ tdb_depth = 1 /\ (tdb_broken \/ "commit" \in Faults) /\ TdbDiscards
  \/ tdb_depth > 1 /\ tdb_broken /\ tdb_depth' = tdb_depth - 1 /\ UNCHANGED <<tdb_data, tdb_view, tdb_broken>>

\* Mutant: the loop leaves the last set out
CommitDone_Early(t) ==
  /\ pc = "run" /\ t = current
  /\ Len(txn_msgs[txn]) <= 1
  /\ TdbCommits
  /\ Succeed(t)
  /\ EndCommit

\* tdb_transaction_commit succeeds
CommitDone(t) ==
  /\ pc = "run" /\ t = current
  /\ txn_msgs[txn] = <<>>
  /\ TdbCommits
  /\ Succeed(t)
  /\ EndCommit

\* tdb_transaction_recover replays what a crash has left in the file, which is
\* nothing here: the transaction of a commit whose set failed stays open.
TdbRecovers == UNCHANGED tdb

\* A set of the commit has failed, or tdb_transaction_commit does.
Failing(t) ==
  /\ t = current
  /\ \/ pc = "abort" /\ TdbRecovers
     \/ pc = "run" /\ txn_msgs[txn] = <<>> /\ TdbCommitFails

\* Mutant: the transaction is kept for another try
CommitAborted_Kept(t) ==
  /\ Failing(t)
  /\ Complete(t, "failed")
  /\ txn' = 0
  /\ NextCommit
  /\ UNCHANGED <<db_ctx, txn_seq, txn_state, txn_msgs, txn_error, ports, request, result, handed>>

\* Mutant: the client is not told
CommitAborted_Silent(t) ==
  /\ Failing(t)
  /\ EndCommit
  /\ UNCHANGED status

CommitAborted(t) ==
  /\ Failing(t)
  /\ Complete(t, "failed")
  /\ EndCommit
-----------------------------------------------------------------------------
(***************************************************************************)
(* The concurrent receiver.  Readers change nothing the others read, so    *)
(* one action each; the arbiter keeps them out of an exclusive handler.    *)
(***************************************************************************)
Serve(t, what) ==
  /\ pc = "idle"
  /\ t \in cn_port
  /\ request[t].what = what
  /\ cn_port' = cn_port \ {t}
  /\ UNCHANGED <<storage, ex_port, worker, tdb_data, tdb_view, tdb_depth, request, handed>>

HandleGet(t) ==
  /\ Serve(t, "get")
  /\ LET value == tdb_view[request[t].key] IN
       \/ /\ ~db_ctx \/ value = NoValue
          /\ Complete(t, "failed")
          /\ UNCHANGED <<result, tdb_broken>>
       \/ /\ db_ctx /\ "fetch" \in Faults
          /\ TdbFails
          /\ Complete(t, "failed")
          /\ UNCHANGED result
       \/ /\ db_ctx /\ value # NoValue
          /\ result' = [result EXCEPT ![t] = value]
          /\ Succeed(t)
          /\ UNCHANGED tdb_broken

HandleCountKeys(t) ==
  /\ Serve(t, "count")
  /\ UNCHANGED tdb_broken
  /\ result' = [result EXCEPT ![t] = IF db_ctx THEN Present(tdb_view) ELSE 0]
  /\ Succeed(t)
-----------------------------------------------------------------------------
Client(t) ==
  \/ Open(t) \/ Close(t) \/ CountKeys(t) \/ Begin(t)
  \/ \E k \in Key : Get(t, k)
  \/ \E id \in 0..MaxTxn, k \in Key, v \in Value : Set(t, id, k, v)
  \/ \E id \in 0..MaxTxn : Commit(t, id) \/ Cancel(t, id)

HandleTxnCommit(t) ==
  \/ ReceiveCommit(t) \/ CommitClosed(t) \/ CommitPostponed(t) \/ CommitUnknown(t)
  \/ CommitNotStarted(t) \/ CommitStarted(t) \/ TxnStateRun(t)
  \/ CommitDone(t) \/ CommitAborted(t)

Exclusive(t) ==
  \/ HandleOpen(t) \/ HandleClose(t) \/ HandleSet(t) \/ HandleTxnBegin(t)
  \/ HandleTxnCancel(t) \/ HandleTxnCommit(t)

Concurrent(t) == HandleGet(t) \/ HandleCountKeys(t)

Next == \E t \in Task : Client(t) \/ Exclusive(t) \/ Concurrent(t) \/ Finish(t)

Spec == Init /\ [][Next]_vars

(***************************************************************************)
(* The arbiter schedules a posted message, and an exclusive handler, once  *)
(* entered, runs to its end.  A reader waits for the exclusive handler     *)
(* under way, but not for ever.  Nothing obliges a client to ask, but one  *)
(* that asked collects its answer.                                         *)
(***************************************************************************)
Fairness ==
  /\ WF_vars(\E t \in Task : Exclusive(t))
  /\ \A t \in Task : SF_vars(Concurrent(t)) /\ WF_vars(Finish(t))

FairSpec == Spec /\ Fairness
-----------------------------------------------------------------------------
\* Each variable keeps to its type.
TypeOK ==
  /\ db_ctx \in BOOLEAN /\ tdb_depth \in Nat /\ tdb_broken \in BOOLEAN
  /\ txn_seq \in 0..MaxTxn /\ txn \in 0..MaxTxn
  /\ txn_commits \in Seq(Task) /\ ex_port \in Seq(Task) /\ cn_port \subseteq Task
  /\ txn_state \subseteq TxnId
  /\ txn_msgs \in [TxnId -> Seq(Task)]
  /\ txn_error \in [TxnId -> BOOLEAN]
  /\ pc \in {"idle", "enter", "run", "abort"}
  /\ current \in Task \cup {NoTask}
  /\ tdb_data \in Content /\ tdb_view \in Content
  /\ request \in [Task -> Request]
  /\ status \in [Task -> Status]
  /\ result \in [Task -> Result]
  /\ handed \in [TxnId -> {"new", "open", "ended"}]

(***************************************************************************)
(* A task that a port, a transaction, the list of postponed commits or the *)
(* worker still refers to has not been answered, so its owner has not      *)
(* freed it (storage_task_free), and no two of them refer to the same one: *)
(* no handler meets a dangling pointer or answers a client twice.          *)
(***************************************************************************)
HeldWhilePending ==
  /\ \A t \in ToSet(ex_port) \cup cn_port \cup ToSet(txn_commits) : status[t] = "pending"
  /\ \A id \in TxnId : \A t \in ToSet(txn_msgs[id]) : status[t] = "pending"
  /\ pc = "idle" <=> current = NoTask
  /\ current # NoTask => status[current] = "pending"

HeldOnce ==
  /\ IsInjective(ex_port) /\ IsInjective(txn_commits)
  /\ \A id \in TxnId : IsInjective(txn_msgs[id])
  /\ ToSet(ex_port) \cap (cn_port \cup ToSet(txn_commits) \cup {current}) = {}
  /\ current \notin ToSet(txn_commits)
  /\ cn_port \cap (ToSet(txn_commits) \cup {current}) = {}
  /\ \A id \in TxnId :
       ToSet(txn_msgs[id]) \cap (ToSet(ex_port) \cup cn_port \cup ToSet(txn_commits) \cup {current}) = {}
  /\ \A i, j \in TxnId : i # j => ToSet(txn_msgs[i]) \cap ToSet(txn_msgs[j]) = {}

TasksAccounted == HeldWhilePending /\ HeldOnce

(***************************************************************************)
(* Conversely, a request is in somebody's hands until it is answered, and  *)
(* the ways to forget one are these: a set outside any transaction meets   *)
(* the g_return_if_fail of handle_set, the sets left in a transaction go   *)
(* with it when it is cancelled or its commit fails (txn_state_free), and  *)
(* handle_open discards the commits put off, if clients end transactions   *)
(* that do not exist or twice.                                             *)
(***************************************************************************)
InHand(t) ==
  \/ t \in ToSet(ex_port) \cup cn_port \cup ToSet(txn_commits) \cup {current}
  \/ \E id \in TxnId : t \in ToSet(txn_msgs[id])
Answered(t, what) == request[t].what = what /\ status'[t] # status[t]
DroppedWithTxn(t) ==
  request[t].what = "set" /\ \E c \in Task :
    /\ request[c].txn = request[t].txn
    /\ Answered(c, "cancel") \/ (Answered(c, "commit") /\ status'[c] = "failed")
Forgotten(t) == InHand(t) /\ ~InHand(t)' /\ status'[t] = status[t]
KnownLoss(t) ==
  \/ request[t].what = "set" /\ request[t].txn = 0 /\ pc = "idle" /\ txn # 0
  \/ DroppedWithTxn(t)
  \/ ~OneShot /\ t \in ToSet(txn_commits) /\ \E c \in Task : Answered(c, "open")
OnlyKnownLosses == [][\A t \in Task : Forgotten(t) => KnownLoss(t)]_vars

(***************************************************************************)
(* handle_close refuses while a transaction exists, and handle_open        *)
(* forgets them, so that a closed storage has none and tdb is not in one.  *)
(***************************************************************************)
ClosedIsClean ==
  ~db_ctx => txn = 0 /\ txn_state = {} /\ tdb_depth = 0 /\ pc \notin {"run", "abort"}

(***************************************************************************)
(* A commit runs sets only inside a tdb transaction, and only those of its *)
(* own, still registered transaction; and where no tdb transaction is open *)
(* the connection sees what is on disk.                                    *)
(***************************************************************************)
RunsSets == pc \in {"run", "abort"}
TdbTransactionOwned ==
  /\ RunsSets => tdb_depth > 0 /\ txn \in txn_state /\ request[current].txn = txn
  /\ tdb_depth = 0 => tdb_view = tdb_data /\ ~tdb_broken

(***************************************************************************)
(* A tdb transaction is left open behind a commit only if one of its sets  *)
(* failed, where handle_txn_commit recovers instead of cancelling, and it  *)
(* stays so, whatever is begun and committed within it, until a close.     *)
(***************************************************************************)
LeftOpen == tdb_depth > IF RunsSets THEN 1 ELSE 0
LeftOpenByFailedSet == [][
  /\ ~LeftOpen /\ LeftOpen' => pc = "abort" /\ Answered(current, "commit") /\ status'[current] = "failed"
  /\ LeftOpen /\ ~LeftOpen' => \E t \in Task : Answered(t, "close")]_vars

(***************************************************************************)
(* A transaction holds back only its own unanswered sets, and one that has *)
(* been committed or cancelled holds back nothing (txn_state_free).        *)
(***************************************************************************)
DeferredBelong ==
  \A id \in TxnId :
    /\ id \notin txn_state => txn_msgs[id] = <<>>
    /\ \A t \in ToSet(txn_msgs[id]) : request[t].what = "set" /\ request[t].txn = id

(***************************************************************************)
(* A commit that succeeded leaves no set of its transaction unanswered:    *)
(* every one the client issued before it has been stored.                  *)
(***************************************************************************)
CommitAnswersItsSets ==
  \A c, t \in Task :
    /\ request[c].what = "commit" /\ status[c] = "succeeded"
    /\ request[t].what = "set" /\ request[t].txn = request[c].txn
    => status[t] # "pending"

(***************************************************************************)
(* Between exclusive messages no transaction is current, so a set outside  *)
(* any transaction never meets the g_return_if_fail of handle_set, which   *)
(* would leave it unanswered, and no commit is put off.                    *)
(***************************************************************************)
IdleMeansNoTxn == pc = "idle" => txn = 0 /\ txn_commits = <<>>

(***************************************************************************)
(* An unanswered request is where a handler will find it: in a port, held  *)
(* back, put off or being worked on.  Only a set whose transaction is over *)
(* is nowhere, and waits for an answer that txn_state_free has given up.   *)
(***************************************************************************)
UnansweredAreHeld == \A t \in Task :
  status[t] = "pending" =>
    \/ InHand(t)
    \/ request[t].what = "set" /\ request[t].txn # 0 /\ request[t].txn \notin txn_state

(***************************************************************************)
(* The records on disk change only by a set outside any transaction, by a  *)
(* commit, or by an open that truncates them, and the change is reported   *)
(* as a success in the same step; while a failed commit has left its tdb   *)
(* transaction open, they do not change at all.                            *)
(***************************************************************************)
TransactedWritesOnlyAtCommit ==
  [][tdb_data' # tdb_data =>
       /\ ~LeftOpen
       /\ \E t \in Task :
            /\ status[t] = "pending" /\ status'[t] = "succeeded"
            /\ \/ request[t].what = "commit"
               \/ request[t].what = "set" /\ request[t].txn = 0
               \/ request[t].what = "open" /\ tdb_data' = Empty]_vars

\* Opening and closing the storage keeps what it holds.
DurableAcrossOpen ==
  [][db_ctx' # db_ctx => tdb_data' = tdb_data /\ tdb_view' = tdb_view]_vars

(***************************************************************************)
(* A commit that failed has been rolled back, as far as the storage's own  *)
(* records go: its transaction is gone, and is not the current one (the    *)
(* documentation of commit_finish).                                        *)
(***************************************************************************)
FailedCommitRolledBack ==
  \A c \in Task : LET id == request[c].txn IN
    request[c].what = "commit" /\ status[c] = "failed" /\ id # 0
    => id \notin txn_state /\ txn # id

(***************************************************************************)
(* And as far as tdb goes: when it is answered, the connection sees what   *)
(* is on disk, and nothing that a set of it has stored.                    *)
(***************************************************************************)
FailedCommitLeavesNothing ==
  [][\A c \in Task : Answered(c, "commit") /\ status'[c] = "failed" => tdb_view' = tdb_data']_vars

(***************************************************************************)
(* The loop of txn_state_run is left early only because the set it has     *)
(* just run has failed, never for an error of some earlier set or commit   *)
(* that is still in txn->error.                                            *)
(***************************************************************************)
AbortHasCause ==
  [][pc = "run" /\ pc' = "abort" =>
       \E t \in Task : /\ status[t] = "pending" /\ status'[t] = "failed"
                      /\ request[t].what = "set" /\ request[t].txn = txn]_vars

Outstanding(t) == status[t] = "pending"

(***************************************************************************)
(* Every posted request is answered, whatever libraries refuse and whatever*)
(* clients end, but for a set inside a transaction, which waits for its    *)
(* commit, and for a set or a commit that was asked while a transaction    *)
(* stayed current between messages (it could not be started, or does not   *)
(* exist): handle_set then drops the one and handle_txn_commit puts off    *)
(* the other.                                                              *)
(***************************************************************************)
Posted(t) == t \in ToSet(ex_port) \cup cn_port
LeftCurrent == pc = "idle" /\ txn # 0
DirectlyAnswered == \A t \in Task :
  Posted(t) /\ ~(request[t].what = "set" /\ request[t].txn # 0)
  ~> ~Outstanding(t) \/ (LeftCurrent /\ request[t].what \in {"set", "commit"})
=============================================================================
