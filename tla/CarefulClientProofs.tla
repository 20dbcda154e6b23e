------------------------ MODULE CarefulClientProofs ------------------------
(***************************************************************************)
(* What CatalinaStorage guarantees clients that end each transaction once, *)
(* when tdb can always start one, for any numbers of tasks, keys, values   *)
(* and transactions and whatever else fails.                               *)
(***************************************************************************)
EXTENDS CatalinaStorageProofs

Careful == OneShot /\ "start" \notin Faults

IsEnd(t) == request[t].what \in {"commit", "cancel"}
IsSet(t) == request[t].what = "set" /\ request[t].txn # 0
GaveOut(t) == request[t].what = "begin" /\ status[t] = "succeeded"

\* An id is given out once; the client that has it, and nobody else, ends it once.
Issued ==
  /\ \A t \in Task : status[t] = "free" => request[t].what = "none"
  /\ \A id \in txn_state : id <= txn_seq
  /\ \A id \in TxnId : handed[id] # "new" => id <= txn_seq
  /\ \A id \in TxnId : handed[id] = "open" => id \in txn_state
BeginsNew ==
  /\ \A t \in Task : GaveOut(t) => request[t].txn \in txn_state /\ handed[request[t].txn] = "new"
  /\ \A t, u \in Task : GaveOut(t) /\ GaveOut(u) /\ request[t].txn = request[u].txn => t = u
EndsOnce ==
  /\ \A t \in Task : IsEnd(t) =>
       /\ request[t].txn \in TxnId /\ handed[request[t].txn] = "ended"
       /\ status[t] = "pending" => request[t].txn \in txn_state
  /\ \A t, u \in Task : IsEnd(t) /\ IsEnd(u) /\ request[t].txn = request[u].txn => t = u
SetsOwned == \A t \in Task : IsSet(t) => handed[request[t].txn] # "new"
Ledger == Issued /\ BeginsNew /\ EndsOnce /\ SetsOwned

\* No commit is put off, and what the commit worker has in hand is a commit.
NoneCurrent ==
  /\ txn_commits = <<>>
  /\ pc \in {"idle", "enter"} => txn = 0
  /\ pc # "idle" => request[current].what = "commit"

\* The set of a transaction is in the port, before its end, or held back.
Ordered ==
  \A i \in 1..Len(ex_port), c \in Task :
    IsSet(ex_port[i]) /\ IsEnd(c) /\ request[c].txn = request[ex_port[i]].txn
    => \E j \in 1..Len(ex_port) : i < j /\ ex_port[j] = c
SetsWaiting ==
  \A t \in Task : IsSet(t) /\ status[t] = "pending" =>
    \/ t \in ToSet(ex_port) \/ t \in ToSet(txn_msgs[request[t].txn])
    \/ request[t].txn \notin txn_state

CInv ==
  /\ Ledger /\ NoneCurrent /\ Ordered /\ SetsWaiting
  /\ FailedCommitRolledBack /\ CommitAnswersItsSets
-----------------------------------------------------------------------------
(***************************************************************************)
(* The steps there are.                                                    *)
(***************************************************************************)
Kept == UNCHANGED <<request, handed, txn_seq, txn_commits>>
Verdict == {"succeeded", "failed"}
Answers(t, verdict) ==
  /\ status[t] = "pending"
  /\ status' = [status EXCEPT ![t] = verdict]
FromPort(t) ==
  /\ pc = "idle" /\ ex_port # <<>> /\ t = Head(ex_port)
  /\ status[t] = "pending"
  /\ ex_port' = Tail(ex_port)

StepPosted(t) == \E r \in Request :
  /\ status[t] = "free"
  /\ status' = [status EXCEPT ![t] = "pending"]
  /\ request' = [request EXCEPT ![t] = r]
  /\ UNCHANGED <<txn_seq, txn, txn_commits, txn_state, txn_msgs, pc, current>>
  /\ \/ ex_port' = Append(ex_port, t)
     \/ ex_port' = ex_port /\ r.what \in {"get", "count"}
  /\ \/ r.what \in {"open", "close", "get", "count", "begin"} /\ handed' = handed
     \/ r.what = "set" /\ handed' = handed /\ (r.txn # 0 => handed[r.txn] = "open")
     \/ /\ r.what \in {"commit", "cancel"} /\ r.txn \in TxnId /\ handed[r.txn] = "open"
        /\ handed' = [i \in TxnId |-> IF i = r.txn THEN "ended" ELSE handed[i]]

StepFinished(t) ==
  /\ status[t] \in {"succeeded", "failed"}
  /\ handed' = [i \in TxnId |-> IF GaveOut(t) /\ request[t].txn = i THEN "open" ELSE handed[i]]
  /\ status' = [status EXCEPT ![t] = "free"]
  /\ request' = [request EXCEPT ![t] = Blank]
  /\ UNCHANGED <<txn_seq, txn, txn_commits, txn_state, txn_msgs, pc, current, ex_port>>

StepAnswered(t) ==
  /\ FromPort(t) /\ Kept
  /\ \E verdict \in Verdict : Answers(t, verdict) /\ (request[t].what = "begin" => verdict = "failed")
  /\ request[t].what \in {"open", "close", "set", "begin"}
  /\ UNCHANGED <<pc, current, txn, txn_state, txn_msgs>>

StepServed(t) ==
  /\ t \in cn_port /\ pc = "idle" /\ Kept
  /\ \E verdict \in Verdict : Answers(t, verdict)
  /\ request[t].what \in {"get", "count"}
  /\ UNCHANGED <<pc, current, txn, txn_state, txn_msgs, ex_port>>

StepDeferred(t) ==
  /\ FromPort(t) /\ Kept
  /\ IsSet(t) /\ request[t].txn \in txn_state
  /\ txn_msgs' = [txn_msgs EXCEPT ![request[t].txn] = Cons(t, @)]
  /\ UNCHANGED <<status, pc, current, txn, txn_state>>

StepBegun(t) ==
  /\ FromPort(t)
  /\ request[t].what = "begin"
  /\ txn_seq' = txn_seq + 1
  /\ txn_state' = txn_state \cup {txn_seq'}
  /\ request' = [request EXCEPT ![t].txn = txn_seq']
  /\ Answers(t, "succeeded")
  /\ UNCHANGED <<handed, txn_commits, pc, current, txn, txn_msgs>>

StepCancelled(t) ==
  /\ FromPort(t) /\ Kept
  /\ request[t].what = "cancel"
  /\ Drop(request[t].txn)
  /\ Answers(t, "succeeded")
  /\ UNCHANGED <<pc, current, txn>>

StepReceived(t) ==
  /\ FromPort(t) /\ Kept
  /\ request[t].what = "commit"
  /\ pc' = "enter" /\ current' = t
  /\ UNCHANGED <<status, txn, txn_state, txn_msgs>>

StepStarted(t) ==
  /\ pc = "enter" /\ t = current /\ Kept
  /\ request[t].txn \in txn_state
  /\ txn' = request[t].txn
  /\ pc' = "run"
  /\ txn_msgs' = [txn_msgs EXCEPT ![request[t].txn] = Reverse(@)]
  /\ UNCHANGED <<status, current, txn_state, ex_port>>

StepRun(t) ==
  /\ pc = "run" /\ Kept
  /\ txn_msgs[txn] # <<>> /\ t = Head(txn_msgs[txn])
  /\ txn_msgs' = [txn_msgs EXCEPT ![txn] = Tail(@)]
  /\ \E verdict \in Verdict : Answers(t, verdict)
  /\ pc' \in {"run", "abort"}
  /\ UNCHANGED <<current, txn, txn_state, ex_port>>

StepEnded(t) ==
  /\ pc \in {"run", "abort"} /\ t = current /\ Kept
  /\ Drop(txn)
  /\ txn' = 0
  /\ \E verdict \in Verdict : Answers(t, verdict) /\ (verdict = "succeeded" => txn_msgs[txn] = <<>>)
  /\ pc' = "idle" /\ current' = NoTask
  /\ UNCHANGED ex_port

StepOf(t) ==
  \/ StepPosted(t) \/ StepFinished(t) \/ StepAnswered(t) \/ StepServed(t) \/ StepDeferred(t) \/ StepBegun(t)
  \/ StepCancelled(t) \/ StepReceived(t) \/ StepStarted(t) \/ StepRun(t) \/ StepEnded(t)
-----------------------------------------------------------------------------
(***************************************************************************)
(* Every action is one of these steps.                                     *)
(***************************************************************************)
LEMMA PostSteps ==
  ASSUME NEW t \in Task, NEW r \in Request, PostExclusive(t, r) \/ (PostConcurrent(t, r) /\ r.what \in {"get", "count"}),
         \/ r.what \in {"open", "close", "get", "count", "begin"} /\ handed' = handed
         \/ r.what = "set" /\ handed' = handed /\ (r.txn # 0 => handed[r.txn] = "open")
         \/ /\ r.what \in {"commit", "cancel"} /\ r.txn \in TxnId /\ handed[r.txn] = "open"
            /\ handed' = [i \in TxnId |-> IF i = r.txn THEN "ended" ELSE handed[i]]
  PROVE  StepPosted(t)
<1>1. /\ Take(t, r)
      /\ \/ ex_port' = Append(ex_port, t)
         \/ ex_port' = ex_port /\ r.what \in {"get", "count"}
  BY DEF PostExclusive, PostConcurrent
<1>2. UNCHANGED <<txn_seq, txn, txn_commits, txn_state, txn_msgs, pc, current>>
  BY <1>1 DEF Take, storage, worker
<1> QED BY <1>1, <1>2 DEF Take, StepPosted

\* Every request of a careful client is posted once, by the owner of its transaction.
LEMMA ClientSteps ==
  ASSUME TypeOK, Careful, NEW t \in Task, Client(t)
  PROVE  StepPosted(t)
<1> USE BoundAssumption DEF Request, Message, Req
<1>1. CASE Open(t) \/ Close(t)
  BY <1>1, PostSteps DEF Open, Close
<1>2. CASE CountKeys(t)
  BY <1>2, PostSteps DEF CountKeys, PostConcurrent
<1>3. CASE Begin(t)
  BY <1>3, PostSteps DEF Begin
<1>4. ASSUME NEW k \in Key, Get(t, k) PROVE StepPosted(t)
  BY <1>4, PostSteps DEF Get, PostConcurrent
<1>5. ASSUME NEW id \in 0..MaxTxn, NEW k \in Key, NEW v \in Value, Set(t, id, k, v) PROVE StepPosted(t)
  <2>1. id # 0 => handed[id] = "open"
    BY <1>5 DEF Set, Usable, Careful
  <2> QED BY <1>5, <2>1, PostSteps DEF Set
<1>6. ASSUME NEW id \in 0..MaxTxn, NEW what \in {"commit", "cancel"}, EndTxn(t, what, id) PROVE StepPosted(t)
  <2>1. id \in TxnId /\ handed[id] = "open"
    BY <1>6 DEF EndTxn, Usable, Careful, TxnId
  <2> QED BY <1>6, <2>1, PostSteps DEF EndTxn
<1>7. CASE \E id \in 0..MaxTxn : Commit(t, id) \/ Cancel(t, id)
  BY <1>6, <1>7 DEF Commit, Cancel
<1> QED BY <1>1, <1>2, <1>3, <1>4, <1>5, <1>7 DEF Client

\* A *_finish hands out the id of a begin that succeeded, and frees the task.
LEMMA FinishSteps ==
  ASSUME NEW t \in Task, Finish(t)
  PROVE  StepFinished(t)
BY DEF Finish, StepFinished, GaveOut, storage, ports, worker

\* A reader answers its own task, and nothing else moves.
LEMMA ServeSteps ==
  ASSUME IInv, NEW t \in Task, Concurrent(t)
  PROVE  StepServed(t)
<1>1. t \in cn_port /\ pc = "idle" /\ status[t] = "pending" /\ request[t].what \in {"get", "count"}
  BY DEF Concurrent, HandleGet, HandleCountKeys, Serve, IInv, TasksAccounted, HeldWhilePending
<1>2. UNCHANGED <<request, handed, txn_seq, txn_commits, pc, current, txn, txn_state, txn_msgs, ex_port>>
  BY DEF Concurrent, HandleGet, HandleCountKeys, Serve, storage, worker
<1>3. \E verdict \in Verdict : status' = [status EXCEPT ![t] = verdict]
  BY DEF Concurrent, HandleGet, HandleCountKeys, Complete, Succeed, Verdict
<1> QED BY <1>1, <1>2, <1>3 DEF StepServed, Kept, Answers

\* An exclusive handler is run on the oldest message, which is still unanswered.
LEMMA ReceiveSteps ==
  ASSUME IInv, NEW t \in Task, NEW what, Receive(t, what)
  PROVE  FromPort(t) /\ request[t].what = what /\ handed' = handed
<1>1. ex_port # <<>> /\ t = Head(ex_port) /\ pc = "idle" /\ ex_port' = Tail(ex_port)
      /\ request[t].what = what /\ handed' = handed
  BY DEF Receive
<1>2. t \in ToSet(ex_port)
  BY <1>1, TailList DEF IInv, TypeOK
<1> QED BY <1>1, <1>2 DEF IInv, TasksAccounted, HeldWhilePending, FromPort

\* An end that is pending finds the storage open and its transaction there.
LEMMA EndsFind ==
  ASSUME IInv, CInv, NEW t \in Task, IsEnd(t), status[t] = "pending"
  PROVE  db_ctx /\ request[t].txn \in txn_state /\ request[t].txn # 0
BY DEF CInv, Ledger, EndsOnce, IInv, ClosedIsClean, TxnId

\* The handlers other than handle_txn_commit answer, defer, begin or cancel.
LEMMA HandleSteps ==
  ASSUME IInv, CInv, NEW t \in Task,
         HandleOpen(t) \/ HandleClose(t) \/ HandleSet(t) \/ HandleTxnBegin(t) \/ HandleTxnCancel(t)
  PROVE  StepOf(t)
<1> USE DEF Verdict
<1>0. pc = "idle" /\ txn = 0 /\ txn_commits = <<>> /\ TypeOK
  BY DEF CInv, NoneCurrent, HandleOpen, HandleClose, HandleSet, HandleTxnBegin, HandleTxnCancel, Receive, IInv
<1>1. CASE HandleOpen(t)
  <2>1. FromPort(t) /\ request[t].what = "open" /\ handed' = handed
    BY <1>1, ReceiveSteps DEF HandleOpen
  <2>2. \E verdict \in Verdict : status' = [status EXCEPT ![t] = verdict]
    BY <1>1 DEF HandleOpen, Complete, Succeed, Fail
  <2>3. ~db_ctx => txn_state = {} /\ txn_msgs = [i \in TxnId |-> <<>>]
    BY DEF IInv, TypeOK, ClosedIsClean, DeferredBelong
  <2>4. UNCHANGED <<request, txn_seq, txn_commits, pc, current, txn, txn_state, txn_msgs>>
    BY <1>0, <1>1, <2>3 DEF HandleOpen, worker
  <2> QED BY <2>1, <2>2, <2>4 DEF StepOf, StepAnswered, FromPort, Kept, Answers
<1>2. CASE HandleClose(t)
  <2>1. FromPort(t) /\ request[t].what = "close" /\ handed' = handed
    BY <1>2, ReceiveSteps DEF HandleClose
  <2>2. \E verdict \in Verdict : status' = [status EXCEPT ![t] = verdict]
    BY <1>2 DEF HandleClose, Complete, Succeed, Fail
  <2> QED BY <1>2, <2>1, <2>2 DEF HandleClose, worker, StepOf, StepAnswered, FromPort, Kept, Answers
<1>3. CASE HandleSet(t)
  <2>1. FromPort(t) /\ request[t].what = "set" /\ handed' = handed
    BY <1>3, ReceiveSteps DEF HandleSet
  <2>2. UNCHANGED <<txn_seq, txn, txn_commits, txn_state, pc, current, request>>
    BY <1>3 DEF HandleSet, worker
  <2>3. \/ txn_msgs' = txn_msgs /\ \E verdict \in Verdict : status' = [status EXCEPT ![t] = verdict]
        \/ /\ request[t].txn \in txn_state /\ request[t].txn # 0 /\ status' = status
           /\ txn_msgs' = [txn_msgs EXCEPT ![request[t].txn] = Cons(t, @)]
    BY <1>0, <1>3 DEF HandleSet, StoreData, Complete, Succeed, Fail, Deferred
  <2> QED BY <2>1, <2>2, <2>3 DEF StepOf, StepAnswered, StepDeferred, IsSet, FromPort, Kept, Answers
<1>4. CASE HandleTxnBegin(t)
  <2>1. FromPort(t) /\ request[t].what = "begin" /\ handed' = handed
    BY <1>4, ReceiveSteps DEF HandleTxnBegin
  <2>2. UNCHANGED <<txn, txn_commits, txn_msgs, pc, current>>
    BY <1>4 DEF HandleTxnBegin, worker
  <2> QED BY <1>4, <2>1, <2>2 DEF HandleTxnBegin, Complete, Succeed, StepOf, StepAnswered, StepBegun, FromPort, Kept, Answers
<1>5. CASE HandleTxnCancel(t)
  <2>1. FromPort(t) /\ request[t].what = "cancel" /\ handed' = handed
    BY <1>5, ReceiveSteps DEF HandleTxnCancel
  <2>2. db_ctx
    BY <2>1, EndsFind DEF IsEnd, FromPort
  <2>3. UNCHANGED <<txn_seq, txn, txn_commits, pc, current, request>>
    BY <1>5 DEF HandleTxnCancel, worker
  <2> QED BY <1>5, <2>1, <2>2, <2>3 DEF HandleTxnCancel, Succeed, Complete, StepOf, StepCancelled, FromPort, Kept, Answers
<1> QED BY <1>1, <1>2, <1>3, <1>4, <1>5

\* Neither refused nor put off, a commit that is entered starts.
LEMMA CommitStarts ==
  ASSUME IInv, CInv, Careful, NEW t \in Task, HandleTxnCommit(t), Enter(t)
  PROVE  CommitStarted(t)
<1>1. request[t].what = "commit" /\ status[t] = "pending" /\ txn = 0
  BY DEF Enter, CInv, NoneCurrent, IInv, TasksAccounted, HeldWhilePending
<1>2. db_ctx /\ request[t].txn \in txn_state /\ request[t].txn # 0
  BY <1>1, EndsFind DEF IsEnd
<1> QED BY <1>1, <1>2 DEF HandleTxnCommit, Careful, ReceiveCommit, Receive, CommitClosed, CommitPostponed, CommitUnknown,
                          CommitNotStarted, TxnStateRun, CommitDone, CommitAborted, Failing, Enter

\* handle_txn_commit receives a commit, starts it, runs its sets and ends it.
LEMMA CommitSteps ==
  ASSUME IInv, CInv, Careful, NEW t \in Task, HandleTxnCommit(t)
  PROVE  StepOf(t)
<1> USE DEF Verdict
<1>0. TypeOK /\ txn_commits = <<>>
  BY DEF IInv, CInv, NoneCurrent
<1>1. CASE ReceiveCommit(t)
  <2>1. FromPort(t) /\ request[t].what = "commit" /\ handed' = handed
    BY <1>1, ReceiveSteps DEF ReceiveCommit
  <2> QED BY <1>1, <2>1 DEF ReceiveCommit, storage, tasks, StepOf, StepReceived, Kept, FromPort
<1>2. CASE Enter(t)
  <2>1. CommitStarted(t)
    BY <1>2, CommitStarts
  <2> QED BY <1>2, <2>1 DEF CommitStarted, Run, Claim, Enter, ports, StepOf, StepStarted, Kept
<1>3. CASE TxnStateRun(t)
  <2>1. status[t] = "pending" /\ txn \in TxnId
    <3>1. pc = "run" /\ txn_msgs[txn] # <<>> /\ t = Head(txn_msgs[txn])
      BY <1>3 DEF TxnStateRun
    <3>2. txn \in TxnId
      BY <1>0, <3>1 DEF IInv, TdbTransactionOwned, RunsSets, TypeOK
    <3>3. t \in ToSet(txn_msgs[txn])
      BY <1>0, <3>1, <3>2, TailList DEF TypeOK
    <3> QED BY <3>2, <3>3 DEF IInv, TasksAccounted, HeldWhilePending
  <2>2. \E verdict \in Verdict : status' = [status EXCEPT ![t] = verdict]
    BY <1>3 DEF TxnStateRun, StoreData, Complete, Succeed, Fail
  <2> QED BY <1>3, <2>1, <2>2 DEF TxnStateRun, ports, StepOf, StepRun, Kept, Answers
<1>4. CASE CommitDone(t) \/ CommitAborted(t)
  <2>1. pc \in {"run", "abort"} /\ t = current /\ status[t] = "pending"
    BY <1>4, TaskAssumption DEF CommitDone, CommitAborted, Failing, IInv, TasksAccounted, HeldWhilePending
  <2>2. PICK verdict \in Verdict :
          /\ status' = [status EXCEPT ![t] = verdict]
          /\ verdict = "succeeded" => txn_msgs[txn] = <<>>
    BY <1>4 DEF CommitDone, CommitAborted, Complete, Succeed
  <2>3. EndCommit
    BY <1>4 DEF CommitDone, CommitAborted
  <2>4. pc' = "idle" /\ current' = NoTask /\ txn_commits' = txn_commits
    BY <1>0, <2>3 DEF EndCommit, NextCommit, Return
  <2>5. Kept /\ Drop(txn) /\ txn' = 0 /\ ex_port' = ex_port
    BY <2>3, <2>4 DEF EndCommit, ports, Kept
  <2>6. Answers(t, verdict) /\ (verdict = "succeeded" => txn_msgs[txn] = <<>>)
    BY <2>1, <2>2 DEF Answers
  <2>7. StepEnded(t)
    BY <2>1, <2>4, <2>5, <2>6 DEF StepEnded
  <2> QED BY <2>7 DEF StepOf
<1> QED BY <1>1, <1>2, <1>3, <1>4 DEF HandleTxnCommit, CommitClosed, CommitPostponed, CommitUnknown,
                                      CommitNotStarted, CommitStarted, Claim, Run

\* There is no other step.
LEMMA AllSteps ==
  ASSUME IInv, CInv, Careful, NEW t \in Task, Client(t) \/ Exclusive(t) \/ Concurrent(t) \/ Finish(t)
  PROVE  StepOf(t)
BY ClientSteps, FinishSteps, ServeSteps, HandleSteps, CommitSteps DEF IInv, Exclusive, StepOf
-----------------------------------------------------------------------------
(***************************************************************************)
(* The ledger of transaction ids.                                          *)
(***************************************************************************)
LEMMA QuietLedger ==
  ASSUME TypeOK, Ledger, UNCHANGED <<request, handed, txn_seq>>,
         \A u \in Task :
           \/ status'[u] = status[u]
           \/ /\ status[u] = "pending" /\ status'[u] \in Verdict
              /\ request[u].what = "begin" => status'[u] = "failed",
         txn_state' \subseteq txn_state,
         \A id \in txn_state \ txn_state' :
            \E e \in Task : IsEnd(e) /\ request[e].txn = id /\ status'[e] # "pending"
  PROVE  Ledger'
<1> USE DEF Ledger, Verdict
<1>0. \A id \in txn_state : id \in TxnId
  BY DEF TypeOK
<1>1. \A id \in txn_state \ txn_state' : handed[id] = "ended"
  BY DEF EndsOnce
<1>2. Issued'
  BY <1>0, <1>1 DEF Issued
<1>3. BeginsNew'
  BY <1>1 DEF BeginsNew, GaveOut
<1>4. EndsOnce'
  BY DEF EndsOnce, IsEnd
<1>5. SetsOwned'
  BY DEF SetsOwned, IsSet
<1> QED BY <1>2, <1>3, <1>4, <1>5

\* Posting a request keeps the ledger: only the owner of an open id ends it.
LEMMA PostedLedger ==
  ASSUME TypeOK, Ledger, NEW t \in Task, StepPosted(t)
  PROVE  Ledger'
<1> USE BoundAssumption DEF Ledger
<1> PICK r \in Request :
       /\ status[t] = "free"
       /\ status' = [status EXCEPT ![t] = "pending"]
       /\ request' = [request EXCEPT ![t] = r]
       /\ UNCHANGED <<txn_seq, txn_state>>
       /\ \/ r.what \in {"open", "close", "get", "count", "begin"} /\ handed' = handed
          \/ r.what = "set" /\ handed' = handed /\ (r.txn # 0 => handed[r.txn] = "open")
          \/ /\ r.what \in {"commit", "cancel"} /\ r.txn \in TxnId /\ handed[r.txn] = "open"
             /\ handed' = [i \in TxnId |-> IF i = r.txn THEN "ended" ELSE handed[i]]
  BY DEF StepPosted
<1>0. /\ \A u \in Task : request'[u] = IF u = t THEN r ELSE request[u]
      /\ \A u \in Task : status'[u] = IF u = t THEN "pending" ELSE status[u]
      /\ r.txn \in 0..MaxTxn /\ \A u \in Task : request[u].txn \in 0..MaxTxn
      /\ request[t].what = "none"
  BY DEF TypeOK, Request, Issued
<1>1. \A id \in TxnId : /\ handed'[id] = "open" => handed[id] = "open"
                        /\ handed[id] # "new" <=> handed'[id] # "new"
                        /\ handed[id] = "ended" => handed'[id] = "ended"
  BY DEF TypeOK
<1>2. Issued'
  BY <1>0, <1>1 DEF Issued, TypeOK
<1>3. BeginsNew'
  BY <1>0, <1>1 DEF BeginsNew, GaveOut, TypeOK
<1>4. EndsOnce'
  <2>1. \A u \in Task : IsEnd(u) /\ r.what \in {"commit", "cancel"} => request[u].txn # r.txn
    BY DEF EndsOnce
  <2> QED BY <1>0, <1>1, <2>1 DEF EndsOnce, IsEnd, Issued
<1>5. SetsOwned'
  BY <1>0, <1>1 DEF SetsOwned, IsSet, TxnId
<1> QED BY <1>2, <1>3, <1>4, <1>5

\* Handing out an id keeps the ledger: it was new, and its begin is freed.
LEMMA FinishedLedger ==
  ASSUME TypeOK, Ledger, NEW t \in Task, StepFinished(t)
  PROVE  Ledger'
<1> USE BoundAssumption DEF Ledger, StepFinished
<1>0. /\ \A u \in Task : request'[u] = IF u = t THEN Blank ELSE request[u]
      /\ \A u \in Task : status'[u] = IF u = t THEN "free" ELSE status[u]
      /\ Blank.what = "none" /\ txn_state \subseteq TxnId
      /\ \A u \in Task : request[u].txn \in 0..MaxTxn
  BY DEF TypeOK, Blank, Req, Request
<1>1. \A id \in TxnId :
        /\ handed'[id] # handed[id] => handed'[id] = "open" /\ GaveOut(t) /\ request[t].txn = id
        /\ GaveOut(t) /\ request[t].txn = id => id \in txn_state /\ handed[id] = "new"
  BY DEF BeginsNew
<1>2. Issued'
  BY <1>0, <1>1 DEF Issued
<1>3. BeginsNew'
  BY <1>0, <1>1 DEF BeginsNew, GaveOut
<1>4. EndsOnce'
  BY <1>0, <1>1 DEF EndsOnce, IsEnd
<1>5. SetsOwned'
  <2> SUFFICES ASSUME NEW u \in Task, IsSet(u)' PROVE handed'[request'[u].txn] # "new"
    BY DEF SetsOwned
  <2>1. IsSet(u) /\ request'[u] = request[u] /\ request[u].txn \in TxnId
    BY <1>0 DEF IsSet, TxnId
  <2> QED BY <1>1, <2>1 DEF SetsOwned
<1> QED BY <1>2, <1>3, <1>4, <1>5

\* Beginning a transaction keeps the ledger: txn_seq + 1 is a new id.
LEMMA BegunLedger ==
  ASSUME TypeOK, TypeOK', Ledger, NEW t \in Task, StepBegun(t)
  PROVE  Ledger'
<1> USE BoundAssumption DEF Ledger, StepBegun, FromPort, Answers
<1>0. /\ \A u \in Task : request'[u].what = request[u].what
      /\ \A u \in Task : request'[u].txn = IF u = t THEN txn_seq + 1 ELSE request[u].txn
      /\ \A u \in Task : status'[u] = IF u = t THEN "succeeded" ELSE status[u]
      /\ request[t].what = "begin" /\ status[t] = "pending"
      /\ txn_seq \in Nat /\ txn_seq + 1 \in TxnId /\ txn_state \subseteq TxnId
  BY SMTT(40) DEF TypeOK, TxnId, Request
<1>1. handed[txn_seq + 1] = "new" /\ txn_seq + 1 \notin txn_state
  BY <1>0 DEF Issued, TxnId
<1>2. Issued'
  BY <1>0 DEF Issued, TxnId
<1>3. BeginsNew'
  BY <1>0, <1>1 DEF BeginsNew, GaveOut
<1>4. EndsOnce'
  BY <1>0 DEF EndsOnce, IsEnd
<1>5. SetsOwned'
  BY <1>0 DEF SetsOwned, IsSet
<1> QED BY <1>2, <1>3, <1>4, <1>5

\* Every step keeps the ledger.
LEMMA LedgerStep ==
  ASSUME IInv, TypeOK', CInv, NEW t \in Task, StepOf(t)
  PROVE  Ledger'
<1> USE DEF Kept, Answers, FromPort
<1>0. TypeOK /\ Ledger /\ NoneCurrent /\ TdbTransactionOwned /\ DeferredBelong
  BY DEF IInv, CInv
<1>1. CASE StepPosted(t) \/ StepFinished(t) \/ StepBegun(t)
  BY <1>0, <1>1, PostedLedger, FinishedLedger, BegunLedger
<1>2. CASE StepAnswered(t) \/ StepServed(t) \/ StepDeferred(t) \/ StepReceived(t) \/ StepStarted(t)
  <2>1. /\ UNCHANGED <<request, handed, txn_seq, txn_state>>
        /\ \/ status' = status
           \/ \E verdict \in Verdict :
                /\ status[t] = "pending" /\ status' = [status EXCEPT ![t] = verdict]
                /\ request[t].what = "begin" => verdict = "failed"
    BY <1>2 DEF StepAnswered, StepServed, StepDeferred, StepReceived, StepStarted
  <2>2. \A u \in Task :
          \/ status'[u] = status[u]
          \/ /\ status[u] = "pending" /\ status'[u] \in Verdict
             /\ request[u].what = "begin" => status'[u] = "failed"
    BY <1>0, <2>1 DEF TypeOK
  <2> QED BY <1>0, <2>1, <2>2, QuietLedger
<1>3. CASE StepRun(t)
  <2>1. txn \in TxnId /\ txn_msgs[txn] \in Seq(Task)
    BY <1>0, <1>3 DEF StepRun, TdbTransactionOwned, RunsSets, TypeOK
  <2>2. request[t].what = "set"
    BY <1>0, <1>3, <2>1, TailList DEF StepRun, DeferredBelong
  <2>3. /\ UNCHANGED <<request, handed, txn_seq, txn_state>> /\ status[t] = "pending"
        /\ \E verdict \in Verdict : status' = [status EXCEPT ![t] = verdict]
    BY <1>3 DEF StepRun
  <2> QED BY <1>0, <2>2, <2>3, QuietLedger DEF TypeOK
<1>4. CASE StepCancelled(t) \/ StepEnded(t)
  <2>1. IsEnd(t) /\ status[t] = "pending" /\ txn_state' = txn_state \ {request[t].txn}
    BY <1>0, <1>4 DEF StepCancelled, StepEnded, IsEnd, NoneCurrent, TdbTransactionOwned, RunsSets, Drop
  <2>2. /\ UNCHANGED <<request, handed, txn_seq>>
        /\ \E verdict \in Verdict : status' = [status EXCEPT ![t] = verdict]
    BY <1>4 DEF StepCancelled, StepEnded, Verdict
  <2>3. \A u \in Task : IF u = t THEN status'[u] \in Verdict ELSE status'[u] = status[u]
    BY <1>0, <2>2 DEF TypeOK
  <2>4. "pending" \notin Verdict /\ request[t].what # "begin"
    BY <2>1 DEF Verdict, IsEnd
  <2> QED BY <1>0, <2>1, <2>2, <2>3, <2>4, QuietLedger
<1> QED BY <1>1, <1>2, <1>3, <1>4 DEF StepOf
-----------------------------------------------------------------------------
(***************************************************************************)
(* No transaction is current between messages.                             *)
(***************************************************************************)
LEMMA NoneCurrentStep ==
  ASSUME IInv, CInv, NEW t \in Task, StepOf(t)
  PROVE  NoneCurrent'
<1> USE DEF NoneCurrent, Kept, FromPort
<1>0. TypeOK /\ NoneCurrent /\ (pc # "idle" => current \in Task /\ status[current] = "pending")
  BY DEF IInv, CInv, TasksAccounted, HeldWhilePending, TypeOK
<1>1. CASE StepPosted(t)
  BY <1>0, <1>1 DEF StepPosted, TypeOK
<1>2. CASE StepFinished(t)
  BY <1>0, <1>2 DEF StepFinished, TypeOK
<1>3. CASE StepAnswered(t) \/ StepServed(t) \/ StepDeferred(t) \/ StepCancelled(t)
  BY <1>0, <1>3 DEF StepAnswered, StepServed, StepDeferred, StepCancelled
<1>4. CASE StepBegun(t)
  BY <1>0, <1>4 DEF StepBegun
<1>5. CASE StepReceived(t) \/ StepStarted(t) \/ StepRun(t) \/ StepEnded(t)
  BY <1>0, <1>5 DEF StepReceived, StepStarted, StepRun, StepEnded
<1> QED BY <1>1, <1>2, <1>3, <1>4, <1>5 DEF StepOf

(***************************************************************************)
(* The port keeps the sets of a transaction before its end.                *)
(***************************************************************************)
LEMMA TailOrdered ==
  ASSUME ex_port \in Seq(Task), Ordered, ex_port # <<>>, ex_port' = Tail(ex_port),
         \A u \in Task : (IsSet(u)' => IsSet(u)) /\ (IsEnd(u)' => IsEnd(u)),
         \A u \in Task : IsSet(u)' \/ IsEnd(u)' => request'[u].txn = request[u].txn
  PROVE  Ordered'
<1> SUFFICES ASSUME NEW i \in 1..Len(ex_port'), NEW c \in Task,
                    request'[ex_port'[i]].what = "set", request'[ex_port'[i]].txn # 0,
                    request'[c].what \in {"commit", "cancel"}, request'[c].txn = request'[ex_port'[i]].txn
             PROVE  \E j \in 1..Len(ex_port') : i < j /\ ex_port'[j] = c
  BY ZenonT(30) DEF Ordered, IsSet, IsEnd
<1>1. /\ Len(ex_port') = Len(ex_port) - 1 /\ Len(ex_port) \in Nat
      /\ \A k \in 1..Len(ex_port') : ex_port'[k] = ex_port[k + 1] /\ k + 1 \in 1..Len(ex_port)
  OBVIOUS
<1>2. ex_port'[i] = ex_port[i + 1] /\ ex_port[i + 1] \in Task /\ i + 1 \in 1..Len(ex_port)
  BY <1>1
<1>3. IsSet(ex_port[i + 1]) /\ IsEnd(c) /\ request[c].txn = request[ex_port[i + 1]].txn
  BY <1>2 DEF IsSet, IsEnd
<1>4. PICK j \in 1..Len(ex_port) : i + 1 < j /\ ex_port[j] = c
  BY <1>2, <1>3 DEF Ordered
<1>5. j - 1 \in 1..Len(ex_port') /\ i < j - 1 /\ ex_port'[j - 1] = c
  BY <1>1, <1>4
<1> QED BY <1>5

\* A set is posted while its transaction is open, so before the end of it.
LEMMA PostedOrdered ==
  ASSUME IInv, CInv, NEW t \in Task, StepPosted(t)
  PROVE  Ordered'
<1> PICK r \in Request :
       /\ status[t] = "free" /\ request' = [request EXCEPT ![t] = r]
       /\ ex_port' = Append(ex_port, t) \/ ex_port' = ex_port
       /\ r.what \in {"get", "count"} \/ ex_port' = Append(ex_port, t)
       /\ r.what = "set" /\ r.txn # 0 => handed[r.txn] = "open"
  BY DEF StepPosted
<1>0. ex_port \in Seq(Task) /\ TypeOK /\ Ordered /\ EndsOnce
  BY DEF IInv, CInv, Ledger, TypeOK
<1>1. \A k \in 1..Len(ex_port) : ex_port[k] \in Task /\ ex_port[k] # t
  BY <1>0 DEF IInv, TasksAccounted, HeldWhilePending, ToSet
<1>2. \A u \in Task : request'[u] = IF u = t THEN r ELSE request[u]
  BY <1>0 DEF TypeOK
<1> SUFFICES ASSUME NEW i \in 1..Len(ex_port'), NEW c \in Task,
                    request'[ex_port'[i]].what = "set", request'[ex_port'[i]].txn # 0,
                    request'[c].what \in {"commit", "cancel"}, request'[c].txn = request'[ex_port'[i]].txn
             PROVE  \E j \in 1..Len(ex_port') : i < j /\ ex_port'[j] = c
  BY DEF Ordered, IsSet, IsEnd
<1>3. /\ \A k \in 1..Len(ex_port) : k \in 1..Len(ex_port') /\ ex_port'[k] = ex_port[k]
      /\ i \in 1..Len(ex_port) \/ (i = Len(ex_port) + 1 /\ ex_port'[i] = t)
  BY <1>0
<1>4. CASE i \in 1..Len(ex_port)
  <2>1. IsSet(ex_port[i]) /\ request'[c].txn = request[ex_port[i]].txn
    BY <1>1, <1>2, <1>3, <1>4 DEF IsSet
  <2>2. CASE c = t
    <3>1. ex_port' = Append(ex_port, t)
      BY <1>2, <2>2 DEF IsEnd
    <3>2. Len(ex_port) + 1 \in 1..Len(ex_port') /\ ex_port'[Len(ex_port) + 1] = t /\ i < Len(ex_port) + 1
      BY <1>0, <1>4, <3>1
    <3> QED BY <2>2, <3>2
  <2>3. CASE c # t
    <3>1. IsEnd(c) /\ request[c].txn = request[ex_port[i]].txn
      BY <1>2, <2>1, <2>3 DEF IsEnd
    <3>2. PICK j \in 1..Len(ex_port) : i < j /\ ex_port[j] = c
      BY <1>0, <1>4, <2>1, <3>1 DEF Ordered
    <3> QED BY <1>3, <3>2
  <2> QED BY <2>2, <2>3
<1>5. CASE i = Len(ex_port) + 1 /\ ex_port'[i] = t
  <2>1. r.what = "set" /\ r.txn # 0 /\ handed[r.txn] = "open" /\ c # t /\ IsEnd(c) /\ request[c].txn = r.txn
    BY <1>2, <1>5 DEF IsSet, IsEnd
  <2> QED BY <1>0, <2>1 DEF EndsOnce
<1> QED BY <1>3, <1>4, <1>5

\* Every step keeps each set in the port before the end of its transaction.
LEMMA OrderedStep ==
  ASSUME IInv, CInv, NEW t \in Task, StepOf(t)
  PROVE  Ordered'
<1> USE DEF IsSet, IsEnd
<1>0. ex_port \in Seq(Task) /\ TypeOK /\ Ordered
  BY DEF IInv, CInv, TypeOK
<1>1. CASE StepPosted(t)
  BY <1>1, PostedOrdered
<1>2. CASE StepFinished(t)
  <2>1. /\ \A u \in Task : request'[u] = IF u = t THEN Blank ELSE request[u]
        /\ ex_port' = ex_port /\ Blank.what = "none"
    BY <1>0, <1>2 DEF StepFinished, TypeOK, Blank, Req
  <2>2. \A k \in 1..Len(ex_port) : ex_port[k] \in Task
    BY <1>0
  <2> QED BY <1>0, <2>1, <2>2 DEF Ordered
<1>3. CASE StepAnswered(t) \/ StepDeferred(t) \/ StepCancelled(t) \/ StepReceived(t)
  <2>1. ex_port # <<>> /\ ex_port' = Tail(ex_port) /\ request' = request
    BY <1>3 DEF StepAnswered, StepDeferred, StepCancelled, StepReceived, FromPort, Kept
  <2> QED BY <1>0, <2>1, TailOrdered
<1>4. CASE StepBegun(t)
  <2>1. /\ ex_port # <<>> /\ ex_port' = Tail(ex_port) /\ request[t].what = "begin"
        /\ \A u \in Task : request'[u].what = request[u].what
        /\ \A u \in Task : u # t => request'[u].txn = request[u].txn
    BY <1>0, <1>4 DEF StepBegun, FromPort, TypeOK, Request
  <2> QED BY <1>0, <2>1, TailOrdered
<1>5. CASE StepServed(t) \/ StepStarted(t) \/ StepRun(t) \/ StepEnded(t)
  BY <1>0, <1>5 DEF StepServed, StepStarted, StepRun, StepEnded, Kept, Ordered
<1> QED BY <1>1, <1>2, <1>3, <1>4, <1>5 DEF StepOf

(***************************************************************************)
(* The sets of a live transaction are in the port or held back.            *)
(***************************************************************************)
LEMMA WaitingStep ==
  ASSUME IInv, TypeOK', CInv, NEW t \in Task, StepOf(t)
  PROVE  SetsWaiting'
<1> USE DEF IsSet, Verdict, Kept, Answers
<1>0. /\ TypeOK /\ SetsWaiting /\ Ledger /\ ex_port \in Seq(Task)
      /\ \A u \in Task : request[u].txn \in 0..MaxTxn /\ txn_state \subseteq TxnId
  BY DEF IInv, CInv, TypeOK, Request
<1>1. CASE StepPosted(t)
  <2> PICK r \in Request :
         /\ request' = [request EXCEPT ![t] = r] /\ status' = [status EXCEPT ![t] = "pending"]
         /\ UNCHANGED <<txn_state, txn_msgs>>
         /\ ex_port' = Append(ex_port, t) \/ ex_port' = ex_port
         /\ r.what \in {"get", "count"} \/ ex_port' = Append(ex_port, t)
    BY <1>1 DEF StepPosted
  <2>0. ToSet(Append(ex_port, t)) = ToSet(ex_port) \cup {t}
    BY <1>0, AppendList
  <2>1. ToSet(ex_port) \subseteq ToSet(ex_port') /\ (r.what = "set" => t \in ToSet(ex_port'))
    <3>1. CASE ex_port' = Append(ex_port, t)
      BY <2>0, <3>1
    <3>2. CASE r.what \in {"get", "count"} /\ ex_port' = ex_port
      BY <3>2
    <3> QED BY <3>1, <3>2
  <2> QED BY <1>0, <2>1 DEF SetsWaiting, TypeOK
<1>2. CASE StepFinished(t)
  BY <1>0, <1>2 DEF StepFinished, SetsWaiting, TypeOK
<1>3. CASE FromPort(t) /\ Kept /\ UNCHANGED <<txn_state, txn_msgs>> /\ request[t].what # "set"
  <2>1. ToSet(ex_port) = ToSet(ex_port') \cup {t}
    BY <1>0, <1>3, TailList DEF FromPort
  <2>2. \A u \in Task : u # t /\ status'[u] = "pending" => status[u] = "pending"
    BY <1>0, <1>3 DEF StepOf, StepPosted, StepFinished, StepAnswered, StepServed, StepDeferred, StepBegun,
                      StepCancelled, StepReceived, StepStarted, StepRun, StepEnded, FromPort, TypeOK
  <2> QED BY <1>0, <1>3, <2>1, <2>2 DEF SetsWaiting
<1>4. CASE StepAnswered(t) /\ request[t].what = "set"
  <2>1. ToSet(ex_port) = ToSet(ex_port') \cup {t}
    BY <1>0, <1>4, TailList DEF StepAnswered, FromPort
  <2> QED BY <1>0, <1>4, <2>1 DEF StepAnswered, SetsWaiting, TypeOK
<1>5. CASE StepServed(t) \/ StepStarted(t)
  <2>1. /\ \A id \in TxnId : ToSet(txn_msgs'[id]) = ToSet(txn_msgs[id])
        /\ UNCHANGED <<request, txn_state, ex_port>>
        /\ \A u \in Task : status'[u] = "pending" => status[u] = "pending"
    BY <1>0, <1>5, ReverseList DEF StepServed, StepStarted, TypeOK
  <2> QED BY <1>0, <2>1 DEF SetsWaiting, TxnId
<1>6. CASE StepDeferred(t)
  <2>1. ToSet(ex_port) = ToSet(ex_port') \cup {t}
    BY <1>0, <1>6, TailList DEF StepDeferred, FromPort
  <2>2. /\ request[t].txn \in TxnId /\ txn_msgs[request[t].txn] \in Seq(Task)
        /\ \A id \in TxnId : id # request[t].txn => txn_msgs'[id] = txn_msgs[id]
        /\ txn_msgs'[request[t].txn] = Cons(t, txn_msgs[request[t].txn])
    BY <1>0, <1>6 DEF StepDeferred, TypeOK
  <2>3. ToSet(txn_msgs'[request[t].txn]) = ToSet(txn_msgs[request[t].txn]) \cup {t}
    BY <2>2, ConsList
  <2> QED BY <1>0, <1>6, <2>1, <2>2, <2>3, ZenonT(40) DEF StepDeferred, SetsWaiting, TxnId
<1>7. CASE StepBegun(t)
  <2>1. ToSet(ex_port) = ToSet(ex_port') \cup {t}
    BY <1>0, <1>7, TailList DEF StepBegun, FromPort
  <2>2. /\ \A u \in Task : request'[u].what = request[u].what /\ (u # t => request'[u] = request[u])
        /\ request[t].what = "begin" /\ txn_state' = txn_state \cup {txn_seq + 1} /\ txn_msgs' = txn_msgs
        /\ \A u \in Task : u # t => status'[u] = status[u]
    BY <1>0, <1>7 DEF StepBegun, TypeOK, Request
  <2>3. \A u \in Task : IsSet(u) => request[u].txn # txn_seq + 1
    BY <1>0, BoundAssumption, SMTT(60) DEF Ledger, Issued, SetsOwned, TypeOK, TxnId
  <2> QED BY <1>0, <2>1, <2>2, <2>3 DEF SetsWaiting
<1>8. CASE StepCancelled(t)
  <2>1. ToSet(ex_port) = ToSet(ex_port') \cup {t}
    BY <1>0, <1>8, TailList DEF StepCancelled, FromPort
  <2> QED BY <1>0, <1>8, <2>1 DEF StepCancelled, SetsWaiting, Drop, TypeOK, TxnId
<1>9. CASE StepRun(t)
  <2>1. txn \in TxnId
    BY <1>0, <1>9 DEF StepRun, IInv, TdbTransactionOwned, RunsSets
  <2>2. \A id \in TxnId : ToSet(txn_msgs[id]) \subseteq ToSet(txn_msgs'[id]) \cup {t}
    BY <1>0, <1>9, <2>1, TailList DEF StepRun, TypeOK
  <2>3. /\ UNCHANGED <<request, txn_state, ex_port>> /\ status'[t] # "pending"
        /\ \A u \in Task : status'[u] = "pending" => status[u] = "pending"
    BY <1>0, <1>9 DEF StepRun, TypeOK
  <2> QED BY <1>0, <2>2, <2>3 DEF SetsWaiting, TxnId
<1>10. CASE StepEnded(t)
  BY <1>0, <1>10 DEF StepEnded, SetsWaiting, Drop, TypeOK, TxnId
<1>11. CASE StepReceived(t)
  BY <1>3, <1>11 DEF StepReceived
<1>12. CASE StepAnswered(t)
  BY <1>3, <1>4, <1>12 DEF StepAnswered
<1> QED BY <1>1, <1>2, <1>5, <1>6, <1>7, <1>8, <1>9, <1>10, <1>11, <1>12 DEF StepOf

(***************************************************************************)
(* A commit that has failed leaves nothing of its transaction behind.      *)
(***************************************************************************)
LEMMA RolledBackStep ==
  ASSUME IInv, TypeOK', CInv, NEW t \in Task, StepOf(t)
  PROVE  FailedCommitRolledBack'
<1> SUFFICES ASSUME NEW c \in Task, request'[c].what = "commit", status'[c] = "failed", request'[c].txn # 0
             PROVE  request'[c].txn \notin txn_state' /\ txn' # request'[c].txn
  BY DEF FailedCommitRolledBack
<1> USE DEF Verdict, Kept, Answers, FromPort
<1>0. TypeOK /\ FailedCommitRolledBack /\ Ledger /\ NoneCurrent /\ TdbTransactionOwned
  BY DEF IInv, CInv
<1>1. CASE StepPosted(t) \/ StepFinished(t)
  <2>1. request'[c] = request[c] /\ status'[c] = status[c] /\ txn_state' = txn_state /\ txn' = txn
    BY <1>0, <1>1 DEF StepPosted, StepFinished, TypeOK, Blank, Req
  <2> QED BY <1>0, <2>1 DEF FailedCommitRolledBack
<1>2. CASE StepAnswered(t) \/ StepServed(t) \/ StepDeferred(t) \/ StepReceived(t)
  <2>1. request'[c] = request[c] /\ status'[c] = status[c] /\ txn_state' = txn_state /\ txn' = txn
    BY <1>0, <1>2 DEF StepAnswered, StepServed, StepDeferred, StepReceived, TypeOK
  <2> QED BY <1>0, <2>1 DEF FailedCommitRolledBack
<1>3. CASE StepBegun(t)
  <2>1. /\ request[t].what = "begin" /\ c # t /\ request'[c] = request[c] /\ status'[c] = status[c]
        /\ txn' = txn /\ txn_state' = txn_state \cup {txn_seq + 1}
    BY <1>0, <1>3, SMTT(40) DEF StepBegun, TypeOK, Request
  <2>2. request[c].txn <= txn_seq /\ txn_seq \in Nat /\ request[c].txn \in Nat
    BY <1>0, <2>1, BoundAssumption, SMTT(40) DEF Ledger, EndsOnce, Issued, IsEnd, TypeOK, TxnId
  <2> QED BY <1>0, <2>1, <2>2 DEF FailedCommitRolledBack
<1>4. CASE StepCancelled(t)
  <2>1. request'[c] = request[c] /\ status'[c] = status[c] /\ txn_state' \subseteq txn_state /\ txn' = txn
    BY <1>0, <1>4 DEF StepCancelled, Drop, TypeOK
  <2> QED BY <1>0, <2>1 DEF FailedCommitRolledBack
<1>5. CASE StepStarted(t)
  <2>1. /\ request'[c] = request[c] /\ status'[c] = status[c] /\ txn_state' = txn_state
        /\ txn' \in txn_state
    BY <1>5 DEF StepStarted
  <2> QED BY <1>0, <2>1 DEF FailedCommitRolledBack
<1>6. CASE StepRun(t)
  <2>1. txn \in TxnId /\ txn_msgs[txn] \in Seq(Task)
    BY <1>0, <1>6 DEF StepRun, TdbTransactionOwned, RunsSets, TypeOK
  <2>2. request[t].what = "set"
    BY <1>0, <1>6, <2>1, TailList DEF StepRun, IInv, DeferredBelong
  <2>3. request'[c] = request[c] /\ status'[c] = status[c] /\ txn_state' = txn_state /\ txn' = txn
    BY <1>0, <1>6, <2>2 DEF StepRun, TypeOK
  <2> QED BY <1>0, <2>3 DEF FailedCommitRolledBack
<1>7. CASE StepEnded(t)
  <2>1. /\ request'[c] = request[c] /\ txn' = 0 /\ txn_state' = txn_state \ {request[t].txn}
        /\ c # t => status'[c] = status[c]
    BY <1>0, <1>7 DEF StepEnded, Drop, TypeOK, TdbTransactionOwned, RunsSets
  <2> QED BY <1>0, <2>1 DEF FailedCommitRolledBack
<1> QED BY <1>1, <1>2, <1>3, <1>4, <1>5, <1>6, <1>7 DEF StepOf

(***************************************************************************)
(* A commit that has succeeded leaves no set unanswered.                   *)
(***************************************************************************)
LEMMA NoSetLeft ==
  ASSUME IInv, CInv, NEW t \in Task, StepEnded(t), txn_msgs[txn] = <<>>,
         NEW u \in Task, request[u].what = "set", request[u].txn = request[t].txn
  PROVE  status[u] # "pending"
<1> SUFFICES ASSUME status[u] = "pending" PROVE FALSE
  OBVIOUS
<1>0. TypeOK /\ NoneCurrent /\ TdbTransactionOwned /\ SetsWaiting /\ Ordered /\ HeldOnce
  BY DEF IInv, CInv, TasksAccounted
<1>1. /\ t = current /\ IsEnd(t) /\ request[t].txn = txn /\ txn \in txn_state /\ txn \in TxnId
  BY <1>0 DEF StepEnded, NoneCurrent, TdbTransactionOwned, RunsSets, IsEnd, TypeOK
<1>2. IsSet(u)
  BY <1>1 DEF IsSet, TxnId
<1>3. u \in ToSet(ex_port)
  BY <1>0, <1>1, <1>2, EmptyList DEF SetsWaiting
<1>4. ex_port \in Seq(Task)
  BY <1>0 DEF TypeOK
<1>5. PICK i \in 1..Len(ex_port) : ex_port[i] = u
  BY <1>3, <1>4 DEF ToSet
<1>6. PICK j \in 1..Len(ex_port) : ex_port[j] = t
  BY <1>0, <1>1, <1>2, <1>5 DEF Ordered
<1>7. t \in ToSet(ex_port)
  BY <1>4, <1>6 DEF ToSet
<1> QED BY <1>0, <1>1, <1>7 DEF HeldOnce

\* Every step keeps that a commit that succeeded has answered its sets.
LEMMA AnswersStep ==
  ASSUME IInv, TypeOK', CInv, NEW t \in Task, StepOf(t)
  PROVE  CommitAnswersItsSets'
<1> SUFFICES ASSUME NEW c \in Task, NEW u \in Task, request'[c].what = "commit", status'[c] = "succeeded",
                    request'[u].what = "set", request'[u].txn = request'[c].txn
             PROVE  status'[u] # "pending"
  BY DEF CommitAnswersItsSets
<1> USE DEF Verdict, Kept, Answers, FromPort
<1>0. TypeOK /\ CommitAnswersItsSets /\ Ledger /\ NoneCurrent /\ TdbTransactionOwned
  BY DEF IInv, CInv
<1>1. ASSUME request'[c] = request[c], status'[c] = status[c], request'[u] = request[u],
             status'[u] = status[u] \/ status'[u] # "pending"
      PROVE  status'[u] # "pending"
  BY <1>0, <1>1 DEF CommitAnswersItsSets
<1>2. CASE StepPosted(t)
  <2>1. c # t /\ request'[c] = request[c] /\ status'[c] = status[c]
    BY <1>0, <1>2 DEF StepPosted, TypeOK
  <2>2. CASE u = t
    <3>1. handed[request[c].txn] = "ended" /\ request[c].txn \in TxnId
      BY <1>0, <2>1 DEF Ledger, EndsOnce, IsEnd
    <3>2. handed[request[c].txn] = "open"
      BY <1>0, <1>2, <2>1, <2>2, <3>1, SMTT(40) DEF StepPosted, TypeOK, TxnId
    <3> QED BY <3>1, <3>2
  <2>3. CASE u # t
    <3>1. request'[u] = request[u] /\ status'[u] = status[u]
      BY <1>0, <1>2, <2>3 DEF StepPosted, TypeOK
    <3> QED BY <1>1, <2>1, <3>1
  <2> QED BY <2>2, <2>3
<1>3. CASE StepFinished(t)
  <2>1. /\ request'[c] = request[c] /\ status'[c] = status[c]
        /\ request'[u] = request[u] /\ status'[u] = status[u]
    BY <1>0, <1>3 DEF StepFinished, TypeOK, Blank, Req
  <2> QED BY <1>1, <2>1
<1>4. CASE StepAnswered(t) \/ StepServed(t) \/ StepDeferred(t) \/ StepReceived(t) \/ StepCancelled(t) \/ StepStarted(t)
  <2>1. /\ request' = request /\ status'[c] = status[c]
        /\ status'[u] = status[u] \/ status'[u] # "pending"
    BY <1>0, <1>4 DEF StepAnswered, StepServed, StepDeferred, StepReceived, StepCancelled, StepStarted, TypeOK
  <2> QED BY <1>1, <2>1
<1>5. CASE StepBegun(t)
  <2>1. /\ c # t /\ u # t /\ request'[c] = request[c] /\ request'[u] = request[u]
        /\ status'[c] = status[c] /\ status'[u] = status[u]
    BY <1>0, <1>5, SMTT(40) DEF StepBegun, TypeOK, Request
  <2> QED BY <1>1, <2>1
<1>6. CASE StepRun(t)
  <2>1. txn \in TxnId /\ txn_msgs[txn] \in Seq(Task)
    BY <1>0, <1>6 DEF StepRun, TdbTransactionOwned, RunsSets, TypeOK
  <2>2. request[t].what = "set"
    BY <1>0, <1>6, <2>1, TailList DEF StepRun, IInv, DeferredBelong
  <2>3. /\ request' = request /\ status'[c] = status[c]
        /\ status'[u] = status[u] \/ status'[u] # "pending"
    BY <1>0, <1>6, <2>2 DEF StepRun, TypeOK
  <2> QED BY <1>1, <2>3
<1>7. CASE StepEnded(t)
  <2>1. /\ request' = request /\ \A v \in Task : v # t => status'[v] = status[v]
        /\ request[t].what = "commit"
        /\ status'[t] = "succeeded" => txn_msgs[txn] = <<>>
    BY <1>0, <1>7 DEF StepEnded, TypeOK, NoneCurrent
  <2>2. CASE c = t
    BY <1>7, <2>1, <2>2, NoSetLeft
  <2>3. CASE c # t
    BY <1>1, <2>1, <2>3
  <2> QED BY <2>2, <2>3
<1> QED BY <1>2, <1>3, <1>4, <1>5, <1>6, <1>7 DEF StepOf
-----------------------------------------------------------------------------
(***************************************************************************)
(* The invariant of careful clients is inductive.                          *)
(***************************************************************************)
LEMMA InitCInv == Init => CInv
<1> SUFFICES ASSUME Init PROVE CInv
  OBVIOUS
<1> USE BoundAssumption DEF Init, Blank, Req
<1>1. Ledger
  BY DEF Ledger, Issued, BeginsNew, EndsOnce, SetsOwned, GaveOut, IsEnd, IsSet
<1>2. NoneCurrent /\ Ordered /\ SetsWaiting
  BY DEF NoneCurrent, Ordered, SetsWaiting, IsSet
<1>3. FailedCommitRolledBack /\ CommitAnswersItsSets
  BY DEF FailedCommitRolledBack, CommitAnswersItsSets
<1> QED BY <1>1, <1>2, <1>3 DEF CInv

\* Every step keeps the invariant of careful clients.
LEMMA NextCInv ==
  ASSUME Careful
  PROVE  IInv /\ CInv /\ [Next]_vars => CInv'
<1> SUFFICES ASSUME IInv, CInv, [Next]_vars PROVE CInv'
  OBVIOUS
<1>0. TypeOK'
  BY NextIInv DEF IInv
<1>1. ASSUME NEW t \in Task, Client(t) \/ Exclusive(t) \/ Concurrent(t) \/ Finish(t) PROVE CInv'
  BY <1>0, <1>1, AllSteps, LedgerStep, NoneCurrentStep, OrderedStep, WaitingStep, RolledBackStep, AnswersStep DEF CInv
<1>2. CASE UNCHANGED vars
  BY <1>2 DEF vars, storage, ports, worker, tasks, CInv, Ledger, Issued, BeginsNew, EndsOnce, SetsOwned, GaveOut, IsEnd, IsSet,
              NoneCurrent, Ordered, SetsWaiting, FailedCommitRolledBack, CommitAnswersItsSets
<1> QED BY <1>1, <1>2 DEF Next

\* The invariant of careful clients holds of every storage they use.
THEOREM CarefulInvariance == Careful => (Spec => [](IInv /\ CInv))
<1> SUFFICES ASSUME Careful PROVE Spec => [](IInv /\ CInv)
  OBVIOUS
<1>1. Init => IInv /\ CInv
  BY InitIInv, InitCInv
<1>2. IInv /\ CInv /\ [Next]_vars => IInv' /\ CInv'
  BY NextIInv, NextCInv
<1> QED BY <1>1, <1>2, PTL DEF Spec

(***************************************************************************)
(* Between exclusive messages no transaction is current and no commit is   *)
(* put off (handle_txn_commit).                                            *)
(***************************************************************************)
THEOREM IdleHasNoTxn == Careful => (Spec => []IdleMeansNoTxn)
<1> SUFFICES ASSUME Careful PROVE Spec => []IdleMeansNoTxn
  OBVIOUS
<1>1. CInv => IdleMeansNoTxn
  BY DEF CInv, NoneCurrent, IdleMeansNoTxn
<1> QED BY <1>1, CarefulInvariance, PTL

(***************************************************************************)
(* A commit that succeeded has answered every set of its transaction       *)
(* (txn_state_run, from the sets handle_set held back).                    *)
(***************************************************************************)
THEOREM CommitsAnswerTheirSets == Careful => (Spec => []CommitAnswersItsSets)
<1> SUFFICES ASSUME Careful PROVE Spec => []CommitAnswersItsSets
  OBVIOUS
<1>1. CInv => CommitAnswersItsSets
  BY DEF CInv
<1> QED BY <1>1, CarefulInvariance, PTL

(***************************************************************************)
(* A commit that failed has left nothing of its transaction behind         *)
(* (handle_txn_commit, when tdb could start the transaction).              *)
(***************************************************************************)
THEOREM FailedCommitsRolledBack == Careful => (Spec => []FailedCommitRolledBack)
<1> SUFFICES ASSUME Careful PROVE Spec => []FailedCommitRolledBack
  OBVIOUS
<1>1. CInv => FailedCommitRolledBack
  BY DEF CInv
<1> QED BY <1>1, CarefulInvariance, PTL
-----------------------------------------------------------------------------
(***************************************************************************)
(* What a step may never do.                                               *)
(***************************************************************************)
\* Every step keeps the records, or is the open, the set or the commit that says so.
LEMMA WritesReported ==
  ASSUME IInv, CInv, Careful, tdb_data' # tdb_data,
         NEW t \in Task, Client(t) \/ Exclusive(t) \/ Concurrent(t) \/ Finish(t)
  PROVE  /\ ~LeftOpen
         /\ status[t] = "pending" /\ status'[t] = "succeeded"
         /\ \/ request[t].what = "commit"
            \/ request[t].what = "set" /\ request[t].txn = 0
            \/ request[t].what = "open" /\ tdb_data' = Empty
<1>0. /\ TypeOK /\ TdbTransactionOwned /\ ClosedIsClean /\ NoneCurrent /\ TasksAccounted
      /\ tdb_depth \in Nat /\ NoTask \notin Task
  BY TaskAssumption DEF IInv, CInv, TypeOK
<1>1. ~Client(t)
  BY DEF Client, Open, Close, CountKeys, Begin, Get, Set, Commit, Cancel, EndTxn, PostExclusive, PostConcurrent, Take, tdb
<1>2. ~Concurrent(t) /\ ~Finish(t)
  BY DEF Concurrent, HandleGet, HandleCountKeys, Serve, Finish, tdb
<1>3. CASE HandleOpen(t)
  <2>1. FromPort(t) /\ request[t].what = "open"
    BY <1>3, ReceiveSteps DEF HandleOpen
  <2>2. ~db_ctx /\ TdbOpen /\ Succeed(t)
    BY <1>3 DEF HandleOpen, tdb
  <2>3. tdb_data' = Empty /\ tdb_depth = 0
    BY <1>0, <2>2 DEF TdbOpen, ClosedIsClean
  <2>4. ~LeftOpen
    BY <2>1, <2>3 DEF LeftOpen, RunsSets, FromPort
  <2> QED BY <1>0, <2>1, <2>2, <2>3, <2>4 DEF FromPort, Succeed, Complete, TypeOK
<1>4. ~HandleClose(t) /\ ~HandleTxnBegin(t) /\ ~HandleTxnCancel(t)
  BY DEF HandleClose, TdbDiscards, HandleTxnBegin, HandleTxnCancel, tdb
<1>5. CASE HandleSet(t)
  <2>1. FromPort(t) /\ request[t].what = "set" /\ txn = 0
    BY <1>0, <1>5, ReceiveSteps DEF HandleSet, FromPort, NoneCurrent
  <2>2. StoreData(t) /\ request[t].txn = txn
    BY <1>5 DEF HandleSet, tdb
  <2>3. Succeed(t) /\ tdb_depth = 0
    BY <1>0, <2>2 DEF StoreData, TdbStore, tdb
  <2>4. ~LeftOpen
    BY <2>1, <2>3 DEF LeftOpen, RunsSets, FromPort
  <2> QED BY <1>0, <2>1, <2>2, <2>3, <2>4 DEF FromPort, Succeed, Complete, TypeOK
<1>6. CASE CommitDone(t)
  <2>1. t = current /\ pc = "run" /\ current # NoTask
    BY <1>0, <1>6 DEF CommitDone, TasksAccounted, HeldWhilePending
  <2>2. request[t].what = "commit" /\ status[t] = "pending"
    BY <1>0, <2>1 DEF NoneCurrent, TasksAccounted, HeldWhilePending
  <2>3. tdb_depth = 1
    BY <1>6 DEF CommitDone, TdbCommits
  <2>4. ~LeftOpen
    BY <2>1, <2>3 DEF LeftOpen, RunsSets
  <2> QED BY <1>0, <1>6, <2>2, <2>4 DEF CommitDone, Succeed, Complete, TypeOK
<1>7. ~TxnStateRun(t)
  <2>1. TxnStateRun(t) => tdb_depth > 0
    BY <1>0 DEF TxnStateRun, TdbTransactionOwned, RunsSets
  <2> QED BY <2>1 DEF TxnStateRun, StoreData, TdbStore, tdb
<1>8. ~CommitAborted(t)
  BY DEF CommitAborted, Failing, TdbRecovers, TdbCommitFails, TdbDiscards, tdb
<1>9. HandleTxnCommit(t) => CommitDone(t)
  BY <1>7, <1>8 DEF HandleTxnCommit, ReceiveCommit, CommitClosed, CommitPostponed, CommitUnknown, CommitNotStarted,
                    CommitStarted, Run, Claim, Enter, tdb
<1> QED BY <1>1, <1>2, <1>3, <1>4, <1>5, <1>6, <1>9 DEF Exclusive

(***************************************************************************)
(* The records on disk change only as a commit, or a set outside any       *)
(* transaction, or an open that truncates them, is answered with success:  *)
(* the sets of a transaction show all at once or not at all.  Under a tdb  *)
(* transaction that a failed commit has left open they do not change.      *)
(***************************************************************************)
THEOREM WritesOnlyAtCommit == Careful => (Spec => TransactedWritesOnlyAtCommit)
<1> SUFFICES ASSUME Careful PROVE Spec => TransactedWritesOnlyAtCommit
  OBVIOUS
<1> DEFINE Reported ==
      tdb_data' # tdb_data =>
        /\ ~LeftOpen
        /\ \E t \in Task :
             /\ status[t] = "pending" /\ status'[t] = "succeeded"
             /\ \/ request[t].what = "commit"
                \/ request[t].what = "set" /\ request[t].txn = 0
                \/ request[t].what = "open" /\ tdb_data' = Empty
<1>1. IInv /\ CInv /\ [Next]_vars => [Reported]_vars
  <2> SUFFICES ASSUME IInv, CInv, Next, tdb_data' # tdb_data PROVE Reported
    BY DEF vars, tdb
  <2> QED BY WritesReported DEF Next
<1> QED BY <1>1, CarefulInvariance, PTL DEF Spec, TransactedWritesOnlyAtCommit
-----------------------------------------------------------------------------
(***************************************************************************)
(* Why a commit is given up.                                               *)
(***************************************************************************)
\* A transaction carries an error only while its commit is being given up.
ErrorsFresh ==
  /\ \A t \in Task : request[t].what \in {"open", "close"} => request[t].txn = 0
  /\ \A id \in TxnId : txn_error[id] => pc = "abort" /\ id = txn

\* Posting, answering and freeing a task leave the requests of open and close without one.
LEMMA RequestsFresh ==
  ASSUME IInv, ErrorsFresh, Careful, NEW t \in Task, Client(t) \/ Exclusive(t) \/ Concurrent(t) \/ Finish(t)
  PROVE  \A u \in Task : request'[u].what \in {"open", "close"} => request'[u].txn = 0
<1>0. TypeOK
  BY DEF IInv
<1>1. ASSUME NEW r, Take(t, r), r.what \in {"open", "close"} => r.txn = 0
      PROVE  \A u \in Task : request'[u].what \in {"open", "close"} => request'[u].txn = 0
  BY <1>0, <1>1 DEF Take, ErrorsFresh, TypeOK
<1>2. CASE Client(t)
  BY <1>1, <1>2 DEF Client, Open, Close, CountKeys, Begin, Get, Set, Commit, Cancel, EndTxn, PostExclusive, PostConcurrent, Req
<1>3. CASE Finish(t)
  BY <1>0, <1>3 DEF Finish, ErrorsFresh, TypeOK, Blank, Req
<1>4. CASE HandleTxnBegin(t)
  <2>1. request' = request \/ request' = [request EXCEPT ![t].txn = txn_seq']
    BY <1>4 DEF HandleTxnBegin
  <2>3. /\ \A u \in Task : request'[u].what = request[u].what
        /\ \A u \in Task : u # t => request'[u].txn = request[u].txn
    <3>1. CASE request' = request
      BY <3>1
    <3>2. CASE request' = [request EXCEPT ![t].txn = txn_seq']
      BY <1>0, <3>2 DEF TypeOK, Request
    <3> QED BY <2>1, <3>1, <3>2
  <2>2. request[t].what = "begin"
    BY <1>4 DEF HandleTxnBegin, Receive
  <2> QED BY <2>2, <2>3 DEF ErrorsFresh
<1>5. CASE Concurrent(t) \/ HandleOpen(t) \/ HandleClose(t) \/ HandleSet(t) \/ HandleTxnCancel(t)
  <2>1. request' = request
    BY <1>5 DEF Concurrent, HandleGet, HandleCountKeys, Serve, HandleOpen, HandleClose, HandleSet, HandleTxnCancel
  <2> QED BY <2>1 DEF ErrorsFresh
<1>6. CASE HandleTxnCommit(t)
  <2>1. request' = request
    BY <1>6 DEF HandleTxnCommit, ReceiveCommit, CommitClosed, CommitPostponed, CommitUnknown, CommitNotStarted, CommitStarted,
                TxnStateRun, CommitDone, CommitAborted, EndCommit, Run, Claim, Enter, tasks
  <2> QED BY <2>1 DEF ErrorsFresh
<1> QED BY <1>2, <1>3, <1>4, <1>5, <1>6 DEF Exclusive

\* Only a set that fails while it is run puts an error in txn->error.
LEMMA ErrorsStep ==
  ASSUME IInv, CInv, ErrorsFresh, Careful, NEW t \in Task, Client(t) \/ Exclusive(t) \/ Concurrent(t) \/ Finish(t)
  PROVE  \A id \in TxnId : txn_error'[id] => pc' = "abort" /\ id = txn'
<1>0. TypeOK /\ TdbTransactionOwned /\ NoneCurrent /\ ClosedIsClean /\ 0 \notin TxnId /\ txn_state \subseteq TxnId
      /\ \A id \in TxnId : txn_error[id] => pc = "abort" /\ id = txn
  BY BoundAssumption DEF IInv, CInv, ErrorsFresh, TypeOK, TxnId
<1>1. CASE Client(t) \/ Concurrent(t) \/ Finish(t)
  <2>1. UNCHANGED <<txn_error, pc, txn>>
    BY <1>1 DEF Client, Open, Close, CountKeys, Begin, Get, Set, Commit, Cancel, EndTxn, PostExclusive, PostConcurrent, Take,
                Concurrent, HandleGet, HandleCountKeys, Serve, Finish, storage, worker
  <2> QED BY <1>0, <2>1
<1>2. CASE HandleOpen(t) \/ HandleClose(t)
  <2>1. pc = "idle" /\ request[t].txn = 0
    BY <1>2 DEF HandleOpen, HandleClose, Receive, ErrorsFresh
  <2>2. \A id \in TxnId : ~Marked(t)[id]
    BY <1>0, <2>1 DEF Marked
  <2>3. txn_error' \in {txn_error, Marked(t), [i \in TxnId |-> FALSE]}
    BY <1>2 DEF HandleOpen, HandleClose, Fail
  <2> QED BY <1>0, <2>1, <2>2, <2>3
<1>3. CASE HandleSet(t)
  <2>1. pc = "idle" /\ txn = 0
    BY <1>0, <1>3 DEF HandleSet, Receive, NoneCurrent
  <2>2. txn_error' = txn_error \/ (txn_error' = Marked(t) /\ (request[t].txn \notin txn_state))
    BY <1>0, <1>3, <2>1 DEF HandleSet, StoreData, Fail, Deferred, ClosedIsClean
  <2>3. \A id \in TxnId : ~txn_error[id]
    BY <1>0, <2>1
  <2> QED BY <2>2, <2>3 DEF Marked
<1>4. CASE HandleTxnBegin(t) \/ HandleTxnCancel(t)
  <2>1. /\ pc = "idle"
        /\ \A id \in TxnId : txn_error'[id] => txn_error[id]
    BY <1>0, <1>4 DEF HandleTxnBegin, HandleTxnCancel, Receive, Drop, TypeOK
  <2> QED BY <1>0, <2>1
<1>5. CASE ReceiveCommit(t)
  <2>1. pc = "idle" /\ txn_error' = txn_error
    BY <1>5 DEF ReceiveCommit, Receive, storage
  <2> QED BY <1>0, <2>1
<1>6. CASE HandleTxnCommit(t) /\ Enter(t)
  <2>1. CommitStarted(t)
    BY <1>6, CommitStarts
  <2>2. pc = "enter" /\ txn_error' = txn_error
    BY <1>6, <2>1 DEF CommitStarted, Run, Enter
  <2> QED BY <1>0, <2>2
<1>7. CASE TxnStateRun(t)
  <2>1. /\ pc = "run" /\ txn' = txn /\ txn \in TxnId
        /\ txn_msgs[txn] # <<>> /\ t = Head(txn_msgs[txn]) /\ txn_msgs[txn] \in Seq(Task)
    BY <1>0, <1>7 DEF TxnStateRun, TdbTransactionOwned, RunsSets, TypeOK
  <2>2. t \in ToSet(txn_msgs[txn])
    BY <2>1, TailList
  <2>3. request[t].txn = txn
    BY <2>1, <2>2 DEF IInv, DeferredBelong
  <2>4. \A id \in TxnId : ~txn_error[id]
    BY <1>0, <2>1
  <2>5. txn_error' = txn_error \/ txn_error' = Marked(t)
    BY <1>7 DEF TxnStateRun, StoreData, Fail
  <2>6. \A id \in TxnId : txn_error'[id] => id = txn
    BY <2>3, <2>4, <2>5 DEF Marked
  <2>7. pc' = IF txn_error'[txn] THEN "abort" ELSE "run"
    BY <1>7 DEF TxnStateRun
  <2> QED BY <2>1, <2>6, <2>7
<1>8. CASE CommitDone(t) \/ CommitAborted(t)
  <2>1. Drop(txn)
    BY <1>8 DEF CommitDone, CommitAborted, EndCommit
  <2>2. \A id \in TxnId : ~txn_error'[id]
    BY <1>0, <2>1 DEF Drop
  <2> QED BY <2>2
<1>9. HandleTxnCommit(t) => ReceiveCommit(t) \/ Enter(t) \/ TxnStateRun(t) \/ CommitDone(t) \/ CommitAborted(t)
  BY DEF HandleTxnCommit, CommitClosed, CommitPostponed, CommitUnknown, CommitNotStarted, CommitStarted, Claim, Run
<1> QED BY <1>1, <1>2, <1>3, <1>4, <1>5, <1>6, <1>7, <1>8, <1>9 DEF Exclusive

(***************************************************************************)
(* A commit is given up only because the set it has just run has failed,   *)
(* never for an error left over in txn->error (txn_state_run).             *)
(***************************************************************************)
THEOREM AbortsHaveCause == Careful => (Spec => AbortHasCause)
<1> SUFFICES ASSUME Careful PROVE Spec => AbortHasCause
  OBVIOUS
<1>1. Init => ErrorsFresh
  BY DEF Init, ErrorsFresh, Blank, Req
<1>2. IInv /\ CInv /\ ErrorsFresh /\ [Next]_vars => ErrorsFresh'
  <2>1. ASSUME IInv, CInv, ErrorsFresh, NEW t \in Task, Client(t) \/ Exclusive(t) \/ Concurrent(t) \/ Finish(t)
        PROVE  ErrorsFresh'
    BY <2>1, RequestsFresh, ErrorsStep DEF ErrorsFresh
  <2>2. ASSUME ErrorsFresh, UNCHANGED vars PROVE ErrorsFresh'
    BY <2>2 DEF ErrorsFresh, vars, storage, worker, tasks
  <2> QED BY <2>1, <2>2 DEF Next
<1>3. ASSUME IInv, CInv, ErrorsFresh, Next, pc = "run", pc' = "abort"
      PROVE  \E t \in Task : /\ status[t] = "pending" /\ status'[t] = "failed"
                             /\ request[t].what = "set" /\ request[t].txn = txn
  <2>1. PICK t \in Task : Client(t) \/ Exclusive(t) \/ Concurrent(t) \/ Finish(t)
    BY <1>3 DEF Next
  <2>2. ~Client(t) /\ ~Concurrent(t) /\ ~Finish(t)
    BY <1>3 DEF Client, Open, Close, CountKeys, Begin, Get, Set, Commit, Cancel, EndTxn, PostExclusive, PostConcurrent, Take,
                Concurrent, HandleGet, HandleCountKeys, Serve, Finish, worker
  <2>3. ~HandleOpen(t) /\ ~HandleClose(t) /\ ~HandleSet(t) /\ ~HandleTxnBegin(t) /\ ~HandleTxnCancel(t)
    BY <1>3 DEF HandleOpen, HandleClose, HandleSet, HandleTxnBegin, HandleTxnCancel, worker
  <2>4. TxnStateRun(t)
    BY <1>3, <2>1, <2>2, <2>3 DEF Exclusive, HandleTxnCommit, ReceiveCommit, Receive, CommitClosed, CommitPostponed, CommitUnknown,
         CommitNotStarted, CommitStarted, Run, Claim, Enter, CommitDone, CommitAborted, EndCommit, NextCommit, Return
  <2>5. TypeOK /\ txn \in TxnId /\ txn_msgs[txn] \in Seq(Task) /\ txn_msgs[txn] # <<>> /\ t = Head(txn_msgs[txn])
    BY <1>3, <2>4 DEF TxnStateRun, IInv, TdbTransactionOwned, RunsSets, TypeOK
  <2>6. t \in ToSet(txn_msgs[txn])
    BY <2>5, TailList
  <2>7. request[t].what = "set" /\ request[t].txn = txn /\ status[t] = "pending"
    BY <1>3, <2>5, <2>6 DEF IInv, DeferredBelong, TasksAccounted, HeldWhilePending
  <2>8. ~txn_error[txn]
    BY <1>3, <2>5 DEF ErrorsFresh
  <2>9. Fail(t)
    BY <1>3, <2>4, <2>8 DEF TxnStateRun, StoreData
  <2> QED BY <2>5, <2>7, <2>9 DEF Fail, Complete, TypeOK
<1>4. IInv /\ CInv /\ ErrorsFresh /\ [Next]_vars =>
        [pc = "run" /\ pc' = "abort" =>
           \E t \in Task : /\ status[t] = "pending" /\ status'[t] = "failed"
                          /\ request[t].what = "set" /\ request[t].txn = txn]_vars
  BY <1>3 DEF vars, worker
<1> QED BY <1>1, <1>2, <1>4, CarefulInvariance, PTL DEF Spec, AbortHasCause
-----------------------------------------------------------------------------
(***************************************************************************)
(* Requests other than a transaction's sets, which SetsWaiting is about,   *)
(* do not leave the hands they are in unanswered: the ways to forget one   *)
(* are closed to careful clients.                                          *)
(***************************************************************************)
DirectHeld == \A t \in Task : status[t] = "pending" /\ ~IsSet(t) => InHand(t)

\* What is forgotten is a transaction's set.
LEMMA ForgottenIsSet ==
  ASSUME IInv, CInv, OneShot, NEW t \in Task, Forgotten(t), KnownLoss(t)
  PROVE  IsSet(t)
<1>1. ~(request[t].what = "set" /\ request[t].txn = 0 /\ pc = "idle" /\ txn # 0)
  BY DEF CInv, NoneCurrent
<1>2. CASE DroppedWithTxn(t)
  <2>1. PICK c \in Task : request[c].txn = request[t].txn /\ request[c].what \in {"cancel", "commit"}
    BY <1>2 DEF DroppedWithTxn, Answered
  <2>2. request[c].txn # 0
    BY <2>1 DEF CInv, Ledger, EndsOnce, IsEnd, TxnId
  <2> QED BY <1>2, <2>1, <2>2 DEF DroppedWithTxn, IsSet
<1> QED BY <1>1, <1>2 DEF KnownLoss

\* A request that is new has just been posted, and one that is not was in hand already.
LEMMA DirectHeldStep ==
  ASSUME IInv, CInv, DirectHeld, OneShot, Next, \A t \in Task : Forgotten(t) => KnownLoss(t)
  PROVE  DirectHeld'
<1>0. TypeOK
  BY DEF IInv
<1> PICK u \in Task : Client(u) \/ Exclusive(u) \/ Concurrent(u) \/ Finish(u)
  BY DEF Next
<1> SUFFICES ASSUME NEW t \in Task, status'[t] = "pending", ~IsSet(t)' PROVE InHand(t)'
  BY DEF DirectHeld
<1>1. CASE status[t] = "pending"
  <2>1. /\ request'[t].what = request[t].what
        /\ request[t].what # "begin" => request'[t].txn = request[t].txn
    BY <1>0, <1>1, PendingKept
  <2>2. ~IsSet(t)
    BY <2>1 DEF IsSet
  <2>3. InHand(t)
    BY <1>1, <2>2 DEF DirectHeld
  <2> QED BY <1>1, <2>2, <2>3, ForgottenIsSet DEF Forgotten
<1>2. CASE status[t] # "pending"
  <2>1. Client(u) /\ t = u
    <3>1. CASE Client(u)
      <4> PICK r \in Request : PostExclusive(u, r) \/ PostConcurrent(u, r)
        BY <1>0, <3>1, ClientPosts
      <4>1. status' = [status EXCEPT ![u] = "pending"]
        BY DEF PostExclusive, PostConcurrent, Take
      <4> QED BY <1>0, <1>2, <3>1, <4>1 DEF TypeOK
    <3>2. CASE Exclusive(u) \/ Concurrent(u)
      BY <1>0, <1>2, <3>2, ServerAnswers DEF TypeOK
    <3>3. CASE Finish(u)
      BY <1>0, <1>2, <3>3 DEF Finish, TypeOK
    <3> QED BY <3>1, <3>2, <3>3
  <2> PICK r \in Request : PostExclusive(u, r) \/ PostConcurrent(u, r)
    BY <1>0, <2>1, ClientPosts
  <2>2. u \in ToSet(Append(ex_port, u))
    BY <1>0, AppendList DEF TypeOK
  <2>3. ex_port' = Append(ex_port, u) \/ cn_port' = cn_port \cup {u}
    BY DEF PostExclusive, PostConcurrent
  <2> QED BY <2>1, <2>2, <2>3 DEF InHand
<1> QED BY <1>1, <1>2

(***************************************************************************)
(* An unanswered request is where a handler will find it, unless it is a   *)
(* set whose transaction is over (catalina_storage_set_async, which waits  *)
(* for a message that txn_state_free has dropped).                         *)
(***************************************************************************)
THEOREM RequestsAreHeld == Careful => (Spec => []UnansweredAreHeld)
<1> SUFFICES ASSUME Careful PROVE Spec => []UnansweredAreHeld
  OBVIOUS
<1>1. Init => DirectHeld
  BY DEF Init, DirectHeld
<1>2. IInv /\ CInv /\ DirectHeld /\ [Next]_vars /\ [\A t \in Task : Forgotten(t) => KnownLoss(t)]_vars
      => DirectHeld'
  <2>1. ASSUME DirectHeld, UNCHANGED vars PROVE DirectHeld'
    BY <2>1 DEF DirectHeld, IsSet, InHand, vars, storage, ports, worker, tasks
  <2>2. ASSUME IInv, CInv, DirectHeld, Next, \A t \in Task : Forgotten(t) => KnownLoss(t) PROVE DirectHeld'
    BY <2>2, DirectHeldStep DEF Careful
  <2> QED BY <2>1, <2>2
<1>3. IInv /\ CInv /\ DirectHeld => UnansweredAreHeld
  <2> SUFFICES ASSUME IInv, CInv, DirectHeld, NEW t \in Task, status[t] = "pending", ~InHand(t)
               PROVE  request[t].what = "set" /\ request[t].txn # 0 /\ request[t].txn \notin txn_state
    BY DEF UnansweredAreHeld
  <2>1. IsSet(t)
    BY DEF DirectHeld
  <2>2. request[t].txn \in TxnId
    BY <2>1 DEF IInv, TypeOK, Request, IsSet, TxnId
  <2>3. request[t].txn \notin txn_state
    BY <2>1, <2>2 DEF CInv, SetsWaiting, InHand
  <2> QED BY <2>1, <2>3 DEF IsSet
<1> QED BY <1>1, <1>2, <1>3, CarefulInvariance, LossesKnown, PTL DEF Spec, OnlyKnownLosses
=============================================================================
