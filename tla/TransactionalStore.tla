------------------------ MODULE TransactionalStore ------------------------
(***************************************************************************)
(* What CatalinaStorage promises its clients, without ports, workers or    *)
(* tdb: every request takes effect at one instant between being asked and  *)
(* being answered; the sets of a transaction wait in its write-set until a *)
(* commit makes all of them visible at once, or fails.  A commit that      *)
(* fails because a set did is where less is promised: the sets before that *)
(* one stay, and from there on nothing is saved until a close, which loses *)
(* it (loose).                                                             *)
(***************************************************************************)
EXTENDS Naturals, Sequences, FiniteSets

CONSTANTS Task, Key, Value, NoValue, TxnId, Request,
          MayTruncate  \* an open may find the records gone

VARIABLES
  open,      \* the storage is open
  content,   \* the record of each key
  saved,     \* what the next open will find of them
  loose,     \* content is not saved any more
  issued,    \* transaction ids given out so far
  live,      \* transactions that are neither committed nor cancelled
  doomed,    \* live transactions one of whose sets has failed
  written,   \* what each live transaction will write, in order
  joined,    \* its sets that are accepted and not yet answered
  request, status, result

vars == <<open, content, saved, loose, issued, live, doomed, written, joined, request, status, result>>
store == <<open, content, saved, loose>>
txns == <<issued, live, doomed, written, joined>>

Nothing == [k \in Key |-> NoValue]

\* The records once the writes of w are made, the last for a key prevailing
After(records, w) == [k \in Key |->
  LET naming == {i \in 1..Len(w) : w[i].key = k} IN
  IF naming = {} THEN records[k] ELSE w[CHOOSE i \in naming : \A j \in naming : j <= i].data]

Init ==
  /\ ~open
  /\ content = Nothing /\ saved = Nothing /\ ~loose
  /\ issued = {} /\ live = {} /\ doomed = {}
  /\ written = [i \in TxnId |-> <<>>]
  /\ joined = [i \in TxnId |-> {}]
  /\ status = [t \in Task |-> "free"]
  /\ result = [t \in Task |-> NoValue]
  /\ request \in [Task -> Request]

Ask(t) ==
  /\ status[t] = "free"
  /\ \E r \in Request : request' = [request EXCEPT ![t] = r]
  /\ status' = [status EXCEPT ![t] = "pending"]
  /\ UNCHANGED <<store, txns, result>>

Release(t) ==
  /\ status[t] \in {"succeeded", "failed"}
  /\ status' = [status EXCEPT ![t] = "free"]
  /\ \E r \in Request : request' = [request EXCEPT ![t] = r]
  /\ result' = [result EXCEPT ![t] = NoValue]
  /\ UNCHANGED <<store, txns>>

Answer(t, what, verdict) ==
  /\ status[t] = "pending"
  /\ request[t].what = what
  /\ status' = [status EXCEPT ![t] = verdict]

\* A refusal changes nothing; ending a transaction never fails this quietly.
Refuse(t) ==
  /\ \E what \in {"open", "close", "get", "set", "begin"} : Answer(t, what, "failed")
  /\ request[t].what = "set" => request[t].txn \notin live
  /\ UNCHANGED <<store, txns, request, result>>

DoOpen(t) ==
  /\ ~open /\ live = {}
  /\ Answer(t, "open", "succeeded")
  /\ open' = TRUE
  /\ saved' \in {saved} \cup (IF MayTruncate THEN {Nothing} ELSE {})
  /\ content' = saved'
  /\ UNCHANGED <<loose, txns, request, result>>

\* What is not saved is lost, also if the close is answered as failed.
DoClose(t) ==
  /\ open /\ live = {}
  /\ \/ Answer(t, "close", "succeeded") /\ open' = FALSE
     \/ Answer(t, "close", "failed") /\ UNCHANGED open
  /\ content' = saved
  /\ loose' = FALSE
  /\ UNCHANGED <<saved, txns, request, result>>

DoGet(t) ==
  /\ Answer(t, "get", "succeeded")
  /\ open /\ content[request[t].key] # NoValue
  /\ result' = [result EXCEPT ![t] = content[request[t].key]]
  /\ UNCHANGED <<store, txns, request>>

DoCount(t) ==
  /\ Answer(t, "count", "succeeded")
  /\ result' = [result EXCEPT ![t] =
       IF open THEN Cardinality({k \in Key : content[k] # NoValue}) ELSE 0]
  /\ UNCHANGED <<store, txns, request>>

Save == saved' = IF loose THEN saved ELSE content'

DoSet(t) ==
  /\ Answer(t, "set", "succeeded")
  /\ open /\ request[t].txn = 0
  /\ content' = [content EXCEPT ![request[t].key] = request[t].data]
  /\ Save
  /\ UNCHANGED <<open, loose, txns, request, result>>

DoBegin(t) ==
  /\ open
  /\ Answer(t, "begin", "succeeded")
  /\ \E id \in TxnId \ issued :
       /\ issued' = issued \cup {id}
       /\ live' = live \cup {id}
       /\ request' = [request EXCEPT ![t].txn = id]
  /\ UNCHANGED <<store, doomed, written, joined, result>>

\* A set of a live transaction takes its place in the write-set, once
Join(t) ==
  LET id == request[t].txn IN
  /\ status[t] = "pending" /\ request[t].what = "set"
  /\ id \in live /\ t \notin joined[id]
  /\ written' = [written EXCEPT ![id] = Append(@, [key |-> request[t].key, data |-> request[t].data])]
  /\ joined' = [joined EXCEPT ![id] = @ \cup {t}]
  /\ UNCHANGED <<store, issued, live, doomed, request, status, result>>

\* and is answered while a commit of its transaction is outstanding.
AnswerJoined(t) ==
  LET id == request[t].txn IN
  /\ id \in live /\ t \in joined[id]
  /\ \E c \in Task : status[c] = "pending" /\ request[c].what = "commit" /\ request[c].txn = id
  /\ joined' = [joined EXCEPT ![id] = @ \ {t}]
  /\ \/ Answer(t, "set", "succeeded") /\ UNCHANGED doomed
     \/ Answer(t, "set", "failed") /\ doomed' = doomed \cup {id}
  /\ UNCHANGED <<store, issued, live, written, request, result>>

End(id) ==
  /\ live' = live \ {id}
  /\ doomed' = doomed \ {id}
  /\ written' = [i \in TxnId |-> IF i = id THEN <<>> ELSE written[i]]
  /\ joined' = [i \in TxnId |-> IF i = id THEN {} ELSE joined[i]]
  /\ UNCHANGED <<issued, open, request, result>>

DoCommit(t) ==
  LET id == request[t].txn IN
  /\ id \in live \ doomed /\ joined[id] = {}
  /\ Answer(t, "commit", "succeeded")
  /\ content' = After(content, written[id])
  /\ Save
  /\ UNCHANGED loose
  /\ End(id)

\* A commit that fails has written nothing, unless one of its sets failed or it
\* was not to be saved anyway: then the sets that it ran are there.
FailCommit(t) ==
  LET id == request[t].txn IN
  /\ Answer(t, "commit", "failed")
  /\ \/ /\ id \notin doomed /\ ~loose
        /\ UNCHANGED <<content, loose>>
     \/ /\ id \in doomed \/ loose
        /\ \E n \in 0..Len(written[id]) : content' = After(content, SubSeq(written[id], 1, n))
        /\ loose' = TRUE
  /\ UNCHANGED saved
  /\ End(id)

DoCancel(t) ==
  /\ Answer(t, "cancel", "succeeded")
  /\ UNCHANGED <<content, saved, loose>>
  /\ End(request[t].txn)

Next == \E t \in Task :
  \/ Ask(t) \/ Release(t) \/ Refuse(t) \/ DoOpen(t) \/ DoClose(t) \/ DoGet(t) \/ DoCount(t)
  \/ DoSet(t) \/ DoBegin(t) \/ Join(t) \/ AnswerJoined(t)
  \/ DoCommit(t) \/ FailCommit(t) \/ DoCancel(t)

Spec == Init /\ [][Next]_vars
=============================================================================
