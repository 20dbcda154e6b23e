------------------------- MODULE StorageRefinement -------------------------
(***************************************************************************)
(* CatalinaStorage implements TransactionalStore.  Two history variables    *)
(* remember what a commit uses up while it runs: the sets that were        *)
(* deferred for its transaction, and what the connection saw before.       *)
(***************************************************************************)
EXTENDS CatalinaStorage

VARIABLES
  written,  \* key and data of the sets deferred for each transaction, oldest first
  seen      \* tdb_view, but for what the commit under way has stored

Deferring(id) == Len(txn_msgs'[id]) > Len(txn_msgs[id])
WriteOf(t) == [key |-> request[t].key, data |-> request[t].data]

Remember ==
  /\ written' = [id \in TxnId |->
       CASE id \notin txn_state' -> <<>>
         [] id \in txn_state' /\ Deferring(id) -> Append(written[id], WriteOf(Head(txn_msgs'[id])))
         [] OTHER -> written[id]]
  /\ seen' = IF RunsSets' THEN seen ELSE tdb_view'

HInit == Init /\ written = [id \in TxnId |-> <<>>] /\ seen = Empty
HNext == Next /\ Remember
HSpec == HInit /\ [][HNext]_<<vars, written, seen>>

Abstract == INSTANCE TransactionalStore WITH
  MayTruncate <- "O_TRUNC" \in StrayFlags,
  open    <- db_ctx,
  content <- seen,
  saved   <- tdb_data,
  loose   <- LeftOpen,
  issued  <- 1..txn_seq,
  live    <- txn_state,
  doomed  <- {id \in txn_state : txn_error[id]},
  joined  <- [id \in TxnId |-> ToSet(txn_msgs[id])]

(***************************************************************************)
(* Every behaviour of the storage whose clients end each transaction once, *)
(* and whose tdb can always start one, is a behaviour of the abstract      *)
(* store: requests are atomic, and commits are all or nothing, but for     *)
(* what a commit leaves behind whose set has failed.                       *)
(***************************************************************************)
Implements == Abstract!Spec

AllButStart == FaultKind \ {"start"}
NoFaults == {}
Symmetry == Permutations(Task) \cup Permutations(Key) \cup Permutations(Value)
=============================================================================
