---------------------------- MODULE StorageTask ----------------------------
(***************************************************************************)
(* The life of a StorageTask: the hand-over between the thread that makes  *)
(* a call, the worker that handles its message and the main loop that runs *)
(* its callback.  CatalinaStorage says what a handler does; here a handler *)
(* only decides success or failure, and what matters is who still holds    *)
(* the task, its mutex and its condition when it is freed, and who waits   *)
(* for whom: a callback may make calls of its own, while the worker or the *)
(* main loop that runs it does nothing else.                               *)
(***************************************************************************)
EXTENDS Naturals, FiniteSets

CONSTANTS
  Call,       \* calls of the API, each by a thread of its own or by a callback
  NoCall,     \* the parent of a call that no callback makes
  Spurious,   \* calls whose g_cond_wait may return although nobody signalled
  Refuses,    \* calls whose value the formatter may refuse, or that have none
  Reentrant   \* a callback that the worker runs may make synchronous calls

ASSUME CallAssumption == NoCall \notin Call
ASSUME OptionAssumption == Spurious \subseteq Call /\ Refuses \subseteq Call /\ Reentrant \in BOOLEAN

\* A *_value_async call has a task of its own beside that of the call it makes.
Kind == {"sync", "async", "set_value", "get_value"}
Task == Call \X {"outer", "inner"}
Outer(c) == <<c, "outer">>
Inner(c) == <<c, "inner">>

VARIABLES
  use_idle,  \* priv->use_idle: callbacks run in the main loop, or in the worker
  kind,      \* which sort of call it is
  parent,    \* the call whose callback makes it
  caller,    \* where the calling thread is
  handler,   \* where the worker is with the message of a task
  memory,    \* whether a task is allocated
  mutex,     \* the holder of task->mutex
  success,   \* task->success
  idle,      \* tasks with a completion queued in the main loop
  answer,    \* what the call returned, or told its callback
  callback   \* who is running the callback of a call that makes calls in it

vars == <<use_idle, kind, parent, caller, handler, memory, mutex, success, idle, answer, callback>>
calls   == <<kind, parent>>
outcome == <<answer, callback>>

Verdict == {"none", "yes", "no"}

Init ==
  /\ use_idle = TRUE
  /\ kind \in [Call -> Kind]
  /\ parent \in [Call -> Call \cup {NoCall}]
  /\ \A c \in Call : parent[c] # NoCall => kind[parent[c]] # "sync" /\ parent[parent[c]] = NoCall
  /\ caller = [c \in Call |-> "start"]
  /\ handler = [t \in Task |-> "none"]
  /\ memory = [t \in Task |-> "none"]
  /\ mutex = [t \in Task |-> "free"]
  /\ success = [t \in Task |-> "none"]
  /\ idle = {}
  /\ answer = [c \in Call |-> "none"]
  /\ callback = [c \in Call |-> "none"]

Running == {"worker", "main", "caller"}
Children(c) == {d \in Call : parent[d] = c}

\* A callback makes its calls one after the other.
MayStart(c) ==
  /\ caller[c] = "start"
  /\ parent[c] # NoCall =>
       /\ callback[parent[c]] \in Running
       /\ \A d \in Children(parent[c]) : caller[d] \in {"start", "returned"}
       /\ kind[c] = "sync" /\ callback[parent[c]] = "worker" => Reentrant

(***************************************************************************)
(* The arbiter: while an exclusive message is handled no other is; those   *)
(* of get requests are handled together.  A callback the worker runs is    *)
(* part of the handling.                                                   *)
(***************************************************************************)
Handling(c) == handler[Outer(c)] \in {"locking", "signalling", "unlocking"} \/ callback[c] = "worker"
Reading(c) == kind[c] = "get_value"
Scheduled(c) == \A d \in Call : Handling(d) => Reading(c) /\ Reading(d)
-----------------------------------------------------------------------------
(***************************************************************************)
(* A synchronous call keeps the mutex from storage_task_new until it waits *)
(* and so cannot miss the signal.                                          *)
(***************************************************************************)
SyncNew(c) ==
  /\ kind[c] = "sync" /\ MayStart(c)
  /\ memory' = [memory EXCEPT ![Outer(c)] = "live"]
  /\ mutex' = [mutex EXCEPT ![Outer(c)] = "caller"]
  /\ caller' = [caller EXCEPT ![c] = "posting"]
  /\ UNCHANGED <<calls, handler, success, idle, outcome>>

SyncPost(c) ==
  /\ caller[c] = "posting"
  /\ handler' = [handler EXCEPT ![Outer(c)] = "posted"]
  /\ caller' = [caller EXCEPT ![c] = "locked"]
  /\ UNCHANGED <<calls, memory, mutex, success, idle, outcome>>

\* g_cond_wait: go to sleep and release the mutex in one step
Wait(c) ==
  /\ caller[c] = "locked"
  /\ caller' = [caller EXCEPT ![c] = "waiting"]
  /\ mutex' = [mutex EXCEPT ![Outer(c)] = "free"]
  /\ UNCHANGED <<calls, handler, memory, success, idle, outcome>>

WakeSpuriously(c) ==
  /\ c \in Spurious
  /\ caller[c] = "waiting"
  /\ caller' = [caller EXCEPT ![c] = "woken"]
  /\ UNCHANGED <<calls, handler, memory, mutex, success, idle, outcome>>

\* Mutant: being awake is taken for success
Reacquire_Trusts(c) ==
  /\ caller[c] = "woken" /\ mutex[Outer(c)] = "free"
  /\ mutex' = [mutex EXCEPT ![Outer(c)] = "caller"]
  /\ answer' = [answer EXCEPT ![c] = "yes"]
  /\ caller' = [caller EXCEPT ![c] = "freeing"]
  /\ UNCHANGED <<calls, handler, memory, success, idle, callback>>

\* the rest of storage_task_wait: the mutex is held again, success is read
Reacquire(c) ==
  /\ caller[c] = "woken" /\ mutex[Outer(c)] = "free"
  /\ mutex' = [mutex EXCEPT ![Outer(c)] = "caller"]
  /\ answer' = [answer EXCEPT ![c] = IF success[Outer(c)] = "yes" THEN "yes" ELSE "no"]
  /\ caller' = [caller EXCEPT ![c] = "freeing"]
  /\ UNCHANGED <<calls, handler, memory, success, idle, callback>>

\* storage_task_free by the synchronous call
SyncFree(c) ==
  /\ kind[c] = "sync" /\ caller[c] = "freeing"
  /\ mutex' = [mutex EXCEPT ![Outer(c)] = "free"]
  /\ memory' = [memory EXCEPT ![Outer(c)] = "freed"]
  /\ caller' = [caller EXCEPT ![c] = "returned"]
  /\ UNCHANGED <<calls, handler, success, idle, outcome>>
-----------------------------------------------------------------------------
(***************************************************************************)
(* An asynchronous call returns when it has posted.                        *)
(***************************************************************************)
AsyncPost(c) ==
  /\ kind[c] = "async" /\ MayStart(c)
  /\ memory' = [memory EXCEPT ![Outer(c)] = "live"]
  /\ handler' = [handler EXCEPT ![Outer(c)] = "posted"]
  /\ caller' = [caller EXCEPT ![c] = "returned"]
  /\ UNCHANGED <<calls, mutex, success, idle, outcome>>

\* set_value_async, get_value_async: the inner call is handed the outer task
ValuePost(c) ==
  /\ kind[c] \in {"set_value", "get_value"} /\ MayStart(c)
  /\ memory' = [memory EXCEPT ![Outer(c)] = "live", ![Inner(c)] = "live"]
  /\ handler' = [handler EXCEPT ![Inner(c)] = "posted"]
  /\ caller' = [caller EXCEPT ![c] = "returned"]
  /\ UNCHANGED <<calls, mutex, success, idle, outcome>>

(***************************************************************************)
(* Completing t with a callback, in a step that first makes success before *)
(* and memory alive.  Queued, the callback comes later; called at once, in *)
(* place, it first calls the *_finish function, which frees the task, and  *)
(* then makes the calls it makes.                                          *)
(***************************************************************************)
Told(c, t, verdict, alive, place) ==
  /\ answer' = [answer EXCEPT ![c] = verdict]
  /\ memory' = [alive EXCEPT ![t] = "freed"]
  /\ idle' = idle \ {Inner(c), t}
  /\ callback' = [callback EXCEPT ![c] = IF Children(c) = {} THEN "over" ELSE place]

\* Mutant: the call is queued, not its task
Completed_QueuesCall(c, t, verdict, before, alive, place) ==
  /\ success' = [before EXCEPT ![t] = verdict]
  /\ IF use_idle
     THEN idle' = (idle \ {Inner(c)}) \cup {c} /\ memory' = alive /\ UNCHANGED outcome
     ELSE Told(c, t, verdict, alive, place)

Completed(c, t, verdict, before, alive, place) ==
  /\ success' = [before EXCEPT ![t] = verdict]
  /\ IF use_idle
     THEN /\ idle' = (idle \ {Inner(c)}) \cup {t}
          /\ memory' = alive
          /\ UNCHANGED outcome
     ELSE Told(c, t, verdict, alive, place)

CallbackEnds(c) ==
  /\ callback[c] \in Running
  /\ \A d \in Children(c) : caller[d] \in {"start", "returned"}
  /\ callback' = [callback EXCEPT ![c] = "over"]
  /\ UNCHANGED <<calls, caller, handler, memory, mutex, success, idle, answer>>

\* set_value_async when serialize refuses: storage_task_fail ...
Refuse(c) ==
  /\ c \in Refuses
  /\ kind[c] = "set_value" /\ MayStart(c)
  /\ Completed(c, Outer(c), "no", success, [memory EXCEPT ![Outer(c)] = "live"], "caller")
  /\ caller' = [caller EXCEPT ![c] = "freeing"]
  /\ UNCHANGED <<calls, handler, mutex>>

\* ... and then, when a callback it called is over, storage_task_free
FreeRefused(c) ==
  /\ kind[c] = "set_value" /\ caller[c] = "freeing" /\ callback[c] # "caller"
  /\ memory' = [memory EXCEPT ![Outer(c)] = "freed"]
  /\ caller' = [caller EXCEPT ![c] = "returned"]
  /\ UNCHANGED <<calls, handler, mutex, success, idle, outcome>>

\* *_value_async_cb: finish the inner task, then complete the outer one
InnerCallback(c, inner, place) ==
  \E verdict \in IF kind[c] = "get_value" THEN {inner, "no"} ELSE {inner} :
    Completed(c, Outer(c), verdict, [success EXCEPT ![Inner(c)] = inner],
              [memory EXCEPT ![Inner(c)] = "freed"], place)
-----------------------------------------------------------------------------
(***************************************************************************)
(* The worker: a handler stores its verdict, then wakes a waiting caller   *)
(* under the mutex or hands the task to its callback.                      *)
(***************************************************************************)
HandleSync(c) ==
  /\ kind[c] = "sync" /\ handler[Outer(c)] = "posted" /\ Scheduled(c)
  /\ \E verdict \in {"yes", "no"} : success' = [success EXCEPT ![Outer(c)] = verdict]
  /\ handler' = [handler EXCEPT ![Outer(c)] = "locking"]
  /\ UNCHANGED <<calls, caller, memory, mutex, idle, outcome>>

\* Mutant: the condition is signalled without the mutex
Lock_Skipped(c) ==
  /\ handler[Outer(c)] = "locking"
  /\ handler' = [handler EXCEPT ![Outer(c)] = "signalling"]
  /\ UNCHANGED <<calls, caller, memory, mutex, success, idle, outcome>>

Lock(c) ==
  /\ handler[Outer(c)] = "locking" /\ mutex[Outer(c)] = "free"
  /\ mutex' = [mutex EXCEPT ![Outer(c)] = "worker"]
  /\ handler' = [handler EXCEPT ![Outer(c)] = "signalling"]
  /\ UNCHANGED <<calls, caller, memory, success, idle, outcome>>

\* a signal nobody waits for is lost
Signal(c) ==
  /\ handler[Outer(c)] = "signalling"
  /\ caller' = [caller EXCEPT ![c] = IF @ = "waiting" THEN "woken" ELSE @]
  /\ handler' = [handler EXCEPT ![Outer(c)] = "unlocking"]
  /\ UNCHANGED <<calls, memory, mutex, success, idle, outcome>>

\* Mutant: the mutex is not released
Unlock_Forgotten(c) ==
  /\ handler[Outer(c)] = "unlocking"
  /\ handler' = [handler EXCEPT ![Outer(c)] = "done"]
  /\ UNCHANGED <<calls, caller, memory, mutex, success, idle, outcome>>

Unlock(c) ==
  /\ handler[Outer(c)] = "unlocking"
  /\ mutex' = [mutex EXCEPT ![Outer(c)] = "free"]
  /\ handler' = [handler EXCEPT ![Outer(c)] = "done"]
  /\ UNCHANGED <<calls, caller, memory, success, idle, outcome>>

HandleAsync(c) ==
  /\ kind[c] = "async" /\ handler[Outer(c)] = "posted" /\ Scheduled(c)
  /\ \E verdict \in {"yes", "no"} : Completed(c, Outer(c), verdict, success, memory, "worker")
  /\ handler' = [handler EXCEPT ![Outer(c)] = "done"]
  /\ UNCHANGED <<calls, caller, mutex>>

HandleInner(c) ==
  /\ handler[Inner(c)] = "posted" /\ Scheduled(c)
  /\ handler' = [handler EXCEPT ![Inner(c)] = "done"]
  /\ \E inner \in {"yes", "no"} :
       IF use_idle
       THEN /\ success' = [success EXCEPT ![Inner(c)] = inner]
            /\ idle' = idle \cup {Inner(c)}
            /\ UNCHANGED <<memory, outcome>>
       ELSE InnerCallback(c, inner, "worker")
  /\ UNCHANGED <<calls, caller, mutex>>

\* The main loop runs one callback of a completed task at a time.
MainLoopIdle == \A c \in Call : callback[c] # "main"

\* Mutant: the outcome of the inner call is reported
MainLoopOuter_Inner(c) ==
  /\ Outer(c) \in idle /\ MainLoopIdle
  /\ Told(c, Outer(c), success[Inner(c)], memory, "main")
  /\ UNCHANGED <<calls, caller, handler, mutex, success>>

MainLoopOuter(c) ==
  /\ Outer(c) \in idle /\ MainLoopIdle
  /\ Told(c, Outer(c), success[Outer(c)], memory, "main")
  /\ UNCHANGED <<calls, caller, handler, mutex, success>>

MainLoopInner(c) ==
  /\ Inner(c) \in idle /\ MainLoopIdle
  /\ InnerCallback(c, success[Inner(c)], "main")
  /\ UNCHANGED <<calls, caller, handler, mutex>>
-----------------------------------------------------------------------------
\* catalina_storage_set_use_idle, at any time
SetUseIdle ==
  /\ use_idle' = ~use_idle
  /\ UNCHANGED <<calls, caller, handler, memory, mutex, success, idle, outcome>>

Caller(c) ==
  \/ SyncNew(c) \/ SyncPost(c) \/ Wait(c) \/ Reacquire(c) \/ SyncFree(c)
  \/ AsyncPost(c) \/ ValuePost(c) \/ Refuse(c) \/ FreeRefused(c)
Worker(c) == HandleSync(c) \/ Lock(c) \/ Signal(c) \/ Unlock(c) \/ HandleAsync(c) \/ HandleInner(c)
MainLoop(c) == MainLoopOuter(c) \/ MainLoopInner(c)

Step(c) ==
  /\ Caller(c) \/ Worker(c) \/ MainLoop(c) \/ CallbackEnds(c) \/ WakeSpuriously(c)
  /\ UNCHANGED use_idle

Next == SetUseIdle \/ \E c \in Call : Step(c)

Spec == Init /\ [][Next]_vars

\* Threads run, the arbiter delivers what is posted, the main loop iterates, callbacks end.
FairSpec ==
  Spec /\ \A c \in Call :
    /\ WF_vars(Caller(c) /\ UNCHANGED use_idle)
    /\ WF_vars(Worker(c) /\ UNCHANGED use_idle)
    /\ WF_vars(MainLoop(c) /\ UNCHANGED use_idle)
    /\ WF_vars(CallbackEnds(c) /\ UNCHANGED use_idle)
-----------------------------------------------------------------------------
\* Each variable keeps to its type.
TypeOK ==
  /\ use_idle \in BOOLEAN
  /\ kind \in [Call -> Kind]
  /\ parent \in [Call -> Call \cup {NoCall}]
  /\ caller \in [Call -> {"start", "posting", "locked", "waiting", "woken", "freeing", "returned"}]
  /\ handler \in [Task -> {"none", "posted", "locking", "signalling", "unlocking", "done"}]
  /\ memory \in [Task -> {"none", "live", "freed"}]
  /\ mutex \in [Task -> {"free", "caller", "worker"}]
  /\ success \in [Task -> Verdict]
  /\ idle \subseteq Task
  /\ answer \in [Call -> Verdict]
  /\ callback \in [Call -> Running \cup {"none", "over"}]

(***************************************************************************)
(* A task that a message, the main loop or a sleeping caller will still    *)
(* use, or that somebody is about to free, is allocated.                   *)
(***************************************************************************)
InUse(t) ==
  \/ handler[t] \in {"posted", "locking", "signalling", "unlocking"}
  \/ t \in idle
  \/ t[2] = "outer" /\ caller[t[1]] \in {"posting", "locked", "waiting", "woken", "freeing"}
  \/ t[2] = "outer" /\ handler[<<t[1], "inner">>] = "posted"
TasksOk(c) == \A t \in {Outer(c), Inner(c)} : InUse(t) => memory[t] = "live"
TasksInUseAllocated == \A c \in Call : TasksOk(c)

(***************************************************************************)
(* That holds of every call that is neither woken early nor refused,       *)
(* whatever the others meet with (storage_task_free).                      *)
(***************************************************************************)
UndisturbedTasksAllocated == \A c \in Call \ (Spurious \cup Refuses) : TasksOk(c)

(***************************************************************************)
(* What a call returns, or its callback is told, is what the handler       *)
(* decided (storage_task_wait, the *_finish functions).                    *)
(***************************************************************************)
AnswerOk(c) == answer[c] # "none" => answer[c] = success[Outer(c)]
AnswerIsVerdict == \A c \in Call : AnswerOk(c)

\* That holds of every call that is not woken early (storage_task_wait).
UnwokenAnswerIsVerdict == \A c \in Call \ Spurious : AnswerOk(c)

(***************************************************************************)
(* No call reports a success its handler did not decide, not even one that *)
(* was woken early; a value call succeeds only if its inner call did.      *)
(***************************************************************************)
SuccessIsReal ==
  \A c \in Call : answer[c] = "yes" =>
    /\ handler[Outer(c)] # "posted" /\ success[Outer(c)] = "yes"
    /\ kind[c] \in {"set_value", "get_value"} => success[Inner(c)] = "yes"

(***************************************************************************)
(* Deadlock-freedom: while a call is under way, some thread, the worker or *)
(* the main loop can go on with what it began: it is not at a lock held by *)
(* one that waits for it, nor at a worker or main loop taken by a callback *)
(* that waits (storage_task_wait, storage_task_complete).  New calls, early*)
(* wake-ups and changes of use_idle do not count.                          *)
(***************************************************************************)
CallerReady(c) ==
  \/ caller[c] \in {"posting", "locked"}
  \/ caller[c] = "woken" /\ mutex[Outer(c)] = "free"
  \/ caller[c] = "freeing" /\ callback[c] # "caller"
WorkerReady(c) ==
  \/ \E t \in {Outer(c), Inner(c)} : handler[t] = "posted" /\ Scheduled(c)
  \/ handler[Outer(c)] = "locking" /\ mutex[Outer(c)] = "free"
  \/ handler[Outer(c)] \in {"signalling", "unlocking"}
MainLoopReady(c) == {Outer(c), Inner(c)} \cap idle # {} /\ MainLoopIdle
CallbackReady(c) == callback[c] \in Running /\ \A d \in Children(c) : caller[d] \in {"start", "returned"}
Ready(c) == CallerReady(c) \/ WorkerReady(c) \/ MainLoopReady(c) \/ CallbackReady(c)
UnderWay(c) ==
  caller[c] # "start" /\ (caller[c] # "returned" \/ answer[c] = "none" \/ callback[c] \in Running)
SomebodyReady == (\E c \in Call : UnderWay(c)) => \E c \in Call : Ready(c)

(***************************************************************************)
(* Every call that is made is answered and its tasks are freed, also one   *)
(* made in a callback: nobody waits for a thread that waits for him.       *)
(***************************************************************************)
EveryCallReturns ==
  \A c \in Call \ (Spurious \cup Refuses) :
    caller[c] # "start" ~> /\ answer[c] # "none" /\ caller[c] = "returned"
                          /\ memory[Outer(c)] = "freed" /\ memory[Inner(c)] # "live"
=============================================================================
