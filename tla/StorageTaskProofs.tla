------------------------- MODULE StorageTaskProofs -------------------------
(***************************************************************************)
(* Safety of the hand-over of StorageTasks, for any number of calls,       *)
(* whichever of them are woken early, refused, or made in callbacks.       *)
(***************************************************************************)
EXTENDS StorageTask, TLAPS

\* The tasks of two calls, and the two tasks of one, are different.
LEMMA TasksApart ==
  /\ \A c \in Call : Outer(c) \in Task /\ Inner(c) \in Task
  /\ \A c, d \in Call : Outer(c) # Inner(d)
  /\ \A c, d \in Call : c # d => Outer(c) # Outer(d) /\ Inner(c) # Inner(d)
BY DEF Outer, Inner, Task

\* A step is one of one call, or a change of use_idle.
LEMMA StepCases ==
  ASSUME NEW d \in Call, Step(d)
  PROVE  /\ use_idle' = use_idle
         /\ \/ SyncNew(d) \/ SyncPost(d) \/ Wait(d) \/ WakeSpuriously(d) \/ Reacquire(d) \/ SyncFree(d)
            \/ AsyncPost(d) \/ ValuePost(d) \/ CallbackEnds(d) \/ Refuse(d) \/ FreeRefused(d)
            \/ HandleSync(d) \/ Lock(d) \/ Signal(d) \/ Unlock(d) \/ HandleAsync(d) \/ HandleInner(d)
            \/ MainLoopOuter(d) \/ MainLoopInner(d)
BY DEF Step, Caller, Worker, MainLoop
-----------------------------------------------------------------------------
(***************************************************************************)
(* Types.                                                                  *)
(***************************************************************************)
LEMMA CompletedTypes ==
  ASSUME TypeOK, NEW d \in Call, NEW t \in Task, NEW verdict \in Verdict,
         NEW before \in [Task -> Verdict], NEW alive \in [Task -> {"none", "live", "freed"}],
         NEW place \in Running,
         Completed(d, t, verdict, before, alive, place) \/ (Told(d, t, verdict, alive, place) /\ success' = before)
  PROVE  /\ success' \in [Task -> Verdict] /\ idle' \subseteq Task
         /\ memory' \in [Task -> {"none", "live", "freed"}]
         /\ answer' \in [Call -> Verdict] /\ callback' \in [Call -> Running \cup {"none", "over"}]
<1>1. ASSUME Told(d, t, verdict, alive, place)
      PROVE  /\ idle' \subseteq Task
             /\ memory' \in [Task -> {"none", "live", "freed"}]
             /\ answer' \in [Call -> Verdict] /\ callback' \in [Call -> Running \cup {"none", "over"}]
  BY <1>1 DEF Told, TypeOK
<1> QED BY <1>1 DEF Completed, TypeOK, outcome

\* The callback of a value call, run for the inner task, keeps the types.
LEMMA InnerTypes ==
  ASSUME TypeOK, NEW d \in Call, NEW inner \in Verdict, NEW place \in Running, InnerCallback(d, inner, place)
  PROVE  /\ success' \in [Task -> Verdict] /\ idle' \subseteq Task
         /\ memory' \in [Task -> {"none", "live", "freed"}]
         /\ answer' \in [Call -> Verdict] /\ callback' \in [Call -> Running \cup {"none", "over"}]
<1> DEFINE before == [success EXCEPT ![Inner(d)] = inner]
           alive == [memory EXCEPT ![Inner(d)] = "freed"]
<1>1. before \in [Task -> Verdict] /\ alive \in [Task -> {"none", "live", "freed"}]
  BY DEF TypeOK
<1>2. PICK verdict \in IF kind[d] = "get_value" THEN {inner, "no"} ELSE {inner} :
        Completed(d, Outer(d), verdict, before, alive, place)
  BY DEF InnerCallback
<1>3. verdict \in Verdict
  BY DEF Verdict
<1> HIDE DEF before, alive
<1> QED BY <1>1, <1>2, <1>3, TasksApart, CompletedTypes

\* Each step of a call keeps the types.
LEMMA StepTypes ==
  ASSUME TypeOK, NEW d \in Call, Step(d)
  PROVE  TypeOK'
<1> USE TasksApart
<1>0. use_idle' \in BOOLEAN
  BY StepCases DEF TypeOK
<1>1. CASE SyncNew(d) \/ SyncPost(d) \/ Wait(d) \/ WakeSpuriously(d)
  BY <1>0, <1>1, SMTT(40) DEF TypeOK, SyncNew, SyncPost, Wait, WakeSpuriously, calls, outcome
<1>2. CASE Reacquire(d) \/ SyncFree(d) \/ FreeRefused(d)
  BY <1>0, <1>2, SMTT(40) DEF TypeOK, Reacquire, SyncFree, FreeRefused, Verdict, calls, outcome
<1>3. CASE AsyncPost(d) \/ ValuePost(d) \/ CallbackEnds(d)
  BY <1>0, <1>3, SMTT(40) DEF TypeOK, AsyncPost, ValuePost, CallbackEnds, calls, outcome
<1>4. CASE HandleSync(d) \/ Lock(d) \/ Signal(d) \/ Unlock(d)
  BY <1>0, <1>4, SMTT(40) DEF TypeOK, HandleSync, Lock, Signal, Unlock, Verdict, calls, outcome
<1>5. CASE Refuse(d)
  <2>1. [memory EXCEPT ![Outer(d)] = "live"] \in [Task -> {"none", "live", "freed"}]
    BY DEF TypeOK
  <2>2. Completed(d, Outer(d), "no", success, [memory EXCEPT ![Outer(d)] = "live"], "caller")
    BY <1>5 DEF Refuse
  <2>3. success \in [Task -> Verdict] /\ "no" \in Verdict /\ "caller" \in Running
    BY DEF TypeOK, Verdict, Running
  <2>4. /\ success' \in [Task -> Verdict] /\ idle' \subseteq Task
        /\ memory' \in [Task -> {"none", "live", "freed"}]
        /\ answer' \in [Call -> Verdict] /\ callback' \in [Call -> Running \cup {"none", "over"}]
    BY <2>1, <2>2, <2>3, CompletedTypes
  <2> QED BY <1>0, <1>5, <2>4 DEF TypeOK, Refuse, calls
<1>6. CASE HandleAsync(d)
  <2>1. PICK verdict \in {"yes", "no"} : Completed(d, Outer(d), verdict, success, memory, "worker")
    BY <1>6 DEF HandleAsync
  <2>2. verdict \in Verdict /\ "worker" \in Running
    BY DEF Verdict, Running
  <2>3. success \in [Task -> Verdict] /\ memory \in [Task -> {"none", "live", "freed"}]
    BY DEF TypeOK
  <2>4. /\ success' \in [Task -> Verdict] /\ idle' \subseteq Task
        /\ memory' \in [Task -> {"none", "live", "freed"}]
        /\ answer' \in [Call -> Verdict] /\ callback' \in [Call -> Running \cup {"none", "over"}]
    BY <2>1, <2>2, <2>3, CompletedTypes
  <2> QED BY <1>0, <1>6, <2>4 DEF TypeOK, HandleAsync, calls
<1>7. CASE HandleInner(d)
  <2>1. PICK inner \in {"yes", "no"} :
          \/ /\ success' = [success EXCEPT ![Inner(d)] = inner]
             /\ idle' = idle \cup {Inner(d)}
             /\ UNCHANGED <<memory, outcome>>
          \/ InnerCallback(d, inner, "worker")
    BY <1>7 DEF HandleInner
  <2>2. inner \in Verdict /\ "worker" \in Running
    BY DEF Verdict, Running
  <2>3. /\ success' \in [Task -> Verdict] /\ idle' \subseteq Task
        /\ memory' \in [Task -> {"none", "live", "freed"}]
        /\ answer' \in [Call -> Verdict] /\ callback' \in [Call -> Running \cup {"none", "over"}]
    BY <2>1, <2>2, InnerTypes DEF TypeOK, outcome
  <2> QED BY <1>0, <1>7, <2>3 DEF TypeOK, HandleInner, calls
<1>8. CASE MainLoopOuter(d)
  <2>1. Told(d, Outer(d), success[Outer(d)], memory, "main") /\ success' = success
    BY <1>8 DEF MainLoopOuter
  <2>2. success \in [Task -> Verdict] /\ memory \in [Task -> {"none", "live", "freed"}]
    BY DEF TypeOK
  <2>3. success[Outer(d)] \in Verdict /\ "main" \in Running
    BY <2>2 DEF Running
  <2>4. /\ success' \in [Task -> Verdict] /\ idle' \subseteq Task
        /\ memory' \in [Task -> {"none", "live", "freed"}]
        /\ answer' \in [Call -> Verdict] /\ callback' \in [Call -> Running \cup {"none", "over"}]
    BY <2>1, <2>2, <2>3, CompletedTypes
  <2> QED BY <1>0, <1>8, <2>4 DEF TypeOK, MainLoopOuter, calls
<1>9. CASE MainLoopInner(d)
  <2>1. InnerCallback(d, success[Inner(d)], "main")
    BY <1>9 DEF MainLoopInner
  <2>2. success[Inner(d)] \in Verdict /\ "main" \in Running
    BY DEF TypeOK, Running
  <2>3. /\ success' \in [Task -> Verdict] /\ idle' \subseteq Task
        /\ memory' \in [Task -> {"none", "live", "freed"}]
        /\ answer' \in [Call -> Verdict] /\ callback' \in [Call -> Running \cup {"none", "over"}]
    BY <2>1, <2>2, InnerTypes
  <2> QED BY <1>0, <1>9, <2>3 DEF TypeOK, MainLoopInner, calls
<1> QED BY <1>1, <1>2, <1>3, <1>4, <1>5, <1>6, <1>7, <1>8, <1>9, StepCases

\* Each step keeps the types.
LEMMA NextTypes == TypeOK /\ [Next]_vars => TypeOK'
<1> SUFFICES ASSUME TypeOK, [Next]_vars PROVE TypeOK'
  OBVIOUS
<1>1. CASE SetUseIdle
  BY <1>1 DEF TypeOK, SetUseIdle, calls, outcome
<1>2. CASE \E c \in Call : Step(c)
  BY <1>2, StepTypes
<1>3. CASE UNCHANGED vars
  BY <1>3 DEF TypeOK, vars
<1> QED BY <1>1, <1>2, <1>3 DEF Next
-----------------------------------------------------------------------------
(***************************************************************************)
(* A step of one call leaves the others as they are.                       *)
(***************************************************************************)
Untouched(c) ==
  /\ kind' = kind
  /\ caller'[c] = caller[c] /\ answer'[c] = answer[c]
  /\ \A t \in {Outer(c), Inner(c)} :
       /\ handler'[t] = handler[t] /\ memory'[t] = memory[t] /\ mutex'[t] = mutex[t]
       /\ success'[t] = success[t] /\ (t \in idle' <=> t \in idle)

\* Completing one call's task leaves the tasks of the others alone.
LEMMA CompletedApart ==
  ASSUME TypeOK, NEW c \in Call, NEW d \in Call, c # d, NEW verdict, NEW place,
         NEW before \in [Task -> Verdict], NEW alive \in [Task -> {"none", "live", "freed"}],
         \/ Completed(d, Outer(d), verdict, before, alive, place)
         \/ Told(d, Outer(d), verdict, alive, place) /\ success' = before
  PROVE  /\ answer'[c] = answer[c]
         /\ \A t \in {Outer(c), Inner(c)} :
              /\ memory'[t] = alive[t] /\ success'[t] = before[t]
              /\ t \in idle' <=> t \in idle
BY TasksApart DEF Completed, Told, TypeOK, outcome

\* So does the callback for its inner task.
LEMMA InnerApart ==
  ASSUME TypeOK, NEW c \in Call, NEW d \in Call, c # d, NEW inner \in Verdict, NEW place,
         InnerCallback(d, inner, place)
  PROVE  /\ answer'[c] = answer[c]
         /\ \A t \in {Outer(c), Inner(c)} :
              /\ memory'[t] = memory[t] /\ success'[t] = success[t]
              /\ t \in idle' <=> t \in idle
<1> DEFINE before == [success EXCEPT ![Inner(d)] = inner]
           alive == [memory EXCEPT ![Inner(d)] = "freed"]
<1>1. before \in [Task -> Verdict] /\ alive \in [Task -> {"none", "live", "freed"}]
  BY DEF TypeOK
<1>2. PICK verdict \in IF kind[d] = "get_value" THEN {inner, "no"} ELSE {inner} :
        Completed(d, Outer(d), verdict, before, alive, place)
  BY DEF InnerCallback
<1>3. \A t \in {Outer(c), Inner(c)} : before[t] = success[t] /\ alive[t] = memory[t]
  BY TasksApart DEF TypeOK
<1> HIDE DEF before, alive
<1> QED BY <1>1, <1>2, <1>3, CompletedApart

\* No step of one call touches the tasks of another.
LEMMA OthersUntouched ==
  ASSUME TypeOK, NEW c \in Call, NEW d \in Call, c # d, Step(d)
  PROVE  Untouched(c)
<1> USE TasksApart DEF Untouched
<1>1. CASE SyncNew(d) \/ SyncPost(d) \/ Wait(d) \/ WakeSpuriously(d)
  BY <1>1 DEF TypeOK, SyncNew, SyncPost, Wait, WakeSpuriously, calls, outcome
<1>2. CASE Reacquire(d) \/ SyncFree(d) \/ FreeRefused(d)
  BY <1>2 DEF TypeOK, Reacquire, SyncFree, FreeRefused, calls, outcome
<1>3. CASE AsyncPost(d) \/ ValuePost(d) \/ CallbackEnds(d)
  BY <1>3 DEF TypeOK, AsyncPost, ValuePost, CallbackEnds, calls, outcome
<1>4. CASE HandleSync(d) \/ Lock(d) \/ Signal(d) \/ Unlock(d)
  BY <1>4 DEF TypeOK, HandleSync, Lock, Signal, Unlock, calls, outcome
<1>5. CASE Refuse(d)
  <2> DEFINE alive == [memory EXCEPT ![Outer(d)] = "live"]
  <2>1. /\ alive \in [Task -> {"none", "live", "freed"}] /\ success \in [Task -> Verdict]
        /\ \A t \in {Outer(c), Inner(c)} : alive[t] = memory[t]
    BY DEF TypeOK
  <2>2. Completed(d, Outer(d), "no", success, alive, "caller")
    BY <1>5 DEF Refuse
  <2> HIDE DEF alive
  <2>3. /\ answer'[c] = answer[c]
        /\ \A t \in {Outer(c), Inner(c)} :
             memory'[t] = memory[t] /\ success'[t] = success[t] /\ (t \in idle' <=> t \in idle)
    BY <2>1, <2>2, CompletedApart
  <2> QED BY <1>5, <2>3 DEF TypeOK, Refuse, calls
<1>6. CASE HandleAsync(d)
  <2>1. /\ \E verdict \in {"yes", "no"} : Completed(d, Outer(d), verdict, success, memory, "worker")
        /\ success \in [Task -> Verdict] /\ memory \in [Task -> {"none", "live", "freed"}]
    BY <1>6 DEF HandleAsync, TypeOK
  <2>2. /\ answer'[c] = answer[c]
        /\ \A t \in {Outer(c), Inner(c)} :
             memory'[t] = memory[t] /\ success'[t] = success[t] /\ (t \in idle' <=> t \in idle)
    BY <2>1, CompletedApart
  <2> QED BY <1>6, <2>2 DEF TypeOK, HandleAsync, calls
<1>7. CASE HandleInner(d)
  <2>1. PICK inner \in {"yes", "no"} :
          \/ /\ success' = [success EXCEPT ![Inner(d)] = inner]
             /\ idle' = idle \cup {Inner(d)}
             /\ UNCHANGED <<memory, outcome>>
          \/ InnerCallback(d, inner, "worker")
    BY <1>7 DEF HandleInner
  <2>2. /\ answer'[c] = answer[c]
        /\ \A t \in {Outer(c), Inner(c)} :
             memory'[t] = memory[t] /\ success'[t] = success[t] /\ (t \in idle' <=> t \in idle)
    BY <2>1, InnerApart DEF TypeOK, outcome, Verdict
  <2> QED BY <1>7, <2>2 DEF TypeOK, HandleInner, calls
<1>8. CASE MainLoopOuter(d)
  <2>1. /\ Told(d, Outer(d), success[Outer(d)], memory, "main") /\ success' = success
        /\ success \in [Task -> Verdict] /\ memory \in [Task -> {"none", "live", "freed"}]
    BY <1>8 DEF MainLoopOuter, TypeOK
  <2>2. /\ answer'[c] = answer[c]
        /\ \A t \in {Outer(c), Inner(c)} :
             memory'[t] = memory[t] /\ success'[t] = success[t] /\ (t \in idle' <=> t \in idle)
    BY <2>1, CompletedApart
  <2> QED BY <1>8, <2>2 DEF TypeOK, MainLoopOuter, calls
<1>9. CASE MainLoopInner(d)
  <2>1. InnerCallback(d, success[Inner(d)], "main") /\ success[Inner(d)] \in Verdict
    BY <1>9 DEF MainLoopInner, TypeOK
  <2>2. /\ answer'[c] = answer[c]
        /\ \A t \in {Outer(c), Inner(c)} :
             memory'[t] = memory[t] /\ success'[t] = success[t] /\ (t \in idle' <=> t \in idle)
    BY <2>1, InnerApart
  <2> QED BY <1>9, <2>2 DEF TypeOK, MainLoopInner, calls
<1> QED BY <1>1, <1>2, <1>3, <1>4, <1>5, <1>6, <1>7, <1>8, <1>9, StepCases
-----------------------------------------------------------------------------
(***************************************************************************)
(* The invariant, call by call.                                            *)
(***************************************************************************)
ValueCall == {"set_value", "get_value"}
Inside == {"locking", "signalling", "unlocking"}

\* Which call uses which of its tasks, and for what.
Stages(c) ==
  /\ caller[c] \in {"start", "posting"} =>
       /\ handler[Outer(c)] = "none" /\ handler[Inner(c)] = "none"
       /\ Outer(c) \notin idle /\ Inner(c) \notin idle
  /\ handler[Outer(c)] # "none" => kind[c] \in {"sync", "async"}
  /\ handler[Outer(c)] \in Inside => kind[c] = "sync"
  /\ handler[Inner(c)] # "none" => kind[c] \in ValueCall
  /\ caller[c] \in {"posting", "locked", "waiting", "woken"} => kind[c] = "sync"
  /\ Outer(c) \in idle => kind[c] # "sync"
  /\ Inner(c) \in idle => handler[Inner(c)] = "done"
  /\ handler[Inner(c)] \in {"none", "posted", "done"}

\* Nothing is decided before the handler runs, and nothing decided is changed.
Undecided(c) ==
  \/ caller[c] \in {"start", "posting"}
  \/ handler[Outer(c)] = "posted" \/ handler[Inner(c)] = "posted" \/ Inner(c) \in idle
Decisions(c) ==
  /\ Undecided(c) => success[Outer(c)] = "none"
  /\ handler[Outer(c)] \in Inside => success[Outer(c)] # "none"
  /\ kind[c] \in ValueCall /\ success[Outer(c)] = "yes" => success[Inner(c)] = "yes"
  /\ answer[c] = "yes" => success[Outer(c)] = "yes"
  /\ c \notin Spurious =>
       /\ caller[c] = "woken" => success[Outer(c)] # "none"
       /\ AnswerOk(c)

\* Who frees a task is the last to use it.
OuterUsed(c) ==
  \/ handler[Outer(c)] \in {"posted"} \cup Inside \/ Outer(c) \in idle
  \/ caller[c] \in {"posting", "locked", "waiting", "woken", "freeing"}
  \/ handler[Inner(c)] = "posted"
InnerUsed(c) == handler[Inner(c)] \in {"posted"} \cup Inside \/ Inner(c) \in idle
Handover(c) ==
  /\ OuterUsed(c) => memory[Outer(c)] = "live"
  /\ InnerUsed(c) => memory[Inner(c)] = "live"
  /\ Inner(c) \in idle => memory[Outer(c)] = "live"
  /\ Outer(c) \in idle =>
       handler[Outer(c)] # "posted" /\ handler[Inner(c)] # "posted" /\ Inner(c) \notin idle
  /\ kind[c] # "sync" => caller[c] \in {"start", "returned"}
  /\ caller[c] \in {"posting", "locked"} => mutex[Outer(c)] = "caller"
  /\ handler[Outer(c)] \in {"signalling", "unlocking"} => mutex[Outer(c)] = "worker"
  /\ caller[c] = "woken" => handler[Outer(c)] \in {"unlocking", "done"}
  /\ kind[c] = "sync" /\ caller[c] \in {"freeing", "returned"} => handler[Outer(c)] = "done"

Undisturbed == Call \ (Spurious \cup Refuses)
CallInv(c) == Stages(c) /\ Decisions(c) /\ (c \in Undisturbed => Handover(c))
IInv == TypeOK /\ \A c \in Call : CallInv(c)

\* A call's tasks are allocated when each of the two is while it is used.
LEMMA InUseSplit ==
  ASSUME NEW c \in Call
  PROVE  TasksOk(c) <=> /\ OuterUsed(c) => memory[Outer(c)] = "live"
                        /\ InnerUsed(c) => memory[Inner(c)] = "live"
<1>1. Outer(c)[1] = c /\ Outer(c)[2] = "outer" /\ Inner(c)[1] = c /\ Inner(c)[2] = "inner"
  BY DEF Outer, Inner
<1>2. <<Outer(c)[1], "inner">> = Inner(c)
  BY DEF Outer, Inner
<1>3. InUse(Outer(c)) <=> OuterUsed(c)
  BY <1>1, <1>2 DEF InUse, OuterUsed, Inside
<1>4. InUse(Inner(c)) <=> InnerUsed(c)
  BY <1>1 DEF InUse, InnerUsed, Inside
<1> QED BY <1>3, <1>4 DEF TasksOk

\* What holds of a call holds as long as it is not touched.
LEMMA UntouchedInv ==
  ASSUME NEW c \in Call, CallInv(c), Untouched(c)
  PROVE  CallInv(c)'
<1> USE DEF Untouched, CallInv
<1>1. Stages(c)'
  BY DEF Stages
<1>2. Decisions(c)'
  BY DEF Decisions, Undecided, AnswerOk
<1>3. Handover(c) => Handover(c)'
  BY DEF Handover, OuterUsed, InnerUsed
<1> QED BY <1>1, <1>2, <1>3

(***************************************************************************)
(* What the calling thread does.                                           *)
(***************************************************************************)
LEMMA CallerInv ==
  ASSUME TypeOK, NEW c \in Call, CallInv(c),
         \/ SyncNew(c) \/ SyncPost(c) \/ Wait(c) \/ WakeSpuriously(c) \/ Reacquire(c) \/ SyncFree(c)
         \/ AsyncPost(c) \/ ValuePost(c) \/ CallbackEnds(c) \/ FreeRefused(c)
  PROVE  CallInv(c)'
<1> USE TasksApart DEF TypeOK, CallInv, calls, outcome
<1>1. CASE SyncNew(c) \/ SyncPost(c)
  BY <1>1 DEF SyncNew, SyncPost, MayStart, Stages, Decisions, Undecided, AnswerOk, Handover, OuterUsed, InnerUsed, ValueCall, Inside
<1>2. CASE Wait(c) \/ WakeSpuriously(c)
  BY <1>2 DEF Wait, WakeSpuriously, Undisturbed, Stages, Decisions, Undecided, AnswerOk, Handover, OuterUsed, InnerUsed, ValueCall, Inside
<1>3. CASE Reacquire(c)
  BY <1>3 DEF Reacquire, Undisturbed, Verdict, Stages, Decisions, Undecided, AnswerOk, Handover, OuterUsed, InnerUsed, ValueCall, Inside
<1>4. CASE SyncFree(c)
  BY <1>4 DEF SyncFree, Stages, Decisions, Undecided, AnswerOk, Handover, OuterUsed, InnerUsed, ValueCall, Inside
<1>5. CASE AsyncPost(c) \/ ValuePost(c)
  BY <1>5 DEF AsyncPost, ValuePost, MayStart, Stages, Decisions, Undecided, AnswerOk, Handover, OuterUsed, InnerUsed, ValueCall, Inside
<1>6. CASE CallbackEnds(c)
  BY <1>6 DEF CallbackEnds, Stages, Decisions, Undecided, AnswerOk, Handover, OuterUsed, InnerUsed, ValueCall, Inside
<1>7. CASE FreeRefused(c)
  BY <1>7 DEF FreeRefused, Stages, Decisions, Undecided, AnswerOk, Handover, OuterUsed, InnerUsed, ValueCall, Inside
<1> QED BY <1>1, <1>2, <1>3, <1>4, <1>5, <1>6, <1>7

(***************************************************************************)
(* What the worker does for a synchronous call.                            *)
(***************************************************************************)
LEMMA WorkerInv ==
  ASSUME TypeOK, NEW c \in Call, CallInv(c), HandleSync(c) \/ Lock(c) \/ Signal(c) \/ Unlock(c)
  PROVE  CallInv(c)'
<1> USE TasksApart DEF TypeOK, CallInv, calls, outcome
<1>1. CASE HandleSync(c)
  BY <1>1 DEF HandleSync, Stages, Decisions, Undecided, AnswerOk, Handover, OuterUsed, InnerUsed, ValueCall, Inside
<1>2. CASE Lock(c)
  BY <1>2 DEF Lock, Stages, Decisions, Undecided, AnswerOk, Handover, OuterUsed, InnerUsed, ValueCall, Inside
<1>3. CASE Signal(c)
  BY <1>3 DEF Signal, Stages, Decisions, Undecided, AnswerOk, Handover, OuterUsed, InnerUsed, ValueCall, Inside
<1>4. CASE Unlock(c)
  BY <1>4 DEF Unlock, Stages, Decisions, Undecided, AnswerOk, Handover, OuterUsed, InnerUsed, ValueCall, Inside
<1> QED BY <1>1, <1>2, <1>3, <1>4

(***************************************************************************)
(* A call that completes with a callback: the task goes to the main loop   *)
(* as it is, or the callback is told at once and the task is freed.        *)
(***************************************************************************)
CompletedAs(c, verdict, before, alive) ==
  /\ \A t \in Task : success'[t] = IF t = Outer(c) THEN verdict ELSE before[t]
  /\ Inner(c) \notin idle'
  /\ \/ /\ Outer(c) \in idle' /\ answer'[c] = answer[c]
        /\ \A t \in Task : memory'[t] = alive[t]
     \/ /\ Outer(c) \notin idle' /\ answer'[c] = verdict
        /\ \A t \in Task : memory'[t] = IF t = Outer(c) THEN "freed" ELSE alive[t]

\* Completing a task queues its call, or tells the client and frees it.
LEMMA CompletedOwn ==
  ASSUME TypeOK, NEW c \in Call, NEW verdict, NEW place,
         NEW before \in [Task -> Verdict], NEW alive \in [Task -> {"none", "live", "freed"}],
         \/ Completed(c, Outer(c), verdict, before, alive, place)
         \/ Told(c, Outer(c), verdict, alive, place) /\ success' = [before EXCEPT ![Outer(c)] = verdict]
  PROVE  CompletedAs(c, verdict, before, alive)
BY TasksApart DEF Completed, Told, CompletedAs, TypeOK, outcome

\* Through the inner callback, the outer task ends with the inner verdict or fails.
LEMMA InnerOwn ==
  ASSUME TypeOK, NEW c \in Call, NEW inner \in Verdict, NEW place, InnerCallback(c, inner, place)
  PROVE  \E verdict \in {inner, "no"} :
           CompletedAs(c, verdict, [success EXCEPT ![Inner(c)] = inner], [memory EXCEPT ![Inner(c)] = "freed"])
<1>1. PICK verdict \in IF kind[c] = "get_value" THEN {inner, "no"} ELSE {inner} :
        Completed(c, Outer(c), verdict, [success EXCEPT ![Inner(c)] = inner],
                  [memory EXCEPT ![Inner(c)] = "freed"], place)
  BY DEF InnerCallback
<1>2. /\ [success EXCEPT ![Inner(c)] = inner] \in [Task -> Verdict]
      /\ [memory EXCEPT ![Inner(c)] = "freed"] \in [Task -> {"none", "live", "freed"}]
  BY DEF TypeOK
<1>3. CompletedAs(c, verdict, [success EXCEPT ![Inner(c)] = inner], [memory EXCEPT ![Inner(c)] = "freed"])
  BY <1>1, <1>2, CompletedOwn
<1> QED BY <1>1, <1>3

\* Completing a call, refused or handled, keeps what holds of it.
LEMMA CompletionInv ==
  ASSUME TypeOK, NEW c \in Call, CallInv(c),
         Refuse(c) \/ HandleAsync(c) \/ HandleInner(c) \/ MainLoopOuter(c) \/ MainLoopInner(c)
  PROVE  CallInv(c)'
<1> USE TasksApart DEF TypeOK, CallInv, calls
<1>1. CASE Refuse(c)
  <2>1. CompletedAs(c, "no", success, [memory EXCEPT ![Outer(c)] = "live"])
    BY <1>1, CompletedOwn DEF Refuse
  <2> QED BY <1>1, <2>1 DEF Refuse, MayStart, CompletedAs, Undisturbed, Stages, Decisions, Undecided, AnswerOk, ValueCall, Inside
<1>2. CASE HandleAsync(c)
  <2>1. PICK verdict \in {"yes", "no"} : CompletedAs(c, verdict, success, memory)
    BY <1>2, CompletedOwn DEF HandleAsync
  <2> QED BY <1>2, <2>1 DEF HandleAsync, CompletedAs, Stages, Decisions, Undecided, AnswerOk,
                            Handover, OuterUsed, InnerUsed, ValueCall, Inside
<1>3. CASE HandleInner(c)
  <2>1. PICK inner \in {"yes", "no"} :
          \/ /\ success' = [success EXCEPT ![Inner(c)] = inner]
             /\ idle' = idle \cup {Inner(c)}
             /\ UNCHANGED <<memory, outcome>>
          \/ InnerCallback(c, inner, "worker")
    BY <1>3 DEF HandleInner
  <2>2. CASE InnerCallback(c, inner, "worker")
    <3>1. PICK verdict \in {inner, "no"} :
            CompletedAs(c, verdict, [success EXCEPT ![Inner(c)] = inner], [memory EXCEPT ![Inner(c)] = "freed"])
      BY <2>2, InnerOwn, ZenonT(40) DEF Verdict
    <3> QED BY <1>3, <3>1 DEF HandleInner, CompletedAs, Stages, Decisions, Undecided, AnswerOk,
                              Handover, OuterUsed, InnerUsed, ValueCall, Inside
  <2>3. CASE ~InnerCallback(c, inner, "worker")
    BY <1>3, <2>1, <2>3 DEF HandleInner, outcome, Stages, Decisions, Undecided, AnswerOk,
                            Handover, OuterUsed, InnerUsed, ValueCall, Inside
  <2> QED BY <2>2, <2>3
<1>4. CASE MainLoopOuter(c)
  <2>1. CompletedAs(c, success[Outer(c)], success, memory)
    <3>1. /\ Told(c, Outer(c), success[Outer(c)], memory, "main")
          /\ success' = [success EXCEPT ![Outer(c)] = success[Outer(c)]]
      BY <1>4 DEF MainLoopOuter
    <3> QED BY <3>1, CompletedOwn
  <2> QED BY <1>4, <2>1 DEF MainLoopOuter, CompletedAs, Stages, Decisions, Undecided, AnswerOk,
                            Handover, OuterUsed, InnerUsed, ValueCall, Inside
<1>5. CASE MainLoopInner(c)
  <2>1. PICK verdict \in {success[Inner(c)], "no"} :
          CompletedAs(c, verdict, [success EXCEPT ![Inner(c)] = success[Inner(c)]],
                      [memory EXCEPT ![Inner(c)] = "freed"])
    BY <1>5, InnerOwn DEF MainLoopInner
  <2> QED BY <1>5, <2>1 DEF MainLoopInner, CompletedAs, Stages, Decisions, Undecided, AnswerOk,
                            Handover, OuterUsed, InnerUsed, ValueCall, Inside
<1> QED BY <1>1, <1>2, <1>3, <1>4, <1>5
-----------------------------------------------------------------------------
(***************************************************************************)
(* The whole invariant, and what it says of every behaviour.               *)
(***************************************************************************)
LEMMA InitIInv == Init => IInv
<1> SUFFICES ASSUME Init PROVE IInv
  OBVIOUS
<1>1. TypeOK
  BY DEF Init, TypeOK, Verdict
<1>2. ASSUME NEW c \in Call PROVE CallInv(c)
  BY <1>2, TasksApart DEF Init, CallInv, Stages, Decisions, Undecided, AnswerOk, Handover, OuterUsed, InnerUsed,
                          ValueCall, Inside
<1> QED BY <1>1, <1>2 DEF IInv

\* Each step keeps the invariant of every call.
LEMMA NextIInv == IInv /\ [Next]_vars => IInv'
<1> SUFFICES ASSUME IInv, [Next]_vars PROVE IInv'
  OBVIOUS
<1>1. TypeOK'
  BY NextTypes DEF IInv
<1>2. ASSUME NEW c \in Call, NEW d \in Call, Step(d) PROVE CallInv(c)'
  <2>1. TypeOK /\ CallInv(c)
    BY DEF IInv
  <2>2. CASE c # d
    BY <1>2, <2>1, <2>2, OthersUntouched, UntouchedInv
  <2>3. CASE c = d
    BY <1>2, <2>1, <2>3, StepCases, CallerInv, WorkerInv, CompletionInv
  <2> QED BY <2>2, <2>3
<1>3. ASSUME NEW c \in Call, SetUseIdle \/ UNCHANGED vars PROVE CallInv(c)'
  <2>1. CallInv(c) /\ Untouched(c)
    BY <1>3 DEF IInv, Untouched, SetUseIdle, vars, calls, outcome
  <2> QED BY <2>1, UntouchedInv
<1> QED BY <1>1, <1>2, <1>3 DEF IInv, Next

\* The inductive invariant holds in every reachable state.
THEOREM Invariance == Spec => []IInv
BY InitIInv, NextIInv, PTL DEF Spec

\* Every reachable state is well typed.
THEOREM TypeCorrect == Spec => []TypeOK
<1>1. IInv => TypeOK
  BY DEF IInv
<1> QED BY <1>1, Invariance, PTL

(***************************************************************************)
(* No thread, message or callback of an undisturbed call uses a task that  *)
(* has been freed, or frees one twice, whatever the other calls meet with  *)
(* and however they are nested (storage_task_free).                        *)
(***************************************************************************)
THEOREM UndisturbedAreAllocated == Spec => []UndisturbedTasksAllocated
<1>1. IInv => UndisturbedTasksAllocated
  <2> SUFFICES ASSUME IInv, NEW c \in Undisturbed PROVE TasksOk(c)
    BY DEF UndisturbedTasksAllocated, Undisturbed
  <2>1. c \in Call /\ Handover(c)
    BY DEF IInv, CallInv, Undisturbed
  <2> QED BY <2>1, InUseSplit DEF Handover
<1> QED BY <1>1, Invariance, PTL

(***************************************************************************)
(* A call that is not woken early reports what its handler decided         *)
(* (storage_task_wait and the *_finish functions).                         *)
(***************************************************************************)
THEOREM UnwokenTellTheVerdict == Spec => []UnwokenAnswerIsVerdict
<1>1. IInv => UnwokenAnswerIsVerdict
  BY DEF IInv, CallInv, Decisions, UnwokenAnswerIsVerdict
<1> QED BY <1>1, Invariance, PTL

(***************************************************************************)
(* A call that reports success has been handled and succeeded, woken early *)
(* or not, and a value call only if its inner call did.                    *)
(***************************************************************************)
THEOREM SuccessesAreReal == Spec => []SuccessIsReal
<1>1. IInv => SuccessIsReal
  BY DEF IInv, CallInv, Decisions, Undecided, SuccessIsReal, ValueCall
<1> QED BY <1>1, Invariance, PTL
-----------------------------------------------------------------------------
(***************************************************************************)
(* Who waits for whom, call by call.  A mutex is held by a caller or a     *)
(* worker that has a step to take, a sleeper has a signal coming, a call   *)
(* not yet answered is posted or queued, and the callback of a call that   *)
(* makes others lasts as long as they do.                                  *)
(***************************************************************************)
Locking(c) ==
  /\ mutex[Outer(c)] = "caller" => kind[c] = "sync" /\ caller[c] \in {"posting", "locked", "freeing"}
  /\ mutex[Outer(c)] = "worker" => handler[Outer(c)] \in {"signalling", "unlocking"}
  /\ caller[c] \in {"posting", "locked"} => mutex[Outer(c)] = "caller"
  /\ caller[c] = "locked" => handler[Outer(c)] \in {"posted", "locking"}
  /\ caller[c] = "waiting" => handler[Outer(c)] \in {"posted", "locking", "signalling"}
Held(c) ==
  \/ handler[Outer(c)] = "posted" \/ handler[Inner(c)] = "posted"
  \/ Outer(c) \in idle \/ Inner(c) \in idle
Answering(c) ==
  /\ kind[c] = "sync" /\ caller[c] \in {"freeing", "returned"} => answer[c] # "none"
  /\ kind[c] # "sync" /\ caller[c] # "start" /\ answer[c] = "none" => Held(c)
  /\ Outer(c) \in idle => /\ success[Outer(c)] # "none" /\ handler[Outer(c)] # "posted"
                          /\ handler[Inner(c)] # "posted" /\ Inner(c) \notin idle
  /\ Inner(c) \in idle => success[Inner(c)] # "none"
  /\ callback[c] # "none" => kind[c] # "sync" /\ caller[c] # "start" /\ ~Held(c)
Nested(c) ==
  parent[c] # NoCall =>
    /\ kind[parent[c]] # "sync" /\ parent[parent[c]] = NoCall
    /\ caller[c] \notin {"start", "returned"} =>
         /\ callback[parent[c]] \in Running
         /\ kind[c] = "sync" /\ callback[parent[c]] = "worker" => Reentrant
DInv == \A c \in Call : Locking(c) /\ Answering(c) /\ Nested(c)

\* The calls made, and what of another call a step leaves alone.
LEMMA StepCallbacks ==
  ASSUME TypeOK, NEW d \in Call, Step(d)
  PROVE  /\ kind' = kind /\ parent' = parent
         /\ \A c \in Call \ {d} : callback'[c] = callback[c] /\ caller'[c] = caller[c]
<1>1. kind' = kind /\ parent' = parent
  BY StepCases DEF SyncNew, SyncPost, Wait, WakeSpuriously, Reacquire, SyncFree, AsyncPost, ValuePost, CallbackEnds,
     Refuse, FreeRefused, HandleSync, Lock, Signal, Unlock, HandleAsync, HandleInner, MainLoopOuter, MainLoopInner, calls
<1>2. ASSUME NEW c \in Call, c # d PROVE callback'[c] = callback[c] /\ caller'[c] = caller[c]
  <2>1. caller'[c] = caller[c]
    BY <1>2, OthersUntouched DEF Untouched
  <2>2. \A t, verdict, alive, place : Told(d, t, verdict, alive, place) => callback'[c] = callback[c]
    BY <1>2 DEF Told, TypeOK
  <2>3. \A t, verdict, before, alive, place :
          Completed(d, t, verdict, before, alive, place) => callback'[c] = callback[c]
    BY <2>2, Zenon DEF Completed, outcome
  <2>4. \A inner, place : InnerCallback(d, inner, place) => callback'[c] = callback[c]
    BY <2>3, Zenon DEF InnerCallback
  <2>5. CASE CallbackEnds(d)
    BY <1>2, <2>5 DEF CallbackEnds, TypeOK
  <2>6. CASE HandleInner(d)
    BY <2>4, <2>6, Zenon DEF HandleInner, outcome
  <2>7. CASE Refuse(d) \/ HandleAsync(d) \/ MainLoopOuter(d) \/ MainLoopInner(d)
    <3>1. CASE Refuse(d)
      BY <2>1, <2>3, <3>1, Zenon DEF Refuse
    <3>2. CASE HandleAsync(d)
      BY <2>3, <3>2, Zenon DEF HandleAsync
    <3>3. CASE MainLoopOuter(d)
      BY <2>2, <3>3, Zenon DEF MainLoopOuter
    <3>4. CASE MainLoopInner(d)
      BY <2>4, <3>4, Zenon DEF MainLoopInner
    <3> QED BY <2>7, <3>1, <3>2, <3>3, <3>4
  <2>8. CASE \/ SyncNew(d) \/ SyncPost(d) \/ Wait(d) \/ WakeSpuriously(d) \/ Reacquire(d) \/ SyncFree(d)
             \/ AsyncPost(d) \/ ValuePost(d) \/ FreeRefused(d) \/ HandleSync(d) \/ Lock(d) \/ Signal(d) \/ Unlock(d)
    BY <2>1, <2>8 DEF SyncNew, SyncPost, Wait, WakeSpuriously, Reacquire, SyncFree, AsyncPost, ValuePost,
       FreeRefused, HandleSync, Lock, Signal, Unlock, outcome
  <2> QED BY <2>1, <2>5, <2>6, <2>7, <2>8, StepCases
<1> QED BY <1>1, <1>2

\* A call that no step touches waits for the same as before.
LEMMA UntouchedTurns ==
  ASSUME NEW c \in Call, Locking(c), Answering(c), Untouched(c), callback'[c] = callback[c]
  PROVE  Locking(c)' /\ Answering(c)'
<1>1. Locking(c)'
  BY DEF Untouched, Locking
<1>2. Answering(c)'
  BY DEF Untouched, Answering, Held
<1> QED BY <1>1, <1>2

(***************************************************************************)
(* A step of the thread, the worker or the main loop for the call itself.  *)
(***************************************************************************)
LEMMA OwnLocking ==
  ASSUME TypeOK, NEW c \in Call, Stages(c), Locking(c), Answering(c), Step(c)
  PROVE  Locking(c)'
<1> USE TasksApart DEF TypeOK, calls, outcome
<1>1. CASE SyncNew(c) \/ SyncPost(c) \/ Wait(c)
  BY <1>1 DEF SyncNew, SyncPost, Wait, MayStart, Stages, Locking
<1>2. CASE WakeSpuriously(c) \/ Reacquire(c) \/ SyncFree(c)
  BY <1>2 DEF WakeSpuriously, Reacquire, SyncFree, Stages, Locking
<1>3. CASE AsyncPost(c) \/ ValuePost(c)
  BY <1>3 DEF AsyncPost, ValuePost, MayStart, Stages, Locking
<1>4. CASE CallbackEnds(c) \/ FreeRefused(c) \/ Refuse(c)
  BY <1>4 DEF CallbackEnds, FreeRefused, Refuse, MayStart, Stages, Locking
<1>5. CASE HandleSync(c) \/ Lock(c)
  BY <1>5 DEF HandleSync, Lock, Stages, Inside, Locking
<1>6. CASE Signal(c) \/ Unlock(c)
  BY <1>6 DEF Signal, Unlock, Stages, Inside, Locking
<1>7. CASE HandleAsync(c) \/ HandleInner(c)
  BY <1>7 DEF HandleAsync, HandleInner, Stages, Locking, ValueCall
<1>8. CASE MainLoopOuter(c) \/ MainLoopInner(c)
  BY <1>8 DEF MainLoopOuter, MainLoopInner, Locking
<1> QED BY <1>1, <1>2, <1>3, <1>4, <1>5, <1>6, <1>7, <1>8, StepCases

\* Completing the call's task answers it or queues it, and its callback only when it is answered.
CompletedTurn(c, verdict) ==
  \/ Outer(c) \in idle' /\ Inner(c) \notin idle' /\ answer'[c] = answer[c] /\ callback'[c] = callback[c]
  \/ Outer(c) \notin idle' /\ Inner(c) \notin idle' /\ answer'[c] = verdict

\* So it is with a completion, and with a task that the main loop completes.
LEMMA CompletedTurns ==
  ASSUME TypeOK, NEW c \in Call, NEW verdict, NEW place, NEW before, NEW alive,
         Completed(c, Outer(c), verdict, before, alive, place) \/ Told(c, Outer(c), verdict, alive, place)
  PROVE  CompletedTurn(c, verdict)
BY TasksApart DEF Completed, Told, CompletedTurn, TypeOK, outcome

\* And with the callback for the inner task, which leaves a verdict on the outer one.
LEMMA InnerTurns ==
  ASSUME TypeOK, NEW c \in Call, NEW inner \in {"yes", "no"}, NEW place, InnerCallback(c, inner, place)
  PROVE  /\ success'[Outer(c)] \in {"yes", "no"}
         /\ \E verdict \in {"yes", "no"} : CompletedTurn(c, verdict)
<1>1. PICK verdict \in {"yes", "no"} :
        Completed(c, Outer(c), verdict, [success EXCEPT ![Inner(c)] = inner], [memory EXCEPT ![Inner(c)] = "freed"], place)
  BY DEF InnerCallback
<1>2. success'[Outer(c)] = verdict
  BY <1>1, TasksApart DEF Completed, TypeOK
<1> QED BY <1>1, <1>2, CompletedTurns

\* A call is answered, or held by the worker or the main loop.
LEMMA OwnAnswering ==
  ASSUME TypeOK, NEW c \in Call, Stages(c), Answering(c), Step(c)
  PROVE  Answering(c)'
<1> USE TasksApart DEF TypeOK, calls, outcome
<1>1. CASE SyncNew(c) \/ SyncPost(c) \/ Wait(c)
  BY <1>1 DEF SyncNew, SyncPost, Wait, MayStart, Stages, Answering, Held
<1>2. CASE WakeSpuriously(c) \/ Reacquire(c) \/ SyncFree(c)
  BY <1>2 DEF WakeSpuriously, Reacquire, SyncFree, Stages, Answering, Held
<1>3. CASE AsyncPost(c) \/ ValuePost(c)
  BY <1>3 DEF AsyncPost, ValuePost, MayStart, Stages, Answering, Held
<1>4. CASE CallbackEnds(c) \/ FreeRefused(c)
  BY <1>4 DEF CallbackEnds, FreeRefused, Running, Stages, Answering, Held
<1>5. CASE HandleSync(c) \/ Lock(c)
  BY <1>5 DEF HandleSync, Lock, Stages, Inside, Answering, Held
<1>6. CASE Signal(c) \/ Unlock(c)
  BY <1>6 DEF Signal, Unlock, Stages, Inside, Answering, Held
<1>7. CASE Refuse(c)
  <2>1. CompletedTurn(c, "no") /\ success'[Outer(c)] = "no"
    BY <1>7, CompletedTurns DEF Refuse, Completed
  <2> QED BY <1>7, <2>1 DEF CompletedTurn, Refuse, MayStart, Stages, Answering, Held
<1>8. CASE HandleAsync(c)
  <2>1. PICK verdict \in {"yes", "no"} : Completed(c, Outer(c), verdict, success, memory, "worker")
    BY <1>8 DEF HandleAsync
  <2>2. CompletedTurn(c, verdict)
    BY <2>1, CompletedTurns, Zenon
  <2>3. success'[Outer(c)] = verdict
    BY <2>1 DEF Completed
  <2>4. /\ kind[c] = "async" /\ handler[Outer(c)] = "posted" /\ handler[Inner(c)] # "posted"
        /\ handler'[Outer(c)] = "done" /\ handler'[Inner(c)] = handler[Inner(c)]
        /\ kind' = kind /\ caller' = caller /\ caller[c] # "start"
    BY <1>8 DEF HandleAsync, Stages, ValueCall
  <2> QED BY <2>2, <2>3, <2>4 DEF CompletedTurn, Answering, Held
<1>9. CASE HandleInner(c)
  <2>1. PICK inner \in {"yes", "no"} :
          \/ /\ success' = [success EXCEPT ![Inner(c)] = inner]
             /\ idle' = idle \cup {Inner(c)}
             /\ UNCHANGED <<memory, outcome>>
          \/ InnerCallback(c, inner, "worker")
    BY <1>9 DEF HandleInner
  <2>2. CASE InnerCallback(c, inner, "worker")
    <3>1. /\ success'[Outer(c)] \in {"yes", "no"}
          /\ \E verdict \in {"yes", "no"} : CompletedTurn(c, verdict)
      BY <2>2, InnerTurns
    <3> QED BY <1>9, <3>1 DEF CompletedTurn, HandleInner, Stages, Answering, Held, ValueCall
  <2>3. CASE ~InnerCallback(c, inner, "worker")
    BY <1>9, <2>1, <2>3 DEF HandleInner, Stages, Answering, Held, ValueCall
  <2> QED BY <2>2, <2>3
<1>10. CASE MainLoopOuter(c)
  <2>1. CompletedTurn(c, success[Outer(c)])
    BY <1>10, CompletedTurns DEF MainLoopOuter
  <2> QED BY <1>10, <2>1 DEF CompletedTurn, MainLoopOuter, Stages, Answering, Held
<1>11. CASE MainLoopInner(c)
  <2>1. success[Inner(c)] \in {"yes", "no"}
    BY <1>11 DEF MainLoopInner, Answering, Verdict
  <2>2. /\ success'[Outer(c)] \in {"yes", "no"}
        /\ \E verdict \in {"yes", "no"} : CompletedTurn(c, verdict)
    BY <1>11, <2>1, InnerTurns DEF MainLoopInner
  <2> QED BY <1>11, <2>2 DEF CompletedTurn, MainLoopInner, Stages, Answering, Held, ValueCall
<1> QED BY <1>1, <1>2, <1>3, <1>4, <1>5, <1>6, <1>7, <1>8, <1>9, <1>10, <1>11, StepCases

\* A call that is no longer held keeps its callback until that ends.
LEMMA CallbackKept ==
  ASSUME TypeOK, NEW d \in Call, Step(d), ~Held(d), caller[d] # "start", ~CallbackEnds(d)
  PROVE  callback' = callback
<1>1. \/ SyncPost(d) \/ Wait(d) \/ WakeSpuriously(d) \/ Reacquire(d) \/ SyncFree(d)
      \/ FreeRefused(d) \/ Lock(d) \/ Signal(d) \/ Unlock(d)
  BY StepCases DEF SyncNew, AsyncPost, ValuePost, Refuse, MayStart, HandleSync, HandleAsync, HandleInner,
     MainLoopOuter, MainLoopInner, Held
<1> QED BY <1>1 DEF SyncPost, Wait, WakeSpuriously, Reacquire, SyncFree, FreeRefused, Lock, Signal, Unlock, outcome

\* A thread is in a call because it was before, or because it might start one.
LEMMA StartsByItself ==
  ASSUME TypeOK, NEW c \in Call, Step(c), caller'[c] \notin {"start", "returned"}
  PROVE  caller[c] \notin {"start", "returned"} \/ MayStart(c)
<1> SUFFICES ASSUME ~MayStart(c) PROVE caller[c] \notin {"start", "returned"}
  OBVIOUS
<1>1. CASE SyncNew(c) \/ AsyncPost(c) \/ ValuePost(c) \/ Refuse(c)
  BY <1>1 DEF SyncNew, AsyncPost, ValuePost, Refuse
<1>2. CASE SyncPost(c) \/ Wait(c) \/ WakeSpuriously(c) \/ Reacquire(c) \/ SyncFree(c) \/ FreeRefused(c)
  BY <1>2 DEF SyncPost, Wait, WakeSpuriously, Reacquire, SyncFree, FreeRefused
<1>3. CASE Signal(c)
  BY <1>3 DEF Signal, TypeOK
<1>4. CASE \/ CallbackEnds(c) \/ HandleSync(c) \/ Lock(c) \/ Unlock(c) \/ HandleAsync(c) \/ HandleInner(c)
           \/ MainLoopOuter(c) \/ MainLoopInner(c)
  BY <1>4 DEF CallbackEnds, HandleSync, Lock, Unlock, HandleAsync, HandleInner, MainLoopOuter, MainLoopInner
<1> QED BY <1>1, <1>2, <1>3, <1>4, StepCases

\* The calls that a callback makes end before it does.
LEMMA NextNested ==
  ASSUME TypeOK, DInv, NEW d \in Call, Step(d), NEW c \in Call
  PROVE  Nested(c)'
<1>1. kind' = kind /\ parent' = parent
  BY StepCallbacks
<1> DEFINE p == parent[c]
<1> SUFFICES ASSUME p # NoCall, caller'[c] \notin {"start", "returned"}
             PROVE  /\ callback'[p] \in Running
                    /\ kind[c] = "sync" /\ callback'[p] = "worker" => Reentrant
  BY <1>1 DEF DInv, Nested, Running
<1>2. p \in Call /\ p # c /\ parent[p] = NoCall /\ c \in Children(p)
  BY DEF TypeOK, DInv, Nested, Children
<1>3. caller[c] \notin {"start", "returned"} \/ (d = c /\ MayStart(c))
  BY StepCallbacks, StartsByItself
<1>4. /\ callback[p] \in Running
      /\ kind[c] = "sync" /\ callback[p] = "worker" => Reentrant
  BY <1>3 DEF DInv, Nested, MayStart
<1>5. callback'[p] = callback[p]
  <2>1. CASE d # p
    BY <1>2, <2>1, StepCallbacks
  <2>2. CASE d = p
    <3>1. caller[c] \notin {"start", "returned"}
      BY <1>2, <1>3, <2>2
    <3>2. ~CallbackEnds(p)
      BY <1>2, <3>1 DEF CallbackEnds
    <3>3. ~Held(p) /\ caller[p] # "start"
      BY <1>2, <1>4 DEF DInv, Answering, Running
    <3> QED BY <2>2, <3>2, <3>3, CallbackKept
  <2> QED BY <2>1, <2>2
<1> QED BY <1>4, <1>5

\* At first nobody waits.
LEMMA InitDInv == Init => DInv
<1> SUFFICES ASSUME Init, NEW c \in Call PROVE Locking(c) /\ Answering(c) /\ Nested(c)
  BY DEF DInv
<1>1. Locking(c) /\ Answering(c)
  BY TasksApart DEF Init, Locking, Answering, Held
<1>2. Nested(c)
  BY DEF Init, Nested
<1> QED BY <1>1, <1>2

\* Each step keeps who waits for whom as it should be.
LEMMA NextDInv == IInv /\ DInv /\ [Next]_vars => DInv'
<1> SUFFICES ASSUME IInv, DInv, [Next]_vars, NEW c \in Call PROVE Locking(c)' /\ Answering(c)' /\ Nested(c)'
  BY DEF DInv
<1>1. TypeOK /\ Stages(c) /\ Locking(c) /\ Answering(c) /\ Nested(c)
  BY DEF IInv, CallInv, DInv
<1>2. ASSUME NEW d \in Call, Step(d) PROVE Locking(c)' /\ Answering(c)' /\ Nested(c)'
  <2>1. Nested(c)'
    BY <1>1, <1>2, NextNested
  <2>2. CASE c = d
    BY <1>1, <1>2, <2>1, <2>2, OwnLocking, OwnAnswering
  <2>3. CASE c # d
    BY <1>1, <1>2, <2>1, <2>3, OthersUntouched, StepCallbacks, UntouchedTurns
  <2> QED BY <2>2, <2>3
<1>3. ASSUME SetUseIdle \/ UNCHANGED vars PROVE Locking(c)' /\ Answering(c)' /\ Nested(c)'
  <2>1. /\ Untouched(c) /\ callback' = callback /\ parent' = parent /\ kind' = kind /\ caller' = caller
    BY <1>3 DEF Untouched, SetUseIdle, vars, calls, outcome
  <2>2. Nested(c)'
    BY <1>1, <2>1 DEF Nested, Running
  <2> QED BY <1>1, <2>1, <2>2, UntouchedTurns
<1> QED BY <1>2, <1>3 DEF Next
-----------------------------------------------------------------------------
(***************************************************************************)
(* Following who waits for whom, from a call under way to somebody ready.  *)
(***************************************************************************)
SomeReady == \E c \in Call : Ready(c)

\* A synchronous call that sleeps in a callback run by the worker that is to handle it.
Stalled(c) ==
  parent[c] # NoCall /\ kind[c] = "sync" /\ caller[c] = "waiting" /\ callback[parent[c]] = "worker"

\* A worker that wakes a caller gets the mutex, or the one who holds it goes on.
LEMMA WorkerGoes ==
  ASSUME IInv, DInv, NEW c \in Call, handler[Outer(c)] \in Inside
  PROVE  SomeReady
<1>1. mutex[Outer(c)] \in {"free", "caller", "worker"}
  BY TasksApart DEF IInv, TypeOK
<1>2. CASE handler[Outer(c)] # "locking" \/ mutex[Outer(c)] = "free"
  BY <1>2 DEF SomeReady, Ready, WorkerReady, Inside
<1>3. CASE mutex[Outer(c)] = "caller"
  BY <1>3 DEF DInv, Locking, Answering, SomeReady, Ready, CallerReady
<1>4. CASE handler[Outer(c)] = "locking" /\ mutex[Outer(c)] = "worker"
  BY <1>4 DEF DInv, Locking
<1> QED BY <1>1, <1>2, <1>3, <1>4

\* A thread in a synchronous call that does not sleep goes on, or the worker does.
LEMMA ThreadGoes ==
  ASSUME IInv, DInv, NEW c \in Call, kind[c] = "sync", caller[c] \in {"posting", "locked", "woken", "freeing"}
  PROVE  SomeReady
<1>1. CASE caller[c] # "woken"
  BY <1>1 DEF DInv, Answering, SomeReady, Ready, CallerReady
<1>2. CASE caller[c] = "woken"
  <2>1. CASE mutex[Outer(c)] = "free"
    BY <1>2, <2>1 DEF SomeReady, Ready, CallerReady
  <2>2. CASE mutex[Outer(c)] # "free"
    <3>1. mutex[Outer(c)] \in {"caller", "worker"}
      BY <2>2, TasksApart DEF IInv, TypeOK
    <3>2. handler[Outer(c)] \in Inside
      BY <1>2, <3>1 DEF DInv, Locking, Inside
    <3> QED BY <3>2, WorkerGoes
  <2> QED BY <2>1, <2>2
<1> QED BY <1>1, <1>2

\* A callback ends, or makes a call that goes on or sleeps.
LEMMA CallbackGoes ==
  ASSUME IInv, DInv, NEW c \in Call, callback[c] \in Running
  PROVE  SomeReady \/ \E d \in Children(c) : kind[d] = "sync" /\ caller[d] = "waiting"
<1>1. CASE CallbackReady(c)
  BY <1>1 DEF SomeReady, Ready
<1>2. CASE ~CallbackReady(c)
  <2>1. PICK d \in Children(c) : caller[d] \notin {"start", "returned"}
    BY <1>2 DEF CallbackReady
  <2>2. d \in Call /\ parent[d] = c /\ parent[d] # NoCall
    BY <2>1, CallAssumption DEF Children
  <2>3. caller[d] \in {"posting", "locked", "waiting", "woken", "freeing"}
    BY <2>1, <2>2 DEF IInv, TypeOK
  <2>4. CASE kind[d] = "sync"
    BY <2>1, <2>2, <2>3, <2>4, ThreadGoes
  <2>5. CASE kind[d] # "sync"
    <3>1. caller[d] = "freeing"
      BY <2>2, <2>3, <2>5 DEF IInv, CallInv, Stages
    <3>2. CASE callback[d] # "caller"
      BY <2>2, <3>1, <3>2 DEF SomeReady, Ready, CallerReady
    <3>3. CASE callback[d] = "caller"
      <4>1. Children(d) = {}
        BY <2>2, CallAssumption DEF DInv, Nested, Children
      <4> QED BY <2>2, <3>3, <4>1 DEF SomeReady, Ready, CallbackReady, Running
    <3> QED BY <3>2, <3>3
  <2> QED BY <2>4, <2>5
<1> QED BY <1>1, <1>2

\* A message that is posted is delivered, or the handling it waits for goes on.
LEMMA PostedGoes ==
  ASSUME IInv, DInv, NEW c \in Call, NEW t \in {Outer(c), Inner(c)}, handler[t] = "posted"
  PROVE  SomeReady \/ \E d \in Call : Stalled(d)
<1>1. CASE Scheduled(c)
  BY <1>1 DEF SomeReady, Ready, WorkerReady
<1>2. CASE ~Scheduled(c)
  <2>1. PICK d \in Call : Handling(d)
    BY <1>2 DEF Scheduled
  <2>2. CASE handler[Outer(d)] \in Inside
    BY <2>2, WorkerGoes
  <2>3. CASE callback[d] = "worker"
    <3>1. SUFFICES ASSUME NEW e \in Children(d), kind[e] = "sync", caller[e] = "waiting"
                   PROVE  \E x \in Call : Stalled(x)
      BY <2>3, CallbackGoes DEF Running
    <3>2. e \in Call /\ Stalled(e)
      BY <2>3, <3>1, CallAssumption DEF Children, Stalled
    <3> QED BY <3>2
  <2> QED BY <2>1, <2>2, <2>3 DEF Handling, Inside
<1> QED BY <1>1, <1>2

\* Who sleeps is woken, or what he waits for goes on.
LEMMA SleeperGoes ==
  ASSUME IInv, DInv, NEW c \in Call, caller[c] = "waiting"
  PROVE  SomeReady \/ \E d \in Call : Stalled(d)
<1>1. handler[Outer(c)] = "posted" \/ handler[Outer(c)] \in Inside
  BY DEF DInv, Locking, Inside
<1> QED BY <1>1, PostedGoes, WorkerGoes

\* A callback goes on, whoever runs it.
LEMMA RunningGoes ==
  ASSUME IInv, DInv, NEW c \in Call, callback[c] \in Running
  PROVE  SomeReady \/ \E d \in Call : Stalled(d)
<1>1. SUFFICES ASSUME NEW e \in Children(c), caller[e] = "waiting"
               PROVE  SomeReady \/ \E d \in Call : Stalled(d)
  BY CallbackGoes
<1> QED BY <1>1, SleeperGoes DEF Children

\* A call under way goes on.
LEMMA UnderWayGoes ==
  ASSUME IInv, DInv, NEW c \in Call, UnderWay(c)
  PROVE  SomeReady \/ \E d \in Call : Stalled(d)
<1>1. CASE callback[c] \in Running
  BY <1>1, RunningGoes
<1>2. CASE callback[c] \notin Running /\ caller[c] # "returned"
  <2>1. CASE caller[c] = "waiting"
    BY <2>1, SleeperGoes
  <2>2. CASE caller[c] \in {"posting", "locked", "woken"}
    BY <2>2, ThreadGoes DEF IInv, CallInv, Stages
  <2>3. CASE caller[c] = "freeing"
    BY <1>2, <2>3 DEF SomeReady, Ready, CallerReady, Running
  <2> QED BY <1>2, <2>1, <2>2, <2>3 DEF UnderWay, IInv, TypeOK
<1>3. CASE caller[c] = "returned" /\ answer[c] = "none"
  <2>1. Held(c)
    BY <1>3 DEF DInv, Answering
  <2>2. CASE handler[Outer(c)] = "posted" \/ handler[Inner(c)] = "posted"
    BY <2>2, PostedGoes
  <2>3. CASE Outer(c) \in idle \/ Inner(c) \in idle
    <3>1. CASE MainLoopIdle
      BY <2>3, <3>1 DEF SomeReady, Ready, MainLoopReady
    <3>2. CASE ~MainLoopIdle
      BY <3>2, RunningGoes DEF MainLoopIdle, Running
    <3> QED BY <3>1, <3>2
  <2> QED BY <2>1, <2>2, <2>3 DEF Held
<1> QED BY <1>1, <1>2, <1>3 DEF UnderWay

\* What calls wait for is kept by every step.
LEMMA TurnInvariance == Spec => [](IInv /\ DInv)
<1>1. Init => DInv
  BY InitDInv
<1>2. IInv /\ DInv /\ [Next]_vars => DInv'
  BY NextDInv
<1> QED BY <1>1, <1>2, Invariance, PTL DEF Spec

(***************************************************************************)
(* While a call is under way somebody can go on, unless a callback that    *)
(* the worker runs has made a synchronous call: there is no other deadlock *)
(* (storage_task_wait, storage_task_complete).                             *)
(***************************************************************************)
THEOREM OnlyReentranceStalls == Spec => [](SomebodyReady \/ \E c \in Call : Stalled(c))
<1>1. IInv /\ DInv => SomebodyReady \/ \E c \in Call : Stalled(c)
  BY UnderWayGoes DEF SomebodyReady, SomeReady
<1> QED BY <1>1, TurnInvariance, PTL

(***************************************************************************)
(* And so always, if callbacks make synchronous calls only from the main   *)
(* loop or from the thread of a refused call.                              *)
(***************************************************************************)
THEOREM SomebodyIsReady == ~Reentrant => (Spec => []SomebodyReady)
<1> SUFFICES ASSUME ~Reentrant PROVE Spec => []SomebodyReady
  OBVIOUS
<1>1. IInv /\ DInv => SomebodyReady
  <2> SUFFICES ASSUME IInv, DInv PROVE SomebodyReady
    OBVIOUS
  <2>1. \A c \in Call : ~Stalled(c)
    BY DEF DInv, Nested, Stalled
  <2> QED BY <2>1, UnderWayGoes DEF SomebodyReady, SomeReady
<1> QED BY <1>1, TurnInvariance, PTL
=============================================================================
