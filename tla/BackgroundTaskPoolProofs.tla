---------------------- MODULE BackgroundTaskPoolProofs ----------------------
(***************************************************************************)
(* The safety of background_task_pool, for any number of tasks.            *)
(***************************************************************************)
EXTENDS BackgroundTaskPool, TLAPS

\* A task whose thread runs: it is in the map, or submit() is about to enter it.
Entering(t) == pc \in {"submit", "callback submit"} /\ t = next_task_id

\* Its job is done and its id was pushed.
Pushed(t) == thread[t] \in {"exiting", "ended"}

\* The threads that were started are those of the tasks submitted.
Started ==
    /\ \A t \in Ids : thread[t] # "none" <=> (t < next_task_id \/ Entering(t))
    /\ pc \in {"submit", "callback submit"} => next_task_id < MaxTasks
    /\ \A t \in task_map : t < next_task_id

\* An id waits for pump() once, after its job and before its callback.
Waiting ==
    \A i \in DOMAIN completed_tasks :
       /\ Pushed(completed_tasks[i]) /\ calls[completed_tasks[i]] = 0
       /\ completed_tasks[i] \in task_map \/ Entering(completed_tasks[i])

Distinct ==
    /\ \A i, j \in DOMAIN completed_tasks : completed_tasks[i] = completed_tasks[j] => i = j
    /\ \A i, j \in DOMAIN completed : completed[i] = completed[j] => i = j
    /\ \A i \in DOMAIN completed_tasks, j \in DOMAIN completed : completed_tasks[i] # completed[j]

\* pump() has called the callback of the first id it handles, or of none.
Handled ==
    /\ \A i \in DOMAIN completed : Pushed(completed[i]) /\ completed[i] \in task_map
    /\ \A i \in DOMAIN completed :
          calls[completed[i]] = IF i = 1 /\ pc \in {"callback", "callback submit"} THEN 1 ELSE 0
    /\ pc \in {"callback", "callback submit"} => completed # << >>
    /\ pc \in {"idle", "submit"} => completed = << >>

\* A task leaves the map when its callback was called and its thread was joined.
Gone ==
    /\ \A t \in Ids : t < next_task_id /\ t \notin task_map =>
                         thread[t] = "ended" /\ calls[t] = 1
    /\ \A t \in Ids : ~Pushed(t) => calls[t] = 0
    /\ manager = "destroyed" => task_map = {} /\ pc = "idle"

IInv == TypeOK /\ Started /\ Waiting /\ Distinct /\ Handled /\ Gone

-----------------------------------------------------------------------------

\* An id is a number below MaxTasks.
LEMMA IdBound == ASSUME NEW t \in Ids PROVE t \in Nat /\ t < MaxTasks
  BY TasksAssumption DEF Ids

\* A number below MaxTasks is an id.
LEMMA NextId == ASSUME NEW t \in Nat, t < MaxTasks PROVE t \in Ids /\ t + 1 \in 0..MaxTasks
  BY TasksAssumption DEF Ids

\* The two vectors hold ids.
LEMMA SeqFacts ==
  ASSUME TypeOK
  PROVE  /\ \A i \in DOMAIN completed_tasks : completed_tasks[i] \in Ids
         /\ \A i \in DOMAIN completed : completed[i] \in Ids
  <1>1. completed_tasks \in Seq(Ids) /\ completed \in Seq(Ids)
    BY DEF TypeOK
  <1> QED
    BY <1>1

\* The id submit() gives to the next task.
LEMMA NextIdFacts ==
  ASSUME TypeOK, Started, next_task_id < MaxTasks
  PROVE  /\ next_task_id \in Nat /\ next_task_id \in Ids
         /\ next_task_id + 1 \in 0..MaxTasks
         /\ pc \notin {"submit", "callback submit"} => thread[next_task_id] = "none"
  <1>1. next_task_id \in Nat
    <2>1. next_task_id \in 0..MaxTasks
      BY DEF TypeOK
    <2> QED
      BY <2>1, TasksAssumption
  <1>2. next_task_id \in Ids /\ next_task_id + 1 \in 0..MaxTasks
    BY <1>1, NextId
  <1>3. ~(next_task_id < next_task_id)
    BY <1>1
  <1> QED
    BY <1>1, <1>2, <1>3 DEF Started, Entering

\* The invariant holds before the first task.
LEMMA InitInv == Init => IInv
  <1> SUFFICES ASSUME Init PROVE IInv
    OBVIOUS
  <1>1. TypeOK
    BY TasksAssumption DEF Init, TypeOK
  <1>2. Started
    BY TasksAssumption DEF Init, Started, Entering, Ids
  <1>3. Waiting /\ Distinct /\ Handled
    BY DEF Init, Waiting, Distinct, Handled, Pushed, Entering
  <1>4. Gone
    BY IdBound DEF Init, Gone, Pushed
  <1> QED
    BY <1>1, <1>2, <1>3, <1>4 DEF IInv

\* submit() starts a thread for the next id.
LEMMA StartThreadInv == ASSUME IInv, StartThread PROVE IInv'
  <1>0. /\ \A i \in DOMAIN completed_tasks : completed_tasks[i] \in Ids
       /\ \A i \in DOMAIN completed : completed[i] \in Ids
    BY SeqFacts DEF IInv
  <1>1. TypeOK'
    BY NextId, <1>0 DEF StartThread, IInv, TypeOK
  <1>2. Started'
    BY NextId, IdBound DEF StartThread, IInv, TypeOK, Started, Entering
  <1>3. Waiting'
    <2>1. next_task_id \in Ids /\ thread[next_task_id] = "none"
      BY NextIdFacts DEF StartThread, IInv
    <2> QED
      BY <1>0, <2>1 DEF StartThread, IInv, TypeOK, Started, Waiting, Entering, Pushed
  <1>4. Distinct'
    BY <1>0 DEF StartThread, IInv, TypeOK, Waiting, Distinct, Pushed
  <1>5. Handled'
    <2>1. next_task_id \in Ids /\ thread[next_task_id] = "none"
      BY NextIdFacts DEF StartThread, IInv
    <2> QED
      BY <1>0, <2>1 DEF StartThread, IInv, TypeOK, Started, Handled, Entering, Pushed
  <1>6. Gone'
    <2>1. next_task_id \in Ids /\ thread[next_task_id] = "none" /\ next_task_id \in Nat
      BY NextIdFacts DEF StartThread, IInv
    <2> QED
      BY <1>0, <2>1, IdBound DEF StartThread, IInv, TypeOK, Gone, Pushed
  <1> QED
    BY <1>1, <1>2, <1>3, <1>4, <1>5, <1>6 DEF IInv

\* submit() enters the task, whatever its thread has done by then.
LEMMA EnterTaskInv == ASSUME IInv, EnterTask PROVE IInv'
  <1>0. /\ \A i \in DOMAIN completed_tasks : completed_tasks[i] \in Ids
       /\ \A i \in DOMAIN completed : completed[i] \in Ids
    BY SeqFacts DEF IInv
  <1>1. TypeOK'
    BY NextIdFacts DEF EnterTask, IInv, TypeOK, Started
  <1>2. Started'
    <2>1. next_task_id \in Nat /\ next_task_id \in Ids
      BY NextIdFacts DEF EnterTask, IInv, Started
    <2>2. \A t \in Ids : t < next_task_id + 1 <=> t < next_task_id \/ t = next_task_id
      BY <2>1, IdBound
    <2>3. task_map \subseteq Ids
      BY DEF IInv, TypeOK
    <2> QED
      BY <2>1, <2>2, <2>3 DEF EnterTask, IInv, Started, Entering
  <1>3. Waiting'
    BY <1>0 DEF EnterTask, IInv, TypeOK, Started, Waiting, Handled, Gone, Entering, Pushed
  <1>4. Distinct'
    BY <1>0 DEF EnterTask, IInv, TypeOK, Waiting, Distinct, Pushed
  <1>5. Handled'
    BY <1>0
       DEF EnterTask, IInv, TypeOK, Started, Waiting, Distinct, Handled, Gone, Entering,
           Pushed
  <1>6. Gone'
    <2>1. next_task_id \in Nat /\ next_task_id \in Ids
      BY NextIdFacts DEF EnterTask, IInv, Started
    <2>2. \A t \in Ids : t < next_task_id + 1 <=> t < next_task_id \/ t = next_task_id
      BY <2>1, IdBound
    <2> QED
      BY <2>1, <2>2 DEF EnterTask, IInv, Gone, Pushed
  <1> QED
    BY <1>1, <1>2, <1>3, <1>4, <1>5, <1>6 DEF IInv

\* The job of a task is done on its thread.
LEMMA RunJobInv == ASSUME NEW t \in Ids, IInv, RunJob(t) PROVE IInv'
  <1>0. /\ \A i \in DOMAIN completed_tasks : completed_tasks[i] \in Ids
       /\ \A i \in DOMAIN completed : completed[i] \in Ids
    BY SeqFacts DEF IInv
  <1>1. TypeOK'
    BY <1>0 DEF RunJob, IInv, TypeOK
  <1>2. Started'
    BY <1>0 DEF RunJob, IInv, TypeOK, Started, Entering
  <1>3. Waiting'
    BY <1>0 DEF RunJob, IInv, TypeOK, Started, Waiting, Handled, Gone, Entering, Pushed
  <1>4. Distinct'
    BY <1>0 DEF RunJob, IInv, TypeOK, Waiting, Distinct, Pushed
  <1>5. Handled'
    BY <1>0
       DEF RunJob, IInv, TypeOK, Started, Waiting, Distinct, Handled, Gone, Entering, Pushed
  <1>6. Gone'
    BY <1>0 DEF RunJob, IInv, TypeOK, Started, Waiting, Handled, Gone, Entering, Pushed
  <1> QED
    BY <1>1, <1>2, <1>3, <1>4, <1>5, <1>6 DEF IInv

\* The thread pushes the id of its task.
LEMMA PushCompletedInv == ASSUME NEW t \in Ids, IInv, PushCompleted(t) PROVE IInv'
  <1>0. /\ \A i \in DOMAIN completed_tasks : completed_tasks[i] \in Ids
       /\ \A i \in DOMAIN completed : completed[i] \in Ids
    BY SeqFacts DEF IInv
  <1>1. TypeOK'
    <2>1. Append(completed_tasks, t) \in Seq(Ids)
      <3>1. completed_tasks \in Seq(Ids)
        BY DEF IInv, TypeOK
      <3> QED
        BY <3>1
    <2> QED
      BY <2>1 DEF PushCompleted, IInv, TypeOK
  <1>2. Started'
    BY <1>0 DEF PushCompleted, IInv, TypeOK, Started, Entering
  <1>3. Waiting'
    <2>1. /\ DOMAIN completed_tasks' = DOMAIN completed_tasks \cup {Len(completed_tasks) + 1}
          /\ completed_tasks'[Len(completed_tasks) + 1] = t
          /\ \A i \in DOMAIN completed_tasks : completed_tasks'[i] = completed_tasks[i]
      <3>1. completed_tasks \in Seq(Ids)
        BY DEF IInv, TypeOK
      <3> QED
        BY <3>1 DEF PushCompleted
    <2>2. thread[t] = "done" /\ (t \in task_map \/ Entering(t))
      BY IdBound DEF PushCompleted, IInv, Started, Gone, TypeOK
    <2>3. Entering(t)' = Entering(t) /\ task_map' = task_map /\ calls' = calls /\ calls[t] = 0
      BY <2>2 DEF PushCompleted, Entering, IInv, Gone, Pushed
    <2>4. /\ Pushed(t)' /\ \A u \in Ids : Pushed(u) => Pushed(u)'
      BY DEF PushCompleted, IInv, TypeOK, Pushed
    <2>5. pc' = pc /\ next_task_id' = next_task_id /\ \A u \in Ids : Entering(u)' = Entering(u)
      BY DEF PushCompleted, Entering
    <2>6. ASSUME NEW i \in DOMAIN completed_tasks'
          PROVE  /\ Pushed(completed_tasks[i])' /\ calls'[completed_tasks'[i]] = 0
                 /\ completed_tasks'[i] \in task_map' \/ Entering(completed_tasks[i])'
      <3>1. CASE i = Len(completed_tasks) + 1
        <4>1. completed_tasks'[i] = t
          BY <2>1, <3>1
        <4>2. Pushed(t)' /\ calls'[t] = 0 /\ (t \in task_map' \/ Entering(t)')
          BY <2>2, <2>3, <2>4
        <4> QED
          BY <4>1, <4>2 DEF Pushed, Entering
      <3>2. CASE i \in DOMAIN completed_tasks
        <4> DEFINE u == completed_tasks[i]
        <4>1. completed_tasks'[i] = u /\ u \in Ids
          <5>1. completed_tasks \in Seq(Ids)
            BY DEF IInv, TypeOK
          <5>2. u \in Ids
            BY <3>2, <5>1
          <5> QED
            BY <2>1, <3>2, <5>2, Zenon
        <4>2. Pushed(u) /\ calls[u] = 0 /\ (u \in task_map \/ Entering(u))
          BY <3>2 DEF IInv, Waiting
        <4>3. thread'[u] \in {"exiting", "ended"} /\ calls'[u] = 0
          BY <2>3, <2>4, <4>1, <4>2 DEF Pushed
        <4>4. u \in task_map' \/ (pc' \in {"submit", "callback submit"} /\ u = next_task_id')
          BY <2>3, <2>5, <4>2 DEF Entering
        <4> HIDE DEF u
        <4> QED
          BY <4>1, <4>3, <4>4 DEF Pushed, Entering
      <3> QED
        BY <2>1, <3>1, <3>2
    <2> QED
      BY <2>6 DEF Waiting
  <1>4. Distinct'
    <2>1. /\ DOMAIN completed_tasks' = DOMAIN completed_tasks \cup {Len(completed_tasks) + 1}
          /\ Len(completed_tasks) + 1 \notin DOMAIN completed_tasks
          /\ completed_tasks'[Len(completed_tasks) + 1] = t
          /\ \A i \in DOMAIN completed_tasks : completed_tasks'[i] = completed_tasks[i]
      <3>1. completed_tasks \in Seq(Ids)
        BY DEF IInv, TypeOK
      <3> QED
        BY <3>1 DEF PushCompleted
    <2>2. \A i \in DOMAIN completed_tasks : completed_tasks[i] # t
      BY DEF PushCompleted, IInv, Waiting, Pushed
    <2>3. \A i \in DOMAIN completed : completed[i] # t
      BY DEF PushCompleted, IInv, Handled, Pushed
    <2> QED
      BY <2>1, <2>2, <2>3 DEF PushCompleted, IInv, Distinct
  <1>5. Handled'
    BY <1>0
       DEF PushCompleted, IInv, TypeOK, Started, Waiting, Distinct, Handled, Gone, Entering,
           Pushed
  <1>6. Gone'
    BY <1>0 DEF PushCompleted, IInv, TypeOK, Started, Waiting, Handled, Gone, Entering, Pushed
  <1> QED
    BY <1>1, <1>2, <1>3, <1>4, <1>5, <1>6 DEF IInv

\* The thread ends.
LEMMA ExitThreadInv == ASSUME NEW t \in Ids, IInv, ExitThread(t) PROVE IInv'
  <1>0. /\ \A i \in DOMAIN completed_tasks : completed_tasks[i] \in Ids
       /\ \A i \in DOMAIN completed : completed[i] \in Ids
    BY SeqFacts DEF IInv
  <1>1. TypeOK'
    BY <1>0 DEF ExitThread, IInv, TypeOK
  <1>2. Started'
    BY <1>0 DEF ExitThread, IInv, TypeOK, Started, Entering
  <1>3. Waiting'
    BY <1>0 DEF ExitThread, IInv, TypeOK, Started, Waiting, Handled, Gone, Entering, Pushed
  <1>4. Distinct'
    BY <1>0 DEF ExitThread, IInv, TypeOK, Waiting, Distinct, Pushed
  <1>5. Handled'
    BY <1>0
       DEF ExitThread, IInv, TypeOK, Started, Waiting, Distinct, Handled, Gone, Entering,
           Pushed
  <1>6. Gone'
    BY <1>0 DEF ExitThread, IInv, TypeOK, Started, Waiting, Handled, Gone, Entering, Pushed
  <1> QED
    BY <1>1, <1>2, <1>3, <1>4, <1>5, <1>6 DEF IInv

\* pump() takes the ids that wait.
LEMMA SwapInv == ASSUME IInv, Swap PROVE IInv'
  <1>0. /\ \A i \in DOMAIN completed_tasks : completed_tasks[i] \in Ids
       /\ \A i \in DOMAIN completed : completed[i] \in Ids
    BY SeqFacts DEF IInv
  <1>1. TypeOK'
    BY <1>0 DEF Swap, IInv, TypeOK
  <1>2. Started'
    BY <1>0 DEF Swap, IInv, TypeOK, Started, Entering
  <1>3. Waiting'
    BY <1>0 DEF Swap, IInv, TypeOK, Started, Waiting, Handled, Gone, Entering, Pushed
  <1>4. Distinct'
    BY <1>0 DEF Swap, IInv, TypeOK, Waiting, Distinct, Pushed
  <1>5. Handled'
    BY <1>0 DEF Swap, IInv, TypeOK, Started, Waiting, Distinct, Handled, Gone, Entering, Pushed
  <1>6. Gone'
    BY <1>0 DEF Swap, IInv, TypeOK, Started, Waiting, Handled, Gone, Entering, Pushed
  <1> QED
    BY <1>1, <1>2, <1>3, <1>4, <1>5, <1>6 DEF IInv

\* pump() calls a callback.
LEMMA OnCompleteInv == ASSUME IInv, OnComplete PROVE IInv'
  <1>0. /\ \A i \in DOMAIN completed_tasks : completed_tasks[i] \in Ids
       /\ \A i \in DOMAIN completed : completed[i] \in Ids
    BY SeqFacts DEF IInv
  <1>1. TypeOK'
    <2>1. calls' \in [Ids -> 0..1]
      <3>1. Head(completed) = completed[1] /\ 1 \in DOMAIN completed
        <4>1. completed \in Seq(Ids) /\ completed # << >>
          BY DEF IInv, TypeOK, OnComplete
        <4> QED
          BY <4>1
      <3>2. calls[Head(completed)] = 0
        BY <3>1 DEF OnComplete, IInv, Handled
      <3> QED
        BY <3>2 DEF OnComplete, IInv, TypeOK
    <2> QED
      BY <2>1 DEF OnComplete, IInv, TypeOK
  <1>2. Started'
    BY <1>0 DEF OnComplete, IInv, TypeOK, Started, Entering
  <1>3. Waiting'
    <2>1. Head(completed) = completed[1] /\ 1 \in DOMAIN completed
      <3>1. completed \in Seq(Ids) /\ completed # << >>
        BY DEF IInv, TypeOK, OnComplete
      <3> QED
        BY <3>1
    <2>2. \A i \in DOMAIN completed_tasks : completed_tasks[i] # Head(completed)
      BY <2>1 DEF IInv, Distinct
    <2>3. \A i \in DOMAIN completed_tasks : calls'[completed_tasks[i]] = calls[completed_tasks[i]]
      BY <1>0, <2>2 DEF OnComplete, IInv, TypeOK
    <2> QED
      BY <2>3 DEF OnComplete, IInv, Waiting, Entering, Pushed
  <1>4. Distinct'
    BY <1>0 DEF OnComplete, IInv, TypeOK, Waiting, Distinct, Pushed
  <1>5. Handled'
    BY <1>0
       DEF OnComplete, IInv, TypeOK, Started, Waiting, Distinct, Handled, Gone, Entering,
           Pushed
  <1>6. Gone'
    BY <1>0 DEF OnComplete, IInv, TypeOK, Started, Waiting, Handled, Gone, Entering, Pushed
  <1> QED
    BY <1>1, <1>2, <1>3, <1>4, <1>5, <1>6 DEF IInv

\* pump() joins a thread and drops its task.
LEMMA EraseInv == ASSUME IInv, Erase PROVE IInv'
  <1>0. /\ \A i \in DOMAIN completed_tasks : completed_tasks[i] \in Ids
       /\ \A i \in DOMAIN completed : completed[i] \in Ids
    BY SeqFacts DEF IInv
  <1>1. TypeOK'
    <2>1. Tail(completed) \in Seq(Ids)
      <3>1. completed \in Seq(Ids) /\ completed # << >>
        BY DEF IInv, TypeOK, Erase, Handled
      <3> QED
        BY <3>1
    <2> QED
      BY <2>1 DEF Erase, IInv, TypeOK
  <1>2. Started'
    BY <1>0 DEF Erase, IInv, TypeOK, Started, Entering
  <1>3. Waiting'
    BY <1>0 DEF Erase, IInv, TypeOK, Started, Waiting, Handled, Gone, Entering, Pushed
  <1>4. Distinct'
    <2>1. completed \in Seq(Ids) /\ completed # << >>
      BY DEF IInv, TypeOK, Erase, Handled
    <2>2. \A i \in DOMAIN Tail(completed) :
             i + 1 \in DOMAIN completed /\ Tail(completed)[i] = completed[i + 1] /\ i \in Nat
      BY <2>1
    <2>3. completed' = Tail(completed) /\ completed_tasks' = completed_tasks
      BY DEF Erase
    <2>4. \A i, j \in DOMAIN completed' : completed'[i] = completed'[j] => i = j
      BY <2>2, <2>3 DEF IInv, Distinct
    <2>5. \A i \in DOMAIN completed_tasks', j \in DOMAIN completed' :
             completed_tasks'[i] # completed'[j]
      BY <2>2, <2>3 DEF IInv, Distinct
    <2> QED
      BY <2>3, <2>4, <2>5 DEF IInv, Distinct
  <1>5. Handled'
    BY <1>0
       DEF Erase, IInv, TypeOK, Started, Waiting, Distinct, Handled, Gone, Entering, Pushed
  <1>6. Gone'
    BY <1>0 DEF Erase, IInv, TypeOK, Started, Waiting, Handled, Gone, Entering, Pushed
  <1> QED
    BY <1>1, <1>2, <1>3, <1>4, <1>5, <1>6 DEF IInv

\* The steps that leave the tasks as they are.
LEMMA QuietInv == ASSUME IInv, PumpReturn \/ Quit \/ Destroyed \/ UNCHANGED vars PROVE IInv'
  <1>0. /\ \A i \in DOMAIN completed_tasks : completed_tasks[i] \in Ids
       /\ \A i \in DOMAIN completed : completed[i] \in Ids
    BY SeqFacts DEF IInv
  <1>1. TypeOK'
    BY <1>0 DEF PumpReturn, Quit, Destroyed, vars, IInv, TypeOK
  <1>2. Started'
    BY <1>0 DEF PumpReturn, Quit, Destroyed, vars, IInv, TypeOK, Started, Entering
  <1>3. Waiting'
    BY <1>0
       DEF PumpReturn, Quit, Destroyed, vars, IInv, TypeOK, Started, Waiting, Handled, Gone,
           Entering, Pushed
  <1>4. Distinct'
    BY <1>0 DEF PumpReturn, Quit, Destroyed, vars, IInv, TypeOK, Waiting, Distinct, Pushed
  <1>5. Handled'
    BY <1>0
       DEF PumpReturn, Quit, Destroyed, vars, IInv, TypeOK, Started, Waiting, Distinct,
           Handled, Gone, Entering, Pushed
  <1>6. Gone'
    <2>1. UNCHANGED <<next_task_id, task_map, thread, calls>>
      BY DEF PumpReturn, Quit, Destroyed, vars
    <2>2. manager' = "destroyed" => task_map = {} /\ pc' = "idle"
      BY DEF PumpReturn, Quit, Destroyed, vars, IInv, Gone
    <2> QED
      BY <2>1, <2>2 DEF IInv, Gone, Pushed
  <1> QED
    BY <1>1, <1>2, <1>3, <1>4, <1>5, <1>6 DEF IInv

\* Every step, and a step that changes nothing.
LEMMA NextInv == IInv /\ [Next]_vars => IInv'
  BY StartThreadInv, EnterTaskInv, RunJobInv, PushCompletedInv, ExitThreadInv, SwapInv,
     OnCompleteInv, EraseInv, QuietInv DEF Next, Pump, Thread

\* The inductive invariant holds in every behaviour of the pool.
THEOREM Invariance == Spec => []IInv
  BY InitInv, NextInv, PTL DEF Spec

\* The variables keep their types, and no callback is called twice.
THEOREM TypeCorrect == Spec => []TypeOK
  <1>1. IInv => TypeOK
    BY DEF IInv
  <1> QED
    BY <1>1, Invariance, PTL

\* pump() never looks up an id task_map has no entry for.
THEOREM TasksKnown == Spec => []HandledTasksKnown
  <1>1. IInv => HandledTasksKnown
    BY DEF IInv, HandledTasksKnown, Waiting, Handled, Entering
  <1> QED
    BY <1>1, Invariance, PTL

\* When ~manager() returns, every thread was joined after its callback.
THEOREM ManagerLast == Spec => []NothingOutlivesManager
  <1>1. IInv => NothingOutlivesManager
    <2> SUFFICES ASSUME IInv, manager = "destroyed", NEW t \in Ids, thread[t] # "none"
                 PROVE  thread[t] = "ended" /\ calls[t] = 1
      BY DEF NothingOutlivesManager
    <2>1. t < next_task_id \/ Entering(t)
      BY DEF IInv, Started
    <2>2. ~Entering(t)
      BY DEF IInv, Handled, Gone, Entering
    <2> QED
      BY <2>1, <2>2 DEF IInv, Gone
  <1> QED
    BY <1>1, Invariance, PTL
=============================================================================
