------------------------- MODULE BackgroundTaskPool -------------------------
(***************************************************************************)
(* background_task_pool.cpp: jobs that run on a thread each, and the       *)
(* completion callbacks that the main thread runs for them in pump(), once *)
(* a cycle (LevelRunner::play_cycle) and until no task is left in          *)
(* ~manager().  The mutex of completed_tasks is held for one step at a     *)
(* time, and for nothing else.                                             *)
(***************************************************************************)
EXTENDS Naturals, Sequences, FiniteSets

CONSTANT MaxTasks   \* bound: the number of tasks that are submitted
ASSUME TasksAssumption == MaxTasks \in Nat

Ids == 0..MaxTasks - 1

VARIABLES
    next_task_id,
    task_map,         \* the ids task_map has an entry for
    completed_tasks,  \* the ids of the jobs that are done, under the mutex
    thread,           \* what the thread of each task is doing
    completed,        \* what pump() swapped out and has yet to handle
    calls,            \* how often on_complete of each task was called
    pc,               \* what the main thread is doing
    manager           \* "alive", in ~manager() ("destroying") or "destroyed"

vars == <<next_task_id, task_map, completed_tasks, thread, completed, calls, pc, manager>>

Init ==
    /\ next_task_id = 0 /\ task_map = {}
    /\ completed_tasks = << >> /\ completed = << >>
    /\ thread = [t \in Ids |-> "none"]
    /\ calls = [t \in Ids |-> 0]
    /\ pc = "idle" /\ manager = "alive"

-----------------------------------------------------------------------------
(* submit(), by the main loop or by an on_complete callback.               *)

\* The thread is created, and may run at once.
StartThread ==
    /\ pc = "callback" \/ (pc = "idle" /\ manager = "alive")
    /\ next_task_id < MaxTasks
    /\ thread' = [thread EXCEPT ![next_task_id] = "job"]
    /\ pc' = IF pc = "idle" THEN "submit" ELSE "callback submit"
    /\ UNCHANGED <<next_task_id, task_map, completed_tasks, completed, calls, manager>>

\* Only then is the task entered in the map.
EnterTask ==
    /\ pc \in {"submit", "callback submit"}
    /\ task_map' = task_map \cup {next_task_id}
    /\ next_task_id' = next_task_id + 1
    /\ pc' = IF pc = "submit" THEN "idle" ELSE "callback"
    /\ UNCHANGED <<completed_tasks, thread, completed, calls, manager>>

-----------------------------------------------------------------------------
(* run_task, on the task's thread.                                         *)

RunJob(t) ==
    /\ thread[t] = "job"
    /\ thread' = [thread EXCEPT ![t] = "done"]
    /\ UNCHANGED <<next_task_id, task_map, completed_tasks, completed, calls, pc, manager>>

\* Mutant of PushCompleted: the id is put in place of those pump() has not seen.
PushCompletedAlone(t) ==
    /\ thread[t] = "done"
    /\ completed_tasks' = <<t>>
    /\ thread' = [thread EXCEPT ![t] = "exiting"]
    /\ UNCHANGED <<next_task_id, task_map, completed, calls, pc, manager>>

PushCompleted(t) ==
    /\ thread[t] = "done"
    /\ completed_tasks' = Append(completed_tasks, t)
    /\ thread' = [thread EXCEPT ![t] = "exiting"]
    /\ UNCHANGED <<next_task_id, task_map, completed, calls, pc, manager>>

\* The lock is released, the job's captures are destroyed, and the thread ends.
ExitThread(t) ==
    /\ thread[t] = "exiting"
    /\ thread' = [thread EXCEPT ![t] = "ended"]
    /\ UNCHANGED <<next_task_id, task_map, completed_tasks, completed, calls, pc, manager>>

-----------------------------------------------------------------------------
(* pump(), on the main thread.                                             *)

\* Mutant of Swap: the completed ids are copied and stay in the shared vector.
SwapCopied ==
    /\ pc = "idle"
    /\ manager = "alive" \/ (manager = "destroying" /\ task_map # {})
    /\ completed' = completed_tasks
    /\ pc' = "pump"
    /\ UNCHANGED <<next_task_id, task_map, completed_tasks, thread, calls, manager>>

Swap ==
    /\ pc = "idle"
    /\ manager = "alive" \/ (manager = "destroying" /\ task_map # {})
    /\ completed' = completed_tasks
    /\ completed_tasks' = << >>
    /\ pc' = "pump"
    /\ UNCHANGED <<next_task_id, task_map, thread, calls, manager>>

\* task_map[t].on_complete()
OnComplete ==
    /\ pc = "pump" /\ completed # << >>
    /\ calls' = [calls EXCEPT ![Head(completed)] = @ + 1]
    /\ pc' = "callback"
    /\ UNCHANGED <<next_task_id, task_map, completed_tasks, thread, completed, manager>>

\* Mutant of Erase: the thread is detached, not joined.
EraseDetached ==
    /\ pc = "callback"
    /\ task_map' = task_map \ {Head(completed)}
    /\ completed' = Tail(completed)
    /\ pc' = "pump"
    /\ UNCHANGED <<next_task_id, completed_tasks, thread, calls, manager>>

\* task_map.erase(t): the thread is joined by its destructor.
Erase ==
    /\ pc = "callback"
    /\ thread[Head(completed)] = "ended"
    /\ task_map' = task_map \ {Head(completed)}
    /\ completed' = Tail(completed)
    /\ pc' = "pump"
    /\ UNCHANGED <<next_task_id, completed_tasks, thread, calls, manager>>

PumpReturn ==
    /\ pc = "pump" /\ completed = << >>
    /\ pc' = "idle"
    /\ UNCHANGED <<next_task_id, task_map, completed_tasks, thread, completed, calls, manager>>

-----------------------------------------------------------------------------
(* ~manager(): while(task_map.empty() == false) pump()                     *)

Quit ==
    /\ pc = "idle" /\ manager = "alive"
    /\ manager' = "destroying"
    /\ UNCHANGED <<next_task_id, task_map, completed_tasks, thread, completed, calls, pc>>

\* Mutant of Destroyed: the destructor waits for completed_tasks only.
DestroyedEarly ==
    /\ pc = "idle" /\ manager = "destroying"
    /\ completed_tasks = << >>
    /\ manager' = "destroyed"
    /\ UNCHANGED <<next_task_id, task_map, completed_tasks, thread, completed, calls, pc>>

Destroyed ==
    /\ pc = "idle" /\ manager = "destroying"
    /\ task_map = {}
    /\ manager' = "destroyed"
    /\ UNCHANGED <<next_task_id, task_map, completed_tasks, thread, completed, calls, pc>>

-----------------------------------------------------------------------------

Thread(t) == RunJob(t) \/ PushCompleted(t) \/ ExitThread(t)
Pump == Swap \/ OnComplete \/ Erase \/ PumpReturn

Next ==
    \/ StartThread \/ EnterTask \/ Pump \/ Quit \/ Destroyed
    \/ \E t \in Ids : Thread(t)

Spec == Init /\ [][Next]_vars

\* Threads are scheduled, and the main thread goes on calling pump().
FairSpec ==
    /\ Spec
    /\ WF_vars(EnterTask) /\ WF_vars(Pump)
    /\ \A t \in Ids : WF_vars(Thread(t))

-----------------------------------------------------------------------------
(* Properties.                                                             *)

\* Every variable has a value the code can give it; on_complete of a task is called
\* at most once.
TypeOK ==
    /\ next_task_id \in 0..MaxTasks
    /\ task_map \subseteq Ids
    /\ completed_tasks \in Seq(Ids) /\ completed \in Seq(Ids)
    /\ thread \in [Ids -> {"none", "job", "done", "exiting", "ended"}]
    /\ calls \in [Ids -> 0..1]
    /\ pc \in {"idle", "submit", "pump", "callback", "callback submit"}
    /\ manager \in {"alive", "destroying", "destroyed"}

\* pump() finds the task of every id it handles: task_map[t] never makes an empty
\* task and calls its empty callback, though a job may be done before submit()
\* has entered its task, and one pump() may handle many ids.
HandledTasksKnown ==
    /\ \A i \in DOMAIN completed : completed[i] \in task_map
    /\ pc = "idle" => \A i \in DOMAIN completed_tasks : completed_tasks[i] \in task_map

\* When ~manager() returns no thread of the pool is left, and no callback was lost.
NothingOutlivesManager ==
    manager = "destroyed" =>
       \A t \in Ids : thread[t] = "none" \/ (thread[t] = "ended" /\ calls[t] = 1)

\* Every task that is submitted is completed.
SubmittedCompletes == \A t \in Ids : thread[t] = "job" ~> (calls[t] = 1 /\ t \notin task_map)
=============================================================================
