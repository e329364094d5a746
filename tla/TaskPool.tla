------------------------------ MODULE TaskPool ------------------------------
(***************************************************************************)
(* The task manager of musicd, src/src/task.c: a queue of tasks, and       *)
(* threads that are created on demand, serve the queue and quit when it    *)
(* holds nothing for them.                                                 *)
(*                                                                         *)
(* Everything between a lock and an unlock of task_mutex is one action.    *)
(* What a thread does outside the mutex (the task's function, the byte     *)
(* written to the pipe) are actions of their own, so the owner of a task,  *)
(* other threads and other callers interleave with them.                   *)
(***************************************************************************)
EXTENDS Naturals, Sequences, SequencesExt, FiniteSets

CONSTANTS Tasks,        \* the addresses malloc can return for a task_t
          Threads,      \* names for POSIX threads
          MaxWorkers,   \* MAX_ACTIVE_WORKERS
          MaxThreads,   \* MAX_ACTIVE_THREADS
          NoTask        \* the NULL task pointer

(* The limits are positive, and pthread_create always finds a name: the    *)
(* code aborts the process when it fails.                                  *)
ASSUME PoolAssumption == /\ MaxWorkers \in Nat \ {0}
                         /\ MaxThreads \in Nat \ {0}
                         /\ IsFiniteSet(Threads)
                         /\ Cardinality(Threads) >= MaxThreads
                         /\ NoTask \notin Tasks

VARIABLES queue,           \* next_task .. last_task, linked by next and prev
          active_workers,
          active_threads,
          pc,              \* pc[th]: where thread th is in thread_func
          task,            \* task[th]: its local variable task
          stage,           \* stage[t]: the life of the task_t object
          worker,          \* task->worker
          detached         \* task->detached

vars == <<queue, active_workers, active_threads, pc, task, stage, worker, detached>>

(***************************************************************************)
(* A thread does not exist ("none"), is about to lock the mutex and look   *)
(* at the queue ("look"), executes the function of its task ("run"), or    *)
(* has given the mutex back after it and is about to write to the pipe or  *)
(* to free the task ("tell").                                              *)
(***************************************************************************)
Where == {"none", "look", "run", "tell"}

(* A task_t is not allocated, allocated, handed to start(), or signalled   *)
(* through its pipe.                                                       *)
Stage == {"free", "new", "started", "signalled"}

Init == /\ queue = <<>>
        /\ active_workers = 0
        /\ active_threads = 0
        /\ pc = [th \in Threads |-> "none"]
        /\ task = [th \in Threads |-> NoTask]
        /\ stage = [t \in Tasks |-> "free"]
        /\ worker = [t \in Tasks |-> FALSE]
        /\ detached = [t \in Tasks |-> FALSE]

-----------------------------------------------------------------------------
(* The owner's side.                                                       *)

(* task_new, and its caller setting worker (image.c does, lyrics.c not).   *)
TaskNew(t, w) ==
  /\ stage[t] = "free"
  /\ stage' = [stage EXCEPT ![t] = "new"]
  /\ worker' = [worker EXCEPT ![t] = w]
  /\ detached' = [detached EXCEPT ![t] = FALSE]
  /\ UNCHANGED <<queue, active_workers, active_threads, pc, task>>

(* A thread is created unless one of the two limits is reached.            *)
MaySpawn == active_threads < MaxThreads /\ active_workers < MaxWorkers

Spawn == /\ \E th \in Threads : /\ pc[th] = "none"
                                /\ pc' = [pc EXCEPT ![th] = "look"]
         /\ active_threads' = active_threads + 1

(* start(), under the mutex taken by task_start or task_launch.            *)
StartTask(t, d) ==
  /\ stage[t] = "new"
  /\ stage' = [stage EXCEPT ![t] = "started"]
  /\ detached' = [detached EXCEPT ![t] = d]
  /\ queue' = Append(queue, t)
  /\ IF MaySpawn THEN Spawn ELSE UNCHANGED <<pc, active_threads>>
  /\ UNCHANGED <<active_workers, task, worker>>

(* task_free by the owner.  Owners wait for the pipe to become readable.   *)
TaskFree(t) ==
  /\ stage[t] = "signalled"
  /\ stage' = [stage EXCEPT ![t] = "free"]
  /\ UNCHANGED <<queue, active_workers, active_threads, pc, task, worker, detached>>

-----------------------------------------------------------------------------
(* thread_func.                                                            *)

(* Seeded faults: the comparison with the limit is off by one, each way.   *)
EligibleLoose(t) == worker[t] => active_workers <= MaxWorkers
EligibleStrict(t) == worker[t] => active_workers + 1 < MaxWorkers

Eligible(t) == worker[t] => active_workers < MaxWorkers

(* Seeded fault: any eligible task is taken, not the first one.            *)
AnyEligible(i) == Eligible(queue[i])

(* Position i of the queue is the first one with a task that may run now.  *)
FirstEligible(i) == /\ Eligible(queue[i])
                    /\ \A j \in 1 .. i - 1 : ~Eligible(queue[j])

(* Unlink the first eligible task and count it.                            *)
Pick(th) ==
  /\ pc[th] = "look"
  /\ \E i \in DOMAIN queue :
       /\ FirstEligible(i)
       /\ task' = [task EXCEPT ![th] = queue[i]]
       /\ queue' = RemoveAt(queue, i)
       /\ active_workers' = active_workers + (IF worker[queue[i]] THEN 1 ELSE 0)
  /\ pc' = [pc EXCEPT ![th] = "run"]
  /\ UNCHANGED <<active_threads, stage, worker, detached>>

(* Seeded fault: a thread ends without being uncounted.                    *)
QuitUncounted(th) ==
  /\ pc[th] = "look"
  /\ \A i \in DOMAIN queue : ~Eligible(queue[i])
  /\ pc' = [pc EXCEPT ![th] = "none"]
  /\ UNCHANGED <<queue, active_workers, active_threads, task, stage, worker, detached>>

(* Nothing to do: the thread ends.                                         *)
Quit(th) ==
  /\ pc[th] = "look"
  /\ \A i \in DOMAIN queue : ~Eligible(queue[i])
  /\ active_threads' = active_threads - 1
  /\ pc' = [pc EXCEPT ![th] = "none"]
  /\ UNCHANGED <<queue, active_workers, task, stage, worker, detached>>

(* Seeded faults: every task is counted as a worker when it ends; no task  *)
(* is; the byte is written before the mutex is taken again.                *)
FinishAll(th) ==
  /\ pc[th] = "run"
  /\ active_workers' = active_workers - 1
  /\ pc' = [pc EXCEPT ![th] = "tell"]
  /\ UNCHANGED <<queue, active_threads, task, stage, worker, detached>>
FinishNone(th) ==
  /\ pc[th] = "run"
  /\ pc' = [pc EXCEPT ![th] = "tell"]
  /\ UNCHANGED <<queue, active_workers, active_threads, task, stage, worker, detached>>
FinishTold(th) ==
  /\ pc[th] = "run"
  /\ active_workers' = active_workers - (IF worker[task[th]] THEN 1 ELSE 0)
  /\ stage' = [stage EXCEPT ![task[th]] = "signalled"]
  /\ pc' = [pc EXCEPT ![th] = "tell"]
  /\ UNCHANGED <<queue, active_threads, task, worker, detached>>

(* task->func has returned: lock, update the count, unlock.                *)
Finish(th) ==
  /\ pc[th] = "run"
  /\ active_workers' = active_workers - (IF worker[task[th]] THEN 1 ELSE 0)
  /\ pc' = [pc EXCEPT ![th] = "tell"]
  /\ UNCHANGED <<queue, active_threads, task, stage, worker, detached>>

(* Seeded fault: a detached task is signalled and never freed.             *)
TellDetached(th) ==
  /\ pc[th] = "tell"
  /\ stage' = [stage EXCEPT ![task[th]] = "signalled"]
  /\ task' = [task EXCEPT ![th] = NoTask]
  /\ pc' = [pc EXCEPT ![th] = "look"]
  /\ UNCHANGED <<queue, active_workers, active_threads, worker, detached>>

(* Without the mutex: write to the pipe, or free a detached task.          *)
Tell(th) ==
  /\ pc[th] = "tell"
  /\ stage' = [stage EXCEPT ![task[th]] =
                 IF detached[task[th]] THEN "free" ELSE "signalled"]
  /\ task' = [task EXCEPT ![th] = NoTask]
  /\ pc' = [pc EXCEPT ![th] = "look"]
  /\ UNCHANGED <<queue, active_workers, active_threads, worker, detached>>

ThreadStep(th) == Pick(th) \/ Quit(th) \/ Finish(th) \/ Tell(th)

Owner == \E t \in Tasks : \/ \E w \in BOOLEAN : TaskNew(t, w)
                          \/ \E d \in BOOLEAN : StartTask(t, d)
                          \/ TaskFree(t)

Next == Owner \/ \E th \in Threads : ThreadStep(th)

(* The scheduler lets every thread run, and every task function returns.   *)
Fairness == \A th \in Threads : WF_vars(ThreadStep(th))

Spec == Init /\ [][Next]_vars
FairSpec == Spec /\ Fairness

-----------------------------------------------------------------------------
(* Properties.                                                             *)

TypeOK ==
  /\ queue \in Seq(Tasks)
  /\ active_workers \in Nat
  /\ active_threads \in Nat
  /\ pc \in [Threads -> Where]
  /\ task \in [Threads -> Tasks \cup {NoTask}]
  /\ stage \in [Tasks -> Stage]
  /\ worker \in [Tasks -> BOOLEAN]
  /\ detached \in [Tasks -> BOOLEAN]

Live == {th \in Threads : pc[th] # "none"}
Busy == {th \in Threads : pc[th] = "run" /\ worker[task[th]]}
Queued(t) == \E i \in DOMAIN queue : queue[i] = t
Holds(th, t) == pc[th] \in {"run", "tell"} /\ task[th] = t

(* The counters, which are updated in three places of thread_func and in   *)
(* start(), agree with what the threads are really doing whenever the      *)
(* mutex is free.                                                          *)
CountersExact == /\ active_workers = Cardinality(Busy)
                 /\ active_threads = Cardinality(Live)

(* The comment at the top of task.c: never more than MAX_ACTIVE_THREADS    *)
(* threads, and never more than MAX_ACTIVE_WORKERS of them executing       *)
(* worker tasks.                                                           *)
WithinLimits == Cardinality(Busy) <= MaxWorkers /\ Cardinality(Live) <= MaxThreads

(* A task between start() and the end of Tell is in exactly one place: at  *)
(* one position of the queue or in the hands of one thread.  No other task *)
(* is in any of them, so no thread touches a task_t that was freed and no  *)
(* task is executed twice.                                                 *)
OnePlace ==
  /\ \A t \in Tasks : (stage[t] = "started") <=>
                        (Queued(t) \/ \E th \in Threads : Holds(th, t))
  /\ \A i, j \in DOMAIN queue : queue[i] = queue[j] => i = j
  /\ \A th \in Threads, t \in Tasks :
       Holds(th, t) => /\ ~Queued(t)
                       /\ \A other \in Threads : Holds(other, t) => other = th

(* start() may leave a task to threads that exist already, and a thread    *)
(* may quit while the queue is not empty; still, as long as a task is      *)
(* queued, some thread is left that will look at the queue again.          *)
NothingStranded == queue # <<>> => Live # {}

(* A task is passed in the queue only when it is a worker held back by the *)
(* limit, and never by another worker.                                     *)
OvertakenOnlyAtLimit ==
  [][\A i, j \in DOMAIN queue :
       (i < j /\ queue[i] \in Range(queue') /\ queue[j] \notin Range(queue'))
         => /\ worker[queue[i]] /\ ~worker[queue[j]]
            /\ active_workers = MaxWorkers]_vars

(* Every task that is started is executed, and its owner is told or the    *)
(* task is freed.                                                          *)
EveryTaskServed == \A t \in Tasks : stage[t] = "started" ~> stage[t] # "started"

(* The task manager implements the service its users rely on.  A started   *)
(* task is pending while it is queued, running while a thread executes it, *)
(* and has returned when the thread has yet to tell.                       *)
Executed(t) == \E th \in Threads : pc[th] = "run" /\ task[th] = t

LifeOf(t) == IF stage[t] # "started" THEN stage[t]
             ELSE IF Queued(t) THEN "pending"
             ELSE IF Executed(t) THEN "running"
             ELSE "returned"

Service == INSTANCE TaskService WITH life <- [t \in Tasks |-> LifeOf(t)]

ImplementsService == Service!SSpec

(* The comment at the top of task.c says that MAX_ACTIVE_THREADS can be    *)
(* running in total, that only workers are limited further, and that tasks *)
(* which are mostly waiting can be doing their waiting beside them.  So a  *)
(* queued task that is not a worker, with the limit of threads not         *)
(* reached, has a thread that comes for it without first waiting for some  *)
(* other task.                                                             *)
WaitingTasksUndisturbed ==
  (active_threads < MaxThreads /\ \E i \in DOMAIN queue : ~worker[queue[i]])
    => \E th \in Threads : pc[th] \in {"look", "tell"}

=============================================================================
