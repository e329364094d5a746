---------------------------- MODULE TaskService ----------------------------
(***************************************************************************)
(* What the task manager of musicd (task.h) promises to the code that      *)
(* uses it, without threads, queue or mutex.  A task is created, handed    *)
(* over once, executed once, and is then either announced through its      *)
(* pipe (task_start) or reclaimed on the spot (task_launch).  At most      *)
(* MaxWorkers of the tasks being executed are workers.                     *)
(*                                                                         *)
(* TaskPool implements this specification; EventLoop is a client of it.    *)
(***************************************************************************)
EXTENDS Naturals, FiniteSets

CONSTANTS Tasks,       \* task_t objects
          MaxWorkers   \* MAX_ACTIVE_WORKERS

VARIABLES life,        \* life[t]: where the task is in its life
          worker,      \* task->worker: is this a CPU intensive task
          detached     \* task->detached: handed over with task_launch

svars == <<life, worker, detached>>

(***************************************************************************)
(* "free"      no such object                                              *)
(* "new"       allocated by task_new, not handed over yet                  *)
(* "pending"   handed over, not being executed yet                         *)
(* "running"   its function is being executed                              *)
(* "returned"  its function is done, and nobody has been told              *)
(* "signalled" the byte is in its pipe                                     *)
(***************************************************************************)
Life == {"free", "new", "pending", "running", "returned", "signalled"}

RunningWorkers == {t \in Tasks : life[t] = "running" /\ worker[t]}

SInit == /\ life = [t \in Tasks |-> "free"]
         /\ worker = [t \in Tasks |-> FALSE]
         /\ detached = [t \in Tasks |-> FALSE]

Move(t, from, to) == /\ life[t] = from
                     /\ life' = [life EXCEPT ![t] = to]

(* task_new, and the caller that fills in func, data and worker.           *)
Create(t, w) == /\ Move(t, "free", "new")
                /\ worker' = [worker EXCEPT ![t] = w]
                /\ detached' = [detached EXCEPT ![t] = FALSE]

(* task_start (d = FALSE) and task_launch (d = TRUE).                      *)
HandOver(t, d) == /\ Move(t, "new", "pending")
                  /\ detached' = [detached EXCEPT ![t] = d]
                  /\ UNCHANGED worker

Begin(t) == /\ Move(t, "pending", "running")
            /\ worker[t] => Cardinality(RunningWorkers) < MaxWorkers
            /\ UNCHANGED <<worker, detached>>

Return(t) == /\ Move(t, "running", "returned")
             /\ UNCHANGED <<worker, detached>>

Announce(t) == /\ Move(t, "returned", IF detached[t] THEN "free" ELSE "signalled")
               /\ UNCHANGED <<worker, detached>>

(* task_free by the owner, who must have seen the byte in the pipe.        *)
Reclaim(t) == /\ Move(t, "signalled", "free")
              /\ UNCHANGED <<worker, detached>>

(* What the task manager does by itself, and what its users do.            *)
Served(t) == Begin(t) \/ Return(t) \/ Announce(t)

SNext == \E t \in Tasks : \/ \E w \in BOOLEAN : Create(t, w)
                          \/ \E d \in BOOLEAN : HandOver(t, d)
                          \/ Served(t)
                          \/ Reclaim(t)

SSpec == SInit /\ [][SNext]_svars

=============================================================================
