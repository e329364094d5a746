--------------------------- MODULE TaskPoolProofs ---------------------------
(***************************************************************************)
(* Theorems about the task manager, for every set of tasks, every finite   *)
(* set of threads and every value of the two limits.                       *)
(***************************************************************************)
EXTENDS TaskPool, SequenceLemmas, FiniteSetTheorems, SequenceTheorems, TLAPS

-----------------------------------------------------------------------------
(* Types.                                                                  *)

(* A thread that executes a task or has yet to tell of it has a task.      *)
HandsFull == \A th \in Threads : pc[th] \in {"run", "tell"} => task[th] \in Tasks

TypeInv == TypeOK /\ HandsFull

(* The type invariant holds initially and is kept by every step but for    *)
(* the counters staying above zero, which needs them to be exact; so here  *)
(* they are only shown to be integers.                                     *)
TypeOKInt ==
  /\ queue \in Seq(Tasks)
  /\ active_workers \in Int
  /\ active_threads \in Int
  /\ pc \in [Threads -> Where]
  /\ task \in [Threads -> Tasks \cup {NoTask}]
  /\ stage \in [Tasks -> Stage]
  /\ worker \in [Tasks -> BOOLEAN]
  /\ detached \in [Tasks -> BOOLEAN]
  /\ HandsFull

LEMMA TypeStep == TypeOKInt /\ [Next]_vars => TypeOKInt'
<1> SUFFICES ASSUME TypeOKInt, [Next]_vars PROVE TypeOKInt'
  OBVIOUS
<1> USE DEF TypeOKInt, HandsFull, Where, Stage
<1>1. ASSUME NEW t \in Tasks, NEW w \in BOOLEAN, TaskNew(t, w) PROVE TypeOKInt'
  BY <1>1 DEF TaskNew
<1>2. ASSUME NEW t \in Tasks, NEW d \in BOOLEAN, StartTask(t, d) PROVE TypeOKInt'
  <2>1. queue' \in Seq(Tasks)
    BY <1>2 DEF StartTask
  <2>2. CASE MaySpawn
    BY <1>2, <2>1, <2>2 DEF StartTask, Spawn
  <2>3. CASE ~MaySpawn
    BY <1>2, <2>1, <2>3 DEF StartTask
  <2>4. QED
    BY <2>2, <2>3
<1>3. ASSUME NEW t \in Tasks, TaskFree(t) PROVE TypeOKInt'
  BY <1>3 DEF TaskFree
<1>4. ASSUME NEW th \in Threads, Pick(th) PROVE TypeOKInt'
  <2>1. PICK i \in DOMAIN queue :
          /\ task' = [task EXCEPT ![th] = queue[i]]
          /\ queue' = RemoveAt(queue, i)
          /\ active_workers' = active_workers + (IF worker[queue[i]] THEN 1 ELSE 0)
    BY <1>4 DEF Pick
  <2>2. i \in 1 .. Len(queue) /\ queue[i] \in Tasks
    BY <2>1
  <2>3. queue' \in Seq(Tasks)
    BY <2>1, <2>2, RemoveAtElements
  <2>4. active_workers' \in Int
    BY <2>1, <2>2
  <2>5. QED
    BY <1>4, <2>1, <2>2, <2>3, <2>4 DEF Pick
<1>5. ASSUME NEW th \in Threads, Quit(th) PROVE TypeOKInt'
  BY <1>5 DEF Quit
<1>6. ASSUME NEW th \in Threads, Finish(th) PROVE TypeOKInt'
  BY <1>6 DEF Finish
<1>7. ASSUME NEW th \in Threads, Tell(th) PROVE TypeOKInt'
  BY <1>7 DEF Tell
<1>8. CASE UNCHANGED vars
  BY <1>8 DEF vars
<1>9. QED
  BY <1>1, <1>2, <1>3, <1>4, <1>5, <1>6, <1>7, <1>8 DEF Next, Owner, ThreadStep

-----------------------------------------------------------------------------
(* A started task is in exactly one place.                                 *)

(* What start() does to the queue: task t is in it too, at the end.        *)
LEMMA AppendFacts ==
  ASSUME queue \in Seq(Tasks), NEW t \in Tasks, queue' = Append(queue, t)
  PROVE  /\ DOMAIN queue' = 1 .. Len(queue) + 1
         /\ \A i \in DOMAIN queue : queue'[i] = queue[i]
         /\ queue'[Len(queue) + 1] = t
         /\ DOMAIN queue = 1 .. Len(queue) /\ Len(queue) \in Nat
         /\ \A u \in Tasks : Queued(u)' <=> (Queued(u) \/ u = t)
<1>1. /\ DOMAIN queue' = 1 .. Len(queue) + 1
      /\ \A i \in DOMAIN queue : queue'[i] = queue[i]
      /\ queue'[Len(queue) + 1] = t
      /\ DOMAIN queue = 1 .. Len(queue) /\ Len(queue) \in Nat
  OBVIOUS
<1>2. ASSUME NEW u \in Tasks PROVE Queued(u)' <=> (Queued(u) \/ u = t)
  BY <1>1 DEF Queued
<1>3. QED
  BY <1>1, <1>2

(* Thread th has unlinked task t: it holds t, and the queue holds the      *)
(* tasks it held before but t.                                             *)
PickedFrom(th, t) ==
  /\ pc[th] = "look" /\ pc' = [pc EXCEPT ![th] = "run"]
  /\ task' = [task EXCEPT ![th] = t]
  /\ UNCHANGED <<active_threads, stage, worker, detached>>
  /\ Queued(t) /\ Eligible(t)
  /\ \A u \in Tasks : Queued(u)' <=> (Queued(u) /\ u # t)
  /\ \A i, j \in DOMAIN queue' : queue'[i] = queue'[j] => i = j

LEMMA PickFacts ==
  ASSUME queue \in Seq(Tasks), OnePlace, NEW th \in Threads, Pick(th)
  PROVE  \E t \in Tasks : PickedFrom(th, t)
<1> USE DEF Queued
<1>1. PICK i \in DOMAIN queue : /\ FirstEligible(i)
                                /\ task' = [task EXCEPT ![th] = queue[i]]
                                /\ queue' = RemoveAt(queue, i)
  BY DEF Pick
<1>2. /\ DOMAIN queue = 1 .. Len(queue) /\ Len(queue) \in Nat
      /\ i \in 1 .. Len(queue)
  OBVIOUS
<1>3. /\ queue' \in Seq(Tasks) /\ Len(queue') = Len(queue) - 1
      /\ \A j \in 1 .. Len(queue) - 1 :
           queue'[j] = IF j < i THEN queue[j] ELSE queue[j + 1]
  BY <1>1, <1>2, RemoveAtElements
<1>4. DOMAIN queue' = 1 .. Len(queue) - 1
  BY <1>3
<1>5. PICK t \in Tasks : t = queue[i]
  BY <1>2
<1>6. \A j, k \in 1 .. Len(queue) : queue[j] = queue[k] => j = k
  BY <1>2 DEF OnePlace
<1>7. ASSUME NEW u \in Tasks, Queued(u)' PROVE Queued(u) /\ u # t
  <2>1. PICK j \in 1 .. Len(queue) - 1 : queue'[j] = u
    BY <1>4, <1>7
  <2>2. CASE j < i
    BY <2>1, <2>2, <1>2, <1>3, <1>5, <1>6
  <2>3. CASE ~(j < i)
    BY <2>1, <2>3, <1>2, <1>3, <1>5, <1>6
  <2>4. QED
    BY <2>2, <2>3
<1>8. ASSUME NEW u \in Tasks, Queued(u), u # t PROVE Queued(u)'
  <2>1. PICK j \in 1 .. Len(queue) : queue[j] = u /\ j # i
    BY <1>2, <1>5, <1>8
  <2>2. CASE j < i
    <3>1. j \in 1 .. Len(queue) - 1 /\ queue'[j] = u
      BY <2>1, <2>2, <1>2, <1>3
    <3>2. QED
      BY <3>1, <1>4
  <2>3. CASE j > i
    <3>1. j - 1 \in 1 .. Len(queue) - 1 /\ queue'[j - 1] = u
      BY <2>1, <2>3, <1>2, <1>3
    <3>2. QED
      BY <3>1, <1>4
  <2>4. QED
    BY <2>1, <2>2, <2>3, <1>2
<1>9. ASSUME NEW j \in 1 .. Len(queue) - 1, NEW k \in 1 .. Len(queue) - 1,
             queue'[j] = queue'[k]
      PROVE  j = k
  <2> DEFINE jj == IF j < i THEN j ELSE j + 1
             kk == IF k < i THEN k ELSE k + 1
  <2>1. jj \in 1 .. Len(queue) /\ kk \in 1 .. Len(queue) /\ queue[jj] = queue[kk]
    BY <1>2, <1>3, <1>9
  <2>2. jj = kk
    BY <1>6, <2>1
  <2>3. QED
    BY <1>2, <2>2
<1>10. Queued(t) /\ Eligible(t)
  BY <1>1, <1>2, <1>5 DEF FirstEligible
<1> HIDE DEF Queued
<1>11. PickedFrom(th, t)
  BY <1>1, <1>4, <1>5, <1>7, <1>8, <1>9, <1>10 DEF PickedFrom, Pick
<1>12. QED
  BY <1>11

LEMMA OnePlaceStep == TypeOKInt /\ OnePlace /\ [Next]_vars => OnePlace'
<1> SUFFICES ASSUME TypeOKInt, OnePlace, [Next]_vars PROVE OnePlace'
  OBVIOUS
<1> USE DEF TypeOKInt, HandsFull, Holds, Queued
<1>1. ASSUME NEW t \in Tasks, NEW w \in BOOLEAN, TaskNew(t, w) PROVE OnePlace'
  BY <1>1 DEF TaskNew, OnePlace
<1>2. ASSUME NEW t \in Tasks, NEW d \in BOOLEAN, StartTask(t, d) PROVE OnePlace'
  <2>1. /\ stage[t] = "new"
        /\ stage' = [stage EXCEPT ![t] = "started"]
        /\ UNCHANGED task
    BY <1>2 DEF StartTask
  <2>2. /\ DOMAIN queue' = 1 .. Len(queue) + 1
        /\ \A i \in DOMAIN queue : queue'[i] = queue[i]
        /\ queue'[Len(queue) + 1] = t
        /\ DOMAIN queue = 1 .. Len(queue) /\ Len(queue) \in Nat
    BY <1>2, AppendFacts DEF StartTask
  <2>3. \A th \in Threads, u \in Tasks : Holds(th, u)' <=> Holds(th, u)
    <3>1. \A th \in Threads : pc'[th] \in {"run", "tell"} <=> pc[th] \in {"run", "tell"}
      BY <1>2 DEF StartTask, Spawn
    <3>2. QED
      BY <2>1, <3>1
  <2>4. \A u \in Tasks : Queued(u)' <=> (Queued(u) \/ u = t)
    BY <1>2, AppendFacts DEF StartTask
  <2>5. ~Queued(t) /\ \A th \in Threads : ~Holds(th, t)
    BY <2>1 DEF OnePlace
  <2>6. \A u \in Tasks : (stage'[u] = "started")
                         <=> (Queued(u)' \/ \E th \in Threads : Holds(th, u)')
    <3>1. \A u \in Tasks : (stage'[u] = "started") <=> (stage[u] = "started" \/ u = t)
      BY <2>1
    <3> HIDE DEF Holds, Queued
    <3>2. QED
      BY <3>1, <2>3, <2>4 DEF OnePlace
  <2>7. \A i, j \in DOMAIN queue' : queue'[i] = queue'[j] => i = j
    BY <2>2, <2>5 DEF OnePlace
  <2>8. \A th \in Threads, u \in Tasks :
          Holds(th, u)' => /\ ~Queued(u)'
                           /\ \A other \in Threads : Holds(other, u)' => other = th
    <3> HIDE DEF Holds, Queued
    <3>1. QED
      BY <2>3, <2>4, <2>5 DEF OnePlace
  <2>9. QED
    BY <2>6, <2>7, <2>8 DEF OnePlace
<1>3. ASSUME NEW t \in Tasks, TaskFree(t) PROVE OnePlace'
  BY <1>3 DEF TaskFree, OnePlace
<1>4. ASSUME NEW th \in Threads, Pick(th) PROVE OnePlace'
  <2>1. PICK t \in Tasks : PickedFrom(th, t)
    BY <1>4, PickFacts DEF TypeOKInt
  <2>2. \A u \in Tasks : (stage'[u] = "started") <=> (stage[u] = "started")
    BY <2>1 DEF PickedFrom
  <2>3. \A other \in Threads, u \in Tasks :
          Holds(other, u)' <=> IF other = th THEN u = t ELSE Holds(other, u)
    BY <2>1 DEF PickedFrom
  <2>4. \A u \in Tasks : ~Holds(th, u)
    BY <2>1 DEF PickedFrom
  <2>5. Queued(t) /\ \A u \in Tasks : Queued(u)' <=> (Queued(u) /\ u # t)
    BY <2>1 DEF PickedFrom
  <2>6. \A i, j \in DOMAIN queue' : queue'[i] = queue'[j] => i = j
    BY <2>1 DEF PickedFrom
  <2> HIDE DEF Holds, Queued
  <2>7. \A other \in Threads : ~Holds(other, t)
    BY <2>5 DEF OnePlace
  <2>8. \A u \in Tasks : (stage'[u] = "started")
                         <=> (Queued(u)' \/ \E other \in Threads : Holds(other, u)')
    <3>1. \A u \in Tasks : (\E other \in Threads : Holds(other, u)')
                           <=> (u = t \/ \E other \in Threads : Holds(other, u))
      BY <2>3, <2>4, <2>7
    <3>2. QED
      BY <2>2, <2>5, <3>1 DEF OnePlace
  <2>9. \A other \in Threads, u \in Tasks :
          Holds(other, u)' => /\ ~Queued(u)'
                              /\ \A third \in Threads : Holds(third, u)' => third = other
    BY <2>3, <2>5, <2>7 DEF OnePlace
  <2>10. QED
    BY <2>6, <2>8, <2>9 DEF OnePlace
<1>5. ASSUME NEW th \in Threads, Quit(th) PROVE OnePlace'
  <2>1. \A other \in Threads, u \in Tasks : Holds(other, u)' <=> Holds(other, u)
    BY <1>5 DEF Quit
  <2>2. UNCHANGED <<queue, stage>>
    BY <1>5 DEF Quit
  <2>3. QED
    BY <2>1, <2>2 DEF OnePlace
<1>6. ASSUME NEW th \in Threads, Finish(th) PROVE OnePlace'
  <2>1. \A other \in Threads, u \in Tasks : Holds(other, u)' <=> Holds(other, u)
    BY <1>6 DEF Finish
  <2>2. UNCHANGED <<queue, stage>>
    BY <1>6 DEF Finish
  <2>3. QED
    BY <2>1, <2>2 DEF OnePlace
<1>7. ASSUME NEW th \in Threads, Tell(th) PROVE OnePlace'
  <2>1. /\ task[th] \in Tasks
        /\ Holds(th, task[th])
        /\ UNCHANGED queue
        /\ \A u \in Tasks : (stage'[u] = "started")
                            <=> (stage[u] = "started" /\ u # task[th])
    BY <1>7 DEF Tell
  <2>2. \A other \in Threads, u \in Tasks :
          Holds(other, u)' <=> (Holds(other, u) /\ other # th)
    BY <1>7 DEF Tell
  <2>3. \A u \in Tasks : Queued(u)' <=> Queued(u)
    BY <2>1
  <2>4. \A u \in Tasks : Holds(th, u) => u = task[th]
    OBVIOUS
  <2>5. QED
    <3> HIDE DEF Holds, Queued
    <3>1. QED
      BY <2>1, <2>2, <2>3, <2>4 DEF OnePlace
<1>8. CASE UNCHANGED vars
  BY <1>8 DEF vars, OnePlace
<1>9. QED
  BY <1>1, <1>2, <1>3, <1>4, <1>5, <1>6, <1>7, <1>8 DEF Next, Owner, ThreadStep

-----------------------------------------------------------------------------
(* The counters.                                                           *)

LEMMA ThreadSetsFinite ==
  /\ IsFiniteSet(Live) /\ Cardinality(Live) \in Nat
  /\ IsFiniteSet(Busy) /\ Cardinality(Busy) \in Nat
<1>1. Live \in SUBSET Threads /\ Busy \in SUBSET Threads
  BY DEF Live, Busy
<1>2. IsFiniteSet(Live) /\ IsFiniteSet(Busy)
  BY <1>1, FS_Subset, PoolAssumption
<1>3. QED
  BY <1>2, FS_CardinalityType

LEMMA CountersStep ==
  TypeOKInt /\ OnePlace /\ CountersExact /\ [Next]_vars => CountersExact'
<1> SUFFICES ASSUME TypeOKInt, OnePlace, CountersExact, [Next]_vars
             PROVE  CountersExact'
  OBVIOUS
<1> USE DEF TypeOKInt, HandsFull
<1>0. /\ active_workers = Cardinality(Busy) /\ active_threads = Cardinality(Live)
      /\ IsFiniteSet(Live) /\ IsFiniteSet(Busy)
      /\ Cardinality(Live) \in Nat /\ Cardinality(Busy) \in Nat
  BY ThreadSetsFinite DEF CountersExact
<1>1. ASSUME NEW t \in Tasks, NEW w \in BOOLEAN, TaskNew(t, w) PROVE CountersExact'
  <2>1. \A th \in Threads : pc[th] = "run" => task[th] \in Tasks /\ task[th] # t
    BY <1>1 DEF TaskNew, OnePlace, Holds
  <2>2. Busy' = Busy /\ Live' = Live
    BY <1>1, <2>1 DEF TaskNew, Busy, Live
  <2>3. QED
    BY <1>0, <1>1, <2>2 DEF TaskNew, CountersExact
<1>2. ASSUME NEW t \in Tasks, NEW d \in BOOLEAN, StartTask(t, d) PROVE CountersExact'
  <2>1. CASE MaySpawn
    <3>1. PICK th \in Threads : /\ pc[th] = "none"
                                /\ pc' = [pc EXCEPT ![th] = "look"]
      BY <1>2, <2>1 DEF StartTask, Spawn
    <3>2. active_threads' = active_threads + 1 /\ active_workers' = active_workers
      BY <1>2, <2>1 DEF StartTask, Spawn
    <3>3. Live' = Live \cup {th} /\ th \notin Live
      BY <3>1 DEF Live
    <3>4. Busy' = Busy
      BY <1>2, <3>1 DEF Busy, StartTask
    <3>5. Cardinality(Live') = Cardinality(Live) + 1
      BY <3>3, <1>0, FS_AddElement
    <3>6. QED
      BY <1>0, <3>2, <3>4, <3>5 DEF CountersExact
  <2>2. CASE ~MaySpawn
    <3>1. Busy' = Busy /\ Live' = Live
      BY <1>2, <2>2 DEF StartTask, Busy, Live
    <3>2. QED
      BY <1>0, <1>2, <2>2, <3>1 DEF StartTask, CountersExact
  <2>3. QED
    BY <2>1, <2>2
<1>3. ASSUME NEW t \in Tasks, TaskFree(t) PROVE CountersExact'
  BY <1>0, <1>3 DEF TaskFree, CountersExact, Busy, Live
<1>4. ASSUME NEW th \in Threads, Pick(th) PROVE CountersExact'
  <2>1. PICK i \in DOMAIN queue :
          /\ task' = [task EXCEPT ![th] = queue[i]]
          /\ active_workers' = active_workers + (IF worker[queue[i]] THEN 1 ELSE 0)
    BY <1>4 DEF Pick
  <2>2. /\ pc[th] = "look" /\ pc' = [pc EXCEPT ![th] = "run"]
        /\ UNCHANGED <<active_threads, worker>>
    BY <1>4 DEF Pick
  <2>3. queue[i] \in Tasks
    BY <2>1
  <2>4. Live' = Live
    BY <2>2 DEF Live
  <2>5. th \notin Busy /\ Busy' = IF worker[queue[i]] THEN Busy \cup {th} ELSE Busy
    BY <2>1, <2>2, <2>3 DEF Busy
  <2>6. Cardinality(Busy') = Cardinality(Busy) + (IF worker[queue[i]] THEN 1 ELSE 0)
    <3>1. CASE worker[queue[i]]
      <4>1. Cardinality(Busy') = Cardinality(Busy) + 1
        BY <2>5, <3>1, <1>0, FS_AddElement
      <4>2. QED
        BY <3>1, <4>1
    <3>2. CASE ~worker[queue[i]]
      BY <2>5, <3>2, <1>0
    <3>3. QED
      BY <3>1, <3>2
  <2>7. QED
    BY <1>0, <2>1, <2>2, <2>4, <2>6 DEF CountersExact
<1>5. ASSUME NEW th \in Threads, Quit(th) PROVE CountersExact'
  <2>1. Live' = Live \ {th} /\ th \in Live /\ Busy' = Busy
    BY <1>5 DEF Quit, Live, Busy
  <2>2. Cardinality(Live') = Cardinality(Live) - 1
    BY <2>1, <1>0, FS_RemoveElement
  <2>3. QED
    BY <1>0, <1>5, <2>1, <2>2 DEF Quit, CountersExact
<1>6. ASSUME NEW th \in Threads, Finish(th) PROVE CountersExact'
  <2>1. /\ Live' = Live
        /\ Busy' = Busy \ {th}
        /\ (th \in Busy) <=> worker[task[th]]
    BY <1>6 DEF Finish, Live, Busy
  <2>2. Cardinality(Busy') = Cardinality(Busy) - (IF worker[task[th]] THEN 1 ELSE 0)
    <3>1. CASE worker[task[th]]
      <4>1. Cardinality(Busy') = Cardinality(Busy) - 1
        BY <2>1, <3>1, <1>0, FS_RemoveElement
      <4>2. QED
        BY <3>1, <4>1
    <3>2. CASE ~worker[task[th]]
      <4>1. Busy' = Busy
        BY <2>1, <3>2
      <4>2. QED
        BY <3>2, <4>1, <1>0
    <3>3. QED
      BY <3>1, <3>2
  <2>3. QED
    BY <1>0, <1>6, <2>1, <2>2 DEF Finish, CountersExact
<1>7. ASSUME NEW th \in Threads, Tell(th) PROVE CountersExact'
  <2>1. Live' = Live /\ Busy' = Busy
    BY <1>7 DEF Tell, Live, Busy
  <2>2. QED
    BY <1>0, <1>7, <2>1 DEF Tell, CountersExact
<1>8. CASE UNCHANGED vars
  BY <1>0, <1>8 DEF vars, CountersExact, Busy, Live
<1>9. QED
  BY <1>1, <1>2, <1>3, <1>4, <1>5, <1>6, <1>7, <1>8 DEF Next, Owner, ThreadStep

-----------------------------------------------------------------------------
(* The limits, and a queue that is never left alone.                       *)

CountsBounded == active_workers <= MaxWorkers /\ active_threads <= MaxThreads

(* The inductive invariant.  CountersExact needs OnePlace (a fresh task_t  *)
(* must not change what a running thread is counted as), and               *)
(* NothingStranded needs CountersExact: when start() creates no thread     *)
(* because the limit of workers is reached, it is the threads counted in   *)
(* active_workers that come back to the queue.                             *)
IInv == TypeOKInt /\ OnePlace /\ CountersExact /\ CountsBounded /\ NothingStranded

LEMMA BoundedStep == TypeOKInt /\ CountersExact /\ CountsBounded /\ [Next]_vars
                       => CountsBounded'
<1> SUFFICES ASSUME TypeOKInt, CountersExact, CountsBounded, [Next]_vars
             PROVE  CountsBounded'
  OBVIOUS
<1> USE PoolAssumption DEF TypeOKInt, CountsBounded
<1>1. ASSUME NEW t \in Tasks, NEW d \in BOOLEAN, StartTask(t, d) PROVE CountsBounded'
  BY <1>1 DEF StartTask, MaySpawn, Spawn
<1>2. ASSUME NEW th \in Threads, Pick(th) PROVE CountsBounded'
  <2>1. PICK i \in DOMAIN queue :
          /\ Eligible(queue[i])
          /\ active_workers' = active_workers + (IF worker[queue[i]] THEN 1 ELSE 0)
    BY <1>2 DEF Pick, FirstEligible
  <2>2. active_threads' = active_threads /\ queue[i] \in Tasks
    BY <1>2, <2>1 DEF Pick
  <2>3. CASE worker[queue[i]]
    BY <2>1, <2>2, <2>3 DEF Eligible
  <2>4. CASE ~worker[queue[i]]
    BY <2>1, <2>2, <2>4
  <2>5. QED
    BY <2>3, <2>4
<1>3. ASSUME NEW th \in Threads, Quit(th) PROVE CountsBounded'
  BY <1>3 DEF Quit
<1>4. ASSUME NEW th \in Threads, Finish(th) PROVE CountsBounded'
  <2>1. CASE worker[task[th]]
    BY <1>4, <2>1 DEF Finish
  <2>2. CASE ~worker[task[th]]
    BY <1>4, <2>2 DEF Finish
  <2>3. QED
    BY <2>1, <2>2
<1>5. ASSUME UNCHANGED <<active_workers, active_threads>> PROVE CountsBounded'
  BY <1>5
<1>6. QED
  BY <1>1, <1>2, <1>3, <1>4, <1>5
     DEF Next, Owner, ThreadStep, TaskNew, TaskFree, Tell, vars

LEMMA StrandedStep == IInv /\ [Next]_vars => NothingStranded'
<1> SUFFICES ASSUME IInv, [Next]_vars PROVE NothingStranded'
  OBVIOUS
<1> USE DEF IInv, TypeOKInt, HandsFull, Live
<1>1. ASSUME NEW t \in Tasks, NEW d \in BOOLEAN, StartTask(t, d) PROVE NothingStranded'
  <2>1. CASE MaySpawn
    BY <1>1, <2>1 DEF StartTask, Spawn, NothingStranded
  <2>2. CASE ~MaySpawn
    <3>1. active_threads >= MaxThreads \/ active_workers >= MaxWorkers
      BY <2>2, PoolAssumption DEF MaySpawn
    <3>2. Cardinality(Live) # 0 \/ Cardinality(Busy) # 0
      BY <3>1, PoolAssumption DEF CountersExact
    <3>3. Live # {} \/ Busy # {}
      BY <3>2, FS_EmptySet
    <3>4. Live # {}
      BY <3>3 DEF Busy
    <3>5. QED
      BY <1>1, <2>2, <3>4 DEF StartTask, NothingStranded
  <2>3. QED
    BY <2>1, <2>2
<1>2. ASSUME NEW th \in Threads, Pick(th) PROVE NothingStranded'
  BY <1>2 DEF Pick, NothingStranded
<1>3. ASSUME NEW th \in Threads, Quit(th) PROVE NothingStranded'
  <2>1. SUFFICES ASSUME queue # <<>> PROVE Live' # {}
    BY <1>3 DEF Quit, NothingStranded
  <2>2. 1 \in DOMAIN queue
    BY <2>1
  <2>3. active_workers >= MaxWorkers
    BY <1>3, <2>2, PoolAssumption DEF Quit, Eligible, CountsBounded
  <2>4. Cardinality(Busy) # 0
    BY <2>3, PoolAssumption DEF CountersExact
  <2>5. PICK other \in Threads : other \in Busy
    BY <2>4, FS_EmptySet DEF Busy
  <2>6. pc[other] = "run" /\ pc'[other] = "run"
    BY <1>3, <2>5 DEF Busy, Quit
  <2>7. QED
    BY <2>6
<1>4. ASSUME NEW th \in Threads, Finish(th) PROVE NothingStranded'
  BY <1>4 DEF Finish, NothingStranded
<1>5. ASSUME NEW th \in Threads, Tell(th) PROVE NothingStranded'
  BY <1>5 DEF Tell, NothingStranded
<1>6. ASSUME UNCHANGED <<queue, pc>> PROVE NothingStranded'
  BY <1>6 DEF NothingStranded
<1>7. QED
  BY <1>1, <1>2, <1>3, <1>4, <1>5, <1>6
     DEF Next, Owner, ThreadStep, TaskNew, TaskFree, vars

LEMMA InitIInv == Init => IInv
<1> SUFFICES ASSUME Init PROVE IInv
  OBVIOUS
<1>1. TypeOKInt
  BY DEF Init, TypeOKInt, HandsFull, Where, Stage
<1>2. OnePlace
  BY DEF Init, OnePlace, Queued, Holds
<1>3. Busy = {} /\ Live = {}
  BY DEF Init, Busy, Live
<1>4. CountersExact
  BY <1>3, FS_EmptySet DEF Init, CountersExact
<1>5. CountsBounded
  BY PoolAssumption DEF Init, CountsBounded
<1>6. NothingStranded
  BY DEF Init, NothingStranded
<1>7. QED
  BY <1>1, <1>2, <1>4, <1>5, <1>6 DEF IInv

LEMMA NextIInv == IInv /\ [Next]_vars => IInv'
BY TypeStep, OnePlaceStep, CountersStep, BoundedStep, StrandedStep DEF IInv

LEMMA AlwaysIInv == Spec => []IInv
<1>1. QED
  BY InitIInv, NextIInv, PTL DEF Spec

-----------------------------------------------------------------------------
(* The theorems.                                                           *)

(* Every variable of task.c keeps its type; that the counters never become *)
(* negative is because they are exact.                                     *)
THEOREM TypesKept == Spec => []TypeOK
<1>1. IInv => TypeOK
  BY ThreadSetsFinite DEF IInv, TypeOKInt, TypeOK, CountersExact
<1>2. QED
  BY <1>1, AlwaysIInv, PTL

(* active_workers and active_threads count what the threads do, however    *)
(* starts, picks, ends and frees interleave.                               *)
THEOREM CountersAlwaysExact == Spec => []CountersExact
<1>1. IInv => CountersExact
  BY DEF IInv
<1>2. QED
  BY <1>1, AlwaysIInv, PTL

(* MAX_ACTIVE_THREADS and MAX_ACTIVE_WORKERS are never exceeded.           *)
THEOREM LimitsKept == Spec => []WithinLimits
<1>1. IInv => WithinLimits
  BY DEF IInv, CountersExact, CountsBounded, WithinLimits
<1>2. QED
  BY <1>1, AlwaysIInv, PTL

(* No task_t is executed twice, used after it was freed, or lost between   *)
(* the queue and a thread.                                                 *)
THEOREM TasksInOnePlace == Spec => []OnePlace
<1>1. IInv => OnePlace
  BY DEF IInv
<1>2. QED
  BY <1>1, AlwaysIInv, PTL

(* A queued task always has a living thread that will come back for it.    *)
THEOREM NoTaskStranded == Spec => []NothingStranded
<1>1. IInv => NothingStranded
  BY DEF IInv
<1>2. QED
  BY <1>1, AlwaysIInv, PTL

(* A task is passed in the queue only by a task that is not a worker, only *)
(* if it is a worker itself, and only while MAX_ACTIVE_WORKERS run.        *)
THEOREM NoUnfairOvertaking == Spec => OvertakenOnlyAtLimit
<1> DEFINE A == \A i, j \in DOMAIN queue :
                  (i < j /\ queue[i] \in Range(queue') /\ queue[j] \notin Range(queue'))
                    => /\ worker[queue[i]] /\ ~worker[queue[j]]
                       /\ active_workers = MaxWorkers
<1>1. ASSUME IInv, [Next]_vars PROVE A
  <2> USE <1>1 DEF IInv, TypeOKInt
  <2> SUFFICES ASSUME NEW i \in DOMAIN queue, NEW j \in DOMAIN queue, i < j,
                      queue[j] \notin Range(queue')
               PROVE  /\ worker[queue[i]] /\ ~worker[queue[j]]
                      /\ active_workers = MaxWorkers
    OBVIOUS
  <2>1. queue' # queue
    BY DEF Range
  <2>2. ASSUME NEW t \in Tasks, NEW d \in BOOLEAN, StartTask(t, d) PROVE FALSE
    <3>1. j \in DOMAIN queue' /\ queue'[j] = queue[j]
      BY <2>2 DEF StartTask
    <3>2. QED
      BY <3>1 DEF Range
  <2>3. ASSUME NEW th \in Threads, Pick(th)
        PROVE  /\ worker[queue[i]] /\ ~worker[queue[j]]
               /\ active_workers = MaxWorkers
    <3>1. PICK k \in DOMAIN queue : FirstEligible(k) /\ queue' = RemoveAt(queue, k)
      BY <2>3 DEF Pick
    <3>2. /\ i \in 1 .. Len(queue) /\ j \in 1 .. Len(queue) /\ k \in 1 .. Len(queue)
          /\ Len(queue) \in Nat
      OBVIOUS
    <3>3. /\ queue' \in Seq(Tasks) /\ Len(queue') = Len(queue) - 1
          /\ \A m \in 1 .. Len(queue) - 1 :
               queue'[m] = IF m < k THEN queue[m] ELSE queue[m + 1]
      BY <3>1, <3>2, RemoveAtElements
    <3>4. j = k
      <4>1. CASE j < k
        <5>1. j \in DOMAIN queue' /\ queue'[j] = queue[j]
          BY <3>2, <3>3, <4>1
        <5>2. QED
          BY <5>1 DEF Range
      <4>2. CASE j > k
        <5>1. j - 1 \in DOMAIN queue' /\ queue'[j - 1] = queue[j]
          BY <3>2, <3>3, <4>2
        <5>2. QED
          BY <5>1 DEF Range
      <4>3. QED
        BY <4>1, <4>2, <3>2
    <3>5. ~Eligible(queue[i]) /\ Eligible(queue[j])
      BY <3>1, <3>2, <3>4 DEF FirstEligible
    <3>6. worker[queue[i]] /\ ~(active_workers < MaxWorkers)
      BY <3>5 DEF Eligible
    <3>7. ~worker[queue[j]]
      BY <3>5, <3>6 DEF Eligible
    <3>8. active_workers = MaxWorkers
      BY <3>6, PoolAssumption DEF CountsBounded
    <3>9. QED
      BY <3>6, <3>7, <3>8
  <2>4. QED
    BY <2>1, <2>2, <2>3
       DEF Next, Owner, ThreadStep, TaskNew, TaskFree, Quit, Finish, Tell, vars
<1>2. QED
  BY <1>1, AlwaysIInv, PTL DEF Spec, OvertakenOnlyAtLimit

-----------------------------------------------------------------------------
(* The task manager implements the service its users rely on.              *)

(* Each thread executes one task, so there are as many tasks of running    *)
(* workers as there are busy threads.                                      *)
LEMMA RunningWorkersCounted ==
  IInv => /\ Cardinality(Service!RunningWorkers) \in Nat
          /\ Cardinality(Service!RunningWorkers) <= active_workers
<1> SUFFICES ASSUME IInv
             PROVE  /\ Cardinality(Service!RunningWorkers) \in Nat
                    /\ Cardinality(Service!RunningWorkers) <= active_workers
  OBVIOUS
<1> DEFINE f == [th \in Busy |-> task[th]]
<1>1. \A t \in Tasks : LifeOf(t) = "running" => Executed(t)
  BY DEF LifeOf, IInv, TypeOKInt, Stage
<1>2. \A t \in Tasks : Executed(t) => LifeOf(t) = "running"
  BY DEF LifeOf, Executed, IInv, OnePlace, Holds
<1>3. Service!RunningWorkers = {t \in Tasks : Executed(t) /\ worker[t]}
  BY <1>1, <1>2 DEF Service!RunningWorkers
<1>4. f \in Surjection(Busy, Service!RunningWorkers)
  BY <1>3 DEF Surjection, Busy, Executed, IInv, TypeOKInt, HandsFull
<1>5. QED
  BY <1>4, ThreadSetsFinite, FS_Surjection, FS_CardinalityType
     DEF IInv, CountersExact

(* The service counts with the same operator.                              *)
LEMMA SameCardinality == \A S : Service!Cardinality(S) = Cardinality(S)
BY DEF Service!Cardinality, Cardinality

LEMMA ServiceInit == Init => Service!SInit
BY DEF Init, Service!SInit, LifeOf

LEMMA ServiceStep ==
  IInv /\ IInv' /\ [Next]_vars => [Service!SNext]_(Service!svars)
<1> SUFFICES ASSUME IInv, IInv', [Next]_vars
             PROVE  [Service!SNext]_(Service!svars)
  OBVIOUS
<1> USE DEF IInv, TypeOKInt, HandsFull
<1> DEFINE Moved(t, to) == \A u \in Tasks : LifeOf(u)' = IF u = t THEN to ELSE LifeOf(u)
<1>m. ASSUME NEW t \in Tasks, NEW to, Moved(t, to)
      PROVE  Service!Move(t, LifeOf(t), to)
  BY <1>m DEF Service!Move
<1>n. ASSUME \A u \in Tasks : LifeOf(u)' = LifeOf(u), UNCHANGED <<worker, detached>>
      PROVE  UNCHANGED Service!svars
  BY <1>n DEF Service!svars
<1>1. ASSUME NEW t \in Tasks, NEW w \in BOOLEAN, TaskNew(t, w)
      PROVE  Service!SNext
  <2>1. LifeOf(t) = "free" /\ Moved(t, "new")
    BY <1>1 DEF TaskNew, LifeOf, Queued, Executed
  <2>2. Service!Create(t, w)
    BY <1>1, <1>m, <2>1 DEF TaskNew, Service!Create
  <2>3. QED
    BY <2>2 DEF Service!SNext
<1>2. ASSUME NEW t \in Tasks, NEW d \in BOOLEAN, StartTask(t, d)
      PROVE  Service!SNext
  <2>1. \A u \in Tasks : Executed(u)' <=> Executed(u)
    BY <1>2 DEF StartTask, Spawn, Executed
  <2>2. \A u \in Tasks : Queued(u)' <=> (Queued(u) \/ u = t)
    BY <1>2, AppendFacts DEF StartTask
  <2>3. LifeOf(t) = "new" /\ Moved(t, "pending")
    BY <1>2, <2>1, <2>2 DEF StartTask, LifeOf
  <2>4. Service!HandOver(t, d)
    BY <1>2, <1>m, <2>3 DEF StartTask, Service!HandOver
  <2>5. QED
    BY <2>4 DEF Service!SNext
<1>3. ASSUME NEW t \in Tasks, TaskFree(t) PROVE Service!SNext
  <2>1. LifeOf(t) = "signalled" /\ Moved(t, "free")
    BY <1>3 DEF TaskFree, LifeOf, Queued, Executed
  <2>2. Service!Reclaim(t)
    BY <1>3, <1>m, <2>1 DEF TaskFree, Service!Reclaim
  <2>3. QED
    BY <2>2 DEF Service!SNext
<1>4. ASSUME NEW th \in Threads, Pick(th) PROVE Service!SNext
  <2>1. PICK t \in Tasks : PickedFrom(th, t)
    BY <1>4, PickFacts
  <2>2. UNCHANGED <<stage, worker, detached>> /\ stage[t] = "started"
    BY <2>1 DEF PickedFrom, OnePlace
  <2>3. \A u \in Tasks : Executed(u)' <=> (Executed(u) \/ u = t)
    BY <2>1 DEF PickedFrom, Executed
  <2>4. Queued(t) /\ \A u \in Tasks : Queued(u)' <=> (Queued(u) /\ u # t)
    BY <2>1 DEF PickedFrom
  <2>5. LifeOf(t) = "pending" /\ Moved(t, "running")
    BY <2>2, <2>3, <2>4 DEF LifeOf
  <2>6. worker[t] => Service!Cardinality(Service!RunningWorkers) < MaxWorkers
    <3>1. worker[t] => active_workers < MaxWorkers
      BY <2>1 DEF PickedFrom, Eligible
    <3>2. QED
      BY <3>1, RunningWorkersCounted, SameCardinality, PoolAssumption
  <2>7. Service!Begin(t)
    BY <1>m, <2>2, <2>5, <2>6 DEF Service!Begin
  <2>8. QED
    BY <2>7 DEF Service!SNext, Service!Served
<1>5. ASSUME NEW th \in Threads, Quit(th) PROVE UNCHANGED Service!svars
  <2>1. \A u \in Tasks : (Executed(u)' <=> Executed(u)) /\ (Queued(u)' <=> Queued(u))
    BY <1>5 DEF Quit, Executed, Queued
  <2>2. UNCHANGED <<stage, worker, detached>>
    BY <1>5 DEF Quit
  <2>3. QED
    BY <1>n, <2>1, <2>2 DEF LifeOf
<1>6. ASSUME NEW th \in Threads, Finish(th) PROVE Service!SNext
  <2> DEFINE t == task[th]
  <2>1. /\ t \in Tasks /\ Holds(th, t)
        /\ pc[th] = "run" /\ pc' = [pc EXCEPT ![th] = "tell"]
        /\ UNCHANGED <<queue, task, stage, worker, detached>>
    BY <1>6 DEF Finish, Holds
  <2>2. stage[t] = "started" /\ ~Queued(t) /\ Executed(t)
    BY <2>1 DEF OnePlace, Executed
  <2>3. \A u \in Tasks : Executed(u)' <=> (Executed(u) /\ u # t)
    <3>1. \A other \in Threads : (pc[other] = "run" /\ task[other] = t) => other = th
      BY <2>1 DEF OnePlace, Holds
    <3>2. QED
      BY <2>1, <3>1 DEF Executed
  <2>4. \A u \in Tasks : Queued(u)' <=> Queued(u)
    BY <2>1 DEF Queued
  <2> HIDE DEF t
  <2>5. LifeOf(t) = "running" /\ Moved(t, "returned")
    BY <2>1, <2>2, <2>3, <2>4 DEF LifeOf
  <2>6. Service!Return(t)
    BY <1>m, <2>1, <2>5 DEF Service!Return
  <2>7. QED
    BY <2>1, <2>6 DEF Service!SNext, Service!Served
<1>7. ASSUME NEW th \in Threads, Tell(th) PROVE Service!SNext
  <2> DEFINE t == task[th]
             to == IF detached[t] THEN "free" ELSE "signalled"
  <2>1. /\ t \in Tasks /\ Holds(th, t)
        /\ pc[th] = "tell" /\ pc' = [pc EXCEPT ![th] = "look"]
        /\ task' = [task EXCEPT ![th] = NoTask]
        /\ stage' = [stage EXCEPT ![t] = to]
        /\ UNCHANGED <<queue, worker, detached>>
    BY <1>7 DEF Tell, Holds
  <2>2. stage[t] = "started" /\ ~Queued(t)
    BY <2>1 DEF OnePlace
  <2>3. ~Executed(t)
    <3>1. \A other \in Threads : (pc[other] = "run" /\ task[other] = t) => other = th
      BY <2>1 DEF OnePlace, Holds
    <3>2. QED
      BY <2>1, <3>1 DEF Executed
  <2>4. \A u \in Tasks : (Executed(u)' <=> Executed(u)) /\ (Queued(u)' <=> Queued(u))
    BY <2>1 DEF Executed, Queued
  <2>5. to # "started"
    OBVIOUS
  <2> HIDE DEF t, to
  <2>6. LifeOf(t) = "returned" /\ Moved(t, to)
    BY <2>1, <2>2, <2>3, <2>4, <2>5 DEF LifeOf
  <2>7. Service!Announce(t)
    BY <1>m, <2>1, <2>6 DEF Service!Announce, to
  <2>8. QED
    BY <2>1, <2>7 DEF Service!SNext, Service!Served
<1>8. CASE UNCHANGED vars
  <2>1. \A u \in Tasks : LifeOf(u)' = LifeOf(u)
    BY <1>8 DEF vars, LifeOf, Executed, Queued
  <2>2. QED
    BY <1>8, <1>n, <2>1 DEF vars
<1>9. QED
  BY <1>1, <1>2, <1>3, <1>4, <1>5, <1>6, <1>7, <1>8 DEF Next, Owner, ThreadStep

(* Whatever task.c does is what the service allows: every task handed over *)
(* is executed once, announced after it has returned and never before, and *)
(* the workers executed at a time are within the limit.                    *)
THEOREM PoolImplementsService == Spec => ImplementsService
<1>1. Spec => Service!SSpec
  BY ServiceInit, ServiceStep, AlwaysIInv, PTL DEF Spec, Service!SSpec
<1>2. QED
  BY <1>1 DEF ImplementsService

=============================================================================
