--------------------------- MODULE QueueJobProofs ---------------------------
(***************************************************************************)
(* Proofs about QueueJob, for any jobs, workers, retry limit and bounds.   *)
(* The safety invariants rest on one inductive invariant, IInv: who holds  *)
(* a lock row, which rows the runner may still enqueue, what a snapshot    *)
(* that is not stale knows, and how far the counts may have gone.          *)
(***************************************************************************)
EXTENDS QueueJob, TLAPS

USE DEF row, budgets, ghosts

-----------------------------------------------------------------------------
(* The inductive invariant *)

\* A worker past the acquisition has a job; one that executes it has counted
\* the try (this keeps "attempt - 1" a natural number); only an executing
\* worker's snapshot can be overtaken.
HasTask ==
  /\ \A w \in Workers : pc[w] # "idle" => task[w] \in Jobs
  /\ \A w \in Workers : pc[w] = "running" => attempt[w] >= 1
  /\ \A w \in stale : pc[w] \in {"running", "closing"}

\* A worker that executes a job holds the lock of that job's lock row.
HoldsLock ==
  \A w \in Workers :
    pc[w] = "running" => lockRow[task[w]] /\ holder[task[w]] = w

\* A row that the runner may still enqueue is not enqueued or started: only
\* the runner makes it so, and forgets it in the same step.
SeenIsFree == \A j \in Jobs : seen[j] => state[j] \notin {"enqueued", "started"}

\* A worker whose snapshot is up to date sees its own STARTED row.
FreshIsStarted ==
  \A w \in Workers :
    pc[w] = "running" /\ w \notin stale => state[task[w]] = "started"

\* Only a job body that was aborted writes over an executing job.
NoAbortNoStale ==
  conflicts = 0 => stale = {} /\ \A w \in Workers : pc[w] # "aborted"

\* A job whose effects were committed is done, and stays out of every worker
\* and of the runner's queue, unless a late postponement reopened it.
CommittedIsOver ==
  \A j \in Jobs :
    /\ commits[j] <= 1 + reopened[j]
    /\ commits[j] = 1 + reopened[j] =>
         state[j] = "done" /\ ~seen[j] /\ \A w \in Workers : ~Running(w, j)

\* The counts of a row that may run, and of the Job objects loaded from it.
\* Each late postponement makes room for the one try it did not check.
Limit(j) == MaxRetries + 1 + late[j]
CountsWithinLimit ==
  MaxRetries # 0 =>
    /\ \A j \in Jobs :
         seen[j] \/ state[j] \in {"pending", "enqueued", "started"} => retry[j] <= Limit(j)
    /\ \A w \in Workers :
         /\ pc[w] = "acquired" => attempt[w] <= Limit(task[w])
         /\ pc[w] = "running" =>
              attempt[w] <= Limit(task[w]) + (IF w \in stale THEN 0 ELSE 1)
         /\ pc[w] = "aborted" => attempt[w] <= Limit(task[w]) + 1

IInv ==
  /\ TypeOK
  /\ HasTask
  /\ HoldsLock
  /\ SeenIsFree
  /\ FreshIsStarted
  /\ NoAbortNoStale
  /\ CommittedIsOver
  /\ CountsWithinLimit

\* A freshly created job satisfies all of it.
LEMMA IInvInit == Init => IInv
  BY ConstantsAssumption
  DEF Init, IInv, TypeOK, HasTask, HoldsLock, SeenIsFree, FreshIsStarted, NoAbortNoStale,
      CommittedIsOver, CountsWithinLimit, Limit, JobState, WorkerPc, Running


-----------------------------------------------------------------------------
(* One lemma per part of IInv: each step of Next preserves it *)

\* Types, tasks and counted tries.
LEMMA TypeStep ==
  ASSUME TypeOK, HasTask, [Next]_vars
  PROVE  TypeOK' /\ HasTask'
<1> USE ConstantsAssumption
    DEF TypeOK, HasTask, JobState, WorkerPc, Running
<1>1. ASSUME NEW j \in Jobs, ReadJob(j) PROVE TypeOK' /\ HasTask'
  BY <1>1 DEF ReadJob, PutInQueue
<1>2. ASSUME NEW j \in Jobs, Enqueue(j) PROVE TypeOK' /\ HasTask'
  BY <1>2 DEF Enqueue, Overtake
<1>3. ASSUME NEW j \in Jobs, RequeueDead(j) PROVE TypeOK' /\ HasTask'
  BY <1>3 DEF RequeueDead, Overtake
<1>4. ASSUME NEW j \in Jobs, Age(j) PROVE TypeOK' /\ HasTask'
  BY <1>4 DEF Age
<1>5. ASSUME NEW j \in Jobs, LoseRequest(j) PROVE TypeOK' /\ HasTask'
  BY <1>5 DEF LoseRequest
<1>6. ASSUME NEW j \in Jobs, Reject(j) PROVE TypeOK' /\ HasTask'
  BY <1>6 DEF Reject
<1>7. ASSUME NEW j \in Jobs, ButtonDone(j) PROVE TypeOK' /\ HasTask'
  BY <1>7 DEF ButtonDone, Press, Overtake
<1>8. ASSUME NEW j \in Jobs, ButtonCancelled(j) PROVE TypeOK' /\ HasTask'
  BY <1>8 DEF ButtonCancelled, Press, Overtake
<1>9. ASSUME NEW j \in Jobs, Requeue(j) PROVE TypeOK' /\ HasTask'
  BY <1>9 DEF Requeue, Press, Overtake
<1>10. ASSUME NEW w \in Workers, NEW j \in Jobs, Acquire(w, j) PROVE TypeOK' /\ HasTask'
  BY <1>10 DEF Acquire, Overtake
<1>11. ASSUME NEW w \in Workers, Lock(w) PROVE TypeOK' /\ HasTask'
  BY <1>11 DEF Lock, CountedTry
<1>12. ASSUME NEW w \in Workers, GiveUp(w) PROVE TypeOK' /\ HasTask'
  BY <1>12 DEF GiveUp, Leave
<1>13. ASSUME NEW w \in Workers, Finish(w) PROVE TypeOK' /\ HasTask'
  BY <1>13 DEF Finish, Leave
<1>14. ASSUME NEW w \in Workers, Postpone(w) PROVE TypeOK' /\ HasTask'
  BY <1>14 DEF Postpone, StorePostponed, Overtake
<1>15. ASSUME NEW w \in Workers, PostponeIgnored(w) PROVE TypeOK' /\ HasTask'
  BY <1>15 DEF PostponeIgnored, StorePostponed, Overtake
<1>16. ASSUME NEW w \in Workers, Fail(w) PROVE TypeOK' /\ HasTask'
  BY <1>16 DEF Fail, Overtake
<1>17. ASSUME NEW w \in Workers, Conflict(w) PROVE TypeOK' /\ HasTask'
  BY <1>17 DEF Conflict
<1>18. ASSUME NEW w \in Workers, PostponeAborted(w) PROVE TypeOK' /\ HasTask'
  BY <1>18 DEF PostponeAborted, StorePostponed, Overtake
<1>19. ASSUME NEW w \in Workers, Close(w) PROVE TypeOK' /\ HasTask'
  BY <1>19 DEF Close, Leave
<1>20. ASSUME NEW w \in Workers, Crash(w) PROVE TypeOK' /\ HasTask'
  BY <1>20 DEF Crash, Leave
<1>21. CASE UNCHANGED vars
  BY <1>21 DEF vars
<1> QED
  BY <1>1, <1>2, <1>3, <1>4, <1>5, <1>6, <1>7, <1>8, <1>9, <1>10, <1>11,
     <1>12, <1>13, <1>14, <1>15, <1>16, <1>17, <1>18, <1>19, <1>20, <1>21
  DEF Next, Runner, Operator, Worker

-----------------------------------------------------------------------------
\* Lock rows: only lock() takes one, only the end or the abort of the
\* holder's transaction frees it.
LEMMA HoldsLockStep ==
  ASSUME TypeOK, HasTask, HoldsLock, [Next]_vars
  PROVE  HoldsLock'
<1> USE ConstantsAssumption
    DEF TypeOK, HasTask, JobState, WorkerPc, Running, HoldsLock, CanLock
<1>1. ASSUME NEW j \in Jobs, ReadJob(j) PROVE HoldsLock'
  BY <1>1 DEF ReadJob, PutInQueue
<1>2. ASSUME NEW j \in Jobs, Enqueue(j) PROVE HoldsLock'
  BY <1>2 DEF Enqueue, Overtake
<1>3. ASSUME NEW j \in Jobs, RequeueDead(j) PROVE HoldsLock'
  BY <1>3 DEF RequeueDead, Overtake
<1>4. ASSUME NEW j \in Jobs, Age(j) PROVE HoldsLock'
  BY <1>4 DEF Age
<1>5. ASSUME NEW j \in Jobs, LoseRequest(j) PROVE HoldsLock'
  BY <1>5 DEF LoseRequest
<1>6. ASSUME NEW j \in Jobs, Reject(j) PROVE HoldsLock'
  BY <1>6 DEF Reject
<1>7. ASSUME NEW j \in Jobs, ButtonDone(j) PROVE HoldsLock'
  BY <1>7 DEF ButtonDone, Press, Overtake
<1>8. ASSUME NEW j \in Jobs, ButtonCancelled(j) PROVE HoldsLock'
  BY <1>8 DEF ButtonCancelled, Press, Overtake
<1>9. ASSUME NEW j \in Jobs, Requeue(j) PROVE HoldsLock'
  BY <1>9 DEF Requeue, Press, Overtake
<1>10. ASSUME NEW w \in Workers, NEW j \in Jobs, Acquire(w, j) PROVE HoldsLock'
  BY <1>10 DEF Acquire, Overtake
<1>11. ASSUME NEW w \in Workers, Lock(w) PROVE HoldsLock'
  BY <1>11 DEF Lock, CountedTry
<1>12. ASSUME NEW w \in Workers, GiveUp(w) PROVE HoldsLock'
  BY <1>12 DEF GiveUp, Leave
<1>13. ASSUME NEW w \in Workers, Finish(w) PROVE HoldsLock'
  BY <1>13 DEF Finish, Leave
<1>14. ASSUME NEW w \in Workers, Postpone(w) PROVE HoldsLock'
  BY <1>14 DEF Postpone, StorePostponed, Overtake
<1>15. ASSUME NEW w \in Workers, PostponeIgnored(w) PROVE HoldsLock'
  BY <1>15 DEF PostponeIgnored, StorePostponed, Overtake
<1>16. ASSUME NEW w \in Workers, Fail(w) PROVE HoldsLock'
  BY <1>16 DEF Fail, Overtake
<1>17. ASSUME NEW w \in Workers, Conflict(w) PROVE HoldsLock'
  BY <1>17 DEF Conflict
<1>18. ASSUME NEW w \in Workers, PostponeAborted(w) PROVE HoldsLock'
  BY <1>18 DEF PostponeAborted, StorePostponed, Overtake
<1>19. ASSUME NEW w \in Workers, Close(w) PROVE HoldsLock'
  BY <1>19 DEF Close, Leave
<1>20. ASSUME NEW w \in Workers, Crash(w) PROVE HoldsLock'
  BY <1>20 DEF Crash, Leave
<1>21. CASE UNCHANGED vars
  BY <1>21 DEF vars
<1> QED
  BY <1>1, <1>2, <1>3, <1>4, <1>5, <1>6, <1>7, <1>8, <1>9, <1>10, <1>11,
     <1>12, <1>13, <1>14, <1>15, <1>16, <1>17, <1>18, <1>19, <1>20, <1>21
  DEF Next, Runner, Operator, Worker

-----------------------------------------------------------------------------
\* The runner's memory: run_jobs forgets what it enqueues.
LEMMA SeenIsFreeStep ==
  ASSUME TypeOK, HasTask, SeenIsFree, [Next]_vars
  PROVE  SeenIsFree'
<1> USE ConstantsAssumption
    DEF TypeOK, HasTask, JobState, WorkerPc, Running, SeenIsFree
<1>1. ASSUME NEW j \in Jobs, ReadJob(j) PROVE SeenIsFree'
  BY <1>1 DEF ReadJob, PutInQueue
<1>2. ASSUME NEW j \in Jobs, Enqueue(j) PROVE SeenIsFree'
  BY <1>2 DEF Enqueue, Overtake
<1>3. ASSUME NEW j \in Jobs, RequeueDead(j) PROVE SeenIsFree'
  BY <1>3 DEF RequeueDead, Overtake
<1>4. ASSUME NEW j \in Jobs, Age(j) PROVE SeenIsFree'
  BY <1>4 DEF Age
<1>5. ASSUME NEW j \in Jobs, LoseRequest(j) PROVE SeenIsFree'
  BY <1>5 DEF LoseRequest
<1>6. ASSUME NEW j \in Jobs, Reject(j) PROVE SeenIsFree'
  BY <1>6 DEF Reject
<1>7. ASSUME NEW j \in Jobs, ButtonDone(j) PROVE SeenIsFree'
  BY <1>7 DEF ButtonDone, Press, Overtake
<1>8. ASSUME NEW j \in Jobs, ButtonCancelled(j) PROVE SeenIsFree'
  BY <1>8 DEF ButtonCancelled, Press, Overtake
<1>9. ASSUME NEW j \in Jobs, Requeue(j) PROVE SeenIsFree'
  BY <1>9 DEF Requeue, Press, Overtake
<1>10. ASSUME NEW w \in Workers, NEW j \in Jobs, Acquire(w, j) PROVE SeenIsFree'
  BY <1>10 DEF Acquire, Overtake
<1>11. ASSUME NEW w \in Workers, Lock(w) PROVE SeenIsFree'
  BY <1>11 DEF Lock, CountedTry
<1>12. ASSUME NEW w \in Workers, GiveUp(w) PROVE SeenIsFree'
  BY <1>12 DEF GiveUp, Leave
<1>13. ASSUME NEW w \in Workers, Finish(w) PROVE SeenIsFree'
  BY <1>13 DEF Finish, Leave
<1>14. ASSUME NEW w \in Workers, Postpone(w) PROVE SeenIsFree'
  BY <1>14 DEF Postpone, StorePostponed, Overtake
<1>15. ASSUME NEW w \in Workers, PostponeIgnored(w) PROVE SeenIsFree'
  BY <1>15 DEF PostponeIgnored, StorePostponed, Overtake
<1>16. ASSUME NEW w \in Workers, Fail(w) PROVE SeenIsFree'
  BY <1>16 DEF Fail, Overtake
<1>17. ASSUME NEW w \in Workers, Conflict(w) PROVE SeenIsFree'
  BY <1>17 DEF Conflict
<1>18. ASSUME NEW w \in Workers, PostponeAborted(w) PROVE SeenIsFree'
  BY <1>18 DEF PostponeAborted, StorePostponed, Overtake
<1>19. ASSUME NEW w \in Workers, Close(w) PROVE SeenIsFree'
  BY <1>19 DEF Close, Leave
<1>20. ASSUME NEW w \in Workers, Crash(w) PROVE SeenIsFree'
  BY <1>20 DEF Crash, Leave
<1>21. CASE UNCHANGED vars
  BY <1>21 DEF vars
<1> QED
  BY <1>1, <1>2, <1>3, <1>4, <1>5, <1>6, <1>7, <1>8, <1>9, <1>10, <1>11,
     <1>12, <1>13, <1>14, <1>15, <1>16, <1>17, <1>18, <1>19, <1>20, <1>21
  DEF Next, Runner, Operator, Worker

-----------------------------------------------------------------------------
\* Snapshots: every other writer of the row makes the snapshot stale.
LEMMA FreshIsStartedStep ==
  ASSUME TypeOK, HasTask, HoldsLock, FreshIsStarted, [Next]_vars
  PROVE  FreshIsStarted'
<1> USE ConstantsAssumption
    DEF TypeOK, HasTask, JobState, WorkerPc, Running, HoldsLock,
        FreshIsStarted, CanLock
<1>1. ASSUME NEW j \in Jobs, ReadJob(j) PROVE FreshIsStarted'
  BY <1>1 DEF ReadJob, PutInQueue
<1>2. ASSUME NEW j \in Jobs, Enqueue(j) PROVE FreshIsStarted'
  BY <1>2 DEF Enqueue, Overtake
<1>3. ASSUME NEW j \in Jobs, RequeueDead(j) PROVE FreshIsStarted'
  BY <1>3 DEF RequeueDead, Overtake
<1>4. ASSUME NEW j \in Jobs, Age(j) PROVE FreshIsStarted'
  BY <1>4 DEF Age
<1>5. ASSUME NEW j \in Jobs, LoseRequest(j) PROVE FreshIsStarted'
  BY <1>5 DEF LoseRequest
<1>6. ASSUME NEW j \in Jobs, Reject(j) PROVE FreshIsStarted'
  BY <1>6 DEF Reject
<1>7. ASSUME NEW j \in Jobs, ButtonDone(j) PROVE FreshIsStarted'
  BY <1>7 DEF ButtonDone, Press, Overtake
<1>8. ASSUME NEW j \in Jobs, ButtonCancelled(j) PROVE FreshIsStarted'
  BY <1>8 DEF ButtonCancelled, Press, Overtake
<1>9. ASSUME NEW j \in Jobs, Requeue(j) PROVE FreshIsStarted'
  BY <1>9 DEF Requeue, Press, Overtake
<1>10. ASSUME NEW w \in Workers, NEW j \in Jobs, Acquire(w, j) PROVE FreshIsStarted'
  BY <1>10 DEF Acquire, Overtake
<1>11. ASSUME NEW w \in Workers, Lock(w) PROVE FreshIsStarted'
  BY <1>11 DEF Lock, CountedTry
<1>12. ASSUME NEW w \in Workers, GiveUp(w) PROVE FreshIsStarted'
  BY <1>12 DEF GiveUp, Leave
<1>13. ASSUME NEW w \in Workers, Finish(w) PROVE FreshIsStarted'
  BY <1>13 DEF Finish, Leave
<1>14. ASSUME NEW w \in Workers, Postpone(w) PROVE FreshIsStarted'
  BY <1>14 DEF Postpone, StorePostponed, Overtake
<1>15. ASSUME NEW w \in Workers, PostponeIgnored(w) PROVE FreshIsStarted'
  BY <1>15 DEF PostponeIgnored, StorePostponed, Overtake
<1>16. ASSUME NEW w \in Workers, Fail(w) PROVE FreshIsStarted'
  BY <1>16 DEF Fail, Overtake
<1>17. ASSUME NEW w \in Workers, Conflict(w) PROVE FreshIsStarted'
  BY <1>17 DEF Conflict
<1>18. ASSUME NEW w \in Workers, PostponeAborted(w) PROVE FreshIsStarted'
  BY <1>18 DEF PostponeAborted, StorePostponed, Overtake
<1>19. ASSUME NEW w \in Workers, Close(w) PROVE FreshIsStarted'
  BY <1>19 DEF Close, Leave
<1>20. ASSUME NEW w \in Workers, Crash(w) PROVE FreshIsStarted'
  BY <1>20 DEF Crash, Leave
<1>21. CASE UNCHANGED vars
  BY <1>21 DEF vars
<1> QED
  BY <1>1, <1>2, <1>3, <1>4, <1>5, <1>6, <1>7, <1>8, <1>9, <1>10, <1>11,
     <1>12, <1>13, <1>14, <1>15, <1>16, <1>17, <1>18, <1>19, <1>20, <1>21
  DEF Next, Runner, Operator, Worker

-----------------------------------------------------------------------------
\* Without an aborted body there is no other writer at all.
LEMMA NoAbortNoStaleStep ==
  ASSUME TypeOK, HasTask, HoldsLock, SeenIsFree, FreshIsStarted, NoAbortNoStale, [Next]_vars
  PROVE  NoAbortNoStale'
<1> USE ConstantsAssumption
    DEF TypeOK, HasTask, JobState, WorkerPc, Running, HoldsLock,
        SeenIsFree, FreshIsStarted, NoAbortNoStale, Unlocked, DoneFrom,
        CancelledFrom, RequeueFrom
<1>1. ASSUME NEW j \in Jobs, ReadJob(j) PROVE NoAbortNoStale'
  BY <1>1 DEF ReadJob, PutInQueue
<1>2. ASSUME NEW j \in Jobs, Enqueue(j) PROVE NoAbortNoStale'
  BY <1>2 DEF Enqueue, Overtake
<1>3. ASSUME NEW j \in Jobs, RequeueDead(j) PROVE NoAbortNoStale'
  BY <1>3 DEF RequeueDead, Overtake
<1>4. ASSUME NEW j \in Jobs, Age(j) PROVE NoAbortNoStale'
  BY <1>4 DEF Age
<1>5. ASSUME NEW j \in Jobs, LoseRequest(j) PROVE NoAbortNoStale'
  BY <1>5 DEF LoseRequest
<1>6. ASSUME NEW j \in Jobs, Reject(j) PROVE NoAbortNoStale'
  BY <1>6 DEF Reject
<1>7. ASSUME NEW j \in Jobs, ButtonDone(j) PROVE NoAbortNoStale'
  BY <1>7 DEF ButtonDone, Press, Overtake
<1>8. ASSUME NEW j \in Jobs, ButtonCancelled(j) PROVE NoAbortNoStale'
  BY <1>8 DEF ButtonCancelled, Press, Overtake
<1>9. ASSUME NEW j \in Jobs, Requeue(j) PROVE NoAbortNoStale'
  BY <1>9 DEF Requeue, Press, Overtake
<1>10. ASSUME NEW w \in Workers, NEW j \in Jobs, Acquire(w, j) PROVE NoAbortNoStale'
  BY <1>10 DEF Acquire, Overtake
<1>11. ASSUME NEW w \in Workers, Lock(w) PROVE NoAbortNoStale'
  BY <1>11 DEF Lock, CountedTry
<1>12. ASSUME NEW w \in Workers, GiveUp(w) PROVE NoAbortNoStale'
  BY <1>12 DEF GiveUp, Leave
<1>13. ASSUME NEW w \in Workers, Finish(w) PROVE NoAbortNoStale'
  BY <1>13 DEF Finish, Leave
<1>14. ASSUME NEW w \in Workers, Postpone(w) PROVE NoAbortNoStale'
  BY <1>14 DEF Postpone, StorePostponed, Overtake
<1>15. ASSUME NEW w \in Workers, PostponeIgnored(w) PROVE NoAbortNoStale'
  BY <1>15 DEF PostponeIgnored, StorePostponed, Overtake
<1>16. ASSUME NEW w \in Workers, Fail(w) PROVE NoAbortNoStale'
  BY <1>16 DEF Fail, Overtake
<1>17. ASSUME NEW w \in Workers, Conflict(w) PROVE NoAbortNoStale'
  BY <1>17 DEF Conflict
<1>18. ASSUME NEW w \in Workers, PostponeAborted(w) PROVE NoAbortNoStale'
  BY <1>18 DEF PostponeAborted, StorePostponed, Overtake
<1>19. ASSUME NEW w \in Workers, Close(w) PROVE NoAbortNoStale'
  BY <1>19 DEF Close, Leave
<1>20. ASSUME NEW w \in Workers, Crash(w) PROVE NoAbortNoStale'
  BY <1>20 DEF Crash, Leave
<1>21. CASE UNCHANGED vars
  BY <1>21 DEF vars
<1> QED
  BY <1>1, <1>2, <1>3, <1>4, <1>5, <1>6, <1>7, <1>8, <1>9, <1>10, <1>11,
     <1>12, <1>13, <1>14, <1>15, <1>16, <1>17, <1>18, <1>19, <1>20, <1>21
  DEF Next, Runner, Operator, Worker

-----------------------------------------------------------------------------
\* Commits of the body: a committed job leaves the protocol.
LEMMA CommittedIsOverStep ==
  ASSUME TypeOK, HasTask, HoldsLock, FreshIsStarted, SeenIsFree, CommittedIsOver, [Next]_vars
  PROVE  CommittedIsOver'
<1> USE ConstantsAssumption
    DEF TypeOK, HasTask, JobState, WorkerPc, Running, HoldsLock,
        SeenIsFree, FreshIsStarted, CommittedIsOver, CanLock, DoneFrom,
        CancelledFrom, RequeueFrom
<1>1. ASSUME NEW j \in Jobs, ReadJob(j) PROVE CommittedIsOver'
  BY <1>1 DEF ReadJob, PutInQueue
<1>2. ASSUME NEW j \in Jobs, Enqueue(j) PROVE CommittedIsOver'
  BY <1>2 DEF Enqueue, Overtake
<1>3. ASSUME NEW j \in Jobs, RequeueDead(j) PROVE CommittedIsOver'
  BY <1>3 DEF RequeueDead, Overtake
<1>4. ASSUME NEW j \in Jobs, Age(j) PROVE CommittedIsOver'
  BY <1>4 DEF Age
<1>5. ASSUME NEW j \in Jobs, LoseRequest(j) PROVE CommittedIsOver'
  BY <1>5 DEF LoseRequest
<1>6. ASSUME NEW j \in Jobs, Reject(j) PROVE CommittedIsOver'
  BY <1>6 DEF Reject
<1>7. ASSUME NEW j \in Jobs, ButtonDone(j) PROVE CommittedIsOver'
  BY <1>7 DEF ButtonDone, Press, Overtake
<1>8. ASSUME NEW j \in Jobs, ButtonCancelled(j) PROVE CommittedIsOver'
  BY <1>8 DEF ButtonCancelled, Press, Overtake
<1>9. ASSUME NEW j \in Jobs, Requeue(j) PROVE CommittedIsOver'
  BY <1>9 DEF Requeue, Press, Overtake
<1>10. ASSUME NEW w \in Workers, NEW j \in Jobs, Acquire(w, j) PROVE CommittedIsOver'
  BY <1>10 DEF Acquire, Overtake
<1>11. ASSUME NEW w \in Workers, Lock(w) PROVE CommittedIsOver'
  BY <1>11 DEF Lock, CountedTry
<1>12. ASSUME NEW w \in Workers, GiveUp(w) PROVE CommittedIsOver'
  BY <1>12 DEF GiveUp, Leave
<1>13. ASSUME NEW w \in Workers, Finish(w) PROVE CommittedIsOver'
  <2> DEFINE j == task[w]
  <2>1. j \in Jobs /\ Running(w, j) /\ state[j] = "started" /\ ~seen[j]
    BY <1>13 DEF Finish
  <2>2. commits[j] <= reopened[j]
    BY <2>1
  <2>3. \A v \in Workers : Running(v, j) => v = w
    BY <2>1
  <2>4. /\ state' = [state EXCEPT ![j] = "done"]
        /\ commits' = [commits EXCEPT ![j] = commits[j] + 1]
        /\ pc' = [pc EXCEPT ![w] = "idle"]
        /\ task' = [task EXCEPT ![w] = NoJob]
        /\ UNCHANGED <<seen, reopened>>
    BY <1>13 DEF Finish, Leave
  <2>5. \A v \in Workers, i \in Jobs : Running(v, i)' => Running(v, i) /\ i # j
    BY <2>1, <2>3, <2>4
  <2> QED
    BY <2>1, <2>2, <2>4, <2>5
<1>14. ASSUME NEW w \in Workers, Postpone(w) PROVE CommittedIsOver'
  BY <1>14 DEF Postpone, StorePostponed, Overtake
<1>15. ASSUME NEW w \in Workers, PostponeIgnored(w) PROVE CommittedIsOver'
  BY <1>15 DEF PostponeIgnored, StorePostponed, Overtake
<1>16. ASSUME NEW w \in Workers, Fail(w) PROVE CommittedIsOver'
  BY <1>16 DEF Fail, Overtake
<1>17. ASSUME NEW w \in Workers, Conflict(w) PROVE CommittedIsOver'
  BY <1>17 DEF Conflict
<1>18. ASSUME NEW w \in Workers, PostponeAborted(w) PROVE CommittedIsOver'
  BY <1>18 DEF PostponeAborted, StorePostponed, Overtake
<1>19. ASSUME NEW w \in Workers, Close(w) PROVE CommittedIsOver'
  BY <1>19 DEF Close, Leave
<1>20. ASSUME NEW w \in Workers, Crash(w) PROVE CommittedIsOver'
  BY <1>20 DEF Crash, Leave
<1>21. CASE UNCHANGED vars
  BY <1>21 DEF vars
<1> QED
  BY <1>1, <1>2, <1>3, <1>4, <1>5, <1>6, <1>7, <1>8, <1>9, <1>10, <1>11,
     <1>12, <1>13, <1>14, <1>15, <1>16, <1>17, <1>18, <1>19, <1>20, <1>21
  DEF Next, Runner, Operator, Worker

-----------------------------------------------------------------------------
\* Retry counts: the requeuer adds one to a count it found within the limit.
LEMMA CountsStep ==
  ASSUME TypeOK, HasTask, HoldsLock, SeenIsFree, FreshIsStarted, CountsWithinLimit, [Next]_vars
  PROVE  CountsWithinLimit'
<1> USE ConstantsAssumption
    DEF TypeOK, HasTask, JobState, WorkerPc, Running, HoldsLock,
        SeenIsFree, FreshIsStarted, Unlocked, CanLock, CountsWithinLimit,
        Limit, DoneFrom, CancelledFrom, RequeueFrom, FoundDeadForGood,
        MaxReached
<1>1. ASSUME NEW j \in Jobs, ReadJob(j) PROVE CountsWithinLimit'
  BY <1>1 DEF ReadJob, PutInQueue
<1>2. ASSUME NEW j \in Jobs, Enqueue(j) PROVE CountsWithinLimit'
  BY <1>2 DEF Enqueue, Overtake
<1>3. ASSUME NEW j \in Jobs, RequeueDead(j) PROVE CountsWithinLimit'
  BY <1>3 DEF RequeueDead, Overtake
<1>4. ASSUME NEW j \in Jobs, Age(j) PROVE CountsWithinLimit'
  BY <1>4 DEF Age
<1>5. ASSUME NEW j \in Jobs, LoseRequest(j) PROVE CountsWithinLimit'
  BY <1>5 DEF LoseRequest
<1>6. ASSUME NEW j \in Jobs, Reject(j) PROVE CountsWithinLimit'
  BY <1>6 DEF Reject
<1>7. ASSUME NEW j \in Jobs, ButtonDone(j) PROVE CountsWithinLimit'
  BY <1>7 DEF ButtonDone, Press, Overtake
<1>8. ASSUME NEW j \in Jobs, ButtonCancelled(j) PROVE CountsWithinLimit'
  BY <1>8 DEF ButtonCancelled, Press, Overtake
<1>9. ASSUME NEW j \in Jobs, Requeue(j) PROVE CountsWithinLimit'
  BY <1>9 DEF Requeue, Press, Overtake
<1>10. ASSUME NEW w \in Workers, NEW j \in Jobs, Acquire(w, j) PROVE CountsWithinLimit'
  BY <1>10 DEF Acquire, Overtake
<1>11. ASSUME NEW w \in Workers, Lock(w) PROVE CountsWithinLimit'
  <2>1. w \notin stale /\ task[w] \in Jobs
    BY <1>11 DEF Lock
  <2> QED
    BY <1>11, <2>1 DEF Lock, CountedTry
<1>12. ASSUME NEW w \in Workers, GiveUp(w) PROVE CountsWithinLimit'
  BY <1>12 DEF GiveUp, Leave
<1>13. ASSUME NEW w \in Workers, Finish(w) PROVE CountsWithinLimit'
  BY <1>13 DEF Finish, Leave
<1>14. ASSUME NEW w \in Workers, Postpone(w) PROVE CountsWithinLimit'
  BY <1>14 DEF Postpone, StorePostponed, Overtake
<1>15. ASSUME NEW w \in Workers, PostponeIgnored(w) PROVE CountsWithinLimit'
  BY <1>15 DEF PostponeIgnored, StorePostponed, Overtake
<1>16. ASSUME NEW w \in Workers, Fail(w) PROVE CountsWithinLimit'
  BY <1>16 DEF Fail, Overtake
<1>17. ASSUME NEW w \in Workers, Conflict(w) PROVE CountsWithinLimit'
  BY <1>17 DEF Conflict
<1>18. ASSUME NEW w \in Workers, PostponeAborted(w) PROVE CountsWithinLimit'
  BY <1>18 DEF PostponeAborted, StorePostponed, Overtake
<1>19. ASSUME NEW w \in Workers, Close(w) PROVE CountsWithinLimit'
  BY <1>19 DEF Close, Leave
<1>20. ASSUME NEW w \in Workers, Crash(w) PROVE CountsWithinLimit'
  BY <1>20 DEF Crash, Leave
<1>21. CASE UNCHANGED vars
  BY <1>21 DEF vars
<1> QED
  BY <1>1, <1>2, <1>3, <1>4, <1>5, <1>6, <1>7, <1>8, <1>9, <1>10, <1>11,
     <1>12, <1>13, <1>14, <1>15, <1>16, <1>17, <1>18, <1>19, <1>20, <1>21
  DEF Next, Runner, Operator, Worker

-----------------------------------------------------------------------------
(* The theorems *)

\* The parts together are inductive.
LEMMA IInvStep == IInv /\ [Next]_vars => IInv'
  BY TypeStep, HoldsLockStep, SeenIsFreeStep, FreshIsStartedStep, NoAbortNoStaleStep,
     CommittedIsOverStep, CountsStep
  DEF IInv

\* Hence the invariant holds in every reachable state.
LEMMA IInvAlways == Spec => []IInv
  BY IInvInit, IInvStep, PTL DEF Spec

\* Every variable keeps its type, for all constants.
THEOREM TypeCorrect == Spec => []TypeOK
<1>1. IInv => TypeOK
  BY DEF IInv
<1> QED
  BY <1>1, IInvAlways, PTL

\* Any number of workers, requests, crashes and requeues: a job is executed
\* by one worker at a time, because its lock row has one holder.
THEOREM OneExecution == Spec => []MutualExclusion
<1>1. IInv => MutualExclusion
  BY DEF IInv, HoldsLock, HasTask, MutualExclusion, Running
<1> QED
  BY <1>1, IInvAlways, PTL

\* Without a serialization failure nothing writes the row of a running job.
THEOREM ExecutionLeftAlone == Spec => []RunningIsLeftAlone
<1>1. IInv => RunningIsLeftAlone
  BY DEF IInv, FreshIsStarted, NoAbortNoStale, RunningIsLeftAlone
<1> QED
  BY <1>1, IInvAlways, PTL

\* The effects of a job are committed once, late postponements apart.
THEOREM EffectsOnce == Spec => []CommittedOnce
<1>1. IInv => CommittedOnce
  BY DEF IInv, CommittedIsOver, CommittedOnce
<1> QED
  BY <1>1, IInvAlways, PTL

\* The retry count of a job that may still run stays within the limit.
THEOREM RetriesLimited == Spec => []RetryWithinLimit
<1>1. IInv => RetryWithinLimit
  BY DEF IInv, CountsWithinLimit, Limit, RetryWithinLimit
<1> QED
  BY <1>1, IInvAlways, PTL

-----------------------------------------------------------------------------
(* QueueJob implements the abstract Job *)

\* The state of the abstract job, as Contract substitutes it.
Status    == [j \in Jobs |-> IF Settled(j) THEN "settled" ELSE "waiting"]
Executors == [j \in Jobs |-> {w \in Workers : Running(w, j)}]

\* A worker works on one job: what it enters or leaves changes one set.
LEMMA OneTask ==
  ASSUME TypeOK, HasTask, HoldsLock, NEW w \in Workers, NEW j \in Jobs, Running(w, j)
  PROVE  Executors[j] = {w} /\ \A i \in Jobs \ {j} : w \notin Executors[i]
  BY ConstantsAssumption DEF TypeOK, HasTask, HoldsLock, Running, Executors

\* A step that changes only who is in the body of j changes one set.
LEMMA Changed ==
  ASSUME NEW j \in Jobs, NEW X \in SUBSET Workers,
         \A v \in Workers : Running(v, j)' <=> v \in X,
         \A v \in Workers, i \in Jobs \ {j} : Running(v, i)' <=> Running(v, i)
  PROVE  Executors' = [Executors EXCEPT ![j] = X]
<1>1. \A i \in Jobs \ {j} : {v \in Workers : Running(v, i)}' = {v \in Workers : Running(v, i)}
  OBVIOUS
<1>2. {v \in Workers : Running(v, j)}' = X
  OBVIOUS
<1> QED
  BY <1>1, <1>2 DEF Executors

\* A step that settles or sends no job and that no body enters or leaves is
\* invisible.
LEMMA Invisible ==
  ASSUME \A j \in Jobs : Settled(j)' <=> Settled(j),
         \A w \in Workers, j \in Jobs : Running(w, j)' <=> Running(w, j),
         UNCHANGED <<commits, reopened>>
  PROVE  UNCHANGED Contract!vars
<1>1. Status' = Status
  BY DEF Status
<1>2. Executors' = Executors
  BY DEF Executors
<1> QED
  BY <1>1, <1>2 DEF Contract!vars, Status, Executors

\* The body of j is left by w without effects, whatever becomes of the row.
LEMMA Left ==
  ASSUME TypeOK, HasTask, HoldsLock, NEW w \in Workers, NEW j \in Jobs, Running(w, j),
         \A v \in Workers, i \in Jobs : Running(v, i)' <=> Running(v, i) /\ v # w,
         \A i \in Jobs \ {j} : state'[i] = state[i],
         UNCHANGED <<commits, reopened>>
  PROVE  Contract!Next
<1>1. Executors' = [Executors EXCEPT ![j] = {}]
  <2>1. \A v \in Workers : Running(v, j) => v = w
    BY OneTask DEF Executors
  <2>2. \A i \in Jobs \ {j} : ~Running(w, i)
    BY DEF Running
  <2>3. \A v \in Workers : ~Running(v, j)'
    BY <2>1
  <2>4. \A v \in Workers, i \in Jobs \ {j} : Running(v, i)' <=> Running(v, i)
    BY <2>2
  <2> QED
    BY <2>3, <2>4, Changed
<1>2. \A i \in Jobs \ {j} : Settled(i)' <=> Settled(i)
  BY DEF Settled
<1>3. \E s \in {"waiting", "settled"} : Status' = [Status EXCEPT ![j] = s]
  BY <1>2 DEF Status
<1>4. Contract!Abandon(w, j)
  BY <1>1, <1>3, OneTask DEF Contract!Abandon, Status, Executors
<1> QED
  BY <1>4 DEF Contract!Next

\* A write of j's row by somebody who is not in its body.
LEMMA Written ==
  ASSUME TypeOK, HasTask, HoldsLock, NEW j \in Jobs,
         \A v \in Workers, i \in Jobs : Running(v, i)' <=> Running(v, i),
         \A i \in Jobs \ {j} : state'[i] = state[i]
  PROVE  /\ Executors' = Executors
         /\ Status' = [Status EXCEPT ![j] = IF Settled(j)' THEN "settled" ELSE "waiting"]
<1>1. \A i \in Jobs \ {j} : Settled(i)' <=> Settled(i)
  BY DEF Settled
<1> QED
  BY <1>1 DEF Status, Executors

\* A new job waits, and nobody executes it.
LEMMA ContractInit == Init => Contract!Init
  BY ConstantsAssumption DEF Init, Contract!Init, Settled, Running

\* Each step of the protocol is a step of the abstract job, or invisible.
LEMMA ContractStep ==
  ASSUME IInv, [Next]_vars
  PROVE  [Contract!Next]_(Contract!vars)
<1> USE ConstantsAssumption
    DEF IInv, TypeOK, HasTask, JobState, WorkerPc, Running
<1>1. ASSUME NEW j \in Jobs, ReadJob(j) \/ Age(j) \/ LoseRequest(j) \/ Reject(j)
      PROVE  UNCHANGED Contract!vars
  <2>1. UNCHANGED <<state, pc, task, commits, reopened>>
    BY <1>1 DEF ReadJob, Age, LoseRequest, Reject
  <2> QED
    BY <2>1, Invisible DEF Settled
<1>2. ASSUME NEW j \in Jobs, Enqueue(j) PROVE [Contract!Next]_(Contract!vars)
  <2>1. /\ state' = [state EXCEPT ![j] = "enqueued"]
        /\ UNCHANGED <<pc, task, commits, reopened>>
    BY <1>2 DEF Enqueue
  <2>2. CASE Settled(j)
    <3>1. commits[j] <= reopened[j]
      BY <1>2 DEF Enqueue, CommittedIsOver
    <3>2. /\ Executors' = Executors
          /\ Status' = [Status EXCEPT ![j] = "waiting"]
      BY <2>1, Written DEF Settled
    <3>3. reopened' = [reopened EXCEPT ![j] = reopened[j]]
      BY <2>1
    <3>4. Contract!Revive(j)
      BY <2>1, <2>2, <3>1, <3>2, <3>3 DEF Contract!Revive, Status, Executors
    <3> QED
      BY <3>4 DEF Contract!Next
  <2>3. CASE ~Settled(j)
    BY <2>1, <2>3, Invisible DEF Settled
  <2> QED
    BY <2>2, <2>3
<1>3. ASSUME NEW j \in Jobs, RequeueDead(j) PROVE [Contract!Next]_(Contract!vars)
  <2>1. /\ state' = [state EXCEPT ![j] = IF FoundDeadForGood(j) THEN "failed" ELSE "pending"]
        /\ state[j] \in {"enqueued", "started"}
        /\ UNCHANGED <<pc, task, commits, reopened>>
    BY <1>3 DEF RequeueDead
  <2>2. CASE FoundDeadForGood(j)
    <3>1. /\ Executors' = Executors
          /\ Status' = [Status EXCEPT ![j] = "settled"]
      BY <2>1, <2>2, Written DEF Settled
    <3>2. Contract!Settle(j)
      BY <2>1, <3>1 DEF Contract!Settle, Settled, Status, Executors
    <3> QED
      BY <3>2 DEF Contract!Next
  <2>3. CASE ~FoundDeadForGood(j)
    BY <2>1, <2>3, Invisible DEF Settled
  <2> QED
    BY <2>2, <2>3
<1>4. ASSUME NEW j \in Jobs, ButtonDone(j) \/ ButtonCancelled(j)
      PROVE  [Contract!Next]_(Contract!vars)
  <2>1. /\ \E s \in {"done", "cancelled"} : state' = [state EXCEPT ![j] = s]
        /\ UNCHANGED <<pc, task, commits, reopened>>
    BY <1>4 DEF ButtonDone, ButtonCancelled, Press
  <2>2. CASE Settled(j)
    BY <2>1, <2>2, Invisible DEF Settled
  <2>3. CASE ~Settled(j)
    <3>1. /\ Executors' = Executors
          /\ Status' = [Status EXCEPT ![j] = "settled"]
      BY <2>1, Written DEF Settled
    <3>2. Contract!Settle(j)
      BY <2>1, <2>3, <3>1 DEF Contract!Settle, Status, Executors
    <3> QED
      BY <3>2 DEF Contract!Next
  <2> QED
    BY <2>2, <2>3
<1>5. ASSUME NEW j \in Jobs, Requeue(j) PROVE Contract!Next
  <2>1. /\ state' = [state EXCEPT ![j] = "pending"]
        /\ state[j] \in RequeueFrom
        /\ commits' = [commits EXCEPT ![j] = 0]
        /\ UNCHANGED <<pc, task, reopened>>
    BY <1>5 DEF Requeue, Press
  <2>2. /\ Executors' = Executors
        /\ Status' = [Status EXCEPT ![j] = "waiting"]
    BY <2>1, Written DEF Settled
  <2>3. Contract!Send(j)
    BY <2>1, <2>2 DEF Contract!Send, Settled, Status, Executors, RequeueFrom
  <2> QED
    BY <2>3 DEF Contract!Next
<1>6. ASSUME NEW w \in Workers, NEW j \in Jobs, Acquire(w, j)
      PROVE  UNCHANGED Contract!vars
  BY <1>6, Invisible DEF Acquire, Settled
<1>7. ASSUME NEW w \in Workers, Lock(w) PROVE Contract!Next
  <2> PICK j \in Jobs : task[w] = j
    BY <1>7 DEF Lock
  <2>1. j \in Jobs /\ pc[w] = "acquired" /\ CanLock(j)
    BY <1>7 DEF Lock
  <2>2. pc' = [pc EXCEPT ![w] = "running"] /\ UNCHANGED <<state, task, commits, reopened>>
    BY <1>7 DEF Lock
  <2>3. Executors[j] = {}
    BY <2>1 DEF Executors, HoldsLock, CanLock
  <2>4. Executors' = [Executors EXCEPT ![j] = {w}]
    <3>1. {w} \in SUBSET Workers
      OBVIOUS
    <3>2. \A v \in Workers : Running(v, j)' <=> v \in {w}
      BY <2>1, <2>2, <2>3 DEF Executors
    <3>3. \A v \in Workers, i \in Jobs \ {j} : Running(v, i)' <=> Running(v, i)
      BY <2>1, <2>2
    <3> QED
      BY <3>1, <3>2, <3>3, Changed
  <2>5. Status' = Status /\ Status[j] = "waiting"
    BY <2>1, <2>2 DEF Status, Settled, CanLock
  <2>6. Contract!Begin(w, j)
    BY <2>2, <2>3, <2>4, <2>5 DEF Contract!Begin, Status, Executors
  <2> QED
    BY <2>1, <2>6 DEF Contract!Next
<1>8. ASSUME NEW w \in Workers, Finish(w) PROVE Contract!Next
  <2> PICK j \in Jobs : task[w] = j
    BY <1>8 DEF Finish
  <2>1. j \in Jobs /\ Running(w, j) /\ state[j] = "started"
    BY <1>8 DEF Finish, FreshIsStarted
  <2>2. /\ pc' = [pc EXCEPT ![w] = "idle"]
        /\ task' = [task EXCEPT ![w] = NoJob]
        /\ state' = [state EXCEPT ![j] = "done"]
        /\ commits' = [commits EXCEPT ![j] = @ + 1]
        /\ UNCHANGED reopened
    BY <1>8 DEF Finish, Leave
  <2>3. Executors[j] = {w} /\ Executors' = [Executors EXCEPT ![j] = {}]
    <3>1. Executors[j] = {w}
      BY <2>1, OneTask
    <3>2. \A v \in Workers : Running(v, j) => v = w
      BY <3>1 DEF Executors
    <3>3. \A v \in Workers : ~Running(v, j)'
      BY <2>2, <3>2
    <3>4. \A v \in Workers, i \in Jobs \ {j} : Running(v, i)' <=> Running(v, i)
      BY <2>1, <2>2
    <3> QED
      BY <3>1, <3>3, <3>4, Changed
  <2>4. Status[j] = "waiting" /\ Status' = [Status EXCEPT ![j] = "settled"]
    BY <2>1, <2>2 DEF Status, Settled
  <2>5. Contract!Commit(w, j)
    BY <2>2, <2>3, <2>4 DEF Contract!Commit, Status, Executors
  <2> QED
    BY <2>1, <2>5 DEF Contract!Next
<1>9. ASSUME NEW w \in Workers,
             Postpone(w) \/ PostponeIgnored(w) \/ Fail(w) \/ Conflict(w)
      PROVE  Contract!Next
  <2> PICK j \in Jobs : task[w] = j
    BY <1>9 DEF Postpone, PostponeIgnored, Fail, Conflict
  <2>1. j \in Jobs /\ Running(w, j)
    BY <1>9 DEF Postpone, PostponeIgnored, Fail, Conflict
  <2>2. /\ \E p \in {"closing", "aborted"} : pc' = [pc EXCEPT ![w] = p]
        /\ \A i \in Jobs \ {j} : state'[i] = state[i]
        /\ UNCHANGED <<task, commits, reopened>>
    BY <1>9 DEF Postpone, PostponeIgnored, StorePostponed, Fail, Conflict
  <2> QED
    BY <2>1, <2>2, Left
<1>10. ASSUME NEW w \in Workers, PostponeAborted(w) PROVE [Contract!Next]_(Contract!vars)
  <2> PICK j \in Jobs : task[w] = j
    BY <1>10 DEF PostponeAborted
  <2>1. /\ j \in Jobs
        /\ pc[w] = "aborted" /\ pc' = [pc EXCEPT ![w] = "closing"]
        /\ state' = [state EXCEPT ![j] = "pending"]
        /\ reopened' = [reopened EXCEPT ![j] = IF state[j] = "done" THEN @ + 1 ELSE @]
        /\ UNCHANGED <<task, commits>>
    BY <1>10 DEF PostponeAborted, StorePostponed
  <2>2. CASE Settled(j)
    <3> DEFINE r == IF state[j] = "done" THEN reopened[j] + 1 ELSE reopened[j]
    <3>1. commits[j] <= r /\ r \in {reopened[j], reopened[j] + 1}
      BY <2>1 DEF CommittedIsOver
    <3>2. /\ Executors' = Executors
          /\ Status' = [Status EXCEPT ![j] = "waiting"]
      BY <2>1, Written DEF Settled
    <3>3. reopened' = [reopened EXCEPT ![j] = r]
      BY <2>1
    <3>4. Contract!Revive(j)
      BY <2>1, <2>2, <3>1, <3>2, <3>3 DEF Contract!Revive, Status, Executors
    <3> QED
      BY <2>1, <3>4 DEF Contract!Next
  <2>3. CASE ~Settled(j)
    BY <2>1, <2>3, Invisible DEF Settled
  <2> QED
    BY <2>2, <2>3
<1>11. ASSUME NEW w \in Workers, GiveUp(w) \/ Close(w) PROVE UNCHANGED Contract!vars
  BY <1>11, Invisible DEF GiveUp, Close, Leave, Settled
<1>12. ASSUME NEW w \in Workers, Crash(w) PROVE [Contract!Next]_(Contract!vars)
  <2>1. /\ pc' = [pc EXCEPT ![w] = "idle"]
        /\ task' = [task EXCEPT ![w] = NoJob]
        /\ UNCHANGED <<state, commits, reopened>>
    BY <1>12 DEF Crash, Leave
  <2>2. CASE pc[w] = "running"
    BY <2>1, <2>2, Left
  <2>3. CASE pc[w] # "running"
    BY <2>1, <2>3, Invisible DEF Settled
  <2> QED
    BY <2>2, <2>3
<1>13. CASE UNCHANGED vars
  BY <1>13, Invisible DEF vars, Settled
<1> QED
  BY <1>1, <1>2, <1>3, <1>4, <1>5, <1>6, <1>7, <1>8, <1>9, <1>10, <1>11, <1>12, <1>13
  DEF Next, Runner, Operator, Worker

\* The whole protocol, for any number of jobs, workers, requests, crashes and
\* buttons, is an implementation of the abstract job.
THEOREM Implements == Spec => ImplementsJob
  BY ContractInit, ContractStep, IInvAlways, PTL DEF Spec, ImplementsJob, Contract!Spec
=============================================================================
