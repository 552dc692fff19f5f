------------------------------ MODULE QueueJob ------------------------------
(***************************************************************************)
(* The execution protocol of one kind of queue_job row: how the job runner *)
(* enqueues it, how an HTTP worker acquires, locks, performs and closes    *)
(* it, how the dead-job requeuer takes it back, and what the form buttons  *)
(* may do to it meanwhile.                                                 *)
(*                                                                         *)
(* PostgreSQL is modelled by what the code relies on: a commit is atomic;  *)
(* the lock on a queue_job_lock row belongs to one open transaction and is *)
(* freed when that transaction ends or is aborted by an error; a           *)
(* REPEATABLE READ transaction cannot write a row that another one wrote   *)
(* since its snapshot ("stale" below).                                     *)
(***************************************************************************)
EXTENDS Naturals

CONSTANTS
  Jobs,         \* rows of queue_job
  Workers,      \* HTTP threads able to serve /queue_job/runjob
  NoJob,        \* what an idle worker works on
  NoWorker,     \* what holds a free lock row
  MaxRetries,   \* queue_job.max_retries, 0 is "infinite"
  MaxRequests,  \* bound: run requests in flight for one job
  MaxCrashes,   \* bound: killed workers and lost requests
  MaxConflicts, \* bound: serialization failures in job bodies
  MaxButtons    \* bound: operator actions

ASSUME ConstantsAssumption ==
  /\ NoJob \notin Jobs
  /\ NoWorker \notin Workers
  /\ {MaxRetries, MaxRequests, MaxCrashes, MaxConflicts, MaxButtons} \subseteq Nat

VARIABLES
  state,        \* queue_job.state, as committed
  retry,        \* queue_job.retry, as committed
  dateEnqueued, \* queue_job.date_enqueued: NULL, under 10 s ago, or older
  lockRow,      \* whether the job's queue_job_lock row exists
  holder,       \* the worker whose transaction holds that row's lock
  requests,     \* run requests sent and not yet served
  seen,         \* the runner last read the row as pending
  pc,           \* where each worker is in runjob
  task,         \* the job each worker works on
  attempt,      \* the retry count of the worker's in-memory Job object
  stale,        \* workers whose snapshot of their job's row is out of date
  crashes, conflicts, buttons,
  commits,      \* commits of the job's body since an operator requeued it
  late,         \* postponements stored after their transaction was aborted
  reopened      \* those among them that overwrote a done row

row     == <<state, retry, dateEnqueued, lockRow>>
budgets == <<crashes, conflicts, buttons>>
ghosts  == <<commits, late, reopened>>
vars    == <<row, holder, requests, seen, pc, task, attempt, stale, budgets, ghosts>>

-----------------------------------------------------------------------------
JobState  == {"pending", "enqueued", "started", "done", "cancelled", "failed"}
WorkerPc  == {"idle", "acquired", "running", "aborted", "closing"}

TypeOK ==
  /\ state        \in [Jobs -> JobState]
  /\ retry        \in [Jobs -> Nat]
  /\ dateEnqueued \in [Jobs -> {"null", "fresh", "old"}]
  /\ lockRow      \in [Jobs -> BOOLEAN]
  /\ holder       \in [Jobs -> Workers \cup {NoWorker}]
  /\ requests     \in [Jobs -> Nat]
  /\ seen         \in [Jobs -> BOOLEAN]
  /\ pc           \in [Workers -> WorkerPc]
  /\ task         \in [Workers -> Jobs \cup {NoJob}]
  /\ attempt      \in [Workers -> Nat]
  /\ stale        \in SUBSET Workers
  /\ {crashes, conflicts, buttons} \subseteq Nat
  /\ commits      \in [Jobs -> Nat]
  /\ late         \in [Jobs -> Nat]
  /\ reopened     \in [Jobs -> Nat]

\* A job is created pending by Delayable/with_delay; it notifies the runner.
Init ==
  /\ state        = [j \in Jobs |-> "pending"]
  /\ retry        = [j \in Jobs |-> 0]
  /\ dateEnqueued = [j \in Jobs |-> "null"]
  /\ lockRow      = [j \in Jobs |-> FALSE]
  /\ holder       = [j \in Jobs |-> NoWorker]
  /\ requests     = [j \in Jobs |-> 0]
  /\ seen         = [j \in Jobs |-> FALSE]
  /\ pc           = [w \in Workers |-> "idle"]
  /\ task         = [w \in Workers |-> NoJob]
  /\ attempt      = [w \in Workers |-> 0]
  /\ stale        = {}
  /\ crashes = 0 /\ conflicts = 0 /\ buttons = 0
  /\ commits      = [j \in Jobs |-> 0]
  /\ late         = [j \in Jobs |-> 0]
  /\ reopened     = [j \in Jobs |-> 0]

-----------------------------------------------------------------------------
(* Helpers; a name with a suffix is a faulty variant, used to check that   *)
(* the properties below notice the fault.                                  *)

Running(w, j) == pc[w] = "running" /\ task[w] = j

\* Somebody else commits a write of j's row: the open transactions that
\* perform j can no longer write it.
Overtake(j, w) == stale' = stale \cup {v \in Workers \ {w} : Running(v, j)}

\* Worker w leaves runjob; its transaction ends, its lock is released.
Leave(w) ==
  /\ pc'     = [pc EXCEPT ![w] = "idle"]
  /\ task'   = [task EXCEPT ![w] = NoJob]
  /\ holder' = [j \in Jobs |-> IF holder[j] = w THEN NoWorker ELSE holder[j]]
  /\ stale'  = stale \ {w}

\* Job.lock(): the lock row exists, its job is STARTED and no other open
\* transaction holds it (SKIP LOCKED returns nothing otherwise).
CanLock_SharesLock(j) == lockRow[j] /\ state[j] = "started"
CanLock(j) == lockRow[j] /\ state[j] = "started" /\ holder[j] = NoWorker

\* The lock part of the requeuer's WHERE clause.
Unlocked_NotChecked(j) == TRUE
Unlocked_NeedsLockRow(j) == lockRow[j] /\ holder[j] = NoWorker
Unlocked(j) == ~lockRow[j] \/ holder[j] = NoWorker

\* The CASE of the requeuer: the retry count is compared before it grows.
FoundDeadForGood_OffByOne(j) == MaxRetries # 0 /\ retry[j] > MaxRetries + 1
FoundDeadForGood(j) == MaxRetries # 0 /\ retry[j] > MaxRetries

\* perform() counts the try in memory before it calls the body.
CountedTry_NotCounted(w) == attempt[w]
CountedTry(w) == attempt[w] + 1

\* perform(): a RetryableJobError of this try is turned into a FailedJobError.
MaxReached(w) == MaxRetries # 0 /\ attempt[w] >= MaxRetries

DoneFrom      == {"pending", "enqueued", "failed"}
CancelledFrom == {"pending", "enqueued", "failed"}
RequeueFrom   == {"failed", "done", "cancelled"}

-----------------------------------------------------------------------------
(* The job runner: one process, autocommit *)

\* ChannelManager.notify: only a pending row is put (back) into the queue.
PutInQueue_UnlessStarted(j) == state[j] # "started"
PutInQueue(j) == state[j] = "pending"

\* process_notifications: re-read the row, tell the channel manager.
ReadJob(j) ==
  /\ seen' = [seen EXCEPT ![j] = PutInQueue(j)]
  /\ UNCHANGED <<row, holder, requests, pc, task, attempt, stale, budgets, ghosts>>

\* run_jobs: the UPDATE names the uuid only, whatever the row's state is by
\* then; then the request goes out.
Enqueue(j) ==
  /\ seen[j]
  /\ requests[j] < MaxRequests
  /\ seen'         = [seen EXCEPT ![j] = FALSE]
  /\ state'        = [state EXCEPT ![j] = "enqueued"]
  /\ dateEnqueued' = [dateEnqueued EXCEPT ![j] = "fresh"]
  /\ requests'     = [requests EXCEPT ![j] = @ + 1]
  /\ Overtake(j, NoWorker)
  /\ UNCHANGED <<retry, lockRow, holder, pc, task, attempt, budgets, ghosts>>

\* requeue_dead_jobs, for one row.
RequeueDead(j) ==
  /\ state[j] \in {"enqueued", "started"}
  /\ dateEnqueued[j] = "old"
  /\ Unlocked(j)
  /\ state' = [state EXCEPT ![j] =
                 IF FoundDeadForGood(j) THEN "failed" ELSE "pending"]
  /\ retry' = [retry EXCEPT ![j] = IF state[j] = "started" THEN @ + 1 ELSE @]
  /\ Overtake(j, NoWorker)
  /\ UNCHANGED <<dateEnqueued, lockRow, holder, requests, seen, pc, task,
                 attempt, budgets, ghosts>>

\* Ten seconds pass.
Age(j) ==
  /\ dateEnqueued[j] = "fresh"
  /\ dateEnqueued' = [dateEnqueued EXCEPT ![j] = "old"]
  /\ UNCHANGED <<state, retry, lockRow, holder, requests, seen, pc, task,
                 attempt, stale, budgets, ghosts>>

\* The GET is fire and forget: the server may never see it.
LoseRequest(j) ==
  /\ requests[j] > 0
  /\ crashes < MaxCrashes
  /\ requests' = [requests EXCEPT ![j] = @ - 1]
  /\ crashes'  = crashes + 1
  /\ UNCHANGED <<row, holder, seen, pc, task, attempt, stale, conflicts, buttons, ghosts>>

-----------------------------------------------------------------------------
(* An HTTP worker *)

\* _acquire_job up to its commit: STARTED, and a lock row if there was none.
Acquire(w, j) ==
  /\ pc[w] = "idle"
  /\ requests[j] > 0
  /\ state[j] = "enqueued"
  /\ requests' = [requests EXCEPT ![j] = @ - 1]
  /\ state'    = [state EXCEPT ![j] = "started"]
  /\ lockRow'  = [lockRow EXCEPT ![j] = TRUE]
  /\ pc'       = [pc EXCEPT ![w] = "acquired"]
  /\ task'     = [task EXCEPT ![w] = j]
  /\ attempt'  = [attempt EXCEPT ![w] = retry[j]]
  /\ Overtake(j, w)
  /\ UNCHANGED <<retry, dateEnqueued, holder, seen, budgets, ghosts>>

\* The other outcome: the job is not ENQUEUED, the request is answered "".
Reject(j) ==
  /\ requests[j] > 0
  /\ state[j] # "enqueued"
  /\ requests' = [requests EXCEPT ![j] = @ - 1]
  /\ UNCHANGED <<row, holder, seen, pc, task, attempt, stale, budgets, ghosts>>

\* job.lock() in the transaction that follows, then perform() starts and
\* counts a try in memory.
Lock(w) ==
  /\ pc[w] = "acquired"
  /\ CanLock(task[w])
  /\ holder'  = [holder EXCEPT ![task[w]] = w]
  /\ pc'      = [pc EXCEPT ![w] = "running"]
  /\ attempt' = [attempt EXCEPT ![w] = CountedTry(w)]
  /\ UNCHANGED <<row, requests, seen, task, stale, budgets, ghosts>>

\* lock() found nothing to lock: the request ends, the row stays as it is.
GiveUp(w) ==
  /\ pc[w] = "acquired"
  /\ ~CanLock(task[w])
  /\ Leave(w)
  /\ UNCHANGED <<row, requests, seen, attempt, budgets, ghosts>>

\* _try_perform_job: the body's effects and DONE are one commit.
Finish(w) ==
  LET j == task[w] IN
  /\ pc[w] = "running"
  /\ w \notin stale
  /\ state'   = [state EXCEPT ![j] = "done"]
  /\ retry'   = [retry EXCEPT ![j] = attempt[w]]
  /\ commits' = [commits EXCEPT ![j] = @ + 1]
  /\ Leave(w)
  /\ UNCHANGED <<dateEnqueued, lockRow, requests, seen, attempt, budgets, late, reopened>>

\* postpone + set_pending(reset_retry=False) + store through a second cursor,
\* n being the retry count of the Job object.
StorePostponed(w, n) ==
  LET j == task[w] IN
  /\ state'        = [state EXCEPT ![j] = "pending"]
  /\ retry'        = [retry EXCEPT ![j] = n]
  /\ dateEnqueued' = [dateEnqueued EXCEPT ![j] = "null"]
  /\ pc'           = [pc EXCEPT ![w] = "closing"]
  /\ Overtake(j, w)
  /\ UNCHANGED <<lockRow, holder, requests, seen, task, attempt, crashes, buttons, commits>>

\* The body raises RetryableJobError; the job's transaction stays open.
Postpone(w) ==
  /\ pc[w] = "running"
  /\ ~MaxReached(w)
  /\ StorePostponed(w, attempt[w])
  /\ UNCHANGED <<conflicts, late, reopened>>

\* The same with ignore_retry: this try is not counted.
PostponeIgnored(w) ==
  /\ pc[w] = "running"
  /\ StorePostponed(w, attempt[w] - 1)
  /\ UNCHANGED <<conflicts, late, reopened>>

\* Any other exception, or a RetryableJobError of the last try: FAILED is
\* stored through a second cursor, then the exception goes up.
Fail(w) ==
  LET j == task[w] IN
  /\ pc[w] = "running"
  /\ state' = [state EXCEPT ![j] = "failed"]
  /\ retry' = [retry EXCEPT ![j] = attempt[w]]
  /\ pc'    = [pc EXCEPT ![w] = "closing"]
  /\ Overtake(j, w)
  /\ UNCHANGED <<dateEnqueued, lockRow, holder, requests, seen, task, attempt,
                 budgets, ghosts>>

\* PostgreSQL refuses a write of the body, or of the job's own row when it is
\* stale, with a serialization failure: it aborts the transaction and frees
\* the lock before Python handles the error.
Conflict(w) ==
  /\ pc[w] = "running"
  /\ conflicts < MaxConflicts
  /\ conflicts' = conflicts + 1
  /\ pc'      = [pc EXCEPT ![w] = "aborted"]
  /\ holder'  = [holder EXCEPT ![task[w]] = NoWorker]
  /\ stale'   = stale \ {w}
  /\ UNCHANGED <<row, requests, seen, task, attempt, crashes, buttons, ghosts>>

\* The OperationalError becomes a RetryableJobError outside perform(), so the
\* retry limit is not looked at, and the row is overwritten as it is by now.
PostponeAborted(w) ==
  /\ pc[w] = "aborted"
  /\ StorePostponed(w, attempt[w])
  /\ late'     = [late EXCEPT ![task[w]] = @ + 1]
  /\ reopened' = [reopened EXCEPT ![task[w]] = IF state[task[w]] = "done" THEN @ + 1 ELSE @]
  /\ UNCHANGED conflicts

\* The rollback that ends the request.
Close(w) ==
  /\ pc[w] = "closing"
  /\ Leave(w)
  /\ UNCHANGED <<row, requests, seen, attempt, budgets, ghosts>>

\* The worker process dies; PostgreSQL rolls its transaction back.
Crash(w) ==
  /\ pc[w] # "idle"
  /\ crashes < MaxCrashes
  /\ crashes' = crashes + 1
  /\ Leave(w)
  /\ UNCHANGED <<row, requests, seen, attempt, conflicts, buttons, ghosts>>

-----------------------------------------------------------------------------
(* The form buttons: one transaction each, re-run by Odoo on a conflict *)

Press(j) ==
  /\ buttons < MaxButtons
  /\ buttons' = buttons + 1
  /\ Overtake(j, NoWorker)
  /\ UNCHANGED <<lockRow, holder, requests, seen, pc, task, attempt, crashes, conflicts, late,
                 reopened>>

ButtonDone(j) ==
  /\ state[j] \in DoneFrom
  /\ state' = [state EXCEPT ![j] = "done"]
  /\ Press(j)
  /\ UNCHANGED <<retry, dateEnqueued, commits>>

ButtonCancelled(j) ==
  /\ state[j] \in CancelledFrom
  /\ state' = [state EXCEPT ![j] = "cancelled"]
  /\ Press(j)
  /\ UNCHANGED <<retry, dateEnqueued, commits>>

Requeue(j) ==
  /\ state[j] \in RequeueFrom
  /\ state'        = [state EXCEPT ![j] = "pending"]
  /\ retry'        = [retry EXCEPT ![j] = 0]
  /\ dateEnqueued' = [dateEnqueued EXCEPT ![j] = "null"]
  /\ commits'      = [commits EXCEPT ![j] = 0]
  /\ Press(j)

-----------------------------------------------------------------------------
Runner(j) == ReadJob(j) \/ Enqueue(j) \/ RequeueDead(j) \/ Age(j) \/ LoseRequest(j) \/ Reject(j)

Worker(w) ==
  \/ \E j \in Jobs : Acquire(w, j)
  \/ Lock(w) \/ GiveUp(w)
  \/ Finish(w) \/ Postpone(w) \/ PostponeIgnored(w) \/ Fail(w) \/ Conflict(w)
  \/ PostponeAborted(w) \/ Close(w)
  \/ Crash(w)

Operator(j) == ButtonDone(j) \/ ButtonCancelled(j) \/ Requeue(j)

Next ==
  \/ \E j \in Jobs : Runner(j) \/ Operator(j)
  \/ \E w \in Workers : Worker(w)

Spec == Init /\ [][Next]_vars

\* The runner's loop never stops, PostgreSQL's clock runs, and a worker
\* process that is alive ends what it began.  The web server is assumed to
\* serve a request before the requeuer takes the job back, if that is tried
\* again and again (strong fairness of Acquire): the code retries for ever
\* and nothing in it bounds the wait.
Fairness ==
  /\ \A j \in Jobs :
       /\ WF_vars(ReadJob(j)) /\ WF_vars(Enqueue(j)) /\ WF_vars(Reject(j))
       /\ WF_vars(Age(j)) /\ WF_vars(RequeueDead(j))
       /\ SF_vars(\E w \in Workers : Acquire(w, j))
  /\ \A w \in Workers :
       /\ WF_vars(Lock(w) \/ GiveUp(w))
       /\ WF_vars(Finish(w) \/ Postpone(w) \/ Fail(w))
       /\ WF_vars(PostponeAborted(w))
       /\ WF_vars(Close(w))

FairSpec == Spec /\ Fairness

-----------------------------------------------------------------------------
(* Properties *)

\* Two workers never execute the body of the same job at the same time,
\* whatever was requeued, re-sent or killed in between (Job.lock,
\* requeue_dead_jobs).
MutualExclusion ==
  \A v, w \in Workers : \A j \in Jobs : Running(v, j) /\ Running(w, j) => v = w

\* As long as no job body has met a serialization failure, nobody writes the
\* row of a job that is being executed: the requeuer skips its lock, the
\* buttons skip its state, the runner's blind UPDATE cannot reach it.
RunningIsLeftAlone ==
  conflicts = 0 =>
    \A w \in Workers : pc[w] = "running" => w \notin stale /\ state[task[w]] = "started"

\* The effects of a job are committed at most once each time an operator
\* sends it, but for the postponements written after their transaction was
\* already aborted, which may reopen a job another worker has done.
CommittedOnce == \A j \in Jobs : commits[j] <= 1 + reopened[j]

\* A job that may still run has not been tried more often than the retry
\* limit, the one try the requeuer grants above it (it compares before it
\* counts), and one for each late postponement (a serialization failure is
\* postponed without a look at the limit).
RetryWithinLimit ==
  MaxRetries # 0 =>
    \A j \in Jobs :
      state[j] \in {"pending", "enqueued"} => retry[j] <= MaxRetries + 1 + late[j]

\* The abstract job this protocol implements: a job waits until its row is
\* done, failed or cancelled, and its executors are the workers in its body.
Settled(j) == state[j] \in {"done", "failed", "cancelled"}

Contract == INSTANCE Job WITH
  status    <- [j \in Jobs |-> IF Settled(j) THEN "settled" ELSE "waiting"],
  executors <- [j \in Jobs |-> {w \in Workers : Running(w, j)}],
  effects   <- commits

\* Every step of the runner, the workers, the requeuer and the buttons is a
\* step of the abstract job or none: the body is begun only for a waiting job
\* nobody executes, its effects and its end are one step of the one executor,
\* and a job with committed effects waits again only when an operator sends
\* it or a counted late postponement reopens it.
ImplementsJob == Contract!Spec

\* Every job that waits for its turn is executed in the end, or settled by
\* an operator or by the requeuer: lost requests, dead workers and lost races
\* for the lock never leave it behind.
EventuallyExecuted == Contract!Served

\* No job stays enqueued or started for ever.
NeverStuck ==
  \A j \in Jobs :
    state[j] \in {"enqueued", "started"} ~> state[j] \notin {"enqueued", "started"}
=============================================================================
