------------------------------ MODULE JobRunner ------------------------------
(***************************************************************************)
(* Several job runners, one per Odoo server, over the same databases.  A   *)
(* runner opens one session per database, in the order of their names, and *)
(* works for all of them or for none: the first session that is refused    *)
(* the database's advisory lock, or that breaks, makes it close all its    *)
(* sessions, sleep and start again.                                        *)
(*                                                                         *)
(* A session and its lock live in the PostgreSQL server: they may end      *)
(* without the runner's knowledge, or outlive what the runner has closed.  *)
(* One job row per database is enough to see who enqueues it and what a    *)
(* runner knows of it; QueueJob models how it is executed, Channels which  *)
(* of several rows is sent.                                                *)
(***************************************************************************)
EXTENDS Naturals

CONSTANTS
  Runners,      \* the servers' runner threads or processes
  N,            \* number of databases, named by their rank: 1..N
  Free, Lost,   \* holders of a lock: none; a session its runner has given up
  MaxFailures,  \* bound: dead sessions, dead runners, stops and lost requests
  MaxUsers      \* bound: jobs added and jobs set to done by users

ASSUME RunnerAssumption ==
  /\ N \in Nat \ {0}
  /\ Free \notin Runners /\ Lost \notin Runners /\ Free # Lost
  /\ {MaxFailures, MaxUsers} \subseteq Nat

VARIABLES
  phase,     \* where each runner is in run()
  at,        \* the rank it has reached in the loop of that phase
  stop,      \* runner._stop
  open,      \* the databases it has a session with
  broken,    \* those of them whose session no longer exists in the server
  listens,   \* those of them whose session has done LISTEN
  notice,    \* those of them with a notification it has not processed
  queued,    \* the databases whose job it has in its queue
  lock,      \* the session that holds the advisory lock of each database
  row,       \* state of the job row of each database, as committed
  request,   \* databases whose run request is on its way
  failures, users

sessions == <<stop, open, broken, listens, lock>>
runner   == <<phase, at, sessions, notice, queued>>
vars     == <<runner, row, request, failures, users>>

-----------------------------------------------------------------------------
Databases == 1..N
Phase == {"off", "connect", "listen", "load", "requeue", "notify", "run", "request", "wait",
          "sleep"}

TypeOK ==
  /\ phase   \in [Runners -> Phase]
  /\ at      \in [Runners -> Databases]
  /\ stop    \in [Runners -> BOOLEAN]
  /\ open    \in [Runners -> SUBSET Databases]
  /\ broken  \in [Runners -> SUBSET Databases]
  /\ listens \in [Runners -> SUBSET Databases]
  /\ notice  \in [Runners -> SUBSET Databases]
  /\ queued  \in [Runners -> SUBSET Databases]
  /\ lock    \in [Databases -> Runners \cup {Free, Lost}]
  /\ row     \in [Databases -> {"pending", "enqueued", "done"}]
  /\ request \in SUBSET Databases
  /\ failures \in Nat /\ users \in Nat

Init ==
  /\ phase   = [r \in Runners |-> "off"]
  /\ at      = [r \in Runners |-> 1]
  /\ stop    = [r \in Runners |-> FALSE]
  /\ open    = [r \in Runners |-> {}]
  /\ broken  = [r \in Runners |-> {}]
  /\ listens = [r \in Runners |-> {}]
  /\ notice  = [r \in Runners |-> {}]
  /\ queued  = [r \in Runners |-> {}]
  /\ lock    = [d \in Databases |-> Free]
  /\ row     = [d \in Databases |-> "pending"]
  /\ request = {}
  /\ failures = 0 /\ users = 0

-----------------------------------------------------------------------------
(* Helpers; a name with a suffix is a faulty variant.                      *)

\* sorted(self.get_db_names()); a server may list them in any order.
DbAt_Unsorted(r) ==
  IF r = CHOOSE s \in Runners : TRUE THEN at[r] ELSE N + 1 - at[r]
DbAt(r) == at[r]

\* pg_try_advisory_lock
CanLock_Ignored(d) == TRUE
CanLock(d) == lock[d] = Free

\* What a session of r can do: the runner holds it and the server has it.
Alive(r, d) == d \in open[r] \ broken[r]

Goto(r, p, i) ==
  /\ phase' = [phase EXCEPT ![r] = p]
  /\ at'    = [at EXCEPT ![r] = i]

\* The next database of a loop, or what follows the loop.
Advance_PastTheEnd(r, p, after) ==
  IF at[r] <= N THEN Goto(r, p, at[r] + 1) ELSE Goto(r, after, 1)
Advance(r, p, after) ==
  IF at[r] < N THEN Goto(r, p, at[r] + 1) ELSE Goto(r, after, 1)

\* The trigger of the table notifies every session that listens.
Store(d, state) ==
  /\ row'    = [row EXCEPT ![d] = state]
  /\ notice' = [s \in Runners |->
                  IF d \in listens[s] \ broken[s] THEN notice[s] \cup {d} ELSE notice[s]]

\* What is done with one database after the step p: LISTEN, then SELECT.
Following_SelectFirst(p) ==
  CASE p = "connect" -> "load" [] p = "load" -> "listen" [] p = "listen" -> "next"
Following(p) ==
  CASE p = "connect" -> "listen" [] p = "listen" -> "load" [] p = "load" -> "next"

Proceed(r, p) ==
  IF Following(p) = "next"
    THEN Advance(r, "connect", IF stop[r] THEN "wait" ELSE "requeue")
    ELSE Goto(r, Following(p), at[r])

\* close_databases and remove_db
CloseAll(r) ==
  /\ open'    = [open EXCEPT ![r] = {}]
  /\ broken'  = [broken EXCEPT ![r] = {}]
  /\ listens' = [listens EXCEPT ![r] = {}]
  /\ notice'  = [notice EXCEPT ![r] = {}]
  /\ queued'  = [queued EXCEPT ![r] = {}]
  /\ lock'    = [d \in Databases |-> IF lock[d] = r THEN Free ELSE lock[d]]

\* MasterElectionLost, or any exception: close, sleep, start again.
Recover(r) ==
  /\ CloseAll(r)
  /\ Goto(r, "sleep", 1)
  /\ UNCHANGED <<stop, row, request, failures, users>>

\* The end of run(): only the sessions are closed, the object is not used again.
Exit(r) ==
  /\ CloseAll(r)
  /\ Goto(r, "off", 1)
  /\ UNCHANGED <<stop, row, request, failures, users>>

-----------------------------------------------------------------------------
(* initialize_databases *)

\* A thread of the server starts, or the prefork server spawns a worker.
Start(r) ==
  /\ phase[r] = "off"
  /\ Goto(r, "connect", 1)
  /\ stop' = [stop EXCEPT ![r] = FALSE]
  /\ UNCHANGED <<open, broken, listens, lock, notice, queued, row, request, failures, users>>

Connect(r) ==
  LET d == DbAt(r) IN
  /\ phase[r] = "connect"
  /\ CanLock(d)
  /\ lock' = [lock EXCEPT ![d] = r]
  /\ open' = [open EXCEPT ![r] = @ \cup {d}]
  /\ Proceed(r, "connect")
  /\ UNCHANGED <<stop, broken, listens, notice, queued, row, request, failures, users>>

ElectionLost(r) ==
  /\ phase[r] = "connect"
  /\ ~CanLock(DbAt(r))
  /\ Recover(r)

Listen(r) ==
  LET d == DbAt(r) IN
  /\ phase[r] = "listen"
  /\ Alive(r, d)
  /\ listens' = [listens EXCEPT ![r] = @ \cup {d}]
  /\ Proceed(r, "listen")
  /\ UNCHANGED <<stop, open, broken, lock, notice, queued, row, request, failures, users>>

\* What a runner queues of the row it reads.
Read(r, d) ==
  queued' = [queued EXCEPT ![r] = IF row[d] = "pending" THEN @ \cup {d} ELSE @ \ {d}]

Load(r) ==
  LET d == DbAt(r) IN
  /\ phase[r] = "load"
  /\ Alive(r, d)
  /\ Read(r, d)
  /\ Proceed(r, "load")
  /\ UNCHANGED <<sessions, notice, row, request, failures, users>>

\* ERROR_RECOVERY_DELAY is over.
Wake(r) ==
  /\ phase[r] = "sleep"
  /\ Goto(r, IF stop[r] THEN "off" ELSE "connect", 1)
  /\ UNCHANGED <<sessions, notice, queued, row, request, failures, users>>

-----------------------------------------------------------------------------
(* The inner loop *)

\* requeue_dead_jobs.  Here a request is served within the ten seconds.
Dead(d) == row[d] = "enqueued" /\ d \notin request

RequeueDead(r) ==
  LET d == DbAt(r) IN
  /\ phase[r] = "requeue"
  /\ Alive(r, d)
  /\ Advance(r, "requeue", "notify")
  /\ IF Dead(d) THEN Store(d, "pending") ELSE UNCHANGED <<row, notice>>
  /\ UNCHANGED <<sessions, queued, request, failures, users>>

\* process_notifications: keep_alive, or the row that changed is read again.
ProcessNotifications(r) ==
  LET d == DbAt(r) IN
  /\ phase[r] = "notify"
  /\ Alive(r, d)
  /\ Advance(r, "notify", "run")
  /\ IF d \in notice[r] /\ ~stop[r]
       THEN Read(r, d) /\ notice' = [notice EXCEPT ![r] = @ \ {d}]
       ELSE UNCHANGED <<queued, notice>>
  /\ UNCHANGED <<sessions, row, request, failures, users>>

\* run_jobs: set_job_enqueued...
Enqueue(r) ==
  LET d == DbAt(r) IN
  /\ phase[r] = "run"
  /\ d \in queued[r] /\ ~stop[r]
  /\ Alive(r, d)
  /\ Store(d, "enqueued")
  /\ queued' = [queued EXCEPT ![r] = @ \ {d}]
  /\ Goto(r, "request", at[r])
  /\ UNCHANGED <<sessions, request, failures, users>>

\* ...then a thread sends the request.
Request(r) ==
  /\ phase[r] = "request"
  /\ request' = request \cup {DbAt(r)}
  /\ Advance(r, "run", "wait")
  /\ UNCHANGED <<sessions, notice, queued, row, failures, users>>

RunNothing(r) ==
  /\ phase[r] = "run"
  /\ DbAt(r) \notin queued[r] \/ stop[r]
  /\ Advance(r, "run", "wait")
  /\ UNCHANGED <<sessions, notice, queued, row, request, failures, users>>

\* wait_notification ends with a notification or its timeout.
Wait(r) ==
  /\ phase[r] = "wait" /\ ~stop[r]
  /\ Goto(r, "requeue", 1)
  /\ UNCHANGED <<sessions, notice, queued, row, request, failures, users>>

Stopped(r) ==
  /\ phase[r] = "wait" /\ stop[r]
  /\ Exit(r)

\* A statement on a session that is gone raises an exception.
Uses(r) ==
  \/ phase[r] \in {"listen", "load", "requeue", "notify"}
  \/ phase[r] = "run" /\ DbAt(r) \in queued[r] /\ ~stop[r]

NoticeBroken(r) ==
  /\ Uses(r)
  /\ ~Alive(r, DbAt(r))
  /\ Recover(r)

-----------------------------------------------------------------------------
(* What may go wrong *)

Fails == failures < MaxFailures /\ failures' = failures + 1

\* A signal asks for a graceful stop (server shutdown, CPU time limit).
Stop(r) ==
  /\ phase[r] # "off" /\ ~stop[r]
  /\ Fails
  /\ stop' = [stop EXCEPT ![r] = TRUE]
  /\ UNCHANGED <<phase, at, open, broken, listens, lock, notice, queued, row, request, users>>

\* The process dies; the server ends its sessions.
Crash(r) ==
  /\ phase[r] # "off"
  /\ Fails
  /\ CloseAll(r)
  /\ Goto(r, "off", 1)
  /\ UNCHANGED <<stop, row, request, users>>

\* A session ends in the server, or its connection breaks and the server
\* keeps it and its lock until it notices.
BreakSession(r, d) ==
  /\ Alive(r, d)
  /\ Fails
  /\ broken' = [broken EXCEPT ![r] = @ \cup {d}]
  /\ notice' = [notice EXCEPT ![r] = @ \ {d}]
  /\ \E holder \in {Free, Lost} : lock' = [lock EXCEPT ![d] = holder]
  /\ UNCHANGED <<phase, at, stop, open, listens, queued, row, request, users>>

EndLost(d) ==
  /\ lock[d] = Lost
  /\ lock' = [lock EXCEPT ![d] = Free]
  /\ UNCHANGED <<phase, at, stop, open, broken, listens, notice, queued, row, request, failures,
                 users>>

LoseRequest(d) ==
  /\ d \in request
  /\ Fails
  /\ request' = request \ {d}
  /\ UNCHANGED <<runner, row, users>>

-----------------------------------------------------------------------------
(* The rest of the system *)

\* /queue_job/runjob performs a job that is enqueued.
Perform(d) ==
  /\ d \in request
  /\ request' = request \ {d}
  /\ IF row[d] = "enqueued" THEN Store(d, "done") ELSE UNCHANGED <<row, notice>>
  /\ UNCHANGED <<phase, at, sessions, queued, failures, users>>

UserActs == users < MaxUsers /\ users' = users + 1

NewJob(d) ==
  /\ row[d] = "done"
  /\ UserActs
  /\ Store(d, "pending")
  /\ UNCHANGED <<phase, at, sessions, queued, request, failures>>

ButtonDone(d) ==
  /\ row[d] # "done"
  /\ UserActs
  /\ Store(d, "done")
  /\ UNCHANGED <<phase, at, sessions, queued, request, failures>>

-----------------------------------------------------------------------------
Initialize(r) ==
  Start(r) \/ Connect(r) \/ ElectionLost(r) \/ Listen(r) \/ Load(r) \/ Wake(r)

Loop(r) ==
  RequeueDead(r) \/ ProcessNotifications(r) \/ Enqueue(r) \/ Request(r) \/ RunNothing(r)
  \/ Wait(r) \/ Stopped(r) \/ NoticeBroken(r)

Next ==
  \/ \E r \in Runners : Initialize(r) \/ Loop(r) \/ Stop(r) \/ Crash(r)
  \/ \E r \in Runners, d \in Databases : BreakSession(r, d)
  \/ \E d \in Databases : EndLost(d) \/ LoseRequest(d) \/ Perform(d) \/ NewJob(d) \/ ButtonDone(d)

Spec == Init /\ [][Next]_vars

\* A runner never stands still (the loop has a timeout, the sleeps end, and a
\* runner that ended is started again), PostgreSQL ends a session whose client
\* is gone, and the web server serves a request.
Fairness ==
  /\ \A r \in Runners : WF_vars(Initialize(r) \/ Loop(r))
  /\ \A d \in Databases : WF_vars(EndLost(d)) /\ WF_vars(Perform(d))

FairSpec == Spec /\ Fairness

-----------------------------------------------------------------------------
(* Properties *)

\* Two runners never have a session that may write to the same database,
\* whatever sessions were lost, given up or replaced: the writes go through
\* the session that holds the advisory lock.
OneMaster ==
  \A r, s \in Runners : \A d \in Databases : Alive(r, d) /\ Alive(s, d) => r = s

\* Once its session has loaded the rows of a database, a runner knows whether
\* the job is pending, or has a notification to process: no change is missed
\* between LISTEN, SELECT and the notifications.
Loaded(r, d) ==
  /\ Alive(r, d)
  /\ d = DbAt(r) => phase[r] \notin {"connect", "listen", "load"}
Informed ==
  \A r \in Runners : \A d \in Databases :
    Loaded(r, d) => (d \in queued[r] <=> row[d] = "pending") \/ d \in notice[r]

\* Every pending job is performed or closed in the end: when a runner loses a
\* session or dies, some runner wins all the locks again, in the order of the
\* names, and takes the job over.
EventuallyPerformed == \A d \in Databases : row[d] = "pending" ~> row[d] = "done"
=============================================================================
