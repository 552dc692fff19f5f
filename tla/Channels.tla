------------------------------ MODULE Channels ------------------------------
(***************************************************************************)
(* The job runner's channels.  A tree of channels in memory holds the jobs *)
(* the runner knows: queued, running or failed.  Jobs flow from a channel  *)
(* into the queue of its parent as capacity allows; a job that leaves the  *)
(* root is enqueued in the database.  The memory follows the rows through  *)
(* notifications, each of which makes the runner read its row again, and   *)
(* is rebuilt from the rows when the runner starts or recovers.            *)
(*                                                                         *)
(* QueueJob and JobGraph model what happens to a row in detail; here a row *)
(* keeps what the channels react to.                                       *)
(***************************************************************************)
EXTENDS Integers, FiniteSets

CONSTANTS
  Jobs,         \* numbered by priority, date_created and id
  Channels,     \* numbered in the order they are drained, children first
  Root,
  Over,         \* Over[c]: c and the channels above it
  Home,         \* Home[j]: the channel a job is created in
  Capacity,     \* Capacity[c], 0 is unlimited
  Sequential,   \* channels configured sequential
  Throttled,    \* channels configured with a throttle
  Delayed,      \* jobs created with an eta
  Waiting,      \* jobs that wait for others at first
  MaxEvents,    \* bound: dead jobs, postponements, restarts, deletions, moves
  MaxButtons    \* bound: uses of the buttons Done, Cancel and Requeue

ASSUME ChannelAssumption ==
  /\ Jobs \subseteq Nat /\ IsFiniteSet(Jobs)
  /\ Channels \subseteq Nat /\ Root \in Channels
  /\ \A c \in Channels : \A d \in Over[c] : c <= d
  /\ Over \in [Channels -> SUBSET Channels]
  /\ \A c \in Channels : {c, Root} \subseteq Over[c] /\ Over[Root] = {Root}
  /\ \A c \in Channels \ {Root} : \E d \in Channels : Over[d] = Over[c] \ {c}
  /\ Home \in [Jobs -> Channels]
  /\ Capacity \in [Channels -> Nat]
  /\ Sequential \subseteq {c \in Channels : Capacity[c] = 1}
  /\ Throttled \subseteq Channels /\ {Delayed, Waiting} \subseteq SUBSET Jobs
  /\ {MaxEvents, MaxButtons} \subseteq Nat

VARIABLES
  state,    \* queue_job.state, "gone" once the row is deleted
  home,     \* queue_job.channel
  eta,      \* queue_job.eta: none, in the future, or past
  notes,    \* rows with a notification the runner has not processed
  queue,    \* Channel._queue
  running,  \* Channel._running
  failed,   \* Channel._failed
  paused,   \* channels that wait for the end of their throttle
  moved,    \* jobs whose eta or channel is not the one their ChannelJob has
  todo,     \* channels the current run_jobs has yet to drain
  reassigned,  \* ghost: jobs an operator has given another channel
  events, buttons

memory  == <<queue, running, failed>>
budgets == <<events, buttons>>
row     == <<state, home, eta>>
vars    == <<row, notes, memory, paused, moved, todo, reassigned, budgets>>

-----------------------------------------------------------------------------
JobState == {"wait_dependencies", "pending", "enqueued", "started", "done", "failed", "gone"}
Active   == {"enqueued", "started"}

Path(j)  == Over[home[j]]
Under(c) == {j \in Jobs : c \in Path(j)}

TypeOK ==
  /\ state \in [Jobs -> JobState]
  /\ home  \in [Jobs -> Channels]
  /\ eta   \in [Jobs -> {"none", "future", "past"}]
  /\ {notes, moved, reassigned} \subseteq SUBSET Jobs
  /\ {queue, running, failed} \subseteq [Channels -> SUBSET Jobs]
  /\ \A c \in Channels : queue[c] \cup running[c] \cup failed[c] \subseteq Under(c) \cup moved
  /\ {paused, todo} \subseteq SUBSET Channels
  /\ {events, buttons} \subseteq Nat

\* The rows there are when the runner starts; it has not read them yet.
Init ==
  /\ state   = [j \in Jobs |-> IF j \in Waiting THEN "wait_dependencies" ELSE "pending"]
  /\ home    = Home
  /\ eta     = [j \in Jobs |-> IF j \in Delayed THEN "future" ELSE "none"]
  /\ notes   = Jobs
  /\ queue   = [c \in Channels |-> {}]
  /\ running = [c \in Channels |-> {}]
  /\ failed  = [c \in Channels |-> {}]
  /\ paused = {} /\ moved = {} /\ todo = {} /\ reassigned = {}
  /\ events = 0 /\ buttons = 0

-----------------------------------------------------------------------------
(* Pure parts of the code; a name with a suffix is a faulty variant.       *)

\* get_subchannel_by_name, the other way round
Parent(c) == CHOOSE d \in Channels : Over[d] = Over[c] \ {c}

\* has_capacity
HasCapacity_OneMore(c) ==
  /\ c \in Sequential => failed[c] = {}
  /\ Capacity[c] = 0 \/ Cardinality(running[c]) <= Capacity[c]
HasCapacity(c) ==
  /\ c \in Sequential => failed[c] = {}
  /\ Capacity[c] = 0 \/ Cardinality(running[c]) < Capacity[c]

\* ChannelQueue: jobs without an eta, or past it, compete by their number.
Due(c)   == {j \in queue[c] : eta[j] # "future"}
Later(c) == queue[c] \ Due(c)
IsFirst(j, c) == j \in Due(c) /\ \A i \in Due(c) : j <= i

\* pop moves them to the other queue, and forgets their eta.
Expired(c) == {j \in queue[c] : eta[j] = "past"}

\* ChannelQueue.pop gives j.  A sequential queue waits for the next job with
\* an eta if it comes before j; which one is next is left open.
Pops(c, j) ==
  /\ HasCapacity(c)
  /\ c \notin paused
  /\ IsFirst(j, c)
  /\ c \in Sequential => Later(c) = {} \/ \E e \in Later(c) : j < e

PopsNothing(c) ==
  \/ ~HasCapacity(c)
  \/ c \in paused
  \/ Due(c) = {}
  \/ c \in Sequential /\ \E e \in Later(c), j \in Jobs : IsFirst(j, c) /\ e < j

\* Where notify puts a job: set_pending, set_running, set_failed, set_done.
QueuedIn(j)  == IF state[j] = "pending" THEN {home[j]} ELSE {}
RunningIn_Everywhere(j) == IF state[j] \in Active THEN Channels ELSE {}
RunningIn(j) == IF state[j] \in Active THEN Path(j) ELSE {}
FailedIn(j)  == IF state[j] = "failed" THEN {home[j]} ELSE {}

Put_HomeOnly(f, cs, j) ==
  [c \in Channels |-> IF c \in cs THEN f[c] \cup {j} ELSE IF c = home[j] THEN f[c] \ {j} ELSE f[c]]
Put(f, cs, j) == [c \in Channels |-> IF c \in cs THEN f[c] \cup {j} ELSE f[c] \ {j}]

\* notify leaves a job alone that is where it should be, or waits for others,
\* unless its eta or its channel has changed.
Stays(j) ==
  /\ j \notin moved
  /\ \/ state[j] = "wait_dependencies"
     \/ state[j] = "pending" /\ j \in queue[home[j]]
     \/ state[j] \in Active /\ j \in running[home[j]]
     \/ state[j] = "failed" /\ j \in failed[home[j]]

\* The states initialize_databases loads
NotDone_Failed  == {"wait_dependencies", "pending", "enqueued", "started"}
NotDone_Started == {"wait_dependencies", "pending", "enqueued", "failed"}
NotDone == {"wait_dependencies", "pending", "enqueued", "started", "failed"}
Loaded == {j \in Jobs : state[j] \in NotDone}

-----------------------------------------------------------------------------
(* The runner's loop *)

\* process_notifications: read the row as it is now, and notify.
Read(j) ==
  /\ todo = {}
  /\ j \in notes
  /\ notes' = notes \ {j}
  /\ moved' = moved \ {j}
  /\ IF Stays(j) THEN UNCHANGED memory
     ELSE /\ queue'   = Put(queue, QueuedIn(j), j)
          /\ running' = Put(running, RunningIn(j), j)
          /\ failed'  = Put(failed, FailedIn(j), j)
  /\ UNCHANGED <<row, paused, todo, reassigned, budgets>>

\* run_jobs: the channels are drained, each after its children.
RunBegin ==
  /\ todo = {}
  /\ todo' = Channels
  /\ UNCHANGED <<row, notes, memory, paused, moved, reassigned, budgets>>

Draining(c) == c \in todo /\ \A d \in todo : c <= d

\* A channel yields a job: to its parent, or to Odoo by an UPDATE of the row,
\* whatever it has become, deleted included.  A throttled channel yields one and is paused.
Yield(c, j) ==
  /\ Draining(c)
  /\ Pops(c, j)
  /\ running' = [running EXCEPT ![c] = @ \cup {j}]
  /\ queue'   = [d \in Channels |->
       IF d = c THEN queue[d] \ {j}
       ELSE IF c # Root /\ d = Parent(c) THEN queue[d] \cup {j} ELSE queue[d]]
  /\ IF c = Root /\ state[j] # "gone"
       THEN /\ state' = [state EXCEPT ![j] = "enqueued"]
            /\ notes' = notes \cup {j}
       ELSE UNCHANGED <<state, notes>>
  /\ moved'  = moved \cup Expired(c)
  /\ paused' = IF c \in Throttled THEN paused \cup {c} ELSE paused
  /\ todo'   = IF c \in Throttled THEN todo \ {c} ELSE todo
  /\ UNCHANGED <<home, eta, failed, reassigned, budgets>>

Drained(c) ==
  /\ Draining(c)
  /\ PopsNothing(c)
  /\ todo'  = todo \ {c}
  /\ moved' = IF HasCapacity(c) /\ c \notin paused THEN moved \cup Expired(c) ELSE moved
  /\ UNCHANGED <<row, notes, memory, paused, reassigned, budgets>>

\* An error in the loop or a new process: LISTEN, and load the rows.
Restart ==
  /\ events < MaxEvents
  /\ events' = events + 1
  /\ queue'   = [c \in Channels |-> {j \in Loaded : c \in QueuedIn(j)}]
  /\ running' = [c \in Channels |-> {j \in Loaded : c \in RunningIn(j)}]
  /\ failed'  = [c \in Channels |-> {j \in Loaded : c \in FailedIn(j)}]
  /\ paused' \in {paused, {}}
  /\ notes' = {} /\ moved' = {} /\ todo' = {}
  /\ UNCHANGED <<row, reassigned, buttons>>

-----------------------------------------------------------------------------
(* What becomes of the rows, and the clock *)

Update(j, s) ==
  /\ state' = [state EXCEPT ![j] = s]
  /\ notes' = notes \cup {j}
  /\ UNCHANGED <<home, memory, paused, todo, reassigned>>

\* A worker acquires the job, and ends it.
Start(j) ==
  /\ state[j] = "enqueued"
  /\ Update(j, "started")
  /\ UNCHANGED <<eta, moved, budgets>>

End(j) ==
  /\ state[j] = "started"
  /\ \E s \in {"done", "failed"} : Update(j, s)
  /\ UNCHANGED <<eta, moved, budgets>>

\* A retry gives the job an eta; it may have to wait for others by then.
Postpone(j) ==
  /\ state[j] = "started"
  /\ events < MaxEvents
  /\ events' = events + 1
  /\ \E s \in {"pending", "wait_dependencies"} : Update(j, s)
  /\ eta'   = [eta EXCEPT ![j] = "future"]
  /\ moved' = moved \cup {j}
  /\ UNCHANGED buttons

\* requeue_dead_jobs
RequeueDead(j) ==
  /\ state[j] \in Active
  /\ events < MaxEvents
  /\ events' = events + 1
  /\ \E s \in {"pending", "failed"} : Update(j, s)
  /\ UNCHANGED <<eta, moved, buttons>>

\* enqueue_waiting: the last parent of the job is done.
WakeUp(j) ==
  /\ state[j] = "wait_dependencies"
  /\ Update(j, "pending")
  /\ UNCHANGED <<eta, moved, budgets>>

\* The buttons Done (and Cancel) and Requeue
Press(j) ==
  /\ buttons < MaxButtons
  /\ buttons' = buttons + 1
  /\ \/ state[j] \in {"wait_dependencies", "pending", "enqueued", "failed"} /\ Update(j, "done")
     \/ /\ state[j] \in {"failed", "done"}
        /\ \E s \in {"pending", "wait_dependencies"} : Update(j, s)
  /\ UNCHANGED <<eta, moved, events>>

\* The form of a job, in any state: an operator gives it another channel.
Reassign(j, c) ==
  /\ events < MaxEvents
  /\ state[j] # "gone"
  /\ c # home[j]
  /\ home'       = [home EXCEPT ![j] = c]
  /\ notes'      = notes \cup {j}
  /\ moved'      = moved \cup {j}
  /\ reassigned' = reassigned \cup {j}
  /\ events'     = events + 1
  /\ UNCHANGED <<state, eta, memory, paused, todo, buttons>>

\* The autovacuum deletes the row of a job that is done, which the trigger
\* does not notify, or cancelled, which it does.
Vacuum(j) ==
  /\ state[j] = "done"
  /\ events < MaxEvents
  /\ events' = events + 1
  /\ state' = [state EXCEPT ![j] = "gone"]
  /\ notes' \in {notes, notes \cup {j}}
  /\ UNCHANGED <<home, eta, memory, paused, moved, todo, reassigned, buttons>>

\* Time passes, also within run_jobs, which reads the clock once.
EtaComes(j) ==
  /\ eta[j] = "future"
  /\ eta' = [eta EXCEPT ![j] = "past"]
  /\ UNCHANGED <<state, home, notes, memory, paused, moved, todo, reassigned, budgets>>

PauseEnds(c) ==
  /\ c \in paused
  /\ paused' = paused \ {c}
  /\ UNCHANGED <<row, notes, memory, moved, todo, reassigned, budgets>>

-----------------------------------------------------------------------------
Runner ==
  \/ \E j \in Jobs : Read(j)
  \/ RunBegin
  \/ \E c \in Channels : Drained(c) \/ \E j \in Jobs : Yield(c, j)
  \/ Restart

Row(j) ==
  \/ Start(j) \/ End(j) \/ Postpone(j) \/ RequeueDead(j) \/ WakeUp(j) \/ Press(j)
  \/ (\E c \in Channels : Reassign(j, c))
  \/ Vacuum(j)

Clock == (\E j \in Jobs : EtaComes(j)) \/ (\E c \in Channels : PauseEnds(c))

Next == Runner \/ (\E j \in Jobs : Row(j)) \/ Clock

Spec == Init /\ [][Next]_vars

\* The loop never stops, and each of its rounds reads the notifications that
\* have arrived; time passes; a worker serves an enqueued job and ends it.
Fairness ==
  /\ WF_vars(RunBegin)
  /\ WF_vars(\E c \in Channels : Drained(c) \/ \E j \in Jobs : Yield(c, j))
  /\ \A j \in Jobs :
       SF_vars(Read(j)) /\ WF_vars(EtaComes(j)) /\ WF_vars(Start(j)) /\ WF_vars(End(j))
  /\ \A c \in Throttled : WF_vars(PauseEnds(c))

FairSpec == Spec /\ Fairness

-----------------------------------------------------------------------------
(* Properties *)

\* No channel has more jobs at work in Odoo, its subchannels' included, than
\* its capacity, however late the runner hears of what happens to the rows.
\* A job that an operator moves counts for the root only: it may be at work
\* in a channel that was full when it came.
Counted(c) == IF c = Root THEN Jobs ELSE Under(c) \ reassigned
CapacityKept ==
  \A c \in Channels :
    Capacity[c] # 0 => Cardinality({j \in Counted(c) : state[j] \in Active}) <= Capacity[c]

\* channels.py: "a sequential queue blocks on failed jobs".  The runner does
\* not send a job of a sequential channel while another job of the channel
\* is at work or has failed, also when it has not heard of that yet.  Neither
\* of them is a job an operator has moved.
SequentialBlocks ==
  [][\A i, j \in Jobs :
       (/\ i # j /\ {i, j} \cap reassigned = {}
        /\ Home[i] = Home[j] /\ Home[j] \in Sequential
        /\ state[j] = "pending" /\ state'[j] = "enqueued")
       => state[i] \notin Active \cup {"failed"}]_vars

\* A job without an outstanding notification is in the channels where its
\* row says it should be; one that is on its way to the root is queued in one
\* channel and runs in those below.  (A job that waits for others may be
\* anywhere: notify leaves it where it was.)
InQueues(j)  == {c \in Channels : j \in queue[c]}
InRunning(j) == {c \in Channels : j \in running[c]}
InFailed(j)  == {c \in Channels : j \in failed[c]}
MemoryFollows ==
  \A j \in {i \in Jobs \ notes : state[i] # "wait_dependencies"} :
    IF state[j] = "pending"
      THEN /\ InFailed(j) = {}
           /\ \E c \in Path(j) : InQueues(j) = {c} /\ InRunning(j) = Path(j) \ Over[c]
      ELSE /\ InQueues(j) = {}
           /\ InRunning(j) = RunningIn(j)
           /\ InFailed(j) = FailedIn(j)

\* A pending job is sent in the end, unless another one that has failed blocks
\* its sequential channel, or one that waits for others still takes its room.
Blocked(j) ==
  \E c \in Path(j), i \in Jobs \ {j} :
    \/ c \in Sequential /\ i \in failed[c]
    \/ i \in running[c] /\ state[i] = "wait_dependencies"
EventuallySent ==
  \A j \in Jobs : state[j] = "pending" ~> (state[j] # "pending" \/ Blocked(j))
=============================================================================
