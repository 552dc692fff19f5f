------------------------------ MODULE JobGraph ------------------------------
(***************************************************************************)
(* Dependencies between the jobs of one graph: a child waits until all its *)
(* parents are done.  A worker commits its job as done and wakes the       *)
(* children up in a second transaction; the form buttons change a job and  *)
(* its children in one.  Every transaction is REPEATABLE READ: it decides  *)
(* on a snapshot and may commit if nobody else wrote the rows it writes    *)
(* ("missed"), whatever became of the rows it only read.  A cron deletes   *)
(* the rows of jobs that ended long ago.                                   *)
(*                                                                         *)
(* QueueJob models how one job is executed; here pending stands for        *)
(* pending and enqueued, which the dependency code does not tell apart.    *)
(***************************************************************************)
EXTENDS Naturals

CONSTANTS
  Jobs,
  Parents,      \* Parents[j]: the jobs j depends on
  Users,        \* sessions that press buttons
  NoJob,
  MaxCrashes,   \* bound: workers killed between the two transactions
  MaxButtons    \* bound: operator actions

ASSUME GraphAssumption ==
  /\ Parents \in [Jobs -> SUBSET Jobs]
  /\ Jobs \cap Users = {}
  /\ NoJob \notin Jobs \cup Users
  /\ MaxCrashes \in Nat
  /\ MaxButtons \in Nat

VARIABLES
  state,     \* queue_job.state, as committed
  ready,     \* at its last acquisition the job's parents were all done
  waking,    \* done jobs whose worker has yet to run enqueue_waiting
  op,        \* the open transaction of each actor: its kind,
  on,        \*   its job,
  snap,      \*   the states it sees,
  missed,    \*   the rows others wrote since
  undated,   \* cancelled jobs without a date_cancelled
  crashes, buttons,
  wasDone,   \* ghost: jobs that have been done at some time
  dropped,   \* ghost: jobs deleted as cancelled
  lost,      \* ghost: jobs whose wake-up never took place
  misread    \* ghost: jobs whose dependencies were judged on outdated states

txns   == <<op, on, snap, missed>>
ghosts == <<wasDone, dropped, lost, misread>>
vars   == <<state, ready, waking, undated, txns, crashes, buttons, ghosts>>

-----------------------------------------------------------------------------
JobState == {"wait_dependencies", "pending", "started", "done", "cancelled", "failed",
             "deleted"}    \* no row
Button   == {"done", "cancelled", "requeue"}
Actors   == Jobs \cup Users    \* a job acts for the worker that finished it

TypeOK ==
  /\ state   \in [Jobs -> JobState]
  /\ ready   \in [Jobs -> BOOLEAN]
  /\ {waking, undated} \subseteq SUBSET Jobs
  /\ op      \in [Actors -> Button \cup {"wake", "none"}]
  /\ on      \in [Actors -> Jobs \cup {NoJob}]
  /\ snap    \in [Actors -> [Jobs -> JobState]]
  /\ missed  \in [Actors -> SUBSET Jobs]
  /\ crashes \in Nat
  /\ buttons \in Nat
  /\ {wasDone, dropped, lost, misread} \subseteq SUBSET Jobs

NoSnapshot == [j \in Jobs |-> "pending"]

\* add_depends: a job stored with a parent that is not done waits.
FirstState(j) == IF Parents[j] = {} THEN "pending" ELSE "wait_dependencies"

Init ==
  /\ state   = [j \in Jobs |-> FirstState(j)]
  /\ ready   = [j \in Jobs |-> FALSE]
  /\ waking  = {}
  /\ op      = [a \in Actors |-> "none"]
  /\ on      = [a \in Actors |-> NoJob]
  /\ snap    = [a \in Actors |-> NoSnapshot]
  /\ missed  = [a \in Actors |-> {}]
  /\ undated = {}
  /\ crashes = 0 /\ buttons = 0
  /\ wasDone = {} /\ dropped = {} /\ lost = {} /\ misread = {}

-----------------------------------------------------------------------------
(* What the code computes from the states s it sees; a name with a suffix  *)
(* is a faulty variant, used to check that the properties notice it.       *)

Children(j) == {c \in Jobs : j \in Parents[c]}

\* should_check_dependents
HasChildren_MoreThanOne(j) == \E b, c \in Children(j) : b # c
HasChildren(j) == Children(j) # {}

\* "%s = ALL(jobs.parent_states)"; a parent whose row is deleted has no state.
AllParents_AnyParent(s, c, v) == \E p \in Parents[c] : s[p] = v
AllParents(s, c, v) == \A p \in Parents[c] : s[p] \in {v, "deleted"}

\* _get_common_dependent_jobs_query: the waiting children of j whose parents
\* are all in state v.
Dependents(s, j, v) ==
  {c \in Children(j) : s[c] = "wait_dependencies" /\ AllParents(s, c, v)}

\* set_pending
PendingOrWait(s, j) == IF AllParents(s, j, "done") THEN "pending" ELSE "wait_dependencies"

\* The states a button acts on.
From(button) ==
  CASE button = "requeue" -> {"failed", "done", "cancelled"}
    [] OTHER              -> {"wait_dependencies", "pending", "failed"}

\* The state a transaction gives its own job, and the children it updates
\* once it sees that.
OwnState_ButtonName(a) == IF op[a] = "wake" THEN "done" ELSE op[a]
OwnState(a) ==
  CASE op[a] = "requeue" -> PendingOrWait(snap[a], on[a])
    [] op[a] = "wake"    -> "done"
    [] OTHER             -> op[a]

Updated(a) ==
  IF op[a] = "requeue" THEN {}
  ELSE Dependents([snap[a] EXCEPT ![on[a]] = OwnState(a)], on[a], OwnState(a))

ChildState(a) == IF op[a] = "cancelled" THEN "cancelled" ELSE "pending"

\* The rows a transaction writes: enqueue_waiting leaves its own job alone.
Written(a) == IF op[a] = "wake" THEN Updated(a) ELSE Updated(a) \cup {on[a]}

-----------------------------------------------------------------------------
(* Transactions *)

\* A commit that writes the rows in rows is missed by every other open one.
Commit(a, rows) ==
  missed' = [b \in Actors |->
               IF b = a \/ op[b] = "none" THEN {} ELSE missed[b] \cup rows]

Open(a, kind, j) ==
  /\ op[a] = "none"
  /\ op'     = [op EXCEPT ![a] = kind]
  /\ on'     = [on EXCEPT ![a] = j]
  /\ snap'   = [snap EXCEPT ![a] = state]
  /\ UNCHANGED <<missed, state, ready>>

Close(a) ==
  /\ op'   = [op EXCEPT ![a] = "none"]
  /\ on'   = [on EXCEPT ![a] = NoJob]
  /\ snap' = [snap EXCEPT ![a] = NoSnapshot]

\* The commit of what transaction a does.
Write(a) ==
  /\ Written(a) \cap missed[a] = {}
  /\ state' = [j \in Jobs |->
                 IF j \in Updated(a) THEN ChildState(a)
                 ELSE IF j \in Written(a) THEN OwnState(a)
                 ELSE state[j]]
  /\ undated' = (undated \ Written(a)) \cup (IF op[a] = "cancelled" THEN Updated(a) ELSE {})
  /\ wasDone' = wasDone \cup {j \in Jobs : state'[j] = "done"}
  /\ Commit(a, Written(a))
  /\ Close(a)

-----------------------------------------------------------------------------
(* Workers; each of the first four is one commit *)

SetState(j, v) ==
  /\ state' = [state EXCEPT ![j] = v]
  /\ Commit(NoJob, {j})
  /\ UNCHANGED <<op, on, snap, undated, crashes, buttons, lost>>

\* set_started and store, which loads the parents and keeps their states.
Acquire(j) ==
  /\ state[j] = "pending"
  /\ SetState(j, "started")
  /\ ready' = [ready EXCEPT ![j] = AllParents(state, j, "done")]
  /\ UNCHANGED <<waking, wasDone, dropped, misread>>

\* The job is done and committed; waking its children up comes after.
\* Bound: no second completion before the first one's wake-up.
Finish(j) ==
  /\ state[j] = "started"
  /\ j \notin waking
  /\ SetState(j, "done")
  /\ waking'  = IF HasChildren(j) THEN waking \cup {j} ELSE waking
  /\ wasDone' = wasDone \cup {j}
  /\ UNCHANGED <<ready, dropped, misread>>

Fail(j) ==
  /\ state[j] = "started"
  /\ SetState(j, "failed")
  /\ UNCHANGED <<ready, waking, wasDone, dropped, misread>>

\* retry_postpone: set_pending goes by the parents loaded at the acquisition.
Postpone(j) ==
  /\ state[j] = "started"
  /\ SetState(j, IF ready[j] THEN "pending" ELSE "wait_dependencies")
  /\ misread' = IF ready[j] THEN misread ELSE misread \cup {j}
  /\ UNCHANGED <<ready, waking, wasDone, dropped>>

\* enqueue_waiting: its UPDATE opens a transaction...
WakeBegin(j) ==
  /\ j \in waking
  /\ Open(j, "wake", j)
  /\ UNCHANGED <<waking, undated, crashes, buttons, ghosts>>

\* ...that commits with the request...
WakeCommit(j) ==
  /\ op[j] = "wake"
  /\ Write(j)
  /\ waking' = waking \ {j}
  /\ UNCHANGED <<ready, crashes, buttons, dropped, lost, misread>>

\* ...or meets a child somebody else has written.  All retries run in the
\* same transaction, on the same snapshot, and meet it again.
WakeRefused(j) ==
  /\ op[j] = "wake"
  /\ Written(j) \cap missed[j] # {}
  /\ waking' = waking \ {j}
  /\ lost'   = lost \cup {j}
  /\ Commit(j, {})
  /\ Close(j)
  /\ UNCHANGED <<state, ready, undated, crashes, buttons, wasDone, dropped, misread>>

\* The worker dies after the commit of DONE and before that of the wake-up.
WakeCrash(j) ==
  /\ j \in waking
  /\ crashes < MaxCrashes
  /\ crashes' = crashes + 1
  /\ waking'  = waking \ {j}
  /\ lost'    = lost \cup {j}
  /\ Commit(j, {})
  /\ Close(j)
  /\ UNCHANGED <<state, ready, undated, buttons, wasDone, dropped, misread>>

-----------------------------------------------------------------------------
(* Buttons *)

Press(u, button, j) ==
  /\ buttons < MaxButtons
  /\ state[j] \in From(button)
  /\ Open(u, button, j)
  /\ buttons' = buttons + 1
  /\ UNCHANGED <<waking, undated, crashes, ghosts>>

\* The jobs whose dependencies the transaction judges.
Judged(u) ==
  CASE op[u] = "done"    -> Children(on[u])
    [] op[u] = "requeue" -> {on[u]}
    [] OTHER             -> {}

ButtonCommit(u) ==
  /\ op[u] # "none"
  /\ Write(u)
  /\ misread' = misread \cup {c \in Judged(u) : missed[u] \cap (Parents[c] \cup {c}) # {}}
  /\ UNCHANGED <<ready, waking, crashes, buttons, dropped, lost>>

\* A conflict on a written row: Odoo rolls back and runs the request again,
\* on a new snapshot; the button may no longer apply.
ButtonRerun(u) ==
  /\ op[u] # "none"
  /\ Written(u) \cap missed[u] # {}
  /\ Commit(u, {})
  /\ \/ /\ state[on[u]] \in From(op[u])
        /\ snap' = [snap EXCEPT ![u] = state]
        /\ UNCHANGED <<op, on>>
     \/ state[on[u]] \notin From(op[u]) /\ Close(u)
  /\ UNCHANGED <<state, ready, waking, undated, crashes, buttons, ghosts>>

-----------------------------------------------------------------------------
(* The cron that deletes old jobs *)

\* date_done or date_cancelled is older than the removal interval; a job that
\* the cascade cancelled has neither.
HasEnded(j) == state[j] = "done" \/ (state[j] = "cancelled" /\ j \notin undated)

\* autovacuum.  The interval is counted in days: the wake-up that follows the
\* end of a job is over by then.
Vacuum(j) ==
  /\ HasEnded(j)
  /\ j \notin waking
  /\ SetState(j, "deleted")
  /\ dropped' = IF state[j] = "cancelled" THEN dropped \cup {j} ELSE dropped
  /\ UNCHANGED <<ready, waking, wasDone, misread>>

-----------------------------------------------------------------------------
Worker(j) ==
  \/ Acquire(j) \/ Finish(j) \/ Fail(j) \/ Postpone(j)
  \/ WakeBegin(j) \/ WakeCommit(j) \/ WakeRefused(j) \/ WakeCrash(j)

User(u) ==
  \/ \E button \in Button, j \in Jobs : Press(u, button, j)
  \/ ButtonCommit(u) \/ ButtonRerun(u)

Next == (\E j \in Jobs : Worker(j) \/ Vacuum(j)) \/ (\E u \in Users : User(u))

Spec == Init /\ [][Next]_vars

-----------------------------------------------------------------------------
(* Properties *)

\* A job becomes executable only after each of its parents has been done, by
\* a worker or by a user, however stale the states were that decided it; but
\* for parents that were cancelled so long ago that their rows are deleted.
OnlyAfterParents ==
  \A j \in Jobs : state[j] \in {"pending", "started"} => Parents[j] \subseteq wasDone \cup dropped

\* A job that waits although all its parents are done is about to be woken up
\* by the worker of one of them, unless such a wake-up was lost, the decision
\* to let it wait was taken on outdated states, or what it still waited for
\* was a cancelled job whose row is now deleted.
Waits(c) == state[c] = "wait_dependencies" /\ AllParents(state, c, "done")
NoLostWakeup ==
  \A c \in Jobs :
    Waits(c) => c \in misread \/ Parents[c] \cap (waking \cup lost \cup dropped) # {}

\* readme/USAGE.md: "When and only when all the jobs of the group [A] are
\* executed, the jobs of the group [B] are executed."  The "when": somebody is
\* left to start them.
StartedWhenParentsDone ==
  \A c \in Jobs : Waits(c) => Parents[c] \cap waking # {}
=============================================================================
