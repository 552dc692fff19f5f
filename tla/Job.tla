--------------------------------- MODULE Job ---------------------------------
(***************************************************************************)
(* What queue_job promises of a job row to the code that creates it and to *)
(* the operator who looks at it, whatever requests, locks, requeues and    *)
(* dead processes it takes.  QueueJob implements it (QueueJob!Contract).   *)
(***************************************************************************)
EXTENDS Naturals

CONSTANTS
  Jobs,      \* rows of queue_job
  Workers    \* HTTP threads able to serve /queue_job/runjob

VARIABLES
  status,    \* "waiting": it will be executed; "settled": it will not
  executors, \* the workers that execute the job's body
  effects,   \* commits of the body since an operator sent the job
  reopened   \* times the row of a committed job was overwritten

vars == <<status, executors, effects, reopened>>

Init ==
  /\ status    = [j \in Jobs |-> "waiting"]
  /\ executors = [j \in Jobs |-> {}]
  /\ effects   = [j \in Jobs |-> 0]
  /\ reopened  = [j \in Jobs |-> 0]

\* A worker starts the body of a job that waits and that nobody executes.
Begin(w, j) ==
  /\ status[j] = "waiting" /\ executors[j] = {}
  /\ executors' = [executors EXCEPT ![j] = {w}]
  /\ UNCHANGED <<status, effects, reopened>>

\* The body ends well: its effects and the settled status are one commit.
Commit(w, j) ==
  /\ status[j] = "waiting" /\ executors[j] = {w}
  /\ status'    = [status EXCEPT ![j] = "settled"]
  /\ executors' = [executors EXCEPT ![j] = {}]
  /\ effects'   = [effects EXCEPT ![j] = @ + 1]
  /\ UNCHANGED reopened

\* The body is postponed, fails, is aborted or dies: it leaves no effects;
\* the job waits for another try, or does not.
Abandon(w, j) ==
  /\ executors[j] = {w}
  /\ executors' = [executors EXCEPT ![j] = {}]
  /\ \E s \in {"waiting", "settled"} : status' = [status EXCEPT ![j] = s]
  /\ UNCHANGED <<effects, reopened>>

\* An operator, or the requeuer at the retry limit, settles the job.
Settle(j) ==
  /\ status[j] = "waiting"
  /\ status' = [status EXCEPT ![j] = "settled"]
  /\ UNCHANGED <<executors, effects, reopened>>

\* An operator sends a settled job again, for one more commit.
Send(j) ==
  /\ status[j] = "settled"
  /\ status'  = [status EXCEPT ![j] = "waiting"]
  /\ effects' = [effects EXCEPT ![j] = 0]
  /\ UNCHANGED <<executors, reopened>>

\* A settled job goes back by itself: freely while it has no effects to
\* repeat (the runner's blind UPDATE), as a counted reopening otherwise (a
\* postponement stored too late).
Revive(j) ==
  /\ status[j] = "settled"
  /\ status' = [status EXCEPT ![j] = "waiting"]
  /\ \E r \in {reopened[j], reopened[j] + 1} :
       /\ effects[j] <= r
       /\ reopened' = [reopened EXCEPT ![j] = r]
  /\ UNCHANGED <<executors, effects>>

Next ==
  \E j \in Jobs :
    \/ \E w \in Workers : Begin(w, j) \/ Commit(w, j) \/ Abandon(w, j)
    \/ Settle(j) \/ Send(j) \/ Revive(j)

Spec == Init /\ [][Next]_vars

\* A job that waits and is not executed gets executed, or is settled.
Served ==
  \A j \in Jobs :
    status[j] = "waiting" ~> (status[j] = "settled" \/ executors[j] # {})
=============================================================================
