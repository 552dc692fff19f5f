----------------------------- MODULE OrderSync -----------------------------
(***************************************************************************)
(* Cartona orders of one configuration.  Pulls (the cron, and users who    *)
(* press Pull Orders) copy Cartona's orders and their customers into Odoo; *)
(* queue jobs report what users do to the sale orders back to Cartona, and *)
(* the OTP wizard reports a delivery before it validates it.               *)
(*                                                                         *)
(* A pull, a job or a confirmed wizard is one REPEATABLE READ transaction  *)
(* with HTTP calls in it: what Cartona was told stays told when the        *)
(* transaction is rolled back.  QueueJob models how a job is executed;     *)
(* here a job that is killed or meets a serialization failure goes back to *)
(* the queue.  Cartona itself is external: it may accept, refuse or accept *)
(* without answering.                                                      *)
(***************************************************************************)
EXTENDS Naturals

CONSTANTS
  Orders,      \* orders retailers place at Cartona
  Pullers,     \* sessions that pull orders
  Workers,     \* workers that run status jobs
  Clerks,      \* users who confirm deliveries with the retailer's OTP
  Customers,   \* retailers
  Buyer,       \* the retailer of each order
  Payments,    \* what the ways of payment in use ask for: "asked" is an OTP
  Config,      \* the cartona.config row
  MaxCartona,  \* bound: status changes made at Cartona
  MaxUser,     \* bound: user actions in Odoo
  MaxFailures  \* bound: refused calls, bad data, killed processes

ASSUME OrderAssumption ==
  /\ Pullers \cap (Workers \cup Clerks) = {} /\ Workers \cap Clerks = {}
  /\ Buyer \in [Orders -> Customers]
  /\ Payments \subseteq {"free", "asked"}
  /\ Config \notin Orders \cup Pullers \cup Workers \cup Clerks
  /\ {MaxCartona, MaxUser, MaxFailures} \subseteq Nat

VARIABLES
  enabled,  \* is_cartona_sync_enabled of the configuration, as committed
  remote,   \* status of each order at Cartona, "none" before it is placed
  told,     \* orders Cartona was told are "synced"
  row,      \* the sale order of each Cartona order, as committed
  copies,   \* sale orders with that cartona_id, as committed
  customers, \* partners of each retailer, as committed
  queue,    \* jobs waiting: [Orders -> [Kind -> Nat]]
  pc,       \* what each puller, worker and clerk is doing
  view,     \* what its transaction sees, its own writes included
  wrote,    \* the sale orders it updated
  new,      \* the sale orders it created
  met,      \* pullers: the retailers with a partner in its snapshot
  made,     \* pullers: the partners it created of each retailer
  missed,   \* rows that others have committed since its snapshot
  got,      \* pullers: the statuses Cartona returned
  todo,     \* pullers: orders still to be processed
  job,      \* workers, clerks: the report at hand and what Cartona answered
  cartonas, users, failures,
  failed,   \* ghost: the last report of the order went wrong or was not made
  undone,   \* ghost: a report that was rolled back may not be repeated
  partial   \* ghost: what was to be delivered is not, or the order was revived

pulled  == <<met, made, got, todo>>
txns    == <<pc, view, wrote, new, missed, pulled, job>>
data    == <<remote, told, row, copies, customers, queue>>
budgets == <<cartonas, users, failures>>
ghosts  == <<failed, undone, partial>>
vars    == <<enabled, data, txns, budgets, ghosts>>

-----------------------------------------------------------------------------
Cancelled == {"cancelled_by_retailer", "cancelled_by_supplier"}
Status    == {"pending", "approved", "delivered"} \cup Cancelled
Kind      == {"status", "delivered"}
Reporters == Workers \cup Clerks
Actors    == Pullers \cup Reporters

Row == [state : {"none", "draft", "sale", "cancel"},
        cartonaStatus : Status \cup {"none"},
        syncStatus : {"not_synced", "synced", "error"},
        otp : {"free", "asked", "given"},  \* needed to deliver, known
        done : BOOLEAN]                    \* its delivery is validated

Report == [order : Orders \cup {"none"}, kind : Kind \cup {"none"},
           answer : {"none", "ok", "error", "skipped"}]

NoRow == [state |-> "none", cartonaStatus |-> "none", syncStatus |-> "not_synced",
          otp |-> "free", done |-> FALSE]
Nobody == [c \in Customers |-> 0]
NoJob == [order |-> "none", kind |-> "none", answer |-> "none"]

TypeOK ==
  /\ enabled \in BOOLEAN
  /\ remote \in [Orders -> Status \cup {"none"}]
  /\ told   \in SUBSET Orders
  /\ row    \in [Orders -> Row]
  /\ copies \in [Orders -> Nat] /\ customers \in [Customers -> Nat]
  /\ queue  \in [Orders -> [Kind -> Nat]]
  /\ pc     \in [Actors -> {"idle", "form", "open", "processing", "sent", "dialog"}]
  /\ view   \in [Actors -> [Orders -> Row]]
  /\ wrote  \in [Actors -> SUBSET Orders]
  /\ new    \in [Actors -> SUBSET Orders]
  /\ missed \in [Actors -> SUBSET (Orders \cup {Config})]
  /\ met    \in [Pullers -> SUBSET Customers]
  /\ made   \in [Pullers -> [Customers -> Nat]]
  /\ got    \in [Pullers -> [Orders -> Status \cup {"none"}]]
  /\ todo   \in [Pullers -> SUBSET Orders]
  /\ job    \in [Reporters -> Report]
  /\ {cartonas, users, failures} \subseteq Nat
  /\ {failed, undone, partial} \subseteq SUBSET Orders

Init ==
  /\ enabled \in BOOLEAN
  /\ remote = [o \in Orders |-> "none"]
  /\ told   = {}
  /\ row    = [o \in Orders |-> NoRow]
  /\ copies = [o \in Orders |-> 0] /\ customers = Nobody
  /\ queue  = [o \in Orders |-> [k \in Kind |-> 0]]
  /\ pc     = [a \in Actors |-> "idle"]
  /\ view   = [a \in Actors |-> [o \in Orders |-> NoRow]]
  /\ wrote  = [a \in Actors |-> {}]
  /\ new    = [a \in Actors |-> {}]
  /\ missed = [a \in Actors |-> {}]
  /\ met    = [p \in Pullers |-> {}]
  /\ made   = [p \in Pullers |-> Nobody]
  /\ got    = [p \in Pullers |-> [o \in Orders |-> "none"]]
  /\ todo   = [p \in Pullers |-> {}]
  /\ job    = [a \in Reporters |-> NoJob]
  /\ cartonas = 0 /\ users = 0 /\ failures = 0
  /\ failed = {} /\ undone = {} /\ partial = {}

-----------------------------------------------------------------------------
(* Pure parts of the code; a name with a suffix is a faulty variant.       *)

\* CARTONA_STATE_MAPPING, "draft" by default
ToOdoo(s) ==
  CASE s \in {"approved", "delivered"} -> "sale"
    [] s \in Cancelled                 -> "cancel"
    [] OTHER                           -> "draft"

\* _map_odoo_status_to_cartona
ToCartona_Unmapped(state) == state
ToCartona(state) ==
  CASE state = "draft"  -> "pending"
    [] state = "sale"   -> "approved"
    [] state = "cancel" -> "cancelled_by_supplier"

\* _update_existing_order: whether the status needs an action in Odoo
NeedsTransition(r, s) ==
  \/ r.cartonaStatus # s
  \/ s \in Cancelled /\ r.state # "cancel"
  \/ s = "approved" /\ r.state = "draft"

\* _apply_cartona_state_action: a validated delivery is not cancelled...
Blocked_Never(r, s) == FALSE
Blocked(r, s) == s \in Cancelled /\ r.state # "cancel" /\ r.done

\* ...otherwise a draft is confirmed or an order cancelled; whether the
\* delivery of a delivered order can be completed depends on the stock, and one
\* that needs an OTP is not: button_validate answers with a form nobody sees.
Applied(r, s, stock) ==
  IF s \in {"approved", "delivered"}
    THEN LET st == IF r.state = "draft" THEN "sale" ELSE r.state
         IN  [r EXCEPT !.state = st, !.done = @ \/ (/\ s = "delivered" /\ st = "sale"
                                                   /\ stock /\ r.otp # "asked")]
  ELSE IF s \in Cancelled THEN [r EXCEPT !.state = "cancel"]
  ELSE r

\* _create_new_order; an OTP is needed for some ways of payment
Created(s, stock, otp) ==
  Applied([state |-> "draft", cartonaStatus |-> s, syncStatus |-> "not_synced",
           otp |-> otp, done |-> FALSE],
          s, stock)

\* _update_existing_order, when no action failed
Updated(r, s, stock) ==
  [(IF NeedsTransition(r, s) THEN Applied(r, s, stock) ELSE r)
     EXCEPT !.cartonaStatus = s, !.syncStatus = "synced"]

\* An order as an action that fails may leave it: a draft is confirmed first.
Interrupted(r, s) ==
  {r} \cup (IF r.state = "draft" /\ NeedsTransition(r, s) /\ s \in {"approved", "delivered"}
             THEN {[r EXCEPT !.state = "sale"]} ELSE {})

\* A delivery that Cartona reports could not be completed.
Short(r, s) == s = "delivered" /\ r.state = "sale" /\ ~r.done

\* find_or_create_cartona_customer finds what the transaction sees.
Known_Committed(p) == met[p]
Known(p) == met[p] \cup {c \in Customers : made[p][c] > 0}

\* What a report says: what the order is when it is made.
Reported(a) ==
  IF job[a].kind = "delivered" THEN "delivered" ELSE ToCartona(view[a][job[a].order].state)

-----------------------------------------------------------------------------
(* Transactions *)

\* Rows committed by actor a (or by a user): the other open ones miss them.
Commit(a, rows) ==
  missed' = [b \in Actors |->
               IF b = a \/ pc[b] \in {"idle", "form", "dialog"} THEN {} ELSE missed[b] \cup rows]

Snapshot(a) == view' = [view EXCEPT ![a] = row]

\* The end of a transaction and of what Python remembers of it.
End(a) ==
  /\ view'  = [view EXCEPT ![a] = [o \in Orders |-> NoRow]]
  /\ wrote' = [wrote EXCEPT ![a] = {}]
  /\ new'   = [new EXCEPT ![a] = {}]

EndPull(p) ==
  /\ End(p)
  /\ pc'   = [pc EXCEPT ![p] = "idle"]
  /\ met'  = [met EXCEPT ![p] = {}]
  /\ made' = [made EXCEPT ![p] = Nobody]
  /\ got'  = [got EXCEPT ![p] = [o \in Orders |-> "none"]]
  /\ todo' = [todo EXCEPT ![p] = {}]
  /\ UNCHANGED job

\* What is left of a report: nothing, or the form it was made from.
EndReport(a, p, j) ==
  /\ End(a)
  /\ pc'  = [pc EXCEPT ![a] = p]
  /\ job' = [job EXCEPT ![a] = j]
  /\ UNCHANGED pulled

Fails == failures < MaxFailures /\ failures' = failures + 1

-----------------------------------------------------------------------------
(* pull_and_process_orders *)

\* The first query takes the snapshot; nothing is done if it says disabled...
PullBegin(p) ==
  /\ enabled
  /\ pc[p] = "idle"
  /\ pc'  = [pc EXCEPT ![p] = "open"]
  /\ Snapshot(p)
  /\ met' = [met EXCEPT ![p] = {c \in Customers : customers[c] > 0}]
  /\ UNCHANGED <<enabled, data, wrote, new, missed, made, got, todo, job, budgets, ghosts>>

\* ...before Cartona lists the orders of the last 24 hours, acknowledged or not.
Listed_NotAcknowledged == {o \in Orders : remote[o] # "none" /\ o \notin told}
Listed == {o \in Orders : remote[o] # "none"}

PullFetch(p) ==
  /\ pc[p] = "open"
  /\ pc'   = [pc EXCEPT ![p] = "processing"]
  /\ got'  = [got EXCEPT ![p] = [o \in Orders |-> IF o \in Listed THEN remote[o] ELSE "none"]]
  /\ todo' = [todo EXCEPT ![p] = Listed]
  /\ UNCHANGED <<enabled, data, view, wrote, new, missed, met, made, job, budgets, ghosts>>

\* process_cartona_order, common to all outcomes
Process(p, o) ==
  /\ pc[p] = "processing"
  /\ o \in todo[p]
  /\ todo' = [todo EXCEPT ![p] = @ \ {o}]
  /\ UNCHANGED <<enabled, remote, row, copies, customers, queue, pc, missed, met, got, job,
                 cartonas, users, ghosts>>

\* _ack_and_return: a thread tells Cartona at once, before the commit.
Acknowledge(o) == told' = told \cup {o}

\* The partner of the retailer is created if the transaction finds none.
FindOrCreate(p, o) ==
  IF Buyer[o] \in Known(p) THEN UNCHANGED made
                           ELSE made' = [made EXCEPT ![p][Buyer[o]] = @ + 1]

ProcessNew(p, o, stock, otp) ==
  /\ Process(p, o)
  /\ view[p][o].state = "none"
  /\ view' = [view EXCEPT ![p][o] = Created(got[p][o], stock, otp)]
  /\ new'  = [new EXCEPT ![p] = @ \cup {o}]
  /\ FindOrCreate(p, o)
  /\ Acknowledge(o)
  /\ UNCHANGED <<wrote, failures>>

ProcessUpdate(p, o, stock) ==
  LET r == view[p][o]
      s == got[p][o] IN
  /\ Process(p, o)
  /\ r.state # "none"
  /\ r.state # ToOdoo(s) \/ r.cartonaStatus # s
  /\ ~Blocked(r, s)
  /\ view'  = [view EXCEPT ![p][o] = Updated(r, s, stock)]
  /\ wrote' = [wrote EXCEPT ![p] = @ \cup {o}]
  /\ Acknowledge(o)
  /\ UNCHANGED <<new, made, failures>>

ProcessUnchanged(p, o) ==
  LET r == view[p][o]
      s == got[p][o] IN
  /\ Process(p, o)
  /\ r.state = ToOdoo(s) /\ r.cartonaStatus = s
  /\ IF r.syncStatus = "error" THEN UNCHANGED told ELSE Acknowledge(o)
  /\ UNCHANGED <<view, wrote, new, made, failures>>

\* An existing order is marked when its delivery blocks the cancellation, its
\* lines differ, or the action fails.
ProcessError(p, o) ==
  LET r == view[p][o]
      s == got[p][o] IN
  /\ Process(p, o)
  /\ r.state # "none"
  /\ \/ Blocked(r, s) /\ UNCHANGED failures
     \/ Fails
  /\ \E u \in Interrupted(r, s) : view' = [view EXCEPT ![p][o] = [u EXCEPT !.syncStatus = "error"]]
  /\ wrote' = [wrote EXCEPT ![p] = @ \cup {o}]
  /\ UNCHANGED <<told, new, made>>

\* A new order whose action fails after it was confirmed: the code deletes it,
\* which Odoo refuses of a confirmed order, and the transaction goes on.
ProcessHalf(p, o, otp) ==
  /\ Process(p, o)
  /\ view[p][o].state = "none" /\ got[p][o] \in {"approved", "delivered"}
  /\ Fails
  /\ view' = [view EXCEPT ![p][o] = [Created(got[p][o], FALSE, otp) EXCEPT !.syncStatus = "error"]]
  /\ new'  = [new EXCEPT ![p] = @ \cup {o}]
  /\ FindOrCreate(p, o)
  /\ UNCHANGED <<told, wrote>>

\* Invalid data, or a new order that could not be built: nothing is kept but
\* its customer.
ProcessRejected(p, o) ==
  /\ Process(p, o)
  /\ Fails
  /\ UNCHANGED made \/ (view[p][o].state = "none" /\ FindOrCreate(p, o))
  /\ UNCHANGED <<told, view, wrote, new>>

\* The rows that were there before and are updated; the commit must not have
\* missed a write of theirs.  Every pull that got orders ends with a write of
\* last_order_pull and the statistics.
Claimed_OrdersOnly(p) == wrote[p]
Claimed(p) == wrote[p] \cup (IF \A o \in Orders : got[p][o] = "none" THEN {} ELSE {Config})

PullCommit(p) ==
  /\ pc[p] = "processing" /\ todo[p] = {}
  /\ Claimed(p) \cap missed[p] = {}
  /\ row'    = [o \in Orders |-> IF o \in wrote[p] \cup new[p] THEN view[p][o] ELSE row[o]]
  /\ copies' = [o \in Orders |-> IF o \in new[p] THEN copies[o] + 1 ELSE copies[o]]
  /\ customers' = [c \in Customers |-> customers[c] + made[p][c]]
  /\ partial' = partial \cup {o \in wrote[p] \cup new[p] : Short(view[p][o], got[p][o])}
  /\ Commit(p, Claimed(p) \cup new[p])
  /\ EndPull(p)
  /\ UNCHANGED <<enabled, remote, told, queue, budgets, failed, undone>>

\* The commit is refused: the cron waits for its next run, the button is
\* run again by Odoo.
PullConflict(p) ==
  /\ pc[p] = "processing" /\ todo[p] = {}
  /\ Claimed(p) \cap missed[p] # {}
  /\ Commit(p, {})
  /\ EndPull(p)
  /\ UNCHANGED <<enabled, data, budgets, ghosts>>

\* The call fails, PostgreSQL aborts the transaction, or the process dies.
PullRollback(p) ==
  /\ pc[p] # "idle"
  /\ Fails
  /\ Commit(p, {})
  /\ EndPull(p)
  /\ UNCHANGED <<enabled, data, cartonas, users, ghosts>>

-----------------------------------------------------------------------------
(* Jobs: _sync_status_to_cartona, _sync_delivery_validation_to_cartona *)

Take(o, k) == queue[o][k] > 0 /\ queue' = [queue EXCEPT ![o][k] = @ - 1]

JobBegin(w, o, k) ==
  /\ enabled
  /\ pc[w] = "idle"
  /\ Take(o, k)
  /\ pc'  = [pc EXCEPT ![w] = "open"]
  /\ Snapshot(w)
  /\ job' = [job EXCEPT ![w] = [order |-> o, kind |-> k, answer |-> "none"]]
  /\ UNCHANGED <<enabled, remote, told, row, copies, customers, wrote, new, missed, pulled,
                 budgets, ghosts>>

\* A report of the order is being made.
Busy(o) == \E a \in Reporters : pc[a] \in {"open", "sent"} /\ job[a].order = o

\* The sync is disabled: the job is done, and nothing is reported.  (The job
\* may have reported before and been returned, after the report under way.)
JobSkip(o, k) ==
  /\ ~enabled
  /\ Take(o, k)
  /\ IF Busy(o) THEN undone' = undone \cup {o} /\ UNCHANGED failed
                ELSE failed' = failed \cup {o} /\ UNCHANGED undone
  /\ UNCHANGED <<enabled, remote, told, row, copies, customers, txns, budgets, partial>>

\* update_single_order_status: Cartona accepts, or refuses, or accepts and
\* the answer is lost in a timeout.
Send(a) ==
  /\ pc[a] = "open"
  /\ pc' = [pc EXCEPT ![a] = "sent"]
  /\ \/ /\ job'    = [job EXCEPT ![a].answer = "ok"]
        /\ remote' = [remote EXCEPT ![job[a].order] = Reported(a)]
        /\ UNCHANGED failures
     \/ /\ Fails
        /\ job' = [job EXCEPT ![a].answer = "error"]
        /\ remote' \in {remote, [remote EXCEPT ![job[a].order] = Reported(a)]}
  /\ UNCHANGED <<enabled, told, row, copies, customers, queue, view, wrote, new, missed, pulled,
                 cartonas, users, ghosts>>

\* The order as the report leaves it.
Recorded(a) ==
  LET r == view[a][job[a].order] IN
  CASE job[a].answer = "ok"    -> [r EXCEPT !.syncStatus = "synced",
                                            !.cartonaStatus = Reported(a)]
    [] job[a].answer = "error" -> [r EXCEPT !.syncStatus = "error"]
    [] OTHER                   -> r

\* The sale order a report must not have missed: it always writes its status.
Reads_Nothing(a) == {}
Reads(a) == {job[a].order}

Current(a)   == pc[a] = "sent" /\ Reads(a) \cap missed[a] = {}
Overtaken(a) == pc[a] = "sent" /\ Reads(a) \cap missed[a] # {}

Record(a, r) ==
  /\ row'    = [row EXCEPT ![job[a].order] = r]
  /\ failed' = IF job[a].answer = "ok" THEN failed \ {job[a].order}
                                       ELSE failed \cup {job[a].order}
  /\ Commit(a, {job[a].order})
  /\ UNCHANGED <<enabled, remote, told, copies, customers, queue, budgets, undone>>

JobCommit(w) ==
  /\ Current(w)
  /\ Record(w, Recorded(w))
  /\ EndReport(w, "idle", NoJob)
  /\ UNCHANGED partial

\* The job is postponed and will report again.
Return(w) ==
  /\ queue' = [queue EXCEPT ![job[w].order][job[w].kind] = @ + 1]
  /\ Commit(w, {})
  /\ EndReport(w, "idle", NoJob)
  /\ UNCHANGED <<enabled, remote, told, row, copies, customers, cartonas, users, ghosts>>

JobConflict(w) ==
  /\ Overtaken(w)
  /\ Return(w)
  /\ UNCHANGED failures

JobCrash(w) ==
  /\ pc[w] # "idle"
  /\ Fails
  /\ Return(w)

-----------------------------------------------------------------------------
(* The wizard that asks for the retailer's OTP *)

\* button_validate opens it; it may stay open for long.
ClerkOpen(c, o) ==
  /\ pc[c] = "idle"
  /\ row[o].state = "sale" /\ row[o].otp = "asked" /\ ~row[o].done
  /\ users < MaxUser
  /\ users' = users + 1
  /\ pc'    = [pc EXCEPT ![c] = "form"]
  /\ job'   = [job EXCEPT ![c] = [order |-> o, kind |-> "delivered", answer |-> "none"]]
  /\ UNCHANGED <<enabled, data, view, wrote, new, missed, pulled, cartonas, failures, ghosts>>

\* action_confirm reports the delivery, unless the sync is disabled.
ClerkConfirm(c) ==
  /\ pc[c] = "form"
  /\ Snapshot(c)
  /\ IF enabled
       THEN pc' = [pc EXCEPT ![c] = "open"] /\ UNCHANGED job
       ELSE pc' = [pc EXCEPT ![c] = "sent"] /\ job' = [job EXCEPT ![c].answer = "skipped"]
  /\ UNCHANGED <<enabled, data, wrote, new, missed, pulled, budgets, ghosts>>

\* What it makes of it: the status the order has then, whoever wrote it.
Confirmed(c) == Recorded(c).syncStatus = "synced"

ClerkBlocked(c) ==
  /\ Current(c)
  /\ ~Confirmed(c)
  /\ Record(c, Recorded(c))
  /\ EndReport(c, "idle", NoJob)
  /\ UNCHANGED partial

Deliverable(c) == LET r == view[c][job[c].order] IN r.state = "sale" /\ ~r.done

ClerkValidated(c) ==
  /\ Current(c)
  /\ Confirmed(c) /\ Deliverable(c)
  /\ Record(c, [Recorded(c) EXCEPT !.otp = "given", !.done = TRUE])
  /\ EndReport(c, "idle", NoJob)
  /\ UNCHANGED partial

\* button_validate asks about a backorder instead; what was done is kept.
ClerkAsked(c) ==
  /\ Current(c)
  /\ Confirmed(c) /\ Deliverable(c)
  /\ Record(c, [Recorded(c) EXCEPT !.otp = "given"])
  /\ EndReport(c, "dialog", [job[c] EXCEPT !.answer = "none"])
  /\ partial' = partial \cup {job[c].order}

\* The answer to that question; nothing is reported again.
ClerkAnswers(c) ==
  LET o == job[c].order IN
  /\ pc[c] = "dialog"
  /\ row[o].state = "sale" /\ ~row[o].done
  /\ row' = [row EXCEPT ![o].done = TRUE]
  /\ Commit(c, {o})
  /\ EndReport(c, "idle", NoJob)
  /\ UNCHANGED <<enabled, remote, told, copies, customers, queue, budgets, ghosts>>

\* button_validate raises an error: everything is undone in Odoo.
Undone_Kept(c) == Recorded(c)
Undone(c) == row[job[c].order]

ClerkError(c) ==
  /\ Current(c)
  /\ Confirmed(c)
  /\ IF Deliverable(c) THEN Fails ELSE UNCHANGED failures
  /\ row'    = [row EXCEPT ![job[c].order] = Undone(c)]
  /\ undone' = undone \cup {job[c].order}
  /\ Commit(c, {})
  /\ EndReport(c, "idle", NoJob)
  /\ UNCHANGED <<enabled, remote, told, copies, customers, queue, cartonas, users, failed, partial>>

\* Odoo runs the request again, a few times.
ClerkConflict(c) ==
  /\ Overtaken(c)
  /\ undone' = undone \cup {job[c].order}
  /\ Commit(c, {})
  /\ EndReport(c, "form", [job[c] EXCEPT !.answer = "none"])
  /\ UNCHANGED <<enabled, data, budgets, failed, partial>>

ClerkCloses(c) ==
  /\ pc[c] \in {"form", "dialog"}
  /\ pc'  = [pc EXCEPT ![c] = "idle"]
  /\ job' = [job EXCEPT ![c] = NoJob]
  /\ UNCHANGED <<enabled, data, view, wrote, new, missed, pulled, budgets, ghosts>>

-----------------------------------------------------------------------------
(* Users: one transaction each, run again by Odoo on a conflict *)

UserActs == users < MaxUser /\ users' = users + 1

\* A job reports what was done, if the sync is enabled.
UserAct(o, r, k) ==
  /\ UserActs
  /\ row' = [row EXCEPT ![o] = r]
  /\ IF enabled
       THEN queue' = [queue EXCEPT ![o][k] = @ + 1] /\ UNCHANGED failed
       ELSE failed' = failed \cup {o} /\ UNCHANGED queue
  /\ Commit(Config, IF r = row[o] THEN {} ELSE {o})
  /\ UNCHANGED <<enabled, remote, told, copies, customers, pc, view, wrote, new, pulled, job,
                 cartonas, failures, undone>>

\* write(): a change of state is reported.
UserConfirm(o) ==
  /\ row[o].state = "draft"
  /\ UserAct(o, [row[o] EXCEPT !.state = "sale"], "status")
  /\ UNCHANGED partial

UserCancel(o) ==
  /\ row[o].state \in {"draft", "sale"}
  /\ UserAct(o, [row[o] EXCEPT !.state = "cancel"], "status")
  /\ UNCHANGED partial

UserDraft(o) ==
  /\ row[o].state = "cancel"
  /\ UserAct(o, [row[o] EXCEPT !.state = "draft"], "status")
  /\ partial' = partial \cup {o}

\* button_validate of a delivery that needs no OTP, or whose OTP is known
UserDeliver(o) ==
  /\ row[o].state = "sale" /\ row[o].otp # "asked" /\ ~row[o].done
  /\ UserAct(o, [row[o] EXCEPT !.done = TRUE], "delivered")
  /\ UNCHANGED partial

\* action_manual_sync_to_cartona
UserSync(o) ==
  /\ row[o].state # "none"
  /\ enabled
  /\ UserAct(o, row[o], "status")
  /\ UNCHANGED partial

\* The switch of the configuration's form: README.md, "Emergency stop".
UserSwitches ==
  /\ UserActs
  /\ enabled' = ~enabled
  /\ Commit(Config, {Config})
  /\ UNCHANGED <<data, pc, view, wrote, new, pulled, job, cartonas, failures, ghosts>>

-----------------------------------------------------------------------------
(* Cartona *)

CartonaPlaces(o) ==
  /\ remote[o] = "none"
  /\ remote' = [remote EXCEPT ![o] = "pending"]
  /\ UNCHANGED <<enabled, told, row, copies, customers, queue, txns, budgets, ghosts>>

CartonaMoves(o, s) ==
  /\ cartonas < MaxCartona
  /\ <<remote[o], s>> \in {<<"pending", "approved">>, <<"approved", "delivered">>,
                           <<"pending", "cancelled_by_retailer">>,
                           <<"approved", "cancelled_by_retailer">>}
  /\ remote'   = [remote EXCEPT ![o] = s]
  /\ cartonas' = cartonas + 1
  /\ UNCHANGED <<enabled, told, row, copies, customers, queue, txns, users, failures, ghosts>>

-----------------------------------------------------------------------------
New(p) == \E o \in Orders, stock \in BOOLEAN, otp \in Payments : ProcessNew(p, o, stock, otp)

Pull(p) ==
  \/ PullBegin(p) \/ PullFetch(p) \/ New(p)
  \/ \E o \in Orders :
       \/ \E stock \in BOOLEAN : ProcessUpdate(p, o, stock)
       \/ \E otp \in Payments : ProcessHalf(p, o, otp)
       \/ ProcessUnchanged(p, o) \/ ProcessError(p, o) \/ ProcessRejected(p, o)
  \/ PullCommit(p) \/ PullConflict(p) \/ PullRollback(p)

Work(w) ==
  \/ \E o \in Orders, k \in Kind : JobBegin(w, o, k)
  \/ Send(w) \/ JobCommit(w) \/ JobConflict(w) \/ JobCrash(w)

Clerk(c) ==
  \/ \E o \in Orders : ClerkOpen(c, o)
  \/ ClerkConfirm(c) \/ Send(c) \/ ClerkBlocked(c) \/ ClerkValidated(c) \/ ClerkAsked(c)
  \/ ClerkAnswers(c) \/ ClerkError(c) \/ ClerkConflict(c) \/ ClerkCloses(c)

User(o) == UserConfirm(o) \/ UserCancel(o) \/ UserDraft(o) \/ UserDeliver(o) \/ UserSync(o)

Cartona(o) == CartonaPlaces(o) \/ \E s \in Status : CartonaMoves(o, s)

Next ==
  \/ \E p \in Pullers : Pull(p)
  \/ \E w \in Workers : Work(w)
  \/ \E c \in Clerks : Clerk(c)
  \/ \E o \in Orders : User(o) \/ Cartona(o) \/ \E k \in Kind : JobSkip(o, k)
  \/ UserSwitches

Spec == Init /\ [][Next]_vars

\* The cron pulls every minute and its process ends what it began.
Fairness ==
  \A p \in Pullers :
    /\ WF_vars(PullBegin(p)) /\ WF_vars(PullFetch(p))
    /\ WF_vars(\/ New(p)
               \/ \E o \in Orders : \/ \E stock \in BOOLEAN : ProcessUpdate(p, o, stock)
                                    \/ ProcessUnchanged(p, o))
    /\ WF_vars(PullCommit(p) \/ PullConflict(p))

FairSpec == Spec /\ Fairness

-----------------------------------------------------------------------------
(* Properties *)

\* README.md: "no duplicate orders when tokens are supplier-distinct".  No
\* constraint of the table says so; pulls that overlap are kept apart by the
\* configuration row each of them writes last.
NoDuplicateOrders == \A o \in Orders : copies[o] <= 1

\* A retailer has one partner, though several of its orders arrive in one
\* pull or in pulls that overlap, and an order may be rejected after its
\* customer was created.
NoDuplicateCustomers == \A c \in Customers : customers[c] <= 1

\* When no report of an order is left, its last report went well and the sale
\* order knows Cartona's status, both systems say the same: reports that
\* overtook a change of the order were sent again.  (Nobody repeats or takes
\* back the report of a wizard that was rolled back, or of a job that went back
\* to the queue and finds the sync disabled.  A late report of a delivery does
\* not look at the order, so an order whose delivery was validated must not
\* have been cancelled since.)
Idle(o) == ~Busy(o) /\ \A k \in Kind : queue[o][k] = 0
AgreeAtRest ==
  \A o \in Orders :
    LET r == row[o] IN
    (/\ r.state # "none" /\ r.cartonaStatus = remote[o]
     /\ r.done => r.state = "sale"
     /\ Idle(o) /\ o \notin failed \cup undone) => r.state = ToOdoo(remote[o])

\* Only a user cancels a sale order whose delivery is validated, however old
\* the state is that a cancellation by Cartona is applied to.
DeliveredIsKept ==
  [][\A o \in Orders :
       row[o].state = "sale" /\ row[o].done /\ row'[o].state = "cancel" => UserCancel(o)]_vars

\* A sale order says Cartona has it delivered only if its delivery is
\* validated: a wizard that told Cartona so and then could not validate keeps
\* nothing, and the next pull sees a status it does not know.  (Goods may be
\* missing, the question about a backorder may stay unanswered, and an order
\* may be revived.)
RecordedDelivery ==
  \A o \in Orders \ partial :
    row[o].state = "sale" /\ row[o].cartonaStatus = "delivered" => row[o].done

\* README.md: "Emergency stop: set is_cartona_sync_enabled = False".  A pull
\* that is under way when the switch is turned off leaves nothing in Odoo.
StopIsEffective ==
  [][~enabled =>
       /\ UNCHANGED <<copies, customers>>
       /\ (\E p \in Pullers : pc[p] # "idle" /\ pc'[p] = "idle") => UNCHANGED row]_vars

\* Unless the sync stays disabled, every order placed at Cartona is imported
\* in the end, though pulls that overlap are rolled back in favour of the one
\* that commits first.
EveryOrderImported ==
  <>[]enabled => \A o \in Orders : remote[o] # "none" ~> copies[o] > 0
=============================================================================
