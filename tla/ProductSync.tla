---------------------------- MODULE ProductSync ----------------------------
(***************************************************************************)
(* Prices and stock of the variants of one configuration, pushed to        *)
(* Cartona: by a job per change, by the batch jobs of Sync All Variants,   *)
(* by the retry cron and by users who press the sync button.               *)
(*                                                                         *)
(* A push is one REPEATABLE READ transaction: it sends the values of its   *)
(* snapshot over HTTP and then marks the sync rows, so what Cartona got    *)
(* stays when the transaction is refused.  QueueJob models how a job is    *)
(* executed; here a job that is killed or refused goes back to the queue.  *)
(***************************************************************************)
EXTENDS Naturals, FiniteSets

CONSTANTS
  NumVariants,  \* variants are numbered in the catalogue's order
  Workers,      \* workers that run sync jobs
  Users,        \* users who press the sync button of a variant
  Cron,         \* the process of the retry cron
  Config,       \* the cartona.config row
  BatchSize,    \* cartona.config.batch_size
  RetryLimit,   \* the limit argument of retry_failed_variants
  MaxChanges,   \* bound: changes of a price or a quantity
  MaxPushes,    \* bound: manual pushes, runs of Sync All, other writes of Config
  MaxFailures,  \* bound: refused calls and killed processes
  MaxRejected   \* bound: variants Cartona always refuses

ASSUME ProductAssumption ==
  /\ {NumVariants, BatchSize, RetryLimit} \subseteq Nat \ {0}
  /\ Workers \cap Users = {}
  /\ Cron \notin Workers \cup Users
  /\ Config \notin 1..NumVariants \cup Workers \cup Users \cup {Cron}
  /\ {MaxChanges, MaxPushes, MaxFailures, MaxRejected} \subseteq Nat

VARIABLES
  enabled,  \* is_cartona_sync_enabled of the configuration, as committed
  rejected, \* variants Cartona always refuses
  current,  \* version of each field of a variant, as committed in Odoo
  remote,   \* version Cartona has, 0 for its own
  row,      \* sync_status of the variant's cartona.product.sync row, as committed
  queue,    \* per-field jobs waiting
  batches,  \* batch jobs waiting
  pc,       \* where each push is
  goal,     \* what it pushes: variants and fields
  seen,     \* its snapshot: versions and rows
  created,  \* rows it has inserted
  todo,     \* variants not sent yet
  refused,  \* variants of a batch Cartona refused
  missed,   \* rows that others have committed since the snapshot
  changes, pushes, failures,
  unsent,   \* ghost: fields with a push that failed or was not made, since the last one began
  stray     \* ghost: fields that a push nobody repeats may have sent

push    == <<pc, goal, seen, created, todo, refused, missed>>
given   == <<enabled, rejected>>
budgets == <<changes, pushes, failures>>
ghosts  == <<unsent, stray>>
vars    == <<given, current, remote, row, queue, batches, push, budgets, ghosts>>

-----------------------------------------------------------------------------
Variants  == 1..NumVariants
Field     == {"price", "stock"}
RowStatus == {"none", "not_synced", "synced", "error"}
Actors    == Workers \cup Users \cup {Cron}
Goal      == [variants : SUBSET Variants, fields : SUBSET Field, batch : BOOLEAN]
Versions  == [Variants -> [Field -> Nat]]

Nothing    == [variants |-> {}, fields |-> {}, batch |-> FALSE]
NoSnapshot == [current |-> [v \in Variants |-> [f \in Field |-> 0]],
               row     |-> [v \in Variants |-> "none"]]

TypeOK ==
  /\ enabled \in BOOLEAN /\ rejected \in SUBSET Variants
  /\ {current, remote} \subseteq Versions
  /\ row     \in [Variants -> RowStatus]
  /\ queue   \in [Variants -> [Field -> Nat]]
  /\ batches \in [SUBSET Variants -> Nat]
  /\ pc      \in [Actors -> {"idle", "open", "sending"}]
  /\ goal    \in [Actors -> Goal]
  /\ seen    \in [Actors -> [current : Versions, row : [Variants -> RowStatus]]]
  /\ {created, todo, refused} \subseteq [Actors -> SUBSET Variants]
  /\ missed  \in [Actors -> SUBSET (Variants \cup {Config})]
  /\ {changes, pushes, failures} \subseteq Nat
  /\ {unsent, stray} \subseteq SUBSET (Variants \X Field)

Init ==
  /\ enabled \in BOOLEAN
  /\ rejected \in {vs \in SUBSET Variants : Cardinality(vs) <= MaxRejected}
  /\ current = [v \in Variants |-> [f \in Field |-> 1]]
  /\ remote  = [v \in Variants |-> [f \in Field |-> 0]]
  /\ row     = [v \in Variants |-> "none"]
  /\ queue   = [v \in Variants |-> [f \in Field |-> 0]]
  /\ batches = [b \in SUBSET Variants |-> 0]
  /\ pc      = [a \in Actors |-> "idle"]
  /\ goal    = [a \in Actors |-> Nothing]
  /\ seen    = [a \in Actors |-> NoSnapshot]
  /\ created = [a \in Actors |-> {}]
  /\ todo    = [a \in Actors |-> {}]
  /\ refused = [a \in Actors |-> {}]
  /\ missed  = [a \in Actors |-> {}]
  /\ changes = 0 /\ pushes = 0 /\ failures = 0
  /\ unsent = Variants \X Field
  /\ stray  = {}

-----------------------------------------------------------------------------
(* Pure parts of the code; a name with a suffix is a faulty variant.       *)

\* A search with a limit: the first k of vs in the catalogue's order.
First_OneLess(vs, k) == {v \in vs : Cardinality({u \in vs : u <= v}) < k}
First(vs, k) == {v \in vs : Cardinality({u \in vs : u <= v}) <= k}

\* The catalogue cut into batches of batch_size.
Batch(i) == {v \in Variants : (v - 1) \div BatchSize = i}
Batches  == {Batch(i) : i \in 0..NumVariants} \ {{}}

\* _collect_variants_for_retry: rows that are not synced, then variants
\* without a row if there is room.
Retried_NotError == {"not_synced"}
Retried == {"not_synced", "error"}
Collected(rows) ==
  LET listed == First({v \in Variants : rows[v] \in Retried}, RetryLimit)
  IN  listed \cup First({v \in Variants : rows[v] = "none"}, RetryLimit - Cardinality(listed))

\* The rows a push has to insert (get_for_product_config, ensure_for_products)
Lacking(a) == {v \in goal[a].variants : seen[a].row[v] = "none"}

Sent(a)      == IF pc[a] = "sending" THEN goal[a].variants \ todo[a] ELSE {}
Pairs(a, vs) == vs \X goal[a].fields

\* mark_success and mark_error
Marked_StillSyncing(a, v) == IF v \in refused[a] THEN "syncing" ELSE "synced"
Marked(a, v) == IF v \in refused[a] THEN "error" ELSE "synced"

\* The rows a push has written so far: the sync rows of what it sent, and at
\* its end, unless it is the push of one variant, the configuration's.
Claimed_ConfigOnly(a) == IF todo[a] = {} /\ goal[a].batch THEN {Config} ELSE {}
Claimed(a) == Sent(a) \cup (IF todo[a] = {} /\ goal[a].batch THEN {Config} ELSE {})

-----------------------------------------------------------------------------
(* Transactions *)

Commit(a, rows) ==
  missed' = [b \in Actors |->
               IF b = a \/ pc[b] = "idle" THEN {} ELSE missed[b] \cup rows]

Begin(a, vs, fs, isBatch) ==
  /\ enabled
  /\ pc[a] = "idle"
  /\ vs # {}
  /\ pc'   = [pc EXCEPT ![a] = "open"]
  /\ goal' = [goal EXCEPT ![a] = [variants |-> vs, fields |-> fs, batch |-> isBatch]]
  /\ seen' = [seen EXCEPT ![a] = [current |-> current, row |-> row]]
  /\ unsent' = unsent \ (vs \X fs)
  /\ UNCHANGED <<given, current, remote, row, created, todo, refused, missed, stray>>

End(a) ==
  /\ pc'      = [pc EXCEPT ![a] = "idle"]
  /\ goal'    = [goal EXCEPT ![a] = Nothing]
  /\ seen'    = [seen EXCEPT ![a] = NoSnapshot]
  /\ created' = [created EXCEPT ![a] = {}]
  /\ todo'    = [todo EXCEPT ![a] = {}]
  /\ refused' = [refused EXCEPT ![a] = {}]

\* Rolled back: a job is postponed, the cron waits for its next run, and a
\* request of a user is lost.
Abandon(a) ==
  /\ Commit(a, {})
  /\ End(a)
  /\ IF a \in Workers
       THEN /\ batches' = IF goal[a].batch THEN [batches EXCEPT ![goal[a].variants] = @ + 1]
                                           ELSE batches
            /\ queue' = [v \in Variants |-> [f \in Field |->
                 IF ~goal[a].batch /\ <<v, f>> \in Pairs(a, goal[a].variants)
                   THEN queue[v][f] + 1 ELSE queue[v][f]]]
            /\ UNCHANGED stray
       ELSE /\ stray' = stray \cup Pairs(a, goal[a].variants)
            /\ UNCHANGED <<queue, batches>>
  /\ UNCHANGED <<given, current, remote, row, changes, pushes, unsent>>

Fails == failures < MaxFailures /\ failures' = failures + 1

-----------------------------------------------------------------------------
(* What starts a push *)

\* _sync_to_cartona as a job
JobBegin(w, v, f) ==
  /\ queue[v][f] > 0
  /\ queue' = [queue EXCEPT ![v][f] = @ - 1]
  /\ Begin(w, {v}, {f}, FALSE)
  /\ UNCHANGED <<batches, changes, pushes, failures>>

\* sync_variant_batch_job
BatchBegin(w, b) ==
  /\ batches[b] > 0
  /\ batches' = [batches EXCEPT ![b] = @ - 1]
  /\ Begin(w, b, Field, TRUE)
  /\ UNCHANGED <<queue, changes, pushes, failures>>

\* A job of a disabled configuration is done, and pushes nothing.
JobSkip ==
  /\ ~enabled
  /\ \/ \E v \in Variants, f \in Field :
          /\ queue[v][f] > 0
          /\ queue'  = [queue EXCEPT ![v][f] = @ - 1]
          /\ unsent' = unsent \cup {<<v, f>>}
          /\ UNCHANGED batches
     \/ \E b \in Batches :
          /\ batches[b] > 0
          /\ batches' = [batches EXCEPT ![b] = @ - 1]
          /\ unsent'  = unsent \cup (b \X Field)
          /\ UNCHANGED queue
  /\ UNCHANGED <<given, current, remote, row, push, budgets, stray>>

\* retry_failed_variants
CronBegin ==
  /\ Begin(Cron, Collected(row), Field, TRUE)
  /\ UNCHANGED <<queue, batches, changes, pushes, failures>>

\* action_manual_cartona_sync
UserBegin(u, v) ==
  /\ pushes < MaxPushes
  /\ pushes' = pushes + 1
  /\ Begin(u, {v}, Field, FALSE)
  /\ UNCHANGED <<queue, batches, changes, failures>>

-----------------------------------------------------------------------------
(* A push *)

\* INSERT ... ON CONFLICT DO NOTHING waits for the transaction that inserts
\* the same row, and is refused when it meets one that was committed since
\* the snapshot (Overtaken).
Inserting(a) == \E b \in Actors \ {a} : created[b] \cap Lacking(a) # {}

PushPrepare(a) ==
  /\ pc[a] = "open"
  /\ ~Inserting(a)
  /\ Lacking(a) \cap missed[a] = {}
  /\ pc'      = [pc EXCEPT ![a] = "sending"]
  /\ created' = [created EXCEPT ![a] = Lacking(a)]
  /\ todo'    = [todo EXCEPT ![a] = goal[a].variants]
  /\ UNCHANGED <<given, current, remote, row, queue, batches, goal, seen, refused, missed,
                 budgets, ghosts>>

\* bulk_update_products: the values of the snapshot go out, a batch per call.
\* Cartona accepts the call, refuses it as a whole, or accepts it and the
\* answer is lost.
Send(a, b) == remote' = [v \in Variants |-> [f \in Field |->
                IF <<v, f>> \in Pairs(a, b) THEN seen[a].current[v][f] ELSE remote[v][f]]]

Refuse(a, b) == refused' = [refused EXCEPT ![a] = @ \cup b]

PushSend(a) ==
  \E b \in SUBSET todo[a] :
    /\ pc[a] = "sending"
    /\ b # {}
    /\ Cardinality(b) < BatchSize => b = todo[a]
    /\ Cardinality(b) <= BatchSize
    /\ Sent(a) \cap missed[a] = {}
    /\ todo' = [todo EXCEPT ![a] = @ \ b]
    /\ IF b \cap rejected # {}
         THEN Refuse(a, b) /\ UNCHANGED <<remote, failures>>
         ELSE \/ Send(a, b) /\ UNCHANGED <<refused, failures>>
              \/ Fails /\ Refuse(a, b) /\ (Send(a, b) \/ UNCHANGED remote)
    /\ UNCHANGED <<given, current, row, queue, batches, pc, goal, seen, created, missed,
                   changes, pushes, ghosts>>

PushCommit(a) ==
  /\ pc[a] = "sending" /\ todo[a] = {}
  /\ Claimed(a) \cap missed[a] = {}
  /\ row' = [v \in Variants |-> IF v \in goal[a].variants THEN Marked(a, v) ELSE row[v]]
  /\ unsent' = unsent \cup Pairs(a, refused[a])
  /\ Commit(a, Claimed(a))
  /\ End(a)
  /\ UNCHANGED <<given, current, remote, queue, batches, budgets, stray>>

\* A row the push has written was committed by others since the snapshot.  The
\* status is written to the database after the call: what was sent is sent.
Overtaken(a) ==
  \/ pc[a] = "open" /\ Lacking(a) \cap missed[a] # {}
  \/ pc[a] = "sending" /\ Claimed(a) \cap missed[a] # {}

PushRefused(a) ==
  /\ Overtaken(a)
  /\ a \notin Users
  /\ Abandon(a)
  /\ UNCHANGED failures

\* Odoo runs the request of a user again.
PushRerun(u) ==
  /\ Overtaken(u)
  /\ pc'      = [pc EXCEPT ![u] = "open"]
  /\ seen'    = [seen EXCEPT ![u] = [current |-> current, row |-> row]]
  /\ created' = [created EXCEPT ![u] = {}]
  /\ todo'    = [todo EXCEPT ![u] = {}]
  /\ refused' = [refused EXCEPT ![u] = {}]
  /\ Commit(u, {})
  /\ unsent'  = unsent \ Pairs(u, goal[u].variants)
  /\ UNCHANGED <<given, current, remote, row, queue, batches, goal, budgets, stray>>

PushCrash(a) ==
  /\ pc[a] # "idle"
  /\ Fails
  /\ Abandon(a)

-----------------------------------------------------------------------------
(* Other transactions, each one step *)

\* A price is written, or a quantity of the warehouse moves: a job for it, if
\* the configuration is enabled then.
Change(v, f) ==
  /\ changes < MaxChanges
  /\ changes' = changes + 1
  /\ current' = [current EXCEPT ![v][f] = @ + 1]
  /\ IF enabled
       THEN queue' = [queue EXCEPT ![v][f] = @ + 1] /\ UNCHANGED unsent
       ELSE unsent' = unsent \cup {<<v, f>>} /\ UNCHANGED queue
  /\ UNCHANGED <<given, remote, row, batches, push, pushes, failures, stray>>

\* The job of Sync All Variants: rows for all variants, a job per batch.
SyncAll ==
  /\ enabled
  /\ pushes < MaxPushes
  /\ pushes' = pushes + 1
  /\ \A a \in Actors : \A v \in created[a] : row[v] # "none"
  /\ row'     = [v \in Variants |-> IF row[v] = "none" THEN "not_synced" ELSE row[v]]
  /\ batches' = [b \in SUBSET Variants |-> IF b \in Batches THEN batches[b] + 1 ELSE batches[b]]
  /\ Commit(Config, {v \in Variants : row[v] = "none"})
  /\ UNCHANGED <<given, current, remote, queue, pc, goal, seen, created, todo, refused,
                 changes, failures, ghosts>>

ConfigWritten ==
  /\ pushes < MaxPushes
  /\ pushes' = pushes + 1
  /\ Commit(Config, {Config})
  /\ UNCHANGED <<rejected, current, remote, row, queue, batches, pc, goal, seen, created, todo,
                 refused, changes, failures, ghosts>>

\* A pull of orders ends.
PullEnds == ConfigWritten /\ UNCHANGED enabled

\* The switch of the configuration's form.
Switch == ConfigWritten /\ enabled' = ~enabled

-----------------------------------------------------------------------------
Push(a) ==
  \/ PushPrepare(a) \/ PushSend(a) \/ PushCommit(a) \/ PushRefused(a) \/ PushCrash(a)

Next ==
  \/ \E w \in Workers : \/ \E v \in Variants, f \in Field : JobBegin(w, v, f)
                        \/ \E b \in Batches : BatchBegin(w, b)
  \/ CronBegin
  \/ \E u \in Users : PushRerun(u) \/ \E v \in Variants : UserBegin(u, v)
  \/ \E a \in Actors : Push(a)
  \/ \E v \in Variants, f \in Field : Change(v, f)
  \/ SyncAll \/ PullEnds \/ JobSkip \/ Switch

Spec == Init /\ [][Next]_vars

\* The cron runs every two minutes; the cron and the workers end what they begin.
Fairness ==
  /\ WF_vars(CronBegin)
  /\ \A w \in Workers :
       WF_vars(\/ \E v \in Variants, f \in Field : JobBegin(w, v, f)
               \/ \E b \in Batches : BatchBegin(w, b))
  /\ \A a \in Actors :
       WF_vars(PushPrepare(a) \/ PushSend(a) \/ PushCommit(a) \/ PushRefused(a)
               \/ (a \in Users /\ PushRerun(a)))

FairSpec == Spec /\ Fairness

-----------------------------------------------------------------------------
(* Properties *)

\* No push of the variant is under way or waiting.
AtRest(v) ==
  /\ \A f \in Field : queue[v][f] = 0
  /\ \A b \in Batches : v \in b => batches[b] = 0
  /\ \A a \in Actors : v \notin goal[a].variants

\* A variant at rest that is marked as synced has, at Cartona, the current
\* value of every field, in whatever order pushes read, sent and committed,
\* unless since the last push of the field began one failed or was not made
\* (the configuration was disabled), or a push nobody repeats (the cron's, a
\* user's that died) may have sent it too.
SyncedIsCurrent ==
  \A v \in Variants : AtRest(v) /\ row[v] = "synced" =>
    \A f \in Field : <<v, f>> \notin unsent \cup stray => remote[v][f] = current[v][f]

\* Unless the configuration stays disabled, every variant that has a failed or
\* missing push is synced in the end, by the retry cron if by nobody else:
\* though other transactions keep rolling it back through the configuration
\* row, and though it retries, before this one, variants Cartona always
\* refuses, as long as these leave room in a retry and are not sent with it.
Retriable(v) ==
  /\ v \notin rejected
  /\ Cardinality(rejected) < RetryLimit
  /\ BatchSize = 1 \/ rejected = {}
EventuallySynced ==
  <>[]enabled =>
    \A v \in Variants : Retriable(v) /\ row[v] # "synced" ~> row[v] = "synced"

\* README.md, Architecture: "Odoo -> Cartona price | Variant lst_price write".
\* The same as SyncedIsCurrent, for prices and without the exception.
PriceReachesCartona ==
  \A v \in Variants : AtRest(v) /\ row[v] = "synced" /\ <<v, "price">> \notin unsent =>
    remote[v]["price"] = current[v]["price"]
=============================================================================
