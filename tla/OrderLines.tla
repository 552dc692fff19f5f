----------------------------- MODULE OrderLines -----------------------------
(***************************************************************************)
(* The lines of one order imported from Cartona.  Users change, add and    *)
(* remove them; a job reports all lines after a change, another one the    *)
(* cancellation of a line that was removed.  Pulls compare the lines with  *)
(* Cartona's, refuse the order when they differ, and create the lines of   *)
(* an order that has lost them all.                                        *)
(*                                                                         *)
(* OrderSync models the order's status; here pulls and users confirm the   *)
(* order and write its row, which is what the reports' transactions meet   *)
(* on.  Assumed of Cartona: it lists what it was told last.                *)
(***************************************************************************)
EXTENDS Naturals

CONSTANTS
  Imported,    \* lines that came from Cartona
  Added,       \* lines a user may add
  Workers,     \* workers that run the jobs
  Pullers,     \* processes that pull orders
  MaxEdits,    \* bound: changes users make
  MaxFailures  \* bound: reports Cartona refuses, jobs that are killed

ASSUME LinesAssumption ==
  /\ Imported \cap Added = {}
  /\ Workers \cap Pullers = {}
  /\ {MaxEdits, MaxFailures} \subseteq Nat

VARIABLES
  lines,      \* version of each line's values, 0 for a line that is not there
  named,      \* lines with a cartona_line_id
  confirmed,  \* the order is not a draft any more
  told,       \* version Cartona was told last, 0 if it does not know the line
  cancelled,  \* lines it was told after that are cancelled
  details,    \* waiting jobs that report the lines
  cancels,    \* waiting jobs that cancel a line
  pc,         \* where each transaction is
  snap,       \* its snapshot
  missed,     \* the order's row was committed by others since
  got,        \* a pull's lines, as Cartona lists them
  edits, failures,
  owed,       \* ghost: the last report of the lines was refused
  stray       \* ghost: lines whose cancellation was refused, undone or overtaken

report  == <<told, cancelled, details, cancels>>
budgets == <<edits, failures>>
ghosts  == <<owed, stray>>
vars    == <<lines, named, confirmed, report, pc, snap, missed, got, budgets, ghosts>>

-----------------------------------------------------------------------------
Line     == Imported \cup Added
Actors   == Workers \cup Pullers
Unlisted == [l \in Line |-> 0]
Snapshot == [lines |-> lines, named |-> named, confirmed |-> confirmed]
NoSnapshot == [lines |-> Unlisted, named |-> {}, confirmed |-> FALSE]

TypeOK ==
  /\ {lines, told} \subseteq [Line -> Nat]
  /\ named \subseteq {l \in Line : lines[l] # 0}
  /\ confirmed \in BOOLEAN
  /\ cancelled \subseteq {l \in Line : told[l] # 0}
  /\ details \in Nat /\ cancels \in [Line -> Nat]
  /\ pc   \in [Actors -> {"idle", "open", "sent", "refused", "fetched"}]
  /\ snap \in [Actors -> [lines : [Line -> Nat], named : SUBSET Line, confirmed : BOOLEAN]]
  /\ missed \in [Actors -> BOOLEAN]
  /\ got \in [Pullers -> [Line -> Nat]]
  /\ {edits, failures} \subseteq Nat
  /\ owed \in BOOLEAN /\ stray \subseteq Line

Init ==
  /\ lines = [l \in Line |-> IF l \in Imported THEN 1 ELSE 0]
  /\ named = Imported
  /\ confirmed = FALSE
  /\ told = lines /\ cancelled = {}
  /\ details = 0 /\ cancels = Unlisted
  /\ pc     = [a \in Actors |-> "idle"]
  /\ snap   = [a \in Actors |-> NoSnapshot]
  /\ missed = [a \in Actors |-> FALSE]
  /\ got    = [p \in Pullers |-> Unlisted]
  /\ edits = 0 /\ failures = 0
  /\ owed = FALSE /\ stray = {}

-----------------------------------------------------------------------------
(* Transactions; a name with a suffix is a faulty variant.                 *)

Open(a) ==
  /\ pc[a] = "idle"
  /\ pc'     = [pc EXCEPT ![a] = "open"]
  /\ snap'   = [snap EXCEPT ![a] = Snapshot]
  /\ missed' = [missed EXCEPT ![a] = FALSE]

\* Commit a write of the order's row: of an actor, or of a user.
Write(acts) == missed' = [a \in Actors |-> a \notin acts /\ pc[a] # "idle"]
NoWrite(a)  == missed' = [missed EXCEPT ![a] = FALSE]

Close(a) ==
  /\ pc'   = [pc EXCEPT ![a] = "idle"]
  /\ snap' = [snap EXCEPT ![a] = NoSnapshot]

Fails == failures < MaxFailures /\ failures' = failures + 1

-----------------------------------------------------------------------------
(* Users.  Odoo re-runs their requests on a conflict.                      *)

Edit == edits < MaxEdits /\ edits' = edits + 1

\* write: a change of quantity or price changes the order's amounts, and so
\* its row; one of the notes does not.
UserChange(l) ==
  /\ Edit
  /\ lines[l] # 0
  /\ lines'   = [lines EXCEPT ![l] = @ + 1]
  /\ details' = details + 1
  /\ Write({}) \/ UNCHANGED missed
  /\ UNCHANGED <<named, confirmed, told, cancelled, cancels, pc, snap, got, failures, ghosts>>

\* create
UserAdd(l) ==
  /\ Edit
  /\ l \in Added /\ lines[l] = 0 /\ told[l] = 0
  /\ lines'   = [lines EXCEPT ![l] = 1]
  /\ details' = details + 1
  /\ Write({})
  /\ UNCHANGED <<named, confirmed, told, cancelled, cancels, pc, snap, got, failures, ghosts>>

\* unlink, which Odoo refuses once the order is confirmed
Cancels(l) == IF l \in named THEN [cancels EXCEPT ![l] = @ + 1] ELSE cancels
UserRemove(l) ==
  /\ Edit
  /\ ~confirmed
  /\ lines[l] # 0
  /\ lines'   = [lines EXCEPT ![l] = 0]
  /\ named'   = named \ {l}
  /\ cancels' = Cancels(l)
  /\ Write({})
  /\ UNCHANGED <<confirmed, told, cancelled, details, pc, snap, got, failures, ghosts>>

UserConfirm ==
  /\ Edit
  /\ ~confirmed
  /\ confirmed' = TRUE
  /\ Write({})
  /\ UNCHANGED <<lines, named, report, pc, snap, got, failures, ghosts>>

-----------------------------------------------------------------------------
(* _sync_order_details_to_cartona *)

DetailsBegin(w) ==
  /\ details > 0
  /\ details' = details - 1
  /\ Open(w)
  /\ UNCHANGED <<lines, named, confirmed, told, cancelled, cancels, got, budgets, ghosts>>

\* All lines of the snapshot are sent; the removed ones are not mentioned.
Sent(w) == {l \in Line : snap[w].lines[l] # 0}
DetailsSend(w) ==
  /\ pc[w] = "open"
  /\ \/ /\ pc' = [pc EXCEPT ![w] = "sent"]
        /\ told' = [l \in Line |-> IF l \in Sent(w) THEN snap[w].lines[l] ELSE told[l]]
        /\ cancelled' = cancelled \ Sent(w)
        /\ stray' = stray \cup (cancelled \cap Sent(w))
        /\ UNCHANGED failures
     \/ /\ Sent(w) # {}
        /\ Fails
        /\ pc' = [pc EXCEPT ![w] = "refused"]
        /\ UNCHANGED <<told, cancelled, stray>>
  /\ UNCHANGED <<lines, named, confirmed, details, cancels, snap, missed, got, edits, owed>>

\* The status of the order is written, 'synced' or 'error'.
Overtaken_Never(a) == FALSE
Overtaken(a) == missed[a]

DetailsCommit(w) ==
  /\ pc[w] \in {"sent", "refused"}
  /\ ~Overtaken(w)
  /\ Write({w})
  /\ owed' = (pc[w] = "refused")
  /\ Close(w)
  /\ UNCHANGED <<lines, named, confirmed, report, got, budgets, stray>>

Requeued_Dropped == details
Requeued == details + 1

\* The job is postponed after a conflict, or requeued after its worker died.
DetailsAgain(w) ==
  /\ w \in Workers /\ pc[w] # "idle"
  /\ \/ pc[w] \in {"sent", "refused"} /\ Overtaken(w) /\ UNCHANGED failures
     \/ Fails
  /\ details' = Requeued
  /\ NoWrite(w)
  /\ Close(w)
  /\ UNCHANGED <<lines, named, confirmed, told, cancelled, cancels, got, edits, ghosts>>

-----------------------------------------------------------------------------
(* _sync_cancelled_line_to_cartona.  It writes nothing and does not look    *)
(* at the answer; killed before it is done, it is repeated.                 *)

CancelSend(l) ==
  /\ cancels[l] > 0
  /\ \/ /\ cancelled' = IF told[l] # 0 THEN cancelled \cup {l} ELSE cancelled
        /\ \/ cancels' = [cancels EXCEPT ![l] = @ - 1] /\ UNCHANGED failures
           \/ Fails /\ UNCHANGED cancels
        /\ UNCHANGED stray
     \/ /\ Fails
        /\ cancels' = [cancels EXCEPT ![l] = @ - 1]
        /\ stray' = stray \cup {l}
        /\ UNCHANGED cancelled
  /\ UNCHANGED <<lines, named, confirmed, told, details, pc, snap, missed, got, edits, owed>>

-----------------------------------------------------------------------------
(* Pulls *)

PullBegin(p) ==
  /\ Open(p)
  /\ UNCHANGED <<lines, named, confirmed, report, got, budgets, ghosts>>

Listed == [l \in Line |-> IF l \in cancelled THEN 0 ELSE told[l]]
PullFetch(p) ==
  /\ pc[p] = "open"
  /\ pc'  = [pc EXCEPT ![p] = "fetched"]
  /\ got' = [got EXCEPT ![p] = Listed]
  /\ UNCHANGED <<lines, named, confirmed, report, snap, missed, budgets, ghosts>>

\* _ensure_order_lines compares identifiers and quantities; lines of different
\* versions may have the same quantity.
SameLines(p) ==
  /\ \A l \in Line : (snap[p].lines[l] = 0) = (got[p][l] = 0)
  /\ \A l \in Line : snap[p].lines[l] # 0 => l \in snap[p].named
MayDiffer(p) == ~SameLines(p) \/ snap[p].lines # got[p]

PullEnds(p) ==
  /\ pc[p] = "fetched"
  /\ Close(p)
  /\ got' = [got EXCEPT ![p] = Unlisted]
  /\ UNCHANGED <<report, budgets, owed>>

\* The order is up to date, or its payload has no lines and is rejected; or the
\* transaction is rolled back.
PullNothing(p) ==
  /\ PullEnds(p)
  /\ NoWrite(p)
  /\ UNCHANGED <<lines, named, confirmed, stray>>

\* Cartona's new status is applied, which may confirm the order.
PullStatus(p) ==
  /\ PullEnds(p)
  /\ SameLines(p) /\ \E l \in Line : got[p][l] # 0
  /\ ~Overtaken(p)
  /\ confirmed' \in {confirmed, TRUE}
  /\ Write({p})
  /\ UNCHANGED <<lines, named, stray>>

\* The order is marked: its lines differ.
PullRefuse(p) ==
  /\ PullEnds(p)
  /\ MayDiffer(p) /\ \E l \in Line : got[p][l] # 0
  /\ snap[p].confirmed \/ \E l \in Line : snap[p].lines[l] # 0
  /\ ~Overtaken(p)
  /\ Write({p})
  /\ UNCHANGED <<lines, named, confirmed, stray>>

\* _create_order_lines, for a draft that has none
Restored_All(p) == Line
Restored(p) == {l \in Line : got[p][l] # 0}
PullRestore(p) ==
  /\ PullEnds(p)
  /\ \E l \in Line : got[p][l] # 0
  /\ ~snap[p].confirmed /\ \A l \in Line : snap[p].lines[l] = 0
  /\ ~Overtaken(p)
  /\ lines' = [l \in Line |-> IF l \in Restored(p) THEN got[p][l] ELSE lines[l]]
  /\ named' = named \cup Restored(p)
  /\ confirmed' \in {confirmed, TRUE}
  /\ stray' = stray \cup Restored(p)
  /\ Write({p})

-----------------------------------------------------------------------------
User == UserConfirm \/ \E l \in Line : UserChange(l) \/ UserAdd(l) \/ UserRemove(l)

Work(w) == DetailsBegin(w) \/ DetailsSend(w) \/ DetailsCommit(w) \/ DetailsAgain(w)

Pull(p) ==
  \/ PullBegin(p) \/ PullFetch(p)
  \/ PullNothing(p) \/ PullStatus(p) \/ PullRefuse(p) \/ PullRestore(p)

Next ==
  \/ User
  \/ \E w \in Workers : Work(w)
  \/ \E l \in Line : CancelSend(l)
  \/ \E p \in Pullers : Pull(p)

Spec == Init /\ [][Next]_vars

\* Workers take jobs and end them.  Users and pulls are not fair.
Fairness ==
  /\ WF_vars(\E w \in Workers : DetailsBegin(w))
  /\ \A w \in Workers : WF_vars(DetailsSend(w) \/ DetailsCommit(w) \/ DetailsAgain(w))
  /\ \A l \in Line : WF_vars(CancelSend(l))

FairSpec == Spec /\ Fairness

-----------------------------------------------------------------------------
(* Properties *)

AtRest ==
  /\ details = 0 /\ \A l \in Line : cancels[l] = 0
  /\ \A w \in Workers : pc[w] = "idle"

\* When no job of the order is left, the last thing Cartona was told of a line
\* is what the order has: its present values, or that it is cancelled, in
\* whatever order reports and cancellations were sent.  Excepted are a refused
\* report, which nothing repeats, lines whose cancellation was refused or
\* overtaken by an older report, lines a pull has restored, and removed lines
\* that a user had added: they have no identifier to be cancelled by.
ToldAtRest ==
  AtRest => \A l \in Line \ stray :
    IF lines[l] # 0 THEN owed \/ (told[l] = lines[l] /\ l \notin cancelled)
                    ELSE l \in Imported => l \in cancelled

\* A pull creates lines for an order only if it is a draft without lines when
\* the pull commits, not just in its snapshot; no user's line is doubled.
PullRestoresOnlyEmptyDrafts ==
  [][\A p \in Pullers :
       pc[p] = "fetched" /\ pc'[p] = "idle" /\ lines' # lines
         => ~confirmed /\ \A l \in Line : lines[l] = 0]_vars

\* Cartona is told the present values of a line in the end, unless the line is
\* removed or a report is refused; though pulls that refuse the order
\* keep rolling the report back.
Current(l) == lines[l] # 0 => told[l] = lines[l] /\ l \notin cancelled
EventuallyTold ==
  \A l \in Line : ~Current(l) ~> (Current(l) \/ owed \/ l \in stray)
=============================================================================
